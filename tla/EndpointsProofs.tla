-------------------------- MODULE EndpointsProofs --------------------------
(***************************************************************************)
(* The properties of Endpoints hold for any names, requests and number of  *)
(* overlapping calls and faults.                                           *)
(***************************************************************************)
EXTENDS Endpoints, TLAPS

Values == Rows \cup Secrets \cup Certs \cup {None}

-----------------------------------------------------------------------------
(* Lemmas about requests and what they write *)

LEMMA RequestTypes ==
    ASSUME NEW r \in Requests
    PROVE  /\ r.name \in Names /\ r.verb \in {"create", "update", "delete", "connect"}
           /\ r.ref \in BOOLEAN
           /\ r.pin # Keep => r.pin \in Certs \cup {None}
           /\ r.verb = "create" => NewRow(r) \in Rows /\ r.ref
           /\ \A old \in Rows : Patched(old, r) \in Rows
<1>1. r \in Request
  BY EndpointsAssumption
<1>2. /\ r.name \in Names /\ r.verb \in {"create", "update", "delete", "connect"}
      /\ r.ref \in BOOLEAN
      /\ r.id \in Ids \cup {Keep} /\ r.insecure \in BOOLEAN \cup {Keep}
      /\ r.enabled \in BOOLEAN \cup {Keep} /\ r.pin \in Certs \cup {None, Keep}
  BY <1>1 DEF Request
<1>3. r.verb = "create" => r.id # Keep /\ r.insecure # Keep /\ r.ref
  BY EndpointsAssumption
<1>4. r.verb = "create" => NewRow(r) \in Rows
  BY <1>2, <1>3 DEF NewRow, Rows
<1>5. ASSUME NEW old \in Rows
      PROVE  Patched(old, r) \in Rows
  <2>1. old.id \in Ids /\ old.insecure \in BOOLEAN /\ old.enabled \in BOOLEAN
    BY DEF Rows
  <2>2. /\ Given(r.id, old.id) \in Ids /\ Given(r.insecure, old.insecure) \in BOOLEAN
        /\ Given(r.enabled, old.enabled) \in BOOLEAN
    BY <1>2, <2>1 DEF Given
  <2> QED BY <2>2 DEF Patched, Rows
<1> QED BY <1>2, <1>3, <1>4, <1>5

LEMMA GoneIs ==
    \A upto, part :
        /\ part \in DOMAIN Gone(upto) <=>
              \/ part = "row" /\ upto # "row"
              \/ part = "secret" /\ upto \in {"pin", "end"}
              \/ part = "pin" /\ upto = "end"
        /\ part \in DOMAIN Gone(upto) => Gone(upto)[part] = None
BY DEF Gone, Parts

LEMMA AppliedIs ==
    \A p, upto, part :
        /\ part \in DOMAIN Applied(p, upto) <=>
              \/ part = "secret" /\ req[p].ref /\ upto # "secret"
              \/ part = "row" /\ PatchesRow(req[p]) /\ upto \in {"pin", "end"}
              \/ part = "pin" /\ req[p].pin # Keep /\ upto = "end"
        /\ part \in DOMAIN Applied(p, upto) =>
              Applied(p, upto)[part] = IF part = "secret" THEN got[p]
                                       ELSE IF part = "row" THEN Patched(read[p], req[p])
                                       ELSE req[p].pin
BY DEF Applied, Parts

LEMMA CreateWrittenIs ==
    \A p, part :
        /\ part \in DOMAIN CreateWritten(p) <=>
              \/ part = "row" /\ pc[p] # "insert"
              \/ part = "secret" /\ pc[p] = "pin"
        /\ part \in DOMAIN CreateWritten(p) =>
              CreateWritten(p)[part] = IF part = "row" THEN NewRow(req[p]) ELSE got[p]
BY DEF CreateWritten, Parts

LEMMA OutcomeIs ==
    \A p, part :
        /\ req[p].verb = "update" => Outcome(p) = Applied(p, "end")
        /\ req[p].verb # "update" =>
              /\ part \in DOMAIN Outcome(p) <=>
                    part \in Parts /\ (part = "pin" => req[p].pin # Keep)
              /\ part \in DOMAIN Outcome(p) =>
                    Outcome(p)[part] = IF part = "secret" THEN got[p]
                                       ELSE IF part = "row" THEN NewRow(req[p]) ELSE req[p].pin
BY DEF Outcome, Parts

\* Where an update goes, and what it has written when it is there.
LEMMA NextWriteIs ==
    ASSUME NEW r
    PROVE  /\ NextWrite(r, "start") = "secret" <=> r.ref = TRUE
           /\ \A done \in {"start", "secret", "row"} :
                 NextWrite(r, done) \in {"secret", "row", "pin", "drop"}
BY DEF NextWrite

-----------------------------------------------------------------------------
(* What a step of a running call may do *)

\* The types, but for what a call needs.
BaseOK ==
    /\ row \in [Names -> Rows \cup {None}]
    /\ secret \in [Names -> Secrets \cup {None}]
    /\ pin \in [Names -> Certs \cup {None}]
    /\ staged \in [Names -> Secrets \cup {None}]
    /\ pc \in [Procs -> Steps] /\ req \in [Procs -> Requests]
    /\ read \in [Procs -> Rows \cup {None}]
    /\ got \in [Procs -> Secrets \cup {None}]
    /\ reply \in [Procs -> {"none", "ok", "failed"}]
    /\ conn \in [Procs -> Connections]
    /\ calls \in 0 .. MaxCalls /\ mishaps \in 0 .. MaxFaults
    /\ alone \in [Procs -> BOOLEAN]
    /\ expected \in [Names -> [Parts -> Values]]
    /\ doubt \in [Names -> SUBSET Parts]

\* It leaves other endpoints and other calls alone.
Frame(p) ==
    /\ UNCHANGED <<req, calls, alone>>
    /\ \A q \in Procs : q # p => /\ pc'[q] = pc[q] /\ read'[q] = read[q] /\ got'[q] = got[q]
                                /\ conn'[q] = conn[q]
    /\ \A m \in Names : m # req[p].name =>
          /\ row'[m] = row[m] /\ secret'[m] = secret[m] /\ pin'[m] = pin[m]
          /\ staged'[m] = staged[m] /\ expected'[m] = expected[m] /\ doubt'[m] = doubt[m]

\* What is not in doubt after it is as the replies say.
Told(p) ==
    \A part \in Parts : part \notin doubt'[req[p].name] =>
        Stored(part, req[p].name)' = expected'[req[p].name][part]

\* A step of a call that changes an endpoint.
Changed(p) ==
    /\ BaseOK' /\ Frame(p) /\ UNCHANGED <<read, got, conn>> /\ InPlace(p)'
    /\ pc'[p] = "idle" => Told(p)
    /\ pc'[p] # "idle" => /\ alone[p] => AsWritten(p)'
                          /\ UNCHANGED <<staged, expected, doubt>>

LEMMA BaseIs ==
    /\ TypeOK <=> /\ BaseOK
                  /\ \A p \in Procs : NeedsSecret(p) => got[p] # None
                  /\ \A p \in Procs : NeedsRow(p) => read[p] # None
BY DEF TypeOK, BaseOK, Values

LEMMA ConcludedIs ==
    ASSUME BaseOK, NEW p \in Procs, NEW sure, NEW unsure \in SUBSET Parts, Concluded(p, sure, unsure),
           \A part \in Parts : part \in DOMAIN sure => sure[part] \in Values
    PROVE  /\ expected' \in [Names -> [Parts -> Values]] /\ doubt' \in [Names -> SUBSET Parts]
           /\ \A m \in Names : m # req[p].name => expected'[m] = expected[m] /\ doubt'[m] = doubt[m]
           /\ \A part \in Parts :
                 expected'[req[p].name][part] =
                    IF part \in DOMAIN sure THEN sure[part] ELSE expected[req[p].name][part]
           /\ doubt'[req[p].name] =
                 IF alone[p] THEN (doubt[req[p].name] \ DOMAIN sure) \cup unsure ELSE Parts
<1> DEFINE n == req[p].name
           e == [part \in Parts |-> IF part \in DOMAIN sure THEN sure[part] ELSE expected[n][part]]
           d == IF alone[p] THEN (doubt[n] \ DOMAIN sure) \cup unsure ELSE Parts
<1>1. n \in Names
  BY RequestTypes DEF BaseOK
<1>2. expected' = [expected EXCEPT ![n] = e] /\ doubt' = [doubt EXCEPT ![n] = d]
  BY DEF Concluded
<1>3. e \in [Parts -> Values]
  BY <1>1 DEF BaseOK
<1>4. d \in SUBSET Parts
  BY <1>1 DEF BaseOK
<1>5. \A part \in Parts : e[part] = IF part \in DOMAIN sure THEN sure[part] ELSE expected[n][part]
  OBVIOUS
<1>6. /\ expected' \in [Names -> [Parts -> Values]] /\ doubt' \in [Names -> SUBSET Parts]
      /\ expected'[n] = e /\ doubt'[n] = d
      /\ \A m \in Names : m # n => expected'[m] = expected[m] /\ doubt'[m] = doubt[m]
  <2> HIDE DEF n, e, d
  <2> QED BY <1>1, <1>2, <1>3, <1>4 DEF BaseOK
<1> QED BY <1>5, <1>6

\* A call that ends tells the truth if what it is sure of is stored and what it is
\* neither sure nor unsure of is as it was.
LEMMA ConcludesRight ==
    ASSUME BaseOK, NEW p \in Procs, NEW sure, NEW unsure \in SUBSET Parts, Concluded(p, sure, unsure),
           \A part \in Parts : part \in DOMAIN sure => sure[part] \in Values,
           alone[p] => \A part \in Parts :
              /\ part \in DOMAIN sure \ unsure => Stored(part, req[p].name)' = sure[part]
              /\ part \notin DOMAIN sure \cup unsure \cup doubt[req[p].name] =>
                    Stored(part, req[p].name)' = expected[req[p].name][part]
    PROVE  Told(p)
<1>0. /\ \A part \in Parts :
            expected'[req[p].name][part] =
               IF part \in DOMAIN sure THEN sure[part] ELSE expected[req[p].name][part]
      /\ doubt'[req[p].name] =
            IF alone[p] THEN (doubt[req[p].name] \ DOMAIN sure) \cup unsure ELSE Parts
  BY ConcludedIs, Zenon
<1> SUFFICES ASSUME NEW part \in Parts, part \notin doubt'[req[p].name]
             PROVE  Stored(part, req[p].name)' = expected'[req[p].name][part]
  BY DEF Told
<1>1. /\ expected'[req[p].name][part] =
            IF part \in DOMAIN sure THEN sure[part] ELSE expected[req[p].name][part]
      /\ doubt'[req[p].name] =
            IF alone[p] THEN (doubt[req[p].name] \ DOMAIN sure) \cup unsure ELSE Parts
  BY <1>0
<1>2. alone[p] /\ part \notin unsure /\ (part \in DOMAIN sure \/ part \notin doubt[req[p].name])
  <2>1. alone[p]
    BY <1>1
  <2> QED BY <1>1, <2>1
<1>3. CASE part \in DOMAIN sure
  BY <1>1, <1>2, <1>3
<1>4. CASE part \notin DOMAIN sure
  BY <1>1, <1>2, <1>4
<1> QED BY <1>3, <1>4

LEMMA FaultTypes ==
    ASSUME BaseOK, Fault \/ UNCHANGED mishaps
    PROVE  mishaps' \in 0 .. MaxFaults
BY EndpointsAssumption DEF BaseOK, Fault

LEMMA PutIs ==
    ASSUME NEW S, NEW D, NEW f \in [D -> S], NEW n \in D, NEW v \in S
    PROVE  /\ [f EXCEPT ![n] = v] \in [D -> S] /\ [f EXCEPT ![n] = v][n] = v
           /\ \A m \in D : m # n => [f EXCEPT ![n] = v][m] = f[m]
OBVIOUS

\* What is known of a call that changes an endpoint.
LEMMA Here ==
    ASSUME EndpointsInv, NEW p \in Procs, Changes(p)
    PROVE  /\ BaseOK /\ InPlace(p) /\ req[p] \in Requests /\ req[p].name \in Names
           /\ req[p].verb = "create" => NewRow(req[p]) \in Rows /\ req[p].ref
           /\ req[p].verb \in {"create", "update"} /\ req[p].ref => got[p] \in Secrets
           /\ req[p].verb = "update" => read[p] \in Rows /\ Patched(read[p], req[p]) \in Rows
           /\ req[p].pin # Keep => req[p].pin \in Certs \cup {None}
           /\ alone[p] => AsWritten(p)
<1>1. TypeOK /\ BaseOK
  BY BaseIs DEF EndpointsInv
<1>2. InPlace(p) /\ (alone[p] => AsWritten(p))
  BY DEF EndpointsInv, PlaceInv, WrittenInv
<1>3. req[p] \in Requests
  BY <1>1 DEF BaseOK
<1>4. req[p].verb \in {"create", "update"} /\ req[p].ref => got[p] \in Secrets
  BY <1>1 DEF TypeOK, NeedsSecret, Changes
<1>5. req[p].verb = "update" => read[p] \in Rows
  BY <1>1 DEF TypeOK, NeedsRow, Changes
<1> QED BY <1>1, <1>2, <1>3, <1>4, <1>5, RequestTypes

\* A step that goes on.
LEMMA GoesOn ==
    ASSUME EndpointsInv, NEW p \in Procs, Changes(p), NEW w \in Steps, w # "idle", Goes(p, w),
           UNCHANGED <<staged, req, read, got, reply, conn, calls, alone, expected, doubt>>,
           Fault \/ UNCHANGED mishaps,
           row' \in [Names -> Rows \cup {None}], secret' \in [Names -> Secrets \cup {None}],
           pin' \in [Names -> Certs \cup {None}],
           \A m \in Names : m # req[p].name =>
              row'[m] = row[m] /\ secret'[m] = secret[m] /\ pin'[m] = pin[m],
           InPlace(p)', alone[p] => AsWritten(p)'
    PROVE  Changed(p)
<1>1. BaseOK
  BY Here
<1>2. pc' \in [Procs -> Steps] /\ pc'[p] = w /\ \A q \in Procs : q # p => pc'[q] = pc[q]
  BY <1>1 DEF Goes, BaseOK
<1>3. mishaps' \in 0 .. MaxFaults
  BY <1>1, FaultTypes
<1>4. BaseOK'
  BY <1>1, <1>2, <1>3 DEF BaseOK
<1>5. Frame(p)
  BY <1>2 DEF Frame
<1> QED BY <1>2, <1>4, <1>5 DEF Changed

\* A step that ends the call.
LEMMA EndsIt ==
    ASSUME EndpointsInv, NEW p \in Procs, Changes(p), NEW r \in {"none", "ok", "failed"}, Ends(p, r),
           NEW sure, NEW unsure \in SUBSET Parts, Concluded(p, sure, unsure),
           \A part \in Parts : part \in DOMAIN sure => sure[part] \in Values,
           UNCHANGED <<req, read, got, conn, calls, alone>>,
           Fault \/ UNCHANGED mishaps,
           row' \in [Names -> Rows \cup {None}], secret' \in [Names -> Secrets \cup {None}],
           pin' \in [Names -> Certs \cup {None}], staged' \in [Names -> Secrets \cup {None}],
           \A m \in Names : m # req[p].name =>
              row'[m] = row[m] /\ secret'[m] = secret[m] /\ pin'[m] = pin[m] /\ staged'[m] = staged[m],
           alone[p] => \A part \in Parts :
              /\ part \in DOMAIN sure \ unsure => Stored(part, req[p].name)' = sure[part]
              /\ part \notin DOMAIN sure \cup unsure \cup doubt[req[p].name] =>
                    Stored(part, req[p].name)' = expected[req[p].name][part]
    PROVE  Changed(p)
<1>1. BaseOK
  BY Here
<1>2. /\ pc' \in [Procs -> Steps] /\ pc'[p] = "idle" /\ \A q \in Procs : q # p => pc'[q] = pc[q]
      /\ reply' \in [Procs -> {"none", "ok", "failed"}]
  BY <1>1 DEF Ends, BaseOK, Steps
<1>3. mishaps' \in 0 .. MaxFaults
  BY <1>1, FaultTypes
<1>4. Told(p)
  BY <1>1, ConcludesRight, Zenon
<1>5. /\ expected' \in [Names -> [Parts -> Values]] /\ doubt' \in [Names -> SUBSET Parts]
      /\ \A m \in Names : m # req[p].name => expected'[m] = expected[m] /\ doubt'[m] = doubt[m]
  BY <1>1, ConcludedIs, Zenon
<1>6. BaseOK'
  BY <1>1, <1>2, <1>3, <1>5 DEF BaseOK
<1>7. Frame(p)
  BY <1>2, <1>5 DEF Frame
<1>8. InPlace(p)'
  BY <1>2 DEF InPlace
<1> QED BY <1>2, <1>4, <1>6, <1>7, <1>8 DEF Changed

-----------------------------------------------------------------------------
(* The steps of create *)

LEMMA NothingIs == DOMAIN Nothing = {}
BY DEF Nothing

\* What a create that is alone has written.
LEMMA CreateSoFar ==
    ASSUME EndpointsInv, NEW p \in Procs, Changes(p), req[p].verb = "create", alone[p], NEW n,
           n = req[p].name
    PROVE  /\ pc[p] # "insert" => row[n] = NewRow(req[p])
           /\ pc[p] = "insert" /\ "row" \notin doubt[n] => row[n] = expected[n]["row"]
           /\ pc[p] \in {"pin", "drop"} => secret[n] = got[p]
           /\ pc[p] \in {"insert", "secret"} /\ "secret" \notin doubt[n] =>
                 secret[n] = expected[n]["secret"]
           /\ pc[p] = "drop" /\ req[p].pin # Keep => pin[n] = req[p].pin
           /\ /\ pc[p] \in {"insert", "secret", "pin"} \/ (pc[p] = "drop" /\ req[p].pin = Keep)
              /\ "pin" \notin doubt[n]
              => pin[n] = expected[n]["pin"]
<1>1. AsWritten(p) /\ InPlace(p) /\ pc[p] # "idle"
  BY Here DEF Changes
<1>2. pc[p] \in {"insert", "secret", "pin", "undo", "drop"}
  BY <1>1 DEF InPlace
<1>3. CASE pc[p] = "drop"
  BY <1>1, <1>3, OutcomeIs DEF AsWritten, Written, Stored, Unsettled, Parts
<1>4. CASE pc[p] # "drop"
  <2>1. Written(p) = CreateWritten(p)
    BY <1>4 DEF Written
  <2> QED BY <1>1, <1>2, <1>4, <2>1, CreateWrittenIs DEF AsWritten, Stored, Unsettled, Parts
<1> QED BY <1>3, <1>4

LEMMA CreateInsertChanges ==
    ASSUME EndpointsInv, NEW p \in Procs, CreateInsert(p)
    PROVE  Changed(p)
<1> DEFINE n == req[p].name
<1>1. Changes(p) /\ req[p].verb = "create" /\ pc[p] = "insert"
  BY DEF CreateInsert, At, Changes
<1>2. /\ BaseOK /\ n \in Names /\ NewRow(req[p]) \in Rows
  BY <1>1, Here
<1>3. UNCHANGED <<secret, pin, staged, req, read, got, conn, calls, alone>>
  BY DEF CreateInsert
<1>4. CASE row[n] # None /\ Ends(p, "failed") /\ Concluded(p, Nothing, {}) /\ UNCHANGED <<row, mishaps>>
  <2>1. alone[p] => \A part \in Parts : part \notin doubt[n] =>
          Stored(part, n)' = expected[n][part]
    BY <1>1, <1>3, <1>4, CreateSoFar DEF Stored, Parts
  <2> QED BY <1>1, <1>2, <1>3, <1>4, <2>1, EndsIt, NothingIs DEF BaseOK
<1>5. CASE /\ row' = Put(row, n, NewRow(req[p])) /\ Goes(p, "secret")
           /\ UNCHANGED <<reply, mishaps, expected, doubt>>
  <2>1. /\ row' \in [Names -> Rows \cup {None}] /\ row'[n] = NewRow(req[p])
        /\ \A m \in Names : m # n => row'[m] = row[m]
    BY <1>2, <1>5 DEF Put, BaseOK
  <2>2. pc'[p] = "secret"
    BY <1>2, <1>5 DEF Goes, BaseOK
  <2>3. alone[p] => AsWritten(p)'
    BY <1>1, <1>3, <1>5, <2>1, <2>2, CreateSoFar
       DEF AsWritten, Written, CreateWritten, Stored, Unsettled, Parts
  <2>4. InPlace(p)'
    BY <1>1, <1>3, <2>2 DEF InPlace
  <2>5. /\ secret' \in [Names -> Secrets \cup {None}] /\ pin' \in [Names -> Certs \cup {None}]
        /\ \A m \in Names : m # n => row'[m] = row[m] /\ secret'[m] = secret[m] /\ pin'[m] = pin[m]
    BY <1>2, <1>3, <2>1 DEF BaseOK
  <2>6. "secret" \in Steps \ {"idle"}
    BY DEF Steps, Parts
  <2> QED BY <1>1, <1>3, <1>5, <2>1, <2>3, <2>4, <2>5, <2>6, GoesOn
<1>6. CASE /\ Fault /\ row' \in {row, Put(row, n, NewRow(req[p]))}
           /\ Ends(p, "failed") /\ Concluded(p, Nothing, {"row"})
  <2>1. /\ row' \in [Names -> Rows \cup {None}]
        /\ \A m \in Names : m # n => row'[m] = row[m]
    BY <1>2, <1>6 DEF Put, BaseOK
  <2>2. alone[p] => \A part \in Parts : part # "row" /\ part \notin doubt[n] =>
          Stored(part, n)' = expected[n][part]
    BY <1>1, <1>3, CreateSoFar DEF Stored, Parts
  <2> QED BY <1>1, <1>2, <1>3, <1>6, <2>1, <2>2, EndsIt, NothingIs DEF BaseOK, Parts
<1> QED BY <1>4, <1>5, <1>6 DEF CreateInsert

\* A failed write of the secret or the pin: the row is taken back next.
LEMMA CreateFailedChanges ==
    ASSUME EndpointsInv, NEW p \in Procs, Changes(p), req[p].verb = "create",
           pc[p] \in {"secret", "pin"}, CreateFailed(p), Fault,
           UNCHANGED <<row, staged, req, read, got, conn, calls, alone>>,
           secret' \in [Names -> Secrets \cup {None}], pin' \in [Names -> Certs \cup {None}],
           \A m \in Names : m # req[p].name => secret'[m] = secret[m] /\ pin'[m] = pin[m]
    PROVE  Changed(p)
<1> DEFINE n == req[p].name
<1>1. BaseOK /\ n \in Names
  BY Here
<1>2. pc'[p] = "undo" /\ Goes(p, "undo") /\ UNCHANGED <<reply, expected, doubt>>
  BY <1>1 DEF CreateFailed, Goes, BaseOK
<1>3. alone[p] => AsWritten(p)'
  BY <1>2, CreateSoFar DEF AsWritten, Written, CreateWritten, Stored, Unsettled, Parts
<1>4. InPlace(p)'
  BY <1>2 DEF InPlace
<1>5. "undo" \in Steps \ {"idle"}
  BY DEF Steps
<1>6. /\ row' \in [Names -> Rows \cup {None}]
      /\ \A m \in Names : m # n => row'[m] = row[m] /\ secret'[m] = secret[m] /\ pin'[m] = pin[m]
  BY <1>1 DEF BaseOK
<1> QED BY <1>2, <1>3, <1>4, <1>5, <1>6, GoesOn

LEMMA CreateSecretChanges ==
    ASSUME EndpointsInv, NEW p \in Procs, CreateSecret(p)
    PROVE  Changed(p)
<1> DEFINE n == req[p].name
<1>1. Changes(p) /\ req[p].verb = "create" /\ pc[p] = "secret"
  BY DEF CreateSecret, At, Changes
<1>2. BaseOK /\ n \in Names /\ got[p] \in Secrets
  BY <1>1, Here
<1>3. UNCHANGED <<row, pin, staged, req, read, got, conn, calls, alone>>
  BY DEF CreateSecret
<1>4. /\ secret' \in [Names -> Secrets \cup {None}]
      /\ \A m \in Names : m # n => secret'[m] = secret[m]
  <2>1. secret' \in {secret, Put(secret, n, got[p])}
    BY DEF CreateSecret
  <2> QED BY <1>2, <2>1 DEF Put, BaseOK
<1>5. /\ row' \in [Names -> Rows \cup {None}] /\ pin' \in [Names -> Certs \cup {None}]
      /\ \A m \in Names : m # n => row'[m] = row[m] /\ secret'[m] = secret[m] /\ pin'[m] = pin[m]
  BY <1>2, <1>3, <1>4 DEF BaseOK
<1>6. CASE /\ secret' = Put(secret, n, got[p])
           /\ Goes(p, IF req[p].pin = Keep THEN "drop" ELSE "pin")
           /\ UNCHANGED <<reply, mishaps, expected, doubt>>
  <2> DEFINE w == IF req[p].pin = Keep THEN "drop" ELSE "pin"
  <2>1. pc'[p] = w /\ secret'[n] = got[p]
    BY <1>2, <1>6 DEF Goes, Put, BaseOK
  <2>2. alone[p] => AsWritten(p)'
    BY <1>1, <1>3, <1>6, <2>1, CreateSoFar
       DEF AsWritten, Written, CreateWritten, Outcome, Stored, Unsettled, Parts
  <2>3. InPlace(p)'
    BY <1>1, <1>3, <2>1 DEF InPlace
  <2>4. w \in Steps \ {"idle"}
    BY DEF Steps, Parts
  <2> QED BY <1>1, <1>3, <1>4, <1>5, <1>6, <2>2, <2>3, <2>4, GoesOn
<1>7. CASE Fault /\ CreateFailed(p)
  BY <1>1, <1>3, <1>4, <1>5, <1>7, CreateFailedChanges
<1> QED BY <1>6, <1>7 DEF CreateSecret

LEMMA CreatePinChanges ==
    ASSUME EndpointsInv, NEW p \in Procs, CreatePin(p)
    PROVE  Changed(p)
<1> DEFINE n == req[p].name
<1>1. Changes(p) /\ req[p].verb = "create" /\ pc[p] = "pin"
  BY DEF CreatePin, At, Changes
<1>2. BaseOK /\ n \in Names /\ req[p].pin \in Certs \cup {None} /\ req[p].pin # Keep
  BY <1>1, Here DEF InPlace
<1>3. UNCHANGED <<row, secret, staged, req, read, got, conn, calls, alone>>
  BY DEF CreatePin
<1>4. /\ pin' \in [Names -> Certs \cup {None}]
      /\ \A m \in Names : m # n => pin'[m] = pin[m]
  <2>1. pin' \in {pin, Put(pin, n, req[p].pin)}
    BY DEF CreatePin
  <2> QED BY <1>2, <2>1 DEF Put, BaseOK
<1>5. /\ row' \in [Names -> Rows \cup {None}] /\ secret' \in [Names -> Secrets \cup {None}]
      /\ \A m \in Names : m # n => row'[m] = row[m] /\ secret'[m] = secret[m] /\ pin'[m] = pin[m]
  BY <1>2, <1>3, <1>4 DEF BaseOK
<1>6. CASE /\ pin' = Put(pin, n, req[p].pin) /\ Goes(p, "drop")
           /\ UNCHANGED <<reply, mishaps, expected, doubt>>
  <2>1. pc'[p] = "drop" /\ pin'[n] = req[p].pin
    BY <1>2, <1>6 DEF Goes, Put, BaseOK
  <2>2. alone[p] => AsWritten(p)'
    BY <1>1, <1>2, <1>3, <1>6, <2>1, CreateSoFar
       DEF AsWritten, Written, Outcome, Stored, Unsettled, Parts
  <2>3. InPlace(p)'
    BY <1>1, <1>3, <2>1 DEF InPlace
  <2>4. "drop" \in Steps \ {"idle"}
    BY DEF Steps
  <2> QED BY <1>1, <1>3, <1>4, <1>5, <1>6, <2>2, <2>3, <2>4, GoesOn
<1>7. CASE Fault /\ CreateFailed(p)
  BY <1>1, <1>3, <1>4, <1>5, <1>7, CreateFailedChanges
<1> QED BY <1>6, <1>7 DEF CreatePin

LEMMA VouchesIs ==
    ASSUME NEW x, NEW v
    PROVE  DOMAIN Vouches(x, v) = {x} /\ Vouches(x, v)[x] = v
BY DEF Vouches

LEMMA CreateUndoChanges ==
    ASSUME EndpointsInv, NEW p \in Procs, CreateUndo(p)
    PROVE  Changed(p)
<1> DEFINE n == req[p].name
<1>1. Changes(p) /\ req[p].verb = "create" /\ pc[p] = "undo"
  BY DEF CreateUndo, At, Changes
<1>2. BaseOK /\ n \in Names
  BY <1>1, Here
<1>3. UNCHANGED <<secret, pin, staged, req, read, got, conn, calls, alone>> /\ Ends(p, "failed")
  BY DEF CreateUndo
<1>4. /\ row' \in [Names -> Rows \cup {None}]
      /\ \A m \in Names : m # n => row'[m] = row[m]
  <2>1. row' \in {row, Put(row, n, None)}
    BY DEF CreateUndo
  <2> QED BY <1>2, <2>1 DEF Put, BaseOK
<1>5. CASE /\ row' = Put(row, n, None) /\ UNCHANGED mishaps
           /\ Concluded(p, Vouches("row", None), {"secret", "pin"})
  <2>1. row'[n] = None
    BY <1>2, <1>5 DEF Put, BaseOK
  <2>2. \A part \in Parts :
          /\ part \in DOMAIN Vouches("row", None) =>
                /\ Stored(part, n)' = Vouches("row", None)[part]
                /\ Vouches("row", None)[part] \in Values
          /\ part \in DOMAIN Vouches("row", None) \cup {"secret", "pin"}
    <3>1. DOMAIN Vouches("row", None) = {"row"} /\ Vouches("row", None)["row"] = None
      BY VouchesIs
    <3>2. Stored("row", n)' = None
      BY <1>3, <2>1 DEF Stored
    <3> QED BY <3>1, <3>2 DEF Parts, Values
  <2> QED BY <1>1, <1>2, <1>3, <1>4, <1>5, <2>2, EndsIt DEF BaseOK, Parts
<1>6. CASE Fault /\ Concluded(p, Nothing, Parts)
  BY <1>1, <1>2, <1>3, <1>4, <1>6, EndsIt, NothingIs DEF BaseOK
<1> QED BY <1>5, <1>6 DEF CreateUndo

LEMMA DiesChanges ==
    ASSUME EndpointsInv, NEW p \in Procs, Dies(p)
    PROVE  Changed(p)
<1>1. /\ Changes(p) /\ Ends(p, "none") /\ Concluded(p, Nothing, Parts) /\ Fault
      /\ UNCHANGED <<row, secret, pin, staged, req, read, got, conn, calls, alone>>
  BY DEF Dies, store
<1>2. BaseOK
  BY <1>1, Here
<1> QED BY <1>1, <1>2, EndsIt, NothingIs DEF BaseOK

-----------------------------------------------------------------------------
(* The end of create and update, and the steps of update and delete *)

\* What an update has written so far is what it says when it fails now.
LEMMA UpdateSoFar ==
    ASSUME EndpointsInv, NEW p \in Procs, Changes(p), req[p].verb = "update"
    PROVE  /\ pc[p] \in {"secret", "row", "pin", "drop"}
           /\ Written(p) = Applied(p, IF pc[p] = "drop" THEN "end" ELSE pc[p])
           /\ Unsettled(p) = {}
           /\ \A upto : \A part \in Parts : part \in DOMAIN Applied(p, upto) =>
                 Applied(p, upto)[part] \in Values
<1>1. /\ pc[p] \in {"secret", "row", "pin", "drop"}
      /\ req[p].ref => got[p] \in Secrets
      /\ Patched(read[p], req[p]) \in Rows
      /\ req[p].pin # Keep => req[p].pin \in Certs \cup {None}
  BY Here DEF InPlace, Changes
<1>2. \A upto : \A part \in Parts :
         part \in DOMAIN Applied(p, upto) => Applied(p, upto)[part] \in Values
  BY <1>1, AppliedIs DEF Values, Parts
<1>3. Written(p) = Applied(p, IF pc[p] = "drop" THEN "end" ELSE pc[p])
  BY OutcomeIs DEF Written
<1> QED BY <1>1, <1>2, <1>3 DEF Unsettled

LEMMA DropChanges ==
    ASSUME EndpointsInv, NEW p \in Procs, Drop(p)
    PROVE  Changed(p)
<1> DEFINE n == req[p].name
<1>1. pc[p] = "drop" /\ Changes(p) /\ req[p].verb \in {"create", "update"}
  <2>1. pc[p] = "drop" /\ InPlace(p) /\ req[p] \in Requests
    BY DEF Drop, EndpointsInv, PlaceInv, TypeOK
  <2>2. req[p].verb \in {"create", "update"}
    BY <2>1, RequestTypes DEF InPlace
  <2> QED BY <2>1, <2>2 DEF Changes
<1>2. BaseOK /\ n \in Names /\ (alone[p] => AsWritten(p))
  BY <1>1, Here
<1>3. /\ UNCHANGED <<row, secret, pin, req, read, got, conn, calls, alone>>
      /\ Ends(p, "ok") /\ Concluded(p, Outcome(p), {})
      /\ Fault \/ UNCHANGED mishaps
  BY DEF Drop
<1>4. staged' \in [Names -> Secrets \cup {None}] /\ \A m \in Names : m # n => staged'[m] = staged[m]
  BY <1>2 DEF Drop, BaseOK
<1>5. Written(p) = Outcome(p) /\ Unsettled(p) = {}
  BY <1>1 DEF Written, Unsettled
<1>6. \A part \in Parts : part \in DOMAIN Outcome(p) => Outcome(p)[part] \in Values
  <2>1. CASE req[p].verb = "update"
    BY <1>1, <2>1, UpdateSoFar, OutcomeIs
  <2>2. CASE req[p].verb = "create"
    <3>1. got[p] \in Secrets /\ NewRow(req[p]) \in Rows
          /\ (req[p].pin # Keep => req[p].pin \in Certs \cup {None})
      BY <1>1, <2>2, Here
    <3> QED BY <2>2, <3>1, OutcomeIs DEF Values, Parts
  <2> QED BY <1>1, <2>1, <2>2
<1>7. alone[p] => \A part \in Parts :
         /\ part \in DOMAIN Outcome(p) \ {} => Stored(part, n)' = Outcome(p)[part]
         /\ part \notin DOMAIN Outcome(p) \cup {} \cup doubt[n] => Stored(part, n)' = expected[n][part]
  BY <1>2, <1>3, <1>5 DEF AsWritten, Stored
<1>8. /\ row' \in [Names -> Rows \cup {None}] /\ secret' \in [Names -> Secrets \cup {None}]
      /\ pin' \in [Names -> Certs \cup {None}]
      /\ \A m \in Names : m # n =>
            row'[m] = row[m] /\ secret'[m] = secret[m] /\ pin'[m] = pin[m] /\ staged'[m] = staged[m]
  BY <1>2, <1>3, <1>4 DEF BaseOK
<1> QED BY <1>1, <1>3, <1>4, <1>6, <1>7, <1>8, EndsIt

LEMMA UpdateFails ==
    ASSUME EndpointsInv, NEW p \in Procs, NEW x \in {"secret", "row", "pin"}, At(p, "update", x),
           UpdateFailed(p, x), Fault \/ UNCHANGED mishaps,
           UNCHANGED <<staged, req, read, got, conn, calls, alone>>,
           row' \in [Names -> Rows \cup {None}], secret' \in [Names -> Secrets \cup {None}],
           pin' \in [Names -> Certs \cup {None}],
           \A m \in Names : m # req[p].name =>
              row'[m] = row[m] /\ secret'[m] = secret[m] /\ pin'[m] = pin[m],
           \A part \in Parts : part # x => Stored(part, req[p].name)' = Stored(part, req[p].name)
    PROVE  Changed(p)
<1> DEFINE n == req[p].name
           sure == Applied(p, x)
<1>1. Changes(p) /\ req[p].verb = "update" /\ pc[p] = x
  BY DEF At, Changes
<1>2. BaseOK /\ n \in Names /\ (alone[p] => AsWritten(p))
  BY <1>1, Here
<1>3. /\ Written(p) = sure /\ Unsettled(p) = {} /\ x \notin DOMAIN sure
      /\ \A part \in Parts : part \in DOMAIN sure => sure[part] \in Values
  BY <1>1, UpdateSoFar, AppliedIs
<1>4. Ends(p, "failed") /\ Concluded(p, sure, {x}) /\ {x} \in SUBSET Parts
  BY DEF UpdateFailed, Parts
<1>5. alone[p] => \A part \in Parts :
         /\ part \in DOMAIN sure \ {x} => Stored(part, n)' = sure[part]
         /\ part \notin DOMAIN sure \cup {x} \cup doubt[n] => Stored(part, n)' = expected[n][part]
  <2> HIDE DEF sure
  <2> QED BY <1>2, <1>3 DEF AsWritten
<1>6. staged' \in [Names -> Secrets \cup {None}]
      /\ \A m \in Names : m # n =>
            row'[m] = row[m] /\ secret'[m] = secret[m] /\ pin'[m] = pin[m] /\ staged'[m] = staged[m]
  BY <1>2 DEF BaseOK
<1> HIDE DEF sure
<1> QED BY <1>1, <1>3, <1>4, <1>5, <1>6, EndsIt

\* A write of an update that succeeds adds its part to what is written.
LEMMA UpdateGoesOn ==
    ASSUME EndpointsInv, NEW p \in Procs, NEW x \in {"secret", "row", "pin"}, At(p, "update", x),
           Goes(p, NextWrite(req[p], x)), UNCHANGED mishaps,
           UNCHANGED <<staged, req, read, got, reply, conn, calls, alone, expected, doubt>>,
           row' \in [Names -> Rows \cup {None}], secret' \in [Names -> Secrets \cup {None}],
           pin' \in [Names -> Certs \cup {None}],
           \A m \in Names : m # req[p].name =>
              row'[m] = row[m] /\ secret'[m] = secret[m] /\ pin'[m] = pin[m],
           \A part \in Parts : part # x => Stored(part, req[p].name)' = Stored(part, req[p].name),
           Stored(x, req[p].name)' = Applied(p, "end")[x]
    PROVE  Changed(p)
<1> DEFINE n == req[p].name
           w == NextWrite(req[p], x)
           upto == IF w = "drop" THEN "end" ELSE w
<1>1. Changes(p) /\ req[p].verb = "update" /\ pc[p] = x
  BY DEF At, Changes
<1>2. BaseOK /\ n \in Names /\ InPlace(p) /\ (alone[p] => AsWritten(p))
  BY <1>1, Here
<1>3. /\ w \in {"row", "pin", "drop"} /\ w # x
      /\ w = "row" => x = "secret" /\ PatchesRow(req[p])
      /\ w = "pin" => x # "pin" /\ req[p].pin # Keep
      /\ w = "drop" /\ x # "pin" => req[p].pin = Keep
      /\ w # "row" /\ x = "secret" => ~PatchesRow(req[p])
  BY DEF NextWrite
<1>4. pc'[p] = w
  BY <1>2 DEF Goes, BaseOK
<1>5. InPlace(p)'
  BY <1>1, <1>3, <1>4 DEF InPlace, PatchesRow
<1>6. \A part \in Parts :
         /\ part \in DOMAIN Applied(p, upto) <=> part \in DOMAIN Applied(p, x) \cup {x}
         /\ part \in DOMAIN Applied(p, upto) => Applied(p, upto)[part] = Applied(p, "end")[part]
         /\ part \in DOMAIN Applied(p, x) => Applied(p, x)[part] = Applied(p, "end")[part]
  <2>1. /\ x = "secret" => req[p].ref
        /\ x = "row" => PatchesRow(req[p])
        /\ x = "pin" => req[p].pin # Keep
    BY <1>1, <1>2 DEF InPlace
  <2>2. upto \in {"row", "pin", "end"} /\ (upto = "end" <=> w = "drop") /\ (w # "drop" => upto = w)
    BY <1>3
  <2> HIDE DEF w, upto
  <2> QED BY <1>3, <2>1, <2>2, AppliedIs DEF Parts
<1>7. Written(p)' = Applied(p, upto) /\ Unsettled(p)' = {}
  <2> HIDE DEF w
  <2> QED BY <1>1, <1>3, <1>4 DEF Written, Outcome, Applied, PatchesRow, Unsettled
<1>8. alone[p] => AsWritten(p)'
  <2>1. Written(p) = Applied(p, x) /\ Unsettled(p) = {}
    BY <1>1, UpdateSoFar
  <2> HIDE DEF w, upto
  <2>2. ASSUME alone[p], NEW part \in Parts
        PROVE  IF part \in DOMAIN Applied(p, upto) THEN Stored(part, n)' = Applied(p, upto)[part]
               ELSE part \in doubt[n] \/ Stored(part, n)' = expected[n][part]
    BY <1>2, <1>6, <2>1, <2>2 DEF AsWritten
  <2> QED BY <1>7, <2>2 DEF AsWritten
<1>9. w \in Steps /\ w # "idle" /\ Goes(p, w)
  BY <1>3 DEF Steps, Parts
<1> HIDE DEF w
<1> QED BY <1>1, <1>5, <1>8, <1>9, GoesOn

LEMMA UpdateSecretChanges ==
    ASSUME EndpointsInv, NEW p \in Procs, UpdateSecret(p)
    PROVE  Changed(p)
<1> DEFINE n == req[p].name
<1>1. At(p, "update", "secret") /\ Changes(p) /\ req[p].verb = "update" /\ pc[p] = "secret"
  BY DEF UpdateSecret, At, Changes
<1>2. BaseOK /\ n \in Names /\ got[p] \in Secrets /\ req[p].ref
  BY <1>1, Here DEF InPlace
<1>3. UNCHANGED <<row, pin, staged, req, read, got, conn, calls, alone>>
  BY DEF UpdateSecret
<1>4. /\ secret' \in [Names -> Secrets \cup {None}] /\ \A m \in Names : m # n => secret'[m] = secret[m]
  <2>1. secret' \in {secret, Put(secret, n, got[p])}
    BY DEF UpdateSecret
  <2> QED BY <1>2, <2>1 DEF Put, BaseOK
<1>5. /\ row' \in [Names -> Rows \cup {None}] /\ pin' \in [Names -> Certs \cup {None}]
      /\ \A m \in Names : m # n => row'[m] = row[m] /\ secret'[m] = secret[m] /\ pin'[m] = pin[m]
      /\ \A part \in Parts : part # "secret" => Stored(part, n)' = Stored(part, n)
  BY <1>2, <1>3, <1>4 DEF BaseOK, Stored, Parts
<1>6. CASE /\ secret' = Put(secret, n, got[p]) /\ Goes(p, NextWrite(req[p], "secret"))
           /\ UNCHANGED <<reply, mishaps, expected, doubt>>
  <2>1. Stored("secret", n)' = Applied(p, "end")["secret"]
    <3>1. secret'[n] = got[p]
      BY <1>2, <1>6 DEF Put, BaseOK
    <3>2. Applied(p, "end")["secret"] = got[p]
      BY <1>2, AppliedIs
    <3> QED BY <1>3, <3>1, <3>2 DEF Stored
  <2> QED BY <1>1, <1>3, <1>4, <1>5, <1>6, <2>1, UpdateGoesOn
<1>7. CASE Fault /\ UpdateFailed(p, "secret")
  BY <1>1, <1>3, <1>4, <1>5, <1>7, UpdateFails
<1> QED BY <1>6, <1>7 DEF UpdateSecret

LEMMA UpdateRowChanges ==
    ASSUME EndpointsInv, NEW p \in Procs, UpdateRow(p)
    PROVE  Changed(p)
<1> DEFINE n == req[p].name
           new == Patched(read[p], req[p])
<1>1. At(p, "update", "row") /\ Changes(p) /\ req[p].verb = "update" /\ pc[p] = "row"
  BY DEF UpdateRow, At, Changes
<1>2. BaseOK /\ n \in Names /\ new \in Rows /\ PatchesRow(req[p])
  BY <1>1, Here DEF InPlace
<1>3. UNCHANGED <<secret, pin, staged, req, read, got, conn, calls, alone>>
  BY DEF UpdateRow
<1>4. /\ row' \in [Names -> Rows \cup {None}] /\ \A m \in Names : m # n => row'[m] = row[m]
  <2>1. row' \in {row, Put(row, n, new)}
    BY DEF UpdateRow
  <2> HIDE DEF new
  <2> QED BY <1>2, <2>1 DEF Put, BaseOK
<1>5. /\ secret' \in [Names -> Secrets \cup {None}] /\ pin' \in [Names -> Certs \cup {None}]
      /\ \A m \in Names : m # n => row'[m] = row[m] /\ secret'[m] = secret[m] /\ pin'[m] = pin[m]
      /\ \A part \in Parts : part # "row" => Stored(part, n)' = Stored(part, n)
  BY <1>2, <1>3, <1>4 DEF BaseOK, Stored, Parts
<1>6. CASE /\ row' = Put(row, n, new) /\ Goes(p, NextWrite(req[p], "row"))
           /\ UNCHANGED <<reply, mishaps, expected, doubt>>
  <2>1. Stored("row", n)' = Applied(p, "end")["row"]
    <3>1. row'[n] = new
      BY <1>2, <1>6 DEF Put, BaseOK
    <3>2. Applied(p, "end")["row"] = new
      BY <1>2, AppliedIs
    <3> QED BY <1>3, <3>1, <3>2 DEF Stored
  <2> QED BY <1>1, <1>3, <1>4, <1>5, <1>6, <2>1, UpdateGoesOn
<1>7. CASE (Fault \/ UNCHANGED mishaps) /\ UpdateFailed(p, "row")
  BY <1>1, <1>3, <1>4, <1>5, <1>7, UpdateFails
<1> QED BY <1>6, <1>7 DEF UpdateRow

LEMMA UpdatePinChanges ==
    ASSUME EndpointsInv, NEW p \in Procs, UpdatePin(p)
    PROVE  Changed(p)
<1> DEFINE n == req[p].name
<1>1. At(p, "update", "pin") /\ Changes(p) /\ req[p].verb = "update" /\ pc[p] = "pin"
  BY DEF UpdatePin, At, Changes
<1>2. BaseOK /\ n \in Names /\ req[p].pin \in Certs \cup {None} /\ req[p].pin # Keep
  BY <1>1, Here DEF InPlace
<1>3. UNCHANGED <<row, secret, staged, req, read, got, conn, calls, alone>>
  BY DEF UpdatePin
<1>4. /\ pin' \in [Names -> Certs \cup {None}] /\ \A m \in Names : m # n => pin'[m] = pin[m]
  <2>1. pin' \in {pin, Put(pin, n, req[p].pin)}
    BY DEF UpdatePin
  <2> QED BY <1>2, <2>1 DEF Put, BaseOK
<1>5. /\ row' \in [Names -> Rows \cup {None}] /\ secret' \in [Names -> Secrets \cup {None}]
      /\ \A m \in Names : m # n => row'[m] = row[m] /\ secret'[m] = secret[m] /\ pin'[m] = pin[m]
      /\ \A part \in Parts : part # "pin" => Stored(part, n)' = Stored(part, n)
  BY <1>2, <1>3, <1>4 DEF BaseOK, Stored, Parts
<1>6. CASE /\ pin' = Put(pin, n, req[p].pin) /\ Goes(p, "drop")
           /\ UNCHANGED <<reply, mishaps, expected, doubt>>
  <2>1. Stored("pin", n)' = Applied(p, "end")["pin"]
    <3>1. pin'[n] = req[p].pin
      BY <1>2, <1>6 DEF Put, BaseOK
    <3>2. Applied(p, "end")["pin"] = req[p].pin
      BY <1>2, AppliedIs
    <3> QED BY <1>3, <3>1, <3>2 DEF Stored
  <2>2. NextWrite(req[p], "pin") = "drop"
    BY DEF NextWrite
  <2> QED BY <1>1, <1>3, <1>4, <1>5, <1>6, <2>1, <2>2, UpdateGoesOn
<1>7. CASE Fault /\ UpdateFailed(p, "pin")
  BY <1>1, <1>3, <1>4, <1>5, <1>7, UpdateFails
<1> QED BY <1>6, <1>7 DEF UpdatePin

LEMMA DeleteChanges ==
    ASSUME EndpointsInv, NEW p \in Procs, Delete(p)
    PROVE  Changed(p)
<1> DEFINE n == req[p].name
           x == pc[p]
<1>1. Changes(p) /\ req[p].verb = "delete" /\ x \in {"row", "secret", "pin"}
  BY DEF Delete, Changes, Parts
<1>2. BaseOK /\ n \in Names /\ (alone[p] => AsWritten(p))
  BY <1>1, Here
<1>3. UNCHANGED <<staged, req, read, got, conn, calls, alone>>
  BY DEF Delete
<1>4. Removes(x, n) \/ UNCHANGED <<row, secret, pin>>
  BY DEF Delete
<1>5. /\ row' \in [Names -> Rows \cup {None}] /\ secret' \in [Names -> Secrets \cup {None}]
      /\ pin' \in [Names -> Certs \cup {None}]
      /\ \A m \in Names : m # n =>
            row'[m] = row[m] /\ secret'[m] = secret[m] /\ pin'[m] = pin[m] /\ staged'[m] = staged[m]
      /\ staged' \in [Names -> Secrets \cup {None}]
  <2>1. row' \in {row, Put(row, n, None)}
    BY <1>4 DEF Removes
  <2>2. secret' \in {secret, Put(secret, n, None)}
    BY <1>4 DEF Removes
  <2>3. pin' \in {pin, Put(pin, n, None)}
    BY <1>4 DEF Removes
  <2>4. row' \in [Names -> Rows \cup {None}] /\ \A m \in Names : m # n => row'[m] = row[m]
    BY <1>2, <2>1 DEF Put, BaseOK
  <2>5. secret' \in [Names -> Secrets \cup {None}] /\ \A m \in Names : m # n => secret'[m] = secret[m]
    BY <1>2, <2>2 DEF Put, BaseOK
  <2>6. pin' \in [Names -> Certs \cup {None}] /\ \A m \in Names : m # n => pin'[m] = pin[m]
    BY <1>2, <2>3 DEF Put, BaseOK
  <2> QED BY <1>2, <1>3, <2>4, <2>5, <2>6 DEF BaseOK
<1>6. \A part \in Parts :
         /\ part # x => Stored(part, n)' = Stored(part, n)
         /\ part = x /\ Removes(x, n) => Stored(part, n)' = None
  BY <1>1, <1>2, <1>3, <1>4 DEF Removes, Put, BaseOK, Stored, Parts
<1>7. Written(p) = Gone(x) /\ Unsettled(p) = {}
  BY <1>1 DEF Written, Unsettled
<1>8. CASE Removes(x, n) /\ x # "pin" /\ Goes(p, NextPart(x)) /\ UNCHANGED <<reply, expected, doubt, mishaps>>
  <2> DEFINE w == NextPart(x)
  <2>1. pc'[p] = w /\ w \in {"secret", "pin"} /\ w = (IF x = "row" THEN "secret" ELSE "pin")
    BY <1>2, <1>8 DEF Goes, BaseOK, NextPart
  <2>2. Written(p)' = Gone(w) /\ Unsettled(p)' = {}
    BY <1>1, <1>3, <2>1 DEF Written, Unsettled, Gone
  <2>3. \A part \in Parts : /\ part \in DOMAIN Gone(w) <=> part \in DOMAIN Gone(x) \cup {x}
                            /\ part \in DOMAIN Gone(w) => Gone(w)[part] = None
                            /\ part \in DOMAIN Gone(x) => Gone(x)[part] = None
    BY <1>1, <1>8, <2>1, GoneIs DEF Parts
  <2>4. alone[p] => AsWritten(p)'
    <3> HIDE DEF w, x
    <3> QED BY <1>2, <1>3, <1>6, <1>7, <1>8, <2>2, <2>3 DEF AsWritten
  <2>5. InPlace(p)'
    BY <1>1, <1>3, <2>1 DEF InPlace
  <2>6. w \in Steps /\ w # "idle" /\ Goes(p, w)
    BY <1>8, <2>1 DEF Steps, Parts
  <2> HIDE DEF w
  <2> QED BY <1>1, <1>3, <1>5, <1>8, <2>4, <2>5, <2>6, GoesOn
<1>9. CASE Removes(x, n) /\ x = "pin" /\ Ends(p, "ok") /\ Concluded(p, Gone("end"), {}) /\ UNCHANGED mishaps
  <2>1. \A part \in Parts : /\ part \in DOMAIN Gone("end")
                            /\ Gone("end")[part] = None /\ None \in Values
                            /\ part \in DOMAIN Gone(x) <=> part # x
                            /\ part \in DOMAIN Gone(x) => Gone(x)[part] = None
    BY <1>9, GoneIs DEF Parts, Values
  <2>2. alone[p] => \A part \in Parts :
           /\ part \in DOMAIN Gone("end") \ {} => Stored(part, n)' = Gone("end")[part]
           /\ part \notin DOMAIN Gone("end") \cup {} \cup doubt[n] => Stored(part, n)' = expected[n][part]
    BY <1>2, <1>6, <1>7, <1>9, <2>1 DEF AsWritten
  <2>3. \A part \in Parts : part \in DOMAIN Gone("end") => Gone("end")[part] \in Values
    BY <2>1
  <2> QED BY <1>1, <1>3, <1>5, <1>9, <2>2, <2>3, EndsIt
<1>10. CASE Fault /\ Ends(p, "failed") /\ Concluded(p, Gone(x), {x})
  <2>1. \A part \in Parts : part \in DOMAIN Gone(x) => Gone(x)[part] \in Values
    BY GoneIs DEF Values
  <2>2. alone[p] => \A part \in Parts :
           /\ part \in DOMAIN Gone(x) \ {x} => Stored(part, n)' = Gone(x)[part]
           /\ part \notin DOMAIN Gone(x) \cup {x} \cup doubt[n] => Stored(part, n)' = expected[n][part]
    BY <1>2, <1>6, <1>7 DEF AsWritten
  <2>3. {x} \in SUBSET Parts
    BY <1>1 DEF Parts
  <2> HIDE DEF x
  <2> QED BY <1>1, <1>3, <1>5, <1>10, <2>1, <2>2, <2>3, EndsIt
<1> QED BY <1>8, <1>9, <1>10 DEF Delete

-----------------------------------------------------------------------------
(* Every step keeps the invariant *)

LEMMA ChangedKeeps ==
    ASSUME EndpointsInv, NEW p \in Procs, Changes(p), Changed(p)
    PROVE  EndpointsInv'
<1> DEFINE n == req[p].name
<1>1. /\ TypeOK /\ BaseOK /\ PlaceInv /\ AloneInv /\ ReadInv /\ WrittenInv /\ AsReported
      /\ pc[p] # "idle" /\ req[p].verb \in {"create", "update", "delete"} /\ n \in Names
  BY BaseIs, Here, RequestTypes DEF EndpointsInv, Changes
<1>2. /\ BaseOK' /\ Frame(p) /\ UNCHANGED <<read, got, conn, req, alone>> /\ InPlace(p)'
      /\ pc'[p] = "idle" => Told(p)
      /\ pc'[p] # "idle" => /\ alone[p] => AsWritten(p)'
                            /\ UNCHANGED <<staged, expected, doubt>>
  BY DEF Changed, Frame
<1>3. \A q \in Procs : q # p => pc'[q] = pc[q] /\ (Changes(q)' <=> Changes(q))
  BY <1>2 DEF Frame, Changes
<1>4. \A q \in Procs : req[q].name \in Names
  BY <1>1, RequestTypes DEF BaseOK
<1>5. \A m \in Names : m # n =>
         /\ row'[m] = row[m] /\ secret'[m] = secret[m] /\ pin'[m] = pin[m]
         /\ staged'[m] = staged[m] /\ expected'[m] = expected[m] /\ doubt'[m] = doubt[m]
  BY <1>2 DEF Frame
<1>6. PlaceInv'
  <2> SUFFICES ASSUME NEW q \in Procs
               PROVE  InPlace(q)'
    BY DEF PlaceInv
  <2>1. CASE q = p
    BY <1>2, <2>1
  <2>2. CASE q # p
    BY <1>1, <1>2, <1>3, <2>2 DEF PlaceInv, InPlace, PatchesRow
  <2> QED BY <2>1, <2>2
<1>7. TypeOK'
  <2>1. ASSUME NEW q \in Procs
        PROVE  (NeedsSecret(q)' => NeedsSecret(q)) /\ (NeedsRow(q)' => NeedsRow(q))
    <3>1. CASE q = p
      <4>1. req[p].verb = "create" => req[p].ref
        BY Here
      <4> QED BY <1>1, <1>2, <3>1, <4>1 DEF InPlace, NeedsSecret, NeedsRow
    <3>2. CASE q # p
      BY <1>2, <1>3, <3>2 DEF NeedsSecret, NeedsRow
    <3> QED BY <3>1, <3>2
  <2>2. \A q \in Procs : (NeedsSecret(q)' => got'[q] # None) /\ (NeedsRow(q)' => read'[q] # None)
    BY <1>1, <1>2, <2>1 DEF TypeOK
  <2> QED BY <1>2, <2>2 DEF TypeOK, BaseOK, Values
<1>8. AloneInv'
  BY <1>1, <1>2, <1>3 DEF AloneInv, Changes
<1>9. ReadInv'
  <2> SUFFICES ASSUME NEW q \in Procs, alone'[q]
               PROVE  StillSo(q)'
    BY DEF ReadInv
  <2>1. CASE q = p
    <3>1. pc'[p] \notin {"token", "policy"}
      BY <1>1, <1>2 DEF InPlace
    <3>2. pc'[p] # "idle" /\ req[p].ref => got'[p] = staged'[n]
      BY <1>1, <1>2, <2>1 DEF ReadInv, StillSo
    <3> QED BY <1>2, <2>1, <3>1, <3>2 DEF StillSo, Changes
  <2>2. CASE q # p /\ pc[q] = "idle"
    BY <1>3, <2>2 DEF StillSo, Changes
  <2>3. CASE q # p /\ req[q].name # n
    BY <1>1, <1>2, <1>3, <1>4, <1>5, <2>3 DEF ReadInv, StillSo
  <2>4. q # p /\ pc[q] # "idle" => req[q].name # n
    BY <1>1, <1>2 DEF AloneInv
  <2> QED BY <2>1, <2>2, <2>3, <2>4
<1>10. WrittenInv'
  <2> SUFFICES ASSUME NEW q \in Procs, Changes(q)', alone'[q]
               PROVE  AsWritten(q)'
    BY DEF WrittenInv
  <2>1. CASE q = p
    BY <1>2, <2>1 DEF Changes
  <2>2. CASE q # p
    <3>1. Changes(q) /\ alone[q] /\ req[q].name # n /\ AsWritten(q)
      BY <1>1, <1>2, <1>3, <2>2 DEF AloneInv, Changes, WrittenInv
    <3>2. Written(q)' = Written(q) /\ Unsettled(q)' = Unsettled(q)
      BY <1>2, <1>3, <2>2 DEF Written, Outcome, Applied, CreateWritten, PatchesRow, Unsettled
    <3>3. \A part \in Parts : Stored(part, req[q].name)' = Stored(part, req[q].name)
      BY <1>2, <1>4, <1>5, <3>1 DEF Stored
    <3>4. expected'[req[q].name] = expected[req[q].name] /\ doubt'[req[q].name] = doubt[req[q].name]
      BY <1>4, <1>5, <3>1
    <3> QED BY <1>2, <3>1, <3>2, <3>3, <3>4 DEF AsWritten
  <2> QED BY <2>1, <2>2
<1>11. AsReported'
  <2> SUFFICES ASSUME NEW m \in Names, NEW part \in Parts, ~Changing(m)', part \notin doubt'[m]
               PROVE  Stored(part, m)' = expected'[m][part]
    BY DEF AsReported
  <2>1. CASE m = n
    <3>1. pc'[p] = "idle"
      BY <1>1, <1>2, <2>1 DEF Changing, Changes
    <3>2. Told(p)
      BY <1>2, <3>1
    <3> QED BY <1>2, <2>1, <3>2 DEF Told
  <2>2. CASE m # n
    <3>1. ~Changing(m)
      BY <1>2, <1>3, <2>2 DEF Changing
    <3>2. Stored(part, m)' = Stored(part, m)
      BY <1>5, <2>2 DEF Stored
    <3> QED BY <1>1, <1>5, <2>2, <3>1, <3>2 DEF AsReported
  <2> QED BY <2>1, <2>2
<1> QED BY <1>6, <1>7, <1>8, <1>9, <1>10, <1>11 DEF EndpointsInv

\* The steps of connect change nothing that is stored.
LEMMA LookedKeeps ==
    ASSUME EndpointsInv, NEW p \in Procs, Select(p) \/ Token(p) \/ Connect(p)
    PROVE  EndpointsInv'
<1> DEFINE n == req[p].name
<1>1. /\ TypeOK /\ PlaceInv /\ AloneInv /\ ReadInv /\ WrittenInv /\ AsReported
  BY DEF EndpointsInv
<1>2. /\ UNCHANGED <<row, secret, pin, staged, req, calls, mishaps, alone, expected, doubt>>
      /\ req[p].verb = "connect" /\ pc[p] \in {"select", "token", "policy"}
      /\ n \in Names
  BY <1>1, RequestTypes DEF Select, Token, Connect, store, ghosts, At, TypeOK
<1>3. /\ pc' \in [Procs -> Steps] /\ pc'[p] \in {"idle", "token", "policy"}
      /\ pc'[p] = "token" => pc[p] = "select" /\ read'[p] = row[n] /\ row[n] # None /\ row[n].enabled
      /\ pc'[p] = "policy" => /\ pc[p] = "token" /\ read'[p] = read[p]
                              /\ got'[p] = secret[n] /\ secret[n] # None
      /\ \A q \in Procs : q # p => pc'[q] = pc[q] /\ read'[q] = read[q] /\ got'[q] = got[q]
  BY <1>1, <1>2 DEF Select, Token, Connect, ConnectFails, Ends, Goes, At, TypeOK, Steps
<1>4. /\ read' \in [Procs -> Rows \cup {None}] /\ got' \in [Procs -> Secrets \cup {None}]
      /\ reply' \in [Procs -> {"none", "ok", "failed"}]
  BY <1>1, <1>2 DEF Select, Token, Connect, ConnectFails, Ends, Goes, At, TypeOK
<1>5. conn' \in [Procs -> Connections]
  <2>1. CASE conn' = conn
    BY <1>1, <2>1 DEF TypeOK
  <2>2. CASE Connect(p) /\ conn' # conn
    <3>1. PICK cert \in Certs :
             conn' = [conn EXCEPT ![p] = [id |-> read[p].id, secret |-> got[p], cert |-> cert]]
      BY <2>2 DEF Connect, ConnectFails
    <3>2. read[p] \in Rows
      BY <1>1, <2>2 DEF Connect, At, NeedsRow, TypeOK
    <3>3. [id |-> read[p].id, secret |-> got[p], cert |-> cert] \in Connections
      BY <1>1, <3>2 DEF Connections, Rows, TypeOK
    <3> QED BY <1>1, <3>1, <3>3 DEF TypeOK
  <2> QED BY <2>1, <2>2 DEF Select, Token, ConnectFails
<1>6. \A q \in Procs : Changes(q)' <=> Changes(q)
  BY <1>2, <1>3 DEF Changes
<1>7. TypeOK'
  <2>1. ASSUME NEW q \in Procs
        PROVE  (NeedsSecret(q)' => got'[q] # None) /\ (NeedsRow(q)' => read'[q] # None)
    <3>1. CASE q = p
      BY <1>1, <1>2, <1>3, <3>1 DEF NeedsSecret, NeedsRow, TypeOK
    <3>2. CASE q # p
      BY <1>1, <1>2, <1>3, <3>2 DEF NeedsSecret, NeedsRow, TypeOK
    <3> QED BY <3>1, <3>2
  <2> QED BY <1>1, <1>2, <1>3, <1>4, <1>5, <2>1 DEF TypeOK
<1>8. PlaceInv'
  <2> SUFFICES ASSUME NEW q \in Procs
               PROVE  InPlace(q)'
    BY DEF PlaceInv
  <2>1. CASE q = p
    BY <1>2, <1>3, <2>1 DEF InPlace
  <2>2. CASE q # p
    BY <1>1, <1>2, <1>3, <2>2 DEF PlaceInv, InPlace, PatchesRow
  <2> QED BY <2>1, <2>2
<1>9. AloneInv'
  BY <1>1, <1>2, <1>3, <1>6 DEF AloneInv
<1>10. ReadInv'
  <2> SUFFICES ASSUME NEW q \in Procs, alone'[q]
               PROVE  StillSo(q)'
    BY DEF ReadInv
  <2>1. CASE q = p
    BY <1>1, <1>2, <1>3, <1>6, <2>1 DEF ReadInv, StillSo, Changes
  <2>2. CASE q # p
    BY <1>1, <1>2, <1>3, <1>6, <2>2 DEF ReadInv, StillSo
  <2> QED BY <2>1, <2>2
<1>11. WrittenInv'
  <2> SUFFICES ASSUME NEW q \in Procs, Changes(q)', alone'[q]
               PROVE  AsWritten(q)'
    BY DEF WrittenInv
  <2>1. q # p /\ Changes(q) /\ AsWritten(q)
    BY <1>1, <1>2, <1>6 DEF Changes, WrittenInv
  <2>2. Written(q)' = Written(q) /\ Unsettled(q)' = Unsettled(q)
    BY <1>2, <1>3, <2>1 DEF Written, Outcome, Applied, CreateWritten, PatchesRow, Unsettled
  <2>3. \A part \in Parts : Stored(part, req[q].name)' = Stored(part, req[q].name)
    BY <1>2 DEF Stored
  <2> QED BY <1>2, <2>1, <2>2, <2>3 DEF AsWritten
<1>12. AsReported'
  BY <1>1, <1>2, <1>6 DEF AsReported, Changing, Stored
<1> QED BY <1>7, <1>8, <1>9, <1>10, <1>11, <1>12 DEF EndpointsInv

LEMMA CallKeeps ==
    ASSUME EndpointsInv, NEW p \in Procs, NEW r \in Requests, Call(p, r)
    PROVE  EndpointsInv'
<1> DEFINE n == r.name
<1>1. /\ TypeOK /\ PlaceInv /\ AloneInv /\ ReadInv /\ WrittenInv /\ AsReported
  BY DEF EndpointsInv
<1>2. /\ UNCHANGED <<row, secret, pin, staged, mishaps, expected, doubt>>
      /\ pc[p] = "idle" /\ n \in Names /\ r.verb \in {"create", "update", "delete", "connect"}
  BY RequestTypes DEF Call, store
<1>3. /\ req' \in [Procs -> Requests] /\ req'[p] = r
      /\ FirstStep(r) \in Steps /\ pc' \in [Procs -> Steps] /\ pc'[p] = FirstStep(r)
      /\ \A q \in Procs : q # p => pc'[q] = pc[q] /\ req'[q] = req[q]
  <2>1. FirstStep(r) \in Steps
    BY DEF FirstStep, NextWrite, Steps, Parts
  <2>2. req' = [req EXCEPT ![p] = r] /\ pc' = [pc EXCEPT ![p] = FirstStep(r)]
    BY DEF Call, Goes
  <2> HIDE DEF FirstStep
  <2> QED BY <1>1, <2>1, <2>2 DEF TypeOK
<1>4. /\ read' \in [Procs -> Rows \cup {None}] /\ got' \in [Procs -> Secrets \cup {None}]
      /\ r.verb = "update" => read'[p] # None
      /\ r.ref => got'[p] = staged[n] /\ got'[p] # None
      /\ \A q \in Procs : q # p => read'[q] = read[q] /\ got'[q] = got[q]
  BY <1>1, <1>2 DEF Call, Resolves, TypeOK
<1>5. /\ alone' \in [Procs -> BOOLEAN] /\ (alone'[p] <=> ~Changing(n))
      /\ \A q \in Procs : q # p =>
            (alone'[q] <=> alone[q] /\ ~(r.verb # "connect" /\ pc[q] # "idle" /\ req[q].name = n))
  BY <1>1 DEF Call, TypeOK, Changing
<1>6. /\ reply' \in [Procs -> {"none", "ok", "failed"}] /\ conn' \in [Procs -> Connections]
      /\ calls' \in 0 .. MaxCalls
  <2>1. Nowhere \in Connections
    BY DEF Nowhere, Connections
  <2>2. calls' \in 0 .. MaxCalls
    BY <1>1, EndpointsAssumption DEF Call, TypeOK
  <2> QED BY <1>1, <2>1, <2>2 DEF Call, TypeOK
<1>7. \A q \in Procs : q # p => (Changes(q)' <=> Changes(q))
  BY <1>3 DEF Changes
<1>8. ~Changes(p)
  BY <1>2 DEF Changes
<1>9. /\ r.verb = "create" => FirstStep(r) = "insert" /\ r.ref
      /\ r.verb = "update" => FirstStep(r) = NextWrite(r, "start")
      /\ r.verb = "delete" => FirstStep(r) = "row"
      /\ r.verb = "connect" => FirstStep(r) = "select"
  BY RequestTypes DEF FirstStep
<1>10. /\ NextWrite(r, "start") \in {"secret", "row", "pin", "drop"}
       /\ NextWrite(r, "start") = "secret" => r.ref
       /\ NextWrite(r, "start") # "secret" => ~r.ref
       /\ NextWrite(r, "start") = "row" => PatchesRow(r)
       /\ NextWrite(r, "start") \in {"pin", "drop"} => ~PatchesRow(r)
       /\ NextWrite(r, "start") = "pin" => r.pin # Keep
       /\ NextWrite(r, "start") = "drop" => r.pin = Keep
  BY RequestTypes DEF NextWrite
<1>11. PlaceInv'
  <2> SUFFICES ASSUME NEW q \in Procs
               PROVE  InPlace(q)'
    BY DEF PlaceInv
  <2>1. CASE q = p
    BY <1>2, <1>3, <1>9, <1>10, <2>1 DEF InPlace, PatchesRow
  <2>2. CASE q # p
    BY <1>1, <1>3, <2>2 DEF PlaceInv, InPlace, PatchesRow
  <2> QED BY <2>1, <2>2
<1>12. TypeOK'
  <2>1. ASSUME NEW q \in Procs
        PROVE  (NeedsSecret(q)' => got'[q] # None) /\ (NeedsRow(q)' => read'[q] # None)
    <3>1. CASE q = p
      <4>1. pc'[p] \notin {"token", "policy"} /\ (pc'[p] = "insert" => r.ref)
        BY <1>2, <1>3, <1>9, <1>10
      <4> QED BY <1>3, <1>4, <3>1, <4>1 DEF NeedsSecret, NeedsRow
    <3>2. CASE q # p
      BY <1>1, <1>3, <1>4, <3>2 DEF NeedsSecret, NeedsRow, TypeOK
    <3> QED BY <3>1, <3>2
  <2> QED BY <1>1, <1>2, <1>3, <1>4, <1>5, <1>6, <2>1 DEF TypeOK
<1>13. AloneInv'
  <2> SUFFICES ASSUME NEW q1 \in Procs, NEW q2 \in Procs, q1 # q2, alone'[q1], pc'[q1] # "idle",
                      Changes(q2)'
               PROVE  req'[q1].name # req'[q2].name
    BY DEF AloneInv
  <2>1. CASE q1 = p
    BY <1>3, <1>5, <1>7, <2>1 DEF Changing
  <2>2. CASE q2 = p
    BY <1>3, <1>5, <2>2 DEF Changes
  <2>3. CASE q1 # p /\ q2 # p
    BY <1>1, <1>3, <1>5, <1>7, <2>3 DEF AloneInv
  <2> QED BY <2>1, <2>2, <2>3
<1>14. ReadInv'
  <2> SUFFICES ASSUME NEW q \in Procs, alone'[q]
               PROVE  StillSo(q)'
    BY DEF ReadInv
  <2>1. CASE q = p
    <3>1. pc'[p] \notin {"token", "policy"}
      BY <1>2, <1>3, <1>9, <1>10
    <3> QED BY <1>2, <1>3, <1>4, <2>1, <3>1 DEF StillSo
  <2>2. CASE q # p
    <3>1. alone[q] /\ StillSo(q)
      BY <1>1, <1>5, <2>2 DEF ReadInv
    <3> QED BY <1>2, <1>3, <1>4, <1>7, <2>2, <3>1 DEF StillSo
  <2> QED BY <2>1, <2>2
<1>15. WrittenInv'
  <2> SUFFICES ASSUME NEW q \in Procs, Changes(q)', alone'[q]
               PROVE  AsWritten(q)'
    BY DEF WrittenInv
  <2>1. CASE q = p
    <3>1. ~Changing(n) /\ r.verb # "connect"
      BY <1>3, <1>5, <2>1 DEF Changes
    <3>2. \A part \in Parts : part \in doubt[n] \/ Stored(part, n) = expected[n][part]
      BY <1>1, <1>2, <3>1 DEF AsReported
    <3>3. DOMAIN (Written(p)') = {}
      <4>1. CASE r.verb = "create"
        BY <1>3, <1>9, <4>1 DEF Written, CreateWritten
      <4>2. CASE r.verb = "delete"
        BY <1>3, <1>9, <4>2 DEF Written, Gone
      <4>3. CASE r.verb = "update"
        <5>1. CASE pc'[p] = "drop"
          BY <1>3, <1>9, <1>10, <4>3, <5>1 DEF Written, Outcome, Applied, PatchesRow
        <5>2. CASE pc'[p] # "drop"
          BY <1>3, <1>9, <1>10, <4>3, <5>2 DEF Written, Applied, PatchesRow
        <5> QED BY <5>1, <5>2
      <4> QED BY <1>2, <3>1, <4>1, <4>2, <4>3
    <3>4. \A part \in Parts : Stored(part, n)' = Stored(part, n)
      BY <1>2 DEF Stored
    <3> QED BY <1>2, <1>3, <2>1, <3>2, <3>3, <3>4 DEF AsWritten
  <2>2. CASE q # p
    <3>1. Changes(q) /\ alone[q] /\ AsWritten(q)
      BY <1>1, <1>5, <1>7, <2>2 DEF WrittenInv
    <3>2. Written(q)' = Written(q) /\ Unsettled(q)' = Unsettled(q)
      BY <1>3, <1>4, <2>2 DEF Written, Outcome, Applied, CreateWritten, PatchesRow, Unsettled
    <3>3. \A part \in Parts : Stored(part, req[q].name)' = Stored(part, req[q].name)
      BY <1>2, <1>3, <2>2 DEF Stored
    <3> QED BY <1>2, <1>3, <2>2, <3>1, <3>2, <3>3 DEF AsWritten
  <2> QED BY <2>1, <2>2
<1>16. AsReported'
  <2>1. \A m \in Names : ~Changing(m)' => ~Changing(m)
    BY <1>3, <1>7, <1>8 DEF Changing
  <2> QED BY <1>1, <1>2, <2>1 DEF AsReported, Stored
<1> QED BY <1>11, <1>12, <1>13, <1>14, <1>15, <1>16 DEF EndpointsInv

LEMMA StageKeeps ==
    ASSUME EndpointsInv, NEW n \in Names, NEW x \in Secrets, Stage(n, x)
    PROVE  EndpointsInv'
<1>1. /\ TypeOK /\ PlaceInv /\ AloneInv /\ ReadInv /\ WrittenInv /\ AsReported
  BY DEF EndpointsInv
<1>2. /\ UNCHANGED <<row, secret, pin, pc, req, read, got, reply, conn, calls, mishaps, alone,
                     expected, doubt>>
      /\ ~Busy(n) /\ staged' = [staged EXCEPT ![n] = x]
  BY DEF Stage, ghosts
<1>3. TypeOK'
  BY <1>1, <1>2 DEF TypeOK, NeedsSecret, NeedsRow
<1>4. PlaceInv'
  BY <1>1, <1>2 DEF PlaceInv, InPlace, PatchesRow
<1>5. AloneInv'
  BY <1>1, <1>2 DEF AloneInv, Changes
<1>6. ReadInv'
  <2>1. \A q \in Procs : Changes(q) => staged'[req[q].name] = staged[req[q].name]
    BY <1>1, <1>2, RequestTypes DEF Busy, Changes, TypeOK
  <2> QED BY <1>1, <1>2, <2>1 DEF ReadInv, StillSo, Changes
<1>7. WrittenInv'
  <2> SUFFICES ASSUME NEW q \in Procs, Changes(q)', alone'[q]
               PROVE  AsWritten(q)'
    BY DEF WrittenInv
  <2>1. AsWritten(q)
    BY <1>1, <1>2 DEF WrittenInv, Changes
  <2>2. Written(q)' = Written(q) /\ Unsettled(q)' = Unsettled(q)
    BY <1>2 DEF Written, Outcome, Applied, CreateWritten, PatchesRow, Unsettled
  <2>3. \A part \in Parts : Stored(part, req[q].name)' = Stored(part, req[q].name)
    BY <1>2 DEF Stored
  <2> QED BY <1>2, <2>1, <2>2, <2>3 DEF AsWritten
<1>8. AsReported'
  BY <1>1, <1>2 DEF AsReported, Changing, Changes, Stored
<1> QED BY <1>3, <1>4, <1>5, <1>6, <1>7, <1>8 DEF EndpointsInv

LEMMA StepsKeep ==
    ASSUME EndpointsInv, [Next]_vars
    PROVE  EndpointsInv'
<1>1. ASSUME NEW p \in Procs, Step(p)
      PROVE  EndpointsInv'
  <2>1. CASE \E r \in Requests : Call(p, r)
    BY <2>1, CallKeeps
  <2>2. CASE Select(p) \/ Token(p) \/ Connect(p)
    BY <2>2, LookedKeeps
  <2>3. CASE \/ CreateInsert(p) \/ CreateSecret(p) \/ CreatePin(p) \/ CreateUndo(p)
             \/ UpdateSecret(p) \/ UpdateRow(p) \/ UpdatePin(p) \/ Drop(p) \/ Delete(p) \/ Dies(p)
    <3>1. Changed(p)
      BY <2>3, CreateInsertChanges, CreateSecretChanges, CreatePinChanges, CreateUndoChanges,
         UpdateSecretChanges, UpdateRowChanges, UpdatePinChanges, DropChanges, DeleteChanges, DiesChanges
    <3>2. pc[p] # "idle" /\ InPlace(p)
      BY <2>3 DEF CreateInsert, CreateSecret, CreatePin, CreateUndo, UpdateSecret, UpdateRow, UpdatePin,
                  Drop, Delete, Dies, At, Changes, Parts, EndpointsInv, PlaceInv
    <3>3. Changes(p)
      BY <2>3, <3>2
         DEF CreateInsert, CreateSecret, CreatePin, CreateUndo, UpdateSecret, UpdateRow, UpdatePin,
             Drop, Delete, Dies, At, Changes, InPlace
    <3> QED BY <3>1, <3>3, ChangedKeeps
  <2> QED BY <1>1, <2>1, <2>2, <2>3 DEF Step
<1>2. CASE UNCHANGED vars
  <2>1. UNCHANGED <<row, secret, pin, staged, pc, req, read, got, reply, conn, calls, mishaps, alone,
                    expected, doubt>>
    BY <1>2 DEF vars, store, ghosts
  <2>2. TypeOK'
    BY <2>1 DEF EndpointsInv, TypeOK, NeedsSecret, NeedsRow
  <2>3. PlaceInv' /\ AloneInv'
    BY <2>1 DEF EndpointsInv, PlaceInv, InPlace, PatchesRow, AloneInv, Changes
  <2>4. ReadInv'
    BY <2>1 DEF EndpointsInv, ReadInv, StillSo, Changes
  <2>5. AsReported'
    BY <2>1 DEF EndpointsInv, AsReported, Changing, Changes, Stored
  <2>6. WrittenInv'
    <3>1. ASSUME NEW q \in Procs
          PROVE  AsWritten(q)' <=> AsWritten(q)
      <4>1. Written(q)' = Written(q) /\ Unsettled(q)' = Unsettled(q)
        BY <2>1 DEF Written, Outcome, Applied, CreateWritten, PatchesRow, Unsettled
      <4>2. \A part, m : Stored(part, m)' = Stored(part, m)
        BY <2>1 DEF Stored
      <4> QED BY <2>1, <4>1, <4>2 DEF AsWritten
    <3> QED BY <2>1, <3>1 DEF EndpointsInv, WrittenInv, Changes
  <2> QED BY <2>2, <2>3, <2>4, <2>5, <2>6 DEF EndpointsInv
<1> QED BY <1>1, <1>2, StageKeeps DEF Next

LEMMA InitHolds == Init => EndpointsInv
<1> SUFFICES ASSUME Init
             PROVE  EndpointsInv
  OBVIOUS
<1>1. /\ \A p \in Procs : pc[p] = "idle" /\ ~Changes(p)
      /\ req \in [Procs -> Requests]
  BY DEF Init, Changes
<1>2. TypeOK
  <2>1. Nowhere \in Connections /\ Absent \in [Parts -> Values] /\ "idle" \in Steps
    BY DEF Nowhere, Connections, Absent, Values, Steps
  <2>2. calls \in 0 .. MaxCalls /\ mishaps \in 0 .. MaxFaults
    BY EndpointsAssumption DEF Init
  <2>3. \A p \in Procs : ~NeedsSecret(p) /\ ~NeedsRow(p)
    BY <1>1 DEF NeedsSecret, NeedsRow
  <2> QED BY <2>1, <2>2, <2>3 DEF Init, TypeOK, Values
<1>3. PlaceInv /\ AloneInv /\ ReadInv /\ WrittenInv
  BY <1>1 DEF PlaceInv, InPlace, AloneInv, ReadInv, StillSo, WrittenInv
<1>4. AsReported
  BY DEF Init, AsReported, Stored, Absent, Parts
<1> QED BY <1>2, <1>3, <1>4 DEF EndpointsInv

-----------------------------------------------------------------------------
(* The theorems *)

\* The invariant behind them: what a call that is alone has read is still so, and what
\* it has written and left alone is as it says.
THEOREM EndpointsInvariant == Spec => []EndpointsInv
<1>1. EndpointsInv /\ [Next]_vars => EndpointsInv'
  BY StepsKeep
<1> QED BY InitHolds, <1>1, PTL DEF Spec

\* Every variable of Endpoints has its type, and a call has what its step needs.
THEOREM EndpointsTypeCorrect == Spec => []TypeOK
<1>1. EndpointsInv => TypeOK
  BY DEF EndpointsInv
<1> QED BY <1>1, EndpointsInvariant, PTL

\* What the replies of create, update and delete say is what is stored, but for what a
\* failed, dead or overlapped call has left in doubt (pbs_create, pbs_update, pbs_delete).
THEOREM RepliesAreTrue == Spec => []AsReported
<1>1. EndpointsInv => AsReported
  BY DEF EndpointsInv
<1> QED BY <1>1, EndpointsInvariant, PTL

\* A connect that no change has overlapped presents the token of the last create or
\* update, to the server of the pin or of the roots (connect_named, TlsPolicy).
THEOREM ConnectIsAsTold == Spec => ConnectsAsTold
<1>1. ASSUME EndpointsInv, [Next]_vars, NEW p \in Procs
      PROVE  FindsAsTold(p)
  <2> SUFFICES ASSUME conn'[p] # conn[p], conn'[p] # Nowhere, alone[p], doubt[req[p].name] = {}
               PROVE  /\ conn'[p].id = expected[req[p].name]["row"].id
                      /\ conn'[p].secret = expected[req[p].name]["secret"]
                      /\ expected[req[p].name]["row"].enabled
                      /\ IF expected[req[p].name]["pin"] # None
                         THEN conn'[p].cert = expected[req[p].name]["pin"]
                         ELSE expected[req[p].name]["row"].insecure \/ conn'[p].cert \in Trusted
    BY DEF FindsAsTold
  <2> DEFINE n == req[p].name
  <2>1. TypeOK /\ PlaceInv /\ AloneInv /\ ReadInv /\ AsReported /\ n \in Names
    BY <1>1, RequestTypes DEF EndpointsInv, TypeOK
  <2>2. Connect(p)
    <3>1. conn' # conn
      OBVIOUS
    <3>2. ASSUME NEW q \in Procs, Step(q)
          PROVE  Connect(p)
      <4>1. (\E r \in Requests : Call(q, r)) \/ Connect(q)
        BY <3>1, <3>2 DEF Step, CreateInsert, CreateSecret, CreatePin, CreateUndo, UpdateSecret,
             UpdateRow, UpdatePin, Drop, Delete, Dies, Select, Token, ConnectFails
      <4>2. ASSUME NEW r \in Requests, Call(q, r)
            PROVE  FALSE
        BY <2>1, <4>2 DEF Call, TypeOK
      <4>3. CASE Connect(q)
        <5>1. conn' = conn \/ \E v : conn' = [conn EXCEPT ![q] = v]
          BY <4>3 DEF Connect, ConnectFails
        <5>2. q = p
          BY <2>1, <5>1 DEF TypeOK
        <5> QED BY <4>3, <5>2
      <4> QED BY <4>1, <4>2, <4>3
    <3>3. ~(\E m \in Names, x \in Secrets : Stage(m, x)) /\ ~UNCHANGED vars
      BY <3>1 DEF Stage, vars
    <3> QED BY <1>1, <3>2, <3>3 DEF Next
  <2>3. pc[p] = "policy" /\ req[p].verb = "connect"
    BY <2>2 DEF Connect, At
  <2>4. ~Changing(n)
    BY <2>1, <2>3 DEF AloneInv, Changing, Changes
  <2>5. /\ row[n] = expected[n]["row"] /\ secret[n] = expected[n]["secret"] /\ pin[n] = expected[n]["pin"]
    BY <2>1, <2>4 DEF AsReported, Stored, Parts
  <2>6. read[p] = row[n] /\ read[p].enabled /\ got[p] = secret[n]
    BY <2>1, <2>3 DEF ReadInv, StillSo
  <2>7. PICK cert \in Certs :
           /\ Accepts(Policy(pin[n], read[p].insecure), cert)
           /\ conn' = [conn EXCEPT ![p] = [id |-> read[p].id, secret |-> got[p], cert |-> cert]]
    BY <2>2 DEF Connect, ConnectFails
  <2>8. conn'[p].id = read[p].id /\ conn'[p].secret = got[p] /\ conn'[p].cert = cert
    BY <2>1, <2>7 DEF TypeOK
  <2>9. IF pin[n] # None THEN cert = pin[n] ELSE read[p].insecure \/ cert \in Trusted
    <3>1. pin[n] \in Certs \cup {None}
      BY <2>1 DEF TypeOK
    <3> QED BY <2>7, <3>1, EndpointsAssumption DEF Accepts, Policy
  <2> QED BY <2>5, <2>6, <2>8, <2>9
<1> DEFINE Right == \A p \in Procs : FindsAsTold(p)
<1>2. EndpointsInv /\ [Next]_vars => [Right]_vars
  BY <1>1
<1>3. Spec => [][Right]_vars
  <2> HIDE DEF Right
  <2> QED BY <1>2, EndpointsInvariant, PTL DEF Spec
<1> QED BY <1>3 DEF ConnectsAsTold

\* A new token's id never sits beside the old token's secret (pbs_update).
THEOREM IdFindsItsSecret == Spec => NewIdFindsItsSecret
<1> DEFINE Right == \A n \in Names :
             row'[n] # row[n] /\ row[n] # None /\ row'[n] # None =>
               \E p \in Procs :
                   /\ req[p].name = n /\ Changes(p)
                   /\ alone[p] /\ req[p].ref => secret[n] = got[p]
<1>1. ASSUME EndpointsInv, Next, NEW n \in Names, row'[n] # row[n], row[n] # None, row'[n] # None
      PROVE  \E p \in Procs :
                /\ req[p].name = n /\ Changes(p)
                /\ alone[p] /\ req[p].ref => secret[n] = got[p]
  <2>1. PICK p \in Procs : Step(p)
    BY <1>1 DEF Next, Stage
  <2>2. row' # row /\ row \in [Names -> Rows \cup {None}]
    BY <1>1 DEF EndpointsInv, TypeOK
  <2>3. UpdateRow(p)
    <3>1. CreateInsert(p) \/ CreateUndo(p) \/ UpdateRow(p) \/ Delete(p)
      BY <2>1, <2>2 DEF Step, Call, CreateSecret, CreatePin, UpdateSecret, UpdatePin, Drop, Dies,
                        Select, Token, Connect, store
    <3>2. ASSUME CreateInsert(p)
          PROVE  FALSE
      <4>1. row[req[p].name] = None /\ \E v : row' = [row EXCEPT ![req[p].name] = v]
        BY <2>2, <3>2 DEF CreateInsert, Put
      <4> QED BY <1>1, <2>2, <4>1
    <3>3. ASSUME CreateUndo(p) \/ Delete(p)
          PROVE  FALSE
      <4>1. \E m : row' = [row EXCEPT ![m] = None]
        BY <2>2, <3>3 DEF CreateUndo, Delete, Removes, Put
      <4> QED BY <1>1, <2>2, <4>1
    <3> QED BY <3>1, <3>2, <3>3
  <2>4. At(p, "update", "row") /\ Changes(p) /\ req[p].verb = "update" /\ pc[p] = "row"
    BY <2>3 DEF UpdateRow, At, Changes
  <2>5. req[p].name = n
    <3>1. \E v : row' = [row EXCEPT ![req[p].name] = v]
      BY <2>2, <2>3 DEF UpdateRow, Put
    <3> QED BY <1>1, <2>2, <3>1
  <2>6. alone[p] /\ req[p].ref => secret[n] = got[p]
    <3>1. alone[p] => AsWritten(p)
      BY <1>1, <2>4, Here
    <3>2. Written(p) = Applied(p, "row")
      BY <1>1, <2>4, UpdateSoFar
    <3> QED BY <2>5, <3>1, <3>2, AppliedIs DEF AsWritten, Stored, Parts
  <2> QED BY <2>4, <2>5, <2>6
<1>2. EndpointsInv /\ [Next]_vars => [Right]_vars
  <2>1. CASE UNCHANGED vars
    BY <2>1
  <2> QED BY <1>1, <2>1
<1>3. Spec => [][Right]_vars
  <2> HIDE DEF Right
  <2> QED BY <1>2, EndpointsInvariant, PTL DEF Spec
<1> QED BY <1>3 DEF NewIdFindsItsSecret

\* A staged secret is dropped only when it is stored (drop_staged).
THEOREM StagedIsKept == Spec => StagedUntilStored
<1> DEFINE Right == \A n \in Names :
             staged[n] # None /\ staged'[n] = None =>
               \E p \in Procs :
                   req[p].name = n /\ Changes(p) /\ (alone[p] => secret[n] = staged[n])
<1>1. ASSUME EndpointsInv, Next, NEW n \in Names, staged[n] # None, staged'[n] = None
      PROVE  \E p \in Procs :
                req[p].name = n /\ Changes(p) /\ (alone[p] => secret[n] = staged[n])
  <2>1. staged \in [Names -> Secrets \cup {None}] /\ staged' # staged
    BY <1>1 DEF EndpointsInv, TypeOK
  <2>2. ASSUME NEW m \in Names, NEW x \in Secrets, Stage(m, x)
        PROVE  FALSE
    <3>1. staged[m] = None /\ staged' = [staged EXCEPT ![m] = x]
      BY <2>2 DEF Stage
    <3> QED BY <1>1, <2>1, <3>1
  <2>3. PICK p \in Procs : Step(p)
    BY <1>1, <2>2 DEF Next
  <2>4. Drop(p)
    BY <2>1, <2>3 DEF Step, Call, CreateInsert, CreateSecret, CreatePin, CreateUndo, UpdateSecret,
                      UpdateRow, UpdatePin, Delete, Dies, Select, Token, Connect, store
  <2>5. pc[p] = "drop" /\ req[p].ref
        /\ staged' = [staged EXCEPT ![req[p].name] = None]
    BY <2>1, <2>4 DEF Drop
  <2>6. req[p].name = n
    BY <1>1, <2>1, <2>5
  <2>7. Changes(p) /\ req[p].verb \in {"create", "update"}
    <3>1. InPlace(p) /\ req[p] \in Requests
      BY <1>1 DEF EndpointsInv, PlaceInv, TypeOK
    <3> QED BY <2>5, <3>1, RequestTypes DEF InPlace, Changes
  <2>8. alone[p] => secret[n] = got[p] /\ got[p] = staged[n]
    <3>1. alone[p] => AsWritten(p) /\ StillSo(p)
      BY <1>1, <2>7, Here DEF EndpointsInv, ReadInv
    <3>2. alone[p] => got[p] = staged[n]
      BY <2>5, <2>6, <2>7, <3>1 DEF StillSo
    <3>3. Written(p) = Outcome(p)
      BY <2>5, <2>7 DEF Written
    <3>4. "secret" \in DOMAIN Outcome(p) /\ Outcome(p)["secret"] = got[p]
      BY <2>5, <2>7, OutcomeIs, AppliedIs DEF Parts
    <3> QED BY <2>6, <3>1, <3>2, <3>3, <3>4 DEF AsWritten, Stored, Parts
  <2> QED BY <2>6, <2>7, <2>8
<1>2. EndpointsInv /\ [Next]_vars => [Right]_vars
  <2>1. CASE UNCHANGED vars
    BY <2>1
  <2> QED BY <1>1, <2>1
<1>3. Spec => [][Right]_vars
  <2> HIDE DEF Right
  <2> QED BY <1>2, EndpointsInvariant, PTL DEF Spec
<1> QED BY <1>3 DEF StagedUntilStored
=============================================================================
