----------------------------- MODULE Endpoints -----------------------------
(***************************************************************************)
(* The endpoint registry: pbs.create, pbs.update, pbs.delete and every     *)
(* verb's connect (src/endpoint.rs), with the TLS policy of src/tls.rs and *)
(* the client of src/client.rs that connect returns.                       *)
(*                                                                         *)
(* An endpoint is kept in three places, written one after another: its row *)
(* (the token's id and the switches), the token's secret and the pin of    *)
(* the server's certificate.  Verbs overlap, a write may fail (and may     *)
(* have landed all the same), and the plugin may die between two of them.  *)
(*                                                                         *)
(* The ghosts expected and doubt are what the operator may conclude from   *)
(* the replies: the value each part was given, and the parts no reply      *)
(* vouches for any more.                                                   *)
(***************************************************************************)
EXTENDS Integers, FiniteSets

CONSTANTS
    Names, Ids, Secrets, Certs,
    Trusted,        \* the certificates the system's roots vouch for
    None, Keep,     \* nothing there; not given
    Insecure, Verify,
    Procs,          \* calls that can overlap
    Requests,       \* the calls considered
    MaxCalls, MaxFaults \* bounds

Parts == {"row", "secret", "pin"}
Rows == [id : Ids, insecure : BOOLEAN, enabled : BOOLEAN]
Request ==
    [verb : {"create", "update", "delete", "connect"}, name : Names, id : Ids \cup {Keep},
     insecure : BOOLEAN \cup {Keep}, enabled : BOOLEAN \cup {Keep},
     ref : BOOLEAN, pin : Certs \cup {None, Keep}]

ASSUME EndpointsAssumption ==
    /\ MaxCalls \in Nat /\ MaxFaults \in Nat
    /\ Requests \subseteq Request
    /\ Trusted \subseteq Certs
    /\ None \notin Rows \cup Secrets \cup Certs
    /\ Keep \notin Ids \cup BOOLEAN \cup Certs \cup {None}
    /\ Insecure \notin Certs /\ Verify \notin Certs /\ Insecure # Verify
    \* create is given everything but the pin, and does not remove one
    /\ \A r \in Requests : r.verb = "create" =>
          r.id # Keep /\ r.insecure # Keep /\ r.enabled = TRUE /\ r.ref /\ r.pin # None
    \* "no fields to update; pass at least one flag"
    /\ \A r \in Requests : r.verb = "update" =>
          r.ref \/ \E v \in {r.id, r.insecure, r.enabled, r.pin} : v # Keep

VARIABLES
    \* orca's store
    row, secret, pin,
    staged,     \* the secret the operator staged
    \* the calls
    pc, req,
    read,       \* the row a call has read
    got,        \* the secret a call has read
    reply,
    conn,       \* the connection a connect has made
    calls, mishaps,
    \* for stating properties
    alone,      \* no other call that changes the endpoint has overlapped this one
    expected, doubt

store == <<row, secret, pin, staged>>
ghosts == <<alone, expected, doubt>>
vars == <<store, pc, req, read, got, reply, conn, calls, mishaps, ghosts>>

Steps == Parts \cup {"idle", "insert", "undo", "drop", "select", "token", "policy"}
\* The steps that use the secret and the row that a call has read.
NeedsSecret(p) ==
    \/ pc[p] \in {"insert", "policy"}
    \/ req[p].verb \in {"create", "update"} /\ pc[p] # "idle" /\ req[p].ref
NeedsRow(p) ==
    \/ pc[p] \in {"token", "policy"}
    \/ req[p].verb = "update" /\ pc[p] # "idle"

\* What a client is made of: the token, and the server it has found.
Connections == [id : Ids \cup {None}, secret : Secrets \cup {None}, cert : Certs \cup {None}]
Nowhere == [id |-> None, secret |-> None, cert |-> None]
Absent == [part \in Parts |-> None]

Init ==
    /\ row = [n \in Names |-> None] /\ secret = [n \in Names |-> None]
    /\ pin = [n \in Names |-> None] /\ staged = [n \in Names |-> None]
    /\ pc = [p \in Procs |-> "idle"] /\ req \in [Procs -> Requests]
    /\ \A p, q \in Procs : req[p] = req[q]
    /\ read = [p \in Procs |-> None] /\ got = [p \in Procs |-> None]
    /\ reply = [p \in Procs |-> "none"] /\ conn = [p \in Procs |-> Nowhere]
    /\ calls = 0 /\ mishaps = 0
    /\ alone = [p \in Procs |-> TRUE]
    /\ expected = [n \in Names |-> Absent] /\ doubt = [n \in Names |-> {}]

-----------------------------------------------------------------------------
(* What the operator may conclude *)

Changes(p) == pc[p] # "idle" /\ req[p].verb # "connect"
Busy(n) == \E p \in Procs : pc[p] # "idle" /\ req[p].name = n
Changing(n) == \E p \in Procs : Changes(p) /\ req[p].name = n

\* The call of p ends.  If it met no other it vouches for what is in sure, it has
\* made the parts in unsure doubtful and says nothing of the others; if it met
\* another, nothing is sure any more.
Concluded(p, sure, unsure) ==
    LET n == req[p].name
        known == DOMAIN sure
    IN  /\ expected' = [expected EXCEPT ![n] =
              [part \in Parts |-> IF part \in known THEN sure[part] ELSE @[part]]]
        /\ doubt' = [doubt EXCEPT ![n] =
              IF alone[p] THEN (@ \ known) \cup unsure ELSE Parts]

Ends(p, r) ==
    /\ pc' = [pc EXCEPT ![p] = "idle"] /\ reply' = [reply EXCEPT ![p] = r]

At(p, verb, where) == pc[p] = where /\ req[p].verb = verb
Goes(p, where) == pc' = [pc EXCEPT ![p] = where]
Put(f, n, v) == [f EXCEPT ![n] = v]
Fault == mishaps < MaxFaults /\ mishaps' = mishaps + 1
Vouches(part, v) == [x \in {part} |-> v]
Nothing == [x \in {} |-> None]

-----------------------------------------------------------------------------
(* Staging and calling *)

\* `orca secrets upsert pbs.<name>.staged`, before the call that takes it.
Stage(n, s) ==
    /\ ~Busy(n) /\ staged[n] = None /\ calls < MaxCalls
    /\ staged' = [staged EXCEPT ![n] = s]
    /\ UNCHANGED <<row, secret, pin, pc, req, read, got, reply, conn, calls, mishaps, ghosts>>

\* resolve_ref: only pbs.<name>.staged, and only if it is there.
Resolves(r) == r.ref => staged[r.name] # None

PatchesRow(r) == \E v \in {r.id, r.insecure, r.enabled} : v # Keep

\* Mutant: a new row makes do with the secret that is there.
RowWithoutSecret(r, done) ==
    IF done = "start" /\ PatchesRow(r) THEN "row"
    ELSE IF done = "start" /\ r.ref THEN "secret"
    ELSE IF done # "pin" /\ r.pin # Keep THEN "pin"
    ELSE "drop"

\* Mutant: the row is written first.
RowFirst(r, done) ==
    IF done = "start" /\ PatchesRow(r) THEN "row"
    ELSE IF done \in {"start", "row"} /\ r.ref THEN "secret"
    ELSE IF done # "pin" /\ r.pin # Keep THEN "pin"
    ELSE "drop"

\* What an update does once it has done the part named: the secret goes first, so
\* that a new token's id never sits beside the old token's secret.
NextWrite(r, done) ==
    IF done = "start" /\ r.ref THEN "secret"
    ELSE IF done \in {"start", "secret"} /\ PatchesRow(r) THEN "row"
    ELSE IF done # "pin" /\ r.pin # Keep THEN "pin"
    ELSE "drop"

FirstStep(r) ==
    IF r.verb = "create" THEN "insert"
    ELSE IF r.verb = "update" THEN NextWrite(r, "start")
    ELSE IF r.verb = "delete" THEN "row" ELSE "select"

\* Whatever fails here has written nothing: the call is refused, and is no call.
Call(p, r) ==
    /\ pc[p] = "idle" /\ calls < MaxCalls
    /\ Resolves(r)
    /\ r.verb = "update" => row[r.name] # None
    /\ calls' = calls + 1
    /\ req' = [req EXCEPT ![p] = r] /\ Goes(p, FirstStep(r))
    /\ read' = [read EXCEPT ![p] = IF r.verb = "update" THEN row[r.name] ELSE None]
    /\ got' = [got EXCEPT ![p] = IF r.ref THEN staged[r.name] ELSE None]
    /\ reply' = [reply EXCEPT ![p] = "none"] /\ conn' = [conn EXCEPT ![p] = Nowhere]
    /\ alone' = [q \in Procs |->
          IF q = p THEN ~Changing(r.name)
          ELSE alone[q] /\ ~(r.verb # "connect" /\ pc[q] # "idle" /\ req[q].name = r.name)]
    /\ UNCHANGED <<store, mishaps, expected, doubt>>

\* The plugin dies, or its host does.
Dies(p) ==
    /\ Changes(p) /\ Fault
    /\ Ends(p, "none")
    /\ Concluded(p, Nothing, Parts)
    /\ UNCHANGED <<store, req, read, got, conn, calls, alone>>

-----------------------------------------------------------------------------
(* pbs.create *)

NewRow(r) == [id |-> r.id, insecure |-> r.insecure, enabled |-> TRUE]

CreateInsert(p) ==
    LET n == req[p].name IN
    /\ At(p, "create", "insert")
    /\ \/ \* there is one of this name
          /\ row[n] # None
          /\ Ends(p, "failed") /\ Concluded(p, Nothing, {})
          /\ UNCHANGED <<row, mishaps>>
       \/ /\ row[n] = None /\ row' = Put(row, n, NewRow(req[p]))
          /\ Goes(p, "secret")
          /\ UNCHANGED <<reply, mishaps, expected, doubt>>
       \/ /\ row[n] = None /\ Fault /\ row' \in {row, Put(row, n, NewRow(req[p]))}
          /\ Ends(p, "failed") /\ Concluded(p, Nothing, {"row"})
    /\ UNCHANGED <<secret, pin, staged, req, read, got, conn, calls, alone>>

\* Mutant: a failed secret is reported, and the row stays.
CreateFailedPlain(p) ==
    /\ Ends(p, "failed") /\ Concluded(p, Vouches("row", None), {"secret", "pin"})

\* A failure of either secret takes the row back first.
CreateFailed(p) ==
    /\ Goes(p, "undo") /\ UNCHANGED <<reply, expected, doubt>>

CreateSecret(p) ==
    LET n == req[p].name IN
    /\ At(p, "create", "secret")
    /\ \/ /\ secret' = Put(secret, n, got[p])
          /\ Goes(p, IF req[p].pin = Keep THEN "drop" ELSE "pin")
          /\ UNCHANGED <<reply, mishaps, expected, doubt>>
       \/ /\ Fault /\ secret' \in {secret, Put(secret, n, got[p])} /\ CreateFailed(p)
    /\ UNCHANGED <<row, pin, staged, req, read, got, conn, calls, alone>>

CreatePin(p) ==
    LET n == req[p].name IN
    /\ At(p, "create", "pin")
    /\ \/ /\ pin' = Put(pin, n, req[p].pin) /\ Goes(p, "drop")
          /\ UNCHANGED <<reply, mishaps, expected, doubt>>
       \/ /\ Fault /\ pin' \in {pin, Put(pin, n, req[p].pin)} /\ CreateFailed(p)
    /\ UNCHANGED <<row, secret, staged, req, read, got, conn, calls, alone>>

\* If the row cannot be removed either, that is only logged.
CreateUndo(p) ==
    LET n == req[p].name IN
    /\ At(p, "create", "undo")
    /\ \/ /\ row' = Put(row, n, None)
          /\ Concluded(p, Vouches("row", None), {"secret", "pin"})
          /\ UNCHANGED mishaps
       \/ /\ Fault /\ row' \in {row, Put(row, n, None)}
          /\ Concluded(p, Nothing, Parts)
    /\ Ends(p, "failed")
    /\ UNCHANGED <<secret, pin, staged, req, read, got, conn, calls, alone>>

-----------------------------------------------------------------------------
(* pbs.update *)

Given(v, old) == IF v = Keep THEN old ELSE v

\* Mutant: what was not given is not kept.
PatchedBlank(old, r) == [id |-> r.id, insecure |-> r.insecure, enabled |-> r.enabled]

\* The row as it was read, with the fields that were given.
Patched(old, r) ==
    [id |-> Given(r.id, old.id), insecure |-> Given(r.insecure, old.insecure),
     enabled |-> Given(r.enabled, old.enabled)]

\* The parts an update has written before it comes to the one named.
Applied(p, upto) ==
    [part \in {x \in Parts :
        \/ x = "secret" /\ req[p].ref /\ upto # "secret"
        \/ x = "row" /\ PatchesRow(req[p]) /\ upto \in {"pin", "end"}
        \/ x = "pin" /\ req[p].pin # Keep /\ upto = "end"} |->
     IF part = "secret" THEN got[p]
     ELSE IF part = "row" THEN Patched(read[p], req[p]) ELSE req[p].pin]

\* The row that was read may itself be in doubt; what was applied is not.
UpdateFailed(p, part) ==
    /\ Ends(p, "failed") /\ Concluded(p, Applied(p, part), {part})

UpdateSecret(p) ==
    LET n == req[p].name IN
    /\ At(p, "update", "secret")
    /\ \/ /\ secret' = Put(secret, n, got[p]) /\ Goes(p, NextWrite(req[p], "secret"))
          /\ UNCHANGED <<reply, mishaps, expected, doubt>>
       \/ /\ Fault /\ secret' \in {secret, Put(secret, n, got[p])} /\ UpdateFailed(p, "secret")
    /\ UNCHANGED <<row, pin, staged, req, read, got, conn, calls, alone>>

UpdateRow(p) ==
    LET n == req[p].name
        new == Patched(read[p], req[p])
    IN
    /\ At(p, "update", "row")
    /\ \/ /\ row[n] # None /\ row' = Put(row, n, new)
          /\ Goes(p, NextWrite(req[p], "row"))
          /\ UNCHANGED <<reply, mishaps, expected, doubt>>
       \/ \* "update reported no row change"
          /\ row[n] = None /\ UpdateFailed(p, "row") /\ UNCHANGED <<row, mishaps>>
       \/ /\ row[n] # None /\ Fault /\ row' \in {row, Put(row, n, new)} /\ UpdateFailed(p, "row")
    /\ UNCHANGED <<secret, pin, staged, req, read, got, conn, calls, alone>>

UpdatePin(p) ==
    LET n == req[p].name IN
    /\ At(p, "update", "pin")
    /\ \/ /\ pin' = Put(pin, n, req[p].pin) /\ Goes(p, "drop")
          /\ UNCHANGED <<reply, mishaps, expected, doubt>>
       \/ /\ Fault /\ pin' \in {pin, Put(pin, n, req[p].pin)} /\ UpdateFailed(p, "pin")
    /\ UNCHANGED <<row, secret, staged, req, read, got, conn, calls, alone>>

-----------------------------------------------------------------------------
(* The end of create and update *)

\* What a successful create or update vouches for.
Outcome(p) ==
    IF req[p].verb = "update" THEN Applied(p, "end")
    ELSE [part \in Parts \ (IF req[p].pin = Keep THEN {"pin"} ELSE {}) |->
            IF part = "secret" THEN got[p]
            ELSE IF part = "row" THEN NewRow(req[p]) ELSE req[p].pin]

\* drop_staged: a copy that cannot be deleted is only logged.
Drop(p) ==
    LET n == req[p].name IN
    /\ pc[p] = "drop"
    /\ \/ /\ staged' = [staged EXCEPT ![n] = IF req[p].ref THEN None ELSE @]
          /\ UNCHANGED mishaps
       \/ req[p].ref /\ Fault /\ UNCHANGED staged
    /\ Ends(p, "ok") /\ Concluded(p, Outcome(p), {})
    /\ UNCHANGED <<row, secret, pin, req, read, got, conn, calls, alone>>

-----------------------------------------------------------------------------
(* pbs.delete: the row, then the secret, then the pin *)

NextPart(part) == IF part = "row" THEN "secret" ELSE "pin"

\* What is gone when a delete comes to the part named.
Gone(upto) ==
    [part \in {x \in Parts :
        \/ x = "row" /\ upto # "row"
        \/ x = "secret" /\ upto \in {"pin", "end"}
        \/ x = "pin" /\ upto = "end"} |-> None]

\* Mutant: the pin is left behind.
RemovesNoPin(part, n) ==
    /\ row' = IF part = "row" THEN Put(row, n, None) ELSE row
    /\ secret' = IF part = "secret" THEN Put(secret, n, None) ELSE secret
    /\ pin' = pin

Removes(part, n) ==
    /\ row' = IF part = "row" THEN Put(row, n, None) ELSE row
    /\ secret' = IF part = "secret" THEN Put(secret, n, None) ELSE secret
    /\ pin' = IF part = "pin" THEN Put(pin, n, None) ELSE pin

Delete(p) ==
    LET n == req[p].name
        part == pc[p]
    IN
    /\ req[p].verb = "delete" /\ part \in Parts
    /\ \/ /\ Removes(part, n)
          /\ IF part = "pin"
             THEN Ends(p, "ok") /\ Concluded(p, Gone("end"), {})
             ELSE Goes(p, NextPart(part)) /\ UNCHANGED <<reply, expected, doubt>>
          /\ UNCHANGED mishaps
       \/ /\ Fault
          /\ Removes(part, n) \/ UNCHANGED <<row, secret, pin>>
          /\ Ends(p, "failed") /\ Concluded(p, Gone(part), {part})
    /\ UNCHANGED <<staged, req, read, got, conn, calls, alone>>

-----------------------------------------------------------------------------
(* connect: select, token, then the policy *)

ConnectFails(p) == Ends(p, "failed") /\ UNCHANGED <<read, got, conn>>

Select(p) ==
    LET n == req[p].name IN
    /\ At(p, "connect", "select")
    /\ IF row[n] = None \/ ~row[n].enabled
       THEN ConnectFails(p)
       ELSE /\ read' = [read EXCEPT ![p] = row[n]] /\ Goes(p, "token")
            /\ UNCHANGED <<got, reply, conn>>
    /\ UNCHANGED <<store, req, calls, mishaps, ghosts>>

Token(p) ==
    LET n == req[p].name IN
    /\ At(p, "connect", "token")
    /\ IF secret[n] = None
       THEN ConnectFails(p)
       ELSE /\ got' = [got EXCEPT ![p] = secret[n]] /\ Goes(p, "policy")
            /\ UNCHANGED <<read, reply, conn>>
    /\ UNCHANGED <<store, req, calls, mishaps, ghosts>>

\* Mutant: insecure wins over a pin.
InsecureWins(fingerprint, insecure) ==
    IF insecure THEN Insecure ELSE IF fingerprint # None THEN fingerprint ELSE Verify

\* TlsPolicy::from_config: a pin wins over insecure.
Policy(fingerprint, insecure) ==
    IF fingerprint # None THEN fingerprint ELSE IF insecure THEN Insecure ELSE Verify

\* The server's certificate, under each policy.
Accepts(policy, cert) ==
    \/ policy = Insecure
    \/ policy = Verify /\ cert \in Trusted
    \/ policy = cert

\* Whatever server answers on the endpoint's route.
Connect(p) ==
    LET policy == Policy(pin[req[p].name], read[p].insecure) IN
    /\ At(p, "connect", "policy")
    /\ \E cert \in Certs :
          IF Accepts(policy, cert)
          THEN /\ conn' = [conn EXCEPT ![p] = [id |-> read[p].id, secret |-> got[p], cert |-> cert]]
               /\ Ends(p, "ok") /\ UNCHANGED <<read, got>>
          ELSE ConnectFails(p)
    /\ UNCHANGED <<store, req, calls, mishaps, ghosts>>

-----------------------------------------------------------------------------

Step(p) ==
    \/ \E r \in Requests : Call(p, r)
    \/ CreateInsert(p) \/ CreateSecret(p) \/ CreatePin(p) \/ CreateUndo(p)
    \/ UpdateSecret(p) \/ UpdateRow(p) \/ UpdatePin(p)
    \/ Drop(p)
    \/ Delete(p)
    \/ Select(p) \/ Token(p) \/ Connect(p)
    \/ Dies(p)

Next ==
    \/ \E n \in Names, s \in Secrets : Stage(n, s)
    \/ \E p \in Procs : Step(p)

Spec == Init /\ [][Next]_vars
-----------------------------------------------------------------------------
(* Properties *)

\* Every variable has its type: a row is whole, a stored secret or pin is one that
\* was given, and a call has what its step needs (pbs_create, pbs_update, connect).
TypeOK ==
    /\ row \in [Names -> Rows \cup {None}]
    /\ secret \in [Names -> Secrets \cup {None}]
    /\ pin \in [Names -> Certs \cup {None}]
    /\ staged \in [Names -> Secrets \cup {None}]
    /\ pc \in [Procs -> Steps] /\ req \in [Procs -> Requests]
    /\ read \in [Procs -> Rows \cup {None}]
    /\ got \in [Procs -> Secrets \cup {None}]
    /\ reply \in [Procs -> {"none", "ok", "failed"}]
    /\ conn \in [Procs -> Connections]
    /\ calls \in 0 .. MaxCalls /\ mishaps \in 0 .. MaxFaults
    /\ alone \in [Procs -> BOOLEAN]
    /\ expected \in [Names -> [Parts -> Rows \cup Secrets \cup Certs \cup {None}]]
    /\ doubt \in [Names -> SUBSET Parts]
    /\ \A p \in Procs : NeedsSecret(p) => got[p] # None
    /\ \A p \in Procs : NeedsRow(p) => read[p] # None

Stored(part, n) ==
    IF part = "row" THEN row[n] ELSE IF part = "secret" THEN secret[n] ELSE pin[n]

\* What the replies say is what is stored: while no call that changes an endpoint
\* runs, each of its three parts that no failed, dead or overlapped call has left in
\* doubt is the one its last create or update gave, or is gone if its last delete
\* said so.  A create whose secret could not be stored leaves no row, an update that
\* fails half way has applied what it says it has and nothing else (pbs_create's
\* rollback, pbs_update's "already applied").
AsReported ==
    \A n \in Names, part \in Parts :
        ~Changing(n) /\ part \notin doubt[n] => Stored(part, n) = expected[n][part]

\* What a connect by p has found.
FindsAsTold(p) ==
    LET told == expected[req[p].name] IN
    /\ conn'[p] # conn[p] /\ conn'[p] # Nowhere
    /\ alone[p] /\ doubt[req[p].name] = {}
    => /\ conn'[p].id = told["row"].id /\ conn'[p].secret = told["secret"]
       /\ told["row"].enabled
       /\ IF told["pin"] # None THEN conn'[p].cert = told["pin"]
          ELSE told["row"].insecure \/ conn'[p].cert \in Trusted

\* A connect that no change has overlapped, of an endpoint that is not in doubt,
\* presents the token of the last create or update, id and secret of the same, to a
\* server whose certificate is the pinned one or, without a pin, one the roots
\* vouch for unless the endpoint is insecure (connect_named, TlsPolicy::from_config:
\* "Ignored when `fingerprint` is set").
ConnectsAsTold == [][\A p \in Procs : FindsAsTold(p)]_vars

\* A new token's id never sits beside the old token's secret: a row that takes an
\* update's id finds that update's secret in its place, whatever failed (the comment
\* in pbs_update; README "Endpoints").
NewIdFindsItsSecret ==
    [][\A n \in Names :
         row'[n] # row[n] /\ row[n] # None /\ row'[n] # None =>
            \E p \in Procs :
                /\ req[p].name = n /\ Changes(p)
                /\ alone[p] /\ req[p].ref => secret[n] = got[p]]_vars

\* A staged secret is dropped only when it is stored: an update or create that failed
\* or died can be run again ("works because the staged copy is only deleted on
\* success").
StagedUntilStored ==
    [][\A n \in Names :
         staged[n] # None /\ staged'[n] = None =>
            \E p \in Procs :
                req[p].name = n /\ Changes(p) /\ (alone[p] => secret[n] = staged[n])]_vars

-----------------------------------------------------------------------------
(* The inductive invariant behind them *)

\* Which verb is where, and with what.
InPlace(p) ==
    /\ req[p].verb = "create" => pc[p] \in {"idle", "insert", "secret", "pin", "undo", "drop"}
    /\ req[p].verb = "update" => pc[p] \in {"idle", "secret", "row", "pin", "drop"}
    /\ req[p].verb = "delete" => pc[p] \in {"idle", "row", "secret", "pin"}
    /\ req[p].verb = "connect" => pc[p] \in {"idle", "select", "token", "policy"}
    /\ pc[p] = "pin" /\ req[p].verb # "delete" => req[p].pin # Keep
    /\ pc[p] = "secret" /\ req[p].verb = "update" => req[p].ref
    /\ pc[p] = "row" /\ req[p].verb = "update" => PatchesRow(req[p])

PlaceInv == \A p \in Procs : InPlace(p)

\* Nothing that changes an endpoint runs beside a call that is alone.
AloneInv ==
    \A p, q \in Procs :
        p # q /\ alone[p] /\ pc[p] # "idle" /\ Changes(q) => req[p].name # req[q].name

\* What a call has read is still so, as long as it is alone.
StillSo(p) ==
    /\ Changes(p) /\ req[p].ref => got[p] = staged[req[p].name]
    /\ pc[p] \in {"token", "policy"} => read[p] = row[req[p].name] /\ read[p].enabled
    /\ pc[p] = "policy" => got[p] = secret[req[p].name]

ReadInv == \A p \in Procs : alone[p] => StillSo(p)

\* What a call that changes an endpoint has written so far.
CreateWritten(p) ==
    [part \in {x \in Parts :
        \/ x = "row" /\ pc[p] # "insert"
        \/ x = "secret" /\ pc[p] = "pin"} |->
     IF part = "row" THEN NewRow(req[p]) ELSE got[p]]

Written(p) ==
    IF req[p].verb = "delete" THEN Gone(pc[p])
    ELSE IF pc[p] = "drop" THEN Outcome(p)
    ELSE IF req[p].verb = "update" THEN Applied(p, pc[p]) ELSE CreateWritten(p)

\* The parts it has left as they may be.
Unsettled(p) == IF pc[p] = "undo" THEN {"secret", "pin"} ELSE {}

\* As long as the call is alone, those parts are as written, and the others as they were.
AsWritten(p) ==
    \A part \in Parts :
        IF part \in DOMAIN Written(p) THEN Stored(part, req[p].name) = Written(p)[part]
        ELSE \/ part \in Unsettled(p) \cup doubt[req[p].name]
             \/ Stored(part, req[p].name) = expected[req[p].name][part]

WrittenInv == \A p \in Procs : Changes(p) /\ alone[p] => AsWritten(p)

EndpointsInv == TypeOK /\ PlaceInv /\ AloneInv /\ ReadInv /\ WrittenInv /\ AsReported
=============================================================================
