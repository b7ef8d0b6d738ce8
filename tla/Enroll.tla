------------------------------- MODULE Enroll -------------------------------
(***************************************************************************)
(* pbs.host.enroll and pbs.host.revoke (src/enroll.rs, run by src/plan.rs):*)
(* one host's namespace, user, API token and ACL entries on the server,    *)
(* and orca's copy of the token's secret.                                  *)
(*                                                                         *)
(* A call reads the server with one request after another, plans the steps *)
(* that close the gap, keeps those the operator confirmed, and runs them.  *)
(* Calls overlap, other admins edit the server, a call can be cut off      *)
(* anywhere, and the answer to a step it made can be lost.                 *)
(*                                                                         *)
(* delete_data is not here: the step it adds is that of ConfirmedDelete.   *)
(***************************************************************************)
EXTENDS Integers, FiniteSets

CONSTANTS
    Calls,
    \* ACL entries:
    Wanted,         \* the enrol roles of the host's user and token on its namespace
    OfToken,        \* those of them that are the token's
    Elsewhere,      \* the host's enrol roles on its namespace in another datastore
    OutOfScope,     \* any other entry of the host
    Foreign,        \* entries of other accounts
    None,
    Keys,           \* secrets
    MaxMishaps      \* bound: calls cut off, answers lost, probes that say nothing,
                    \* changes others make, calls begun while another runs

Owned == Wanted \cup Elsewhere \cup OutOfScope
Grants == Owned \cup Foreign
NoKey == 0

ASSUME EnrollAssumption ==
    /\ MaxMishaps \in Nat
    /\ IsFiniteSet(Calls) /\ IsFiniteSet(Grants)
    \* More secrets than can be known anywhere at once.
    /\ Keys \subseteq Nat \ {NoKey} /\ IsFiniteSet(Keys)
    /\ Cardinality(Keys) > 2 + 2 * Cardinality(Calls)
    /\ OfToken \subseteq Wanted
    /\ None \notin Grants
    /\ Wanted \cap (Elsewhere \cup OutOfScope \cup Foreign) = {}
    /\ Elsewhere \cap (OutOfScope \cup Foreign) = {}
    /\ OutOfScope \cap Foreign = {}

VARIABLES
    \* the server
    space,      \* the host's namespace exists
    user,
    token,      \* key is the secret that authenticates it
    acls,       \* the entries of acl.cfg
    \* orca
    stored,     \* the secret held for the token
    \* the calls
    pc,
    verb,
    view,       \* what the call read
    kept,       \* the confirmed steps still to run
    stamped,    \* its next ACL write carries the digest it read
    got,        \* the secret just minted, to be stored
    gone,       \* revoke: the token it listed is gone when its steps are
    mishaps,
    \* for stating properties
    calm,       \* nothing else ran and nobody edited since the call began
    full,       \* the call kept every step it planned, and knew the secret's state
    wrote,      \* ACL: the call wrote none yet, wrote some, or others wrote since
    expected,   \* the ACL entries the call is to leave
    settled     \* what the last calls were, if each was calm, full and done

server == <<space, user, token, acls>>
call == <<pc, verb, view, kept, stamped, got, gone>>
ghosts == <<calm, full, wrote, expected, settled>>
vars == <<server, stored, call, mishaps, ghosts>>

NoUser == [there |-> FALSE, marked |-> FALSE, active |-> FALSE]
HandMade == [there |-> TRUE, marked |-> FALSE, active |-> TRUE]
NoToken == [there |-> FALSE, active |-> FALSE, key |-> NoKey]
Blank == [held |-> NoKey, acls |-> {}, user |-> NoUser,
          token |-> [there |-> FALSE, active |-> FALSE], secret |-> "missing"]

Known == {stored, token.key} \cup UNION {{got[c], view[c].held} : c \in Calls}

\* A newly minted secret: one that nobody knows.
FreshKey == CHOOSE k \in Keys : k \notin Known

Mishap == mishaps < MaxMishaps /\ mishaps' = mishaps + 1

AllIdle == \A c \in Calls : pc[c] = "idle"

Init ==
    /\ space = FALSE /\ acls \in SUBSET (Grants \ Wanted)
    /\ user \in {NoUser, HandMade}
    /\ token \in {NoToken, [there |-> TRUE, active |-> TRUE, key |-> CHOOSE k \in Keys : TRUE]}
    /\ token.there => user.there
    /\ stored = NoKey
    /\ pc = [c \in Calls |-> "idle"] /\ verb = [c \in Calls |-> "none"]
    /\ view = [c \in Calls |-> Blank]
    /\ kept = [c \in Calls |-> {}] /\ stamped = [c \in Calls |-> FALSE]
    /\ got = [c \in Calls |-> NoKey] /\ gone = [c \in Calls |-> FALSE]
    /\ mishaps = 0
    /\ calm = [c \in Calls |-> FALSE] /\ full = [c \in Calls |-> FALSE]
    /\ wrote = [c \in Calls |-> "no"] /\ expected = [c \in Calls |-> {}]
    /\ settled = "no"

-----------------------------------------------------------------------------
(* The plan: what a view of the server lacks *)

\* mark and enable are the body of an update; on is the entry of an ACL write.
Step(act, on, mark, enable) == [act |-> act, on |-> on, mark |-> mark, enable |-> enable]
Plain(act) == Step(act, None, FALSE, FALSE)

\* Only the action and the target are echoed, not the body.
Item(s) == <<s.act, s.on>>

Acts == <<"create-namespace", "create-user", "update-user", "create-token",
          "regenerate-token", "enable-token", "grant", "revoke", "delete-token", "delete-user">>
Rank(s) == CHOOSE i \in DOMAIN Acts : Acts[i] = s.act
IsAcl(s) == s.act \in {"grant", "revoke"}
Mints(s) == s.act \in {"create-token", "regenerate-token"}

NamespaceSteps == IF space THEN {} ELSE {Plain("create-namespace")}

UserSteps(v) ==
    IF ~v.user.there THEN {Plain("create-user")}
    ELSE IF v.user.marked /\ v.user.active THEN {}
    ELSE {Step("update-user", None, ~v.user.marked, ~v.user.active)}

\* Mutant: the secret PBS rejects is kept.
RotateOnlyMissing(v) == v.secret = "missing"

\* The secret is regenerated if orca has none, or if PBS rejects it; never while
\* the token or its user is inactive and orca has one.
Rotates(v) ==
    \/ v.secret = "missing"
    \/ (v.token.active /\ v.user.active /\ v.secret = "rejected")

TokenSteps(v) ==
    IF ~v.user.there \/ ~v.token.there THEN {Plain("create-token")}
    ELSE IF Rotates(v) THEN {Step("regenerate-token", None, FALSE, ~v.token.active)}
    ELSE IF ~v.token.active THEN {Step("enable-token", None, FALSE, TRUE)}
    ELSE {}

Revokes(G) == {Step("revoke", g, FALSE, FALSE) : g \in G}

\* Mutant: what the host has is granted again.
GrantAll(v) == {Step("grant", g, FALSE, FALSE) : g \in Wanted} \cup Revokes(v.acls \cap OutOfScope)

AclSteps(v) ==
    {Step("grant", g, FALSE, FALSE) : g \in Wanted \ v.acls} \cup Revokes(v.acls \cap OutOfScope)

EnrollSteps(v) == NamespaceSteps \cup UserSteps(v) \cup TokenSteps(v) \cup AclSteps(v)

\* Mutant: only the entries that enrol grants.
RevokeWanted(v) == Revokes(v.acls \cap Wanted)

RevokeAcls(v) == Revokes(v.acls \cap Owned)

RevokeSteps(v) ==
    RevokeAcls(v)
        \cup (IF v.token.there THEN {Plain("delete-token")} ELSE {})
        \cup (IF v.user.there THEN {Plain("delete-user")} ELSE {})

StepsOf(w, v) == IF w = "enroll" THEN EnrollSteps(v) ELSE RevokeSteps(v)

Managed(v, a) == v.user.there => v.user.marked \/ a

-----------------------------------------------------------------------------
(* The server's answer to a request *)

\* Whether it accepts the step.  Deleting an entry needs nobody to exist.
Accepts(c, s) ==
    /\ IsAcl(s) /\ stamped[c] => acls = view[c].acls
    /\ CASE s.act = "create-namespace" -> ~space
         [] s.act = "create-user" -> ~user.there
         [] s.act \in {"update-user", "delete-user"} -> user.there
         [] s.act = "create-token" -> user.there /\ ~token.there
         [] s.act \in {"regenerate-token", "enable-token", "delete-token"} -> token.there
         [] s.act = "grant" -> user.there /\ (s.on \in OfToken => token.there)
         [] s.act = "revoke" -> TRUE

UserAfter(s) ==
    CASE s.act = "create-user" -> [there |-> TRUE, marked |-> TRUE, active |-> TRUE]
      [] s.act = "update-user" ->
            [user EXCEPT !.marked = @ \/ s.mark, !.active = @ \/ s.enable]
      [] s.act = "delete-user" -> NoUser
      [] OTHER -> user

\* A token is its user's: it goes with it.
TokenAfter(s) ==
    CASE s.act = "create-token" -> [there |-> TRUE, active |-> TRUE, key |-> FreshKey]
      [] s.act = "regenerate-token" ->
            [token EXCEPT !.active = @ \/ s.enable, !.key = FreshKey]
      [] s.act = "enable-token" -> [token EXCEPT !.active = TRUE]
      [] s.act \in {"delete-token", "delete-user"} -> NoToken
      [] OTHER -> token

AclsAfter(s) ==
    CASE s.act = "grant" -> acls \cup {s.on}
      [] s.act = "revoke" -> acls \ {s.on}
      [] OTHER -> acls

Do(s) ==
    /\ space' = (space \/ s.act = "create-namespace")
    /\ user' = UserAfter(s)
    /\ token' = TokenAfter(s)
    /\ acls' = AclsAfter(s)

-----------------------------------------------------------------------------
(* A call *)

\* Mutant: a probe that failed counts as a refusal.
UnknownIsRejected(v, answered) ==
    IF v.held = NoKey THEN "missing"
    ELSE IF answered /\ token.there /\ token.key = v.held THEN "valid"
    ELSE "rejected"

\* What the secret that was read is worth.  An inactive account is not probed.
SecretState(v, answered) ==
    IF v.held = NoKey THEN "missing"
    ELSE IF (v.user.there /\ ~v.user.active) \/ (v.token.there /\ ~v.token.active) THEN "inactive"
    ELSE IF ~answered THEN "unknown"
    ELSE IF token.there /\ token.active /\ user.active /\ token.key = v.held THEN "valid"
    ELSE "rejected"

\* The stored secret is read first.
Execute(c, w) ==
    /\ pc[c] = "idle"
    /\ pc' = [pc EXCEPT ![c] = "acls"]
    /\ verb' = [verb EXCEPT ![c] = w]
    /\ view' = [view EXCEPT ![c].held = IF w = "enroll" THEN stored ELSE NoKey]
    /\ calm' = [d \in Calls |-> d = c /\ AllIdle]
    /\ IF AllIdle THEN UNCHANGED mishaps ELSE Mishap
    /\ UNCHANGED <<server, stored, kept, stamped, got, gone, full, wrote, expected, settled>>

\* read_state and the reads of revoke.
ReadAcls(c) ==
    /\ pc[c] = "acls"
    /\ pc' = [pc EXCEPT ![c] = "users"]
    /\ view' = [view EXCEPT ![c].acls = acls]
    /\ UNCHANGED <<server, stored, verb, kept, stamped, got, gone, mishaps, ghosts>>

ReadUsers(c) ==
    /\ pc[c] = "users"
    /\ pc' = [pc EXCEPT ![c] = IF verb[c] = "enroll" THEN "secret" ELSE "plan"]
    /\ view' = [view EXCEPT ![c].user = user, ![c].token = [there |-> token.there, active |-> token.active]]
    /\ UNCHANGED <<server, stored, verb, kept, stamped, got, gone, mishaps, ghosts>>

Probe(c) ==
    /\ pc[c] = "secret"
    /\ \E answered \in BOOLEAN :
        /\ IF answered THEN UNCHANGED mishaps ELSE Mishap
        /\ view' = [view EXCEPT ![c].secret = SecretState(view[c], answered), ![c].held = NoKey]
    /\ pc' = [pc EXCEPT ![c] = "plan"]
    /\ UNCHANGED <<server, stored, verb, kept, stamped, got, gone, ghosts>>

\* The call returns, as far as it got.
Return(c, how) ==
    /\ pc' = [pc EXCEPT ![c] = "idle"]
    /\ verb' = [verb EXCEPT ![c] = "none"]
    /\ view' = [view EXCEPT ![c] = Blank] /\ kept' = [kept EXCEPT ![c] = {}]
    /\ stamped' = [stamped EXCEPT ![c] = FALSE]
    /\ got' = [got EXCEPT ![c] = NoKey] /\ gone' = [gone EXCEPT ![c] = FALSE]
    /\ calm' = [calm EXCEPT ![c] = FALSE] /\ full' = [full EXCEPT ![c] = FALSE]
    /\ expected' = [expected EXCEPT ![c] = {}]
    /\ settled' = how

\* Others' ACL entries changed after this call's writes.
Spoilt(c) == [d \in Calls |-> IF d = c THEN "no"
                              ELSE IF wrote[d] = "yes" /\ acls' # acls THEN "spoilt" ELSE wrote[d]]

Quit(c) == Return(c, "no") /\ wrote' = Spoilt(c)

\* An account that is not orca's is not taken over unasked, and a plan needs items.
Refuse(c) ==
    /\ pc[c] = "plan"
    /\ \/ ~Managed(view[c], FALSE)
       \/ StepsOf(verb[c], view[c]) # {}
    /\ UNCHANGED <<server, stored, mishaps>>
    /\ Quit(c)

\* Mutant: the first ACL write of the plan carries the digest, kept or not.
StampPlanned(K, planned) ==
    \E s \in K : IsAcl(s) /\ \A t \in planned : IsAcl(t) => (Rank(s) < Rank(t) \/ s = t)

\* Mutant: the plan is stamped, whatever is kept of it.
StampPlan(K, planned) == \E s \in planned : IsAcl(s)

\* The first ACL write that will run carries the digest.
Stamps(K, planned) == \E s \in K : IsAcl(s)

\* Mutant: the secret goes whatever became of the token.
AlwaysGone(v, K) == TRUE

TokenGone(v, K) == ~v.token.there \/ \E s \in K : s.act = "delete-token"

\* Of the steps planned now, those whose item was echoed, of whatever dry run.
Confirm(c) ==
    LET v == view[c]
        planned == StepsOf(verb[c], v)
    IN  /\ pc[c] = "plan"
        /\ \E adopt \in BOOLEAN : Managed(v, adopt)
        /\ \E items \in SUBSET {Item(s) : s \in planned} :
            LET K == {s \in planned : Item(s) \in items}
            IN  /\ kept' = [kept EXCEPT ![c] = K]
                /\ stamped' = [stamped EXCEPT ![c] = Stamps(K, planned)]
                /\ gone' = [gone EXCEPT ![c] = verb[c] = "revoke" /\ TokenGone(v, K)]
                /\ full' = [full EXCEPT ![c] = K = planned /\ v.secret # "unknown"]
                /\ expected' = [expected EXCEPT ![c] =
                        (v.acls \cup {s.on : s \in {t \in K : t.act = "grant"}})
                            \ {s.on : s \in {t \in K : t.act = "revoke"}}]
        /\ pc' = [pc EXCEPT ![c] = "run"]
        /\ view' = [view EXCEPT ![c] = [Blank EXCEPT !.acls = v.acls]]
        /\ UNCHANGED <<server, stored, verb, got, mishaps, calm, wrote, settled>>

NextSteps(c) == {s \in kept[c] : \A t \in kept[c] : Rank(s) <= Rank(t)}

RunStep(c) ==
    /\ pc[c] = "run"
    /\ \E s \in NextSteps(c) :
        /\ Accepts(c, s) /\ Do(s)
        /\ kept' = [kept EXCEPT ![c] = @ \ {s}]
        /\ stamped' = [stamped EXCEPT ![c] = @ /\ ~IsAcl(s)]
        /\ got' = [got EXCEPT ![c] = IF Mints(s) THEN FreshKey ELSE NoKey]
        /\ pc' = [pc EXCEPT ![c] = IF Mints(s) THEN "store" ELSE "run"]
        /\ wrote' = [Spoilt(c) EXCEPT ![c] =
                        IF IsAcl(s) /\ wrote[c] = "no" THEN "yes" ELSE wrote[c]]
    /\ UNCHANGED <<stored, verb, view, gone, mishaps, calm, full, expected, settled>>

\* The secret is stored before any later step.
Store(c) ==
    /\ pc[c] = "store"
    /\ stored' = got[c]
    /\ pc' = [pc EXCEPT ![c] = "run"] /\ got' = [got EXCEPT ![c] = NoKey]
    /\ UNCHANGED <<server, verb, view, kept, stamped, gone, mishaps, ghosts>>

\* A step the server refuses ends the call.
StepRefused(c) ==
    /\ pc[c] = "run"
    /\ \E s \in NextSteps(c) : ~Accepts(c, s)
    /\ UNCHANGED <<server, stored, mishaps>>
    /\ Quit(c)

\* The step is done and its answer lost, with the secret if it minted one.
AnswerLost(c) ==
    /\ pc[c] = "run"
    /\ Mishap
    /\ \E s \in NextSteps(c) : Accepts(c, s) /\ Do(s)
    /\ Quit(c)
    /\ UNCHANGED stored

\* A request or the secret store fails, or orca stops.
Fail(c) ==
    /\ pc[c] # "idle"
    /\ Mishap
    /\ UNCHANGED <<server, stored>>
    /\ Quit(c)

\* Complete and undisturbed calls, one after the other.
Settles(c) ==
    IF ~calm[c] \/ ~full[c] THEN "no"
    ELSE IF verb[c] = "revoke" THEN "revoked"
    ELSE IF settled \in {"once", "twice"} THEN "twice" ELSE "once"

Finish(c) ==
    /\ pc[c] = "run" /\ kept[c] = {}
    /\ stored' = IF gone[c] THEN NoKey ELSE stored
    /\ UNCHANGED <<server, mishaps>>
    /\ Return(c, Settles(c)) /\ wrote' = Spoilt(c)

-----------------------------------------------------------------------------
(* Other admins *)

EditUser ==
    /\ \/ ~user.there /\ user' = HandMade /\ token' = token
       \/ user.there /\ user' = [user EXCEPT !.active = ~@] /\ token' = token
       \/ user.there /\ user' = NoUser /\ token' = NoToken
    /\ UNCHANGED <<space, acls, stored>>

EditToken ==
    /\ user.there
    /\ \/ token' = [there |-> TRUE, active |-> TRUE, key |-> FreshKey]
       \/ token.there /\ token' = [token EXCEPT !.active = ~@]
       \/ token.there /\ token' = NoToken
    /\ UNCHANGED <<space, user, acls, stored>>

EditAcls ==
    /\ \E g \in Grants : acls' = IF g \in acls THEN acls \ {g} ELSE acls \cup {g}
    /\ UNCHANGED <<space, user, token, stored>>

EditRest ==
    /\ \/ space' = ~space /\ stored' = stored
       \/ stored' = NoKey /\ stored # NoKey /\ space' = space
    /\ UNCHANGED <<user, token, acls>>

Edit ==
    /\ Mishap
    /\ EditUser \/ EditToken \/ EditAcls \/ EditRest
    /\ calm' = [c \in Calls |-> FALSE] /\ settled' = "no"
    /\ wrote' = [c \in Calls |->
                    IF wrote[c] = "yes" /\ acls' # acls THEN "spoilt" ELSE wrote[c]]
    /\ UNCHANGED <<call, full, expected>>

Next ==
    \/ \E c \in Calls :
        \/ \E w \in {"enroll", "revoke"} : Execute(c, w)
        \/ ReadAcls(c) \/ ReadUsers(c) \/ Probe(c) \/ Refuse(c) \/ Confirm(c)
        \/ RunStep(c) \/ Store(c) \/ StepRefused(c) \/ AnswerLost(c) \/ Fail(c) \/ Finish(c)
    \/ Edit

Spec == Init /\ [][Next]_vars

-----------------------------------------------------------------------------
(* Properties *)

Verbs == {"enroll", "revoke", "none"}
Secrets == {"missing", "inactive", "unknown", "valid", "rejected"}
Users == [there : BOOLEAN, marked : BOOLEAN, active : BOOLEAN]
Tokens == [there : BOOLEAN, active : BOOLEAN, key : Keys \cup {NoKey}]
Views == [held : Keys \cup {NoKey}, acls : SUBSET Grants, user : Users,
          token : [there : BOOLEAN, active : BOOLEAN], secret : Secrets]
Steps == [act : {Acts[i] : i \in DOMAIN Acts}, on : Grants \cup {None},
          mark : BOOLEAN, enable : BOOLEAN]

\* The variables have their types; a token that is there has a secret and a user, a
\* secret awaits storing only between its step and the next, and the digest waits
\* for a write that will run.
TypeOK ==
    /\ space \in BOOLEAN /\ user \in Users /\ token \in Tokens
    /\ acls \subseteq Grants /\ stored \in Keys \cup {NoKey}
    /\ token.there = (token.key # NoKey) /\ (token.there => user.there)
    /\ pc \in [Calls -> {"idle", "acls", "users", "secret", "plan", "run", "store"}]
    /\ verb \in [Calls -> Verbs]
    /\ view \in [Calls -> Views] /\ kept \in [Calls -> SUBSET Steps]
    /\ stamped \in [Calls -> BOOLEAN] /\ gone \in [Calls -> BOOLEAN]
    /\ got \in [Calls -> Keys \cup {NoKey}]
    /\ mishaps \in 0..MaxMishaps
    /\ calm \in [Calls -> BOOLEAN] /\ full \in [Calls -> BOOLEAN]
    /\ wrote \in [Calls -> {"no", "yes", "spoilt"}]
    /\ expected \in [Calls -> SUBSET Grants]
    /\ settled \in {"no", "once", "twice", "revoked"}
    /\ \A c \in Calls : /\ (got[c] # NoKey) = (pc[c] = "store")
                        /\ stamped[c] => \E s \in kept[c] : IsAcl(s)

\* What enrol makes of the server.
Ready ==
    /\ space
    /\ user.there /\ user.marked /\ user.active
    /\ token.there /\ token.active
    /\ acls \cap (Wanted \cup OutOfScope) = Wanted

Enrolled == Ready /\ stored = token.key

\* Enrolment is level-triggered: whatever overlapping calls, lost answers, cut-off
\* calls and other admins left behind, one undisturbed enrol that was confirmed in
\* full puts the accounts and entries right, and a second one the secret
\* (enrolling an inactive token only enables it; the next run probes it).
Converges ==
    AllIdle => /\ settled \in {"once", "twice"} => Ready
               /\ settled = "twice" => Enrolled

\* Re-running on an enrolled host is a no-op: an enrol that nothing disturbs plans
\* no step when everything is as it should be.
EnrolledIsLeftAlone ==
    \A c \in Calls :
        pc[c] = "plan" /\ verb[c] = "enroll" /\ calm[c] /\ Enrolled => StepsOf("enroll", view[c]) = {}

\* An undisturbed revoke that was confirmed in full leaves no user, no token, no
\* entry on any path and no secret, whatever state it found.
RevokeLeavesNothing ==
    AllIdle /\ settled = "revoked" =>
        ~user.there /\ ~token.there /\ acls \cap Owned = {} /\ stored = NoKey

\* The ACL writes of a call are made on the entries it planned from: once it has
\* written one, and until somebody else writes, acl.cfg is what it is to leave but
\* for its writes to come.  A change between its read and its first write would
\* break this, were that write not refused (stamp_acl_digest).
AclsAsPlanned ==
    \A c \in Calls :
        wrote[c] = "yes" =>
            LET todo == {s.on : s \in {t \in kept[c] : IsAcl(t)}}
            IN  acls \ todo = expected[c] \ todo

\* A secret that works is never thrown away: an undisturbed enrol regenerates only
\* a token whose secret orca does not hold.  A probe that failed, or that was not
\* made because the account is inactive, proves nothing.
RegeneratesOnlyUseless ==
    [][ \A c \in Calls :
            calm[c] /\ pc[c] = "run" /\ pc'[c] # "run" /\ token.there /\ token'.key # token.key
                => ~token'.there \/ stored # token.key ]_vars

\* Orca's copy of the secret is removed only once the token is gone.
RemovesOnlyUseless ==
    [][ \A c \in Calls :
            calm[c] /\ pc'[c] # pc[c] /\ stored' = NoKey /\ stored # NoKey => ~token.there ]_vars

-----------------------------------------------------------------------------
(* The inductive invariant behind them *)

\* Which steps a call of each verb keeps, and where it is while it keeps some.
Placed(c) ==
    /\ (pc[c] = "idle") = (verb[c] = "none")
    /\ pc[c] \in {"secret", "store"} => verb[c] = "enroll"
    /\ pc[c] \notin {"run", "store"} => kept[c] = {} /\ wrote[c] = "no"
    /\ pc[c] = "idle" => ~calm[c]
    /\ \A s \in kept[c] :
          /\ IsAcl(s) => s.on \in Grants /\ s = Step(s.act, s.on, FALSE, FALSE)
          /\ verb[c] = "enroll" => s.act \notin {"delete-token", "delete-user"}
          /\ verb[c] = "revoke" => s.act \in {"revoke", "delete-token", "delete-user"}
          /\ Mints(s) => pc[c] # "store" /\ \A t \in kept[c] : Mints(t) => t = s
    /\ gone[c] => verb[c] = "revoke"
PlaceInv == \A c \in Calls : Placed(c)

Todo(c) == {s.on : s \in {t \in kept[c] : IsAcl(t)}}

\* A call writes each entry once and as it expects it; until its first write it expects
\* what it has read but for its own writes, and that write carries the digest.
WritesAcls(c) ==
    /\ \A s, t \in kept[c] : IsAcl(s) /\ IsAcl(t) /\ s.on = t.on => s = t
    /\ \A s \in kept[c] : /\ s.act = "grant" => s.on \in expected[c]
                          /\ s.act = "revoke" => s.on \notin expected[c]
    /\ wrote[c] = "no" =>
          /\ (\E s \in kept[c] : IsAcl(s)) => stamped[c]
          /\ kept[c] # {} => view[c].acls \ Todo(c) = expected[c] \ Todo(c)
AclInv == \A c \in Calls : WritesAcls(c)

\* A call that nothing disturbs is alone, and has read what is there.
SeesAll(c) ==
    calm[c] =>
        /\ \A d \in Calls \ {c} : pc[d] = "idle"
        /\ pc[c] \in {"users", "secret", "plan"} => view[c].acls = acls
        /\ pc[c] \in {"secret", "plan"} =>
              view[c].user = user /\ view[c].token = [there |-> token.there, active |-> token.active]
        /\ pc[c] \in {"acls", "users", "secret"} /\ verb[c] = "enroll" => view[c].held = stored
        /\ pc[c] = "plan" /\ verb[c] = "enroll" =>
              \E answered \in BOOLEAN :
                  view[c].secret = SecretState([view[c] EXCEPT !.held = stored], answered)
CalmInv == \A c \in Calls : SeesAll(c)

\* It regenerates only a token whose secret orca has not, and takes the secret for
\* useless only if it has deleted the token or is about to.
Useless(c) ==
    calm[c] =>
        /\ \A s \in kept[c] : s.act = "regenerate-token" => stored # token.key
        /\ pc[c] \in {"run", "store"} /\ gone[c] /\ token.there =>
              \E s \in kept[c] : s.act = "delete-token"
UselessInv == \A c \in Calls : Useless(c)

\* What an enrol that is confirmed in full has not yet put right is among its steps.
UserWillDo(K) ==
    \/ user.there /\ user.marked /\ user.active
    \/ Plain("create-user") \in K
    \/ user.there /\ \E s \in K : /\ s.act = "update-user"
                                  /\ user.marked \/ s.mark
                                  /\ user.active \/ s.enable
TokenWillDo(K) ==
    \/ token.there /\ token.active
    \/ Plain("create-token") \in K
    \/ token.there /\ \E s \in K : s.act \in {"regenerate-token", "enable-token"} /\ s.enable
AclsWillDo(K) ==
    /\ \A g \in Wanted : g \in acls \/ Step("grant", g, FALSE, FALSE) \in K
    /\ \A g \in OutOfScope \cap acls : Step("revoke", g, FALSE, FALSE) \in K
    /\ \A s \in K : s.act = "grant" => s.on \in Wanted
    /\ \A s \in K : s.act = "revoke" => s.on \in OutOfScope

WillEnroll(c) ==
    calm[c] /\ full[c] /\ verb[c] = "enroll" /\ pc[c] \in {"run", "store"} =>
        /\ space \/ Plain("create-namespace") \in kept[c]
        /\ UserWillDo(kept[c]) /\ TokenWillDo(kept[c]) /\ AclsWillDo(kept[c])
EnrollInv == \A c \in Calls : WillEnroll(c)

\* What a revoke has not yet removed is among its steps, or goes with the last of them.
WillRevoke(c) ==
    calm[c] /\ full[c] /\ verb[c] = "revoke" /\ pc[c] \in {"run", "store"} =>
        /\ \A g \in acls \cap Owned : Step("revoke", g, FALSE, FALSE) \in kept[c]
        /\ token.there => Plain("delete-token") \in kept[c]
        /\ user.there => Plain("delete-user") \in kept[c]
        /\ gone[c]
RevokeInv == \A c \in Calls : WillRevoke(c)

\* An enrol that follows an undisturbed one finds everything ready and has at most the
\* secret to put right.
AgainInv ==
    settled \in {"once", "twice"} =>
        \A c \in Calls : calm[c] =>
            /\ pc[c] \notin {"run", "store"} => Ready
            /\ full[c] /\ verb[c] = "enroll" /\ pc[c] \in {"run", "store"} =>
                  /\ kept[c] \subseteq {Step("regenerate-token", None, FALSE, FALSE)}
                  /\ IF pc[c] = "store" THEN got[c] = token.key
                     ELSE stored = token.key \/ kept[c] # {}

EInv ==
    /\ TypeOK /\ PlaceInv /\ AclInv /\ AclsAsPlanned
    /\ CalmInv /\ UselessInv /\ EnrollInv /\ RevokeInv /\ AgainInv
    /\ Converges /\ RevokeLeavesNothing
=============================================================================
