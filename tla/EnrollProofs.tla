---------------------------- MODULE EnrollProofs ----------------------------
(***************************************************************************)
(* The properties of Enroll hold for any number of overlapping calls, any  *)
(* ACL entries and any number of mishaps.                                  *)
(***************************************************************************)
EXTENDS Enroll, TLAPS, FiniteSetTheorems, FunctionTheorems

-----------------------------------------------------------------------------
(* A minted secret is new *)

LEMMA FreshKeyIsNew == FreshKey \in Keys /\ FreshKey \notin Known /\ FreshKey # NoKey
<1> DEFINE G == {got[c] : c \in Calls}
           H == {view[c].held : c \in Calls}
           fg == [c \in Calls |-> got[c]]
           fh == [c \in Calls |-> view[c].held]
<1>1. IsFiniteSet(Calls) /\ IsFiniteSet(Keys) /\ Keys \subseteq Nat \ {NoKey}
      /\ Cardinality(Keys) > 2 + 2 * Cardinality(Calls)
  BY EnrollAssumption
<1>2. IsFiniteSet(G) /\ Cardinality(G) <= Cardinality(Calls)
  <2>1. fg \in Surjection(Calls, G)
    BY DEF Surjection
  <2> HIDE DEF G, fg
  <2> QED BY <1>1, <2>1, FS_Surjection
<1>3. IsFiniteSet(H) /\ Cardinality(H) <= Cardinality(Calls)
  <2>1. fh \in Surjection(Calls, H)
    BY DEF Surjection
  <2> HIDE DEF H, fh
  <2> QED BY <1>1, <2>1, FS_Surjection
<1>4. IsFiniteSet({stored, token.key}) /\ Cardinality({stored, token.key}) <= 2
  <2>1. IsFiniteSet({stored}) /\ Cardinality({stored}) = 1
    BY FS_Singleton
  <2>2. /\ IsFiniteSet({stored} \cup {token.key})
        /\ Cardinality({stored} \cup {token.key})
             = IF token.key \in {stored} THEN Cardinality({stored}) ELSE Cardinality({stored}) + 1
    BY <2>1, FS_AddElement
  <2>3. {stored} \cup {token.key} = {stored, token.key}
    OBVIOUS
  <2> QED BY <2>1, <2>2, <2>3
<1>5. Known = {stored, token.key} \cup (G \cup H)
  BY DEF Known
<1> HIDE DEF G, H
<1>6. IsFiniteSet(G \cup H) /\ Cardinality(G \cup H) <= 2 * Cardinality(Calls)
  <2>1. IsFiniteSet(G \cup H)
        /\ Cardinality(G \cup H) = Cardinality(G) + Cardinality(H) - Cardinality(G \cap H)
    BY <1>2, <1>3, FS_Union
  <2>2. Cardinality(G \cap H) \in Nat
    BY <1>2, FS_Intersection, FS_CardinalityType
  <2> QED BY <1>1, <1>2, <1>3, <2>1, <2>2, FS_CardinalityType
<1>7. IsFiniteSet(Known) /\ Cardinality(Known) <= 2 + 2 * Cardinality(Calls)
  <2> DEFINE A == {stored, token.key}
             B == G \cup H
  <2>1. IsFiniteSet(A) /\ Cardinality(A) <= 2 /\ Known = A \cup B
    BY <1>4, <1>5
  <2> HIDE DEF A, B
  <2>2. IsFiniteSet(B) /\ Cardinality(B) <= 2 * Cardinality(Calls)
    BY <1>6 DEF B
  <2>3. IsFiniteSet(A \cup B)
        /\ Cardinality(A \cup B) = Cardinality(A) + Cardinality(B) - Cardinality(A \cap B)
    BY <2>1, <2>2, FS_Union
  <2>4. Cardinality(A \cap B) \in Nat
    BY <2>1, FS_Intersection, FS_CardinalityType
  <2> QED BY <1>1, <2>1, <2>2, <2>3, <2>4, FS_CardinalityType
<1>8. \E k \in Keys : k \notin Known
  <2> SUFFICES ASSUME Keys \subseteq Known PROVE FALSE
    OBVIOUS
  <2>1. Cardinality(Keys) <= Cardinality(Known)
    BY <1>7, FS_Subset
  <2> QED BY <1>1, <1>7, <2>1, FS_CardinalityType
<1> QED BY <1>1, <1>8 DEF FreshKey

-----------------------------------------------------------------------------
(* What the steps are *)

ActNames == {"create-namespace", "create-user", "update-user", "create-token", "regenerate-token",
             "enable-token", "grant", "revoke", "delete-token", "delete-user"}

LEMMA ActsAre == {Acts[i] : i \in DOMAIN Acts} = ActNames
BY DEF Acts, ActNames

LEMMA StepTypes ==
    /\ Steps = [act : ActNames, on : Grants \cup {None}, mark : BOOLEAN, enable : BOOLEAN]
    /\ \A a \in ActNames : Plain(a) \in Steps
    /\ \A g \in Grants : Step("grant", g, FALSE, FALSE) \in Steps /\ Step("revoke", g, FALSE, FALSE) \in Steps
BY ActsAre DEF Steps, Plain, Step, ActNames

\* What a step is, in the terms of its view.
LEMMA EnrollStepsAre ==
    ASSUME NEW v \in Views, NEW s \in EnrollSteps(v)
    PROVE  /\ s \in Steps
           /\ \/ s = Plain("create-namespace") /\ ~space
              \/ s = Plain("create-user") /\ ~v.user.there
              \/ /\ s = Step("update-user", None, ~v.user.marked, ~v.user.active)
                 /\ v.user.there
              \/ s = Plain("create-token") /\ (~v.user.there \/ ~v.token.there)
              \/ /\ s = Step("regenerate-token", None, FALSE, ~v.token.active)
                 /\ v.user.there /\ v.token.there /\ Rotates(v)
              \/ /\ s = Step("enable-token", None, FALSE, TRUE)
                 /\ v.user.there /\ v.token.there /\ ~Rotates(v)
              \/ \E g \in Wanted \ v.acls : s = Step("grant", g, FALSE, FALSE)
              \/ \E g \in v.acls \cap OutOfScope : s = Step("revoke", g, FALSE, FALSE)
<1>1. \/ s \in NamespaceSteps
      \/ s \in UserSteps(v)
      \/ s \in TokenSteps(v)
      \/ s \in AclSteps(v)
  BY DEF EnrollSteps
<1>2. Wanted \subseteq Grants /\ OutOfScope \subseteq Grants
  BY DEF Grants, Owned
<1>3. v.user.there \in BOOLEAN /\ v.user.marked \in BOOLEAN /\ v.user.active \in BOOLEAN
      /\ v.token.there \in BOOLEAN /\ v.token.active \in BOOLEAN
  BY DEF Views, Users
<1>4. \A m, e \in BOOLEAN, a \in ActNames : Step(a, None, m, e) \in Steps
  BY StepTypes DEF Step
<1> USE DEF ActNames
<1>5. CASE s \in NamespaceSteps
  BY <1>5, StepTypes DEF NamespaceSteps
<1>6. CASE s \in UserSteps(v)
  <2>1. CASE ~v.user.there
    BY <1>6, <2>1, StepTypes DEF UserSteps
  <2>2. CASE v.user.there
    <3>1. s = Step("update-user", None, ~v.user.marked, ~v.user.active)
      BY <1>6, <2>2 DEF UserSteps
    <3>2. s \in Steps
      BY <1>3, <1>4, <3>1
    <3> QED BY <2>2, <3>1, <3>2
  <2> QED BY <2>1, <2>2
<1>7. CASE s \in TokenSteps(v)
  <2>1. CASE ~v.user.there \/ ~v.token.there
    BY <1>7, <2>1, StepTypes DEF TokenSteps
  <2>2. CASE v.user.there /\ v.token.there /\ Rotates(v)
    <3>1. s = Step("regenerate-token", None, FALSE, ~v.token.active)
      BY <1>7, <2>2 DEF TokenSteps
    <3>2. s \in Steps
      BY <1>3, <1>4, <3>1
    <3> QED BY <2>2, <3>1, <3>2
  <2>3. CASE v.user.there /\ v.token.there /\ ~Rotates(v)
    <3>1. s = Step("enable-token", None, FALSE, TRUE)
      BY <1>7, <2>3 DEF TokenSteps
    <3>2. s \in Steps
      BY <1>3, <1>4, <3>1
    <3> QED BY <2>3, <3>1, <3>2
  <2> QED BY <2>1, <2>2, <2>3
<1>8. CASE s \in AclSteps(v)
  <2>1. CASE s \in Revokes(v.acls \cap OutOfScope)
    <3>1. PICK g \in v.acls \cap OutOfScope : s = Step("revoke", g, FALSE, FALSE)
      BY <2>1 DEF Revokes
    <3> QED BY <1>2, <3>1, StepTypes
  <2>2. CASE s \notin Revokes(v.acls \cap OutOfScope)
    <3>1. PICK g \in Wanted \ v.acls : s = Step("grant", g, FALSE, FALSE)
      BY <1>8, <2>2 DEF AclSteps
    <3> QED BY <1>2, <3>1, StepTypes
  <2> QED BY <2>1, <2>2
<1> QED BY <1>1, <1>5, <1>6, <1>7, <1>8

LEMMA RevokeStepsAre ==
    ASSUME NEW v \in Views, NEW s \in RevokeSteps(v)
    PROVE  /\ s \in Steps
           /\ \/ s = Plain("delete-token") /\ v.token.there
              \/ s = Plain("delete-user") /\ v.user.there
              \/ \E g \in v.acls \cap Owned : s = Step("revoke", g, FALSE, FALSE)
<1>1. Owned \subseteq Grants
  BY DEF Grants
<1>2. CASE s \in RevokeAcls(v)
  <2>1. PICK g \in v.acls \cap Owned : s = Step("revoke", g, FALSE, FALSE)
    BY <1>2 DEF RevokeAcls, Revokes
  <2> QED BY <1>1, <2>1, StepTypes
<1>3. CASE s \notin RevokeAcls(v)
  <2>1. \/ s \in (IF v.token.there THEN {Plain("delete-token")} ELSE {})
        \/ s \in (IF v.user.there THEN {Plain("delete-user")} ELSE {})
    BY <1>3 DEF RevokeSteps
  <2>2. "delete-token" \in ActNames /\ "delete-user" \in ActNames
    BY DEF ActNames
  <2> QED BY <2>1, <2>2, StepTypes
<1> QED BY <1>2, <1>3

-----------------------------------------------------------------------------
(* What an accepted step does *)

LEMMA UserEffect ==
    ASSUME NEW s, Do(s)
    PROVE  /\ s.act = "create-user" => user' = [there |-> TRUE, marked |-> TRUE, active |-> TRUE]
           /\ s.act = "update-user" =>
                 user' = [user EXCEPT !.marked = @ \/ s.mark, !.active = @ \/ s.enable]
           /\ s.act = "delete-user" => user' = NoUser
           /\ s.act \notin {"create-user", "update-user", "delete-user"} => user' = user
BY DEF Do, UserAfter

LEMMA TokenEffect ==
    ASSUME NEW s, Do(s)
    PROVE  /\ s.act = "create-token" => token' = [there |-> TRUE, active |-> TRUE, key |-> FreshKey]
           /\ s.act = "regenerate-token" =>
                 token' = [token EXCEPT !.active = @ \/ s.enable, !.key = FreshKey]
           /\ s.act = "enable-token" => token' = [token EXCEPT !.active = TRUE]
           /\ s.act \in {"delete-token", "delete-user"} => token' = NoToken
           /\ s.act \notin {"create-token", "regenerate-token", "enable-token", "delete-token",
                            "delete-user"} => token' = token
BY DEF Do, TokenAfter

LEMMA AclEffect ==
    ASSUME NEW s, Do(s)
    PROVE  /\ s.act = "grant" => acls' = acls \cup {s.on}
           /\ s.act = "revoke" => acls' = acls \ {s.on}
           /\ ~IsAcl(s) => acls' = acls
BY DEF Do, AclsAfter, IsAcl

LEMMA AcceptedOnly ==
    ASSUME NEW c, NEW s, Accepts(c, s)
    PROVE  /\ s.act = "create-user" => ~user.there
           /\ s.act = "update-user" => user.there
           /\ s.act = "create-token" => user.there /\ ~token.there
           /\ s.act \in {"regenerate-token", "enable-token"} => token.there
           /\ IsAcl(s) /\ stamped[c] => acls = view[c].acls
BY DEF Accepts

ServerTypes ==
    /\ space \in BOOLEAN /\ user \in Users /\ token \in Tokens /\ acls \subseteq Grants
    /\ token.there = (token.key # NoKey) /\ (token.there => user.there)

LEMMA ServerStep ==
    ASSUME TypeOK, NEW c, NEW s \in Steps, IsAcl(s) => s.on \in Grants, Accepts(c, s), Do(s)
    PROVE  ServerTypes'
<1>0. /\ space \in BOOLEAN /\ user \in Users /\ token \in Tokens /\ acls \subseteq Grants
      /\ token.there = (token.key # NoKey) /\ (token.there => user.there)
  BY DEF TypeOK
<1>1. space' \in BOOLEAN
  BY <1>0 DEF Do
<1>2. acls' \subseteq Grants
  BY <1>0, AclEffect DEF IsAcl
<1>3. s.mark \in BOOLEAN /\ s.enable \in BOOLEAN
  BY StepTypes
<1>4. user' \in Users /\ (s.act # "delete-user" => (user.there => user'.there))
  <2>1. CASE s.act = "create-user"
    <3>1. user' = [there |-> TRUE, marked |-> TRUE, active |-> TRUE]
      BY <2>1, UserEffect
    <3> QED BY <3>1 DEF Users
  <2>2. CASE s.act = "update-user"
    <3>1. user' = [user EXCEPT !.marked = @ \/ s.mark, !.active = @ \/ s.enable]
      BY <2>2, UserEffect
    <3> QED BY <1>0, <1>3, <2>2, <3>1 DEF Users
  <2>3. CASE s.act = "delete-user"
    <3>1. user' = NoUser
      BY <2>3, UserEffect
    <3> QED BY <2>3, <3>1 DEF Users, NoUser
  <2>4. CASE s.act \notin {"create-user", "update-user", "delete-user"}
    BY <1>0, <2>4, UserEffect
  <2> QED BY <2>1, <2>2, <2>3, <2>4
<1>5. token' \in Tokens /\ token'.there = (token'.key # NoKey) /\ (token'.there => user'.there)
  <2>0. FreshKey \in Keys /\ FreshKey # NoKey
    BY FreshKeyIsNew
  <2>1. CASE s.act = "create-token"
    <3>1. token' = [there |-> TRUE, active |-> TRUE, key |-> FreshKey]
      BY <2>1, TokenEffect
    <3>2. user.there
      BY <2>1, AcceptedOnly
    <3> QED BY <1>4, <2>0, <2>1, <3>1, <3>2 DEF Tokens
  <2>2. CASE s.act = "regenerate-token"
    <3>1. token' = [token EXCEPT !.active = @ \/ s.enable, !.key = FreshKey]
      BY <2>2, TokenEffect
    <3>2. token.there
      BY <2>2, AcceptedOnly
    <3> QED BY <1>0, <1>3, <1>4, <2>0, <2>2, <3>1, <3>2 DEF Tokens
  <2>3. CASE s.act = "enable-token"
    <3>1. token' = [token EXCEPT !.active = TRUE]
      BY <2>3, TokenEffect
    <3> QED BY <1>0, <1>4, <2>3, <3>1 DEF Tokens
  <2>4. CASE s.act \in {"delete-token", "delete-user"}
    <3>1. token' = NoToken
      BY <2>4, TokenEffect
    <3> QED BY <3>1 DEF Tokens, NoToken
  <2>5. CASE s.act \notin {"create-token", "regenerate-token", "enable-token", "delete-token", "delete-user"}
    BY <1>0, <1>4, <2>5, TokenEffect
  <2> QED BY <2>1, <2>2, <2>3, <2>4, <2>5
<1> QED BY <1>1, <1>2, <1>4, <1>5 DEF ServerTypes

-----------------------------------------------------------------------------
(* Types *)

CallTypes ==
    /\ pc \in [Calls -> {"idle", "acls", "users", "secret", "plan", "run", "store"}]
    /\ verb \in [Calls -> Verbs]
    /\ view \in [Calls -> Views] /\ kept \in [Calls -> SUBSET Steps]
    /\ stamped \in [Calls -> BOOLEAN] /\ gone \in [Calls -> BOOLEAN]
    /\ got \in [Calls -> Keys \cup {NoKey}]
    /\ \A c \in Calls : /\ (got[c] # NoKey) = (pc[c] = "store")
                        /\ stamped[c] => \E s \in kept[c] : IsAcl(s)

GhostTypes ==
    /\ calm \in [Calls -> BOOLEAN] /\ full \in [Calls -> BOOLEAN]
    /\ wrote \in [Calls -> {"no", "yes", "spoilt"}]
    /\ expected \in [Calls -> SUBSET Grants]
    /\ settled \in {"no", "once", "twice", "revoked"}

LEMMA TypeParts ==
    TypeOK = (/\ ServerTypes /\ stored \in Keys \cup {NoKey} /\ CallTypes
              /\ mishaps \in 0 .. MaxMishaps /\ GhostTypes)
BY DEF TypeOK, ServerTypes, CallTypes, GhostTypes

LEMMA BlankType == Blank \in Views
BY DEF Blank, Views, Users, NoUser, Secrets

LEMMA MishapType ==
    ASSUME mishaps \in 0 .. MaxMishaps, mishaps' = mishaps \/ Mishap
    PROVE  mishaps' \in 0 .. MaxMishaps
BY EnrollAssumption DEF Mishap

LEMMA SpoiltType ==
    ASSUME GhostTypes, NEW c
    PROVE  /\ Spoilt(c) \in [Calls -> {"no", "yes", "spoilt"}]
           /\ c \in Calls => Spoilt(c)[c] = "no"
           /\ \A d \in Calls \ {c} : wrote[d] # "yes" => Spoilt(c)[d] = wrote[d]
           /\ \A d \in Calls \ {c} : Spoilt(c)[d] = "yes" => wrote[d] = "yes" /\ acls' = acls
<1>1. \A d \in Calls : wrote[d] \in {"no", "yes", "spoilt"}
  BY DEF GhostTypes
<1>2. \A d \in Calls : Spoilt(c)[d] =
        IF d = c THEN "no" ELSE IF wrote[d] = "yes" /\ acls' # acls THEN "spoilt" ELSE wrote[d]
  BY DEF Spoilt
<1>3. Spoilt(c) \in [Calls -> {"no", "yes", "spoilt"}]
  BY <1>1 DEF Spoilt
<1> QED BY <1>1, <1>2, <1>3

LEMMA ReturnTypes ==
    ASSUME CallTypes, GhostTypes, NEW c \in Calls, NEW how \in {"no", "once", "twice", "revoked"},
           Return(c, how), wrote' = Spoilt(c)
    PROVE  CallTypes' /\ GhostTypes'
<1>1. wrote' \in [Calls -> {"no", "yes", "spoilt"}]
  BY SpoiltType
<1>2. GhostTypes'
  BY <1>1 DEF Return, GhostTypes
<1>3. view' \in [Calls -> Views]
  BY BlankType DEF Return, CallTypes
<1>4. /\ pc' = [pc EXCEPT ![c] = "idle"] /\ got' = [got EXCEPT ![c] = NoKey]
      /\ stamped' = [stamped EXCEPT ![c] = FALSE] /\ kept' = [kept EXCEPT ![c] = {}]
      /\ verb' = [verb EXCEPT ![c] = "none"] /\ gone' = [gone EXCEPT ![c] = FALSE]
  BY DEF Return
<1>5. CallTypes'
  BY <1>3, <1>4 DEF CallTypes, Verbs
<1> QED BY <1>2, <1>5

LEMMA QuitTypes ==
    ASSUME CallTypes, GhostTypes, NEW c \in Calls, Quit(c)
    PROVE  CallTypes' /\ GhostTypes'
BY ReturnTypes DEF Quit

LEMMA SettlesType ==
    ASSUME NEW c PROVE Settles(c) \in {"no", "once", "twice", "revoked"}
BY DEF Settles

LEMMA SecretType ==
    ASSUME NEW v, NEW answered PROVE SecretState(v, answered) \in Secrets
BY DEF SecretState, Secrets

Moves(c) ==
    \/ \E w \in {"enroll", "revoke"} : Execute(c, w)
    \/ ReadAcls(c) \/ ReadUsers(c) \/ Probe(c) \/ Refuse(c) \/ Confirm(c)
    \/ RunStep(c) \/ Store(c) \/ StepRefused(c) \/ AnswerLost(c) \/ Fail(c) \/ Finish(c)

LEMMA NextIs == Next => (\E c \in Calls : Moves(c)) \/ Edit
BY DEF Next, Moves

\* The steps that a call can confirm have their types.
LEMMA PlannedTypes ==
    ASSUME TypeOK, NEW c \in Calls, NEW s \in StepsOf(verb[c], view[c])
    PROVE  s \in Steps /\ (IsAcl(s) => s.on \in Grants /\ s = Step(s.act, s.on, FALSE, FALSE))
<1>1. view[c] \in Views
  BY DEF TypeOK
<1>2. Wanted \subseteq Grants /\ OutOfScope \subseteq Grants /\ Owned \subseteq Grants
  BY DEF Grants, Owned
<1>3. CASE verb[c] = "enroll"
  <2>1. s \in EnrollSteps(view[c])
    BY <1>3 DEF StepsOf
  <2> QED BY <1>1, <1>2, <2>1, EnrollStepsAre DEF IsAcl, Plain, Step
<1>4. CASE verb[c] # "enroll"
  <2>1. s \in RevokeSteps(view[c])
    BY <1>4 DEF StepsOf
  <2> QED BY <1>1, <1>2, <2>1, RevokeStepsAre DEF IsAcl, Plain, Step
<1> QED BY <1>3, <1>4

LEMMA ViewTypes ==
    ASSUME NEW v \in Views
    PROVE  /\ \A h \in Keys \cup {NoKey} : [v EXCEPT !.held = h] \in Views
           /\ \A A \in SUBSET Grants : [v EXCEPT !.acls = A] \in Views
           /\ \A u \in Users, t \in [there : BOOLEAN, active : BOOLEAN] :
                 [v EXCEPT !.user = u, !.token = t] \in Views
           /\ \A x \in Secrets, h \in Keys \cup {NoKey} :
                 [v EXCEPT !.secret = x, !.held = h] \in Views
<1>1. \A h \in Keys \cup {NoKey} : [v EXCEPT !.held = h] \in Views
  BY DEF Views
<1>2. \A A \in SUBSET Grants : [v EXCEPT !.acls = A] \in Views
  BY DEF Views
<1>3. \A u \in Users, t \in [there : BOOLEAN, active : BOOLEAN] :
         [v EXCEPT !.user = u, !.token = t] \in Views
  BY DEF Views
<1>4. \A x \in Secrets, h \in Keys \cup {NoKey} : [v EXCEPT !.secret = x, !.held = h] \in Views
  BY DEF Views
<1> QED BY <1>1, <1>2, <1>3, <1>4

LEMMA MoveTypes ==
    ASSUME TypeOK, PlaceInv, NEW c \in Calls, Moves(c)
    PROVE  CallTypes' /\ GhostTypes'
<1>0. CallTypes /\ GhostTypes /\ ServerTypes /\ stored \in Keys \cup {NoKey}
  BY TypeParts
<1>10. view[c] \in Views
  BY <1>0 DEF CallTypes
<1> USE <1>0
<1>1. ASSUME NEW w \in {"enroll", "revoke"}, Execute(c, w) PROVE CallTypes' /\ GhostTypes'
  <2>1. pc[c] = "idle" /\ pc' = [pc EXCEPT ![c] = "acls"] /\ verb' = [verb EXCEPT ![c] = w]
        /\ UNCHANGED <<kept, stamped, got, gone, full, wrote, expected, settled>>
    BY <1>1 DEF Execute
  <2>2. view' \in [Calls -> Views]
    <3>1. view' = [view EXCEPT ![c].held = IF w = "enroll" THEN stored ELSE NoKey]
      BY <1>1 DEF Execute
    <3> DEFINE new == [view[c] EXCEPT !.held = IF w = "enroll" THEN stored ELSE NoKey]
    <3>2. (IF w = "enroll" THEN stored ELSE NoKey) \in Keys \cup {NoKey}
      OBVIOUS
    <3>3. new \in Views
      BY <1>10, <3>2, ViewTypes
    <3>4. view' = [view EXCEPT ![c] = new]
      BY <3>1
    <3> HIDE DEF new
    <3> QED BY <3>3, <3>4 DEF CallTypes
  <2>3. calm' \in [Calls -> BOOLEAN]
    BY <1>1 DEF Execute
  <2>4. CallTypes'
    BY <2>1, <2>2 DEF CallTypes, Verbs
  <2> QED BY <2>1, <2>3, <2>4 DEF GhostTypes
<1>2. CASE ReadAcls(c)
  <2>1. pc[c] = "acls" /\ pc' = [pc EXCEPT ![c] = "users"]
        /\ UNCHANGED <<verb, kept, stamped, got, gone, calm, full, wrote, expected, settled>>
    BY <1>2 DEF ReadAcls, ghosts
  <2>2. view' \in [Calls -> Views]
    <3> DEFINE new == [view[c] EXCEPT !.acls = acls]
    <3>1. new \in Views
      BY <1>10, ViewTypes DEF ServerTypes
    <3>2. view' = [view EXCEPT ![c] = new]
      BY <1>2 DEF ReadAcls
    <3> HIDE DEF new
    <3> QED BY <3>1, <3>2 DEF CallTypes
  <2> QED BY <2>1, <2>2 DEF CallTypes, GhostTypes
<1>3. CASE ReadUsers(c)
  <2>1. pc[c] = "users" /\ pc' = [pc EXCEPT ![c] = IF verb[c] = "enroll" THEN "secret" ELSE "plan"]
        /\ UNCHANGED <<verb, kept, stamped, got, gone, calm, full, wrote, expected, settled>>
    BY <1>3 DEF ReadUsers, ghosts
  <2>2. view' \in [Calls -> Views]
    <3>1. view' = [view EXCEPT ![c].user = user,
                               ![c].token = [there |-> token.there, active |-> token.active]]
      BY <1>3 DEF ReadUsers
    <3>2. user \in Users /\ token.there \in BOOLEAN /\ token.active \in BOOLEAN
      BY DEF ServerTypes, Tokens
    <3> DEFINE new == [view[c] EXCEPT !.user = user,
                                      !.token = [there |-> token.there, active |-> token.active]]
    <3>3. new \in Views
      BY <1>10, <3>2, ViewTypes
    <3>4. view' = [view EXCEPT ![c] = new]
      BY <3>1
    <3> HIDE DEF new
    <3> QED BY <3>3, <3>4 DEF CallTypes
  <2> QED BY <2>1, <2>2 DEF CallTypes, GhostTypes
<1>4. CASE Probe(c)
  <2>1. pc[c] = "secret" /\ pc' = [pc EXCEPT ![c] = "plan"]
        /\ UNCHANGED <<verb, kept, stamped, got, gone, calm, full, wrote, expected, settled>>
    BY <1>4 DEF Probe, ghosts
  <2>2. view' \in [Calls -> Views]
    <3>1. PICK answered \in BOOLEAN :
             view' = [view EXCEPT ![c].secret = SecretState(view[c], answered), ![c].held = NoKey]
      BY <1>4 DEF Probe
    <3>2. SecretState(view[c], answered) \in Secrets
      BY SecretType
    <3> DEFINE new == [view[c] EXCEPT !.secret = SecretState(view[c], answered), !.held = NoKey]
    <3>3. new \in Views
      BY <1>10, <3>2, ViewTypes
    <3>4. view' = [view EXCEPT ![c] = new]
      BY <3>1
    <3> HIDE DEF new
    <3> QED BY <3>3, <3>4 DEF CallTypes
  <2> QED BY <2>1, <2>2 DEF CallTypes, GhostTypes
<1>5. CASE Confirm(c)
  <2> DEFINE v == view[c]
             planned == StepsOf(verb[c], v)
  <2>1. pc[c] = "plan" /\ pc' = [pc EXCEPT ![c] = "run"]
        /\ UNCHANGED <<verb, got, calm, wrote, settled>>
        /\ view' = [view EXCEPT ![c] = [Blank EXCEPT !.acls = v.acls]]
    BY <1>5 DEF Confirm
  <2>2. PICK K \in SUBSET planned :
           /\ kept' = [kept EXCEPT ![c] = K]
           /\ stamped' = [stamped EXCEPT ![c] = Stamps(K, planned)]
           /\ gone' = [gone EXCEPT ![c] = verb[c] = "revoke" /\ TokenGone(v, K)]
           /\ full' = [full EXCEPT ![c] = K = planned /\ v.secret # "unknown"]
           /\ expected' = [expected EXCEPT ![c] =
                   (v.acls \cup {s.on : s \in {t \in K : t.act = "grant"}})
                       \ {s.on : s \in {t \in K : t.act = "revoke"}}]
    BY <1>5 DEF Confirm
  <2>3. \A s \in planned : s \in Steps /\ (IsAcl(s) => s.on \in Grants)
    BY PlannedTypes
  <2>4. v \in Views
    BY DEF CallTypes
  <2> HIDE DEF planned, v
  <2>5. view' \in [Calls -> Views]
    <3>1. v.acls \subseteq Grants
      BY <2>4 DEF Views
    <3>2. [Blank EXCEPT !.acls = v.acls] \in Views
      BY <3>1, BlankType DEF Views
    <3> QED BY <2>1, <3>2 DEF CallTypes
  <2>6. kept' \in [Calls -> SUBSET Steps]
    BY <2>2, <2>3 DEF CallTypes
  <2>7. stamped' \in [Calls -> BOOLEAN] /\ (stamped'[c] => \E s \in kept'[c] : IsAcl(s))
    BY <2>2 DEF CallTypes, Stamps
  <2>8. expected' \in [Calls -> SUBSET Grants]
    <3>1. v.acls \subseteq Grants
      BY <2>4 DEF Views
    <3>2. {s.on : s \in {t \in K : t.act = "grant"}} \subseteq Grants
      BY <2>3 DEF IsAcl
    <3> QED BY <2>2, <3>1, <3>2 DEF GhostTypes
  <2>9. gone' \in [Calls -> BOOLEAN] /\ full' \in [Calls -> BOOLEAN]
    BY <2>2 DEF CallTypes, GhostTypes, TokenGone
  <2>10. GhostTypes'
    BY <2>1, <2>8, <2>9 DEF GhostTypes
  <2>11. \A d \in Calls : stamped'[d] => \E s \in kept'[d] : IsAcl(s)
    BY <2>2, <2>7 DEF CallTypes
  <2>12. CallTypes'
    BY <2>1, <2>5, <2>6, <2>7, <2>9, <2>11 DEF CallTypes
  <2> QED BY <2>10, <2>12
<1>6. CASE RunStep(c)
  <2>1. PICK s \in kept[c] :
           /\ kept' = [kept EXCEPT ![c] = @ \ {s}]
           /\ stamped' = [stamped EXCEPT ![c] = @ /\ ~IsAcl(s)]
           /\ got' = [got EXCEPT ![c] = IF Mints(s) THEN FreshKey ELSE NoKey]
           /\ pc' = [pc EXCEPT ![c] = IF Mints(s) THEN "store" ELSE "run"]
           /\ wrote' = [Spoilt(c) EXCEPT ![c] =
                           IF IsAcl(s) /\ wrote[c] = "no" THEN "yes" ELSE wrote[c]]
    BY <1>6 DEF RunStep, NextSteps
  <2>2. pc[c] = "run" /\ UNCHANGED <<verb, view, gone, calm, full, expected, settled>>
    BY <1>6 DEF RunStep
  <2>3. wrote' \in [Calls -> {"no", "yes", "spoilt"}]
    <3>1. wrote[c] \in {"no", "yes", "spoilt"}
      BY DEF GhostTypes
    <3> QED BY <2>1, <3>1, SpoiltType
  <2>4. GhostTypes'
    BY <2>2, <2>3 DEF GhostTypes
  <2>5. FreshKey \in Keys /\ FreshKey # NoKey
    BY FreshKeyIsNew
  <2>6. \A d \in Calls : (got'[d] # NoKey) = (pc'[d] = "store")
    BY <2>1, <2>5 DEF CallTypes
  <2>7. \A d \in Calls : stamped'[d] => \E t \in kept'[d] : IsAcl(t)
    <3>1. ASSUME stamped'[c] PROVE \E t \in kept'[c] : IsAcl(t)
      <4>1. stamped[c] /\ ~IsAcl(s)
        BY <2>1, <3>1 DEF CallTypes
      <4>2. PICK t \in kept[c] : IsAcl(t)
        BY <4>1 DEF CallTypes
      <4>3. t \in kept'[c]
        BY <2>1, <4>1, <4>2 DEF CallTypes
      <4> QED BY <4>2, <4>3
    <3>2. ASSUME NEW d \in Calls \ {c}, stamped'[d] PROVE \E t \in kept'[d] : IsAcl(t)
      BY <2>1, <3>2 DEF CallTypes
    <3> QED BY <3>1, <3>2
  <2>8. /\ pc' \in [Calls -> {"idle", "acls", "users", "secret", "plan", "run", "store"}]
        /\ kept' \in [Calls -> SUBSET Steps] /\ stamped' \in [Calls -> BOOLEAN]
        /\ got' \in [Calls -> Keys \cup {NoKey}]
    BY <2>1, <2>5 DEF CallTypes
  <2> QED BY <2>2, <2>4, <2>6, <2>7, <2>8 DEF CallTypes
<1>7. CASE Store(c)
  <2>1. pc' = [pc EXCEPT ![c] = "run"] /\ got' = [got EXCEPT ![c] = NoKey]
        /\ UNCHANGED <<verb, view, kept, stamped, gone, calm, full, wrote, expected, settled>>
    BY <1>7 DEF Store, ghosts
  <2> QED BY <2>1 DEF CallTypes, GhostTypes
<1>8. CASE Refuse(c) \/ StepRefused(c) \/ AnswerLost(c) \/ Fail(c)
  <2>1. Quit(c)
    BY <1>8 DEF Refuse, StepRefused, AnswerLost, Fail
  <2> QED BY <2>1, QuitTypes
<1>9. CASE Finish(c)
  <2>1. Return(c, Settles(c)) /\ wrote' = Spoilt(c)
    BY <1>9 DEF Finish
  <2> QED BY <2>1, ReturnTypes, SettlesType
<1> QED BY <1>1, <1>2, <1>3, <1>4, <1>5, <1>6, <1>7, <1>8, <1>9 DEF Moves

\* What a move does to the server: nothing, or one accepted step of those it keeps.
LEMMA MoveServer ==
    ASSUME TypeOK, PlaceInv, NEW c \in Calls, Moves(c)
    PROVE  \/ UNCHANGED server
           \/ /\ pc[c] = "run" /\ (RunStep(c) \/ AnswerLost(c))
              /\ \E s \in kept[c] : s \in Steps /\ Accepts(c, s) /\ Do(s)
<1>1. kept[c] \subseteq Steps
  BY DEF TypeOK
<1>2. CASE RunStep(c) \/ AnswerLost(c)
  BY <1>1, <1>2 DEF RunStep, AnswerLost, NextSteps
<1>3. (\E w \in {"enroll", "revoke"} : Execute(c, w)) => UNCHANGED server
  BY DEF Execute
<1>4. ReadAcls(c) \/ ReadUsers(c) \/ Probe(c) \/ Refuse(c) \/ Confirm(c) \/ Store(c)
      \/ StepRefused(c) \/ Fail(c) \/ Finish(c) => UNCHANGED server
  BY DEF ReadAcls, ReadUsers, Probe, Refuse, Confirm, Store, StepRefused, Fail, Finish
<1> QED BY <1>2, <1>3, <1>4 DEF Moves

\* What it does to the stored secret: a store, or the end of a revoke.
LEMMA MoveStored ==
    ASSUME TypeOK, NEW c \in Calls, Moves(c)
    PROVE  \/ stored' = stored
           \/ Store(c) /\ stored' = got[c]
           \/ Finish(c) /\ gone[c] /\ stored' = NoKey
<1>1. (\E w \in {"enroll", "revoke"} : Execute(c, w)) => UNCHANGED stored
  BY DEF Execute
<1>2. ReadAcls(c) \/ ReadUsers(c) \/ Probe(c) \/ Refuse(c) \/ Confirm(c) \/ RunStep(c)
      \/ StepRefused(c) \/ AnswerLost(c) \/ Fail(c) => UNCHANGED stored
  BY DEF ReadAcls, ReadUsers, Probe, Refuse, Confirm, RunStep, StepRefused, AnswerLost, Fail
<1>3. Store(c) => stored' = got[c]
  BY DEF Store
<1>4. Finish(c) => stored' = stored \/ (gone[c] /\ stored' = NoKey)
  BY DEF Finish
<1> QED BY <1>1, <1>2, <1>3, <1>4 DEF Moves

LEMMA EditTypes ==
    ASSUME ServerTypes, stored \in Keys \cup {NoKey}, EditUser \/ EditToken \/ EditAcls \/ EditRest
    PROVE  ServerTypes' /\ stored' \in Keys \cup {NoKey}
<1> USE DEF ServerTypes
<1>1. CASE EditUser
  <2>1. HandMade \in Users /\ NoUser \in Users /\ NoToken \in Tokens
    BY DEF HandMade, NoUser, Users, NoToken, Tokens
  <2>2. UNCHANGED <<space, acls, stored>>
    BY <1>1 DEF EditUser
  <2>3. CASE ~user.there /\ user' = HandMade /\ token' = token
    BY <2>1, <2>2, <2>3
  <2>4. CASE user.there /\ user' = [user EXCEPT !.active = ~@] /\ token' = token
    <3>1. user' \in Users /\ user'.there
      BY <2>4 DEF Users
    <3> QED BY <2>2, <2>4, <3>1
  <2>5. CASE user.there /\ user' = NoUser /\ token' = NoToken
    <3>1. NoToken.there = (NoToken.key # NoKey) /\ ~NoToken.there
      BY DEF NoToken
    <3> QED BY <2>1, <2>2, <2>5, <3>1
  <2> QED BY <1>1, <2>3, <2>4, <2>5 DEF EditUser
<1>2. CASE EditToken
  <2>1. UNCHANGED <<space, user, acls, stored>> /\ user.there
    BY <1>2 DEF EditToken
  <2>2. CASE token' = [there |-> TRUE, active |-> TRUE, key |-> FreshKey]
    BY <2>1, <2>2, FreshKeyIsNew DEF Tokens
  <2>3. CASE token.there /\ token' = [token EXCEPT !.active = ~@]
    BY <2>1, <2>3 DEF Tokens
  <2>4. CASE token.there /\ token' = NoToken
    BY <2>1, <2>4 DEF Tokens, NoToken
  <2> QED BY <1>2, <2>2, <2>3, <2>4 DEF EditToken
<1>3. CASE EditAcls
  BY <1>3 DEF EditAcls
<1>4. CASE EditRest
  BY <1>4 DEF EditRest
<1> QED BY <1>1, <1>2, <1>3, <1>4

LEMMA TypeStep ==
    ASSUME TypeOK, PlaceInv, Next
    PROVE  TypeOK'
<1>0. ServerTypes /\ stored \in Keys \cup {NoKey} /\ CallTypes /\ mishaps \in 0 .. MaxMishaps /\ GhostTypes
  BY TypeParts
<1>1. ASSUME NEW c \in Calls, Moves(c) PROVE TypeOK'
  <2>1. ServerTypes'
    <3>1. CASE UNCHANGED server
      BY <1>0, <3>1 DEF ServerTypes, server
    <3>2. ASSUME NEW s \in kept[c], s \in Steps, Accepts(c, s), Do(s) PROVE ServerTypes'
      BY <3>2, ServerStep DEF PlaceInv, Placed
    <3> QED BY <1>1, <3>1, <3>2, MoveServer
  <2>2. stored' \in Keys \cup {NoKey}
    BY <1>0, <1>1, MoveStored DEF CallTypes
  <2>3. mishaps' = mishaps \/ Mishap
    <3>1. ASSUME NEW w \in {"enroll", "revoke"}, Execute(c, w) PROVE mishaps' = mishaps \/ Mishap
      BY <3>1 DEF Execute
    <3>2. CASE Probe(c)
      BY <3>2 DEF Probe
    <3>3. ReadAcls(c) \/ ReadUsers(c) \/ Refuse(c) \/ Confirm(c) \/ RunStep(c) \/ Store(c)
          \/ StepRefused(c) \/ Finish(c) => mishaps' = mishaps
      BY DEF ReadAcls, ReadUsers, Refuse, Confirm, RunStep, Store, StepRefused, Finish
    <3>4. AnswerLost(c) \/ Fail(c) => Mishap
      BY DEF AnswerLost, Fail
    <3> QED BY <1>1, <3>1, <3>2, <3>3, <3>4 DEF Moves
  <2>4. mishaps' \in 0 .. MaxMishaps
    BY <1>0, <2>3, MishapType
  <2>5. CallTypes' /\ GhostTypes'
    BY <1>1, MoveTypes
  <2> QED BY <2>1, <2>2, <2>4, <2>5 DEF TypeOK, ServerTypes, CallTypes, GhostTypes
<1>2. CASE Edit
  <2>1. ServerTypes' /\ stored' \in Keys \cup {NoKey}
    BY <1>0, <1>2, EditTypes DEF Edit
  <2>2. CallTypes'
    BY <1>0, <1>2 DEF Edit, call, CallTypes
  <2>3. GhostTypes'
    <3>1. UNCHANGED <<full, expected>> /\ settled' = "no" /\ calm' = [c \in Calls |-> FALSE]
      BY <1>2 DEF Edit
    <3>2. wrote' \in [Calls -> {"no", "yes", "spoilt"}]
      BY <1>0, <1>2 DEF Edit, GhostTypes
    <3> QED BY <1>0, <3>1, <3>2 DEF GhostTypes
  <2>4. mishaps' \in 0 .. MaxMishaps
    BY <1>0, <1>2, MishapType DEF Edit
  <2> QED BY <2>1, <2>2, <2>3, <2>4 DEF TypeOK, ServerTypes, CallTypes, GhostTypes
<1> QED BY <1>1, <1>2, NextIs

-----------------------------------------------------------------------------
(* What a move leaves alone *)

LEMMA OthersStay ==
    ASSUME TypeOK, NEW c \in Calls, Moves(c), NEW d \in Calls \ {c}
    PROVE  /\ pc'[d] = pc[d] /\ verb'[d] = verb[d] /\ view'[d] = view[d] /\ kept'[d] = kept[d]
           /\ stamped'[d] = stamped[d] /\ got'[d] = got[d] /\ gone'[d] = gone[d]
           /\ full'[d] = full[d] /\ expected'[d] = expected[d]
           /\ calm'[d] => calm[d]
           /\ wrote[d] = "no" <=> wrote'[d] = "no"
           /\ wrote'[d] = "yes" => wrote[d] = "yes" /\ acls' = acls
<1>0. CallTypes /\ GhostTypes
  BY TypeParts
<1> USE <1>0 DEF CallTypes, GhostTypes
<1>1. ASSUME NEW w \in {"enroll", "revoke"}, Execute(c, w)
      PROVE  /\ pc'[d] = pc[d] /\ verb'[d] = verb[d] /\ view'[d] = view[d]
             /\ calm'[d] => calm[d]
             /\ UNCHANGED <<kept, stamped, got, gone, full, wrote, expected, acls>>
  BY <1>1 DEF Execute, server
<1>2. CASE ReadAcls(c)
  BY <1>2 DEF ReadAcls, server, ghosts
<1>3. CASE ReadUsers(c)
  BY <1>3 DEF ReadUsers, server, ghosts
<1>4. CASE Probe(c)
  BY <1>4 DEF Probe, server, ghosts
<1>5. CASE Confirm(c)
  <2>1. \A x \in Calls \ {c} :
           /\ pc'[x] = pc[x] /\ view'[x] = view[x] /\ kept'[x] = kept[x] /\ stamped'[x] = stamped[x]
           /\ gone'[x] = gone[x] /\ full'[x] = full[x] /\ expected'[x] = expected[x]
    BY <1>5 DEF Confirm
  <2>2. UNCHANGED <<acls, verb, got, calm, wrote>>
    BY <1>5 DEF Confirm, server
  <2> QED BY <2>1, <2>2
<1>6. CASE RunStep(c)
  <2>1. PICK s \in kept[c] :
           /\ kept' = [kept EXCEPT ![c] = @ \ {s}]
           /\ stamped' = [stamped EXCEPT ![c] = @ /\ ~IsAcl(s)]
           /\ got' = [got EXCEPT ![c] = IF Mints(s) THEN FreshKey ELSE NoKey]
           /\ pc' = [pc EXCEPT ![c] = IF Mints(s) THEN "store" ELSE "run"]
           /\ wrote' = [Spoilt(c) EXCEPT ![c] =
                           IF IsAcl(s) /\ wrote[c] = "no" THEN "yes" ELSE wrote[c]]
    BY <1>6 DEF RunStep, NextSteps
  <2>2. UNCHANGED <<verb, view, gone, calm, full, expected>>
    BY <1>6 DEF RunStep
  <2>3. wrote'[d] = Spoilt(c)[d]
    BY <2>1, SpoiltType
  <2>4. wrote[d] \in {"no", "yes", "spoilt"}
    OBVIOUS
  <2>5. wrote[d] # "yes" => wrote'[d] = wrote[d]
    BY <2>3, SpoiltType
  <2>6. wrote'[d] = "yes" => wrote[d] = "yes" /\ acls' = acls
    BY <2>3, SpoiltType
  <2>7. wrote[d] = "yes" => wrote'[d] # "no"
    BY <2>3 DEF Spoilt
  <2> QED BY <2>1, <2>2, <2>4, <2>5, <2>6, <2>7
<1>7. CASE Store(c)
  BY <1>7 DEF Store, server, ghosts
<1>8. ASSUME NEW how, Return(c, how), wrote' = Spoilt(c)
      PROVE  /\ pc'[d] = pc[d] /\ verb'[d] = verb[d] /\ view'[d] = view[d] /\ kept'[d] = kept[d]
             /\ stamped'[d] = stamped[d] /\ got'[d] = got[d] /\ gone'[d] = gone[d]
             /\ full'[d] = full[d] /\ expected'[d] = expected[d]
             /\ calm'[d] => calm[d]
             /\ wrote[d] = "no" <=> wrote'[d] = "no"
             /\ wrote'[d] = "yes" => wrote[d] = "yes" /\ acls' = acls
  <2>1. wrote'[d] = "yes" => wrote[d] = "yes" /\ acls' = acls
    BY <1>8, SpoiltType
  <2>2. wrote[d] = "no" <=> wrote'[d] = "no"
    BY <1>8 DEF Spoilt
  <2> QED BY <1>8, <2>1, <2>2 DEF Return
<1>9. CASE Refuse(c) \/ StepRefused(c) \/ AnswerLost(c) \/ Fail(c)
  <2>1. Quit(c)
    BY <1>9 DEF Refuse, StepRefused, AnswerLost, Fail
  <2> QED BY <2>1, <1>8 DEF Quit
<1>10. CASE Finish(c)
  BY <1>8, <1>10 DEF Finish
<1> QED BY <1>1, <1>2, <1>3, <1>4, <1>5, <1>6, <1>7, <1>9, <1>10 DEF Moves

\* A call that has returned.
LEMMA Returned ==
    ASSUME TypeOK, NEW c \in Calls, Quit(c) \/ Finish(c)
    PROVE  /\ pc'[c] = "idle" /\ verb'[c] = "none" /\ kept'[c] = {} /\ ~gone'[c] /\ ~calm'[c]
           /\ ~full'[c] /\ wrote'[c] = "no"
           /\ settled' = "no" \/ (Finish(c) /\ settled' = Settles(c))
<1>0. CallTypes /\ GhostTypes
  BY TypeParts
<1>1. ASSUME NEW how, Return(c, how), wrote' = Spoilt(c)
      PROVE  /\ pc'[c] = "idle" /\ verb'[c] = "none" /\ kept'[c] = {} /\ ~gone'[c] /\ ~calm'[c]
             /\ ~full'[c] /\ wrote'[c] = "no" /\ settled' = how
  BY <1>0, <1>1, SpoiltType DEF Return, CallTypes, GhostTypes
<1> QED BY <1>1 DEF Quit, Finish

-----------------------------------------------------------------------------
(* What the two great moves do to their own call *)

LEMMA ConfirmIs ==
    ASSUME TypeOK, NEW c \in Calls, Confirm(c)
    PROVE  /\ pc[c] = "plan" /\ pc'[c] = "run" /\ verb' = verb /\ calm' = calm /\ wrote' = wrote
           /\ server' = server /\ stored' = stored /\ settled' = settled /\ got' = got
           /\ kept'[c] \subseteq StepsOf(verb[c], view[c])
           /\ stamped'[c] = (\E s \in kept'[c] : IsAcl(s))
           /\ gone'[c] = (verb[c] = "revoke" /\ TokenGone(view[c], kept'[c]))
           /\ full'[c] => kept'[c] = StepsOf(verb[c], view[c]) /\ view[c].secret # "unknown"
           /\ expected'[c] = (view[c].acls \cup {s.on : s \in {t \in kept'[c] : t.act = "grant"}})
                                 \ {s.on : s \in {t \in kept'[c] : t.act = "revoke"}}
           /\ view'[c].acls = view[c].acls
<1> DEFINE v == view[c]
           planned == StepsOf(verb[c], v)
<1>0. /\ pc \in [Calls -> {"idle", "acls", "users", "secret", "plan", "run", "store"}]
      /\ view \in [Calls -> Views] /\ kept \in [Calls -> SUBSET Steps]
      /\ stamped \in [Calls -> BOOLEAN] /\ gone \in [Calls -> BOOLEAN]
      /\ full \in [Calls -> BOOLEAN] /\ expected \in [Calls -> SUBSET Grants]
  BY DEF TypeOK
<1>1. pc[c] = "plan" /\ pc' = [pc EXCEPT ![c] = "run"]
      /\ UNCHANGED <<server, stored, verb, got, calm, wrote, settled>>
      /\ view' = [view EXCEPT ![c] = [Blank EXCEPT !.acls = v.acls]]
  BY DEF Confirm
<1>2. PICK K \in SUBSET planned :
         /\ kept' = [kept EXCEPT ![c] = K]
         /\ stamped' = [stamped EXCEPT ![c] = Stamps(K, planned)]
         /\ gone' = [gone EXCEPT ![c] = verb[c] = "revoke" /\ TokenGone(v, K)]
         /\ full' = [full EXCEPT ![c] = K = planned /\ v.secret # "unknown"]
         /\ expected' = [expected EXCEPT ![c] =
                 (v.acls \cup {s.on : s \in {t \in K : t.act = "grant"}})
                     \ {s.on : s \in {t \in K : t.act = "revoke"}}]
  BY DEF Confirm
<1>3. view'[c].acls = v.acls
  BY <1>0, <1>1 DEF Blank
<1> HIDE DEF v, planned
<1>4. kept'[c] = K /\ stamped'[c] = Stamps(K, planned)
      /\ gone'[c] = (verb[c] = "revoke" /\ TokenGone(v, K))
      /\ full'[c] = (K = planned /\ v.secret # "unknown")
      /\ expected'[c] = (v.acls \cup {s.on : s \in {t \in K : t.act = "grant"}})
                     \ {s.on : s \in {t \in K : t.act = "revoke"}}
  BY <1>0, <1>2
<1> QED BY <1>0, <1>1, <1>2, <1>3, <1>4 DEF Stamps, v, planned

LEMMA RunIs ==
    ASSUME TypeOK, NEW c \in Calls, RunStep(c)
    PROVE  /\ pc[c] = "run"
           /\ \E s \in kept[c] :
                 /\ s \in Steps /\ Accepts(c, s) /\ Do(s)
                 /\ \A t \in kept[c] : Rank(s) <= Rank(t)
                 /\ kept'[c] = kept[c] \ {s}
                 /\ stamped'[c] = (stamped[c] /\ ~IsAcl(s))
                 /\ got'[c] = (IF Mints(s) THEN FreshKey ELSE NoKey)
                 /\ pc'[c] = (IF Mints(s) THEN "store" ELSE "run")
                 /\ wrote'[c] = (IF IsAcl(s) /\ wrote[c] = "no" THEN "yes" ELSE wrote[c])
           /\ stored' = stored /\ verb' = verb /\ view' = view /\ gone' = gone
           /\ calm' = calm /\ full' = full /\ expected' = expected /\ settled' = settled
<1>0. /\ pc \in [Calls -> {"idle", "acls", "users", "secret", "plan", "run", "store"}]
      /\ kept \in [Calls -> SUBSET Steps] /\ stamped \in [Calls -> BOOLEAN]
      /\ got \in [Calls -> Keys \cup {NoKey}] /\ GhostTypes
  BY DEF TypeOK, GhostTypes
<1>1. PICK s \in kept[c] :
         /\ Accepts(c, s) /\ Do(s)
         /\ \A t \in kept[c] : Rank(s) <= Rank(t)
         /\ kept' = [kept EXCEPT ![c] = @ \ {s}]
         /\ stamped' = [stamped EXCEPT ![c] = @ /\ ~IsAcl(s)]
         /\ got' = [got EXCEPT ![c] = IF Mints(s) THEN FreshKey ELSE NoKey]
         /\ pc' = [pc EXCEPT ![c] = IF Mints(s) THEN "store" ELSE "run"]
         /\ wrote' = [Spoilt(c) EXCEPT ![c] =
                         IF IsAcl(s) /\ wrote[c] = "no" THEN "yes" ELSE wrote[c]]
  BY DEF RunStep, NextSteps
<1>2. wrote'[c] = (IF IsAcl(s) /\ wrote[c] = "no" THEN "yes" ELSE wrote[c])
  BY <1>0, <1>1, SpoiltType
<1>3. /\ pc[c] = "run" /\ stored' = stored /\ verb' = verb /\ view' = view /\ gone' = gone
      /\ calm' = calm /\ full' = full /\ expected' = expected /\ settled' = settled
  BY DEF RunStep
<1>4. /\ s \in Steps /\ kept'[c] = kept[c] \ {s}
      /\ stamped'[c] = (stamped[c] /\ ~IsAcl(s))
      /\ got'[c] = (IF Mints(s) THEN FreshKey ELSE NoKey)
      /\ pc'[c] = (IF Mints(s) THEN "store" ELSE "run")
  BY <1>0, <1>1
<1> QED BY <1>1, <1>2, <1>3, <1>4

-----------------------------------------------------------------------------
(* Which steps a call keeps *)

LEMMA KeptOfEnroll ==
    ASSUME NEW v \in Views, NEW s \in EnrollSteps(v)
    PROVE  /\ s.act \notin {"delete-token", "delete-user"}
           /\ Mints(s) => \A t \in EnrollSteps(v) : Mints(t) => t = s
<1> USE DEF Plain, Step, Mints
<1>1. s.act \notin {"delete-token", "delete-user"}
  BY EnrollStepsAre
<1>2. ASSUME NEW t \in EnrollSteps(v), Mints(t)
      PROVE  \/ t = Plain("create-token") /\ (~v.user.there \/ ~v.token.there)
             \/ /\ t = Step("regenerate-token", None, FALSE, ~v.token.active)
                /\ v.user.there /\ v.token.there
  BY <1>2, EnrollStepsAre
<1>3. ASSUME NEW t \in EnrollSteps(v), Mints(t), Mints(s) PROVE t = s
  BY <1>2, <1>3
<1> QED BY <1>1, <1>3

LEMMA KeptOfRevoke ==
    ASSUME NEW v \in Views, NEW s \in RevokeSteps(v)
    PROVE  s.act \in {"revoke", "delete-token", "delete-user"} /\ ~Mints(s)
BY RevokeStepsAre DEF Plain, Step, Mints

LEMMA PlaceStep ==
    ASSUME TypeOK, PlaceInv, Next
    PROVE  PlaceInv'
<1>0. CallTypes /\ GhostTypes
  BY TypeParts
<1> USE <1>0
<1>1. ASSUME NEW c \in Calls, Moves(c), NEW d \in Calls \ {c} PROVE Placed(d)'
  <2>1. Placed(d)
    BY DEF PlaceInv
  <2>2. /\ pc'[d] = pc[d] /\ verb'[d] = verb[d] /\ kept'[d] = kept[d] /\ gone'[d] = gone[d]
        /\ calm'[d] => calm[d]
        /\ wrote[d] = "no" <=> wrote'[d] = "no"
    BY <1>1, OthersStay
  <2> QED BY <2>1, <2>2 DEF Placed
<1>2. ASSUME NEW c \in Calls, Moves(c) PROVE Placed(c)'
  <2>0. Placed(c)
    BY DEF PlaceInv
  <2>1. ASSUME NEW w \in {"enroll", "revoke"}, Execute(c, w) PROVE Placed(c)'
    <3>1. /\ pc[c] = "idle" /\ pc'[c] = "acls" /\ verb'[c] = w
          /\ kept' = kept /\ wrote' = wrote /\ gone' = gone
      BY <2>1 DEF Execute, CallTypes
    <3> QED BY <2>0, <3>1 DEF Placed
  <2>2. CASE ReadAcls(c)
    <3>1. pc[c] = "acls" /\ pc'[c] = "users" /\ UNCHANGED <<verb, kept, wrote, gone>>
      BY <2>2 DEF ReadAcls, CallTypes, ghosts
    <3> QED BY <2>0, <3>1 DEF Placed
  <2>3. CASE ReadUsers(c)
    <3>1. pc[c] = "users" /\ pc'[c] = (IF verb[c] = "enroll" THEN "secret" ELSE "plan")
          /\ UNCHANGED <<verb, kept, wrote, gone>>
      BY <2>3 DEF ReadUsers, CallTypes, ghosts
    <3> QED BY <2>0, <3>1 DEF Placed
  <2>4. CASE Probe(c)
    <3>1. pc[c] = "secret" /\ pc'[c] = "plan" /\ UNCHANGED <<verb, kept, wrote, gone>>
      BY <2>4 DEF Probe, CallTypes, ghosts
    <3> QED BY <2>0, <3>1 DEF Placed
  <2>5. CASE Confirm(c)
    <3>1. /\ pc[c] = "plan" /\ pc'[c] = "run" /\ UNCHANGED <<verb, wrote>>
          /\ kept'[c] \subseteq StepsOf(verb[c], view[c])
          /\ gone'[c] => verb[c] = "revoke"
      BY <2>5, ConfirmIs
    <3>2. view[c] \in Views /\ verb[c] \in {"enroll", "revoke"}
      BY <2>0, <3>1 DEF CallTypes, Placed, Verbs
    <3>3. ASSUME NEW s \in kept'[c], IsAcl(s)
          PROVE  s.on \in Grants /\ s = Step(s.act, s.on, FALSE, FALSE)
      <4>1. s \in StepsOf(verb[c], view[c])
        BY <3>1
      <4> QED BY <3>3, <4>1, PlannedTypes
    <3>4. CASE verb[c] = "enroll"
      <4>1. kept'[c] \subseteq EnrollSteps(view[c])
        BY <3>1, <3>4 DEF StepsOf
      <4>2. ASSUME NEW s \in kept'[c]
            PROVE  /\ s.act \notin {"delete-token", "delete-user"}
                   /\ Mints(s) => \A t \in kept'[c] : Mints(t) => t = s
        <5>1. s \in EnrollSteps(view[c])
          BY <4>1
        <5> QED BY <3>2, <4>1, <5>1, KeptOfEnroll
      <4>3. ~gone'[c]
        BY <3>1, <3>4
      <4> QED BY <3>1, <3>3, <3>4, <4>2, <4>3 DEF Placed
    <3>5. CASE verb[c] = "revoke"
      <4>1. kept'[c] \subseteq RevokeSteps(view[c])
        BY <3>1, <3>5 DEF StepsOf
      <4>2. ASSUME NEW s \in kept'[c]
            PROVE  s.act \in {"revoke", "delete-token", "delete-user"} /\ ~Mints(s)
        <5>1. s \in RevokeSteps(view[c])
          BY <4>1
        <5> QED BY <3>2, <5>1, KeptOfRevoke
      <4> QED BY <3>1, <3>3, <3>5, <4>2 DEF Placed
    <3> QED BY <3>2, <3>4, <3>5
  <2>6. CASE RunStep(c)
    <3>1. PICK s \in kept[c] :
             /\ kept'[c] = kept[c] \ {s} /\ pc'[c] = (IF Mints(s) THEN "store" ELSE "run")
      BY <2>6 DEF RunStep, NextSteps, CallTypes
    <3>2. pc[c] = "run" /\ UNCHANGED <<verb, gone>>
      BY <2>6 DEF RunStep
    <3>3. verb[c] \in {"enroll", "revoke"}
      BY <2>0, <3>2 DEF CallTypes, Placed, Verbs
    <3>4. Mints(s) => verb[c] = "enroll" /\ \A t \in kept'[c] : ~Mints(t)
      BY <2>0, <3>1, <3>3 DEF Placed, Mints
    <3> QED BY <2>0, <3>1, <3>2, <3>3, <3>4 DEF Placed
  <2>7. CASE Store(c)
    <3>1. pc[c] = "store" /\ pc'[c] = "run" /\ UNCHANGED <<verb, kept, wrote, gone>>
      BY <2>7 DEF Store, CallTypes, ghosts
    <3> QED BY <2>0, <3>1 DEF Placed
  <2>8. CASE Refuse(c) \/ StepRefused(c) \/ AnswerLost(c) \/ Fail(c) \/ Finish(c)
    <3>1. Quit(c) \/ Finish(c)
      BY <2>8 DEF Refuse, StepRefused, AnswerLost, Fail
    <3>2. pc'[c] = "idle" /\ verb'[c] = "none" /\ kept'[c] = {} /\ ~gone'[c] /\ ~calm'[c] /\ wrote'[c] = "no"
      BY <3>1, Returned
    <3> QED BY <3>2 DEF Placed
  <2> QED BY <1>2, <2>1, <2>2, <2>3, <2>4, <2>5, <2>6, <2>7, <2>8 DEF Moves
<1>3. ASSUME Edit, NEW d \in Calls PROVE Placed(d)'
  <2>1. Placed(d)
    BY DEF PlaceInv
  <2>2. /\ UNCHANGED <<pc, verb, kept, gone>> /\ ~calm'[d]
        /\ wrote'[d] = (IF wrote[d] = "yes" /\ acls' # acls THEN "spoilt" ELSE wrote[d])
    BY <1>3 DEF Edit, call
  <2> QED BY <2>1, <2>2 DEF Placed
<1> QED BY <1>1, <1>2, <1>3, NextIs DEF PlaceInv

-----------------------------------------------------------------------------
(* The ACL entries *)

Keeps(c) == wrote[c] = "yes" => acls \ Todo(c) = expected[c] \ Todo(c)

LEMMA KeepsIsAsPlanned == AclsAsPlanned = \A c \in Calls : Keeps(c)
BY DEF AclsAsPlanned, Keeps, Todo

\* What the ACL steps of a plan are: nothing is granted that the call read, nothing is
\* revoked that it did not.
LEMMA AclStepIs ==
    ASSUME TypeOK, NEW c \in Calls, NEW s \in StepsOf(verb[c], view[c]), IsAcl(s)
    PROVE  \/ /\ s = Step("grant", s.on, FALSE, FALSE) /\ verb[c] = "enroll"
              /\ s.on \in Wanted \ view[c].acls
           \/ /\ s = Step("revoke", s.on, FALSE, FALSE) /\ s.on \in view[c].acls \cap Owned
              /\ verb[c] = "enroll" => s.on \in OutOfScope
<1>1. view[c] \in Views
  BY DEF TypeOK
<1>2. OutOfScope \subseteq Owned
  BY DEF Owned
<1>3. CASE verb[c] = "enroll"
  <2>1. s \in EnrollSteps(view[c])
    BY <1>3 DEF StepsOf
  <2>2. \/ \E g \in Wanted \ view[c].acls : s = Step("grant", g, FALSE, FALSE)
        \/ \E g \in view[c].acls \cap OutOfScope : s = Step("revoke", g, FALSE, FALSE)
    BY <1>1, <2>1, EnrollStepsAre DEF IsAcl, Plain, Step
  <2> QED BY <1>2, <1>3, <2>2 DEF Step
<1>4. CASE verb[c] # "enroll"
  <2>1. s \in RevokeSteps(view[c])
    BY <1>4 DEF StepsOf
  <2>2. \E g \in view[c].acls \cap Owned : s = Step("revoke", g, FALSE, FALSE)
    BY <1>1, <2>1, RevokeStepsAre DEF IsAcl, Plain, Step
  <2> QED BY <1>4, <2>2 DEF Step
<1> QED BY <1>3, <1>4

LEMMA AclOfConfirm ==
    ASSUME TypeOK, PlaceInv, NEW c \in Calls, Confirm(c)
    PROVE  WritesAcls(c)' /\ Keeps(c)'
<1> DEFINE A == view[c].acls
           K == kept'[c]
           G == {s.on : s \in {t \in K : t.act = "grant"}}
           R == {s.on : s \in {t \in K : t.act = "revoke"}}
<1>1. /\ pc[c] = "plan" /\ wrote' = wrote /\ K \subseteq StepsOf(verb[c], view[c])
      /\ stamped'[c] = (\E s \in K : IsAcl(s))
      /\ expected'[c] = (A \cup G) \ R
      /\ view'[c].acls = A
  BY ConfirmIs
<1>2. wrote[c] = "no"
  BY <1>1 DEF PlaceInv, Placed
<1>3. ASSUME NEW s \in K, IsAcl(s)
      PROVE  \/ /\ s = Step("grant", s.on, FALSE, FALSE) /\ verb[c] = "enroll"
                /\ s.on \in Wanted \ A
             \/ /\ s = Step("revoke", s.on, FALSE, FALSE) /\ s.on \in A
                /\ verb[c] = "enroll" => s.on \in OutOfScope
  <2>1. s \in StepsOf(verb[c], view[c])
    BY <1>1
  <2> QED BY <1>3, <2>1, AclStepIs
<1>4. Todo(c)' = G \cup R
  BY DEF Todo, IsAcl
<1>5. \A s, t \in K : IsAcl(s) /\ IsAcl(t) /\ s.on = t.on => s = t
  BY <1>3
<1>6. \A s \in K : /\ s.act = "grant" => s.on \in G /\ s.on \notin R
                   /\ s.act = "revoke" => s.on \in R
  <2>1. \A s \in K : s.act = "grant" => s.on \notin A
    BY <1>3 DEF IsAcl, Step
  <2>2. \A s \in K : s.act = "revoke" => s.on \in A
    BY <1>3 DEF IsAcl, Step
  <2>3. R \subseteq A
    BY <2>2
  <2> QED BY <2>1, <2>3
<1> HIDE DEF A, K, G, R
<1>7. \A s \in K : /\ s.act = "grant" => s.on \in expected'[c]
                   /\ s.act = "revoke" => s.on \notin expected'[c]
  BY <1>1, <1>6
<1>8. A \ (G \cup R) = expected'[c] \ (G \cup R)
  BY <1>1
<1>9. WritesAcls(c)'
  BY <1>1, <1>4, <1>5, <1>7, <1>8 DEF WritesAcls, K
<1> QED BY <1>1, <1>2, <1>9 DEF Keeps

LEMMA AclOfRun ==
    ASSUME TypeOK, NEW c \in Calls, WritesAcls(c), Keeps(c), RunStep(c)
    PROVE  WritesAcls(c)' /\ Keeps(c)'
<1>1. PICK s \in kept[c] :
         /\ Accepts(c, s) /\ Do(s)
         /\ kept'[c] = kept[c] \ {s}
         /\ stamped'[c] = (stamped[c] /\ ~IsAcl(s))
         /\ wrote'[c] = (IF IsAcl(s) /\ wrote[c] = "no" THEN "yes" ELSE wrote[c])
  BY RunIs
<1>2. view' = view /\ expected' = expected
  BY RunIs
<1>3. CASE ~IsAcl(s)
  <2>1. /\ Todo(c)' = Todo(c) /\ acls' = acls /\ stamped'[c] = stamped[c]
        /\ wrote'[c] = wrote[c]
    <3>1. stamped[c] \in BOOLEAN
      BY DEF TypeOK
    <3>2. {t \in kept'[c] : IsAcl(t)} = {t \in kept[c] : IsAcl(t)}
      BY <1>1, <1>3
    <3>3. Todo(c)' = Todo(c)
      BY <3>2 DEF Todo
    <3>4. acls' = acls
      BY <1>1, <1>3, AclEffect
    <3> QED BY <1>1, <1>3, <3>1, <3>3, <3>4
  <2> QED BY <1>1, <1>2, <2>1 DEF WritesAcls, Keeps
<1>4. CASE IsAcl(s)
  <2>1. Todo(c)' = Todo(c) \ {s.on} /\ s.on \in Todo(c)
    BY <1>1, <1>4 DEF Todo, WritesAcls
  <2>2. wrote'[c] # "no"
    BY <1>1, <1>4
  <2>3. WritesAcls(c)'
    BY <1>1, <1>2, <2>2 DEF WritesAcls
  <2>4. ASSUME wrote'[c] = "yes" PROVE acls' \ Todo(c)' = expected'[c] \ Todo(c)'
    <3>1. acls \ Todo(c) = expected[c] \ Todo(c)
      <4>1. CASE wrote[c] = "no"
        <5>1. stamped[c] /\ view[c].acls \ Todo(c) = expected[c] \ Todo(c)
          BY <1>1, <1>4, <4>1 DEF WritesAcls
        <5>2. acls = view[c].acls
          BY <1>1, <1>4, <5>1, AcceptedOnly
        <5> QED BY <5>1, <5>2
      <4>2. CASE wrote[c] # "no"
        BY <1>1, <2>4, <4>2 DEF Keeps
      <4> QED BY <4>1, <4>2
    <3>2. (s.on \in acls') = (s.on \in expected[c]) /\ acls' \ {s.on} = acls \ {s.on}
      BY <1>1, <1>4, AclEffect DEF WritesAcls, IsAcl
    <3> QED BY <1>2, <2>1, <3>1, <3>2
  <2> QED BY <2>3, <2>4 DEF Keeps
<1> QED BY <1>3, <1>4

LEMMA AclStep ==
    ASSUME TypeOK, PlaceInv, AclInv, AclsAsPlanned, Next
    PROVE  AclInv' /\ AclsAsPlanned'
<1>0. \A c \in Calls : Placed(c) /\ WritesAcls(c) /\ Keeps(c)
  BY KeepsIsAsPlanned DEF PlaceInv, AclInv
<1>1. ASSUME NEW c \in Calls, kept'[c] = {}, wrote'[c] = "no" PROVE WritesAcls(c)' /\ Keeps(c)'
  BY <1>1 DEF WritesAcls, Keeps
<1>2. ASSUME NEW d \in Calls,
             kept'[d] = kept[d], view'[d] = view[d], expected'[d] = expected[d],
             stamped'[d] = stamped[d], wrote[d] = "no" <=> wrote'[d] = "no",
             wrote'[d] = "yes" => wrote[d] = "yes" /\ acls' = acls
      PROVE  WritesAcls(d)' /\ Keeps(d)'
  <2>1. WritesAcls(d) /\ Keeps(d) /\ Todo(d)' = Todo(d)
    BY <1>0, <1>2 DEF Todo
  <2> QED BY <1>2, <2>1 DEF WritesAcls, Keeps
<1>3. ASSUME NEW c \in Calls, Moves(c), NEW d \in Calls \ {c} PROVE WritesAcls(d)' /\ Keeps(d)'
  BY <1>2, <1>3, OthersStay
<1>4. ASSUME NEW c \in Calls, Moves(c) PROVE WritesAcls(c)' /\ Keeps(c)'
  <2>1. ASSUME NEW w \in {"enroll", "revoke"}, Execute(c, w) PROVE kept'[c] = {} /\ wrote'[c] = "no"
    <3>1. pc[c] = "idle" /\ UNCHANGED <<kept, wrote>>
      BY <2>1 DEF Execute
    <3> QED BY <1>0, <3>1 DEF Placed
  <2>2. CASE ReadAcls(c) \/ ReadUsers(c) \/ Probe(c)
    <3>1. pc[c] \in {"acls", "users", "secret"} /\ UNCHANGED <<kept, wrote>>
      BY <2>2 DEF ReadAcls, ReadUsers, Probe, ghosts
    <3>2. kept'[c] = {} /\ wrote'[c] = "no"
      BY <1>0, <3>1 DEF Placed
    <3> QED BY <1>1, <3>2
  <2>3. CASE Store(c)
    <3>1. UNCHANGED <<kept, view, expected, stamped, wrote, acls>>
      BY <2>3 DEF Store, server, ghosts
    <3> QED BY <1>2, <3>1
  <2>4. CASE Refuse(c) \/ StepRefused(c) \/ AnswerLost(c) \/ Fail(c) \/ Finish(c)
    <3>1. Quit(c) \/ Finish(c)
      BY <2>4 DEF Refuse, StepRefused, AnswerLost, Fail
    <3>2. kept'[c] = {} /\ wrote'[c] = "no"
      BY <3>1, Returned
    <3> QED BY <1>1, <3>2
  <2> QED BY <1>0, <1>1, <1>4, <2>1, <2>2, <2>3, <2>4, AclOfConfirm, AclOfRun DEF Moves
<1>5. ASSUME Edit, NEW d \in Calls PROVE WritesAcls(d)' /\ Keeps(d)'
  <2>1. /\ UNCHANGED <<kept, view, expected, stamped>>
        /\ wrote'[d] = (IF wrote[d] = "yes" /\ acls' # acls THEN "spoilt" ELSE wrote[d])
    BY <1>5 DEF Edit, call
  <2>2. /\ wrote[d] = "no" <=> wrote'[d] = "no"
        /\ wrote'[d] = "yes" => wrote[d] = "yes" /\ acls' = acls
    BY <2>1
  <2>3. /\ kept'[d] = kept[d] /\ view'[d] = view[d] /\ expected'[d] = expected[d]
        /\ stamped'[d] = stamped[d]
    BY <2>1
  <2> QED BY <1>2, <2>2, <2>3
<1>6. \A d \in Calls : WritesAcls(d)' /\ Keeps(d)'
  BY <1>3, <1>4, <1>5, NextIs
<1> QED BY <1>6 DEF AclInv, AclsAsPlanned, Keeps, Todo

-----------------------------------------------------------------------------
(* A call that nothing disturbs *)

\* While it runs no other call moves.
LEMMA CalmAlone ==
    ASSUME TypeOK, PlaceInv, CalmInv, NEW c \in Calls, Moves(c), NEW d \in Calls \ {c}
    PROVE  ~calm'[d]
<1> SUFFICES ASSUME calm'[d] PROVE FALSE
  OBVIOUS
<1>1. pc[c] = "idle"
  <2>1. calm[d]
    BY OthersStay
  <2> QED BY <2>1 DEF CalmInv, SeesAll
<1>2. kept[c] = {}
  BY <1>1 DEF PlaceInv, Placed
<1>3. PICK w \in {"enroll", "revoke"} : Execute(c, w)
  <2>1. ~(ReadAcls(c) \/ ReadUsers(c) \/ Probe(c) \/ Refuse(c) \/ Confirm(c))
    BY <1>1 DEF ReadAcls, ReadUsers, Probe, Refuse, Confirm
  <2>2. ~(RunStep(c) \/ Store(c) \/ StepRefused(c) \/ AnswerLost(c) \/ Fail(c) \/ Finish(c))
    BY <1>1 DEF RunStep, Store, StepRefused, AnswerLost, Fail, Finish
  <2> QED BY <2>1, <2>2 DEF Moves
<1> QED BY <1>3 DEF Execute

LEMMA CalmStep ==
    ASSUME TypeOK, PlaceInv, CalmInv, Next
    PROVE  CalmInv'
<1>1. ASSUME NEW c \in Calls, Moves(c), NEW d \in Calls \ {c} PROVE SeesAll(d)'
  BY <1>1, CalmAlone DEF SeesAll
<1>2. ASSUME NEW c \in Calls, Moves(c), calm'[c] PROVE SeesAll(c)'
  <2>0. CallTypes /\ view[c] \in Views
    BY TypeParts DEF CallTypes
  <2> USE <2>0
  <2>1. ASSUME NEW w \in {"enroll", "revoke"}, Execute(c, w) PROVE SeesAll(c)'
    <3>1. AllIdle /\ pc'[c] = "acls" /\ verb'[c] = w /\ stored' = stored
          /\ view' = [view EXCEPT ![c].held = IF w = "enroll" THEN stored ELSE NoKey]
      BY <1>2, <2>1 DEF Execute, CallTypes
    <3>2. w = "enroll" => view'[c].held = stored'
      BY <3>1 DEF CallTypes, Views
    <3>3. \A d \in Calls \ {c} : pc'[d] = "idle"
      BY <1>2, <3>1, OthersStay DEF AllIdle
    <3> QED BY <3>1, <3>2, <3>3 DEF SeesAll
  <2>2. ASSUME calm[c] PROVE \A d \in Calls \ {c} : pc'[d] = "idle"
    BY <1>2, <2>2, OthersStay DEF CalmInv, SeesAll
  <2>3. CASE ReadAcls(c)
    <3>1. /\ pc[c] = "acls" /\ pc'[c] = "users" /\ view' = [view EXCEPT ![c].acls = acls]
          /\ UNCHANGED <<server, stored, verb, calm>>
      BY <2>3 DEF ReadAcls, ghosts, CallTypes
    <3>2. view'[c].acls = acls /\ view'[c].held = view[c].held
      BY <3>1 DEF CallTypes, Views
    <3>3. acls' = acls /\ calm[c]
      BY <1>2, <3>1 DEF server
    <3>4. verb[c] = "enroll" => view[c].held = stored
      BY <3>1, <3>3 DEF CalmInv, SeesAll
    <3> QED BY <2>2, <3>1, <3>2, <3>3, <3>4 DEF SeesAll
  <2>4. CASE ReadUsers(c)
    <3>1. /\ pc[c] = "users" /\ pc'[c] = (IF verb[c] = "enroll" THEN "secret" ELSE "plan")
          /\ view' = [view EXCEPT ![c].user = user,
                                  ![c].token = [there |-> token.there, active |-> token.active]]
          /\ UNCHANGED <<server, stored, verb, calm>>
      BY <2>4 DEF ReadUsers, ghosts, CallTypes
    <3>2. /\ view'[c].acls = view[c].acls /\ view'[c].held = view[c].held
          /\ view'[c].user = user
          /\ view'[c].token = [there |-> token.there, active |-> token.active]
      BY <3>1 DEF CallTypes, Views
    <3>3. acls' = acls /\ user' = user /\ token' = token /\ calm[c]
      BY <1>2, <3>1 DEF server
    <3>4. view[c].acls = acls /\ (verb[c] = "enroll" => view[c].held = stored)
      BY <3>1, <3>3 DEF CalmInv, SeesAll
    <3> QED BY <2>2, <3>1, <3>2, <3>3, <3>4 DEF SeesAll
  <2>5. CASE Probe(c)
    <3>1. PICK answered \in BOOLEAN :
             view' = [view EXCEPT ![c].secret = SecretState(view[c], answered), ![c].held = NoKey]
      BY <2>5 DEF Probe
    <3>2. pc[c] = "secret" /\ pc'[c] = "plan" /\ UNCHANGED <<server, stored, verb, calm>>
      BY <2>5 DEF Probe, ghosts, CallTypes
    <3>3. /\ view'[c].acls = view[c].acls /\ view'[c].user = view[c].user
          /\ view'[c].token = view[c].token
          /\ view'[c].secret = SecretState(view[c], answered)
      BY <3>1 DEF CallTypes, Views
    <3>4. acls' = acls /\ user' = user /\ token' = token /\ stored' = stored /\ calm[c]
      BY <1>2, <3>2 DEF server
    <3>5. verb[c] = "enroll"
      BY <3>2 DEF PlaceInv, Placed
    <3>6. /\ view[c].acls = acls /\ view[c].user = user /\ view[c].held = stored
          /\ view[c].token = [there |-> token.there, active |-> token.active]
      BY <3>2, <3>4, <3>5 DEF CalmInv, SeesAll
    <3>7. SecretState(view[c], answered) = SecretState([view[c] EXCEPT !.held = stored], answered)'
      <4>1. /\ [view'[c] EXCEPT !.held = stored'].held = stored
            /\ [view'[c] EXCEPT !.held = stored'].user = view[c].user
            /\ [view'[c] EXCEPT !.held = stored'].token = view[c].token
        BY <3>1, <3>3, <3>4 DEF CallTypes, Views
      <4> QED BY <3>4, <3>6, <4>1 DEF SecretState
    <3> QED BY <2>2, <3>2, <3>3, <3>4, <3>6, <3>7 DEF SeesAll
  <2>6. CASE Confirm(c) \/ RunStep(c) \/ Store(c)
    <3>1. calm' = calm /\ pc'[c] \in {"run", "store"}
      <4>1. Confirm(c) \/ RunStep(c) => calm' = calm /\ pc'[c] \in {"run", "store"}
        BY ConfirmIs, RunIs
      <4>2. Store(c) => calm' = calm /\ pc'[c] \in {"run", "store"}
        BY DEF Store, ghosts, CallTypes
      <4> QED BY <2>6, <4>1, <4>2
    <3> QED BY <1>2, <2>2, <3>1 DEF SeesAll
  <2>7. CASE Refuse(c) \/ StepRefused(c) \/ AnswerLost(c) \/ Fail(c) \/ Finish(c)
    <3>1. Quit(c) \/ Finish(c)
      BY <2>7 DEF Refuse, StepRefused, AnswerLost, Fail
    <3> QED BY <1>2, <3>1, Returned
  <2> QED BY <1>2, <2>1, <2>3, <2>4, <2>5, <2>6, <2>7 DEF Moves
<1>3. ASSUME Edit, NEW d \in Calls PROVE SeesAll(d)'
  BY <1>3 DEF Edit, SeesAll
<1>4. ASSUME NEW c \in Calls, Moves(c) PROVE SeesAll(c)'
  BY <1>2, <1>4 DEF SeesAll
<1> QED BY <1>1, <1>3, <1>4, NextIs DEF CalmInv

-----------------------------------------------------------------------------
(* Secrets *)

\* What the secret that a calm call planned from says of the one orca holds.
LEMMA SecretMeans ==
    ASSUME TypeOK, CalmInv, NEW c \in Calls, calm[c], pc[c] = "plan", verb[c] = "enroll"
    PROVE  /\ view[c].secret = "missing" => stored = NoKey
           /\ view[c].secret = "rejected" /\ token.there /\ token.active /\ user.active =>
                 stored # token.key
           /\ view[c].secret = "valid" => stored = token.key
           /\ stored = token.key /\ token.there /\ token.active /\ user.active =>
                 view[c].secret \in {"valid", "unknown"}
           /\ view[c].secret = "inactive" =>
                 (user.there /\ ~user.active) \/ (token.there /\ ~token.active)
<1>1. PICK answered \in BOOLEAN :
         view[c].secret = SecretState([view[c] EXCEPT !.held = stored], answered)
  BY DEF CalmInv, SeesAll
<1>2. view[c].user = user /\ view[c].token = [there |-> token.there, active |-> token.active]
  BY DEF CalmInv, SeesAll
<1>3. view[c] \in Views /\ (token.there => token.key # NoKey)
  BY DEF TypeOK
<1> DEFINE v == [view[c] EXCEPT !.held = stored]
<1>4. v.held = stored /\ v.user = user /\ v.token.there = token.there /\ v.token.active = token.active
  BY <1>2, <1>3 DEF Views
<1>5. view[c].secret = SecretState(v, answered)
  BY <1>1
<1> HIDE DEF v
<1> QED BY <1>3, <1>4, <1>5 DEF SecretState

LEMMA UselessStep ==
    ASSUME TypeOK, PlaceInv, CalmInv, UselessInv, Next
    PROVE  UselessInv'
<1>0. \A c \in Calls : Placed(c) /\ SeesAll(c) /\ Useless(c)
  BY DEF PlaceInv, CalmInv, UselessInv
<1>1. ASSUME NEW c \in Calls, Moves(c), NEW d \in Calls \ {c} PROVE Useless(d)'
  BY <1>1, CalmAlone DEF Useless
<1>2. ASSUME NEW c \in Calls, Moves(c), calm'[c] PROVE Useless(c)'
  <2>0. CallTypes /\ kept[c] \subseteq Steps
    BY TypeParts DEF CallTypes
  <2>1. ASSUME kept'[c] = {}, pc'[c] \notin {"run", "store"} PROVE Useless(c)'
    BY <2>1 DEF Useless
  <2>2. ASSUME NEW w \in {"enroll", "revoke"}, Execute(c, w) PROVE Useless(c)'
    <3>1. pc[c] = "idle" /\ pc'[c] = "acls" /\ kept' = kept
      BY <2>0, <2>2 DEF Execute, CallTypes
    <3>2. kept'[c] = {}
      BY <1>0, <3>1 DEF Placed
    <3> QED BY <2>1, <3>1, <3>2
  <2>3. CASE ReadAcls(c) \/ ReadUsers(c) \/ Probe(c)
    <3>1. /\ pc[c] \in {"acls", "users", "secret"} /\ pc'[c] \in {"users", "secret", "plan"}
          /\ kept' = kept
      BY <2>0, <2>3 DEF ReadAcls, ReadUsers, Probe, CallTypes
    <3>2. kept'[c] = {}
      BY <1>0, <3>1 DEF Placed
    <3> QED BY <2>1, <3>1, <3>2
  <2>4. CASE Confirm(c)
    <3>1. /\ pc[c] = "plan" /\ calm[c] /\ token' = token /\ stored' = stored
          /\ kept'[c] \subseteq StepsOf(verb[c], view[c])
          /\ gone'[c] = (verb[c] = "revoke" /\ TokenGone(view[c], kept'[c]))
      BY <1>2, <2>4, ConfirmIs DEF server
    <3>2. view[c] \in Views /\ user \in Users /\ token \in Tokens /\ (token.there => token.key # NoKey)
      BY DEF TypeOK
    <3>3. view[c].user = user /\ view[c].token = [there |-> token.there, active |-> token.active]
      BY <1>0, <3>1 DEF SeesAll
    <3>4. ASSUME NEW s \in kept'[c], s.act = "regenerate-token" PROVE stored # token.key
      <4>1. s \in StepsOf(verb[c], view[c])
        BY <3>1
      <4>2. verb[c] = "enroll"
        BY <3>2, <3>4, <4>1, KeptOfRevoke DEF StepsOf, Mints
      <4>3. s \in EnrollSteps(view[c])
        BY <4>1, <4>2 DEF StepsOf
      <4>4. view[c].user.there /\ view[c].token.there /\ Rotates(view[c])
        BY <3>2, <3>4, <4>3, EnrollStepsAre DEF Plain, Step
      <4> QED BY <3>1, <3>2, <3>3, <4>2, <4>4, SecretMeans DEF Rotates
    <3>5. ASSUME gone'[c], token.there PROVE \E s \in kept'[c] : s.act = "delete-token"
      <4>1. TokenGone(view[c], kept'[c])
        BY <3>1, <3>5
      <4>2. view[c].token.there
        BY <3>3, <3>5
      <4> QED BY <4>1, <4>2 DEF TokenGone
    <3>6. /\ \A s \in kept'[c] : s.act = "regenerate-token" => stored' # token'.key
          /\ gone'[c] /\ token'.there => \E s \in kept'[c] : s.act = "delete-token"
      BY <3>1, <3>4, <3>5
    <3> QED BY <3>6 DEF Useless
  <2>5. CASE RunStep(c)
    <3>1. PICK s \in kept[c] : Accepts(c, s) /\ Do(s) /\ kept'[c] = kept[c] \ {s}
      BY <2>5, RunIs
    <3>2. pc[c] = "run" /\ verb' = verb /\ gone' = gone /\ stored' = stored /\ calm[c]
      BY <1>2, <2>5, RunIs
    <3>3. verb[c] \in {"enroll", "revoke"}
      BY <1>0, <2>0, <3>2 DEF CallTypes, Placed, Verbs
    <3>4. ASSUME NEW t \in kept'[c], t.act = "regenerate-token" PROVE stored' # token'.key
      <4>1. t \in kept[c] /\ t # s /\ Mints(t)
        BY <3>1, <3>4 DEF Mints
      <4>2. ~Mints(s)
        BY <1>0, <4>1 DEF Placed
      <4>3. verb[c] = "enroll"
        BY <1>0, <3>3, <3>4, <4>1 DEF Placed
      <4>4. s.act \notin {"delete-token", "delete-user", "create-token", "regenerate-token"}
        BY <1>0, <4>2, <4>3 DEF Placed, Mints
      <4>5. token'.key = token.key
        <5>1. token' = token \/ token' = [token EXCEPT !.active = TRUE]
          BY <3>1, <4>4, TokenEffect
        <5>2. token \in Tokens
          BY DEF TypeOK
        <5>3. [token EXCEPT !.active = TRUE].key = token.key
          BY <5>2 DEF Tokens
        <5> QED BY <5>1, <5>3
      <4>6. stored # token.key
        BY <1>0, <3>2, <3>4, <4>1 DEF Useless
      <4> QED BY <3>2, <4>5, <4>6
    <3>5. ASSUME gone[c], token'.there PROVE \E t \in kept'[c] : t.act = "delete-token"
      <4>1. verb[c] = "revoke"
        BY <1>0, <3>5 DEF Placed
      <4>2. s.act \in {"revoke", "delete-token", "delete-user"}
        BY <1>0, <4>1 DEF Placed
      <4>3. s.act \notin {"delete-token", "delete-user"}
        <5>1. ~NoToken.there
          BY DEF NoToken
        <5>2. s.act \in {"delete-token", "delete-user"} => token' = NoToken
          BY <3>1, TokenEffect
        <5> QED BY <3>5, <5>1, <5>2
      <4>4. token' = token
        BY <3>1, <4>2, <4>3, TokenEffect
      <4>5. PICK t \in kept[c] : t.act = "delete-token"
        BY <1>0, <3>2, <3>5, <4>4 DEF Useless
      <4> QED BY <3>1, <4>3, <4>5
    <3> QED BY <3>2, <3>4, <3>5 DEF Useless
  <2>6. CASE Store(c)
    <3>1. pc[c] = "store" /\ kept' = kept /\ gone' = gone
      BY <2>6 DEF Store
    <3>2. \A s \in kept[c] : ~Mints(s)
      BY <1>0, <3>1 DEF Placed
    <3>3. ~gone[c]
      BY <1>0, <3>1 DEF Placed
    <3> QED BY <3>1, <3>2, <3>3 DEF Useless, Mints
  <2>7. CASE Refuse(c) \/ StepRefused(c) \/ AnswerLost(c) \/ Fail(c) \/ Finish(c)
    <3>1. Quit(c) \/ Finish(c)
      BY <2>7 DEF Refuse, StepRefused, AnswerLost, Fail
    <3> QED BY <1>2, <3>1, Returned
  <2> QED BY <1>2, <2>2, <2>3, <2>4, <2>5, <2>6, <2>7 DEF Moves
<1>3. ASSUME Edit, NEW d \in Calls PROVE Useless(d)'
  BY <1>3 DEF Edit, Useless
<1>4. ASSUME NEW c \in Calls, Moves(c) PROVE Useless(c)'
  BY <1>2, <1>4 DEF Useless
<1> QED BY <1>1, <1>3, <1>4, NextIs DEF UselessInv

-----------------------------------------------------------------------------
(* What a call that nothing disturbs has still to do *)

LEMMA RunsOn ==
    ASSUME TypeOK, NEW c \in Calls, Moves(c), pc'[c] \in {"run", "store"}
    PROVE  Confirm(c) \/ RunStep(c) \/ Store(c)
<1>0. CallTypes
  BY TypeParts
<1>1. ASSUME NEW w \in {"enroll", "revoke"}, Execute(c, w) PROVE FALSE
  BY <1>0, <1>1 DEF Execute, CallTypes
<1>2. ReadAcls(c) \/ ReadUsers(c) \/ Probe(c) => FALSE
  BY <1>0 DEF ReadAcls, ReadUsers, Probe, CallTypes
<1>3. Refuse(c) \/ StepRefused(c) \/ AnswerLost(c) \/ Fail(c) \/ Finish(c) => FALSE
  <2>1. Quit(c) \/ Finish(c) => FALSE
    BY Returned
  <2> QED BY <2>1 DEF Refuse, StepRefused, AnswerLost, Fail
<1> QED BY <1>1, <1>2, <1>3 DEF Moves

LEMMA StoreIs ==
    ASSUME TypeOK, NEW c \in Calls, Store(c)
    PROVE  /\ pc[c] = "store" /\ pc'[c] = "run" /\ stored' = got[c]
           /\ space' = space /\ user' = user /\ token' = token /\ acls' = acls
           /\ verb' = verb /\ kept' = kept /\ gone' = gone /\ calm' = calm /\ full' = full
           /\ settled' = settled
BY DEF Store, TypeOK, server, ghosts

LEMMA UserGoesOn ==
    ASSUME TypeOK, NEW K, NEW s \in K, s \in Steps, s.act # "delete-user", Do(s), UserWillDo(K)
    PROVE  UserWillDo(K \ {s})'
<1>1. user \in Users /\ s.mark \in BOOLEAN /\ s.enable \in BOOLEAN
  BY StepTypes DEF TypeOK
<1>2. CASE s.act = "create-user"
  <2>1. user' = [there |-> TRUE, marked |-> TRUE, active |-> TRUE]
    BY <1>2, UserEffect
  <2> QED BY <2>1 DEF UserWillDo
<1>3. CASE s.act = "update-user"
  <2>1. user' = [user EXCEPT !.marked = @ \/ s.mark, !.active = @ \/ s.enable]
    BY <1>3, UserEffect
  <2>2. /\ user'.there = user.there /\ user'.marked = (user.marked \/ s.mark)
        /\ user'.active = (user.active \/ s.enable)
    BY <1>1, <2>1 DEF Users
  <2>3. Plain("create-user") # s
    BY <1>3 DEF Plain, Step
  <2> QED BY <2>2, <2>3 DEF UserWillDo
<1>4. CASE s.act \notin {"create-user", "update-user"}
  <2>1. user' = user
    BY <1>4, UserEffect
  <2>2. Plain("create-user") # s
    BY <1>4 DEF Plain, Step
  <2> QED BY <1>4, <2>1, <2>2 DEF UserWillDo
<1> QED BY <1>2, <1>3, <1>4

LEMMA TokenGoesOn ==
    ASSUME TypeOK, NEW K, NEW s \in K, s \in Steps, s.act \notin {"delete-token", "delete-user"},
           Do(s), TokenWillDo(K)
    PROVE  TokenWillDo(K \ {s})'
<1>1. token \in Tokens /\ s.enable \in BOOLEAN
  BY StepTypes DEF TypeOK
<1>2. CASE s.act = "create-token"
  <2>1. token' = [there |-> TRUE, active |-> TRUE, key |-> FreshKey]
    BY <1>2, TokenEffect
  <2> QED BY <2>1 DEF TokenWillDo
<1>3. CASE s.act = "regenerate-token"
  <2>1. token' = [token EXCEPT !.active = @ \/ s.enable, !.key = FreshKey]
    BY <1>3, TokenEffect
  <2>2. token'.there = token.there /\ token'.active = (token.active \/ s.enable)
    BY <1>1, <2>1 DEF Tokens
  <2>3. Plain("create-token") # s
    BY <1>3 DEF Plain, Step
  <2> QED BY <2>2, <2>3 DEF TokenWillDo
<1>4. CASE s.act = "enable-token"
  <2>1. token' = [token EXCEPT !.active = TRUE]
    BY <1>4, TokenEffect
  <2>2. token'.there = token.there /\ token'.active
    BY <1>1, <2>1 DEF Tokens
  <2>3. Plain("create-token") # s
    BY <1>4 DEF Plain, Step
  <2> QED BY <2>2, <2>3 DEF TokenWillDo
<1>5. CASE s.act \notin {"create-token", "regenerate-token", "enable-token"}
  <2>1. token' = token
    BY <1>5, TokenEffect
  <2>2. Plain("create-token") # s
    BY <1>5 DEF Plain, Step
  <2> QED BY <1>5, <2>1, <2>2 DEF TokenWillDo
<1> QED BY <1>2, <1>3, <1>4, <1>5

LEMMA AclsGoOn ==
    ASSUME NEW K, NEW s \in K, s \in Steps, Do(s), AclsWillDo(K),
           s.act \in {"grant", "revoke"} => s = Step(s.act, s.on, FALSE, FALSE)
    PROVE  AclsWillDo(K \ {s})'
<1>1. Wanted \cap OutOfScope = {}
  BY EnrollAssumption
<1>2. CASE s.act = "grant"
  <2>1. acls' = acls \cup {s.on} /\ s.on \in Wanted
    BY <1>2, AclEffect DEF AclsWillDo
  <2>2. \A g : Step("revoke", g, FALSE, FALSE) # s
    BY <1>2 DEF Step
  <2>3. \A g : g # s.on => Step("grant", g, FALSE, FALSE) # s
    BY DEF Step
  <2> QED BY <1>1, <2>1, <2>2, <2>3 DEF AclsWillDo
<1>3. CASE s.act = "revoke"
  <2>1. acls' = acls \ {s.on} /\ s.on \in OutOfScope
    BY <1>3, AclEffect DEF AclsWillDo
  <2>2. \A g : Step("grant", g, FALSE, FALSE) # s
    BY <1>3 DEF Step
  <2>3. \A g : g # s.on => Step("revoke", g, FALSE, FALSE) # s
    BY DEF Step
  <2> QED BY <1>1, <2>1, <2>2, <2>3 DEF AclsWillDo
<1>4. CASE s.act \notin {"grant", "revoke"}
  <2>1. acls' = acls
    BY <1>4, AclEffect DEF IsAcl
  <2>2. \A g : Step("grant", g, FALSE, FALSE) # s /\ Step("revoke", g, FALSE, FALSE) # s
    BY <1>4 DEF Step
  <2> QED BY <2>1, <2>2 DEF AclsWillDo
<1> QED BY <1>2, <1>3, <1>4

\* The steps of a full plan put right all that is wrong.
LEMMA PlanIsEnough ==
    ASSUME TypeOK, NEW v \in Views, v.user = user, v.acls = acls,
           v.token = [there |-> token.there, active |-> token.active]
    PROVE  LET K == EnrollSteps(v)
           IN  /\ space \/ Plain("create-namespace") \in K
               /\ UserWillDo(K) /\ TokenWillDo(K) /\ AclsWillDo(K)
<1> DEFINE K == EnrollSteps(v)
<1>1. user \in Users /\ token \in Tokens /\ (token.there => user.there)
  BY DEF TypeOK
<1>2. space \/ Plain("create-namespace") \in K
  BY DEF EnrollSteps, NamespaceSteps
<1>3. UserWillDo(K)
  <2>1. CASE ~user.there
    BY <2>1 DEF EnrollSteps, UserSteps, UserWillDo
  <2>2. CASE user.there /\ user.marked /\ user.active
    BY <2>2 DEF UserWillDo
  <2>3. CASE user.there /\ ~(user.marked /\ user.active)
    <3> DEFINE s == Step("update-user", None, ~user.marked, ~user.active)
    <3>1. s \in K
      BY <2>3 DEF EnrollSteps, UserSteps
    <3>2. s.act = "update-user" /\ s.mark = ~user.marked /\ s.enable = ~user.active
      BY DEF Step
    <3> HIDE DEF s, K
    <3>3. user.marked \in BOOLEAN /\ user.active \in BOOLEAN
      BY <1>1 DEF Users
    <3> QED BY <2>3, <3>1, <3>2, <3>3 DEF UserWillDo
  <2> QED BY <2>1, <2>2, <2>3
<1>4. TokenWillDo(K)
  <2>0. v.token.there = token.there /\ v.token.active = token.active
    OBVIOUS
  <2>1. CASE ~token.there
    BY <2>0, <2>1 DEF EnrollSteps, TokenSteps, TokenWillDo
  <2>2. CASE token.there /\ token.active
    BY <2>2 DEF TokenWillDo
  <2>3. CASE token.there /\ ~token.active
    <3>1. PICK s \in K : s.act \in {"regenerate-token", "enable-token"} /\ s.enable
      <4>1. CASE Rotates(v)
        <5>1. Step("regenerate-token", None, FALSE, ~v.token.active) \in K
          BY <1>1, <2>0, <2>3, <4>1 DEF EnrollSteps, TokenSteps
        <5>2. ~v.token.active
          BY <2>0, <2>3
        <5> QED BY <5>1, <5>2 DEF Step
      <4>2. CASE ~Rotates(v)
        <5>1. Step("enable-token", None, FALSE, TRUE) \in K
          BY <1>1, <2>0, <2>3, <4>2 DEF EnrollSteps, TokenSteps
        <5> QED BY <5>1 DEF Step
      <4> QED BY <4>1, <4>2
    <3> HIDE DEF K
    <3> QED BY <2>3, <3>1 DEF TokenWillDo
  <2> QED BY <2>1, <2>2, <2>3
<1>5. AclsWillDo(K)
  <2>1. \A g \in Wanted : g \in acls \/ Step("grant", g, FALSE, FALSE) \in K
    BY DEF EnrollSteps, AclSteps
  <2>2. \A g \in OutOfScope \cap acls : Step("revoke", g, FALSE, FALSE) \in K
    BY DEF EnrollSteps, AclSteps, Revokes
  <2>3. ASSUME NEW s \in K
        PROVE  /\ s.act = "grant" => s.on \in Wanted
               /\ s.act = "revoke" => s.on \in OutOfScope
    BY EnrollStepsAre DEF Plain, Step
  <2> QED BY <2>1, <2>2, <2>3 DEF AclsWillDo
<1> QED BY <1>2, <1>3, <1>4, <1>5

LEMMA EnrollStep ==
    ASSUME TypeOK, PlaceInv, CalmInv, EnrollInv, Next
    PROVE  EnrollInv'
<1>0. \A c \in Calls : Placed(c) /\ SeesAll(c) /\ WillEnroll(c)
  BY DEF PlaceInv, CalmInv, EnrollInv
<1>1. ASSUME NEW c \in Calls, Moves(c), NEW d \in Calls \ {c} PROVE WillEnroll(d)'
  BY <1>1, CalmAlone DEF WillEnroll
<1>2. ASSUME NEW c \in Calls, Moves(c),
             calm'[c], full'[c], verb'[c] = "enroll", pc'[c] \in {"run", "store"}
      PROVE  (/\ space \/ Plain("create-namespace") \in kept[c]
              /\ UserWillDo(kept[c]) /\ TokenWillDo(kept[c]) /\ AclsWillDo(kept[c]))'
  <2>1. CASE Confirm(c)
    <3>1. /\ pc[c] = "plan" /\ calm[c] /\ verb[c] = "enroll"
          /\ space' = space /\ user' = user /\ token' = token /\ acls' = acls
          /\ kept'[c] = EnrollSteps(view[c])
      BY <1>2, <2>1, ConfirmIs DEF server, StepsOf
    <3>2. /\ view[c] \in Views /\ view[c].user = user /\ view[c].acls = acls
          /\ view[c].token = [there |-> token.there, active |-> token.active]
      BY <1>0, <3>1 DEF TypeOK, SeesAll
    <3> DEFINE K == EnrollSteps(view[c])
    <3>3. /\ space \/ Plain("create-namespace") \in K
          /\ UserWillDo(K) /\ TokenWillDo(K) /\ AclsWillDo(K)
      BY <3>2, PlanIsEnough
    <3>4. kept'[c] = K
      BY <3>1
    <3> HIDE DEF K
    <3> QED BY <3>1, <3>3, <3>4 DEF UserWillDo, TokenWillDo, AclsWillDo
  <2>2. CASE RunStep(c)
    <3>1. PICK s \in kept[c] : s \in Steps /\ Do(s) /\ kept'[c] = kept[c] \ {s}
      BY <2>2, RunIs
    <3>2. pc[c] = "run" /\ calm[c] /\ full[c] /\ verb[c] = "enroll"
      BY <1>2, <2>2, RunIs
    <3>3. /\ space \/ Plain("create-namespace") \in kept[c]
          /\ UserWillDo(kept[c]) /\ TokenWillDo(kept[c]) /\ AclsWillDo(kept[c])
      BY <1>0, <3>2 DEF WillEnroll
    <3>4. /\ s.act \notin {"delete-token", "delete-user"}
          /\ s.act \in {"grant", "revoke"} => s = Step(s.act, s.on, FALSE, FALSE)
      BY <1>0, <3>2 DEF Placed, IsAcl
    <3>5. space' \/ Plain("create-namespace") \in kept'[c]
      <4>1. space' = (space \/ s.act = "create-namespace")
        BY <3>1 DEF Do
      <4>2. s = Plain("create-namespace") => s.act = "create-namespace"
        BY DEF Plain, Step
      <4> QED BY <3>1, <3>3, <4>1, <4>2
    <3>6. UserWillDo(kept[c] \ {s})'
      BY <3>1, <3>3, <3>4, UserGoesOn
    <3>7. TokenWillDo(kept[c] \ {s})'
      BY <3>1, <3>3, <3>4, TokenGoesOn
    <3>8. AclsWillDo(kept[c] \ {s})'
      BY <3>1, <3>3, <3>4, AclsGoOn
    <3> QED BY <3>1, <3>5, <3>6, <3>7, <3>8
  <2>3. CASE Store(c)
    <3>1. /\ pc[c] = "store" /\ space' = space /\ user' = user /\ token' = token /\ acls' = acls
          /\ verb' = verb /\ kept' = kept /\ calm' = calm /\ full' = full
      BY <2>3, StoreIs
    <3>2. /\ space \/ Plain("create-namespace") \in kept[c]
          /\ UserWillDo(kept[c]) /\ TokenWillDo(kept[c]) /\ AclsWillDo(kept[c])
      BY <1>0, <1>2, <3>1 DEF WillEnroll
    <3> QED BY <3>1, <3>2 DEF UserWillDo, TokenWillDo, AclsWillDo
  <2> QED BY <1>2, <2>1, <2>2, <2>3, RunsOn
<1>3. ASSUME Edit, NEW d \in Calls PROVE WillEnroll(d)'
  BY <1>3 DEF Edit, WillEnroll
<1>4. ASSUME NEW c \in Calls, Moves(c) PROVE WillEnroll(c)'
  BY <1>2, <1>4 DEF WillEnroll
<1> QED BY <1>1, <1>3, <1>4, NextIs DEF EnrollInv

LEMMA RevokeStep ==
    ASSUME TypeOK, PlaceInv, CalmInv, RevokeInv, Next
    PROVE  RevokeInv'
<1>0. \A c \in Calls : Placed(c) /\ SeesAll(c) /\ WillRevoke(c)
  BY DEF PlaceInv, CalmInv, RevokeInv
<1>1. ASSUME NEW c \in Calls, Moves(c), NEW d \in Calls \ {c} PROVE WillRevoke(d)'
  BY <1>1, CalmAlone DEF WillRevoke
<1>2. ASSUME NEW c \in Calls, Moves(c),
             calm'[c], full'[c], verb'[c] = "revoke", pc'[c] \in {"run", "store"}
      PROVE  /\ \A g \in acls' \cap Owned : Step("revoke", g, FALSE, FALSE) \in kept'[c]
             /\ token'.there => Plain("delete-token") \in kept'[c]
             /\ user'.there => Plain("delete-user") \in kept'[c]
             /\ gone'[c]
  <2>1. CASE Confirm(c)
    <3>1. /\ pc[c] = "plan" /\ calm[c] /\ verb[c] = "revoke"
          /\ user' = user /\ token' = token /\ acls' = acls
          /\ kept'[c] = RevokeSteps(view[c])
          /\ gone'[c] = (verb[c] = "revoke" /\ TokenGone(view[c], kept'[c]))
      BY <1>2, <2>1, ConfirmIs DEF server, StepsOf
    <3>2. /\ view[c].user = user /\ view[c].acls = acls
          /\ view[c].token.there = token.there
      <4>1. /\ view[c].user = user /\ view[c].acls = acls
            /\ view[c].token = [there |-> token.there, active |-> token.active]
        BY <1>0, <3>1 DEF SeesAll
      <4> QED BY <4>1
    <3>3. \A g \in acls' \cap Owned : Step("revoke", g, FALSE, FALSE) \in kept'[c]
      BY <3>1, <3>2 DEF RevokeSteps, RevokeAcls, Revokes
    <3>4. /\ token'.there => Plain("delete-token") \in kept'[c]
          /\ user'.there => Plain("delete-user") \in kept'[c]
      BY <3>1, <3>2 DEF RevokeSteps
    <3>5. TokenGone(view[c], kept'[c])
      BY <3>1, <3>2, <3>4 DEF TokenGone, Plain, Step
    <3> QED BY <3>1, <3>3, <3>4, <3>5
  <2>2. CASE RunStep(c)
    <3>1. PICK s \in kept[c] : s \in Steps /\ Do(s) /\ kept'[c] = kept[c] \ {s}
      BY <2>2, RunIs
    <3>2. pc[c] = "run" /\ calm[c] /\ full[c] /\ verb[c] = "revoke" /\ gone' = gone
      BY <1>2, <2>2, RunIs
    <3>3. /\ \A g \in acls \cap Owned : Step("revoke", g, FALSE, FALSE) \in kept[c]
          /\ token.there => Plain("delete-token") \in kept[c]
          /\ user.there => Plain("delete-user") \in kept[c]
          /\ gone[c]
      BY <1>0, <3>2 DEF WillRevoke
    <3>4. ~NoToken.there /\ ~NoUser.there
      BY DEF NoToken, NoUser
    <3>5. CASE s.act = "revoke"
      <4>1. user' = user /\ token' = token /\ acls' = acls \ {s.on}
        BY <3>1, <3>5, UserEffect, TokenEffect, AclEffect
      <4>2. s = Step("revoke", s.on, FALSE, FALSE)
        BY <1>0, <3>5 DEF Placed, IsAcl
      <4>3. \A g : g # s.on => Step("revoke", g, FALSE, FALSE) # s
        BY DEF Step
      <4>4. Plain("delete-token") # s /\ Plain("delete-user") # s
        BY <3>5 DEF Plain, Step
      <4> QED BY <3>1, <3>2, <3>3, <4>1, <4>3, <4>4
    <3>6. CASE s.act \in {"delete-token", "delete-user"}
      <4>1. acls' = acls /\ token' = NoToken
        BY <3>1, <3>6, TokenEffect, AclEffect DEF IsAcl
      <4>2. s.act = "delete-user" => user' = NoUser
        BY <3>1, UserEffect
      <4>3. s.act = "delete-token" => user' = user
        BY <3>1, UserEffect
      <4>4. \A g : Step("revoke", g, FALSE, FALSE) # s
        BY <3>6 DEF Step
      <4>5. s.act = "delete-token" => Plain("delete-user") # s
        BY DEF Plain, Step
      <4> QED BY <3>1, <3>2, <3>3, <3>4, <3>6, <4>1, <4>2, <4>3, <4>4, <4>5
    <3> QED BY <1>0, <3>2, <3>5, <3>6 DEF Placed
  <2>3. CASE Store(c)
    <3>1. pc[c] = "store" /\ verb' = verb
      BY <2>3, StoreIs
    <3> QED BY <1>0, <1>2, <3>1 DEF Placed
  <2> QED BY <1>2, <2>1, <2>2, <2>3, RunsOn
<1>3. ASSUME Edit, NEW d \in Calls PROVE WillRevoke(d)'
  BY <1>3 DEF Edit, WillRevoke
<1>4. ASSUME NEW c \in Calls, Moves(c) PROVE WillRevoke(c)'
  BY <1>2, <1>4 DEF WillRevoke
<1> QED BY <1>1, <1>3, <1>4, NextIs DEF RevokeInv

-----------------------------------------------------------------------------
(* What one undisturbed call after another comes to *)

\* A call that is not over leaves the calls not all idle.
LEMMA IdleAfter ==
    ASSUME TypeOK, NEW c \in Calls, Moves(c), AllIdle'
    PROVE  settled' = "no" \/ Finish(c)
<1>0. CallTypes /\ pc'[c] = "idle"
  BY TypeParts DEF AllIdle
<1>1. ASSUME NEW w \in {"enroll", "revoke"}, Execute(c, w) PROVE FALSE
  BY <1>0, <1>1 DEF Execute, CallTypes
<1>2. ReadAcls(c) \/ ReadUsers(c) \/ Probe(c) => FALSE
  BY <1>0 DEF ReadAcls, ReadUsers, Probe, CallTypes
<1>3. Confirm(c) \/ RunStep(c) \/ Store(c) => FALSE
  BY <1>0, ConfirmIs, RunIs, StoreIs
<1>4. Refuse(c) \/ StepRefused(c) \/ AnswerLost(c) \/ Fail(c) => settled' = "no"
  BY DEF Refuse, StepRefused, AnswerLost, Fail, Quit, Return
<1> QED BY <1>1, <1>2, <1>3, <1>4 DEF Moves

LEMMA FinishIs ==
    ASSUME TypeOK, PlaceInv, NEW c \in Calls, Finish(c)
    PROVE  /\ pc[c] = "run" /\ kept[c] = {}
           /\ space' = space /\ user' = user /\ token' = token /\ acls' = acls
           /\ stored' = (IF gone[c] THEN NoKey ELSE stored)
           /\ settled' = Settles(c)
           /\ verb[c] \in {"enroll", "revoke"}
<1>1. pc[c] = "run" /\ verb[c] \in Verbs
  BY DEF Finish, TypeOK
<1> QED BY <1>1 DEF Finish, Return, server, PlaceInv, Placed, Verbs

\* An enrol that has run all it planned leaves everything ready.
LEMMA ReadyAtLast ==
    ASSUME space \/ Plain("create-namespace") \in {},
           UserWillDo({}), TokenWillDo({}), AclsWillDo({})
    PROVE  Ready
BY EnrollAssumption DEF UserWillDo, TokenWillDo, AclsWillDo, Ready

LEMMA ConvergesStep ==
    ASSUME TypeOK, PlaceInv, EnrollInv, RevokeInv, AgainInv, Next
    PROVE  Converges' /\ RevokeLeavesNothing'
<1>1. ASSUME NEW c \in Calls, Finish(c), settled' # "no" PROVE Converges' /\ RevokeLeavesNothing'
  <2>1. /\ pc[c] = "run" /\ kept[c] = {}
        /\ space' = space /\ user' = user /\ token' = token /\ acls' = acls
        /\ stored' = (IF gone[c] THEN NoKey ELSE stored)
        /\ settled' = Settles(c)
        /\ verb[c] \in {"enroll", "revoke"}
    BY <1>1, FinishIs
  <2>2. calm[c] /\ full[c]
    BY <1>1, <2>1 DEF Settles
  <2>3. CASE verb[c] = "enroll"
    <3>1. /\ space \/ Plain("create-namespace") \in {}
          /\ UserWillDo({}) /\ TokenWillDo({}) /\ AclsWillDo({})
      BY <2>1, <2>2, <2>3 DEF EnrollInv, WillEnroll
    <3>2. Ready
      BY <3>1, ReadyAtLast
    <3>3. Ready'
      BY <2>1, <3>2 DEF Ready
    <3>4. settled' # "revoked"
      BY <2>1, <2>2, <2>3 DEF Settles
    <3>5. stored' = stored
      BY <2>1, <2>3 DEF PlaceInv, Placed
    <3>6. ASSUME settled' = "twice" PROVE stored' = token'.key
      <4>1. settled \in {"once", "twice"}
        BY <2>1, <2>2, <2>3, <3>6 DEF Settles
      <4>2. stored = token.key
        BY <2>1, <2>2, <2>3, <4>1 DEF AgainInv
      <4> QED BY <2>1, <3>5, <4>2
    <3> QED BY <3>3, <3>4, <3>6 DEF Converges, Enrolled, RevokeLeavesNothing
  <2>4. CASE verb[c] = "revoke"
    <3>1. /\ \A g \in acls \cap Owned : Step("revoke", g, FALSE, FALSE) \in {}
          /\ ~token.there /\ ~user.there /\ gone[c]
      BY <2>1, <2>2, <2>4 DEF RevokeInv, WillRevoke
    <3>2. settled' = "revoked"
      BY <2>1, <2>2, <2>4 DEF Settles
    <3> QED BY <2>1, <3>1, <3>2 DEF Converges, RevokeLeavesNothing
  <2> QED BY <2>1, <2>3, <2>4
<1>2. CASE settled' = "no"
  BY <1>2 DEF Converges, RevokeLeavesNothing
<1>3. CASE ~AllIdle'
  BY <1>3 DEF Converges, RevokeLeavesNothing
<1>4. ASSUME NEW c \in Calls, Moves(c) PROVE Converges' /\ RevokeLeavesNothing'
  BY <1>1, <1>2, <1>3, <1>4, IdleAfter
<1>5. CASE Edit
  BY <1>2, <1>5 DEF Edit
<1> QED BY <1>4, <1>5, NextIs

\* An enrol that finds everything ready plans no step but a new secret.
LEMMA ReadyPlansLittle ==
    ASSUME TypeOK, CalmInv, NEW c \in Calls, calm[c], pc[c] = "plan", verb[c] = "enroll", Ready
    PROVE  /\ EnrollSteps(view[c]) \subseteq {Step("regenerate-token", None, FALSE, FALSE)}
           /\ stored = token.key => EnrollSteps(view[c]) = {}
           /\ EnrollSteps(view[c]) = {} /\ view[c].secret # "unknown" => stored = token.key
<1> DEFINE v == view[c]
<1>1. /\ v.user = user /\ v.acls = acls /\ v \in Views
      /\ v.token = [there |-> token.there, active |-> token.active]
  BY DEF CalmInv, SeesAll, TypeOK
<1>2. v.token.there /\ v.token.active /\ v.user.there /\ v.user.marked /\ v.user.active
      /\ token.key # NoKey
  <2>1. token.key # NoKey
    BY DEF Ready, TypeOK
  <2>2. v.token.there /\ v.token.active /\ v.user.there /\ v.user.marked /\ v.user.active
    BY <1>1 DEF Ready
  <2> QED BY <2>1, <2>2
<1>3. NamespaceSteps = {} /\ UserSteps(v) = {}
  BY <1>2 DEF NamespaceSteps, UserSteps, Ready
<1>4. AclSteps(v) = {}
  <2>1. Wanted \ acls = {} /\ acls \cap OutOfScope = {}
    BY EnrollAssumption DEF Ready
  <2> QED BY <1>1, <2>1 DEF AclSteps, Revokes
<1>5. /\ v.secret = "missing" => stored = NoKey
      /\ v.secret = "rejected" => stored # token.key
      /\ v.secret = "valid" => stored = token.key
      /\ v.secret # "inactive" /\ v.secret \in Secrets
  BY <1>1, SecretMeans DEF Ready, Views
<1> HIDE DEF v
<1>6. /\ Rotates(v) => stored # token.key
      /\ ~Rotates(v) /\ v.secret # "unknown" => stored = token.key
  BY <1>2, <1>5 DEF Rotates, Secrets
<1>7. TokenSteps(v) = IF Rotates(v) THEN {Step("regenerate-token", None, FALSE, FALSE)} ELSE {}
  BY <1>2 DEF TokenSteps
<1> QED BY <1>3, <1>4, <1>6, <1>7 DEF EnrollSteps, v

LEMMA AgainStep ==
    ASSUME TypeOK, PlaceInv, CalmInv, AgainInv, Converges, Next
    PROVE  AgainInv'
<1> DEFINE Later(c) ==
        calm[c] =>
            /\ pc[c] \notin {"run", "store"} => Ready
            /\ full[c] /\ verb[c] = "enroll" /\ pc[c] \in {"run", "store"} =>
                  /\ kept[c] \subseteq {Step("regenerate-token", None, FALSE, FALSE)}
                  /\ IF pc[c] = "store" THEN got[c] = token.key
                     ELSE stored = token.key \/ kept[c] # {}
<1>1. ASSUME NEW c \in Calls, Moves(c), NEW d \in Calls \ {c} PROVE Later(d)'
  BY <1>1, CalmAlone
<1>2. ASSUME NEW c \in Calls, Moves(c), calm'[c], settled' \in {"once", "twice"} PROVE Later(c)'
  <2>0. CallTypes
    BY TypeParts
  <2>1. ASSUME NEW w \in {"enroll", "revoke"}, Execute(c, w) PROVE Later(c)'
    <3>1. AllIdle /\ pc'[c] = "acls" /\ UNCHANGED <<space, user, token, acls, settled>>
      BY <1>2, <2>0, <2>1 DEF Execute, server, CallTypes
    <3>2. Ready
      BY <1>2, <3>1 DEF Converges
    <3> QED BY <3>1, <3>2 DEF Ready
  <2>2. CASE ReadAcls(c) \/ ReadUsers(c) \/ Probe(c)
    <3>1. /\ pc[c] \notin {"run", "store"} /\ pc'[c] \notin {"run", "store"} /\ calm[c]
          /\ UNCHANGED <<space, user, token, acls, settled>>
      BY <1>2, <2>0, <2>2 DEF ReadAcls, ReadUsers, Probe, server, ghosts, CallTypes
    <3>2. Ready
      BY <1>2, <3>1 DEF AgainInv
    <3> QED BY <3>1, <3>2 DEF Ready
  <2>3. CASE Confirm(c)
    <3>1. /\ pc[c] = "plan" /\ pc'[c] = "run" /\ calm[c] /\ verb' = verb /\ settled' = settled
          /\ token' = token /\ stored' = stored
          /\ full'[c] => kept'[c] = StepsOf(verb[c], view[c]) /\ view[c].secret # "unknown"
      BY <1>2, <2>3, ConfirmIs DEF server
    <3>2. Ready
      BY <1>2, <3>1 DEF AgainInv
    <3>3. ASSUME full'[c], verb[c] = "enroll"
          PROVE  /\ kept'[c] \subseteq {Step("regenerate-token", None, FALSE, FALSE)}
                 /\ stored = token.key \/ kept'[c] # {}
      <4>1. kept'[c] = EnrollSteps(view[c]) /\ view[c].secret # "unknown"
        BY <3>1, <3>3 DEF StepsOf
      <4> QED BY <3>1, <3>2, <3>3, <4>1, ReadyPlansLittle
    <3> QED BY <3>1, <3>3
  <2>4. CASE RunStep(c)
    <3>1. PICK s \in kept[c] :
             /\ Do(s) /\ kept'[c] = kept[c] \ {s}
             /\ got'[c] = (IF Mints(s) THEN FreshKey ELSE NoKey)
             /\ pc'[c] = (IF Mints(s) THEN "store" ELSE "run")
      BY <2>4, RunIs
    <3>2. /\ pc[c] = "run" /\ calm[c] /\ verb' = verb /\ full' = full /\ settled' = settled
      BY <1>2, <2>4, RunIs
    <3>3. ASSUME full[c], verb[c] = "enroll"
          PROVE  /\ kept'[c] \subseteq {Step("regenerate-token", None, FALSE, FALSE)}
                 /\ pc'[c] = "store" /\ got'[c] = token'.key
      <4>1. kept[c] \subseteq {Step("regenerate-token", None, FALSE, FALSE)}
        BY <1>2, <3>2, <3>3 DEF AgainInv
      <4>2. s.act = "regenerate-token"
        BY <4>1 DEF Step
      <4>3. token' = [token EXCEPT !.active = @ \/ s.enable, !.key = FreshKey]
        BY <3>1, <4>2, TokenEffect
      <4>4. token \in Tokens
        BY DEF TypeOK
      <4>5. token'.key = FreshKey
        BY <4>3, <4>4 DEF Tokens
      <4> QED BY <3>1, <4>1, <4>2, <4>5 DEF Mints
    <3> QED BY <3>1, <3>2, <3>3
  <2>5. CASE Store(c)
    <3>1. /\ pc[c] = "store" /\ pc'[c] = "run" /\ stored' = got[c] /\ token' = token
          /\ verb' = verb /\ kept' = kept /\ calm' = calm /\ full' = full /\ settled' = settled
      BY <2>5, StoreIs
    <3>2. full[c] /\ verb[c] = "enroll" =>
             /\ kept[c] \subseteq {Step("regenerate-token", None, FALSE, FALSE)}
             /\ got[c] = token.key
      BY <1>2, <3>1 DEF AgainInv
    <3> QED BY <3>1, <3>2
  <2>6. CASE Refuse(c) \/ StepRefused(c) \/ AnswerLost(c) \/ Fail(c) \/ Finish(c)
    <3>1. Quit(c) \/ Finish(c)
      BY <2>6 DEF Refuse, StepRefused, AnswerLost, Fail
    <3> QED BY <1>2, <3>1, Returned
  <2> QED BY <1>2, <2>1, <2>2, <2>3, <2>4, <2>5, <2>6 DEF Moves
<1>3. CASE settled' \notin {"once", "twice"}
  BY <1>3 DEF AgainInv
<1>4. ASSUME NEW c \in Calls, Moves(c), settled' \in {"once", "twice"} PROVE Later(c)'
  BY <1>2, <1>4
<1>5. ASSUME NEW c \in Calls, Moves(c), settled' \in {"once", "twice"} PROVE AgainInv'
  <2>1. \A d \in Calls : Later(d)'
    BY <1>1, <1>4, <1>5
  <2> QED BY <2>1 DEF AgainInv
<1>6. Edit => settled' = "no"
  BY DEF Edit
<1> QED BY <1>3, <1>5, <1>6, NextIs

-----------------------------------------------------------------------------
(* The theorems *)

LEMMA EInvInit == Init => EInv
<1> SUFFICES ASSUME Init PROVE EInv
  OBVIOUS
<1>1. \E k \in Keys : TRUE
  <2>1. ASSUME Keys = {} PROVE FALSE
    <3>1. Cardinality(Keys) = 0 /\ Cardinality(Calls) \in Nat
      BY <2>1, EnrollAssumption, FS_EmptySet, FS_CardinalityType
    <3> QED BY <3>1, EnrollAssumption
  <2> QED BY <2>1
<1>2. (CHOOSE k \in Keys : TRUE) \in Keys \ {NoKey}
  BY <1>1, EnrollAssumption
<1>3. user \in Users /\ token \in Tokens /\ token.there = (token.key # NoKey) /\ (token.there => user.there)
  <2>1. NoUser \in Users /\ HandMade \in Users /\ NoToken \in Tokens
        /\ NoToken.there = (NoToken.key # NoKey)
    BY DEF NoUser, HandMade, NoToken, Users, Tokens
  <2> DEFINE key == CHOOSE k \in Keys : TRUE
  <2>2. token = NoToken \/ token = [there |-> TRUE, active |-> TRUE, key |-> key]
    BY DEF Init
  <2>3. key \in Keys /\ key # NoKey
    BY <1>2
  <2> HIDE DEF key
  <2>4. token \in Tokens /\ token.there = (token.key # NoKey)
    <3>1. CASE token = NoToken
      BY <2>1, <3>1
    <3>2. CASE token = [there |-> TRUE, active |-> TRUE, key |-> key]
      BY <2>3, <3>2 DEF Tokens
    <3> QED BY <2>2, <3>1, <3>2
  <2> QED BY <2>1, <2>4 DEF Init
<1>4. TypeOK
  <2>1. view \in [Calls -> Views]
    BY BlankType DEF Init
  <2>2. acls \subseteq Grants /\ space \in BOOLEAN /\ stored \in Keys \cup {NoKey}
        /\ mishaps \in 0 .. MaxMishaps
    <3>1. space = FALSE /\ stored = NoKey /\ mishaps = 0 /\ acls \in SUBSET (Grants \ Wanted)
      BY DEF Init
    <3>2. 0 \in 0 .. MaxMishaps
      BY EnrollAssumption
    <3> QED BY <3>1, <3>2
  <2> QED BY <1>3, <2>1, <2>2 DEF Init, TypeOK, Verbs
<1>5. PlaceInv
  BY DEF Init, PlaceInv, Placed
<1>6. AclInv /\ AclsAsPlanned
  BY DEF Init, AclInv, WritesAcls, AclsAsPlanned
<1>7. CalmInv /\ UselessInv /\ EnrollInv /\ RevokeInv
  BY DEF Init, CalmInv, SeesAll, UselessInv, Useless, EnrollInv, WillEnroll, RevokeInv, WillRevoke
<1>8. AgainInv /\ Converges /\ RevokeLeavesNothing
  BY DEF Init, AgainInv, Converges, RevokeLeavesNothing
<1> QED BY <1>4, <1>5, <1>6, <1>7, <1>8 DEF EInv

LEMMA EInvStep == EInv /\ [Next]_vars => EInv'
<1> SUFFICES ASSUME EInv, [Next]_vars PROVE EInv'
  OBVIOUS
<1> USE DEF EInv
<1>1. CASE Next
  <2>1. TypeOK' /\ PlaceInv'
    BY <1>1, TypeStep, PlaceStep
  <2>2. AclInv' /\ AclsAsPlanned'
    BY <1>1, AclStep
  <2>3. CalmInv' /\ UselessInv'
    BY <1>1, CalmStep, UselessStep
  <2>4. EnrollInv' /\ RevokeInv'
    BY <1>1, EnrollStep, RevokeStep
  <2>5. AgainInv'
    BY <1>1, AgainStep
  <2>6. Converges' /\ RevokeLeavesNothing'
    BY <1>1, ConvergesStep
  <2> QED BY <2>1, <2>2, <2>3, <2>4, <2>5, <2>6
<1>2. CASE UNCHANGED vars
  <2> USE <1>2 DEF vars, server, call, ghosts
  <2>1. TypeOK'
    BY DEF TypeOK
  <2>2. PlaceInv'
    BY DEF PlaceInv, Placed
  <2>3. AclInv' /\ AclsAsPlanned'
    BY DEF AclInv, WritesAcls, Todo, AclsAsPlanned
  <2>4. CalmInv'
    BY DEF CalmInv, SeesAll, SecretState
  <2>5. UselessInv'
    BY DEF UselessInv, Useless
  <2>6. EnrollInv' /\ RevokeInv'
    BY DEF EnrollInv, WillEnroll, UserWillDo, TokenWillDo, AclsWillDo, RevokeInv, WillRevoke
  <2>7. AgainInv' /\ Converges' /\ RevokeLeavesNothing'
    BY DEF AgainInv, Ready, Converges, Enrolled, RevokeLeavesNothing, AllIdle
  <2> QED BY <2>1, <2>2, <2>3, <2>4, <2>5, <2>6, <2>7
<1> QED BY <1>1, <1>2

\* The invariant holds of every reachable state, with any number of calls, any ACL
\* entries and any number of mishaps (enroll.rs, execute and execute_revoke).
THEOREM EnrollInvariant == Spec => []EInv
<1>1. EInv /\ [Next]_vars => EInv'
  BY EInvStep
<1> QED BY <1>1, EInvInit, PTL DEF Spec

\* The variables of enrol and revoke keep their types.
THEOREM EnrollTypeCorrect == Spec => []TypeOK
<1>1. EInv => TypeOK
  BY DEF EInv
<1> QED BY <1>1, EnrollInvariant, PTL

\* After an undisturbed enrol that was confirmed in full the host's accounts and
\* entries are right, and after a second its secret is (enroll.rs, plan_steps).
THEOREM EnrolConverges == Spec => []Converges
<1>1. EInv => Converges
  BY DEF EInv
<1> QED BY <1>1, EnrollInvariant, PTL

\* An undisturbed revoke that was confirmed in full leaves nothing of the host.
THEOREM RevokeIsComplete == Spec => []RevokeLeavesNothing
<1>1. EInv => RevokeLeavesNothing
  BY DEF EInv
<1> QED BY <1>1, EnrollInvariant, PTL

\* However many calls and admins overlap, a call's ACL writes are made on the entries
\* it planned from (enroll.rs, stamp_acl_digest).
THEOREM AclWritesAreAsPlanned == Spec => []AclsAsPlanned
<1>1. EInv => AclsAsPlanned
  BY DEF EInv
<1> QED BY <1>1, EnrollInvariant, PTL

\* An undisturbed enrol of a host that is enrolled plans no step (enroll.rs, plan_steps).
THEOREM EnrolIsIdempotent == Spec => []EnrolledIsLeftAlone
<1>1. EInv => EnrolledIsLeftAlone
  <2> SUFFICES ASSUME EInv, NEW c \in Calls, pc[c] = "plan", verb[c] = "enroll", calm[c], Enrolled
               PROVE  StepsOf("enroll", view[c]) = {}
    BY DEF EnrolledIsLeftAlone
  <2>1. TypeOK /\ CalmInv /\ Ready /\ stored = token.key
    BY DEF EInv, Enrolled
  <2> QED BY <2>1, ReadyPlansLittle DEF StepsOf
<1> QED BY <1>1, EnrollInvariant, PTL

LEMMA MoveMoves ==
    ASSUME TypeOK, NEW c \in Calls, Next, pc'[c] # pc[c]
    PROVE  Moves(c)
<1>1. ASSUME NEW d \in Calls \ {c}, Moves(d) PROVE pc'[c] = pc[c]
  BY <1>1, OthersStay
<1>2. Edit => pc' = pc
  BY DEF Edit, call
<1> QED BY <1>1, <1>2, NextIs

\* An undisturbed enrol regenerates only a token whose secret orca does not hold
\* (enroll.rs, secret_state and plan_steps).
THEOREM WorkingSecretsAreKept == Spec => RegeneratesOnlyUseless
<1> DEFINE A(c) == calm[c] /\ pc[c] = "run" /\ pc'[c] # "run" /\ token.there /\ token'.key # token.key
                       => ~token'.there \/ stored # token.key
<1>1. ASSUME EInv, Next, NEW c \in Calls PROVE A(c)
  <2> SUFFICES ASSUME calm[c], pc[c] = "run", pc'[c] # "run", token.there, token'.key # token.key
               PROVE  ~token'.there \/ stored # token.key
    OBVIOUS
  <2>0. TypeOK /\ PlaceInv /\ UselessInv /\ token \in Tokens
    BY <1>1 DEF EInv, TypeOK
  <2>1. Moves(c)
    BY <1>1, <2>0, MoveMoves
  <2>2. PICK s \in kept[c] : Accepts(c, s) /\ Do(s)
    BY <2>0, <2>1, MoveServer DEF server
  <2>3. s.act # "create-token"
    BY <2>2, AcceptedOnly
  <2>4. s.act # "enable-token"
    <3>1. s.act = "enable-token" => token' = [token EXCEPT !.active = TRUE]
      BY <2>2, TokenEffect
    <3>2. [token EXCEPT !.active = TRUE].key = token.key
      BY <2>0 DEF Tokens
    <3> QED BY <3>1, <3>2
  <2>5. s.act \in {"delete-token", "delete-user"} => ~token'.there
    <3>1. ~NoToken.there
      BY DEF NoToken
    <3> QED BY <2>2, <3>1, TokenEffect
  <2>6. s.act = "regenerate-token" => stored # token.key
    BY <2>0 DEF UselessInv, Useless
  <2>7. s.act \in {"create-token", "regenerate-token", "enable-token", "delete-token", "delete-user"}
    BY <2>2, TokenEffect
  <2> QED BY <2>3, <2>4, <2>5, <2>6, <2>7
<1>2. EInv /\ [Next]_vars => [\A c \in Calls : A(c)]_vars
  BY <1>1
<1> QED BY <1>2, EnrollInvariant, PTL DEF Spec, RegeneratesOnlyUseless

\* An undisturbed call removes orca's copy of the secret only once the token is gone
\* (enroll.rs, execute_revoke).
THEOREM SecretsOutliveTokens == Spec => RemovesOnlyUseless
<1> DEFINE A(c) == calm[c] /\ pc'[c] # pc[c] /\ stored' = NoKey /\ stored # NoKey => ~token.there
<1>1. ASSUME EInv, Next, NEW c \in Calls PROVE A(c)
  <2> SUFFICES ASSUME calm[c], pc'[c] # pc[c], stored' = NoKey, stored # NoKey PROVE ~token.there
    OBVIOUS
  <2>0. TypeOK /\ PlaceInv /\ UselessInv
    BY <1>1 DEF EInv
  <2>1. Moves(c)
    BY <1>1, <2>0, MoveMoves
  <2>2. Store(c) => got[c] # NoKey
    BY <2>0 DEF Store, TypeOK
  <2>3. Finish(c) /\ gone[c]
    BY <2>0, <2>1, <2>2, MoveStored
  <2>4. pc[c] = "run" /\ kept[c] = {}
    BY <2>0, <2>3, FinishIs
  <2> QED BY <2>0, <2>3, <2>4 DEF UselessInv, Useless
<1>2. EInv /\ [Next]_vars => [\A c \in Calls : A(c)]_vars
  BY <1>1
<1> QED BY <1>2, EnrollInvariant, PTL DEF Spec, RemovesOnlyUseless
=============================================================================
