---------------------------- MODULE MCEndpoints ----------------------------
(* Endpoints for TLC: one endpoint, two overlapping calls, two tokens and two *)
(* certificates of which the system's roots vouch for one.                    *)
EXTENDS Endpoints, TLC

CONSTANTS n1, i1, i2, k1, k2

Req(verb, id, insecure, enabled, ref, fingerprint) ==
    [verb |-> verb, name |-> n1, id |-> id, insecure |-> insecure,
     enabled |-> enabled, ref |-> ref, pin |-> fingerprint]

MCRequests ==
    { Req("create", i1, FALSE, TRUE, TRUE, k2),
      Req("create", i1, TRUE, TRUE, TRUE, Keep),
      Req("update", i2, Keep, Keep, TRUE, k1),
      Req("update", i2, TRUE, Keep, TRUE, Keep),
      Req("update", Keep, Keep, FALSE, FALSE, None),
      Req("delete", Keep, Keep, Keep, FALSE, Keep),
      Req("connect", Keep, Keep, Keep, FALSE, Keep) }

Symmetry == Permutations(Procs) \cup Permutations(Secrets)
=============================================================================
