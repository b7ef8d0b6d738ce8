------------------------------ MODULE MCEnroll ------------------------------
(* A finite instance of Enroll: two calls, the entries of the user and of the
   token on the host's namespace, and one entry out of scope. *)
EXTENDS Enroll, TLC

CONSTANTS c1, c2, u, t, x

Symmetry == Permutations(Calls)
=============================================================================
