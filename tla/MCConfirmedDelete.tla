------------------------- MODULE MCConfirmedDelete -------------------------
(* Finite instances of ConfirmedDelete: a group beside a namespace that holds
   one group, and a namespace that holds two. *)
EXTENDS ConfirmedDelete, TLC

CONSTANTS a, b

EachItsOwn == (a :> 1) @@ (b :> 2)
Together == (a :> 1) @@ (b :> 1)
=============================================================================
