----------------------------- MODULE MCRestore -----------------------------
(***************************************************************************)
(* Instances of Restore for TLC.                                           *)
(***************************************************************************)
EXTENDS RestoreInv

\* Two directories, the second in the first (acme/accounts).
NestedParent == <<0, 1>>
\* A file at the config root and the others in the inner directory.
RootAndInner == <<0, 2, 2>>
AllAtRoot == <<0, 0>>
=============================================================================
