----------------------------- MODULE MCCapture -----------------------------
(* A finite instance of Capture: a PBS change of two files under two locks, and
   a restore, which replaces the same files and takes none. *)
EXTENDS Capture, TLC

CONSTANTS token, restore

TheLocks == (token :> {1, 2}) @@ (restore :> {})
TheRewrites == (token :> {1, 2}) @@ (restore :> {1, 2})
=============================================================================
