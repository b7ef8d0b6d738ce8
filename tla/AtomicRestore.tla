--------------------------- MODULE AtomicRestore ---------------------------
(***************************************************************************)
(* What a restore promises of the configuration it replaces: it is         *)
(* replaced as a whole or its originals stay, and nothing in between is    *)
(* ever the configuration.                                                 *)
(***************************************************************************)
EXTENDS Naturals

CONSTANTS Files, MaxRestores

VARIABLES
    config,     \* the content of each file: 0 absent, else what restore wrote it
    attempt     \* the content the latest restore installs

Absent == 0

Init == config \in [Files -> {Absent, 1}] /\ attempt = 1

Begin ==
    /\ attempt <= MaxRestores
    /\ attempt' = attempt + 1
    /\ UNCHANGED config

Commit ==
    /\ config' = [f \in Files |-> attempt]
    /\ UNCHANGED attempt

\* A rollback cannot prove that a file the restore added is its own, and leaves it.
Abort ==
    /\ config' \in [Files -> {config[f] : f \in Files} \cup {attempt}]
    /\ \A f \in Files : config'[f] = config[f] \/ (config[f] = Absent /\ config'[f] = attempt)
    /\ UNCHANGED attempt

Next == Begin \/ Commit \/ Abort

Spec == Init /\ [][Next]_<<config, attempt>>
=============================================================================
