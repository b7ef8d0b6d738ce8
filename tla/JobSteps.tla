------------------------------ MODULE JobSteps ------------------------------
(***************************************************************************)
(* The steps of pbs.sync_job.* and pbs.verify_job.* (src/jobs.rs): what is *)
(* sent to bring a job from the configuration that was read to the one     *)
(* that is asked for.  A job is a function of the keys that both kinds     *)
(* have; a key that is not there is Unset.  Both kinds are treated alike.  *)
(***************************************************************************)
CONSTANTS Keys, Values, Unset, NoJob

ASSUME JobsAssumption ==
    /\ Unset \notin Values
    /\ NoJob \notin [Keys -> Values \cup {Unset}]

Configs == [Keys -> Values \cup {Unset}]
AllUnset == [k \in Keys |-> Unset]

\* The keys that are given (to_map leaves out what is None).
Given(fields) == {k \in Keys : fields[k] # Unset}

\* Mutant: a key that the job does not have yet is no change.
DiffPresent(current, desired) ==
    {k \in Given(desired) : current[k] # Unset /\ current[k] # desired[k]}

\* The keys that desired changes in current.
diff_fields(current, desired) == {k \in Given(desired) : current[k] # desired[k]}

Present(current, clear) == {k \in clear : current[k] # Unset}

\* Mutant: the digest is not sent.
PutPlain(changes, fields, cleared, digest) ==
    [call |-> "put", set |-> [k \in Keys |-> IF k \in changes THEN fields[k] ELSE Unset],
     delete |-> cleared, digest |-> NoJob]

Put(changes, fields, cleared, digest) ==
    [call |-> "put", set |-> [k \in Keys |-> IF k \in changes THEN fields[k] ELSE Unset],
     delete |-> cleared, digest |-> digest]

create_steps(fields) ==
    {[call |-> "post", set |-> fields, delete |-> {}, digest |-> NoJob]}

update_steps(current, fields, clear, digest) ==
    LET changes == diff_fields(current, fields)
        cleared == Present(current, clear)
    IN  IF changes = {} /\ cleared = {} THEN {}
        ELSE {Put(changes, fields, cleared, digest)}

ensure_steps(existing, fields, digest) ==
    IF existing = NoJob THEN create_steps(fields)
    ELSE update_steps(existing, fields, {}, digest)

\* A job that is there is run.
run_steps == {[call |-> "run", set |-> AllUnset, delete |-> {}, digest |-> NoJob]}

\* What PBS makes of a PUT: it unsets the keys of `delete`, then sets the others.
Patched(job, step) ==
    [k \in Keys |-> IF step.set[k] # Unset THEN step.set[k]
                    ELSE IF k \in step.delete THEN Unset ELSE job[k]]

\* The job with the given fields set, the cleared ones unset and the others as
\* they were: what an update promises.
Asked(job, fields, clear) ==
    [k \in Keys |-> IF fields[k] # Unset THEN fields[k]
                    ELSE IF k \in clear THEN Unset ELSE job[k]]

IsAsAsked(job, fields, clear) ==
    job # NoJob /\ \A k \in Keys :
        IF fields[k] # Unset THEN job[k] = fields[k] ELSE k \in clear => job[k] = Unset
=============================================================================
