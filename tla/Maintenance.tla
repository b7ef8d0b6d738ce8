---------------------------- MODULE Maintenance ----------------------------
(***************************************************************************)
(* The maintenance verbs of the plugin beside a PBS that changes under     *)
(* them: pbs.sync_job.* and pbs.verify_job.* (src/jobs.rs), pbs.prune and  *)
(* pbs.gc.run (src/groups.rs), pbs.namespace.create, pbs.datastore.health  *)
(* and pbs.task.detail (src/tools.rs).  Each verb is a row of requests;    *)
(* between two of them another administrator edits a job or a namespace, a *)
(* backup arrives, a mount goes or comes back, a task goes on.  A request  *)
(* may fail, and a change whose reply is lost may have been made.          *)
(*                                                                         *)
(* One verb runs at a time: another session's verbs are changes like any.  *)
(***************************************************************************)
EXTENDS JobSteps, Health, Integers, FiniteSets, Sequences

CONSTANTS
    Ids,            \* jobs
    Groups,         \* backup groups
    Requests,       \* the calls considered
    Edits,          \* the configurations another administrator may give a job
    DefaultKeep,    \* DEFAULT_KEEP_LAST
    NoKeep,         \* no keep option given
    Depth,          \* the levels of the namespace that is to be created
    MaxSnaps, MaxLines, MaxCalls, MaxChanges    \* bounds

Verbs == {"job.create", "job.update", "job.ensure", "job.run", "prune", "gc.run",
          "namespace.create", "health", "task"}
JobVerbs == {"job.create", "job.update", "job.ensure", "job.run"}
Request ==
    [verb : Verbs, id : Ids, fields : Configs, clear : SUBSET Keys,
     keep : 1 .. DefaultKeep \cup {NoKeep}, limit : 0 .. MaxLines, execute : BOOLEAN]

ASSUME MaintenanceAssumption ==
    /\ {"store", "schedule"} \subseteq Keys
    /\ Edits \subseteq {c \in Configs : c["store"] # Unset}
    /\ Requests \subseteq Request /\ Requests # {}
    /\ NoJob \notin Nat /\ MaxSnaps # 0
    \* create and ensure need a store; only update clears keys, and none that it sets
    /\ \A r \in Requests :
          /\ r.verb \in {"job.create", "job.ensure"} => r.fields["store"] # Unset
          /\ r.verb # "job.update" => r.clear = {}
          /\ Given(r.fields) \cap r.clear = {}
    /\ {DefaultKeep, Depth, MaxSnaps, MaxLines, MaxCalls, MaxChanges, MinFree} \subseteq Nat

VARIABLES
    \* the PBS
    jobs,       \* the job configuration
    digest,     \* of the file it is kept in, which every write of it changes
    lastRun,    \* how each job's last run ended
    ds,         \* the datastore
    snaps,      \* each group's snapshots, by age
    guarded,    \* the protected ones
    levels,     \* how many levels of the namespace there are
    task,       \* the task a caller follows
    \* the call
    pc, req, items,
    read,       \* the job as it was read
    plan,       \* the step to be sent; the levels to be created
    due,        \* prune: the groups still to look at or to prune
    marked,     \* prune: the groups that would lose snapshots
    listed,     \* health: the verify jobs, or None if they could not be read
    problems,   \* health: what was found
    seenTask,   \* task: what was read
    reply,
    calls, changes,
    \* for stating properties
    shown,      \* the items of the last plan of a prune
    standing,   \* the problems there have been at every moment of the call
    met,        \* the problems there have been at some
    was         \* the job, or the namespace, has been as asked at some moment of the call

pbs == <<jobs, digest, lastRun, ds, snaps, guarded, levels, task>>
call == <<pc, req, items, read, plan, due, marked, listed, problems, seenTask, reply, calls>>
watch == <<standing, met, was>>
vars == <<pbs, call, changes, shown, watch>>

NoTask == [there |-> FALSE, lines |-> 0, stopped |-> FALSE]
NewTask == [there |-> TRUE, lines |-> 0, stopped |-> FALSE]
NotSeen == [stopped |-> FALSE, lines |-> 0, total |-> 0]

\* raw_jobs: every job, of both directions, as the status list shows it.
AsListed(j) ==
    [id |-> j, store |-> jobs[j]["store"], scheduled |-> jobs[j]["schedule"] # Unset,
     state |-> lastRun[j]]
ListedJobs == {AsListed(j) : j \in {i \in Ids : jobs[i] # NoJob}}

Init ==
    /\ \E j \in Ids, c \in Edits \cup {NoJob} : jobs = [i \in Ids |-> IF i = j THEN c ELSE NoJob]
    /\ digest = 0
    /\ lastRun = [j \in Ids |-> "none"]
    /\ ds = [mounted |-> TRUE, maintenance |-> FALSE, readable |-> TRUE, total |-> 100,
             avail |-> MinFree, gc |-> "none", stillBad |-> FALSE]
    /\ snaps = [g \in Groups |-> 1 .. MaxSnaps - 1]
    /\ \E g \in Groups : guarded = [h \in Groups |-> IF h = g THEN {1} ELSE {}]
    /\ levels = 0 /\ task = NewTask
    /\ pc = "idle" /\ req = (CHOOSE r \in Requests : TRUE) /\ items = {} /\ read = NoJob /\ plan = {}
    /\ due = {} /\ marked = {} /\ listed = {} /\ problems = {} /\ seenTask = NotSeen
    /\ reply = "none" /\ calls = 0 /\ changes = 0
    /\ shown = {} /\ standing = {} /\ met = {} /\ was = FALSE

-----------------------------------------------------------------------------
(* What happens to the PBS meanwhile *)

Change == changes < MaxChanges /\ changes' = changes + 1

\* Another administrator writes a job, or removes it.
EditJob(j) ==
    /\ Change
    /\ \E c \in (Edits \cup {NoJob}) \ {jobs[j]} : jobs' = [jobs EXCEPT ![j] = c]
    /\ digest' = digest + 1
    /\ lastRun' = [lastRun EXCEPT ![j] = IF jobs'[j] = NoJob THEN "none" ELSE @]
    /\ UNCHANGED <<ds, snaps, guarded, levels, task>>

JobRan(j) ==
    /\ Change /\ jobs[j] # NoJob
    /\ \E s \in RunStates \ {"none", lastRun[j]} : lastRun' = [lastRun EXCEPT ![j] = s]
    /\ UNCHANGED <<jobs, digest, ds, snaps, guarded, levels, task>>

StoreMoves ==
    \/ ds' = [ds EXCEPT !.mounted = ~@, !.readable = ~ds.mounted]
    \/ ds' = [ds EXCEPT !.readable = ~@]
    \/ ds' = [ds EXCEPT !.maintenance = ~@]
    \/ \E t \in {0, 100} \ {ds.total} : ds' = [ds EXCEPT !.total = t]
    \/ \E a \in {MinFree - 1, MinFree} \ {ds.avail} : ds' = [ds EXCEPT !.avail = a]
    \/ \E s \in RunStates \ {"none"}, b \in BOOLEAN : ds' = [ds EXCEPT !.gc = s, !.stillBad = b]

StoreChanges ==
    /\ Change /\ StoreMoves
    /\ UNCHANGED <<jobs, digest, lastRun, snaps, guarded, levels, task>>

Newest(g) == IF snaps[g] = {} THEN 0 ELSE CHOOSE s \in snaps[g] : \A t \in snaps[g] : t <= s
BackupArrives(g) ==
    /\ Change /\ Newest(g) < MaxSnaps
    /\ snaps' = [snaps EXCEPT ![g] = @ \cup {Newest(g) + 1}]
    /\ UNCHANGED <<jobs, digest, lastRun, ds, guarded, levels, task>>

\* Another administrator creates the namespace's next level, or removes its last.
LevelChanges ==
    /\ Change
    /\ levels' \in {levels - 1, levels + 1} \cap 0 .. Depth
    /\ UNCHANGED <<jobs, digest, lastRun, ds, snaps, guarded, task>>

\* A task writes its log while it runs, and nothing once it has stopped.
TaskGoesOn ==
    /\ Change /\ task.there /\ ~task.stopped
    /\ \/ task.lines < MaxLines /\ task' = [task EXCEPT !.lines = @ + 1]
       \/ task' = [task EXCEPT !.stopped = TRUE]
    /\ UNCHANGED <<jobs, digest, lastRun, ds, snaps, guarded, levels>>

Meanwhile ==
    /\ \/ \E j \in Ids : EditJob(j) \/ JobRan(j)
       \/ StoreChanges
       \/ \E g \in Groups : BackupArrives(g)
       \/ LevelChanges
       \/ TaskGoesOn
    /\ UNCHANGED <<call, shown>>

-----------------------------------------------------------------------------
(* A call *)

\* Mutant: the log is read before the status.
LogFirst == <<"log", "status">>

\* What pbs.task.detail reads, in this order.
TaskReads == <<"status", "log">>

FirstStep(r) ==
    CASE r.verb \in JobVerbs -> "find"
      [] r.verb = "prune" -> "groups"
      [] r.verb = "gc.run" -> "gc status"
      [] r.verb = "namespace.create" -> "namespaces"
      [] r.verb = "health" -> "verify jobs"
      [] r.verb = "task" -> TaskReads[1]

\* A bound: calls follow one another within a family, as those of different families
\* share nothing of the PBS but the task.
Family(verb) ==
    CASE verb \in JobVerbs \ {"job.run"} -> "jobs"
      [] verb = "prune" -> "prune"
      [] verb \in {"health", "namespace.create"} -> verb
      [] OTHER -> "tasks"

\* The operator passes items the last dry run has shown.
Call(r) ==
    /\ pc = "idle" /\ calls < MaxCalls
    /\ calls = 0 \/ Family(r.verb) = Family(req.verb)
    /\ calls' = calls + 1 /\ req' = r /\ pc' = FirstStep(r)
    /\ items' \in IF r.verb = "prune" /\ r.execute THEN SUBSET shown ELSE {{}}
    /\ read' = NoJob /\ plan' = {} /\ due' = {} /\ marked' = {} /\ listed' = {}
    /\ problems' = {} /\ seenTask' = NotSeen /\ reply' = "none"
    /\ UNCHANGED <<pbs, changes, shown>>

Goes(where) == pc' = where /\ UNCHANGED reply
Ends(r) == pc' = "idle" /\ reply' = r

\* A read fails: the verb does, and nothing has been changed.
ReadFails ==
    /\ Change
    /\ pc \in {"find", "section", "groups", "preview", "gc status", "namespaces", "datastores", "status",
           "log"}
    /\ ~(req.verb = "health" /\ pc = "status")
    /\ Ends("failed")
    /\ UNCHANGED <<pbs, req, items, read, plan, due, marked, listed, problems, seenTask, calls, shown>>

\* Mutant: a plan without steps is carried out like any.
DecideAlways(steps) ==
    /\ plan' = steps
    /\ IF ~req.execute THEN Ends("plan") ELSE Goes("apply")

\* plan_or_apply: without execute the steps are shown; without steps all is done.
Decide(steps) ==
    /\ plan' = steps
    /\ IF ~req.execute THEN Ends("plan")
       ELSE IF steps = {} THEN Ends("ok") ELSE Goes("apply")

-----------------------------------------------------------------------------
(* Jobs: the status list, then for an update or ensure the section, which comes *)
(* with the digest                                                              *)

Refused(verb, existing) ==
    \/ verb = "job.create" /\ existing # NoJob
    \/ verb \in {"job.update", "job.run"} /\ existing = NoJob

StepsFor(r, existing, d) ==
    CASE r.verb = "job.create" -> create_steps(r.fields)
      [] r.verb = "job.update" -> update_steps(existing, r.fields, r.clear, d)
      [] r.verb = "job.ensure" -> ensure_steps(existing, r.fields, d)
      [] r.verb = "job.run" -> run_steps

mutate_with(existing, d) ==
    /\ read' = existing
    /\ IF Refused(req.verb, existing) THEN Ends("failed") /\ UNCHANGED plan
       ELSE Decide(StepsFor(req, existing, d))

FindJob ==
    /\ pc = "find"
    /\ IF req.verb \in {"job.update", "job.ensure"} /\ jobs[req.id] # NoJob
       THEN Goes("section") /\ UNCHANGED <<read, plan>>
       ELSE mutate_with(jobs[req.id], NoJob)
    /\ UNCHANGED <<pbs, req, items, due, marked, listed, problems, seenTask, calls, changes, shown>>

\* A job that has gone since it was listed fails the call.
JobSection ==
    /\ pc = "section"
    /\ IF jobs[req.id] = NoJob THEN Ends("failed") /\ UNCHANGED <<read, plan>>
       ELSE mutate_with(jobs[req.id], digest)
    /\ UNCHANGED <<pbs, req, items, due, marked, listed, problems, seenTask, calls, changes, shown>>

\* PBS takes a new job if there is none of the name, and a change if the file is the
\* one whose digest it is given or if it is given none.
Accepts(s) ==
    CASE s.call = "post" -> jobs[req.id] = NoJob
      [] s.call = "put" -> jobs[req.id] # NoJob /\ s.digest \in {digest, NoJob}
      [] s.call = "run" -> jobs[req.id] # NoJob
      [] s.call = "gc" -> TRUE

Does(s) ==
    /\ jobs' = CASE s.call = "post" -> [jobs EXCEPT ![req.id] = s.set]
                 [] s.call = "put" -> [jobs EXCEPT ![req.id] = Patched(@, s)]
                 [] OTHER -> jobs
    /\ digest' = IF s.call \in {"post", "put"} THEN digest + 1 ELSE digest
    /\ task' = IF s.call \in {"run", "gc"} /\ ~task.there THEN NewTask ELSE task
    /\ UNCHANGED <<lastRun, ds, snaps, guarded, levels>>

\* The one step is sent; its reply may be lost.
Apply ==
    /\ pc = "apply" /\ req.verb # "namespace.create"
    /\ \E s \in plan :
          \/ Accepts(s) /\ Does(s) /\ Ends("ok") /\ UNCHANGED changes
          \/ Accepts(s) /\ Does(s) /\ Ends("failed") /\ Change
          \/ ~Accepts(s) /\ Ends("failed") /\ UNCHANGED <<pbs, changes>>
          \/ Ends("failed") /\ Change /\ UNCHANGED pbs
    /\ UNCHANGED <<req, items, read, plan, due, marked, listed, problems, seenTask, calls, shown>>

\* pbs.gc.run reads the last result for its note, and starts the task.
GcStatus ==
    /\ pc = "gc status"
    /\ Decide({[call |-> "gc", set |-> AllUnset, delete |-> {}, digest |-> NoJob]})
    /\ UNCHANGED <<pbs, req, items, read, due, marked, listed, problems, seenTask, calls, changes, shown>>

-----------------------------------------------------------------------------
(* pbs.namespace.create *)

\* A level is there only if those above it are.
missing_namespace_chain(existing) == {k \in 1 .. Depth : k > existing}

NamespaceSteps ==
    /\ pc = "namespaces"
    /\ Decide(missing_namespace_chain(levels))
    /\ UNCHANGED <<pbs, req, items, read, due, marked, listed, problems, seenTask, calls, changes, shown>>

\* The parents first; PBS refuses a level that is there or whose parent is not.
CreateLevel ==
    /\ pc = "apply" /\ req.verb = "namespace.create"
    /\ \E k \in plan :
          /\ \A l \in plan : k <= l
          /\ plan' = plan \ {k}
          /\ \/ levels = k - 1 /\ levels' = k /\ UNCHANGED changes
                /\ IF plan' = {} THEN Ends("ok") ELSE UNCHANGED <<pc, reply>>
             \/ levels = k - 1 /\ levels' = k /\ Ends("failed") /\ Change
             \/ levels # k - 1 /\ UNCHANGED <<levels, changes>> /\ Ends("failed")
             \/ UNCHANGED levels /\ Ends("failed") /\ Change
    /\ UNCHANGED <<jobs, digest, lastRun, ds, snaps, guarded, task, req, items, read, due, marked,
                   listed, problems, seenTask, calls, shown>>

-----------------------------------------------------------------------------
(* pbs.prune *)

\* PruneArgs::keep
Keep(r) == IF r.keep = NoKeep THEN DefaultKeep ELSE r.keep

\* PBS: the newest of the unprotected ones stay, and every protected one.
NewestOf(set, n) == {s \in set : Cardinality({t \in set : t > s}) < n}
Doomed(g, n) ==
    LET open == snaps[g] \ guarded[g] IN open \ NewestOf(open, n)

\* Mutant: the preview is no dry run.
AlwaysPrunes(r, dry_run) == [keep |-> Keep(r), dry |-> FALSE]

prune_body(r, dry_run) == [keep |-> Keep(r), dry |-> dry_run]

PbsPrune(g, body) ==
    snaps' = IF body.dry THEN snaps ELSE [snaps EXCEPT ![g] = @ \ Doomed(g, body.keep)]

ListGroups ==
    /\ pc = "groups"
    /\ due' = {g \in Groups : snaps[g] # {}} /\ Goes("preview")
    /\ UNCHANGED <<pbs, req, items, read, plan, marked, listed, problems, seenTask, calls, changes, shown>>

Preview(g) ==
    /\ pc = "preview" /\ g \in due
    /\ due' = due \ {g} /\ marked' = marked \cup {x \in {g} : Doomed(g, Keep(req)) # {}}
    /\ PbsPrune(g, prune_body(req, TRUE))
    /\ UNCHANGED <<jobs, digest, lastRun, ds, guarded, levels, task, pc, req, items, read, plan, listed,
                   problems, seenTask, reply, calls, changes, shown>>

\* The plan is shown, or the confirmed part of it is carried out.
PlanPrune ==
    /\ pc = "preview" /\ due = {}
    /\ IF ~req.execute
       THEN Ends("plan") /\ shown' = marked /\ UNCHANGED due
       ELSE /\ UNCHANGED shown
            /\ IF items = {} /\ marked # {} THEN Ends("failed") /\ UNCHANGED due
               ELSE due' = marked \cap items /\ Goes("prune")
    /\ UNCHANGED <<pbs, req, items, read, plan, marked, listed, problems, seenTask, calls, changes>>

Prune(g) ==
    /\ pc = "prune" /\ g \in due
    /\ due' = due \ {g}
    /\ \/ PbsPrune(g, prune_body(req, FALSE)) /\ UNCHANGED <<pc, reply, changes>>
       \/ PbsPrune(g, prune_body(req, FALSE)) /\ Ends("failed") /\ Change
       \/ UNCHANGED snaps /\ Ends("failed") /\ Change
    /\ UNCHANGED <<jobs, digest, lastRun, ds, guarded, levels, task, req, items, read, plan, marked, listed,
                   problems, seenTask, calls, shown>>

PruneEnds ==
    /\ pc = "prune" /\ due = {} /\ Ends("ok")
    /\ UNCHANGED <<pbs, req, items, read, plan, due, marked, listed, problems, seenTask, calls,
                   changes, shown>>

-----------------------------------------------------------------------------
(* pbs.datastore.health: the verify jobs, the list, the status and the GC *)

Reads(where) ==
    /\ Goes(where)
    /\ UNCHANGED <<pbs, req, items, read, plan, due, marked, seenTask, calls, shown>>

\* Verify jobs that cannot be read are a problem of every datastore.
VerifyJobs ==
    /\ pc = "verify jobs" /\ Reads("datastores")
    /\ \/ listed' = ListedJobs /\ UNCHANGED <<problems, changes>>
       \/ Change /\ problems' = {"jobs unreadable"} /\ UNCHANGED listed

Datastores ==
    /\ pc = "datastores" /\ Reads("status")
    /\ problems' = problems \cup OfEntry(ds)
          \cup (IF "jobs unreadable" \in problems THEN {} ELSE verify_findings(Store, listed))
    /\ UNCHANGED <<listed, changes>>

\* Whatever makes the status unreadable, the GC is then not asked for.
Status ==
    /\ pc = "status" /\ req.verb = "health"
    /\ \/ Reads(IF ds.readable THEN "gc" ELSE "report") /\ problems' = problems \cup OfStatus(ds)
          /\ UNCHANGED changes
       \/ Change /\ Reads("report") /\ problems' = problems \cup {"unreadable"}
    /\ UNCHANGED listed

Gc ==
    /\ pc = "gc" /\ Reads("report")
    /\ \/ problems' = problems \cup OfGc(ds) /\ UNCHANGED changes
       \/ Change /\ problems' = problems \cup {"gc unreadable"}
    /\ UNCHANGED listed

Report ==
    /\ pc = "report" /\ Ends("ok")
    /\ UNCHANGED <<pbs, req, items, read, plan, due, marked, listed, problems, seenTask, calls,
                   changes, shown>>

-----------------------------------------------------------------------------
(* pbs.task.detail *)

\* The lines of a log of n that a limit lets through; 0 is no limit.
Shows(n, limit) == IF limit = 0 \/ n < limit THEN n ELSE limit

ReadTask(i) ==
    /\ req.verb = "task" /\ pc = TaskReads[i]
    /\ seenTask' = IF pc = "status" THEN [seenTask EXCEPT !.stopped = task.stopped]
                   ELSE [seenTask EXCEPT !.lines = Shows(task.lines, req.limit),
                                         !.total = task.lines]
    /\ IF i = 2 THEN Ends("ok") ELSE Goes(TaskReads[i + 1])
    /\ UNCHANGED <<pbs, req, items, read, plan, due, marked, listed, problems, calls, changes, shown>>

-----------------------------------------------------------------------------

\* What can be wrong with the datastore, and what is.
Troubles == {"not mounted", "maintenance", "unreadable", "empty", "little free", "gc failed",
             "still bad", "no verify job", "not scheduled", "verify failed"}
CoveredBy(j) == jobs[j] # NoJob /\ jobs[j]["store"] = Store
IsTrue(problem) ==
    \/ problem = "not mounted" /\ ~ds.mounted
    \/ problem = "maintenance" /\ ds.maintenance
    \/ problem = "unreadable" /\ ~ds.readable
    \/ problem = "empty" /\ ds.total = 0
    \/ problem = "little free" /\ ds.total # 0 /\ ds.avail * 100 < MinFree * ds.total
    \/ problem = "gc failed" /\ ds.gc = "failed"
    \/ problem = "still bad" /\ ds.stillBad
    \/ problem = "no verify job" /\ \A j \in Ids : ~CoveredBy(j)
    \/ /\ problem = "not scheduled" /\ \E j \in Ids : CoveredBy(j)
       /\ \A j \in Ids : CoveredBy(j) => jobs[j]["schedule"] = Unset
    \/ problem = "verify failed" /\ \E j \in Ids : CoveredBy(j) /\ lastRun[j] = "failed"
Now == {x \in Troubles : IsTrue(x)}

\* What is remembered of a call while it runs.
AsAskedNow ==
    IF req.verb = "namespace.create" THEN levels = Depth
    ELSE req.verb \in JobVerbs /\ IsAsAsked(jobs[req.id], req.fields, req.clear)
Watches ==
    IF pc' = "idle" /\ pc = "idle" THEN UNCHANGED watch
    ELSE IF pc = "idle"
    THEN /\ standing' = IF req'.verb = "health" THEN Now' ELSE {}
         /\ met' = standing' /\ was' = AsAskedNow'
    ELSE /\ standing' = standing \cap Now'
         /\ met' = IF req.verb = "health" THEN met \cup Now' ELSE {}
         /\ was' = (was \/ AsAskedNow')

Session ==
    \/ \E r \in Requests : Call(r)
    \/ ReadFails
    \/ FindJob \/ JobSection \/ Apply
    \/ GcStatus
    \/ NamespaceSteps \/ CreateLevel
    \/ ListGroups \/ PlanPrune \/ PruneEnds
    \/ \E g \in Groups : Preview(g) \/ Prune(g)
    \/ VerifyJobs \/ Datastores \/ Status \/ Gc \/ Report
    \/ \E i \in 1 .. 2 : ReadTask(i)

Next == (Session \/ Meanwhile) /\ Watches

Spec == Init /\ [][Next]_vars
-----------------------------------------------------------------------------
(* Properties *)

\* Every variable has its type, and what a step is to send or look at is there.
TypeOK ==
    /\ jobs \in [Ids -> Configs \cup {NoJob}] /\ digest \in 0 .. MaxCalls + MaxChanges
    /\ lastRun \in [Ids -> RunStates] /\ ds \in StoreStates
    /\ snaps \in [Groups -> SUBSET (1 .. MaxSnaps)] /\ guarded \in [Groups -> SUBSET (1 .. MaxSnaps)]
    /\ levels \in 0 .. Depth
    /\ task \in [there : BOOLEAN, lines : 0 .. MaxLines, stopped : BOOLEAN]
    /\ req \in Requests /\ items \subseteq Groups /\ shown \subseteq Groups
    /\ read \in Configs \cup {NoJob}
    /\ due \subseteq Groups /\ marked \subseteq Groups
    /\ seenTask \in [stopped : BOOLEAN, lines : 0 .. MaxLines, total : 0 .. MaxLines]
    /\ reply \in {"none", "ok", "failed", "plan"}
    /\ calls \in 0 .. MaxCalls /\ changes \in 0 .. MaxChanges /\ was \in BOOLEAN
    /\ pc = "apply" => plan # {} /\ (req.verb = "namespace.create" \/ Cardinality(plan) = 1)

\* A write of a job overwrites the very configuration its step was computed from,
\* whoever has edited the file since: a changed job is refused by its digest, a job
\* that came meanwhile by its name (job_config, update_steps).
OverwritesOnlyWhatItRead ==
    [][pc = "apply" /\ pc' # pc => \A j \in Ids : jobs'[j] # jobs[j] => j = req.id /\ jobs[j] = read]_vars

\* A create, update or ensure that is carried out and succeeds has been true: at some
\* moment of the call the job had every given field and none of the cleared ones, also
\* when nothing was sent, or keys the job did not have were given (mutate_with); and
\* the namespace of a create that succeeds has been there, whoever else created or
\* removed levels of it meanwhile (pbs_namespace_create).
OkMeansAsAsked ==
    reply = "ok" /\ req.verb \in (JobVerbs \ {"job.run"}) \cup {"namespace.create"} => was

\* A health report is true of its time: a problem that stands from the call to the
\* reply is in it, unless the jobs, or the store's status or that of its garbage
\* collection, could not be read and the problem is of what they would have told (of
\* either status, if one of the two could not be read), and what is in it was a problem at some moment of the call,
\* although the parts are read one after another (datastore_health).
HealthIsTrue ==
    reply = "ok" /\ req.verb = "health" =>
        /\ \A x \in standing :
              \/ x \in problems
              \/ Behind(x) /\ problems \cap {"unreadable", "gc unreadable"} # {}
              \/ x \in {"no verify job", "not scheduled", "verify failed"}
                 /\ "jobs unreadable" \in problems
        /\ problems \ {"unreadable", "jobs unreadable", "gc unreadable"} \subseteq met

\* A task that is reported as stopped is reported with all of its log, or with as many
\* lines as were asked for and the number there are (task_detail: status, then log).
StoppedComesWithWholeLog ==
    reply = "ok" /\ req.verb = "task" /\ seenTask.stopped =>
        seenTask.total = task.lines /\ seenTask.lines = Shows(task.lines, req.limit)

\* Snapshots go only in an execute, of a group that a dry run has shown and the
\* operator has passed back, and never a protected one nor one of the newest that the
\* policy of this very call keeps, the backups that have come since the dry run
\* counted (prune, prune_steps; PBS re-applies the rules).
PrunesAsConfirmed ==
    [][\A g \in Groups :
         LET gone == snaps[g] \ snaps'[g]
             open == snaps[g] \ guarded[g]
         IN  gone # {} =>
                /\ req.execute /\ g \in items \cap shown
                /\ gone \cap (guarded[g] \cup NewestOf(open, Keep(req))) = {}]_vars

-----------------------------------------------------------------------------
(* The inductive invariant behind them *)

\* Where a call of each verb can be.
InPlace ==
    \/ pc = "idle"
    \/ req.verb \in {"job.update", "job.ensure"} /\ pc \in {"find", "section", "apply"}
    \/ req.verb \in {"job.create", "job.run"} /\ pc \in {"find", "apply"}
    \/ req.verb = "prune" /\ pc \in {"groups", "preview", "prune"}
    \/ req.verb = "gc.run" /\ pc \in {"gc status", "apply"}
    \/ req.verb = "namespace.create" /\ pc \in {"namespaces", "apply"}
    \/ req.verb = "health" /\ pc \in {"verify jobs", "datastores", "status", "gc", "report"}
    \/ req.verb = "task" /\ pc \in {"status", "log"}

\* A call writes the jobs at most once, so there are no more digests than that.
CountInv == digest <= calls + changes /\ (pc # "idle" => digest < calls + changes)

CallInv == CountInv /\ InPlace /\ (reply = "ok" => pc = "idle")

\* The step to be sent is that of the configuration which was read, and as long as
\* the digest it carries is that of the file, the job is as it was read.
Fits(s) ==
    \/ /\ req.verb \in {"job.create", "job.ensure"} /\ read = NoJob
       /\ s = [call |-> "post", set |-> req.fields, delete |-> {}, digest |-> NoJob]
    \/ /\ req.verb \in {"job.update", "job.ensure"} /\ read \in Configs
       /\ s.call = "put" /\ s.digest \in 0 .. digest
       /\ s.digest = digest => jobs[req.id] = read
       /\ Patched(read, s) = Asked(read, req.fields, req.clear)
    \/ req.verb \in {"job.run", "gc.run"} /\ s.call \in {"run", "gc"}

StepInv == pc = "apply" /\ req.verb # "namespace.create" => \A s \in plan : Fits(s)

\* The levels to be created are the lowest ones, down to the namespace itself.
LevelInv ==
    pc = "apply" /\ req.verb = "namespace.create" =>
        \E k \in 1 .. Depth : plan = k .. Depth

\* What is due was passed back, of what a dry run has shown.
PruneInv ==
    /\ items \subseteq shown
    /\ ~req.execute => items = {}
    /\ pc = "prune" => req.execute /\ due \subseteq items

\* A task that was seen to have stopped has.
TaskInv == task.there /\ (seenTask.stopped => task.stopped)

\* The troubles that a report has looked for when it comes to a part.
OfJobs == {"no verify job", "not scheduled", "verify failed"}
Looked(part) ==
    {x \in Troubles :
        \/ part = "report"
        \/ part \in {"status", "gc"} /\ x \in {"not mounted", "maintenance"} \cup OfJobs
        \/ part = "gc" /\ x \in {"unreadable", "empty", "little free"}}

Unread == {"unreadable", "jobs unreadable", "gc unreadable"}
Reported(x) ==
    \/ x \in problems
    \/ Behind(x) /\ problems \cap {"unreadable", "gc unreadable"} # {}
    \/ x \in OfJobs /\ "jobs unreadable" \in problems

HealthInv ==
    req.verb = "health" /\ pc # "idle" =>
        /\ standing \subseteq Now /\ Now \subseteq met
        /\ problems \ Unread \subseteq met
        /\ \A x \in standing \cap Looked(pc) : Reported(x)
        /\ pc \in {"verify jobs", "datastores"} => problems \subseteq {"jobs unreadable"}
        /\ pc = "datastores" /\ problems = {} =>
              /\ standing \cap OfJobs \subseteq verify_findings(Store, listed)
              /\ verify_findings(Store, listed) \subseteq met

MInv ==
    /\ TypeOK /\ CallInv /\ StepInv /\ LevelInv /\ PruneInv /\ TaskInv /\ HealthInv
    /\ OkMeansAsAsked /\ HealthIsTrue /\ StoppedComesWithWholeLog
=============================================================================
