------------------------- MODULE MaintenanceProofs -------------------------
(***************************************************************************)
(* The safety properties of Maintenance hold for any jobs, keys, groups,   *)
(* levels and requests, and whatever other administrators do meanwhile.    *)
(***************************************************************************)
EXTENDS Maintenance, TLAPS, FiniteSetTheorems, WellFoundedInduction

-----------------------------------------------------------------------------
(* What the steps of a job verb do, for every set of keys and values *)

\* The one step of an update, applied to the very configuration it was computed
\* from, gives what was asked, and touches no other key (update_steps, diff_fields):
\* provided no key is both set and cleared.  (One that is and has the value already
\* would not be set, only cleared.)
THEOREM UpdateGivesWhatWasAsked ==
    ASSUME NEW current \in Configs, NEW fields \in Configs, NEW clear \in SUBSET Keys,
           NEW d, Given(fields) \cap clear = {},
           NEW step \in update_steps(current, fields, clear, d)
    PROVE  Patched(current, step) = Asked(current, fields, clear)
<1> DEFINE diff == diff_fields(current, fields)
           cleared == Present(current, clear)
<1>1. step = Put(diff, fields, cleared, d)
  BY DEF update_steps
<1>2. step.set = [k \in Keys |-> IF k \in diff THEN fields[k] ELSE Unset]
  BY <1>1 DEF Put
<1>3. step.delete = cleared
  BY <1>1 DEF Put
<1>4. ASSUME NEW k \in Keys
      PROVE  Patched(current, step)[k] = Asked(current, fields, clear)[k]
  <2>1. CASE k \in diff
    BY <2>1, <1>2 DEF Patched, Asked, diff_fields, Given
  <2>2. CASE k \notin diff
    BY <2>2, <1>2, <1>3 DEF Patched, Asked, diff_fields, Given, Present
  <2> QED BY <2>1, <2>2
<1>5. Patched(current, step) = [k \in Keys |-> Patched(current, step)[k]]
  BY DEF Patched
<1>6. Asked(current, fields, clear) = [k \in Keys |-> Asked(current, fields, clear)[k]]
  BY DEF Asked
<1> QED BY <1>4, <1>5, <1>6

\* An update sends nothing just when the job already is as asked, so one that was
\* applied and is repeated sends nothing: provided no key is both set and cleared.
\* (For one that is, the repetition clears what the first has set.)
THEOREM UpdateIsIdempotent ==
    ASSUME NEW current \in Configs, NEW fields \in Configs, NEW clear \in SUBSET Keys,
           NEW d, Given(fields) \cap clear = {}
    PROVE  /\ update_steps(current, fields, clear, d) = {}
              <=> current = Asked(current, fields, clear)
           /\ update_steps(Asked(current, fields, clear), fields, clear, d) = {}
<1>1. ASSUME NEW job \in Configs
      PROVE  update_steps(job, fields, clear, d) = {} <=> IsAsAsked(job, fields, clear)
  <2>1. job # NoJob
    BY JobsAssumption DEF Configs
  <2>2. update_steps(job, fields, clear, d) = {}
        <=> diff_fields(job, fields) = {} /\ Present(job, clear) = {}
    BY DEF update_steps
  <2>3. diff_fields(job, fields) = {} <=> \A k \in Keys : fields[k] # Unset => job[k] = fields[k]
    BY DEF diff_fields, Given
  <2>4. Present(job, clear) = {} <=> \A k \in clear : job[k] = Unset
    BY DEF Present
  <2>5. \A k \in clear : fields[k] = Unset
    BY DEF Given
  <2> QED BY <2>1, <2>2, <2>3, <2>4, <2>5 DEF IsAsAsked
<1>2. Asked(current, fields, clear) \in Configs
  BY DEF Asked, Configs
<1>3. Asked(current, fields, clear) # NoJob
  BY <1>2, JobsAssumption DEF Configs
<1>4. IsAsAsked(Asked(current, fields, clear), fields, clear)
  BY <1>3 DEF IsAsAsked, Asked
<1>5. IsAsAsked(current, fields, clear) <=> current = Asked(current, fields, clear)
  <2>1. ASSUME IsAsAsked(current, fields, clear) PROVE current = Asked(current, fields, clear)
    <3>1. current = [k \in Keys |-> current[k]]
      BY DEF Configs
    <3> QED BY <2>1, <3>1 DEF IsAsAsked, Asked
  <2> QED BY <2>1, <1>4
<1> QED BY <1>1, <1>2, <1>4, <1>5

\* Ensure brings a job to the given fields: whatever the job was, the one step it
\* sends, if it sends one, leaves the job as asked, and it sends none only if the
\* job is; and on a job that is as asked it sends none ("an in-sync job is a no-op").
THEOREM EnsureConverges ==
    ASSUME NEW existing \in Configs \cup {NoJob}, NEW fields \in Configs, NEW d
    PROVE  /\ \A step \in ensure_steps(existing, fields, d) :
                 IF existing = NoJob THEN IsAsAsked(step.set, fields, {})
                 ELSE IsAsAsked(Patched(existing, step), fields, {})
           /\ ensure_steps(existing, fields, d) = {} <=> IsAsAsked(existing, fields, {})
<1>1. CASE existing = NoJob
  <2>1. fields # NoJob
    BY JobsAssumption DEF Configs
  <2>2. ensure_steps(existing, fields, d)
        = {[call |-> "post", set |-> fields, delete |-> {}, digest |-> NoJob]}
    BY <1>1 DEF ensure_steps, create_steps
  <2>3. \A step \in ensure_steps(existing, fields, d) : step.set = fields
    BY <2>2
  <2>4. IsAsAsked(fields, fields, {}) /\ ~IsAsAsked(existing, fields, {})
    BY <1>1, <2>1 DEF IsAsAsked
  <2>5. ensure_steps(existing, fields, d) # {}
    BY <2>2
  <2> QED BY <1>1, <2>3, <2>4, <2>5
<1>2. CASE existing # NoJob
  <2>1. existing \in Configs
    BY <1>2
  <2>2. ensure_steps(existing, fields, d) = update_steps(existing, fields, {}, d)
    BY <1>2 DEF ensure_steps
  <2>3. Asked(existing, fields, {}) \in Configs
    BY <2>1 DEF Asked, Configs
  <2>4. IsAsAsked(Asked(existing, fields, {}), fields, {})
    BY <2>3, JobsAssumption DEF IsAsAsked, Asked, Configs
  <2>5. ASSUME NEW step \in update_steps(existing, fields, {}, d)
        PROVE  Patched(existing, step) = Asked(existing, fields, {})
    BY <2>1, <2>5, UpdateGivesWhatWasAsked DEF Given
  <2>6. update_steps(existing, fields, {}, d) = {} <=> existing = Asked(existing, fields, {})
    BY <2>1, UpdateIsIdempotent
  <2>7. IsAsAsked(existing, fields, {}) => existing = Asked(existing, fields, {})
    <3>1. existing = [k \in Keys |-> existing[k]]
      BY <2>1 DEF Configs
    <3> QED BY <3>1 DEF IsAsAsked, Asked
  <2> QED BY <1>2, <2>2, <2>4, <2>5, <2>6, <2>7
<1> QED BY <1>1, <1>2

-----------------------------------------------------------------------------
(* Steps of the whole system *)

Actions ==
    \/ Meanwhile \/ (\E r \in Requests : Call(r)) \/ ReadFails
    \/ FindJob \/ JobSection \/ Apply \/ GcStatus
    \/ NamespaceSteps \/ CreateLevel
    \/ ListGroups \/ PlanPrune \/ PruneEnds
    \/ (\E g \in Groups : Preview(g) \/ Prune(g))
    \/ VerifyJobs \/ Datastores \/ Status \/ Gc \/ Report
    \/ (\E i \in 1 .. 2 : ReadTask(i))

LEMMA NextIsAnAction == Next => Actions /\ Watches
BY DEF Next, Session, Actions

-----------------------------------------------------------------------------
(* Where a call is, and how many digests there are *)

LEMMA CountStep ==
    ASSUME TypeOK, CallInv, Actions
    PROVE  CountInv'
<1>0. digest \in Nat /\ calls \in Nat /\ changes \in Nat
  BY MaintenanceAssumption DEF TypeOK
<1> USE <1>0 DEF CallInv, CountInv, Goes, Ends, pbs
<1>1. CASE Meanwhile
  <2>1. UNCHANGED <<calls, pc>> /\ changes' = changes + 1 /\ digest' \in {digest, digest + 1}
    BY <1>1 DEF Meanwhile, EditJob, JobRan, StoreChanges, BackupArrives, LevelChanges, TaskGoesOn, Change, call
  <2> QED BY <2>1
<1>2. ASSUME NEW r \in Requests, Call(r) PROVE CountInv'
  <2>1. calls' = calls + 1 /\ digest' = digest /\ changes' = changes
    BY <1>2 DEF Call
  <2> QED BY <2>1
<1>3. CASE ReadFails
  <2>1. calls' = calls /\ digest' = digest /\ changes' = changes + 1
    BY <1>3 DEF ReadFails, Change
  <2> QED BY <2>1
<1>4. CASE FindJob
  BY <1>4 DEF FindJob, mutate_with, Decide
<1>5. CASE JobSection
  BY <1>5 DEF JobSection, mutate_with, Decide
<1>6. CASE Apply
  BY <1>6 DEF Apply, Change, Does
<1>7. CASE GcStatus
  BY <1>7 DEF GcStatus, Decide
<1>8. CASE NamespaceSteps
  BY <1>8 DEF NamespaceSteps, Decide
<1>9. CASE CreateLevel
  BY <1>9 DEF CreateLevel, Change
<1>10. CASE ListGroups
  BY <1>10 DEF ListGroups
<1>11. CASE PlanPrune
  BY <1>11 DEF PlanPrune
<1>12. CASE PruneEnds
  BY <1>12 DEF PruneEnds
<1>13. ASSUME NEW g \in Groups, Preview(g) \/ Prune(g) PROVE CountInv'
  <2>1. calls' = calls /\ digest' = digest /\ pc # "idle"
    BY <1>13 DEF Preview, Prune
  <2>2. changes' = changes \/ changes' = changes + 1
    BY <1>13 DEF Preview, Prune, Change
  <2> QED BY <2>1, <2>2
<1>14. CASE VerifyJobs \/ Datastores
  <2>1. calls' = calls /\ digest' = digest /\ pc # "idle" /\ (changes' = changes \/ changes' = changes + 1)
    BY <1>14 DEF VerifyJobs, Datastores, Reads, Change
  <2> QED BY <2>1
<1>15. CASE Status \/ Gc \/ Report
  <2>1. calls' = calls /\ digest' = digest /\ pc # "idle" /\ (changes' = changes \/ changes' = changes + 1)
    BY <1>15 DEF Status, Gc, Report, Reads, Change
  <2> QED BY <2>1
<1>16. ASSUME NEW i \in 1 .. 2, ReadTask(i) PROVE CountInv'
  <2>1. calls' = calls /\ digest' = digest /\ changes' = changes
    BY <1>16 DEF ReadTask
  <2>2. pc # "idle"
    BY <1>16 DEF ReadTask, TaskReads
  <2> QED BY <2>1, <2>2
<1> QED
  BY <1>1, <1>2, <1>3, <1>4, <1>5, <1>6, <1>7, <1>8, <1>9,
     <1>10, <1>11, <1>12, <1>13, <1>14, <1>15, <1>16 DEF Actions

LEMMA FirstSteps ==
    ASSUME NEW r \in Requests
    PROVE  /\ r.verb \in JobVerbs => FirstStep(r) = "find"
           /\ r.verb = "prune" => FirstStep(r) = "groups"
           /\ r.verb = "gc.run" => FirstStep(r) = "gc status"
           /\ r.verb = "namespace.create" => FirstStep(r) = "namespaces"
           /\ r.verb = "health" => FirstStep(r) = "verify jobs"
           /\ r.verb = "task" => FirstStep(r) = "status"
           /\ r.verb \in JobVerbs \cup {"prune", "gc.run", "namespace.create", "health", "task"}
<1>1. CASE r.verb \in JobVerbs
  BY <1>1 DEF FirstStep, JobVerbs
<1>2. CASE r.verb = "prune"
  BY <1>2 DEF FirstStep, JobVerbs
<1>3. CASE r.verb = "gc.run"
  BY <1>3 DEF FirstStep, JobVerbs
<1>4. CASE r.verb = "namespace.create"
  BY <1>4 DEF FirstStep, JobVerbs
<1>5. CASE r.verb = "health"
  BY <1>5 DEF FirstStep, JobVerbs
<1>6. CASE r.verb = "task"
  BY <1>6 DEF FirstStep, JobVerbs, TaskReads
<1>7. r.verb \in Verbs
  BY MaintenanceAssumption DEF Request
<1> QED BY <1>1, <1>2, <1>3, <1>4, <1>5, <1>6, <1>7 DEF JobVerbs, Verbs

LEMMA PlaceStep ==
    ASSUME TypeOK, CallInv, Actions
    PROVE  InPlace' /\ (reply' = "ok" => pc' = "idle")
<1> USE DEF CallInv, InPlace, Goes, Ends, call
<1>1. CASE Meanwhile
  BY <1>1 DEF Meanwhile, EditJob, JobRan, StoreChanges, BackupArrives, LevelChanges, TaskGoesOn
<1>2. ASSUME NEW r \in Requests, Call(r) PROVE InPlace' /\ (reply' = "ok" => pc' = "idle")
  <2>1. req' = r /\ pc' = FirstStep(r) /\ reply' = "none"
    BY <1>2 DEF Call
  <2> QED BY <2>1, FirstSteps DEF JobVerbs
<1>3. CASE ReadFails
  <2>1. pc' = "idle" /\ reply' = "failed"
    BY <1>3 DEF ReadFails
  <2> QED BY <2>1
<1>4. CASE FindJob
  BY <1>4 DEF FindJob, mutate_with, Decide
<1>5. CASE JobSection
  BY <1>5 DEF JobSection, mutate_with, Decide
<1>6. CASE Apply
  BY <1>6 DEF Apply
<1>7. CASE GcStatus
  BY <1>7 DEF GcStatus, Decide
<1>8. CASE NamespaceSteps
  BY <1>8 DEF NamespaceSteps, Decide
<1>9. CASE CreateLevel
  BY <1>9 DEF CreateLevel
<1>10. CASE ListGroups
  BY <1>10 DEF ListGroups
<1>11. CASE PlanPrune
  BY <1>11 DEF PlanPrune
<1>12. CASE PruneEnds
  BY <1>12 DEF PruneEnds
<1>13. ASSUME NEW g \in Groups, Preview(g) \/ Prune(g) PROVE InPlace' /\ (reply' = "ok" => pc' = "idle")
  BY <1>13 DEF Preview, Prune
<1>14. CASE VerifyJobs \/ Datastores
  BY <1>14 DEF VerifyJobs, Datastores, Reads
<1>15. CASE Status \/ Gc \/ Report
  BY <1>15 DEF Status, Gc, Report, Reads
<1>16. ASSUME NEW i \in 1 .. 2, ReadTask(i) PROVE InPlace' /\ (reply' = "ok" => pc' = "idle")
  <2>1. req.verb = "task" /\ req' = req
    BY <1>16 DEF ReadTask
  <2>2. \/ pc' = "log" /\ reply' = reply /\ pc # "idle"
        \/ pc' = "idle"
    BY <1>16 DEF ReadTask, TaskReads
  <2> QED BY <2>1, <2>2
<1> QED
  BY <1>1, <1>2, <1>3, <1>4, <1>5, <1>6, <1>7, <1>8, <1>9,
     <1>10, <1>11, <1>12, <1>13, <1>14, <1>15, <1>16 DEF Actions

-----------------------------------------------------------------------------
(* The steps of the job verbs *)

LEMMA RequestTypes ==
    ASSUME TypeOK
    PROVE  /\ req \in Requests /\ req.verb \in Verbs /\ req.id \in Ids
           /\ req.fields \in Configs /\ req.clear \in SUBSET Keys
           /\ req.verb # "job.update" => req.clear = {}
           /\ Given(req.fields) \cap req.clear = {}
<1>1. req \in Requests
  BY DEF TypeOK
<1> QED BY <1>1, MaintenanceAssumption DEF Request

LEMMA ConfigTypes ==
    ASSUME NEW job \in Configs, NEW fields \in Configs, NEW clear
    PROVE  /\ job # NoJob
           /\ Asked(job, fields, clear) \in Configs
           /\ IsAsAsked(Asked(job, fields, clear), fields, clear)
           /\ IsAsAsked(fields, fields, {})
<1>1. Asked(job, fields, clear) \in Configs
  BY DEF Asked, Configs
<1>2. \A c \in Configs : c # NoJob
  BY JobsAssumption DEF Configs
<1>3. IsAsAsked(Asked(job, fields, clear), fields, clear)
  BY <1>1, <1>2 DEF IsAsAsked, Asked
<1>4. IsAsAsked(fields, fields, {})
  BY <1>2 DEF IsAsAsked
<1> QED BY <1>1, <1>2, <1>3, <1>4

\* What a verb that is not refused plans: nothing, if the job is as asked; else the
\* one step that StepInv describes.
LEMMA StepsAre ==
    ASSUME TypeOK, NEW existing \in Configs \cup {NoJob}, NEW d, req.verb \in JobVerbs,
           ~Refused(req.verb, existing)
    PROVE  LET steps == StepsFor(req, existing, d) IN
           \/ /\ steps = {} /\ req.verb # "job.run"
              /\ IsAsAsked(existing, req.fields, req.clear)
           \/ /\ req.verb \in {"job.create", "job.ensure"} /\ existing = NoJob
              /\ steps = {[call |-> "post", set |-> req.fields, delete |-> {}, digest |-> NoJob]}
           \/ /\ req.verb \in {"job.update", "job.ensure"} /\ existing \in Configs
              /\ \E s : /\ steps = {s} /\ s.call = "put" /\ s.digest = d
                       /\ Patched(existing, s) = Asked(existing, req.fields, req.clear)
           \/ req.verb = "job.run" /\ \E s : steps = {s} /\ s.call = "run"
<1> USE RequestTypes
<1>1. ASSUME existing \in Configs, req.verb \in {"job.update", "job.ensure"},
             StepsFor(req, existing, d) = update_steps(existing, req.fields, req.clear, d)
      PROVE  LET steps == StepsFor(req, existing, d) IN
             \/ steps = {} /\ IsAsAsked(existing, req.fields, req.clear)
             \/ \E s : /\ steps = {s} /\ s.call = "put" /\ s.digest = d
                      /\ Patched(existing, s) = Asked(existing, req.fields, req.clear)
  <2>1. CASE update_steps(existing, req.fields, req.clear, d) = {}
    <3>1. existing = Asked(existing, req.fields, req.clear)
      BY <1>1, <2>1, UpdateIsIdempotent
    <3>2. IsAsAsked(existing, req.fields, req.clear)
      BY <1>1, <3>1, ConfigTypes
    <3> QED BY <1>1, <2>1, <3>2
  <2>2. CASE update_steps(existing, req.fields, req.clear, d) # {}
    <3> DEFINE s == Put(diff_fields(existing, req.fields), req.fields,
                        Present(existing, req.clear), d)
    <3>1. update_steps(existing, req.fields, req.clear, d) = {s}
      BY <2>2 DEF update_steps
    <3>2. s.call = "put" /\ s.digest = d
      BY DEF Put
    <3>3. Patched(existing, s) = Asked(existing, req.fields, req.clear)
      <4>1. s \in update_steps(existing, req.fields, req.clear, d)
        BY <3>1
      <4> HIDE DEF s
      <4> QED BY <1>1, <4>1, UpdateGivesWhatWasAsked
    <3> HIDE DEF s
    <3> QED BY <1>1, <3>1, <3>2, <3>3
  <2> QED BY <2>1, <2>2
<1>2. CASE req.verb = "job.create"
  <2>1. StepsFor(req, existing, d) = create_steps(req.fields)
    BY <1>2 DEF StepsFor
  <2>2. existing = NoJob
    BY <1>2 DEF Refused
  <2> QED BY <1>2, <2>1, <2>2 DEF create_steps
<1>3. CASE req.verb = "job.update"
  <2>1. StepsFor(req, existing, d) = update_steps(existing, req.fields, req.clear, d)
    BY <1>3 DEF StepsFor
  <2>2. existing \in Configs
    BY <1>3 DEF Refused
  <2> QED BY <1>1, <1>3, <2>1, <2>2
<1>4. CASE req.verb = "job.ensure"
  <2>1. StepsFor(req, existing, d) = ensure_steps(existing, req.fields, d)
    BY <1>4 DEF StepsFor
  <2>2. CASE existing = NoJob
    BY <1>4, <2>1, <2>2 DEF ensure_steps, create_steps
  <2>3. CASE existing # NoJob
    <3>1. ensure_steps(existing, req.fields, d) = update_steps(existing, req.fields, req.clear, d)
      BY <1>4, <2>3 DEF ensure_steps
    <3> QED BY <1>1, <1>4, <2>1, <2>3, <3>1
  <2> QED BY <2>2, <2>3
<1>5. CASE req.verb = "job.run"
  <2>1. StepsFor(req, existing, d) = run_steps
    BY <1>5 DEF StepsFor
  <2> DEFINE s == [call |-> "run", set |-> AllUnset, delete |-> {}, digest |-> NoJob]
  <2>2. run_steps = {s} /\ s.call = "run"
    BY DEF run_steps
  <2> HIDE DEF s
  <2> QED BY <1>5, <2>1, <2>2
<1> QED BY <1>2, <1>3, <1>4, <1>5 DEF JobVerbs

LEMMA JobPlans ==
    ASSUME TypeOK, CallInv, FindJob \/ JobSection
    PROVE  /\ UNCHANGED <<jobs, digest, req, calls, changes>>
           /\ req.verb \in JobVerbs /\ read' \in Configs \cup {NoJob}
           /\ \/ pc' = "section" /\ reply' = reply
              \/ pc' = "idle" /\ reply' \in {"failed", "plan"}
              \/ /\ pc' = "idle" /\ reply' = "ok" /\ req.verb # "job.run"
                 /\ IsAsAsked(jobs[req.id], req.fields, req.clear)
              \/ pc' = "apply" /\ reply' = reply /\ \E s : plan' = {s} /\ Fits(s)'
<1>1. UNCHANGED <<jobs, digest, req, calls, changes>>
  BY DEF FindJob, JobSection, pbs
<1>2. req.verb \in JobVerbs
  BY DEF FindJob, JobSection, CallInv, InPlace, JobVerbs
<1>3. jobs[req.id] \in Configs \cup {NoJob} /\ digest \in Nat
  BY RequestTypes, MaintenanceAssumption DEF TypeOK
<1> DEFINE Fitting(d) ==
      d = digest \/ jobs[req.id] = NoJob \/ req.verb \notin {"job.update", "job.ensure"}
<1> DEFINE Mutates == \E d : mutate_with(jobs[req.id], d) /\ Fitting(d)
<1>4. \/ pc' = "section" /\ reply' = reply /\ read' = read
      \/ pc' = "idle" /\ reply' = "failed" /\ read' = read
      \/ Mutates
  <2>1. CASE FindJob
    BY <2>1 DEF FindJob, Goes
  <2>2. CASE JobSection
    BY <2>2 DEF JobSection, Ends
  <2> QED BY <2>1, <2>2
<1>5. ASSUME NEW d, mutate_with(jobs[req.id], d), Fitting(d)
      PROVE  /\ read' \in Configs \cup {NoJob}
             /\ \/ pc' = "idle" /\ reply' \in {"failed", "plan"}
                \/ /\ pc' = "idle" /\ reply' = "ok" /\ req.verb # "job.run"
                   /\ IsAsAsked(jobs[req.id], req.fields, req.clear)
                \/ pc' = "apply" /\ reply' = reply /\ \E s : plan' = {s} /\ Fits(s)'
  <2>1. read' = jobs[req.id]
    BY <1>5 DEF mutate_with
  <2>2. CASE Refused(req.verb, jobs[req.id])
    BY <1>3, <1>5, <2>1, <2>2 DEF mutate_with, Ends
  <2>3. CASE ~Refused(req.verb, jobs[req.id])
    <3> DEFINE steps == StepsFor(req, jobs[req.id], d)
    <3>1. Decide(steps)
      BY <1>5, <2>3 DEF mutate_with
    <3>4. \/ steps = {} /\ req.verb # "job.run" /\ IsAsAsked(jobs[req.id], req.fields, req.clear)
          \/ /\ req.verb \in {"job.create", "job.ensure"} /\ jobs[req.id] = NoJob
             /\ steps = {[call |-> "post", set |-> req.fields, delete |-> {}, digest |-> NoJob]}
          \/ /\ req.verb \in {"job.update", "job.ensure"} /\ jobs[req.id] \in Configs
             /\ \E s : /\ steps = {s} /\ s.call = "put" /\ s.digest = d
                      /\ Patched(jobs[req.id], s) = Asked(jobs[req.id], req.fields, req.clear)
          \/ req.verb = "job.run" /\ \E s : steps = {s} /\ s.call = "run"
      BY <1>2, <1>3, <2>3, StepsAre
    <3> HIDE DEF steps
    <3>2. CASE steps = {}
      <4>1. req.verb # "job.run" /\ IsAsAsked(jobs[req.id], req.fields, req.clear)
        BY <3>2, <3>4
      <4>2. pc' = "idle" /\ (reply' = "plan" \/ reply' = "ok")
        BY <3>1, <3>2 DEF Decide, Ends
      <4> QED BY <1>3, <2>1, <4>1, <4>2
    <3>3. CASE steps # {}
      <4>1. \E s : steps = {s} /\ Fits(s)'
        <5>2. ASSUME req.verb \in {"job.create", "job.ensure"}, jobs[req.id] = NoJob,
                     steps = {[call |-> "post", set |-> req.fields, delete |-> {}, digest |-> NoJob]}
              PROVE  \E s : steps = {s} /\ Fits(s)'
          BY <1>1, <2>1, <5>2 DEF Fits
        <5>3. ASSUME req.verb \in {"job.update", "job.ensure"}, jobs[req.id] \in Configs, NEW s,
                     steps = {s}, s.call = "put", s.digest = d,
                     Patched(jobs[req.id], s) = Asked(jobs[req.id], req.fields, req.clear)
              PROVE  \E x : steps = {x} /\ Fits(x)'
          <6>1. d = digest
            BY <1>5, <5>3, ConfigTypes, RequestTypes
          <6>2. Fits(s)'
            BY <1>1, <1>3, <2>1, <5>3, <6>1 DEF Fits
          <6> QED BY <5>3, <6>2
        <5>4. ASSUME req.verb = "job.run", NEW s, steps = {s}, s.call = "run"
              PROVE  \E x : steps = {x} /\ Fits(x)'
          BY <1>1, <5>4 DEF Fits
        <5> QED BY <3>3, <3>4, <5>2, <5>3, <5>4
      <4>2. \/ pc' = "idle" /\ reply' = "plan"
            \/ pc' = "apply" /\ reply' = reply /\ plan' = steps
        BY <3>1, <3>3 DEF Decide, Ends, Goes
      <4> QED BY <1>3, <2>1, <4>1, <4>2
    <3> QED BY <3>2, <3>3
  <2> QED BY <2>2, <2>3
<1>6. read \in Configs \cup {NoJob}
  BY DEF TypeOK
<1> DEFINE Goal ==
      /\ UNCHANGED <<jobs, digest, req, calls, changes>>
      /\ req.verb \in JobVerbs /\ read' \in Configs \cup {NoJob}
      /\ \/ pc' = "section" /\ reply' = reply
         \/ pc' = "idle" /\ reply' \in {"failed", "plan"}
         \/ /\ pc' = "idle" /\ reply' = "ok" /\ req.verb # "job.run"
            /\ IsAsAsked(jobs[req.id], req.fields, req.clear)
         \/ pc' = "apply" /\ reply' = reply /\ \E s : plan' = {s} /\ Fits(s)'
<1>7. ASSUME pc' = "section", reply' = reply, read' = read PROVE Goal
  BY <1>1, <1>2, <1>6, <1>7
<1>8. ASSUME pc' = "idle", reply' = "failed", read' = read PROVE Goal
  BY <1>1, <1>2, <1>6, <1>8
<1>9. ASSUME Mutates PROVE Goal
  <2>1. PICK d : mutate_with(jobs[req.id], d) /\ Fitting(d)
    BY <1>9
  <2> HIDE DEF Fitting
  <2>2. /\ read' \in Configs \cup {NoJob}
        /\ \/ pc' = "idle" /\ reply' \in {"failed", "plan"}
           \/ /\ pc' = "idle" /\ reply' = "ok" /\ req.verb # "job.run"
              /\ IsAsAsked(jobs[req.id], req.fields, req.clear)
           \/ pc' = "apply" /\ reply' = reply /\ \E s : plan' = {s} /\ Fits(s)'
    BY <1>5, <2>1
  <2> QED BY <1>1, <1>2, <2>2
<1>10. Goal
  <2> HIDE DEF Goal, Mutates
  <2> QED BY <1>4, <1>7, <1>8, <1>9
<1> QED BY <1>10

LEMMA OnlyPlansApply ==
    ASSUME TypeOK, CallInv, Actions, pc' = "apply"
    PROVE  Meanwhile \/ FindJob \/ JobSection \/ GcStatus \/ NamespaceSteps \/ CreateLevel
<1> USE DEF Goes, Ends
<1>1. ASSUME NEW r \in Requests, Call(r) PROVE FALSE
  <2>1. pc' = FirstStep(r)
    BY <1>1 DEF Call
  <2> QED BY <2>1, FirstSteps
<1>2. ~ReadFails
  BY DEF ReadFails
<1>3. ~Apply
  BY DEF Apply
<1>4. ~ListGroups /\ ~PlanPrune /\ ~PruneEnds
  BY DEF ListGroups, PlanPrune, PruneEnds
<1>5. ASSUME NEW g \in Groups, Preview(g) \/ Prune(g) PROVE FALSE
  BY <1>5 DEF Preview, Prune
<1>6. ~VerifyJobs /\ ~Datastores /\ ~Status /\ ~Gc /\ ~Report
  BY DEF VerifyJobs, Datastores, Status, Gc, Report, Reads
<1>7. ASSUME NEW i \in 1 .. 2, ReadTask(i) PROVE FALSE
  BY <1>7 DEF ReadTask, TaskReads
<1> QED BY <1>1, <1>2, <1>3, <1>4, <1>5, <1>6, <1>7 DEF Actions

LEMMA StepStep ==
    ASSUME TypeOK, CallInv, StepInv, Actions
    PROVE  StepInv'
<1> SUFFICES ASSUME pc' = "apply", req'.verb # "namespace.create", NEW s \in plan' PROVE Fits(s)'
  BY DEF StepInv
<1>1. CASE Meanwhile
  <2>1. UNCHANGED <<pc, req, plan, read>>
    BY <1>1 DEF Meanwhile, call
  <2>2. Fits(s)
    BY <2>1 DEF StepInv
  <2>3. (digest' = digest /\ jobs' = jobs) \/ digest' = digest + 1
    BY <1>1 DEF Meanwhile, EditJob, JobRan, StoreChanges, BackupArrives, LevelChanges, TaskGoesOn
  <2>4. digest \in Nat
    BY MaintenanceAssumption DEF TypeOK
  <2>5. CASE digest' = digest /\ jobs' = jobs
    BY <2>1, <2>2, <2>5 DEF Fits
  <2>6. CASE digest' = digest + 1
    <3>1. s.digest \in 0 .. digest => s.digest \in 0 .. digest' /\ s.digest # digest'
      BY <2>4, <2>6
    <3> QED BY <2>1, <2>2, <3>1 DEF Fits
  <2> QED BY <2>3, <2>5, <2>6
<1>2. CASE FindJob \/ JobSection
  BY <1>2, JobPlans
<1>3. CASE GcStatus
  <2> DEFINE step == [call |-> "gc", set |-> AllUnset, delete |-> {}, digest |-> NoJob]
  <2>1. plan' = {step} /\ req' = req /\ req.verb = "gc.run"
    BY <1>3 DEF GcStatus, Decide, CallInv, InPlace
  <2>2. step.call = "gc"
    OBVIOUS
  <2> HIDE DEF step
  <2>3. s = step
    BY <2>1
  <2> QED BY <2>1, <2>2, <2>3 DEF Fits
<1>4. CASE NamespaceSteps \/ CreateLevel
  BY <1>4 DEF NamespaceSteps, CreateLevel, CallInv, InPlace
<1> QED BY <1>1, <1>2, <1>3, <1>4, OnlyPlansApply

\* What PBS makes of a step it accepts.
LEMMA Effect ==
    ASSUME TypeOK, StepInv, pc = "apply", req.verb # "namespace.create", NEW s \in plan,
           Accepts(s), Does(s)
    PROVE  /\ jobs[req.id] = read \/ jobs' = jobs
           /\ \/ jobs' = jobs /\ digest' = digest
                 /\ req.verb \in {"job.run", "gc.run"}
              \/ digest' = digest + 1 /\ \E job \in Configs :
                    jobs' = [jobs EXCEPT ![req.id] = job]
                    /\ IsAsAsked(job, req.fields, req.clear)
<1> USE RequestTypes, ConfigTypes
<1>1. Fits(s)
  BY DEF StepInv
<1>2. CASE /\ req.verb \in {"job.create", "job.ensure"} /\ read = NoJob
           /\ s = [call |-> "post", set |-> req.fields, delete |-> {}, digest |-> NoJob]
  <2>1. s.call = "post" /\ s.set = req.fields
    BY <1>2
  <2>2. jobs[req.id] = NoJob
    BY <2>1 DEF Accepts
  <2>3. jobs' = [jobs EXCEPT ![req.id] = req.fields] /\ digest' = digest + 1
    BY <2>1 DEF Does
  <2>4. req.clear = {}
    BY <1>2, RequestTypes
  <2>5. IsAsAsked(req.fields, req.fields, req.clear)
    <3>1. IsAsAsked(req.fields, req.fields, {})
      BY RequestTypes, ConfigTypes
    <3> QED BY <2>4, <3>1
  <2> QED BY <1>2, <2>2, <2>3, <2>5
<1>3. CASE /\ req.verb \in {"job.update", "job.ensure"} /\ read \in Configs
           /\ s.call = "put" /\ s.digest \in 0 .. digest
           /\ (s.digest = digest => jobs[req.id] = read)
           /\ Patched(read, s) = Asked(read, req.fields, req.clear)
  <2>1. s.digest \in {digest, NoJob}
    BY <1>3 DEF Accepts
  <2>2. s.digest # NoJob
    <3>1. s.digest \in Nat
      BY <1>3, MaintenanceAssumption DEF TypeOK
    <3> QED BY <3>1, MaintenanceAssumption
  <2>3. jobs[req.id] = read
    BY <1>3, <2>1, <2>2
  <2>4. jobs' = [jobs EXCEPT ![req.id] = Patched(jobs[req.id], s)] /\ digest' = digest + 1
    BY <1>3 DEF Does
  <2>5. jobs' = [jobs EXCEPT ![req.id] = Asked(read, req.fields, req.clear)]
    BY <1>3, <2>3, <2>4
  <2>6. Asked(read, req.fields, req.clear) \in Configs
        /\ IsAsAsked(Asked(read, req.fields, req.clear), req.fields, req.clear)
    BY <1>3
  <2> QED BY <2>3, <2>4, <2>5, <2>6
<1>4. CASE req.verb \in {"job.run", "gc.run"} /\ s.call \in {"run", "gc"}
  <2>1. jobs' = jobs /\ digest' = digest
    <3>1. s.call # "post" /\ s.call # "put" /\ s.call \notin {"post", "put"}
      BY <1>4
    <3>2. digest' = digest
      BY <3>1 DEF Does
    <3>3. jobs' = jobs
      BY <3>1 DEF Does
    <3> QED BY <3>2, <3>3
  <2> QED BY <1>4, <2>1
<1> QED BY <1>1, <1>2, <1>3, <1>4 DEF Fits

\* All that can change a job.
LEMMA JobsFrame ==
    ASSUME TypeOK, Actions
    PROVE  \/ jobs' = jobs
           \/ Meanwhile
           \/ Apply
<1>1. ASSUME NEW r \in Requests, Call(r) PROVE jobs' = jobs
  BY <1>1 DEF Call, pbs
<1>2. ReadFails \/ FindJob \/ JobSection \/ GcStatus \/ NamespaceSteps => jobs' = jobs
  BY DEF ReadFails, FindJob, JobSection, GcStatus, NamespaceSteps, pbs
<1>3. CreateLevel \/ ListGroups \/ PlanPrune \/ PruneEnds => jobs' = jobs
  BY DEF CreateLevel, ListGroups, PlanPrune, PruneEnds, pbs
<1>4. ASSUME NEW g \in Groups, Preview(g) \/ Prune(g) PROVE jobs' = jobs
  BY <1>4 DEF Preview, Prune
<1>5. VerifyJobs \/ Datastores \/ Status \/ Gc \/ Report => jobs' = jobs
  BY DEF VerifyJobs, Datastores, Status, Gc, Report, Reads, pbs
<1>6. ASSUME NEW i \in 1 .. 2, ReadTask(i) PROVE jobs' = jobs
  BY <1>6 DEF ReadTask, pbs
<1> QED BY <1>1, <1>2, <1>3, <1>4, <1>5, <1>6 DEF Actions

LEMMA OverwriteStep ==
    ASSUME TypeOK, CallInv, StepInv, Actions, pc = "apply", pc' # pc,
           NEW j \in Ids, jobs'[j] # jobs[j]
    PROVE  j = req.id /\ jobs[j] = read
<1>1. ~Meanwhile
  BY DEF Meanwhile, call
<1>2. Apply
  BY <1>1, JobsFrame
<1>3. PICK s \in plan : Accepts(s) /\ Does(s)
  <2>1. jobs' # jobs
    OBVIOUS
  <2> QED BY <1>2, <2>1 DEF Apply, pbs
<1>4. req.verb # "namespace.create"
  BY <1>2 DEF Apply
<1>5. /\ jobs[req.id] = read
      /\ \E job \in Configs : jobs' = [jobs EXCEPT ![req.id] = job]
  BY <1>3, <1>4, Effect
<1> QED BY <1>5 DEF TypeOK

-----------------------------------------------------------------------------
(* The levels of a namespace *)

LEMMA LevelStep ==
    ASSUME TypeOK, CallInv, LevelInv, Actions
    PROVE  LevelInv'
<1> USE MaintenanceAssumption
<1> SUFFICES ASSUME pc' = "apply", req'.verb = "namespace.create"
             PROVE  \E k \in 1 .. Depth : plan' = k .. Depth
  BY DEF LevelInv
<1>1. CASE Meanwhile
  BY <1>1 DEF Meanwhile, call, LevelInv
<1>2. ~FindJob /\ ~JobSection
  BY JobPlans DEF JobVerbs
<1>3. ~GcStatus
  BY DEF GcStatus, CallInv, InPlace
<1>4. CASE NamespaceSteps
  <2>1. plan' = {k \in 1 .. Depth : k > levels} /\ plan' # {}
    BY <1>4 DEF NamespaceSteps, Decide, missing_namespace_chain, Ends
  <2>2. levels \in 0 .. Depth
    BY DEF TypeOK
  <2>3. levels + 1 \in 1 .. Depth /\ plan' = levels + 1 .. Depth
    BY <2>1, <2>2
  <2> QED BY <2>3
<1>5. CASE CreateLevel
  <2>1. PICK k \in plan : (\A l \in plan : k <= l) /\ plan' = plan \ {k} /\ plan' # {}
    BY <1>5 DEF CreateLevel, Ends
  <2>2. PICK m \in 1 .. Depth : plan = m .. Depth
    BY <1>5 DEF CreateLevel, LevelInv
  <2>3. k = m
    BY <2>1, <2>2
  <2>4. m + 1 \in 1 .. Depth /\ plan' = m + 1 .. Depth
    BY <2>1, <2>2, <2>3
  <2> QED BY <2>4
<1> QED BY <1>1, <1>2, <1>3, <1>4, <1>5, OnlyPlansApply

-----------------------------------------------------------------------------
(* A job or a namespace that was to be brought about has been *)

LEMMA OkStep ==
    ASSUME TypeOK, CallInv, StepInv, LevelInv, OkMeansAsAsked, Actions, Watches, CallInv'
    PROVE  OkMeansAsAsked'
<1> USE DEF CallInv
<1> SUFFICES ASSUME reply' = "ok",
                    req'.verb \in (JobVerbs \ {"job.run"}) \cup {"namespace.create"}
             PROVE  was'
  BY DEF OkMeansAsAsked
<1>0. pc' = "idle"
  OBVIOUS
<1>1. CASE Meanwhile
  <2>1. UNCHANGED <<pc, req, reply>>
    BY <1>1 DEF Meanwhile, call
  <2>2. was' = was
    BY <1>0, <2>1 DEF Watches, watch
  <2> QED BY <2>1, <2>2 DEF OkMeansAsAsked
<1>2. CASE ~Meanwhile
  <2>1. pc # "idle" /\ req' = req
    <3>1. ASSUME NEW r \in Requests, Call(r) PROVE FALSE
      BY <3>1 DEF Call
    <3>2. ReadFails \/ GcStatus \/ NamespaceSteps => pc # "idle" /\ req' = req
      BY DEF ReadFails, GcStatus, NamespaceSteps
    <3>3. FindJob \/ JobSection \/ Apply => pc # "idle" /\ req' = req
      BY DEF FindJob, JobSection, Apply
    <3>4. CreateLevel \/ ListGroups \/ PlanPrune \/ PruneEnds => pc # "idle" /\ req' = req
      BY DEF CreateLevel, ListGroups, PlanPrune, PruneEnds
    <3>5. ASSUME NEW g \in Groups, Preview(g) \/ Prune(g) PROVE pc # "idle" /\ req' = req
      BY <3>5 DEF Preview, Prune
    <3>6. VerifyJobs \/ Datastores \/ Status \/ Gc \/ Report => pc # "idle" /\ req' = req
      BY DEF VerifyJobs, Datastores, Status, Gc, Report, Reads
    <3>7. ASSUME NEW i \in 1 .. 2, ReadTask(i) PROVE pc # "idle" /\ req' = req
      BY <3>7 DEF ReadTask, TaskReads
    <3> QED BY <1>2, <3>1, <3>2, <3>3, <3>4, <3>5, <3>6, <3>7 DEF Actions
  <2>2. AsAskedNow' => was'
    BY <2>1 DEF Watches
  <2>3. ASSUME req.verb \in JobVerbs \ {"job.run"}
        PROVE  IsAsAsked(jobs[req.id], req.fields, req.clear)'
    <3>1. CASE FindJob \/ JobSection
      BY <1>0, <2>1, <3>1, JobPlans
    <3>2. CASE Apply
      <4>1. PICK s \in plan : Accepts(s) /\ Does(s)
        BY <3>2 DEF Apply, Ends
      <4>2. PICK job \in Configs : jobs' = [jobs EXCEPT ![req.id] = job]
                                 /\ IsAsAsked(job, req.fields, req.clear)
        BY <2>3, <3>2, <4>1, Effect DEF Apply, JobVerbs
      <4>3. jobs'[req.id] = job
        BY <4>2, RequestTypes DEF TypeOK
      <4> QED BY <2>1, <4>2, <4>3
    <3> USE DEF JobVerbs, InPlace
    <3>3. ~ReadFails /\ ~GcStatus /\ ~NamespaceSteps /\ ~CreateLevel
      BY <2>3 DEF ReadFails, GcStatus, NamespaceSteps, CreateLevel, Ends
    <3>4. ~ListGroups /\ ~PlanPrune /\ ~PruneEnds
      BY <2>3 DEF ListGroups, PlanPrune, PruneEnds
    <3>5. ASSUME NEW g \in Groups, Preview(g) \/ Prune(g) PROVE FALSE
      BY <2>3, <3>5 DEF Preview, Prune
    <3>6. ~VerifyJobs /\ ~Datastores /\ ~Status /\ ~Gc /\ ~Report
      BY <2>3 DEF VerifyJobs, Datastores, Status, Gc, Report
    <3>7. ASSUME NEW i \in 1 .. 2, ReadTask(i) PROVE FALSE
      BY <2>3, <3>7 DEF ReadTask
    <3>8. ASSUME NEW r \in Requests, Call(r) PROVE FALSE
      BY <3>8 DEF Call
    <3> QED BY <1>2, <3>1, <3>2, <3>3, <3>4, <3>5, <3>6, <3>7, <3>8 DEF Actions
  <2>4. ASSUME req.verb = "namespace.create"
        PROVE  levels' = Depth
    <3> USE MaintenanceAssumption
    <3>1. CASE NamespaceSteps
      <4>1. {k \in 1 .. Depth : k > levels} = {} /\ levels' = levels
        BY <1>0, <3>1 DEF NamespaceSteps, Decide, missing_namespace_chain, Ends, Goes, pbs
      <4>2. levels \in 0 .. Depth
        BY DEF TypeOK
      <4>3. levels < Depth => Depth \in {k \in 1 .. Depth : k > levels}
        BY <4>2
      <4> QED BY <4>1, <4>2, <4>3
    <3>2. CASE CreateLevel
      <4>1. PICK k \in plan : /\ \A l \in plan : k <= l
                            /\ plan' = plan \ {k}
                            /\ levels' = k /\ plan' = {}
        BY <1>0, <2>1, <3>2 DEF CreateLevel, Ends
      <4>2. PICK m \in 1 .. Depth : plan = m .. Depth
        BY <2>4, <3>2 DEF CreateLevel, LevelInv
      <4>3. Depth \in plan
        BY <4>2
      <4>4. k = Depth
        BY <4>1, <4>3
      <4> QED BY <4>1, <4>4
    <3> USE DEF InPlace
    <3>3. ~ReadFails /\ ~GcStatus /\ ~FindJob /\ ~JobSection
      BY <2>4 DEF ReadFails, GcStatus, FindJob, JobSection, Ends
    <3>4. ~Apply /\ ~ListGroups /\ ~PlanPrune /\ ~PruneEnds
      BY <2>4 DEF Apply, ListGroups, PlanPrune, PruneEnds
    <3>5. ASSUME NEW g \in Groups, Preview(g) \/ Prune(g) PROVE FALSE
      BY <2>4, <3>5 DEF Preview, Prune
    <3>6. ~VerifyJobs /\ ~Datastores /\ ~Status /\ ~Gc /\ ~Report
      BY <2>4 DEF VerifyJobs, Datastores, Status, Gc, Report
    <3>7. ASSUME NEW i \in 1 .. 2, ReadTask(i) PROVE FALSE
      BY <2>4, <3>7 DEF ReadTask
    <3>8. ASSUME NEW r \in Requests, Call(r) PROVE FALSE
      BY <3>8 DEF Call
    <3> QED BY <1>2, <3>1, <3>2, <3>3, <3>4, <3>5, <3>6, <3>7, <3>8 DEF Actions
  <2>5. AsAskedNow'
    BY <2>1, <2>3, <2>4 DEF AsAskedNow, JobVerbs
  <2> QED BY <2>2, <2>5
<1> QED BY <1>1, <1>2

-----------------------------------------------------------------------------
(* Prunes *)

LEMMA PruneStep ==
    ASSUME TypeOK, CallInv, PruneInv, Actions
    PROVE  PruneInv'
<1> USE DEF PruneInv, Goes, Ends
<1>1. CASE Meanwhile
  BY <1>1 DEF Meanwhile, call
<1>2. ASSUME NEW r \in Requests, Call(r) PROVE PruneInv'
  <2>1. req' = r /\ shown' = shown /\ pc' = FirstStep(r)
        /\ items' \in (IF r.verb = "prune" /\ r.execute THEN SUBSET shown ELSE {{}})
    BY <1>2 DEF Call
  <2> QED BY <2>1, FirstSteps DEF JobVerbs
<1>3. CASE ReadFails \/ FindJob \/ JobSection
  <2>1. UNCHANGED <<items, shown, req>> /\ pc' # "prune"
    <3>1. CASE ReadFails
      BY <3>1 DEF ReadFails
    <3>2. CASE FindJob \/ JobSection
      BY <3>2, JobPlans DEF FindJob, JobSection
    <3> QED BY <1>3, <3>1, <3>2
  <2> QED BY <2>1
<1>4. CASE Apply \/ GcStatus \/ NamespaceSteps \/ CreateLevel
  <2>1. UNCHANGED <<items, shown, req>> /\ pc' # "prune"
    BY <1>4 DEF Apply, GcStatus, NamespaceSteps, CreateLevel, Decide
  <2> QED BY <2>1
<1>5. CASE ListGroups \/ PruneEnds
  BY <1>5 DEF ListGroups, PruneEnds
<1>6. CASE PlanPrune
  BY <1>6 DEF PlanPrune
<1>7. ASSUME NEW g \in Groups, Preview(g) \/ Prune(g) PROVE PruneInv'
  <2>1. UNCHANGED <<items, shown, req>> /\ (pc' = "prune" => pc = "prune" /\ due' \subseteq due)
    BY <1>7 DEF Preview, Prune
  <2> QED BY <2>1
<1>8. CASE VerifyJobs \/ Datastores \/ Status \/ Gc \/ Report
  <2>1. UNCHANGED <<items, shown, req>> /\ pc' # "prune"
    BY <1>8 DEF VerifyJobs, Datastores, Status, Gc, Report, Reads
  <2> QED BY <2>1
<1>9. ASSUME NEW i \in 1 .. 2, ReadTask(i) PROVE PruneInv'
  <2>1. UNCHANGED <<items, shown, req>> /\ pc' # "prune"
    BY <1>9 DEF ReadTask, TaskReads
  <2> QED BY <2>1
<1> QED BY <1>1, <1>2, <1>3, <1>4, <1>5, <1>6, <1>7, <1>8, <1>9 DEF Actions

LEMMA LosesAsConfirmed ==
    ASSUME TypeOK, PruneInv, Actions, NEW g \in Groups, snaps[g] \ snaps'[g] # {}
    PROVE  /\ req.execute /\ g \in items \cap shown
           /\ (snaps[g] \ snaps'[g])
                 \cap (guarded[g] \cup NewestOf(snaps[g] \ guarded[g], Keep(req))) = {}
<1>0. snaps' # snaps
  OBVIOUS
<1>1. ~Meanwhile
  <2>1. ASSUME NEW h \in Groups, BackupArrives(h) PROVE snaps[g] \subseteq snaps'[g]
    BY <2>1 DEF BackupArrives, TypeOK
  <2>2. ASSUME NEW j \in Ids, EditJob(j) \/ JobRan(j) PROVE snaps' = snaps
    BY <2>2 DEF EditJob, JobRan
  <2>3. StoreChanges \/ LevelChanges \/ TaskGoesOn => snaps' = snaps
    BY DEF StoreChanges, LevelChanges, TaskGoesOn
  <2> QED BY <1>0, <2>1, <2>2, <2>3 DEF Meanwhile
<1>2. ~ReadFails /\ ~FindJob /\ ~JobSection /\ ~GcStatus /\ ~NamespaceSteps
  BY <1>0 DEF ReadFails, FindJob, JobSection, GcStatus, NamespaceSteps, pbs
<1>3. ~Apply
  BY <1>0 DEF Apply, Does, pbs
<1>4. ~CreateLevel /\ ~ListGroups /\ ~PlanPrune /\ ~PruneEnds
  BY <1>0 DEF CreateLevel, ListGroups, PlanPrune, PruneEnds, pbs
<1>5. ~VerifyJobs /\ ~Datastores /\ ~Status /\ ~Gc /\ ~Report
  BY <1>0 DEF VerifyJobs, Datastores, Status, Gc, Report, Reads, pbs
<1>6. ASSUME NEW r \in Requests, Call(r) PROVE FALSE
  BY <1>0, <1>6 DEF Call, pbs
<1>7. ASSUME NEW i \in 1 .. 2, ReadTask(i) PROVE FALSE
  BY <1>0, <1>7 DEF ReadTask, pbs
<1>8. ASSUME NEW h \in Groups, Preview(h) PROVE FALSE
  BY <1>0, <1>8 DEF Preview, PbsPrune, prune_body
<1>9. PICK h \in Groups : Prune(h)
  BY <1>1, <1>2, <1>3, <1>4, <1>5, <1>6, <1>7, <1>8 DEF Actions
<1>10. snaps' = [snaps EXCEPT ![h] = @ \ Doomed(h, Keep(req))]
  BY <1>0, <1>9 DEF Prune, PbsPrune, prune_body
<1>11. g = h /\ snaps[g] \ snaps'[g] \subseteq Doomed(g, Keep(req))
  BY <1>10 DEF TypeOK
<1>12. g \in due /\ pc = "prune"
  BY <1>9, <1>11 DEF Prune
<1>13. req.execute /\ g \in items \cap shown
  BY <1>12 DEF PruneInv
<1>14. Doomed(g, Keep(req)) \cap (guarded[g] \cup NewestOf(snaps[g] \ guarded[g], Keep(req))) = {}
  BY DEF Doomed
<1> QED BY <1>11, <1>13, <1>14

-----------------------------------------------------------------------------
(* Tasks *)

LEMMA TaskStep ==
    ASSUME TypeOK, CallInv, TaskInv, StoppedComesWithWholeLog, Actions, CallInv'
    PROVE  TaskInv' /\ StoppedComesWithWholeLog'
<1> USE DEF TaskInv, StoppedComesWithWholeLog
<1>1. CASE Meanwhile
  <2>1. UNCHANGED <<req, reply, seenTask>>
    BY <1>1 DEF Meanwhile, call
  <2>2. task' = task \/ (~task.stopped /\ task'.there)
    <3>1. ASSUME NEW j \in Ids, EditJob(j) \/ JobRan(j) PROVE task' = task
      BY <3>1 DEF EditJob, JobRan
    <3>2. ASSUME NEW g \in Groups, BackupArrives(g) PROVE task' = task
      BY <3>2 DEF BackupArrives
    <3>3. StoreChanges \/ LevelChanges => task' = task
      BY DEF StoreChanges, LevelChanges
    <3>4. TaskGoesOn => ~task.stopped /\ task'.there
      BY DEF TaskGoesOn, TypeOK
    <3> QED BY <1>1, <3>1, <3>2, <3>3, <3>4 DEF Meanwhile
  <2>3. CASE task' = task
    BY <2>1, <2>3 DEF Shows
  <2>4. CASE ~task.stopped /\ task'.there
    BY <2>1, <2>4
  <2> QED BY <2>2, <2>3, <2>4
<1>2. CASE \E i \in 1 .. 2 : ReadTask(i)
  <2>1. PICK i \in 1 .. 2 : ReadTask(i)
    BY <1>2
  <2>2. UNCHANGED <<task, req>>
    BY <2>1 DEF ReadTask, pbs
  <2>3. CASE i = 1
    <3>1. pc = "status" /\ pc' = "log"
      BY <2>1, <2>3 DEF ReadTask, TaskReads, Goes
    <3>2. seenTask' = [seenTask EXCEPT !.stopped = task.stopped]
      BY <2>1, <3>1 DEF ReadTask
    <3>3. seenTask'.stopped = task.stopped /\ reply' # "ok"
      BY <3>1, <3>2 DEF TypeOK, CallInv
    <3> QED BY <2>2, <3>3
  <2>4. CASE i = 2
    <3>1. pc = "log"
      BY <2>1, <2>4 DEF ReadTask, TaskReads
    <3>2. seenTask' = [seenTask EXCEPT !.lines = Shows(task.lines, req.limit), !.total = task.lines]
      BY <2>1, <3>1 DEF ReadTask
    <3>3. seenTask'.stopped = seenTask.stopped /\ seenTask'.total = task.lines
          /\ seenTask'.lines = Shows(task.lines, req.limit)
      BY <3>2 DEF TypeOK
    <3> QED BY <2>2, <3>3 DEF Shows
  <2> QED BY <2>3, <2>4
<1>3. ASSUME NEW r \in Requests, Call(r) PROVE TaskInv' /\ StoppedComesWithWholeLog'
  BY <1>3 DEF Call, pbs, NotSeen
<1>4. ASSUME UNCHANGED <<task, seenTask, req>>, reply' = "ok" => req.verb # "task"
      PROVE  TaskInv' /\ StoppedComesWithWholeLog'
  BY <1>4
<1>5. CASE ReadFails \/ FindJob \/ JobSection \/ GcStatus \/ NamespaceSteps
  <2>1. UNCHANGED <<task, seenTask, req>>
    BY <1>5 DEF ReadFails, FindJob, JobSection, GcStatus, NamespaceSteps, pbs
  <2>2. reply' = "ok" => req.verb # "task"
    BY <1>5 DEF ReadFails, FindJob, JobSection, GcStatus, NamespaceSteps, Ends, CallInv, InPlace
  <2> QED BY <1>4, <2>1, <2>2
<1>6. CASE Apply \/ CreateLevel
  <2>1. UNCHANGED <<task, seenTask, req>>
    BY <1>6 DEF Apply, CreateLevel, Does, pbs
  <2>2. req.verb # "task"
    BY <1>6 DEF Apply, CreateLevel, CallInv, InPlace
  <2> QED BY <1>4, <2>1, <2>2
<1>7. CASE ListGroups \/ PlanPrune \/ PruneEnds
  <2>1. UNCHANGED <<task, seenTask, req>>
    BY <1>7 DEF ListGroups, PlanPrune, PruneEnds, pbs
  <2>2. req.verb # "task"
    BY <1>7 DEF ListGroups, PlanPrune, PruneEnds, CallInv, InPlace
  <2> QED BY <1>4, <2>1, <2>2
<1>8. ASSUME NEW g \in Groups, Preview(g) \/ Prune(g) PROVE TaskInv' /\ StoppedComesWithWholeLog'
  <2>1. UNCHANGED <<task, seenTask, req>>
    BY <1>8 DEF Preview, Prune
  <2>2. req.verb # "task"
    BY <1>8 DEF Preview, Prune, CallInv, InPlace
  <2> QED BY <1>4, <2>1, <2>2
<1>9. CASE VerifyJobs \/ Datastores \/ Status \/ Gc \/ Report
  <2>1. UNCHANGED <<task, seenTask, req>>
    BY <1>9 DEF VerifyJobs, Datastores, Status, Gc, Report, Reads, pbs
  <2>2. req.verb # "task"
    BY <1>9 DEF VerifyJobs, Datastores, Status, Gc, Report, CallInv, InPlace
  <2> QED BY <1>4, <2>1, <2>2
<1> QED BY <1>1, <1>2, <1>3, <1>5, <1>6, <1>7, <1>8, <1>9 DEF Actions

-----------------------------------------------------------------------------
(* Types *)

PbsTypes ==
    /\ jobs \in [Ids -> Configs \cup {NoJob}] /\ digest \in Nat
    /\ lastRun \in [Ids -> RunStates] /\ ds \in StoreStates
    /\ snaps \in [Groups -> SUBSET (1 .. MaxSnaps)] /\ guarded \in [Groups -> SUBSET (1 .. MaxSnaps)]
    /\ levels \in 0 .. Depth
    /\ task \in [there : BOOLEAN, lines : 0 .. MaxLines, stopped : BOOLEAN]

LEMMA MovesType ==
    ASSUME ds \in StoreStates, StoreMoves
    PROVE  ds' \in StoreStates
<1>1. CASE ds' = [ds EXCEPT !.mounted = ~@, !.readable = ~ds.mounted]
  <2>1. ds' = [mounted |-> ~ds.mounted, maintenance |-> ds.maintenance, readable |-> ~ds.mounted,
               total |-> ds.total, avail |-> ds.avail, gc |-> ds.gc, stillBad |-> ds.stillBad]
    BY <1>1, Zenon DEF StoreStates
  <2> QED BY <2>1 DEF StoreStates
<1>2. CASE ds' = [ds EXCEPT !.readable = ~@]
  BY <1>2 DEF StoreStates
<1>3. CASE ds' = [ds EXCEPT !.maintenance = ~@]
  BY <1>3 DEF StoreStates
<1>4. ASSUME NEW t \in {0, 100}, ds' = [ds EXCEPT !.total = t] PROVE ds' \in StoreStates
  BY <1>4 DEF StoreStates
<1>5. ASSUME NEW a \in {MinFree - 1, MinFree}, ds' = [ds EXCEPT !.avail = a] PROVE ds' \in StoreStates
  BY <1>5 DEF StoreStates
<1>6. ASSUME NEW s \in RunStates, NEW b \in BOOLEAN, ds' = [ds EXCEPT !.gc = s, !.stillBad = b]
      PROVE  ds' \in StoreStates
  BY <1>6 DEF StoreStates
<1> QED BY <1>1, <1>2, <1>3, <1>4, <1>5, <1>6 DEF StoreMoves

LEMMA HasNewest ==
    ASSUME NEW S \in SUBSET (1 .. MaxSnaps), S # {}
    PROVE  \E s \in S : \A r \in S : r <= s
<1>0. MaxSnaps \in Nat
  BY MaintenanceAssumption
<1> DEFINE T == {MaxSnaps - s : s \in S}
<1> DEFINE R == OpToRel(<, Nat)
<1>1. T \subseteq Nat /\ T # {}
  <2>1. \A s \in S : s \in Nat /\ s <= MaxSnaps
    BY <1>0
  <2>2. \A s \in S : MaxSnaps - s \in Nat
    BY <1>0, <2>1
  <2> QED BY <2>2
<1>2. \A x, y \in Nat : y < x => <<y, x>> \in R
  BY DEF OpToRel
<1>3. IsWellFoundedOn(R, Nat)
  BY NatLessThanWellFounded
<1> HIDE DEF R
<1>4. PICK x \in T : \A y \in T : ~(<<y, x>> \in R)
  <2> HIDE DEF T
  <2> QED BY <1>1, <1>3, WFMin
<1>5. \A y \in T : x <= y
  <2> HIDE DEF T
  <2>1. \A y \in T : x \in Nat /\ y \in Nat /\ ~(y < x)
    BY <1>1, <1>2, <1>4
  <2> QED BY <2>1
<1>6. PICK s \in S : x = MaxSnaps - s
  BY <1>4
<1>7. ASSUME NEW r \in S PROVE r <= s
  <2>1. MaxSnaps - r \in T
    OBVIOUS
  <2>2. MaxSnaps - s <= MaxSnaps - r
    BY <1>5, <1>6, <2>1
  <2> QED BY <1>0, <2>2
<1> QED BY <1>7

LEMMA PbsTypeStep ==
    ASSUME TypeOK, CallInv, StepInv, LevelInv, Actions
    PROVE  PbsTypes'
<1> USE MaintenanceAssumption
<1>1. PbsTypes
  BY DEF TypeOK, PbsTypes
<1>2. CASE Meanwhile
  <2>1. ASSUME NEW j \in Ids, EditJob(j) PROVE PbsTypes'
    <3>1. PICK c \in (Edits \cup {NoJob}) \ {jobs[j]} : jobs' = [jobs EXCEPT ![j] = c]
      BY <2>1 DEF EditJob
    <3>2. lastRun' \in [Ids -> RunStates] /\ digest' = digest + 1
      BY <1>1, <2>1 DEF EditJob, PbsTypes, RunStates
    <3>3. jobs' \in [Ids -> Configs \cup {NoJob}]
      BY <1>1, <3>1 DEF PbsTypes
    <3> QED BY <1>1, <2>1, <3>2, <3>3 DEF EditJob, PbsTypes
  <2>2. ASSUME NEW j \in Ids, JobRan(j) PROVE PbsTypes'
    BY <1>1, <2>2 DEF JobRan, PbsTypes
  <2>3. CASE StoreChanges
    BY <1>1, <2>3, MovesType DEF StoreChanges, PbsTypes
  <2>4. ASSUME NEW g \in Groups, BackupArrives(g) PROVE PbsTypes'
    <3>1. Newest(g) + 1 \in 1 .. MaxSnaps
      <4>1. snaps[g] \subseteq 1 .. MaxSnaps
        BY <1>1 DEF PbsTypes
      <4>2. Newest(g) < MaxSnaps
        BY <2>4 DEF BackupArrives
      <4>4. CASE \E s \in snaps[g] : \A t \in snaps[g] : t <= s
        <5>1. Newest(g) \in snaps[g]
          BY <4>4 DEF Newest
        <5> QED BY <4>1, <4>2, <5>1
      <4>5. CASE snaps[g] = {}
        BY <4>2, <4>5 DEF Newest
      <4>6. CASE snaps[g] # {}
        <5>1. \E s \in snaps[g] : \A t \in snaps[g] : t <= s
          BY <4>1, <4>6, HasNewest
        <5> QED BY <4>4, <5>1
      <4> QED BY <4>5, <4>6
    <3> QED BY <1>1, <2>4, <3>1 DEF BackupArrives, PbsTypes
  <2>5. CASE LevelChanges
    BY <1>1, <2>5 DEF LevelChanges, PbsTypes
  <2>6. CASE TaskGoesOn
    <3>1. UNCHANGED <<jobs, digest, lastRun, ds, snaps, guarded, levels>>
      BY <2>6 DEF TaskGoesOn
    <3>2. CASE task.lines < MaxLines /\ task' = [task EXCEPT !.lines = @ + 1]
      <4>1. task.lines + 1 \in 0 .. MaxLines
        BY <1>1, <3>2 DEF PbsTypes
      <4> QED BY <1>1, <3>1, <3>2, <4>1 DEF PbsTypes
    <3>3. CASE task' = [task EXCEPT !.stopped = TRUE]
      BY <1>1, <3>1, <3>3 DEF PbsTypes
    <3> QED BY <2>6, <3>2, <3>3 DEF TaskGoesOn
  <2> QED BY <1>2, <2>1, <2>2, <2>3, <2>4, <2>5, <2>6 DEF Meanwhile
<1>3. ASSUME UNCHANGED pbs PROVE PbsTypes'
  BY <1>1, <1>3 DEF pbs, PbsTypes
<1>4. CASE Apply
  <2>1. CASE UNCHANGED pbs
    BY <1>3, <2>1
  <2>2. ASSUME NEW s \in plan, Accepts(s), Does(s) PROVE PbsTypes'
    <3>1. pc = "apply" /\ req.verb # "namespace.create"
      BY <1>4 DEF Apply
    <3>2. jobs' \in [Ids -> Configs \cup {NoJob}] /\ digest' \in Nat
      <4>1. CASE jobs' = jobs /\ digest' = digest
        BY <1>1, <4>1 DEF PbsTypes
      <4>2. ASSUME NEW job \in Configs, jobs' = [jobs EXCEPT ![req.id] = job], digest' = digest + 1
            PROVE  jobs' \in [Ids -> Configs \cup {NoJob}] /\ digest' \in Nat
        <5>1. digest' \in Nat
          BY <1>1, <4>2 DEF PbsTypes
        <5>2. job \in Configs \cup {NoJob} /\ jobs \in [Ids -> Configs \cup {NoJob}]
          BY <1>1 DEF PbsTypes
        <5> QED BY <4>2, <5>1, <5>2
      <4> QED BY <2>2, <3>1, <4>1, <4>2, Effect
    <3>3. task' \in [there : BOOLEAN, lines : 0 .. MaxLines, stopped : BOOLEAN]
      BY <1>1, <2>2 DEF Does, NewTask, PbsTypes
    <3>4. UNCHANGED <<lastRun, ds, snaps, guarded, levels>>
      BY <2>2 DEF Does
    <3> QED BY <1>1, <3>2, <3>3, <3>4 DEF PbsTypes
  <2> QED BY <1>4, <2>1, <2>2 DEF Apply
<1>5. CASE CreateLevel
  <2>1. UNCHANGED <<jobs, digest, lastRun, ds, snaps, guarded, task>>
    BY <1>5 DEF CreateLevel
  <2>2. levels' = levels \/ levels' \in plan
    BY <1>1, <1>5 DEF CreateLevel, PbsTypes
  <2>3. plan \subseteq 1 .. Depth
    BY <1>5 DEF CreateLevel, LevelInv
  <2>4. levels' \in 0 .. Depth
    <3>1. levels \in 0 .. Depth
      BY <1>1 DEF PbsTypes
    <3>2. 1 .. Depth \subseteq 0 .. Depth
      OBVIOUS
    <3> QED BY <2>2, <2>3, <3>1, <3>2
  <2> QED BY <1>1, <2>1, <2>4 DEF PbsTypes
<1>6. CASE ReadFails \/ FindJob \/ JobSection \/ GcStatus \/ NamespaceSteps
  BY <1>3, <1>6 DEF ReadFails, FindJob, JobSection, GcStatus, NamespaceSteps
<1>7. CASE ListGroups \/ PlanPrune \/ PruneEnds
  BY <1>3, <1>7 DEF ListGroups, PlanPrune, PruneEnds
<1>8. ASSUME NEW g \in Groups, Preview(g) \/ Prune(g) PROVE PbsTypes'
  <2>1. UNCHANGED <<jobs, lastRun, ds, guarded, levels, task, digest>>
    BY <1>8 DEF Preview, Prune
  <2>2. snaps' = snaps \/ snaps' = [snaps EXCEPT ![g] = @ \ Doomed(g, Keep(req))]
    BY <1>8 DEF Preview, Prune, PbsPrune, prune_body
  <2>3. snaps \in [Groups -> SUBSET (1 .. MaxSnaps)]
    BY <1>1 DEF PbsTypes
  <2>4. snaps' \in [Groups -> SUBSET (1 .. MaxSnaps)]
    <3>1. snaps[g] \ Doomed(g, Keep(req)) \in SUBSET (1 .. MaxSnaps)
      BY <2>3
    <3>2. CASE snaps' = [snaps EXCEPT ![g] = @ \ Doomed(g, Keep(req))]
      BY <2>3, <3>1, <3>2
    <3> QED BY <2>2, <2>3, <3>2
  <2> QED BY <1>1, <2>1, <2>4 DEF PbsTypes
<1>9. CASE VerifyJobs \/ Datastores \/ Status \/ Gc \/ Report
  BY <1>3, <1>9 DEF VerifyJobs, Datastores, Status, Gc, Report, Reads
<1>10. ASSUME NEW i \in 1 .. 2, ReadTask(i) PROVE PbsTypes'
  BY <1>3, <1>10 DEF ReadTask
<1>11. ASSUME NEW r \in Requests, Call(r) PROVE PbsTypes'
  BY <1>3, <1>11 DEF Call
<1> QED BY <1>2, <1>4, <1>5, <1>6, <1>7, <1>8, <1>9, <1>10, <1>11 DEF Actions

CallTypes ==
    /\ req \in Requests /\ items \subseteq Groups /\ shown \subseteq Groups
    /\ read \in Configs \cup {NoJob}
    /\ due \subseteq Groups /\ marked \subseteq Groups
    /\ seenTask \in [stopped : BOOLEAN, lines : 0 .. MaxLines, total : 0 .. MaxLines]
    /\ reply \in {"none", "ok", "failed", "plan"}

LEMMA CallTypeStep ==
    ASSUME TypeOK, CallInv, Actions
    PROVE  CallTypes'
<1> USE MaintenanceAssumption DEF Goes, Ends
<1>1. CallTypes
  BY DEF TypeOK, CallTypes
<1>2. ASSUME UNCHANGED <<req, items, shown, read, due, marked, seenTask>>,
             reply' \in {reply, "none", "ok", "failed", "plan"}
      PROVE  CallTypes'
  BY <1>1, <1>2 DEF CallTypes
<1>3. CASE Meanwhile
  BY <1>1, <1>3 DEF Meanwhile, call, CallTypes
<1>4. ASSUME NEW r \in Requests, Call(r) PROVE CallTypes'
  <2>1. /\ req' = r /\ shown' = shown /\ items' \subseteq shown
        /\ read' = NoJob /\ due' = {} /\ marked' = {} /\ reply' = "none"
    BY <1>4 DEF Call
  <2>2. seenTask' = NotSeen
    BY <1>4 DEF Call
  <2>3. seenTask' \in [stopped : BOOLEAN, lines : 0 .. MaxLines, total : 0 .. MaxLines]
    BY <2>2 DEF NotSeen
  <2> QED BY <1>1, <2>1, <2>3 DEF CallTypes
<1>5. CASE ReadFails
  BY <1>2, <1>5 DEF ReadFails
<1>6. CASE FindJob \/ JobSection
  <2>1. UNCHANGED <<req, items, shown, due, marked, seenTask>>
    BY <1>6 DEF FindJob, JobSection
  <2>2. read' \in Configs \cup {NoJob} /\ reply' \in {reply, "failed", "plan", "ok"}
    BY <1>6, JobPlans
  <2> QED BY <1>1, <2>1, <2>2 DEF CallTypes
<1>7. CASE GcStatus \/ NamespaceSteps
  <2>1. UNCHANGED <<req, items, shown, read, due, marked, seenTask>>
    BY <1>7 DEF GcStatus, NamespaceSteps
  <2>2. reply' \in {reply, "plan", "ok"}
    BY <1>7 DEF GcStatus, NamespaceSteps, Decide
  <2> QED BY <1>2, <2>1, <2>2
<1>8. CASE Apply \/ CreateLevel
  <2>1. UNCHANGED <<req, items, shown, read, due, marked, seenTask>>
    BY <1>8 DEF Apply, CreateLevel
  <2>2. reply' \in {reply, "failed", "ok"}
    BY <1>8 DEF Apply, CreateLevel
  <2> QED BY <1>2, <2>1, <2>2
<1>9. CASE ListGroups
  BY <1>1, <1>9 DEF ListGroups, CallTypes
<1>10. CASE PlanPrune
  BY <1>1, <1>10 DEF PlanPrune, CallTypes
<1>11. CASE PruneEnds
  BY <1>2, <1>11 DEF PruneEnds
<1>12. ASSUME NEW g \in Groups, Preview(g) PROVE CallTypes'
  BY <1>1, <1>12 DEF Preview, CallTypes
<1>13. ASSUME NEW g \in Groups, Prune(g) PROVE CallTypes'
  <2>1. UNCHANGED <<req, items, shown, read, marked, seenTask>> /\ due' \subseteq due
    BY <1>13 DEF Prune
  <2>2. reply' \in {reply, "failed"}
    BY <1>13 DEF Prune
  <2> QED BY <1>1, <2>1, <2>2 DEF CallTypes
<1>14. CASE VerifyJobs \/ Datastores \/ Status \/ Gc
  <2>1. UNCHANGED <<req, items, shown, read, due, marked, seenTask>> /\ reply' = reply
    BY <1>14 DEF VerifyJobs, Datastores, Status, Gc, Reads
  <2> QED BY <1>2, <2>1
<1>15. CASE Report
  BY <1>2, <1>15 DEF Report
<1>16. ASSUME NEW i \in 1 .. 2, ReadTask(i) PROVE CallTypes'
  <2>1. UNCHANGED <<req, items, shown, read, due, marked>>
    BY <1>16 DEF ReadTask
  <2>2. reply' \in {reply, "ok"}
    BY <1>16 DEF ReadTask
  <2>3. seenTask' \in [stopped : BOOLEAN, lines : 0 .. MaxLines, total : 0 .. MaxLines]
    <3>1. seenTask \in [stopped : BOOLEAN, lines : 0 .. MaxLines, total : 0 .. MaxLines]
      BY DEF TypeOK
    <3>2. task.stopped \in BOOLEAN /\ task.lines \in 0 .. MaxLines
      BY DEF TypeOK
    <3>3. req.limit \in 0 .. MaxLines
      BY DEF TypeOK, Request
    <3>4. Shows(task.lines, req.limit) \in 0 .. MaxLines
      BY <3>2, <3>3 DEF Shows
    <3>5. \/ seenTask' = [seenTask EXCEPT !.stopped = task.stopped]
          \/ seenTask' = [seenTask EXCEPT !.lines = Shows(task.lines, req.limit),
                                          !.total = task.lines]
      BY <1>16 DEF ReadTask
    <3>6. CASE seenTask' = [seenTask EXCEPT !.stopped = task.stopped]
      BY <3>1, <3>2, <3>6
    <3>7. CASE seenTask' = [seenTask EXCEPT !.lines = Shows(task.lines, req.limit),
                                           !.total = task.lines]
      BY <3>1, <3>2, <3>4, <3>7
    <3> QED BY <3>5, <3>6, <3>7
  <2> QED BY <1>1, <2>1, <2>2, <2>3 DEF CallTypes
<1> QED
  BY <1>3, <1>4, <1>5, <1>6, <1>7, <1>8, <1>9, <1>10, <1>11, <1>12, <1>13, <1>14, <1>15, <1>16
  DEF Actions

\* A call that is to send steps has some; the levels of a namespace apart, one.
LEMMA PlanStep ==
    ASSUME TypeOK, CallInv, Actions, pc' = "apply", LevelInv'
    PROVE  plan' # {} /\ (req'.verb = "namespace.create" \/ Cardinality(plan') = 1)
<1>1. CASE Meanwhile
  <2>1. UNCHANGED <<pc, plan, req>>
    BY <1>1 DEF Meanwhile, call
  <2> QED BY <2>1 DEF TypeOK
<1>2. CASE FindJob \/ JobSection
  <2>1. PICK s : plan' = {s}
    BY <1>2, JobPlans
  <2> QED BY <2>1, FS_Singleton
<1>3. CASE GcStatus
  <2>1. \E s : plan' = {s}
    BY <1>3 DEF GcStatus, Decide
  <2> QED BY <2>1, FS_Singleton
<1>4. CASE NamespaceSteps \/ CreateLevel
  <2>1. req'.verb = "namespace.create"
    BY <1>4 DEF NamespaceSteps, CreateLevel, CallInv, InPlace
  <2>2. PICK k \in 1 .. Depth : plan' = k .. Depth
    BY <2>1 DEF LevelInv
  <2>3. k \in k .. Depth
    OBVIOUS
  <2> QED BY <2>1, <2>2, <2>3
<1> QED BY <1>1, <1>2, <1>3, <1>4, OnlyPlansApply

LEMMA CountsStep ==
    ASSUME TypeOK, CallInv, Actions
    PROVE  calls' \in 0 .. MaxCalls /\ changes' \in 0 .. MaxChanges
<1>0. calls \in 0 .. MaxCalls /\ changes \in 0 .. MaxChanges
  BY DEF TypeOK
<1>1. changes' = changes \/ Change
  <2>1. Meanwhile => Change
    BY DEF Meanwhile, EditJob, JobRan, StoreChanges, BackupArrives, LevelChanges, TaskGoesOn
  <2>2. ASSUME NEW r \in Requests, Call(r) PROVE changes' = changes
    BY <2>2 DEF Call
  <2>3. FindJob \/ JobSection \/ GcStatus \/ NamespaceSteps => changes' = changes
    BY DEF FindJob, JobSection, GcStatus, NamespaceSteps
  <2>4. ReadFails \/ Apply \/ CreateLevel => changes' = changes \/ Change
    BY DEF ReadFails, Apply, CreateLevel
  <2>5. ListGroups \/ PlanPrune \/ PruneEnds => changes' = changes
    BY DEF ListGroups, PlanPrune, PruneEnds
  <2>6. ASSUME NEW g \in Groups, Preview(g) \/ Prune(g) PROVE changes' = changes \/ Change
    BY <2>6 DEF Preview, Prune
  <2>7. VerifyJobs \/ Datastores \/ Status \/ Gc \/ Report => changes' = changes \/ Change
    BY DEF VerifyJobs, Datastores, Status, Gc, Report
  <2>8. ASSUME NEW i \in 1 .. 2, ReadTask(i) PROVE changes' = changes
    BY <2>8 DEF ReadTask
  <2> QED BY <2>1, <2>2, <2>3, <2>4, <2>5, <2>6, <2>7, <2>8 DEF Actions
<1> DEFINE Called == calls < MaxCalls /\ calls' = calls + 1
<1>2. calls' = calls \/ Called
  <2>1. Meanwhile => calls' = calls
    BY DEF Meanwhile, call
  <2>2. ASSUME NEW r \in Requests, Call(r) PROVE Called
    BY <2>2 DEF Call
  <2>3. FindJob \/ JobSection \/ GcStatus \/ NamespaceSteps => calls' = calls
    BY DEF FindJob, JobSection, GcStatus, NamespaceSteps
  <2>4. ReadFails \/ Apply \/ CreateLevel => calls' = calls
    BY DEF ReadFails, Apply, CreateLevel
  <2>5. ListGroups \/ PlanPrune \/ PruneEnds => calls' = calls
    BY DEF ListGroups, PlanPrune, PruneEnds
  <2>6. ASSUME NEW g \in Groups, Preview(g) \/ Prune(g) PROVE calls' = calls
    BY <2>6 DEF Preview, Prune
  <2>7. VerifyJobs \/ Datastores \/ Status \/ Gc \/ Report => calls' = calls
    BY DEF VerifyJobs, Datastores, Status, Gc, Report, Reads
  <2>8. ASSUME NEW i \in 1 .. 2, ReadTask(i) PROVE calls' = calls
    BY <2>8 DEF ReadTask
  <2> HIDE DEF Called
  <2> QED BY <2>1, <2>2, <2>3, <2>4, <2>5, <2>6, <2>7, <2>8 DEF Actions
<1>3. MaxCalls \in Nat /\ MaxChanges \in Nat
  BY MaintenanceAssumption
<1> QED BY <1>0, <1>1, <1>2, <1>3 DEF Change

LEMMA TypeStep ==
    ASSUME TypeOK, CallInv, StepInv, LevelInv, Actions, Watches, CallInv', LevelInv'
    PROVE  TypeOK'
<1>1. PbsTypes' /\ CallTypes'
  BY PbsTypeStep, CallTypeStep
<1>2. calls' \in 0 .. MaxCalls /\ changes' \in 0 .. MaxChanges
  BY CountsStep
<1>3. digest' \in 0 .. MaxCalls + MaxChanges
  <2>1. digest' \in Nat /\ digest' <= calls' + changes'
    BY <1>1 DEF PbsTypes, CallInv, CountInv
  <2>2. MaxCalls \in Nat /\ MaxChanges \in Nat
    BY MaintenanceAssumption
  <2>3. /\ calls' \in Nat /\ calls' <= MaxCalls
        /\ changes' \in Nat /\ changes' <= MaxChanges
    BY <1>2, <2>2
  <2>4. \A d, a, b, m, n \in Nat : d <= a + b /\ a <= m /\ b <= n => d <= m + n
    OBVIOUS
  <2>5. digest' <= MaxCalls + MaxChanges
    BY <2>1, <2>2, <2>3, <2>4
  <2> QED BY <2>1, <2>2, <2>5
<1>4. was' \in BOOLEAN
  <2>1. was \in BOOLEAN
    BY DEF TypeOK
  <2>2. was' = was \/ was' = AsAskedNow' \/ was' = (was \/ AsAskedNow')
    BY DEF Watches, watch
  <2>3. AsAskedNow' \in BOOLEAN
    BY DEF AsAskedNow, IsAsAsked
  <2> QED BY <2>1, <2>2, <2>3
<1>5. pc' = "apply" => plan' # {} /\ (req'.verb = "namespace.create" \/ Cardinality(plan') = 1)
  BY PlanStep
<1> QED BY <1>1, <1>2, <1>3, <1>4, <1>5 DEF TypeOK, PbsTypes, CallTypes

-----------------------------------------------------------------------------
(* Health reports *)

LEMMA NowFrame ==
    ASSUME UNCHANGED <<ds, jobs, lastRun>>
    PROVE  Now' = Now
BY DEF Now, IsTrue, CoveredBy

\* What each reading finds is what is wrong at that moment.
LEMMA EntryFindings == OfEntry(ds) = Now \cap {"not mounted", "maintenance"}
BY DEF OfEntry, Now, IsTrue, Troubles

LEMMA StatusFindings ==
    ASSUME TypeOK
    PROVE  /\ ds.readable =>
                 OfStatus(ds) = Now \cap {"unreadable", "empty", "little free"}
           /\ ~ds.readable => OfStatus(ds) = {"unreadable"}
<1>1. ds.total \in {0, 100} /\ ds.avail \in Int /\ MinFree \in Int
  BY MaintenanceAssumption DEF TypeOK, StoreStates
<1>2. ds.avail * 100 < ds.total * MinFree <=> ds.avail * 100 < MinFree * ds.total
  <2>1. CASE ds.total = 0
    BY <1>1, <2>1
  <2>2. CASE ds.total = 100
    BY <1>1, <2>2
  <2> QED BY <1>1, <2>1, <2>2
<1>3. CASE ds.readable
  <2>1. CASE ds.total = 0
    BY <1>3, <2>1 DEF OfStatus, Now, IsTrue, Troubles
  <2>2. CASE ds.total # 0
    BY <1>2, <1>3, <2>2 DEF OfStatus, Now, IsTrue, Troubles
  <2> QED BY <2>1, <2>2
<1> QED BY <1>3 DEF OfStatus

LEMMA GcFindings == OfGc(ds) = Now \cap {"gc failed", "still bad"}
BY DEF OfGc, Failure, Now, IsTrue, Troubles

LEMMA JobFindings == verify_findings(Store, ListedJobs) = Now \cap OfJobs
<1> DEFINE mine == {j \in ListedJobs : j.store = Store}
<1>1. \A j \in Ids : CoveredBy(j) => AsListed(j) \in mine
  BY DEF CoveredBy, AsListed, ListedJobs
<1>2. \A m \in mine : \E j \in Ids : CoveredBy(j) /\ m = AsListed(j)
  BY DEF CoveredBy, AsListed, ListedJobs
<1>3. \A j \in Ids : AsListed(j).scheduled = (jobs[j]["schedule"] # Unset)
                  /\ AsListed(j).state = lastRun[j]
  BY DEF AsListed
<1>4. mine = {} <=> \A j \in Ids : ~CoveredBy(j)
  BY <1>1, <1>2
<1>5. (\A m \in mine : ~m.scheduled) <=> \A j \in Ids : CoveredBy(j) => jobs[j]["schedule"] = Unset
  BY <1>1, <1>2, <1>3
<1>6. (\E m \in mine : m.state = "failed") <=> \E j \in Ids : CoveredBy(j) /\ lastRun[j] = "failed"
  BY <1>1, <1>2, <1>3
<1>7. verify_findings(Store, ListedJobs) =
        IF mine = {} THEN {"no verify job"}
        ELSE {x \in {"not scheduled"} : \A m \in mine : ~m.scheduled}
             \cup {x \in {"verify failed"} : \E m \in mine : m.state = "failed"}
  BY DEF verify_findings, Failure
<1> HIDE DEF mine
<1>8. CASE mine = {}
  BY <1>4, <1>7, <1>8 DEF Now, IsTrue, Troubles, OfJobs
<1>9. CASE mine # {}
  BY <1>4, <1>5, <1>6, <1>7, <1>9 DEF Now, IsTrue, Troubles, OfJobs
<1> QED BY <1>8, <1>9

LEMMA HealthStep ==
    ASSUME TypeOK, CallInv, HealthInv, Actions, Watches, CallInv'
    PROVE  HealthInv'
<1> SUFFICES ASSUME req'.verb = "health", pc' # "idle" PROVE HealthInv'
  BY DEF HealthInv
<1>1. ASSUME NEW r \in Requests, Call(r) PROVE HealthInv'
  <2>1. pc = "idle" /\ req' = r /\ problems' = {} /\ pc' = "verify jobs"
    BY <1>1, FirstSteps DEF Call
  <2>2. standing' = Now' /\ met' = standing'
    BY <2>1 DEF Watches
  <2> QED BY <2>1, <2>2 DEF HealthInv, Looked
<1>2. ASSUME UNCHANGED req, pc # "idle"
      PROVE  /\ standing' = standing \cap Now' /\ met' = met \cup Now'
             /\ standing \subseteq Now /\ Now \subseteq met /\ problems \ Unread \subseteq met
             /\ \A x \in standing \cap Looked(pc) : Reported(x)
             /\ pc \in {"verify jobs", "datastores"} => problems \subseteq {"jobs unreadable"}
             /\ pc = "datastores" /\ problems = {} =>
                   /\ standing \cap OfJobs \subseteq verify_findings(Store, listed)
                   /\ verify_findings(Store, listed) \subseteq met
  BY <1>2 DEF Watches, HealthInv
<1>3. CASE Meanwhile
  <2>1. UNCHANGED <<pc, req, problems, listed>>
    BY <1>3 DEF Meanwhile, call
  <2>2. standing' \subseteq standing /\ standing' \subseteq Now'
        /\ met \subseteq met' /\ Now' \subseteq met'
    BY <1>2, <2>1
  <2>3. \A x : Reported(x)' <=> Reported(x)
    BY <2>1 DEF Reported
  <2> QED BY <1>2, <2>1, <2>2, <2>3 DEF HealthInv
<1>4. ASSUME UNCHANGED <<req, ds, jobs, lastRun>>, pc # "idle"
      PROVE  standing' = standing /\ met' = met /\ Now' = Now
  <2>1. Now' = Now
    BY <1>4, NowFrame
  <2> QED BY <1>2, <1>4, <2>1
<1>5. CASE VerifyJobs
  <2>1. UNCHANGED <<req, ds, jobs, lastRun>> /\ pc = "verify jobs" /\ pc' = "datastores"
    BY <1>5 DEF VerifyJobs, Reads, Goes, pbs
  <2>2. standing' = standing /\ met' = met /\ Now' = Now
    BY <1>4, <2>1
  <2>3. \/ listed' = ListedJobs /\ problems' = problems
        \/ problems' = {"jobs unreadable"}
    BY <1>5 DEF VerifyJobs
  <2>4. problems' \subseteq {"jobs unreadable"} /\ problems' \ Unread \subseteq met'
    BY <1>2, <2>1, <2>2, <2>3 DEF Unread
  <2>5. problems' = {} => /\ standing' \cap OfJobs \subseteq verify_findings(Store, listed')
                         /\ verify_findings(Store, listed') \subseteq met'
    <3>1. problems' = {} => verify_findings(Store, listed') = Now \cap OfJobs
      BY <2>3, JobFindings
    <3> QED BY <1>2, <2>1, <2>2, <3>1
  <2>6. Looked(pc') = {}
    BY <2>1 DEF Looked
  <2> QED BY <1>2, <2>1, <2>2, <2>4, <2>5, <2>6 DEF HealthInv
<1>6. CASE Datastores
  <2>1. UNCHANGED <<req, ds, jobs, lastRun, listed>> /\ pc = "datastores" /\ pc' = "status"
    BY <1>6 DEF Datastores, Reads, Goes, pbs
  <2>2. standing' = standing /\ met' = met /\ Now' = Now
    BY <1>4, <2>1
  <2>3. problems' = problems \cup (Now \cap {"not mounted", "maintenance"})
          \cup (IF "jobs unreadable" \in problems THEN {} ELSE verify_findings(Store, listed))
    BY <1>6, EntryFindings DEF Datastores
  <2>4. problems = {} \/ problems = {"jobs unreadable"}
    BY <1>2, <2>1
  <2>5. problems' \ Unread \subseteq met'
    BY <1>2, <2>1, <2>2, <2>3, <2>4 DEF Unread
  <2>6. ASSUME NEW x \in standing, x \in Looked(pc') PROVE Reported(x)'
    <3>1. x \in {"not mounted", "maintenance"} \/ x \in OfJobs
      BY <2>1, <2>6 DEF Looked
    <3>2. x \in Now
      BY <1>2, <2>1, <2>6
    <3>3. CASE x \in {"not mounted", "maintenance"}
      BY <2>3, <3>2, <3>3 DEF Reported
    <3>4. CASE x \in OfJobs /\ problems = {"jobs unreadable"}
      BY <2>3, <3>4 DEF Reported
    <3>5. CASE x \in OfJobs /\ problems = {}
      <4>1. x \in verify_findings(Store, listed)
        BY <1>2, <2>1, <2>6, <3>5
      <4> QED BY <2>3, <3>5, <4>1 DEF Reported
    <3> QED BY <2>4, <3>1, <3>3, <3>4, <3>5
  <2> QED BY <1>2, <2>1, <2>2, <2>5, <2>6 DEF HealthInv
<1>7. ASSUME UNCHANGED <<req, ds, jobs, lastRun>>, pc # "idle", pc' \in {"gc", "report"},
             NEW new, problems' = problems \cup new, new \ Unread \subseteq Now,
             \A x \in standing \cap (Looked(pc') \ Looked(pc)) : Reported(x)'
      PROVE  HealthInv'
  <2>1. standing' = standing /\ met' = met /\ Now' = Now
    BY <1>4, <1>7
  <2>2. problems' \ Unread \subseteq met'
    BY <1>2, <1>7, <2>1
  <2>3. ASSUME NEW x \in standing, x \in Looked(pc') PROVE Reported(x)'
    <3>1. CASE x \in Looked(pc)
      <4>1. Reported(x)
        BY <1>2, <1>7, <3>1
      <4> QED BY <1>7, <4>1 DEF Reported
    <3>2. CASE x \notin Looked(pc)
      BY <1>7, <2>3, <3>2
    <3> QED BY <3>1, <3>2
  <2> QED BY <1>2, <1>7, <2>1, <2>2, <2>3 DEF HealthInv
<1>8. CASE Status
  <2>1. UNCHANGED <<req, ds, jobs, lastRun>> /\ pc = "status" /\ pc' \in {"gc", "report"}
    BY <1>8 DEF Status, Reads, Goes, pbs
  <2>2. CASE problems' = problems \cup {"unreadable"} /\ pc' = "report"
    <3>1. \A x \in Troubles \ Looked("status") : Reported(x)'
      BY <2>2 DEF Reported, Looked, Troubles, Behind, OfJobs
    <3> QED BY <1>7, <2>1, <2>2, <3>1 DEF Unread, Looked
  <2>3. CASE problems' = problems \cup OfStatus(ds) /\ ~ds.readable /\ pc' = "report"
    BY <2>2, <2>3, StatusFindings
  <2>4. CASE problems' = problems \cup OfStatus(ds) /\ ds.readable /\ pc' = "gc"
    <3>1. problems' = problems \cup (Now \cap {"unreadable", "empty", "little free"})
      BY <2>4, StatusFindings
    <3>2. ASSUME NEW x \in standing, x \in Looked("gc") \ Looked("status") PROVE Reported(x)'
      <4>1. x \in {"unreadable", "empty", "little free"} /\ x \in Now
        BY <1>2, <2>1, <3>2 DEF Looked
      <4> QED BY <3>1, <4>1 DEF Reported
    <3> QED BY <1>7, <2>1, <2>4, <3>1, <3>2
  <2>5. \/ problems' = problems \cup {"unreadable"} /\ pc' = "report"
        \/ problems' = problems \cup OfStatus(ds) /\ ~ds.readable /\ pc' = "report"
        \/ problems' = problems \cup OfStatus(ds) /\ ds.readable /\ pc' = "gc"
    BY <1>8 DEF Status, Reads, Goes
  <2> QED BY <2>2, <2>3, <2>4, <2>5
<1>9. CASE Gc
  <2>1. UNCHANGED <<req, ds, jobs, lastRun>> /\ pc = "gc" /\ pc' = "report"
    BY <1>9 DEF Gc, Reads, Goes, pbs
  <2>2. Looked("report") \ Looked("gc") = {"gc failed", "still bad"}
    BY DEF Looked, Troubles, OfJobs
  <2>3. CASE problems' = problems \cup OfGc(ds)
    <3>1. ASSUME NEW x \in standing, x \in {"gc failed", "still bad"} PROVE Reported(x)'
      <4>1. x \in Now
        BY <1>2, <2>1, <3>1
      <4> QED BY <2>3, <3>1, <4>1, GcFindings DEF Reported
    <3>2. OfGc(ds) \ Unread \subseteq Now
      BY GcFindings
    <3> QED BY <1>7, <2>1, <2>2, <2>3, <3>1, <3>2
  <2>4. CASE problems' = problems \cup {"gc unreadable"}
    <3>1. \A x \in {"gc failed", "still bad"} : Reported(x)'
      BY <2>4 DEF Reported, Behind
    <3>2. {"gc unreadable"} \ Unread \subseteq Now
      BY DEF Unread
    <3> QED BY <1>7, <2>1, <2>2, <2>4, <3>1, <3>2
  <2> QED BY <1>9, <2>3, <2>4 DEF Gc
<1> USE DEF CallInv, InPlace
<1>10. ~ReadFails /\ ~Report
  BY DEF ReadFails, Report, Ends
<1>11. ~FindJob /\ ~JobSection /\ ~GcStatus /\ ~NamespaceSteps
  BY DEF FindJob, JobSection, GcStatus, NamespaceSteps
<1>12. ~Apply /\ ~CreateLevel
  BY DEF Apply, CreateLevel
<1>13. ~ListGroups /\ ~PlanPrune /\ ~PruneEnds
  BY DEF ListGroups, PlanPrune, PruneEnds
<1>14. ASSUME NEW g \in Groups, Preview(g) \/ Prune(g) PROVE FALSE
  BY <1>14 DEF Preview, Prune
<1>15. ASSUME NEW i \in 1 .. 2, ReadTask(i) PROVE FALSE
  BY <1>15 DEF ReadTask
<1> QED
  BY <1>1, <1>3, <1>5, <1>6, <1>8, <1>9, <1>10, <1>11, <1>12, <1>13, <1>14, <1>15
  DEF Actions

LEMMA ReportStep ==
    ASSUME TypeOK, CallInv, HealthInv, HealthIsTrue, Actions, Watches, CallInv'
    PROVE  HealthIsTrue'
<1> USE DEF CallInv
<1> SUFFICES ASSUME reply' = "ok", req'.verb = "health" PROVE HealthIsTrue'
  BY DEF HealthIsTrue
<1>0. pc' = "idle"
  OBVIOUS
<1>1. CASE Meanwhile
  <2>1. UNCHANGED <<pc, req, reply, problems>>
    BY <1>1 DEF Meanwhile, call
  <2>2. UNCHANGED <<standing, met>>
    BY <1>0, <2>1 DEF Watches, watch
  <2> QED BY <2>1, <2>2 DEF HealthIsTrue
<1>2. CASE Report
  <2>1. pc = "report" /\ UNCHANGED <<req, problems, ds, jobs, lastRun>>
    BY <1>2 DEF Report, pbs
  <2>2. /\ standing \subseteq Now /\ Now \subseteq met /\ problems \ Unread \subseteq met
        /\ \A x \in standing \cap Troubles : Reported(x)
    BY <2>1 DEF HealthInv, Looked
  <2>3. standing' = standing /\ met' = met
    <3>1. Now' = Now
      BY <2>1, NowFrame
    <3> QED BY <2>1, <2>2, <3>1 DEF Watches
  <2>4. standing \subseteq Troubles
    BY <2>2 DEF Now
  <2> QED BY <2>1, <2>2, <2>3, <2>4 DEF HealthIsTrue, Reported, OfJobs, Unread
<1> USE DEF InPlace
<1>3. ASSUME NEW r \in Requests, Call(r) PROVE FALSE
  BY <1>3 DEF Call
<1>4. ~ReadFails /\ ~FindJob /\ ~JobSection /\ ~GcStatus /\ ~NamespaceSteps
  BY DEF ReadFails, FindJob, JobSection, GcStatus, NamespaceSteps, Ends
<1>5. ~Apply /\ ~CreateLevel
  BY DEF Apply, CreateLevel
<1>6. ~ListGroups /\ ~PlanPrune /\ ~PruneEnds
  BY DEF ListGroups, PlanPrune, PruneEnds
<1>7. ASSUME NEW g \in Groups, Preview(g) \/ Prune(g) PROVE FALSE
  BY <1>7 DEF Preview, Prune
<1>8. ~VerifyJobs /\ ~Datastores /\ ~Status /\ ~Gc
  BY DEF VerifyJobs, Datastores, Status, Gc, Reads, Goes
<1>9. ASSUME NEW i \in 1 .. 2, ReadTask(i) PROVE FALSE
  BY <1>9 DEF ReadTask
<1> QED BY <1>1, <1>2, <1>3, <1>4, <1>5, <1>6, <1>7, <1>8, <1>9 DEF Actions
-----------------------------------------------------------------------------
(* The invariant and what follows from it *)

LEMMA InvInit == Init => MInv
<1> SUFFICES ASSUME Init PROVE MInv
  OBVIOUS
<1> USE MaintenanceAssumption
<1>1. pc = "idle" /\ reply = "none" /\ req \in Requests
  <2>1. req = CHOOSE r \in Requests : TRUE
    BY DEF Init
  <2>2. (CHOOSE r \in Requests : TRUE) \in Requests
    OBVIOUS
  <2> QED BY <2>1, <2>2 DEF Init
<1>2. TypeOK
  <2>1. jobs \in [Ids -> Configs \cup {NoJob}]
    BY DEF Init
  <2>2. lastRun \in [Ids -> RunStates] /\ ds \in StoreStates
    BY DEF Init, RunStates, StoreStates
  <2>3. snaps \in [Groups -> SUBSET (1 .. MaxSnaps)] /\ guarded \in [Groups -> SUBSET (1 .. MaxSnaps)]
    BY DEF Init
  <2>4. task \in [there : BOOLEAN, lines : 0 .. MaxLines, stopped : BOOLEAN]
    BY DEF Init, NewTask
  <2>5. seenTask \in [stopped : BOOLEAN, lines : 0 .. MaxLines, total : 0 .. MaxLines]
    BY DEF Init, NotSeen
  <2>6. /\ digest = 0 /\ levels = 0 /\ calls = 0 /\ changes = 0 /\ was = FALSE
        /\ items = {} /\ shown = {} /\ read = NoJob /\ due = {} /\ marked = {}
    BY DEF Init
  <2>7. /\ digest \in 0 .. MaxCalls + MaxChanges /\ levels \in 0 .. Depth
        /\ calls \in 0 .. MaxCalls /\ changes \in 0 .. MaxChanges
    BY <2>6
  <2> QED BY <1>1, <2>1, <2>2, <2>3, <2>4, <2>5, <2>6, <2>7 DEF TypeOK
<1>3. CallInv
  BY <1>1 DEF Init, CallInv, CountInv, InPlace
<1>4. StepInv /\ LevelInv /\ HealthInv
  BY <1>1 DEF StepInv, LevelInv, HealthInv
<1>5. PruneInv /\ TaskInv
  BY <1>1 DEF Init, PruneInv, TaskInv, NewTask, NotSeen
<1>6. OkMeansAsAsked /\ HealthIsTrue /\ StoppedComesWithWholeLog
  BY <1>1 DEF OkMeansAsAsked, HealthIsTrue, StoppedComesWithWholeLog
<1> QED BY <1>2, <1>3, <1>4, <1>5, <1>6 DEF MInv

LEMMA InvStep == MInv /\ [Next]_vars => MInv'
<1> SUFFICES ASSUME MInv, [Next]_vars PROVE MInv'
  OBVIOUS
<1>1. CASE Next
  <2> USE <1>1, NextIsAnAction DEF MInv
  <2>1. CallInv'
    BY CountStep, PlaceStep DEF CallInv
  <2>2. StepInv' /\ LevelInv'
    BY StepStep, LevelStep
  <2>3. TypeOK'
    BY <2>1, <2>2, TypeStep
  <2>4. PruneInv'
    BY PruneStep
  <2>5. TaskInv' /\ StoppedComesWithWholeLog'
    BY <2>1, TaskStep
  <2>6. HealthInv' /\ HealthIsTrue'
    BY <2>1, HealthStep, ReportStep
  <2>7. OkMeansAsAsked'
    BY <2>1, OkStep
  <2> QED BY <2>1, <2>2, <2>3, <2>4, <2>5, <2>6, <2>7
<1>2. CASE UNCHANGED vars
  <2> USE <1>2 DEF MInv, vars, pbs, call, watch
  <2>1. TypeOK'
    BY DEF TypeOK
  <2>2. CallInv' /\ LevelInv' /\ PruneInv' /\ TaskInv'
    BY DEF CallInv, CountInv, InPlace, LevelInv, PruneInv, TaskInv
  <2>3. StepInv'
    BY DEF StepInv, Fits
  <2>4. Now' = Now
    BY NowFrame
  <2>5. HealthInv'
    BY <2>4 DEF HealthInv, Reported
  <2>6. OkMeansAsAsked' /\ HealthIsTrue' /\ StoppedComesWithWholeLog'
    BY DEF OkMeansAsAsked, HealthIsTrue, StoppedComesWithWholeLog
  <2> QED BY <2>1, <2>2, <2>3, <2>5, <2>6
<1> QED BY <1>1, <1>2 DEF MInv

\* The invariant that the properties below rest on: a step that is to be sent fits the
\* configuration it was computed from (StepsFor), what is due of a prune was confirmed,
\* and what a health report has looked at so far is in it or has passed.
THEOREM MaintenanceInvariant == Spec => []MInv
BY InvInit, InvStep, PTL DEF Spec

\* Every variable has its type, and a verb that is to send a step has exactly one, those
\* of a namespace apart (mutate_with, plan_or_apply).
THEOREM MaintenanceTypeCorrect == Spec => []TypeOK
<1>1. MInv => TypeOK
  BY DEF MInv
<1> QED BY <1>1, MaintenanceInvariant, PTL

\* A create, update or ensure of a job, and a create of a namespace, that is carried out
\* and succeeds has brought about what was asked or found it so, whatever the fields and
\* whoever else writes the jobs meanwhile (mutate_with, missing_namespace_chain).
THEOREM OkIsAsAsked == Spec => []OkMeansAsAsked
<1>1. MInv => OkMeansAsAsked
  BY DEF MInv
<1> QED BY <1>1, MaintenanceInvariant, PTL

\* A report of pbs.datastore.health has every problem that stood all along, but for what
\* could not be read, and none that never was (assess_datastore).
THEOREM HealthReportsAreTrue == Spec => []HealthIsTrue
<1>1. MInv => HealthIsTrue
  BY DEF MInv
<1> QED BY <1>1, MaintenanceInvariant, PTL

\* A task that pbs.task.detail reports as stopped comes with its whole log.
THEOREM StoppedTasksAreWhole == Spec => []StoppedComesWithWholeLog
<1>1. MInv => StoppedComesWithWholeLog
  BY DEF MInv
<1> QED BY <1>1, MaintenanceInvariant, PTL

\* A job that a verb writes is the one it was asked to write, and is as the verb read it:
\* a change somebody else made meanwhile is never overwritten (update_steps, the digest).
THEOREM OnlyWhatWasReadIsOverwritten == Spec => OverwritesOnlyWhatItRead
<1>1. MInv /\ [Next]_vars
      => [pc = "apply" /\ pc' # pc => \A j \in Ids : jobs'[j] # jobs[j] => j = req.id /\ jobs[j] = read]_vars
  <2> SUFFICES ASSUME MInv, Next, pc = "apply", pc' # pc, NEW j \in Ids, jobs'[j] # jobs[j]
               PROVE  j = req.id /\ jobs[j] = read
    BY DEF vars
  <2> QED BY NextIsAnAction, OverwriteStep DEF MInv
<1> QED BY <1>1, MaintenanceInvariant, PTL DEF Spec, OverwritesOnlyWhatItRead

\* A prune takes snapshots only when it executes, only of groups a dry run has shown and
\* the operator has passed back, and none that is protected or that its policy keeps
\* (prune_steps).
THEOREM PrunesOnlyWhatWasConfirmed == Spec => PrunesAsConfirmed
<1>1. MInv /\ [Next]_vars
      => [\A g \in Groups :
            LET gone == snaps[g] \ snaps'[g]
                open == snaps[g] \ guarded[g]
            IN  gone # {} =>
                   /\ req.execute /\ g \in items \cap shown
                   /\ gone \cap (guarded[g] \cup NewestOf(open, Keep(req))) = {}]_vars
  <2> SUFFICES ASSUME MInv, Next, NEW g \in Groups, snaps[g] \ snaps'[g] # {}
               PROVE  /\ req.execute /\ g \in items \cap shown
                      /\ (snaps[g] \ snaps'[g])
                            \cap (guarded[g] \cup NewestOf(snaps[g] \ guarded[g], Keep(req))) = {}
    OBVIOUS
  <2> QED BY NextIsAnAction, LosesAsConfirmed DEF MInv
<1> QED BY <1>1, MaintenanceInvariant, PTL DEF Spec, PrunesAsConfirmed
=============================================================================
