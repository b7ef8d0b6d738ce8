# Formal models of the orca pbs plugin

TLA+ models of the pbs plugin, which deploys, manages and backs up a Proxmox
Backup Server: what they model, what TLC checks on small instances, and what
TLAPS proves for every value of the constants.

To check a run: `tlc -config Restore.cfg MCRestore.tla`. To check proofs:
`tlapm RestoreProofs.tla`. `PROJECT.json` lists the runs, the mutants (one
deliberate bug per property, which TLC must catch), the source lines each
definition stands for, the findings, the hazards and the theorems.

## 1. The system

The plugin is one Rust process per call: orca starts a verb, the verb talks to
the PBS REST API or to the file system of the server's config volume, and
returns. What outlives a call is on disk, in PBS, or in orca's secrets. Nothing
serialises two calls, and PBS, its jobs and other admins change the server
meanwhile.

| Component (source) | State | Operations | Talks to |
|---|---|---|---|
| Restore and recovery (`config_backup.rs`: `materialize`, `Work`, `recovery`, `recover`) | the live files, `.orca-restore-*` (staged), `.orca-prev-*` (set aside), the `.orca-swap-*` marker, created directories; in memory `Work` | restore, undo, finish, recover rollback / finish | the config volume; backup slots |
| Capture (`config_backup.rs`: `hold_locks`, `read_snapshot`, `read_once`) | shared `flock`s, what was read, stamps | lock, scan, read, stamp, compare, one re-read | the config volume; PBS through its lock files |
| Verify, scratch restore, backup kind (`config_backup.rs`, `lib.rs`) | none of their own | verify, restore to scratch, detail | backup slots |
| Plans (`plan.rs`) | the steps planned; the items confirmed | plan, refuse_drifted, confirm, run | every verb that changes PBS |
| Groups, prune, namespaces (`groups.rs`, `tools.rs`, `api.rs`) | PBS's groups, snapshots, namespaces | group.list/delete, prune, namespace.list/create/delete | PBS, through plans |
| Host enroll and revoke (`enroll.rs`) | PBS's user, token, ACL entries, namespace; orca's copy of the token secret | enroll, revoke | PBS, through plans; orca secrets |
| Endpoint registry (`endpoint.rs`) | endpoint row, token secret, fingerprint pin, staged secret | create, update, delete, connect | orca's table and secrets |
| Sync and verify jobs (`jobs.rs`) | PBS's job configs with their digest | list, create, update, ensure, run | PBS, through plans |
| Views (`tools.rs`), times (`times.rs`) | none | datastore, task, GC views; formatting of times | PBS |
| Client, response types, TLS (`client.rs`, `api.rs`, `tls.rs`) | one connection | HTTP requests, decoding, certificate pin | PBS |
| Descriptor (`lib.rs`, `main.rs`) | none | service descriptor | orca |
| Container entrypoint (`docker/entrypoint.sh`) | two daemons, `api.pid`, file owners | remap, start api then proxy, stop both | PBS's daemons |

What is hard, and what must hold:

- **Restore**: any call can fail and the process can die between any two; the
  next call has only the disk. No file may be lost or half written; without a
  marker the config must be one config; every reply must be true; an interrupted
  restore must be possible to settle.
- **Capture**: PBS rewrites several files one by one, under locks that may not
  exist yet. What is captured must have been there at one moment and between two
  rewrites, and the capture must not block PBS.
- **Deletes**: backups start, finish and are pruned between the dry run and the
  delete, steps fail halfway and answers are lost. Only what was shown and
  confirmed may go.
- **Enroll and revoke**: calls overlap, others edit, the answer that carries a
  new secret is lost. What is left must be repairable by running enroll again, a
  working secret must not be thrown away, and revoke must leave nothing.
- **Endpoints**: row, secret and pin are three writes; a failure in between must
  not pair one endpoint's id with another's secret or pin.
- **Jobs**: an update must not overwrite a change it did not see, and must say ok
  only of what was asked.
- **Prune, health, tasks**: they are several requests to a server that goes on
  meanwhile; a prune must not take what was not shown, a report must not mix two
  moments into something that never was.
- **The backup kind**: the store may rot or be replaced, containers may start
  while files are replaced; what a restore calls restored must be what was
  captured, and nothing may run on half of it.
- **Entrypoint**: the proxy must start after the api is ready, and both stop when
  one does.

## 2. Modules

| Module | What it is |
|---|---|
| `Restore` | the restore, its error paths and its recovery, one step per call that changes the file system |
| `AtomicRestore` | what a restore promises: the config is replaced as a whole or its originals stay |
| `RestoreInv` | the inductive invariants `IInv`, `ReplyInv` and `FreshInv`, what a recovery can fail for, the measure by which a call ends, and the assumptions `Durable` and `Steady` |
| `RestoreProofs` | type correctness, the safety invariants, and that `Restore` implements `AtomicRestore` |
| `Capture`, `CaptureProofs` | capture beside PBS's writers and a restore; the proofs of `Manifests` too |
| `ConfirmedDelete`, `DeleteProofs` | group and namespace deletes under plans |
| `Enroll`, `EnrollProofs` | enroll and revoke under plans, with orca's secret |
| `Endpoints`, `EndpointsProofs` | the endpoint registry, and every verb's connect with its TLS policy |
| `JobSteps` | the pure part of the job verbs: what is sent for what was read and asked |
| `Health` | the pure part of the health report |
| `Times`, `TimesProofs` | the rendering of instants |
| `Maintenance`, `MaintenanceProofs` | the job, prune, GC, namespace create, health and task verbs beside a PBS that changes; uses `JobSteps` and `Health`; the proofs of `JobSteps` too |
| `ConfigKind`, `ConfigKindProofs` | the backup kind as a whole: backup, restore, scratch restore and finish, beside containers and a store that rots |
| `Manifests` | what a manifest may list, and what a capture writes into one |
| `MC...` | constants of the instances TLC checks |

### How they correspond to the code

**Restore.** `name`, `tmp`, `prev`, `dirs`, `marker` and `junk` are what is on
disk: live files, staged copies, set-aside originals (hard links), directories,
the marker file and leftovers without a tag. A file's content is the number of
the restore that wrote it, so equal numbers are the same inode. `phase`,
`created` and `displaced` are the fields of `Work`; `plan` is the list of steps
`recovery` computes; `pc` and `todo` say where a loop is. `CreateNext` and
`RenameNext` are the two halves of `write_marker`, `MakeDirs`, `Stage`,
`SetAside` and `Swap` are `materialize`'s loops, `PutBack` is swap's own error
path, `Undo...` is `undo`, `DropMarker` and `DropPrev` are `finish`.
`StartRollback` and `StartFinish` read the disk and plan as `recovery` does;
`Install...` and `Recover...` are `Op::apply` of each kind of step. A finish's
`Op::Chmod` opens the directory, so `RecoverChmod` goes through each directory of the
manifest and fails where one is gone; modes themselves are not modelled. `junk` also
holds the marker's `.next` (`NextMarker`), which a failed `write_marker` can leave. Each
has its failing outcome, and `Crash` clears memory anywhere. Abstracted: bytes, owners
and modes, the format of the manifest, the tag, the choice of the slot, and the
refusals that happen before anything is touched (a mounted volume, a payload that
does not verify). What survives a power loss that drops unsynced writes is
modelled for one case only: `UnsyncedMarkers` names the phases whose marker may
be renamed into place and then fail to sync. The `restore` run leaves the swapping
marker out of it, as the proofs do that assume `Durable`.

**Capture.** A file is the number of times it was replaced, which is also its
stamp. The `W...` actions are PBS (take the locks exclusively, replace files by
rename, release) and a restore (the same without locks); a writer may also stop
halfway. `ListLocks`, `TryLock` and `Retry` are `hold_locks`, `Scan`, `Read`,
`Rescan`, `Stamp` and `Compare` are `read_once` and the retry around it.
Writing the captured bytes out happens from memory after the locks are gone and
is left out.

**ConfirmedDelete.** A target is what one step deletes: a group, or a namespace
with its groups. `DryRun` and `Execute` begin a call, `CountGroup` is one read of
a group's snapshots, `ShowPlan` returns the items, `Refuse` is `refuse_drifted`
or `confirm`'s refusal, `StartDeleting` keeps the confirmed steps, `Delete` is
one step of `run_with` with its three outcomes (done, refused, done but the
answer lost). Backups and prunes go on in every state.

**Enroll.** The server is `space`, `user`, `token` (its key is the secret that
works) and `acls`; orca holds `stored`. A call reads ACLs, users, the probe of
the secret and the namespaces one after another (`ReadAcls`, `ReadUsers`,
`Probe`, and the start of `Confirm`), so what it plans from may never have been
true all at once. `EnrollSteps` and `RevokeSteps` are `diff_enroll` and
`diff_revoke`. Which items the operator echoes is arbitrary: any part of the plan
is confirmed, so the dry run need not be modelled. `RunStep` and `Store` are
`run_with` and the closure that stores the secret; `AnswerLost`, `StepRefused` and
`Fail` are its error paths and orca stopping. Abstracted: the two roles are one
entry per account, entries all propagate, a namespace is created in one step,
and the check that the host is not the endpoint's own user. A revoke's
`delete_data` adds the step that `ConfirmedDelete` models.
What PBS answers (`Accepts`, `Do`) is external, taken from how the code uses it.
Secrets are only ever compared, so one nobody knows any more may be minted
again, and no counter of secrets is needed.

**Endpoints.** `row`, `secret`, `pin` and `staged` are orca's table and its three
secrets of an endpoint. A verb is a process that writes them one after another:
`CreateInsert`, `CreateSecret`, `CreatePin` and `CreateUndo` are `pbs_create` with
its rollback, `UpdateSecret`, `UpdateRow` and `UpdatePin` are `pbs_update` in the
order of `NextWrite`, `Delete` is `pbs_delete`, and `Drop` is `drop_staged`. A write
may fail and have landed all the same, and `Dies` ends a verb anywhere. `Select`,
`Token` and `Connect` are `connect_named`; `Policy` is `TlsPolicy::from_config`,
and a server may show any certificate. The ghosts `expected` and `doubt` are what
an operator may conclude from the replies; `alone` that no other change of the
endpoint overlapped the call.

**Maintenance.** The PBS is `jobs` with the `digest` of their file, `lastRun`, the
datastore `ds`, `snaps`, `levels` of a namespace and a `task`; another
administrator, backups, disks and tasks change each of them between any two
requests (`Meanwhile`). A verb is one row of requests: `FindJob`, `JobSection`
(`find_job`, `job_config`), the steps of `JobSteps`, and `Apply` for `run_with`;
`ListGroups`, `Preview`, `PlanPrune` and `Prune` for `prune`; `VerifyJobs`,
`Datastores`, `Status`, `Gc` and `Report` for `datastore_health`; `ReadTask` for
`task_detail`. `Decide` is `plan_or_apply`. A job is a function from keys to values;
which keys there are is a parameter, so sync and verify jobs are one. How PBS
accepts a write (`Accepts`, `Does`) and chooses a prune's snapshots (`Doomed`) is
external.

**ConfigKind.** A content stands for bytes, owner and mode, and a checksum is what it
is a checksum of, so it tells any two contents apart. `Capture` and `CheckBackup`
are `backup_into`; `ReadManifest` and `VerifyPayload` are `verified_manifest` and
`verify`; `Stage`, `Swap`, `SwapFails` and `SwapIsCutOff` are what `Restore` says of
`materialize`, a step per file; `SwapFails` puts back what was replaced and leaves the
rest as it is; `StillVerifies` is the second look at the slot before anything is
written; `VerifyLive` the check of the live files;
`ListContainers` and `Look` are `ensure_stopped`, docker's files read one after
another; `MakeDest`, `Fill` and `VerifyCopy` are `config_restore`; `StartFinish` and
`Install` are `config_recover`'s finish. A rollback is left to `Restore`.

**Pure parts.** `Manifests`, `Health`, `JobSteps` and `Times` follow the functions of
the same names. A path is the sequence of its segments. `Manifests` ends with what a
manifest is for, stated without the code: where a kernel that walks a path ends up
(`Walk`), and what makes the entries a tree (`IsATree`).

## 3. What is checked

| Run | Shows |
|---|---|
| `restore` (88,967 states) | `OldOrNew`, `OriginalsKept`, `WholeConfig`, `ReplyIsTrue`, `FinishStillPossible`, `RollingBackOnlyPutsBack`; the restore implements `AtomicRestore` (`RefinesAtomic`); an operator who keeps at it settles the files (`FilesSettle`); `IInv` |
| `capture` (186,462) | `ConsistentCut`, `WholeRewrites`, `NoWaitCycle`, `WritersProceed` |
| `confirmed_delete` (119,947) | `ActsOnWhatWasShown`, `OnlyConfirmedIsLost`, `ReplyIsTrue` |
| `enroll` (935,508) | `Converges`, `EnrolledIsLeftAlone`, `RevokeLeavesNothing`, `AclsAsPlanned`, `RegeneratesOnlyUseless`, `RemovesOnlyUseless` |
| `endpoints` (572,868) | `AsReported`, `ConnectsAsTold`, `NewIdFindsItsSecret`, `StagedUntilStored` |
| `maintenance` (543,555) | `OkMeansAsAsked`, `OverwritesOnlyWhatItRead`, `PrunesAsConfirmed`, `HealthIsTrue`, `StoppedComesWithWholeLog`; when it starts, `EveryDayIsItsDate` and `RendersTheInstant` of `Times` |
| `config_kind` (2,843,559) | `RestoredIsWhatWasCaptured`, `NobodyRunsOnAMix`; when it starts, `AcceptedManifests` and `CapturedManifests` of `Manifests` |
| `finish_then_rollback`, `rollback_then_finish`, `stuck_rollback`, `capture_during_restore`, `namespace_delete` | findings, section 6 |

Each property is stated in words above its definition.

### Bounds, and why they are enough

- `restore`: three files, one at the root and two in a nested directory, so that
  a loop has a first, a middle and a last file and a created directory has a
  created parent; two restores, so the second meets the first one's leftovers;
  four faults, so a restore, its undo, a recovery and the repeat of that recovery
  can each be cut off. Every subset of the files and directories is there at
  first. The proofs remove these bounds for the safety properties.
- `capture`: two files and two locks are the smallest with a half-done rewrite
  and an order of locks; lock files and config files are there or not at first;
  two attempts cover the retry. One capture: captures do not interact.
- `confirmed_delete`: a group and a namespace of one group, three backups and
  three calls: a dry run, an execute cut off, and its repeat with the same items.
- `enroll`: two calls, one entry of the user, one of the token, one out of scope.
  The number of calls is not bounded. One mishap: an overlap of two calls, an
  edit, a lost answer, a failed store or probe, or a cut-off call. Properties of a
  single call (`AclsAsPlanned`) need one interference; those of repair
  (`Converges`) start from whatever the mishap left, and a second mishap restarts
  the count. With one call at a time, two mishaps pass as well (525,366 states).
  Entries in another datastore and of other accounts (`Elsewhere`, `Foreign`) are
  parameters and empty here. Calls are symmetric: nothing orders them.

- `endpoints`: one endpoint, as nothing is shared between two; two processes, so
  that any two verbs overlap; four calls: a create, a change, another that
  overlaps it, a connect; one failure or death. Two tokens, two certificates of
  which the system's roots vouch for one.
- `maintenance`: two jobs of two stores, two groups, a namespace of two levels;
  two calls of one family (`Family`), so that an execute follows its dry run, an
  update its own lost reply; two changes by others or failures. Families share
  nothing of the PBS but the task, so calls of two of them show nothing that a
  change by somebody else does not. One datastore: the report treats each on its
  own. The default number of snapshots to keep is 2 and there are four, so each
  policy has something to take and something to keep.
- `config_kind`: a required file and another, a container that mounts the volume
  by name and one by path, two verbs and four events. The store begins with a
  backup of another content than the live one.
- `AcceptedManifests` goes through every manifest of up to two directories and a file
  over two names, `""`, `.` and `..`; `CapturedManifests` through every tree two
  levels deep. `EveryDayIsItsDate` goes through every day from 1899 to 2100 and
  the ends of two eras; the formula has a period of one era.

`CHECK_DEADLOCK FALSE` everywhere: the bounds stop the system, and an idle
server with no call left is a proper end.

### Fairness

`restore` assumes that a call that runs goes on (it is a sequential program; it
ends when it is cut off, which is a fault and bounded), and that an operator
keeps at an interrupted restore, as the refusal of the next restore tells him to.
`capture` assumes that the capture and PBS's writers go on; nothing is assumed
of the order in which `flock` grants. The other runs check safety only.

## 4. What is proved

Every safety property the passing runs check is a theorem, for every value of the
constants.

| Module | Theorem | States |
|---|---|---|
| `RestoreProofs` | `TypeCorrect`, `RestoreInvariant` | `Restore`'s types and its inductive invariant |
| | `FilesAreOldOrNew` | a live file is its original or the restored one, whole |
| | `OriginalsAreKept` | until a finish is begun, each original is under its name or set aside |
| | `RollbackReplacesNothing` | once the marker says rolling back, no further file is replaced |
| | `RollbackAloneIsWhole` | a restore on which no finish was tried leaves all old or all new when its marker goes |
| | `FinishAloneInstallsAll` (`Durable`) | one that was finished and never rolled back leaves all new |
| | `ConfigIsWhole` (`Steady`) | without a marker the config is all old or all new |
| | `FinishRemainsPossible` (`Durable`) | an interrupted swap can be finished until it is rolled back |
| | `ReportsAreTrue` | "restored" and "finished" are in place, "failed" changed no file or directory and left at most the `.next` of a marker, "rolled back" left nothing over and, if no finish came before, one whole config |
| | `RepliesOfRestoreAreTrue` (`Steady`) | the same, and after every rollback one whole config |
| | `RestoreIsAtomic` (`Steady`) | `Restore` implements `AtomicRestore` |
| | `EveryCallEnds`, `NothingComesCloserForEver` | no restore, undo or recovery runs for ever, whichever of its calls fail |
| | `RestoresSucceed` | as long as no call fails, every restore succeeds |
| | `RecoveriesFailOnlyFor` | for what a recovery fails though none of its calls does: a directory a rollback cannot remove, or a finish after a rollback |
| `CaptureProofs` | `CaptureTypeCorrect` | types |
| | `CaptureIsOneMoment` | what is captured was in the files at one moment |
| | `CaptureIsBetweenRewrites` | that moment is between the changes of a writer under a listed lock |
| | `NoDeadlockWithPbs` | the capture never sleeps while holding a lock that is waited for |
| | `EveryCaptureEnds` | no capture runs for ever, whatever writers do meanwhile |
| | `AcceptedIsATree` | every manifest that is accepted is a tree below the config directory |
| | `CapturesAreAccepted` | every content within the limits of size and depth has a manifest that lists it and is accepted |
| `DeleteProofs` | `DeleteTypeCorrect` | types |
| | `FingerprintIsExact` (`OneGroupEach`) | a target is deleted only when it holds what was shown |
| | `FingerprintMissesOnly` | for any targets: the one change of a namespace that gets past the fingerprint |
| | `OnlyConfirmedGoes` (`OneGroupEach`) | only backups that were shown and confirmed, or came after the count, are destroyed |
| | `NothingNewerGoes` | for any targets: nothing newer than what was confirmed is taken for it |
| | `DeleteReportsTheTruth` | a refusal deleted nothing, success means that all confirmed is gone |
| `EnrollProofs` | `EnrollInvariant`, `EnrollTypeCorrect` | the inductive invariant and types |
| | `EnrolConverges` | an undisturbed enroll, twice, repairs any state |
| | `RevokeIsComplete` | an undisturbed revoke leaves nothing |
| | `AclWritesAreAsPlanned` | ACLs are written only over what was planned from |
| | `EnrolIsIdempotent` | an enrolled host is left alone |
| | `WorkingSecretsAreKept`, `SecretsOutliveTokens` | a secret that works is not thrown away |
| `EndpointsProofs` | `EndpointsInvariant`, `EndpointsTypeCorrect` | the inductive invariant and types |
| | `RepliesAreTrue` | what create, update and delete reply is what is stored |
| | `ConnectIsAsTold` | a connect uses the id, secret and pin of the last change |
| | `IdFindsItsSecret`, `StagedIsKept` | a new token id finds its own secret; a staged secret is dropped only once stored |
| `MaintenanceProofs` | `UpdateGivesWhatWasAsked`, `UpdateIsIdempotent`, `EnsureConverges` | what the steps of a job verb do to the job they were made for |
| | `MaintenanceInvariant`, `MaintenanceTypeCorrect` | the inductive invariant and types |
| | `OkIsAsAsked` | what a verb calls done has been so |
| | `OnlyWhatWasReadIsOverwritten` | a job is overwritten only as it was read |
| | `PrunesOnlyWhatWasConfirmed` | a prune takes from confirmed groups, and never what its policy keeps |
| | `HealthReportsAreTrue`, `StoppedTasksAreWhole` | a report of several reads is true of their time |
| `ConfigKindProofs` | `ConfigKindInvariant`, `ConfigKindTypeCorrect` | the inductive invariant and types |
| | `RestoredIsCaptured` | what is reported as restored is what was captured |
| | `RestoreLeavesNobodyBehind` | nothing runs on the restored volume that started before it was complete |
| `TimesProofs` | `EveryDateIsItsDay` | every day is the date of the calendar that is printed for it |
| | `RenderingNamesTheInstant` | a rendering at any offset is a date and a time that, with the offset printed, name the instant |
| | `EveryRenderingIsRight` | so do the three a caller is given |

They hold for any number of files, directories, locks, writers, targets,
backups, endpoints, jobs, keys, containers, calls and faults, from the ASSUMEs on
the constants (a tree whose directories come after their parents; finite sets;
enough secrets to mint a new one) and, where named:

- `Durable`: a marker that says swapping is durable before it is acted on. Without it, a
  swapping marker that is in place but failed to sync is taken for not written, so
  that `undo` removes the staged copies under it, and a later finish has none.
- `Steady`: `Durable`, and the operator does not apply both actions to one interrupted
  restore. `finish_then_rollback` and `rollback_then_finish` show what happens
  otherwise.
- `OneGroupEach`: every target is one group. `namespace_delete` shows why;
  `FingerprintMissesOnly` says that it shows all there is.
- `EveryRenderingIsRight`: the server's offset is one of whole minutes, as they are
  printed.

**Restore's argument.** The properties are not inductive: that no original is
lost depends on where the running call is and what it remembers. `IInv` says, for
every point of a restore, what is on disk: while preparing nothing has been
replaced and what was visited is staged or set aside (`PreparingInv`); while
swapping, files before the loop are new, those after it are old with a whole
staged copy, and all originals are set aside (`SwappingInv`); while putting back,
every file out of place is in `displaced` (`PuttingBackInv`). `Kept` says what
remains true of the disk when memory is gone, as long as a marker is there, and
`RollbackInv` and `FinishInv` that a recovery's plan, made from the disk, fits the
disk while it is applied. `SteadyInv` adds what `Steady` buys. `InvStep` has a
case per action. For the refinement the config is `name` when there is no marker
and `base` while there is one: removing the marker is what commits or aborts.
For the replies, `ReplyInv` adds what an undo has visited (`UndoneInv`), that every
directory was there at first or is recorded as created, in memory and in the
marker (`CreatedInv`), and that a rollback's plan holds all that is left
(`PlannedInv`). That a rollback replaces nothing needs that a restore's content is
in no file before it (`FreshInv`).

What holds of one restore needs no assumption on the operator: `SettledInv` and
`DurableInv` follow a restore by the set `tried` of actions that were begun on it. A
rollback needs of the marker only that it is there; a finish needs in addition that
each file is replaced or has its whole staged copy for as long as the marker says
swapping and no rollback was begun, which is where `Durable` comes in.

**When calls succeed.** `CleanInv` follows restores that meet no failure: nothing is
left when one begins, and each loop leaves what the next needs. For a recovery,
`TreeInv` says that what is there is in a directory that is there, before the restore
and now; so what a rollback finds in a created directory is a file the restore added, a
copy an earlier finish left, or a created directory, which comes first. `AllDirsInv`
says that the manifest's directories are all there once they are made, and under a
durable swapping marker until a rollback begins: so a finish's `Op::Chmod` finds each of
them, unless a rollback came before. With `EveryCallEnds` this says when the operator
gets through: a finish that no rollback came before needs only that calls stop failing
(and `Durable`, for its staged copies to be there); a rollback needs also that no
created directory is nested or had a file added. TLC finds each of the exceptions
(section 6).

**Why calls end.** `Closer` compares three things, one after another. `Ahead` counts the
kinds of call that can still follow: each loop of `materialize`, the marker written
before it, swap's error path, the loops of `undo`, `finish`; every `?` leads to a lower
one. `ToDo` is what the loop at hand has left: directories to record and to make, staged
copies to create and to fill, files to visit, steps of a recovery's plan. `Within`
orders the two halves of `write_marker`, the two removals `undo` does for a file and the
three calls of `Op::Install`. `EveryCallEnds` says that every step lowers the first of
these it changes, for which it takes `IInv` once: that what `Op::Install` finishes with
is a step still in the plan. A capture is compared by its reads, its attempts, where it
is and what its loop has left. With the fairness of section 3 this is why a call
returns; the conclusion itself is temporal and stays with TLC.

**Capture's argument.** Stamps only grow: what was read is at most what the file
held at the cut, which is at most what is stamped after it. If read and stamp are
equal, both equal the cut. `LocksInv` gives that a writer under a listed lock is
not midway.

**Manifests' argument.** A path of plain names is where its walk ends (`WalkOfNames`), so
two entries that lead to one place have one path, which `validate` refuses. That every
directory on the way is listed, and not only the last, is by going up one at a time from
an entry to its parent (`OnTheWay`); a file on the way would have the path of a listed
directory. Parents have fewer segments, so they are made first (`ParentsFirst`). A
capture skips what is transient and all below it, so what it lists has its parents
listed.

**Delete's argument.** Times are given out once and in order (`GrowsAtTheEnd`):
what a group gained since the dry run is later than all it had. So if the latest
is the same nothing was gained, and if the count is the same too nothing was lost. With
several groups in a target the latest is one of some group, and what another gained can
be older: that is the only way (`Deception`). `LossInv` follows what each step of
`run_with` has deleted to what was counted of it, and gives the same of what is lost.

**Enroll's argument.** `calm` marks a call that nothing has overlapped or failed.
`CalmInv` says that what a calm call has read is still so, part by part as it reads
(`SeesAll`); `UselessInv` that a secret it regenerates or removes is of no use.
`EnrollInv` and `RevokeInv` are the usual loop invariants of `run_with`:
whatever is not yet as it should be has its step among those kept. `AgainInv` is
what the first of two calm enrolls leaves for the second. `AclInv` ties the digest
to the entries a plan was made from. `TypeOK` itself needs a counting argument:
there are more secrets than calls can hold, so a new one is not known to anybody
(`FreshKeyIsNew`).

**Endpoints' argument.** While a call is `alone`, what it has read is still stored
(`ReadInv`), and what it has written and nobody doubts is what it was told
(`WrittenInv`); `AloneInv` says that nothing which changes an endpoint runs beside a
call of it that is alone.

**Maintenance's argument.** A digest is given out once (`CountInv`), so a step whose
digest is the file's was computed from the job as it stands (`StepInv`, with
`UpdateGivesWhatWasAsked`). For health two sets are carried along, the troubles that
have stood since the call began and those that have stood at some time; each part
of the report lies between them once it has been read (`HealthInv`).

**ConfigKind's argument.** `ManifestInv` says that the record which verifies a manifest
vouches for what was captured or is gone, so a verb goes on only with that manifest;
`CopyInv` that what has been looked at is as listed, unless it was written since;
`StaleInv` that from the last replacement on nothing becomes stale, and that a
container which is has still to be looked at by the second `ensure_stopped`.

**Times' argument.** `civil_from_days` counts eras of 146,097 days, years from March, and
months by a linear formula. The proof bounds each of its divisions in turn: the day of
the era, the year of the era (whose correction terms are one off at the end of a century
unless subtracted as they are), the day of the year, the month. What is stated is
independent of them: the days before a year by its leap days, and the lengths of months.

## 5. What is only model-checked, and what is not modelled

Only checked by TLC: liveness (`FilesSettle`, `WritersProceed`), which is out of the
prover's reach with the fairness it rests on. What is proved of it is that calls end
(`EveryCallEnds`, `EveryCaptureEnds`). The sum of the sizes in a manifest is a fold, which
the prover cannot unroll, so `CapturesAreAccepted` has the limits on sizes as hypotheses
and nothing is said of how the sum is computed. Its limit on depth (`descend`) is a
hypothesis too: a capture of a deeper tree fails and writes no manifest.

Not modelled:

- The container entrypoint: a shell script that starts, watches and stops two
  daemons of another project. How they behave is not in this repository.
- What a power loss leaves of writes that were not synced, but for the marker
  (`UnsyncedMarkers`). In particular `recover` removes the marker before it syncs
  the files it settled.
- A backup older than the latest that arrives late, by a sync that pulls it again:
  `ConfirmedDelete` gives each new backup the latest time.
- In `Capture`, whether a rewrite whose writer died halfway counts as midway: it is
  captured as it was left.
- Two restores, or a restore and a recovery, of one volume at once. Nothing in the
  code excludes them; the docs have the operator run one.
- The lists and views: one request and its rendering. Validation of names, decoding
  of responses, redaction, connection sharing, the TLS handshake, the descriptor and
  the wording of replies.
- Which snapshots a prune takes: PBS chooses (`Doomed`), so of `PrunesAsConfirmed` only
  the part about confirmed groups is about this code.
- `require_admin`, which reads nothing but the caller.

Hazards (`PROJECT.json`) that a property covers only in part, or not at all:

- A swapping marker renamed into place and then not synced (`config_backup.rs:1213`):
  kept out by `Durable` in the proofs and by `UnsyncedMarkers` in the run.
  `ReportsAreTrue` and `RollbackReplacesNothing` hold without that assumption.
- A revoke that an enroll overlaps (`enroll.rs:747`) and a connect that an update
  overlaps (`endpoint.rs:98`): `RemovesOnlyUseless` and `ConnectsAsTold` are about calls
  that no other overlaps. Under an overlap the code takes no lock and promises nothing of
  them. `Converges` says that the next enroll repairs what the first leaves; of the
  second nothing is shown.
- A backup that took the place of the one a cut-off restore was made from: a finish
  refuses it (`Finishable`'s comparison with the marker), but without that the last
  verification would still turn the reply into a failure, so `RestoredIsWhatWasCaptured`
  does not depend on it.

## 6. Findings

Where the code does something else than a doc or comment says, a run shows it:

- `finish_then_rollback`: a finish cut off after some files, then rolled back,
  reports success over a mixture: the finish had dropped the originals of the
  files it installed (`config_backup.rs:1825`).
- `rollback_then_finish`: the rollback of a swapping marker does not first mark it
  as rolling back, so a cut-off rollback can still be "finished"
  (`config_backup.rs:1944`).
- `stuck_rollback`: a rollback cut off between removing a nested created
  directory's parent and removing the marker can never be completed
  (`config_backup.rs:1894`).
- `capture_during_restore`: a restore takes no lock and a capture does not look
  for one, so a mixture can be captured (`config_backup.rs:859`).
- `namespace_delete`: a namespace's fingerprint counts groups and snapshots and
  takes the latest time of all; two changes can cancel out (`api.rs:367`).

### Observations

What the models make visible and no document contradicts:

- The parent that is gone (`stuck_rollback`) is one of three ways in which a rollback gets
  stuck, which `RecoveriesFailOnlyFor` proves to be all. In a directory the restore made,
  a file that it had already added is kept (`Op::Keep`, `config_backup.rs:1858`), and the
  directory's removal then fails each time; if the restore was rolling back when it was cut
  off, no finish applies either, so only removing the file by hand helps. And a finish
  that died in `Op::Install` leaves a copy there which the rollback would remove only
  after the directory.
- `config_recover` checks that the container is stopped before it applies a plan and,
  unlike a restore, not after it (`config_backup.rs:2567`): a container that starts in
  between runs on a mixture and nobody is told.
- A finish after a rollback that removed a directory fails at that directory's
  `Op::Chmod` (`config_backup.rs:1630`) and keeps its marker, each time; only repeating
  the rollback can settle it.
- A `.next` of the marker that can be neither written nor discarded is only logged
  (`config_backup.rs:1218`): the restore fails with nothing changed, and the next one is
  refused until a recovery settles it.
- A `finish` where there is no marker (only unlisted leftovers) plans the steps of a
  rollback and reports no verification, but succeeds (`config_backup.rs:1767`).
- `pbs_create` inserts the row before the secret and the pin (`endpoint.rs:216`): a
  connect in between uses no pin; with `insecure` it trusts any certificate.
- A delete that fails halfway may leave a pin, which a later create of that name
  without a pin takes over; `Endpoints` counts it among what is in doubt.
- A job update that both sets and clears a key that is there sends both
  (`jobs.rs:193`), and plans a step again each time it is repeated. `Maintenance`'s
  requests never ask for both.
- A prune's item names the group but neither the policy nor the snapshots
  (`groups.rs:535`): what was confirmed with one policy can be executed with another.
  `PrunesAsConfirmed` says what holds all the same.
- A plan's item names action and target but not the body (`plan.rs:83`): a confirmed
  `update-user` or `regenerate-token` also enables an account that was disabled after
  the dry run.
- `parse_offset` takes a second sign before the hours or the minutes, as in `+-5:00`
  (`times.rs:85`).
- The server's offset is the one of now (`times.rs:63`), so an instant on the other
  side of a change to or from summer time is shown an hour off.

## 7. What could come next

1. Durability in `Restore`: writes that are lost unless synced, for every file and
   not only the marker, and with it the order of `recover`'s last steps.
2. Two restores of one volume at once, from the leftovers check on.
3. The entrypoint, with an abstract daemon: start order with a stale `api.pid`, one
   daemon dying, SIGTERM at any point.
