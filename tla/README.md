# Verification of Chamber

TLA+ models, model checking and machine-checked proofs for Chamber: rootless
container tooling in Go (an image store with a BuildKit builder, a bundle
provisioner, a runc runtime, all under `pkg/`), and `cmd/ci`, a CI server built
on it.

Contents: [the system](#the-system) (inventory), [modules](#modules-and-the-code),
[runs](#runs), [bounds](#bounds), [fairness](#fairness),
[deviations found](#deviations-found), [proofs](#proofs),
[not modelled](#not-modelled), [plan](#plan). `PROJECT.json` maps every
definition to the lines it models and lists the hazards each property is for.

## The system

| Part | Source | State | Operations | What is hard |
|---|---|---|---|---|
| CI job table | `cmd/ci/store.go`, `sqlite.go` | one row per commit: state, message, reported, cleaned, version | Admit, Claim, Finish, Unsettled, Acknowledge, MarkCleaned, RecoverInterrupted, CancelQueued | limits under concurrent clients; an acknowledgement that crosses a later change |
| CI server process | `cmd/ci/server.go`, `main.go`, `github.go` | server fields under `mu`, two contexts, a goroutine per job, dispatcher, status loop, update goroutine | webhooks, update request, runJob, reports, clean-up, `stop`, exec | signals, updates, failing stores and crashes in any order |
| CI job execution | `cmd/ci/executor.go` | workspace, bundle, container, runc's state | executeJob, cleanupJob | cancellation against runc's own progress; what a crash leaves |
| CI installation and self-update | `cmd/ci/files.go`, `update.go`, `preflight.go`, `main.go` | passcode, marker, database, executable and its backup | updatePasscode, writeAtomic, buildUpdate, checkCandidate, replaceProcess | crashes and power loss between file operations |
| Image store, metadata | `pkg/image/internal/store`, `metadata` | shared OCI layout, index.json, one record per image, two mutexes | New, Pull, Build, Remove, List | two files that must agree; interrupted copies; lock given back during a download |
| BuildKit builder | `pkg/image/internal/buildkit` | build directories, daemon, the goroutine waiting for it | Build | one exit value, two receivers; daemon against its directories |
| Managed tools | `buildkit/install.go`, `archive.go`, `runc/runtime.go`, `directory/userns.go` | executables in shared directories | installTools, installBinary, installUnpackHelper | several installers without a lock; half installed archives |
| Container runtime | `pkg/runtime` | nothing of its own: runc's state, a process and a goroutine per launch, bundle, log files | Run, RunImage, RunAndWait, Open, Wait, Delete, Signal, DeleteLog | an ID used again; handles that outlive their launch; calls that fail half way |
| Bundle provisioner | `pkg/bundle/internal/directory` | staging directories and bundles | Provision, Remove | interrupted extraction and removal with files of other users; a host reconfigured between them |
| User namespace | `directory/userns.go` | two host files, read once | currentUserNamespace | boundaries of 32-bit ranges |
| the rest | see [not modelled](#not-modelled) | none, or one value | | |

How they interact: a webhook admits a row; the dispatcher claims it and
`runJob` calls `executeJob`, which checks the source out, asks the image store
to build, has the bundle provisioner make a bundle and the runtime run it. The
verdict goes into the row with Finish; the status loop sends rows to GitHub,
acknowledges the version it sent, and has `cleanupJob` remove the workspace.
An update builds a candidate while jobs go on, drains them, and replaces the
process, which starts again on the same table, lock and socket.

The properties that make each part correct are listed with its run below.

## Modules and the code

**JobStore** is `sqliteStore`: a variable per column, an action per method, each
one transaction. `StoreSpec` lets any client call anything at any time.
A failed call has no effect; one whose answer was lost may have had its effect
(`FinishRepeated`). Jobs are numbers in the order of `created`.

**CIServer** extends JobStore with the process. `phase` follows `main` and
`serve`; `prep` follows `prepareUpdate`; `exec[j]` the `runJob` goroutine of a
job; `rpc`, `rver`, `rstat`, `dirty` the two users of `reportJobStatuses` (the
loop, and the synchronous calls of an update and of `stop`); `workspace[j]` what is
left of a job on disk, `stuck` once a clean-up has met remains that none can remove.
A step is what a
goroutine does between two points where another one can act; what it does under
`mu` or in one transaction is one step. A crash (`Crash`) leaves only the table,
the workspaces and what GitHub shows.

**CommitStatus** is the abstract specification: what a reader of commit statuses
is promised. `CIServer!ImplementsCommitStatus` instantiates it with the verdicts
taken from the rows and `gh` as what is shown.

**JobExecution** is one job: `pc` follows `executeJob` through its stages and
its deferred calls; `runc`, `box`, `code` are the external `runc run` process and
container, `watch` the goroutine of `newRuncContainer`; `clean` follows
`cleanupJob`. `missed` is a history variable: a look for the container came
before runc had created it. A call of Remove either leaves nothing
(`BundleRemoved`) or fails (`BundleResists`), before it touches the bundle or half
way; `stuck` are remains on which every Remove fails: a torn config.json, or a
mapped root filesystem without one. Which bundles become so is
BundleProvisioner's; here any launch, removal or death cut off may leave one.

**ContainerRuntime** is `pkg/runtime` for any program that embeds it, where
JobExecution has the one embedder of this repository. One container ID is
launched again and again; the embedder makes one call on it at a time
(`README.md` demands that) and otherwise any call, on any handle it has. `pc` and
`cur` are the call in progress and its launch; `held`, `failed`, `released` what
the embedder was told; `proc`, `box`, `live` the external runc; `watch` the
goroutine of each launch; `bundle`, `logs` the disk. `quiet` says whether this runc
passes over a missing container in `delete --force`, which versions of runc do
differently: both are checked. Remove and `stuck` are as in JobExecution. `missed` is a history variable: the launches that
the latest `runc delete` could not see since runc was still creating them.

**Installation** is `updatePasscode`, `buildUpdate`, `checkCandidate` and
`replaceProcess` at the grain of single file operations. `seen` is what a process
sees; `past[d]` is the set of states directory `d` may have after the machine
stops, that is every one since its last sync; `loose` are contents that were not
synced. The file system is assumed to keep the order of name changes within a
directory. On one that does not, a process crash between the passcode's rename
and its sync, followed by a power loss between the marker's rename and its sync,
could keep the marker and lose the passcode.

**ImageStore** is `Store` with its metadata. Each caller (`work[w]`) goes through
Pull, Build or Remove step by step; `mu` and `buildMu` are the two mutexes; the
layout, index and records are the disk. Blobs and their children are constants.
A crash keeps the disk. What is delivered is an
index of manifests that may carry a name, a platform, both or neither, and
`Select` is the code's choice among them (`Matching`, `Named`, `Candidates`).

**ImageBuild** is `Builder.Build`: `pc` follows it through readiness, buildctl and
extraction to the deferred stop of the daemon and removal of the directories;
`waiter` is the goroutine that sends the daemon's exit.

**Builder** composes ToolInstall with ImageBuild: a builder's construction is one
of the installers, its builds start once it has succeeded, and the other
installers go on meanwhile.

**ToolInstall** is all four download paths as one installer that walks a plan:
probe or checksum, download, verify, rename each tool. Version strings and
archives are abstracted to a content that is a version or `bad`.

**BundleProvisioner** is Provision and Remove. A directory is abstracted to what
its removal depends on: root filesystem and whose files it has, config.json and
what it records, and whether its removal has begun (`cut`). The namespace `ns` is
chosen when a process starts; after `Crash` the host may have been reconfigured,
while each config.json keeps the mappings it was written with.

**UserNamespace** has no state: `Found`, `Proper`, `Maps`, `Usable` say what
`currentUserNamespace` makes of `/etc/subuid` and `/etc/subgid`, and `Mapped` is the check
of a process's user. BundleProvisioner extends it.

`MC...` modules only give constants their values and symmetry. `...Proofs`
modules hold the theorems; UserNamespace's are in BundleProvisionerProofs, those of
ToolInstall and ImageBuild in BuilderProofs. Operators named `Faulty...` are no part of any
specification: each is a definition as a plausible bug would have it, and the
property listed with it in `PROJECT.json` fails when it takes the place of the
sound one.

What one module abstracts, another models: CIServer's `execute` returns any
result after any time, which JobExecution refines; the inside of Provision,
Remove and Build in JobExecution is BundleProvisioner's and ImageBuild's; the
hand-over in Installation is CIServer's.

## Runs

| Run | Distinct states | What it shows |
|---|---|---|
| `ci_jobs` | 841,805 | With crashes, signals and failing calls: the columns of a row agree and its state only moves forward, an execution holds its running row, slots are neither exceeded nor lost, what is acknowledged is what GitHub shows, clean-up never touches a job that may still run and marks no row whose workspace is still there |
| `ci_update` | 2.1 million | Updates and stops: the hand-over is quiet, no executing job is cancelled, a failed update resumes, a stop settles every job; the server implements CommitStatus |
| `ci_live` | 206,472 | Liveness: every job gets a verdict and is cleaned, unless its own workspace holds remains that no clean-up can remove, and every update ends, also while GitHub is down; every verdict reaches GitHub if it answers now and then |
| `ci_exit` | violation | See [deviations](#deviations-found) |
| `job` | 1,507 | A verdict is earned, a bundle outlives its container, a clean-up that succeeds leaves nothing; liveness: executeJob returns when its time is over, clean-up finishes from every state it can find but two: private directories of a build, and a bundle that no Remove can take away |
| `bundle` | 1,845,663 | A bundle is complete, its user mapped, or absent, and replaced by nobody; the namespace is one to one; no staging directory is lost silently; Remove is thorough; which remains stick, also on a host reconfigured in between |
| `bundle_torn` | violation | See below |
| `image_store` | 227,391 | After any crash the index lists only complete images, at most one per name and platform; records have entries and exact sizes; what a call returns is usable; PullIfMissing leaves a usable image alone, also one that appeared during its download |
| `image_default` | violation | See below |
| `runtime` | 377,211 | What Delete and a failed launch promise is true whatever comes next; a log stays until DeleteLog, also when its ID is used again; liveness: a Delete that is repeated succeeds, unless an earlier removal of the bundle was cut off between config.json and the mapped root filesystem |
| `builder` | 124,550 | What is reported installed is usable and stays so during a build, though others install beside it; a tool in place is only replaced by a verified one; directories outlive the daemon; success leaves nothing but the layout; liveness: Build returns once its context has ended |
| `installation` | 159,693 | After any crash or power loss a whole executable is installed; no start makes all later ones impossible; a passcode is never replaced; the server runs what is installed |

Some invariants are conjunctions of named parts: `LayoutIsSound`,
`RecordsAreSound`, `DirectoriesAreSound`, `NothingIsLeft`, `ToolsAreSound`,
`FilesAreSound`, `TableIsSound`, `SlotsAreSound` and `OutcomesAreTrue` each hold a
module's type invariant or several parts of one idea.
CIServer's `TypeOK` contains JobStore's `StoreTypeOK`. The order of the queue
(`OldestFirst`) is proved and has no run.

Deadlock is checked except in `job`, `builder` and `runtime`, where one job, a build and
the installations beside it, or the last launch come to their end and nothing has to follow.

## Bounds

- Two jobs, `max_queued` and `max_parallel` of one: two jobs are enough for a job
  to be refused for a full queue, to wait for a slot, and to run beside the
  reports and the clean-up of another. The proofs about the table and the server
  cover all other sizes.
- `Troubles` names the faults a CIServer run injects. Each run has those its
  properties are about, since all at once exceed what TLC does in minutes;
  `ci_live` leaves out signals and failing store calls, and lets a job's own
  result be an error only. `ci_jobs` and `ci_live` have workspaces that turn out to
  be stuck (`remains`), `ci_live` so that one of them is seen beside a sound one.
- One image name on two platforms with two callers; an image index of two
  manifests that share a layer, one of which lists it twice: the smallest graph
  with sharing inside and between manifests. Deliveries are labelled in full, not at all,
  with their platform only, or so that no manifest can be told. Callers of different
  names interact only through the index and the blobs, which two platforms show.
- One bundle ID with two callers and two staging names: callers of different IDs
  share nothing. Faults are unbounded. IDs end at `MaxID` = 7 instead of 2^32-1; of
  six hosts one has no subordinate IDs, one grants a range of two, and the other four
  (one file grants and the other does not; a range covers the caller, starts at zero,
  or ends beyond the width) must be refused. The processes run as container
  root, or as a user only the second host maps.
- ContainerRuntime has `MaxRuns` = 2 launches of the ID: one reuse. A third would
  meet the same states of disk and runc that the second one does. Operations on
  opened handles, signals and crashes are unbounded.
- Installation has three executables (the one running, its backup, the
  candidate) and two passcodes, so that a replaced one is noticed. A build is
  always a file of its own, so it is drawn from those not in use; somebody
  tampers with the installation once.
- Builder has one archive of two tools and one pinned binary, two versions, and
  two installers, of which one is the construction of the builder.
- JobExecution and ImageBuild need no bound: they are finite.

## Fairness

- CIServer: goroutines that can run do (Go's scheduler, weak fairness for each);
  a job ends (`job_timeout`); the service is started again (`ci.service`); faults,
  signals and update requests end some time (`BecomeCalm`), though failures of
  GitHub and of clean-ups of a stuck workspace need not: these fail for ever, in calm
  times too. That of the statuses sent again and again one is accepted some time
  (`GitHubAnswers`) is no part of the specification; it is the condition of
  `VerdictsShown`.
- JobExecution: a job's context ends; commands under it are killed and so their
  stage ends; `runc delete` and removals end. Nothing is assumed of `runc run`. An
  attempt of the clean-up that can succeed does some time, since the status loop
  tries for ever; on private directories or a stuck bundle none can, and
  nothing is assumed of it.
- ContainerRuntime: a call that was begun ends, as its context does; the embedder
  calls Delete again until it returns nil, as the clean-up contract of `README.md`
  asks, and a call that can succeed does some time. A removal of a
  stuck bundle never can, and nothing is assumed of `runc run`.
- Builder: the caller's context, the readiness and the shutdown timers end, SIGKILL works. Nothing is
  assumed of the installers.

## Deviations found

Each is a run that must fail: the property states what a document or a comment
says, and TLC gives the behaviour of the code against it.

| Run | Statement | What the code does |
|---|---|---|
| `ci_exit` | `cmd/ci/README.md:124-125`: normal shutdown marks queued jobs errored | A signal after `serve` chose the update (`server.go:94`) ends the process without error and leaves the queue (`main.go:151`) |
| `bundle_torn` | `userns.go:246-247`: interrupted staging directories remain removable | `provisioner.go:500` truncates config.json in place; a crash there makes every later removal fail |
| `image_default` | `pkg/image/contract.go:44-46`: PullIfMissing reuses an existing image | a call cancelled between index and record makes later default pulls fail, although the image is there (`store.go:412`) |

Other deviations are exceptions that an invariant names, so that everything else
is still checked:

- `bundle`: one `rm -rf` cut off after config.json and before rootfs leaves files
  the caller cannot remove (`userns.go:328`), against the same comment as
  `bundle_torn`. `OnlyTornBundlesStick`: only these two kinds of remains stick.
- `job`, `runtime`, `ci_live`, stuck bundles: what that means further up. A clean-up
  that meets such remains fails at every retry, and so does a repeated Delete after
  the second kind; the row of the job is never marked cleaned:
  the retries of `cmd/ci/README.md:124` do not help it. `CleanupFinishes`, `ReleaseSucceeds` and
  `JobsEnd` name them as exceptions, and `JobsEnd` shows that they hold up no other job.
- `job`, `snapshots`: a CI process that dies during a build leaves directories of
  subordinate IDs in the workspace. `buildkit.go:227-229` says an embedding
  application's clean-up should not meet such files, but it does, and takes them
  for ordinary ones (`os.RemoveAll`, `executor.go:222`), so it fails at every
  retry. `CleanupFinishes` names this as its other exception, and `JobsEnd` has it in
  its stuck workspaces.
- `job`, `missed`: Delete after a cancelled Wait finds no container when runc has
  not created it yet, and succeeds (`runtime.go:730`); `README.md:48-50` says that
  it terminates any remaining container. `BundleOutlivesContainer` and the part of
  `CleanedIsClean` about the container except this case. `executeJob` deletes once
  more after its wait, which usually ends such a container; nothing makes sure of it.
- `runtime`, `missed`: the same seen from any embedder: `ReleasedIsGone` leaves out
  the launches that the latest `runc delete` came too early for.
- `job`, `refused`: when runc cannot create the container, the exit code of
  `runc run` is taken for the container's (`executor.go:157`) and the job is
  failed, where `cmd/ci/README.md:5-7` says that runtime failures are errors.
- `builder`: managed BuildKit and RootlessKit are accepted because they answer
  `--version`, whatever it is; nothing in the repository says more, so
  `InstalledIsUsable` asks for the configured version only of pinned binaries.
- `image_store`: a crash while oci-layout is being created leaves a file `New`
  refuses; `README.md:64-65` leaves that to the caller, and so does the model
  (`CallerCleansUp`).

What the models contain and no property forbids, for a reader of the code:

- After a failed launch RunImage's Remove may fail as well (`image.go:58`), also
  before it touches the bundle: the caller gets both errors, no handle, and a bundle
  that may be complete. The CI leaves it to `cleanupJob`.
- After an error of its callback RunAndWait deletes the container but drops the
  result (`runtime.go`, RunAndWait): the caller cannot tell that it remains.
- A handle acts by container ID: one kept from an earlier launch deletes or waits
  upon the container of a later one.
- An image whose manifest names another platform is accepted for the one asked
  for if it is the only one delivered, and is then indexed under the latter.
- A build of several platforms (BuildKit can be told so by a build argument)
  commits an image index under one name; the provisioner later refuses it.

## Proofs

`tlapm` checks every theorem for all values of the constants that the modules'
assumptions allow: any set of jobs (natural numbers) and limits, any hosts and
widths, images, callers, executables, plans of downloads and installers. The
assumptions are `JobsAssumption` and `LimitsAssumption` (JobStore),
`ResultsAssumption` and `TroublesAssumption` (CIServer), `IDAssumption`
(UserNamespace), `BundleAssumption` and `NoDirAssumption` (BundleProvisioner),
`RunsAssumption` (ContainerRuntime), `InstallationAssumption` (Installation),
`ImageAssumption` (ImageStore), `ToolAssumption` (ToolInstall) and
`SelfAssumption` (Builder). Each says what the code's types give (blobs are
finite in number, a reference is its name and platform, a pinned tool is
downloaded alone) or that a value standing for "nothing" is no other value. TLC
evaluates them all on the runs.

Every safety property a run checks, invariant or action property, is the
property of a theorem. As a rule the property is not
inductive by itself; a stronger invariant is, which TLC checked on the run's instance
before it was proved; each action keeps it; and the property follows from it
or, for an action property, from it and the step.

BundleProvisionerProofs, `AcceptedMapsAreOneToOne`, for all files and IDs: what
`subordinateRange` accepts maps no two container IDs to one host ID, never leaves the
width, and gives the caller's ID to container root only. A file's first entry
decides (`FoundIsUnique`), so there are two mappings at most, `Proper` keeps the
second off the first, and the sum it compares cannot wrap.

BundleProvisionerProofs, for any number of bundles, callers and staging names:

- `ProvisionerNamespaceIsSound` carries the theorem above into every
  behaviour of the provisioner, restarts on other hosts included.
- All five properties of the run `bundle`: `ProvisionerDirectoriesAreSound`,
  `ProvisionerStagingIsAccountedFor`, `ProvisionerOnlyTornBundlesStick`,
  `ProvisionerBundleIsNotReplaced`, `ProvisionerRemoveIsThorough`, from `BundleInv`.
  That a bundle is complete is not inductive: at the rename it must be known what
  the staging directory holds. `StagingFits` says that for each step of a
  Provision; `CallsApart` that no other call touches the directory meanwhile;
  `RemainsAreKnown` what a directory left in the middle of anything looks like;
  `StagingFirst` that Remove comes to the bundle last. Two lemmas carry most
  steps: a step that changes the caller's own directory (`OwnDirChanges`), and one
  that changes none (`OnlyStepChanges`).

ContainerRuntimeProofs, for any number of launches of the container ID:
`RuntimeOutcomesAreTrue` and `RuntimeLogsAreKept`, the two safety properties of the run
`runtime`, from `RuntimeInv`. What an outcome promises is not inductive by itself: that
a failed launch leaves nothing needs `LaunchIsFresh` (a launch on its way has no
process yet, and its log files once it has made them), that a released one
leaves nothing needs `CallIsOnLaunch` (Delete turns to the bundle only when the
container is gone), and that neither comes back needs `FutureIsEmpty`. One lemma,
`DeletionKeepsInv`, stands for every way a Delete goes on after `runc delete`.

JobStoreProofs, for any clients of the table:
`StoreTypeCorrect`, `StoreConsistent` (`RowsConsistent` is inductive with the
type invariant), `StoreWithinLimits` (a set that grows by one element grows in
size by one, and Admit and Claim compare the size first), `StoreMovesForward`,
`StoreOldestFirst`.

CIServerProofs, for the server with every kind of trouble:

- `ServerTypeCorrect` and `ServerExecutionHoldsRow` from `ExecInv`.
  `ExecutionHoldsRow` alone is not inductive: `stop()` rewrites running rows, and
  what protects them is that no goroutine lives by then. `ExecInv` adds that
  executions live only while the dispatcher does, the dispatcher only in two
  phases, and that a verdict being saved is terminal.
- `ServerImplementsStore`: every step of the server is one of JobStore's or
  leaves the table alone. So all that is proved of the table holds of the server:
  `ServerTableIsSound`, `ServerMovesForward`, and the limits in `ServerSlotsAreSound`.
- `ServerParallelBound`: executions are a subset of the running rows, which
  the table limits.
- `ServerNoOrphanSlot`, `ServerUpdateSparesJobs`, `ServerHandoffIsQuiet`,
  `ServerFailedUpdateResumes`, `ServerStopSettlesJobs` from `ControlInv`, which
  says for each phase and each stage of an update which contexts are cancelled,
  which goroutines still live and which rows can exist. Each of the five
  properties needs facts of the others (that an update's drain is over needs
  that nothing was claimed since; that needs the dispatcher's end), so they are
  proved together.

- `ServerReportedIsShown` from `ReportInv`. Its core is `Pledge`: each row on a
  reporter's list carries the version it had when it was read, and if the row
  still has that version, the status on the list is its own; if not, the
  acknowledgement will not apply. Three callers share the list's code, but
  `OneReporter` (from `ControlInv`) says that two of them are never at it at once.
- `ServerCleanupIsSafe` from `CleanupInv`: a row on the clean-up list has its
  verdict, verdicts stay (`ServerMovesForward`), and the row about to be marked has
  lost its workspace.
- `ServerImplementsCommitStatus`: initial states map to initial states, and every
  step to one of CommitStatus or to a stutter. A post is an abstract step because
  its status is pledged, a write to a row because a verdict never changes.

InstallationProofs, for any executables and passcodes: `InstallationFilesAreSound`,
`InstallationTraceHasPasscode`, `InstallationServingIsInstalled`,
`InstallationPasscodeIsKept` from `InstallationInv`. What a crash may bring back is a set
of listings (`past`), so the invariant speaks of all of them: each has a whole
executable, a passcode that is the one seen now or none, and the passcode with the
marker or the database. `StartIsSound` and `UpdateIsSound` say what each step of a
start and of an update has found or synced, and so what its next rename may publish.

ImageStoreProofs, for any graph of blobs (shared, repeated or cyclic), any
references and any number of callers: `ImagesLayoutIsSound`,
`ImagesRecordsAreSound`, `ImagesReturnedIsUsable`, `ImagesIfMissingKeepsImage` from
`ImageInv`. What lies below an image is the smallest closed set that holds it
(`ReachIsClosed`, `ReachIsLeast`), and `CopyIsSound` is the invariant of the
traversal: what was seen is on disk and below the image, and lists only what was
seen or is still to be. When nothing is left the two sets are equal, whence the
index's completeness and the exact size. `CallIsSound` carries that from the end of
the copy to the index and the record, and `MutexHeld` keeps other writers away.

BuilderProofs, for any plan of downloads, versions and number of installers:

- `ToolsInstalledAreUsable` and `ToolsAreNeverDegraded` of the installation alone, from
  `InstallInv`: an installer has every download before its own in place, and of
  its own the tools it has written; others disturb that only by writing what is
  configured (`EstablishedStays`), and nobody reconfigures meanwhile.
- `BuilderImplementsBoth`: every behaviour of a builder is one of the installation
  and one of the build, so what is proved of either alone holds of the two together.
- `BuilderToolsAreSound`, `BuilderToolsAreNeverDegraded`, `BuilderDirsOutliveDaemon`,
  `BuilderSuccessIsClean` from `HostInv`, which joins `InstallInv`, `BuildInv` (the
  goroutine has seen the daemon's end before the clean-up begins) and that a build
  runs only after its construction.

JobExecutionProofs: `JobVerdictIsEarned`, `JobBundleOutlivesContainer`, `JobNothingIsLeft`
from `JobInv`. The module has no constants, so here TLC has checked every
behaviour already; the proof adds why they hold. That a failure is never a
container the CI killed rests on `PathInv` (nothing deletes before or beside
`Wait`), that a bundle outlives its container on `Released`, which every step that
removes a bundle has established, unless a look was `missed`.

Only model-checked: liveness (fairness and ENABLED are beyond the prover), that is
`JobsEnd`, `UpdatesEnd`, `VerdictsShown`, `ExecutionReturns`, `CleanupFinishes`,
`ReleaseSucceeds` and `BuildReturns`; and the three runs that must fail, which are
counterexamples.

## Not modelled

- Webhook parsing and signatures, configuration, container IDs, error codes: pure
  functions of one input.
- Registry client, OCI layout validation, archive contents: data. A fetch yields any layout or fails.
- Host probes, factories, the probes and modes of private workspaces: checks at
  construction. Their exclusive creation of a file is `CreatePrivate`.
- What logs contain and how long they grow: of a job's log only that opening it may
  fail; of a container's log whose it is.
- The log directory a failed launch leaves empty, and umoci's unpack view
  (`.unpack-image-*`) left by a crash: no later step reads them.
- A `newuidmap` that refuses ranges which are no longer granted: one more reason for
  "failure" in BundleProvisioner.
- A candidate executable or a temporary file left by a crash: a leak that no step reads.
- Requests to GitHub that take effect after their caller gave up on them: the
  server cannot prevent it, the API has no sequence numbers, and no document says
  otherwise (named with the hazard at `server.go:323`).
- Power loss for the stores other than Installation: SQLite's and
  `index.json`'s durability is taken from their fsync; a process crash is
  modelled everywhere.
- Scripts and the local smoke test.

## Plan

Done, in this order: JobStore and its proofs; CIServer, its runs and proofs;
CommitStatus; BundleProvisioner; ImageStore; JobExecution; ImageBuild;
ToolInstall and Builder; Installation; UserNamespace, its place in
BundleProvisioner and the proofs of both; the selection of manifests in ImageStore;
ContainerRuntime and its proofs.

Done since, all as proofs: what CIServer reports and cleans up, and its refinement
of CommitStatus; Installation; ImageStore; ToolInstall, ImageBuild and Builder;
JobExecution. With that every safety property of a run has its theorem.

Next, proofs: that an image store implements a catalogue of complete images with
atomic operations, up to the deviation above; that CIServer's `execute` and the
inside of JobExecution's stages are implemented by the modules that detail them.

Models that could still be added: a composition of several JobExecutions that
share one image store and one builder's tools; an abstract specification of the image
store (a map from references to complete images with atomic operations) that
ImageStore refines up to the deviation above; the byte count of a bounded log.
