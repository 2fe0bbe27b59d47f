---------------------------- MODULE JobExecution ----------------------------
(***************************************************************************)
(* One CI job from checkout to clean-up: executeJob and cleanupJob         *)
(* (cmd/ci/executor.go) driving a container of the runc runtime            *)
(* (pkg/runtime/internal/runc: RunImage, Run, Wait, Delete, Open) that     *)
(* runs beside them as a process of its own.                               *)
(*                                                                         *)
(* The runc run process, the container it starts and the runc delete       *)
(* command are external: they are modelled from how the runtime uses them. *)
(* The job's row, its reports and the retries of its clean-up are          *)
(* CIServer's; the inside of Provision and Remove is BundleProvisioner's.  *)
(***************************************************************************)

VARIABLES
  pc,         \* where executeJob is
  cancelled,  \* the job's context has ended: job_timeout, or the server stops
  verdict,    \* the state runJob saves
  work,       \* the job's workspace: "none", "present", "gone"
  bundle,     \* the job's bundle or its staging directory: "ready" to run, "partial", or
              \* "stuck", remains that every removal fails on
  runc,       \* the runc run process
  box,        \* runc's state directory and the container it stands for
  code,       \* how runc run ended
  watch,      \* the goroutine of newRuncContainer; "lost": its process died
  snapshots,  \* BuildKit's directories below the workspace: "private" ones hold files of
              \* subordinate IDs
  clean,      \* where cleanupJob is
  missed      \* a look for the container came while runc run was still creating it

execution == <<pc, cancelled, verdict>>
container == <<runc, box, code, watch>>
files == <<work, bundle, snapshots>>
vars == <<execution, container, files, clean, missed>>

Stages == {"checkout", "build", "setup", "provision", "launch"}
Verdicts == {"none", "success", "failure", "error"}
Codes == {"none", "zero", "nonzero", "killed", "refused", "nocode"}

Init ==
  /\ pc = "none" /\ cancelled = FALSE /\ verdict = "none"
  /\ work = "none" /\ bundle = "none" /\ snapshots = "none"
  /\ runc = "none" /\ box = "none" /\ code = "none" /\ watch = "none"
  /\ clean = "off" /\ missed = FALSE

----------------------------------------------------------------------------
(* executeJob up to the launch *)

FaultySettle(v) ==
  /\ pc' = "returned" /\ verdict' = v /\ UNCHANGED cancelled

\* executeJob returns; runJob saves "error" whatever it returned once the context has ended.
Settle(v) ==
  /\ pc' = "returned"
  /\ verdict' = IF cancelled THEN "error" ELSE v
  /\ UNCHANGED cancelled

Advance(next) == pc' = next /\ UNCHANGED <<cancelled, verdict>>

\* Remove cannot decode a torn config.json; without a config.json it goes on as the CI's own
\* user, whom the files of mapped users resist.
BundleRemoved == bundle # "stuck" /\ bundle' = "none"

\* A removal fails before it touches the bundle, or half way: also with config.json gone
\* before a mapped root filesystem.
BundleResists ==
  bundle' \in {bundle} \cup IF bundle \in {"ready", "partial"} THEN {"partial", "stuck"} ELSE {}

Start ==
  /\ pc = "none"
  /\ work' = "present"
  /\ Advance("checkout")
  /\ UNCHANGED <<container, bundle, snapshots, clean, missed>>

\* job_timeout, or the server cancelling its executions.
Cancel ==
  /\ pc \notin {"none", "returned"} /\ ~cancelled
  /\ cancelled' = TRUE
  /\ UNCHANGED <<pc, verdict, container, files, clean, missed>>

\* The commit, fetched by its SHA or else by its ref, is the one the webhook named.
CheckedOut ==
  /\ pc = "checkout" /\ Advance("build")
  /\ UNCHANGED <<container, files, clean, missed>>

CheckoutFails ==
  /\ pc = "checkout" /\ Settle("error")
  /\ UNCHANGED <<container, files, clean, missed>>

Built ==
  /\ pc = "build" /\ Advance("setup")
  /\ UNCHANGED <<container, files, clean, missed>>

\* No regular Dockerfile.chamber, or Build fails, also because it cannot remove its
\* directories: a failure. NewStore: an error.
BuildFails ==
  /\ pc = "build"
  /\ \/ Settle("failure") /\ snapshots' \in {"none", "private"}
     \/ Settle("error") /\ UNCHANGED snapshots
  /\ UNCHANGED <<container, work, bundle, clean, missed>>

\* NewRuntime, then RunImage up to its call of Provision.
SetUp ==
  /\ pc = "setup"
  /\ Advance("provision")
  /\ UNCHANGED <<container, files, clean, missed>>

SetupFails ==
  /\ pc = "setup" /\ Settle("error")
  /\ UNCHANGED <<container, files, clean, missed>>

Provisioned ==
  /\ pc = "provision"
  /\ bundle' = "ready" /\ Advance("launch")
  /\ UNCHANGED <<container, work, snapshots, clean, missed>>

\* Provision removes its staging directory, unless that fails too.
ProvisionFails ==
  /\ pc = "provision"
  /\ bundle' \in {"none", "partial", "stuck"} /\ Settle("error")
  /\ UNCHANGED <<container, work, snapshots, clean, missed>>

\* Run refuses an ended context, opens the logs and starts runc run; newRuncContainer
\* starts the goroutine that waits for it.
Launch ==
  /\ pc = "launch" /\ ~cancelled
  /\ runc' = "creating" /\ watch' = "waiting"
  /\ Advance("wait")
  /\ UNCHANGED <<box, code, files, clean, missed>>

LaunchFails ==
  /\ pc = "launch" /\ Advance("rollback")
  /\ UNCHANGED <<container, files, clean, missed>>

\* RunImage removes the bundle of a failed launch, outside the job's context; an error of
\* its own is joined to the launch's.
Rollback ==
  /\ pc = "rollback"
  /\ BundleRemoved \/ BundleResists
  /\ Settle("error")
  /\ UNCHANGED <<container, work, snapshots, clean, missed>>

----------------------------------------------------------------------------
(* The runc run process and its container (external) *)

\* The container needs the bundle's config.json and root filesystem to come up.
RuncCreates ==
  /\ runc = "creating" /\ bundle = "ready"
  /\ runc' = "running" /\ box' = "live"
  /\ UNCHANGED <<execution, code, watch, files, clean, missed>>

\* runc run cannot create the container and exits with a code of its own.
RuncRefuses ==
  /\ runc = "creating"
  /\ runc' = "exited" /\ code' = "refused"
  /\ UNCHANGED <<execution, box, watch, files, clean, missed>>

\* The container's command ends; runc run removes its state and takes over its code.
ContainerExits ==
  /\ runc = "running" /\ box = "live"
  /\ \E c \in {"zero", "nonzero"} : code' = c
  /\ runc' = "exited" /\ box' = "none"
  /\ UNCHANGED <<execution, watch, files, clean, missed>>

\* runc run notices that runc delete has killed its container.
ContainerWasKilled ==
  /\ runc = "running" /\ box = "none"
  /\ runc' = "exited" /\ code' = "killed"
  /\ UNCHANGED <<execution, box, watch, files, clean, missed>>

\* runc run itself is killed by a signal: it leaves no exit code, and its state behind.
RuncIsKilled ==
  /\ runc \in {"creating", "running"}
  /\ runc' = "exited" /\ code' = "nocode"
  /\ UNCHANGED <<execution, box, watch, files, clean, missed>>

\* A container that outlived runc run ends: nobody is left to remove its state.
OrphanExits ==
  /\ runc = "exited" /\ box = "live"
  /\ box' = "stale"
  /\ UNCHANGED <<execution, runc, code, watch, files, clean, missed>>

----------------------------------------------------------------------------
(* Wait, and the deferred Delete *)

\* The goroutine reads the exit code, closes the logs and closes done.
Reap ==
  /\ watch = "waiting" /\ runc = "exited"
  /\ watch' = "closed"
  /\ UNCHANGED <<execution, runc, box, code, files, clean, missed>>

\* convertWaitResult, containerResult and what executeJob makes of them: every exit code is
\* the container's, no exit code is an error.
Verdict(c) ==
  CASE c = "zero"   -> "success"
    [] c = "nocode" -> "error"
    [] OTHER        -> "failure"

\* Wait returns; the deferred Delete comes next.
WaitReturns(v) == pc' = "delete" /\ verdict' = v /\ UNCHANGED cancelled

WaitEnds ==
  /\ pc = "wait" /\ watch = "closed"
  /\ WaitReturns(Verdict(code))
  /\ UNCHANGED <<container, files, clean, missed>>

\* select picks the context, also when done is closed as well.
WaitIsCancelled ==
  /\ pc = "wait" /\ cancelled
  /\ Advance("force-delete")
  /\ UNCHANGED <<container, files, clean, missed>>

\* What runc delete --force does to the container, and what a look at it misses.
Delete ==
  /\ box' = "none"
  /\ missed' = (missed \/ (box = "none" /\ runc = "creating"))
  /\ UNCHANGED <<runc, code, watch>>

\* Delete from inside Wait, without a time limit. "does not exist" counts as deleted.
ForceDelete ==
  /\ pc = "force-delete"
  /\ Delete /\ Advance("force-remove")
  /\ UNCHANGED <<files, clean>>

FaultyForceDeleteFails ==
  /\ pc = "force-delete" /\ Advance("force-remove")
  /\ UNCHANGED <<container, files, clean, missed>>

\* Any other error ends Wait, and leaves the bundle where it is.
ForceDeleteFails ==
  /\ pc = "force-delete" /\ WaitReturns("error")
  /\ UNCHANGED <<container, files, clean, missed>>

\* An error whose text looks like "already deleted" does not end Wait.
ForceRemove ==
  /\ pc = "force-remove"
  /\ \/ BundleRemoved /\ Advance("grace")
     \/ BundleResists /\ (WaitReturns("error") \/ Advance("grace"))
  /\ UNCHANGED <<container, work, snapshots, clean, missed>>

FaultyGrace ==
  /\ pc = "grace" /\ watch = "closed"
  /\ WaitReturns("error")
  /\ UNCHANGED <<container, files, clean, missed>>

\* done is closed, or forcedDeleteWait is over: an error either way.
Grace ==
  /\ pc = "grace"
  /\ WaitReturns("error")
  /\ UNCHANGED <<container, files, clean, missed>>

\* The deferred Delete, under a context of one minute of its own.
DeleteContainer ==
  /\ pc = "delete"
  /\ Delete /\ Advance("remove")
  /\ UNCHANGED <<files, clean>>

DeleteFails ==
  /\ pc = "delete" /\ Settle("error")
  /\ UNCHANGED <<container, files, clean, missed>>

RemoveBundle ==
  /\ pc = "remove"
  /\ \/ BundleRemoved /\ Settle(verdict)
     \/ BundleResists /\ Settle("error")
  /\ UNCHANGED <<container, work, snapshots, clean, missed>>

----------------------------------------------------------------------------
(* cleanupJob, and the death of the CI process *)

\* reportJobUpdates cleans a job up once it is settled, again if an attempt failed.
BeginClean ==
  /\ pc = "returned" /\ clean = "off" /\ work = "present"
  /\ clean' = "stat"
  /\ UNCHANGED <<execution, container, files, missed>>

FaultyStat ==
  /\ clean = "stat"
  /\ clean' = IF box = "live" THEN "open" ELSE "bundles"
  /\ missed' = (missed \/ (box = "none" /\ runc = "creating"))
  /\ UNCHANGED <<execution, container, files>>

Stat ==
  /\ clean = "stat"
  /\ clean' = IF box # "none" THEN "open" ELSE "bundles"
  /\ missed' = (missed \/ (box = "none" /\ runc = "creating"))
  /\ UNCHANGED <<execution, container, files>>

FaultyCleanContainer ==
  /\ clean = "open"
  /\ IF box = "live"
     THEN clean' = "off" /\ UNCHANGED <<container, missed>>
     ELSE clean' = "bundles" /\ Delete
  /\ UNCHANGED <<execution, files>>

\* Open and Delete of a handle without a provisioner: there a container that has gone
\* meanwhile may count as an error.
CleanContainer ==
  /\ clean = "open"
  /\ Delete
  /\ clean' \in IF box = "none" THEN {"bundles", "off"} ELSE {"bundles"}
  /\ UNCHANGED <<execution, files>>

CleanBundles ==
  /\ clean = "bundles"
  /\ BundleRemoved /\ clean' = "work"
  /\ UNCHANGED <<execution, container, work, snapshots, missed>>

\* The attempt ends; a stuck bundle is out of its reach, and of every later one's.
CleanBundlesFails ==
  /\ clean = "bundles"
  /\ BundleResists /\ clean' = "off"
  /\ UNCHANGED <<execution, container, work, snapshots, missed>>

CleanFails ==
  /\ clean \in {"stat", "open", "work"}
  /\ clean' = "off"
  /\ UNCHANGED <<execution, container, files, missed>>

\* os.RemoveAll, as the CI's own user: it cannot enter private directories.
CleanWork ==
  /\ clean = "work" /\ snapshots = "none"
  /\ work' = "gone" /\ clean' = "off"
  /\ UNCHANGED <<execution, container, bundle, snapshots, missed>>

Removing == pc \in {"rollback", "force-remove", "remove"} \/ clean = "bundles"

\* The CI process dies. Its next start settles the job as an error. The death signal ends a
\* runc run that does not handle it yet, and is passed on by one that does
\* (RuncIsKilled, and the runc actions that go on regardless).
Crash ==
  /\ pc # "none" /\ work = "present"
  /\ pc' = "returned" /\ verdict' = IF pc = "returned" THEN verdict ELSE "error"
  /\ \/ UNCHANGED bundle
     \/ pc = "provision" /\ bundle' \in {"partial", "stuck"}
     \/ Removing /\ BundleResists
  /\ snapshots' \in {snapshots} \cup IF pc = "build" THEN {"private"} ELSE {}
  /\ clean' = "off" /\ watch' = "lost"
  /\ UNCHANGED <<cancelled, runc, box, code, work, missed>>

Work ==
  \/ Start
  \/ CheckedOut \/ CheckoutFails \/ Built \/ BuildFails \/ SetUp \/ SetupFails
  \/ Provisioned \/ ProvisionFails \/ Launch \/ LaunchFails \/ Rollback

Waiting ==
  \/ WaitEnds \/ WaitIsCancelled \/ ForceDelete \/ ForceDeleteFails \/ ForceRemove \/ Grace
  \/ DeleteContainer \/ DeleteFails \/ RemoveBundle

Cleaning ==
  \/ BeginClean \/ Stat \/ CleanContainer \/ CleanBundles \/ CleanBundlesFails
  \/ CleanFails \/ CleanWork

Runc ==
  \/ RuncCreates \/ RuncRefuses \/ ContainerExits \/ ContainerWasKilled
  \/ RuncIsKilled \/ OrphanExits

Next == Work \/ Waiting \/ Reap \/ Cleaning \/ Runc \/ Cancel \/ Crash

Spec == Init /\ [][Next]_vars

\* The job's context ends some time. Once it has, the commands run under it are killed, so
\* the stage they belong to ends; git, a build and a container may otherwise run for ever.
\* Go's scheduler runs what is ready; runc delete and a removal come to an end. Nothing is
\* assumed of runc run. reportJobUpdates tries a clean-up again for ever; a step of it that
\* can succeed does so some time. CleanBundles cannot on a stuck bundle, nor CleanWork on
\* private directories, however often they are tried.
FairSpec ==
  /\ Spec
  /\ WF_vars(Cancel)
  /\ WF_vars(cancelled /\ Work)
  /\ WF_vars(Waiting)
  /\ WF_vars(Cleaning)
  /\ SF_vars(BeginClean) /\ SF_vars(Stat) /\ SF_vars(CleanContainer)
  /\ SF_vars(CleanBundles) /\ SF_vars(CleanWork)

----------------------------------------------------------------------------
(* Properties *)

\* Every variable stays in its range.
TypeOK ==
  /\ pc \in Stages \cup {"none", "rollback", "wait", "force-delete", "force-remove", "grace",
                         "delete", "remove", "returned"}
  /\ cancelled \in BOOLEAN /\ missed \in BOOLEAN
  /\ verdict \in Verdicts
  /\ work \in {"none", "present", "gone"}
  /\ bundle \in {"none", "ready", "partial", "stuck"} /\ snapshots \in {"none", "private"}
  /\ runc \in {"none", "creating", "running", "exited"}
  /\ box \in {"none", "live", "stale"}
  /\ code \in Codes
  /\ watch \in {"none", "waiting", "closed", "lost"}
  /\ clean \in {"off", "stat", "open", "bundles", "work"}

\* A job passes only if its container ran to its end with code zero inside the job's time,
\* and nothing of it is left: no container, no bundle. A job that got as far as a container
\* fails only for an exit code of runc run, never for a container the CI killed.
VerdictIsEarned ==
  /\ pc = "returned" /\ verdict = "success" =>
       ~cancelled /\ code = "zero" /\ box = "none" /\ bundle = "none"
  /\ pc = "returned" /\ verdict = "failure" =>
       ~cancelled /\ (runc # "none" => code \in {"nonzero", "refused"} /\ bundle = "none")

\* Delete keeps the bundle of a container it could not delete: while a container runs its
\* bundle is there, unless the deletion came before runc had created the container.
BundleOutlivesContainer == box = "live" /\ ~missed => bundle = "ready"

\* When cleanupJob has removed the workspace nothing is left, whatever happened before: no
\* bundle and no container, unless it looked before runc had created the container.
CleanedIsClean ==
  work = "gone" => /\ bundle = "none"
                   /\ ~missed => box = "none" /\ runc # "creating"

\* Every stage of a job, ended in any way, is left with what the next call expects, and its
\* last clean-up leaves nothing.
NothingIsLeft == TypeOK /\ CleanedIsClean

\* Once the job's time is over executeJob returns, even if runc run never exits.
ExecutionReturns == (pc = "checkout") ~> (pc = "returned")

\* Clean-up comes to its end, whatever state the container and the bundle were left in, but
\* for two kinds of remains, which every attempt fails on: private directories of a build
\* cut short, and a bundle without a whole config.json.
CleanupFinishes ==
  (pc = "returned") ~> (work = "gone" \/ snapshots = "private" \/ bundle = "stuck")
=============================================================================
