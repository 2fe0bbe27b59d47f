-------------------------- MODULE ContainerRuntime --------------------------
(***************************************************************************)
(* The container runtime as a library: what pkg/runtime promises to any     *)
(* program that embeds it, as pkg/runtime/internal/runc implements it.      *)
(* One container ID is launched again and again.  The embedding program     *)
(* serializes its calls on that ID, as README.md demands, and otherwise     *)
(* makes them in any order, on any handle it still has, old or new.         *)
(*                                                                         *)
(* Beside the call in progress run, for every launch, its runc run process  *)
(* and the goroutine that waits for it.  runc is external and modelled from *)
(* how the runtime uses it.  The inside of Provision and Remove is          *)
(* BundleProvisioner's; the one embedder of this repository with its         *)
(* verdicts and clean-up is JobExecution.                                   *)
(***************************************************************************)
EXTENDS Integers

CONSTANT MaxRuns   \* launches of the container ID

ASSUME RunsAssumption == MaxRuns \in Nat \ {0}

VARIABLES
  pc, cur,    \* the call in progress and the launch whose handle it is on, 0 for an
              \* opened handle
  last,       \* launches so far
  images,     \* launches by RunImage; the others by Run or RunAndWait
  held,       \* launches whose Container the embedding program has
  failed,     \* launches that returned an error and no error of their clean-up
  released,   \* launches whose Delete has returned nil
  proc,       \* [launch -> its runc run process]
  watch,      \* [launch -> its goroutine: "open" while it holds the log files]
  box, live,  \* the launch in runc's state directory for the ID, 0 for none, and
              \* whether its processes run
  bundle,     \* [launch -> its bundle directory or staging directory: "ready" to run,
              \* "partial", or "stuck", remains that every removal fails on]
  logs,       \* [stream -> the launch that wrote the log file, 0 for no file]
  missed,     \* launches the latest runc delete could not see: still being created
  quiet       \* this runc passes over a missing container in delete --force

calls == <<pc, cur>>
handles == <<last, images, held, failed, released>>
runc == <<proc, box, live>>
disk == <<bundle, logs>>
vars == <<calls, handles, runc, watch, disk, missed, quiet>>

Runs == 1 .. MaxRuns
Streams == {"stdout", "stderr"}
Fresh(g) == g = last + 1 /\ g \in Runs
\* The handle of launch g, 0 for an opened one, has a provisioner and a bundle.
HasBundle(g) == g \in images

Init ==
  /\ pc = "idle" /\ cur = 0 /\ last = 0
  /\ images = {} /\ held = {} /\ failed = {} /\ released = {} /\ missed = {}
  /\ proc = [g \in Runs |-> "none"]
  /\ watch = [g \in Runs |-> "none"]
  /\ box = 0 /\ live = FALSE
  /\ bundle = [g \in Runs |-> "none"]
  /\ logs = [s \in Streams |-> 0]
  /\ quiet \in BOOLEAN

Goto(next) == pc' = next /\ UNCHANGED cur
Return == pc' = "idle" /\ cur' = 0

\* Remove cannot decode a torn config.json; without a config.json it goes on as the caller's
\* own user, whom the files of mapped users resist.
BundleRemoved ==
  /\ bundle[cur] # "stuck"
  /\ bundle' = [bundle EXCEPT ![cur] = "none"]

\* A removal fails before it touches the bundle, or half way: also with config.json gone
\* before a mapped root filesystem.
BundleResists ==
  \E b \in {bundle[cur]}
           \cup IF bundle[cur] \in {"ready", "partial"} THEN {"partial", "stuck"} ELSE {} :
    bundle' = [bundle EXCEPT ![cur] = b]

----------------------------------------------------------------------------
(* RunImage, Run and RunAndWait.  A call refused before it does anything    *)
(* (ended context, invalid ID) changes nothing and is left out.             *)

Launching(g, next) ==
  /\ pc = "idle" /\ Fresh(g)
  /\ pc' = next /\ cur' = g
  /\ last' = g
  /\ UNCHANGED <<held, failed, released, runc, watch, logs, missed>>

BeginRunImage ==
  \E g \in Runs :
    /\ Launching(g, "provision")
    /\ images' = images \cup {g}
    /\ UNCHANGED bundle

\* Run takes a ready bundle, which stays its caller's.
BeginRun ==
  \E g \in Runs :
    /\ Launching(g, "logs")
    /\ UNCHANGED images
    /\ bundle' = [bundle EXCEPT ![g] = "ready"]

\* The call returns an error; its clean-up returned none.
LaunchFailed ==
  /\ Return
  /\ failed' = failed \cup {cur}
  /\ UNCHANGED <<last, images, held, released>>

Provision ==
  /\ pc = "provision"
  /\ \/ bundle' = [bundle EXCEPT ![cur] = "ready"] /\ Goto("logs") /\ UNCHANGED handles
     \/ LaunchFailed /\ UNCHANGED bundle
     \/ /\ \E b \in {"partial", "stuck"} : bundle' = [bundle EXCEPT ![cur] = b]
        /\ Return /\ UNCHANGED handles
  /\ UNCHANGED <<runc, watch, logs, missed>>

\* os.O_EXCL: the file is created, or it is there already and stays as it is.
FaultyCreatePrivate(s) == TRUE

CreatePrivate(s) == logs[s] = 0

\* Both files or none: a stdout.log made before stderr.log was refused is removed.
OpenLogs ==
  /\ pc = "logs"
  /\ \A s \in Streams : CreatePrivate(s)
  /\ logs' = [s \in Streams |-> cur]
  /\ Goto("start")
  /\ UNCHANGED <<handles, runc, watch, bundle, missed>>

\* RunImage takes its bundle back, Run just returns.
LaunchEnds ==
  IF HasBundle(cur) THEN Goto("rollback") /\ UNCHANGED handles ELSE LaunchFailed

\* A bundle specification that is missing or asks for a terminal, a log file of an
\* earlier launch, or the file system.
OpenLogsFails ==
  /\ pc = "logs"
  /\ LaunchEnds
  /\ UNCHANGED <<runc, watch, bundle, logs, missed>>

\* RunAndWait keeps the container to itself.
Start ==
  /\ pc = "start"
  /\ proc' = [proc EXCEPT ![cur] = "creating"]
  /\ watch' = [watch EXCEPT ![cur] = "open"]
  /\ \/ Return /\ held' = held \cup {cur}
     \/ ~HasBundle(cur) /\ Goto("callback") /\ UNCHANGED held
  /\ UNCHANGED <<last, images, failed, released, box, live, disk, missed>>

\* runc cannot be started: both files are removed.
StartFails ==
  /\ pc = "start"
  /\ LaunchEnds
  /\ logs' = [s \in Streams |-> 0]
  /\ UNCHANGED <<runc, watch, bundle, missed>>

\* Remove, outside the context of the launch.  A failed one is reported too.
Rollback ==
  /\ pc = "rollback"
  /\ \/ BundleRemoved /\ LaunchFailed
     \/ BundleResists /\ Return /\ UNCHANGED handles
  /\ UNCHANGED <<runc, watch, logs, missed>>

\* runc delete --force: the container is killed and its state removed, if it is there.
RuncDelete ==
  /\ box' = 0 /\ live' = FALSE
  /\ missed' = {g \in Runs : proc[g] = "creating"}
  /\ UNCHANGED proc

\* RunAndWait's started function returns; it may have deleted the container by its handle.
\* After an error RunAndWait deletes it, drops the result of that, and does not wait.
Callback ==
  /\ pc = "callback"
  /\ Goto("wait") \/ Return
  /\ RuncDelete \/ UNCHANGED <<runc, missed>>
  /\ UNCHANGED <<handles, watch, disk>>

----------------------------------------------------------------------------
(* The operations of a handle, all by the container's ID. *)

BeginWait ==
  /\ pc = "idle"
  /\ pc' = "wait" /\ cur' \in held
  /\ UNCHANGED <<handles, runc, watch, disk, missed>>

WaitEnds ==
  /\ pc = "wait" /\ watch[cur] = "closed"
  /\ Return
  /\ UNCHANGED <<handles, runc, watch, disk, missed>>

\* select takes the ended context, also when done is closed, and Wait deletes.  A
\* container that "does not exist" counts as deleted, with and without a provisioner.
\* The wait for done, or for forcedDeleteWait, that follows changes nothing.
WaitIsCancelled ==
  /\ pc = "wait"
  /\ RuncDelete
  /\ IF HasBundle(cur) THEN Goto("force-remove") ELSE Return
  /\ UNCHANGED <<handles, watch, disk>>

\* The deletion inside Wait fails.
WaitFails ==
  /\ pc = "wait"
  /\ Return
  /\ UNCHANGED <<handles, runc, watch, disk, missed>>

ForceRemove ==
  /\ pc = "force-remove"
  /\ BundleRemoved \/ BundleResists
  /\ Return
  /\ UNCHANGED <<handles, runc, watch, logs, missed>>

\* Delete on handle g returns nil.
Deleted(g) ==
  /\ Return
  /\ released' = released \cup ({g} \ {0})
  /\ UNCHANGED <<last, images, held, failed>>

LeaveBundle(g) == pc' = "remove" /\ cur' = g /\ UNCHANGED handles

FaultyRuncDeleted(g) == Deleted(g)

RuncDeleted(g) ==
  IF HasBundle(g) THEN LeaveBundle(g) ELSE Deleted(g)

FaultyGone(g) == Return /\ UNCHANGED handles

\* runc says "does not exist": an error, unless the bundle has to be removed all the same.
Gone(g) ==
  IF HasBundle(g) THEN LeaveBundle(g) ELSE Return /\ UNCHANGED handles

\* Delete with force, on the handle of launch g or, as 0, one from Open.
Delete(g) ==
  /\ pc = "idle" /\ g \in held \cup {0}
  /\ RuncDelete
  /\ IF box # 0 \/ quiet THEN RuncDeleted(g) ELSE Gone(g)
  /\ UNCHANGED <<watch, disk>>

\* Without force runc refuses a container that runs, and does not pass over a missing one.
SoftDelete(g) ==
  /\ pc = "idle" /\ g \in held \cup {0}
  /\ ~live
  /\ RuncDelete
  /\ IF box # 0 THEN RuncDeleted(g) ELSE Gone(g)
  /\ UNCHANGED <<watch, disk>>

\* runc delete did its work and was then killed with its context.  That it fails before
\* changes nothing and is left out.
DeleteCutOff ==
  /\ pc = "idle" /\ last > 0
  /\ RuncDelete
  /\ UNCHANGED <<calls, handles, watch, disk>>

RemoveBundle ==
  /\ pc = "remove"
  /\ \/ BundleRemoved /\ Deleted(cur)
     \/ BundleResists /\ Return /\ UNCHANGED handles
  /\ UNCHANGED <<runc, watch, logs, missed>>

\* runc kill with a signal that ends the container; its runc run process notices.
Signal ==
  /\ pc = "idle" /\ live
  /\ live' = FALSE
  /\ UNCHANGED <<calls, handles, proc, box, watch, disk, missed>>

\* A file that is not there is no error.
DeleteLog(s) ==
  /\ pc = "idle"
  /\ logs' = [logs EXCEPT ![s] = 0]
  /\ UNCHANGED <<calls, handles, runc, watch, bundle, missed>>

----------------------------------------------------------------------------
(* runc run and the container of launch g (external), and its goroutine *)

RuncCreates(g) ==
  /\ proc[g] = "creating" /\ box = 0 /\ bundle[g] = "ready"
  /\ proc' = [proc EXCEPT ![g] = "running"]
  /\ box' = g /\ live' = TRUE
  /\ UNCHANGED <<calls, handles, watch, disk, missed>>

RuncRefuses(g) ==
  /\ proc[g] = "creating"
  /\ proc' = [proc EXCEPT ![g] = "exited"]
  /\ UNCHANGED <<calls, handles, box, live, watch, disk, missed>>

\* The container's command ends by itself, or a signal or runc delete has ended it:
\* runc run removes what state is left.
ContainerEnds(g) ==
  /\ proc[g] = "running"
  /\ proc' = [proc EXCEPT ![g] = "exited"]
  /\ IF box = g THEN box' = 0 /\ live' = FALSE ELSE UNCHANGED <<box, live>>
  /\ UNCHANGED <<calls, handles, watch, disk, missed>>

\* runc run is killed by a signal and leaves its state behind.
RuncIsKilled(g) ==
  /\ proc[g] \in {"creating", "running"}
  /\ proc' = [proc EXCEPT ![g] = "exited"]
  /\ UNCHANGED <<calls, handles, box, live, watch, disk, missed>>

OrphanEnds(g) ==
  /\ proc[g] = "exited" /\ box = g /\ live
  /\ live' = FALSE
  /\ UNCHANGED <<calls, handles, proc, box, watch, disk, missed>>

\* cmd.Wait returns: close the logs, then done.
Reap(g) ==
  /\ proc[g] = "exited" /\ watch[g] = "open"
  /\ watch' = [watch EXCEPT ![g] = "closed"]
  /\ UNCHANGED <<calls, handles, runc, disk, missed>>

\* The embedding program dies and is started again, with no handle.
Crash ==
  /\ last > 0
  /\ Return
  /\ held' = {}
  /\ watch' = [g \in Runs |-> IF watch[g] = "open" THEN "closed" ELSE watch[g]]
  /\ \/ UNCHANGED bundle
     \/ /\ pc = "provision"
        /\ \E b \in {"partial", "stuck"} : bundle' = [bundle EXCEPT ![cur] = b]
     \/ pc \in {"rollback", "force-remove", "remove"} /\ BundleResists
  /\ \/ UNCHANGED logs
     \/ pc = "logs" /\ CreatePrivate("stdout") /\ logs' = [logs EXCEPT !["stdout"] = cur]
     \/ pc = "start" /\ logs' = [logs EXCEPT !["stdout"] = 0]
  /\ UNCHANGED <<last, images, failed, released, runc, missed>>

Launch ==
  \/ BeginRunImage \/ BeginRun \/ Provision \/ OpenLogs \/ OpenLogsFails
  \/ Start \/ StartFails \/ Rollback \/ Callback

Handle ==
  \/ BeginWait \/ WaitEnds \/ WaitIsCancelled \/ WaitFails \/ ForceRemove
  \/ \E g \in Runs \cup {0} : Delete(g) \/ SoftDelete(g)
  \/ DeleteCutOff \/ RemoveBundle \/ Signal
  \/ \E s \in Streams : DeleteLog(s)

Runc(g) ==
  \/ RuncCreates(g) \/ RuncRefuses(g) \/ ContainerEnds(g) \/ RuncIsKilled(g)
  \/ OrphanEnds(g)

Next ==
  /\ Launch \/ Handle \/ Crash \/ \E g \in Runs : Runc(g) \/ Reap(g)
  /\ UNCHANGED quiet

Spec == Init /\ [][Next]_vars

\* A call that was begun ends (its context does), and a program that follows the clean-up
\* contract calls Delete again until it returns nil; a call that can succeed does some time.
\* RemoveBundle cannot succeed on a stuck bundle, however often it is tried.
\* Nothing is assumed of runc run.
FairSpec ==
  /\ Spec
  /\ WF_vars(pc # "idle" /\ (Launch \/ Handle) /\ UNCHANGED quiet)
  /\ \A g \in Runs :
       /\ SF_vars(Delete(g) /\ g \notin released /\ UNCHANGED quiet)
       /\ SF_vars(RemoveBundle /\ cur = g /\ g \in released' /\ UNCHANGED quiet)

----------------------------------------------------------------------------
(* Properties *)

\* Every variable stays in its range.
TypeOK ==
  /\ pc \in {"idle", "provision", "logs", "start", "rollback", "callback", "wait",
             "force-remove", "remove"}
  /\ cur \in 0 .. last /\ last \in 0 .. MaxRuns
  /\ images \subseteq 1 .. last /\ held \subseteq 1 .. last /\ failed \subseteq 1 .. last
  /\ released \subseteq 1 .. last /\ missed \subseteq 1 .. last
  /\ proc \in [Runs -> {"none", "creating", "running", "exited"}]
  /\ watch \in [Runs -> {"none", "open", "closed"}]
  /\ box \in 0 .. last /\ live \in BOOLEAN
  /\ bundle \in [Runs -> {"none", "ready", "partial", "stuck"}]
  /\ logs \in [Streams -> 0 .. last] /\ quiet \in BOOLEAN

\* README.md, "Cleanup Contract": once Delete has returned nil nothing of that launch is
\* left or comes back, unless the latest delete looked while runc was creating the container.
ReleasedIsGone ==
  \A g \in released :
    /\ HasBundle(g) => bundle[g] = "none"
    /\ g \notin missed => box # g /\ proc[g] # "creating"

\* "Launch failures remove the provisioned bundle before returning an error": they leave
\* neither bundle, process nor log file, so that the launch can be tried again.
FailedLaunchLeavesNothing ==
  \A g \in failed :
    /\ HasBundle(g) => bundle[g] = "none"
    /\ proc[g] = "none" /\ \A s \in Streams : logs[s] # g

\* What an outcome promises holds, whatever the embedding program did or does next.
OutcomesAreTrue == TypeOK /\ ReleasedIsGone /\ FailedLaunchLeavesNothing

\* "Logs remain available until DeleteLog is called": neither Delete, a crash nor another
\* launch under the same ID, which fails instead, takes away or mixes up a log file.
LogsAreKept ==
  [][\A s \in Streams :
       logs[s] # 0 /\ logs'[s] # logs[s] =>
         /\ logs'[s] = 0
         /\ DeleteLog(s) \/ (pc = "start" /\ logs[s] = cur)]_vars

\* A program that calls Delete until it returns nil gets there, also when runc has already
\* removed its state or an earlier Delete stopped between the container and the bundle; but
\* not when an earlier removal was cut off with the bundle's config.json gone before its
\* mapped root filesystem.  Launches are finitely many and a release is final, so "again and
\* again" is "in the end".
ReleaseSucceeds ==
  []<>(\A g \in held \cap images : g \in released \/ bundle[g] = "stuck")
=============================================================================
