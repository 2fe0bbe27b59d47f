----------------------------- MODULE ImageBuild -----------------------------
(***************************************************************************)
(* One image build (pkg/image/internal/buildkit, Builder.Build): private   *)
(* directories, a BuildKit daemon under rootlesskit that serves this build *)
(* alone, the wait for it, buildctl, the unpacking of its archive, and the *)
(* way back: stop the daemon, then remove the directories.                 *)
(*                                                                         *)
(* Three parties run side by side: Build, the goroutine that waits for the *)
(* daemon (startBuildkitd) and the daemon, an external process. The daemon *)
(* stands for rootlesskit and what it runs: they die together.             *)
(***************************************************************************)

VARIABLES
  pc,         \* where Build is
  cancelled,  \* the caller's context has ended
  result,     \* what Build returns
  dirs,       \* state, run, home and tmp directory, and the output archive
  layout,     \* the OCI layout the caller asked for
  daemon,     \* the rootlesskit process
  killed,     \* its process group has been sent SIGKILL
  waiter      \* the waiting goroutine: "draining" with ProcessState set, "sent" with a
              \* value in done, "taken" when that has been received

build == <<pc, cancelled, result>>
process == <<daemon, killed, waiter>>
vars == <<build, process, dirs, layout>>

Init ==
  /\ pc = "idle" /\ cancelled = FALSE /\ result = "none"
  /\ dirs = "none" /\ layout = "none"
  /\ daemon = "none" /\ killed = FALSE /\ waiter = "none"

Goto(next) == pc' = next /\ UNCHANGED <<cancelled, result>>
Return(r) == pc' = "returned" /\ result' = r /\ UNCHANGED cancelled
\* An error on the way: the deferred stop comes next.
Fail == pc' = "stop" /\ result' = "error" /\ UNCHANGED cancelled

Cancel ==
  /\ pc \notin {"idle", "returned"} /\ ~cancelled
  /\ cancelled' = TRUE
  /\ UNCHANGED <<pc, result, process, dirs, layout>>

----------------------------------------------------------------------------
(* Build *)

\* A bad request, an unfit host, or createBuildDirectories failing: it takes back what it made.
Refuse ==
  /\ pc = "idle" /\ Return("error")
  /\ UNCHANGED <<process, dirs, layout>>

MakeDirectories ==
  /\ pc = "idle"
  /\ dirs' = "present" /\ Goto("spawn")
  /\ UNCHANGED <<process, layout>>

StartDaemon ==
  /\ pc = "spawn" /\ ~cancelled
  /\ daemon' = "starting" /\ waiter' = "waiting" /\ Goto("probe")
  /\ UNCHANGED <<killed, dirs, layout>>

StartFails ==
  /\ pc = "spawn"
  /\ pc' = "clean" /\ result' = "error" /\ UNCHANGED cancelled
  /\ UNCHANGED <<process, dirs, layout>>

\* waitForReadiness: buildctl debug workers is answered, ...
Ready ==
  /\ pc = "probe" /\ daemon = "serving" /\ Goto("build")
  /\ UNCHANGED <<process, dirs, layout>>

\* ... or is not, and the wait goes on unless the context has ended.
NotReady ==
  /\ pc = "probe"
  /\ IF cancelled THEN Fail ELSE Goto("select")
  /\ UNCHANGED <<process, dirs, layout>>

\* The daemon has exited: the only value done will ever hold is received here.
DaemonExited ==
  /\ pc = "select" /\ waiter = "sent"
  /\ waiter' = "taken" /\ Fail
  /\ UNCHANGED <<daemon, killed, dirs, layout>>

\* The context, or readinessTimeout.
GiveUp ==
  /\ pc = "select" /\ Fail
  /\ UNCHANGED <<process, dirs, layout>>

Tick ==
  /\ pc = "select" /\ Goto("probe")
  /\ UNCHANGED <<process, dirs, layout>>

RunBuildctl ==
  /\ pc = "build" /\ daemon = "serving" /\ Goto("extract")
  /\ UNCHANGED <<process, dirs, layout>>

\* buildctl fails, loses the daemon, or is killed with the context.
BuildctlFails ==
  /\ pc = "build" /\ Fail
  /\ UNCHANGED <<process, dirs, layout>>

\* extractOCITar and ValidateLayoutContext
Extract ==
  /\ pc = "extract" /\ layout' = "whole"
  /\ pc' = "stop" /\ result' = "ok" /\ UNCHANGED cancelled
  /\ UNCHANGED <<process, dirs>>

ExtractFails ==
  /\ pc = "extract" /\ layout' \in {"partial", "whole"} /\ Fail
  /\ UNCHANGED <<process, dirs>>

----------------------------------------------------------------------------
(* daemonProcess.stop and the removal of the directories *)

FaultyStopDaemon ==
  /\ pc = "stop" /\ Goto("term")
  /\ UNCHANGED <<process, dirs, layout>>

\* A daemon known to have exited needs no stop. ProcessState is read without a lock: unless
\* the receive from done has ordered it, the read may still find it unset.
StopDaemon ==
  /\ pc = "stop"
  /\ \/ waiter \in {"draining", "sent", "taken"} /\ Goto("clean")
     \/ waiter # "taken" /\ Goto("term")
  /\ UNCHANGED <<process, dirs, layout>>

\* SIGTERM has been sent: wait for done, ...
DaemonStopped ==
  /\ pc \in {"term", "reap"} /\ waiter = "sent"
  /\ waiter' = "taken" /\ Goto("clean")
  /\ UNCHANGED <<daemon, killed, dirs, layout>>

FaultyKillDaemon ==
  /\ pc = "term" /\ Goto("clean")
  /\ killed' = TRUE
  /\ UNCHANGED <<daemon, waiter, dirs, layout>>

\* ... for shutdownTimeout; then kill the group and wait again, now without a limit.
KillDaemon ==
  /\ pc = "term" /\ Goto("reap")
  /\ killed' = TRUE
  /\ UNCHANGED <<daemon, waiter, dirs, layout>>

CleanUp ==
  /\ pc = "clean"
  /\ dirs' = "gone" /\ Return(result)
  /\ UNCHANGED <<process, layout>>

FaultyCleanUpFails ==
  /\ pc = "clean"
  /\ dirs' = "left" /\ Return(result)
  /\ UNCHANGED <<process, layout>>

\* removeBuildDirectory fails as the caller and inside the mapping.
CleanUpFails ==
  /\ pc = "clean"
  /\ dirs' = "left" /\ Return("error")
  /\ UNCHANGED <<process, layout>>

----------------------------------------------------------------------------
(* The daemon and the goroutine that waits for it *)

Up == daemon \in {"starting", "serving"}

DaemonServes ==
  /\ daemon = "starting" /\ daemon' = "serving"
  /\ UNCHANGED <<build, killed, waiter, dirs, layout>>

\* By itself, or by SIGTERM.
DaemonExits ==
  /\ Up /\ daemon' = "gone"
  /\ UNCHANGED <<build, killed, waiter, dirs, layout>>

\* SIGKILL: to the group from stop, or to the process from exec once WaitDelay has passed
\* after the context's end.
DaemonIsKilled ==
  /\ Up /\ (killed \/ cancelled) /\ daemon' = "gone"
  /\ UNCHANGED <<build, killed, waiter, dirs, layout>>

\* command.Wait: the process is reaped, ...
Reaped ==
  /\ waiter = "waiting" /\ daemon = "gone" /\ waiter' = "draining"
  /\ UNCHANGED <<build, daemon, killed, dirs, layout>>

\* ... its output is drained, for WaitDelay at most, and done gets its value.
Sent ==
  /\ waiter = "draining" /\ waiter' = "sent"
  /\ UNCHANGED <<build, daemon, killed, dirs, layout>>

Building ==
  \/ StartDaemon \/ StartFails \/ Ready \/ NotReady \/ DaemonExited \/ GiveUp \/ Tick
  \/ RunBuildctl \/ BuildctlFails \/ Extract \/ ExtractFails

Stopping == StopDaemon \/ DaemonStopped \/ KillDaemon \/ CleanUp \/ CleanUpFails

Next ==
  \/ Refuse \/ MakeDirectories \/ Building \/ Stopping \/ Cancel
  \/ DaemonServes \/ DaemonExits \/ DaemonIsKilled \/ Reaped \/ Sent

Spec == Init /\ [][Next]_vars

\* The caller's context ends some time; buildctl is killed with it, readinessTimeout and
\* shutdownTimeout expire, SIGKILL works, goroutines that can run do. Nothing is assumed of
\* a daemon's or buildctl's own progress.
Fairness ==
  /\ WF_vars(Cancel) /\ WF_vars(cancelled /\ Building) /\ WF_vars(Stopping)
  /\ WF_vars(DaemonIsKilled) /\ WF_vars(Reaped) /\ WF_vars(Sent)

----------------------------------------------------------------------------
(* Properties *)

\* Every variable stays in its range.
TypeOK ==
  /\ pc \in {"idle", "spawn", "probe", "select", "build", "extract", "stop", "term", "reap",
             "clean", "returned"}
  /\ cancelled \in BOOLEAN /\ killed \in BOOLEAN
  /\ result \in {"none", "ok", "error"}
  /\ dirs \in {"none", "present", "gone", "left"}
  /\ layout \in {"none", "partial", "whole"}
  /\ daemon \in {"none", "starting", "serving", "gone"}
  /\ waiter \in {"none", "waiting", "draining", "sent", "taken"}

\* removeBuildDirectory works "after the daemon stops": the directories are not touched
\* while a daemon could still write to them.
DirsOutliveDaemon == dirs \in {"gone", "left"} => ~Up

\* Build succeeds only with a whole layout, and with nothing of the build left behind.
SuccessIsClean ==
  pc = "returned" /\ result = "ok" => layout = "whole" /\ dirs = "gone" /\ ~Up

\* Once its context has ended Build returns: no wait for done is left without a sender, also
\* when waitForReadiness has already received what was sent.
BuildReturns == (pc = "spawn") ~> (pc = "returned")
=============================================================================
