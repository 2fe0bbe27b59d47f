------------------------------ MODULE CIServer ------------------------------
(***************************************************************************)
(* The CI server process of cmd/ci: main.go's life cycle around server.go. *)
(* Its goroutines share the job table (JobStore), the fields guarded by    *)
(* server.mu, and two cancellable contexts:                                *)
(*                                                                         *)
(*   - HTTP handlers admit jobs and accept one update at a time;           *)
(*   - the dispatcher claims rows and starts one runJob goroutine each;    *)
(*   - the status loop tells GitHub what each row says, then cleans the    *)
(*     workspaces of finished jobs;                                        *)
(*   - an update builds a candidate, drains, quiesces and flushes statuses *)
(*     before the process replaces itself with exec;                       *)
(*   - stop() ends everything for a shutdown or for that replacement.      *)
(*                                                                         *)
(* A step is what a goroutine does between two points where another one,   *)
(* a signal, a failed call or a crash can be noticed.  Operators named     *)
(* Faulty... are no part of the specification: see JobStore.               *)
(***************************************************************************)
EXTENDS JobStore

CONSTANTS
    Results,     \* what execute may return besides "error"
    Troubles,    \* the kinds of trouble that may come; only "github" and "remains"
                 \* do so after calm, too
    FaultsEnd    \* whether the environment may become calm

ASSUME ResultsAssumption == Results \subseteq Terminal
ASSUME TroublesAssumption ==
    /\ Troubles \subseteq {"crash", "signal", "serve", "store", "update", "build",
                          "log", "cleanup", "remains", "exec", "github"}
    /\ FaultsEnd \in BOOLEAN

VARIABLES
    \* main and serve
    phase,        \* where the process is, "down" when there is none
    failed,       \* the error the process returns, or would return, is non-nil
    shutdown,     \* the signal context of main is done
    switching,    \* serve's local "updating": stop() on behalf of an update
    \* server fields and contexts
    accepting, updating, draining, candidate,
    ctxDone,      \* server.ctx is cancelled
    procDone,     \* the context of dispatcher and status loop is cancelled
    prep,         \* the update goroutine
    \* dispatcher and executions
    dispatching, exec, outcome,
    workspace,    \* what is on disk of each job (directory, container, bundle): "none",
                  \* "there", or "stuck", known to make cleanupJob fail every time
    \* status reporters: the loop, and the synchronous calls of prepareUpdate
    \* and stop
    rpc, rver, rstat, dirty,
    \* environment
    gh,           \* the commit status GitHub shows for each job
    calm          \* no more faults, signals or update requests will come

mainVars   == <<phase, failed, shutdown, switching>>
fieldVars  == <<accepting, updating, draining, candidate, ctxDone, procDone, prep>>
execVars   == <<dispatching, exec, outcome>>
reportVars == <<rpc, rver, rstat, dirty>>
vars == <<storeVars, mainVars, fieldVars, execVars, workspace, reportVars, gh, calm>>

Reporters == {"loop", "sync"}
Phases == {"down", "starting", "serving", "stopping", "recovering",
           "cancelling", "reporting", "handoff", "replacing"}
Preps  == {"none", "building", "draining", "drained", "quiescing",
           "flushing", "failed", "ready"}
Execs  == {"none", "spawned", "executing", "saving", "retrying"}

Idle == [j \in Jobs |-> "none"]
Workspaces == {"none", "there", "stuck"}
NoVersions == [j \in Jobs |-> 0]

\* reportStatus: GitHub knows no "queued" or "running".
GitHubState(s) == IF s \in Terminal THEN s ELSE "pending"

\* The environment may still make trouble of kind k.
Trouble(k) == k \in Troubles /\ ~calm

(***************************************************************************)
(* Processes come and go.                                                  *)
(***************************************************************************)
\* Everything the process keeps in memory, when it has just ended.
MemoryLost ==
    /\ switching' = FALSE
    /\ accepting' = FALSE /\ updating' = FALSE /\ draining' = FALSE
    /\ candidate' = FALSE /\ ctxDone' = FALSE /\ procDone' = FALSE /\ prep' = "none"
    /\ dispatching' = FALSE /\ exec' = Idle /\ outcome' = Idle
    /\ rpc' = [r \in Reporters |-> "off"]
    /\ rver' = [r \in Reporters |-> NoVersions]
    /\ rstat' = [r \in Reporters |-> Idle]
    /\ dirty' = {}

Init ==
    /\ StoreInit
    /\ phase = "down" /\ failed = FALSE /\ shutdown = FALSE /\ switching = FALSE
    /\ accepting = FALSE /\ updating = FALSE /\ draining = FALSE
    /\ candidate = FALSE /\ ctxDone = FALSE /\ procDone = FALSE /\ prep = "none"
    /\ dispatching = FALSE /\ exec = Idle /\ outcome = Idle
    /\ workspace = Idle
    /\ rpc = [r \in Reporters |-> "off"]
    /\ rver = [r \in Reporters |-> NoVersions]
    /\ rstat = [r \in Reporters |-> Idle]
    /\ dirty = {}
    /\ gh = Idle
    /\ calm = FALSE

\* runMain returns; the candidate, if any, was removed or is abandoned.
Exit(bad) ==
    /\ phase' = "down"
    /\ failed' = bad
    /\ UNCHANGED shutdown
    /\ MemoryLost

\* The service manager or an operator starts the program: config, lock, socket.
Boot ==
    /\ phase = "down"
    /\ phase' = "starting"
    /\ shutdown' = FALSE /\ failed' = FALSE
    /\ UNCHANGED <<switching, storeVars, fieldVars, execVars, workspace, reportVars, gh, calm>>

\* One turn of main's loop up to serve: newServer recovers rows left running
\* by a process that is gone, then serve starts its goroutines.
NewServer ==
    /\ phase = "starting"
    /\ RecoverInterrupted
    /\ phase' = "serving"
    /\ accepting' = TRUE
    /\ dispatching' = TRUE
    /\ rpc' = [rpc EXCEPT !["loop"] = "idle"]
    /\ UNCHANGED <<failed, shutdown, switching, updating, draining, candidate,
                   ctxDone, procDone, prep, exec, outcome, workspace,
                   rver, rstat, dirty, gh, calm>>

\* The database cannot be opened or read, or the listener cannot be rebuilt.
NewServerFails ==
    /\ phase = "starting"
    /\ Trouble("store")
    /\ Exit(TRUE)
    /\ UNCHANGED <<storeVars, workspace, gh, calm>>

Signal ==
    /\ phase # "down"
    /\ Trouble("signal")
    /\ shutdown' = TRUE
    /\ UNCHANGED <<phase, failed, switching, storeVars, fieldVars, execVars,
                   workspace, reportVars, gh, calm>>

\* Power loss, SIGKILL, a fatal error: rows, workspaces and GitHub remain.
Crash ==
    /\ phase # "down"
    /\ Trouble("crash")
    /\ Exit(TRUE)
    /\ UNCHANGED <<storeVars, workspace, gh, calm>>

BecomeCalm ==
    /\ FaultsEnd
    /\ ~calm
    /\ calm' = TRUE
    /\ UNCHANGED <<storeVars, mainVars, fieldVars, execVars, workspace, reportVars, gh>>

(***************************************************************************)
(* HTTP handlers.  The accepting test and Admit are under one lock.  A      *)
(* handler may outlive httpServer.Shutdown's deadline, so it can run until  *)
(* main closes the store.  Refusals (429, 503, 409) change nothing.         *)
(***************************************************************************)
StoreOpen == phase \in {"serving", "stopping", "recovering", "cancelling", "reporting"}

PostWebhook(j) ==
    /\ StoreOpen
    /\ accepting
    /\ Admit(j)
    /\ UNCHANGED <<mainVars, fieldVars, execVars, workspace, reportVars, gh, calm>>

PostUpdate ==
    /\ StoreOpen
    /\ accepting /\ ~updating
    /\ Trouble("update")
    /\ updating' = TRUE
    /\ prep' = "building"
    /\ UNCHANGED <<accepting, draining, candidate, ctxDone, procDone,
                   storeVars, mainVars, execVars, workspace, reportVars, gh, calm>>

(***************************************************************************)
(* prepareUpdate, and the goroutine of postUpdate around it.               *)
(***************************************************************************)
PrepStep(from, to) ==
    /\ prep = from
    /\ prep' = to
    /\ UNCHANGED <<storeVars, mainVars, execVars, workspace, gh, calm, accepting, updating, ctxDone>>

\* Forgets draining: the dispatcher goes on claiming.
FaultyBuildNoDrain ==
    /\ ~ctxDone
    /\ PrepStep("building", "draining")
    /\ candidate' = TRUE
    /\ UNCHANGED <<draining, procDone, reportVars>>

\* The build and the health check succeed; the lock decides against a stop.
BuildSucceeds ==
    /\ ~ctxDone
    /\ PrepStep("building", "draining")
    /\ candidate' = TRUE
    /\ draining' = TRUE
    /\ UNCHANGED <<procDone, reportVars>>

BuildFails ==
    /\ ctxDone \/ Trouble("build")
    /\ PrepStep("building", "failed")
    /\ UNCHANGED <<draining, candidate, procDone, reportVars>>

\* RunningCount is zero.  Only draining keeps it so from here on.
DrainedOut ==
    /\ ~ctxDone
    /\ Running = {}
    /\ PrepStep("draining", "drained")
    /\ UNCHANGED <<draining, candidate, procDone, reportVars>>

\* Waits for processing to end without asking it to.
FaultyCancelNothing ==
    /\ PrepStep("drained", "quiescing")
    /\ UNCHANGED <<draining, candidate, procDone, reportVars>>

\* processingCancel(): end the dispatcher and the status loop.
CancelProcessing ==
    /\ PrepStep("drained", "quiescing")
    /\ procDone' = TRUE
    /\ UNCHANGED <<draining, candidate, reportVars>>

DrainFails ==
    /\ ctxDone \/ Trouble("store")
    /\ PrepStep("draining", "failed")
    /\ UNCHANGED <<draining, candidate, procDone, reportVars>>

ProcessingDone == ~dispatching /\ rpc["loop"] = "off"

\* Flushes without waiting for the dispatcher and the status loop.
FaultyQuiescedAtOnce ==
    /\ PrepStep("quiescing", "flushing")
    /\ rpc' = [rpc EXCEPT !["sync"] = "idle"]
    /\ UNCHANGED <<draining, candidate, procDone, rver, rstat, dirty>>

\* waitForCleanup(processing) returns; reportJobStatuses(flushCtx) begins.
Quiesced ==
    /\ ProcessingDone
    /\ PrepStep("quiescing", "flushing")
    /\ rpc' = [rpc EXCEPT !["sync"] = "idle"]
    /\ UNCHANGED <<draining, candidate, procDone, rver, rstat, dirty>>

QuiesceFails ==
    /\ ctxDone
    /\ PrepStep("quiescing", "failed")
    /\ UNCHANGED <<draining, candidate, procDone, reportVars>>

\* The flush has returned, whatever it could deliver; ready closes updateReady.
FlushDone ==
    /\ rpc["sync"] = "off"
    /\ PrepStep("flushing", IF ctxDone THEN "failed" ELSE "ready")
    /\ UNCHANGED <<draining, candidate, procDone, reportVars>>

\* Leaves draining set.
FaultyAbandonedDraining ==
    /\ prep = "failed"
    /\ prep' = "none"
    /\ candidate' = FALSE
    /\ updating' = FALSE
    /\ accepting' = ~ctxDone
    /\ UNCHANGED <<draining, ctxDone, procDone, storeVars, mainVars, execVars, workspace,
                   reportVars, gh, calm>>

\* Accepts again without looking at the context.
FaultyAbandonedAccepting ==
    /\ prep = "failed"
    /\ prep' = "none"
    /\ candidate' = FALSE
    /\ updating' = FALSE
    /\ accepting' = TRUE
    /\ draining' = FALSE
    /\ UNCHANGED <<ctxDone, procDone, storeVars, mainVars, execVars, workspace, reportVars, gh, calm>>

\* postUpdate's goroutine undoes the preparation under the lock.
UpdateAbandoned ==
    /\ prep = "failed"
    /\ prep' = "none"
    /\ candidate' = FALSE
    /\ updating' = FALSE
    /\ accepting' = ~ctxDone
    /\ draining' = FALSE
    /\ UNCHANGED <<ctxDone, procDone, storeVars, mainVars, execVars, workspace, reportVars, gh, calm>>

(***************************************************************************)
(* Dispatcher and executions.                                              *)
(***************************************************************************)
Dispatch(j) ==
    /\ dispatching /\ ~procDone
    /\ ~draining
    /\ Claim(j)
    /\ exec' = [exec EXCEPT ![j] = "spawned"]
    /\ UNCHANGED <<dispatching, outcome, mainVars, fieldVars, workspace, reportVars, gh, calm>>

\* dispatchJobs leaves its loop and waits for its executions.
DispatcherEnds ==
    /\ dispatching /\ procDone
    /\ \A j \in Jobs : exec[j] = "none"
    /\ dispatching' = FALSE
    /\ UNCHANGED <<exec, outcome, storeVars, mainVars, fieldVars, workspace, reportVars, gh, calm>>

\* runJob has its log and calls execute, which creates the workspace.
ExecuteBegins(j) ==
    /\ exec[j] = "spawned"
    /\ ~procDone
    /\ exec' = [exec EXCEPT ![j] = "executing"]
    /\ workspace' = [workspace EXCEPT ![j] = "there"]
    /\ UNCHANGED <<dispatching, outcome, storeVars, mainVars, fieldVars, reportVars, gh, calm>>

\* The log cannot be opened, or the context ends before execute is called.
ExecuteSkipped(j) ==
    /\ exec[j] = "spawned"
    /\ procDone \/ Trouble("log")
    /\ exec' = [exec EXCEPT ![j] = "saving"]
    /\ outcome' = [outcome EXCEPT ![j] = "error"]
    /\ UNCHANGED <<dispatching, workspace, storeVars, mainVars, fieldVars, reportVars, gh, calm>>

\* execute returns, panics or times out.  A cancelled context makes any result
\* an error.
ExecuteEnds(j, s) ==
    /\ exec[j] = "executing"
    /\ procDone => s = "error"
    /\ exec' = [exec EXCEPT ![j] = "saving"]
    /\ outcome' = [outcome EXCEPT ![j] = s]
    /\ UNCHANGED <<dispatching, workspace, storeVars, mainVars, fieldVars, reportVars, gh, calm>>

\* Finish returns nil: the goroutine ends and its slot is free.
SaveOutcome(j) ==
    /\ exec[j] \in {"saving", "retrying"}
    /\ Finish(j, outcome[j])
    /\ exec' = [exec EXCEPT ![j] = "none"]
    /\ outcome' = [outcome EXCEPT ![j] = "none"]
    /\ UNCHANGED <<dispatching, workspace, mainVars, fieldVars, reportVars, gh, calm>>

\* Finish returns an error: nothing was written, or the write was committed
\* and its acknowledgement lost.  The goroutine waits for its next attempt.
SaveFails(j) ==
    /\ exec[j] \in {"saving", "retrying"}
    /\ Trouble("store")
    /\ FinishCommit(j, outcome[j]) \/ UNCHANGED storeVars
    /\ exec' = [exec EXCEPT ![j] = "retrying"]
    /\ UNCHANGED <<dispatching, outcome, workspace, mainVars, fieldVars, reportVars, gh, calm>>

\* Gives up after one failed write.
FaultyGivenUpAtOnce(j) ==
    /\ exec[j] = "retrying"
    /\ exec' = [exec EXCEPT ![j] = "none"]
    /\ outcome' = [outcome EXCEPT ![j] = "none"]
    /\ UNCHANGED <<dispatching, workspace, storeVars, mainVars, fieldVars, reportVars, gh, calm>>

\* The parent context ends during that wait: the row is left to recovery.
SaveGivenUp(j) ==
    /\ exec[j] = "retrying"
    /\ procDone
    /\ exec' = [exec EXCEPT ![j] = "none"]
    /\ outcome' = [outcome EXCEPT ![j] = "none"]
    /\ UNCHANGED <<dispatching, workspace, storeVars, mainVars, fieldVars, reportVars, gh, calm>>

(***************************************************************************)
(* reportJobStatuses, by reporter r: a snapshot of the unreported rows,    *)
(* then for each one in order a POST and an acknowledgement.               *)
(***************************************************************************)
Unsent(r) == {j \in Jobs : rver[r][j] > 0}
IsNext(j, todo) == j \in todo /\ \A k \in todo : j =< k

\* The context r was given: processingCtx, flushCtx, or stop's deadline.
ReporterDone(r) == IF r = "loop" THEN procDone ELSE prep = "flushing" /\ ctxDone

\* What r does when its list is finished or its round ends early.
Rest(r) == IF r = "loop" THEN "idle" ELSE "off"

Drop(r, j) ==
    /\ rver'  = [rver EXCEPT ![r][j] = 0]
    /\ rstat' = [rstat EXCEPT ![r][j] = "none"]

ReportStep(r, from, to) ==
    /\ rpc[r] = from
    /\ rpc' = [rpc EXCEPT ![r] = to]
    /\ UNCHANGED <<mainVars, fieldVars, execVars, calm>>

Snapshot(r) ==
    /\ ~ReporterDone(r)
    /\ ReportStep(r, "idle", "send")
    /\ rver'  = [rver EXCEPT ![r] =
                   [j \in Jobs |-> IF j \in Unsettled \ reported THEN version[j] ELSE 0]]
    /\ rstat' = [rstat EXCEPT ![r] =
                   [j \in Jobs |-> IF j \in Unsettled \ reported
                                   THEN GitHubState(state[j]) ELSE "none"]]
    /\ UNCHANGED <<dirty, storeVars, workspace, gh>>

PostBegins(r, j) ==
    /\ IsNext(j, Unsent(r))
    /\ ~ReporterDone(r)
    /\ ReportStep(r, "send", "flight")
    /\ UNCHANGED <<rver, rstat, dirty, storeVars, workspace, gh>>

PostSucceeds(r, j) ==
    /\ IsNext(j, Unsent(r))
    /\ ReportStep(r, "flight", "ack")
    /\ gh' = [gh EXCEPT ![j] = rstat[r][j]]
    /\ UNCHANGED <<rver, rstat, dirty, storeVars, workspace>>

\* An error, a cancelled request, or a response lost after GitHub recorded the
\* status: the row waits for the next round.
PostFails(r, j) ==
    /\ IsNext(j, Unsent(r))
    /\ ReporterDone(r) \/ "github" \in Troubles
    /\ ReportStep(r, "flight", "send")
    /\ \/ UNCHANGED gh
       \/ gh' = [gh EXCEPT ![j] = rstat[r][j]]
    /\ Drop(r, j)
    /\ UNCHANGED <<dirty, storeVars, workspace>>

AcknowledgePost(r, j) ==
    /\ IsNext(j, Unsent(r))
    /\ ~ReporterDone(r)
    /\ ReportStep(r, "ack", "send")
    /\ Acknowledge(j, rver[r][j])
    /\ Drop(r, j)
    /\ UNCHANGED <<dirty, workspace, gh>>

\* The context ends, or a store call fails: the rest of the list waits for the
\* next round.
RoundAborted(r) ==
    /\ ReporterDone(r) \/ Trouble("store")
    /\ rpc[r] \in {"send", "ack"} \/ (r = "sync" /\ rpc[r] = "idle")
    /\ rpc' = [rpc EXCEPT ![r] = Rest(r)]
    /\ rver' = [rver EXCEPT ![r] = NoVersions]
    /\ rstat' = [rstat EXCEPT ![r] = Idle]
    /\ failed' = (failed \/ (r = "sync" /\ phase = "reporting"))
    /\ UNCHANGED <<phase, shutdown, switching, dirty, storeVars, workspace, gh,
                   fieldVars, execVars, calm>>

SyncListEnds ==
    /\ Unsent("sync") = {}
    /\ ReportStep("sync", "send", "off")
    /\ UNCHANGED <<rver, rstat, dirty, storeVars, workspace, gh>>

(***************************************************************************)
(* The rest of reportJobUpdates: a second snapshot, for workspace cleanup. *)
(***************************************************************************)
\* Cleans only what GitHub has acknowledged.
FaultyCleanupReported ==
    /\ Unsent("loop") = {}
    /\ ~procDone
    /\ ReportStep("loop", "send", "clean")
    /\ dirty' = {j \in Unsettled : state[j] \in Terminal /\ j \notin cleaned /\ j \in reported}
    /\ UNCHANGED <<rver, rstat, storeVars, workspace, gh>>

CleanupSnapshot ==
    /\ Unsent("loop") = {}
    /\ ~procDone
    /\ ReportStep("loop", "send", "clean")
    /\ dirty' = {j \in Unsettled : state[j] \in Terminal /\ j \notin cleaned}
    /\ UNCHANGED <<rver, rstat, storeVars, workspace, gh>>

\* cleanupJob: container, bundles, then the workspace.
CleanupSucceeds(j) ==
    /\ IsNext(j, dirty)
    /\ workspace[j] # "stuck"
    /\ ReportStep("loop", "clean", "mark")
    /\ workspace' = [workspace EXCEPT ![j] = "none"]
    /\ UNCHANGED <<rver, rstat, dirty, storeVars, gh>>

\* A failed cleanup is marked like a successful one.
FaultyCleanupMarked(j) ==
    /\ IsNext(j, dirty)
    /\ procDone \/ Trouble("cleanup")
    /\ ReportStep("loop", "clean", "mark")
    /\ UNCHANGED <<rver, rstat, dirty, storeVars, workspace, gh>>

\* What an execution, a crash or a clean-up cut off has left turns out to be private
\* directories of a build or a bundle without a whole config.json (JobExecution): no
\* clean-up will ever get past it, in calm times neither.  A success has left none.
TurnsOutStuck(j) ==
    /\ "remains" \in Troubles
    /\ workspace[j] = "there" /\ state[j] # "success"
    /\ workspace' = [workspace EXCEPT ![j] = "stuck"]

\* Logged; the loop goes on with the next job and comes back to this one next round.
CleanupFails(j) ==
    /\ IsNext(j, dirty)
    /\ \/ (procDone \/ Trouble("cleanup") \/ workspace[j] = "stuck") /\ UNCHANGED workspace
       \/ TurnsOutStuck(j)
    /\ ReportStep("loop", "clean", "clean")
    /\ dirty' = dirty \ {j}
    /\ UNCHANGED <<rver, rstat, storeVars, gh>>

MarkCleanup(j) ==
    /\ IsNext(j, dirty)
    /\ ~procDone
    /\ ReportStep("loop", "mark", "clean")
    /\ MarkCleaned(j)
    /\ dirty' = dirty \ {j}
    /\ UNCHANGED <<rver, rstat, workspace, gh>>

\* The list is finished, or MarkCleaned returned an error.
CleanupEnds ==
    /\ \/ rpc["loop"] = "clean" /\ dirty = {}
       \/ rpc["loop"] = "mark" /\ (procDone \/ Trouble("store"))
    /\ rpc' = [rpc EXCEPT !["loop"] = "idle"]
    /\ dirty' = {}
    /\ UNCHANGED <<rver, rstat, storeVars, workspace, gh, mainVars, fieldVars, execVars, calm>>

StatusLoopEnds ==
    /\ procDone
    /\ ReportStep("loop", "idle", "off")
    /\ UNCHANGED <<rver, rstat, dirty, storeVars, workspace, gh>>

(***************************************************************************)
(* serve's select and stop().                                              *)
(***************************************************************************)
\* The locked section of stop(): no admission after it, unless for an update.
BeginStop(sw, bad) ==
    /\ phase = "serving"
    /\ phase' = "stopping"
    /\ switching' = sw
    /\ failed' = bad
    /\ accepting' = (accepting /\ sw)
    /\ ctxDone' = TRUE /\ procDone' = TRUE
    /\ UNCHANGED <<shutdown, updating, draining, candidate, prep,
                   storeVars, execVars, workspace, reportVars, gh, calm>>

StopOnSignal == shutdown /\ BeginStop(FALSE, FALSE)
StopForUpdate == prep = "ready" /\ BeginStop(~shutdown, FALSE)
\* The HTTP server itself fails.
StopOnServeError == Trouble("serve") /\ BeginStop(FALSE, TRUE)

\* Waits for the status loop, not for the dispatcher's executions.
FaultyTasksDone == rpc["loop"] = "off" /\ prep \in {"none", "ready"}

\* Processing, then the tasks (the update goroutine), have ended.
TasksDone == ProcessingDone /\ prep \in {"none", "ready"}

\* Removes the candidate before it looks whether it is needed.
FaultyStopDropsCandidate ==
    /\ phase = "stopping"
    /\ TasksDone
    /\ phase' = IF switching THEN "handoff" ELSE "recovering"
    /\ candidate' = FALSE
    /\ UNCHANGED <<failed, shutdown, switching, accepting, updating, draining, ctxDone,
                   procDone, prep, storeVars, execVars, workspace, reportVars, gh, calm>>

StopWaited ==
    /\ phase = "stopping"
    /\ TasksDone
    /\ phase' = IF switching THEN "handoff" ELSE "recovering"
    /\ candidate' = (candidate /\ switching)
    /\ UNCHANGED <<failed, shutdown, switching, accepting, updating, draining, ctxDone,
                   procDone, prep, storeVars, execVars, workspace, reportVars, gh, calm>>

\* The deadline passes first, or a store call of stop() fails: main returns and
\* whatever still runs ends with the process.
StopFails ==
    /\ phase \in {"stopping", "recovering", "cancelling"}
    /\ Trouble("store")
    /\ Exit(TRUE)
    /\ UNCHANGED <<storeVars, workspace, gh, calm>>

StopRecovers ==
    /\ phase = "recovering"
    /\ RecoverInterrupted
    /\ phase' = "cancelling"
    /\ UNCHANGED <<failed, shutdown, switching, fieldVars, execVars, workspace, reportVars, gh, calm>>

\* CancelQueued, then the one final reportJobStatuses begins.
StopCancels ==
    /\ phase = "cancelling"
    /\ CancelQueued
    /\ phase' = "reporting"
    /\ rpc' = [rpc EXCEPT !["sync"] = "idle"]
    /\ UNCHANGED <<failed, shutdown, switching, fieldVars, execVars, workspace,
                   rver, rstat, dirty, gh, calm>>

StopReported ==
    /\ phase = "reporting"
    /\ rpc["sync"] = "off"
    /\ Exit(failed)
    /\ UNCHANGED <<storeVars, workspace, gh, calm>>

(***************************************************************************)
(* main after serve returned a candidate.                                  *)
(***************************************************************************)
\* store.Close succeeds and no signal has come: go on to replaceProcess.
CloseForUpdate ==
    /\ phase = "handoff"
    /\ ~shutdown
    /\ phase' = "replacing"
    /\ UNCHANGED <<failed, shutdown, switching, storeVars, fieldVars, execVars,
                   workspace, reportVars, gh, calm>>

\* A signal came during the handoff, or store.Close failed: main returns.
HandoffEnds ==
    /\ phase = "handoff"
    /\ \/ shutdown /\ Exit(FALSE)
       \/ Trouble("store") /\ Exit(TRUE)
    /\ UNCHANGED <<storeVars, workspace, gh, calm>>

\* exec: a new program in the same process; a signal seen by the old is gone.
ReplaceProcess ==
    /\ phase = "replacing"
    /\ phase' = "starting"
    /\ shutdown' = FALSE
    /\ failed' = FALSE
    /\ MemoryLost
    /\ UNCHANGED <<storeVars, workspace, gh, calm>>

\* replaceProcess returns: the same program goes around main's loop.
ReplaceFails ==
    /\ phase = "replacing"
    /\ Trouble("exec")
    /\ phase' = "starting"
    /\ UNCHANGED <<failed, shutdown>>
    /\ MemoryLost
    /\ UNCHANGED <<storeVars, workspace, gh, calm>>

-----------------------------------------------------------------------------
Lifecycle ==
    \/ Boot \/ NewServer \/ NewServerFails \/ Signal \/ Crash \/ BecomeCalm
    \/ StopOnSignal \/ StopForUpdate \/ StopOnServeError
    \/ StopWaited \/ StopFails \/ StopRecovers \/ StopCancels \/ StopReported
    \/ CloseForUpdate \/ HandoffEnds \/ ReplaceProcess \/ ReplaceFails

Handlers == PostUpdate \/ \E j \in Jobs : PostWebhook(j)

Update ==
    \/ BuildSucceeds \/ BuildFails \/ DrainedOut \/ DrainFails
    \/ CancelProcessing \/ Quiesced \/ QuiesceFails \/ FlushDone \/ UpdateAbandoned

Dispatcher ==
    \/ DispatcherEnds
    \/ \E j \in Jobs : Dispatch(j)

Executor(j) ==
    \/ ExecuteBegins(j) \/ ExecuteSkipped(j)
    \/ \E s \in Results \cup {"error"} : ExecuteEnds(j, s)
    \/ SaveOutcome(j) \/ SaveFails(j) \/ SaveGivenUp(j)

Reporter(r) ==
    \/ Snapshot(r) \/ RoundAborted(r)
    \/ \E j \in Jobs : PostBegins(r, j) \/ PostSucceeds(r, j) \/ PostFails(r, j)
                      \/ AcknowledgePost(r, j)

Cleaner ==
    \/ CleanupSnapshot \/ CleanupEnds \/ StatusLoopEnds
    \/ \E j \in Jobs : CleanupSucceeds(j) \/ CleanupFails(j) \/ MarkCleanup(j)

Next ==
    \/ Lifecycle \/ Handlers \/ Update \/ Dispatcher
    \/ \E j \in Jobs : Executor(j)
    \/ \E r \in Reporters : Reporter(r)
    \/ SyncListEnds
    \/ Cleaner

Spec == Init /\ [][Next]_vars

(***************************************************************************)
(* Safety.                                                                 *)
(***************************************************************************)
ProcessTypeOK ==
    /\ phase \in Phases
    /\ prep \in Preps
    /\ {failed, shutdown, switching, accepting, updating, draining, candidate,
        ctxDone, procDone, dispatching, calm} \subseteq BOOLEAN
    /\ exec \in [Jobs -> Execs]
    /\ outcome \in [Jobs -> Terminal \cup {"none"}]
    /\ workspace \in [Jobs -> Workspaces]
    /\ rpc \in [Reporters -> {"off", "idle", "send", "flight", "ack", "clean", "mark"}]
    /\ rver \in [Reporters -> [Jobs -> Nat]]
    /\ rstat \in [Reporters -> [Jobs -> Terminal \cup {"none", "pending"}]]
    /\ dirty \subseteq Jobs
    /\ gh \in [Jobs -> Terminal \cup {"none", "pending"}]

\* Every variable of the table and of the process has one of the values the
\* code gives it; GitHub is only sent states it knows.
TypeOK == StoreTypeOK /\ ProcessTypeOK

\* Through all restarts and retries the columns of every row agree (JobStore), and
\* every variable has one of its values.
TableIsSound == TypeOK /\ RowsConsistent

\* A goroutine that executes a job, or still has its result to save, holds the
\* job's running row: the row leaves "running" only through that goroutine's
\* own Finish, although stop() and a restart also rewrite running rows.
ExecutionHoldsRow ==
    \A j \in Jobs :
        /\ exec[j] \in {"spawned", "executing", "saving"} => state[j] = "running"
        /\ exec[j] = "retrying" =>
              \/ state[j] = "running"
              \/ state[j] = outcome[j] /\ message[j] = "outcome"

\* Never more jobs execute than max_parallel, whatever writes failed and
\* however often the server restarted.
ParallelBound ==
    Cardinality({j \in Jobs : exec[j] \in {"spawned", "executing", "saving"}}) =< MaxParallel

\* No execution slot is lost: while the server serves, a running row has a
\* goroutine that will finish it, so the queue cannot stall behind it.
NoOrphanSlot ==
    phase = "serving" => \A j \in Running : exec[j] # "none"

\* The places of the queue and the execution slots are neither overrun nor lost.
SlotsAreSound == WithinLimits /\ ParallelBound /\ NoOrphanSlot

\* What the table says was reported is what GitHub shows, although the row may
\* change between the POST and its acknowledgement, responses get lost, and the
\* loop, the update flush and the final attempt all report.
ReportedIsShown ==
    \A j \in reported : gh[j] = GitHubState(state[j])

\* A workspace is cleaned only after its execution is over, and a job marked
\* cleaned has left none behind.
CleanupIsSafe ==
    /\ \A j \in dirty : exec[j] \notin {"spawned", "executing", "saving"}
    /\ \A j \in cleaned : workspace[j] = "none"

\* An update replaces the process only when nothing of the old one is left to
\* do: no running row, no execution, no status request, and a candidate.
HandoffIsQuiet ==
    phase \in {"handoff", "replacing"} =>
        /\ Running = {}
        /\ \A j \in Jobs : exec[j] = "none"
        /\ \A r \in Reporters : rpc[r] = "off"
        /\ candidate

\* An update waits for jobs and never cancels one: when it ends the dispatcher,
\* every execution has its result in the table, although the running count is
\* read before the dispatcher is told to stop.
UpdateSparesJobs ==
    (procDone /\ ~ctxDone) =>
        /\ Running = {}
        /\ \A j \in Jobs : exec[j] \in {"none", "retrying"}

\* A failed preparation leaves the server accepting and executing jobs, with no
\* staged candidate.
FailedUpdateResumes ==
    (phase = "serving" /\ ~updating) =>
        /\ accepting /\ ~draining /\ ~candidate
        /\ dispatching /\ ~procDone /\ rpc["loop"] # "off"

\* When stop() has cancelled the queue and reports for the last time, every job
\* has its verdict, and no handler that is still running can add another.
StopSettlesJobs ==
    phase = "reporting" => Queued = {} /\ Running = {}

\* cmd/ci/README.md: "Normal shutdown cancels running jobs and marks queued jobs
\* errored".  It does not hold: a signal that arrives after updateReady was
\* selected makes main return without error and without CancelQueued.
CleanExitSettlesJobs ==
    (phase = "down" /\ ~failed) => Queued = {} /\ Running = {}

(***************************************************************************)
(* Liveness.  Goroutines are scheduled; the service is started again; jobs *)
(* end (job_timeout); and the environment calms down some time: after that *)
(* no crash, signal, update request or failing store call, though GitHub   *)
(* may go on failing.                                                      *)
(***************************************************************************)
Fairness ==
    /\ WF_vars(BecomeCalm)
    /\ WF_vars(Boot \/ NewServer)
    /\ WF_vars(StopOnSignal \/ StopForUpdate \/ StopWaited \/ StopRecovers
               \/ StopCancels \/ StopReported \/ CloseForUpdate \/ HandoffEnds
               \/ ReplaceProcess)
    /\ WF_vars(Update)
    /\ WF_vars(Dispatcher)
    /\ \A j \in Jobs : WF_vars(Executor(j))
    /\ \A r \in Reporters : WF_vars(Reporter(r))
    /\ WF_vars(SyncListEnds)
    /\ WF_vars(Cleaner)

FairSpec == Spec /\ Fairness

\* GitHub answers now and then: where requests are made again and again, one is
\* accepted some time, whichever job it is about.
GitHubAnswers == SF_vars(\E j \in Jobs : PostSucceeds("loop", j))

\* Every admitted job gets a verdict and its workspace is cleaned up, even if
\* GitHub never accepts a status and however many workspaces before it in the
\* list cannot be cleaned; but for a workspace with remains that cleanupJob fails
\* on every time.
JobsEnd ==
    \A j \in Jobs :
        (state[j] = "queued") ~>
            (state[j] \in Terminal /\ (j \in cleaned \/ workspace[j] = "stuck"))

\* Every update request comes to an end: the process is replaced, or the
\* preparation is abandoned and the server resumes.
UpdatesEnd == updating ~> ~updating

\* Where GitHub answers, every verdict reaches it and stays acknowledged.
VerdictsShown ==
    GitHubAnswers =>
        \A j \in Jobs :
            (state[j] = "queued") ~> [](j \in reported /\ gh[j] = state[j] /\ gh[j] \in Terminal)

(***************************************************************************)
(* What somebody who watches the commits on GitHub is promised.            *)
(***************************************************************************)
Verdicts ==
    [j \in Jobs |-> CASE state[j] = "absent" -> "absent"
                      [] state[j] \in Terminal -> state[j]
                      [] OTHER -> "open"]

CS == INSTANCE CommitStatus WITH verdict <- Verdicts, shown <- gh

\* The server implements CommitStatus: GitHub shows nothing for a commit that
\* was not admitted, a verdict only once the row has it, and never goes back on
\* a verdict, although three callers of reportJobStatuses send snapshots that
\* may be old.
ImplementsCommitStatus == CS!Spec
=============================================================================
