--------------------------- MODULE CIServerProofs ---------------------------
(***************************************************************************)
(* Theorems about the CI server for any set of jobs, any limits and any    *)
(* trouble.                                                                *)
(***************************************************************************)
EXTENDS CIServer, JobStoreProofs

(***************************************************************************)
(* Type correctness, one lemma per group of actions.                       *)
(***************************************************************************)
\* A process that ends leaves well-typed memory.
LEMMA MemoryLostType ==
    ASSUME ProcessTypeOK, MemoryLost, phase' \in Phases, failed' \in BOOLEAN,
           shutdown' \in BOOLEAN, UNCHANGED <<workspace, gh, calm>>
    PROVE  ProcessTypeOK'
BY DEF ProcessTypeOK, MemoryLost, Preps, Execs, Idle, NoVersions, Reporters

\* Starting, stopping and losing the process.
LEMMA LifecycleType ==
    ASSUME TypeOK, Lifecycle
    PROVE  ProcessTypeOK'
<1> USE DEF TypeOK, ProcessTypeOK, Workspaces, mainVars, fieldVars, execVars, reportVars, Phases, Reporters
<1>1. ASSUME NEW bad \in BOOLEAN, Exit(bad), UNCHANGED <<workspace, gh, calm>> PROVE ProcessTypeOK'
  BY <1>1, MemoryLostType DEF Exit
<1>2. CASE NewServerFails \/ Crash \/ StopFails \/ StopReported \/ HandoffEnds
  BY <1>1, <1>2 DEF NewServerFails, Crash, StopFails, StopReported, HandoffEnds
<1>3. CASE ReplaceProcess \/ ReplaceFails
  BY <1>3, MemoryLostType DEF ReplaceProcess, ReplaceFails
<1>4. CASE Boot
  BY <1>4 DEF Boot
<1>5. CASE NewServer
  BY <1>5 DEF NewServer
<1>6. CASE Signal \/ BecomeCalm
  BY <1>6 DEF Signal, BecomeCalm
<1>7. ASSUME NEW sw \in BOOLEAN, NEW bad \in BOOLEAN, BeginStop(sw, bad) PROVE ProcessTypeOK'
  BY <1>7 DEF BeginStop
<1>8. CASE StopOnSignal \/ StopForUpdate \/ StopOnServeError
  BY <1>7, <1>8 DEF StopOnSignal, StopForUpdate, StopOnServeError
<1>9. CASE StopWaited
  BY <1>9 DEF StopWaited
<1>10. CASE StopRecovers \/ StopCancels \/ CloseForUpdate
  BY <1>10 DEF StopRecovers, StopCancels, CloseForUpdate
<1> QED
  BY <1>2, <1>3, <1>4, <1>5, <1>6, <1>8, <1>9, <1>10 DEF Lifecycle

\* Requests and the steps of an update.
LEMMA UpdateType ==
    ASSUME TypeOK, Handlers \/ Update
    PROVE  ProcessTypeOK'
<1> USE DEF TypeOK, ProcessTypeOK, Workspaces, mainVars, fieldVars, execVars, reportVars, Preps, Reporters, PrepStep
<1>1. CASE Handlers
  BY <1>1 DEF Handlers, PostUpdate, PostWebhook
<1>2. CASE BuildSucceeds \/ BuildFails \/ DrainedOut \/ DrainFails \/ CancelProcessing
  BY <1>2 DEF BuildSucceeds, BuildFails, DrainedOut, DrainFails, CancelProcessing
<1>3. CASE Quiesced \/ QuiesceFails \/ FlushDone
  BY <1>3 DEF Quiesced, QuiesceFails, FlushDone
<1>4. CASE UpdateAbandoned
  BY <1>4 DEF UpdateAbandoned
<1> QED
  BY <1>1, <1>2, <1>3, <1>4 DEF Update

\* The dispatcher and the executions.
LEMMA ExecutionType ==
    ASSUME TypeOK, Dispatcher \/ \E j \in Jobs : Executor(j)
    PROVE  ProcessTypeOK'
<1> USE DEF TypeOK, ProcessTypeOK, Workspaces, mainVars, fieldVars, execVars, reportVars, Execs
<1>1. CASE Dispatcher
  BY <1>1 DEF Dispatcher, DispatcherEnds, Dispatch
<1>2. ASSUME NEW j \in Jobs, ExecuteBegins(j) \/ ExecuteSkipped(j) PROVE ProcessTypeOK'
  BY <1>2 DEF ExecuteBegins, ExecuteSkipped, Terminal
<1>3. ASSUME NEW j \in Jobs, NEW s \in Results \cup {"error"}, ExecuteEnds(j, s) PROVE ProcessTypeOK'
  <2>1. s \in Terminal
    BY ResultsAssumption DEF Terminal
  <2> QED
    BY <1>3, <2>1 DEF ExecuteEnds
<1>4. ASSUME NEW j \in Jobs, SaveOutcome(j) \/ SaveFails(j) \/ SaveGivenUp(j) PROVE ProcessTypeOK'
  BY <1>4 DEF SaveOutcome, SaveFails, SaveGivenUp
<1> QED
  BY <1>1, <1>2, <1>3, <1>4 DEF Executor

\* The status reporters and the cleanup.
LEMMA ReporterType ==
    ASSUME TypeOK, (\E r \in Reporters : Reporter(r)) \/ SyncListEnds \/ Cleaner
    PROVE  ProcessTypeOK'
<1> USE DEF TypeOK, ProcessTypeOK, Workspaces, mainVars, fieldVars, execVars, reportVars, ReportStep
<1>1. ASSUME NEW r \in Reporters, Snapshot(r) PROVE ProcessTypeOK'
  BY <1>1 DEF Snapshot, GitHubState, Reporters, StoreTypeOK
<1>2. ASSUME NEW r \in Reporters, RoundAborted(r) PROVE ProcessTypeOK'
  BY <1>2 DEF RoundAborted, Rest, NoVersions, Idle, Reporters
<1>3. ASSUME NEW r \in Reporters, NEW j \in Jobs, PostBegins(r, j) \/ PostSucceeds(r, j)
      PROVE  ProcessTypeOK'
  BY <1>3 DEF PostBegins, PostSucceeds, Reporters
<1>4. ASSUME NEW r \in Reporters, NEW j \in Jobs, PostFails(r, j) \/ AcknowledgePost(r, j)
      PROVE  ProcessTypeOK'
  BY <1>4 DEF PostFails, AcknowledgePost, Drop, Reporters
<1>5. CASE SyncListEnds \/ StatusLoopEnds \/ CleanupEnds
  BY <1>5 DEF SyncListEnds, StatusLoopEnds, CleanupEnds, Reporters
<1>6. CASE CleanupSnapshot
  BY <1>6 DEF CleanupSnapshot, Unsettled, Reporters
<1>7. ASSUME NEW j \in Jobs, CleanupSucceeds(j) \/ CleanupFails(j) \/ MarkCleanup(j)
      PROVE  ProcessTypeOK'
  BY <1>7 DEF CleanupSucceeds, CleanupFails, TurnsOutStuck, MarkCleanup, Reporters
<1> QED
  BY <1>1, <1>2, <1>3, <1>4, <1>5, <1>6, <1>7 DEF Reporter, Cleaner

(***************************************************************************)
(* The inductive invariant of the executions.                              *)
(***************************************************************************)
\* Executions live between a claim and the end of the dispatcher, and the rows
\* they hold are running: strengthens ExecutionHoldsRow.
ExecInv ==
    /\ ExecutionHoldsRow
    /\ \A j \in Jobs : exec[j] # "none" => dispatching
    /\ dispatching => phase \in {"serving", "stopping"}
    /\ \A j \in Jobs : exec[j] \in {"saving", "retrying"} => outcome[j] \in Terminal

\* Every step of the server is a call of one store operation, or leaves the
\* table alone: the server is one of the clients JobStore allows.
LEMMA ServerStepIsStoreStep ==
    ASSUME TypeOK, ExecInv, [Next]_vars
    PROVE  [StoreNext]_storeVars
<1>1. CASE Lifecycle
  BY <1>1 DEF Lifecycle, Boot, NewServer, NewServerFails, Signal, Crash, BecomeCalm, StopOnSignal,
     StopForUpdate, StopOnServeError, BeginStop, StopWaited, StopFails, StopRecovers, StopCancels,
     StopReported, CloseForUpdate, HandoffEnds, ReplaceProcess, ReplaceFails, StoreNext, storeVars
<1>2. CASE Handlers
  BY <1>2 DEF Handlers, PostUpdate, PostWebhook, StoreNext
<1>3. CASE Update
  BY <1>3 DEF Update, BuildSucceeds, BuildFails, DrainedOut, DrainFails, CancelProcessing, Quiesced,
     QuiesceFails, FlushDone, UpdateAbandoned, PrepStep
<1>4. CASE Dispatcher
  BY <1>4 DEF Dispatcher, DispatcherEnds, Dispatch, StoreNext
<1>5. ASSUME NEW j \in Jobs, ExecuteBegins(j) \/ ExecuteSkipped(j) \/ SaveGivenUp(j)
      PROVE  UNCHANGED storeVars
  BY <1>5 DEF ExecuteBegins, ExecuteSkipped, SaveGivenUp
<1>6. ASSUME NEW j \in Jobs, NEW s, ExecuteEnds(j, s) PROVE UNCHANGED storeVars
  BY <1>6 DEF ExecuteEnds
<1>7. ASSUME NEW j \in Jobs, SaveOutcome(j) \/ SaveFails(j) PROVE [StoreNext]_storeVars
  <2>1. outcome[j] \in Terminal
    BY <1>7 DEF SaveOutcome, SaveFails, ExecInv
  <2> QED
    BY <1>7, <2>1 DEF SaveOutcome, SaveFails, Finish, StoreNext
<1>8. ASSUME NEW r \in Reporters, NEW j \in Jobs, AcknowledgePost(r, j) PROVE [StoreNext]_storeVars
  <2>1. Acknowledge(j, rver[r][j]) /\ rver[r][j] > 0
    BY <1>8 DEF AcknowledgePost, IsNext, Unsent
  <2>2. CASE rver[r][j] = version[j]
    BY <2>1, <2>2 DEF StoreNext, TypeOK, StoreTypeOK
  <2>3. CASE rver[r][j] # version[j]
    BY <2>1, <2>3 DEF Acknowledge, storeVars
  <2> QED
    BY <2>2, <2>3
<1>9. ASSUME NEW r \in Reporters, NEW j \in Jobs,
             PostBegins(r, j) \/ PostSucceeds(r, j) \/ PostFails(r, j)
      PROVE  UNCHANGED storeVars
  BY <1>9 DEF PostBegins, PostSucceeds, PostFails
<1>10. ASSUME NEW r \in Reporters, Snapshot(r) \/ RoundAborted(r) PROVE UNCHANGED storeVars
  BY <1>10 DEF Snapshot, RoundAborted
<1>11. CASE SyncListEnds \/ Cleaner
  BY <1>11 DEF SyncListEnds, Cleaner, CleanupSnapshot, CleanupEnds, StatusLoopEnds, CleanupSucceeds,
     CleanupFails, MarkCleanup, StoreNext
<1>12. CASE UNCHANGED vars
  BY <1>12 DEF vars
<1> QED
  BY <1>1, <1>2, <1>3, <1>4, <1>5, <1>6, <1>7, <1>8, <1>9, <1>10, <1>11, <1>12
     DEF Next, Executor, Reporter

\* Every step keeps the types.
LEMMA StepTypeOK ==
    ASSUME TypeOK, ExecInv, [Next]_vars
    PROVE  TypeOK'
<1>1. StoreTypeOK'
  BY ServerStepIsStoreStep, StepType DEF TypeOK
<1>2. CASE UNCHANGED vars
  BY <1>2 DEF vars, TypeOK, StoreTypeOK, ProcessTypeOK, storeVars, mainVars, fieldVars, execVars, reportVars
<1>3. ProcessTypeOK'
  BY <1>2, LifecycleType, UpdateType, ExecutionType, ReporterType DEF Next, TypeOK
<1> QED
  BY <1>1, <1>3 DEF TypeOK

\* Steps that neither write the table nor touch an execution keep ExecInv, if
\* they do not take the phase away from a dispatcher.
LEMMA ExecFrame ==
    ASSUME ExecInv, UNCHANGED <<state, message, dispatching, exec, outcome>>,
           dispatching => phase' \in {"serving", "stopping"}
    PROVE  ExecInv'
BY DEF ExecInv, ExecutionHoldsRow

\* A process without executions has ExecInv, whatever the table says.
LEMMA NoExecutions ==
    ASSUME exec' = Idle, ~dispatching'
    PROVE  ExecInv'
BY DEF ExecInv, ExecutionHoldsRow, Idle

\* Starting and stopping: running rows are rewritten only when no execution
\* is left.
LEMMA LifecycleExec ==
    ASSUME TypeOK, ExecInv, Lifecycle
    PROVE  ExecInv'
<1>1. ASSUME MemoryLost PROVE ExecInv'
  BY <1>1, NoExecutions DEF MemoryLost
<1>2. CASE \/ NewServerFails \/ Crash \/ StopFails \/ StopReported \/ HandoffEnds
           \/ ReplaceProcess \/ ReplaceFails
  BY <1>1, <1>2 DEF NewServerFails, Crash, StopFails, StopReported, HandoffEnds, Exit,
     ReplaceProcess, ReplaceFails
<1>3. ASSUME ~dispatching PROVE \A j \in Jobs : exec[j] = "none"
  BY <1>3 DEF ExecInv
<1>4. CASE Boot \/ Signal \/ BecomeCalm
  BY <1>4, ExecFrame DEF Boot, Signal, BecomeCalm, storeVars, mainVars, execVars, ExecInv
<1>5. CASE StopOnSignal \/ StopForUpdate \/ StopOnServeError
  BY <1>5, ExecFrame DEF StopOnSignal, StopForUpdate, StopOnServeError, BeginStop, storeVars, execVars
<1>6. CASE NewServer
  BY <1>3, <1>6 DEF NewServer, ExecInv, ExecutionHoldsRow
<1>7. CASE StopWaited
  <2>1. ~dispatching
    BY <1>7 DEF StopWaited, TasksDone, ProcessingDone
  <2> QED
    BY <1>7, <2>1, ExecFrame DEF StopWaited, storeVars, execVars
<1>8. CASE StopRecovers \/ StopCancels
  <2>1. ~dispatching
    BY <1>8 DEF StopRecovers, StopCancels, ExecInv
  <2> QED
    BY <1>3, <1>8, <2>1 DEF StopRecovers, StopCancels, ExecInv, ExecutionHoldsRow, execVars
<1>9. CASE CloseForUpdate
  BY <1>9, ExecFrame DEF CloseForUpdate, storeVars, execVars, ExecInv
<1> QED
  BY <1>2, <1>4, <1>5, <1>6, <1>7, <1>8, <1>9 DEF Lifecycle

\* The dispatcher and the executions themselves.
LEMMA ExecutionExec ==
    ASSUME TypeOK, ExecInv, Dispatcher \/ \E j \in Jobs : Executor(j)
    PROVE  ExecInv'
<1> USE DEF TypeOK, StoreTypeOK, ProcessTypeOK, ExecInv, ExecutionHoldsRow, mainVars
<1>1. ASSUME NEW j \in Jobs, Dispatch(j) PROVE ExecInv'
  <2>1. state[j] = "queued" /\ Write({j}, "running", "building")
    BY <1>1 DEF Dispatch, Claim, IsOldestQueued, Queued, InState
  <2> QED
    BY <1>1, <2>1 DEF Dispatch, Write
<1>2. CASE DispatcherEnds
  BY <1>2 DEF DispatcherEnds, storeVars
<1>3. ASSUME NEW j \in Jobs, ExecuteBegins(j) PROVE ExecInv'
  BY <1>3 DEF ExecuteBegins, storeVars
<1>4. ASSUME NEW j \in Jobs, ExecuteSkipped(j) PROVE ExecInv'
  BY <1>4 DEF ExecuteSkipped, storeVars, Terminal
<1>5. ASSUME NEW j \in Jobs, NEW s \in Results \cup {"error"}, ExecuteEnds(j, s) PROVE ExecInv'
  <2>1. s \in Terminal
    BY ResultsAssumption DEF Terminal
  <2> QED
    BY <1>5, <2>1 DEF ExecuteEnds, storeVars
<1>6. ASSUME NEW j \in Jobs, SaveOutcome(j) PROVE ExecInv'
  BY <1>6 DEF SaveOutcome, Finish, FinishCommit, FinishRepeated, Write, storeVars
<1>7. ASSUME NEW j \in Jobs, SaveFails(j) PROVE ExecInv'
  BY <1>7 DEF SaveFails, FinishCommit, Write, storeVars
<1>8. ASSUME NEW j \in Jobs, SaveGivenUp(j) PROVE ExecInv'
  BY <1>8 DEF SaveGivenUp, storeVars
<1> QED
  BY <1>1, <1>2, <1>3, <1>4, <1>5, <1>6, <1>7, <1>8 DEF Dispatcher, Executor

\* Handlers, updates, reporters and cleanup do not disturb an execution.
LEMMA OthersExec ==
    ASSUME TypeOK, ExecInv,
           \/ Handlers \/ Update
           \/ \E r \in Reporters : Reporter(r)
           \/ SyncListEnds \/ Cleaner
    PROVE  ExecInv'
<1> USE DEF execVars, mainVars, storeVars
<1>0. ASSUME UNCHANGED <<state, message, phase, dispatching, exec, outcome>> PROVE ExecInv'
  BY <1>0, ExecFrame DEF ExecInv
<1>1. ASSUME NEW j \in Jobs, PostWebhook(j) PROVE ExecInv'
  BY <1>1 DEF PostWebhook, Admit, Write, ExecInv, ExecutionHoldsRow, TypeOK, StoreTypeOK,
     ProcessTypeOK, Terminal
<1>2. CASE PostUpdate \/ Update
  BY <1>0, <1>2 DEF PostUpdate, Update, BuildSucceeds, BuildFails, DrainedOut, DrainFails,
     CancelProcessing, Quiesced, QuiesceFails, FlushDone, UpdateAbandoned, PrepStep
<1>3. ASSUME NEW r \in Reporters, Reporter(r) PROVE ExecInv'
  BY <1>0, <1>3 DEF Reporter, Snapshot, RoundAborted, PostBegins, PostSucceeds, PostFails,
     AcknowledgePost, Acknowledge, ReportStep
<1>4. CASE SyncListEnds \/ Cleaner
  BY <1>0, <1>4 DEF SyncListEnds, Cleaner, CleanupSnapshot, CleanupEnds, StatusLoopEnds,
     CleanupSucceeds, CleanupFails, MarkCleanup, MarkCleaned, ReportStep
<1> QED
  BY <1>1, <1>2, <1>3, <1>4 DEF Handlers

\* Every step keeps ExecInv.
LEMMA StepExecInv ==
    ASSUME TypeOK, ExecInv, [Next]_vars
    PROVE  ExecInv'
<1>1. CASE UNCHANGED vars
  BY <1>1, ExecFrame DEF vars, storeVars, mainVars, execVars, ExecInv
<1> QED
  BY <1>1, LifecycleExec, ExecutionExec, OthersExec DEF Next

\* Types and executions together are inductive.
LEMMA TypeAndExec == Spec => [](TypeOK /\ ExecInv)
<1>1. Init => TypeOK /\ ExecInv
  <2> SUFFICES ASSUME Init PROVE TypeOK /\ ExecInv
    OBVIOUS
  <2>1. StoreTypeOK
    BY DEF Init, StoreInit, StoreTypeOK, States, Messages
  <2>2. ProcessTypeOK
    BY DEF Init, ProcessTypeOK, Phases, Preps, Execs, Workspaces, Idle, NoVersions, Reporters
  <2>3. ExecInv
    BY DEF Init, Idle, ExecInv, ExecutionHoldsRow
  <2> QED
    BY <2>1, <2>2, <2>3 DEF TypeOK
<1>2. TypeOK /\ ExecInv /\ [Next]_vars => (TypeOK /\ ExecInv)'
  BY StepTypeOK, StepExecInv
<1> QED
  BY <1>1, <1>2, PTL DEF Spec

\* The table and the process hold only values the code gives them, and GitHub
\* is only sent states it knows.
THEOREM ServerTypeCorrect == Spec => []TypeOK
BY TypeAndExec, PTL

\* An execution holds its running row until its own Finish, through stops,
\* restarts, failed writes and updates.
THEOREM ServerExecutionHoldsRow == Spec => []ExecutionHoldsRow
<1>1. ExecInv => ExecutionHoldsRow
  BY DEF ExecInv
<1> QED
  BY <1>1, TypeAndExec, PTL

\* The CI server uses the job table as JobStore allows any client to, so all
\* that is proved of the table holds of the server.
THEOREM ServerImplementsStore == Spec => StoreSpec
<1>1. Init => StoreInit
  BY DEF Init
<1>2. TypeOK /\ ExecInv /\ [Next]_vars => [StoreNext]_storeVars
  BY ServerStepIsStoreStep
<1> QED
  BY <1>1, <1>2, TypeAndExec, PTL DEF Spec, StoreSpec

\* Never more than max_parallel jobs execute: each holds a running row, and the
\* table limits those.
THEOREM ServerParallelBound == Spec => []ParallelBound
<1>1. StoreTypeOK /\ ExecInv /\ WithinLimits => ParallelBound
  <2> SUFFICES ASSUME StoreTypeOK, ExecInv, WithinLimits PROVE ParallelBound
    OBVIOUS
  <2> DEFINE Busy == {j \in Jobs : exec[j] \in {"spawned", "executing", "saving"}}
  <2>1. Busy \subseteq InState("running")
    BY DEF ExecInv, ExecutionHoldsRow, InState
  <2>2. /\ IsFiniteSet(InState("running")) /\ Cardinality(InState("running")) \in Nat
        /\ Cardinality(InState("running")) =< MaxParallel
    BY InStateFinite DEF WithinLimits, Running
  <2>3. Cardinality(Busy) =< Cardinality(InState("running")) /\ Cardinality(Busy) \in Nat
    BY <2>1, <2>2, FS_Subset, FS_CardinalityType
  <2> QED
    BY <2>2, <2>3, LimitsAssumption DEF ParallelBound
<1> QED
  BY <1>1, TypeAndExec, ServerImplementsStore, StoreTypeCorrect, StoreWithinLimits, PTL

(***************************************************************************)
(* The inductive invariant of updates and stops.                           *)
(***************************************************************************)
\* How far the process, its contexts and the update goroutine can be apart.
ControlInv ==
    /\ phase \in {"down", "starting"} =>
          /\ ~ctxDone /\ ~procDone /\ ~draining /\ ~candidate /\ ~accepting
          /\ ~switching /\ prep = "none"
    /\ phase = "serving" => ~ctxDone /\ accepting /\ ~switching
    /\ phase \notin {"down", "starting", "serving"} => ctxDone /\ procDone
    /\ phase \notin {"serving", "stopping"} => prep \in {"none", "ready"} /\ rpc["loop"] = "off"
    /\ phase \in {"handoff", "replacing"} => switching
    /\ switching => prep = "ready" /\ phase \in {"stopping", "handoff", "replacing"}
    /\ (accepting /\ ~switching) => phase = "serving"
    /\ (procDone /\ ~ctxDone) => prep \in {"quiescing", "flushing", "ready"}
    /\ updating <=> prep # "none"
    /\ prep \in {"draining", "drained", "quiescing", "flushing", "ready"} => draining
    /\ prep \in {"quiescing", "flushing", "ready"} => procDone
    /\ prep \in {"drained", "quiescing", "flushing", "ready"} => Running = {}
    /\ prep \in {"none", "building"} => ~draining /\ ~candidate
    /\ prep \in {"draining", "drained", "quiescing", "flushing"} => candidate
    /\ prep = "ready" => candidate \/ (phase \notin {"serving", "stopping"} /\ ~switching)
    /\ prep \in {"flushing", "ready"} => ProcessingDone
    /\ rpc["sync"] # "off" => prep = "flushing" \/ phase = "reporting"
    /\ (phase = "serving" /\ ~procDone) => dispatching /\ rpc["loop"] # "off"
    /\ phase \in {"cancelling", "reporting"} => Running = {}
    /\ phase = "reporting" => Queued = {}
    /\ NoOrphanSlot

\* Starting, stopping and losing the process.
LEMMA LifecycleControl ==
    ASSUME TypeOK, ExecInv, ControlInv, Lifecycle
    PROVE  ControlInv'
<1> USE DEF TypeOK, ProcessTypeOK, ControlInv, ProcessingDone, NoOrphanSlot, mainVars, fieldVars,
            execVars, reportVars, Reporters
<1>1. ASSUME MemoryLost, phase' \in {"down", "starting"} PROVE ControlInv'
  BY <1>1 DEF MemoryLost, Idle
<1>2. CASE \/ NewServerFails \/ Crash \/ StopFails \/ StopReported \/ HandoffEnds
           \/ ReplaceProcess \/ ReplaceFails
  BY <1>1, <1>2 DEF NewServerFails, Crash, StopFails, StopReported, HandoffEnds, Exit,
     ReplaceProcess, ReplaceFails
<1>3. CASE Boot
  BY <1>3 DEF Boot, storeVars, Running, Queued, InState
<1>4. CASE NewServer
  BY <1>4 DEF NewServer, RecoverInterrupted, Write, Running, InState, StoreTypeOK
<1>5. CASE Signal \/ BecomeCalm
  BY <1>5 DEF Signal, BecomeCalm, storeVars, Running, Queued, InState
<1>6. CASE StopOnSignal \/ StopForUpdate \/ StopOnServeError
  BY <1>6 DEF StopOnSignal, StopForUpdate, StopOnServeError, BeginStop, storeVars, Running, Queued, InState
<1>7. CASE StopWaited
  BY <1>7 DEF StopWaited, TasksDone, storeVars, Running, Queued, InState
<1>8. CASE StopRecovers
  BY <1>8 DEF StopRecovers, RecoverInterrupted, Write, Running, InState, StoreTypeOK
<1>9. CASE StopCancels
  BY <1>9 DEF StopCancels, CancelQueued, Write, Running, Queued, InState, StoreTypeOK
<1>10. CASE CloseForUpdate
  BY <1>10 DEF CloseForUpdate, storeVars, Running, Queued, InState
<1> QED
  BY <1>2, <1>3, <1>4, <1>5, <1>6, <1>7, <1>8, <1>9, <1>10 DEF Lifecycle

\* Requests and the steps of an update.  Nothing is admitted once a stop that
\* is not for an update has begun.
LEMMA UpdateControl ==
    ASSUME TypeOK, ExecInv, ControlInv, Handlers \/ Update
    PROVE  ControlInv'
<1> USE DEF TypeOK, ProcessTypeOK, ControlInv, ProcessingDone, NoOrphanSlot, mainVars, fieldVars,
            execVars, reportVars, Reporters, PrepStep
<1>1. ASSUME NEW j \in Jobs, PostWebhook(j) PROVE ControlInv'
  BY <1>1 DEF PostWebhook, StoreOpen, Admit, Write, Running, Queued, InState, StoreTypeOK
<1>2. CASE PostUpdate
  BY <1>2 DEF PostUpdate, StoreOpen, storeVars, Running, Queued, InState
<1>3. CASE BuildSucceeds \/ BuildFails
  BY <1>3 DEF BuildSucceeds, BuildFails, storeVars, Running, Queued, InState
<1>4. CASE DrainedOut \/ DrainFails \/ CancelProcessing
  BY <1>4 DEF DrainedOut, DrainFails, CancelProcessing, storeVars, Running, Queued, InState
<1>5. CASE Quiesced \/ QuiesceFails
  BY <1>5 DEF Quiesced, QuiesceFails, storeVars, Running, Queued, InState
<1>6. CASE FlushDone
  BY <1>6 DEF FlushDone, storeVars, Running, Queued, InState
<1>7. CASE UpdateAbandoned
  BY <1>7 DEF UpdateAbandoned, storeVars, Running, Queued, InState
<1> QED
  BY <1>1, <1>2, <1>3, <1>4, <1>5, <1>6, <1>7 DEF Handlers, Update

\* The dispatcher and the executions: a row starts to run only while nothing
\* is draining, and an execution ends without a result only during a stop.
LEMMA ExecutionControl ==
    ASSUME TypeOK, ExecInv, ControlInv, Dispatcher \/ \E j \in Jobs : Executor(j)
    PROVE  ControlInv'
<1> USE DEF TypeOK, ProcessTypeOK, ControlInv, ProcessingDone, NoOrphanSlot, mainVars, fieldVars,
            execVars, reportVars
<1>1. ASSUME NEW j \in Jobs, Dispatch(j) PROVE ControlInv'
  BY <1>1 DEF Dispatch, Claim, Write, Running, Queued, InState, StoreTypeOK, ExecInv
<1>2. CASE DispatcherEnds
  BY <1>2 DEF DispatcherEnds, storeVars, Running, Queued, InState
<1>3. ASSUME NEW j \in Jobs, ExecuteBegins(j) \/ ExecuteSkipped(j) PROVE ControlInv'
  BY <1>3 DEF ExecuteBegins, ExecuteSkipped, storeVars, Running, Queued, InState
<1>4. ASSUME NEW j \in Jobs, NEW s, ExecuteEnds(j, s) PROVE ControlInv'
  BY <1>4 DEF ExecuteEnds, storeVars, Running, Queued, InState
<1>5. ASSUME NEW j \in Jobs, SaveOutcome(j) PROVE ControlInv'
  <2>1. outcome[j] \notin {"queued", "running"}
    BY <1>5 DEF SaveOutcome, ExecInv, Terminal
  <2> QED
    BY <1>5, <2>1 DEF SaveOutcome, Finish, FinishCommit, FinishRepeated, Write, storeVars,
       Running, Queued, InState, StoreTypeOK
<1>6. ASSUME NEW j \in Jobs, SaveFails(j) PROVE ControlInv'
  <2>1. outcome[j] \notin {"queued", "running"}
    BY <1>6 DEF SaveFails, ExecInv, Terminal
  <2> QED
    BY <1>6, <2>1 DEF SaveFails, FinishCommit, Write, storeVars, Running, Queued, InState, StoreTypeOK
<1>7. ASSUME NEW j \in Jobs, SaveGivenUp(j) PROVE ControlInv'
  BY <1>7 DEF SaveGivenUp, storeVars, Running, Queued, InState
<1> QED
  BY <1>1, <1>2, <1>3, <1>4, <1>5, <1>6, <1>7 DEF Dispatcher, Executor

\* The reporters and the cleanup.
LEMMA ReporterControl ==
    ASSUME TypeOK, ExecInv, ControlInv,
           (\E r \in Reporters : Reporter(r)) \/ SyncListEnds \/ Cleaner
    PROVE  ControlInv'
<1> USE DEF TypeOK, ProcessTypeOK, Workspaces, mainVars, fieldVars, execVars, reportVars, Reporters
<1>1. ASSUME UNCHANGED <<state, phase, switching, fieldVars, execVars>>,
             rpc'["loop"] = "off" <=> rpc["loop"] = "off",
             rpc["sync"] = "off" => rpc'["sync"] = "off"
      PROVE  ControlInv'
  BY <1>1 DEF ControlInv, ProcessingDone, NoOrphanSlot, Running, Queued, InState
<1>2. ASSUME NEW r \in Reporters, Snapshot(r) PROVE ControlInv'
  BY <1>1, <1>2 DEF Snapshot, ReportStep, storeVars
<1>3. ASSUME NEW r \in Reporters, RoundAborted(r) PROVE ControlInv'
  BY <1>1, <1>3 DEF RoundAborted, Rest, storeVars
<1>4. ASSUME NEW r \in Reporters, NEW j \in Jobs,
             PostBegins(r, j) \/ PostSucceeds(r, j) \/ PostFails(r, j)
      PROVE  ControlInv'
  BY <1>1, <1>4 DEF PostBegins, PostSucceeds, PostFails, ReportStep, storeVars
<1>5. ASSUME NEW r \in Reporters, NEW j \in Jobs, AcknowledgePost(r, j) PROVE ControlInv'
  BY <1>1, <1>5 DEF AcknowledgePost, Acknowledge, ReportStep
<1>6. CASE SyncListEnds \/ CleanupEnds \/ CleanupSnapshot
  BY <1>1, <1>6 DEF SyncListEnds, CleanupEnds, CleanupSnapshot, ReportStep, storeVars
<1>7. CASE StatusLoopEnds
  BY <1>7 DEF StatusLoopEnds, ReportStep, storeVars, ControlInv, ProcessingDone, NoOrphanSlot,
     Running, Queued, InState
<1>8. ASSUME NEW j \in Jobs, CleanupSucceeds(j) \/ CleanupFails(j) PROVE ControlInv'
  BY <1>1, <1>8 DEF CleanupSucceeds, CleanupFails, ReportStep, storeVars
<1>9. ASSUME NEW j \in Jobs, MarkCleanup(j) PROVE ControlInv'
  BY <1>1, <1>9 DEF MarkCleanup, MarkCleaned, ReportStep
<1> QED
  BY <1>2, <1>3, <1>4, <1>5, <1>6, <1>7, <1>8, <1>9 DEF Reporter, Cleaner

\* Every step keeps ControlInv.
LEMMA StepControlInv ==
    ASSUME TypeOK, ExecInv, ControlInv, [Next]_vars
    PROVE  ControlInv'
<1>1. CASE UNCHANGED vars
  BY <1>1 DEF vars, storeVars, mainVars, fieldVars, execVars, reportVars, ControlInv,
     ProcessingDone, NoOrphanSlot, Running, Queued, InState
<1> QED
  BY <1>1, LifecycleControl, UpdateControl, ExecutionControl, ReporterControl DEF Next

\* The control invariant holds in every behaviour.
LEMMA Control == Spec => []ControlInv
<1>1. Init => ControlInv
  BY DEF Init, StoreInit, ControlInv, ProcessingDone, NoOrphanSlot, Running, InState, Reporters
<1>2. TypeOK /\ ExecInv /\ ControlInv /\ [Next]_vars => ControlInv'
  BY StepControlInv
<1> QED
  BY <1>1, <1>2, TypeAndExec, PTL DEF Spec

\* No slot is lost: while the server serves, a running row has its goroutine.
THEOREM ServerNoOrphanSlot == Spec => []NoOrphanSlot
<1>1. ControlInv => NoOrphanSlot
  BY DEF ControlInv
<1> QED
  BY <1>1, Control, PTL

\* The columns of the table agree and all variables are well typed, whatever the server
\* goes through: the server is a client of the table.
THEOREM ServerTableIsSound == Spec => []TableIsSound
BY ServerTypeCorrect, ServerImplementsStore, StoreConsistent, PTL DEF TableIsSound

\* Queue and slots are neither overrun nor lost.
THEOREM ServerSlotsAreSound == Spec => []SlotsAreSound
BY ServerParallelBound, ServerNoOrphanSlot, ServerImplementsStore, StoreWithinLimits, PTL
   DEF SlotsAreSound

\* In the server a job is queued once, runs at most once and keeps its verdict.
THEOREM ServerMovesForward == Spec => RowsMoveForward
BY ServerImplementsStore, StoreMovesForward

\* An update never cancels an executing job.
THEOREM ServerUpdateSparesJobs == Spec => []UpdateSparesJobs
<1>1. TypeOK /\ ExecInv /\ ControlInv => UpdateSparesJobs
  BY DEF TypeOK, ProcessTypeOK, Execs, ExecInv, ExecutionHoldsRow, ControlInv, UpdateSparesJobs,
     Running, InState
<1> QED
  BY <1>1, TypeAndExec, Control, PTL

\* The process is replaced only when nothing of the old one is left to do.
THEOREM ServerHandoffIsQuiet == Spec => []HandoffIsQuiet
<1>1. TypeOK /\ ExecInv /\ ControlInv => HandoffIsQuiet
  BY DEF TypeOK, ProcessTypeOK, ExecInv, ControlInv, HandoffIsQuiet, Reporters, ProcessingDone
<1> QED
  BY <1>1, TypeAndExec, Control, PTL

\* A failed preparation leaves the server accepting and executing.
THEOREM ServerFailedUpdateResumes == Spec => []FailedUpdateResumes
<1>1. TypeOK /\ ControlInv => FailedUpdateResumes
  BY DEF TypeOK, ProcessTypeOK, ControlInv, FailedUpdateResumes
<1> QED
  BY <1>1, TypeAndExec, Control, PTL

\* A stop that reaches its final report has settled every job.
THEOREM ServerStopSettlesJobs == Spec => []StopSettlesJobs
<1>1. ControlInv => StopSettlesJobs
  BY DEF ControlInv, StopSettlesJobs
<1> QED
  BY <1>1, Control, PTL

(***************************************************************************)
(* What GitHub is told.                                                    *)
(***************************************************************************)
Sending == {"send", "flight", "ack"}

\* Row j in the list of reporter r: the version r will acknowledge, the status it will post.
Pledge(r, j) ==
    /\ rver[r][j] =< version[j]
    /\ rver[r][j] = version[j] => rstat[r][j] = GitHubState(state[j])
    /\ rstat[r][j] = "pending" \/ (state[j] \in Terminal /\ rstat[r][j] = state[j])
    /\ gh[j] \in Terminal => rstat[r][j] = gh[j]
    /\ state[j] # "absent"
    /\ j \notin reported

\* What GitHub shows of row j is true, and what the table calls reported is shown.
ShownIsTrue(j) ==
    /\ gh[j] \in Terminal => state[j] = gh[j]
    /\ gh[j] # "none" => state[j] # "absent"
    /\ j \in reported => gh[j] = GitHubState(state[j])

\* A reporter has a list only while it sends it, every row of it is still unreported, and
\* the row it may acknowledge is the one it has just posted.
ReportInv ==
    /\ \A r \in Reporters : rpc[r] \notin Sending => \A j \in Jobs : rver[r][j] = 0
    /\ \A r \in Reporters, j \in Jobs : rver[r][j] > 0 => Pledge(r, j)
    /\ \A r \in Reporters, j \in Jobs :
         rpc[r] = "ack" /\ IsNext(j, Unsent(r)) => gh[j] = rstat[r][j]
    /\ \A j \in Jobs : ShownIsTrue(j)

\* The loop, the update's flush and the final report never overlap.
LEMMA OneReporter ==
    ASSUME ControlInv, NEW r \in Reporters, NEW q \in Reporters, q # r, rpc[r] # "off"
    PROVE  rpc[q] = "off"
BY DEF ControlInv, ProcessingDone, Reporters

\* What a step of the server may do to a row: nothing, or a legal move that ends its report.
LEMMA ServerRow ==
    ASSUME TypeOK, ExecInv, Next, NEW j \in Jobs
    PROVE  /\ LegalMove(j)
           /\ \/ state'[j] = state[j] /\ version'[j] = version[j]
              \/ version'[j] = version[j] + 1 /\ j \notin reported'
<1>1. [StoreNext]_storeVars
  BY ServerStepIsStoreStep
<1>2. CASE UNCHANGED storeVars
  BY <1>2 DEF storeVars, LegalMove
<1>3. CASE StoreNext
  BY <1>3, StepMovesForward, StepWritesRow DEF TypeOK
<1> QED
  BY <1>1, <1>2, <1>3

\* A step keeps ReportInv if it posts and acknowledges nothing and no reporter begins a list
\* or drops a part of it.
LEMMA ReportFrame ==
    ASSUME TypeOK, TypeOK', ExecInv, ReportInv, Next,
           reported' \subseteq reported, UNCHANGED <<rver, rstat, gh>>,
           \A r \in Reporters :
              \/ rpc'[r] = rpc[r]
              \/ rpc'[r] \notin Sending /\ \A j \in Jobs : rver[r][j] = 0
    PROVE  ReportInv'
<1> USE DEF TypeOK, ProcessTypeOK, StoreTypeOK
<1>1. \A r \in Reporters : rpc'[r] \notin Sending => \A j \in Jobs : rver'[r][j] = 0
  BY DEF ReportInv
<1>2. ASSUME NEW r \in Reporters, NEW j \in Jobs, rver'[r][j] > 0 PROVE Pledge(r, j)'
  <2>1. Pledge(r, j)
    BY <1>2 DEF ReportInv
  <2>2. rver[r][j] \in Nat /\ version[j] \in Nat
    OBVIOUS
  <2> QED
    BY <2>1, <2>2, <1>2, ServerRow DEF Pledge, LegalMove, GitHubState, Terminal
<1>3. ASSUME NEW r \in Reporters, NEW j \in Jobs, rpc'[r] = "ack", IsNext(j, Unsent(r))'
      PROVE  gh'[j] = rstat'[r][j]
  BY <1>3 DEF ReportInv, IsNext, Unsent, Sending
<1>4. ASSUME NEW j \in Jobs PROVE ShownIsTrue(j)'
  BY <1>4, ServerRow DEF ReportInv, ShownIsTrue, LegalMove, GitHubState, Terminal
<1> QED
  BY <1>1, <1>2, <1>3, <1>4 DEF ReportInv

\* A process that has lost its memory has no list.
LEMMA ReportLost ==
    ASSUME TypeOK, ExecInv, ReportInv, Next, MemoryLost, reported' \subseteq reported, UNCHANGED gh
    PROVE  ReportInv'
<1>1. ASSUME NEW r \in Reporters, NEW j \in Jobs PROVE rver'[r][j] = 0 /\ rpc'[r] = "off"
  BY <1>1 DEF MemoryLost, NoVersions
<1>2. ASSUME NEW j \in Jobs PROVE ShownIsTrue(j)'
  BY <1>2, ServerRow DEF ReportInv, ShownIsTrue, LegalMove, GitHubState, Terminal
<1> QED
  BY <1>1, <1>2 DEF ReportInv

\* Starting and stopping.
LEMMA LifecycleReport ==
    ASSUME TypeOK, TypeOK', ExecInv, ControlInv, ReportInv, Lifecycle
    PROVE  ReportInv'
<1> USE DEF TypeOK, ProcessTypeOK, reportVars, storeVars
<1>0. Next
  BY DEF Next
<1>1. CASE \/ NewServerFails \/ Crash \/ StopFails \/ StopReported \/ HandoffEnds
           \/ ReplaceProcess \/ ReplaceFails
  BY <1>0, <1>1, ReportLost DEF NewServerFails, Crash, StopFails, StopReported, HandoffEnds, Exit,
     ReplaceProcess, ReplaceFails
<1>2. CASE \/ Boot \/ Signal \/ BecomeCalm \/ StopOnSignal \/ StopForUpdate \/ StopOnServeError
           \/ StopWaited \/ CloseForUpdate
  BY <1>0, <1>2, ReportFrame DEF Boot, Signal, BecomeCalm, StopOnSignal, StopForUpdate,
     StopOnServeError, BeginStop, StopWaited, CloseForUpdate
<1>3. CASE StopRecovers
  BY <1>0, <1>3, ReportFrame DEF StopRecovers, RecoverInterrupted, Write
<1>4. ASSUME NEW r \in Reporters, rpc[r] = "off", rpc' = [rpc EXCEPT ![r] = "idle"],
             UNCHANGED <<rver, rstat, gh>>, reported' \subseteq reported
      PROVE  ReportInv'
  BY <1>0, <1>4, ReportFrame DEF ReportInv, Sending
<1>5. CASE NewServer
  BY <1>4, <1>5 DEF NewServer, RecoverInterrupted, Write, ControlInv, Reporters
<1>6. CASE StopCancels
  BY <1>4, <1>6 DEF StopCancels, CancelQueued, Write, ControlInv, Reporters
<1> QED
  BY <1>1, <1>2, <1>3, <1>5, <1>6 DEF Lifecycle

\* Requests, updates, the dispatcher and the executions write rows but report none.
LEMMA WorkReport ==
    ASSUME TypeOK, TypeOK', ExecInv, ControlInv, ReportInv,
           Handlers \/ Update \/ Dispatcher \/ \E j \in Jobs : Executor(j)
    PROVE  ReportInv'
<1> USE DEF TypeOK, ProcessTypeOK, reportVars, storeVars
<1>0. Next
  BY DEF Next
<1>1. ASSUME UNCHANGED <<rpc, rver, rstat, gh>>, reported' \subseteq reported PROVE ReportInv'
  BY <1>0, <1>1, ReportFrame
<1>2. CASE Handlers
  BY <1>1, <1>2 DEF Handlers, PostUpdate, PostWebhook, Admit, Write
<1>3. CASE \/ BuildSucceeds \/ BuildFails \/ DrainedOut \/ DrainFails \/ CancelProcessing
           \/ QuiesceFails \/ FlushDone \/ UpdateAbandoned
  BY <1>1, <1>3 DEF BuildSucceeds, BuildFails, DrainedOut, DrainFails, CancelProcessing,
     QuiesceFails, FlushDone, UpdateAbandoned, PrepStep
<1>4. CASE Quiesced
  <2>1. rpc["sync"] = "off" /\ "sync" \in Reporters
    BY <1>4 DEF Quiesced, PrepStep, ControlInv, Reporters
  <2>2. \A r \in Reporters :
           rpc'[r] = rpc[r] \/ (rpc'[r] \notin Sending /\ \A j \in Jobs : rver[r][j] = 0)
    BY <1>4, <2>1 DEF Quiesced, ReportInv, Sending
  <2> QED
    BY <1>0, <1>4, <2>2, ReportFrame DEF Quiesced, PrepStep
<1>5. CASE Dispatcher
  BY <1>1, <1>5 DEF Dispatcher, DispatcherEnds, Dispatch, Claim, Write
<1>6. ASSUME NEW j \in Jobs, Executor(j) PROVE ReportInv'
  BY <1>1, <1>6 DEF Executor, ExecuteBegins, ExecuteSkipped, ExecuteEnds, SaveOutcome, SaveFails,
     SaveGivenUp, Finish, FinishCommit, FinishRepeated, Write
<1> QED
  BY <1>2, <1>3, <1>4, <1>5, <1>6 DEF Update

\* A reporter that sends, while the others are quiet, keeps ReportInv if it keeps its part.
LEMMA ReportAlone ==
    ASSUME NEW r \in Reporters, rpc'[r] \in Sending,
           \A q \in Reporters \ {r} : rpc'[q] \notin Sending /\ \A j \in Jobs : rver'[q][j] = 0,
           \A j \in Jobs : rver'[r][j] > 0 => Pledge(r, j)',
           rpc'[r] = "ack" => \A j \in Jobs : IsNext(j, Unsent(r))' => gh'[j] = rstat'[r][j],
           \A j \in Jobs : ShownIsTrue(j)'
    PROVE  ReportInv'
<1> SUFFICES ASSUME NEW q \in Reporters
             PROVE  /\ rpc'[q] \notin Sending => \A j \in Jobs : rver'[q][j] = 0
                    /\ \A j \in Jobs : rver'[q][j] > 0 => Pledge(q, j)'
                    /\ \A j \in Jobs :
                         rpc'[q] = "ack" /\ IsNext(j, Unsent(q))' => gh'[j] = rstat'[q][j]
  BY DEF ReportInv
<1>1. CASE q = r
  BY <1>1
<1>2. CASE q # r
  BY <1>2 DEF Sending
<1> QED
  BY <1>1, <1>2

\* The reporters: the only steps that tell GitHub something or mark a row as reported.
LEMMA ReporterReport ==
    ASSUME TypeOK, TypeOK', ExecInv, ControlInv, ReportInv, NEW r \in Reporters, Reporter(r)
    PROVE  ReportInv'
<1> USE DEF TypeOK, ProcessTypeOK, StoreTypeOK, storeVars
<1>0. Next
  BY DEF Next
<1>1. ASSUME NEW q \in Reporters, q # r, rpc[r] # "off"
      PROVE  rpc[q] \notin Sending /\ \A j \in Jobs : rver[q][j] = 0
  <2>1. rpc[q] = "off"
    BY <1>1, OneReporter
  <2> QED
    BY <2>1 DEF ReportInv, Sending
<1>2. CASE Snapshot(r)
  <2>1. rpc[r] = "idle" /\ rpc' = [rpc EXCEPT ![r] = "send"]
    BY <1>2 DEF Snapshot, ReportStep
  <2>2. \A q \in Reporters \ {r} : rpc'[q] \notin Sending /\ \A j \in Jobs : rver'[q][j] = 0
    BY <1>1, <1>2, <2>1 DEF Snapshot
  <2>3. ASSUME NEW j \in Jobs, rver'[r][j] > 0 PROVE Pledge(r, j)'
    <3>1. /\ j \in Unsettled \ reported /\ rver'[r][j] = version[j]
          /\ rstat'[r][j] = GitHubState(state[j])
      BY <1>2, <2>3 DEF Snapshot
    <3>2. ShownIsTrue(j)
      BY DEF ReportInv
    <3> QED
      BY <1>2, <3>1, <3>2 DEF Snapshot, Pledge, ShownIsTrue, Unsettled, GitHubState, Terminal
  <2>4. \A j \in Jobs : ShownIsTrue(j)'
    BY <1>2 DEF Snapshot, ReportInv, ShownIsTrue
  <2> QED
    BY <2>1, <2>2, <2>3, <2>4, ReportAlone DEF Sending
<1>3. ASSUME NEW j \in Jobs, PostBegins(r, j) PROVE ReportInv'
  <2>1. rpc[r] = "send" /\ rpc' = [rpc EXCEPT ![r] = "flight"] /\ UNCHANGED <<rver, rstat, gh, storeVars>>
    BY <1>3 DEF PostBegins, ReportStep
  <2> QED
    BY <2>1 DEF ReportInv, Sending, Pledge, ShownIsTrue, IsNext, Unsent
<1>4. ASSUME NEW j \in Jobs, IsNext(j, Unsent(r)), rpc[r] = "flight",
             gh' = [gh EXCEPT ![j] = rstat[r][j]], UNCHANGED storeVars
      PROVE  /\ \A k \in Jobs : ShownIsTrue(k)'
             /\ \A k \in Jobs : rver[r][k] > 0 =>
                  /\ gh'[k] \in Terminal => rstat[r][k] = gh'[k]
                  /\ Pledge(r, k)
    BY <1>4 DEF ReportInv, IsNext, Unsent, Pledge, ShownIsTrue, Terminal
<1>5. ASSUME NEW j \in Jobs, PostSucceeds(r, j) PROVE ReportInv'
  <2>1. /\ rpc[r] = "flight" /\ rpc' = [rpc EXCEPT ![r] = "ack"] /\ IsNext(j, Unsent(r))
        /\ gh' = [gh EXCEPT ![j] = rstat[r][j]] /\ UNCHANGED <<rver, rstat, storeVars>>
    BY <1>5 DEF PostSucceeds, ReportStep
  <2>2. \A q \in Reporters \ {r} : rpc'[q] \notin Sending /\ \A k \in Jobs : rver'[q][k] = 0
    BY <1>1, <2>1
  <2>3. \A k \in Jobs : rver'[r][k] > 0 => Pledge(r, k)'
    BY <1>4, <2>1 DEF Pledge
  <2>4. ASSUME NEW k \in Jobs, IsNext(k, Unsent(r))' PROVE gh'[k] = rstat'[r][k]
    <3>1. k = j
      BY <2>1, <2>4, JobsAssumption DEF IsNext, Unsent
    <3> QED
      BY <2>1, <3>1
  <2>5. \A k \in Jobs : ShownIsTrue(k)'
    BY <1>4, <2>1
  <2>6. rpc'[r] \in Sending
    BY <2>1 DEF Sending
  <2> QED
    BY <2>2, <2>3, <2>4, <2>5, <2>6, ReportAlone
<1>6. ASSUME NEW j \in Jobs, PostFails(r, j) PROVE ReportInv'
  <2>1. /\ rpc[r] = "flight" /\ rpc' = [rpc EXCEPT ![r] = "send"] /\ IsNext(j, Unsent(r))
        /\ gh' = gh \/ gh' = [gh EXCEPT ![j] = rstat[r][j]]
        /\ rver' = [rver EXCEPT ![r][j] = 0] /\ rstat' = [rstat EXCEPT ![r][j] = "none"]
        /\ UNCHANGED storeVars
    BY <1>6 DEF PostFails, ReportStep, Drop
  <2>2. \A q \in Reporters \ {r} : rpc'[q] \notin Sending /\ \A k \in Jobs : rver'[q][k] = 0
    BY <1>1, <2>1
  <2>3. ASSUME NEW k \in Jobs, rver'[r][k] > 0 PROVE Pledge(r, k)'
    <3>1. k # j /\ rver'[r][k] = rver[r][k] /\ rstat'[r][k] = rstat[r][k] /\ gh'[k] = gh[k]
      BY <2>1, <2>3
    <3> QED
      BY <2>1, <2>3, <3>1 DEF ReportInv, Pledge
  <2>4. \A k \in Jobs : ShownIsTrue(k)'
    BY <1>4, <2>1 DEF ReportInv, ShownIsTrue
  <2> QED
    BY <2>1, <2>2, <2>3, <2>4, ReportAlone DEF Sending
<1>7. ASSUME NEW j \in Jobs, AcknowledgePost(r, j) PROVE ReportInv'
  <2>1. /\ rpc[r] = "ack" /\ rpc' = [rpc EXCEPT ![r] = "send"] /\ IsNext(j, Unsent(r))
        /\ rver' = [rver EXCEPT ![r][j] = 0] /\ rstat' = [rstat EXCEPT ![r][j] = "none"]
        /\ reported' = IF version[j] = rver[r][j] THEN reported \cup {j} ELSE reported
        /\ UNCHANGED <<state, version, gh>>
    BY <1>7 DEF AcknowledgePost, ReportStep, Drop, Acknowledge
  <2>2. \A q \in Reporters \ {r} : rpc'[q] \notin Sending /\ \A k \in Jobs : rver'[q][k] = 0
    BY <1>1, <2>1
  <2>3. ASSUME NEW k \in Jobs, rver'[r][k] > 0 PROVE Pledge(r, k)'
    <3>1. k # j /\ rver'[r][k] = rver[r][k] /\ rstat'[r][k] = rstat[r][k]
      BY <2>1, <2>3
    <3> QED
      BY <2>1, <2>3, <3>1 DEF ReportInv, Pledge
  <2>4. gh[j] = rstat[r][j] /\ Pledge(r, j)
    BY <2>1 DEF ReportInv, IsNext, Unsent
  <2>5. \A k \in Jobs : ShownIsTrue(k)'
    BY <2>1, <2>4 DEF ReportInv, ShownIsTrue, Pledge
  <2> QED
    BY <2>1, <2>2, <2>3, <2>5, ReportAlone DEF Sending
<1>8. CASE RoundAborted(r)
  <2>1. /\ rpc' = [rpc EXCEPT ![r] = Rest(r)] /\ Rest(r) \notin Sending /\ rpc[r] # "off"
        /\ rver' = [rver EXCEPT ![r] = NoVersions] /\ rstat' = [rstat EXCEPT ![r] = Idle]
        /\ UNCHANGED <<storeVars, gh>>
    BY <1>8 DEF RoundAborted, Rest, Sending
  <2>2. \A q \in Reporters : rpc'[q] \notin Sending /\ \A j \in Jobs : rver'[q][j] = 0
    BY <1>1, <2>1 DEF NoVersions
  <2> QED
    BY <2>1, <2>2 DEF ReportInv, ShownIsTrue, Sending
<1> QED
  BY <1>2, <1>3, <1>5, <1>6, <1>7, <1>8 DEF Reporter

\* The end of a list, and the cleanup beside it.
LEMMA CleanerReport ==
    ASSUME TypeOK, TypeOK', ExecInv, ControlInv, ReportInv, SyncListEnds \/ Cleaner
    PROVE  ReportInv'
<1> USE DEF TypeOK, ProcessTypeOK, StoreTypeOK, storeVars
<1>0. Next
  BY DEF Next
<1>1. ASSUME NEW r \in Reporters, NEW s, s \notin Sending, rpc' = [rpc EXCEPT ![r] = s],
             rpc[r] \notin Sending \/ Unsent(r) = {},
             UNCHANGED <<rver, rstat, gh>>, reported' = reported
      PROVE  ReportInv'
  <2>1. \A j \in Jobs : rver[r][j] = 0
    BY <1>1 DEF ReportInv, Unsent
  <2> QED
    BY <1>0, <1>1, <2>1, ReportFrame
<1> USE DEF Reporters, Sending, ReportStep
<1>2. CASE SyncListEnds
  BY <1>1, <1>2 DEF SyncListEnds
<1>3. CASE CleanupSnapshot \/ StatusLoopEnds
  BY <1>1, <1>3 DEF CleanupSnapshot, StatusLoopEnds
<1>4. CASE CleanupEnds
  BY <1>1, <1>4 DEF CleanupEnds
<1>5. ASSUME NEW j \in Jobs, CleanupSucceeds(j) \/ CleanupFails(j) PROVE ReportInv'
  BY <1>1, <1>5 DEF CleanupSucceeds, CleanupFails
<1>6. ASSUME NEW j \in Jobs, MarkCleanup(j) PROVE ReportInv'
  BY <1>1, <1>6 DEF MarkCleanup, MarkCleaned
<1> QED
  BY <1>2, <1>3, <1>4, <1>5, <1>6 DEF Cleaner

\* The report invariant holds in every behaviour.
LEMMA Report == Spec => []ReportInv
<1>1. Init => ReportInv
  BY DEF Init, StoreInit, ReportInv, Sending, NoVersions, Idle, ShownIsTrue, Terminal
<1>2. TypeOK /\ ExecInv /\ ControlInv /\ ReportInv /\ [Next]_vars => ReportInv'
  <2>1. ASSUME ReportInv, UNCHANGED vars PROVE ReportInv'
    BY <2>1 DEF vars, storeVars, reportVars, ReportInv, Pledge, ShownIsTrue, IsNext, Unsent
  <2> QED
    BY <2>1, StepTypeOK, LifecycleReport, WorkReport, ReporterReport, CleanerReport DEF Next
<1> QED
  BY <1>1, <1>2, TypeAndExec, Control, PTL DEF Spec

\* What the table says was reported is what GitHub shows, with three callers of
\* reportJobStatuses, lost responses, and rows that change while a request is under way.
THEOREM ServerReportedIsShown == Spec => []ReportedIsShown
<1>1. TypeOK /\ ReportInv => ReportedIsShown
  BY DEF TypeOK, StoreTypeOK, ReportInv, ShownIsTrue, ReportedIsShown
<1> QED
  BY <1>1, TypeAndExec, Report, PTL

(***************************************************************************)
(* The cleanup of workspaces.                                              *)
(***************************************************************************)
\* The rows on the cleanup list have their verdicts, the one that is about to be marked has
\* no workspace any more, and none that is marked has.
CleanupInv ==
    /\ \A j \in dirty : state[j] \in Terminal
    /\ rpc["loop"] = "mark" => \A j \in Jobs : IsNext(j, dirty) => workspace[j] = "none"
    /\ \A j \in cleaned : workspace[j] = "none"

\* Rows keep their verdicts: a step that leaves the cleanup alone or ends it keeps CleanupInv.
LEMMA CleanupFrame ==
    ASSUME TypeOK, ExecInv, CleanupInv, Next, UNCHANGED <<workspace, cleaned>>,
           dirty' = dirty \/ dirty' = {},
           rpc'["loop"] = rpc["loop"] \/ rpc'["loop"] # "mark"
    PROVE  CleanupInv'
<1>1. ASSUME NEW j \in dirty' PROVE state'[j] \in Terminal
  <2>1. j \in dirty /\ j \in Jobs
    BY <1>1 DEF TypeOK, ProcessTypeOK
  <2> QED
    BY <2>1, ServerRow DEF CleanupInv, LegalMove, Terminal
<1>2. rpc'["loop"] = "mark" => \A j \in Jobs : IsNext(j, dirty)' => workspace'[j] = "none"
  BY DEF CleanupInv, IsNext
<1> QED
  BY <1>1, <1>2 DEF CleanupInv

\* Starting, stopping, requests, updates and the dispatcher.
LEMMA LifecycleCleanup ==
    ASSUME TypeOK, ExecInv, CleanupInv, Lifecycle \/ Handlers \/ Update \/ Dispatcher
    PROVE  CleanupInv'
<1> USE DEF TypeOK, ProcessTypeOK, reportVars, storeVars, Reporters
<1>0. Next
  BY DEF Next
<1>1. ASSUME MemoryLost, UNCHANGED <<workspace, storeVars>> PROVE CleanupInv'
  BY <1>0, <1>1, CleanupFrame DEF MemoryLost
<1>2. CASE \/ NewServerFails \/ Crash \/ StopFails \/ StopReported \/ HandoffEnds
           \/ ReplaceProcess \/ ReplaceFails
  BY <1>1, <1>2 DEF NewServerFails, Crash, StopFails, StopReported, HandoffEnds, Exit,
     ReplaceProcess, ReplaceFails
<1>3. CASE \/ Boot \/ Signal \/ BecomeCalm \/ StopOnSignal \/ StopForUpdate \/ StopOnServeError
           \/ StopWaited \/ CloseForUpdate
  BY <1>0, <1>3, CleanupFrame DEF Boot, Signal, BecomeCalm, StopOnSignal, StopForUpdate,
     StopOnServeError, BeginStop, StopWaited, CloseForUpdate
<1>4. CASE NewServer \/ StopRecovers \/ StopCancels
  BY <1>0, <1>4, CleanupFrame DEF NewServer, StopRecovers, StopCancels, RecoverInterrupted,
     CancelQueued, Write
<1>5. CASE Handlers
  BY <1>0, <1>5, CleanupFrame DEF Handlers, PostUpdate, PostWebhook, Admit, Write
<1>6. CASE Update
  BY <1>0, <1>6, CleanupFrame DEF Update, BuildSucceeds, BuildFails, DrainedOut, DrainFails,
     CancelProcessing, Quiesced, QuiesceFails, FlushDone, UpdateAbandoned, PrepStep
<1>7. CASE Dispatcher
  BY <1>0, <1>7, CleanupFrame DEF Dispatcher, DispatcherEnds, Dispatch, Claim, Write
<1> QED
  BY <1>2, <1>3, <1>4, <1>5, <1>6, <1>7 DEF Lifecycle

\* Executions: the only steps that create a workspace, for a row that is running.
LEMMA ExecutionCleanup ==
    ASSUME TypeOK, RowsConsistent, ExecInv, CleanupInv, NEW j \in Jobs, Executor(j)
    PROVE  CleanupInv'
<1> USE DEF TypeOK, ProcessTypeOK, reportVars, storeVars
<1>0. Next
  BY DEF Next
<1>1. CASE ExecuteBegins(j)
  <2>1. state[j] = "running"
    BY <1>1 DEF ExecuteBegins, ExecInv, ExecutionHoldsRow
  <2>2. j \notin dirty /\ j \notin cleaned
    BY <2>1 DEF CleanupInv, RowsConsistent, Terminal
  <2>3. workspace' = [workspace EXCEPT ![j] = "there"] /\ UNCHANGED <<state, cleaned, dirty, rpc>>
    BY <1>1 DEF ExecuteBegins
  <2> QED
    BY <2>2, <2>3 DEF CleanupInv, IsNext
<1>2. CASE \/ ExecuteSkipped(j) \/ (\E s \in Results \cup {"error"} : ExecuteEnds(j, s))
           \/ SaveOutcome(j) \/ SaveFails(j) \/ SaveGivenUp(j)
  BY <1>0, <1>2, CleanupFrame DEF ExecuteSkipped, ExecuteEnds, SaveOutcome, SaveFails, SaveGivenUp,
     Finish, FinishCommit, FinishRepeated, Write
<1> QED
  BY <1>1, <1>2 DEF Executor

\* The status loop, which reports and cleans.
LEMMA ReporterCleanup ==
    ASSUME TypeOK, ExecInv, CleanupInv, (\E r \in Reporters : Reporter(r)) \/ SyncListEnds \/ Cleaner
    PROVE  CleanupInv'
<1> USE DEF TypeOK, ProcessTypeOK, StoreTypeOK, storeVars, Reporters, ReportStep
<1>0. Next
  BY DEF Next
<1>1. ASSUME NEW r \in Reporters, Reporter(r) PROVE CleanupInv'
  BY <1>0, <1>1, CleanupFrame DEF Reporter, Snapshot, RoundAborted, Rest, PostBegins, PostSucceeds,
     PostFails, AcknowledgePost, Acknowledge
<1>2. CASE SyncListEnds \/ CleanupEnds \/ StatusLoopEnds
  BY <1>0, <1>2, CleanupFrame DEF SyncListEnds, CleanupEnds, StatusLoopEnds
<1>3. CASE CleanupSnapshot
  BY <1>3 DEF CleanupSnapshot, CleanupInv
<1>4. ASSUME NEW j \in Jobs, CleanupSucceeds(j) PROVE CleanupInv'
  <2>1. \A k \in Jobs : IsNext(k, dirty) => k = j
    BY <1>4, JobsAssumption DEF CleanupSucceeds, IsNext
  <2> QED
    BY <1>4, <2>1 DEF CleanupSucceeds, CleanupInv, IsNext
<1>5. ASSUME NEW j \in Jobs, CleanupFails(j) PROVE CleanupInv'
  BY <1>5 DEF CleanupFails, TurnsOutStuck, CleanupInv
<1>6. ASSUME NEW j \in Jobs, MarkCleanup(j) PROVE CleanupInv'
  <2>1. workspace[j] = "none"
    BY <1>6 DEF MarkCleanup, CleanupInv
  <2> QED
    BY <1>6, <2>1 DEF MarkCleanup, MarkCleaned, CleanupInv
<1> QED
  BY <1>1, <1>2, <1>3, <1>4, <1>5, <1>6 DEF Cleaner

\* The status loop cleans a workspace only after its execution is over, although it takes its
\* list in one step and cleans in others, and a row marked cleaned has left none behind.
THEOREM ServerCleanupIsSafe == Spec => []CleanupIsSafe
<1>1. Init => CleanupInv
  BY DEF Init, StoreInit, CleanupInv, Reporters
<1>2. TypeOK /\ RowsConsistent /\ ExecInv /\ CleanupInv /\ [Next]_vars => CleanupInv'
  <2>1. ASSUME CleanupInv, UNCHANGED vars PROVE CleanupInv'
    BY <2>1 DEF vars, storeVars, reportVars, CleanupInv, IsNext
  <2> QED
    BY <2>1, LifecycleCleanup, ExecutionCleanup, ReporterCleanup DEF Next
<1>3. TypeOK /\ ExecInv /\ CleanupInv => CleanupIsSafe
  BY DEF TypeOK, ProcessTypeOK, ExecInv, ExecutionHoldsRow, CleanupInv, CleanupIsSafe, Terminal
<1> QED
  BY <1>1, <1>2, <1>3, TypeAndExec, ServerTableIsSound, PTL DEF Spec, TableIsSound

(***************************************************************************)
(* The server implements CommitStatus.                                     *)
(***************************************************************************)
\* The steps that tell GitHub something write no row, and say what a reporter has pledged.
LEMMA GitHubIsTold ==
    ASSUME TypeOK, ReportInv, Next, gh' # gh
    PROVE  \E r \in Reporters, j \in Jobs :
              Pledge(r, j) /\ gh' = [gh EXCEPT ![j] = rstat[r][j]] /\ UNCHANGED state
<1> USE DEF TypeOK, ProcessTypeOK, ReportStep
<1>1. ~Lifecycle
  BY DEF Lifecycle, Boot, NewServer, NewServerFails, Signal, Crash, BecomeCalm, StopOnSignal,
     StopForUpdate, StopOnServeError, BeginStop, StopWaited, StopFails, StopRecovers, StopCancels,
     StopReported, CloseForUpdate, HandoffEnds, ReplaceProcess, ReplaceFails
<1>2. ~(Handlers \/ Dispatcher \/ SyncListEnds)
  BY DEF Handlers, PostUpdate, PostWebhook, Dispatcher, DispatcherEnds, Dispatch, SyncListEnds
<1>3. ~Update
  BY DEF Update, BuildSucceeds, BuildFails, DrainedOut, DrainFails, CancelProcessing, Quiesced,
     QuiesceFails, FlushDone, UpdateAbandoned, PrepStep
<1>4. ~\E j \in Jobs : Executor(j)
  BY DEF Executor, ExecuteBegins, ExecuteSkipped, ExecuteEnds, SaveOutcome, SaveFails, SaveGivenUp
<1>5. ~Cleaner
  BY DEF Cleaner, CleanupSnapshot, CleanupEnds, StatusLoopEnds, CleanupSucceeds, CleanupFails,
     MarkCleanup
<1>6. PICK r \in Reporters : Reporter(r)
  BY <1>1, <1>2, <1>3, <1>4, <1>5 DEF Next
<1>7. PICK j \in Jobs : PostSucceeds(r, j) \/ PostFails(r, j)
  BY <1>6 DEF Reporter, Snapshot, RoundAborted, PostBegins, AcknowledgePost
<1>8. Pledge(r, j)
  BY <1>7 DEF ReportInv, PostSucceeds, PostFails, IsNext, Unsent
<1> QED
  BY <1>7, <1>8 DEF PostSucceeds, PostFails, storeVars

\* A step of the table, seen as verdicts: one commit is accepted, or some are decided.
LEMMA RowsAreVerdicts ==
    ASSUME StoreTypeOK, StoreTypeOK', [StoreNext]_storeVars, UNCHANGED gh
    PROVE  CS!Next \/ UNCHANGED Verdicts
<1>1. CASE \E j \in Jobs : Admit(j)
  <2>1. PICK j \in Jobs : Admit(j)
    BY <1>1
  <2>2. Verdicts[j] = "absent"
    BY <2>1 DEF Admit, Verdicts
  <2>3. Verdicts' = [Verdicts EXCEPT ![j] = "open"]
    BY <2>1 DEF Admit, Write, Verdicts, Terminal
  <2> QED
    BY <2>2, <2>3 DEF CS!Next, CS!Accept
<1>2. CASE ~\E j \in Jobs : Admit(j)
  <2>1. ASSUME NEW j \in Jobs, state[j] = "absent" PROVE state'[j] = "absent"
    BY <1>2, <2>1
       DEF StoreTypeOK, StoreNext, storeVars, AdmitRefused, Claim, IsOldestQueued, Finish, FinishCommit,
           FinishRepeated, Acknowledge, MarkCleaned, RecoverInterrupted, CancelQueued, Write,
           Queued, Running, InState
  <2>2. ASSUME NEW j \in Jobs PROVE LegalMove(j)
    BY <2>2, StepMovesForward DEF storeVars, LegalMove
  <2>3. ASSUME NEW j \in Jobs, Verdicts'[j] # Verdicts[j]
        PROVE  Verdicts[j] = "open" /\ Verdicts'[j] \in CS!Final
    BY <2>1, <2>2, <2>3 DEF Verdicts, LegalMove, Terminal, CS!Final
  <2>4. Verdicts' \in [Jobs -> CS!Final \cup {"absent", "open"}]
    BY DEF StoreTypeOK, States, Verdicts, Terminal, CS!Final
  <2> QED
    BY <2>3, <2>4 DEF CS!Next, CS!Decide
<1> QED
  BY <1>1, <1>2

\* Nothing is shown for a commit that was not admitted, a verdict only once its row has it, and
\* GitHub never goes back on a verdict, although the three callers of reportJobStatuses send
\* snapshots that may be old.
THEOREM ServerImplementsCommitStatus == Spec => ImplementsCommitStatus
<1>1. Init => CS!Init
  BY DEF Init, StoreInit, CS!Init, Verdicts, Idle, Terminal
<1>2. TypeOK /\ TypeOK' /\ ExecInv /\ ReportInv /\ [Next]_vars => [CS!Next]_<<Verdicts, gh>>
  <2> SUFFICES ASSUME TypeOK, TypeOK', ExecInv, ReportInv, [Next]_vars
               PROVE  [CS!Next]_<<Verdicts, gh>>
    OBVIOUS
  <2>1. CASE gh' = gh
    BY <2>1, ServerStepIsStoreStep, RowsAreVerdicts DEF TypeOK
  <2>2. CASE gh' # gh
    <3>1. Next
      BY <2>2 DEF vars
    <3>2. PICK r \in Reporters, j \in Jobs :
             Pledge(r, j) /\ gh' = [gh EXCEPT ![j] = rstat[r][j]] /\ UNCHANGED state
      BY <2>2, <3>1, GitHubIsTold
    <3>3. UNCHANGED Verdicts /\ Verdicts[j] # "absent"
      BY <3>2 DEF Verdicts, Pledge, Terminal
    <3>4. rstat[r][j] \in {"pending", Verdicts[j]} \ {"open"}
      BY <3>2 DEF Verdicts, Pledge, Terminal
    <3>5. gh[j] \in CS!Final => rstat[r][j] = gh[j]
      BY <3>2 DEF Pledge, Terminal, CS!Final
    <3> QED
      BY <3>2, <3>3, <3>4, <3>5 DEF CS!Next, CS!Show
  <2> QED
    BY <2>1, <2>2
<1> QED
  BY <1>1, <1>2, TypeAndExec, Report, PTL DEF Spec, CS!Spec, ImplementsCommitStatus
=============================================================================
