----------------------- MODULE ContainerRuntimeProofs -----------------------
(***************************************************************************)
(* What the container runtime guarantees for any number of launches of one *)
(* container ID, any order of calls on old and new handles, and any crash  *)
(* of the embedding program.  RuntimeInv adds to the types what the two     *)
(* outcomes rest on: nothing exists of a launch that has not begun, a       *)
(* launch on its way owns exactly what it has made, and Delete turns to the *)
(* bundle only when its container is gone.                                  *)
(***************************************************************************)
EXTENDS ContainerRuntime, TLAPS

\* A launch that has no process yet.
Before == {"provision", "logs", "start", "rollback"}

\* Nothing exists of a launch that has not begun.
FutureIsEmpty ==
  \A g \in Runs : g > last => proc[g] = "none" /\ bundle[g] = "none"

\* A launch on its way has no process and no outcome, and its log files once it has made them.
LaunchIsFresh ==
  pc \in Before =>
    /\ cur \notin held \cup failed \cup released /\ proc[cur] = "none" /\ box # cur
    /\ pc = "provision" => bundle[cur] = "none"
    /\ pc # "start" => \A s \in Streams : logs[s] # cur
    /\ pc = "start" => \A s \in Streams : logs[s] = cur

\* A call works on a launch that has begun, and Delete leaves the container behind before the
\* bundle.
CallIsOnLaunch ==
  /\ pc # "idle" => cur \in Runs
  /\ pc = "remove" /\ cur \notin missed => box # cur /\ proc[cur] # "creating"

\* A launch that was released has no bundle of its own and no container, unless the latest
\* runc delete missed it.
ReleasedInv ==
  \A g \in Runs : g \in released =>
    /\ HasBundle(g) => bundle[g] = "none"
    /\ g \notin missed => box # g /\ proc[g] # "creating"

\* A launch that failed has neither bundle, process nor log file.
FailedInv ==
  \A g \in Runs : g \in failed =>
    /\ HasBundle(g) => bundle[g] = "none"
    /\ proc[g] = "none" /\ \A s \in Streams : logs[s] # g

\* The inductive invariant.
RuntimeInv ==
  /\ TypeOK
  /\ FutureIsEmpty
  /\ LaunchIsFresh
  /\ CallIsOnLaunch
  /\ ReleasedInv
  /\ FailedInv

USE RunsAssumption

\* What the invariant says of numbers: launches begun are launches of the instance.
LEMMA Ranges ==
  ASSUME RuntimeInv
  PROVE  /\ last \in Int /\ MaxRuns \in Int /\ 0 <= last /\ last <= MaxRuns /\ 0 \in 0 .. last
         /\ cur \in Int
         /\ \A g \in 1 .. last : g \in Runs
         /\ \A g \in Runs : proc[g] = "creating" => g \in 1 .. last
         /\ pc # "idle" => cur \in 1 .. last
  BY DEF RuntimeInv, TypeOK, FutureIsEmpty, CallIsOnLaunch, Runs

\* What runc delete does to the types.
LEMMA DeleteTypes ==
  ASSUME RuntimeInv, RuncDelete, last' = last
  PROVE  /\ box' = 0 /\ live' = FALSE /\ proc' = proc
         /\ box' \in 0 .. last' /\ live' \in BOOLEAN /\ missed' \subseteq 1 .. last'
  <1>1. box' = 0 /\ live' = FALSE /\ proc' = proc
    BY DEF RuncDelete
  <1>2. missed' \subseteq 1 .. last'
    BY Ranges DEF RuncDelete
  <1>. QED
    BY <1>1, <1>2, Ranges

\* A launch that failed is recorded as one that has begun.
LEMMA LaunchFailedTypes ==
  ASSUME RuntimeInv, pc # "idle", LaunchFailed
  PROVE  /\ pc' = "idle" /\ cur' = 0 /\ failed' \subseteq 1 .. last
         /\ UNCHANGED <<last, images, held, released>>
  BY Ranges DEF LaunchFailed, Return, RuntimeInv, TypeOK

\* A release is one of a launch that has begun, or, of an opened handle, none.
LEMMA DeletedTypes ==
  ASSUME RuntimeInv, NEW g \in 0 .. last, Deleted(g)
  PROVE  /\ pc' = "idle" /\ cur' = 0 /\ released' \subseteq 1 .. last
         /\ UNCHANGED <<last, images, held, failed>>
  BY DEF Deleted, Return, RuntimeInv, TypeOK

\* A runc delete, with each of the three ways in which Delete goes on, on a handle that has
\* no bundle or one.
LEMMA DeletionKeepsInv ==
  ASSUME RuntimeInv, UNCHANGED quiet, pc = "idle", NEW h \in 0 .. last, RuncDelete,
         UNCHANGED <<watch, disk>>,
         \/ ~HasBundle(h) /\ Deleted(h)
         \/ HasBundle(h) /\ LeaveBundle(h)
         \/ Return /\ UNCHANGED handles
  PROVE  RuntimeInv'
  <1>1. CASE ~HasBundle(h) /\ Deleted(h)
    <2>1. TypeOK'
      BY <1>1, DeletedTypes, DeleteTypes DEF RuntimeInv, TypeOK, disk
    <2>2. FutureIsEmpty' /\ LaunchIsFresh' /\ CallIsOnLaunch'
      BY <1>1
         DEF RuntimeInv, FutureIsEmpty, LaunchIsFresh, Before, CallIsOnLaunch, RuncDelete, disk,
             Deleted, Return
    <2>3. ReleasedInv'
      BY <1>1 DEF RuntimeInv, ReleasedInv, HasBundle, Runs, RuncDelete, disk, Deleted
    <2>4. FailedInv'
      BY <1>1 DEF RuntimeInv, FailedInv, HasBundle, RuncDelete, disk, Deleted
    <2>. QED
      BY <2>1, <2>2, <2>3, <2>4 DEF RuntimeInv
  <1>2. CASE HasBundle(h) /\ LeaveBundle(h)
    <2>1. TypeOK'
      BY <1>2, DeleteTypes DEF RuntimeInv, TypeOK, disk, LeaveBundle, handles
    <2>2. FutureIsEmpty' /\ LaunchIsFresh' /\ CallIsOnLaunch'
      BY <1>2, Ranges
         DEF RuntimeInv, TypeOK, FutureIsEmpty, LaunchIsFresh, Before, CallIsOnLaunch,
             HasBundle, RuncDelete, disk, LeaveBundle, handles
    <2>3. ReleasedInv'
      BY <1>2
         DEF RuntimeInv, ReleasedInv, HasBundle, Runs, RuncDelete, disk, LeaveBundle,
             handles
    <2>4. FailedInv'
      BY <1>2 DEF RuntimeInv, FailedInv, HasBundle, RuncDelete, disk, LeaveBundle, handles
    <2>. QED
      BY <2>1, <2>2, <2>3, <2>4 DEF RuntimeInv
  <1>3. CASE Return /\ UNCHANGED handles
    <2>1. TypeOK'
      BY <1>3, DeleteTypes DEF RuntimeInv, TypeOK, disk, Return, handles
    <2>2. FutureIsEmpty' /\ LaunchIsFresh' /\ CallIsOnLaunch'
      BY <1>3
         DEF RuntimeInv, FutureIsEmpty, LaunchIsFresh, Before, CallIsOnLaunch, RuncDelete, disk,
             Return, handles
    <2>3. ReleasedInv'
      BY <1>3 DEF RuntimeInv, ReleasedInv, HasBundle, Runs, RuncDelete, disk, handles
    <2>4. FailedInv'
      BY <1>3 DEF RuntimeInv, FailedInv, HasBundle, RuncDelete, disk, handles
    <2>. QED
      BY <2>1, <2>2, <2>3, <2>4 DEF RuntimeInv
  <1>. QED
    BY <1>1, <1>2, <1>3

\* Provision: the bundle is made, or the launch failed, or its staging directory is left.
LEMMA ProvisionKeepsInv ==
  ASSUME RuntimeInv, UNCHANGED quiet, Provision
  PROVE  RuntimeInv'
  <1>1. TypeOK'
    BY Ranges, LaunchFailedTypes DEF RuntimeInv, TypeOK, Provision, Goto, Return, handles, runc
  <1>2. FutureIsEmpty' /\ LaunchIsFresh' /\ CallIsOnLaunch'
    BY DEF RuntimeInv, TypeOK, FutureIsEmpty, LaunchIsFresh, Before, CallIsOnLaunch, Provision,
           Goto, LaunchFailed, Return, handles, runc
  <1>3. ReleasedInv'
    BY DEF RuntimeInv, TypeOK, LaunchIsFresh, Before, ReleasedInv, HasBundle, Provision,
           LaunchFailed, handles, runc
  <1>4. FailedInv'
    BY DEF RuntimeInv, TypeOK, LaunchIsFresh, Before, FailedInv, HasBundle, Provision,
           LaunchFailed, handles, runc
  <1>. QED
    BY <1>1, <1>2, <1>3, <1>4 DEF RuntimeInv

\* A launch that gets no log files is rolled back or has failed.
LEMMA OpenLogsFailsKeepsInv ==
  ASSUME RuntimeInv, UNCHANGED quiet, OpenLogsFails
  PROVE  RuntimeInv'
  <1>1. TypeOK'
    BY Ranges, LaunchFailedTypes
       DEF RuntimeInv, TypeOK, OpenLogsFails, LaunchEnds, Goto, handles, runc
  <1>2. FutureIsEmpty' /\ LaunchIsFresh' /\ CallIsOnLaunch'
    BY DEF RuntimeInv, FutureIsEmpty, LaunchIsFresh, Before, CallIsOnLaunch, OpenLogsFails,
           LaunchEnds, LaunchFailed, Goto, Return, handles, runc
  <1>3. ReleasedInv'
    BY DEF RuntimeInv, ReleasedInv, HasBundle, OpenLogsFails, LaunchEnds, LaunchFailed, handles,
           runc
  <1>4. FailedInv'
    BY DEF RuntimeInv, LaunchIsFresh, Before, FailedInv, HasBundle, OpenLogsFails, LaunchEnds,
           LaunchFailed, handles, runc
  <1>. QED
    BY <1>1, <1>2, <1>3, <1>4 DEF RuntimeInv

\* The launch ends with its process being created.
LEMMA StartKeepsInv ==
  ASSUME RuntimeInv, UNCHANGED quiet, Start
  PROVE  RuntimeInv'
  <1>1. TypeOK'
    BY Ranges DEF RuntimeInv, TypeOK, Start, Goto, Return, disk
  <1>2. FutureIsEmpty' /\ LaunchIsFresh' /\ CallIsOnLaunch'
    BY Ranges
       DEF RuntimeInv, FutureIsEmpty, LaunchIsFresh, Before, CallIsOnLaunch, Start, Goto,
           Return, disk
  <1>3. ReleasedInv'
    BY DEF RuntimeInv, LaunchIsFresh, Before, ReleasedInv, HasBundle, Start, disk
  <1>4. FailedInv'
    BY DEF RuntimeInv, LaunchIsFresh, Before, FailedInv, HasBundle, Start, disk
  <1>. QED
    BY <1>1, <1>2, <1>3, <1>4 DEF RuntimeInv

\* runc cannot be started: both log files go.
LEMMA StartFailsKeepsInv ==
  ASSUME RuntimeInv, UNCHANGED quiet, StartFails
  PROVE  RuntimeInv'
  <1>1. TypeOK'
    BY Ranges, LaunchFailedTypes
       DEF RuntimeInv, TypeOK, StartFails, LaunchEnds, Goto, handles, runc
  <1>2. FutureIsEmpty' /\ LaunchIsFresh' /\ CallIsOnLaunch'
    BY Ranges
       DEF RuntimeInv, FutureIsEmpty, LaunchIsFresh, Before, CallIsOnLaunch, StartFails,
           LaunchEnds, LaunchFailed, Goto, Return, handles, runc
  <1>3. ReleasedInv'
    BY DEF RuntimeInv, ReleasedInv, HasBundle, StartFails, LaunchEnds, LaunchFailed,
           handles, runc
  <1>4. FailedInv'
    BY DEF RuntimeInv, LaunchIsFresh, Before, FailedInv, HasBundle, Runs, StartFails,
           LaunchEnds, LaunchFailed, handles, runc
  <1>. QED
    BY <1>1, <1>2, <1>3, <1>4 DEF RuntimeInv

\* RunImage takes its bundle back.
LEMMA RollbackKeepsInv ==
  ASSUME RuntimeInv, UNCHANGED quiet, Rollback
  PROVE  RuntimeInv'
  <1>1. TypeOK'
    BY Ranges, LaunchFailedTypes
       DEF RuntimeInv, TypeOK, Rollback, BundleRemoved, BundleResists, Return, handles,
           runc
  <1>2. FutureIsEmpty' /\ LaunchIsFresh' /\ CallIsOnLaunch'
    BY DEF RuntimeInv, TypeOK, FutureIsEmpty, LaunchIsFresh, Before, CallIsOnLaunch,
           Rollback, BundleRemoved, BundleResists, LaunchFailed, Return, handles, runc
  <1>3. ReleasedInv'
    BY DEF RuntimeInv, TypeOK, LaunchIsFresh, Before, ReleasedInv, HasBundle, Rollback,
           BundleRemoved, BundleResists, LaunchFailed, handles, runc
  <1>4. FailedInv'
    BY DEF RuntimeInv, TypeOK, LaunchIsFresh, Before, FailedInv, HasBundle, Rollback,
           BundleRemoved, BundleResists, LaunchFailed, handles, runc
  <1>. QED
    BY <1>1, <1>2, <1>3, <1>4 DEF RuntimeInv

\* started returns, with or without having deleted the container.
LEMMA CallbackKeepsInv ==
  ASSUME RuntimeInv, UNCHANGED quiet, Callback
  PROVE  RuntimeInv'
  <1>1. TypeOK'
    BY Ranges, DeleteTypes DEF RuntimeInv, TypeOK, Callback, Goto, Return, runc, handles, disk
  <1>2. FutureIsEmpty' /\ LaunchIsFresh' /\ CallIsOnLaunch'
    BY DEF RuntimeInv, FutureIsEmpty, LaunchIsFresh, Before, CallIsOnLaunch, Callback, Goto,
           Return, RuncDelete, runc, handles, disk
  <1>3. ReleasedInv'
    <2>. SUFFICES ASSUME NEW g \in Runs, g \in released'
                  PROVE  /\ (HasBundle(g) => bundle[g] = "none")'
                         /\ (g \notin missed => box # g /\ proc[g] # "creating")'
      BY DEF ReleasedInv
    <2>1. (HasBundle(g) => bundle[g] = "none")'
      BY DEF RuntimeInv, ReleasedInv, HasBundle, Callback, handles, disk
    <2>2. (g \notin missed => box # g /\ proc[g] # "creating")'
      BY DEF RuntimeInv, ReleasedInv, Runs, Callback, RuncDelete, runc, handles
    <2>. QED
      BY <2>1, <2>2
  <1>4. FailedInv'
    BY DEF RuntimeInv, FailedInv, HasBundle, Callback, RuncDelete, runc, handles, disk
  <1>. QED
    BY <1>1, <1>2, <1>3, <1>4 DEF RuntimeInv

\* Wait deletes the container.
LEMMA WaitIsCancelledKeepsInv ==
  ASSUME RuntimeInv, UNCHANGED quiet, WaitIsCancelled
  PROVE  RuntimeInv'
  <1>1. TypeOK'
    BY DeleteTypes DEF RuntimeInv, TypeOK, WaitIsCancelled, Goto, Return, handles, disk
  <1>2. FutureIsEmpty' /\ LaunchIsFresh' /\ CallIsOnLaunch'
    BY DEF RuntimeInv, FutureIsEmpty, LaunchIsFresh, Before, CallIsOnLaunch, WaitIsCancelled,
           RuncDelete, Goto, Return, handles, disk
  <1>3. ReleasedInv'
    BY DEF RuntimeInv, ReleasedInv, HasBundle, Runs, WaitIsCancelled, RuncDelete, handles, disk
  <1>4. FailedInv'
    BY DEF RuntimeInv, FailedInv, HasBundle, WaitIsCancelled, RuncDelete, handles, disk
  <1>. QED
    BY <1>1, <1>2, <1>3, <1>4 DEF RuntimeInv

\* Wait removes the bundle.
LEMMA ForceRemoveKeepsInv ==
  ASSUME RuntimeInv, UNCHANGED quiet, ForceRemove
  PROVE  RuntimeInv'
  <1>1. TypeOK'
    BY DEF RuntimeInv, TypeOK, ForceRemove, BundleRemoved, BundleResists, Return, handles, runc
  <1>2. FutureIsEmpty' /\ LaunchIsFresh' /\ CallIsOnLaunch'
    BY DEF RuntimeInv, TypeOK, FutureIsEmpty, LaunchIsFresh, Before, CallIsOnLaunch,
           ForceRemove, BundleRemoved, BundleResists, Return, handles, runc
  <1>3. ReleasedInv'
    BY DEF RuntimeInv, TypeOK, ReleasedInv, HasBundle, ForceRemove, BundleRemoved,
           BundleResists, handles, runc
  <1>4. FailedInv'
    BY DEF RuntimeInv, TypeOK, FailedInv, HasBundle, ForceRemove, BundleRemoved,
           BundleResists, handles, runc
  <1>. QED
    BY <1>1, <1>2, <1>3, <1>4 DEF RuntimeInv

\* A runc delete whose caller does not go on.
LEMMA DeleteCutOffKeepsInv ==
  ASSUME RuntimeInv, UNCHANGED quiet, DeleteCutOff
  PROVE  RuntimeInv'
  <1>1. TypeOK'
    BY DeleteTypes DEF RuntimeInv, TypeOK, DeleteCutOff, calls, handles, disk
  <1>2. FutureIsEmpty' /\ LaunchIsFresh' /\ CallIsOnLaunch'
    BY DEF RuntimeInv, FutureIsEmpty, LaunchIsFresh, Before, CallIsOnLaunch, DeleteCutOff,
           RuncDelete, calls, handles, disk
  <1>3. ReleasedInv'
    BY DEF RuntimeInv, ReleasedInv, HasBundle, Runs, DeleteCutOff, RuncDelete, handles, disk
  <1>4. FailedInv'
    BY DEF RuntimeInv, FailedInv, HasBundle, DeleteCutOff, RuncDelete, handles, disk
  <1>. QED
    BY <1>1, <1>2, <1>3, <1>4 DEF RuntimeInv

\* Delete removes the bundle and has released the launch.
LEMMA RemoveBundleKeepsInv ==
  ASSUME RuntimeInv, UNCHANGED quiet, RemoveBundle
  PROVE  RuntimeInv'
  <1>1. TypeOK'
    BY Ranges, DeletedTypes
       DEF RuntimeInv, TypeOK, RemoveBundle, BundleRemoved, BundleResists, Return, handles,
           runc
  <1>2. FutureIsEmpty' /\ LaunchIsFresh' /\ CallIsOnLaunch'
    BY DEF RuntimeInv, TypeOK, FutureIsEmpty, LaunchIsFresh, Before, CallIsOnLaunch,
           RemoveBundle, BundleRemoved, BundleResists, Deleted, Return, handles, runc
  <1>3. ReleasedInv'
    BY DEF RuntimeInv, TypeOK, CallIsOnLaunch, ReleasedInv, HasBundle, RemoveBundle,
           BundleRemoved, BundleResists, Deleted, handles, runc
  <1>4. FailedInv'
    BY DEF RuntimeInv, TypeOK, FailedInv, HasBundle, RemoveBundle, BundleRemoved,
           BundleResists, Deleted, handles, runc
  <1>. QED
    BY <1>1, <1>2, <1>3, <1>4 DEF RuntimeInv

\* runc makes the container of a launch whose bundle is there.
LEMMA RuncCreatesKeepsInv ==
  ASSUME RuntimeInv, UNCHANGED quiet, NEW g \in Runs, RuncCreates(g)
  PROVE  RuntimeInv'
  <1>1. TypeOK'
    BY Ranges DEF RuntimeInv, TypeOK, RuncCreates, calls, handles, disk
  <1>2. FutureIsEmpty' /\ LaunchIsFresh' /\ CallIsOnLaunch'
    BY DEF RuntimeInv, FutureIsEmpty, LaunchIsFresh, CallIsOnLaunch, RuncCreates, calls,
           handles, disk
  <1>3. ReleasedInv'
    BY DEF RuntimeInv, ReleasedInv, HasBundle, RuncCreates, handles, disk
  <1>4. FailedInv'
    BY DEF RuntimeInv, FailedInv, HasBundle, RuncCreates, handles, disk
  <1>. QED
    BY <1>1, <1>2, <1>3, <1>4 DEF RuntimeInv

\* runc run ends and removes its own state.
LEMMA ContainerEndsKeepsInv ==
  ASSUME RuntimeInv, UNCHANGED quiet, NEW g \in Runs, ContainerEnds(g)
  PROVE  RuntimeInv'
  <1>1. TypeOK'
    BY Ranges DEF RuntimeInv, TypeOK, ContainerEnds, calls, handles, disk
  <1>2. FutureIsEmpty' /\ LaunchIsFresh' /\ CallIsOnLaunch'
    BY Ranges
       DEF RuntimeInv, FutureIsEmpty, LaunchIsFresh, Before, CallIsOnLaunch, ContainerEnds,
           calls, handles, disk
  <1>3. ReleasedInv'
    BY DEF RuntimeInv, ReleasedInv, HasBundle, Runs, ContainerEnds, handles, disk
  <1>4. FailedInv'
    BY DEF RuntimeInv, FailedInv, HasBundle, ContainerEnds, handles, disk
  <1>. QED
    BY <1>1, <1>2, <1>3, <1>4 DEF RuntimeInv

\* Every step keeps the invariant: the steps above by their lemmas, the others at once.
LEMMA RuntimeInvIsInductive ==
  ASSUME RuntimeInv, [Next]_vars
  PROVE  RuntimeInv'
  <1>1. CASE UNCHANGED vars
    BY <1>1
       DEF RuntimeInv, TypeOK, FutureIsEmpty, LaunchIsFresh, CallIsOnLaunch, ReleasedInv,
           FailedInv, HasBundle, vars, calls, handles, runc, disk
  <1>2. ASSUME Launch, UNCHANGED quiet
        PROVE  RuntimeInv'
    <2>1. CASE BeginRunImage
      BY <2>1, <1>2
         DEF RuntimeInv, TypeOK, FutureIsEmpty, LaunchIsFresh, CallIsOnLaunch, ReleasedInv,
             FailedInv, HasBundle, Runs, BeginRunImage, Launching, Fresh, runc
    <2>2. CASE BeginRun
      BY <2>2, <1>2
         DEF RuntimeInv, TypeOK, FutureIsEmpty, LaunchIsFresh, CallIsOnLaunch, ReleasedInv,
             FailedInv, HasBundle, Runs, BeginRun, Launching, Fresh, runc
    <2>3. CASE OpenLogs
      BY <2>3, <1>2
         DEF RuntimeInv, TypeOK, FutureIsEmpty, LaunchIsFresh, Before, CallIsOnLaunch,
             ReleasedInv, FailedInv, HasBundle, OpenLogs, Goto, handles, runc
    <2>. QED
      BY <1>2, <2>1, <2>2, <2>3, ProvisionKeepsInv, OpenLogsFailsKeepsInv, StartKeepsInv,
         StartFailsKeepsInv, RollbackKeepsInv, CallbackKeepsInv
         DEF Launch
  <1>3. ASSUME Handle, UNCHANGED quiet
        PROVE  RuntimeInv'
    <2>1. CASE BeginWait
      BY <2>1, <1>3, Ranges
         DEF RuntimeInv, TypeOK, FutureIsEmpty, LaunchIsFresh, Before, CallIsOnLaunch,
             ReleasedInv, FailedInv, HasBundle, BeginWait, handles, runc, disk
    <2>2. CASE WaitEnds
      BY <2>2, <1>3
         DEF RuntimeInv, TypeOK, FutureIsEmpty, LaunchIsFresh, Before, CallIsOnLaunch,
             ReleasedInv, FailedInv, HasBundle, WaitEnds, Return, handles, runc, disk
    <2>3. CASE WaitFails
      BY <2>3, <1>3
         DEF RuntimeInv, TypeOK, FutureIsEmpty, LaunchIsFresh, Before, CallIsOnLaunch,
             ReleasedInv, FailedInv, HasBundle, WaitFails, Return, handles, runc, disk
    <2>4. CASE Signal
      BY <2>4, <1>3
         DEF RuntimeInv, TypeOK, FutureIsEmpty, LaunchIsFresh, CallIsOnLaunch, ReleasedInv,
             FailedInv, HasBundle, Signal, calls, handles, disk
    <2>5. ASSUME NEW s \in Streams, DeleteLog(s)
          PROVE  RuntimeInv'
      BY <1>3, <2>5
         DEF RuntimeInv, TypeOK, FutureIsEmpty, LaunchIsFresh, Before, CallIsOnLaunch,
             ReleasedInv, FailedInv, HasBundle, DeleteLog, calls, handles, runc
    <2>6. ASSUME NEW h \in Runs \cup {0}, Delete(h) \/ SoftDelete(h)
          PROVE  RuntimeInv'
      <3>1. h \in 0 .. last
        <4>1. h \in held \cup {0}
          BY <2>6 DEF Delete, SoftDelete
        <4>2. held \subseteq 1 .. last
          BY DEF RuntimeInv, TypeOK
        <4>. QED
          BY <4>1, <4>2, Ranges
      <3>2. /\ pc = "idle" /\ RuncDelete /\ UNCHANGED <<watch, disk>>
            /\ RuncDeleted(h) \/ Gone(h)
        BY <2>6 DEF Delete, SoftDelete
      <3>. QED
        BY <1>3, <3>1, <3>2, DeletionKeepsInv DEF RuncDeleted, Gone
    <2>. QED
      BY <1>3, <2>1, <2>2, <2>3, <2>4, <2>5, <2>6, WaitIsCancelledKeepsInv,
         ForceRemoveKeepsInv, DeleteCutOffKeepsInv, RemoveBundleKeepsInv
         DEF Handle
  <1>4. ASSUME Crash, UNCHANGED quiet
        PROVE  RuntimeInv'
    BY <1>4
       DEF RuntimeInv, TypeOK, FutureIsEmpty, LaunchIsFresh, Before, CallIsOnLaunch,
           ReleasedInv, FailedInv, HasBundle, Crash, BundleResists, Return,
           runc
  <1>5. ASSUME NEW g \in Runs, Runc(g) \/ Reap(g), UNCHANGED quiet
        PROVE  RuntimeInv'
    <2>1. CASE RuncRefuses(g)
      BY <2>1, <1>5
         DEF RuntimeInv, TypeOK, FutureIsEmpty, LaunchIsFresh, Before, CallIsOnLaunch,
             ReleasedInv, FailedInv, HasBundle, RuncRefuses, calls, handles, disk
    <2>2. CASE RuncIsKilled(g)
      BY <2>2, <1>5
         DEF RuntimeInv, TypeOK, FutureIsEmpty, LaunchIsFresh, CallIsOnLaunch, ReleasedInv,
             FailedInv, HasBundle, RuncIsKilled, calls, handles, disk
    <2>3. CASE OrphanEnds(g)
      BY <2>3, <1>5
         DEF RuntimeInv, TypeOK, FutureIsEmpty, LaunchIsFresh, CallIsOnLaunch, ReleasedInv,
             FailedInv, HasBundle, OrphanEnds, calls, handles, disk
    <2>4. CASE Reap(g)
      BY <2>4, <1>5
         DEF RuntimeInv, TypeOK, FutureIsEmpty, LaunchIsFresh, CallIsOnLaunch, ReleasedInv,
             FailedInv, HasBundle, Reap, calls, handles, disk, runc
    <2>. QED
      BY <1>5, <2>1, <2>2, <2>3, <2>4, RuncCreatesKeepsInv, ContainerEndsKeepsInv DEF Runc
  <1>. QED
    BY <1>1, <1>2, <1>3, <1>4, <1>5 DEF Next

\* The invariant holds in every behaviour.
LEMMA RuntimeInvHolds == Spec => []RuntimeInv
  <1>1. Init => RuntimeInv
    <2>. SUFFICES ASSUME Init
                  PROVE  RuntimeInv
      OBVIOUS
    <2>1. last = 0 /\ 0 .. last = {0} /\ last \in 0 .. MaxRuns
      BY DEF Init
    <2>2. TypeOK
      BY <2>1 DEF Init, TypeOK
    <2>3. FutureIsEmpty
      BY DEF Init, FutureIsEmpty
    <2>4. LaunchIsFresh /\ CallIsOnLaunch /\ ReleasedInv /\ FailedInv
      BY DEF Init, LaunchIsFresh, Before, CallIsOnLaunch, ReleasedInv, FailedInv
    <2>. QED
      BY <2>2, <2>3, <2>4 DEF RuntimeInv
  <1>2. RuntimeInv /\ [Next]_vars => RuntimeInv'
    BY RuntimeInvIsInductive
  <1>. QED
    BY <1>1, <1>2, PTL DEF Spec

\* For any number of launches and any order of calls: after a Delete that returned nil nothing
\* of its launch is left or comes back, but for a container the latest runc delete came too
\* early for, and a launch that failed has left nothing.
THEOREM RuntimeOutcomesAreTrue == Spec => []OutcomesAreTrue
  <1>1. RuntimeInv => OutcomesAreTrue
    <2>. SUFFICES ASSUME RuntimeInv
                  PROVE  OutcomesAreTrue
      OBVIOUS
    <2>1. TypeOK
      BY DEF RuntimeInv
    <2>2. released \subseteq Runs /\ failed \subseteq Runs
      BY <2>1, Ranges DEF TypeOK
    <2>3. ReleasedIsGone
      BY <2>2 DEF RuntimeInv, ReleasedInv, ReleasedIsGone
    <2>4. FailedLaunchLeavesNothing
      BY <2>2 DEF RuntimeInv, FailedInv, FailedLaunchLeavesNothing
    <2>. QED
      BY <2>1, <2>3, <2>4 DEF OutcomesAreTrue
  <1>. QED
    BY <1>1, RuntimeInvHolds, PTL

\* A log file goes only by DeleteLog or when runc could not be started for the launch that
\* just made it; nothing else overwrites it, whatever launch comes after.
THEOREM RuntimeLogsAreKept == Spec => LogsAreKept
  <1>1. ASSUME RuntimeInv, Next, NEW s \in Streams, logs[s] # 0, logs'[s] # logs[s]
        PROVE  logs'[s] = 0 /\ (DeleteLog(s) \/ (pc = "start" /\ logs[s] = cur))
    <2>1. logs \in [Streams -> 0 .. last]
      BY <1>1 DEF RuntimeInv, TypeOK
    <2>2. CASE Launch
      BY <1>1, <2>2
         DEF RuntimeInv, LaunchIsFresh, Before, Launch, BeginRunImage, BeginRun, Launching,
             Provision, OpenLogs, CreatePrivate, OpenLogsFails, Start, StartFails, Rollback,
             Callback, disk
    <2>3. CASE Handle
      <3>1. ASSUME NEW t \in Streams, DeleteLog(t)
            PROVE  logs'[s] = 0 /\ DeleteLog(s)
        BY <1>1, <2>1, <3>1 DEF DeleteLog
      <3>2. ASSUME NEW h \in Runs \cup {0}, Delete(h) \/ SoftDelete(h)
            PROVE  UNCHANGED logs
        BY <3>2 DEF Delete, SoftDelete, disk
      <3>. QED
        BY <1>1, <2>3, <3>1, <3>2
           DEF Handle, BeginWait, WaitEnds, WaitIsCancelled, WaitFails, ForceRemove,
               DeleteCutOff, RemoveBundle, Signal, disk
    <2>4. CASE Crash
      BY <1>1, <2>1, <2>4 DEF Crash, CreatePrivate, RuntimeInv, LaunchIsFresh, Before
    <2>5. ASSUME NEW g \in Runs, Runc(g) \/ Reap(g)
          PROVE  UNCHANGED logs
      BY <2>5
         DEF Runc, RuncCreates, RuncRefuses, ContainerEnds, RuncIsKilled, OrphanEnds, Reap, disk
    <2>. QED
      BY <1>1, <2>2, <2>3, <2>4, <2>5 DEF Next
  <1>2. RuntimeInv /\ [Next]_vars =>
          [\A s \in Streams :
             logs[s] # 0 /\ logs'[s] # logs[s] =>
               /\ logs'[s] = 0
               /\ DeleteLog(s) \/ (pc = "start" /\ logs[s] = cur)]_vars
    BY <1>1
  <1>. QED
    BY <1>2, RuntimeInvHolds, PTL DEF Spec, LogsAreKept
=============================================================================
