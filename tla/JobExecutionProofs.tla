-------------------------- MODULE JobExecutionProofs --------------------------
(***************************************************************************)
(* Why a job's verdict, its bundle and its clean-up are right: the         *)
(* invariant that joins executeJob, runc and cleanupJob. The system is     *)
(* finite, so TLC covers it all; the proof says which steps rely on what.  *)
(***************************************************************************)
EXTENDS JobExecution, TLAPS

(***************************************************************************)
(* The inductive invariant.                                                *)
(***************************************************************************)

\* Where runc run and its container can be, and how its end is told.
RuncInv ==
  /\ runc = "none" => box = "none" /\ code = "none"
  /\ runc = "creating" => box = "none" /\ code = "none"
  /\ runc = "running" => code = "none"
  /\ runc = "exited" => code # "none"
  /\ watch = "closed" => runc = "exited"

\* Nobody will run the bundle: no container, and none to come, unless a look missed it.
Released == ~missed => box = "none" /\ runc # "creating"

\* The steps after runc run has been started.
Launched == {"wait", "force-delete", "force-remove", "grace", "delete", "remove"}

\* What executeJob relies on at each of its steps.
PathInv ==
  /\ pc \in {"none", "rollback"} \cup Stages => runc = "none" /\ watch = "none"
  /\ pc \in {"none", "checkout", "build", "setup", "provision"} => bundle = "none"
  /\ pc = "launch" => bundle = "ready"
  /\ pc \in Launched => runc # "none"
  /\ pc = "wait" => code # "killed" /\ (runc = "running" => box = "live")
  /\ pc \in {"force-remove", "remove"} => Released
  /\ bundle # "ready" => Released

\* What a verdict other than "error" rests on.
VerdictInv ==
  /\ pc \in {"delete", "remove"} /\ verdict = "success" => runc = "exited" /\ code = "zero"
  /\ pc \in {"delete", "remove"} /\ verdict = "failure" =>
       runc = "exited" /\ code \in {"nonzero", "refused"}
  /\ pc = "remove" /\ verdict \in {"success", "failure"} => box = "none"
  /\ pc = "returned" /\ verdict = "success" =>
       /\ ~cancelled /\ runc = "exited" /\ code = "zero"
       /\ box = "none" /\ bundle = "none"
  /\ pc = "returned" /\ verdict = "failure" =>
       /\ ~cancelled
       /\ \/ runc = "none"
          \/ runc = "exited" /\ code \in {"nonzero", "refused"} /\ bundle = "none"

\* What cleanupJob relies on at each of its steps.
CleanInv ==
  /\ clean # "off" => pc = "returned" /\ work = "present"
  /\ work = "gone" => pc = "returned"
  /\ clean \in {"bundles", "work"} => Released
  /\ clean = "work" \/ work = "gone" => bundle = "none"

JobInv == TypeOK /\ RuncInv /\ PathInv /\ VerdictInv /\ CleanInv

----------------------------------------------------------------------------
(* The steps *)

\* What a look for the container may miss.
Look ==
  /\ missed' \in BOOLEAN
  /\ missed => missed'
  /\ box = "none" /\ runc = "creating" => missed'

\* A look that finds nothing while runc run is creating the container is remembered.
LEMMA LookIs ==
  ASSUME missed \in BOOLEAN, missed' = (missed \/ (box = "none" /\ runc = "creating"))
  PROVE  Look
  BY Zenon DEF Look

\* The job begins, its context ends, or the CI process dies.
LEMMA StartStep ==
  ASSUME JobInv,
         \/ Start \/ Cancel \/ Crash
  PROVE  JobInv'
  <1> USE DEF JobInv, TypeOK, RuncInv, PathInv, VerdictInv, CleanInv, Released, Launched,
              Stages, Verdicts, Codes
  <1>1. CASE Start
    BY <1>1 DEF Start, Advance, container
  <1>2. CASE Cancel
    BY <1>2 DEF Cancel, container, files
  <1>3. CASE Crash
    BY <1>3 DEF Crash, Removing, BundleResists
  <1> QED
    BY <1>1, <1>2, <1>3

\* Up to the launch there is no runc, and a bundle only after its provisioning.
LEMMA WorkStep ==
  ASSUME JobInv,
         \/ CheckedOut \/ CheckoutFails \/ Built \/ BuildFails \/ SetUp \/ SetupFails
         \/ Provisioned \/ ProvisionFails \/ Launch \/ LaunchFails \/ Rollback
  PROVE  JobInv'
  <1> USE DEF JobInv, TypeOK, RuncInv, PathInv, VerdictInv, CleanInv, Released, Launched,
              Stages, Verdicts, Codes
  <1>1. CASE CheckedOut
    BY <1>1 DEF CheckedOut, Advance, container, files
  <1>2. CASE CheckoutFails
    BY <1>2 DEF CheckoutFails, Settle, container, files
  <1>3. CASE Built
    BY <1>3 DEF Built, Advance, container, files
  <1>4. CASE BuildFails
    BY <1>4 DEF BuildFails, Settle, container
  <1>5. CASE SetUp
    BY <1>5 DEF SetUp, Advance, container, files
  <1>6. CASE SetupFails
    BY <1>6 DEF SetupFails, Settle, container, files
  <1>7. CASE Provisioned
    BY <1>7 DEF Provisioned, Advance, container
  <1>8. CASE ProvisionFails
    BY <1>8 DEF ProvisionFails, Settle, container
  <1>9. CASE Launch
    BY <1>9 DEF Launch, Advance, files
  <1>10. CASE LaunchFails
    BY <1>10 DEF LaunchFails, Advance, container, files
  <1>11. CASE Rollback
    BY <1>11 DEF Rollback, Settle, BundleRemoved, BundleResists, container
  <1> QED
    BY <1>1, <1>2, <1>3, <1>4, <1>5, <1>6, <1>7, <1>8, <1>9, <1>10, <1>11

\* Wait and the deferred Delete: the container goes before its bundle.
LEMMA WaitingStep == ASSUME JobInv, Waiting PROVE JobInv'
  <1> USE DEF JobInv, TypeOK, RuncInv, PathInv, VerdictInv, CleanInv, Released, Launched,
              Stages, Verdicts, Codes
  <1>1. CASE WaitEnds
    BY <1>1 DEF WaitEnds, WaitReturns, Verdict, container, files
  <1>2. CASE WaitIsCancelled
    BY <1>2 DEF WaitIsCancelled, Advance, container, files
  <1>3. CASE ForceDelete
    <2>1. Look
      BY <1>3, LookIs DEF ForceDelete, Delete
    <2> QED
      BY <1>3, <2>1 DEF ForceDelete, Delete, Advance, files, Look
  <1>4. CASE ForceDeleteFails
    BY <1>4 DEF ForceDeleteFails, WaitReturns, container, files
  <1>5. CASE ForceRemove
    BY <1>5 DEF ForceRemove, Advance, WaitReturns, BundleRemoved, BundleResists, container
  <1>6. CASE Grace
    BY <1>6 DEF Grace, WaitReturns, container, files
  <1>7. CASE DeleteContainer
    <2>1. Look
      BY <1>7, LookIs DEF DeleteContainer, Delete
    <2> QED
      BY <1>7, <2>1 DEF DeleteContainer, Delete, Advance, files, Look
  <1>8. CASE DeleteFails
    BY <1>8 DEF DeleteFails, Settle, container, files
  <1>9. CASE RemoveBundle
    BY <1>9 DEF RemoveBundle, Settle, BundleRemoved, BundleResists, container
  <1> QED
    BY <1>1, <1>2, <1>3, <1>4, <1>5, <1>6, <1>7, <1>8, <1>9 DEF Waiting

\* cleanupJob: the container, the bundle, then the workspace.
LEMMA CleaningStep == ASSUME JobInv, Cleaning PROVE JobInv'
  <1> USE DEF JobInv, TypeOK, RuncInv, PathInv, VerdictInv, CleanInv, Released, Launched,
              Stages, Verdicts, Codes
  <1>1. CASE BeginClean
    BY <1>1 DEF BeginClean, execution, container, files
  <1>2. CASE Stat
    <2>1. Look
      BY <1>2, LookIs DEF Stat
    <2> QED
      BY <1>2, <2>1 DEF Stat, execution, container, files, Look
  <1>3. CASE CleanContainer
    <2>1. Look
      BY <1>3, LookIs DEF CleanContainer, Delete
    <2> QED
      BY <1>3, <2>1 DEF CleanContainer, Delete, execution, files, Look
  <1>4. CASE CleanBundles
    BY <1>4 DEF CleanBundles, BundleRemoved, execution, container
  <1>5. CASE CleanBundlesFails
    BY <1>5 DEF CleanBundlesFails, BundleResists, execution, container
  <1>6. CASE CleanFails
    BY <1>6 DEF CleanFails, execution, container, files
  <1>7. CASE CleanWork
    BY <1>7 DEF CleanWork, execution, container
  <1> QED
    BY <1>1, <1>2, <1>3, <1>4, <1>5, <1>6, <1>7 DEF Cleaning

\* runc run, its container and the goroutine that waits for it.
LEMMA RuncStep ==
  ASSUME JobInv,
         \/ RuncCreates \/ RuncRefuses \/ ContainerExits \/ ContainerWasKilled
         \/ RuncIsKilled \/ OrphanExits \/ Reap
  PROVE  JobInv'
  <1> USE DEF JobInv, TypeOK, RuncInv, PathInv, VerdictInv, CleanInv, Released, Launched,
              Stages, Verdicts, Codes
  <1>1. CASE RuncCreates
    BY <1>1 DEF RuncCreates, execution, files
  <1>2. CASE RuncRefuses
    BY <1>2 DEF RuncRefuses, execution, files
  <1>3. CASE ContainerExits
    BY <1>3 DEF ContainerExits, execution, files
  <1>4. CASE ContainerWasKilled
    BY <1>4 DEF ContainerWasKilled, execution, files
  <1>5. CASE RuncIsKilled
    BY <1>5 DEF RuncIsKilled, execution, files
  <1>6. CASE OrphanExits
    BY <1>6 DEF OrphanExits, execution, files
  <1>7. CASE Reap
    BY <1>7 DEF Reap, execution, files
  <1> QED
    BY <1>1, <1>2, <1>3, <1>4, <1>5, <1>6, <1>7

\* Nothing of the job exists at first.
LEMMA JobInit == ASSUME Init PROVE JobInv
  BY DEF Init, JobInv, TypeOK, RuncInv, PathInv, VerdictInv, CleanInv, Released, Launched,
         Stages, Verdicts, Codes

\* What executeJob, runc and cleanupJob rely on holds whatever they do, in any order.
THEOREM JobInvariant == Spec => []JobInv
  <1>1. JobInv /\ [Next]_vars => JobInv'
    <2>1. CASE UNCHANGED vars
      BY <2>1 DEF vars, execution, container, files, JobInv, TypeOK, RuncInv, PathInv,
                  VerdictInv, CleanInv, Released
    <2>2. CASE Next
      BY <2>2, StartStep, WorkStep, WaitingStep, CleaningStep, RuncStep DEF Next, Work, Runc
    <2> QED
      BY <2>1, <2>2
  <1> QED
    BY <1>1, JobInit, PTL DEF Spec

\* A success is the container's own exit code zero, a failure never a container the CI killed
\* (executeJob, runJob, convertWaitResult).
THEOREM JobVerdictIsEarned == Spec => []VerdictIsEarned
  <1>1. JobInv => VerdictIsEarned
    BY DEF JobInv, VerdictInv, VerdictIsEarned
  <1> QED
    BY <1>1, JobInvariant, PTL

\* A container that runs has its bundle, unless a look missed it while it was created (Delete,
\* RunImage, cleanupJob).
THEOREM JobBundleOutlivesContainer == Spec => []BundleOutlivesContainer
  <1>1. JobInv => BundleOutlivesContainer
    BY DEF JobInv, TypeOK, PathInv, Released, BundleOutlivesContainer
  <1> QED
    BY <1>1, JobInvariant, PTL

\* A finished clean-up leaves no bundle, not even one it cannot remove, and no container it
\* could have seen (cleanupJob: RemoveAll of the workspace comes last).
THEOREM JobNothingIsLeft == Spec => []NothingIsLeft
  <1>1. JobInv => NothingIsLeft
    BY DEF JobInv, TypeOK, PathInv, CleanInv, Released, NothingIsLeft, CleanedIsClean
  <1> QED
    BY <1>1, JobInvariant, PTL
=============================================================================
