--------------------------- MODULE JobStoreProofs ---------------------------
(***************************************************************************)
(* What the job table guarantees for any set of jobs, any limits and any   *)
(* clients: the theorems those about the server rest on.                   *)
(***************************************************************************)
EXTENDS JobStore, FiniteSetTheorems, TLAPS

(***************************************************************************)
(* Types.                                                                  *)
(***************************************************************************)
\* A write of known values keeps the columns within their types.
LEMMA WriteType ==
    ASSUME NEW js \in SUBSET Jobs, NEW s \in States, NEW m \in Messages,
           StoreTypeOK, Write(js, s, m)
    PROVE  StoreTypeOK'
BY DEF StoreTypeOK, Write

\* Every operation of the store keeps the columns within their types.
LEMMA StepType ==
    ASSUME StoreTypeOK, [StoreNext]_storeVars
    PROVE  StoreTypeOK'
<1>1. ASSUME NEW j \in Jobs, Admit(j) PROVE StoreTypeOK'
  BY <1>1, WriteType DEF Admit, States, Messages
<1>2. ASSUME NEW j \in Jobs, Claim(j) PROVE StoreTypeOK'
  BY <1>2, WriteType DEF Claim, States, Messages
<1>3. ASSUME NEW j \in Jobs, MarkCleaned(j) PROVE StoreTypeOK'
  BY <1>3 DEF MarkCleaned, StoreTypeOK
<1>4. ASSUME NEW j \in Jobs, NEW s \in Terminal, FinishCommit(j, s) PROVE StoreTypeOK'
  BY <1>4, WriteType DEF FinishCommit, States, Messages
<1>5. ASSUME NEW j \in Jobs, NEW v, Acknowledge(j, v) PROVE StoreTypeOK'
  BY <1>5 DEF Acknowledge, StoreTypeOK
<1>6. CASE RecoverInterrupted
  BY <1>6, WriteType DEF RecoverInterrupted, Running, InState, States, Messages, Terminal
<1>7. CASE CancelQueued
  BY <1>7, WriteType DEF CancelQueued, Queued, InState, States, Messages, Terminal
<1>8. CASE UNCHANGED storeVars
  BY <1>8 DEF storeVars, StoreTypeOK
<1> QED
  BY <1>1, <1>2, <1>3, <1>4, <1>5, <1>6, <1>7, <1>8
     DEF StoreNext, AdmitRefused, Finish, FinishRepeated

\* The type invariant of the table holds in every behaviour.
THEOREM StoreTypeCorrect == StoreSpec => []StoreTypeOK
<1>1. StoreInit => StoreTypeOK
  BY DEF StoreInit, StoreTypeOK, States, Messages
<1>2. StoreTypeOK /\ [StoreNext]_storeVars => StoreTypeOK'
  BY StepType
<1> QED
  BY <1>1, <1>2, PTL DEF StoreSpec

(***************************************************************************)
(* The columns agree.                                                      *)
(***************************************************************************)
\* Every operation keeps the columns of a row consistent.
LEMMA StepConsistent ==
    ASSUME StoreTypeOK, RowsConsistent, [StoreNext]_storeVars
    PROVE  RowsConsistent'
<1>1. ASSUME NEW j \in Jobs, Admit(j) PROVE RowsConsistent'
  BY <1>1 DEF Admit, Write, RowsConsistent, StoreTypeOK, Terminal
<1>2. ASSUME NEW j \in Jobs, Claim(j) PROVE RowsConsistent'
  BY <1>2 DEF Claim, IsOldestQueued, Queued, InState, Write, RowsConsistent, StoreTypeOK, Terminal
<1>3. ASSUME NEW j \in Jobs, MarkCleaned(j) PROVE RowsConsistent'
  BY <1>3 DEF MarkCleaned, RowsConsistent, StoreTypeOK, Terminal
<1>4. ASSUME NEW j \in Jobs, NEW s \in Terminal, FinishCommit(j, s) PROVE RowsConsistent'
  BY <1>4 DEF FinishCommit, Write, RowsConsistent, StoreTypeOK, Terminal
<1>5. ASSUME NEW j \in Jobs, NEW v \in 1 .. version[j], Acknowledge(j, v) PROVE RowsConsistent'
  BY <1>5 DEF Acknowledge, RowsConsistent, StoreTypeOK, Terminal
<1>6. CASE RecoverInterrupted
  BY <1>6 DEF RecoverInterrupted, Running, InState, Write, RowsConsistent, StoreTypeOK, Terminal
<1>7. CASE CancelQueued
  BY <1>7 DEF CancelQueued, Queued, InState, Write, RowsConsistent, StoreTypeOK, Terminal
<1>8. CASE UNCHANGED storeVars
  BY <1>8 DEF storeVars, RowsConsistent
<1> QED
  BY <1>1, <1>2, <1>3, <1>4, <1>5, <1>6, <1>7, <1>8
     DEF StoreNext, AdmitRefused, Finish, FinishRepeated

\* The version column identifies the content of a row, and only finished jobs
\* are cleaned: what makes sqlite.go's Acknowledge safe.
THEOREM StoreConsistent == StoreSpec => []RowsConsistent
<1>1. StoreInit => RowsConsistent
  BY DEF StoreInit, RowsConsistent, Terminal
<1>2. StoreTypeOK /\ RowsConsistent /\ [StoreNext]_storeVars => RowsConsistent'
  BY StepConsistent
<1> QED
  BY <1>1, <1>2, StoreTypeCorrect, PTL DEF StoreSpec

(***************************************************************************)
(* The limits.                                                             *)
(***************************************************************************)
\* The rows in one state form a finite set, and so does any part of them.
LEMMA InStateFinite ==
    ASSUME NEW s, StoreTypeOK
    PROVE  IsFiniteSet(InState(s)) /\ Cardinality(InState(s)) \in Nat
<1>1. InState(s) \subseteq Jobs
  BY DEF InState
<1> QED
  BY <1>1, JobsAssumption, FS_Subset, FS_CardinalityType

\* A step that adds no row to a state keeps any bound on their number.
LEMMA SubsetKeepsBound ==
    ASSUME NEW s, NEW n \in Nat, StoreTypeOK,
           Cardinality(InState(s)) =< n,
           InState(s)' \subseteq InState(s)
    PROVE  Cardinality(InState(s))' =< n
<1>1. Cardinality(InState(s)') =< Cardinality(InState(s)) /\ Cardinality(InState(s)') \in Nat
  BY InStateFinite, FS_Subset, FS_CardinalityType
<1> QED
  BY <1>1, InStateFinite

\* A step that adds one row below the limit reaches at most the limit.
LEMMA OneMoreKeepsBound ==
    ASSUME NEW s, NEW n \in Nat, NEW j, StoreTypeOK,
           Cardinality(InState(s)) < n,
           InState(s)' \subseteq InState(s) \cup {j}
    PROVE  Cardinality(InState(s))' =< n
<1>1. /\ IsFiniteSet(InState(s) \cup {j})
      /\ Cardinality(InState(s) \cup {j}) =< Cardinality(InState(s)) + 1
  BY InStateFinite, FS_AddElement
<1>2. Cardinality(InState(s)') =< Cardinality(InState(s) \cup {j})
  BY <1>1, FS_Subset
<1>3. Cardinality(InState(s)') \in Nat /\ Cardinality(InState(s) \cup {j}) \in Nat
  BY <1>1, FS_Subset, FS_CardinalityType
<1> QED
  BY <1>1, <1>2, <1>3, InStateFinite

\* Every operation keeps both limits: only Admit adds a queued row and only
\* Claim a running one, each below its limit.
LEMMA StepWithinLimits ==
    ASSUME StoreTypeOK, WithinLimits, [StoreNext]_storeVars
    PROVE  WithinLimits'
<1> DEFINE Shrinks(s) == InState(s)' \subseteq InState(s)
<1> USE LimitsAssumption
<1>1. ASSUME Shrinks("queued"), Shrinks("running") PROVE WithinLimits'
  BY <1>1, SubsetKeepsBound DEF WithinLimits, Queued, Running
<1>2. ASSUME NEW j \in Jobs, Admit(j) PROVE WithinLimits'
  <2>1. InState("queued")' \subseteq InState("queued") \cup {j} /\ Shrinks("running")
    BY <1>2 DEF Admit, Write, InState, StoreTypeOK
  <2> QED
    BY <1>2, <2>1, OneMoreKeepsBound, SubsetKeepsBound
       DEF WithinLimits, Queued, Running, Admit
<1>3. ASSUME NEW j \in Jobs, Claim(j) PROVE WithinLimits'
  <2>1. InState("running")' \subseteq InState("running") \cup {j} /\ Shrinks("queued")
    BY <1>3 DEF Claim, Write, InState, StoreTypeOK
  <2> QED
    BY <1>3, <2>1, OneMoreKeepsBound, SubsetKeepsBound
       DEF WithinLimits, Queued, Running, Claim
<1>4. ASSUME NEW js, NEW s \in Terminal, NEW m, Write(js, s, m) PROVE WithinLimits'
  BY <1>1, <1>4 DEF Write, InState, StoreTypeOK, Terminal
<1>5. ASSUME UNCHANGED state PROVE WithinLimits'
  BY <1>1, <1>5 DEF InState
<1> QED
  BY <1>2, <1>3, <1>4, <1>5
     DEF StoreNext, storeVars, AdmitRefused, Finish, FinishCommit, FinishRepeated,
         Acknowledge, MarkCleaned, RecoverInterrupted, CancelQueued, Terminal

\* max_queued and max_parallel hold for any clients of the job table, the
\* claim of the comments in sqlite.go's Admit and Claim.
THEOREM StoreWithinLimits == StoreSpec => []WithinLimits
<1>1. StoreInit => WithinLimits
  <2> SUFFICES ASSUME StoreInit PROVE WithinLimits
    OBVIOUS
  <2>1. Queued = {} /\ Running = {}
    BY DEF StoreInit, Queued, Running, InState
  <2> QED
    BY <2>1, FS_EmptySet, LimitsAssumption DEF WithinLimits
<1>2. StoreTypeOK /\ WithinLimits /\ [StoreNext]_storeVars => WithinLimits'
  BY StepWithinLimits
<1> QED
  BY <1>1, <1>2, StoreTypeCorrect, PTL DEF StoreSpec

(***************************************************************************)
(* What a step may do to a row.                                            *)
(***************************************************************************)
\* Every operation moves a row forward or leaves what it says alone.
LEMMA StepMovesForward ==
    ASSUME StoreTypeOK, StoreNext, NEW k \in Jobs
    PROVE  LegalMove(k)
<1>1. ASSUME NEW j \in Jobs, Admit(j) PROVE LegalMove(k)
  BY <1>1 DEF Admit, Write, LegalMove, StoreTypeOK
<1>2. ASSUME NEW j \in Jobs, Claim(j) PROVE LegalMove(k)
  BY <1>2 DEF Claim, IsOldestQueued, Queued, InState, Write, LegalMove, StoreTypeOK
<1>3. ASSUME NEW j \in Jobs, NEW s \in Terminal, FinishCommit(j, s) PROVE LegalMove(k)
  BY <1>3 DEF FinishCommit, Write, LegalMove, StoreTypeOK
<1>4. CASE RecoverInterrupted
  BY <1>4 DEF RecoverInterrupted, Running, InState, Write, LegalMove, StoreTypeOK, Terminal
<1>5. CASE CancelQueued
  BY <1>5 DEF CancelQueued, Queued, InState, Write, LegalMove, StoreTypeOK
<1>6. ASSUME UNCHANGED <<state, message, version>> PROVE LegalMove(k)
  BY <1>6 DEF LegalMove
<1> QED
  BY <1>1, <1>2, <1>3, <1>4, <1>5, <1>6
     DEF StoreNext, storeVars, AdmitRefused, Finish, FinishRepeated, Acknowledge, MarkCleaned

\* A write raises the version of its rows and ends their report; nothing else touches either.
LEMMA StepWritesRow ==
    ASSUME StoreTypeOK, StoreNext, NEW k \in Jobs
    PROVE  \/ state'[k] = state[k] /\ version'[k] = version[k]
           \/ version'[k] = version[k] + 1 /\ k \notin reported'
<1>1. ASSUME NEW js, NEW s, NEW m, Write(js, s, m)
      PROVE  \/ state'[k] = state[k] /\ version'[k] = version[k]
             \/ version'[k] = version[k] + 1 /\ k \notin reported'
  BY <1>1 DEF Write
<1>2. CASE UNCHANGED <<state, version>>
  BY <1>2
<1> QED
  BY <1>1, <1>2
     DEF StoreNext, storeVars, Admit, AdmitRefused, Claim, Finish, FinishCommit, FinishRepeated,
         Acknowledge, MarkCleaned, RecoverInterrupted, CancelQueued

\* One commit runs at most once and a verdict is final, for any clients.
THEOREM StoreMovesForward == StoreSpec => RowsMoveForward
<1>1. StoreTypeOK /\ [StoreNext]_storeVars => [\A j \in Jobs : LegalMove(j)]_storeVars
  BY StepMovesForward
<1> QED
  BY <1>1, StoreTypeCorrect, PTL DEF StoreSpec, RowsMoveForward

\* Only Claim starts a job, and it takes the oldest.
LEMMA StepOldestFirst ==
    ASSUME StoreTypeOK, StoreNext, NEW j \in Jobs, NEW k \in Jobs,
           state[j] = "queued", state'[j] = "running", state'[k] = "queued"
    PROVE  j < k
<1>1. PICK i \in Jobs : Claim(i)
  BY DEF StoreNext, Admit, AdmitRefused, Finish, FinishCommit, FinishRepeated, MarkCleaned,
         Acknowledge, RecoverInterrupted, CancelQueued, Write, StoreTypeOK, storeVars, Terminal
<1>2. i = j /\ j # k /\ k \in Queued
  BY <1>1 DEF Claim, Write, IsOldestQueued, Queued, InState, StoreTypeOK
<1>3. j =< k
  BY <1>1, <1>2 DEF Claim, IsOldestQueued
<1> QED
  BY <1>2, <1>3, JobsAssumption

\* The queue is first in, first out for any clients.
THEOREM StoreOldestFirst == StoreSpec => OldestFirst
<1>1. StoreTypeOK /\ [StoreNext]_storeVars =>
        [\A j, k \in Jobs :
           (state[j] = "queued" /\ state'[j] = "running" /\ state'[k] = "queued")
              => j < k]_storeVars
  BY StepOldestFirst
<1> QED
  BY <1>1, StoreTypeCorrect, PTL DEF StoreSpec, OldestFirst
=============================================================================
