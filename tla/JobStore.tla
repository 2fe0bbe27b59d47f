------------------------------ MODULE JobStore ------------------------------
(***************************************************************************)
(* The durable job table of the CI server: the jobStore contract of        *)
(* cmd/ci/store.go as cmd/ci/sqlite.go implements it.  Every operation is   *)
(* one SQL statement, hence one action.  The specification lets any number *)
(* of clients call any operation in any order: what it satisfies, the      *)
(* table guarantees by itself, whatever its callers do.                    *)
(*                                                                         *)
(* A job identifier is hash(repository, SHA), so it names at most one row. *)
(* Identifiers are numbers, ordered the way the table orders rows: by      *)
(* (created_at, id).  Rows are admitted in any order, because created_at   *)
(* is read before the insert and the clock may step.                       *)
(***************************************************************************)
EXTENDS Integers, FiniteSets

CONSTANTS
    Jobs,          \* identifiers a webhook may ask for
    MaxQueued,     \* config max_queued
    MaxParallel    \* config max_parallel

ASSUME JobsAssumption == Jobs \subseteq Nat /\ IsFiniteSet(Jobs)
ASSUME LimitsAssumption == MaxQueued \in Nat \ {0} /\ MaxParallel \in Nat \ {0}

VARIABLES
    state,      \* [Jobs -> column state], "absent" where there is no row
    message,    \* [Jobs -> column message], by who wrote it
    reported,   \* the rows with reported = 1
    cleaned,    \* the rows with cleaned = 1
    version     \* [Jobs -> column version], 0 where there is no row

storeVars == <<state, message, reported, cleaned, version>>

(***************************************************************************)
(* Columns.                                                                *)
(***************************************************************************)
Terminal == {"success", "failure", "error"}
States   == {"absent", "queued", "running"} \cup Terminal
\* The texts the properties tell apart: who gave the row its present state.
Messages == {"none", "waiting", "building", "outcome", "interrupted", "stopped"}

InState(s) == {j \in Jobs : state[j] = s}
Queued     == InState("queued")
Running    == InState("running")

\* SELECT ... WHERE state='queued' ORDER BY created_at,id LIMIT 1
IsOldestQueued(j) == j \in Queued /\ \A k \in Queued : j =< k

\* SELECT ... WHERE reported=0 OR cleaned=0
Unsettled == {j \in Jobs : state[j] # "absent" /\ ~(j \in reported /\ j \in cleaned)}

(***************************************************************************)
(* Operations.  An operator named Faulty... is a way the operation after   *)
(* it could be wrong; it is no part of the specification and only serves   *)
(* to show that a property would notice.                                   *)
(***************************************************************************)
StoreInit ==
    /\ state = [j \in Jobs |-> "absent"]
    /\ message = [j \in Jobs |-> "none"]
    /\ version = [j \in Jobs |-> 0]
    /\ reported = {}
    /\ cleaned = {}

\* The statement forgets reported=0.
FaultyWriteStaysReported(js, s, m) ==
    /\ state'    = [j \in Jobs |-> IF j \in js THEN s ELSE state[j]]
    /\ message'  = [j \in Jobs |-> IF j \in js THEN m ELSE message[j]]
    /\ version'  = [j \in Jobs |-> IF j \in js THEN version[j] + 1 ELSE version[j]]
    /\ UNCHANGED <<reported, cleaned>>

\* The UPDATE shared by every change of state: reported=0, version=version+1.
Write(js, s, m) ==
    /\ state'    = [j \in Jobs |-> IF j \in js THEN s ELSE state[j]]
    /\ message'  = [j \in Jobs |-> IF j \in js THEN m ELSE message[j]]
    /\ version'  = [j \in Jobs |-> IF j \in js THEN version[j] + 1 ELSE version[j]]
    /\ reported' = reported \ js
    /\ UNCHANGED cleaned

\* INSERT ... WHERE (count of queued) < max ON CONFLICT(id) DO NOTHING.
Admit(j) ==
    /\ state[j] = "absent"
    /\ Cardinality(Queued) < MaxQueued
    /\ Write({j}, "queued", "waiting")

\* The same statement changing no row: a redelivery, or a full queue.
AdmitRefused(j) ==
    /\ state[j] # "absent" \/ Cardinality(Queued) >= MaxQueued
    /\ UNCHANGED storeVars

Claim(j) ==
    /\ IsOldestQueued(j)
    /\ Cardinality(Running) < MaxParallel
    /\ Write({j}, "running", "building")

\* The statement forgets AND state='running'.
FaultyFinishAgain(j, s) ==
    /\ state[j] # "absent"
    /\ Write({j}, s, "outcome")

\* UPDATE ... WHERE id AND state='running': the first call that reaches the row.
FinishCommit(j, s) ==
    /\ state[j] = "running"
    /\ Write({j}, s, "outcome")

\* No row changed, but the row already says what the caller wants to say.
FinishRepeated(j, s) ==
    /\ state[j] = s
    /\ message[j] = "outcome"
    /\ UNCHANGED storeVars

Finish(j, s) == FinishCommit(j, s) \/ FinishRepeated(j, s)

\* WHERE id=? without the version.
FaultyAcknowledgeAny(j, v) ==
    /\ reported' = reported \cup {j}
    /\ UNCHANGED <<state, message, cleaned, version>>

Acknowledge(j, v) ==
    /\ reported' = IF version[j] = v THEN reported \cup {j} ELSE reported
    /\ UNCHANGED <<state, message, cleaned, version>>

MarkCleaned(j) ==
    /\ cleaned' = IF state[j] \in Terminal THEN cleaned \cup {j} ELSE cleaned
    /\ UNCHANGED <<state, message, reported, version>>

\* The statement forgets version=version+1.
FaultyRecoverSameVersion ==
    /\ state'   = [j \in Jobs |-> IF j \in Running THEN "error" ELSE state[j]]
    /\ message' = [j \in Jobs |-> IF j \in Running THEN "interrupted" ELSE message[j]]
    /\ reported' = reported \ Running
    /\ UNCHANGED <<cleaned, version>>

RecoverInterrupted == Write(Running, "error", "interrupted")

CancelQueued == Write(Queued, "error", "stopped")

(***************************************************************************)
(* The table under any clients.  Acknowledge names a version its caller    *)
(* has read, so one the row has or had.                                    *)
(***************************************************************************)
StoreNext ==
    \/ \E j \in Jobs : Admit(j) \/ AdmitRefused(j) \/ Claim(j) \/ MarkCleaned(j)
    \/ \E j \in Jobs : \E s \in Terminal : Finish(j, s)
    \/ \E j \in Jobs : \E v \in 1 .. version[j] : Acknowledge(j, v)
    \/ RecoverInterrupted
    \/ CancelQueued

StoreSpec == StoreInit /\ [][StoreNext]_storeVars

(***************************************************************************)
(* What the table promises.                                                *)
(***************************************************************************)
\* Every column of the job table holds one of its values.
StoreTypeOK ==
    /\ state \in [Jobs -> States]
    /\ message \in [Jobs -> Messages]
    /\ version \in [Jobs -> Nat]
    /\ reported \subseteq Jobs
    /\ cleaned \subseteq Jobs

\* However many callers race, the two limits of the configuration hold: the
\* count and the write are one statement of sqlite.go in Admit and in Claim.
WithinLimits ==
    /\ Cardinality(Queued) =< MaxQueued
    /\ Cardinality(Running) =< MaxParallel

\* The columns agree.  A version number identifies what a row says: 1 while it
\* is queued, 2 while it runs (or once it was cancelled in the queue), 3 after it
\* has run, so that acknowledging the version that was sent acknowledges that
\* content.  Only a finished job is cleaned.
RowsConsistent ==
    \A j \in Jobs :
        /\ (version[j] = 0) <=> (state[j] = "absent")
        /\ (version[j] = 1) <=> (state[j] = "queued")
        /\ state[j] = "running" => version[j] = 2
        /\ state[j] \in Terminal => version[j] \in {2, 3}
        /\ (state[j] \in Terminal /\ version[j] = 2) => message[j] = "stopped"
        /\ j \in reported => state[j] # "absent"
        /\ j \in cleaned => state[j] \in Terminal

\* The legal moves of a row: a job is queued once, runs at most once, and a
\* finished row never says anything else again, in state or in message.
LegalMove(j) ==
    \/ state'[j] = state[j] /\ message'[j] = message[j] /\ version'[j] = version[j]
    \/ state[j] = "absent" /\ state'[j] = "queued"
    \/ state[j] = "queued" /\ state'[j] \in {"running", "error"}
    \/ state[j] = "running" /\ state'[j] \in Terminal
RowsMoveForward == [][\A j \in Jobs : LegalMove(j)]_storeVars

\* The queue is first in, first out: a job that starts to run leaves nobody
\* waiting that was created before it.
OldestFirst ==
    [][\A j, k \in Jobs :
         (state[j] = "queued" /\ state'[j] = "running" /\ state'[k] = "queued")
            => j < k]_storeVars
=============================================================================
