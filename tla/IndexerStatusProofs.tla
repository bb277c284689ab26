-------------------------- MODULE IndexerStatusProofs --------------------------
(***************************************************************************)
(* Proof that no processing of the indexer is lost to a panic or a crash, *)
(* for any number of tasks, pool size, versions and crashes.               *)
(*                                                                         *)
(* ProcessedRecoverable is not inductive by itself: a task that has run    *)
(* process_transaction and waits for its final upsert must already have a  *)
(* row for its version, or a crash at that point would leave a processed   *)
(* version with no row.  RowWritten says so for every task past            *)
(* mark_version_started, and ResultKnown says that the final upsert writes *)
(* a processing result, never "none".  Rows are never deleted: every       *)
(* upsert writes "started", "ok" or "err", so a version that has a row     *)
(* keeps one.  The type invariant bounds the idle connections by the     *)
(* pool's size, which needs the pool's bookkeeping PoolCount: idle and     *)
(* held connections add up to PoolSize.                                    *)
(***************************************************************************)
EXTENDS IndexerStatus, FiniteSetTheorems, TLAPS

\* Idle connections and those held by tasks between get_conn and the end of
\* their upsert are the pool's PoolSize.
PoolCount == free + Cardinality(Holders) = PoolSize

\* Every version processed so far has a row.
ProcessedHaveRows == \A v \in processed : status[v] # "none"

\* A task that has marked its version started, and has not finished, finds
\* that version's row in the table.
RowWritten ==
    \A t \in Tasks :
        task[t].pc \in {"process", "finalConn", "finalWrite"} =>
            task[t].v \in Versions /\ status[task[t].v] # "none"

\* A task waiting for, or doing, its final upsert carries the result of
\* process_transaction.
ResultKnown ==
    \A t \in Tasks :
        task[t].pc \in {"finalConn", "finalWrite"} => task[t].res \in {"ok", "err"}

\* A task waiting for, or doing, its started upsert works on a version.
VersionKnown ==
    \A t \in Tasks : task[t].pc \in {"markConn", "markWrite"} => task[t].v \in Versions

IInv ==
    /\ TypeOK /\ PoolCount
    /\ ProcessedHaveRows /\ RowWritten /\ ResultKnown /\ VersionKnown

\* The part of IInv about the table and the tasks, without the pool.
TableInv == ProcessedHaveRows /\ RowWritten /\ ResultKnown /\ VersionKnown

LEMMA HoldersFinite ==
    ASSUME TypeOK
    PROVE  IsFiniteSet(Holders) /\ Cardinality(Holders) \in Nat
    BY IndexerAssumption, FS_Subset, FS_CardinalityType DEF Holders

\* A task that gives its connection back leaves Holders, which is not empty.
LEMMA HolderLeaves ==
    ASSUME TypeOK, NEW t \in Tasks, t \in Holders, Holders' = Holders \ {t}
    PROVE  /\ Cardinality(Holders') = Cardinality(Holders) - 1
           /\ Cardinality(Holders) >= 1
    <1>1. IsFiniteSet(Holders) /\ Cardinality(Holders) \in Nat
        BY HoldersFinite
    <1>2. Cardinality(Holders) # 0
        BY <1>1, FS_EmptySet
    <1>3. Cardinality(Holders \ {t}) = Cardinality(Holders) - 1
        BY <1>1, FS_RemoveElement
    <1> QED
        BY <1>1, <1>2, <1>3

LEMMA InitIInv == Init => IInv
    <1> SUFFICES ASSUME Init PROVE IInv
        OBVIOUS
    <1>1. Holders = {}
        BY DEF Init, Holders, IdleTask
    <1> QED
        BY <1>1, FS_EmptySet, IndexerAssumption
           DEF Init, IInv, TypeOK, PoolCount, ProcessedHaveRows, RowWritten,
               ResultKnown, VersionKnown, TaskState, IdleTask, Row, Versions

\* Dispatch leaves the table and the pool alone.
LEMMA DispatchIInv ==
    ASSUME IInv, NEW t \in Tasks, NEW v \in Versions, Dispatch(t, v)
    PROVE  IInv'
    <1>1. Holders' = Holders
        BY DEF Dispatch, Holders, IInv, TypeOK
    <1>2. (TypeOK /\ PoolCount)'
        BY <1>1 DEF Dispatch, IInv, TypeOK, PoolCount, TaskState, Versions
    <1>3. TableInv'
        BY DEF Dispatch, IInv, TypeOK, ProcessedHaveRows, RowWritten,
               ResultKnown, VersionKnown, TableInv
    <1> QED
        BY <1>2, <1>3 DEF IInv, TableInv

\* get_conn takes an idle connection.
LEMMA GetConnIInv ==
    ASSUME IInv, NEW t \in Tasks, GetConn(t)
    PROVE  IInv'
    <1>1. t \notin Holders /\ Holders' = Holders \cup {t}
        BY DEF GetConn, Holders, IInv, TypeOK
    <1>2. Cardinality(Holders') = Cardinality(Holders) + 1
        BY <1>1, HoldersFinite, FS_AddElement DEF IInv
    <1>3. (TypeOK /\ PoolCount)'
        BY <1>2, HoldersFinite DEF GetConn, IInv, TypeOK, PoolCount, TaskState
    <1>4. TableInv'
        BY DEF GetConn, IInv, TypeOK, ProcessedHaveRows, RowWritten,
               ResultKnown, VersionKnown, TableInv
    <1> QED
        BY <1>3, <1>4 DEF IInv, TableInv

\* process_transaction runs only after the started row landed, so the
\* version it adds to processed has a row.
LEMMA ProcessIInv ==
    ASSUME IInv, NEW t \in Tasks, NEW r \in {"ok", "err"}, Process(t, r)
    PROVE  IInv'
    <1>1. task[t].v \in Versions /\ status[task[t].v] # "none"
        BY DEF Process, IInv, RowWritten
    <1>2. Holders' = Holders
        BY DEF Process, Holders, IInv, TypeOK
    <1>3. (TypeOK /\ PoolCount)'
        BY <1>1, <1>2 DEF Process, IInv, TypeOK, PoolCount, TaskState
    <1>4. ProcessedHaveRows'
        BY <1>1 DEF Process, IInv, ProcessedHaveRows
    <1>5. (RowWritten /\ ResultKnown /\ VersionKnown)'
        BY <1>1 DEF Process, IInv, TypeOK, RowWritten, ResultKnown, VersionKnown
    <1> QED
        BY <1>3, <1>4, <1>5 DEF IInv

\* An upsert writes "started" or the processing result, so a row never goes
\* back to "none", and returns its connection.
LEMMA UpsertIInv ==
    ASSUME IInv, NEW t \in Tasks, Upsert(t)
    PROVE  IInv'
    <1> DEFINE s == task[t]
               w == IF s.pc = "markWrite" THEN "started" ELSE s.res
    <1>1. /\ s.pc \in {"markWrite", "finalWrite"}
          /\ status' = [status EXCEPT ![s.v] = w]
          /\ task' = [task EXCEPT ![t].pc =
                         IF s.pc = "markWrite" THEN "process" ELSE "idle"]
          /\ free' = free + 1 /\ UNCHANGED <<crashes, processed>>
        BY DEF Upsert
    <1>2. s.v \in Versions /\ w \in {"started", "ok", "err"}
        BY <1>1 DEF IInv, RowWritten, ResultKnown, VersionKnown
    <1>3. \A v \in Versions : status[v] # "none" => status'[v] # "none"
        BY <1>1, <1>2 DEF IInv, TypeOK
    <1>4. status'[s.v] # "none" /\ status' \in [Versions -> Row]
        BY <1>1, <1>2 DEF IInv, TypeOK, Row
    <1>5. t \in Holders /\ Holders' = Holders \ {t}
        BY <1>1 DEF Holders, IInv, TypeOK
    <1>6. (TypeOK /\ PoolCount)'
        <2>1. /\ Cardinality(Holders') = Cardinality(Holders) - 1
              /\ Cardinality(Holders) >= 1 /\ Cardinality(Holders) \in Nat
            BY <1>5, HolderLeaves, HoldersFinite DEF IInv
        <2>2. free' \in 0..PoolSize /\ PoolCount'
            BY <1>1, <2>1, IndexerAssumption DEF IInv, TypeOK, PoolCount
        <2>3. task' \in [Tasks -> TaskState]
            BY <1>1 DEF IInv, TypeOK, TaskState
        <2> QED
            BY <1>1, <1>4, <2>2, <2>3 DEF IInv, TypeOK
    <1>7. ProcessedHaveRows'
        BY <1>1, <1>3 DEF IInv, TypeOK, ProcessedHaveRows
    <1>8. RowWritten'
        BY <1>1, <1>2, <1>3, <1>4 DEF IInv, TypeOK, RowWritten
    <1>9. (ResultKnown /\ VersionKnown)'
        BY <1>1 DEF IInv, TypeOK, ResultKnown, VersionKnown
    <1> QED
        BY <1>6, <1>7, <1>8, <1>9 DEF IInv

\* A failed upsert panics: the table is untouched, the task is gone and its
\* connection is back in the pool.
LEMMA UpsertFailsIInv ==
    ASSUME IInv, NEW t \in Tasks, UpsertFails(t)
    PROVE  IInv'
    <1>1. t \in Holders /\ Holders' = Holders \ {t}
        BY DEF UpsertFails, Holders, IInv, TypeOK
    <1>2. (TypeOK /\ PoolCount)'
        <2>1. /\ Cardinality(Holders') = Cardinality(Holders) - 1
              /\ Cardinality(Holders) >= 1 /\ Cardinality(Holders) \in Nat
            BY <1>1, HolderLeaves, HoldersFinite DEF IInv
        <2>2. free' \in 0..PoolSize /\ PoolCount'
            BY <2>1, IndexerAssumption DEF UpsertFails, IInv, TypeOK, PoolCount
        <2>3. task' \in [Tasks -> TaskState]
            BY DEF UpsertFails, IInv, TypeOK, TaskState
        <2> QED
            BY <2>2, <2>3 DEF UpsertFails, IInv, TypeOK
    <1>3. TableInv'
        BY DEF UpsertFails, IInv, TypeOK, ProcessedHaveRows, RowWritten,
               ResultKnown, VersionKnown, TableInv
    <1> QED
        BY <1>2, <1>3 DEF IInv, TableInv

\* A crash empties every task and refills the pool; rows and the history
\* stay.
LEMMA CrashIInv ==
    ASSUME IInv, Crash
    PROVE  IInv'
    <1>1. Holders' = {}
        BY DEF Crash, Holders, IdleTask
    <1>2. (TypeOK /\ PoolCount)'
        <2>1. PoolCount'
            <3>1. Cardinality(Holders') = 0
                BY <1>1, FS_EmptySet
            <3>2. free' = PoolSize
                BY DEF Crash
            <3> QED
                BY <3>1, <3>2, IndexerAssumption DEF PoolCount
        <2>2. IdleTask \in TaskState
            BY IndexerAssumption DEF IdleTask, TaskState
        <2>3. crashes' \in 0..MaxCrashes /\ free' \in 0..PoolSize
            BY IndexerAssumption DEF Crash, IInv, TypeOK
        <2> QED
            BY <2>1, <2>2, <2>3 DEF Crash, IInv, TypeOK
    <1>3. TableInv'
        BY DEF Crash, IInv, ProcessedHaveRows, RowWritten, ResultKnown,
               VersionKnown, IdleTask, TableInv
    <1> QED
        BY <1>2, <1>3 DEF IInv, TableInv

LEMMA NextIInv == IInv /\ [Next]_vars => IInv'
    <1> SUFFICES ASSUME IInv, [Next]_vars PROVE IInv'
        OBVIOUS
    <1>1. CASE UNCHANGED vars
        <2>1. Holders' = Holders
            BY <1>1 DEF vars, Holders
        <2> QED
            BY <1>1, <2>1
               DEF vars, IInv, TypeOK, PoolCount, ProcessedHaveRows,
                   RowWritten, ResultKnown, VersionKnown
    <1> QED
        BY <1>1, DispatchIInv, GetConnIInv, UpsertIInv, UpsertFailsIInv,
           ProcessIInv, CrashIInv DEF Next

\* Whatever tasks panic on a failed upsert and wherever the indexer
\* crashes, every version process_transaction has run on is recorded ok or
\* reported by get_error_versions, for every number of tasks, pool size,
\* versions and crashes.
THEOREM ProcessedRecoverableInvariant == Spec => []ProcessedRecoverable
    <1>1. IInv => ProcessedRecoverable
        BY DEF IInv, TypeOK, ProcessedHaveRows, ProcessedRecoverable,
               ErrorVersions, Row
    <1>2. Spec => []IInv
        BY InitIInv, NextIInv, PTL DEF Spec
    <1> QED
        BY <1>1, <1>2, PTL
=============================================================================
