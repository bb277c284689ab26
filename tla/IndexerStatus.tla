---------------------------- MODULE IndexerStatus ----------------------------
(***************************************************************************)
(* The status tracking of the indexer's TransactionProcessor              *)
(* (ecosystem/indexer/src/indexer/transaction_processor.rs): async tasks  *)
(* run process_transaction_with_status on versions, each writing a         *)
(* "started" row before processing and an ok or err row after it, every    *)
(* write an upsert keyed by (processor, version) over a connection taken   *)
(* from a bounded pool by get_conn, which retries until it gets one.       *)
(*                                                                         *)
(* One processor name is modelled; status[v] is its row for version v.     *)
(* The row's success column is true only for an ok row: the started and   *)
(* err rows are what get_error_versions reports.  Which version a task     *)
(* takes is the tailer's choice, outside this repository: here an error    *)
(* version or the next version above get_max_version, not already being   *)
(* processed.  The whole indexer may crash; the table survives it.         *)
(* The history variable processed records the versions process_transaction *)
(* has run on; no action reads it.                                          *)
(***************************************************************************)
EXTENDS Naturals, FiniteSets

CONSTANTS
    Tasks,          \* concurrent processing tasks
    MaxVersion,     \* versions are 1..MaxVersion
    PoolSize,       \* connections in the PgDbPool
    MaxCrashes      \* bound on indexer crashes

ASSUME IndexerAssumption ==
    /\ IsFiniteSet(Tasks)
    /\ MaxVersion \in Nat /\ PoolSize \in Nat \ {0} /\ MaxCrashes \in Nat

Versions == 1..MaxVersion

VARIABLES
    status,     \* status[v]: the processor_statuses row of version v
    task,       \* task[t]: where task t is in process_transaction_with_status
    free,       \* connections idle in the pool
    crashes,    \* crashes so far
    processed   \* history: versions process_transaction has returned on

vars == <<status, task, free, crashes, processed>>

Row == {"none", "started", "ok", "err"}

\* pc: waiting in get_conn for the started row (markConn) or the final row
\* (finalConn), holding a connection for that upsert (markWrite,
\* finalWrite), in process_transaction (process), idle, or dead after a
\* panic of `.expect("Error updating Processor Status!")`.
TaskState ==
    [pc : {"idle", "markConn", "markWrite", "process", "finalConn",
           "finalWrite", "dead"},
     v : 0..MaxVersion, res : {"none", "ok", "err"}]

IdleTask == [pc |-> "idle", v |-> 0, res |-> "none"]

Busy(t) == task[t].pc \notin {"idle", "dead"}

\* The tasks holding a connection taken by get_conn.
Holders == {t \in Tasks : task[t].pc \in {"markWrite", "finalWrite"}}

InFlight == {task[t].v : t \in {u \in Tasks : Busy(u)}}

\* Mutation of ErrorVersions: only err rows count as failed (the query
\* filtering on the error rows rather than on success = false).
ErrorVersionsErrOnly == {v \in Versions : status[v] = "err"}

\* get_error_versions: the versions whose row has success = false.
ErrorVersions == {v \in Versions : status[v] \in {"started", "err"}}

\* get_max_version, None read as 0.
MaxRecorded ==
    IF \A v \in Versions : status[v] = "none" THEN 0
    ELSE CHOOSE m \in Versions : status[m] # "none" /\
                                 \A v \in Versions : status[v] # "none" => v <= m

Init ==
    /\ status = [v \in Versions |-> "none"]
    /\ task = [t \in Tasks |-> IdleTask]
    /\ free = PoolSize
    /\ crashes = 0
    /\ processed = {}

\* process_transaction_with_status(v) starts: mark_version_started(v) asks
\* for a connection.
Dispatch(t, v) ==
    /\ task[t].pc = "idle"
    /\ v \in (ErrorVersions \cup {MaxRecorded + 1}) \cap Versions
    /\ v \notin InFlight
    /\ task' = [task EXCEPT ![t] = [pc |-> "markConn", v |-> v, res |-> "none"]]
    /\ UNCHANGED <<status, free, crashes, processed>>

\* get_conn: pool.get() hands out an idle connection.  While none is idle
\* it fails after its timeout and the loop retries, changing nothing: the
\* task waits here.
GetConn(t) ==
    /\ task[t].pc \in {"markConn", "finalConn"}
    /\ free > 0
    /\ free' = free - 1
    /\ task' = [task EXCEPT ![t].pc =
                   IF @ = "markConn" THEN "markWrite" ELSE "finalWrite"]
    /\ UNCHANGED <<status, crashes, processed>>

\* apply_processor_status: the upsert of the started row
\* (mark_version_started) or of the ok or err row (update_status_ok,
\* update_status_err) lands; the connection goes back to the pool.
Upsert(t) ==
    LET s == task[t]
    IN /\ s.pc \in {"markWrite", "finalWrite"}
       /\ status' = [status EXCEPT ![s.v] =
                        IF s.pc = "markWrite" THEN "started" ELSE s.res]
       /\ free' = free + 1
       /\ task' = [task EXCEPT ![t].pc =
                      IF s.pc = "markWrite" THEN "process" ELSE "idle"]
       /\ UNCHANGED <<crashes, processed>>

\* The upsert fails: `.expect` panics, the task unwinds (dropping, and so
\* returning, its connection) and is gone.
UpsertFails(t) ==
    /\ task[t].pc \in {"markWrite", "finalWrite"}
    /\ free' = free + 1
    /\ task' = [task EXCEPT ![t].pc = "dead"]
    /\ UNCHANGED <<status, crashes, processed>>

\* process_transaction returns Ok or Err; the matching status update asks
\* for a connection.
Process(t, r) ==
    /\ task[t].pc = "process"
    /\ task' = [task EXCEPT ![t].pc = "finalConn", ![t].res = r]
    /\ processed' = processed \cup {task[t].v}
    /\ UNCHANGED <<status, free, crashes>>

\* The indexer process dies and restarts: every task and connection is
\* gone, the rows stay.
Crash ==
    /\ crashes < MaxCrashes
    /\ task' = [t \in Tasks |-> IdleTask]
    /\ free' = PoolSize
    /\ crashes' = crashes + 1
    /\ UNCHANGED <<status, processed>>

Next ==
    \/ \E t \in Tasks, v \in Versions : Dispatch(t, v)
    \/ \E t \in Tasks : GetConn(t) \/ Upsert(t) \/ UpsertFails(t)
    \/ \E t \in Tasks, r \in {"ok", "err"} : Process(t, r)
    \/ Crash

Spec == Init /\ [][Next]_vars

\* Every type is kept.
TypeOK ==
    /\ status \in [Versions -> Row]
    /\ task \in [Tasks -> TaskState]
    /\ free \in 0..PoolSize
    /\ crashes \in 0..MaxCrashes
    /\ processed \subseteq Versions

\* No processing is lost to a panic or a crash: every version that
\* process_transaction has run on is either recorded ok or reported by
\* get_error_versions for a retry, whatever upserts failed, whatever the
\* indexer crashed in the middle of, and whatever later attempts on it
\* wrote.  It rests on mark_version_started writing its row before
\* processing begins and on the final upsert writing the processing result.
ProcessedRecoverable ==
    \A v \in processed : status[v] = "ok" \/ v \in ErrorVersions
=============================================================================
