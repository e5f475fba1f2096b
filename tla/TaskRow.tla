------------------------------- MODULE TaskRow -------------------------------
(***************************************************************************)
(* One row of the table outbox_tasks (models.py, class OutboxTask) and the *)
(* assignments that the functions of tasks.py make to it.  Every operator  *)
(* here is a function of the row as one database session has loaded it;    *)
(* which session applies it, and when, is the business of Outbox.          *)
(*                                                                         *)
(* The two timestamps are kept only as far as claim_task compares them     *)
(* with the clock: due is available_at <= now, and locked says whether     *)
(* locked_at is NULL, recent, or older than task_lock_timeout_seconds.     *)
(*                                                                         *)
(* A definition marked "faulty" is the one after it with a bug planted in  *)
(* it; no specification uses it.  The README tells which property of which *)
(* run notices the bug.                                                    *)
(***************************************************************************)
EXTENDS Naturals

CONSTANTS MaxAttempts,   \* the setting task_max_attempts
          Leases,        \* the values uuid4() may give a lease
          NoLease        \* lease_token IS NULL

ASSUME MaxAttemptsAssumption == MaxAttempts \in Nat \ {0}
ASSUME NoLeaseAssumption == NoLease \notin Leases

TaskStatus == {"pending", "processing", "done", "dead"}

\* "none" is the status of a row that has not been inserted.
Row == [status   : TaskStatus \cup {"none"},
        attempts : Nat,
        rerun    : BOOLEAN,
        due      : {"now", "later"},
        locked   : {"null", "fresh", "stale"},
        lease    : Leases \cup {NoLease}]

\* A session that has loaded a row never compares available_at with anything:
\* "asis" in its copy means that the column has not been assigned.
LoadedRow == [status   : TaskStatus \cup {"none"},
              attempts : Nat,
              rerun    : BOOLEAN,
              due      : {"now", "later", "asis"},
              locked   : {"null", "fresh", "stale"},
              lease    : Leases \cup {NoLease}]

NoRow == [status |-> "none", attempts |-> 0, rerun |-> FALSE,
          due |-> "now", locked |-> "null", lease |-> NoLease]

\* add_task inserts with the column defaults.
NewRow == [NoRow EXCEPT !.status = "pending"]

Exists(row) == row.status # "none"

\* Faulty: tasks of crashed workers are never claimed.
ClaimablePendingOnly(row) == row.status = "pending" /\ row.due = "now"

\* Faulty: the age of the lock is not compared.
ClaimableAnyLock(row) ==
    \/ row.status = "pending" /\ row.due = "now"
    \/ row.status = "processing"

(* The WHERE clause of claim_task, and the UPDATE it guards. *)
Claimable(row) ==
    \/ row.status = "pending" /\ row.due = "now"
    \/ row.status = "processing" /\ row.locked = "stale"

Claimed(row, lease) ==
    [row EXCEPT !.status = "processing", !.locked = "fresh", !.lease = lease]

(* The condition under which renew_task_lease, complete_task and fail_task *)
(* find the row.  With no token the lease is not compared.                 *)
OwnedBy(row, lease) ==
    /\ row.status = "processing"
    /\ lease \in {NoLease, row.lease}

Renewed(row) == [row EXCEPT !.locked = "fresh"]

Loaded(row) == [row EXCEPT !.due = "asis"]

Released(row) == [row EXCEPT !.locked = "null", !.lease = NoLease]

Completed(row, kind) ==
    IF kind = "sync" /\ row.rerun
    THEN [Released(row) EXCEPT !.status = "pending", !.due = "now", !.rerun = FALSE]
    ELSE [Released(row) EXCEPT !.status = "done"]

\* Faulty: one attempt too many.
ExhaustedLate(row) == row.attempts + 1 > MaxAttempts

Exhausted(row) == row.attempts + 1 >= MaxAttempts

\* Faulty: a retry keeps the status and only clears the lock.
FailedStillProcessing(row) ==
    IF Exhausted(row)
    THEN [Released(row) EXCEPT !.attempts = @ + 1, !.status = "dead"]
    ELSE [Released(row) EXCEPT !.attempts = @ + 1, !.due = "later"]

Failed(row) ==
    IF Exhausted(row)
    THEN [Released(row) EXCEPT !.attempts = @ + 1, !.status = "dead"]
    ELSE [Released(row) EXCEPT !.attempts = @ + 1, !.status = "pending", !.due = "later"]

\* replay_task starts a dead task over; it leaves rerun_requested as it is.
Replayed(row) ==
    [Released(row) EXCEPT !.status = "pending", !.attempts = 0, !.due = "now"]

\* Faulty: a task that is being executed is started over at once.
ReactivatedAlways(row) ==
    IF row.status = "pending" THEN row ELSE [Replayed(row) EXCEPT !.rerun = FALSE]

\* create_sync_task on a row that exists.
Reactivated(row) ==
    CASE row.status = "processing"        -> [row EXCEPT !.rerun = TRUE]
      [] row.status \in {"done", "dead"}  -> [Replayed(row) EXCEPT !.rerun = FALSE]
      [] OTHER                            -> row

\* Faulty: the whole row is written back as the session holds it.
FlushWhole(row, seen, new) == new

(***************************************************************************)
(* db.commit() of a session that loaded the row as seen and assigned new.  *)
(* The UPDATE is keyed by the primary key alone and carries only the       *)
(* columns whose value differs from the one that was loaded, so what other *)
(* sessions committed to the remaining columns in between survives.        *)
(***************************************************************************)
Flush(row, seen, new) ==
    [status   |-> IF new.status = seen.status THEN row.status ELSE new.status,
     attempts |-> IF new.attempts = seen.attempts THEN row.attempts ELSE new.attempts,
     rerun    |-> IF new.rerun = seen.rerun THEN row.rerun ELSE new.rerun,
     due      |-> IF new.due = "asis" THEN row.due ELSE new.due,
     locked   |-> IF new.locked = seen.locked THEN row.locked ELSE new.locked,
     lease    |-> IF new.lease = seen.lease THEN row.lease ELSE new.lease]

=============================================================================
