---------------------------- MODULE OutboxProofs ----------------------------
(***************************************************************************)
(* Theorems about Outbox, for every set of messages, accounts, workers and *)
(* administrators and every limit on attempts.                             *)
(***************************************************************************)
EXTENDS Outbox, TLAPS

(* What the operators of TaskRow return.                                   *)

LEMMA RowTypes ==
    /\ NoRow \in Row /\ NewRow \in Row /\ NoRow \in LoadedRow
    /\ \A r \in Row : Loaded(r) \in LoadedRow /\ Renewed(r) \in Row
    /\ \A r \in Row, l \in Leases : Claimed(r, l) \in Row
  BY NoLeaseAssumption
     DEF NoRow, NewRow, Row, LoadedRow, Loaded, Renewed, Claimed, TaskStatus

LEMMA ReleasedRow ==
    ASSUME NEW r \in LoadedRow
    PROVE  /\ Released(r) \in LoadedRow
           /\ Released(r).status = r.status
           /\ Released(r).attempts = r.attempts
           /\ Released(r).rerun = r.rerun
           /\ Released(r).locked = "null"
           /\ Released(r).lease = NoLease
  BY DEF LoadedRow, Released, TaskStatus

LEMMA LoadedTypes ==
    ASSUME NEW r \in LoadedRow, NEW kind
    PROVE  /\ Completed(r, kind) \in LoadedRow
           /\ Failed(r) \in LoadedRow
           /\ Replayed(r) \in LoadedRow
           /\ Reactivated(r) \in LoadedRow
  <1>1. Completed(r, kind) \in LoadedRow
    <2> DEFINE s == [Released(r) EXCEPT !.status = "pending", !.due = "now"]
    <2>1. s \in LoadedRow
      BY ReleasedRow DEF LoadedRow, TaskStatus
    <2>2. \/ Completed(r, kind) = [s EXCEPT !.rerun = FALSE]
          \/ Completed(r, kind) = [Released(r) EXCEPT !.status = "done"]
      BY ReleasedRow DEF Completed, LoadedRow
    <2>3. CASE Completed(r, kind) = [s EXCEPT !.rerun = FALSE]
      BY <2>1, <2>3 DEF LoadedRow
    <2>4. CASE Completed(r, kind) = [Released(r) EXCEPT !.status = "done"]
      BY <2>4, ReleasedRow DEF LoadedRow, TaskStatus
    <2> QED
      BY <2>2, <2>3, <2>4
  <1>2. Failed(r) \in LoadedRow
    <2>1. r.attempts + 1 \in Nat
      BY DEF LoadedRow
    <2>2. CASE Exhausted(r)
      <3> DEFINE s == [Released(r) EXCEPT !.attempts = r.attempts + 1]
      <3>1. s \in LoadedRow
        BY <2>1, ReleasedRow DEF LoadedRow
      <3>2. Failed(r) = [s EXCEPT !.status = "dead"]
        BY <2>2, ReleasedRow DEF Failed, LoadedRow
      <3> QED
        BY <3>1, <3>2 DEF LoadedRow, TaskStatus
    <2>3. CASE ~Exhausted(r)
      <3> DEFINE s == [Released(r) EXCEPT !.attempts = r.attempts + 1, !.status = "pending"]
      <3>1. s \in LoadedRow
        BY <2>1, ReleasedRow DEF LoadedRow, TaskStatus
      <3>2. Failed(r) = [s EXCEPT !.due = "later"]
        BY <2>3, ReleasedRow DEF Failed, LoadedRow
      <3> QED
        BY <3>1, <3>2 DEF LoadedRow, TaskStatus
    <2> QED
      BY <2>2, <2>3
  <1>3. Replayed(r) \in LoadedRow
    BY ReleasedRow DEF LoadedRow, Replayed, TaskStatus
  <1>4. Reactivated(r) \in LoadedRow
    BY <1>3 DEF LoadedRow, Reactivated, TaskStatus
  <1> QED
    BY <1>1, <1>2, <1>3, <1>4

LEMMA FlushType ==
    ASSUME NEW row \in Row, NEW seen \in LoadedRow, NEW new \in LoadedRow
    PROVE  Flush(row, seen, new) \in Row
  BY DEF Flush, Row, LoadedRow

-----------------------------------------------------------------------------
(* Type correctness.                                                       *)

LEMMA IdleTypes ==
    /\ IdleWorker \in WorkerState /\ IdleWorker.pc = "idle"
    /\ IdleSession \in Session /\ ~IdleSession.open
  BY RowTypes DEF IdleWorker, IdleSession, WorkerState, WorkerPc, Session

LEMMA TaskKeys ==
    /\ \A m \in Messages : <<"message", m>> \in Task /\ <<"notify", m>> \in Task
    /\ \A k \in Accounts : <<"sync", k>> \in Task
    /\ \A t \in Task : t[1] \in {"message", "notify"} => t[2] \in Messages
    /\ \A t \in Task : t[1] = "sync" => t[2] \in Accounts
    /\ \A t \in Task : t = <<t[1], t[2]>>
  BY DEF Task

LEMMA InitType == Init => TypeOK
  <1> SUFFICES ASSUME Init PROVE TypeOK
    OBVIOUS
  <1> QED
    BY RowTypes, IdleTypes, BoundsAssumption
       DEF Init, TypeOK, MessageStatus

\* Where a worker may go, and that the types survive its going there.
LEMMA MoveType ==
    ASSUME TypeOK, NEW w \in Workers, NEW s \in WorkerState,
           s.pc # "idle" => s.task \in Task,
           worker' = [worker EXCEPT ![w] = s]
    PROVE  /\ worker' \in [Workers -> WorkerState]
           /\ \A v \in Workers : worker'[v].pc # "idle" => worker'[v].task \in Task
  BY DEF TypeOK

LEMMA GotoType ==
    ASSUME TypeOK, NEW w \in Workers, NEW from \in WorkerPc \ {"idle"},
           NEW to \in WorkerPc, Goto(w, from, to)
    PROVE  /\ worker' \in [Workers -> WorkerState]
           /\ \A v \in Workers : worker'[v].pc # "idle" => worker'[v].task \in Task
           /\ worker[w].task \in Task
  <1> DEFINE s == [worker[w] EXCEPT !.pc = to]
  <1>1. worker[w] \in WorkerState /\ worker[w].task \in Task
    BY DEF Goto, TypeOK
  <1>2. s \in WorkerState /\ s.task = worker[w].task
    BY <1>1 DEF WorkerState
  <1>3. worker' = [worker EXCEPT ![w] = s]
    BY DEF Goto
  <1> QED
    BY <1>1, <1>2, <1>3, MoveType

LEMMA RestartType ==
    ASSUME TypeOK, NEW w \in Workers, Restart(w)
    PROVE  /\ worker' \in [Workers -> WorkerState]
           /\ \A v \in Workers : worker'[v].pc # "idle" => worker'[v].task \in Task
  BY MoveType, IdleTypes DEF Restart

LEMMA ClaimType ==
    ASSUME TypeOK, NEW w \in Workers, ClaimTask(w)
    PROVE  TypeOK'
  <1>1. CASE SelectCandidate(w)
    <2>1. PICK t \in Task : Candidate(w, t)
      BY <1>1 DEF SelectCandidate
    <2> DEFINE s == [worker[w] EXCEPT !.pc = "claim", !.task = t]
    <2>2. s \in WorkerState /\ s.task \in Task
      <3>1. worker[w] \in WorkerState
        BY DEF TypeOK
      <3> QED
        BY <3>1 DEF WorkerState, WorkerPc
    <2>3. worker' = [worker EXCEPT ![w] = s]
      BY <2>1 DEF Candidate
    <2> QED
      BY <2>1, <2>2, <2>3, MoveType DEF Candidate, TypeOK
  <1>2. CASE Claim(w)
    <2>1. Goto(w, "claim", "readback")
      BY <1>2 DEF Claim
    <2>2. tasks' \in [Task -> Row]
      <3>1. PICK lease \in Leases :
               tasks' = [tasks EXCEPT ![worker[w].task] = Claimed(@, lease)]
        BY <1>2 DEF Claim
      <3>2. worker[w].task \in Task
        BY <2>1 DEF Goto, TypeOK
      <3>3. Claimed(tasks[worker[w].task], lease) \in Row
        BY <3>2, RowTypes DEF TypeOK
      <3> QED
        BY <3>1, <3>3 DEF TypeOK
    <2> QED
      BY <1>2, <2>1, <2>2, GotoType DEF Claim, TypeOK, WorkerPc
  <1>3. CASE ClaimLost(w)
    BY <1>3, RestartType DEF ClaimLost, TypeOK
  <1>4. CASE ReadBack(w)
    <2> DEFINE s == [worker[w] EXCEPT !.pc = "run", !.lease = tasks[worker[w].task].lease]
    <2>1. worker[w] \in WorkerState /\ worker[w].task \in Task
      BY <1>4 DEF ReadBack, TypeOK
    <2>2. tasks[worker[w].task].lease \in Leases \cup {NoLease}
      BY <2>1 DEF TypeOK, Row
    <2>3. s \in WorkerState /\ s.task \in Task
      BY <2>1, <2>2 DEF WorkerState, WorkerPc
    <2>4. worker' = [worker EXCEPT ![w] = s]
      BY <1>4 DEF ReadBack
    <2> QED
      BY <1>4, <2>3, <2>4, MoveType DEF ReadBack, TypeOK
  <1> QED
    BY <1>1, <1>2, <1>3, <1>4 DEF ClaimTask

LEMMA ExecuteType ==
    ASSUME TypeOK, NEW w \in Workers, ExecuteTask(w)
    PROVE  TypeOK'
  <1> DEFINE m == worker[w].task[2]
  <1>1. CASE FailEarly(w)
    BY <1>1, GotoType DEF FailEarly, TypeOK, WorkerPc
  <1>2. CASE SkipMessage(w)
    BY <1>2, GotoType DEF SkipMessage, TypeOK, WorkerPc
  <1>3. CASE StartMessage(w)
    <2>1. msg' \in [Messages -> MessageStatus \cup {"none"}]
      BY <1>3 DEF StartMessage, TypeOK, MessageStatus
    <2> QED
      BY <1>3, <2>1, GotoType DEF StartMessage, TypeOK, WorkerPc
  <1>4. CASE FinishMessage(w)
    <2>1. msg' \in [Messages -> MessageStatus \cup {"none"}]
      BY <1>4 DEF FinishMessage, TypeOK, MessageStatus
    <2> QED
      BY <1>4, <2>1, GotoType DEF FinishMessage, TypeOK, WorkerPc
  <1>5. CASE AbortMessage(w)
    <2>1. msg' \in [Messages -> MessageStatus \cup {"none"}]
      BY <1>5 DEF AbortMessage, TypeOK, MessageStatus
    <2> QED
      BY <1>5, <2>1, GotoType DEF AbortMessage, TypeOK, WorkerPc
  <1>6. CASE FetchAccount(w)
    BY <1>6, GotoType DEF FetchAccount, TypeOK, WorkerPc
  <1>7. CASE Notify(w)
    BY <1>7, GotoType DEF Notify, TypeOK, WorkerPc
  <1> QED
    BY <1>1, <1>2, <1>3, <1>4, <1>5, <1>6, <1>7 DEF ExecuteTask

LEMMA SettlingType ==
    ASSUME TypeOK, NEW w \in Workers, NEW from \in WorkerPc \ {"idle"}, NEW to \in WorkerPc,
           Settling(w, from, to)
    PROVE  TypeOK'
  <1>1. CASE Restart(w)
    BY <1>1, RestartType DEF Settling, TypeOK
  <1>2. CASE ~Restart(w)
    <2> DEFINE row == tasks[worker[w].task]
               s == [worker[w] EXCEPT !.pc = to, !.seen = Loaded(row)]
    <2>1. worker[w] \in WorkerState /\ worker[w].task \in Task
      BY DEF Settling, TypeOK
    <2>2. Loaded(row) \in LoadedRow
      BY <2>1, RowTypes DEF TypeOK
    <2>3. s \in WorkerState /\ s.task \in Task
      BY <2>1, <2>2 DEF WorkerState
    <2>4. worker' = [worker EXCEPT ![w] = s]
      BY <1>2 DEF Settling
    <2> QED
      BY <2>3, <2>4, MoveType DEF Settling, TypeOK
  <1> QED
    BY <1>1, <1>2

LEMMA SettleType ==
    ASSUME TypeOK, NEW w \in Workers, SettleTask(w)
    PROVE  TypeOK'
  <1> DEFINE t == worker[w].task
             seen == worker[w].seen
  <1>1. CASE BeginComplete(w)
    BY <1>1, SettlingType DEF BeginComplete, WorkerPc
  <1>2. CASE BeginFail(w)
    BY <1>2, SettlingType DEF BeginFail, WorkerPc
  <1>3. CASE CommitComplete(w)
    <2>1. t \in Task /\ tasks[t] \in Row /\ seen \in LoadedRow
      BY <1>3 DEF CommitComplete, TypeOK, WorkerState
    <2>2. Flush(tasks[t], seen, Completed(seen, t[1])) \in Row
      BY <2>1, FlushType, LoadedTypes
    <2> QED
      BY <1>3, <2>2, RestartType DEF CommitComplete, TypeOK
  <1>4. CASE CommitRetry(w)
    <2>1. t \in Task /\ tasks[t] \in Row /\ seen \in LoadedRow
      BY <1>4 DEF CommitRetry, TypeOK, WorkerState
    <2>2. Flush(tasks[t], seen, Failed(seen)) \in Row
      BY <2>1, FlushType, LoadedTypes
    <2> QED
      BY <1>4, <2>2, RestartType DEF CommitRetry, TypeOK
  <1>5. CASE CommitDead(w)
    <2>1. t \in Task /\ tasks[t] \in Row /\ seen \in LoadedRow
      BY <1>5 DEF CommitDead, TypeOK, WorkerState
    <2>2. Flush(tasks[t], seen, Failed(seen)) \in Row
      BY <2>1, FlushType, LoadedTypes
    <2>3. tasks' \in [Task -> Row]
      BY <1>5, <2>2, RowTypes DEF CommitDead, TypeOK
    <2>4. msg' \in [Messages -> MessageStatus \cup {"none"}]
      BY <1>5 DEF CommitDead, TypeOK, MessageStatus
    <2> QED
      BY <1>5, <2>3, <2>4, RestartType DEF CommitDead, TypeOK
  <1> QED
    BY <1>1, <1>2, <1>3, <1>4, <1>5 DEF SettleTask

LEMMA InboundType ==
    ASSUME TypeOK,
           \/ \E m \in Messages : Ingest(m)
           \/ ReconcileMessageTasks
           \/ \E k \in Accounts : Arrive(k) \/ BeginCreateSync(k)
           \/ CommitCreateSync
    PROVE  TypeOK'
  <1>1. CASE \E m \in Messages : Ingest(m)
    <2>1. PICK m \in Messages : Ingest(m)
      BY <1>1
    <2> QED
      BY <2>1, RowTypes, TaskKeys DEF Ingest, TypeOK, MessageStatus
  <1>2. CASE ReconcileMessageTasks
    BY <1>2, RowTypes DEF ReconcileMessageTasks, TypeOK
  <1>3. ASSUME NEW k \in Accounts, Arrive(k) PROVE TypeOK'
    BY <1>3 DEF Arrive, TypeOK
  <1>4. ASSUME NEW k \in Accounts, BeginCreateSync(k) PROVE TypeOK'
    <2>1. callback' \in Session /\ callback'.task \in {"sync"} \X Accounts
      BY <1>4, RowTypes, TaskKeys DEF BeginCreateSync, TypeOK, Session
    <2> QED
      BY <1>4, <2>1 DEF BeginCreateSync, TypeOK
  <1>5. CASE CommitCreateSync
    <2> DEFINE t == callback.task
               seen == callback.seen
    <2>1. t \in Task /\ tasks[t] \in Row /\ seen \in LoadedRow
      BY <1>5 DEF CommitCreateSync, TypeOK, Session, Task
    <2>2. Flush(tasks[t], seen, Reactivated(seen)) \in Row
      BY <2>1, FlushType, LoadedTypes
    <2> QED
      BY <1>5, <2>2, RowTypes, IdleTypes DEF CommitCreateSync, TypeOK
  <1> QED
    BY <1>1, <1>2, <1>3, <1>4, <1>5

LEMMA ReplayType ==
    ASSUME TypeOK, NEW a \in Admins, (\E t \in Task : BeginReplay(a, t)) \/ CommitReplay(a)
    PROVE  TypeOK'
  <1>1. ASSUME NEW t \in Task, BeginReplay(a, t) PROVE TypeOK'
    <2> DEFINE s == [open |-> TRUE, task |-> t, seen |-> Loaded(tasks[t])]
    <2>1. s \in Session /\ s.task \in Task
      BY RowTypes DEF TypeOK, Session
    <2> QED
      BY <1>1, <2>1 DEF BeginReplay, TypeOK
  <1>2. CASE CommitReplay(a)
    <2> DEFINE t == admin[a].task
               seen == admin[a].seen
    <2>1. t \in Task /\ tasks[t] \in Row /\ seen \in LoadedRow
      BY <1>2 DEF CommitReplay, TypeOK, Session
    <2>2. Flush(tasks[t], seen, Replayed(seen)) \in Row
      BY <2>1, FlushType, LoadedTypes
    <2>3. msg' \in [Messages -> MessageStatus \cup {"none"}]
      BY <1>2 DEF CommitReplay, TypeOK, MessageStatus
    <2> QED
      BY <1>2, <2>2, <2>3, IdleTypes DEF CommitReplay, TypeOK
  <1> QED
    BY <1>1, <1>2

LEMMA EnvironmentType ==
    ASSUME TypeOK,
           \/ \E w \in Workers : Heartbeat(w) \/ Crash(w)
           \/ \E t \in Task : OrphanedLeaseExpires(t) \/ LeaseLapses(t) \/ BackoffElapses(t)
    PROVE  TypeOK'
  <1>1. ASSUME NEW w \in Workers, Heartbeat(w) PROVE TypeOK'
    <2>1. worker[w].task \in Task
      BY <1>1 DEF Heartbeat, TypeOK
    <2>2. Renewed(tasks[worker[w].task]) \in Row
      BY <2>1, RowTypes DEF TypeOK
    <2> QED
      BY <1>1, <2>2 DEF Heartbeat, TypeOK
  <1>2. ASSUME NEW w \in Workers, Crash(w) PROVE TypeOK'
    <2>1. Restart(w)
      BY <1>2 DEF Crash, Restart
    <2>2. crashes' \in 0..MaxCrashes
      BY <1>2, BoundsAssumption DEF Crash, TypeOK
    <2> QED
      BY <1>2, <2>1, <2>2, RestartType DEF Crash, TypeOK
  <1>3. ASSUME NEW t \in Task, OrphanedLeaseExpires(t) PROVE TypeOK'
    BY <1>3 DEF OrphanedLeaseExpires, TypeOK, Row
  <1>4. ASSUME NEW t \in Task, LeaseLapses(t) PROVE TypeOK'
    <2>1. lapses' \in 0..MaxLapses
      BY <1>4, BoundsAssumption DEF LeaseLapses, TypeOK
    <2> QED
      BY <1>4, <2>1 DEF LeaseLapses, TypeOK, Row
  <1>5. ASSUME NEW t \in Task, BackoffElapses(t) PROVE TypeOK'
    BY <1>5 DEF BackoffElapses, TypeOK, Row
  <1> QED
    BY <1>1, <1>2, <1>3, <1>4, <1>5

LEMMA StepType == TypeOK /\ [Next]_vars => TypeOK'
  <1> SUFFICES ASSUME TypeOK, [Next]_vars PROVE TypeOK'
    OBVIOUS
  <1>1. CASE UNCHANGED vars
    BY <1>1 DEF vars, TypeOK
  <1>2. CASE Next
    BY <1>2, ClaimType, ExecuteType, SettleType, InboundType, ReplayType, EnvironmentType
       DEF Next, DrainAvailableTasks
  <1> QED
    BY <1>1, <1>2

\* The tables and the sessions only ever hold values of their types, whatever
\* the interleaving of the transactions of tasks.py.
THEOREM TypeCorrect == Spec => []TypeOK
  <1> QED
    BY InitType, StepType, PTL DEF Spec

-----------------------------------------------------------------------------
(* Leases.  First what a step of a worker's loop leaves in its memory, and *)
(* what a commit leaves in the status of the row.                          *)

LEMMA GotoFields ==
    ASSUME TypeOK, NEW w \in Workers, NEW from \in WorkerPc, NEW to \in WorkerPc, Goto(w, from, to)
    PROVE  /\ worker[w].pc = from /\ worker'[w].pc = to
           /\ worker'[w].task = worker[w].task
           /\ worker'[w].lease = worker[w].lease
           /\ worker'[w].seen = worker[w].seen
           /\ \A v \in Workers \ {w} : worker'[v] = worker[v]
  <1>1. worker[w] \in WorkerState /\ w \in DOMAIN worker
    BY DEF TypeOK
  <1> QED
    BY <1>1 DEF Goto, WorkerState, TypeOK

LEMMA RestartFields ==
    ASSUME TypeOK, NEW w \in Workers, Restart(w)
    PROVE  /\ worker'[w].pc = "idle"
           /\ \A v \in Workers \ {w} : worker'[v] = worker[v]
  BY IdleTypes DEF Restart, TypeOK

LEMMA SettledStatus ==
    ASSUME NEW row \in Row, NEW seen \in LoadedRow, seen.status = "processing", NEW kind
    PROVE  /\ Flush(row, seen, Completed(seen, kind)).status \in {"pending", "done"}
           /\ kind # "sync" => Flush(row, seen, Completed(seen, kind)).status = "done"
           /\ Exhausted(seen) => Flush(row, seen, Failed(seen)).status = "dead"
           /\ ~Exhausted(seen) => Flush(row, seen, Failed(seen)).status = "pending"
  <1>1. Released(seen) \in LoadedRow
    BY ReleasedRow
  <1>2. Completed(seen, kind).status \in {"pending", "done"}
        /\ (kind # "sync" => Completed(seen, kind).status = "done")
    BY <1>1 DEF Completed, LoadedRow
  <1>3. Failed(seen).status = IF Exhausted(seen) THEN "dead" ELSE "pending"
    BY <1>1 DEF Failed, LoadedRow
  <1> QED
    BY <1>2, <1>3 DEF Flush

\* Reviving a row that is as it was read gives a pending row; a callback that
\* read a live row changes neither its status nor its lock.
LEMMA RevivedStatus ==
    ASSUME NEW row \in Row, NEW seen \in LoadedRow
    PROVE  /\ seen.status \in {"done", "dead"} =>
                 /\ Flush(row, seen, Replayed(seen)).status = "pending"
                 /\ Flush(row, seen, Reactivated(seen)).status = "pending"
           /\ seen.status \in {"pending", "processing"} =>
                 /\ Flush(row, seen, Reactivated(seen)).status = row.status
                 /\ Flush(row, seen, Reactivated(seen)).locked = row.locked
                 /\ Flush(row, seen, Reactivated(seen)).lease = row.lease
  <1>1. Released(seen) \in LoadedRow /\ Replayed(seen) \in LoadedRow
    BY ReleasedRow, LoadedTypes
  <1>2. Replayed(seen).status = "pending"
    BY <1>1 DEF Replayed, LoadedRow
  <1>3. seen.status \in {"done", "dead"} => Reactivated(seen).status = "pending"
    BY <1>1, <1>2 DEF Reactivated, LoadedRow
  <1>4. seen.status \in {"pending", "processing"} =>
            /\ Reactivated(seen).status = seen.status
            /\ Reactivated(seen).locked = seen.locked
            /\ Reactivated(seen).lease = seen.lease
    BY DEF Reactivated, LoadedRow
  <1> QED
    BY <1>2, <1>3, <1>4 DEF Flush

LEMMA InitInv == Init => IInv
  <1> SUFFICES ASSUME Init PROVE IInv
    OBVIOUS
  <1>1. TypeOK
    BY InitType
  <1>2. \A w \in Workers : worker[w].pc = "idle"
    BY IdleTypes DEF Init
  <1>3. \A t \in Task : tasks[t].status = "none"
    BY DEF Init, NoRow
  <1> QED
    BY <1>1, <1>2, <1>3, IdleTypes, TaskKeys
       DEF Init, IInv, LeaseInv, OneWorkerPerTask, SessionInv, MessageInv, Working, Settles,
           DoneTaskIsSettled, NoStrandedMessage, DeadTogether, Orphans, Exists, Unfinished,
           IdleSession

\* Steps that leave the tables alone: only the worker's own part of LeaseInv
\* and MessageInv is at stake.
LEMMA MoveInv ==
    ASSUME IInv, NEW w \in Workers, UNCHANGED <<tasks, msg, callback, admin>>,
           \A v \in Workers \ {w} : worker'[v] = worker[v],
           \/ worker'[w].pc \in {"idle", "claim"}
           \/ /\ worker[w].pc \in Working /\ worker'[w].pc \in Working \ {"body", "readback"}
              /\ worker'[w].task = worker[w].task
              /\ worker'[w].lease = tasks[worker[w].task].lease
              /\ worker'[w].pc \in {"completing", "failing"} =>
                    worker'[w].seen.status = "processing"
              /\ (worker'[w].pc \in {"complete", "completing"} /\ worker[w].task[1] = "message") =>
                    msg[worker[w].task[2]] \notin Unfinished
    PROVE  LeaseInv' /\ OneWorkerPerTask' /\ SessionInv' /\ MessageInv'
           /\ DoneTaskIsSettled' /\ NoStrandedMessage' /\ DeadTogether'
  <1>1. LeaseInv'
    BY DEF IInv, LeaseInv, Working, Settles
  <1>2. OneWorkerPerTask'
    BY DEF IInv, OneWorkerPerTask, Working
  <1>3. SessionInv' /\ DoneTaskIsSettled' /\ NoStrandedMessage' /\ DeadTogether'
    BY DEF IInv, SessionInv, DoneTaskIsSettled, NoStrandedMessage, DeadTogether, Orphans
  <1>4. MessageInv'
    BY DEF IInv, MessageInv, Working
  <1> QED
    BY <1>1, <1>2, <1>3, <1>4

LEMMA ClaimInv ==
    ASSUME IInv, NEW w \in Workers, ClaimTask(w), TypeOK'
    PROVE  IInv'
  <1> USE DEF IInv
  <1>1. CASE SelectCandidate(w)
    <2>1. worker'[w].pc = "claim" /\ \A v \in Workers \ {w} : worker'[v] = worker[v]
      <3>1. worker[w] \in WorkerState
        BY DEF TypeOK
      <3> QED
        BY <1>1, <3>1 DEF SelectCandidate, Candidate, TypeOK, WorkerState
    <2> QED
      BY <1>1, <2>1, MoveInv DEF SelectCandidate, Candidate
  <1>2. CASE Claim(w)
    <2> DEFINE t == worker[w].task
    <2>1. /\ worker[w].pc = "claim" /\ worker'[w].pc = "readback"
          /\ worker'[w].task = t /\ t \in Task
          /\ \A v \in Workers \ {w} : worker'[v] = worker[v]
      BY <1>2, GotoFields DEF Claim, WorkerPc, TypeOK
    <2>2. /\ Claimable(tasks[t])
          /\ \A u \in Task \ {t} : tasks'[u] = tasks[u]
          /\ tasks'[t].status = "processing" /\ tasks'[t].locked = "fresh"
      BY <1>2, <2>1 DEF Claim, Claimed, TypeOK, Row
    <2>3. \A v \in Workers : worker[v].pc \in Working => worker[v].task # t
      BY <2>2 DEF LeaseInv, Claimable
    <2>4. tasks[t].status \in {"pending", "processing"} /\ UNCHANGED <<msg, callback, admin>>
      BY <1>2, <2>2 DEF Claimable, Claim
    <2>5. \A v \in Workers \ {w} : worker[v].pc \in Working => worker[v].task \in Task \ {t}
      BY <2>3 DEF TypeOK, Working
    <2>6. LeaseInv'
      BY <2>1, <2>2, <2>5 DEF LeaseInv, Working, Settles
    <2>7. OneWorkerPerTask'
      BY <2>1, <2>3 DEF OneWorkerPerTask, Working
    <2>8. \A u \in Task : \/ tasks'[u].status = tasks[u].status
                         \/ /\ tasks[u].status \in {"pending", "processing"}
                            /\ tasks'[u].status = "processing"
      BY <2>2, <2>4
    <2>9. SessionInv'
      <3>1. callback.open => callback.task \in Task
        BY DEF TypeOK, Task
      <3> QED
        BY <2>4, <2>8, <3>1 DEF SessionInv, TypeOK
    <2>10. MessageInv'
      <3>1. \A m \in Messages : Exists(tasks'[<<"message", m>>]) <=> Exists(tasks[<<"message", m>>])
        BY <2>8, TaskKeys DEF Exists
      <3>2. \A v \in Workers : worker'[v].pc \in {"complete", "completing"} => worker'[v] = worker[v]
        BY <2>1
      <3> QED
        BY <2>4, <3>1, <3>2 DEF MessageInv, Exists
    <2>11. DoneTaskIsSettled'
      BY <2>4, <2>8, TaskKeys DEF DoneTaskIsSettled
    <2>12. NoStrandedMessage'
      BY <2>4, <2>8, TaskKeys DEF NoStrandedMessage, Orphans, Exists
    <2>13. DeadTogether'
      BY <2>4, <2>8, TaskKeys DEF DeadTogether, Exists
    <2> QED
      BY <2>6, <2>7, <2>9, <2>10, <2>11, <2>12, <2>13
  <1>3. CASE ClaimLost(w)
    BY <1>3, MoveInv, RestartFields DEF ClaimLost
  <1>4. CASE ReadBack(w)
    <2>1. /\ worker[w].pc = "readback" /\ worker'[w].pc = "run"
          /\ worker'[w].task = worker[w].task
          /\ worker'[w].lease = tasks[worker[w].task].lease
          /\ \A v \in Workers \ {w} : worker'[v] = worker[v]
      <3>1. worker[w] \in WorkerState
        BY DEF TypeOK
      <3> QED
        BY <1>4, <3>1 DEF ReadBack, TypeOK, WorkerState
    <2> QED
      BY <1>4, <2>1, MoveInv DEF ReadBack, Working, WorkerPc
  <1> QED
    BY <1>1, <1>2, <1>3, <1>4 DEF ClaimTask

LEMMA WorkerOwnsRow ==
    ASSUME IInv, NEW w \in Workers, worker[w].pc \in Working
    PROVE  /\ worker[w].task \in Task
           /\ tasks[worker[w].task].status = "processing"
           /\ worker[w].pc # "readback" => worker[w].lease = tasks[worker[w].task].lease
           /\ \A v \in Workers \ {w} : worker[v].pc \in Working => worker[v].task # worker[w].task
           /\ callback.open /\ callback.task = worker[w].task =>
                 callback.seen.status \in {"pending", "processing"}
           /\ \A a \in Admins : admin[a].open => admin[a].task # worker[w].task
  <1>1. worker[w].task \in Task
    BY DEF IInv, TypeOK, Working
  <1>2. tasks[worker[w].task].status = "processing"
        /\ (worker[w].pc # "readback" => worker[w].lease = tasks[worker[w].task].lease)
    BY DEF IInv, LeaseInv
  <1>3. \A v \in Workers \ {w} : worker[v].pc \in Working => worker[v].task # worker[w].task
    BY DEF IInv, OneWorkerPerTask
  <1>4. callback.seen.status \in {"none", "pending", "processing", "done", "dead"}
    BY DEF IInv, TypeOK, Session, LoadedRow, TaskStatus
  <1> QED
    BY <1>1, <1>2, <1>3, <1>4 DEF IInv, SessionInv

\* Steps of a message's body: the worker owns the row, so no other worker is
\* concerned with the message.
LEMMA BodyInv ==
    ASSUME IInv, NEW w \in Workers, NEW from \in {"run", "body"}, NEW to \in {"body", "complete", "fail"},
           Goto(w, from, to), worker[w].task[1] = "message",
           NEW status \in {"processing", "sent", "failed"},
           msg' = [msg EXCEPT ![worker[w].task[2]] = status],
           to = "complete" => status = "sent",
           UNCHANGED <<tasks, callback, admin>>
    PROVE  LeaseInv' /\ OneWorkerPerTask' /\ SessionInv' /\ MessageInv'
           /\ DoneTaskIsSettled' /\ NoStrandedMessage' /\ DeadTogether'
  <1> DEFINE t == worker[w].task
             m == t[2]
  <1>1. TypeOK /\ t \in Task /\ m \in Messages /\ t = <<"message", m>>
    BY TaskKeys DEF IInv, TypeOK, Goto
  <1>2. /\ worker[w].pc = from /\ worker'[w].pc = to /\ worker'[w].task = t
        /\ worker'[w].lease = worker[w].lease /\ worker'[w].seen = worker[w].seen
        /\ \A v \in Workers \ {w} : worker'[v] = worker[v]
    BY <1>1, GotoFields DEF WorkerPc
  <1>3. worker[w].pc \in Working /\ worker'[w].pc \in Working \ {"readback", "completing", "failing"}
    BY <1>2 DEF Working, WorkerPc
  <1>4. /\ tasks[t].status = "processing" /\ worker[w].lease = tasks[t].lease
        /\ \A v \in Workers \ {w} : worker[v].pc \in Working => worker[v].task # t
    BY <1>2, <1>3, WorkerOwnsRow
  <1>5. msg'[m] = status /\ \A n \in Messages \ {m} : msg'[n] = msg[n]
    BY <1>1 DEF TypeOK
  <1>6. LeaseInv'
    <2>1. \A v \in Workers \ {w} : worker'[v] = worker[v] /\ tasks' = tasks
      BY <1>2
    <2>2. tasks[t].locked = "fresh" /\ tasks' = tasks
      BY <1>3 DEF IInv, LeaseInv
    <2> QED
      BY <1>1, <1>2, <1>3, <1>4, <2>1, <2>2 DEF IInv, LeaseInv, Settles
  <1>7. OneWorkerPerTask'
    BY <1>2, <1>3 DEF IInv, OneWorkerPerTask
  <1>8. SessionInv'
    BY DEF IInv, SessionInv
  <1>9. MessageInv'
    <2>1. Exists(tasks[<<"message", m>>])
      BY <1>1, <1>4 DEF Exists
    <2>2. ASSUME NEW v \in Workers, worker'[v].pc \in {"complete", "completing"},
                 worker'[v].task[1] = "message"
          PROVE  msg'[worker'[v].task[2]] \notin Unfinished
      <3>1. CASE v = w
        BY <1>1, <1>2, <1>3, <1>5, <2>2, <3>1 DEF Unfinished
      <3>2. CASE v # w
        <4>1. worker'[v] = worker[v] /\ worker[v].task # t /\ worker[v].task \in Task
          BY <1>1, <1>2, <1>4, <2>2, <3>2 DEF Working, WorkerPc, TypeOK
        <4>2. worker[v].task[2] \in Messages \ {m}
          BY <1>1, <2>2, <4>1, TaskKeys
        <4> QED
          BY <1>5, <2>2, <4>1, <4>2 DEF IInv, MessageInv
      <3> QED
        BY <3>1, <3>2
    <2> QED
      BY <1>5, <2>1, <2>2 DEF IInv, MessageInv
  <1>10. DoneTaskIsSettled' /\ NoStrandedMessage' /\ DeadTogether'
    BY <1>1, <1>4, <1>5
       DEF IInv, DoneTaskIsSettled, NoStrandedMessage, DeadTogether, Orphans, Exists, Unfinished
  <1> QED
    BY <1>6, <1>7, <1>8, <1>9, <1>10

LEMMA ExecuteInv ==
    ASSUME IInv, NEW w \in Workers, ExecuteTask(w), TypeOK'
    PROVE  IInv'
  <1> DEFINE t == worker[w].task
  <1>0. TypeOK
    BY DEF IInv
  <1>1. ASSUME NEW to \in {"fail", "complete"}, Goto(w, "run", to), UNCHANGED <<tasks, msg, callback, admin>>,
               (to = "complete" /\ t[1] = "message") => msg[t[2]] \notin Unfinished
        PROVE  IInv'
    <2>1. /\ worker[w].pc = "run" /\ worker'[w].pc = to /\ worker'[w].task = t
          /\ worker'[w].lease = worker[w].lease
          /\ \A v \in Workers \ {w} : worker'[v] = worker[v]
      BY <1>0, <1>1, GotoFields DEF WorkerPc
    <2>2. worker[w].pc \in Working /\ to \in Working \ {"body", "readback"}
      BY <2>1 DEF Working, WorkerPc
    <2>3. worker'[w].lease = tasks[t].lease
      BY <2>1, <2>2, WorkerOwnsRow
    <2> QED
      BY <1>1, <2>1, <2>2, <2>3, MoveInv DEF IInv
  <1>2. CASE FailEarly(w)
    BY <1>1, <1>2 DEF FailEarly
  <1>3. CASE SkipMessage(w)
    BY <1>1, <1>3 DEF SkipMessage
  <1>4. CASE FetchAccount(w)
    BY <1>1, <1>4 DEF FetchAccount
  <1>5. CASE Notify(w)
    BY <1>1, <1>5 DEF Notify
  <1>6. CASE StartMessage(w)
    BY <1>6, BodyInv DEF StartMessage, IInv
  <1>7. CASE FinishMessage(w)
    <2>1. t[1] = "message"
      BY <1>7 DEF FinishMessage, Goto, IInv, LeaseInv, Working, WorkerPc
    <2> QED
      BY <1>7, <2>1, BodyInv DEF FinishMessage, IInv
  <1>8. CASE AbortMessage(w)
    <2>1. t[1] = "message" /\ t \in Task
      BY <1>8 DEF AbortMessage, Goto, IInv, LeaseInv, Working, WorkerPc, TypeOK
    <2>2. t[2] \in Messages
      BY <2>1, TaskKeys
    <2> DEFINE status == IF msg[t[2]] = "sent" THEN "sent" ELSE "failed"
    <2>3. msg' = [msg EXCEPT ![t[2]] = status]
      BY <1>8, <2>2 DEF AbortMessage, IInv, TypeOK
    <2> QED
      BY <1>8, <2>1, <2>3, BodyInv DEF AbortMessage, IInv
  <1> QED
    BY <1>2, <1>3, <1>4, <1>5, <1>6, <1>7, <1>8 DEF ExecuteTask

LEMMA SettlingInv ==
    ASSUME IInv, NEW w \in Workers, TypeOK',
           \/ Settling(w, "complete", "completing")
           \/ Settling(w, "fail", "failing")
    PROVE  IInv'
  <1> DEFINE t == worker[w].task
  <1>1. worker[w].pc \in Working \ {"readback"} /\ worker[w] \in WorkerState
    BY DEF Settling, Working, WorkerPc, IInv, TypeOK
  <1>2. /\ t \in Task /\ tasks[t] \in Row /\ tasks[t].status = "processing"
        /\ worker[w].lease = tasks[t].lease
    BY <1>1, WorkerOwnsRow DEF IInv, TypeOK
  <1>3. OwnedBy(tasks[t], worker[w].lease)
    BY <1>2 DEF OwnedBy
  <1>4. PICK to \in {"completing", "failing"} :
           /\ worker' = [worker EXCEPT ![w] = [@ EXCEPT !.pc = to, !.seen = Loaded(tasks[t])]]
           /\ to = "completing" => worker[w].pc = "complete"
    BY <1>3 DEF Settling
  <1>5. /\ worker'[w].pc = to /\ worker'[w].task = t /\ worker'[w].lease = worker[w].lease
        /\ worker'[w].seen = Loaded(tasks[t])
        /\ \A v \in Workers \ {w} : worker'[v] = worker[v]
    BY <1>1, <1>4 DEF IInv, TypeOK, WorkerState
  <1>6. Loaded(tasks[t]).status = "processing"
    BY <1>2 DEF Loaded, Row
  <1>7. (to = "completing" /\ t[1] = "message") => msg[t[2]] \notin Unfinished
    BY <1>4 DEF IInv, MessageInv
  <1>8. UNCHANGED <<tasks, msg, callback, admin>>
    BY DEF Settling
  <1> QED
    BY <1>1, <1>2, <1>5, <1>6, <1>7, <1>8, MoveInv DEF IInv, Working, WorkerPc

\* A commit of complete_task or fail_task gives up the row and restarts the worker.
LEMMA CommitInv ==
    ASSUME IInv, NEW w \in Workers, Settles(w), Restart(w),
           NEW status \in {"pending", "done", "dead"},
           tasks'[worker[w].task].status = status,
           \A u \in Task \ {worker[w].task} :
               \/ tasks'[u] = tasks[u]
               \/ ~Exists(tasks[u]) /\ u[1] = "notify" /\ Exists(tasks'[u]),
           status = "done" => worker[w].pc = "completing",
           worker[w].task[1] = "message" => status # "pending" \/ worker[w].pc = "failing",
           \A m \in Messages :
               msg'[m] = IF status = "dead" /\ worker[w].task = <<"message", m>> THEN "dead" ELSE msg[m],
           \A m \in Messages :
               (status = "dead" /\ worker[w].task = <<"message", m>>) => Exists(tasks'[<<"notify", m>>]),
           UNCHANGED <<callback, admin>>, TypeOK'
    PROVE  IInv'
  <1> DEFINE t == worker[w].task
  <1>1. TypeOK /\ worker[w].pc \in Working
    BY DEF IInv, Settles, Working, WorkerPc
  <1>2. /\ t \in Task /\ tasks[t].status = "processing"
        /\ \A v \in Workers \ {w} : worker[v].pc \in Working => worker[v].task # t
        /\ callback.open /\ callback.task = t => callback.seen.status \in {"pending", "processing"}
        /\ \A a \in Admins : admin[a].open => admin[a].task # t
    BY <1>1, WorkerOwnsRow
  <1>3. worker'[w].pc = "idle" /\ \A v \in Workers \ {w} : worker'[v] = worker[v]
    BY <1>1, RestartFields
  <1>4. LeaseInv'
    <2>1. ASSUME NEW v \in Workers, worker'[v].pc \in Working
          PROVE  /\ worker'[v] = worker[v] /\ worker[v].pc \in Working
                 /\ tasks'[worker[v].task] = tasks[worker[v].task]
      <3>1. v # w /\ worker'[v] = worker[v]
        BY <1>3, <2>1 DEF Working
      <3>2. worker[v].task \in Task \ {t} /\ tasks[worker[v].task].status = "processing"
        BY <1>2, <2>1, <3>1, WorkerOwnsRow
      <3> QED
        BY <2>1, <3>1, <3>2 DEF Exists
    <2> QED
      BY <2>1 DEF IInv, LeaseInv, Settles
  <1>5. OneWorkerPerTask'
    BY <1>3 DEF IInv, OneWorkerPerTask, Working
  <1>6. \A u \in Task : u # t /\ u[1] # "notify" => tasks'[u] = tasks[u]
    OBVIOUS
  <1>7. SessionInv'
    <2>1. ASSUME callback.open, callback.seen.status \in {"none", "done", "dead"}
          PROVE  tasks'[callback.task] = tasks[callback.task]
      BY <1>1, <1>2, <1>6, <2>1 DEF TypeOK, Task
    <2>2. ASSUME NEW a \in Admins, admin[a].open
          PROVE  tasks'[admin[a].task] = tasks[admin[a].task]
      <3>1. admin[a].task \in Task \ {t} /\ tasks[admin[a].task].status = "dead"
        BY <1>1, <1>2, <2>2 DEF TypeOK, IInv, SessionInv
      <3> QED
        BY <3>1 DEF Exists
    <2> QED
      BY <2>1, <2>2 DEF IInv, SessionInv
  <1>8. \A m \in Messages : <<"message", m>> # t => tasks'[<<"message", m>>] = tasks[<<"message", m>>]
    BY <1>6, TaskKeys
  <1>9. \A m \in Messages : Exists(tasks[<<"message", m>>]) <=> Exists(tasks'[<<"message", m>>])
    BY <1>2, <1>8 DEF Exists
  <1>10. MessageInv'
    <2>1. ASSUME NEW v \in Workers, worker'[v].pc \in {"complete", "completing"},
                 worker'[v].task[1] = "message"
          PROVE  msg'[worker'[v].task[2]] \notin Unfinished
      <3>1. v # w /\ worker'[v] = worker[v]
        BY <1>3, <2>1
      <3>2. worker[v].task \in Task /\ worker[v].task # t
        BY <1>1, <1>2, <2>1, <3>1 DEF Working, WorkerPc, TypeOK
      <3>3. worker[v].task[2] \in Messages /\ worker[v].task = <<"message", worker[v].task[2]>>
        BY <2>1, <3>1, <3>2, TaskKeys
      <3> QED
        BY <2>1, <3>1, <3>2, <3>3 DEF IInv, MessageInv, Unfinished
    <2> QED
      BY <1>2, <1>9, <2>1 DEF IInv, MessageInv, Exists, Unfinished
  <1>11. DoneTaskIsSettled'
    <2>1. ASSUME NEW m \in Messages, tasks'[<<"message", m>>].status = "done"
          PROVE  msg'[m] \notin Unfinished
      <3>1. CASE <<"message", m>> = t
        <4>1. worker[w].pc = "completing" /\ t[1] = "message" /\ t[2] = m
          BY <2>1, <3>1
        <4> QED
          BY <3>1, <4>1, <1>1 DEF IInv, MessageInv, Unfinished
      <3>2. CASE <<"message", m>> # t
        BY <1>8, <2>1, <3>2 DEF IInv, DoneTaskIsSettled
      <3> QED
        BY <3>1, <3>2
    <2> QED
      BY <2>1 DEF DoneTaskIsSettled
  <1>12. NoStrandedMessage'
    <2>1. ASSUME NEW m \in Messages, msg'[m] \in Unfinished
          PROVE  \/ tasks'[<<"message", m>>].status \in {"pending", "processing"}
                 \/ msg'[m] \in {"queued", "failed"} /\ ~Exists(tasks'[<<"message", m>>])
      <3>1. CASE <<"message", m>> = t
        <4>1. t[1] = "message" /\ t[2] = m /\ status # "dead"
          BY <2>1, <3>1 DEF Unfinished
        <4>2. status # "done"
          BY <2>1, <3>1, <4>1, <1>1, <1>11 DEF DoneTaskIsSettled, Unfinished
        <4> QED
          BY <3>1, <4>1, <4>2
      <3>2. CASE <<"message", m>> # t
        BY <1>8, <2>1, <3>2 DEF IInv, NoStrandedMessage, Orphans
      <3> QED
        BY <3>1, <3>2
    <2> QED
      BY <2>1 DEF NoStrandedMessage, Orphans
  <1>13. DeadTogether'
    <2>1. ASSUME NEW m \in Messages, msg'[m] = "dead"
          PROVE  tasks'[<<"message", m>>].status = "dead" /\ Exists(tasks'[<<"notify", m>>])
      <3>1. <<"notify", m>> \in Task /\ (Exists(tasks[<<"notify", m>>]) => Exists(tasks'[<<"notify", m>>]))
        BY <1>2, TaskKeys DEF Exists
      <3>2. CASE status = "dead" /\ <<"message", m>> = t
        BY <3>2
      <3>3. CASE ~(status = "dead" /\ <<"message", m>> = t)
        <4>1. msg[m] = "dead"
          BY <2>1, <3>3
        <4>2. tasks[<<"message", m>>].status = "dead" /\ Exists(tasks[<<"notify", m>>])
          BY <4>1 DEF IInv, DeadTogether
        <4> QED
          BY <1>2, <1>8, <3>1, <4>2
      <3> QED
        BY <3>2, <3>3
    <2> QED
      BY <2>1 DEF DeadTogether
  <1> QED
    BY <1>4, <1>5, <1>7, <1>10, <1>11, <1>12, <1>13 DEF IInv

LEMMA SettleInv ==
    ASSUME IInv, NEW w \in Workers, SettleTask(w), TypeOK'
    PROVE  IInv'
  <1> DEFINE t == worker[w].task
             seen == worker[w].seen
  <1>1. CASE BeginComplete(w)
    BY <1>1, SettlingInv DEF BeginComplete
  <1>2. CASE BeginFail(w)
    BY <1>2, SettlingInv DEF BeginFail
  <1>3. ASSUME Settles(w)
        PROVE  /\ t \in Task /\ tasks[t] \in Row /\ seen \in LoadedRow /\ seen.status = "processing"
               /\ tasks \in [Task -> Row]
    BY <1>3 DEF Settles, IInv, LeaseInv, Working, WorkerPc, TypeOK, WorkerState
  <1>4. CASE CommitComplete(w)
    <2>1. Settles(w) /\ worker[w].pc = "completing" /\ Restart(w)
      BY <1>4 DEF CommitComplete, Settles
    <2>2. /\ tasks'[t] = Flush(tasks[t], seen, Completed(seen, t[1]))
          /\ \A u \in Task \ {t} : tasks'[u] = tasks[u]
      BY <1>3, <1>4, <2>1 DEF CommitComplete
    <2>3. PICK status \in {"pending", "done"} :
             /\ tasks'[t].status = status
             /\ t[1] = "message" => status # "pending"
      BY <1>3, <2>1, <2>2, SettledStatus
    <2>4. UNCHANGED <<msg, callback, admin>>
      BY <1>4 DEF CommitComplete
    <2> QED
      BY <2>1, <2>2, <2>3, <2>4, CommitInv
  <1>5. CASE CommitRetry(w)
    <2>1. Settles(w) /\ worker[w].pc = "failing" /\ Restart(w) /\ ~Exhausted(seen)
      BY <1>5 DEF CommitRetry, Settles
    <2>2. /\ tasks'[t] = Flush(tasks[t], seen, Failed(seen))
          /\ \A u \in Task \ {t} : tasks'[u] = tasks[u]
      BY <1>3, <1>5, <2>1 DEF CommitRetry
    <2>3. tasks'[t].status = "pending"
      BY <1>3, <2>1, <2>2, SettledStatus
    <2>4. UNCHANGED <<msg, callback, admin>>
      BY <1>5 DEF CommitRetry
    <2> QED
      BY <2>1, <2>2, <2>3, <2>4, CommitInv
  <1>6. CASE CommitDead(w)
    <2>1. Settles(w) /\ worker[w].pc = "failing" /\ Restart(w) /\ Exhausted(seen)
      BY <1>6 DEF CommitDead, Settles
    <2>2. /\ tasks'[t] = Flush(tasks[t], seen, Failed(seen))
          /\ \A u \in Task \ {t} :
                tasks'[u] = IF t[1] = "message" /\ u = <<"notify", t[2]>> /\ ~Exists(tasks[u])
                            THEN NewRow ELSE tasks[u]
      BY <1>3, <1>6, <2>1 DEF CommitDead
    <2>3. tasks'[t].status = "dead"
      BY <1>3, <2>1, <2>2, SettledStatus
    <2>4. Exists(NewRow)
      BY DEF Exists, NewRow, NoRow
    <2>5. \A m \in Messages : msg'[m] = IF t = <<"message", m>> THEN "dead" ELSE msg[m]
      BY <1>6 DEF CommitDead
    <2>6. \A u \in Task \ {t} :
             \/ tasks'[u] = tasks[u]
             \/ ~Exists(tasks[u]) /\ u[1] = "notify" /\ Exists(tasks'[u])
      BY <2>2, <2>4
    <2>7. ASSUME NEW m \in Messages, t = <<"message", m>>
          PROVE  Exists(tasks'[<<"notify", m>>])
      <3>1. <<"notify", m>> \in Task \ {t} /\ t[1] = "message" /\ t[2] = m
        BY <2>7, TaskKeys
      <3> QED
        BY <2>2, <2>4, <3>1
    <2>8. UNCHANGED <<callback, admin>>
      BY <1>6 DEF CommitDead
    <2> QED
      BY <2>1, <2>3, <2>5, <2>6, <2>7, <2>8, CommitInv
  <1> QED
    BY <1>1, <1>2, <1>4, <1>5, <1>6 DEF SettleTask

\* Steps of the endpoints: rows are inserted or revived only where no worker
\* is at work, and a message's row comes and goes with its status.
LEMMA ReviveInv ==
    ASSUME IInv, UNCHANGED worker,
           \A t \in Task :
               \/ tasks'[t] = tasks[t]
               \/ tasks'[t].status = "pending" /\ tasks[t].status \notin {"pending", "processing"}
               \/ /\ tasks'[t].status = tasks[t].status
                  /\ tasks'[t].locked = tasks[t].locked /\ tasks'[t].lease = tasks[t].lease,
           \A m \in Messages :
               \/ msg'[m] = msg[m]
               \/ msg'[m] \in {"queued", "failed"} /\ tasks'[<<"message", m>>].status = "pending"
                  /\ msg[m] \in {"none", "dead"},
           \A m \in Messages : (msg'[m] = "none" => tasks'[<<"message", m>>] = tasks[<<"message", m>>])
                               /\ (msg'[m] = "dead" => tasks'[<<"message", m>>].status = "dead")
    PROVE  LeaseInv' /\ OneWorkerPerTask' /\ MessageInv'
           /\ DoneTaskIsSettled' /\ NoStrandedMessage' /\ DeadTogether'
  <1>1. TypeOK
    BY DEF IInv
  <1>2. LeaseInv'
    <2>1. ASSUME NEW v \in Workers, worker[v].pc \in Working
          PROVE  /\ tasks'[worker[v].task].status = tasks[worker[v].task].status
                 /\ tasks'[worker[v].task].locked = tasks[worker[v].task].locked
                 /\ tasks'[worker[v].task].lease = tasks[worker[v].task].lease
      BY <2>1, WorkerOwnsRow
    <2> QED
      BY <2>1 DEF IInv, LeaseInv, Settles
  <1>3. OneWorkerPerTask'
    BY DEF IInv, OneWorkerPerTask
  <1>4. \A t \in Task : Exists(tasks[t]) => Exists(tasks'[t])
    BY DEF Exists
  <1>5. MessageInv'
    <2>1. ASSUME NEW v \in Workers, worker[v].pc \in {"complete", "completing"},
                 worker[v].task[1] = "message"
          PROVE  msg'[worker[v].task[2]] \notin Unfinished
      <3>1. worker[v].pc \in Working
        BY <2>1 DEF Working, WorkerPc
      <3>2. worker[v].task \in Task /\ tasks[worker[v].task].status = "processing"
        BY <3>1, WorkerOwnsRow
      <3>3. worker[v].task[2] \in Messages /\ worker[v].task = <<"message", worker[v].task[2]>>
        BY <2>1, <3>2, TaskKeys
      <3>4. msg[worker[v].task[2]] \notin Unfinished /\ msg[worker[v].task[2]] # "none"
        BY <2>1, <3>2, <3>3 DEF IInv, MessageInv, Exists
      <3>5. msg[worker[v].task[2]] # "dead"
        BY <3>2, <3>3 DEF IInv, DeadTogether
      <3> QED
        BY <3>3, <3>4, <3>5
    <2>2. \A m \in Messages : msg'[m] = "none" => ~Exists(tasks'[<<"message", m>>])
      BY DEF IInv, MessageInv
    <2>3. \A m \in Messages : msg'[m] = "processing" => Exists(tasks'[<<"message", m>>])
      BY <1>4, TaskKeys DEF IInv, MessageInv
    <2> QED
      BY <2>1, <2>2, <2>3 DEF MessageInv
  <1>6. DoneTaskIsSettled'
    BY TaskKeys DEF IInv, DoneTaskIsSettled, Unfinished
  <1>7. NoStrandedMessage'
    <2>1. ASSUME NEW m \in Messages, msg'[m] \in Unfinished
          PROVE  \/ tasks'[<<"message", m>>].status \in {"pending", "processing"}
                 \/ msg'[m] \in {"queued", "failed"} /\ ~Exists(tasks'[<<"message", m>>])
      <3> DEFINE u == <<"message", m>>
      <3>1. u \in Task
        BY TaskKeys
      <3>2. CASE msg'[m] = msg[m]
        <4>1. \/ tasks[u].status \in {"pending", "processing"}
              \/ msg[m] \in {"queued", "failed"} /\ tasks[u].status = "none"
          BY <2>1, <3>2 DEF IInv, NoStrandedMessage, Orphans, Exists
        <4> QED
          BY <3>1, <3>2, <4>1 DEF Exists
      <3>3. CASE msg'[m] # msg[m]
        BY <3>3
      <3> QED
        BY <3>2, <3>3
    <2> QED
      BY <2>1 DEF NoStrandedMessage, Orphans
  <1>8. DeadTogether'
    BY <1>4, TaskKeys DEF IInv, DeadTogether
  <1> QED
    BY <1>2, <1>3, <1>5, <1>6, <1>7, <1>8

LEMMA EndpointInv ==
    ASSUME IInv, SingleReviver, TypeOK',
           \/ \E m \in Messages : Ingest(m)
           \/ ReconcileMessageTasks
           \/ \E k \in Accounts : Arrive(k) \/ BeginCreateSync(k)
           \/ CommitCreateSync
           \/ \E a \in Admins, t \in Task : BeginReplay(a, t)
           \/ \E a \in Admins : CommitReplay(a)
    PROVE  IInv'
  <1>0. TypeOK /\ Exists(NewRow) /\ NewRow.status = "pending"
    BY DEF IInv, Exists, NewRow, NoRow
  <1>1. ASSUME NEW m \in Messages, Ingest(m) PROVE IInv'
    <2> DEFINE t == <<"message", m>>
    <2>1. /\ t \in Task /\ tasks[t].status = "none"
          /\ tasks'[t] = NewRow /\ \A u \in Task \ {t} : tasks'[u] = tasks[u]
          /\ msg'[m] = "queued" /\ \A n \in Messages \ {m} : msg'[n] = msg[n]
      BY <1>0, <1>1, TaskKeys DEF Ingest, TypeOK, IInv, MessageInv, Exists
    <2>2. UNCHANGED <<worker, callback, admin>> /\ msg[m] = "none"
      BY <1>1 DEF Ingest
    <2>3. SessionInv'
      BY <1>0, <2>1, <2>2 DEF IInv, SessionInv, TypeOK, Task
    <2>4. \A n \in Messages \ {m} : /\ <<"message", n>> \in Task \ {t}
                                    /\ msg[n] = "dead" => tasks[<<"message", n>>].status = "dead"
      BY TaskKeys DEF IInv, DeadTogether
    <2> QED
      BY <1>0, <2>1, <2>2, <2>3, <2>4, ReviveInv DEF IInv
  <1>2. CASE ReconcileMessageTasks
    <2>1. \A u \in Task : tasks'[u] = tasks[u] \/ (tasks'[u] = NewRow /\ tasks[u].status = "none")
      <3>1. \A u \in Task : (\E m \in Orphans : u = <<"message", m>>) => tasks[u].status = "none"
        BY DEF Orphans, Exists
      <3>2. ASSUME NEW u \in Task
            PROVE  tasks'[u] = tasks[u] \/ (tasks'[u] = NewRow /\ tasks[u].status = "none")
        <4>1. tasks'[u] = IF \E m \in Orphans : u = <<"message", m>> THEN NewRow ELSE tasks[u]
          BY <1>2 DEF ReconcileMessageTasks
        <4> QED
          BY <3>1, <4>1
      <3> QED
        BY <3>2
    <2>2. UNCHANGED <<msg, worker, callback, admin>>
      BY <1>2 DEF ReconcileMessageTasks
    <2>3. \A m \in Messages : m \notin Orphans => tasks'[<<"message", m>>] = tasks[<<"message", m>>]
      BY <1>2, TaskKeys DEF ReconcileMessageTasks
    <2>4. SessionInv'
      <3>1. callback.open => callback.task \in Task /\ callback.task[1] = "sync"
        BY <1>0 DEF TypeOK, Task
      <3>2. callback.open => tasks'[callback.task] = tasks[callback.task]
        BY <1>2, <3>1 DEF ReconcileMessageTasks
      <3>3. \A a \in Admins : admin[a].open =>
               tasks'[admin[a].task] = tasks[admin[a].task]
        BY <1>0, <2>1 DEF IInv, SessionInv, TypeOK
      <3> QED
        BY <2>2, <3>2, <3>3 DEF IInv, SessionInv
    <2>5. \A m \in Messages : msg[m] \in {"none", "dead"} => m \notin Orphans
      BY DEF Orphans
    <2>6. \A m \in Messages : msg[m] = "dead" => tasks[<<"message", m>>].status = "dead"
      BY DEF IInv, DeadTogether
    <2> QED
      BY <1>0, <2>1, <2>2, <2>3, <2>4, <2>5, <2>6, ReviveInv DEF IInv
  <1>3. ASSUME UNCHANGED <<tasks, msg, worker>>, SessionInv' PROVE IInv'
    BY <1>3 DEF IInv, LeaseInv, OneWorkerPerTask, MessageInv, DoneTaskIsSettled,
                NoStrandedMessage, DeadTogether, Orphans, Settles
  <1>4. ASSUME NEW k \in Accounts, Arrive(k) PROVE IInv'
    BY <1>3, <1>4 DEF Arrive, IInv, SessionInv
  <1>5. ASSUME NEW k \in Accounts, BeginCreateSync(k) PROVE IInv'
    <2>1. <<"sync", k>> \in Task /\ tasks[<<"sync", k>>] \in Row
      BY <1>0, TaskKeys DEF TypeOK
    <2>2. Loaded(tasks[<<"sync", k>>]).status = tasks[<<"sync", k>>].status
      BY <2>1 DEF Loaded, Row
    <2> QED
      BY <1>3, <1>5, <2>2 DEF BeginCreateSync, IInv, SessionInv
  <1>6. ASSUME NEW a \in Admins, NEW t \in Task, BeginReplay(a, t) PROVE IInv'
    <2>1. tasks[t].status = "dead" /\ Loaded(tasks[t]).status = tasks[t].status
      BY <1>0, <1>6 DEF BeginReplay, Loaded, TypeOK, Row
    <2> QED
      BY <1>0, <1>3, <1>6, <2>1 DEF BeginReplay, IInv, SessionInv, TypeOK
  <1>7. \A m \in Messages : msg[m] = "dead" => tasks[<<"message", m>>].status = "dead"
    BY DEF IInv, DeadTogether
  <1>8. CASE CommitCreateSync
    <2> DEFINE t == callback.task
               seen == callback.seen
    <2>1. /\ t \in Task /\ t[1] = "sync" /\ tasks[t] \in Row /\ seen \in LoadedRow
          /\ Accounts # {}
      BY <1>0, <1>8 DEF CommitCreateSync, TypeOK, Session, Task
    <2>2. /\ tasks'[t] = IF Exists(seen) THEN Flush(tasks[t], seen, Reactivated(seen)) ELSE NewRow
          /\ \A u \in Task \ {t} : tasks'[u] = tasks[u]
          /\ callback' = IdleSession /\ UNCHANGED <<msg, worker, admin>> /\ callback.open
      BY <1>0, <1>8, <2>1 DEF CommitCreateSync, TypeOK
    <2>3. \/ tasks'[t].status = "pending" /\ tasks[t].status \notin {"pending", "processing"}
          \/ /\ tasks'[t].status = tasks[t].status
             /\ tasks'[t].locked = tasks[t].locked /\ tasks'[t].lease = tasks[t].lease
      <3>1. CASE seen.status \in {"done", "dead"}
        BY <2>1, <2>2, <3>1, RevivedStatus DEF IInv, SessionInv, Exists
      <3>2. CASE seen.status \in {"pending", "processing"}
        BY <2>1, <2>2, <3>2, RevivedStatus DEF Exists
      <3>3. CASE seen.status = "none"
        BY <1>0, <2>2, <3>3 DEF IInv, SessionInv, Exists
      <3>4. seen.status \in {"none", "pending", "processing", "done", "dead"}
        BY <2>1 DEF LoadedRow, TaskStatus
      <3> QED
        BY <3>1, <3>2, <3>3, <3>4
    <2>4. SessionInv'
      BY <2>1, <2>2, IdleTypes DEF SessionInv, SingleReviver
    <2>5. \A m \in Messages : <<"message", m>> \in Task \ {t}
      BY <2>1, TaskKeys
    <2>6. \A m \in Messages : /\ msg'[m] = msg[m]
                              /\ tasks'[<<"message", m>>] = tasks[<<"message", m>>]
      BY <2>2, <2>5
    <2> QED
      BY <1>7, <2>2, <2>3, <2>4, <2>6, ReviveInv DEF IInv
  <1>9. ASSUME NEW a \in Admins, CommitReplay(a) PROVE IInv'
    <2> DEFINE t == admin[a].task
               seen == admin[a].seen
    <2>1. t \in Task /\ tasks[t] \in Row /\ seen \in LoadedRow /\ admin[a].open
      BY <1>0, <1>9 DEF CommitReplay, TypeOK, Session
    <2>2. /\ tasks'[t] = Flush(tasks[t], seen, Replayed(seen))
          /\ \A u \in Task \ {t} : tasks'[u] = tasks[u]
          /\ \A m \in Messages : msg'[m] = IF t = <<"message", m>> /\ msg[m] = "dead"
                                           THEN "failed" ELSE msg[m]
          /\ admin'[a] = IdleSession /\ UNCHANGED <<worker, callback>>
      BY <1>0, <1>9, <2>1 DEF CommitReplay, TypeOK
    <2>3. seen.status = "dead" /\ tasks[t].status = "dead" /\ tasks'[t].status = "pending"
      BY <2>1, <2>2, RevivedStatus DEF IInv, SessionInv
    <2>4. SessionInv'
      <3>1. ~callback.open
        BY <1>0, <1>9 DEF SingleReviver, TypeOK
      <3> QED
        BY <2>2, <3>1, IdleTypes DEF SessionInv, SingleReviver
    <2>5. \A m \in Messages : t # <<"message", m>> => tasks'[<<"message", m>>] = tasks[<<"message", m>>]
      BY <2>2, TaskKeys
    <2>6. \A m \in Messages : msg[m] = "none" => t # <<"message", m>>
      BY <2>3 DEF IInv, MessageInv, Exists
    <2>7. \A m \in Messages :
             \/ msg'[m] = msg[m]
             \/ msg'[m] = "failed" /\ msg[m] = "dead" /\ t = <<"message", m>>
      BY <2>2
    <2>8. \A m \in Messages :
             /\ msg'[m] = "none" => tasks'[<<"message", m>>] = tasks[<<"message", m>>]
             /\ msg'[m] = "dead" => tasks'[<<"message", m>>].status = "dead"
      BY <1>7, <2>2, <2>5, <2>6
    <2> QED
      BY <2>2, <2>3, <2>4, <2>7, <2>8, ReviveInv DEF IInv
  <1> QED
    BY <1>1, <1>2, <1>4, <1>5, <1>6, <1>8, <1>9

LEMMA EnvironmentInv ==
    ASSUME IInv, NoLapses, TypeOK',
           \/ \E w \in Workers : Heartbeat(w) \/ Crash(w)
           \/ \E t \in Task : OrphanedLeaseExpires(t) \/ LeaseLapses(t) \/ BackoffElapses(t)
    PROVE  IInv'
  <1>0. TypeOK
    BY DEF IInv
  <1>1. ASSUME NEW w \in Workers, Heartbeat(w) PROVE IInv'
    <2>1. worker[w].pc \in Working /\ tasks[worker[w].task].locked = "stale"
      BY <1>1 DEF Heartbeat, Working, WorkerPc
    <2> QED
      BY <2>1 DEF IInv, LeaseInv
  <1>2. ASSUME NEW w \in Workers, Crash(w) PROVE IInv'
    <2>1. Restart(w) /\ UNCHANGED <<tasks, msg, callback, admin>>
      BY <1>2 DEF Crash, Restart
    <2> QED
      BY <1>0, <2>1, RestartFields, MoveInv DEF IInv
  <1>3. ASSUME NEW t \in Task, UNCHANGED <<msg, worker, callback, admin>>,
               \A u \in Task : /\ tasks'[u].status = tasks[u].status
                               /\ tasks'[u].lease = tasks[u].lease
                               /\ u # t => tasks'[u] = tasks[u],
               \A w \in Workers : worker[w].pc \in Working =>
                   worker[w].task # t \/ tasks'[t].locked = tasks[t].locked
        PROVE  IInv'
    <2>1. LeaseInv'
      <3>1. ASSUME NEW w \in Workers, worker[w].pc \in Working
            PROVE  /\ tasks'[worker[w].task].status = tasks[worker[w].task].status
                   /\ tasks'[worker[w].task].lease = tasks[worker[w].task].lease
                   /\ tasks'[worker[w].task].locked = tasks[worker[w].task].locked
        BY <1>3, <3>1, WorkerOwnsRow
      <3> QED
        BY <1>3, <3>1 DEF IInv, LeaseInv, Settles
    <2>2. OneWorkerPerTask'
      BY <1>3 DEF IInv, OneWorkerPerTask
    <2>3. SessionInv'
      BY <1>0, <1>3 DEF IInv, SessionInv, TypeOK, Task
    <2>4. MessageInv' /\ DoneTaskIsSettled' /\ NoStrandedMessage' /\ DeadTogether'
      <3>1. \A m \in Messages :
               /\ tasks'[<<"message", m>>].status = tasks[<<"message", m>>].status
               /\ tasks'[<<"notify", m>>].status = tasks[<<"notify", m>>].status
        BY <1>3, TaskKeys
      <3>2. MessageInv'
        BY <1>3, <3>1 DEF IInv, MessageInv, Exists
      <3>3. DoneTaskIsSettled'
        BY <1>3, <3>1 DEF IInv, DoneTaskIsSettled
      <3>4. NoStrandedMessage'
        BY <1>3, <3>1 DEF IInv, NoStrandedMessage, Orphans, Exists
      <3>5. DeadTogether'
        BY <1>3, <3>1 DEF IInv, DeadTogether, Exists
      <3> QED
        BY <3>2, <3>3, <3>4, <3>5
    <2> QED
      BY <2>1, <2>2, <2>3, <2>4 DEF IInv
  <1>4. ASSUME NEW t \in Task, OrphanedLeaseExpires(t) PROVE IInv'
    <2>1. \A u \in Task : /\ tasks'[u].status = tasks[u].status
                          /\ tasks'[u].lease = tasks[u].lease
                          /\ u # t => tasks'[u] = tasks[u]
      BY <1>0, <1>4 DEF OrphanedLeaseExpires, TypeOK, Row
    <2>2. \A w \in Workers : worker[w].pc \in Working => worker[w].task # t
      BY <1>4, WorkerOwnsRow DEF OrphanedLeaseExpires, Holds, Working
    <2> QED
      BY <1>3, <1>4, <2>1, <2>2 DEF OrphanedLeaseExpires
  <1>5. ASSUME NEW t \in Task, LeaseLapses(t) PROVE IInv'
    BY <1>0, <1>5 DEF LeaseLapses, NoLapses, TypeOK
  <1>6. ASSUME NEW t \in Task, BackoffElapses(t) PROVE IInv'
    <2>1. \A u \in Task : /\ tasks'[u].status = tasks[u].status
                          /\ tasks'[u].lease = tasks[u].lease
                          /\ tasks'[u].locked = tasks[u].locked
                          /\ u # t => tasks'[u] = tasks[u]
      BY <1>0, <1>6 DEF BackoffElapses, TypeOK, Row
    <2> QED
      BY <1>3, <1>6, <2>1 DEF BackoffElapses
  <1> QED
    BY <1>1, <1>2, <1>4, <1>5, <1>6

LEMMA StepInv == NoLapses /\ SingleReviver /\ IInv /\ [Next]_vars => IInv'
  <1> SUFFICES ASSUME NoLapses, SingleReviver, IInv, [Next]_vars PROVE IInv'
    OBVIOUS
  <1>1. TypeOK'
    BY StepType DEF IInv
  <1>2. CASE UNCHANGED vars
    BY <1>1, <1>2 DEF vars, IInv, LeaseInv, OneWorkerPerTask, SessionInv, MessageInv, Settles,
                      DoneTaskIsSettled, NoStrandedMessage, DeadTogether, Orphans
  <1>3. CASE Next
    BY <1>1, <1>3, ClaimInv, ExecuteInv, SettleInv, EndpointInv, EnvironmentInv
       DEF Next, DrainAvailableTasks
  <1> QED
    BY <1>2, <1>3

LEMMA Consequences ==
    ASSUME IInv
    PROVE  NoDoubleRun /\ ResultUnderOwnLease
  <1>1. NoDoubleRun
    BY DEF IInv, OneWorkerPerTask, NoDoubleRun, Executing, Working, WorkerPc
  <1>2. ResultUnderOwnLease
    BY DEF IInv, LeaseInv, ResultUnderOwnLease, Settles, OwnedBy, Working, WorkerPc
  <1> QED
    BY <1>1, <1>2

-----------------------------------------------------------------------------
(* The holder of a task.                                                   *)

\* Rows that nobody writes but their holder.
LEMMA HeldRow ==
    ASSUME IInv, NoLapses, NEW w \in Workers, NEW t \in Task, Holds(w, t),
           worker'[w] = worker[w], Next
    PROVE  tasks'[t].lease = tasks[t].lease
  <1>1. /\ worker[w].pc \in Working /\ worker[w].task = t /\ tasks[t] \in Row
        /\ TypeOK
    BY DEF Holds, Working, IInv, TypeOK, WorkerState
  <1>2. /\ tasks[t].status = "processing" /\ tasks[t].locked = "fresh"
        /\ \A v \in Workers \ {w} : worker[v].pc \in Working => worker[v].task # t
        /\ callback.open /\ callback.task = t => callback.seen.status \in {"pending", "processing"}
        /\ \A a \in Admins : admin[a].open => admin[a].task # t
    BY <1>1, WorkerOwnsRow DEF IInv, LeaseInv
  <1>3. ASSUME NEW v \in Workers, DrainAvailableTasks(v) \/ Heartbeat(v) \/ Crash(v)
        PROVE  tasks'[t].lease = tasks[t].lease
    <2>1. CASE Claim(v)
      <3>1. Claimable(tasks[worker[v].task]) /\ worker[v].task \in Task
        BY <1>1, <2>1 DEF Claim, Goto, TypeOK
      <3>2. worker[v].task # t
        BY <1>2, <3>1 DEF Claimable
      <3> QED
        BY <1>1, <2>1, <3>1, <3>2 DEF Claim, TypeOK
    <2>2. CASE Heartbeat(v)
      <3>1. worker[v].task \in Task
        BY <1>1, <2>2 DEF Heartbeat, TypeOK
      <3> QED
        BY <1>1, <2>2, <3>1 DEF Heartbeat, Renewed, TypeOK, Row
    <2>3. CASE CommitComplete(v) \/ CommitRetry(v) \/ CommitDead(v)
      <3>1. Settles(v) /\ Restart(v)
        BY <2>3 DEF CommitComplete, CommitRetry, CommitDead, Settles
      <3>2. worker'[v].pc # worker[v].pc
        BY <1>1, <3>1, RestartFields DEF Settles
      <3>3. worker[v].task # t /\ worker[v].task \in Task
        BY <1>1, <1>2, <3>1, <3>2 DEF Settles, Working, WorkerPc, TypeOK
      <3>4. CASE CommitComplete(v) \/ CommitRetry(v)
        BY <1>1, <3>3, <3>4 DEF CommitComplete, CommitRetry, TypeOK
      <3>5. CASE CommitDead(v)
        <4>1. \/ tasks'[t] = tasks[t]
              \/ ~Exists(tasks[t])
          BY <3>3, <3>5 DEF CommitDead
        <4> QED
          BY <1>2, <4>1 DEF Exists
      <3> QED
        BY <2>3, <3>4, <3>5
    <2>4. CASE UNCHANGED tasks
      BY <2>4
    <2> QED
      BY <1>3, <2>1, <2>2, <2>3, <2>4
         DEF DrainAvailableTasks, ClaimTask, ExecuteTask, SettleTask, SelectCandidate, Candidate,
             ClaimLost, ReadBack, FailEarly, SkipMessage, StartMessage, FinishMessage, AbortMessage,
             FetchAccount, Notify, BeginComplete, BeginFail, Settling, Crash
  <1>4. ASSUME NEW m \in Messages, Ingest(m)
        PROVE  tasks'[t].lease = tasks[t].lease
    <2>1. t # <<"message", m>>
      BY <1>2, <1>4 DEF Ingest, IInv, MessageInv, Exists
    <2> QED
      BY <1>1, <1>4, <2>1 DEF Ingest, TypeOK
  <1>5. CASE ReconcileMessageTasks
    <2>1. ~\E m \in Orphans : t = <<"message", m>>
      BY <1>2 DEF Orphans, Exists
    <2> QED
      BY <1>5, <2>1 DEF ReconcileMessageTasks
  <1>6. ASSUME NEW k \in Accounts, Arrive(k) \/ BeginCreateSync(k)
        PROVE  tasks'[t].lease = tasks[t].lease
    BY <1>6 DEF Arrive, BeginCreateSync
  <1>7. CASE CommitCreateSync
    <2>1. callback.open /\ callback.seen \in LoadedRow /\ callback.task \in Task
      BY <1>1, <1>7 DEF CommitCreateSync, TypeOK, Session, Task
    <2>2. CASE callback.task = t
      <3>1. tasks'[t] = Flush(tasks[t], callback.seen, Reactivated(callback.seen))
        BY <1>1, <1>2, <1>7, <2>1, <2>2 DEF CommitCreateSync, Exists, TypeOK
      <3> QED
        BY <1>1, <1>2, <2>1, <2>2, <3>1, RevivedStatus
    <2>3. CASE callback.task # t
      BY <1>1, <1>7, <2>1, <2>3 DEF CommitCreateSync, TypeOK
    <2> QED
      BY <2>2, <2>3
  <1>8. ASSUME NEW a \in Admins, NEW u \in Task, BeginReplay(a, u)
        PROVE  tasks'[t].lease = tasks[t].lease
    BY <1>8 DEF BeginReplay
  <1>9. ASSUME NEW a \in Admins, CommitReplay(a)
        PROVE  tasks'[t].lease = tasks[t].lease
    BY <1>1, <1>2, <1>9 DEF CommitReplay, TypeOK
  <1>10. ASSUME NEW u \in Task, OrphanedLeaseExpires(u) \/ LeaseLapses(u) \/ BackoffElapses(u)
         PROVE  tasks'[t].lease = tasks[t].lease
    BY <1>1, <1>10 DEF OrphanedLeaseExpires, LeaseLapses, BackoffElapses, TypeOK, Row
  <1> QED
    BY <1>3, <1>4, <1>5, <1>6, <1>7, <1>8, <1>9, <1>10 DEF Next

-----------------------------------------------------------------------------
(* The theorems.                                                           *)

LEMMA Invariance ==
    ASSUME NoLapses, SingleReviver
    PROVE  Spec => []IInv
  <1>1. IInv /\ [Next]_vars => IInv'
    BY StepInv
  <1> QED
    BY InitInv, <1>1, PTL DEF Spec

\* As long as no lease of a live worker lapses and only one session can revive
\* a dead row, a task is executed by one worker at a time (claim_task), however
\* many workers crash and when.
THEOREM LeaseSafety ==
    ASSUME NoLapses, SingleReviver
    PROVE  Spec => []NoDoubleRun
  <1> QED
    BY Invariance, Consequences, PTL

\* Under the same assumptions a result is committed only under the lease of the
\* worker that reports it (complete_task, fail_task): what was true when the
\* session found the row is still true at its commit.
THEOREM ResultsUnderLease ==
    ASSUME NoLapses, SingleReviver
    PROVE  Spec => []ResultUnderOwnLease
  <1> QED
    BY Invariance, Consequences, PTL

\* Under the same assumptions no message is forgotten: one that is unfinished
\* has a live task or will be given one by reconcile_message_tasks.
THEOREM MessagesAccountedFor ==
    ASSUME NoLapses, SingleReviver
    PROVE  Spec => []NoStrandedMessage
  <1>1. IInv => NoStrandedMessage
    BY DEF IInv
  <1> QED
    BY Invariance, <1>1, PTL

\* Under the same assumptions a done task means a settled message (complete_task).
THEOREM DoneMeansSettled ==
    ASSUME NoLapses, SingleReviver
    PROVE  Spec => []DoneTaskIsSettled
  <1>1. IInv => DoneTaskIsSettled
    BY DEF IInv
  <1> QED
    BY Invariance, <1>1, PTL

\* Under the same assumptions a dead message has its dead task and its
\* notification, and is revived with its task (fail_task, replay_task).
THEOREM DeadWithItsTask ==
    ASSUME NoLapses, SingleReviver
    PROVE  Spec => []DeadTogether
  <1>1. IInv => DeadTogether
    BY DEF IInv
  <1> QED
    BY Invariance, <1>1, PTL

\* Under the same assumptions a task is changed by nobody while a worker holds
\* it: neither its status nor its lease, whatever claims, callbacks, replays and
\* scans run beside the worker (claim_task, create_sync_task, replay_task).
THEOREM HolderIsAlone ==
    ASSUME NoLapses, SingleReviver
    PROVE  Spec => HolderKeepsTask
  <1> DEFINE Kept == \A w \in Workers, t \in Task :
                        (Holds(w, t) /\ worker'[w] = worker[w]) =>
                            /\ tasks'[t].status = "processing"
                            /\ tasks'[t].lease # tasks[t].lease => tasks[t].locked = "stale"
  <1>1. ASSUME IInv, IInv', [Next]_vars PROVE [Kept]_vars
    <2>1. SUFFICES ASSUME NEW w \in Workers, NEW t \in Task, Holds(w, t),
                          worker'[w] = worker[w], Next
                   PROVE  tasks'[t].status = "processing" /\ tasks'[t].lease = tasks[t].lease
      BY <1>1
    <2>2. worker'[w].pc \in Working /\ worker'[w].task = t
      BY <1>1, <2>1 DEF Holds, Working, IInv, TypeOK, WorkerState
    <2>3. tasks'[t].status = "processing"
      BY <1>1, <2>2 DEF IInv, LeaseInv
    <2> QED
      BY <1>1, <2>1, <2>3, HeldRow
  <1>2. Spec => []IInv
    BY Invariance
  <1> QED
    BY <1>1, <1>2, PTL DEF Spec, HolderKeepsTask

-----------------------------------------------------------------------------
(* Attempts.  What a commit leaves in the row, by what its session read.   *)

RowBudget(t, row) ==
    /\ row.status = "dead" => row.attempts >= MaxAttempts
    /\ row.status \in {"pending", "processing"} => row.attempts < MaxAttempts
    /\ row.status = "done" /\ t[1] = "sync" => row.attempts < MaxAttempts

LEMMA NewRowBudget == \A t : RowBudget(t, NewRow)
  BY MaxAttemptsAssumption DEF RowBudget, NewRow, NoRow

\* A result is written with the attempts that were read with it.
LEMMA FailedBudget ==
    ASSUME NEW t, NEW row \in Row, NEW seen \in LoadedRow,
           seen.status = "processing", seen.attempts < MaxAttempts
    PROVE  RowBudget(t, Flush(row, seen, Failed(seen)))
  <1>1. Released(seen) \in LoadedRow /\ Released(seen).attempts = seen.attempts
    BY ReleasedRow
  <1>2. seen.attempts \in Nat /\ MaxAttempts \in Nat
    BY MaxAttemptsAssumption DEF LoadedRow
  <1>3. Failed(seen).attempts = seen.attempts + 1
        /\ Failed(seen).status = IF Exhausted(seen) THEN "dead" ELSE "pending"
    BY <1>1 DEF Failed, LoadedRow
  <1>4. Flush(row, seen, Failed(seen)).attempts = seen.attempts + 1
    BY <1>2, <1>3 DEF Flush
  <1>5. Flush(row, seen, Failed(seen)).status = IF Exhausted(seen) THEN "dead" ELSE "pending"
    BY <1>3 DEF Flush
  <1> QED
    BY <1>2, <1>4, <1>5 DEF RowBudget, Exhausted

\* A completed row keeps its attempts: only a synchronisation may run again.
LEMMA CompletedBudget ==
    ASSUME NEW t, NEW row \in Row, NEW seen \in LoadedRow, seen.status = "processing",
           t[1] = "sync" => row.attempts < MaxAttempts
    PROVE  RowBudget(t, Flush(row, seen, Completed(seen, t[1])))
  <1>1. Released(seen) \in LoadedRow /\ Released(seen).attempts = seen.attempts
    BY ReleasedRow
  <1>2. Completed(seen, t[1]).attempts = seen.attempts
    BY <1>1 DEF Completed, LoadedRow
  <1>3. Flush(row, seen, Completed(seen, t[1])).attempts = row.attempts
    BY <1>2 DEF Flush
  <1>4. /\ Flush(row, seen, Completed(seen, t[1])).status \in {"pending", "done"}
        /\ t[1] # "sync" => Flush(row, seen, Completed(seen, t[1])).status = "done"
    BY SettledStatus
  <1> QED
    BY <1>3, <1>4 DEF RowBudget

\* A dead row that is revived starts over.
LEMMA RevivedBudget ==
    ASSUME NEW t, NEW row \in Row, NEW seen \in LoadedRow,
           seen.status = "dead", seen.attempts >= MaxAttempts
    PROVE  /\ RowBudget(t, Flush(row, seen, Replayed(seen)))
           /\ RowBudget(t, Flush(row, seen, Reactivated(seen)))
  <1>1. Released(seen) \in LoadedRow /\ Replayed(seen) \in LoadedRow
    BY ReleasedRow, LoadedTypes
  <1>2. seen.attempts \in Nat /\ seen.attempts # 0 /\ 0 < MaxAttempts
    BY MaxAttemptsAssumption DEF LoadedRow
  <1>3. Replayed(seen).attempts = 0
    BY <1>1 DEF Replayed, LoadedRow
  <1>4. Reactivated(seen).attempts = 0
    BY <1>1, <1>3 DEF Reactivated, LoadedRow
  <1>5. /\ Flush(row, seen, Replayed(seen)).attempts = 0
        /\ Flush(row, seen, Reactivated(seen)).attempts = 0
    BY <1>2, <1>3, <1>4 DEF Flush
  <1>6. /\ Flush(row, seen, Replayed(seen)).status = "pending"
        /\ Flush(row, seen, Reactivated(seen)).status = "pending"
    BY RevivedStatus
  <1> QED
    BY <1>2, <1>5, <1>6 DEF RowBudget

\* A callback that reads a row that is not dead writes 0 or nothing.
LEMMA ReactivatedBudget ==
    ASSUME NEW t, NEW row \in Row, NEW seen \in LoadedRow, RowBudget(t, row), t[1] = "sync",
           seen.status \in {"pending", "processing", "done"},
           seen.status = "done" => row.status = "done"
    PROVE  RowBudget(t, Flush(row, seen, Reactivated(seen)))
  <1>1. Released(seen) \in LoadedRow /\ Replayed(seen) \in LoadedRow
    BY ReleasedRow, LoadedTypes
  <1>2. CASE seen.status = "done"
    <2>1. Replayed(seen).attempts = 0
      BY <1>1 DEF Replayed, LoadedRow
    <2>2. Reactivated(seen).attempts = 0
      BY <1>1, <1>2, <2>1 DEF Reactivated, LoadedRow
    <2>3. Flush(row, seen, Reactivated(seen)).attempts \in {0, row.attempts}
      BY <2>2 DEF Flush
    <2>4. Flush(row, seen, Reactivated(seen)).status = "pending"
      BY <1>2, RevivedStatus
    <2>5. row.attempts < MaxAttempts /\ 0 < MaxAttempts
      BY <1>2, MaxAttemptsAssumption DEF RowBudget
    <2> QED
      BY <2>3, <2>4, <2>5 DEF RowBudget
  <1>3. CASE seen.status \in {"pending", "processing"}
    <2>1. Reactivated(seen).attempts = seen.attempts
      BY <1>3 DEF Reactivated, LoadedRow
    <2>2. Flush(row, seen, Reactivated(seen)).attempts = row.attempts
      BY <2>1 DEF Flush
    <2>3. Flush(row, seen, Reactivated(seen)).status = row.status
      BY <1>3, RevivedStatus
    <2> QED
      BY <2>2, <2>3 DEF RowBudget
  <1> QED
    BY <1>2, <1>3

LEMMA BudgetOfRows ==
    ASSUME TypeOK, BudgetInv, NEW t \in Task
    PROVE  RowBudget(t, tasks[t])
  <1>1. t[1] = "sync" => t[2] \in Accounts /\ t = <<"sync", t[2]>>
    BY TaskKeys
  <1> QED
    BY <1>1 DEF BudgetInv, AttemptBudget, RowBudget

\* What a step may do to rows and sessions.
LEMMA BudgetKept ==
    ASSUME BudgetInv,
           \A t \in Task : tasks'[t] = tasks[t] \/ RowBudget(t, tasks'[t]),
           \A w \in Workers : Settles(w)' =>
               \/ Settles(w) /\ worker'[w].seen = worker[w].seen
               \/ worker'[w].seen.status = "processing" /\ worker'[w].seen.attempts < MaxAttempts,
           \/ callback' = callback \/ ~callback'.open
           \/ callback'.seen.status = "dead" => callback'.seen.attempts >= MaxAttempts,
           \A a \in Admins :
               \/ admin'[a] = admin[a] \/ ~admin'[a].open
               \/ admin'[a].seen.status = "dead" /\ admin'[a].seen.attempts >= MaxAttempts
    PROVE  BudgetInv'
  <1>1. AttemptBudget'
    BY DEF BudgetInv, AttemptBudget, RowBudget
  <1>2. ASSUME NEW k \in Accounts, tasks'[<<"sync", k>>].status = "done"
        PROVE  tasks'[<<"sync", k>>].attempts < MaxAttempts
    BY <1>2, TaskKeys DEF BudgetInv, RowBudget
  <1>3. \A w \in Workers : Settles(w)' => /\ worker'[w].seen.status = "processing"
                                          /\ worker'[w].seen.attempts < MaxAttempts
    BY DEF BudgetInv
  <1>4. callback'.open /\ callback'.seen.status = "dead" => callback'.seen.attempts >= MaxAttempts
    BY DEF BudgetInv
  <1>5. \A a \in Admins : admin'[a].open => /\ admin'[a].seen.status = "dead"
                                            /\ admin'[a].seen.attempts >= MaxAttempts
    BY DEF BudgetInv
  <1> QED
    BY <1>1, <1>2, <1>3, <1>4, <1>5 DEF BudgetInv

LEMMA LoadedFields ==
    \A row \in Row : Loaded(row).status = row.status /\ Loaded(row).attempts = row.attempts
  BY DEF Loaded, Row

\* The loop of a worker up to its commit.
LEMMA LoopBudget ==
    ASSUME TypeOK, BudgetInv, NEW w \in Workers,
           \/ ClaimTask(w) \/ ExecuteTask(w) \/ Heartbeat(w) \/ Crash(w)
           \/ BeginComplete(w) \/ BeginFail(w)
    PROVE  BudgetInv'
  <1>1. ASSUME NEW to \in WorkerPc \ {"completing", "failing"}, NEW from \in WorkerPc,
               Goto(w, from, to), UNCHANGED <<tasks, callback, admin>>
        PROVE  BudgetInv'
    BY <1>1, GotoFields, BudgetKept DEF Settles
  <1>2. ASSUME Restart(w), UNCHANGED <<tasks, callback, admin>>
        PROVE  BudgetInv'
    BY <1>2, RestartFields, BudgetKept DEF Settles
  <1>3. CASE SelectCandidate(w)
    <2>1. worker'[w].pc = "claim" /\ \A v \in Workers \ {w} : worker'[v] = worker[v]
      <3>1. worker[w] \in WorkerState
        BY DEF TypeOK
      <3> QED
        BY <1>3, <3>1 DEF SelectCandidate, Candidate, TypeOK, WorkerState
    <2> QED
      BY <1>3, <2>1, BudgetKept DEF SelectCandidate, Candidate, Settles
  <1>4. CASE Claim(w)
    <2> DEFINE t == worker[w].task
    <2>1. /\ worker[w].pc = "claim" /\ worker'[w].pc = "readback" /\ t \in Task
          /\ \A v \in Workers \ {w} : worker'[v] = worker[v]
      BY <1>4, GotoFields DEF Claim, WorkerPc, TypeOK
    <2>2. /\ tasks[t].status \in {"pending", "processing"}
          /\ \A u \in Task \ {t} : tasks'[u] = tasks[u]
          /\ tasks'[t].status = "processing" /\ tasks'[t].attempts = tasks[t].attempts
      BY <1>4, <2>1 DEF Claim, Claimed, Claimable, TypeOK, Row
    <2>3. RowBudget(t, tasks'[t])
      BY <2>1, <2>2, BudgetOfRows DEF RowBudget
    <2> QED
      BY <1>4, <2>1, <2>2, <2>3, BudgetKept DEF Claim, Settles
  <1>5. CASE ClaimLost(w)
    BY <1>2, <1>5 DEF ClaimLost
  <1>6. CASE ReadBack(w)
    <2>1. worker'[w].pc = "run" /\ \A v \in Workers \ {w} : worker'[v] = worker[v]
      <3>1. worker[w] \in WorkerState
        BY DEF TypeOK
      <3> QED
        BY <1>6, <3>1 DEF ReadBack, TypeOK, WorkerState
    <2> QED
      BY <1>6, <2>1, BudgetKept DEF ReadBack, Settles
  <1>7. CASE ExecuteTask(w)
    <2>1. PICK from \in WorkerPc, to \in WorkerPc \ {"completing", "failing"} : Goto(w, from, to)
      BY <1>7 DEF ExecuteTask, FailEarly, SkipMessage, StartMessage, FinishMessage, AbortMessage,
                  FetchAccount, Notify, WorkerPc
    <2>2. UNCHANGED <<tasks, callback, admin>>
      BY <1>7 DEF ExecuteTask, FailEarly, SkipMessage, StartMessage, FinishMessage, AbortMessage,
                  FetchAccount, Notify
    <2> QED
      BY <1>1, <2>1, <2>2
  <1>8. CASE Heartbeat(w)
    <2> DEFINE t == worker[w].task
    <2>1. t \in Task
      BY <1>8 DEF Heartbeat, TypeOK
    <2>2. /\ \A u \in Task \ {t} : tasks'[u] = tasks[u]
          /\ tasks'[t].status = tasks[t].status /\ tasks'[t].attempts = tasks[t].attempts
      BY <1>8, <2>1 DEF Heartbeat, Renewed, TypeOK, Row
    <2>3. RowBudget(t, tasks'[t])
      BY <2>1, <2>2, BudgetOfRows DEF RowBudget
    <2> QED
      BY <1>8, <2>2, <2>3, BudgetKept DEF Heartbeat, Settles
  <1>9. CASE Crash(w)
    BY <1>2, <1>9 DEF Crash, Restart
  <1>10. CASE BeginComplete(w) \/ BeginFail(w)
    <2> DEFINE t == worker[w].task
    <2>1. worker[w].pc \in {"complete", "fail"} /\ worker[w] \in WorkerState /\ t \in Task /\ tasks[t] \in Row
      BY <1>10 DEF BeginComplete, BeginFail, Settling, TypeOK
    <2>2. UNCHANGED <<tasks, callback, admin>>
      BY <1>10 DEF BeginComplete, BeginFail, Settling
    <2>3. CASE Restart(w)
      BY <1>2, <2>2, <2>3
    <2>4. CASE ~Restart(w)
      <3>1. OwnedBy(tasks[t], worker[w].lease)
        BY <1>10, <2>4 DEF BeginComplete, BeginFail, Settling
      <3>2. PICK to \in WorkerPc :
               worker' = [worker EXCEPT ![w] = [@ EXCEPT !.pc = to, !.seen = Loaded(tasks[t])]]
        BY <1>10, <2>4 DEF BeginComplete, BeginFail, Settling, WorkerPc
      <3>3. worker'[w].seen = Loaded(tasks[t]) /\ \A v \in Workers \ {w} : worker'[v] = worker[v]
        BY <2>1, <3>2 DEF TypeOK, WorkerState
      <3>4. worker'[w].seen.status = "processing" /\ worker'[w].seen.attempts < MaxAttempts
        <4>1. tasks[t].status = "processing"
          BY <3>1 DEF OwnedBy
        <4>2. RowBudget(t, tasks[t])
          BY <2>1, BudgetOfRows
        <4> QED
          BY <2>1, <3>3, <4>1, <4>2, LoadedFields DEF RowBudget
      <3> QED
        BY <2>2, <3>3, <3>4, BudgetKept DEF Settles
    <2> QED
      BY <2>3, <2>4
  <1> QED
    BY <1>3, <1>4, <1>5, <1>6, <1>7, <1>8, <1>9, <1>10 DEF ClaimTask

\* The commits of complete_task and fail_task.  A synchronisation that is to
\* run again keeps the attempts of the row, whatever they are by now.
LEMMA CommitBudget ==
    ASSUME TypeOK, BudgetInv, Accounts = {} \/ IInv, NEW w \in Workers,
           CommitComplete(w) \/ CommitRetry(w) \/ CommitDead(w)
    PROVE  BudgetInv'
  <1> DEFINE t == worker[w].task
             seen == worker[w].seen
  <1>1. /\ Settles(w) /\ Restart(w) /\ UNCHANGED <<callback, admin>>
        /\ worker[w].pc # "idle"
    BY DEF CommitComplete, CommitRetry, CommitDead, Settles
  <1>2. t \in Task /\ tasks[t] \in Row /\ seen \in LoadedRow
    BY <1>1 DEF TypeOK, WorkerState
  <1>3. seen.status = "processing" /\ seen.attempts < MaxAttempts
    BY <1>1 DEF BudgetInv
  <1>4. t[1] = "sync" => tasks[t].attempts < MaxAttempts
    <2>1. ASSUME t[1] = "sync" PROVE IInv
      BY <1>2, <2>1, TaskKeys
    <2>2. ASSUME IInv PROVE tasks[t].status = "processing"
      BY <1>1, <2>2, WorkerOwnsRow DEF Settles, Working, WorkerPc
    <2> QED
      BY <1>2, <2>1, <2>2, BudgetOfRows DEF RowBudget
  <1>5. RowBudget(t, tasks'[t])
    <2>1. CASE CommitComplete(w)
      BY <1>2, <1>3, <1>4, <2>1, CompletedBudget DEF CommitComplete, TypeOK
    <2>2. CASE CommitRetry(w)
      BY <1>2, <1>3, <2>2, FailedBudget DEF CommitRetry, TypeOK
    <2>3. CASE CommitDead(w)
      BY <1>2, <1>3, <2>3, FailedBudget DEF CommitDead, TypeOK
    <2> QED
      BY <2>1, <2>2, <2>3
  <1>6. \A u \in Task \ {t} : tasks'[u] \in {tasks[u], NewRow}
    BY <1>2 DEF CommitComplete, CommitRetry, CommitDead, TypeOK
  <1>7. \A v \in Workers : Settles(v)' => Settles(v) /\ worker'[v].seen = worker[v].seen
    BY <1>1, RestartFields DEF Settles
  <1> QED
    BY <1>1, <1>5, <1>6, <1>7, NewRowBudget, BudgetKept

LEMMA EndpointBudget ==
    ASSUME TypeOK, BudgetInv, Accounts = {} \/ IInv,
           \/ \E m \in Messages : Ingest(m)
           \/ ReconcileMessageTasks
           \/ \E k \in Accounts : Arrive(k) \/ BeginCreateSync(k)
           \/ CommitCreateSync
           \/ \E a \in Admins, t \in Task : BeginReplay(a, t)
           \/ \E a \in Admins : CommitReplay(a)
    PROVE  BudgetInv'
  <1>1. ASSUME UNCHANGED <<worker, callback, admin>>,
               \A t \in Task : tasks'[t] = tasks[t] \/ tasks'[t] = NewRow
        PROVE  BudgetInv'
    BY <1>1, NewRowBudget, BudgetKept DEF Settles
  <1>2. ASSUME NEW m \in Messages, Ingest(m) PROVE BudgetInv'
    BY <1>1, <1>2, TaskKeys DEF Ingest, TypeOK
  <1>3. CASE ReconcileMessageTasks
    BY <1>1, <1>3 DEF ReconcileMessageTasks
  <1>4. ASSUME NEW k \in Accounts, Arrive(k) PROVE BudgetInv'
    BY <1>1, <1>4 DEF Arrive
  <1>5. ASSUME NEW k \in Accounts, BeginCreateSync(k) PROVE BudgetInv'
    <2>1. <<"sync", k>> \in Task /\ tasks[<<"sync", k>>] \in Row
      BY TaskKeys DEF TypeOK
    <2>2. callback'.seen.status = "dead" => callback'.seen.attempts >= MaxAttempts
      BY <1>5, <2>1, LoadedFields DEF BeginCreateSync, BudgetInv, AttemptBudget
    <2> QED
      BY <1>5, <2>2, BudgetKept DEF BeginCreateSync, Settles
  <1>6. CASE CommitCreateSync
    <2> DEFINE t == callback.task
               seen == callback.seen
    <2>1. /\ t \in Task /\ t[1] = "sync" /\ tasks[t] \in Row /\ seen \in LoadedRow
          /\ Accounts # {}
      BY <1>6 DEF CommitCreateSync, TypeOK, Session, Task
    <2>2. /\ tasks'[t] = IF Exists(seen) THEN Flush(tasks[t], seen, Reactivated(seen)) ELSE NewRow
          /\ \A u \in Task \ {t} : tasks'[u] = tasks[u]
          /\ callback' = IdleSession /\ UNCHANGED <<worker, admin>> /\ callback.open
      BY <1>6, <2>1 DEF CommitCreateSync, TypeOK
    <2>3. RowBudget(t, tasks[t])
      BY <2>1, BudgetOfRows
    <2>4. seen.status = "done" => tasks[t].status = "done"
      BY <2>1, <2>2 DEF IInv, SessionInv
    <2>5. RowBudget(t, tasks'[t])
      <3>1. CASE seen.status = "none"
        BY <2>2, <3>1, NewRowBudget DEF Exists
      <3>2. CASE seen.status = "dead"
        BY <2>1, <2>2, <3>2, RevivedBudget DEF BudgetInv, Exists
      <3>3. CASE seen.status \in {"pending", "processing", "done"}
        BY <2>1, <2>2, <2>3, <2>4, <3>3, ReactivatedBudget DEF Exists
      <3> QED
        BY <2>1, <3>1, <3>2, <3>3 DEF LoadedRow, TaskStatus
    <2> QED
      BY <2>2, <2>5, IdleTypes, BudgetKept DEF Settles
  <1>7. ASSUME NEW a \in Admins, NEW t \in Task, BeginReplay(a, t) PROVE BudgetInv'
    <2>1. admin'[a].seen = Loaded(tasks[t]) /\ \A b \in Admins \ {a} : admin'[b] = admin[b]
      BY <1>7 DEF BeginReplay, TypeOK
    <2>2. tasks[t].status = "dead" /\ tasks[t] \in Row /\ UNCHANGED <<tasks, worker, callback>>
      BY <1>7 DEF BeginReplay, TypeOK
    <2>3. admin'[a].seen.status = "dead" /\ admin'[a].seen.attempts >= MaxAttempts
      BY <2>1, <2>2, LoadedFields DEF BudgetInv, AttemptBudget
    <2> QED
      BY <2>1, <2>2, <2>3, BudgetKept DEF Settles
  <1>8. ASSUME NEW a \in Admins, CommitReplay(a) PROVE BudgetInv'
    <2> DEFINE t == admin[a].task
               seen == admin[a].seen
    <2>1. t \in Task /\ tasks[t] \in Row /\ seen \in LoadedRow /\ admin[a].open
      BY <1>8 DEF CommitReplay, TypeOK, Session
    <2>2. /\ tasks'[t] = Flush(tasks[t], seen, Replayed(seen))
          /\ \A u \in Task \ {t} : tasks'[u] = tasks[u]
          /\ admin'[a] = IdleSession /\ UNCHANGED <<worker, callback>>
          /\ \A b \in Admins \ {a} : admin'[b] = admin[b]
      BY <1>8, <2>1 DEF CommitReplay, TypeOK
    <2>3. RowBudget(t, tasks'[t])
      BY <2>1, <2>2, RevivedBudget DEF BudgetInv
    <2> QED
      BY <2>2, <2>3, IdleTypes, BudgetKept DEF Settles
  <1> QED
    BY <1>2, <1>3, <1>4, <1>5, <1>6, <1>7, <1>8

LEMMA TimeBudget ==
    ASSUME TypeOK, BudgetInv, NEW t \in Task,
           OrphanedLeaseExpires(t) \/ LeaseLapses(t) \/ BackoffElapses(t)
    PROVE  BudgetInv'
  <1>1. \A u \in Task : tasks'[u].status = tasks[u].status /\ tasks'[u].attempts = tasks[u].attempts
    BY DEF OrphanedLeaseExpires, LeaseLapses, BackoffElapses, TypeOK, Row
  <1>2. \A u \in Task : RowBudget(u, tasks'[u])
    BY <1>1, BudgetOfRows DEF RowBudget
  <1>3. UNCHANGED <<worker, callback, admin>>
    BY DEF OrphanedLeaseExpires, LeaseLapses, BackoffElapses
  <1> QED
    BY <1>2, <1>3, BudgetKept DEF Settles

LEMMA InitBudget == Init => BudgetInv
  <1> SUFFICES ASSUME Init PROVE BudgetInv
    OBVIOUS
  <1>1. \A t \in Task : tasks[t].status = "none"
    BY DEF Init, NoRow
  <1> QED
    BY <1>1, IdleTypes, TaskKeys DEF Init, BudgetInv, AttemptBudget, Settles

LEMMA StepBudget ==
    ASSUME TypeOK, BudgetInv, Accounts = {} \/ IInv, [Next]_vars
    PROVE  BudgetInv'
  <1>1. CASE UNCHANGED vars
    BY <1>1 DEF vars, BudgetInv, AttemptBudget, Settles
  <1>2. CASE Next
    BY <1>2, LoopBudget, CommitBudget, EndpointBudget, TimeBudget
       DEF Next, DrainAvailableTasks, SettleTask
  <1> QED
    BY <1>1, <1>2

\* A task of a message is dead exactly when its attempts are used up, whatever
\* leases lapse, workers crash and administrators replay at the same time: each
\* commit writes the attempts that go with the status (fail_task, replay_task).
\* Where there are synchronisations too the leases must hold, because a rerun
\* keeps the attempts of a row that another worker may have marked dead.
THEOREM AttemptsBounded ==
    ASSUME Accounts = {} \/ (NoLapses /\ SingleReviver)
    PROVE  Spec => []AttemptBudget
  <1>1. BudgetInv => AttemptBudget
    BY DEF BudgetInv
  <1>2. CASE Accounts = {}
    <2>1. TypeOK /\ BudgetInv /\ [Next]_vars => BudgetInv'
      BY <1>2, StepBudget
    <2> QED
      BY <1>1, <2>1, TypeCorrect, InitBudget, PTL DEF Spec
  <1>3. CASE NoLapses /\ SingleReviver
    <2>1. IInv /\ BudgetInv /\ [Next]_vars => BudgetInv'
      BY StepBudget DEF IInv
    <2>2. Spec => []IInv
      BY <1>3, Invariance
    <2> QED
      BY <1>1, <2>1, <2>2, InitBudget, PTL DEF Spec
  <1> QED
    BY <1>2, <1>3

-----------------------------------------------------------------------------
(* Refinement: the rows and the leases are a queue with atomic operations. *)

QueueVars == <<RowStatus, RowAttempts, Hands>>

\* After the step no open session relies on the attempts of the task c.
Unwatched(c) ==
    /\ \A w \in Workers : Settles(w)' => worker'[w].task # c
    /\ callback'.open /\ callback'.seen.status \in {"none", "done", "dead"} => callback'.task # c
    /\ \A a \in Admins : admin'[a].open => admin'[a].task # c

\* What a step may do to rows and sessions; c is the task whose attempts it may change.
LEMMA SeenKept ==
    ASSUME SeenInv, TypeOK', NEW c,
           \A t \in Task : tasks'[t].status = "none" => tasks[t].status = "none",
           \A t \in Task \ {c} : tasks'[t].attempts = tasks[t].attempts,
           \/ c \in Task => tasks'[c].attempts = tasks[c].attempts
           \/ tasks'[c].status # "none" /\ Unwatched(c),
           \A w \in Workers : Settles(w)' =>
               \/ Settles(w) /\ worker'[w].seen = worker[w].seen /\ worker'[w].task = worker[w].task
               \/ SameAttempts(worker'[w].seen, worker'[w].task),
           \/ callback' = callback \/ ~callback'.open
           \/ SameAttempts(callback'.seen, callback'.task),
           \A a \in Admins :
               \/ admin'[a] = admin[a] \/ ~admin'[a].open
               \/ SameAttempts(admin'[a].seen, admin'[a].task)
    PROVE  SeenInv'
  <1>1. ASSUME NEW t \in Task, tasks'[t].status = "none" PROVE tasks'[t].attempts = 0
    BY <1>1 DEF SeenInv
  <1>2. ASSUME NEW w \in Workers, Settles(w)'
        PROVE  worker'[w].seen.attempts = tasks'[worker'[w].task].attempts
    <2>1. worker'[w].task \in Task
      BY <1>2 DEF TypeOK, Settles
    <2>2. worker'[w].seen.attempts = tasks[worker'[w].task].attempts
      BY <1>2 DEF SeenInv, SameAttempts
    <2> QED
      BY <1>2, <2>1, <2>2 DEF Unwatched
  <1>3. ASSUME callback'.open, callback'.seen.status \in {"none", "done", "dead"}
        PROVE  callback'.seen.attempts = tasks'[callback'.task].attempts
    <2>1. callback'.task \in Task
      BY <1>3 DEF TypeOK, Task
    <2>2. callback'.seen.attempts = tasks[callback'.task].attempts
      BY <1>3 DEF SeenInv, SameAttempts
    <2> QED
      BY <1>3, <2>1, <2>2 DEF Unwatched
  <1>4. ASSUME NEW a \in Admins, admin'[a].open
        PROVE  admin'[a].seen.attempts = tasks'[admin'[a].task].attempts
    <2>1. admin'[a].task \in Task
      BY <1>4 DEF TypeOK
    <2>2. admin'[a].seen.attempts = tasks[admin'[a].task].attempts
      BY <1>4 DEF SeenInv, SameAttempts
    <2> QED
      BY <1>4, <2>1, <2>2 DEF Unwatched
  <1> QED
    BY <1>1, <1>2, <1>3, <1>4 DEF SeenInv, SameAttempts

LEMMA SameRows ==
    ASSUME \A t \in Task : /\ tasks'[t].status = tasks[t].status
                           /\ tasks'[t].attempts = tasks[t].attempts
    PROVE  UNCHANGED <<RowStatus, RowAttempts>>
  BY DEF RowStatus, RowAttempts

LEMMA SameHands ==
    ASSUME \A w \in Workers :
               \/ worker'[w].task = worker[w].task
                  /\ (worker'[w].pc \in Working <=> worker[w].pc \in Working)
               \/ worker'[w].pc \notin Working /\ worker[w].pc \notin Working
    PROVE  UNCHANGED Hands
  BY DEF Hands

LEMMA OneHand ==
    ASSUME NEW w \in Workers, \A v \in Workers \ {w} : worker'[v] = worker[v]
    PROVE  /\ worker'[w].pc \in Working => Hands' = [Hands EXCEPT ![w] = {worker'[w].task}]
           /\ worker'[w].pc \notin Working => Hands' = [Hands EXCEPT ![w] = {}]
  BY DEF Hands

\* The loop of a worker up to its commit: only the claim is an operation of the queue.
LEMMA LoopIsAtomic ==
    ASSUME IInv, SeenInv, TypeOK', NEW w \in Workers,
           \/ ClaimTask(w) \/ ExecuteTask(w) \/ Heartbeat(w) \/ Crash(w)
           \/ BeginComplete(w) \/ BeginFail(w)
    PROVE  SeenInv' /\ [AtomicQueue!Next]_QueueVars
  <1>0. TypeOK
    BY DEF IInv
  <1>1. ASSUME NEW from \in WorkerPc, NEW to \in WorkerPc \ {"completing", "failing"},
               Goto(w, from, to), from \in Working <=> to \in Working,
               UNCHANGED <<tasks, callback, admin>>
        PROVE  SeenInv' /\ [AtomicQueue!Next]_QueueVars
    <2>1. SeenInv'
      BY <1>0, <1>1, GotoFields, SeenKept DEF Settles
    <2>2. UNCHANGED QueueVars
      BY <1>0, <1>1, GotoFields, SameRows, SameHands DEF QueueVars
    <2> QED
      BY <2>1, <2>2
  <1>2. ASSUME Restart(w), UNCHANGED <<tasks, callback, admin>>
        PROVE  SeenInv' /\ [AtomicQueue!Next]_QueueVars
    <2>1. worker'[w].pc = "idle" /\ \A v \in Workers \ {w} : worker'[v] = worker[v]
      BY <1>0, <1>2, RestartFields
    <2>2. SeenInv'
      BY <1>2, <2>1, SeenKept DEF Settles
    <2>3. AtomicQueue!Lose(w)
      BY <1>2, <2>1, OneHand, SameRows DEF AtomicQueue!Lose, Working
    <2> QED
      BY <2>2, <2>3 DEF AtomicQueue!Next
  <1>3. CASE SelectCandidate(w)
    <2>1. /\ worker[w].pc = "idle" /\ worker'[w].pc = "claim"
          /\ \A v \in Workers \ {w} : worker'[v] = worker[v]
          /\ UNCHANGED <<tasks, callback, admin>>
      <3>1. worker[w] \in WorkerState
        BY <1>0 DEF TypeOK
      <3> QED
        BY <1>0, <1>3, <3>1 DEF SelectCandidate, Candidate, TypeOK, WorkerState
    <2>2. SeenInv'
      BY <2>1, SeenKept DEF Settles
    <2>3. UNCHANGED QueueVars
      BY <2>1, SameRows, SameHands DEF QueueVars, Working
    <2> QED
      BY <2>2, <2>3
  <1>4. CASE Claim(w)
    <2> DEFINE t == worker[w].task
    <2>1. /\ worker[w].pc = "claim" /\ worker'[w].pc = "readback" /\ t \in Task
          /\ worker'[w].task = t /\ \A v \in Workers \ {w} : worker'[v] = worker[v]
          /\ UNCHANGED <<callback, admin>>
      BY <1>0, <1>4, GotoFields DEF Claim, WorkerPc, TypeOK
    <2>2. /\ Claimable(tasks[t]) /\ tasks[t].status \in {"pending", "processing"}
          /\ \A u \in Task \ {t} : tasks'[u] = tasks[u]
          /\ tasks'[t].status = "processing" /\ tasks'[t].attempts = tasks[t].attempts
      BY <1>0, <1>4, <2>1 DEF Claim, Claimed, Claimable, TypeOK, Row
    <2>3. SeenInv'
      BY <2>1, <2>2, SeenKept DEF Settles
    <2>4. AtomicQueue!Free(t)
      <3>1. \A v \in Workers : worker[v].pc \in Working =>
                tasks[worker[v].task].status = "processing" /\ tasks[worker[v].task].locked = "fresh"
        BY DEF IInv, LeaseInv
      <3>2. \A v \in Workers : worker[v].pc \in Working => worker[v].task # t
        BY <2>2, <3>1 DEF Claimable
      <3> QED
        BY <3>2 DEF AtomicQueue!Free, Hands
    <2>5. Hands[w] = {} /\ Hands' = [Hands EXCEPT ![w] = {t}]
      BY <2>1, OneHand DEF Hands, Working, WorkerPc
    <2>6. /\ RowStatus[t] \in {"pending", "processing"}
          /\ RowStatus' = [RowStatus EXCEPT ![t] = "processing"] /\ UNCHANGED RowAttempts
      BY <2>1, <2>2 DEF RowStatus, RowAttempts
    <2>7. AtomicQueue!Claim(w, t)
      BY <2>4, <2>5, <2>6 DEF AtomicQueue!Claim
    <2> QED
      BY <2>1, <2>3, <2>7 DEF AtomicQueue!Next
  <1>5. CASE ClaimLost(w)
    BY <1>2, <1>5 DEF ClaimLost
  <1>6. CASE ReadBack(w)
    <2>1. /\ worker[w].pc = "readback" /\ worker'[w].pc = "run" /\ worker'[w].task = worker[w].task
          /\ \A v \in Workers \ {w} : worker'[v] = worker[v]
          /\ UNCHANGED <<tasks, callback, admin>>
      <3>1. worker[w] \in WorkerState
        BY <1>0 DEF TypeOK
      <3> QED
        BY <1>0, <1>6, <3>1 DEF ReadBack, TypeOK, WorkerState
    <2>2. SeenInv'
      BY <2>1, SeenKept DEF Settles
    <2>3. UNCHANGED QueueVars
      BY <2>1, SameRows, SameHands DEF QueueVars, Working, WorkerPc
    <2> QED
      BY <2>2, <2>3
  <1>7. CASE ExecuteTask(w)
    <2>1. PICK from \in {"run", "body"}, to \in {"body", "complete", "fail"} : Goto(w, from, to)
      BY <1>7 DEF ExecuteTask, FailEarly, SkipMessage, StartMessage, FinishMessage, AbortMessage,
                  FetchAccount, Notify
    <2>2. UNCHANGED <<tasks, callback, admin>>
      BY <1>7 DEF ExecuteTask, FailEarly, SkipMessage, StartMessage, FinishMessage, AbortMessage,
                  FetchAccount, Notify
    <2>3. /\ from \in WorkerPc /\ to \in WorkerPc \ {"completing", "failing"}
          /\ from \in Working /\ to \in Working
      BY DEF WorkerPc, Working
    <2> QED
      BY <1>1, <2>1, <2>2, <2>3
  <1>8. CASE Heartbeat(w)
    <2> DEFINE t == worker[w].task
    <2>1. t \in Task /\ UNCHANGED <<worker, callback, admin>>
      BY <1>0, <1>8 DEF Heartbeat, TypeOK
    <2>2. /\ \A u \in Task \ {t} : tasks'[u] = tasks[u]
          /\ tasks'[t].status = tasks[t].status /\ tasks'[t].attempts = tasks[t].attempts
      BY <1>0, <1>8, <2>1 DEF Heartbeat, Renewed, TypeOK, Row
    <2>3. SeenInv'
      BY <2>1, <2>2, SeenKept DEF Settles
    <2>4. UNCHANGED QueueVars
      BY <2>1, <2>2, SameRows DEF QueueVars, Hands
    <2> QED
      BY <2>3, <2>4
  <1>9. CASE Crash(w)
    BY <1>2, <1>9 DEF Crash, Restart
  <1>10. CASE BeginComplete(w) \/ BeginFail(w)
    <2> DEFINE t == worker[w].task
    <2>1. /\ worker[w].pc \in {"complete", "fail"} /\ worker[w] \in WorkerState
          /\ t \in Task /\ tasks[t] \in Row
      BY <1>0, <1>10 DEF BeginComplete, BeginFail, Settling, TypeOK
    <2>2. UNCHANGED <<tasks, callback, admin>>
      BY <1>10 DEF BeginComplete, BeginFail, Settling
    <2>3. CASE Restart(w)
      BY <1>2, <2>2, <2>3
    <2>4. CASE ~Restart(w)
      <3>1. PICK to \in {"completing", "failing"} :
               worker' = [worker EXCEPT ![w] = [@ EXCEPT !.pc = to, !.seen = Loaded(tasks[t])]]
        BY <1>10, <2>4 DEF BeginComplete, BeginFail, Settling
      <3>2. /\ worker'[w].seen = Loaded(tasks[t]) /\ worker'[w].pc = to /\ worker'[w].task = t
            /\ \A v \in Workers \ {w} : worker'[v] = worker[v]
        BY <1>0, <2>1, <3>1 DEF TypeOK, WorkerState
      <3>3. SameAttempts(worker'[w].seen, t)
        BY <2>1, <3>2, LoadedFields DEF SameAttempts
      <3>4. SeenInv'
        BY <2>2, <3>2, <3>3, SeenKept DEF Settles
      <3>5. UNCHANGED QueueVars
        BY <2>1, <2>2, <3>2, SameRows, SameHands DEF QueueVars, Working, WorkerPc
      <3> QED
        BY <3>4, <3>5
    <2> QED
      BY <2>3, <2>4
  <1> QED
    BY <1>3, <1>4, <1>5, <1>6, <1>7, <1>8, <1>9, <1>10 DEF ClaimTask

\* What a commit leaves in the attempts of a row that are as its session has read them.
LEMMA FlushedAttempts ==
    ASSUME NEW row \in Row, NEW seen \in LoadedRow, NEW kind
    PROVE  /\ Flush(row, seen, Completed(seen, kind)).attempts = row.attempts
           /\ seen.attempts = row.attempts =>
                 /\ Flush(row, seen, Failed(seen)).attempts = row.attempts + 1
                 /\ Flush(row, seen, Replayed(seen)).attempts = 0
                 /\ seen.status \in {"done", "dead"} =>
                       Flush(row, seen, Reactivated(seen)).attempts = 0
           /\ seen.status \in {"pending", "processing"} =>
                 Flush(row, seen, Reactivated(seen)).attempts = row.attempts
  <1>1. /\ Released(seen) \in LoadedRow /\ Released(seen).attempts = seen.attempts
        /\ Replayed(seen) \in LoadedRow
    BY ReleasedRow, LoadedTypes
  <1>2. /\ Completed(seen, kind).attempts = seen.attempts
        /\ Failed(seen).attempts = seen.attempts + 1
        /\ Replayed(seen).attempts = 0
    BY <1>1 DEF Completed, Failed, Replayed, LoadedRow
  <1>3. /\ seen.status \in {"done", "dead"} => Reactivated(seen).attempts = 0
        /\ seen.status \in {"pending", "processing"} => Reactivated(seen).attempts = seen.attempts
    BY <1>1, <1>2 DEF Reactivated, LoadedRow
  <1>4. row.attempts \in Nat /\ seen.attempts \in Nat
    BY DEF Row, LoadedRow
  <1> QED
    BY <1>2, <1>3, <1>4 DEF Flush

\* The commits of complete_task and fail_task: the row is as the session has read it.
LEMMA CommitIsAtomic ==
    ASSUME IInv, SeenInv, TypeOK', NEW w \in Workers,
           CommitComplete(w) \/ CommitRetry(w) \/ CommitDead(w)
    PROVE  SeenInv' /\ AtomicQueue!Next
  <1> DEFINE t == worker[w].task
             seen == worker[w].seen
  <1>0. TypeOK
    BY DEF IInv
  <1>1. /\ Settles(w) /\ Restart(w) /\ UNCHANGED <<callback, admin>>
        /\ worker[w].pc \in Working
    BY DEF CommitComplete, CommitRetry, CommitDead, Settles, Working, WorkerPc
  <1>2. t \in Task /\ tasks[t] \in Row /\ seen \in LoadedRow
    BY <1>0, <1>1, WorkerOwnsRow DEF TypeOK, WorkerState
  <1>3. seen.status = "processing" /\ seen.attempts = tasks[t].attempts
    BY <1>1 DEF IInv, LeaseInv, SeenInv, SameAttempts
  <1>4. worker'[w].pc = "idle" /\ \A v \in Workers \ {w} : worker'[v] = worker[v]
    BY <1>0, <1>1, RestartFields
  <1>5. t \in Hands[w] /\ Hands' = [Hands EXCEPT ![w] = {}]
    BY <1>1, <1>4, OneHand DEF Hands, Working
  <1>6. Unwatched(t)
    BY <1>1, <1>4, WorkerOwnsRow DEF Unwatched, Settles, Working, WorkerPc
  <1>7. ASSUME tasks'[t].status # "none",
               \A u \in Task \ {t} : tasks'[u].attempts = tasks[u].attempts,
               \A u \in Task \ {t} : tasks'[u] = tasks[u] \/ tasks'[u].status # "none"
        PROVE  SeenInv'
    <2>1. \A u \in Task : tasks'[u].status = "none" => tasks[u].status = "none"
      BY <1>7
    <2>2. \A v \in Workers : Settles(v)' =>
              Settles(v) /\ worker'[v].seen = worker[v].seen /\ worker'[v].task = worker[v].task
      BY <1>4 DEF Settles
    <2> HIDE DEF t, seen
    <2> QED
      BY <1>1, <1>6, <1>7, <2>1, <2>2, SeenKept
  <1>8. CASE CommitComplete(w)
    <2>1. /\ tasks'[t] = Flush(tasks[t], seen, Completed(seen, t[1]))
          /\ \A u \in Task \ {t} : tasks'[u] = tasks[u]
      BY <1>0, <1>2, <1>8 DEF CommitComplete, TypeOK
    <2>2. /\ tasks'[t].attempts = tasks[t].attempts
          /\ tasks'[t].status \in {"pending", "done"}
          /\ t[1] # "sync" => tasks'[t].status = "done"
      BY <1>2, <1>3, <2>1, FlushedAttempts, SettledStatus
    <2>3. tasks'[t].status \in {"done"} \cup {s \in {"pending"} : t \in ({"sync"} \X Accounts)}
      BY <1>2, <2>2, TaskKeys
    <2>4. AtomicQueue!PutDown(w, t, tasks'[t].status, {})
      BY <1>2, <1>5, <2>1
         DEF AtomicQueue!PutDown, AtomicQueue!Missing, RowStatus
    <2>5. UNCHANGED RowAttempts
      BY <2>1, <2>2 DEF RowAttempts
    <2>6. AtomicQueue!Complete(w, t)
      BY <2>3, <2>4, <2>5 DEF AtomicQueue!Complete
    <2> QED
      BY <1>2, <1>7, <2>1, <2>2, <2>6 DEF AtomicQueue!Next
  <1>9. ASSUME tasks'[t].attempts = tasks[t].attempts + 1,
               \A u \in Task \ {t} : tasks'[u].attempts = tasks[u].attempts
        PROVE  /\ RowAttempts' = [RowAttempts EXCEPT ![t] = @ + 1]
               /\ RowAttempts'[t] < MaxAttempts <=> ~Exhausted(seen)
    <2>1. RowAttempts' = [RowAttempts EXCEPT ![t] = @ + 1] /\ RowAttempts'[t] = seen.attempts + 1
      BY <1>2, <1>3, <1>9 DEF RowAttempts
    <2>2. seen.attempts \in Nat /\ MaxAttempts \in Nat
      BY <1>2, MaxAttemptsAssumption DEF LoadedRow
    <2> QED
      BY <2>1, <2>2 DEF Exhausted
  <1>10. CASE CommitRetry(w)
    <2>1. /\ tasks'[t] = Flush(tasks[t], seen, Failed(seen)) /\ ~Exhausted(seen)
          /\ \A u \in Task \ {t} : tasks'[u] = tasks[u]
      BY <1>0, <1>2, <1>10 DEF CommitRetry, TypeOK
    <2>2. tasks'[t].attempts = tasks[t].attempts + 1 /\ tasks'[t].status = "pending"
      BY <1>2, <1>3, <2>1, FlushedAttempts, SettledStatus
    <2>3. AtomicQueue!PutDown(w, t, "pending", {})
      BY <1>2, <1>5, <2>1, <2>2
         DEF AtomicQueue!PutDown, AtomicQueue!Missing, RowStatus
    <2>4. AtomicQueue!Fail(w, t)
      BY <1>9, <2>1, <2>2, <2>3 DEF AtomicQueue!Fail
    <2> QED
      BY <1>2, <1>7, <2>1, <2>2, <2>4 DEF AtomicQueue!Next
  <1>11. CASE CommitDead(w)
    <2> DEFINE notice == <<"notify", t[2]>>
               new == IF t[1] = "message" /\ ~Exists(tasks[notice]) THEN {notice} ELSE {}
    <2>1. /\ tasks'[t] = Flush(tasks[t], seen, Failed(seen)) /\ Exhausted(seen)
          /\ \A u \in Task \ {t} : tasks'[u] = IF u \in new THEN NewRow ELSE tasks[u]
      BY <1>0, <1>2, <1>11 DEF CommitDead, TypeOK
    <2>2. tasks'[t].attempts = tasks[t].attempts + 1 /\ tasks'[t].status = "dead"
      BY <1>2, <1>3, <2>1, FlushedAttempts, SettledStatus
    <2>3. /\ new = {} \/ (notice \in Task /\ new = {notice})
          /\ t \notin new
          /\ \A u \in new : tasks[u].status = "none" /\ tasks[u].attempts = 0
      BY <1>2, TaskKeys DEF SeenInv, Exists
    <2>4. NewRow.status = "pending" /\ NewRow.attempts = 0
      BY DEF NewRow, NoRow
    <2> HIDE DEF new, notice
    <2>5. \A u \in Task \ {t} :
              /\ tasks'[u].attempts = tasks[u].attempts
              /\ tasks'[u].status = IF u \in new THEN "pending" ELSE tasks[u].status
              /\ tasks'[u] = tasks[u] \/ tasks'[u].status # "none"
      BY <2>1, <2>3, <2>4
    <2>6. AtomicQueue!PutDown(w, t, "dead", new)
      <3>1. t \notin new /\ new \subseteq Task
        BY <2>3
      <3>2. AtomicQueue!Missing(new)
        BY <2>3, <3>1 DEF AtomicQueue!Missing, RowStatus
      <3>3. RowStatus' = [u \in Task |-> IF u = t THEN "dead"
                                         ELSE IF u \in new THEN "pending" ELSE RowStatus[u]]
        BY <2>2, <2>5 DEF RowStatus
      <3> QED
        BY <1>5, <3>1, <3>2, <3>3 DEF AtomicQueue!PutDown
    <2>7. new \in {{}} \cup {{u} : u \in Task}
      BY <2>3
    <2>8. AtomicQueue!Fail(w, t)
      BY <1>9, <2>1, <2>2, <2>5, <2>6, <2>7 DEF AtomicQueue!Fail
    <2> QED
      BY <1>2, <1>7, <2>2, <2>5, <2>8 DEF AtomicQueue!Next
  <1> QED
    BY <1>8, <1>10, <1>11

\* Rows are inserted where there are none, and start over where nobody is at work.
LEMMA RowsAdded ==
    ASSUME IInv, SeenInv, TypeOK', NEW new \in SUBSET Task,
           UNCHANGED <<worker, admin>>, callback' = callback \/ ~callback'.open,
           \A t \in Task : tasks'[t] = IF t \in new THEN NewRow ELSE tasks[t],
           \A t \in new : tasks[t].status = "none"
    PROVE  SeenInv' /\ AtomicQueue!Next
  <1>1. NewRow.status = "pending" /\ NewRow.attempts = 0
    BY DEF NewRow, NoRow
  <1>2. \A t \in Task :
            /\ tasks'[t].attempts = tasks[t].attempts
            /\ tasks'[t].status = IF t \in new THEN "pending" ELSE tasks[t].status
            /\ tasks'[t].status = "none" => tasks[t].status = "none"
    BY <1>1 DEF SeenInv
  <1>3. SeenInv'
    BY <1>2, SeenKept DEF Settles
  <1>4. /\ RowStatus' = [t \in Task |-> IF t \in new THEN "pending" ELSE RowStatus[t]]
        /\ UNCHANGED <<RowAttempts, Hands>>
    BY <1>2 DEF RowStatus, RowAttempts, Hands
  <1>5. AtomicQueue!Add(new)
    BY <1>4 DEF AtomicQueue!Add, AtomicQueue!Missing, RowStatus
  <1> QED
    BY <1>3, <1>5 DEF AtomicQueue!Next

LEMMA RowStartsOver ==
    ASSUME IInv, SeenInv, TypeOK', NEW t \in Task, UNCHANGED worker, Unwatched(t),
           callback' = callback \/ ~callback'.open,
           \A a \in Admins : admin'[a] = admin[a] \/ ~admin'[a].open,
           \A u \in Task \ {t} : tasks'[u] = tasks[u],
           tasks'[t].status = "pending", tasks'[t].attempts = 0,
           tasks[t].status = "dead" \/ (tasks[t].status = "done" /\ t[1] = "sync")
    PROVE  SeenInv' /\ AtomicQueue!Next
  <1>1. SeenInv'
    BY SeenKept DEF Settles
  <1>2. /\ RowStatus' = [RowStatus EXCEPT ![t] = "pending"]
        /\ RowAttempts' = [RowAttempts EXCEPT ![t] = 0]
        /\ UNCHANGED Hands
    BY DEF RowStatus, RowAttempts, Hands
  <1>3. RowStatus[t] \in {"dead"} \cup {s \in {"done"} : t \in {"sync"} \X Accounts}
    BY TaskKeys DEF RowStatus
  <1>4. AtomicQueue!StartOver(t)
    BY <1>2, <1>3 DEF AtomicQueue!StartOver
  <1> QED
    BY <1>1, <1>4 DEF AtomicQueue!Next

\* Nobody is at work on a row that is done or dead.
LEMMA Settled ==
    ASSUME IInv, NEW t \in Task, tasks[t].status \in {"done", "dead"}
    PROVE  \A w \in Workers : Settles(w) => worker[w].task # t
  BY WorkerOwnsRow DEF Settles, Working, WorkerPc

LEMMA EndpointIsAtomic ==
    ASSUME IInv, SeenInv, SingleReviver, TypeOK',
           \/ \E m \in Messages : Ingest(m)
           \/ ReconcileMessageTasks
           \/ \E k \in Accounts : Arrive(k) \/ BeginCreateSync(k)
           \/ CommitCreateSync
           \/ \E a \in Admins, t \in Task : BeginReplay(a, t)
           \/ \E a \in Admins : CommitReplay(a)
    PROVE  SeenInv' /\ [AtomicQueue!Next]_QueueVars
  <1>0. TypeOK
    BY DEF IInv
  <1>1. ASSUME UNCHANGED <<tasks, worker>> PROVE UNCHANGED QueueVars
    BY <1>1 DEF QueueVars, RowStatus, RowAttempts, Hands
  <1>2. ASSUME NEW m \in Messages, Ingest(m)
        PROVE  SeenInv' /\ [AtomicQueue!Next]_QueueVars
    <2>1. <<"message", m>> \in Task /\ tasks[<<"message", m>>].status = "none"
      BY <1>2, TaskKeys DEF Ingest, IInv, MessageInv, Exists
    <2>2. \A t \in Task : tasks'[t] = IF t \in {<<"message", m>>} THEN NewRow ELSE tasks[t]
      BY <1>0, <1>2, <2>1 DEF Ingest, TypeOK
    <2> QED
      BY <1>2, <2>1, <2>2, RowsAdded DEF Ingest
  <1>3. CASE ReconcileMessageTasks
    <2> DEFINE new == {t \in Task : \E m \in Orphans : t = <<"message", m>>}
    <2>1. \A t \in Task : tasks'[t] = IF t \in new THEN NewRow ELSE tasks[t]
      BY <1>3 DEF ReconcileMessageTasks
    <2>2. \A t \in new : tasks[t].status = "none"
      BY DEF Orphans, Exists
    <2>3. new \in SUBSET Task /\ UNCHANGED <<worker, admin, callback>>
      BY <1>3 DEF ReconcileMessageTasks
    <2> HIDE DEF new
    <2> QED
      BY <2>1, <2>2, <2>3, RowsAdded
  <1>4. ASSUME NEW k \in Accounts, Arrive(k)
        PROVE  SeenInv' /\ [AtomicQueue!Next]_QueueVars
    BY <1>1, <1>4, SeenKept DEF Arrive, Settles
  <1>5. ASSUME NEW k \in Accounts, BeginCreateSync(k)
        PROVE  SeenInv' /\ [AtomicQueue!Next]_QueueVars
    <2>1. <<"sync", k>> \in Task /\ tasks[<<"sync", k>>] \in Row
      BY <1>0, TaskKeys DEF TypeOK
    <2>2. /\ UNCHANGED <<tasks, worker, admin>>
          /\ callback'.task = <<"sync", k>> /\ callback'.seen = Loaded(tasks[<<"sync", k>>])
      BY <1>5 DEF BeginCreateSync
    <2>3. SameAttempts(callback'.seen, callback'.task)
      BY <2>1, <2>2, LoadedFields DEF SameAttempts
    <2> QED
      BY <1>1, <2>2, <2>3, SeenKept DEF Settles
  <1>6. CASE CommitCreateSync
    <2> DEFINE t == callback.task
               seen == callback.seen
    <2>1. /\ t \in Task /\ t[1] = "sync" /\ tasks[t] \in Row /\ seen \in LoadedRow
          /\ Admins = {}
      BY <1>0, <1>6 DEF CommitCreateSync, TypeOK, Session, Task, SingleReviver
    <2>2. /\ tasks'[t] = IF Exists(seen) THEN Flush(tasks[t], seen, Reactivated(seen)) ELSE NewRow
          /\ \A u \in Task \ {t} : tasks'[u] = tasks[u]
          /\ callback' = IdleSession /\ UNCHANGED <<worker, admin>> /\ callback.open
      BY <1>0, <1>6, <2>1 DEF CommitCreateSync, TypeOK
    <2>3. ~callback'.open
      BY <2>2, IdleTypes
    <2>4. seen.status \in {"none", "done", "dead"} =>
              seen.status = tasks[t].status /\ seen.attempts = tasks[t].attempts
      BY <2>2 DEF IInv, SessionInv, SeenInv, SameAttempts
    <2>5. CASE seen.status = "none"
      <3>1. \A u \in Task : tasks'[u] = IF u \in {t} THEN NewRow ELSE tasks[u]
        BY <2>2, <2>5 DEF Exists
      <3> HIDE DEF t, seen
      <3> QED
        BY <2>1, <2>2, <2>3, <2>4, <2>5, <3>1, RowsAdded
    <2>6. CASE seen.status \in {"done", "dead"}
      <3>1. tasks'[t].status = "pending" /\ tasks'[t].attempts = 0
        BY <2>1, <2>2, <2>4, <2>6, RevivedStatus, FlushedAttempts DEF Exists
      <3>2. Unwatched(t)
        BY <2>1, <2>2, <2>3, <2>4, <2>6, Settled DEF Unwatched, Settles
      <3> HIDE DEF t, seen
      <3> QED
        BY <2>1, <2>2, <2>3, <2>4, <2>6, <3>1, <3>2, RowStartsOver
    <2>7. CASE seen.status \in {"pending", "processing"}
      <3>1. tasks'[t].status = tasks[t].status /\ tasks'[t].attempts = tasks[t].attempts
        BY <2>1, <2>2, <2>7, RevivedStatus, FlushedAttempts DEF Exists
      <3>2. \A u \in Task : tasks'[u].status = tasks[u].status /\ tasks'[u].attempts = tasks[u].attempts
        BY <2>2, <3>1
      <3>3. SeenInv'
        BY <2>2, <2>3, <3>2, SeenKept DEF Settles
      <3>4. UNCHANGED QueueVars
        BY <2>2, <3>2, SameRows DEF QueueVars, Hands
      <3> QED
        BY <3>3, <3>4
    <2> QED
      BY <2>1, <2>5, <2>6, <2>7 DEF LoadedRow, TaskStatus
  <1>7. ASSUME NEW a \in Admins, NEW t \in Task, BeginReplay(a, t)
        PROVE  SeenInv' /\ [AtomicQueue!Next]_QueueVars
    <2>1. /\ admin'[a].seen = Loaded(tasks[t]) /\ admin'[a].task = t
          /\ \A b \in Admins \ {a} : admin'[b] = admin[b]
          /\ UNCHANGED <<tasks, worker, callback>> /\ tasks[t] \in Row
      BY <1>0, <1>7 DEF BeginReplay, TypeOK
    <2>2. SameAttempts(admin'[a].seen, admin'[a].task)
      BY <2>1, LoadedFields DEF SameAttempts
    <2> QED
      BY <1>1, <2>1, <2>2, SeenKept DEF Settles
  <1>8. ASSUME NEW a \in Admins, CommitReplay(a)
        PROVE  SeenInv' /\ [AtomicQueue!Next]_QueueVars
    <2> DEFINE t == admin[a].task
               seen == admin[a].seen
    <2>1. t \in Task /\ tasks[t] \in Row /\ seen \in LoadedRow /\ admin[a].open
      BY <1>0, <1>8 DEF CommitReplay, TypeOK, Session
    <2>2. /\ tasks'[t] = Flush(tasks[t], seen, Replayed(seen))
          /\ \A u \in Task \ {t} : tasks'[u] = tasks[u]
          /\ admin'[a] = IdleSession /\ UNCHANGED <<worker, callback>>
          /\ \A b \in Admins : b = a
      BY <1>0, <1>8, <2>1 DEF CommitReplay, TypeOK, SingleReviver
    <2>3. /\ seen.status = "dead" /\ tasks[t].status = "dead"
          /\ seen.attempts = tasks[t].attempts
      BY <2>1 DEF IInv, SessionInv, SeenInv, SameAttempts
    <2>4. tasks'[t].status = "pending" /\ tasks'[t].attempts = 0
      BY <2>1, <2>2, <2>3, RevivedStatus, FlushedAttempts
    <2>5. ~callback.open
      BY <1>0 DEF TypeOK, SingleReviver
    <2>6. \A b \in Admins : ~admin'[b].open
      BY <2>2, IdleTypes
    <2>7. Unwatched(t)
      BY <2>1, <2>2, <2>3, <2>5, <2>6, Settled DEF Unwatched, Settles
    <2> HIDE DEF t, seen
    <2> QED
      BY <2>1, <2>2, <2>3, <2>4, <2>6, <2>7, RowStartsOver
  <1> QED
    BY <1>2, <1>3, <1>4, <1>5, <1>6, <1>7, <1>8

LEMMA TimeIsQuiet ==
    ASSUME IInv, SeenInv, TypeOK', NEW t \in Task,
           OrphanedLeaseExpires(t) \/ LeaseLapses(t) \/ BackoffElapses(t)
    PROVE  SeenInv' /\ UNCHANGED QueueVars
  <1>1. \A u \in Task : tasks'[u].status = tasks[u].status /\ tasks'[u].attempts = tasks[u].attempts
    BY DEF OrphanedLeaseExpires, LeaseLapses, BackoffElapses, IInv, TypeOK, Row
  <1>2. UNCHANGED <<worker, callback, admin>>
    BY DEF OrphanedLeaseExpires, LeaseLapses, BackoffElapses
  <1> QED
    BY <1>1, <1>2, SeenKept, SameRows DEF Settles, QueueVars, Hands

LEMMA InitSeen == Init => SeenInv /\ AtomicQueue!Init
  <1> SUFFICES ASSUME Init PROVE SeenInv /\ AtomicQueue!Init
    OBVIOUS
  <1>1. \A t \in Task : tasks[t].status = "none" /\ tasks[t].attempts = 0
    BY DEF Init, NoRow
  <1>2. \A w \in Workers : worker[w].pc = "idle"
    BY IdleTypes DEF Init
  <1>3. SeenInv
    BY <1>1, <1>2, IdleTypes DEF Init, SeenInv, Settles
  <1>4. AtomicQueue!Init
    BY <1>1, <1>2 DEF AtomicQueue!Init, RowStatus, RowAttempts, Hands, Working
  <1> QED
    BY <1>3, <1>4

\* Under the same assumptions tasks.py implements a queue whose operations are atomic, though each
\* of them reads in one statement and commits in another: claim_task, complete_task, fail_task,
\* create_sync_task, replay_task and reconcile_message_tasks, with crashes at any point.
THEOREM OutboxIsAQueue ==
    ASSUME NoLapses, SingleReviver
    PROVE  Spec => QueueSpec
  <1>1. IInv /\ IInv' /\ SeenInv /\ [Next]_vars => SeenInv' /\ [AtomicQueue!Next]_QueueVars
    <2> SUFFICES ASSUME IInv, IInv', SeenInv, [Next]_vars
                 PROVE  SeenInv' /\ [AtomicQueue!Next]_QueueVars
      OBVIOUS
    <2>1. TypeOK'
      BY DEF IInv
    <2>2. CASE UNCHANGED vars
      BY <2>2 DEF vars, SeenInv, SameAttempts, Settles, QueueVars, RowStatus, RowAttempts, Hands
    <2>3. CASE Next
      BY <2>1, <2>3, LoopIsAtomic, CommitIsAtomic, EndpointIsAtomic, TimeIsQuiet
         DEF Next, DrainAvailableTasks, SettleTask
    <2> QED
      BY <2>2, <2>3
  <1>2. Spec => []IInv
    BY Invariance
  <1> QED
    BY <1>1, <1>2, InitSeen, PTL DEF Spec, QueueSpec, AtomicQueue!Spec, QueueVars

=============================================================================
