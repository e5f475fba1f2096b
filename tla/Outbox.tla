------------------------------- MODULE Outbox -------------------------------
(***************************************************************************)
(* The persistent task queue: the rows of outbox_tasks, the workers that   *)
(* claim, run and settle them (worker.py, drain_available_tasks), the      *)
(* callback endpoint that requests synchronisations, and administrators    *)
(* that replay dead tasks.                                                 *)
(*                                                                         *)
(* Every function of tasks.py reads in one statement and commits in        *)
(* another; each is two actions here, with the loaded row kept in between. *)
(* What a task does is abstract: a message ends sent or failed, a          *)
(* synchronisation fetches what the platform holds, a notification has no  *)
(* effect on the tables.  MessageFlow gives the details of the first; here *)
(* every message has a conversation of its own, so none is merged.         *)
(***************************************************************************)
EXTENDS TaskRow

CONSTANTS Messages,      \* inbound messages, by id
          Accounts,      \* customer-service accounts, by open_kfid
          Workers,       \* worker processes
          Admins,        \* concurrent requests of the replay endpoint
          MaxCrashes,    \* how many times a worker process may die
          MaxLapses      \* how many times the lease of a live worker may expire

ASSUME BoundsAssumption == MaxCrashes \in Nat /\ MaxLapses \in Nat

VARIABLES tasks,         \* the table outbox_tasks, by dedupe key
          msg,           \* messages.status
          worker,        \* what each worker process is doing
          callback,      \* the session of create_sync_task in the API process
          admin,         \* the sessions of replay_task
          due,           \* accounts whose callback has not been handled yet
          unfetched,     \* accounts with messages that no sync has fetched
          crashes, lapses

vars == <<tasks, msg, worker, callback, admin, due, unfetched, crashes, lapses>>

-----------------------------------------------------------------------------

(* The dedupe keys "message:<id>", "notify:<id>" and "sync:<open_kfid>".   *)
Task == ({"message", "notify"} \X Messages) \cup ({"sync"} \X Accounts)
NoTask == <<"none", "none">>

\* "sent" stands for "ignored" as well: nothing remains to be done.
MessageStatus == {"queued", "processing", "sent", "failed", "dead"}
Unfinished == {"queued", "failed", "processing"}

\* Between "claim" and "run" the worker runs claim_task, between "run" and
\* "complete" or "fail" the task, and from there complete_task or fail_task.
WorkerPc == {"idle", "claim", "readback", "run", "body",
             "complete", "completing", "fail", "failing"}

IdleWorker == [pc |-> "idle", task |-> NoTask, lease |-> NoLease, seen |-> NoRow]
IdleSession == [open |-> FALSE, task |-> NoTask, seen |-> NoRow]

WorkerState == [pc : WorkerPc, task : Task \cup {NoTask},
                lease : Leases \cup {NoLease}, seen : LoadedRow]
Session == [open : BOOLEAN, task : Task \cup {NoTask}, seen : LoadedRow]

TypeOK ==
    /\ tasks \in [Task -> Row]
    /\ msg \in [Messages -> MessageStatus \cup {"none"}]
    /\ worker \in [Workers -> WorkerState]
    /\ \A w \in Workers : worker[w].pc # "idle" => worker[w].task \in Task
    /\ callback \in Session
    /\ callback.open => callback.task \in {"sync"} \X Accounts
    /\ admin \in [Admins -> Session]
    /\ \A a \in Admins : admin[a].open => admin[a].task \in Task
    /\ due \in SUBSET Accounts
    /\ unfetched \in SUBSET Accounts
    /\ crashes \in 0..MaxCrashes
    /\ lapses \in 0..MaxLapses

\* A message without a task is one that an earlier release left behind.
Init ==
    /\ tasks = [t \in Task |-> NoRow]
    /\ msg \in [Messages -> {"none", "queued"}]
    /\ worker = [w \in Workers |-> IdleWorker]
    /\ callback = IdleSession
    /\ admin = [a \in Admins |-> IdleSession]
    /\ due = {} /\ unfetched = {}
    /\ crashes = 0 /\ lapses = 0

\* Worker w goes from one point of its loop to another, or back to the start.
Goto(w, from, to) ==
    /\ worker[w].pc = from
    /\ worker' = [worker EXCEPT ![w] = [@ EXCEPT !.pc = to]]
Restart(w) == worker' = [worker EXCEPT ![w] = IdleWorker]

-----------------------------------------------------------------------------
(* claim_task: choose a candidate, take it if it is still claimable, read  *)
(* the row back in a new transaction.                                      *)

LeasesInUse == {tasks[t].lease : t \in Task} \cup {worker[w].lease : w \in Workers}

Candidate(w, t) ==
    /\ worker[w].pc = "idle"
    /\ Claimable(tasks[t])
    /\ worker' = [worker EXCEPT ![w] = [@ EXCEPT !.pc = "claim", !.task = t]]
    /\ UNCHANGED <<tasks, msg, callback, admin, due, unfetched, crashes, lapses>>

SelectCandidate(w) == \E t \in Task : Candidate(w, t)

\* Faulty: the UPDATE does not repeat the WHERE clause of the SELECT.
ClaimUnguarded(w) ==
    LET t == worker[w].task IN
    /\ Goto(w, "claim", "readback")
    /\ \E lease \in Leases \ LeasesInUse :
          tasks' = [tasks EXCEPT ![t] = Claimed(@, lease)]
    /\ UNCHANGED <<msg, callback, admin, due, unfetched, crashes, lapses>>

Claim(w) ==
    LET t == worker[w].task IN
    /\ Goto(w, "claim", "readback")
    /\ Claimable(tasks[t])
    /\ \E lease \in Leases \ LeasesInUse :
          tasks' = [tasks EXCEPT ![t] = Claimed(@, lease)]
    /\ UNCHANGED <<msg, callback, admin, due, unfetched, crashes, lapses>>

ClaimLost(w) ==
    /\ worker[w].pc = "claim"
    /\ ~Claimable(tasks[worker[w].task])
    /\ Restart(w)
    /\ UNCHANGED <<tasks, msg, callback, admin, due, unfetched, crashes, lapses>>

ReadBack(w) ==
    /\ worker[w].pc = "readback"
    /\ worker' = [worker EXCEPT ![w] =
          [@ EXCEPT !.pc = "run", !.lease = tasks[worker[w].task].lease]]
    /\ UNCHANGED <<tasks, msg, callback, admin, due, unfetched, crashes, lapses>>

-----------------------------------------------------------------------------
(* execute_task, and the heartbeat that runs beside it.                    *)

Heartbeat(w) ==
    LET t == worker[w].task IN
    /\ worker[w].pc \in {"run", "body"}
    /\ OwnedBy(tasks[t], worker[w].lease)
    /\ tasks[t].locked = "stale"
    /\ tasks' = [tasks EXCEPT ![t] = Renewed(@)]
    /\ UNCHANGED <<msg, worker, callback, admin, due, unfetched, crashes, lapses>>

\* Faulty: a busy lock is taken for a task that somebody else is finishing.
FailEarlyAsDone(w) ==
    /\ Goto(w, "run", "complete")
    /\ UNCHANGED <<tasks, msg, callback, admin, due, unfetched, crashes, lapses>>

\* The Redis lock is taken by another holder, or the task fails before it
\* has changed anything.
FailEarly(w) ==
    /\ Goto(w, "run", "fail")
    /\ UNCHANGED <<tasks, msg, callback, admin, due, unfetched, crashes, lapses>>

\* A message that has been settled in the meantime is not processed again.
SkipMessage(w) ==
    LET t == worker[w].task IN
    /\ Goto(w, "run", "complete") /\ t[1] = "message"
    /\ msg[t[2]] \notin Unfinished
    /\ UNCHANGED <<tasks, msg, callback, admin, due, unfetched, crashes, lapses>>

StartMessage(w) ==
    LET t == worker[w].task IN
    /\ Goto(w, "run", "body") /\ t[1] = "message"
    /\ msg[t[2]] \in Unfinished
    /\ msg' = [msg EXCEPT ![t[2]] = "processing"]
    /\ UNCHANGED <<tasks, callback, admin, due, unfetched, crashes, lapses>>

FinishMessage(w) ==
    /\ Goto(w, "body", "complete")
    /\ msg' = [msg EXCEPT ![worker[w].task[2]] = "sent"]
    /\ UNCHANGED <<tasks, callback, admin, due, unfetched, crashes, lapses>>

AbortMessage(w) ==
    /\ Goto(w, "body", "fail")
    /\ msg' = [msg EXCEPT ![worker[w].task[2]] = IF @ = "sent" THEN @ ELSE "failed"]
    /\ UNCHANGED <<tasks, callback, admin, due, unfetched, crashes, lapses>>

FetchAccount(w) ==
    LET t == worker[w].task IN
    /\ Goto(w, "run", "complete") /\ t[1] = "sync"
    /\ unfetched' = unfetched \ {t[2]}
    /\ UNCHANGED <<tasks, msg, callback, admin, due, crashes, lapses>>

Notify(w) ==
    /\ Goto(w, "run", "complete") /\ worker[w].task[1] = "notify"
    /\ UNCHANGED <<tasks, msg, callback, admin, due, unfetched, crashes, lapses>>

-----------------------------------------------------------------------------
(* complete_task and fail_task: find the row by its lease, then commit.    *)

Settling(w, from, to) ==
    LET row == tasks[worker[w].task] IN
    /\ worker[w].pc = from
    /\ \/ /\ OwnedBy(row, worker[w].lease)
          /\ worker' = [worker EXCEPT ![w] = [@ EXCEPT !.pc = to, !.seen = Loaded(row)]]
       \/ /\ ~OwnedBy(row, worker[w].lease)
          /\ Restart(w)
    /\ UNCHANGED <<tasks, msg, callback, admin, due, unfetched, crashes, lapses>>

BeginComplete(w) == Settling(w, "complete", "completing")
BeginFail(w)     == Settling(w, "fail", "failing")

CommitComplete(w) ==
    LET t == worker[w].task
        seen == worker[w].seen
    IN  /\ worker[w].pc = "completing"
        /\ tasks' = [tasks EXCEPT ![t] = Flush(@, seen, Completed(seen, t[1]))]
        /\ Restart(w)
        /\ UNCHANGED <<msg, callback, admin, due, unfetched, crashes, lapses>>

CommitRetry(w) ==
    LET t == worker[w].task
        seen == worker[w].seen
    IN  /\ worker[w].pc = "failing" /\ ~Exhausted(seen)
        /\ tasks' = [tasks EXCEPT ![t] = Flush(@, seen, Failed(seen))]
        /\ Restart(w)
        /\ UNCHANGED <<msg, callback, admin, due, unfetched, crashes, lapses>>

\* Faulty: the message of a dead task is left as it is.
CommitDeadQuietly(w) ==
    LET t == worker[w].task
        seen == worker[w].seen
    IN  /\ worker[w].pc = "failing" /\ Exhausted(seen)
        /\ tasks' = [tasks EXCEPT ![t] = Flush(@, seen, Failed(seen))]
        /\ Restart(w)
        /\ UNCHANGED <<msg, callback, admin, due, unfetched, crashes, lapses>>

\* The last attempt: the task is dead, and so is its message, whose sender
\* gets a notification task unless there already is one.
CommitDead(w) ==
    LET t == worker[w].task
        seen == worker[w].seen
        dead == Flush(tasks[t], seen, Failed(seen))
    IN  /\ worker[w].pc = "failing" /\ Exhausted(seen)
        /\ tasks' = [u \in Task |->
              IF u = t THEN dead
              ELSE IF t[1] = "message" /\ u = <<"notify", t[2]>> /\ ~Exists(tasks[u])
                   THEN NewRow ELSE tasks[u]]
        /\ msg' = [m \in Messages |-> IF t = <<"message", m>> THEN "dead" ELSE msg[m]]
        /\ Restart(w)
        /\ UNCHANGED <<callback, admin, due, unfetched, crashes, lapses>>

-----------------------------------------------------------------------------
(* Inbound work.  A message and its task are committed together; an        *)
(* account's callback says that the platform holds messages for it.        *)

Ingest(m) ==
    /\ msg[m] = "none"
    /\ msg' = [msg EXCEPT ![m] = "queued"]
    /\ tasks' = [tasks EXCEPT ![<<"message", m>>] = NewRow]
    /\ UNCHANGED <<worker, callback, admin, due, unfetched, crashes, lapses>>

Orphans == {m \in Messages : /\ msg[m] \in {"queued", "failed"}
                             /\ ~Exists(tasks[<<"message", m>>])}

ReconcileMessageTasks ==
    /\ Orphans # {}
    /\ tasks' = [t \in Task |-> IF \E m \in Orphans : t = <<"message", m>>
                                THEN NewRow ELSE tasks[t]]
    /\ UNCHANGED <<msg, worker, callback, admin, due, unfetched, crashes, lapses>>

Arrive(k) ==
    /\ due' = due \cup {k}
    /\ unfetched' = unfetched \cup {k}
    /\ UNCHANGED <<tasks, msg, worker, callback, admin, crashes, lapses>>

BeginCreateSync(k) ==
    /\ k \in due /\ ~callback.open
    /\ due' = due \ {k}
    /\ callback' = [open |-> TRUE, task |-> <<"sync", k>>, seen |-> Loaded(tasks[<<"sync", k>>])]
    /\ UNCHANGED <<tasks, msg, worker, admin, unfetched, crashes, lapses>>

CommitCreateSync ==
    LET t == callback.task
        seen == callback.seen
    IN  /\ callback.open
        /\ tasks' = [tasks EXCEPT ![t] =
              IF Exists(seen) THEN Flush(@, seen, Reactivated(seen)) ELSE NewRow]
        /\ callback' = IdleSession
        /\ UNCHANGED <<msg, worker, admin, due, unfetched, crashes, lapses>>

\* Faulty: the status of the task is not looked at.
BeginReplayAny(a, t) ==
    /\ ~admin[a].open
    /\ Exists(tasks[t])
    /\ admin' = [admin EXCEPT ![a] = [open |-> TRUE, task |-> t, seen |-> Loaded(tasks[t])]]
    /\ UNCHANGED <<tasks, msg, worker, callback, due, unfetched, crashes, lapses>>

BeginReplay(a, t) ==
    /\ ~admin[a].open
    /\ tasks[t].status = "dead"
    /\ admin' = [admin EXCEPT ![a] = [open |-> TRUE, task |-> t, seen |-> Loaded(tasks[t])]]
    /\ UNCHANGED <<tasks, msg, worker, callback, due, unfetched, crashes, lapses>>

\* Faulty: the message stays dead when its task is revived.
CommitReplayTaskOnly(a) ==
    LET t == admin[a].task
        seen == admin[a].seen
    IN  /\ admin[a].open
        /\ tasks' = [tasks EXCEPT ![t] = Flush(@, seen, Replayed(seen))]
        /\ admin' = [admin EXCEPT ![a] = IdleSession]
        /\ UNCHANGED <<msg, worker, callback, due, unfetched, crashes, lapses>>

CommitReplay(a) ==
    LET t == admin[a].task
        seen == admin[a].seen
    IN  /\ admin[a].open
        /\ tasks' = [tasks EXCEPT ![t] = Flush(@, seen, Replayed(seen))]
        /\ msg' = [m \in Messages |-> IF t = <<"message", m>> /\ msg[m] = "dead"
                                      THEN "failed" ELSE msg[m]]
        /\ admin' = [admin EXCEPT ![a] = IdleSession]
        /\ UNCHANGED <<worker, callback, due, unfetched, crashes, lapses>>

-----------------------------------------------------------------------------
(* Time and failures.                                                      *)

\* A live worker has claimed t and nobody has claimed it since.
Holds(w, t) ==
    /\ worker[w].task = t
    /\ \/ worker[w].pc = "readback"
       \/ /\ worker[w].pc \notin {"idle", "claim", "readback"}
          /\ worker[w].lease = tasks[t].lease

\* Nobody renews the lease of a task whose worker has died or moved on.
OrphanedLeaseExpires(t) ==
    /\ tasks[t].status = "processing" /\ tasks[t].locked = "fresh"
    /\ \A w \in Workers : ~Holds(w, t)
    /\ tasks' = [tasks EXCEPT ![t].locked = "stale"]
    /\ UNCHANGED <<msg, worker, callback, admin, due, unfetched, crashes, lapses>>

\* While its holder lives a lease expires only when the heartbeat stops:
\* a renewal that raises ends it, and so does a stall of the process.
LeaseLapses(t) ==
    /\ tasks[t].status = "processing" /\ tasks[t].locked = "fresh"
    /\ \E w \in Workers : Holds(w, t)
    /\ lapses < MaxLapses
    /\ lapses' = lapses + 1
    /\ tasks' = [tasks EXCEPT ![t].locked = "stale"]
    /\ UNCHANGED <<msg, worker, callback, admin, due, unfetched, crashes>>

BackoffElapses(t) ==
    /\ tasks[t].status = "pending" /\ tasks[t].due = "later"
    /\ tasks' = [tasks EXCEPT ![t].due = "now"]
    /\ UNCHANGED <<msg, worker, callback, admin, due, unfetched, crashes, lapses>>

\* The process dies with its memory; an open transaction is rolled back.
Crash(w) ==
    /\ crashes < MaxCrashes
    /\ worker[w].pc # "idle"
    /\ Restart(w)
    /\ crashes' = crashes + 1
    /\ UNCHANGED <<tasks, msg, callback, admin, due, unfetched, lapses>>

-----------------------------------------------------------------------------

ClaimTask(w) == SelectCandidate(w) \/ Claim(w) \/ ClaimLost(w) \/ ReadBack(w)
ExecuteTask(w) == \/ FailEarly(w) \/ SkipMessage(w) \/ StartMessage(w) \/ FinishMessage(w)
                  \/ AbortMessage(w) \/ FetchAccount(w) \/ Notify(w)
SettleTask(w) == \/ BeginComplete(w) \/ CommitComplete(w)
                 \/ BeginFail(w) \/ CommitRetry(w) \/ CommitDead(w)

DrainAvailableTasks(w) == ClaimTask(w) \/ ExecuteTask(w) \/ SettleTask(w)

Next ==
    \/ \E w \in Workers : DrainAvailableTasks(w) \/ Heartbeat(w) \/ Crash(w)
    \/ \E m \in Messages : Ingest(m)
    \/ ReconcileMessageTasks
    \/ \E k \in Accounts : Arrive(k) \/ BeginCreateSync(k)
    \/ CommitCreateSync
    \/ \E a \in Admins, t \in Task : BeginReplay(a, t)
    \/ \E a \in Admins : CommitReplay(a)
    \/ \E t \in Task : OrphanedLeaseExpires(t) \/ LeaseLapses(t) \/ BackoffElapses(t)

Spec == Init /\ [][Next]_vars

(***************************************************************************)
(* A worker that is up keeps going round its loop and commits what it has  *)
(* begun; claim_task takes the tasks in the order of available_at, so that *)
(* none is passed over for ever; the 60-second scan, the clock and the     *)
(* endpoints' commits keep happening.  Arrivals, replays, renewals,        *)
(* crashes and lapses need not.                                            *)
(***************************************************************************)
Fairness ==
    /\ \A w \in Workers : WF_vars(DrainAvailableTasks(w))
    /\ \A t \in Task : SF_vars(\E w \in Workers : Candidate(w, t))
    /\ WF_vars(ReconcileMessageTasks)
    /\ \A t \in Task : WF_vars(OrphanedLeaseExpires(t)) /\ WF_vars(BackoffElapses(t))
    /\ \A k \in Accounts : WF_vars(BeginCreateSync(k))
    /\ WF_vars(CommitCreateSync)
    /\ \A a \in Admins : WF_vars(CommitReplay(a))

FairSpec == Spec /\ Fairness

-----------------------------------------------------------------------------
(* What the queue promises.                                                *)

Executing(w, t) == worker[w].task = t /\ worker[w].pc \in {"run", "body"}

\* No two workers execute the same task at the same time (tasks.py:299, the
\* comment of distributed_lock, which relies on the atomic claim for it).
NoDoubleRun ==
    \A t \in Task : \A v, w \in Workers :
        Executing(v, t) /\ Executing(w, t) => v = w

\* A result is committed to a row only while the row still carries the lease
\* of the worker that reports it (complete_task, fail_task).
Settles(w) == worker[w].pc \in {"completing", "failing"}
ResultUnderOwnLease ==
    \A w \in Workers :
        Settles(w) => OwnedBy(tasks[worker[w].task], worker[w].lease)

\* The late result of a worker does not override the lease of another one
\* (the docstring of fail_task, tasks.py:177).
LateResultNeverOverrides ==
    [][\A v, w \in Workers, t \in Task :
          (/\ v # w /\ Holds(w, t)
           /\ Settles(v) /\ worker[v].task = t /\ worker'[v].pc = "idle") =>
              tasks'[t].lease = tasks[t].lease]_vars

\* The task of a worker that holds it is changed by nobody else, except for a
\* claim after the lease has expired and a callback that asks for a rerun.
HolderKeepsTask ==
    [][\A w \in Workers, t \in Task :
          (Holds(w, t) /\ worker'[w] = worker[w]) =>
              /\ tasks'[t].status = "processing"
              /\ tasks'[t].lease # tasks[t].lease => tasks[t].locked = "stale"]_vars

\* A task is dead exactly when it has used up its attempts: none is given up
\* early and none keeps going once the limit is reached (fail_task, replay_task).
AttemptBudget ==
    \A t \in Task :
        /\ tasks[t].status = "dead" => tasks[t].attempts >= MaxAttempts
        /\ tasks[t].status \in {"pending", "processing"} => tasks[t].attempts < MaxAttempts

\* A message task is recorded as done only when the message needs nothing more.
DoneTaskIsSettled ==
    \A m \in Messages :
        tasks[<<"message", m>>].status = "done" => msg[m] \notin Unfinished

\* Every unfinished message still has work coming: its task is live, or the
\* message is one that the scan gives a task (reconcile_message_tasks).
NoStrandedMessage ==
    \A m \in Messages :
        msg[m] \in Unfinished =>
            \/ tasks[<<"message", m>>].status \in {"pending", "processing"}
            \/ m \in Orphans

\* A message is marked dead together with its task, and revived with it.
DeadTogether ==
    \A m \in Messages :
        msg[m] = "dead" => /\ tasks[<<"message", m>>].status = "dead"
                           /\ Exists(tasks[<<"notify", m>>])

\* Once its callback has been handled an account with unfetched messages has a
\* task that will fetch them: a new callback "reactivates a task that is done"
\* (the comment in sync_dedupe_key, tasks.py:25).
Handled(k) == k \notin due /\ ~(callback.open /\ callback.task = <<"sync", k>>)
SyncRequestKept ==
    \A k \in unfetched : Handled(k) => tasks[<<"sync", k>>].status # "done"

\* Every message that is waiting is eventually answered or given up, whatever
\* finite number of crashes and lapses there is (docs/architecture.md:21).
MessagesSettle ==
    \A m \in Messages : msg[m] = "queued" ~> msg[m] \in {"sent", "dead"}

\* Every message or notification task that is pending is eventually done or dead.
TasksSettle ==
    \A t \in Task : t[1] # "sync" =>
        (tasks[t].status = "pending" ~> tasks[t].status \in {"done", "dead"})

\* A pending synchronisation eventually fetches what the platform holds, or is
\* given up, however the callbacks interleave with the workers and their
\* crashes (create_sync_task, claim_task).
PendingSyncFetches ==
    \A k \in Accounts :
        (k \in unfetched /\ tasks[<<"sync", k>>].status = "pending")
            ~> (k \notin unfetched \/ tasks[<<"sync", k>>].status = "dead")

\* Where leases hold, all of this is as good as a queue with atomic operations.
Working == WorkerPc \ {"idle", "claim"}
RowStatus   == [t \in Task |-> tasks[t].status]
RowAttempts == [t \in Task |-> tasks[t].attempts]
Hands       == [w \in Workers |-> IF worker[w].pc \in Working THEN {worker[w].task} ELSE {}]
AtomicQueue == INSTANCE Queue WITH
    Tasks <- Task, Recurrent <- {"sync"} \X Accounts,
    status <- RowStatus, attempts <- RowAttempts, hands <- Hands

\* The rows and leases of tasks.py implement that queue: no interleaving of the sessions
\* shows that each operation reads in one statement and commits in another.
QueueSpec == AtomicQueue!Spec

-----------------------------------------------------------------------------
(***************************************************************************)
(* Why the queue keeps these promises as long as no lease of a live worker *)
(* lapses and no two sessions can revive the same dead row: the invariant  *)
(* that every step preserves.                                              *)
(***************************************************************************)

NoLapses == MaxLapses = 0
SingleReviver == /\ \A a, b \in Admins : a = b
                 /\ Accounts = {} \/ Admins = {}

\* A worker past its claim owns a row that is locked, and knows its lease.
LeaseInv ==
    \A w \in Workers : worker[w].pc \in Working =>
        /\ tasks[worker[w].task].status = "processing"
        /\ tasks[worker[w].task].locked = "fresh"
        /\ worker[w].pc # "readback" => worker[w].lease = tasks[worker[w].task].lease
        /\ worker[w].pc = "body" => worker[w].task[1] = "message"
        /\ Settles(w) => worker[w].seen.status = "processing"

OneWorkerPerTask ==
    \A v, w \in Workers :
        (/\ worker[v].pc \in Working /\ worker[w].pc \in Working
         /\ worker[v].task = worker[w].task) => v = w

\* What a reviving session has read is still so when it commits.
SessionInv ==
    /\ callback.open /\ callback.seen.status \in {"none", "done", "dead"} =>
          tasks[callback.task].status = callback.seen.status
    /\ \A a \in Admins : admin[a].open =>
          /\ admin[a].seen.status = "dead"
          /\ tasks[admin[a].task].status = "dead"

MessageInv ==
    /\ \A m \in Messages : msg[m] = "none" => ~Exists(tasks[<<"message", m>>])
    /\ \A m \in Messages : msg[m] = "processing" => Exists(tasks[<<"message", m>>])
    /\ \A w \in Workers :
          worker[w].pc \in {"complete", "completing"} /\ worker[w].task[1] = "message" =>
              msg[worker[w].task[2]] \notin Unfinished

IInv == /\ TypeOK /\ LeaseInv /\ OneWorkerPerTask /\ SessionInv /\ MessageInv
        /\ DoneTaskIsSettled /\ NoStrandedMessage /\ DeadTogether

(***************************************************************************)
(* Why no task exceeds its attempts: a session that will write the status  *)
(* writes the attempts it has read along with it, except for a rerun of a  *)
(* synchronisation, which relies on the lease.                             *)
(***************************************************************************)
BudgetInv ==
    /\ AttemptBudget
    /\ \A k \in Accounts : tasks[<<"sync", k>>].status = "done" =>
                               tasks[<<"sync", k>>].attempts < MaxAttempts
    /\ \A w \in Workers : Settles(w) => /\ worker[w].seen.status = "processing"
                                        /\ worker[w].seen.attempts < MaxAttempts
    /\ callback.open /\ callback.seen.status = "dead" => callback.seen.attempts >= MaxAttempts
    /\ \A a \in Admins : admin[a].open => /\ admin[a].seen.status = "dead"
                                          /\ admin[a].seen.attempts >= MaxAttempts

\* Why the commits agree with the atomic operations: the attempts that a session has read are
\* those of the row.
SameAttempts(seen, t) == seen.attempts = tasks[t].attempts
SeenInv ==
    /\ \A t \in Task : tasks[t].status = "none" => tasks[t].attempts = 0
    /\ \A w \in Workers : Settles(w) => SameAttempts(worker[w].seen, worker[w].task)
    /\ callback.open /\ callback.seen.status \in {"none", "done", "dead"} =>
          SameAttempts(callback.seen, callback.task)
    /\ \A a \in Admins : admin[a].open => SameAttempts(admin[a].seen, admin[a].task)

=============================================================================
