------------------------------- MODULE Bridge -------------------------------
(***************************************************************************)
(* The ClawBot bridge (bridge/runtime.py, ilink_service.py, state.py) for  *)
(* one channel instance: its InstanceState objects, the asyncio tasks that *)
(* log in, poll iLink and forward messages, the encrypted session file and *)
(* the polling cursor that survive a restart.                              *)
(*                                                                         *)
(* Coroutines interleave at their awaits only: a step here runs from one   *)
(* await to the next.  Calls to the gateway are put on the wire (calls);   *)
(* what the gateway does with them is in Channel.                          *)
(*                                                                         *)
(* stop() cancels the task that would test the stop event and start()      *)
(* never reuses a stopped object, so that event and the desired_running of *)
(* an object need no variable: what stop() leaves behind is in stored.     *)
(***************************************************************************)
EXTENDS Integers, FiniteSets, FiniteSetsExt, ChannelRow

CONSTANTS Objects,        \* InstanceState objects that can exist at a time
          Tasks,          \* asyncio tasks that can be alive at a time
          Nobody,
          MaxMessages,    \* messages that users send
          Unreadable,     \* those of them that parse_inbound_text drops
          MaxCalls        \* status callbacks that can be on the wire at a time

ASSUME BridgeAssumption == /\ Nobody \notin Objects \cup Tasks
                           /\ MaxMessages \in Nat /\ MaxCalls \in Nat
                           /\ Unreadable \subseteq 1..MaxMessages
                           /\ IsFiniteSet(Tasks)

VARIABLES up,             \* whether the bridge process runs
          cur,            \* the object in BridgeRuntime._instances
          objs, tasks,
          stored,         \* the session file
          cursor,         \* the file get_updates_buf
          mailbox,        \* how many messages iLink has received
          calls,          \* status callbacks on the wire
          overlapped      \* a finished rotation has marked a live session offline

vars == <<up, cur, objs, tasks, stored, cursor, mailbox, calls, overlapped>>

-----------------------------------------------------------------------------

Messages == 1..MaxMessages
\* creds: credentials and account_id are set.  lost: a start_login of _rotate_login has
\* failed, which ends the object's last task (kept for the properties only).
InstanceState == [status : BridgeStatus, creds : BOOLEAN, tokens : SUBSET Messages,
                  task : Tasks \cup {Nobody}, lost : BOOLEAN]
NoState == [status |-> "offline", creds |-> FALSE, tokens |-> {}, task |-> Nobody, lost |-> FALSE]

Reporting == {"announce", "report_pending", "report_error", "report_restored"}

\* kind: which coroutine the task runs.  pos is monitor's own cursor, upto and todo the
\* batch it is forwarding.
TaskState == [obj : Objects \cup {Nobody}, kind : {"fresh", "restored", "reporter"},
              pc : Reporting \cup {"idle", "wait_login", "poll", "forward", "forwarded", "start_login"},
              pos : 0..MaxMessages, upto : 0..MaxMessages, todo : SUBSET Messages]
NoTask == [obj |-> Nobody, kind |-> "fresh", pc |-> "idle", pos |-> 0, upto |-> 0, todo |-> {}]

\* desired: desired_running.
Stored == [exists : BOOLEAN, tokens : SUBSET Messages, desired : BOOLEAN]
NoSession == [exists |-> FALSE, tokens |-> {}, desired |-> FALSE]

\* A callback on the wire; by awaits its answer.
Call == [by : Tasks \cup {Nobody}, status : BridgeStatus]

TypeOK == /\ up \in BOOLEAN /\ overlapped \in BOOLEAN
          /\ cur \in Objects \cup {Nobody}
          /\ objs \in [Objects -> InstanceState]
          /\ tasks \in [Tasks -> TaskState]
          /\ stored \in Stored
          /\ cursor \in 0..MaxMessages /\ mailbox \in 0..MaxMessages
          /\ calls \subseteq Call

Init == /\ up = TRUE /\ cur = Nobody /\ overlapped = FALSE
        /\ objs = [o \in Objects |-> NoState]
        /\ tasks = [t \in Tasks |-> NoTask]
        /\ stored = NoSession /\ cursor = 0 /\ mailbox = 0
        /\ calls = {}

-----------------------------------------------------------------------------
(* Reading the state.                                                      *)

Idle == {t \in Tasks : tasks[t].pc = "idle"}
Live(o) == {t \in Tasks : tasks[t].obj = o /\ tasks[t].pc # "idle"}
Reporters(o) == {t \in Live(o) : tasks[t].kind = "reporter"}
Forwarding == {"forward", "forwarded"}
Monitors == {t \in Tasks : tasks[t].pc \in Forwarding \cup {"poll"}}
Free == {o \in Objects : o # cur /\ Live(o) = {}}

\* runtime.status: the object's status, offline when there is none.
Status == IF cur = Nobody THEN "offline" ELSE objs[cur].status

\* send finds the session and the context token of the message it answers.
Sendable(m) == /\ cur # Nobody /\ Status = "online"
               /\ objs[cur].creds /\ m \in objs[cur].tokens

Saved(tokens) == [exists |-> TRUE, tokens |-> tokens, desired |-> TRUE]
Next1(todo) == Min(todo)

-----------------------------------------------------------------------------
(* The wire.                                                               *)

\* The callbacks of the tasks in quit, which nobody awaits any more, stay on the wire.
Orphaned(quit) == {IF c.by \in quit THEN [c EXCEPT !.by = Nobody] ELSE c : c \in calls}

\* Task t stops awaiting and calls report_status(status).
Report(t, quit, status) ==
    /\ Cardinality(calls) < MaxCalls
    /\ calls' = Orphaned(quit \cup {t}) \cup {[by |-> t, status |-> status]}

-----------------------------------------------------------------------------
(* How a task ends.                                                        *)

\* The "finally" of _run_instance; _run_online_instance has none.
EndsOffline(t) == /\ tasks[t].kind = "fresh"
                  /\ objs[tasks[t].obj].status \notin {"error", "pending_login"}
Finally(t) ==
    LET o == tasks[t].obj
    IN  /\ objs' = IF EndsOffline(t) THEN [objs EXCEPT ![o].status = "offline"] ELSE objs
        /\ overlapped' = (overlapped \/ (EndsOffline(t) /\ objs[o].status = "online"
                                                       /\ objs[o].task # t))
        /\ tasks' = [tasks EXCEPT ![t] = NoTask]

\* "except Exception": the task reports the error, a restored one without its reporter.
Fail(t) ==
    LET o == tasks[t].obj
        quit == IF tasks[t].kind = "restored" THEN Reporters(o) ELSE {}
    IN  /\ objs' = [objs EXCEPT ![o].status = "error"]
        /\ tasks' = [u \in Tasks |->
                       IF u \in quit THEN NoTask
                       ELSE IF u = t THEN [NoTask EXCEPT !.obj = o, !.kind = tasks[t].kind,
                                                         !.pc = "report_error"]
                       ELSE tasks[u]]
        /\ Report(t, quit, "error")
        /\ UNCHANGED overlapped

-----------------------------------------------------------------------------
(* Login.                                                                  *)

LoginConfirmed(t) ==
    LET o == tasks[t].obj
    IN  /\ tasks[t].pc = "wait_login"
        /\ objs' = [objs EXCEPT ![o].status = "online", ![o].creds = TRUE]
        /\ stored' = Saved(objs[o].tokens)
        /\ tasks' = [tasks EXCEPT ![t].pc = "announce"]
        /\ Report(t, {}, "online")
        /\ UNCHANGED <<up, cur, cursor, mailbox, overlapped>>

LoginBroken(t) ==
    /\ tasks[t].pc = "wait_login" /\ Fail(t)
    /\ UNCHANGED <<up, cur, stored, cursor, mailbox>>

QrExpired(t) ==
    /\ tasks[t].pc = "wait_login"
    /\ tasks' = [tasks EXCEPT ![t].pc = "start_login"]
    /\ UNCHANGED <<up, cur, objs, stored, cursor, mailbox, calls, overlapped>>

\* Faulty: nothing waits for the new code to be scanned.
RotateUnwatched(t) ==
    LET o == tasks[t].obj
    IN  /\ tasks[t].pc = "start_login"
        /\ objs' = [objs EXCEPT ![o].status = "pending_login"]
        /\ tasks' = [tasks EXCEPT ![t].pc = "report_pending"]
        /\ Report(t, {}, "pending_login")
        /\ UNCHANGED <<up, cur, stored, cursor, mailbox, overlapped>>

\* _rotate_login: u is the successor that state.task names from now on.
Rotate(t) ==
    LET o == tasks[t].obj
    IN  /\ tasks[t].pc = "start_login"
        /\ \E u \in Idle :
             /\ objs' = [objs EXCEPT ![o].status = "pending_login", ![o].task = u]
             /\ tasks' = [tasks EXCEPT ![t].pc = "report_pending",
                                       ![u] = [NoTask EXCEPT !.obj = o, !.pc = "wait_login"]]
        /\ Report(t, {}, "pending_login")
        /\ UNCHANGED <<up, cur, stored, cursor, mailbox, overlapped>>

\* start_login raises in the except handler: the task dies, _run_instance through its finally.
RotateBroken(t) ==
    LET o == tasks[t].obj
    IN  /\ tasks[t].pc = "start_login"
        /\ objs' = [objs EXCEPT ![o].lost = TRUE,
                                ![o].status = IF EndsOffline(t) THEN "offline" ELSE @]
        /\ tasks' = [tasks EXCEPT ![t] = NoTask]
        /\ UNCHANGED <<up, cur, stored, cursor, mailbox, calls, overlapped>>

-----------------------------------------------------------------------------
(* Status callbacks, as the awaiting task sees them.                       *)

\* monitor begins with the cursor of the file.  (The answered call leaves the wire.)
Answered(t) ==
    /\ tasks[t].pc \in Reporting
    /\ \/ /\ tasks[t].pc = "announce"
          /\ tasks' = [tasks EXCEPT ![t].pc = "poll", ![t].pos = cursor]
          /\ UNCHANGED <<objs, overlapped>>
       \/ tasks[t].pc # "announce" /\ Finally(t)
    /\ UNCHANGED <<up, cur, stored, cursor, mailbox>>

\* A timeout or an error status.  The reporter retries until its delays are used up.
Unanswered(t) ==
    /\ tasks[t].pc \in Reporting
    /\ \/ tasks[t].pc = "announce" /\ Fail(t)
       \/ tasks[t].pc # "announce" /\ Finally(t) /\ calls' = Orphaned({t})
       \/ /\ tasks[t].pc = "report_restored" /\ Report(t, {}, "online")
          /\ UNCHANGED <<objs, tasks, overlapped>>
    /\ UNCHANGED <<up, cur, stored, cursor, mailbox>>

-----------------------------------------------------------------------------
(* Polling and forwarding.                                                 *)

Arrive == /\ mailbox < MaxMessages
          /\ mailbox' = mailbox + 1
          /\ UNCHANGED <<up, cur, objs, tasks, stored, cursor, calls, overlapped>>

\* Faulty: the cursor is saved with the batch, before it is forwarded.
DeliverCursorFirst(t, upto, todo) ==
    LET o == tasks[t].obj
    IN  /\ cursor' = upto
        /\ IF todo = {}
           THEN /\ tasks' = [tasks EXCEPT ![t].pc = "poll", ![t].pos = upto,
                                          ![t].upto = 0, ![t].todo = {}]
                /\ UNCHANGED <<objs, stored>>
           ELSE /\ objs' = [objs EXCEPT ![o].tokens = @ \cup {Next1(todo)}]
                /\ stored' = Saved(objs[o].tokens \cup {Next1(todo)})
                /\ tasks' = [tasks EXCEPT ![t].pc = "forward", ![t].upto = upto, ![t].todo = todo]

\* Faulty: the context token is kept in memory only.
DeliverUnsaved(t, upto, todo) ==
    LET o == tasks[t].obj
    IN  /\ UNCHANGED stored
        /\ IF todo = {}
           THEN /\ cursor' = upto
                /\ tasks' = [tasks EXCEPT ![t].pc = "poll", ![t].pos = upto,
                                          ![t].upto = 0, ![t].todo = {}]
                /\ UNCHANGED objs
           ELSE /\ objs' = [objs EXCEPT ![o].tokens = @ \cup {Next1(todo)}]
                /\ tasks' = [tasks EXCEPT ![t].pc = "forward", ![t].upto = upto, ![t].todo = todo]
                /\ UNCHANGED cursor

\* on_message for the next of todo, up to its await of forward; or, when the whole batch
\* has been accepted, the new cursor.
Deliver(t, upto, todo) ==
    LET o == tasks[t].obj
    IN  IF todo = {}
        THEN /\ cursor' = upto
             /\ tasks' = [tasks EXCEPT ![t].pc = "poll", ![t].pos = upto,
                                       ![t].upto = 0, ![t].todo = {}]
             /\ UNCHANGED <<objs, stored>>
        ELSE /\ objs' = [objs EXCEPT ![o].tokens = @ \cup {Next1(todo)}]
             /\ stored' = Saved(objs[o].tokens \cup {Next1(todo)})
             /\ tasks' = [tasks EXCEPT ![t].pc = "forward", ![t].upto = upto, ![t].todo = todo]
             /\ UNCHANGED cursor

\* get_updates answers a batch and the cursor behind it.
Fetch(t) ==
    /\ tasks[t].pc = "poll"
    /\ \E n \in (tasks[t].pos + 1)..mailbox :
         Deliver(t, n, ((tasks[t].pos + 1)..n) \ Unreadable)
    /\ UNCHANGED <<up, cur, mailbox, calls, overlapped>>

\* Anything but a transport error, which monitor itself retries.
PollBroken(t) ==
    /\ tasks[t].pc = "poll" /\ Fail(t)
    /\ UNCHANGED <<up, cur, stored, cursor, mailbox>>

SessionExpired(t) ==
    LET o == tasks[t].obj
        quit == IF tasks[t].kind = "restored" THEN Reporters(o) ELSE {}
    IN  /\ tasks[t].pc = "poll"
        /\ stored' = NoSession
        /\ objs' = [objs EXCEPT ![o].creds = FALSE, ![o].tokens = {}]
        /\ tasks' = [u \in Tasks |->
                       IF u \in quit THEN NoTask
                       ELSE IF u = t THEN [NoTask EXCEPT !.obj = o, !.kind = tasks[t].kind,
                                                         !.pc = "start_login"]
                       ELSE tasks[u]]
        /\ calls' = Orphaned(quit)
        /\ UNCHANGED <<up, cur, cursor, mailbox, overlapped>>

\* The gateway has taken the message; its answer is on the way.
Handled(t) ==
    /\ tasks[t].pc = "forward"
    /\ tasks' = [tasks EXCEPT ![t].pc = "forwarded"]
    /\ UNCHANGED <<up, cur, objs, stored, cursor, mailbox, calls, overlapped>>

Forwarded(t) ==
    /\ tasks[t].pc = "forwarded"
    /\ Deliver(t, tasks[t].upto, tasks[t].todo \ {Next1(tasks[t].todo)})
    /\ UNCHANGED <<up, cur, mailbox, calls, overlapped>>

NotForwarded(t) ==
    /\ tasks[t].pc \in Forwarding /\ Fail(t)
    /\ UNCHANGED <<up, cur, stored, cursor, mailbox>>

-----------------------------------------------------------------------------
(* The operations of the bridge's own interface.                           *)

\* Faulty: a login under way does not count.
RunningOnline == cur # Nobody /\ objs[cur].status = "online"

Running == cur # Nobody /\ objs[cur].status \in {"pending_login", "online"}

\* A new object takes the place of cur, which is gone unless a task still holds it.
Replaced(o, new) == [p \in Objects |-> IF p = o THEN new
                                       ELSE IF Live(p) = {} THEN NoState ELSE objs[p]]

\* A restored session polls at once and reports beside it.
Resume ==
    \E o \in Free, t, u \in Idle :
      /\ t # u
      /\ cur' = o
      /\ objs' = Replaced(o, [status |-> "online", creds |-> TRUE,
                              tokens |-> stored.tokens, task |-> t, lost |-> FALSE])
      /\ stored' = Saved(stored.tokens)
      /\ tasks' = [tasks EXCEPT ![t] = [NoTask EXCEPT !.obj = o, !.kind = "restored",
                                                      !.pc = "poll", !.pos = cursor],
                                ![u] = [NoTask EXCEPT !.obj = o, !.kind = "reporter",
                                                      !.pc = "report_restored"]]
      /\ Report(u, {}, "online")

BeginLogin ==
    \E o \in Free, t \in Idle :
      /\ cur' = o
      /\ objs' = Replaced(o, [NoState EXCEPT !.status = "pending_login", !.task = t])
      /\ tasks' = [tasks EXCEPT ![t] = [NoTask EXCEPT !.obj = o, !.pc = "wait_login"]]
      /\ UNCHANGED <<stored, calls>>

\* BridgeRuntime.start; answer is the status it returns.
StartAnswer == IF Running THEN Status ELSE IF stored.exists THEN "online" ELSE "pending_login"
Start ==
    /\ up
    /\ \/ Running /\ UNCHANGED <<cur, objs, tasks, stored, calls>>
       \/ ~Running /\ stored.exists /\ Resume
       \/ ~Running /\ ~stored.exists /\ BeginLogin
    /\ UNCHANGED <<up, cursor, mailbox, overlapped>>

\* Faulty: the session file is not told.
StopInMemory ==
    LET quit == IF cur = Nobody THEN {} ELSE Reporters(cur) \cup (Live(cur) \cap {objs[cur].task})
    IN  /\ up
        /\ objs' = IF cur = Nobody THEN objs
                   ELSE [objs EXCEPT ![cur].status = "offline", ![cur].task = Nobody]
        /\ tasks' = [t \in Tasks |-> IF t \in quit THEN NoTask ELSE tasks[t]]
        /\ calls' = Orphaned(quit)
        /\ UNCHANGED <<up, cur, stored, cursor, mailbox, overlapped>>

\* BridgeRuntime.stop cancels state.task and the reporter; a rotation that still reports
\* is neither.
Stop ==
    LET quit == IF cur = Nobody THEN {} ELSE Reporters(cur) \cup (Live(cur) \cap {objs[cur].task})
    IN  /\ up
        /\ objs' = IF cur = Nobody THEN objs
                   ELSE [objs EXCEPT ![cur].status = "offline", ![cur].task = Nobody]
        /\ stored' = IF cur # Nobody /\ objs[cur].creds
                     THEN [Saved(objs[cur].tokens) EXCEPT !.desired = FALSE]
                     ELSE IF cur = Nobody THEN [stored EXCEPT !.desired = FALSE]
                     ELSE stored
        /\ tasks' = [t \in Tasks |-> IF t \in quit THEN NoTask ELSE tasks[t]]
        /\ calls' = Orphaned(quit)
        /\ UNCHANGED <<up, cur, cursor, mailbox, overlapped>>

Crash ==
    /\ up /\ up' = FALSE
    /\ cur' = Nobody
    /\ objs' = [o \in Objects |-> NoState]
    /\ tasks' = [t \in Tasks |-> NoTask]
    /\ calls' = Orphaned(Tasks)
    /\ UNCHANGED <<stored, cursor, mailbox, overlapped>>

\* restore_all.
Boot ==
    /\ ~up /\ up' = TRUE
    /\ \/ stored.exists /\ stored.desired /\ Resume
       \/ ~(stored.exists /\ stored.desired) /\ UNCHANGED <<cur, objs, tasks, stored, calls>>
    /\ UNCHANGED <<cursor, mailbox, overlapped>>

=============================================================================
