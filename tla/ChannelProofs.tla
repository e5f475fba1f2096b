---------------------------- MODULE ChannelProofs ----------------------------
(***************************************************************************)
(* For any number of objects, tasks, messages, callbacks, requests and     *)
(* crashes: Channel implements Inbox; and its instance has one session     *)
(* that can answer what was taken, has a task that works for it, and stops *)
(* for good.                                                               *)
(***************************************************************************)
EXTENDS Channel, WellFoundedInduction, FiniteSetTheorems, TLAPS

\* What is behind n has been stored, or cannot be read.
Covered(n) == 1..n \subseteq accepted \cup Unreadable

\* A task that polls or forwards has passed nothing: what is neither stored nor unreadable of
\* its batch is still to do.
Careful(r) ==
    /\ r.pc = "poll" => r.pos <= mailbox /\ Covered(r.pos)
    /\ r.pc \in Forwarding =>
         /\ r.upto <= mailbox
         /\ r.todo # {} /\ r.todo \subseteq (1..r.upto) \ Unreadable
         /\ (1..r.upto) \ r.todo \subseteq accepted \cup Unreadable
    /\ r.pc = "forwarded" => Next1(r.todo) \in accepted

\* The part of the type invariant that the argument needs.
Typed == /\ tasks \in [Tasks -> TaskState] /\ calls \subseteq Call
         /\ cur \in Objects \cup {Nobody}
         /\ mailbox \in 0..MaxMessages /\ cursor \in 0..MaxMessages

ReadInv == /\ Typed
           /\ accepted \subseteq (1..mailbox) \ Unreadable
           /\ cursor <= mailbox /\ Covered(cursor)
           /\ \A t \in Tasks : Careful(tasks[t])

\* The gateway's side of the promise stays as it is.
Quiet == UNCHANGED <<mailbox, accepted, cursor>>

\* A set of numbers that is not empty has a least one, which Next1 is.
LEMMA NextOfBatch ==
    ASSUME NEW S, S \subseteq Nat, S # {}
    PROVE  Next1(S) \in S
<1> DEFINE R == OpToRel(<, Nat)
<1>1. IsWellFoundedOn(R, Nat)
    BY NatLessThanWellFounded
<1> HIDE DEF R
<1>2. PICK x \in S : \A y \in S : ~(<<y, x>> \in R)
    BY <1>1, WFMin
<1>3. ASSUME NEW y \in S PROVE x <= y
    <2>1. y \in Nat /\ x \in Nat
        OBVIOUS
    <2>2. y < x => <<y, x>> \in R
        BY <2>1 DEF R, OpToRel
    <2> QED
        BY <1>2, <2>1, <2>2
<1>4. \E z \in S : \A y \in S : z <= y
    BY <1>3
<1> QED
    BY <1>4 DEF Next1, Min

-----------------------------------------------------------------------------
(* Types.                                                                  *)

LEMMA NoTaskTyped == NoTask \in TaskState /\ NoTask.pc = "idle"
<1>1. 0 \in 0..MaxMessages /\ {} \in SUBSET Messages
    BY BridgeAssumption
<1>2. NoTask \in TaskState
    BY <1>1, Zenon DEF NoTask, TaskState
<1> QED
    BY <1>2 DEF NoTask

LEMMA OrphanedTyped ==
    ASSUME calls \subseteq Call, NEW quit
    PROVE  Orphaned(quit) \subseteq Call
BY DEF Orphaned, Call

LEMMA ReportTyped ==
    ASSUME calls \subseteq Call, NEW t \in Tasks, NEW quit, NEW status \in BridgeStatus,
           Report(t, quit, status)
    PROVE  calls' \subseteq Call
<1>1. [by |-> t, status |-> status] \in Call
    BY DEF Call
<1> QED
    BY <1>1, OrphanedTyped DEF Report

\* A step that leaves the gateway alone and gives no task a new batch keeps the invariant.
LEMMA QuietStep ==
    ASSUME ReadInv, Quiet, calls' \subseteq Call, cur' \in Objects \cup {Nobody},
           DOMAIN tasks' = Tasks, tasks' = [t \in Tasks |-> tasks'[t]],
           \A t \in Tasks : \/ tasks'[t] = tasks[t]
                            \/ tasks'[t] \in TaskState /\ Careful(tasks'[t])
    PROVE  ReadInv'
<1>1. Typed'
    <2>1. \A t \in Tasks : tasks'[t] \in TaskState
        BY DEF ReadInv, Typed
    <2>2. tasks' \in [Tasks -> TaskState]
        BY <2>1
    <2> QED
        BY <2>2 DEF ReadInv, Typed, Quiet
<1>2. \A r : Careful(r) => Careful(r)'
    BY DEF Careful, Covered, Quiet
<1>3. ASSUME NEW t \in Tasks PROVE Careful(tasks[t])'
    <2>1. Careful(tasks'[t])
        BY DEF ReadInv
    <2> QED
        BY <2>1 DEF Careful, Covered, Quiet
<1> QED
    BY <1>1, <1>3 DEF ReadInv, Covered, Quiet

\* A task in a state that neither polls nor forwards is careful.
LEMMA Harmless == \A r : r.pc \notin Forwarding \cup {"poll"} => Careful(r)
BY DEF Careful, Forwarding

\* The records that the steps make of a task, or of none.
LEMMA WithPc ==
    ASSUME NEW r \in TaskState,
           NEW p \in Reporting \cup {"idle", "wait_login", "poll", "forward", "forwarded", "start_login"}
    PROVE  /\ [r EXCEPT !.pc = p] \in TaskState
           /\ [r EXCEPT !.pc = p].pc = p
           /\ [r EXCEPT !.pc = p].upto = r.upto /\ [r EXCEPT !.pc = p].todo = r.todo
BY DEF TaskState

LEMMA NewTask ==
    ASSUME NEW o \in Objects \cup {Nobody}, NEW k \in {"fresh", "restored", "reporter"},
           NEW p \in Reporting \cup {"idle", "wait_login", "poll", "forward", "forwarded", "start_login"}
    PROVE  /\ [NoTask EXCEPT !.obj = o, !.kind = k, !.pc = p] \in TaskState
           /\ [NoTask EXCEPT !.obj = o, !.kind = k, !.pc = p].pc = p
           /\ [NoTask EXCEPT !.obj = o, !.pc = p] \in TaskState
           /\ [NoTask EXCEPT !.obj = o, !.pc = p].pc = p
BY NoTaskTyped DEF TaskState

LEMMA NewTaskIn ==
    ASSUME NEW r \in TaskState
    PROVE  /\ [NoTask EXCEPT !.obj = r.obj, !.kind = r.kind, !.pc = "report_error"] \in TaskState
           /\ [NoTask EXCEPT !.obj = r.obj, !.kind = r.kind, !.pc = "report_error"].pc = "report_error"
           /\ [NoTask EXCEPT !.obj = r.obj, !.kind = r.kind, !.pc = "start_login"] \in TaskState
           /\ [NoTask EXCEPT !.obj = r.obj, !.kind = r.kind, !.pc = "start_login"].pc = "start_login"
BY NoTaskTyped DEF TaskState, Reporting

LEMMA PollingTask ==
    ASSUME NEW o \in Objects \cup {Nobody}, NEW c \in 0..MaxMessages
    PROVE  /\ [NoTask EXCEPT !.obj = o, !.kind = "restored", !.pc = "poll", !.pos = c] \in TaskState
           /\ [NoTask EXCEPT !.obj = o, !.kind = "restored", !.pc = "poll", !.pos = c].pc = "poll"
           /\ [NoTask EXCEPT !.obj = o, !.kind = "restored", !.pc = "poll", !.pos = c].pos = c
BY NoTaskTyped DEF TaskState

\* A task that polls from the stored cursor is careful.
LEMMA PollsFromCursor ==
    ASSUME ReadInv, NEW r, r.pc = "poll", r.pos = cursor PROVE Careful(r)
BY DEF ReadInv, Careful, Forwarding

-----------------------------------------------------------------------------
(* The steps of the bridge that read nothing new.                          *)

LEMMA FailStep ==
    ASSUME ReadInv, NEW t \in Tasks, Fail(t), Quiet, cur' = cur PROVE ReadInv'
<1> DEFINE o == tasks[t].obj
           quit == IF tasks[t].kind = "restored" THEN Reporters(o) ELSE {}
           r == [NoTask EXCEPT !.obj = o, !.kind = tasks[t].kind, !.pc = "report_error"]
<1>1. tasks[t] \in TaskState
    BY DEF ReadInv, Typed
<1>3. r \in TaskState /\ r.pc = "report_error"
    BY <1>1, NewTaskIn
<1>4. tasks' = [u \in Tasks |-> IF u \in quit THEN NoTask ELSE IF u = t THEN r ELSE tasks[u]]
    BY DEF Fail
<1>5. Report(t, quit, "error")
    BY DEF Fail
<1> HIDE DEF o, quit, r
<1>6. calls' \subseteq Call
    BY <1>5, ReportTyped DEF ReadInv, Typed, BridgeStatus
<1>7. Careful(r) /\ Careful(NoTask)
    BY <1>3, NoTaskTyped, Harmless DEF Forwarding
<1>8. \A u \in Tasks : \/ tasks'[u] = tasks[u]
                       \/ tasks'[u] \in TaskState /\ Careful(tasks'[u])
    BY <1>3, <1>4, <1>7, NoTaskTyped
<1>9. DOMAIN tasks' = Tasks /\ tasks' = [u \in Tasks |-> tasks'[u]]
    BY <1>4
<1> QED
    BY <1>6, <1>8, <1>9, QuietStep DEF ReadInv, Typed

\* One task gets the record r.
LEMMA OneTaskStep ==
    ASSUME ReadInv, NEW t \in Tasks, NEW r \in TaskState, Careful(r),
           tasks' = [tasks EXCEPT ![t] = r], Quiet, cur' = cur, calls' \subseteq Call
    PROVE  ReadInv'
<1>1. tasks \in [Tasks -> TaskState]
    BY DEF ReadInv, Typed
<1>2. DOMAIN tasks' = Tasks /\ tasks' = [u \in Tasks |-> tasks'[u]]
    BY <1>1
<1>3. \A u \in Tasks : \/ tasks'[u] = tasks[u]
                       \/ tasks'[u] \in TaskState /\ Careful(tasks'[u])
    BY <1>1
<1> QED
    BY <1>2, <1>3, QuietStep DEF ReadInv, Typed

LEMMA FinallyStep ==
    ASSUME ReadInv, NEW t \in Tasks, Finally(t), Quiet, cur' = cur, calls' \subseteq Call
    PROVE  ReadInv'
<1>1. NoTask \in TaskState /\ Careful(NoTask)
    BY NoTaskTyped, Harmless DEF Forwarding
<1> QED
    BY <1>1, OneTaskStep DEF Finally

\* A task goes on to a state p in which it neither polls nor forwards.
LEMMA MovedOn ==
    ASSUME ReadInv, NEW t \in Tasks, NEW p \in Reporting \cup {"start_login"},
           tasks' = [tasks EXCEPT ![t].pc = p], Quiet, cur' = cur, calls' \subseteq Call
    PROVE  ReadInv'
<1> DEFINE r == [tasks[t] EXCEPT !.pc = p]
<1>1. tasks[t] \in TaskState
    BY DEF ReadInv, Typed
<1>2. r \in TaskState /\ r.pc = p
    BY <1>1, WithPc
<1>3. Careful(r)
    BY <1>2, Harmless DEF Forwarding, Reporting
<1>4. tasks' = [tasks EXCEPT ![t] = r]
    BY DEF ReadInv, Typed
<1> HIDE DEF r
<1> QED
    BY <1>2, <1>3, <1>4, OneTaskStep

LEMMA LoginConfirmedStep ==
    ASSUME ReadInv, NEW t \in Tasks, LoginConfirmed(t), UNCHANGED accepted PROVE ReadInv'
<1>1. Quiet /\ cur' = cur /\ tasks' = [tasks EXCEPT ![t].pc = "announce"] /\ Report(t, {}, "online")
    BY DEF LoginConfirmed, Quiet
<1>2. calls' \subseteq Call
    BY <1>1, ReportTyped DEF ReadInv, Typed, BridgeStatus
<1>3. "announce" \in Reporting
    BY DEF Reporting
<1> QED
    BY <1>1, <1>2, <1>3, MovedOn

LEMMA QrExpiredStep ==
    ASSUME ReadInv, NEW t \in Tasks, QrExpired(t), UNCHANGED accepted PROVE ReadInv'
<1>1. Quiet /\ cur' = cur /\ tasks' = [tasks EXCEPT ![t].pc = "start_login"] /\ calls' \subseteq Call
    BY DEF QrExpired, Quiet, ReadInv, Typed
<1> QED
    BY <1>1, MovedOn

LEMMA RotateStep ==
    ASSUME ReadInv, NEW t \in Tasks, Rotate(t), UNCHANGED accepted PROVE ReadInv'
<1> DEFINE o == tasks[t].obj
           r == [tasks[t] EXCEPT !.pc = "report_pending"]
           q == [NoTask EXCEPT !.obj = o, !.pc = "wait_login"]
<1>1. PICK u \in Idle : tasks' = [tasks EXCEPT ![t].pc = "report_pending", ![u] = q]
    BY DEF Rotate
<1>2. tasks \in [Tasks -> TaskState] /\ tasks[t] \in TaskState /\ u \in Tasks
    BY DEF ReadInv, Typed, Idle
<1>3. o \in Objects \cup {Nobody}
    BY <1>2 DEF TaskState
<1>4. q \in TaskState /\ q.pc = "wait_login" /\ r \in TaskState /\ r.pc = "report_pending"
    <2>1. "report_pending" \in Reporting
        BY DEF Reporting
    <2>2. q \in TaskState /\ q.pc = "wait_login"
        BY <1>3, NewTask, Zenon
    <2> QED
        BY <1>2, <2>1, <2>2, WithPc
<1>5. Careful(q) /\ Careful(r)
    BY <1>4, Harmless DEF Forwarding
<1>6. tasks' = [tasks EXCEPT ![t] = r, ![u] = q]
    BY <1>1, <1>2
<1>7. Quiet /\ cur' = cur /\ Report(t, {}, "pending_login")
    BY DEF Rotate, Quiet
<1>8. calls' \subseteq Call
    BY <1>7, ReportTyped DEF ReadInv, Typed, BridgeStatus
<1> HIDE DEF q, r, o
<1>9. \A v \in Tasks : \/ tasks'[v] = tasks[v]
                       \/ tasks'[v] \in TaskState /\ Careful(tasks'[v])
    BY <1>2, <1>4, <1>5, <1>6
<1>10. DOMAIN tasks' = Tasks /\ tasks' = [v \in Tasks |-> tasks'[v]]
    BY <1>2, <1>6
<1> QED
    BY <1>7, <1>8, <1>9, <1>10, QuietStep DEF ReadInv, Typed

LEMMA RotateBrokenStep ==
    ASSUME ReadInv, NEW t \in Tasks, RotateBroken(t), UNCHANGED accepted PROVE ReadInv'
<1>1. Quiet /\ cur' = cur /\ tasks' = [tasks EXCEPT ![t] = NoTask] /\ calls' \subseteq Call
    BY DEF RotateBroken, Quiet, ReadInv, Typed
<1>2. NoTask \in TaskState /\ Careful(NoTask)
    BY NoTaskTyped, Harmless DEF Forwarding
<1> QED
    BY <1>1, <1>2, OneTaskStep

\* The answer to a callback: a task that has announced its session polls from the stored cursor.
LEMMA AnsweredStep ==
    ASSUME ReadInv, NEW t \in Tasks, Answered(t), UNCHANGED accepted, calls' \subseteq Call
    PROVE  ReadInv'
<1>1. Quiet /\ cur' = cur
    BY DEF Answered, Quiet
<1>2. CASE tasks' = [tasks EXCEPT ![t].pc = "poll", ![t].pos = cursor]
    <2> DEFINE r == [tasks[t] EXCEPT !.pc = "poll", !.pos = cursor]
    <2>1. tasks[t] \in TaskState /\ cursor \in 0..MaxMessages
        BY DEF ReadInv, Typed
    <2>2. r \in TaskState /\ r.pc = "poll" /\ r.pos = cursor
        BY <2>1 DEF TaskState
    <2>3. Careful(r)
        BY <2>2, PollsFromCursor
    <2>4. tasks' = [tasks EXCEPT ![t] = r]
        BY <1>2 DEF ReadInv, Typed
    <2> HIDE DEF r
    <2> QED
        BY <1>1, <2>2, <2>3, <2>4, OneTaskStep
<1>3. CASE Finally(t)
    BY <1>1, <1>3, FinallyStep
<1> QED
    BY <1>2, <1>3 DEF Answered

LEMMA UnansweredStep ==
    ASSUME ReadInv, NEW t \in Tasks, Unanswered(t), UNCHANGED accepted PROVE ReadInv'
<1>1. Quiet /\ cur' = cur
    BY DEF Unanswered, Quiet
<1>2. CASE Fail(t)
    BY <1>1, <1>2, FailStep
<1>3. CASE Finally(t) /\ calls' = Orphaned({t})
    <2>1. calls' \subseteq Call
        BY <1>3, OrphanedTyped DEF ReadInv, Typed
    <2> QED
        BY <1>1, <1>3, <2>1, FinallyStep
<1>4. CASE Report(t, {}, "online") /\ tasks' = tasks
    <2>1. calls' \subseteq Call
        BY <1>4, ReportTyped DEF ReadInv, Typed, BridgeStatus
    <2>2. DOMAIN tasks' = Tasks /\ tasks' = [v \in Tasks |-> tasks'[v]]
        BY <1>4 DEF ReadInv, Typed
    <2> QED
        BY <1>1, <1>4, <2>1, <2>2, QuietStep DEF ReadInv, Typed
<1> QED
    BY <1>2, <1>3, <1>4 DEF Unanswered

LEMMA SessionExpiredStep ==
    ASSUME ReadInv, NEW t \in Tasks, SessionExpired(t), UNCHANGED accepted PROVE ReadInv'
<1> DEFINE o == tasks[t].obj
           quit == IF tasks[t].kind = "restored" THEN Reporters(o) ELSE {}
           r == [NoTask EXCEPT !.obj = o, !.kind = tasks[t].kind, !.pc = "start_login"]
<1>1. tasks[t] \in TaskState
    BY DEF ReadInv, Typed
<1>3. r \in TaskState /\ r.pc = "start_login"
    BY <1>1, NewTaskIn
<1>4. /\ tasks' = [u \in Tasks |-> IF u \in quit THEN NoTask ELSE IF u = t THEN r ELSE tasks[u]]
      /\ calls' = Orphaned(quit) /\ Quiet /\ cur' = cur
    BY DEF SessionExpired, Quiet
<1> HIDE DEF o, quit, r
<1>6. calls' \subseteq Call
    BY <1>4, OrphanedTyped DEF ReadInv, Typed
<1>7. Careful(r) /\ Careful(NoTask)
    BY <1>3, NoTaskTyped, Harmless DEF Forwarding
<1>8. \A u \in Tasks : \/ tasks'[u] = tasks[u]
                       \/ tasks'[u] \in TaskState /\ Careful(tasks'[u])
    BY <1>3, <1>4, <1>7, NoTaskTyped
<1>9. DOMAIN tasks' = Tasks /\ tasks' = [u \in Tasks |-> tasks'[u]]
    BY <1>4
<1> QED
    BY <1>4, <1>6, <1>8, <1>9, QuietStep DEF ReadInv, Typed

-----------------------------------------------------------------------------
(* The operations of the bridge's interface.                               *)

LEMMA ResumeStep ==
    ASSUME ReadInv, Resume, Quiet PROVE ReadInv'
<1>1. PICK o \in Free, t \in Idle, u \in Idle :
        /\ t # u /\ cur' = o /\ Report(u, {}, "online")
        /\ tasks' = [tasks EXCEPT ![t] = [NoTask EXCEPT !.obj = o, !.kind = "restored",
                                                        !.pc = "poll", !.pos = cursor],
                                  ![u] = [NoTask EXCEPT !.obj = o, !.kind = "reporter",
                                                        !.pc = "report_restored"]]
    BY DEF Resume
<1> DEFINE r == [NoTask EXCEPT !.obj = o, !.kind = "restored", !.pc = "poll", !.pos = cursor]
           q == [NoTask EXCEPT !.obj = o, !.kind = "reporter", !.pc = "report_restored"]
<1>2. /\ tasks \in [Tasks -> TaskState] /\ t \in Tasks /\ u \in Tasks
      /\ o \in Objects \cup {Nobody} /\ cursor \in 0..MaxMessages
    BY DEF ReadInv, Typed, Idle, Free
<1>3. r \in TaskState /\ r.pc = "poll" /\ r.pos = cursor
    BY <1>2, PollingTask
<1>4. q \in TaskState /\ q.pc = "report_restored"
    BY <1>2, NewTask DEF Reporting
<1>5. Careful(r) /\ Careful(q)
    BY <1>3, <1>4, PollsFromCursor, Harmless DEF Forwarding
<1>6. tasks' = [tasks EXCEPT ![t] = r, ![u] = q]
    BY <1>1
<1>7. calls' \subseteq Call
    BY <1>1, <1>2, ReportTyped DEF ReadInv, Typed, BridgeStatus
<1> HIDE DEF q, r
<1>8. \A v \in Tasks : \/ tasks'[v] = tasks[v]
                       \/ tasks'[v] \in TaskState /\ Careful(tasks'[v])
    BY <1>2, <1>3, <1>4, <1>5, <1>6
<1>9. DOMAIN tasks' = Tasks /\ tasks' = [v \in Tasks |-> tasks'[v]]
    BY <1>2, <1>6
<1> QED
    BY <1>1, <1>2, <1>7, <1>8, <1>9, QuietStep

LEMMA BeginLoginStep ==
    ASSUME ReadInv, BeginLogin, Quiet PROVE ReadInv'
<1>1. PICK o \in Free, t \in Idle :
        /\ cur' = o /\ calls' = calls
        /\ tasks' = [tasks EXCEPT ![t] = [NoTask EXCEPT !.obj = o, !.pc = "wait_login"]]
    BY DEF BeginLogin
<1> DEFINE r == [NoTask EXCEPT !.obj = o, !.pc = "wait_login"]
<1>2. /\ tasks \in [Tasks -> TaskState] /\ t \in Tasks
      /\ o \in Objects \cup {Nobody} /\ calls \subseteq Call
    BY DEF ReadInv, Typed, Idle, Free
<1>3. r \in TaskState /\ r.pc = "wait_login"
    BY <1>2, NewTask, Zenon
<1>4. Careful(r)
    BY <1>3, Harmless DEF Forwarding
<1>5. tasks' = [tasks EXCEPT ![t] = r]
    BY <1>1
<1> HIDE DEF r
<1>6. DOMAIN tasks' = Tasks /\ tasks' = [v \in Tasks |-> tasks'[v]]
    BY <1>2, <1>5
<1>7. \A v \in Tasks : \/ tasks'[v] = tasks[v]
                       \/ tasks'[v] \in TaskState /\ Careful(tasks'[v])
    BY <1>2, <1>3, <1>4, <1>5
<1> QED
    BY <1>1, <1>2, <1>6, <1>7, QuietStep

LEMMA StartStep ==
    ASSUME ReadInv, Start, UNCHANGED accepted PROVE ReadInv'
<1>1. Quiet
    BY DEF Start, Quiet
<1>2. CASE UNCHANGED <<cur, objs, tasks, stored, calls>>
    <2>1. DOMAIN tasks' = Tasks /\ tasks' = [v \in Tasks |-> tasks'[v]]
        BY <1>2 DEF ReadInv, Typed
    <2> QED
        BY <1>1, <1>2, <2>1, QuietStep DEF ReadInv, Typed
<1>3. CASE Resume
    BY <1>1, <1>3, ResumeStep
<1>4. CASE BeginLogin
    BY <1>1, <1>4, BeginLoginStep
<1> QED
    BY <1>2, <1>3, <1>4 DEF Start

LEMMA StopStep ==
    ASSUME ReadInv, Stop, UNCHANGED accepted PROVE ReadInv'
<1> DEFINE quit == IF cur = Nobody THEN {} ELSE Reporters(cur) \cup (Live(cur) \cap {objs[cur].task})
<1>1. /\ Quiet /\ cur' = cur /\ calls' = Orphaned(quit)
      /\ tasks' = [t \in Tasks |-> IF t \in quit THEN NoTask ELSE tasks[t]]
    BY DEF Stop, Quiet
<1> HIDE DEF quit
<1>2. calls' \subseteq Call
    BY <1>1, OrphanedTyped DEF ReadInv, Typed
<1>3. Careful(NoTask) /\ NoTask \in TaskState
    BY NoTaskTyped, Harmless DEF Forwarding
<1>4. \A v \in Tasks : \/ tasks'[v] = tasks[v]
                       \/ tasks'[v] \in TaskState /\ Careful(tasks'[v])
    BY <1>1, <1>3
<1>5. DOMAIN tasks' = Tasks /\ tasks' = [v \in Tasks |-> tasks'[v]]
    BY <1>1
<1> QED
    BY <1>1, <1>2, <1>4, <1>5, QuietStep DEF ReadInv, Typed

LEMMA CrashStep ==
    ASSUME ReadInv, Crash, UNCHANGED accepted PROVE ReadInv'
<1>1. /\ Quiet /\ cur' = Nobody /\ calls' = Orphaned(Tasks)
      /\ tasks' = [t \in Tasks |-> NoTask]
    BY DEF Crash, Quiet
<1>2. calls' \subseteq Call
    BY <1>1, OrphanedTyped DEF ReadInv, Typed
<1>3. Careful(NoTask) /\ NoTask \in TaskState
    BY NoTaskTyped, Harmless DEF Forwarding
<1>4. \A v \in Tasks : tasks'[v] \in TaskState /\ Careful(tasks'[v])
    BY <1>1, <1>3
<1>5. DOMAIN tasks' = Tasks /\ tasks' = [v \in Tasks |-> tasks'[v]]
    BY <1>1
<1> QED
    BY <1>1, <1>2, <1>4, <1>5, QuietStep

LEMMA BootStep ==
    ASSUME ReadInv, Boot, UNCHANGED accepted PROVE ReadInv'
<1>1. Quiet
    BY DEF Boot, Quiet
<1>2. CASE UNCHANGED <<cur, objs, tasks, stored, calls>>
    <2>1. DOMAIN tasks' = Tasks /\ tasks' = [v \in Tasks |-> tasks'[v]]
        BY <1>2 DEF ReadInv, Typed
    <2> QED
        BY <1>1, <1>2, <2>1, QuietStep DEF ReadInv, Typed
<1>3. CASE Resume
    BY <1>1, <1>3, ResumeStep
<1> QED
    BY <1>2, <1>3 DEF Boot

\* Nothing of the bridge changes, but for calls that leave the wire.
LEMMA GatewayStep ==
    ASSUME ReadInv, Quiet, UNCHANGED <<cur, tasks>>, calls' \subseteq calls PROVE ReadInv'
<1>1. DOMAIN tasks' = Tasks /\ tasks' = [v \in Tasks |-> tasks'[v]]
    BY DEF ReadInv, Typed
<1> QED
    BY <1>1, QuietStep DEF ReadInv, Typed

LEMMA ApplyCallStep ==
    ASSUME ReadInv, NEW c \in calls, ApplyCall(c) PROVE ReadInv' /\ Quiet
<1>1. Quiet /\ calls' = calls \ {c}
    BY DEF ApplyCall, Answered, Quiet
<1>2. CASE c.by # Nobody /\ Answered(c.by)
    <2>1. c \in Call
        BY DEF ReadInv, Typed
    <2>2. c.by \in Tasks /\ calls' \subseteq Call
        BY <1>1, <1>2, <2>1 DEF Call, ReadInv, Typed
    <2> QED
        BY <1>1, <1>2, <2>2, AnsweredStep DEF Quiet
<1>3. CASE UNCHANGED <<cur, tasks>>
    BY <1>1, <1>3, GatewayStep
<1> QED
    BY <1>1, <1>2, <1>3 DEF ApplyCall

-----------------------------------------------------------------------------
(* The steps that the inbox sees.                                          *)

LEMMA ArriveStep == ASSUME ReadInv, Arrive, UNCHANGED accepted PROVE ReadInv' /\ Promise!Arrive
<1>1. /\ mailbox < MaxMessages /\ mailbox' = mailbox + 1
      /\ UNCHANGED <<cur, tasks, calls, cursor, accepted>>
    BY DEF Arrive
<1>2. mailbox \in 0..MaxMessages /\ mailbox' \in 0..MaxMessages /\ cursor \in 0..MaxMessages
    BY <1>1, BridgeAssumption DEF ReadInv, Typed
<1>3. Typed'
    BY <1>1, <1>2 DEF ReadInv, Typed
<1>4. accepted' \subseteq (1..mailbox') \ Unreadable /\ cursor' <= mailbox' /\ Covered(cursor)'
    BY <1>1, <1>2 DEF ReadInv, Covered
<1>5. ASSUME NEW t \in Tasks PROVE Careful(tasks[t])'
    <2>1. Careful(tasks[t]) /\ tasks[t] \in TaskState
        BY DEF ReadInv, Typed
    <2>2. tasks[t].pos \in Nat /\ tasks[t].upto \in Nat
        BY <2>1 DEF TaskState
    <2> QED
        BY <1>1, <1>2, <2>1, <2>2 DEF Careful, Covered
<1> QED
    BY <1>1, <1>3, <1>4, <1>5 DEF ReadInv, Promise!Arrive

LEMMA AcceptStep ==
    ASSUME ReadInv, NEW t \in Tasks, Accept(t) PROVE ReadInv' /\ Promise!Next
<1> DEFINE m == Next1(tasks[t].todo)
           r == [tasks[t] EXCEPT !.pc = "forwarded"]
<1>1. /\ tasks[t].pc = "forward" /\ tasks' = [tasks EXCEPT ![t].pc = "forwarded"]
      /\ accepted' = accepted \cup {m} /\ UNCHANGED <<cur, cursor, mailbox, calls>>
    BY DEF Accept, Handled
<1>2. /\ tasks \in [Tasks -> TaskState] /\ tasks[t] \in TaskState /\ Careful(tasks[t])
      /\ mailbox \in 0..MaxMessages /\ cursor \in 0..MaxMessages
    BY DEF ReadInv, Typed
<1>3. /\ tasks[t].upto <= mailbox /\ tasks[t].upto \in Nat
      /\ tasks[t].todo # {} /\ tasks[t].todo \subseteq (1..tasks[t].upto) \ Unreadable
      /\ (1..tasks[t].upto) \ tasks[t].todo \subseteq accepted \cup Unreadable
    BY <1>1, <1>2 DEF Careful, Forwarding, TaskState
<1>4. m \in tasks[t].todo
    BY <1>3, NextOfBatch
<1>5. m \in (1..mailbox) \ Unreadable
    BY <1>2, <1>3, <1>4
<1>6. r \in TaskState /\ r.pc = "forwarded" /\ r.upto = tasks[t].upto /\ r.todo = tasks[t].todo
    BY <1>2, WithPc
<1>7. tasks' = [tasks EXCEPT ![t] = r]
    BY <1>1, <1>2
<1> HIDE DEF r, m
<1>8. Next1(r.todo) = m
    BY <1>6 DEF m
<1>9. Typed'
    BY <1>1, <1>6, <1>7 DEF ReadInv, Typed
<1>10. \A s : Careful(s) => Careful(s)'
    BY <1>1 DEF Careful, Covered
<1>11. ASSUME NEW v \in Tasks PROVE Careful(tasks[v])'
    <2>1. CASE v = t
        <3>1. tasks'[v] = r
            BY <1>2, <1>7, <2>1
        <3>2. /\ tasks'[v].pc = "forwarded" /\ tasks'[v].upto = tasks[t].upto
              /\ tasks'[v].todo = tasks[t].todo /\ Next1(tasks'[v].todo) = m
            BY <1>6, <1>8, <3>1
        <3> QED
            BY <1>1, <1>3, <3>2 DEF Careful, Forwarding
    <2>2. CASE v # t
        <3>1. tasks'[v] = tasks[v] /\ Careful(tasks[v])
            BY <1>2, <1>7, <2>2 DEF ReadInv
        <3> QED
            BY <1>10, <3>1 DEF Careful, Covered
    <2> QED
        BY <2>1, <2>2
<1>12. accepted' \subseteq (1..mailbox') \ Unreadable /\ cursor' <= mailbox' /\ Covered(cursor)'
    BY <1>1, <1>5 DEF ReadInv, Covered
<1>13. Promise!Take({m}, cursor)
    BY <1>1, <1>2, <1>5 DEF ReadInv, Covered, Promise!Take
<1>14. {m} \in SUBSET (1..MaxMessages)
    BY <1>2, <1>5, BridgeAssumption
<1> QED
    BY <1>2, <1>9, <1>11, <1>12, <1>13, <1>14 DEF ReadInv, Promise!Next

\* on_message for what is left of a batch up to "upto", or the cursor behind it.
LEMMA DeliverStep ==
    ASSUME ReadInv, NEW t \in Tasks, NEW upto \in 0..MaxMessages, NEW todo, Deliver(t, upto, todo),
           UNCHANGED <<cur, mailbox, calls, accepted>>,
           upto <= mailbox, todo \subseteq (1..upto) \ Unreadable,
           (1..upto) \ todo \subseteq accepted \cup Unreadable
    PROVE  ReadInv' /\ [Promise!Next]_<<mailbox, accepted, cursor>>
<1>1. tasks \in [Tasks -> TaskState] /\ tasks[t] \in TaskState /\ mailbox \in 0..MaxMessages
    BY DEF ReadInv, Typed
<1>2. CASE todo = {}
    <2> DEFINE r == [tasks[t] EXCEPT !.pc = "poll", !.pos = upto, !.upto = 0, !.todo = {}]
    <2>1. cursor' = upto /\ tasks' = [tasks EXCEPT ![t].pc = "poll", ![t].pos = upto,
                                                   ![t].upto = 0, ![t].todo = {}]
        BY <1>2 DEF Deliver
    <2>2. tasks' = [tasks EXCEPT ![t] = r]
        BY <1>1, <2>1
    <2>3. 0 \in 0..MaxMessages
        BY BridgeAssumption
    <2>4. r \in TaskState /\ r.pc = "poll" /\ r.pos = upto
        BY <1>1, <2>3 DEF TaskState
    <2> HIDE DEF r
    <2>5. 1..upto \subseteq accepted \cup Unreadable
        BY <1>2
    <2>6. Typed'
        <3>1. tasks' \in [Tasks -> TaskState]
            BY <1>1, <2>2, <2>4
        <3>2. cursor' \in 0..MaxMessages
            BY <2>1
        <3> QED
            BY <3>1, <3>2 DEF ReadInv, Typed
    <2>7. ASSUME NEW v \in Tasks PROVE Careful(tasks[v])'
        <3>1. CASE v = t
            <4>1. tasks'[v] = r
                BY <1>1, <2>2, <3>1
            <4> QED
                BY <2>4, <2>5, <4>1 DEF Careful, Forwarding, Covered
        <3>2. CASE v # t
            <4>1. tasks'[v] = tasks[v] /\ Careful(tasks[v])
                BY <1>1, <2>2, <3>2 DEF ReadInv
            <4> QED
                BY <4>1 DEF Careful, Covered
        <3> QED
            BY <3>1, <3>2
    <2>8. accepted' \subseteq (1..mailbox') \ Unreadable /\ cursor' <= mailbox' /\ Covered(cursor)'
        BY <2>1, <2>5 DEF ReadInv, Covered
    <2>9. Promise!Take({}, upto)
        BY <1>1, <2>1, <2>5 DEF Promise!Take
    <2> QED
        BY <2>6, <2>7, <2>8, <2>9 DEF ReadInv, Promise!Next
<1>3. CASE todo # {}
    <2> DEFINE r == [tasks[t] EXCEPT !.pc = "forward", !.upto = upto, !.todo = todo]
    <2>1. cursor' = cursor /\ tasks' = [tasks EXCEPT ![t].pc = "forward", ![t].upto = upto,
                                                     ![t].todo = todo]
        BY <1>3 DEF Deliver
    <2>2. tasks' = [tasks EXCEPT ![t] = r]
        BY <1>1, <2>1
    <2>3. todo \in SUBSET Messages
        BY BridgeAssumption DEF Messages
    <2>4. r \in TaskState /\ r.pc = "forward" /\ r.upto = upto /\ r.todo = todo
        BY <1>1, <2>3 DEF TaskState
    <2> HIDE DEF r
    <2>5. Careful(r)
        BY <1>3, <2>4 DEF Careful, Forwarding
    <2>6. Quiet
        BY <2>1 DEF Quiet
    <2>7. calls' \subseteq Call
        BY DEF ReadInv, Typed
    <2> QED
        BY <2>2, <2>4, <2>5, <2>6, <2>7, OneTaskStep DEF Quiet
<1> QED
    BY <1>2, <1>3

LEMMA FetchStep ==
    ASSUME ReadInv, NEW t \in Tasks, Fetch(t), UNCHANGED accepted
    PROVE  ReadInv' /\ [Promise!Next]_<<mailbox, accepted, cursor>>
<1> DEFINE pos == tasks[t].pos
<1>1. /\ tasks[t] \in TaskState /\ tasks[t].pc = "poll" /\ Careful(tasks[t])
      /\ mailbox \in 0..MaxMessages
    BY DEF ReadInv, Typed, Fetch
<1>2. pos \in 0..MaxMessages /\ Covered(pos)
    BY <1>1 DEF TaskState, Careful
<1>3. PICK n \in (pos + 1)..mailbox : Deliver(t, n, ((pos + 1)..n) \ Unreadable)
    BY DEF Fetch
<1>4. n \in 0..MaxMessages /\ n <= mailbox
    BY <1>1, <1>2, <1>3, BridgeAssumption
<1> DEFINE todo == ((pos + 1)..n) \ Unreadable
<1>5. todo \subseteq (1..n) \ Unreadable /\ (1..n) \ todo \subseteq accepted \cup Unreadable
    BY <1>2, <1>4 DEF Covered
<1>6. UNCHANGED <<cur, mailbox, calls>>
    BY DEF Fetch
<1>7. Deliver(t, n, todo)
    BY <1>3
<1> HIDE DEF todo
<1> QED
    BY <1>4, <1>5, <1>6, <1>7, DeliverStep

LEMMA ForwardedStep ==
    ASSUME ReadInv, NEW t \in Tasks, Forwarded(t), UNCHANGED accepted
    PROVE  ReadInv' /\ [Promise!Next]_<<mailbox, accepted, cursor>>
<1> DEFINE upto == tasks[t].upto
           todo == tasks[t].todo \ {Next1(tasks[t].todo)}
<1>1. tasks[t] \in TaskState /\ tasks[t].pc = "forwarded" /\ Careful(tasks[t])
    BY DEF ReadInv, Typed, Forwarded
<1>2. /\ upto \in 0..MaxMessages /\ upto <= mailbox
      /\ tasks[t].todo \subseteq (1..upto) \ Unreadable
      /\ (1..upto) \ tasks[t].todo \subseteq accepted \cup Unreadable
      /\ Next1(tasks[t].todo) \in accepted
    BY <1>1 DEF TaskState, Careful, Forwarding
<1>3. todo \subseteq (1..upto) \ Unreadable /\ (1..upto) \ todo \subseteq accepted \cup Unreadable
    BY <1>2
<1>4. Deliver(t, upto, todo) /\ UNCHANGED <<cur, mailbox, calls>>
    BY DEF Forwarded
<1> HIDE DEF upto, todo
<1> QED
    BY <1>2, <1>3, <1>4, DeliverStep

-----------------------------------------------------------------------------
(* The whole.                                                              *)

LEMMA InitInv == ChannelInit => ReadInv
<1> SUFFICES ASSUME ChannelInit PROVE ReadInv
    OBVIOUS
<1>1. /\ tasks = [t \in Tasks |-> NoTask] /\ calls = {} /\ cur = Nobody
      /\ mailbox = 0 /\ cursor = 0 /\ accepted = {}
    BY DEF ChannelInit, Init
<1>2. 0 \in 0..MaxMessages /\ 1..0 = {}
    BY BridgeAssumption
<1>3. Typed
    BY <1>1, <1>2, NoTaskTyped DEF Typed
<1>4. Careful(NoTask)
    BY NoTaskTyped, Harmless DEF Forwarding
<1>5. \A t \in Tasks : Careful(tasks[t])
    BY <1>1, <1>4
<1> QED
    BY <1>1, <1>2, <1>3, <1>5 DEF ReadInv, Covered

\* What the bridge does by itself.
LEMMA BridgeStepOK ==
    ASSUME ReadInv, NEW t \in Tasks, BridgeStep(t)
    PROVE  ReadInv' /\ [Promise!Next]_<<mailbox, accepted, cursor>>
<1>1. UNCHANGED accepted
    BY DEF BridgeStep, gatewayVars
<1>2. CASE \/ LoginConfirmed(t) \/ LoginBroken(t) \/ QrExpired(t) \/ Rotate(t) \/ RotateBroken(t)
           \/ Unanswered(t) \/ PollBroken(t) \/ NotForwarded(t)
    <2>1. Quiet
        BY <1>1, <1>2 DEF Quiet, LoginConfirmed, LoginBroken, QrExpired, Rotate, RotateBroken,
                          Unanswered, PollBroken, NotForwarded
    <2>2. CASE LoginBroken(t) \/ PollBroken(t) \/ NotForwarded(t)
        <3>1. Fail(t) /\ cur' = cur
            BY <2>2 DEF LoginBroken, PollBroken, NotForwarded
        <3> QED
            BY <2>1, <3>1, FailStep DEF Quiet
    <2>3. ReadInv'
        BY <1>1, <1>2, <2>2, LoginConfirmedStep, QrExpiredStep, RotateStep, RotateBrokenStep,
           UnansweredStep
    <2> QED
        BY <2>1, <2>3 DEF Quiet
<1>3. CASE Fetch(t) \/ Forwarded(t)
    BY <1>1, <1>3, FetchStep, ForwardedStep
<1> QED
    BY <1>2, <1>3 DEF BridgeStep

\* Every step keeps the invariant and is a step of the inbox or leaves it alone.
LEMMA NextStep ==
    ASSUME ReadInv, [ChannelNext]_chanVars
    PROVE  ReadInv' /\ [Promise!Next]_<<mailbox, accepted, cursor>>
<1>1. CASE ApiStart \/ ApiStop \/ ApiCommit \/ ApiFailed \/ Reconcile
    <2>1. UNCHANGED <<vars, accepted>>
        BY <1>1 DEF ApiStart, ApiStop, ApiCommit, ApiFailed, Reconcile
    <2>2. Quiet /\ UNCHANGED <<cur, tasks>> /\ calls' \subseteq calls
        BY <2>1 DEF Quiet, vars
    <2> QED
        BY <2>2, GatewayStep DEF Quiet
<1>2. CASE BridgeCalled
    <2>1. UNCHANGED accepted
        BY <1>2 DEF BridgeCalled
    <2>2. CASE Start \/ Stop
        BY <2>1, <2>2, StartStep, StopStep DEF Start, Stop
    <2>3. CASE UNCHANGED vars
        <3>1. Quiet /\ UNCHANGED <<cur, tasks>> /\ calls' \subseteq calls
            BY <2>1, <2>3 DEF Quiet, vars
        <3> QED
            BY <3>1, GatewayStep DEF Quiet
    <2> QED
        BY <1>2, <2>2, <2>3 DEF BridgeCalled
<1>3. ASSUME NEW c \in calls, ApplyCall(c)
      PROVE  ReadInv' /\ UNCHANGED <<mailbox, accepted, cursor>>
    BY <1>3, ApplyCallStep DEF Quiet
<1>4. ASSUME NEW t \in Tasks, Accept(t) PROVE ReadInv' /\ Promise!Next
    BY <1>4, AcceptStep
<1>5. ASSUME NEW t \in Tasks, Refuse(t) PROVE ReadInv' /\ UNCHANGED <<mailbox, accepted, cursor>>
    <2>1. Fail(t) /\ cur' = cur /\ Quiet
        BY <1>5 DEF Refuse, NotForwarded, gatewayVars, Quiet
    <2> QED
        BY <2>1, FailStep DEF Quiet
<1>6. ASSUME NEW t \in Tasks, BridgeStep(t)
      PROVE  ReadInv' /\ [Promise!Next]_<<mailbox, accepted, cursor>>
    BY <1>6, BridgeStepOK
<1>7. ASSUME NEW t \in Tasks, Expire(t) PROVE ReadInv' /\ UNCHANGED <<mailbox, accepted, cursor>>
    <2>1. SessionExpired(t) /\ UNCHANGED <<mailbox, accepted, cursor>>
        BY <1>7 DEF Expire, SessionExpired
    <2> QED
        BY <2>1, SessionExpiredStep
<1>8. CASE Environment
    <2>1. UNCHANGED accepted
        BY <1>8 DEF Environment, gatewayVars
    <2>2. CASE Arrive
        BY <2>1, <2>2, ArriveStep DEF Promise!Next
    <2>3. CASE Crash \/ Boot
        BY <2>1, <2>3, CrashStep, BootStep DEF Crash, Boot
    <2> QED
        BY <1>8, <2>2, <2>3 DEF Environment
<1>9. CASE UNCHANGED chanVars
    <2>1. Quiet /\ UNCHANGED <<cur, tasks>> /\ calls' \subseteq calls
        BY <1>9 DEF Quiet, chanVars, vars, gatewayVars
    <2> QED
        BY <2>1, GatewayStep DEF Quiet
<1> QED
    BY <1>1, <1>2, <1>3, <1>4, <1>5, <1>6, <1>7, <1>8, <1>9 DEF ChannelNext

\* The stored cursor never passes a message that the gateway has not stored and could have
\* (ilink_service.py 78-116), whatever fails, is refused, restarts or runs twice.
THEOREM CursorNeverAhead == ChannelSpec => []CursorBehindGateway
<1>1. ReadInv => CursorBehindGateway
    BY DEF ReadInv, Covered, CursorBehindGateway
<1> QED
    BY <1>1, InitInv, NextStep, PTL DEF ChannelSpec

\* The channel implements the inbox: bridge and gateway together lose no message, for any
\* number of sessions, callbacks, requests and crashes.
THEOREM ChannelKeepsPromise == ChannelSpec => InboxSpec
<1>1. ChannelInit => Promise!Init
    BY DEF ChannelInit, Init, Promise!Init
<1> QED
    BY <1>1, InitInv, NextStep, PTL DEF ChannelSpec, InboxSpec, Promise!Spec

-----------------------------------------------------------------------------
(* The session: the tasks of an object, the tokens that the session file   *)
(* and the present object keep, and what a stop has achieved.              *)

\* A task that logs in, polls or forwards, or is about to; Led: or reports that this has failed.
Working == {"wait_login", "announce", "poll", "forward", "forwarded", "start_login"}
Led == Working \cup {"report_error"}

\* What the object s of a task in state pc looks like.
Fits(pc, s) ==
    /\ pc = "wait_login" => s.status = "pending_login"
    /\ pc = "report_error" => s.status = "error"
    /\ pc \in {"wait_login", "start_login"} => ~s.creds
    /\ pc \in {"announce", "poll", "forward", "forwarded"} => s.creds

\* The task v with record r: state.task names the one that works for an object and no other, and
\* that object is the present one.
Placed(v, r) ==
    r.pc # "idle" =>
      /\ r.obj \in Objects
      /\ r.kind = "reporter" <=> r.pc = "report_restored"
      /\ r.pc \in Led => objs[r.obj].task = v
      /\ r.pc = "report_pending" => objs[r.obj].task # v
      /\ Fits(r.pc, objs[r.obj])
      /\ ~overlapped /\ r.pc \in Working =>
            r.obj = cur /\ objs[r.obj].status \in {"pending_login", "online"}

\* NeverStranded for every object.
Attended(o) ==
    objs[o].status \in {"pending_login", "online"} /\ ~objs[o].lost =>
        \E v \in Tasks : tasks[v].obj = o /\ tasks[v].pc \in Working

\* The context tokens of the messages that can still be answered are in the file and in the
\* present object, that of a message on its way to the gateway too.
Unforgotten == accepted \ forgotten
KeptInFile == Unforgotten \subseteq stored.tokens /\ (Unforgotten = {} \/ stored.exists)
KeptInMemory ==
    cur # Nobody => IF objs[cur].creds THEN Unforgotten \subseteq objs[cur].tokens
                    ELSE Unforgotten = {} /\ ~stored.exists
KeptBefore(r) ==
    r.pc = "forward" => /\ stored.exists /\ Next1(r.todo) \in stored.tokens
                        /\ Next1(r.todo) \in objs[r.obj].tokens
Kept == KeptInFile /\ KeptInMemory /\ \A t \in Tasks : KeptBefore(tasks[t])

\* What a stop has achieved stays until a start.
AllStopped == ~Running /\ ~(stored.exists /\ stored.desired)
Asked ==
    /\ api.op = "start" => row.desired /\ api.pc # "idle"
    /\ ~overlapped /\ api.op = "stop" /\ (~row.desired \/ api.pc = "answered") => AllStopped

StateTyped == /\ up \in BOOLEAN /\ overlapped \in BOOLEAN
              /\ objs \in [Objects -> InstanceState]
              /\ stored \in Stored /\ row \in InstanceRow
              /\ accepted \subseteq Messages /\ forgotten \subseteq Messages
              /\ api \in Request
              /\ requests \in 0..MaxRequests /\ crashes \in 0..MaxCrashes

SessionInv == /\ ~up => cur = Nobody
              /\ \A t \in Tasks : Placed(t, tasks[t])
              /\ \A o \in Objects : Attended(o)
              /\ ~overlapped => Kept
              /\ Asked

ChanInv == ReadInv /\ StateTyped /\ SessionInv

-----------------------------------------------------------------------------
(* What only the bridge's steps change.                                    *)

\* No step of the bridge changes the request under way or the intent.
SameRequest == api' = api /\ row'.desired = row.desired

\* The tokens of the present object and of the file stay, and no message gets on its way.
LEMMA KeptSame ==
    ASSUME ~overlapped => Kept, overlapped => overlapped',
           UNCHANGED <<cur, stored, accepted, forgotten>>,
           \A o \in Objects : objs'[o].tokens = objs[o].tokens /\ objs'[o].creds = objs[o].creds,
           cur \in Objects \cup {Nobody},
           \A v \in Tasks : tasks'[v].pc = "forward" =>
               tasks'[v] = tasks[v] /\ tasks[v].obj \in Objects
    PROVE  ~overlapped' => Kept'
<1> SUFFICES ASSUME ~overlapped' PROVE Kept'
    OBVIOUS
<1>1. Kept
    OBVIOUS
<1>2. KeptInFile' /\ Unforgotten' = Unforgotten
    BY <1>1 DEF Kept, KeptInFile, Unforgotten
<1>3. KeptInMemory'
    BY <1>1, <1>2 DEF Kept, KeptInMemory
<1>4. ASSUME NEW v \in Tasks PROVE KeptBefore(tasks[v])'
    <2> SUFFICES ASSUME tasks'[v].pc = "forward"
                 PROVE  /\ stored'.exists /\ Next1(tasks'[v].todo) \in stored'.tokens
                        /\ Next1(tasks'[v].todo) \in objs'[tasks'[v].obj].tokens
        BY DEF KeptBefore
    <2>1. KeptBefore(tasks[v]) /\ tasks'[v] = tasks[v] /\ tasks[v].obj \in Objects
        BY <1>1 DEF Kept
    <2> QED
        BY <2>1 DEF KeptBefore
<1> QED
    BY <1>2, <1>3, <1>4 DEF Kept

\* While a task works, the channel is not stopped.
LEMMA AtWork ==
    ASSUME SessionInv, NEW t \in Tasks, tasks[t].pc \in Working, ~overlapped
    PROVE  /\ Running /\ cur = tasks[t].obj /\ cur # Nobody /\ cur \in Objects
           /\ \A v \in Tasks : tasks[v].pc \in Working => v = t
<1>1. Placed(t, tasks[t]) /\ tasks[t].pc # "idle"
    BY DEF SessionInv, Working
<1>2. /\ tasks[t].obj = cur /\ objs[cur].status \in {"pending_login", "online"} /\ cur \in Objects
      /\ objs[cur].task = t
    BY <1>1 DEF Placed, Led
<1>3. cur # Nobody
    BY <1>2, BridgeAssumption
<1>4. ASSUME NEW v \in Tasks, tasks[v].pc \in Working PROVE v = t
    <2>1. Placed(v, tasks[v]) /\ tasks[v].pc # "idle"
        BY <1>4 DEF SessionInv, Working
    <2>2. tasks[v].obj = cur /\ objs[cur].task = v
        BY <1>4, <2>1 DEF Placed, Led
    <2> QED
        BY <1>2, <2>2
<1> QED
    BY <1>2, <1>3, <1>4 DEF Running

\* A step of the working task t: its object becomes s, itself r, and reporters may end.
Works(t, s, r) ==
    /\ objs' = [objs EXCEPT ![tasks[t].obj] = s] /\ s.task = objs[tasks[t].obj].task
    /\ tasks'[t] = r
    /\ \A v \in Tasks : v # t =>
           \/ tasks'[v] = tasks[v]
           \/ tasks'[v].pc = "idle" /\ tasks[v].pc = "report_restored"
    /\ r.pc \in Led \cup {"idle"}
    /\ r.pc \in Led => r.obj = tasks[t].obj /\ r.kind # "reporter" /\ Fits(r.pc, s)
    /\ r.pc \in Working /\ ~overlapped => s.status \in {"pending_login", "online"}
    /\ s.status \in {"pending_login", "online"} => s.lost \/ r.pc \in Working

LEMMA WorkStep ==
    ASSUME ChanInv, NEW t \in Tasks, tasks[t].pc \in Working, NEW s, NEW r, Works(t, s, r),
           UNCHANGED <<cur, up, overlapped>>, SameRequest, ~overlapped' => Kept'
    PROVE  SessionInv'
<1> USE DEF Works
<1> DEFINE o == tasks[t].obj
<1>1. Placed(t, tasks[t]) /\ tasks[t].pc # "idle" /\ tasks[t].pc \in Led
    BY DEF ChanInv, SessionInv, Working, Led
<1>2. o \in Objects /\ objs[o].task = t /\ (~overlapped => o = cur)
    BY <1>1 DEF Placed
<1>3. objs'[o] = s /\ \A p \in Objects : p # o => objs'[p] = objs[p]
    BY <1>2 DEF ChanInv, StateTyped
<1> HIDE DEF o
<1>4. ASSUME NEW v \in Tasks PROVE Placed(v, tasks[v])'
    <2>1. CASE v = t
        <3> SUFFICES ASSUME r.pc \in Led PROVE Placed(t, r)'
            BY <2>1 DEF Placed
        <3>1. r.obj = o /\ r.kind # "reporter" /\ Fits(r.pc, s) /\ s.task = t
            BY <1>2 DEF o
        <3>2. r.pc # "report_restored" /\ r.pc # "report_pending"
            BY DEF Led, Working
        <3>3. /\ r.obj \in Objects /\ objs'[r.obj] = s
              /\ ~overlapped' => r.obj = cur'
            BY <1>2, <1>3, <3>1
        <3> QED
            BY <3>1, <3>2, <3>3 DEF Placed, Fits
    <2>2. CASE v # t /\ tasks'[v].pc = "idle"
        BY <2>2 DEF Placed
    <2>3. CASE v # t /\ tasks'[v] = tasks[v] /\ tasks'[v].pc # "idle"
        <3>1. Placed(v, tasks[v]) /\ tasks[v].pc # "idle"
            BY <2>3 DEF ChanInv, SessionInv
        <3>2. CASE tasks[v].obj # o
            BY <1>3, <2>3, <3>1, <3>2 DEF Placed, Fits
        <3>3. CASE tasks[v].obj = o
            <4>1. tasks[v].pc \notin Led
                BY <1>2, <2>3, <3>1, <3>3 DEF Placed
            <4>2. /\ objs'[o].task = objs[o].task
                  /\ tasks[v].pc # "report_error" /\ tasks[v].pc \notin Working
                BY <1>2, <1>3, <4>1 DEF Led, o
            <4> QED
                BY <1>2, <2>3, <3>1, <3>3, <4>1, <4>2 DEF Placed, Fits, Working
        <3> QED
            BY <3>2, <3>3
    <2> QED
        BY <2>1, <2>2, <2>3
<1>5. ASSUME NEW p \in Objects PROVE Attended(p)'
    <2>1. CASE p = o
        <3>1. s.status \in {"pending_login", "online"} /\ ~s.lost => r.pc \in Working /\ r.obj = o
            BY DEF Led, o
        <3> QED
            BY <1>3, <2>1, <3>1 DEF Attended
    <2>2. CASE p # o
        <3> SUFFICES ASSUME objs[p].status \in {"pending_login", "online"}, ~objs[p].lost
                     PROVE  \E v \in Tasks : tasks'[v].obj = p /\ tasks'[v].pc \in Working
            BY <1>3, <2>2 DEF Attended
        <3>1. PICK v \in Tasks : tasks[v].obj = p /\ tasks[v].pc \in Working
            BY DEF ChanInv, SessionInv, Attended
        <3>2. v # t /\ tasks[v].pc # "report_restored"
            BY <2>2, <3>1 DEF Working, o
        <3> QED
            BY <3>1, <3>2
    <2> QED
        BY <2>1, <2>2
<1>6. Asked'
    <2>1. ~overlapped => Running
        BY AtWork DEF ChanInv
    <2> QED
        BY <2>1 DEF Asked, AllStopped, SameRequest, ChanInv, SessionInv
<1> QED
    BY <1>4, <1>5, <1>6 DEF SessionInv, ChanInv

-----------------------------------------------------------------------------
(* The steps of a task that works.                                         *)

\* What is known of the task that takes such a step.
LEMMA Worker ==
    ASSUME ChanInv, NEW t \in Tasks, tasks[t].pc \in Working
    PROVE  /\ tasks[t] \in TaskState /\ objs[tasks[t].obj] \in InstanceState
           /\ tasks[t].obj \in Objects /\ tasks[t].kind # "reporter"
           /\ Fits(tasks[t].pc, objs[tasks[t].obj])
           /\ objs[tasks[t].obj].task = t
           /\ ~overlapped => objs[tasks[t].obj].status \in {"pending_login", "online"}
<1>1. tasks[t] \in TaskState
    BY DEF ChanInv, ReadInv, Typed
<1>2. Placed(t, tasks[t]) /\ tasks[t].pc # "idle" /\ tasks[t].pc # "report_restored"
    BY DEF ChanInv, SessionInv, Working
<1>3. tasks[t].obj \in Objects /\ tasks[t].kind # "reporter" /\ Fits(tasks[t].pc, objs[tasks[t].obj])
    BY <1>2 DEF Placed
<1>4. objs[tasks[t].obj] \in InstanceState
    BY <1>3 DEF ChanInv, StateTyped
<1>5. /\ objs[tasks[t].obj].task = t
      /\ ~overlapped => objs[tasks[t].obj].status \in {"pending_login", "online"}
    BY <1>2 DEF Placed, Led
<1> QED
    BY <1>1, <1>3, <1>4, <1>5

LEMMA ConfirmedSession ==
    ASSUME ChanInv, NEW t \in Tasks, LoginConfirmed(t), UNCHANGED <<gatewayVars, crashes>>
    PROVE  SessionInv'
<1> DEFINE o == tasks[t].obj
           s == [objs[o] EXCEPT !.status = "online", !.creds = TRUE]
           r == [tasks[t] EXCEPT !.pc = "announce"]
<1>1. /\ tasks[t].pc = "wait_login" /\ tasks[t].pc \in Working
      /\ stored' = Saved(objs[o].tokens)
      /\ UNCHANGED <<cur, up, overlapped>>
    BY DEF LoginConfirmed, Working
<1>2. /\ objs' = [objs EXCEPT ![o].status = "online", ![o].creds = TRUE]
      /\ tasks' = [tasks EXCEPT ![t].pc = "announce"]
    BY DEF LoginConfirmed
<1>3. /\ tasks[t] \in TaskState /\ objs[o] \in InstanceState /\ o \in Objects
      /\ tasks[t].kind # "reporter" /\ ~objs[o].creds
      /\ objs \in [Objects -> InstanceState] /\ tasks \in [Tasks -> TaskState]
    BY <1>1, Worker DEF Fits, ChanInv, StateTyped, ReadInv, Typed
<1>4. objs' = [objs EXCEPT ![o] = s] /\ tasks' = [tasks EXCEPT ![t] = r]
    BY <1>2, <1>3
<1>5. /\ s.task = objs[o].task /\ s.tokens = objs[o].tokens /\ s.status = "online" /\ s.creds
      /\ r.pc = "announce" /\ r.obj = o /\ r.kind = tasks[t].kind
    BY <1>3 DEF InstanceState, TaskState
<1> HIDE DEF r, s, o
<1>6. /\ tasks'[t] = r /\ \A v \in Tasks : v # t => tasks'[v] = tasks[v]
      /\ objs'[o] = s /\ \A p \in Objects : p # o => objs'[p] = objs[p]
    BY <1>3, <1>4
<1>7. SameRequest /\ UNCHANGED <<accepted, forgotten>>
    BY DEF gatewayVars, SameRequest
<1>8. Fits(r.pc, s) /\ r.pc \in Working
    BY <1>5 DEF Fits, Working
<1>9. ASSUME ~overlapped' PROVE Kept'
    <2>1. /\ ~overlapped /\ Kept /\ cur = o /\ cur # Nobody
          /\ \A v \in Tasks : tasks[v].pc \in Working => v = t
        BY <1>1, <1>9, AtWork DEF ChanInv, SessionInv, o
    <2>2. Unforgotten = {} /\ Unforgotten' = {}
        BY <1>3, <1>7, <2>1 DEF Kept, KeptInMemory, Unforgotten
    <2>3. KeptInFile' /\ KeptInMemory'
        BY <1>1, <1>5, <1>6, <2>1, <2>2 DEF KeptInFile, KeptInMemory
    <2>4. ASSUME NEW v \in Tasks PROVE KeptBefore(tasks[v])'
        <3>1. tasks'[v].pc # "forward"
            BY <1>5, <1>6, <2>1 DEF Working
        <3> QED
            BY <3>1 DEF KeptBefore
    <2> QED
        BY <2>3, <2>4 DEF Kept
<1>10. /\ objs' = [objs EXCEPT ![tasks[t].obj] = s] /\ s.task = objs[tasks[t].obj].task
       /\ r.obj = tasks[t].obj
    BY <1>4, <1>5 DEF o
<1>11. Works(t, s, r)
    BY <1>3, <1>5, <1>6, <1>8, <1>10 DEF Works, Led
<1> QED
    BY <1>1, <1>7, <1>9, <1>11, WorkStep

LEMMA FailSession ==
    ASSUME ChanInv, NEW t \in Tasks, tasks[t].pc \in Working, Fail(t),
           UNCHANGED <<up, cur, stored, gatewayVars, crashes>>
    PROVE  SessionInv'
<1> DEFINE o == tasks[t].obj
           quit == IF tasks[t].kind = "restored" THEN Reporters(o) ELSE {}
           s == [objs[o] EXCEPT !.status = "error"]
           r == [NoTask EXCEPT !.obj = o, !.kind = tasks[t].kind, !.pc = "report_error"]
<1>1. /\ tasks[t] \in TaskState /\ objs[o] \in InstanceState /\ o \in Objects
      /\ tasks[t].kind # "reporter" /\ objs \in [Objects -> InstanceState]
    BY Worker DEF ChanInv, StateTyped
<1>2. /\ objs' = [objs EXCEPT ![o].status = "error"]
      /\ tasks' = [u \in Tasks |-> IF u \in quit THEN NoTask ELSE IF u = t THEN r ELSE tasks[u]]
      /\ overlapped' = overlapped
    BY DEF Fail
<1>3. objs' = [objs EXCEPT ![o] = s]
    BY <1>1, <1>2
<1>4. /\ s.task = objs[o].task /\ s.tokens = objs[o].tokens /\ s.status = "error"
      /\ s.creds = objs[o].creds
    BY <1>1 DEF InstanceState
<1>5. r.pc = "report_error" /\ r.obj = o /\ r.kind = tasks[t].kind
    BY DEF NoTask
<1>6. \A v \in quit : v \in Tasks /\ v # t /\ tasks[v].pc = "report_restored"
    <2>1. ASSUME NEW v \in quit PROVE v \in Tasks /\ v # t /\ tasks[v].pc = "report_restored"
        <3>1. v \in Tasks /\ tasks[v].pc # "idle" /\ tasks[v].kind = "reporter"
            BY <2>1 DEF Reporters, Live
        <3>2. Placed(v, tasks[v])
            BY <3>1 DEF ChanInv, SessionInv
        <3> QED
            BY <1>1, <3>1, <3>2 DEF Placed
    <2> QED
        BY <2>1
<1> HIDE DEF r, s, quit, o
<1>7. /\ tasks'[t] = r
      /\ \A v \in Tasks : v # t => \/ tasks'[v] = tasks[v]
                                   \/ tasks'[v].pc = "idle" /\ tasks[v].pc = "report_restored"
    BY <1>2, <1>6, NoTaskTyped
<1>8. \A p \in Objects : objs'[p].tokens = objs[p].tokens /\ objs'[p].creds = objs[p].creds
    BY <1>1, <1>3, <1>4
<1>9. SameRequest /\ UNCHANGED <<accepted, forgotten>>
    BY DEF gatewayVars, SameRequest
<1>10. ASSUME NEW v \in Tasks, tasks'[v].pc = "forward"
       PROVE  tasks'[v] = tasks[v] /\ tasks[v].obj \in Objects
    <2>1. v # t /\ tasks'[v] = tasks[v]
        BY <1>5, <1>7, <1>10
    <2> QED
        BY <1>10, <2>1, Worker DEF Working
<1>11. ~overlapped' => Kept'
    BY <1>2, <1>8, <1>9, <1>10, KeptSame DEF ChanInv, SessionInv, ReadInv, Typed
<1>12. Fits(r.pc, s) /\ r.pc \in Led /\ r.pc \notin Working
    BY <1>4, <1>5 DEF Fits, Led, Working
<1>13. /\ objs' = [objs EXCEPT ![tasks[t].obj] = s] /\ s.task = objs[tasks[t].obj].task
       /\ r.obj = tasks[t].obj
    BY <1>3, <1>4, <1>5 DEF o
<1>14. Works(t, s, r)
    BY <1>1, <1>4, <1>5, <1>7, <1>12, <1>13 DEF Works
<1> QED
    BY <1>2, <1>9, <1>11, <1>14, WorkStep

\* A task that works goes on, and its object stays as it is.
LEMMA GoesOn ==
    ASSUME ChanInv, NEW t \in Tasks, tasks[t].pc \in Working, NEW r,
           tasks' = [tasks EXCEPT ![t] = r], r.pc \in Working,
           r.obj = tasks[t].obj, r.kind = tasks[t].kind, Fits(r.pc, objs[tasks[t].obj]),
           UNCHANGED <<cur, up, objs, overlapped>>, SameRequest
    PROVE  /\ (~overlapped' => Kept') => SessionInv'
           /\ r.pc # "forward" /\ UNCHANGED <<stored, accepted, forgotten>> => SessionInv'
<1> DEFINE o == tasks[t].obj
           s == objs[o]
<1>1. /\ o \in Objects /\ objs \in [Objects -> InstanceState] /\ tasks \in [Tasks -> TaskState]
      /\ cur \in Objects \cup {Nobody}
    BY Worker DEF ChanInv, StateTyped, ReadInv, Typed
<1>2. objs' = [objs EXCEPT ![o] = s]
    BY <1>1
<1>3. tasks'[t] = r /\ \A v \in Tasks : v # t => tasks'[v] = tasks[v]
    BY <1>1
<1>4. /\ tasks[t].kind # "reporter"
      /\ ~overlapped => s.status \in {"pending_login", "online"}
    BY Worker
<1>5. Works(t, s, r)
    BY <1>2, <1>3, <1>4 DEF Works, Led
<1> HIDE DEF o, s
<1>6. (~overlapped' => Kept') => SessionInv'
    BY <1>5, WorkStep
<1>7. ASSUME r.pc # "forward", UNCHANGED <<stored, accepted, forgotten>>
      PROVE  ~overlapped' => Kept'
    <2>1. ASSUME NEW v \in Tasks, tasks'[v].pc = "forward"
          PROVE  tasks'[v] = tasks[v] /\ tasks[v].obj \in Objects
        <3>1. v # t /\ tasks'[v] = tasks[v] /\ tasks[v].pc \in Working
            BY <1>3, <1>7, <2>1 DEF Working
        <3> QED
            BY <3>1, Worker
    <2> QED
        BY <1>1, <1>7, <2>1, KeptSame DEF ChanInv, SessionInv
<1> QED
    BY <1>6, <1>7

LEMMA QrExpiredSession ==
    ASSUME ChanInv, NEW t \in Tasks, QrExpired(t), UNCHANGED <<gatewayVars, crashes>>
    PROVE  SessionInv'
<1> DEFINE r == [tasks[t] EXCEPT !.pc = "start_login"]
<1>1. /\ tasks[t].pc = "wait_login" /\ tasks[t].pc \in Working
      /\ tasks' = [tasks EXCEPT ![t].pc = "start_login"]
      /\ UNCHANGED <<cur, up, objs, overlapped, stored, accepted, forgotten>> /\ SameRequest
    BY DEF QrExpired, Working, gatewayVars, SameRequest
<1>2. /\ tasks[t] \in TaskState /\ tasks \in [Tasks -> TaskState]
      /\ Fits("wait_login", objs[tasks[t].obj])
    BY <1>1, Worker DEF ChanInv, ReadInv, Typed
<1>3. tasks' = [tasks EXCEPT ![t] = r]
    BY <1>1, <1>2
<1>4. r.pc = "start_login" /\ r.obj = tasks[t].obj /\ r.kind = tasks[t].kind
    BY <1>2 DEF TaskState
<1> HIDE DEF r
<1>5. Fits(r.pc, objs[tasks[t].obj]) /\ r.pc \in Working
    BY <1>2, <1>4 DEF Fits, Working
<1> QED
    BY <1>1, <1>3, <1>4, <1>5, GoesOn

LEMMA AnnouncedSession ==
    ASSUME ChanInv, NEW t \in Tasks, tasks[t].pc = "announce",
           tasks' = [tasks EXCEPT ![t].pc = "poll", ![t].pos = cursor],
           UNCHANGED <<cur, up, objs, overlapped, stored, accepted, forgotten>>, SameRequest
    PROVE  SessionInv'
<1> DEFINE r == [tasks[t] EXCEPT !.pc = "poll", !.pos = cursor]
<1>1. tasks[t].pc \in Working
    BY DEF Working
<1>2. /\ tasks[t] \in TaskState /\ tasks \in [Tasks -> TaskState]
      /\ Fits("announce", objs[tasks[t].obj])
    BY <1>1, Worker DEF ChanInv, ReadInv, Typed
<1>3. tasks' = [tasks EXCEPT ![t] = r]
    BY <1>2
<1>4. r.pc = "poll" /\ r.obj = tasks[t].obj /\ r.kind = tasks[t].kind
    BY <1>2 DEF TaskState
<1> HIDE DEF r
<1>5. Fits(r.pc, objs[tasks[t].obj]) /\ r.pc \in Working
    BY <1>2, <1>4 DEF Fits, Working
<1> QED
    BY <1>1, <1>3, <1>4, <1>5, GoesOn

LEMMA AcceptSession ==
    ASSUME ChanInv, NEW t \in Tasks, Accept(t) PROVE SessionInv'
<1> DEFINE r == [tasks[t] EXCEPT !.pc = "forwarded"]
           m == Next1(tasks[t].todo)
<1>1. /\ tasks[t].pc = "forward" /\ tasks[t].pc \in Working
      /\ tasks' = [tasks EXCEPT ![t].pc = "forwarded"]
      /\ UNCHANGED <<cur, up, objs, overlapped, stored, forgotten>> /\ SameRequest
      /\ accepted' = accepted \cup {m}
    BY DEF Accept, Handled, Working, SameRequest
<1>2. /\ tasks[t] \in TaskState /\ tasks \in [Tasks -> TaskState]
      /\ Fits("forward", objs[tasks[t].obj])
    BY <1>1, Worker DEF ChanInv, ReadInv, Typed
<1>3. tasks' = [tasks EXCEPT ![t] = r]
    BY <1>1, <1>2
<1>4. r.pc = "forwarded" /\ r.obj = tasks[t].obj /\ r.kind = tasks[t].kind
    BY <1>2 DEF TaskState
<1> HIDE DEF r, m
<1>5. Fits(r.pc, objs[tasks[t].obj]) /\ r.pc \in Working
    BY <1>2, <1>4 DEF Fits, Working
<1>6. ASSUME ~overlapped' PROVE Kept'
    <2>1. /\ ~overlapped /\ Kept /\ cur = tasks[t].obj /\ cur # Nobody
          /\ \A v \in Tasks : tasks[v].pc \in Working => v = t
        BY <1>1, <1>6, AtWork DEF ChanInv, SessionInv
    <2>2. /\ stored.exists /\ m \in stored.tokens /\ m \in objs[cur].tokens /\ objs[cur].creds
        BY <1>1, <1>2, <2>1 DEF Kept, KeptBefore, Fits, m
    <2>3. Unforgotten' \subseteq Unforgotten \cup {m}
        BY <1>1 DEF Unforgotten
    <2>4. KeptInFile' /\ KeptInMemory'
        BY <1>1, <2>1, <2>2, <2>3 DEF Kept, KeptInFile, KeptInMemory
    <2>5. ASSUME NEW v \in Tasks PROVE KeptBefore(tasks[v])'
        <3>1. tasks'[v].pc # "forward"
            BY <1>2, <1>3, <1>4, <2>1 DEF Working
        <3> QED
            BY <3>1 DEF KeptBefore
    <2> QED
        BY <2>4, <2>5 DEF Kept
<1> QED
    BY <1>1, <1>3, <1>4, <1>5, <1>6, GoesOn

\* The session file and the present object get the token of the next message.
LEMMA DeliverSession ==
    ASSUME ChanInv, NEW t \in Tasks, tasks[t].pc \in {"poll", "forwarded"},
           NEW upto, NEW todo, Deliver(t, upto, todo),
           UNCHANGED <<cur, up, overlapped, accepted, forgotten>>, SameRequest
    PROVE  SessionInv'
<1>1. tasks[t].pc \in Working
    BY DEF Working
<1>2. /\ tasks[t] \in TaskState /\ tasks \in [Tasks -> TaskState]
      /\ objs[tasks[t].obj].creds /\ tasks[t].obj \in Objects
      /\ objs[tasks[t].obj] \in InstanceState /\ objs \in [Objects -> InstanceState]
      /\ tasks[t].kind # "reporter"
      /\ ~overlapped => objs[tasks[t].obj].status \in {"pending_login", "online"}
    BY <1>1, Worker DEF ChanInv, ReadInv, Typed, StateTyped, Fits
<1>3. CASE todo = {}
    <2> DEFINE r == [tasks[t] EXCEPT !.pc = "poll", !.pos = upto, !.upto = 0, !.todo = {}]
    <2>1. /\ tasks' = [tasks EXCEPT ![t].pc = "poll", ![t].pos = upto, ![t].upto = 0, ![t].todo = {}]
          /\ UNCHANGED <<objs, stored>>
        BY <1>3 DEF Deliver
    <2>2. tasks' = [tasks EXCEPT ![t] = r]
        BY <1>2, <2>1
    <2>3. r.pc = "poll" /\ r.obj = tasks[t].obj /\ r.kind = tasks[t].kind
        BY <1>2 DEF TaskState
    <2> HIDE DEF r
    <2>4. Fits(r.pc, objs[tasks[t].obj]) /\ r.pc \in Working
        BY <1>2, <2>3 DEF Fits, Working
    <2> QED
        BY <1>1, <2>1, <2>2, <2>3, <2>4, GoesOn
<1>4. CASE todo # {}
    <2> DEFINE o == tasks[t].obj
               m == Next1(todo)
               s == [objs[o] EXCEPT !.tokens = @ \cup {m}]
               r == [tasks[t] EXCEPT !.pc = "forward", !.upto = upto, !.todo = todo]
    <2>1. /\ objs' = [objs EXCEPT ![o].tokens = @ \cup {m}]
          /\ tasks' = [tasks EXCEPT ![t].pc = "forward", ![t].upto = upto, ![t].todo = todo]
        BY <1>4 DEF Deliver
    <2>2. stored' = Saved(objs[o].tokens \cup {m})
        BY <1>4 DEF Deliver
    <2>3. objs' = [objs EXCEPT ![o] = s] /\ tasks' = [tasks EXCEPT ![t] = r]
        BY <1>2, <2>1
    <2>4. /\ s.status = objs[o].status /\ s.creds /\ s.task = objs[o].task
          /\ s.tokens = objs[o].tokens \cup {m}
        BY <1>2 DEF InstanceState
    <2>5. r.pc = "forward" /\ r.obj = o /\ r.kind = tasks[t].kind /\ r.todo = todo
        BY <1>2 DEF TaskState
    <2>6. /\ tasks'[t] = r /\ \A v \in Tasks : v # t => tasks'[v] = tasks[v]
          /\ o \in Objects /\ objs'[o] = s
        BY <1>2, <2>3
    <2> HIDE DEF r, s
    <2>7. Fits(r.pc, s) /\ r.pc \in Working
        BY <2>4, <2>5 DEF Fits, Working
    <2>8. Works(t, s, r)
        BY <1>2, <2>3, <2>4, <2>5, <2>6, <2>7 DEF Works, Led
    <2>9. ASSUME ~overlapped' PROVE Kept'
        <3>1. /\ ~overlapped /\ Kept /\ cur = o /\ cur # Nobody
              /\ \A v \in Tasks : tasks[v].pc \in Working => v = t
            BY <1>1, <2>9, AtWork DEF ChanInv, SessionInv
        <3>2. Unforgotten \subseteq objs[o].tokens /\ Unforgotten' = Unforgotten
            BY <1>2, <3>1 DEF Kept, KeptInMemory, Unforgotten
        <3> HIDE DEF o, m
        <3>3. stored'.exists /\ stored'.tokens = objs[o].tokens \cup {m}
            BY <2>2 DEF Saved
        <3>4. KeptInFile'
            BY <3>2, <3>3 DEF KeptInFile
        <3>5. KeptInMemory'
            BY <2>4, <2>6, <3>1, <3>2 DEF KeptInMemory
        <3>6. ASSUME NEW v \in Tasks PROVE KeptBefore(tasks[v])'
            <4>1. CASE v = t
                <5>1. tasks'[v] = r /\ r.obj = o /\ Next1(r.todo) = m
                    BY <2>5, <2>6, <4>1 DEF m
                <5>2. m \in objs'[o].tokens /\ m \in stored'.tokens
                    BY <2>4, <2>6, <3>3
                <5> QED
                    BY <3>3, <5>1, <5>2 DEF KeptBefore
            <4>2. CASE v # t
                <5>1. tasks'[v].pc # "forward"
                    BY <2>6, <3>1, <4>2 DEF Working
                <5> QED
                    BY <5>1 DEF KeptBefore
            <4> QED
                BY <4>1, <4>2
        <3> QED
            BY <3>4, <3>5, <3>6 DEF Kept
    <2> QED
        BY <1>1, <2>8, <2>9, WorkStep
<1> QED
    BY <1>3, <1>4

LEMMA ExpireSession ==
    ASSUME ChanInv, NEW t \in Tasks, Expire(t) PROVE SessionInv'
<1> DEFINE o == tasks[t].obj
           quit == IF tasks[t].kind = "restored" THEN Reporters(o) ELSE {}
           s == [objs[o] EXCEPT !.creds = FALSE, !.tokens = {}]
           r == [NoTask EXCEPT !.obj = o, !.kind = tasks[t].kind, !.pc = "start_login"]
<1>1. /\ tasks[t].pc = "poll" /\ tasks[t].pc \in Working
      /\ stored' = NoSession /\ forgotten' = forgotten \cup accepted /\ accepted' = accepted
      /\ UNCHANGED <<cur, up, overlapped>> /\ SameRequest
    BY DEF Expire, SessionExpired, Working, SameRequest
<1>2. /\ objs' = [objs EXCEPT ![o].creds = FALSE, ![o].tokens = {}]
      /\ tasks' = [u \in Tasks |-> IF u \in quit THEN NoTask ELSE IF u = t THEN r ELSE tasks[u]]
    BY DEF Expire, SessionExpired
<1>3. /\ tasks[t] \in TaskState /\ objs[o] \in InstanceState /\ o \in Objects
      /\ tasks[t].kind # "reporter" /\ objs \in [Objects -> InstanceState]
      /\ ~overlapped => objs[o].status \in {"pending_login", "online"}
    BY <1>1, Worker DEF ChanInv, StateTyped
<1>4. objs' = [objs EXCEPT ![o] = s]
    BY <1>2, <1>3
<1>5. s.task = objs[o].task /\ s.status = objs[o].status /\ ~s.creds
    BY <1>3 DEF InstanceState
<1>6. r.pc = "start_login" /\ r.obj = o /\ r.kind = tasks[t].kind
    BY DEF NoTask
<1>7. \A v \in quit : v \in Tasks /\ v # t /\ tasks[v].pc = "report_restored"
    <2>1. ASSUME NEW v \in quit PROVE v \in Tasks /\ v # t /\ tasks[v].pc = "report_restored"
        <3>1. v \in Tasks /\ tasks[v].pc # "idle" /\ tasks[v].kind = "reporter"
            BY <2>1 DEF Reporters, Live
        <3>2. Placed(v, tasks[v])
            BY <3>1 DEF ChanInv, SessionInv
        <3> QED
            BY <1>3, <3>1, <3>2 DEF Placed
    <2> QED
        BY <2>1
<1> HIDE DEF r, s, quit, o
<1>8. /\ tasks'[t] = r
      /\ \A v \in Tasks : v # t => \/ tasks'[v] = tasks[v]
                                   \/ tasks'[v].pc = "idle" /\ tasks[v].pc = "report_restored"
    BY <1>2, <1>7, NoTaskTyped
<1>9. ASSUME ~overlapped' PROVE Kept'
    <2>1. /\ cur = o /\ cur # Nobody
          /\ \A v \in Tasks : tasks[v].pc \in Working => v = t
        BY <1>1, <1>9, AtWork DEF ChanInv, SessionInv, o
    <2>2. Unforgotten' = {} /\ ~stored'.exists
        BY <1>1 DEF Unforgotten, NoSession
    <2>3. ~objs'[cur].creds
        BY <1>3, <1>4, <1>5, <2>1
    <2>4. KeptInFile' /\ KeptInMemory'
        BY <1>1, <2>2, <2>3 DEF KeptInFile, KeptInMemory
    <2>5. ASSUME NEW v \in Tasks PROVE KeptBefore(tasks[v])'
        <3>1. tasks'[v].pc # "forward"
            BY <1>6, <1>8, <2>1 DEF Working
        <3> QED
            BY <3>1 DEF KeptBefore
    <2> QED
        BY <2>4, <2>5 DEF Kept
<1>10. Fits(r.pc, s) /\ r.pc \in Working
    BY <1>5, <1>6 DEF Fits, Working
<1>11. /\ objs' = [objs EXCEPT ![tasks[t].obj] = s] /\ s.task = objs[tasks[t].obj].task
       /\ r.obj = tasks[t].obj
    BY <1>4, <1>5, <1>6 DEF o
<1>12. Works(t, s, r)
    BY <1>3, <1>5, <1>6, <1>8, <1>10, <1>11 DEF Works, Led
<1> QED
    BY <1>1, <1>9, <1>12, WorkStep

LEMMA RotateBrokenSession ==
    ASSUME ChanInv, NEW t \in Tasks, RotateBroken(t), UNCHANGED <<gatewayVars, crashes>>
    PROVE  SessionInv'
<1> DEFINE o == tasks[t].obj
           st == IF EndsOffline(t) THEN "offline" ELSE objs[o].status
           s == [objs[o] EXCEPT !.lost = TRUE, !.status = st]
<1>1. /\ tasks[t].pc = "start_login" /\ tasks[t].pc \in Working
      /\ tasks' = [tasks EXCEPT ![t] = NoTask]
      /\ UNCHANGED <<cur, up, overlapped, stored, accepted, forgotten>> /\ SameRequest
    BY DEF RotateBroken, gatewayVars, Working, SameRequest
<1>2. /\ objs[o] \in InstanceState /\ o \in Objects
      /\ objs \in [Objects -> InstanceState] /\ tasks \in [Tasks -> TaskState]
      /\ cur \in Objects \cup {Nobody}
    BY <1>1, Worker DEF ChanInv, StateTyped, ReadInv, Typed
<1>3. objs' = [objs EXCEPT ![o] = s]
    <2>1. objs' = [objs EXCEPT ![o].lost = TRUE, ![o].status = IF EndsOffline(t) THEN "offline" ELSE @]
        BY DEF RotateBroken
    <2> QED
        BY <1>2, <2>1
<1>4. s.task = objs[o].task /\ s.lost /\ s.tokens = objs[o].tokens /\ s.creds = objs[o].creds
    BY <1>2 DEF InstanceState
<1>5. NoTask.pc = "idle" /\ "idle" \notin Led /\ "idle" \notin Working
    BY NoTaskTyped DEF Led, Working
<1> HIDE DEF s, st
<1>6. tasks'[t] = NoTask /\ \A v \in Tasks : v # t => tasks'[v] = tasks[v]
    BY <1>1, <1>2
<1>7. Works(t, s, NoTask)
    BY <1>3, <1>4, <1>5, <1>6 DEF Works
<1>8. \A p \in Objects : objs'[p].tokens = objs[p].tokens /\ objs'[p].creds = objs[p].creds
    BY <1>2, <1>3, <1>4
<1>9. ASSUME NEW v \in Tasks, tasks'[v].pc = "forward"
      PROVE  tasks'[v] = tasks[v] /\ tasks[v].obj \in Objects
    <2>1. v # t /\ tasks'[v] = tasks[v]
        BY <1>5, <1>6, <1>9
    <2> QED
        BY <1>9, <2>1, Worker DEF Working
<1>10. ~overlapped' => Kept'
    BY <1>1, <1>2, <1>8, <1>9, KeptSame DEF ChanInv, SessionInv
<1> QED
    BY <1>1, <1>7, <1>10, WorkStep

LEMMA RotateSession ==
    ASSUME ChanInv, NEW t \in Tasks, Rotate(t), UNCHANGED <<gatewayVars, crashes>>
    PROVE  SessionInv'
<1> DEFINE o == tasks[t].obj
           r == [tasks[t] EXCEPT !.pc = "report_pending"]
           q == [NoTask EXCEPT !.obj = o, !.pc = "wait_login"]
<1>1. /\ tasks[t].pc = "start_login" /\ tasks[t].pc \in Working
      /\ UNCHANGED <<cur, up, overlapped, stored, accepted, forgotten>> /\ SameRequest
    BY DEF Rotate, gatewayVars, Working, SameRequest
<1>2. PICK u \in Idle :
          /\ objs' = [objs EXCEPT ![o].status = "pending_login", ![o].task = u]
          /\ tasks' = [tasks EXCEPT ![t].pc = "report_pending", ![u] = q]
    BY DEF Rotate
<1> DEFINE s == [objs[o] EXCEPT !.status = "pending_login", !.task = u]
<1>3. /\ objs[o] \in InstanceState /\ o \in Objects /\ objs[o].task = t /\ ~objs[o].creds
      /\ tasks[t] \in TaskState /\ tasks[t].kind # "reporter"
      /\ objs \in [Objects -> InstanceState] /\ tasks \in [Tasks -> TaskState]
      /\ cur \in Objects \cup {Nobody}
      /\ u \in Tasks /\ tasks[u].pc = "idle" /\ u # t
    BY <1>1, Worker DEF ChanInv, StateTyped, ReadInv, Typed, Fits, Idle
<1>4. objs' = [objs EXCEPT ![o] = s]
    BY <1>2, <1>3
<1>5. tasks' = [tasks EXCEPT ![t] = r, ![u] = q]
    BY <1>2, <1>3
<1>6. /\ s.task = u /\ s.status = "pending_login" /\ s.creds = objs[o].creds
      /\ s.tokens = objs[o].tokens
    BY <1>3 DEF InstanceState
<1>7. /\ r.pc = "report_pending" /\ r.obj = o /\ r.kind = tasks[t].kind
      /\ q.pc = "wait_login" /\ q.obj = o /\ q.kind = "fresh"
    BY <1>3 DEF TaskState, NoTask
<1> HIDE DEF r, q, s
<1>8. /\ tasks'[t] = r /\ tasks'[u] = q
      /\ \A v \in Tasks : v \notin {t, u} => tasks'[v] = tasks[v]
      /\ objs'[o] = s /\ \A p \in Objects : p # o => objs'[p] = objs[p]
    BY <1>3, <1>4, <1>5
<1>9. ~overlapped => cur = o
    BY <1>1, AtWork DEF ChanInv
<1> HIDE DEF o
<1>10. ASSUME NEW v \in Tasks PROVE Placed(v, tasks[v])'
    <2>1. CASE v = t
        <3>1. /\ tasks'[v].pc = "report_pending" /\ tasks'[v].kind # "reporter"
              /\ tasks'[v].obj \in Objects /\ objs'[tasks'[v].obj] = s
            BY <1>3, <1>7, <1>8, <2>1
        <3>2. s.task # v
            BY <1>3, <1>6, <2>1
        <3> QED
            BY <3>1, <3>2 DEF Placed, Fits, Led, Working
    <2>2. CASE v = u
        <3>1. /\ tasks'[v].pc = "wait_login" /\ tasks'[v].kind # "reporter"
              /\ tasks'[v].obj \in Objects /\ objs'[tasks'[v].obj] = s
              /\ ~overlapped' => tasks'[v].obj = cur'
            BY <1>1, <1>3, <1>7, <1>8, <1>9, <2>2
        <3>2. s.task = v /\ s.status = "pending_login" /\ ~s.creds
            BY <1>3, <1>6, <2>2
        <3> QED
            BY <3>1, <3>2 DEF Placed, Fits, Led, Working
    <2>3. CASE v \notin {t, u}
        <3> SUFFICES ASSUME tasks[v].pc # "idle" PROVE Placed(v, tasks[v])'
            BY <1>8, <2>3 DEF Placed
        <3>1. Placed(v, tasks[v]) /\ tasks'[v] = tasks[v]
            BY <1>8, <2>3 DEF ChanInv, SessionInv
        <3>2. CASE tasks[v].obj # o
            BY <1>1, <1>8, <3>1, <3>2 DEF Placed, Fits
        <3>3. CASE tasks[v].obj = o
            <4>1. tasks[v].pc \notin Led
                BY <1>3, <2>3, <3>1, <3>3 DEF Placed
            <4>2. tasks[v].pc # "report_error" /\ tasks[v].pc \notin Working /\ u # v
                BY <2>3, <4>1 DEF Led
            <4> QED
                BY <1>6, <1>8, <3>1, <3>3, <4>1, <4>2 DEF Placed, Fits, Working
        <3> QED
            BY <3>2, <3>3
    <2> QED
        BY <2>1, <2>2, <2>3
<1>11. ASSUME NEW p \in Objects PROVE Attended(p)'
    <2>1. CASE p = o
        BY <1>3, <1>7, <1>8, <2>1 DEF Attended, Working
    <2>2. CASE p # o
        <3> SUFFICES ASSUME objs[p].status \in {"pending_login", "online"}, ~objs[p].lost
                     PROVE  \E v \in Tasks : tasks'[v].obj = p /\ tasks'[v].pc \in Working
            BY <1>8, <2>2 DEF Attended
        <3>1. PICK v \in Tasks : tasks[v].obj = p /\ tasks[v].pc \in Working
            BY DEF ChanInv, SessionInv, Attended
        <3>2. v \notin {t, u}
            BY <1>3, <2>2, <3>1 DEF Working, o
        <3> QED
            BY <1>8, <3>1, <3>2
    <2> QED
        BY <2>1, <2>2
<1>12. Asked'
    <2>1. ~overlapped => Running
        BY <1>1, AtWork DEF ChanInv
    <2> QED
        BY <1>1, <2>1 DEF Asked, AllStopped, SameRequest, ChanInv, SessionInv
<1>13. ~overlapped' => Kept'
    <2>1. \A p \in Objects : objs'[p].tokens = objs[p].tokens /\ objs'[p].creds = objs[p].creds
        BY <1>6, <1>8
    <2>2. ASSUME NEW v \in Tasks, tasks'[v].pc = "forward"
          PROVE  tasks'[v] = tasks[v] /\ tasks[v].obj \in Objects
        <3>1. v \notin {t, u} /\ tasks'[v] = tasks[v]
            BY <1>7, <1>8, <2>2
        <3> QED
            BY <2>2, <3>1, Worker DEF Working
    <2> QED
        BY <1>1, <1>3, <2>1, <2>2, KeptSame DEF ChanInv, SessionInv
<1> QED
    BY <1>1, <1>10, <1>11, <1>12, <1>13 DEF SessionInv, ChanInv

-----------------------------------------------------------------------------
(* The steps of a task that reports.                                       *)

LEMMA FinallySession ==
    ASSUME ChanInv, NEW t \in Tasks, tasks[t].pc \in Reporting, tasks[t].pc # "announce", Finally(t),
           UNCHANGED <<up, cur, stored, accepted, forgotten>>, SameRequest
    PROVE  SessionInv'
<1> DEFINE o == tasks[t].obj
           s == [objs[o] EXCEPT !.status = "offline"]
<1>1. /\ tasks \in [Tasks -> TaskState] /\ objs \in [Objects -> InstanceState]
      /\ cur \in Objects \cup {Nobody} /\ overlapped \in BOOLEAN
    BY DEF ChanInv, ReadInv, Typed, StateTyped
<1>2. Placed(t, tasks[t]) /\ tasks[t].pc # "idle" /\ tasks[t].pc \notin Working
    BY DEF ChanInv, SessionInv, Reporting, Working
<1>3. o \in Objects
    BY <1>2 DEF Placed
<1>4. objs[o] \in InstanceState
    BY <1>1, <1>3
<1>5. tasks'[t] = NoTask /\ \A v \in Tasks : v # t => tasks'[v] = tasks[v]
    BY <1>1 DEF Finally
<1>6. /\ s.status = "offline" /\ s.creds = objs[o].creds /\ s.tokens = objs[o].tokens
      /\ s.task = objs[o].task /\ s.lost = objs[o].lost
    BY <1>4 DEF InstanceState
<1>7. /\ \A p \in Objects : p # o => objs'[p] = objs[p]
      /\ \/ objs'[o] = objs[o] /\ overlapped' = overlapped
         \/ /\ objs'[o] = s /\ objs[o].status \notin {"error", "pending_login"}
            /\ overlapped' = (overlapped \/ (objs[o].status = "online" /\ objs[o].task # t))
    BY <1>1, <1>3 DEF Finally, EndsOffline
<1> HIDE DEF s
<1>8. ASSUME NEW v \in Tasks PROVE Placed(v, tasks[v])'
    <2>1. CASE v = t
        BY <1>5, <2>1, NoTaskTyped DEF Placed
    <2>2. CASE v # t
        <3>1. Placed(v, tasks[v]) /\ tasks'[v] = tasks[v]
            BY <1>5, <2>2 DEF ChanInv, SessionInv
        <3>2. CASE tasks[v].pc = "idle"
            BY <3>1, <3>2 DEF Placed
        <3>3. CASE tasks[v].pc # "idle" /\ objs'[tasks[v].obj] = objs[tasks[v].obj]
            <4>1. overlapped => overlapped'
                BY <1>7
            <4> QED
                BY <3>1, <3>3, <4>1 DEF Placed, Fits
        <3>4. CASE tasks[v].pc # "idle" /\ tasks[v].obj = o /\ objs'[o] = s
                   /\ objs[o].status \notin {"error", "pending_login"}
                   /\ overlapped' = (overlapped \/ (objs[o].status = "online" /\ objs[o].task # t))
            <4>1. tasks[v].pc # "wait_login" /\ tasks[v].pc # "report_error"
                BY <3>1, <3>4 DEF Placed, Fits
            <4>2. Fits(tasks[v].pc, s)
                BY <1>6, <3>1, <3>4, <4>1 DEF Placed, Fits
            <4>3. tasks[v].pc \in Working => overlapped'
                BY <2>2, <3>1, <3>4 DEF Placed, Led
            <4> QED
                BY <1>6, <3>1, <3>4, <4>2, <4>3 DEF Placed, Fits
        <3>5. tasks[v].pc # "idle" => tasks[v].obj \in Objects
            BY <3>1 DEF Placed
        <3> QED
            BY <1>7, <3>2, <3>3, <3>4, <3>5
    <2> QED
        BY <2>1, <2>2
<1>9. ASSUME NEW p \in Objects PROVE Attended(p)'
    <2> SUFFICES ASSUME objs'[p].status \in {"pending_login", "online"}, ~objs'[p].lost
                 PROVE  \E v \in Tasks : tasks'[v].obj = p /\ tasks'[v].pc \in Working
        BY DEF Attended
    <2>1. objs'[p] = objs[p]
        BY <1>6, <1>7
    <2>2. PICK v \in Tasks : tasks[v].obj = p /\ tasks[v].pc \in Working
        BY <2>1 DEF ChanInv, SessionInv, Attended
    <2>3. v # t
        BY <1>2, <2>2
    <2> QED
        BY <1>5, <2>2, <2>3
<1>10. ~overlapped' => Kept'
    <2>1. \A p \in Objects : objs'[p].tokens = objs[p].tokens /\ objs'[p].creds = objs[p].creds
        BY <1>6, <1>7
    <2>2. ASSUME NEW v \in Tasks, tasks'[v].pc = "forward"
          PROVE  tasks'[v] = tasks[v] /\ tasks[v].obj \in Objects
        <3>1. v # t /\ tasks'[v] = tasks[v]
            BY <1>5, <2>2, NoTaskTyped
        <3> QED
            BY <2>2, <3>1, Worker DEF Working
    <2>3. overlapped => overlapped'
        BY <1>7
    <2> QED
        BY <1>1, <2>1, <2>2, <2>3, KeptSame DEF ChanInv, SessionInv
<1>11. Asked'
    <2>1. (overlapped => overlapped') /\ (Running' => Running)
        BY <1>1, <1>6, <1>7, BridgeAssumption DEF Running
    <2> QED
        BY <2>1 DEF ChanInv, SessionInv, Asked, SameRequest, AllStopped
<1> QED
    BY <1>8, <1>9, <1>10, <1>11 DEF ChanInv, SessionInv

\* The tasks, the objects and the session stay as they are.
LEMMA SameSession ==
    ASSUME ChanInv, UNCHANGED <<up, cur, objs, tasks, stored, overlapped, accepted, forgotten>>
    PROVE  /\ Asked' => SessionInv'
           /\ SameRequest => SessionInv'
<1>1. ASSUME NEW v \in Tasks PROVE Placed(v, tasks[v])'
    BY DEF ChanInv, SessionInv, Placed, Fits
<1>2. ASSUME NEW p \in Objects PROVE Attended(p)'
    BY DEF ChanInv, SessionInv, Attended
<1>3. ~overlapped' => Kept'
    BY DEF ChanInv, SessionInv, Kept, KeptInFile, KeptInMemory, KeptBefore, Unforgotten
<1>4. SameRequest => Asked'
    BY DEF ChanInv, SessionInv, Asked, SameRequest, AllStopped, Running
<1> QED
    BY <1>1, <1>2, <1>3, <1>4 DEF ChanInv, SessionInv

LEMMA AnsweredSession ==
    ASSUME ChanInv, NEW t \in Tasks, Answered(t), UNCHANGED <<accepted, forgotten>>, SameRequest
    PROVE  SessionInv'
<1>1. tasks[t].pc \in Reporting /\ UNCHANGED <<up, cur, stored>>
    BY DEF Answered
<1>2. CASE /\ tasks[t].pc = "announce"
           /\ tasks' = [tasks EXCEPT ![t].pc = "poll", ![t].pos = cursor]
           /\ UNCHANGED <<objs, overlapped>>
    BY <1>1, <1>2, AnnouncedSession
<1>3. CASE tasks[t].pc # "announce" /\ Finally(t)
    BY <1>1, <1>3, FinallySession
<1> QED
    BY <1>2, <1>3 DEF Answered

LEMMA UnansweredSession ==
    ASSUME ChanInv, NEW t \in Tasks, Unanswered(t), UNCHANGED <<gatewayVars, crashes>>
    PROVE  SessionInv'
<1>1. /\ tasks[t].pc \in Reporting /\ UNCHANGED <<up, cur, stored, accepted, forgotten>>
      /\ SameRequest
    BY DEF Unanswered, gatewayVars, SameRequest
<1>2. CASE tasks[t].pc = "announce" /\ Fail(t)
    BY <1>1, <1>2, FailSession DEF Working
<1>3. CASE tasks[t].pc # "announce" /\ Finally(t)
    BY <1>1, <1>3, FinallySession
<1>4. CASE UNCHANGED <<objs, tasks, overlapped>>
    BY <1>1, <1>4, SameSession
<1> QED
    BY <1>2, <1>3, <1>4 DEF Unanswered

-----------------------------------------------------------------------------
(* Starts, stops and crashes.                                              *)

\* When a new object takes the place of one that does not run, the others keep their tasks.
LEMMA OthersStay ==
    ASSUME ChanInv, ~Running, NEW o \in Free, NEW new, objs' = Replaced(o, new),
           cur' = o, overlapped' = overlapped,
           \A v \in Tasks : tasks[v].pc # "idle" => tasks'[v] = tasks[v]
    PROVE  /\ \A v \in Tasks : tasks[v].pc # "idle" => Placed(v, tasks[v])'
           /\ \A p \in Objects : p # o => Attended(p)'
           /\ objs'[o] = new
           /\ ~overlapped => \A v \in Tasks : tasks[v].pc \notin Working
<1>1. o \in Objects /\ Live(o) = {} /\ objs \in [Objects -> InstanceState]
    BY DEF Free, ChanInv, StateTyped
<1>2. \A p \in Objects : objs'[p] = IF p = o THEN new ELSE IF Live(p) = {} THEN NoState ELSE objs[p]
    BY DEF Replaced
<1>3. ~overlapped => \A v \in Tasks : tasks[v].pc \notin Working
    BY AtWork DEF ChanInv
<1>4. ASSUME NEW v \in Tasks, tasks[v].pc # "idle" PROVE Placed(v, tasks[v])'
    <2>1. Placed(v, tasks[v]) /\ tasks'[v] = tasks[v]
        BY <1>4 DEF ChanInv, SessionInv
    <2>2. tasks[v].obj \in Objects
        BY <1>4, <2>1 DEF Placed
    <2>3. v \in Live(tasks[v].obj)
        BY <1>4 DEF Live
    <2>4. objs'[tasks[v].obj] = objs[tasks[v].obj]
        BY <1>1, <1>2, <2>2, <2>3
    <2> QED
        BY <1>3, <1>4, <2>1, <2>4 DEF Placed, Fits
<1>5. ASSUME NEW p \in Objects, p # o PROVE Attended(p)'
    <2>1. CASE Live(p) = {}
        BY <1>2, <1>5, <2>1 DEF Attended, NoState
    <2>2. CASE Live(p) # {}
        <3> SUFFICES ASSUME objs[p].status \in {"pending_login", "online"}, ~objs[p].lost
                     PROVE  \E v \in Tasks : tasks'[v].obj = p /\ tasks'[v].pc \in Working
            BY <1>2, <1>5, <2>2 DEF Attended
        <3>1. PICK v \in Tasks : tasks[v].obj = p /\ tasks[v].pc \in Working
            BY DEF ChanInv, SessionInv, Attended
        <3>2. tasks'[v] = tasks[v]
            BY <3>1 DEF Working
        <3> QED
            BY <3>1, <3>2
    <2> QED
        BY <2>1, <2>2
<1> QED
    BY <1>1, <1>2, <1>3, <1>4, <1>5

LEMMA ResumeSession ==
    ASSUME ChanInv, ~Running, Resume, up', UNCHANGED <<overlapped, accepted, forgotten>>, Asked'
    PROVE  SessionInv'
<1>1. PICK o \in Free, t \in Idle, u \in Idle :
        /\ t # u /\ cur' = o
        /\ objs' = Replaced(o, [status |-> "online", creds |-> TRUE,
                                tokens |-> stored.tokens, task |-> t, lost |-> FALSE])
        /\ stored' = Saved(stored.tokens)
        /\ tasks' = [tasks EXCEPT ![t] = [NoTask EXCEPT !.obj = o, !.kind = "restored",
                                                        !.pc = "poll", !.pos = cursor],
                                  ![u] = [NoTask EXCEPT !.obj = o, !.kind = "reporter",
                                                        !.pc = "report_restored"]]
    BY DEF Resume
<1> DEFINE s == [status |-> "online", creds |-> TRUE,
                 tokens |-> stored.tokens, task |-> t, lost |-> FALSE]
           r == [NoTask EXCEPT !.obj = o, !.kind = "restored", !.pc = "poll", !.pos = cursor]
           q == [NoTask EXCEPT !.obj = o, !.kind = "reporter", !.pc = "report_restored"]
<1>2. /\ tasks \in [Tasks -> TaskState] /\ o \in Objects /\ t \in Tasks /\ u \in Tasks
      /\ tasks[t].pc = "idle" /\ tasks[u].pc = "idle"
    BY DEF ChanInv, ReadInv, Typed, Idle, Free
<1>3. tasks' = [tasks EXCEPT ![t] = r, ![u] = q]
    BY <1>1
<1>4. /\ s.status = "online" /\ s.creds /\ s.tokens = stored.tokens /\ s.task = t
      /\ r.pc = "poll" /\ r.obj = o /\ r.kind = "restored"
      /\ q.pc = "report_restored" /\ q.obj = o /\ q.kind = "reporter"
    BY DEF NoTask
<1>5. objs' = Replaced(o, s)
    BY <1>1
<1> HIDE DEF r, q, s
<1>6. /\ tasks'[t] = r /\ tasks'[u] = q
      /\ \A v \in Tasks : v \notin {t, u} => tasks'[v] = tasks[v]
    BY <1>1, <1>2, <1>3
<1>7. \A v \in Tasks : tasks[v].pc # "idle" => tasks'[v] = tasks[v]
    BY <1>2, <1>6
<1>8. /\ \A v \in Tasks : tasks[v].pc # "idle" => Placed(v, tasks[v])'
      /\ \A p \in Objects : p # o => Attended(p)'
      /\ objs'[o] = s
      /\ ~overlapped => \A v \in Tasks : tasks[v].pc \notin Working
    BY <1>1, <1>5, <1>7, OthersStay
<1>9. ASSUME NEW v \in Tasks PROVE Placed(v, tasks[v])'
    <2>1. CASE v = t
        <3>1. /\ tasks'[v].pc = "poll" /\ tasks'[v].kind # "reporter"
              /\ tasks'[v].obj \in Objects /\ objs'[tasks'[v].obj] = s /\ tasks'[v].obj = cur'
            BY <1>1, <1>2, <1>4, <1>6, <1>8, <2>1
        <3>2. s.task = v /\ s.status = "online" /\ s.creds
            BY <1>4, <2>1
        <3> QED
            BY <3>1, <3>2 DEF Placed, Fits, Led, Working
    <2>2. CASE v = u
        <3>1. /\ tasks'[v].pc = "report_restored" /\ tasks'[v].kind = "reporter"
              /\ tasks'[v].obj \in Objects
            BY <1>2, <1>4, <1>6, <2>2
        <3> QED
            BY <3>1 DEF Placed, Fits, Led, Working
    <2>3. CASE v \notin {t, u} /\ tasks[v].pc = "idle"
        BY <1>6, <2>3 DEF Placed
    <2>4. CASE tasks[v].pc # "idle"
        BY <1>8, <2>4
    <2> QED
        BY <2>1, <2>2, <2>3, <2>4
<1>10. ASSUME NEW p \in Objects PROVE Attended(p)'
    <2>1. tasks'[t].obj = o /\ tasks'[t].pc \in Working
        BY <1>4, <1>6 DEF Working
    <2> QED
        BY <1>2, <1>8, <2>1 DEF Attended
<1>11. ASSUME ~overlapped' PROVE Kept'
    <2>1. Kept /\ \A v \in Tasks : tasks[v].pc \notin Working
        BY <1>8, <1>11 DEF ChanInv, SessionInv
    <2>2. Unforgotten' = Unforgotten /\ Unforgotten \subseteq stored.tokens
        BY <2>1 DEF Unforgotten, Kept, KeptInFile
    <2>3. stored'.exists /\ stored'.tokens = stored.tokens
        BY <1>1 DEF Saved
    <2>4. KeptInFile'
        BY <2>2, <2>3 DEF KeptInFile
    <2>5. KeptInMemory'
        BY <1>1, <1>4, <1>8, <2>2 DEF KeptInMemory
    <2>6. ASSUME NEW v \in Tasks PROVE KeptBefore(tasks[v])'
        <3>1. tasks'[v].pc # "forward"
            BY <1>4, <1>6, <2>1 DEF Working
        <3> QED
            BY <3>1 DEF KeptBefore
    <2> QED
        BY <2>4, <2>5, <2>6 DEF Kept
<1> QED
    BY <1>9, <1>10, <1>11 DEF SessionInv

LEMMA BeginLoginSession ==
    ASSUME ChanInv, ~Running, BeginLogin, ~stored.exists, up',
           UNCHANGED <<overlapped, accepted, forgotten>>, Asked'
    PROVE  SessionInv'
<1>1. PICK o \in Free, t \in Idle :
        /\ cur' = o /\ stored' = stored
        /\ objs' = Replaced(o, [NoState EXCEPT !.status = "pending_login", !.task = t])
        /\ tasks' = [tasks EXCEPT ![t] = [NoTask EXCEPT !.obj = o, !.pc = "wait_login"]]
    BY DEF BeginLogin
<1> DEFINE s == [NoState EXCEPT !.status = "pending_login", !.task = t]
           r == [NoTask EXCEPT !.obj = o, !.pc = "wait_login"]
<1>2. /\ tasks \in [Tasks -> TaskState] /\ o \in Objects /\ t \in Tasks
      /\ tasks[t].pc = "idle"
    BY DEF ChanInv, ReadInv, Typed, Idle, Free
<1>3. objs' = Replaced(o, s) /\ tasks' = [tasks EXCEPT ![t] = r]
    BY <1>1
<1>4. /\ s.status = "pending_login" /\ ~s.creds /\ s.task = t
      /\ r.pc = "wait_login" /\ r.obj = o /\ r.kind = "fresh"
    BY DEF NoTask, NoState
<1> HIDE DEF r, s
<1>5. tasks'[t] = r /\ \A v \in Tasks : v # t => tasks'[v] = tasks[v]
    BY <1>2, <1>3
<1>6. \A v \in Tasks : tasks[v].pc # "idle" => tasks'[v] = tasks[v]
    BY <1>2, <1>5
<1>7. /\ \A v \in Tasks : tasks[v].pc # "idle" => Placed(v, tasks[v])'
      /\ \A p \in Objects : p # o => Attended(p)'
      /\ objs'[o] = s
      /\ ~overlapped => \A v \in Tasks : tasks[v].pc \notin Working
    BY <1>1, <1>3, <1>6, OthersStay
<1>8. ASSUME NEW v \in Tasks PROVE Placed(v, tasks[v])'
    <2>1. CASE v = t
        <3>1. /\ tasks'[v].pc = "wait_login" /\ tasks'[v].kind # "reporter"
              /\ tasks'[v].obj \in Objects /\ objs'[tasks'[v].obj] = s /\ tasks'[v].obj = cur'
            BY <1>1, <1>2, <1>4, <1>5, <1>7, <2>1
        <3>2. s.task = v /\ s.status = "pending_login" /\ ~s.creds
            BY <1>4, <2>1
        <3> QED
            BY <3>1, <3>2 DEF Placed, Fits, Led, Working
    <2>2. CASE v # t /\ tasks[v].pc = "idle"
        BY <1>5, <2>2 DEF Placed
    <2>3. CASE tasks[v].pc # "idle"
        BY <1>7, <2>3
    <2> QED
        BY <2>1, <2>2, <2>3
<1>9. ASSUME NEW p \in Objects PROVE Attended(p)'
    <2>1. tasks'[t].obj = o /\ tasks'[t].pc \in Working
        BY <1>4, <1>5 DEF Working
    <2> QED
        BY <1>2, <1>7, <2>1 DEF Attended
<1>10. ASSUME ~overlapped' PROVE Kept'
    <2>1. Kept /\ \A v \in Tasks : tasks[v].pc \notin Working
        BY <1>7, <1>10 DEF ChanInv, SessionInv
    <2>2. Unforgotten' = {}
        BY <2>1 DEF Unforgotten, Kept, KeptInFile
    <2>3. KeptInFile' /\ KeptInMemory'
        BY <1>1, <2>2 DEF KeptInFile, KeptInMemory
    <2>4. ASSUME NEW v \in Tasks PROVE KeptBefore(tasks[v])'
        <3>1. tasks'[v].pc # "forward"
            BY <1>4, <1>5, <2>1 DEF Working
        <3> QED
            BY <3>1 DEF KeptBefore
    <2> QED
        BY <2>3, <2>4 DEF Kept
<1> QED
    BY <1>8, <1>9, <1>10 DEF SessionInv

LEMMA StartSession ==
    ASSUME ChanInv, Start, UNCHANGED <<accepted, forgotten>>, api'.op = "start", api'.pc # "idle",
           row'.desired
    PROVE  SessionInv'
<1>1. Asked' /\ up' /\ UNCHANGED <<up, overlapped>>
    BY DEF Start, Asked
<1>2. CASE UNCHANGED <<cur, objs, tasks, stored, calls>>
    BY <1>1, <1>2, SameSession
<1>3. CASE ~Running /\ stored.exists /\ Resume
    BY <1>1, <1>3, ResumeSession
<1>4. CASE ~Running /\ ~stored.exists /\ BeginLogin
    BY <1>1, <1>4, BeginLoginSession
<1> QED
    BY <1>2, <1>3, <1>4 DEF Start

LEMMA BootSession ==
    ASSUME ChanInv, Boot, UNCHANGED <<accepted, forgotten>>, SameRequest PROVE SessionInv'
<1>1. ~up /\ up' /\ cur = Nobody /\ ~Running /\ overlapped' = overlapped
    BY DEF Boot, ChanInv, SessionInv, Running
<1>2. CASE stored.exists /\ stored.desired /\ Resume
    <2>1. ~AllStopped
        BY <1>2 DEF AllStopped
    <2>2. Asked'
        BY <1>1, <2>1 DEF Asked, SameRequest, ChanInv, SessionInv
    <2> QED
        BY <1>1, <1>2, <2>2, ResumeSession
<1>3. CASE UNCHANGED <<cur, objs, tasks, stored, calls>>
    <2>1. ASSUME NEW v \in Tasks PROVE Placed(v, tasks[v])'
        BY <1>1, <1>3 DEF ChanInv, SessionInv, Placed, Fits
    <2>2. ASSUME NEW p \in Objects PROVE Attended(p)'
        BY <1>3 DEF ChanInv, SessionInv, Attended
    <2>3. ~overlapped' => Kept'
        BY <1>1, <1>3 DEF ChanInv, SessionInv, Kept, KeptInFile, KeptInMemory, KeptBefore, Unforgotten
    <2>4. Asked'
        BY <1>1, <1>3 DEF ChanInv, SessionInv, Asked, SameRequest, AllStopped, Running
    <2> QED
        BY <1>1, <2>1, <2>2, <2>3, <2>4 DEF SessionInv
<1> QED
    BY <1>2, <1>3 DEF Boot

LEMMA CrashSession ==
    ASSUME ChanInv, Crash, UNCHANGED <<accepted, forgotten>>, SameRequest PROVE SessionInv'
<1>1. /\ \A v \in Tasks : tasks'[v].pc = "idle"
      /\ \A p \in Objects : objs'[p].status = "offline"
      /\ cur' = Nobody /\ UNCHANGED <<stored, overlapped>>
    BY NoTaskTyped DEF Crash, NoState
<1>2. \A v \in Tasks : Placed(v, tasks[v])'
    BY <1>1 DEF Placed
<1>3. \A p \in Objects : Attended(p)'
    BY <1>1 DEF Attended
<1>4. ~overlapped' => Kept'
    BY <1>1 DEF ChanInv, SessionInv, Kept, KeptInFile, KeptInMemory, KeptBefore, Unforgotten
<1>5. Asked'
    BY <1>1 DEF ChanInv, SessionInv, Asked, SameRequest, AllStopped, Running
<1> QED
    BY <1>1, <1>2, <1>3, <1>4, <1>5 DEF SessionInv

LEMMA StopSession ==
    ASSUME ChanInv, Stop, UNCHANGED <<accepted, forgotten>>, api'.op = "stop"
    PROVE  SessionInv'
<1> DEFINE quit == IF cur = Nobody THEN {}
                   ELSE Reporters(cur) \cup (Live(cur) \cap {objs[cur].task})
           s == [objs[cur] EXCEPT !.status = "offline", !.task = Nobody]
<1>1. /\ up /\ up' = up /\ cur' = cur /\ overlapped' = overlapped
      /\ tasks' = [t \in Tasks |-> IF t \in quit THEN NoTask ELSE tasks[t]]
    BY DEF Stop
<1>2. /\ objs \in [Objects -> InstanceState] /\ cur \in Objects \cup {Nobody} /\ stored \in Stored
    BY DEF ChanInv, ReadInv, Typed, StateTyped
<1> HIDE DEF quit
<1>3. \A v \in Tasks : tasks'[v] = tasks[v] \/ (v \in quit /\ tasks'[v].pc = "idle")
    BY <1>1, NoTaskTyped
<1>4. CASE cur = Nobody
    <2>1. quit = {} /\ objs' = objs
        BY <1>4 DEF Stop, quit
    <2>2. stored' = [stored EXCEPT !.desired = FALSE]
        BY <1>4 DEF Stop
    <2>3. stored'.tokens = stored.tokens /\ stored'.exists = stored.exists /\ ~stored'.desired
        BY <1>2, <2>2 DEF Stored
    <2>4. \A v \in Tasks : tasks'[v] = tasks[v]
        BY <1>3, <2>1
    <2>5. \A v \in Tasks : Placed(v, tasks[v])'
        BY <1>1, <2>1, <2>4 DEF ChanInv, SessionInv, Placed, Fits
    <2>6. \A p \in Objects : Attended(p)'
        BY <2>1, <2>4 DEF ChanInv, SessionInv, Attended
    <2>7. ~overlapped' => Kept'
        BY <1>1, <1>4, <2>1, <2>3, <2>4
           DEF ChanInv, SessionInv, Kept, KeptInFile, KeptInMemory, KeptBefore, Unforgotten
    <2>8. Asked'
        BY <1>1, <1>4, <2>3 DEF Asked, AllStopped, Running
    <2> QED
        BY <1>1, <2>5, <2>6, <2>7, <2>8 DEF SessionInv
<1>5. CASE cur # Nobody
    <2>1. /\ cur \in Objects /\ objs[cur] \in InstanceState
          /\ objs' = [objs EXCEPT ![cur].status = "offline", ![cur].task = Nobody]
        BY <1>2, <1>5 DEF Stop
    <2>2. objs' = [objs EXCEPT ![cur] = s]
        BY <1>2, <2>1
    <2>3. /\ s.status = "offline" /\ s.task = Nobody
          /\ s.creds = objs[cur].creds /\ s.tokens = objs[cur].tokens
        BY <2>1 DEF InstanceState
    <2>4. stored' = IF objs[cur].creds THEN [Saved(objs[cur].tokens) EXCEPT !.desired = FALSE]
                    ELSE stored
        BY <1>5 DEF Stop
    <2>5. /\ objs[cur].creds => stored'.exists /\ ~stored'.desired
                                /\ stored'.tokens = objs[cur].tokens
          /\ ~objs[cur].creds => stored' = stored
        <3>1. ASSUME objs[cur].creds
              PROVE  stored'.exists /\ ~stored'.desired /\ stored'.tokens = objs[cur].tokens
            <4>1. stored' = [Saved(objs[cur].tokens) EXCEPT !.desired = FALSE]
                BY <2>4, <3>1
            <4> QED
                BY <4>1 DEF Saved
        <3> QED
            BY <2>4, <3>1
    <2> HIDE DEF s
    <2>6. objs'[cur] = s /\ \A p \in Objects : p # cur => objs'[p] = objs[p]
        BY <1>2, <2>1, <2>2
    <2>7. \A v \in quit : tasks[v].obj = cur
        BY <1>5 DEF quit, Reporters, Live
    <2>8. ASSUME NEW v \in Tasks, tasks'[v].pc # "idle", tasks[v].obj = cur
          PROVE  tasks[v].pc \notin Led
        <3>1. v \notin quit /\ tasks'[v] = tasks[v]
            BY <1>1, <1>3, <2>8, NoTaskTyped
        <3>2. v \in Live(cur) /\ objs[cur].task # v
            BY <1>5, <2>8, <3>1 DEF quit, Live
        <3> QED
            BY <2>8, <3>1, <3>2 DEF ChanInv, SessionInv, Placed
    <2>9. ASSUME NEW v \in Tasks PROVE Placed(v, tasks[v])'
        <3> SUFFICES ASSUME tasks'[v].pc # "idle" PROVE Placed(v, tasks[v])'
            BY DEF Placed
        <3>1. tasks'[v] = tasks[v] /\ Placed(v, tasks[v])
            BY <1>3 DEF ChanInv, SessionInv
        <3>2. CASE tasks[v].obj # cur
            BY <1>1, <2>6, <3>1, <3>2 DEF Placed, Fits
        <3>3. CASE tasks[v].obj = cur
            <4>1. tasks[v].pc \notin Led /\ v # Nobody
                BY <2>8, <3>3, BridgeAssumption
            <4>2. tasks[v].pc # "report_error" /\ tasks[v].pc \notin Working
                BY <4>1 DEF Led
            <4> QED
                BY <1>1, <2>3, <2>6, <3>1, <3>3, <4>1, <4>2 DEF Placed, Fits, Working
        <3> QED
            BY <3>2, <3>3
    <2>10. ASSUME NEW p \in Objects PROVE Attended(p)'
        <3>1. CASE p = cur
            BY <2>3, <2>6, <3>1 DEF Attended
        <3>2. CASE p # cur
            <4> SUFFICES ASSUME objs[p].status \in {"pending_login", "online"}, ~objs[p].lost
                         PROVE  \E v \in Tasks : tasks'[v].obj = p /\ tasks'[v].pc \in Working
                BY <2>6, <3>2 DEF Attended
            <4>1. PICK v \in Tasks : tasks[v].obj = p /\ tasks[v].pc \in Working
                BY DEF ChanInv, SessionInv, Attended
            <4>2. tasks'[v] = tasks[v]
                BY <1>3, <2>7, <3>2, <4>1
            <4> QED
                BY <4>1, <4>2
        <3> QED
            BY <3>1, <3>2
    <2>11. ASSUME ~overlapped' PROVE Kept'
        <3>1. Kept /\ Unforgotten' = Unforgotten
            BY <1>1, <2>11 DEF ChanInv, SessionInv, Unforgotten
        <3>2. KeptInFile' /\ KeptInMemory'
            BY <1>1, <1>5, <2>3, <2>5, <2>6, <3>1 DEF Kept, KeptInFile, KeptInMemory
        <3>3. ASSUME NEW v \in Tasks PROVE KeptBefore(tasks[v])'
            <4> SUFFICES ASSUME tasks'[v].pc = "forward" PROVE FALSE
                BY DEF KeptBefore
            <4>1. tasks'[v] = tasks[v] /\ tasks[v].pc \in Working
                BY <1>3 DEF Working
            <4>2. tasks[v].obj = cur
                BY <1>1, <2>11, <4>1, AtWork DEF ChanInv
            <4> QED
                BY <2>8, <4>1, <4>2 DEF Led, Working
        <3> QED
            BY <3>2, <3>3 DEF Kept
    <2>12. Asked'
        <3>1. ~Running'
            BY <1>1, <2>3, <2>6 DEF Running
        <3>2. ~overlapped => ~(stored'.exists /\ stored'.desired)
            BY <1>5, <2>5 DEF ChanInv, SessionInv, Kept, KeptInMemory
        <3> QED
            BY <1>1, <3>1, <3>2 DEF Asked, AllStopped
    <2> QED
        BY <1>1, <2>9, <2>10, <2>11, <2>12 DEF SessionInv
<1> QED
    BY <1>4, <1>5

-----------------------------------------------------------------------------
(* The gateway's steps, and all of them.                                   *)

LEMMA RequestSession ==
    ASSUME ChanInv, ApiStart \/ ApiStop \/ ApiCommit \/ ApiFailed \/ Reconcile PROVE SessionInv'
<1>1. UNCHANGED <<up, cur, objs, tasks, stored, overlapped, accepted, forgotten>>
    BY DEF ApiStart, ApiStop, ApiCommit, ApiFailed, Reconcile, vars
<1>2. api \in Request /\ row \in InstanceRow /\ Asked
    BY DEF ChanInv, StateTyped, SessionInv
<1>3. AllStopped' = AllStopped
    BY <1>1 DEF AllStopped, Running
<1>4. NoRequest.op = "stop" /\ NoRequest.pc = "idle"
    BY DEF NoRequest
<1>5. CASE ApiStart
    <2>1. row'.desired /\ api'.op = "start" /\ api'.pc = "calling"
        BY <1>2, <1>5 DEF ApiStart, NoRequest, InstanceRow
    <2> QED
        BY <1>1, <2>1, SameSession DEF Asked
<1>6. CASE ApiStop
    <2>1. row' = row /\ api'.op = "stop" /\ api'.pc = "calling" /\ api.pc = "idle"
        BY <1>6 DEF ApiStop, NoRequest
    <2>2. api.op = "stop"
        BY <1>2, <2>1 DEF Asked, Request
    <2> QED
        BY <1>1, <1>2, <1>3, <2>1, <2>2, SameSession DEF Asked
<1>7. CASE ApiCommit
    <2>1. api' = NoRequest /\ api.pc = "answered"
        BY <1>7 DEF ApiCommit
    <2>2. CASE api.op = "start"
        <3>1. row'.desired = row.desired
            BY <1>2, <1>7, <2>2 DEF ApiCommit, InstanceRow
        <3> QED
            BY <1>1, <1>2, <1>4, <2>1, <2>2, <3>1, SameSession DEF Asked
    <2>3. CASE api.op # "start"
        <3>1. api.op = "stop"
            BY <1>2, <2>3 DEF Request
        <3> QED
            BY <1>1, <1>2, <1>3, <1>4, <2>1, <3>1, SameSession DEF Asked
    <2> QED
        BY <2>2, <2>3
<1>8. CASE ApiFailed
    <2>1. api' = NoRequest /\ row' = [row EXCEPT !.desired = @ \/ api.op = "start", !.status = "error"]
        BY <1>8 DEF ApiFailed
    <2>2. row'.desired = (row.desired \/ api.op = "start")
        BY <1>2, <2>1 DEF InstanceRow
    <2>3. api.op \in {"start", "stop"}
        BY <1>2 DEF Request
    <2> QED
        BY <1>1, <1>2, <1>3, <1>4, <2>1, <2>2, <2>3, SameSession DEF Asked
<1>9. CASE Reconcile
    <2>1. api' = api /\ row' = [row EXCEPT !.status = IF up THEN PublicStatus(Status) ELSE "reconnecting"]
        BY <1>9 DEF Reconcile
    <2>2. row'.desired = row.desired
        BY <1>2, <2>1 DEF InstanceRow
    <2> QED
        BY <1>1, <2>1, <2>2, SameSession DEF SameRequest
<1> QED
    BY <1>5, <1>6, <1>7, <1>8, <1>9

LEMMA CalledSession ==
    ASSUME ChanInv, BridgeCalled PROVE SessionInv'
<1>1. UNCHANGED <<row, accepted, forgotten>> /\ api.pc = "calling" /\ api \in Request /\ Asked
    BY DEF BridgeCalled, ChanInv, StateTyped, SessionInv
<1>2. CASE /\ api.op = "start" /\ Start
           /\ api' \in {[api EXCEPT !.pc = "answered", !.answer = StartAnswer],
                        [api EXCEPT !.pc = "failed"]}
    <2>1. api'.op = "start" /\ api'.pc # "idle"
        BY <1>1, <1>2 DEF Request
    <2> QED
        BY <1>1, <1>2, <2>1, StartSession DEF Asked
<1>3. CASE /\ api.op = "stop" /\ Stop
           /\ api' \in {[api EXCEPT !.pc = "answered"], [api EXCEPT !.pc = "failed"]}
    <2>1. api'.op = "stop"
        BY <1>1, <1>3 DEF Request
    <2> QED
        BY <1>1, <1>3, <2>1, StopSession
<1>4. CASE api' = [api EXCEPT !.pc = "failed"] /\ UNCHANGED vars
    <2>1. api'.op = api.op /\ api'.pc = "failed"
        BY <1>1, <1>4 DEF Request
    <2>2. AllStopped' = AllStopped
        BY <1>4 DEF AllStopped, Running, vars
    <2>3. Asked'
        BY <1>1, <1>4, <2>1, <2>2 DEF Asked, vars
    <2> QED
        BY <1>1, <1>4, <2>3, SameSession DEF vars
<1> QED
    BY <1>2, <1>3, <1>4 DEF BridgeCalled

LEMMA CallSession ==
    ASSUME ChanInv, NEW c \in calls, ApplyCall(c) PROVE SessionInv'
<1>1. row' = [row EXCEPT !.status = PublicStatus(c.status)] /\ row \in InstanceRow
    BY DEF ApplyCall, ChanInv, StateTyped
<1>2. row'.desired = row.desired
    BY <1>1 DEF InstanceRow
<1>3. SameRequest /\ UNCHANGED <<accepted, forgotten>>
    BY <1>2 DEF ApplyCall, SameRequest
<1>4. CASE c.by # Nobody /\ Answered(c.by)
    <2>1. c.by \in Tasks
        BY <1>4 DEF ChanInv, ReadInv, Typed, Call
    <2> QED
        BY <1>3, <1>4, <2>1, AnsweredSession
<1>5. CASE UNCHANGED <<up, cur, objs, tasks, stored, overlapped>>
    BY <1>3, <1>5, SameSession
<1> QED
    BY <1>4, <1>5 DEF ApplyCall

LEMMA SessionNext ==
    ASSUME ChanInv, [ChannelNext]_chanVars PROVE SessionInv'
<1>1. CASE ApiStart \/ ApiStop \/ ApiCommit \/ ApiFailed \/ Reconcile
    BY <1>1, RequestSession
<1>2. CASE BridgeCalled
    BY <1>2, CalledSession
<1>3. ASSUME NEW c \in calls, ApplyCall(c) PROVE SessionInv'
    BY <1>3, CallSession
<1>4. ASSUME NEW t \in Tasks, Accept(t) \/ Expire(t) PROVE SessionInv'
    BY <1>4, AcceptSession, ExpireSession
<1>5. ASSUME NEW t \in Tasks, Refuse(t) PROVE SessionInv'
    BY <1>5, FailSession DEF Refuse, NotForwarded, Working
<1>6. ASSUME NEW t \in Tasks, BridgeStep(t) PROVE SessionInv'
    <2>1. UNCHANGED <<gatewayVars, crashes>> /\ SameRequest /\ UNCHANGED <<accepted, forgotten>>
        BY <1>6 DEF BridgeStep, gatewayVars, SameRequest
    <2>2. CASE LoginBroken(t) \/ PollBroken(t) \/ NotForwarded(t)
        <3>1. tasks[t].pc \in Working /\ Fail(t) /\ UNCHANGED <<up, cur, stored>>
            BY <2>2 DEF LoginBroken, PollBroken, NotForwarded, Working, Forwarding
        <3> QED
            BY <2>1, <3>1, FailSession
    <2>3. CASE Fetch(t)
        BY <2>1, <2>3, DeliverSession DEF Fetch
    <2>4. CASE Forwarded(t)
        BY <2>1, <2>4, DeliverSession DEF Forwarded
    <2> QED
        BY <1>6, <2>1, <2>2, <2>3, <2>4, ConfirmedSession, QrExpiredSession, RotateSession,
           RotateBrokenSession, UnansweredSession DEF BridgeStep
<1>7. CASE Environment
    <2>1. SameRequest /\ UNCHANGED <<accepted, forgotten>>
        BY <1>7 DEF Environment, gatewayVars, SameRequest
    <2>2. CASE Arrive
        BY <2>1, <2>2, SameSession DEF Arrive
    <2> QED
        BY <1>7, <2>1, <2>2, CrashSession, BootSession DEF Environment
<1>8. CASE UNCHANGED chanVars
    BY <1>8, SameSession DEF chanVars, vars, gatewayVars, SameRequest
<1> QED
    BY <1>1, <1>2, <1>3, <1>4, <1>5, <1>6, <1>7, <1>8 DEF ChannelNext

-----------------------------------------------------------------------------
(* Types.                                                                  *)

BridgeTyped == /\ up \in BOOLEAN /\ overlapped \in BOOLEAN
               /\ objs \in [Objects -> InstanceState] /\ stored \in Stored

LEMMA ObjectTyped ==
    ASSUME NEW s \in InstanceState, NEW st \in BridgeStatus, NEW c \in BOOLEAN,
           NEW k \in SUBSET Messages, NEW u \in Tasks \cup {Nobody}
    PROVE  /\ [s EXCEPT !.status = st] \in InstanceState
           /\ [s EXCEPT !.status = st, !.creds = c] \in InstanceState
           /\ [s EXCEPT !.status = st, !.task = u] \in InstanceState
           /\ [s EXCEPT !.lost = TRUE, !.status = st] \in InstanceState
           /\ [s EXCEPT !.tokens = k] \in InstanceState
           /\ [s EXCEPT !.creds = c, !.tokens = k] \in InstanceState
BY DEF InstanceState

LEMMA StatesTyped == /\ NoState \in InstanceState /\ NoSession \in Stored
                     /\ \A k \in SUBSET Messages : Saved(k) \in Stored
                     /\ {"online", "offline", "error", "pending_login"} = BridgeStatus
BY DEF NoState, InstanceState, NoSession, Saved, Stored, BridgeStatus

\* An object of the present ones is replaced by a well-typed one.
LEMMA OneObject ==
    ASSUME BridgeTyped, NEW o \in Objects, NEW s \in InstanceState, objs' = [objs EXCEPT ![o] = s],
           up' \in BOOLEAN, overlapped' \in BOOLEAN, stored' \in Stored
    PROVE  BridgeTyped'
BY DEF BridgeTyped

LEMMA WorkTyped ==
    ASSUME ChanInv, NEW t \in Tasks, tasks[t].pc \in Working,
           up' = up, overlapped' = overlapped
    PROVE  /\ Fail(t) /\ stored' = stored => BridgeTyped'
           /\ LoginConfirmed(t) \/ QrExpired(t) \/ Rotate(t) \/ RotateBroken(t) => BridgeTyped'
           /\ SessionExpired(t) => BridgeTyped'
           /\ \A upto, todo : Deliver(t, upto, todo) /\ todo \subseteq Messages => BridgeTyped'
<1> DEFINE o == tasks[t].obj
<1>1. /\ BridgeTyped /\ o \in Objects /\ objs[o] \in InstanceState
      /\ objs \in [Objects -> InstanceState] /\ objs[o].tokens \in SUBSET Messages
    BY Worker DEF ChanInv, StateTyped, BridgeTyped, InstanceState
<1>2. /\ "error" \in BridgeStatus /\ "online" \in BridgeStatus
      /\ "pending_login" \in BridgeStatus /\ "offline" \in BridgeStatus
      /\ TRUE \in BOOLEAN /\ FALSE \in BOOLEAN /\ objs[o].status \in BridgeStatus
    BY <1>1, StatesTyped DEF InstanceState
<1>3. up' \in BOOLEAN /\ overlapped' \in BOOLEAN
    BY <1>1 DEF BridgeTyped
<1>4. ASSUME Fail(t), stored' = stored PROVE BridgeTyped'
    <2>1. objs' = [objs EXCEPT ![o] = [objs[o] EXCEPT !.status = "error"]]
        BY <1>1, <1>4 DEF Fail
    <2>2. [objs[o] EXCEPT !.status = "error"] \in InstanceState
        BY <1>1, <1>2, ObjectTyped
    <2>3. stored' \in Stored
        BY <1>1, <1>4 DEF BridgeTyped
    <2> QED
        BY <1>1, <1>3, <2>1, <2>2, <2>3, OneObject
<1>5. ASSUME LoginConfirmed(t) PROVE BridgeTyped'
    <2>1. objs' = [objs EXCEPT ![o] = [objs[o] EXCEPT !.status = "online", !.creds = TRUE]]
        BY <1>1, <1>5 DEF LoginConfirmed
    <2>2. [objs[o] EXCEPT !.status = "online", !.creds = TRUE] \in InstanceState
        BY <1>1, <1>2, ObjectTyped
    <2>3. stored' \in Stored
        BY <1>1, <1>5, StatesTyped DEF LoginConfirmed
    <2> QED
        BY <1>1, <1>3, <2>1, <2>2, <2>3, OneObject
<1>6. ASSUME QrExpired(t) PROVE BridgeTyped'
    BY <1>1, <1>6 DEF QrExpired, BridgeTyped
<1>7. ASSUME Rotate(t) PROVE BridgeTyped'
    <2>1. PICK u \in Idle : objs' = [objs EXCEPT ![o].status = "pending_login", ![o].task = u]
        BY <1>7 DEF Rotate
    <2>2. u \in Tasks \cup {Nobody}
        BY DEF Idle
    <2>3. objs' = [objs EXCEPT ![o] = [objs[o] EXCEPT !.status = "pending_login", !.task = u]]
        BY <1>1, <2>1
    <2>4. [objs[o] EXCEPT !.status = "pending_login", !.task = u] \in InstanceState
        BY <1>1, <1>2, <2>2, ObjectTyped
    <2>5. stored' \in Stored
        BY <1>1, <1>7 DEF Rotate, BridgeTyped
    <2> QED
        BY <1>1, <1>3, <2>3, <2>4, <2>5, OneObject
<1>8. ASSUME RotateBroken(t) PROVE BridgeTyped'
    <2> DEFINE st == IF EndsOffline(t) THEN "offline" ELSE objs[o].status
    <2>1. objs' = [objs EXCEPT ![o] = [objs[o] EXCEPT !.lost = TRUE, !.status = st]]
        <3>1. objs' = [objs EXCEPT ![o].lost = TRUE,
                                   ![o].status = IF EndsOffline(t) THEN "offline" ELSE @]
            BY <1>8 DEF RotateBroken
        <3> QED
            BY <1>1, <3>1
    <2>2. st \in BridgeStatus
        BY <1>2
    <2> HIDE DEF st
    <2>3. [objs[o] EXCEPT !.lost = TRUE, !.status = st] \in InstanceState
        BY <1>1, <1>2, <2>2, ObjectTyped
    <2>4. stored' \in Stored
        BY <1>1, <1>8 DEF RotateBroken, BridgeTyped
    <2> QED
        BY <1>1, <1>3, <2>1, <2>3, <2>4, OneObject
<1>9. ASSUME SessionExpired(t) PROVE BridgeTyped'
    <2>1. objs' = [objs EXCEPT ![o] = [objs[o] EXCEPT !.creds = FALSE, !.tokens = {}]]
        BY <1>1, <1>9 DEF SessionExpired
    <2>2. [objs[o] EXCEPT !.creds = FALSE, !.tokens = {}] \in InstanceState
        BY <1>1, <1>2, ObjectTyped
    <2>3. stored' \in Stored
        BY <1>9, StatesTyped DEF SessionExpired
    <2> QED
        BY <1>1, <1>3, <2>1, <2>2, <2>3, OneObject
<1>10. ASSUME NEW upto, NEW todo, Deliver(t, upto, todo), todo \subseteq Messages PROVE BridgeTyped'
    <2>1. CASE todo = {}
        BY <1>1, <1>3, <1>10, <2>1 DEF Deliver, BridgeTyped
    <2>2. CASE todo # {}
        <3> DEFINE k == objs[o].tokens \cup {Next1(todo)}
        <3>1. objs' = [objs EXCEPT ![o] = [objs[o] EXCEPT !.tokens = k]]
            BY <1>1, <1>10, <2>2 DEF Deliver
        <3>2. Next1(todo) \in todo
            <4>1. todo \subseteq Nat
                BY <1>10, BridgeAssumption DEF Messages
            <4> QED
                BY <2>2, <4>1, NextOfBatch
        <3>3. k \in SUBSET Messages
            BY <1>1, <1>10, <3>2
        <3>4. stored' = Saved(k)
            BY <1>10, <2>2 DEF Deliver
        <3> HIDE DEF k
        <3>5. [objs[o] EXCEPT !.tokens = k] \in InstanceState /\ stored' \in Stored
            BY <1>1, <1>2, <3>3, <3>4, ObjectTyped, StatesTyped
        <3> QED
            BY <1>1, <1>3, <3>1, <3>5, OneObject
    <2> QED
        BY <2>1, <2>2
<1> QED
    BY <1>4, <1>5, <1>6, <1>7, <1>8, <1>9, <1>10

LEMMA FinallyTyped ==
    ASSUME ChanInv, NEW t \in Tasks, tasks[t].pc # "idle", Finally(t), UNCHANGED <<up, stored>>
    PROVE  BridgeTyped'
<1> DEFINE o == tasks[t].obj
<1>1. /\ BridgeTyped /\ o \in Objects /\ objs[o] \in InstanceState
      /\ objs \in [Objects -> InstanceState]
    BY DEF ChanInv, StateTyped, BridgeTyped, SessionInv, Placed
<1>2. up' \in BOOLEAN /\ stored' \in Stored
    BY <1>1 DEF BridgeTyped
<1>3. overlapped' \in BOOLEAN
    BY <1>1 DEF BridgeTyped, Finally
<1>4. [objs[o] EXCEPT !.status = "offline"] \in InstanceState
    BY <1>1, StatesTyped, ObjectTyped
<1>5. CASE objs' = [objs EXCEPT ![o].status = "offline"]
    <2>1. objs' = [objs EXCEPT ![o] = [objs[o] EXCEPT !.status = "offline"]]
        BY <1>1, <1>5
    <2> QED
        BY <1>1, <1>2, <1>3, <1>4, <2>1, OneObject
<1>6. CASE objs' = objs
    BY <1>1, <1>2, <1>3, <1>6 DEF BridgeTyped
<1> QED
    BY <1>5, <1>6 DEF Finally

LEMMA InterfaceTyped ==
    ASSUME ChanInv, Start \/ Stop \/ Boot \/ Crash PROVE BridgeTyped'
<1>1. /\ BridgeTyped /\ objs \in [Objects -> InstanceState] /\ stored \in Stored
      /\ cur \in Objects \cup {Nobody} /\ stored.tokens \in SUBSET Messages
    BY DEF ChanInv, StateTyped, BridgeTyped, ReadInv, Typed, Stored
<1>2. up' \in BOOLEAN /\ overlapped' \in BOOLEAN
    BY <1>1 DEF BridgeTyped, Start, Stop, Boot, Crash
<1>3. ASSUME NEW o, NEW new \in InstanceState, objs' = Replaced(o, new), stored' \in Stored
      PROVE  BridgeTyped'
    <2>1. objs' \in [Objects -> InstanceState]
        BY <1>1, <1>3, StatesTyped DEF Replaced
    <2> QED
        BY <1>2, <1>3, <2>1 DEF BridgeTyped
<1>4. CASE Resume
    <2>1. PICK o \in Free, t \in Idle :
              /\ objs' = Replaced(o, [status |-> "online", creds |-> TRUE,
                                      tokens |-> stored.tokens, task |-> t, lost |-> FALSE])
              /\ stored' = Saved(stored.tokens)
        BY <1>4 DEF Resume
    <2>2. [status |-> "online", creds |-> TRUE,
           tokens |-> stored.tokens, task |-> t, lost |-> FALSE] \in InstanceState
        BY <1>1, StatesTyped DEF InstanceState, Idle
    <2>3. stored' \in Stored
        BY <1>1, <2>1, StatesTyped
    <2> QED
        BY <1>3, <2>1, <2>2, <2>3
<1>5. CASE BeginLogin
    <2>1. PICK o \in Free, t \in Idle :
              objs' = Replaced(o, [NoState EXCEPT !.status = "pending_login", !.task = t])
        BY <1>5 DEF BeginLogin
    <2>2. t \in Tasks \cup {Nobody} /\ "pending_login" \in BridgeStatus
        BY StatesTyped DEF Idle
    <2>3. [NoState EXCEPT !.status = "pending_login", !.task = t] \in InstanceState
        BY <2>2, StatesTyped DEF InstanceState
    <2>4. stored' \in Stored
        BY <1>1, <1>5 DEF BeginLogin
    <2> QED
        BY <1>3, <2>1, <2>3, <2>4
<1>6. CASE UNCHANGED <<objs, stored>>
    BY <1>1, <1>2, <1>6 DEF BridgeTyped
<1>7. CASE Stop
    <2>1. CASE cur = Nobody
        <3>1. objs' = objs /\ stored' = [stored EXCEPT !.desired = FALSE]
            BY <1>7, <2>1 DEF Stop
        <3>2. stored' \in Stored
            BY <1>1, <3>1 DEF Stored
        <3> QED
            BY <1>1, <1>2, <3>1, <3>2 DEF BridgeTyped
    <2>2. CASE cur # Nobody
        <3> DEFINE s == [objs[cur] EXCEPT !.status = "offline", !.task = Nobody]
        <3>1. /\ cur \in Objects /\ objs[cur] \in InstanceState
              /\ objs[cur].tokens \in SUBSET Messages
            BY <1>1, <2>2 DEF InstanceState
        <3>2. objs' = [objs EXCEPT ![cur] = s]
            BY <1>1, <1>7, <2>2, <3>1 DEF Stop
        <3>3. s \in InstanceState
            BY <3>1, StatesTyped, ObjectTyped
        <3>4. /\ Saved(objs[cur].tokens) \in Stored
              /\ [Saved(objs[cur].tokens) EXCEPT !.desired = FALSE] \in Stored
            BY <3>1, StatesTyped DEF Stored
        <3>5. stored' \in {[Saved(objs[cur].tokens) EXCEPT !.desired = FALSE], stored}
            BY <1>7, <2>2 DEF Stop
        <3> HIDE DEF s
        <3>6. stored' \in Stored
            BY <1>1, <3>4, <3>5
        <3> QED
            BY <1>1, <1>2, <3>1, <3>2, <3>3, <3>6, OneObject
    <2> QED
        BY <2>1, <2>2
<1>8. CASE Crash
    <2>1. objs' = [o \in Objects |-> NoState] /\ stored' = stored
        BY <1>8 DEF Crash
    <2> QED
        BY <1>1, <1>2, <2>1, StatesTyped DEF BridgeTyped
<1> QED
    BY <1>4, <1>5, <1>6, <1>7, <1>8 DEF Start, Boot

LEMMA BridgeStepTyped ==
    ASSUME ChanInv, NEW t \in Tasks, BridgeStep(t) \/ Refuse(t) \/ Expire(t) \/ Accept(t)
    PROVE  BridgeTyped'
<1>1. BridgeTyped
    BY DEF ChanInv, StateTyped, BridgeTyped
<1>2. CASE LoginBroken(t) \/ PollBroken(t) \/ NotForwarded(t) \/ (Unanswered(t) /\ Fail(t))
    <2>1. /\ Fail(t) /\ UNCHANGED <<up, stored>> /\ overlapped' = overlapped
        BY <1>2 DEF LoginBroken, PollBroken, NotForwarded, Unanswered, Fail
    <2>2. CASE tasks[t].pc \in Working
        BY <2>1, <2>2, WorkTyped
    <2>3. CASE tasks[t].pc \notin Working
        <3>1. Unanswered(t) /\ tasks[t].pc \in Reporting /\ tasks[t].pc # "announce"
            BY <1>2, <2>3 DEF LoginBroken, PollBroken, NotForwarded, Unanswered, Forwarding, Working
        <3>2. tasks[t].pc # "idle"
            BY <3>1 DEF Reporting
        <3>3. tasks[t].obj \in Objects /\ objs[tasks[t].obj] \in InstanceState
            BY <3>2 DEF ChanInv, StateTyped, SessionInv, Placed
        <3>4. [objs[tasks[t].obj] EXCEPT !.status = "error"] \in InstanceState
            BY <3>3, StatesTyped, ObjectTyped
        <3>5. objs' = [objs EXCEPT ![tasks[t].obj] = [objs[tasks[t].obj] EXCEPT !.status = "error"]]
            BY <1>1, <2>1, <3>3 DEF Fail, BridgeTyped
        <3> QED
            BY <1>1, <2>1, <3>3, <3>4, <3>5, OneObject DEF BridgeTyped
    <2> QED
        BY <2>2, <2>3
<1>3. CASE LoginConfirmed(t) \/ QrExpired(t) \/ Rotate(t) \/ RotateBroken(t) \/ SessionExpired(t)
    <2>1. tasks[t].pc \in Working /\ UNCHANGED <<up, overlapped>>
        BY <1>3 DEF LoginConfirmed, QrExpired, Rotate, RotateBroken, SessionExpired, Working
    <2> QED
        BY <1>3, <2>1, WorkTyped
<1>4. CASE Unanswered(t)
    <2>1. tasks[t].pc # "idle" /\ UNCHANGED <<up, stored>>
        BY <1>4 DEF Unanswered, Reporting
    <2>2. CASE Finally(t)
        BY <2>1, <2>2, FinallyTyped
    <2>3. CASE UNCHANGED <<objs, overlapped>>
        BY <1>1, <2>1, <2>3 DEF BridgeTyped
    <2> QED
        BY <1>2, <1>4, <2>2, <2>3 DEF Unanswered
<1>5. CASE Fetch(t)
    <2>1. /\ tasks[t].pc \in Working /\ UNCHANGED <<up, overlapped>>
          /\ tasks[t].pos \in 0..MaxMessages /\ mailbox \in 0..MaxMessages
        BY <1>5 DEF Fetch, Working, ChanInv, ReadInv, Typed, TaskState
    <2>2. PICK n \in (tasks[t].pos + 1)..mailbox :
              Deliver(t, n, ((tasks[t].pos + 1)..n) \ Unreadable)
        BY <1>5 DEF Fetch
    <2>3. ((tasks[t].pos + 1)..n) \ Unreadable \subseteq Messages
        BY <2>1, BridgeAssumption DEF Messages
    <2> QED
        BY <2>1, <2>2, <2>3, WorkTyped
<1>6. CASE Forwarded(t)
    <2>1. /\ tasks[t].pc \in Working /\ UNCHANGED <<up, overlapped>>
          /\ tasks[t].todo \in SUBSET Messages
        BY <1>6 DEF Forwarded, Working, ChanInv, ReadInv, Typed, TaskState
    <2>2. tasks[t].todo \ {Next1(tasks[t].todo)} \subseteq Messages
        BY <2>1
    <2>3. Deliver(t, tasks[t].upto, tasks[t].todo \ {Next1(tasks[t].todo)})
        BY <1>6 DEF Forwarded
    <2> QED
        BY <2>1, <2>2, <2>3, WorkTyped
<1>7. CASE Accept(t)
    BY <1>1, <1>7 DEF Accept, Handled, BridgeTyped
<1> QED
    BY <1>2, <1>3, <1>4, <1>5, <1>6, <1>7 DEF BridgeStep, Refuse, Expire

\* Reports are those of the bridge, the row speaks the gateway's words.
LEMMA WordsTyped ==
    ASSUME ChanInv
    PROVE  /\ Status \in BridgeStatus /\ StartAnswer \in BridgeStatus
           /\ \A st \in BridgeStatus : PublicStatus(st) \in RowStatus
           /\ NewInstance \in InstanceRow /\ NoRequest \in Request
<1>1. cur \in Objects => objs[cur].status \in BridgeStatus
    BY DEF ChanInv, StateTyped, InstanceState
<1>2. Status \in BridgeStatus
    BY <1>1, StatesTyped DEF Status, ChanInv, ReadInv, Typed
<1>3. StartAnswer \in BridgeStatus
    BY <1>2, StatesTyped DEF StartAnswer
<1>4. \A st \in BridgeStatus : PublicStatus(st) \in RowStatus
    BY DEF PublicStatus, RowStatus, BridgeStatus
<1>5. NewInstance \in InstanceRow
    BY DEF NewInstance, InstanceRow, RowStatus
<1>6. NoRequest \in Request
    BY DEF NoRequest, Request, BridgeStatus
<1> QED
    BY <1>2, <1>3, <1>4, <1>5, <1>6

LEMMA RowTyped ==
    ASSUME NEW w \in InstanceRow, NEW d \in BOOLEAN, NEW st \in RowStatus
    PROVE  [w EXCEPT !.status = st] \in InstanceRow /\ [w EXCEPT !.desired = d, !.status = st] \in InstanceRow
BY DEF InstanceRow

\* The gateway's variables.
GatewayTyped == /\ row \in InstanceRow /\ api \in Request
                /\ requests \in 0..MaxRequests /\ crashes \in 0..MaxCrashes

LEMMA RequestTyped ==
    ASSUME ChanInv, ApiStart \/ ApiStop \/ BridgeCalled \/ ApiCommit \/ ApiFailed PROVE GatewayTyped'
<1>1. GatewayTyped /\ row \in InstanceRow /\ row.desired \in BOOLEAN /\ row.status \in RowStatus
    BY DEF ChanInv, StateTyped, GatewayTyped, InstanceRow
<1>2. CASE ApiStart
    <2>1. "logging_in" \in RowStatus
        BY DEF RowStatus
    <2>2. row' \in InstanceRow
        BY <1>1, <1>2, <2>1, RowTyped DEF ApiStart
    <2>3. api' \in Request
        BY <1>2, WordsTyped DEF ApiStart, Request
    <2>4. requests' \in 0..MaxRequests /\ crashes' = crashes
        BY <1>1, <1>2, ChannelAssumption DEF ApiStart, GatewayTyped
    <2> QED
        BY <1>1, <2>2, <2>3, <2>4 DEF GatewayTyped
<1>3. CASE ApiStop
    <2>1. PICK wr \in SUBSET {"desired", "status"} :
              api' = [NoRequest EXCEPT !.pc = "calling", !.writes = wr]
        BY <1>3 DEF ApiStop
    <2>2. api' \in Request
        BY <2>1, WordsTyped DEF Request
    <2>3. requests' \in 0..MaxRequests /\ UNCHANGED <<row, crashes>>
        BY <1>1, <1>3, ChannelAssumption DEF ApiStop, GatewayTyped
    <2> QED
        BY <1>1, <2>2, <2>3 DEF GatewayTyped
<1>4. CASE BridgeCalled
    <2>1. UNCHANGED <<row, requests, crashes>> /\ api \in Request
        BY <1>1, <1>4 DEF BridgeCalled, GatewayTyped
    <2>2. api' \in {[api EXCEPT !.pc = "answered", !.answer = StartAnswer],
                    [api EXCEPT !.pc = "answered"], [api EXCEPT !.pc = "failed"]}
        BY <1>4 DEF BridgeCalled
    <2>3. api' \in Request
        BY <2>1, <2>2, WordsTyped DEF Request
    <2> QED
        BY <1>1, <2>1, <2>3 DEF GatewayTyped
<1>5. CASE ApiCommit
    <2>1. api' = NoRequest /\ UNCHANGED <<requests, crashes>>
        BY <1>5 DEF ApiCommit
    <2>2. CASE api.op = "start"
        <3>1. row' = [row EXCEPT !.status = IF api.answer = "online" THEN "online" ELSE row.status]
            BY <1>1, <1>5, <2>2 DEF ApiCommit
        <3>2. (IF api.answer = "online" THEN "online" ELSE row.status) \in RowStatus
            BY <1>1 DEF RowStatus
        <3>3. row' \in InstanceRow
            BY <1>1, <3>1, <3>2, RowTyped
        <3> QED
            BY <1>1, <2>1, <3>3, WordsTyped DEF GatewayTyped
    <2>3. CASE api.op # "start"
        <3>1. row' = [c \in {"desired", "status"} |->
                          IF c \in api.writes THEN NewInstance[c] ELSE row[c]]
            BY <1>5, <2>3 DEF ApiCommit
        <3>2. NewInstance.desired \in BOOLEAN /\ NewInstance.status \in RowStatus
            BY DEF NewInstance, RowStatus
        <3>3. row' \in InstanceRow
            BY <1>1, <3>1, <3>2 DEF InstanceRow
        <3> QED
            BY <1>1, <2>1, <3>3, WordsTyped DEF GatewayTyped
    <2> QED
        BY <2>2, <2>3
<1>6. CASE ApiFailed
    <2> DEFINE d == row.desired \/ api.op = "start"
    <2>1. row' = [row EXCEPT !.desired = d, !.status = "error"]
        BY <1>1, <1>6 DEF ApiFailed
    <2>2. d \in BOOLEAN /\ "error" \in RowStatus
        BY DEF RowStatus
    <2> HIDE DEF d
    <2>3. row' \in InstanceRow
        BY <1>1, <2>1, <2>2, RowTyped
    <2>4. api' = NoRequest /\ UNCHANGED <<requests, crashes>>
        BY <1>6 DEF ApiFailed
    <2> QED
        BY <1>1, <2>3, <2>4, WordsTyped DEF GatewayTyped
<1> QED
    BY <1>2, <1>3, <1>4, <1>5, <1>6

LEMMA TypesNext ==
    ASSUME ChanInv, [ChannelNext]_chanVars PROVE StateTyped'
<1>1. GatewayTyped /\ BridgeTyped /\ accepted \subseteq Messages /\ forgotten \subseteq Messages
    BY DEF ChanInv, StateTyped, GatewayTyped, BridgeTyped
<1>2. forgotten' \subseteq forgotten \cup accepted
    BY DEF ChannelNext, chanVars, gatewayVars, ApiStart, ApiStop, BridgeCalled, ApiCommit, ApiFailed,
           ApplyCall, Reconcile, Accept, Refuse, BridgeStep, Expire, Environment
<1>3. accepted' \subseteq Messages
    <2>1. ReadInv'
        BY NextStep DEF ChanInv
    <2>2. accepted' \subseteq 1..mailbox' /\ mailbox' \in 0..MaxMessages
        BY <2>1 DEF ReadInv, Typed
    <2> QED
        BY <2>2, BridgeAssumption DEF Messages
<1>4. GatewayTyped' /\ BridgeTyped' => StateTyped'
    BY <1>1, <1>2, <1>3 DEF GatewayTyped, BridgeTyped, StateTyped
<1>5. CASE ApiStart \/ ApiStop \/ ApiCommit \/ ApiFailed
    <2>1. BridgeTyped'
        BY <1>1, <1>5 DEF ApiStart, ApiStop, ApiCommit, ApiFailed, vars, BridgeTyped
    <2> QED
        BY <1>4, <1>5, <2>1, RequestTyped
<1>6. CASE BridgeCalled
    <2>1. Start \/ Stop \/ UNCHANGED vars
        BY <1>6 DEF BridgeCalled
    <2>2. BridgeTyped'
        BY <1>1, <2>1, InterfaceTyped DEF vars, BridgeTyped
    <2> QED
        BY <1>4, <1>6, <2>2, RequestTyped
<1>7. ASSUME NEW c \in calls, ApplyCall(c) PROVE StateTyped'
    <2>1. row' = [row EXCEPT !.status = PublicStatus(c.status)] /\ c \in Call
        BY <1>7 DEF ApplyCall, ChanInv, ReadInv, Typed
    <2>2. PublicStatus(c.status) \in RowStatus /\ row \in InstanceRow
        BY <1>1, <2>1, WordsTyped DEF Call, GatewayTyped
    <2>3. row' \in InstanceRow
        BY <2>1, <2>2, RowTyped DEF InstanceRow
    <2>4. GatewayTyped'
        BY <1>1, <1>7, <2>3 DEF ApplyCall, GatewayTyped
    <2>5. CASE Answered(c.by) /\ c.by # Nobody
        <3>1. c.by \in Tasks
            BY <2>1, <2>5 DEF Call
        <3>2. tasks[c.by].pc # "idle" /\ UNCHANGED <<up, stored>>
            BY <2>5 DEF Answered, Reporting
        <3>3. CASE Finally(c.by)
            BY <1>4, <2>4, <3>1, <3>2, <3>3, FinallyTyped
        <3>4. CASE UNCHANGED <<objs, overlapped>>
            BY <1>1, <1>4, <2>4, <3>2, <3>4 DEF BridgeTyped
        <3> QED
            BY <2>5, <3>3, <3>4 DEF Answered
    <2>6. CASE UNCHANGED <<up, objs, stored, overlapped>>
        BY <1>1, <1>4, <2>4, <2>6 DEF BridgeTyped
    <2> QED
        BY <1>7, <2>5, <2>6 DEF ApplyCall
<1>8. CASE Reconcile
    <2> DEFINE st == IF up THEN PublicStatus(Status) ELSE "reconnecting"
    <2>1. row' = [row EXCEPT !.status = st] /\ UNCHANGED vars /\ UNCHANGED <<api, requests, crashes>>
        BY <1>8 DEF Reconcile
    <2>2. st \in RowStatus
        BY WordsTyped DEF RowStatus
    <2> HIDE DEF st
    <2>3. row' \in InstanceRow
        BY <1>1, <2>1, <2>2, RowTyped DEF GatewayTyped, InstanceRow
    <2> QED
        BY <1>1, <1>4, <2>1, <2>3 DEF GatewayTyped, BridgeTyped, vars
<1>9. ASSUME NEW t \in Tasks, BridgeStep(t) \/ Refuse(t) \/ Expire(t) \/ Accept(t) PROVE StateTyped'
    <2>1. UNCHANGED <<row, api, requests, crashes>>
        BY <1>9 DEF BridgeStep, Refuse, Expire, Accept, gatewayVars
    <2> QED
        BY <1>1, <1>4, <1>9, <2>1, BridgeStepTyped DEF GatewayTyped
<1>10. CASE Environment
    <2>1. GatewayTyped'
        BY <1>1, <1>10, ChannelAssumption DEF Environment, gatewayVars, GatewayTyped
    <2>2. CASE Arrive
        BY <1>1, <1>4, <2>1, <2>2 DEF Arrive, BridgeTyped
    <2> QED
        BY <1>4, <1>10, <2>1, <2>2, InterfaceTyped DEF Environment
<1>11. CASE UNCHANGED chanVars
    BY <1>1, <1>4, <1>11 DEF chanVars, vars, gatewayVars, GatewayTyped, BridgeTyped
<1> QED
    BY <1>5, <1>6, <1>7, <1>8, <1>9, <1>10, <1>11 DEF ChannelNext

LEMMA ChanInit == ChannelInit => ChanInv
<1> SUFFICES ASSUME ChannelInit PROVE ChanInv
    OBVIOUS
<1>1. /\ up = TRUE /\ cur = Nobody /\ overlapped = FALSE /\ stored = NoSession
      /\ objs = [o \in Objects |-> NoState] /\ tasks = [t \in Tasks |-> NoTask]
      /\ row = NewInstance /\ accepted = {} /\ forgotten = {} /\ api = NoRequest
      /\ requests = 0 /\ crashes = 0
    BY DEF ChannelInit, Init
<1>2. StateTyped
    <2>1. NewInstance \in InstanceRow /\ NoRequest \in Request
        BY DEF NewInstance, InstanceRow, RowStatus, NoRequest, Request, BridgeStatus
    <2>2. objs \in [Objects -> InstanceState] /\ stored \in Stored
        BY <1>1, StatesTyped
    <2>3. requests \in 0..MaxRequests /\ crashes \in 0..MaxCrashes
        BY <1>1, ChannelAssumption
    <2>4. up \in BOOLEAN /\ overlapped \in BOOLEAN
        BY <1>1
    <2> QED
        BY <1>1, <2>1, <2>2, <2>3, <2>4 DEF StateTyped
<1>3. \A v \in Tasks : tasks[v].pc = "idle"
    BY <1>1, NoTaskTyped
<1>4. (\A v \in Tasks : Placed(v, tasks[v])) /\ \A o \in Objects : Attended(o)
    BY <1>1, <1>3 DEF Placed, Attended, NoState
<1>5. Kept
    BY <1>1, <1>3 DEF Kept, KeptInFile, KeptInMemory, KeptBefore, Unforgotten
<1>6. Asked
    BY <1>1 DEF Asked, AllStopped, Running, NoSession, NoRequest
<1> QED
    BY <1>1, <1>2, <1>4, <1>5, <1>6, InitInv DEF ChanInv, SessionInv

LEMMA ChanInvariant == ChannelSpec => []ChanInv
<1>1. ChanInv /\ [ChannelNext]_chanVars => ChanInv'
    BY NextStep, TypesNext, SessionNext DEF ChanInv
<1> QED
    BY <1>1, ChanInit, PTL DEF ChannelSpec

-----------------------------------------------------------------------------

\* Type correctness: every reachable state of bridge and gateway is well typed.
THEOREM ChannelTypeCorrect == ChannelSpec => []ChannelTypeOK
<1>1. ChanInv => ChannelTypeOK
    BY DEF ChanInv, ReadInv, Typed, StateTyped, ChannelTypeOK, TypeOK
<1> QED
    BY <1>1, ChanInvariant, PTL

\* One session at a time (runtime.py 123, 287): no two tasks poll for the instance, whatever is
\* started, stopped, rotated, broken or restored, until a late report of a rotation has marked a
\* live session offline.
THEOREM OnlyOneSession == ChannelSpec => []OneSession
<1>1. ChanInv => OneSession
    <2> SUFFICES ASSUME ChanInv, ~overlapped PROVE Cardinality(Monitors) <= 1
        BY DEF OneSession
    <2>1. \A v \in Monitors : v \in Tasks /\ tasks[v].pc \in Working
        BY DEF Monitors, Forwarding, Working
    <2>2. CASE Monitors = {}
        BY <2>2, FS_EmptySet
    <2>3. CASE Monitors # {}
        <3>1. PICK t \in Monitors : TRUE
            BY <2>3
        <3>2. \A v \in Monitors : v = t
            BY <2>1, <3>1, AtWork DEF ChanInv
        <3>3. Monitors = {t}
            BY <3>1, <3>2
        <3>4. Cardinality({t}) = 1
            BY FS_Singleton, Zenon
        <3> QED
            BY <3>3, <3>4
    <2> QED
        BY <2>2, <2>3
<1> QED
    BY <1>1, ChanInvariant, PTL

\* What the gateway has taken can be answered (runtime.py 266-268): the context token is in the
\* session file and in the present object, after any restart, stop or start.
THEOREM TokensAreKept == ChannelSpec => []AcceptedCanBeAnswered
<1>1. ChanInv => AcceptedCanBeAnswered
    <2> SUFFICES ASSUME ChanInv, ~overlapped, NEW m \in Unforgotten
                 PROVE  /\ stored.exists /\ m \in stored.tokens
                        /\ Status = "online" => Sendable(m)
        BY DEF AcceptedCanBeAnswered, Unforgotten
    <2>1. KeptInFile /\ KeptInMemory
        BY DEF ChanInv, SessionInv, Kept
    <2>2. stored.exists /\ m \in stored.tokens
        BY <2>1 DEF KeptInFile
    <2>3. ASSUME Status = "online" PROVE Sendable(m)
        <3>1. cur # Nobody
            BY <2>3 DEF Status
        <3> QED
            BY <2>1, <2>3, <3>1 DEF KeptInMemory, Sendable
    <2> QED
        BY <2>2, <2>3
<1> QED
    BY <1>1, ChanInvariant, PTL

\* A stop is final until the next start (runtime.py 326-341), whatever reports, logins and
\* messages were under way.
THEOREM StopIsFinal == ChannelSpec => []StoppedStaysStopped
<1>1. ChanInv => StoppedStaysStopped
    <2>1. ASSUME ChanInv, api.pc = "idle" PROVE api.op = "stop"
        BY <2>1 DEF ChanInv, StateTyped, SessionInv, Asked, Request
    <2> QED
        BY <2>1 DEF ChanInv, SessionInv, Asked, AllStopped, StoppedStaysStopped
<1> QED
    BY <1>1, ChanInvariant, PTL

\* An instance that start() would leave alone has a task that works for it (runtime.py 295), unless
\* a start_login has failed.
THEOREM SomebodyWorks == ChannelSpec => []NeverStranded
<1>1. ChanInv => NeverStranded
    <2> SUFFICES ASSUME ChanInv, Running, ~objs[cur].lost
                 PROVE  \E t \in Live(cur) : tasks[t].pc \notin Reporting \ {"announce"}
        BY DEF NeverStranded
    <2>1. cur \in Objects /\ objs[cur].status \in {"pending_login", "online"}
        BY DEF Running, ChanInv, ReadInv, Typed
    <2>2. PICK t \in Tasks : tasks[t].obj = cur /\ tasks[t].pc \in Working
        BY <2>1 DEF ChanInv, SessionInv, Attended
    <2>3. tasks[t].pc # "idle" /\ tasks[t].pc \notin Reporting \ {"announce"}
        BY <2>2 DEF Working, Reporting
    <2> QED
        BY <2>2, <2>3 DEF Live
<1> QED
    BY <1>1, ChanInvariant, PTL

=============================================================================
