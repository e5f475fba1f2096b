-------------------------- MODULE MessageFlowProofs --------------------------
(***************************************************************************)
(* Theorems about MessageFlow.  For any conversations, kinds of messages,  *)
(* numbers of workers, crashes and replays: type correctness, that nobody  *)
(* is answered twice, and that what counts as sent is accounted for.  For  *)
(* one worker: merged messages get no reply of their own.  For             *)
(* conversations of one message: no message is stranded.                   *)
(***************************************************************************)
EXTENDS MessageFlow, TLAPS

LEMMA IdleTypes ==
    /\ NoRow \in MessageRow /\ ~Marked(NoRow)
    /\ IdleWorker \in WorkerState /\ IdleWorker.pc = "idle"
  BY DEF NoRow, MessageRow, Status, Unfinished, Marked, IdleWorker, WorkerState, WorkerPc

LEMMA InitInv == Init => FlowInv
  <1> SUFFICES ASSUME Init PROVE FlowInv
    OBVIOUS
  <1>1. \A w \in Workers : worker[w] = IdleWorker /\ worker[w].pc = "idle"
    BY IdleTypes DEF Init
  <1>2. TypeOK
    BY <1>1, IdleTypes, FlowAssumption DEF Init, TypeOK
  <1>3. QueueInv /\ HolderInv
    BY <1>1 DEF Init, QueueInv, HolderInv
  <1>4. FenceInv /\ AtMostOneReply
    BY <1>1 DEF Init, FenceInv, AtMostOneReply
  <1> QED
    BY <1>2, <1>3, <1>4 DEF FlowInv

-----------------------------------------------------------------------------
(* Steps that deliver and record nothing.                                  *)

\* A step of one worker, or of none, by which no mark is lost: what it must
\* leave true of the worker, and of the tasks of the others.
LEMMA QuietStep ==
    ASSUME FlowInv, NEW w \in Workers, TypeOK', QueueInv',
           UNCHANGED replies,
           \A m \in Messages : Marked(row[m]) => Marked(row'[m]),
           \A v \in Workers \ {w} : worker'[v] = worker[v],
           \A v \in Workers \ {w} : worker[v].pc # "idle" => task'[worker[v].message] = "processing",
           worker'[w].pc # "idle" =>
              /\ task'[worker'[w].message] = "processing"
              /\ \A v \in Workers \ {w} :
                    worker[v].pc # "idle" => worker[v].message # worker'[w].message
              /\ Careful(worker[w], worker[w].message)'
    PROVE  FlowInv'
  <1>1. HolderInv'
    <2>1. \A v \in Workers : worker'[v].pc # "idle" => task'[worker'[v].message] = "processing"
      OBVIOUS
    <2>2. ASSUME NEW u \in Workers, NEW v \in Workers,
                 worker'[u].pc # "idle", worker'[v].pc # "idle",
                 worker'[u].message = worker'[v].message
          PROVE  u = v
      BY <2>2 DEF FlowInv, HolderInv
    <2> QED
      BY <2>1, <2>2 DEF HolderInv
  <1>2. FenceInv'
    <2>1. \A m \in Messages : replies'[m] # 0 => Marked(row[m])'
      BY DEF FlowInv, FenceInv
    <2>2. ASSUME NEW v \in Workers, worker'[v].pc # "idle"
          PROVE  Careful(worker[v], worker[v].message)'
      <3>1. CASE v = w
        BY <2>2, <3>1
      <3>2. CASE v # w
        <4>1. worker'[v] = worker[v] /\ worker[v].message \in Messages
          BY <2>2, <3>2 DEF FlowInv, TypeOK
        <4>2. Careful(worker[v], worker[v].message)
          BY <2>2, <4>1 DEF FlowInv, FenceInv
        <4> QED
          BY <4>1, <4>2 DEF Careful
      <3> QED
        BY <3>1, <3>2
    <2> QED
      BY <2>1, <2>2 DEF FenceInv
  <1>3. AtMostOneReply'
    BY DEF FlowInv, AtMostOneReply
  <1> QED
    BY <1>1, <1>2, <1>3 DEF FlowInv

\* A step of process_message: the worker keeps its message, and the queue is
\* not concerned.
LEMMA WorkerStep ==
    ASSUME FlowInv, NEW w \in Workers, NEW next \in WorkerState,
           worker[w].pc # "idle", next.pc # "idle", next.message = worker[w].message,
           worker' = [worker EXCEPT ![w] = next],
           UNCHANGED <<kind, task, attempts, replies, confirmed, answered, crashes, replays>>,
           row' \in [Messages -> MessageRow],
           \A m \in Messages : row'[m].status = "none" => row[m].status = "none",
           \A m \in Messages : Marked(row[m]) => Marked(row'[m]),
           next.pc = "begin" => replies[next.message] = 0 \/ Marked(next.seen),
           next.pc \in Preparing => replies[next.message] = 0 \/ next.seen.dispatch = "started",
           next.pc = "send" => replies[next.message] = 0 /\ Marked(row'[next.message])
    PROVE  FlowInv'
  <1>1. /\ worker'[w] = next
        /\ \A v \in Workers \ {w} : worker'[v] = worker[v]
        /\ worker' \in [Workers -> WorkerState]
        /\ worker[w].message \in Messages
    BY DEF FlowInv, TypeOK
  <1>2. TypeOK'
    BY <1>1 DEF FlowInv, TypeOK
  <1>3. QueueInv'
    BY DEF FlowInv, QueueInv
  <1>4. \A v \in Workers : worker[v].pc # "idle" => task'[worker[v].message] = "processing"
    BY DEF FlowInv, HolderInv
  <1>5. \A v \in Workers \ {w} : worker[v].pc # "idle" => worker[v].message # next.message
    BY DEF FlowInv, HolderInv
  <1>6. Careful(worker[w], worker[w].message)'
    BY <1>1 DEF Careful
  <1> QED
    BY <1>1, <1>2, <1>3, <1>4, <1>5, <1>6, QuietStep

\* The steps after which the worker is no closer to sending a reply.
LEMMA IdleStep ==
    ASSUME FlowInv, NEW w \in Workers, NEW next \in WorkerState,
           worker[w].pc # "idle", next.message = worker[w].message,
           next.seen = worker[w].seen,
           next.pc \in WorkerPc \ {"idle", "begin", "send"},
           next.pc \in Preparing => worker[w].pc \in Preparing,
           worker' = [worker EXCEPT ![w] = next],
           UNCHANGED <<kind, task, attempts, replies, confirmed, answered, crashes, replays>>,
           row' \in [Messages -> MessageRow],
           \A m \in Messages : row'[m].status = "none" => row[m].status = "none",
           \A m \in Messages : Marked(row[m]) => Marked(row'[m])
    PROVE  FlowInv'
  <1>1. next.pc \in Preparing =>
            replies[next.message] = 0 \/ next.seen.dispatch = "started"
    BY DEF FlowInv, FenceInv, Careful
  <1> QED
    BY <1>1, WorkerStep

LEMMA WorkerTypes ==
    ASSUME FlowInv, NEW w \in Workers, worker[w].pc # "idle"
    PROVE  /\ worker[w] \in WorkerState /\ worker[w].message \in Messages
           /\ row \in [Messages -> MessageRow] /\ row[worker[w].message] \in MessageRow
           /\ worker[w].pc \in WorkerPc /\ worker[w].seen \in MessageRow
           /\ worker[w].siblings \in SUBSET Messages
           /\ worker[w].tags \in [Messages -> MessageRow]
  BY DEF FlowInv, TypeOK, WorkerState

\* A worker that goes on and takes note of something.
LEMMA Updates ==
    ASSUME FlowInv, NEW w \in Workers, worker[w].pc # "idle", NEW pc \in WorkerPc
    PROVE  /\ \A x \in MessageRow : [worker[w] EXCEPT !.pc = pc, !.seen = x] \in WorkerState
           /\ \A x \in SUBSET Messages :
                 /\ [worker[w] EXCEPT !.pc = pc, !.siblings = x] \in WorkerState
                 /\ [worker[w] EXCEPT !.pc = pc, !.changed = x] \in WorkerState
                 /\ [worker[w] EXCEPT !.pc = pc, !.context = x] \in WorkerState
  <1> DEFINE moved == [worker[w] EXCEPT !.pc = pc]
  <1>1. moved \in WorkerState
    BY WorkerTypes DEF WorkerState
  <1> HIDE DEF moved
  <1>2. ASSUME NEW x \in MessageRow PROVE [moved EXCEPT !.seen = x] \in WorkerState
    BY <1>1 DEF WorkerState
  <1>3. ASSUME NEW x \in SUBSET Messages
        PROVE  /\ [moved EXCEPT !.siblings = x] \in WorkerState
               /\ [moved EXCEPT !.changed = x] \in WorkerState
               /\ [moved EXCEPT !.context = x] \in WorkerState
    <2>1. [moved EXCEPT !.siblings = x] \in WorkerState
      BY <1>1 DEF WorkerState
    <2>2. [moved EXCEPT !.changed = x] \in WorkerState
      BY <1>1 DEF WorkerState
    <2>3. [moved EXCEPT !.context = x] \in WorkerState
      BY <1>1 DEF WorkerState
    <2> QED
      BY <2>1, <2>2, <2>3
  <1> QED
    BY <1>2, <1>3 DEF moved

\* Rows of which only the status is changed keep their marks.
LEMMA StatusOnly ==
    ASSUME FlowInv, NEW m \in Messages, NEW status \in Status,
           row' = [row EXCEPT ![m].status = status], status # "none" \/ row[m].status = "none"
    PROVE  /\ row' \in [Messages -> MessageRow]
           /\ \A n \in Messages : row'[n].status = "none" => row[n].status = "none"
           /\ \A n \in Messages : Marked(row[n]) => Marked(row'[n])
  BY DEF FlowInv, TypeOK, MessageRow, Marked

LEMMA StatusOfMany ==
    ASSUME FlowInv, NEW changed \in SUBSET Messages, NEW status \in Status \ {"none"},
           row' = [n \in Messages |-> IF n \in changed
                                      THEN [row[n] EXCEPT !.status = status] ELSE row[n]]
    PROVE  /\ row' \in [Messages -> MessageRow]
           /\ \A n \in Messages : row'[n].status = "none" => row[n].status = "none"
           /\ \A n \in Messages : Marked(row[n]) => Marked(row'[n])
  <1>1. \A n \in Messages : row[n] \in MessageRow /\ [row[n] EXCEPT !.status = status] \in MessageRow
    BY DEF FlowInv, TypeOK, MessageRow
  <1> QED
    BY <1>1 DEF Marked, MessageRow

-----------------------------------------------------------------------------
(* process_message, up to the reply.                                       *)

\* A step that only moves the program counter, forward among the steps before
\* the fence or past all of them.
LEMMA GotoInv ==
    ASSUME FlowInv, NEW w \in Workers, NEW from \in WorkerPc \ {"idle"},
           NEW to \in WorkerPc \ {"idle", "begin", "send"},
           to \in Preparing => from \in Preparing,
           Goto(w, from, to),
           UNCHANGED <<kind, task, attempts, replies, confirmed, answered, crashes, replays>>,
           row' \in [Messages -> MessageRow],
           \A m \in Messages : row'[m].status = "none" => row[m].status = "none",
           \A m \in Messages : Marked(row[m]) => Marked(row'[m])
    PROVE  FlowInv'
  <1> DEFINE next == [worker[w] EXCEPT !.pc = to]
  <1>1. worker[w].pc = from /\ worker' = [worker EXCEPT ![w] = next]
    BY DEF Goto, Step
  <1>2. /\ next \in WorkerState /\ next.pc = to
        /\ next.message = worker[w].message /\ next.seen = worker[w].seen
    BY <1>1, WorkerTypes DEF WorkerState
  <1> HIDE DEF next
  <1> QED
    BY <1>1, <1>2, IdleStep

LEMMA BeginInv ==
    ASSUME FlowInv, NEW w \in Workers,
           LoadMessage(w) \/ FailEarly(w) \/ SkipSettled(w) \/ SkipMerged(w) \/ StartMessage(w)
    PROVE  FlowInv'
  <1> DEFINE m == worker[w].message
  <1>0. /\ row' = row => \A n \in Messages : row'[n].status = "none" => row[n].status = "none"
        /\ row' = row => \A n \in Messages : Marked(row[n]) => Marked(row'[n])
        /\ row \in [Messages -> MessageRow]
    BY DEF FlowInv, TypeOK
  <1>1. CASE LoadMessage(w)
    <2> DEFINE next == [worker[w] EXCEPT !.pc = "begin", !.seen = row[m]]
    <2>1. worker[w].pc = "load" /\ worker' = [worker EXCEPT ![w] = next]
      BY <1>1 DEF LoadMessage, Step
    <2>2. next \in WorkerState
      BY <2>1, WorkerTypes, Updates DEF WorkerPc
    <2>3. next.pc = "begin" /\ next.message = m /\ next.seen = row[m]
      BY <2>1, WorkerTypes DEF WorkerState
    <2>4. m \in Messages /\ (replies[m] = 0 \/ Marked(row[m]))
      BY <2>1, WorkerTypes DEF FlowInv, FenceInv
    <2> HIDE DEF next
    <2> QED
      BY <1>0, <1>1, <2>1, <2>2, <2>3, <2>4, WorkerStep DEF LoadMessage, Preparing
  <1>2. CASE FailEarly(w)
    BY <1>0, <1>2, GotoInv DEF FailEarly, WorkerPc, Preparing
  <1>3. CASE SkipSettled(w)
    BY <1>0, <1>3, GotoInv DEF SkipSettled, WorkerPc, Preparing
  <1>4. CASE SkipMerged(w)
    <2>1. m \in Messages /\ row' = [row EXCEPT ![m].status = "sent"] /\ "sent" \in Status
      BY <1>4, WorkerTypes DEF SkipMerged, Goto, Step, Status
    <2>2. /\ row' \in [Messages -> MessageRow]
          /\ \A n \in Messages : row'[n].status = "none" => row[n].status = "none"
          /\ \A n \in Messages : Marked(row[n]) => Marked(row'[n])
      BY <2>1, StatusOnly
    <2> QED
      BY <1>4, <2>2, GotoInv DEF SkipMerged, WorkerPc, Preparing
  <1>5. CASE StartMessage(w)
    <2> DEFINE seen == [worker[w].seen EXCEPT !.status = "processing"]
               next == [worker[w] EXCEPT !.pc = "start", !.seen = seen]
               status == IF worker[w].seen.status = "processing" THEN row[m].status ELSE "processing"
    <2>1. /\ worker[w].pc = "begin" /\ worker[w].seen.merged = NoMessage
          /\ worker' = [worker EXCEPT ![w] = next]
          /\ row' = [row EXCEPT ![m].status = status]
      BY <1>5 DEF StartMessage, Step
    <2>2. seen \in MessageRow /\ seen.dispatch = worker[w].seen.dispatch
      BY <2>1, WorkerTypes DEF MessageRow, Status, Unfinished
    <2>3. next \in WorkerState
      <3> HIDE DEF seen
      <3> QED
        BY <2>1, <2>2, WorkerTypes, Updates DEF WorkerPc
    <2>4. next.pc = "start" /\ next.message = m /\ next.seen = seen
      <3> HIDE DEF seen
      <3> QED
        BY <2>1, WorkerTypes DEF WorkerState
    <2>5. m \in Messages /\ (replies[m] = 0 \/ seen.dispatch = "started")
      <3>1. replies[m] = 0 \/ Marked(worker[w].seen)
        BY <2>1 DEF FlowInv, FenceInv, Careful
      <3> QED
        BY <2>1, <2>2, <3>1, WorkerTypes DEF Marked
    <2>6. status \in Status /\ (status # "none" \/ row[m].status = "none")
      BY <2>1, WorkerTypes DEF MessageRow, Status, Unfinished
    <2>7. /\ row' \in [Messages -> MessageRow]
          /\ \A n \in Messages : row'[n].status = "none" => row[n].status = "none"
          /\ \A n \in Messages : Marked(row[n]) => Marked(row'[n])
      <3> HIDE DEF status
      <3> QED
        BY <2>1, <2>5, <2>6, StatusOnly
    <2> HIDE DEF next, seen, status
    <2> QED
      BY <1>5, <2>1, <2>3, <2>4, <2>5, <2>7, WorkerStep DEF StartMessage, Preparing
  <1> QED
    BY <1>1, <1>2, <1>3, <1>4, <1>5

LEMMA MergeInv ==
    ASSUME FlowInv, NEW w \in Workers,
           \/ IgnoreCommand(w) \/ AnswerCommand(w) \/ SelectSiblings(w)
           \/ ClaimSiblings(w) \/ TagSiblings(w) \/ AskModel(w)
    PROVE  FlowInv'
  <1> DEFINE m == worker[w].message
  <1>0. /\ row' = row => \A n \in Messages : row'[n].status = "none" => row[n].status = "none"
        /\ row' = row => \A n \in Messages : Marked(row[n]) => Marked(row'[n])
        /\ row \in [Messages -> MessageRow]
    BY DEF FlowInv, TypeOK
  <1>1. CASE IgnoreCommand(w)
    <2>1. m \in Messages /\ row' = [row EXCEPT ![m].status = "ignored"] /\ "ignored" \in Status
      BY <1>1, WorkerTypes DEF IgnoreCommand, Goto, Step, Status
    <2>2. /\ row' \in [Messages -> MessageRow]
          /\ \A n \in Messages : row'[n].status = "none" => row[n].status = "none"
          /\ \A n \in Messages : Marked(row[n]) => Marked(row'[n])
      BY <2>1, StatusOnly
    <2> QED
      BY <1>1, <2>2, GotoInv DEF IgnoreCommand, WorkerPc, Preparing
  <1>2. CASE AnswerCommand(w)
    <2> DEFINE next == [worker[w] EXCEPT !.pc = "fence", !.context = {m}]
    <2>1. worker[w].pc = "start" /\ worker' = [worker EXCEPT ![w] = next]
      BY <1>2 DEF AnswerCommand, Step
    <2>2. next \in WorkerState
      <3>1. {m} \in SUBSET Messages
        BY <2>1, WorkerTypes
      <3> QED
        BY <2>1, <3>1, Updates DEF WorkerPc
    <2>3. next.pc = "fence" /\ next.message = m /\ next.seen = worker[w].seen
      BY <2>1, WorkerTypes DEF WorkerState
    <2> HIDE DEF next
    <2> QED
      BY <1>0, <1>2, <2>1, <2>2, <2>3, IdleStep DEF AnswerCommand, WorkerPc, Preparing
  <1>3. CASE SelectSiblings(w)
    <2> DEFINE queued == {s \in Siblings(m) : row[s].status = "queued"}
               to == IF queued = {} THEN "ask" ELSE "claim"
               next == [worker[w] EXCEPT !.pc = to, !.siblings = queued]
    <2>1. worker[w].pc = "start" /\ worker' = [worker EXCEPT ![w] = next]
      BY <1>3 DEF SelectSiblings, Step
    <2>2. to \in {"ask", "claim"} /\ queued \in SUBSET Messages
      BY DEF Siblings
    <2> HIDE DEF to, queued
    <2>3. next \in WorkerState
      BY <2>1, <2>2, WorkerTypes, Updates DEF WorkerPc
    <2>4. next.pc = to /\ next.message = m /\ next.seen = worker[w].seen
      BY <2>1, WorkerTypes DEF WorkerState
    <2> HIDE DEF next
    <2> QED
      BY <1>0, <1>3, <2>1, <2>2, <2>3, <2>4, IdleStep DEF SelectSiblings, WorkerPc, Preparing
  <1>4. CASE ClaimSiblings(w)
    <2> DEFINE taken == {s \in worker[w].siblings : row[s].status = "queued"}
               read == [s \in Messages |-> IF s \in worker[w].siblings THEN row[s] ELSE NoRow]
               next == [worker[w] EXCEPT !.pc = "tag", !.changed = taken, !.tags = read]
    <2>1. worker[w].pc = "claim" /\ worker' = [worker EXCEPT ![w] = next]
      BY <1>4 DEF ClaimSiblings, Step
    <2>2. taken \in SUBSET Messages /\ read \in [Messages -> MessageRow]
      <3>1. taken \in SUBSET Messages
        BY <2>1, WorkerTypes
      <3>2. read \in [Messages -> MessageRow]
        BY <1>0, IdleTypes
      <3> QED
        BY <3>1, <3>2
    <2> HIDE DEF taken, read
    <2>3. [worker[w] EXCEPT !.pc = "tag", !.changed = taken] \in WorkerState
      BY <2>1, <2>2, WorkerTypes, Updates DEF WorkerPc
    <2>4. next \in WorkerState
      <3>1. next = [[worker[w] EXCEPT !.pc = "tag", !.changed = taken] EXCEPT !.tags = read]
        BY <2>1, WorkerTypes DEF WorkerState
      <3> QED
        BY <2>2, <2>3, <3>1 DEF WorkerState
    <2>5. next.pc = "tag" /\ next.message = m /\ next.seen = worker[w].seen
      BY <2>1, WorkerTypes DEF WorkerState
    <2> HIDE DEF next
    <2> QED
      BY <1>0, <1>4, <2>1, <2>4, <2>5, IdleStep DEF ClaimSiblings, WorkerPc, Preparing
  <1>5. CASE TagSiblings(w)
    <2> DEFINE next == [worker[w] EXCEPT !.pc = "ask", !.changed = {}, !.siblings = {},
                                         !.tags = IdleWorker.tags]
               written(n) == n \in worker[w].siblings /\ worker[w].tags[n].merged # m
               tagged(n) ==
                  [status |-> IF n \in worker[w].changed THEN "processing" ELSE row[n].status,
                   merged |-> IF written(n) THEN m ELSE row[n].merged,
                   dispatch |-> IF written(n) THEN worker[w].tags[n].dispatch ELSE row[n].dispatch]
    <2>1. /\ worker[w].pc = "tag" /\ worker' = [worker EXCEPT ![w] = next]
          /\ row' = [n \in Messages |-> tagged(n)]
      BY <1>5 DEF TagSiblings, Step
    <2>2. ASSUME NEW n \in Messages
          PROVE  /\ tagged(n) \in MessageRow /\ (Marked(row[n]) => Marked(tagged(n)))
                 /\ tagged(n).status = "none" => row[n].status = "none"
      <3>1. /\ m \in Messages /\ row[n] \in MessageRow /\ "processing" \in Status
            /\ worker[w].tags[n] \in MessageRow
        BY <1>0, <2>1, WorkerTypes DEF Status, Unfinished
      <3>2. m # NoMessage
        BY <3>1, FlowAssumption
      <3> QED
        BY <3>1, <3>2 DEF MessageRow, Marked
    <2>3. /\ row' \in [Messages -> MessageRow]
          /\ \A n \in Messages : row'[n].status = "none" => row[n].status = "none"
          /\ \A n \in Messages : Marked(row[n]) => Marked(row'[n])
      <3> HIDE DEF tagged
      <3> QED
        BY <2>1, <2>2
    <2>4. next \in WorkerState
      <3>1. [worker[w] EXCEPT !.pc = "ask", !.changed = {}] \in WorkerState
        BY <2>1, WorkerTypes, Updates DEF WorkerPc
      <3>2. IdleWorker.tags \in [Messages -> MessageRow]
        BY IdleTypes DEF WorkerState
      <3>3. next = [[worker[w] EXCEPT !.pc = "ask", !.changed = {}]
                       EXCEPT !.siblings = {}, !.tags = IdleWorker.tags]
        BY <2>1, WorkerTypes DEF WorkerState
      <3> QED
        BY <3>1, <3>2, <3>3 DEF WorkerState
    <2>5. next.pc = "ask" /\ next.message = m /\ next.seen = worker[w].seen
      BY <2>1, WorkerTypes DEF WorkerState
    <2>6. UNCHANGED <<kind, task, attempts, replies, confirmed, answered, crashes, replays>>
      BY <1>5 DEF TagSiblings
    <2> HIDE DEF next, tagged
    <2> QED
      BY <2>1, <2>3, <2>4, <2>5, <2>6, IdleStep DEF WorkerPc, Preparing
  <1>6. CASE AskModel(w)
    <2>0. PICK history \in SUBSET Siblings(m) :
             worker' = [worker EXCEPT ![w].pc = "fence", ![w].context = {m} \cup history]
      BY <1>6 DEF AskModel
    <2> DEFINE shown == {m} \cup history
               next == [worker[w] EXCEPT !.pc = "fence", !.context = shown]
    <2>1. worker[w].pc = "ask" /\ worker' = [worker EXCEPT ![w] = next]
      BY <1>6, <2>0 DEF AskModel, FlowInv, TypeOK
    <2>2. shown \in SUBSET Messages
      BY <2>1, WorkerTypes DEF Siblings
    <2> HIDE DEF shown
    <2>3. next \in WorkerState
      BY <2>1, <2>2, WorkerTypes, Updates DEF WorkerPc
    <2>4. next.pc = "fence" /\ next.message = m /\ next.seen = worker[w].seen
      BY <2>1, WorkerTypes DEF WorkerState
    <2> HIDE DEF next
    <2> QED
      BY <1>0, <1>6, <2>1, <2>3, <2>4, IdleStep DEF AskModel, WorkerPc, Preparing
  <1> QED
    BY <1>1, <1>2, <1>3, <1>4, <1>5, <1>6

-----------------------------------------------------------------------------
(* The reply.                                                              *)

LEMMA FenceRaised ==
    ASSUME FlowInv, NEW w \in Workers, RaiseFence(w)
    PROVE  FlowInv'
  <1> DEFINE m == worker[w].message
             seen == [worker[w].seen EXCEPT !.dispatch = "started"]
             next == [worker[w] EXCEPT !.pc = "send", !.seen = seen]
             fenced == [row[m] EXCEPT !.merged = NoMessage, !.dispatch = "started"]
  <1>1. /\ worker[w].pc = "fence" /\ worker[w].seen.dispatch # "started"
        /\ worker' = [worker EXCEPT ![w] = next]
        /\ row' = [row EXCEPT ![m] = fenced]
        /\ UNCHANGED <<kind, task, attempts, replies, confirmed, answered, crashes, replays>>
    BY DEF RaiseFence, Step
  <1>2. seen \in MessageRow
    BY <1>1, WorkerTypes DEF MessageRow
  <1>3. next \in WorkerState /\ next.pc = "send" /\ next.message = m
    <2> HIDE DEF seen
    <2>1. next \in WorkerState
      BY <1>1, <1>2, Updates DEF WorkerPc
    <2>2. next.pc = "send" /\ next.message = m
      BY <1>1, WorkerTypes DEF WorkerState
    <2> QED
      BY <2>1, <2>2
  <1>4. fenced \in MessageRow /\ fenced.status = row[m].status /\ Marked(fenced)
    BY <1>1, WorkerTypes DEF MessageRow, Marked
  <1>5. m \in Messages /\ replies[m] = 0
    BY <1>1, WorkerTypes DEF FlowInv, FenceInv, Careful, Preparing
  <1> HIDE DEF next, fenced
  <1>6. /\ row' \in [Messages -> MessageRow] /\ row'[m] = fenced
        /\ \A n \in Messages : row'[n].status = "none" => row[n].status = "none"
        /\ \A n \in Messages : Marked(row[n]) => Marked(row'[n])
    BY <1>1, <1>4, <1>5 DEF FlowInv, TypeOK
  <1> QED
    BY <1>1, <1>3, <1>4, <1>5, <1>6, WorkerStep DEF Preparing

\* The worker is the first to send the reply, and its fence is up.
LEMMA Delivered ==
    ASSUME FlowInv, NEW w \in Workers, Deliver(w)
    PROVE  FlowInv'
  <1> DEFINE m == worker[w].message
  <1>1. PICK to \in {"finish", "abort"} : Goto(w, "send", to)
    BY DEF Deliver
  <1> DEFINE next == [worker[w] EXCEPT !.pc = to]
  <1>2. /\ worker[w].pc = "send" /\ worker' = [worker EXCEPT ![w] = next]
        /\ replies' = [replies EXCEPT ![m] = @ + 1]
        /\ answered' = answered \cup worker[w].context
        /\ UNCHANGED <<row, kind, task, attempts, confirmed, crashes, replays>>
    BY <1>1 DEF Deliver, Goto, Step
  <1>3. next \in WorkerState /\ next.pc = to /\ next.message = m
    BY <1>2, WorkerTypes DEF WorkerState, WorkerPc
  <1>4. m \in Messages /\ worker[w].context \in SUBSET Messages
    BY <1>2, WorkerTypes DEF WorkerState
  <1> HIDE DEF next
  <1>5. /\ worker' \in [Workers -> WorkerState] /\ worker'[w] = next
        /\ \A v \in Workers \ {w} : worker'[v] = worker[v]
    BY <1>2, <1>3 DEF FlowInv, TypeOK
  <1>6. /\ replies' \in [Messages -> Nat] /\ replies'[m] = replies[m] + 1
        /\ \A n \in Messages \ {m} : replies'[n] = replies[n]
    BY <1>2, <1>4 DEF FlowInv, TypeOK
  <1>7. TypeOK'
    BY <1>2, <1>3, <1>4, <1>5, <1>6 DEF FlowInv, TypeOK
  <1>8. QueueInv' /\ HolderInv'
    BY <1>2, <1>3, <1>5 DEF FlowInv, QueueInv, HolderInv
  <1>9. replies[m] = 0 /\ Marked(row[m])
    BY <1>2 DEF FlowInv, FenceInv, Careful
  <1>10. FenceInv'
    <2>1. \A n \in Messages : replies'[n] # 0 => Marked(row[n])'
      BY <1>2, <1>6, <1>9 DEF FlowInv, FenceInv
    <2>2. ASSUME NEW v \in Workers, worker'[v].pc # "idle"
          PROVE  Careful(worker[v], worker[v].message)'
      <3>1. CASE v = w
        BY <1>1, <1>3, <1>5, <3>1 DEF Careful, Preparing
      <3>2. CASE v # w
        <4>1. worker'[v] = worker[v] /\ worker[v].message \in Messages \ {m}
          BY <1>2, <1>5, <2>2, <3>2 DEF FlowInv, TypeOK, HolderInv
        <4>2. Careful(worker[v], worker[v].message)
          BY <1>2, <2>2, <4>1 DEF FlowInv, FenceInv
        <4> QED
          BY <1>2, <1>6, <4>1, <4>2 DEF Careful
      <3> QED
        BY <3>1, <3>2
    <2> QED
      BY <2>1, <2>2 DEF FenceInv
  <1>11. AtMostOneReply'
    BY <1>2, <1>6, <1>9 DEF FlowInv, AtMostOneReply
  <1> QED
    BY <1>7, <1>8, <1>10, <1>11 DEF FlowInv

\* The mark outlives the record.
LEMMA Finished ==
    ASSUME FlowInv, NEW w \in Workers, Finish(w)
    PROVE  FlowInv'
  <1> DEFINE m == worker[w].message
             to == IF kind[m] = "special" THEN "complete" ELSE "release"
             seen == [worker[w].seen EXCEPT !.status = "sent"]
             next == [worker[w] EXCEPT !.pc = to, !.seen = seen]
             sent == [row[m] EXCEPT !.status = "sent"]
  <1>1. /\ worker[w].pc = "finish" /\ worker' = [worker EXCEPT ![w] = next]
        /\ row' = [row EXCEPT ![m] = sent]
        /\ confirmed' = confirmed \cup {m}
        /\ UNCHANGED <<kind, task, attempts, replies, answered, crashes, replays>>
    BY DEF Finish, Step
  <1>2. seen \in MessageRow
    BY <1>1, WorkerTypes DEF MessageRow, Status
  <1>3. to \in {"complete", "release"}
    OBVIOUS
  <1> HIDE DEF seen, to
  <1>4. next \in WorkerState /\ next.pc = to /\ next.message = m
    BY <1>1, <1>2, <1>3, WorkerTypes DEF WorkerState, WorkerPc
  <1>5. /\ m \in Messages /\ sent \in MessageRow /\ sent.status # "none"
        /\ Marked(row[m]) => Marked(sent)
    BY <1>1, WorkerTypes DEF MessageRow, Status, Marked
  <1> HIDE DEF next, sent
  <1>6. /\ worker' \in [Workers -> WorkerState] /\ worker'[w] = next
        /\ \A v \in Workers \ {w} : worker'[v] = worker[v]
        /\ row' \in [Messages -> MessageRow]
        /\ \A n \in Messages \ {m} : row'[n] = row[n]
        /\ row'[m].status # "none"
        /\ \A n \in Messages : Marked(row[n]) => Marked(row'[n])
    BY <1>1, <1>4, <1>5 DEF FlowInv, TypeOK
  <1>7. TypeOK'
    BY <1>1, <1>4, <1>5, <1>6 DEF FlowInv, TypeOK
  <1>8. QueueInv' /\ HolderInv'
    <2>1. QueueInv'
      BY <1>1, <1>6 DEF FlowInv, QueueInv
    <2>2. HolderInv'
      BY <1>1, <1>4, <1>6 DEF FlowInv, HolderInv
    <2> QED
      BY <2>1, <2>2
  <1>9. FenceInv'
    <2>1. \A n \in Messages : replies'[n] # 0 => Marked(row[n])'
      BY <1>1, <1>6 DEF FlowInv, FenceInv
    <2>2. ASSUME NEW v \in Workers, worker'[v].pc # "idle"
          PROVE  Careful(worker[v], worker[v].message)'
      <3>1. CASE v = w
        BY <1>3, <1>4, <1>6, <3>1 DEF Careful, Preparing
      <3>2. CASE v # w
        <4>1. worker'[v] = worker[v] /\ worker[v].message \in Messages \ {m}
          BY <1>1, <1>6, <2>2, <3>2 DEF FlowInv, TypeOK, HolderInv
        <4>2. Careful(worker[v], worker[v].message)
          BY <1>1, <2>2, <4>1 DEF FlowInv, FenceInv
        <4> QED
          BY <1>1, <1>6, <4>1, <4>2 DEF Careful
      <3> QED
        BY <3>1, <3>2
    <2> QED
      BY <2>1, <2>2 DEF FenceInv
  <1>10. AtMostOneReply'
    BY <1>1 DEF FlowInv, AtMostOneReply
  <1> QED
    BY <1>7, <1>8, <1>9, <1>10 DEF FlowInv

-----------------------------------------------------------------------------
(* After the reply, and failure.                                           *)

LEMMA ReleaseInv ==
    ASSUME FlowInv, NEW w \in Workers,
           \/ SelectProcessing(w) \/ ReleaseMerged(w) \/ SelectMerged(w) \/ RestoreMerged(w)
    PROVE  FlowInv'
  <1> DEFINE m == worker[w].message
  <1>1. CASE SelectProcessing(w)
    <2> DEFINE processing == {s \in Siblings(m) : row[s].status = "processing"}
               next == [worker[w] EXCEPT !.pc = "releasing", !.siblings = processing]
    <2>1. /\ worker[w].pc = "release" /\ processing \in SUBSET Messages
          /\ worker' = [worker EXCEPT ![w] = next]
      BY <1>1 DEF SelectProcessing, Step, Siblings
    <2>2. /\ row' \in [Messages -> MessageRow] /\ row' = row
          /\ UNCHANGED <<kind, task, attempts, replies, confirmed, answered, crashes, replays>>
      BY <1>1 DEF SelectProcessing, FlowInv, TypeOK
    <2> HIDE DEF processing
    <2>3. next \in WorkerState /\ next.message = m /\ next.seen = worker[w].seen
      BY <2>1, WorkerTypes DEF WorkerState, WorkerPc
    <2>4. next.pc = "releasing"
      BY <2>1, WorkerTypes DEF WorkerState
    <2> HIDE DEF next
    <2> QED
      BY <2>1, <2>2, <2>3, <2>4, IdleStep DEF WorkerPc, Preparing
  <1>2. CASE ReleaseMerged(w)
    <2> DEFINE next == [worker[w] EXCEPT !.pc = "complete", !.siblings = {}]
    <2>1. /\ worker[w].pc = "releasing"
          /\ worker' = [worker EXCEPT ![w] = next]
      BY <1>2 DEF ReleaseMerged, Step
    <2>2. worker[w].siblings \in SUBSET Messages /\ "sent" \in Status \ {"none"}
      BY <2>1, WorkerTypes DEF Status
    <2>3. /\ row' \in [Messages -> MessageRow]
          /\ \A n \in Messages : row'[n].status = "none" => row[n].status = "none"
          /\ \A n \in Messages : Marked(row[n]) => Marked(row'[n])
      BY <1>2, <2>2, StatusOfMany DEF ReleaseMerged
    <2>4. UNCHANGED <<kind, task, attempts, replies, confirmed, answered, crashes, replays>>
      BY <1>2 DEF ReleaseMerged
    <2>5. next \in WorkerState /\ next.message = m /\ next.seen = worker[w].seen
      BY <2>1, WorkerTypes DEF WorkerState, WorkerPc
    <2>6. next.pc = "complete"
      BY <2>1, WorkerTypes DEF WorkerState
    <2> HIDE DEF next
    <2> QED
      BY <2>1, <2>3, <2>4, <2>5, <2>6, IdleStep DEF WorkerPc, Preparing
  <1>3. CASE SelectMerged(w)
    <2> DEFINE merged == {s \in Messages : row[s].merged = m}
               next == [worker[w] EXCEPT !.pc = "restoring", !.siblings = merged]
    <2>1. /\ worker[w].pc = "restore" /\ merged \in SUBSET Messages
          /\ worker' = [worker EXCEPT ![w] = next]
      BY <1>3 DEF SelectMerged, Step
    <2>2. /\ row' \in [Messages -> MessageRow] /\ row' = row
          /\ UNCHANGED <<kind, task, attempts, replies, confirmed, answered, crashes, replays>>
      BY <1>3 DEF SelectMerged, FlowInv, TypeOK
    <2> HIDE DEF merged
    <2>3. next \in WorkerState
      BY <2>1, WorkerTypes, Updates DEF WorkerPc
    <2>4. next.pc = "restoring" /\ next.message = m /\ next.seen = worker[w].seen
      BY <2>1, WorkerTypes DEF WorkerState
    <2> HIDE DEF next
    <2> QED
      BY <2>1, <2>2, <2>3, <2>4, IdleStep DEF WorkerPc, Preparing
  <1>4. CASE RestoreMerged(w)
    <2> DEFINE next == [worker[w] EXCEPT !.pc = "fail", !.siblings = {}]
    <2>1. /\ worker[w].pc = "restoring"
          /\ worker' = [worker EXCEPT ![w] = next]
      BY <1>4 DEF RestoreMerged, Step
    <2>2. worker[w].siblings \in SUBSET Messages /\ "queued" \in Status \ {"none"}
      BY <2>1, WorkerTypes DEF Status, Unfinished
    <2>3. /\ row' \in [Messages -> MessageRow]
          /\ \A n \in Messages : row'[n].status = "none" => row[n].status = "none"
          /\ \A n \in Messages : Marked(row[n]) => Marked(row'[n])
      BY <1>4, <2>2, StatusOfMany DEF RestoreMerged
    <2>4. UNCHANGED <<kind, task, attempts, replies, confirmed, answered, crashes, replays>>
      BY <1>4 DEF RestoreMerged
    <2>5. next \in WorkerState /\ next.message = m /\ next.seen = worker[w].seen
      BY <2>1, WorkerTypes DEF WorkerState, WorkerPc
    <2>6. next.pc = "fail"
      BY <2>1, WorkerTypes DEF WorkerState
    <2> HIDE DEF next
    <2> QED
      BY <2>1, <2>3, <2>4, <2>5, <2>6, IdleStep DEF WorkerPc, Preparing
  <1> QED
    BY <1>1, <1>2, <1>3, <1>4

LEMMA FailureInv ==
    ASSUME FlowInv, NEW w \in Workers, RefuseToResend(w) \/ Raise(w) \/ Abort(w)
    PROVE  FlowInv'
  <1> DEFINE m == worker[w].message
  <1>1. CASE RefuseToResend(w)
    <2>1. /\ row' \in [Messages -> MessageRow] /\ row' = row
          /\ UNCHANGED <<kind, task, attempts, replies, confirmed, answered, crashes, replays>>
      BY <1>1 DEF RefuseToResend, FlowInv, TypeOK
    <2> QED
      BY <1>1, <2>1, GotoInv DEF RefuseToResend, WorkerPc, Preparing
  <1>2. CASE Raise(w)
    <2> DEFINE next == [worker[w] EXCEPT !.pc = "abort", !.siblings = {}, !.changed = {}]
    <2>1. worker[w].pc # "idle" /\ worker' = [worker EXCEPT ![w] = next]
      BY <1>2 DEF Raise
    <2>2. next \in WorkerState
      <3>1. [worker[w] EXCEPT !.pc = "abort", !.siblings = {}] \in WorkerState
        BY <2>1, WorkerTypes, Updates DEF WorkerPc
      <3>2. next = [[worker[w] EXCEPT !.pc = "abort", !.siblings = {}] EXCEPT !.changed = {}]
        BY <2>1, WorkerTypes DEF WorkerState
      <3> QED
        BY <3>1, <3>2 DEF WorkerState
    <2>3. next.pc = "abort" /\ next.message = m /\ next.seen = worker[w].seen
      BY <2>1, WorkerTypes DEF WorkerState
    <2>4. /\ row' \in [Messages -> MessageRow] /\ row' = row
          /\ UNCHANGED <<kind, task, attempts, replies, confirmed, answered, crashes, replays>>
      BY <1>2 DEF Raise, FlowInv, TypeOK
    <2> HIDE DEF next
    <2> QED
      BY <2>1, <2>2, <2>3, <2>4, IdleStep DEF WorkerPc, Preparing
  <1>3. CASE Abort(w)
    <2> DEFINE status == IF row[m].status = "sent" THEN row[m].status ELSE "failed"
    <2>1. /\ worker[w].pc # "idle" /\ Goto(w, "abort", "restore")
          /\ row' = [row EXCEPT ![m].status = status]
          /\ UNCHANGED <<kind, task, attempts, replies, confirmed, answered, crashes, replays>>
      BY <1>3 DEF Abort, Goto, Step
    <2>2. m \in Messages /\ status \in Status /\ status # "none"
      BY <2>1, WorkerTypes DEF Status, Unfinished
    <2> HIDE DEF status
    <2>3. /\ row' \in [Messages -> MessageRow]
          /\ \A n \in Messages : row'[n].status = "none" => row[n].status = "none"
          /\ \A n \in Messages : Marked(row[n]) => Marked(row'[n])
      BY <2>1, <2>2, StatusOnly
    <2> QED
      BY <2>1, <2>3, GotoInv DEF WorkerPc, Preparing
  <1> QED
    BY <1>1, <1>2, <1>3

-----------------------------------------------------------------------------
(* The queue.                                                              *)

\* A step of which no worker takes notice.
LEMMA QueueStep ==
    ASSUME FlowInv, TypeOK', QueueInv', UNCHANGED <<worker, replies>>,
           \A m \in Messages : Marked(row[m]) => Marked(row'[m]),
           \A v \in Workers : worker[v].pc # "idle" => task'[worker[v].message] = "processing"
    PROVE  FlowInv'
  <1>1. HolderInv'
    BY DEF FlowInv, HolderInv
  <1>2. FenceInv'
    <2>1. \A m \in Messages : replies'[m] # 0 => Marked(row[m])'
      BY DEF FlowInv, FenceInv
    <2>2. ASSUME NEW v \in Workers, worker'[v].pc # "idle"
          PROVE  Careful(worker[v], worker[v].message)'
      <3>1. Careful(worker[v], worker[v].message) /\ worker[v].message \in Messages
        BY <2>2 DEF FlowInv, FenceInv, TypeOK
      <3> QED
        BY <3>1 DEF Careful
    <2> QED
      BY <2>1, <2>2 DEF FenceInv
  <1>3. AtMostOneReply'
    BY DEF FlowInv, AtMostOneReply
  <1> QED
    BY <1>1, <1>2, <1>3 DEF FlowInv

\* What is known of a worker and its task, and of the others.
LEMMA Holder ==
    ASSUME FlowInv, NEW w \in Workers, worker[w].pc # "idle"
    PROVE  /\ worker[w].message \in Messages
           /\ task[worker[w].message] = "processing"
           /\ attempts[worker[w].message] \in 0..(MaxAttempts - 1)
           /\ row[worker[w].message].status # "none"
           /\ \A v \in Workers \ {w} :
                 worker[v].pc # "idle" => /\ worker[v].message \in Messages \ {worker[w].message}
                                          /\ task[worker[v].message] = "processing"
  <1>1. worker[w].message \in Messages /\ task[worker[w].message] = "processing"
    BY DEF FlowInv, TypeOK, HolderInv
  <1>2. attempts[worker[w].message] \in 0..MaxAttempts
        /\ attempts[worker[w].message] < MaxAttempts
    BY <1>1 DEF FlowInv, TypeOK, QueueInv
  <1>3. attempts[worker[w].message] \in 0..(MaxAttempts - 1)
    BY <1>2, FlowAssumption
  <1>4. row[worker[w].message].status # "none"
    BY <1>1 DEF FlowInv, QueueInv
  <1>5. \A v \in Workers \ {w} :
          worker[v].pc # "idle" => /\ worker[v].message \in Messages \ {worker[w].message}
                                   /\ task[worker[v].message] = "processing"
    BY DEF FlowInv, TypeOK, HolderInv
  <1> QED
    BY <1>1, <1>3, <1>4, <1>5

LEMMA IngestInv ==
    ASSUME FlowInv, NEW m \in Messages, Ingest(m)
    PROVE  FlowInv'
  <1>1. task[m] = "none" /\ attempts[m] = 0
    BY DEF Ingest, FlowInv, QueueInv
  <1>2. /\ row' = [row EXCEPT ![m].status = "queued"] /\ "queued" \in Status \ {"none"}
        /\ task' = [task EXCEPT ![m] = "pending"]
        /\ UNCHANGED <<attempts, worker, replies, confirmed, answered, crashes, replays>>
    BY DEF Ingest, Status, Unfinished
  <1>3. /\ row' \in [Messages -> MessageRow]
        /\ \A n \in Messages : row'[n].status = "none" => row[n].status = "none"
        /\ \A n \in Messages : Marked(row[n]) => Marked(row'[n])
    BY <1>2, StatusOnly
  <1>4. row'[m].status = "queued"
    BY <1>2 DEF FlowInv, TypeOK, MessageRow
  <1>5. kind' \in [Messages -> Kinds \cup {"none"}]
    BY DEF Ingest, FlowInv, TypeOK
  <1>6. task' \in [Messages -> {"none", "pending", "processing", "done", "dead"}]
        /\ task'[m] = "pending" /\ \A n \in Messages \ {m} : task'[n] = task[n]
    BY <1>2 DEF FlowInv, TypeOK
  <1>7. TypeOK'
    BY <1>2, <1>3, <1>5, <1>6 DEF FlowInv, TypeOK
  <1>8. QueueInv'
    BY <1>1, <1>2, <1>3, <1>4, <1>6, FlowAssumption DEF FlowInv, QueueInv
  <1>9. \A v \in Workers : worker[v].pc # "idle" => task'[worker[v].message] = "processing"
    BY <1>1, <1>6, Holder
  <1> QED
    BY <1>2, <1>3, <1>7, <1>8, <1>9, QueueStep

LEMMA ReplayInv ==
    ASSUME FlowInv, NEW m \in Messages, ReplayTask(m)
    PROVE  FlowInv'
  <1> DEFINE status == IF row[m].status = "dead" THEN "failed" ELSE row[m].status
  <1>1. /\ task[m] = "dead" /\ replays < MaxReplays /\ replays' = replays + 1
        /\ task' = [task EXCEPT ![m] = "pending"]
        /\ attempts' = [attempts EXCEPT ![m] = 0]
        /\ row' = [row EXCEPT ![m].status = status]
        /\ UNCHANGED <<kind, worker, replies, confirmed, answered, crashes>>
    BY DEF ReplayTask
  <1>2. row[m] \in MessageRow /\ status \in Status /\ status # "none"
    BY <1>1 DEF FlowInv, TypeOK, QueueInv, MessageRow, Status, Unfinished
  <1> HIDE DEF status
  <1>3. /\ row' \in [Messages -> MessageRow]
        /\ \A n \in Messages : row'[n].status = "none" => row[n].status = "none"
        /\ \A n \in Messages : Marked(row[n]) => Marked(row'[n])
    BY <1>1, <1>2, StatusOnly
  <1>4. row'[m].status # "none"
    BY <1>1, <1>2 DEF FlowInv, TypeOK, MessageRow
  <1>5. replays' \in 0..MaxReplays
    BY <1>1, FlowAssumption DEF FlowInv, TypeOK
  <1>6. /\ task' \in [Messages -> {"none", "pending", "processing", "done", "dead"}]
        /\ task'[m] = "pending" /\ \A n \in Messages \ {m} : task'[n] = task[n]
    BY <1>1 DEF FlowInv, TypeOK
  <1>7. /\ attempts' \in [Messages -> 0..MaxAttempts]
        /\ attempts'[m] = 0 /\ \A n \in Messages \ {m} : attempts'[n] = attempts[n]
    BY <1>1, FlowAssumption DEF FlowInv, TypeOK
  <1>8. TypeOK'
    BY <1>1, <1>3, <1>5, <1>6, <1>7 DEF FlowInv, TypeOK
  <1>9. QueueInv'
    BY <1>3, <1>4, <1>6, <1>7, FlowAssumption DEF FlowInv, QueueInv
  <1>10. \A v \in Workers : worker[v].pc # "idle" => task'[worker[v].message] = "processing"
    BY <1>1, <1>6, Holder
  <1> QED
    BY <1>1, <1>3, <1>8, <1>9, <1>10, QueueStep

LEMMA ClaimInv ==
    ASSUME FlowInv, NEW w \in Workers, NEW m \in Messages, ClaimTask(w, m)
    PROVE  FlowInv'
  <1> DEFINE next == [IdleWorker EXCEPT !.pc = "load", !.message = m]
  <1>1. /\ worker[w].pc = "idle" /\ worker' = [worker EXCEPT ![w] = next]
        /\ task' = [task EXCEPT ![m] = "processing"]
        /\ task[m] = "pending" \/ (task[m] = "processing" /\ ~Held(m))
        /\ UNCHANGED <<row, kind, attempts, replies, confirmed, answered, crashes, replays>>
    BY DEF ClaimTask, Step
  <1>2. next \in WorkerState /\ next.pc = "load" /\ next.message = m
    BY IdleTypes DEF WorkerState, WorkerPc
  <1> HIDE DEF next
  <1>3. /\ worker' \in [Workers -> WorkerState] /\ worker'[w] = next
        /\ \A v \in Workers \ {w} : worker'[v] = worker[v]
    BY <1>1, <1>2 DEF FlowInv, TypeOK
  <1>4. /\ task' \in [Messages -> {"none", "pending", "processing", "done", "dead"}]
        /\ task'[m] = "processing" /\ \A n \in Messages \ {m} : task'[n] = task[n]
    BY <1>1 DEF FlowInv, TypeOK
  <1>5. TypeOK'
    BY <1>1, <1>2, <1>3, <1>4 DEF FlowInv, TypeOK
  <1>6. QueueInv'
    BY <1>1, <1>4 DEF FlowInv, QueueInv
  <1>7. \A v \in Workers \ {w} : worker[v].pc # "idle" => worker[v].message \in Messages \ {m}
    BY <1>1 DEF Held, FlowInv, HolderInv, TypeOK
  <1>8. \A v \in Workers : worker[v].pc # "idle" => task'[worker[v].message] = "processing"
    BY <1>1, <1>4, <1>7 DEF FlowInv, HolderInv
  <1>9. Careful(worker[w], worker[w].message)'
    BY <1>2, <1>3 DEF Careful, Preparing
  <1> QED
    BY <1>1, <1>2, <1>3, <1>4, <1>5, <1>6, <1>7, <1>8, <1>9, QuietStep

\* The steps by which a worker lets go of its message.
LEMMA LetGo ==
    ASSUME FlowInv, NEW w \in Workers, worker[w].pc # "idle",
           worker' = [worker EXCEPT ![w] = IdleWorker],
           UNCHANGED <<kind, replies, confirmed, answered, replays>>,
           row' \in [Messages -> MessageRow],
           \A n \in Messages : row'[n].status = "none" => row[n].status = "none",
           \A n \in Messages : Marked(row[n]) => Marked(row'[n]),
           task' \in [Messages -> {"none", "pending", "processing", "done", "dead"}],
           task'[worker[w].message] # "none",
           \A n \in Messages \ {worker[w].message} : task'[n] = task[n],
           attempts' \in [Messages -> 0..MaxAttempts],
           \A n \in Messages \ {worker[w].message} : attempts'[n] = attempts[n],
           task'[worker[w].message] \in {"pending", "processing"} =>
              attempts'[worker[w].message] < MaxAttempts,
           crashes' \in 0..MaxCrashes
    PROVE  FlowInv'
  <1> DEFINE m == worker[w].message
  <1>1. /\ m \in Messages /\ row[m].status # "none"
        /\ \A v \in Workers \ {w} : worker[v].pc # "idle" => /\ worker[v].message \in Messages \ {m}
                                                             /\ task[worker[v].message] = "processing"
    BY Holder
  <1>2. /\ worker' \in [Workers -> WorkerState] /\ worker'[w].pc = "idle"
        /\ \A v \in Workers \ {w} : worker'[v] = worker[v]
    BY IdleTypes DEF FlowInv, TypeOK
  <1>3. TypeOK'
    BY <1>2 DEF FlowInv, TypeOK
  <1>4. QueueInv'
    BY <1>1 DEF FlowInv, QueueInv
  <1> QED
    BY <1>1, <1>2, <1>3, <1>4, QuietStep

LEMMA SettleInv ==
    ASSUME FlowInv, NEW w \in Workers, CompleteTask(w) \/ FailTask(w) \/ Crash(w)
    PROVE  FlowInv'
  <1> DEFINE m == worker[w].message
  <1>0. worker[w].pc # "idle" /\ worker' = [worker EXCEPT ![w] = IdleWorker]
    BY DEF CompleteTask, FailTask, Crash, Step
  <1>1. /\ m \in Messages /\ task[m] = "processing" /\ attempts[m] \in 0..(MaxAttempts - 1)
    BY <1>0, Holder
  <1>2. /\ row \in [Messages -> MessageRow] /\ crashes \in 0..MaxCrashes
        /\ task \in [Messages -> {"none", "pending", "processing", "done", "dead"}]
        /\ attempts \in [Messages -> 0..MaxAttempts]
    BY DEF FlowInv, TypeOK
  <1>3. CASE CompleteTask(w)
    <2>1. /\ task' = [task EXCEPT ![m] = "done"]
          /\ UNCHANGED <<row, kind, attempts, replies, confirmed, answered, crashes, replays>>
      BY <1>3 DEF CompleteTask
    <2>2. /\ task' \in [Messages -> {"none", "pending", "processing", "done", "dead"}]
          /\ task'[m] = "done" /\ \A n \in Messages \ {m} : task'[n] = task[n]
      BY <1>1, <1>2, <2>1
    <2> QED
      BY <1>0, <1>2, <2>1, <2>2, LetGo
  <1>4. CASE FailTask(w)
    <2> DEFINE status == IF attempts'[m] < MaxAttempts THEN "pending" ELSE "dead"
    <2>1. /\ attempts' = [attempts EXCEPT ![m] = attempts[m] + 1]
          /\ task' = [task EXCEPT ![m] = status]
          /\ row' = row \/ row' = [row EXCEPT ![m].status = "dead"]
          /\ UNCHANGED <<kind, replies, confirmed, answered, crashes, replays>>
      BY <1>4 DEF FailTask
    <2>2. /\ attempts' \in [Messages -> 0..MaxAttempts]
          /\ \A n \in Messages \ {m} : attempts'[n] = attempts[n]
      <3>1. attempts[m] + 1 \in 0..MaxAttempts
        BY <1>1, FlowAssumption
      <3> QED
        BY <1>1, <1>2, <2>1, <3>1
    <2>3. /\ task' \in [Messages -> {"none", "pending", "processing", "done", "dead"}]
          /\ task'[m] = status /\ \A n \in Messages \ {m} : task'[n] = task[n]
      BY <1>1, <1>2, <2>1
    <2>4. /\ row' \in [Messages -> MessageRow]
          /\ \A n \in Messages : row'[n].status = "none" => row[n].status = "none"
          /\ \A n \in Messages : Marked(row[n]) => Marked(row'[n])
      <3>1. CASE row' = row
        BY <1>2, <3>1
      <3>2. CASE row' = [row EXCEPT ![m].status = "dead"]
        BY <1>1, <3>2, StatusOnly DEF Status
      <3> QED
        BY <2>1, <3>1, <3>2
    <2>5. /\ task'[m] # "none"
          /\ task'[m] \in {"pending", "processing"} => attempts'[m] < MaxAttempts
      BY <2>3
    <2> QED
      BY <1>0, <1>2, <2>1, <2>2, <2>3, <2>4, <2>5, LetGo
  <1>5. CASE Crash(w)
    <2>1. /\ crashes < MaxCrashes /\ crashes' = crashes + 1
          /\ UNCHANGED <<row, kind, task, attempts, replies, confirmed, answered, replays>>
      BY <1>5 DEF Crash
    <2>2. crashes' \in 0..MaxCrashes
      BY <1>2, <2>1, FlowAssumption
    <2>3. attempts[m] < MaxAttempts
      BY <1>1, FlowAssumption
    <2> QED
      BY <1>0, <1>1, <1>2, <2>1, <2>2, <2>3, LetGo
  <1> QED
    BY <1>3, <1>4, <1>5

-----------------------------------------------------------------------------

LEMMA StepInv == FlowInv /\ [Next]_vars => FlowInv'
  <1> SUFFICES ASSUME FlowInv, [Next]_vars PROVE FlowInv'
    OBVIOUS
  <1>1. CASE UNCHANGED vars
    BY <1>1 DEF vars, FlowInv, TypeOK, QueueInv, HolderInv, FenceInv, Careful,
                AtMostOneReply
  <1>2. ASSUME NEW w \in Workers, ProcessMessage(w) PROVE FlowInv'
    BY <1>2, BeginInv, MergeInv, FenceRaised, Delivered, Finished, ReleaseInv, FailureInv
       DEF ProcessMessage
  <1>3. ASSUME NEW w \in Workers, Work(w) \/ Crash(w) PROVE FlowInv'
    BY <1>2, <1>3, ClaimInv, SettleInv DEF Work
  <1>4. ASSUME NEW m \in Messages, Ingest(m) \/ ReplayTask(m) PROVE FlowInv'
    BY <1>4, IngestInv, ReplayInv
  <1> QED
    BY <1>1, <1>3, <1>4 DEF Next

LEMMA Invariance == Spec => []FlowInv
  BY InitInv, StepInv, PTL DEF Spec

\* Every reachable state is well typed.
THEOREM TypeCorrect == Spec => []TypeOK
  <1>1. FlowInv => TypeOK
    BY DEF FlowInv
  <1> QED
    BY <1>1, Invariance, PTL

\* Nobody is answered twice, whichever messages are merged by whichever workers, and
\* however often workers die and dead tasks are replayed (the fence of process_message
\* and _deliver_reply, which stays up once a reply has been sent).
THEOREM NobodyIsAnsweredTwice == Spec => []AtMostOneReply
  <1>1. FlowInv => AtMostOneReply
    BY DEF FlowInv
  <1> QED
    BY <1>1, Invariance, PTL

-----------------------------------------------------------------------------
(* The queue: what a worker takes in hand, keeps and puts down.            *)

LEMMA HandOf ==
    ASSUME TypeOK, NEW w \in Workers, NEW next, worker' = [worker EXCEPT ![w] = next]
    PROVE  Hands' = [Hands EXCEPT ![w] = IF next.pc = "idle" THEN {} ELSE {next.message}]
  BY DEF TypeOK, Hands

\* process_message stays with its message, and does nothing to the queue.
LEMMA ProcessingKeepsTask ==
    ASSUME FlowInv, NEW w \in Workers, ProcessMessage(w)
    PROVE  UNCHANGED <<task, attempts, Hands>>
  <1>1. UNCHANGED <<task, attempts>>
    BY DEF ProcessMessage, LoadMessage, FailEarly, SkipSettled, SkipMerged, StartMessage,
           IgnoreCommand, AnswerCommand, SelectSiblings, ClaimSiblings, TagSiblings, AskModel,
           RaiseFence, RefuseToResend, Deliver, Finish, SelectProcessing, ReleaseMerged,
           Raise, Abort, SelectMerged, RestoreMerged
  <1>2. \A v \in Workers \ {w} : worker'[v] = worker[v]
    BY DEF ProcessMessage, LoadMessage, FailEarly, SkipSettled, SkipMerged, StartMessage,
           IgnoreCommand, AnswerCommand, SelectSiblings, ClaimSiblings, TagSiblings, AskModel,
           RaiseFence, RefuseToResend, Deliver, Finish, SelectProcessing, ReleaseMerged,
           Raise, Abort, SelectMerged, RestoreMerged, Goto, Step, FlowInv, TypeOK
  <1>3. /\ worker[w].pc # "idle" /\ worker'[w].pc # "idle"
        /\ worker'[w].message = worker[w].message
    <2>1. worker \in [Workers -> WorkerState] /\ worker[w] \in WorkerState
      BY DEF FlowInv, TypeOK
    <2>2. CASE LoadMessage(w)
      BY <2>1, <2>2 DEF LoadMessage, Goto, Step, WorkerState
    <2>3. CASE FailEarly(w)
      BY <2>1, <2>3 DEF FailEarly, Goto, Step, WorkerState
    <2>4. CASE SkipSettled(w)
      BY <2>1, <2>4 DEF SkipSettled, Goto, Step, WorkerState
    <2>5. CASE SkipMerged(w)
      BY <2>1, <2>5 DEF SkipMerged, Goto, Step, WorkerState
    <2>6. CASE StartMessage(w)
      BY <2>1, <2>6 DEF StartMessage, Goto, Step, WorkerState
    <2>7. CASE IgnoreCommand(w)
      BY <2>1, <2>7 DEF IgnoreCommand, Goto, Step, WorkerState
    <2>8. CASE AnswerCommand(w)
      BY <2>1, <2>8 DEF AnswerCommand, Goto, Step, WorkerState
    <2>9. CASE SelectSiblings(w)
      BY <2>1, <2>9 DEF SelectSiblings, Goto, Step, WorkerState
    <2>10. CASE ClaimSiblings(w)
      BY <2>1, <2>10 DEF ClaimSiblings, Goto, Step, WorkerState
    <2>11. CASE TagSiblings(w)
      BY <2>1, <2>11 DEF TagSiblings, Goto, Step, WorkerState
    <2>12. CASE AskModel(w)
      BY <2>1, <2>12 DEF AskModel, Goto, Step, WorkerState
    <2>13. CASE RaiseFence(w)
      BY <2>1, <2>13 DEF RaiseFence, Goto, Step, WorkerState
    <2>14. CASE RefuseToResend(w)
      BY <2>1, <2>14 DEF RefuseToResend, Goto, Step, WorkerState
    <2>15. CASE Deliver(w)
      BY <2>1, <2>15 DEF Deliver, Goto, Step, WorkerState
    <2>16. CASE Finish(w)
      BY <2>1, <2>16 DEF Finish, Goto, Step, WorkerState
    <2>17. CASE SelectProcessing(w)
      BY <2>1, <2>17 DEF SelectProcessing, Goto, Step, WorkerState
    <2>18. CASE ReleaseMerged(w)
      BY <2>1, <2>18 DEF ReleaseMerged, Goto, Step, WorkerState
    <2>19. CASE Raise(w)
      BY <2>1, <2>19 DEF Raise, Goto, Step, WorkerState
    <2>20. CASE Abort(w)
      BY <2>1, <2>20 DEF Abort, Goto, Step, WorkerState
    <2>21. CASE SelectMerged(w)
      BY <2>1, <2>21 DEF SelectMerged, Goto, Step, WorkerState
    <2>22. CASE RestoreMerged(w)
      BY <2>1, <2>22 DEF RestoreMerged, Goto, Step, WorkerState
    <2> QED
      BY <2>2, <2>3, <2>4, <2>5, <2>6, <2>7, <2>8, <2>9, <2>10, <2>11,
         <2>12, <2>13, <2>14, <2>15, <2>16, <2>17, <2>18, <2>19, <2>20, <2>21, <2>22 DEF ProcessMessage
  <1> QED
    BY <1>1, <1>2, <1>3 DEF Hands

LEMMA FlowQueueInit == Init => AtomicQueue!Init
  BY IdleTypes DEF Init, AtomicQueue!Init, Hands

LEMMA ClaimIsAtomic ==
    ASSUME FlowInv, NEW w \in Workers, NEW m \in Messages, ClaimTask(w, m)
    PROVE  AtomicQueue!Claim(w, m)
  <1> DEFINE next == [IdleWorker EXCEPT !.pc = "load", !.message = m]
  <1>1. /\ worker[w].pc = "idle" /\ worker' = [worker EXCEPT ![w] = next]
        /\ task' = [task EXCEPT ![m] = "processing"] /\ UNCHANGED attempts
        /\ task[m] = "pending" \/ (task[m] = "processing" /\ ~Held(m))
    BY DEF ClaimTask, Step
  <1>2. next.pc = "load" /\ next.message = m
    BY DEF IdleWorker
  <1>3. AtomicQueue!Free(m)
    <2>1. ASSUME NEW v \in Workers PROVE m \notin Hands[v]
      <3>1. worker[v].pc # "idle" => task[worker[v].message] = "processing"
        BY DEF FlowInv, HolderInv
      <3>2. worker[v].pc # "idle" => worker[v].message # m
        BY <1>1, <3>1 DEF Held
      <3> QED
        BY <3>2 DEF Hands
    <2> QED
      BY <2>1 DEF AtomicQueue!Free
  <1>4. Hands[w] = {} /\ Hands' = [Hands EXCEPT ![w] = {m}]
    <2>1. Hands[w] = {}
      BY <1>1 DEF Hands
    <2>2. Hands' = [Hands EXCEPT ![w] = IF next.pc = "idle" THEN {} ELSE {next.message}]
      BY <1>1, HandOf DEF FlowInv
    <2> HIDE DEF next
    <2> QED
      BY <1>2, <2>1, <2>2
  <1> QED
    BY <1>1, <1>3, <1>4 DEF AtomicQueue!Claim

LEMMA SettlingIsAtomic ==
    ASSUME FlowInv, NEW w \in Workers, CompleteTask(w) \/ FailTask(w) \/ Crash(w)
    PROVE  AtomicQueue!Next
  <1> DEFINE m == worker[w].message
  <1>1. worker[w].pc # "idle" /\ worker' = [worker EXCEPT ![w] = IdleWorker]
    BY DEF CompleteTask, FailTask, Crash, Step
  <1>2. m \in Messages /\ task \in [Messages -> {"none", "pending", "processing", "done", "dead"}]
        /\ attempts \in [Messages -> 0..MaxAttempts]
    BY <1>1 DEF FlowInv, TypeOK
  <1>3. m \in Hands[w] /\ Hands' = [Hands EXCEPT ![w] = {}]
    BY <1>1, IdleTypes, HandOf DEF Hands, FlowInv
  <1>4. CASE CompleteTask(w)
    <2>1. task' = [task EXCEPT ![m] = "done"] /\ UNCHANGED attempts
      BY <1>4 DEF CompleteTask
    <2>2. AtomicQueue!PutDown(w, m, "done", {})
      BY <1>2, <1>3, <2>1 DEF AtomicQueue!PutDown, AtomicQueue!Missing
    <2> QED
      BY <1>2, <2>1, <2>2 DEF AtomicQueue!Complete, AtomicQueue!Next
  <1>5. CASE FailTask(w)
    <2> DEFINE result == IF attempts'[m] < MaxAttempts THEN "pending" ELSE "dead"
    <2>1. /\ attempts' = [attempts EXCEPT ![m] = @ + 1]
          /\ task' = [task EXCEPT ![m] = result]
      BY <1>5 DEF FailTask
    <2>2. AtomicQueue!PutDown(w, m, result, {})
      BY <1>2, <1>3, <2>1 DEF AtomicQueue!PutDown, AtomicQueue!Missing
    <2>3. AtomicQueue!Fail(w, m)
      BY <2>1, <2>2 DEF AtomicQueue!Fail
    <2> QED
      BY <1>2, <2>3 DEF AtomicQueue!Next
  <1>6. CASE Crash(w)
    BY <1>3, <1>6 DEF Crash, AtomicQueue!Lose, AtomicQueue!Next
  <1> QED
    BY <1>4, <1>5, <1>6

LEMMA ArrivalIsAtomic ==
    ASSUME FlowInv, NEW m \in Messages, Ingest(m) \/ ReplayTask(m)
    PROVE  AtomicQueue!Next
  <1>1. task \in [Messages -> {"none", "pending", "processing", "done", "dead"}]
    BY DEF FlowInv, TypeOK
  <1>2. CASE Ingest(m)
    <2>1. task[m] = "none" /\ task' = [task EXCEPT ![m] = "pending"]
          /\ UNCHANGED <<attempts, worker>>
      BY <1>2 DEF Ingest, FlowInv, QueueInv
    <2>2. AtomicQueue!Add({m})
      BY <1>1, <2>1 DEF AtomicQueue!Add, AtomicQueue!Missing, Hands
    <2> QED
      BY <2>2 DEF AtomicQueue!Next
  <1>3. CASE ReplayTask(m)
    <2>1. /\ task[m] = "dead" /\ task' = [task EXCEPT ![m] = "pending"]
          /\ attempts' = [attempts EXCEPT ![m] = 0] /\ UNCHANGED worker
      BY <1>3 DEF ReplayTask
    <2>2. AtomicQueue!StartOver(m)
      BY <2>1 DEF AtomicQueue!StartOver, Hands
    <2> QED
      BY <2>2 DEF AtomicQueue!Next
  <1> QED
    BY <1>2, <1>3

LEMMA FlowQueueStep == FlowInv /\ [Next]_vars => [AtomicQueue!Next]_<<task, attempts, Hands>>
  <1> SUFFICES ASSUME FlowInv, [Next]_vars PROVE [AtomicQueue!Next]_<<task, attempts, Hands>>
    OBVIOUS
  <1>1. CASE UNCHANGED vars
    BY <1>1 DEF vars, Hands
  <1>2. ASSUME NEW w \in Workers, NEW m \in Messages, ClaimTask(w, m) PROVE AtomicQueue!Next
    BY <1>2, ClaimIsAtomic DEF AtomicQueue!Next
  <1>3. ASSUME NEW w \in Workers, ProcessMessage(w) PROVE UNCHANGED <<task, attempts, Hands>>
    BY <1>3, ProcessingKeepsTask
  <1> QED
    BY <1>1, <1>2, <1>3, SettlingIsAtomic, ArrivalIsAtomic DEF Next, Work

\* Whatever kinds of messages, merging, crashes and replays there are, process_message and the
\* loop around it use the outbox as a queue with atomic operations.
THEOREM FlowUsesQueue == Spec => FlowQueueSpec
  BY FlowQueueInit, FlowQueueStep, Invariance, PTL DEF Spec, FlowQueueSpec, AtomicQueue!Spec

-----------------------------------------------------------------------------
(***************************************************************************)
(* Conversations of one message each: no message is stranded.               *)
(***************************************************************************)

LEMMA ApartInit == Init => ApartInv
  <1> SUFFICES ASSUME Init PROVE ApartInv
    OBVIOUS
  <1>1. \A m \in Messages : row[m].status = "none" /\ row[m].merged = NoMessage
    BY DEF Init, NoRow
  <1>2. \A w \in Workers : worker[w].pc = "idle"
    BY DEF Init, IdleWorker
  <1> QED
    BY <1>1, <1>2 DEF ApartInv, Init

\* A step of a worker that keeps its message, or lets it go.
LEMMA ApartStep ==
    ASSUME FlowInv, ApartInv, NEW w \in Workers, worker[w].pc # "idle",
           NEW next, worker' = [worker EXCEPT ![w] = next],
           NEW r \in MessageRow, row' = [row EXCEPT ![worker[w].message] = r],
           \A m \in Messages \ {worker[w].message} : task'[m] = task[m],
           task'[worker[w].message] # "none",
           task'[worker[w].message] \in {"done", "dead"} => r.status \notin Unfinished,
           r.merged = NoMessage,
           next.pc # "idle" => /\ next.message = worker[w].message
                               /\ Undisturbed(next, r)
    PROVE  ApartInv'
  <1> DEFINE m == worker[w].message
  <1>1. /\ m \in Messages
        /\ \A v \in Workers \ {w} : worker[v].pc # "idle" => worker[v].message \in Messages \ {m}
    BY Holder
  <1>2. /\ worker'[w] = next /\ \A v \in Workers \ {w} : worker'[v] = worker[v]
        /\ row'[m] = r /\ \A n \in Messages \ {m} : row'[n] = row[n]
    BY <1>1 DEF FlowInv, TypeOK
  <1> HIDE DEF m
  <1>3. ASSUME NEW n \in Messages
        PROVE  /\ row'[n].merged = NoMessage
               /\ task'[n] = "none" => row'[n].status = "none"
               /\ task'[n] \in {"done", "dead"} => row'[n].status \notin Unfinished
    <2>1. CASE n = m
      BY <1>2, <2>1 DEF m
    <2>2. CASE n # m
      <3>1. row'[n] = row[n] /\ task'[n] = task[n]
        BY <1>2, <2>2 DEF m
      <3> QED
        BY <3>1 DEF ApartInv
    <2> QED
      BY <2>1, <2>2
  <1>4. ASSUME NEW v \in Workers, worker'[v].pc # "idle"
        PROVE  /\ Undisturbed(worker'[v], row'[worker'[v].message])
    <2>1. CASE v = w
      BY <1>2, <1>4, <2>1 DEF m
    <2>2. CASE v # w
      <3>1. /\ worker'[v] = worker[v] /\ worker[v].message \in Messages \ {m}
            /\ row'[worker[v].message] = row[worker[v].message]
        BY <1>1, <1>2, <1>4, <2>2 DEF m
      <3> QED
        BY <1>4, <3>1 DEF ApartInv
    <2> QED
      BY <2>1, <2>2
  <1>5. ApartInv' <=> /\ \A n \in Messages :
                            /\ row'[n].merged = NoMessage
                            /\ task'[n] = "none" => row'[n].status = "none"
                            /\ task'[n] \in {"done", "dead"} => row'[n].status \notin Unfinished
                      /\ \A v \in Workers : worker'[v].pc # "idle" =>
                            /\ Undisturbed(worker'[v], row'[worker'[v].message])
    BY DEF ApartInv, Undisturbed
  <1> QED
    BY <1>3, <1>4, <1>5


\* What the worker of a message knows, and what is to be shown where only the
\* row of the message and the worker change.
LEMMA ApartKnown ==
    ASSUME FlowInv, ApartInv, NEW w \in Workers, worker[w].pc # "idle"
    PROVE  /\ worker[w] \in WorkerState /\ worker[w].message \in Messages
           /\ row[worker[w].message] \in MessageRow
           /\ row[worker[w].message].merged = NoMessage
           /\ row = [row EXCEPT ![worker[w].message] = row[worker[w].message]]
           /\ Undisturbed(worker[w], row[worker[w].message])
  <1>1. worker[w].message \in Messages /\ row \in [Messages -> MessageRow]
    BY WorkerTypes
  <1> QED
    BY <1>1, WorkerTypes DEF ApartInv

LEMMA ApartMove ==
    ASSUME FlowInv, ApartInv, NEW w \in Workers, worker[w].pc # "idle",
           NEW next, worker' = [worker EXCEPT ![w] = next],
           NEW r \in MessageRow, row' = [row EXCEPT ![worker[w].message] = r],
           UNCHANGED task, r.merged = NoMessage,
           next.message = worker[w].message, Undisturbed(next, r)
    PROVE  ApartInv'
  <1>1. task'[worker[w].message] = "processing"
    BY Holder
  <1> QED
    BY <1>1, ApartStep

LEMMA ApartGoto ==
    ASSUME FlowInv, ApartInv, NEW w \in Workers, NEW from \in WorkerPc \ {"idle"},
           NEW to \in WorkerPc \ {"begin", "claim", "tag", "fence", "send", "finish"},
           Goto(w, from, to),
           NEW r \in MessageRow, row' = [row EXCEPT ![worker[w].message] = r],
           UNCHANGED task, r.merged = NoMessage,
           to \in {"release", "releasing"} => r.status = "sent",
           to = "complete" => r.status \notin Unfinished
    PROVE  ApartInv'
  <1> DEFINE next == [worker[w] EXCEPT !.pc = to]
  <1>1. worker[w].pc # "idle" /\ worker' = [worker EXCEPT ![w] = next]
    BY DEF Goto, Step
  <1>2. /\ next.pc = to /\ next.message = worker[w].message
        /\ next.siblings = worker[w].siblings /\ next.changed = worker[w].changed
        /\ next.seen = worker[w].seen
    BY <1>1, ApartKnown DEF WorkerState
  <1> HIDE DEF next
  <1>3. Undisturbed(next, r)
    BY <1>1, <1>2, ApartKnown DEF Undisturbed
  <1> QED
    BY <1>1, <1>2, <1>3, ApartMove

LEMMA ApartBegin ==
    ASSUME FlowInv, ApartInv, NEW w \in Workers,
           LoadMessage(w) \/ FailEarly(w) \/ SkipSettled(w) \/ SkipMerged(w) \/ StartMessage(w)
    PROVE  ApartInv'
  <1> DEFINE m == worker[w].message
             r == row[m]
  <1>1. CASE LoadMessage(w)
    <2> DEFINE next == [worker[w] EXCEPT !.pc = "begin", !.seen = r]
    <2>1. /\ worker[w].pc = "load" /\ worker' = [worker EXCEPT ![w] = next]
          /\ UNCHANGED <<row, task>>
      BY <1>1 DEF LoadMessage, Step
    <2>2. /\ next.pc = "begin" /\ next.message = m /\ next.seen = r
          /\ next.siblings = worker[w].siblings /\ next.changed = worker[w].changed
      BY <2>1, ApartKnown DEF WorkerState
    <2> HIDE DEF next
    <2>3. Undisturbed(next, r)
      BY <2>1, <2>2, ApartKnown DEF Undisturbed
    <2> QED
      BY <2>1, <2>2, <2>3, ApartKnown, ApartMove
  <1>2. CASE FailEarly(w)
    <2>1. /\ Goto(w, "load", "fail") \/ Goto(w, "begin", "fail")
          /\ worker[w].pc # "idle" /\ UNCHANGED <<row, task>>
      BY <1>2 DEF FailEarly, Goto, Step
    <2> QED
      BY <2>1, ApartKnown, ApartGoto DEF WorkerPc
  <1>3. CASE SkipSettled(w)
    <2>1. /\ worker[w].pc = "begin" /\ Goto(w, "begin", "complete")
          /\ worker[w].seen.status \notin Unfinished /\ UNCHANGED <<row, task>>
      BY <1>3 DEF SkipSettled, Goto, Step
    <2>2. r.status \notin Unfinished
      BY <2>1, ApartKnown DEF Undisturbed
    <2> QED
      BY <2>1, <2>2, ApartKnown, ApartGoto DEF WorkerPc
  <1>4. CASE SkipMerged(w)
    <2>1. worker[w].pc = "begin" /\ worker[w].seen.merged # NoMessage
      BY <1>4 DEF SkipMerged, Goto, Step
    <2> QED
      BY <2>1, ApartKnown DEF Undisturbed
  <1>5. CASE StartMessage(w)
    <2> DEFINE seen == [worker[w].seen EXCEPT !.status = "processing"]
               next == [worker[w] EXCEPT !.pc = "start", !.seen = seen]
               status == IF worker[w].seen.status = "processing" THEN r.status ELSE "processing"
               new == [r EXCEPT !.status = status]
    <2>1. /\ worker[w].pc = "begin" /\ worker' = [worker EXCEPT ![w] = next]
          /\ row' = [row EXCEPT ![m] = new] /\ UNCHANGED task
      BY <1>5 DEF StartMessage, Step
    <2>2. seen.merged = worker[w].seen.merged
      BY <2>1, WorkerTypes DEF MessageRow
    <2>3. status = "processing"
      BY <2>1, ApartKnown DEF Undisturbed
    <2>4. new \in MessageRow /\ new.merged = r.merged /\ new.status = "processing"
      BY <2>1, <2>3, ApartKnown DEF MessageRow, Status, Unfinished
    <2> HIDE DEF new, status, seen
    <2>5. /\ next.pc = "start" /\ next.message = m /\ next.seen = seen
          /\ next.siblings = worker[w].siblings /\ next.changed = worker[w].changed
      BY <2>1, ApartKnown DEF WorkerState
    <2> HIDE DEF next
    <2>6. Undisturbed(next, new)
      BY <2>1, <2>2, <2>5, ApartKnown DEF Undisturbed
    <2> QED
      BY <2>1, <2>4, <2>5, <2>6, ApartKnown, ApartMove
  <1> QED
    BY <1>1, <1>2, <1>3, <1>4, <1>5

LEMMA ApartCompose ==
    ASSUME Apart, FlowInv, ApartInv, NEW w \in Workers,
           \/ IgnoreCommand(w) \/ AnswerCommand(w) \/ SelectSiblings(w)
           \/ ClaimSiblings(w) \/ TagSiblings(w) \/ AskModel(w)
    PROVE  ApartInv'
  <1> DEFINE m == worker[w].message
             r == row[m]
  <1>1. CASE IgnoreCommand(w)
    <2> DEFINE new == [r EXCEPT !.status = "ignored"]
    <2>1. /\ worker[w].pc = "start" /\ Goto(w, "start", "complete")
          /\ row' = [row EXCEPT ![m] = new] /\ UNCHANGED task
      BY <1>1 DEF IgnoreCommand, Goto, Step
    <2>2. new \in MessageRow /\ new.merged = r.merged /\ new.status = "ignored"
      BY <2>1, ApartKnown DEF MessageRow, Status
    <2> DEFINE next == [worker[w] EXCEPT !.pc = "complete"]
    <2>3. worker[w].pc # "idle" /\ worker' = [worker EXCEPT ![w] = next]
      BY <2>1 DEF Goto, Step
    <2>4. /\ next.pc = "complete" /\ next.message = m /\ next.seen = worker[w].seen
          /\ next.siblings = worker[w].siblings /\ next.changed = worker[w].changed
      BY <2>3, ApartKnown DEF WorkerState
    <2> HIDE DEF new, next
    <2>5. Undisturbed(next, new)
      BY <2>2, <2>3, <2>4, ApartKnown DEF Undisturbed, Unfinished
    <2> QED
      BY <2>1, <2>2, <2>3, <2>4, <2>5, ApartKnown, ApartMove
  <1>2. CASE AnswerCommand(w) \/ AskModel(w)
    <2>1. PICK context : /\ worker' = [worker EXCEPT ![w] =
                                          [worker[w] EXCEPT !.pc = "fence", !.context = context]]
      <3>1. CASE AnswerCommand(w)
        BY <3>1 DEF AnswerCommand, Step
      <3>2. CASE AskModel(w)
        BY <3>2, ApartKnown DEF AskModel
      <3> QED
        BY <1>2, <3>1, <3>2
    <2> DEFINE next == [worker[w] EXCEPT !.pc = "fence", !.context = context]
    <2>2. worker[w].pc # "idle" /\ UNCHANGED <<row, task>>
      BY <1>2 DEF AnswerCommand, AskModel, Step
    <2>3. /\ next.pc = "fence" /\ next.message = m /\ next.seen = worker[w].seen
          /\ next.siblings = worker[w].siblings /\ next.changed = worker[w].changed
          /\ next.context = context
      BY <2>2, ApartKnown DEF WorkerState
    <2>4. worker' = [worker EXCEPT ![w] = next]
      BY <2>1
    <2> HIDE DEF next
    <2>5. Undisturbed(next, r)
      BY <2>1, <2>2, <2>3, ApartKnown DEF Undisturbed
    <2> QED
      BY <2>2, <2>3, <2>4, <2>5, ApartKnown, ApartMove
  <1>3. CASE SelectSiblings(w)
    <2> DEFINE queued == {s \in Siblings(m) : row[s].status = "queued"}
               next == [worker[w] EXCEPT !.pc = IF queued = {} THEN "ask" ELSE "claim",
                                         !.siblings = queued]
    <2>1. /\ worker[w].pc = "start" /\ worker' = [worker EXCEPT ![w] = next]
          /\ UNCHANGED <<row, task>>
      BY <1>3 DEF SelectSiblings, Step
    <2>2. queued = {}
      BY <2>1, ApartKnown DEF Siblings, Apart
    <2> HIDE DEF queued
    <2>3. /\ next.pc = "ask" /\ next.message = m /\ next.seen = worker[w].seen
          /\ next.siblings = {} /\ next.changed = worker[w].changed
      BY <2>1, <2>2, ApartKnown DEF WorkerState
    <2> HIDE DEF next
    <2>4. Undisturbed(next, r)
      BY <2>1, <2>3, ApartKnown DEF Undisturbed
    <2> QED
      BY <2>1, <2>3, <2>4, ApartKnown, ApartMove
  <1>4. CASE ClaimSiblings(w) \/ TagSiblings(w)
    <2>1. worker[w].pc \in {"claim", "tag"}
      BY <1>4 DEF ClaimSiblings, TagSiblings, Step
    <2> QED
      BY <2>1, ApartKnown DEF Undisturbed
  <1> QED
    BY <1>1, <1>2, <1>3, <1>4

LEMMA ApartDeliver ==
    ASSUME FlowInv, ApartInv, NEW w \in Workers,
           RaiseFence(w) \/ RefuseToResend(w) \/ Deliver(w) \/ Finish(w)
    PROVE  ApartInv'
  <1> DEFINE m == worker[w].message
             r == row[m]
  <1>1. CASE RaiseFence(w)
    <2> DEFINE seen == [worker[w].seen EXCEPT !.dispatch = "started"]
               next == [worker[w] EXCEPT !.pc = "send", !.seen = seen]
               new == [r EXCEPT !.merged = NoMessage, !.dispatch = "started"]
    <2>1. /\ worker[w].pc = "fence" /\ worker' = [worker EXCEPT ![w] = next]
          /\ row' = [row EXCEPT ![m] = new] /\ UNCHANGED task
      BY <1>1 DEF RaiseFence, Step
    <2>2. seen.merged = worker[w].seen.merged
      BY <2>1, WorkerTypes DEF MessageRow
    <2>3. new \in MessageRow /\ new.merged = NoMessage /\ new.status = r.status
      BY <2>1, ApartKnown DEF MessageRow
    <2> HIDE DEF new, seen
    <2>4. /\ next.pc = "send" /\ next.message = m /\ next.seen = seen
          /\ next.siblings = worker[w].siblings /\ next.changed = worker[w].changed
          /\ next.context = worker[w].context
      BY <2>1, ApartKnown DEF WorkerState
    <2> HIDE DEF next
    <2>5. Undisturbed(next, new)
      BY <2>1, <2>2, <2>4, ApartKnown DEF Undisturbed
    <2> QED
      BY <2>1, <2>3, <2>4, <2>5, ApartKnown, ApartMove
  <1>2. CASE RefuseToResend(w)
    <2>1. /\ worker[w].pc # "idle" /\ Goto(w, "fence", "abort") /\ UNCHANGED <<row, task>>
      BY <1>2 DEF RefuseToResend, Goto, Step
    <2> QED
      BY <2>1, ApartKnown, ApartGoto DEF WorkerPc
  <1>3. CASE Deliver(w)
    <2>1. PICK to \in {"finish", "abort"} : Goto(w, "send", to)
      BY <1>3 DEF Deliver
    <2> DEFINE next == [worker[w] EXCEPT !.pc = to]
    <2>2. /\ worker[w].pc = "send" /\ worker' = [worker EXCEPT ![w] = next]
          /\ UNCHANGED <<row, task>>
      BY <1>3, <2>1 DEF Deliver, Goto, Step
    <2>3. /\ next.pc = to /\ next.message = m /\ next.seen = worker[w].seen
          /\ next.siblings = worker[w].siblings /\ next.changed = worker[w].changed
      BY <2>2, ApartKnown DEF WorkerState
    <2> HIDE DEF next
    <2>4. Undisturbed(next, r)
      BY <2>1, <2>2, <2>3, ApartKnown DEF Undisturbed
    <2> QED
      BY <2>2, <2>3, <2>4, ApartKnown, ApartMove
  <1>4. CASE Finish(w)
    <2> DEFINE to == IF kind[m] = "special" THEN "complete" ELSE "release"
               seen == [worker[w].seen EXCEPT !.status = "sent"]
               next == [worker[w] EXCEPT !.pc = to, !.seen = seen]
               new == [r EXCEPT !.status = "sent"]
    <2>1. /\ worker[w].pc = "finish" /\ worker' = [worker EXCEPT ![w] = next]
          /\ row' = [row EXCEPT ![m] = new] /\ UNCHANGED task
      BY <1>4 DEF Finish, Step
    <2>2. seen.merged = worker[w].seen.merged /\ to \in {"complete", "release"}
      BY <2>1, WorkerTypes DEF MessageRow
    <2>3. new \in MessageRow /\ new.merged = NoMessage /\ new.status = "sent"
      BY <2>1, ApartKnown DEF MessageRow, Status
    <2> HIDE DEF new, seen, to
    <2>4. /\ next.pc = to /\ next.message = m /\ next.seen = seen
          /\ next.siblings = worker[w].siblings /\ next.changed = worker[w].changed
      BY <2>1, ApartKnown DEF WorkerState
    <2> HIDE DEF next
    <2>5. Undisturbed(next, new)
      BY <2>1, <2>2, <2>3, <2>4, ApartKnown DEF Undisturbed, Unfinished
    <2> QED
      BY <2>1, <2>2, <2>3, <2>4, <2>5, ApartKnown, ApartMove
  <1> QED
    BY <1>1, <1>2, <1>3, <1>4

\* There is nothing to release and nothing to restore.
LEMMA ApartEnd ==
    ASSUME Apart, FlowInv, ApartInv, NEW w \in Workers,
           \/ SelectProcessing(w) \/ ReleaseMerged(w)
           \/ Raise(w) \/ Abort(w) \/ SelectMerged(w) \/ RestoreMerged(w)
    PROVE  ApartInv'
  <1> DEFINE m == worker[w].message
             r == row[m]
  <1>1. CASE SelectProcessing(w) \/ SelectMerged(w)
    <2>1. PICK to \in {"releasing", "restoring"}, none \in SUBSET Messages :
             /\ worker' = [worker EXCEPT ![w] = [worker[w] EXCEPT !.pc = to, !.siblings = none]]
             /\ none = {}
             /\ to = "releasing" => worker[w].pc = "release"
      <3>1. CASE SelectProcessing(w)
        <4>1. {s \in Siblings(m) : row[s].status = "processing"} = {}
          BY <3>1, ApartKnown DEF SelectProcessing, Step, Siblings, Apart
        <4> QED
          BY <3>1, <4>1 DEF SelectProcessing, Step
      <3>2. CASE SelectMerged(w)
        <4>1. worker[w].pc = "restore" /\ m \in Messages
          BY <3>2, WorkerTypes DEF SelectMerged, Step
        <4>2. {s \in Messages : row[s].merged = m} = {}
          BY <4>1, FlowAssumption DEF ApartInv
        <4> QED
          BY <3>2, <4>2 DEF SelectMerged, Step
      <3> QED
        BY <1>1, <3>1, <3>2
    <2> DEFINE next == [worker[w] EXCEPT !.pc = to, !.siblings = none]
    <2>2. worker[w].pc # "idle" /\ UNCHANGED <<row, task>>
      BY <1>1 DEF SelectProcessing, SelectMerged, Step
    <2>3. /\ next.pc = to /\ next.message = m /\ next.seen = worker[w].seen
          /\ next.siblings = {} /\ next.changed = worker[w].changed
      BY <2>1, <2>2, ApartKnown DEF WorkerState
    <2>4. worker' = [worker EXCEPT ![w] = next]
      BY <2>1
    <2> HIDE DEF next
    <2>5. Undisturbed(next, r)
      BY <2>1, <2>2, <2>3, ApartKnown DEF Undisturbed
    <2> QED
      BY <2>1, <2>2, <2>3, <2>4, <2>5, ApartKnown, ApartMove
  <1>2. CASE ReleaseMerged(w) \/ RestoreMerged(w)
    <2>1. PICK to \in {"complete", "fail"} :
             /\ worker' = [worker EXCEPT ![w] = [worker[w] EXCEPT !.pc = to, !.siblings = {}]]
             /\ to = "complete" => worker[w].pc = "releasing"
      BY <1>2 DEF ReleaseMerged, RestoreMerged, Step
    <2> DEFINE next == [worker[w] EXCEPT !.pc = to, !.siblings = {}]
    <2>2. worker[w].pc # "idle" /\ UNCHANGED task
      BY <1>2 DEF ReleaseMerged, RestoreMerged, Step
    <2>3. row' = row
      <3>1. worker[w].siblings = {} /\ row \in [Messages -> MessageRow]
        BY <2>2, ApartKnown DEF Undisturbed, FlowInv, TypeOK
      <3>2. row' = [s \in Messages |-> row[s]]
        BY <1>2, <3>1 DEF ReleaseMerged, RestoreMerged
      <3> QED
        BY <3>1, <3>2
    <2>4. /\ next.pc = to /\ next.message = m /\ next.seen = worker[w].seen
          /\ next.siblings = {} /\ next.changed = worker[w].changed
      BY <2>1, <2>2, ApartKnown DEF WorkerState
    <2>5. worker' = [worker EXCEPT ![w] = next]
      BY <2>1
    <2> HIDE DEF next
    <2>6. Undisturbed(next, r)
      BY <2>1, <2>2, <2>4, ApartKnown DEF Undisturbed, Unfinished
    <2> QED
      BY <2>1, <2>2, <2>3, <2>4, <2>5, <2>6, ApartKnown, ApartMove
  <1>3. CASE Raise(w)
    <2> DEFINE next == [worker[w] EXCEPT !.pc = "abort", !.siblings = {}, !.changed = {}]
    <2>1. /\ worker[w].pc # "idle" /\ worker' = [worker EXCEPT ![w] = next]
          /\ UNCHANGED <<row, task>>
      BY <1>3 DEF Raise
    <2>2. /\ next.pc = "abort" /\ next.message = m /\ next.seen = worker[w].seen
          /\ next.siblings = {} /\ next.changed = {}
      BY <2>1, ApartKnown DEF WorkerState
    <2> HIDE DEF next
    <2>3. Undisturbed(next, r)
      BY <2>1, <2>2, ApartKnown DEF Undisturbed
    <2> QED
      BY <2>1, <2>2, <2>3, ApartKnown, ApartMove
  <1>4. CASE Abort(w)
    <2> DEFINE status == IF r.status = "sent" THEN r.status ELSE "failed"
               new == [r EXCEPT !.status = status]
    <2>1. /\ worker[w].pc # "idle" /\ Goto(w, "abort", "restore")
          /\ row' = [row EXCEPT ![m] = new] /\ UNCHANGED task
      BY <1>4 DEF Abort, Goto, Step
    <2>2. /\ new \in MessageRow /\ new.merged = r.merged
          /\ new.status = "sent" => r.status = "sent"
      BY <2>1, ApartKnown DEF MessageRow, Status, Unfinished
    <2> DEFINE next == [worker[w] EXCEPT !.pc = "restore"]
    <2>3. worker[w].pc # "idle" /\ worker' = [worker EXCEPT ![w] = next]
      BY <2>1 DEF Goto, Step
    <2>4. /\ next.pc = "restore" /\ next.message = m /\ next.seen = worker[w].seen
          /\ next.siblings = worker[w].siblings /\ next.changed = worker[w].changed
      BY <2>3, ApartKnown DEF WorkerState
    <2> HIDE DEF new, next
    <2>5. Undisturbed(next, new)
      BY <2>2, <2>3, <2>4, ApartKnown DEF Undisturbed, Unfinished
    <2> QED
      BY <2>1, <2>2, <2>3, <2>4, <2>5, ApartKnown, ApartMove
  <1> QED
    BY <1>1, <1>2, <1>3, <1>4


LEMMA ApartSettle ==
    ASSUME FlowInv, ApartInv, NEW w \in Workers, CompleteTask(w) \/ FailTask(w) \/ Crash(w)
    PROVE  ApartInv'
  <1> DEFINE m == worker[w].message
             r == row[m]
  <1>0. /\ worker[w].pc # "idle" /\ worker' = [worker EXCEPT ![w] = IdleWorker]
        /\ IdleWorker.pc = "idle"
    BY IdleTypes DEF CompleteTask, FailTask, Crash, Step
  <1>1. m \in Messages /\ task[m] = "processing"
        /\ task \in [Messages -> {"none", "pending", "processing", "done", "dead"}]
    BY <1>0, Holder DEF FlowInv, TypeOK
  <1>2. CASE CompleteTask(w)
    <2>1. /\ worker[w].pc = "complete" /\ task' = [task EXCEPT ![m] = "done"] /\ row' = row
      BY <1>2 DEF CompleteTask, Step
    <2>2. task'[m] = "done" /\ \A n \in Messages \ {m} : task'[n] = task[n]
      BY <1>1, <2>1
    <2>3. r.status \notin Unfinished
      BY <2>1, ApartKnown DEF Undisturbed
    <2> QED
      BY <1>0, <2>1, <2>2, <2>3, ApartKnown, ApartStep
  <1>3. CASE FailTask(w)
    <2>1. PICK to \in {"pending", "dead"} :
             /\ task' = [task EXCEPT ![m] = to]
             /\ to = "pending" => row' = row
             /\ to = "dead" => row' = [row EXCEPT ![m].status = "dead"]
      BY <1>3 DEF FailTask
    <2>2. task'[m] = to /\ \A n \in Messages \ {m} : task'[n] = task[n]
      BY <1>1, <2>1
    <2>3. CASE to = "pending"
      <3>1. row' = [row EXCEPT ![m] = r] /\ r \in MessageRow
            /\ r.merged = NoMessage
        BY <1>0, <2>1, <2>3, ApartKnown
      <3> QED
        BY <1>0, <2>2, <2>3, <3>1, ApartStep
    <2>4. CASE to = "dead"
      <3> DEFINE new == [r EXCEPT !.status = "dead"]
      <3>1. row' = [row EXCEPT ![m] = new]
        BY <2>1, <2>4
      <3>2. new \in MessageRow /\ new.merged = r.merged /\ new.status = "dead"
        BY <1>0, ApartKnown DEF MessageRow, Status
      <3> HIDE DEF new
      <3> QED
        BY <1>0, <2>2, <2>4, <3>1, <3>2, ApartKnown, ApartStep DEF Unfinished
    <2> QED
      BY <2>3, <2>4
  <1>4. CASE Crash(w)
    <2>1. row' = row /\ task' = task
      BY <1>4 DEF Crash
    <2> QED
      BY <1>0, <1>1, <2>1, ApartKnown, ApartStep
  <1> QED
    BY <1>2, <1>3, <1>4

\* The steps of the queue that concern the row of a message which no worker has.
LEMMA ApartQueue ==
    ASSUME FlowInv, ApartInv, NEW m \in Messages,
           \A v \in Workers : worker[v].pc # "idle" => worker[v].message \in Messages \ {m},
           \A n \in Messages \ {m} : row'[n] = row[n] /\ task'[n] = task[n],
           row'[m].merged = NoMessage,
           task'[m] \in {"pending", "processing"},
           \A v \in Workers : \/ worker'[v] = worker[v]
                              \/ /\ worker'[v].pc = "load"
                                 /\ worker'[v].siblings = {} /\ worker'[v].changed = {}
                                 /\ worker'[v].seen.merged = NoMessage
    PROVE  ApartInv'
  <1>1. ASSUME NEW n \in Messages
        PROVE  /\ row'[n].merged = NoMessage
               /\ task'[n] = "none" => row'[n].status = "none"
               /\ task'[n] \in {"done", "dead"} => row'[n].status \notin Unfinished
    BY <1>1 DEF ApartInv
  <1>2. ASSUME NEW v \in Workers, worker'[v].pc # "idle"
        PROVE  /\ Undisturbed(worker'[v], row'[worker'[v].message])
    <2>1. CASE worker'[v] = worker[v]
      <3>1. row'[worker[v].message] = row[worker[v].message]
        BY <1>2, <2>1
      <3> QED
        BY <1>2, <2>1, <3>1 DEF ApartInv
    <2>2. CASE worker'[v].pc = "load" /\ worker'[v].siblings = {} /\ worker'[v].changed = {}
               /\ worker'[v].seen.merged = NoMessage
      BY <2>2 DEF Undisturbed
    <2> QED
      BY <2>1, <2>2
  <1>3. ApartInv' <=> /\ \A n \in Messages :
                            /\ row'[n].merged = NoMessage
                            /\ task'[n] = "none" => row'[n].status = "none"
                            /\ task'[n] \in {"done", "dead"} => row'[n].status \notin Unfinished
                      /\ \A v \in Workers : worker'[v].pc # "idle" =>
                            /\ Undisturbed(worker'[v], row'[worker'[v].message])
    BY DEF ApartInv, Undisturbed
  <1> QED
    BY <1>1, <1>2, <1>3

LEMMA ApartArrive ==
    ASSUME FlowInv, ApartInv, NEW m \in Messages,
           \/ Ingest(m) \/ ReplayTask(m) \/ \E w \in Workers : ClaimTask(w, m)
    PROVE  ApartInv'
  <1>0. /\ row \in [Messages -> MessageRow] /\ row[m].merged = NoMessage
        /\ task \in [Messages -> {"none", "pending", "processing", "done", "dead"}]
        /\ worker \in [Workers -> WorkerState]
    BY DEF FlowInv, TypeOK, ApartInv
  <1>1. CASE Ingest(m) \/ ReplayTask(m)
    <2>1. \/ row' = [row EXCEPT ![m].status = "queued"]
          \/ row' = [row EXCEPT ![m].status = IF row[m].status = "dead" THEN "failed"
                                              ELSE row[m].status]
      BY <1>1 DEF Ingest, ReplayTask
    <2>2. /\ task[m] \in {"none", "dead"} /\ task' = [task EXCEPT ![m] = "pending"]
          /\ UNCHANGED worker
      BY <1>1 DEF Ingest, ReplayTask, FlowInv, QueueInv
    <2>3. \A v \in Workers : worker[v].pc # "idle" => worker[v].message \in Messages \ {m}
      BY <2>2, Holder
    <2>4. /\ row'[m].merged = NoMessage
          /\ \A n \in Messages \ {m} : row'[n] = row[n]
      BY <1>0, <2>1 DEF MessageRow
    <2>5. task'[m] = "pending" /\ \A n \in Messages \ {m} : task'[n] = task[n]
      BY <1>0, <2>2
    <2> QED
      BY <1>0, <2>1, <2>2, <2>3, <2>4, <2>5, ApartQueue
  <1>2. ASSUME NEW w \in Workers, ClaimTask(w, m) PROVE ApartInv'
    <2> DEFINE next == [IdleWorker EXCEPT !.pc = "load", !.message = m]
    <2>1. /\ worker[w].pc = "idle" /\ worker' = [worker EXCEPT ![w] = next]
          /\ task' = [task EXCEPT ![m] = "processing"]
          /\ task[m] = "pending" \/ (task[m] = "processing" /\ ~Held(m))
          /\ UNCHANGED row
      BY <1>2 DEF ClaimTask, Step
    <2>2. /\ next.pc = "load" /\ next.siblings = {} /\ next.changed = {}
          /\ next.seen.merged = NoMessage
      BY DEF IdleWorker, NoRow
    <2> HIDE DEF next
    <2>3. \A v \in Workers : worker[v].pc # "idle" => worker[v].message \in Messages \ {m}
      BY <2>1 DEF Held, FlowInv, HolderInv, TypeOK
    <2>4. task'[m] = "processing" /\ \A n \in Messages \ {m} : task'[n] = task[n]
      BY <1>0, <2>1
    <2>5. worker'[w] = next /\ \A v \in Workers \ {w} : worker'[v] = worker[v]
      BY <1>0, <2>1
    <2> QED
      BY <1>0, <2>1, <2>2, <2>3, <2>4, <2>5, ApartQueue
  <1> QED
    BY <1>1, <1>2

LEMMA ApartNext ==
    ASSUME Apart, FlowInv, ApartInv, [Next]_vars
    PROVE  ApartInv'
  <1>1. CASE UNCHANGED vars
    BY <1>1 DEF vars, ApartInv, Undisturbed
  <1>2. ASSUME NEW w \in Workers, ProcessMessage(w) PROVE ApartInv'
    BY <1>2, ApartBegin, ApartCompose, ApartDeliver, ApartEnd DEF ProcessMessage
  <1>3. ASSUME NEW w \in Workers, Work(w) \/ Crash(w) PROVE ApartInv'
    BY <1>2, <1>3, ApartArrive, ApartSettle DEF Work
  <1>4. ASSUME NEW m \in Messages, Ingest(m) \/ ReplayTask(m) PROVE ApartInv'
    BY <1>4, ApartArrive
  <1> QED
    BY <1>1, <1>3, <1>4 DEF Next

LEMMA ApartInvariance ==
    ASSUME Apart
    PROVE  Spec => []ApartInv
  <1>1. FlowInv /\ ApartInv /\ [Next]_vars => ApartInv'
    BY ApartNext
  <1> QED
    BY <1>1, ApartInit, Invariance, PTL DEF Spec

\* There, a message that is queued, failed or in processing has a task that will
\* take it up: every path out of process_message settles it or fails the task.
THEOREM NobodyIsStranded ==
    ASSUME Apart
    PROVE  Spec => []NoStrandedMessage
  <1>1. ASSUME FlowInv, ApartInv PROVE NoStrandedMessage
    <2> SUFFICES ASSUME NEW m \in Messages, row[m].status \in Unfinished PROVE Live(m)
      BY DEF NoStrandedMessage
    <2>1. task[m] \in {"none", "pending", "processing", "done", "dead"}
      BY <1>1 DEF FlowInv, TypeOK
    <2> QED
      BY <1>1, <2>1 DEF ApartInv, Live, Unfinished
  <1> QED
    BY <1>1, ApartInvariance, Invariance, PTL

-----------------------------------------------------------------------------
(***************************************************************************)
(* What counts as sent is accounted for, whatever is merged with what.     *)
(***************************************************************************)

LEMMA AccountInit == Init => AccountInv
  <1> SUFFICES ASSUME Init PROVE AccountInv
    OBVIOUS
  <1>1. /\ \A m \in Messages : row[m].status = "none"
        /\ \A w \in Workers : worker[w].pc = "idle"
    BY DEF Init, NoRow, IdleWorker
  <1> QED
    BY <1>1 DEF AccountInv, SentIsAccountedFor

\* A step of worker w: what comes to count as sent has been taken up, or is the
\* message of w and merged; and only w makes its message one that is not merged.
LEMMA AccountStep ==
    ASSUME FlowInv, AccountInv, NEW w \in Workers,
           \A v \in Workers \ {w} : worker'[v] = worker[v],
           answered \subseteq answered', confirmed \subseteq confirmed',
           \A n \in Messages : row'[n].status = "sent" =>
              \/ row[n].status = "sent" \/ TakenUp(n)'
              \/ row'[n].merged # NoMessage /\ worker[w].pc # "idle" /\ worker[w].message = n,
           \A n \in Messages : row[n].merged # NoMessage =>
              \/ row'[n].merged # NoMessage
              \/ /\ worker[w].pc # "idle" /\ worker[w].message = n
                 /\ row'[n].status = "sent" => TakenUp(n)',
           worker'[w].pc # "idle" => Accounts(worker[w], worker[w].message)'
    PROVE  AccountInv'
  <1>1. \A n \in Messages : TakenUp(n) => TakenUp(n)'
    BY DEF TakenUp, Siblings
  <1>2. SentIsAccountedFor'
    <2> SUFFICES ASSUME NEW n \in Messages, row'[n].status = "sent"
                 PROVE  TakenUp(n)' \/ row'[n].merged # NoMessage
      BY DEF SentIsAccountedFor, TakenUp, Siblings
    <2>1. row[n].status = "sent" => TakenUp(n) \/ row[n].merged # NoMessage
      BY DEF AccountInv, SentIsAccountedFor, TakenUp
    <2> QED
      BY <1>1, <2>1
  <1>3. ASSUME NEW v \in Workers, worker'[v].pc # "idle"
        PROVE  Accounts(worker[v], worker[v].message)'
    <2>1. CASE v = w
      BY <1>3, <2>1
    <2>2. CASE v # w
      <3> DEFINE n == worker[v].message
      <3>1. worker'[v] = worker[v] /\ worker[v].pc # "idle" /\ n \in Messages
        BY <1>3, <2>2 DEF FlowInv, TypeOK
      <3>2. ~(worker[w].pc # "idle" /\ worker[w].message = n)
        BY <2>2, <3>1 DEF FlowInv, HolderInv
      <3>3. Accounts(worker[v], n)
        BY <3>1 DEF AccountInv
      <3>4. /\ row[n].merged # NoMessage => row'[n].merged # NoMessage
            /\ row'[n].status = "sent" => row[n].status = "sent" \/ TakenUp(n)'
        BY <3>1, <3>2
      <3>5. TakenUp(n) => TakenUp(n)'
        BY <1>1, <3>1
      <3> HIDE DEF n
      <3>6. worker[v].pc = "begin" /\ worker[v].seen.merged # NoMessage => row'[n].merged # NoMessage
        BY <3>3, <3>4 DEF Accounts
      <3>7. (\/ worker[v].pc = "begin" /\ worker[v].seen.status \in Unfinished
                                       /\ worker[v].seen.merged = NoMessage
             \/ worker[v].pc \in Preparing \cup {"send"})
            => (row'[n].status = "sent" => TakenUp(n)')
        BY <3>3, <3>4, <3>5 DEF Accounts
      <3>8. /\ worker[v].pc \in {"fence", "send"} => n \in worker[v].context
            /\ worker[v].pc = "finish" => n \in answered'
            /\ worker[v].pc \in {"release", "releasing"} => n \in confirmed'
            /\ worker[v].pc = "releasing" => worker[v].siblings \subseteq Siblings(n)
        BY <3>3 DEF Accounts
      <3>9. Accounts(worker[v], n)' <=>
              /\ worker'[v].pc = "begin" /\ worker'[v].seen.merged # NoMessage
                    => row'[n'].merged # NoMessage
              /\ \/ worker'[v].pc = "begin" /\ worker'[v].seen.status \in Unfinished
                                            /\ worker'[v].seen.merged = NoMessage
                 \/ worker'[v].pc \in Preparing \cup {"send"}
                 => (row'[n'].status = "sent" => TakenUp(n)')
              /\ worker'[v].pc \in {"fence", "send"} => n' \in worker'[v].context
              /\ worker'[v].pc = "finish" => n' \in answered'
              /\ worker'[v].pc \in {"release", "releasing"} => n' \in confirmed'
              /\ worker'[v].pc = "releasing" => worker'[v].siblings \subseteq Siblings(n')
        BY DEF Accounts, TakenUp, Siblings, Preparing, Unfinished
      <3> QED
        BY <3>1, <3>6, <3>7, <3>8, <3>9 DEF n
    <2> QED
      BY <2>1, <2>2
  <1> QED
    BY <1>2, <1>3 DEF AccountInv

\* A step of a worker by which no row comes to count as sent, and no row ceases to be
\* merged: what the worker must know of its message n and the row r.
LEMMA AccountMove ==
    ASSUME FlowInv, AccountInv, NEW w \in Workers, worker[w].pc # "idle",
           NEW next, worker' = [worker EXCEPT ![w] = next],
           next.message = worker[w].message,
           UNCHANGED <<answered, confirmed>>,
           \A n \in Messages : row'[n].status = "sent" => row[n].status = "sent",
           \A n \in Messages : row[n].merged # NoMessage => row'[n].merged # NoMessage,
           next.pc = "begin" => next.seen = row'[next.message],
           next.pc \in Preparing =>
              worker[w].pc \in Preparing \/ row'[next.message].status # "sent"
                                        \/ TakenUp(next.message),
           next.pc = "fence" => next.message \in next.context,
           next.pc \notin {"send", "finish", "release"},
           next.pc = "releasing" =>
              next.message \in confirmed /\ next.siblings \subseteq Siblings(next.message)
    PROVE  AccountInv'
  <1> DEFINE n == worker[w].message
  <1>1. /\ n \in Messages /\ worker'[w] = next
        /\ \A v \in Workers \ {w} : worker'[v] = worker[v]
        /\ Accounts(worker[w], n) /\ FlowInv
    BY WorkerTypes DEF FlowInv, TypeOK, AccountInv
  <1>2. TakenUp(n) => TakenUp(n)'
    BY <1>1 DEF TakenUp, Siblings
  <1>3. Accounts(worker[w], worker[w].message)'
    <2>1. next.pc \in Preparing => (row'[n].status = "sent" => TakenUp(n)')
      BY <1>1, <1>2 DEF Accounts
    <2>2. next.pc = "begin" => /\ next.seen.merged # NoMessage => row'[n].merged # NoMessage
                               /\ next.seen.status \in Unfinished => row'[n].status # "sent"
      BY <1>1 DEF Unfinished
    <2>3. worker'[w].message = n /\ worker'[w].pc = next.pc /\ worker'[w].seen = next.seen
          /\ worker'[w].context = next.context /\ worker'[w].siblings = next.siblings
      BY <1>1
    <2> HIDE DEF n
    <2>4. TakenUp(n)' => TakenUp(worker[w].message)'
      BY DEF n
    <2>5. /\ worker'[w].pc = "begin" /\ worker'[w].seen.merged # NoMessage
                => row'[worker'[w].message].merged # NoMessage
          /\ \/ worker'[w].pc = "begin" /\ worker'[w].seen.status \in Unfinished
                                        /\ worker'[w].seen.merged = NoMessage
             \/ worker'[w].pc \in Preparing \cup {"send"}
             => (row'[worker'[w].message].status = "sent" => TakenUp(worker[w].message)')
      BY <2>1, <2>2, <2>3, <2>4
    <2>6. /\ worker'[w].pc \in {"fence", "send"} => worker'[w].message \in worker'[w].context
          /\ worker'[w].pc \notin {"finish", "release"}
          /\ worker'[w].pc = "releasing" =>
                worker'[w].message \in confirmed' /\ worker'[w].siblings \subseteq Siblings(worker'[w].message)
      BY <1>1, <2>3
    <2> QED
      BY <2>5, <2>6 DEF Accounts, Siblings, Preparing, Unfinished
  <1> QED
    BY <1>1, <1>3, AccountStep

\* Rows of which only the status is changed, to another one than "sent".
LEMMA AccountGoto ==
    ASSUME FlowInv, AccountInv, NEW w \in Workers, NEW from \in WorkerPc \ {"idle"},
           NEW to \in WorkerPc \ ({"begin", "send", "finish", "release", "releasing"} \cup Preparing),
           Goto(w, from, to), UNCHANGED <<answered, confirmed>>,
           \A n \in Messages : /\ row'[n].status = "sent" => row[n].status = "sent"
                               /\ row'[n].merged = row[n].merged
    PROVE  AccountInv'
  <1> DEFINE next == [worker[w] EXCEPT !.pc = to]
  <1>1. worker[w].pc # "idle" /\ worker' = [worker EXCEPT ![w] = next]
    BY DEF Goto, Step
  <1>2. next.pc = to /\ next.message = worker[w].message
    BY <1>1, WorkerTypes DEF WorkerState
  <1> HIDE DEF next
  <1> QED
    BY <1>1, <1>2, AccountMove DEF Preparing

LEMMA AccountBegin ==
    ASSUME FlowInv, AccountInv, NEW w \in Workers,
           LoadMessage(w) \/ FailEarly(w) \/ SkipSettled(w) \/ SkipMerged(w) \/ StartMessage(w)
    PROVE  AccountInv'
  <1> DEFINE m == worker[w].message
             r == row[m]
  <1>1. CASE LoadMessage(w)
    <2> DEFINE next == [worker[w] EXCEPT !.pc = "begin", !.seen = r]
    <2>1. /\ worker[w].pc = "load" /\ worker' = [worker EXCEPT ![w] = next]
          /\ UNCHANGED <<row, answered, confirmed>>
      BY <1>1 DEF LoadMessage, Step
    <2>2. next.pc = "begin" /\ next.message = m /\ next.seen = r
      BY <2>1, WorkerTypes DEF WorkerState
    <2> HIDE DEF next
    <2> QED
      BY <2>1, <2>2, AccountMove DEF Preparing
  <1>2. CASE FailEarly(w) \/ SkipSettled(w)
    <2>1. /\ Goto(w, "load", "fail") \/ Goto(w, "begin", "fail") \/ Goto(w, "begin", "complete")
          /\ UNCHANGED <<row, answered, confirmed>>
      BY <1>2 DEF FailEarly, SkipSettled
    <2> QED
      BY <2>1, AccountGoto DEF WorkerPc, Preparing
  <1>3. CASE SkipMerged(w)
    <2> DEFINE next == [worker[w] EXCEPT !.pc = "complete"]
               new == [r EXCEPT !.status = "sent"]
    <2>1. /\ worker[w].pc = "begin" /\ worker[w].seen.merged # NoMessage
          /\ worker' = [worker EXCEPT ![w] = next]
          /\ row' = [row EXCEPT ![m] = new] /\ UNCHANGED <<answered, confirmed>>
      BY <1>3 DEF SkipMerged, Goto, Step
    <2>2. /\ next.pc = "complete" /\ new.merged = r.merged
          /\ worker' = [worker EXCEPT ![w] = next] /\ worker'[w] = next
          /\ \A v \in Workers \ {w} : worker'[v] = worker[v]
      BY <2>1, WorkerTypes DEF WorkerState, MessageRow, FlowInv, TypeOK
    <2>3. r.merged # NoMessage
      BY <2>1 DEF AccountInv, Accounts
    <2>4. m \in Messages /\ row'[m] = new /\ \A n \in Messages \ {m} : row'[n] = row[n]
      BY <2>1, WorkerTypes
    <2> HIDE DEF next, new
    <2>5. Accounts(worker[w], worker[w].message)'
      BY <2>2 DEF Accounts, Preparing
    <2> QED
      BY <2>1, <2>2, <2>3, <2>4, <2>5, AccountStep
  <1>4. CASE StartMessage(w)
    <2> DEFINE seen == [worker[w].seen EXCEPT !.status = "processing"]
               next == [worker[w] EXCEPT !.pc = "start", !.seen = seen]
               status == IF worker[w].seen.status = "processing" THEN r.status ELSE "processing"
               new == [r EXCEPT !.status = status]
    <2>1. /\ worker[w].pc = "begin" /\ worker' = [worker EXCEPT ![w] = next]
          /\ worker[w].seen.status \in Unfinished /\ worker[w].seen.merged = NoMessage
          /\ row' = [row EXCEPT ![m] = new] /\ UNCHANGED <<answered, confirmed>>
      BY <1>4 DEF StartMessage, Step
    <2>2. new.merged = r.merged /\ (new.status = "sent" => r.status = "sent")
      BY <2>1, WorkerTypes DEF MessageRow
    <2>3. next.pc = "start" /\ next.message = m
      BY <2>1, WorkerTypes DEF WorkerState
    <2>4. m \in Messages /\ row'[m] = new /\ \A n \in Messages \ {m} : row'[n] = row[n]
      BY <2>1, WorkerTypes
    <2>5. r.status = "sent" => TakenUp(m)
      BY <2>1 DEF AccountInv, Accounts
    <2> HIDE DEF next, new
    <2>6. row'[next.message].status # "sent" \/ TakenUp(next.message)
      BY <2>2, <2>3, <2>4, <2>5
    <2>7. \A n \in Messages : /\ row'[n].status = "sent" => row[n].status = "sent"
                              /\ row'[n].merged = row[n].merged
      BY <2>2, <2>4
    <2> QED
      BY <2>1, <2>3, <2>6, <2>7, AccountMove DEF Preparing
  <1> QED
    BY <1>1, <1>2, <1>3, <1>4

LEMMA AccountCompose ==
    ASSUME FlowInv, AccountInv, NEW w \in Workers,
           \/ IgnoreCommand(w) \/ AnswerCommand(w) \/ SelectSiblings(w)
           \/ ClaimSiblings(w) \/ TagSiblings(w) \/ AskModel(w)
    PROVE  AccountInv'
  <1> DEFINE m == worker[w].message
  <1>1. CASE IgnoreCommand(w)
    <2>1. /\ worker[w].pc = "start" /\ Goto(w, "start", "complete")
          /\ row' = [row EXCEPT ![m].status = "ignored"] /\ UNCHANGED <<answered, confirmed>>
      BY <1>1 DEF IgnoreCommand, Goto, Step
    <2>2. \A n \in Messages : /\ row'[n].status = "sent" => row[n].status = "sent"
                              /\ row'[n].merged = row[n].merged
      BY <2>1, WorkerTypes DEF MessageRow
    <2> QED
      BY <2>1, <2>2, AccountGoto DEF WorkerPc, Preparing
  <1>2. CASE AnswerCommand(w) \/ AskModel(w)
    <2>1. PICK context : /\ worker' = [worker EXCEPT ![w] =
                                          [worker[w] EXCEPT !.pc = "fence", !.context = context]]
                         /\ m \in context
      <3>1. CASE AnswerCommand(w)
        BY <3>1 DEF AnswerCommand, Step
      <3>2. CASE AskModel(w)
        <4>1. PICK history \in SUBSET {s \in Siblings(m) : row[s].status \in {"sent", "processing"}} :
                 worker' = [worker EXCEPT ![w].pc = "fence", ![w].context = {m} \cup history]
          BY <3>2 DEF AskModel
        <4>2. worker' = [worker EXCEPT ![w] =
                            [worker[w] EXCEPT !.pc = "fence", !.context = {m} \cup history]]
          BY <4>1 DEF FlowInv, TypeOK
        <4> QED
          BY <4>2
      <3> QED
        BY <1>2, <3>1, <3>2
    <2> DEFINE next == [worker[w] EXCEPT !.pc = "fence", !.context = context]
    <2>2. worker[w].pc \in {"start", "ask"} /\ UNCHANGED <<row, answered, confirmed>>
      BY <1>2 DEF AnswerCommand, AskModel, Step
    <2>3. next.pc = "fence" /\ next.message = m /\ next.context = context
      BY <2>2, WorkerTypes DEF WorkerState
    <2>4. worker' = [worker EXCEPT ![w] = next]
      BY <2>1
    <2> HIDE DEF next
    <2> QED
      BY <2>1, <2>2, <2>3, <2>4, AccountMove DEF Preparing
  <1>3. CASE SelectSiblings(w)
    <2>1. PICK to \in {"ask", "claim"}, queued \in SUBSET Messages :
             /\ worker[w].pc = "start"
             /\ worker' = [worker EXCEPT ![w] = [worker[w] EXCEPT !.pc = to, !.siblings = queued]]
             /\ UNCHANGED <<row, answered, confirmed>>
      BY <1>3 DEF SelectSiblings, Step, Siblings
    <2> DEFINE next == [worker[w] EXCEPT !.pc = to, !.siblings = queued]
    <2>2. next.pc = to /\ next.message = m
      BY <2>1, WorkerTypes DEF WorkerState
    <2> HIDE DEF next
    <2>3. worker' = [worker EXCEPT ![w] = next]
      BY <2>1 DEF next
    <2> QED
      BY <2>1, <2>2, <2>3, AccountMove DEF Preparing
  <1>4. CASE ClaimSiblings(w)
    <2>1. PICK taken, tags :
             /\ worker[w].pc = "claim"
             /\ worker' = [worker EXCEPT ![w] =
                              [worker[w] EXCEPT !.pc = "tag", !.changed = taken, !.tags = tags]]
             /\ UNCHANGED <<row, answered, confirmed>>
      BY <1>4 DEF ClaimSiblings, Step
    <2> DEFINE next == [worker[w] EXCEPT !.pc = "tag", !.changed = taken, !.tags = tags]
    <2>2. next.pc = "tag" /\ next.message = m
      BY <2>1, WorkerTypes DEF WorkerState
    <2> HIDE DEF next
    <2>3. worker' = [worker EXCEPT ![w] = next]
      BY <2>1 DEF next
    <2> QED
      BY <2>1, <2>2, <2>3, AccountMove DEF Preparing
  <1>5. CASE TagSiblings(w)
    <2> DEFINE next == [worker[w] EXCEPT !.pc = "ask", !.changed = {}, !.siblings = {},
                                         !.tags = IdleWorker.tags]
    <2>1. /\ worker[w].pc = "tag" /\ worker' = [worker EXCEPT ![w] = next]
          /\ UNCHANGED <<answered, confirmed>>
      BY <1>5 DEF TagSiblings, Step
    <2>2. next.pc = "ask" /\ next.message = m /\ m \in Messages
      BY <2>1, WorkerTypes DEF WorkerState
    <2>3. \A n \in Messages :
             /\ row'[n].status = "sent" => row[n].status = "sent"
             /\ row'[n].merged \in {m, row[n].merged}
      BY <1>5 DEF TagSiblings
    <2> HIDE DEF next
    <2>4. \A n \in Messages : row[n].merged # NoMessage => row'[n].merged # NoMessage
      BY <2>2, <2>3, FlowAssumption
    <2> QED
      BY <2>1, <2>2, <2>3, <2>4, AccountMove DEF Preparing
  <1> QED
    BY <1>1, <1>2, <1>3, <1>4, <1>5

LEMMA AccountDeliver ==
    ASSUME FlowInv, AccountInv, NEW w \in Workers,
           RaiseFence(w) \/ RefuseToResend(w) \/ Deliver(w) \/ Finish(w)
    PROVE  AccountInv'
  <1> DEFINE m == worker[w].message
             r == row[m]
  <1>1. CASE RaiseFence(w)
    <2> DEFINE seen == [worker[w].seen EXCEPT !.dispatch = "started"]
               next == [worker[w] EXCEPT !.pc = "send", !.seen = seen]
               new == [r EXCEPT !.merged = NoMessage, !.dispatch = "started"]
    <2>1. /\ worker[w].pc = "fence" /\ worker' = [worker EXCEPT ![w] = next]
          /\ row' = [row EXCEPT ![m] = new] /\ UNCHANGED <<answered, confirmed>>
      BY <1>1 DEF RaiseFence, Step
    <2>2. (r.status = "sent" => TakenUp(m)) /\ m \in worker[w].context
      BY <2>1 DEF AccountInv, Accounts, Preparing
    <2>3. /\ next.pc = "send" /\ next.message = m /\ next.context = worker[w].context
          /\ new.status = r.status
          /\ worker'[w] = next /\ \A v \in Workers \ {w} : worker'[v] = worker[v]
      BY <2>1, WorkerTypes DEF WorkerState, MessageRow, FlowInv, TypeOK
    <2>4. m \in Messages /\ row'[m] = new /\ \A n \in Messages \ {m} : row'[n] = row[n]
      BY <2>1, WorkerTypes
    <2>5. TakenUp(m) => TakenUp(worker[w].message)'
      BY <2>1, <2>3 DEF TakenUp, Siblings
    <2> HIDE DEF next, new
    <2>6. row'[worker'[w].message].status = "sent" => TakenUp(worker[w].message)'
      BY <2>2, <2>3, <2>4, <2>5
    <2>7. Accounts(worker[w], worker[w].message)'
      BY <2>2, <2>3, <2>6 DEF Accounts
    <2>8. \A n \in Messages : n = m /\ row'[n].status = "sent" => TakenUp(n)'
      BY <2>1, <2>2, <2>3, <2>4 DEF TakenUp, Siblings
    <2>9. \A n \in Messages : /\ row'[n].status = "sent" => row[n].status = "sent"
                              /\ n # m => row'[n].merged = row[n].merged
      BY <2>3, <2>4
    <2> QED
      BY <2>1, <2>3, <2>7, <2>8, <2>9, AccountStep
  <1>2. CASE RefuseToResend(w)
    BY <1>2, AccountGoto DEF RefuseToResend, WorkerPc, Preparing
  <1>3. CASE Deliver(w)
    <2>1. PICK to \in {"finish", "abort"} : Goto(w, "send", to)
      BY <1>3 DEF Deliver
    <2> DEFINE next == [worker[w] EXCEPT !.pc = to]
    <2>2. /\ worker[w].pc = "send" /\ worker' = [worker EXCEPT ![w] = next]
          /\ answered' = answered \cup worker[w].context /\ UNCHANGED <<row, confirmed>>
      BY <1>3, <2>1 DEF Deliver, Goto, Step
    <2>3. m \in worker[w].context
      BY <2>2 DEF AccountInv, Accounts
    <2>4. /\ next.pc = to /\ next.message = m
          /\ worker'[w] = next /\ \A v \in Workers \ {w} : worker'[v] = worker[v]
      BY <2>2, WorkerTypes DEF WorkerState, FlowInv, TypeOK
    <2> HIDE DEF next
    <2>5. Accounts(worker[w], worker[w].message)'
      BY <2>1, <2>2, <2>3, <2>4 DEF Accounts, Preparing
    <2> QED
      BY <2>2, <2>4, <2>5, AccountStep
  <1>4. CASE Finish(w)
    <2> DEFINE to == IF kind[m] = "special" THEN "complete" ELSE "release"
               seen == [worker[w].seen EXCEPT !.status = "sent"]
               next == [worker[w] EXCEPT !.pc = to, !.seen = seen]
               new == [r EXCEPT !.status = "sent"]
    <2>1. /\ worker[w].pc = "finish" /\ worker' = [worker EXCEPT ![w] = next]
          /\ row' = [row EXCEPT ![m] = new] /\ UNCHANGED answered
          /\ confirmed' = confirmed \cup {m}
      BY <1>4 DEF Finish, Step
    <2>2. m \in answered
      BY <2>1 DEF AccountInv, Accounts
    <2>3. /\ next.pc \in {"complete", "release"} /\ next.message = m
          /\ new.merged = r.merged
          /\ worker'[w] = next /\ \A v \in Workers \ {w} : worker'[v] = worker[v]
      BY <2>1, WorkerTypes DEF WorkerState, MessageRow, FlowInv, TypeOK
    <2>4. m \in Messages /\ row'[m] = new /\ \A n \in Messages \ {m} : row'[n] = row[n]
      BY <2>1, WorkerTypes
    <2> HIDE DEF next, new
    <2>5. Accounts(worker[w], worker[w].message)'
      BY <2>1, <2>3 DEF Accounts, Preparing
    <2>6. \A n \in Messages : n = m => TakenUp(n)'
      BY <2>1, <2>2 DEF TakenUp
    <2>7. \A n \in Messages : /\ row'[n].merged = row[n].merged
                              /\ row'[n].status = "sent" => row[n].status = "sent" \/ TakenUp(n)'
      BY <2>3, <2>4, <2>6
    <2> QED
      BY <2>1, <2>3, <2>5, <2>7, AccountStep
  <1> QED
    BY <1>1, <1>2, <1>3, <1>4

LEMMA AccountEnd ==
    ASSUME FlowInv, AccountInv, NEW w \in Workers,
           \/ SelectProcessing(w) \/ ReleaseMerged(w)
           \/ Raise(w) \/ Abort(w) \/ SelectMerged(w) \/ RestoreMerged(w)
    PROVE  AccountInv'
  <1> DEFINE m == worker[w].message
  <1>1. CASE SelectProcessing(w)
    <2> DEFINE released == {s \in Siblings(m) : row[s].status = "processing"}
               next == [worker[w] EXCEPT !.pc = "releasing", !.siblings = released]
    <2>1. /\ worker[w].pc = "release" /\ worker' = [worker EXCEPT ![w] = next]
          /\ UNCHANGED <<row, answered, confirmed>>
      BY <1>1 DEF SelectProcessing, Step
    <2>2. next.pc = "releasing" /\ next.message = m /\ next.siblings = released
      BY <2>1, WorkerTypes DEF WorkerState
    <2>3. m \in confirmed /\ released \subseteq Siblings(m)
      BY <2>1 DEF AccountInv, Accounts
    <2> HIDE DEF next, released
    <2> QED
      BY <2>1, <2>2, <2>3, AccountMove DEF Preparing
  <1>2. CASE ReleaseMerged(w)
    <2> DEFINE next == [worker[w] EXCEPT !.pc = "complete", !.siblings = {}]
    <2>1. /\ worker[w].pc = "releasing" /\ worker' = [worker EXCEPT ![w] = next]
          /\ UNCHANGED <<answered, confirmed>>
      BY <1>2 DEF ReleaseMerged, Step
    <2>2. /\ m \in confirmed /\ worker[w].siblings \subseteq Siblings(m)
          /\ m \in Messages
      BY <2>1, WorkerTypes DEF AccountInv, Accounts
    <2>3. /\ next.pc = "complete"
          /\ worker'[w] = next /\ \A v \in Workers \ {w} : worker'[v] = worker[v]
      BY <2>1, WorkerTypes DEF WorkerState, FlowInv, TypeOK
    <2> HIDE DEF next
    <2>4. \A s \in Messages :
             /\ row'[s].status = "sent" => row[s].status = "sent" \/ s \in worker[w].siblings
             /\ row'[s].merged = row[s].merged
      BY <1>2, WorkerTypes DEF ReleaseMerged, MessageRow
    <2>5. \A s \in Messages : s \in worker[w].siblings => TakenUp(s)'
      BY <2>1, <2>2 DEF TakenUp, Siblings
    <2>6. Accounts(worker[w], worker[w].message)'
      BY <2>3 DEF Accounts, Preparing
    <2> QED
      BY <2>1, <2>3, <2>4, <2>5, <2>6, AccountStep
  <1>3. CASE Raise(w)
    <2> DEFINE next == [worker[w] EXCEPT !.pc = "abort", !.siblings = {}, !.changed = {}]
    <2>1. /\ worker[w].pc # "idle" /\ worker' = [worker EXCEPT ![w] = next]
          /\ UNCHANGED <<row, answered, confirmed>>
      BY <1>3 DEF Raise
    <2>2. next.pc = "abort" /\ next.message = m
      BY <2>1, WorkerTypes DEF WorkerState
    <2> HIDE DEF next
    <2> QED
      BY <2>1, <2>2, AccountMove DEF Preparing
  <1>4. CASE Abort(w)
    <2>1. /\ worker[w].pc = "abort" /\ Goto(w, "abort", "restore")
          /\ row' = [row EXCEPT ![m].status = IF row[m].status = "sent" THEN row[m].status
                                              ELSE "failed"]
          /\ UNCHANGED <<answered, confirmed>>
      BY <1>4 DEF Abort, Goto, Step
    <2>2. \A n \in Messages : /\ row'[n].status = "sent" => row[n].status = "sent"
                              /\ row'[n].merged = row[n].merged
      BY <2>1, WorkerTypes DEF MessageRow
    <2> QED
      BY <2>1, <2>2, AccountGoto DEF WorkerPc, Preparing
  <1>5. CASE SelectMerged(w)
    <2> DEFINE merged == {s \in Messages : row[s].merged = m}
               next == [worker[w] EXCEPT !.pc = "restoring", !.siblings = merged]
    <2>1. /\ worker[w].pc = "restore" /\ worker' = [worker EXCEPT ![w] = next]
          /\ UNCHANGED <<row, answered, confirmed>>
      BY <1>5 DEF SelectMerged, Step
    <2>2. next.pc = "restoring" /\ next.message = m
      BY <2>1, WorkerTypes DEF WorkerState
    <2> HIDE DEF next, merged
    <2> QED
      BY <2>1, <2>2, AccountMove DEF Preparing
  <1>6. CASE RestoreMerged(w)
    <2> DEFINE next == [worker[w] EXCEPT !.pc = "fail", !.siblings = {}]
    <2>1. /\ worker[w].pc = "restoring" /\ worker' = [worker EXCEPT ![w] = next]
          /\ UNCHANGED <<answered, confirmed>>
      BY <1>6 DEF RestoreMerged, Step
    <2>2. next.pc = "fail" /\ next.message = m
      BY <2>1, WorkerTypes DEF WorkerState
    <2>3. \A s \in Messages : /\ row'[s].status = "sent" => row[s].status = "sent"
                              /\ row'[s].merged = row[s].merged
      BY <1>6, <2>1, WorkerTypes DEF RestoreMerged, MessageRow
    <2> HIDE DEF next
    <2> QED
      BY <2>1, <2>2, <2>3, AccountMove DEF Preparing
  <1> QED
    BY <1>1, <1>2, <1>3, <1>4, <1>5, <1>6

\* The steps of the queue: no row comes to count as sent.
LEMMA AccountQueue ==
    ASSUME FlowInv, AccountInv,
           \/ \E m \in Messages : Ingest(m) \/ ReplayTask(m)
           \/ \E w \in Workers : \/ CompleteTask(w) \/ FailTask(w) \/ Crash(w)
                                 \/ \E m \in Messages : ClaimTask(w, m)
    PROVE  AccountInv'
  <1>0. row \in [Messages -> MessageRow] /\ worker \in [Workers -> WorkerState]
    BY DEF FlowInv, TypeOK
  <1>1. ASSUME NEW m \in Messages, Ingest(m) \/ ReplayTask(m) PROVE AccountInv'
    <2>1. \/ row' = [row EXCEPT ![m].status = "queued"]
          \/ row' = [row EXCEPT ![m].status = IF row[m].status = "dead" THEN "failed"
                                              ELSE row[m].status]
      BY <1>1 DEF Ingest, ReplayTask
    <2>2. \A n \in Messages : /\ row'[n].status = "sent" => row[n].status = "sent"
                              /\ row'[n].merged = row[n].merged
      BY <1>0, <2>1 DEF MessageRow
    <2>3. UNCHANGED <<worker, answered, confirmed>>
      BY <1>1 DEF Ingest, ReplayTask
    <2>4. SentIsAccountedFor'
      BY <2>2, <2>3 DEF AccountInv, SentIsAccountedFor, Siblings
    <2>5. ASSUME NEW v \in Workers, worker[v].pc # "idle"
          PROVE  Accounts(worker[v], worker[v].message)'
      <3>1. worker[v].message \in Messages /\ Accounts(worker[v], worker[v].message)
        BY <2>5 DEF AccountInv, FlowInv, TypeOK
      <3> QED
        BY <2>2, <2>3, <3>1 DEF Accounts, TakenUp, Siblings
    <2> QED
      BY <2>3, <2>4, <2>5 DEF AccountInv
  <1>2. ASSUME NEW w \in Workers, CompleteTask(w) \/ FailTask(w) \/ Crash(w) PROVE AccountInv'
    <2>1. /\ worker[w].pc # "idle" /\ worker' = [worker EXCEPT ![w] = IdleWorker]
          /\ IdleWorker.pc = "idle" /\ UNCHANGED <<answered, confirmed>>
      BY <1>2, IdleTypes DEF CompleteTask, FailTask, Crash, Step
    <2>2. row' = row \/ row' = [row EXCEPT ![worker[w].message].status = "dead"]
      BY <1>2 DEF CompleteTask, FailTask, Crash
    <2>3. \A n \in Messages : /\ row'[n].status = "sent" => row[n].status = "sent"
                              /\ row'[n].merged = row[n].merged
      BY <1>0, <2>2 DEF MessageRow
    <2>4. worker'[w].pc = "idle" /\ \A v \in Workers \ {w} : worker'[v] = worker[v]
      BY <1>0, <2>1
    <2> QED
      BY <2>1, <2>3, <2>4, AccountStep
  <1>3. ASSUME NEW w \in Workers, NEW m \in Messages, ClaimTask(w, m) PROVE AccountInv'
    <2> DEFINE next == [IdleWorker EXCEPT !.pc = "load", !.message = m]
    <2>1. worker' = [worker EXCEPT ![w] = next] /\ UNCHANGED <<row, answered, confirmed>>
      BY <1>3 DEF ClaimTask, Step
    <2>2. next.pc = "load"
      BY DEF IdleWorker
    <2> HIDE DEF next
    <2>3. worker'[w].pc = "load" /\ \A v \in Workers \ {w} : worker'[v] = worker[v]
      BY <1>0, <2>1, <2>2
    <2>4. Accounts(worker[w], worker[w].message)'
      BY <2>3 DEF Accounts, Preparing
    <2> QED
      BY <2>1, <2>3, <2>4, AccountStep
  <1> QED
    BY <1>1, <1>2, <1>3

LEMMA AccountNext == FlowInv /\ AccountInv /\ [Next]_vars => AccountInv'
  <1> SUFFICES ASSUME FlowInv, AccountInv, [Next]_vars PROVE AccountInv'
    OBVIOUS
  <1>1. CASE UNCHANGED vars
    BY <1>1 DEF vars, AccountInv, SentIsAccountedFor, Accounts, TakenUp, Siblings
  <1>2. ASSUME NEW w \in Workers, ProcessMessage(w) PROVE AccountInv'
    BY <1>2, AccountBegin, AccountCompose, AccountDeliver, AccountEnd DEF ProcessMessage
  <1>3. ASSUME NEW w \in Workers, Work(w) \/ Crash(w) PROVE AccountInv'
    BY <1>2, <1>3, AccountQueue DEF Work
  <1>4. ASSUME NEW m \in Messages, Ingest(m) \/ ReplayTask(m) PROVE AccountInv'
    BY <1>4, AccountQueue
  <1> QED
    BY <1>1, <1>3, <1>4 DEF Next

\* Whatever workers merge, crash and replay: a message counts as sent only because a
\* reply has taken it up, because it was merged into another, or because the recorded
\* reply to another message of its conversation has released it (process_message,
\* _release_merged_messages).  A worker that finds the fence raised records nothing.
THEOREM SentMeansAccountedFor == Spec => []SentIsAccountedFor
  <1>1. AccountInv => SentIsAccountedFor
    BY DEF AccountInv
  <1> QED
    BY <1>1, AccountInit, AccountNext, Invariance, PTL DEF Spec

-----------------------------------------------------------------------------
(***************************************************************************)
(* One worker: merged messages get no reply of their own.                  *)
(***************************************************************************)

LEMMA OrderInit == Init => OrderInv
  <1> SUFFICES ASSUME Init PROVE OrderInv
    OBVIOUS
  <1>1. /\ \A m \in Messages : replies[m] = 0
        /\ \A w \in Workers : worker[w].pc = "idle"
    BY DEF Init, IdleWorker
  <1> QED
    BY <1>1 DEF OrderInv, MergedHasNoReply

LEMMA OrderKept ==
    ASSUME \A n \in Messages : row'[n].status \in {"none", "queued"} => replies'[n] = 0,
           \A n \in Messages : row'[n].merged # NoMessage => replies'[n] = 0,
           ASSUME NEW v \in Workers, worker'[v].pc # "idle"
           PROVE  Orderly(worker[v], worker[v].message)'
    PROVE  OrderInv'
  BY DEF OrderInv, MergedHasNoReply

\* A step of the worker, which has message m in hand, before and after it.
LEMMA OrderMove ==
    ASSUME OneByOne, FlowInv, OrderInv, NEW w \in Workers, worker[w].pc # "idle",
           NEW m, m = worker[w].message,
           NEW next, worker' = [worker EXCEPT ![w] = next], next.message = m,
           \A n \in Messages : replies'[n] # 0 =>
              \/ replies[n] # 0
              \/ row'[n].merged = NoMessage /\ row'[n].status \notin {"none", "queued"},
           \A n \in Messages : replies[n] # 0 =>
              /\ row'[n].status \in {"none", "queued"} => row[n].status \in {"none", "queued"}
              /\ row'[n].merged # NoMessage => row[n].merged # NoMessage,
           next.pc = "begin" => next.seen = row'[m],
           next.pc \in Preparing \cup {"send"} =>
              row'[m].merged = NoMessage /\ row'[m].status \notin {"none", "queued"},
           next.pc \in {"claim", "tag"} =>
              \A x \in next.siblings : x \in Siblings(m) /\ row'[x].status = "queued",
           next.pc = "restoring" => \A x \in next.siblings : row'[x].merged = m
    PROVE  OrderInv'
  <1>1. worker'[w] = next /\ \A v \in Workers : v = w
    BY DEF OneByOne, FlowInv, TypeOK
  <1>2. \A n \in Messages : /\ row'[n].status \in {"none", "queued"} => replies'[n] = 0
                            /\ row'[n].merged # NoMessage => replies'[n] = 0
    BY DEF OrderInv, MergedHasNoReply
  <1>3. ASSUME NEW v \in Workers PROVE Orderly(worker[v], worker[v].message)'
    <2>1. worker'[v] = next /\ worker'[v].message = m
      BY <1>1
    <2> QED
      BY <2>1 DEF Orderly, Siblings, Preparing
  <1> QED
    BY <1>2, <1>3, OrderKept

\* What is known of the worker and of its message.
LEMMA OrderKnown ==
    ASSUME FlowInv, OrderInv, NEW w \in Workers, worker[w].pc # "idle"
    PROVE  /\ worker[w] \in WorkerState /\ worker[w].message \in Messages
           /\ row[worker[w].message] \in MessageRow /\ row \in [Messages -> MessageRow]
           /\ row[worker[w].message].status # "none"
           /\ Orderly(worker[w], worker[w].message)
           /\ \A n \in Messages : /\ row[n].status \in {"none", "queued"} => replies[n] = 0
                                  /\ row[n].merged # NoMessage => replies[n] = 0
  BY WorkerTypes, Holder DEF OrderInv, MergedHasNoReply

\* Only the worker changes, and it does not come to merge or to restore.
LEMMA OrderGoto ==
    ASSUME OneByOne, FlowInv, OrderInv, NEW w \in Workers, worker[w].pc # "idle",
           NEW next, worker' = [worker EXCEPT ![w] = next], next.message = worker[w].message,
           UNCHANGED <<row, replies>>,
           next.pc \notin {"begin", "claim", "tag", "restoring"},
           next.pc \in Preparing \cup {"send"} => worker[w].pc \in Preparing \cup {"send"}
    PROVE  OrderInv'
  <1>1. next.pc \in Preparing \cup {"send"} =>
           /\ row[worker[w].message].merged = NoMessage
           /\ row[worker[w].message].status \notin {"none", "queued"}
    BY OrderKnown DEF Orderly
  <1> QED
    BY <1>1, OrderMove

LEMMA OrderBegin ==
    ASSUME OneByOne, FlowInv, OrderInv, NEW w \in Workers,
           LoadMessage(w) \/ FailEarly(w) \/ SkipSettled(w) \/ SkipMerged(w) \/ StartMessage(w)
    PROVE  OrderInv'
  <1> DEFINE m == worker[w].message
             r == row[m]
  <1>1. CASE LoadMessage(w)
    <2> DEFINE next == [worker[w] EXCEPT !.pc = "begin", !.seen = r]
    <2>1. /\ worker[w].pc = "load" /\ worker' = [worker EXCEPT ![w] = next]
          /\ UNCHANGED <<row, replies>>
      BY <1>1 DEF LoadMessage, Step
    <2>2. next.pc = "begin" /\ next.message = m /\ next.seen = r
      BY <2>1, WorkerTypes DEF WorkerState
    <2> HIDE DEF next
    <2> QED
      BY <2>1, <2>2, OrderMove DEF Preparing
  <1>2. CASE FailEarly(w) \/ SkipSettled(w)
    <2>1. PICK to \in {"fail", "complete"} :
             worker[w].pc # "idle" /\ worker' = [worker EXCEPT ![w] = [worker[w] EXCEPT !.pc = to]]
      BY <1>2 DEF FailEarly, SkipSettled, Goto, Step
    <2> DEFINE next == [worker[w] EXCEPT !.pc = to]
    <2>2. /\ next.pc = to /\ next.message = m /\ worker' = [worker EXCEPT ![w] = next]
          /\ UNCHANGED <<row, replies>>
      BY <1>2, <2>1, WorkerTypes DEF WorkerState, FailEarly, SkipSettled
    <2> HIDE DEF next
    <2> QED
      BY <2>1, <2>2, OrderGoto DEF Preparing
  <1>3. CASE SkipMerged(w)
    <2> DEFINE next == [worker[w] EXCEPT !.pc = "complete"]
    <2>1. /\ worker[w].pc = "begin" /\ worker' = [worker EXCEPT ![w] = next]
          /\ row' = [row EXCEPT ![m].status = "sent"] /\ UNCHANGED replies
      BY <1>3 DEF SkipMerged, Goto, Step
    <2>2. next.pc = "complete" /\ next.message = m
      BY <2>1, WorkerTypes DEF WorkerState
    <2>3. \A n \in Messages :
             /\ row'[n].status \in {"none", "queued"} => row[n].status \in {"none", "queued"}
             /\ row'[n].merged = row[n].merged
      BY <2>1, WorkerTypes DEF MessageRow
    <2> HIDE DEF next
    <2> QED
      BY <2>1, <2>2, <2>3, OrderMove DEF Preparing
  <1>4. CASE StartMessage(w)
    <2> DEFINE next == [worker[w] EXCEPT !.pc = "start", !.seen.status = "processing"]
               status == IF worker[w].seen.status = "processing" THEN r.status ELSE "processing"
    <2>1. /\ worker[w].pc = "begin" /\ worker' = [worker EXCEPT ![w] = next]
          /\ worker[w].seen.merged = NoMessage
          /\ row' = [row EXCEPT ![m].status = status] /\ UNCHANGED replies
      BY <1>4 DEF StartMessage, Step
    <2>2. status = "processing" /\ r.merged = NoMessage
      BY <2>1, OrderKnown DEF Orderly
    <2>3. next.pc = "start" /\ next.message = m
      BY <2>1, WorkerTypes DEF WorkerState
    <2> HIDE DEF next, status
    <2>4. /\ row'[m].status = "processing" /\ row'[m].merged = NoMessage
          /\ \A n \in Messages \ {m} : row'[n] = row[n]
      BY <2>1, <2>2, WorkerTypes DEF MessageRow
    <2>5. \A n \in Messages :
             /\ row'[n].status \in {"none", "queued"} => row[n].status \in {"none", "queued"}
             /\ row'[n].merged # NoMessage => row[n].merged # NoMessage
      BY <2>4
    <2> QED
      BY <2>1, <2>3, <2>4, <2>5, OrderMove
  <1> QED
    BY <1>1, <1>2, <1>3, <1>4

LEMMA OrderCompose ==
    ASSUME OneByOne, FlowInv, OrderInv, NEW w \in Workers,
           \/ IgnoreCommand(w) \/ AnswerCommand(w) \/ SelectSiblings(w)
           \/ ClaimSiblings(w) \/ TagSiblings(w) \/ AskModel(w)
    PROVE  OrderInv'
  <1> DEFINE m == worker[w].message
  <1>1. CASE IgnoreCommand(w)
    <2> DEFINE next == [worker[w] EXCEPT !.pc = "complete"]
    <2>1. /\ worker[w].pc = "start" /\ worker' = [worker EXCEPT ![w] = next]
          /\ row' = [row EXCEPT ![m].status = "ignored"] /\ UNCHANGED replies
      BY <1>1 DEF IgnoreCommand, Goto, Step
    <2>2. next.pc = "complete" /\ next.message = m
      BY <2>1, WorkerTypes DEF WorkerState
    <2>3. \A n \in Messages :
             /\ row'[n].status \in {"none", "queued"} => row[n].status \in {"none", "queued"}
             /\ row'[n].merged = row[n].merged
      BY <2>1, WorkerTypes DEF MessageRow
    <2> HIDE DEF next
    <2> QED
      BY <2>1, <2>2, <2>3, OrderMove DEF Preparing
  <1>2. CASE AnswerCommand(w) \/ AskModel(w)
    <2>1. PICK context : worker' = [worker EXCEPT ![w] =
                                       [worker[w] EXCEPT !.pc = "fence", !.context = context]]
      <3>1. CASE AnswerCommand(w)
        BY <3>1 DEF AnswerCommand, Step
      <3>2. CASE AskModel(w)
        <4>1. PICK history \in SUBSET {s \in Siblings(m) : row[s].status \in {"sent", "processing"}} :
                 worker' = [worker EXCEPT ![w].pc = "fence", ![w].context = {m} \cup history]
          BY <3>2 DEF AskModel
        <4>2. worker' = [worker EXCEPT ![w] =
                            [worker[w] EXCEPT !.pc = "fence", !.context = {m} \cup history]]
          BY <4>1 DEF FlowInv, TypeOK
        <4> QED
          BY <4>2
      <3> QED
        BY <1>2, <3>1, <3>2
    <2> DEFINE next == [worker[w] EXCEPT !.pc = "fence", !.context = context]
    <2>2. worker[w].pc \in {"start", "ask"} /\ UNCHANGED <<row, replies>>
      BY <1>2 DEF AnswerCommand, AskModel, Step
    <2>3. next.pc = "fence" /\ next.message = m
      BY <2>2, WorkerTypes DEF WorkerState
    <2>4. worker' = [worker EXCEPT ![w] = next]
      BY <2>1
    <2> HIDE DEF next
    <2> QED
      BY <2>2, <2>3, <2>4, OrderGoto DEF Preparing
  <1>3. CASE SelectSiblings(w)
    <2> DEFINE queued == {s \in Siblings(m) : row[s].status = "queued"}
               to == IF queued = {} THEN "ask" ELSE "claim"
               next == [worker[w] EXCEPT !.pc = to, !.siblings = queued]
    <2>1. /\ worker[w].pc = "start" /\ worker' = [worker EXCEPT ![w] = next]
          /\ UNCHANGED <<row, replies>>
      BY <1>3 DEF SelectSiblings, Step
    <2>2. /\ row[m].merged = NoMessage /\ row[m].status \notin {"none", "queued"}
      BY <2>1, OrderKnown DEF Orderly, Preparing
    <2>3. next.pc \in {"ask", "claim"} /\ next.message = m /\ next.siblings = queued
      BY <2>1, WorkerTypes DEF WorkerState
    <2> HIDE DEF next
    <2> QED
      BY <2>1, <2>2, <2>3, OrderMove
  <1>4. CASE ClaimSiblings(w)
    <2>1. PICK taken, tags :
             /\ worker[w].pc = "claim"
             /\ worker' = [worker EXCEPT ![w] =
                              [worker[w] EXCEPT !.pc = "tag", !.changed = taken, !.tags = tags]]
             /\ UNCHANGED <<row, replies>>
      BY <1>4 DEF ClaimSiblings, Step
    <2> DEFINE next == [worker[w] EXCEPT !.pc = "tag", !.changed = taken, !.tags = tags]
    <2>2. /\ next.pc = "tag" /\ next.message = m /\ next.siblings = worker[w].siblings
          /\ worker' = [worker EXCEPT ![w] = next]
      BY <2>1, WorkerTypes DEF WorkerState
    <2> HIDE DEF next
    <2>3. /\ row[m].merged = NoMessage /\ row[m].status \notin {"none", "queued"}
          /\ \A x \in worker[w].siblings : x \in Siblings(m) /\ row[x].status = "queued"
      BY <2>1, OrderKnown DEF Orderly, Preparing
    <2>4. \A x \in next.siblings : x \in Siblings(m) /\ row'[x].status = "queued"
      BY <2>1, <2>2, <2>3
    <2> QED
      BY <2>1, <2>2, <2>3, <2>4, OrderMove
  <1>5. CASE TagSiblings(w)
    <2> DEFINE next == [worker[w] EXCEPT !.pc = "ask", !.changed = {}, !.siblings = {},
                                         !.tags = IdleWorker.tags]
    <2>1. /\ worker[w].pc = "tag" /\ worker' = [worker EXCEPT ![w] = next] /\ UNCHANGED replies
      BY <1>5 DEF TagSiblings, Step
    <2>2. next.pc = "ask" /\ next.message = m /\ m \in Messages
      BY <2>1, WorkerTypes DEF WorkerState
    <2>3. /\ row[m].merged = NoMessage /\ row[m].status \notin {"none", "queued"}
          /\ \A x \in worker[w].siblings : x \in Siblings(m) /\ row[x].status = "queued"
      BY <2>1, OrderKnown DEF Orderly, Preparing
    <2>4. \A n \in Messages :
             /\ row'[n].status \in {"none", "queued"} => row[n].status \in {"none", "queued"}
             /\ n \notin worker[w].siblings => row'[n].merged = row[n].merged
             /\ row'[n].status \in {"processing", row[n].status}
      BY <1>5 DEF TagSiblings
    <2>5. m \notin worker[w].siblings
      BY <2>3 DEF Siblings
    <2>6. ASSUME NEW n \in worker[w].siblings PROVE replies[n] = 0
      <3>1. n \in Messages /\ row[n].status = "queued"
        BY <2>1, <2>3, WorkerTypes
      <3> QED
        BY <3>1 DEF OrderInv
    <2> HIDE DEF next
    <2>7. row'[m].merged = NoMessage /\ row'[m].status \notin {"none", "queued"}
      BY <2>2, <2>3, <2>4, <2>5
    <2>8. \A n \in Messages : replies[n] # 0 =>
             /\ row'[n].status \in {"none", "queued"} => row[n].status \in {"none", "queued"}
             /\ row'[n].merged # NoMessage => row[n].merged # NoMessage
      BY <2>4, <2>6
    <2> QED
      BY <2>1, <2>2, <2>7, <2>8, OrderMove
  <1> QED
    BY <1>1, <1>2, <1>3, <1>4, <1>5

LEMMA OrderDeliver ==
    ASSUME OneByOne, FlowInv, OrderInv, NEW w \in Workers,
           RaiseFence(w) \/ RefuseToResend(w) \/ Deliver(w) \/ Finish(w)
    PROVE  OrderInv'
  <1> DEFINE m == worker[w].message
  <1>1. CASE RaiseFence(w)
    <2> DEFINE next == [worker[w] EXCEPT !.pc = "send", !.seen.dispatch = "started"]
    <2>1. /\ worker[w].pc = "fence" /\ worker' = [worker EXCEPT ![w] = next]
          /\ row' = [row EXCEPT ![m].merged = NoMessage, ![m].dispatch = "started"]
          /\ UNCHANGED replies
      BY <1>1 DEF RaiseFence, Step
    <2>2. row[m].status \notin {"none", "queued"}
      BY <2>1, OrderKnown DEF Orderly, Preparing
    <2>3. next.pc = "send" /\ next.message = m
      BY <2>1, WorkerTypes DEF WorkerState
    <2> HIDE DEF next
    <2>4. /\ row'[m].status = row[m].status /\ row'[m].merged = NoMessage
          /\ \A n \in Messages \ {m} : row'[n] = row[n]
      BY <2>1, WorkerTypes DEF MessageRow
    <2>5. \A n \in Messages :
             /\ row'[n].status \in {"none", "queued"} => row[n].status \in {"none", "queued"}
             /\ row'[n].merged # NoMessage => row[n].merged # NoMessage
      BY <2>4
    <2> QED
      BY <2>1, <2>2, <2>3, <2>4, <2>5, OrderMove
  <1>2. CASE RefuseToResend(w)
    <2> DEFINE next == [worker[w] EXCEPT !.pc = "abort"]
    <2>1. /\ worker[w].pc = "fence" /\ worker' = [worker EXCEPT ![w] = next]
          /\ UNCHANGED <<row, replies>>
      BY <1>2 DEF RefuseToResend, Goto, Step
    <2>2. next.pc = "abort" /\ next.message = m
      BY <2>1, WorkerTypes DEF WorkerState
    <2> HIDE DEF next
    <2> QED
      BY <2>1, <2>2, OrderGoto DEF Preparing
  <1>3. CASE Deliver(w)
    <2>1. PICK to \in {"finish", "abort"} : Goto(w, "send", to)
      BY <1>3 DEF Deliver
    <2> DEFINE next == [worker[w] EXCEPT !.pc = to]
    <2>2. /\ worker[w].pc = "send" /\ worker' = [worker EXCEPT ![w] = next] /\ UNCHANGED row
          /\ replies' = [replies EXCEPT ![m] = replies[m] + 1]
      BY <1>3, <2>1 DEF Deliver, Goto, Step
    <2>3. row[m].merged = NoMessage /\ row[m].status \notin {"none", "queued"}
      BY <2>2, OrderKnown DEF Orderly
    <2>4. next.pc = to /\ next.message = m
      BY <2>2, WorkerTypes DEF WorkerState
    <2>5. \A n \in Messages \ {m} : replies'[n] = replies[n]
      BY <2>2 DEF FlowInv, TypeOK
    <2> HIDE DEF next
    <2> QED
      BY <2>2, <2>3, <2>4, <2>5, OrderMove DEF Preparing
  <1>4. CASE Finish(w)
    <2> DEFINE to == IF kind[m] = "special" THEN "complete" ELSE "release"
               next == [worker[w] EXCEPT !.pc = to, !.seen.status = "sent"]
    <2>1. /\ worker[w].pc = "finish" /\ worker' = [worker EXCEPT ![w] = next]
          /\ row' = [row EXCEPT ![m].status = "sent"] /\ UNCHANGED replies
      BY <1>4 DEF Finish, Step
    <2>2. next.pc \in {"complete", "release"} /\ next.message = m
      BY <2>1, WorkerTypes DEF WorkerState
    <2>3. \A n \in Messages :
             /\ row'[n].status \in {"none", "queued"} => row[n].status \in {"none", "queued"}
             /\ row'[n].merged = row[n].merged
      BY <2>1, WorkerTypes DEF MessageRow
    <2> HIDE DEF next
    <2> QED
      BY <2>1, <2>2, <2>3, OrderMove DEF Preparing
  <1> QED
    BY <1>1, <1>2, <1>3, <1>4

LEMMA OrderEnd ==
    ASSUME OneByOne, FlowInv, OrderInv, NEW w \in Workers,
           \/ SelectProcessing(w) \/ ReleaseMerged(w)
           \/ Raise(w) \/ Abort(w) \/ SelectMerged(w) \/ RestoreMerged(w)
    PROVE  OrderInv'
  <1> DEFINE m == worker[w].message
  <1>1. CASE SelectProcessing(w) \/ Raise(w)
    <2>1. PICK next :
             /\ next.pc \in {"releasing", "abort"} /\ next.message = m
             /\ worker' = [worker EXCEPT ![w] = next]
      <3>1. CASE SelectProcessing(w)
        <4>1. worker[w].pc # "idle"
          BY <3>1 DEF SelectProcessing, Step
        <4> QED
          BY <3>1, <4>1, WorkerTypes DEF SelectProcessing, Step, WorkerState
      <3>2. CASE Raise(w)
        <4>1. worker[w].pc # "idle"
          BY <3>2 DEF Raise
        <4> QED
          BY <3>2, <4>1, WorkerTypes DEF Raise, WorkerState
      <3> QED
        BY <1>1, <3>1, <3>2
    <2>2. worker[w].pc # "idle" /\ UNCHANGED <<row, replies>>
      BY <1>1 DEF SelectProcessing, Raise, Step
    <2> QED
      BY <2>1, <2>2, OrderGoto DEF Preparing
  <1>2. CASE ReleaseMerged(w)
    <2> DEFINE next == [worker[w] EXCEPT !.pc = "complete", !.siblings = {}]
    <2>1. /\ worker[w].pc = "releasing" /\ worker' = [worker EXCEPT ![w] = next]
          /\ UNCHANGED replies
      BY <1>2 DEF ReleaseMerged, Step
    <2>2. next.pc = "complete" /\ next.message = m
      BY <2>1, WorkerTypes DEF WorkerState
    <2>3. \A n \in Messages :
             /\ row'[n].status \in {"none", "queued"} => row[n].status \in {"none", "queued"}
             /\ row'[n].merged = row[n].merged
      BY <1>2, <2>1, WorkerTypes DEF ReleaseMerged, MessageRow
    <2> HIDE DEF next
    <2> QED
      BY <2>1, <2>2, <2>3, OrderMove DEF Preparing
  <1>3. CASE Abort(w)
    <2> DEFINE next == [worker[w] EXCEPT !.pc = "restore"]
    <2>1. /\ worker[w].pc = "abort" /\ worker' = [worker EXCEPT ![w] = next]
          /\ row' = [row EXCEPT ![m].status = IF row[m].status = "sent" THEN row[m].status
                                              ELSE "failed"]
          /\ UNCHANGED replies
      BY <1>3 DEF Abort, Goto, Step
    <2>2. next.pc = "restore" /\ next.message = m
      BY <2>1, WorkerTypes DEF WorkerState
    <2>3. \A n \in Messages :
             /\ row'[n].status \in {"none", "queued"} => row[n].status \in {"none", "queued"}
             /\ row'[n].merged = row[n].merged
      BY <2>1, WorkerTypes DEF MessageRow
    <2> HIDE DEF next
    <2> QED
      BY <2>1, <2>2, <2>3, OrderMove DEF Preparing
  <1>4. CASE SelectMerged(w)
    <2> DEFINE merged == {s \in Messages : row[s].merged = m}
               next == [worker[w] EXCEPT !.pc = "restoring", !.siblings = merged]
    <2>1. /\ worker[w].pc = "restore" /\ worker' = [worker EXCEPT ![w] = next]
          /\ UNCHANGED <<row, replies>>
      BY <1>4 DEF SelectMerged, Step
    <2>2. next.pc = "restoring" /\ next.message = m /\ next.siblings = merged
      BY <2>1, WorkerTypes DEF WorkerState
    <2> HIDE DEF next
    <2> QED
      BY <2>1, <2>2, OrderMove DEF Preparing
  <1>5. CASE RestoreMerged(w)
    <2> DEFINE next == [worker[w] EXCEPT !.pc = "fail", !.siblings = {}]
    <2>1. /\ worker[w].pc = "restoring" /\ worker' = [worker EXCEPT ![w] = next]
          /\ UNCHANGED replies
      BY <1>5 DEF RestoreMerged, Step
    <2>2. next.pc = "fail" /\ next.message = m
      BY <2>1, WorkerTypes DEF WorkerState
    <2>3. \A x \in worker[w].siblings : row[x].merged = m
      BY <2>1, OrderKnown DEF Orderly
    <2>4. \A n \in Messages : row[n].merged # NoMessage => replies[n] = 0
      BY DEF OrderInv, MergedHasNoReply
    <2>5. m \in Messages /\ m # NoMessage
      BY <2>1, WorkerTypes, FlowAssumption
    <2>6. \A n \in Messages : n \in worker[w].siblings => replies[n] = 0
      BY <2>3, <2>4, <2>5
    <2>7. \A n \in Messages : /\ row'[n].merged = row[n].merged
                              /\ n \notin worker[w].siblings => row'[n].status = row[n].status
      BY <1>5, <2>1, WorkerTypes DEF RestoreMerged, MessageRow
    <2>8. ASSUME NEW n \in Messages, replies[n] # 0
          PROVE  row'[n].status = row[n].status /\ row'[n].merged = row[n].merged
      <3>1. n \notin worker[w].siblings
        BY <2>6, <2>8
      <3> QED
        BY <2>7, <2>8, <3>1
    <2> HIDE DEF next
    <2> QED
      BY <2>1, <2>2, <2>8, OrderMove DEF Preparing
  <1> QED
    BY <1>1, <1>2, <1>3, <1>4, <1>5

\* The steps of the queue: the worker does not see the row of its message change.
LEMMA OrderQueue ==
    ASSUME OneByOne, FlowInv, OrderInv,
           \/ \E m \in Messages : Ingest(m) \/ ReplayTask(m)
           \/ \E w \in Workers : \/ CompleteTask(w) \/ FailTask(w) \/ Crash(w)
                                 \/ \E m \in Messages : ClaimTask(w, m)
    PROVE  OrderInv'
  <1>0. row \in [Messages -> MessageRow] /\ worker \in [Workers -> WorkerState]
    BY DEF FlowInv, TypeOK
  <1>1. ASSUME NEW m \in Messages, Ingest(m) \/ ReplayTask(m) PROVE OrderInv'
    <2>1. \/ row[m].status = "none" /\ row' = [row EXCEPT ![m].status = "queued"]
          \/ row' = [row EXCEPT ![m].status = IF row[m].status = "dead" THEN "failed"
                                              ELSE row[m].status]
      BY <1>1 DEF Ingest, ReplayTask
    <2>2. /\ task[m] \in {"none", "dead"} /\ UNCHANGED <<worker, replies>>
      BY <1>1 DEF Ingest, ReplayTask, FlowInv, QueueInv
    <2>3. \A n \in Messages :
             /\ row'[n].status \in {"none", "queued"} => row[n].status \in {"none", "queued"}
             /\ row[n].status = "queued" => row'[n].status = "queued"
             /\ row'[n].merged = row[n].merged
      BY <1>0, <2>1 DEF MessageRow
    <2>4. \A n \in Messages : /\ row'[n].status \in {"none", "queued"} => replies'[n] = 0
                              /\ row'[n].merged # NoMessage => replies'[n] = 0
      BY <2>2, <2>3 DEF OrderInv, MergedHasNoReply
    <2>5. ASSUME NEW w \in Workers, worker'[w].pc # "idle"
          PROVE  Orderly(worker[w], worker[w].message)'
      <3> DEFINE n == worker[w].message
      <3>1. n \in Messages \ {m} /\ Orderly(worker[w], n) /\ worker[w].siblings \subseteq Messages
        BY <2>2, <2>5, Holder, OrderKnown DEF WorkerState
      <3>2. row'[n] = row[n]
        BY <1>0, <2>1, <3>1
      <3> QED
        BY <2>2, <2>3, <3>1, <3>2 DEF Orderly, Siblings
    <2> QED
      BY <2>4, <2>5, OrderKept
  <1>2. ASSUME NEW w \in Workers,
               \/ CompleteTask(w) \/ FailTask(w) \/ Crash(w)
               \/ \E m \in Messages : ClaimTask(w, m)
        PROVE  OrderInv'
    <2>1. /\ worker'[w].pc \in {"idle", "load"} /\ UNCHANGED replies
          /\ \A v \in Workers : v = w
      <3>1. PICK next : worker' = [worker EXCEPT ![w] = next] /\ next.pc \in {"idle", "load"}
        <4>1. CASE CompleteTask(w) \/ FailTask(w) \/ Crash(w)
          BY <4>1, IdleTypes DEF CompleteTask, FailTask, Crash, Step
        <4>2. ASSUME NEW m \in Messages, ClaimTask(w, m)
              PROVE  \E next : worker' = [worker EXCEPT ![w] = next] /\ next.pc \in {"idle", "load"}
          <5>1. [IdleWorker EXCEPT !.pc = "load", !.message = m].pc = "load"
            BY DEF IdleWorker
          <5> QED
            BY <4>2, <5>1 DEF ClaimTask, Step
        <4> QED
          BY <1>2, <4>1, <4>2
      <3>2. UNCHANGED replies
        BY <1>2 DEF CompleteTask, FailTask, Crash, ClaimTask
      <3> QED
        BY <1>0, <3>1, <3>2 DEF OneByOne
    <2>2. row' = row \/ row' = [row EXCEPT ![worker[w].message].status = "dead"]
      BY <1>2 DEF CompleteTask, FailTask, Crash, ClaimTask
    <2>3. \A n \in Messages :
             /\ row'[n].status \in {"none", "queued"} => row[n].status \in {"none", "queued"}
             /\ row'[n].merged = row[n].merged
      BY <1>0, <2>2 DEF MessageRow
    <2>4. \A n \in Messages : /\ row'[n].status \in {"none", "queued"} => replies'[n] = 0
                              /\ row'[n].merged # NoMessage => replies'[n] = 0
      BY <2>1, <2>3 DEF OrderInv, MergedHasNoReply
    <2>5. ASSUME NEW v \in Workers PROVE Orderly(worker[v], worker[v].message)'
      BY <2>1 DEF Orderly, Preparing
    <2> QED
      BY <2>4, <2>5, OrderKept
  <1> QED
    BY <1>1, <1>2

LEMMA OrderNext ==
    ASSUME OneByOne, FlowInv, OrderInv, [Next]_vars
    PROVE  OrderInv'
  <1>1. CASE UNCHANGED vars
    BY <1>1 DEF vars, OrderInv, Orderly, MergedHasNoReply, Siblings
  <1>2. ASSUME NEW w \in Workers, ProcessMessage(w) PROVE OrderInv'
    BY <1>2, OrderBegin, OrderCompose, OrderDeliver, OrderEnd DEF ProcessMessage
  <1>3. ASSUME NEW w \in Workers, Work(w) \/ Crash(w) PROVE OrderInv'
    BY <1>2, <1>3, OrderQueue DEF Work
  <1>4. ASSUME NEW m \in Messages, Ingest(m) \/ ReplayTask(m) PROVE OrderInv'
    BY <1>4, OrderQueue
  <1> QED
    BY <1>1, <1>3, <1>4 DEF Next

\* With one worker, a message that was merged into another one gets no reply of its own,
\* whatever crashes, fails, is restored and is replayed (_merge_pending_messages,
\* _restore_merged_messages): what a worker selects to merge is still queued when it
\* writes the mark.
THEOREM MergedHaveNoReply ==
    ASSUME OneByOne
    PROVE  Spec => []MergedHasNoReply
  <1>1. OrderInv => MergedHasNoReply
    BY DEF OrderInv
  <1>2. FlowInv /\ OrderInv /\ [Next]_vars => OrderInv'
    BY OrderNext
  <1> QED
    BY <1>1, <1>2, OrderInit, Invariance, PTL DEF Spec

=============================================================================
