----------------------------- MODULE MessageFlow -----------------------------
(***************************************************************************)
(* How inbound messages of conversations are answered: process_message     *)
(* with its delivery fence, and the merging of messages that a user sent   *)
(* in a row (services.py).                                                 *)
(*                                                                         *)
(* A session loads a row once and keeps its copy over its own commits, so  *)
(* a worker decides by what it has loaded and writes back the columns that *)
(* it has assigned: seen is that copy.  An UPDATE locks the rows it has    *)
(* changed until its transaction commits.                                  *)
(*                                                                         *)
(* The task queue is here what Outbox shows it to be while leases hold: a  *)
(* task is executed by one worker, and again after a crash.                *)
(***************************************************************************)
EXTENDS Naturals

CONSTANTS Messages,       \* inbound messages that are to be answered
          Conversations,
          Conv,           \* the conversation of each message
          Kinds,          \* which kinds of messages users send
          Workers,
          MaxAttempts,    \* the setting task_max_attempts
          NoMessage,
          MaxCrashes, MaxReplays

ASSUME FlowAssumption == /\ Conv \in [Messages -> Conversations]
                         /\ NoMessage \notin Messages
                         /\ Kinds \subseteq {"chat", "command", "special"}
                         /\ MaxAttempts \in Nat \ {0}
                         /\ MaxCrashes \in Nat /\ MaxReplays \in Nat

VARIABLES row,            \* the table messages
          kind,           \* what the text of each message is
          task, attempts, \* the message's outbox task
          worker,
          replies,        \* how often the reply to a message has gone out
          confirmed,      \* messages whose reply has been recorded as sent
          answered,       \* messages that a reply which went out has taken up
          crashes, replays

vars == <<row, kind, task, attempts, worker, replies, confirmed, answered, crashes, replays>>

-----------------------------------------------------------------------------

Unfinished == {"queued", "failed", "processing"}
Status == Unfinished \cup {"none", "sent", "dead", "ignored"}

\* merged is metadata_json["merged_into"], dispatch metadata_json["reply_dispatch"].
MessageRow == [status : Status, merged : Messages \cup {NoMessage},
               dispatch : {"none", "started"}]
NoRow == [status |-> "none", merged |-> NoMessage, dispatch |-> "none"]

WorkerPc == {"idle", "load", "begin", "start", "claim", "tag", "ask", "fence", "send",
             "finish", "release", "releasing", "abort", "restore", "restoring",
             "complete", "fail"}

\* siblings are the rows that a bulk statement of the worker is about, changed
\* those it has updated and not committed, tags what it has read in them.
WorkerState == [pc : WorkerPc, message : Messages \cup {NoMessage}, seen : MessageRow,
                siblings : SUBSET Messages, changed : SUBSET Messages,
                tags : [Messages -> MessageRow],
                context : SUBSET Messages]

IdleWorker == [pc |-> "idle", message |-> NoMessage, seen |-> NoRow,
               siblings |-> {}, changed |-> {}, tags |-> [m \in Messages |-> NoRow],
               context |-> {}]

TypeOK ==
    /\ row \in [Messages -> MessageRow]
    /\ kind \in [Messages -> Kinds \cup {"none"}]
    /\ task \in [Messages -> {"none", "pending", "processing", "done", "dead"}]
    /\ attempts \in [Messages -> 0..MaxAttempts]
    /\ worker \in [Workers -> WorkerState]
    /\ \A w \in Workers : worker[w].pc # "idle" => worker[w].message \in Messages
    /\ replies \in [Messages -> Nat]
    /\ confirmed \in SUBSET Messages /\ answered \in SUBSET Messages
    /\ crashes \in 0..MaxCrashes
    /\ replays \in 0..MaxReplays

Init ==
    /\ row = [m \in Messages |-> NoRow]
    /\ kind = [m \in Messages |-> "none"]
    /\ task = [m \in Messages |-> "none"]
    /\ attempts = [m \in Messages |-> 0]
    /\ worker = [w \in Workers |-> IdleWorker]
    /\ replies = [m \in Messages |-> 0]
    /\ confirmed = {} /\ answered = {}
    /\ crashes = 0 /\ replays = 0

Step(w, from, next) == /\ worker[w].pc = from
                       /\ worker' = [worker EXCEPT ![w] = next]
Goto(w, from, to) == Step(w, from, [worker[w] EXCEPT !.pc = to])

\* No transaction in progress has updated the rows.
Unlocked(rows) == \A w \in Workers : worker[w].changed \cap rows = {}

Siblings(m) == {s \in Messages \ {m} : Conv[s] = Conv[m]}

-----------------------------------------------------------------------------
(* The queue.                                                              *)

Ingest(m) ==
    /\ row[m].status = "none"
    /\ row' = [row EXCEPT ![m].status = "queued"]
    /\ \E k \in Kinds : kind' = [kind EXCEPT ![m] = k]
    /\ task' = [task EXCEPT ![m] = "pending"]
    /\ UNCHANGED <<attempts, worker, replies, confirmed, answered, crashes, replays>>

Held(m) == \E w \in Workers : worker[w].message = m

ClaimTask(w, m) ==
    /\ Step(w, "idle", [IdleWorker EXCEPT !.pc = "load", !.message = m])
    /\ \/ task[m] = "pending"
       \/ task[m] = "processing" /\ ~Held(m)
    /\ task' = [task EXCEPT ![m] = "processing"]
    /\ UNCHANGED <<row, kind, attempts, replies, confirmed, answered, crashes, replays>>

CompleteTask(w) ==
    /\ Step(w, "complete", IdleWorker)
    /\ task' = [task EXCEPT ![worker[w].message] = "done"]
    /\ UNCHANGED <<row, kind, attempts, replies, confirmed, answered, crashes, replays>>

\* Faulty: the message of a dead task is left as it is.
FailTaskQuietly(w) ==
    LET m == worker[w].message IN
    /\ Step(w, "fail", IdleWorker)
    /\ attempts' = [attempts EXCEPT ![m] = @ + 1]
    /\ task' = [task EXCEPT ![m] = IF attempts'[m] < MaxAttempts THEN "pending" ELSE "dead"]
    /\ UNCHANGED <<row, kind, replies, confirmed, answered, crashes, replays>>

FailTask(w) ==
    LET m == worker[w].message IN
    /\ Step(w, "fail", IdleWorker)
    /\ attempts' = [attempts EXCEPT ![m] = @ + 1]
    /\ IF attempts'[m] < MaxAttempts
       THEN /\ task' = [task EXCEPT ![m] = "pending"]
            /\ UNCHANGED row
       ELSE /\ Unlocked({m})
            /\ task' = [task EXCEPT ![m] = "dead"]
            /\ row' = [row EXCEPT ![m].status = "dead"]
    /\ UNCHANGED <<kind, replies, confirmed, answered, crashes, replays>>

\* Faulty: the attempts are not counted anew.
ReplayTaskTired(m) ==
    /\ task[m] = "dead" /\ replays < MaxReplays /\ Unlocked({m})
    /\ replays' = replays + 1
    /\ task' = [task EXCEPT ![m] = "pending"]
    /\ row' = [row EXCEPT ![m].status = IF @ = "dead" THEN "failed" ELSE @]
    /\ UNCHANGED <<kind, attempts, worker, replies, confirmed, answered, crashes>>

ReplayTask(m) ==
    /\ task[m] = "dead" /\ replays < MaxReplays /\ Unlocked({m})
    /\ replays' = replays + 1
    /\ task' = [task EXCEPT ![m] = "pending"]
    /\ attempts' = [attempts EXCEPT ![m] = 0]
    /\ row' = [row EXCEPT ![m].status = IF @ = "dead" THEN "failed" ELSE @]
    /\ UNCHANGED <<kind, worker, replies, confirmed, answered, crashes>>

\* The memory of the process is lost and its open transaction rolled back.
Crash(w) ==
    /\ crashes < MaxCrashes /\ worker[w].pc # "idle"
    /\ worker' = [worker EXCEPT ![w] = IdleWorker]
    /\ crashes' = crashes + 1
    /\ UNCHANGED <<row, kind, task, attempts, replies, confirmed, answered, replays>>

-----------------------------------------------------------------------------
(* process_message: load the row and decide what there is to do.           *)

LoadMessage(w) ==
    /\ Step(w, "load", [worker[w] EXCEPT !.pc = "begin", !.seen = row[worker[w].message]])
    /\ UNCHANGED <<row, kind, task, attempts, replies, confirmed, answered, crashes, replays>>

\* The lock of the message is busy, or the session fails before it has changed
\* anything: nothing is restored.
FailEarly(w) ==
    /\ Goto(w, "load", "fail") \/ Goto(w, "begin", "fail")
    /\ UNCHANGED <<row, kind, task, attempts, replies, confirmed, answered, crashes, replays>>

SkipSettled(w) ==
    /\ Goto(w, "begin", "complete")
    /\ worker[w].seen.status \notin Unfinished
    /\ UNCHANGED <<row, kind, task, attempts, replies, confirmed, answered, crashes, replays>>

SkipMerged(w) ==
    LET m == worker[w].message IN
    /\ Goto(w, "begin", "complete")
    /\ worker[w].seen.status \in Unfinished /\ worker[w].seen.merged # NoMessage
    /\ Unlocked({m})
    /\ row' = [row EXCEPT ![m].status = "sent"]
    /\ UNCHANGED <<kind, task, attempts, replies, confirmed, answered, crashes, replays>>

StartMessage(w) ==
    LET m == worker[w].message IN
    /\ Step(w, "begin", [worker[w] EXCEPT !.pc = "start", !.seen.status = "processing"])
    /\ worker[w].seen.status \in Unfinished /\ worker[w].seen.merged = NoMessage
    /\ Unlocked({m})
    /\ row' = [row EXCEPT ![m].status =
                  IF worker[w].seen.status = "processing" THEN @ ELSE "processing"]
    /\ UNCHANGED <<kind, task, attempts, replies, confirmed, answered, crashes, replays>>

\* A command that the policy blocks without a word.
IgnoreCommand(w) ==
    LET m == worker[w].message IN
    /\ Goto(w, "start", "complete")
    /\ kind[m] = "command" /\ Unlocked({m})
    /\ row' = [row EXCEPT ![m].status = "ignored"]
    /\ UNCHANGED <<kind, task, attempts, replies, confirmed, answered, crashes, replays>>

\* The reply to a command is composed without regard to other messages.
AnswerCommand(w) ==
    LET m == worker[w].message IN
    /\ Step(w, "start", [worker[w] EXCEPT !.pc = "fence", !.context = {m}])
    /\ kind[m] \in {"command", "special"}
    /\ UNCHANGED <<row, kind, task, attempts, replies, confirmed, answered, crashes, replays>>

-----------------------------------------------------------------------------
(* _merge_pending_messages and the prompt of _complete_ai.                 *)

\* Faulty: siblings that are being retried are merged as well.
SelectUnfinished(w) ==
    LET m == worker[w].message
        unfinished == {s \in Siblings(m) : row[s].status \in Unfinished}
    IN  /\ Step(w, "start", [worker[w] EXCEPT !.pc = IF unfinished = {} THEN "ask" ELSE "claim",
                                              !.siblings = unfinished])
        /\ kind[m] = "chat"
        /\ UNCHANGED <<row, kind, task, attempts, replies, confirmed, answered, crashes, replays>>

SelectSiblings(w) ==
    LET m == worker[w].message
        queued == {s \in Siblings(m) : row[s].status = "queued"}
    IN  /\ Step(w, "start", [worker[w] EXCEPT !.pc = IF queued = {} THEN "ask" ELSE "claim",
                                              !.siblings = queued])
        /\ kind[m] = "chat"
        /\ UNCHANGED <<row, kind, task, attempts, replies, confirmed, answered, crashes, replays>>

\* The UPDATE takes the siblings that are still queued; the SELECT after it
\* reads them all, whether taken or not.
ClaimSiblings(w) ==
    LET siblings == worker[w].siblings
        taken == {s \in siblings : row[s].status = "queued"}
    IN  /\ Step(w, "claim", [worker[w] EXCEPT !.pc = "tag", !.changed = taken,
                                              !.tags = [s \in Messages |-> IF s \in siblings
                                                                           THEN row[s] ELSE NoRow]])
        /\ Unlocked(siblings)
        /\ UNCHANGED <<row, kind, task, attempts, replies, confirmed, answered, crashes, replays>>

\* The metadata of a sibling is written, all of it as it was read, unless it says
\* already what it shall.
TagSiblings(w) ==
    LET m == worker[w].message
        siblings == worker[w].siblings
        tags == worker[w].tags
    IN  /\ Step(w, "tag", [worker[w] EXCEPT !.pc = "ask", !.changed = {}, !.siblings = {},
                                            !.tags = IdleWorker.tags])
        /\ \A v \in Workers \ {w} : worker[v].changed \cap siblings = {}
        /\ row' = [s \in Messages |->
              [status |-> IF s \in worker[w].changed THEN "processing" ELSE row[s].status,
               merged |-> IF s \in siblings /\ tags[s].merged # m THEN m ELSE row[s].merged,
               dispatch |-> IF s \in siblings /\ tags[s].merged # m THEN tags[s].dispatch
                            ELSE row[s].dispatch]]
        /\ UNCHANGED <<kind, task, attempts, replies, confirmed, answered, crashes, replays>>

\* _complete_ai: what the reply takes up besides the message itself.  The prompt has the
\* newest context_messages rows of the conversation, replies and notices among them,
\* so that some or all of the siblings may be too old for it; and a lost image, a
\* spent quota or a model that is not configured is answered with a fixed text.
AskModel(w) ==
    LET m == worker[w].message
        shown == {s \in Siblings(m) : row[s].status \in {"sent", "processing"}}
    IN  /\ worker[w].pc = "ask"
        /\ \E history \in SUBSET shown :
              worker' = [worker EXCEPT ![w].pc = "fence", ![w].context = {m} \cup history]
        /\ UNCHANGED <<row, kind, task, attempts, replies, confirmed, answered, crashes, replays>>

-----------------------------------------------------------------------------
(* Delivery.                                                               *)

\* Faulty: the fence is raised without a look at it.
RaiseFenceAgain(w) ==
    LET m == worker[w].message IN
    /\ Step(w, "fence", [worker[w] EXCEPT !.pc = "send", !.seen.dispatch = "started"])
    /\ Unlocked({m})
    /\ row' = [row EXCEPT ![m].merged = NoMessage, ![m].dispatch = "started"]
    /\ UNCHANGED <<kind, task, attempts, replies, confirmed, answered, crashes, replays>>

\* The fence is committed before the reply leaves.  Writing metadata_json
\* writes all of it as the session has loaded it.
RaiseFence(w) ==
    LET m == worker[w].message IN
    /\ Step(w, "fence", [worker[w] EXCEPT !.pc = "send", !.seen.dispatch = "started"])
    /\ worker[w].seen.dispatch # "started" /\ Unlocked({m})
    /\ row' = [row EXCEPT ![m].merged = NoMessage, ![m].dispatch = "started"]
    /\ UNCHANGED <<kind, task, attempts, replies, confirmed, answered, crashes, replays>>

\* Faulty: a reply that has been started is taken to have been sent.
TrustTheFence(w) ==
    /\ Goto(w, "fence", "finish")
    /\ worker[w].seen.dispatch = "started"
    /\ UNCHANGED <<row, kind, task, attempts, replies, confirmed, answered, crashes, replays>>

\* It is not known whether an earlier attempt has delivered the reply.
RefuseToResend(w) ==
    /\ Goto(w, "fence", "abort")
    /\ worker[w].seen.dispatch = "started"
    /\ UNCHANGED <<row, kind, task, attempts, replies, confirmed, answered, crashes, replays>>

\* The reply reaches the user; whether the worker learns of it is another matter.
Deliver(w) ==
    LET m == worker[w].message IN
    /\ Goto(w, "send", "finish") \/ Goto(w, "send", "abort")
    /\ replies' = [replies EXCEPT ![m] = @ + 1]
    /\ answered' = answered \cup worker[w].context
    /\ UNCHANGED <<row, kind, task, attempts, confirmed, crashes, replays>>

\* The session sets the metadata to the object that it has written before, which
\* is no change: reply_dispatch stays "started" in the row.
Finish(w) ==
    LET m == worker[w].message IN
    /\ Step(w, "finish", [worker[w] EXCEPT
          !.pc = IF kind[m] = "special" THEN "complete" ELSE "release", !.seen.status = "sent"])
    /\ Unlocked({m})
    /\ row' = [row EXCEPT ![m].status = "sent"]
    /\ confirmed' = confirmed \cup {m}
    /\ UNCHANGED <<kind, task, attempts, replies, answered, crashes, replays>>

\* _release_merged_messages
SelectProcessing(w) ==
    LET m == worker[w].message IN
    /\ Step(w, "release", [worker[w] EXCEPT !.pc = "releasing",
          !.siblings = {s \in Siblings(m) : row[s].status = "processing"}])
    /\ UNCHANGED <<row, kind, task, attempts, replies, confirmed, answered, crashes, replays>>

ReleaseMerged(w) ==
    /\ Step(w, "releasing", [worker[w] EXCEPT !.pc = "complete", !.siblings = {}])
    /\ Unlocked(worker[w].siblings)
    /\ row' = [s \in Messages |-> IF s \in worker[w].siblings
                                  THEN [row[s] EXCEPT !.status = "sent"] ELSE row[s]]
    /\ UNCHANGED <<kind, task, attempts, replies, confirmed, answered, crashes, replays>>

-----------------------------------------------------------------------------
(* Failure: anything that raises between StartMessage and the end.         *)

Raise(w) ==
    /\ worker[w].pc \in {"start", "claim", "tag", "ask", "fence", "send", "finish",
                         "release", "releasing"}
    /\ worker' = [worker EXCEPT ![w] = [@ EXCEPT !.pc = "abort", !.siblings = {}, !.changed = {}]]
    /\ UNCHANGED <<row, kind, task, attempts, replies, confirmed, answered, crashes, replays>>

Abort(w) ==
    LET m == worker[w].message IN
    /\ Goto(w, "abort", "restore")
    /\ Unlocked({m})
    /\ row' = [row EXCEPT ![m].status = IF @ = "sent" THEN @ ELSE "failed"]
    /\ UNCHANGED <<kind, task, attempts, replies, confirmed, answered, crashes, replays>>

\* _restore_merged_messages
SelectMerged(w) ==
    LET m == worker[w].message IN
    /\ Step(w, "restore", [worker[w] EXCEPT !.pc = "restoring",
          !.siblings = {s \in Messages : row[s].merged = m}])
    /\ UNCHANGED <<row, kind, task, attempts, replies, confirmed, answered, crashes, replays>>

RestoreMerged(w) ==
    /\ Step(w, "restoring", [worker[w] EXCEPT !.pc = "fail", !.siblings = {}])
    /\ Unlocked(worker[w].siblings)
    /\ row' = [s \in Messages |-> IF s \in worker[w].siblings
                                  THEN [row[s] EXCEPT !.status = "queued"] ELSE row[s]]
    /\ UNCHANGED <<kind, task, attempts, replies, confirmed, answered, crashes, replays>>

-----------------------------------------------------------------------------

ProcessMessage(w) ==
    \/ LoadMessage(w) \/ FailEarly(w) \/ SkipSettled(w) \/ SkipMerged(w) \/ StartMessage(w)
    \/ IgnoreCommand(w) \/ AnswerCommand(w)
    \/ SelectSiblings(w) \/ ClaimSiblings(w) \/ TagSiblings(w) \/ AskModel(w)
    \/ RaiseFence(w) \/ RefuseToResend(w) \/ Deliver(w) \/ Finish(w)
    \/ SelectProcessing(w) \/ ReleaseMerged(w)
    \/ Raise(w) \/ Abort(w) \/ SelectMerged(w) \/ RestoreMerged(w)

Work(w) == (\E m \in Messages : ClaimTask(w, m))
           \/ ProcessMessage(w) \/ CompleteTask(w) \/ FailTask(w)

Next == \/ \E w \in Workers : Work(w) \/ Crash(w)
        \/ \E m \in Messages : Ingest(m) \/ ReplayTask(m)

Spec == Init /\ [][Next]_vars

Fairness == \A w \in Workers : WF_vars(Work(w))

FairSpec == Spec /\ Fairness

-----------------------------------------------------------------------------

\* Nobody is answered twice: "rather a dead letter than a repeated reply"
\* (the comment above the fence, services.py:612).
AtMostOneReply == \A m \in Messages : replies[m] <= 1

\* A message that counts as sent when its task is over has been taken up by a reply, or
\* will be by the message it was merged into (process_message).
Live(m) == task[m] \in {"pending", "processing"}
SentIsAnswered ==
    \A m \in Messages :
        row[m].status = "sent" /\ ~Live(m) =>
            \/ m \in answered
            \/ row[m].merged # NoMessage /\ Live(row[m].merged)

\* A message counts as sent for no other reason than that a reply has taken it up,
\* that it was merged into another, or that the reply to another message of its
\* conversation has released it (services.py:416-422, 710-716).
SentIsAccountedFor ==
    \A m \in Messages :
        row[m].status = "sent" =>
            \/ m \in answered
            \/ row[m].merged # NoMessage
            \/ Siblings(m) \cap confirmed # {}

\* A message that was merged into another one gets no reply of its own
\* ("no separate reply any more", _release_merged_messages, services.py:1313).
MergedHasNoReply ==
    \A m \in Messages : row[m].merged # NoMessage => replies[m] = 0

\* A message that is skipped because it was "answered with another one"
\* (services.py:416): the other one has been answered, or is still being processed.
SkippedIsAnswered ==
    \A m, main \in Messages :
        row[m].merged = main /\ row[m].status = "sent" => replies[main] # 0 \/ Live(main)

\* Messages that were merged into one that has been answered have been taken up by its
\* reply (the docstring of _merge_pending_messages, services.py:1273).
MergedIsShown ==
    \A m, main \in Messages :
        row[m].merged = main /\ row[m].status = "sent" /\ row[main].status = "sent" =>
            m \in answered

\* A message that is put back in the queue is retried.
NoStrandedMessage ==
    \A m \in Messages : row[m].status \in Unfinished => \E s \in Siblings(m) \cup {m} : Live(s)

\* The queue is used as Queue says.
Hands == [w \in Workers |-> IF worker[w].pc = "idle" THEN {} ELSE {worker[w].message}]
AtomicQueue == INSTANCE Queue WITH
    Tasks <- Messages, Recurrent <- {}, status <- task, hands <- Hands

\* What the workers do with the tasks of messages, process_message included, are operations
\* of the queue that tasks.py implements (QueueSpec of Outbox).
FlowQueueSpec == AtomicQueue!Spec

-----------------------------------------------------------------------------
(***************************************************************************)
(* Why no reply is repeated, whatever is merged with what: once a reply    *)
(* has gone out the row bears a mark that keeps the message from being     *)
(* answered again.  The mark is the fence or, where a session that merges  *)
(* the message has written older metadata over the fence, merged_into.     *)
(***************************************************************************)

Marked(r) == r.dispatch = "started" \/ r.merged # NoMessage

QueueInv ==
    /\ \A m \in Messages : task[m] = "none" => attempts[m] = 0
    /\ \A m \in Messages : row[m].status = "none" => task[m] = "none"
    /\ \A m \in Messages : task[m] \in {"pending", "processing"} => attempts[m] < MaxAttempts

HolderInv ==
    /\ \A w \in Workers : worker[w].pc # "idle" => task[worker[w].message] = "processing"
    /\ \A v, w \in Workers :
          (/\ worker[v].pc # "idle" /\ worker[w].pc # "idle"
           /\ worker[v].message = worker[w].message) => v = w

\* Where the reply to m may still be sent by a worker in state s, it has not
\* gone out yet, or the worker has seen the mark.
Preparing == {"start", "claim", "tag", "ask", "fence"}
Careful(s, m) ==
    /\ s.pc = "begin" => replies[m] = 0 \/ Marked(s.seen)
    /\ s.pc \in Preparing => replies[m] = 0 \/ s.seen.dispatch = "started"
    /\ s.pc = "send" => replies[m] = 0 /\ Marked(row[m])

FenceInv ==
    /\ \A m \in Messages : replies[m] # 0 => Marked(row[m])
    /\ \A w \in Workers : worker[w].pc # "idle" => Careful(worker[w], worker[w].message)

FlowInv == TypeOK /\ QueueInv /\ HolderInv /\ FenceInv /\ AtMostOneReply

-----------------------------------------------------------------------------
(***************************************************************************)
(* Why what counts as sent is accounted for: a message that is processed   *)
(* on its own while it counts as sent was released by a reply to another.  *)
(***************************************************************************)

TakenUp(m) == m \in answered \/ Siblings(m) \cap confirmed # {}

\* A worker in state s with message m.
Accounts(s, m) ==
    /\ s.pc = "begin" /\ s.seen.merged # NoMessage => row[m].merged # NoMessage
    /\ \/ s.pc = "begin" /\ s.seen.status \in Unfinished /\ s.seen.merged = NoMessage
       \/ s.pc \in Preparing \cup {"send"}
       => (row[m].status = "sent" => TakenUp(m))
    /\ s.pc \in {"fence", "send"} => m \in s.context
    /\ s.pc = "finish" => m \in answered
    /\ s.pc \in {"release", "releasing"} => m \in confirmed
    /\ s.pc = "releasing" => s.siblings \subseteq Siblings(m)

AccountInv ==
    /\ SentIsAccountedFor
    /\ \A w \in Workers : worker[w].pc # "idle" => Accounts(worker[w], worker[w].message)

-----------------------------------------------------------------------------
(***************************************************************************)
(* Why no message is stranded where conversations do not have two messages *)
(* to be answered: nobody else touches the row of a message, and what its  *)
(* worker has seen of it is still so.                                      *)
(***************************************************************************)

Apart == \A m, n \in Messages : Conv[m] = Conv[n] => m = n

\* A worker in state s, the row r of its message.
Undisturbed(s, r) ==
    /\ s.siblings = {} /\ s.changed = {} /\ s.seen.merged = NoMessage
    /\ s.pc \notin {"claim", "tag"}
    /\ s.pc = "begin" => s.seen.status = r.status
    /\ s.pc \in {"release", "releasing"} => r.status = "sent"
    /\ s.pc = "complete" => r.status \notin Unfinished

ApartInv ==
    /\ \A m \in Messages :
          /\ row[m].merged = NoMessage
          /\ task[m] = "none" => row[m].status = "none"
          /\ task[m] \in {"done", "dead"} => row[m].status \notin Unfinished
    /\ \A w \in Workers : worker[w].pc # "idle" =>
          Undisturbed(worker[w], row[worker[w].message])

-----------------------------------------------------------------------------
(***************************************************************************)
(* Why one worker gives merged messages no reply of their own: it merges   *)
(* messages that are queued, a queued message has had no reply, and a      *)
(* message that is merged is not processed until it bears the mark no more. *)
(***************************************************************************)

OneByOne == \A v, w \in Workers : v = w

\* A worker in state s with message m.
Orderly(s, m) ==
    /\ s.pc = "begin" => s.seen.status = row[m].status /\ s.seen.merged = row[m].merged
    /\ s.pc \in Preparing \cup {"send"} =>
          row[m].merged = NoMessage /\ row[m].status \notin {"none", "queued"}
    /\ s.pc \in {"claim", "tag"} =>
          \A x \in s.siblings : x \in Siblings(m) /\ row[x].status = "queued"
    /\ s.pc = "restoring" => \A x \in s.siblings : row[x].merged = m

OrderInv ==
    /\ \A m \in Messages : row[m].status \in {"none", "queued"} => replies[m] = 0
    /\ \A w \in Workers : worker[w].pc # "idle" => Orderly(worker[w], worker[w].message)
    /\ MergedHasNoReply

=============================================================================
