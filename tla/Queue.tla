-------------------------------- MODULE Queue --------------------------------
(***************************************************************************)
(* What the outbox promises to the code that runs its tasks: a queue whose *)
(* operations are atomic.  A task that is to be done is in the hands of at *)
(* most one worker, is tried at most MaxAttempts times before it is given  *)
(* up, and leaves the queue only through the worker that has it.  A worker *)
(* may lose what it has in hand; then the task can be claimed again.       *)
(***************************************************************************)
EXTENDS Naturals

CONSTANTS Tasks, Workers, MaxAttempts,
          Recurrent       \* tasks that may be asked for again: synchronisations

VARIABLES status, attempts,
          hands           \* what each worker has in hand, one task or nothing

Free(t) == \A w \in Workers : t \notin hands[w]

Init == /\ status = [t \in Tasks |-> "none"]
        /\ attempts = [t \in Tasks |-> 0]
        /\ hands = [w \in Workers |-> {}]

Missing(new) == \A t \in new : status[t] = "none"

Add(new) ==
    /\ Missing(new)
    /\ status' = [t \in Tasks |-> IF t \in new THEN "pending" ELSE status[t]]
    /\ UNCHANGED <<attempts, hands>>

Claim(w, t) ==
    /\ hands[w] = {} /\ Free(t)
    /\ status[t] \in {"pending", "processing"}
    /\ status' = [status EXCEPT ![t] = "processing"]
    /\ hands' = [hands EXCEPT ![w] = {t}]
    /\ UNCHANGED attempts

\* A worker is through with t; what else is due has been added to the queue.
PutDown(w, t, result, new) ==
    /\ t \in hands[w] /\ t \notin new /\ Missing(new)
    /\ status' = [u \in Tasks |-> IF u = t THEN result
                                  ELSE IF u \in new THEN "pending" ELSE status[u]]
    /\ hands' = [hands EXCEPT ![w] = {}]

Complete(w, t) ==
    /\ \E result \in {"done"} \cup {s \in {"pending"} : t \in Recurrent} : PutDown(w, t, result, {})
    /\ UNCHANGED attempts

\* With a task that is given up another one may become due, its notification.
Fail(w, t) ==
    /\ attempts' = [attempts EXCEPT ![t] = @ + 1]
    /\ IF attempts'[t] < MaxAttempts
       THEN PutDown(w, t, "pending", {})
       ELSE \E new \in {{}} \cup {{u} : u \in Tasks} : PutDown(w, t, "dead", new)

Lose(w) == /\ hands' = [hands EXCEPT ![w] = {}]
           /\ UNCHANGED <<status, attempts>>

\* A dead task starts over, and so does a recurrent one that is done.
StartOver(t) ==
    /\ status[t] \in {"dead"} \cup {s \in {"done"} : t \in Recurrent}
    /\ status' = [status EXCEPT ![t] = "pending"]
    /\ attempts' = [attempts EXCEPT ![t] = 0]
    /\ UNCHANGED hands

Next == \/ \E new \in SUBSET Tasks : Add(new)
        \/ \E w \in Workers : Lose(w)
        \/ \E w \in Workers, t \in Tasks : Claim(w, t) \/ Complete(w, t) \/ Fail(w, t)
        \/ \E t \in Tasks : StartOver(t)

Spec == Init /\ [][Next]_<<status, attempts, hands>>

=============================================================================
