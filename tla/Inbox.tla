-------------------------------- MODULE Inbox --------------------------------
(***************************************************************************)
(* What a channel promises its users: a message that has arrived on the    *)
(* platform stays there until the gateway has taken it; what cannot be     *)
(* read is skipped.  A channel may read again what was taken already.      *)
(***************************************************************************)
EXTENDS Naturals

CONSTANTS MaxMessages, Unreadable

VARIABLES arrived,        \* how many messages have arrived
          taken,          \* the messages that the gateway has stored
          passed          \* how many the channel will not ask for again

Init == arrived = 0 /\ taken = {} /\ passed = 0

Arrive == /\ arrived < MaxMessages /\ arrived' = arrived + 1
          /\ UNCHANGED <<taken, passed>>

\* Messages are taken, none that has not arrived, and the channel goes on, or back, to a place
\* behind which nothing is left untaken.
Take(messages, n) ==
    /\ messages \subseteq (1..arrived) \ Unreadable
    /\ taken' = taken \cup messages
    /\ n \in 0..arrived /\ 1..n \subseteq taken' \cup Unreadable
    /\ passed' = n
    /\ UNCHANGED arrived

Next == Arrive \/ \E messages \in SUBSET (1..MaxMessages), n \in 0..MaxMessages : Take(messages, n)

Spec == Init /\ [][Next]_<<arrived, taken, passed>>

=============================================================================
