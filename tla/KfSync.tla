------------------------------- MODULE KfSync -------------------------------
(***************************************************************************)
(* The synchronisation of one WeCom customer service account               *)
(* (services.sync_wecom_messages and ingest): pages of messages and the    *)
(* cursor behind them, which are committed together.                       *)
(*                                                                         *)
(* A synchronisation that has lost its lease runs on beside the one that   *)
(* has taken it over (Outbox), so that several run at a time.              *)
(***************************************************************************)
EXTENDS Naturals

CONSTANTS Syncs,          \* synchronisations that can be under way at a time
          MaxMessages,    \* messages that reach the account
          Unreadable      \* those of them without an id, which ingest drops

ASSUME KfSyncAssumption == MaxMessages \in Nat /\ Unreadable \subseteq 1..MaxMessages

VARIABLES mailbox,        \* how many messages the platform has received
          stored,         \* the messages with a row
          state,          \* the row of the account in channel_states
          syncs

kfSyncVars == <<mailbox, stored, state, syncs>>

-----------------------------------------------------------------------------

\* exists: there is a row.  value: the cursor, the number of messages before it (0 without a row).
ChannelState == [exists : BOOLEAN, value : 0..MaxMessages]
NoChannelState == [exists |-> FALSE, value |-> 0]

\* known: the row was there when it was read, or is its own.  cursor: the one that goes with the
\* next request, upto: the one behind the page it has got, more: has_more.
Sync == [pc : {"idle", "fetch", "page"}, known : BOOLEAN, cursor : 0..MaxMessages,
         upto : 0..MaxMessages, more : BOOLEAN]
IdleSync == [pc |-> "idle", known |-> FALSE, cursor |-> 0, upto |-> 0, more |-> FALSE]

KfSyncTypeOK == /\ mailbox \in 0..MaxMessages
                /\ stored \subseteq 1..MaxMessages
                /\ state \in ChannelState
                /\ syncs \in [Syncs -> Sync]

KfSyncInit == /\ mailbox = 0 /\ stored = {} /\ state = NoChannelState
              /\ syncs = [s \in Syncs |-> IdleSync]

-----------------------------------------------------------------------------

Receive == /\ mailbox < MaxMessages /\ mailbox' = mailbox + 1
           /\ UNCHANGED <<stored, state, syncs>>

ReadCursor(s) ==
    /\ syncs[s].pc = "idle"
    /\ syncs' = [syncs EXCEPT ![s] = [IdleSync EXCEPT !.pc = "fetch", !.known = state.exists,
                                                      !.cursor = state.value]]
    /\ UNCHANGED <<mailbox, stored, state>>

\* client.sync answers a page.
FetchPage(s) ==
    /\ syncs[s].pc = "fetch"
    /\ \E n \in syncs[s].cursor..mailbox :
         syncs' = [syncs EXCEPT ![s].pc = "page", ![s].upto = n, ![s].more = n < mailbox]
    /\ UNCHANGED <<mailbox, stored, state>>

Page(s) == ((syncs[s].cursor + 1)..syncs[s].upto) \ Unreadable

\* The row of the account is inserted, or updated where the cursor differs from what the session
\* has last seen in it.
SavedState(s) == IF syncs[s].upto = syncs[s].cursor /\ syncs[s].known THEN state
                 ELSE [exists |-> TRUE, value |-> syncs[s].upto]

\* has_more asks for the next page.
NextPage(s) ==
    syncs' = [syncs EXCEPT ![s] = IF syncs[s].more
                                  THEN [IdleSync EXCEPT !.pc = "fetch", !.known = TRUE,
                                                        !.cursor = syncs[s].upto]
                                  ELSE IdleSync]

\* Faulty: the cursor is saved with the answer of the platform, the messages when all pages are
\* there.
CommitPageLate(s) ==
    /\ syncs[s].pc = "page"
    /\ syncs[s].known \/ ~state.exists
    /\ stored' = IF syncs[s].more THEN stored ELSE stored \cup Page(s)
    /\ state' = SavedState(s)
    /\ NextPage(s)
    /\ UNCHANGED mailbox

\* The page, without what has a row, and the cursor.  Two cannot insert the row of the account.
CommitPage(s) ==
    /\ syncs[s].pc = "page"
    /\ syncs[s].known \/ ~state.exists
    /\ stored' = stored \cup Page(s)
    /\ state' = SavedState(s)
    /\ NextPage(s)
    /\ UNCHANGED mailbox

\* The platform refuses or cannot be reached; another synchronisation inserts a message that this
\* one has not found; the worker dies.
SyncFails(s) ==
    /\ syncs[s].pc # "idle"
    /\ syncs' = [syncs EXCEPT ![s] = IdleSync]
    /\ UNCHANGED <<mailbox, stored, state>>

KfSyncNext == Receive \/ \E s \in Syncs : \/ ReadCursor(s) \/ FetchPage(s)
                                          \/ CommitPage(s) \/ SyncFails(s)

KfSyncSpec == KfSyncInit /\ [][KfSyncNext]_kfSyncVars

-----------------------------------------------------------------------------

\* The account keeps the promise of Inbox: no message that has arrived is passed over, whatever
\* pages fail, however late a synchronisation commits its own and to wherever it takes the cursor
\* back (services.py:159).
Promise == INSTANCE Inbox WITH arrived <- mailbox, taken <- stored, passed <- state.value
KfInboxSpec == Promise!Spec

=============================================================================
