---------------------------- MODULE KfSyncProofs ----------------------------
(***************************************************************************)
(* KfSync implements Inbox, for any number of synchronisations and of      *)
(* messages.                                                               *)
(***************************************************************************)
EXTENDS KfSync, TLAPS

\* What is behind n has been stored, or cannot be read.
Covered(n) == 1..n \subseteq stored \cup Unreadable

\* The cursors of the account and of every synchronisation have passed nothing, and a page goes
\* on from where its synchronisation was.
SyncInv ==
    /\ KfSyncTypeOK
    /\ state.value <= mailbox /\ Covered(state.value)
    /\ \A s \in Syncs : /\ syncs[s].cursor <= mailbox /\ Covered(syncs[s].cursor)
                        /\ syncs[s].pc = "page" => /\ syncs[s].cursor <= syncs[s].upto
                                                   /\ syncs[s].upto <= mailbox

USE KfSyncAssumption

\* What a handler is replaced by is a record of a synchronisation.
LEMMA SyncRecord ==
    ASSUME NEW p \in {"idle", "fetch", "page"}, NEW k \in BOOLEAN, NEW c \in 0..MaxMessages,
           NEW u \in 0..MaxMessages, NEW m \in BOOLEAN
    PROVE  [pc |-> p, known |-> k, cursor |-> c, upto |-> u, more |-> m] \in Sync
BY Zenon DEF Sync

LEMMA IdleSyncTyped == IdleSync \in Sync
<1>1. 0 \in 0..MaxMessages
    OBVIOUS
<1> QED
    BY <1>1, SyncRecord, Zenon DEF IdleSync

\* An account without messages fulfils the invariant.
LEMMA SyncInit == KfSyncInit => SyncInv
<1> SUFFICES ASSUME KfSyncInit PROVE SyncInv
    OBVIOUS
<1>1. KfSyncTypeOK
    BY IdleSyncTyped DEF KfSyncInit, KfSyncTypeOK, ChannelState, NoChannelState
<1>2. 1..0 = {}
    OBVIOUS
<1> QED
    BY <1>1, <1>2 DEF KfSyncInit, SyncInv, Covered, NoChannelState, IdleSync

\* One synchronisation changes to the record r, and what is stored only grows.
LEMMA SyncStep ==
    ASSUME SyncInv, NEW s \in Syncs, NEW r \in Sync,
           syncs' = [syncs EXCEPT ![s] = r],
           mailbox' = mailbox, stored \subseteq stored', stored' \subseteq 1..MaxMessages,
           state' \in ChannelState, state'.value <= mailbox, 1..(state'.value) \subseteq stored' \cup Unreadable,
           r.cursor <= mailbox, 1..r.cursor \subseteq stored' \cup Unreadable,
           r.pc = "page" => r.cursor <= r.upto /\ r.upto <= mailbox
    PROVE  SyncInv'
<1>1. KfSyncTypeOK'
    BY DEF SyncInv, KfSyncTypeOK
<1>2. ASSUME NEW q \in Syncs
      PROVE  /\ syncs'[q].cursor <= mailbox' /\ 1..(syncs'[q].cursor) \subseteq stored' \cup Unreadable
             /\ syncs'[q].pc = "page" => /\ syncs'[q].cursor <= syncs'[q].upto
                                         /\ syncs'[q].upto <= mailbox'
    <2>1. CASE q = s
        BY <2>1 DEF SyncInv, KfSyncTypeOK
    <2>2. CASE q # s
        <3>1. syncs'[q] = syncs[q]
            BY <2>2 DEF SyncInv, KfSyncTypeOK
        <3> QED
            BY <3>1 DEF SyncInv, Covered
    <2> QED
        BY <2>1, <2>2
<1> QED
    BY <1>1, <1>2 DEF SyncInv, Covered

LEMMA ReceiveStep == SyncInv /\ Receive => SyncInv' /\ Promise!Next
<1> SUFFICES ASSUME SyncInv, Receive PROVE SyncInv' /\ Promise!Next
    OBVIOUS
<1>1. KfSyncTypeOK'
    BY DEF SyncInv, KfSyncTypeOK, Receive
<1>2. mailbox <= mailbox'
    BY DEF SyncInv, KfSyncTypeOK, Receive
<1>3. /\ state'.value <= mailbox'
      /\ \A s \in Syncs : /\ syncs'[s].cursor <= mailbox'
                          /\ syncs'[s].pc = "page" => syncs'[s].upto <= mailbox'
    BY <1>2 DEF SyncInv, KfSyncTypeOK, ChannelState, Sync, Receive
<1>4. SyncInv'
    BY <1>1, <1>3 DEF SyncInv, Covered, Receive
<1>5. Promise!Arrive
    BY DEF Receive, Promise!Arrive
<1> QED
    BY <1>4, <1>5 DEF Promise!Next

LEMMA ReadCursorStep == ASSUME SyncInv, NEW s \in Syncs, ReadCursor(s)
                        PROVE  SyncInv' /\ UNCHANGED <<mailbox, stored, state.value>>
<1> DEFINE r == [IdleSync EXCEPT !.pc = "fetch", !.known = state.exists, !.cursor = state.value]
<1>1. state.exists \in BOOLEAN /\ state.value \in 0..MaxMessages
    BY DEF SyncInv, KfSyncTypeOK, ChannelState
<1>3. r \in Sync
    BY <1>1, IdleSyncTyped DEF Sync
<1>4. r.cursor = state.value /\ r.pc = "fetch"
    BY IdleSyncTyped DEF Sync
<1>5. /\ syncs' = [syncs EXCEPT ![s] = r] /\ mailbox' = mailbox /\ stored' = stored
      /\ state' = state
    BY DEF ReadCursor
<1> HIDE DEF r
<1> QED
    BY <1>3, <1>4, <1>5, SyncStep DEF SyncInv, KfSyncTypeOK, Covered

LEMMA FetchPageStep == ASSUME SyncInv, NEW s \in Syncs, FetchPage(s)
                       PROVE  SyncInv' /\ UNCHANGED <<mailbox, stored, state.value>>
<1>1. PICK n \in syncs[s].cursor..mailbox :
        syncs' = [syncs EXCEPT ![s].pc = "page", ![s].upto = n, ![s].more = n < mailbox]
    BY DEF FetchPage
<1> DEFINE r == [syncs[s] EXCEPT !.pc = "page", !.upto = n, !.more = n < mailbox]
<1>2. /\ syncs[s] \in Sync /\ syncs[s].cursor \in 0..MaxMessages /\ syncs[s].known \in BOOLEAN
      /\ mailbox \in 0..MaxMessages
    BY DEF SyncInv, KfSyncTypeOK, Sync
<1>3. n \in 0..MaxMessages /\ (n < mailbox) \in BOOLEAN
    BY <1>2
<1>5. r \in Sync
    BY <1>2, <1>3 DEF Sync
<1>6. r.cursor = syncs[s].cursor /\ r.upto = n
    BY <1>2 DEF Sync
<1>7. /\ syncs' = [syncs EXCEPT ![s] = r] /\ mailbox' = mailbox /\ stored' = stored
      /\ state' = state
    BY <1>1 DEF FetchPage, SyncInv, KfSyncTypeOK
<1>8. r.cursor <= r.upto /\ r.upto <= mailbox /\ r.cursor <= mailbox
    BY <1>2, <1>3, <1>6
<1> HIDE DEF r
<1> QED
    BY <1>5, <1>6, <1>7, <1>8, SyncStep DEF SyncInv, KfSyncTypeOK, Covered

\* A page that is committed is taken by the inbox, and the cursor goes behind it.
LEMMA CommitPageStep == ASSUME SyncInv, NEW s \in Syncs, CommitPage(s)
                        PROVE  SyncInv' /\ Promise!Next
<1> DEFINE cursor == syncs[s].cursor
           upto == syncs[s].upto
<1>1. /\ syncs[s] \in Sync /\ cursor \in 0..MaxMessages /\ upto \in 0..MaxMessages
      /\ mailbox \in 0..MaxMessages /\ stored \subseteq 1..MaxMessages
      /\ cursor <= upto /\ upto <= mailbox /\ Covered(cursor)
    BY DEF SyncInv, KfSyncTypeOK, Sync, CommitPage
<1>2. stored' = stored \cup Page(s) /\ mailbox' = mailbox
    BY DEF CommitPage
<1>3. Page(s) \subseteq (1..mailbox) \ Unreadable
    BY <1>1 DEF Page
<1>4. 1..upto \subseteq stored' \cup Unreadable
    BY <1>1, <1>2 DEF Page, Covered
<1>5. /\ state' \in ChannelState /\ state'.value <= mailbox
      /\ 1..(state'.value) \subseteq stored' \cup Unreadable
    <2>1. CASE state' = state
        BY <2>1, <1>2 DEF SyncInv, KfSyncTypeOK, Covered
    <2>2. CASE state' = [exists |-> TRUE, value |-> upto]
        BY <2>2, <1>1, <1>4 DEF ChannelState
    <2> QED
        BY <2>1, <2>2 DEF CommitPage, SavedState
<1>6. PICK r \in Sync : /\ syncs' = [syncs EXCEPT ![s] = r]
                        /\ r.pc # "page" /\ (r.cursor = upto \/ r.cursor = 0)
    <2> DEFINE next == [IdleSync EXCEPT !.pc = "fetch", !.known = TRUE, !.cursor = upto]
    <2>1. next \in Sync
        BY <1>1, IdleSyncTyped DEF Sync
    <2>2. next.pc # "page" /\ next.cursor = upto
        BY IdleSyncTyped DEF Sync
    <2>3. IdleSync \in Sync /\ IdleSync.pc # "page" /\ IdleSync.cursor = 0
        BY IdleSyncTyped DEF IdleSync
    <2>4. syncs' = [syncs EXCEPT ![s] = next] \/ syncs' = [syncs EXCEPT ![s] = IdleSync]
        BY DEF CommitPage, NextPage
    <2> HIDE DEF next
    <2> QED
        BY <2>1, <2>2, <2>3, <2>4
<1>7. r.cursor <= mailbox /\ 1..(r.cursor) \subseteq stored' \cup Unreadable
    BY <1>1, <1>4, <1>6
<1>8. SyncInv'
    <2>1. stored \subseteq stored' /\ stored' \subseteq 1..MaxMessages /\ mailbox' = mailbox
        <3>1. 1..mailbox \subseteq 1..MaxMessages
            BY <1>1
        <3> HIDE DEF cursor, upto
        <3> QED
            BY <1>1, <1>2, <1>3, <3>1
    <2> QED
        BY <1>5, <1>6, <1>7, <2>1, SyncStep
<1>9. Promise!Take(Page(s), state'.value)
    BY <1>1, <1>2, <1>3, <1>5 DEF Promise!Take, ChannelState
<1>10. Page(s) \in SUBSET (1..MaxMessages) /\ state'.value \in 0..MaxMessages
    BY <1>1, <1>3, <1>5 DEF ChannelState
<1> QED
    BY <1>8, <1>9, <1>10 DEF Promise!Next

LEMMA SyncFailsStep == ASSUME SyncInv, NEW s \in Syncs, SyncFails(s)
                       PROVE  SyncInv' /\ UNCHANGED <<mailbox, stored, state.value>>
<1>1. IdleSync.cursor = 0 /\ IdleSync.pc = "idle"
    BY DEF IdleSync
<1>2. /\ syncs' = [syncs EXCEPT ![s] = IdleSync] /\ mailbox' = mailbox /\ stored' = stored
      /\ state' = state
    BY DEF SyncFails
<1>3. 0 <= mailbox /\ 1..0 \subseteq stored' \cup Unreadable
    BY DEF SyncInv, KfSyncTypeOK
<1> QED
    BY <1>1, <1>2, <1>3, IdleSyncTyped, SyncStep DEF SyncInv, KfSyncTypeOK, Covered

\* Every step keeps the invariant and is a step of the inbox or leaves it alone.
LEMMA SyncNext ==
    ASSUME SyncInv, [KfSyncNext]_kfSyncVars
    PROVE  SyncInv' /\ [Promise!Next]_<<mailbox, stored, state.value>>
<1>1. CASE Receive
    BY <1>1, ReceiveStep
<1>2. ASSUME NEW s \in Syncs, ReadCursor(s) \/ FetchPage(s) \/ SyncFails(s)
      PROVE  SyncInv' /\ UNCHANGED <<mailbox, stored, state.value>>
    BY <1>2, ReadCursorStep, FetchPageStep, SyncFailsStep
<1>3. ASSUME NEW s \in Syncs, CommitPage(s) PROVE SyncInv' /\ Promise!Next
    BY <1>3, CommitPageStep
<1>4. CASE UNCHANGED kfSyncVars
    <2>1. UNCHANGED <<mailbox, stored, state, syncs>>
        BY <1>4 DEF kfSyncVars
    <2>2. SyncInv'
        BY <2>1 DEF SyncInv, KfSyncTypeOK, Covered
    <2> QED
        BY <2>1, <2>2
<1> QED
    BY <1>1, <1>2, <1>3, <1>4 DEF KfSyncNext

\* Type correctness: every reachable state of the synchronisations is well typed.
THEOREM SyncTypeCorrect == KfSyncSpec => []KfSyncTypeOK
<1>1. SyncInv => KfSyncTypeOK
    BY DEF SyncInv
<1> QED
    BY <1>1, SyncInit, SyncNext, PTL DEF KfSyncSpec

\* The synchronisations implement the inbox (sync_wecom_messages, services.py 146-182): whatever
\* overlaps, fails and is late, no message of the account is passed over.
THEOREM SyncKeepsPromise == KfSyncSpec => KfInboxSpec
<1>1. KfSyncInit => Promise!Init
    BY DEF KfSyncInit, Promise!Init, NoChannelState
<1> QED
    BY <1>1, SyncInit, SyncNext, PTL DEF KfSyncSpec, KfInboxSpec, Promise!Spec

=============================================================================
