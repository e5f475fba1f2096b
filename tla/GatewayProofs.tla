---------------------------- MODULE GatewayProofs ----------------------------
(***************************************************************************)
(* The index of a document follows its text, one card is in use, and the   *)
(* five parts of MCGateway are well typed, for any number of requests,     *)
(* texts and cards.                                                        *)
(***************************************************************************)
EXTENDS MCGateway, SessionsProofs, CompletionProofs, KfSyncProofs, FiniteSetTheorems

\* A request that re-indexes or migrates the item and may still write holds the text the user
\* has given last.
UpToDate(w) ==
    w.pc \in {"reindex", "reindexing", "migrate"} =>
        /\ w.row # 0 /\ w.row <= texts
        /\ w.row = item.row /\ ~w.overtaken /\ ~item.overrun
             /\ ~(w.pc = "reindexing" /\ w.beaten) => w.text = item.saved

IndexInv == /\ KnowledgeTypeOK
            /\ item.row <= texts
            /\ item.legacy => item.row # 0
            /\ IndexIsCurrent
            /\ \A k \in Writers : UpToDate(writers[k])

USE KnowledgeAssumption

\* The items and the requests that the actions make.
LEMMA ItemTyped ==
    ASSUME NEW r \in 0..MaxTexts, NEW t \in 0..MaxTexts, NEW i \in 0..MaxTexts, NEW s \in 0..MaxTexts
    PROVE  [NoItem EXCEPT !.row = r, !.text = t, !.saved = s, !.index = i] \in KnowledgeItem
<1>1. 0 \in 0..MaxTexts
    OBVIOUS
<1> QED
    BY <1>1 DEF NoItem, KnowledgeItem

LEMMA IdleWriterTyped == IdleWriter \in Writer /\ IdleWriter.pc = "idle"
<1>1. 0 \in 0..MaxTexts
    OBVIOUS
<1>2. IdleWriter \in Writer
    BY <1>1, Zenon DEF IdleWriter, Writer
<1> QED
    BY <1>2 DEF IdleWriter

\* One request changes to w and the item stays.
LEMMA OneWriter ==
    ASSUME IndexInv, NEW k \in Writers, NEW w \in Writer, UpToDate(w),
           writers' = [writers EXCEPT ![k] = w], UNCHANGED <<item, texts>>
    PROVE  IndexInv'
BY DEF IndexInv, KnowledgeTypeOK, IndexIsCurrent, UpToDate

LEMMA CloseStep ==
    ASSUME IndexInv, NEW k \in Writers, Close(k), UNCHANGED <<item, texts>> PROVE IndexInv'
<1>1. UpToDate(IdleWriter)
    BY IdleWriterTyped DEF UpToDate
<1> QED
    BY <1>1, IdleWriterTyped, OneWriter DEF Close

\* What the other requests become when k commits chunks.
LEMMA Beaten ==
    ASSUME IndexInv, NEW k \in Writers, NEW fresh \in BOOLEAN, Beat(k, fresh)
    PROVE  /\ writers' \in [Writers -> Writer]
           /\ \A g \in Writers : \/ writers'[g] = IdleWriter
                                 \/ /\ writers'[g].pc = writers[g].pc
                                    /\ writers'[g].row = writers[g].row
                                    /\ writers'[g].text = writers[g].text
                                    /\ writers'[g].beaten = (writers[g].beaten \/ writers[g].pc = "reindexing")
                                    /\ writers'[g].overtaken =
                                         (writers[g].overtaken
                                            \/ (fresh /\ writers[g].pc \in {"reindex", "migrate"}))
<1> DEFINE w(g) == [writers[g] EXCEPT
                     !.beaten = @ \/ writers[g].pc = "reindexing",
                     !.overtaken = @ \/ (fresh /\ writers[g].pc \in {"reindex", "migrate"})]
<1>1. ASSUME NEW g \in Writers
      PROVE  /\ w(g) \in Writer
             /\ w(g).pc = writers[g].pc /\ w(g).row = writers[g].row /\ w(g).text = writers[g].text
             /\ w(g).beaten = (writers[g].beaten \/ writers[g].pc = "reindexing")
             /\ w(g).overtaken = (writers[g].overtaken
                                    \/ (fresh /\ writers[g].pc \in {"reindex", "migrate"}))
    <2>1. writers[g] \in Writer
        BY DEF IndexInv, KnowledgeTypeOK
    <2> QED
        BY <2>1 DEF Writer
<1>2. writers' = [g \in Writers |-> IF g = k THEN IdleWriter ELSE w(g)]
    BY DEF Beat
<1> HIDE DEF w
<1> QED
    BY <1>1, <1>2, IdleWriterTyped

-----------------------------------------------------------------------------

LEMMA IndexInit == KnowledgeInit => IndexInv
<1> SUFFICES ASSUME KnowledgeInit PROVE IndexInv
    OBVIOUS
<1>1. 0 \in 0..MaxTexts /\ 1 \in 0..MaxTexts
    OBVIOUS
<1>2. /\ NoItem \in KnowledgeItem /\ NoItem.row = 0 /\ ~NoItem.legacy
      /\ LegacyItem \in KnowledgeItem /\ LegacyItem.row = 1 /\ LegacyItem.text = 1
      /\ LegacyItem.saved = 1 /\ LegacyItem.legacy
    BY <1>1 DEF NoItem, LegacyItem, KnowledgeItem
<1>3. \A k \in Writers : UpToDate(writers[k])
    BY IdleWriterTyped DEF KnowledgeInit, UpToDate
<1> QED
    BY <1>1, <1>2, <1>3, IdleWriterTyped DEF KnowledgeInit, IndexInv, KnowledgeTypeOK, IndexIsCurrent

\* A request that has just read the item.
LEMMA ReadStep ==
    ASSUME IndexInv, NEW k \in Writers, AddRead(k) \/ ReindexRead(k) \/ MigrateRead(k)
    PROVE  IndexInv'
<1>1. item \in KnowledgeItem /\ item.row \in 0..MaxTexts /\ item.text \in 0..MaxTexts
    BY DEF IndexInv, KnowledgeTypeOK, KnowledgeItem
<1>2. CASE AddRead(k)
    <2> DEFINE w == [IdleWriter EXCEPT !.pc = "add", !.row = item.row]
    <2>1. w \in Writer /\ w.pc = "add"
        BY <1>1, IdleWriterTyped DEF Writer
    <2>2. UpToDate(w)
        BY <2>1 DEF UpToDate
    <2> QED
        BY <1>2, <2>1, <2>2, OneWriter DEF AddRead, Open
<1>3. ASSUME NEW p \in {"reindex", "migrate"}, p = "migrate" => item.legacy, p = "reindex" => item.row # 0,
             Open(k, [IdleWriter EXCEPT !.pc = p, !.row = item.row, !.text = item.text]),
             UNCHANGED <<item, texts>>
      PROVE  IndexInv'
    <2> DEFINE w == [IdleWriter EXCEPT !.pc = p, !.row = item.row, !.text = item.text]
    <2>1. w \in Writer /\ w.pc = p /\ w.row = item.row /\ w.text = item.text
        BY <1>1, IdleWriterTyped DEF Writer
    <2>2. UpToDate(w)
        BY <1>3, <2>1 DEF UpToDate, IndexInv, IndexIsCurrent
    <2> QED
        BY <1>3, <2>1, <2>2, OneWriter DEF Open
<1> QED
    BY <1>2, <1>3 DEF ReindexRead, MigrateRead

LEMMA AddWriteStep == ASSUME IndexInv, NEW k \in Writers, AddWrite(k) PROVE IndexInv'
<1>1. CASE Close(k) /\ UNCHANGED <<item, texts>>
    BY <1>1, CloseStep
<1>2. CASE /\ texts' = texts + 1 /\ Beat(k, TRUE)
           /\ item' = [NoItem EXCEPT !.row = IF item.row = 0 THEN texts + 1 ELSE item.row,
                                     !.text = texts + 1, !.saved = texts + 1, !.index = texts + 1]
    <2> DEFINE r == IF item.row = 0 THEN texts + 1 ELSE item.row
    <2>1. texts + 1 \in 0..MaxTexts /\ r \in 0..MaxTexts /\ r # 0 /\ r <= texts + 1
        BY DEF IndexInv, KnowledgeTypeOK, KnowledgeItem, AddWrite
    <2>2. /\ item' \in KnowledgeItem /\ item'.row = r /\ item'.text = texts + 1
          /\ item'.saved = texts + 1 /\ item'.index = texts + 1 /\ ~item'.legacy
        BY <1>2, <2>1, ItemTyped DEF NoItem
    <2>3. \A g \in Writers : UpToDate(writers[g])'
        <3> SUFFICES ASSUME NEW g \in Writers PROVE UpToDate(writers[g])'
            OBVIOUS
        <3>1. UpToDate(writers[g]) /\ texts \in Nat /\ writers[g] \in Writer
            BY DEF IndexInv, KnowledgeTypeOK
        <3>2. writers[g].row \in 0..MaxTexts /\ writers[g].beaten \in BOOLEAN /\ writers[g].overtaken \in BOOLEAN
            BY <3>1 DEF Writer
        <3>3. CASE writers'[g] = IdleWriter
            BY <3>3, IdleWriterTyped DEF UpToDate
        <3>4. CASE /\ writers'[g].pc = writers[g].pc /\ writers'[g].row = writers[g].row
                   /\ writers'[g].beaten = (writers[g].beaten \/ writers[g].pc = "reindexing")
                   /\ writers'[g].overtaken =
                        (writers[g].overtaken \/ writers[g].pc \in {"reindex", "migrate"})
            <4>1. writers[g].pc \in {"reindex", "migrate"} => writers'[g].overtaken
                BY <3>4
            <4>2. writers[g].pc = "reindexing" => writers'[g].beaten
                BY <3>4
            <4>3. writers[g].row <= texts => writers[g].row <= texts'
                BY <1>2, <3>1, <3>2
            <4> HIDE DEF r
            <4> QED
                BY <3>1, <3>4, <4>1, <4>2, <4>3 DEF UpToDate
        <3> QED
            BY <1>2, <3>3, <3>4, Beaten
    <2> QED
        BY <1>2, <2>1, <2>2, <2>3, Beaten DEF IndexInv, KnowledgeTypeOK, IndexIsCurrent
<1> QED
    BY <1>1, <1>2 DEF AddWrite

LEMMA ReindexClearStep == ASSUME IndexInv, NEW k \in Writers, ReindexClear(k) PROVE IndexInv'
<1> DEFINE w == [writers[k] EXCEPT !.pc = "reindexing"]
<1>1. writers[k] \in Writer /\ UpToDate(writers[k]) /\ writers[k].pc = "reindex"
    BY DEF IndexInv, KnowledgeTypeOK, ReindexClear
<1>2. /\ w \in Writer /\ w.pc = "reindexing" /\ w.row = writers[k].row /\ w.text = writers[k].text
      /\ w.overtaken = writers[k].overtaken
    BY <1>1 DEF Writer
<1>3. writers' = [writers EXCEPT ![k] = w] /\ UNCHANGED <<item, texts>>
    BY DEF ReindexClear, IndexInv, KnowledgeTypeOK
<1> HIDE DEF w
<1>4. UpToDate(w)
    BY <1>1, <1>2 DEF UpToDate
<1> QED
    BY <1>2, <1>3, <1>4, OneWriter

\* A request that writes what it has read: the index, or text and index.
LEMMA WriteBack ==
    ASSUME IndexInv, NEW k \in Writers, Beat(k, FALSE), UNCHANGED texts, item' \in KnowledgeItem,
           item.row = writers[k].row, writers[k].pc \in {"reindexing", "migrate"},
           ~(writers[k].pc = "reindexing" /\ writers[k].beaten),
           item'.row = item.row, item'.saved = item.saved, item'.index = writers[k].text,
           item'.text \in {item.text, writers[k].text}, item'.legacy => item.legacy,
           item'.overrun = (item.overrun \/ writers[k].overtaken)
    PROVE  IndexInv'
<1>1. \A g \in Writers : UpToDate(writers[g])'
    <2> SUFFICES ASSUME NEW g \in Writers PROVE UpToDate(writers[g])'
        OBVIOUS
    <2>1. UpToDate(writers[g]) /\ writers[g] \in Writer
        BY DEF IndexInv, KnowledgeTypeOK
    <2>2. writers[g].beaten \in BOOLEAN /\ writers[g].overtaken \in BOOLEAN
        BY <2>1 DEF Writer
    <2> QED
        BY <2>1, <2>2, Beaten, IdleWriterTyped DEF UpToDate
<1>2. UpToDate(writers[k])
    BY DEF IndexInv
<1>3. IndexIsCurrent'
    BY <1>2 DEF IndexInv, IndexIsCurrent, UpToDate
<1> QED
    BY <1>1, <1>3, Beaten DEF IndexInv, KnowledgeTypeOK

LEMMA ReindexWriteStep == ASSUME IndexInv, NEW k \in Writers, ReindexWrite(k) PROVE IndexInv'
<1>1. CASE Close(k) /\ UNCHANGED item
    BY <1>1, CloseStep DEF ReindexWrite
<1>2. CASE /\ item.row = writers[k].row /\ ~writers[k].beaten /\ Beat(k, FALSE)
           /\ item' = [item EXCEPT !.index = writers[k].text, !.overrun = @ \/ writers[k].overtaken]
    <2>1. item \in KnowledgeItem /\ writers[k] \in Writer
        BY DEF IndexInv, KnowledgeTypeOK
    <2>2. writers[k].text \in 0..MaxTexts /\ writers[k].overtaken \in BOOLEAN
        BY <2>1 DEF Writer
    <2>3. /\ item' \in KnowledgeItem /\ item'.row = item.row /\ item'.saved = item.saved
          /\ item'.index = writers[k].text /\ item'.text = item.text /\ item'.legacy = item.legacy
          /\ item'.overrun = (item.overrun \/ writers[k].overtaken)
        BY <1>2, <2>1, <2>2 DEF KnowledgeItem
    <2>4. writers[k].pc = "reindexing" /\ texts' = texts
        BY DEF ReindexWrite
    <2> QED
        BY <1>2, <2>3, <2>4, WriteBack
<1> QED
    BY <1>1, <1>2 DEF ReindexWrite

LEMMA MigrateWriteStep == ASSUME IndexInv, NEW k \in Writers, MigrateWrite(k) PROVE IndexInv'
<1>1. CASE Close(k) /\ UNCHANGED item
    BY <1>1, CloseStep DEF MigrateWrite
<1>2. CASE /\ item.row = writers[k].row /\ Beat(k, FALSE)
           /\ item' = [item EXCEPT !.text = writers[k].text, !.index = writers[k].text,
                                   !.legacy = FALSE, !.overrun = @ \/ writers[k].overtaken]
    <2>1. item \in KnowledgeItem /\ writers[k] \in Writer
        BY DEF IndexInv, KnowledgeTypeOK
    <2>2. writers[k].text \in 0..MaxTexts /\ writers[k].overtaken \in BOOLEAN
        BY <2>1 DEF Writer
    <2>3. /\ item' \in KnowledgeItem /\ item'.row = item.row /\ item'.saved = item.saved
          /\ item'.index = writers[k].text /\ item'.text = writers[k].text /\ ~item'.legacy
          /\ item'.overrun = (item.overrun \/ writers[k].overtaken)
        BY <1>2, <2>1, <2>2 DEF KnowledgeItem
    <2>4. writers[k].pc = "migrate" /\ texts' = texts
        BY DEF MigrateWrite
    <2> QED
        BY <1>2, <2>3, <2>4, WriteBack
<1> QED
    BY <1>1, <1>2 DEF MigrateWrite

LEMMA DeleteStep == ASSUME IndexInv, DeleteItem PROVE IndexInv'
<1>1. 0 \in 0..MaxTexts
    OBVIOUS
<1>2. item' = NoItem /\ NoItem \in KnowledgeItem /\ NoItem.row = 0 /\ ~NoItem.legacy
    BY <1>1 DEF DeleteItem, NoItem, KnowledgeItem
<1>3. UNCHANGED <<texts, writers>>
    BY DEF DeleteItem
<1> QED
    BY <1>2, <1>3 DEF IndexInv, KnowledgeTypeOK, IndexIsCurrent, UpToDate

LEMMA IndexNext == ASSUME IndexInv, [KnowledgeNext]_knowledgeVars PROVE IndexInv'
<1>1. CASE UNCHANGED knowledgeVars
    BY <1>1 DEF knowledgeVars, IndexInv, KnowledgeTypeOK, IndexIsCurrent, UpToDate
<1>2. ASSUME NEW k \in Writers, Drop(k) PROVE IndexInv'
    BY <1>2, CloseStep DEF Drop
<1> QED
    BY <1>1, <1>2, ReadStep, AddWriteStep, ReindexClearStep, ReindexWriteStep, MigrateWriteStep, DeleteStep
       DEF KnowledgeNext

\* Type correctness: every reachable state of a document is well typed.
THEOREM KnowledgeTypeCorrect == KnowledgeSpec => []KnowledgeTypeOK
<1>1. IndexInv => KnowledgeTypeOK
    BY DEF IndexInv
<1> QED
    BY <1>1, IndexInit, IndexNext, PTL DEF KnowledgeSpec

\* The index follows the text (knowledge.py 168-298): whatever adds, re-indexes,
\* migrations and deletions overlap, only a request that had read an older text and writes after
\* the new one was given can leave them apart.
THEOREM IndexFollowsText == KnowledgeSpec => []IndexIsCurrent
<1>1. IndexInv => IndexIsCurrent
    BY DEF IndexInv
<1> QED
    BY <1>1, IndexInit, IndexNext, PTL DEF KnowledgeSpec

-----------------------------------------------------------------------------
\* A request that is about to put its card in use, and that no other has overtaken, takes the
\* flag from every card that has it; one that has inserted a card has one.
TakesAll(w) == /\ w.pc \in {"cleared", "inserted"} /\ ~w.overtaken => flagged \subseteq w.cleared
               /\ w.pc = "inserted" => w.card \in Cards

AtMostOne == \A a, b \in flagged : a = b

CardsInv == /\ CardsTypeOK
            /\ crossed \/ AtMostOne
            /\ \A k \in Clients : TakesAll(clients[k])

USE CardsAssumption

LEMMA IdleClientTyped == IdleClient \in Client /\ IdleClient.pc = "idle"
<1>1. IdleClient \in Client
    BY Zenon DEF IdleClient, Client
<1> QED
    BY <1>1 DEF IdleClient

\* One request changes to w; no card gets a flag.
LEMMA OneClient ==
    ASSUME CardsInv, NEW k \in Clients, NEW w \in Client, TakesAll(w),
           clients' = [clients EXCEPT ![k] = w], UNCHANGED <<flagged, chosen, preset, crossed>>,
           cards \subseteq cards', cards' \subseteq Cards
    PROVE  CardsInv'
<1>1. CardsTypeOK'
    BY DEF CardsInv, CardsTypeOK
<1>2. \A g \in Clients : TakesAll(clients[g])'
    BY DEF CardsInv, CardsTypeOK, TakesAll
<1> QED
    BY <1>1, <1>2 DEF CardsInv, AtMostOne

LEMMA LeaveStep ==
    ASSUME CardsInv, NEW k \in Clients, Leaves(k), UNCHANGED <<flagged, chosen, preset, crossed>>,
           cards \subseteq cards', cards' \subseteq Cards
    PROVE  CardsInv'
<1>1. TakesAll(IdleClient)
    BY IdleClientTyped DEF TakesAll
<1> QED
    BY <1>1, IdleClientTyped, OneClient DEF Leaves

\* The requests stay, and a card may lose its flag.
LEMMA OthersStep ==
    ASSUME CardsInv, UNCHANGED <<clients, crossed>>, flagged' \subseteq flagged, CardsTypeOK'
    PROVE  CardsInv'
BY DEF CardsInv, AtMostOne, TakesAll

-----------------------------------------------------------------------------

LEMMA CardsInitInv == CardsInit => CardsInv
BY IdleClientTyped DEF CardsInit, CardsInv, CardsTypeOK, AtMostOne, TakesAll

LEMMA CountStep == ASSUME CardsInv, NEW k \in Clients, CountCards(k) PROVE CardsInv'
<1>1. PICK at \in {"create", "new"} : Arrives(k, [IdleClient EXCEPT !.pc = at, !.had = chosen])
    BY DEF CountCards
<1> DEFINE w == [IdleClient EXCEPT !.pc = at, !.had = chosen]
<1>2. chosen \in Cards \cup {NoCard}
    BY DEF CardsInv, CardsTypeOK
<1>3. w \in Client /\ w.pc = at
    BY <1>2, IdleClientTyped DEF Client
<1>4. TakesAll(w)
    BY <1>3 DEF TakesAll
<1>5. cards' = cards /\ cards \subseteq Cards /\ UNCHANGED <<flagged, chosen, preset, crossed>>
    BY DEF CountCards, CardsInv, CardsTypeOK
<1> QED
    BY <1>1, <1>3, <1>4, <1>5, OneClient DEF Arrives

LEMMA CreateStep == ASSUME CardsInv, NEW k \in Clients, CreateCard(k) PROVE CardsInv'
<1>1. cards \subseteq cards' /\ cards' \subseteq Cards
    BY DEF CreateCard, NewRows, CardsInv, CardsTypeOK
<1>2. Leaves(k) /\ UNCHANGED <<flagged, chosen, preset, crossed>>
    BY DEF CreateCard
<1> QED
    BY <1>1, <1>2, LeaveStep

LEMMA NewCardStep == ASSUME CardsInv, NEW k \in Clients, NewCard(k) PROVE CardsInv'
<1>1. PICK c \in NewRows : clients' = [clients EXCEPT ![k].pc = "inserted", ![k].card = c,
                                                      ![k].cleared = flagged]
    BY DEF NewCard
<1> DEFINE w == [clients[k] EXCEPT !.pc = "inserted", !.card = c, !.cleared = flagged]
<1>2. clients[k] \in Client /\ c \in Cards /\ flagged \in SUBSET Cards
    BY DEF CardsInv, CardsTypeOK, NewRows
<1>3. w \in Client /\ w.cleared = flagged /\ w.card \in Cards
    BY <1>2 DEF Client
<1>4. TakesAll(w)
    BY <1>3 DEF TakesAll
<1>5. clients' = [clients EXCEPT ![k] = w]
    BY <1>1 DEF CardsInv, CardsTypeOK
<1>6. cards' = cards /\ cards \subseteq Cards /\ UNCHANGED <<flagged, chosen, preset, crossed>>
    BY DEF NewCard, CardsInv, CardsTypeOK
<1> HIDE DEF w
<1> QED
    BY <1>3, <1>4, <1>5, <1>6, OneClient

LEMMA PickStep == ASSUME CardsInv, NEW k \in Clients, PickCard(k) PROVE CardsInv'
<1>1. PICK c \in cards : Arrives(k, [IdleClient EXCEPT !.pc = "use", !.card = c, !.lit = c \in flagged,
                                                       !.had = chosen])
    BY DEF PickCard
<1> DEFINE w == [IdleClient EXCEPT !.pc = "use", !.card = c, !.lit = c \in flagged, !.had = chosen]
<1>2. chosen \in Cards \cup {NoCard} /\ c \in Cards /\ (c \in flagged) \in BOOLEAN
    BY DEF CardsInv, CardsTypeOK
<1>3. w \in Client /\ w.pc = "use"
    BY <1>2, IdleClientTyped DEF Client
<1>4. TakesAll(w)
    BY <1>3 DEF TakesAll
<1>5. cards' = cards /\ cards \subseteq Cards /\ UNCHANGED <<flagged, chosen, preset, crossed>>
    BY DEF PickCard, CardsInv, CardsTypeOK
<1> QED
    BY <1>1, <1>3, <1>4, <1>5, OneClient DEF Arrives

LEMMA ClearStep == ASSUME CardsInv, NEW k \in Clients, ClearFlags(k) PROVE CardsInv'
<1>1. PICK had \in {clients[k].had, chosen} :
        clients' = [clients EXCEPT ![k].pc = "cleared", ![k].had = had, ![k].cleared = flagged]
    BY DEF ClearFlags
<1> DEFINE w == [clients[k] EXCEPT !.pc = "cleared", !.had = had, !.cleared = flagged]
<1>2. clients[k] \in Client /\ had \in Cards \cup {NoCard} /\ flagged \in SUBSET Cards
    BY DEF CardsInv, CardsTypeOK, Client
<1>3. w \in Client /\ w.cleared = flagged /\ w.pc = "cleared"
    BY <1>2 DEF Client
<1>4. TakesAll(w)
    BY <1>3 DEF TakesAll
<1>5. clients' = [clients EXCEPT ![k] = w]
    BY <1>1 DEF CardsInv, CardsTypeOK
<1>6. cards' = cards /\ cards \subseteq Cards /\ UNCHANGED <<flagged, chosen, preset, crossed>>
    BY DEF ClearFlags, CardsInv, CardsTypeOK
<1> HIDE DEF w
<1> QED
    BY <1>3, <1>4, <1>5, <1>6, OneClient

\* A request that is overtaken differs in nothing else.
LEMMA OvertakenTyped ==
    ASSUME NEW w \in Client
    PROVE  /\ Overtaken(w) \in Client /\ Overtaken(w).pc = w.pc /\ Overtaken(w).card = w.card
           /\ Overtaken(w).pc \in {"cleared", "inserted"} => Overtaken(w).overtaken
BY DEF Client, Overtaken

\* The commit: of the cards that had the flag only those are left that this request has not
\* seen, none unless it was overtaken; the others that are about to commit are overtaken now.
LEMMA SetActiveStep == ASSUME CardsInv, NEW k \in Clients, SetActiveCard(k) PROVE CardsInv'
<1> DEFINE c == clients[k].card
<1>1. CASE Dangling(k) /\ Leaves(k) /\ UNCHANGED <<cards, flagged, chosen, crossed>>
    <2>1. UNCHANGED preset /\ cards' \subseteq Cards
        BY <1>1 DEF SetActiveCard, CardsInv, CardsTypeOK
    <2> QED
        BY <1>1, <2>1, LeaveStep
<1>2. CASE /\ ~Dangling(k)
           /\ cards' = IF clients[k].pc = "inserted" THEN cards \cup {c} ELSE cards
           /\ flagged' = (flagged \ clients[k].cleared) \cup (IF clients[k].lit THEN {} ELSE {c})
           /\ chosen' = IF clients[k].had = c THEN chosen ELSE c
           /\ crossed' = clients[k].overtaken
           /\ clients' = [g \in Clients |-> IF g = k THEN IdleClient ELSE Overtaken(clients[g])]
    <2>1. clients[k] \in Client /\ clients[k].pc \in {"cleared", "inserted"} /\ TakesAll(clients[k])
        BY DEF SetActiveCard, CardsInv, CardsTypeOK
    <2>2. \A g \in Clients : clients[g] \in Client
        BY DEF CardsInv, CardsTypeOK
    <2>3. c \in Cards \cup {NoCard} /\ clients[k].overtaken \in BOOLEAN
        BY <2>1 DEF Client
    <2>4. clients[k].pc = "inserted" => c \in Cards
        BY <2>1 DEF TakesAll
    <2>5. CardsTypeOK'
        <3>1. clients' \in [Clients -> Client]
            BY <1>2, <2>2, IdleClientTyped, OvertakenTyped
        <3>2. preset' = preset
            BY DEF SetActiveCard
        <3>3. c \in cards \/ clients[k].pc = "inserted" \/ clients[k].had = c
            BY <1>2, <2>1 DEF Dangling
        <3>4. flagged' \subseteq cards'
            <4>1. clients[k].lit \/ c \in cards \/ clients[k].pc = "inserted"
                BY <1>2, <2>1, Zenon DEF Dangling
            <4> QED
                BY <1>2, <4>1 DEF CardsInv, CardsTypeOK
        <3>5. cards' \subseteq Cards /\ cards \subseteq cards'
            BY <1>2, <2>4 DEF CardsInv, CardsTypeOK
        <3>6. chosen' \in cards' \cup {NoCard}
            BY <1>2, <3>3, <3>5 DEF CardsInv, CardsTypeOK
        <3> QED
            BY <1>2, <2>3, <3>1, <3>2, <3>4, <3>5, <3>6 DEF CardsInv, CardsTypeOK
    <2>6. crossed' \/ AtMostOne'
        <3>1. CASE clients[k].overtaken
            BY <1>2, <3>1
        <3>2. CASE ~clients[k].overtaken
            <4>1. flagged \ clients[k].cleared = {}
                BY <2>1, <3>2 DEF TakesAll
            <4>2. flagged' \subseteq {c}
                BY <1>2, <4>1
            <4> QED
                BY <4>2 DEF AtMostOne
        <3> QED
            BY <3>1, <3>2
    <2>7. \A g \in Clients : TakesAll(clients[g])'
        <3>1. SUFFICES ASSUME NEW g \in Clients PROVE TakesAll(clients[g])'
            OBVIOUS
        <3>2. CASE g = k
            BY <1>2, <3>2, IdleClientTyped DEF TakesAll
        <3>3. CASE g # k
            BY <1>2, <2>2, <3>3, OvertakenTyped DEF CardsInv, TakesAll
        <3> QED
            BY <3>2, <3>3
    <2> QED
        BY <2>5, <2>6, <2>7 DEF CardsInv
<1> QED
    BY <1>1, <1>2 DEF SetActiveCard

\* A merge: a flag that arrives sets crossed and is seen by no request that has taken flags.
LEMMA MergeStep == ASSUME CardsInv, MergeCards PROVE CardsInv'
<1>1. PICK new \in SUBSET NewRows, lit \in SUBSET NewRows :
        /\ lit \subseteq new /\ cards' = cards \cup new /\ flagged' = flagged \cup lit
        /\ crossed' = (crossed \/ lit # {})
    BY DEF MergeCards
<1>2. /\ preset' \in {preset} \cup (IF preset = NoPreset THEN {NoCard} \cup NewRows ELSE {})
      /\ clients' = [g \in Clients |-> Overtaken(clients[g])] /\ chosen' = chosen
    BY DEF MergeCards
<1>3. CardsTypeOK /\ NewRows \subseteq Cards
    BY DEF CardsInv, NewRows
<1>4. CardsTypeOK'
    BY <1>1, <1>2, <1>3, OvertakenTyped DEF CardsTypeOK
<1>5. crossed' \/ AtMostOne'
    BY <1>1 DEF CardsInv, AtMostOne
<1>6. ASSUME NEW g \in Clients PROVE TakesAll(clients[g])'
    <2>1. TakesAll(clients[g]) /\ clients'[g] = Overtaken(clients[g]) /\ clients[g] \in Client
        BY <1>2, <1>3 DEF CardsInv, CardsTypeOK
    <2> QED
        BY <2>1, OvertakenTyped DEF TakesAll
<1> QED
    BY <1>4, <1>5, <1>6 DEF CardsInv

LEMMA OwnerStep ==
    ASSUME CardsInv, DeleteCard \/ SavePreset \/ ApplyPreset \/ DeletePreset PROVE CardsInv'
<1>1. UNCHANGED <<clients, crossed>> /\ flagged' \subseteq flagged
    BY DEF DeleteCard, SavePreset, ApplyPreset, DeletePreset
<1>2. CardsTypeOK'
    BY DEF CardsInv, CardsTypeOK, DeleteCard, SavePreset, ApplyPreset, DeletePreset
<1> QED
    BY <1>1, <1>2, OthersStep

LEMMA CardsNextInv == ASSUME CardsInv, [CardsNext]_cardsVars PROVE CardsInv'
<1>1. CASE UNCHANGED cardsVars
    BY <1>1 DEF cardsVars, CardsInv, CardsTypeOK, AtMostOne, TakesAll
<1>2. ASSUME NEW k \in Clients, Vanish(k) PROVE CardsInv'
    <2>1. Leaves(k) /\ UNCHANGED <<flagged, chosen, preset, crossed>> /\ cards' = cards
        BY <1>2 DEF Vanish
    <2>2. cards' \subseteq Cards
        BY <2>1 DEF CardsInv, CardsTypeOK
    <2> QED
        BY <2>1, <2>2, LeaveStep
<1> QED
    BY <1>1, <1>2, CountStep, CreateStep, NewCardStep, PickStep, ClearStep, SetActiveStep, OwnerStep,
       MergeStep
       DEF CardsNext

\* Type correctness: a flagged card and the card in use are cards of the user.
THEOREM CardsTypeCorrect == CardsSpec => []CardsTypeOK
<1>1. CardsInv => CardsTypeOK
    BY DEF CardsInv
<1> QED
    BY <1>1, CardsInitInv, CardsNextInv, PTL DEF CardsSpec

\* One card is flagged at a time (commands.py 254, main.py's my_card_activate), however many
\* requests create, use, delete and restore cards and whatever merges bring, once a request that
\* nothing has overtaken puts a card in use, until a merge brings another flag.
THEOREM OneCardInUse == CardsSpec => []OneActiveCard
<1>1. CardsInv => OneActiveCard
    <2> SUFFICES ASSUME CardsInv, ~crossed PROVE Cardinality(flagged) <= 1
        BY DEF OneActiveCard
    <2>1. CASE flagged = {}
        BY <2>1, FS_EmptySet
    <2>2. CASE flagged # {}
        <3>1. PICK a \in flagged : TRUE
            BY <2>2
        <3>2. flagged = {a}
            BY <3>1 DEF CardsInv, AtMostOne
        <3>3. Cardinality({a}) = 1
            BY FS_Singleton, Zenon
        <3> QED
            BY <3>2, <3>3
    <2> QED
        BY <2>1, <2>2
<1> QED
    BY <1>1, CardsInitInv, CardsNextInv, PTL DEF CardsSpec

-----------------------------------------------------------------------------

\* The inductive invariants of the five components, next to each other.
GatewayInv == LoginInv /\ IInv /\ IndexInv /\ CardsInv /\ SyncInv

LEMMA GatewayNextInv == ASSUME GatewayInv, [GatewayNext]_gatewayVars PROVE GatewayInv'
<1>1. /\ [SessionsNext]_sessionsVars /\ [CompletionNext]_completionVars
      /\ [KnowledgeNext]_knowledgeVars /\ [CardsNext]_cardsVars /\ [KfSyncNext]_kfSyncVars
    BY DEF GatewayNext, gatewayVars
<1>2. LoginInv' /\ IInv'
    BY <1>1, LoginNext, StepInv DEF GatewayInv
<1>3. IndexInv' /\ CardsInv' /\ SyncInv'
    BY <1>1, IndexNext, CardsNextInv, SyncNext DEF GatewayInv
<1> QED
    BY <1>2, <1>3 DEF GatewayInv

\* Type correctness: whichever part runs, every component's state is well typed.
THEOREM GatewayTypeCorrect == GatewaySpec => []GatewayTypeOK
<1>1. GatewayInit => GatewayInv
    <2> SUFFICES ASSUME GatewayInit PROVE GatewayInv
        OBVIOUS
    <2>1. SessionsInit /\ CompletionInit /\ KnowledgeInit /\ CardsInit /\ KfSyncInit
        BY DEF GatewayInit
    <2> QED
        BY <2>1, LoginInit, CompletionInitInv, IndexInit, CardsInitInv, SyncInit DEF GatewayInv
<1>2. GatewayInv => GatewayTypeOK
    BY DEF GatewayInv, GatewayTypeOK, LoginInv, IInv, IndexInv, CardsInv, SyncInv
<1> QED
    BY <1>1, <1>2, GatewayNextInv, PTL DEF GatewaySpec

=============================================================================
