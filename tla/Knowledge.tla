----------------------------- MODULE Knowledge -----------------------------
(***************************************************************************)
(* A document of a user's knowledge base and its index (knowledge.py, with *)
(* the endpoints under /api/me/knowledge and the "/kb" commands).          *)
(*                                                                         *)
(* Each request has its own transaction.  A step runs from one commit, or  *)
(* one statement whose result matters later, to the next.                  *)
(***************************************************************************)
EXTENDS Integers

CONSTANTS Writers,        \* requests that can be under way at a time
          MaxTexts        \* texts the document is given; they are numbered

ASSUME KnowledgeAssumption == MaxTexts \in Nat \ {0}

VARIABLES item, writers, texts

knowledgeVars == <<item, writers, texts>>

-----------------------------------------------------------------------------

\* row: which row of the table it is, named after its first text (0: none).  text: its content,
\* index: the text its chunks are made of (0: none).  legacy: written before contents were
\* encrypted.  Kept for the properties only: saved is the text the user has last given, overrun
\* says that a request which had read an older one has written after it.
KnowledgeItem == [row : 0..MaxTexts, text : 0..MaxTexts, index : 0..MaxTexts,
                  legacy : BOOLEAN, saved : 0..MaxTexts, overrun : BOOLEAN]
NoItem == [row |-> 0, text |-> 0, index |-> 0, legacy |-> FALSE, saved |-> 0, overrun |-> FALSE]
LegacyItem == [NoItem EXCEPT !.row = 1, !.text = 1, !.saved = 1, !.legacy = TRUE]

\* row and text: of the item, as the request has read them.  beaten: others have committed
\* chunks since it deleted them.  overtaken: the item was given a new text since.
Writer == [pc : {"idle", "add", "reindex", "reindexing", "migrate"},
           row : 0..MaxTexts, text : 0..MaxTexts, beaten : BOOLEAN, overtaken : BOOLEAN]
IdleWriter == [pc |-> "idle", row |-> 0, text |-> 0, beaten |-> FALSE, overtaken |-> FALSE]

KnowledgeTypeOK == /\ item \in KnowledgeItem /\ texts \in 0..MaxTexts
                   /\ writers \in [Writers -> Writer]

KnowledgeInit ==
    /\ \/ item = NoItem /\ texts = 0
       \/ item = LegacyItem /\ texts = 1
    /\ writers = [k \in Writers |-> IdleWriter]

Open(k, new) == writers[k].pc = "idle" /\ writers' = [writers EXCEPT ![k] = new]
Close(k) == writers' = [writers EXCEPT ![k] = IdleWriter]

-----------------------------------------------------------------------------

\* add_item looks for an item of that title ...
AddRead(k) ==
    /\ Open(k, [IdleWriter EXCEPT !.pc = "add", !.row = item.row])
    /\ UNCHANGED <<item, texts>>

\* What a commit of chunks does to the other requests: one that has deleted the chunks of before
\* cannot insert its own any more (uq_knowledge_chunk_index).  fresh: the text is a new one.
Beat(k, fresh) ==
    writers' = [g \in Writers |->
        IF g = k THEN IdleWriter
        ELSE [writers[g] EXCEPT
                !.beaten = @ \/ writers[g].pc = "reindexing",
                !.overtaken = @ \/ (fresh /\ writers[g].pc \in {"reindex", "migrate"})]]

\* Faulty: the chunks are made when the item is new.
AddWriteUnindexed(k) ==
    /\ writers[k].pc = "add" /\ texts < MaxTexts
    /\ \/ item.row # writers[k].row /\ Close(k) /\ UNCHANGED <<item, texts>>
       \/ /\ item.row = writers[k].row
          /\ texts' = texts + 1
          /\ item' = [NoItem EXCEPT !.row = IF item.row = 0 THEN texts + 1 ELSE item.row,
                                    !.text = texts + 1, !.saved = texts + 1,
                                    !.index = IF item.row = 0 THEN texts + 1 ELSE item.index]
          /\ Beat(k, TRUE)

\* ... writes the text, which locks the row, replaces the chunks and commits.  It fails when
\* the row is gone, or there by now (uq_knowledge_user_title).
AddWrite(k) ==
    /\ writers[k].pc = "add" /\ texts < MaxTexts
    /\ \/ item.row # writers[k].row /\ Close(k) /\ UNCHANGED <<item, texts>>
       \/ /\ item.row = writers[k].row
          /\ texts' = texts + 1
          /\ item' = [NoItem EXCEPT !.row = IF item.row = 0 THEN texts + 1 ELSE item.row,
                                    !.text = texts + 1, !.saved = texts + 1, !.index = texts + 1]
          /\ Beat(k, TRUE)

\* reindex_item reads the text without a lock ...
ReindexRead(k) ==
    /\ item.row # 0
    /\ Open(k, [IdleWriter EXCEPT !.pc = "reindex", !.row = item.row, !.text = item.text])
    /\ UNCHANGED <<item, texts>>

\* ... deletes the chunks there are ...
ReindexClear(k) ==
    /\ writers[k].pc = "reindex"
    /\ writers' = [writers EXCEPT ![k].pc = "reindexing"]
    /\ UNCHANGED <<item, texts>>

\* ... and inserts those of the text it has read.
ReindexWrite(k) ==
    /\ writers[k].pc = "reindexing"
    /\ \/ (item.row # writers[k].row \/ writers[k].beaten) /\ Close(k) /\ UNCHANGED item
       \/ /\ item.row = writers[k].row /\ ~writers[k].beaten
          /\ item' = [item EXCEPT !.index = writers[k].text,
                                  !.overrun = @ \/ writers[k].overtaken]
          /\ Beat(k, FALSE)
    /\ UNCHANGED texts

\* migrate_legacy_items, when a worker starts: it reads the old rows and then writes their
\* texts back, encrypted, with new chunks.
MigrateRead(k) ==
    /\ item.legacy
    /\ Open(k, [IdleWriter EXCEPT !.pc = "migrate", !.row = item.row, !.text = item.text])
    /\ UNCHANGED <<item, texts>>

MigrateWrite(k) ==
    /\ writers[k].pc = "migrate"
    /\ \/ item.row # writers[k].row /\ Close(k) /\ UNCHANGED item
       \/ /\ item.row = writers[k].row
          /\ item' = [item EXCEPT !.text = writers[k].text, !.index = writers[k].text,
                                  !.legacy = FALSE, !.overrun = @ \/ writers[k].overtaken]
          /\ Beat(k, FALSE)
    /\ UNCHANGED texts

\* delete_item and delete_item_by_id; the chunks go with the row.
DeleteItem ==
    /\ item.row # 0 /\ item' = NoItem
    /\ UNCHANGED <<texts, writers>>

\* The process of a request ends, and with it its transaction.
Drop(k) == writers[k].pc # "idle" /\ Close(k) /\ UNCHANGED <<item, texts>>

KnowledgeNext ==
    \/ \E k \in Writers :
         \/ AddRead(k) \/ AddWrite(k) \/ ReindexRead(k) \/ ReindexClear(k) \/ ReindexWrite(k)
         \/ MigrateRead(k) \/ MigrateWrite(k) \/ Drop(k)
    \/ DeleteItem

KnowledgeSpec == KnowledgeInit /\ [][KnowledgeNext]_knowledgeVars

-----------------------------------------------------------------------------

\* The document and the chunks that are quoted from it are those of the text the user has given
\* last, unless a re-index or a migration that had read an older one has written after it.
IndexIsCurrent ==
    item.row # 0 /\ ~item.overrun =>
        item.text = item.saved /\ (item.index = item.saved \/ item.legacy)

=============================================================================
