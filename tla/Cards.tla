------------------------------- MODULE Cards -------------------------------
(***************************************************************************)
(* The character cards of a user, the one in use and a preset that         *)
(* remembers it, as the chat commands (commands.py, presets.py) and the    *)
(* console (/api/me/ of main.py) change them, and as they arrive from a    *)
(* user who is merged into this one (binding.py).                          *)
(*                                                                         *)
(* Each request has its own transaction.  A step runs from one commit, or  *)
(* one statement whose result matters later, to the next.                  *)
(***************************************************************************)
EXTENDS Integers, FiniteSets

CONSTANTS Clients,        \* requests that can be under way at a time
          Cards, NoCard,
          NoPreset,
          CardLimit       \* max_cards_per_user

ASSUME CardsAssumption ==
    /\ NoCard \notin Cards /\ NoPreset \notin Cards \cup {NoCard}
    /\ CardLimit \in Nat

VARIABLES cards, flagged, chosen, preset, clients, crossed

cardsVars == <<cards, flagged, chosen, preset, clients, crossed>>

-----------------------------------------------------------------------------

\* card, lit and had: the card, its flag and the card in use, as the request has read them.
\* cleared: the flags its UPDATE has taken away.  overtaken: another card was put in use since.
Client == [pc : {"idle", "create", "new", "use", "cleared", "inserted"},
           card : Cards \cup {NoCard}, lit : BOOLEAN, had : Cards \cup {NoCard},
           cleared : SUBSET Cards, overtaken : BOOLEAN]
IdleClient == [pc |-> "idle", card |-> NoCard, lit |-> FALSE, had |-> NoCard,
               cleared |-> {}, overtaken |-> FALSE]

\* flagged: the cards with active set.  chosen: active_card_id.  crossed (kept for the
\* properties only): the last card was put in use by a request that another or a merge had
\* overtaken, or a merge has brought a flag since.
CardsTypeOK ==
    /\ cards \subseteq Cards /\ flagged \subseteq cards
    /\ chosen \in cards \cup {NoCard}
    /\ preset \in Cards \cup {NoCard, NoPreset}
    /\ clients \in [Clients -> Client]
    /\ crossed \in BOOLEAN

CardsInit ==
    /\ cards = {} /\ flagged = {} /\ chosen = NoCard /\ preset = NoPreset
    /\ clients = [k \in Clients |-> IdleClient]
    /\ crossed = FALSE

Arrives(k, new) == clients[k].pc = "idle" /\ clients' = [clients EXCEPT ![k] = new]
Leaves(k) == clients' = [clients EXCEPT ![k] = IdleClient]

\* The rows a new card can be.
NewRows == Cards \ (cards \cup {preset}
                      \cup UNION {{clients[g].card} \cup clients[g].cleared : g \in Clients})

\* What is written overtakes the requests that have taken the flags and not yet committed.
Overtaken(w) == [w EXCEPT !.overtaken = @ \/ w.pc \in {"cleared", "inserted"}]

-----------------------------------------------------------------------------

\* my_card_create and my_card_import, and "/card new", count the cards ...
CountCards(k) ==
    /\ Cardinality(cards) < CardLimit
    /\ \E pc \in {"create", "new"} : Arrives(k, [IdleClient EXCEPT !.pc = pc, !.had = chosen])
    /\ UNCHANGED <<cards, flagged, chosen, preset, crossed>>

\* ... the console inserts a card that is not in use ...
CreateCard(k) ==
    /\ clients[k].pc = "create"
    /\ \E c \in NewRows : cards' = cards \cup {c}
    /\ Leaves(k)
    /\ UNCHANGED <<flagged, chosen, preset, crossed>>

\* ... and the command goes on to put it in use.
NewCard(k) ==
    /\ clients[k].pc = "new"
    /\ \E c \in NewRows :
         clients' = [clients EXCEPT ![k].pc = "inserted", ![k].card = c, ![k].cleared = flagged]
    /\ UNCHANGED <<cards, flagged, chosen, preset, crossed>>

\* "/card use" and my_card_activate read the card ...
PickCard(k) ==
    /\ \E c \in cards : Arrives(k, [IdleClient EXCEPT !.pc = "use", !.card = c, !.lit = c \in flagged,
                                                   !.had = chosen])
    /\ UNCHANGED <<cards, flagged, chosen, preset, crossed>>

\* Faulty: only the card of the settings row loses its flag.
ClearChosen(k) ==
    /\ clients[k].pc = "use"
    /\ \E had \in {clients[k].had, chosen} :
         clients' = [clients EXCEPT ![k].pc = "cleared", ![k].had = had,
                                    ![k].cleared = flagged \cap {chosen}]
    /\ UNCHANGED <<cards, flagged, chosen, preset, crossed>>

\* ... take the flag from those that have it (the console reads the settings row after this,
\* the command before) ...
ClearFlags(k) ==
    /\ clients[k].pc = "use"
    /\ \E had \in {clients[k].had, chosen} :
         clients' = [clients EXCEPT ![k].pc = "cleared", ![k].had = had, ![k].cleared = flagged]
    /\ UNCHANGED <<cards, flagged, chosen, preset, crossed>>

\* The card is deleted, and what the request would write refers to it.
Dangling(k) ==
    /\ clients[k].pc = "cleared" /\ clients[k].card \notin cards
    /\ ~clients[k].lit \/ clients[k].had # clients[k].card

\* ... and commit.  What already had its value when it was read is not written again: neither
\* the flag of the card nor the settings row.
SetActiveCard(k) ==
    LET c == clients[k].card
    IN  /\ clients[k].pc \in {"cleared", "inserted"}
        /\ \/ Dangling(k) /\ Leaves(k) /\ UNCHANGED <<cards, flagged, chosen, crossed>>
           \/ /\ ~Dangling(k)
              /\ cards' = IF clients[k].pc = "inserted" THEN cards \cup {c} ELSE cards
              /\ flagged' = (flagged \ clients[k].cleared)
                              \cup (IF clients[k].lit THEN {} ELSE {c})
              /\ chosen' = IF clients[k].had = c THEN chosen ELSE c
              /\ crossed' = clients[k].overtaken
              /\ clients' = [g \in Clients |->
                   IF g = k THEN IdleClient ELSE Overtaken(clients[g])]
        /\ UNCHANGED preset

\* my_card_delete and "/card delete": the settings row lets go of the card.
DeleteCard ==
    /\ \E c \in cards : /\ cards' = cards \ {c} /\ flagged' = flagged \ {c}
                        /\ chosen' = IF chosen = c THEN NoCard ELSE chosen
    /\ UNCHANGED <<preset, crossed, clients>>

\* save_preset with snapshot_settings.
SavePreset ==
    /\ preset' = chosen
    /\ UNCHANGED <<cards, flagged, chosen, crossed, clients>>

\* apply_snapshot: a card that is gone is passed over; the flags stay as they are.
ApplyPreset ==
    /\ preset # NoPreset
    /\ chosen' = IF preset \in cards \cup {NoCard} THEN preset ELSE chosen
    /\ UNCHANGED <<cards, flagged, preset, crossed, clients>>

DeletePreset ==
    /\ preset # NoPreset /\ preset' = NoPreset
    /\ UNCHANGED <<cards, flagged, chosen, crossed, clients>>

\* _merge_into: the cards of the other user whose names are free here arrive with the flags
\* they have, whatever the limit, and so may a preset; the settings row of this user stays.
MergeCards ==
    /\ \E new \in SUBSET NewRows :
         /\ cards' = cards \cup new
         /\ \E lit \in SUBSET new : /\ flagged' = flagged \cup lit
                                    /\ crossed' = (crossed \/ lit # {})
    /\ preset' \in {preset} \cup (IF preset = NoPreset THEN {NoCard} \cup NewRows ELSE {})
    /\ clients' = [g \in Clients |-> Overtaken(clients[g])]
    /\ UNCHANGED chosen

\* The process of a request ends, and with it its transaction.
Vanish(k) == /\ clients[k].pc # "idle" /\ Leaves(k)
             /\ UNCHANGED <<cards, flagged, chosen, preset, crossed>>

CardsNext ==
    \/ \E k \in Clients :
         \/ CountCards(k) \/ CreateCard(k) \/ NewCard(k)
         \/ PickCard(k) \/ ClearFlags(k) \/ SetActiveCard(k) \/ Vanish(k)
    \/ DeleteCard \/ SavePreset \/ ApplyPreset \/ DeletePreset \/ MergeCards

CardsSpec == CardsInit /\ [][CardsNext]_cardsVars

-----------------------------------------------------------------------------

\* One card of a user is flagged as active at a time (commands.py:254): two requests that cross
\* and a merge can leave more, and the next request that puts a card in use, if nothing
\* overtakes it, makes it one again.
OneActiveCard == crossed \/ Cardinality(flagged) <= 1

=============================================================================
