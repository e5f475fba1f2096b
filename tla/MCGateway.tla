----------------------------- MODULE MCGateway -----------------------------
(***************************************************************************)
(* Sessions, Completion, Knowledge, Cards and KfSync side by side.  They   *)
(* share no state, so that a behaviour runs one of them: interleaving them *)
(* would multiply states and add nothing.                                  *)
(***************************************************************************)
EXTENDS Sessions, Completion, Knowledge, Cards, KfSync

VARIABLE part

gatewayVars == <<part, sessionsVars, completionVars, knowledgeVars, cardsVars, kfSyncVars>>

GatewayInit ==
    /\ part \in {"sessions", "completion", "knowledge", "cards", "sync"}
    /\ SessionsInit /\ KnowledgeInit /\ CardsInit /\ KfSyncInit
    /\ CompletionInit
    \* The other parts need one state of what does not run.
    /\ part # "completion" => message.byok = "no" /\ message.image = "none"
                                /\ message.group = NoGroup /\ ~message.spent
                                /\ platform = [fallback |-> FALSE, key |-> FALSE, tools |-> FALSE]
                                /\ routing = [serving |-> [g \in Groups |-> 0], default |-> NoGroup]
    /\ part # "knowledge" => item = NoItem

GatewayNext ==
    \/ /\ part = "sessions" /\ SessionsNext
       /\ UNCHANGED <<part, completionVars, knowledgeVars, cardsVars, kfSyncVars>>
    \/ /\ part = "completion" /\ CompletionNext
       /\ UNCHANGED <<part, sessionsVars, knowledgeVars, cardsVars, kfSyncVars>>
    \/ /\ part = "knowledge" /\ KnowledgeNext
       /\ UNCHANGED <<part, sessionsVars, completionVars, cardsVars, kfSyncVars>>
    \/ /\ part = "cards" /\ CardsNext
       /\ UNCHANGED <<part, sessionsVars, completionVars, knowledgeVars, kfSyncVars>>
    \/ /\ part = "sync" /\ KfSyncNext
       /\ UNCHANGED <<part, sessionsVars, completionVars, knowledgeVars, cardsVars>>

\* The fairness of Completion, where it runs.
GatewaySpec == /\ GatewayInit /\ [][GatewayNext]_gatewayVars
               /\ WF_gatewayVars(/\ part = "completion" /\ CompletionStep
                                 /\ UNCHANGED <<part, sessionsVars, knowledgeVars, cardsVars,
                                               kfSyncVars>>)

\* The types of the five components' states.
GatewayTypeOK == /\ SessionsTypeOK /\ CompletionTypeOK /\ KnowledgeTypeOK
                 /\ CardsTypeOK /\ KfSyncTypeOK

\* ComesToAnEnd, where a message is answered.
MessageComesToAnEnd == part = "completion" => ComesToAnEnd

=============================================================================
