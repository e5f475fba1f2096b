---------------------------- MODULE MCMessageFlow ----------------------------
(* MessageFlow on small instances: all messages in one conversation, or    *)
(* each in a conversation of its own.                                      *)
EXTENDS MessageFlow, TLC

OneConversation == [m \in Messages |-> CHOOSE c \in Conversations : TRUE]
OwnConversation == [m \in Messages |-> m]

Symmetry == Permutations(Workers)

=============================================================================
