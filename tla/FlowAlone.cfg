SPECIFICATION Spec
CONSTANTS
    Messages = {m1, m2}
    Conversations = {m1, m2}
    Conv <- OwnConversation
    Kinds = {"chat", "command", "special"}
    Workers = {w1, w2}
    MaxAttempts = 2
    NoMessage = NoMessage
    MaxCrashes = 1
    MaxReplays = 1
SYMMETRY Symmetry
CHECK_DEADLOCK FALSE
INVARIANTS AtMostOneReply SentIsAnswered NoStrandedMessage
PROPERTY FlowQueueSpec
