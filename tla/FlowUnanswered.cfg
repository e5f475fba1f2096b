SPECIFICATION Spec
CONSTANTS
    Messages = {m1, m2}
    Conversations = {c1}
    Conv <- OneConversation
    Kinds = {"chat"}
    Workers = {w1}
    MaxAttempts = 2
    NoMessage = NoMessage
    MaxCrashes = 0
    MaxReplays = 0
SYMMETRY Symmetry
CHECK_DEADLOCK FALSE
INVARIANT SkippedIsAnswered
