SPECIFICATION GatewaySpec
CONSTANTS
    Handlers = {h1, h2}
    Ids = {i1, i2, i3}
    Nothing = Nothing
    MaxPasswords = 2
    MaxSecrets = 2
    MaxClock = 1
    MaxRequests = 5
    MaxAttempts = 2
    Groups = {g1}
    NoGroup = NoGroup
    MaxRoutes = 2
    MaxToolCalls = 2
    MaxCalls = 2
    MaxChanges = 1
    Writers = {h1, h2}
    MaxTexts = 4
    Clients = {h1, h2}
    Cards = {c1, c2}
    NoCard = NoCard
    NoPreset = NoPreset
    CardLimit = 1
    Syncs = {h1, h2}
    MaxMessages = 3
    Unreadable = {2}
CHECK_DEADLOCK FALSE
INVARIANTS GatewayTypeOK CurrentPassword SecondFactor FactorUsedOnce UsageKept LineAllowed FallbackSticks IndexIsCurrent OneActiveCard
PROPERTIES KfInboxSpec MessageComesToAnEnd
