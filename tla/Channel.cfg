SPECIFICATION ChannelSpec
CONSTANTS
    Objects = {o1, o2}
    Tasks = {t1, t2, t3}
    Nobody = Nobody
    MaxMessages = 2
    Unreadable = {1}
    MaxCalls = 2
    MaxRequests = 2
    MaxCrashes = 1
SYMMETRY Symmetry
CHECK_DEADLOCK FALSE
INVARIANTS ChannelTypeOK CursorBehindGateway OneSession AcceptedCanBeAnswered StoppedStaysStopped NeverStranded
PROPERTY InboxSpec
