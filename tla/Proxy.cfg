CONSTANTS
    User = {u, v}
    Peer = {a, b}
    List = {l}
    a = a
    b = b
    l = l
    NoPeer = NoPeer
    Start <- TwoStarts
    Coordinator <- MCCoordinator
    Conn = {1, 2, 3, 4, 5, 6}
    MaxFaults = 1
    MaxProxyStarts = 1
SPECIFICATION FairSpec
INVARIANTS TypeOK AnswerIsToTheRequest
PROPERTY AnsweredOnceRouted
