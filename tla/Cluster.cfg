CONSTANTS
    a = a
    b = b
    c = c
    NoClient = NoClient
    NoHint = NoHint
    NoRid = NoRid
    Client = {u, v}
    Peer = {a, b, c}
    Coordinator = a
    PrefList <- MCPrefList
    Fallbacks <- MCFallbacks
    WriteNodes = 2
    ReadNodes = 2
    Ring0 = {a, b, c}
    Member0 <- Everyone
    Rid = {1, 2}
    MaxEdits = 1
    MaxFaults = 1
SPECIFICATION FairSpec
INVARIANTS TypeOK LocalFirst OneAnswer ReceivedIsServed ListsArePasts
PROPERTIES ImplementsCausalList Converges
CHECK_DEADLOCK FALSE
