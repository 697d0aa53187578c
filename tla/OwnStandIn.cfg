CONSTANTS
    a = a
    b = b
    c = c
    NoClient = NoClient
    NoHint = NoHint
    NoRid = NoRid
    Client = {u}
    Peer = {a, b, c}
    Coordinator = a
    PrefList <- MCPrefList
    Fallbacks <- MCFallbacks
    WriteNodes = 2
    ReadNodes = 2
    Ring0 = {a}
    Member0 <- JoinFailed
    Rid = {1, 2}
    MaxEdits = 1
    MaxFaults = 0
SPECIFICATION Spec
PROPERTY EnoughNodesWrite
CHECK_DEADLOCK FALSE
