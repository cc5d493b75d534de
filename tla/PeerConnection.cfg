CONSTANTS
    A = A
    B = B
    C = C
    Peer <- MCPeer
    maximumIncomingConnections <- MCLimit
    WrongPassword <- MCWrongPassword
    maximumNumberOfPeers = 1
    MaxConnects = 2
    MaxUpsets = 1
    MaxSessions = 2
SPECIFICATION Spec
INVARIANTS
    TypeOK
    AtMostOneAnswer
    HandshakeConverges
    NoConformingPeerBanned
    EndIsReported
CHECK_DEADLOCK FALSE
