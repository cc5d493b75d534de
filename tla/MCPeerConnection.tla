-------------------------- MODULE MCPeerConnection --------------------------
EXTENDS PeerConnection, TLC

CONSTANTS A, B, C

MCPeer == {A, B, C}
MCLimit == [p \in MCPeer |-> 1]
MCWrongPassword == {<<A, C>>}
=============================================================================
