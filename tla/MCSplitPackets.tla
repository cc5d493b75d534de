--------------------------- MODULE MCSplitPackets ---------------------------
(* Constants of the runs of SplitPackets.                                  *)
EXTENDS SplitPackets

MCPriorities == {0, 2}
MCReliabilities == {"UNRELIABLE_WITH_ACK_RECEIPT", "RELIABLE_WITH_ACK_RECEIPT"}
MCReliable == {"RELIABLE_WITH_ACK_RECEIPT"}
=============================================================================
