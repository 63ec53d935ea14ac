----------------------------- MODULE MCPackets -----------------------------
EXTENDS Packets

(* Around each boundary: the headers, one extension, sixteen of them.        *)
MCPktLen == {19, 20, 27, 28, 39, 40, 41, 48, 60, 68, 176, 184, 200}
MCPlen == {0, 1, 7, 8, 9, 15, 16, 24, 136, 144, 145, 65535}
MCIhl == {4, 5, 15}
MCHdrExtLen == {0, 1, 255}
MCUdpLen == {0, 7, 8, 9, 16, 65535}
MCTtl == {1, 255}
MCSize == {0, 1, 40, 1199, 1200}
=============================================================================
