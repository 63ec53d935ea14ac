SPECIFICATION Spec
CONSTANTS
  PktLen <- MCPktLen
  Plen <- MCPlen
  Ihl <- MCIhl
  HdrExtLen <- MCHdrExtLen
  UdpLen <- MCUdpLen
  Ttl <- MCTtl
  Size <- MCSize
  None = None
INVARIANTS
  InBounds
  AcceptsExactlyUdp
  DecoyReadsBack
CHECK_DEADLOCK FALSE
