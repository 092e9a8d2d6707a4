\* From the edge: records of 20 bytes, so a packet of up to 16 goes whole, else
\* in chunks of 6: a tiny packet, one of the client's MTU, the largest whole one,
\* the smallest cut one, and one whose last chunk leaves room for a tiny packet.
\* From any peer: packets of up to three bytes under three ids, with room for
\* two assemblies and, at the server, three bytes.
SPECIFICATION Spec
CONSTANTS
  ClientLimits <- Client
  ServerLimits <- Server
  AnyLimits <- Tight
  Capacity = 20
  Lengths = {1, 10, 16, 17, 19}
  BatchLimit = 3
  MaxPackets = 4
  FieldMax = 3
  Ids = {p1, p2, p3}
  Payloads = {a, b}
SYMMETRY Symmetry
INVARIANTS
  DeliveredInOrder
  NothingIsLost
  MemoryIsExact
  OutputIsWhole
PROPERTIES
  RecordsFit
  CutsAreWhole
  EvictsTheOldest
CHECK_DEADLOCK FALSE
