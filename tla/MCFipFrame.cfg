\* Two hosts; FC frames at the limits: 245 is the longest frame of a host the
\* length of a tunnel header can announce, 356 the longest frame of the fabric
\* that fits the send buffer.
CONSTANTS
  Macs = {m1, m2}
  Multicast = all_nodes
  Names = {n1}
  FcLens = {6, 8, 245, 246, 300, 356, 357}
  CutUpTo = 60
  g_fcoe_t11 = 1
  Junk = Junk
SPECIFICATION Spec
INVARIANTS
  PositionInside
  RightHandler
  ReadsInside
  ElsWhole
  SentReadable
