\* A plugin handler that outlasts maxAllowedTime: does the packet still
\* get its verdict?  One flow, one queue, two plugins.
CONSTANTS
  Ctids = {c1}
  Tuples = {tA, tB}
  Queues = {q1}
  Plugins = {p1, p2}
  Geoip <- MCGeoip
  NoTuple = NoTuple
  c1 = c1  c2 = c2  tA = tA  tB = tB  q1 = q1  q2 = q2  p1 = p1  p2 = p2  p3 = p3
  Priority <- MCTwoTiers
  MaxFlows = 1
  MaxPkts = 2
  QueueDepth = 1
  WatchdogFires = TRUE
SPECIFICATION Spec
PROPERTY PacketGetsVerdict
CHECK_DEADLOCK FALSE
