\* Every queued packet gets its verdict when every handler answers within
\* maxAllowedTime.  Both plugins share a tier and run concurrently.
CONSTANTS
  Ctids = {c1}
  Tuples = {tA, tB}
  Queues = {q1, q2}
  Plugins = {p1, p2}
  Geoip <- MCGeoip
  NoTuple = NoTuple
  c1 = c1  c2 = c2  tA = tA  tB = tB  q1 = q1  q2 = q2  p1 = p1  p2 = p2  p3 = p3
  Priority <- MCSameTier
  MaxFlows = 2
  MaxPkts = 2
  QueueDepth = 1
  WatchdogFires = FALSE
SPECIFICATION Spec
PROPERTY PacketGetsVerdict
\* Traffic is bounded by MaxFlows and MaxPkts: once it ends every thread
\* waits for packets, which the real daemon also does on an idle network.
CHECK_DEADLOCK FALSE
