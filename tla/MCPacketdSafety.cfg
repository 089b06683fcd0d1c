\* Safety of the dispatch core: ctid reuse, unconfirmed drops, re-marked
\* new packets and plugin timeouts, two queues, geoip and two plugins sharing the next priority.
CONSTANTS
  Ctids = {c1}
  Tuples = {tA, tB}
  Queues = {q1, q2}
  Plugins = {p1, p2, p3}
  Geoip <- MCGeoip
  NoTuple = NoTuple
  c1 = c1  c2 = c2  tA = tA  tB = tB  q1 = q1  q2 = q2  p1 = p1  p2 = p2  p3 = p3
  Priority <- MCPriority
  MaxFlows = 3
  MaxPkts = 2
  QueueDepth = 1
  WatchdogFires = TRUE
SPECIFICATION Spec
SYMMETRY MCSymmetry
INVARIANT TypeOK
INVARIANT NoBypassWithLiveSubscribers
INVARIANT SessionMatchesPacket
INVARIANT TierOrder
INVARIANT GeoipCountryFresh
\* Traffic is bounded by MaxFlows and MaxPkts: once it ends every thread
\* waits for packets, which the real daemon also does on an idle network.
CHECK_DEADLOCK FALSE
