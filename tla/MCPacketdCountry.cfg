\* A flow on a ctid whose previous flow's DESTROY event the conntrack
\* thread has not read yet: do the geoip countries of the new flow survive?
\* One ctid, one queue, geoip and one plugin behind it.
CONSTANTS
  Ctids = {c1}
  Tuples = {tA, tB}
  Queues = {q1}
  Plugins = {p1, p2}
  Geoip <- MCGeoip
  NoTuple = NoTuple
  c1 = c1  c2 = c2  tA = tA  tB = tB  q1 = q1  q2 = q2  p1 = p1  p2 = p2  p3 = p3
  Priority <- MCTwoTiers
  MaxFlows = 2
  MaxPkts = 2
  QueueDepth = 1
  WatchdogFires = FALSE
SPECIFICATION Spec
INVARIANT CountryKept
CHECK_DEADLOCK FALSE
