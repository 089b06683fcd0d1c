----------------------------- MODULE MCPacketd -----------------------------
EXTENDS Packetd

CONSTANTS c1, c2, tA, tB, q1, q2, p1, p2, p3

\* p1 runs alone at the first tier, p2 and p3 together at the next one.
MCPriority == (p1 :> 0) @@ (p2 :> 1) @@ (p3 :> 1)
\* p1 at the first tier, p2 at the next one.
MCTwoTiers == (p1 :> 0) @@ (p2 :> 1)
\* p1 and p2 share a tier and run concurrently.
MCSameTier == (p1 :> 3) @@ (p2 :> 3)

\* State constraint: behaviours in which no conntrack entry is destroyed.
NoDestroy == \A i \in DOMAIN evq : evq[i].kind # "DESTROY"

\* p1 is the geoip plugin.
MCGeoip == p1

MCSymmetry == Permutations({tA, tB}) \cup Permutations({q1, q2}) \cup Permutations({p2, p3})
=============================================================================
