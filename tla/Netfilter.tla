----------------------------- MODULE Netfilter -----------------------------
(***************************************************************************)
(* The kernel side of packetd: conntrack entries, the NFQUEUE queues, the  *)
(* conntrack event stream and the "sessions" dictionary, driven by the     *)
(* packetd-queue chain that src/unnamed/part_000 (the nft rules script)    *)
(* installs.  A queued packet stays in its kernel queue until userspace    *)
(* returns a verdict; the dispatcher reads the head of the queue.          *)
(***************************************************************************)
EXTENDS Naturals, Sequences

CONSTANTS
  Ctids,        \* conntrack ids the kernel may hand out (and reuse)
  Tuples,       \* client-side 5-tuples of flows
  Queues,       \* NFQUEUE numbers [start, end] of the fanout
  NoTuple,      \* model value: no flow
  MaxFlows,     \* bound: flows created by the kernel in one behaviour
  MaxPkts,      \* bound: packets the kernel sees per flow
  QueueDepth    \* bound: packets held per kernel queue

VARIABLES
  kflow,        \* kflow[c]: the kernel conntrack entry holding id c
  kq,           \* kq[q]: packets held in NFQUEUE q, head = the one userspace reads
  evq,          \* conntrack events (NEW / DESTROY) not yet read by userspace
  dictBypass,   \* dictBypass[c]: dict sessions[c].bypass_packetd = true
  dictCountry,  \* dictCountry[c]: the flow whose client_country and
                \* server_country are in dict sessions[c], NoTuple if none
  flowsStarted  \* number of flows created so far (bound)

nfVars == <<kflow, kq, evq, dictBypass, dictCountry, flowsStarted>>

\* Conntrack entry states: "free" (id unused), "new" (first packet queued,
\* not yet confirmed), "accepted" (first packet got its verdict),
\* "confirmed" (entry is in the conntrack hash; events were sent).
FreeEntry == [tuple |-> NoTuple, state |-> "free", pkts |-> 0]

Packet == [ctid : Ctids, tuple : Tuples, new : BOOLEAN]
Event  == [kind : {"NEW", "DESTROY"}, ctid : Ctids, tuple : Tuples]

LiveTuples == {kflow[c].tuple : c \in Ctids} \ {NoTuple}

\* A packet of ctid c is still held by the kernel in some queue.
InFlight(c) == \E q \in Queues : \E i \in DOMAIN kq[q] : kq[q][i].ctid = c

Enqueue(q, m) ==
  /\ Len(kq[q]) < QueueDepth
  /\ kq' = [kq EXCEPT ![q] = Append(@, m)]

NfTypeOK ==
  /\ kflow \in [Ctids -> [tuple : Tuples \cup {NoTuple},
                          state : {"free", "new", "accepted", "confirmed"},
                          pkts : 0..MaxPkts]]
  /\ kq \in [Queues -> Seq(Packet)]
  /\ \A q \in Queues : Len(kq[q]) <= QueueDepth
  /\ evq \in Seq(Event)
  /\ dictBypass \in [Ctids -> BOOLEAN]
  /\ dictCountry \in [Ctids -> Tuples \cup {NoTuple}]
  /\ flowsStarted \in 0..MaxFlows

(***************************************************************************)
(* packetd starts while the kernel may already track confirmed flows, with *)
(* any dictionary content left from an earlier run (countries of a live *)
(* flow were written for that flow).                                      *)
(***************************************************************************)
NfInit ==
  /\ kflow \in [Ctids -> {FreeEntry} \cup
                 [tuple : Tuples, state : {"confirmed"}, pkts : {1}]]
  /\ \A c, d \in Ctids : c # d /\ kflow[c].tuple # NoTuple
                          => kflow[c].tuple # kflow[d].tuple
  /\ kq = [q \in Queues |-> <<>>]
  /\ evq = <<>>
  /\ dictBypass \in [Ctids -> BOOLEAN]
  /\ dictCountry \in {f \in [Ctids -> Tuples \cup {NoTuple}] :
                       \A c \in Ctids : kflow[c].state = "confirmed" =>
                                          f[c] \in {NoTuple, kflow[c].tuple}}
  /\ flowsStarted = 0

\* Mutant: the "ct state new ... dict sessions ct id flush" rule is missing.
NewFlowNoFlush(c, t, q) ==
  /\ kflow[c].state = "free"
  /\ t \notin LiveTuples
  /\ flowsStarted < MaxFlows
  /\ kflow' = [kflow EXCEPT ![c] = [tuple |-> t, state |-> "new", pkts |-> 1]]
  /\ UNCHANGED <<dictBypass, dictCountry>>
  /\ Enqueue(q, [ctid |-> c, tuple |-> t, new |-> TRUE])
  /\ flowsStarted' = flowsStarted + 1
  /\ UNCHANGED evq

(***************************************************************************)
(* First packet of a new flow: "ct state new ... dict sessions ct id       *)
(* flush", no bypass can match the flushed entry, "ct state new mark set   *)
(* mark|0x10000000", then "queue num start-end fanout,bypass": the CPU    *)
(* fanout may pick any queue.                                              *)
(***************************************************************************)
NewFlow(c, t, q) ==
  /\ kflow[c].state = "free"
  /\ t \notin LiveTuples
  /\ flowsStarted < MaxFlows
  /\ kflow' = [kflow EXCEPT ![c] = [tuple |-> t, state |-> "new", pkts |-> 1]]
  /\ dictBypass' = [dictBypass EXCEPT ![c] = FALSE]
  /\ dictCountry' = [dictCountry EXCEPT ![c] = NoTuple]
  /\ Enqueue(q, [ctid |-> c, tuple |-> t, new |-> TRUE])
  /\ flowsStarted' = flowsStarted + 1
  /\ UNCHANGED evq

\* A later packet of a confirmed flow whose dict entry says bypass_packetd:
\* "dict sessions ct id bypass_packetd bool true counter return".
PacketBypassed(c) ==
  /\ kflow[c].state = "confirmed"
  /\ kflow[c].pkts < MaxPkts
  /\ dictBypass[c]
  /\ kflow' = [kflow EXCEPT ![c].pkts = @ + 1]
  /\ UNCHANGED <<kq, evq, dictBypass, flowsStarted, dictCountry>>

\* A later packet that passes the chain is queued without the new mark.
PacketQueued(c, q) ==
  /\ kflow[c].state = "confirmed"
  /\ kflow[c].pkts < MaxPkts
  /\ ~dictBypass[c]
  /\ kflow' = [kflow EXCEPT ![c].pkts = @ + 1]
  /\ Enqueue(q, [ctid |-> c, tuple |-> kflow[c].tuple, new |-> FALSE])
  /\ UNCHANGED <<evq, dictBypass, flowsStarted, dictCountry>>

\* After NF_ACCEPT the first packet reaches the confirm hook: the entry is
\* confirmed and conntrack reports NEW.
Confirm(c) ==
  /\ kflow[c].state = "accepted"
  /\ kflow' = [kflow EXCEPT ![c].state = "confirmed"]
  /\ evq' = Append(evq, [kind |-> "NEW", ctid |-> c, tuple |-> kflow[c].tuple])
  /\ UNCHANGED <<kq, dictBypass, flowsStarted, dictCountry>>

\* The first packet is dropped after packetd accepted it and before
\* confirmation: the entry dies without any event and its id is free again.
DropUnconfirmed(c) ==
  /\ kflow[c].state = "accepted"
  /\ kflow' = [kflow EXCEPT ![c] = FreeEntry]
  /\ UNCHANGED <<kq, evq, dictBypass, flowsStarted, dictCountry>>

\* A confirmed flow ends; no queued packet holds a reference to it.
Destroy(c) ==
  /\ kflow[c].state = "confirmed"
  /\ ~InFlight(c)
  /\ kflow' = [kflow EXCEPT ![c] = FreeEntry]
  /\ evq' = Append(evq, [kind |-> "DESTROY", ctid |-> c, tuple |-> kflow[c].tuple])
  /\ UNCHANGED <<kq, dictBypass, flowsStarted, dictCountry>>

\* The verdict for the packet at the head of queue q: the kernel releases
\* it; for a flow's first packet the entry moves on to confirmation.
Verdict(q) ==
  LET m == Head(kq[q]) IN
  /\ kq' = [kq EXCEPT ![q] = Tail(@)]
  /\ kflow' = IF m.new /\ kflow[m.ctid].state = "new"
                THEN [kflow EXCEPT ![m.ctid].state = "accepted"]
                ELSE kflow

NfNext ==
  \/ \E c \in Ctids, t \in Tuples, q \in Queues : NewFlow(c, t, q)
  \/ \E c \in Ctids : PacketBypassed(c) \/ Confirm(c) \/ DropUnconfirmed(c) \/ Destroy(c)
  \/ \E c \in Ctids, q \in Queues : PacketQueued(c, q)
=============================================================================
