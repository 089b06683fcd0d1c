------------------------------ MODULE Packetd ------------------------------
(***************************************************************************)
(* packetd's packet dispatch core composed with the kernel that feeds it: *)
(* the netfilter ruleset and conntrack (Netfilter), the NFQUEUE dispatcher *)
(* threads and their plugin goroutines (Nfqueue; Geoip for the geoip     *)
(* plugin), the conntrack event thread (Conntrack) and the session       *)
(* reaper (Reaper), sharing the session table, the conntrack table and   *)
(* the sessions dictionary.                                                *)
(***************************************************************************)
EXTENDS Geoip, Conntrack, Reaper

vars == <<nfVars, tableVars, dispVars>>

TypeOK == NfTypeOK /\ TablesTypeOK /\ NfqueueTypeOK

Init == NfInit /\ TablesInit /\ NfqueueInit

Next ==
  \/ NfNext /\ UNCHANGED <<tableVars, dispVars>>
  \/ NfqueueNext
  \/ PluginNext
  \/ ConntrackNext /\ UNCHANGED dispVars
  \/ ReaperNext

\* Go schedules every runnable goroutine: each dispatcher thread, each
\* watcher and handler goroutine, the conntrack thread and the reaper's
\* periodic task keep running.
\* The watchdog timer gets no fairness: it fires only if the handler is slow.
\* The kernel's traffic is not forced to happen.
Fairness ==
  /\ \A q \in Queues :
       /\ WF_vars(MidSessionPacket(q) \/ FirstPacket(q) \/ KnownPacket(q)
                  \/ ReusedCtid(q) \/ SpawnTier(q) \/ NextTier(q))
       /\ WF_vars(PluginNfqueueHandler(q))
       /\ \A p \in Plugins : /\ p # Geoip => WF_vars(Handler(q, p))
                             /\ WF_vars(WatcherReceive(q, p))
                             /\ WF_vars(Collect(q, p))
  /\ WF_vars(ConntrackNext /\ UNCHANGED dispVars)
  /\ \A c \in Ctids : WF_vars(Reap(c))

Spec == Init /\ [][Next]_vars /\ Fairness

-----------------------------------------------------------------------------
(***************************************************************************)
(* Properties                                                              *)
(***************************************************************************)

\* spec.md section 8: bypass_packetd=true for a ctid whose session is in the
\* table means every plugin of that session has released it.  Involves
\* ReleaseSession's empty-set test, the ruleset's dict flush on a new flow,
\* the ctid-reuse path and the conntrack DESTROY handler.
NoBypassWithLiveSubscribers ==
  \A c \in Ctids :
    sessTable[c] # NoSession /\ dictBypass[c] => sessions[sessTable[c]].subs = {}

\* The session nfqueueCallback hands to the plugins belongs to the packet's
\* flow: after ctid reuse, an unconfirmed drop or a re-marked "new" packet,
\* a packet is never dispatched with another flow's session.
SessionMatchesPacket ==
  \A q \in Queues :
    disp[q].pc # "idle" => sessions[disp[q].sid].tuple = Head(kq[q]).tuple

\* spec.md section 8: a plugin runs only once every plugin of the snapshot
\* with a lower priority has returned its result or timed out.
TierOrder ==
  \A q \in Queues, p, p2 \in Plugins :
    /\ task[q][p2].h # "none"
    /\ p \in disp[q].snap
    /\ Priority[p] < Priority[p2]
    => task[q][p].w = "done"

\* Every packet that a dispatcher thread starts on gets its verdict: the
\* kernel never holds a queued packet for ever (spec.md 4.4 and scenario 4:
\* a plugin timeout releases the plugin and the dispatcher continues).
PacketGetsVerdict ==
  \A q \in Queues : disp[q].pc # "idle" ~> disp[q].pc = "idle"

\* The geoip countries in the dictionary entry of a live conntrack entry
\* were computed for that entry's own flow, never for an earlier flow that
\* held the same ctid: the ruleset's "ct id flush" on a new flow and the
\* DESTROY handler clear them, and geoip writes them for the packet it is
\* holding.
GeoipCountryFresh ==
  \A c \in Ctids :
    kflow[c].state # "free" => dictCountry[c] \in {NoTuple, kflow[c].tuple}

\* geoip.go: the handler "stores [the countries] in the conntrack
\* dictionary" of every new session.  A confirmed flow whose session the
\* dispatcher created has both entries.
CountryKept ==
  \A c \in Ctids :
    /\ kflow[c].state = "confirmed"
    /\ sessTable[c] # NoSession
    /\ sessions[sessTable[c]].tuple = kflow[c].tuple
    => dictCountry[c] = kflow[c].tuple

\* Packetd implements SessionRegistry: the session in the table for each
\* ctid, its live subscription set and bypass_packetd, seen through the
\* mapping below, only ever change as SessionRegistry allows.  Every
\* writer of these is covered: nfqueueCallback's create, reuse and
\* empty-snapshot paths, ReleaseSession from geoip and from timed-out
\* plugins, the ruleset's flush and the conntrack DESTROY handler.
TableOwner(c) ==
  IF sessTable[c] = NoSession THEN NoTuple ELSE sessions[sessTable[c]].tuple
TableLive(c) ==
  IF sessTable[c] = NoSession THEN {} ELSE sessions[sessTable[c]].subs
Registry == INSTANCE SessionRegistry WITH
              owner <- [c \in Ctids |-> TableOwner(c)],
              live <- [c \in Ctids |-> TableLive(c)],
              bypass <- dictBypass
RegistryRefined == Registry!RegSpec
=============================================================================
