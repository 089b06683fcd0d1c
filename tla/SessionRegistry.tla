--------------------------- MODULE SessionRegistry ---------------------------
(***************************************************************************)
(* What the dispatch service promises about sessions and the bypass flag, *)
(* per conntrack id, with no queues, threads, tiers or timeouts           *)
(* (spec.md sections 3, 4.3 and 8):                                        *)
(*   - a flow's session starts with every registered plugin subscribed,   *)
(*     and only on a dictionary entry that no longer says bypass;         *)
(*   - subscriptions only leave a session, one plugin at a time;          *)
(*   - bypass_packetd=true is written for a ctid only when it has no      *)
(*     session, or its session has no subscriber left;                    *)
(*   - the dictionary entry is flushed by the ruleset and by DESTROY,     *)
(*     and a DESTROY paired with the session removes it from the table.   *)
(* Packetd is shown to implement this module (RegistryRefined).           *)
(***************************************************************************)
CONSTANTS Ctids, Tuples, Plugins, NoTuple

VARIABLES
  owner,   \* owner[c]: client tuple of the session in the table, NoTuple = none
  live,    \* live[c]: plugins still subscribed to that session
  bypass   \* bypass[c]: bypass_packetd in the dictionary entry of c

regVars == <<owner, live, bypass>>

RegTypeOK ==
  /\ owner \in [Ctids -> Tuples \cup {NoTuple}]
  /\ live \in [Ctids -> SUBSET Plugins]
  /\ bypass \in [Ctids -> BOOLEAN]

\* Conntrack entries that predate the daemon may already carry the flag.
RegInit ==
  /\ owner = [c \in Ctids |-> NoTuple]
  /\ live = [c \in Ctids |-> {}]
  /\ bypass \in [Ctids -> BOOLEAN]

\* A session for flow t takes the ctid, replacing any earlier one.
Open(c, t) ==
  /\ ~bypass[c]
  /\ owner' = [owner EXCEPT ![c] = t]
  /\ live' = [live EXCEPT ![c] = Plugins]
  /\ UNCHANGED bypass

\* Plugin p leaves; the last one to leave sets the flag.
Release(c, p) ==
  /\ p \in live[c]
  /\ live' = [live EXCEPT ![c] = @ \ {p}]
  /\ bypass' = IF live'[c] = {} THEN [bypass EXCEPT ![c] = TRUE] ELSE bypass
  /\ UNCHANGED owner

\* Nobody is subscribed to c any more: the flag may be set.
SetBypass(c) ==
  /\ live[c] = {}
  /\ bypass' = [bypass EXCEPT ![c] = TRUE]
  /\ UNCHANGED <<owner, live>>

\* The dictionary entry is cleared.
Flush(c) ==
  /\ bypass' = [bypass EXCEPT ![c] = FALSE]
  /\ UNCHANGED <<owner, live>>

\* DESTROY paired with the session: the entry and the session leave.
Close(c) ==
  /\ owner[c] # NoTuple
  /\ owner' = [owner EXCEPT ![c] = NoTuple]
  /\ live' = [live EXCEPT ![c] = {}]
  /\ bypass' = [bypass EXCEPT ![c] = FALSE]

RegNext ==
  \E c \in Ctids :
    \/ \E t \in Tuples : Open(c, t)
    \/ \E p \in Plugins : Release(c, p)
    \/ SetBypass(c)
    \/ Flush(c)
    \/ Close(c)

RegSpec == RegInit /\ [][RegNext]_regVars
=============================================================================
