------------------------------- MODULE Tables -------------------------------
(***************************************************************************)
(* The session table and the conntrack table of the dispatch service:     *)
(* two mappings keyed by conntrack id, and the Session objects they point *)
(* to.  The Go code of these tables (session.go, conntrack.go) is not in   *)
(* src/; they follow spec.md sections 3 and 4.2.  A Session is kept after  *)
(* it leaves the table, because a dispatcher thread or plugin may still   *)
(* hold a pointer to it.                                                   *)
(***************************************************************************)
EXTENDS Netfilter, TLC

CONSTANT Plugins   \* registered nfqueue subscriptions (plugin names)

VARIABLES
  sessions,   \* sessions[id]: Session object with session id id
  nextSid,    \* next value nextSessionID() returns
  sessTable,  \* sessTable[c]: id of the Session in the session table, 0 = none
  ctTable     \* ctTable[c]: conntrack record (tuple, linked session id)

tableVars == <<sessions, nextSid, sessTable, ctTable>>

NoSession == 0
SessionIds == 1..MaxFlows
SessionRec == [ctid : Ctids, tuple : Tuples, subs : SUBSET Plugins,
               confirmed : BOOLEAN]
NoConntrack == [tuple |-> NoTuple, sid |-> NoSession]

TablesTypeOK ==
  /\ nextSid \in 1..MaxFlows + 1
  /\ DOMAIN sessions = 1..nextSid - 1
  /\ \A s \in DOMAIN sessions : sessions[s] \in SessionRec
  /\ sessTable \in [Ctids -> {NoSession} \cup SessionIds]
  /\ ctTable \in [Ctids -> [tuple : Tuples \cup {NoTuple},
                            sid : {NoSession} \cup SessionIds]]

TablesInit ==
  /\ sessions = <<>>
  /\ nextSid = 1
  /\ sessTable = [c \in Ctids |-> NoSession]
  /\ ctTable = [c \in Ctids |-> NoConntrack]

\* findSession(ctid)
FindSession(c) == sessTable[c]

\* A new Session with the next id, its subscription set a copy of every
\* registered nfqueue subscription (AttachNfqueueSubscriptions).
NewSession(c, t) ==
  [ctid |-> c, tuple |-> t, subs |-> Plugins, confirmed |-> FALSE]

\* removeConntrack(ctid): idempotent
RemoveConntrack(c) == [ctTable EXCEPT ![c] = NoConntrack]
=============================================================================
