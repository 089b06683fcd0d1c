------------------------------ MODULE Nfqueue ------------------------------
(***************************************************************************)
(* The NFQUEUE dispatcher of src/services/dispatch/nfqueue.go: one thread  *)
(* per kernel queue runs nfqueueCallback on the packet at the head of its *)
(* queue, resolves the session, and callSubscribers walks the priority    *)
(* tiers of the session's subscription snapshot.  For every plugin of a   *)
(* tier it starts a watcher goroutine, which starts the handler goroutine *)
(* and selects between the handler's result on the one-slot channel c and *)
(* the 30 second timer; the dispatcher collects one result per plugin of  *)
(* the tier from the unbuffered resultsChannel before the next tier.      *)
(***************************************************************************)
EXTENDS Tables, FiniteSets

CONSTANTS
  Priority,       \* Priority[p]: the plugin's priority (lower runs first)
  WatchdogFires   \* TRUE: a handler may outlast maxAllowedTime

ASSUME Priority \in [Plugins -> 0..100]
ASSUME WatchdogFires \in BOOLEAN

VARIABLES
  disp,   \* disp[q]: the dispatcher thread of queue q (callSubscribers locals)
  task    \* task[q][p]: the watcher/handler goroutine pair of plugin p

dispVars == <<disp, task>>

\* A thread is "idle" (waiting for a packet), "spawn" (about to start the
\* tier disp[q].prio) or "collect" (reading disp[q].hit more results).
IdleThread == [pc |-> "idle", sid |-> NoSession, new |-> FALSE, snap |-> {},
               prio |-> 0, called |-> {}, hit |-> 0]
\* Handler goroutine h, watcher goroutine w, the channel c (capacity 1), the
\* result r the watcher holds, and the Session the goroutines were given.
NoTask == [h |-> "none", w |-> "none", c |-> <<>>, r |-> FALSE, sid |-> NoSession]

NfqueueTypeOK ==
  /\ disp \in [Queues -> [pc : {"idle", "spawn", "collect"},
                          sid : {NoSession} \cup SessionIds, new : BOOLEAN,
                          snap : SUBSET Plugins, prio : 0..100,
                          called : SUBSET Plugins, hit : 0..Cardinality(Plugins)]]
  /\ task \in [Queues -> [Plugins -> [h : {"none", "run", "done", "blocked"},
                                      w : {"none", "wait", "send", "done", "stuck"},
                                      c : Seq(BOOLEAN), r : BOOLEAN,
                                      sid : {NoSession} \cup SessionIds]]]
  /\ \A q \in Queues, p \in Plugins : Len(task[q][p].c) <= 1

NfqueueInit ==
  /\ disp = [q \in Queues |-> IdleThread]
  /\ task = [q \in Queues |-> [p \in Plugins |-> NoTask]]

Ready(q) == disp[q].pc = "idle" /\ kq[q] # <<>>
Msg(q) == Head(kq[q])

\* Mutant: the reuse check compares nothing and keeps the old session.
SameClientTupleIgnored(m, s) == TRUE

\* mess.MsgTuple.Equal(session.GetClientSideTuple())
SameClientTuple(m, s) == m.tuple = sessions[s].tuple

(***************************************************************************)
(* ReleaseSession(session, owner): under the session's subLocker, drop    *)
(* owner's subscription; when the set becomes empty write                  *)
(* bypass_packetd=true for the session's own conntrack id.                 *)
(***************************************************************************)
\* Mutant: bypass written on every release, not only the last one.
ReleaseSessionEager(s, owner) ==
  LET subs == sessions[s].subs IN
  IF subs = {}
    THEN UNCHANGED <<sessions, dictBypass>>
    ELSE /\ sessions' = [sessions EXCEPT ![s].subs = subs \ {owner}]
         /\ dictBypass' = [dictBypass EXCEPT ![sessions[s].ctid] = TRUE]

ReleaseSession(s, owner) ==
  LET subs == sessions[s].subs
      left == subs \ {owner}
  IN IF subs = {}
       THEN UNCHANGED <<sessions, dictBypass>>
       ELSE /\ sessions' = [sessions EXCEPT ![s].subs = left]
            /\ dictBypass' = IF left = {}
                               THEN [dictBypass EXCEPT ![sessions[s].ctid] = TRUE]
                               ELSE dictBypass

\* createSession(mess, ctid): a new Session, inserted in the session table.
CreateSession(m) ==
  /\ sessions' = sessions @@ (nextSid :> NewSession(m.ctid, m.tuple))
  /\ nextSid' = nextSid + 1
  /\ sessTable' = [sessTable EXCEPT ![m.ctid] = nextSid]

(***************************************************************************)
(* The rest of nfqueueCallback once the session s is known: a new session *)
(* drops any conntrack record of its ctid (a DESTROY not yet processed);   *)
(* direction, interface ids and counters only feed logging and plugins    *)
(* and are not kept.  Then callSubscribers takes the snapshot snap: empty *)
(* means bypass now and accept, otherwise the tier walk starts at 0.      *)
(***************************************************************************)
CallSubscribers(q, m, s, isNew, snap) ==
  /\ ctTable' = IF isNew THEN RemoveConntrack(m.ctid) ELSE ctTable
  /\ IF snap = {}
       THEN /\ dictBypass' = [dictBypass EXCEPT ![m.ctid] = TRUE]
            /\ Verdict(q)
            /\ UNCHANGED disp
       ELSE /\ disp' = [disp EXCEPT ![q] = [IdleThread EXCEPT
                          !.pc = "spawn", !.sid = s, !.new = isNew, !.snap = snap]]
            /\ UNCHANGED <<dictBypass, kq, kflow>>

\* No session and no new mark: the first packet was missed; bypass the flow.
MidSessionPacket(q) ==
  /\ Ready(q)
  /\ FindSession(Msg(q).ctid) = NoSession
  /\ ~Msg(q).new
  /\ dictBypass' = [dictBypass EXCEPT ![Msg(q).ctid] = TRUE]
  /\ Verdict(q)
  /\ UNCHANGED <<tableVars, dispVars, evq, flowsStarted, dictCountry>>

\* No session and the new mark: create the session.
FirstPacket(q) ==
  LET m == Msg(q) IN
  /\ Ready(q)
  /\ FindSession(m.ctid) = NoSession
  /\ m.new
  /\ CreateSession(m)
  /\ CallSubscribers(q, m, nextSid, TRUE, Plugins)
  /\ UNCHANGED <<task, evq, flowsStarted, dictCountry>>

\* A session exists and the packet is not new, or is "new" with the same
\* client tuple (netfilter re-marked it): use the existing session.
KnownPacket(q) ==
  LET m == Msg(q)
      s == FindSession(m.ctid)
  IN
  /\ Ready(q)
  /\ s # NoSession
  /\ ~m.new \/ SameClientTuple(m, s)
  /\ CallSubscribers(q, m, s, FALSE, sessions[s].subs)
  /\ UNCHANGED <<sessions, nextSid, sessTable, task, evq, flowsStarted, dictCountry>>

\* A session exists, the packet is new and its tuple differs: the ctid was
\* reused; the old session leaves the table and a new one takes its place.
ReusedCtid(q) ==
  LET m == Msg(q)
      s == FindSession(m.ctid)
  IN
  /\ Ready(q)
  /\ s # NoSession
  /\ m.new
  /\ ~SameClientTuple(m, s)
  /\ CreateSession(m)
  /\ CallSubscribers(q, m, nextSid, TRUE, Plugins)
  /\ UNCHANGED <<task, evq, flowsStarted, dictCountry>>

\* Mutant: an off-by-one picks the plugins of the next priority.
SpawnTierOffByOne(q) ==
  LET d == disp[q]
      tier == {p \in d.snap : Priority[p] = d.prio + 1}
  IN
  /\ d.pc = "spawn"
  /\ task' = [task EXCEPT ![q] = [p \in Plugins |->
                IF p \in tier
                  THEN [NoTask EXCEPT !.h = "run", !.w = "wait", !.sid = d.sid]
                  ELSE @[p]]]
  /\ disp' = [disp EXCEPT ![q] = [d EXCEPT !.pc = "collect",
                                   !.called = @ \cup tier,
                                   !.hit = Cardinality(tier)]]
  /\ UNCHANGED <<nfVars, tableVars>>

\* One pass of the priority loop: start a watcher for every plugin of the
\* snapshot at the current priority, counting hitcount and subcount.
SpawnTier(q) ==
  LET d == disp[q]
      tier == {p \in d.snap : Priority[p] = d.prio}
  IN
  /\ d.pc = "spawn"
  /\ task' = [task EXCEPT ![q] = [p \in Plugins |->
                IF p \in tier
                  THEN [NoTask EXCEPT !.h = "run", !.w = "wait", !.sid = d.sid]
                  ELSE @[p]]]
  /\ disp' = [disp EXCEPT ![q] = [d EXCEPT !.pc = "collect",
                                   !.called = @ \cup tier,
                                   !.hit = Cardinality(tier)]]
  /\ UNCHANGED <<nfVars, tableVars>>

(***************************************************************************)
(* A plugin's NfqueueFunc other than geoip's (see Geoip): it may call     *)
(* ReleaseSession for itself and returns SessionRelease; the goroutine    *)
(* then sends on c, and blocks for ever if the watcher already filled it. *)
(***************************************************************************)
Handler(q, p) ==
  LET t == task[q][p] IN
  /\ t.h = "run"
  /\ \E selfRelease, ret \in BOOLEAN :
       /\ IF selfRelease THEN ReleaseSession(t.sid, p)
                         ELSE UNCHANGED <<sessions, dictBypass>>
       /\ task' = [task EXCEPT ![q][p] =
                    IF t.c = <<>> THEN [t EXCEPT !.c = <<ret>>, !.h = "done"]
                                  ELSE [t EXCEPT !.h = "blocked"]]
  /\ UNCHANGED <<kflow, kq, evq, flowsStarted, dictCountry, nextSid, sessTable, ctTable, disp>>

\* select case "result := <-c": the watcher forwards it on resultsChannel.
WatcherReceive(q, p) ==
  LET t == task[q][p] IN
  /\ t.w = "wait"
  /\ t.c # <<>>
  /\ task' = [task EXCEPT ![q][p] = [t EXCEPT !.w = "send", !.r = Head(t.c), !.c = <<>>]]
  /\ UNCHANGED <<nfVars, tableVars, disp>>

\* select case "<-timeoutTimer.C": the synthetic release result is sent on
\* c, not on resultsChannel; if the handler already filled c the send blocks.
WatchdogFire(q, p) ==
  LET t == task[q][p] IN
  /\ WatchdogFires
  /\ t.w = "wait"
  /\ task' = [task EXCEPT ![q][p] =
                IF t.c = <<>> THEN [t EXCEPT !.c = <<TRUE>>, !.w = "done"]
                              ELSE [t EXCEPT !.w = "stuck"]]
  /\ UNCHANGED <<nfVars, tableVars, disp>>

\* Mutant: the result is read but not counted towards hitcount.
CollectUncounted(q, p) ==
  LET t == task[q][p] IN
  /\ disp[q].pc = "collect"
  /\ disp[q].hit > 0
  /\ t.w = "send"
  /\ task' = [task EXCEPT ![q][p] = [t EXCEPT !.w = "done"]]
  /\ UNCHANGED disp
  /\ IF t.r THEN ReleaseSession(disp[q].sid, p)
            ELSE UNCHANGED <<sessions, dictBypass>>
  /\ UNCHANGED <<kflow, kq, evq, flowsStarted, dictCountry, nextSid, sessTable, ctTable>>

\* The dispatcher receives one result from resultsChannel and releases the
\* subscription of a plugin that asked for it.
Collect(q, p) ==
  LET t == task[q][p] IN
  /\ disp[q].pc = "collect"
  /\ disp[q].hit > 0
  /\ t.w = "send"
  /\ task' = [task EXCEPT ![q][p] = [t EXCEPT !.w = "done"]]
  /\ disp' = [disp EXCEPT ![q].hit = @ - 1]
  /\ IF t.r THEN ReleaseSession(disp[q].sid, p)
            ELSE UNCHANGED <<sessions, dictBypass>>
  /\ UNCHANGED <<kflow, kq, evq, flowsStarted, dictCountry, nextSid, sessTable, ctTable>>

\* Mutant: the loop "for i := 0; i < hitcount-1; i++" leaves one result.
TierCollectedEarly(d) == d.hit <= 1

\* The result loop "for i := 0; i < hitcount; i++" has read every result.
TierCollected(d) == d.hit = 0

\* Mutant: the loop test reads the live subscription set, not the snapshot.
AllCalledLive(d) == d.called = sessions[d.sid].subs

\* The loop test "subcount != subtotal": every plugin of the snapshot called.
AllCalled(d) == d.called = d.snap

\* All results of the tier are in: priority++, and either loop again or,
\* every subscriber having been called, return NF_ACCEPT.
NextTier(q) ==
  LET d == disp[q] IN
  /\ d.pc = "collect"
  /\ TierCollected(d)
  /\ IF AllCalled(d)
       THEN /\ Verdict(q)
            /\ disp' = [disp EXCEPT ![q] = IdleThread]
            /\ task' = [task EXCEPT ![q] = [p \in Plugins |-> NoTask]]
       ELSE /\ disp' = [disp EXCEPT ![q] = [d EXCEPT !.pc = "spawn", !.prio = @ + 1]]
            /\ UNCHANGED <<kq, kflow, task>>
  /\ UNCHANGED <<evq, dictBypass, flowsStarted, dictCountry, tableVars>>

\* The dispatcher threads and watcher goroutines; handlers are the plugins'.
NfqueueNext ==
  \E q \in Queues :
    \/ MidSessionPacket(q) \/ FirstPacket(q) \/ KnownPacket(q) \/ ReusedCtid(q)
    \/ SpawnTier(q) \/ NextTier(q)
    \/ \E p \in Plugins : WatcherReceive(q, p) \/ WatchdogFire(q, p) \/ Collect(q, p)
=============================================================================
