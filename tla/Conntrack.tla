----------------------------- MODULE Conntrack -----------------------------
(***************************************************************************)
(* The conntrack dispatcher: one thread reads the kernel's conntrack      *)
(* events in order and updates the conntrack table, the paired session    *)
(* and the dictionary.  Its Go code (conntrack.go) is not in src/; this   *)
(* module follows spec.md section 4.5.  UPDATE events only refresh        *)
(* counters and timestamps and are not modelled.                          *)
(***************************************************************************)
EXTENDS Tables

\* NEW: upsert the record; link the session of this ctid and mark it
\* conntrack_confirmed only when its client tuple matches.
ConntrackNew ==
  LET e == Head(evq)
      s == FindSession(e.ctid)
      linked == s # NoSession /\ sessions[s].tuple = e.tuple
  IN
  /\ evq # <<>>
  /\ e.kind = "NEW"
  /\ evq' = Tail(evq)
  /\ ctTable' = [ctTable EXCEPT ![e.ctid] =
                  [tuple |-> e.tuple, sid |-> IF linked THEN s ELSE NoSession]]
  /\ sessions' = IF linked THEN [sessions EXCEPT ![s].confirmed = TRUE]
                           ELSE sessions
  /\ UNCHANGED <<kflow, kq, dictBypass, flowsStarted, dictCountry, nextSid, sessTable>>

\* DESTROY: remove the record, the session it is paired with if that one is
\* still in the session table, and the dictionary entry sessions[ctid]
\* (bypass_packetd and the geoip countries).
ConntrackDestroy ==
  LET e == Head(evq)
      rec == ctTable[e.ctid]
      paired == rec.sid # NoSession /\ sessTable[e.ctid] = rec.sid
  IN
  /\ evq # <<>>
  /\ e.kind = "DESTROY"
  /\ evq' = Tail(evq)
  /\ ctTable' = RemoveConntrack(e.ctid)
  /\ sessTable' = IF paired THEN [sessTable EXCEPT ![e.ctid] = NoSession]
                            ELSE sessTable
  /\ dictBypass' = [dictBypass EXCEPT ![e.ctid] = FALSE]
  /\ dictCountry' = [dictCountry EXCEPT ![e.ctid] = NoTuple]
  /\ UNCHANGED <<kflow, kq, flowsStarted, sessions, nextSid>>

ConntrackNext == ConntrackNew \/ ConntrackDestroy
=============================================================================
