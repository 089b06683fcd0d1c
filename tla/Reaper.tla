------------------------------- MODULE Reaper -------------------------------
(***************************************************************************)
(* The session reaper: a periodic task on its own thread that walks the   *)
(* session table and evicts every session idle for longer than the        *)
(* threshold, deleting its dictionary entry.  Its Go code is not in src/;  *)
(* this module follows spec.md sections 3 and 4.7.  Time is abstracted:    *)
(* any session may have been idle long enough, except one a dispatcher    *)
(* thread is working on, since nfqueueCallback refreshes last-activity    *)
(* and the reaper re-checks it under the table lock before removing.      *)
(***************************************************************************)
EXTENDS Nfqueue

\* No dispatcher thread is processing a packet of session s.
Idle(s) == \A q \in Queues : disp[q].pc = "idle" \/ disp[q].sid # s

\* Evict the session of ctid c and delete sessions[c] from the dictionary.
Reap(c) ==
  LET s == sessTable[c] IN
  /\ s # NoSession
  /\ Idle(s)
  /\ sessTable' = [sessTable EXCEPT ![c] = NoSession]
  /\ dictBypass' = [dictBypass EXCEPT ![c] = FALSE]
  /\ dictCountry' = [dictCountry EXCEPT ![c] = NoTuple]
  /\ UNCHANGED <<kflow, kq, evq, flowsStarted, sessions, nextSid, ctTable,
                 dispVars>>

ReaperNext == \E c \in Ctids : Reap(c)
=============================================================================
