------------------------------- MODULE Geoip -------------------------------
(***************************************************************************)
(* The geoip plugin of src/plugins/geoip/geoip.go as one of the plugins   *)
(* the dispatcher calls.  PluginStartup subscribes it to nfqueue at its    *)
(* priority; PluginNfqueueHandler releases the session at once and, for a *)
(* new session only, looks the client and server addresses up under       *)
(* geoMutex and writes client_country and server_country to the           *)
(* dictionary entry of the packet's ctid.  Which country is found         *)
(* (private "XL", unknown "XU", or the database's ISO code) does not      *)
(* matter here: dictCountry records for which flow the two entries were   *)
(* computed.                                                               *)
(***************************************************************************)
EXTENDS Nfqueue

CONSTANT Geoip   \* the plugin name "geoip"

ASSUME Geoip \in Plugins

(***************************************************************************)
(* The handler goroutine of geoip for the packet at the head of queue q:  *)
(* ReleaseSession(mess.Session, "geoip"); return if !newSession; otherwise *)
(* the two dict.AddSessionEntry(ctid, ...) calls (the attachments and the *)
(* report event are not kept).  The zero NfqueueResult goes on c, or the  *)
(* goroutine blocks if the watcher already filled c.  The dispatcher      *)
(* thread waits for the result, so the head of its queue and its          *)
(* newSession flag are the ones the handler was started with.             *)
(***************************************************************************)
PluginNfqueueHandler(q) ==
  LET t == task[q][Geoip]
      m == Head(kq[q])
  IN
  /\ t.h = "run"
  /\ ReleaseSession(t.sid, Geoip)
  /\ dictCountry' = IF disp[q].new THEN [dictCountry EXCEPT ![m.ctid] = m.tuple]
                                    ELSE dictCountry
  /\ task' = [task EXCEPT ![q][Geoip] =
                IF t.c = <<>> THEN [t EXCEPT !.c = <<FALSE>>, !.h = "done"]
                              ELSE [t EXCEPT !.h = "blocked"]]
  /\ UNCHANGED <<kflow, kq, evq, flowsStarted, nextSid, sessTable, ctTable, disp>>

\* The plugins' handler goroutines: geoip's and any other plugin's.
PluginNext ==
  \E q \in Queues :
    \/ PluginNfqueueHandler(q)
    \/ \E p \in Plugins \ {Geoip} : Handler(q, p)
=============================================================================
