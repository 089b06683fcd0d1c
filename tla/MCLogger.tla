------------------------------ MODULE MCLogger ------------------------------
(***************************************************************************)
(* Constants for checking Logger: two sources, "dispatch" configured at   *)
(* "trace" in lower case and "geoip" with a level name the logger does not *)
(* know, so that a REST call may have to add it; two concurrent REST      *)
(* callers; one "%OC|" counter without limit and one with limit 3.        *)
(***************************************************************************)
EXTENDS Logger, Sequences

CONSTANTS a1, a2, n1, n2

MCFileConfig ==
  ("_ValidLevels_" :> Text("EMERG|ALERT|CRIT|ERROR|WARN|NOTICE|INFO|DEBUG|TRACE", TRUE))
  @@ ("dispatch" :> Text("TRACE", FALSE))
  @@ ("geoip" :> Text("VERBOSE", TRUE))

\* A level name in upper case, one in lower case, and an unknown one.
MCRequestWords == {Text("CRIT", TRUE), Text("DEBUG", FALSE), Text("LOUD", TRUE)}

\* logconfig.js with a valid level for every source.
MCFileConfigAll ==
  ("_ValidLevels_" :> Text("EMERG|ALERT|CRIT|ERROR|WARN|NOTICE|INFO|DEBUG|TRACE", TRUE))
  @@ ("dispatch" :> Text("TRACE", FALSE))
  @@ ("geoip" :> Text("NOTICE", TRUE))

\* Every source has a level, so no request adds one.
AllSourcesConfigured == \A s \in Sources : levelMap[s] # NoPtr

\* Callers of the logger: nfqueueCallback, a goroutine closure of
\* callSubscribers (nfqueue.go:280), a method of Session, geoip's handler,
\* and a function of package main, whose name has no "/".
PacketdDirs == <<"github_com", "untangle", "packetd">>
MCCallers ==
  { [dirs |-> PacketdDirs \o <<"services">>, pkg |-> "dispatch", parts |-> <<"nfqueueCallback">>],
    [dirs |-> PacketdDirs \o <<"services">>, pkg |-> "dispatch", parts |-> <<"callSubscribers", "func1">>],
    [dirs |-> PacketdDirs \o <<"services">>, pkg |-> "dispatch", parts |-> <<"(*Session)", "GetConntrackID">>],
    [dirs |-> PacketdDirs \o <<"plugins">>, pkg |-> "geoip", parts |-> <<"PluginNfqueueHandler">>],
    [dirs |-> <<>>, pkg |-> "main", parts |-> <<"main">>] }

MCOcLimit == (n1 :> 0) @@ (n2 :> 3)
=============================================================================
