\* IsLogEnabled against the filter LogMessage applies, as levels change.
CONSTANTS
  Sources = {"dispatch", "geoip"}
  DefaultSources = {"dispatch", "geoip"}
  CommentKeys = {"_FileVersion_", "_ValidLevels_"}
  FileConfig <- MCFileConfig
  NoName = NoName
  Adjusters = {a1, a2}
  a1 = a1
  a2 = a2
  RequestWords <- MCRequestWords
  QueryParts = {1, 2}
  Callers <- MCCallers
  Counters = {n1, n2}
  n1 = n1
  n2 = n2
  OcLimit <- MCOcLimit
  MaxRequests = 3
  MaxMessages = 5
SPECIFICATION LoggerSpec
INVARIANT IsLogEnabledAgrees
\* Requests and messages are bounded; once both bounds are reached the
\* callers are idle, as the daemon is with no REST traffic.
CHECK_DEADLOCK FALSE
