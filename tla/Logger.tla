------------------------------- MODULE Logger -------------------------------
(***************************************************************************)
(* The level map of src/services/logger/logger.go.  Startup loads         *)
(* logconfig.js into logLevelMap, a map from source name (package or      *)
(* function) to a pointer to an int32 level; the map is guarded by the     *)
(* RWMutex logLevelLocker and the levels are read and written with atomic  *)
(* loads and stores.  AdjustSourceLogLevel, called by the REST daemon's   *)
(* loggerHandler (src/unnamed/part_001) in one goroutine per request,     *)
(* looks a source up under the read lock and inserts a fresh pointer     *)
(* under the write lock; a logging goroutine                               *)
(* filters its message with GetLogLevel and, for the "%OC|" verb, bumps   *)
(* an overseer counter and rate-limits the message in LogFormatter.       *)
(***************************************************************************)
EXTENDS Integers, FiniteSets, TLC
LOCAL INSTANCE SequencesExt

CONSTANTS
  Sources,        \* source names a level can be configured for
  DefaultSources, \* the sources initLoggerConfig writes at "INFO"
  CommentKeys,    \* configuration keys "_X_" that loadLoggerConfig skips
  FileConfig,     \* logconfig.js when it exists: [keys -> level text]
  NoName,         \* model value: no function name / package name
  Adjusters,      \* concurrent REST requests to loggerHandler
  RequestWords,   \* level text a request may carry after "="
  QueryParts,     \* how many "="-separated parts a request's source has
  Callers,        \* Go functions that log: [dirs, pkg, parts] (see CallerFunction)
  Counters,       \* overseer counter names used with "%OC|"
  OcLimit,        \* OcLimit[n]: the limit argument passed with counter n
  MaxRequests,    \* bound: AdjustSourceLogLevel calls in a behaviour
  MaxMessages     \* bound: "%OC|" messages per counter

ASSUME QueryParts \subseteq 1..3
\* The words of a caller's name are the text between separators.
ASSUME \A c \in Callers :
         ({c.pkg} \cup Range(c.dirs) \cup Range(c.parts)) \cap {"/", "."} = {}
ASSUME OcLimit \in [Counters -> Nat]

VARIABLES
  levelMap,   \* levelMap[s]: the pointer stored for s, NoPtr if none
  cells,      \* cells[p]: the int32 that pointer p points to
  adj,        \* adj[a]: locals of caller a inside AdjustSourceLogLevel
  requests,   \* loggerHandler requests made so far (bound)
  lastSet,    \* lastSet[s]: {level} of the last adjust of s to return if
              \* loggerHandler answered it with success, {} otherwise
  reply,      \* reply[a]: how request a was answered, and whether it
              \* stored a level
  ocTotal,    \* ocTotal[n]: the overseer counter n
  ocShown,    \* ocShown[n]: "%OC|" messages of n that LogFormatter formatted
  ocLast      \* ocLast[n]: the counter value of the last one formatted

loggerVars == <<levelMap, cells, adj, requests, lastSet, reply, ocTotal, ocShown, ocLast>>

(***************************************************************************)
(* Level names are upper case; a configured or requested level is text    *)
(* that may be in any case, so it is a name with a flag saying whether it  *)
(* is written in upper case.  strings.ToUpper sets the flag.               *)
(***************************************************************************)
\* logLevelName, indexed from 1 here: level l is LogLevelName[l + 1].
LogLevelName == <<"EMERG", "ALERT", "CRIT", "ERROR", "WARN", "NOTICE",
                  "INFO", "DEBUG", "TRACE">>
\* LogLevelEmerg .. LogLevelTrace
LogLevels == 0 .. Len(LogLevelName) - 1
LogLevelInfo == 6

\* Text w (its letters in upper case) as written: in upper case or not.
Text(w, up) == [word |-> w, upper |-> up]
ToUpper(t) == [t EXCEPT !.upper = TRUE]

\* Mutant: the position in logLevelName is returned instead of the index.
FindLogLevelValueIndex(t) ==
  SelectInSeq(LogLevelName, LAMBDA n : ToUpper(Text(n, TRUE)) = ToUpper(t))

\* FindLogLevelValue: the index of the name equal to the text, ignoring
\* case, or -1.
FindLogLevelValue(t) ==
  SelectInSeq(LogLevelName, LAMBDA n : ToUpper(Text(n, TRUE)) = ToUpper(t)) - 1

\* initLoggerConfig: the two comment keys and every default source at INFO.
DefaultConfig ==
  [k \in DefaultSources \cup CommentKeys |->
     IF k \in CommentKeys THEN Text("comment", TRUE) ELSE Text("INFO", TRUE)]

(***************************************************************************)
(* loadLoggerConfig: the file is read and parsed ("read"), or it is        *)
(* missing and initLoggerConfig creates the default one ("created"), or    *)
(* opening, reading or parsing fails and the map stays empty ("failed").  *)
(* Comment keys are skipped and entries with an unknown level dropped.     *)
(***************************************************************************)
LoadLoggerConfig(outcome) ==
  LET cfg == CASE outcome = "read"    -> FileConfig
               [] outcome = "created" -> DefaultConfig
               [] OTHER               -> <<>>
      keys == {k \in DOMAIN cfg : k \notin CommentKeys /\ FindLogLevelValue(cfg[k]) >= 0}
  IN [k \in keys |-> FindLogLevelValue(cfg[k])]

\* new(int32): pointers are numbered; the loaded ones get the first numbers.
NoPtr == 0
PtrIds == 1 .. Cardinality(Sources) + MaxRequests
InitialPtr == CHOOSE f \in [Sources -> 1 .. Cardinality(Sources)] :
                \A s, t \in Sources : s # t => f[s] # f[t]
FreshPtr == CHOOSE p \in PtrIds : p \notin DOMAIN cells

IdleCaller == [pc |-> "idle", src |-> NoName, lvl |-> 0, ptr |-> NoPtr, prelvl |-> -1,
               bad |-> FALSE]
NoReply == [status |-> "none", stored |-> FALSE]

LoggerTypeOK ==
  /\ levelMap \in [Sources -> PtrIds \cup {NoPtr}]
  /\ DOMAIN cells \subseteq PtrIds
  /\ \A p \in DOMAIN cells : cells[p] \in -1 .. 8
  /\ adj \in [Adjusters -> [pc : {"idle", "insert", "load", "store"},
                            src : Sources \cup {NoName}, lvl : LogLevels,
                            ptr : PtrIds \cup {NoPtr}, prelvl : -1 .. 8,
                            bad : BOOLEAN]]
  /\ reply \in [Adjusters -> [status : {"none", "ok", "error"}, stored : BOOLEAN]]
  /\ requests \in 0 .. MaxRequests
  /\ lastSet \in [Sources -> SUBSET LogLevels]
  /\ ocTotal \in [Counters -> 0 .. MaxMessages]
  /\ ocShown \in [Counters -> 0 .. MaxMessages]
  /\ ocLast \in [Counters -> 0 .. MaxMessages]

\* Startup: make the map and load the configuration.
LoggerInit ==
  \E outcome \in {"read", "created", "failed"} :
    LET loaded == LoadLoggerConfig(outcome) IN
    /\ levelMap = [s \in Sources |-> IF s \in DOMAIN loaded THEN InitialPtr[s] ELSE NoPtr]
    /\ cells = [p \in {InitialPtr[s] : s \in DOMAIN loaded} |->
                  loaded[CHOOSE s \in DOMAIN loaded : InitialPtr[s] = p]]
    /\ adj = [a \in Adjusters |-> IdleCaller]
    /\ requests = 0
    /\ lastSet = [s \in Sources |-> {}]
    /\ reply = [a \in Adjusters |-> NoReply]
    /\ ocTotal = [n \in Counters |-> 0]
    /\ ocShown = [n \in Counters |-> 0]
    /\ ocLast = [n \in Counters |-> 0]

\* The level stored for a source, or -1 (SearchSourceLogLevel).
SearchSourceLogLevel(s) ==
  IF levelMap[s] # NoPtr THEN cells[levelMap[s]] ELSE -1

(***************************************************************************)
(* Function names as the Go runtime reports them (runtime.Frame.Function): *)
(* the directories of the import path, each followed by "/", then the      *)
(* package name, then "." and each part of the function's name: the       *)
(* function, a method's receiver type and its name, a closure's "funcN". *)
(* A name is a sequence of words and separators, and the text of a        *)
(* sequence is the concatenation of its words.                             *)
(***************************************************************************)
CallerFunction(c) ==
  FoldLeft(LAMBDA acc, d : acc \o <<d, "/">>, <<>>, c.dirs)
    \o FoldLeft(LAMBDA acc, p : acc \o <<".", p>>, <<c.pkg>>, c.parts)

NameText(seq) ==
  IF seq = <<>> THEN NoName ELSE FoldLeft(LAMBDA acc, w : acc \o w, "", seq)

\* Mutant: the package ends at the last "." instead of the first.
FindCallingFunctionLastDot(f) ==
  LET end == SelectLastInSeq(f, LAMBDA t : t = "/")
      functionName == SubSeq(f, end + 1, Len(f))
      dot == SelectLastInSeq(functionName, LAMBDA t : t = ".")
      packageName == IF dot = 0 THEN <<"unknown">> ELSE SubSeq(functionName, 1, dot - 1)
  IN [pkg |-> NameText(packageName), fn |-> NameText(functionName)]

\* findCallingFunction: the function name is the text after the last "/"
\* (all of it if there is none), the package name the text of that before
\* its first "." ("unknown" if there is none).
FindCallingFunction(f) ==
  LET end == SelectLastInSeq(f, LAMBDA t : t = "/")
      functionName == SubSeq(f, end + 1, Len(f))
      dot == SelectInSeq(functionName, LAMBDA t : t = ".")
      packageName == IF dot = 0 THEN <<"unknown">> ELSE SubSeq(functionName, 1, dot - 1)
  IN [pkg |-> NameText(packageName), fn |-> NameText(functionName)]

\* The names findCallingFunction gives each caller.
CallerName == [c \in Callers |-> FindCallingFunction(CallerFunction(c))]

\* logLevelMap[source]: a source never configured has no entry.
LevelPtr(s) == IF s \in Sources THEN levelMap[s] ELSE NoPtr

\* GetLogLevel: the function's level if it has one, else the package's,
\* else LogLevelInfo.
GetLogLevel(pkg, fn) ==
  CASE fn # NoName /\ LevelPtr(fn) # NoPtr   -> cells[LevelPtr(fn)]
    [] pkg # NoName /\ LevelPtr(pkg) # NoPtr -> cells[LevelPtr(pkg)]
    [] OTHER                                 -> LogLevelInfo

\* IsLogEnabledSource(level, source): GetLogLevel(source, "") >= level.
IsLogEnabledSource(level, src) == GetLogLevel(src, NoName) >= level

\* IsLogEnabled(level) for a caller in package pkg and function fn: the
\* package's source, then the function's, each looked up on its own.
IsLogEnabled(pkg, fn, level) ==
  IsLogEnabledSource(level, pkg) \/ IsLogEnabledSource(level, fn)

(***************************************************************************)
(* AdjustSourceLogLevel(source, level), one action per step that another   *)
(* caller can interleave with: the lookup under RLock, the insert of a     *)
(* fresh pointer holding -1 under Lock, the atomic load of the previous   *)
(* level and the atomic store of the new one.                              *)
(***************************************************************************)
AdjustLookup(a, src, lvl, bad) ==
  /\ adj' = [adj EXCEPT ![a] = [IdleCaller EXCEPT
              !.pc = IF levelMap[src] = NoPtr THEN "insert" ELSE "load",
              !.src = src, !.lvl = lvl, !.ptr = levelMap[src], !.bad = bad]]
  /\ UNCHANGED <<levelMap, cells, lastSet, ocTotal, ocShown, ocLast>>

(***************************************************************************)
(* loggerHandler for a request whose source parameter splits on "=" into *)
(* parts parts, the first naming source src and the second level text w. *)
(* More than two parts writes an error and goes on (no return).  One part *)
(* is a level query answered from SearchSourceLogLevel.  Otherwise the    *)
(* level name is looked up (the handler calls FindLogLevelName on the     *)
(* text; the function that maps a name to a level, or -1, is              *)
(* FindLogLevelValue) and AdjustSourceLogLevel starts.                     *)
(***************************************************************************)
LoggerHandler(a, parts, src, w) ==
  LET lvl == FindLogLevelValue(w)
      answer(st) == reply' = [reply EXCEPT ![a] = [status |-> st, stored |-> FALSE]]
  IN
  /\ adj[a].pc = "idle"
  /\ requests < MaxRequests
  /\ requests' = requests + 1
  /\ CASE parts = 1 ->
            /\ answer(IF SearchSourceLogLevel(src) < 0 THEN "error" ELSE "ok")
            /\ UNCHANGED <<adj, levelMap, cells, lastSet, ocTotal, ocShown, ocLast>>
       [] lvl < 0 ->
            /\ answer("error")
            /\ UNCHANGED <<adj, levelMap, cells, lastSet, ocTotal, ocShown, ocLast>>
       [] OTHER ->
            /\ AdjustLookup(a, src, lvl, parts > 2)
            /\ reply' = [reply EXCEPT ![a] = NoReply]

AdjustInsert(a) ==
  /\ adj[a].pc = "insert"
  /\ cells' = cells @@ (FreshPtr :> -1)
  /\ levelMap' = [levelMap EXCEPT ![adj[a].src] = FreshPtr]
  /\ adj' = [adj EXCEPT ![a].pc = "load", ![a].ptr = FreshPtr]
  /\ UNCHANGED <<requests, lastSet, reply, ocTotal, ocShown, ocLast>>

AdjustLoad(a) ==
  /\ adj[a].pc = "load"
  /\ adj' = [adj EXCEPT ![a].pc = "store", ![a].prelvl = cells[adj[a].ptr]]
  /\ UNCHANGED <<levelMap, cells, requests, lastSet, reply, ocTotal, ocShown, ocLast>>

\* The store through the pointer read earlier, then return prelvl;
\* loggerHandler answers "invalid log source specified" for a previous
\* level < 0 and success otherwise (after its syntax error, if any).
AdjustStore(a) ==
  LET ok == adj[a].prelvl >= 0 /\ ~adj[a].bad IN
  /\ adj[a].pc = "store"
  /\ cells' = [cells EXCEPT ![adj[a].ptr] = adj[a].lvl]
  /\ lastSet' = [lastSet EXCEPT ![adj[a].src] = IF ok THEN {adj[a].lvl} ELSE {}]
  /\ reply' = [reply EXCEPT ![a] = [status |-> IF ok THEN "ok" ELSE "error",
                                    stored |-> TRUE]]
  /\ adj' = [adj EXCEPT ![a] = IdleCaller]
  /\ UNCHANGED <<levelMap, requests, ocTotal, ocShown, ocLast>>

(***************************************************************************)
(* LogFormatter's "%OC|" verb: the counter was bumped to total; format    *)
(* the message on the first, when the limit is 0, and on every limit-th.  *)
(* The int limit is converted to uint64; callers pass constants >= 0.     *)
(***************************************************************************)
\* Mutant: the "total == 1" test is missing.
OcShowsNotFirst(total, limit) == limit = 0 \/ total % limit = 0

OcShows(total, limit) == total = 1 \/ limit = 0 \/ total % limit = 0

(***************************************************************************)
(* LogMessage / LogMessageSource of a "%OC|" message of counter n at      *)
(* level, from package pkg and function fn (NoName for LogMessageSource): *)
(* a message above GetLogLevel returns at once; otherwise LogFormatter    *)
(* adds one to the overseer counter and formats the message or returns    *)
(* "" (nothing is printed).                                                *)
(***************************************************************************)
LogMessage(pkg, fn, level, n) ==
  LET total == ocTotal[n] + 1 IN
  /\ level <= GetLogLevel(pkg, fn)
  /\ ocTotal[n] < MaxMessages
  /\ ocTotal' = [ocTotal EXCEPT ![n] = total]
  /\ IF OcShows(total, OcLimit[n])
       THEN /\ ocShown' = [ocShown EXCEPT ![n] = @ + 1]
            /\ ocLast' = [ocLast EXCEPT ![n] = total]
       ELSE UNCHANGED <<ocShown, ocLast>>
  /\ UNCHANGED <<levelMap, cells, adj, requests, lastSet, reply>>

LoggerNext ==
  \/ \E a \in Adjusters :
       \/ \E parts \in QueryParts, src \in Sources, w \in RequestWords :
            LoggerHandler(a, parts, src, w)
       \/ AdjustInsert(a) \/ AdjustLoad(a) \/ AdjustStore(a)
  \/ \E c \in Callers, l \in LogLevels, n \in Counters :
       LogMessage(CallerName[c].pkg, CallerName[c].fn, l, n)
  \/ \E src \in Sources, l \in LogLevels, n \in Counters :
       LogMessage(src, NoName, l, n)

LoggerSpec == LoggerInit /\ [][LoggerNext]_loggerVars

\* Some call of AdjustSourceLogLevel on s has not returned yet.
AdjustBusy(s) == \E a \in Adjusters : adj[a].pc # "idle" /\ adj[a].src = s

(***************************************************************************)
(* Properties                                                              *)
(***************************************************************************)

AdjustTakesEffect ==
  \A s \in Sources : ~AdjustBusy(s) /\ lastSet[s] # {} =>
                       SearchSourceLogLevel(s) \in lastSet[s]

\* The "%OC|" rate limit of LogFormatter: the first message of a counter is
\* formatted, no more than one in every limit after it is, and never more
\* than limit - 1 in a row are suppressed; with limit 0 all are formatted.
OcRateLimit ==
  \A n \in Counters :
    LET lim == OcLimit[n] IN
    /\ ocTotal[n] >= 1 => ocShown[n] >= 1
    /\ lim = 0 => ocShown[n] = ocTotal[n]
    /\ lim > 0 => /\ ocShown[n] <= ocTotal[n] \div lim + 1
                 /\ ocTotal[n] - ocLast[n] < lim

\* A message logged from Go function c is filtered, when no level is set
\* for c's own function name, by the level set for c's package (the last
\* element of its import path), or INFO: for plain functions, methods and
\* closures alike (the goroutines of callSubscribers log from closures).
\* Involves findCallingFunction's split of the runtime name and
\* GetLogLevel's function-then-package lookup as levels change.
PackageLevelGoverns ==
  \A c \in Callers :
    LET n == CallerName[c] IN
    LevelPtr(n.fn) = NoPtr => GetLogLevel(n.pkg, n.fn) = GetLogLevel(c.pkg, NoName)

\* IsLogEnabled's comment: it "returns true if logging is enabled for the
\* caller at the specified level".  For every caller whose sources no
\* AdjustSourceLogLevel call is changing, and every level, it answers as
\* LogMessage's filter (GetLogLevel(pkg, fn), function first) decides.
IsLogEnabledAgrees ==
  \A pkg, fn \in Sources, l \in LogLevels :
    ~AdjustBusy(pkg) /\ ~AdjustBusy(fn)
    => IsLogEnabled(pkg, fn, l) = (l <= GetLogLevel(pkg, fn))


\* loggerHandler answers a request with an error only when it did not
\* change a level: an error tells the REST client its setting was not
\* applied.  Involves the ">2 parts" error without a return and the -1
\* that AdjustSourceLogLevel returns after adding a missing source.
ErrorReplyLeavesLevel ==
  \A a \in Adjusters : reply[a].status = "error" => ~reply[a].stored

=============================================================================
