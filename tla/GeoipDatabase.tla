---------------------------- MODULE GeoipDatabase ----------------------------
(***************************************************************************)
(* The geoip plugin's database across the life of the process and across  *)
(* restarts (src/plugins/geoip/geoip.go).  PluginStartup looks for a      *)
(* database file (findGeoFile), downloading one when none exists, opens   *)
(* it and subscribes the handler; PluginShutdown closes it; the handler   *)
(* looks addresses up under geoMutex.  The files on disk survive a        *)
(* restart, the reader and the lock do not.                               *)
(***************************************************************************)
EXTENDS Integers, Sequences, FiniteSets, TLC

CONSTANTS
  Handlers,       \* handler goroutines that may run at once
  NoOwner,        \* geoMutex is free
  Addrs,          \* addresses a packet may carry
  NoAddr,         \* a packet with neither an IPv4 nor an IPv6 layer
  PrivateAddrs,   \* the addresses inside privateIPBlocks
  IsoCode,        \* IsoCode[a]: the database's country code of a, "" if none
  MaxStarts       \* bound on PluginStartup calls (process starts)

ASSUME PrivateAddrs \subseteq Addrs /\ IsoCode \in [Addrs -> STRING]

\* findGeoFile's possibleLocations, in order, and its two fixed names.
PossibleLocations == <<"/var/cache/untangle-geoip/GeoLite2-City.mmdb",
                       "/tmp/GeoLite2-City.mmdb",
                       "/usr/lib/GeoLite2-City.mmdb",
                       "/usr/share/untangle-geoip/GeoLite2-Country.mmdb",
                       "/usr/share/geoip/GeoLite2-Country.mmdb">>
Paths == {PossibleLocations[i] : i \in DOMAIN PossibleLocations}
DownloadPath == "/usr/lib/GeoLite2-City.mmdb"
DefaultPath == "/tmp/GeoLite2-City.mmdb"
NoPath == ""

\* What a file on disk holds: nothing, a database, or a cut-off copy.
FileStates == {"absent", "valid", "partial"}

\* How databaseDownload's steps end: an early return after http.Get, the
\* status check, gzip.NewReader or os.Create, a copy that stops part-way
\* (its error is not checked), or a complete copy.
DownloadOutcomes == {"no_network", "http_error", "bad_gzip", "create_error",
                     "copy_error", "ok"}

\* The codes the handler can write.
Codes == {"XL", "XU"} \cup ({IsoCode[a] : a \in Addrs} \ {""})
NoCountries == [client |-> "", server |-> ""]

NoReader == 0
Readers == 1 .. MaxStarts

VARIABLES
  files,        \* files[p]: the file at path p
  geoDatabase,  \* the open *geoip2.Reader, NoReader = nil
  openReaders,  \* readers not yet closed
  geoMutex,     \* owner of geoMutex
  phase,        \* "down": no process; "up": started; "stopped": shut down
  starts,       \* PluginStartup calls so far
  network,      \* how a download would end in the current process
  hs,           \* hs[h]: locals of handler goroutine h
  dictGeo       \* client_country and server_country last written

geoVars == <<files, geoDatabase, openReaders, geoMutex, phase, starts, network, hs,
            dictGeo>>

IdleHandler == [pc |-> "idle", src |-> NoAddr, dst |-> NoAddr, db |-> NoReader]

GeoTypeOK ==
  /\ files \in [Paths -> FileStates]
  /\ geoDatabase \in {NoReader} \cup Readers
  /\ openReaders \subseteq Readers
  /\ geoMutex \in {NoOwner} \cup Handlers
  /\ phase \in {"down", "up", "stopped"}
  /\ starts \in 0 .. MaxStarts
  /\ network \in DownloadOutcomes
  /\ hs \in [Handlers -> [pc : {"idle", "locked", "lookup"},
                          src : Addrs \cup {NoAddr}, dst : Addrs \cup {NoAddr},
                          db : {NoReader} \cup Readers]]
  /\ dictGeo \in [client : Codes, server : Codes] \cup {NoCountries}

\* databaseDownload(filename): the file changes only once os.Create ran.
DatabaseDownload(filename, fs, outcome) ==
  CASE outcome = "ok"         -> [fs EXCEPT ![filename] = "valid"]
    [] outcome = "copy_error" -> [fs EXCEPT ![filename] = "partial"]
    [] OTHER                  -> fs

\* The loop over possibleLocations: the first one os.Stat finds.
RECURSIVE FirstExisting(_, _)
FirstExisting(locs, fs) ==
  CASE locs = <<>>             -> NoPath
    [] fs[Head(locs)] # "absent" -> Head(locs)
    [] OTHER                   -> FirstExisting(Tail(locs), fs)

\* findGeoFile(download): the path it returns and the files after it.
RECURSIVE FindGeoFile(_, _, _)
FindGeoFile(download, fs, outcome) ==
  LET found == FirstExisting(PossibleLocations, fs) IN
  CASE found # NoPath -> [path |-> found, files |-> fs]
    [] download -> FindGeoFile(FALSE, DatabaseDownload(DownloadPath, fs, outcome),
                               outcome)
    [] OTHER -> [path |-> DefaultPath, files |-> fs]

\* Packages may have installed a database; no download has run yet.
GeoInit ==
  /\ files \in [Paths -> {"absent", "valid"}]
  /\ geoDatabase = NoReader
  /\ openReaders = {}
  /\ geoMutex = NoOwner
  /\ phase = "down"
  /\ starts = 0
  /\ network = "ok"
  /\ hs = [h \in Handlers |-> IdleHandler]
  /\ dictGeo = NoCountries

(***************************************************************************)
(* PluginStartup, with geoMutex held throughout and before the handler is *)
(* subscribed: geoip2.Open(findGeoFile(true)) succeeds only on a complete *)
(* database file.  outcome is how a download would end in this process.   *)
(***************************************************************************)
PluginStartup(outcome) ==
  LET r == FindGeoFile(TRUE, files, outcome)
      opened == r.files[r.path] = "valid"
  IN
  /\ phase = "down"
  /\ starts < MaxStarts
  /\ starts' = starts + 1
  /\ network' = outcome
  /\ files' = r.files
  /\ geoDatabase' = IF opened THEN starts + 1 ELSE NoReader
  /\ openReaders' = IF opened THEN openReaders \cup {starts + 1} ELSE openReaders
  /\ phase' = "up"
  /\ UNCHANGED <<geoMutex, hs, dictGeo>>

\* PluginShutdown: under geoMutex, close the reader and set it to nil.
PluginShutdown ==
  /\ phase = "up"
  /\ geoMutex = NoOwner
  /\ openReaders' = openReaders \ {geoDatabase}
  /\ geoDatabase' = NoReader
  /\ phase' = "stopped"
  /\ UNCHANGED <<files, geoMutex, starts, network, hs, dictGeo>>

\* The process ends (after shutdown, or by a crash at any time): goroutines,
\* the lock and the reader go; the files stay.
ProcessExit ==
  /\ phase # "down"
  /\ phase' = "down"
  /\ geoDatabase' = NoReader
  /\ openReaders' = {}
  /\ geoMutex' = NoOwner
  /\ hs' = [h \in Handlers |-> IdleHandler]
  /\ UNCHANGED <<files, starts, network, dictGeo>>

(***************************************************************************)
(* PluginNfqueueHandler for a new session, from geoMutex.Lock() on (the   *)
(* release and the !newSession return come before and touch no state of   *)
(* this module).  The dispatcher may still call it after PluginShutdown.  *)
(***************************************************************************)
\* Mutant: the handler runs without taking geoMutex.
HandlerLockSkipped(h, src, dst) ==
  /\ phase # "down"
  /\ hs[h].pc = "idle"
  /\ hs' = [hs EXCEPT ![h] = [IdleHandler EXCEPT !.pc = "locked", !.src = src,
                                                 !.dst = dst]]
  /\ UNCHANGED <<files, geoDatabase, openReaders, geoMutex, phase, starts, network, dictGeo>>

HandlerLock(h, src, dst) ==
  /\ phase # "down"
  /\ hs[h].pc = "idle"
  /\ geoMutex = NoOwner
  /\ geoMutex' = h
  /\ hs' = [hs EXCEPT ![h] = [IdleHandler EXCEPT !.pc = "locked", !.src = src,
                                                 !.dst = dst]]
  /\ UNCHANGED <<files, geoDatabase, openReaders, phase, starts, network, dictGeo>>

\* The geoDatabase != nil tests of the two lookups.
HandlerCheck(h) ==
  /\ hs[h].pc = "locked"
  /\ hs' = [hs EXCEPT ![h].pc = "lookup", ![h].db = geoDatabase]
  /\ UNCHANGED <<files, geoDatabase, openReaders, geoMutex, phase, starts, network, dictGeo>>

\* isPrivateIP: the address is inside one of privateIPBlocks.
IsPrivateIP(addr) == addr \in PrivateAddrs

\* Mutant: the database's record is used without the empty-code test.
CountryNoEmptyCheck(addr, db) ==
  CASE addr = NoAddr          -> "XU"
    [] IsPrivateIP(addr)      -> "XL"
    [] db # NoReader          -> IsoCode[addr]
    [] OTHER                  -> "XU"

\* The country of one address: "XL" in a private block, else the
\* database's code when there is a reader and a code, else "XU".
Country(addr, db) ==
  CASE addr = NoAddr          -> "XU"
    [] IsPrivateIP(addr)      -> "XL"
    [] db # NoReader /\ IsoCode[addr] # "" -> IsoCode[addr]
    [] OTHER                  -> "XU"

\* geoDatabase.City(addr) is called for an address that is present and
\* not private, when the nil test found a reader.
CityCalled(addr, db) == db # NoReader /\ addr # NoAddr /\ ~IsPrivateIP(addr)

\* The geoDatabase.City calls, the two dict.AddSessionEntry writes (the
\* attachments and the report event carry the same values), and the
\* deferred Unlock.
HandlerLookup(h) ==
  /\ hs[h].pc = "lookup"
  /\ dictGeo' = [client |-> Country(hs[h].src, hs[h].db),
                 server |-> Country(hs[h].dst, hs[h].db)]
  /\ hs' = [hs EXCEPT ![h] = IdleHandler]
  /\ geoMutex' = NoOwner
  /\ UNCHANGED <<files, geoDatabase, openReaders, phase, starts, network>>

GeoNext ==
  \/ \E o \in DownloadOutcomes : PluginStartup(o)
  \/ PluginShutdown
  \/ ProcessExit
  \/ \E h \in Handlers :
       \/ \E src, dst \in Addrs \cup {NoAddr} : HandlerLock(h, src, dst)
       \/ HandlerCheck(h)
       \/ HandlerLookup(h)

GeoSpec == GeoInit /\ [][GeoNext]_geoVars

-----------------------------------------------------------------------------
(***************************************************************************)
(* Properties                                                              *)
(***************************************************************************)

\* geoDatabase.City is never called on a reader that PluginShutdown has
\* closed: geoMutex, taken by the handler before its nil tests and held to
\* the end, keeps PluginShutdown's Close out of the lookups.
NoLookupOnClosedReader ==
  \A h \in Handlers :
    /\ hs[h].pc = "lookup"
    /\ CityCalled(hs[h].src, hs[h].db) \/ CityCalled(hs[h].dst, hs[h].db)
    => hs[h].db \in openReaders

\* PluginStartup's comment: it uses "any existing database we can find, or
\* we download if needed".  A process whose download would succeed has a
\* database once started, whatever earlier processes left on disk.
StartupLoadsDatabase ==
  phase = "up" /\ network = "ok" => geoDatabase # NoReader

=============================================================================
