\* The geoip database over three process starts, with two handler
\* goroutines racing PluginShutdown.
CONSTANTS
  Handlers = {h1, h2}
  h1 = h1  h2 = h2
  NoOwner = NoOwner
  Addrs = {aPrivate, aKnown, aUnknown}
  aPrivate = aPrivate  aKnown = aKnown  aUnknown = aUnknown
  NoAddr = NoAddr
  PrivateAddrs = {aPrivate}
  IsoCode <- MCIsoCode
  MaxStarts = 3
SPECIFICATION GeoSpec
INVARIANT GeoTypeOK
INVARIANT NoLookupOnClosedReader
\* After MaxStarts process starts the last process may be down for good.
CHECK_DEADLOCK FALSE
