--------------------------- MODULE MCGeoipDatabase ---------------------------
EXTENDS GeoipDatabase

CONSTANTS h1, h2, aPrivate, aKnown, aUnknown

\* The database knows aKnown's country and has no code for aUnknown.
MCIsoCode == (aPrivate :> "") @@ (aKnown :> "DE") @@ (aUnknown :> "")
=============================================================================
