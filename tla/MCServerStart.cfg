SPECIFICATION StartSpec
CONSTANTS
  Char <- MCChar
  Sections <- MCSections
  Keys <- MCKeys
  Values <- MCValues
  Manual <- MCManual
  MaxEntries = 2
  MaxSections = 2
  Ephemeral <- MCEphemeral
  NotBound <- MCNotBound
  LongMax = 1048575
  IntModulus = 262144
INVARIANT RoundTrip
INVARIANT ReloadIsExact
INVARIANT LoadedIsSavable
PROPERTY PortAsWritten
