SPECIFICATION FairSpec
CONSTANTS
  Conn = {c1, c2}
  Name = {n1}
  Zone = {z}
  LookupName <- OwnDomain
  Alpn = {h1, h2}
  Modes <- AllModes
  MaxKey = 1
  MaxRetries = 1
  MaxLapses = 1
  NoConn = NoConn
  NoEntry = NoEntry
  NoKey = NoKey
  NoRecord = NoRecord
INVARIANTS
  GenerationNamesConfig
  OneFetchPerLapse
  DialRecovers
PROPERTIES
  AcceptedConfigKept
  DialEnds
