SPECIFICATION FairSpec
CONSTANTS
  Streams <- MCStreams
  MaxPeek = 20
  NoStream = NoStream
  NoName = NoName
  NoAlpn = NoAlpn
  NoRoute = NoRoute
  MaxSent = 2
  Buffer = 2
  Socket = 1
  Idle = 2
INVARIANTS
  KeyInWindowIsFound
  ProtocolsAgree
  PassedOnWhole
  RecordedWasAsked
  CutOnlyWhenIdle
PROPERTIES
  ImplementsPipe
  Reaped
