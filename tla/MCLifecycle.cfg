SPECIFICATION Spec
CONSTANTS
  Route = {"r1", "r2"}
  Template = {"t1"}
  Pool = {"p1"}
  Resolver = {"d1"}
  ListenPort = 443
  Bases <- MCBases
  Edits <- MCEdits
  MaxEdits = 2
  MaxStored = 1
  Host = {"h1", "h2"}
  Cert <- MCCert
  WebPki = {"public"}
  File = {"corp.pem", "cert.pem"}
  Anchors <- MCAnchors
  NoDocument = NoDocument
  Delay = 1
  Budget = 3
  Longest = 4
  NoAddr = NoAddr
INVARIANTS
  WrittenIsEnforced
  EvidenceHeldToPolicy
  ScopeIsDestination
  AcceptedStarts
  RaceIsWon
PROPERTIES
  ImmaterialEditsKeepScopes
