SPECIFICATION FairSpec
CONSTANTS
  Label <- MCLabel
  RouteId <- MCRouteId
  NoRoute = NoRoute
  Target = {"u1", "u2"}
  Mintable <- MCMintable
  Listener = {l1}
  Configs <- OneConfig
  Host <- OneHost
  Names <- MCNames
  Observation <- TwoObservations
  Reflecting = {"u1"}
  Task = {t1, t2}
  Serial <- MCSerial
  NoCert = NoCert
  NoObs = NoObs
  MaxRestarts = 1
  MaxRotations = 1
  CrashAnywhere = FALSE
  WritesFail = FALSE
  MaxExpiries = 0
INVARIANTS
  ObservationDescribesCertificate
PROPERTIES
  MirrorNotDowngraded
  MirrorsEventually
