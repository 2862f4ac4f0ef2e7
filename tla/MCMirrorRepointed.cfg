SPECIFICATION Spec
CONSTANTS
  Label <- MCLabel
  RouteId <- MCRouteId
  NoRoute = NoRoute
  Target = {"u1", "u2"}
  Mintable <- MCMintable
  Listener = {l1}
  Configs <- Repointed
  Host <- OneHost
  Names <- MCNames
  Observation <- TwoObservations
  Reflecting = {"u1"}
  Task = {t1}
  Serial <- MCSerial
  NoCert = NoCert
  NoObs = NoObs
  MaxRestarts = 1
  MaxRotations = 1
  CrashAnywhere = FALSE
  WritesFail = FALSE
  MaxExpiries = 0
INVARIANTS
  ServedIsConfined
