SPECIFICATION Spec
CONSTANTS
  Label <- MCLabel
  RouteId <- MCRouteId
  NoRoute = NoRoute
  Target = {"u1", "u2"}
  Mintable <- MCMintable
  Listener = {l1}
  Configs <- ApartConfig
  Host <- OneHost
  Names <- MCNames
  Observation <- OddOrNarrow
  Reflecting = {"u1"}
  Task = {t1, t2}
  Serial <- MCSerial
  NoCert = NoCert
  NoObs = NoObs
  MaxRestarts = 1
  MaxRotations = 1
  CrashAnywhere = TRUE
  WritesFail = TRUE
  MaxExpiries = 1
SYMMETRY Symmetric
INVARIANTS
  ServedIsConfined
PROPERTIES
  ImplementsIssuer
