SPECIFICATION Spec
CONSTANTS
  Res = {"r1", "r2", "r3"}
  Sys = "sys"
  Plans <- AllPlans
  Names <- SortedNames
  NoPlan = NoPlan
  Label <- MCLabel
  RouteId <- MCRouteId
  NoRoute = NoRoute
  Pattern <- MCPattern
  Regexes <- MCRegexes
  Hosts <- MCHosts
  NumRoutes = 2
  MaxPatterns = 3
  Route = {r1, r2}
  Backend = {b1, b2}
  Budgets <- MCBudgets
  Confs <- MCConfs
  Replies <- MCReplies
  NoGroup = NoGroup
INVARIANTS
  AnswerIsRight
  RoutingFollowsConfiguration
  WildcardConfinedSound
  StartsIffDemandsMet
