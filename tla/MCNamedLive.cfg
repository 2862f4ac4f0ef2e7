SPECIFICATION FairSpec
CONSTANTS
  q1 = q1
  q2 = q2
  Res = {"a", "b"}
  Sys = "sys"
  Query <- MCQuery
  Refresher <- MCRefresher
  Scopes <- Tangled
  MaxKey = 1
  NoTask = NoTask
  NoKey = NoKey
  NoRecord = NoRecord
\* Everybody waiting on everybody is a violation of LookupsEnd here.
CHECK_DEADLOCK FALSE
PROPERTIES
  LookupsEnd
  Converges

