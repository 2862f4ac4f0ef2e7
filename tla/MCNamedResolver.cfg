SPECIFICATION Spec
CONSTANTS
  q1 = q1
  q2 = q2
  Res = {"a", "b"}
  Sys = "sys"
  Query <- MCQuery
  Refresher <- MCRefresher
  Scopes <- MCScopes
  MaxKey = 1
  NoTask = NoTask
  NoKey = NoKey
  NoRecord = NoRecord
INVARIANTS
  SeenImpliesSnapshot
  RebuildReplacesRejected
