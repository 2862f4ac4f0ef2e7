--------------------------- MODULE NamedResolver ---------------------------
(***************************************************************************)
(* Named resolvers at run time (src/dns_resolvers.rs): lookups that rebuild *)
(* their resolver when its endpoint rejects ECH, and the refresher of each *)
(* ECH resolver.  A rebuild looks things up through other resolvers, which *)
(* may rebuild in turn, so a task is a stack of frames, one per resolver   *)
(* it is inside of; the `rebuilding` mutex is held across those lookups.   *)
(*                                                                         *)
(* A key stands for an ECHConfigList.  An instance is one TokioResolver:   *)
(* the key it was built with and its own response cache, which a swap      *)
(* replaces together.                                                      *)
(***************************************************************************)
EXTENDS ResolverPlan, Sequences

CONSTANTS
  Query,       \* tasks that look one name up on behalf of the data path
  Refresher,   \* Res -> the task spawn_ech_refresher started for it
  MaxKey,      \* bound on key rotations: keys are 0 .. MaxKey
  Scopes,      \* the systems explored: see Scope
  NoTask, NoKey, NoRecord

Key == 0 .. MaxKey
StaticKey == 0
Resolver == Res \cup {Sys}
Task == Query \cup {Refresher[r] : r \in Res}

(* A [resolvers] table, before validation, with max_retries of its ECH     *)
(* resolvers, and the bounds it is explored within: the lookups made; no   *)
(* timer fires once some resolver was replaced `gens` times; failed        *)
(* lookups and withdrawn ECHConfigs.                                       *)
Scope == [plan : [Res -> Def], retries : Nat, query : SUBSET Query, gens : Nat, faults : Nat]

ASSUME NamedAssumption ==
  /\ \A s \in Scopes : s \in Scope
  /\ \A r, q \in Res : Refresher[r] = Refresher[q] => r = q
  /\ \A r \in Res : Refresher[r] \notin Query
  /\ MaxKey \in Nat
  /\ NoTask \notin Task /\ NoKey \notin Nat /\ NoRecord \notin Nat \cup {NoKey}

VARIABLES
  scope,       \* it never changes
  serverKey,   \* Res -> the key its endpoint accepts
  published,   \* Res -> what its HTTPS record carries
  inner,       \* Resolver -> the live instance
  ech_bytes,   \* Res -> the key the live instance was built with
  generation,  \* Resolver -> how many times the instance has been replaced
  rebuilding,  \* Res -> the task holding the mutex, or NoTask
  stack,       \* Task -> its frames, innermost first
  started,     \* the queries that have been made
  faults

vars == <<scope, serverKey, published, inner, ech_bytes, generation, rebuilding, stack, started,
          faults>>

plan == scope.plan

Record == Key \cup {NoKey, NoRecord}
Instance == [key : Key \cup {NoKey}, inst : Nat, cache : [Res -> Record]]

(* The steps of a rebuild under the mutex. *)
Building == {"boot", "booting", "ech", "fetching", "choose", "failed", "swapped"}

(* A frame: an attempt of with_ech_retry on `res`, and the rebuild inside  *)
(* it.  `want` is the resolver whose HTTPS record is looked up, or Sys for *)
(* an address; `cached` what the snapshot's cache held for it.             *)
Frame == [res : Resolver, pc : {"seen", "snap", "op", "lock"} \cup Building,
          cause : {"rejected", "rotation"}, want : Resolver, attempt : Nat, seen : Nat,
          key : Key \cup {NoKey}, inst : Nat, cached : Record, built : Key \cup {NoKey}]

Lookup(r, want) ==
  [res |-> r, pc |-> "seen", cause |-> "rejected", want |-> want, attempt |-> 0, seen |-> 0,
   key |-> NoKey, inst |-> 0, cached |-> NoRecord, built |-> NoKey]

Uses(r) == r # Sys /\ plan[r].mode # "none"
Retries(r) == IF Uses(r) THEN scope.retries ELSE 0

(* Startup built every resolver in order, fetching each ECH config through *)
(* its ech_resolver, whose cache still holds the answer.                   *)
BuiltWith(p, r) == IF p[r].mode = "none" THEN NoKey ELSE StaticKey
Init ==
  /\ scope \in {s \in Scopes : Acyclic(s.plan)}
  /\ serverKey = [r \in Res |-> 0]
  /\ published = [r \in Res |-> 0]
  /\ inner = [r \in Resolver |->
       [key |-> IF r = Sys THEN NoKey ELSE BuiltWith(plan, r), inst |-> 0,
        cache |-> [q \in Res |-> IF plan[q].mode \in {"doh", "doh-with-fallback"} /\ plan[q].ech_resolver = r
                                 THEN 0 ELSE NoRecord]]]
  /\ ech_bytes = [r \in Res |-> BuiltWith(plan, r)]
  /\ generation = [r \in Resolver |-> 0]
  /\ rebuilding = [r \in Res |-> NoTask]
  /\ stack = [t \in Task |-> << >>]
  /\ started = {}
  /\ faults = 0

-----------------------------------------------------------------------------
Top(t) == Head(stack[t])
At(t, pc) == stack[t] # << >> /\ Top(t).pc = pc
Frames(t, f) == [stack EXCEPT ![t] = <<f>> \o Tail(@)]
Push(t, f, g) == [stack EXCEPT ![t] = <<g, f>> \o Tail(@)]
Pop(t) == [stack EXCEPT ![t] = Tail(@)]

world == <<scope, serverKey, published, started>>

(* A lookup on behalf of the data path. *)
Start(t) ==
  /\ t \in scope.query \ started
  /\ \E r \in Res : stack' = [stack EXCEPT ![t] = <<Lookup(r, Sys)>>]
  /\ started' = started \cup {t}
  /\ UNCHANGED <<scope, serverKey, published, inner, ech_bytes, generation, rebuilding, faults>>

(* The bound on replacements has been reached: the model's timers stop. *)
Exhausted == \E q \in Res : generation[q] >= scope.gens

(* The refresher's timer fires: it reads the generation and rebuilds. *)
Tick(r) ==
  /\ Uses(r) /\ stack[Refresher[r]] = << >> /\ ~Exhausted
  /\ stack' = [stack EXCEPT ![Refresher[r]] =
       <<[Lookup(r, Sys) EXCEPT !.pc = "lock", !.cause = "rotation", !.seen = generation[r]]>>]
  /\ UNCHANGED <<world, inner, ech_bytes, generation, rebuilding, faults>>

(* with_ech_retry: the generation is recorded before the attempt. *)
ReadSeen(t) ==
  /\ At(t, "seen")
  /\ stack' = Frames(t, [Top(t) EXCEPT !.pc = "snap", !.seen = generation[Top(t).res]])
  /\ UNCHANGED <<world, inner, ech_bytes, generation, rebuilding, faults>>

Snapshot(t) ==
  LET f == Top(t)
      i == inner[f.res] IN
  /\ At(t, "snap")
  /\ stack' = Frames(t, [f EXCEPT !.pc = "op", !.key = i.key, !.inst = i.inst,
                                  !.cached = IF f.want = Sys THEN NoRecord ELSE i.cache[f.want]])
  /\ UNCHANGED <<world, inner, ech_bytes, generation, rebuilding, faults>>

(* What the instance's cache holds now: an instance that has been replaced *)
(* is remembered by the snapshot alone.                                    *)
Held(f) == IF f.want # Sys /\ inner[f.res].inst = f.inst THEN inner[f.res].cache[f.want] ELSE f.cached

(* The endpoint must be contacted, and refuses the instance's key. *)
Refused(f) == /\ Uses(f.res) /\ f.key # NoKey /\ f.key # serverKey[f.res]
              /\ Held(f) = NoRecord

(* The config an HTTPS answer means to a resolver in the given mode        *)
(* (acquire_resolver_ech): NoKey is a record without ech=.                 *)
Acquired(mode, k) == IF mode = "doh-with-fallback" /\ k = NoKey THEN StaticKey ELSE k

(* The stack after t's innermost lookup returned: whoever asked goes on.   *)
ReturnOk(t, k) ==
  IF Len(stack[t]) = 1 THEN Pop(t)
  ELSE LET g == stack[t][2] IN
       [stack EXCEPT ![t] = <<IF g.pc = "booting" THEN [g EXCEPT !.pc = "ech"]
                              ELSE [g EXCEPT !.pc = "choose", !.built = Acquired(plan[g.res].mode, k)]>>
                            \o Tail(Tail(@))]
ReturnErr(t) ==
  IF Len(stack[t]) = 1 THEN Pop(t)
  ELSE LET g == stack[t][2] IN
       [stack EXCEPT ![t] = <<IF g.pc = "fetching" /\ plan[g.res].mode = "doh-with-fallback"
                              THEN [g EXCEPT !.pc = "choose", !.built = StaticKey]
                              ELSE [g EXCEPT !.pc = "failed"]>>
                            \o Tail(Tail(@))]

(* The lookup is answered, by the cache or by the zone; the answer is      *)
(* cached in the instance that gave it.                                    *)
Answer(t) ==
  LET f == Top(t)
      k == IF f.want = Sys THEN NoKey
           ELSE IF Held(f) # NoRecord THEN Held(f) ELSE published[f.want] IN
  /\ At(t, "op") /\ ~Refused(f)
  /\ stack' = ReturnOk(t, k)
  /\ inner' = IF f.want # Sys /\ inner[f.res].inst = f.inst
              THEN [inner EXCEPT ![f.res].cache[f.want] = k] ELSE inner
  /\ UNCHANGED <<world, ech_bytes, generation, rebuilding, faults>>

(* The network fails it. *)
Fault(t) ==
  /\ At(t, "op") /\ faults < scope.faults /\ Held(Top(t)) = NoRecord
  /\ faults' = faults + 1
  /\ stack' = ReturnErr(t)
  /\ UNCHANGED <<world, inner, ech_bytes, generation, rebuilding>>

(* A mutant: the generation is read when the attempt has failed. *)
RejectSeenLate(t) ==
  LET f == Top(t) IN
  /\ At(t, "op") /\ Refused(f) /\ f.attempt < Retries(f.res)
  /\ stack' = Frames(t, [f EXCEPT !.pc = "lock", !.seen = generation[f.res]])
  /\ UNCHANGED <<world, inner, ech_bytes, generation, rebuilding, faults>>

(* The endpoint rejects ECH: rebuild while retries are left. *)
Reject(t) ==
  LET f == Top(t) IN
  /\ At(t, "op") /\ Refused(f) /\ f.attempt < Retries(f.res)
  /\ stack' = Frames(t, [f EXCEPT !.pc = "lock"])
  /\ UNCHANGED <<world, inner, ech_bytes, generation, rebuilding, faults>>

RejectLast(t) ==
  LET f == Top(t) IN
  /\ At(t, "op") /\ Refused(f) /\ f.attempt >= Retries(f.res)
  /\ stack' = ReturnErr(t)
  /\ UNCHANGED <<world, inner, ech_bytes, generation, rebuilding, faults>>

-----------------------------------------------------------------------------
(* rebuild *)

(* The frame once rebuild has returned: retry, or wait for the next tick. *)
Rebuilt(t) ==
  LET f == Top(t) IN
  IF f.cause = "rotation" THEN Pop(t)
  ELSE Frames(t, [f EXCEPT !.pc = "seen", !.attempt = @ + 1])

Unlock(r) == rebuilding' = [rebuilding EXCEPT ![r] = NoTask]

(* Somebody else rebuilt while this task waited for the mutex. *)
LockSkip(t) ==
  LET f == Top(t) IN
  /\ At(t, "lock") /\ rebuilding[f.res] = NoTask
  /\ generation[f.res] # f.seen
  /\ stack' = Rebuilt(t)
  /\ UNCHANGED <<world, inner, ech_bytes, generation, rebuilding, faults>>

(* A mutant: whoever gets the mutex rebuilds. *)
LockBuildAlways(t) ==
  LET f == Top(t) IN
  /\ At(t, "lock") /\ rebuilding[f.res] = NoTask
  /\ rebuilding' = [rebuilding EXCEPT ![f.res] = t]
  /\ stack' = Frames(t, [f EXCEPT !.pc = "boot"])
  /\ UNCHANGED <<world, inner, ech_bytes, generation, faults>>

LockBuild(t) ==
  LET f == Top(t) IN
  /\ At(t, "lock") /\ rebuilding[f.res] = NoTask
  /\ generation[f.res] = f.seen
  /\ rebuilding' = [rebuilding EXCEPT ![f.res] = t]
  /\ stack' = Frames(t, [f EXCEPT !.pc = "boot"])
  /\ UNCHANGED <<world, inner, ech_bytes, generation, faults>>

(* build, 1: where to dial. *)
Bootstrap(t) ==
  LET f == Top(t) IN
  /\ At(t, "boot")
  /\ stack' = Push(t, [f EXCEPT !.pc = "booting"], Lookup(plan[f.res].bootstrap, Sys))
  /\ UNCHANGED <<world, inner, ech_bytes, generation, rebuilding, faults>>

(* build, 2: the ECHConfigList. *)
FetchStatic(t) ==
  LET f == Top(t) IN
  /\ At(t, "ech") /\ plan[f.res].mode = "static"
  /\ stack' = Frames(t, [f EXCEPT !.pc = "choose", !.built = StaticKey])
  /\ UNCHANGED <<world, inner, ech_bytes, generation, rebuilding, faults>>

Fetch(t) ==
  LET f == Top(t) IN
  /\ At(t, "ech") /\ plan[f.res].mode # "static"
  /\ stack' = Push(t, [f EXCEPT !.pc = "fetching"], Lookup(plan[f.res].ech_resolver, f.res))
  /\ UNCHANGED <<world, inner, ech_bytes, generation, rebuilding, faults>>

BuildRefuses(f) == f.built = NoKey /\ plan[f.res].require_ech

(* The build failed: the existing resolver is kept. *)
BuildFailed(t) ==
  /\ \/ At(t, "failed")
     \/ At(t, "choose") /\ BuildRefuses(Top(t))
  /\ stack' = Rebuilt(t)
  /\ Unlock(Top(t).res)
  /\ UNCHANGED <<world, inner, ech_bytes, generation, faults>>

(* A mutant: a rotation always finds nothing to do. *)
AlwaysUnchanged(f) == f.cause = "rotation"

(* A rotation that found the bytes in use is a no-op; a rejection always   *)
(* rebuilds.                                                               *)
Unchanged(f) == f.cause = "rotation" /\ f.built = ech_bytes[f.res]

KeepLive(t) ==
  /\ At(t, "choose") /\ ~BuildRefuses(Top(t)) /\ Unchanged(Top(t))
  /\ stack' = Rebuilt(t)
  /\ Unlock(Top(t).res)
  /\ UNCHANGED <<world, inner, ech_bytes, generation, faults>>

(* swap, 1: a new instance with an empty cache.  ech_bytes is only read    *)
(* under the mutex, so it is written in the same step.                     *)
SwapInner(t) ==
  LET f == Top(t) IN
  /\ At(t, "choose") /\ ~BuildRefuses(f) /\ ~Unchanged(f)
  /\ inner' = [inner EXCEPT ![f.res] = [key |-> f.built, inst |-> @.inst + 1,
                                        cache |-> [q \in Res |-> NoRecord]]]
  /\ ech_bytes' = [ech_bytes EXCEPT ![f.res] = f.built]
  /\ stack' = Frames(t, [f EXCEPT !.pc = "swapped"])
  /\ UNCHANGED <<world, generation, rebuilding, faults>>

(* swap, 2: only then the generation. *)
SwapGeneration(t) ==
  LET r == Top(t).res IN
  /\ At(t, "swapped")
  /\ generation' = [generation EXCEPT ![r] = @ + 1]
  /\ stack' = Rebuilt(t)
  /\ Unlock(r)
  /\ UNCHANGED <<world, inner, ech_bytes, faults>>

-----------------------------------------------------------------------------
(* The world: endpoints rotate, zones follow, cached answers expire. *)

Rotate(r) ==
  /\ Uses(r) /\ serverKey[r] < MaxKey
  /\ serverKey' = [serverKey EXCEPT ![r] = @ + 1]
  /\ UNCHANGED <<scope, published, started, inner, ech_bytes, generation, rebuilding, stack, faults>>

Publish(r) ==
  /\ published[r] # serverKey[r]
  /\ published' = [published EXCEPT ![r] = serverKey[r]]
  /\ UNCHANGED <<scope, serverKey, started, inner, ech_bytes, generation, rebuilding, stack, faults>>

(* The zone drops ech= from the record for a while. *)
Withdraw(r) ==
  /\ Uses(r) /\ published[r] # NoKey /\ faults < scope.faults
  /\ faults' = faults + 1
  /\ published' = [published EXCEPT ![r] = NoKey]
  /\ UNCHANGED <<scope, serverKey, started, inner, ech_bytes, generation, rebuilding, stack>>

Expire(r, q) ==
  /\ inner[r].cache[q] # NoRecord
  /\ inner' = [inner EXCEPT ![r].cache[q] = NoRecord]
  /\ UNCHANGED <<world, ech_bytes, generation, rebuilding, stack, faults>>

(* Every query has been answered and no timer is left within the bound. *)
Quiet ==
  /\ Exhausted /\ started = scope.query /\ \A t \in Task : stack[t] = << >>
  /\ UNCHANGED vars

Step(t) ==
  \/ ReadSeen(t) \/ Snapshot(t) \/ Answer(t) \/ Fault(t) \/ Reject(t) \/ RejectLast(t)
  \/ LockSkip(t) \/ LockBuild(t) \/ Bootstrap(t) \/ FetchStatic(t) \/ Fetch(t)
  \/ BuildFailed(t) \/ KeepLive(t) \/ SwapInner(t) \/ SwapGeneration(t)

Next ==
  \/ \E t \in Query : Start(t)
  \/ \E r \in Res : Tick(r) \/ Rotate(r) \/ Publish(r) \/ Withdraw(r)
  \/ \E t \in Task : Step(t)
  \/ \E r \in Resolver, q \in Res : Expire(r, q)
  \/ Quiet

Spec == Init /\ [][Next]_vars
(* Every task is driven, the mutex is granted in order of arrival (tokio's *)
(* Mutex is a FIFO queue), timers fire, zones catch up and cached answers  *)
(* expire.                                                                 *)
FairSpec ==
  /\ Spec
  /\ \A t \in Task : WF_vars(Step(t)) /\ SF_vars(LockSkip(t) \/ LockBuild(t))
  /\ \A r \in Res : SF_vars(Tick(r)) /\ WF_vars(Publish(r))
  /\ \A r \in Resolver, q \in Res : WF_vars(Expire(r, q))

-----------------------------------------------------------------------------
(* Every variable has its type, and a rebuild runs under the mutex of its  *)
(* resolver, in one task.                                                  *)
TypeOK ==
  /\ scope \in Scopes
  /\ serverKey \in [Res -> Key] /\ published \in [Res -> Key \cup {NoKey}]
  /\ inner \in [Resolver -> Instance] /\ ech_bytes \in [Res -> Key \cup {NoKey}]
  /\ generation \in [Resolver -> Nat]
  /\ rebuilding \in [Res -> Task \cup {NoTask}]
  /\ stack \in [Task -> Seq(Frame)]
  /\ started \subseteq Query /\ faults \in 0 .. scope.faults
  /\ \A r \in Res, t \in Task :
       rebuilding[r] = t <=> \E i \in DOMAIN stack[t] : stack[t][i].res = r /\ stack[t][i].pc \in Building

AllFrames == UNION {{stack[t][i] : i \in DOMAIN stack[t]} : t \in Task}

(* "A task that sees the new generation is guaranteed to see the new       *)
(* resolver": the instance an attempt runs on is never older than the      *)
(* generation it recorded (swap and with_ech_retry).                       *)
SeenImpliesSnapshot ==
  \A f \in AllFrames : f.cause = "rejected" /\ f.pc \notin {"seen", "snap"} => f.inst >= f.seen

(* "N tasks hitting one rotation cause one rebuild, not N": a rebuild      *)
(* after a rejection replaces the very instance that was rejected, never   *)
(* one another task put in its place.                                      *)
RebuildReplacesRejected ==
  \A f \in AllFrames : f.cause = "rejected" /\ f.pc \in Building \ {"swapped"}
                        => inner[f.res].inst = f.inst

(* Every lookup and every rebuild comes to an end although mutexes are     *)
(* held across lookups through other resolvers: what the load-time cycle   *)
(* check is for ("a cycle would deadlock").                                *)
LookupsEnd == \A t \in Task : stack[t] # << >> ~> stack[t] = << >>

(* The proactive refresher catches every rotation: as long as its timers   *)
(* fire, each ECH resolver runs again and again on its endpoint's current  *)
(* key.                                                                    *)
Converges ==
  \A r \in Res : []<>(plan[r].mode = "doh" => inner[r].key = serverKey[r] \/ Exhausted)

=============================================================================
