-------------------------------- MODULE Pool --------------------------------
(***************************************************************************)
(* An endpoint pool (src/pool.rs): the worker that expands targets into    *)
(* candidates, probes them, keeps their health and publishes a ranking per *)
(* view; the connections that pick from the published ranking and report   *)
(* back what they transferred.                                             *)
(*                                                                         *)
(* A score stands for the smoothed RTT plus payload over typical rate: a   *)
(* measurement may move it anywhere.  When a candidate is due is left      *)
(* open, except that a new one is due at once; backoff is in units of      *)
(* time.  The order among a target's candidates, which matters to the      *)
(* fallback alone, is arbitrary but fixed.                                 *)
(***************************************************************************)
EXTENDS Naturals, Sequences, FiniteSets, FiniteSetsExt, Functions

CONSTANTS
  Pools,          \* the pools explored: see PoolConf
  Score, Floor,   \* scores, in ms, and HYSTERESIS_FLOOR
  MaxParked,      \* MAX_PARKED_CANDIDATES
  NoSample, NoTarget, NoScore, NoHealth, NoAddr

(* One [pools] entry, and the network it is about.                         *)
(*   literal, cidr, domain : the targets, by kind; fallback: one, NoTarget *)
(*   ip, net, zone : the address of a literal, the addresses of a network, *)
(*            the answers a name may have ({}: none)                       *)
(*   sample : how many addresses of a network are drawn; NoSample: all     *)
(*   answers : the outcomes a probe of an address may have                 *)
(*   v6     : what the NAT64 prefix makes of a V4 address; `projected` are *)
(*            the targets nat64.from names                                 *)
(*   selects : the registered views, and the [target, kind] pairs of each  *)
(*   adaptive, threshold, base, interval : score_payload_bytes # 0,        *)
(*            fail_threshold, degraded_interval, interval                  *)
TargetsOf(p) == p.literal \cup p.cidr \cup p.domain
NativeOf(p) == {p.ip[t] : t \in p.literal} \cup (UNION {p.net[t] : t \in p.cidr})
               \cup (UNION UNION {p.zone[t] : t \in p.domain})
AddrOf(p) == NativeOf(p) \cup {p.v6[a] : a \in DOMAIN p.v6}

PoolConf(p) ==
  /\ p.fallback \in TargetsOf(p) \cup {NoTarget} /\ p.projected \subseteq TargetsOf(p)
  /\ \A t \in p.cidr : p.sample[t] = NoSample \/ p.sample[t] \in 1 .. Cardinality(p.net[t])
  /\ DOMAIN p.v6 \subseteq NativeOf(p) /\ IsInjective(p.v6)
  /\ \A a \in DOMAIN p.v6 : p.v6[a] \notin NativeOf(p)
  /\ \A a \in AddrOf(p) : p.answers[a] \in (SUBSET BOOLEAN) \ {{}}
  /\ p.threshold \in Nat \ {0} /\ {p.base, p.interval} \subseteq Nat /\ p.adaptive \in BOOLEAN
  /\ IsFiniteSet(AddrOf(p))

ASSUME PoolAssumption ==
  /\ \A p \in Pools : PoolConf(p)
  /\ Score \subseteq Nat /\ NoScore \notin Score /\ {Floor, MaxParked} \subseteq Nat
  /\ NoHealth \notin [score : Score \cup {NoScore}, fails : Nat, degraded : BOOLEAN, backoff : Nat]

VARIABLES
  pool,          \* the pool: it never changes
  sampled,       \* Cidr -> addresses drawn at startup
  resampled,     \* dead samples, never probed again for a sample
  replacements,  \* Cidr -> addresses drawn in their place
  resolved,      \* Domain -> the last DNS answer; none yet: {}
  health,        \* Addr -> Health, or NoHealth
  parked,        \* Addr -> Health of one that left, or NoHealth
  order,         \* the preference order
  candidates,    \* the candidates of this cycle
  ranking,       \* View -> what connections read
  pc,            \* run_probe_loop: "resolve", "probe", "sleep"
  asking,        \* domains still to be looked up
  todo,          \* addresses whose probe has not been joined
  probed         \* some address was due in this cycle

draws == <<pool, sampled, resampled, replacements>>
work == <<pc, asking, todo, probed>>
vars == <<draws, resolved, health, parked, order, candidates, ranking, work>>

Literal == pool.literal
Cidr == pool.cidr
Domain == pool.domain
Target == TargetsOf(pool)
Ip == pool.ip
Net == pool.net
Sample == pool.sample
V6 == pool.v6
V4 == DOMAIN V6
Native == NativeOf(pool)
Addr == AddrOf(pool)
View == DOMAIN pool.selects

Kind == {"ipv4", "ipv6", "nat64"}
Health == [score : Score \cup {NoScore}, fails : 0 .. pool.threshold, degraded : BOOLEAN,
           backoff : Nat]
Candidate == [addr : Addr, target : Target, kind : Kind]
ViewRanking == [ordered : Seq(Addr), incumbent : Nat, fallback : Addr \cup {NoAddr}]

Fresh == [score |-> NoScore, fails |-> 0, degraded |-> FALSE, backoff |-> pool.base]
HealthyAt(h, a) == h[a] # NoHealth /\ ~h[a].degraded /\ h[a].score # NoScore
AddrsOf(cands) == {c.addr : c \in cands}
Known(h) == {a \in Addr : h[a] # NoHealth}

(* PoolBuilder::new draws at most Sample[t] addresses: collisions are given *)
(* up on after a while.                                                     *)
Init ==
  /\ pool \in Pools
  /\ sampled \in [Cidr -> SUBSET Native]
  /\ \A t \in Cidr : IF Sample[t] = NoSample THEN sampled[t] = Net[t]
                     ELSE sampled[t] \subseteq Net[t] /\ Cardinality(sampled[t]) \in 1 .. Sample[t]
  /\ resampled = {} /\ replacements = [t \in Cidr |-> {}]
  /\ resolved = [t \in Domain |-> {}]
  /\ health = [a \in Addr |-> NoHealth] /\ parked = [a \in Addr |-> NoHealth]
  /\ order = << >> /\ candidates = {}
  /\ ranking = [v \in View |-> [ordered |-> << >>, incumbent |-> 1, fallback |-> NoAddr]]
  /\ pc = "resolve" /\ asking = Domain /\ todo = {} /\ probed = FALSE

-----------------------------------------------------------------------------
(* The preference order. *)

(* The margin is 20% or the floor, whichever is larger. *)
Beats(challenger, incumbent) ==
  5 * challenger + Max({incumbent, 5 * Floor}) < 5 * incumbent

(* The insertion pass: x moves forward past those it beats. *)
Place(h, s, x) ==
  LET k == Max({0} \cup {i \in DOMAIN s : ~Beats(h[x].score, h[s[i]].score)}) IN
  SubSeq(s, 1, k) \o <<x>> \o SubSeq(s, k + 1, Len(s))

(* What is left of s without the entries outside S. *)
Only(s, S) ==
  LET left[n \in 0 .. Len(s)] ==
        IF n = 0 THEN << >>
        ELSE IF s[n] \in S THEN Append(left[n - 1], s[n]) ELSE left[n - 1] IN
  left[Len(s)]

BestFirst(h, S) ==
  CHOOSE s \in [1 .. Cardinality(S) -> S] :
    IsInjective(s) /\ \A i, j \in DOMAIN s : i < j => h[s[i]].score <= h[s[j]].score

Ranked(h, cands) == {a \in AddrsOf(cands) : HealthyAt(h, a)}

Inserted(h, s) ==
  LET pass[n \in 0 .. Len(s)] == IF n = 0 THEN << >> ELSE Place(h, pass[n - 1], s[n]) IN
  pass[Len(s)]

(* A mutant: the order is sorted afresh. *)
Sorted(prev, h, cands) == BestFirst(h, Ranked(h, cands))
(* reorder_with_hysteresis: the previous order without those that are gone *)
(* or unhealthy, newcomers after it best first, then the insertion pass.   *)
Reordered(prev, h, cands) ==
  LET kept == Only(prev, Ranked(h, cands)) IN
  Inserted(h, kept \o BestFirst(h, Ranked(h, cands) \ Range(kept)))

Matches(v, c) == [target |-> c.target, kind |-> c.kind] \in pool.selects[v]

(* A mutant: the incumbent keeps its place, whoever is there now. *)
IncumbentSamePlace(r, s) == IF r.incumbent <= Len(s) THEN r.incumbent ELSE 1
(* The previous incumbent's new place, if it has one. *)
Incumbent(r, s) ==
  LET was == {i \in DOMAIN s : r.incumbent <= Len(r.ordered) /\ s[i] = r.ordered[r.incumbent]} IN
  IF was = {} THEN 1 ELSE Min(was)

(* publish: what connections read from now on. *)
Published(h, ord, cands) ==
  [v \in View |->
     LET s == Only(ord, Ranked(h, {c \in cands : Matches(v, c)}))
         safety == AddrsOf({c \in cands : c.target = pool.fallback /\ Matches(v, c)}) IN
     [ordered |-> s, incumbent |-> Incumbent(ranking[v], s),
      fallback |-> IF safety = {} THEN NoAddr ELSE CHOOSE a \in safety : TRUE]]

-----------------------------------------------------------------------------
(* refresh_domains: a failed lookup keeps the previous addresses. *)
Resolve(t) ==
  /\ pc = "resolve" /\ t \in asking
  /\ \E answer \in pool.zone[t] :
       resolved' = IF answer = {} THEN resolved ELSE [resolved EXCEPT ![t] = answer]
  /\ asking' = asking \ {t}
  /\ UNCHANGED <<draws, health, parked, order, candidates, ranking, pc, todo, probed>>

(* build_candidates: one candidate per address and target, and what NAT64  *)
(* makes of the IPv4 ones.                                                 *)
AddrsFrom(t) ==
  IF t \in Literal THEN {Ip[t]}
  ELSE IF t \in Cidr THEN (sampled[t] \ resampled) \cup replacements[t] ELSE resolved[t]
Expanded ==
  {c \in Candidate :
     \/ /\ c.addr \in AddrsFrom(c.target)
        /\ c.kind = IF c.addr \in V4 THEN "ipv4" ELSE "ipv6"
     \/ /\ c.target \in pool.projected /\ c.kind = "nat64"
        /\ \E a \in AddrsFrom(c.target) \cap V4 : c.addr = V6[a]}

(* prune_history: what the cap evicts of those held; the oldest, which are *)
(* any here.                                                               *)
Evictions(old) ==
  LET excess == Cardinality(old) - MaxParked IN
  IF Cardinality(old) <= MaxParked THEN {{}} ELSE kSubset(excess, old)

(* What an address that becomes live starts with. *)
Restored(a, left) == IF left[a] # NoHealth THEN left[a] ELSE Fresh

(* build_candidates, the reordering and the publication before the probes; *)
(* due are the addresses run_cycle will probe.                             *)
Build(due) ==
  /\ pc = "resolve" /\ asking = {}
  /\ candidates' = Expanded
  /\ LET live == AddrsOf(Expanded) IN
     \E expired \in SUBSET Known(parked) :
       LET left == [a \in Addr |-> IF a \in expired THEN NoHealth ELSE parked[a]]
           unheld == (Known(left) \ live) \cup (Known(health) \ live) IN
       /\ health' = [a \in Addr |-> IF a \notin live THEN NoHealth
                                    ELSE IF health[a] # NoHealth THEN health[a]
                                    ELSE Restored(a, left)]
       /\ \E evicted \in Evictions(unheld) :
            parked' = [a \in Addr |-> IF a \notin unheld \ evicted THEN NoHealth
                                     ELSE IF health[a] # NoHealth THEN health[a] ELSE left[a]]
       /\ due \subseteq live
       /\ \A a \in live : health'[a] = Fresh => a \in due
  /\ order' = Reordered(order, health', candidates')
  /\ ranking' = Published(health', order', candidates')
  /\ pc' = "probe" /\ todo' = due /\ probed' = (due # {})
  /\ UNCHANGED <<draws, resolved, asking>>

(* record_failure *)
(* The first degradation starts at the base delay, each failure after it   *)
(* doubles the delay up to the interval.                                   *)
Failed(h) ==
  LET fails == IF h.fails < pool.threshold THEN h.fails + 1 ELSE h.fails IN
  [h EXCEPT !.fails = fails, !.degraded = @ \/ fails >= pool.threshold,
            !.backoff = IF h.degraded THEN Min({2 * @, pool.interval})
                        ELSE IF fails >= pool.threshold THEN pool.base ELSE @]

(* run_cycle: one probe is joined and folded into health, if the address   *)
(* still has any.                                                          *)
Answered(a) ==
  /\ pc = "probe" /\ a \in todo /\ TRUE \in pool.answers[a]
  /\ \E s \in Score :
       health' = [health EXCEPT ![a] = [Fresh EXCEPT !.score = s]]
  /\ todo' = todo \ {a}
  /\ UNCHANGED <<draws, resolved, parked, order, candidates, ranking, pc, asking, probed>>

Refused(a) ==
  /\ pc = "probe" /\ a \in todo /\ FALSE \in pool.answers[a]
  /\ health' = [health EXCEPT ![a] = Failed(@)]
  /\ todo' = todo \ {a}
  /\ UNCHANGED <<draws, resolved, parked, order, candidates, ranking, pc, asking, probed>>

(* A mutant: the cap itself is not enough. *)
DeadBeyond == {c \in candidates : /\ health[c.addr] # NoHealth
                                  /\ health[c.addr].degraded /\ health[c.addr].score = NoScore
                                  /\ health[c.addr].backoff > pool.interval
                                  /\ c.target \in Cidr /\ Sample[c.target] # NoSample}
(* resample_dead: a sample whose delay reached the cap without it ever     *)
(* having answered, for every target that has it as a candidate.           *)
Dead == {c \in candidates : /\ health[c.addr] # NoHealth
                            /\ health[c.addr].degraded /\ health[c.addr].score = NoScore
                            /\ health[c.addr].backoff >= pool.interval
                            /\ c.target \in Cidr /\ Sample[c.target] # NoSample}
Unreserved(t) == Net[t] \ (Known(health) \cup resampled)
(* draw_fresh_sample finds a free address whenever there is one. *)
Plans ==
  UNION {{plan \in [d -> Native] :
            /\ IsInjective(plan)
            /\ \A c \in d : plan[c] \in Unreserved(c.target)
            /\ \A c \in Dead \ d : Unreserved(c.target) \subseteq Range(plan)}
         : d \in SUBSET Dead}

(* A mutant: the list of replacements only grows. *)
ReplacedHistory(t, plan) ==
  replacements[t] \cup {plan[c] : c \in {d \in DOMAIN plan : d.target = t}}
(* replace_recorded_sample *)
ReplacedIn(t, plan) ==
  LET mine == {c \in DOMAIN plan : c.target = t} IN
  (replacements[t] \ AddrsOf(mine)) \cup {plan[c] : c \in mine}

(* A mutant: the ranking is published over the order of the cycle's start. *)
SettleEarly ==
  /\ pc = "probe" /\ todo = {}
  /\ \E plan \in IF probed THEN Plans ELSE {<< >>} :
       LET retired == AddrsOf(DOMAIN plan) IN
       /\ replacements' = [t \in Cidr |-> ReplacedIn(t, plan)]
       /\ resampled' = resampled \cup retired
       /\ health' = [a \in Addr |-> IF a \in retired THEN NoHealth ELSE health[a]]
  /\ order' = Reordered(order, health', candidates)
  /\ ranking' = Published(health', order, candidates)
  /\ pc' = "sleep" /\ probed' = FALSE
  /\ UNCHANGED <<pool, sampled, resolved, parked, candidates, asking, todo>>
(* The end of the cycle: the dead are replaced, if anything was probed,    *)
(* and the order is recomputed and published.                              *)
Settle ==
  /\ pc = "probe" /\ todo = {}
  /\ \E plan \in IF probed THEN Plans ELSE {<< >>} :
       LET retired == AddrsOf(DOMAIN plan) IN
       /\ replacements' = [t \in Cidr |-> ReplacedIn(t, plan)]
       /\ resampled' = resampled \cup retired
       /\ health' = [a \in Addr |-> IF a \in retired THEN NoHealth ELSE health[a]]
  /\ order' = Reordered(order, health', candidates)
  /\ ranking' = Published(health', order', candidates)
  /\ pc' = "sleep" /\ probed' = FALSE
  /\ UNCHANGED <<pool, sampled, resolved, parked, candidates, asking, todo>>

(* The earliest deadline; names are looked up again when theirs is over. *)
Wake ==
  /\ pc = "sleep" /\ pc' = "resolve"
  /\ asking' \in {Domain, {}}
  /\ UNCHANGED <<draws, resolved, health, parked, order, candidates, ranking, todo, probed>>

(* with_observations, process_observations: while the worker waits, what a *)
(* connection transferred moves a score, and the ranking is published      *)
(* again over the order of the last recomputation.                         *)
Waits == pc = "sleep" \/ asking # {} \/ todo # {}
Observe(a) ==
  /\ pool.adaptive /\ Waits
  /\ \E s \in Score :
       LET seen(h) == IF h.score = NoScore THEN h ELSE [h EXCEPT !.score = s] IN
       \/ /\ health[a] # NoHealth
          /\ health' = [health EXCEPT ![a] = seen(@)]
          /\ ranking' = Published(health', order, candidates)
          /\ UNCHANGED parked
       \/ /\ parked[a] # NoHealth
          /\ parked' = [parked EXCEPT ![a] = seen(@)]
          /\ UNCHANGED <<health, ranking>>
  /\ UNCHANGED <<draws, resolved, order, candidates, work>>

(* choose_with: a connection draws a score for each model of its snapshot  *)
(* and stores its choice; a choice in a snapshot replaced meanwhile is     *)
(* lost.                                                                   *)
Pick(v) ==
  /\ pool.adaptive /\ ranking[v].ordered # << >>
  /\ \E i \in DOMAIN ranking[v].ordered : ranking' = [ranking EXCEPT ![v].incumbent = i]
  /\ UNCHANGED <<draws, resolved, health, parked, order, candidates, work>>

Worker == (\E t \in Domain : Resolve(t)) \/ (\E due \in SUBSET Addr : Build(due))
          \/ (\E a \in Addr : Answered(a) \/ Refused(a)) \/ Settle \/ Wake
Next == Worker \/ (\E a \in Addr : Observe(a)) \/ (\E v \in View : Pick(v))

Spec == Init /\ [][Next]_vars

(* The worker, which always has a next step and alone changes `work`, keeps *)
(* taking it, and no candidate waits for ever: its next probe is at most    *)
(* an interval after its last.                                              *)
FairSpec ==
  /\ Spec /\ []<><<TRUE>>_work
  /\ \A a \in UNION {AddrOf(p) : p \in Pools} :
       []<>(pc = "probe" /\ a \in AddrsOf(candidates)) => []<>(a \in todo)

-----------------------------------------------------------------------------
(* Every variable has its type, and no history is kept twice. *)
TypeOK ==
  /\ pool \in Pools
  /\ sampled \in [Cidr -> SUBSET Native] /\ resampled \in SUBSET Addr
  /\ replacements \in [Cidr -> SUBSET Native] /\ resolved \in [Domain -> SUBSET Native]
  /\ {health, parked} \subseteq [Addr -> Health \cup {NoHealth}]
  /\ Known(parked) \cap Known(health) = {}
  /\ order \in Seq(Addr) /\ candidates \in SUBSET Candidate
  /\ ranking \in [View -> ViewRanking]
  /\ pc \in {"resolve", "probe", "sleep"} /\ asking \in SUBSET Domain
  /\ todo \in SUBSET Addr /\ probed \in BOOLEAN

(* Between two cycles connections read exactly the candidates of their     *)
(* selection that have been measured and are not degraded, each once:      *)
(* nothing healthy is left out, nothing retired, departed or failed stays  *)
(* (publish after resample_dead and recompute_order).                      *)
SettledRanking ==
  pc = "sleep" =>
    \A v \in View :
      LET s == ranking[v].ordered IN
      /\ Range(s) = {c.addr : c \in {d \in candidates : Matches(v, d) /\ HealthyAt(health, d.addr)}}
      /\ IsInjective(s)

Ahead(s, a, b) == \E i, j \in DOMAIN s : i < j /\ s[i] = a /\ s[j] = b

(* No pair trades places on noise (reorder_with_hysteresis, "The margin is *)
(* applied pairwise, so no pair reorders on noise"): what comes ahead of a *)
(* candidate that was ranked and still is, without having been ahead of it *)
(* before, beats it by the margin, newcomers included.                     *)
NoSwapOnNoise ==
  [][\A a, b \in Range(order) \cup Range(order') :
       /\ a \in Range(order) /\ Ahead(order', b, a) /\ ~Ahead(order, b, a)
       => Beats(health'[b].score, health'[a].score)]_vars

(* The address a view's connections settled on stays their incumbent as    *)
(* long as it is ranked, whatever publication moves in front of it         *)
(* (publish, choose_with).                                                 *)
IncumbentKept ==
  [][\A v \in View :
       LET r == ranking[v]
           next == ranking'[v] IN
       /\ next.ordered # r.ordered
       /\ r.incumbent \in DOMAIN r.ordered /\ r.ordered[r.incumbent] \in Range(next.ordered)
       => next.ordered[next.incumbent] = r.ordered[r.incumbent]]_vars

(* However long the worker runs, a sampled network that NAT64 does not     *)
(* project has at most as many addresses in the pool as were asked for,    *)
(* however many were replaced ("Rotate one active CIDR replacement in      *)
(* place rather than keeping a history", replace_recorded_sample); what    *)
(* left is remembered up to MAX_PARKED_CANDIDATES (prune_history); and no  *)
(* delay outgrows the interval, unless the base delay does                 *)
(* (record_failure).                                                       *)
(*                                                                         *)
(* Two things are left out because they do grow.  A network that NAT64     *)
(* projects gains an address whenever a synthesized one is dead, since     *)
(* what is replaced is no sample of it (resample_dead).  And the retired   *)
(* addresses (`resampled`) are kept for the life of the process.           *)
MemoryBounded ==
  /\ \A t \in Cidr \ pool.projected : Sample[t] # NoSample => Cardinality(AddrsFrom(t)) <= Sample[t]
  /\ Cardinality(Known(parked)) <= MaxParked
  /\ \A a \in Known(health) : health[a].backoff <= Max({pool.base, pool.interval})

(* "the sample space is eventually explored while measured endpoints are   *)
(* never discarded" (resample_dead): a network with an address that always *)
(* answers ends up ranked, whichever other targets share the dead ones.    *)
(* Two networks are left out: one with an address that answers only        *)
(* sometimes, since a sample that answered once is never replaced; and one *)
(* whose steady addresses all belong to another target, since an address   *)
(* in the pool is never drawn (draw_fresh_sample).                         *)
SpaceIsExplored ==
  <>[](\A t \in Cidr : \A v \in View :
         LET steady == {a \in Net[t] : pool.answers[a] = {TRUE}}
             elsewhere == NativeOf([pool EXCEPT !.cidr = @ \ {t}]) IN
         /\ ~(steady \subseteq elsewhere) /\ \A a \in Net[t] : pool.answers[a] # BOOLEAN
         /\ {[target |-> t, kind |-> k] : k \in Kind} \subseteq pool.selects[v]
         => steady \cap Range(ranking[v].ordered) # {})
=============================================================================
