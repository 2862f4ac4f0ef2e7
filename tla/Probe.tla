------------------------------- MODULE Probe -------------------------------
(***************************************************************************)
(* The h2c probes of a start (build_route, group_probe_targets, run_probes *)
(* in src/main.rs, src/probe.rs): routes that would dial the same backend  *)
(* share one probe, all probes run at once, and the verdicts decide        *)
(* whether the gateway starts.                                             *)
(***************************************************************************)
EXTENDS Naturals, Sequences, FiniteSetsExt

CONSTANTS
  Route,
  Backend,   \* ProbeKey: host, port, family, NAT64 prefix and resolver
  Budgets,   \* the probe timeouts in use
  Confs,     \* the routes considered
  Replies,   \* what the backends considered may do
  NoGroup

Policy == {"off", "warn", "require"}
RouteConf == [http2 : BOOLEAN, key : Backend, policy : Policy, budget : Budgets]

(* What a backend does when it is sent the preface at one address: its     *)
(* first frame, an HTTP/1 response, a reply cut short, or nothing, for     *)
(* ever or before it closes; and when.                                     *)
Reply == [kind : {"settings", "http1", "short", "closed", "silent"}, at : Nat]

ProbeConstants ==
  /\ IsFiniteSet(Route) /\ Budgets \subseteq Nat
  /\ Confs \subseteq RouteConf /\ Replies \subseteq Reply
  /\ NoGroup \notin [routes : SUBSET Route, policy : Policy, budget : Nat]

VARIABLES
  conf,      \* Route -> RouteConf
  answers,   \* Backend -> the replies at its addresses; << >>: unresolvable
  todo,      \* the routes not built yet
  groups,    \* ProbeKey -> ProbeGroup
  task,      \* Backend -> "none", "resolve", "primary", "fallback", "ok",
             \* "failed", "joined"
  opened,    \* history: Backend -> the connections opened to it
  failures,  \* the groups that failed with policy "require"
  pc         \* "resolvers", "build", "probe", "up", "aborted" by a verdict,
             \* or "failed" before any

vars == <<conf, answers, todo, groups, task, opened, failures, pc>>

Init ==
  /\ conf = << >> /\ answers = << >> /\ todo = {}
  /\ groups = [k \in Backend |-> NoGroup] /\ task = [k \in Backend |-> "none"]
  /\ opened = [k \in Backend |-> 0] /\ failures = {} /\ pc = "resolvers"

(* The listeners are built once the resolvers and the pools are. *)
Begin ==
  /\ pc = "resolvers" /\ pc' = "build"
  /\ conf' \in [Route -> Confs]
  /\ answers' \in [Backend -> {<< >>} \cup {<<r>> : r \in Replies}
                              \cup {<<r, s>> : r, s \in Replies}]
  /\ todo' = Route
  /\ UNCHANGED <<groups, task, opened, failures>>

(* A resolver or a pool cannot be built. *)
Fails ==
  /\ pc = "resolvers" /\ pc' = "failed"
  /\ UNCHANGED <<conf, answers, todo, groups, task, opened, failures>>

-----------------------------------------------------------------------------
(* A mutant: the policy of the last route of the group. *)
LastPolicy(a, b) == b
Stricter(a, b) ==
  IF "require" \in {a, b} THEN "require" ELSE IF "warn" \in {a, b} THEN "warn" ELSE "off"

(* group_probe_targets *)
Group(r) ==
  LET c == conf[r]
      g == IF groups[c.key] = NoGroup THEN [routes |-> {}, policy |-> "off", budget |-> 0]
           ELSE groups[c.key]
  IN [routes |-> g.routes \cup {r}, policy |-> Stricter(g.policy, c.policy),
      budget |-> Max({g.budget, c.budget})]

(* Only an http route with HTTP/2 and a probe policy is a target. *)
Build(r) ==
  /\ pc = "build" /\ r \in todo
  /\ todo' = todo \ {r}
  /\ groups' = IF conf[r].http2 /\ conf[r].policy # "off"
               THEN [groups EXCEPT ![conf[r].key] = Group(r)] ELSE groups
  /\ UNCHANGED <<conf, answers, task, opened, failures, pc>>

RunProbes ==
  /\ pc = "build" /\ todo = {}
  /\ pc' = "probe"
  /\ task' = [k \in Backend |-> IF groups[k] = NoGroup THEN "none" ELSE "resolve"]
  /\ UNCHANGED <<conf, answers, todo, groups, opened, failures>>

-----------------------------------------------------------------------------
Resolve(k) ==
  /\ task[k] = "resolve"
  /\ task' = [task EXCEPT ![k] = IF answers[k] = << >> THEN "failed" ELSE "primary"]
  /\ UNCHANGED <<conf, answers, todo, groups, opened, failures, pc>>

(* classify_reply: a whole frame header, and its type is SETTINGS. *)
SpeaksH2c(reply) == reply.kind = "settings"
InTime(reply, budget) == reply.kind # "silent" /\ reply.at <= budget

(* probe_h2c: each attempt has the budget to itself. *)
Attempt(k, i) ==
  LET reply == answers[k][i]
      ok    == InTime(reply, groups[k].budget) /\ SpeaksH2c(reply)
  IN /\ task[k] = IF i = 1 THEN "primary" ELSE "fallback"
     /\ opened' = [opened EXCEPT ![k] = @ + 1]
     /\ task' = [task EXCEPT ![k] = IF ok THEN "ok"
                                    ELSE IF i < Len(answers[k]) THEN "fallback"
                                    ELSE "failed"]
     /\ UNCHANGED <<conf, answers, todo, groups, failures, pc>>

(* join_next: in the order in which they end. *)
Join(k) ==
  /\ pc = "probe" /\ task[k] \in {"ok", "failed"}
  /\ task' = [task EXCEPT ![k] = "joined"]
  /\ failures' = IF task[k] = "failed" /\ groups[k].policy = "require"
                 THEN failures \cup {k} ELSE failures
  /\ UNCHANGED <<conf, answers, todo, groups, opened, pc>>

Decide ==
  /\ pc = "probe" /\ \A k \in Backend : task[k] \in {"none", "joined"}
  /\ pc' = IF failures = {} THEN "up" ELSE "aborted"
  /\ UNCHANGED <<conf, answers, todo, groups, task, opened, failures>>

Next == \/ \E r \in Route : Build(r)
        \/ RunProbes \/ Decide
        \/ \E k \in Backend : Resolve(k) \/ Join(k) \/ \E i \in {1, 2} : Attempt(k, i)

-----------------------------------------------------------------------------
(* Every variable has its type, and routes of one backend share one probe: *)
(* a backend is dialled at most once at each address ("N routes on one     *)
(* backend opened N sockets", group_probe_targets).                        *)
TypeOK ==
  /\ todo \subseteq Route /\ failures \subseteq Backend
  /\ \A k \in Backend : groups[k] # NoGroup =>
       groups[k] \in [routes : (SUBSET Route) \ {{}}, policy : Policy, budget : Budgets]
  /\ task \in [Backend -> {"none", "resolve", "primary", "fallback", "ok", "failed", "joined"}]
  /\ pc \in {"resolvers", "build", "probe", "up", "aborted", "failed"}
  /\ pc \notin {"resolvers", "failed"} =>
       /\ conf \in [Route -> RouteConf]
       /\ \A k \in Backend : opened[k] <= Len(answers[k])

(* A route demands of its backend that it speaks h2c at some address,      *)
(* within the most generous timeout among the routes that share it.        *)
Sharing(k) == {r \in Route : conf[r].http2 /\ conf[r].policy # "off" /\ conf[r].key = k}
Verified(k) ==
  \E i \in DOMAIN answers[k] : /\ answers[k][i].kind = "settings"
                               /\ \E r \in Sharing(k) : answers[k][i].at <= conf[r].budget
Demanded == {k \in Backend : \E r \in Sharing(k) : conf[r].policy = "require"}

(* The gateway starts exactly when every backend that some route requires  *)
(* to speak h2c does: neither the order of the routes, nor which probe     *)
(* ends first, nor a route that would merely warn weakens a demand, and a  *)
(* dead address family or a warning stops nothing (run_probes).            *)
StartsIffDemandsMet ==
  /\ pc = "up" => \A k \in Demanded : Verified(k)
  /\ pc = "aborted" => \E k \in Demanded : ~Verified(k)
=============================================================================
