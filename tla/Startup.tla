------------------------------- MODULE Startup -------------------------------
(***************************************************************************)
(* The start of the gateway (run in src/main.rs), as far as its outcome    *)
(* depends on more than one declaration: the named resolvers are ordered   *)
(* and built, then the listeners, each with its routing table, then the    *)
(* h2c backends of all routes are probed at once; only then does anything  *)
(* listen.                                                                 *)
(***************************************************************************)
EXTENDS Naturals, Sequences

CONSTANTS
  Res, Sys, Plans, Names, NoPlan,                     \* see ResolverOrder
  Label, RouteId, NoRoute,                            \* see Router
  Pattern, Regexes, Hosts, NumRoutes, MaxPatterns,    \* see RouterBuild
  Route, Backend, Budgets, Confs, Replies, NoGroup    \* see Probe

VARIABLES
  plan, roots, stack, marks, order, cycle,
  tbl, route, declared, taken, status,
  conf, answers, todo, groups, task, opened, failures, pc

O == INSTANCE ResolverOrder
R == INSTANCE RouterBuild WITH Names <- Hosts
P == INSTANCE Probe

ASSUME StartupAssumption == O!OrderConstants /\ R!BuildConstants /\ P!ProbeConstants

ordering == <<plan, roots, stack, marks, order, cycle>>
routing == <<tbl, route, declared, taken, status>>
probing == <<conf, answers, todo, groups, task, opened, failures, pc>>
vars == <<ordering, routing, probing>>

Init == O!Init /\ R!Init /\ P!Init

Order == O!Next /\ UNCHANGED <<routing, probing>>

(* build_named_resolvers: in the order found, each from those before it. *)
BuildResolvers == O!Forget /\ R!Begin /\ UNCHANGED probing

(* build_listener: the table of a listener, read by Router::build. *)
BuildTable == (R!Build \/ R!Forget) /\ UNCHANGED <<ordering, probing>>

(* build_pools and the rest of build_listener: any of these may fail too. *)
BuildListeners == status = "built" /\ (P!Begin \/ P!Fails) /\ UNCHANGED <<ordering, routing>>

Probe == P!Next /\ UNCHANGED <<ordering, routing>>

Over == O!Refused \/ status = "rejected" \/ pc \in {"up", "aborted", "failed"}
Ended == Over /\ UNCHANGED vars

Next == Order \/ BuildResolvers \/ BuildTable \/ BuildListeners \/ Probe \/ Ended
Spec == Init /\ [][Next]_vars

-----------------------------------------------------------------------------
(* Every variable has its type (see the modules of the three stages). *)
TypeOK == O!TypeOK /\ R!TypeOK /\ P!TypeOK

(* resolver_build_order: a table is refused if and only if it is cyclic,   *)
(* over a path that is a cycle of it; an accepted one is ordered           *)
(* completely, and so that every resolver can be built in its turn.        *)
AnswerIsRight == O!AnswerIsRight

(* Router::build: the route of a host depends on the configuration, not on *)
(* the order in which a route lists its patterns -- which the fingerprint   *)
(* forgets by sorting them.                                                *)
RoutingFollowsConfiguration == R!RoutingFollowsConfiguration

(* Router::wildcard_confined: where it accepts *.P for a scope, every host *)
(* L.P is routed into that scope, whatever tier decides it.                *)
WildcardConfinedSound == R!WildcardConfinedSound

(* run_probes: the gateway starts exactly when every backend that some     *)
(* route requires to speak h2c does.                                       *)
StartsIffDemandsMet == P!StartsIffDemandsMet
=============================================================================
