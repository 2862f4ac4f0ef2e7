-------------------------- MODULE MCNamedResolver --------------------------
(* Instances of NamedResolver: two resolvers "a" and "b". *)
EXTENDS NamedResolver, TLC

CONSTANTS q1, q2

MCQuery == {q1, q2}
MCRefresher == [r \in Res |-> <<"refresh", r>>]
D(b, e, m, q) == [bootstrap |-> b, ech_resolver |-> e, mode |-> m, require_ech |-> q]
S(p, retries, queries, gens, failures) ==
  [plan |-> p, retries |-> retries, query |-> queries, gens |-> gens, faults |-> failures]

(* One ECH resolver that fetches through the OS, and two lookups. *)
Single == S([a |-> D(Sys, Sys, "doh", TRUE), b |-> D(Sys, Sys, "none", TRUE)], 2, {q1, q2}, 2, 0)
(* Every mode, with and without require_ech, and a fault. *)
Mixed ==
  {S(p, 1, {q1}, 2, 1) :
     p \in {[a |-> D("b", Sys, "doh-with-fallback", TRUE), b |-> D(Sys, Sys, "static", TRUE)],
            [a |-> D(Sys, "b", "doh", FALSE), b |-> D(Sys, Sys, "none", FALSE)],
            [a |-> D(Sys, Sys, "doh", TRUE), b |-> D(Sys, Sys, "none", TRUE)]}}
(* "a" is found and gets its ECH config through "b"; the table in which   *)
(* "b" gets its own through "a" is refused.                                *)
Tangled ==
  {S([a |-> D("b", "b", "doh", TRUE), b |-> D(Sys, t, "doh", TRUE)], 1, {}, 2, 0) : t \in {"a", Sys}}
MCScopes == {Single} \cup Mixed
=============================================================================
