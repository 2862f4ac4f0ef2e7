-------------------------------- MODULE Clip --------------------------------
(***************************************************************************)
(* Which of the names an upstream certificate carries may appear in the    *)
(* certificate the gateway issues (src/resolver.rs clip, src/certscope.rs, *)
(* src/suffix.rs).                                                         *)
(***************************************************************************)
EXTENDS Router

CONSTANTS
  Target,     \* what a route forwards to: the Forwarding identity of certscope
  Mintable    \* the domains P for which *.P stays inside one registrable domain

ASSUME ClipAssumption == Mintable \subseteq Domain

(* A subject alternative name.  "bad" stands for the entries clip refuses  *)
(* on sight: an IP literal, an empty or multi-level wildcard.              *)
SAN == [kind : {"exact", "wildcard", "bad"}, dom : Domain]
Exact(h) == [kind |-> "exact", dom |-> h]

(* host_covered_by: the rule a TLS client applies. *)
SanCovers(s, h) ==
  \/ s.kind = "exact" /\ s.dom = h
  \/ s.kind = "wildcard" /\ OneLabelAbove(h, s.dom)
HostCoveredBy(sans, h) == \E s \in sans : SanCovers(s, h)

(* Router::build appends regex routes in the order of the route ids. *)
RegexInOrder(t) ==
  \A i, j \in DOMAIN t.regex : i < j => t.regex[i].route <= t.regex[j].route

(* One listener's configuration, as far as certificates depend on it: its  *)
(* routing table, where each route forwards, and the routes that pin an    *)
(* operator-supplied certificate.                                          *)
IsConf(c) ==
  /\ IsTable(c.table) /\ HonestTable(c.table) /\ RegexInOrder(c.table)
  /\ c.fwd \in [RouteId -> Target]
  /\ c.pinned \subseteq RouteId

(* router_fingerprint: the patterns of each route, the regexes and the     *)
(* default route.  The order of a route's patterns is forgotten.           *)
Fingerprint(t) ==
  [exact |-> t.exact, wildcard |-> t.wildcard, suffix |-> t.suffix,
   regex |-> {t.regex[i] : i \in DOMAIN t.regex}, default |-> t.default]

(* CertScope::new digests the fingerprint of the routing table and the     *)
(* route's own forwarding -- not the forwarding of the table's other       *)
(* routes.  The 64-bit digests are taken to be collision free.             *)
CertScope(c, id) == [fp |-> Fingerprint(c.table), fwd |-> c.fwd[id]]
InScope(c, id) == {j \in RouteId : CertScope(c, j) = CertScope(c, id)}

(* Mutants: a mintable wildcard, or any exact name, is kept untested. *)
KeepAnyWildcard(c, id, s) ==
  \/ s.kind = "wildcard" /\ s.dom \in Mintable
  \/ s.kind = "exact" /\ NameConfined(c.table, s.dom, InScope(c, id))
(* The two filters on one observed name: it may be minted, and every host  *)
(* it covers is routed into the owner's scope.                             *)
Keep(c, id, s) ==
  \/ /\ s.kind = "wildcard" /\ s.dom \in Mintable
     /\ WildcardConfined(c.table, s.dom, InScope(c, id))
  \/ s.kind = "exact" /\ NameConfined(c.table, s.dom, InScope(c, id))

(* clip: the surviving names, and the host itself unless they cover it. *)
ClipSans(c, id, h, observed) ==
  LET kept == {s \in observed : Keep(c, id, s)}
  IN IF HostCoveredBy(kept, h) THEN kept ELSE kept \cup {Exact(h)}

(* What a certificate must not do: cover a host that this listener routes  *)
(* out of the scope of route id, or does not route at all.                 *)
Confined(c, id, sans, names) ==
  \A h \in names : HostCoveredBy(sans, h) => MatchHost(c.table, h) \in InScope(c, id)
=============================================================================
