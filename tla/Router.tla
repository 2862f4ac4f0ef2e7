------------------------------- MODULE Router -------------------------------
(***************************************************************************)
(* The routing table of one listener (src/router.rs): host matching, and   *)
(* the confinement test that decides whether a wildcard may appear in a    *)
(* certificate.                                                            *)
(*                                                                         *)
(* A domain name is the sequence of its labels, leftmost label first, so   *)
(* the name one label shorter is its Tail and "L.P" is <<L>> \o P.  Names  *)
(* are taken in the normal form `normalize` produces (lower case, no port, *)
(* no trailing dot).                                                       *)
(***************************************************************************)
EXTENDS Naturals, Sequences

CONSTANTS
  Label,     \* the labels names are made of
  RouteId,   \* the ids of the listener's routes
  NoRoute    \* Rust's None where an Option<RouteId> is expected

ASSUME RouterAssumption == RouteId \subseteq Nat /\ NoRoute \notin RouteId

Domain == Seq(Label) \ {<< >>}

(* A table: three maps keyed by domain, the regex routes in configuration  *)
(* order, and the default route.  The language of a regex (`lang`) is what *)
(* the regex engine accepts; `scope` is its declared scope_suffix list.    *)
ScopePattern == [kind : {"wildcard", "suffix", "exact"}, dom : Domain]
IsMap(m) ==
  /\ m = [d \in DOMAIN m |-> m[d]]
  /\ DOMAIN m \subseteq Domain
  /\ \A d \in DOMAIN m : m[d] \in RouteId
RegexRoute == [route : RouteId, lang : SUBSET Domain, scope : SUBSET ScopePattern]
IsTable(t) ==
  /\ t = [exact |-> t.exact, wildcard |-> t.wildcard, suffix |-> t.suffix,
          regex |-> t.regex, default |-> t.default]
  /\ IsMap(t.exact) /\ IsMap(t.wildcard) /\ IsMap(t.suffix)
  /\ t.regex \in Seq(RegexRoute)
  /\ t.default \in RouteId \cup {NoRoute}

----------------------------------------------------------------------------
(* The first entry of a sequence of Option<RouteId> that is not None: the  *)
(* shape of every "first hit wins" loop in the matcher.                    *)
Hits(s) == {i \in DOMAIN s : s[i] # NoRoute}
FirstSome(s) ==
  IF Hits(s) = {} THEN NoRoute
  ELSE s[CHOOSE i \in Hits(s) : \A j \in Hits(s) : i <= j]

Lookup(map, d) == IF d \in DOMAIN map THEN map[d] ELSE NoRoute

(* The name itself, then each of its ancestors: a.b.c, b.c, c. *)
Ancestor(h, i) == SubSeq(h, i, Len(h))
SuffixWalk(map, h) == FirstSome([i \in 1..Len(h) |-> Lookup(map, Ancestor(h, i))])

(* The wildcard tier: strip exactly one leftmost label. *)
WildcardTier(t, h) == IF Len(h) > 1 THEN Lookup(t.wildcard, Tail(h)) ELSE NoRoute

RegexTier(t, h) ==
  FirstSome([i \in DOMAIN t.regex |->
               IF h \in t.regex[i].lang THEN t.regex[i].route ELSE NoRoute])

MatchHost(t, h) ==
  IF h = << >> THEN t.default
  ELSE FirstSome(<<Lookup(t.exact, h), WildcardTier(t, h), SuffixWalk(t.suffix, h),
                   RegexTier(t, h), t.default>>)

----------------------------------------------------------------------------
OneLabelAbove(k, p) == k # << >> /\ Tail(k) = p

IsSuffixOfOrEqual(candidate, d) ==
  \E i \in 1..Len(candidate) : Ancestor(candidate, i) = d

(* Whether a regex's declared scope may meet the names *.parent covers. *)
MatchScopePattern(sp, parent) ==
  \/ sp.kind = "wildcard" /\ parent = sp.dom
  \/ sp.kind = "suffix" /\ (IsSuffixOfOrEqual(parent, sp.dom) \/ OneLabelAbove(sp.dom, parent))
  \/ sp.kind = "exact" /\ OneLabelAbove(sp.dom, parent)

(* Mutants: names at any depth below parent; the exact tier only. *)
NamedAtAnyDepth(t, parent) ==
  {k \in DOMAIN t.exact \cup DOMAIN t.suffix : k # parent /\ IsSuffixOfOrEqual(k, parent)}
NamedExactly(t, parent) == {k \in DOMAIN t.exact : OneLabelAbove(k, parent)}

(* The explicitly named hosts one label above parent. *)
Named(t, parent) ==
  {k \in DOMAIN t.exact \cup DOMAIN t.suffix : OneLabelAbove(k, parent)}

(* The route shared by every host under *.parent that is not named, when   *)
(* the wildcard or the suffix tier decides it.                             *)
Generic(t, parent) == FirstSome(<<Lookup(t.wildcard, parent), SuffixWalk(t.suffix, parent)>>)

RegexOverlap(t, parent, inScope) ==
  \E i \in DOMAIN t.regex :
    /\ t.regex[i].route \notin inScope
    /\ \E sp \in t.regex[i].scope : MatchScopePattern(sp, parent)

(* wildcard_confined: "Ok", or the reason the wildcard is refused. *)
WildcardVerdict(t, parent, inScope) ==
  LET generic == Generic(t, parent)
  IN IF \E k \in Named(t, parent) : MatchHost(t, k) \notin inScope THEN "Host"
     ELSE IF generic # NoRoute THEN IF generic \in inScope THEN "Ok" ELSE "Host"
     ELSE IF t.default = NoRoute THEN "Unmatched"
     ELSE IF t.default \notin inScope THEN "DefaultRoute"
     ELSE IF RegexOverlap(t, parent, inScope) THEN "RegexTier"
     ELSE "Ok"

WildcardConfined(t, parent, inScope) == WildcardVerdict(t, parent, inScope) = "Ok"

NameConfined(t, name, inScope) == MatchHost(t, name) \in inScope

----------------------------------------------------------------------------
(* Reference notions the properties are stated with. *)

(* The hosts a scope_suffix declaration stands for. *)
ScopeCovers(sp, h) ==
  \/ sp.kind = "wildcard" /\ OneLabelAbove(h, sp.dom)
  \/ sp.kind = "suffix" /\ IsSuffixOfOrEqual(h, sp.dom)
  \/ sp.kind = "exact" /\ h = sp.dom

(* The operator's promise about a regex, which no code can check: it       *)
(* matches nothing outside the scope declared for it.                      *)
RegexHonest(r) == \A h \in r.lang : \E sp \in r.scope : ScopeCovers(sp, h)
HonestTable(t) == \A i \in DOMAIN t.regex : RegexHonest(t.regex[i])
=============================================================================
