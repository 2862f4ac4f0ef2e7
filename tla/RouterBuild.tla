---------------------------- MODULE RouterBuild ----------------------------
(***************************************************************************)
(* Building a listener's routing table from its configuration              *)
(* (Router::build), and what the finished table guarantees.                *)
(*                                                                         *)
(* The routes are read in order and their match_sni patterns one at a      *)
(* time.  A pattern that repeats a key of its tier, names an undeclared    *)
(* regex, or spells a regex inline makes the whole configuration invalid.  *)
(***************************************************************************)
EXTENDS Router

CONSTANTS
  Pattern,      \* the match_sni entries a configuration may contain
  Regexes,      \* the [regexes] table: name -> [lang, scope]
  Names,        \* the names the properties are checked on
  NumRoutes,    \* routes of the configuration; ids are 0 .. NumRoutes - 1
  MaxPatterns   \* bound on the patterns of one configuration

(* What a configuration is; assumed by the modules that read one. *)
BuildConstants ==
  /\ NumRoutes \in Nat
  /\ RouteId = 0 .. NumRoutes - 1 /\ NoRoute \notin RouteId
  /\ MaxPatterns \in Nat
  /\ Names \subseteq Domain
  /\ \A p \in Pattern : \/ p.kind \in {"exact", "wildcard", "suffix"} /\ p.key \in Domain
                        \/ p.kind \in {"regex", "inline"}
  /\ \A n \in DOMAIN Regexes :
       Regexes[n].lang \subseteq Domain /\ Regexes[n].scope \subseteq ScopePattern

VARIABLES
  tbl,      \* the table built so far
  route,    \* the id of the route whose patterns are being read
  declared, \* the patterns read so far, each with the route that declared it
  taken,    \* how many patterns have been read
  status    \* "idle", "building", "serving", "rejected" or "built"

vars == <<tbl, route, declared, taken, status>>

Empty == [d \in {} |-> NoRoute]
EmptyTable == [exact |-> Empty, wildcard |-> Empty, suffix |-> Empty,
               regex |-> << >>, default |-> NoRoute]

Init ==
  tbl = EmptyTable /\ route = 0 /\ declared = {} /\ taken = 0 /\ status = "idle"

Begin == status = "idle" /\ status' = "building" /\ UNCHANGED <<tbl, route, declared, taken>>

Put(map, k, v) == [d \in DOMAIN map \cup {k} |-> IF d = k THEN v ELSE map[d]]

(* Mutant: a repeated key silently replaces the earlier route. *)
InsertLastWins(p) ==
  tbl' = [tbl EXCEPT ![p.kind] = Put(@, p.key, route)] /\ UNCHANGED status

(* insert_unique: a key already in the tier rejects the configuration. *)
InsertUnique(p) ==
  IF p.key \in DOMAIN tbl[p.kind]
  THEN status' = "rejected" /\ UNCHANGED tbl
  ELSE tbl' = [tbl EXCEPT ![p.kind] = Put(@, p.key, route)] /\ UNCHANGED status

(* An "@name" pattern appends a regex route; an undeclared name rejects.   *)
AddRegex(p) ==
  IF p.key \in DOMAIN Regexes
  THEN /\ tbl' = [tbl EXCEPT !.regex = Append(@, [route |-> route,
                                                  lang  |-> Regexes[p.key].lang,
                                                  scope |-> Regexes[p.key].scope])]
       /\ UNCHANGED status
  ELSE status' = "rejected" /\ UNCHANGED tbl

ReadPattern(p) ==
  /\ status = "building" /\ route < NumRoutes /\ taken < MaxPatterns
  /\ taken' = taken + 1
  /\ declared' = declared \cup {[route |-> route, pat |-> p]}
  /\ \/ p.kind \in {"exact", "wildcard", "suffix"} /\ InsertUnique(p)
     \/ p.kind = "regex" /\ AddRegex(p)
     \/ p.kind = "inline" /\ status' = "rejected" /\ UNCHANGED tbl
  /\ UNCHANGED route

NextRoute ==
  /\ status = "building" /\ route < NumRoutes
  /\ route' = route + 1
  /\ UNCHANGED <<tbl, declared, taken, status>>

Finish(default) ==
  /\ status = "building" /\ route = NumRoutes
  /\ tbl' = [tbl EXCEPT !.default = default]
  /\ status' = "serving"
  /\ UNCHANGED <<route, declared, taken>>

Build ==
  \/ \E p \in Pattern : ReadPattern(p)
  \/ NextRoute
  \/ \E d \in RouteId \cup {NoRoute} : Finish(d)

(* The rest of the start has no use for the table. *)
Forget ==
  /\ status = "serving" /\ status' = "built"
  /\ tbl' = EmptyTable /\ route' = 0 /\ declared' = {} /\ taken' = 0

Next == Begin \/ Build \/ Forget

Spec == Init /\ [][Next]_vars

----------------------------------------------------------------------------
Status == {"idle", "building", "serving", "rejected", "built"}

(* Every variable has its type, and every table that add_route leaves is   *)
(* one match_host can read: IsTable.                                       *)
TypeOK ==
  /\ IsTable(tbl)
  /\ declared \subseteq [route : RouteId, pat : Pattern]
  /\ route \in 0 .. NumRoutes
  /\ taken \in 0 .. MaxPatterns
  /\ status \in Status

(* wildcard_confined is sound: when it accepts *.P for a certificate scope *)
(* (any set of routes), every host L.P the wildcard covers is routed into  *)
(* that scope, whatever tier decides it -- provided the regexes match only *)
(* inside their declared scope_suffix.                                     *)
WildcardConfinedSound ==
  status = "serving" /\ HonestTable(tbl) =>
    \A parent \in Names, inScope \in SUBSET RouteId :
      WildcardConfined(tbl, parent, inScope) =>
        \A h \in Names : OneLabelAbove(h, parent) => MatchHost(tbl, h) \in inScope

(* Routing depends on the configuration only, not on the order in which a  *)
(* route lists its patterns -- which the fingerprint forgets by sorting    *)
(* them: the route of every host is that of the most specific pattern      *)
(* declared for it (exact over wildcard over the longest suffix over the   *)
(* first route with a matching regex), else the default route.             *)
Tier(p) == CASE p.kind = "exact" -> 1 [] p.kind = "wildcard" -> 2
             [] p.kind = "suffix" -> 3 [] OTHER -> 4
PatternMatches(p, h) ==
  \/ p.kind = "exact" /\ h = p.key
  \/ p.kind = "wildcard" /\ OneLabelAbove(h, p.key)
  \/ p.kind = "suffix" /\ IsSuffixOfOrEqual(h, p.key)
  \/ p.kind = "regex" /\ h \in Regexes[p.key].lang
Beats(d, e) ==
  \/ Tier(d.pat) < Tier(e.pat)
  \/ d.pat.kind = "suffix" /\ e.pat.kind = "suffix" /\ Len(d.pat.key) > Len(e.pat.key)
  \/ d.pat.kind = "regex" /\ e.pat.kind = "regex" /\ d.route < e.route
RoutingFollowsConfiguration ==
  status = "serving" =>
    \A h \in Names :
      LET cands == {d \in declared : PatternMatches(d.pat, h)}
          best  == {d \in cands : \A e \in cands : ~Beats(e, d)}
      IN IF cands = {} THEN MatchHost(tbl, h) = tbl.default
         ELSE best # {} /\ \A d \in best : MatchHost(tbl, h) = d.route
=============================================================================
