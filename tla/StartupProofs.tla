---------------------------- MODULE StartupProofs ----------------------------
(***************************************************************************)
(* What the start of the gateway guarantees, stage by stage and for every   *)
(* configuration.  Every table Router::build finishes is well formed,      *)
(* routes each host as the configuration says, and has sound confinement;  *)
(* the probes start the gateway exactly when their demands are met; the    *)
(* resolvers are put in order unless they form a cycle.                    *)
(***************************************************************************)
EXTENDS Startup, FiniteSetTheorems, SequenceTheorems, TLAPS

(* The lemmas about routing tables are proved beside the issuer's, of which *)
(* nothing is asked here: there is no configuration, host, task or          *)
(* certificate.  What stands for no certificate need only differ from the   *)
(* certificates it could be mistaken for.                                   *)
Mistakable ==
  Nat \cup [names : SUBSET [kind : {"exact", "wildcard", "bad"}, dom : Seq(Label) \ {<< >>}],
            basis : {0}]
Absent == CHOOSE x : x \notin Mistakable
RP == INSTANCE CertMirrorProofs WITH
        Target <- {}, Mintable <- {}, Listener <- {}, Configs <- {}, Host <- {}, Names <- {},
        Observation <- {}, Reflecting <- {}, Task <- {}, Serial <- {}, NoCert <- Absent, NoObs <- 0,
        MaxRestarts <- 0, MaxRotations <- 0, CrashAnywhere <- FALSE, WritesFail <- FALSE,
        MaxExpiries <- 0, conf <- 0, upstream <- 0, presented <- 0, cache <- 0, disk <- 0,
        lockgen <- 0, pc <- 0, job <- 0, cert <- 0, restarts <- 0, rotations <- 0

LEMMA Numbered == RouteId \subseteq Nat /\ NoRoute \notin RouteId
BY StartupAssumption DEF R!BuildConstants

(* No set holds everything. *)
LEMMA SomethingElse == ASSUME NEW T PROVE \E x : x \notin T
<1> DEFINE Russell == {y \in T : y \notin y}
<1>1. Russell \notin T
  OBVIOUS
<1> QED BY <1>1

LEMMA NothingAsked == RP!RouterAssumption /\ RP!ClipAssumption /\ RP!MirrorAssumption
<1>1. RP!RouterAssumption
  BY Numbered DEF RP!RouterAssumption
<1>2. RP!ClipAssumption
  BY DEF RP!ClipAssumption
<1>3. RP!MirrorAssumption
  <2>1. Absent \notin Mistakable
    <3>1. \E x : x \notin Mistakable
      BY SomethingElse
    <3> QED BY <3>1 DEF Absent
  <2>2. RP!Conf = {}
    BY DEF RP!Conf
  <2>3. Nat \cup [names : SUBSET RP!SAN, basis : {} \cup {0}] = Mistakable
    BY DEF RP!SAN, RP!Domain, Mistakable
  <2> QED BY <2>1, <2>2, <2>3 DEF RP!MirrorAssumption
<1> QED BY <1>1, <1>2, <1>3

(* What is proved of any table, in the words of this one. *)
LEMMA FirstSomeCases ==
  ASSUME NEW s, NEW n \in Nat, DOMAIN s = 1..n
  PROVE  \/ R!Hits(s) = {} /\ R!FirstSome(s) = NoRoute
         \/ \E i \in 1..n : /\ R!FirstSome(s) = s[i]
                            /\ s[i] # NoRoute
                            /\ \A j \in 1..n : j < i => s[j] = NoRoute
BY NothingAsked, RP!FirstSomeCases DEF R!FirstSome, RP!FirstSome, R!Hits, RP!Hits

LEMMA FirstOfFive ==
  ASSUME NEW a, NEW b, NEW c, NEW d, NEW e
  PROVE  R!FirstSome(<<a, b, c, d, e>>) =
           IF a # NoRoute THEN a ELSE IF b # NoRoute THEN b
           ELSE IF c # NoRoute THEN c ELSE IF d # NoRoute THEN d ELSE e
<1> DEFINE five == <<a, b, c, d, e>>
<1>1. \A s : R!FirstSome(s) = RP!FirstSome(s)
  BY DEF R!FirstSome, RP!FirstSome, R!Hits, RP!Hits
<1>2. R!FirstSome(five) = RP!FirstSome(five)
  BY <1>1
<1>3. RP!FirstSome(five) = IF a # NoRoute THEN a ELSE IF b # NoRoute THEN b
                           ELSE IF c # NoRoute THEN c ELSE IF d # NoRoute THEN d ELSE e
  BY NothingAsked, RP!FirstOfFive
<1> QED BY <1>2, <1>3

LEMMA TailFacts ==
  ASSUME NEW h \in R!Domain, NEW p \in R!Domain, R!OneLabelAbove(h, p)
  PROVE  /\ Len(h) = Len(p) + 1
         /\ Len(p) \in Nat \ {0}
BY NothingAsked, RP!TailFacts DEF R!Domain, RP!Domain, R!OneLabelAbove, RP!OneLabelAbove

LEMMA ConfinementSound ==
  ASSUME NEW t, R!IsTable(t), R!HonestTable(t),
         NEW p \in R!Domain, NEW scope \in SUBSET RouteId, R!WildcardConfined(t, p, scope),
         NEW h \in R!Domain, R!OneLabelAbove(h, p)
  PROVE  R!MatchHost(t, h) \in scope
<1>1. /\ \A m, d : R!Lookup(m, d) = RP!Lookup(m, d)
      /\ \A s : R!FirstSome(s) = RP!FirstSome(s)
      /\ \A g, i : R!Ancestor(g, i) = RP!Ancestor(g, i)
      /\ \A m, g : R!SuffixWalk(m, g) = RP!SuffixWalk(m, g)
      /\ \A k, q : R!OneLabelAbove(k, q) <=> RP!OneLabelAbove(k, q)
      /\ \A k, q : R!IsSuffixOfOrEqual(k, q) <=> RP!IsSuffixOfOrEqual(k, q)
      /\ R!Domain = RP!Domain
  BY DEF R!Lookup, RP!Lookup, R!FirstSome, RP!FirstSome, R!Hits, RP!Hits, R!Ancestor, RP!Ancestor,
         R!SuffixWalk, RP!SuffixWalk, R!OneLabelAbove, RP!OneLabelAbove, R!IsSuffixOfOrEqual,
         RP!IsSuffixOfOrEqual, R!Domain, RP!Domain
<1>2. \A g : R!MatchHost(t, g) = RP!MatchHost(t, g)
  BY <1>1 DEF R!MatchHost, RP!MatchHost, R!WildcardTier, RP!WildcardTier, R!RegexTier, RP!RegexTier
<1>3. RP!IsTable(t)
  BY <1>1 DEF R!IsTable, RP!IsTable, R!IsMap, RP!IsMap, R!RegexRoute, RP!RegexRoute,
              R!ScopePattern, RP!ScopePattern
<1>4. RP!HonestTable(t)
  BY <1>1 DEF R!HonestTable, RP!HonestTable, R!RegexHonest, RP!RegexHonest, R!ScopeCovers,
              RP!ScopeCovers
<1>5. RP!WildcardConfined(t, p, scope)
  <2>1. R!Named(t, p) = RP!Named(t, p) /\ R!Generic(t, p) = RP!Generic(t, p)
    BY <1>1 DEF R!Named, RP!Named, R!Generic, RP!Generic
  <2>2. R!RegexOverlap(t, p, scope) <=> RP!RegexOverlap(t, p, scope)
    BY <1>1 DEF R!RegexOverlap, RP!RegexOverlap, R!MatchScopePattern, RP!MatchScopePattern
  <2> QED BY <1>2, <2>1, <2>2 DEF R!WildcardConfined, RP!WildcardConfined, R!WildcardVerdict,
                                  RP!WildcardVerdict
<1>6. p \in RP!Domain /\ h \in RP!Domain /\ RP!OneLabelAbove(h, p)
  BY <1>1
<1>7. RP!MatchHost(t, h) \in scope
  BY NothingAsked, <1>3, <1>4, <1>5, <1>6, RP!ConfinementSound
<1> QED BY <1>2, <1>7

-----------------------------------------------------------------------------
(* Router::build. *)

LEMMA EmptyIsMap == R!IsMap(R!Empty)
BY DEF R!Empty, R!IsMap

LEMMA PutIsMap ==
  ASSUME NEW m, R!IsMap(m), NEW d \in R!Domain, NEW r \in RouteId
  PROVE  R!IsMap(R!Put(m, d, r))
BY DEF R!IsMap, R!Put

LEMMA InsertKeepsType ==
  ASSUME R!BuildConstants, R!TypeOK, NEW p \in Pattern, p.kind \in {"exact", "wildcard", "suffix"},
         route \in RouteId, R!InsertUnique(p)
  PROVE  R!IsTable(tbl') /\ status' \in R!Status
<1>1. p.key \in R!Domain
  BY DEF R!BuildConstants
<1>2. CASE p.key \in DOMAIN tbl[p.kind]
  BY <1>2 DEF R!InsertUnique, R!TypeOK, R!Status
<1>3. CASE p.key \notin DOMAIN tbl[p.kind]
  <2> DEFINE new == R!Put(tbl[p.kind], p.key, route)
  <2>1. tbl' = [tbl EXCEPT ![p.kind] = new] /\ status' = status
    BY <1>3 DEF R!InsertUnique
  <2>2. R!IsMap(tbl[p.kind])
    BY DEF R!TypeOK, R!IsTable
  <2>3. R!IsMap(new)
    BY <1>1, <2>2, PutIsMap
  <2> HIDE DEF new
  <2>4. /\ tbl = [exact |-> tbl.exact, wildcard |-> tbl.wildcard, suffix |-> tbl.suffix,
                  regex |-> tbl.regex, default |-> tbl.default]
        /\ R!IsMap(tbl.exact) /\ R!IsMap(tbl.wildcard) /\ R!IsMap(tbl.suffix)
        /\ tbl.regex \in Seq(R!RegexRoute) /\ tbl.default \in RouteId \cup {NoRoute}
    BY DEF R!TypeOK, R!IsTable
  <2>5. CASE p.kind = "exact"
    <3>1. tbl' = [exact |-> new, wildcard |-> tbl.wildcard, suffix |-> tbl.suffix,
                  regex |-> tbl.regex, default |-> tbl.default]
      BY <2>1, <2>4, <2>5
    <3> QED BY <2>1, <2>3, <2>4, <3>1 DEF R!IsTable, R!TypeOK
  <2>6. CASE p.kind = "wildcard"
    <3>1. tbl' = [exact |-> tbl.exact, wildcard |-> new, suffix |-> tbl.suffix,
                  regex |-> tbl.regex, default |-> tbl.default]
      BY <2>1, <2>4, <2>6
    <3> QED BY <2>1, <2>3, <2>4, <3>1 DEF R!IsTable, R!TypeOK
  <2>7. CASE p.kind = "suffix"
    <3>1. tbl' = [exact |-> tbl.exact, wildcard |-> tbl.wildcard, suffix |-> new,
                  regex |-> tbl.regex, default |-> tbl.default]
      BY <2>1, <2>4, <2>7
    <3> QED BY <2>1, <2>3, <2>4, <3>1 DEF R!IsTable, R!TypeOK
  <2> QED BY <2>5, <2>6, <2>7
<1> QED BY <1>2, <1>3

LEMMA AddRegexKeepsType ==
  ASSUME R!BuildConstants, R!TypeOK, NEW p \in Pattern, route \in RouteId, R!AddRegex(p)
  PROVE  R!IsTable(tbl') /\ status' \in R!Status
<1>1. CASE p.key \in DOMAIN Regexes
  <2> DEFINE r == [route |-> route, lang |-> Regexes[p.key].lang, scope |-> Regexes[p.key].scope]
  <2>1. r \in R!RegexRoute
    BY <1>1 DEF R!BuildConstants, R!RegexRoute
  <2> HIDE DEF r
  <2>2. Append(tbl.regex, r) \in Seq(R!RegexRoute)
    BY <2>1 DEF R!TypeOK, R!IsTable
  <2>3. tbl' = [tbl EXCEPT !.regex = Append(tbl.regex, r)] /\ status' = status
    BY <1>1 DEF R!AddRegex, r
  <2> DEFINE rs == Append(tbl.regex, r)
  <2> HIDE DEF rs
  <2>4. tbl' = [exact |-> tbl.exact, wildcard |-> tbl.wildcard, suffix |-> tbl.suffix,
                regex |-> rs, default |-> tbl.default]
    BY <2>3 DEF R!TypeOK, R!IsTable, rs
  <2>5. rs \in Seq(R!RegexRoute)
    BY <2>2 DEF rs
  <2>6. /\ R!IsMap(tbl.exact) /\ R!IsMap(tbl.wildcard) /\ R!IsMap(tbl.suffix)
        /\ tbl.default \in RouteId \cup {NoRoute} /\ status' \in R!Status
    BY <2>3 DEF R!TypeOK, R!IsTable
  <2> QED BY <2>4, <2>5, <2>6 DEF R!IsTable
<1>2. CASE p.key \notin DOMAIN Regexes
  BY <1>2 DEF R!AddRegex, R!TypeOK, R!Status
<1> QED BY <1>1, <1>2

(* Building never leaves the table ill-formed, whatever the configuration  *)
(* says and in whatever order its patterns come.                           *)
THEOREM BuildTypeCorrect == R!Spec => []R!TypeOK
<1> USE StartupAssumption
<1>1. R!Init => R!TypeOK
  BY EmptyIsMap DEF R!BuildConstants, R!Init, R!TypeOK, R!Status, R!EmptyTable, R!IsTable
<1>2. R!TypeOK /\ [R!Next]_(R!vars) => R!TypeOK'
  <2> SUFFICES ASSUME R!TypeOK, [R!Next]_(R!vars) PROVE R!TypeOK'
    OBVIOUS
  <2>1. ASSUME NEW p \in Pattern, R!ReadPattern(p) PROVE R!TypeOK'
    <3>1. route \in RouteId /\ taken' \in 0 .. MaxPatterns /\ route' = route
      BY <2>1 DEF R!BuildConstants, R!ReadPattern, R!TypeOK
    <3>2. declared' \subseteq [route : RouteId, pat : Pattern]
      BY <2>1, <3>1 DEF R!ReadPattern, R!TypeOK
    <3>3. R!IsTable(tbl') /\ status' \in R!Status
      <4>1. CASE p.kind \in {"exact", "wildcard", "suffix"} /\ R!InsertUnique(p)
        BY <3>1, <4>1, InsertKeepsType
      <4>2. CASE p.kind = "regex" /\ R!AddRegex(p)
        BY <3>1, <4>2, AddRegexKeepsType
      <4>3. CASE p.kind = "inline" /\ status' = "rejected" /\ UNCHANGED tbl
        BY <4>3 DEF R!TypeOK, R!Status
      <4> QED BY <2>1, <4>1, <4>2, <4>3 DEF R!ReadPattern
    <3> QED BY <3>1, <3>2, <3>3 DEF R!TypeOK
  <2>2. ASSUME R!NextRoute PROVE R!TypeOK'
    BY <2>2 DEF R!BuildConstants, R!NextRoute, R!TypeOK
  <2>3. ASSUME NEW d \in RouteId \cup {NoRoute}, R!Finish(d) PROVE R!TypeOK'
    <3>1. tbl' = [exact |-> tbl.exact, wildcard |-> tbl.wildcard, suffix |-> tbl.suffix,
                  regex |-> tbl.regex, default |-> d]
      BY <2>3 DEF R!Finish, R!TypeOK, R!IsTable
    <3> QED BY <2>3, <3>1 DEF R!Finish, R!TypeOK, R!IsTable, R!Status
  <2>5. CASE R!Begin
    BY <2>5 DEF R!Begin, R!TypeOK, R!Status
  <2>6. CASE R!Forget
    <3>1. /\ tbl' = R!EmptyTable /\ route' = 0 /\ declared' = {} /\ taken' = 0
          /\ status' = "built"
      BY <2>6 DEF R!Forget
    <3> QED BY <3>1, EmptyIsMap DEF R!BuildConstants, R!TypeOK, R!Status, R!EmptyTable, R!IsTable
  <2>4. CASE UNCHANGED R!vars
    BY <2>4 DEF R!vars, R!TypeOK
  <2> QED BY <2>1, <2>2, <2>3, <2>4, <2>5, <2>6 DEF R!Next, R!Build
<1> QED BY <1>1, <1>2, PTL DEF R!Spec

(* Whatever configuration was read, a wildcard that wildcard_confined      *)
(* accepts covers only hosts that match_host routes into the scope.        *)
THEOREM BuildConfinementSound == R!Spec => []R!WildcardConfinedSound
<1> USE StartupAssumption
<1>1. R!TypeOK => R!WildcardConfinedSound
  BY ConfinementSound DEF R!BuildConstants, R!TypeOK, R!WildcardConfinedSound
<1> QED BY <1>1, BuildTypeCorrect, PTL

----------------------------------------------------------------------------
(* Which pattern a host is routed by.                                      *)
Keyed == {"exact", "wildcard", "suffix"}

KeysDeclared(kind) ==
  \A k \in DOMAIN tbl[kind] : \E d \in declared : d.pat.kind = kind /\ d.pat.key = k
DeclaredKeyed(kind) ==
  \A d \in declared : d.pat.kind = kind =>
    d.pat.key \in DOMAIN tbl[kind] /\ tbl[kind][d.pat.key] = d.route

(* The regex routes are the declared regexes, in the order of the routes. *)
RegexesDeclared ==
  \A i \in DOMAIN tbl.regex : \E d \in declared :
    /\ d.pat.kind = "regex" /\ d.route = tbl.regex[i].route
    /\ Regexes[d.pat.key].lang = tbl.regex[i].lang
DeclaredRegexes ==
  \A d \in declared : d.pat.kind = "regex" =>
    \E i \in DOMAIN tbl.regex : /\ tbl.regex[i].route = d.route
                                /\ tbl.regex[i].lang = Regexes[d.pat.key].lang
RegexesInOrder ==
  \A i \in DOMAIN tbl.regex :
    /\ tbl.regex[i].route <= route
    /\ \A j \in DOMAIN tbl.regex : i <= j => tbl.regex[i].route <= tbl.regex[j].route

(* The table says what was declared, and nothing else, until a pattern is  *)
(* rejected.                                                               *)
Faithful ==
  status # "rejected" =>
    /\ \A d \in declared : d.pat.kind \in Keyed \cup {"regex"}
    /\ \A kind \in Keyed : KeysDeclared(kind) /\ DeclaredKeyed(kind)
    /\ RegexesDeclared /\ DeclaredRegexes /\ RegexesInOrder

(* A pattern of a keyed tier changes that tier and no other. *)
LEMMA InsertSets ==
  ASSUME R!TypeOK, NEW p \in Pattern, p.kind \in Keyed, R!InsertUnique(p), status' # "rejected",
         status # "rejected"
  PROVE  /\ p.key \notin DOMAIN tbl[p.kind]
         /\ tbl'.regex = tbl.regex
         /\ \A k \in Keyed : tbl'[k] = IF k = p.kind THEN R!Put(tbl[k], p.key, route) ELSE tbl[k]
<1> DEFINE new == R!Put(tbl[p.kind], p.key, route)
<1>1. p.key \notin DOMAIN tbl[p.kind] /\ tbl' = [tbl EXCEPT ![p.kind] = new]
  BY DEF R!InsertUnique
<1>2. DOMAIN tbl = {"exact", "wildcard", "suffix", "regex", "default"}
  BY DEF R!TypeOK, R!IsTable
<1> HIDE DEF new
<1>3. tbl'.regex = tbl.regex
  BY <1>1, <1>2 DEF Keyed
<1>4. ASSUME NEW k \in Keyed PROVE tbl'[k] = IF k = p.kind THEN new ELSE tbl[k]
  BY ONLY <1>1, <1>2, <1>4, p.kind \in Keyed DEF Keyed
<1> QED BY <1>1, <1>3, <1>4 DEF new

LEMMA BuildStaysFaithful ==
  ASSUME R!BuildConstants, R!TypeOK, Faithful, NEW p \in Pattern, R!ReadPattern(p)
  PROVE  Faithful'
<1> SUFFICES ASSUME status' # "rejected" PROVE Faithful'
  BY DEF Faithful
<1>1. status = "building" /\ status' = "building" /\ route' = route
  BY DEF R!ReadPattern, R!InsertUnique, R!AddRegex
<1>2. route \in Nat
  BY DEF R!BuildConstants, R!TypeOK
<1> DEFINE new == [route |-> route, pat |-> p]
<1>3. /\ declared' = declared \cup {new} /\ new.route = route /\ new.pat = p
  BY DEF R!ReadPattern
<1>4. /\ \A d \in declared : d.pat.kind \in Keyed \cup {"regex"}
      /\ \A kind \in Keyed : KeysDeclared(kind) /\ DeclaredKeyed(kind)
      /\ RegexesDeclared /\ DeclaredRegexes /\ RegexesInOrder
  BY <1>1 DEF Faithful
<1> HIDE DEF new
<1>5. CASE p.kind \in Keyed /\ R!InsertUnique(p)
  <2>1. /\ p.key \notin DOMAIN tbl[p.kind]
        /\ tbl'.regex = tbl.regex
        /\ \A k \in Keyed : tbl'[k] = IF k = p.kind THEN R!Put(tbl[k], p.key, route) ELSE tbl[k]
    BY <1>1, <1>5, InsertSets
  <2>2. p.kind # "regex"
    BY <1>5 DEF Keyed
  <2>3. ASSUME NEW kind \in Keyed PROVE KeysDeclared(kind)'
    <3>1. CASE kind = p.kind
      <4>1. DOMAIN tbl'[kind] = DOMAIN tbl[kind] \cup {p.key}
        BY <2>1, <2>3, <3>1 DEF R!Put
      <4> QED BY <1>3, <1>4, <2>3, <3>1, <4>1 DEF KeysDeclared
    <3>2. CASE kind # p.kind
      BY <1>3, <1>4, <2>1, <2>3, <3>2 DEF KeysDeclared
    <3> QED BY <3>1, <3>2
  <2>4. ASSUME NEW kind \in Keyed PROVE DeclaredKeyed(kind)'
    <3>1. CASE kind = p.kind
      <4>1. /\ DOMAIN tbl'[kind] = DOMAIN tbl[kind] \cup {p.key} /\ tbl'[kind][p.key] = route
            /\ \A d \in DOMAIN tbl[kind] : tbl'[kind][d] = tbl[kind][d]
        BY <2>1, <2>4, <3>1 DEF R!Put
      <4>2. ASSUME NEW d \in declared', d.pat.kind = kind
            PROVE  d.pat.key \in DOMAIN tbl'[kind] /\ tbl'[kind][d.pat.key] = d.route
        <5>1. CASE d \in declared
          BY <1>4, <2>4, <4>1, <4>2, <5>1 DEF DeclaredKeyed
        <5>2. CASE d = new
          BY <1>3, <4>1, <5>2
        <5> QED BY <1>3, <5>1, <5>2
      <4> QED BY <4>2 DEF DeclaredKeyed
    <3>2. CASE kind # p.kind
      <4>1. tbl'[kind] = tbl[kind]
        BY <2>1, <2>4, <3>2
      <4> QED BY <1>3, <1>4, <2>4, <3>2, <4>1 DEF DeclaredKeyed
    <3> QED BY <3>1, <3>2
  <2>5. RegexesDeclared'
    BY <1>3, <1>4, <2>1 DEF RegexesDeclared
  <2>6. DeclaredRegexes'
    BY <1>3, <1>4, <2>1, <2>2 DEF DeclaredRegexes
  <2>7. RegexesInOrder'
    BY <1>1, <1>4, <2>1 DEF RegexesInOrder
  <2>8. \A d \in declared' : d.pat.kind \in Keyed \cup {"regex"}
    BY <1>3, <1>4, <1>5
  <2> QED BY <2>3, <2>4, <2>5, <2>6, <2>7, <2>8 DEF Faithful
<1>6. CASE p.kind = "regex" /\ R!AddRegex(p)
  <2> DEFINE r == [route |-> route, lang |-> Regexes[p.key].lang, scope |-> Regexes[p.key].scope]
  <2>1. p.key \in DOMAIN Regexes /\ tbl' = [tbl EXCEPT !.regex = Append(tbl.regex, r)]
    BY <1>1, <1>6 DEF R!AddRegex
  <2>2. DOMAIN tbl = {"exact", "wildcard", "suffix", "regex", "default"}
    BY DEF R!TypeOK, R!IsTable
  <2>3. r.route = route /\ r.lang = Regexes[p.key].lang
    OBVIOUS
  <2> HIDE DEF r
  <2>4. \A k \in Keyed : tbl'[k] = tbl[k]
    BY <2>1, <2>2 DEF Keyed
  <2>5. tbl'.regex = Append(tbl.regex, r)
    BY <2>1, <2>2
  <2>6. Len(tbl.regex) \in Nat /\ DOMAIN tbl.regex = 1..Len(tbl.regex)
    BY LenProperties DEF R!TypeOK, R!IsTable
  <2> DEFINE n == Len(tbl.regex)
  <2>7. /\ DOMAIN tbl'.regex = 1..(n + 1) /\ tbl'.regex[n + 1] = r
        /\ \A i \in 1..n : tbl'.regex[i] = tbl.regex[i]
    <3>1. tbl.regex \in Seq(R!RegexRoute)
      BY DEF R!TypeOK, R!IsTable
    <3>2. Append(tbl.regex, r) = [i \in 1..(n + 1) |-> IF i = n + 1 THEN r ELSE tbl.regex[i]]
      BY <3>1, SMT
    <3> QED BY <2>5, <2>6, <3>2
  <2> HIDE DEF n
  <2>8. n \in Nat /\ DOMAIN tbl.regex = 1..n
    BY <2>6 DEF n
  <2>9. ASSUME NEW kind \in Keyed PROVE KeysDeclared(kind)' /\ DeclaredKeyed(kind)'
    <3>1. tbl'[kind] = tbl[kind] /\ kind # "regex"
      BY <2>4, <2>9 DEF Keyed
    <3>2. KeysDeclared(kind)'
      BY <1>3, <1>4, <2>9, <3>1 DEF KeysDeclared
    <3>3. DeclaredKeyed(kind)'
      BY <1>3, <1>4, <1>6, <2>9, <3>1 DEF DeclaredKeyed
    <3> QED BY <3>2, <3>3
  <2>10. RegexesDeclared'
    <3> SUFFICES ASSUME NEW i \in DOMAIN tbl'.regex
                 PROVE  \E d \in declared' :
                          /\ d.pat.kind = "regex" /\ d.route = tbl'.regex[i].route
                          /\ Regexes[d.pat.key].lang = tbl'.regex[i].lang
      BY DEF RegexesDeclared
    <3>1. CASE i \in 1..n
      BY <1>3, <1>4, <2>7, <2>8, <3>1 DEF RegexesDeclared
    <3>2. CASE i = n + 1
      BY <1>3, <1>6, <2>3, <2>7, <3>2
    <3> QED BY <2>7, <2>8, <3>1, <3>2
  <2>11. DeclaredRegexes'
    <3> SUFFICES ASSUME NEW d \in declared', d.pat.kind = "regex"
                 PROVE  \E i \in DOMAIN tbl'.regex :
                          /\ tbl'.regex[i].route = d.route
                          /\ tbl'.regex[i].lang = Regexes[d.pat.key].lang
      BY DEF DeclaredRegexes
    <3>1. CASE d \in declared
      <4>1. PICK i \in 1..n : /\ tbl.regex[i].route = d.route
                              /\ tbl.regex[i].lang = Regexes[d.pat.key].lang
        BY <1>4, <2>8, <3>1 DEF DeclaredRegexes
      <4>2. i \in 1..(n + 1) /\ tbl'.regex[i] = tbl.regex[i]
        BY <2>7, <2>8
      <4> QED BY <2>7, <4>1, <4>2
    <3>2. CASE d = new
      BY <1>3, <2>3, <2>7, <2>8, <3>2
    <3> QED BY <1>3, <3>1, <3>2
  <2>12. RegexesInOrder'
    <3> SUFFICES ASSUME NEW i \in 1..(n + 1)
                 PROVE  /\ tbl'.regex[i].route <= route
                        /\ \A j \in 1..(n + 1) : i <= j => tbl'.regex[i].route <= tbl'.regex[j].route
      BY <1>1, <2>7 DEF RegexesInOrder
    <3>1. \A k \in 1..n : /\ tbl'.regex[k].route = tbl.regex[k].route
                          /\ tbl.regex[k].route <= route
                          /\ \A j \in 1..n : k <= j => tbl.regex[k].route <= tbl.regex[j].route
      BY <1>4, <2>7, <2>8 DEF RegexesInOrder
    <3>2. tbl'.regex[n + 1].route = route
      BY <2>3, <2>7
    <3> QED BY <1>2, <2>8, <3>1, <3>2
  <2>13. \A d \in declared' : d.pat.kind \in Keyed \cup {"regex"}
    BY <1>3, <1>4, <1>6
  <2> QED BY <2>9, <2>10, <2>11, <2>12, <2>13 DEF Faithful
<1> QED BY <1>5, <1>6 DEF R!ReadPattern, Keyed

LEMMA AlwaysFaithful == R!Spec => []Faithful
<1> USE StartupAssumption
<1>1. R!Init => Faithful
  BY DEF R!Init, Faithful, R!EmptyTable, R!Empty, Keyed, KeysDeclared, DeclaredKeyed, RegexesDeclared,
         DeclaredRegexes, RegexesInOrder
<1>2. R!TypeOK /\ Faithful /\ [R!Next]_(R!vars) => Faithful'
  <2> SUFFICES ASSUME R!TypeOK, Faithful, [R!Next]_(R!vars) PROVE Faithful'
    OBVIOUS
  <2>1. ASSUME NEW p \in Pattern, R!ReadPattern(p) PROVE Faithful'
    BY <2>1, BuildStaysFaithful
  <2>2. ASSUME R!NextRoute PROVE Faithful'
    <3>1. /\ \A kind \in Keyed : KeysDeclared(kind)' /\ DeclaredKeyed(kind)'
          /\ RegexesDeclared' /\ DeclaredRegexes'
          /\ \A d \in declared' : d.pat.kind \in Keyed \cup {"regex"}
      BY <2>2 DEF R!NextRoute, Faithful, KeysDeclared, DeclaredKeyed, RegexesDeclared, DeclaredRegexes
    <3>2. RegexesInOrder'
      <4>1. route \in Nat /\ route' = route + 1 /\ tbl' = tbl /\ RegexesInOrder
        BY <2>2 DEF R!NextRoute, R!TypeOK, R!BuildConstants, Faithful
      <4>2. \A i \in DOMAIN tbl.regex : tbl.regex[i].route \in Nat
        <5>1. \A i \in DOMAIN tbl.regex : tbl.regex[i] \in R!RegexRoute
          BY DEF R!TypeOK, R!IsTable
        <5> QED BY <5>1 DEF R!RegexRoute, R!BuildConstants
      <4> QED BY <4>1, <4>2 DEF RegexesInOrder
    <3> QED BY <3>1, <3>2 DEF Faithful
  <2>3. ASSUME NEW d \in RouteId \cup {NoRoute}, R!Finish(d) PROVE Faithful'
    <3>1. DOMAIN tbl = {"exact", "wildcard", "suffix", "regex", "default"}
      BY DEF R!TypeOK, R!IsTable
    <3>2. /\ tbl'.regex = tbl.regex /\ \A k \in Keyed : tbl'[k] = tbl[k]
          /\ declared' = declared /\ route' = route /\ status = "building"
      BY <2>3, <3>1 DEF R!Finish, Keyed
    <3>3. \A kind \in Keyed : KeysDeclared(kind)' /\ DeclaredKeyed(kind)'
      BY <3>2 DEF Faithful, KeysDeclared, DeclaredKeyed
    <3>4. /\ RegexesDeclared' /\ DeclaredRegexes' /\ RegexesInOrder'
          /\ \A e \in declared' : e.pat.kind \in Keyed \cup {"regex"}
      BY <3>2 DEF Faithful, RegexesDeclared, DeclaredRegexes, RegexesInOrder
    <3> QED BY <3>3, <3>4 DEF Faithful
  <2>4. CASE R!Forget
    BY <2>4 DEF R!Forget, Faithful, R!EmptyTable, R!Empty, Keyed, KeysDeclared, DeclaredKeyed,
                RegexesDeclared, DeclaredRegexes, RegexesInOrder
  <2>5. CASE R!Begin \/ UNCHANGED R!vars
    <3>1. /\ tbl' = tbl /\ declared' = declared /\ route' = route
          /\ status' # "rejected" => status # "rejected"
      BY <2>5 DEF R!Begin, R!vars
    <3> QED BY <3>1 DEF Faithful, KeysDeclared, DeclaredKeyed, RegexesDeclared, DeclaredRegexes,
                        RegexesInOrder
  <2> QED BY <2>1, <2>2, <2>3, <2>4, <2>5 DEF R!Next, R!Build
<1> QED BY <1>1, <1>2, BuildTypeCorrect, PTL DEF R!Spec

(* Where the suffix walk and the regex tier stop. *)
LEMMA WalkStops ==
  ASSUME NEW m, R!IsMap(m), NEW h \in R!Domain
  PROVE  \/ R!SuffixWalk(m, h) = NoRoute /\ \A i \in 1..Len(h) : R!Ancestor(h, i) \notin DOMAIN m
         \/ \E i \in 1..Len(h) :
              /\ R!Ancestor(h, i) \in DOMAIN m /\ R!SuffixWalk(m, h) = m[R!Ancestor(h, i)]
              /\ \A j \in 1..Len(h) : j < i => R!Ancestor(h, j) \notin DOMAIN m
<1> DEFINE w == [i \in 1..Len(h) |-> R!Lookup(m, R!Ancestor(h, i))]
<1>1. Len(h) \in Nat
  BY LenProperties DEF R!Domain
<1>2. DOMAIN w = 1..Len(h) /\ R!SuffixWalk(m, h) = R!FirstSome(w)
  BY DEF R!SuffixWalk
<1>3. \A i \in 1..Len(h) : w[i] = IF R!Ancestor(h, i) \in DOMAIN m THEN m[R!Ancestor(h, i)] ELSE NoRoute
  BY DEF R!Lookup
<1>4. \A d \in DOMAIN m : m[d] # NoRoute
  BY Numbered DEF R!IsMap
<1> HIDE DEF w
<1>5. CASE R!Hits(w) = {} /\ R!FirstSome(w) = NoRoute
  <2>1. ASSUME NEW i \in 1..Len(h) PROVE R!Ancestor(h, i) \notin DOMAIN m
    BY <1>2, <1>3, <1>4, <1>5 DEF R!Hits
  <2> QED BY <1>2, <1>5, <2>1
<1>6. CASE \E i \in 1..Len(h) : /\ R!FirstSome(w) = w[i] /\ w[i] # NoRoute
                                /\ \A j \in 1..Len(h) : j < i => w[j] = NoRoute
  <2>1. PICK i \in 1..Len(h) : /\ R!FirstSome(w) = w[i] /\ w[i] # NoRoute
                               /\ \A j \in 1..Len(h) : j < i => w[j] = NoRoute
    BY <1>6
  <2>2. R!Ancestor(h, i) \in DOMAIN m /\ R!SuffixWalk(m, h) = m[R!Ancestor(h, i)]
    BY <1>2, <1>3, <2>1
  <2>3. \A j \in 1..Len(h) : j < i => R!Ancestor(h, j) \notin DOMAIN m
    BY <1>3, <1>4, <2>1
  <2> QED BY <2>2, <2>3
<1> QED BY <1>1, <1>2, <1>5, <1>6, FirstSomeCases

LEMMA RegexStops ==
  ASSUME NEW t, R!IsTable(t), NEW h \in R!Domain
  PROVE  \/ R!RegexTier(t, h) = NoRoute /\ \A i \in DOMAIN t.regex : h \notin t.regex[i].lang
         \/ \E i \in DOMAIN t.regex :
              /\ h \in t.regex[i].lang /\ R!RegexTier(t, h) = t.regex[i].route
              /\ t.regex[i].route \in RouteId
              /\ \A j \in DOMAIN t.regex : j < i => h \notin t.regex[j].lang
<1> DEFINE s == [i \in DOMAIN t.regex |->
                   IF h \in t.regex[i].lang THEN t.regex[i].route ELSE NoRoute]
<1>1. Len(t.regex) \in Nat /\ DOMAIN t.regex = 1..Len(t.regex)
  BY LenProperties DEF R!IsTable
<1>2. DOMAIN s = 1..Len(t.regex) /\ R!RegexTier(t, h) = R!FirstSome(s)
  BY <1>1 DEF R!RegexTier
<1>3. \A i \in DOMAIN t.regex : s[i] = IF h \in t.regex[i].lang THEN t.regex[i].route ELSE NoRoute
  OBVIOUS
<1>4. \A i \in DOMAIN t.regex : t.regex[i].route \in RouteId /\ t.regex[i].route # NoRoute
  <2>1. \A i \in DOMAIN t.regex : t.regex[i] \in R!RegexRoute
    BY DEF R!IsTable
  <2> QED BY <2>1, Numbered DEF R!RegexRoute
<1> HIDE DEF s
<1>5. CASE R!Hits(s) = {} /\ R!FirstSome(s) = NoRoute
  <2>1. ASSUME NEW i \in DOMAIN t.regex PROVE h \notin t.regex[i].lang
    BY <1>1, <1>2, <1>3, <1>4, <1>5 DEF R!Hits
  <2> QED BY <1>2, <1>5, <2>1
<1>6. CASE \E i \in 1..Len(t.regex) : /\ R!FirstSome(s) = s[i] /\ s[i] # NoRoute
                                      /\ \A j \in 1..Len(t.regex) : j < i => s[j] = NoRoute
  <2>1. PICK i \in 1..Len(t.regex) : /\ R!FirstSome(s) = s[i] /\ s[i] # NoRoute
                                     /\ \A j \in 1..Len(t.regex) : j < i => s[j] = NoRoute
    BY <1>6
  <2>2. h \in t.regex[i].lang /\ R!RegexTier(t, h) = t.regex[i].route
    BY <1>1, <1>2, <1>3, <2>1
  <2>3. \A j \in DOMAIN t.regex : j < i => h \notin t.regex[j].lang
    BY <1>1, <1>3, <1>4, <2>1
  <2> QED BY <1>1, <1>4, <2>2, <2>3
<1> QED BY <1>1, <1>2, <1>5, <1>6, FirstSomeCases

(* The ancestors of a name are as many as its labels, each one shorter. *)
LEMMA AncestorLen ==
  ASSUME NEW h \in R!Domain, NEW i \in 1..Len(h)
  PROVE  Len(R!Ancestor(h, i)) = Len(h) - i + 1
<1>1. h \in Seq(Label) /\ Len(h) \in Nat
  BY LenProperties DEF R!Domain
<1>2. SubSeq(h, i, Len(h)) = [k \in 1 .. (1 + Len(h) - i) |-> h[k + i - 1]]
  BY <1>1 DEF SubSeq
<1>3. 1 + Len(h) - i \in Nat /\ \A k \in 1 .. (1 + Len(h) - i) : h[k + i - 1] \in Label
  BY <1>1
<1>4. SubSeq(h, i, Len(h)) \in Seq(Label) /\ DOMAIN SubSeq(h, i, Len(h)) = 1 .. (1 + Len(h) - i)
  BY <1>2, <1>3
<1> HIDE DEF SubSeq
<1>5. Len(SubSeq(h, i, Len(h))) \in Nat /\ DOMAIN SubSeq(h, i, Len(h)) = 1 .. Len(SubSeq(h, i, Len(h)))
  BY <1>4, LenProperties
<1> QED BY ONLY <1>1, <1>3, <1>4, <1>5 DEF R!Ancestor

(* A candidate no other beats fixes the route, when every candidate that   *)
(* it does not beat has that route too.                                    *)
Routed(cands, r) ==
  LET best == {d \in cands : \A e \in cands : ~R!Beats(e, d)}
  IN cands # {} /\ best # {} /\ \A d \in best : r = d.route

LEMMA BestDecides ==
  ASSUME NEW cands, NEW d \in cands,
         \A e \in cands : ~R!Beats(e, d) /\ (R!Beats(d, e) \/ e.route = d.route)
  PROVE  Routed(cands, d.route)
<1> DEFINE best == {e \in cands : \A f \in cands : ~R!Beats(f, e)}
<1>1. d \in best
  OBVIOUS
<1>2. \A e \in best : d.route = e.route
  OBVIOUS
<1> QED BY <1>1, <1>2 DEF Routed

LEMMA FaithfulRouting ==
  ASSUME R!BuildConstants, R!TypeOK, Faithful, status = "serving"
  PROVE  R!RoutingFollowsConfiguration
<1> SUFFICES ASSUME NEW h \in Hosts
             PROVE  LET cands == {d \in declared : R!PatternMatches(d.pat, h)}
                    IN \/ cands = {} /\ R!MatchHost(tbl, h) = tbl.default
                       \/ Routed(cands, R!MatchHost(tbl, h))
  BY DEF R!RoutingFollowsConfiguration, Routed
<1> DEFINE cands == {d \in declared : R!PatternMatches(d.pat, h)}
           ex == R!Lookup(tbl.exact, h)
           wi == R!WildcardTier(tbl, h)
           su == R!SuffixWalk(tbl.suffix, h)
           re == R!RegexTier(tbl, h)
<1>1. h \in R!Domain /\ h # << >> /\ Len(h) \in Nat
  BY LenProperties DEF R!BuildConstants, R!Domain
<1>2. R!IsTable(tbl) /\ R!IsMap(tbl.exact) /\ R!IsMap(tbl.wildcard) /\ R!IsMap(tbl.suffix)
  BY DEF R!TypeOK, R!IsTable
<1>3. R!MatchHost(tbl, h) = IF ex # NoRoute THEN ex ELSE IF wi # NoRoute THEN wi
                          ELSE IF su # NoRoute THEN su ELSE IF re # NoRoute THEN re ELSE tbl.default
  <2>1. R!MatchHost(tbl, h) = R!FirstSome(<<ex, wi, su, re, tbl.default>>)
    BY <1>1 DEF R!MatchHost
  <2> HIDE DEF ex, wi, su, re
  <2> QED BY <2>1, FirstOfFive
<1>4. /\ \A d \in declared : d.pat.kind \in {"exact", "wildcard", "suffix", "regex"}
      /\ KeysDeclared("exact") /\ KeysDeclared("wildcard") /\ KeysDeclared("suffix")
      /\ DeclaredKeyed("exact") /\ DeclaredKeyed("wildcard") /\ DeclaredKeyed("suffix")
      /\ RegexesDeclared /\ DeclaredRegexes /\ RegexesInOrder
  BY DEF Faithful, Keyed
<1>5. \A d \in declared : d.pat.kind \in {"exact", "wildcard", "suffix"} => d.pat.key \in R!Domain
  BY DEF R!TypeOK, R!BuildConstants
<1>6. CASE ex # NoRoute
  <2>1. h \in DOMAIN tbl.exact /\ ex = tbl.exact[h]
    BY <1>6 DEF R!Lookup
  <2>2. PICK d \in declared : d.pat.kind = "exact" /\ d.pat.key = h
    BY <1>4, <2>1 DEF KeysDeclared
  <2>3. d.route = R!MatchHost(tbl, h)
    BY <1>3, <1>4, <1>6, <2>1, <2>2 DEF DeclaredKeyed
  <2>4. d \in cands
    BY <2>2 DEF R!PatternMatches
  <2>5. ASSUME NEW e \in cands PROVE ~R!Beats(e, d) /\ (R!Beats(d, e) \/ e.route = d.route)
    <3>1. CASE e.pat.kind = "exact"
      <4>1. e.pat.key = h
        BY <2>5, <3>1 DEF R!PatternMatches
      <4>2. e.route = d.route
        BY <1>4, <2>2, <2>5, <3>1, <4>1 DEF DeclaredKeyed
      <4> QED BY <2>2, <3>1, <4>2 DEF R!Beats, R!Tier
    <3>2. CASE e.pat.kind # "exact"
      BY <1>4, <2>2, <2>5, <3>2 DEF R!Beats, R!Tier
    <3> QED BY <3>1, <3>2
  <2> QED BY <2>3, <2>4, <2>5, BestDecides
<1>7. ex = NoRoute => \A e \in cands : e.pat.kind # "exact"
  <2> SUFFICES ASSUME ex = NoRoute, NEW e \in cands, e.pat.kind = "exact" PROVE FALSE
    OBVIOUS
  <2>1. h \in DOMAIN tbl.exact
    BY <1>4 DEF R!PatternMatches, DeclaredKeyed
  <2>2. tbl.exact[h] # NoRoute
    BY <1>2, <2>1, Numbered DEF R!IsMap
  <2> QED BY <2>1, <2>2 DEF R!Lookup
<1>8. CASE ex = NoRoute /\ wi # NoRoute
  <2>1. Len(h) > 1 /\ Tail(h) \in DOMAIN tbl.wildcard /\ wi = tbl.wildcard[Tail(h)]
    BY <1>8 DEF R!WildcardTier, R!Lookup
  <2>2. PICK d \in declared : d.pat.kind = "wildcard" /\ d.pat.key = Tail(h)
    BY <1>4, <2>1 DEF KeysDeclared
  <2>3. d.route = R!MatchHost(tbl, h)
    BY <1>3, <1>4, <1>8, <2>1, <2>2 DEF DeclaredKeyed
  <2>4. d \in cands
    BY <1>1, <2>2 DEF R!PatternMatches, R!OneLabelAbove
  <2>5. ASSUME NEW e \in cands PROVE ~R!Beats(e, d) /\ (R!Beats(d, e) \/ e.route = d.route)
    <3>1. CASE e.pat.kind = "wildcard"
      <4>1. e.pat.key = Tail(h)
        BY <2>5, <3>1 DEF R!PatternMatches, R!OneLabelAbove
      <4>2. e.route = d.route
        BY <1>4, <2>2, <2>5, <3>1, <4>1 DEF DeclaredKeyed
      <4> QED BY <2>2, <3>1, <4>2 DEF R!Beats, R!Tier
    <3>2. CASE e.pat.kind # "wildcard"
      BY <1>4, <1>7, <1>8, <2>2, <2>5, <3>2 DEF R!Beats, R!Tier
    <3> QED BY <3>1, <3>2
  <2> QED BY <2>3, <2>4, <2>5, BestDecides
<1>9. wi = NoRoute => \A e \in cands : e.pat.kind # "wildcard"
  <2> SUFFICES ASSUME wi = NoRoute, NEW e \in cands, e.pat.kind = "wildcard" PROVE FALSE
    OBVIOUS
  <2>1. Tail(h) = e.pat.key /\ e.pat.key \in R!Domain /\ R!OneLabelAbove(h, e.pat.key)
    BY <1>5 DEF R!PatternMatches, R!OneLabelAbove
  <2>2. Len(h) > 1
    BY <1>1, <2>1, TailFacts
  <2>3. Tail(h) \in DOMAIN tbl.wildcard
    BY <1>4, <2>1 DEF DeclaredKeyed
  <2>4. tbl.wildcard[Tail(h)] # NoRoute
    BY <1>2, <2>3, Numbered DEF R!IsMap
  <2> QED BY <2>2, <2>3, <2>4 DEF R!Lookup, R!WildcardTier
<1>10. CASE ex = NoRoute /\ wi = NoRoute /\ su # NoRoute
  <2>1. PICK i \in 1..Len(h) :
          /\ R!Ancestor(h, i) \in DOMAIN tbl.suffix /\ su = tbl.suffix[R!Ancestor(h, i)]
          /\ \A j \in 1..Len(h) : j < i => R!Ancestor(h, j) \notin DOMAIN tbl.suffix
    BY <1>1, <1>2, <1>10, WalkStops
  <2>2. PICK d \in declared : d.pat.kind = "suffix" /\ d.pat.key = R!Ancestor(h, i)
    BY <1>4, <2>1 DEF KeysDeclared
  <2>3. d.route = R!MatchHost(tbl, h)
    BY <1>3, <1>4, <1>10, <2>1, <2>2 DEF DeclaredKeyed
  <2>4. d \in cands
    BY <2>2 DEF R!PatternMatches, R!IsSuffixOfOrEqual
  <2>5. Len(d.pat.key) = Len(h) - i + 1
    BY <1>1, <2>2, AncestorLen
  <2>6. ASSUME NEW e \in cands PROVE ~R!Beats(e, d) /\ (R!Beats(d, e) \/ e.route = d.route)
    <3>1. CASE e.pat.kind = "suffix"
      <4>1. PICK j \in 1..Len(h) : R!Ancestor(h, j) = e.pat.key
        BY <2>6, <3>1 DEF R!PatternMatches, R!IsSuffixOfOrEqual
      <4>2. e.pat.key \in DOMAIN tbl.suffix /\ tbl.suffix[e.pat.key] = e.route
        BY <1>4, <2>6, <3>1 DEF DeclaredKeyed
      <4>3. ~(j < i)
        BY <2>1, <4>1, <4>2
      <4>4. Len(e.pat.key) = Len(h) - j + 1
        BY <1>1, <4>1, AncestorLen
      <4>5. CASE i = j
        <5>1. e.route = d.route
          BY <1>4, <2>2, <3>1, <4>1, <4>2, <4>5 DEF DeclaredKeyed
        <5>2. ~R!Beats(e, d)
          BY <1>1, <2>2, <2>5, <3>1, <4>4, <4>5 DEF R!Beats, R!Tier
        <5> QED BY <5>1, <5>2
      <4>6. CASE i < j
        <5>1. Len(d.pat.key) > Len(e.pat.key)
          BY <1>1, <2>5, <4>4, <4>6
        <5>2. ~(Len(e.pat.key) > Len(d.pat.key))
          BY <1>1, <2>5, <4>4, <4>6
        <5> QED BY <2>2, <3>1, <5>1, <5>2 DEF R!Beats, R!Tier
      <4> QED BY <1>1, <4>3, <4>5, <4>6
    <3>2. CASE e.pat.kind # "suffix"
      <4>1. e.pat.kind = "regex"
        BY <1>4, <1>7, <1>9, <1>10, <2>6, <3>2
      <4> QED BY <2>2, <4>1 DEF R!Beats, R!Tier
    <3> QED BY <3>1, <3>2
  <2> QED BY <2>3, <2>4, <2>6, BestDecides
<1>11. su = NoRoute => \A e \in cands : e.pat.kind # "suffix"
  <2> SUFFICES ASSUME su = NoRoute, NEW e \in cands, e.pat.kind = "suffix" PROVE FALSE
    OBVIOUS
  <2>1. PICK j \in 1..Len(h) : R!Ancestor(h, j) = e.pat.key
    BY DEF R!PatternMatches, R!IsSuffixOfOrEqual
  <2>2. R!Ancestor(h, j) \in DOMAIN tbl.suffix
    BY <1>4, <2>1 DEF DeclaredKeyed
  <2>3. \A i \in 1..Len(h) : R!Ancestor(h, i) \in DOMAIN tbl.suffix =>
          tbl.suffix[R!Ancestor(h, i)] # NoRoute
    BY <1>2, Numbered DEF R!IsMap
  <2> QED BY <1>1, <1>2, <2>2, <2>3, WalkStops
<1>12. CASE ex = NoRoute /\ wi = NoRoute /\ su = NoRoute /\ re # NoRoute
  <2>1. PICK i \in DOMAIN tbl.regex :
          /\ h \in tbl.regex[i].lang /\ re = tbl.regex[i].route
          /\ tbl.regex[i].route \in RouteId
          /\ \A j \in DOMAIN tbl.regex : j < i => h \notin tbl.regex[j].lang
    BY <1>1, <1>2, <1>12, RegexStops
  <2>2. PICK d \in declared : /\ d.pat.kind = "regex" /\ d.route = tbl.regex[i].route
                              /\ Regexes[d.pat.key].lang = tbl.regex[i].lang
    BY <1>4 DEF RegexesDeclared
  <2>3. d.route = R!MatchHost(tbl, h) /\ d.route \in Nat
    BY <1>3, <1>12, <2>1, <2>2, Numbered
  <2>4. d \in cands
    BY <2>1, <2>2 DEF R!PatternMatches
  <2>5. ASSUME NEW e \in cands PROVE ~R!Beats(e, d) /\ (R!Beats(d, e) \/ e.route = d.route)
    <3>1. e.pat.kind = "regex"
      BY <1>4, <1>7, <1>9, <1>11, <1>12, <2>5
    <3>2. h \in Regexes[e.pat.key].lang
      BY <2>5, <3>1 DEF R!PatternMatches
    <3>3. PICK j \in DOMAIN tbl.regex : /\ tbl.regex[j].route = e.route
                                        /\ tbl.regex[j].lang = Regexes[e.pat.key].lang
      BY <1>4, <2>5, <3>1 DEF DeclaredRegexes
    <3>4. i <= j
      <4>1. i \in Nat /\ j \in Nat
        BY <1>2, LenProperties DEF R!IsTable
      <4> QED BY <2>1, <3>2, <3>3, <4>1
    <3>5. d.route <= e.route /\ e.route \in Nat
      <4>1. e.route \in Nat
        BY <2>5, Numbered DEF R!TypeOK
      <4> QED BY <1>4, <2>2, <3>3, <3>4, <4>1 DEF RegexesInOrder
    <3>6. ~(e.route < d.route) /\ (d.route < e.route \/ e.route = d.route)
      BY <2>3, <3>5
    <3> QED BY <2>2, <3>1, <3>6 DEF R!Beats, R!Tier
  <2> QED BY <2>3, <2>4, <2>5, BestDecides
<1>13. CASE ex = NoRoute /\ wi = NoRoute /\ su = NoRoute /\ re = NoRoute
  <2>1. ASSUME NEW e \in cands PROVE FALSE
    <3>1. e.pat.kind = "regex" /\ h \in Regexes[e.pat.key].lang
      BY <1>4, <1>7, <1>9, <1>11, <1>13, <2>1 DEF R!PatternMatches
    <3>2. PICK j \in DOMAIN tbl.regex : h \in tbl.regex[j].lang
      BY <1>4, <2>1, <3>1 DEF DeclaredRegexes
    <3> QED BY <1>1, <1>2, <1>13, <3>2, Numbered, RegexStops
  <2> QED BY <1>3, <1>13, <2>1
<1> QED BY <1>6, <1>8, <1>10, <1>12, <1>13

(* Whatever the configuration and in whatever order it lists its patterns, *)
(* a listener sends every host where its most specific pattern says.       *)
THEOREM BuildFollowsConfiguration == R!Spec => []R!RoutingFollowsConfiguration
<1> USE StartupAssumption
<1>1. R!TypeOK /\ Faithful => R!RoutingFollowsConfiguration
  <2>1. CASE status = "serving"
    BY <2>1, FaithfulRouting
  <2>2. CASE status # "serving"
    BY <2>2 DEF R!RoutingFollowsConfiguration
  <2> QED BY <2>1, <2>2
<1> QED BY <1>1, BuildTypeCorrect, AlwaysFaithful, PTL

(* Every step of the start is a step of Router::build, or leaves its table. *)
LEMMA StartupBuilds == Spec => R!Spec
<1>1. Init => R!Init
  BY DEF Init
<1>2. [Next]_vars => [R!Next]_(R!vars)
  <2> SUFFICES ASSUME [Next]_vars PROVE R!Next \/ UNCHANGED routing
    BY DEF routing, R!vars
  <2>1. CASE BuildResolvers \/ BuildTable
    BY <2>1 DEF BuildResolvers, BuildTable, R!Next
  <2>2. CASE Order \/ BuildListeners \/ Probe
    BY <2>2 DEF Order, BuildListeners, Probe
  <2>3. CASE Ended \/ UNCHANGED vars
    BY <2>3 DEF Ended, vars
  <2> QED BY <2>1, <2>2, <2>3 DEF Next
<1> QED BY <1>1, <1>2, PTL DEF Spec, R!Spec

(* Whatever is declared, and whatever else the start goes through: a        *)
(* wildcard that wildcard_confined accepts on the table built covers only   *)
(* hosts that match_host routes into the scope.                             *)
THEOREM ConfinedAtStart == Spec => []WildcardConfinedSound
<1>1. R!WildcardConfinedSound <=> WildcardConfinedSound
  BY DEF WildcardConfinedSound
<1> QED BY <1>1, StartupBuilds, BuildConfinementSound, PTL

(* Whatever is declared, in whatever order: once the table is built, every  *)
(* host goes to the route of its most specific pattern.                    *)
THEOREM RoutedAsConfigured == Spec => []RoutingFollowsConfiguration
<1>1. R!RoutingFollowsConfiguration <=> RoutingFollowsConfiguration
  BY DEF RoutingFollowsConfiguration
<1> QED BY <1>1, StartupBuilds, BuildFollowsConfiguration, PTL

-----------------------------------------------------------------------------
(* What run_probes knows of a backend: the budget is that of the most       *)
(* patient of the routes built so far that share it, and the policy the     *)
(* strictest.                                                               *)
Built(k) == P!Sharing(k) \ todo

GroupOf(k) ==
  IF Built(k) = {} THEN groups[k] = NoGroup
  ELSE /\ groups[k] \in [routes : SUBSET Route, policy : P!Policy, budget : Nat]
       /\ groups[k].policy = "require" <=> \E r \in Built(k) : conf[r].policy = "require"
       /\ \A r \in Built(k) : conf[r].budget <= groups[k].budget
       /\ \E r \in Built(k) : conf[r].budget = groups[k].budget

Works(k, i) == answers[k][i].kind = "settings" /\ answers[k][i].at <= groups[k].budget
Fails(k) == \A i \in 1 .. Len(answers[k]) : ~Works(k, i)

(* How far the probe of a backend is, and what that says of its addresses. *)
Unprobed(k) == task[k] = "none" /\ k \notin failures
Probed(k) ==
  /\ task[k] = "none" <=> groups[k] = NoGroup
  /\ task[k] = "primary" => Len(answers[k]) \in {1, 2}
  /\ task[k] = "fallback" => Len(answers[k]) = 2 /\ ~Works(k, 1)
  /\ task[k] = "ok" => ~Fails(k)
  /\ task[k] = "failed" => Fails(k)
  /\ k \in failures <=> task[k] = "joined" /\ groups[k].policy = "require" /\ Fails(k)

Probing ==
  /\ pc \in {"resolvers", "build", "probe", "up", "aborted", "failed"}
  /\ failures \subseteq Backend
  /\ pc \in {"build", "probe", "up", "aborted"} =>
       /\ conf \in [Route -> P!RouteConf]
       /\ answers \in [Backend -> Seq(P!Reply)]
       /\ \A k \in Backend : Len(answers[k]) \in {0, 1, 2} /\ GroupOf(k)
       /\ pc # "build" => todo = {}
  /\ task = [k \in Backend |-> task[k]] /\ groups = [k \in Backend |-> groups[k]]
  /\ pc \in {"resolvers", "build", "failed"} => \A k \in Backend : Unprobed(k)
  /\ pc \in {"resolvers", "failed"} => \A k \in Backend : groups[k] = NoGroup
  /\ pc \in {"probe", "up", "aborted"} => \A k \in Backend : Probed(k)
  /\ pc \in {"up", "aborted"} => \A k \in Backend : task[k] \in {"none", "joined"}
  /\ pc = "up" => failures = {}
  /\ pc = "aborted" => failures # {}

(* A step that touches neither the routes nor the groups leaves what is    *)
(* known of a backend.                                                     *)
LEMMA GroupKept ==
  ASSUME NEW k, UNCHANGED <<conf, todo, groups>>, GroupOf(k)
  PROVE  GroupOf(k)'
BY DEF GroupOf, Built, P!Sharing

LEMMA WorksKept ==
  ASSUME NEW k, UNCHANGED <<answers, groups>>
  PROVE  (\A i \in {1, 2} : Works(k, i)' <=> Works(k, i)) /\ (Fails(k)' <=> Fails(k))
BY DEF Works, Fails

LEMMA MaxOfTwo ==
  ASSUME NEW a \in Nat, NEW b \in Nat
  PROVE  P!Max({a, b}) \in {a, b} /\ a <= P!Max({a, b}) /\ b <= P!Max({a, b})
<1>1. \E m \in {a, b} : \A x \in {a, b} : x <= m
  BY a <= b \/ b <= a
<1> QED BY <1>1 DEF P!Max

LEMMA BeginProbing == ASSUME P!ProbeConstants, Probing, P!Begin PROVE Probing'
<1>1. /\ pc = "resolvers" /\ pc' = "build" /\ todo' = Route
      /\ UNCHANGED <<groups, task, opened, failures>>
  BY DEF P!Begin
<1>2. conf' \in [Route -> P!RouteConf]
  BY DEF P!Begin, P!ProbeConstants
<1>3. ASSUME NEW k \in Backend
      PROVE  answers'[k] \in Seq(P!Reply) /\ Len(answers'[k]) \in {0, 1, 2}
  <2>1. \/ answers'[k] = << >> \/ \E a \in Replies : answers'[k] = <<a>>
        \/ \E a, b \in Replies : answers'[k] = <<a, b>>
    BY <1>3 DEF P!Begin
  <2>2. Replies \subseteq P!Reply
    BY DEF P!ProbeConstants
  <2>3. CASE answers'[k] = << >>
    BY <2>3
  <2>4. ASSUME NEW a \in Replies, answers'[k] = <<a>>
        PROVE  answers'[k] \in Seq(P!Reply) /\ Len(answers'[k]) = 1
    <3>1. a \in P!Reply
      BY <2>2
    <3> QED BY ONLY <3>1, <2>4
  <2>5. ASSUME NEW a \in Replies, NEW b \in Replies, answers'[k] = <<a, b>>
        PROVE  answers'[k] \in Seq(P!Reply) /\ Len(answers'[k]) = 2
    <3>1. a \in P!Reply /\ b \in P!Reply
      BY <2>2
    <3> QED BY ONLY <3>1, <2>5
  <2> QED BY <2>1, <2>3, <2>4, <2>5
<1>4. answers' \in [Backend -> Seq(P!Reply)]
  <2>1. answers' = [k \in Backend |-> answers'[k]]
    BY DEF P!Begin
  <2> QED BY <1>3, <2>1
<1>5. ASSUME NEW k \in Backend PROVE GroupOf(k)' /\ Unprobed(k)'
  <2>1. Built(k)' = {}
    BY <1>1 DEF Built, P!Sharing
  <2> QED BY <1>1, <1>5, <2>1 DEF GroupOf, Probing, Unprobed
<1> QED BY <1>1, <1>2, <1>3, <1>4, <1>5 DEF Probing

(* group_probe_targets keeps the strictest policy and the longest budget.  *)
LEMMA GroupJoined ==
  ASSUME P!ProbeConstants, Probing, pc = "build", NEW r \in todo, r \in Route, P!Build(r),
         NEW k \in Backend
  PROVE  GroupOf(k)'
<1>1. /\ conf \in [Route -> P!RouteConf] /\ GroupOf(k) /\ groups = [b \in Backend |-> groups[b]]
      /\ todo' = todo \ {r} /\ conf' = conf
  BY DEF Probing, P!Build
<1>2. /\ conf[r].http2 \in BOOLEAN /\ conf[r].key \in Backend /\ conf[r].policy \in P!Policy
      /\ conf[r].budget \in Nat
  BY <1>1 DEF P!RouteConf, P!ProbeConstants
<1> DEFINE target == conf[r].http2 /\ conf[r].policy # "off" /\ conf[r].key = k
<1>3. CASE ~target
  <2>1. Built(k)' = Built(k)
    BY <1>1, <1>3 DEF Built, P!Sharing
  <2>2. groups'[k] = groups[k]
    BY <1>1, <1>2, <1>3 DEF P!Build
  <2> QED BY <1>1, <2>1, <2>2 DEF GroupOf
<1>4. CASE target
  <2>1. Built(k)' = Built(k) \cup {r}
    BY <1>1, <1>4 DEF Built, P!Sharing
  <2> DEFINE g == IF groups[k] = NoGroup THEN [routes |-> {}, policy |-> "off", budget |-> 0]
                  ELSE groups[k]
             new == [routes |-> g.routes \cup {r}, policy |-> P!Stricter(g.policy, conf[r].policy),
                     budget |-> P!Max({g.budget, conf[r].budget})]
  <2>2. groups'[k] = new
    BY <1>1, <1>2, <1>4 DEF P!Build, P!Group
  <2>3. /\ g.routes \subseteq Route /\ g.policy \in P!Policy /\ g.budget \in Nat
        /\ g.policy = "require" <=> \E q \in Built(k) : conf[q].policy = "require"
        /\ \A q \in Built(k) : conf[q].budget <= g.budget
        /\ (Built(k) = {} /\ g.budget = 0) \/ \E q \in Built(k) : conf[q].budget = g.budget
    <3>1. CASE Built(k) = {}
      <4>1. g = [routes |-> {}, policy |-> "off", budget |-> 0]
        BY <1>1, <3>1 DEF GroupOf
      <4> HIDE DEF g
      <4> QED BY <3>1, <4>1 DEF P!Policy
    <3>2. CASE Built(k) # {}
      <4>1. groups[k] \in [routes : SUBSET Route, policy : P!Policy, budget : Nat]
        BY <1>1, <3>2 DEF GroupOf
      <4>2. g = groups[k]
        BY <4>1 DEF P!ProbeConstants
      <4> HIDE DEF g
      <4> QED BY <1>1, <3>2, <4>1, <4>2 DEF GroupOf
    <3> QED BY <3>1, <3>2
  <2> HIDE DEF g
  <2>4. /\ new.policy \in P!Policy
        /\ new.policy = "require" <=> g.policy = "require" \/ conf[r].policy = "require"
    BY <1>2, <2>3 DEF P!Stricter, P!Policy
  <2>5. /\ new.budget \in {g.budget, conf[r].budget}
        /\ g.budget <= new.budget /\ conf[r].budget <= new.budget
    BY <1>2, <2>3, MaxOfTwo
  <2>6. new \in [routes : SUBSET Route, policy : P!Policy, budget : Nat]
    BY <1>2, <2>3, <2>4, <2>5
  <2> HIDE DEF new
  <2>7. \A q \in Built(k) : conf[q].budget \in Nat
    BY <1>1 DEF Built, P!Sharing, P!RouteConf, P!ProbeConstants
  <2>8. \A q \in Built(k) \cup {r} : conf[q].budget <= new.budget
    BY <1>2, <2>3, <2>5, <2>7
  <2>9. \E q \in Built(k) \cup {r} : conf[q].budget = new.budget
    <3>1. CASE new.budget = conf[r].budget
      BY <3>1
    <3>2. CASE new.budget = g.budget /\ \E q \in Built(k) : conf[q].budget = g.budget
      BY <3>2
    <3>3. CASE new.budget = g.budget /\ g.budget = 0
      BY <1>2, <2>5, <3>3
    <3> QED BY <2>3, <2>5, <3>1, <3>2, <3>3
  <2>10. new.policy = "require" <=> \E q \in Built(k) \cup {r} : conf[q].policy = "require"
    BY <2>3, <2>4
  <2> QED BY ONLY <1>1, <2>1, <2>2, <2>6, <2>8, <2>9, <2>10 DEF GroupOf
<1> QED BY <1>3, <1>4

LEMMA BuildProbing ==
  ASSUME P!ProbeConstants, Probing, NEW r \in Route, P!Build(r) PROVE Probing'
<1>1. /\ pc = "build" /\ r \in todo /\ UNCHANGED <<conf, answers, task, opened, failures, pc>>
  BY DEF P!Build
<1>2. \A k \in Backend : GroupOf(k)'
  BY <1>1, GroupJoined
<1>3. groups' = [k \in Backend |-> groups'[k]]
  BY DEF P!Build, Probing
<1>4. /\ pc' \in {"resolvers", "build", "probe", "up", "aborted", "failed"}
      /\ failures' \subseteq Backend /\ conf' \in [Route -> P!RouteConf]
      /\ answers' \in [Backend -> Seq(P!Reply)]
      /\ \A k \in Backend : Len(answers'[k]) \in {0, 1, 2}
      /\ task' = [k \in Backend |-> task'[k]]
  BY <1>1 DEF Probing
<1>5. \A k \in Backend : Unprobed(k)'
  BY <1>1 DEF Probing, Unprobed
<1> QED BY <1>1, <1>2, <1>3, <1>4, <1>5 DEF Probing

LEMMA RunProbing == ASSUME Probing, P!RunProbes PROVE Probing'
<1>1. /\ pc = "build" /\ pc' = "probe" /\ todo = {} /\ todo' = todo
      /\ UNCHANGED <<conf, answers, groups, failures>>
      /\ task' = [k \in Backend |-> IF groups[k] = NoGroup THEN "none" ELSE "resolve"]
  BY DEF P!RunProbes
<1>2. ASSUME NEW k \in Backend
      PROVE  Probed(k)' /\ GroupOf(k)' /\ Len(answers'[k]) \in {0, 1, 2}
  <2>1. GroupOf(k)' /\ Len(answers'[k]) \in {0, 1, 2}
    BY <1>1, <1>2, GroupKept DEF Probing
  <2>2. task'[k] = IF groups[k] = NoGroup THEN "none" ELSE "resolve"
    BY <1>1, <1>2
  <2>3. k \notin failures
    BY <1>1, <1>2 DEF Probing, Unprobed
  <2> QED BY <1>1, <2>1, <2>2, <2>3 DEF Probed
<1>3. /\ failures' \subseteq Backend /\ conf' \in [Route -> P!RouteConf]
      /\ answers' \in [Backend -> Seq(P!Reply)]
      /\ groups' = [k \in Backend |-> groups'[k]] /\ task' = [k \in Backend |-> task'[k]]
  BY <1>1 DEF Probing
<1> QED BY <1>1, <1>2, <1>3 DEF Probing

(* While the probes run, a step of one leaves the others where they are.   *)
LEMMA ProbeSteps ==
  ASSUME Probing, NEW k \in Backend, pc = "probe",
         UNCHANGED <<conf, answers, todo, groups, pc>>,
         task' = [task EXCEPT ![k] = task'[k]],
         failures' \subseteq Backend, \A q \in Backend \ {k} : q \in failures' <=> q \in failures,
         Probed(k)'
  PROVE  Probing'
<1>1. ASSUME NEW q \in Backend
      PROVE  Probed(q)' /\ GroupOf(q)' /\ Len(answers'[q]) \in {0, 1, 2}
  <2>1. GroupOf(q)' /\ Len(answers'[q]) \in {0, 1, 2}
    BY <1>1, GroupKept DEF Probing
  <2>2. ASSUME q # k PROVE Probed(q)'
    <3>1. task'[q] = task[q] /\ (q \in failures' <=> q \in failures)
      BY <1>1, <2>2 DEF Probing
    <3>2. Probed(q)
      BY <1>1, <2>2 DEF Probing
    <3>3. (Works(q, 1)' <=> Works(q, 1)) /\ (Fails(q)' <=> Fails(q))
      BY WorksKept
    <3>4. groups' = groups /\ answers' = answers
      OBVIOUS
    <3> QED BY ONLY <3>1, <3>2, <3>3, <3>4 DEF Probed
  <2> QED BY <2>1, <2>2
<1>2. task' = [q \in Backend |-> task'[q]] /\ groups' = [q \in Backend |-> groups'[q]]
  BY DEF Probing
<1>3. /\ pc' = "probe" /\ todo' = {} /\ conf' \in [Route -> P!RouteConf]
      /\ answers' \in [Backend -> Seq(P!Reply)]
  BY DEF Probing
<1> QED BY <1>1, <1>2, <1>3 DEF Probing

(* A probe that is under way runs while the verdicts are awaited. *)
LEMMA UnderWay ==
  ASSUME Probing, NEW k \in Backend, task[k] \notin {"none", "joined"}
  PROVE  pc = "probe" /\ Probed(k)
BY DEF Probing, Unprobed

LEMMA ResolveProbing ==
  ASSUME Probing, NEW k \in Backend, P!Resolve(k) PROVE Probing'
<1>1. /\ task[k] = "resolve" /\ UNCHANGED <<conf, answers, todo, groups, failures, pc>>
      /\ task' = [task EXCEPT ![k] = IF answers[k] = << >> THEN "failed" ELSE "primary"]
  BY DEF P!Resolve
<1>2. pc = "probe" /\ Probed(k)
  BY <1>1, UnderWay
<1>3. task'[k] = IF answers[k] = << >> THEN "failed" ELSE "primary"
  BY <1>1 DEF Probing
<1>4. answers[k] \in Seq(P!Reply) /\ Len(answers[k]) \in {0, 1, 2}
  BY <1>2 DEF Probing
<1>5. Probed(k)'
  <2>1. CASE answers[k] = << >>
    <3>1. Fails(k)' /\ task'[k] = "failed"
      BY <1>1, <1>3, <2>1 DEF Fails
    <3> QED BY <1>1, <1>2, <3>1 DEF Probed
  <2>2. CASE answers[k] # << >>
    <3>1. Len(answers[k]) \in {1, 2} /\ task'[k] = "primary"
      BY <1>3, <1>4, <2>2
    <3> QED BY <1>1, <1>2, <3>1 DEF Probed
  <2> QED BY <2>1, <2>2
<1>6. failures' \subseteq Backend
  BY <1>1 DEF Probing
<1>7. task' = [task EXCEPT ![k] = task'[k]]
  BY <1>1, <1>3
<1> QED BY <1>1, <1>2, <1>5, <1>6, <1>7, ProbeSteps

LEMMA AttemptProbing ==
  ASSUME Probing, NEW k \in Backend, NEW i \in {1, 2}, P!Attempt(k, i) PROVE Probing'
<1> DEFINE ok == P!InTime(answers[k][i], groups[k].budget) /\ P!SpeaksH2c(answers[k][i])
           next == IF ok THEN "ok" ELSE IF i < Len(answers[k]) THEN "fallback" ELSE "failed"
<1>1. /\ task[k] = IF i = 1 THEN "primary" ELSE "fallback"
      /\ UNCHANGED <<conf, answers, todo, groups, failures, pc>>
      /\ task' = [task EXCEPT ![k] = next]
  BY DEF P!Attempt
<1>2. pc = "probe" /\ Probed(k)
  BY <1>1, UnderWay
<1>3. ok <=> Works(k, i)
  BY DEF P!InTime, P!SpeaksH2c, Works
<1>4. task'[k] = next
  BY <1>1 DEF Probing
<1> HIDE DEF ok
<1>5. answers[k] \in Seq(P!Reply) /\ Len(answers[k]) \in {0, 1, 2}
  BY <1>2 DEF Probing
<1>6. /\ task'[k] \in {"ok", "fallback", "failed"}
      /\ groups'[k] # NoGroup /\ k \notin failures' /\ groups' = groups /\ answers' = answers
      /\ (Works(k, 1)' <=> Works(k, 1)) /\ (Fails(k)' <=> Fails(k))
  BY <1>1, <1>2, <1>4, WorksKept DEF Probed
<1>7. ASSUME i = 1 PROVE Probed(k)'
  <2>1. task[k] = "primary" /\ Len(answers[k]) \in {1, 2}
    BY <1>1, <1>2, <1>7 DEF Probed
  <2>2. /\ task'[k] = "ok" => ~Fails(k)
        /\ task'[k] = "fallback" => Len(answers[k]) = 2 /\ ~Works(k, 1)
        /\ task'[k] = "failed" => Fails(k)
    <3>1. task'[k] = IF Works(k, 1) THEN "ok" ELSE IF 1 < Len(answers[k]) THEN "fallback"
                     ELSE "failed"
      BY <1>3, <1>4, <1>7
    <3>2. Works(k, 1) => ~Fails(k)
      <4>1. 1 \in 1 .. Len(answers[k])
        BY <2>1
      <4> QED BY ONLY <4>1 DEF Fails
    <3>3. Len(answers[k]) = 1 /\ ~Works(k, 1) => Fails(k)
      BY 1 .. 1 = {1} DEF Fails
    <3> QED BY ONLY <2>1, <3>1, <3>2, <3>3
  <2> QED BY ONLY <1>6, <2>1, <2>2 DEF Probed
<1>8. ASSUME i = 2 PROVE Probed(k)'
  <2>1. task[k] = "fallback" /\ Len(answers[k]) = 2 /\ ~Works(k, 1)
    BY <1>1, <1>2, <1>8 DEF Probed
  <2>2. /\ task'[k] = "ok" => ~Fails(k)
        /\ task'[k] # "fallback"
        /\ task'[k] = "failed" => Fails(k)
    BY <1>3, <1>4, <1>8, <2>1 DEF Fails
  <2> QED BY ONLY <1>6, <2>1, <2>2 DEF Probed
<1>9. failures' \subseteq Backend /\ task' = [task EXCEPT ![k] = task'[k]]
  BY <1>1, <1>2, <1>4 DEF Probing
<1>10. Probed(k)'
  BY <1>7, <1>8
<1> QED BY <1>1, <1>2, <1>9, <1>10, ProbeSteps

LEMMA JoinProbing ==
  ASSUME Probing, NEW k \in Backend, P!Join(k) PROVE Probing'
<1>1. /\ task[k] \in {"ok", "failed"} /\ task' = [task EXCEPT ![k] = "joined"]
      /\ failures' = IF task[k] = "failed" /\ groups[k].policy = "require"
                     THEN failures \cup {k} ELSE failures
      /\ UNCHANGED <<conf, answers, todo, groups, pc>>
  BY DEF P!Join
<1>2. pc = "probe" /\ Probed(k)
  BY <1>1, UnderWay
<1>3. task'[k] = "joined" /\ groups[k] # NoGroup /\ k \notin failures
  BY <1>1, <1>2 DEF Probing, Probed
<1>4. task[k] = "failed" <=> Fails(k)
  BY <1>1, <1>2 DEF Probed
<1>5. k \in failures' <=> groups[k].policy = "require" /\ Fails(k)
  BY <1>1, <1>3, <1>4
<1>6. Probed(k)'
  BY <1>1, <1>3, <1>5, WorksKept DEF Probed
<1>7. /\ failures' \subseteq Backend /\ \A q \in Backend \ {k} : q \in failures' <=> q \in failures
      /\ task' = [task EXCEPT ![k] = task'[k]]
  BY <1>1, <1>3 DEF Probing
<1> QED BY <1>1, <1>2, <1>6, <1>7, ProbeSteps

LEMMA DecideProbing == ASSUME Probing, P!Decide PROVE Probing'
<1>1. /\ pc = "probe" /\ \A k \in Backend : task[k] \in {"none", "joined"}
      /\ pc' = IF failures = {} THEN "up" ELSE "aborted"
      /\ UNCHANGED <<conf, answers, todo, groups, task, opened, failures>>
  BY DEF P!Decide
<1>2. ASSUME NEW k \in Backend
      PROVE  /\ Probed(k)' /\ GroupOf(k)' /\ Len(answers'[k]) \in {0, 1, 2}
             /\ task'[k] \in {"none", "joined"}
  <2>1. GroupOf(k)'
    BY <1>1, <1>2, GroupKept DEF Probing
  <2> QED BY <1>1, <1>2, <2>1, WorksKept DEF Probing, Probed
<1>3. /\ failures' \subseteq Backend /\ conf' \in [Route -> P!RouteConf]
      /\ answers' \in [Backend -> Seq(P!Reply)] /\ todo' = {}
      /\ groups' = [k \in Backend |-> groups'[k]] /\ task' = [k \in Backend |-> task'[k]]
  BY <1>1 DEF Probing
<1>4. (pc' = "up" => failures' = {}) /\ (pc' = "aborted" => failures' # {})
      /\ pc' \in {"up", "aborted"}
  BY <1>1
<1> QED BY <1>2, <1>3, <1>4 DEF Probing

LEMMA AlwaysProbing == Spec => []Probing
<1>1. Init => Probing
  BY DEF Init, P!Init, Probing, Unprobed
<1>2. Probing /\ [Next]_vars => Probing'
  <2> SUFFICES ASSUME Probing, [Next]_vars PROVE Probing'
    OBVIOUS
  <2>1. P!ProbeConstants
    BY StartupAssumption
  <2>2. ASSUME UNCHANGED probing PROVE Probing'
    <3>1. UNCHANGED <<conf, answers, todo, groups, task, opened, failures, pc>>
      BY <2>2 DEF probing
    <3> QED BY <3>1 DEF Probing, GroupOf, Built, P!Sharing, Unprobed, Probed, Fails, Works
  <2>3. CASE BuildListeners
    <3>1. ASSUME P!Fails PROVE Probing'
      BY <3>1 DEF P!Fails, Probing, Unprobed
    <3> QED BY <2>1, <2>3, <3>1, BeginProbing DEF BuildListeners
  <2>4. CASE Probe
    BY <2>1, <2>4, BuildProbing, RunProbing, DecideProbing, ResolveProbing, JoinProbing,
       AttemptProbing DEF Probe, P!Next
  <2>5. CASE Order \/ BuildResolvers \/ BuildTable \/ Ended \/ UNCHANGED vars
    BY <2>2, <2>5 DEF Order, BuildResolvers, BuildTable, Ended, vars, probing
  <2> QED BY <2>3, <2>4, <2>5 DEF Next
<1> QED BY <1>1, <1>2, PTL DEF Spec

(* Whatever the routes, whatever the backends answer and in whatever order  *)
(* the probes end: the gateway starts exactly when every backend that some *)
(* route requires to speak h2c does.                                       *)
THEOREM StartsOnDemandsMet == Spec => []StartsIffDemandsMet
<1>1. Probing => StartsIffDemandsMet
  <2> SUFFICES ASSUME Probing, pc \in {"up", "aborted"} PROVE StartsIffDemandsMet
    BY DEF StartsIffDemandsMet, P!StartsIffDemandsMet
  <2>1. /\ conf \in [Route -> P!RouteConf] /\ answers \in [Backend -> Seq(P!Reply)]
        /\ \A k \in Backend : Probed(k) /\ GroupOf(k) /\ task[k] \in {"none", "joined"}
        /\ todo = {} /\ failures \subseteq Backend
    BY DEF Probing
  <2>2. ASSUME NEW k \in Backend, groups[k] # NoGroup PROVE P!Verified(k) <=> ~Fails(k)
    <3>1. P!Sharing(k) # {} /\ Built(k) = P!Sharing(k)
      BY <2>1, <2>2 DEF GroupOf, Built
    <3>2. /\ \A r \in P!Sharing(k) : conf[r].budget <= groups[k].budget
          /\ \E r \in P!Sharing(k) : conf[r].budget = groups[k].budget
          /\ groups[k].budget \in Nat
      BY <2>1, <3>1 DEF GroupOf
    <3>3. \A r \in P!Sharing(k) : conf[r].budget \in Nat
      BY <2>1, StartupAssumption DEF P!Sharing, P!RouteConf, P!ProbeConstants
    <3>4. \A i \in 1 .. Len(answers[k]) : answers[k][i].at \in Nat
      <4>1. \A i \in 1 .. Len(answers[k]) : answers[k][i] \in P!Reply
        BY <2>1, <2>2
      <4> QED BY <4>1 DEF P!Reply
    <3>5. ASSUME NEW i \in 1 .. Len(answers[k])
          PROVE  Works(k, i) <=> /\ answers[k][i].kind = "settings"
                                 /\ \E r \in P!Sharing(k) : answers[k][i].at <= conf[r].budget
      BY <3>2, <3>3, <3>4 DEF Works
    <3>6. DOMAIN answers[k] = 1 .. Len(answers[k])
      BY <2>1, <2>2
    <3> QED BY <3>5, <3>6 DEF P!Verified, Fails
  <2>3. ASSUME NEW k \in P!Demanded
        PROVE  groups[k] # NoGroup /\ groups[k].policy = "require" /\ task[k] = "joined"
    <3>1. k \in Backend /\ \E r \in P!Sharing(k) : conf[r].policy = "require"
      BY <2>3 DEF P!Demanded
    <3>2. Built(k) = P!Sharing(k)
      BY <2>1 DEF Built
    <3>3. /\ groups[k] \in [routes : SUBSET Route, policy : P!Policy, budget : Nat]
          /\ groups[k].policy = "require"
      BY <2>1, <3>1, <3>2 DEF GroupOf
    <3>4. groups[k] # NoGroup
      BY <3>3, StartupAssumption DEF P!ProbeConstants
    <3> QED BY <2>1, <3>1, <3>3, <3>4 DEF Probed
  <2>4. CASE pc = "up"
    <3>1. \A k \in P!Demanded : P!Verified(k)
      BY <2>1, <2>2, <2>3, <2>4 DEF Probing, Probed, P!Demanded
    <3> QED BY <2>4, <3>1 DEF StartsIffDemandsMet, P!StartsIffDemandsMet
  <2>5. CASE pc = "aborted"
    <3>1. PICK k \in Backend : k \in failures
      BY <2>1, <2>5 DEF Probing
    <3>2. task[k] = "joined" /\ groups[k].policy = "require" /\ Fails(k) /\ groups[k] # NoGroup
      BY <2>1, <3>1 DEF Probed
    <3>3. k \in P!Demanded
      BY <2>1, <3>2 DEF GroupOf, Built, P!Demanded
    <3> QED BY <2>2, <2>5, <3>2, <3>3 DEF StartsIffDemandsMet, P!StartsIffDemandsMet
  <2> QED BY <2>4, <2>5
<1> QED BY <1>1, AlwaysProbing, PTL

-----------------------------------------------------------------------------
(* The search of resolver_build_order.  An entry of its stack is an exit,  *)
(* of a resolver that is open, or an entry, with the path that leads to it. *)
IsExit(i) == i \in 1 .. Len(stack) /\ stack[i].kind = "exit"
IsEnter(i) == i \in 1 .. Len(stack) /\ stack[i].kind = "enter"
Ordered(r) == \E i \in 1 .. Len(order) : order[i] = r
Open(r) == \E i \in 1 .. Len(stack) : IsExit(i) /\ stack[i].name = r

Step == [kind : {"enter", "exit"}, name : Res, path : Seq(Res)]
SearchTyped ==
  /\ plan \in Plans \cup {NoPlan}
  /\ roots \in Seq(Res) /\ order \in Seq(Res) /\ cycle \in Seq(Res) /\ stack \in Seq(Step)
  /\ marks \in [Res -> {"none", "open", "done"}]
  /\ plan = NoPlan => roots = << >> /\ stack = << >> /\ order = << >> /\ cycle = << >>

MarksSayWhere ==
  \A r \in Res : (marks[r] = "done" <=> Ordered(r)) /\ (marks[r] = "open" <=> Open(r))
ExitsOnce == \A i, j \in 1 .. Len(stack) : IsExit(i) /\ IsExit(j) /\ stack[i].name = stack[j].name => i = j

(* What an open resolver refers to is ordered, or is above it on the stack. *)
RefsAbove ==
  \A i \in 1 .. Len(stack) : IsExit(i) =>
    \A q \in O!References(plan, stack[i].name) :
      marks[q] = "done" \/ \E j \in 1 .. i - 1 : stack[j].name = q

(* A path follows the edges to its entry, through every resolver that is   *)
(* open below it.                                                          *)
IsPath(pl, p) == \A i \in 1 .. Len(p) - 1 : p[i + 1] \in O!References(pl, p[i])
PathsLead ==
  \A i \in 1 .. Len(stack) : IsEnter(i) =>
    LET p == stack[i].path
    IN /\ p # << >> /\ p[Len(p)] = stack[i].name /\ IsPath(plan, p)
       /\ \A j \in i + 1 .. Len(stack) : IsExit(j) =>
            \E k \in 1 .. Len(p) - 1 : p[k] = stack[j].name

(* No resolver is forgotten. *)
Awaited(r) ==
  \/ \E i \in 1 .. Len(roots) : roots[i] = r
  \/ marks[r] = "done"
  \/ \E i \in 1 .. Len(stack) : stack[i].name = r
NoneForgotten == plan # NoPlan => \A r \in Res : Awaited(r)

Searching ==
  /\ SearchTyped /\ MarksSayWhere /\ ExitsOnce /\ RefsAbove /\ PathsLead /\ NoneForgotten
  /\ O!OrderIsTopological /\ O!CycleIsReal

LEMMA SearchPlan ==
  ASSUME Searching, stack # << >> \/ roots # << >>
  PROVE  plan \in Plans
BY DEF Searching, SearchTyped

LEMMA ReferencesOf ==
  ASSUME plan \in Plans, NEW r \in Res
  PROVE  /\ O!References(plan, r) \subseteq Res
         /\ \E b, e \in Res \cup {Sys} : O!References(plan, r) = {b, e} \ {Sys}
<1>1. plan \in [Res -> O!Def]
  BY StartupAssumption DEF O!OrderConstants
<1>2. plan[r].bootstrap \in Res \cup {Sys} /\ plan[r].ech_resolver \in Res \cup {Sys}
  BY <1>1 DEF O!Def
<1> QED BY <1>2 DEF O!References

LEMMA OrderKept ==
  ASSUME O!OrderIsTopological, UNCHANGED <<plan, order>>
  PROVE  O!OrderIsTopological'
BY DEF O!OrderIsTopological, O!IsInjective

LEMMA CycleKept ==
  ASSUME O!CycleIsReal, UNCHANGED <<plan, cycle>>
  PROVE  O!CycleIsReal'
BY DEF O!CycleIsReal, O!Refused, O!Last

LEMMA StackKept ==
  ASSUME MarksSayWhere, ExitsOnce, RefsAbove, PathsLead, NoneForgotten,
         UNCHANGED <<plan, roots, stack, marks, order>>
  PROVE  MarksSayWhere' /\ ExitsOnce' /\ RefsAbove' /\ PathsLead' /\ NoneForgotten'
<1>1. MarksSayWhere' /\ NoneForgotten'
  BY DEF MarksSayWhere, Ordered, Open, IsExit, NoneForgotten, Awaited
<1>2. ExitsOnce' /\ RefsAbove'
  BY DEF ExitsOnce, RefsAbove, IsExit
<1>3. PathsLead'
  BY DEF PathsLead, IsEnter, IsExit
<1> QED BY <1>1, <1>2, <1>3

(* The edges are listed, in an order that names fix. *)
LEMMA EdgesListed ==
  ASSUME plan \in Plans, NEW r \in Res
  PROVE  /\ O!Edges(r) \in Seq(Res)
         /\ \A q : q \in O!References(plan, r) <=> \E i \in 1 .. Len(O!Edges(r)) : O!Edges(r)[i] = q
<1> DEFINE refs == O!References(plan, r)
           Sorted(s) == /\ O!ToSet(s) = refs
                        /\ \A i, j \in DOMAIN s : i < j => O!Earlier(s[i], s[j])
           Lists == UNION {[1 .. n -> refs] : n \in 0 .. 2}
<1>1. refs \subseteq Res
  BY ReferencesOf
<1>2. PICK b, e \in Res \cup {Sys} : refs = {b, e} \ {Sys}
  BY ReferencesOf
<1>3. \A q \in Res : \E i \in DOMAIN Names : Names[i] = q
  BY StartupAssumption DEF O!OrderConstants, O!ToSet
<1>4. DOMAIN Names \subseteq Nat
  BY StartupAssumption DEF O!OrderConstants
<1>5. \E s \in Lists : Sorted(s)
  <2>1. CASE refs = {}
    <3> DEFINE s == [i \in 1 .. 0 |-> r]
    <3>1. s \in [1 .. 0 -> refs] /\ DOMAIN s = {}
      OBVIOUS
    <3>2. Sorted(s)
      BY <2>1, <3>1 DEF O!ToSet
    <3> HIDE DEF s, Sorted, refs
    <3>3. s \in Lists
      BY <3>1, 0 \in 0 .. 2
    <3> QED BY <3>2, <3>3
  <2>2. ASSUME NEW x \in Res, refs = {x} PROVE \E s \in Lists : Sorted(s)
    <3> DEFINE s == [i \in 1 .. 1 |-> x]
    <3>1. s \in [1 .. 1 -> refs] /\ DOMAIN s = {1} /\ s[1] = x
      BY <2>2
    <3> HIDE DEF s
    <3>2. Sorted(s)
      BY <2>2, <3>1 DEF O!ToSet
    <3> QED BY <3>1, <3>2
  <2>3. ASSUME NEW x \in Res, NEW y \in Res, refs = {x, y}, O!Earlier(x, y)
        PROVE  \E s \in Lists : Sorted(s)
    <3> DEFINE s == [i \in 1 .. 2 |-> IF i = 1 THEN x ELSE y]
    <3>1. s \in [1 .. 2 -> refs] /\ DOMAIN s = {1, 2} /\ s[1] = x /\ s[2] = y
      BY <2>3
    <3> HIDE DEF s
    <3>2. O!ToSet(s) = refs
      BY <2>3, <3>1 DEF O!ToSet
    <3>3. \A i, j \in DOMAIN s : i < j => i = 1 /\ j = 2
      BY <3>1
    <3> QED BY <2>3, <3>1, <3>2, <3>3
  <2>4. ASSUME NEW x \in Res, NEW y \in Res, x # y PROVE O!Earlier(x, y) \/ O!Earlier(y, x)
    <3>1. PICK i \in DOMAIN Names : Names[i] = x
      BY <1>3
    <3>2. PICK j \in DOMAIN Names : Names[j] = y
      BY <1>3
    <3>3. i \in Nat /\ j \in Nat /\ i # j
      BY <1>4, <2>4, <3>1, <3>2
    <3>4. i < j \/ j < i
      BY <3>3
    <3> QED BY <3>1, <3>2, <3>4 DEF O!Earlier
  <2>5. \/ refs = {} \/ \E x \in Res : refs = {x}
        \/ \E x, y \in Res : x # y /\ refs = {x, y}
    <3> HIDE DEF refs
    <3> QED BY <1>2
  <2>6. ASSUME NEW x \in Res, NEW y \in Res, x # y, refs = {x, y}
        PROVE  \E s \in Lists : Sorted(s)
    <3>1. refs = {y, x}
      BY <2>6
    <3> QED BY <2>3, <2>4, <2>6, <3>1
  <2> QED BY <2>1, <2>2, <2>5, <2>6
<1>6. O!Edges(r) = CHOOSE s \in Lists : Sorted(s)
  BY DEF O!Edges
<1> HIDE DEF Sorted, Lists
<1>7. O!Edges(r) \in Lists /\ Sorted(O!Edges(r))
  BY <1>5, <1>6
<1> USE DEF Sorted, Lists
<1>8. PICK n \in 0 .. 2 : O!Edges(r) \in [1 .. n -> refs]
  BY <1>7
<1>9. O!Edges(r) \in Seq(Res) /\ Len(O!Edges(r)) = n /\ DOMAIN O!Edges(r) = 1 .. n
  <2>1. O!Edges(r) \in [1 .. n -> Res] /\ n \in Nat
    BY <1>1, <1>8
  <2> QED BY <2>1
<1>10. refs = {O!Edges(r)[i] : i \in 1 .. n}
  BY <1>7, <1>9 DEF O!ToSet
<1> QED BY <1>9, <1>10

(* What opening a resolver pushes: an entry for each of its edges. *)
LEMMA PushedEntries ==
  ASSUME plan \in Plans, NEW r \in Res, NEW path \in Seq(Res)
  PROVE  /\ O!Pushed(r, path) \in Seq(Step)
         /\ \A i \in 1 .. Len(O!Pushed(r, path)) :
              LET e == O!Pushed(r, path)[i]
              IN e.kind = "enter" /\ e.name \in O!References(plan, r) /\ e.path = Append(path, e.name)
         /\ \A q \in O!References(plan, r) :
              \E i \in 1 .. Len(O!Pushed(r, path)) : O!Pushed(r, path)[i].name = q
<1> DEFINE es == O!Edges(r)
           n == Len(es)
           fs == [i \in 1 .. n |-> O!Enter(es[i], Append(path, es[i]))]
<1>1. /\ es \in Seq(Res) /\ n \in Nat
      /\ \A i \in 1 .. n : es[i] \in Res
      /\ \A q : q \in O!References(plan, r) <=> \E i \in 1 .. n : es[i] = q
  BY EdgesListed
<1>2. O!Pushed(r, path) = O!Reverse(fs)
  BY DEF O!Pushed
<1> HIDE DEF es, n
<1>3. ASSUME NEW i \in 1 .. n
      PROVE  fs[i] \in Step /\ fs[i].kind = "enter" /\ fs[i].name = es[i] /\ fs[i].path = Append(path, es[i])
  BY <1>1, <1>3 DEF O!Enter, Step
<1>4. fs \in Seq(Step) /\ Len(fs) = n
  <2>1. fs \in [1 .. n -> Step]
    BY <1>3
  <2> HIDE DEF fs
  <2> QED BY <1>1, <2>1
<1> HIDE DEF fs
<1>5. O!Reverse(fs) = [i \in 1 .. n |-> fs[(n - i) + 1]]
  BY <1>4 DEF O!Reverse
<1>6. \A i \in 1 .. n : (n - i) + 1 \in 1 .. n /\ (n - ((n - i) + 1)) + 1 = i
  BY <1>1
<1> DEFINE p == O!Pushed(r, path)
<1>7. p = [i \in 1 .. n |-> fs[(n - i) + 1]]
  BY <1>2, <1>5
<1>8. p \in Seq(Step) /\ Len(p) = n
  <2>1. p \in [1 .. n -> Step]
    BY <1>3, <1>6, <1>7
  <2> HIDE DEF p
  <2> QED BY <1>1, <2>1
<1>9. ASSUME NEW i \in 1 .. n
      PROVE  /\ p[i].kind = "enter" /\ p[i].name \in O!References(plan, r)
             /\ p[i].path = Append(path, p[i].name)
  <2>1. p[i] = fs[(n - i) + 1] /\ (n - i) + 1 \in 1 .. n
    BY <1>6, <1>7
  <2> HIDE DEF p
  <2> QED BY <1>1, <1>3, <2>1
<1>10. ASSUME NEW q \in O!References(plan, r) PROVE \E i \in 1 .. n : p[i].name = q
  <2>1. PICK i \in 1 .. n : es[i] = q
    BY <1>1, <1>10
  <2>2. p[(n - i) + 1] = fs[i] /\ (n - i) + 1 \in 1 .. n
    BY <1>6, <1>7
  <2> HIDE DEF p
  <2> QED BY <1>3, <2>1, <2>2
<1> HIDE DEF p
<1>11. p = O!Pushed(r, path)
  BY DEF p
<1> QED BY <1>8, <1>9, <1>10, <1>11

(* The stack after a pop, and after a resolver is opened. *)
LEMMA Popped ==
  ASSUME SearchTyped, stack # << >>, stack' = Tail(stack)
  PROVE  /\ stack' \in Seq(Step) /\ Len(stack) \in Nat \ {0} /\ Len(stack') = Len(stack) - 1
         /\ \A i \in 1 .. Len(stack') : i + 1 \in 1 .. Len(stack) /\ stack'[i] = stack[i + 1]
         /\ \A i \in 2 .. Len(stack) : i - 1 \in 1 .. Len(stack') /\ stack'[i - 1] = stack[i]
         /\ Head(stack) = stack[1] /\ stack[1] \in Step
<1>1. stack \in Seq(Step)
  BY DEF SearchTyped
<1>2. Len(stack) \in Nat \ {0} /\ Len(stack') = Len(stack) - 1 /\ stack' \in Seq(Step)
  BY <1>1
<1>3. \A i \in 1 .. Len(stack') : i + 1 \in 1 .. Len(stack) /\ stack'[i] = stack[i + 1]
  BY <1>1, <1>2
<1>4. \A i \in 2 .. Len(stack) : i - 1 \in 1 .. Len(stack') /\ (i - 1) + 1 = i
  BY <1>2
<1>5. \A i \in 2 .. Len(stack) : i - 1 \in 1 .. Len(stack') /\ stack'[i - 1] = stack[i]
  BY <1>3, <1>4
<1> QED BY <1>1, <1>2, <1>3, <1>5

LEMMA Opened ==
  ASSUME NEW S, NEW s \in Seq(S), s # << >>, NEW p \in Seq(S), NEW x \in S,
         NEW t, t = p \o <<x>> \o Tail(s)
  PROVE  /\ t \in Seq(S) /\ Len(p) \in Nat /\ Len(s) \in Nat \ {0} /\ Len(t) = Len(p) + Len(s)
         /\ \A i \in 1 .. Len(p) : t[i] = p[i]
         /\ t[Len(p) + 1] = x
         /\ \A i \in 2 .. Len(s) : t[Len(p) + i] = s[i]
<1>1. Tail(s) \in Seq(S) /\ Len(Tail(s)) = Len(s) - 1 /\ Len(s) \in Nat \ {0} /\ Len(p) \in Nat
  OBVIOUS
<1>2. \A i \in 1 .. Len(s) - 1 : Tail(s)[i] = s[i + 1]
  OBVIOUS
<1> DEFINE u == p \o <<x>>
<1>3. u \in Seq(S) /\ Len(u) = Len(p) + 1 /\ u[Len(p) + 1] = x /\ \A i \in 1 .. Len(p) : u[i] = p[i]
  BY <1>1
<1>4. t = u \o Tail(s)
  OBVIOUS
<1> HIDE DEF u
<1>5. t \in Seq(S) /\ Len(t) = Len(p) + Len(s)
  BY <1>1, <1>3, <1>4
<1>6. \A i \in 1 .. Len(p) + 1 : t[i] = u[i]
  BY <1>1, <1>3, <1>4
<1>7. ASSUME NEW i \in 2 .. Len(s) PROVE t[Len(p) + i] = s[i]
  <2>1. i - 1 \in 1 .. Len(s) - 1 /\ Len(p) + i = Len(u) + (i - 1) /\ (i - 1) + 1 = i
    BY <1>1, <1>3
  <2>2. t[Len(u) + (i - 1)] = Tail(s)[i - 1]
    BY <1>1, <1>3, <1>4, <2>1
  <2> QED BY <1>2, <2>1, <2>2
<1> QED BY <1>1, <1>3, <1>5, <1>6, <1>7

LEMMA NextRootSearch == ASSUME Searching, O!NextRoot PROVE Searching'
<1> DEFINE h == Head(roots)
<1>1. /\ stack = << >> /\ roots # << >> /\ cycle = << >> /\ roots' = Tail(roots)
      /\ stack' = IF marks[h] = "done" THEN << >> ELSE <<O!Enter(h, <<h>>)>>
      /\ UNCHANGED <<plan, marks, order, cycle>>
  BY DEF O!NextRoot
<1>2. plan \in Plans /\ plan # NoPlan
  BY <1>1, SearchPlan, StartupAssumption DEF O!OrderConstants
<1>3. SearchTyped /\ roots \in Seq(Res)
  BY DEF Searching, SearchTyped
<1>4. /\ h \in Res /\ h = roots[1] /\ Len(roots') = Len(roots) - 1 /\ roots' \in Seq(Res)
      /\ Len(roots) \in Nat \ {0} /\ \A i \in 1 .. Len(roots') : roots'[i] = roots[i + 1]
  BY <1>1, <1>3
<1> HIDE DEF h
<1> DEFINE e == O!Enter(h, <<h>>)
<1>5. e \in Step /\ e.kind = "enter" /\ e.name = h /\ e.path = <<h>>
  BY <1>4 DEF O!Enter, Step
<1>6. \/ stack' = << >> /\ marks[h] = "done" /\ Len(stack') = 0
      \/ stack' = <<e>> /\ Len(stack') = 1 /\ stack'[1] = e
  BY <1>1
<1>7. stack' \in Seq(Step)
  <2>1. <<e>> \in Seq(Step) /\ << >> \in Seq(Step)
    BY <1>5
  <2> QED BY <1>6, <2>1
<1> HIDE DEF e
<1>8. ~ \E i \in 1 .. Len(stack') : stack'[i].kind = "exit"
  BY <1>5, <1>6
<1>9. Len(stack) = 0
  BY <1>1
<1>10. SearchTyped'
  BY <1>1, <1>2, <1>3, <1>4, <1>7 DEF SearchTyped
<1>11. MarksSayWhere'
  <2>1. \A r : ~Open(r) /\ ~Open(r)'
    BY <1>8, <1>9 DEF Open, IsExit
  <2> QED BY <1>1, <2>1 DEF Searching, MarksSayWhere, Ordered
<1>12. ExitsOnce' /\ RefsAbove'
  BY <1>8 DEF ExitsOnce, RefsAbove, IsExit
<1>13. PathsLead'
  <2> SUFFICES ASSUME NEW i \in 1 .. Len(stack')
               PROVE  LET p == stack'[i].path
                      IN p # << >> /\ p[Len(p)] = stack'[i].name /\ IsPath(plan', p)
    BY <1>8 DEF PathsLead, IsExit
  <2>1. i = 1 /\ stack'[i].path = <<h>> /\ stack'[i].name = h
    BY <1>5, <1>6
  <2>2. Len(<<h>>) = 1 /\ <<h>>[1] = h /\ <<h>> # << >>
    OBVIOUS
  <2>3. IsPath(plan', <<h>>)
    BY <2>2 DEF IsPath
  <2> QED BY <2>1, <2>2, <2>3
<1>14. NoneForgotten'
  <2> SUFFICES ASSUME NEW r \in Res PROVE Awaited(r)'
    BY DEF NoneForgotten
  <2>1. Awaited(r) /\ ~ \E i \in 1 .. Len(stack) : stack[i].name = r
    BY <1>2, <1>9 DEF Searching, NoneForgotten
  <2>2. CASE marks[r] = "done"
    BY <1>1, <2>2 DEF Awaited
  <2>3. CASE r = h
    BY <1>1, <1>5, <1>6, <2>3 DEF Awaited
  <2>4. CASE r # h /\ \E i \in 1 .. Len(roots) : roots[i] = r
    <3>1. PICK i \in 1 .. Len(roots) : roots[i] = r /\ i # 1
      BY <1>4, <2>4
    <3>2. i - 1 \in 1 .. Len(roots') /\ (i - 1) + 1 = i
      BY <1>4, <3>1
    <3>3. roots'[i - 1] = r
      BY <1>4, <3>1, <3>2
    <3> QED BY <3>2, <3>3 DEF Awaited
  <2> QED BY <2>1, <2>2, <2>3, <2>4 DEF Awaited
<1>15. O!OrderIsTopological' /\ O!CycleIsReal'
  BY <1>1, OrderKept, CycleKept DEF Searching
<1> QED BY <1>10, <1>11, <1>12, <1>13, <1>14, <1>15 DEF Searching

LEMMA PopOpenSearch == ASSUME Searching, O!PopOpen PROVE Searching'
<1>1. /\ stack # << >> /\ cycle = << >> /\ Head(stack).kind = "enter"
      /\ marks[Head(stack).name] = "open" /\ cycle' = Head(stack).path
      /\ UNCHANGED <<plan, roots, stack, marks, order>>
  BY DEF O!PopOpen, O!Reopened
<1>2. plan \in Plans /\ plan # NoPlan
  BY <1>1, SearchPlan, StartupAssumption DEF O!OrderConstants
<1>3. stack \in Seq(Step) /\ Len(stack) \in Nat \ {0} /\ Head(stack) = stack[1] /\ stack[1] \in Step
  BY <1>1 DEF Searching, SearchTyped
<1> DEFINE p == stack[1].path
           r == stack[1].name
<1>4. IsEnter(1) /\ p \in Seq(Res) /\ r \in Res /\ 1 \in 1 .. Len(stack)
  BY <1>1, <1>3 DEF IsEnter, Step
<1>5. /\ p # << >> /\ p[Len(p)] = r /\ IsPath(plan, p)
      /\ \A j \in 2 .. Len(stack) : IsExit(j) =>
            \E k \in 1 .. Len(p) - 1 : p[k] = stack[j].name
  BY <1>3, <1>4 DEF Searching, PathsLead
<1>6. PICK j \in 1 .. Len(stack) : IsExit(j) /\ stack[j].name = r
  BY <1>1, <1>3, <1>4 DEF Searching, MarksSayWhere, Open
<1>7. j # 1
  BY <1>1, <1>3, <1>6 DEF IsExit
<1>8. \E k \in 1 .. Len(p) - 1 : p[k] = p[Len(p)]
  BY <1>3, <1>5, <1>6, <1>7
<1>9. O!CycleIsReal'
  BY <1>1, <1>3, <1>5, <1>8 DEF O!CycleIsReal, O!Last, IsPath
<1>10. SearchTyped'
  BY <1>1, <1>2, <1>3, <1>4 DEF Searching, SearchTyped
<1>11. MarksSayWhere' /\ ExitsOnce' /\ RefsAbove' /\ PathsLead' /\ NoneForgotten'
  BY <1>1, StackKept DEF Searching
<1>12. O!OrderIsTopological'
  BY <1>1, OrderKept DEF Searching
<1> QED BY <1>9, <1>10, <1>11, <1>12 DEF Searching

LEMMA PopDoneSearch == ASSUME Searching, O!PopDone PROVE Searching'
<1>1. /\ stack # << >> /\ cycle = << >> /\ Head(stack).kind = "enter"
      /\ marks[Head(stack).name] = "done" /\ stack' = Tail(stack)
      /\ UNCHANGED <<plan, roots, marks, order, cycle>>
  BY DEF O!PopDone
<1>2. plan \in Plans /\ plan # NoPlan /\ SearchTyped
  BY <1>1, SearchPlan, StartupAssumption DEF O!OrderConstants, Searching
<1>3. /\ stack' \in Seq(Step) /\ Len(stack) \in Nat \ {0} /\ Len(stack') = Len(stack) - 1
      /\ \A i \in 1 .. Len(stack') : i + 1 \in 1 .. Len(stack) /\ stack'[i] = stack[i + 1]
      /\ \A i \in 2 .. Len(stack) : i - 1 \in 1 .. Len(stack') /\ stack'[i - 1] = stack[i]
      /\ Head(stack) = stack[1] /\ stack[1] \in Step
  BY <1>1, <1>2, Popped
<1>4. \A i \in 1 .. Len(stack') : (IsExit(i)' <=> IsExit(i + 1)) /\ (IsEnter(i)' <=> IsEnter(i + 1))
  BY <1>3 DEF IsExit, IsEnter
<1>5. ~IsExit(1)
  BY <1>1, <1>3 DEF IsExit
<1>6. \A i \in 1 .. Len(stack) : i # 1 => i \in 2 .. Len(stack)
  BY <1>3
<1>7. SearchTyped'
  BY <1>1, <1>2, <1>3 DEF SearchTyped
<1>8. MarksSayWhere'
  <2>1. ASSUME NEW r \in Res PROVE Open(r)' <=> Open(r)
    <3>1. Open(r)' => Open(r)
      BY <1>3, <1>4 DEF Open
    <3>2. ASSUME Open(r) PROVE Open(r)'
      <4>1. PICK i \in 1 .. Len(stack) : IsExit(i) /\ stack[i].name = r
        BY <3>2 DEF Open
      <4>2. i - 1 \in 1 .. Len(stack') /\ stack'[i - 1] = stack[i]
        BY <1>3, <1>5, <1>6, <4>1
      <4> QED BY <4>1, <4>2 DEF Open, IsExit
    <3> QED BY <3>1, <3>2
  <2> QED BY <1>1, <2>1 DEF Searching, MarksSayWhere, Ordered
<1>9. ExitsOnce'
  <2>1. \A i, j \in 1 .. Len(stack') :
          /\ i \in Nat /\ j \in Nat
          /\ IsExit(i)' /\ IsExit(j)' /\ stack'[i].name = stack'[j].name => i + 1 = j + 1
    BY <1>3, <1>4 DEF Searching, ExitsOnce
  <2> QED BY <2>1 DEF ExitsOnce
<1>10. RefsAbove'
  <2> SUFFICES ASSUME NEW i \in 1 .. Len(stack'), IsExit(i)',
                      NEW q \in O!References(plan, stack'[i].name), marks[q] # "done"
               PROVE  \E j \in 1 .. i - 1 : stack'[j].name = q
    BY <1>1 DEF RefsAbove, O!References
  <2>1. IsExit(i + 1) /\ i + 1 \in 1 .. Len(stack) /\ stack'[i] = stack[i + 1]
    BY <1>3, <1>4
  <2>2. PICK j \in 1 .. (i + 1) - 1 : stack[j].name = q
    BY <2>1 DEF Searching, RefsAbove
  <2>3. j # 1
    BY <1>1, <1>3, <2>2
  <2>4. j \in 2 .. Len(stack) /\ j - 1 \in 1 .. i - 1
    BY <1>3, <2>1, <2>2, <2>3
  <2> QED BY <1>3, <2>2, <2>4
<1>11. PathsLead'
  <2> SUFFICES ASSUME NEW i \in 1 .. Len(stack'), IsEnter(i)'
               PROVE  LET p == stack'[i].path
                      IN /\ p # << >> /\ p[Len(p)] = stack'[i].name /\ IsPath(plan', p)
                         /\ \A j \in i + 1 .. Len(stack') : IsExit(j)' =>
                              \E k \in 1 .. Len(p) - 1 : p[k] = stack'[j].name
    BY DEF PathsLead
  <2>1. IsEnter(i + 1) /\ i + 1 \in 1 .. Len(stack) /\ stack'[i] = stack[i + 1]
    BY <1>3, <1>4
  <2> DEFINE p == stack[i + 1].path
  <2>2. /\ p # << >> /\ p[Len(p)] = stack[i + 1].name /\ IsPath(plan, p)
        /\ \A j \in (i + 1) + 1 .. Len(stack) : IsExit(j) =>
             \E k \in 1 .. Len(p) - 1 : p[k] = stack[j].name
    BY <2>1 DEF Searching, PathsLead
  <2>5. ASSUME NEW j \in i + 1 .. Len(stack'), IsExit(j)'
        PROVE  \E k \in 1 .. Len(p) - 1 : p[k] = stack'[j].name
    <3>1. j \in 1 .. Len(stack') /\ j + 1 \in (i + 1) + 1 .. Len(stack)
      BY <1>3
    <3>2. IsExit(j + 1) /\ stack'[j] = stack[j + 1]
      BY <1>3, <1>4, <2>5, <3>1
    <3> QED BY <2>2, <3>1, <3>2
  <2> QED BY <1>1, <2>1, <2>2, <2>5
<1>12. NoneForgotten'
  <2> SUFFICES ASSUME NEW r \in Res PROVE Awaited(r)'
    BY DEF NoneForgotten
  <2>1. Awaited(r)
    BY <1>2 DEF Searching, NoneForgotten
  <2>2. CASE \E i \in 1 .. Len(stack) : stack[i].name = r /\ i # 1
    BY <1>3, <1>6, <2>2 DEF Awaited
  <2> QED BY <1>1, <1>3, <2>1, <2>2 DEF Awaited
<1>13. O!OrderIsTopological' /\ O!CycleIsReal'
  BY <1>1, OrderKept, CycleKept DEF Searching
<1> QED BY <1>7, <1>8, <1>9, <1>10, <1>11, <1>12, <1>13 DEF Searching

LEMMA PopExitSearch == ASSUME Searching, O!PopExit PROVE Searching'
<1>1. /\ stack # << >> /\ cycle = << >> /\ Head(stack).kind = "exit" /\ stack' = Tail(stack)
      /\ marks' = [marks EXCEPT ![Head(stack).name] = "done"]
      /\ order' = Append(order, Head(stack).name)
      /\ UNCHANGED <<plan, roots, cycle>>
  BY DEF O!PopExit
<1>2. plan \in Plans /\ plan # NoPlan /\ SearchTyped
  BY <1>1, SearchPlan, StartupAssumption DEF O!OrderConstants, Searching
<1>3. /\ stack' \in Seq(Step) /\ Len(stack) \in Nat \ {0} /\ Len(stack') = Len(stack) - 1
      /\ \A i \in 1 .. Len(stack') : i + 1 \in 1 .. Len(stack) /\ stack'[i] = stack[i + 1]
      /\ \A i \in 2 .. Len(stack) : i - 1 \in 1 .. Len(stack') /\ stack'[i - 1] = stack[i]
      /\ Head(stack) = stack[1] /\ stack[1] \in Step
  BY <1>1, <1>2, Popped
<1>4. \A i \in 1 .. Len(stack') : (IsExit(i)' <=> IsExit(i + 1)) /\ (IsEnter(i)' <=> IsEnter(i + 1))
  BY <1>3 DEF IsExit, IsEnter
<1> SUFFICES ASSUME NEW r, r = stack[1].name, NEW n, n = Len(order) PROVE Searching'
  OBVIOUS
<1>5. IsExit(1) /\ r \in Res /\ 1 \in 1 .. Len(stack) /\ \A i \in 1 .. Len(stack) : i \in Nat
  BY <1>1, <1>3 DEF IsExit, Step
<1>6. \A i \in 1 .. Len(stack) : i # 1 => i \in 2 .. Len(stack)
  BY <1>3
<1>7. \A q \in Res : marks'[q] = IF q = r THEN "done" ELSE marks[q]
  BY <1>1, <1>2, <1>3 DEF SearchTyped
<1>8. /\ order \in Seq(Res) /\ n \in Nat /\ order' \in Seq(Res) /\ Len(order') = n + 1
      /\ order'[n + 1] = r /\ \A i \in 1 .. n : order'[i] = order[i]
  BY <1>1, <1>2, <1>3, <1>5 DEF SearchTyped
<1>9. stack[1].name = r /\ Len(order) = n
  OBVIOUS
<1>10. \A i \in 1 .. Len(stack) : IsExit(i) /\ stack[i].name = r => i = 1
  BY <1>5, <1>9 DEF Searching, ExitsOnce
<1>11. marks[r] = "open" /\ ~Ordered(r)
  BY <1>5, <1>9 DEF Searching, MarksSayWhere, Open
<1>12. SearchTyped'
  <2>1. marks' \in [Res -> {"none", "open", "done"}]
    BY <1>1, <1>2 DEF SearchTyped
  <2> QED BY <1>1, <1>2, <1>3, <1>8, <2>1 DEF SearchTyped
<1>13. \A q \in Res : Ordered(q)' <=> Ordered(q) \/ q = r
  <2>1. \A i \in 1 .. n + 1 : i \in 1 .. n \/ i = n + 1
    BY <1>8
  <2>2. 1 .. n \subseteq 1 .. n + 1 /\ n + 1 \in 1 .. n + 1
    BY <1>8
  <2> QED BY <1>8, <1>9, <2>1, <2>2 DEF Ordered
<1>14. MarksSayWhere'
  <2>1. ASSUME NEW q \in Res, q # r PROVE Open(q)' <=> Open(q)
    <3>1. Open(q)' => Open(q)
      BY <1>3, <1>4 DEF Open
    <3>2. ASSUME Open(q) PROVE Open(q)'
      <4>1. PICK i \in 1 .. Len(stack) : IsExit(i) /\ stack[i].name = q
        BY <3>2 DEF Open
      <4>2. i - 1 \in 1 .. Len(stack') /\ stack'[i - 1] = stack[i]
        BY <1>3, <1>6, <1>9, <2>1, <4>1
      <4> QED BY <4>1, <4>2 DEF Open, IsExit
    <3> QED BY <3>1, <3>2
  <2>2. ~Open(r)'
    <3>1. \A i \in 1 .. Len(stack') : i + 1 # 1
      OBVIOUS
    <3> QED BY <1>3, <1>4, <1>10, <3>1 DEF Open
  <2> QED BY <1>7, <1>13, <2>1, <2>2 DEF Searching, MarksSayWhere
<1>15. ExitsOnce'
  <2>1. \A i, j \in 1 .. Len(stack') :
          /\ i \in Nat /\ j \in Nat
          /\ IsExit(i)' /\ IsExit(j)' /\ stack'[i].name = stack'[j].name => i + 1 = j + 1
    BY <1>3, <1>4 DEF Searching, ExitsOnce
  <2> QED BY <2>1 DEF ExitsOnce
<1>16. RefsAbove'
  <2> SUFFICES ASSUME NEW i \in 1 .. Len(stack'), IsExit(i)',
                      NEW q \in O!References(plan, stack'[i].name), marks'[q] # "done"
               PROVE  \E j \in 1 .. i - 1 : stack'[j].name = q
    BY <1>1 DEF RefsAbove
  <2>1. IsExit(i + 1) /\ i + 1 \in 1 .. Len(stack) /\ stack'[i] = stack[i + 1]
    BY <1>3, <1>4
  <2>2. q \in Res
    <3>1. stack'[i].name \in Res
      <4>1. stack'[i] \in Step
        BY <1>3
      <4> QED BY <4>1 DEF Step
    <3> QED BY <1>2, <3>1, ReferencesOf
  <2>3. q # r /\ marks[q] # "done"
    BY <1>7, <2>2
  <2>4. PICK j \in 1 .. (i + 1) - 1 : stack[j].name = q
    BY <2>1, <2>3 DEF Searching, RefsAbove
  <2>5. j # 1
    BY <1>9, <2>3, <2>4
  <2>6. j \in 2 .. Len(stack) /\ j - 1 \in 1 .. i - 1
    BY <1>3, <2>1, <2>4, <2>5
  <2> QED BY <1>3, <2>4, <2>6
<1>17. PathsLead'
  <2> SUFFICES ASSUME NEW i \in 1 .. Len(stack'), IsEnter(i)'
               PROVE  LET p == stack'[i].path
                      IN /\ p # << >> /\ p[Len(p)] = stack'[i].name /\ IsPath(plan', p)
                         /\ \A j \in i + 1 .. Len(stack') : IsExit(j)' =>
                              \E k \in 1 .. Len(p) - 1 : p[k] = stack'[j].name
    BY DEF PathsLead
  <2>1. IsEnter(i + 1) /\ i + 1 \in 1 .. Len(stack) /\ stack'[i] = stack[i + 1]
    BY <1>3, <1>4
  <2> DEFINE p == stack[i + 1].path
  <2>2. /\ p # << >> /\ p[Len(p)] = stack[i + 1].name /\ IsPath(plan, p)
        /\ \A j \in (i + 1) + 1 .. Len(stack) : IsExit(j) =>
             \E k \in 1 .. Len(p) - 1 : p[k] = stack[j].name
    BY <2>1 DEF Searching, PathsLead
  <2>3. ASSUME NEW j \in i + 1 .. Len(stack'), IsExit(j)'
        PROVE  \E k \in 1 .. Len(p) - 1 : p[k] = stack'[j].name
    <3>1. j \in 1 .. Len(stack') /\ j + 1 \in (i + 1) + 1 .. Len(stack)
      BY <1>3
    <3>2. IsExit(j + 1) /\ stack'[j] = stack[j + 1]
      BY <1>3, <1>4, <2>3, <3>1
    <3> QED BY <2>2, <3>1, <3>2
  <2> QED BY <1>1, <2>1, <2>2, <2>3
<1>18. NoneForgotten'
  <2> SUFFICES ASSUME NEW q \in Res PROVE Awaited(q)'
    BY DEF NoneForgotten
  <2>1. Awaited(q)
    BY <1>2 DEF Searching, NoneForgotten
  <2>2. CASE q = r
    BY <1>7, <2>2 DEF Awaited
  <2>3. CASE q # r /\ \E i \in 1 .. Len(stack) : stack[i].name = q
    <3>1. PICK i \in 1 .. Len(stack) : stack[i].name = q
      BY <2>3
    <3>2. i - 1 \in 1 .. Len(stack') /\ stack'[i - 1] = stack[i]
      BY <1>3, <1>6, <1>9, <2>3, <3>1
    <3> QED BY <3>1, <3>2 DEF Awaited
  <2>4. CASE q # r /\ (marks[q] = "done" \/ \E i \in 1 .. Len(roots) : roots[i] = q)
    BY <1>1, <1>7, <2>4 DEF Awaited
  <2> QED BY <2>1, <2>2, <2>3, <2>4 DEF Awaited
<1>19. O!OrderIsTopological'
  <2>1. \A q \in O!References(plan, r) : \E j \in 1 .. n : order[j] = q
    <3> SUFFICES ASSUME NEW q \in O!References(plan, r) PROVE Ordered(q)
      BY <1>9 DEF Ordered
    <3>1. q \in Res
      BY <1>2, <1>5, ReferencesOf
    <3>2. marks[q] = "done" \/ \E j \in 1 .. 1 - 1 : stack[j].name = q
      BY <1>5, <1>9 DEF Searching, RefsAbove
    <3>3. marks[q] = "done"
      BY <3>2
    <3> QED BY <3>1, <3>3 DEF Searching, MarksSayWhere
  <2>2. \A i \in 1 .. n : order[i] # r
    BY <1>9, <1>11 DEF Ordered
  <2>3. /\ \A a, b \in 1 .. n : order[a] = order[b] => a = b
        /\ \A i \in 1 .. n : O!References(plan, order[i]) \subseteq {order[j] : j \in 1 .. i - 1}
    <3>1. DOMAIN order = 1 .. n
      BY <1>8, <1>9
    <3> QED BY <3>1 DEF Searching, O!OrderIsTopological, O!IsInjective
  <2>4. \A a, b \in 1 .. n + 1 : order'[a] = order'[b] => a = b
    BY <1>8, <2>2, <2>3
  <2>5. ASSUME NEW i \in 1 .. n + 1, NEW q \in O!References(plan, order'[i])
        PROVE  \E j \in 1 .. i - 1 : order'[j] = q
    <3>1. CASE i = n + 1
      <4>1. PICK j \in 1 .. n : order[j] = q
        BY <1>8, <2>1, <2>5, <3>1
      <4> QED BY <1>8, <3>1, <4>1
    <3>2. CASE i \in 1 .. n
      <4>1. order'[i] = order[i] /\ q \in O!References(plan, order[i])
        BY <1>8, <2>5, <3>2
      <4>2. PICK j \in 1 .. i - 1 : order[j] = q
        BY <2>3, <3>2, <4>1
      <4>3. j \in 1 .. n
        BY <1>8, <3>2
      <4> QED BY <1>8, <4>2, <4>3
    <3> QED BY <1>8, <3>1, <3>2
  <2>6. DOMAIN order' = 1 .. n + 1
    BY <1>8
  <2>7. \A i \in DOMAIN order' :
          O!References(plan, order'[i]) \subseteq {order'[j] : j \in 1 .. i - 1}
    BY <2>5, <2>6
  <2> QED BY <1>1, <2>4, <2>6, <2>7 DEF O!OrderIsTopological, O!IsInjective
<1>20. O!CycleIsReal'
  BY <1>1, CycleKept DEF Searching
<1> QED BY <1>12, <1>14, <1>15, <1>16, <1>17, <1>18, <1>19, <1>20 DEF Searching

LEMMA PopNewSearch == ASSUME Searching, O!PopNew PROVE Searching'
<1>1. /\ stack # << >> /\ cycle = << >> /\ Head(stack).kind = "enter"
      /\ marks[Head(stack).name] = "none"
      /\ marks' = [marks EXCEPT ![Head(stack).name] = "open"]
      /\ stack' = O!Pushed(Head(stack).name, Head(stack).path)
                    \o <<O!Exit(Head(stack).name)>> \o Tail(stack)
      /\ UNCHANGED <<plan, roots, order, cycle>>
  BY DEF O!PopNew
<1>2. plan \in Plans /\ plan # NoPlan /\ SearchTyped
  BY <1>1, SearchPlan, StartupAssumption DEF O!OrderConstants, Searching
<1> SUFFICES ASSUME NEW r, r = stack[1].name, NEW path, path = stack[1].path,
                    NEW pushed, pushed = O!Pushed(r, path),
                    NEW n, n = Len(pushed), NEW m, m = Len(stack)
             PROVE  Searching'
  OBVIOUS
<1>3. stack \in Seq(Step) /\ m \in Nat \ {0} /\ Head(stack) = stack[1] /\ stack[1] \in Step
  BY <1>1, <1>2 DEF SearchTyped
<1>4. r \in Res /\ path \in Seq(Res) /\ IsEnter(1)
  BY <1>1, <1>3 DEF IsEnter, Step
<1>5. /\ pushed \in Seq(Step)
      /\ \A i \in 1 .. n : /\ pushed[i].kind = "enter" /\ pushed[i].name \in O!References(plan, r)
                           /\ pushed[i].path = Append(path, pushed[i].name)
      /\ \A q \in O!References(plan, r) : \E i \in 1 .. n : pushed[i].name = q
  <2>1. pushed = O!Pushed(r, path) /\ n = Len(pushed)
    OBVIOUS
  <2>2. /\ O!Pushed(r, path) \in Seq(Step)
        /\ \A i \in 1 .. Len(O!Pushed(r, path)) :
              LET e == O!Pushed(r, path)[i]
              IN e.kind = "enter" /\ e.name \in O!References(plan, r) /\ e.path = Append(path, e.name)
        /\ \A q \in O!References(plan, r) :
              \E i \in 1 .. Len(O!Pushed(r, path)) : O!Pushed(r, path)[i].name = q
    BY ONLY <1>2, <1>4, PushedEntries
  <2> QED BY ONLY <2>1, <2>2
<1>6. O!Exit(r) \in Step /\ O!Exit(r).kind = "exit" /\ O!Exit(r).name = r
  BY <1>4 DEF O!Exit, Step
<1> DEFINE exit == O!Exit(r)
<1>7. stack' = pushed \o <<exit>> \o Tail(stack)
  BY <1>1, <1>3
<1> HIDE DEF exit
<1>8. exit \in Step /\ exit.kind = "exit" /\ exit.name = r
  BY <1>6 DEF exit
<1>9. /\ stack' \in Seq(Step) /\ n \in Nat /\ Len(stack') = n + m
      /\ \A i \in 1 .. n : stack'[i] = pushed[i]
      /\ stack'[n + 1] = exit
      /\ \A i \in 2 .. m : stack'[n + i] = stack[i]
  <2> SUFFICES ASSUME NEW s, s = stack, NEW t, t = stack'
               PROVE  /\ t \in Seq(Step) /\ n \in Nat /\ Len(t) = n + m
                      /\ (\A i \in 1 .. n : t[i] = pushed[i]) /\ t[n + 1] = exit
                      /\ \A i \in 2 .. m : t[n + i] = s[i]
    OBVIOUS
  <2>1. s \in Seq(Step) /\ s # << >> /\ pushed \in Seq(Step) /\ t = pushed \o <<exit>> \o Tail(s)
    BY <1>1, <1>3, <1>5, <1>7
  <2>2. n = Len(pushed) /\ m = Len(s)
    OBVIOUS
  <2>3. /\ t \in Seq(Step) /\ Len(pushed) \in Nat /\ Len(t) = Len(pushed) + Len(s)
        /\ (\A i \in 1 .. Len(pushed) : t[i] = pushed[i]) /\ t[Len(pushed) + 1] = exit
        /\ \A i \in 2 .. Len(s) : t[Len(pushed) + i] = s[i]
    BY ONLY <1>8, <2>1, Opened
  <2> QED BY ONLY <2>2, <2>3
<1>10. \A q \in Res : marks'[q] = IF q = r THEN "open" ELSE marks[q]
  BY <1>1, <1>2, <1>3 DEF SearchTyped
<1>11. path # << >> /\ path[Len(path)] = r /\ IsPath(plan, path)
       /\ \A j \in 2 .. m : IsExit(j) => \E k \in 1 .. Len(path) - 1 : path[k] = stack[j].name
  <2>1. 1 \in 1 .. Len(stack) /\ m = Len(stack) /\ path = stack[1].path /\ r = stack[1].name
    BY <1>3
  <2>2. PathsLead
    BY DEF Searching
  <2>3. LET p == stack[1].path
        IN /\ p # << >> /\ p[Len(p)] = stack[1].name /\ IsPath(plan, p)
           /\ \A j \in 1 + 1 .. Len(stack) : IsExit(j) =>
                \E k \in 1 .. Len(p) - 1 : p[k] = stack[j].name
    BY ONLY <1>4, <2>1, <2>2 DEF PathsLead
  <2> QED BY ONLY <2>1, <2>3
<1>12. stack[1].name = r /\ stack[1].path = path /\ marks[r] = "none" /\ ~IsExit(1)
  BY <1>1, <1>3 DEF IsExit
<1>13. \A i \in 1 .. Len(stack') : i \in 1 .. n \/ i = n + 1 \/ (i - n \in 2 .. m /\ n + (i - n) = i)
  BY <1>3, <1>9
<1>14. /\ \A i \in 1 .. n : i \in 1 .. Len(stack') /\ IsEnter(i)' /\ ~IsExit(i)'
       /\ n + 1 \in 1 .. Len(stack') /\ IsExit(n + 1)' /\ ~IsEnter(n + 1)'
       /\ \A i \in 2 .. m : /\ n + i \in 1 .. Len(stack')
                            /\ (IsExit(n + i)' <=> IsExit(i)) /\ (IsEnter(n + i)' <=> IsEnter(i))
  <2>1. ASSUME NEW i \in 1 .. n PROVE i \in 1 .. Len(stack') /\ stack'[i].kind = "enter"
    <3>1. n \in Nat /\ m \in Nat /\ Len(stack') = n + m /\ stack'[i] = pushed[i]
      BY <1>3, <1>9
    <3>2. pushed[i].kind = "enter"
      BY <1>5
    <3>3. i \in 1 .. n + m
      BY <3>1
    <3> QED BY <3>1, <3>2, <3>3
  <2>2. n + 1 \in 1 .. Len(stack') /\ stack'[n + 1].kind = "exit"
    BY <1>3, <1>8, <1>9
  <2>3. ASSUME NEW i \in 2 .. m
        PROVE  n + i \in 1 .. Len(stack') /\ i \in 1 .. Len(stack) /\ stack'[n + i].kind = stack[i].kind
    <3>1. n \in Nat /\ m \in Nat /\ Len(stack') = n + m /\ stack'[n + i] = stack[i] /\ m = Len(stack)
      BY <1>3, <1>9
    <3>2. n + i \in 1 .. n + m /\ i \in 1 .. m
      BY <3>1
    <3> QED BY <3>1, <3>2
  <2> QED BY <2>1, <2>2, <2>3 DEF IsExit, IsEnter
<1>15. m = Len(stack) /\ \A i \in 1 .. m : i = 1 \/ i \in 2 .. m
  BY <1>3
<1>24. \A i \in 1 .. Len(stack') : stack'[i] \in Step
  BY <1>9
<1>16. SearchTyped'
  <2>1. marks' \in [Res -> {"none", "open", "done"}]
    BY <1>1, <1>2 DEF SearchTyped
  <2> QED BY <1>1, <1>2, <1>9, <2>1 DEF SearchTyped
<1>17. MarksSayWhere'
  <2>1. Open(r)'
    BY <1>8, <1>9, <1>14 DEF Open
  <2>2. ASSUME NEW q \in Res, q # r PROVE Open(q)' <=> Open(q)
    <3>1. ASSUME Open(q)' PROVE Open(q)
      <4>1. PICK i \in 1 .. Len(stack') : IsExit(i)' /\ stack'[i].name = q
        BY <3>1 DEF Open
      <4>2. i - n \in 2 .. m /\ n + (i - n) = i
        BY <1>8, <1>9, <1>13, <1>14, <2>2, <4>1
      <4>3. IsExit(i - n) /\ stack[i - n].name = q
        BY <1>9, <1>14, <4>1, <4>2
      <4>4. i - n \in 1 .. Len(stack)
        BY <4>3 DEF IsExit
      <4> QED BY <4>3, <4>4 DEF Open
    <3>2. ASSUME Open(q) PROVE Open(q)'
      <4>1. PICK i \in 1 .. m : IsExit(i) /\ stack[i].name = q
        BY <1>15, <3>2 DEF Open
      <4>2. i \in 2 .. m
        BY <1>12, <1>15, <4>1
      <4> QED BY <1>9, <1>14, <4>1, <4>2 DEF Open
    <3> QED BY <3>1, <3>2
  <2>3. ~Ordered(r)
    BY <1>4, <1>12 DEF Searching, MarksSayWhere
  <2> QED BY <1>1, <1>10, <2>1, <2>2, <2>3 DEF Searching, MarksSayWhere, Ordered
<1>18. ~Open(r)
  BY <1>4, <1>12 DEF Searching, MarksSayWhere
<1>19. ExitsOnce'
  <2> SUFFICES ASSUME NEW i \in 1 .. Len(stack'), NEW j \in 1 .. Len(stack'),
                      IsExit(i)', IsExit(j)', stack'[i].name = stack'[j].name
               PROVE  i = j
    BY DEF ExitsOnce
  <2>1. ASSUME NEW k \in 1 .. Len(stack'), IsExit(k)', k # n + 1
        PROVE  /\ k - n \in 2 .. m /\ n + (k - n) = k /\ IsExit(k - n)
               /\ stack'[k].name = stack[k - n].name /\ k - n \in 1 .. Len(stack)
               /\ stack'[k].name # r
    <3>1. k - n \in 2 .. m /\ n + (k - n) = k
      BY <1>13, <1>14, <2>1
    <3>2. IsExit(k - n) /\ stack'[k].name = stack[k - n].name
      BY <1>9, <1>14, <2>1, <3>1
    <3>3. k - n \in 1 .. Len(stack)
      BY <3>2 DEF IsExit
    <3> QED BY <1>18, <3>1, <3>2, <3>3 DEF Open
  <2>2. stack'[n + 1].name = r
    BY <1>8, <1>9
  <2>3. CASE i # n + 1 /\ j # n + 1
    <3>1. i - n = j - n
      BY <2>1, <2>3 DEF Searching, ExitsOnce
    <3>2. i \in Nat /\ j \in Nat
      OBVIOUS
    <3> QED BY <1>9, <3>1, <3>2
  <2> QED BY <2>1, <2>2, <2>3
<1>20. RefsAbove'
  <2> SUFFICES ASSUME NEW i \in 1 .. Len(stack'), IsExit(i)',
                      NEW q \in O!References(plan, stack'[i].name), marks'[q] # "done"
               PROVE  \E j \in 1 .. i - 1 : stack'[j].name = q
    BY <1>1 DEF RefsAbove
  <2>1. CASE i = n + 1
    <3>1. PICK j \in 1 .. n : pushed[j].name = q
      BY <1>5, <1>8, <1>9, <2>1
    <3> QED BY <1>9, <2>1, <3>1
  <2>2. CASE i # n + 1
    <3>1. i - n \in 2 .. m /\ n + (i - n) = i
      BY <1>13, <1>14, <2>2
    <3>2. IsExit(i - n) /\ stack'[i] = stack[i - n]
      BY <1>9, <1>14, <3>1
    <3>3. q \in Res
      <4>1. stack'[i].name \in Res
        BY <1>9, <1>24 DEF Step
      <4> QED BY <1>2, <4>1, ReferencesOf
    <3>4. marks[q] # "done"
      BY <1>10, <1>12, <3>3
    <3>5. i - n \in 1 .. Len(stack)
      BY <3>2 DEF IsExit
    <3>6. PICK j \in 1 .. (i - n) - 1 : stack[j].name = q
      BY <3>2, <3>4, <3>5 DEF Searching, RefsAbove
    <3>7. CASE j = 1
      <4>1. n + 1 \in 1 .. i - 1 /\ stack'[n + 1].name = q
        BY <1>8, <1>9, <1>12, <3>1, <3>6, <3>7
      <4> QED BY <4>1
    <3>8. CASE j # 1
      <4>1. j \in 2 .. m /\ n + j \in 1 .. i - 1
        BY <1>9, <3>1, <3>6, <3>8
      <4> QED BY <1>9, <3>6, <4>1
    <3> QED BY <3>7, <3>8
  <2> QED BY <2>1, <2>2
<1>21. PathsLead'
  <2> SUFFICES ASSUME NEW i \in 1 .. Len(stack'), IsEnter(i)'
               PROVE  LET p == stack'[i].path
                      IN /\ p # << >> /\ p[Len(p)] = stack'[i].name /\ IsPath(plan', p)
                         /\ \A j \in i + 1 .. Len(stack') : IsExit(j)' =>
                              \E k \in 1 .. Len(p) - 1 : p[k] = stack'[j].name
    BY DEF PathsLead
  <2> DEFINE p == stack'[i].path
             l == Len(path)
  <2>1. CASE i \in 1 .. n
    <3>1. p = Append(path, stack'[i].name) /\ stack'[i].name \in O!References(plan, r)
      BY <1>5, <1>9, <2>1
    <3>2. stack'[i].name \in Res
      BY <1>9, <1>24 DEF Step
    <3>3. path \in Seq(Res) /\ l \in Nat \ {0}
      BY <1>4, <1>11
    <3> HIDE DEF p, l
    <3>4. Append(path, stack'[i].name) \in Seq(Res)
      BY <3>2, <3>3
    <3>5. p \in Seq(Res) /\ Len(p) = l + 1 /\ p[l + 1] = stack'[i].name
          /\ (\A k \in 1 .. l : p[k] = path[k]) /\ p # << >>
      BY <3>1, <3>2, <3>3 DEF l
    <3>6. path[l] = r /\ p[l] = r /\ l \in 1 .. l
      <4>1. path[l] = r
        BY <1>11 DEF l
      <4>2. l \in 1 .. l
        BY <3>3
      <4> QED BY <3>5, <4>1, <4>2
    <3>7. \A k \in 1 .. l - 1 : path[k + 1] \in O!References(plan, path[k])
      BY <1>11 DEF IsPath, l
    <3>8. ASSUME NEW k \in 1 .. (l + 1) - 1 PROVE p[k + 1] \in O!References(plan, p[k])
      <4>1. CASE k = l
        BY <3>1, <3>5, <3>6, <4>1
      <4>2. CASE k # l
        <5>1. k \in 1 .. l - 1 /\ k + 1 \in 1 .. l /\ k \in 1 .. l
          BY <3>3, <4>2
        <5> QED BY <3>5, <3>7, <5>1
      <4> QED BY <4>1, <4>2
    <3>9. IsPath(plan', p)
      BY <1>1, <3>5, <3>8 DEF IsPath
    <3>10. ASSUME NEW j \in i + 1 .. Len(stack'), IsExit(j)'
           PROVE  \E k \in 1 .. (l + 1) - 1 : p[k] = stack'[j].name
      <4>1. j \in 1 .. Len(stack')
        BY <1>9, <2>1
      <4>2. CASE j = n + 1
        BY <1>8, <1>9, <3>3, <3>6, <4>2
      <4>3. CASE j # n + 1
        <5>1. j - n \in 2 .. m /\ n + (j - n) = j
          BY <1>13, <1>14, <3>10, <4>1, <4>3
        <5>2. IsExit(j - n) /\ stack'[j] = stack[j - n]
          BY <1>9, <1>14, <3>10, <5>1
        <5>3. PICK k \in 1 .. l - 1 : path[k] = stack[j - n].name
          BY <1>11, <5>1, <5>2 DEF l
        <5>4. k \in 1 .. l /\ k \in 1 .. (l + 1) - 1
          BY <3>3
        <5> QED BY <3>5, <5>2, <5>3, <5>4
      <4> QED BY <4>2, <4>3
    <3>11. p = stack'[i].path
      BY DEF p
    <3> QED BY <3>5, <3>9, <3>10, <3>11
  <2>2. CASE i \notin 1 .. n
    <3>1. i - n \in 2 .. m /\ n + (i - n) = i
      BY <1>13, <1>14, <2>2
    <3>2. IsEnter(i - n) /\ stack'[i] = stack[i - n]
      BY <1>9, <1>14, <3>1
    <3>3. i - n \in 1 .. Len(stack)
      BY <3>2 DEF IsEnter
    <3> HIDE DEF p
    <3>4. /\ p # << >> /\ p[Len(p)] = stack'[i].name /\ IsPath(plan, p)
          /\ \A j \in (i - n) + 1 .. Len(stack) : IsExit(j) =>
               \E k \in 1 .. Len(p) - 1 : p[k] = stack[j].name
      <4>1. p = stack[i - n].path /\ stack'[i].name = stack[i - n].name
        BY <3>2 DEF p
      <4>2. PathsLead
        BY DEF Searching
      <4>3. LET x == stack[i - n].path
            IN /\ x # << >> /\ x[Len(x)] = stack[i - n].name /\ IsPath(plan, x)
               /\ \A j \in (i - n) + 1 .. Len(stack) : IsExit(j) =>
                    \E k \in 1 .. Len(x) - 1 : x[k] = stack[j].name
        BY ONLY <3>2, <3>3, <4>2 DEF PathsLead
      <4> QED BY ONLY <4>1, <4>3
    <3>5. ASSUME NEW j \in i + 1 .. Len(stack'), IsExit(j)'
          PROVE  \E k \in 1 .. Len(p) - 1 : p[k] = stack'[j].name
      <4>1. j - n \in 2 .. m /\ n + (j - n) = j /\ j - n \in (i - n) + 1 .. Len(stack)
        BY <1>3, <1>9, <1>15, <3>1
      <4>2. IsExit(j - n) /\ stack'[j] = stack[j - n]
        BY <1>9, <1>14, <3>5, <4>1
      <4> QED BY <3>4, <4>1, <4>2
    <3>6. p = stack'[i].path
      BY DEF p
    <3> QED BY <1>1, <3>4, <3>5, <3>6
  <2> QED BY <2>1, <2>2
<1>22. NoneForgotten'
  <2> SUFFICES ASSUME NEW q \in Res PROVE Awaited(q)'
    BY DEF NoneForgotten
  <2>1. Awaited(q)
    BY <1>2 DEF Searching, NoneForgotten
  <2>2. CASE q = r
    BY <1>8, <1>9, <1>14, <2>2 DEF Awaited
  <2>3. CASE q # r /\ \E i \in 1 .. Len(stack) : stack[i].name = q
    <3>1. PICK i \in 2 .. m : stack[i].name = q
      BY <1>12, <1>15, <2>3
    <3> QED BY <1>9, <1>14, <3>1 DEF Awaited
  <2>4. CASE q # r /\ (marks[q] = "done" \/ \E i \in 1 .. Len(roots) : roots[i] = q)
    BY <1>1, <1>10, <2>4 DEF Awaited
  <2> QED BY <2>1, <2>2, <2>3, <2>4 DEF Awaited
<1>23. O!OrderIsTopological' /\ O!CycleIsReal'
  BY <1>1, OrderKept, CycleKept DEF Searching
<1> QED BY <1>16, <1>17, <1>19, <1>20, <1>21, <1>22, <1>23 DEF Searching

LEMMA ForgetSearch == ASSUME O!Forget PROVE Searching'
<1>1. /\ plan' = NoPlan /\ roots' = << >> /\ stack' = << >> /\ order' = << >> /\ cycle' = << >>
      /\ marks' = [r \in Res |-> "none"]
  BY DEF O!Forget
<1>2. SearchTyped' /\ NoneForgotten'
  BY <1>1 DEF SearchTyped, NoneForgotten
<1>3. MarksSayWhere' /\ ExitsOnce' /\ RefsAbove' /\ PathsLead'
  BY <1>1 DEF MarksSayWhere, ExitsOnce, RefsAbove, PathsLead, Ordered, Open, IsExit, IsEnter
<1>4. O!OrderIsTopological' /\ O!CycleIsReal'
  BY <1>1 DEF O!OrderIsTopological, O!IsInjective, O!CycleIsReal, O!Refused
<1> QED BY <1>2, <1>3, <1>4 DEF Searching

LEMMA FirstSearch == ASSUME O!Init PROVE Searching
<1>1. /\ plan \in Plans /\ roots = Names /\ stack = << >> /\ order = << >> /\ cycle = << >>
      /\ marks = [r \in Res |-> "none"]
  BY DEF O!Init
<1>2. Names \in Seq(Res) /\ O!ToSet(Names) = Res /\ NoPlan \notin Plans
  BY StartupAssumption DEF O!OrderConstants
<1>3. SearchTyped
  BY <1>1, <1>2 DEF SearchTyped
<1>4. NoneForgotten
  <2>1. \A r \in Res : \E i \in 1 .. Len(Names) : Names[i] = r
    BY <1>2 DEF O!ToSet
  <2> QED BY <1>1, <2>1 DEF NoneForgotten, Awaited
<1>5. MarksSayWhere /\ ExitsOnce /\ RefsAbove /\ PathsLead
  BY <1>1 DEF MarksSayWhere, ExitsOnce, RefsAbove, PathsLead, Ordered, Open, IsExit, IsEnter
<1>6. O!OrderIsTopological /\ O!CycleIsReal
  BY <1>1 DEF O!OrderIsTopological, O!IsInjective, O!CycleIsReal, O!Refused
<1> QED BY <1>3, <1>4, <1>5, <1>6 DEF Searching

LEMMA SearchKept == ASSUME Searching, UNCHANGED ordering PROVE Searching'
<1>1. UNCHANGED <<plan, roots, stack, marks, order, cycle>>
  BY DEF ordering
<1>2. SearchTyped'
  BY <1>1 DEF Searching, SearchTyped
<1>3. MarksSayWhere' /\ ExitsOnce' /\ RefsAbove' /\ PathsLead' /\ NoneForgotten'
  BY <1>1, StackKept DEF Searching
<1>4. O!OrderIsTopological' /\ O!CycleIsReal'
  BY <1>1, OrderKept, CycleKept DEF Searching
<1> QED BY <1>2, <1>3, <1>4 DEF Searching

LEMMA AlwaysSearching == Spec => []Searching
<1>1. Init => Searching
  BY FirstSearch DEF Init
<1>2. Searching /\ [Next]_vars => Searching'
  <2> SUFFICES ASSUME Searching, [Next]_vars PROVE Searching'
    OBVIOUS
  <2>1. CASE Order
    BY <2>1, NextRootSearch, PopExitSearch, PopDoneSearch, PopOpenSearch, PopNewSearch
       DEF Order, O!Next
  <2>2. CASE BuildResolvers
    BY <2>2, ForgetSearch DEF BuildResolvers
  <2>3. CASE BuildTable \/ BuildListeners \/ Probe \/ Ended \/ UNCHANGED vars
    BY <2>3, SearchKept DEF BuildTable, BuildListeners, Probe, Ended, vars
  <2> QED BY <2>1, <2>2, <2>3 DEF Next
<1> QED BY <1>1, <1>2, PTL DEF Spec

LEMMA CountedResolvers ==
  /\ IsFiniteSet(Res) /\ O!Cardinality(Res) = Cardinality(Res) /\ O!Cardinality(Res) \in Nat
<1>1. IsFiniteSet(Res)
  BY StartupAssumption DEF O!OrderConstants, O!IsFiniteSet, IsFiniteSet
<1>2. O!Cardinality(Res) = Cardinality(Res)
  BY DEF O!Cardinality, Cardinality
<1> QED BY <1>1, <1>2, FS_CardinalityType

(* A resolver on a cycle would have to rank below itself. *)
LEMMA RefusedIsCyclic ==
  ASSUME Searching, plan \in Plans, O!Refused
  PROVE  ~O!Acyclic(plan)
<1> SUFFICES ASSUME O!Acyclic(plan) PROVE FALSE
  OBVIOUS
<1>1. PICK rank \in [Res -> 1 .. O!Cardinality(Res)] :
        \A r \in Res : \A q \in O!References(plan, r) : rank[q] < rank[r]
  BY DEF O!Acyclic
<1>2. O!Cardinality(Res) \in Nat
  BY CountedResolvers
<1>3. ASSUME NEW r \in Res PROVE rank[r] \in Int
  <2>1. rank[r] \in 1 .. O!Cardinality(Res)
    OBVIOUS
  <2> QED BY ONLY <1>2, <2>1
<1>4. Len(cycle) \in Nat /\ \A k \in 1 .. Len(cycle) : cycle[k] \in Res
  <2>1. cycle \in Seq(Res)
    BY DEF Searching, SearchTyped
  <2> QED BY <2>1
<1>5. \A k \in 1 .. Len(cycle) - 1 : cycle[k + 1] \in O!References(plan, cycle[k])
  BY DEF Searching, O!CycleIsReal
<1>6. PICK i \in 1 .. Len(cycle) - 1 : cycle[i] = cycle[Len(cycle)]
  BY DEF Searching, O!CycleIsReal, O!Last
<1>7. ASSUME NEW k \in 1 .. Len(cycle) - 1 PROVE rank[cycle[k + 1]] < rank[cycle[k]]
  BY <1>1, <1>4, <1>5
<1> DEFINE Above == {k \in i + 1 .. Len(cycle) : ~(rank[cycle[k]] < rank[cycle[i]])}
<1>8. Above = {}
  <2> SUFFICES ASSUME Above # {} PROVE FALSE
    OBVIOUS
  <2>1. Above \subseteq Nat
    BY <1>4
  <2>2. PICK k \in Above : \A l \in Above : k <= l
    <3>1. \E k \in Above : \A l \in Above : k <= l
      <4> HIDE DEF Above
      <4> QED BY ONLY Above # {}, <2>1, NothingAsked, RP!LeastElement
    <3> QED BY <3>1
  <2>3. k \in i + 1 .. Len(cycle) /\ k \in Nat /\ ~(rank[cycle[k]] < rank[cycle[i]])
    BY <1>4
  <2>4. CASE k = i + 1
    BY <1>7, <2>3, <2>4
  <2>5. CASE k # i + 1
    <3>1. k - 1 \in i + 1 .. Len(cycle) /\ k - 1 \in 1 .. Len(cycle) - 1 /\ (k - 1) + 1 = k
      BY <1>4, <2>3, <2>5
    <3>2. k - 1 \notin Above
      BY <2>2, <2>3
    <3>3. rank[cycle[k - 1]] < rank[cycle[i]]
      BY <3>1, <3>2
    <3>4. rank[cycle[k]] < rank[cycle[k - 1]]
      BY <1>7, <3>1
    <3>5. cycle[k] \in Res /\ cycle[k - 1] \in Res /\ cycle[i] \in Res
      BY <1>4, <2>3, <3>1
    <3> QED BY <1>3, <2>3, <3>3, <3>4, <3>5
  <2> QED BY <2>4, <2>5
<1>9. Len(cycle) \in i + 1 .. Len(cycle) /\ i \in 1 .. Len(cycle)
  BY <1>4
<1>10. rank[cycle[Len(cycle)]] < rank[cycle[i]]
  BY <1>8, <1>9
<1> QED BY <1>3, <1>4, <1>6, <1>9, <1>10

(* When nothing is left to visit every resolver is ordered, and its place   *)
(* in the order ranks it above what it refers to.                          *)
LEMMA CompleteIsAcyclic ==
  ASSUME Searching, plan \in Plans, O!Finished, ~O!Refused
  PROVE  O!Acyclic(plan) /\ O!ToSet(order) = Res
<1> DEFINE n == Len(order)
<1>1. /\ roots = << >> /\ stack = << >> /\ order \in Seq(Res) /\ n \in Nat /\ DOMAIN order = 1 .. n
      /\ \A i \in 1 .. n : order[i] \in Res
  BY DEF O!Finished, O!Refused, Searching, SearchTyped
<1>2. plan # NoPlan
  BY StartupAssumption DEF O!OrderConstants
<1>3. ASSUME NEW r \in Res PROVE \E i \in 1 .. n : order[i] = r
  <2>1. Awaited(r)
    BY <1>2 DEF Searching, NoneForgotten
  <2>2. marks[r] = "done"
    BY <1>1, <2>1 DEF Awaited
  <2> QED BY <2>2 DEF Searching, MarksSayWhere, Ordered
<1>4. O!ToSet(order) = Res
  BY <1>1, <1>3 DEF O!ToSet
<1>5. /\ \A i, j \in 1 .. n : order[i] = order[j] => i = j
      /\ \A i \in 1 .. n : \A q \in O!References(plan, order[i]) : \E j \in 1 .. i - 1 : order[j] = q
  BY <1>1 DEF Searching, O!OrderIsTopological, O!IsInjective
<1> DEFINE rank == [r \in Res |-> CHOOSE i \in 1 .. n : order[i] = r]
<1>6. ASSUME NEW r \in Res PROVE rank[r] \in 1 .. n /\ order[rank[r]] = r
  BY <1>3
<1>7. n <= O!Cardinality(Res)
  <2>1. IsFiniteSet(1 .. n) /\ Cardinality(1 .. n) = n
    <3>1. /\ IsFiniteSet(1 .. n)
          /\ Cardinality(1 .. n) = IF 1 > n THEN 0 ELSE n - 1 + 1
      BY <1>1, FS_Interval
    <3> QED BY <1>1, <3>1
  <2>2. order \in [1 .. n -> Res]
    BY <1>1
  <2>3. ASSUME Cardinality(Res) < Cardinality(1 .. n) PROVE FALSE
    <3>1. \E x, y \in 1 .. n : x # y /\ order[x] = order[y]
      <4> HIDE DEF n
      <4> QED BY ONLY <2>1, <2>2, <2>3, CountedResolvers, FS_PigeonHole
    <3> QED BY <1>5, <3>1
  <2> QED BY <1>1, <2>1, <2>3, CountedResolvers
<1>8. \A c \in Nat : c >= n => \A x \in 1 .. n : x \in 1 .. c
  BY <1>1
<1>9. O!Cardinality(Res) \in Nat
  BY CountedResolvers
<1>10. rank \in [Res -> 1 .. O!Cardinality(Res)]
  <2>1. \A r \in Res : rank[r] \in 1 .. O!Cardinality(Res)
    <3> HIDE DEF rank, n
    <3> QED BY <1>1, <1>6, <1>7, <1>8, <1>9
  <2> QED BY <2>1
<1>11. ASSUME NEW r \in Res, NEW q \in O!References(plan, r) PROVE rank[q] < rank[r]
  <2>1. q \in Res
    BY ReferencesOf
  <2>2. rank[r] \in 1 .. n /\ order[rank[r]] = r /\ rank[q] \in 1 .. n /\ order[rank[q]] = q
    BY <1>6, <2>1
  <2> HIDE DEF rank, n
  <2>3. PICK j \in 1 .. rank[r] - 1 : order[j] = q
    BY <1>5, <2>2
  <2>4. j \in 1 .. n /\ j < rank[r]
    BY <1>1, <2>2
  <2>5. j = rank[q]
    BY <1>5, <2>2, <2>3, <2>4
  <2> QED BY <2>4, <2>5
<1>12. O!Acyclic(plan)
  <2> HIDE DEF rank, n
  <2> QED BY <1>10, <1>11 DEF O!Acyclic
<1> QED BY <1>4, <1>12

(* Whatever the table of resolvers: resolver_build_order refuses it exactly *)
(* when it is cyclic, over a path that is a cycle of it, and otherwise      *)
(* orders every resolver once and after all it refers to.                  *)
THEOREM OrderAnswersRight == Spec => []AnswerIsRight
<1>1. Searching => AnswerIsRight
  <2> SUFFICES ASSUME Searching PROVE O!VerdictExact
    BY DEF AnswerIsRight, O!AnswerIsRight, Searching
  <2> SUFFICES ASSUME plan # NoPlan, O!Finished
               PROVE  (O!Refused <=> ~O!Acyclic(plan)) /\ (~O!Refused => O!ToSet(order) = Res)
    BY DEF O!VerdictExact
  <2>1. plan \in Plans
    BY DEF Searching, SearchTyped
  <2> QED BY <2>1, RefusedIsCyclic, CompleteIsAcyclic
<1> QED BY <1>1, AlwaysSearching, PTL
=============================================================================
