-------------------------- MODULE CertMirrorProofs --------------------------
(***************************************************************************)
(* The routing table and the issuer.  The confinement tests of router.rs   *)
(* are sound: what they accept, no other route can claim.  The             *)
(* certificates the issuer hands out stay inside the scope of their route, *)
(* and are those it was promised to hand out (Issuer), for any number of   *)
(* listeners, tasks, hosts and restarts.                                   *)
(***************************************************************************)
EXTENDS CertMirror, TLAPS, WellFoundedInduction, SequenceTheorems

(* Every non-empty set of naturals has a least element. *)
LEMMA LeastElement ==
  ASSUME NEW T, T \subseteq Nat, T # {}
  PROVE  \E x \in T : \A y \in T : x <= y
<1> DEFINE R == OpToRel(<, Nat)
<1>1. IsWellFoundedOn(R, Nat)
  BY NatLessThanWellFounded
<1>2. PICK x \in T : \A y \in T : <<y, x>> \notin R
  <2> HIDE DEF R
  <2> QED BY <1>1, WFMin
<1>3. ASSUME NEW y \in T PROVE x <= y
  <2>1. <<y, x>> \notin R
    BY <1>2
  <2>2. ~(y < x)
    BY <2>1, x \in Nat, y \in Nat DEF OpToRel
  <2> QED BY <2>2, x \in Nat, y \in Nat
<1> QED BY <1>2, <1>3

(* FirstSome returns the entry at the first index that is not None. *)
LEMMA FirstSomeCases ==
  ASSUME NEW s, NEW n \in Nat, DOMAIN s = 1..n
  PROVE  \/ Hits(s) = {} /\ FirstSome(s) = NoRoute
         \/ \E i \in 1..n : /\ FirstSome(s) = s[i]
                            /\ s[i] # NoRoute
                            /\ \A j \in 1..n : j < i => s[j] = NoRoute
<1>1. CASE Hits(s) = {}
  BY <1>1 DEF FirstSome
<1>2. CASE Hits(s) # {}
  <2> DEFINE Least(i) == \A j \in Hits(s) : i <= j
  <2>1. Hits(s) \subseteq Nat /\ Hits(s) \subseteq 1..n
    BY DEF Hits
  <2>2. \E i \in Hits(s) : Least(i)
    BY <1>2, <2>1, LeastElement
  <2>3. PICK i \in Hits(s) : i = (CHOOSE k \in Hits(s) : Least(k)) /\ Least(i)
    BY <2>2
  <2>4. FirstSome(s) = s[i]
    BY <1>2, <2>3 DEF FirstSome
  <2>5. ASSUME NEW j \in 1..n, j < i PROVE s[j] = NoRoute
    <3>1. j \notin Hits(s)
      BY <2>1, <2>3, <2>5
    <3> QED BY <3>1 DEF Hits
  <2> QED BY <2>1, <2>4, <2>5 DEF Hits
<1> QED BY <1>1, <1>2

(* What stripping the leftmost label does to a name and to its ancestors. *)
LEMMA TailFacts ==
  ASSUME NEW h \in Domain, NEW p \in Domain, OneLabelAbove(h, p)
  PROVE  /\ Len(h) = Len(p) + 1
         /\ Len(p) \in Nat \ {0}
         /\ \A i \in 1..Len(p) : p[i] = h[i + 1]
<1>1. h \in Seq(Label) /\ h # << >> /\ Tail(h) = p /\ p \in Seq(Label) /\ p # << >>
  BY DEF Domain, OneLabelAbove
<1>2. Len(p) = Len(h) - 1 /\ \A i \in 1..Len(p) : p[i] = h[i + 1]
  BY <1>1, HeadTailProperties
<1>3. Len(h) \in Nat /\ Len(p) \in Nat /\ Len(p) # 0
  BY <1>1, LenProperties, EmptySeq
<1> QED BY <1>2, <1>3

LEMMA AncestorShift ==
  ASSUME NEW h \in Domain, NEW p \in Domain, OneLabelAbove(h, p),
         NEW i \in 1..Len(p)
  PROVE  Ancestor(h, i + 1) = Ancestor(p, i)
<1>1. /\ Len(h) = Len(p) + 1 /\ Len(p) \in Nat
      /\ \A k \in 1..Len(p) : p[k] = h[k + 1]
  BY TailFacts
<1>2. SubSeq(h, i + 1, Len(h)) = [k \in 1 .. (1 + Len(h) - (i + 1)) |-> h[k + (i + 1) - 1]]
  BY <1>1 DEF SubSeq
<1>3. SubSeq(p, i, Len(p)) = [k \in 1 .. (1 + Len(p) - i) |-> p[k + i - 1]]
  BY <1>1 DEF SubSeq
<1>4. 1 + Len(h) - (i + 1) = 1 + Len(p) - i
  BY <1>1
<1>5. \A k \in 1 .. (1 + Len(p) - i) : h[k + (i + 1) - 1] = p[k + i - 1]
  BY <1>1
<1> QED BY <1>2, <1>3, <1>4, <1>5 DEF Ancestor

LEMMA AncestorFirst ==
  ASSUME NEW h \in Domain
  PROVE  Ancestor(h, 1) = h
BY SubSeqFull DEF Ancestor, Domain

(* The walk from L.P and the walk from P agree when L.P is not a key. *)
LEMMA WalkShift ==
  ASSUME NEW m, IsMap(m), NEW h \in Domain, NEW p \in Domain,
         OneLabelAbove(h, p), h \notin DOMAIN m
  PROVE  SuffixWalk(m, h) = SuffixWalk(m, p)
<1> DEFINE sh == [i \in 1..Len(h) |-> Lookup(m, Ancestor(h, i))]
           sp == [i \in 1..Len(p) |-> Lookup(m, Ancestor(p, i))]
<1>1. Len(h) = Len(p) + 1 /\ Len(p) \in Nat
  BY TailFacts
<1>2. sh[1] = NoRoute
  BY <1>1, AncestorFirst DEF Lookup
<1>3. \A i \in 1..Len(p) : sh[i + 1] = sp[i]
  BY <1>1, AncestorShift
<1>4. DOMAIN sh = 1..Len(h) /\ DOMAIN sp = 1..Len(p)
  OBVIOUS
<1>5. SuffixWalk(m, h) = FirstSome(sh) /\ SuffixWalk(m, p) = FirstSome(sp)
  BY DEF SuffixWalk
<1> HIDE DEF sh, sp
<1>6. CASE Hits(sp) = {}
  <2>1. \A j \in 1..Len(h) : sh[j] = NoRoute
    <3> TAKE j \in 1..Len(h)
    <3>1. CASE j = 1
      BY <1>2, <3>1
    <3>2. CASE j # 1
      <4>1. j - 1 \in 1..Len(p) /\ sh[(j - 1) + 1] = sp[j - 1]
        BY <1>1, <1>3, <3>2
      <4>2. sp[j - 1] = NoRoute
        BY <1>4, <1>6, <4>1 DEF Hits
      <4> QED BY <4>1, <4>2
    <3> QED BY <3>1, <3>2
  <2>2. Hits(sh) = {}
    BY <1>4, <2>1 DEF Hits
  <2> QED BY <1>5, <1>6, <2>2 DEF FirstSome
<1>7. CASE Hits(sp) # {}
  <2>1. PICK i \in 1..Len(p) : /\ FirstSome(sp) = sp[i] /\ sp[i] # NoRoute
                               /\ \A j \in 1..Len(p) : j < i => sp[j] = NoRoute
    BY <1>1, <1>4, <1>7, FirstSomeCases
  <2>2. sh[i + 1] = sp[i] /\ i + 1 \in 1..Len(h)
    BY <1>1, <1>3
  <2>3. i + 1 \in Hits(sh)
    BY <1>4, <2>1, <2>2 DEF Hits
  <2>4. PICK k \in 1..Len(h) : /\ FirstSome(sh) = sh[k] /\ sh[k] # NoRoute
                               /\ \A j \in 1..Len(h) : j < k => sh[j] = NoRoute
    BY <1>1, <1>4, <2>3, FirstSomeCases
  <2>5. k # 1
    BY <1>2, <2>4
  <2>6. k - 1 \in 1..Len(p) /\ sh[(k - 1) + 1] = sp[k - 1]
    BY <1>1, <1>3, <2>5
  <2>7. ~(k - 1 < i)
    BY <2>1, <2>4, <2>6
  <2>8. ~(i + 1 < k)
    BY <2>1, <2>2, <2>4
  <2>9. k = i + 1
    BY <1>1, <2>7, <2>8
  <2> QED BY <1>5, <2>1, <2>2, <2>4, <2>9
<1> QED BY <1>6, <1>7

(* The five tiers of match_host and the two of the generic verdict, spelled out. *)
LEMMA FirstOfTwo ==
  ASSUME NEW a, NEW b
  PROVE  FirstSome(<<a, b>>) = IF a # NoRoute THEN a ELSE b
<1> DEFINE s == <<a, b>>
<1>1. DOMAIN s = 1..2 /\ s[1] = a /\ s[2] = b
  OBVIOUS
<1> HIDE DEF s
<1>2. CASE Hits(s) = {}
  <2>1. \A i \in 1..2 : s[i] = NoRoute
    BY <1>1, <1>2 DEF Hits
  <2>2. a = NoRoute /\ b = NoRoute
    BY <1>1, <2>1
  <2> QED BY <1>2, <2>2 DEF FirstSome, s
<1>3. CASE Hits(s) # {}
  <2>1. PICK i \in 1..2 : /\ FirstSome(s) = s[i] /\ s[i] # NoRoute
                          /\ \A j \in 1..2 : j < i => s[j] = NoRoute
    BY <1>1, <1>3, FirstSomeCases
  <2>2. i \in {1, 2}
    OBVIOUS
  <2> QED BY <1>1, <2>1, <2>2 DEF s
<1> QED BY <1>2, <1>3

LEMMA FirstOfFive ==
  ASSUME NEW a, NEW b, NEW c, NEW d, NEW e
  PROVE  FirstSome(<<a, b, c, d, e>>) =
           IF a # NoRoute THEN a ELSE IF b # NoRoute THEN b
           ELSE IF c # NoRoute THEN c ELSE IF d # NoRoute THEN d ELSE e
<1> DEFINE s == <<a, b, c, d, e>>
<1>1. DOMAIN s = 1..5 /\ s[1] = a /\ s[2] = b /\ s[3] = c /\ s[4] = d /\ s[5] = e
  OBVIOUS
<1> HIDE DEF s
<1>2. CASE Hits(s) = {}
  <2>1. \A i \in 1..5 : s[i] = NoRoute
    BY <1>1, <1>2 DEF Hits
  <2>2. a = NoRoute /\ b = NoRoute /\ c = NoRoute /\ d = NoRoute /\ e = NoRoute
    BY <1>1, <2>1
  <2> QED BY <1>2, <2>2 DEF FirstSome, s
<1>3. CASE Hits(s) # {}
  <2>1. PICK i \in 1..5 : /\ FirstSome(s) = s[i] /\ s[i] # NoRoute
                          /\ \A j \in 1..5 : j < i => s[j] = NoRoute
    BY <1>1, <1>3, FirstSomeCases
  <2>2. i \in {1, 2, 3, 4, 5}
    OBVIOUS
  <2> QED BY <1>1, <2>1, <2>2 DEF s
<1> QED BY <1>2, <1>3

(* A declared scope that covers some host of *.P overlaps P. *)
LEMMA OverlapComplete ==
  ASSUME NEW sp \in ScopePattern, NEW h \in Domain, NEW p \in Domain,
         OneLabelAbove(h, p), ScopeCovers(sp, h)
  PROVE  MatchScopePattern(sp, p)
<1>1. CASE sp.kind = "wildcard"
  BY <1>1 DEF ScopeCovers, MatchScopePattern, OneLabelAbove
<1>2. CASE sp.kind = "exact"
  BY <1>2 DEF ScopeCovers, MatchScopePattern
<1>3. CASE sp.kind = "suffix"
  <2>1. PICK i \in 1..Len(h) : Ancestor(h, i) = sp.dom
    BY <1>3 DEF ScopeCovers, IsSuffixOfOrEqual
  <2>2. CASE i = 1
    BY <1>3, <2>1, <2>2, AncestorFirst DEF MatchScopePattern
  <2>3. CASE i # 1
    <3>1. i - 1 \in 1..Len(p)
      BY <2>3, TailFacts
    <3>2. Ancestor(h, (i - 1) + 1) = Ancestor(p, i - 1)
      BY <3>1, AncestorShift
    <3>3. Ancestor(p, i - 1) = sp.dom
      BY <2>1, <3>1, <3>2
    <3> QED BY <1>3, <3>1, <3>3 DEF MatchScopePattern, IsSuffixOfOrEqual
  <2> QED BY <2>2, <2>3
<1> QED BY <1>1, <1>2, <1>3 DEF ScopePattern

(* The routes the tiers return. *)
LEMMA RegexTierRoute ==
  ASSUME NEW t, IsTable(t), NEW h \in Domain
  PROVE  \/ RegexTier(t, h) = NoRoute
         \/ \E i \in DOMAIN t.regex : RegexTier(t, h) = t.regex[i].route /\ h \in t.regex[i].lang
<1> DEFINE s == [i \in DOMAIN t.regex |->
                   IF h \in t.regex[i].lang THEN t.regex[i].route ELSE NoRoute]
<1>1. Len(t.regex) \in Nat /\ DOMAIN t.regex = 1..Len(t.regex)
  BY LenProperties DEF IsTable
<1>2. DOMAIN s = 1..Len(t.regex) /\ RegexTier(t, h) = FirstSome(s)
  BY <1>1 DEF RegexTier
<1>3. \A i \in DOMAIN t.regex : s[i] # NoRoute => h \in t.regex[i].lang /\ s[i] = t.regex[i].route
  OBVIOUS
<1> HIDE DEF s
<1> QED BY <1>1, <1>2, <1>3, FirstSomeCases

(* match_host returns a route of the listener or none. *)
LEMMA MatchHostType ==
  ASSUME NEW t, IsTable(t), NEW h \in Domain
  PROVE  MatchHost(t, h) \in RouteId \cup {NoRoute}
<1> DEFINE w == [i \in 1..Len(h) |-> Lookup(t.suffix, Ancestor(h, i))]
<1>1. \A m, d : IsMap(m) => Lookup(m, d) \in RouteId \cup {NoRoute}
  BY DEF Lookup, IsMap
<1>2. IsMap(t.exact) /\ IsMap(t.wildcard) /\ IsMap(t.suffix) /\ t.default \in RouteId \cup {NoRoute}
  BY DEF IsTable
<1>3. WildcardTier(t, h) \in RouteId \cup {NoRoute}
  BY <1>1, <1>2 DEF WildcardTier
<1>4. SuffixWalk(t.suffix, h) \in RouteId \cup {NoRoute}
  <2>1. Len(h) \in Nat /\ DOMAIN w = 1..Len(h)
    BY LenProperties DEF Domain
  <2>2. \A i \in 1..Len(h) : w[i] \in RouteId \cup {NoRoute}
    BY <1>1, <1>2
  <2>3. SuffixWalk(t.suffix, h) = FirstSome(w)
    BY DEF SuffixWalk
  <2> HIDE DEF w
  <2> QED BY <2>1, <2>2, <2>3, FirstSomeCases
<1>5. RegexTier(t, h) \in RouteId \cup {NoRoute}
  <2>1. \A i \in DOMAIN t.regex : t.regex[i] \in RegexRoute
    BY DEF IsTable
  <2> QED BY <2>1, RegexTierRoute DEF RegexRoute
<1>6. MatchHost(t, h) = FirstSome(<<Lookup(t.exact, h), WildcardTier(t, h), SuffixWalk(t.suffix, h),
                                    RegexTier(t, h), t.default>>)
  BY DEF MatchHost, Domain
<1>7. Lookup(t.exact, h) \in RouteId \cup {NoRoute}
  BY <1>1, <1>2
<1> QED BY <1>2, <1>3, <1>4, <1>5, <1>6, <1>7, FirstOfFive

(* wildcard_confined is sound: if it accepts *.P for the routes in `scope`, *)
(* then match_host sends every host L.P into `scope`.                       *)
THEOREM ConfinementSound ==
  ASSUME NEW t, IsTable(t), HonestTable(t),
         NEW p \in Domain, NEW scope \in SUBSET RouteId, WildcardConfined(t, p, scope),
         NEW h \in Domain, OneLabelAbove(h, p)
  PROVE  MatchHost(t, h) \in scope
<1>1. /\ \A k \in Named(t, p) : MatchHost(t, k) \in scope
      /\ Generic(t, p) # NoRoute => Generic(t, p) \in scope
      /\ Generic(t, p) = NoRoute => t.default \in scope /\ ~RegexOverlap(t, p, scope)
  BY DEF WildcardConfined, WildcardVerdict
<1>2. CASE h \in Named(t, p)
  BY <1>1, <1>2
<1>3. CASE h \notin Named(t, p)
  <2>1. h \notin DOMAIN t.exact /\ h \notin DOMAIN t.suffix
    BY <1>3 DEF Named
  <2>2. Lookup(t.exact, h) = NoRoute
    BY <2>1 DEF Lookup
  <2>3. WildcardTier(t, h) = Lookup(t.wildcard, p)
    <3>1. Len(h) > 1 /\ Tail(h) = p
      BY TailFacts DEF OneLabelAbove
    <3> QED BY <3>1 DEF WildcardTier
  <2>4. SuffixWalk(t.suffix, h) = SuffixWalk(t.suffix, p)
    BY <2>1, WalkShift DEF IsTable
  <2>5. h # << >>
    BY DEF Domain
  <2> DEFINE w == Lookup(t.wildcard, p)
             sw == SuffixWalk(t.suffix, p)
             rx == RegexTier(t, h)
  <2>6. MatchHost(t, h) = FirstSome(<<NoRoute, w, sw, rx, t.default>>)
    BY <2>2, <2>3, <2>4, <2>5 DEF MatchHost
  <2>7. MatchHost(t, h) = IF w # NoRoute THEN w ELSE IF sw # NoRoute THEN sw
                          ELSE IF rx # NoRoute THEN rx ELSE t.default
    <3> HIDE DEF w, sw, rx
    <3> QED BY <2>6, FirstOfFive
  <2>8. Generic(t, p) = IF w # NoRoute THEN w ELSE sw
    BY FirstOfTwo DEF Generic
  <2>9. CASE Generic(t, p) # NoRoute
    BY <1>1, <2>7, <2>8, <2>9
  <2>10. CASE Generic(t, p) = NoRoute
    <3>1. MatchHost(t, h) = IF rx # NoRoute THEN rx ELSE t.default
      BY <2>7, <2>8, <2>10
    <3>2. t.default \in scope /\ ~RegexOverlap(t, p, scope)
      BY <1>1, <2>10
    <3>3. CASE rx = NoRoute
      BY <3>1, <3>2, <3>3
    <3>4. CASE rx # NoRoute
      <4>1. PICK i \in DOMAIN t.regex : rx = t.regex[i].route /\ h \in t.regex[i].lang
        BY <3>4, RegexTierRoute
      <4>2. PICK sp \in t.regex[i].scope : ScopeCovers(sp, h)
        BY <4>1 DEF HonestTable, RegexHonest
      <4>3. sp \in ScopePattern
        <5>1. t.regex \in Seq(RegexRoute)
          BY DEF IsTable
        <5>2. t.regex[i] \in RegexRoute
          BY <5>1
        <5> QED BY <4>2, <5>2 DEF RegexRoute
      <4>4. MatchScopePattern(sp, p)
        BY <4>2, <4>3, OverlapComplete
      <4>5. t.regex[i].route \in scope
        BY <3>2, <4>2, <4>4 DEF RegexOverlap
      <4> QED BY <3>1, <3>4, <4>1, <4>5
    <3> QED BY <3>3, <3>4
  <2> QED BY <2>9, <2>10
<1> QED BY <1>2, <1>3

-----------------------------------------------------------------------------

(* What a set of regex routes decides for a host: the smallest route with  *)
(* a matching regex.                                                       *)
DecidedBy(R, h, v) ==
  \/ v = NoRoute /\ \A r \in R : h \notin r.lang
  \/ \E r \in R : /\ h \in r.lang /\ v = r.route
                  /\ r.route \in Nat /\ r.route # NoRoute
                  /\ \A q \in R : h \in q.lang => q.route \in Nat /\ r.route <= q.route

(* The regex tier is decided by the set of its regexes: because they are   *)
(* appended route by route, the first match belongs to the smallest        *)
(* matching route.                                                         *)
LEMMA RegexTierLeast ==
  ASSUME NEW t, IsTable(t), RegexInOrder(t), NEW h \in Domain
  PROVE  DecidedBy(Fingerprint(t).regex, h, RegexTier(t, h))
<1> DEFINE R == {t.regex[i] : i \in DOMAIN t.regex}
<1>0. Fingerprint(t).regex = R
  BY DEF Fingerprint
<1> DEFINE s == [i \in DOMAIN t.regex |->
                   IF h \in t.regex[i].lang THEN t.regex[i].route ELSE NoRoute]
<1>1. Len(t.regex) \in Nat /\ DOMAIN t.regex = 1..Len(t.regex)
  BY LenProperties DEF IsTable
<1>2. DOMAIN s = 1..Len(t.regex) /\ RegexTier(t, h) = FirstSome(s)
  BY <1>1 DEF RegexTier
<1>3. \A i \in DOMAIN t.regex : t.regex[i].route \in RouteId /\ t.regex[i].route \in Nat
  <2>1. \A i \in DOMAIN t.regex : t.regex[i] \in RegexRoute
    BY DEF IsTable
  <2> QED BY <2>1, RouterAssumption DEF RegexRoute
<1>4. \A i \in DOMAIN t.regex :
        /\ h \in t.regex[i].lang => s[i] = t.regex[i].route /\ s[i] # NoRoute
        /\ h \notin t.regex[i].lang => s[i] = NoRoute
  BY <1>3, RouterAssumption
<1> HIDE DEF s
<1>5. CASE Hits(s) = {}
  <2>1. \A i \in DOMAIN t.regex : h \notin t.regex[i].lang
    BY <1>1, <1>2, <1>4, <1>5 DEF Hits
  <2> QED BY <1>0, <1>2, <1>5, <2>1 DEF FirstSome, DecidedBy
<1>6. CASE Hits(s) # {}
  <2>1. PICK i \in 1..Len(t.regex) : /\ FirstSome(s) = s[i] /\ s[i] # NoRoute
                                     /\ \A j \in 1..Len(t.regex) : j < i => s[j] = NoRoute
    BY <1>1, <1>2, <1>6, FirstSomeCases
  <2>2. h \in t.regex[i].lang /\ s[i] = t.regex[i].route
    BY <1>1, <1>4, <2>1
  <2>3. ASSUME NEW j \in DOMAIN t.regex, h \in t.regex[j].lang
        PROVE  t.regex[i].route <= t.regex[j].route
    <3>1. ~(j < i)
      BY <1>1, <1>4, <2>1, <2>3
    <3>2. CASE i = j
      BY <1>1, <1>3, <3>2
    <3>3. CASE i < j
      BY <1>1, <3>3 DEF RegexInOrder
    <3> QED BY <1>1, <3>1, <3>2, <3>3
  <2>4. t.regex[i] \in R
    BY <1>1
  <2>5. \A q \in R : h \in q.lang => q.route \in Nat /\ t.regex[i].route <= q.route
    BY <1>3, <2>3
  <2> HIDE DEF R
  <2> QED BY <1>0, <1>1, <1>2, <1>3, <2>1, <2>2, <2>4, <2>5 DEF DecidedBy
<1> QED BY <1>5, <1>6

(* Equal fingerprints route every host alike (certscope.rs, the comment on *)
(* router_fingerprint, first half).                                        *)
THEOREM FingerprintDeterminesRouting ==
  ASSUME NEW t, IsTable(t), RegexInOrder(t), NEW u, IsTable(u), RegexInOrder(u),
         Fingerprint(t) = Fingerprint(u), NEW h \in Domain
  PROVE  MatchHost(t, h) = MatchHost(u, h)
<1>1. t.exact = u.exact /\ t.wildcard = u.wildcard /\ t.suffix = u.suffix /\ t.default = u.default
  BY DEF Fingerprint
<1>2. RegexTier(t, h) = RegexTier(u, h)
  <2>1. /\ DecidedBy(Fingerprint(t).regex, h, RegexTier(t, h))
        /\ DecidedBy(Fingerprint(t).regex, h, RegexTier(u, h))
    BY RegexTierLeast
  <2> QED BY <2>1 DEF DecidedBy
<1>3. WildcardTier(t, h) = WildcardTier(u, h)
  BY <1>1 DEF WildcardTier
<1> QED BY <1>1, <1>2, <1>3 DEF MatchHost

(* A scope shared by two configurations means the same to both. *)
LEMMA SameScope ==
  ASSUME ForwardingDetermined, NEW c \in Conf, NEW d \in Conf,
         NEW id \in RouteId, NEW jd \in RouteId, CertScope(c, id) = CertScope(d, jd)
  PROVE  /\ \A h \in Domain : MatchHost(c.table, h) = MatchHost(d.table, h)
         /\ InScope(c, id) = InScope(d, jd)
<1>1. IsConf(c) /\ IsConf(d)
  BY MirrorAssumption
<1>2. Fingerprint(c.table) = Fingerprint(d.table)
  BY DEF CertScope
<1>3. \A h \in Domain : MatchHost(c.table, h) = MatchHost(d.table, h)
  BY <1>1, <1>2, FingerprintDeterminesRouting DEF IsConf
<1>4. c.fwd = d.fwd
  BY <1>2 DEF ForwardingDetermined
<1>5. \A j \in RouteId : CertScope(c, j) = CertScope(d, j)
  BY <1>2, <1>4 DEF CertScope
<1>6. InScope(c, id) = InScope(d, jd)
  BY <1>5 DEF InScope
<1> QED BY <1>3, <1>6

LEMMA ConfinedIsSafe ==
  ASSUME ForwardingDetermined, NEW c \in Conf, NEW id \in RouteId,
         NEW sans, Confined(c, id, sans, Names),
         NEW k, k.scope = CertScope(c, id)
  PROVE  SafeSans(k, sans)
<1> SUFFICES ASSUME NEW d \in Conf, NEW jd \in RouteId, CertScope(d, jd) = k.scope,
                    NEW h \in Names, HostCoveredBy(sans, h)
             PROVE  MatchHost(d.table, h) \in InScope(d, jd)
  BY DEF SafeSans, Confined
<1>1. h \in Domain
  BY MirrorAssumption
<1>2. MatchHost(c.table, h) \in InScope(c, id)
  BY DEF Confined
<1>3. MatchHost(c.table, h) = MatchHost(d.table, h) /\ InScope(c, id) = InScope(d, jd)
  BY <1>1, SameScope
<1> QED BY <1>2, <1>3

(* A route is in its own scope. *)
LEMMA OwnScope ==
  ASSUME NEW c, NEW id \in RouteId
  PROVE  id \in InScope(c, id)
BY DEF InScope

LEMMA ExactConfined ==
  ASSUME NEW c, NEW h \in Domain, NEW id \in RouteId, id = MatchHost(c.table, h)
  PROVE  Confined(c, id, {Exact(h)}, Names)
<1> SUFFICES ASSUME NEW g \in Names, HostCoveredBy({Exact(h)}, g)
             PROVE  MatchHost(c.table, g) \in InScope(c, id)
  BY DEF Confined
<1>1. g = h
  BY DEF HostCoveredBy, SanCovers, Exact
<1> QED BY <1>1, OwnScope

(* clip keeps a certificate inside the scope of the route it is for. *)
THEOREM ClipConfined ==
  ASSUME NEW c, IsConf(c), NEW h \in Domain, NEW id \in RouteId, id = MatchHost(c.table, h),
         NEW o \in SUBSET SAN
  PROVE  Confined(c, id, ClipSans(c, id, h, o), Names)
<1> SUFFICES ASSUME NEW g \in Names, HostCoveredBy(ClipSans(c, id, h, o), g)
             PROVE  MatchHost(c.table, g) \in InScope(c, id)
  BY DEF Confined
<1>1. g \in Domain
  BY MirrorAssumption
<1>2. PICK s \in ClipSans(c, id, h, o) : SanCovers(s, g)
  BY DEF HostCoveredBy
<1>3. s = Exact(h) \/ (s \in o /\ Keep(c, id, s))
  BY DEF ClipSans
<1>4. CASE s = Exact(h)
  <2>1. g = h
    BY <1>2, <1>4 DEF SanCovers, Exact
  <2> QED BY <2>1, OwnScope
<1>5. CASE s \in o /\ Keep(c, id, s)
  <2>1. s.dom \in Domain
    BY <1>5 DEF SAN
  <2>2. CASE s.kind = "exact"
    BY <1>2, <1>5, <2>2 DEF SanCovers, Keep, NameConfined
  <2>3. CASE s.kind = "wildcard"
    <3>1. OneLabelAbove(g, s.dom)
      BY <1>2, <2>3 DEF SanCovers
    <3>2. WildcardConfined(c.table, s.dom, InScope(c, id))
      BY <1>5, <2>3 DEF Keep
    <3>3. InScope(c, id) \in SUBSET RouteId
      BY DEF InScope
    <3>4. IsTable(c.table) /\ HonestTable(c.table)
      BY DEF IsConf
    <3> QED BY <1>1, <2>1, <3>1, <3>2, <3>3, <3>4, ConfinementSound
  <2> QED BY <1>5, <2>2, <2>3 DEF Keep
<1> QED BY <1>3, <1>4, <1>5

----------------------------------------------------------------------------
(* The names a task signs are inside the scope of its route. *)
LEMMA SignedIsConfined ==
  ASSUME TypeOK, TaskInv, NEW t \in Task, pc[t] # "idle",
         NEW j, j = job[t], NEW c, c = conf[j.lst], NEW id, id = Owner(j.lst, j.key.host)
  PROVE  /\ c \in Conf /\ id \in RouteId /\ j.key.scope = CertScope(c, id)
         /\ SansFor(t) \in SUBSET SAN /\ Confined(c, id, SansFor(t), Names)
<1>1. /\ j.lst \in Listener /\ j.op \in {"serve", "record"} /\ j.key \in Key
      /\ Routed(j.lst, j.key.host) /\ j.key = KeyOf(j.lst, j.key.host)
      /\ j.op = "record" => j.obs \in Observation
  BY DEF TaskInv, Job
<1>2. j.key.host \in Domain
  BY <1>1, MirrorAssumption DEF Key
<1>3. c \in Conf
  BY <1>1 DEF TypeOK, Conf
<1>4. IsConf(c) /\ IsTable(c.table)
  BY <1>3, MirrorAssumption DEF IsConf
<1>5. id = MatchHost(c.table, j.key.host)
  BY DEF Owner
<1>6. id \in RouteId
  <2>1. id # NoRoute
    BY <1>1 DEF Routed
  <2>2. MatchHost(c.table, j.key.host) \in RouteId \cup {NoRoute}
    BY <1>2, <1>4, MatchHostType
  <2> QED BY <1>5, <2>1, <2>2
<1>7. j.key.scope = CertScope(c, id)
  BY <1>1 DEF KeyOf
<1>8. Exact(j.key.host) \in SAN
  BY <1>2 DEF Exact, SAN
<1>9. CASE j.op = "serve"
  <2>1. SansFor(t) = {Exact(j.key.host)}
    BY <1>9 DEF SansFor
  <2>2. Confined(c, id, SansFor(t), Names)
    BY <1>2, <1>5, <1>6, <2>1, ExactConfined
  <2> QED BY <1>3, <1>6, <1>7, <1>8, <2>1, <2>2
<1>10. CASE j.op = "record"
  <2>1. SansFor(t) = ClipSans(c, id, j.key.host, j.obs)
    BY <1>10 DEF SansFor
  <2>2. j.obs \in SUBSET SAN
    BY <1>1, <1>10, MirrorAssumption
  <2>3. Confined(c, id, SansFor(t), Names)
    BY <1>2, <1>4, <1>5, <1>6, <2>1, <2>2, ClipConfined
  <2>4. SansFor(t) \in SUBSET SAN
    BY <1>8, <2>1, <2>2 DEF ClipSans
  <2> QED BY <1>3, <1>6, <1>7, <2>3, <2>4
<1> QED BY <1>1, <1>9, <1>10

(* They may be served under its key by whoever uses that key. *)
LEMMA SignedIsSafe ==
  ASSUME ForwardingDetermined, TypeOK, TaskInv, NEW t \in Task, pc[t] # "idle"
  PROVE  SafeSans(job[t].key, SansFor(t))
BY SignedIsConfined, ConfinedIsSafe

(* A call that starts knows the key of its host. *)
LEMMA KeyOfType ==
  ASSUME TypeOK, NEW l \in Listener, NEW h \in Host, Routed(l, h)
  PROVE  /\ KeyOf(l, h) \in Key
         /\ KeyOf(l, h).host = h
<1>1. conf[l] \in Conf /\ IsTable(conf[l].table)
  BY MirrorAssumption DEF TypeOK, Conf, IsConf
<1>2. h \in Domain
  BY MirrorAssumption
<1>3. Owner(l, h) \in RouteId
  BY <1>1, <1>2, MatchHostType DEF Routed, Owner
<1> QED BY <1>1, <1>3 DEF KeyOf, Key

(* What TaskInv says of one job, with the configuration made explicit. *)
JobOK(cf, j) ==
  LET id == MatchHost(cf[j.lst].table, j.key.host)
  IN /\ j \in Job
     /\ id # NoRoute /\ id \notin cf[j.lst].pinned
     /\ j.key = [scope |-> CertScope(cf[j.lst], id), host |-> j.key.host]
     /\ j.op = "record" => j.obs \in Observation

TaskFacts(cf, p, j, c) ==
  \A t \in Task : /\ p[t] # "idle" => JobOK(cf, j[t])
                  /\ p[t] \in Holding => c[t] \in Cert

LEMMA TaskInvFacts ==
  /\ TaskInv <=> TaskFacts(conf, pc, job, cert)
  /\ TaskInv' <=> TaskFacts(conf', pc', job', cert')
BY DEF TaskInv, TaskFacts, JobOK, Routed, Owner, KeyOf

LEMMA InitIInv == Init => IInv
<1> SUFFICES ASSUME Init PROVE IInv
  OBVIOUS
<1>1. TypeOK
  BY MirrorAssumption DEF Init, TypeOK, EmptyFiles, Obs
<1>2. TaskInv
  BY DEF Init, TaskInv, Holding
<1>3. SafeEverywhere
  BY DEF Init, SafeEverywhere, EmptyFiles, Holding
<1> QED BY <1>1, <1>2, <1>3 DEF IInv

(* The inductive step of TypeOK and TaskInv. *)
LEMMA TypeStep ==
  ASSUME TypeOK, TaskInv, Next
  PROVE  TypeOK' /\ TaskInv'
<1>1. TaskFacts(conf, pc, job, cert)
  BY TaskInvFacts
<1>2. SUFFICES TypeOK' /\ TaskFacts(conf', pc', job', cert')
  BY TaskInvFacts
<1> USE DEF Environment
<1>3. ASSUME NEW t \in Task, NEW l \in Listener, NEW h \in Host, StartServe(t, l, h)
      PROVE  TypeOK' /\ TaskFacts(conf', pc', job', cert')
  <2> DEFINE k == KeyOf(l, h)
             new == [op |-> "serve", lst |-> l, key |-> k, obs |-> NoObs, gen |-> lockgen[k]]
  <2>1. k \in Key /\ k.host = h /\ Routed(l, h)
    BY <1>3, KeyOfType DEF StartServe
  <2>2. new \in Job
    BY <2>1 DEF Job, TypeOK, Obs
  <2>3. JobOK(conf, new)
    BY <2>1, <2>2 DEF JobOK, Routed, Owner, KeyOf
  <2>4. cache[k] # NoCert => cache[k].cert \in Cert
    BY <2>1 DEF TypeOK, CachedCert
  <2>5. /\ UNCHANGED <<conf, upstream, presented, restarts, rotations, cache, disk, lockgen>>
        /\ job' = [job EXCEPT ![t] = new]
        /\ \/ /\ cache[k] # NoCert
              /\ pc' = [pc EXCEPT ![t] = "served"]
              /\ cert' = [cert EXCEPT ![t] = cache[k].cert]
           \/ /\ cache[k] = NoCert
              /\ pc' = [pc EXCEPT ![t] = "lock"]
              /\ UNCHANGED cert
    BY <1>3 DEF StartServe
  <2> HIDE DEF k, new
  <2>6. TypeOK'
    BY <2>2, <2>4, <2>5 DEF TypeOK
  <2>7. TaskFacts(conf', pc', job', cert')
    BY <1>1, <2>3, <2>4, <2>5 DEF TaskFacts, Holding, TypeOK
  <2> QED BY <2>6, <2>7
<1>4. ASSUME NEW t \in Task, NEW l \in Listener, NEW h \in Host, Observe(t, l, h)
      PROVE  TypeOK' /\ TaskFacts(conf', pc', job', cert')
  <2> DEFINE k == KeyOf(l, h)
             o == upstream[conf[l].fwd[Owner(l, h)]][h]
             new == [op |-> "record", lst |-> l, key |-> k, obs |-> o, gen |-> 0]
  <2>1. k \in Key /\ k.host = h /\ Routed(l, h)
    BY <1>4, KeyOfType DEF Observe
  <2>2. o \in Observation
    BY <1>4 DEF Observe, TypeOK
  <2>3. new \in Job
    BY <2>1, <2>2 DEF Job, Obs
  <2>4. JobOK(conf, new)
    BY <2>1, <2>2, <2>3 DEF JobOK, Routed, Owner, KeyOf
  <2>5. /\ UNCHANGED <<conf, upstream, presented, restarts, rotations, cache, disk, lockgen, cert>>
        /\ job' = [job EXCEPT ![t] = new]
        /\ pc' = [pc EXCEPT ![t] = "spawned"]
    BY <1>4 DEF Observe
  <2> HIDE DEF k, o, new
  <2>6. TypeOK'
    BY <2>3, <2>5 DEF TypeOK
  <2>7. TaskFacts(conf', pc', job', cert')
    BY <1>1, <2>4, <2>5 DEF TaskFacts, Holding, TypeOK
  <2> QED BY <2>6, <2>7
<1>5. ASSUME NEW t \in Task, StartRecord(t)
      PROVE  TypeOK' /\ TaskFacts(conf', pc', job', cert')
  <2> DEFINE new == [job[t] EXCEPT !.gen = lockgen[job[t].key]]
  <2>1. JobOK(conf, job[t])
    BY <1>1, <1>5 DEF TaskFacts, StartRecord
  <2>2. new \in Job /\ new.op = job[t].op /\ new.lst = job[t].lst
          /\ new.key = job[t].key /\ new.obs = job[t].obs
    BY <2>1 DEF JobOK, Job, TypeOK
  <2>3. JobOK(conf, new)
    BY <2>1, <2>2 DEF JobOK
  <2>4. /\ UNCHANGED <<conf, upstream, presented, restarts, rotations, cache, disk, lockgen>>
        /\ \/ Idle(t)
           \/ /\ job' = [job EXCEPT ![t] = new]
              /\ pc' = [pc EXCEPT ![t] = "lock"] /\ UNCHANGED cert
    BY <1>5 DEF StartRecord
  <2> HIDE DEF new
  <2>5. TypeOK'
    BY <2>2, <2>4 DEF TypeOK, Idle
  <2>6. TaskFacts(conf', pc', job', cert')
    BY <1>1, <2>3, <2>4 DEF TaskFacts, Holding, TypeOK, Idle
  <2> QED BY <2>5, <2>6
<1>6. ASSUME NEW t \in Task, LockServe(t)
      PROVE  TypeOK' /\ TaskFacts(conf', pc', job', cert')
  <2>1. job[t] \in Job /\ job[t].key \in Key
    BY <1>1, <1>6 DEF TaskFacts, JobOK, Job, LockServe
  <2>2. TypeOK'
    BY <1>6, <2>1 DEF TypeOK, LockServe, Return, Goto, Critical, CachedCert
  <2>3. TaskFacts(conf', pc', job', cert')
    BY <1>1, <1>6, <2>1 DEF TaskFacts, Holding, TypeOK, LockServe, Return, Goto, Critical, CachedCert
  <2> QED BY <2>2, <2>3
<1>7. ASSUME NEW t \in Task, LockRecord(t)
      PROVE  TypeOK' /\ TaskFacts(conf', pc', job', cert')
  <2>1. TypeOK'
    BY <1>7 DEF TypeOK, LockRecord, Idle, Goto, Critical
  <2>2. TaskFacts(conf', pc', job', cert')
    BY <1>1, <1>7 DEF TaskFacts, Holding, TypeOK, LockRecord, Idle, Goto, Critical
  <2> QED BY <2>1, <2>2
<1>8. ASSUME NEW t \in Task, Load(t)
      PROVE  TypeOK' /\ TaskFacts(conf', pc', job', cert')
  <2> DEFINE k == job[t].key
             c == [sans |-> disk[k].crt.sans, serial |-> disk[k].crt.serial, key |-> disk[k].key]
  <2>1. k \in Key
    BY <1>1, <1>8 DEF TaskFacts, JobOK, Job, Load
  <2>2. PICK obs \in {disk[k].obs, NoObs} :
          /\ Usable(k, obs) /\ Return(t, c)
          /\ cache' = [cache EXCEPT ![k] = [cert |-> c, obs |-> obs]]
    BY <1>8 DEF Load
  <2>3. c \in Cert /\ obs \in Obs
    BY <2>1, <2>2 DEF TypeOK, Usable, Loadable, Cert, Obs
  <2>4. pc[t] = "load" /\ UNCHANGED <<conf, upstream, presented, restarts, rotations, disk, lockgen>>
    BY <1>8 DEF Load
  <2>5. [cert |-> c, obs |-> obs] \in CachedCert
    BY <2>3 DEF CachedCert
  <2> HIDE DEF k, c
  <2>6. TypeOK'
    BY <2>1, <2>2, <2>3, <2>4, <2>5 DEF TypeOK, Return
  <2>7. TaskFacts(conf', pc', job', cert')
    BY <1>1, <2>2, <2>3, <2>4 DEF TaskFacts, Holding, TypeOK, Return
  <2> QED BY <2>6, <2>7
<1>9. ASSUME NEW t \in Task, LoadNothing(t)
      PROVE  TypeOK' /\ TaskFacts(conf', pc', job', cert')
  <2>1. TypeOK'
    BY <1>9 DEF TypeOK, LoadNothing, Goto, Critical
  <2>2. TaskFacts(conf', pc', job', cert')
    BY <1>1, <1>9 DEF TaskFacts, Holding, TypeOK, LoadNothing, Goto, Critical
  <2> QED BY <2>1, <2>2
<1>10. ASSUME NEW t \in Task, Sign(t)
      PROVE  TypeOK' /\ TaskFacts(conf', pc', job', cert')
  <2>1. SansFor(t) \in SUBSET SAN
    BY <1>10, SignedIsConfined DEF Sign
  <2>2. PICK n \in Serial :
          cert' = [cert EXCEPT ![t] = [sans |-> SansFor(t), serial |-> n, key |-> n]]
    BY <1>10 DEF Sign
  <2>3. [sans |-> SansFor(t), serial |-> n, key |-> n] \in Cert
    BY <2>1 DEF Cert
  <2>4. /\ pc[t] = "sign" /\ pc' = [pc EXCEPT ![t] = "saveCrt"]
        /\ UNCHANGED <<conf, upstream, presented, restarts, rotations, cache, disk, lockgen, job>>
    BY <1>10 DEF Sign
  <2>5. TypeOK'
    BY <2>2, <2>3, <2>4 DEF TypeOK, Critical
  <2>6. TaskFacts(conf', pc', job', cert')
    BY <1>1, <2>2, <2>3, <2>4 DEF TaskFacts, Holding, TypeOK
  <2> QED BY <2>5, <2>6
<1>11. ASSUME NEW t \in Task, SignFails(t)
      PROVE  TypeOK' /\ TaskFacts(conf', pc', job', cert')
  <2>1. TypeOK'
    BY <1>11 DEF TypeOK, SignFails, Idle
  <2>2. TaskFacts(conf', pc', job', cert')
    BY <1>1, <1>11 DEF TaskFacts, Holding, TypeOK, SignFails, Idle
  <2> QED BY <2>1, <2>2
<1>12. ASSUME NEW t \in Task, SaveCrt(t)
      PROVE  TypeOK' /\ TaskFacts(conf', pc', job', cert')
  <2>1. job[t].key \in Key /\ cert[t] \in Cert /\ job[t].obs \in Obs
    BY <1>1, <1>12 DEF TaskFacts, JobOK, Job, Holding, SaveCrt
  <2>2. TypeOK'
    BY <1>12, <2>1 DEF TypeOK, SaveCrt, Goto, Critical, Cert
  <2>3. TaskFacts(conf', pc', job', cert')
    BY <1>1, <1>12, <2>1 DEF TaskFacts, Holding, TypeOK, SaveCrt, Goto, Critical, Cert
  <2> QED BY <2>2, <2>3
<1>13. ASSUME NEW t \in Task, SaveKey(t)
      PROVE  TypeOK' /\ TaskFacts(conf', pc', job', cert')
  <2>1. job[t].key \in Key /\ cert[t] \in Cert /\ job[t].obs \in Obs
    BY <1>1, <1>13 DEF TaskFacts, JobOK, Job, Holding, SaveKey
  <2>2. TypeOK'
    BY <1>13, <2>1 DEF TypeOK, SaveKey, Goto, Critical, Cert
  <2>3. TaskFacts(conf', pc', job', cert')
    BY <1>1, <1>13, <2>1 DEF TaskFacts, Holding, TypeOK, SaveKey, Goto, Critical, Cert
  <2> QED BY <2>2, <2>3
<1>14. ASSUME NEW t \in Task, SaveObs(t)
      PROVE  TypeOK' /\ TaskFacts(conf', pc', job', cert')
  <2>1. job[t].key \in Key /\ cert[t] \in Cert /\ job[t].obs \in Obs
    BY <1>1, <1>14 DEF TaskFacts, JobOK, Job, Holding, SaveObs
  <2>2. TypeOK'
    BY <1>14, <2>1 DEF TypeOK, SaveObs, Goto, Critical
  <2>3. TaskFacts(conf', pc', job', cert')
    BY <1>1, <1>14, <2>1 DEF TaskFacts, Holding, TypeOK, SaveObs, Goto, Critical
  <2> QED BY <2>2, <2>3
<1>15. ASSUME NEW t \in Task, SaveFails(t)
      PROVE  TypeOK' /\ TaskFacts(conf', pc', job', cert')
  <2>1. TypeOK'
    BY <1>15 DEF TypeOK, SaveFails, Goto, Critical
  <2>2. TaskFacts(conf', pc', job', cert')
    BY <1>1, <1>15 DEF TaskFacts, Holding, TypeOK, SaveFails, Goto, Critical
  <2> QED BY <2>1, <2>2
<1>16. ASSUME NEW t \in Task, Insert(t)
      PROVE  TypeOK' /\ TaskFacts(conf', pc', job', cert')
  <2>1. job[t].key \in Key /\ cert[t] \in Cert /\ job[t].obs \in Obs
    BY <1>1, <1>16 DEF TaskFacts, JobOK, Job, Holding, Insert
  <2>2. TypeOK'
    BY <1>16, <2>1 DEF TypeOK, Insert, Return, Idle, CachedCert
  <2>3. TaskFacts(conf', pc', job', cert')
    BY <1>1, <1>16, <2>1 DEF TaskFacts, Holding, TypeOK, Insert, Return, Idle, CachedCert
  <2> QED BY <2>2, <2>3
<1>17. ASSUME NEW t \in Task, Handshake(t)
      PROVE  TypeOK' /\ TaskFacts(conf', pc', job', cert')
  <2>1. TypeOK'
    BY <1>17 DEF TypeOK, Handshake, Idle
  <2>2. TaskFacts(conf', pc', job', cert')
    BY <1>1, <1>17 DEF TaskFacts, Holding, TypeOK, Handshake, Idle
  <2> QED BY <2>1, <2>2
<1>18. ASSUME NEW k \in Key, Evict(k) \/ ExpireLock(k)
      PROVE  TypeOK' /\ TaskFacts(conf', pc', job', cert')
  <2>1. TypeOK'
    <3>1. CASE Evict(k)
      BY <3>1 DEF TypeOK, Evict
    <3>2. CASE ExpireLock(k)
      <4>1. lockgen' \in [Key -> Nat] /\ UNCHANGED <<Environment, cache, disk, pc, job, cert>>
        BY <3>2 DEF TypeOK, ExpireLock
      <4> QED BY <4>1 DEF TypeOK
    <3> QED BY <1>18, <3>1, <3>2
  <2>2. TaskFacts(conf', pc', job', cert')
    BY <1>1, <1>18 DEF TaskFacts, Evict, ExpireLock
  <2> QED BY <2>1, <2>2
<1>19. ASSUME NEW tgt \in Reflecting, NEW h \in Host, NEW o \in Observation, Rotate(tgt, h, o)
      PROVE  TypeOK' /\ TaskFacts(conf', pc', job', cert')
  <2>1. TypeOK'
    BY <1>19, MirrorAssumption DEF TypeOK, Rotate
  <2>2. TaskFacts(conf', pc', job', cert')
    BY <1>1, <1>19 DEF TaskFacts, Rotate
  <2> QED BY <2>1, <2>2
<1>20. ASSUME NEW c \in Configs, Restart(c)
      PROVE  TypeOK' /\ TaskFacts(conf', pc', job', cert')
  <2>1. TypeOK'
    BY <1>20, MirrorAssumption DEF TypeOK, Restart
  <2>2. TaskFacts(conf', pc', job', cert')
    BY <1>20 DEF TaskFacts, Restart, Holding
  <2> QED BY <2>1, <2>2
<1> QED
  BY <1>3, <1>4, <1>5, <1>6, <1>7, <1>8, <1>9, <1>10, <1>11, <1>12, <1>13, <1>14, <1>15, <1>16, <1>17, <1>18, <1>19, <1>20 DEF Next, TaskStep

(* The inductive step of SafeEverywhere: a certificate is copied between   *)
(* the cache, the store and the calls under one key, and a new one is safe *)
(* by SignedIsSafe.                                                        *)
LEMMA SafeStep ==
  ASSUME ForwardingDetermined, IInv, Next
  PROVE  SafeEverywhere'
<1> USE DEF Environment
<1>1. TypeOK /\ TaskInv /\ SafeEverywhere
  BY DEF IInv
<1>2. \A t \in Task : pc[t] # "idle" => job[t] \in Job /\ job[t].key \in Key
  BY <1>1 DEF TaskInv, Job
<1>3. ASSUME NEW t \in Task, NEW l \in Listener, NEW h \in Host, StartServe(t, l, h)
      PROVE  SafeEverywhere'
  <2> DEFINE k == KeyOf(l, h)
  <2>1. k \in Key
    BY <1>1, <1>3, KeyOfType DEF StartServe
  <2>2. /\ UNCHANGED <<cache, disk>>
        /\ job'[t].key = k /\ \A u \in Task \ {t} : job'[u] = job[u]
        /\ \A u \in Task \ {t} : pc'[u] = pc[u] /\ cert'[u] = cert[u]
        /\ \/ cache[k] # NoCert /\ cert'[t] = cache[k].cert
           \/ pc'[t] = "lock"
    BY <1>1, <1>3 DEF StartServe, TypeOK
  <2> HIDE DEF k
  <2> QED BY <1>1, <2>1, <2>2 DEF SafeEverywhere, Holding
<1>4. ASSUME NEW t \in Task, NEW l \in Listener, NEW h \in Host, Observe(t, l, h)
      PROVE  SafeEverywhere'
  <2>1. /\ UNCHANGED <<cache, disk, cert>> /\ pc' = [pc EXCEPT ![t] = "spawned"]
        /\ \A u \in Task \ {t} : job'[u] = job[u]
    BY <1>1, <1>4 DEF Observe, TypeOK
  <2> QED BY <1>1, <2>1 DEF SafeEverywhere, Holding, TypeOK
<1>5. ASSUME NEW t \in Task, StartRecord(t)
      PROVE  SafeEverywhere'
  <2>1. /\ UNCHANGED <<cache, disk>> /\ pc'[t] \in {"idle", "lock"}
        /\ \A u \in Task \ {t} : job'[u] = job[u] /\ pc'[u] = pc[u] /\ cert'[u] = cert[u]
    BY <1>1, <1>5 DEF StartRecord, Idle, TypeOK
  <2> QED BY <1>1, <2>1 DEF SafeEverywhere, Holding
<1>6. ASSUME NEW t \in Task, LockServe(t)
      PROVE  SafeEverywhere'
  BY <1>1, <1>2, <1>6 DEF LockServe, Return, Goto, SafeEverywhere, Holding, TypeOK
<1>7. ASSUME NEW t \in Task, Load(t)
      PROVE  SafeEverywhere'
  <2> DEFINE k == job[t].key
  <2>1. k \in Key
    BY <1>2, <1>7 DEF Load
  <2>2. PICK c, obs :
          /\ c.sans = disk[k].crt.sans /\ disk[k].crt # NoCert
          /\ cache' = [cache EXCEPT ![k] = [cert |-> c, obs |-> obs]] /\ Return(t, c)
    BY <1>7 DEF Load, Usable, Loadable
  <2>3. UNCHANGED disk
    BY <1>7 DEF Load
  <2> QED BY <1>1, <2>1, <2>2, <2>3 DEF Return, SafeEverywhere, Holding, TypeOK
<1>8. ASSUME NEW t \in Task,
             LockRecord(t) \/ LoadNothing(t) \/ SignFails(t) \/ Handshake(t) \/ SaveFails(t)
      PROVE  SafeEverywhere'
  BY <1>1, <1>2, <1>8
     DEF LockRecord, LoadNothing, SignFails, Handshake, SaveFails, Goto, Idle,
         SafeEverywhere, Holding, TypeOK
<1>9. ASSUME NEW t \in Task, Sign(t)
      PROVE  SafeEverywhere'
  <2>1. SafeSans(job[t].key, SansFor(t))
    BY <1>1, <1>9, SignedIsSafe DEF Sign
  <2>2. /\ UNCHANGED <<cache, disk, job>> /\ cert'[t].sans = SansFor(t)
        /\ \A u \in Task \ {t} : pc'[u] = pc[u] /\ cert'[u] = cert[u]
    BY <1>1, <1>9 DEF Sign, TypeOK
  <2> QED BY <1>1, <2>1, <2>2 DEF SafeEverywhere
<1>10. ASSUME NEW t \in Task, SaveCrt(t) \/ SaveKey(t) \/ SaveObs(t)
      PROVE  SafeEverywhere'
  <2>1. /\ UNCHANGED <<cache, job, cert>> /\ pc[t] \in Holding
        /\ \A u \in Task \ {t} : pc'[u] = pc[u]
    BY <1>1, <1>10 DEF SaveCrt, SaveKey, SaveObs, Goto, Holding, TypeOK
  <2>2. \A k \in Key : \/ disk'[k].crt = disk[k].crt
                       \/ k = job[t].key /\ disk'[k].crt.sans = cert[t].sans
    BY <1>1, <1>2, <1>10 DEF SaveCrt, SaveKey, SaveObs, TypeOK
  <2> QED BY <1>1, <2>1, <2>2 DEF SafeEverywhere
<1>11. ASSUME NEW t \in Task, Insert(t)
      PROVE  SafeEverywhere'
  <2>1. /\ UNCHANGED disk /\ pc[t] \in Holding /\ job[t].key \in Key
        /\ cache' = [cache EXCEPT ![job[t].key] = [cert |-> cert[t], obs |-> job[t].obs]]
        /\ \A u \in Task \ {t} : pc'[u] = pc[u] /\ cert'[u] = cert[u] /\ job'[u] = job[u]
        /\ pc'[t] = "idle" \/ (job'[t] = job[t] /\ cert'[t] = cert[t])
    BY <1>1, <1>2, <1>11 DEF Insert, Return, Idle, Holding, TypeOK
  <2> QED BY <1>1, <2>1 DEF SafeEverywhere, TypeOK, Holding
<1>12. ASSUME NEW k \in Key, Evict(k) \/ ExpireLock(k)
      PROVE  SafeEverywhere'
  BY <1>1, <1>12 DEF Evict, ExpireLock, SafeEverywhere, TypeOK
<1>13. ASSUME NEW tgt \in Reflecting, NEW h \in Host, NEW o \in Observation, Rotate(tgt, h, o)
      PROVE  SafeEverywhere'
  BY <1>1, <1>13 DEF Rotate, SafeEverywhere
<1>14. ASSUME NEW c \in Configs, Restart(c)
      PROVE  SafeEverywhere'
  BY <1>1, <1>14 DEF Restart, SafeEverywhere, Holding
<1> QED
  BY <1>3, <1>4, <1>5, <1>6, <1>7, <1>8, <1>9, <1>10, <1>11, <1>12, <1>13, <1>14
     DEF Next, TaskStep

LEMMA Stutter ==
  ASSUME UNCHANGED vars
  PROVE  (TypeOK => TypeOK') /\ (TaskInv => TaskInv') /\ (SafeEverywhere => SafeEverywhere')
BY DEF vars, TypeOK, TaskInv, SafeEverywhere, Routed, Owner, KeyOf

(* A certificate that is safe for its key is confined on the listener that *)
(* serves it.                                                              *)
LEMMA SafeIsConfined == IInv => ServedIsConfined
<1> SUFFICES ASSUME IInv, NEW t \in Task, pc[t] = "served"
             PROVE  Confined(conf[job[t].lst], Owner(job[t].lst, job[t].key.host),
                             cert[t].sans, Names)
  BY DEF ServedIsConfined
<1>1. TypeOK /\ TaskInv /\ SafeSans(job[t].key, cert[t].sans)
  BY DEF IInv, SafeEverywhere, Holding
<1>2. /\ conf[job[t].lst] \in Conf /\ Owner(job[t].lst, job[t].key.host) \in RouteId
      /\ job[t].key.scope = CertScope(conf[job[t].lst], Owner(job[t].lst, job[t].key.host))
  BY <1>1, SignedIsConfined
<1> QED BY <1>1, <1>2 DEF SafeSans

(* The issuer's state always has its type (resolver.rs, store.rs), with no *)
(* hypothesis on the configurations the process is restarted with.         *)
THEOREM MirrorTypeCorrect == Spec => []TypeOK
<1>1. Init => TypeOK /\ TaskInv
  BY InitIInv DEF IInv
<1>2. TypeOK /\ TaskInv /\ [Next]_vars => TypeOK' /\ TaskInv'
  BY TypeStep, Stutter
<1> QED BY <1>1, <1>2, PTL DEF Spec

(* No certificate served from the cache, the store or the CA covers a host *)
(* that the listener routes out of its scope -- whatever the upstreams     *)
(* present, in whatever order observations are applied, wherever a crash   *)
(* or a failed write falls, even when a lock is evicted while held --      *)
(* as long as no restart re-points a route under an unchanged fingerprint. *)
THEOREM MirrorConfined == ForwardingDetermined => (Spec => []ServedIsConfined)
<1> SUFFICES ASSUME ForwardingDetermined PROVE Spec => []ServedIsConfined
  OBVIOUS
<1>1. Init => IInv
  BY InitIInv
<1>2. IInv /\ [Next]_vars => IInv'
  BY TypeStep, SafeStep, Stutter DEF IInv
<1>3. IInv => ServedIsConfined
  BY SafeIsConfined
<1> QED BY <1>1, <1>2, <1>3, PTL DEF Spec

-----------------------------------------------------------------------------
(* CertMirror implements Issuer: every step of the caches, locks and files *)
(* is a step of the issuer that was promised, or none.                     *)

(* PresentedTo, NamesPromised, and what Promised says of names and a basis, *)
(* with the history made explicit.                                         *)
PresentedIn(p, k) == IF k.scope.fwd \in Reflecting THEN p[k.scope.fwd][k.host] ELSE {}
NamesIn(p, k) == {OwnNames[k]} \cup UNION {ClippedNames[k][o] : o \in PresentedIn(p, k)}
Vouched(p, k, names, basis) ==
  \/ basis = NoObs /\ names = OwnNames[k]
  \/ basis \in PresentedIn(p, k) /\ names \in NamesIn(p, k)

LEMMA PromisedIsVouched ==
  ASSUME NEW k \in Key, NEW names, NEW basis
  PROVE  [names |-> names, basis |-> basis] \in I!Promised(k) <=> Vouched(presented, k, names, basis)
BY DEF I!Promised, Vouched, NamesIn, PresentedIn, PresentedTo

(* The three parts of PromisedEverywhere. *)
CacheVouched(p, ch) ==
  \A k \in Key : ch[k] # NoCert => Vouched(p, k, ch[k].cert.sans, ch[k].obs)
DiskVouched(p, dk) ==
  \A k \in Key : /\ dk[k].crt # NoCert => dk[k].crt.sans \in NamesIn(p, k)
                 /\ dk[k].obs \in PresentedIn(p, k) \cup {NoObs}
HandVouched(p, at, js, cs) ==
  \A t \in Task : at[t] \in Holding => cs[t].sans \in NamesIn(p, js[t].key)

LEMMA NamesPromisedIn ==
  /\ \A k : NamesPromised(k) = NamesIn(presented, k) /\ PresentedTo(k) = PresentedIn(presented, k)
BY DEF NamesPromised, NamesIn, PresentedTo, PresentedIn

LEMMA PromisedParts ==
  /\ PromisedEverywhere <=> /\ CacheVouched(presented, cache) /\ DiskVouched(presented, disk)
                            /\ HandVouched(presented, pc, job, cert)
  /\ PromisedEverywhere' <=> /\ CacheVouched(presented', cache') /\ DiskVouched(presented', disk')
                             /\ HandVouched(presented', pc', job', cert')
<1>1. PromisedEverywhere <=> /\ CacheVouched(presented, cache) /\ DiskVouched(presented, disk)
                             /\ HandVouched(presented, pc, job, cert)
  BY PromisedIsVouched, NamesPromisedIn
     DEF PromisedEverywhere, CacheVouched, DiskVouched, HandVouched, Entry
<1>2. (PromisedEverywhere <=> /\ CacheVouched(presented, cache) /\ DiskVouched(presented, disk)
                              /\ HandVouched(presented, pc, job, cert))'
  BY <1>1, PTL
<1> QED BY <1>1, <1>2

LEMMA OwnIsPromised == ASSUME NEW k \in Key PROVE OwnNames[k] \in NamesPromised(k)
BY DEF NamesPromised

(* A call signs for names that are promised. *)
LEMMA SignsPromised ==
  ASSUME TypeOK, TaskInv, CallsInv, NEW t \in Task, pc[t] # "idle"
  PROVE  /\ job[t].key \in Key
         /\ SansFor(t) \in NamesPromised(job[t].key)
         /\ job[t].op = "serve" => SansFor(t) = OwnNames[job[t].key]
<1>1. job[t].key \in Key /\ job[t].op \in {"serve", "record"}
  BY DEF TaskInv, Job
<1>2. CASE job[t].op = "serve"
  <2>1. SansFor(t) = OwnNames[job[t].key]
    BY <1>1, <1>2 DEF SansFor, OwnNames
  <2> QED BY <1>1, <2>1, OwnIsPromised
<1>3. CASE job[t].op = "record"
  <2> DEFINE c == conf[job[t].lst]
             id == Owner(job[t].lst, job[t].key.host)
             k == job[t].key
  <2>1. c \in Conf /\ id \in RouteId /\ k.scope = CertScope(c, id)
    BY SignedIsConfined
  <2>2. <<c, id>> \in Users(k)
    BY <2>1 DEF Users
  <2>3. job[t].obs \in Observation /\ job[t].obs \in PresentedTo(k)
    BY <1>3 DEF TaskInv, CallsInv
  <2>4. SansFor(t) = ClipSans(c, id, k.host, job[t].obs)
    BY <1>3 DEF SansFor
  <2> HIDE DEF c, id, k
  <2>5. SansFor(t) \in {ClipSans(ci[1], ci[2], k.host, job[t].obs) : ci \in Users(k)}
    BY <2>2, <2>4
  <2>6. k \in Key
    BY <1>1 DEF k
  <2>7. SansFor(t) \in ClippedNames[k][job[t].obs]
    BY <2>3, <2>5, <2>6 DEF ClippedNames
  <2>8. SansFor(t) \in NamesPromised(k)
    BY <2>3, <2>7 DEF NamesPromised
  <2> QED BY <1>1, <1>3, <2>8 DEF k
<1> QED BY <1>1, <1>2, <1>3

(* What was presented stays presented. *)
LEMMA PresentedGrows ==
  ASSUME TypeOK, [Next]_vars, NEW k \in Key
  PROVE  PresentedTo(k) \subseteq PresentedTo(k)' /\ NamesPromised(k) \subseteq NamesPromised(k)'
<1>1. \A tgt \in Reflecting, h \in Host : presented[tgt][h] \subseteq presented'[tgt][h]
  <2>1. CASE UNCHANGED presented
    BY <2>1
  <2>2. ASSUME NEW tgt \in Reflecting, NEW h \in Host, NEW o \in Observation, Rotate(tgt, h, o)
        PROVE  \A t2 \in Reflecting, h2 \in Host : presented[t2][h2] \subseteq presented'[t2][h2]
    BY <2>2 DEF Rotate, TypeOK
  <2> QED
    BY <2>1, <2>2 DEF Next, TaskStep, vars, Environment, StartRecord, LockServe, LockRecord,
         Load, LoadNothing, Sign, SignFails, SaveCrt, SaveKey, SaveObs, SaveFails, Insert,
         Handshake, StartServe, Observe, Evict, ExpireLock, Restart
<1>2. k.host \in Host
  BY DEF Key
<1>3. PresentedTo(k) \subseteq PresentedTo(k)'
  BY <1>1, <1>2 DEF PresentedTo
<1> QED BY <1>3 DEF NamesPromised

LEMMA InitGrant == Init => GrantInv
<1> SUFFICES ASSUME Init PROVE GrantInv
  OBVIOUS
<1>1. UpstreamPresented
  BY DEF Init, UpstreamPresented
<1>2. CallsInv
  BY DEF Init, CallsInv, Holding
<1>3. PromisedEverywhere
  BY DEF Init, PromisedEverywhere, EmptyFiles, Holding
<1> QED BY <1>1, <1>2, <1>3 DEF GrantInv

LEMMA UpstreamStep ==
  ASSUME TypeOK, UpstreamPresented, [Next]_vars
  PROVE  UpstreamPresented'
<1>1. CASE UNCHANGED <<upstream, presented>>
  BY <1>1 DEF UpstreamPresented
<1>2. ASSUME NEW tgt \in Reflecting, NEW h \in Host, NEW o \in Observation, Rotate(tgt, h, o)
      PROVE  UpstreamPresented'
  BY <1>2 DEF Rotate, TypeOK, UpstreamPresented
<1> QED
  BY <1>1, <1>2 DEF Next, TaskStep, vars, Environment, StartRecord, LockServe, LockRecord,
       Load, LoadNothing, Sign, SignFails, SaveCrt, SaveKey, SaveObs, SaveFails, Insert,
       Handshake, StartServe, Observe, Evict, ExpireLock, Restart

(* CallsInv of one call. *)
CallOK(t) ==
  /\ pc[t] # "idle" => IF job[t].op = "serve" THEN job[t].obs = NoObs
                       ELSE job[t].obs \in PresentedTo(job[t].key)
  /\ pc[t] \in Holding \ {"served"} /\ job[t].op = "serve" => cert[t].sans = OwnNames[job[t].key]
  /\ pc[t] \in {"load", "served"} => job[t].op = "serve"

LEMMA SameCallKept ==
  ASSUME TypeOK, TaskInv, [Next]_vars, NEW t \in Task, CallOK(t),
         pc'[t] = pc[t], job'[t] = job[t], cert'[t] = cert[t]
  PROVE  CallOK(t)'
<1>1. CASE pc[t] = "idle"
  BY <1>1 DEF CallOK, Holding
<1>2. CASE pc[t] # "idle"
  <2>1. job[t].key \in Key
    BY <1>2 DEF TaskInv, Job
  <2>2. PresentedTo(job[t].key) \subseteq PresentedTo(job[t].key)'
    BY <2>1, PresentedGrows
  <2>3. PresentedTo(job[t].key) \subseteq PresentedTo(job[t].key)'
    BY <2>2 DEF PresentedTo
  <2>4. OwnNames[job'[t].key] = OwnNames[job[t].key]
    OBVIOUS
  <2> QED BY <2>3, <2>4 DEF CallOK
<1> QED BY <1>1, <1>2

(* The step of one call keeps every call in order. *)
LEMMA CallsStep ==
  ASSUME TypeOK, TaskInv, CallsInv, UpstreamPresented, Next
  PROVE  CallsInv'
<1>1. \A t \in Task : CallOK(t)
  BY DEF CallsInv, CallOK
<1>2. SUFFICES \A t \in Task : CallOK(t)'
  BY DEF CallsInv, CallOK
<1>3. ASSUME NEW t \in Task, CallOK(t)',
             \A u \in Task \ {t} : pc'[u] = pc[u] /\ job'[u] = job[u] /\ cert'[u] = cert[u]
      PROVE  \A u \in Task : CallOK(u)'
  BY <1>1, <1>3, SameCallKept
<1> USE DEF Environment
<1>4. ASSUME NEW t \in Task, NEW l \in Listener, NEW h \in Host, StartServe(t, l, h)
      PROVE  \A u \in Task : CallOK(u)'
  <2>1. CallOK(t)'
    BY <1>4 DEF StartServe, CallOK, TypeOK, Holding
  <2> QED BY <1>3, <1>4, <2>1 DEF StartServe, TypeOK
<1>5. ASSUME NEW t \in Task, NEW l \in Listener, NEW h \in Host, Observe(t, l, h)
      PROVE  \A u \in Task : CallOK(u)'
  <2> DEFINE tgt == conf[l].fwd[Owner(l, h)]
             k == KeyOf(l, h)
  <2>1. tgt \in Reflecting /\ k.scope.fwd = tgt /\ k.host = h
    BY <1>5 DEF Observe, KeyOf, CertScope
  <2>2. upstream[tgt][h] \in PresentedTo(k)
    BY <2>1 DEF PresentedTo, UpstreamPresented
  <2>3. /\ job'[t].op = "record" /\ job'[t].key = k /\ job'[t].obs = upstream[tgt][h]
        /\ pc'[t] = "spawned" /\ presented' = presented
    BY <1>5 DEF Observe, TypeOK
  <2> HIDE DEF tgt, k
  <2>4. PresentedTo(job[t].key)' = PresentedTo(k)
    BY <2>3 DEF PresentedTo
  <2>5. CallOK(t)'
    BY <2>2, <2>3, <2>4 DEF CallOK, Holding
  <2> QED BY <1>3, <1>5, <2>5 DEF Observe, TypeOK
<1>6. ASSUME NEW t \in Task, StartRecord(t) \/ LockRecord(t) \/ LoadNothing(t) \/ SignFails(t)
                             \/ Handshake(t)
      PROVE  \A u \in Task : CallOK(u)'
  <2>1. pc[t] # "idle" /\ presented' = presented
    BY <1>6 DEF StartRecord, LockRecord, LoadNothing, SignFails, Handshake
  <2>2. job[t] \in Job
    BY <2>1 DEF TaskInv
  <2>3. \/ pc'[t] = "idle"
        \/ /\ job'[t].op = job[t].op /\ job'[t].obs = job[t].obs /\ job'[t].key = job[t].key
           /\ pc'[t] \in {"lock", "sign"}
    BY <1>6, <2>2 DEF StartRecord, LockRecord, LoadNothing, SignFails, Handshake, Goto, Idle,
                      TypeOK, Job
  <2>4. CallOK(t)'
    BY <1>1, <2>1, <2>3 DEF CallOK, Holding, PresentedTo
  <2>5. \A u \in Task \ {t} : pc'[u] = pc[u] /\ job'[u] = job[u] /\ cert'[u] = cert[u]
    BY <1>6 DEF StartRecord, LockRecord, LoadNothing, SignFails, Handshake, Goto, Idle, TypeOK
  <2> QED BY <1>3, <2>4, <2>5
<1>7. ASSUME NEW t \in Task, LockServe(t) \/ Load(t)
      PROVE  \A u \in Task : CallOK(u)'
  <2>1. /\ pc[t] # "idle" /\ presented' = presented /\ job' = job
        /\ \A u \in Task \ {t} : pc'[u] = pc[u] /\ cert'[u] = cert[u]
    BY <1>7 DEF LockServe, Load, Goto, Return, TypeOK
  <2>2. pc'[t] \in {"load", "served"} /\ job[t].op = "serve"
    <3>1. CASE LockServe(t)
      BY <3>1 DEF LockServe, Goto, Return, TypeOK
    <3>2. CASE Load(t)
      <4>1. pc'[t] = "served" /\ pc[t] = "load"
        BY <3>2 DEF Load, Return, TypeOK
      <4> QED BY <1>1, <4>1 DEF CallOK
    <3> QED BY <1>7, <3>1, <3>2
  <2>3. CallOK(t)'
    BY <1>1, <2>1, <2>2 DEF CallOK, Holding, PresentedTo
  <2> QED BY <1>3, <2>1, <2>3
<1>8. ASSUME NEW t \in Task, Sign(t)
      PROVE  \A u \in Task : CallOK(u)'
  <2>1. job[t].op = "serve" => SansFor(t) = OwnNames[job[t].key]
    BY <1>8, SignsPromised DEF Sign
  <2>2. /\ pc[t] = "sign" /\ pc'[t] = "saveCrt" /\ presented' = presented /\ job' = job
        /\ cert'[t].sans = SansFor(t)
        /\ \A u \in Task \ {t} : pc'[u] = pc[u] /\ cert'[u] = cert[u]
    BY <1>8 DEF Sign, TypeOK
  <2>3. CallOK(t)'
    BY <1>1, <2>1, <2>2 DEF CallOK, Holding, PresentedTo
  <2> QED BY <1>3, <2>2, <2>3
<1>9. ASSUME NEW t \in Task, SaveCrt(t) \/ SaveKey(t) \/ SaveObs(t) \/ SaveFails(t)
      PROVE  \A u \in Task : CallOK(u)'
  <2>1. /\ pc[t] \in Holding \ {"served"} /\ pc'[t] \in Holding \ {"served"}
        /\ pc'[t] # "load" /\ UNCHANGED <<presented, job, cert>>
        /\ \A u \in Task \ {t} : pc'[u] = pc[u]
    BY <1>9 DEF SaveCrt, SaveKey, SaveObs, SaveFails, Goto, Holding, TypeOK
  <2>2. CallOK(t)'
    BY <1>1, <2>1 DEF CallOK, Holding, PresentedTo
  <2> QED BY <1>3, <2>1, <2>2
<1>10. ASSUME NEW t \in Task, Insert(t)
       PROVE  \A u \in Task : CallOK(u)'
  <2>1. /\ pc[t] = "insert" /\ presented' = presented
        /\ \A u \in Task \ {t} : pc'[u] = pc[u] /\ job'[u] = job[u] /\ cert'[u] = cert[u]
        /\ \/ pc'[t] = "idle"
           \/ pc'[t] = "served" /\ job[t].op = "serve" /\ job'[t] = job[t]
    BY <1>10 DEF Insert, Return, Idle, TypeOK
  <2>2. CallOK(t)'
    BY <1>1, <2>1 DEF CallOK, Holding, PresentedTo
  <2> QED BY <1>3, <2>1, <2>2
<1>11. ASSUME UNCHANGED <<pc, job, cert>>
       PROVE  \A u \in Task : CallOK(u)'
  BY <1>1, <1>11, SameCallKept
<1>12. ASSUME NEW c \in Configs, Restart(c)
       PROVE  \A u \in Task : CallOK(u)'
  BY <1>12 DEF Restart, CallOK, Holding
<1> QED
  <2>1. ASSUME NEW k \in Key, Evict(k) \/ ExpireLock(k)
        PROVE  \A u \in Task : CallOK(u)'
    BY <1>11, <2>1 DEF Evict, ExpireLock
  <2>2. ASSUME NEW tgt \in Reflecting, NEW h \in Host, NEW o \in Observation, Rotate(tgt, h, o)
        PROVE  \A u \in Task : CallOK(u)'
    BY <1>11, <2>2 DEF Rotate
  <2> QED
    BY <1>4, <1>5, <1>6, <1>7, <1>8, <1>9, <1>10, <1>12, <2>1, <2>2 DEF Next, TaskStep

(* What was promised stays promised. *)
LEMMA HistoryGrows ==
  ASSUME TypeOK, [Next]_vars, NEW k \in Key
  PROVE  /\ PresentedIn(presented, k) \subseteq PresentedIn(presented', k)
         /\ NamesIn(presented, k) \subseteq NamesIn(presented', k)
BY PresentedGrows DEF PresentedTo, NamesPromised, PresentedIn, NamesIn

LEMMA VouchedGrows ==
  ASSUME TypeOK, [Next]_vars, NEW k \in Key, NEW names, NEW basis,
         Vouched(presented, k, names, basis)
  PROVE  Vouched(presented', k, names, basis)
BY HistoryGrows DEF Vouched

LEMMA LoadIsVouched ==
  ASSUME DiskVouched(presented, disk), NEW k \in Key, NEW obs \in {disk[k].obs, NoObs},
         Usable(k, obs)
  PROVE  Vouched(presented, k, disk[k].crt.sans, obs)
<1>1. disk[k].crt # NoCert /\ (obs = NoObs => disk[k].crt.sans = OwnNames[k])
  BY DEF Usable, Loadable, UnobservedButBroad, OwnNames
<1>2. disk[k].crt.sans \in NamesIn(presented, k) /\ obs \in PresentedIn(presented, k) \cup {NoObs}
  BY <1>1 DEF DiskVouched
<1> QED BY <1>1, <1>2 DEF Vouched

LEMMA InsertIsVouched ==
  ASSUME TaskInv, CallsInv, HandVouched(presented, pc, job, cert), NEW t \in Task, pc[t] = "insert"
  PROVE  /\ job[t].key \in Key
         /\ Vouched(presented, job[t].key, cert[t].sans, job[t].obs)
<1>1. job[t].key \in Key /\ job[t].op \in {"serve", "record"} /\ pc[t] \in Holding \ {"served"}
  BY DEF TaskInv, Job, Holding
<1>2. CASE job[t].op = "serve"
  BY <1>1, <1>2 DEF CallsInv, Vouched
<1>3. CASE job[t].op = "record"
  BY <1>1, <1>3, NamesPromisedIn DEF CallsInv, HandVouched, Vouched
<1> QED BY <1>1, <1>2, <1>3

(* What Load makes of the files of a key. *)
Loaded(k) == [sans |-> disk[k].crt.sans, serial |-> disk[k].crt.serial, key |-> disk[k].key]

LEMMA CacheStep ==
  ASSUME TypeOK, TaskInv, CallsInv, PromisedEverywhere, Next
  PROVE  CacheVouched(presented', cache')
<1>1. CacheVouched(presented, cache) /\ DiskVouched(presented, disk)
      /\ HandVouched(presented, pc, job, cert)
  BY PromisedParts
<1>2. ASSUME NEW k \in Key, NEW c, NEW obs, Vouched(presented, k, c.sans, obs),
             cache' = [cache EXCEPT ![k] = [cert |-> c, obs |-> obs]]
      PROVE  CacheVouched(presented', cache')
  <2>1. ASSUME NEW x \in Key, cache'[x] # NoCert
        PROVE  Vouched(presented', x, cache'[x].cert.sans, cache'[x].obs)
    <3>1. CASE x = k
      <4>1. cache'[x] = [cert |-> c, obs |-> obs]
        BY <1>2, <3>1 DEF TypeOK
      <4>2. Vouched(presented', x, c.sans, obs)
        BY <1>2, <3>1, VouchedGrows
      <4> QED BY <4>1, <4>2
    <3>2. CASE x # k
      <4>1. cache'[x] = cache[x]
        BY <1>2, <3>2 DEF TypeOK
      <4>2. Vouched(presented, x, cache[x].cert.sans, cache[x].obs)
        BY <1>1, <2>1, <4>1 DEF CacheVouched
      <4> QED BY <4>1, <4>2, VouchedGrows
    <3> QED BY <3>1, <3>2
  <2> QED BY <2>1 DEF CacheVouched
<1>3. ASSUME NEW t \in Task, Load(t) PROVE CacheVouched(presented', cache')
  <2> DEFINE c == Loaded(job[t].key)
  <2>1. job[t].key \in Key
    BY <1>3 DEF Load, TaskInv, Job
  <2>2. PICK obs \in {disk[job[t].key].obs, NoObs} :
          /\ Usable(job[t].key, obs)
          /\ cache' = [cache EXCEPT ![job[t].key] = [cert |-> c, obs |-> obs]]
    BY <1>3 DEF Load, Loaded
  <2>3. c.sans = disk[job[t].key].crt.sans
    BY DEF Loaded
  <2>4. Vouched(presented, job[t].key, c.sans, obs)
    BY <1>1, <2>1, <2>2, <2>3, LoadIsVouched
  <2> HIDE DEF c
  <2> QED BY <1>2, <2>1, <2>2, <2>4
<1>4. ASSUME NEW t \in Task, Insert(t) PROVE CacheVouched(presented', cache')
  <2>1. pc[t] = "insert"
        /\ cache' = [cache EXCEPT ![job[t].key] = [cert |-> cert[t], obs |-> job[t].obs]]
    BY <1>4 DEF Insert
  <2> QED BY <1>1, <1>2, <2>1, InsertIsVouched
<1>5. ASSUME \A k \in Key : cache'[k] = cache[k] \/ cache'[k] = NoCert
      PROVE  CacheVouched(presented', cache')
  BY <1>1, <1>5, VouchedGrows DEF CacheVouched
<1> QED
  <2>1. ASSUME NEW k \in Key, Evict(k) \/ ExpireLock(k) PROVE CacheVouched(presented', cache')
    BY <1>5, <2>1 DEF Evict, ExpireLock, TypeOK
  <2>2. ASSUME NEW c \in Configs, Restart(c) PROVE CacheVouched(presented', cache')
    BY <1>5, <2>2 DEF Restart
  <2>3. CASE UNCHANGED cache
    BY <1>5, <2>3
  <2> QED
    BY <1>3, <1>4, <2>1, <2>2, <2>3 DEF Next, TaskStep, StartRecord, LockServe, LockRecord,
       LoadNothing, Sign, SignFails, SaveCrt, SaveKey, SaveObs, SaveFails, Handshake,
       StartServe, Observe, Rotate

LEMMA DiskStep ==
  ASSUME TypeOK, TaskInv, CallsInv, PromisedEverywhere, Next
  PROVE  DiskVouched(presented', disk')
<1>1. DiskVouched(presented, disk) /\ HandVouched(presented, pc, job, cert)
  BY PromisedParts
<1>2. ASSUME \A k \in Key :
               /\ \/ disk'[k].crt = disk[k].crt
                  \/ disk'[k].crt.sans \in NamesIn(presented, k)
               /\ disk'[k].obs \in PresentedIn(presented, k) \cup {disk[k].obs, NoObs}
      PROVE  DiskVouched(presented', disk')
  BY <1>1, <1>2, HistoryGrows DEF DiskVouched
<1>3. ASSUME NEW t \in Task, SaveCrt(t) PROVE DiskVouched(presented', disk')
  <2>1. pc[t] \in Holding /\ job[t].key \in Key
    BY <1>3 DEF SaveCrt, TaskInv, Job, Holding
  <2>2. cert[t].sans \in NamesIn(presented, job[t].key)
    BY <1>1, <2>1 DEF HandVouched
  <2>3. disk' = [disk EXCEPT ![job[t].key].crt = [sans |-> cert[t].sans, serial |-> cert[t].serial]]
    BY <1>3 DEF SaveCrt
  <2>4. \A k \in Key : /\ disk'[k].obs = disk[k].obs
                       /\ \/ disk'[k].crt = disk[k].crt
                          \/ k = job[t].key /\ disk'[k].crt.sans = cert[t].sans
    BY <2>1, <2>3 DEF TypeOK
  <2> QED BY <1>2, <2>2, <2>4
<1>4. ASSUME NEW t \in Task, SaveKey(t) PROVE DiskVouched(presented', disk')
  <2>1. \A k \in Key : disk'[k].obs = disk[k].obs /\ disk'[k].crt = disk[k].crt
    BY <1>4 DEF SaveKey, TypeOK
  <2> QED BY <1>2, <2>1
<1>5. ASSUME NEW t \in Task, SaveObs(t) PROVE DiskVouched(presented', disk')
  <2>1. /\ pc[t] # "idle" /\ job[t].key \in Key
        /\ disk' = [disk EXCEPT ![job[t].key].obs = job[t].obs]
    BY <1>5 DEF SaveObs, TaskInv, Job
  <2>2. job[t].obs \in PresentedIn(presented, job[t].key) \cup {NoObs}
    BY <2>1, NamesPromisedIn DEF CallsInv
  <2>3. \A k \in Key : /\ disk'[k].crt = disk[k].crt
                       /\ \/ disk'[k].obs = disk[k].obs
                          \/ k = job[t].key /\ disk'[k].obs = job[t].obs
    BY <2>1 DEF TypeOK
  <2> QED BY <1>2, <2>2, <2>3
<1>6. CASE UNCHANGED disk
  BY <1>2, <1>6
<1> QED
  BY <1>3, <1>4, <1>5, <1>6 DEF Next, TaskStep, Environment, StartRecord, LockServe, LockRecord,
     Load, LoadNothing, Sign, SignFails, SaveFails, Insert, Handshake, StartServe, Observe,
     Evict, ExpireLock, Rotate, Restart

LEMMA HandStep ==
  ASSUME TypeOK, TaskInv, CallsInv, PromisedEverywhere, Next
  PROVE  HandVouched(presented', pc', job', cert')
<1>1. CacheVouched(presented, cache) /\ DiskVouched(presented, disk)
      /\ HandVouched(presented, pc, job, cert)
  BY PromisedParts
<1>2. ASSUME NEW t \in Task,
             \A u \in Task \ {t} : pc'[u] = pc[u] /\ job'[u] = job[u] /\ cert'[u] = cert[u],
             pc'[t] \in Holding => /\ job'[t].key \in Key
                                  /\ cert'[t].sans \in NamesIn(presented, job'[t].key)
      PROVE  HandVouched(presented', pc', job', cert')
  <2>1. ASSUME NEW u \in Task, pc'[u] \in Holding
        PROVE  cert'[u].sans \in NamesIn(presented', job'[u].key)
    <3>1. CASE u = t
      BY <1>2, <2>1, <3>1, HistoryGrows
    <3>2. CASE u # t
      <4>1. pc[u] \in Holding /\ job'[u] = job[u] /\ cert'[u] = cert[u] /\ job[u].key \in Key
        BY <1>2, <2>1, <3>2 DEF TaskInv, Job, Holding
      <4>2. cert[u].sans \in NamesIn(presented, job[u].key)
        BY <1>1, <4>1 DEF HandVouched
      <4> QED BY <4>1, <4>2, HistoryGrows
    <3> QED BY <3>1, <3>2
  <2> QED BY <2>1 DEF HandVouched
<1> USE DEF Environment
<1>3. ASSUME NEW t \in Task, NEW l \in Listener, NEW h \in Host, StartServe(t, l, h)
      PROVE  HandVouched(presented', pc', job', cert')
  <2> DEFINE k == KeyOf(l, h)
  <2>1. k \in Key
    BY <1>3, KeyOfType DEF StartServe
  <2>2. /\ \A u \in Task \ {t} : pc'[u] = pc[u] /\ job'[u] = job[u] /\ cert'[u] = cert[u]
        /\ job'[t].key = k
        /\ \/ pc'[t] = "lock"
           \/ cache[k] # NoCert /\ cert'[t] = cache[k].cert
    BY <1>3 DEF StartServe, TypeOK
  <2> HIDE DEF k
  <2>3. cache[k] # NoCert => cache[k].cert.sans \in NamesIn(presented, k)
    BY <1>1, <2>1 DEF CacheVouched, Vouched, NamesIn
  <2> QED BY <1>2, <2>1, <2>2, <2>3 DEF Holding
<1>4. ASSUME NEW t \in Task, LockServe(t)
      PROVE  HandVouched(presented', pc', job', cert')
  <2> DEFINE k == job[t].key
  <2>1. k \in Key
    BY <1>4 DEF LockServe, TaskInv, Job
  <2>2. /\ \A u \in Task \ {t} : pc'[u] = pc[u] /\ job'[u] = job[u] /\ cert'[u] = cert[u]
        /\ job'[t].key = k
        /\ \/ pc'[t] = "load"
           \/ cache[k] # NoCert /\ cert'[t] = cache[k].cert
    BY <1>4 DEF LockServe, Return, Goto, TypeOK
  <2> HIDE DEF k
  <2>3. cache[k] # NoCert => cache[k].cert.sans \in NamesIn(presented, k)
    BY <1>1, <2>1 DEF CacheVouched, Vouched, NamesIn
  <2> QED BY <1>2, <2>1, <2>2, <2>3 DEF Holding
<1>5. ASSUME NEW t \in Task, Load(t)
      PROVE  HandVouched(presented', pc', job', cert')
  <2>1. job[t].key \in Key
    BY <1>5 DEF Load, TaskInv, Job
  <2>2. PICK obs \in {disk[job[t].key].obs, NoObs} : Usable(job[t].key, obs) /\ Return(t, Loaded(job[t].key))
    BY <1>5 DEF Load, Loaded
  <2>3. disk[job[t].key].crt.sans \in NamesIn(presented, job[t].key)
    BY <1>1, <2>1, <2>2 DEF DiskVouched, Usable, Loadable
  <2>4. /\ \A u \in Task \ {t} : pc'[u] = pc[u] /\ job'[u] = job[u] /\ cert'[u] = cert[u]
        /\ job'[t] = job[t] /\ cert'[t] = Loaded(job[t].key)
    BY <2>2 DEF Return, TypeOK
  <2>5. cert'[t].sans = disk[job[t].key].crt.sans
    BY <2>4 DEF Loaded
  <2> QED BY <1>2, <2>1, <2>3, <2>4, <2>5
<1>6. ASSUME NEW t \in Task, Sign(t)
      PROVE  HandVouched(presented', pc', job', cert')
  <2>1. job[t].key \in Key /\ SansFor(t) \in NamesIn(presented, job[t].key)
    BY <1>6, SignsPromised, NamesPromisedIn DEF Sign
  <2>2. /\ \A u \in Task \ {t} : pc'[u] = pc[u] /\ job'[u] = job[u] /\ cert'[u] = cert[u]
        /\ job'[t] = job[t] /\ cert'[t].sans = SansFor(t)
    BY <1>6 DEF Sign, TypeOK
  <2> QED BY <1>2, <2>1, <2>2
<1>7. ASSUME NEW t \in Task,
             \A u \in Task \ {t} : pc'[u] = pc[u] /\ job'[u] = job[u] /\ cert'[u] = cert[u],
             \/ pc'[t] \notin Holding
             \/ pc[t] \in Holding /\ job'[t] = job[t] /\ cert'[t] = cert[t]
      PROVE  HandVouched(presented', pc', job', cert')
  <2>1. pc[t] \in Holding => job[t].key \in Key /\ cert[t].sans \in NamesIn(presented, job[t].key)
    BY <1>1 DEF TaskInv, Job, Holding, HandVouched
  <2> QED BY <1>2, <1>7, <2>1
<1>8. ASSUME NEW t \in Task, NEW l \in Listener, NEW h \in Host, Observe(t, l, h)
      PROVE  HandVouched(presented', pc', job', cert')
  BY <1>7, <1>8 DEF Observe, Holding, TypeOK
<1>9. ASSUME NEW t \in Task, StartRecord(t) \/ LockRecord(t) \/ LoadNothing(t) \/ SignFails(t)
                             \/ Handshake(t)
      PROVE  HandVouched(presented', pc', job', cert')
  BY <1>7, <1>9 DEF StartRecord, LockRecord, LoadNothing, SignFails, Handshake, Idle, Goto,
                    Holding, TypeOK
<1>10. ASSUME NEW t \in Task, SaveCrt(t) \/ SaveKey(t) \/ SaveObs(t) \/ SaveFails(t) \/ Insert(t)
       PROVE  HandVouched(presented', pc', job', cert')
  BY <1>7, <1>10 DEF SaveCrt, SaveKey, SaveObs, SaveFails, Insert, Return, Idle, Goto,
                     Holding, TypeOK
<1>11. CASE UNCHANGED <<pc, job, cert>>
  <2>1. \A t \in Task : pc[t] \in Holding => job[t].key \in Key
    BY DEF TaskInv, Job, Holding
  <2> QED BY <1>1, <1>11, <2>1, HistoryGrows DEF HandVouched
<1>12. ASSUME NEW c \in Configs, Restart(c)
       PROVE  HandVouched(presented', pc', job', cert')
  BY <1>12 DEF Restart, HandVouched, Holding
<1> QED
  BY <1>3, <1>4, <1>5, <1>6, <1>8, <1>9, <1>10, <1>11, <1>12
     DEF Next, TaskStep, Evict, ExpireLock, Rotate

(* The invariant under which every step is one the issuer promised. *)
LEMMA GrantStep ==
  ASSUME TypeOK, TaskInv, GrantInv, [Next]_vars
  PROVE  GrantInv'
<1>1. CASE Next
  BY <1>1, UpstreamStep, CallsStep, CacheStep, DiskStep, HandStep, PromisedParts DEF GrantInv
<1>2. CASE UNCHANGED vars
  <2>1. PromisedEverywhere'
    BY <1>2, PromisedParts DEF vars, GrantInv
  <2>2. UpstreamPresented' /\ CallsInv'
    BY <1>2 DEF vars, GrantInv, UpstreamPresented, CallsInv, PresentedTo
  <2> QED BY <2>1, <2>2 DEF GrantInv
<1> QED BY <1>1, <1>2
----------------------------------------------------------------------------
(* The steps of Issuer, in terms of what the mapping reads. *)
Same(t) == Given(t)' = Given(t)

LEMMA Stutters ==
  ASSUME UNCHANGED <<presented, cache>>, \A t \in Task : Same(t)
  PROVE  UNCHANGED I!vars
BY DEF I!vars, Same, PresentedTo, Entry

LEMMA EntryOfRecord ==
  ASSUME TypeOK', NEW k \in Key, cache'[k] # NoCert
  PROVE  Entry(k)' # NoCert /\ Entry(k)'.names = cache'[k].cert.sans
<1>1. cache'[k] \in CachedCert
  BY DEF TypeOK
<1>2. cache'[k].cert.sans \in SUBSET SAN /\ cache'[k].obs \in Observation \cup {NoObs}
  BY <1>1 DEF CachedCert, Cert, Obs
<1>3. Entry(k)' = [names |-> cache'[k].cert.sans, basis |-> cache'[k].obs]
  BY DEF Entry
<1> QED BY <1>2, <1>3, MirrorAssumption

LEMMA IssueOfRecord ==
  ASSUME TypeOK, NEW k \in Key, NEW c \in Cert, NEW obs \in Obs,
         cache' = [cache EXCEPT ![k] = [cert |-> c, obs |-> obs]],
         Vouched(presented, k, c.sans, obs)
  PROVE  I!Issue(k) /\ cache'[k] # NoCert
<1>1. cache'[k] = [cert |-> c, obs |-> obs] /\ \A x \in Key \ {k} : cache'[x] = cache[x]
  BY DEF TypeOK
<1>2. cache'[k] # NoCert
  BY <1>1, MirrorAssumption DEF Cert, Obs
<1>3. Entry(k)' = [names |-> c.sans, basis |-> obs]
  BY <1>1, <1>2 DEF Entry
<1>4. \A x \in Key \ {k} : Entry(x)' = Entry(x)
  BY <1>1 DEF Entry
<1>5. [x \in Key |-> Entry(x)]' = [[x \in Key |-> Entry(x)] EXCEPT ![k] = [names |-> c.sans, basis |-> obs]]
  BY <1>3, <1>4
<1>6. [names |-> c.sans, basis |-> obs] \in I!Promised(k)
  BY PromisedIsVouched
<1> QED BY <1>2, <1>5, <1>6 DEF I!Issue
(* One call's certificate changes hands; the others keep theirs. *)
GivesTo(t, g) ==
  /\ Given(t)' = g
  /\ \A u \in Task \ {t} : Same(u)

LEMMA GivesToOne ==
  ASSUME NEW t \in Task, NEW g, GivesTo(t, g)
  PROVE  [u \in Task |-> Given(u)]' = [[u \in Task |-> Given(u)] EXCEPT ![t] = g]
BY DEF GivesTo, Same

LEMMA PresentedSame ==
  ASSUME presented' = presented
  PROVE  [k \in Key |-> PresentedTo(k)]' = [k \in Key |-> PresentedTo(k)]
BY DEF PresentedTo

LEMMA GiveImplements ==
  ASSUME TypeOK', NEW t \in Task, NEW k \in Key, pc[t] # "served", presented' = presented,
         I!Issue(k) \/ cache' = cache, cache'[k] # NoCert,
         GivesTo(t, [key |-> k, names |-> cache'[k].cert.sans])
  PROVE  I!Next
<1>1. [u \in Task |-> Given(u)][t] = NoCert
  BY DEF Given
<1>2. I!Issue(k) \/ UNCHANGED [x \in Key |-> Entry(x)]
  BY DEF Entry
<1>3. [x \in Key |-> Entry(x)]'[k] # NoCert
      /\ [x \in Key |-> Entry(x)]'[k].names = cache'[k].cert.sans
  BY EntryOfRecord
<1>4. I!Give(t, k)
  BY <1>1, <1>2, <1>3, GivesToOne, PresentedSame DEF I!Give
<1> QED BY <1>4 DEF I!Next

LEMMA ReleaseImplements ==
  ASSUME NEW t \in Task, UNCHANGED <<presented, cache>>, GivesTo(t, NoCert)
  PROVE  I!Next
<1>1. UNCHANGED [x \in Key |-> Entry(x)]
  BY DEF Entry
<1>2. I!Release(t)
  BY <1>1, GivesToOne, PresentedSame DEF I!Release
<1> QED BY <1>2 DEF I!Next

LEMMA ReplaceImplements ==
  ASSUME NEW k \in Key, presented' = presented, I!Issue(k), \A t \in Task : Same(t)
  PROVE  I!Next
<1>1. UNCHANGED [u \in Task |-> Given(u)]
  BY DEF Same
<1>2. I!Replace(k)
  BY <1>1, PresentedSame DEF I!Replace
<1> QED BY <1>2 DEF I!Next

LEMMA DropImplements ==
  ASSUME TypeOK, NEW k \in Key, presented' = presented, \A t \in Task : Same(t),
         cache' = [cache EXCEPT ![k] = NoCert]
  PROVE  I!Next
<1>1. UNCHANGED [u \in Task |-> Given(u)]
  BY DEF Same
<1>2. /\ cache'[k] = NoCert /\ \A x \in Key \ {k} : cache'[x] = cache[x]
  BY DEF TypeOK
<1>3. [x \in Key |-> Entry(x)]' = [[x \in Key |-> Entry(x)] EXCEPT ![k] = NoCert]
  BY <1>2 DEF Entry
<1>4. I!Drop(k)
  BY <1>1, <1>3, PresentedSame DEF I!Drop
<1> QED BY <1>4 DEF I!Next

(* A call whose certificate is in hand neither before nor after. *)
LEMMA NothingGiven ==
  ASSUME NEW t \in Task, pc[t] # "served", pc'[t] # "served",
         \A u \in Task \ {t} : pc'[u] = pc[u] /\ job'[u] = job[u] /\ cert'[u] = cert[u]
  PROVE  \A u \in Task : Same(u)
BY DEF Same, Given

LEMMA GivenNow ==
  ASSUME NEW t \in Task, NEW k, NEW c,
         pc'[t] = "served", job'[t].key = k, cert'[t] = c,
         \A u \in Task \ {t} : pc'[u] = pc[u] /\ job'[u] = job[u] /\ cert'[u] = cert[u]
  PROVE  GivesTo(t, [key |-> k, names |-> c.sans])
BY DEF GivesTo, Same, Given
LEMMA InitImplements == Init => I!Init
<1> SUFFICES ASSUME Init PROVE I!Init
  OBVIOUS
<1>1. presented \in [Reflecting -> [Host -> SUBSET Observation]]
  BY DEF Init
<1>2. \A k \in Key : PresentedTo(k) \in SUBSET Observation /\ Entry(k) = NoCert
  BY <1>1 DEF Init, PresentedTo, Entry, Key
<1>3. \A t \in Task : Given(t) = NoCert
  BY DEF Init, Given
<1> QED BY <1>2, <1>3 DEF I!Init

(* Every step is one of Issuer, or leaves what it speaks of as it is. *)
LEMMA StepImplements ==
  ASSUME TypeOK, TypeOK', TaskInv, GrantInv, Next
  PROVE  I!Next \/ UNCHANGED I!vars
<1>1. /\ CacheVouched(presented, cache) /\ DiskVouched(presented, disk)
      /\ HandVouched(presented, pc, job, cert) /\ CallsInv
  BY PromisedParts DEF GrantInv
<1> USE DEF Environment
<1>2. ASSUME NEW t \in Task, NEW l \in Listener, NEW h \in Host, StartServe(t, l, h)
      PROVE  I!Next \/ UNCHANGED I!vars
  <2> DEFINE k == KeyOf(l, h)
  <2>1. k \in Key /\ pc[t] = "idle" /\ UNCHANGED <<presented, cache>>
    BY <1>2, KeyOfType DEF StartServe
  <2>2. /\ \A u \in Task \ {t} : pc'[u] = pc[u] /\ job'[u] = job[u] /\ cert'[u] = cert[u]
        /\ job'[t].key = k
        /\ \/ pc'[t] = "lock"
           \/ cache[k] # NoCert /\ pc'[t] = "served" /\ cert'[t] = cache[k].cert
    BY <1>2 DEF StartServe, TypeOK
  <2> HIDE DEF k
  <2>3. CASE pc'[t] = "lock"
    BY <2>1, <2>2, <2>3, NothingGiven, Stutters
  <2>4. CASE cache[k] # NoCert /\ pc'[t] = "served" /\ cert'[t] = cache[k].cert
    <3>1. GivesTo(t, [key |-> k, names |-> cache[k].cert.sans])
      BY <2>2, <2>4, GivenNow
    <3> QED BY <2>1, <2>4, <3>1, GiveImplements
  <2> QED BY <2>2, <2>3, <2>4
<1>3. ASSUME NEW t \in Task, LockServe(t)
      PROVE  I!Next \/ UNCHANGED I!vars
  <2> DEFINE k == job[t].key
  <2>1. k \in Key /\ pc[t] = "lock" /\ UNCHANGED <<presented, cache>>
    BY <1>3 DEF LockServe, TaskInv, Job
  <2>2. /\ \A u \in Task \ {t} : pc'[u] = pc[u] /\ job'[u] = job[u] /\ cert'[u] = cert[u]
        /\ job'[t].key = k
        /\ \/ pc'[t] = "load"
           \/ cache[k] # NoCert /\ pc'[t] = "served" /\ cert'[t] = cache[k].cert
    BY <1>3 DEF LockServe, Return, Goto, TypeOK
  <2> HIDE DEF k
  <2>3. CASE pc'[t] = "load"
    BY <2>1, <2>2, <2>3, NothingGiven, Stutters
  <2>4. CASE cache[k] # NoCert /\ pc'[t] = "served" /\ cert'[t] = cache[k].cert
    <3>1. GivesTo(t, [key |-> k, names |-> cache[k].cert.sans])
      BY <2>2, <2>4, GivenNow
    <3> QED BY <2>1, <2>4, <3>1, GiveImplements
  <2> QED BY <2>2, <2>3, <2>4
<1>4. ASSUME NEW t \in Task, Load(t)
      PROVE  I!Next \/ UNCHANGED I!vars
  <2> DEFINE k == job[t].key
             c == Loaded(k)
  <2>1. k \in Key /\ pc[t] = "load" /\ UNCHANGED presented
    BY <1>4 DEF Load, TaskInv, Job
  <2>2. PICK obs \in {disk[k].obs, NoObs} :
          /\ Usable(k, obs) /\ Return(t, c)
          /\ cache' = [cache EXCEPT ![k] = [cert |-> c, obs |-> obs]]
    BY <1>4 DEF Load, Loaded
  <2>3. Vouched(presented, k, c.sans, obs)
    <3>1. Vouched(presented, k, disk[k].crt.sans, obs)
      BY <1>1, <2>1, <2>2, LoadIsVouched
    <3> QED BY <3>1 DEF Loaded
  <2>4. c \in Cert /\ obs \in Obs
    BY <2>1, <2>2 DEF TypeOK, Usable, Loadable, Cert, Obs, Loaded
  <2>5. /\ \A u \in Task \ {t} : pc'[u] = pc[u] /\ job'[u] = job[u] /\ cert'[u] = cert[u]
        /\ job'[t].key = k /\ pc'[t] = "served" /\ cert'[t] = c
    BY <2>2 DEF Return, TypeOK
  <2> HIDE DEF k, c
  <2>6. cache'[k] = [cert |-> c, obs |-> obs]
    BY <2>1, <2>2 DEF TypeOK
  <2>7. GivesTo(t, [key |-> k, names |-> cache'[k].cert.sans])
    BY <2>5, <2>6, GivenNow
  <2>8. I!Issue(k) /\ cache'[k] # NoCert
    BY <2>1, <2>2, <2>3, <2>4, IssueOfRecord
  <2> QED BY <2>1, <2>7, <2>8, GiveImplements
<1>5. ASSUME NEW t \in Task, Insert(t)
      PROVE  I!Next \/ UNCHANGED I!vars
  <2> DEFINE k == job[t].key
             c == cert[t]
             obs == job[t].obs
  <2>1. /\ k \in Key /\ pc[t] = "insert" /\ UNCHANGED presented
        /\ c \in Cert /\ obs \in Obs
    BY <1>5 DEF Insert, TaskInv, Job, Holding
  <2>2. Vouched(presented, k, c.sans, obs)
    BY <1>1, <2>1, InsertIsVouched
  <2>3. cache' = [cache EXCEPT ![k] = [cert |-> c, obs |-> obs]]
    BY <1>5 DEF Insert
  <2>4. /\ \A u \in Task \ {t} : pc'[u] = pc[u] /\ job'[u] = job[u] /\ cert'[u] = cert[u]
        /\ \/ job'[t].key = k /\ pc'[t] = "served" /\ cert'[t] = c
           \/ pc'[t] = "idle"
    BY <1>5 DEF Insert, Return, Idle, TypeOK
  <2> HIDE DEF k, c, obs
  <2>5. I!Issue(k) /\ cache'[k] # NoCert
    BY <2>1, <2>2, <2>3, IssueOfRecord
  <2>6. CASE pc'[t] = "idle"
    BY <2>1, <2>4, <2>5, <2>6, NothingGiven, ReplaceImplements
  <2>7. CASE job'[t].key = k /\ pc'[t] = "served" /\ cert'[t] = c
    <3>1. cache'[k] = [cert |-> c, obs |-> obs]
      BY <2>1, <2>3 DEF TypeOK
    <3>2. GivesTo(t, [key |-> k, names |-> cache'[k].cert.sans])
      BY <2>4, <2>7, <3>1, GivenNow
    <3> QED BY <2>1, <2>5, <3>2, GiveImplements
  <2> QED BY <2>4, <2>6, <2>7
<1>6. ASSUME NEW t \in Task, Handshake(t)
      PROVE  I!Next \/ UNCHANGED I!vars
  <2>1. GivesTo(t, NoCert)
    BY <1>6 DEF Handshake, Idle, GivesTo, Same, Given, TypeOK
  <2> QED BY <1>6, <2>1, ReleaseImplements DEF Handshake
<1>7. ASSUME NEW t \in Task, pc[t] # "served", pc'[t] # "served", UNCHANGED <<presented, cache>>,
             \A u \in Task \ {t} : pc'[u] = pc[u] /\ job'[u] = job[u] /\ cert'[u] = cert[u]
      PROVE  I!Next \/ UNCHANGED I!vars
  BY <1>7, NothingGiven, Stutters
<1>8. ASSUME NEW t \in Task, StartRecord(t) \/ LockRecord(t) \/ LoadNothing(t) \/ SignFails(t)
      PROVE  I!Next \/ UNCHANGED I!vars
  BY <1>7, <1>8 DEF StartRecord, LockRecord, LoadNothing, SignFails, Goto, Idle, TypeOK
<1>9. ASSUME NEW t \in Task, Sign(t) \/ SaveCrt(t) \/ SaveKey(t) \/ SaveObs(t) \/ SaveFails(t)
      PROVE  I!Next \/ UNCHANGED I!vars
  BY <1>7, <1>9 DEF Sign, SaveCrt, SaveKey, SaveObs, SaveFails, Goto, TypeOK
<1>10. ASSUME NEW t \in Task, NEW l \in Listener, NEW h \in Host, Observe(t, l, h)
       PROVE  I!Next \/ UNCHANGED I!vars
  BY <1>7, <1>10 DEF Observe, TypeOK
<1>11. ASSUME UNCHANGED <<pc, job, cert>> PROVE \A t \in Task : Same(t)
  BY <1>11 DEF Same, Given
<1>12. ASSUME NEW k \in Key, Evict(k) PROVE I!Next \/ UNCHANGED I!vars
  BY <1>11, <1>12, DropImplements DEF Evict
<1>13. ASSUME NEW k \in Key, ExpireLock(k) PROVE I!Next \/ UNCHANGED I!vars
  BY <1>11, <1>13, Stutters DEF ExpireLock
<1>14. ASSUME NEW tgt \in Reflecting, NEW h \in Host, NEW o \in Observation, Rotate(tgt, h, o)
       PROVE  I!Next \/ UNCHANGED I!vars
  <2>1. \A k \in Key : /\ PresentedTo(k) \subseteq PresentedTo(k)'
                       /\ PresentedTo(k)' \in SUBSET Observation
                       /\ Entry(k)' = Entry(k)
    <3>1. \A k \in Key : PresentedTo(k)' \in SUBSET Observation
      BY DEF TypeOK, PresentedTo, Key
    <3>2. \A k \in Key : Entry(k)' = Entry(k)
      BY <1>14 DEF Rotate, Entry
    <3>3. ASSUME NEW k \in Key PROVE PresentedTo(k) \subseteq PresentedTo(k)'
      BY PresentedGrows
    <3> QED BY <3>1, <3>2, <3>3
  <2>2. \A t \in Task : Same(t)
    BY <1>11, <1>14 DEF Rotate
  <2>3. I!Present
    BY <2>1, <2>2 DEF I!Present, Same
  <2> QED BY <2>3 DEF I!Next
<1>15. ASSUME NEW c \in Configs, Restart(c) PROVE I!Next \/ UNCHANGED I!vars
  <2>1. /\ \A k \in Key : Entry(k)' = NoCert
        /\ \A t \in Task : Given(t)' = NoCert
        /\ presented' = presented
    BY <1>15 DEF Restart, Entry, Given
  <2>2. I!Restart
    BY <2>1, PresentedSame DEF I!Restart
  <2> QED BY <2>2 DEF I!Next
<1> QED
  BY <1>2, <1>3, <1>4, <1>5, <1>6, <1>8, <1>9, <1>10, <1>12, <1>13, <1>14, <1>15
     DEF Next, TaskStep

(* The issuer implements its specification (get_or_issue,                  *)
(* record_upstream_sans, CertStore): for any number of calls, listeners    *)
(* and upstream certificates, wherever a crash, a failed write or the      *)
(* eviction of a lock falls, and however the configuration is edited.      *)
THEOREM MirrorImplementsIssuer == Spec => ImplementsIssuer
<1>1. Init => TypeOK /\ TaskInv /\ GrantInv /\ I!Init
  BY InitIInv, InitGrant, InitImplements DEF IInv
<1>2. TypeOK /\ TaskInv /\ GrantInv /\ [Next]_vars
        => TypeOK' /\ TaskInv' /\ GrantInv'
  BY TypeStep, Stutter, GrantStep
<1>3. TypeOK /\ TypeOK' /\ TaskInv /\ GrantInv /\ [Next]_vars => [I!Next]_(I!vars)
  <2>1. ASSUME UNCHANGED vars PROVE UNCHANGED I!vars
    <3>1. \A t \in Task : Same(t)
      BY <2>1 DEF vars, Same, Given
    <3> QED BY <2>1, <3>1, Stutters DEF vars
  <2> QED BY <2>1, StepImplements
<1> QED BY <1>1, <1>2, <1>3, PTL DEF Spec, ImplementsIssuer, I!Spec
-----------------------------------------------------------------------------
(* What holds of the certificates as long as no lock is evicted in use.    *)

Others(t) == \A u \in Task \ {t} : pc'[u] = pc[u] /\ job'[u] = job[u] /\ cert'[u] = cert[u]

(* A call at work fills the cache only as it leaves the lock, and a call   *)
(* that enters finds nobody there.                                         *)
LEMMA OneCallMoves ==
  ASSUME Exclusive, NEW t \in Task, UNCHANGED lockgen, Others(t),
         pc'[t] # "idle" => job'[t].gen = 0,
         pc'[t] \in Critical =>
           \/ pc[t] \in Critical /\ job'[t].key = job[t].key /\ job'[t].op = job[t].op
           \/ /\ \A u \in Task \ {t} : pc[u] \in Critical => job[u].key # job'[t].key
              /\ job'[t].op = "serve" => cache[job'[t].key] = NoCert,
         \/ \A u \in Task : pc'[u] \in Critical => cache'[job'[u].key] = cache[job'[u].key]
         \/ pc[t] \in Critical /\ pc'[t] \notin Critical
            /\ \A u \in Task \ {t} : job[u].key # job[t].key => cache'[job[u].key] = cache[job[u].key]
  PROVE  Exclusive'
<1>1. /\ \A k \in Key : lockgen'[k] = 0
      /\ \A u \in Task : pc'[u] # "idle" => job'[u].gen = 0
  BY DEF Exclusive, Others
<1>2. ASSUME NEW u \in Task, NEW v \in Task, pc'[u] \in Critical, pc'[v] \in Critical,
             job'[u].key = job'[v].key
      PROVE  u = v
  BY <1>2 DEF Exclusive, Others
<1>3. ASSUME NEW u \in Task, pc'[u] \in Critical, job'[u].op = "serve"
      PROVE  cache'[job'[u].key] = NoCert
  <2>1. cache[job'[u].key] = NoCert
    BY <1>3 DEF Exclusive, Others
  <2>2. cache'[job'[u].key] = cache[job'[u].key]
    BY <1>3 DEF Exclusive, Others
  <2> QED BY <2>1, <2>2
<1> QED BY <1>1, <1>2, <1>3 DEF Exclusive

LEMMA ExclusiveStep ==
  ASSUME LocksHold, TypeOK, TaskInv, CallsInv, Exclusive, Next
  PROVE  Exclusive'
<1> USE DEF Environment
<1>1. \A t \in Task : pc[t] # "idle" => job[t] \in Job /\ job[t].key \in Key
  BY DEF TaskInv, Job
<1>2. \A t \in Task : "idle" \notin Critical /\ (pc[t] \in Critical => pc[t] # "idle")
  BY DEF Critical
<1>3. ASSUME NEW t \in Task, NEW l \in Listener, NEW h \in Host, StartServe(t, l, h)
      PROVE  Exclusive'
  <2>1. KeyOf(l, h) \in Key
    BY <1>3, KeyOfType DEF StartServe
  <2>2. /\ Others(t) /\ UNCHANGED <<lockgen, cache>> /\ job'[t].gen = lockgen[KeyOf(l, h)]
        /\ pc'[t] \notin Critical
    BY <1>3 DEF StartServe, TypeOK, Others, Critical
  <2> QED BY <2>1, <2>2, OneCallMoves DEF Exclusive
<1>4. ASSUME NEW t \in Task, NEW l \in Listener, NEW h \in Host, Observe(t, l, h)
      PROVE  Exclusive'
  <2>1. /\ Others(t) /\ UNCHANGED <<lockgen, cache>> /\ job'[t].gen = 0 /\ pc'[t] \notin Critical
    BY <1>4 DEF Observe, TypeOK, Others, Critical
  <2> QED BY <2>1, OneCallMoves
<1>5. ASSUME NEW t \in Task, StartRecord(t)
      PROVE  Exclusive'
  <2>1. job[t].key \in Key /\ job[t] \in Job
    BY <1>1, <1>5 DEF StartRecord
  <2>2. /\ Others(t) /\ UNCHANGED <<lockgen, cache>> /\ pc'[t] \notin Critical
        /\ pc'[t] # "idle" => job'[t].gen = lockgen[job[t].key]
    BY <1>5, <2>1 DEF StartRecord, Idle, TypeOK, Others, Critical, Job
  <2> QED BY <2>1, <2>2, OneCallMoves DEF Exclusive
<1>6. ASSUME NEW t \in Task, LockServe(t) \/ LockRecord(t)
      PROVE  Exclusive'
  <2>1. /\ Others(t) /\ UNCHANGED <<lockgen, cache>> /\ pc[t] # "idle"
        /\ pc'[t] # "idle" => job'[t] = job[t]
        /\ pc'[t] \in Critical /\ job[t].op = "serve" => cache[job[t].key] = NoCert
    BY <1>6 DEF LockServe, LockRecord, Goto, Return, Idle, TypeOK, Others, Critical
  <2>2. \A u \in Task \ {t} : pc[u] \in Critical => job[u].key # job[t].key
    <3>1. LockFree(t)
      BY <1>6 DEF LockServe, LockRecord
    <3>2. job[t].gen = 0 /\ \A u \in Task : pc[u] \in Critical => job[u].gen = 0
      BY <1>2, <2>1 DEF Exclusive
    <3> QED BY <3>1, <3>2 DEF LockFree
  <2>3. pc'[t] # "idle" => job'[t].gen = 0
    BY <2>1 DEF Exclusive
  <2>4. pc'[t] \in Critical => job'[t] = job[t]
    BY <2>1 DEF Critical
  <2> QED BY <2>1, <2>2, <2>3, <2>4, OneCallMoves
<1>7. ASSUME NEW t \in Task, LoadNothing(t) \/ SignFails(t) \/ Sign(t) \/ SaveCrt(t) \/ SaveKey(t)
                             \/ SaveObs(t) \/ SaveFails(t) \/ Handshake(t)
      PROVE  Exclusive'
  <2>1. /\ Others(t) /\ UNCHANGED <<lockgen, cache>> /\ pc[t] # "idle"
        /\ pc'[t] # "idle" => job'[t] = job[t]
        /\ pc'[t] \in Critical => pc[t] \in Critical
    BY <1>7 DEF LoadNothing, SignFails, Sign, SaveCrt, SaveKey, SaveObs, SaveFails, Handshake,
                Goto, Idle, TypeOK, Others, Critical
  <2>2. pc'[t] # "idle" => job'[t].gen = 0
    BY <2>1 DEF Exclusive
  <2>3. pc'[t] \in Critical => job'[t] = job[t]
    BY <2>1 DEF Critical
  <2> QED BY <2>1, <2>2, <2>3, OneCallMoves
<1>8. ASSUME NEW t \in Task, Load(t) \/ Insert(t)
      PROVE  Exclusive'
  <2>1. /\ Others(t) /\ UNCHANGED lockgen /\ pc[t] # "idle"
        /\ pc'[t] # "idle" => job'[t] = job[t]
        /\ pc[t] \in Critical /\ pc'[t] \notin Critical
    BY <1>8 DEF Load, Insert, Return, Idle, TypeOK, Others, Critical
  <2>2. PICK c : cache' = [cache EXCEPT ![job[t].key] = c]
    BY <1>8 DEF Load, Insert
  <2>3. \A x : x # job[t].key => cache'[x] = cache[x]
    BY <2>2 DEF TypeOK
  <2>4. pc'[t] # "idle" => job'[t].gen = 0
    BY <2>1 DEF Exclusive
  <2> QED BY <2>1, <2>3, <2>4, OneCallMoves
<1>9. ASSUME NEW k \in Key, Evict(k) PROVE Exclusive'
  <2>1. /\ UNCHANGED <<lockgen, pc, job>>
        /\ \A x \in Key : cache[x] = NoCert => cache'[x] = NoCert
    BY <1>9 DEF Evict, TypeOK
  <2> QED BY <1>1, <1>2, <2>1 DEF Exclusive
<1>10. ASSUME NEW k \in Key, ExpireLock(k) PROVE Exclusive'
  <2>1. lockgen[k] = 0 /\ restarts \in Nat
    BY DEF Exclusive, TypeOK
  <2> QED BY <1>10, <2>1 DEF ExpireLock, LocksHold
<1>11. ASSUME NEW tgt \in Reflecting, NEW h \in Host, NEW o \in Observation, Rotate(tgt, h, o)
       PROVE  Exclusive'
  BY <1>11 DEF Rotate, Exclusive
<1>12. ASSUME NEW c \in Configs, Restart(c)
       PROVE  Exclusive'
  BY <1>12 DEF Restart, Exclusive, Critical
<1> QED
  BY <1>3, <1>4, <1>5, <1>6, <1>7, <1>8, <1>9, <1>10, <1>11, <1>12 DEF Next, TaskStep

(* What the three parts of the proof rest on. *)
GInv == TypeOK /\ TaskInv /\ GrantInv /\ Exclusive

LEMMA GInvHolds ==
  /\ Init => GInv
  /\ LocksHold /\ GInv /\ [Next]_vars => GInv'
<1>1. Init => Exclusive
  BY DEF Init, Exclusive, Critical
<1>2. LocksHold /\ GInv /\ [Next]_vars => Exclusive'
  <2>1. UNCHANGED vars /\ Exclusive => Exclusive'
    BY DEF vars, Exclusive
  <2> QED BY <2>1, ExclusiveStep DEF GInv, GrantInv
<1> QED BY <1>1, <1>2, InitIInv, InitGrant, TypeStep, Stutter, GrantStep DEF GInv, IInv

(* A mirrored certificate is replaced by nothing less: what fills the      *)
(* cache is an observation, or a call that holds the lock of an empty      *)
(* entry.                                                                  *)
LEMMA MirrorKept ==
  ASSUME GInv, [Next]_vars, NEW k \in Key, cache[k] # NoCert, cache[k].obs # NoObs
  PROVE  cache'[k] = NoCert \/ cache'[k].obs # NoObs
<1> USE DEF GInv, Environment
<1>1. CASE cache'[k] = cache[k]
  BY <1>1
<1>2. ASSUME NEW t \in Task, Load(t) PROVE cache'[k] = cache[k]
  <2>1. pc[t] = "load" /\ job[t].op = "serve"
    BY <1>2 DEF Load, GrantInv, CallsInv
  <2>2. cache[job[t].key] = NoCert
    BY <2>1 DEF Exclusive, Critical
  <2>3. PICK c : cache' = [cache EXCEPT ![job[t].key] = c]
    BY <1>2 DEF Load
  <2> QED BY <2>2, <2>3 DEF TypeOK
<1>3. ASSUME NEW t \in Task, Insert(t) PROVE cache'[k] = cache[k] \/ cache'[k].obs # NoObs
  <2>1. /\ pc[t] = "insert" /\ job[t] \in Job
        /\ cache' = [cache EXCEPT ![job[t].key] = [cert |-> cert[t], obs |-> job[t].obs]]
    BY <1>3 DEF Insert, TaskInv
  <2>2. CASE job[t].op = "serve"
    <3>1. cache[job[t].key] = NoCert
      BY <2>1, <2>2 DEF Exclusive, Critical
    <3> QED BY <2>1, <3>1 DEF TypeOK
  <2>3. CASE job[t].op = "record"
    <3>1. job[t].obs # NoObs
      BY <2>1, <2>3, MirrorAssumption DEF TaskInv
    <3> QED BY <2>1, <3>1 DEF TypeOK
  <2> QED BY <2>1, <2>2, <2>3 DEF Job
<1>4. ASSUME NEW x \in Key, Evict(x) PROVE cache'[k] = cache[k] \/ cache'[k] = NoCert
  BY <1>4 DEF Evict, TypeOK
<1>5. ASSUME NEW c \in Configs, Restart(c) PROVE cache'[k] = NoCert
  BY <1>5 DEF Restart
<1>6. CASE UNCHANGED cache
  BY <1>6
<1> QED
  BY <1>1, <1>2, <1>3, <1>4, <1>5, <1>6 DEF Next, TaskStep, vars, StartRecord, LockServe, LockRecord,
     LoadNothing, Sign, SignFails, SaveCrt, SaveKey, SaveObs, SaveFails, Handshake,
     StartServe, Observe, Rotate, ExpireLock

(* A concurrent first handshake never overwrites a mirrored certificate    *)
(* with an exact one (resolver.rs, the lock record_upstream_sans takes),   *)
(* for any number of calls, whatever crashes and fails to be written, as   *)
(* long as no lock is evicted while it is in use.                          *)
THEOREM MirrorsNotDowngraded == LocksHold => (Spec => MirrorNotDowngraded)
<1> SUFFICES ASSUME LocksHold PROVE Spec => MirrorNotDowngraded
  OBVIOUS
<1>1. Init => GInv
  BY GInvHolds
<1>2. GInv /\ [Next]_vars => GInv'
  BY GInvHolds
<1>3. GInv /\ [Next]_vars =>
        [\A k \in Key : cache[k] # NoCert /\ cache[k].obs # NoObs =>
           cache'[k] = NoCert \/ cache'[k].obs # NoObs]_vars
  BY MirrorKept
<1> QED BY <1>1, <1>2, <1>3, PTL DEF Spec, MirrorNotDowngraded
(* The two confinement tests read the table through its fingerprint: equal *)
(* scopes keep the same names (certscope.rs, the comment on                *)
(* router_fingerprint).                                                    *)
LEMMA SameNamed ==
  ASSUME NEW t, IsTable(t), NEW u, IsTable(u), Fingerprint(t) = Fingerprint(u),
         NEW p \in Domain, NEW inScope,
         \A h \in Domain : MatchHost(t, h) = MatchHost(u, h)
  PROVE  WildcardConfined(t, p, inScope) <=> WildcardConfined(u, p, inScope)
<1>1. t.exact = u.exact /\ t.wildcard = u.wildcard /\ t.suffix = u.suffix /\ t.default = u.default
      /\ {t.regex[i] : i \in DOMAIN t.regex} = {u.regex[i] : i \in DOMAIN u.regex}
  BY DEF Fingerprint
<1>2. Named(t, p) = Named(u, p) /\ Generic(t, p) = Generic(u, p)
  BY <1>1 DEF Named, Generic
<1>3. Named(t, p) \subseteq Domain
  BY DEF Named, IsTable, IsMap
<1>4. (\E k \in Named(t, p) : MatchHost(t, k) \notin inScope)
        <=> (\E k \in Named(u, p) : MatchHost(u, k) \notin inScope)
  BY <1>2, <1>3
<1>5. RegexOverlap(t, p, inScope) <=> RegexOverlap(u, p, inScope)
  <2> DEFINE Overlaps(r) == r.route \notin inScope /\ \E sp \in r.scope : MatchScopePattern(sp, p)
  <2>1. RegexOverlap(t, p, inScope) <=> \E r \in {t.regex[i] : i \in DOMAIN t.regex} : Overlaps(r)
    BY DEF RegexOverlap
  <2>2. RegexOverlap(u, p, inScope) <=> \E r \in {u.regex[i] : i \in DOMAIN u.regex} : Overlaps(r)
    BY DEF RegexOverlap
  <2> HIDE DEF Overlaps
  <2> QED BY <1>1, <2>1, <2>2
<1> QED BY <1>1, <1>2, <1>4, <1>5 DEF WildcardConfined, WildcardVerdict

LEMMA SameClip ==
  ASSUME ForwardingDetermined, NEW c \in Conf, NEW d \in Conf,
         NEW id \in RouteId, NEW jd \in RouteId, CertScope(c, id) = CertScope(d, jd),
         NEW h, NEW o \in SUBSET SAN
  PROVE  ClipSans(c, id, h, o) = ClipSans(d, jd, h, o)
<1>1. /\ \A g \in Domain : MatchHost(c.table, g) = MatchHost(d.table, g)
      /\ InScope(c, id) = InScope(d, jd)
  BY SameScope
<1>2. IsTable(c.table) /\ IsTable(d.table)
  BY MirrorAssumption DEF IsConf
<1>3. Fingerprint(c.table) = Fingerprint(d.table)
  BY DEF CertScope
<1>4. ASSUME NEW s \in o PROVE Keep(c, id, s) <=> Keep(d, jd, s)
  <2>1. s.dom \in Domain
    BY DEF SAN
  <2>2. WildcardConfined(c.table, s.dom, InScope(c, id)) <=> WildcardConfined(d.table, s.dom, InScope(d, jd))
    BY <1>1, <1>2, <1>3, <2>1, SameNamed
  <2>3. NameConfined(c.table, s.dom, InScope(c, id)) <=> NameConfined(d.table, s.dom, InScope(d, jd))
    BY <1>1, <2>1 DEF NameConfined
  <2> QED BY <2>2, <2>3 DEF Keep
<1>5. {s \in o : Keep(c, id, s)} = {s \in o : Keep(d, jd, s)}
  BY <1>4
<1> QED BY <1>5 DEF ClipSans

(* A call signs for what its observation is clipped to. *)
LEMMA SignedIsDescribed ==
  ASSUME ForwardingDetermined, TypeOK, TaskInv, CallsInv, NEW t \in Task, pc[t] # "idle"
  PROVE  Describes(job[t].key, SansFor(t), job[t].obs)
<1>1. CASE job[t].op = "serve"
  BY <1>1 DEF CallsInv, Describes
<1>2. CASE job[t].op # "serve"
  <2>1. job[t].op = "record" /\ job[t].obs \in Observation
    BY <1>2 DEF TaskInv, Job
  <2>2. PICK c, id : /\ c \in Conf /\ id \in RouteId /\ job[t].key.scope = CertScope(c, id)
                     /\ c = conf[job[t].lst] /\ id = Owner(job[t].lst, job[t].key.host)
    BY SignedIsConfined
  <2>3. SansFor(t) = ClipSans(c, id, job[t].key.host, job[t].obs)
    BY <1>2, <2>2 DEF SansFor
  <2>4. job[t].obs \in SUBSET SAN
    BY <2>1, MirrorAssumption
  <2> QED BY <2>2, <2>3, <2>4, SameClip DEF Describes, Users
<1> QED BY <1>1, <1>2

(* Its parts, with the variables made explicit. *)
CacheDescribed(ch) == \A k \in Key : ch[k] # NoCert => Describes(k, ch[k].cert.sans, ch[k].obs)
HandDescribed(t) ==
  /\ pc[t] \in Holding \ {"served"} => Describes(job[t].key, cert[t].sans, job[t].obs)
  /\ pc[t] \in Unfinished => /\ disk[job[t].key].crt # NoCert
                             /\ disk[job[t].key].crt.sans = cert[t].sans
DiskDescribed(k) ==
  disk[k].crt # NoCert /\ ~Saving(k) => Describes(k, disk[k].crt.sans, disk[k].obs)

LEMMA DescribedParts ==
  /\ DescribedEverywhere <=> /\ CacheDescribed(cache)
                             /\ \A k \in Key : DiskDescribed(k)
                             /\ \A t \in Task : HandDescribed(t)
  /\ DescribedEverywhere' <=> /\ CacheDescribed(cache')
                              /\ \A k \in Key : DiskDescribed(k)'
                              /\ \A t \in Task : HandDescribed(t)'
BY DEF DescribedEverywhere, CacheDescribed, HandDescribed, DiskDescribed, Describes

(* A step of one call: what it puts into the cache, onto the disk and into *)
(* its hands is described, and it leaves the other keys' files alone.      *)
LEMMA OneCallDescribes ==
  ASSUME TypeOK, TaskInv, Exclusive, DescribedEverywhere, NEW t \in Task, Others(t),
         CacheDescribed(cache'), HandDescribed(t)',
         \A k \in Key : disk'[k] = disk[k] \/ (pc[t] \in Critical /\ k = job[t].key),
         \A k \in Key :
           IF pc[t] \in Unfinished \/ pc'[t] \in Unfinished
           THEN k = job[t].key => DiskDescribed(k)'
           ELSE disk'[k] = disk[k],
         pc'[t] \in Unfinished => job'[t].key = job[t].key
  PROVE  DescribedEverywhere'
<1>1. ASSUME NEW u \in Task \ {t} PROVE HandDescribed(u)'
  <2>1. HandDescribed(u)
    BY DescribedParts
  <2>2. pc'[u] = pc[u] /\ job'[u] = job[u] /\ cert'[u] = cert[u]
    BY DEF Others
  <2>3. pc[u] \in Unfinished => disk'[job[u].key] = disk[job[u].key]
    <3>1. ASSUME pc[u] \in Unfinished PROVE job[u].key \in Key /\ (pc[t] \in Critical => job[u].key # job[t].key)
      BY <3>1 DEF Exclusive, Unfinished, Critical, TaskInv, Job
    <3> QED BY <3>1
  <2> QED BY <2>1, <2>2, <2>3 DEF HandDescribed, Describes
<1>2. ASSUME NEW k \in Key PROVE DiskDescribed(k)'
  <2>1. DiskDescribed(k)
    BY DescribedParts
  <2>2. CASE k = job[t].key /\ (pc[t] \in Unfinished \/ pc'[t] \in Unfinished)
    BY <2>2
  <2>3. CASE ~(k = job[t].key /\ (pc[t] \in Unfinished \/ pc'[t] \in Unfinished))
    <3>1. disk'[k] = disk[k]
      BY <2>3
    <3>2. Saving(k) => Saving(k)'
      BY <2>3 DEF Saving, Others
    <3> QED BY <2>1, <3>1, <3>2 DEF DiskDescribed, Describes
  <2> QED BY <2>2, <2>3
<1> QED BY <1>1, <1>2, DescribedParts
(* The inductive step of DescribedEverywhere: the files of a key disagree  *)
(* only while a call holds its lock, and nobody loads them meanwhile.      *)
LEMMA DescribedStep ==
  ASSUME ForwardingDetermined, SavesFinish, GInv, DescribedEverywhere, Next
  PROVE  DescribedEverywhere'
<1> USE DEF Environment
<1>1. TypeOK /\ TaskInv /\ CallsInv /\ Exclusive
  BY DEF GInv, GrantInv
<1>2. /\ CacheDescribed(cache)
      /\ \A k \in Key : DiskDescribed(k)
      /\ \A t \in Task : HandDescribed(t)
  BY DescribedParts
<1>3. \A t \in Task : pc[t] # "idle" => job[t] \in Job /\ job[t].key \in Key
  BY <1>1 DEF TaskInv, Job
<1>4. ASSUME NEW t \in Task, Others(t), UNCHANGED <<cache, disk>>,
             pc[t] \notin Unfinished, pc'[t] \notin Holding \ {"served"}
      PROVE  DescribedEverywhere'
  <2>1. pc'[t] \notin Unfinished
    BY <1>4 DEF Holding, Unfinished
  <2>2. HandDescribed(t)'
    BY <1>4, <2>1 DEF HandDescribed
  <2>3. CacheDescribed(cache')
    BY <1>2, <1>4
  <2> QED BY <1>1, <1>4, <2>1, <2>2, <2>3, OneCallDescribes
<1>5. ASSUME NEW t \in Task,
             \/ \E l \in Listener, h \in Host : StartServe(t, l, h) \/ Observe(t, l, h)
             \/ StartRecord(t) \/ LockServe(t) \/ LockRecord(t)
             \/ LoadNothing(t) \/ SignFails(t) \/ Handshake(t)
      PROVE  DescribedEverywhere'
  <2>1. Others(t) /\ UNCHANGED <<cache, disk>>
    BY <1>1, <1>5 DEF StartServe, Observe, StartRecord, LockServe, LockRecord, LoadNothing, SignFails,
       Handshake, Goto, Return, Idle, Others, TypeOK
  <2>2. pc[t] \notin Unfinished /\ pc'[t] \notin Holding \ {"served"}
    BY <1>1, <1>5 DEF StartServe, Observe, StartRecord, LockServe, LockRecord, LoadNothing, SignFails,
       Handshake, Goto, Return, Idle, TypeOK, Holding, Unfinished
  <2> QED BY <1>4, <2>1, <2>2
<1>6. ASSUME NEW t \in Task, Load(t)
      PROVE  DescribedEverywhere'
  <2> DEFINE k == job[t].key
             c == Loaded(k)
  <2>1. /\ k \in Key /\ Others(t) /\ UNCHANGED disk
        /\ pc[t] = "load" /\ pc'[t] = "served"
    BY <1>1, <1>3, <1>6 DEF Load, Return, Others, TypeOK
  <2>2. PICK obs \in {disk[k].obs, NoObs} :
          disk[k].crt # NoCert /\ cache' = [cache EXCEPT ![k] = [cert |-> c, obs |-> obs]]
    BY <1>6 DEF Load, Usable, Loadable, Loaded
  <2>3. ~Saving(k)
    BY <1>1, <2>1 DEF Exclusive, Saving, Critical, Unfinished
  <2>4. Describes(k, disk[k].crt.sans, obs)
    BY <1>2, <2>1, <2>2, <2>3 DEF DiskDescribed, Describes
  <2>5. c.sans = disk[k].crt.sans
    BY DEF Loaded
  <2> HIDE DEF c, k
  <2>6. CacheDescribed(cache')
    BY <1>1, <1>2, <2>1, <2>2, <2>4, <2>5 DEF CacheDescribed, TypeOK
  <2>7. HandDescribed(t)'
    BY <2>1 DEF HandDescribed, Holding, Unfinished
  <2> QED BY <1>1, <2>1, <2>6, <2>7, OneCallDescribes DEF Unfinished
<1>7. ASSUME NEW t \in Task, Sign(t)
      PROVE  DescribedEverywhere'
  <2>1. /\ Others(t) /\ UNCHANGED <<cache, disk, job>> /\ cert'[t].sans = SansFor(t)
        /\ pc[t] = "sign" /\ pc'[t] = "saveCrt"
    BY <1>1, <1>7 DEF Sign, Others, TypeOK
  <2>2. Describes(job[t].key, SansFor(t), job[t].obs)
    BY <1>1, <2>1, SignedIsDescribed
  <2>3. HandDescribed(t)'
    BY <2>1, <2>2 DEF HandDescribed, Unfinished, Describes
  <2>4. CacheDescribed(cache')
    BY <1>2, <2>1
  <2> QED BY <1>1, <2>1, <2>3, <2>4, OneCallDescribes DEF Unfinished
<1>8. ASSUME NEW t \in Task, SaveCrt(t) \/ SaveKey(t)
      PROVE  DescribedEverywhere'
  <2>1. /\ Others(t) /\ UNCHANGED <<cache, job, cert>> /\ job[t].key \in Key
        /\ pc[t] \in {"saveCrt", "saveKey"} /\ pc'[t] \in Unfinished
    BY <1>1, <1>3, <1>8 DEF SaveCrt, SaveKey, Goto, Others, TypeOK, Unfinished
  <2>2. /\ \A k \in Key \ {job[t].key} : disk'[k] = disk[k]
        /\ disk'[job[t].key].crt # NoCert /\ disk'[job[t].key].crt.sans = cert[t].sans
    <3>1. CASE SaveCrt(t)
      <4>1. cert[t] \in Cert
        BY <1>1, <3>1 DEF SaveCrt, TaskInv, Holding
      <4>2. [sans |-> cert[t].sans, serial |-> cert[t].serial] # NoCert
        BY <4>1, MirrorAssumption DEF Cert
      <4> QED BY <1>1, <2>1, <3>1, <4>2 DEF SaveCrt, TypeOK
    <3>2. CASE SaveKey(t)
      BY <1>1, <1>2, <2>1, <3>2 DEF SaveKey, TypeOK, HandDescribed, Unfinished
    <3> QED BY <1>8, <3>1, <3>2
  <2>3. HandDescribed(t)'
    BY <1>2, <2>1, <2>2 DEF HandDescribed, Holding, Unfinished, Describes
  <2>4. DiskDescribed(job[t].key)'
    BY <2>1 DEF DiskDescribed, Saving
  <2>5. CacheDescribed(cache')
    BY <1>2, <2>1
  <2>6. pc[t] \in Critical
    BY <2>1 DEF Critical
  <2> QED BY <1>1, <2>1, <2>2, <2>3, <2>4, <2>5, <2>6, OneCallDescribes
<1>9. ASSUME NEW t \in Task, SaveObs(t)
      PROVE  DescribedEverywhere'
  <2>1. /\ Others(t) /\ UNCHANGED <<cache, job, cert>> /\ job[t].key \in Key
        /\ pc[t] = "saveObs" /\ pc'[t] = "insert"
    BY <1>1, <1>3, <1>9 DEF SaveObs, Goto, Others, TypeOK
  <2>2. /\ \A k \in Key \ {job[t].key} : disk'[k] = disk[k]
        /\ disk'[job[t].key].crt = disk[job[t].key].crt /\ disk'[job[t].key].obs = job[t].obs
    BY <1>1, <1>9, <2>1 DEF SaveObs, TypeOK
  <2>3. Describes(job[t].key, cert[t].sans, job[t].obs) /\ disk[job[t].key].crt.sans = cert[t].sans
    BY <1>2, <2>1 DEF HandDescribed, Holding, Unfinished
  <2>4. HandDescribed(t)'
    BY <2>1, <2>3 DEF HandDescribed, Unfinished, Describes
  <2>5. DiskDescribed(job[t].key)'
    BY <2>1, <2>2, <2>3 DEF DiskDescribed, Describes
  <2>6. CacheDescribed(cache')
    BY <1>2, <2>1
  <2> QED BY <1>1, <2>1, <2>2, <2>4, <2>5, <2>6, OneCallDescribes DEF Unfinished, Critical
<1>10. ASSUME NEW t \in Task, SaveFails(t)
       PROVE  FALSE
  BY <1>10 DEF SaveFails, SavesFinish
<1>11. ASSUME NEW t \in Task, Insert(t)
       PROVE  DescribedEverywhere'
  <2>1. /\ Others(t) /\ UNCHANGED disk /\ job[t].key \in Key
        /\ pc[t] = "insert" /\ pc'[t] \in {"idle", "served"}
        /\ cache' = [cache EXCEPT ![job[t].key] = [cert |-> cert[t], obs |-> job[t].obs]]
    BY <1>1, <1>3, <1>11 DEF Insert, Return, Idle, Others, TypeOK
  <2>2. Describes(job[t].key, cert[t].sans, job[t].obs)
    BY <1>2, <2>1 DEF HandDescribed, Holding
  <2>3. CacheDescribed(cache')
    BY <1>1, <1>2, <2>1, <2>2 DEF CacheDescribed, TypeOK
  <2>4. HandDescribed(t)'
    BY <2>1 DEF HandDescribed, Holding, Unfinished
  <2> QED BY <1>1, <2>1, <2>3, <2>4, OneCallDescribes DEF Unfinished
<1>12. ASSUME UNCHANGED <<disk, pc, job, cert>>, \A k \in Key : cache'[k] \in {cache[k], NoCert}
       PROVE  DescribedEverywhere'
  BY <1>2, <1>12, DescribedParts
     DEF CacheDescribed, DiskDescribed, HandDescribed, Saving, Describes
<1>13. ASSUME NEW k \in Key, Evict(k) \/ ExpireLock(k)
       PROVE  DescribedEverywhere'
  BY <1>1, <1>12, <1>13 DEF Evict, ExpireLock, TypeOK
<1>14. ASSUME NEW tgt \in Reflecting, NEW h \in Host, NEW o \in Observation, Rotate(tgt, h, o)
       PROVE  DescribedEverywhere'
  BY <1>12, <1>14 DEF Rotate
<1>15. ASSUME NEW c \in Configs, Restart(c)
       PROVE  DescribedEverywhere'
  <2>1. /\ UNCHANGED disk /\ \A k \in Key : cache'[k] = NoCert
        /\ \A t \in Task : pc'[t] = "idle"
    BY <1>15 DEF Restart
  <2>2. \A k \in Key : ~Saving(k)
    BY <1>15 DEF Restart, SavesFinish, Saving, Unfinished
  <2>3. CacheDescribed(cache') /\ \A t \in Task : HandDescribed(t)'
    BY <2>1 DEF CacheDescribed, HandDescribed, Holding, Unfinished
  <2>4. \A k \in Key : DiskDescribed(k)'
    BY <1>2, <2>1, <2>2 DEF DiskDescribed, Describes
  <2> QED BY <2>3, <2>4, DescribedParts
<1> QED
  BY <1>5, <1>6, <1>7, <1>8, <1>9, <1>10, <1>11, <1>13, <1>14, <1>15 DEF Next, TaskStep

(* A certificate of the cache has exactly the names its recorded           *)
(* observation is clipped to, on every listener that would serve it, so no *)
(* rotation goes unnoticed (store.rs, the sidecar; resolver.rs,            *)
(* mirror_is_current): for any number of calls, as long as no lock is      *)
(* evicted in use, no save is cut short, and equal fingerprints forward    *)
(* alike.                                                                  *)
THEOREM ObservationsDescribe ==
  LocksHold /\ SavesFinish /\ ForwardingDetermined => (Spec => []ObservationDescribesCertificate)
<1> SUFFICES ASSUME LocksHold, SavesFinish, ForwardingDetermined
             PROVE  Spec => []ObservationDescribesCertificate
  OBVIOUS
<1>1. Init => GInv /\ DescribedEverywhere
  <2>1. Init => DescribedEverywhere
    BY DEF Init, DescribedEverywhere, EmptyFiles, Holding, Unfinished
  <2> QED BY <2>1, GInvHolds
<1>2. GInv /\ DescribedEverywhere /\ [Next]_vars => GInv' /\ DescribedEverywhere'
  <2>1. UNCHANGED vars /\ DescribedEverywhere => DescribedEverywhere'
    BY DEF vars, DescribedEverywhere, Saving, Describes
  <2> QED BY <2>1, GInvHolds, DescribedStep
<1>3. GInv /\ DescribedEverywhere => ObservationDescribesCertificate
  <2> SUFFICES ASSUME GInv, DescribedEverywhere, NEW k \in Key, cache[k] # NoCert, cache[k].obs # NoObs,
                      NEW l \in Listener, Routed(l, k.host), KeyOf(l, k.host) = k
               PROVE  cache[k].cert.sans = ClipSans(conf[l], Owner(l, k.host), k.host, cache[k].obs)
    BY DEF ObservationDescribesCertificate
  <2>1. k.host \in Host /\ k.host \in Domain
    BY MirrorAssumption DEF Key
  <2>2. conf[l] \in Conf /\ IsTable(conf[l].table)
    BY MirrorAssumption DEF GInv, TypeOK, Conf, IsConf
  <2>3. Owner(l, k.host) \in RouteId
    BY <2>1, <2>2, MatchHostType DEF Routed, Owner
  <2>4. <<conf[l], Owner(l, k.host)>> \in Users(k)
    <3>1. CertScope(conf[l], Owner(l, k.host)) = k.scope
      BY DEF KeyOf
    <3> QED BY <2>2, <2>3, <3>1 DEF Users
  <2>5. Describes(k, cache[k].cert.sans, cache[k].obs)
    BY DEF DescribedEverywhere
  <2> QED BY <2>4, <2>5 DEF Describes
<1> QED BY <1>1, <1>2, <1>3, PTL DEF Spec
=============================================================================
