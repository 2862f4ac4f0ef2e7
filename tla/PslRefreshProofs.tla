-------------------------- MODULE PslRefreshProofs --------------------------
(***************************************************************************)
(* The refresh of the public-suffix list, for every configuration, any     *)
(* number of versions, crashes and signals, and every order of the two     *)
(* reload tasks, the downloads and the operator's own changes: the gateway *)
(* starts on whatever file it wrote itself, and a change the watcher saw   *)
(* arrive is in effect once the watcher has answered it.                   *)
(*                                                                         *)
(* The invariant follows a downloaded list, which has rules from the       *)
(* moment it is accepted until it is at the path, and the last file the    *)
(* watcher saw, which is announced, or read, or in effect.                 *)
(***************************************************************************)
EXTENDS PslRefresh, TLAPS, WellFoundedInduction, SequenceTheorems

-----------------------------------------------------------------------------
(* Which suffix a list makes of a name.                                    *)

(* What published lists keep to: no rule is listed twice; the exceptions   *)
(* are in the ICANN section and do not nest; no private rule speaks of a   *)
(* top-level name, or of a suffix that an ICANN wildcard makes.            *)
WellFormed(list) ==
  /\ \A r, s \in list : r.kind = s.kind /\ r.name = s.name => r = s
  /\ \A r \in list : r.kind = "exception" => r.section = "icann"
  /\ \A r, s \in list :
       r.kind = "exception" /\ s.kind = "exception" /\ IsPrefix(r.name, s.name) => r = s
  /\ \A r \in list : r.section = "private" => SuffixLen(r) >= 2
  /\ \A r, s \in list :
       r.kind = "wildcard" /\ r.section = "icann" /\ s.kind = "plain" /\ s.section = "private"
       => ~(IsPrefix(r.name, s.name) /\ Len(s.name) = Len(r.name) + 1)

Name == Seq(Label) \ {<< >>}
Found(list, h) == {r \in list : Matches(r, h)}
IsBest(list, h, r) == r \in Found(list, h) /\ \A s \in Found(list, h) \ {r} : Prevails(r, s)
Icann(list) == {r \in list : r.section = "icann"}

(* Every non-empty set of naturals has a least element. *)
LEMMA LeastOf ==
  ASSUME NEW T, T \subseteq Nat, T # {}
  PROVE  \E x \in T : \A y \in T : x <= y
<1> DEFINE Below == OpToRel(<, Nat)
<1>1. IsWellFoundedOn(Below, Nat)
  BY NatLessThanWellFounded
<1>2. PICK x \in T : \A y \in T : <<y, x>> \notin Below
  <2> HIDE DEF Below
  <2> QED BY <1>1, WFMin
<1>3. ASSUME NEW y \in T PROVE x <= y
  <2>1. ~(y < x)
    BY <1>2, x \in Nat, y \in Nat DEF OpToRel
  <2> QED BY <2>1, x \in Nat, y \in Nat
<1> QED BY <1>3

LEMMA PrefixPointwise ==
  ASSUME NEW s \in Seq(Label), NEW t \in Seq(Label)
  PROVE  IsPrefix(s, t) <=> Len(s) <= Len(t) /\ \A i \in 1 .. Len(s) : s[i] = t[i]
<1>1. CASE Len(s) <= Len(t)
  <2>1. Len(s) \in Nat /\ Len(t) \in Nat
    BY LenProperties
  <2>2. SubSeq(s, 1, Len(s)) = [i \in 1 .. Len(s) |-> s[i]]
    BY <2>1
  <2>3. SubSeq(t, 1, Len(s)) = [i \in 1 .. Len(s) |-> t[i]]
    BY <1>1, <2>1
  <2> QED BY <1>1, <2>2, <2>3 DEF IsPrefix
<1>2. CASE ~(Len(s) <= Len(t))
  BY <1>2 DEF IsPrefix
<1> QED BY <1>1, <1>2

(* Two prefixes of a name of one length are the same. *)
LEMMA PrefixesAgree ==
  ASSUME NEW s \in Seq(Label), NEW t \in Seq(Label), NEW h \in Seq(Label),
         IsPrefix(s, h), IsPrefix(t, h), Len(s) <= Len(t)
  PROVE  IsPrefix(s, t) /\ (Len(s) = Len(t) => s = t)
<1>1. \A i \in 1 .. Len(s) : s[i] = t[i]
  <2>1. Len(s) \in Nat /\ Len(t) \in Nat
    BY LenProperties
  <2>2. \A i \in 1 .. Len(s) : s[i] = h[i]
    BY PrefixPointwise
  <2>3. \A i \in 1 .. Len(t) : t[i] = h[i]
    BY PrefixPointwise
  <2> QED BY <2>1, <2>2, <2>3
<1>2. IsPrefix(s, t)
  BY <1>1, PrefixPointwise
<1> QED BY <1>1, <1>2, SeqEqual

LEMMA RuleTyped ==
  ASSUME NEW r \in Rule
  PROVE  /\ r.kind \in {"plain", "wildcard", "exception"} /\ r.section \in {"icann", "private"}
         /\ r.name \in Seq(Label) /\ Len(r.name) \in Nat
         /\ SuffixLen(r) \in Int
         /\ SuffixLen(r) = IF r.kind = "plain" THEN Len(r.name)
                           ELSE IF r.kind = "wildcard" THEN Len(r.name) + 1 ELSE Len(r.name) - 1
<1>1. /\ r.kind \in {"plain", "wildcard", "exception"} /\ r.section \in {"icann", "private"}
      /\ r.name \in Seq(Label)
  BY SuffixAssumption
<1>2. Len(r.name) \in Nat
  BY <1>1, LenProperties
<1> QED BY <1>1, <1>2 DEF SuffixLen

(* A rule matches a shorter name if its suffix is one of it. *)
LEMMA MatchesHead ==
  ASSUME NEW r \in Rule, NEW h \in Name, NEW n \in 1 .. Len(h)
  PROVE  /\ SubSeq(h, 1, n) \in Name /\ Len(SubSeq(h, 1, n)) = n
         /\ Matches(r, SubSeq(h, 1, n)) <=>
              Matches(r, h) /\ Len(r.name) <= n /\ (r.kind = "wildcard" => n > Len(r.name))
<1> DEFINE g == SubSeq(h, 1, n)
<1>1. h \in Seq(Label) /\ Len(h) \in Nat
  BY LenProperties DEF Name
<1>2. g \in Seq(Label) /\ Len(g) = n /\ \A i \in 1 .. n : g[i] = h[i]
  BY <1>1
<1>3. g \in Name
  BY <1>2 DEF Name
<1>4. r.name \in Seq(Label) /\ Len(r.name) \in Nat
  BY RuleTyped
<1> HIDE DEF g
<1>5. IsPrefix(r.name, g) <=> IsPrefix(r.name, h) /\ Len(r.name) <= n
  BY <1>1, <1>2, <1>4, PrefixPointwise
<1>6. Matches(r, g) <=> Matches(r, h) /\ Len(r.name) <= n /\ (r.kind = "wildcard" => n > Len(r.name))
  BY <1>1, <1>2, <1>4, <1>5 DEF Matches
<1> QED BY <1>2, <1>3, <1>6 DEF g

(* Of two rules that match a name, at most one prevails. *)
LEMMA OneBest ==
  ASSUME NEW list, list \subseteq Rule, WellFormed(list), NEW h \in Name,
         NEW r, NEW q, IsBest(list, h, r), IsBest(list, h, q)
  PROVE  r = q
<1> SUFFICES ASSUME r # q PROVE FALSE
  OBVIOUS
<1>1. /\ r \in list /\ q \in list /\ r \in Rule /\ q \in Rule /\ Prevails(r, q) /\ Prevails(q, r)
      /\ IsPrefix(r.name, h) /\ IsPrefix(q.name, h) /\ h \in Seq(Label)
  BY DEF IsBest, Found, Matches, Name
<1>2. CASE r.kind = "exception" /\ q.kind = "exception"
  <2>1. r.name \in Seq(Label) /\ q.name \in Seq(Label) /\ Len(r.name) \in Nat /\ Len(q.name) \in Nat
    BY <1>1, RuleTyped
  <2>2. IsPrefix(r.name, q.name) \/ IsPrefix(q.name, r.name)
    <3>1. CASE Len(r.name) <= Len(q.name)
      BY <1>1, <2>1, <3>1, PrefixesAgree
    <3>2. CASE Len(q.name) <= Len(r.name)
      BY <1>1, <2>1, <3>2, PrefixesAgree
    <3> QED BY <2>1, <3>1, <3>2
  <2> QED BY <1>1, <1>2, <2>2 DEF WellFormed
<1>3. CASE ~(r.kind = "exception" /\ q.kind = "exception")
  <2>1. SuffixLen(r) \in Int /\ SuffixLen(q) \in Int
    BY <1>1, RuleTyped
  <2> QED BY <1>1, <1>3, <2>1 DEF Prevails
<1> QED BY <1>2, <1>3

LEMMA SuffixOfBest ==
  ASSUME NEW list, list \subseteq Rule, WellFormed(list), NEW h \in Name,
         NEW r, IsBest(list, h, r)
  PROVE  PublicSuffix(list, h) = [len |-> SuffixLen(r), type |-> r.section]
<1> DEFINE best == CHOOSE q \in Found(list, h) : \A s \in Found(list, h) \ {q} : Prevails(q, s)
<1>1. IsBest(list, h, best)
  BY DEF IsBest
<1>2. best = r
  <2> HIDE DEF best
  <2> QED BY <1>1, OneBest
<1>3. Found(list, h) # {}
  BY DEF IsBest
<1> QED BY <1>2, <1>3 DEF PublicSuffix, Found

LEMMA SuffixFits ==
  ASSUME NEW r \in Rule, NEW h \in Name, Matches(r, h)
  PROVE  SuffixLen(r) <= Len(h)
<1>1. h \in Seq(Label) /\ Len(h) \in Nat
  BY LenProperties DEF Name
<1>2. Len(r.name) <= Len(h)
  BY <1>1, RuleTyped, PrefixPointwise DEF Matches
<1> QED BY <1>1, <1>2, RuleTyped DEF Matches

LEMMA BestExists ==
  ASSUME NEW list, list \subseteq Rule, WellFormed(list), NEW h \in Name, Found(list, h) # {}
  PROVE  \E r : IsBest(list, h, r)
<1>1. h \in Seq(Label) /\ Len(h) \in Nat
  BY LenProperties DEF Name
<1>2. CASE \E e \in Found(list, h) : e.kind = "exception"
  BY <1>2 DEF IsBest, Prevails
<1>3. CASE \A e \in Found(list, h) : e.kind # "exception"
  <2>1. \A r \in Found(list, h) : r \in list /\ r \in Rule /\ Matches(r, h) /\ SuffixLen(r) \in Int
    BY RuleTyped DEF Found
  <2> DEFINE Slack == {Len(h) - SuffixLen(r) : r \in Found(list, h)}
  <2>2. PICK x \in Slack : \A y \in Slack : x <= y
    <3>1. Slack \subseteq Nat
      BY <1>1, <2>1, SuffixFits
    <3>2. Slack # {}
      OBVIOUS
    <3> HIDE DEF Slack
    <3> QED BY <3>1, <3>2, LeastOf
  <2>3. PICK r \in Found(list, h) : \A s \in Found(list, h) : SuffixLen(s) <= SuffixLen(r)
    <3>1. PICK r \in Found(list, h) : x = Len(h) - SuffixLen(r)
      BY <2>2
    <3>2. ASSUME NEW s \in Found(list, h) PROVE SuffixLen(s) <= SuffixLen(r)
      <4>1. Len(h) - SuffixLen(r) <= Len(h) - SuffixLen(s)
        BY <2>2, <3>1
      <4> QED BY <1>1, <2>1, <4>1
    <3> QED BY <3>2
  <2>4. PICK b \in Found(list, h) :
          /\ \A s \in Found(list, h) : SuffixLen(s) <= SuffixLen(b)
          /\ b.kind = "wildcard" => \A s \in Found(list, h) :
                                      SuffixLen(s) = SuffixLen(b) => s.kind # "plain"
    <3>1. CASE \E s \in Found(list, h) : SuffixLen(s) = SuffixLen(r) /\ s.kind = "plain"
      BY <2>3, <3>1
    <3>2. CASE ~\E s \in Found(list, h) : SuffixLen(s) = SuffixLen(r) /\ s.kind = "plain"
      BY <2>3, <3>2
    <3> QED BY <3>1, <3>2
  <2>5. ASSUME NEW s \in Found(list, h) \ {b} PROVE Prevails(b, s)
    <3>1. CASE SuffixLen(s) # SuffixLen(b)
      BY <1>3, <2>1, <2>4, <3>1 DEF Prevails
    <3>2. CASE SuffixLen(s) = SuffixLen(b)
      <4>1. /\ s \in Rule /\ b \in Rule /\ s \in list /\ b \in list /\ s # b
            /\ IsPrefix(s.name, h) /\ IsPrefix(b.name, h)
        BY <2>1 DEF Matches
      <4>2. /\ s.name \in Seq(Label) /\ b.name \in Seq(Label)
            /\ Len(s.name) \in Nat /\ Len(b.name) \in Nat
            /\ s.kind \in {"plain", "wildcard"} /\ b.kind \in {"plain", "wildcard"}
        BY <1>3, <4>1, RuleTyped
      <4>3. s.kind = b.kind => FALSE
        <5> SUFFICES ASSUME s.kind = b.kind PROVE FALSE
          OBVIOUS
        <5>1. Len(s.name) = Len(b.name)
          BY <3>2, <4>1, <4>2, RuleTyped
        <5>2. s.name = b.name
          BY <1>1, <4>1, <4>2, <5>1, PrefixesAgree
        <5> QED BY <4>1, <5>2 DEF WellFormed
      <4>4. b.kind = "plain" /\ s.kind = "wildcard"
        BY <2>4, <3>2, <4>2, <4>3
      <4> QED BY <3>2, <4>4 DEF Prevails
    <3> QED BY <3>1, <3>2
  <2> QED BY <2>5 DEF IsBest
<1> QED BY <1>2, <1>3

LEMMA IcannWellFormed ==
  ASSUME NEW list, list \subseteq Rule, WellFormed(list)
  PROVE  Icann(list) \subseteq Rule /\ WellFormed(Icann(list))
BY DEF WellFormed, Icann

(* The boundary: registrable_icann walks down a private suffix to the      *)
(* nearest one that is not, and that is the ICANN suffix.                  *)
LEMMA BoundaryIsIcann ==
  ASSUME NEW list, list \subseteq Rule, WellFormed(list), NEW h \in Name
  PROVE  Boundary(list, h) = IcannSuffix(list, h)
<1>1. h \in Seq(Label) /\ Len(h) \in Nat /\ Len(h) # 0
  BY LenProperties, EmptySeq DEF Name
<1>2. /\ IcannSuffix(list, h) = PublicSuffix(Icann(list), h).len
      /\ Icann(list) \subseteq Rule /\ WellFormed(Icann(list))
  BY IcannWellFormed DEF IcannSuffix, Icann
<1>3. ASSUME NEW g \in Name, Found(list, g) = {}
      PROVE  PublicSuffix(list, g) = [len |-> 1, type |-> "unknown"]
  BY <1>3 DEF PublicSuffix, Found
<1>4. ASSUME NEW g \in Name, Found(Icann(list), g) = {}
      PROVE  PublicSuffix(Icann(list), g) = [len |-> 1, type |-> "unknown"]
  BY <1>4 DEF PublicSuffix, Found
<1>5. ASSUME Found(list, h) = {} PROVE Boundary(list, h) = IcannSuffix(list, h)
  <2>1. Found(Icann(list), h) = {}
    BY <1>5 DEF Found, Icann
  <2> QED BY <1>2, <1>3, <1>4, <1>5, <2>1 DEF Boundary
<1>6. ASSUME NEW b, IsBest(list, h, b), b.section = "icann"
      PROVE  Boundary(list, h) = IcannSuffix(list, h)
  <2>1. PublicSuffix(list, h) = [len |-> SuffixLen(b), type |-> "icann"]
    BY <1>6, SuffixOfBest
  <2>2. IsBest(Icann(list), h, b)
    BY <1>6 DEF IsBest, Found, Icann
  <2>3. PublicSuffix(Icann(list), h) = [len |-> SuffixLen(b), type |-> b.section]
    BY <1>2, <2>2, SuffixOfBest
  <2> QED BY <1>2, <2>1, <2>3 DEF Boundary
<1>7. ASSUME NEW b, IsBest(list, h, b), b.section = "private"
      PROVE  Boundary(list, h) = IcannSuffix(list, h)
  <2> DEFINE n0 == SuffixLen(b)
             rests == {n \in 1 .. n0 - 1 : PublicSuffix(list, SubSeq(h, 1, n)).type # "private"}
  <2>1. /\ b \in list /\ b \in Rule /\ Matches(b, h) /\ n0 \in Int /\ n0 >= 2 /\ n0 <= Len(h)
        /\ b.kind # "exception"
    <3>1. b \in list /\ b \in Rule /\ Matches(b, h)
      BY <1>7 DEF IsBest, Found
    <3>2. b.kind # "exception" /\ n0 >= 2
      BY <1>7, <3>1 DEF WellFormed
    <3> QED BY <3>1, <3>2, SuffixFits, RuleTyped
  <2>2. PublicSuffix(list, h) = [len |-> n0, type |-> "private"]
    BY <1>7, SuffixOfBest
  (* No exception matches; what matches is no longer than the best. *)
  <2>3. ASSUME NEW r \in list, Matches(r, h)
        PROVE  /\ r \in Rule /\ r.kind \in {"plain", "wildcard"} /\ SuffixLen(r) \in Nat
               /\ SuffixLen(r) <= n0 /\ Len(r.name) \in Nat
    <3>1. r \in Rule /\ (r # b => Prevails(b, r))
      BY <1>7, <2>3 DEF IsBest, Found
    <3>2. r.kind # "exception"
      BY <2>1, <3>1 DEF Prevails
    <3>3. SuffixLen(r) \in Int /\ SuffixLen(r) <= n0
      BY <2>1, <3>1, <3>2, RuleTyped DEF Prevails
    <3> QED BY <3>1, <3>2, <3>3, RuleTyped
  <2>4. ASSUME NEW n \in 1 .. n0 - 1
        PROVE  /\ SubSeq(h, 1, n) \in Name
               /\ \A r \in list :
                    Matches(r, SubSeq(h, 1, n)) <=> Matches(r, h) /\ SuffixLen(r) <= n
    <3>1. n \in 1 .. Len(h)
      BY <1>1, <2>1
    <3>2. SubSeq(h, 1, n) \in Name
      BY <2>1, <3>1, MatchesHead
    <3>3. ASSUME NEW r \in list
          PROVE  Matches(r, SubSeq(h, 1, n)) <=> Matches(r, h) /\ SuffixLen(r) <= n
      <4>1. r \in Rule
        OBVIOUS
      <4>2. Matches(r, SubSeq(h, 1, n)) <=>
              Matches(r, h) /\ Len(r.name) <= n /\ (r.kind = "wildcard" => n > Len(r.name))
        BY <3>1, <4>1, MatchesHead
      <4>3. CASE Matches(r, h)
        <5>1. /\ r.kind \in {"plain", "wildcard"} /\ Len(r.name) \in Nat
              /\ SuffixLen(r) = IF r.kind = "plain" THEN Len(r.name) ELSE Len(r.name) + 1
          BY <2>3, <4>1, <4>3, RuleTyped
        <5> QED BY <3>1, <4>2, <4>3, <5>1
      <4>4. CASE ~Matches(r, h)
        BY <4>2, <4>4
      <4> QED BY <4>3, <4>4
    <3> QED BY <3>2, <3>3
  (* The best of a shorter name, if it is in the ICANN section. *)
  <2>5. 1 \in rests
    <3>1. 1 \in 1 .. n0 - 1
      BY <2>1
    <3>2. CASE Found(list, SubSeq(h, 1, 1)) = {}
      BY <1>3, <2>4, <3>1, <3>2
    <3>3. CASE Found(list, SubSeq(h, 1, 1)) # {}
      <4>1. PICK q : IsBest(list, SubSeq(h, 1, 1), q)
        BY <2>4, <3>1, <3>3, BestExists
      <4>2. q \in list /\ q \in Rule /\ SuffixLen(q) <= 1 /\ SuffixLen(q) \in Int
        BY <2>4, <3>1, <4>1, RuleTyped DEF IsBest, Found
      <4>3. q.section # "private"
        BY <4>2 DEF WellFormed
      <4>4. PublicSuffix(list, SubSeq(h, 1, 1)).type = q.section
        BY <2>4, <3>1, <4>1, SuffixOfBest
      <4> QED BY <3>1, <4>3, <4>4
    <3> QED BY <3>2, <3>3
  <2>6. PICK m \in rests : \A n \in rests : n <= m
    <3> DEFINE Slack == {n0 - n : n \in rests}
    <3>1. Slack \subseteq Nat /\ Slack # {}
      BY <2>1, <2>5
    <3>2. PICK x \in Slack : \A y \in Slack : x <= y
      <4> HIDE DEF Slack
      <4> QED BY <3>1, LeastOf
    <3>3. PICK k \in rests : x = n0 - k
      BY <3>2
    <3>4. ASSUME NEW n \in rests PROVE n <= k
      <4>1. n0 - k <= n0 - n
        BY <3>2, <3>3
      <4> QED BY <2>1, <4>1
    <3> QED BY <3>4
  <2>7. Boundary(list, h) = PublicSuffix(list, SubSeq(h, 1, m)).len
    <3>1. Max(rests) = m
      <4>1. rests \subseteq Int
        BY <2>1
      <4> HIDE DEF rests
      <4>2. \A y \in rests : (\A n \in rests : y >= n) => y = m
        BY <2>6, <4>1
      <4>3. m \in rests /\ \A n \in rests : m >= n
        BY <2>6, <4>1
      <4> QED BY <4>2, <4>3 DEF Max
    <3>2. Boundary(list, h) = PublicSuffix(list, SubSeq(h, 1, Max(rests))).len
      BY <2>2, <2>5 DEF Boundary
    <3> QED BY <3>1, <3>2
  <2> DEFINE g == SubSeq(h, 1, m)
  <2>8. m \in 1 .. n0 - 1 /\ g \in Name /\ PublicSuffix(list, g).type # "private"
    BY <2>4, <2>6
  <2> HIDE DEF g
  <2>9. CASE Found(Icann(list), h) = {}
    <3>1. Found(list, g) = {}
      <4> SUFFICES ASSUME Found(list, g) # {} PROVE FALSE
        OBVIOUS
      <4>1. PICK q : IsBest(list, g, q)
        BY <2>8, BestExists
      <4>2. q \in list /\ q \in Rule /\ Matches(q, h)
        BY <2>4, <2>8, <4>1 DEF IsBest, Found, g
      <4>3. q.section = "icann"
        BY <2>8, <4>1, <4>2, SuffixOfBest, RuleTyped
      <4> QED BY <2>9, <4>2, <4>3 DEF Found, Icann
    <3> QED BY <1>2, <1>3, <1>4, <2>7, <2>8, <2>9, <3>1 DEF g
  <2>10. CASE Found(Icann(list), h) # {}
    <3>1. PICK c : IsBest(Icann(list), h, c)
      BY <1>2, <2>10, BestExists
    <3> DEFINE l == SuffixLen(c)
    <3>2. c \in list /\ c \in Rule /\ c.section = "icann" /\ Matches(c, h) /\ l \in Nat /\ l <= n0
      BY <2>3, <3>1 DEF IsBest, Found, Icann
    <3>3. PublicSuffix(Icann(list), h) = [len |-> l, type |-> c.section]
      BY <1>2, <3>1, SuffixOfBest
    (* A private rule that ties with c loses to it. *)
    <3>4. ASSUME NEW s \in list, Matches(s, h), s.section = "private", SuffixLen(s) = l
          PROVE  c.kind = "plain" /\ s.kind = "wildcard"
      <4>1. s \in Rule /\ s.kind \in {"plain", "wildcard"} /\ c.kind \in {"plain", "wildcard"}
        BY <2>3, <3>2, <3>4
      <4>2. /\ s.name \in Seq(Label) /\ c.name \in Seq(Label)
            /\ Len(s.name) \in Nat /\ Len(c.name) \in Nat
            /\ IsPrefix(s.name, h) /\ IsPrefix(c.name, h)
        BY <3>2, <3>4, <4>1, RuleTyped DEF Matches
      <4>3. s.kind # c.kind
        <5> SUFFICES ASSUME s.kind = c.kind PROVE FALSE
          OBVIOUS
        <5>1. Len(s.name) = Len(c.name)
          BY <3>2, <3>4, <4>1, <4>2, RuleTyped
        <5>2. s.name = c.name
          BY <1>1, <4>2, <5>1, PrefixesAgree
        <5> QED BY <3>2, <3>4, <5>2 DEF WellFormed
      <4>4. ~(c.kind = "wildcard" /\ s.kind = "plain")
        <5> SUFFICES ASSUME c.kind = "wildcard", s.kind = "plain" PROVE FALSE
          OBVIOUS
        <5>1. Len(s.name) = Len(c.name) + 1
          BY <3>2, <3>4, <4>1, <4>2, RuleTyped
        <5>2. IsPrefix(c.name, s.name)
          BY <1>1, <4>2, <5>1, PrefixesAgree
        <5> QED BY <3>2, <3>4, <5>1, <5>2 DEF WellFormed
      <4> QED BY <4>1, <4>3, <4>4
    <3>5. l # n0
      <4> SUFFICES ASSUME l = n0 PROVE FALSE
        OBVIOUS
      <4>1. c.kind = "plain" /\ b.kind = "wildcard"
        BY <1>7, <2>1, <3>4
      <4>2. c # b /\ Prevails(b, c)
        BY <1>7, <3>2, <4>1 DEF IsBest, Found
      <4> QED BY <2>1, <3>2, <4>1, <4>2 DEF Prevails
    <3>6. l \in 1 .. n0 - 1 \/ l = 0
      BY <2>1, <3>2, <3>5
    <3>7. l <= m
      <4>1. CASE l = 0
        BY <2>1, <2>8, <4>1
      <4>2. CASE l \in 1 .. n0 - 1
        <5> DEFINE k == SubSeq(h, 1, l)
        <5>1. k \in Name /\ c \in Found(list, k)
          BY <2>4, <3>2, <4>2 DEF Found
        <5>2. \A r \in Found(list, k) : r \in list /\ Matches(r, h) /\ SuffixLen(r) <= l
          BY <2>4, <4>2 DEF Found
        <5> HIDE DEF k
        <5>3. PICK q : IsBest(list, k, q)
          BY <5>1, BestExists
        <5>4. /\ q \in list /\ q \in Rule /\ Matches(q, h) /\ SuffixLen(q) \in Nat /\ SuffixLen(q) <= l
              /\ q.kind \in {"plain", "wildcard"}
          BY <2>3, <5>2, <5>3 DEF IsBest
        <5>5. q.section # "private"
          <6> SUFFICES ASSUME q.section = "private" PROVE FALSE
            OBVIOUS
          <6>1. q # c /\ Prevails(q, c)
            BY <3>2, <5>1, <5>3 DEF IsBest
          <6>2. c.kind \in {"plain", "wildcard"}
            BY <2>3, <3>2
          <6>3. SuffixLen(q) = l
            BY <3>2, <5>4, <6>1, <6>2 DEF Prevails
          <6>4. c.kind = "plain" /\ q.kind = "wildcard"
            BY <3>4, <5>4, <6>3
          <6> QED BY <3>2, <5>4, <6>1, <6>3, <6>4 DEF Prevails
        <5>6. PublicSuffix(list, k).type = q.section
          BY <5>1, <5>3, SuffixOfBest
        <5>7. l \in rests
          BY <4>2, <5>5, <5>6 DEF k
        <5> QED BY <2>6, <5>7
      <4> QED BY <3>6, <4>1, <4>2
    <3>8. c \in Found(list, g)
      BY <2>4, <2>8, <3>2, <3>7 DEF Found, g
    <3>9. PICK q : IsBest(list, g, q)
      BY <2>8, <3>8, BestExists
    <3>10. PublicSuffix(list, g) = [len |-> SuffixLen(q), type |-> q.section]
      BY <2>8, <3>9, SuffixOfBest
    <3>11. q \in list /\ Matches(q, h) /\ q \in Rule
      BY <2>4, <2>8, <3>9 DEF IsBest, Found, g
    <3>12. q.section = "icann"
      BY <2>8, <3>10, <3>11, RuleTyped
    (* Each of the two prevails over the other, if they differ. *)
    <3>13. SuffixLen(q) = l
      <4>1. q # c => Prevails(q, c) /\ Prevails(c, q)
        <5>1. q \in Found(Icann(list), h)
          BY <3>11, <3>12 DEF Found, Icann
        <5>2. /\ \A s \in Found(list, g) \ {q} : Prevails(q, s)
              /\ \A s \in Found(Icann(list), h) \ {c} : Prevails(c, s)
          BY <3>1, <3>9 DEF IsBest
        <5> QED BY <3>8, <5>1, <5>2
      <4>2. /\ q.kind \in {"plain", "wildcard"} /\ c.kind \in {"plain", "wildcard"}
            /\ SuffixLen(q) \in Nat
        BY <2>3, <3>2, <3>11
      <4> QED BY <3>2, <4>1, <4>2 DEF Prevails
    <3> QED BY <1>2, <2>7, <3>3, <3>10, <3>13 DEF g
  <2> QED BY <2>9, <2>10
<1> QED
  <2>1. ASSUME NEW b, IsBest(list, h, b) PROVE b.section \in {"icann", "private"}
    BY <2>1, RuleTyped DEF IsBest, Found
  <2> QED BY <1>5, <1>6, <1>7, <2>1, BestExists

-----------------------------------------------------------------------------
(* The refresh.                                                            *)

Task == {"watcher", "sighup"}

(* What a download carries to the path. *)
DownloadSound ==
  /\ download \in {"stage", "rename"} =>
       data \in List /\ data.by = "download" /\ HasRules(data.rules)
  /\ download = "rename" => tmp = data
FileSound == file # NoFile => file.by = "operator" \/ HasRules(file.rules)

(* What the watcher has seen, until a signal's reload puts in an older one. *)
SeenIsPassedOn ==
  events = 0 /\ announced /\ Replaces(file) =>
    \/ reload["watcher"] = file
    \/ reload["watcher"] = Idle /\ active = file

RefreshTyped == TypeOK /\ reload \in [Task -> List \cup {NoFile, Idle}] /\ hangups \in Nat

RefreshInv ==
  /\ RefreshTyped
  /\ DownloadSound /\ FileSound
  /\ announced => watching
  /\ watching => pc = "up"
  /\ SeenIsPassedOn

LEMMA NextVersion ==
  ASSUME NEW v \in 0 .. MaxVersion
  PROVE  Next1(v) \in 0 .. MaxVersion
<1>1. MaxVersion \in Nat
  BY RefreshAssumption
<1>2. CASE v + 1 <= MaxVersion
  <2>1. \A x \in {v + 1, MaxVersion} : v + 1 <= x
    BY <1>1, <1>2
  <2>2. \A y \in {v + 1, MaxVersion} : (\A x \in {v + 1, MaxVersion} : y <= x) => y = v + 1
    BY <1>1, <1>2
  <2> QED BY <1>1, <1>2, <2>1, <2>2 DEF Next1, Min
<1>3. CASE ~(v + 1 <= MaxVersion)
  <2>1. \A x \in {v + 1, MaxVersion} : MaxVersion <= x
    BY <1>1, <1>3
  <2>2. \A y \in {v + 1, MaxVersion} : (\A x \in {v + 1, MaxVersion} : y <= x) => y = MaxVersion
    BY <1>1, <1>3
  <2> QED BY <1>1, <1>3, <2>1, <2>2 DEF Next1, Min
<1> QED BY <1>2, <1>3

LEMMA EmbeddedIsList == Embedded \in List
BY RefreshAssumption, SuffixAssumption DEF Embedded, List
LEMMA RefreshStarts == Init => RefreshInv
<1> SUFFICES ASSUME Init PROVE RefreshInv
  OBVIOUS
<1>1. Embedded \in List
  BY EmbeddedIsList
<1>2. cfg \in Configs /\ MaxVersion \in Nat /\ version \in 0 .. MaxVersion
  BY RefreshAssumption DEF Init
<1>3. file \in List \cup {NoFile} /\ (file # NoFile => file.by = "operator")
  <2>1. Lists \subseteq SUBSET Rule /\ Operated \subseteq SUBSET Rule
    BY RefreshAssumption
  <2>2. CASE file = NoFile
    BY <2>2
  <2>3. CASE file # NoFile
    <3>1. file \in [v : {0}, rules : SUBSET Rule, by : {"operator"}]
      BY <2>1, <2>3 DEF Init
    <3>2. 0 \in 0 .. MaxVersion
      BY <1>2
    <3> QED BY <3>1, <3>2 DEF List
  <2> QED BY <2>2, <2>3
<1>4. /\ reload = [j \in Task |-> Idle] /\ hangups = 0 /\ announced = FALSE /\ watching = FALSE
      /\ download = "idle" /\ hangup = FALSE /\ events = 0 /\ pc = "down" /\ active = Embedded
      /\ tmp = NoFile /\ data = NoFile /\ found = FALSE /\ stale \in BOOLEAN
  BY DEF Init, Task
<1>5. events \in 0 .. MaxVersion + 1 /\ reload \in [Task -> List \cup {NoFile, Idle}]
  BY <1>2, <1>4
<1>6. RefreshTyped
  BY <1>1, <1>2, <1>3, <1>4, <1>5 DEF RefreshTyped, TypeOK
<1> QED BY <1>3, <1>4, <1>6 DEF RefreshInv, DownloadSound, FileSound, SeenIsPassedOn, Task

(* The operator's steps, which put a file at the path or take it away. *)
LEMMA OperatorKeeps ==
  ASSUME RefreshInv, Operator
  PROVE  RefreshInv'
<1> USE RefreshAssumption
<1>1. CASE OperatorReplaces
  <2>1. PICK c \in Operated : Arrives([v |-> version + 1, rules |-> c, by |-> "operator"])
    BY <1>1 DEF OperatorReplaces
  <2> DEFINE f == [v |-> version + 1, rules |-> c, by |-> "operator"]
  <2>2. f \in List /\ f.by = "operator"
    <3>1. version + 1 \in 0 .. MaxVersion
      BY <1>1 DEF OperatorReplaces, RefreshInv, RefreshTyped, TypeOK
    <3> QED BY <3>1 DEF List
  <2>3. /\ file' = f /\ stale' = FALSE /\ announced' = watching
        /\ events' = IF watching THEN events + 1 ELSE events
    BY <2>1 DEF Arrives
  <2> HIDE DEF f
  <2>4. events \in 0 .. MaxVersion + 1 /\ events <= MaxVersion
    BY <1>1 DEF OperatorReplaces, Room, RefreshInv, RefreshTyped, TypeOK
  <2>5. events' \in 0 .. MaxVersion + 1 /\ (watching => events' # 0)
    BY <2>3, <2>4
  <2>6. version' \in 0 .. MaxVersion
    BY <1>1 DEF OperatorReplaces, RefreshInv, RefreshTyped, TypeOK
  <2>7. UNCHANGED <<cfg, tmp, crashes, pc, found, download, data, active, watching, hangup, hangups,
                    reload>>
    BY <1>1 DEF OperatorReplaces, loader, fetcher
  <2>8. RefreshTyped'
    BY <2>2, <2>3, <2>5, <2>6, <2>7 DEF RefreshInv, RefreshTyped, TypeOK
  <2> QED BY <2>2, <2>3, <2>5, <2>7, <2>8
          DEF RefreshInv, DownloadSound, FileSound, SeenIsPassedOn
<1>2. CASE OperatorRemoves
  <2>1. version' \in 0 .. MaxVersion
    BY <1>2 DEF OperatorRemoves, RefreshInv, RefreshTyped, TypeOK
  <2>2. /\ file' = NoFile /\ stale' = FALSE /\ announced' = FALSE
        /\ UNCHANGED <<cfg, tmp, crashes, loader, fetcher, reloads>>
    BY <1>2 DEF OperatorRemoves
  <2>3. RefreshTyped'
    BY <2>1, <2>2 DEF RefreshInv, RefreshTyped, TypeOK, loader, fetcher, reloads
  <2> QED BY <2>2, <2>3 DEF RefreshInv, DownloadSound, FileSound, SeenIsPassedOn, loader, fetcher,
                            reloads
<1>3. CASE Age
  BY <1>3 DEF Age, RefreshInv, RefreshTyped, TypeOK, DownloadSound, FileSound, SeenIsPassedOn,
              loader, fetcher, reloads
<1>4. CASE Hangup
  <2>1. hangups' \in Nat
    BY <1>4 DEF Hangup, RefreshInv, RefreshTyped
  <2> QED BY <1>4, <2>1 DEF Hangup, RefreshInv, RefreshTyped, TypeOK, DownloadSound, FileSound,
                            SeenIsPassedOn, disk, loader, fetcher
<1> QED BY <1>1, <1>2, <1>3, <1>4 DEF Operator

(* The start, up to the armed watcher. *)
LEMMA StartKeeps ==
  ASSUME RefreshInv, Start \/ Load \/ Fallback \/ Arm
  PROVE  RefreshInv'
<1>1. CASE Start
  BY <1>1 DEF Start, RefreshInv, RefreshTyped, TypeOK, DownloadSound, FileSound, SeenIsPassedOn,
              disk, reloads
<1>2. CASE Load
  <2>1. active' \in List
    <3>1. CASE Parses(file)
      BY <1>2, <3>1 DEF Load, Parses, RefreshInv, RefreshTyped, TypeOK
    <3>2. CASE ~Parses(file)
      BY <1>2, <3>2 DEF Load, RefreshInv, RefreshTyped, TypeOK
    <3> QED BY <3>1, <3>2
  <2>2. pc = "load" /\ pc' \in {"arm", "failed"} /\ ~announced /\ ~watching
    BY <1>2 DEF Load, RefreshInv
  <2>3. UNCHANGED <<disk, found, fetcher, watching, events, hangup, hangups, reload, announced>>
    BY <1>2 DEF Load
  <2> QED BY <2>1, <2>2, <2>3 DEF RefreshInv, RefreshTyped, TypeOK, DownloadSound, FileSound,
                                  SeenIsPassedOn, disk, fetcher
<1>3. CASE Fallback
  BY <1>3, EmbeddedIsList DEF Fallback, RefreshInv, RefreshTyped, TypeOK, DownloadSound, FileSound,
                              SeenIsPassedOn, disk, fetcher
<1>4. CASE Arm
  <2>1. watching' \in BOOLEAN /\ pc' = "up" /\ ~announced
    BY <1>4, RefreshAssumption DEF Arm, RefreshInv, RefreshTyped, TypeOK, PslConfig
  <2> QED BY <1>4, <2>1 DEF Arm, RefreshInv, RefreshTyped, TypeOK, DownloadSound, FileSound,
                            SeenIsPassedOn, disk, fetcher
<1> QED BY <1>1, <1>2, <1>3, <1>4

(* A download, from the request to the path. *)
LEMMA DownloadKeeps ==
  ASSUME RefreshInv, Answer \/ DownloadFails \/ Stage \/ Rename \/ Tick
  PROVE  RefreshInv'
<1> USE RefreshAssumption
<1>1. CASE Answer
  <2>1. Next1(version) \in 0 .. MaxVersion
    BY NextVersion DEF RefreshInv, RefreshTyped, TypeOK
  <2>2. PICK c \in Served : HasRules(c) /\ data' = [v |-> Next1(version), rules |-> c, by |-> "download"]
    BY <1>1 DEF Answer
  <2>3. data' \in List /\ data'.by = "download" /\ HasRules(data'.rules)
    BY <2>1, <2>2 DEF List
  <2>4. /\ version' \in 0 .. MaxVersion /\ download' = "stage"
        /\ UNCHANGED <<cfg, file, stale, tmp, crashes, loader, reloads, announced>>
    BY <1>1, <2>1 DEF Answer
  <2> QED BY <2>3, <2>4 DEF RefreshInv, RefreshTyped, TypeOK, DownloadSound, FileSound,
                            SeenIsPassedOn, loader, reloads
<1>2. CASE DownloadFails
  <2>1. /\ download' = "idle" /\ data' = NoFile
        /\ pc' \in {pc, "load", "fallback"} /\ (pc = "up" => pc' = "up")
    BY <1>2 DEF DownloadFails, Returns
  <2>2. UNCHANGED <<disk, found, reloads, announced>>
    BY <1>2 DEF DownloadFails
  <2> QED BY <2>1, <2>2 DEF RefreshInv, RefreshTyped, TypeOK, DownloadSound, FileSound,
                            SeenIsPassedOn, disk, reloads
<1>3. CASE Stage
  BY <1>3 DEF Stage, RefreshInv, RefreshTyped, TypeOK, DownloadSound, FileSound, SeenIsPassedOn,
              loader, reloads
<1>4. CASE Rename
  <2>1. tmp \in List /\ HasRules(tmp.rules)
    BY <1>4 DEF Rename, RefreshInv, DownloadSound
  <2>2. /\ file' = tmp /\ stale' = FALSE /\ announced' = watching
        /\ events' = IF watching THEN events + 1 ELSE events
    BY <1>4 DEF Rename, Arrives
  <2>3. events \in 0 .. MaxVersion + 1 /\ events <= MaxVersion
    BY <1>4 DEF Rename, Room, RefreshInv, RefreshTyped, TypeOK
  <2>4. events' \in 0 .. MaxVersion + 1 /\ (watching => events' # 0)
    BY <2>2, <2>3
  <2>5. /\ download' = "idle" /\ data' = NoFile /\ tmp' = NoFile
        /\ pc' \in {pc, "load", "fallback"} /\ (pc = "up" => pc' = "up")
    BY <1>4 DEF Rename, Returns
  <2>6. UNCHANGED <<cfg, version, crashes, found, active, watching, hangup, hangups, reload>>
    BY <1>4 DEF Rename
  <2>7. RefreshTyped'
    BY <2>1, <2>2, <2>4, <2>5, <2>6 DEF RefreshInv, RefreshTyped, TypeOK
  <2> QED BY <2>1, <2>2, <2>4, <2>5, <2>6, <2>7
          DEF RefreshInv, DownloadSound, FileSound, SeenIsPassedOn
<1>5. CASE Tick
  BY <1>5 DEF Tick, RefreshInv, RefreshTyped, TypeOK, DownloadSound, FileSound, SeenIsPassedOn,
              disk, loader, reloads
<1> QED BY <1>1, <1>2, <1>3, <1>4, <1>5

(* A reload reads the file as it is, and swaps in what it has read. *)
LEMMA ReloadKeeps ==
  ASSUME RefreshInv, WatcherReads \/ SighupReads \/ \E j \in DOMAIN reload : Swap(j)
  PROVE  RefreshInv'
<1>1. DOMAIN reload = Task /\ reload \in [Task -> List \cup {NoFile, Idle}]
  BY DEF RefreshInv, RefreshTyped
<1>2. CASE WatcherReads
  <2>1. /\ reload' = [reload EXCEPT !["watcher"] = file]
        /\ UNCHANGED <<disk, loader, fetcher, active, watching, hangup, hangups, announced>>
    BY <1>2 DEF WatcherReads, ReadFor
  <2>2. events \in 0 .. MaxVersion + 1 /\ MaxVersion \in Nat /\ events > 0 /\ events' = events - 1
    BY <1>2, RefreshAssumption DEF WatcherReads, RefreshInv, RefreshTyped, TypeOK
  <2>3. events' \in 0 .. MaxVersion + 1
    BY <2>2
  <2>4. file \in List \cup {NoFile}
    BY DEF RefreshInv, RefreshTyped, TypeOK
  <2>5. /\ reload' \in [Task -> List \cup {NoFile, Idle}]
        /\ reload'["watcher"] = file /\ reload'["sighup"] = reload["sighup"]
    BY <1>1, <2>1, <2>4 DEF Task
  <2>6. RefreshTyped'
    BY <2>1, <2>3, <2>5 DEF RefreshInv, RefreshTyped, TypeOK, disk, loader, fetcher
  <2> QED BY <2>1, <2>5, <2>6 DEF RefreshInv, DownloadSound, FileSound, SeenIsPassedOn, disk,
                                  loader, fetcher
<1>3. CASE SighupReads
  <2>1. /\ reload' = [reload EXCEPT !["sighup"] = file] /\ hangup' = FALSE
        /\ UNCHANGED <<disk, loader, fetcher, active, watching, events, hangups, announced>>
    BY <1>3 DEF SighupReads, ReadFor
  <2>2. file \in List \cup {NoFile}
    BY DEF RefreshInv, RefreshTyped, TypeOK
  <2>3. reload' \in [Task -> List \cup {NoFile, Idle}] /\ reload'["watcher"] = reload["watcher"]
    BY <1>1, <2>1, <2>2 DEF Task
  <2>4. RefreshTyped'
    BY <2>1, <2>3 DEF RefreshInv, RefreshTyped, TypeOK, disk, loader, fetcher
  <2> QED BY <2>1, <2>3, <2>4 DEF RefreshInv, DownloadSound, FileSound, SeenIsPassedOn, disk,
                                  loader, fetcher
<1>4. ASSUME NEW j \in Task, Swap(j) PROVE RefreshInv'
  <2>1. /\ reload[j] # Idle /\ reload' = [reload EXCEPT ![j] = Idle]
        /\ active' = IF Replaces(reload[j]) THEN reload[j] ELSE active
        /\ announced' = (announced /\ ~Overtaken(j))
        /\ UNCHANGED <<disk, loader, fetcher, watching, events, hangup, hangups>>
    BY <1>4 DEF Swap
  <2>2. active' \in List
    <3>1. reload[j] \in List \cup {NoFile}
      BY <1>1, <2>1
    <3>2. Replaces(reload[j]) => reload[j] # NoFile
      BY DEF Replaces, Parses
    <3>3. active \in List
      BY DEF RefreshInv, RefreshTyped, TypeOK
    <3> QED BY <2>1, <3>1, <3>2, <3>3
  <2>3. /\ reload' \in [Task -> List \cup {NoFile, Idle}]
        /\ reload'[j] = Idle /\ \A k \in Task : k # j => reload'[k] = reload[k]
    BY <1>1, <2>1
  <2>4. RefreshTyped'
    BY <2>1, <2>2, <2>3 DEF RefreshInv, RefreshTyped, TypeOK, disk, loader, fetcher
  <2>5. SeenIsPassedOn'
    <3> SUFFICES ASSUME events = 0, announced, ~Overtaken(j), Replaces(file)
                 PROVE  \/ reload'["watcher"] = file
                        \/ reload'["watcher"] = Idle /\ active' = file
      BY <2>1 DEF SeenIsPassedOn, Replaces, Parses, disk
    <3>1. \/ reload["watcher"] = file
          \/ reload["watcher"] = Idle /\ active = file
      BY DEF RefreshInv, SeenIsPassedOn
    <3>2. CASE j = "watcher"
      BY <2>1, <2>3, <3>1, <3>2
    <3>3. CASE j = "sighup"
      <4>1. reload'["watcher"] = reload["watcher"]
        BY <2>3, <3>3 DEF Task
      <4>2. reload["watcher"] = Idle => reload[j] = file \/ ~Replaces(reload[j])
        BY <3>3 DEF Overtaken
      <4> QED BY <2>1, <3>1, <4>1, <4>2
    <3> QED BY <3>2, <3>3 DEF Task
  <2> QED BY <2>1, <2>4, <2>5 DEF RefreshInv, DownloadSound, FileSound, disk, loader, fetcher
<1> QED BY <1>1, <1>2, <1>3, <1>4

LEMMA CrashKeeps ==
  ASSUME RefreshInv, Crash
  PROVE  RefreshInv'
<1>1. /\ pc' = "down" /\ found' = FALSE /\ download' = "idle" /\ data' = NoFile
      /\ active' = Embedded /\ watching' = FALSE /\ events' = 0 /\ hangup' = FALSE
      /\ announced' = FALSE /\ UNCHANGED <<cfg, file, stale, tmp, version, hangups>>
  BY DEF Crash
<1>2. reload' = [j \in Task |-> Idle]
  BY DEF Crash, RefreshInv, RefreshTyped
<1>3. events' \in 0 .. MaxVersion + 1 /\ reload' \in [Task -> List \cup {NoFile, Idle}]
  <2>1. MaxVersion \in Nat
    BY RefreshAssumption
  <2> QED BY <1>1, <1>2, <2>1
<1>4. RefreshTyped'
  BY <1>1, <1>3, EmbeddedIsList DEF RefreshInv, RefreshTyped, TypeOK
<1> QED BY <1>1, <1>2, <1>4 DEF RefreshInv, DownloadSound, FileSound, SeenIsPassedOn, Task

LEMMA RefreshStep == RefreshInv /\ [Next]_vars => RefreshInv'
<1> SUFFICES ASSUME RefreshInv, [Next]_vars PROVE RefreshInv'
  OBVIOUS
<1>1. CASE Operator
  BY <1>1, OperatorKeeps
<1>2. CASE Gateway
  BY <1>2, StartKeeps, DownloadKeeps, ReloadKeeps DEF Gateway
<1>3. CASE Crash
  BY <1>3, CrashKeeps
<1>4. CASE UNCHANGED vars
  BY <1>4 DEF vars, disk, loader, fetcher, reloads, RefreshInv, RefreshTyped, TypeOK, DownloadSound,
              FileSound, SeenIsPassedOn
<1> QED BY <1>1, <1>2, <1>3, <1>4 DEF Next, Rest

LEMMA RefreshInvHolds == Spec => []RefreshInv
BY RefreshStarts, RefreshStep, PTL DEF Spec

-----------------------------------------------------------------------------
(* The path never holds half a list, whenever the gateway crashes: only a  *)
(* staging file is written, and it is renamed when it is whole             *)
(* (save_to_file).                                                         *)
THEOREM RefreshTypeCorrect == Spec => []TypeOK
<1>1. RefreshInv => TypeOK
  BY DEF RefreshInv, RefreshTyped
<1> QED BY <1>1, RefreshInvHolds, PTL

(* A list the watcher saw arrive, and that passes, is in effect once the   *)
(* watcher has nothing left to do (spawn_reload_task), unless a SIGHUP     *)
(* swaps in what it read before.                                           *)
THEOREM SeenChangesTakeEffect == Spec => []ChangesTakeEffect
<1>1. RefreshInv => ChangesTakeEffect
  <2> SUFFICES ASSUME RefreshInv, Quiet, announced, Replaces(file)
               PROVE  active = file
    BY DEF ChangesTakeEffect
  <2>1. events = 0 /\ reload["watcher"] = Idle /\ SeenIsPassedOn
    BY DEF Quiet, RefreshInv, RefreshTyped, Task
  <2>2. file \in List
    BY DEF Replaces, Parses, RefreshInv, RefreshTyped, TypeOK
  <2> QED BY <2>1, <2>2, RefreshAssumption DEF SeenIsPassedOn
<1> QED BY <1>1, RefreshInvHolds, PTL

(* The gateway never fails to start over a file it wrote itself, whatever  *)
(* the server sent, however often it crashed (download_and_save,           *)
(* load_initial).                                                          *)
THEOREM StartsOnDownloads == Spec => StartsOnItsOwnFile
<1>1. RefreshInv /\ [Next]_vars =>
        [pc # "failed" /\ pc' = "failed" => file = NoFile \/ file.by = "operator"]_vars
  <2> SUFFICES ASSUME RefreshInv, Next, pc # "failed", pc' = "failed"
               PROVE  file = NoFile \/ file.by = "operator"
    BY DEF vars
  <2>1. pc = "load" /\ ~Parses(file)
    <3>1. ~Operator
      BY DEF Operator, OperatorReplaces, OperatorRemoves, Age, Hangup, loader
    <3>2. ~(Crash \/ Rest)
      BY DEF Crash, Rest, vars, loader
    <3>3. Gateway
      BY <3>1, <3>2 DEF Next
    <3>4. ~(Start \/ Fallback \/ Arm \/ Answer \/ Stage \/ Tick \/ WatcherReads \/ SighupReads)
      BY DEF Start, Fallback, Arm, Answer, Stage, Tick, WatcherReads, SighupReads, loader
    <3>5. ~(DownloadFails \/ Rename)
      BY DEF DownloadFails, Rename, Returns
    <3>6. ~\E j \in DOMAIN reload : Swap(j)
      BY DEF Swap, loader
    <3>7. Load
      BY <3>3, <3>4, <3>5, <3>6 DEF Gateway
    <3> QED BY <3>7 DEF Load
  <2>2. file \in List \cup {NoFile} /\ FileSound
    BY DEF RefreshInv, RefreshTyped, TypeOK
  <2> QED BY <2>1, <2>2, RefreshAssumption DEF Parses, FileSound
<1> QED BY <1>1, RefreshInvHolds, PTL DEF Spec, StartsOnItsOwnFile
-----------------------------------------------------------------------------
(* The lists that can ever take effect.                                    *)
Published == Lists \cup Operated \cup Served \cup {EMBEDDED_LIST}
PublishedWellFormed == \A list \in Published : WellFormed(list)

ListsPublished ==
  /\ active.rules \in Published
  /\ file # NoFile => file.rules \in Published
  /\ download \in {"stage", "rename"} => data.rules \in Published
  /\ \A j \in Task : reload[j] \in List => reload[j].rules \in Published

LEMMA EmbeddedIsPublished == Embedded.rules \in Published
BY DEF Embedded, Published

LEMMA ListsStart == Init => ListsPublished
<1> SUFFICES ASSUME Init PROVE ListsPublished
  OBVIOUS
<1>1. file # NoFile => file.rules \in Published
  BY DEF Init, Published
<1>2. /\ active = Embedded /\ download = "idle" /\ \A j \in Task : reload[j] = Idle
  BY DEF Init, Task
<1> QED BY <1>1, <1>2, EmbeddedIsPublished, RefreshAssumption DEF ListsPublished

LEMMA ListsStep == RefreshInv /\ ListsPublished /\ [Next]_vars => ListsPublished'
<1> SUFFICES ASSUME RefreshInv, ListsPublished, [Next]_vars PROVE ListsPublished'
  OBVIOUS
<1>1. CASE OperatorReplaces
  <2>1. PICK c \in Operated : file' = [v |-> version + 1, rules |-> c, by |-> "operator"]
    BY <1>1 DEF OperatorReplaces, Arrives
  <2>2. file'.rules \in Published
    BY <2>1 DEF Published
  <2> QED BY <1>1, <2>2 DEF OperatorReplaces, ListsPublished, fetcher
<1>2. CASE OperatorRemoves \/ Age \/ Hangup \/ Start \/ Arm \/ Tick \/ Rest \/ UNCHANGED vars
  BY <1>2 DEF OperatorRemoves, Age, Hangup, Start, Arm, Tick, Rest, ListsPublished, vars, disk, loader,
              fetcher, reloads
<1>3. CASE Load
  <2>1. (active' = file /\ file # NoFile) \/ active' = active
    BY <1>3 DEF Load, Parses
  <2> QED BY <1>3, <2>1 DEF Load, ListsPublished, disk, fetcher
<1>4. CASE Fallback
  BY <1>4, EmbeddedIsPublished DEF Fallback, ListsPublished, disk, fetcher
<1>5. CASE Answer
  <2>1. PICK c \in Served : data' = [v |-> Next1(version), rules |-> c, by |-> "download"]
    BY <1>5 DEF Answer
  <2>2. data'.rules \in Published
    BY <2>1 DEF Published
  <2> QED BY <1>5, <2>2 DEF Answer, ListsPublished, reloads
<1>6. CASE DownloadFails
  BY <1>6 DEF DownloadFails, Returns, ListsPublished, disk, reloads
<1>7. CASE Stage
  <2>1. UNCHANGED <<file, data, active, reload>> /\ download = "stage"
    BY <1>7 DEF Stage, reloads
  <2> QED BY <2>1 DEF ListsPublished
<1>8. CASE Rename
  <2>1. /\ file' = data /\ download' = "idle" /\ UNCHANGED <<active, reload>> /\ download = "rename"
    BY <1>8 DEF Rename, Arrives, Returns, RefreshInv, DownloadSound
  <2> QED BY <2>1 DEF ListsPublished
<1>9. CASE WatcherReads \/ SighupReads
  <2>1. PICK j \in Task : reload' = [reload EXCEPT ![j] = file]
    BY <1>9 DEF WatcherReads, SighupReads, ReadFor, Task
  <2>2. UNCHANGED <<file, data, download, active>>
    BY <1>9 DEF WatcherReads, SighupReads, disk, fetcher
  <2>3. \A k \in Task : reload'[k] \in {reload[k], file}
    BY <2>1 DEF RefreshInv, RefreshTyped
  <2>4. file \in List => file # NoFile
    BY RefreshAssumption
  <2> QED BY <2>2, <2>3, <2>4 DEF ListsPublished
<1>10. CASE \E j \in DOMAIN reload : Swap(j)
  <2>1. PICK j \in Task : Swap(j)
    BY <1>10 DEF RefreshInv, RefreshTyped
  <2>2. reload' = [reload EXCEPT ![j] = Idle] /\ UNCHANGED <<file, data, download>>
    BY <2>1 DEF Swap, disk, fetcher
  <2>3. active' = active \/ (active' = reload[j] /\ reload[j] \in List)
    <3>1. reload[j] \in List \cup {NoFile} /\ (Replaces(reload[j]) => reload[j] # NoFile)
      BY <2>1 DEF Swap, Replaces, Parses, RefreshInv, RefreshTyped
    <3> QED BY <2>1, <3>1 DEF Swap
  <2>4. \A k \in Task : reload'[k] \in {reload[k], Idle}
    BY <2>2 DEF RefreshInv, RefreshTyped
  <2> QED BY <2>2, <2>3, <2>4, RefreshAssumption DEF ListsPublished
<1>11. CASE Crash
  <2>1. active' = Embedded /\ download' = "idle" /\ file' = file /\ \A j \in Task : reload'[j] = Idle
    BY <1>11 DEF Crash, RefreshInv, RefreshTyped
  <2> QED BY <2>1, EmbeddedIsPublished, RefreshAssumption DEF ListsPublished
<1> QED BY <1>1, <1>2, <1>3, <1>4, <1>5, <1>6, <1>7, <1>8, <1>9, <1>10, <1>11
        DEF Next, Operator, Gateway

(* As long as every list anybody publishes is well formed, the list in     *)
(* effect mints a wildcard exactly below the ICANN suffix, whatever        *)
(* private entries it holds and however often it was replaced              *)
(* (registrable_icann).                                                    *)
THEOREM BoundariesExact == PublishedWellFormed => (Spec => []MintableExact)
<1> SUFFICES ASSUME PublishedWellFormed PROVE Spec => []MintableExact
  OBVIOUS
<1>1. ListsPublished => MintableExact
  <2> SUFFICES ASSUME ListsPublished, NEW p \in Names
               PROVE  WildcardIsMintable(active.rules, p) <=> Len(p) > IcannSuffix(active.rules, p)
    BY DEF MintableExact
  <2>1. active.rules \in Published /\ WellFormed(active.rules)
    BY DEF ListsPublished, PublishedWellFormed
  <2>2. \A list \in Published : list \subseteq Rule
    BY RefreshAssumption, SuffixAssumption DEF Published
  <2>3. p \in Name
    BY SuffixAssumption DEF Name
  <2> QED BY <2>1, <2>2, <2>3, BoundaryIsIcann DEF WildcardIsMintable
<1>2. Spec => []ListsPublished
  BY ListsStart, ListsStep, RefreshInvHolds, PTL DEF Spec
<1> QED BY <1>1, <1>2, PTL
=============================================================================
