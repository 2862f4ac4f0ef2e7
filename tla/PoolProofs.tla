----------------------------- MODULE PoolProofs -----------------------------
(***************************************************************************)
(* The endpoint pool, for any targets, networks, answers and scores.       *)
(***************************************************************************)
EXTENDS Pool, FiniteSetTheorems, SequenceTheorems, WellFoundedInduction, TLAPS

-----------------------------------------------------------------------------
(* Least and greatest numbers. *)

LEMMA LeastOf ==
  ASSUME NEW T, T \subseteq Nat, T # {}
  PROVE  \E x \in T : \A y \in T : x <= y
<1> DEFINE R == OpToRel(<, Nat)
<1>1. IsWellFoundedOn(R, Nat)
  BY NatLessThanWellFounded
<1>2. PICK x \in T : \A y \in T : <<y, x>> \notin R
  <2> HIDE DEF R
  <2> QED BY <1>1, WFMin
<1>3. ASSUME NEW y \in T PROVE x <= y
  <2>1. <<y, x>> \notin R
    BY <1>2
  <2>2. ~(y < x)
    BY <2>1, x \in Nat, y \in Nat DEF OpToRel
  <2> QED BY <2>2, x \in Nat, y \in Nat
<1> QED BY <1>2, <1>3

LEMMA MinIs ==
  ASSUME NEW T, T \subseteq Nat, T # {}
  PROVE  Min(T) \in T /\ \A y \in T : Min(T) <= y
<1>1. \E x \in T : \A y \in T : x <= y
  BY LeastOf
<1> QED BY <1>1 DEF Min

LEMMA MaxIs ==
  ASSUME NEW T, T \subseteq Nat, T # {}, NEW n \in Nat, \A x \in T : x <= n
  PROVE  Max(T) \in T /\ \A y \in T : y <= Max(T)
<1> DEFINE U == {m \in Nat : \A x \in T : x <= m}
<1>1. PICK u \in U : \A m \in U : u <= m
  <2>1. U \subseteq Nat /\ n \in U
    OBVIOUS
  <2> HIDE DEF U
  <2> QED BY <2>1, LeastOf
<1>2. u \in T
  <2> SUFFICES ASSUME u \notin T PROVE FALSE
    OBVIOUS
  <2>1. \A x \in T : x < u
    BY <1>1
  <2>2. PICK x \in T : TRUE
    OBVIOUS
  <2>3. u - 1 \in U
    BY <1>1, <2>1, <2>2
  <2> QED BY <1>1, <2>3
<1>3. \E x \in T : \A y \in T : x >= y
  BY <1>1, <1>2
<1>4. Max(T) \in T /\ \A y \in T : Max(T) >= y
  BY <1>3 DEF Max
<1> QED BY <1>4

LEMMA MaxOfTwo ==
  ASSUME NEW a \in Nat, NEW b \in Nat
  PROVE  Max({a, b}) \in Nat /\ a <= Max({a, b}) /\ b <= Max({a, b})
<1>1. \A x \in {a, b} : x <= a + b
  OBVIOUS
<1> QED BY <1>1, MaxIs

LEMMA MinOfTwo ==
  ASSUME NEW a \in Nat, NEW b \in Nat
  PROVE  Min({a, b}) \in Nat /\ Min({a, b}) <= a /\ Min({a, b}) <= b
BY MinIs

(* What is computed step by step from a first value exists. *)
StepFun(S, N) == [S \X (1 .. N) -> S]
Computes(f, S, first, F, N) ==
  f \in [0 .. N -> S] /\ f[0] = first /\ \A n \in 1 .. N : f[n] = F[<<f[n - 1], n>>]
LEMMA Steps ==
  ASSUME NEW S, NEW first \in S, NEW N \in Nat, NEW F \in StepFun(S, N)
  PROVE  \E f : Computes(f, S, first, F, N)
<1> USE DEF StepFun, Computes
<1> DEFINE Upto(f, k) == /\ f \in [0 .. k -> S] /\ f[0] = first
                         /\ \A n \in 1 .. k : f[n] = F[<<f[n - 1], n>>]
           Missing == {k \in 0 .. N : ~\E f : Upto(f, k)}
<1>1. CASE Missing = {}
  BY <1>1, N \in 0 .. N
<1>2. CASE Missing # {}
  <2>1. PICK k \in Missing : \A j \in Missing : k <= j
    <3>1. Missing \subseteq Nat
      OBVIOUS
    <3> HIDE DEF Missing
    <3> QED BY <1>2, <3>1, LeastOf
  <2>2. CASE k = 0
    <3>1. Upto([i \in 0 .. 0 |-> first], 0)
      OBVIOUS
    <3> QED BY <2>1, <2>2, <3>1
  <2>3. CASE k # 0
    <3>1. k - 1 \in 0 .. N /\ k - 1 \notin Missing /\ k \in 1 .. N
      BY <2>1, <2>3
    <3>2. PICK f : Upto(f, k - 1)
      BY <3>1
    <3> DEFINE g == [i \in 0 .. k |-> IF i = k THEN F[<<f[k - 1], k>>] ELSE f[i]]
    <3>3. F[<<f[k - 1], k>>] \in S
      BY <3>1, <3>2
    <3>4. g \in [0 .. k -> S] /\ g[0] = first
      BY <2>3, <3>1, <3>2, <3>3
    <3>5. ASSUME NEW n \in 1 .. k PROVE g[n] = F[<<g[n - 1], n>>]
      <4>1. g[n - 1] = f[n - 1]
        BY <3>1
      <4>2. CASE n = k
        <5>1. g[n] = F[<<f[n - 1], n>>]
          BY <4>2
        <5> HIDE DEF g
        <5> QED BY <4>1, <5>1
      <4>3. CASE n # k
        <5>1. n \in 1 .. k - 1 /\ g[n] = f[n]
          BY <3>1, <4>3
        <5> QED BY <3>2, <4>1, <5>1
      <4> QED BY <4>2, <4>3
    <3> QED BY <2>1, <3>4, <3>5
  <2> QED BY <2>2, <2>3
<1> QED BY <1>1, <1>2

-----------------------------------------------------------------------------
(* Sequences: what is ahead of what, and what a step of each pass does. *)

(* A sequence without repetition has nothing ahead of itself. *)
LEMMA AheadOfItself ==
  ASSUME NEW S, NEW s \in Seq(S)
  PROVE  IsInjective(s) <=> \A a : ~Ahead(s, a, a)
<1>1. DOMAIN s = 1 .. Len(s) /\ Len(s) \in Nat
  BY LenProperties
<1>2. ASSUME IsInjective(s), NEW a, Ahead(s, a, a) PROVE FALSE
  <2>1. PICK i, j \in 1 .. Len(s) : i < j /\ s[i] = a /\ s[j] = a
    BY <1>1, <1>2 DEF Ahead
  <2>2. i = j
    BY <1>1, <1>2, <2>1 DEF IsInjective
  <2> QED BY <1>1, <2>1, <2>2
<1>3. ASSUME \A a : ~Ahead(s, a, a) PROVE IsInjective(s)
  <2> SUFFICES ASSUME NEW i \in 1 .. Len(s), NEW j \in 1 .. Len(s), s[i] = s[j], i # j
               PROVE  FALSE
    BY <1>1 DEF IsInjective
  <2>1. i < j \/ j < i
    BY <1>1
  <2>2. Ahead(s, s[i], s[i])
    BY <1>1, <2>1 DEF Ahead
  <2> QED BY <1>3, <2>2
<1> QED BY <1>2, <1>3

(* An entry at the end comes after all the others. *)
LEMMA AppendFacts ==
  ASSUME NEW S, NEW s \in Seq(S), NEW x \in S
  PROVE  /\ Append(s, x) \in Seq(S)
         /\ Range(Append(s, x)) = Range(s) \cup {x}
         /\ \A a, b : Ahead(Append(s, x), a, b) =>
                       Ahead(s, a, b) \/ (b = x /\ a \in Range(s))
<1> DEFINE t == Append(s, x)
<1>1. /\ t \in Seq(S) /\ Len(t) = Len(s) + 1 /\ Len(s) \in Nat
      /\ \A i \in 1 .. Len(s) : t[i] = s[i]
      /\ t[Len(s) + 1] = x
  BY AppendProperties, LenProperties
<1>2. DOMAIN s = 1 .. Len(s) /\ DOMAIN t = 1 .. Len(t)
  BY <1>1, LenProperties
<1> HIDE DEF t
<1>3. Range(t) = Range(s) \cup {x}
  <2>1. ASSUME NEW i \in 1 .. Len(t) PROVE t[i] \in Range(s) \cup {x}
    <3>1. i \in 1 .. Len(s) \/ i = Len(s) + 1
      BY <1>1
    <3> QED BY <1>1, <1>2, <3>1 DEF Range
  <2>2. ASSUME NEW i \in 1 .. Len(s) PROVE s[i] \in Range(t)
    <3>1. i \in 1 .. Len(t) /\ t[i] = s[i]
      BY <1>1
    <3> QED BY <1>2, <3>1 DEF Range
  <2>3. x \in Range(t)
    <3>1. Len(s) + 1 \in 1 .. Len(t)
      BY <1>1
    <3> QED BY <1>1, <1>2, <3>1 DEF Range
  <2> QED BY <1>2, <2>1, <2>2, <2>3 DEF Range
<1>4. ASSUME NEW a, NEW b, Ahead(t, a, b) PROVE Ahead(s, a, b) \/ (b = x /\ a \in Range(s))
  <2>1. PICK i, j \in 1 .. Len(t) : i < j /\ t[i] = a /\ t[j] = b
    BY <1>2, <1>4 DEF Ahead
  <2>2. i \in 1 .. Len(s) /\ t[i] = s[i]
    BY <1>1, <2>1
  <2>3. CASE j = Len(s) + 1
    BY <1>1, <1>2, <2>1, <2>2, <2>3 DEF Range
  <2>4. CASE j # Len(s) + 1
    <3>1. j \in 1 .. Len(s) /\ t[j] = s[j]
      BY <1>1, <2>4
    <3> QED BY <1>2, <2>1, <2>2, <3>1 DEF Ahead
  <2> QED BY <2>3, <2>4
<1> QED BY <1>1, <1>3, <1>4 DEF t

(* What holds at 0 and is passed on holds up to N. *)
LEMMA Upwards ==
  ASSUME NEW N \in Nat, NEW G, 0 \in G, \A n \in 1 .. N : n - 1 \in G => n \in G
  PROVE  \A n \in 0 .. N : n \in G
<1> DEFINE Bad == {n \in 0 .. N : n \notin G}
<1> SUFFICES ASSUME Bad # {} PROVE FALSE
  OBVIOUS
<1>1. PICK n \in Bad : \A m \in Bad : n <= m
  <2>1. Bad \subseteq Nat
    OBVIOUS
  <2> HIDE DEF Bad
  <2> QED BY <2>1, LeastOf
<1>2. n \in 1 .. N /\ n \notin G
  BY <1>1
<1>3. n - 1 \in 0 .. N /\ n - 1 \notin Bad
  BY <1>1, <1>2
<1> QED BY <1>2, <1>3

(* The first n entries of s, and what is ahead of what among them. *)
First(s, n) == {s[i] : i \in 1 .. n}
Before(s, n, a, b) == \E i, j \in 1 .. n : i < j /\ s[i] = a /\ s[j] = b

LEMMA OneMore ==
  ASSUME NEW s, NEW n \in Nat \ {0}
  PROVE  /\ First(s, n) = First(s, n - 1) \cup {s[n]}
         /\ \A a, b : Before(s, n - 1, a, b) => Before(s, n, a, b)
         /\ \A a \in First(s, n - 1) : Before(s, n, a, s[n])
<1>1. 1 .. n = (1 .. n - 1) \cup {n}
  OBVIOUS
<1>2. \A i \in 1 .. n - 1 : i < n /\ i \in 1 .. n
  OBVIOUS
<1>3. n \in 1 .. n
  OBVIOUS
<1>4. First(s, n) = First(s, n - 1) \cup {s[n]}
  BY <1>1 DEF First
<1>5. \A a, b : Before(s, n - 1, a, b) => Before(s, n, a, b)
  BY <1>2 DEF Before
<1>6. \A a \in First(s, n - 1) : Before(s, n, a, s[n])
  BY <1>2, <1>3 DEF First, Before
<1> QED BY <1>4, <1>5, <1>6

LEMMA WholeSequence ==
  ASSUME NEW A, NEW s \in Seq(A)
  PROVE  /\ First(s, Len(s)) = Range(s)
         /\ \A a, b : Before(s, Len(s), a, b) <=> Ahead(s, a, b)
BY LenProperties DEF First, Before, Range, Ahead

LEMMA NothingBefore ==
  ASSUME NEW A, NEW s
  PROVE  << >> \in Seq(A) /\ Range(<< >>) = First(s, 0) /\ First(s, 0) = {}
         /\ \A a, b : ~Ahead(<< >>, a, b)
BY EmptySeq DEF First, Range, Ahead

(* Only keeps the members of S, in their order. *)
LEMMA OnlyFacts ==
  ASSUME NEW A, NEW s \in Seq(A), NEW S
  PROVE  /\ Only(s, S) \in Seq(A)
         /\ Range(Only(s, S)) = Range(s) \cap S
         /\ \A a, b : Ahead(Only(s, S), a, b) => Ahead(s, a, b)
<1> DEFINE N == Len(s)
           Eq(f) == f = [n \in 0 .. N |->
                           IF n = 0 THEN << >>
                           ELSE IF s[n] \in S THEN Append(f[n - 1], s[n]) ELSE f[n - 1]]
           F == [q \in Seq(A) \X (1 .. N) |->
                   IF s[q[2]] \in S THEN Append(q[1], s[q[2]]) ELSE q[1]]
<1>1. N \in Nat /\ DOMAIN s = 1 .. N /\ \A n \in 1 .. N : s[n] \in A
  BY LenProperties, ElementOfSeq
<1>2. \E f : Eq(f)
  <2>1. F \in [Seq(A) \X (1 .. N) -> Seq(A)]
    BY <1>1, AppendProperties
  <2>2. \A t \in Seq(A), n \in 1 .. N :
          F[<<t, n>>] = IF s[n] \in S THEN Append(t, s[n]) ELSE t
    OBVIOUS
  <2>3. << >> \in Seq(A)
    BY EmptySeq
  <2>4. PICK f : Computes(f, Seq(A), << >>, F, N)
    <3>1. F \in StepFun(Seq(A), N)
      BY <2>1 DEF StepFun
    <3> HIDE DEF F, N
    <3> QED BY <1>1, <2>3, <3>1, Steps
  <2> HIDE DEF F, N
  <2>5. ASSUME NEW n \in 0 .. N, n # 0
        PROVE  f[n] = IF s[n] \in S THEN Append(f[n - 1], s[n]) ELSE f[n - 1]
    <3>1. n \in 1 .. N /\ f[n - 1] \in Seq(A)
      BY <1>1, <2>4, <2>5 DEF Computes
    <3> QED BY <2>2, <2>4, <3>1 DEF Computes
  <2>6. Eq(f)
    BY <2>4, <2>5 DEF Computes
  <2> QED BY <2>6
<1>3. PICK f : Eq(f) /\ Only(s, S) = f[N]
  BY <1>2 DEF Only
<1>4. /\ f[0] = << >>
      /\ \A n \in 1 .. N : f[n] = IF s[n] \in S THEN Append(f[n - 1], s[n]) ELSE f[n - 1]
  <2>1. 0 \in 0 .. N /\ \A n \in 1 .. N : n \in 0 .. N /\ n # 0
    BY <1>1
  <2> HIDE DEF N
  <2> QED BY <1>3, <2>1
<1> DEFINE G == {n \in 0 .. N : /\ f[n] \in Seq(A)
                                /\ Range(f[n]) = First(s, n) \cap S
                                /\ \A a, b : Ahead(f[n], a, b) => Before(s, n, a, b)}
<1>5. 0 \in G
  <2>1. /\ f[0] \in Seq(A) /\ Range(f[0]) = First(s, 0) \cap S
        /\ \A a, b : ~Ahead(f[0], a, b)
    BY <1>4, NothingBefore
  <2> QED BY <1>1, <2>1
<1>6. ASSUME NEW n \in 1 .. N, n - 1 \in G PROVE n \in G
  <2>1. n \in Nat \ {0} /\ n \in 0 .. N
    BY <1>1
  <2>2. /\ f[n - 1] \in Seq(A)
        /\ Range(f[n - 1]) = First(s, n - 1) \cap S
        /\ \A a, b : Ahead(f[n - 1], a, b) => Before(s, n - 1, a, b)
    BY <1>6
  <2>3. /\ First(s, n) = First(s, n - 1) \cup {s[n]}
        /\ \A a, b : Before(s, n - 1, a, b) => Before(s, n, a, b)
        /\ \A a \in First(s, n - 1) : Before(s, n, a, s[n])
    BY <2>1, OneMore
  <2>4. CASE s[n] \in S
    <3>1. f[n] = Append(f[n - 1], s[n]) /\ s[n] \in A
      BY <1>1, <1>4, <2>4
    <3>2. /\ f[n] \in Seq(A)
          /\ Range(f[n]) = Range(f[n - 1]) \cup {s[n]}
          /\ \A a, b : Ahead(f[n], a, b) =>
                Ahead(f[n - 1], a, b) \/ (b = s[n] /\ a \in Range(f[n - 1]))
      BY <2>2, <3>1, AppendFacts
    <3>3. \A a, b : Ahead(f[n], a, b) => Before(s, n, a, b)
      BY <2>2, <2>3, <3>2
    <3>4. Range(f[n]) = First(s, n) \cap S
      BY <2>2, <2>3, <2>4, <3>2
    <3> QED BY <2>1, <3>2, <3>3, <3>4
  <2>5. CASE s[n] \notin S
    <3>1. f[n] = f[n - 1]
      BY <1>4, <2>5
    <3> QED BY <2>1, <2>2, <2>3, <2>5, <3>1
  <2> QED BY <2>4, <2>5
<1>7. N \in G
  <2> HIDE DEF G
  <2>1. \A n \in 0 .. N : n \in G
    BY <1>1, <1>5, <1>6, Upwards
  <2> QED BY <1>1, <2>1
<1>8. /\ f[N] \in Seq(A)
      /\ Range(f[N]) = First(s, N) \cap S
      /\ \A a, b : Ahead(f[N], a, b) => Before(s, N, a, b)
  BY <1>7
<1> QED BY <1>3, <1>8, WholeSequence

(* An entry placed comes ahead of those it beats only. *)
LEMMA PlaceFacts ==
  ASSUME NEW A, NEW h, NEW s \in Seq(A), NEW x \in A
  PROVE  /\ Place(h, s, x) \in Seq(A)
         /\ Range(Place(h, s, x)) = Range(s) \cup {x}
         /\ \A a, b : Ahead(Place(h, s, x), a, b) =>
               \/ Ahead(s, a, b)
               \/ b = x /\ a \in Range(s)
               \/ a = x /\ Beats(h[x].score, h[b].score)
<1> DEFINE unbeaten == {i \in DOMAIN s : ~Beats(h[x].score, h[s[i]].score)}
           k == Max({0} \cup unbeaten)
           t == SubSeq(s, 1, k) \o <<x>> \o SubSeq(s, k + 1, Len(s))
           L == Len(s)
<1>1. L \in Nat /\ DOMAIN s = 1 .. L /\ \A i \in 1 .. L : s[i] \in A
  BY LenProperties, ElementOfSeq
<1>2. Place(h, s, x) = t
  BY DEF Place
<1>3. k \in 0 .. L /\ \A i \in 1 .. L : k < i => Beats(h[x].score, h[s[i]].score)
  <2>1. {0} \cup unbeaten \subseteq Nat /\ 0 \in {0} \cup unbeaten
        /\ \A i \in {0} \cup unbeaten : i <= L
    BY <1>1
  <2> DEFINE T == {0} \cup unbeaten
  <2>2. Max(T) \in T /\ \A i \in T : i <= Max(T)
    <3> HIDE DEF T, L
    <3>1. T \subseteq Nat /\ T # {} /\ \A i \in T : i <= L
      BY <2>1 DEF T
    <3> QED BY <1>1, <3>1, MaxIs
  <2>3. k = Max(T)
    OBVIOUS
  <2> HIDE DEF k
  <2>4. k \in Nat /\ k <= L
    BY <1>1, <2>2, <2>3
  <2>5. ASSUME NEW i \in 1 .. L, k < i PROVE Beats(h[x].score, h[s[i]].score)
    <3>1. i \notin unbeaten
      BY <1>1, <2>2, <2>3, <2>4, <2>5
    <3> QED BY <1>1, <3>1
  <2> QED BY <1>1, <2>4, <2>5
<1> HIDE DEF k
<1>4. /\ t \in Seq(A) /\ Len(t) = L + 1
      /\ \A i \in 1 .. L + 1 : t[i] = IF i <= k THEN s[i] ELSE IF i = k + 1 THEN x ELSE s[i - 1]
  <2> DEFINE front == SubSeq(s, 1, k)
             back == SubSeq(s, k + 1, L)
  <2>1. /\ front \in Seq(A) /\ Len(front) = k /\ \A i \in 1 .. k : front[i] = s[i]
    <3>1. \A i \in 1 .. k : s[i] \in A
      BY <1>1, <1>3
    <3>2. /\ front \in Seq(A) /\ Len(front) = (IF 1 <= k THEN k - 1 + 1 ELSE 0)
          /\ \A i \in 1 .. k - 1 + 1 : front[i] = s[1 + i - 1]
      BY <1>3, <3>1, SubSeqProperties
    <3> HIDE DEF front
    <3> QED BY <1>3, <3>2
  <2>2. /\ back \in Seq(A) /\ Len(back) = L - k /\ \A i \in 1 .. L - k : back[i] = s[k + i]
    <3>1. \A i \in k + 1 .. L : s[i] \in A
      BY <1>1, <1>3
    <3>2. /\ back \in Seq(A) /\ Len(back) = (IF k + 1 <= L THEN L - (k + 1) + 1 ELSE 0)
          /\ \A i \in 1 .. L - (k + 1) + 1 : back[i] = s[(k + 1) + i - 1]
      BY <1>1, <1>3, <3>1, SubSeqProperties
    <3> HIDE DEF back, L
    <3> QED BY <1>1, <1>3, <3>2
  <2> HIDE DEF front, back, L
  <2>3. <<x>> \in Seq(A) /\ Len(<<x>>) = 1 /\ <<x>>[1] = x
    OBVIOUS
  <2> DEFINE one == <<x>>
             head == front \o one
  <2>4. one \in Seq(A) /\ Len(one) = 1 /\ one[1] = x
    BY <2>3
  <2>5. /\ head \in Seq(A) /\ Len(head) = k + 1
        /\ \A i \in 1 .. k + 1 : head[i] = IF i <= k THEN s[i] ELSE x
    <3> HIDE DEF one
    <3>1. /\ head \in Seq(A) /\ Len(head) = Len(front) + Len(one)
          /\ \A i \in 1 .. Len(front) + Len(one) :
                head[i] = IF i <= Len(front) THEN front[i] ELSE one[i - Len(front)]
      BY <2>1, <2>4, ConcatProperties
    <3> HIDE DEF head
    <3>2. ASSUME NEW i \in 1 .. k + 1 PROVE head[i] = IF i <= k THEN s[i] ELSE x
      <4>1. head[i] = IF i <= k THEN front[i] ELSE one[i - k]
        BY <2>1, <2>4, <3>1
      <4>2. i <= k => i \in 1 .. k
        BY <1>3
      <4>3. ~(i <= k) => i - k = 1
        BY <1>3
      <4> QED BY <2>1, <2>4, <4>1, <4>2, <4>3
    <3> QED BY <2>1, <2>4, <3>1, <3>2
  <2>6. t = head \o back
    BY DEF back, front, L
  <2> HIDE DEF head, t
  <2>7. /\ t \in Seq(A) /\ Len(t) = Len(head) + Len(back)
        /\ \A i \in 1 .. Len(head) + Len(back) :
              t[i] = IF i <= Len(head) THEN head[i] ELSE back[i - Len(head)]
    BY <2>2, <2>5, <2>6, ConcatProperties
  <2>8. Len(t) = L + 1
    BY <1>1, <1>3, <2>2, <2>5, <2>7
  <2>9. ASSUME NEW i \in 1 .. L + 1
        PROVE  t[i] = IF i <= k THEN s[i] ELSE IF i = k + 1 THEN x ELSE s[i - 1]
    <3>1. t[i] = IF i <= k + 1 THEN head[i] ELSE back[i - (k + 1)]
      BY <1>1, <1>3, <2>2, <2>5, <2>7
    <3>2. CASE i <= k + 1
      <4>1. i \in 1 .. k + 1 /\ (~(i <= k) => i = k + 1)
        BY <1>3, <3>2
      <4> QED BY <2>5, <3>1, <3>2, <4>1
    <3>3. CASE ~(i <= k + 1)
      <4>1. i - (k + 1) \in 1 .. L - k /\ k + (i - (k + 1)) = i - 1 /\ ~(i <= k) /\ i # k + 1
        BY <1>1, <1>3, <3>3
      <4> QED BY <2>2, <3>1, <3>3, <4>1
    <3> QED BY <3>2, <3>3
  <2> QED BY <2>7, <2>8, <2>9
<1>5. DOMAIN t = 1 .. L + 1
  BY <1>4, LenProperties
<1> HIDE DEF t, L
<1>6. Range(t) = Range(s) \cup {x}
  <2>1. ASSUME NEW i \in 1 .. L + 1 PROVE t[i] \in Range(s) \cup {x}
    <3>1. i <= k => i \in 1 .. L
      BY <1>1, <1>3
    <3>2. ~(i <= k) /\ i # k + 1 => i - 1 \in 1 .. L
      BY <1>1, <1>3
    <3> QED BY <1>1, <1>4, <3>1, <3>2 DEF Range
  <2>2. ASSUME NEW i \in 1 .. L PROVE s[i] \in Range(t)
    <3>1. CASE i <= k
      <4>1. i \in 1 .. L + 1 /\ t[i] = s[i]
        BY <1>1, <1>4, <3>1
      <4> QED BY <1>5, <4>1 DEF Range
    <3>2. CASE ~(i <= k)
      <4>1. i + 1 \in 1 .. L + 1 /\ ~(i + 1 <= k) /\ i + 1 # k + 1 /\ (i + 1) - 1 = i
        BY <1>1, <1>3, <3>2
      <4>2. t[i + 1] = s[i]
        BY <1>4, <4>1
      <4> QED BY <1>5, <4>1, <4>2 DEF Range
    <3> QED BY <3>1, <3>2
  <2>3. x \in Range(t)
    <3>1. k + 1 \in 1 .. L + 1 /\ ~(k + 1 <= k)
      BY <1>1, <1>3
    <3>2. t[k + 1] = x
      BY <1>4, <3>1
    <3> QED BY <1>5, <3>1, <3>2 DEF Range
  <2> QED BY <1>1, <1>5, <2>1, <2>2, <2>3 DEF Range
<1>7. ASSUME NEW a, NEW b, Ahead(t, a, b)
      PROVE  \/ Ahead(s, a, b)
             \/ b = x /\ a \in Range(s)
             \/ a = x /\ Beats(h[x].score, h[b].score)
  <2>1. PICK i, j \in 1 .. L + 1 : i < j /\ t[i] = a /\ t[j] = b
    BY <1>5, <1>7 DEF Ahead
  <2>2. CASE i = k + 1
    <3>1. j - 1 \in 1 .. L /\ k < j - 1 /\ ~(j <= k) /\ j # k + 1 /\ ~(i <= k)
      BY <1>1, <1>3, <2>1, <2>2
    <3>2. t[j] = s[j - 1] /\ t[i] = x
      BY <1>4, <2>2, <3>1
    <3> QED BY <1>3, <2>1, <3>1, <3>2
  <2>3. CASE j = k + 1
    <3>1. i <= k /\ i \in 1 .. L /\ ~(j <= k)
      BY <1>1, <1>3, <2>1, <2>3
    <3>2. t[i] = s[i] /\ t[j] = x
      BY <1>4, <2>3, <3>1
    <3> QED BY <1>1, <2>1, <3>1, <3>2 DEF Range
  <2>4. CASE i # k + 1 /\ j # k + 1
    <3> DEFINE from(n) == IF n <= k THEN n ELSE n - 1
    <3>1. \A n \in 1 .. L + 1 : n # k + 1 => from(n) \in 1 .. L /\ t[n] = s[from(n)]
      BY <1>1, <1>3, <1>4
    <3>2. from(i) < from(j)
      BY <1>1, <1>3, <2>1, <2>4
    <3>3. from(i) \in 1 .. L /\ from(j) \in 1 .. L /\ s[from(i)] = a /\ s[from(j)] = b
      BY <2>1, <2>4, <3>1
    <3> HIDE DEF from
    <3> QED BY <1>1, <3>2, <3>3 DEF Ahead
  <2> QED BY <2>2, <2>3, <2>4
<1> QED BY <1>2, <1>4, <1>6, <1>7

(* The insertion pass keeps the entries; what it brings ahead beats what    *)
(* it was behind.                                                          *)
LEMMA InsertedFacts ==
  ASSUME NEW A, NEW h, NEW s \in Seq(A)
  PROVE  /\ Inserted(h, s) \in Seq(A)
         /\ Range(Inserted(h, s)) = Range(s)
         /\ \A a, b : Ahead(Inserted(h, s), a, b) =>
               Ahead(s, a, b) \/ Beats(h[a].score, h[b].score)
<1> DEFINE N == Len(s)
           Eq(f) == f = [n \in 0 .. N |-> IF n = 0 THEN << >> ELSE Place(h, f[n - 1], s[n])]
           F == [q \in Seq(A) \X (1 .. N) |-> Place(h, q[1], s[q[2]])]
<1>1. N \in Nat /\ DOMAIN s = 1 .. N /\ \A n \in 1 .. N : s[n] \in A
  BY LenProperties, ElementOfSeq
<1>2. \E f : Eq(f)
  <2>1. F \in [Seq(A) \X (1 .. N) -> Seq(A)]
    BY <1>1, PlaceFacts
  <2>2. \A t \in Seq(A), n \in 1 .. N : F[<<t, n>>] = Place(h, t, s[n])
    OBVIOUS
  <2>3. << >> \in Seq(A)
    BY EmptySeq
  <2>4. PICK f : Computes(f, Seq(A), << >>, F, N)
    <3>1. F \in StepFun(Seq(A), N)
      BY <2>1 DEF StepFun
    <3> HIDE DEF F, N
    <3> QED BY <1>1, <2>3, <3>1, Steps
  <2> HIDE DEF F, N
  <2>5. ASSUME NEW n \in 0 .. N, n # 0 PROVE f[n] = Place(h, f[n - 1], s[n])
    <3>1. n \in 1 .. N /\ f[n - 1] \in Seq(A)
      BY <1>1, <2>4, <2>5 DEF Computes
    <3> QED BY <2>2, <2>4, <3>1 DEF Computes
  <2>6. Eq(f)
    BY <2>4, <2>5 DEF Computes
  <2> QED BY <2>6
<1>3. PICK f : Eq(f) /\ Inserted(h, s) = f[N]
  BY <1>2 DEF Inserted
<1>4. f[0] = << >> /\ \A n \in 1 .. N : f[n] = Place(h, f[n - 1], s[n])
  <2>1. 0 \in 0 .. N /\ \A n \in 1 .. N : n \in 0 .. N /\ n # 0
    BY <1>1
  <2> HIDE DEF N
  <2> QED BY <1>3, <2>1
<1> DEFINE G == {n \in 0 .. N : /\ f[n] \in Seq(A)
                                /\ Range(f[n]) = First(s, n)
                                /\ \A a, b : Ahead(f[n], a, b) =>
                                      Before(s, n, a, b) \/ Beats(h[a].score, h[b].score)}
<1>5. 0 \in G
  <2>1. f[0] \in Seq(A) /\ Range(f[0]) = First(s, 0) /\ \A a, b : ~Ahead(f[0], a, b)
    BY <1>4, NothingBefore
  <2> QED BY <1>1, <2>1
<1>6. ASSUME NEW n \in 1 .. N, n - 1 \in G PROVE n \in G
  <2>1. n \in Nat \ {0} /\ n \in 0 .. N
    BY <1>1
  <2>2. /\ f[n - 1] \in Seq(A)
        /\ Range(f[n - 1]) = First(s, n - 1)
        /\ \A a, b : Ahead(f[n - 1], a, b) =>
              Before(s, n - 1, a, b) \/ Beats(h[a].score, h[b].score)
    BY <1>6
  <2>3. /\ First(s, n) = First(s, n - 1) \cup {s[n]}
        /\ \A a, b : Before(s, n - 1, a, b) => Before(s, n, a, b)
        /\ \A a \in First(s, n - 1) : Before(s, n, a, s[n])
    BY <2>1, OneMore
  <2>4. f[n] = Place(h, f[n - 1], s[n]) /\ s[n] \in A
    BY <1>1, <1>4
  <2>5. /\ f[n] \in Seq(A)
        /\ Range(f[n]) = Range(f[n - 1]) \cup {s[n]}
        /\ \A a, b : Ahead(f[n], a, b) =>
              \/ Ahead(f[n - 1], a, b)
              \/ b = s[n] /\ a \in Range(f[n - 1])
              \/ a = s[n] /\ Beats(h[s[n]].score, h[b].score)
    <3> DEFINE old == f[n - 1]
               x == s[n]
               new == Place(h, old, x)
    <3>1. old \in Seq(A) /\ x \in A
      BY <2>2, <2>4
    <3> HIDE DEF old, x
    <3>2. /\ new \in Seq(A)
          /\ Range(new) = Range(old) \cup {x}
          /\ \A a, b : Ahead(new, a, b) =>
                \/ Ahead(old, a, b)
                \/ b = x /\ a \in Range(old)
                \/ a = x /\ Beats(h[x].score, h[b].score)
      BY ONLY <3>1, PlaceFacts
    <3> HIDE DEF new
    <3>3. f[n] = new
      BY <2>4 DEF new, old, x
    <3> QED BY <3>2, <3>3 DEF old, x
  <2>6. ASSUME NEW a, NEW b, Ahead(f[n], a, b)
        PROVE  Before(s, n, a, b) \/ Beats(h[a].score, h[b].score)
    BY <2>2, <2>3, <2>5, <2>6
  <2> QED BY <2>1, <2>2, <2>3, <2>5, <2>6
<1>7. N \in G
  <2> HIDE DEF G
  <2>1. \A n \in 0 .. N : n \in G
    BY <1>1, <1>5, <1>6, Upwards
  <2> QED BY <1>1, <2>1
<1>8. /\ f[N] \in Seq(A)
      /\ Range(f[N]) = First(s, N)
      /\ \A a, b : Ahead(f[N], a, b) => Before(s, N, a, b) \/ Beats(h[a].score, h[b].score)
  BY <1>7
<1> QED BY <1>3, <1>8, WholeSequence

(* Nothing beats itself. *)
LEMMA NoneBeatsItself ==
  ASSUME NEW score \in Nat
  PROVE  ~Beats(score, score)
<1>1. Floor \in Nat /\ 5 * Floor \in Nat
  BY PoolAssumption
<1> DEFINE margin == Max({score, 5 * Floor})
<1>2. margin \in Nat
  BY <1>1, MaxOfTwo
<1> HIDE DEF margin
<1>3. ~(5 * score + margin < 5 * score)
  BY <1>2
<1> QED BY <1>3 DEF Beats, margin

(* Newcomers, each once and best first: there is such an order. *)
Sorts(s, h, S) ==
  /\ s \in [1 .. Cardinality(S) -> S] /\ IsInjective(s)
  /\ \A i, j \in DOMAIN s : i < j => h[s[i]].score <= h[s[j]].score

LEMMA CanBeSorted ==
  ASSUME NEW A, IsFiniteSet(A), NEW h, \A a \in A : h[a].score \in Nat
  PROVE  \A S \in SUBSET A : \E s : Sorts(s, h, S)
<1> DEFINE Unsorted == {S \in SUBSET A : ~\E s : Sorts(s, h, S)}
           Sizes == {Cardinality(S) : S \in Unsorted}
<1> SUFFICES ASSUME Unsorted # {} PROVE FALSE
  OBVIOUS
<1>1. \A S \in SUBSET A : IsFiniteSet(S) /\ Cardinality(S) \in Nat
  BY FS_Subset, FS_CardinalityType
<1>2. PICK S \in Unsorted : \A R \in Unsorted : Cardinality(S) <= Cardinality(R)
  <2>1. Sizes \subseteq Nat /\ Sizes # {}
    BY <1>1
  <2>2. PICK n \in Sizes : \A m \in Sizes : n <= m
    <3> HIDE DEF Sizes
    <3> QED BY <2>1, LeastOf
  <2> QED BY <2>2
<1> DEFINE N == Cardinality(S)
<1>3. N \in Nat /\ IsFiniteSet(S) /\ S \subseteq A
  BY <1>1
<1>4. CASE S = {}
  <2>1. N = 0
    BY <1>4, FS_EmptySet
  <2>2. Sorts(<< >>, h, S)
    <3>1. << >> \in [1 .. 0 -> S] /\ DOMAIN << >> = {}
      OBVIOUS
    <3> QED BY <2>1, <3>1 DEF Sorts, IsInjective
  <2> QED BY <1>2, <2>2
<1>5. CASE S # {}
  <2> DEFINE Scores == {h[a].score : a \in S}
  <2>1. PICK best \in S : \A a \in S : h[best].score <= h[a].score
    <3>1. Scores \subseteq Nat /\ Scores # {}
      BY <1>3, <1>5
    <3>2. PICK n \in Scores : \A m \in Scores : n <= m
      <4> HIDE DEF Scores
      <4> QED BY <3>1, LeastOf
    <3> QED BY <3>2
  <2> DEFINE R == S \ {best}
  <2>2. Cardinality(R) = N - 1 /\ R \subseteq A
    BY <1>3, <2>1, FS_RemoveElement
  <2>3. R \notin Unsorted
    BY <1>2, <1>3, <2>2
  <2>4. PICK r : Sorts(r, h, R)
    BY <2>2, <2>3
  <2>5. /\ r \in [1 .. N - 1 -> R]
        /\ \A i, j \in 1 .. N - 1 : r[i] = r[j] => i = j
        /\ \A i, j \in 1 .. N - 1 : i < j => h[r[i]].score <= h[r[j]].score
    BY <2>2, <2>4 DEF Sorts, IsInjective
  <2> DEFINE s == [i \in 1 .. N |-> IF i = 1 THEN best ELSE r[i - 1]]
  <2> HIDE DEF N
  <2>6. \A i \in 1 .. N : i # 1 => i - 1 \in 1 .. N - 1 /\ s[i] = r[i - 1] /\ r[i - 1] \in R
    BY <1>3, <2>5
  <2>7. \A i \in 1 .. N : i = 1 => s[i] = best
    OBVIOUS
  <2>8. s \in [1 .. N -> S]
    BY <2>1, <2>6
  <2> HIDE DEF s
  <2>9. ASSUME NEW i \in 1 .. N, NEW j \in 1 .. N, s[i] = s[j] PROVE i = j
    <3>1. CASE i = 1 \/ j = 1
      BY <2>6, <2>7, <2>9, <3>1
    <3>2. CASE i # 1 /\ j # 1
      <4>1. i - 1 = j - 1
        BY <2>5, <2>6, <2>9, <3>2
      <4> QED BY <1>3, <4>1
    <3> QED BY <3>1, <3>2
  <2>10. ASSUME NEW i \in 1 .. N, NEW j \in 1 .. N, i < j
         PROVE  h[s[i]].score <= h[s[j]].score
    <3>1. j # 1
      BY <1>3, <2>10
    <3>2. CASE i = 1
      BY <2>1, <2>6, <2>7, <3>1, <3>2
    <3>3. CASE i # 1
      <4>1. i - 1 < j - 1
        BY <1>3, <2>10
      <4> QED BY <2>5, <2>6, <3>1, <3>3, <4>1
    <3> QED BY <3>2, <3>3
  <2>11. Sorts(s, h, S)
    BY <2>8, <2>9, <2>10 DEF Sorts, IsInjective, N
  <2> QED BY <1>2, <2>11
<1> QED BY <1>4, <1>5

LEMMA BestFirstFacts ==
  ASSUME NEW A, IsFiniteSet(A), NEW h, \A a \in A : h[a].score \in Nat
  PROVE  /\ BestFirst(h, A) \in Seq(A)
         /\ Range(BestFirst(h, A)) = A
         /\ IsInjective(BestFirst(h, A))
<1> DEFINE s == BestFirst(h, A)
           N == Cardinality(A)
<1>1. Sorts(s, h, A)
  <2>1. \E t : Sorts(t, h, A)
    BY CanBeSorted
  <2> QED BY <2>1 DEF Sorts, BestFirst
<1>2. N \in Nat
  BY FS_CardinalityType
<1> HIDE DEF s
<1>3. s \in Seq(A)
  BY <1>1, <1>2, SeqDef DEF Sorts
<1>4. s \in Injection(1 .. N, A) /\ IsFiniteSet(1 .. N) /\ Cardinality(1 .. N) = N
  <2>1. IsFiniteSet(1 .. N) /\ Cardinality(1 .. N) = IF 1 > N THEN 0 ELSE N - 1 + 1
    BY <1>2, FS_Interval
  <2>2. Cardinality(1 .. N) = N
    <3> HIDE DEF N
    <3> QED BY <1>2, <2>1
  <2> QED BY <1>1, <2>1, <2>2 DEF Sorts, Injection, IsInjective
<1>5. s \in Surjection(1 .. N, A)
  BY <1>4, FS_Injection
<1>6. Range(s) = A
  BY <1>1, <1>5 DEF Surjection, Range, Sorts
<1> QED BY <1>1, <1>3, <1>6 DEF Sorts, s

LEMMA ConcatFacts ==
  ASSUME NEW A, NEW s \in Seq(A), NEW t \in Seq(A)
  PROVE  /\ s \o t \in Seq(A) /\ Range(s \o t) = Range(s) \cup Range(t)
         /\ \A a, b : Ahead(s \o t, a, b) =>
               Ahead(s, a, b) \/ Ahead(t, a, b) \/ (a \in Range(s) /\ b \in Range(t))
<1> DEFINE u == s \o t
           L == Len(s)
           M == Len(t)
<1>1. /\ u \in Seq(A) /\ Len(u) = L + M
      /\ \A i \in 1 .. L + M : u[i] = IF i <= L THEN s[i] ELSE t[i - L]
  BY ConcatProperties
<1>2. /\ L \in Nat /\ M \in Nat /\ DOMAIN s = 1 .. L /\ DOMAIN t = 1 .. M
      /\ DOMAIN u = 1 .. L + M
  BY <1>1, LenProperties
<1>3. Range(u) = Range(s) \cup Range(t)
  BY RangeConcatenation
<1> HIDE DEF u, L, M
<1>4. ASSUME NEW a, NEW b, Ahead(u, a, b)
      PROVE  Ahead(s, a, b) \/ Ahead(t, a, b) \/ (a \in Range(s) /\ b \in Range(t))
  <2>1. PICK i, j \in 1 .. L + M : i < j /\ u[i] = a /\ u[j] = b
    BY <1>2, <1>4 DEF Ahead
  <2>2. CASE j <= L
    <3>1. i \in 1 .. L /\ j \in 1 .. L /\ u[i] = s[i] /\ u[j] = s[j]
      BY <1>1, <1>2, <2>1, <2>2
    <3> QED BY <1>2, <2>1, <3>1 DEF Ahead
  <2>3. CASE L < i
    <3>1. /\ i - L \in 1 .. M /\ j - L \in 1 .. M /\ i - L < j - L
          /\ u[i] = t[i - L] /\ u[j] = t[j - L]
      BY <1>1, <1>2, <2>1, <2>3
    <3> QED BY <1>2, <2>1, <3>1 DEF Ahead
  <2>4. CASE i <= L /\ L < j
    <3>1. i \in 1 .. L /\ j - L \in 1 .. M /\ u[i] = s[i] /\ u[j] = t[j - L]
      BY <1>1, <1>2, <2>1, <2>4
    <3> QED BY <1>2, <2>1, <3>1 DEF Range
  <2> QED BY <1>2, <2>1, <2>2, <2>3, <2>4
<1> QED BY <1>1, <1>3, <1>4 DEF u

(* The new order holds what is ranked, each once; nothing comes ahead of an *)
(* entry it kept but what was ahead of it or beats it.                      *)
LEMMA ReorderedFacts ==
  ASSUME NEW A, IsFiniteSet(A), NEW prev \in Seq(A), IsInjective(prev), NEW h, NEW cands,
         Ranked(h, cands) \subseteq A, \A a \in Ranked(h, cands) : h[a].score \in Nat
  PROVE  /\ Reordered(prev, h, cands) \in Seq(A)
         /\ Range(Reordered(prev, h, cands)) = Ranked(h, cands)
         /\ IsInjective(Reordered(prev, h, cands))
         /\ \A a \in Range(prev) \cap Ranked(h, cands) : \A b :
               Ahead(Reordered(prev, h, cands), b, a) =>
                 Ahead(prev, b, a) \/ Beats(h[b].score, h[a].score)
<1> DEFINE R == Ranked(h, cands)
           kept == Only(prev, R)
           new == BestFirst(h, R \ Range(kept))
           next == Inserted(h, kept \o new)
<1>1. Reordered(prev, h, cands) = next
  BY DEF Reordered
<1> HIDE DEF R
<1>2. R \subseteq A /\ \A a \in R : h[a].score \in Nat
  BY DEF R
<1>3. /\ kept \in Seq(A) /\ Range(kept) = Range(prev) \cap R
      /\ \A a, b : Ahead(kept, a, b) => Ahead(prev, a, b)
  BY OnlyFacts
<1> HIDE DEF kept
<1>4. new \in Seq(A) /\ Range(new) = R \ Range(kept) /\ IsInjective(new)
  <2> DEFINE N == R \ Range(kept)
  <2>1. IsFiniteSet(N) /\ N \subseteq A /\ \A a \in N : h[a].score \in Nat
    BY <1>2, FS_Subset
  <2> HIDE DEF N
  <2>2. /\ BestFirst(h, N) \in Seq(N) /\ Range(BestFirst(h, N)) = N
        /\ IsInjective(BestFirst(h, N))
    BY <2>1, BestFirstFacts
  <2>3. BestFirst(h, N) \in Seq(A)
    BY <2>1, <2>2, SeqMonotonic
  <2> QED BY <2>2, <2>3 DEF N
<1> HIDE DEF new
<1> DEFINE s == kept \o new
<1>5. /\ s \in Seq(A) /\ Range(s) = R
      /\ \A a, b : Ahead(s, a, b) =>
            Ahead(kept, a, b) \/ Ahead(new, a, b) \/ (a \in Range(kept) /\ b \in Range(new))
  <2>1. /\ s \in Seq(A) /\ Range(s) = Range(kept) \cup Range(new)
        /\ \A a, b : Ahead(s, a, b) =>
              Ahead(kept, a, b) \/ Ahead(new, a, b) \/ (a \in Range(kept) /\ b \in Range(new))
    BY <1>3, <1>4, ConcatFacts
  <2> QED BY <1>3, <1>4, <2>1
<1> HIDE DEF s
<1>6. /\ next \in Seq(A) /\ Range(next) = R
      /\ \A a, b : Ahead(next, a, b) => Ahead(s, a, b) \/ Beats(h[a].score, h[b].score)
  <2>1. next = Inserted(h, s)
    BY DEF s
  <2> QED BY <1>5, <2>1, InsertedFacts
<1> HIDE DEF next
<1>7. \A a, b : Ahead(new, a, b) => a \in Range(new) /\ b \in Range(new)
  BY DEF Ahead, Range
<1>8. ASSUME NEW a \in R, Ahead(next, a, a) PROVE FALSE
  <2>1. ~Beats(h[a].score, h[a].score)
    BY <1>2, <1>8, NoneBeatsItself
  <2>2. ~Ahead(prev, a, a) /\ ~Ahead(new, a, a)
    BY <1>4, AheadOfItself
  <2> QED BY <1>3, <1>4, <1>5, <1>6, <1>8, <2>1, <2>2
<1>9. IsInjective(next)
  <2>1. \A a : Ahead(next, a, a) => a \in R
    BY <1>6 DEF Ahead, Range
  <2> QED BY <1>6, <1>8, <2>1, AheadOfItself
<1>10. ASSUME NEW a \in Range(prev) \cap R, NEW b, Ahead(next, b, a)
       PROVE  Ahead(prev, b, a) \/ Beats(h[b].score, h[a].score)
  BY <1>3, <1>4, <1>5, <1>6, <1>7, <1>10
<1> QED BY <1>1, <1>6, <1>9, <1>10 DEF R

-----------------------------------------------------------------------------
(* The inductive invariants. *)

(* While probes are out, the candidates are those of the state, and every   *)
(* address being probed has a health entry.  The order has no repetition.   *)
Working == pc = "probe" => candidates = Expanded /\ todo \subseteq Known(health)
Shape == TypeOK /\ IsInjective(order) /\ Working

(* Between two cycles the order holds what is ranked. *)
Settled == pc = "sleep" => Range(order) = Ranked(health, candidates)
OrderInv == Shape /\ Settled /\ SettledRanking

(* The delays remembered of what left are bounded too. *)
Longest == Max({pool.base, pool.interval})
ParkedDelays == \A a \in Known(parked) : parked[a].backoff <= Longest
BoundInv == Shape /\ MemoryBounded /\ ParkedDelays

LEMMA PoolFacts ==
  ASSUME pool \in Pools
  PROVE  /\ IsFiniteSet(Addr) /\ Native \subseteq Addr
         /\ V4 \subseteq Native /\ \A a \in V4 : V6[a] \in Addr
         /\ pool.threshold \in Nat \ {0} /\ pool.base \in Nat /\ pool.interval \in Nat
         /\ \A t \in Literal : Ip[t] \in Native
         /\ \A t \in Cidr : Net[t] \subseteq Native
         /\ \A t \in Domain : \A answer \in pool.zone[t] : answer \subseteq Native
         /\ pool.projected \subseteq Target
         /\ \A t \in Cidr : Sample[t] # NoSample => Sample[t] \in Nat
<1>1. PoolConf(pool)
  BY PoolAssumption
<1>2. /\ IsFiniteSet(Addr) /\ V4 \subseteq Native /\ pool.projected \subseteq Target
      /\ pool.threshold \in Nat \ {0} /\ pool.base \in Nat /\ pool.interval \in Nat
  BY <1>1 DEF PoolConf, Addr, Native, V4, V6, Target
<1>3. Native \subseteq Addr /\ \A a \in V4 : V6[a] \in Addr
  BY DEF Addr, AddrOf, Native, V4, V6
<1>4. \A t \in Literal : Ip[t] \in Native
  BY DEF Literal, Ip, Native, NativeOf
<1>5. \A t \in Cidr : Net[t] \subseteq Native
  BY DEF Cidr, Net, Native, NativeOf
<1>6. \A t \in Domain : \A answer \in pool.zone[t] : answer \subseteq Native
  BY DEF Domain, Native, NativeOf
<1>7. \A t \in Cidr : Sample[t] # NoSample => Sample[t] \in Nat
  BY <1>1 DEF PoolConf, Cidr, Sample
<1> QED BY <1>2, <1>3, <1>4, <1>5, <1>6, <1>7

LEMMA SamePool ==
  ASSUME pool' = pool
  PROVE  /\ Addr' = Addr /\ Native' = Native /\ V4' = V4 /\ V6' = V6 /\ Ip' = Ip
         /\ Literal' = Literal /\ Cidr' = Cidr /\ Domain' = Domain /\ Target' = Target
         /\ Sample' = Sample /\ View' = View /\ Health' = Health /\ Candidate' = Candidate
         /\ ViewRanking' = ViewRanking /\ Longest' = Longest
         /\ \A h : Known(h)' = Known(h)
BY DEF Addr, AddrOf, Native, NativeOf, V4, V6, Ip, Literal, Cidr, Domain, Target, TargetsOf, Sample,
       View, Health, Candidate, ViewRanking, Longest, Known

LEMMA NeverAnotherPool == ASSUME [Next]_vars PROVE pool' = pool
BY DEF Next, Worker, Resolve, Build, Answered, Refused, Settle, Wake, Observe, Pick, vars, draws

(* A health entry is told from its absence. *)
LEMMA HealthFacts ==
  ASSUME pool \in Pools
  PROVE  /\ NoHealth \notin Health /\ Fresh \in Health
         /\ \A x \in Health : Failed(x) \in Health
         /\ \A x \in Health, s \in Score : [x EXCEPT !.score = s] \in Health
<1>0. pool.threshold \in Nat \ {0} /\ pool.base \in Nat /\ pool.interval \in Nat
  BY PoolFacts
<1>1. NoHealth \notin Health
  <2>1. Health \subseteq [score : Score \cup {NoScore}, fails : Nat, degraded : BOOLEAN, backoff : Nat]
    BY <1>0 DEF Health
  <2> QED BY <2>1, PoolAssumption
<1>2. Fresh \in Health
  BY <1>0 DEF Fresh, Health
<1>3. ASSUME NEW x \in Health PROVE Failed(x) \in Health
  <2> DEFINE fails == IF x.fails < pool.threshold THEN x.fails + 1 ELSE x.fails
             degraded == x.degraded \/ fails >= pool.threshold
             backoff == IF x.degraded THEN Min({2 * x.backoff, pool.interval})
                        ELSE IF fails >= pool.threshold THEN pool.base ELSE x.backoff
  <2>1. /\ x.fails \in 0 .. pool.threshold /\ x.backoff \in Nat /\ x.score \in Score \cup {NoScore}
        /\ x.degraded \in BOOLEAN
    BY DEF Health
  <2>2. fails \in 0 .. pool.threshold
    BY <1>0, <2>1
  <2>3. degraded \in BOOLEAN
    OBVIOUS
  <2>4. backoff \in Nat
    <3>1. 2 * x.backoff \in Nat
      BY <2>1
    <3> QED BY <1>0, <2>1, <3>1, MinOfTwo
  <2>5. Failed(x) = [x EXCEPT !.fails = fails, !.degraded = degraded, !.backoff = backoff]
    BY DEF Failed
  <2> HIDE DEF fails, degraded, backoff
  <2> QED BY <2>2, <2>3, <2>4, <2>5 DEF Health
<1>4. \A x \in Health, s \in Score : [x EXCEPT !.score = s] \in Health
  BY DEF Health
<1> QED BY <1>1, <1>2, <1>3, <1>4

(* What is ranked has a score. *)
LEMMA RankedFacts ==
  ASSUME pool \in Pools, NEW h \in [Addr -> Health \cup {NoHealth}], NEW cands \in SUBSET Candidate
  PROVE  /\ Ranked(h, cands) \subseteq Addr
         /\ \A a \in Ranked(h, cands) : h[a].score \in Nat
<1>1. \A c \in cands : c.addr \in Addr
  BY DEF Candidate
<1>2. \A a \in Addr : HealthyAt(h, a) => h[a] \in Health /\ h[a].score # NoScore
  BY DEF HealthyAt
<1>3. \A x \in Health : x.score # NoScore => x.score \in Nat
  BY PoolAssumption DEF Health
<1> QED BY <1>1, <1>2, <1>3 DEF Ranked, AddrsOf

(* What is published: the ranked candidates of each view, in order; and the *)
(* incumbent is found again.                                               *)
LEMMA PublishedFacts ==
  ASSUME pool \in Pools, ranking \in [View -> ViewRanking],
         NEW h \in [Addr -> Health \cup {NoHealth}], NEW ord \in Seq(Addr),
         NEW cands \in SUBSET Candidate
  PROVE  /\ Published(h, ord, cands) \in [View -> ViewRanking]
         /\ \A v \in View :
              LET r == ranking[v]
                  next == Published(h, ord, cands)[v] IN
              /\ Range(next.ordered) = Range(ord) \cap Ranked(h, {c \in cands : Matches(v, c)})
              /\ IsInjective(ord) => IsInjective(next.ordered)
              /\ r.incumbent \in DOMAIN r.ordered /\ r.ordered[r.incumbent] \in Range(next.ordered)
                 => next.ordered[next.incumbent] = r.ordered[r.incumbent]
<1> DEFINE P == Published(h, ord, cands)
           S(v) == Ranked(h, {c \in cands : Matches(v, c)})
           s(v) == Only(ord, S(v))
           safety(v) == AddrsOf({c \in cands : c.target = pool.fallback /\ Matches(v, c)})
           last(v) == IF safety(v) = {} THEN NoAddr ELSE CHOOSE a \in safety(v) : TRUE
<1>1. P = [v \in View |-> [ordered |-> s(v), incumbent |-> Incumbent(ranking[v], s(v)),
                           fallback |-> last(v)]]
  BY DEF Published
<1>2. \A v : /\ s(v) \in Seq(Addr) /\ Range(s(v)) = Range(ord) \cap S(v)
             /\ \A a, b : Ahead(s(v), a, b) => Ahead(ord, a, b)
  BY OnlyFacts
<1>3. \A v : last(v) \in Addr \cup {NoAddr}
  <2>1. \A v : safety(v) \subseteq Addr
    BY DEF AddrsOf, Candidate
  <2> HIDE DEF safety
  <2> QED BY <2>1
<1> HIDE DEF s, last, P
<1>4. ASSUME NEW v \in View
      PROVE  /\ Incumbent(ranking[v], s(v)) \in Nat
             /\ LET r == ranking[v] IN
                r.incumbent \in DOMAIN r.ordered /\ r.ordered[r.incumbent] \in Range(s(v))
                => s(v)[Incumbent(r, s(v))] = r.ordered[r.incumbent]
  <2> DEFINE r == ranking[v]
             t == s(v)
             was == {i \in DOMAIN t : r.incumbent <= Len(r.ordered) /\ t[i] = r.ordered[r.incumbent]}
  <2>1. Incumbent(r, t) = IF was = {} THEN 1 ELSE Min(was)
    BY DEF Incumbent
  <2>2. t \in Seq(Addr) /\ r \in ViewRanking /\ r.ordered \in Seq(Addr)
    BY <1>2 DEF ViewRanking
  <2>3. was \subseteq Nat
    BY <2>2, LenProperties
  <2>4. was # {} => Min(was) \in was
    <3> HIDE DEF was
    <3> QED BY <2>3, MinIs
  <2>5. Incumbent(r, t) \in Nat
    <3>1. CASE was = {}
      BY <2>1, <3>1
    <3>2. CASE was # {}
      <4>1. Min(was) \in Nat /\ Incumbent(r, t) = Min(was)
        BY <2>1, <2>3, <2>4, <3>2
      <4> QED BY <4>1
    <3> QED BY <3>1, <3>2
  <2>6. ASSUME r.incumbent \in DOMAIN r.ordered, r.ordered[r.incumbent] \in Range(t)
        PROVE  t[Incumbent(r, t)] = r.ordered[r.incumbent]
    <3>1. r.incumbent <= Len(r.ordered)
      BY <2>2, <2>6, LenProperties
    <3>2. was # {}
      BY <2>6, <3>1 DEF Range
    <3> HIDE DEF t, r
    <3> QED BY <2>1, <2>4, <3>2
  <2> QED BY <2>5, <2>6
<1>5. ASSUME NEW v \in View, IsInjective(ord) PROVE IsInjective(s(v))
  BY <1>2, <1>5, AheadOfItself
<1>6. P \in [View -> ViewRanking]
  BY <1>1, <1>2, <1>3, <1>4 DEF ViewRanking
<1>7. \A v \in View : P[v].ordered = s(v) /\ P[v].incumbent = Incumbent(ranking[v], s(v))
  BY <1>1
<1> QED BY <1>2, <1>4, <1>5, <1>6, <1>7 DEF P

-----------------------------------------------------------------------------
(* Types, and the candidates of a cycle. *)

LEMMA SameDraws ==
  ASSUME UNCHANGED draws
  PROVE  /\ \A t \in Cidr : AddrsFrom(t)' = AddrsFrom(t)
         /\ resolved' = resolved => Expanded' = Expanded
<1>1. pool' = pool /\ sampled' = sampled /\ resampled' = resampled /\ replacements' = replacements
  BY DEF draws
<1>2. Literal' = Literal /\ Cidr' = Cidr /\ Ip' = Ip /\ V4' = V4 /\ V6' = V6 /\ Candidate' = Candidate
  BY <1>1, SamePool
<1>3. \A t \in Cidr : AddrsFrom(t)' = AddrsFrom(t)
  BY <1>1, <1>2 DEF AddrsFrom
<1>4. ASSUME resolved' = resolved PROVE Expanded' = Expanded
  <2>1. \A t : AddrsFrom(t)' = AddrsFrom(t)
    BY <1>1, <1>2, <1>4 DEF AddrsFrom
  <2> QED BY <1>1, <1>2, <2>1 DEF Expanded
<1> QED BY <1>3, <1>4

LEMMA ShapeInit == Init => Shape
<1> SUFFICES ASSUME Init PROVE Shape
  OBVIOUS
<1>1. /\ pool \in Pools /\ sampled \in [Cidr -> SUBSET Native] /\ resampled = {}
      /\ replacements = [t \in Cidr |-> {}] /\ resolved = [t \in Domain |-> {}]
      /\ health = [a \in Addr |-> NoHealth] /\ parked = [a \in Addr |-> NoHealth]
      /\ order = << >> /\ candidates = {}
      /\ ranking = [v \in View |-> [ordered |-> << >>, incumbent |-> 1, fallback |-> NoAddr]]
      /\ pc = "resolve" /\ asking = Domain /\ todo = {} /\ probed = FALSE
  BY DEF Init
<1>2. << >> \in Seq(Addr)
  BY EmptySeq
<1>3. ranking \in [View -> ViewRanking]
  BY <1>1, <1>2 DEF ViewRanking
<1>4. Known(parked) \cap Known(health) = {}
  BY <1>1 DEF Known
<1>5. IsInjective(order)
  BY <1>1 DEF IsInjective
<1> QED BY <1>1, <1>2, <1>3, <1>4, <1>5 DEF Shape, TypeOK, Working

(* What is evicted brings what is remembered within its bound. *)
LEMMA EvictionFacts ==
  ASSUME NEW old, IsFiniteSet(old), NEW evicted \in Evictions(old)
  PROVE  Cardinality(old \ evicted) <= MaxParked
<1>1. MaxParked \in Nat /\ Cardinality(old) \in Nat
  BY PoolAssumption, FS_CardinalityType
<1>2. CASE Cardinality(old) <= MaxParked
  <2>1. evicted = {}
    BY <1>2 DEF Evictions
  <2> QED BY <1>2, <2>1
<1>3. CASE ~(Cardinality(old) <= MaxParked)
  <2>1. evicted \in SUBSET old /\ Cardinality(evicted) = Cardinality(old) - MaxParked
    BY <1>3 DEF Evictions, kSubset
  <2>2. Cardinality(old \ evicted) = Cardinality(old) - Cardinality(old \cap evicted)
    BY FS_Difference
  <2>3. old \cap evicted = evicted
    BY <2>1
  <2> QED BY <1>1, <2>1, <2>2, <2>3
<1> QED BY <1>2, <1>3

LEMMA BuildFacts ==
  ASSUME Shape, NEW due, Build(due)
  PROVE  /\ candidates' = Expanded /\ Expanded' = Expanded /\ Expanded \subseteq Candidate
         /\ {health', parked'} \subseteq [Addr -> Health \cup {NoHealth}]
         /\ Known(health') = AddrsOf(Expanded) /\ Known(parked') \cap Known(health') = {}
         /\ Cardinality(Known(parked')) <= MaxParked
         /\ \A a \in Addr : /\ health'[a] \in {NoHealth, Fresh, health[a], parked[a]}
                            /\ parked'[a] \in {NoHealth, health[a], parked[a]}
         /\ due \subseteq Known(health')
<1> DEFINE live == AddrsOf(Expanded)
<1>1. Expanded \subseteq Candidate /\ live \subseteq Addr
  BY DEF Expanded, AddrsOf, Candidate
<1>2. candidates' = Expanded /\ due \subseteq live /\ UNCHANGED draws /\ resolved' = resolved
  BY DEF Build
<1>3. Expanded' = Expanded
  BY <1>2, SameDraws
<1>4. PICK expired \in SUBSET Known(parked) :
        LET left == [a \in Addr |-> IF a \in expired THEN NoHealth ELSE parked[a]]
            unheld == (Known(left) \ live) \cup (Known(health) \ live) IN
        /\ health' = [a \in Addr |-> IF a \notin live THEN NoHealth
                                     ELSE IF health[a] # NoHealth THEN health[a]
                                     ELSE Restored(a, left)]
        /\ \E evicted \in Evictions(unheld) :
             parked' = [a \in Addr |-> IF a \notin unheld \ evicted THEN NoHealth
                                      ELSE IF health[a] # NoHealth THEN health[a] ELSE left[a]]
  BY DEF Build
<1> DEFINE left == [a \in Addr |-> IF a \in expired THEN NoHealth ELSE parked[a]]
           unheld == (Known(left) \ live) \cup (Known(health) \ live)
<1>5. PICK evicted \in Evictions(unheld) :
        parked' = [a \in Addr |-> IF a \notin unheld \ evicted THEN NoHealth
                                 ELSE IF health[a] # NoHealth THEN health[a] ELSE left[a]]
  BY <1>4
<1>6. health' = [a \in Addr |-> IF a \notin live THEN NoHealth
                              ELSE IF health[a] # NoHealth THEN health[a] ELSE Restored(a, left)]
  BY <1>4
<1>7. /\ pool \in Pools /\ Fresh \in Health /\ NoHealth \notin Health
      /\ health \in [Addr -> Health \cup {NoHealth}] /\ parked \in [Addr -> Health \cup {NoHealth}]
  BY HealthFacts DEF Shape, TypeOK
<1>8. \A a \in Addr : /\ left[a] \in {NoHealth, parked[a]}
                     /\ Restored(a, left) \in {Fresh, parked[a]} /\ Restored(a, left) # NoHealth
  BY <1>7 DEF Restored
<1>9. unheld \subseteq Addr /\ unheld \cap live = {}
  BY DEF Known
<1> HIDE DEF live, left, unheld
<1>10. \A a \in Addr : health'[a] \in {NoHealth, Fresh, health[a], parked[a]}
  BY <1>6, <1>8
<1>11. \A a \in Addr : health'[a] # NoHealth <=> a \in live
  BY <1>6, <1>7, <1>8
<1>12. \A a \in Addr : parked'[a] \in {NoHealth, health[a], parked[a]}
  BY <1>5, <1>8
<1>13. \A a \in Addr : parked'[a] # NoHealth => a \in unheld \ evicted
  BY <1>5
<1>14. {health', parked'} \subseteq [Addr -> Health \cup {NoHealth}]
  <2>1. \A a \in Addr : health[a] \in Health \cup {NoHealth} /\ parked[a] \in Health \cup {NoHealth}
    BY <1>7
  <2>2. health' \in [Addr -> Health \cup {NoHealth}]
    <3>1. \A a \in Addr : health'[a] \in Health \cup {NoHealth}
      BY <1>7, <1>10, <2>1
    <3> QED BY <1>6, <3>1
  <2>3. parked' \in [Addr -> Health \cup {NoHealth}]
    <3>1. \A a \in Addr : parked'[a] \in Health \cup {NoHealth}
      BY <1>12, <2>1
    <3> QED BY <1>5, <3>1
  <2> QED BY <2>2, <2>3
<1>15. Known(health') = live
  BY <1>1, <1>11 DEF Known, live
<1>16. Known(parked') \subseteq unheld \ evicted
  BY <1>13 DEF Known
<1>17. Cardinality(Known(parked')) <= MaxParked
  <2>1. IsFiniteSet(unheld) /\ IsFiniteSet(unheld \ evicted)
    BY <1>7, <1>9, PoolFacts, FS_Subset
  <2>2. Cardinality(unheld \ evicted) <= MaxParked
    BY <2>1, EvictionFacts
  <2>3. Cardinality(Known(parked')) <= Cardinality(unheld \ evicted)
    BY <1>16, <2>1, FS_Subset
  <2>4. Cardinality(Known(parked')) \in Nat /\ Cardinality(unheld \ evicted) \in Nat /\ MaxParked \in Nat
    BY <1>16, <2>1, FS_Subset, FS_CardinalityType, PoolAssumption
  <2> QED BY <2>2, <2>3, <2>4
<1>18. Known(parked') \cap Known(health') = {}
  BY <1>9, <1>15, <1>16
<1> QED BY <1>1, <1>2, <1>3, <1>10, <1>12, <1>14, <1>15, <1>17, <1>18 DEF live

LEMMA SettleFacts ==
  ASSUME Shape, Settle
  PROVE  \E plan :
           /\ DOMAIN plan \subseteq Dead /\ \A c \in DOMAIN plan : plan[c] \in Native
           /\ replacements' = [t \in Cidr |-> ReplacedIn(t, plan)]
           /\ resampled' = resampled \cup AddrsOf(DOMAIN plan)
           /\ health' = [a \in Addr |-> IF a \in AddrsOf(DOMAIN plan) THEN NoHealth ELSE health[a]]
<1>1. PICK plan \in IF probed THEN Plans ELSE {<< >>} :
        /\ replacements' = [t \in Cidr |-> ReplacedIn(t, plan)]
        /\ resampled' = resampled \cup AddrsOf(DOMAIN plan)
        /\ health' = [a \in Addr |-> IF a \in AddrsOf(DOMAIN plan) THEN NoHealth ELSE health[a]]
  BY DEF Settle
<1>2. DOMAIN plan \subseteq Dead /\ \A c \in DOMAIN plan : plan[c] \in Native
  <2>1. CASE probed
    <3>1. PICK d \in SUBSET Dead : plan \in [d -> Native]
      BY <1>1, <2>1 DEF Plans
    <3> QED BY <3>1
  <2>2. CASE ~probed
    <3>1. plan = << >>
      BY <1>1, <2>2
    <3>2. DOMAIN << >> = {}
      OBVIOUS
    <3> QED BY <3>1, <3>2
  <2> QED BY <2>1, <2>2
<1> QED BY <1>1, <1>2

(* The order and the rankings computed from well-formed candidates and     *)
(* health are well formed.                                                 *)
LEMMA RecomputedShape ==
  ASSUME Shape, NEW h \in [Addr -> Health \cup {NoHealth}], NEW cands \in SUBSET Candidate
  PROVE  /\ Reordered(order, h, cands) \in Seq(Addr) /\ IsInjective(Reordered(order, h, cands))
         /\ Range(Reordered(order, h, cands)) = Ranked(h, cands)
         /\ \A ord \in Seq(Addr) : Published(h, ord, cands) \in [View -> ViewRanking]
<1>1. /\ pool \in Pools /\ order \in Seq(Addr) /\ IsInjective(order)
      /\ ranking \in [View -> ViewRanking] /\ IsFiniteSet(Addr)
  BY PoolFacts DEF Shape, TypeOK
<1>2. Ranked(h, cands) \subseteq Addr /\ \A a \in Ranked(h, cands) : h[a].score \in Nat
  BY <1>1, RankedFacts
<1>3. /\ Reordered(order, h, cands) \in Seq(Addr) /\ IsInjective(Reordered(order, h, cands))
      /\ Range(Reordered(order, h, cands)) = Ranked(h, cands)
  BY <1>1, <1>2, ReorderedFacts
<1>4. \A ord \in Seq(Addr) : Published(h, ord, cands) \in [View -> ViewRanking]
  BY <1>1, PublishedFacts
<1> QED BY <1>3, <1>4

LEMMA ShapeStep ==
  ASSUME Shape, [Next]_vars
  PROVE  Shape'
<1>1. /\ pool' = pool /\ Addr' = Addr /\ Native' = Native /\ Cidr' = Cidr /\ Domain' = Domain
      /\ View' = View /\ Health' = Health /\ Candidate' = Candidate /\ ViewRanking' = ViewRanking
  BY NeverAnotherPool, SamePool
<1>2. Known(health)' = Known(health') /\ Known(parked)' = Known(parked')
  BY <1>1 DEF Known
<1>3. /\ pool \in Pools
      /\ sampled \in [Cidr -> SUBSET Native] /\ resampled \in SUBSET Addr
      /\ replacements \in [Cidr -> SUBSET Native] /\ resolved \in [Domain -> SUBSET Native]
      /\ health \in [Addr -> Health \cup {NoHealth}] /\ parked \in [Addr -> Health \cup {NoHealth}]
      /\ Known(parked) \cap Known(health) = {}
      /\ order \in Seq(Addr) /\ candidates \in SUBSET Candidate
      /\ ranking \in [View -> ViewRanking]
      /\ pc \in {"resolve", "probe", "sleep"} /\ asking \in SUBSET Domain
      /\ todo \in SUBSET Addr /\ probed \in BOOLEAN
      /\ IsInjective(order) /\ Working
  BY DEF Shape, TypeOK
(* The parts of the invariant, to be shown of the next state. *)
<1> DEFINE Networks == /\ sampled' \in [Cidr -> SUBSET Native] /\ resampled' \in SUBSET Addr
                       /\ replacements' \in [Cidr -> SUBSET Native]
                       /\ resolved' \in [Domain -> SUBSET Native]
           Histories == /\ health' \in [Addr -> Health \cup {NoHealth}]
                        /\ parked' \in [Addr -> Health \cup {NoHealth}]
                        /\ Known(parked') \cap Known(health') = {}
           Orders == /\ order' \in Seq(Addr) /\ IsInjective(order') /\ candidates' \in SUBSET Candidate
                     /\ ranking' \in [View -> ViewRanking]
           Control == /\ pc' \in {"resolve", "probe", "sleep"} /\ asking' \in SUBSET Domain
                      /\ todo' \in SUBSET Addr /\ probed' \in BOOLEAN
           Probing == pc' = "probe" => candidates' = Expanded' /\ todo' \subseteq Known(health')
<1>4. ASSUME Networks, Histories, Orders, Control, Probing PROVE Shape'
  BY <1>1, <1>2, <1>3, <1>4 DEF Shape, TypeOK, Working
<1> HIDE DEF Networks, Histories, Orders, Control, Probing
<1>5. ASSUME NEW t \in Domain, Resolve(t) PROVE Shape'
  <2>1. /\ UNCHANGED <<draws, health, parked, order, candidates, ranking, pc, todo, probed>>
        /\ pc = "resolve" /\ asking' = asking \ {t}
    BY <1>5 DEF Resolve
  <2>2. PICK answer \in pool.zone[t] :
          resolved' = IF answer = {} THEN resolved ELSE [resolved EXCEPT ![t] = answer]
    BY <1>5 DEF Resolve
  <2>3. answer \subseteq Native
    BY <1>3, PoolFacts
  <2>4. Networks
    BY <1>3, <2>1, <2>2, <2>3 DEF Networks, draws
  <2>5. Histories /\ Orders /\ Control /\ Probing
    BY <1>3, <2>1 DEF Histories, Orders, Control, Probing
  <2> QED BY <1>4, <2>4, <2>5
<1>6. ASSUME NEW due \in SUBSET Addr, Build(due) PROVE Shape'
  <2>1. /\ candidates' = Expanded /\ Expanded' = Expanded /\ Expanded \subseteq Candidate
        /\ {health', parked'} \subseteq [Addr -> Health \cup {NoHealth}]
        /\ Known(parked') \cap Known(health') = {} /\ due \subseteq Known(health')
    BY <1>6, BuildFacts
  <2>2. /\ UNCHANGED <<draws, resolved, asking>>
        /\ order' = Reordered(order, health', candidates')
        /\ ranking' = Published(health', order', candidates')
        /\ pc' = "probe" /\ todo' = due /\ probed' = (due # {})
    BY <1>6 DEF Build
  <2>3. Networks /\ Control
    BY <1>3, <2>2 DEF Networks, Control, draws
  <2>4. Histories
    BY <2>1 DEF Histories
  <2>5. Orders
    <3>1. candidates' \in SUBSET Candidate /\ health' \in [Addr -> Health \cup {NoHealth}]
      BY <2>1
    <3>2. order' \in Seq(Addr) /\ IsInjective(order')
      BY <2>2, <3>1, RecomputedShape
    <3>3. ranking' \in [View -> ViewRanking]
      BY <2>2, <3>1, <3>2, RecomputedShape
    <3> QED BY <3>1, <3>2, <3>3 DEF Orders
  <2>6. Probing
    BY <2>1, <2>2 DEF Probing
  <2> QED BY <1>4, <2>3, <2>4, <2>5, <2>6
(* A probe is joined: only an entry that exists changes. *)
<1>7. ASSUME NEW a \in Addr, pc = "probe", a \in todo, NEW x \in Health, health' = [health EXCEPT ![a] = x],
             todo' = todo \ {a},
             UNCHANGED <<draws, resolved, parked, order, candidates, ranking, pc, asking, probed>>
      PROVE  Shape'
  <2>1. candidates = Expanded /\ todo \subseteq Known(health)
    BY <1>3, <1>7 DEF Working
  <2>2. Known(health') = Known(health)
    <3>1. x # NoHealth /\ health[a] # NoHealth
      BY <1>3, <1>7, <2>1, HealthFacts DEF Known
    <3> QED BY <1>3, <1>7, <3>1 DEF Known
  <2>3. Expanded' = Expanded
    BY <1>7, SameDraws
  <2>4. Histories
    BY <1>3, <1>7, <2>2 DEF Histories
  <2>5. Networks /\ Orders /\ Control
    BY <1>3, <1>7 DEF Networks, Orders, Control, draws
  <2>6. Probing
    BY <1>7, <2>1, <2>2, <2>3 DEF Probing
  <2> QED BY <1>4, <2>4, <2>5, <2>6
<1>8. ASSUME NEW a \in Addr, Answered(a) PROVE Shape'
  <2>1. PICK s \in Score : health' = [health EXCEPT ![a] = [Fresh EXCEPT !.score = s]]
    BY <1>8 DEF Answered
  <2>2. [Fresh EXCEPT !.score = s] \in Health
    BY <1>3, HealthFacts
  <2> QED BY <1>7, <1>8, <2>1, <2>2 DEF Answered
<1>9. ASSUME NEW a \in Addr, Refused(a) PROVE Shape'
  <2>1. health' = [health EXCEPT ![a] = Failed(health[a])] /\ pc = "probe" /\ a \in todo
    BY <1>9 DEF Refused
  <2>2. health[a] \in Health
    BY <1>3, <2>1 DEF Working, Known
  <2>3. Failed(health[a]) \in Health
    BY <1>3, <2>2, HealthFacts
  <2> QED BY <1>7, <1>9, <2>1, <2>3 DEF Refused
<1>10. ASSUME Settle PROVE Shape'
  <2>1. PICK plan :
          /\ DOMAIN plan \subseteq Dead /\ \A c \in DOMAIN plan : plan[c] \in Native
          /\ replacements' = [t \in Cidr |-> ReplacedIn(t, plan)]
          /\ resampled' = resampled \cup AddrsOf(DOMAIN plan)
          /\ health' = [a \in Addr |-> IF a \in AddrsOf(DOMAIN plan) THEN NoHealth ELSE health[a]]
    BY <1>10, SettleFacts
  <2>2. /\ order' = Reordered(order, health', candidates)
        /\ ranking' = Published(health', order', candidates)
        /\ pc' = "sleep" /\ probed' = FALSE
        /\ UNCHANGED <<pool, sampled, resolved, parked, candidates, asking, todo>>
    BY <1>10 DEF Settle
  <2>3. AddrsOf(DOMAIN plan) \subseteq Addr
    BY <1>3, <2>1 DEF AddrsOf, Dead, Candidate
  <2>4. Networks
    <3>1. \A t \in Cidr : ReplacedIn(t, plan) \subseteq Native
      BY <1>3, <2>1 DEF ReplacedIn
    <3> QED BY <1>3, <2>1, <2>2, <2>3, <3>1 DEF Networks
  <2>5. health' \in [Addr -> Health \cup {NoHealth}]
    BY <1>3, <2>1
  <2>6. Histories
    <3>1. Known(health') \subseteq Known(health)
      BY <2>1 DEF Known
    <3> QED BY <1>3, <2>2, <2>5, <3>1 DEF Histories
  <2>7. Orders
    <3>1. order' \in Seq(Addr) /\ IsInjective(order')
      BY <1>3, <2>2, <2>5, RecomputedShape
    <3>2. ranking' \in [View -> ViewRanking]
      BY <1>3, <2>2, <2>5, <3>1, RecomputedShape
    <3> QED BY <1>3, <2>2, <3>1, <3>2 DEF Orders
  <2>8. Control /\ Probing
    BY <1>3, <2>2 DEF Control, Probing
  <2> QED BY <1>4, <2>4, <2>6, <2>7, <2>8
<1>11. ASSUME Wake PROVE Shape'
  <2>1. /\ pc' = "resolve" /\ asking' \in {Domain, {}}
        /\ UNCHANGED <<draws, resolved, health, parked, order, candidates, ranking, todo, probed>>
    BY <1>11 DEF Wake
  <2> QED BY <1>3, <1>4, <2>1 DEF Networks, Histories, Orders, Control, Probing, draws
<1>12. ASSUME NEW a \in Addr, Observe(a) PROVE Shape'
  <2>1. UNCHANGED <<draws, resolved, order, candidates, work>>
    BY <1>12 DEF Observe
  <2>2. PICK s \in Score :
          LET seen(h) == IF h.score = NoScore THEN h ELSE [h EXCEPT !.score = s] IN
          \/ /\ health[a] # NoHealth
             /\ health' = [health EXCEPT ![a] = seen(@)]
             /\ ranking' = Published(health', order, candidates)
             /\ UNCHANGED parked
          \/ /\ parked[a] # NoHealth
             /\ parked' = [parked EXCEPT ![a] = seen(@)]
             /\ UNCHANGED <<health, ranking>>
    BY <1>12 DEF Observe
  <2> DEFINE seen(h) == IF h.score = NoScore THEN h ELSE [h EXCEPT !.score = s]
  <2>3. \A x \in Health : seen(x) \in Health
    BY <1>3, HealthFacts
  <2>4. NoHealth \notin Health
    BY <1>3, HealthFacts
  <2>5. \/ /\ health[a] # NoHealth /\ health' = [health EXCEPT ![a] = seen(health[a])]
           /\ ranking' = Published(health', order, candidates) /\ parked' = parked
        \/ /\ parked[a] # NoHealth /\ parked' = [parked EXCEPT ![a] = seen(parked[a])]
           /\ UNCHANGED <<health, ranking>>
    BY <2>2
  <2> HIDE DEF seen
  <2>6. /\ health' \in [Addr -> Health \cup {NoHealth}] /\ parked' \in [Addr -> Health \cup {NoHealth}]
        /\ Known(health') = Known(health) /\ Known(parked') = Known(parked)
    <3>1. /\ health[a] # NoHealth => health[a] \in Health /\ seen(health[a]) \in Health
          /\ parked[a] # NoHealth => parked[a] \in Health /\ seen(parked[a]) \in Health
      BY <1>3, <2>3
    <3> DEFINE H == Health \cup {NoHealth}
    <3>2. CASE /\ health[a] # NoHealth /\ health' = [health EXCEPT ![a] = seen(health[a])]
               /\ parked' = parked
      <4>1. health[a] \in Health /\ seen(health[a]) \in Health /\ seen(health[a]) # NoHealth
        BY <2>4, <3>1, <3>2
      <4>2. health' \in [Addr -> H]
        BY <1>3, <3>2, <4>1
      <4>3. \A b \in Addr : health'[b] # NoHealth <=> health[b] # NoHealth
        BY <1>3, <3>2, <4>1
      <4> QED BY <1>3, <3>2, <4>2, <4>3 DEF Known
    <3>3. CASE /\ parked[a] # NoHealth /\ parked' = [parked EXCEPT ![a] = seen(parked[a])]
               /\ health' = health
      <4>1. parked[a] \in Health /\ seen(parked[a]) \in Health /\ seen(parked[a]) # NoHealth
        BY <2>4, <3>1, <3>3
      <4>2. parked' \in [Addr -> H]
        BY <1>3, <3>3, <4>1
      <4>3. \A b \in Addr : parked'[b] # NoHealth <=> parked[b] # NoHealth
        BY <1>3, <3>3, <4>1
      <4> QED BY <1>3, <3>3, <4>2, <4>3 DEF Known
    <3> QED BY <2>5, <3>2, <3>3
  <2>7. ranking' \in [View -> ViewRanking]
    <3>1. Published(health', order, candidates) \in [View -> ViewRanking]
      BY <1>3, <2>6, RecomputedShape
    <3>2. ranking' = Published(health', order, candidates) \/ ranking' = ranking
      BY <2>5
    <3> QED BY <1>3, <3>1, <3>2
  <2>8. Networks /\ Orders /\ Control
    BY <1>3, <2>1, <2>7 DEF Networks, Orders, Control, draws, work
  <2>9. Histories
    BY <1>3, <2>6 DEF Histories
  <2>10. Probing
    <3>1. Expanded' = Expanded
      BY <2>1, SameDraws
    <3> QED BY <1>3, <2>1, <2>6, <3>1 DEF Probing, Working, work
  <2> QED BY <1>4, <2>8, <2>9, <2>10
<1>13. ASSUME NEW v \in View, Pick(v) PROVE Shape'
  <2>1. UNCHANGED <<draws, resolved, health, parked, order, candidates, work>>
    BY <1>13 DEF Pick
  <2>2. PICK i \in DOMAIN ranking[v].ordered : ranking' = [ranking EXCEPT ![v].incumbent = i]
    BY <1>13 DEF Pick
  <2>3. ranking' \in [View -> ViewRanking]
    <3>1. ranking[v] \in ViewRanking /\ ranking[v].ordered \in Seq(Addr)
      BY <1>3 DEF ViewRanking
    <3>2. i \in Nat
      BY <3>1, LenProperties
    <3>3. [ranking[v] EXCEPT !.incumbent = i] \in ViewRanking
      BY <3>1, <3>2 DEF ViewRanking
    <3> QED BY <1>3, <2>2, <3>3
  <2>4. Networks /\ Histories /\ Orders /\ Control
    BY <1>3, <2>1, <2>3 DEF Networks, Histories, Orders, Control, draws, work
  <2>5. Probing
    <3>1. Expanded' = Expanded
      BY <2>1, SameDraws
    <3> QED BY <1>3, <2>1, <3>1 DEF Probing, Working, work
  <2> QED BY <1>4, <2>4, <2>5
<1>14. CASE UNCHANGED vars
  <2>1. UNCHANGED <<draws, resolved, health, parked, order, candidates, ranking, work>>
    BY <1>14 DEF vars
  <2>2. Expanded' = Expanded
    BY <2>1, SameDraws
  <2> QED BY <1>3, <1>4, <2>1, <2>2
          DEF Networks, Histories, Orders, Control, Probing, Working, draws, work
<1> QED BY <1>5, <1>6, <1>8, <1>9, <1>10, <1>11, <1>12, <1>13, <1>14 DEF Next, Worker

LEMMA AlwaysShape == Spec => []Shape
<1>1. Init => Shape
  BY ShapeInit
<1>2. Shape /\ [Next]_vars => Shape'
  BY ShapeStep
<1> QED BY <1>1, <1>2, PTL DEF Spec

(* Every variable has its type, for any pools; and no history is kept      *)
(* twice: an address is live or remembered, never both (build_candidates). *)
THEOREM PoolTypeCorrect == Spec => []TypeOK
<1>1. Shape => TypeOK
  BY DEF Shape
<1> QED BY <1>1, AlwaysShape, PTL

-----------------------------------------------------------------------------
(* What is ranked between two cycles. *)

(* Every view's ranking is the part of the ranked candidates it selects. *)
Agrees(h, published, cands) ==
  \A v \in View : LET s == published[v].ordered IN
                  /\ Range(s) = Ranked(h, {c \in cands : Matches(v, c)})
                  /\ IsInjective(s)

LEMMA PublishedAgrees ==
  ASSUME Shape, NEW h \in [Addr -> Health \cup {NoHealth}], NEW ord \in Seq(Addr), IsInjective(ord),
         NEW cands \in SUBSET Candidate, Range(ord) = Ranked(h, cands)
  PROVE  Agrees(h, Published(h, ord, cands), cands)
<1>1. pool \in Pools /\ ranking \in [View -> ViewRanking]
  BY DEF Shape, TypeOK
<1>2. ASSUME NEW v \in View
      PROVE  LET next == Published(h, ord, cands)[v] IN
             /\ Range(next.ordered) = Ranked(h, {c \in cands : Matches(v, c)})
             /\ IsInjective(next.ordered)
  <2>1. LET next == Published(h, ord, cands)[v] IN
        /\ Range(next.ordered) = Range(ord) \cap Ranked(h, {c \in cands : Matches(v, c)})
        /\ IsInjective(next.ordered)
    BY <1>1, PublishedFacts
  <2>2. Ranked(h, {c \in cands : Matches(v, c)}) \subseteq Ranked(h, cands)
    BY DEF Ranked, AddrsOf
  <2> QED BY <2>1, <2>2
<1> QED BY <1>2 DEF Agrees

(* A measurement moves a score, never what is ranked. *)
LEMMA SameRanked ==
  ASSUME NEW h, NEW k, NEW cands \in SUBSET Candidate,
         \A a \in Addr : HealthyAt(k, a) <=> HealthyAt(h, a)
  PROVE  Ranked(k, cands) = Ranked(h, cands)
<1>1. \A a \in AddrsOf(cands) : a \in Addr
  BY DEF AddrsOf, Candidate
<1> QED BY <1>1 DEF Ranked

LEMMA ObserveFacts ==
  ASSUME Shape, NEW a \in Addr, Observe(a)
  PROVE  /\ \/ ranking' = Published(health', order, candidates)
            \/ health' = health /\ ranking' = ranking
         /\ \A b \in Addr : HealthyAt(health', b) <=> HealthyAt(health, b)
         /\ \A b \in Addr : health[b] # NoHealth => health'[b].backoff = health[b].backoff
         /\ \A b \in Addr : parked[b] # NoHealth => parked'[b].backoff = parked[b].backoff
         /\ Known(health') = Known(health) /\ Known(parked') = Known(parked)
<1> DEFINE H == Health \cup {NoHealth}
           seen(h, s) == IF h.score = NoScore THEN h ELSE [h EXCEPT !.score = s]
<1>1. pool \in Pools /\ health \in [Addr -> H] /\ parked \in [Addr -> H]
  BY DEF Shape, TypeOK
<1>2. PICK s \in Score :
        \/ /\ health[a] # NoHealth /\ health' = [health EXCEPT ![a] = seen(health[a], s)]
           /\ ranking' = Published(health', order, candidates) /\ parked' = parked
        \/ /\ parked[a] # NoHealth /\ parked' = [parked EXCEPT ![a] = seen(parked[a], s)]
           /\ health' = health /\ ranking' = ranking
  BY DEF Observe
<1>3. \A h \in Health : /\ seen(h, s) \in Health /\ seen(h, s).backoff = h.backoff
                        /\ seen(h, s).degraded = h.degraded
                        /\ seen(h, s).score # NoScore <=> h.score # NoScore
  BY PoolAssumption DEF Health
<1>4. NoHealth \notin Health
  BY <1>1, HealthFacts
<1> HIDE DEF seen
<1>5. ASSUME health[a] # NoHealth, health' = [health EXCEPT ![a] = seen(health[a], s)]
      PROVE  \A b \in Addr : /\ health'[b] # NoHealth <=> health[b] # NoHealth
                             /\ HealthyAt(health', b) <=> HealthyAt(health, b)
                             /\ health[b] # NoHealth => health'[b].backoff = health[b].backoff
  <2> SUFFICES ASSUME NEW b \in Addr
               PROVE  /\ health'[b] # NoHealth <=> health[b] # NoHealth
                      /\ HealthyAt(health', b) <=> HealthyAt(health, b)
                      /\ health[b] # NoHealth => health'[b].backoff = health[b].backoff
    OBVIOUS
  <2>1. health[a] \in Health
    BY <1>1, <1>5
  <2>2. CASE b = a
    <3>1. health'[b] = seen(health[a], s)
      BY <1>1, <1>5, <2>2
    <3> QED BY <1>3, <1>4, <1>5, <2>1, <2>2, <3>1 DEF HealthyAt
  <2>3. CASE b # a
    <3>1. health'[b] = health[b]
      BY <1>1, <1>5, <2>3
    <3> QED BY <3>1 DEF HealthyAt
  <2> QED BY <2>2, <2>3
<1>6. ASSUME parked[a] # NoHealth, parked' = [parked EXCEPT ![a] = seen(parked[a], s)]
      PROVE  \A b \in Addr : /\ parked'[b] # NoHealth <=> parked[b] # NoHealth
                             /\ parked[b] # NoHealth => parked'[b].backoff = parked[b].backoff
  <2>1. parked[a] \in Health
    BY <1>1, <1>6
  <2>2. parked'[a] = seen(parked[a], s) /\ \A b \in Addr \ {a} : parked'[b] = parked[b]
    BY <1>1, <1>6
  <2> QED BY <1>3, <1>4, <1>6, <2>1, <2>2
<1>7. CASE /\ health[a] # NoHealth /\ health' = [health EXCEPT ![a] = seen(health[a], s)]
           /\ ranking' = Published(health', order, candidates) /\ parked' = parked
  BY <1>5, <1>7 DEF Known
<1>8. CASE /\ parked[a] # NoHealth /\ parked' = [parked EXCEPT ![a] = seen(parked[a], s)]
           /\ health' = health /\ ranking' = ranking
  BY <1>6, <1>8 DEF Known
<1> QED BY <1>2, <1>7, <1>8

(* The same, of the invariant and of its next state. *)
LEMMA SettledMeans ==
  /\ SettledRanking <=> (pc = "sleep" => Agrees(health, ranking, candidates))
  /\ pool' = pool => (SettledRanking' <=> (pc' = "sleep" => Agrees(health', ranking', candidates')))
<1> DEFINE want(v, h, cands) ==
      {c.addr : c \in {d \in cands : Matches(v, d) /\ HealthyAt(h, d.addr)}}
           had(v, h, cands) == Ranked(h, {c \in cands : Matches(v, c)})
           same(h, published, cands) ==
             \A v \in View : /\ Range(published[v].ordered) = want(v, h, cands)
                             /\ IsInjective(published[v].ordered)
<1>1. \A v, h, cands : had(v, h, cands) = want(v, h, cands)
  BY DEF Ranked, AddrsOf
<1>2. SettledRanking <=> (pc = "sleep" => same(health, ranking, candidates))
  BY DEF SettledRanking
<1>3. ASSUME pool' = pool
      PROVE  SettledRanking' <=> (pc' = "sleep" => same(health', ranking', candidates'))
  <2>1. View' = View
    BY <1>3 DEF View
  <2> DEFINE wantNext(v) == want(v, health, candidates)'
  <2>2. \A v : wantNext(v) = want(v, health', candidates')
    BY <1>3 DEF Matches, HealthyAt
  <2>3. SettledRanking' <=>
          (pc' = "sleep" =>
             \A v \in View' : Range(ranking'[v].ordered) = wantNext(v) /\ IsInjective(ranking'[v].ordered))
    BY DEF SettledRanking
  <2> HIDE DEF wantNext, want
  <2> QED BY <2>1, <2>2, <2>3
<1>4. \A h, published, cands : Agrees(h, published, cands) <=>
        \A v \in View : /\ Range(published[v].ordered) = had(v, h, cands)
                        /\ IsInjective(published[v].ordered)
  BY DEF Agrees
<1> HIDE DEF want, had
<1>5. \A h, published, cands : Agrees(h, published, cands) <=> same(h, published, cands)
  BY <1>1, <1>4
<1> HIDE DEF same
<1> QED BY <1>2, <1>3, <1>5

LEMMA OrderStep ==
  ASSUME OrderInv, [Next]_vars
  PROVE  OrderInv'
<1>1. Shape /\ Settled /\ SettledRanking /\ Shape' /\ pool' = pool
  BY ShapeStep, NeverAnotherPool DEF OrderInv
<1>2. /\ pool \in Pools /\ health \in [Addr -> Health \cup {NoHealth}] /\ order \in Seq(Addr)
      /\ IsInjective(order) /\ candidates \in SUBSET Candidate
  BY <1>1 DEF Shape, TypeOK
<1>3. health' \in [Addr -> Health \cup {NoHealth}] /\ order' \in Seq(Addr) /\ IsInjective(order')
  <2>1. Addr' = Addr /\ Health' = Health
    BY <1>1, SamePool
  <2> QED BY <1>1, <2>1 DEF Shape, TypeOK
<1>4. ASSUME pc' = "sleep" => Range(order') = Ranked(health', candidates')
                              /\ Agrees(health', ranking', candidates')
      PROVE  OrderInv'
  <2>1. Settled'
    BY <1>4 DEF Settled, Ranked, HealthyAt
  <2>2. SettledRanking'
    BY <1>1, <1>4, SettledMeans
  <2> QED BY <1>1, <2>1, <2>2 DEF OrderInv
<1>5. pc = "sleep" => Range(order) = Ranked(health, candidates) /\ Agrees(health, ranking, candidates)
  BY <1>1, SettledMeans DEF Settled
<1>6. CASE Settle
  <2>1. /\ order' = Reordered(order, health', candidates) /\ candidates' = candidates
        /\ ranking' = Published(health', order', candidates)
    BY <1>6 DEF Settle
  <2>2. Range(order') = Ranked(health', candidates)
    BY <1>1, <1>2, <1>3, <2>1, RecomputedShape
  <2>3. Agrees(health', Published(health', order', candidates), candidates)
    BY <1>1, <1>2, <1>3, <2>2, PublishedAgrees
  <2> QED BY <1>4, <2>1, <2>2, <2>3
<1>7. ASSUME NEW a \in Addr, Observe(a) PROVE OrderInv'
  <2>1. order' = order /\ candidates' = candidates /\ pc' = pc
    BY <1>7 DEF Observe, work
  <2>2. /\ \/ ranking' = Published(health', order, candidates)
           \/ health' = health /\ ranking' = ranking
        /\ \A b \in Addr : HealthyAt(health', b) <=> HealthyAt(health, b)
    BY <1>1, <1>7, ObserveFacts
  <2>3. Ranked(health', candidates) = Ranked(health, candidates)
    BY <1>2, <2>2, SameRanked
  <2>4. ASSUME pc = "sleep" PROVE Agrees(health', ranking', candidates)
    <3>1. Range(order) = Ranked(health', candidates)
      BY <1>5, <2>3, <2>4
    <3>2. Agrees(health', Published(health', order, candidates), candidates)
      BY <1>1, <1>2, <1>3, <3>1, PublishedAgrees
    <3> QED BY <1>5, <2>2, <2>4, <3>2
  <2> QED BY <1>4, <1>5, <2>1, <2>3, <2>4
<1>8. ASSUME NEW v \in View, Pick(v) PROVE OrderInv'
  <2>1. order' = order /\ candidates' = candidates /\ pc' = pc /\ health' = health
    BY <1>8 DEF Pick, work
  <2>2. \A w \in View : ranking'[w].ordered = ranking[w].ordered
    <3>1. ranking \in [View -> ViewRanking]
      BY <1>1 DEF Shape, TypeOK
    <3>2. PICK i \in DOMAIN ranking[v].ordered : ranking' = [ranking EXCEPT ![v].incumbent = i]
      BY <1>8 DEF Pick
    <3> QED BY <3>1, <3>2 DEF ViewRanking
  <2> QED BY <1>4, <1>5, <2>1, <2>2 DEF Agrees
<1>9. CASE UNCHANGED vars
  <2>1. order' = order /\ candidates' = candidates /\ pc' = pc /\ health' = health /\ ranking' = ranking
    BY <1>9 DEF vars, work
  <2> QED BY <1>4, <1>5, <2>1
<1>10. ASSUME NEW t \in Domain, Resolve(t) PROVE OrderInv'
  BY <1>4, <1>10 DEF Resolve
<1>11. ASSUME NEW due \in SUBSET Addr, Build(due) PROVE OrderInv'
  BY <1>4, <1>11 DEF Build
<1>12. ASSUME NEW a \in Addr, Answered(a) \/ Refused(a) PROVE OrderInv'
  BY <1>4, <1>12 DEF Answered, Refused
<1>13. CASE Wake
  BY <1>4, <1>13 DEF Wake
<1> QED BY <1>6, <1>7, <1>8, <1>9, <1>10, <1>11, <1>12, <1>13 DEF Next, Worker

(* Between two cycles connections read exactly what is healthy, each once  *)
(* (publish after resample_dead and recompute_order), whatever the pool,   *)
(* and whatever was measured since.  It needs that the order holds what is *)
(* ranked: a measurement publishes again over the order there is.          *)
THEOREM RankingsSettle == Spec => []SettledRanking
<1>1. Init => OrderInv
  BY ShapeInit DEF Init, OrderInv, Settled, SettledRanking
<1>2. OrderInv /\ [Next]_vars => OrderInv'
  BY OrderStep
<1>3. OrderInv => SettledRanking
  BY DEF OrderInv
<1> QED BY <1>1, <1>2, <1>3, PTL DEF Spec

-----------------------------------------------------------------------------
(* What a step may do to the order and to the rankings. *)

LEMMA OrderChanges ==
  ASSUME Shape, [Next]_vars, order' # order
  PROVE  /\ health' \in [Addr -> Health \cup {NoHealth}]
         /\ \E cands \in SUBSET Candidate : order' = Reordered(order, health', cands)
<1>1. Shape' /\ Addr' = Addr /\ Health' = Health /\ Candidate' = Candidate
  BY ShapeStep, NeverAnotherPool, SamePool
<1>2. /\ health' \in [Addr -> Health \cup {NoHealth}]
      /\ candidates \in SUBSET Candidate /\ candidates' \in SUBSET Candidate
  BY <1>1 DEF Shape, TypeOK
<1>3. Settle \/ \E due \in SUBSET Addr : Build(due)
  BY DEF Next, Worker, Resolve, Answered, Refused, Wake, Observe, Pick, vars
<1>4. order' = Reordered(order, health', candidates) \/ order' = Reordered(order, health', candidates')
  BY <1>3 DEF Settle, Build
<1> QED BY <1>2, <1>4

(* No pair trades places on noise ("The margin is applied pairwise, so no  *)
(* pair reorders on noise", reorder_with_hysteresis), however many are     *)
(* ranked and whatever left or came in between.                            *)
THEOREM NoSwaps == Spec => NoSwapOnNoise
<1>1. Shape /\ [Next]_vars =>
        [\A a, b \in Range(order) \cup Range(order') :
           /\ a \in Range(order) /\ Ahead(order', b, a) /\ ~Ahead(order, b, a)
           => Beats(health'[b].score, health'[a].score)]_vars
  <2> SUFFICES ASSUME Shape, [Next]_vars,
                      NEW a, NEW b, a \in Range(order), Ahead(order', b, a), ~Ahead(order, b, a)
               PROVE  Beats(health'[b].score, health'[a].score)
    OBVIOUS
  <2>1. order' # order
    OBVIOUS
  <2>2. health' \in [Addr -> Health \cup {NoHealth}]
    BY <2>1, OrderChanges
  <2>3. PICK cands \in SUBSET Candidate : order' = Reordered(order, health', cands)
    BY <2>1, OrderChanges
  <2>4. pool \in Pools /\ order \in Seq(Addr) /\ IsInjective(order) /\ IsFiniteSet(Addr)
    BY PoolFacts DEF Shape, TypeOK
  <2>5. Ranked(health', cands) \subseteq Addr /\ \A x \in Ranked(health', cands) : health'[x].score \in Nat
    BY <2>2, <2>4, RankedFacts
  <2>6. /\ Range(order') = Ranked(health', cands)
        /\ \A x \in Range(order) \cap Ranked(health', cands) : \A y :
              Ahead(order', y, x) => Ahead(order, y, x) \/ Beats(health'[y].score, health'[x].score)
    BY <2>3, <2>4, <2>5, ReorderedFacts
  <2>7. a \in Range(order')
    BY DEF Ahead, Range
  <2> QED BY <2>6, <2>7
<1> QED BY <1>1, AlwaysShape, PTL DEF Spec, NoSwapOnNoise

(* Two orders of the same entries that put nothing ahead of one another    *)
(* differently are the same order.                                         *)
LEMMA SameOrder ==
  ASSUME NEW A, NEW s \in Seq(A), NEW t \in Seq(A), IsInjective(s), IsInjective(t),
         Range(s) = Range(t), \A a, b : Ahead(t, a, b) => Ahead(s, a, b)
  PROVE  t = s
<1>1. /\ DOMAIN s = 1 .. Len(s) /\ Len(s) \in Nat /\ DOMAIN t = 1 .. Len(t) /\ Len(t) \in Nat
  BY LenProperties
<1> DEFINE off == {i \in Nat \ {0} : \/ i \in DOMAIN s /\ i \notin DOMAIN t
                                     \/ i \in DOMAIN t /\ i \notin DOMAIN s
                                     \/ i \in DOMAIN s /\ i \in DOMAIN t /\ s[i] # t[i]}
<1>2. ASSUME off # {} PROVE FALSE
  <2>1. PICK i \in off : \A k \in off : i <= k
    <3> off \subseteq Nat
      OBVIOUS
    <3> HIDE DEF off
    <3> QED BY <1>2, LeastOf
  <2>2. \A k \in 1 .. i - 1 : k \in DOMAIN s => k \in DOMAIN t /\ s[k] = t[k]
    BY <1>1, <2>1
  <2>3. \A k \in 1 .. i - 1 : k \in DOMAIN t => k \in DOMAIN s /\ s[k] = t[k]
    BY <1>1, <2>1
  <2>4. ASSUME i \in DOMAIN t PROVE i \in DOMAIN s
    <3>1. PICK k \in DOMAIN s : s[k] = t[i]
      BY <2>4 DEF Range
    <3>2. ~(k < i)
      BY <1>1, <2>2, <2>4, <3>1 DEF IsInjective
    <3> QED BY <1>1, <2>4, <3>2
  <2>5. ASSUME i \in DOMAIN s PROVE i \in DOMAIN t
    <3>1. PICK k \in DOMAIN t : t[k] = s[i]
      BY <2>5 DEF Range
    <3>2. ~(k < i)
      BY <1>1, <2>3, <2>5, <3>1 DEF IsInjective
    <3> QED BY <1>1, <2>5, <3>2
  <2>6. i \in DOMAIN s /\ i \in DOMAIN t /\ s[i] # t[i]
    BY <2>1, <2>4, <2>5
  <2>7. PICK j \in DOMAIN t : t[j] = s[i]
    BY <2>6 DEF Range
  <2>8. i < j
    <3>1. ~(j < i)
      BY <1>1, <2>3, <2>6, <2>7 DEF IsInjective
    <3> QED BY <1>1, <2>6, <2>7, <3>1
  <2>9. Ahead(s, t[i], s[i])
    <3>1. Ahead(t, t[i], t[j])
      BY <2>6, <2>8 DEF Ahead
    <3> QED BY <2>7, <3>1
  <2>10. PICK k, l \in DOMAIN s : k < l /\ s[k] = t[i] /\ s[l] = s[i]
    BY <2>9 DEF Ahead
  <2>11. l = i
    BY <2>6, <2>10 DEF IsInjective
  <2>12. k \in DOMAIN t /\ t[k] = t[i] /\ k # i
    BY <1>1, <2>2, <2>6, <2>10, <2>11
  <2> QED BY <2>6, <2>12 DEF IsInjective
<1>3. \A i \in Nat \ {0} : /\ i \in DOMAIN s <=> i \in DOMAIN t
                           /\ i \in DOMAIN s => s[i] = t[i]
  BY <1>2
<1>4. DOMAIN s \subseteq Nat \ {0} /\ DOMAIN t \subseteq Nat \ {0}
  BY <1>1
<1>5. DOMAIN s = DOMAIN t
  BY ONLY <1>3, <1>4
<1>6. Len(s) = Len(t)
  <2> DEFINE L == Len(s)
             M == Len(t)
  <2>1. L \in Nat /\ M \in Nat /\ 1 .. L = 1 .. M
    BY <1>1, <1>5
  <2> HIDE DEF L, M
  <2>2. ~(L < M) /\ ~(M < L)
    BY <2>1
  <2>3. L = M
    BY <2>1, <2>2
  <2> QED BY <2>3 DEF L, M
<1>7. \A i \in 1 .. Len(s) : s[i] = t[i]
  BY <1>1, <1>3
<1> QED BY <1>6, <1>7, SeqEqual

(* While the same addresses are ranked and none beats another by the       *)
(* margin, the order stays as it is.                                       *)
QuietOrderStays ==
  [][Range(order') = Range(order)
     /\ (\A a, b \in Range(order) : ~Beats(health'[b].score, health'[a].score))
     => order' = order]_vars

(* What the margin is for: noise moves no traffic between edges ("Starting *)
(* from the previous order rather than sorting afresh is what gives        *)
(* stability", reorder_with_hysteresis), for orders of any length.         *)
THEOREM QuietOrderRests == Spec => QuietOrderStays
<1>1. Shape /\ [Next]_vars =>
        [Range(order') = Range(order)
         /\ (\A a, b \in Range(order) : ~Beats(health'[b].score, health'[a].score))
         => order' = order]_vars
  <2> SUFFICES ASSUME Shape, [Next]_vars, Range(order') = Range(order),
                      \A a, b \in Range(order) : ~Beats(health'[b].score, health'[a].score),
                      order' # order
               PROVE  FALSE
    OBVIOUS
  <2>1. PICK cands \in SUBSET Candidate : order' = Reordered(order, health', cands)
    BY OrderChanges
  <2>2. /\ pool \in Pools /\ order \in Seq(Addr) /\ IsInjective(order) /\ IsFiniteSet(Addr)
        /\ health' \in [Addr -> Health \cup {NoHealth}]
    BY OrderChanges, PoolFacts DEF Shape, TypeOK
  <2>3. Ranked(health', cands) \subseteq Addr /\ \A x \in Ranked(health', cands) : health'[x].score \in Nat
    BY <2>2, RankedFacts
  <2>4. /\ order' \in Seq(Addr) /\ IsInjective(order') /\ Range(order') = Ranked(health', cands)
        /\ \A x \in Range(order) \cap Ranked(health', cands) : \A y :
              Ahead(order', y, x) => Ahead(order, y, x) \/ Beats(health'[y].score, health'[x].score)
    BY <2>1, <2>2, <2>3, ReorderedFacts
  <2>5. \A a, b : Ahead(order', b, a) => a \in Range(order') /\ b \in Range(order')
    BY DEF Ahead, Range
  <2>6. \A a, b : Ahead(order', b, a) => Ahead(order, b, a)
    BY <2>4, <2>5
  <2> QED BY <2>2, <2>4, <2>6, SameOrder
<1> QED BY <1>1, AlwaysShape, PTL DEF Spec, QuietOrderStays

LEMMA RankingChanges ==
  ASSUME Shape, [Next]_vars
  PROVE  \/ \A v \in View : ranking'[v].ordered = ranking[v].ordered
         \/ \E h \in [Addr -> Health \cup {NoHealth}], ord \in Seq(Addr), cands \in SUBSET Candidate :
               ranking' = Published(h, ord, cands)
<1>1. Shape' /\ Addr' = Addr /\ Health' = Health /\ Candidate' = Candidate
  BY ShapeStep, NeverAnotherPool, SamePool
<1>2. /\ health' \in [Addr -> Health \cup {NoHealth}]
      /\ order \in Seq(Addr) /\ order' \in Seq(Addr)
      /\ candidates \in SUBSET Candidate /\ candidates' \in SUBSET Candidate
      /\ ranking \in [View -> ViewRanking]
  BY <1>1 DEF Shape, TypeOK
<1>3. CASE Settle \/ \E due \in SUBSET Addr : Build(due)
  <2>1. \/ ranking' = Published(health', order', candidates)
        \/ ranking' = Published(health', order', candidates')
    BY <1>3 DEF Settle, Build
  <2> QED BY <1>2, <2>1
<1>4. ASSUME NEW a \in Addr, Observe(a) PROVE ranking' = Published(health', order, candidates) \/ ranking' = ranking
  BY <1>4 DEF Observe
<1>5. ASSUME NEW v \in View, Pick(v) PROVE \A w \in View : ranking'[w].ordered = ranking[w].ordered
  <2>1. PICK i \in DOMAIN ranking[v].ordered : ranking' = [ranking EXCEPT ![v].incumbent = i]
    BY <1>5 DEF Pick
  <2> QED BY <1>2, <2>1 DEF ViewRanking
<1>6. CASE ~(Settle \/ (\E due \in SUBSET Addr : Build(due)) \/ (\E a \in Addr : Observe(a))
             \/ (\E v \in View : Pick(v)))
  BY <1>6 DEF Next, Worker, Resolve, Answered, Refused, Wake, vars
<1> QED BY <1>2, <1>3, <1>4, <1>5, <1>6

(* Connections stay on the address they settled on as long as it is ranked *)
(* (publish finds the incumbent again by its address, never by its place), *)
(* for any pool and whatever is published.                                 *)
THEOREM IncumbentsKept == Spec => IncumbentKept
<1>1. Shape /\ [Next]_vars =>
        [\A v \in View :
           LET r == ranking[v]
               next == ranking'[v] IN
           /\ next.ordered # r.ordered
           /\ r.incumbent \in DOMAIN r.ordered /\ r.ordered[r.incumbent] \in Range(next.ordered)
           => next.ordered[next.incumbent] = r.ordered[r.incumbent]]_vars
  <2> SUFFICES ASSUME Shape, [Next]_vars, NEW v \in View,
                      ranking'[v].ordered # ranking[v].ordered,
                      ranking[v].incumbent \in DOMAIN ranking[v].ordered,
                      ranking[v].ordered[ranking[v].incumbent] \in Range(ranking'[v].ordered)
               PROVE  ranking'[v].ordered[ranking'[v].incumbent] = ranking[v].ordered[ranking[v].incumbent]
    OBVIOUS
  <2>1. PICK h \in [Addr -> Health \cup {NoHealth}], ord \in Seq(Addr), cands \in SUBSET Candidate :
          ranking' = Published(h, ord, cands)
    BY RankingChanges
  <2>2. pool \in Pools /\ ranking \in [View -> ViewRanking]
    BY DEF Shape, TypeOK
  <2>3. LET r == ranking[v]
            next == Published(h, ord, cands)[v] IN
        r.incumbent \in DOMAIN r.ordered /\ r.ordered[r.incumbent] \in Range(next.ordered)
        => next.ordered[next.incumbent] = r.ordered[r.incumbent]
    BY <2>2, PublishedFacts
  <2> QED BY <2>1, <2>3
<1> QED BY <1>1, AlwaysShape, PTL DEF Spec, IncumbentKept

-----------------------------------------------------------------------------
(* What the worker keeps is bounded. *)

(* What leaves a set takes with it at least as much as is put in its place. *)
LEMMA Replaced ==
  ASSUME NEW A, IsFiniteSet(A), NEW D \in SUBSET A, NEW f, DOMAIN f = D,
         NEW B, B \subseteq (A \ D) \cup {f[d] : d \in D}
  PROVE  IsFiniteSet(B) /\ Cardinality(B) <= Cardinality(A)
<1> DEFINE N == {f[d] : d \in D}
           rest == A \ D
           g == [d \in D |-> f[d]]
<1>1. IsFiniteSet(D) /\ IsFiniteSet(rest) /\ Cardinality(rest) = Cardinality(A) - Cardinality(D)
  <2>1. A \cap D = D
    OBVIOUS
  <2>2. IsFiniteSet(A \ D) /\ Cardinality(A \ D) = Cardinality(A) - Cardinality(A \cap D)
    BY FS_Difference
  <2> QED BY <2>1, <2>2, FS_Subset
<1>2. IsFiniteSet(N) /\ Cardinality(N) <= Cardinality(D)
  <2>1. g \in Surjection(D, N)
    BY DEF Surjection
  <2> HIDE DEF g, N
  <2> QED BY <1>1, <2>1, FS_Surjection
<1> HIDE DEF N, rest
<1>3. /\ IsFiniteSet(rest \cup N)
      /\ Cardinality(rest \cup N) = Cardinality(rest) + Cardinality(N) - Cardinality(rest \cap N)
  BY <1>1, <1>2, FS_Union
<1>4. IsFiniteSet(rest \cap N)
  BY <1>1, FS_Subset
<1>5. Cardinality(B) <= Cardinality(rest \cup N) /\ IsFiniteSet(B)
  <2>1. B \in SUBSET (rest \cup N)
    BY DEF rest, N
  <2> QED BY <1>3, <2>1, FS_Subset
<1>6. /\ Cardinality(A) \in Nat /\ Cardinality(B) \in Nat /\ Cardinality(D) \in Nat
      /\ Cardinality(rest) \in Nat /\ Cardinality(N) \in Nat /\ Cardinality(rest \cap N) \in Nat
      /\ Cardinality(rest \cup N) \in Nat
  BY <1>1, <1>2, <1>3, <1>4, <1>5, FS_CardinalityType
<1> QED BY <1>1, <1>2, <1>3, <1>5, <1>6

(* A target that NAT64 does not project has one candidate per address. *)
LEMMA OwnCandidates ==
  ASSUME NEW c \in Expanded, c.target \notin pool.projected
  PROVE  /\ c.addr \in AddrsFrom(c.target)
         /\ c = [addr |-> c.addr, target |-> c.target,
                 kind |-> IF c.addr \in V4 THEN "ipv4" ELSE "ipv6"]
<1>1. c \in Candidate /\ c.addr \in AddrsFrom(c.target) /\ c.kind = IF c.addr \in V4 THEN "ipv4" ELSE "ipv6"
  BY DEF Expanded
<1> QED BY <1>1 DEF Candidate

LEMMA DelayFacts ==
  ASSUME pool \in Pools
  PROVE  /\ Longest \in Nat /\ Fresh.backoff <= Longest
         /\ \A x \in Health : x.backoff <= Longest => Failed(x).backoff <= Longest
<1>1. pool.base \in Nat /\ pool.interval \in Nat
  BY PoolFacts
<1>2. Longest \in Nat /\ pool.base <= Longest /\ pool.interval <= Longest
  BY <1>1, MaxOfTwo DEF Longest
<1>3. ASSUME NEW x \in Health, x.backoff <= Longest PROVE Failed(x).backoff <= Longest
  <2>1. x.backoff \in Nat /\ 2 * x.backoff \in Nat
    BY DEF Health
  <2>2. Min({2 * x.backoff, pool.interval}) \in Nat /\ Min({2 * x.backoff, pool.interval}) <= pool.interval
    BY <1>1, <2>1, MinOfTwo
  <2>3. Failed(x).backoff \in {Min({2 * x.backoff, pool.interval}), pool.base, x.backoff}
    <3> DEFINE fails == IF x.fails < pool.threshold THEN x.fails + 1 ELSE x.fails
    <3>1. Failed(x).backoff = IF x.degraded THEN Min({2 * x.backoff, pool.interval})
                              ELSE IF fails >= pool.threshold THEN pool.base ELSE x.backoff
      BY DEF Failed, Health
    <3> HIDE DEF fails
    <3> QED BY <3>1
  <2> QED BY <1>1, <1>2, <1>3, <2>1, <2>2, <2>3
<1>4. Fresh.backoff = pool.base
  BY DEF Fresh
<1> QED BY <1>2, <1>3, <1>4

Samples ==
  \A t \in Cidr \ pool.projected : Sample[t] # NoSample => Cardinality(AddrsFrom(t)) <= Sample[t]
LiveDelays(h) == \A a \in Addr : h[a] # NoHealth => h[a].backoff <= Longest

LEMMA SampleInit == Init => Samples
<1> SUFFICES ASSUME Init, NEW t \in Cidr \ pool.projected, Sample[t] # NoSample
             PROVE  Cardinality(AddrsFrom(t)) <= Sample[t]
  BY DEF Samples
<1>1. /\ pool \in Pools /\ resampled = {} /\ replacements = [u \in Cidr |-> {}]
      /\ Cardinality(sampled[t]) \in 1 .. Sample[t]
  BY DEF Init
<1>2. Sample[t] \in Nat
  BY <1>1, PoolFacts
<1>3. CASE t \in Literal
  <2>1. Cardinality({Ip[t]}) = 1
    BY FS_Singleton
  <2>2. AddrsFrom(t) = {Ip[t]}
    BY <1>3 DEF AddrsFrom
  <2> QED BY <1>1, <1>2, <2>1, <2>2
<1>4. CASE t \notin Literal
  <2>1. AddrsFrom(t) = sampled[t]
    BY <1>1, <1>4 DEF AddrsFrom
  <2> QED BY <1>1, <1>2, <2>1
<1> QED BY <1>3, <1>4

(* The dead make room for what replaces them. *)
LEMMA SampleStep ==
  ASSUME Shape, Samples, [Next]_vars
  PROVE  Samples'
<1>1. /\ pool' = pool /\ Cidr' = Cidr /\ Sample' = Sample /\ Literal' = Literal /\ Ip' = Ip
  BY NeverAnotherPool, SamePool
<1>2. CASE UNCHANGED draws
  BY <1>1, <1>2, SameDraws DEF Samples
<1>3. CASE Settle
  <2> SUFFICES ASSUME NEW t \in Cidr \ pool.projected, Sample[t] # NoSample
               PROVE  Cardinality(AddrsFrom(t)') <= Sample[t]
    BY <1>1 DEF Samples
  <2>1. CASE t \in Literal
    <3>1. AddrsFrom(t)' = AddrsFrom(t)
      BY <1>1, <2>1 DEF AddrsFrom
    <3> QED BY <3>1 DEF Samples
  <2>2. CASE t \notin Literal
    <3>1. pool \in Pools /\ t \notin pool.projected /\ pc = "probe" /\ candidates = Expanded
      BY <1>3 DEF Shape, TypeOK, Working, Settle
    <3>2. PICK plan :
            /\ DOMAIN plan \subseteq Dead
            /\ replacements' = [u \in Cidr |-> ReplacedIn(u, plan)]
            /\ resampled' = resampled \cup AddrsOf(DOMAIN plan)
      BY <1>3, SettleFacts
    <3> DEFINE mine == {c \in DOMAIN plan : c.target = t}
               own(d) == [addr |-> d, target |-> t, kind |-> IF d \in V4 THEN "ipv4" ELSE "ipv6"]
               A == AddrsFrom(t)
               D == AddrsOf(mine)
               f == [d \in D |-> plan[own(d)]]
    <3>3. A = (sampled[t] \ resampled) \cup replacements[t]
      BY <2>2 DEF AddrsFrom
    <3>4. AddrsFrom(t)' = (sampled[t] \ resampled') \cup ReplacedIn(t, plan)
      <4>1. sampled' = sampled /\ replacements'[t] = ReplacedIn(t, plan)
        BY <1>3, <3>2 DEF Settle
      <4> QED BY <1>1, <2>2, <4>1 DEF AddrsFrom
    <3>5. \A c \in mine : c.addr \in A /\ c = own(c.addr)
      <4> SUFFICES ASSUME NEW c \in mine PROVE c.addr \in A /\ c = own(c.addr)
        OBVIOUS
      <4>1. c \in Expanded /\ c.target = t
        BY <3>1, <3>2 DEF Dead
      <4> QED BY <3>1, <4>1, OwnCandidates
    <3>6. D \subseteq A /\ D \subseteq AddrsOf(DOMAIN plan)
      BY <3>5 DEF AddrsOf
    <3>7. {plan[c] : c \in mine} \subseteq {f[d] : d \in D}
      <4>1. ASSUME NEW c \in mine PROVE c.addr \in D /\ plan[c] = f[c.addr]
        <5>1. c.addr \in D
          BY DEF AddrsOf
        <5> QED BY <3>5, <5>1
      <4> HIDE DEF mine, D, f
      <4> QED BY <4>1
    <3>8. ReplacedIn(t, plan) = (replacements[t] \ D) \cup {plan[c] : c \in mine}
      BY DEF ReplacedIn
    <3> DEFINE B == AddrsFrom(t)'
               came == {f[d] : d \in D}
    <3>9. DOMAIN f = D
      OBVIOUS
    <3>10. IsFiniteSet(A)
      <4>1. sampled[t] \subseteq Native /\ replacements[t] \subseteq Native
        BY DEF Shape, TypeOK
      <4>2. IsFiniteSet(Addr) /\ Native \subseteq Addr
        BY <3>1, PoolFacts
      <4> QED BY <3>3, <4>1, <4>2, FS_Subset
    <3> HIDE DEF mine, A, D, f, B
    <3>11. B \subseteq (A \ D) \cup came
      <4>1. B = (sampled[t] \ resampled') \cup ReplacedIn(t, plan)
        BY <3>4 DEF B
      <4> HIDE DEF came
      <4> QED BY <3>2, <3>3, <3>6, <3>7, <3>8, <4>1 DEF came
    <3>12. IsFiniteSet(B) /\ Cardinality(B) <= Cardinality(A)
      BY <3>6, <3>9, <3>10, <3>11, Replaced
    <3>13. Cardinality(A) <= Sample[t]
      BY DEF Samples, A
    <3>14. Cardinality(A) \in Nat /\ Cardinality(B) \in Nat /\ Sample[t] \in Nat
      BY <3>1, <3>10, <3>12, PoolFacts, FS_CardinalityType
    <3> QED BY <3>12, <3>13, <3>14 DEF B
  <2> QED BY <2>1, <2>2
<1>4. \/ UNCHANGED draws \/ Settle
  BY DEF Next, Worker, Resolve, Build, Answered, Refused, Wake, Observe, Pick, vars
<1> QED BY <1>2, <1>3, <1>4

(* A delay that is remembered comes back with its address. *)
LEMMA DelayStep ==
  ASSUME Shape, LiveDelays(health), LiveDelays(parked), Cardinality(Known(parked)) <= MaxParked,
         [Next]_vars
  PROVE  /\ LiveDelays(health') /\ LiveDelays(parked')
         /\ Cardinality(Known(parked')) <= MaxParked
<1>1. /\ pool \in Pools /\ health \in [Addr -> Health \cup {NoHealth}]
      /\ parked \in [Addr -> Health \cup {NoHealth}]
  BY DEF Shape, TypeOK
<1>2. /\ Longest \in Nat /\ Fresh.backoff <= Longest
      /\ \A x \in Health : x.backoff <= Longest => Failed(x).backoff <= Longest
  BY <1>1, DelayFacts
<1>3. \A a \in Addr : /\ health[a] # NoHealth => health[a].backoff <= Longest
                      /\ parked[a] # NoHealth => parked[a].backoff <= Longest
  BY DEF LiveDelays
<1>4. ASSUME NEW due \in SUBSET Addr, Build(due)
      PROVE  /\ LiveDelays(health') /\ LiveDelays(parked')
             /\ Cardinality(Known(parked')) <= MaxParked
  <2>1. /\ Cardinality(Known(parked')) <= MaxParked
        /\ \A a \in Addr : /\ health'[a] \in {NoHealth, Fresh, health[a], parked[a]}
                           /\ parked'[a] \in {NoHealth, health[a], parked[a]}
    BY <1>4, BuildFacts
  <2> QED BY <1>2, <1>3, <2>1 DEF LiveDelays
(* One entry changes, and what is remembered does not. *)
<1>5. ASSUME NEW a \in Addr, NEW x, x.backoff <= Longest, health' = [health EXCEPT ![a] = x],
             parked' = parked
      PROVE  /\ LiveDelays(health') /\ LiveDelays(parked')
             /\ Cardinality(Known(parked')) <= MaxParked
  <2>1. \A b \in Addr : health'[b] = IF b = a THEN x ELSE health[b]
    BY <1>1, <1>5
  <2>2. LiveDelays(health')
    BY <1>3, <1>5, <2>1 DEF LiveDelays
  <2> QED BY <1>5, <2>2
<1>6. ASSUME NEW a \in Addr, Answered(a)
      PROVE  /\ LiveDelays(health') /\ LiveDelays(parked')
             /\ Cardinality(Known(parked')) <= MaxParked
  <2>1. parked' = parked
    BY <1>6 DEF Answered
  <2>2. PICK s \in Score : health' = [health EXCEPT ![a] = [Fresh EXCEPT !.score = s]]
    BY <1>6 DEF Answered
  <2>3. [Fresh EXCEPT !.score = s].backoff <= Longest
    BY <1>2 DEF Fresh
  <2> QED BY <1>5, <2>1, <2>2, <2>3
<1>7. ASSUME NEW a \in Addr, Refused(a)
      PROVE  /\ LiveDelays(health') /\ LiveDelays(parked')
             /\ Cardinality(Known(parked')) <= MaxParked
  <2>1. parked' = parked /\ health' = [health EXCEPT ![a] = Failed(health[a])] /\ pc = "probe" /\ a \in todo
    BY <1>7 DEF Refused
  <2>2. health[a] # NoHealth
    BY <2>1 DEF Shape, Working, Known
  <2>3. Failed(health[a]).backoff <= Longest
    BY <1>1, <1>2, <1>3, <2>2
  <2> QED BY <1>5, <2>1, <2>3
<1>8. ASSUME Settle
      PROVE  /\ LiveDelays(health') /\ LiveDelays(parked')
             /\ Cardinality(Known(parked')) <= MaxParked
  <2>1. parked' = parked
    BY <1>8 DEF Settle
  <2>2. \A a \in Addr : health'[a] # NoHealth => health'[a] = health[a]
    BY <1>8, SettleFacts
  <2> QED BY <1>3, <2>1, <2>2 DEF LiveDelays
<1>9. ASSUME NEW a \in Addr, Observe(a)
      PROVE  /\ LiveDelays(health') /\ LiveDelays(parked')
             /\ Cardinality(Known(parked')) <= MaxParked
  <2>1. /\ \A b \in Addr : health[b] # NoHealth => health'[b].backoff = health[b].backoff
        /\ \A b \in Addr : parked[b] # NoHealth => parked'[b].backoff = parked[b].backoff
        /\ Known(health') = Known(health) /\ Known(parked') = Known(parked)
    BY <1>9, ObserveFacts
  <2>2. \A b \in Addr : /\ health'[b] # NoHealth <=> health[b] # NoHealth
                        /\ parked'[b] # NoHealth <=> parked[b] # NoHealth
    BY <2>1 DEF Known
  <2> QED BY <1>3, <2>1, <2>2 DEF LiveDelays
<1>10. CASE UNCHANGED <<health, parked>>
  BY <1>10
<1>11. \/ UNCHANGED <<health, parked>> \/ Settle
       \/ (\E due \in SUBSET Addr : Build(due)) \/ (\E a \in Addr : Answered(a) \/ Refused(a) \/ Observe(a))
  BY DEF Next, Worker, Resolve, Wake, Pick, vars
<1> QED BY <1>4, <1>6, <1>7, <1>8, <1>9, <1>10, <1>11

LEMMA BoundMeans ==
  /\ BoundInv <=> /\ Shape /\ Samples /\ LiveDelays(health) /\ LiveDelays(parked)
                  /\ Cardinality(Known(parked)) <= MaxParked
  /\ pool' = pool =>
       (BoundInv' <=> /\ Shape' /\ Samples' /\ LiveDelays(health') /\ LiveDelays(parked')
                      /\ Cardinality(Known(parked')) <= MaxParked)
<1>1. MemoryBounded <=> /\ Samples /\ Cardinality(Known(parked)) <= MaxParked /\ LiveDelays(health)
  BY DEF MemoryBounded, Samples, LiveDelays, Known, Longest
<1>2. ParkedDelays <=> LiveDelays(parked)
  BY DEF ParkedDelays, LiveDelays, Known
<1>3. ASSUME pool' = pool
      PROVE  /\ MemoryBounded' <=> /\ Samples' /\ Cardinality(Known(parked')) <= MaxParked
                                   /\ LiveDelays(health')
             /\ ParkedDelays' <=> LiveDelays(parked')
  <2>1. /\ Addr' = Addr /\ Longest' = Longest
        /\ Known(health)' = Known(health') /\ Known(parked)' = Known(parked')
    BY <1>3, SamePool DEF Known
  <2>2. Longest' = Max({pool'.base, pool'.interval})
    BY DEF Longest
  <2>3. MemoryBounded' <=>
          /\ Samples' /\ Cardinality(Known(parked)') <= MaxParked
          /\ \A a \in Known(health)' : health'[a].backoff <= Longest'
    BY <2>2 DEF MemoryBounded, Samples
  <2>4. ParkedDelays' <=> \A a \in Known(parked)' : parked'[a].backoff <= Longest'
    BY DEF ParkedDelays
  <2> QED BY <2>1, <2>3, <2>4 DEF LiveDelays, Known
<1> QED BY <1>1, <1>2, <1>3 DEF BoundInv

(* However long the worker runs, for any pools, what is drawn of a network *)
(* that NAT64 does not project ("Rotate one active CIDR replacement in     *)
(* place rather than keeping a history", replace_recorded_sample), what is *)
(* remembered of departed candidates (prune_history) and the delays        *)
(* (record_failure) stay within their limits.                              *)
THEOREM MemoryStaysBounded == Spec => []MemoryBounded
<1>1. Init => BoundInv
  <2> SUFFICES ASSUME Init PROVE BoundInv
    OBVIOUS
  <2>1. health = [a \in Addr |-> NoHealth] /\ parked = [a \in Addr |-> NoHealth]
    BY DEF Init
  <2>2. LiveDelays(health) /\ LiveDelays(parked)
    BY <2>1 DEF LiveDelays
  <2>3. Cardinality(Known(parked)) <= MaxParked
    <3>1. Known(parked) = {}
      BY <2>1 DEF Known
    <3> QED BY <3>1, FS_EmptySet, PoolAssumption
  <2> QED BY <2>2, <2>3, ShapeInit, SampleInit, BoundMeans
<1>2. BoundInv /\ [Next]_vars => BoundInv'
  BY ShapeStep, SampleStep, DelayStep, NeverAnotherPool, BoundMeans
<1>3. BoundInv => MemoryBounded
  BY DEF BoundInv
<1> QED BY <1>1, <1>2, <1>3, PTL DEF Spec
=============================================================================
