------------------------ MODULE NamedResolverProofs ------------------------
(***************************************************************************)
(* Rebuilds of named resolvers, for every table of resolvers, any number   *)
(* of lookups and rotations, and every order of the steps of swap: an      *)
(* attempt runs on an instance no older than the generation it recorded,   *)
(* and a rebuild after a rejection replaces the rejected instance.         *)
(*                                                                         *)
(* The invariant: only the innermost frame of a task moves, the others     *)
(* wait inside a rebuild; a task rebuilds a resolver once at a time and    *)
(* the mutex says which task does; and the instances of a resolver are as  *)
(* many as its generation, but for the moment between the two writes of    *)
(* swap.                                                                   *)
(***************************************************************************)
EXTENDS NamedResolver, TLAPS

Waiting == {"booting", "fetching"}

(* The resolvers being rebuilt by the task with these frames. *)
Builds(s) == {s[i].res : i \in {j \in DOMAIN s : s[j].pc \in Building}}

(* The frames of one task. *)
WellStacked(s) ==
  /\ \A i \in DOMAIN s : s[i].pc \in Waiting <=> i > 1
  /\ \A i \in DOMAIN s : s[i].cause = "rotation" => i = Len(s)
  /\ \A i, j \in DOMAIN s :
       s[i].pc \in Building /\ s[j].pc \in Building /\ s[i].res = s[j].res => i = j

(* What a frame knows of its resolver. *)
Fits(f) ==
  /\ f.pc \in {"lock"} \cup Building => Uses(f.res)
  /\ f.cause = "rejected" /\ f.pc # "seen" => f.seen <= generation[f.res]
  /\ f.cause = "rejected" /\ f.pc \notin {"seen", "snap"} =>
       f.seen <= f.inst /\ f.inst <= inner[f.res].inst
  /\ f.cause = "rejected" /\ f.pc \in Building \ {"swapped"} => inner[f.res].inst = f.inst

(* Between the two writes of swap. *)
Ahead(r) == \E t \in Task : At(t, "swapped") /\ Top(t).res = r

Counted ==
  \A r \in Resolver : inner[r].inst = IF Ahead(r) THEN generation[r] + 1 ELSE generation[r]

NInv ==
  /\ TypeOK
  /\ \A t \in Task : WellStacked(stack[t]) /\ \A i \in DOMAIN stack[t] : Fits(stack[t][i])
  /\ \A t \in Query \ started : stack[t] = << >>
  /\ Counted

-----------------------------------------------------------------------------
(* Stacks.  A step replaces the innermost frame, puts one on top of it, or *)
(* takes it off and lets the next one go on.                               *)
LEMMA FrameAt ==
  ASSUME NEW s \in Seq(Frame), NEW i \in DOMAIN s
  PROVE  /\ s[i] \in Frame /\ i \in Nat /\ i > 0 /\ i <= Len(s)
         /\ s[i].res \in Resolver /\ s[i].pc \in {"seen", "snap", "op", "lock"} \cup Building
         /\ s[i].cause \in {"rejected", "rotation"} /\ s[i].seen \in Nat /\ s[i].inst \in Nat
<1>1. s[i] \in Frame /\ i \in 1 .. Len(s)
  <2> DEFINE F == Frame
  <2> HIDE DEF F
  <2> SUFFICES ASSUME s \in Seq(F) PROVE s[i] \in F /\ i \in 1 .. Len(s)
    BY DEF F
  <2> QED OBVIOUS
<1> QED BY <1>1 DEF Frame

LEMMA Topped ==
  ASSUME NEW s \in Seq(Frame), s # << >>
  PROVE  /\ Head(s) = s[1] /\ 1 \in DOMAIN s /\ Len(s) \in Nat /\ Len(s) >= 1
         /\ Head(s) \in Frame /\ Tail(s) \in Seq(Frame)
<1> DEFINE F == Frame
<1> HIDE DEF F
<1> SUFFICES ASSUME s \in Seq(F)
             PROVE  /\ Head(s) = s[1] /\ 1 \in DOMAIN s /\ Len(s) \in Nat /\ Len(s) >= 1
                    /\ Head(s) \in F /\ Tail(s) \in Seq(F)
  BY DEF F
<1> QED OBVIOUS

LEMMA Replaced ==
  ASSUME NEW s \in Seq(Frame), s # << >>, NEW f \in Frame
  PROVE  LET n == <<f>> \o Tail(s) IN
         /\ n \in Seq(Frame) /\ Len(n) = Len(s) /\ DOMAIN n = DOMAIN s /\ n # << >>
         /\ n[1] = f /\ \A i \in DOMAIN n : i > 1 => n[i] = s[i]
<1> DEFINE F == Frame
<1> HIDE DEF F
<1>1. s \in Seq(F) /\ f \in F
  BY DEF F
<1>2. LET n == <<f>> \o Tail(s) IN
      /\ n \in Seq(F) /\ Len(n) = Len(s) /\ DOMAIN n = DOMAIN s /\ n # << >>
      /\ n[1] = f /\ \A i \in DOMAIN n : i > 1 => n[i] = s[i]
  BY <1>1
<1> QED BY <1>2 DEF F

LEMMA Dropped ==
  ASSUME NEW s \in Seq(Frame), s # << >>
  PROVE  /\ Tail(s) \in Seq(Frame) /\ Len(Tail(s)) = Len(s) - 1
         /\ DOMAIN Tail(s) = 1 .. Len(s) - 1 /\ DOMAIN s = 1 .. Len(s)
         /\ \A i \in DOMAIN Tail(s) : Tail(s)[i] = s[i + 1] /\ i + 1 \in DOMAIN s
<1> DEFINE F == Frame
<1> HIDE DEF F
<1>1. s \in Seq(F)
  BY DEF F
<1>2. /\ Tail(s) \in Seq(F) /\ Len(Tail(s)) = Len(s) - 1
      /\ DOMAIN Tail(s) = 1 .. Len(s) - 1 /\ DOMAIN s = 1 .. Len(s)
      /\ \A i \in DOMAIN Tail(s) : Tail(s)[i] = s[i + 1] /\ i + 1 \in DOMAIN s
  BY <1>1
<1> QED BY <1>2 DEF F

LEMMA Pushed ==
  ASSUME NEW s \in Seq(Frame), NEW g \in Frame, s # << >>, NEW f \in Frame
  PROVE  LET n == <<g, f>> \o Tail(s) IN
         /\ n \in Seq(Frame) /\ Len(n) = Len(s) + 1 /\ DOMAIN n = 1 .. Len(s) + 1 /\ n # << >>
         /\ DOMAIN s = 1 .. Len(s)
         /\ n[1] = g /\ n[2] = f /\ \A i \in DOMAIN n : i > 2 => n[i] = s[i - 1]
<1> DEFINE F == Frame
<1> HIDE DEF F
<1>1. s \in Seq(F) /\ f \in F /\ g \in F
  BY DEF F
<1>2. LET n == <<g, f>> \o Tail(s) IN
      /\ n \in Seq(F) /\ Len(n) = Len(s) + 1 /\ DOMAIN n = 1 .. Len(s) + 1 /\ n # << >>
      /\ DOMAIN s = 1 .. Len(s)
      /\ n[1] = g /\ n[2] = f /\ \A i \in DOMAIN n : i > 2 => n[i] = s[i - 1]
  BY <1>1
<1> QED BY <1>2 DEF F

LEMMA ReplaceKeeps ==
  ASSUME NEW s \in Seq(Frame), s # << >>, WellStacked(s), NEW f \in Frame,
         f.res = Head(s).res, f.cause = Head(s).cause, f.pc \notin Waiting,
         f.pc \in Building => Head(s).pc \in Building \/ f.res \notin Builds(s)
  PROVE  LET n == <<f>> \o Tail(s) IN
         /\ WellStacked(n)
         /\ f.pc \in Building => Builds(n) = Builds(s) \cup {f.res}
         /\ f.pc \notin Building /\ Head(s).pc \in Building => Builds(n) = Builds(s) \ {f.res}
         /\ f.pc \notin Building /\ Head(s).pc \notin Building => Builds(n) = Builds(s)
<1> DEFINE n == <<f>> \o Tail(s)
<1>1. /\ Head(s) = s[1] /\ 1 \in DOMAIN s
      /\ \A i \in DOMAIN s : i \in Nat /\ i > 0
  BY Topped, FrameAt
<1>2. /\ Len(n) = Len(s) /\ DOMAIN n = DOMAIN s
      /\ n[1] = f /\ \A i \in DOMAIN s : i > 1 => n[i] = s[i]
  BY Replaced
<1> HIDE DEF n
<1>3. \A i \in DOMAIN s : i = 1 \/ i > 1
  BY <1>1
<1>4. ASSUME NEW i \in DOMAIN s, i > 1, f.pc \in Building, s[i].pc \in Building
      PROVE  s[i].res # f.res
  <2>1. CASE Head(s).pc \in Building
    BY <1>1, <1>4, <2>1 DEF WellStacked
  <2>2. CASE f.res \notin Builds(s)
    BY <1>4, <2>2 DEF Builds
  <2> QED BY <1>4, <2>1, <2>2
<1>5. WellStacked(n)
  <2>1. ASSUME NEW i \in DOMAIN n
        PROVE  (n[i].pc \in Waiting <=> i > 1) /\ (n[i].cause = "rotation" => i = Len(n))
    BY <1>1, <1>2, <1>3 DEF WellStacked
  <2>2. ASSUME NEW i \in DOMAIN n, NEW j \in DOMAIN n,
               n[i].pc \in Building, n[j].pc \in Building, n[i].res = n[j].res
        PROVE  i = j
    <3>1. CASE i = 1 \/ j = 1
      BY <1>2, <1>3, <1>4, <2>2, <3>1
    <3>2. CASE i > 1 /\ j > 1
      BY <1>2, <2>2, <3>2 DEF WellStacked
    <3> QED BY <1>2, <1>3, <3>1, <3>2
  <2> QED BY <2>1, <2>2 DEF WellStacked
<1>6. \A r : r \in Builds(n) <=> (f.pc \in Building /\ r = f.res)
                                 \/ \E i \in DOMAIN s : i > 1 /\ s[i].pc \in Building /\ s[i].res = r
  BY <1>1, <1>2, <1>3 DEF Builds
<1>7. \A r : r \in Builds(s) <=> (Head(s).pc \in Building /\ r = Head(s).res)
                                 \/ \E i \in DOMAIN s : i > 1 /\ s[i].pc \in Building /\ s[i].res = r
  BY <1>1, <1>3 DEF Builds
<1>8. Head(s).pc \in Building =>
        ~\E i \in DOMAIN s : i > 1 /\ s[i].pc \in Building /\ s[i].res = f.res
  BY <1>1 DEF WellStacked
<1>9. /\ f.pc \in Building => \A r : r \in Builds(n) <=> r \in Builds(s) \/ r = f.res
      /\ f.pc \notin Building /\ Head(s).pc \in Building =>
           \A r : r \in Builds(n) <=> r \in Builds(s) /\ r # f.res
      /\ f.pc \notin Building /\ Head(s).pc \notin Building => \A r : r \in Builds(n) <=> r \in Builds(s)
  BY <1>6, <1>7, <1>8
<1>10. /\ f.pc \in Building => Builds(n) = Builds(s) \cup {f.res}
       /\ f.pc \notin Building /\ Head(s).pc \in Building => Builds(n) = Builds(s) \ {f.res}
       /\ f.pc \notin Building /\ Head(s).pc \notin Building => Builds(n) = Builds(s)
  BY <1>9
<1> QED BY <1>5, <1>10 DEF n

LEMMA PushKeeps ==
  ASSUME NEW s \in Seq(Frame), s # << >>, WellStacked(s), NEW f \in Frame, NEW g \in Frame,
         f.res = Head(s).res, f.cause = Head(s).cause, f.pc \in Waiting, Head(s).pc \in Building,
         g.pc = "seen", g.cause = "rejected"
  PROVE  WellStacked(<<g, f>> \o Tail(s)) /\ Builds(<<g, f>> \o Tail(s)) = Builds(s)
<1> DEFINE n == <<g, f>> \o Tail(s)
<1>1. /\ Head(s) = s[1] /\ 1 \in DOMAIN s /\ Len(s) \in Nat /\ Len(s) >= 1
      /\ \A i \in DOMAIN s : i \in Nat /\ i > 0
  BY Topped, FrameAt
<1>2. /\ Len(n) = Len(s) + 1 /\ DOMAIN n = 1 .. Len(s) + 1 /\ DOMAIN s = 1 .. Len(s)
      /\ n[1] = g /\ n[2] = f /\ \A i \in DOMAIN n : i > 2 => n[i] = s[i - 1]
  BY Pushed
<1> HIDE DEF n
<1>3. \A i \in DOMAIN n : i = 1 \/ i = 2 \/ (i > 2 /\ i - 1 \in DOMAIN s /\ i - 1 > 1)
  BY <1>1, <1>2
<1>4. Waiting \subseteq Building /\ "seen" \notin Building
  BY DEF Waiting, Building
<1>5. \A i \in DOMAIN n : i > 1 =>
        /\ i - 1 \in DOMAIN s /\ n[i].cause = s[i - 1].cause /\ n[i].res = s[i - 1].res
        /\ n[i].pc \in Waiting /\ s[i - 1].pc \in Building
  <2>1. \A i \in DOMAIN s : i > 1 => s[i].pc \in Waiting
    BY DEF WellStacked
  <2> QED BY <1>1, <1>2, <1>3, <1>4, <2>1
<1>6. WellStacked(n)
  <2>1. ASSUME NEW i \in DOMAIN n
        PROVE  (n[i].pc \in Waiting <=> i > 1) /\ (n[i].cause = "rotation" => i = Len(n))
    <3>1. CASE i = 1
      BY <1>2, <1>4, <3>1
    <3>2. CASE i > 1
      <4>1. n[i].cause = "rotation" => i - 1 = Len(s)
        BY <1>5, <3>2 DEF WellStacked
      <4> QED BY <1>1, <1>2, <1>5, <3>2, <4>1
    <3> QED BY <1>2, <3>1, <3>2
  <2>2. ASSUME NEW i \in DOMAIN n, NEW j \in DOMAIN n,
               n[i].pc \in Building, n[j].pc \in Building, n[i].res = n[j].res
        PROVE  i = j
    <3>1. i > 1 /\ j > 1
      BY <1>2, <1>4, <2>2
    <3>2. i - 1 = j - 1
      BY <1>5, <2>2, <3>1 DEF WellStacked
    <3> QED BY <1>2, <3>2
  <2> QED BY <2>1, <2>2 DEF WellStacked
<1>7. \A i \in DOMAIN n : n[i].pc \in Building => \E j \in DOMAIN s : s[j].pc \in Building /\ s[j].res = n[i].res
  BY <1>2, <1>4, <1>5
<1>8. ASSUME NEW j \in DOMAIN s, s[j].pc \in Building
      PROVE  \E i \in DOMAIN n : n[i].pc \in Building /\ n[i].res = s[j].res
  <2>1. j + 1 \in DOMAIN n /\ j + 1 > 1 /\ (j + 1) - 1 = j
    BY <1>1, <1>2
  <2> QED BY <1>4, <1>5, <2>1
<1>9. Builds(n) = Builds(s)
  BY <1>7, <1>8 DEF Builds
<1> QED BY <1>6, <1>9 DEF n

LEMMA ReturnKeeps ==
  ASSUME NEW s \in Seq(Frame), s # << >>, Len(s) # 1, WellStacked(s), Head(s).pc \notin Building,
         NEW h \in Frame, h.res = s[2].res, h.cause = s[2].cause,
         h.pc \in Building, h.pc \notin Waiting
  PROVE  LET n == <<h>> \o Tail(Tail(s)) IN
         /\ n \in Seq(Frame) /\ n # << >> /\ WellStacked(n) /\ Builds(n) = Builds(s)
         /\ n[1] = h /\ \A i \in DOMAIN n : i > 1 => i + 1 \in DOMAIN s /\ n[i] = s[i + 1]
<1> DEFINE t == Tail(s)
           n == <<h>> \o Tail(t)
<1>1. /\ t \in Seq(Frame) /\ Len(t) = Len(s) - 1 /\ DOMAIN t = 1 .. Len(s) - 1 /\ DOMAIN s = 1 .. Len(s)
      /\ \A i \in DOMAIN t : t[i] = s[i + 1] /\ i + 1 \in DOMAIN s
      /\ Len(s) \in Nat /\ Len(s) >= 1 /\ Head(s) = s[1]
  BY Dropped, Topped
<1> HIDE DEF t
<1>2. t # << >> /\ 1 \in DOMAIN t /\ 2 \in DOMAIN s
  BY <1>1
<1>3. /\ n \in Seq(Frame) /\ Len(n) = Len(t) /\ DOMAIN n = DOMAIN t /\ n # << >>
      /\ n[1] = h /\ \A i \in DOMAIN n : i > 1 => n[i] = t[i]
  BY <1>1, <1>2, Replaced
<1> HIDE DEF n
<1>4. \A i \in DOMAIN n : /\ i \in Nat /\ i > 0 /\ (i = 1 \/ i > 1) /\ i + 1 \in DOMAIN s /\ i + 1 > 1
                          /\ i > 1 => n[i] = s[i + 1]
                          /\ i = 1 => s[i + 1] = s[2]
  BY <1>1, <1>3
<1>5. Waiting \subseteq Building
  BY DEF Waiting, Building
<1>6. \A i \in DOMAIN s : i > 1 => s[i].pc \in Waiting
  BY DEF WellStacked
<1>7. \A i \in DOMAIN n : /\ n[i].res = s[i + 1].res /\ n[i].cause = s[i + 1].cause
                          /\ n[i].pc \in Building /\ s[i + 1].pc \in Building
                          /\ n[i].pc \in Waiting <=> i > 1
  BY <1>3, <1>4, <1>5, <1>6
<1>8. WellStacked(n)
  <2>1. ASSUME NEW i \in DOMAIN n, n[i].cause = "rotation" PROVE i = Len(n)
    <3>1. i + 1 = Len(s)
      BY <1>4, <1>7, <2>1 DEF WellStacked
    <3> QED BY <1>1, <1>3, <1>4, <3>1
  <2>2. ASSUME NEW i \in DOMAIN n, NEW j \in DOMAIN n, n[i].res = n[j].res
        PROVE  i = j
    <3>1. i + 1 = j + 1
      BY <1>4, <1>7, <2>2 DEF WellStacked
    <3> QED BY <1>4, <3>1
  <2> QED BY <1>7, <2>1, <2>2 DEF WellStacked
<1>9. ASSUME NEW j \in DOMAIN s, s[j].pc \in Building
      PROVE  \E i \in DOMAIN n : n[i].pc \in Building /\ n[i].res = s[j].res
  <2>1. j # 1
    BY <1>1, <1>9
  <2>2. j - 1 \in DOMAIN n /\ (j - 1) + 1 = j
    BY <1>1, <1>3, <2>1
  <2> QED BY <1>7, <2>2
<1>10. \A i \in DOMAIN n : \E j \in DOMAIN s : s[j].pc \in Building /\ s[j].res = n[i].res
  BY <1>4, <1>7
<1>11. Builds(n) = Builds(s)
  BY <1>9, <1>10 DEF Builds
<1> QED BY <1>3, <1>4, <1>8, <1>11 DEF n, t

-----------------------------------------------------------------------------
(* Frames. *)
LEMMA FitsStill ==
  ASSUME NInv, NEW f \in Frame, Fits(f), UNCHANGED scope,
         generation[f.res] <= generation'[f.res], generation'[f.res] \in Nat,
         inner[f.res].inst <= inner'[f.res].inst, inner'[f.res].inst \in Nat,
         f.pc \in Building \ {"swapped"} => inner'[f.res].inst = inner[f.res].inst
  PROVE  Fits(f)'
<1>1. /\ generation[f.res] \in Nat /\ inner[f.res].inst \in Nat /\ f.seen \in Nat /\ f.inst \in Nat
  BY DEF NInv, TypeOK, Instance, Frame
<1> QED BY <1>1 DEF Fits, Uses, plan

(* A step of one task that replaces no instance and takes or gives up no    *)
(* mutex.                                                                   *)
LEMMA QuietStep ==
  ASSUME NInv, NEW t \in Task, stack[t] # << >>,
         NEW n \in Seq(Frame), stack' = [stack EXCEPT ![t] = n],
         WellStacked(n), Builds(n) = Builds(stack[t]),
         Head(stack[t]).pc # "swapped", n # << >> => n[1].pc # "swapped",
         \A i \in DOMAIN n : Fits(n[i]),
         inner' \in [Resolver -> Instance], \A r \in Resolver : inner'[r].inst = inner[r].inst,
         UNCHANGED <<world, ech_bytes, generation, rebuilding>>, faults' \in 0 .. scope.faults
  PROVE  NInv'
<1>1. UNCHANGED <<scope, serverKey, published, started>>
  BY DEF world
<1>2. stack' \in [Task -> Seq(Frame)] /\ stack'[t] = n /\ \A u \in Task : u # t => stack'[u] = stack[u]
  BY DEF NInv, TypeOK
<1>3. \A u \in Task : Builds(stack'[u]) = Builds(stack[u])
  BY <1>2
<1>4. TypeOK'
  <2>1. \A r \in Res, u \in Task : rebuilding[r] = u <=> r \in Builds(stack[u])
    BY DEF NInv, TypeOK, Builds
  <2>2. \A r \in Res, u \in Task : rebuilding'[r] = u <=> r \in Builds(stack'[u])
    BY <1>3, <2>1
  <2>3. \A r \in Res, u \in Task : rebuilding'[r] = u
          <=> \E i \in DOMAIN stack'[u] : stack'[u][i].res = r /\ stack'[u][i].pc \in Building
    BY <2>2 DEF Builds
  <2> QED BY <1>1, <1>2, <2>3 DEF NInv, TypeOK
<1>5. ASSUME NEW u \in Task PROVE (WellStacked(stack[u]) /\ \A i \in DOMAIN stack[u] : Fits(stack[u][i]))'
  <2>1. ASSUME NEW f \in Frame, Fits(f) PROVE Fits(f)'
    <3>1. f.res \in Resolver /\ inner[f.res].inst \in Nat /\ generation[f.res] \in Nat
      BY DEF Frame, NInv, TypeOK, Instance
    <3>2. generation'[f.res] = generation[f.res] /\ inner'[f.res].inst = inner[f.res].inst
      BY <3>1
    <3> QED BY <1>1, <2>1, <3>1, <3>2, FitsStill
  <2>2. WellStacked(stack'[u]) /\ \A i \in DOMAIN stack'[u] : stack'[u][i] \in Frame /\ Fits(stack'[u][i])
    <3>1. \A s \in Seq(Frame) : \A i \in DOMAIN s : s[i] \in Frame
      BY FrameAt
    <3> QED BY <1>2, <3>1 DEF NInv
  <2>3. \A i \in DOMAIN stack'[u] : Fits(stack[u][i])'
    BY <2>1, <2>2 DEF Fits, Uses, plan
  <2> QED BY <2>2, <2>3
<1>6. (\A u \in Query \ started : stack[u] = << >>)'
  BY <1>1, <1>2 DEF NInv
<1>7. Counted'
  <2>1. \A u \in Task : At(u, "swapped")' <=> At(u, "swapped")
    <3>1. ~At(t, "swapped") /\ ~At(t, "swapped")'
      BY <1>2, Topped DEF At, Top
    <3> QED BY <1>2, <3>1 DEF At, Top
  <2>2. \A r : Ahead(r)' <=> Ahead(r)
    <3>1. \A u \in Task : At(u, "swapped") => Top(u)' = Top(u)
      BY <1>2 DEF Top, At
    <3> QED BY <2>1, <3>1 DEF Ahead
  <2> QED BY <1>1, <2>2 DEF Counted, NInv
<1> QED BY <1>4, <1>5, <1>6, <1>7 DEF NInv

(* A frame inside a rebuild keeps what it knows while the rebuild goes on. *)
LEMMA FitsOn ==
  ASSUME NEW g \in Frame, Fits(g), g.pc \in Building \ {"swapped"}, NEW h,
         h.res = g.res, h.cause = g.cause, h.seen = g.seen, h.inst = g.inst,
         h.pc \in Building \ {"swapped"}
  PROVE  Fits(h)
BY DEF Fits, Building, Uses

LEMMA Stacks ==
  ASSUME NInv, NEW t \in Task
  PROVE  /\ stack[t] \in Seq(Frame) /\ WellStacked(stack[t])
         /\ \A i \in DOMAIN stack[t] : stack[t][i] \in Frame /\ Fits(stack[t][i])
         /\ stack[t] # << >> => /\ Top(t) = stack[t][1] /\ 1 \in DOMAIN stack[t] /\ Top(t) \in Frame
                                /\ Fits(Top(t)) /\ Top(t).pc \notin Waiting
                                /\ Head(stack[t]) = Top(t)
<1>1. stack[t] \in Seq(Frame)
  BY DEF NInv, TypeOK
<1>2. WellStacked(stack[t]) /\ \A i \in DOMAIN stack[t] : Fits(stack[t][i])
  BY DEF NInv
<1>3. \A i \in DOMAIN stack[t] : stack[t][i] \in Frame
  BY <1>1, FrameAt
<1>4. ASSUME stack[t] # << >>
      PROVE  Head(stack[t]) = stack[t][1] /\ 1 \in DOMAIN stack[t]
  BY <1>1, <1>4, Topped
<1> QED BY <1>1, <1>2, <1>3, <1>4 DEF Top, WellStacked

(* Alone on its stack, a frame leaves an empty one. *)
LEMMA Alone ==
  ASSUME NInv, NEW t \in Task, stack[t] # << >>, Len(stack[t]) = 1
  PROVE  /\ Tail(stack[t]) = << >> /\ WellStacked(<< >>) /\ Builds(<< >>) = {} /\ << >> \in Seq(Frame)
         /\ Builds(stack[t]) = IF Top(t).pc \in Building THEN {Top(t).res} ELSE {}
<1>1. stack[t] \in Seq(Frame) /\ Top(t) = stack[t][1]
  BY Stacks
<1>2. Tail(stack[t]) = << >> /\ DOMAIN stack[t] = {1}
  <2> DEFINE F == Frame
             s == stack[t]
  <2>1. s \in Seq(F) /\ Len(s) = 1
    BY <1>1
  <2> HIDE DEF F, s
  <2>2. Tail(s) = << >> /\ DOMAIN s = {1}
    BY <2>1
  <2> QED BY <2>2 DEF s
<1>3. DOMAIN << >> = {}
  OBVIOUS
<1>4. WellStacked(<< >>) /\ Builds(<< >>) = {} /\ << >> \in Seq(Frame)
  BY <1>3 DEF WellStacked, Builds
<1> QED BY <1>1, <1>2, <1>4 DEF Builds

LEMMA Returned ==
  ASSUME NInv, NEW t \in Task, At(t, "op"),
         (\E k \in Key \cup {NoKey} : stack' = ReturnOk(t, k)) \/ stack' = ReturnErr(t)
  PROVE  \E n \in Seq(Frame) :
           /\ stack' = [stack EXCEPT ![t] = n] /\ WellStacked(n) /\ Builds(n) = Builds(stack[t])
           /\ n # << >> => n[1].pc # "swapped"
           /\ \A i \in DOMAIN n : Fits(n[i])
<1>0. /\ stack[t] # << >> /\ Top(t).pc = "op" /\ Head(stack[t]).pc = "op"
      /\ Top(t).pc \notin Building
  BY DEF At, Top, Building
<1>1. CASE Len(stack[t]) = 1
  <2>1. stack' = [stack EXCEPT ![t] = Tail(stack[t])]
    BY <1>1 DEF ReturnOk, ReturnErr, Pop
  <2>2. /\ Tail(stack[t]) = << >> /\ WellStacked(<< >>) /\ Builds(<< >>) = {} /\ << >> \in Seq(Frame)
        /\ Builds(stack[t]) = {}
    BY <1>0, <1>1, Alone
  <2>3. DOMAIN << >> = {}
    OBVIOUS
  <2> QED BY <2>1, <2>2, <2>3
<1>2. CASE Len(stack[t]) # 1
  <2> DEFINE g == stack[t][2]
  <2>1. /\ g \in Frame /\ 2 \in DOMAIN stack[t] /\ Fits(g) /\ g.pc \in Waiting /\ g.res \in Res
        /\ g.cause \in {"rejected", "rotation"}
    <3>1. 2 \in DOMAIN stack[t]
      <4>1. DOMAIN stack[t] = 1 .. Len(stack[t]) /\ Len(stack[t]) \in Nat /\ Len(stack[t]) >= 1
        BY <1>0, Stacks, Topped, Dropped
      <4>2. \A l \in Nat : l >= 1 /\ l # 1 => 2 \in 1 .. l
        OBVIOUS
      <4>3. 2 \in 1 .. Len(stack[t])
        BY ONLY <1>2, <4>1, <4>2
      <4> QED BY ONLY <4>1, <4>3
    <3>2. g \in Frame /\ Fits(g) /\ g.pc \in Waiting
      BY <3>1, Stacks DEF WellStacked
    <3>3. Uses(g.res)
      BY <3>2 DEF Fits, Waiting, Building
    <3> QED BY <3>1, <3>2, <3>3 DEF Frame, Uses, Resolver
  <2>2. \A m \in {"none", "static", "doh", "doh-with-fallback"}, k \in Key \cup {NoKey} :
          Acquired(m, k) \in Key \cup {NoKey}
    BY NamedAssumption DEF Acquired, Key, StaticKey
  <2>3. plan[g.res].mode \in {"none", "static", "doh", "doh-with-fallback"}
    BY <2>1, NamedAssumption DEF NInv, TypeOK, Scope, plan, Def
  <2>4. \E h \in Frame :
          /\ stack' = [stack EXCEPT ![t] = <<h>> \o Tail(Tail(stack[t]))]
          /\ h.res = g.res /\ h.cause = g.cause /\ h.seen = g.seen /\ h.inst = g.inst
          /\ h.pc \in {"ech", "choose", "failed"}
    <3>0. StaticKey \in Key \cup {NoKey} /\ {"ech", "choose", "failed"} \subseteq Building
      BY NamedAssumption DEF Key, StaticKey, Building
    <3>1. \A p \in {"ech", "choose", "failed"}, b \in Key \cup {NoKey} :
            LET h == [g EXCEPT !.pc = p, !.built = b] IN
            /\ h \in Frame /\ h.pc = p
            /\ h.res = g.res /\ h.cause = g.cause /\ h.seen = g.seen /\ h.inst = g.inst
      BY <2>1, <3>0 DEF Frame
    <3>2. \A p \in {"ech", "choose", "failed"} :
            LET h == [g EXCEPT !.pc = p] IN
            /\ h \in Frame /\ h.pc = p
            /\ h.res = g.res /\ h.cause = g.cause /\ h.seen = g.seen /\ h.inst = g.inst
      BY <2>1, <3>0 DEF Frame
    <3>3. ASSUME NEW k \in Key \cup {NoKey}, stack' = ReturnOk(t, k)
          PROVE  \/ stack' = [stack EXCEPT ![t] = <<[g EXCEPT !.pc = "ech"]>> \o Tail(Tail(stack[t]))]
                 \/ \E b \in Key \cup {NoKey} :
                      stack' = [stack EXCEPT ![t] = <<[g EXCEPT !.pc = "choose", !.built = b]>>
                                                      \o Tail(Tail(stack[t]))]
      BY <1>2, <2>2, <2>3, <3>3 DEF ReturnOk
    <3>4. ASSUME stack' = ReturnErr(t)
          PROVE  \/ stack' = [stack EXCEPT ![t] = <<[g EXCEPT !.pc = "failed"]>> \o Tail(Tail(stack[t]))]
                 \/ stack' = [stack EXCEPT ![t] = <<[g EXCEPT !.pc = "choose", !.built = StaticKey]>>
                                                   \o Tail(Tail(stack[t]))]
      BY <1>2, <3>4 DEF ReturnErr
    <3> HIDE DEF g
    <3>5. \/ \E p \in {"ech", "failed"} :
               stack' = [stack EXCEPT ![t] = <<[g EXCEPT !.pc = p]>> \o Tail(Tail(stack[t]))]
          \/ \E b \in Key \cup {NoKey} :
               stack' = [stack EXCEPT ![t] = <<[g EXCEPT !.pc = "choose", !.built = b]>> \o Tail(Tail(stack[t]))]
      BY <3>0, <3>3, <3>4
    <3>6. CASE \E p \in {"ech", "failed"} :
                 stack' = [stack EXCEPT ![t] = <<[g EXCEPT !.pc = p]>> \o Tail(Tail(stack[t]))]
      <4>1. PICK p \in {"ech", "failed"} :
              stack' = [stack EXCEPT ![t] = <<[g EXCEPT !.pc = p]>> \o Tail(Tail(stack[t]))]
        BY <3>6
      <4>2. [g EXCEPT !.pc = p] \in Frame
        BY <3>2
      <4> QED BY <3>2, <4>1, <4>2
    <3>7. CASE \E b \in Key \cup {NoKey} :
                 stack' = [stack EXCEPT ![t] = <<[g EXCEPT !.pc = "choose", !.built = b]>> \o Tail(Tail(stack[t]))]
      <4>1. PICK b \in Key \cup {NoKey} :
              stack' = [stack EXCEPT ![t] = <<[g EXCEPT !.pc = "choose", !.built = b]>> \o Tail(Tail(stack[t]))]
        BY <3>7
      <4>2. [g EXCEPT !.pc = "choose", !.built = b] \in Frame
        BY <3>1
      <4> QED BY <3>1, <4>1, <4>2
    <3> QED BY <3>5, <3>6, <3>7
  <2>5. PICK h \in Frame :
          /\ stack' = [stack EXCEPT ![t] = <<h>> \o Tail(Tail(stack[t]))]
          /\ h.res = g.res /\ h.cause = g.cause /\ h.seen = g.seen /\ h.inst = g.inst
          /\ h.pc \in {"ech", "choose", "failed"}
    BY <2>4
  <2>6. h.pc \in Building \ {"swapped"} /\ h.pc \notin Waiting /\ g.pc \in Building \ {"swapped"}
    BY <2>1, <2>5 DEF Building, Waiting
  <2> DEFINE n == <<h>> \o Tail(Tail(stack[t]))
  <2>7. /\ n \in Seq(Frame) /\ n # << >> /\ WellStacked(n) /\ Builds(n) = Builds(stack[t])
        /\ n[1] = h /\ \A i \in DOMAIN n : i > 1 => i + 1 \in DOMAIN stack[t] /\ n[i] = stack[t][i + 1]
    BY <1>0, <1>2, <2>5, <2>6, Stacks, ReturnKeeps
  <2>8. Fits(h)
    BY <2>1, <2>5, <2>6, FitsOn
  <2> HIDE DEF n
  <2>9. \A i \in DOMAIN n : i \in Nat /\ i > 0
    BY <2>7, FrameAt
  <2>10. \A i \in DOMAIN n : Fits(n[i])
    <3>1. ASSUME NEW i \in DOMAIN n, i > 1 PROVE Fits(n[i])
      BY <2>7, <3>1, Stacks
    <3> QED BY <2>7, <2>8, <2>9, <3>1
  <2> QED BY <2>5, <2>6, <2>7, <2>10 DEF n
<1> QED BY <1>1, <1>2

-----------------------------------------------------------------------------
(* One step per action. *)
LEMMA TopMoves ==
  ASSUME NInv, NEW t \in Task, stack[t] # << >>, NEW f \in Frame, stack' = Frames(t, f),
         f.res = Top(t).res, f.cause = Top(t).cause,
         f.pc \notin Waiting \cup {"swapped"}, Top(t).pc # "swapped",
         f.pc \in Building <=> Top(t).pc \in Building, Fits(f),
         UNCHANGED <<world, inner, ech_bytes, generation, rebuilding, faults>>
  PROVE  NInv'
<1> DEFINE s == stack[t]
           n == <<f>> \o Tail(s)
<1>1. s \in Seq(Frame) /\ WellStacked(s) /\ Head(s) = Top(t) /\ \A i \in DOMAIN s : Fits(s[i])
  BY Stacks
<1>2. stack' = [stack EXCEPT ![t] = n]
  BY DEF Frames
<1>3. /\ n \in Seq(Frame) /\ DOMAIN n = DOMAIN s /\ n # << >> /\ n[1] = f
      /\ \A i \in DOMAIN n : i > 1 => n[i] = s[i]
  BY <1>1, Replaced
<1>4. f.pc \in Building => Top(t).res \in Builds(s)
  <2>1. Top(t).pc \in Building => Top(t).res \in Builds(s)
    BY <1>1, Stacks DEF Builds
  <2> QED BY <2>1
<1>5. WellStacked(n) /\ Builds(n) = Builds(s)
  <2>1. /\ WellStacked(n)
        /\ f.pc \in Building => Builds(n) = Builds(s) \cup {f.res}
        /\ f.pc \notin Building /\ Head(s).pc \notin Building => Builds(n) = Builds(s)
    BY <1>1, ReplaceKeeps
  <2> HIDE DEF n, s
  <2> QED BY <1>1, <1>4, <2>1
<1> HIDE DEF n
<1>6. \A i \in DOMAIN n : Fits(n[i])
  <2>1. \A i \in DOMAIN n : i = 1 \/ i > 1
    BY <1>3, FrameAt
  <2> QED BY <1>1, <1>3, <2>1
<1>7. /\ inner' \in [Resolver -> Instance] /\ \A r \in Resolver : inner'[r].inst = inner[r].inst
      /\ faults' \in 0 .. scope.faults
  BY DEF NInv, TypeOK
<1> HIDE DEF s
<1>8. Head(s).pc # "swapped" /\ n[1].pc # "swapped"
  BY <1>1, <1>3
<1> QED BY <1>1, <1>2, <1>3, <1>5, <1>6, <1>7, <1>8, QuietStep DEF s

(* The innermost frame, alone, is done. *)
LEMMA Popped ==
  ASSUME NInv, NEW t \in Task, stack[t] # << >>, Len(stack[t]) = 1, stack' = Pop(t),
         Top(t).pc \notin Building,
         UNCHANGED <<world, inner, ech_bytes, generation, rebuilding, faults>>
  PROVE  NInv'
<1>1. /\ Tail(stack[t]) = << >> /\ WellStacked(<< >>) /\ Builds(<< >>) = {} /\ << >> \in Seq(Frame)
      /\ Builds(stack[t]) = {} /\ DOMAIN << >> = {}
  <2>1. DOMAIN << >> = {}
    OBVIOUS
  <2> QED BY <2>1, Alone
<1>2. stack' = [stack EXCEPT ![t] = << >>]
  BY <1>1 DEF Pop
<1>3. /\ inner' \in [Resolver -> Instance] /\ \A r \in Resolver : inner'[r].inst = inner[r].inst
      /\ faults' \in 0 .. scope.faults
  BY DEF NInv, TypeOK
<1>4. Head(stack[t]).pc # "swapped"
  BY Stacks DEF Building
<1> QED BY <1>1, <1>2, <1>3, <1>4, QuietStep

(* What the innermost frame looks like. *)
LEMMA TopShape ==
  ASSUME NInv, NEW t \in Task, NEW p, At(t, p)
  PROVE  /\ stack[t] # << >> /\ Top(t).pc = p /\ Top(t) \in Frame /\ Fits(Top(t))
         /\ Top(t).res \in Resolver /\ Top(t).cause \in {"rejected", "rotation"}
         /\ Top(t).seen \in Nat /\ Top(t).inst \in Nat /\ Top(t).attempt \in Nat
         /\ Top(t).want \in Resolver
         /\ generation[Top(t).res] \in Nat /\ inner[Top(t).res] \in Instance
         /\ inner[Top(t).res].inst \in Nat
         /\ generation[Top(t).res] <= inner[Top(t).res].inst
         /\ Top(t).cause = "rotation" => Len(stack[t]) = 1
         /\ Top(t).pc \in {"lock"} \cup Building => Top(t).res \in Res /\ Uses(Top(t).res)
<1>1. stack[t] # << >> /\ Top(t).pc = p
  BY DEF At
<1>2. /\ Top(t) \in Frame /\ Fits(Top(t)) /\ Top(t) = stack[t][1] /\ 1 \in DOMAIN stack[t]
      /\ WellStacked(stack[t])
  BY <1>1, Stacks
<1>3. /\ Top(t).res \in Resolver /\ Top(t).cause \in {"rejected", "rotation"}
      /\ Top(t).seen \in Nat /\ Top(t).inst \in Nat /\ Top(t).attempt \in Nat
      /\ Top(t).want \in Resolver
  BY <1>2 DEF Frame
<1>4. /\ generation[Top(t).res] \in Nat /\ inner[Top(t).res] \in Instance
      /\ inner[Top(t).res].inst \in Nat
  BY <1>3 DEF NInv, TypeOK, Instance
<1>5. generation[Top(t).res] <= inner[Top(t).res].inst
  BY <1>3, <1>4 DEF NInv, Counted
<1>6. Top(t).cause = "rotation" => Len(stack[t]) = 1
  BY <1>2 DEF WellStacked
<1>7. Top(t).pc \in {"lock"} \cup Building => Top(t).res \in Res /\ Uses(Top(t).res)
  BY <1>2, <1>3 DEF Fits, Uses, Resolver
<1> QED BY <1>1, <1>2, <1>3, <1>4, <1>5, <1>6, <1>7

LEMMA ReadSeenStep == ASSUME NInv, NEW t \in Task, ReadSeen(t) PROVE NInv'
<1> DEFINE f == [Top(t) EXCEPT !.pc = "snap", !.seen = generation[Top(t).res]]
<1>1. At(t, "seen") /\ stack' = Frames(t, f)
      /\ UNCHANGED <<world, inner, ech_bytes, generation, rebuilding, faults>>
  BY DEF ReadSeen
<1>2. /\ stack[t] # << >> /\ Top(t).pc = "seen" /\ Top(t) \in Frame /\ generation[Top(t).res] \in Nat
  BY <1>1, TopShape
<1>3. f \in Frame /\ f.res = Top(t).res /\ f.cause = Top(t).cause /\ f.pc = "snap"
      /\ f.seen = generation[Top(t).res]
  BY <1>2 DEF Frame
<1> HIDE DEF f
<1>4. Fits(f)
  BY <1>2, <1>3 DEF Fits, Building
<1> QED BY <1>1, <1>2, <1>3, <1>4, TopMoves DEF Building, Waiting

LEMMA SnapshotStep == ASSUME NInv, NEW t \in Task, Snapshot(t) PROVE NInv'
<1> DEFINE i == inner[Top(t).res]
           f == [Top(t) EXCEPT !.pc = "op", !.key = i.key, !.inst = i.inst,
                   !.cached = IF Top(t).want = Sys THEN NoRecord ELSE i.cache[Top(t).want]]
<1>1. At(t, "snap") /\ stack' = Frames(t, f)
      /\ UNCHANGED <<world, inner, ech_bytes, generation, rebuilding, faults>>
  BY DEF Snapshot
<1>2. /\ stack[t] # << >> /\ Top(t).pc = "snap" /\ Top(t) \in Frame /\ Fits(Top(t))
      /\ generation[Top(t).res] \in Nat /\ i \in Instance /\ i.inst \in Nat /\ Top(t).seen \in Nat
      /\ generation[Top(t).res] <= i.inst /\ Top(t).want \in Resolver
  BY <1>1, TopShape
<1>3. /\ i.key \in Key \cup {NoKey}
      /\ (IF Top(t).want = Sys THEN NoRecord ELSE i.cache[Top(t).want]) \in Record
  BY <1>2 DEF Instance, Record, Resolver
<1>4. /\ f \in Frame /\ f.res = Top(t).res /\ f.cause = Top(t).cause /\ f.pc = "op"
      /\ f.seen = Top(t).seen /\ f.inst = inner[f.res].inst
  BY <1>2, <1>3 DEF Frame
<1> HIDE DEF f
<1>5. Fits(f)
  BY <1>2, <1>4 DEF Fits, Building
<1> QED BY <1>1, <1>2, <1>4, <1>5, TopMoves DEF Building, Waiting

LEMMA RejectStep == ASSUME NInv, NEW t \in Task, Reject(t) PROVE NInv'
<1> DEFINE f == [Top(t) EXCEPT !.pc = "lock"]
<1>1. At(t, "op") /\ Refused(Top(t)) /\ stack' = Frames(t, f)
      /\ UNCHANGED <<world, inner, ech_bytes, generation, rebuilding, faults>>
  BY DEF Reject
<1>2. stack[t] # << >> /\ Top(t).pc = "op" /\ Top(t) \in Frame /\ Fits(Top(t))
  BY <1>1, TopShape
<1>3. /\ f \in Frame /\ f.res = Top(t).res /\ f.cause = Top(t).cause /\ f.pc = "lock"
      /\ f.seen = Top(t).seen /\ f.inst = Top(t).inst
  BY <1>2 DEF Frame
<1> HIDE DEF f
<1>4. Fits(f)
  BY <1>1, <1>2, <1>3 DEF Fits, Building, Refused
<1> QED BY <1>1, <1>2, <1>3, <1>4, TopMoves DEF Building, Waiting

LEMMA FetchStaticStep == ASSUME NInv, NEW t \in Task, FetchStatic(t) PROVE NInv'
<1> DEFINE f == [Top(t) EXCEPT !.pc = "choose", !.built = StaticKey]
<1>1. At(t, "ech") /\ stack' = Frames(t, f)
      /\ UNCHANGED <<world, inner, ech_bytes, generation, rebuilding, faults>>
  BY DEF FetchStatic
<1>2. stack[t] # << >> /\ Top(t).pc = "ech" /\ Top(t) \in Frame /\ Fits(Top(t))
  BY <1>1, TopShape
<1>3. /\ f \in Frame /\ f.res = Top(t).res /\ f.cause = Top(t).cause /\ f.pc = "choose"
      /\ f.seen = Top(t).seen /\ f.inst = Top(t).inst
  <2>1. StaticKey \in Key /\ "choose" \in Building
    BY NamedAssumption DEF Key, StaticKey, Building
  <2> QED BY <1>2, <2>1 DEF Frame
<1> HIDE DEF f
<1>4. Fits(f)
  BY <1>2, <1>3, FitsOn DEF Building
<1> QED BY <1>1, <1>2, <1>3, <1>4, TopMoves DEF Building, Waiting

LEMMA LockSkipStep == ASSUME NInv, NEW t \in Task, LockSkip(t) PROVE NInv'
<1>1. At(t, "lock") /\ stack' = Rebuilt(t)
      /\ UNCHANGED <<world, inner, ech_bytes, generation, rebuilding, faults>>
  BY DEF LockSkip
<1>2. /\ stack[t] # << >> /\ Top(t).pc = "lock" /\ Top(t) \in Frame /\ Fits(Top(t))
      /\ Top(t).cause = "rotation" => Len(stack[t]) = 1
      /\ Top(t).attempt \in Nat
  BY <1>1, TopShape
<1>3. CASE Top(t).cause = "rotation"
  BY <1>1, <1>2, <1>3, Popped DEF Rebuilt, Building
<1>4. CASE Top(t).cause # "rotation"
  <2> DEFINE f == [Top(t) EXCEPT !.pc = "seen", !.attempt = @ + 1]
  <2>1. stack' = Frames(t, f)
    BY <1>1, <1>4 DEF Rebuilt
  <2>2. f \in Frame /\ f.res = Top(t).res /\ f.cause = Top(t).cause /\ f.pc = "seen"
    <3>1. Top(t).attempt + 1 \in Nat
      BY <1>2
    <3> DEFINE n == Top(t).attempt + 1
    <3>2. f = [Top(t) EXCEPT !.pc = "seen", !.attempt = n]
      OBVIOUS
    <3>3. n \in Nat
      BY <3>1
    <3> HIDE DEF n, f
    <3> QED BY <1>2, <3>2, <3>3 DEF Frame
  <2> HIDE DEF f
  <2>3. Fits(f)
    BY <2>2 DEF Fits, Building
  <2> QED BY <1>1, <1>2, <2>1, <2>2, <2>3, TopMoves DEF Building, Waiting
<1> QED BY <1>3, <1>4

LEMMA AnswerStep == ASSUME NInv, NEW t \in Task, Answer(t) PROVE NInv'
<1> DEFINE f == Top(t)
           k == IF f.want = Sys THEN NoKey
                ELSE IF Held(f) # NoRecord THEN Held(f) ELSE published[f.want]
<1>1. /\ At(t, "op") /\ stack' = ReturnOk(t, k)
      /\ inner' = IF f.want # Sys /\ inner[f.res].inst = f.inst
                  THEN [inner EXCEPT ![f.res].cache[f.want] = k] ELSE inner
      /\ UNCHANGED <<world, ech_bytes, generation, rebuilding, faults>>
  BY DEF Answer
<1>2. /\ stack[t] # << >> /\ f.pc = "op" /\ f \in Frame /\ f.res \in Resolver /\ f.want \in Resolver
      /\ inner[f.res] \in Instance
  BY <1>1, TopShape
<1>3. k \in Key \cup {NoKey}
  <2>1. CASE f.want = Sys
    BY <2>1
  <2>2. CASE f.want # Sys
    <3>1. f.want \in Res
      BY <1>2, <2>2 DEF Resolver
    <3>2. Held(f) \in Record
      BY <1>2, <3>1 DEF Held, Instance, Frame
    <3>3. published[f.want] \in Key \cup {NoKey}
      BY <3>1 DEF NInv, TypeOK
    <3> QED BY <3>2, <3>3 DEF Record
  <2> QED BY <2>1, <2>2
<1> HIDE DEF k
<1>4. inner' \in [Resolver -> Instance] /\ \A r \in Resolver : inner'[r].inst = inner[r].inst
  <2>1. inner \in [Resolver -> Instance]
    BY DEF NInv, TypeOK
  <2>2. CASE f.want # Sys /\ inner[f.res].inst = f.inst
    <3>1. f.want \in Res /\ k \in Record
      BY <1>2, <1>3, <2>2 DEF Resolver, Record
    <3> DEFINE i == [inner[f.res] EXCEPT !.cache = [@ EXCEPT ![f.want] = k]]
    <3>2. i \in Instance /\ i.inst = inner[f.res].inst
      BY <1>2, <3>1 DEF Instance
    <3>3. inner' = [inner EXCEPT ![f.res] = i]
      BY <1>1, <2>2
    <3> HIDE DEF i, f
    <3> QED BY <1>2, <2>1, <3>2, <3>3
  <2>3. CASE ~(f.want # Sys /\ inner[f.res].inst = f.inst)
    BY <1>1, <2>1, <2>3
  <2> QED BY <2>2, <2>3
<1>5. PICK n \in Seq(Frame) :
           /\ stack' = [stack EXCEPT ![t] = n] /\ WellStacked(n) /\ Builds(n) = Builds(stack[t])
           /\ n # << >> => n[1].pc # "swapped"
           /\ \A i \in DOMAIN n : Fits(n[i])
  BY <1>1, <1>3, Returned
<1>6. Head(stack[t]).pc # "swapped"
  BY <1>2, Stacks
<1>7. faults' \in 0 .. scope.faults
  BY <1>1 DEF NInv, TypeOK
<1> QED BY <1>1, <1>2, <1>4, <1>5, <1>6, <1>7, QuietStep

(* A lookup that fails. *)
LEMMA FailsStep ==
  ASSUME NInv, NEW t \in Task, At(t, "op"), stack' = ReturnErr(t), faults' \in 0 .. scope.faults,
         UNCHANGED <<world, inner, ech_bytes, generation, rebuilding>>
  PROVE  NInv'
<1>1. stack[t] # << >> /\ Top(t).pc = "op"
  BY TopShape
<1>2. PICK n \in Seq(Frame) :
           /\ stack' = [stack EXCEPT ![t] = n] /\ WellStacked(n) /\ Builds(n) = Builds(stack[t])
           /\ n # << >> => n[1].pc # "swapped"
           /\ \A i \in DOMAIN n : Fits(n[i])
  BY Returned
<1>3. Head(stack[t]).pc # "swapped"
  BY <1>1, Stacks
<1>4. inner' \in [Resolver -> Instance] /\ \A r \in Resolver : inner'[r].inst = inner[r].inst
  BY DEF NInv, TypeOK
<1> QED BY <1>1, <1>2, <1>3, <1>4, QuietStep

LEMMA FaultStep == ASSUME NInv, NEW t \in Task, Fault(t) PROVE NInv'
<1>1. faults' \in 0 .. scope.faults
  <2>1. scope.faults \in Nat /\ faults \in 0 .. scope.faults
    BY NamedAssumption DEF NInv, TypeOK, Scope
  <2> QED BY <2>1 DEF Fault
<1> QED BY <1>1, FailsStep DEF Fault

LEMMA RejectLastStep == ASSUME NInv, NEW t \in Task, RejectLast(t) PROVE NInv'
<1>1. faults' \in 0 .. scope.faults
  BY DEF RejectLast, NInv, TypeOK
<1> QED BY <1>1, FailsStep DEF RejectLast

(* A rebuild looks something up through another resolver. *)
LEMMA AsksStep ==
  ASSUME NInv, NEW t \in Task, NEW p \in {"boot", "ech"}, At(t, p), NEW q \in Waiting,
         NEW ask \in Resolver, NEW want \in Resolver,
         stack' = Push(t, [Top(t) EXCEPT !.pc = q], Lookup(ask, want)),
         UNCHANGED <<world, inner, ech_bytes, generation, rebuilding, faults>>
  PROVE  NInv'
<1> DEFINE s == stack[t]
           f == [Top(t) EXCEPT !.pc = q]
           g == Lookup(ask, want)
           n == <<g, f>> \o Tail(s)
<1>1. s # << >> /\ Top(t).pc = p /\ Top(t) \in Frame /\ Fits(Top(t))
  BY TopShape
<1>2. s \in Seq(Frame) /\ WellStacked(s) /\ Head(s) = Top(t) /\ \A i \in DOMAIN s : Fits(s[i])
  BY <1>1, Stacks
<1>3. q \in Building \ {"swapped"} /\ p \in Building \ {"swapped"} /\ Waiting \subseteq Building
  BY DEF Building, Waiting
<1>4. /\ f \in Frame /\ f.res = Top(t).res /\ f.cause = Top(t).cause /\ f.pc = q
      /\ f.seen = Top(t).seen /\ f.inst = Top(t).inst
  BY <1>1, <1>3 DEF Frame
<1>5. g \in Frame /\ g.pc = "seen" /\ g.cause = "rejected"
  BY DEF Lookup, Frame, Record
<1>6. Fits(f)
  BY <1>1, <1>3, <1>4, FitsOn
<1>7. Fits(g)
  BY <1>5 DEF Fits, Building
<1>8. stack' = [stack EXCEPT ![t] = n]
  BY DEF Push
<1> HIDE DEF f, g
<1>9. /\ n \in Seq(Frame) /\ DOMAIN n = 1 .. Len(s) + 1 /\ DOMAIN s = 1 .. Len(s) /\ n # << >>
      /\ n[1] = g /\ n[2] = f /\ \A i \in DOMAIN n : i > 2 => n[i] = s[i - 1]
  BY <1>1, <1>2, <1>4, <1>5, Pushed
<1>10. WellStacked(n) /\ Builds(n) = Builds(s)
  BY <1>1, <1>2, <1>3, <1>4, <1>5, PushKeeps
<1> HIDE DEF n
<1>11. \A i \in DOMAIN n : Fits(n[i])
  <2>1. Len(s) \in Nat
    BY <1>1, <1>2, Topped
  <2>2. \A i \in DOMAIN n : i = 1 \/ i = 2 \/ (i > 2 /\ i - 1 \in DOMAIN s)
    BY <1>9, <2>1
  <2> QED BY <1>2, <1>6, <1>7, <1>9, <2>2
<1>12. /\ inner' \in [Resolver -> Instance] /\ \A r \in Resolver : inner'[r].inst = inner[r].inst
       /\ faults' \in 0 .. scope.faults
  BY DEF NInv, TypeOK
<1> HIDE DEF s
<1>13. Head(s).pc # "swapped" /\ n[1].pc # "swapped"
  BY <1>1, <1>2, <1>3, <1>5, <1>9
<1> QED BY <1>1, <1>8, <1>9, <1>10, <1>11, <1>12, <1>13, QuietStep DEF s

LEMMA PlanShape ==
  ASSUME NInv, NEW r \in Res
  PROVE  /\ plan[r].bootstrap \in Resolver /\ plan[r].ech_resolver \in Resolver /\ r \in Resolver
         /\ r # Sys
BY NamedAssumption, ResAssumption DEF NInv, TypeOK, Scope, plan, Def, Resolver

LEMMA BootstrapStep == ASSUME NInv, NEW t \in Task, Bootstrap(t) PROVE NInv'
<1>1. At(t, "boot") /\ Top(t).res \in Res
  BY TopShape DEF Bootstrap, Building
<1>2. plan[Top(t).res].bootstrap \in Resolver /\ Sys \in Resolver
  BY <1>1, PlanShape DEF Resolver
<1> QED BY <1>1, <1>2, AsksStep DEF Bootstrap, Waiting

LEMMA FetchStep == ASSUME NInv, NEW t \in Task, Fetch(t) PROVE NInv'
<1>1. At(t, "ech") /\ Top(t).res \in Res
  BY TopShape DEF Fetch, Building
<1>2. plan[Top(t).res].ech_resolver \in Resolver /\ Top(t).res \in Resolver
  BY <1>1, PlanShape
<1> QED BY <1>1, <1>2, AsksStep DEF Fetch, Waiting

-----------------------------------------------------------------------------
(* The steps that take or give up a mutex, or replace an instance. *)
LEMMA MutexHeld ==
  ASSUME NInv
  PROVE  \A r \in Res, u \in Task : rebuilding[r] = u <=> r \in Builds(stack[u])
BY DEF NInv, TypeOK, Builds

LEMMA StackStep ==
  ASSUME NInv, NEW t \in Task, stack[t] # << >>,
         NEW n \in Seq(Frame), stack' = [stack EXCEPT ![t] = n], WellStacked(n),
         inner' \in [Resolver -> Instance], generation' \in [Resolver -> Nat],
         rebuilding' \in [Res -> Task \cup {NoTask}], ech_bytes' \in [Res -> Key \cup {NoKey}],
         UNCHANGED <<world, faults>>,
         \A r \in Res : \A u \in Task \ {t} : rebuilding'[r] = u <=> rebuilding[r] = u,
         \A r \in Res : rebuilding'[r] = t <=> r \in Builds(n),
         \A i \in DOMAIN n : Fits(n[i])',
         \A f \in Frame : \A u \in Task \ {t} : \A i \in DOMAIN stack[u] :
           f = stack[u][i] /\ Fits(f) => Fits(f)',
         Counted'
  PROVE  NInv'
<1>1. UNCHANGED <<scope, serverKey, published, started>>
  BY DEF world
<1>2. stack' \in [Task -> Seq(Frame)] /\ stack'[t] = n /\ \A u \in Task : u # t => stack'[u] = stack[u]
  BY DEF NInv, TypeOK
<1>3. TypeOK'
  <2>1. \A r \in Res, u \in Task : rebuilding'[r] = u <=> r \in Builds(stack'[u])
    BY <1>2, MutexHeld
  <2>2. \A r \in Res, u \in Task : rebuilding'[r] = u
          <=> \E i \in DOMAIN stack'[u] : stack'[u][i].res = r /\ stack'[u][i].pc \in Building
    BY <2>1 DEF Builds
  <2> QED BY <1>1, <1>2, <2>2 DEF NInv, TypeOK
<1>4. ASSUME NEW u \in Task PROVE (WellStacked(stack[u]) /\ \A i \in DOMAIN stack[u] : Fits(stack[u][i]))'
  <2>1. CASE u = t
    BY <1>2, <2>1 DEF WellStacked, Fits, Uses, plan
  <2>2. CASE u # t
    <3>1. stack'[u] = stack[u] /\ WellStacked(stack[u])
          /\ \A i \in DOMAIN stack[u] : stack[u][i] \in Frame /\ Fits(stack[u][i])
      BY <1>2, <2>2, Stacks
    <3>2. \A f \in Frame : \A i \in DOMAIN stack[u] : f = stack[u][i] => Fits(f)'
      BY <2>2, <3>1
    <3>3. \A i \in DOMAIN stack'[u] : Fits(stack[u][i])'
      BY <3>1, <3>2 DEF Fits, Uses, plan
    <3> QED BY <3>1, <3>3 DEF WellStacked
  <2> QED BY <2>1, <2>2
<1>5. (\A u \in Query \ started : stack[u] = << >>)'
  BY <1>1, <1>2 DEF NInv
<1> QED BY <1>3, <1>4, <1>5 DEF NInv

(* Whoever rebuilds a resolver is the only one to, in one frame. *)
LEMMA SoleBuilder ==
  ASSUME NInv, NEW t \in Task, NEW p \in Building, At(t, p)
  PROVE  /\ Top(t).res \in Res /\ rebuilding[Top(t).res] = t /\ Top(t).res \in Builds(stack[t])
         /\ \A u \in Task : u # t => Top(t).res \notin Builds(stack[u])
         /\ \A i \in DOMAIN stack[t] : i > 1 /\ stack[t][i].pc \in Building => stack[t][i].res # Top(t).res
<1>1. /\ stack[t] # << >> /\ Top(t).pc = p /\ Top(t).res \in Res
      /\ Top(t) = stack[t][1] /\ 1 \in DOMAIN stack[t] /\ WellStacked(stack[t])
  BY TopShape, Stacks
<1>2. Top(t).res \in Builds(stack[t])
  BY <1>1 DEF Builds
<1>3. rebuilding[Top(t).res] = t
  BY <1>1, <1>2, MutexHeld
<1>4. \A u \in Task : u # t => Top(t).res \notin Builds(stack[u])
  BY <1>1, <1>3, MutexHeld
<1>5. \A i \in DOMAIN stack[t] : i > 1 /\ stack[t][i].pc \in Building => stack[t][i].res # Top(t).res
  BY <1>1 DEF WellStacked
<1> QED BY <1>1, <1>2, <1>3, <1>4, <1>5

(* A resolver is only ahead while its mutex is held by the task that swaps. *)
LEMMA AheadMeans ==
  ASSUME NInv, NEW r \in Resolver
  PROVE  /\ Ahead(r) => r \in Res /\ \E u \in Task : rebuilding[r] = u /\ At(u, "swapped") /\ Top(u).res = r
         /\ \A u \in Task : r \in Builds(stack[u]) /\ ~(At(u, "swapped") /\ Top(u).res = r) => ~Ahead(r)
<1>1. ASSUME NEW u \in Task, At(u, "swapped"), Top(u).res = r
      PROVE  r \in Res /\ rebuilding[r] = u
  BY <1>1, SoleBuilder DEF Building
<1>2. Ahead(r) => r \in Res /\ \E u \in Task : rebuilding[r] = u /\ At(u, "swapped") /\ Top(u).res = r
  BY <1>1 DEF Ahead
<1>3. ASSUME NEW u \in Task, r \in Builds(stack[u]), ~(At(u, "swapped") /\ Top(u).res = r), Ahead(r)
      PROVE  FALSE
  <2>1. PICK v \in Task : rebuilding[r] = v /\ At(v, "swapped") /\ Top(v).res = r /\ r \in Res
    BY <1>2, <1>3
  <2>2. rebuilding[r] = u
    BY <1>3, <2>1, MutexHeld
  <2> QED BY <1>3, <2>1, <2>2
<1> QED BY <1>2, <1>3

(* The stack once a rebuild is over. *)
LEMMA RebuiltStack ==
  ASSUME NInv, NEW t \in Task, stack[t] # << >>, Top(t).pc \in Building
  PROVE  \E n \in Seq(Frame) :
           /\ Rebuilt(t) = [stack EXCEPT ![t] = n] /\ WellStacked(n)
           /\ Builds(n) = Builds(stack[t]) \ {Top(t).res}
           /\ n # << >> => n[1] \in Frame /\ n[1].pc = "seen" /\ n[1].res = Top(t).res
           /\ \A i \in DOMAIN n : i = 1 \/ (i > 1 /\ i \in DOMAIN stack[t] /\ n[i] = stack[t][i])
           /\ DOMAIN n # {} => n # << >>
<1> DEFINE s == stack[t]
<1>1. /\ s \in Seq(Frame) /\ WellStacked(s) /\ Head(s) = Top(t) /\ Top(t) \in Frame
      /\ Top(t) = s[1] /\ 1 \in DOMAIN s
  BY Stacks
<1>2. CASE Top(t).cause = "rotation"
  <2>1. Len(s) = 1
    BY <1>1, <1>2 DEF WellStacked
  <2>2. /\ Tail(s) = << >> /\ WellStacked(<< >>) /\ Builds(<< >>) = {} /\ << >> \in Seq(Frame)
        /\ Builds(s) = {Top(t).res}
    BY <2>1, Alone
  <2>3. DOMAIN << >> = {}
    OBVIOUS
  <2>4. Rebuilt(t) = [stack EXCEPT ![t] = << >>]
    BY <1>2, <2>2 DEF Rebuilt, Pop
  <2> QED BY <2>2, <2>3, <2>4
<1>3. CASE Top(t).cause # "rotation"
  <2> DEFINE k == Top(t).attempt + 1
             f == [Top(t) EXCEPT !.pc = "seen", !.attempt = k]
             n == <<f>> \o Tail(s)
  <2>1. Rebuilt(t) = [stack EXCEPT ![t] = n]
    BY <1>3 DEF Rebuilt, Frames
  <2>2. k \in Nat
    BY <1>1 DEF Frame
  <2> HIDE DEF k
  <2>3. f \in Frame /\ f.res = Top(t).res /\ f.cause = Top(t).cause /\ f.pc = "seen"
    BY <1>1, <2>2 DEF Frame
  <2> HIDE DEF f
  <2>4. f.pc \notin Waiting /\ f.pc \notin Building
    BY <2>3 DEF Waiting, Building
  <2>5. /\ n \in Seq(Frame) /\ DOMAIN n = DOMAIN s /\ n # << >> /\ n[1] = f
        /\ \A i \in DOMAIN n : i > 1 => n[i] = s[i]
    BY <1>1, <2>3, Replaced
  <2>6. WellStacked(n) /\ Builds(n) = Builds(s) \ {f.res}
    BY <1>1, <2>3, <2>4, ReplaceKeeps
  <2> HIDE DEF n
  <2>7. \A i \in DOMAIN n : i = 1 \/ i > 1
    BY <2>5, FrameAt
  <2> QED BY <2>1, <2>3, <2>5, <2>6, <2>7
<1> QED BY <1>2, <1>3

LEMMA LockBuildStep == ASSUME NInv, NEW t \in Task, LockBuild(t) PROVE NInv'
<1> DEFINE s == stack[t]
<1>0. PICK r, f, n : r = Top(t).res /\ f = [Top(t) EXCEPT !.pc = "boot"] /\ n = <<f>> \o Tail(s)
  OBVIOUS
<1>1. /\ At(t, "lock") /\ rebuilding[r] = NoTask /\ generation[r] = Top(t).seen
      /\ rebuilding' = [rebuilding EXCEPT ![r] = t] /\ stack' = [stack EXCEPT ![t] = n]
      /\ UNCHANGED <<world, inner, ech_bytes, generation, faults>>
  BY <1>0 DEF LockBuild, Frames
<1>2. /\ s # << >> /\ Top(t).pc = "lock" /\ Top(t) \in Frame /\ Fits(Top(t)) /\ r \in Res /\ Uses(r)
      /\ r \in Resolver /\ generation[r] \in Nat /\ inner[r].inst \in Nat /\ Top(t).inst \in Nat
  BY <1>0, <1>1, TopShape
<1>3. s \in Seq(Frame) /\ WellStacked(s) /\ Head(s) = Top(t)
  BY <1>2, Stacks
<1>4. "boot" \in Building \ {"swapped"} /\ "boot" \notin Waiting /\ "lock" \notin Building
  BY DEF Building, Waiting
<1>5. /\ f \in Frame /\ f.res = r /\ f.cause = Top(t).cause /\ f.pc = "boot"
      /\ f.seen = Top(t).seen /\ f.inst = Top(t).inst
  BY <1>0, <1>2, <1>4 DEF Frame
<1>6. \A u \in Task : r \notin Builds(stack[u])
  BY <1>1, <1>2, MutexHeld, NamedAssumption
<1>7. inner[r].inst = generation[r]
  <2>1. ~Ahead(r)
    BY <1>1, <1>2, AheadMeans, NamedAssumption
  <2> QED BY <1>2, <2>1 DEF NInv, Counted
<1>8. Fits(f)
  <2>1. Top(t).cause = "rejected" => Top(t).seen <= Top(t).inst /\ Top(t).inst <= inner[r].inst
    BY <1>0, <1>2 DEF Fits
  <2>2. /\ generation[r] = f.seen
        /\ f.cause = "rejected" => f.seen <= f.inst /\ f.inst <= inner[r].inst /\ inner[r].inst = f.inst
    BY <1>1, <1>2, <1>5, <1>7, <2>1
  <2> QED BY <1>2, <1>4, <1>5, <2>2 DEF Fits
<1>9. /\ n \in Seq(Frame) /\ DOMAIN n = DOMAIN s /\ n # << >> /\ n[1] = f
      /\ \A i \in DOMAIN n : i > 1 => n[i] = s[i]
  BY <1>0, <1>2, <1>3, <1>5, Replaced
<1>10. WellStacked(n) /\ Builds(n) = Builds(s) \cup {r}
  BY <1>0, <1>2, <1>3, <1>4, <1>5, <1>6, ReplaceKeeps
<1>11. \A i \in DOMAIN n : i = 1 \/ i > 1
  BY <1>9, FrameAt
<1>12. \A i \in DOMAIN n : n[i] \in Frame /\ Fits(n[i])
  BY <1>2, <1>5, <1>8, <1>9, <1>11, Stacks
<1>13. \A e \in Frame : Fits(e) => Fits(e)'
  BY <1>1 DEF Fits, Uses, plan, world
<1>14. \A i \in DOMAIN n : Fits(n[i])'
  BY <1>1, <1>12 DEF Fits, Uses, plan, world
<1>15. \A q \in Res : \A u \in Task \ {t} : rebuilding'[q] = u <=> rebuilding[q] = u
  BY <1>1, <1>2, NamedAssumption DEF NInv, TypeOK
<1>16. \A q \in Res : rebuilding'[q] = t <=> q \in Builds(n)
  BY <1>1, <1>2, <1>10, MutexHeld DEF NInv, TypeOK
<1>17. Counted'
  <2>1. stack'[t] = n /\ \A u \in Task : u # t => stack'[u] = stack[u]
    BY <1>1, <1>9 DEF NInv, TypeOK
  <2>2. ~At(t, "swapped") /\ ~At(t, "swapped")'
    BY <1>2, <1>3, <1>4, <1>5, <1>9, <2>1, Topped DEF At, Top
  <2>3. \A q : Ahead(q)' <=> Ahead(q)
    BY <2>1, <2>2 DEF Ahead, At, Top
  <2> QED BY <1>1, <2>3 DEF NInv, Counted
<1>18. /\ inner' \in [Resolver -> Instance] /\ generation' \in [Resolver -> Nat]
       /\ rebuilding' \in [Res -> Task \cup {NoTask}] /\ ech_bytes' \in [Res -> Key \cup {NoKey}]
  BY <1>1 DEF NInv, TypeOK
<1>19. stack' = [stack EXCEPT ![t] = n] /\ UNCHANGED <<world, faults>>
  BY <1>1
<1> QED BY <1>2, <1>9, <1>10, <1>13, <1>14, <1>15, <1>16, <1>17, <1>18, <1>19, StackStep

(* A rebuild gives its mutex up. *)
LEMMA EndStep ==
  ASSUME NInv, NEW t \in Task, NEW p \in Building, At(t, p), stack' = Rebuilt(t), Unlock(Top(t).res),
         \/ p # "swapped" /\ UNCHANGED generation
         \/ p = "swapped" /\ generation' = [generation EXCEPT ![Top(t).res] = @ + 1],
         UNCHANGED <<world, inner, ech_bytes, faults>>
  PROVE  NInv'
<1> DEFINE s == stack[t]
<1>0. PICK r : r = Top(t).res
  OBVIOUS
<1>1. /\ s # << >> /\ Top(t).pc = p /\ r \in Res /\ r \in Resolver /\ r \in Builds(s)
      /\ rebuilding[r] = t /\ \A u \in Task : u # t => r \notin Builds(stack[u])
      /\ s \in Seq(Frame)
  BY <1>0, TopShape, SoleBuilder, Stacks
<1>2. PICK n \in Seq(Frame) :
           /\ Rebuilt(t) = [stack EXCEPT ![t] = n] /\ WellStacked(n)
           /\ Builds(n) = Builds(s) \ {r}
           /\ n # << >> => n[1] \in Frame /\ n[1].pc = "seen" /\ n[1].res = r
           /\ \A i \in DOMAIN n : i = 1 \/ (i > 1 /\ i \in DOMAIN s /\ n[i] = s[i])
           /\ DOMAIN n # {} => n # << >>
  BY <1>0, <1>1, RebuiltStack
<1>3. stack'[t] = n /\ \A u \in Task : u # t => stack'[u] = stack[u]
  BY <1>2 DEF NInv, TypeOK
<1>4. /\ generation' \in [Resolver -> Nat] /\ \A q \in Resolver : generation[q] <= generation'[q]
      /\ \A q \in Resolver : q # r \/ p # "swapped" => generation'[q] = generation[q]
      /\ p = "swapped" => generation'[r] = generation[r] + 1
  <2>1. generation \in [Resolver -> Nat]
    BY DEF NInv, TypeOK
  <2>2. CASE p = "swapped"
    <3>1. generation' = [generation EXCEPT ![r] = generation[r] + 1]
      BY <1>0, <2>2
    <3>2. generation[r] + 1 \in Nat /\ \A q \in Resolver : generation[q] <= generation[q]
      BY <1>1, <2>1
    <3> QED BY <1>1, <2>1, <2>2, <3>1, <3>2
  <2>3. CASE p # "swapped"
    BY <2>1, <2>3
  <2> QED BY <2>2, <2>3
<1>5. rebuilding' = [rebuilding EXCEPT ![r] = NoTask] /\ rebuilding \in [Res -> Task \cup {NoTask}]
  BY <1>0 DEF Unlock, NInv, TypeOK
<1>6. ASSUME NEW f \in Frame, Fits(f) PROVE Fits(f)'
  <2>1. f.res \in Resolver /\ inner[f.res].inst \in Nat /\ inner'[f.res].inst = inner[f.res].inst
    BY DEF Frame, NInv, TypeOK, Instance
  <2>2. generation[f.res] <= generation'[f.res] /\ generation'[f.res] \in Nat
    BY <1>4, <2>1
  <2> QED BY <1>6, <2>1, <2>2, FitsStill DEF world
<1>7. \A i \in DOMAIN n : n[i] \in Frame /\ Fits(n[i])
  <2>1. ASSUME NEW i \in DOMAIN n PROVE n[i] \in Frame /\ Fits(n[i])
    <3>1. CASE i = 1
      BY <1>2, <3>1 DEF Fits, Building
    <3>2. CASE i # 1
      BY <1>2, <3>2, Stacks
    <3> QED BY <3>1, <3>2
  <2> QED BY <2>1
<1>8. \A i \in DOMAIN n : Fits(n[i])'
  BY <1>6, <1>7 DEF Fits, Uses, plan
<1>9. \A q \in Res : \A u \in Task \ {t} : rebuilding'[q] = u <=> rebuilding[q] = u
  BY <1>1, <1>5, NamedAssumption
<1>10. \A q \in Res : rebuilding'[q] = t <=> q \in Builds(n)
  BY <1>1, <1>2, <1>5, MutexHeld, NamedAssumption
<1>11. Counted'
  <2>1. ~At(t, "swapped")'
    <3>1. n # << >> => Head(n).pc = "seen"
      BY <1>2, Topped
    <3> QED BY <1>3, <3>1 DEF At, Top
  <2>2. \A q : q # r \/ p # "swapped" => (Ahead(q)' <=> Ahead(q))
    <3>1. At(t, "swapped") => p = "swapped" /\ Top(t).res = r
      BY <1>0, <1>1 DEF At
    <3>2. \A u \in Task : u # t => (At(u, "swapped")' <=> At(u, "swapped"))
                                   /\ \A q : (Top(u).res = q)' <=> Top(u).res = q
      BY <1>3 DEF At, Top
    <3> QED BY <2>1, <3>1, <3>2 DEF Ahead
  <2>3. p = "swapped" => Ahead(r)
    BY <1>0, <1>1 DEF Ahead
  <2>4. p = "swapped" => ~Ahead(r)'
    <3>1. \A u \in Task : u # t => ~(At(u, "swapped") /\ Top(u).res = r)
      BY <1>1, SoleBuilder DEF Building
    <3>2. \A u \in Task : ~(At(u, "swapped") /\ Top(u).res = r)'
      BY <1>3, <2>1, <3>1 DEF At, Top
    <3> QED BY <3>2 DEF Ahead
  <2>5. ASSUME NEW q \in Resolver
        PROVE  inner'[q].inst = IF Ahead(q)' THEN generation'[q] + 1 ELSE generation'[q]
    <3>0. inner'[q].inst = IF Ahead(q) THEN generation[q] + 1 ELSE generation[q]
      BY DEF NInv, Counted
    <3>1. CASE q # r \/ p # "swapped"
      BY <1>4, <2>2, <3>0, <3>1
    <3>2. CASE q = r /\ p = "swapped"
      BY <1>4, <2>3, <2>4, <3>0, <3>2
    <3> QED BY <3>1, <3>2
  <2> QED BY <2>5 DEF Counted
<1>12. /\ inner' \in [Resolver -> Instance] /\ rebuilding' \in [Res -> Task \cup {NoTask}]
       /\ ech_bytes' \in [Res -> Key \cup {NoKey}]
  BY <1>5 DEF NInv, TypeOK
<1> QED BY <1>1, <1>2, <1>4, <1>6, <1>8, <1>9, <1>10, <1>11, <1>12, StackStep

LEMMA BuildFailedStep == ASSUME NInv, NEW t \in Task, BuildFailed(t) PROVE NInv'
<1>1. \E p \in {"failed", "choose"} : At(t, p)
  BY DEF BuildFailed
<1> QED BY <1>1, EndStep DEF BuildFailed, Building

LEMMA KeepLiveStep == ASSUME NInv, NEW t \in Task, KeepLive(t) PROVE NInv'
BY EndStep DEF KeepLive, Building

LEMMA SwapGenerationStep == ASSUME NInv, NEW t \in Task, SwapGeneration(t) PROVE NInv'
BY EndStep DEF SwapGeneration, Building

LEMMA SwapInnerStep == ASSUME NInv, NEW t \in Task, SwapInner(t) PROVE NInv'
<1> DEFINE s == stack[t]
<1>0. PICK r, f, n : r = Top(t).res /\ f = [Top(t) EXCEPT !.pc = "swapped"] /\ n = <<f>> \o Tail(s)
  OBVIOUS
<1>1. /\ At(t, "choose") /\ stack' = [stack EXCEPT ![t] = n]
      /\ inner' = [inner EXCEPT ![r] = [key |-> Top(t).built, inst |-> inner[r].inst + 1,
                                        cache |-> [q \in Res |-> NoRecord]]]
      /\ ech_bytes' = [ech_bytes EXCEPT ![r] = Top(t).built]
      /\ UNCHANGED <<world, generation, rebuilding, faults>>
  BY <1>0 DEF SwapInner, Frames
<1>2. /\ s # << >> /\ Top(t).pc = "choose" /\ Top(t) \in Frame /\ Fits(Top(t)) /\ r \in Res /\ Uses(r)
      /\ r \in Resolver /\ generation[r] \in Nat /\ inner[r].inst \in Nat /\ Top(t).inst \in Nat
      /\ Top(t).seen \in Nat
  BY <1>0, <1>1, TopShape DEF Building
<1>3. s \in Seq(Frame) /\ WellStacked(s) /\ Head(s) = Top(t)
  BY <1>2, Stacks
<1>4. "swapped" \in Building /\ "swapped" \notin Waiting /\ "choose" \in Building
  BY DEF Building, Waiting
<1>5. /\ f \in Frame /\ f.res = r /\ f.cause = Top(t).cause /\ f.pc = "swapped"
      /\ f.seen = Top(t).seen /\ f.inst = Top(t).inst
  BY <1>0, <1>2, <1>4 DEF Frame
<1>6. /\ rebuilding[r] = t /\ r \in Builds(s) /\ \A u \in Task : u # t => r \notin Builds(stack[u])
      /\ \A i \in DOMAIN s : i > 1 /\ s[i].pc \in Building => s[i].res # r
  BY <1>0, <1>1, <1>4, SoleBuilder
<1>7. inner[r].inst = generation[r]
  <2>1. ~At(t, "swapped")
    BY <1>2 DEF At
  <2>2. ~Ahead(r)
    BY <1>2, <1>6, <2>1, AheadMeans
  <2> QED BY <1>2, <2>2 DEF NInv, Counted
<1>8. /\ inner' \in [Resolver -> Instance] /\ inner'[r].inst = inner[r].inst + 1
      /\ \A q \in Resolver : q # r => inner'[q].inst = inner[q].inst
      /\ ech_bytes' \in [Res -> Key \cup {NoKey}]
  <2>1. inner \in [Resolver -> Instance] /\ ech_bytes \in [Res -> Key \cup {NoKey}]
    BY DEF NInv, TypeOK
  <2>2. Top(t).built \in Key \cup {NoKey}
    BY <1>2 DEF Frame
  <2>3. PICK e : e = [key |-> Top(t).built, inst |-> inner[r].inst + 1, cache |-> [q \in Res |-> NoRecord]]
    OBVIOUS
  <2>4. [q \in Res |-> NoRecord] \in [Res -> Record]
    BY DEF Record
  <2>5. e \in Instance /\ e.inst = inner[r].inst + 1
    BY <1>2, <2>2, <2>3, <2>4 DEF Instance
  <2>6. inner' = [inner EXCEPT ![r] = e]
    BY <1>1, <2>3
  <2>7. ech_bytes' \in [Res -> Key \cup {NoKey}]
    BY <1>1, <2>1, <2>2
  <2> QED BY <1>2, <2>1, <2>5, <2>6, <2>7
<1>9. /\ n \in Seq(Frame) /\ DOMAIN n = DOMAIN s /\ n # << >> /\ n[1] = f
      /\ \A i \in DOMAIN n : i > 1 => n[i] = s[i]
  BY <1>0, <1>2, <1>3, <1>5, Replaced
<1>10. WellStacked(n) /\ Builds(n) = Builds(s)
  <2>0. Head(s).pc \in Building /\ f.pc \in Building /\ f.pc \notin Waiting
        /\ f.res = Head(s).res /\ f.cause = Head(s).cause
    BY <1>0, <1>2, <1>3, <1>4, <1>5
  <2>1. WellStacked(n) /\ Builds(n) = Builds(s) \cup {r}
    <3> HIDE DEF s
    <3>1. /\ WellStacked(<<f>> \o Tail(s))
          /\ f.pc \in Building => Builds(<<f>> \o Tail(s)) = Builds(s) \cup {f.res}
      BY ONLY <1>2, <1>3, <1>5, <2>0, ReplaceKeeps
    <3> QED BY <1>0, <1>5, <2>0, <3>1
  <2> QED BY <1>6, <2>1
<1>11. \A i \in DOMAIN n : i = 1 \/ i > 1
  BY <1>9, FrameAt
<1>12. ASSUME NEW e \in Frame, Fits(e), e.pc \in Building => e.res # r PROVE Fits(e)'
  <2>1. e.res \in Resolver /\ inner[e.res].inst \in Nat /\ inner'[e.res].inst \in Nat
        /\ generation[e.res] \in Nat
    BY <1>8 DEF Frame, NInv, TypeOK, Instance
  <2>2. /\ inner[e.res].inst <= inner'[e.res].inst
        /\ e.res # r => inner'[e.res].inst = inner[e.res].inst
    BY <1>8, <2>1
  <2>3. generation'[e.res] = generation[e.res]
    BY <1>1
  <2> QED BY <1>1, <1>12, <2>1, <2>2, <2>3, FitsStill DEF world
<1>13. Fits(f)'
  <2>1. f.cause = "rejected" => f.seen <= f.inst /\ f.inst = inner[r].inst /\ f.seen <= generation[r]
    BY <1>0, <1>2, <1>5 DEF Fits, Building
  <2>2. f.cause = "rejected" => f.seen <= f.inst /\ f.inst <= inner'[r].inst /\ f.seen <= generation'[r]
    BY <1>1, <1>2, <1>5, <1>8, <2>1
  <2>3. Uses(r)'
    BY <1>1, <1>2 DEF Uses, plan, world
  <2> QED BY <1>5, <2>2, <2>3 DEF Fits
<1>14. \A i \in DOMAIN n : Fits(n[i])'
  <2>1. ASSUME NEW i \in DOMAIN n PROVE Fits(n[i])'
    <3>1. CASE i = 1
      BY <1>9, <1>13, <3>1
    <3>2. CASE i > 1
      BY <1>6, <1>9, <1>12, <3>2, Stacks
    <3> QED BY <1>11, <3>1, <3>2
  <2> QED BY <2>1
<1>15. \A e \in Frame : \A u \in Task \ {t} : \A i \in DOMAIN stack[u] :
         e = stack[u][i] /\ Fits(e) => Fits(e)'
  <2>1. \A u \in Task \ {t} : \A i \in DOMAIN stack[u] : stack[u][i].pc \in Building => stack[u][i].res # r
    BY <1>6 DEF Builds
  <2> QED BY <1>12, <2>1
<1>16. /\ \A q \in Res : \A u \in Task \ {t} : rebuilding'[q] = u <=> rebuilding[q] = u
       /\ \A q \in Res : rebuilding'[q] = t <=> q \in Builds(n)
  BY <1>1, <1>10, MutexHeld
<1>17. Counted'
  <2>1. stack'[t] = n /\ \A u \in Task : u # t => stack'[u] = stack[u]
    BY <1>1 DEF NInv, TypeOK
  <2>2. At(t, "swapped")' /\ (Top(t).res = r)' /\ ~At(t, "swapped")
    <3>1. Head(n) = f
      BY <1>9, Topped
    <3> QED BY <1>2, <1>5, <1>9, <2>1, <3>1 DEF At, Top
  <2>3. Ahead(r)'
    BY <2>2 DEF Ahead
  <2>4. \A q : q # r => (Ahead(q)' <=> Ahead(q))
    <3>1. \A u \in Task : u # t => (At(u, "swapped")' <=> At(u, "swapped"))
                                   /\ \A q : (Top(u).res = q)' <=> Top(u).res = q
      BY <2>1 DEF At, Top
    <3> QED BY <2>2, <3>1 DEF Ahead
  <2>5. ASSUME NEW q \in Resolver
        PROVE  inner'[q].inst = IF Ahead(q)' THEN generation'[q] + 1 ELSE generation'[q]
    <3>1. CASE q = r
      BY <1>1, <1>7, <1>8, <2>3, <3>1
    <3>2. CASE q # r
      BY <1>1, <1>8, <2>4, <3>2 DEF NInv, Counted
    <3> QED BY <3>1, <3>2
  <2> QED BY <2>5 DEF Counted
<1>18. generation' \in [Resolver -> Nat] /\ rebuilding' \in [Res -> Task \cup {NoTask}]
  BY <1>1 DEF NInv, TypeOK
<1> QED BY <1>1, <1>2, <1>8, <1>9, <1>10, <1>14, <1>15, <1>16, <1>17, <1>18, StackStep

-----------------------------------------------------------------------------
(* A step that leaves every stack alone. *)
LEMMA WorldStep ==
  ASSUME NInv, inner' \in [Resolver -> Instance], \A r \in Resolver : inner'[r].inst = inner[r].inst,
         serverKey' \in [Res -> Key], published' \in [Res -> Key \cup {NoKey}],
         faults' \in 0 .. scope.faults,
         UNCHANGED <<scope, started, stack, ech_bytes, generation, rebuilding>>
  PROVE  NInv'
<1>1. TypeOK'
  BY DEF NInv, TypeOK
<1>2. ASSUME NEW f \in Frame, Fits(f) PROVE Fits(f)'
  <2>1. f.res \in Resolver /\ inner[f.res].inst \in Nat /\ generation[f.res] \in Nat
    BY DEF Frame, NInv, TypeOK, Instance
  <2> QED BY <1>2, <2>1, FitsStill
<1>3. (\A t \in Task : WellStacked(stack[t]) /\ \A i \in DOMAIN stack[t] : Fits(stack[t][i]))'
  <2>1. \A t \in Task : /\ WellStacked(stack[t])
                        /\ \A i \in DOMAIN stack[t] : stack[t][i] \in Frame /\ Fits(stack[t][i])
    BY Stacks
  <2>2. \A t \in Task : \A i \in DOMAIN stack'[t] : Fits(stack[t][i])'
    BY <1>2, <2>1 DEF Fits, Uses, plan
  <2> QED BY <2>1, <2>2 DEF WellStacked
<1>4. (\A t \in Query \ started : stack[t] = << >>)' /\ Counted'
  BY DEF NInv, Counted, Ahead, At, Top
<1> QED BY <1>1, <1>3, <1>4 DEF NInv

(* A task begins. *)
LEMMA BeginStep ==
  ASSUME NInv, NEW t \in Task, stack[t] = << >>, NEW f \in Frame, stack' = [stack EXCEPT ![t] = <<f>>],
         f.pc \in {"seen", "lock"}, Fits(f), started' = started \cup ({t} \cap Query),
         UNCHANGED <<scope, serverKey, published, inner, ech_bytes, generation, rebuilding, faults>>
  PROVE  NInv'
<1>1. /\ stack' \in [Task -> Seq(Frame)] /\ stack'[t] = <<f>>
      /\ \A u \in Task : u # t => stack'[u] = stack[u]
  <2>1. <<f>> \in Seq(Frame)
    OBVIOUS
  <2> QED BY <2>1 DEF NInv, TypeOK
<1>2. DOMAIN <<f>> = {1} /\ <<f>>[1] = f /\ Head(<<f>>) = f /\ Len(<<f>>) = 1 /\ DOMAIN << >> = {}
  OBVIOUS
<1>3. f.pc \notin Building /\ f.pc \notin Waiting /\ f.pc # "swapped"
  BY DEF Building, Waiting
<1>4. WellStacked(<<f>>) /\ Builds(<<f>>) = {} /\ Builds(<< >>) = {}
  BY <1>2, <1>3 DEF WellStacked, Builds
<1>5. TypeOK'
  <2>1. \A r \in Res, u \in Task : rebuilding'[r] = u <=> r \in Builds(stack'[u])
    BY <1>1, <1>4, MutexHeld
  <2>2. \A r \in Res, u \in Task : rebuilding'[r] = u
          <=> \E i \in DOMAIN stack'[u] : stack'[u][i].res = r /\ stack'[u][i].pc \in Building
    BY <2>1 DEF Builds
  <2>3. started' \subseteq Query
    BY DEF NInv, TypeOK
  <2> QED BY <1>1, <2>2, <2>3 DEF NInv, TypeOK
<1>6. ASSUME NEW u \in Task PROVE (WellStacked(stack[u]) /\ \A i \in DOMAIN stack[u] : Fits(stack[u][i]))'
  <2>1. WellStacked(stack'[u]) /\ \A i \in DOMAIN stack'[u] : Fits(stack'[u][i])
    BY <1>1, <1>2, <1>4, Stacks
  <2> QED BY <2>1 DEF WellStacked, Fits, Uses, plan
<1>7. (\A u \in Query \ started : stack[u] = << >>)'
  BY <1>1 DEF NInv, Task
<1>8. Counted'
  <2>1. ~At(t, "swapped") /\ ~At(t, "swapped")'
    BY <1>1, <1>2, <1>3 DEF At, Top
  <2>2. \A q : Ahead(q)' <=> Ahead(q)
    <3>1. \A u \in Task : u # t => (At(u, "swapped")' <=> At(u, "swapped"))
                                   /\ \A q : (Top(u).res = q)' <=> Top(u).res = q
      BY <1>1 DEF At, Top
    <3> QED BY <2>1, <3>1 DEF Ahead
  <2> QED BY <2>2 DEF NInv, Counted
<1> QED BY <1>5, <1>6, <1>7, <1>8 DEF NInv

LEMMA StartStep == ASSUME NInv, NEW t \in Query, Start(t) PROVE NInv'
<1>1. PICK r \in Res : stack' = [stack EXCEPT ![t] = <<Lookup(r, Sys)>>]
  BY DEF Start
<1>2. PICK f : f = Lookup(r, Sys)
  OBVIOUS
<1>3. f \in Frame /\ f.pc = "seen"
  BY <1>2 DEF Lookup, Frame, Record, Resolver
<1>4. Fits(f)
  BY <1>3 DEF Fits, Building
<1>5. t \in Task /\ stack[t] = << >> /\ started' = started \cup ({t} \cap Query)
  BY DEF Start, Task, NInv, TypeOK
<1> QED BY <1>1, <1>2, <1>3, <1>4, <1>5, BeginStep DEF Start

LEMMA TickStep == ASSUME NInv, NEW r \in Res, Tick(r) PROVE NInv'
<1>1. PICK f : f = [Lookup(r, Sys) EXCEPT !.pc = "lock", !.cause = "rotation", !.seen = generation[r]]
  OBVIOUS
<1>2. generation[r] \in Nat
  BY DEF NInv, TypeOK, Resolver
<1>3. f \in Frame /\ f.pc = "lock" /\ f.cause = "rotation" /\ f.res = r
  BY <1>1, <1>2 DEF Lookup, Frame, Record, Resolver
<1>4. Fits(f)
  BY <1>3 DEF Fits, Building, Tick
<1>5. Refresher[r] \in Task /\ stack[Refresher[r]] = << >> /\ {Refresher[r]} \cap Query = {}
  BY NamedAssumption DEF Tick, Task
<1> QED BY <1>1, <1>3, <1>4, <1>5, BeginStep DEF Tick, world

LEMMA ZonesStep == ASSUME NInv, NEW r \in Res, Rotate(r) \/ Publish(r) \/ Withdraw(r) PROVE NInv'
<1>1. inner' \in [Resolver -> Instance] /\ \A q \in Resolver : inner'[q].inst = inner[q].inst
  BY DEF Rotate, Publish, Withdraw, NInv, TypeOK
<1>2. serverKey' \in [Res -> Key]
  <2>1. serverKey \in [Res -> Key] /\ MaxKey \in Nat
    BY NamedAssumption DEF NInv, TypeOK
  <2>2. serverKey[r] < MaxKey => serverKey[r] + 1 \in Key
    BY <2>1 DEF Key
  <2> QED BY <2>1, <2>2 DEF Rotate, Publish, Withdraw
<1>3. published' \in [Res -> Key \cup {NoKey}]
  BY DEF Rotate, Publish, Withdraw, NInv, TypeOK
<1>4. faults' \in 0 .. scope.faults
  <2>1. scope.faults \in Nat /\ faults \in 0 .. scope.faults
    BY NamedAssumption DEF NInv, TypeOK, Scope
  <2> QED BY <2>1 DEF Rotate, Publish, Withdraw
<1> QED BY <1>1, <1>2, <1>3, <1>4, WorldStep DEF Rotate, Publish, Withdraw

LEMMA ExpireStep == ASSUME NInv, NEW r \in Resolver, NEW q \in Res, Expire(r, q) PROVE NInv'
<1>1. inner \in [Resolver -> Instance]
  BY DEF NInv, TypeOK
<1>2. PICK i : i = [inner[r] EXCEPT !.cache = [@ EXCEPT ![q] = NoRecord]]
  OBVIOUS
<1>3. i \in Instance /\ i.inst = inner[r].inst
  BY <1>1, <1>2 DEF Instance, Record
<1>4. inner' = [inner EXCEPT ![r] = i]
  BY <1>2 DEF Expire
<1>5. inner' \in [Resolver -> Instance] /\ \A p \in Resolver : inner'[p].inst = inner[p].inst
  BY <1>1, <1>3, <1>4
<1> QED BY <1>5, WorldStep DEF Expire, world, NInv, TypeOK

LEMMA InitInv == Init => NInv
<1> SUFFICES ASSUME Init PROVE NInv
  OBVIOUS
<1>1. scope \in Scope /\ plan \in [Res -> Def]
  BY NamedAssumption DEF Init, Scope, plan
<1>2. \A t \in Task : stack[t] = << >>
  BY DEF Init
<1>3. DOMAIN << >> = {} /\ << >> \in Seq(Frame)
  OBVIOUS
<1>4. TypeOK
  <2>1. StaticKey \in Key /\ 0 \in Key
    BY NamedAssumption DEF Key, StaticKey
  <2>2. inner \in [Resolver -> Instance]
    <3>1. ASSUME NEW r \in Resolver PROVE inner[r] \in Instance
      <4>1. PICK c : c = [q \in Res |-> IF plan[q].mode \in {"doh", "doh-with-fallback"} /\ plan[q].ech_resolver = r
                                        THEN 0 ELSE NoRecord]
        OBVIOUS
      <4>2. c \in [Res -> Record]
        BY <2>1, <4>1 DEF Record
      <4>3. PICK k \in Key \cup {NoKey} : k = IF r = Sys THEN NoKey ELSE BuiltWith(plan, r)
        BY <2>1 DEF BuiltWith
      <4>4. inner[r] = [key |-> k, inst |-> 0, cache |-> c]
        BY <4>1, <4>3 DEF Init
      <4> QED BY <4>2, <4>4 DEF Instance
    <3>2. inner = [r \in Resolver |-> inner[r]]
      BY DEF Init
    <3> QED BY <3>1, <3>2
  <2>3. ech_bytes \in [Res -> Key \cup {NoKey}]
    BY <2>1 DEF Init, BuiltWith
  <2>4. serverKey \in [Res -> Key] /\ published \in [Res -> Key \cup {NoKey}]
        /\ generation \in [Resolver -> Nat]
        /\ stack \in [Task -> Seq(Frame)] /\ started \subseteq Query
    BY <1>3, <2>1 DEF Init
  <2>5. faults \in 0 .. scope.faults /\ scope \in Scopes
    BY <1>1 DEF Init, Scope
  <2>6. \A r \in Res : rebuilding[r] = NoTask
    BY DEF Init
  <2>7. rebuilding \in [Res -> Task \cup {NoTask}]
    BY DEF Init
  <2> QED BY <1>2, <1>3, <2>2, <2>3, <2>4, <2>5, <2>6, <2>7, NamedAssumption DEF TypeOK
<1>5. \A t \in Task : WellStacked(stack[t]) /\ \A i \in DOMAIN stack[t] : Fits(stack[t][i])
  BY <1>2, <1>3 DEF WellStacked
<1>6. \A t \in Query \ started : stack[t] = << >>
  BY <1>2 DEF Task
<1>7. Counted
  <2>1. \A r : ~Ahead(r)
    BY <1>2 DEF Ahead, At
  <2>2. \A r \in Resolver : inner[r].inst = 0 /\ generation[r] = 0
    BY DEF Init
  <2> QED BY <2>1, <2>2 DEF Counted
<1> QED BY <1>4, <1>5, <1>6, <1>7 DEF NInv

LEMMA Invariance == Spec => []NInv
<1>1. NInv /\ [Next]_vars => NInv'
  <2> SUFFICES ASSUME NInv, [Next]_vars PROVE NInv'
    OBVIOUS
  <2>1. CASE \E t \in Query : Start(t)
    BY <2>1, StartStep
  <2>2. CASE \E r \in Res : Tick(r) \/ Rotate(r) \/ Publish(r) \/ Withdraw(r)
    BY <2>2, TickStep, ZonesStep
  <2>3. CASE \E t \in Task : Step(t)
    <3>1. PICK t \in Task : Step(t)
      BY <2>3
    <3> QED BY <3>1, ReadSeenStep, SnapshotStep, AnswerStep, FaultStep, RejectStep, RejectLastStep,
               LockSkipStep, LockBuildStep, BootstrapStep, FetchStaticStep, FetchStep,
               BuildFailedStep, KeepLiveStep, SwapInnerStep, SwapGenerationStep DEF Step
  <2>4. CASE \E r \in Resolver, q \in Res : Expire(r, q)
    BY <2>4, ExpireStep
  <2>5. CASE UNCHANGED vars
    <3>1. inner' \in [Resolver -> Instance] /\ \A r \in Resolver : inner'[r].inst = inner[r].inst
      BY <2>5 DEF vars, NInv, TypeOK
    <3> QED BY <2>5, <3>1, WorldStep DEF vars, NInv, TypeOK
  <2> QED BY <2>1, <2>2, <2>3, <2>4, <2>5 DEF Next, Quiet
<1> QED BY <1>1, InitInv, PTL DEF Spec

-----------------------------------------------------------------------------
(* Every variable keeps its type, and a resolver's mutex is held by a task  *)
(* exactly while one of its frames rebuilds that resolver (rebuild).        *)
THEOREM NamedTypeCorrect == Spec => []TypeOK
<1>1. NInv => TypeOK
  BY DEF NInv
<1> QED BY <1>1, Invariance, PTL

(* An attempt never runs on an instance older than the generation it        *)
(* recorded (with_ech_retry reads the generation before the instance, swap  *)
(* writes it after).                                                        *)
THEOREM SnapshotsAreCurrent == Spec => []SeenImpliesSnapshot
<1>1. NInv => SeenImpliesSnapshot
  <2> SUFFICES ASSUME NInv, NEW f \in AllFrames, f.cause = "rejected", f.pc \notin {"seen", "snap"}
               PROVE  f.inst >= f.seen
    BY DEF SeenImpliesSnapshot
  <2>1. f \in Frame /\ Fits(f)
    BY Stacks DEF AllFrames
  <2>2. f.seen <= f.inst /\ f.seen \in Nat /\ f.inst \in Nat
    BY <2>1 DEF Fits, Frame
  <2> QED BY <2>2
<1> QED BY <1>1, Invariance, PTL

(* However many lookups meet one rotation, a rebuild after a rejection      *)
(* replaces the instance that was rejected, and no other (rebuild compares  *)
(* the generations under the mutex).                                        *)
THEOREM RejectedIsReplaced == Spec => []RebuildReplacesRejected
<1>1. NInv => RebuildReplacesRejected
  <2> SUFFICES ASSUME NInv, NEW f \in AllFrames, f.cause = "rejected", f.pc \in Building \ {"swapped"}
               PROVE  inner[f.res].inst = f.inst
    BY DEF RebuildReplacesRejected
  <2>1. f \in Frame /\ Fits(f)
    BY Stacks DEF AllFrames
  <2> QED BY <2>1 DEF Fits
<1> QED BY <1>1, Invariance, PTL
=============================================================================
