---------------------------- MODULE MCCertMirror ----------------------------
(* Instances of CertMirror.  One domain x.c with a named host a.x.c and a  *)
(* generic host b.x.c; a suffix route 0 and an exact route 1.              *)
EXTENDS CertMirror, TLC

MCLabel == {"a", "b", "x", "c"}
MCRouteId == 0 .. 1

X == <<"x", "c">>
AX == <<"a">> \o X
BX == <<"b">> \o X
MCNames == {X, AX, BX}
MCMintable == {X}

None == [d \in {} |-> NoRoute]
(* ".x.c" on route 0, "a.x.c" on route 1. *)
SplitTable == [exact |-> AX :> 1, wildcard |-> None, suffix |-> X :> 0,
               regex |-> << >>, default |-> NoRoute]
(* Both routes forward to u1; or route 1 forwards to u2. *)
Alike(t) == [table |-> t, fwd |-> (0 :> "u1" @@ 1 :> "u1"), pinned |-> {}]
Apart(t) == [table |-> t, fwd |-> (0 :> "u1" @@ 1 :> "u2"), pinned |-> {}]

All(c) == [l \in Listener |-> c]
OneConfig == {All(Alike(SplitTable))}
ApartConfig == {All(Apart(SplitTable))}
(* A restart that only re-points route 1. *)
Repointed == {All(Alike(SplitTable)), All(Apart(SplitTable))}

Wild(d) == [kind |-> "wildcard", dom |-> d]
Narrow == {Exact(AX), Exact(BX)}
Broad == {Wild(X)}
Odd == {Wild(X), Exact(X), [kind |-> "bad", dom |-> X]}

TwoObservations == {Narrow, Broad}
OddOrNarrow == {Odd, Narrow}

OneHost == {BX}
TwoHosts == {AX, BX}
MCSerial == 1 .. 2
Symmetric == Permutations(Task)
=============================================================================
