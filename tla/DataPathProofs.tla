--------------------------- MODULE DataPathProofs ---------------------------
(***************************************************************************)
(* The phases of a connection keep what they promise, for every stream,    *)
(* route, peer, size of buffer and socket, idle timeout and amount of data.*)
(*                                                                         *)
(* The splice implements Pipe, and cuts no connection that moves bytes:    *)
(* TypeOK bounds what is in flight, PumpInv ties the state of a pump to    *)
(* its buffer and its peers, and the idle guard's timer to the time since  *)
(* the last byte.  Within a connection it keeps this: the phases before it *)
(* only begin it, and leave its state alone.  The invariants of these are  *)
(* Classifying and Serving.                                                *)
(***************************************************************************)
EXTENDS DataPath, WellFoundedInduction, TLAPS

(* The splice. *)
SpliceInv == S!TypeOK /\ S!PumpInv

LEMMA Directions ==
  /\ "up" \in S!Dir /\ "down" \in S!Dir
  /\ \A d \in S!Dir : S!Other(d) \in S!Dir /\ S!Other(d) # d /\ S!Other(S!Other(d)) = d
  BY DEF S!Dir, S!Other

LEMMA SpliceSizes ==
  /\ MaxSent \in Nat /\ Idle \in Nat /\ Buffer \in Nat \ {0} /\ Socket \in Nat \ {0}
  /\ S!NotYet = MaxSent * 3 /\ S!NotYet \in Nat
  BY DataPathAssumption, SMT DEF S!SpliceConstants, S!NotYet

LEMMA InitSplice == S!Init => SpliceInv
<1> SUFFICES ASSUME S!Init PROVE SpliceInv
  OBVIOUS
<1>1. S!TypeOK
  <2>1. 0 \in 0 .. MaxSent /\ 0 \in 0 .. Buffer /\ 0 \in 0 .. Idle + 1 /\ S!NotYet \in 0 .. S!NotYet /\ 0 <= Socket
    BY SpliceSizes, SMT
  <2>2. /\ sent \in [S!Dir -> 0 .. MaxSent] /\ taken \in [S!Dir -> 0 .. MaxSent]
        /\ written \in [S!Dir -> 0 .. MaxSent] /\ buf \in [S!Dir -> 0 .. Buffer]
        /\ since \in [S!Dir -> 0 .. Idle + 1] /\ quiet \in 0 .. Idle + 1 /\ reported \in 0 .. S!NotYet
    BY <2>1 DEF S!Init
  <2>3. /\ source \in [S!Dir -> {"open", "eof", "reset"}] /\ sink \in [S!Dir -> {"open", "ended", "gone"}]
        /\ pump \in [S!Dir -> {"read", "write", "ok", "error"}] /\ permit \in BOOLEAN
        /\ result \in {"none", "running", "ok", "error", "idle"}
    BY DEF S!Init
  <2>4. \A d \in S!Dir : /\ taken[d] <= written[d] /\ written[d] - taken[d] <= Socket
                         /\ written[d] + buf[d] <= sent[d]
                         /\ pump[d] = "write" => buf[d] > 0
    BY <2>1, SMT DEF S!Init
  <2> QED BY <2>2, <2>3, <2>4 DEF S!TypeOK
<1>2. S!PumpInv
  BY SpliceSizes, SMT DEF S!Init, S!PumpInv
<1> QED BY <1>1, <1>2 DEF SpliceInv

-----------------------------------------------------------------------------
(* One step per action. *)
LEMMA PeersKeep ==
  ASSUME SpliceInv, NEW d \in S!Dir, S!Peer(d)
  PROVE  SpliceInv'
<1> USE SpliceSizes, Directions DEF SpliceInv, S!TypeOK, S!PumpInv, S!peers
<1>1. CASE S!Send(d)
  <2>1. sent' \in [S!Dir -> 0 .. MaxSent] /\ \A e \in S!Dir : sent[e] <= sent'[e]
    BY <1>1, SMT DEF S!Send
  <2> QED BY <1>1, <2>1, SMT DEF S!Send
<1>2. CASE S!HalfClose(d)
  BY <1>2, SMT DEF S!HalfClose
<1>3. CASE S!Reset(d)
  <2>1. /\ source' \in [S!Dir -> {"open", "eof", "reset"}] /\ source'[d] = "reset"
        /\ \A e \in S!Dir : source[e] = "reset" => source'[e] = "reset"
    BY <1>3, SMT DEF S!Reset
  <2>2. /\ sink' \in [S!Dir -> {"open", "ended", "gone"}]
        /\ \A e \in S!Dir : sink'[e] = "gone" => sink[e] = "gone" \/ S!Other(e) = d
    BY <1>3, SMT DEF S!Reset
  <2> QED BY <1>3, <2>1, <2>2, SMT DEF S!Reset
<1>4. CASE S!Take(d)
  <2>1. taken' \in [S!Dir -> 0 .. MaxSent] /\ \A e \in S!Dir : taken[e] <= taken'[e] /\ taken'[e] <= written[e]
    BY <1>4, SMT DEF S!Take
  <2> QED BY <1>4, <2>1, SMT DEF S!Take
<1> QED BY <1>1, <1>2, <1>3, <1>4 DEF S!Peer

LEMMA PumpsKeep ==
  ASSUME SpliceInv, NEW d \in S!Dir, S!Pump(d)
  PROVE  SpliceInv'
<1> USE SpliceSizes, Directions DEF SpliceInv, S!TypeOK, S!PumpInv, S!peers
<1>1. CASE S!Read(d)
  <2>1. PICK n \in 1 .. Buffer : n <= S!Unread(d) /\ buf' = [buf EXCEPT ![d] = n]
    BY <1>1 DEF S!Read
  <2>2. n <= sent[d] - written[d] - buf[d] /\ buf[d] = 0 /\ n > 0
    BY <1>1, <2>1, SMT DEF S!Read, S!Unread
  <2>3. pump' = [pump EXCEPT ![d] = "write"] /\ UNCHANGED <<sent, source, sink, taken, written, permit, quiet, since, result, reported>>
    BY <1>1 DEF S!Read
  <2>4. S!TypeOK'
    BY <2>1, <2>2, <2>3, SMT
  <2>5. S!PumpInv'
    BY <2>1, <2>2, <2>3, SMT
  <2> QED BY <2>4, <2>5
<1>2. CASE S!ReadEof(d)
  <2>1. CASE sink[d] = "gone"
    <3>1. source[S!Other(d)] = "reset" /\ S!Other(d) \in S!Dir
      BY <2>1
    <3>2. /\ pump' = [pump EXCEPT ![d] = "error"]
          /\ UNCHANGED <<sent, source, sink, taken, buf, written, permit, quiet, since, result, reported>>
      BY <1>2, <2>1 DEF S!ReadEof
    <3>3. S!TypeOK'
      BY <3>2, SMT
    <3>4. S!PumpInv'
      BY <3>1, <3>2, Zenon
    <3> QED BY <3>3, <3>4
  <2>2. CASE sink[d] # "gone"
    <3>1. /\ pump' = [pump EXCEPT ![d] = "ok"] /\ sink' = [sink EXCEPT ![d] = "ended"]
          /\ UNCHANGED <<sent, source, taken, buf, written, permit, quiet, since, result, reported>>
      BY <1>2, <2>2 DEF S!ReadEof
    <3>2. S!TypeOK'
      BY <3>1, SMT
    <3>3. S!PumpInv'
      BY <3>1, SMT
    <3> QED BY <3>2, <3>3
  <2> QED BY <2>1, <2>2
<1>3. CASE S!ReadFails(d)
  BY <1>3, SMT DEF S!ReadFails
<1>4. CASE S!Write(d)
  <2>1. PICK n \in 1 .. buf[d] :
          /\ written[d] + n - taken[d] <= Socket
          /\ buf' = [buf EXCEPT ![d] = @ - n] /\ written' = [written EXCEPT ![d] = @ + n]
          /\ pump' = [pump EXCEPT ![d] = IF n = buf[d] THEN "read" ELSE "write"]
    BY <1>4 DEF S!Write
  <2>2. /\ permit' = TRUE /\ since' = [since EXCEPT ![d] = 0]
        /\ UNCHANGED <<sent, source, sink, taken, quiet, result, reported>>
    BY <1>4 DEF S!Write
  <2>3. S!TypeOK'
    BY <2>1, <2>2, SMT
  <2>4. S!PumpInv'
    BY <2>1, <2>2, SMT
  <2> QED BY <2>3, <2>4
<1>5. CASE S!WriteFails(d)
  BY <1>5, SMT DEF S!WriteFails
<1> QED BY <1>1, <1>2, <1>3, <1>4, <1>5 DEF S!Pump

LEMMA TaskKeeps ==
  ASSUME SpliceInv, S!Finish \/ S!Notified \/ S!TimedOut \/ S!Tick \/ S!Begin
  PROVE  SpliceInv'
<1> USE SpliceSizes, Directions DEF SpliceInv, S!TypeOK, S!PumpInv, S!peers
<1>1. written["up"] + written["down"] \in 0 .. S!NotYet
  BY SMT
<1>2. CASE S!Finish
  BY <1>1, <1>2, SMT DEF S!Finish, S!End
<1>3. CASE S!Notified
  <2>1. 0 \in 0 .. Idle + 1 /\ \A d \in S!Dir : 0 <= since[d]
    BY SMT
  <2>2. /\ permit' = FALSE /\ quiet' = 0
        /\ UNCHANGED <<sent, source, sink, taken, buf, written, pump, since, result, reported>>
    BY <1>3 DEF S!Notified
  <2>3. S!TypeOK'
    BY <2>1, <2>2, Zenon
  <2>4. S!PumpInv'
    BY <2>1, <2>2, Zenon
  <2> QED BY <2>3, <2>4
<1>4. CASE S!TimedOut
  BY <1>1, <1>4, SMT DEF S!TimedOut, S!End
<1>5. CASE S!Tick
  <2>1. since' \in [S!Dir -> 0 .. Idle + 1] /\ \A e \in S!Dir : since'[e] = S!Aged(since[e])
    BY <1>5, SMT DEF S!Tick, S!Aged
  <2> QED BY <1>5, <2>1, SMT DEF S!Tick, S!Aged
<1>6. CASE S!Begin
  BY <1>6, SMT DEF S!Begin
<1> QED BY <1>2, <1>3, <1>4, <1>5, <1>6

LEMMA SpliceInvariance == S!Spec => []SpliceInv
<1>1. SpliceInv /\ [S!Begin \/ S!Next]_S!vars => SpliceInv'
  <2> SUFFICES ASSUME SpliceInv, [S!Begin \/ S!Next]_S!vars PROVE SpliceInv'
    OBVIOUS
  <2>1. CASE UNCHANGED S!vars
    BY <2>1 DEF S!vars, S!peers, SpliceInv, S!TypeOK, S!PumpInv
  <2>2. CASE \E d \in S!Dir : S!Peer(d)
    BY <2>2, PeersKeep
  <2>3. CASE \E d \in S!Dir : S!Pump(d)
    BY <2>3, PumpsKeep
  <2>4. CASE S!Finish \/ S!Notified \/ S!TimedOut \/ S!Tick \/ S!Begin
    BY <2>4, TaskKeeps
  <2> QED BY <2>1, <2>2, <2>3, <2>4 DEF S!Next, S!Task
<1> QED BY InitSplice, <1>1, PTL DEF S!Spec

-----------------------------------------------------------------------------
(* "A true idle timeout (reset on every chunk)": idle_guard ends no splice *)
(* within Idle of a byte written, whichever direction it went, and however *)
(* the notifications, the pumps and the timer interleave.                  *)
THEOREM IdleMeansIdle == S!Spec => []S!CutOnlyWhenIdle
<1>1. S!Init => S!CutOnlyWhenIdle
  BY DEF S!Init, S!CutOnlyWhenIdle
<1>2. SpliceInv /\ S!CutOnlyWhenIdle /\ [S!Begin \/ S!Next]_S!vars => S!CutOnlyWhenIdle'
  <2> SUFFICES ASSUME SpliceInv, S!CutOnlyWhenIdle, [S!Begin \/ S!Next]_S!vars PROVE S!CutOnlyWhenIdle'
    OBVIOUS
  <2>1. CASE UNCHANGED S!vars
    BY <2>1 DEF S!vars, S!CutOnlyWhenIdle
  <2>2. CASE S!TimedOut
    BY <2>2, SpliceSizes, SMT DEF S!TimedOut, S!CutOnlyWhenIdle, SpliceInv, S!TypeOK, S!PumpInv
  <2>3. CASE S!Finish \/ S!Begin
    BY <2>3 DEF S!Finish, S!End, S!Begin, S!CutOnlyWhenIdle
  <2>4. CASE S!Notified \/ S!Tick \/ \E d \in S!Dir : S!Peer(d) \/ S!Pump(d)
    <3>1. result' = result /\ result = "running"
      BY <2>4 DEF S!Notified, S!Tick, S!Peer, S!Pump, S!Send, S!HalfClose, S!Reset, S!Take, S!Read, S!ReadEof, S!ReadFails,
                  S!Write, S!WriteFails, S!Running
    <3> QED BY <3>1 DEF S!CutOnlyWhenIdle
  <2> QED BY <2>1, <2>2, <2>3, <2>4 DEF S!Next, S!Task
<1> QED BY SpliceInvariance, <1>1, <1>2, PTL DEF S!Spec

-----------------------------------------------------------------------------
(* Every step of a splice is a step of two reliable streams, or none. *)
LEMMA PeersImplement ==
  ASSUME SpliceInv, NEW d \in S!Dir, S!Peer(d)
  PROVE  [S!TwoStreams!Next]_(S!TwoStreams!vars)
<1> USE DEF S!TwoStreams!vars, S!Running
<1>1. CASE S!Send(d)
  <2>1. S!TwoStreams!Send(d)
    BY <1>1 DEF S!Send, S!TwoStreams!Send
  <2> QED BY <2>1 DEF S!TwoStreams!Next
<1>2. CASE S!HalfClose(d)
  <2>1. S!TwoStreams!Close(d, "eof")
    BY <1>2 DEF S!HalfClose, S!TwoStreams!Close
  <2> QED BY <2>1 DEF S!TwoStreams!Next
<1>3. CASE S!Reset(d)
  <2>1. S!TwoStreams!Close(d, "reset")
    BY <1>3 DEF S!Reset, S!TwoStreams!Close
  <2> QED BY <2>1 DEF S!TwoStreams!Next
<1>4. CASE S!Take(d)
  BY <1>4 DEF S!Take
<1> QED BY <1>1, <1>2, <1>3, <1>4 DEF S!Peer

(* A step that moves no byte and ends no direction. *)
LEMMA Unseen ==
  ASSUME SpliceInv, NEW d \in S!Dir, UNCHANGED <<sent, source, written, result, reported>>,
         pump[d] # "ok", NEW p \in {"read", "write", "error"}, pump' = [pump EXCEPT ![d] = p]
  PROVE  UNCHANGED S!TwoStreams!vars
<1>1. \A e \in S!Dir : (pump'[e] = "ok") <=> (pump[e] = "ok")
  BY DEF SpliceInv, S!TypeOK
<1>2. [e \in S!Dir |-> pump[e] = "ok"]' = [e \in S!Dir |-> pump[e] = "ok"]
  BY <1>1, Zenon
<1> QED BY <1>2 DEF S!TwoStreams!vars

LEMMA PumpsImplement ==
  ASSUME SpliceInv, NEW d \in S!Dir, S!Pump(d)
  PROVE  [S!TwoStreams!Next]_(S!TwoStreams!vars)
<1>1. CASE S!Read(d)
  BY <1>1, Unseen DEF S!Read, S!peers
<1>2. CASE S!ReadFails(d)
  BY <1>2, Unseen DEF S!ReadFails, S!peers
<1>3. CASE S!WriteFails(d)
  BY <1>3, Unseen DEF S!WriteFails, S!peers
<1>4. CASE S!ReadEof(d)
  <2>1. CASE sink[d] = "gone"
    BY <1>4, <2>1, Unseen DEF S!ReadEof
  <2>2. CASE sink[d] # "gone"
    <3>1. pump' = [pump EXCEPT ![d] = "ok"] /\ UNCHANGED <<sent, source, written, result, reported>>
      BY <1>4, <2>2 DEF S!ReadEof
    <3>2. /\ result = "running" /\ source[d] = "eof" /\ pump[d] # "ok" /\ written[d] = sent[d]
      BY <1>4, SpliceSizes, SMT DEF S!ReadEof, S!Unread, S!Running, SpliceInv, S!TypeOK, S!PumpInv
    <3>3. [e \in S!Dir |-> pump[e] = "ok"]' = [[e \in S!Dir |-> pump[e] = "ok"] EXCEPT ![d] = TRUE]
      BY <3>1, Zenon DEF SpliceInv, S!TypeOK
    <3>4. S!TwoStreams!PassOn(d)
      BY <3>1, <3>2, <3>3 DEF S!TwoStreams!PassOn
    <3> QED BY <3>4 DEF S!TwoStreams!Next
  <2> QED BY <2>1, <2>2
<1>5. CASE S!Write(d)
  <2>1. PICK n \in 1 .. buf[d] :
          /\ written' = [written EXCEPT ![d] = @ + n]
          /\ pump' = [pump EXCEPT ![d] = IF n = buf[d] THEN "read" ELSE "write"]
    BY <1>5 DEF S!Write
  <2>2. result = "running" /\ pump[d] = "write" /\ UNCHANGED <<sent, source, result, reported>>
    BY <1>5 DEF S!Write, S!Running, S!peers
  <2>3. n \in 1 .. sent[d] - written[d]
    BY SpliceSizes, SMT DEF SpliceInv, S!TypeOK
  <2>4. [e \in S!Dir |-> pump[e] = "ok"]' = [e \in S!Dir |-> pump[e] = "ok"]
    <3>1. \A e \in S!Dir : (pump'[e] = "ok") <=> (pump[e] = "ok")
      BY <2>1, <2>2 DEF SpliceInv, S!TypeOK
    <3> QED BY <3>1, Zenon
  <2>5. ~[e \in S!Dir |-> pump[e] = "ok"][d]
    BY <2>2
  <2>6. S!TwoStreams!Deliver(d)
    BY <2>1, <2>2, <2>3, <2>4, <2>5 DEF S!TwoStreams!Deliver
  <2> QED BY <2>6 DEF S!TwoStreams!Next
<1> QED BY <1>1, <1>2, <1>3, <1>4, <1>5 DEF S!Pump

LEMMA TaskImplements ==
  ASSUME SpliceInv, S!Finish \/ S!Notified \/ S!TimedOut \/ S!Tick \/ S!Begin
  PROVE  [S!TwoStreams!Next]_(S!TwoStreams!vars)
<1> USE DEF S!TwoStreams!vars
<1>1. CASE S!Finish
  <2>1. CASE S!Failed
    <3>1. \E e \in S!Dir : source[e] = "reset"
      BY <2>1 DEF S!Failed, SpliceInv, S!PumpInv
    <3>2. S!TwoStreams!Finish("error")
      BY <1>1, <2>1, <3>1 DEF S!Finish, S!End, S!Running, S!peers, S!TwoStreams!Finish
    <3> QED BY <3>2 DEF S!TwoStreams!Next
  <2>2. CASE ~S!Failed
    <3>1. S!TwoStreams!Finish("ok")
      BY <1>1, <2>2 DEF S!Finish, S!End, S!Running, S!Joined, S!peers, S!TwoStreams!Finish
    <3> QED BY <3>1 DEF S!TwoStreams!Next
  <2> QED BY <2>1, <2>2
<1>2. CASE S!TimedOut
  <2>1. S!TwoStreams!Finish("idle")
    BY <1>2 DEF S!TimedOut, S!End, S!Running, S!peers, S!TwoStreams!Finish
  <2> QED BY <2>1 DEF S!TwoStreams!Next
<1>3. CASE S!Begin
  <2>1. S!TwoStreams!Begin
    BY <1>3 DEF S!Begin, S!peers, S!TwoStreams!Begin
  <2> QED BY <2>1 DEF S!TwoStreams!Next
<1>4. CASE S!Notified \/ S!Tick
  BY <1>4 DEF S!Notified, S!Tick, S!peers
<1> QED BY <1>1, <1>2, <1>3, <1>4

(* splice is two independent, reliable streams, whatever the buffers, the  *)
(* partial writes and the timer do: nothing is lost, repeated or made up,  *)
(* an EOF travels behind all its bytes, and the report counts every byte.  *)
THEOREM SpliceImplementsPipe == S!Spec => S!ImplementsPipe
<1>1. S!Init => S!TwoStreams!Init
  BY DEF S!Init, S!TwoStreams!Init
<1>2. SpliceInv /\ [S!Begin \/ S!Next]_S!vars => [S!TwoStreams!Next]_(S!TwoStreams!vars)
  <2> SUFFICES ASSUME SpliceInv, [S!Begin \/ S!Next]_S!vars PROVE [S!TwoStreams!Next]_(S!TwoStreams!vars)
    OBVIOUS
  <2>1. CASE UNCHANGED S!vars
    BY <2>1 DEF S!vars, S!peers, S!TwoStreams!vars
  <2>2. CASE \E d \in S!Dir : S!Peer(d)
    BY <2>2, PeersImplement
  <2>3. CASE \E d \in S!Dir : S!Pump(d)
    BY <2>3, PumpsImplement
  <2>4. CASE S!Finish \/ S!Notified \/ S!TimedOut \/ S!Tick \/ S!Begin
    BY <2>4, TaskImplements
  <2> QED BY <2>1, <2>2, <2>3, <2>4 DEF S!Next, S!Task
<1> QED BY SpliceInvariance, <1>1, <1>2, PTL DEF S!Spec, S!ImplementsPipe, S!TwoStreams!Spec

-----------------------------------------------------------------------------
(* The splice within a connection. *)
LEMMA SpliceInside == Spec => S!Spec
<1>1. Init => S!Init
  BY DEF Init
<1>2. [Next]_vars => [S!Begin \/ S!Next]_(S!vars)
  <2> SUFFICES ASSUME [Next]_vars PROVE [S!Begin \/ S!Next]_(S!vars)
    OBVIOUS
  <2>1. CASE UNCHANGED splice
    BY <2>1 DEF splice, S!vars, S!peers
  <2>2. CASE Splice \/ Pump
    BY <2>2 DEF Splice, Pump
  <2> QED BY <2>1, <2>2 DEF Next, Classify, Classified, Dispatch, Serve, Ended, vars
<1> QED BY <1>1, <1>2, PTL DEF Spec, S!Spec

(* No connection is cut for idleness within Idle of a byte written, in      *)
(* either direction (idle_guard), whatever the phases before the splice did.*)
THEOREM ConnectionIdleMeansIdle == Spec => []CutOnlyWhenIdle
<1>1. S!CutOnlyWhenIdle <=> CutOnlyWhenIdle
  BY DEF CutOnlyWhenIdle
<1> QED BY <1>1, SpliceInside, IdleMeansIdle, PTL

(* What a connection carries between its peers is two independent, reliable *)
(* streams (splice, called by dispatch once the handshakes are done).       *)
THEOREM ConnectionImplementsPipe == Spec => ImplementsPipe
<1>1. S!ImplementsPipe <=> ImplementsPipe
  BY DEF ImplementsPipe
<1> QED BY <1>1, SpliceInside, SpliceImplementsPipe, PTL

-----------------------------------------------------------------------------
(* The classifier. *)

(* Every non-empty set of naturals has a least element. *)
LEMMA LeastElement ==
  ASSUME NEW T, T \subseteq Nat, T # {}
  PROVE  \E x \in T : \A y \in T : x <= y
<1> DEFINE R == OpToRel(<, Nat)
<1>1. IsWellFoundedOn(R, Nat)
  BY NatLessThanWellFounded
<1>2. PICK x \in T : \A y \in T : <<y, x>> \notin R
  <2> HIDE DEF R
  <2> QED BY <1>1, WFMin
<1>3. ASSUME NEW y \in T PROVE x <= y
  <2>1. <<y, x>> \notin R
    BY <1>2
  <2>2. ~(y < x)
    BY <2>1, x \in Nat, y \in Nat DEF OpToRel
  <2> QED BY <2>2, x \in Nat, y \in Nat
<1> QED BY <1>2, <1>3

(* What PeekConstants says of a stream, in the parts that proofs use. *)
LEMMA HelloShape ==
  ASSUME NEW s \in Streams, P!IsHello(s)
  PROVE  /\ s.extensions \in Nat /\ s.exts \in Seq([sni : BOOLEAN, end : Nat])
         /\ Len(s.exts) \in Nat /\ DOMAIN s.exts = 1 .. Len(s.exts)
         /\ \A i \in DOMAIN s.exts : /\ s.exts[i].end \in Nat /\ s.exts[i].sni \in BOOLEAN
                                     /\ s.extensions + 4 <= s.exts[i].end
         /\ \A i, j \in DOMAIN s.exts : i < j => s.exts[i].end + 4 <= s.exts[j].end
<1>1. /\ s.extensions \in Nat /\ s.exts \in Seq([sni : BOOLEAN, end : Nat])
      /\ \A i \in DOMAIN s.exts : s.extensions + 4 <= s.exts[i].end
      /\ \A i, j \in DOMAIN s.exts : i < j => s.exts[i].end + 4 <= s.exts[j].end
  BY DataPathAssumption DEF P!PeekConstants
<1>2. Len(s.exts) \in Nat /\ DOMAIN s.exts = 1 .. Len(s.exts)
  BY <1>1
<1>3. \A i \in DOMAIN s.exts : s.exts[i] \in [sni : BOOLEAN, end : Nat]
  <2> DEFINE T == [sni : BOOLEAN, end : Nat]
  <2>1. s.exts \in Seq(T)
    BY <1>1
  <2> HIDE DEF T
  <2>2. \A i \in 1 .. Len(s.exts) : s.exts[i] \in T
    BY ONLY <2>1
  <2> QED BY <1>2, <2>2 DEF T
<1>4. \A i \in DOMAIN s.exts : s.exts[i].end \in Nat /\ s.exts[i].sni \in BOOLEAN
  BY <1>3
<1> QED BY <1>1, <1>2, <1>4

LEMMA RequestShape ==
  ASSUME NEW s \in Streams, P!IsRequest(s)
  PROVE  /\ s.method \in Nat /\ s.head \in Nat
         /\ s.host # 0 => /\ s.host \in Nat /\ s.hostEnd \in Nat
                          /\ s.method < s.host /\ s.host < s.hostEnd /\ s.hostEnd < s.head
<1>1. /\ {s.method, s.host, s.hostEnd, s.head} \subseteq Nat /\ s.method \in 1 .. s.head
      /\ s.host # 0 => s.host \in s.method + 1 .. s.hostEnd - 1 /\ s.hostEnd < s.head
  BY DataPathAssumption DEF P!PeekConstants
<1> QED BY <1>1

(* A parse that finds no key, or asks for more, leaves none in the window. *)
LEMMA ParseFinds ==
  ASSUME NEW s \in Streams, NEW n \in Nat, P!Parse(s, n).key = P!NoKey
  PROVE  ~P!KeyWithin(s, n)
<1> USE DEF P!NoKey
<1>1. CASE P!IsHello(s)
  <2>1. ~P!IsRequest(s)
    BY <1>1 DEF P!IsHello, P!IsRequest
  <2>2. SUFFICES ASSUME s.extensions # 0, NEW k \in DOMAIN s.exts, s.exts[k].sni, s.exts[k].end <= n
                 PROVE  FALSE
    BY <2>1 DEF P!KeyWithin
  <2>3. n >= s.extensions + 4 /\ s.extensions \in Nat
    BY <1>1, <2>2, HelloShape
  <2>4. P!Sni(s, n) \in {"more", P!NoKey}
    <3>1. P!Sni(s, n) \in {"other", "more", P!NoKey}
      BY <1>1 DEF P!Parse, P!Result
    <3>2. P!Sni(s, n) # "other"
      BY DEF P!Sni
    <3> QED BY <3>1, <3>2
  <2> DEFINE Stops == {i \in DOMAIN s.exts : s.exts[i].end <= n => s.exts[i].sni}
  <2>5. PICK i \in P!StopsAt(s, n) : TRUE
    <3>1. k \in Stops /\ Stops \subseteq Nat
      BY <1>1, <2>2, HelloShape
    <3>2. PICK i \in Stops : \A j \in Stops : i <= j
      <4> HIDE DEF Stops
      <4> QED BY <3>1, LeastElement
    <3>3. i \in DOMAIN s.exts /\ i \in Nat
      BY <3>1, <3>2
    <3>4. ASSUME NEW j \in 1 .. i - 1 PROVE P!Complete(s, j, n) /\ ~s.exts[j].sni
      <4>1. j \in DOMAIN s.exts /\ j < i
        BY <1>1, <3>3, HelloShape
      <4>2. j \notin Stops
        BY <3>2, <3>3, <4>1
      <4> QED BY <4>1, <4>2 DEF P!Complete
    <3>5. P!Complete(s, i, n) => s.exts[i].sni
      BY <3>2 DEF P!Complete
    <3>6. i \in P!StopsAt(s, n)
      BY <3>3, <3>4, <3>5 DEF P!StopsAt
    <3> QED BY <3>6
  <2>6. ASSUME NEW x \in P!StopsAt(s, n), NEW y \in P!StopsAt(s, n), x < y PROVE FALSE
    <3>1. x \in DOMAIN s.exts /\ y \in DOMAIN s.exts
      BY <2>6 DEF P!StopsAt
    <3>2. x \in 1 .. y - 1
      BY <1>1, <2>6, <3>1, HelloShape
    <3>3. P!Complete(s, x, n) /\ ~s.exts[x].sni
      BY <3>2, <2>6 DEF P!StopsAt
    <3>4. P!Complete(s, x, n) => s.exts[x].sni
      BY <2>6 DEF P!StopsAt
    <3> QED BY <3>3, <3>4
  <2>7. P!StopsAt(s, n) = {i}
    <3>1. P!StopsAt(s, n) \subseteq Nat
      BY <1>1, HelloShape DEF P!StopsAt
    <3> QED BY <2>5, <2>6, <3>1
  <2>8. i = CHOOSE x \in P!StopsAt(s, n) : TRUE
    BY <2>7
  <2>9. ~P!Complete(s, i, n)
    <3>1. ~(n < s.extensions - 2) /\ ~(n < s.extensions) /\ n \in Nat
      BY <2>3
    <3>2. P!Sni(s, n) = IF P!Complete(s, i, n) THEN "whole"
                        ELSE IF P!Start(s, i) + 4 > n THEN P!NoKey ELSE "more"
      BY <2>2, <2>7, <2>8, <3>1 DEF P!Sni
    <3> QED BY <2>4, <3>2
  <2>10. i \in DOMAIN s.exts /\ k \notin 1 .. i - 1
    BY <2>2, <2>5 DEF P!StopsAt
  <2>11. i \in Nat /\ k \in Nat /\ 1 <= k /\ s.exts[i].end \in Nat /\ s.exts[k].end \in Nat
    BY <1>1, <2>2, <2>10, HelloShape
  <2>12. s.exts[i].end > n
    BY <2>9, <2>11 DEF P!Complete
  <2>13. k = i \/ i < k
    BY <2>10, <2>11
  <2>14. i < k => s.exts[i].end <= s.exts[k].end
    BY <1>1, <2>2, <2>10, <2>11, HelloShape
  <2> QED BY <2>2, <2>11, <2>12, <2>13, <2>14
<1>2. CASE P!IsRequest(s)
  <2>1. ~P!IsHello(s)
    BY <1>2 DEF P!IsHello, P!IsRequest
  <2>2. P!Host(s, n) \in {"other", "more", P!NoKey}
    BY <1>2, <2>1 DEF P!Parse, P!Result
  <2> SUFFICES ASSUME s.host # 0, s.hostEnd <= n PROVE FALSE
    BY <2>1 DEF P!KeyWithin
  <2>3. /\ s.method \in Nat /\ s.host \in Nat /\ s.hostEnd \in Nat
        /\ s.method < s.host /\ s.host < s.hostEnd
    BY <1>2, RequestShape
  <2>4. ~(n < s.method) /\ n >= s.host /\ n # s.host /\ ~(n < s.hostEnd)
    BY <2>3
  <2> QED BY <2>2, <2>4 DEF P!Host
<1>3. CASE ~P!IsHello(s) /\ ~P!IsRequest(s)
  BY <1>3 DEF P!KeyWithin
<1> QED BY <1>1, <1>2, <1>3

(* What has been parsed and not decided holds no key. *)
Classifying ==
  /\ peeking \in {"peek", "late", "parse", "done", "over"}
  /\ peeking # "over" => stream \in Streams /\ have \in Nat
  /\ peeking # "over" => arrived \in Nat
  /\ peeking \in {"peek", "late"} => have = 0 \/ P!Parse(stream, have) = P!Pending
  /\ KeyInWindowIsFound

LEMMA EmptyWindow == ASSUME NEW s \in Streams PROVE ~P!KeyWithin(s, 0)
<1>1. CASE P!IsHello(s)
  <2>1. \A i \in DOMAIN s.exts : ~(s.exts[i].end <= 0)
    BY <1>1, HelloShape
  <2> QED BY <1>1, <2>1 DEF P!KeyWithin, P!IsHello, P!IsRequest
<1>2. CASE P!IsRequest(s)
  <2>1. s.host # 0 => ~(s.hostEnd <= 0)
    BY <1>2, RequestShape
  <2> QED BY <1>2, <2>1 DEF P!KeyWithin, P!IsHello, P!IsRequest
<1>3. CASE ~P!IsHello(s) /\ ~P!IsRequest(s)
  BY <1>3 DEF P!KeyWithin
<1> QED BY <1>1, <1>2, <1>3

LEMMA ClassifyingStep ==
  ASSUME Classifying, [Next]_vars, serving # "idle" => peeking = "over"
  PROVE  Classifying'
<1>0. peeking # "over" => P!Window \in Nat
  <2>1. MaxPeek \in Nat
    BY DataPathAssumption DEF P!PeekConstants
  <2> QED BY <2>1 DEF P!Window, P!Least, Classifying
<1>1. ASSUME peeking # "over", UNCHANGED <<stream, have>>, peeking \in {"peek", "late"},
             peeking' = "done", arrived' = arrived
      PROVE  Classifying'
  <2>1. ~P!KeyWithin(stream, have)
    <3>1. CASE have = 0
      BY <1>1, <3>1, EmptyWindow DEF Classifying
    <3>2. CASE P!Parse(stream, have) = P!Pending
      <4>1. P!Parse(stream, have).key = P!NoKey
        BY <3>2 DEF P!Pending, P!Result
      <4> QED BY <1>1, <4>1, ParseFinds DEF Classifying
    <3> QED BY <1>1, <3>1, <3>2 DEF Classifying
  <2> QED BY <1>1, <2>1 DEF Classifying, KeyInWindowIsFound, P!KeyInWindowIsFound
<1>2. ASSUME peeking # "over", P!Grown(P!Window), UNCHANGED <<stream, arrived>> PROVE Classifying'
  BY <1>0, <1>2 DEF P!Grown, Classifying, KeyInWindowIsFound, P!KeyInWindowIsFound
<1>3. CASE P!PeekEnough
  BY <1>2, <1>3 DEF P!PeekEnough
<1>4. CASE P!PeekNothing
  BY <1>1, <1>4 DEF P!PeekNothing, P!NoProgress, P!Decide
<1>5. CASE P!PeekLate
  BY <1>1, <1>2, <1>5 DEF P!PeekLate, P!NoProgress, P!Decide
<1>6. CASE P!ParseWindow
  <2>1. CASE P!Parse(stream, have) = P!Pending
    BY <1>6, <2>1 DEF P!ParseWindow, Classifying, KeyInWindowIsFound, P!KeyInWindowIsFound
  <2>2. CASE P!Parse(stream, have) # P!Pending
    <3>1. /\ peeking = "parse" /\ peeking' = "done" /\ inbound' = P!Parse(stream, have)
          /\ UNCHANGED <<stream, have, arrived>>
      BY <1>6, <2>2 DEF P!ParseWindow, P!Decide
    <3>2. P!Parse(stream, have).key = P!NoKey => ~P!KeyWithin(stream, have)
      BY <3>1, ParseFinds DEF Classifying
    <3> QED BY <3>1, <3>2 DEF Classifying, KeyInWindowIsFound, P!KeyInWindowIsFound
  <2> QED BY <2>1, <2>2
<1>7. CASE P!Send
  <2>1. stream.size \in Nat /\ arrived \in Nat
    BY <1>7, DataPathAssumption DEF P!Send, Classifying, P!PeekConstants
  <2>2. arrived' \in Nat
    BY <1>7, <2>1 DEF P!Send
  <2> QED BY <1>7, <2>2 DEF P!Send, Classifying, KeyInWindowIsFound, P!KeyInWindowIsFound
<1>8. CASE P!Close \/ P!Timeout
  BY <1>8 DEF P!Close, P!Timeout, Classifying, KeyInWindowIsFound, P!KeyInWindowIsFound
<1>9. CASE Classified
  BY <1>9 DEF Classified, P!Forget, Classifying, KeyInWindowIsFound, P!KeyInWindowIsFound
<1>10. CASE UNCHANGED <<classify, inbound>>
  BY <1>10 DEF classify, Classifying, KeyInWindowIsFound, P!KeyInWindowIsFound
<1>11. CASE Splice
  <2>1. peeking = "over" /\ UNCHANGED classify
    BY <1>11 DEF Splice, C!Forget
  <2> QED BY <2>1 DEF classify, Classifying, KeyInWindowIsFound, P!KeyInWindowIsFound
<1>12. CASE Serve
  <2>1. inbound' = inbound /\ UNCHANGED classify
    BY <1>12 DEF Serve, C!Next, C!Closed, C!conf, C!Accept, C!AcceptFails, C!ReadHello, C!Resolve,
       C!UpstreamFails, C!Upstream, C!Answer, C!RawSplice, C!RawFails, C!FailSplice, C!FailCloses
  <2> QED BY <1>10, <2>1
<1>13. CASE Dispatch \/ Pump \/ Ended \/ UNCHANGED vars
  BY <1>10, <1>13 DEF Dispatch, C!Dispatch, Pump, Ended, vars
<1>14. CASE Classify
  BY <1>3, <1>4, <1>5, <1>6, <1>7, <1>8, <1>14 DEF Classify, P!Next, P!Classify
<1> QED BY <1>9, <1>11, <1>12, <1>13, <1>14 DEF Next

LEMMA InitClassifying == Init => Classifying
  BY DataPathAssumption
     DEF Init, P!Init, Classifying, KeyInWindowIsFound, P!KeyInWindowIsFound, P!PeekConstants

-----------------------------------------------------------------------------
(* The handshakes. *)

Untouched == client = "whole" /\ offered = {} /\ up = NoAlpn /\ in = NoAlpn

(* A mirrored client's hello has been read and nothing answered. *)
Unanswered == client = "hello" /\ C!Mirrors(rt) /\ offered = C!NegotiableAlpn /\ in = NoAlpn

(* A client that is not mirrored speaks HTTP/1.1 to a TLS upstream. *)
Terminated ==
  /\ ~C!Mirrors(rt) /\ offered = {}
  /\ rt.type # "http" => in \in {NoAlpn, "http/1.1"} /\ (in # NoAlpn => in \in offer)

Before == {"idle", "raw", "fail", "accept", "hello"}

Serving ==
  /\ serving # "idle" => peeking = "over"
  /\ serving \in Before => Untouched
  /\ serving \in Before \cup {"resolve", "upstream"} => ~tlsup /\ recorded = NoName
  /\ serving \in {"accept", "hello", "resolve", "upstream", "answer"} => rt \in C!RouteConf
  /\ serving = "accept" => ~C!Mirrors(rt)
  /\ serving = "hello" => C!Mirrors(rt)
  /\ serving \in {"resolve", "upstream"} => up = NoAlpn /\ (Unanswered \/ Terminated)
  /\ serving = "upstream" => rt.type # "http"
  /\ serving = "answer" => Unanswered /\ up \in offered \cup {NoAlpn}
  /\ ProtocolsAgree /\ RecordedWasAsked

LEMMA Alpn == NoAlpn # "h2" /\ NoAlpn # "http/1.1" /\ NoName # "key"
  BY DataPathAssumption DEF C!ConnectionConstants, C!Protocol, C!Name

(* What a handshake with a non-empty preference may settle on. *)
LEMMA AgreedShared ==
  ASSUME NEW config, config \in {<<"h2">>, <<"http/1.1">>, <<"h2", "http/1.1">>}
  PROVE  \/ C!Agreed(config) = NoAlpn
         \/ C!Agreed(config) \in offer /\ \E i \in DOMAIN config : C!Agreed(config) = config[i]
<1> DEFINE T == C!Shared(config)
<1>1. T \subseteq {1, 2}
  BY DEF C!Shared
<1>2. T # {} => \E i \in T : \A j \in T : i <= j
  BY <1>1
<1>3. T # {} => (CHOOSE i \in T : \A j \in T : i <= j) \in T
  BY <1>2
<1> QED BY <1>3 DEF C!Agreed, C!Shared

LEMMA ServeStep ==
  ASSUME Serving, C!Next, UNCHANGED peeking
  PROVE  Serving'
<1> USE Alpn DEF C!Goto, C!conf, Before
<1>1. ASSUME C!Closed, serving # "idle" PROVE Serving'
  BY <1>1 DEF C!Closed, Serving, ProtocolsAgree, C!ProtocolsAgree, RecordedWasAsked, C!RecordedWasAsked
<1>2. CASE C!Accept
  <2>1. /\ serving = "accept" /\ serving' = "resolve" /\ client' = "tls"
        /\ UNCHANGED <<rt, policy, inbound, offer, asked, told, offered, up, tlsup, recorded>>
        /\ in' = C!Agreed(C!TerminatedConfig)
    BY <1>2 DEF C!Accept
  <2>2. C!Mirrors(rt)' = C!Mirrors(rt)
    BY <2>1 DEF C!Mirrors
  <2>3. rt.type # "http" => C!TerminatedConfig = <<"http/1.1">>
    BY DEF C!TerminatedConfig
  <2>4. rt.type # "http" => in' \in {NoAlpn, "http/1.1"} /\ (in' # NoAlpn => in' \in offer)
    BY <2>1, <2>3, AgreedShared
  <2>5. Terminated'
    BY <2>1, <2>2, <2>4 DEF Serving, Terminated, Untouched
  <2> QED BY <2>1, <2>5 DEF Serving, Untouched, ProtocolsAgree, C!ProtocolsAgree, RecordedWasAsked,
                            C!RecordedWasAsked
<1>3. CASE C!ReadHello
  <2>1. /\ serving = "hello" /\ serving' = "resolve" /\ client' = "hello" /\ offered' = C!NegotiableAlpn
        /\ UNCHANGED <<rt, policy, inbound, offer, asked, told, up, in, tlsup, recorded>>
    BY <1>3 DEF C!ReadHello
  <2>2. Unanswered'
    BY <2>1 DEF Serving, Unanswered, Untouched, C!Mirrors, C!NegotiableAlpn
  <2> QED BY <2>1, <2>2 DEF Serving, Untouched, ProtocolsAgree, C!ProtocolsAgree, RecordedWasAsked,
                            C!RecordedWasAsked
<1>4. CASE C!Resolve
  <2>1. /\ serving = "resolve" /\ serving' = (IF rt.type = "http" THEN "spliced" ELSE "upstream")
        /\ UNCHANGED <<rt, policy, inbound, offer, client, asked, told, offered, up, in, tlsup, recorded>>
    BY <1>4 DEF C!Resolve
  <2>2. (Unanswered \/ Terminated)' <=> (Unanswered \/ Terminated)
    BY <2>1 DEF Unanswered, Terminated, C!Mirrors, C!NegotiableAlpn
  <2> QED BY <2>1, <2>2 DEF Serving, ProtocolsAgree, C!ProtocolsAgree, RecordedWasAsked, C!RecordedWasAsked
<1>5. CASE C!Upstream
  <2>1. /\ serving = "upstream" /\ serving' = (IF C!Mirrors(rt) THEN "answer" ELSE "spliced")
        /\ asked' = C!UpstreamName /\ told' = (IF rt.sni = "omit" THEN NoName ELSE C!UpstreamName)
        /\ up' \in offered \cup {NoAlpn} /\ tlsup' = TRUE
        /\ recorded' = (IF C!Records THEN C!Key ELSE NoName)
        /\ UNCHANGED <<rt, policy, inbound, offer, client, offered, in>>
    BY <1>5 DEF C!Upstream
  <2>2. C!Mirrors(rt)' = C!Mirrors(rt) /\ C!NegotiableAlpn' = C!NegotiableAlpn
    BY <2>1 DEF C!Mirrors, C!NegotiableAlpn
  <2>3. RecordedWasAsked'
    <3>1. C!Records => C!UpstreamName = C!Key /\ rt.sni # "omit"
      BY DEF C!Records, C!UpstreamName, C!Sni
    <3> QED BY <2>1, <3>1 DEF RecordedWasAsked, C!RecordedWasAsked
  <2>4. CASE C!Mirrors(rt)
    <3>1. Unanswered'
      BY <2>1, <2>2, <2>4 DEF Serving, Unanswered, Terminated
    <3> QED BY <2>1, <2>3, <2>4, <3>1 DEF Serving, ProtocolsAgree, C!ProtocolsAgree
  <2>5. CASE ~C!Mirrors(rt)
    <3>1. Terminated /\ rt.type # "http"
      BY <2>1, <2>5 DEF Serving, Unanswered
    <3>2. up' = NoAlpn /\ in' \in {NoAlpn, "http/1.1"} /\ (in' # NoAlpn => in' \in offer')
      BY <2>1, <3>1 DEF Terminated
    <3>3. ProtocolsAgree'
      BY <3>2 DEF ProtocolsAgree, C!ProtocolsAgree, C!Spoken
    <3> QED BY <2>1, <2>3, <2>5, <3>3 DEF Serving
  <2> QED BY <2>4, <2>5
<1>6. CASE C!Answer
  <2>1. /\ serving = "answer" /\ serving' = "spliced" /\ client' = "tls"
        /\ C!Agrees(C!MirrorChoice) /\ in' = C!Agreed(C!MirrorChoice)
        /\ UNCHANGED <<rt, policy, inbound, offer, asked, told, offered, up, tlsup, recorded>>
    BY <1>6 DEF C!Answer
  <2>2. offered = {"h2", "http/1.1"} \cap offer /\ up \in offered \cup {NoAlpn}
    BY <2>1 DEF Serving, Unanswered, C!NegotiableAlpn
  <2>3. C!Spoken(in') = C!Spoken(up) /\ (in' # NoAlpn => in' \in offer)
    <3>1. CASE up = "h2"
      <4>1. C!MirrorChoice = <<"h2">>
        BY <3>1 DEF C!MirrorChoice
      <4>2. in' \in {NoAlpn, "h2"} /\ (in' # NoAlpn => in' \in offer)
        BY <2>1, <4>1, AgreedShared
      <4>3. in' # NoAlpn
        <5>1. "h2" \in offer
          BY <2>2, <3>1
        <5>2. C!Shared(<<"h2">>) # {}
          <6>1. 1 \in DOMAIN <<"h2">> /\ <<"h2">>[1] \in offer
            BY <5>1
          <6> QED BY <6>1 DEF C!Shared
        <5>3. C!Shared(<<"h2">>) = {1}
          BY <5>2 DEF C!Shared
        <5>4. (CHOOSE i \in {1} : \A j \in {1} : i <= j) = 1
          OBVIOUS
        <5> QED BY <2>1, <4>1, <5>3, <5>4 DEF C!Agreed
      <4> QED BY <3>1, <4>2, <4>3
    <3>2. CASE up = "http/1.1"
      <4>1. C!MirrorChoice = <<"http/1.1">>
        BY <3>2 DEF C!MirrorChoice
      <4>2. in' \in {NoAlpn, "http/1.1"} /\ (in' # NoAlpn => in' \in offer)
        BY <2>1, <4>1, AgreedShared
      <4> QED BY <3>2, <4>2 DEF C!Spoken
    <3>3. CASE up = NoAlpn /\ offered = {}
      <4>1. C!MirrorChoice = << >>
        BY <3>3 DEF C!MirrorChoice
      <4>2. in' = NoAlpn
        BY <2>1, <4>1 DEF C!Agreed, C!Shared
      <4> QED BY <3>3, <4>2
    <3>4. CASE up = NoAlpn /\ offered # {}
      <4>1. C!MirrorChoice = <<"http/1.1">>
        BY <3>4 DEF C!MirrorChoice
      <4>2. in' \in {NoAlpn, "http/1.1"} /\ (in' # NoAlpn => in' \in offer)
        BY <2>1, <4>1, AgreedShared
      <4> QED BY <3>4, <4>2 DEF C!Spoken
    <3> QED BY <2>2, <3>1, <3>2, <3>3, <3>4
  <2>4. ProtocolsAgree'
    BY <2>1, <2>2, <2>3 DEF ProtocolsAgree, C!ProtocolsAgree, C!Spoken
  <2> QED BY <2>1, <2>4 DEF Serving, RecordedWasAsked, C!RecordedWasAsked
<1>7. CASE C!RawSplice \/ C!RawFails \/ C!FailSplice
  <2>1. /\ serving \in {"raw", "fail"} /\ serving' \in {"spliced", "fail"}
        /\ UNCHANGED <<rt, policy, inbound, offer, client, asked, told, offered, up, in, tlsup, recorded>>
    BY <1>7 DEF C!RawSplice, C!RawFails, C!FailSplice
  <2> QED BY <2>1 DEF Serving, Untouched, ProtocolsAgree, C!ProtocolsAgree, RecordedWasAsked, C!RecordedWasAsked
<1>8. CASE C!AcceptFails \/ C!UpstreamFails \/ C!FailCloses
  BY <1>1, <1>8 DEF C!AcceptFails, C!UpstreamFails, C!FailCloses
<1> QED BY <1>2, <1>3, <1>4, <1>5, <1>6, <1>7, <1>8 DEF C!Next

LEMMA ServingStep ==
  ASSUME Serving, [Next]_vars
  PROVE  Serving'
<1> DEFINE Still == UNCHANGED <<serve, inbound>> /\ (peeking' = peeking \/ peeking # "over")
<1>1. ASSUME UNCHANGED serve, serving = "idle" \/ UNCHANGED <<inbound, peeking>> PROVE Serving'
  BY <1>1 DEF serve, Serving, Before, Untouched, Unanswered, Terminated, ProtocolsAgree, C!ProtocolsAgree,
     RecordedWasAsked, C!RecordedWasAsked, C!Mirrors, C!NegotiableAlpn, C!Spoken
<1>2. CASE Classify
  <2>1. peeking # "over"
    BY <1>2 DEF Classify, P!Next, P!Send, P!Close, P!Classify, P!PeekEnough, P!PeekNothing, P!Timeout,
       P!PeekLate, P!ParseWindow
  <2> QED BY <1>1, <1>2, <2>1 DEF Serving, Classify
<1>3. CASE Classified
  BY <1>1, <1>3 DEF Classified, P!Forget, Serving
<1>4. CASE Dispatch
  <2>1. /\ serving = "idle" /\ peeking = "over" /\ peeking' = peeking
        /\ UNCHANGED <<inbound, client, asked, told, offered, up, in, tlsup, recorded>>
        /\ rt' \in C!RouteConf \cup {NoRoute}
        /\ serving' = IF rt' = NoRoute THEN "fail"
                      ELSE IF rt'.type = "raw" THEN "raw"
                      ELSE IF inbound.kind # "tls" THEN "resolve"
                      ELSE IF C!Mirrors(rt') THEN "hello" ELSE "accept"
    BY <1>4 DEF Dispatch, C!Dispatch, classify
  <2>2. Untouched' /\ ~tlsup' /\ recorded' = NoName
    BY <2>1 DEF Serving, Before, Untouched
  <2>3. ProtocolsAgree' /\ RecordedWasAsked'
    BY <2>1, <2>2 DEF ProtocolsAgree, C!ProtocolsAgree, RecordedWasAsked, C!RecordedWasAsked
  <2>4. C!Mirrors(rt)' <=> inbound.kind = "tls" /\ C!Mirrors(rt')
    BY <2>1 DEF C!Mirrors
  <2>5. CASE rt' = NoRoute
    BY <2>1, <2>2, <2>3, <2>5 DEF Serving, Before
  <2>6. CASE rt' # NoRoute /\ rt'.type = "raw"
    BY <2>1, <2>2, <2>3, <2>6 DEF Serving, Before
  <2>7. CASE rt' # NoRoute /\ rt'.type # "raw" /\ inbound.kind # "tls"
    <3>1. serving' = "resolve"
      BY <2>1, <2>7
    <3>2. Terminated'
      BY <2>1, <2>2, <2>4, <2>7 DEF Terminated, Untouched
    <3> QED BY <2>1, <2>2, <2>3, <2>7, <3>1, <3>2 DEF Serving, Before, Untouched
  <2>8. CASE rt' # NoRoute /\ rt'.type # "raw" /\ inbound.kind = "tls" /\ C!Mirrors(rt')
    <3>1. serving' = "hello"
      BY <2>1, <2>8
    <3> QED BY <2>1, <2>2, <2>3, <2>4, <2>8, <3>1 DEF Serving, Before
  <2>9. CASE rt' # NoRoute /\ rt'.type # "raw" /\ inbound.kind = "tls" /\ ~C!Mirrors(rt')
    <3>1. serving' = "accept"
      BY <2>1, <2>9
    <3> QED BY <2>1, <2>2, <2>3, <2>4, <2>9, <3>1 DEF Serving, Before
  <2> QED BY <2>5, <2>6, <2>7, <2>8, <2>9
<1>5. CASE Serve
  BY <1>5, ServeStep DEF Serve, classify
<1>6. CASE Splice
  <2>1. /\ serving = "spliced" /\ serving' = "over" /\ peeking' = peeking /\ recorded' = NoName
    BY <1>6 DEF Splice, C!Forget, classify
  <2> QED BY <2>1 DEF Serving, Before, ProtocolsAgree, C!ProtocolsAgree, RecordedWasAsked, C!RecordedWasAsked
<1>7. CASE Pump \/ Ended \/ UNCHANGED vars
  BY <1>1, <1>7 DEF Pump, Ended, vars, classify
<1> QED BY <1>2, <1>3, <1>4, <1>5, <1>6, <1>7 DEF Next

LEMMA PhasesInv == Spec => [](Classifying /\ Serving)
<1>1. Init => Serving
  BY DEF Init, C!Init, Serving, Before, Untouched, ProtocolsAgree, C!ProtocolsAgree, RecordedWasAsked,
     C!RecordedWasAsked
<1>2. ASSUME Classifying, Serving, [Next]_vars PROVE Classifying' /\ Serving'
  <2>1. serving # "idle" => peeking = "over"
    BY <1>2 DEF Serving
  <2> QED BY <1>2, <2>1, ClassifyingStep, ServingStep
<1> QED BY InitClassifying, <1>1, <1>2, PTL DEF Spec

(* A window that holds the whole SNI or Host value is never routed as a    *)
(* connection without one, for every stream and every cut of it into       *)
(* segments (classify in src/peek.rs).                                     *)
THEOREM KeysAreFound == Spec => []KeyInWindowIsFound
<1>1. Classifying => KeyInWindowIsFound
  BY DEF Classifying
<1> QED BY PhasesInv, <1>1, PTL

(* The two sides of a spliced TLS connection speak one protocol, each one  *)
(* it was offered (serve_mirrored, serve_terminated).                      *)
THEOREM ProtocolsAlwaysAgree == Spec => []ProtocolsAgree
<1>1. Serving => ProtocolsAgree
  BY DEF Serving
<1> QED BY PhasesInv, <1>1, PTL

(* A client whose bytes have been read is never handed to a raw route or a *)
(* fail policy (raw_passthrough, apply_fail).                              *)
THEOREM StreamsPassedOnWhole == Spec => []PassedOnWhole
<1>1. Serving => PassedOnWhole
  BY DEF Serving, Before, Untouched, PassedOnWhole, C!PassedOnWhole
<1> QED BY PhasesInv, <1>1, PTL

(* Coverage is recorded only for a name the upstream was asked about and   *)
(* told of (record_upstream_coverage).                                     *)
THEOREM RecordedNamesWereAsked == Spec => []RecordedWasAsked
<1>1. Serving => RecordedWasAsked
  BY DEF Serving
<1> QED BY PhasesInv, <1>1, PTL
=============================================================================
