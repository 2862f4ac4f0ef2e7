------------------------------- MODULE Splice -------------------------------
(***************************************************************************)
(* The byte pumps of a connection (splice, pump, idle_guard and Report in  *)
(* src/proxy.rs): one per direction, a shared idle guard, and the report   *)
(* to the pool when everything is dropped.                                 *)
(*                                                                         *)
(* Bytes are counted, not named: a pump only ever appends what it read.    *)
(* Time is in units; a stored permit is consumed before time goes on.      *)
(***************************************************************************)
EXTENDS Naturals, FiniteSets

CONSTANTS
  MaxSent,  \* bound on what each side sends
  Buffer,   \* COPY_BUF_SIZE
  Socket,   \* what a receiver accepts ahead of reading it
  Idle      \* idle_timeout; 0: disabled

Dir == {"up", "down"}  \* client to upstream, upstream to client

SpliceConstants == {MaxSent, Idle} \subseteq Nat /\ {Buffer, Socket} \subseteq Nat \ {0}

VARIABLES
  sent,      \* Dir -> bytes the source has sent
  source,    \* Dir -> "open", "eof" or "reset"
  sink,      \* Dir -> the receiver: "open", "ended" by a shutdown, or "gone"
  taken,     \* Dir -> bytes the receiver has read
  buf,       \* Dir -> bytes read by the pump and not yet written
  written,   \* Dir -> bytes written
  pump,      \* Dir -> "read", "write", "ok" or "error"
  permit,    \* a notification is stored in `activity`
  quiet,     \* the idle guard's timer
  since,     \* history: Dir -> time since the last byte was written
  result,    \* "none" before the splice, "running", "ok", "error" or "idle"
  reported   \* Report::drop: the bytes observed, or NotYet

NotYet == MaxSent * 3
peers == <<sent, source, sink, taken>>
vars == <<peers, buf, written, pump, permit, quiet, since, result, reported>>

Init ==
  /\ sent = [d \in Dir |-> 0] /\ source = [d \in Dir |-> "open"]
  /\ sink = [d \in Dir |-> "open"] /\ taken = [d \in Dir |-> 0]
  /\ buf = [d \in Dir |-> 0] /\ written = [d \in Dir |-> 0]
  /\ pump = [d \in Dir |-> "read"]
  /\ permit = FALSE /\ quiet = 0 /\ since = [d \in Dir |-> 0]
  /\ result = "none" /\ reported = NotYet

Running == result = "running"
Over == result \in {"ok", "error", "idle"}
Other(d) == CHOOSE e \in Dir : e # d

(* splice is called with the two streams. *)
Begin ==
  /\ result = "none" /\ result' = "running"
  /\ UNCHANGED <<peers, buf, written, pump, permit, quiet, since, reported>>

-----------------------------------------------------------------------------
(* The client and the upstream.  Each is the source of one direction and   *)
(* the sink of the other: gone, it is gone for both.                       *)
Send(d) ==
  /\ Running /\ source[d] = "open" /\ sent[d] < MaxSent
  /\ sent' = [sent EXCEPT ![d] = @ + 1]
  /\ UNCHANGED <<source, sink, taken, buf, written, pump, permit, quiet, since, result, reported>>

HalfClose(d) ==
  /\ Running /\ source[d] = "open"
  /\ source' = [source EXCEPT ![d] = "eof"]
  /\ UNCHANGED <<sent, sink, taken, buf, written, pump, permit, quiet, since, result, reported>>

Reset(d) ==
  /\ Running /\ source[d] # "reset"
  /\ source' = [source EXCEPT ![d] = "reset"]
  /\ sink' = [sink EXCEPT ![Other(d)] = "gone"]
  /\ UNCHANGED <<sent, taken, buf, written, pump, permit, quiet, since, result, reported>>

Take(d) ==
  /\ Running /\ sink[d] # "gone" /\ taken[d] < written[d]
  /\ taken' = [taken EXCEPT ![d] = @ + 1]
  /\ UNCHANGED <<sent, source, sink, buf, written, pump, permit, quiet, since, result, reported>>

-----------------------------------------------------------------------------
(* pump *)
Unread(d) == sent[d] - written[d] - buf[d]

Read(d) ==
  /\ Running /\ pump[d] = "read" /\ source[d] # "reset"
  /\ \E n \in 1 .. Buffer : n <= Unread(d) /\ buf' = [buf EXCEPT ![d] = n]
  /\ pump' = [pump EXCEPT ![d] = "write"]
  /\ UNCHANGED <<peers, written, permit, quiet, since, result, reported>>

(* An EOF is passed on; a shutdown towards a peer that is gone fails. *)
ReadEof(d) ==
  /\ Running /\ pump[d] = "read" /\ source[d] = "eof" /\ Unread(d) = 0
  /\ IF sink[d] = "gone" THEN pump' = [pump EXCEPT ![d] = "error"] /\ UNCHANGED sink
     ELSE pump' = [pump EXCEPT ![d] = "ok"] /\ sink' = [sink EXCEPT ![d] = "ended"]
  /\ UNCHANGED <<sent, source, taken, buf, written, permit, quiet, since, result, reported>>

ReadFails(d) ==
  /\ Running /\ pump[d] = "read" /\ source[d] = "reset"
  /\ pump' = [pump EXCEPT ![d] = "error"]
  /\ UNCHANGED <<peers, buf, written, permit, quiet, since, result, reported>>

(* A mutant: the guard hears of a chunk when all of it is written. *)
WriteQuietly(d) ==
  /\ Running /\ pump[d] = "write" /\ sink[d] = "open"
  /\ \E n \in 1 .. buf[d] :
       /\ written[d] + n - taken[d] <= Socket
       /\ buf' = [buf EXCEPT ![d] = @ - n] /\ written' = [written EXCEPT ![d] = @ + n]
       /\ pump' = [pump EXCEPT ![d] = IF n = buf[d] THEN "read" ELSE "write"]
       /\ permit' = (permit \/ n = buf[d])
  /\ since' = [since EXCEPT ![d] = 0]
  /\ UNCHANGED <<peers, quiet, result, reported>>

(* Part of the chunk is written, as the receiver makes room for it, and    *)
(* the idle guard is notified of each part.                                *)
Write(d) ==
  /\ Running /\ pump[d] = "write" /\ sink[d] = "open"
  /\ \E n \in 1 .. buf[d] :
       /\ written[d] + n - taken[d] <= Socket
       /\ buf' = [buf EXCEPT ![d] = @ - n] /\ written' = [written EXCEPT ![d] = @ + n]
       /\ pump' = [pump EXCEPT ![d] = IF n = buf[d] THEN "read" ELSE "write"]
  /\ permit' = TRUE
  /\ since' = [since EXCEPT ![d] = 0]
  /\ UNCHANGED <<peers, quiet, result, reported>>

WriteFails(d) ==
  /\ Running /\ pump[d] = "write" /\ sink[d] = "gone"
  /\ pump' = [pump EXCEPT ![d] = "error"]
  /\ UNCHANGED <<peers, buf, written, permit, quiet, since, result, reported>>

-----------------------------------------------------------------------------
(* The futures and the streams are dropped, and Report with them. *)
End(r) == result' = r /\ reported' = written["up"] + written["down"]

(* A mutant: one direction's end is the connection's. *)
JoinedFirst == \E d \in Dir : pump[d] = "ok"
Joined == \A d \in Dir : pump[d] = "ok"
Failed == \E d \in Dir : pump[d] = "error"

(* try_join!: both directions end, or the first error does. *)
Finish ==
  /\ Running /\ (Joined \/ Failed)
  /\ End(IF Failed THEN "error" ELSE "ok")
  /\ UNCHANGED <<peers, buf, written, pump, permit, quiet, since>>

(* idle_guard *)
Notified ==
  /\ Running /\ permit
  /\ permit' = FALSE /\ quiet' = 0
  /\ UNCHANGED <<peers, buf, written, pump, since, result, reported>>

(* A mutant: the guard sleeps while one direction is closed. *)
GuardsOpen == Idle # 0 /\ \A d \in Dir : source[d] = "open"
Guards == Idle # 0
TimedOut ==
  /\ Running /\ Guards /\ ~permit /\ quiet >= Idle
  /\ End("idle")
  /\ UNCHANGED <<peers, buf, written, pump, permit, quiet, since>>

Aged(n) == IF n < Idle + 1 THEN n + 1 ELSE n
Tick ==
  /\ Running /\ ~permit /\ ~(Guards /\ quiet >= Idle) /\ ~Joined /\ ~Failed
  /\ quiet' = Aged(quiet)
  /\ since' = [d \in Dir |-> Aged(since[d])]
  /\ UNCHANGED <<peers, buf, written, pump, permit, result, reported>>

Peer(d) == Send(d) \/ HalfClose(d) \/ Reset(d) \/ Take(d)
Pump(d) == Read(d) \/ ReadEof(d) \/ ReadFails(d) \/ Write(d) \/ WriteFails(d)
Task == (\E d \in Dir : Pump(d)) \/ Finish \/ Notified \/ TimedOut
Next == (\E d \in Dir : Peer(d)) \/ Task \/ Tick
Spec == Init /\ [][Begin \/ Next]_vars

(* The task is polled whenever something happens, and time goes on; the    *)
(* peers may be silent for ever.                                           *)
Fairness == (\A d \in Dir : WF_vars(Pump(d)))
            /\ WF_vars(Finish) /\ WF_vars(Notified) /\ WF_vars(TimedOut) /\ WF_vars(Tick)

-----------------------------------------------------------------------------
(* Types, and no direction is ahead of what its source sent or of what its *)
(* receiver makes room for: a pump writes what it read, once (pump).       *)
TypeOK ==
  /\ sent \in [Dir -> 0 .. MaxSent] /\ source \in [Dir -> {"open", "eof", "reset"}]
  /\ sink \in [Dir -> {"open", "ended", "gone"}] /\ taken \in [Dir -> 0 .. MaxSent]
  /\ buf \in [Dir -> 0 .. Buffer] /\ written \in [Dir -> 0 .. MaxSent]
  /\ pump \in [Dir -> {"read", "write", "ok", "error"}] /\ permit \in BOOLEAN
  /\ quiet \in 0 .. Idle + 1 /\ since \in [Dir -> 0 .. Idle + 1]
  /\ result \in {"none", "running", "ok", "error", "idle"} /\ reported \in 0 .. NotYet
  /\ \A d \in Dir : /\ taken[d] <= written[d] /\ written[d] - taken[d] <= Socket
                    /\ written[d] + buf[d] <= sent[d]
                    /\ pump[d] = "write" => buf[d] > 0

(* A splice is two independent, reliable streams: "EOF in one direction    *)
(* still allows the other to finish" (splice), so a half-closed request    *)
(* still gets its response; one that ends well has carried everything both *)
(* ways and passed on both EOFs; one that fails does so because a peer is  *)
(* gone; and the pool hears of every byte written, for every exit (Report).*)
TwoStreams == INSTANCE Pipe WITH
                closed <- source, delivered <- written,
                ended <- [d \in Dir |-> pump[d] = "ok"], outcome <- result
ImplementsPipe == TwoStreams!Spec

(* "A true idle timeout (reset on every chunk)" (config.rs): a connection  *)
(* is only cut for idleness when no byte was written for that long,        *)
(* however slowly its receivers read.                                      *)
CutOnlyWhenIdle == result = "idle" => \A d \in Dir : since[d] >= Idle

(* A connection whose peers fall silent, half-closed or not, is reaped     *)
(* (idle_guard).                                                           *)
Reaped == <>[](~Running)

-----------------------------------------------------------------------------
(* What makes the two inductive: a pump that reads has nothing in hand, one *)
(* fails only because a peer is gone, and the timer never runs ahead of the *)
(* traffic unless a notification is still to be taken.                      *)
PumpInv ==
  /\ \A d \in Dir : /\ pump[d] = "read" => buf[d] = 0
                    /\ sink[d] = "gone" => source[Other(d)] = "reset"
                    /\ pump[d] = "error" => \E e \in Dir : source[e] = "reset"
  /\ permit \/ \A d \in Dir : quiet <= since[d]
=============================================================================
