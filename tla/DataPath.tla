------------------------------ MODULE DataPath ------------------------------
(***************************************************************************)
(* An accepted connection from its first byte to its last (dispatch in     *)
(* src/proxy.rs): it is classified (Peek), served by the route its key     *)
(* selects (Connection), and its bytes are pumped until both sides are     *)
(* done (Splice).  One task does these in turn, each awaiting the one      *)
(* before: a phase begins with what the last one returned, and nothing     *)
(* else of it is left.                                                     *)
(***************************************************************************)
EXTENDS Naturals, Sequences

CONSTANTS
  Streams, MaxPeek, NoStream,        \* see Peek
  NoName, NoAlpn, NoRoute,           \* see Connection
  MaxSent, Buffer, Socket, Idle      \* see Splice

VARIABLES
  stream, arrived, conn, peeking, have, want,
  inbound,
  rt, policy, offer, serving, client, asked, told, offered, up, in, tlsup, recorded,
  sent, source, sink, taken, buf, written, pump, permit, quiet, since, result, reported

P == INSTANCE Peek
C == INSTANCE Connection
S == INSTANCE Splice

ASSUME DataPathAssumption == P!PeekConstants /\ C!ConnectionConstants /\ S!SpliceConstants

classify == <<stream, arrived, conn, peeking, have, want>>
serve == <<rt, policy, offer, serving, client, asked, told, offered, up, in, tlsup, recorded>>
splice == <<sent, source, sink, taken, buf, written, pump, permit, quiet, since, result, reported>>
vars == <<classify, inbound, serve, splice>>

Init == P!Init /\ C!Init /\ S!Init

Classify == P!Next /\ UNCHANGED <<serve, splice>>

(* classify(&client).await returned: the router is asked for the key. *)
Classified == P!Forget /\ UNCHANGED <<inbound, serve, splice>>
Dispatch == peeking = "over" /\ result = "none" /\ C!Dispatch /\ UNCHANGED <<classify, splice>>

Serve == C!Next /\ UNCHANGED <<classify, splice>>

(* splice is called with what the route's handshakes have made of the two  *)
(* streams.                                                                *)
Splice ==
  /\ C!Forget /\ S!Begin
  /\ inbound' = P!Pending
  /\ UNCHANGED classify

Pump == S!Next /\ UNCHANGED <<classify, inbound, serve>>

(* dispatch has returned. *)
Ended == (serving = "closed" \/ S!Over) /\ UNCHANGED vars

Next == Classify \/ Classified \/ Dispatch \/ Serve \/ Splice \/ Pump \/ Ended

Spec == Init /\ [][Next]_vars
FairSpec == Spec /\ P!Fairness /\ S!Fairness

-----------------------------------------------------------------------------
(* What each phase guarantees, while it runs and whatever came before it.  *)

(* Every variable has its type (see the modules of the phases). *)
TypeOK == P!TypeOK /\ C!TypeOK /\ S!TypeOK

(* classify: a key wholly inside the window that was parsed is found. *)
KeyInWindowIsFound == P!KeyInWindowIsFound

(* serve_mirrored, serve_terminated: the two sides of a spliced TLS        *)
(* connection speak one protocol, each one it was offered.                 *)
ProtocolsAgree == C!ProtocolsAgree

(* raw_passthrough, apply_fail: nothing was read off the stream before. *)
PassedOnWhole == C!PassedOnWhole

(* record_upstream_coverage: coverage is recorded for a name the upstream  *)
(* was asked about and told of.                                            *)
RecordedWasAsked == C!RecordedWasAsked

(* splice: a transfer is two independent, reliable streams. *)
ImplementsPipe == S!ImplementsPipe

(* idle_guard: no transfer is cut while bytes move. *)
CutOnlyWhenIdle == S!CutOnlyWhenIdle

(* idle_guard: a splice whose peers fall silent ends. *)
Reaped == S!Reaped
=============================================================================
