--------------------------------- MODULE Pipe ---------------------------------
(***************************************************************************)
(* What a spliced connection promises its two peers: two independent,      *)
(* reliable streams.  Splice implements this with bounded buffers, partial *)
(* writes, a shared timer and two pumps.                                   *)
(***************************************************************************)
EXTENDS Naturals

CONSTANTS
  Dir,       \* "up" and "down"
  NotYet     \* nothing has been reported

VARIABLES
  sent,      \* Dir -> bytes its source has sent
  closed,    \* Dir -> "open", "eof" or "reset": its source
  delivered, \* Dir -> bytes handed to its receiver
  ended,     \* Dir -> its receiver has been told the end
  outcome,   \* "none", "running", "ok", "error" or "idle"
  reported   \* the bytes accounted for

vars == <<sent, closed, delivered, ended, outcome, reported>>

Init ==
  /\ sent = [d \in Dir |-> 0] /\ delivered = [d \in Dir |-> 0]
  /\ closed = [d \in Dir |-> "open"] /\ ended = [d \in Dir |-> FALSE]
  /\ outcome = "none" /\ reported = NotYet

Begin ==
  /\ outcome = "none" /\ outcome' = "running"
  /\ UNCHANGED <<sent, closed, delivered, ended, reported>>

Send(d) ==
  /\ outcome = "running" /\ closed[d] = "open"
  /\ sent' = [sent EXCEPT ![d] = @ + 1]
  /\ UNCHANGED <<closed, delivered, ended, outcome, reported>>

Close(d, how) ==
  /\ outcome = "running" /\ closed[d] # "reset" /\ how = "eof" => closed[d] = "open"
  /\ closed' = [closed EXCEPT ![d] = how]
  /\ UNCHANGED <<sent, delivered, ended, outcome, reported>>

(* Only what was sent, in order and once. *)
Deliver(d) ==
  /\ outcome = "running" /\ ~ended[d]
  /\ \E n \in 1 .. sent[d] - delivered[d] : delivered' = [delivered EXCEPT ![d] = @ + n]
  /\ UNCHANGED <<sent, closed, ended, outcome, reported>>

(* The end of a direction, after all of it; the other goes on. *)
PassOn(d) ==
  /\ outcome = "running" /\ ~ended[d]
  /\ closed[d] = "eof" /\ delivered[d] = sent[d]
  /\ ended' = [ended EXCEPT ![d] = TRUE]
  /\ UNCHANGED <<sent, closed, delivered, outcome, reported>>

(* It is over when both directions have ended, when a peer is gone, or for *)
(* want of traffic; every byte delivered is accounted for.                 *)
Finish(how) ==
  /\ outcome = "running" /\ outcome' = how
  /\ how = "ok" => \A d \in Dir : ended[d]
  /\ how = "error" => \E d \in Dir : closed[d] = "reset"
  /\ reported' = delivered["up"] + delivered["down"]
  /\ UNCHANGED <<sent, closed, delivered, ended>>

Next ==
  \/ Begin
  \/ \E d \in Dir : Send(d) \/ Deliver(d) \/ PassOn(d)
  \/ \E d \in Dir, how \in {"eof", "reset"} : Close(d, how)
  \/ \E how \in {"ok", "error", "idle"} : Finish(how)

Spec == Init /\ [][Next]_vars
=============================================================================
