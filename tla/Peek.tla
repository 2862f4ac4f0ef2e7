-------------------------------- MODULE Peek --------------------------------
(***************************************************************************)
(* Classification of an inbound connection (src/peek.rs): a window of      *)
(* peeked bytes that grows until a parser finds the routing key in it, or  *)
(* finds that there is none.                                               *)
(*                                                                         *)
(* A stream is described by the offsets at which its parts end; a window   *)
(* is a number of its bytes.  What a parser says is a function of the two. *)
(***************************************************************************)
EXTENDS Naturals, Sequences

CONSTANTS
  Streams,   \* what clients send
  MaxPeek,   \* MAX_PEEK, the largest window
  NoStream   \* nothing is peeked any more

VARIABLES
  stream,    \* what this client sends
  arrived,   \* bytes of it in the socket buffer
  conn,      \* "open", "eof" after a FIN, "reset"
  peeking,   \* classify: "peek" in peek_at_least, "late" after its timeout, "parse", "done";
             \* "over" once its caller went on
  have,      \* bytes in the window last parsed
  want,      \* bytes the next peek waits for
  inbound    \* the result

vars == <<stream, arrived, conn, peeking, have, want, inbound>>

(* A ClientHello: `extensions` is where its extension block's content      *)
(* starts (0: no block), `exts` its extensions in order, each of at least  *)
(* the four bytes of its type and length.  A request head:                 *)
(* `method` bytes of method token, the Host value between `host` and       *)
(* `hostEnd` (0: no Host line), the blank line's end at `head`.            *)
IsHello(s) == s.kind = "tls"
IsRequest(s) == s.kind = "http"

PeekConstants ==
  /\ MaxPeek \in Nat \ {0} /\ NoStream \notin Streams
  /\ \A s \in Streams :
       /\ s.size \in Nat \ {0}
       /\ IsHello(s) =>
            /\ s.extensions \in Nat /\ s.exts \in Seq([sni : BOOLEAN, end : Nat])
            /\ \A i \in DOMAIN s.exts : s.extensions + 4 <= s.exts[i].end
            /\ \A i, j \in DOMAIN s.exts : i < j => s.exts[i].end + 4 <= s.exts[j].end
       /\ IsRequest(s) => /\ {s.method, s.host, s.hostEnd, s.head} \subseteq Nat
                          /\ s.method \in 1 .. s.head /\ s.head <= s.size
                          /\ s.host # 0 => s.host \in s.method + 1 .. s.hostEnd - 1 /\ s.hostEnd < s.head

NoKey == "none"
Inbound == [kind : {"tls", "http", "unknown", "pending"}, key : {NoKey, "whole", "cut"}]
Result(kind, key) == [kind |-> kind, key |-> key]
Pending == Result("pending", NoKey)

-----------------------------------------------------------------------------
(* parse_tls_sni on the first n bytes: a key, "no key", or "more".         *)

Least(a, b) == IF a < b THEN a ELSE b

Start(s, i) == IF i = 1 THEN s.extensions ELSE s.exts[i - 1].end
(* A mutant: the last byte of an extension's body is left out. *)
CompleteOffByOne(s, i, n) == s.exts[i].end < n
Complete(s, i, n) == s.exts[i].end <= n

(* The extension the scan stops at: the first not wholly in the window, or *)
(* the SNI.                                                                *)
StopsAt(s, n) ==
  {i \in DOMAIN s.exts : /\ \A j \in 1 .. i - 1 : Complete(s, j, n) /\ ~s.exts[j].sni
                         /\ Complete(s, i, n) => s.exts[i].sni}

Sni(s, n) ==
  IF s.extensions = 0
  THEN IF n < s.size THEN "more" ELSE NoKey
  ELSE IF n < s.extensions - 2 THEN "more"
  ELSE IF n < s.extensions THEN NoKey
  ELSE IF StopsAt(s, n) = {} THEN NoKey
  ELSE LET i == CHOOSE i \in StopsAt(s, n) : TRUE IN
       IF Complete(s, i, n) THEN "whole"
       ELSE IF Start(s, i) + 4 > n THEN NoKey ELSE "more"

(* parse_http_host on the first n bytes.  The first four bytes or more of  *)
(* a method token make a request; the last line need not be complete.      *)
Host(s, n) ==
  IF n < s.method THEN "other"
  ELSE IF s.host # 0 /\ n >= s.host
  THEN IF n = s.host THEN NoKey ELSE IF n < s.hostEnd THEN "cut" ELSE "whole"
  ELSE IF n >= s.head THEN NoKey ELSE "more"

(* One parse of the window: a result, or Pending for "peek more". *)
Parse(s, n) ==
  LET p == IF IsHello(s) THEN Sni(s, n) ELSE IF IsRequest(s) THEN Host(s, n) ELSE "other" IN
  IF p = "other" THEN Result("unknown", NoKey)
  ELSE IF p # "more" THEN Result(s.kind, p)
  ELSE IF n < MaxPeek THEN Pending ELSE Result(s.kind, NoKey)

(* No progress: decide with what there is. *)
Stalled(s) == Result(IF IsHello(s) THEN "tls" ELSE "http", NoKey)

-----------------------------------------------------------------------------
Window == Least(arrived, MaxPeek)

Init ==
  /\ stream \in Streams
  /\ arrived = 0 /\ conn = "open"
  /\ peeking = "peek" /\ have = 0 /\ want = 1
  /\ inbound = Pending

Decide(r) == peeking' = "done" /\ inbound' = r

(* The client's TCP segments, in order; FIN; RST. *)
Send ==
  /\ peeking # "over" /\ conn = "open" /\ arrived < stream.size
  /\ arrived' \in arrived + 1 .. stream.size
  /\ UNCHANGED <<stream, conn, peeking, have, want, inbound>>

Close ==
  /\ peeking # "over" /\ conn = "open"
  /\ conn' \in {"eof", "reset"}
  /\ UNCHANGED <<stream, arrived, peeking, have, want, inbound>>

(* peek_at_least returned n bytes: a first window, or a larger one. *)
Grown(n) ==
  /\ have' = n /\ peeking' = "parse"
  /\ UNCHANGED inbound

(* It returned nothing, or no more than before. *)
NoProgress ==
  /\ Decide(IF have = 0 THEN Result("unknown", NoKey) ELSE Stalled(stream))
  /\ UNCHANGED have

PeekEnough ==
  /\ peeking = "peek" /\ conn # "reset" /\ arrived > 0 /\ Window >= want
  /\ Grown(Window)
  /\ UNCHANGED <<stream, arrived, conn, want>>

(* EOF with an empty buffer, or an error. *)
PeekNothing ==
  /\ peeking = "peek"
  /\ conn = "reset" \/ (conn = "eof" /\ arrived = 0)
  /\ NoProgress
  /\ UNCHANGED <<stream, arrived, conn, want>>

(* PEEK_TIMEOUT. *)
Timeout ==
  /\ peeking = "peek"
  /\ peeking' = "late"
  /\ UNCHANGED <<stream, arrived, conn, have, want, inbound>>

(* The peek after the timeout has no deadline of its own: it returns what  *)
(* is buffered, or waits for a first byte.                                 *)
PeekLate ==
  /\ peeking = "late"
  /\ arrived > 0 \/ conn # "open"
  /\ IF conn # "reset" /\ Window > have THEN Grown(Window) ELSE NoProgress
  /\ UNCHANGED <<stream, arrived, conn, want>>

ParseWindow ==
  /\ peeking = "parse"
  /\ LET r == Parse(stream, have) IN
     IF r = Pending
     THEN peeking' = "peek" /\ want' = Least(have + 1, MaxPeek) /\ UNCHANGED inbound
     ELSE Decide(r) /\ UNCHANGED want
  /\ UNCHANGED <<stream, arrived, conn, have>>

Classify == PeekEnough \/ PeekNothing \/ Timeout \/ PeekLate \/ ParseWindow

(* classify has returned: only `inbound` is left of it. *)
Forget ==
  /\ peeking = "done" /\ peeking' = "over"
  /\ stream' = NoStream /\ arrived' = 0 /\ conn' = "open" /\ have' = 0 /\ want' = 1

Next == Send \/ Close \/ Classify
(* The task is polled and its timer fires; a client need not do anything. *)
Fairness == WF_vars(Classify)

-----------------------------------------------------------------------------
(* The key is wholly in the first n bytes of s. *)
KeyWithin(s, n) ==
  \/ IsHello(s) /\ s.extensions # 0 /\ \E i \in DOMAIN s.exts : s.exts[i].sni /\ s.exts[i].end <= n
  \/ IsRequest(s) /\ s.host # 0 /\ s.hostEnd <= n

(* Every variable has its type: what was peeked has arrived and fits the   *)
(* window, and a connection is classified once it is done with (classify). *)
TypeOK ==
  /\ peeking \in {"peek", "late", "parse", "done", "over"}
  /\ peeking # "over" =>
       /\ stream \in Streams /\ arrived \in 0 .. stream.size /\ conn \in {"open", "eof", "reset"}
       /\ have \in 0 .. Least(arrived, MaxPeek) /\ want \in 1 .. MaxPeek
       /\ inbound \in Inbound /\ (inbound = Pending <=> peeking # "done")

(* A window that holds the whole SNI or Host value is never routed as a    *)
(* connection without one, wherever its segments and the window end.       *)
KeyInWindowIsFound == peeking = "done" /\ inbound.key = NoKey => ~KeyWithin(stream, have)

=============================================================================
