----------------------------- MODULE Connection -----------------------------
(***************************************************************************)
(* One accepted connection from its classification to the moment its bytes *)
(* are spliced (dispatch and the serve_* functions of src/proxy.rs): the   *)
(* order of the inbound handshake and the upstream's, what ALPN each side  *)
(* is offered, which name the upstream is asked for, and what a fail       *)
(* policy may still do with the client's stream.                           *)
(*                                                                         *)
(* Names are told apart by where they come from.  What the network does    *)
(* (a lookup, a connect, a handshake) succeeds or fails freely; the retry  *)
(* of a rejected ECH handshake is EchProvider's subject, the connect       *)
(* Dial's, the splice itself Splice's.                                     *)
(***************************************************************************)
EXTENDS Naturals, Sequences

CONSTANTS NoName, NoAlpn, NoRoute

Protocol == {"h2", "http/1.1", "other"}
Name == {"key", "override", "upstream", "verify"}

RouteType == {"raw", "http", "tls", "ech"}
RouteConf == [type : RouteType, http2 : BOOLEAN, host : {"fixed", "reflect", "pool"},
              sni : {"fixed", "reflect", "omit"}, verify_name : BOOLEAN]
FailPolicy == {"close", "passthrough", "system"}

ConnectionConstants ==
  NoName \notin Name /\ NoAlpn \notin Protocol /\ NoRoute \notin RouteConf

VARIABLES
  rt,        \* the route, or NoRoute when none matches
  policy,    \* the fail policy that would apply: the route's or `unmatched`
  inbound,   \* the classification: Peek's result
  offer,     \* the client's ALPN list, as a set; {}: no extension
  serving,        \* "dispatch", "raw", "accept", "hello", "resolve", "upstream",
             \* "answer", "fail", "spliced", "closed"
  client,    \* "whole": nothing read yet; "hello": its ClientHello was;
             \* "tls": terminated
  asked,     \* the name the upstream handshake is opened with
  told,      \* the name transmitted to the upstream
  offered,   \* the ALPN offered to the upstream, as a set: its order, the
             \* gateway's own, decides nothing here
  up, in,    \* the ALPN of the upstream and of the inbound connection
  tlsup,     \* the upstream connection is TLS
  recorded   \* the name whose coverage was reported, or NoName

conf == <<rt, policy, inbound, offer>>
vars == <<conf, serving, client, asked, told, offered, up, in, tlsup, recorded>>

Init ==
  /\ rt = NoRoute /\ policy = "close" /\ offer = {}
  /\ serving = "idle" /\ client = "whole"
  /\ asked = NoName /\ told = NoName /\ offered = {}
  /\ up = NoAlpn /\ in = NoAlpn /\ tlsup = FALSE /\ recorded = NoName

-----------------------------------------------------------------------------
Goto(l) == serving' = l
Closed == Goto("closed") /\ UNCHANGED <<conf, client, asked, told, offered, up, in, tlsup, recorded>>

Keyed == inbound.key # "none"
Key == IF Keyed THEN "key" ELSE NoName
(* The effective override name: suppressing SNI still resolves one. *)
Sni == IF rt.sni = "fixed" THEN "override" ELSE Key
DialHost == CASE rt.host = "fixed" -> "upstream" [] rt.host = "reflect" -> Key
              [] rt.host = "pool" -> NoName

Mirrors(r) == inbound.kind = "tls" /\ r.http2 /\ r.type \in {"tls", "ech"}

(* The router has been asked for the classified key. *)
Dispatch ==
  /\ serving = "idle"
  /\ rt' \in RouteConf \cup {NoRoute} /\ policy' \in FailPolicy
  /\ offer' \in IF inbound.kind = "tls" THEN SUBSET Protocol ELSE {{}}
  /\ serving' = IF rt' = NoRoute THEN "fail"
                ELSE IF rt'.type = "raw" THEN "raw"
                ELSE IF inbound.kind # "tls" THEN "resolve"
                ELSE IF Mirrors(rt') THEN "hello" ELSE "accept"
  /\ UNCHANGED <<inbound, client, asked, told, offered, up, in, tlsup, recorded>>

-----------------------------------------------------------------------------
(* The inbound handshake under a server config: the server's preference    *)
(* decides, and a list that shares nothing with a client's ends it.        *)
Shared(config) == {i \in DOMAIN config : config[i] \in offer}
Agrees(config) == config = << >> \/ offer = {} \/ Shared(config) # {}
Agreed(config) ==
  IF Shared(config) = {} THEN NoAlpn
  ELSE config[CHOOSE i \in Shared(config) : \A j \in Shared(config) : i <= j]

(* serve_terminated: only a cleartext upstream lets the client choose h2. *)
TerminatedConfig == IF rt.http2 /\ rt.type = "http" THEN <<"h2", "http/1.1">> ELSE <<"http/1.1">>

Accept ==
  /\ serving = "accept" /\ Agrees(TerminatedConfig)
  /\ in' = Agreed(TerminatedConfig) /\ client' = "tls"
  /\ Goto("resolve")
  /\ UNCHANGED <<conf, asked, told, offered, up, tlsup, recorded>>

(* A bad ClientHello, or a handshake that ends otherwise. *)
AcceptFails == serving \in {"accept", "hello", "answer"} /\ Closed

(* negotiable_alpn *)
NegotiableAlpn == {"h2", "http/1.1"} \cap offer

(* serve_mirrored reads the ClientHello without answering it. *)
ReadHello ==
  /\ serving = "hello"
  /\ client' = "hello" /\ offered' = NegotiableAlpn
  /\ Goto("resolve")
  /\ UNCHANGED <<conf, asked, told, up, in, tlsup, recorded>>

-----------------------------------------------------------------------------
(* Upstream::resolve, and the dial of an http route. *)
Resolvable == rt.host = "pool" \/ DialHost # NoName

Resolve ==
  /\ serving = "resolve" /\ Resolvable
  /\ Goto(IF rt.type = "http" THEN "spliced" ELSE "upstream")
  /\ UNCHANGED <<conf, client, asked, told, offered, up, in, tlsup, recorded>>

(* A mutant: a failure of any route applies its policy. *)
FailsToPolicy ==
  /\ serving \in {"resolve", "upstream"}
  /\ Goto("fail")
  /\ UNCHANGED <<conf, client, asked, told, offered, up, in, tlsup, recorded>>
(* A failed lookup, pick, connect or handshake of a terminating route ends *)
(* the connection: its fail policy is not applied.                         *)
UpstreamFails == serving \in {"resolve", "upstream"} /\ Closed

(* silent_name_override *)
SilentNameOverride == IF rt.sni = "omit" /\ rt.verify_name THEN "verify" ELSE NoName

(* tls_verification_name and ech_inner_name *)
UpstreamName ==
  IF Sni # NoName THEN Sni
  ELSE IF rt.type = "tls" /\ DialHost # NoName THEN DialHost ELSE SilentNameOverride

(* A mutant: any name the client asked for is recorded. *)
RecordsAny == Key # NoName
(* record_upstream_coverage: only a reflecting route asked about this name. *)
Records == rt.sni = "reflect" /\ Key # NoName

(* dial_tls and dial_ech: the upstream selects from the offer, or nothing. *)
Upstream ==
  /\ serving = "upstream" /\ UpstreamName # NoName
  /\ asked' = UpstreamName
  /\ told' = IF rt.sni = "omit" THEN NoName ELSE UpstreamName
  /\ up' \in offered \cup {NoAlpn}
  /\ tlsup' = TRUE
  /\ recorded' = IF Records THEN Key ELSE NoName
  /\ Goto(IF Mirrors(rt) THEN "answer" ELSE "spliced")
  /\ UNCHANGED <<conf, client, offered, in>>

(* A mutant: an upstream that named nothing is taken to allow both. *)
MirrorBoth ==
  CASE up = "h2" -> <<"h2">>
    [] up = "http/1.1" -> <<"http/1.1">>
    [] OTHER -> <<"h2", "http/1.1">>
(* mirror_choice *)
MirrorChoice ==
  CASE up = "h2" -> <<"h2">>
    [] up = "http/1.1" -> <<"http/1.1">>
    [] up = NoAlpn /\ offered = {} -> << >>
    [] OTHER -> <<"http/1.1">>

Answer ==
  /\ serving = "answer" /\ Agrees(MirrorChoice)
  /\ in' = Agreed(MirrorChoice) /\ client' = "tls"
  /\ Goto("spliced")
  /\ UNCHANGED <<conf, asked, told, offered, up, tlsup, recorded>>

-----------------------------------------------------------------------------
(* raw_passthrough *)
RawSplice ==
  /\ serving = "raw" /\ Resolvable
  /\ Goto("spliced")
  /\ UNCHANGED <<conf, client, asked, told, offered, up, in, tlsup, recorded>>

RawFails ==
  /\ serving = "raw"
  /\ Goto("fail")
  /\ UNCHANGED <<conf, client, asked, told, offered, up, in, tlsup, recorded>>

(* apply_fail: another destination for the stream, which may fail too. *)
FailSplice ==
  /\ serving = "fail" /\ (policy = "passthrough" \/ (policy = "system" /\ Keyed))
  /\ Goto("spliced")
  /\ UNCHANGED <<conf, client, asked, told, offered, up, in, tlsup, recorded>>

FailCloses == serving = "fail" /\ Closed

Next == Accept \/ AcceptFails \/ ReadHello \/ Resolve \/ UpstreamFails \/ Upstream
        \/ Answer \/ RawSplice \/ RawFails \/ FailSplice \/ FailCloses

(* The futures of the handshakes are gone: the splice owns both streams. *)
Forget ==
  /\ serving = "spliced" /\ serving' = "over"
  /\ rt' = NoRoute /\ policy' = "close" /\ offer' = {} /\ client' = "whole"
  /\ asked' = NoName /\ told' = NoName /\ offered' = {}
  /\ up' = NoAlpn /\ in' = NoAlpn /\ tlsup' = FALSE /\ recorded' = NoName

-----------------------------------------------------------------------------
(* Types; and the gateway only ever offers or speaks a protocol of         *)
(* SUPPORTED_ALPN, whatever a client lists (negotiable_alpn).              *)
TypeOK ==
  /\ client \in {"whole", "hello", "tls"} /\ asked \in Name \cup {NoName}
  /\ told \in Name \cup {NoName} /\ recorded \in {"key", NoName}
  /\ offered \subseteq {"h2", "http/1.1"} /\ {up, in} \subseteq {"h2", "http/1.1", NoAlpn}
  /\ serving \in {"idle", "raw", "accept", "hello", "resolve", "upstream", "answer", "fail",
             "spliced", "closed", "over"}

Spoken(p) == IF p = NoAlpn THEN "http/1.1" ELSE p

(* The two sides of a spliced TLS connection speak the same protocol, and  *)
(* each side one it was offered: "The two sides therefore cannot disagree" *)
(* (serve_mirrored, serve_terminated).                                     *)
ProtocolsAgree ==
  serving = "spliced" /\ client = "tls" /\ tlsup =>
    /\ Spoken(in) = Spoken(up)
    /\ in # NoAlpn => in \in offer
    /\ up # NoAlpn => up \in offer

(* The client's stream reaches the destination of a fail policy, or of a   *)
(* raw route, with every byte the client sent: nothing was read off it     *)
(* before ("whose ClientHello bytes have already been consumed",           *)
(* serve_mirrored; raw_passthrough, apply_fail).                           *)
PassedOnWhole == serving \in {"raw", "fail"} => client = "whole" /\ ~tlsup

(* Coverage is only recorded for a name the upstream was asked about and   *)
(* told of: a fixed or a suppressed name's certificate "says nothing about *)
(* the inbound name" (record_upstream_coverage).                           *)
RecordedWasAsked == recorded # NoName => asked = recorded /\ told = recorded

=============================================================================
