------------------------------ MODULE Settings ------------------------------
(***************************************************************************)
(* What the gateway reads out of its configuration document               *)
(* (src/config.rs): which of the values written for a field, in five       *)
(* nested tables, is in force for a route, a named resolver or a pool.     *)
(*                                                                         *)
(* A document maps the tables it contains to the fields written in them,   *)
(* each with its value.  The fields of a table's [ech], [verify] and       *)
(* [http2] blocks carry the block's name, and a field with just that name  *)
(* is the block's own header.  References and inline specs, upstreams and  *)
(* SNI policies are taken as parsed.                                       *)
(***************************************************************************)
EXTENDS Naturals, Sequences, FiniteSetsExt

CONSTANTS
  Route,       \* the routes of the listener
  Template,    \* names a [templates.*] table may have
  Pool,        \* names a [pools.*] table may have
  Resolver,    \* names a [resolvers.*] table may have
  ListenPort

Table == {"global", "listener"} \cup Route \cup Template \cup Pool \cup Resolver

IsDocument(d) ==
  /\ {"global", "listener"} \cup Route \subseteq DOMAIN d
  /\ DOMAIN d \subseteq Table

-----------------------------------------------------------------------------
(* Reading a document: a place is a table and a field.                     *)
Written(d, place) == place[1] \in DOMAIN d /\ place[2] \in DOMAIN d[place[1]]
Value(d, place) == d[place[1]][place[2]]
WrittenAmong(d, places) == {i \in DOMAIN places : Written(d, places[i])}

(* The first place where something is written decides; find_map, or_else. *)
First(d, places, default) ==
  LET found == WrittenAmong(d, places) IN
  IF found = {} THEN default ELSE Value(d, places[Min(found)])

(* The template a table uses.  A template has no `use` of its own. *)
Used(d, t) == IF Written(d, <<t, "use">>) THEN <<Value(d, <<t, "use">>)>> ELSE << >>

(* The tiers of a route, deepest first: those that choose its upstream, and *)
(* those that only supply defaults.                                         *)
Own(d, r) == <<r>> \o Used(d, r)
Outer(d) == <<"listener">> \o Used(d, "listener") \o <<"global">>
Tiers(d, r) == Own(d, r) \o Outer(d)

At(tiers, field) == [i \in DOMAIN tiers |-> <<tiers[i], field>>]
(* In every tier the specific field before the generic one. *)
Either(tiers, specific, generic) ==
  [i \in 1 .. 2 * Len(tiers) |-> <<tiers[(i + 1) \div 2], IF i % 2 = 1 THEN specific ELSE generic>>]

-----------------------------------------------------------------------------
(* The values a field has where none is written; `Unset` (None) is no text. *)
Unset == "(unset)"
NoSpec == [kind |-> "none", name |-> Unset]
System == [kind |-> "inline", name |-> "system"]
ReflectUpstream == [kind |-> "reflect", name |-> Unset, port |-> 0]
ReflectSni == [kind |-> "reflect", name |-> Unset]

(* Resolved from the route and its template only. *)
RouteType(d, r) == First(d, At(Own(d, r), "type"), Unset)
Sni(d, r) == First(d, At(Own(d, r), "override_sni"), ReflectSni)
Select(d, r) == First(d, At(Own(d, r), "select"), Unset)
(* resolved_upstream_from: an unwritten port is the listener's. *)
Upstream(d, r) ==
  LET u == First(d, At(Own(d, r), "upstream"), ReflectUpstream) IN
  [u EXCEPT !.port = IF u.port = 0 THEN ListenPort ELSE u.port]
UsesPool(d, r) == Upstream(d, r).kind = "pool"

(* cert_key: the pair comes whole from the first of the two that writes     *)
(* either half.                                                             *)
PinnedFields == {"cert_file", "key_file"}
CertKey(d, r) ==
  LET writes(i) == {f \in PinnedFields : Written(d, <<Own(d, r)[i], f>>)}
      some == {i \in DOMAIN Own(d, r) : writes(i) # {}} IN
  IF some = {} THEN {} ELSE writes(Min(some))

-----------------------------------------------------------------------------
(* effective: the plain settings, along the whole ladder. *)
Family(d, r) == First(d, At(Tiers(d, r), "address_family"), "dual")
Nat64Prefix(d, r) == First(d, At(Tiers(d, r), "nat64_prefix"), Unset)
AddrResolver(d, r) == First(d, Either(Tiers(d, r), "addr_resolver", "resolver"), NoSpec)
ConnectTimeout(d, r) == First(d, At(Tiers(d, r), "connect_timeout"), "10s")
Fail(d, r) == First(d, At(Own(d, r), "fail") \o <<<<"global", "unmatched">>>>, "close")

(* The three settings an [ech] block shares with the plain ones: the blocks *)
(* of all tiers come before any of the plain fields.                        *)
EchPlaces(d, r, field) == At(Tiers(d, r), field)
RequireEch(d, r) ==
  First(d, EchPlaces(d, r, "ech.require_ech") \o At(Tiers(d, r), "require_ech"), TRUE)
EchRefresh(d, r) ==
  First(d, EchPlaces(d, r, "ech.ech_refresh") \o At(Tiers(d, r), "ech_refresh"), "1h")
EchResolver(d, r) ==
  First(d, EchPlaces(d, r, "ech.ech_resolver") \o Either(Tiers(d, r), "ech_resolver", "resolver"),
        NoSpec)

(* What a route is given that decides neither where its connections go nor  *)
(* what is proven about the other end.                                      *)
Knobs(d, r) ==
  [connect_timeout |-> ConnectTimeout(d, r), fail |-> Fail(d, r),
   require_ech |-> RequireEch(d, r), ech_refresh |-> EchRefresh(d, r)]

(* effective_ech *)
EffectiveEch(d, r) ==
  [mode       |-> First(d, EchPlaces(d, r, "ech.mode"), "doh"),
   config     |-> First(d, EchPlaces(d, r, "ech.config"), Unset),
   ech_domain |-> First(d, EchPlaces(d, r, "ech.ech_domain"), Unset)]

(* effective_http2: an inherited opt-in means nothing to a raw route. *)
Http2Enabled(d, r) ==
  RouteType(d, r) # "raw" /\ First(d, At(Tiers(d, r), "http2.enabled"), FALSE)

-----------------------------------------------------------------------------
(* [verify] *)
DefaultVerify ==
  [mode |-> "full", name |-> Unset, pins |-> {}, ca_file |-> Unset, trust_webpki |-> TRUE]

(* merge: every field has its own first writer; `name` is not read from the *)
(* outer tiers.  Pins are compared as a set.                                *)
Merge(d, own, outer) ==
  LET all(field) == At(own \o outer, field) IN
  [mode         |-> First(d, all("verify.mode"), DefaultVerify.mode),
   name         |-> First(d, At(own, "verify.name"), Unset),
   pins         |-> First(d, all("verify.pins"), DefaultVerify.pins),
   ca_file      |-> First(d, all("verify.ca_file"), Unset),
   trust_webpki |-> First(d, all("verify.trust_webpki"), DefaultVerify.trust_webpki)]

Verifies(type) == type \in {"tls", "ech"}

(* A mutant: the policy of every type of route. *)
EffectiveVerifyOfAll(d, r) == Merge(d, Own(d, r), Outer(d))

EffectiveVerify(d, r) ==
  IF Verifies(RouteType(d, r)) THEN Merge(d, Own(d, r), Outer(d)) ELSE DefaultVerify

(* EffectiveVerify::resolve: a resolver or a pool has only [global] above it. *)
ResolveVerify(d, t) == Merge(d, <<t>>, <<"global">>)

-----------------------------------------------------------------------------
(* ResolverDef::effective and EffectiveProbeEch::resolve: the same two      *)
(* tiers.  An [ech] block has to be there; then its fields inherit, except  *)
(* that a resolver to ask is never inherited.                               *)
VerifyFields == {"verify", "verify.mode", "verify.name", "verify.pins", "verify.ca_file",
                 "verify.trust_webpki"}
EchFields == {"ech", "ech.mode", "ech.config", "ech.ech_domain", "ech.require_ech",
              "ech.ech_refresh", "ech.ech_resolver"}
HasBlock(d, t, fields) == t \in DOMAIN d /\ DOMAIN d[t] \cap fields # {}

TopPlaces(t, field) == <<<<t, field>>, <<"global", field>>>>
TopEch(d, t) ==
  [mode         |-> First(d, TopPlaces(t, "ech.mode"), "doh"),
   config       |-> First(d, TopPlaces(t, "ech.config"), Unset),
   ech_domain   |-> First(d, TopPlaces(t, "ech.ech_domain"), Unset),
   ech_resolver |-> First(d, <<<<t, "ech.ech_resolver">>>>, NoSpec),
   require_ech  |-> First(d, Append(TopPlaces(t, "ech.require_ech"), <<"global", "require_ech">>),
                          TRUE)]

Bootstrap(d, x) == First(d, <<<<x, "bootstrap">>>>, NoSpec)
ResolverNat64(d, x) == First(d, TopPlaces(x, "nat64_prefix"), Unset)
ResolverUpstream(d, x) == First(d, <<<<x, "upstream">>>>, ReflectUpstream)
(* A transport that has a handshake: DoH and DoT. *)
IsTls(d, x) == Value(d, <<x, "endpoint">>) \in {"https", "tls"}

(* The candidates' probe: what its mode does with a certificate. *)
ProbeMode(d, p) == First(d, <<<<p, "probe.mode">>>>, Unset)
ProbeUrl(d, p) == First(d, <<<<p, "probe.url">>>>, Unset)
Handshakes(d, p) ==
  \/ ProbeMode(d, p) = "tls"
  \/ ProbeMode(d, p) = "http" /\ ProbeUrl(d, p) = "https"
ProbeVerify(d, p) == IF Handshakes(d, p) THEN ResolveVerify(d, p) ELSE DefaultVerify
=============================================================================
