----------------------------- MODULE Deployment -----------------------------
(***************************************************************************)
(* A gateway over the life of its configuration: the document is edited,   *)
(* the gateway started from it (Config::validate, then build_pools and     *)
(* build_listener of src/main.rs), stopped, edited again -- while the       *)
(* certificates issued on the way stay in the store, each under the scope  *)
(* of the route it was issued for (src/certscope.rs), and say what an      *)
(* upstream had proven to the verifier of that time (src/verify.rs).       *)
(*                                                                         *)
(* One listener, whose match_sni patterns stay as they are: the routing    *)
(* fingerprint, the other half of a scope, is the subject of CertMirror.   *)
(***************************************************************************)
EXTENDS Validate

CONSTANTS
  Bases,       \* the documents a deployment may begin with
  Edits,       \* the places an edit may write, each with the values for it
  MaxEdits,
  MaxStored,   \* bound on the stored certificates
  Host,        \* the names clients ask for
  Cert,        \* what upstreams may present: [key, root, names]
  WebPki,      \* the roots of the web PKI
  File,        \* the files a document may name
  Anchors,     \* file -> the roots it holds, as a ca_file
  NoDocument   \* the document after the part modelled here

Phase == {"down", "refused", "failed", "running", "over"}
Place == DOMAIN Edits

(* A value written is never the one that stands for none. *)
Proper(field, value) ==
  /\ field = "verify.ca_file" => value \in File
  /\ field = "verify.name" => value # Unset
IsProper(d) == \A t \in DOMAIN d : \A f \in DOMAIN d[t] : Proper(f, d[t][f])

ASSUME DeploymentAssumption ==
  /\ \A d \in Bases : IsDocument(d) /\ IsProper(d)
  /\ \A place \in Place : place[1] \in Table /\ \A value \in Edits[place] : Proper(place[2], value)
  /\ Unset \notin File /\ WebPki # {}
  /\ MaxEdits \in Nat /\ MaxStored \in Nat

VARIABLES
  doc,       \* the configuration file
  phase,
  edits,     \* edits so far
  missing,   \* the files that could not be read at the last start
  store      \* the certificates stored

settings == <<doc, phase, edits, missing, store>>

-----------------------------------------------------------------------------
(* VerifierFactory::build and verify_server_cert.                          *)
(* Without a ca_file the web PKI is trusted, with one its roots too.       *)
RootsFor(v) ==
  (IF v.trust_webpki THEN WebPki ELSE {}) \cup (IF v.ca_file = Unset THEN {} ELSE Anchors[v.ca_file])

(* NameCheck: a fixed name, the requested one, or none. *)
NameHolds(v, requested, cert) ==
  v.mode = "full" => (IF v.name = Unset THEN requested ELSE v.name) \in cert.names

Verifier(v, requested, cert) ==
  /\ v.pins # {} => cert.key \in v.pins
  /\ v.mode # "none" => cert.root \in RootsFor(v)
  /\ NameHolds(v, requested, cert)

(* The name a handshake is opened with: the route's SNI, or the one it      *)
(* withholds (tls_verification_name, ech_inner_name).                       *)
Requested(d, r, host) == IF Sni(d, r).kind = "fixed" THEN Sni(d, r).name ELSE host

Accepts(d, r, host, cert) == Verifier(EffectiveVerify(d, r), Requested(d, r, host), cert)

-----------------------------------------------------------------------------
(* What build_route makes of a route: where its connections go ...          *)
Nat64(d, r) == IF Family(d, r) = "ipv6" THEN Unset ELSE Nat64Prefix(d, r)

(* Default ECH resolver: that of the addresses, else the system's. *)
EchSpec(d, r) ==
  IF EchResolver(d, r) # NoSpec THEN EchResolver(d, r)
  ELSE IF AddrResolver(d, r) # NoSpec THEN AddrResolver(d, r) ELSE System

(* A connection for a host: the target dialled and by which means, the name *)
(* sent, and the source of the ECH config.                                  *)
Destination(d, r, host) ==
  LET u == Upstream(d, r)
      type == RouteType(d, r) IN
  [type |-> type,
   target |-> IF u.kind = "pool" THEN [pool |-> u.name]
              ELSE [host     |-> IF u.kind = "fixed" THEN u.name ELSE host,
                    family   |-> Family(d, r),
                    nat64    |-> Nat64(d, r),
                    resolver |-> AddrResolver(d, r)],
   port |-> u.port,
   sni  |-> IF ~Verifies(type) \/ Sni(d, r).kind = "omit" THEN Unset ELSE Requested(d, r, host),
   ech  |-> IF type # "ech" THEN [mode |-> Unset]
            ELSE [mode     |-> EffectiveEch(d, r).mode,
                  domain   |-> IF EffectiveEch(d, r).ech_domain # Unset
                               THEN EffectiveEch(d, r).ech_domain ELSE Requested(d, r, host),
                  resolver |-> EchSpec(d, r)]]

(* ... and its forwarding identity. *)
UpstreamIdentity(d, r) ==
  LET u == Upstream(d, r) IN
  IF u.kind = "pool" THEN [pool |-> u.name]
  ELSE [host          |-> IF u.kind = "fixed" THEN u.name ELSE Unset,
        family        |-> Family(d, r),
        nat64         |-> Nat64Prefix(d, r),
        addr_resolver |-> AddrResolver(d, r)]

EchIdentity(d, r) ==
  LET ech == EffectiveEch(d, r) IN
  IF RouteType(d, r) # "ech" THEN [mode |-> Unset]
  ELSE [mode |-> ech.mode, domain |-> ech.ech_domain, resolver |-> EchSpec(d, r),
        inline_config |-> ech.config # Unset]

Forwarding(d, r) ==
  [route_type |-> RouteType(d, r), upstream |-> UpstreamIdentity(d, r), port |-> Upstream(d, r).port,
   sni |-> Sni(d, r), ech |-> EchIdentity(d, r), verify |-> EffectiveVerify(d, r)]

(* canonical: what a reflected host, and any other absent text, is rendered *)
(* by; a text that is spelled so is rendered alike.                         *)
Reflect == "reflect"
Dash == "-"
Rendered(text) == IF text = Unset THEN Dash ELSE text

(* A mutant: the pins are left out. *)
CanonicalVerifyUnpinned(v) ==
  [mode |-> v.mode, name |-> Rendered(v.name), pins |-> {}, ca |-> Rendered(v.ca_file),
   webpki |-> v.trust_webpki]

CanonicalVerify(v) ==
  [mode |-> v.mode, name |-> Rendered(v.name), pins |-> v.pins, ca |-> Rendered(v.ca_file),
   webpki |-> v.trust_webpki]
(* A mutant: the prefix is left out. *)
CanonicalUpstreamNative(u) ==
  IF "pool" \in DOMAIN u THEN u
  ELSE [u EXCEPT !.host = IF u.host = Unset THEN Reflect ELSE u.host, !.nat64 = Dash]

CanonicalUpstream(u) ==
  IF "pool" \in DOMAIN u THEN u
  ELSE [u EXCEPT !.host = IF u.host = Unset THEN Reflect ELSE u.host, !.nat64 = Rendered(u.nat64)]
CanonicalEch(e) == IF "domain" \in DOMAIN e THEN [e EXCEPT !.domain = Rendered(e.domain)] ELSE e
Canonical(f) ==
  [type |-> f.route_type, upstream |-> CanonicalUpstream(f.upstream), port |-> f.port,
   sni |-> f.sni, ech |-> CanonicalEch(f.ech), verify |-> CanonicalVerify(f.verify)]

CertScope(d, r) == Canonical(Forwarding(d, r))

-----------------------------------------------------------------------------
(* What a start reads and looks up, once the document is accepted.          *)
Dials(d, r) == Upstream(d, r).kind # "pool"
EchPool(d, p) == HasBlock(d, p, EchFields)

(* The specs get_resolver and build_named_resolvers are given. *)
Specs(d) ==
  {AddrResolver(d, r) : r \in {x \in Route : Dials(d, x)}}
    \cup {EchSpec(d, r) : r \in {x \in Route : RouteType(d, x) = "ech"}}
    \cup {First(d, <<<<p, "resolver">>>>, System) : p \in Declared(d, Pool)}
    \cup {TopEch(d, p).ech_resolver : p \in {x \in Declared(d, Pool) : EchPool(d, x)}}
    \cup {Bootstrap(d, x) : x \in Declared(d, Resolver)}
    \cup {TopEch(d, x).ech_resolver : x \in {y \in Declared(d, Resolver) : HasBlock(d, y, EchFields)}}

(* The policies the verifiers are built for: one per route that verifies,   *)
(* pool and resolver.                                                       *)
Policies(d) ==
  {EffectiveVerify(d, r) : r \in {x \in Route : Verifies(RouteType(d, x))}}
    \cup {ProbeVerify(d, p) : p \in Declared(d, Pool)}
    \cup {ResolveVerify(d, x) : x \in {y \in Declared(d, Resolver) : IsTls(d, y)}}

Prefixes(d) ==
  {Nat64(d, r) : r \in Route} \cup {ResolverNat64(d, x) : x \in Declared(d, Resolver)}

AnchorFiles(d) ==
  {v.ca_file : v \in {w \in Policies(d) : w.mode # "none" /\ w.ca_file # Unset}}
FilesRead(d) ==
  AnchorFiles(d)
    \cup UNION {{First(d, At(Own(d, r), f), Unset) : f \in CertKey(d, r)} : r \in Route}

(* Texts that are only parsed now, a ca_file that holds no certificate, and *)
(* a resolver that would dial a pool.                                       *)
Unparsed(d) ==
  \/ \E spec \in Specs(d) : spec.kind = "malformed"
  \/ "malformed" \in Prefixes(d)
  \/ \E f \in AnchorFiles(d) : Anchors[f] = {}
  \/ \E x \in Declared(d, Resolver) : ResolverUpstream(d, x).kind \in {"malformed", "pool"}

(* What acceptance has to have ruled out: everything that is looked up by   *)
(* name, and a chain with nothing to end in.                                *)
Unfounded(d) ==
  \/ \E spec \in Specs(d) : spec.kind = "ref" /\ spec.name \notin Declared(d, Resolver)
  \/ \E r \in Route : \/ Upstream(d, r).kind = "malformed"
                      \/ Upstream(d, r).kind = "pool" /\ Upstream(d, r).name \notin Declared(d, Pool)
                      \/ RouteType(d, r) = Unset
  \/ \E v \in Policies(d) : v.mode # "none" /\ RootsFor(v) = {}
  \/ \E p \in Declared(d, Pool) : ~ProbeReduces(d, p)

Builds(d, absent) == FilesRead(d) \cap absent = {} /\ ~Unparsed(d) /\ ~Unfounded(d)

-----------------------------------------------------------------------------
SettingsInit ==
  doc \in Bases /\ phase = "down" /\ edits = 0 /\ missing = {} /\ store = {}

(* An operator writes a setting, or takes one out. *)
Put(d, place, value) ==
  [d EXCEPT ![place[1]] =
     [f \in DOMAIN d[place[1]] \cup {place[2]} |-> IF f = place[2] THEN value ELSE d[place[1]][f]]]
Drop(d, place) ==
  [d EXCEPT ![place[1]] = [f \in DOMAIN d[place[1]] \ {place[2]} |-> d[place[1]][f]]]

Edited(new) ==
  /\ phase \in {"down", "refused", "failed"} /\ edits < MaxEdits
  /\ doc' = new /\ edits' = edits + 1 /\ phase' = "down" /\ missing' = {}
  /\ UNCHANGED store

Write ==
  \E place \in Place : \E value \in Edits[place] :
    phase # "over" /\ place[1] \in DOMAIN doc /\ Edited(Put(doc, place, value))
(* Fields a table of its kind does not parse without. *)
Mandatory == {"targets", "probe.mode", "endpoint"}
Erase ==
  \E place \in Place :
    phase # "over" /\ place[2] \notin Mandatory /\ Written(doc, place) /\ Edited(Drop(doc, place))

(* Config::load, then the build; the files may have gone or come. *)
Start ==
  /\ phase = "down"
  /\ \E absent \in SUBSET File :
       /\ missing' = absent
       /\ phase' = IF ~Accepted(doc) THEN "refused"
                   ELSE IF Builds(doc, absent) THEN "running" ELSE "failed"
  /\ UNCHANGED <<doc, edits, store>>

(* A client asks for a host; its route terminates and, if it verifies, has  *)
(* accepted what the upstream presented.  The certificate issued is stored. *)
Stored(d, r, host, cert) ==
  [scope |-> CertScope(d, r), host |-> host, went |-> Destination(d, r, host), proof |-> cert]

Serve(r, host, cert) ==
  /\ phase = "running" /\ RouteType(doc, r) # "raw" /\ CertKey(doc, r) = {}
  /\ Verifies(RouteType(doc, r)) => Accepts(doc, r, host, cert)
  /\ Cardinality(store) < MaxStored
  /\ store' = store \cup {Stored(doc, r, host, cert)}
  /\ UNCHANGED <<doc, phase, edits, missing>>

(* A shutdown or a crash: the store stays. *)
Stop ==
  /\ phase = "running"
  /\ phase' = "down" /\ missing' = {}
  /\ UNCHANGED <<doc, edits, store>>

Run == \E r \in Route, h \in Host, c \in Cert : Serve(r, h, c)
SettingsNext == Write \/ Erase \/ Start \/ Run \/ Stop

(* What follows takes only a route's settings from here. *)
Leave == phase' = "over" /\ doc' = NoDocument /\ edits' = 0 /\ missing' = {} /\ store' = {}

-----------------------------------------------------------------------------
SettingsTypeOK ==
  /\ phase \in Phase
  /\ phase # "over" => IsDocument(doc)
  /\ edits \in 0 .. MaxEdits
  /\ missing \subseteq File
  /\ \A s \in store : s.host \in Host /\ s.proof \in Cert

Running == phase = "running"
Using(r) == Running /\ Verifies(RouteType(doc, r))

(* The first value a route or its template writes for a field, if there is  *)
(* one, satisfies P.                                                        *)
OwnValue(r, field, P(_)) ==
  LET places == At(Own(doc, r), field) IN
  WrittenAmong(doc, places) # {} => P(First(doc, places, Unset))

(* A [verify] setting that a route or its template writes is never idle     *)
(* (validate_verify, EffectiveVerify::validate: "an operator who writes it  *)
(* believes it does something"): while the gateway runs, every certificate  *)
(* the route accepts satisfies it, whatever the outer tables say; and on a  *)
(* route that verifies nothing there is none.                               *)
WrittenIsEnforced ==
  Running => \A r \in Route :
    LET v == EffectiveVerify(doc, r) IN
    IF ~Verifies(RouteType(doc, r))
    THEN \A f \in VerifyFields : WrittenAmong(doc, At(Own(doc, r), f)) = {}
    ELSE \A h \in Host : LET name == Requested(doc, r, h) IN
      \A c \in {x \in Cert : Verifier(v, name, x)} :
        /\ OwnValue(r, "verify.mode", LAMBDA m :
             /\ m = "full" => NameHolds(v, name, c)
             /\ m # "none" => c.root \in WebPki \cup UNION {Anchors[f] : f \in File})
        /\ OwnValue(r, "verify.name", LAMBDA n : n \in c.names)
        /\ OwnValue(r, "verify.pins", LAMBDA ps : ps # {} => c.key \in ps)
        /\ OwnValue(r, "verify.ca_file", LAMBDA f : c.root \in WebPki \cup Anchors[f])
        /\ OwnValue(r, "verify.trust_webpki", LAMBDA t : ~t => c.root \in Anchors[v.ca_file])

(* "weakened evidence can never reach a certificate a fully verified route  *)
(* serves" (src/verify.rs): whatever the gateway finds in the store under   *)
(* the scope of a route rests on a proof that the route's verifier of today *)
(* accepts for that host, however often the document was edited and the     *)
(* gateway restarted since.  (Provided no ca_file is named "-": canonical   *)
(* renders it like none.)                                                   *)
EvidenceHeldToPolicy ==
  \A r \in Route : Using(r) =>
    \A s \in store : s.scope = CertScope(doc, r) => Accepts(doc, r, s.host, s.proof)

(* And it was issued for connections that went where the route's go now:    *)
(* same target by the same means, same name sent, same source of ECH        *)
(* configs (CertScope: equal scopes are interchangeable).  (Provided no     *)
(* host is named "reflect" and no ech_domain "-", which are rendered like   *)
(* none.)                                                                   *)
ScopeIsDestination ==
  Running => \A r \in Route :
    \A s \in store : s.scope = CertScope(doc, r) => s.went = Destination(doc, r, s.host)

(* An accepted document starts, unless a file it names cannot be read or a  *)
(* text that nobody parsed before is malformed: every template, pool, probe,*)
(* resolver and trust anchor the build looks up is there.                   *)
AcceptedStarts ==
  phase = "failed" => FilesRead(doc) \cap missing # {} \/ Unparsed(doc)

-----------------------------------------------------------------------------
(* What can change nothing a certificate of the route depends on:           *)
(* timeouts, the fail policy, HTTP/2, whether ECH is required; the outer    *)
(* [verify] tables of a route that verifies nothing; what a pool decides    *)
(* itself; ECH settings where there is no ECH.                              *)
KnobFields == {"connect_timeout", "fail", "require_ech", "ech.require_ech", "ech_refresh",
               "ech.ech_refresh", "http2.enabled", "http2.probe"}
Immaterial(d, r) ==
  Table \X KnobFields
    \cup (IF Verifies(RouteType(d, r)) THEN {} ELSE {"global", "listener"} \X VerifyFields)
    \cup (IF UsesPool(d, r) /\ RouteType(d, r) # "ech" THEN {"global", "listener"} \X PoolOwned ELSE {})
    \cup (IF RouteType(d, r) = "ech" THEN {} ELSE Table \X EchFields)

Changed(d, e) ==
  {p \in Place : IF Written(d, p) /\ Written(e, p) THEN Value(d, p) # Value(e, p)
                 ELSE Written(d, p) # Written(e, p)}

(* Such an edit leaves every certificate of the route in place ("they would *)
(* fragment scopes without buying any safety", Forwarding).                 *)
ImmaterialEditsKeepScopes ==
  [][\A r \in Route :
       phase' = "down" /\ Accepted(doc) /\ Accepted(doc') /\ Changed(doc, doc') \subseteq Immaterial(doc, r)
         => CertScope(doc', r) = CertScope(doc, r)]_settings

(* README: the settings of this list resolve from the most specific scope   *)
(* outward, the route's own value first; Config::effective: "with each      *)
(* scope's ECH block sitting deepest for the fields it shares".             *)
NearestScopeWins ==
  Running => \A r \in Route : RouteType(doc, r) = "ech" =>
    Knobs(doc, r) =
      [connect_timeout |-> ConnectTimeout(doc, r), fail |-> Fail(doc, r),
       require_ech |-> First(doc, Either(Tiers(doc, r), "ech.require_ech", "require_ech"), TRUE),
       ech_refresh |-> First(doc, Either(Tiers(doc, r), "ech.ech_refresh", "ech_refresh"), "1h")]
=============================================================================
