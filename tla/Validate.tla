------------------------------ MODULE Validate ------------------------------
(***************************************************************************)
(* Which documents Config::validate accepts.  Each check reads the         *)
(* document through the operators of Settings, as the start does later, so *)
(* that what is accepted is what is built.                                 *)
(*                                                                         *)
(* match_sni patterns and regexes are read by RouterBuild, cycles among    *)
(* the resolvers found by ResolverOrder.                                   *)
(***************************************************************************)
EXTENDS Settings

Declared(d, set) == set \cap DOMAIN d

(* resolve_resolver_ref *)
RefResolves(d, spec) == spec.kind = "ref" => spec.name \in Declared(d, Resolver)

(* template_for *)
TemplatesExist(d) ==
  \A t \in {"listener"} \cup Route :
    \A u \in {Used(d, t)[i] : i \in DOMAIN Used(d, t)} : u \in Declared(d, Template)

-----------------------------------------------------------------------------
(* A mutant: mode = "none" makes everything else acceptable. *)
CoherentUnlessNone(v) ==
  v.mode # "none" =>
    /\ v.name # Unset => v.mode = "full"
    /\ v.trust_webpki \/ v.ca_file # Unset

(* Coherence of a policy in force (EffectiveVerify::validate). *)
Coherent(v) ==
  /\ v.name # Unset => v.mode = "full"
  /\ IF v.mode = "none" THEN v.ca_file = Unset /\ v.trust_webpki
     ELSE v.trust_webpki \/ v.ca_file # Unset

(* reject_name: no upstream is chosen there.  The template a listener uses  *)
(* is not looked at.                                                        *)
NamesOnlyWhereChosen(d) ==
  \A t \in {"global", "listener"} : ~Written(d, <<t, "verify.name">>)

(* validate_verify *)
VerifyAccepted(d, r) ==
  IF Verifies(RouteType(d, r)) THEN Coherent(EffectiveVerify(d, r))
  ELSE \A i \in DOMAIN Own(d, r) : ~HasBlock(d, Own(d, r)[i], VerifyFields)

(* validate_ech *)
NeedsConfig(ech) == ech.mode \in {"static", "doh-with-fallback"}
EchAccepted(d, r) ==
  LET ech == EffectiveEch(d, r) IN
  RouteType(d, r) = "ech" /\ NeedsConfig(ech) => ech.config # Unset

(* validate_http2: any of the route's own tiers, whichever would win. *)
Http2Accepted(d, r) ==
  RouteType(d, r) = "raw" =>
    \A i \in DOMAIN Own(d, r) :
      LET place == <<Own(d, r)[i], "http2.enabled">> IN Written(d, place) => ~Value(d, place)

(* Route::validate *)
RouteAccepted(d, r) ==
  /\ Upstream(d, r).kind # "malformed"
  /\ RouteType(d, r) # Unset
  /\ CertKey(d, r) \in {{}, PinnedFields}
  /\ RouteType(d, r) = "raw" => CertKey(d, r) = {}

-----------------------------------------------------------------------------
(* validate_route_pool.  A selection names the second target, or tags or   *)
(* nothing, which no target needs to have.  Resolution, families and NAT64 *)
(* are the pool's, so a route and its template may not write them;         *)
(* inherited ones are idle.                                                *)
PoolOwned == {"address_family", "nat64_prefix", "addr_resolver"}
PoolRouteAccepted(d, r) ==
  LET u == Upstream(d, r) IN
  IF u.kind # "pool" THEN \A i \in DOMAIN Own(d, r) : ~Written(d, <<Own(d, r)[i], "select">>)
  ELSE /\ u.name \in Declared(d, Pool)
       /\ Select(d, r) = "second" => Value(d, <<u.name, "targets">>) > 1
       /\ \A i \in DOMAIN Own(d, r), f \in PoolOwned : ~Written(d, <<Own(d, r)[i], f>>)

(* ProbeDef::reduce: a field its mode cannot act on is refused. *)
ProbeFields == {"probe.port", "probe.sni", "probe.url", "probe.expect_status"}
ProbeReduces(d, p) ==
  LET writes == DOMAIN d[p] \cap ProbeFields
      blocks == HasBlock(d, p, EchFields) \/ HasBlock(d, p, VerifyFields) IN
  \/ ProbeMode(d, p) = "tcp" /\ writes \subseteq {"probe.port"} /\ ~blocks
  \/ ProbeMode(d, p) = "tls" /\ "probe.sni" \in writes /\ writes \subseteq {"probe.port", "probe.sni"}
  \/ /\ ProbeMode(d, p) = "http" /\ writes = {"probe.url", "probe.expect_status"}
     /\ ProbeUrl(d, p) \in {"http", "https"}
     /\ Value(d, <<p, "probe.expect_status">>) # {}
     /\ \A code \in Value(d, <<p, "probe.expect_status">>) : code \in 100 .. 599
     /\ blocks => ProbeUrl(d, p) = "https"

(* validate_parameters, and the bounds validate_pools puts on the indices. *)
Positive == {"probe.timeout", "probe.interval", "probe.degraded_interval",
             "probe.fail_threshold", "probe.max_concurrent_probes", "nat64.timeout", "targets"}
IndexFields == {"fallback", "nat64.from"}
NumbersAccepted(d, p) ==
  /\ \A f \in Positive \cap DOMAIN d[p] : d[p][f] > 0
  /\ Written(d, <<p, "probe.max_concurrent_probes">>) => d[p]["probe.max_concurrent_probes"] <= 4096
  /\ \A f \in IndexFields \cap DOMAIN d[p] : d[p][f] < d[p]["targets"]
  /\ First(d, <<<<p, "nat64.prefixes">>>>, "parsed") = "parsed"

(* validate_pool_probe *)
ProbeAccepted(d, p) ==
  /\ ProbeReduces(d, p)
  /\ HasBlock(d, p, EchFields) =>
       /\ NeedsConfig(TopEch(d, p)) => TopEch(d, p).config # Unset
       /\ RefResolves(d, TopEch(d, p).ech_resolver)
  /\ Handshakes(d, p) => Coherent(ResolveVerify(d, p))

(* validate_pools: the table of one pool. *)
PoolAccepted(d, p) ==
  /\ NumbersAccepted(d, p)
  /\ ProbeAccepted(d, p)
  /\ RefResolves(d, First(d, <<<<p, "resolver">>>>, NoSpec))

-----------------------------------------------------------------------------
(* resolver_refs: every place a resolver may be named in, pools apart. *)
CommonRefs == {"resolver", "ech_resolver", "addr_resolver", "ech.ech_resolver"}
(* A mutant: the templates are forgotten. *)
RefPlacesInUse(d) ==
  ({"global", "listener"} \cup Route) \X CommonRefs
    \cup Declared(d, Resolver) \X {"bootstrap", "ech.ech_resolver"}

RefPlaces(d) ==
  ({"global", "listener"} \cup Route \cup Declared(d, Template)) \X CommonRefs
    \cup Declared(d, Resolver) \X {"bootstrap", "ech.ech_resolver"}
RefsResolve(d) ==
  \A place \in RefPlaces(d) : Written(d, place) => RefResolves(d, Value(d, place))

(* validate_resolvers: the table of one resolver. *)
Endpoint == {"plain", "https", "tls"}
NotItself(x, spec) == ~(spec.kind = "ref" /\ spec.name = x)
ResolverAccepted(d, x) ==
  /\ Value(d, <<x, "endpoint">>) \in Endpoint
  /\ IF IsTls(d, x) THEN Coherent(ResolveVerify(d, x)) ELSE ~HasBlock(d, x, VerifyFields)
  /\ NotItself(x, Bootstrap(d, x))
  /\ HasBlock(d, x, EchFields) =>
       /\ NeedsConfig(TopEch(d, x)) => TopEch(d, x).config # Unset
       /\ NotItself(x, TopEch(d, x).ech_resolver)

-----------------------------------------------------------------------------
(* Config::validate *)
Accepted(d) ==
  /\ TemplatesExist(d)
  /\ NamesOnlyWhereChosen(d)
  /\ \A r \in Route :
       /\ RouteAccepted(d, r) /\ EchAccepted(d, r) /\ Http2Accepted(d, r)
       /\ VerifyAccepted(d, r) /\ PoolRouteAccepted(d, r)
  /\ RefsResolve(d)
  /\ \A x \in Declared(d, Resolver) : ResolverAccepted(d, x)
  /\ \A p \in Declared(d, Pool) : PoolAccepted(d, p)
=============================================================================
