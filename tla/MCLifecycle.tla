---------------------------- MODULE MCLifecycle -----------------------------
(* Two routes, a template, a pool and a resolver.  Each base is a document  *)
(* of another kind, and the edits are those that could make it disagree     *)
(* with itself.                                                             *)
EXTENDS Lifecycle, TLC

Nothing == [f \in {} |-> Unset]
Fixed(host) == [kind |-> "fixed", name |-> host, port |-> 0]
ThePool(name) == [kind |-> "pool", name |-> name, port |-> 0]
Ref(name) == [kind |-> "ref", name |-> name]

MCCert ==
  {[key |-> "k1", root |-> "public", names |-> {"h1"}],
   [key |-> "k2", root |-> "public", names |-> {"h2"}],
   [key |-> "k1", root |-> "corp", names |-> {"h1", "h2"}],
   [key |-> "k2", root |-> "none", names |-> {"h1"}]}
MCAnchors == [f \in {"corp.pem", "cert.pem"} |-> IF f = "corp.pem" THEN {"corp"} ELSE {}]

Top == "global" :> Nothing @@ "listener" :> Nothing
Doh == "endpoint" :> "https"
Probing == "targets" :> 2 @@ "probe.mode" :> "tls" @@ "probe.sni" :> "h1"

(* TLS routes to one upstream; a template that relaxes what they verify. *)
Verifying ==
  Top @@ "r1" :> ("type" :> "tls" @@ "upstream" :> Fixed("a"))
      @@ "r2" :> ("type" :> "tls" @@ "upstream" :> Fixed("a") @@ "use" :> "t1")
      @@ "t1" :> ("verify.mode" :> "chain")
(* ECH routes that reflect, with defaults for ECH and a named resolver. *)
Encrypting ==
  "global" :> ("ech.mode" :> "doh-with-fallback" @@ "ech.config" :> "c1" @@ "nat64_prefix" :> "64")
    @@ "listener" :> ("use" :> "t1")
    @@ "r1" :> ("type" :> "ech" @@ "require_ech" :> TRUE)
    @@ "r2" :> ("type" :> "ech" @@ "override_sni" :> [kind |-> "omit", name |-> Unset])
    @@ "t1" :> ("ech_resolver" :> Ref("d1") @@ "verify.pins" :> {"k1"})
    @@ "d1" :> Doh
(* A pool behind one route, and plain HTTP behind the other. *)
Pooling ==
  Top @@ "r1" :> ("type" :> "tls" @@ "upstream" :> ThePool("p1"))
      @@ "r2" :> ("type" :> "http" @@ "upstream" :> Fixed("a") @@ "use" :> "t1")
      @@ "t1" :> ("select" :> "tags") @@ "p1" :> Probing @@ "d1" :> Doh
(* Routes that verify nothing, under a table that does. *)
Plain ==
  "global" :> ("verify.mode" :> "none" @@ "address_family" :> "ipv6") @@ "listener" :> Nothing
    @@ "r1" :> ("type" :> "raw") @@ "r2" :> ("type" :> "http" @@ "cert_file" :> "cert.pem")
    @@ "p1" :> Probing @@ "d1" :> Doh

MCBases == {Verifying, Encrypting, Pooling, Plain}

MCEdits ==
  <<"r1", "verify.mode">> :> {"none"}
    @@ <<"global", "verify.mode">> :> {"none"}
    @@ <<"t1", "verify.mode">> :> {"full"}
    @@ <<"t1", "verify.name">> :> {"h2"}
    @@ <<"r1", "verify.pins">> :> {{"k1"}}
    @@ <<"listener", "verify.pins">> :> {{"k2"}}
    @@ <<"r1", "verify.ca_file">> :> {"corp.pem"}
    @@ <<"global", "verify.trust_webpki">> :> {FALSE}
    @@ <<"r1", "override_sni">> :> {[kind |-> "fixed", name |-> "h2"]}
    @@ <<"r1", "upstream">> :> {Fixed("b"), ThePool("p2")}
    @@ <<"global", "address_family">> :> {"ipv4"}
    @@ <<"listener", "nat64_prefix">> :> {"malformed"}
    @@ <<"r1", "nat64_prefix">> :> {"64"}
    @@ <<"t1", "addr_resolver">> :> {Ref("d1")}
    @@ <<"listener", "resolver">> :> {Ref("d2")}
    @@ <<"global", "ech.require_ech">> :> {FALSE}
    @@ <<"r1", "ech.mode">> :> {"static"}
    @@ <<"r1", "type">> :> {"raw"}
    @@ <<"r2", "type">> :> {"ech"}
    @@ <<"r1", "use">> :> {"t1"}
    @@ <<"r1", "select">> :> {"second"}
    @@ <<"r2", "key_file">> :> {"cert.pem"}
    @@ <<"listener", "http2.enabled">> :> {TRUE}
    @@ <<"r1", "fail">> :> {"system-outbound"}
    @@ <<"p1", "targets">> :> {1}
    @@ <<"p1", "probe.mode">> :> {"tcp"}
    @@ <<"p1", "verify.mode">> :> {"chain"}
    @@ <<"d1", "bootstrap">> :> {Ref("d1")}
    @@ <<"d1", "upstream">> :> {ThePool("p1")}
=============================================================================
