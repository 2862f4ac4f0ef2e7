-------------------------- MODULE LifecycleProofs ---------------------------
(***************************************************************************)
(* What a certificate scope is worth, what an accepted document promises   *)
(* the process, and that a race has its one winner: for every document,    *)
(* every sequence of edits and restarts, and every certificate.            *)
(*                                                                         *)
(* Scopes: what a route's verifier demands, and where its connections go,  *)
(* are functions of its scope alone.  So a stored certificate keeps the    *)
(* promise of the scope it is stored under, whatever becomes of the        *)
(* document, and a route that finds it there makes that very promise; and  *)
(* an edit of what a scope is not read from leaves the scope alone.        *)
(*                                                                         *)
(* Documents: only a judged document is run with, and what the judgement   *)
(* demands is what the start-up and the handshakes rely on.                *)
(*                                                                         *)
(* Races: the second contender starts once the head start is over or the   *)
(* first has failed, and a dial fails only when every contender has.       *)
(***************************************************************************)
EXTENDS Lifecycle, WellFoundedInduction, TLAPS

(* `canonical` renders an absent text by a marker, and a text spelled like  *)
(* that marker alike: what a scope says can only be read back where no      *)
(* route's settings are spelled so.                                         *)
Unmistakable(d, r) ==
  /\ Upstream(d, r).kind = "fixed" => Upstream(d, r).name \notin {Unset, Reflect}
  /\ Nat64Prefix(d, r) # Dash /\ EffectiveEch(d, r).ech_domain # Dash
  /\ EffectiveVerify(d, r).name # Dash /\ EffectiveVerify(d, r).ca_file # Dash
NoMarkers == \A r \in Route : Unmistakable(doc, r)

ReadBack(text) == IF text = Dash THEN Unset ELSE text

LEMMA RenderedReadsBack == ASSUME NEW text, text # Dash PROVE ReadBack(Rendered(text)) = text
BY DEF ReadBack, Rendered

(* The name a handshake asks for, by a scope. *)
ScopeRequests(sc, host) == IF sc.sni.kind = "fixed" THEN sc.sni.name ELSE host

(* What a scope demands of the certificate an upstream presents. *)
ScopePolicy(sc) ==
  [mode |-> sc.verify.mode, name |-> ReadBack(sc.verify.name), pins |-> sc.verify.pins,
   ca_file |-> ReadBack(sc.verify.ca), trust_webpki |-> sc.verify.webpki]
ScopeAccepts(sc, host, cert) ==
  Verifies(sc.type) => Verifier(ScopePolicy(sc), ScopeRequests(sc, host), cert)

StoreAccepted == \A s \in store : ScopeAccepts(s.scope, s.host, s.proof)

LEMMA PolicyOfScope ==
  ASSUME NEW d, NEW r, Unmistakable(d, r)
  PROVE  ScopePolicy(CertScope(d, r)) = EffectiveVerify(d, r)
<1>1. EffectiveVerify(d, r) \in {Merge(d, Own(d, r), Outer(d)), DefaultVerify}
  BY DEF EffectiveVerify
<1>2. CertScope(d, r).verify = CanonicalVerify(EffectiveVerify(d, r))
  BY DEF CertScope, Canonical, Forwarding
<1>3. PICK m, n, p, c, t : EffectiveVerify(d, r) =
        [mode |-> m, name |-> n, pins |-> p, ca_file |-> c, trust_webpki |-> t]
  BY <1>1 DEF Merge, DefaultVerify
<1>4. ReadBack(Rendered(n)) = n /\ ReadBack(Rendered(c)) = c
  BY <1>3, RenderedReadsBack DEF Unmistakable
<1> QED BY <1>2, <1>3, <1>4 DEF ScopePolicy, CanonicalVerify

LEMMA DemandOfScope ==
  ASSUME NEW d, NEW r, NEW host, NEW cert, Unmistakable(d, r)
  PROVE  ScopeAccepts(CertScope(d, r), host, cert)
           <=> (Verifies(RouteType(d, r)) => Accepts(d, r, host, cert))
<1>1. CertScope(d, r).type = RouteType(d, r) /\ CertScope(d, r).sni = Sni(d, r)
  BY DEF CertScope, Canonical, Forwarding
<1> QED BY <1>1, PolicyOfScope DEF ScopeAccepts, ScopeRequests, Accepts, Requested

-----------------------------------------------------------------------------
(* Every step leaves the store alone, empties it, or adds what was served. *)
LEMMA StoreSteps ==
  ASSUME [Next]_vars
  PROVE  \/ store' \subseteq store
         \/ \E r \in Route, h \in Host, c \in Cert :
              /\ Verifies(RouteType(doc, r)) => Accepts(doc, r, h, c)
              /\ store' = store \cup {Stored(doc, r, h, c)}
<1>1. CASE Run /\ UNCHANGED dialling
  BY <1>1 DEF Run, Serve
<1>2. CASE Write \/ Erase \/ Start \/ Stop
  BY <1>2 DEF Write, Erase, Edited, Start, Stop
<1>3. CASE Connect
  BY <1>3 DEF Connect, Leave
<1>4. CASE Dial \/ Ended \/ UNCHANGED vars
  BY <1>4 DEF Dial, Ended, vars, settings
<1> QED BY <1>1, <1>2, <1>3, <1>4 DEF Next, Settle, SettingsNext

(* "weakened evidence can never reach a certificate a fully verified route *)
(* serves" (src/verify.rs): the verifier of a running route accepts, for   *)
(* its host, the proof behind every certificate stored under its scope,    *)
(* unless a document names a ca_file "-".                                  *)
THEOREM EvidenceIsHeld == Spec /\ []NoMarkers => []EvidenceHeldToPolicy
<1>1. Init => StoreAccepted
  BY DEF Init, SettingsInit, StoreAccepted
<1>2. NoMarkers /\ StoreAccepted /\ [Next]_vars => StoreAccepted'
  <2> SUFFICES ASSUME NoMarkers, StoreAccepted, [Next]_vars, NEW s \in store'
               PROVE  ScopeAccepts(s.scope, s.host, s.proof)
    BY DEF StoreAccepted
  <2>1. CASE s \in store
    BY <2>1 DEF StoreAccepted
  <2>2. CASE s \notin store
    <3>1. PICK r \in Route, h \in Host, c \in Cert :
            /\ Verifies(RouteType(doc, r)) => Accepts(doc, r, h, c)
            /\ s = Stored(doc, r, h, c)
      BY <2>2, StoreSteps
    <3>2. s.scope = CertScope(doc, r) /\ s.host = h /\ s.proof = c
      BY <3>1 DEF Stored
    <3> QED BY <3>1, <3>2, DemandOfScope DEF NoMarkers
  <2> QED BY <2>1, <2>2
<1>3. NoMarkers /\ StoreAccepted => EvidenceHeldToPolicy
  <2> SUFFICES ASSUME NoMarkers, StoreAccepted, NEW r \in Route, Using(r),
                      NEW s \in store, s.scope = CertScope(doc, r)
               PROVE  Accepts(doc, r, s.host, s.proof)
    BY DEF EvidenceHeldToPolicy
  <2> QED BY DemandOfScope DEF NoMarkers, StoreAccepted, Using
<1> QED BY <1>1, <1>2, <1>3, PTL DEF Spec

-----------------------------------------------------------------------------
(* Where the connections of a scope go. *)
ScopeTarget(up, host) ==
  IF "pool" \in DOMAIN up THEN [pool |-> up.pool]
  ELSE [host     |-> IF up.host = Reflect THEN host ELSE up.host,
        family   |-> up.family,
        nat64    |-> IF up.family = "ipv6" THEN Unset ELSE ReadBack(up.nat64),
        resolver |-> up.addr_resolver]
ScopeEch(sc, host) ==
  IF sc.type # "ech" THEN [mode |-> Unset]
  ELSE [mode     |-> sc.ech.mode,
        domain   |-> IF sc.ech.domain # Dash THEN sc.ech.domain ELSE ScopeRequests(sc, host),
        resolver |-> sc.ech.resolver]
ScopeDestination(sc, host) ==
  [type |-> sc.type, target |-> ScopeTarget(sc.upstream, host), port |-> sc.port,
   sni  |-> IF ~Verifies(sc.type) \/ sc.sni.kind = "omit" THEN Unset ELSE ScopeRequests(sc, host),
   ech  |-> ScopeEch(sc, host)]

LEMMA DirectRendered ==
  ASSUME NEW h, NEW fam, NEW pre, NEW res
  PROVE  CanonicalUpstream([host |-> h, family |-> fam, nat64 |-> pre, addr_resolver |-> res])
           = [host |-> IF h = Unset THEN Reflect ELSE h, family |-> fam, nat64 |-> Rendered(pre),
              addr_resolver |-> res]
BY DEF CanonicalUpstream

LEMMA TargetOfScope ==
  ASSUME NEW d, NEW r, NEW host, Unmistakable(d, r)
  PROVE  ScopeTarget(CertScope(d, r).upstream, host) = Destination(d, r, host).target
<1> DEFINE u == Upstream(d, r)
<1>1. CertScope(d, r).upstream = CanonicalUpstream(UpstreamIdentity(d, r))
  BY DEF CertScope, Canonical, Forwarding
<1>2. CASE u.kind = "pool"
  <2>1. UpstreamIdentity(d, r) = [pool |-> u.name]
    BY <1>2 DEF UpstreamIdentity
  <2>2. "pool" \in DOMAIN [pool |-> u.name] /\ [pool |-> u.name].pool = u.name
    OBVIOUS
  <2>3. ScopeTarget(CertScope(d, r).upstream, host) = [pool |-> u.name]
    BY <1>1, <2>1, <2>2 DEF CanonicalUpstream, ScopeTarget
  <2> QED BY <1>2, <2>3 DEF Destination
<1>3. CASE u.kind # "pool"
  <2> DEFINE h == IF u.kind = "fixed" THEN u.name ELSE Reflect
             fam == Family(d, r)
             pre == Nat64Prefix(d, r)
             res == AddrResolver(d, r)
             canon == [host |-> h, family |-> fam, nat64 |-> Rendered(pre), addr_resolver |-> res]
  <2>1. UpstreamIdentity(d, r) =
          [host |-> IF u.kind = "fixed" THEN u.name ELSE Unset, family |-> fam, nat64 |-> pre,
           addr_resolver |-> res]
    BY <1>3 DEF UpstreamIdentity
  <2>2. CanonicalUpstream(UpstreamIdentity(d, r)) = canon
    <3> DEFINE raw == IF u.kind = "fixed" THEN u.name ELSE Unset
    <3>1. h = IF raw = Unset THEN Reflect ELSE raw
      BY DEF Unmistakable
    <3> QED BY <2>1, <3>1, DirectRendered
  <2>3. "pool" \notin DOMAIN canon
    OBVIOUS
  <2>4. ScopeTarget(canon, host) =
          [host |-> IF u.kind = "fixed" THEN u.name ELSE host, family |-> fam,
           nat64 |-> IF fam = "ipv6" THEN Unset ELSE pre, resolver |-> res]
    BY <2>3, RenderedReadsBack DEF ScopeTarget, Unmistakable
  <2> QED BY <1>1, <1>3, <2>2, <2>4 DEF Destination, Nat64
<1> QED BY <1>2, <1>3

LEMMA DestinationOfScope ==
  ASSUME NEW d, NEW r, NEW host, Unmistakable(d, r)
  PROVE  ScopeDestination(CertScope(d, r), host) = Destination(d, r, host)
<1> DEFINE sc == CertScope(d, r)
<1>1. /\ sc.type = RouteType(d, r) /\ sc.sni = Sni(d, r) /\ sc.port = Upstream(d, r).port
      /\ sc.ech = CanonicalEch(EchIdentity(d, r))
  BY DEF CertScope, Canonical, Forwarding
<1>2. ScopeRequests(sc, host) = Requested(d, r, host)
  BY <1>1 DEF ScopeRequests, Requested
<1>3. ScopeEch(sc, host) = Destination(d, r, host).ech
  <2>1. CASE RouteType(d, r) # "ech"
    BY <1>1, <2>1 DEF ScopeEch, Destination
  <2>2. CASE RouteType(d, r) = "ech"
    <3> DEFINE e == EffectiveEch(d, r)
               id == [mode |-> e.mode, domain |-> e.ech_domain, resolver |-> EchSpec(d, r),
                      inline_config |-> e.config # Unset]
    <3>1. EchIdentity(d, r) = id
      BY <2>2 DEF EchIdentity
    <3>2. "domain" \in DOMAIN id
      OBVIOUS
    <3>3. /\ sc.ech.mode = e.mode /\ sc.ech.resolver = EchSpec(d, r)
          /\ sc.ech.domain = Rendered(e.ech_domain)
      BY <1>1, <3>1, <3>2 DEF CanonicalEch
    <3>4. /\ sc.ech.domain # Dash <=> e.ech_domain # Unset
          /\ e.ech_domain # Unset => sc.ech.domain = e.ech_domain
      BY <3>3 DEF Rendered, Unmistakable
    <3> QED BY <1>1, <1>2, <2>2, <3>3, <3>4 DEF ScopeEch, Destination
  <2> QED BY <2>1, <2>2
<1> QED BY <1>1, <1>2, <1>3, TargetOfScope DEF ScopeDestination, Destination

WentByScope == \A s \in store : s.went = ScopeDestination(s.scope, s.host)

(* Equal scopes are interchangeable (src/certscope.rs): a certificate found *)
(* under a running route's scope was issued for connections that went where *)
(* the route's connections for that host go, unless a document dials a host *)
(* named "reflect" or takes its ECH config from a domain named "-".         *)
THEOREM ScopesAreDestinations == Spec /\ []NoMarkers => []ScopeIsDestination
<1>1. Init => WentByScope
  BY DEF Init, SettingsInit, WentByScope
<1>2. NoMarkers /\ WentByScope /\ [Next]_vars => WentByScope'
  <2> SUFFICES ASSUME NoMarkers, WentByScope, [Next]_vars, NEW s \in store'
               PROVE  s.went = ScopeDestination(s.scope, s.host)
    BY DEF WentByScope
  <2>1. CASE s \in store
    BY <2>1 DEF WentByScope
  <2>2. CASE s \notin store
    <3>1. PICK r \in Route, h \in Host, c \in Cert : s = Stored(doc, r, h, c)
      BY <2>2, StoreSteps
    <3>2. s.scope = CertScope(doc, r) /\ s.host = h /\ s.went = Destination(doc, r, h)
      BY <3>1 DEF Stored
    <3> QED BY <3>2, DestinationOfScope DEF NoMarkers
  <2> QED BY <2>1, <2>2
<1>3. NoMarkers /\ WentByScope => ScopeIsDestination
  <2> SUFFICES ASSUME NoMarkers, WentByScope, NEW r \in Route,
                      NEW s \in store, s.scope = CertScope(doc, r)
               PROVE  s.went = Destination(doc, r, s.host)
    BY DEF ScopeIsDestination
  <2> QED BY DestinationOfScope DEF NoMarkers, WentByScope
<1> QED BY <1>1, <1>2, <1>3, PTL DEF Spec

-----------------------------------------------------------------------------
(* The race of two families.  Time stands at or before whatever is still to *)
(* happen, so what an attempt was found to be is what its fate says.       *)
RaceTyped ==
  /\ fate \in [D!Role -> D!Outcome] /\ errs \subseteq D!Role
  /\ now \in 0 .. Budget /\ begun \in 0 .. Budget
  /\ pc \in {"idle", "resolve", "single", "head", "race", "done"}

NotYet == pc \in {"idle", "resolve"} => now = 0 /\ begun = 0 /\ errs = {}
Contenders ==
  /\ addrs.primary \in D!Addr \cup {NoAddr} /\ addrs.fallback \in (D!Addr \ {addrs.primary}) \cup {NoAddr}
  /\ D!Racing => addrs.primary # NoAddr /\ (pc = "single" <=> addrs.fallback = NoAddr)
OnTime ==
  /\ D!Racing /\ "primary" \notin errs => now <= fate["primary"].at
  /\ pc = "race" /\ "fallback" \notin errs => now <= begun + fate["fallback"].at
  /\ pc = "head" => now <= Delay
FailuresAreReal ==
  /\ \A role \in errs : ~fate[role].ok
  /\ pc \in {"single", "head"} => errs = {}
SecondInTurn == pc = "race" => begun = D!Turn

FairRace ==
  /\ RaceTyped /\ NotYet /\ Contenders /\ OnTime /\ FailuresAreReal /\ SecondInTurn
  /\ D!RaceIsWon

LEMMA HeadStart ==
  ASSUME RaceTyped, LifecycleAssumption
  PROVE  D!Turn = IF fate["primary"].ok \/ Delay <= fate["primary"].at THEN Delay
                  ELSE fate["primary"].at
<1> DEFINE at == fate["primary"].at
<1>1. Delay \in Nat /\ at \in Nat
  BY DEF RaceTyped, D!DialConstants, D!Role, D!Outcome
<1>2. D!Min({Delay, at}) = CHOOSE x \in {Delay, at} : \A y \in {Delay, at} : x <= y
  BY DEF D!Min
<1> HIDE DEF at
<1>3. Delay <= at \/ at < Delay
  BY <1>1
<1>4. CASE Delay <= at
  <2>1. \A x \in {Delay, at} : (\A y \in {Delay, at} : x <= y) <=> x = Delay
    BY <1>1, <1>4
  <2>2. D!Min({Delay, at}) = Delay
    BY <1>2, <2>1
  <2> QED BY <1>4, <2>2 DEF D!Turn, at
<1>5. CASE at < Delay
  <2>1. \A x \in {Delay, at} : (\A y \in {Delay, at} : x <= y) <=> x = at
    BY <1>1, <1>5
  <2>2. D!Min({Delay, at}) = at
    BY <1>2, <2>1
  <2>3. ~(Delay <= at)
    BY <1>1, <1>5
  <2> QED BY <2>2, <2>3 DEF D!Turn, at
<1> QED BY <1>3, <1>4, <1>5

LEMMA Joined == ASSUME NEW S, NEW x \in S, NEW y \in S PROVE <<x>> \o <<y>> = <<x, y>>
<1> DEFINE s == <<x>> \o <<y>>
<1>1. s \in Seq(S) /\ Len(s) = 2 /\ s[1] = x /\ s[2] = y
  OBVIOUS
<1>2. <<x, y>> \in Seq(S) /\ Len(<<x, y>>) = 2
  OBVIOUS
<1> HIDE DEF s
<1>3. s = [i \in 1 .. 2 |-> s[i]] /\ <<x, y>> = [i \in 1 .. 2 |-> <<x, y>>[i]]
  BY <1>1, <1>2
<1>4. \A i \in 1 .. 2 : s[i] = <<x, y>>[i]
  BY <1>1
<1> QED BY <1>3, <1>4 DEF s

LEMMA AnswersOf ==
  ASSUME NEW n
  PROVE  \/ D!Answers(n) = << >>
         \/ \E a \in D!Addr : D!Answers(n) = <<a>>
         \/ \E a, b \in D!Addr : a # b /\ D!Answers(n) = <<a, b>>
<1>1. D!Nat64OrV4 \in {"v4", "nat64"}
  BY DEF D!Nat64OrV4
<1>2. CASE n.literal
  BY <1>1, <1>2 DEF D!Answers, D!Addr
<1>3. CASE ~n.literal
  <2> DEFINE six == IF n.aaaa /\ how.family # "ipv4" THEN <<"v6">> ELSE << >>
             four == IF n.a /\ how.family # "ipv6" THEN <<D!Nat64OrV4>> ELSE << >>
  <2>1. D!Answers(n) = IF how.nat64 /\ six # << >> THEN six ELSE six \o four
    BY <1>3 DEF D!Answers
  <2>2. six \in {<< >>, <<"v6">>} /\ four \in {<< >>, <<D!Nat64OrV4>>}
    OBVIOUS
  <2> HIDE DEF six, four
  <2>3. /\ << >> \o << >> = << >> /\ <<"v6">> \o << >> = <<"v6">>
        /\ << >> \o <<D!Nat64OrV4>> = <<D!Nat64OrV4>>
        /\ <<"v6">> \o <<D!Nat64OrV4>> = <<"v6", D!Nat64OrV4>>
    <3>1. "v6" \in D!Addr /\ D!Nat64OrV4 \in D!Addr
      BY <1>1 DEF D!Addr
    <3>2. << >> \in Seq(D!Addr) /\ <<"v6">> \in Seq(D!Addr) /\ <<D!Nat64OrV4>> \in Seq(D!Addr)
      BY <3>1
    <3>3. \A s \in Seq(D!Addr) : << >> \o s = s /\ s \o << >> = s
      OBVIOUS
    <3> QED BY <3>1, <3>2, <3>3, Joined
  <2>4. D!Answers(n) \in {<< >>, <<"v6">>, <<D!Nat64OrV4>>, <<"v6", D!Nat64OrV4>>}
    BY <2>1, <2>2, <2>3
  <2> QED BY <1>1, <2>4 DEF D!Addr
<1> QED BY <1>2, <1>3

LEMMA ResolveRacing == ASSUME FairRace, LifecycleAssumption, D!Resolve PROVE FairRace'
<1>1. /\ pc = "resolve" /\ fate' \in [D!Role -> D!Outcome]
      /\ UNCHANGED <<now, begun, errs>>
  BY DEF D!Resolve
<1>2. PICK n : LET found == D!Answers(n) IN
        /\ addrs' = [primary  |-> IF found = << >> THEN NoAddr ELSE found[1],
                     fallback |-> IF Len(found) < 2 THEN NoAddr ELSE found[2]]
        /\ pc' = IF found = << >> THEN "done" ELSE IF Len(found) < 2 THEN "single" ELSE "head"
        /\ result' = IF found = << >> THEN "unresolved" ELSE result
  BY DEF D!Resolve
<1>3. \/ /\ addrs'.primary = NoAddr /\ addrs'.fallback = NoAddr
         /\ pc' = "done" /\ result' = "unresolved"
      \/ addrs'.primary \in D!Addr /\ addrs'.fallback = NoAddr /\ pc' = "single"
      \/ /\ addrs'.primary \in D!Addr /\ addrs'.fallback \in D!Addr \ {addrs'.primary}
         /\ pc' = "head"
  <2> DEFINE found == D!Answers(n)
  <2>1. CASE found = << >>
    BY <1>2, <2>1
  <2>2. ASSUME NEW a \in D!Addr, found = <<a>>
        PROVE  addrs'.primary \in D!Addr /\ addrs'.fallback = NoAddr /\ pc' = "single"
    <3>1. found # << >> /\ Len(found) = 1 /\ found[1] = a
      BY <2>2
    <3> HIDE DEF found
    <3>2. addrs' = [primary |-> a, fallback |-> NoAddr] /\ pc' = "single"
      BY <1>2, <3>1 DEF found
    <3> QED BY <3>2
  <2>3. ASSUME NEW a \in D!Addr, NEW b \in D!Addr, a # b, found = <<a, b>>
        PROVE  /\ addrs'.primary \in D!Addr /\ addrs'.fallback \in D!Addr \ {addrs'.primary}
               /\ pc' = "head"
    <3>1. found # << >> /\ Len(found) = 2 /\ found[1] = a /\ found[2] = b
      BY <2>3
    <3> HIDE DEF found
    <3>2. addrs' = [primary |-> a, fallback |-> b] /\ pc' = "head"
      BY <1>2, <3>1 DEF found
    <3> QED BY <2>3, <3>2
  <2> QED BY <2>1, <2>2, <2>3, AnswersOf
<1>4. now' = 0 /\ begun' = 0 /\ errs' = {}
  BY <1>1 DEF FairRace, NotYet
<1>5. \A role \in D!Role : fate'[role].at \in Nat
  BY <1>1 DEF D!Outcome, D!DialConstants
<1>6. Delay \in Nat
  BY DEF D!DialConstants
<1>7. RaceTyped' /\ NotYet' /\ Contenders'
  BY <1>1, <1>3, <1>4 DEF FairRace, RaceTyped, NotYet, Contenders, D!Racing, D!DialConstants
<1>8. OnTime' /\ FailuresAreReal' /\ SecondInTurn'
  BY <1>3, <1>4, <1>5, <1>6 DEF OnTime, FailuresAreReal, SecondInTurn, D!Racing, D!Role
<1>9. D!RaceIsWon'
  <2>1. "unresolved" \notin {"failed", "timeout"}
    OBVIOUS
  <2> QED BY <1>3, <2>1 DEF D!RaceIsWon, D!NoLiveMissed, D!PrimaryPreferred
<1> QED BY <1>7, <1>8, <1>9 DEF FairRace

(* What the timers of a race say. *)
LEMMA Timers ==
  ASSUME FairRace, LifecycleAssumption
  PROVE  /\ fate["primary"].at \in Nat /\ fate["fallback"].at \in Nat
         /\ fate["primary"].ok \in BOOLEAN /\ fate["fallback"].ok \in BOOLEAN
         /\ now \in Nat /\ begun \in Nat /\ Delay \in Nat /\ Budget \in Nat
         /\ now <= Budget /\ begun <= Budget
BY DEF FairRace, RaceTyped, D!Role, D!Outcome, D!DialConstants

LEMMA ConnectedRacing == ASSUME FairRace, LifecycleAssumption, D!Connected PROVE FairRace'
<1>1. UNCHANGED <<fate, addrs, now, begun, errs>> /\ pc' = "done"
  BY DEF D!Connected, D!Done
<1>2. \/ D!PrimaryDue /\ fate["primary"].ok /\ result' = addrs.primary
      \/ D!FallbackTurn /\ fate["fallback"].ok /\ result' = addrs.fallback
  BY DEF D!Connected, D!Done
<1>3. RaceTyped' /\ NotYet' /\ Contenders' /\ FailuresAreReal' /\ SecondInTurn'
  BY <1>1 DEF FairRace, RaceTyped, NotYet, Contenders, FailuresAreReal, SecondInTurn, D!Racing
<1>4. OnTime'
  BY <1>1 DEF OnTime, D!Racing
<1>5. result' \in D!Addr
  BY <1>2 DEF FairRace, Contenders, D!PrimaryDue, D!FallbackTurn, D!FallbackDue, D!Racing
<1>6. D!NoLiveMissed'
  BY <1>5 DEF D!NoLiveMissed, D!Addr
<1>7. D!PrimaryPreferred'
  <2> SUFFICES ASSUME addrs.fallback # NoAddr, result' = addrs.fallback
               PROVE  begun = D!Turn /\ ~(fate["primary"].ok /\ fate["primary"].at <= now)
    BY <1>1 DEF D!PrimaryPreferred, D!Turn
  <2>1. addrs.primary # addrs.fallback
    BY DEF FairRace, Contenders
  <2>2. D!FallbackTurn
    BY <1>2, <2>1
  <2>3. pc = "race" /\ ~D!PrimaryDue
    BY <2>2 DEF D!FallbackTurn, D!FallbackDue
  <2>4. begun = D!Turn
    BY <2>3 DEF FairRace, SecondInTurn
  <2>5. "primary" \in errs => ~fate["primary"].ok
    BY DEF FairRace, FailuresAreReal
  <2> QED BY <2>3, <2>4, <2>5 DEF D!PrimaryDue, D!Racing
<1> QED BY <1>3, <1>4, <1>6, <1>7 DEF FairRace, D!RaceIsWon

LEMMA PrimaryFailsRacing == ASSUME FairRace, LifecycleAssumption, D!PrimaryFails PROVE FairRace'
<1>1. /\ D!PrimaryDue /\ ~fate["primary"].ok /\ errs' = errs \cup {"primary"}
      /\ UNCHANGED <<fate, addrs, now>>
  BY DEF D!PrimaryFails
<1>2. /\ D!Racing /\ "primary" \notin errs /\ fate["primary"].at <= now
      /\ now <= fate["primary"].at /\ now = fate["primary"].at
  <2>1. D!Racing /\ "primary" \notin errs /\ fate["primary"].at <= now /\ now <= fate["primary"].at
    BY <1>1 DEF D!PrimaryDue, FairRace, OnTime
  <2> QED BY <2>1, Timers
<1>3. \/ /\ pc = "single" \/ "fallback" \in errs
         /\ pc' = "done" /\ result' = "failed" /\ begun' = begun
      \/ pc = "head" /\ pc' = "race" /\ begun' = now /\ UNCHANGED result
      \/ pc = "race" /\ "fallback" \notin errs /\ UNCHANGED <<pc, begun, result>>
  BY <1>1, <1>2 DEF D!PrimaryFails, D!Done, D!StartFallback, D!Racing
<1>4. RaceTyped' /\ NotYet'
  BY <1>1, <1>2, <1>3 DEF FairRace, RaceTyped, NotYet, D!Racing, D!Role
<1>5. Contenders'
  BY <1>1, <1>2, <1>3 DEF FairRace, Contenders, D!Racing
<1>6. FailuresAreReal'
  BY <1>1, <1>3 DEF FairRace, FailuresAreReal
<1>7. D!Turn' = D!Turn
  BY <1>1 DEF D!Turn
<1>8. SecondInTurn'
  <2>1. ASSUME pc = "head" PROVE now = D!Turn
    <3>1. now <= Delay /\ RaceTyped
      BY <2>1 DEF FairRace, OnTime
    <3>2. D!Turn = IF fate["primary"].ok \/ Delay <= fate["primary"].at THEN Delay
                   ELSE fate["primary"].at
      BY <3>1, HeadStart
    <3> QED BY <1>1, <1>2, <3>1, <3>2, Timers
  <2> QED BY <1>3, <1>7, <2>1 DEF FairRace, SecondInTurn
<1>9. OnTime'
  <2>1. ASSUME pc' = "race", "fallback" \notin errs' PROVE now' <= begun' + fate'["fallback"].at
    BY <1>1, <1>2, <1>3, <2>1, Timers DEF FairRace, OnTime
  <2>2. pc' # "head"
    BY <1>2, <1>3
  <2> QED BY <1>1, <2>1, <2>2 DEF OnTime
<1>10. D!RaceIsWon'
  <2>1. CASE pc' = "done"
    <3>1. result' = "failed" /\ (addrs.fallback # NoAddr => ~fate["fallback"].ok)
      BY <1>2, <1>3, <2>1 DEF FairRace, Contenders, FailuresAreReal, D!Racing
    <3>2. D!NoLiveMissed'
      BY <1>1, <3>1 DEF D!NoLiveMissed, D!Reached
    <3>3. D!PrimaryPreferred'
      BY <1>1, <3>1 DEF FairRace, Contenders, D!PrimaryPreferred, D!Addr
    <3> QED BY <3>2, <3>3 DEF D!RaceIsWon
  <2>2. CASE pc' # "done"
    BY <2>2 DEF D!RaceIsWon, D!NoLiveMissed, D!PrimaryPreferred
  <2> QED BY <2>1, <2>2
<1> QED BY <1>4, <1>5, <1>6, <1>8, <1>9, <1>10 DEF FairRace

LEMMA FallbackFailsRacing == ASSUME FairRace, LifecycleAssumption, D!FallbackFails PROVE FairRace'
<1>1. /\ pc = "race" /\ "fallback" \notin errs /\ ~fate["fallback"].ok
      /\ errs' = errs \cup {"fallback"} /\ UNCHANGED <<fate, addrs, now, begun>>
  BY DEF D!FallbackFails, D!FallbackTurn, D!FallbackDue
<1>2. \/ "primary" \in errs /\ pc' = "done" /\ result' = "failed"
      \/ "primary" \notin errs /\ UNCHANGED <<pc, result>>
  BY DEF D!FallbackFails, D!Done
<1>3. RaceTyped' /\ NotYet' /\ Contenders' /\ FailuresAreReal'
  BY <1>1, <1>2 DEF FairRace, RaceTyped, NotYet, Contenders, FailuresAreReal, D!Racing, D!Role
<1>4. SecondInTurn' /\ OnTime'
  BY <1>1, <1>2 DEF FairRace, SecondInTurn, D!Turn, OnTime, D!Racing
<1>5. D!RaceIsWon'
  <2>1. CASE pc' = "done"
    <3>1. result' = "failed" /\ ~fate["primary"].ok
      BY <1>1, <1>2, <2>1 DEF FairRace, FailuresAreReal
    <3>2. D!NoLiveMissed'
      BY <1>1, <3>1 DEF D!NoLiveMissed, D!Reached
    <3>3. D!PrimaryPreferred'
      BY <1>1, <3>1 DEF FairRace, Contenders, D!PrimaryPreferred, D!Addr
    <3> QED BY <3>2, <3>3 DEF D!RaceIsWon
  <2>2. CASE pc' # "done"
    BY <2>2 DEF D!RaceIsWon, D!NoLiveMissed, D!PrimaryPreferred
  <2> QED BY <2>1, <2>2
<1> QED BY <1>3, <1>4, <1>5 DEF FairRace

LEMMA HeadStartOverRacing == ASSUME FairRace, LifecycleAssumption, D!HeadStartOver PROVE FairRace'
<1>1. /\ pc = "head" /\ now >= Delay /\ ~D!PrimaryDue /\ pc' = "race" /\ begun' = now
      /\ UNCHANGED <<fate, addrs, now, errs, result>>
  BY DEF D!HeadStartOver, D!StartFallback
<1>2. errs = {} /\ now = Delay /\ ~(fate["primary"].at <= now) /\ now <= fate["primary"].at
  <2>1. errs = {} /\ now <= Delay /\ now <= fate["primary"].at
    BY <1>1 DEF FairRace, FailuresAreReal, OnTime, D!Racing
  <2>2. now = Delay
    BY <1>1, <2>1, Timers
  <2> QED BY <1>1, <2>1, <2>2 DEF D!PrimaryDue, D!Racing
<1>3. RaceTyped' /\ NotYet' /\ Contenders' /\ FailuresAreReal'
  BY <1>1, <1>2 DEF FairRace, RaceTyped, NotYet, Contenders, FailuresAreReal, D!Racing
<1>4. SecondInTurn'
  <2>1. D!Turn' = D!Turn
    BY <1>1 DEF D!Turn
  <2>2. D!Turn = IF fate["primary"].ok \/ Delay <= fate["primary"].at THEN Delay
                 ELSE fate["primary"].at
    BY HeadStart DEF FairRace
  <2> QED BY <1>1, <1>2, <2>1, <2>2, Timers DEF SecondInTurn
<1>5. OnTime'
  BY <1>1, <1>2, Timers DEF OnTime
<1>6. D!RaceIsWon'
  BY <1>1 DEF D!RaceIsWon, D!NoLiveMissed, D!PrimaryPreferred
<1> QED BY <1>3, <1>4, <1>5, <1>6 DEF FairRace

LEMMA TimedOutRacing == ASSUME FairRace, LifecycleAssumption, D!TimedOut PROVE FairRace'
<1>1. /\ D!Idle /\ now >= Budget /\ pc' = "done" /\ result' = "timeout"
      /\ UNCHANGED <<fate, addrs, now, begun, errs>>
  BY DEF D!TimedOut, D!Spent, D!Done
<1>2. /\ D!Racing /\ ~D!PrimaryDue /\ ~D!FallbackDue /\ ~(pc = "head" /\ now >= Delay)
      /\ now = Budget
  BY <1>1, Timers DEF D!Idle
<1>3. RaceTyped' /\ NotYet' /\ Contenders' /\ FailuresAreReal' /\ SecondInTurn'
  BY <1>1, <1>2 DEF FairRace, RaceTyped, NotYet, Contenders, FailuresAreReal, SecondInTurn, D!Racing
<1>4. OnTime'
  BY <1>1 DEF OnTime, D!Racing
<1>5. fate["primary"].ok => Budget < fate["primary"].at
  <2>1. "primary" \in errs => ~fate["primary"].ok
    BY DEF FairRace, FailuresAreReal
  <2>2. "primary" \notin errs => ~(fate["primary"].at <= now)
    BY <1>2 DEF D!PrimaryDue
  <2> QED BY <1>2, <2>1, <2>2, Timers
<1>6. ASSUME addrs.fallback # NoAddr PROVE ~D!Reached("fallback", D!Turn)
  <2>1. pc \in {"head", "race"}
    BY <1>2, <1>6 DEF FairRace, Contenders, D!Racing
  <2>2. CASE pc = "race"
    <3>1. D!Turn = begun
      BY <2>2 DEF FairRace, SecondInTurn
    <3>2. "fallback" \in errs => ~fate["fallback"].ok
      BY DEF FairRace, FailuresAreReal
    <3>3. "fallback" \notin errs => ~(begun + fate["fallback"].at <= now)
      BY <1>2, <2>2 DEF D!FallbackDue
    <3> QED BY <1>2, <3>1, <3>2, <3>3 DEF D!Reached
  <2>3. CASE pc = "head"
    <3>1. Budget < Delay
      BY <1>2, <2>3, Timers
    <3>2. Budget < fate["primary"].at
      <4>1. errs = {}
        BY <2>3 DEF FairRace, FailuresAreReal
      <4>2. ~(fate["primary"].at <= now)
        BY <1>2, <4>1 DEF D!PrimaryDue
      <4> QED BY <1>2, <4>2, Timers
    <3>3. D!Turn = IF fate["primary"].ok \/ Delay <= fate["primary"].at THEN Delay
                   ELSE fate["primary"].at
      BY HeadStart DEF FairRace
    <3>4. Budget < D!Turn /\ D!Turn \in Nat
      BY <3>1, <3>2, <3>3, Timers
    <3>5. ~(D!Turn + fate["fallback"].at <= Budget)
      <4> SUFFICES ASSUME NEW t \in Nat, t = D!Turn, Budget < t
                   PROVE  ~(t + fate["fallback"].at <= Budget)
        BY <3>4
      <4> QED BY Timers
    <3> QED BY <3>5 DEF D!Reached
  <2> QED BY <2>1, <2>2, <2>3
<1>7. ~D!Reached("primary", 0)
  <2>1. 0 + fate["primary"].at = fate["primary"].at
    BY Timers
  <2> QED BY <1>5, <2>1, Timers DEF D!Reached
<1>8. D!NoLiveMissed'
  BY <1>1, <1>6, <1>7 DEF D!NoLiveMissed, D!Reached, D!Turn
<1>9. D!PrimaryPreferred'
  BY <1>1 DEF FairRace, Contenders, D!PrimaryPreferred, D!Addr
<1> QED BY <1>3, <1>4, <1>8, <1>9 DEF FairRace, D!RaceIsWon

LEMMA ElapseRacing == ASSUME FairRace, LifecycleAssumption, D!Elapse PROVE FairRace'
<1>1. /\ D!Idle /\ ~(now >= Budget) /\ now' = now + 1
      /\ UNCHANGED <<how, fate, addrs, pc, begun, errs, result>>
  BY DEF D!Elapse, D!Spent
<1>2. /\ D!Racing /\ ~D!PrimaryDue /\ ~D!FallbackDue /\ ~(pc = "head" /\ now >= Delay)
  BY <1>1 DEF D!Idle
<1>3. RaceTyped' /\ NotYet' /\ Contenders' /\ FailuresAreReal' /\ SecondInTurn'
  <2>1. now' \in 0 .. Budget
    BY <1>1, Timers
  <2>2. SecondInTurn'
    BY <1>1 DEF FairRace, SecondInTurn, D!Turn
  <2> QED BY <1>1, <1>2, <2>1, <2>2
         DEF FairRace, RaceTyped, NotYet, Contenders, FailuresAreReal, D!Racing
<1>4. OnTime'
  <2>1. "primary" \notin errs => now' <= fate["primary"].at
    BY <1>1, <1>2, Timers DEF D!PrimaryDue
  <2>2. pc = "race" /\ "fallback" \notin errs => now' <= begun + fate["fallback"].at
    BY <1>1, <1>2, Timers DEF D!FallbackDue
  <2>3. pc = "head" => now' <= Delay
    BY <1>1, <1>2, Timers
  <2> QED BY <1>1, <2>1, <2>2, <2>3 DEF OnTime
<1>5. D!RaceIsWon'
  BY <1>1, <1>2 DEF D!RaceIsWon, D!NoLiveMissed, D!PrimaryPreferred, D!Racing
<1> QED BY <1>3, <1>4, <1>5 DEF FairRace

LEMMA RacingKept ==
  ASSUME FairRace, UNCHANGED <<fate, addrs, now, begun, errs, result>>,
         UNCHANGED pc \/ (pc = "idle" /\ pc' = "resolve")
  PROVE  FairRace'
<1>1. RaceTyped' /\ NotYet' /\ Contenders'
  BY DEF FairRace, RaceTyped, NotYet, Contenders, D!Racing
<1>2. OnTime' /\ FailuresAreReal'
  BY DEF FairRace, OnTime, FailuresAreReal, D!Racing
<1>3. SecondInTurn'
  BY DEF FairRace, SecondInTurn, D!Turn
<1>4. D!RaceIsWon'
  BY DEF FairRace, D!RaceIsWon, D!NoLiveMissed, D!PrimaryPreferred, D!Reached, D!Turn
<1> QED BY <1>1, <1>2, <1>3, <1>4 DEF FairRace

(* Whatever the two families do, and however close to one another: a race   *)
(* gives the connection the first could have made in time, else the second's *)
(* (race_families).                                                         *)
THEOREM RacesAreWon == Spec => []RaceIsWon
<1>1. Init => FairRace
  <2> SUFFICES ASSUME Init PROVE FairRace
    OBVIOUS
  <2>1. /\ fate = [r \in D!Role |-> [at |-> 0, ok |-> TRUE]]
        /\ addrs = [primary |-> NoAddr, fallback |-> NoAddr]
        /\ pc = "idle" /\ now = 0 /\ begun = 0 /\ errs = {} /\ result = "none"
    BY DEF Init, D!Init
  <2>2. Budget \in Nat /\ Longest \in Nat
    BY LifecycleAssumption DEF D!DialConstants
  <2>3. RaceTyped
    <3>1. [at |-> 0, ok |-> TRUE] \in D!Outcome
      BY <2>2 DEF D!Outcome
    <3> QED BY <2>1, <2>2, <3>1 DEF RaceTyped
  <2>4. NotYet /\ Contenders /\ OnTime /\ FailuresAreReal /\ SecondInTurn /\ D!RaceIsWon
    BY <2>1 DEF NotYet, Contenders, OnTime, FailuresAreReal, SecondInTurn, D!RaceIsWon,
                D!NoLiveMissed, D!PrimaryPreferred, D!Racing
  <2> QED BY <2>3, <2>4 DEF FairRace
<1>2. FairRace /\ [Next]_vars => FairRace'
  <2> SUFFICES ASSUME FairRace, [Next]_vars PROVE FairRace'
    OBVIOUS
  <2>1. CASE Dial
    BY <2>1, LifecycleAssumption, ResolveRacing, ConnectedRacing, PrimaryFailsRacing,
       FallbackFailsRacing, HeadStartOverRacing, TimedOutRacing, ElapseRacing
       DEF Dial, D!Dialling
  <2>2. CASE Connect
    <3>1. /\ pc = "idle" /\ pc' = "resolve"
          /\ UNCHANGED <<fate, addrs, now, begun, errs, result>>
      BY <2>2 DEF Connect, D!Begin
    <3> QED BY <3>1, RacingKept
  <2>3. CASE Settle \/ Ended \/ UNCHANGED vars
    <3>1. UNCHANGED <<how, fate, addrs, pc, now, begun, errs, result>>
      BY <2>3 DEF Settle, Ended, vars, dialling
    <3> QED BY <3>1, RacingKept
  <2> QED BY <2>1, <2>2, <2>3 DEF Next
<1>3. FairRace => RaceIsWon
  BY DEF FairRace, RaceIsWon
<1> QED BY <1>1, <1>2, <1>3, PTL DEF Spec

-----------------------------------------------------------------------------
(* What a start has been through: the document it reads was accepted, and   *)
(* what was built, or not, was built from it and the files there.          *)
Judged ==
  /\ phase # "over" => IsProper(doc)
  /\ phase = "running" => Accepted(doc)
  /\ phase = "failed" => Accepted(doc) /\ ~Builds(doc, missing)

LEMMA ProperEdits ==
  ASSUME IsProper(doc), Write \/ Erase
  PROVE  IsProper(doc')
<1>1. CASE Write
  <2>1. PICK place \in Place : \E value \in Edits[place] :
          place[1] \in DOMAIN doc /\ doc' = Put(doc, place, value)
    BY <1>1 DEF Write, Edited
  <2>2. PICK value \in Edits[place] : place[1] \in DOMAIN doc /\ doc' = Put(doc, place, value)
    BY <2>1
  <2>3. Proper(place[2], value)
    BY DeploymentAssumption
  <2>4. DOMAIN doc' = DOMAIN doc
    BY <2>2 DEF Put
  <2>5. ASSUME NEW t \in DOMAIN doc, t # place[1] PROVE doc'[t] = doc[t]
    BY <2>2, <2>5 DEF Put
  <2>6. doc'[place[1]] = [f \in DOMAIN doc[place[1]] \cup {place[2]} |->
                            IF f = place[2] THEN value ELSE doc[place[1]][f]]
    BY <2>2 DEF Put
  <2>7. ASSUME NEW t \in DOMAIN doc', NEW f \in DOMAIN doc'[t] PROVE Proper(f, doc'[t][f])
    <3>1. CASE t # place[1]
      BY <2>4, <2>5, <3>1 DEF IsProper
    <3>2. CASE t = place[1]
      <4>1. \/ f = place[2] /\ doc'[t][f] = value
            \/ f \in DOMAIN doc[t] /\ doc'[t][f] = doc[t][f]
        BY <2>6, <3>2
      <4> QED BY <2>3, <2>4, <4>1 DEF IsProper
    <3> QED BY <3>1, <3>2
  <2> QED BY <2>7 DEF IsProper
<1>2. CASE Erase
  <2>1. PICK place \in Place : Written(doc, place) /\ doc' = Drop(doc, place)
    BY <1>2 DEF Erase, Edited
  <2>2. DOMAIN doc' = DOMAIN doc /\ place[1] \in DOMAIN doc
    BY <2>1 DEF Drop, Written
  <2>3. ASSUME NEW t \in DOMAIN doc, t # place[1] PROVE doc'[t] = doc[t]
    BY <2>1, <2>3 DEF Drop
  <2>4. doc'[place[1]] = [f \in DOMAIN doc[place[1]] \ {place[2]} |-> doc[place[1]][f]]
    BY <2>1, <2>2 DEF Drop
  <2>5. ASSUME NEW t \in DOMAIN doc', NEW f \in DOMAIN doc'[t] PROVE Proper(f, doc'[t][f])
    <3>1. f \in DOMAIN doc[t] /\ doc'[t][f] = doc[t][f]
      BY <2>2, <2>3, <2>4
    <3> QED BY <2>2, <3>1 DEF IsProper
  <2> QED BY <2>5 DEF IsProper
<1> QED BY <1>1, <1>2

LEMMA AlwaysJudged == Spec => []Judged
<1>1. Init => Judged
  BY DeploymentAssumption DEF Init, SettingsInit, Judged
<1>2. Judged /\ [Next]_vars => Judged'
  <2> SUFFICES ASSUME Judged, [Next]_vars PROVE Judged'
    OBVIOUS
  <2>1. CASE Write \/ Erase
    <3>1. phase # "over" /\ phase' = "down"
      BY <2>1 DEF Write, Erase, Edited
    <3> QED BY <2>1, <3>1, ProperEdits DEF Judged
  <2>2. CASE Start
    BY <2>2 DEF Start, Judged
  <2>3. CASE Run \/ Stop
    BY <2>3 DEF Run, Serve, Stop, Judged
  <2>4. CASE Connect
    BY <2>4 DEF Connect, Leave, Judged
  <2>5. CASE Dial \/ Ended \/ UNCHANGED vars
    BY <2>5 DEF Dial, Ended, vars, settings, Judged
  <2> QED BY <2>1, <2>2, <2>3, <2>4, <2>5 DEF Next, Settle, SettingsNext
<1> QED BY <1>1, <1>2, PTL DEF Spec

(* Every non-empty set of naturals has a least element. *)
LEMMA LeastElement ==
  ASSUME NEW T, T \subseteq Nat, T # {}
  PROVE  \E x \in T : \A y \in T : x <= y
<1> DEFINE R == OpToRel(<, Nat)
<1>1. IsWellFoundedOn(R, Nat)
  BY NatLessThanWellFounded
<1>2. PICK x \in T : \A y \in T : <<y, x>> \notin R
  <2> HIDE DEF R
  <2> QED BY <1>1, WFMin
<1>3. ASSUME NEW y \in T PROVE x <= y
  <2>1. <<y, x>> \notin R
    BY <1>2
  <2>2. ~(y < x)
    BY <2>1, x \in Nat, y \in Nat DEF OpToRel
  <2> QED BY <2>2, x \in Nat, y \in Nat
<1> QED BY <1>2, <1>3

(* The place that decides is one of those asked, and something is written   *)
(* there.                                                                  *)
LEMMA FirstWritten ==
  ASSUME NEW d, NEW places, DOMAIN places \subseteq Nat, NEW default
  PROVE  \/ WrittenAmong(d, places) = {} /\ First(d, places, default) = default
         \/ \E i \in WrittenAmong(d, places) :
              /\ \A j \in WrittenAmong(d, places) : i <= j
              /\ Min(WrittenAmong(d, places)) = i
              /\ First(d, places, default) = Value(d, places[i])
<1> DEFINE found == WrittenAmong(d, places)
<1>1. CASE found = {}
  BY <1>1 DEF First
<1>2. CASE found # {}
  <2>1. found \subseteq Nat
    BY DEF WrittenAmong
  <2> HIDE DEF found
  <2>2. \E i \in found : \A j \in found : i <= j
    BY <1>2, <2>1, LeastElement
  <2>3. Min(found) \in found /\ \A j \in found : Min(found) <= j
    BY <2>2 DEF Min
  <2> QED BY <1>2, <2>3 DEF First, found
<1> QED BY <1>1, <1>2

LEMMA FoundIn ==
  ASSUME NEW d, NEW S, NEW places \in Seq(S), NEW default
  PROVE  \/ First(d, places, default) = default
         \/ \E p \in S : Written(d, p) /\ First(d, places, default) = Value(d, p)
<1>1. DOMAIN places \subseteq Nat /\ \A i \in DOMAIN places : places[i] \in S
  OBVIOUS
<1>2. \A i \in WrittenAmong(d, places) : i \in DOMAIN places /\ Written(d, places[i])
  BY DEF WrittenAmong
<1> QED BY <1>1, <1>2, FirstWritten

(* The tables in which the settings of a route may be written.             *)
TierSet(d) == {"global", "listener"} \cup Route \cup Declared(d, Template)

LEMMA TierSequences ==
  ASSUME NEW d, TemplatesExist(d), NEW r \in Route
  PROVE  /\ Own(d, r) \in Seq(Route \cup Declared(d, Template)) /\ Own(d, r) \in Seq(TierSet(d))
         /\ Outer(d) \in Seq(TierSet(d)) /\ Tiers(d, r) \in Seq(TierSet(d))
<1>1. ASSUME NEW t \in {"listener"} \cup Route PROVE Used(d, t) \in Seq(Declared(d, Template))
  <2>1. CASE Written(d, <<t, "use">>)
    <3>1. Used(d, t) = <<Value(d, <<t, "use">>)>>
      BY <2>1 DEF Used
    <3>2. \A u \in {Used(d, t)[i] : i \in DOMAIN Used(d, t)} : u \in Declared(d, Template)
      BY DEF TemplatesExist
    <3>3. 1 \in DOMAIN Used(d, t) /\ Used(d, t)[1] = Value(d, <<t, "use">>)
      BY <3>1
    <3>4. Value(d, <<t, "use">>) \in Declared(d, Template)
      BY <3>2, <3>3
    <3> QED BY <3>1, <3>4
  <2>2. CASE ~Written(d, <<t, "use">>)
    <3>1. Used(d, t) = << >>
      BY <2>2 DEF Used
    <3> QED BY <3>1
  <2> QED BY <2>1, <2>2
<1> DEFINE T == Declared(d, Template)
           OT == Route \cup T
           TS == TierSet(d)
<1> HIDE DEF T
<1>2. OT \subseteq TS /\ T \subseteq OT /\ T \subseteq TS /\ r \in OT
      /\ "listener" \in TS /\ "global" \in TS
  BY DEF TierSet, T
<1>3. Used(d, r) \in Seq(T) /\ Used(d, "listener") \in Seq(T)
  BY <1>1 DEF T
<1> HIDE DEF OT, TS
<1>4. ASSUME NEW A, NEW B, A \subseteq B, NEW s \in Seq(A) PROVE s \in Seq(B)
  <2>1. s \in [1 .. Len(s) -> A] /\ Len(s) \in Nat
    BY <1>4
  <2>2. s \in [1 .. Len(s) -> B]
    BY <1>4, <2>1
  <2> QED BY <2>1, <2>2
<1>5. Own(d, r) \in Seq(OT)
  <2>1. <<r>> \in Seq(OT) /\ Used(d, r) \in Seq(OT)
    BY <1>2, <1>3, <1>4
  <2> QED BY <2>1 DEF Own
<1>6. Own(d, r) \in Seq(TS)
  BY <1>2, <1>4, <1>5
<1>7. Outer(d) \in Seq(TS)
  <2>1. <<"listener">> \in Seq(TS) /\ Used(d, "listener") \in Seq(TS) /\ <<"global">> \in Seq(TS)
    BY <1>2, <1>3, <1>4
  <2> QED BY <2>1 DEF Outer
<1>8. Tiers(d, r) \in Seq(TS)
  BY <1>6, <1>7 DEF Tiers
<1> QED BY <1>5, <1>6, <1>7, <1>8 DEF OT, TS, T

LEMMA AtPlaces ==
  ASSUME NEW T, NEW tiers \in Seq(T), NEW F, NEW f \in F
  PROVE  At(tiers, f) \in Seq(T \X F)
<1>1. Len(tiers) \in Nat /\ DOMAIN tiers = 1 .. Len(tiers) /\ \A i \in 1 .. Len(tiers) : tiers[i] \in T
  OBVIOUS
<1>2. At(tiers, f) \in [1 .. Len(tiers) -> T \X F]
  BY <1>1 DEF At
<1>3. \A n \in Nat : \A s \in [1 .. n -> T \X F] : s \in Seq(T \X F)
  OBVIOUS
<1> QED BY <1>1, <1>2, <1>3

LEMMA EitherPlaces ==
  ASSUME NEW T, NEW tiers \in Seq(T), NEW F, NEW specific \in F, NEW generic \in F
  PROVE  Either(tiers, specific, generic) \in Seq(T \X F)
<1>1. Len(tiers) \in Nat /\ \A i \in 1 .. Len(tiers) : tiers[i] \in T
  OBVIOUS
<1>2. \A n \in Nat : \A i \in 1 .. 2 * n : (i + 1) \div 2 \in 1 .. n
  OBVIOUS
<1>3. ASSUME NEW i \in 1 .. 2 * Len(tiers)
      PROVE  <<tiers[(i + 1) \div 2], IF i % 2 = 1 THEN specific ELSE generic>> \in T \X F
  <2>1. tiers[(i + 1) \div 2] \in T
    BY <1>1, <1>2
  <2> QED BY <2>1
<1>4. Either(tiers, specific, generic) \in [1 .. 2 * Len(tiers) -> T \X F]
  BY <1>3 DEF Either
<1>5. \A n \in Nat : \A s \in [1 .. n -> T \X F] : s \in Seq(T \X F)
  OBVIOUS
<1> QED BY <1>1, <1>4, <1>5

(* Whatever tier a resolver is named in, it is declared.                    *)
Known(d, spec) == spec.kind = "ref" => spec.name \in Declared(d, Resolver)

LEMMA NamedAreKnown ==
  ASSUME NEW d, TemplatesExist(d), RefsResolve(d), NEW r \in Route
  PROVE  Known(d, AddrResolver(d, r)) /\ Known(d, EchResolver(d, r)) /\ Known(d, EchSpec(d, r))
<1> DEFINE P == TierSet(d) \X CommonRefs
<1>1. \A p \in P : Written(d, p) => Known(d, Value(d, p))
  BY DEF RefsResolve, RefPlaces, TierSet, RefResolves, Known
<1>2. Known(d, NoSpec) /\ Known(d, System)
  BY DEF Known, NoSpec, System
<1>3. Tiers(d, r) \in Seq(TierSet(d))
  BY TierSequences
<1>4. {"resolver", "ech_resolver", "addr_resolver", "ech.ech_resolver"} = CommonRefs
  BY DEF CommonRefs
<1> HIDE DEF P
<1>5. /\ Either(Tiers(d, r), "addr_resolver", "resolver") \in Seq(P)
      /\ Either(Tiers(d, r), "ech_resolver", "resolver") \in Seq(P)
      /\ At(Tiers(d, r), "ech.ech_resolver") \in Seq(P)
  BY <1>3, <1>4, AtPlaces, EitherPlaces DEF P
<1>6. Known(d, AddrResolver(d, r))
  <2>1. \/ AddrResolver(d, r) = NoSpec
        \/ \E p \in P : Written(d, p) /\ AddrResolver(d, r) = Value(d, p)
    BY <1>5, FoundIn DEF AddrResolver
  <2> QED BY <1>1, <1>2, <2>1
<1>7. Known(d, EchResolver(d, r))
  <2> DEFINE places == EchPlaces(d, r, "ech.ech_resolver")
                         \o Either(Tiers(d, r), "ech_resolver", "resolver")
  <2>1. places \in Seq(P)
    BY <1>5 DEF EchPlaces
  <2>2. EchResolver(d, r) = First(d, places, NoSpec)
    BY DEF EchResolver
  <2> HIDE DEF places
  <2>3. \/ EchResolver(d, r) = NoSpec
        \/ \E p \in P : Written(d, p) /\ EchResolver(d, r) = Value(d, p)
    BY <2>1, <2>2, FoundIn
  <2> QED BY <1>1, <1>2, <2>3
<1> QED BY <1>2, <1>6, <1>7 DEF EchSpec

LEMMA OnePlace ==
  ASSUME NEW d, NEW p, NEW default
  PROVE  First(d, <<p>>, default) = IF Written(d, p) THEN Value(d, p) ELSE default
<1>1. DOMAIN <<p>> = {1} /\ <<p>>[1] = p
  OBVIOUS
<1>2. WrittenAmong(d, <<p>>) = IF Written(d, p) THEN {1} ELSE {}
  BY <1>1 DEF WrittenAmong
<1> QED BY <1>1, <1>2, FirstWritten

LEMMA SpecsAreKnown ==
  ASSUME NEW d, Accepted(d)
  PROVE  \A spec \in Specs(d) : Known(d, spec)
<1>1. TemplatesExist(d) /\ RefsResolve(d)
  BY DEF Accepted
<1>2. Known(d, NoSpec) /\ Known(d, System)
  BY DEF Known, NoSpec, System
<1>3. ASSUME NEW p \in Declared(d, Pool) PROVE Known(d, First(d, <<<<p, "resolver">>>>, System))
  <2>1. RefResolves(d, First(d, <<<<p, "resolver">>>>, NoSpec))
    BY DEF Accepted, PoolAccepted
  <2>2. CASE Written(d, <<p, "resolver">>)
    BY <2>1, <2>2, OnePlace DEF RefResolves, Known
  <2>3. CASE ~Written(d, <<p, "resolver">>)
    BY <1>2, <2>3, OnePlace
  <2> QED BY <2>2, <2>3
<1>4. ASSUME NEW p \in Declared(d, Pool), EchPool(d, p) PROVE Known(d, TopEch(d, p).ech_resolver)
  <2>1. PoolAccepted(d, p)
    BY DEF Accepted
  <2>2. RefResolves(d, TopEch(d, p).ech_resolver)
    BY <1>4, <2>1 DEF PoolAccepted, ProbeAccepted, EchPool
  <2> QED BY <2>2 DEF RefResolves, Known
<1>5. ASSUME NEW x \in Declared(d, Resolver), NEW f \in {"bootstrap", "ech.ech_resolver"}
      PROVE  Known(d, First(d, <<<<x, f>>>>, NoSpec))
  <2>1. <<x, f>> \in RefPlaces(d)
    BY DEF RefPlaces
  <2>2. Written(d, <<x, f>>) => Known(d, Value(d, <<x, f>>))
    BY <1>1, <2>1 DEF RefsResolve, RefResolves, Known
  <2> QED BY <1>2, <2>2, OnePlace
<1>6. \A x \in Declared(d, Resolver) : Known(d, Bootstrap(d, x)) /\ Known(d, TopEch(d, x).ech_resolver)
  BY <1>5 DEF Bootstrap, TopEch
<1> QED BY <1>1, <1>3, <1>4, <1>6, NamedAreKnown DEF Specs

LEMMA ChainsHaveEnds ==
  ASSUME NEW d, Accepted(d), ~Unparsed(d), NEW v \in Policies(d), v.mode # "none"
  PROVE  RootsFor(v) # {}
<1>1. Coherent(v)
  <2>1. Coherent(DefaultVerify)
    BY DEF Coherent, DefaultVerify
  <2>2. ASSUME NEW r \in Route, Verifies(RouteType(d, r)) PROVE Coherent(EffectiveVerify(d, r))
    BY <2>2 DEF Accepted, VerifyAccepted
  <2>3. ASSUME NEW p \in Declared(d, Pool) PROVE Coherent(ProbeVerify(d, p))
    <3>1. PoolAccepted(d, p)
      BY DEF Accepted
    <3> QED BY <2>1, <3>1 DEF PoolAccepted, ProbeAccepted, ProbeVerify
  <2>4. ASSUME NEW x \in Declared(d, Resolver), IsTls(d, x) PROVE Coherent(ResolveVerify(d, x))
    <3>1. ResolverAccepted(d, x)
      BY DEF Accepted
    <3> QED BY <2>4, <3>1 DEF ResolverAccepted
  <2> QED BY <2>2, <2>3, <2>4 DEF Policies
<1>2. v.trust_webpki \/ v.ca_file # Unset
  BY <1>1 DEF Coherent
<1>3. CASE v.trust_webpki
  BY <1>3, DeploymentAssumption DEF RootsFor
<1>4. CASE v.ca_file # Unset
  <2>1. v.ca_file \in AnchorFiles(d)
    BY <1>4 DEF AnchorFiles
  <2>2. Anchors[v.ca_file] # {}
    BY <2>1 DEF Unparsed
  <2> QED BY <1>4, <2>2 DEF RootsFor
<1> QED BY <1>2, <1>3, <1>4

LEMMA AcceptanceFounds ==
  ASSUME NEW d, Accepted(d), ~Unparsed(d)
  PROVE  ~Unfounded(d)
<1>1. \A spec \in Specs(d) : ~(spec.kind = "ref" /\ spec.name \notin Declared(d, Resolver))
  BY SpecsAreKnown DEF Known
<1>2. ASSUME NEW r \in Route
      PROVE  /\ Upstream(d, r).kind # "malformed" /\ RouteType(d, r) # Unset
             /\ Upstream(d, r).kind = "pool" => Upstream(d, r).name \in Declared(d, Pool)
  <2>1. RouteAccepted(d, r) /\ PoolRouteAccepted(d, r)
    BY DEF Accepted
  <2> QED BY <2>1 DEF RouteAccepted, PoolRouteAccepted
<1>3. \A v \in Policies(d) : ~(v.mode # "none" /\ RootsFor(v) = {})
  BY ChainsHaveEnds
<1>4. \A p \in Declared(d, Pool) : ProbeReduces(d, p)
  BY DEF Accepted, PoolAccepted, ProbeAccepted
<1> QED BY <1>1, <1>2, <1>3, <1>4 DEF Unfounded

(* Config::validate has looked up whatever the build looks up: a document   *)
(* it accepts fails to start only over a file that cannot be read, or over  *)
(* a text that is parsed only then.                                        *)
THEOREM AcceptedDocumentsStart == Spec => []AcceptedStarts
<1>1. Judged => AcceptedStarts
  BY AcceptanceFounds DEF Judged, AcceptedStarts, Builds
<1> QED BY <1>1, AlwaysJudged, PTL

(* What the inner tiers write decides, whatever the outer ones say. *)
LEMMA InnerDecides ==
  ASSUME NEW d, NEW T, NEW own \in Seq(T), NEW outer \in Seq(T), NEW f, NEW default,
         WrittenAmong(d, At(own, f)) # {}
  PROVE  First(d, At(own \o outer, f), default) = First(d, At(own, f), Unset)
<1> DEFINE all == own \o outer
           n == Len(own)
<1>1. /\ n \in Nat /\ DOMAIN own = 1 .. n /\ 1 .. n \subseteq DOMAIN all /\ DOMAIN all \subseteq Nat
      /\ \A i \in 1 .. n : all[i] = own[i]
  OBVIOUS
<1> HIDE DEF all, n
<1>2. DOMAIN At(own, f) = 1 .. n /\ DOMAIN At(all, f) = DOMAIN all
  BY <1>1 DEF At
<1>3. \A i \in 1 .. n : At(all, f)[i] = At(own, f)[i]
  BY <1>1 DEF At
<1>4. \A i \in 1 .. n : i \in WrittenAmong(d, At(own, f)) <=> i \in WrittenAmong(d, At(all, f))
  BY <1>1, <1>2, <1>3 DEF WrittenAmong
<1>5. WrittenAmong(d, At(own, f)) \subseteq 1 .. n /\ WrittenAmong(d, At(all, f)) \subseteq Nat
  BY <1>1, <1>2 DEF WrittenAmong
<1>6. DOMAIN At(own, f) \subseteq Nat /\ DOMAIN At(all, f) \subseteq Nat
  BY <1>1, <1>2
<1>7. PICK i \in WrittenAmong(d, At(own, f)) :
        /\ \A j \in WrittenAmong(d, At(own, f)) : i <= j
        /\ First(d, At(own, f), Unset) = Value(d, At(own, f)[i])
  BY <1>6, FirstWritten
<1>8. WrittenAmong(d, At(all, f)) # {}
  BY <1>4, <1>5
<1>9. PICK k \in WrittenAmong(d, At(all, f)) :
        /\ \A j \in WrittenAmong(d, At(all, f)) : k <= j
        /\ First(d, At(all, f), default) = Value(d, At(all, f)[k])
  BY <1>6, <1>8, FirstWritten
<1>10. i \in 1 .. n /\ k \in 1 .. n /\ k <= i
  <2>1. i \in 1 .. n /\ k <= i
    BY <1>4, <1>5, <1>9
  <2>2. k \in Nat /\ k # 0
    <3>1. k \in DOMAIN all
      BY <1>2 DEF WrittenAmong
    <3>2. k \in 1 .. Len(all)
      BY <3>1 DEF all
    <3> QED BY <3>2 DEF all
  <2> QED BY <1>1, <2>1, <2>2
<1>11. i <= k
  BY <1>4, <1>7, <1>10
<1>12. i = k
  BY <1>10, <1>11
<1> QED BY <1>3, <1>7, <1>9, <1>10, <1>12 DEF all

(* A route that verifies nothing has nothing to say about it. *)
LEMMA NothingWritten ==
  ASSUME NEW d, NEW r \in Route, VerifyAccepted(d, r), ~Verifies(RouteType(d, r)),
         NEW f \in VerifyFields
  PROVE  WrittenAmong(d, At(Own(d, r), f)) = {}
<1> SUFFICES ASSUME NEW i \in DOMAIN Own(d, r), Written(d, <<Own(d, r)[i], f>>) PROVE FALSE
  BY DEF WrittenAmong, At
<1>1. ~HasBlock(d, Own(d, r)[i], VerifyFields)
  BY DEF VerifyAccepted
<1> QED BY <1>1 DEF HasBlock, Written

LEMMA ProperValue ==
  ASSUME NEW d, IsProper(d), NEW t, NEW f, Written(d, <<t, f>>)
  PROVE  Proper(f, Value(d, <<t, f>>))
BY DEF IsProper, Written, Value

LEMMA ProperFirst ==
  ASSUME NEW d, IsProper(d), NEW T, NEW tiers \in Seq(T), NEW f, NEW default
  PROVE  /\ \/ First(d, At(tiers, f), default) = default
            \/ Proper(f, First(d, At(tiers, f), default))
         /\ WrittenAmong(d, At(tiers, f)) # {} => Proper(f, First(d, At(tiers, f), default))
<1>1. DOMAIN At(tiers, f) \subseteq Nat
  BY DEF At
<1>2. ASSUME NEW i \in WrittenAmong(d, At(tiers, f)) PROVE Proper(f, Value(d, At(tiers, f)[i]))
  <2>1. i \in DOMAIN tiers /\ At(tiers, f)[i] = <<tiers[i], f>> /\ Written(d, At(tiers, f)[i])
    BY DEF WrittenAmong, At
  <2> QED BY <2>1, ProperValue
<1> QED BY <1>1, <1>2, FirstWritten

(* What a route's own tables write about verification holds of every        *)
(* certificate it accepts (validate_verify, EffectiveVerify::validate): no  *)
(* outer table can undo it, and none of it is idle.                        *)
THEOREM WrittenHolds == Spec => []WrittenIsEnforced
<1>1. Judged => WrittenIsEnforced
  <2> SUFFICES ASSUME Judged, Running, NEW r \in Route
               PROVE  LET v == EffectiveVerify(doc, r) IN
                      IF ~Verifies(RouteType(doc, r))
                      THEN \A f \in VerifyFields : WrittenAmong(doc, At(Own(doc, r), f)) = {}
                      ELSE \A h \in Host : LET name == Requested(doc, r, h) IN
                        \A c \in {x \in Cert : Verifier(v, name, x)} :
                          /\ OwnValue(r, "verify.mode", LAMBDA m :
                               /\ m = "full" => NameHolds(v, name, c)
                               /\ m # "none" => c.root \in WebPki \cup UNION {Anchors[f] : f \in File})
                          /\ OwnValue(r, "verify.name", LAMBDA n : n \in c.names)
                          /\ OwnValue(r, "verify.pins", LAMBDA ps : ps # {} => c.key \in ps)
                          /\ OwnValue(r, "verify.ca_file", LAMBDA f : c.root \in WebPki \cup Anchors[f])
                          /\ OwnValue(r, "verify.trust_webpki",
                                      LAMBDA t : ~t => c.root \in Anchors[v.ca_file])
    BY DEF WrittenIsEnforced
  <2>1. Accepted(doc) /\ IsProper(doc) /\ VerifyAccepted(doc, r)
    BY DEF Judged, Running, Accepted
  <2>2. CASE ~Verifies(RouteType(doc, r))
    BY <2>1, <2>2, NothingWritten
  <2>3. CASE Verifies(RouteType(doc, r))
    <3> DEFINE v == EffectiveVerify(doc, r)
    <3> SUFFICES ASSUME NEW h \in Host, NEW c \in {x \in Cert : Verifier(v, Requested(doc, r, h), x)}
                 PROVE  LET name == Requested(doc, r, h) IN
                        /\ OwnValue(r, "verify.mode", LAMBDA m :
                             /\ m = "full" => NameHolds(v, name, c)
                             /\ m # "none" => c.root \in WebPki \cup UNION {Anchors[f] : f \in File})
                        /\ OwnValue(r, "verify.name", LAMBDA n : n \in c.names)
                        /\ OwnValue(r, "verify.pins", LAMBDA ps : ps # {} => c.key \in ps)
                        /\ OwnValue(r, "verify.ca_file", LAMBDA f : c.root \in WebPki \cup Anchors[f])
                        /\ OwnValue(r, "verify.trust_webpki",
                                    LAMBDA t : ~t => c.root \in Anchors[v.ca_file])
      BY <2>3
    <3> DEFINE name == Requested(doc, r, h)
    <3> DEFINE own(f) == First(doc, At(Own(doc, r), f), Unset)
               says(f) == WrittenAmong(doc, At(Own(doc, r), f)) # {}
    <3>1. Own(doc, r) \in Seq(TierSet(doc)) /\ Outer(doc) \in Seq(TierSet(doc))
      BY <2>1, TierSequences DEF Accepted
    <3>2. v = Merge(doc, Own(doc, r), Outer(doc)) /\ Coherent(v)
      BY <2>1, <2>3 DEF EffectiveVerify, VerifyAccepted
    <3>3. /\ says("verify.mode") => v.mode = own("verify.mode")
          /\ v.name = own("verify.name")
          /\ says("verify.pins") => v.pins = own("verify.pins")
          /\ says("verify.ca_file") => v.ca_file = own("verify.ca_file")
          /\ says("verify.trust_webpki") => v.trust_webpki = own("verify.trust_webpki")
      BY <3>1, <3>2, InnerDecides DEF Merge
    <3>4. /\ says("verify.name") => v.name # Unset
          /\ says("verify.ca_file") => v.ca_file # Unset
      BY <2>1, <3>1, <3>3, ProperFirst, DeploymentAssumption DEF Proper
    <3>5. v.ca_file = Unset \/ v.ca_file \in File
      <4>1. Own(doc, r) \o Outer(doc) \in Seq(TierSet(doc))
        BY <3>1
      <4>2. v.ca_file = First(doc, At(Own(doc, r) \o Outer(doc), "verify.ca_file"), Unset)
        BY <3>2 DEF Merge
      <4> QED BY <2>1, <4>1, <4>2, ProperFirst DEF Proper
    <3>6. /\ v.pins # {} => c.key \in v.pins
          /\ v.mode # "none" => c.root \in RootsFor(v)
          /\ NameHolds(v, name, c)
      BY DEF Verifier
    <3>7. c.root \in RootsFor(v) =>
            \/ v.trust_webpki /\ c.root \in WebPki
            \/ v.ca_file # Unset /\ c.root \in Anchors[v.ca_file]
      BY DEF RootsFor
    <3>8. OwnValue(r, "verify.mode", LAMBDA m :
            /\ m = "full" => NameHolds(v, name, c)
            /\ m # "none" => c.root \in WebPki \cup UNION {Anchors[f] : f \in File})
      BY <3>3, <3>5, <3>6, <3>7 DEF OwnValue
    <3>9. OwnValue(r, "verify.name", LAMBDA n : n \in c.names)
      BY <3>2, <3>3, <3>4, <3>6 DEF OwnValue, NameHolds, Coherent
    <3>10. OwnValue(r, "verify.pins", LAMBDA ps : ps # {} => c.key \in ps)
      BY <3>3, <3>6 DEF OwnValue
    <3>11. v.ca_file # Unset => v.mode # "none"
      BY <3>2 DEF Coherent
    <3>12. OwnValue(r, "verify.ca_file", LAMBDA f : c.root \in WebPki \cup Anchors[f])
      BY <3>3, <3>4, <3>6, <3>7, <3>11 DEF OwnValue
    <3>13. OwnValue(r, "verify.trust_webpki", LAMBDA t : ~t => c.root \in Anchors[v.ca_file])
      BY <3>2, <3>3, <3>6, <3>7 DEF OwnValue, Coherent
    <3> QED BY <3>8, <3>9, <3>10, <3>12, <3>13
  <2> QED BY <2>2, <2>3
<1> QED BY <1>1, AlwaysJudged, PTL

-----------------------------------------------------------------------------
(* Two documents that say the same in one place. *)
SameAt(d, e, t, f) ==
  /\ Written(d, <<t, f>>) <=> Written(e, <<t, f>>)
  /\ Written(d, <<t, f>>) => Value(d, <<t, f>>) = Value(e, <<t, f>>)

LEMMA SameFirst ==
  ASSUME NEW d, NEW e, NEW S, NEW places \in Seq(S), NEW default,
         \A p \in S : Written(d, p) <=> Written(e, p),
         \A p \in S : Written(d, p) => Value(d, p) = Value(e, p)
  PROVE  First(d, places, default) = First(e, places, default)
<1>1. DOMAIN places \subseteq Nat /\ \A i \in DOMAIN places : places[i] \in S
  OBVIOUS
<1>2. WrittenAmong(d, places) = WrittenAmong(e, places)
  BY <1>1 DEF WrittenAmong
<1>3. \A i \in WrittenAmong(d, places) : Value(d, places[i]) = Value(e, places[i])
  BY <1>1 DEF WrittenAmong
<1>4. CASE WrittenAmong(d, places) = {}
  BY <1>2, <1>4 DEF First
<1>5. CASE WrittenAmong(d, places) # {}
  <2>1. Min(WrittenAmong(d, places)) \in WrittenAmong(d, places)
    BY <1>1, <1>5, FirstWritten
  <2> QED BY <1>2, <1>3, <1>5, <2>1 DEF First
<1> QED BY <1>4, <1>5

(* An edit changes one place, which has a table and a field. *)
LEMMA OneEdit ==
  ASSUME Write \/ Erase
  PROVE  \E place \in Place : \A t, f : t # place[1] \/ f # place[2] => SameAt(doc, doc', t, f)
<1>1. CASE Write
  <2>1. PICK place \in Place : \E value \in Edits[place] :
          place[1] \in DOMAIN doc /\ doc' = Put(doc, place, value)
    BY <1>1 DEF Write, Edited
  <2>2. PICK value \in Edits[place] : place[1] \in DOMAIN doc /\ doc' = Put(doc, place, value)
    BY <2>1
  <2>3. DOMAIN doc' = DOMAIN doc
    BY <2>2 DEF Put
  <2>4. ASSUME NEW t \in DOMAIN doc, t # place[1] PROVE doc'[t] = doc[t]
    BY <2>2, <2>4 DEF Put
  <2>5. doc'[place[1]] = [f \in DOMAIN doc[place[1]] \cup {place[2]} |->
                            IF f = place[2] THEN value ELSE doc[place[1]][f]]
    BY <2>2 DEF Put
  <2>6. ASSUME NEW t, NEW f, t # place[1] \/ f # place[2] PROVE SameAt(doc, doc', t, f)
    <3>1. CASE t # place[1]
      BY <2>3, <2>4, <3>1 DEF SameAt, Written, Value
    <3>2. CASE t = place[1] /\ f # place[2]
      BY <2>2, <2>3, <2>5, <3>2 DEF SameAt, Written, Value
    <3> QED BY <2>6, <3>1, <3>2
  <2> QED BY <2>6
<1>2. CASE Erase
  <2>1. PICK place \in Place : Written(doc, place) /\ doc' = Drop(doc, place)
    BY <1>2 DEF Erase, Edited
  <2>2. DOMAIN doc' = DOMAIN doc /\ place[1] \in DOMAIN doc
    BY <2>1 DEF Drop, Written
  <2>3. ASSUME NEW t \in DOMAIN doc, t # place[1] PROVE doc'[t] = doc[t]
    BY <2>1, <2>3 DEF Drop
  <2>4. doc'[place[1]] = [f \in DOMAIN doc[place[1]] \ {place[2]} |-> doc[place[1]][f]]
    BY <2>1, <2>2 DEF Drop
  <2>5. ASSUME NEW t, NEW f, t # place[1] \/ f # place[2] PROVE SameAt(doc, doc', t, f)
    <3>1. CASE t # place[1]
      BY <2>2, <2>3, <3>1 DEF SameAt, Written, Value
    <3>2. CASE t = place[1] /\ f # place[2]
      BY <2>2, <2>4, <3>2 DEF SameAt, Written, Value
    <3> QED BY <2>5, <3>1, <3>2
  <2> QED BY <2>5
<1> QED BY <1>1, <1>2

(* ... so that where the edit is immaterial, nothing else has changed. *)
LEMMA OnlyImmaterial ==
  ASSUME NEW r, Write \/ Erase, Changed(doc, doc') \subseteq Immaterial(doc, r),
         NEW t, NEW f, <<t, f>> \notin Immaterial(doc, r)
  PROVE  SameAt(doc, doc', t, f)
<1>1. PICK place \in Place : \A u, g : u # place[1] \/ g # place[2] => SameAt(doc, doc', u, g)
  BY OneEdit
<1>2. CASE t # place[1] \/ f # place[2]
  BY <1>1, <1>2
<1>3. CASE t = place[1] /\ f = place[2]
  <2> SUFFICES ASSUME ~SameAt(doc, doc', t, f) PROVE FALSE
    OBVIOUS
  <2>1. /\ Written(doc, place) <=> Written(doc, <<t, f>>)
        /\ Written(doc', place) <=> Written(doc', <<t, f>>)
        /\ Value(doc, place) = Value(doc, <<t, f>>) /\ Value(doc', place) = Value(doc', <<t, f>>)
    BY <1>3 DEF Written, Value
  <2>2. place \in Changed(doc, doc')
    BY <2>1 DEF Changed, SameAt
  <2>3. place \in Immaterial(doc, r)
    BY <2>2
  <2>4. place = <<place[1], place[2]>>
    <3>1. \A A, B : \A x \in A \X B : x = <<x[1], x[2]>>
      OBVIOUS
    <3> QED BY <2>3, <3>1 DEF Immaterial
  <2> QED BY <1>3, <2>3, <2>4
<1> QED BY <1>2, <1>3

LEMMA PlacesKept ==
  ASSUME NEW d, NEW e, NEW S, NEW places \in Seq(S), NEW default,
         \A p \in S : p = <<p[1], p[2]>> /\ SameAt(d, e, p[1], p[2])
  PROVE  First(d, places, default) = First(e, places, default)
<1>1. ASSUME NEW p \in S
      PROVE  (Written(d, p) <=> Written(e, p)) /\ (Written(d, p) => Value(d, p) = Value(e, p))
  BY DEF SameAt
<1> QED BY <1>1, SameFirst

LEMMA FieldKept ==
  ASSUME NEW d, NEW e, NEW T, NEW tiers \in Seq(T), NEW f, NEW default,
         \A t \in T : SameAt(d, e, t, f)
  PROVE  First(d, At(tiers, f), default) = First(e, At(tiers, f), default)
<1> DEFINE S == T \X {f}
<1>1. At(tiers, f) \in Seq(S)
  BY AtPlaces
<1>2. \A p \in S : p = <<p[1], p[2]>> /\ SameAt(d, e, p[1], p[2])
  <2>1. \A p \in S : p = <<p[1], p[2]>> /\ p[1] \in T /\ p[2] = f
    OBVIOUS
  <2> QED BY <2>1
<1> HIDE DEF S
<1> QED BY ONLY <1>1, <1>2, PlacesKept

(* A scope is read from what is material. *)
LEMMA MaterialScope ==
  ASSUME NEW d, NEW e, NEW r \in Route, TemplatesExist(d),
         \A t, f : <<t, f>> \notin Immaterial(d, r) => SameAt(d, e, t, f)
  PROVE  CertScope(e, r) = CertScope(d, r)
<1> DEFINE T == TierSet(d)
<1>1. \A t : /\ SameAt(d, e, t, "use") /\ SameAt(d, e, t, "type")
             /\ SameAt(d, e, t, "override_sni") /\ SameAt(d, e, t, "upstream")
             /\ SameAt(d, e, t, "resolver") /\ SameAt(d, e, t, "ech_resolver")
  <2>1. \A t : \A f \in {"use", "type", "override_sni", "upstream", "resolver", "ech_resolver"} :
          <<t, f>> \notin Immaterial(d, r)
    BY DEF Immaterial, KnobFields, VerifyFields, PoolOwned, EchFields
  <2> QED BY <2>1
<1>2. Own(e, r) = Own(d, r) /\ Outer(e) = Outer(d) /\ Tiers(e, r) = Tiers(d, r)
  <2>1. \A t : Used(e, t) = Used(d, t)
    BY <1>1 DEF Used, SameAt
  <2> QED BY <2>1 DEF Own, Outer, Tiers
<1>3. Own(d, r) \in Seq(T) /\ Tiers(d, r) \in Seq(T) /\ Own(d, r) \o Outer(d) \in Seq(T)
  BY TierSequences DEF Tiers
<1> HIDE DEF T
<1>4. RouteType(e, r) = RouteType(d, r) /\ Sni(e, r) = Sni(d, r)
  BY <1>1, <1>2, <1>3, FieldKept DEF RouteType, Sni
<1>5. Upstream(e, r) = Upstream(d, r)
  <2>1. First(d, At(Own(d, r), "upstream"), ReflectUpstream)
          = First(e, At(Own(d, r), "upstream"), ReflectUpstream)
    BY <1>1, <1>3, FieldKept
  <2> QED BY <1>2, <2>1 DEF Upstream
<1>6. ASSUME ~UsesPool(d, r) \/ RouteType(d, r) = "ech"
      PROVE  /\ Family(e, r) = Family(d, r) /\ Nat64Prefix(e, r) = Nat64Prefix(d, r)
             /\ AddrResolver(e, r) = AddrResolver(d, r)
  <2>1. \A t : \A f \in PoolOwned : SameAt(d, e, t, f)
    <3>1. \A t : \A f \in PoolOwned : <<t, f>> \notin Immaterial(d, r)
      BY <1>6 DEF Immaterial, KnobFields, VerifyFields, PoolOwned, EchFields
    <3> QED BY <3>1
  <2>2. \A t : /\ SameAt(d, e, t, "address_family") /\ SameAt(d, e, t, "nat64_prefix")
               /\ SameAt(d, e, t, "addr_resolver")
    BY <2>1 DEF PoolOwned
  <2>3. Family(e, r) = Family(d, r) /\ Nat64Prefix(e, r) = Nat64Prefix(d, r)
    BY <1>2, <1>3, <2>2, FieldKept DEF Family, Nat64Prefix
  <2>4. AddrResolver(e, r) = AddrResolver(d, r)
    <3> DEFINE S == T \X {"addr_resolver", "resolver"}
    <3>1. \A p \in S : p = <<p[1], p[2]>> /\ SameAt(d, e, p[1], p[2])
      <4>1. \A p \in S : p = <<p[1], p[2]>> /\ p[2] \in {"addr_resolver", "resolver"}
        OBVIOUS
      <4> QED BY <1>1, <2>2, <4>1
    <3>2. Either(Tiers(d, r), "addr_resolver", "resolver") \in Seq(S)
      BY <1>3, EitherPlaces
    <3> HIDE DEF S
    <3>3. First(d, Either(Tiers(d, r), "addr_resolver", "resolver"), NoSpec)
            = First(e, Either(Tiers(d, r), "addr_resolver", "resolver"), NoSpec)
      BY ONLY <3>1, <3>2, PlacesKept
    <3> QED BY <1>2, <3>3 DEF AddrResolver
  <2> QED BY <2>3, <2>4
<1>7. UpstreamIdentity(e, r) = UpstreamIdentity(d, r)
  BY <1>5, <1>6 DEF UpstreamIdentity, UsesPool
<1>8. EchIdentity(e, r) = EchIdentity(d, r)
  <2>1. CASE RouteType(d, r) # "ech"
    BY <1>4, <2>1 DEF EchIdentity
  <2>2. CASE RouteType(d, r) = "ech"
    <3>1. \A t : /\ SameAt(d, e, t, "ech.mode") /\ SameAt(d, e, t, "ech.config")
                 /\ SameAt(d, e, t, "ech.ech_domain") /\ SameAt(d, e, t, "ech.ech_resolver")
      <4>1. \A t : \A f \in {"ech.mode", "ech.config", "ech.ech_domain", "ech.ech_resolver"} :
              <<t, f>> \notin Immaterial(d, r)
        BY <2>2 DEF Immaterial, KnobFields, VerifyFields, PoolOwned, EchFields
      <4> QED BY <4>1
    <3>2. EffectiveEch(e, r) = EffectiveEch(d, r)
      BY <1>2, <1>3, <3>1, FieldKept DEF EffectiveEch, EchPlaces
    <3>3. EchResolver(e, r) = EchResolver(d, r)
      <4> DEFINE F == {"ech.ech_resolver", "ech_resolver", "resolver"}
                 S == T \X F
                 places == At(Tiers(d, r), "ech.ech_resolver")
                             \o Either(Tiers(d, r), "ech_resolver", "resolver")
      <4>1. \A p \in S : p = <<p[1], p[2]>> /\ SameAt(d, e, p[1], p[2])
        <5>1. \A p \in S : p = <<p[1], p[2]>> /\ p[2] \in F
          OBVIOUS
        <5> QED BY <1>1, <3>1, <5>1
      <4>2. /\ At(Tiers(d, r), "ech.ech_resolver") \in Seq(S)
            /\ Either(Tiers(d, r), "ech_resolver", "resolver") \in Seq(S)
        BY <1>3, AtPlaces, EitherPlaces
      <4> HIDE DEF F, S
      <4>3. places \in Seq(S)
        BY <4>2
      <4> HIDE DEF places
      <4>4. First(d, places, NoSpec) = First(e, places, NoSpec)
        BY ONLY <4>1, <4>3, PlacesKept
      <4> QED BY <1>2, <4>4 DEF EchResolver, EchPlaces, places
    <3>4. EchSpec(e, r) = EchSpec(d, r)
      BY <1>6, <2>2, <3>3 DEF EchSpec
    <3> QED BY <1>4, <3>2, <3>4 DEF EchIdentity
  <2> QED BY <2>1, <2>2
<1>9. EffectiveVerify(e, r) = EffectiveVerify(d, r)
  <2>1. CASE ~Verifies(RouteType(d, r))
    BY <1>4, <2>1 DEF EffectiveVerify
  <2>2. CASE Verifies(RouteType(d, r))
    <3>1. \A t : /\ SameAt(d, e, t, "verify.mode") /\ SameAt(d, e, t, "verify.name")
                 /\ SameAt(d, e, t, "verify.pins") /\ SameAt(d, e, t, "verify.ca_file")
                 /\ SameAt(d, e, t, "verify.trust_webpki")
      <4>1. \A t : \A f \in VerifyFields : <<t, f>> \notin Immaterial(d, r)
        BY <2>2 DEF Immaterial, KnobFields, VerifyFields, PoolOwned, EchFields
      <4> QED BY <4>1 DEF VerifyFields
    <3>2. Merge(e, Own(d, r), Outer(d)) = Merge(d, Own(d, r), Outer(d))
      <4> DEFINE all == Own(d, r) \o Outer(d)
      <4>4. all \in Seq(T)
        BY <1>3
      <4> HIDE DEF all
      <4>1. ASSUME NEW f \in VerifyFields, NEW default, \A t \in T : SameAt(d, e, t, f)
            PROVE  First(e, At(all, f), default) = First(d, At(all, f), default)
        BY ONLY <4>4, <4>1, FieldKept
      <4>2. First(e, At(Own(d, r), "verify.name"), Unset) = First(d, At(Own(d, r), "verify.name"), Unset)
        BY <1>3, <3>1, FieldKept
      <4>3. /\ First(e, At(all, "verify.mode"), DefaultVerify.mode)
                 = First(d, At(all, "verify.mode"), DefaultVerify.mode)
            /\ First(e, At(all, "verify.pins"), DefaultVerify.pins)
                 = First(d, At(all, "verify.pins"), DefaultVerify.pins)
            /\ First(e, At(all, "verify.ca_file"), Unset) = First(d, At(all, "verify.ca_file"), Unset)
            /\ First(e, At(all, "verify.trust_webpki"), DefaultVerify.trust_webpki)
                 = First(d, At(all, "verify.trust_webpki"), DefaultVerify.trust_webpki)
        BY <3>1, <4>1 DEF VerifyFields
      <4> QED BY <4>2, <4>3 DEF Merge, all
    <3> QED BY <1>2, <1>4, <2>2, <3>2 DEF EffectiveVerify
  <2> QED BY <2>1, <2>2
<1> QED BY <1>4, <1>5, <1>7, <1>8, <1>9 DEF CertScope, Forwarding

(* An edit that can change nothing a certificate depends on leaves every    *)
(* certificate of the route in place ("they would fragment scopes without   *)
(* buying any safety", Forwarding of src/certscope.rs).                     *)
THEOREM ImmaterialEditsKeep == Spec => ImmaterialEditsKeepScopes
<1>1. [Next]_vars =>
        [\A r \in Route :
           phase' = "down" /\ Accepted(doc) /\ Accepted(doc')
               /\ Changed(doc, doc') \subseteq Immaterial(doc, r)
             => CertScope(doc', r) = CertScope(doc, r)]_settings
  <2> SUFFICES ASSUME [Next]_vars, NEW r \in Route, phase' = "down", Accepted(doc),
                      Changed(doc, doc') \subseteq Immaterial(doc, r)
               PROVE  CertScope(doc', r) = CertScope(doc, r)
    OBVIOUS
  <2>1. CASE Write \/ Erase
    <3>1. \A t, f : <<t, f>> \notin Immaterial(doc, r) => SameAt(doc, doc', t, f)
      BY <2>1, OnlyImmaterial
    <3> QED BY <3>1, MaterialScope DEF Accepted
  <2>2. CASE ~(Write \/ Erase)
    <3>1. UNCHANGED doc
      <4>1. CASE Start \/ Run \/ Stop
        BY <4>1 DEF Start, Run, Serve, Stop
      <4>2. CASE Connect
        BY <4>2 DEF Connect, Leave
      <4>3. CASE Dial \/ Ended \/ UNCHANGED vars
        BY <4>3 DEF Dial, Ended, vars, settings
      <4> QED BY <2>2, <4>1, <4>2, <4>3 DEF Next, Settle, SettingsNext
    <3> QED BY <3>1
  <2> QED BY <2>1, <2>2
<1> QED BY <1>1, PTL DEF Spec, ImmaterialEditsKeepScopes
=============================================================================
