---------------------------- MODULE EchProvider ----------------------------
(***************************************************************************)
(* The ECH configuration cache of an `ech` route (src/ech.rs) and the      *)
(* connections that dial through it (dial_ech in src/proxy.rs), against a  *)
(* server that rotates its ECH key and a zone that publishes it later.     *)
(*                                                                         *)
(* A key stands for an ECHConfigList; the server accepts exactly its       *)
(* current one.  The provider's RwLock is held by `writer` while a config  *)
(* is fetched; every other critical section is one step.                   *)
(***************************************************************************)
EXTENDS Naturals, FiniteSets

CONSTANTS
  Conn,        \* connections, each dialling once
  Name,        \* inner names, the keys of the provider's cache
  Zone,        \* names whose HTTPS record carries ech=
  LookupName,  \* Name -> Zone: ech_domain, or the inner name itself
  Alpn,        \* ALPN offers
  Modes,       \* the [ech] source modes the route may be configured with
  MaxKey,      \* bound on key rotations: keys are 0 .. MaxKey
  MaxRetries,  \* max_retries of the route
  MaxLapses,   \* bound on how often a cached config passes its refresh_at
  NoConn,      \* the write lock is free
  NoEntry,     \* absence of a cache entry
  NoKey,       \* an HTTPS record without ech=, or GREASE in a client config
  NoRecord     \* absence from the resolver's DNS cache

Key == 0 .. MaxKey
StaticKey == 0  \* the configured `config`: the key the server started with

ASSUME EchAssumption ==
  /\ IsFiniteSet(Name) /\ LookupName \in [Name -> Zone]
  /\ Modes \subseteq {"static", "doh", "doh-with-fallback"}
  /\ MaxKey \in Nat /\ MaxRetries \in Nat /\ MaxLapses \in Nat
  /\ NoConn \notin Conn
  /\ NoKey \notin Nat /\ NoRecord \notin Nat \cup {NoKey}
  /\ NoEntry \notin [key : Key \cup {NoKey}, generation : Nat, fresh : BOOLEAN,
                     configs : SUBSET Alpn]

Cached == [key : Key \cup {NoKey}, generation : Nat, fresh : BOOLEAN, configs : SUBSET Alpn]

VARIABLES
  cfg,        \* the route: its source mode and require_ech
  serverKey,  \* Zone -> the key the client-facing server accepts
  published,  \* Zone -> what the HTTPS record carries
  dnscache,   \* Zone -> what the resolver's response cache would answer
  cache,      \* Name -> Cached, or NoEntry
  next_generation,
  writer,     \* the connection holding the write lock across its build
  dial,       \* Conn -> the state of its dial_ech
  steady,     \* history: the dials since whose start their zone has published the
              \* server's key and every lookup of it has been answered
  lapses,     \* how many times an entry has passed its refresh_at
  evictions   \* how many entries a rejection has removed

(* What dial_ech holds: its step, the retries it has made and the client   *)
(* config in hand; `since`, the lapses before it began, is history.        *)
Dial == [pc : {"idle", "client", "wait", "build", "hello", "rejected", "ok", "refused", "failed"},
         name : Name, alpn : Alpn, attempt : Nat, key : Key \cup {NoKey}, generation : Nat,
         since : Nat]

vars == <<cfg, serverKey, published, dnscache, cache, next_generation, writer, dial, steady,
          lapses, evictions>>
world == <<serverKey, published, lapses, steady>>

Init ==
  /\ cfg \in [mode : Modes, require_ech : BOOLEAN]
  /\ serverKey = [z \in Zone |-> 0]
  /\ published \in [Zone -> {0, NoKey}]
  /\ dnscache = [z \in Zone |-> NoRecord]
  /\ cache = [n \in Name |-> NoEntry]
  /\ next_generation = 1
  /\ writer = NoConn
  /\ dial \in [Conn -> {[pc |-> "idle", name |-> n, alpn |-> a, attempt |-> 0, key |-> NoKey,
                         generation |-> 0, since |-> 0] :
                          n \in Name, a \in Alpn}]
  /\ steady = {} /\ lapses = 0 /\ evictions = 0

-----------------------------------------------------------------------------
(* EchProvider::client *)

Z(c) == LookupName[dial[c].name]
Usable(n) == cache[n] # NoEntry /\ cache[n].fresh

(* The client config assembled from e, in c's hands. *)
Hold(c, e) ==
  [dial EXCEPT ![c] = [@ EXCEPT !.pc = "hello", !.key = e.key, !.generation = e.generation]]

(* config_for: assemble and memoize the config for an ALPN offer. *)
ConfigFor(e, alpn) == [e EXCEPT !.configs = @ \cup {alpn}]

Connect(c) ==
  /\ dial[c].pc = "idle"
  /\ dial' = [dial EXCEPT ![c].pc = "client", ![c].since = lapses]
  /\ steady' = IF published[Z(c)] = serverKey[Z(c)] THEN steady \cup {c} ELSE steady
  /\ UNCHANGED <<cfg, serverKey, published, lapses, dnscache, cache, next_generation, writer,
                 evictions>>

(* Under the read lock: a fresh entry that has assembled this offer. *)
FastPath(c) ==
  LET n == dial[c].name IN
  /\ dial[c].pc = "client" /\ writer = NoConn
  /\ Usable(n) /\ dial[c].alpn \in cache[n].configs
  /\ dial' = Hold(c, cache[n])
  /\ UNCHANGED <<cfg, world, dnscache, cache, next_generation, writer, evictions>>

(* A mutant: the write lock is asked for with the read lock still held. *)
SlowPathHoldingRead(c) ==
  LET n == dial[c].name IN
  /\ dial[c].pc = "client" /\ writer = NoConn
  /\ ~(Usable(n) /\ dial[c].alpn \in cache[n].configs)
  /\ dial' = [dial EXCEPT ![c].pc = "wait"]
  /\ writer' = c
  /\ UNCHANGED <<cfg, world, dnscache, cache, next_generation, evictions>>

(* The read lock is dropped before the write lock is asked for. *)
SlowPath(c) ==
  LET n == dial[c].name IN
  /\ dial[c].pc = "client" /\ writer = NoConn
  /\ ~(Usable(n) /\ dial[c].alpn \in cache[n].configs)
  /\ dial' = [dial EXCEPT ![c].pc = "wait"]
  /\ UNCHANGED <<cfg, world, dnscache, cache, next_generation, writer, evictions>>

(* Under the write lock the entry turned out to be fresh. *)
LockFresh(c) ==
  LET n == dial[c].name IN
  /\ dial[c].pc = "wait" /\ writer = NoConn
  /\ Usable(n)
  /\ cache' = [cache EXCEPT ![n] = ConfigFor(@, dial[c].alpn)]
  /\ dial' = Hold(c, cache[n])
  /\ UNCHANGED <<cfg, world, dnscache, next_generation, writer, evictions>>

(* A mutant: nothing is looked at again once the lock is held. *)
LockBuildUnchecked(c) ==
  /\ dial[c].pc = "wait" /\ writer = NoConn
  /\ writer' = c
  /\ dial' = [dial EXCEPT ![c].pc = "build"]
  /\ UNCHANGED <<cfg, world, dnscache, cache, next_generation, evictions>>

LockBuild(c) ==
  /\ dial[c].pc = "wait" /\ writer = NoConn
  /\ ~Usable(dial[c].name)
  /\ writer' = c
  /\ dial' = [dial EXCEPT ![c].pc = "build"]
  /\ UNCHANGED <<cfg, world, dnscache, cache, next_generation, evictions>>

(* lookup_doh: the resolver answers from its cache, or from the zone.  The *)
(* answers a lookup may give, each with the DNS cache it leaves; a lookup  *)
(* that misses the cache may also fail, leaving it as it was.              *)
Answered(z) ==
  IF dnscache[z] # NoRecord
  THEN [key |-> dnscache[z], cached |-> dnscache]
  ELSE [key |-> published[z], cached |-> [dnscache EXCEPT ![z] = published[z]]]
LookupMayFail(z) == dnscache[z] = NoRecord

(* acquire_config_list when the lookup gives k (NoKey when it failed in    *)
(* the fallback mode, where both mean the static config).                  *)
Acquired(k) ==
  CASE cfg.mode = "static" -> StaticKey
    [] cfg.mode = "doh" -> k
    [] cfg.mode = "doh-with-fallback" -> IF k = NoKey THEN StaticKey ELSE k

(* A mutant: rebuilding what was already held does not advance the counter. *)
FreshSameGeneration(k) ==
  [key |-> k, fresh |-> TRUE, configs |-> {},
   generation |-> IF k = NoKey THEN next_generation ELSE 1]

Fresh(k) == [key |-> k, generation |-> next_generation, fresh |-> TRUE, configs |-> {}]

(* build rejects an absent config under require_ech, and sends GREASE      *)
(* otherwise.                                                              *)
BuildAccepts(k) == k # NoKey \/ ~cfg.require_ech

(* The build returned k: it replaces the entry outright. *)
Install(c, k) ==
  LET n == dial[c].name IN
  /\ cache' = [cache EXCEPT ![n] = ConfigFor(Fresh(k), dial[c].alpn)]
  /\ dial' = Hold(c, Fresh(k))
  /\ next_generation' = next_generation + 1

(* The build failed: a cached config is kept for another while, and        *)
(* without one the dial fails.                                             *)
KeepOrFail(c) ==
  LET n == dial[c].name IN
  IF cache[n] # NoEntry
  THEN /\ cache' = [cache EXCEPT ![n] = ConfigFor([@ EXCEPT !.fresh = TRUE], dial[c].alpn)]
       /\ dial' = Hold(c, cache[n])
       /\ UNCHANGED next_generation
  ELSE /\ dial' = [dial EXCEPT ![c].pc = "failed"]
       /\ UNCHANGED <<cache, next_generation>>

Built(c, k) == IF BuildAccepts(k) THEN Install(c, k) ELSE KeepOrFail(c)

BuildStatic(c) ==
  /\ dial[c].pc = "build" /\ cfg.mode = "static"
  /\ Built(c, StaticKey)
  /\ writer' = NoConn
  /\ UNCHANGED <<cfg, world, dnscache, evictions>>

BuildAnswered(c) ==
  /\ dial[c].pc = "build" /\ cfg.mode # "static"
  /\ dnscache' = Answered(Z(c)).cached
  /\ Built(c, Acquired(Answered(Z(c)).key))
  /\ writer' = NoConn
  /\ UNCHANGED <<cfg, world, evictions>>

(* The lookup failed: the dials of the zone can no longer count on it. *)
BuildLookupFailed(c) ==
  /\ dial[c].pc = "build" /\ cfg.mode # "static" /\ LookupMayFail(Z(c))
  /\ IF cfg.mode = "doh" THEN KeepOrFail(c) ELSE Install(c, StaticKey)
  /\ steady' = {x \in steady : Z(x) # Z(c)}
  /\ writer' = NoConn
  /\ UNCHANGED <<cfg, serverKey, published, lapses, dnscache, evictions>>

-----------------------------------------------------------------------------
(* dial_ech *)

(* The handshake completes: the server took the key, or GREASE was sent    *)
(* and the route does not require more.                                    *)
Accepts(c) == dial[c].key = serverKey[Z(c)] \/ dial[c].key = NoKey

HandshakeOk(c) ==
  /\ dial[c].pc = "hello" /\ Accepts(c)
  /\ dial' = [dial EXCEPT ![c].pc = IF cfg.require_ech /\ dial[c].key = NoKey
                                    THEN "failed" ELSE "ok"]
  /\ UNCHANGED <<cfg, world, dnscache, cache, next_generation, writer, evictions>>

(* The server rejects the key: retry while retries are left. *)
HandshakeRejected(c) ==
  /\ dial[c].pc = "hello" /\ ~Accepts(c)
  /\ dial' = [dial EXCEPT ![c].pc = IF dial[c].attempt < MaxRetries THEN "rejected" ELSE "refused"]
  /\ UNCHANGED <<cfg, world, dnscache, cache, next_generation, writer, evictions>>

(* The connect or the handshake fails or times out. *)
HandshakeFails(c) ==
  /\ dial[c].pc = "hello"
  /\ dial' = [dial EXCEPT ![c].pc = "failed"]
  /\ UNCHANGED <<cfg, world, dnscache, cache, next_generation, writer, evictions>>

(* A mutant: a rejection evicts whatever the name has cached. *)
CurrentUnchecked(c) == cache[dial[c].name] # NoEntry

Current(c) ==
  LET n == dial[c].name IN cache[n] # NoEntry /\ cache[n].generation = dial[c].generation

(* A mutant: only the provider's own cache is cleared. *)
ClearedNothing(z) == [dnscache EXCEPT ![z] = @]

(* The DNS cache an eviction leaves. *)
Cleared(z) == IF cfg.mode = "static" THEN dnscache ELSE [dnscache EXCEPT ![z] = NoRecord]

(* invalidate_after_rejection, and the next iteration of the loop. *)
Invalidate(c) ==
  /\ dial[c].pc = "rejected" /\ writer = NoConn
  /\ IF Current(c)
     THEN /\ cache' = [cache EXCEPT ![dial[c].name] = NoEntry]
          /\ dnscache' = Cleared(Z(c))
          /\ evictions' = evictions + 1
     ELSE UNCHANGED <<cache, dnscache, evictions>>
  /\ dial' = [dial EXCEPT ![c].pc = "client", ![c].attempt = @ + 1]
  /\ UNCHANGED <<cfg, world, next_generation, writer>>

-----------------------------------------------------------------------------
(* The world: time, the server and the zone. *)

(* A dial of zone z stays steady while the zone publishes the server's key. *)
Resteady(z) == {x \in steady : Z(x) = z => serverKey'[z] = published'[z]}

Rotate(z) ==
  /\ serverKey[z] < MaxKey
  /\ serverKey' = [serverKey EXCEPT ![z] = @ + 1]
  /\ UNCHANGED published
  /\ steady' = Resteady(z)
  /\ UNCHANGED <<cfg, dnscache, cache, next_generation, writer, dial, lapses, evictions>>

Publish(z) ==
  \E k \in {serverKey[z], NoKey} :
    /\ published[z] # k
    /\ published' = [published EXCEPT ![z] = k]
    /\ UNCHANGED serverKey
    /\ steady' = Resteady(z)
    /\ UNCHANGED <<cfg, dnscache, cache, next_generation, writer, dial, lapses, evictions>>

(* refresh_at passes: the shorter of the record's TTL and the refresh bound. *)
Lapse(n) ==
  /\ lapses < MaxLapses
  /\ Usable(n)
  /\ cache' = [cache EXCEPT ![n].fresh = FALSE]
  /\ lapses' = lapses + 1
  /\ UNCHANGED <<cfg, serverKey, published, dnscache, next_generation, writer, dial, steady,
                 evictions>>

DnsExpire(z) ==
  /\ dnscache[z] # NoRecord
  /\ dnscache' = [dnscache EXCEPT ![z] = NoRecord]
  /\ UNCHANGED <<cfg, world, cache, next_generation, writer, dial, evictions>>

Step(c) ==
  \/ FastPath(c) \/ SlowPath(c) \/ LockFresh(c) \/ LockBuild(c)
  \/ BuildStatic(c) \/ BuildAnswered(c) \/ BuildLookupFailed(c)
  \/ HandshakeOk(c) \/ HandshakeRejected(c) \/ HandshakeFails(c)
  \/ Invalidate(c)

Next ==
  \/ \E c \in Conn : Connect(c) \/ Step(c)
  \/ \E z \in Zone : Rotate(z) \/ Publish(z) \/ DnsExpire(z)
  \/ \E n \in Name : Lapse(n)

Spec == Init /\ [][Next]_vars
(* Every dial is driven: lookups, handshakes and lock waits all return. *)
FairSpec == Spec /\ \A c \in Conn : WF_vars(Step(c))

-----------------------------------------------------------------------------
(* Every variable has its type, and the write lock is held exactly by the  *)
(* connection that is fetching.                                            *)
TypeOK ==
  /\ cfg \in [mode : Modes, require_ech : BOOLEAN]
  /\ serverKey \in [Zone -> Key]
  /\ published \in [Zone -> Key \cup {NoKey}]
  /\ dnscache \in [Zone -> Key \cup {NoKey, NoRecord}]
  /\ cache \in [Name -> Cached \cup {NoEntry}]
  /\ next_generation \in Nat \ {0}
  /\ writer \in Conn \cup {NoConn}
  /\ dial \in [Conn -> Dial]
  /\ steady \subseteq Conn /\ lapses \in Nat /\ evictions \in Nat
  /\ \A c \in Conn : dial[c].pc = "build" <=> writer = c

(* A generation names one resolved config for good: a connection that      *)
(* holds the generation its name has cached, or the one another connection *)
(* holds, holds the same config (Cached.generation in src/ech.rs).         *)
GenerationNamesConfig ==
  /\ \A c \in Conn, n \in Name :
       cache[n] # NoEntry /\ dial[c].generation = cache[n].generation
         => dial[c].key = cache[n].key /\ dial[c].name = n
  /\ \A c, d \in Conn : dial[c].generation # 0 /\ dial[c].generation = dial[d].generation
                         => dial[c].key = dial[d].key /\ dial[c].name = dial[d].name

(* However late a rejection is acted on, it never evicts a config the      *)
(* server accepts, nor a GREASE one (invalidate_after_rejection: "an old,  *)
(* slower handshake must not remove it again").                            *)
AcceptedConfigKept ==
  [][\A n \in Name : cache[n] # NoEntry /\ cache'[n] = NoEntry
                      => cache[n].key \in Key /\ cache[n].key < serverKey[LookupName[n]]]_vars

(* Connections that miss together, or offer different ALPN, share a fetch: *)
(* a name is fetched once, and again only after its entry has lapsed or    *)
(* has been evicted (EchProvider::client re-checks under the write lock).  *)
OneFetchPerLapse == next_generation - 1 <= Cardinality(Name) + lapses + evictions

(* A dial during which the zone always published the server's key and      *)
(* every lookup was answered is refused for its ECH key only if entries    *)
(* lapsed under it as often as it may retry: with the retries dial_ech has *)
(* a rotation heals itself although both caches still held the old key.    *)
DialRecovers ==
  cfg.mode = "doh" => \A c \in Conn :
    dial[c].pc = "refused" /\ c \in steady => lapses - dial[c].since >= MaxRetries

(* Every dial comes to an end: nobody waits for the write lock for ever,   *)
(* and rejections are retried a bounded number of times.                   *)
DialEnds ==
  \A c \in Conn : dial[c].pc = "client" ~> dial[c].pc \in {"ok", "refused", "failed"}

=============================================================================
