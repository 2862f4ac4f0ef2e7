# sni-gate in TLA+

A formal model of the gateway in `src/`: TLA+ modules for its components,
TLC runs over small instances, and theorems checked by TLAPS. Paths below are
relative to `src/`, so `src/proxy.rs` is `src/src/proxy.rs` in this repository.

## 1. The system

sni-gate accepts a TCP connection, peeks at its first bytes for a TLS SNI or an
HTTP `Host`, looks the name up in a routing table, and forwards the connection
as the route says: raw, to an HTTP upstream, to a TLS upstream, or to a TLS
upstream with Encrypted Client Hello. For the last three it may terminate the
client's TLS with a certificate it mints itself, mirroring the names it saw on
the upstream's certificate.

```
 accept -> classify -> route -> [inbound TLS] -> resolve/pick -> dial -> [upstream TLS/ECH] -> splice
           peek.rs    router.rs  resolver.rs     dns, pool       proxy.rs   ech.rs             proxy.rs
                                 store.rs  ^                                  |                  |
                                           +---- observed SANs (detached) ----+   transfer report -> pool
```

| component | state it keeps | operations | hard behaviour | what makes it correct |
|---|---|---|---|---|
| routing table (`router.rs`) | immutable tiers: exact, wildcard, suffix, regex, default | build, match_host, wildcard_confined, name_confined | a wildcard covers names nobody wrote down, over four tiers | routing follows the most specific pattern; confinement is sound, and exact without regexes |
| certificate scopes (`certscope.rs`, `resolver.rs` clip) | none | fingerprint, scope, clip | certificates outlive the configuration that clipped them | equal scopes make equal decisions |
| certificate issuer (`resolver.rs`) | cache with TTL, locks with an idle limit | get_or_issue, record_upstream_sans | concurrent calls, eviction, observations out of order | a handshake gets a certificate for its host alone or for what its own upstream presented, inside its scope; mirroring is not lost |
| certificate store (`store.rs`) | three files per key | load, save | crash or failed write between two files | what is loaded together belongs together |
| certificate authority (`ca.rs`) | CA key | sign a leaf | signing may fail | -- |
| public-suffix list (`suffix.rs`) | the active list | wildcard_is_mintable, replace | nested private suffixes, wildcards, exceptions | mintable exactly below the ICANN suffix |
| list refresh (`psl.rs`) | file, watcher, ticker, SIGHUP task | load, download, stage, rename, reload | crash between steps, unordered reloads | never half a list; changes take effect; starts on its own file |
| classification (`peek.rs`) | window of peeked bytes | classify | a segment may end anywhere; timeout against late bytes | a key in the window is found |
| data path (`proxy.rs`) | one connection's task | dispatch, serve_mirrored, serve_terminated, splice | the upstream handshake nests in the inbound one; half-close; idle | both sides speak one protocol; nothing is lost; silence ends |
| dial (`proxy.rs`, `dns.rs`) | one race | resolve, race_families | two connects in one budget | a reachable address in time is reached |
| ECH cache (`ech.rs`) | per-name config with generation, write lock | client, invalidate_after_rejection | late rejections, lapses, shared fetch | an accepted config is not evicted; one fetch per lapse; a rotation heals |
| named resolvers (`dns_resolvers.rs`) | live instance, generation, mutex | lookup with retry, rebuild, refresh | a rebuild looks up through other resolvers holding its mutex | one rotation costs one rebuild; no waiting circle |
| start order (`config.rs`) | DFS stack and marks | resolver_build_order | a missed or spurious cycle | order iff acyclic |
| endpoint pool (`pool.rs`, `scoring.rs`) | health, order, samples, published ranking | resolve, probe, rank, publish, resample, pick, observe | connections pick while the worker publishes; long runs | no reordering on noise; the incumbent stays; dead samples are replaced |
| h2c probes (`probe.rs`, `main.rs`) | grouped backends | group, probe, decide | verdicts in any order, shared backends | starts iff every demanded backend speaks h2c |
| configuration (`config.rs`) | the document | effective settings over five scopes, validate | every setting is inherited in its own way, and the checks and the start each resolve it for themselves | what is accepted starts; what is written is in force |
| start (`main.rs`) | none | build pools, resolvers, listeners, routes | a file or a text that fails only now | it fails for nothing acceptance should have found |
| verification (`verify.rs`) | one verifier per policy | roots, name, pins of one certificate | evidence taken under a relaxed policy is stored | a certificate rests on evidence its route accepts today |
| trust store, errors | none | -- | -- | see section 8 |

Components interact through calls within a connection's task, through the shared
issuer, ECH providers, resolvers and pool handles (mutexes, `RwLock`s, atomics,
lock-free snapshots), and through detached tasks: recorded observations, the
pool worker, the resolver refreshers, the list's ticker and watcher.

## 2. The modules

One module per component; a variable is named after the field or local it
stands for, an action after the function or branch it takes. Steps are as fine
as the code's interleaving points: a lock, a file, a shared map, an await.

| module | models | state and steps |
|---|---|---|
| `Router` | `Router` and its pure functions | operators over a table record, one field per tier; domains are sequences of labels |
| `RouterBuild` | `Router::build` | `tbl` grows pattern by pattern, in any order of the configuration |
| `Clip` | `certscope.rs`, `clip` | operators: fingerprint, scope, the names that survive clipping |
| `Issuer` | what the issuer promises | per key what has been presented and what is in force, per call what it was given; `CertMirror` implements it |
| `CertMirror` | issuer, store, recording | `cache`, `disk` (three files), `lockgen` (which mutex a key gets), one `pc` per call; every cache access, lock, file and signature is a step. Environment: evictions, upstream rotations, crashes and restarts |
| `EchProvider` | ECH cache and the retry loop of `dial_ech` | `cache`, `next_generation`, `writer` and per-connection dials. Environment: key rotations, late publication, TTLs |
| `ResolverPlan`, `ResolverOrder` | resolver references and their search | the explicit stack of Enter/Exit entries, marks, order, cycle |
| `NamedResolver` | resolvers at run time | a stack of frames per task, because rebuilds nest; the two-part swap |
| `Peek` | `classify`, `peek_at_least`, both parsers | bytes arrive in any segments; a stream is the list of offsets the parsers look at |
| `Connection` | `dispatch` and `serve_*` up to the splice | `serving` walks through the handshakes; names are told apart by where they come from |
| `Splice` | `splice`, `pump`, `idle_guard`, `Report` | bytes are counted per direction; `permit` is the stored notification |
| `Pipe` | what a splice promises | two independent, reliable streams of bytes and one report; `Splice` implements it |
| `DataPath` | a whole connection | composes `Peek`, `Connection` and `Splice` with INSTANCE |
| `Dial` | `dial`, `race_families`, family and NAT64 selection | time is counted; each address connects or fails at some instant |
| `Pool` | the pool's worker, picks and observations | the worker's cycle is resolve, probe one by one, settle, sleep |
| `Suffix`, `PslRefresh` | list algorithm; its refresh | rules as label sequences; file, temporary file, reload tasks |
| `Probe`, `Startup` | h2c probes; the start of the process | `Startup` composes `ResolverOrder`, `RouterBuild` and `Probe` |
| `Settings` | inheritance in `config.rs` | a document maps tables to the fields written in them; operators give the value in force for a route, resolver or pool |
| `Validate` | the checks of `Config::validate` | operators over a document |
| `Deployment` | edits, starts and stops of a gateway over one store; `build_route`, verifiers, `CertScope` | `doc`, `phase`, `store`; a write, an erasure, a start with files missing, a certificate served, a stop |
| `Lifecycle` | a deployment, and a dial under its settings | composes `Deployment` and `Dial` |

In `DataPath`, `Startup` and `Lifecycle` a phase begins with what the phase before returned,
and the variables of the finished phase are set back (`Forget`): in the code
they are locals of a function that has returned. A phase therefore cannot
depend on anything its predecessor did not hand over, and the state space is a
sum instead of a product.

Data are abstracted to what the properties tell apart: a digest is an injective
function, an `ECHConfigList` a number, a score a number from a small set that a
measurement may move anywhere, a ClientHello its offsets. Floating-point
smoothing, wording, logging and metrics are left out.

## 3. The runs

Ten runs must finish without an error; two show a disagreement (section 7).

| run | instance | shows |
|---|---|---|
| `mirror` | one key, two calls, one rotation, one clean restart, evictions | `ObservationDescribesCertificate`, `MirrorNotDowngraded`, and `MirrorsEventually`: again and again the cached certificate mirrors the upstream |
| `mirror_faults` | the same, with a crash anywhere, any write failing and a lock entry evicted in use | `ServedIsConfined`, and `ImplementsIssuer`: `CertMirror` refines `Issuer` |
| `mirror_repointed` | a restart that only changes where one route forwards | violates `ServedIsConfined` |
| `ech` | two connections, two ALPN offers, one name, all source modes | `GenerationNamesConfig`, `AcceptedConfigKept`, `OneFetchPerLapse`, `DialRecovers`, `DialEnds` |
| `startup` | every graph over three resolvers with two references each; every table of at most three patterns over two routes, among three domains, three declared regexes, an undeclared and an inline one; then two routes over two backends, every pair of replies | `AnswerIsRight` for the search; `RoutingFollowsConfiguration`: the order in which patterns are listed, which the fingerprint forgets, does not matter; `WildcardConfinedSound` for every scope; `StartsIffDemandsMet` |
| `named_resolver` | two resolvers, up to two lookups and both refreshers, four systems over the ECH modes, a failing lookup or a withdrawn record | `SeenImpliesSnapshot`: the instance an attempt runs on is never older than the generation it recorded. `RebuildReplacesRejected`: a rebuild replaces the instance that was rejected, not a later one |
| `named_live` | an ECH resolver that is reached, and gets its config, through another one; the table in which the other needs it in turn is refused | `LookupsEnd`, `Converges` |
| `datapath` | eight streams, every route type and option, every ALPN offer, every outcome of the network, two bytes each way | `KeyInWindowIsFound`, `ProtocolsAgree`, `PassedOnWhole`, `RecordedWasAsked`, `CutOnlyWhenIdle`, `Reaped`; and `ImplementsPipe`: the transfer refines `Pipe` |
| `pool` | seven pools: literals through two views; a domain with rotating records; a sampled network beside a literal in it; a network in which one address answers; a literal that NAT64 projects, which one view leaves out; a sampled network that NAT64 projects; two sampled networks that overlap each other and an expanded one | `SettledRanking`, `MemoryBounded` (samples, backoff, parked history), `NoSwapOnNoise`, `IncumbentKept`, `SpaceIsExplored` |
| `psl` | lists of at most three of eight rules; each option; a crash, a SIGHUP, two changes | `MintableExact`, `ChangesTakeEffect`, `StartsOnItsOwnFile`, `StaleIsRefreshed` |
| `policy` | four documents of different kinds, two routes, a template, a pool and a resolver; any two of some thirty edits and erasures, a start with any files missing, one stored certificate, restarts; then a dial of every name under the family and prefix in force | `WrittenIsEnforced`, `EvidenceHeldToPolicy`, `ScopeIsDestination`, `AcceptedStarts`, `ImmaterialEditsKeepScopes`; `RaceIsWon` for the dial |
| `ladder` | the same | violates `NearestScopeWins` |

Each property has a mutant in `PROJECT.json`: a plausible bug in a mapped
definition under which TLC finds the property violated.

Every module states its type invariant. For `RouterBuild`, `CertMirror`,
`EchProvider`, `Splice`, `NamedResolver`, `PslRefresh` and `Pool` it is proved,
and for what `DataPath`, `Startup` and `Lifecycle` compose it is part of the
invariants of section 4.

### Bounds, and why they are enough

* *Two of everything that competes.* Two calls of the issuer, two connections of
  an ECH name, two lookups beside two refreshers: each race in the code is
  between one writer and one other party, and a third would meet the same
  intermediate states. The theorems about `CertMirror`, `EchProvider` and
  `NamedResolver` remove this bound for safety.
* *One of each fault*: one crash, one restart, one eviction of a lock in use,
  one rotation. The properties compare a state with one change of the world;
  `MirrorsEventually` needs the changes to stop.
* *Labels* in `startup`: one more than the patterns mention, so that the
  generic host of the confinement argument exists. Two levels below the suffix
  are enough to tell the wildcard tier (one label) from the suffix tier.
* *Offsets* in `datapath`: the real extension block starts at byte 49 or later;
  everything before it reads the same, so the instance shifts the offsets down.
  `MaxPeek` = 20 is smaller than the largest stream, so the cap of the window is
  reached.
* *Bytes and time* in `Splice`: two bytes each way fill both the pump's buffer
  and a receiver that accepts one byte ahead, and are enough for a byte to be in
  flight when an EOF follows it; the idle limit is two ticks, so that one can be
  short of it.
* *Scores* in `pool`: 14, 17 and 20. 20 and 17 are within the margin of each
  other, 17 and 14 are, 20 and 14 are not: ranking with hysteresis
  is not transitive, and this is the smallest such triple.
* `MaxLapses`, `MaxRetries` (`ech`) and `retries` (`named_resolver`): one lapse
  suffices to interleave with a retry; `DialRecovers` states its bound in terms
  of both.
* `named_live` switches off the deadlock check: two tasks waiting for each other
  are what `LookupsEnd` is about.
* `MaxEdits` = 2 (`policy`): a policy problem takes the edit that relaxes
  something and the one that tightens it, with a start and a certificate between
  them; disagreements between two inherited settings take two writes. Some
  bases already contain one of the two.
* `MaxStored` = 1: the properties of the store speak of one certificate at a
  time, and nothing in the code compares two.
* Certificates (`policy`): four, which differ in their key, in their root (of
  the web PKI, of the private CA, of none) and in the name they are for. The
  private anchors are disjoint from the web PKI's, or `trust_webpki = false`
  would be unobservable.
* `Delay` 1, `Budget` 3, `Longest` 4 (the dial): an attempt may end before, at
  and after the head start and the budget.
* Two identities for key pairs (`mirror`, `mirror_faults`): a fresh pair is told
  apart from the stored one, no step depends on more.

`mirror_faults` identifies the two calls by symmetry, which is sound there: no
liveness is checked, and no definition tells the calls apart.

### Fairness, and why the code justifies it

| module | assumed | because |
|---|---|---|
| `CertMirror` | WF of each call's steps | blocking-pool threads run; no step waits for another call while holding the lock |
| | SF of LockRecord | a `std` mutex that keeps being released is eventually acquired |
| | SF of SignRecord, Observe | the CA does not fail for ever; clients keep connecting |
| `EchProvider` | WF of each connection's steps | lookups and handshakes have timeouts; tokio's lock is fair |
| `NamedResolver` | WF of each task's steps, SF of taking the mutex | tokio's `Mutex` is FIFO; lookups time out |
| | SF of Tick, WF of Publish and Expire | the refresher sleeps for a bounded time, zones publish, TTLs run out |
| `Pool` | the worker goes on, and an address that is a candidate in cycle after cycle is probed again and again | next_due bounds the sleep by the interval |
| `Splice` | WF of the pumps, the guard, the timer and the end | the task is polled; **the peers are granted nothing** |
| `PslRefresh` | WF of the start, the ticker, the watcher and the swap; SF of download, staging and rename | the last three may fail, not for ever. The watcher is assumed to follow the *path*; on Linux a watch follows the file, which the source does not show |

No fairness is assumed of clients, upstreams or operators except where a
property asks what happens if they keep coming.

## 4. What is proved

TLAPS checks these for every value of the constants (`*Proofs.tla`). Each safety
property is proved along one line: an inductive invariant that TLC checked on
the instance first, one lemma per action that disturbs it, and the property as a
consequence. What follows says, per module, what is shown and why the property
alone would not have been inductive.

### The table and the start (`CertMirrorProofs`, `StartupProofs`)

The first of these is about `Router` alone and is proved in `CertMirrorProofs`,
which extends `Router` through the issuer; `StartupProofs` takes it from there
with an INSTANCE that maps the table to the one under construction.

* **`ConfinementSound`**. If `wildcard_confined` accepts `*.P` for a scope, every
  host one label below `P` is routed into the scope: for every table whose
  regexes match only within their declared `scope_suffix`. The host is either
  named somewhere or generic; a named one is met by the sweep over named hosts,
  a generic one is decided by the wildcard entry of `P`, the suffix walk from
  `P`, a regex whose scope overlaps `*.P`, or the default, and the test asks
  about each. `WalkShift` relates the walk that starts at the host to the one
  that starts at its parent.
* **`BuildTypeCorrect`, `BuildConfinementSound`, `ConfinedAtStart`**. The table
  `Router::build` produces is well formed, for any number of routes and
  patterns, so `ConfinementSound` applies to it; the other stages of a start
  leave it alone.
* **`BuildFollowsConfiguration`, `RoutedAsConfigured`**. In whatever order the
  patterns come, the finished table sends a host to the route of its most
  specific pattern. The invariant `Faithful` says that until a pattern is
  rejected the table holds what was declared and nothing else, and the regexes
  in the order of their routes; "most specific" is then read off the four tiers.
* **`OrderAnswersRight`**. The search of `ResolverOrder` refuses exactly the
  cyclic tables, with a path that really is a cycle, and otherwise orders every
  resolver after those it references. The invariant `Searching` describes the
  explicit stack: what an open resolver refers to is ordered or above it on the
  stack, the path of an entry leads through every open resolver below it, and no
  resolver is forgotten. That a refused table has no ranking is a descent along
  the cycle (`RefusedIsCyclic`).
* **`StartsOnDemandsMet`**. The gateway starts exactly when every backend that
  some route requires to speak h2c does. `Probing` says of each backend, group by
  group, what its probe has seen and what its task still has to do, and that the
  start is aborted only over a recorded failure.

### The issuer (`CertMirrorProofs`)

* **`FingerprintDeterminesRouting`, `ClipConfined`**. Equal fingerprints route
  every host alike; what `clip` keeps is routed into the owner's scope.
* **`MirrorTypeCorrect`, `MirrorConfined`**. `ServedIsConfined` is an invariant
  for any number of calls, listeners, crashes, failed writes and evictions, *if*
  `ForwardingDetermined`: equal fingerprints imply equal forwarding, the
  assumption whose failure `mirror_repointed` shows. `ServedIsConfined` is not
  inductive: a served certificate may come from the cache or the disk, where
  another listener, or an earlier life under another configuration, put it. The
  inductive invariant is `IInv == TypeOK /\ TaskInv /\ SafeEverywhere`: whatever
  is cached, stored or in the hands of a call is safe under *every*
  configuration whose scope has that key, and a call that holds a certificate
  knows its key. `SameScope` is what makes a name clipped under one
  configuration safe under the others.
* **`MirrorImplementsIssuer`**. `CertMirror` implements `Issuer`, with no
  assumption about forwarding. The mapping takes what is in force for a key to
  be its cache entry, and what a call was given to be the certificate in its
  hands. The invariant says that every certificate in the cache, on the disk and
  in a call's hands, and every observation beside one or on its way, was
  promised: names for the host alone, or a clipping of what the key's own
  upstream presented. The certificate and the observation of one entry need not
  be about the same presentation, as three files are written one by one;
  `Issuer` says so too.
* **`MirrorsNotDowngraded`**. `MirrorNotDowngraded` holds if `LocksHold`: no lock
  entry is evicted while its mutex is held. `Exclusive`: one call at a time works
  on a key, and a call that works to serve found the entry empty and finds it so
  still. Crashes and failed writes do not matter here.
* **`ObservationsDescribe`**. `ObservationDescribesCertificate` holds if
  `LocksHold`, `SavesFinish` (no crash or failed write between the files of one
  save) and `ForwardingDetermined`. `DescribedEverywhere`: the files of a key
  disagree only while a call holds its lock. `SameClip` is that `clip` reads the
  table through its fingerprint alone. Section 7 has what happens without each
  of the hypotheses.

### Resolvers and ECH (`NamedResolverProofs`, `EchProviderProofs`)

* **`NamedTypeCorrect`, `SnapshotsAreCurrent`, `RejectedIsReplaced`**. The
  invariant `NInv`: only the innermost frame of a task moves and the others wait
  inside a rebuild; a task rebuilds a resolver once at a time, and the mutex says
  which task does; the instances of a resolver are as many as its generation,
  except between the two writes of `swap`; and a frame that recorded a generation
  holds an instance at least as new.
* **`EchTypeCorrect`, `GenerationsNameConfigs`, `AcceptedConfigsKept`**. A
  generation names one config for good, and no rejection evicts a config the
  server accepts, however late it is acted on. The invariant adds that no
  generation in use is still to be handed out, that a rejected config is older
  than the server's key, and that nothing published, cached or held is ahead of
  the server.
* **`DialsRecover`**. A dial beside a zone that is up to date is refused only if
  entries lapsed under it as often as it may retry. `RInv` adds to the invariant
  above what a steady dial may still find in either cache, retry by retry.
* **`FetchesShared`**. Connections that miss together share one fetch
  (`OneFetchPerLapse`). `FetchesCounted`: every fetch beyond the names usable now
  was paid for by a lapse or an eviction. It rests on the finiteness of the set
  of names.

### The data path (`DataPathProofs`)

* **`SpliceImplementsPipe`, `IdleMeansIdle`**, and for the whole connection
  **`ConnectionImplementsPipe`, `ConnectionIdleMeansIdle`**. For every capacity,
  idle limit and amount of data the pumps implement `Pipe`: what is delivered is
  a prefix of what was sent, an end is only passed on after the last byte, a
  transfer ends well only with both streams complete, and the report is what was
  delivered. The invariant ties each pump's counters (taken, written, what sits
  in the buffer) to the two sockets, and its end to the end of the stream. For
  the guard it dates the last byte: a stored notification is a byte the guard has
  not yet heard of. A connection's steps are steps of the splice or leave it
  alone.
* **`KeysAreFound`**. A key wholly inside the window that was parsed is found,
  however the bytes are cut into segments: in `Classifying`, what has been parsed
  and not decided holds no key.
* **`StreamsPassedOnWhole`, `ProtocolsAlwaysAgree`, `RecordedNamesWereAsked`**. A
  connection that is passed on raw had nothing read off it; the two sides of a
  spliced TLS connection speak one protocol, each one it was offered, in both
  orders of the two handshakes; coverage is recorded for a name the upstream was
  asked about and told of. `Serving` says, for each point of `serve_*`, which of
  the handshakes is over and what it may have offered.

### The configuration over its life (`LifecycleProofs`)

* **`EvidenceIsHeld`**. `EvidenceHeldToPolicy` is an invariant for every
  document, any edits and restarts, and any store. The policy of a route is a
  function of its scope (`PolicyOfScope`: the rendering can be read back), so
  what a scope demands of a certificate (`DemandOfScope`) does not depend on
  the document it was derived from, and the inductive invariant is that every
  stored certificate meets the demand of the scope it is stored under. It needs
  the hypothesis `NoMarkers`: no setting of a route is spelled like the marker its
  absence is rendered by, such as a `ca_file` named `-` (section 7).
* **`ScopesAreDestinations`**. `ScopeIsDestination` likewise: `ScopeDestination`
  recovers from a scope where its connections go, under the same hypothesis: here
  it is a host named `reflect`, or an `ech_domain` of `-`, that it excludes.
* **`AcceptedDocumentsStart`, `WrittenHolds`**. A document that `validate` accepts
  starts, unless a file it names cannot be read or a text nobody parsed before is
  malformed; and every certificate a route accepts satisfies the `[verify]`
  settings the route or its template writes. Both compare chains of optional
  settings over the tables; `Judged` says that what runs was accepted, and that
  what failed to start could not be built from the files there.
* **`ImmaterialEditsKeep`**. An edit outside what a scope renders (`MaterialScope`)
  leaves every scope as it is: an action property, proved of each edit.
* **`RacesAreWon`**. No error or silence of one family hides a working other one,
  and the second carries the connection only after the head start of the first.
  `FairRace` dates each attempt and says which failures have been seen.

### The endpoint pool (`PoolProofs`)

The order is computed by filters, a sort of the newcomers and an insertion pass,
which `Pool` writes as recursive functions over the length of a sequence. The
library's induction theorems take an operator as a parameter, so the proofs do
without: a recursive function exists because some table of its values does
(`Steps`), and what it computes of a prefix is carried from one length to the
next by a least counterexample (`Upwards`). `OnlyFacts`, `PlaceFacts`,
`InsertedFacts` and `BestFirstFacts` are stated in terms of `Ahead`, which entry
comes before which: the filter puts nothing ahead of anything, and the pass puts
an entry ahead only of what it beats.

* **`PoolTypeCorrect`**. Every variable has its type, and no address is both live
  and remembered. The inductive invariant is `Shape`: also, the order repeats
  nothing, and while probes are out the candidates are those of the state
  (`Working`), so that an answer always finds the entry it is folded into.
* **`RankingsSettle`**. `SettledRanking` for any pools, however many addresses and
  views. It is not inductive: a measurement publishes again over the order of the
  last recomputation, so the invariant says that between two cycles that order
  holds exactly what is ranked (`Settled`). A measurement moves a score and never
  what is ranked (`SameRanked`).
* **`NoSwaps`, `IncumbentsKept`**. Both action properties, for orders of any
  length and whatever is published. That the order never repeats an entry follows
  from the first: an entry would have to beat itself.
* **`QuietOrderRests`**, which no run checks: while the same addresses are ranked
  and none beats another by the margin, the order stays as it is. Two orders of
  the same entries that agree on what is ahead of what are equal (`SameOrder`).
* **`MemoryStaysBounded`**. `MemoryBounded`, of any pools. It bounds three things:
  the addresses of a sampled network that NAT64 does not project, the parked
  history, and the delays. A replacement takes the place of a candidate that was
  an address of its network: without a projection an address has one candidate
  per target, so what is drawn is at most as much as what was retired
  (`Replaced`). A remembered delay comes back with its address, hence
  `ParkedDelays`. It does not say that nothing grows: a projected sample and the
  set of retired addresses do (section 7).

### The public-suffix list (`PslRefreshProofs`)

* **`RefreshTypeCorrect`, `StartsOnDownloads`**. The path never holds half a list,
  and the gateway never fails to start over a file it downloaded itself, in this
  life or an earlier one. The invariant follows a download: it has rules from the
  moment it is accepted, and the staging file is that download when it is
  renamed.
* **`SeenChangesTakeEffect`**. `ChangesTakeEffect` for any number of versions,
  crashes and signals. `SeenIsPassedOn`: the last file the watcher saw arrive is
  announced, or read, or in effect, until a SIGHUP reload that read an older one
  swaps last (`Overtaken`).
* **`BoundariesExact`**. `MintableExact` for every list and every name, if every
  list published is `WellFormed`: no rule twice, exceptions in the ICANN section
  and not nested, no private rule about a top-level name or about a suffix an
  ICANN wildcard makes. `assets/public_suffix_list.dat`, with 10248 rules, is so.
  `OneBest` and `BestExists` are why the prevailing rule is well defined;
  `BoundaryIsIcann` is why walking down from a private suffix ends at the ICANN
  one.

Assumptions used: the ASSUMEs of the modules, evaluated by TLC on the instances:
route numbers are naturals, the null values differ from the values they stand
beside, mintable domains are domains, names and rules are made of labels, the
values of settings have the type of their field, the web PKI has a root.

## 5. What is only model-checked

* Liveness (`MirrorsEventually`, `DialEnds`, `LookupsEnd`, `Converges`,
  `SpaceIsExplored`, `Reaped`, `StaleIsRefreshed`): TLAPS does not reason about
  ENABLED, so properties under fairness stay with TLC.
* The two disagreements of section 7, which are counterexamples.

## 6. The hazards

`PROJECT.json` lists, at its line, what in this code is hard to test, with the
properties that would catch it going wrong. The clusters:

* the issuer: three files and a crash, a lock that can be evicted while held,
  detached observations, certificates that outlive their configuration;
* ECH and resolvers: rejections acted on late, two-part swaps, rebuilds that
  nest under a mutex, stale DNS caches between a rejection and its retry;
* classification: a segment may end inside any field;
* the data path: the order of the two handshakes, a fail policy applied after
  bytes were read, half-close against idle, reports on every exit;
* the configuration: a setting is written in one table and takes effect, or does
  not, through another; certificates outlive the policy they were issued under;
* the pool: hysteresis is not transitive, samples are replaced for as long as
  the process lives, picks interleave with publication;
* the list refresh: three unordered writers of one list, a crash between write
  and rename.

## 7. Divergences between code and text

`mirror_repointed` is a checked counterexample. A certificate scope is the
fingerprint of the patterns plus the forwarding of the *owning* route
(`certscope.rs:237`), while the set of routes sharing the scope also depends on
where the others forward. Restart with the same patterns and one route
re-pointed, and a wildcard certificate persisted for its sibling is loaded
without being clipped again, covering a host now routed elsewhere.
`certscope.rs:228` says a certificate proven safe under one table is safe under
any with an equal fingerprint.

`ladder` is another. `README.md:435` and `config.rs:2799` say that a setting
resolves from the most specific scope outward, with each scope's ECH block
deepest; `effective` (`config.rs:2879`) first merges the ECH blocks of all
scopes, and only then looks at the plain settings, so `[global.ech]` beats what
a route writes itself.

Others were met while modelling. The models have the code's behaviour, and the
checked properties are stated so as to hold of it:

| code | text | what happens |
|---|---|---|
| `store.rs:201` | `store.rs:196` | a crash, or a failed write, before the third file leaves the new certificate beside the old observation |
| `store.rs:193` | `store.rs:173` | a crash between certificate and key leaves a pair that loads and does not match |
| `resolver.rs:124` | `resolver.rs:538` | a lock entry evicted while held lets a second call overwrite the mirrored certificate with an exact one |
| `proxy.rs:892` | `proxy.rs:890` | the retry after a rejection may get the rejected key again, from the DNS cache, under a new generation; the one after it does not |
| `dns_resolvers.rs:461` | `dns_resolvers.rs:435` | a resolver's rebuild does not clear the response cache it asks |
| `peek.rs:142` | `peek.rs:57` | the peek after the timeout has no deadline of its own, for a client that sends nothing |
| `peek.rs:245` | `peek.rs:161` | a window that ends between extensions, or before the block, reads as "no SNI" |
| `peek.rs:339`, `:327` | `peek.rs:31`, `:307` | a window that ends inside the Host line or the method reads a cut name, or no HTTP |
| `proxy.rs:1009` | `config.rs:1823` | "in each direction": either direction's bytes keep both open |
| `proxy.rs:351` | the comment above it | "honor the route's fail policy": the error is returned; no policy applies once a route has begun to be served |
| `pool.rs:1828` | `README.md:707` | the head may be beaten by the margin by a candidate two places behind it |
| `pool.rs:1361` | `README.md:754` | an address retired from a sampled network is also missing from an expanded one |
| `pool.rs:1633` | `pool.rs:1693` | behind NAT64 a dead synthesized address draws a further IPv4 address and stays; `MemoryBounded` leaves such networks out, and the `pool` run, which has one, violates the bound without that exception |
| `pool.rs:1666` | `pool.rs:1693` | a retired address is remembered for the life of the process: the list of replacements keeps no history, `resampled` does |
| `pool.rs:1618` | `pool.rs:1615` | "the sample space is eventually explored": an address another target has in the pool is never drawn, so a view of the sampled network alone may be left without the one that answers; `SpaceIsExplored` leaves out a network whose steady addresses are all shared |
| `suffix.rs:92` | `suffix.rs:78` | under a wildcard rule such as `*.kobe.jp`, `*.kobe.jp` itself is mintable |
| `suffix.rs:68` | `suffix.rs:62` | the sanity check passes under the implicit rule, so a truncated list takes effect |
| `psl.rs:243` | `psl.rs:32` | the ticker refreshes a stale file and never writes a missing one |
| `certscope.rs:306` | `certscope.rs:187` | an upstream whose host is literally `reflect` is rendered like one that reflects: two destinations, one scope |
| `config.rs:650` | `config.rs:630` | a `ca_file` literally named `-` (accepted, `config.rs:784`) is rendered like no `ca_file`: what the anchors in that file proved is found under the scope of a route that trusts the web PKI alone. With such a file among its edits, the `policy` run violates `EvidenceHeldToPolicy` |
| `certscope.rs:326` | `certscope.rs:187` | an `ech_domain` of `-`, which nothing checks, is rendered like none |
| `certscope.rs:325` | `certscope.rs:187` | of an inline ECH config only its presence is rendered: routes with different ones share a scope |
| `config.rs:633` | `verify.rs:60` | a `ca_file` is rendered by its path: certificates that rest on its old contents keep their scope |
| `config.rs:2695` | `config.rs:735` | a `name` in the `[verify]` of a listener's own template is neither in force nor refused |
| `psl.rs:319` | `config.rs:1976` | a SIGHUP reload beside a watcher reload may leave the older of two reads in effect; `ChangesTakeEffect` excepts exactly that, and the `psl` run violates it without the exception |

## 8. What is not modelled

* **X.509** (`verify.rs`): building a chain and checking signatures and dates is
  webpki's. A certificate is its key, the root it chains to, and its names.
* **The syntax of single settings** (`config.rs`): durations, sizes, addresses,
  pins, paths; a text is well formed or not. The `[ca]`, `[log]` and `[psl]`
  tables have nothing to inherit or to disagree with.
* **Scoring** (`scoring.rs`): floating-point smoothing. A score moves freely, so
  what is checked of rankings holds for any smoothing.
* **NAT64 arithmetic** (`nat64.rs`): an injective map.
* **CA creation, the system trust store, X.509 fields, errors**: construction
  and I/O without a protocol.
* **Byte-level parsing**, host-name encoding in file names, case and dot
  normalisation, HTTP/2 framing beyond "a SETTINGS frame comes first".
* **The accept loop and shutdown**: a task per connection is spawned, and tasks
  are dropped.
* **hickory, rustls, moka, tokio, notify**: modelled from how `src/` uses them,
  and marked external in the map.

## 9. Order, and what is left

The order was: what decides who gets a certificate for what (`Router`, `Clip`,
`CertMirror`), the caches that heal under rotation (`EchProvider`,
`NamedResolver`), the data path, the pool and the start; then the configuration
over its life (`Settings`, `Validate`, `Deployment`, `Lifecycle`), the abstract
specifications `Issuer` and `Pipe`, and the proofs that they are implemented.
Worth doing next:

1. Models: the data path composed with `Dial` and `EchProvider`; the list swap
   composed with the issuer; edited routing tables in `Deployment`.
2. Proofs: type correctness of the compositions as theorems of their own.
