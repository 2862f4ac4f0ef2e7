----------------------------- MODULE CertMirror -----------------------------
(***************************************************************************)
(* The certificate issuer: the in-memory cache, the per-key locks and the  *)
(* on-disk store shared by all listeners (src/resolver.rs, src/store.rs),  *)
(* and the observations the data path feeds it (src/proxy.rs).             *)
(*                                                                         *)
(* A task is one call of get_or_issue (op "serve", inside an inbound       *)
(* handshake) or of record_upstream_sans (op "record", detached on the     *)
(* blocking pool).  Tasks interleave at every access to the cache, a lock  *)
(* or a file; a crash may fall between any two of them.                    *)
(***************************************************************************)
EXTENDS Clip, FiniteSets

CONSTANTS
  Listener,     \* the listeners sharing one issuer
  Configs,      \* the configurations the process may be started with
  Host,         \* the SNI names clients ask for
  Names,        \* the names on which coverage is checked
  Observation,  \* the DNS SAN sets upstream certificates may carry
  Reflecting,   \* the targets asked for the inbound name (SniPolicy::Reflect)
  Task,         \* concurrent calls into the issuer
  Serial,       \* identities of issued key pairs
  NoCert,       \* absence of a cache entry or of a certificate
  NoObs,        \* "never observed": Rust's None for an observation
  MaxRestarts,  \* bound on process restarts
  MaxRotations, \* bound on upstream certificate changes
  CrashAnywhere, \* TRUE: a crash may interrupt a save; FALSE: only between saves
  WritesFail,    \* TRUE: a file write may fail
  MaxExpiries    \* how often a lock entry in use may be evicted, less the restarts

Conf == UNION {{c[l] : l \in Listener} : c \in Configs}

ASSUME MirrorAssumption ==
  /\ \A c \in Configs : c = [l \in Listener |-> c[l]]
  /\ \A c \in Conf : IsConf(c)
  /\ Host \subseteq Names /\ Names \subseteq Domain
  /\ Observation \subseteq SUBSET SAN
  /\ Serial \subseteq Nat
  /\ NoObs \notin Observation /\ NoCert \notin Nat
  /\ NoCert \notin [cert : [sans : SUBSET SAN, serial : Serial, key : Serial],
                    obs : Observation \cup {NoObs}]
  /\ NoCert \notin [sans : SUBSET SAN, serial : Serial]
  /\ NoCert \notin [names : SUBSET SAN, basis : Observation \cup {NoObs}]
  /\ MaxRestarts \in Nat /\ MaxRotations \in Nat
  /\ {CrashAnywhere, WritesFail} \subseteq BOOLEAN /\ MaxExpiries \in Nat

(* The cache key: a certificate scope and the exact host within it. *)
Key == {[scope |-> CertScope(c, id), host |-> h] : c \in Conf, id \in RouteId, h \in Host}

(* An issued certificate: its names, the key pair it was signed for, and   *)
(* the private key it is served with.                                      *)
Cert == [sans : SUBSET SAN, serial : Serial, key : Serial]
Obs == Observation \cup {NoObs}
CachedCert == [cert : Cert, obs : Obs]

VARIABLES
  conf,      \* the running configuration: Listener -> configuration
  upstream,  \* the SANs each reflecting target presents for each host
  presented, \* history: all those it has ever presented
  cache,     \* Key -> CachedCert, or NoCert
  disk,      \* Key -> the .crt, .key and .observed files
  lockgen,   \* Key -> which lock object `locks` hands out for the key
  pc,        \* Task -> where the call stands
  job,       \* Task -> what the call is about
  cert,      \* Task -> the certificate it is issuing or has returned
  restarts, rotations

vars == <<conf, upstream, presented, cache, disk, lockgen, pc, job, cert, restarts, rotations>>

Job == [op : {"serve", "record"}, lst : Listener, key : Key, obs : Obs, gen : Nat]
NoJob == [op |-> "none"]

EmptyFiles == [crt |-> NoCert, key |-> NoCert, obs |-> NoObs]

(* The route and the cache key of a host on a listener. *)
Owner(l, h) == MatchHost(conf[l].table, h)
KeyOf(l, h) == [scope |-> CertScope(conf[l], Owner(l, h)), host |-> h]
Routed(l, h) == Owner(l, h) # NoRoute /\ Owner(l, h) \notin conf[l].pinned

Init ==
  /\ conf \in Configs
  /\ upstream \in [Reflecting -> [Host -> Observation]]
  /\ presented = [tgt \in Reflecting |-> [h \in Host |-> {upstream[tgt][h]}]]
  /\ cache = [k \in Key |-> NoCert]
  /\ disk = [k \in Key |-> EmptyFiles]
  /\ lockgen = [k \in Key |-> 0]
  /\ pc = [t \in Task |-> "idle"]
  /\ job = [t \in Task |-> NoJob]
  /\ cert = [t \in Task |-> NoCert]
  /\ restarts = 0 /\ rotations = 0

----------------------------------------------------------------------------
Environment == <<conf, upstream, presented, restarts, rotations>>

Idle(t) == /\ pc' = [pc EXCEPT ![t] = "idle"]
           /\ job' = [job EXCEPT ![t] = NoJob]
           /\ cert' = [cert EXCEPT ![t] = NoCert]
Return(t, crt) == /\ pc' = [pc EXCEPT ![t] = "served"]
                  /\ cert' = [cert EXCEPT ![t] = crt]
                  /\ UNCHANGED job
Goto(t, l) == pc' = [pc EXCEPT ![t] = l] /\ UNCHANGED <<job, cert>>

(* get_or_issue, up to taking the lock object: a cache hit is returned.    *)
(* A host no route matches, or whose route pins a certificate, never gets  *)
(* here.                                                                   *)
StartServe(t, l, h) ==
  /\ pc[t] = "idle" /\ Routed(l, h)
  /\ LET k == KeyOf(l, h)
         new == [op |-> "serve", lst |-> l, key |-> k, obs |-> NoObs, gen |-> lockgen[k]]
     IN /\ job' = [job EXCEPT ![t] = new]
        /\ \/ /\ cache[k] # NoCert
              /\ pc' = [pc EXCEPT ![t] = "served"]
              /\ cert' = [cert EXCEPT ![t] = cache[k].cert]
           \/ /\ cache[k] = NoCert
              /\ pc' = [pc EXCEPT ![t] = "lock"]
              /\ UNCHANGED cert
  /\ UNCHANGED <<Environment, cache, disk, lockgen>>

(* Mutant: any mirrored certificate counts as current. *)
MirroredAtAll(k, o) == cache[k] # NoCert /\ cache[k].obs # NoObs

(* mirror_is_current: the cached certificate was built from this very set. *)
MirrorIsCurrent(k, o) == cache[k] # NoCert /\ cache[k].obs = o

(* record_upstream_coverage, after an upstream handshake for h: a set that *)
(* differs from the cached one is handed to a detached task.               *)
Observe(t, l, h) ==
  /\ pc[t] = "idle" /\ Routed(l, h)
  /\ conf[l].fwd[Owner(l, h)] \in Reflecting
  /\ LET k == KeyOf(l, h)
         o == upstream[conf[l].fwd[Owner(l, h)]][h]
     IN /\ ~MirrorIsCurrent(k, o)
        /\ job' = [job EXCEPT ![t] = [op |-> "record", lst |-> l, key |-> k,
                                      obs |-> o, gen |-> 0]]
  /\ pc' = [pc EXCEPT ![t] = "spawned"]
  /\ UNCHANGED <<Environment, cache, disk, lockgen, cert>>

(* record_upstream_sans, up to taking the lock object. *)
StartRecord(t) ==
  /\ pc[t] = "spawned"
  /\ \/ MirrorIsCurrent(job[t].key, job[t].obs) /\ Idle(t)
     \/ /\ ~MirrorIsCurrent(job[t].key, job[t].obs)
        /\ job' = [job EXCEPT ![t].gen = lockgen[job[t].key]]
        /\ pc' = [pc EXCEPT ![t] = "lock"]
        /\ UNCHANGED cert
  /\ UNCHANGED <<Environment, cache, disk, lockgen>>

(* The guard is held from here until the call returns. *)
Critical == {"load", "sign", "saveCrt", "saveKey", "saveObs", "insert"}
LockFree(t) ==
  \A u \in Task \ {t} :
    ~(pc[u] \in Critical /\ job[u].key = job[t].key /\ job[u].gen = job[t].gen)

(* Mutant: the cache is not checked again under the lock. *)
LockServeUnchecked(t) ==
  /\ pc[t] = "lock" /\ job[t].op = "serve" /\ LockFree(t)
  /\ Goto(t, "load")
  /\ UNCHANGED <<Environment, cache, disk, lockgen>>

(* Taking the mutex and checking the cache again. *)
LockServe(t) ==
  /\ pc[t] = "lock" /\ job[t].op = "serve" /\ LockFree(t)
  /\ \/ cache[job[t].key] # NoCert /\ Return(t, cache[job[t].key].cert)
     \/ cache[job[t].key] = NoCert /\ Goto(t, "load")
  /\ UNCHANGED <<Environment, cache, disk, lockgen>>

LockRecord(t) ==
  /\ pc[t] = "lock" /\ job[t].op = "record" /\ LockFree(t)
  /\ \/ MirrorIsCurrent(job[t].key, job[t].obs) /\ Idle(t)
     \/ ~MirrorIsCurrent(job[t].key, job[t].obs) /\ Goto(t, "sign")
  /\ UNCHANGED <<Environment, cache, disk, lockgen>>

----------------------------------------------------------------------------
(* CertStore::load gives up when a file is missing. *)
Loadable(k) == disk[k].crt # NoCert /\ disk[k].key # NoCert

(* Mutant: a certificate without a sidecar is trusted as it is. *)
UnobservedTrusted(k, obs) == FALSE

(* An absent sidecar with names beyond the host: issued by something else, *)
(* or by a save that was cut short.                                        *)
UnobservedButBroad(k, obs) == obs = NoObs /\ disk[k].crt.sans # {Exact(k.host)}

Usable(k, obs) ==
  /\ Loadable(k)
  /\ ~UnobservedButBroad(k, obs)
  /\ HostCoveredBy(disk[k].crt.sans, k.host)

(* The persisted certificate is cached with the observation it was built   *)
(* from and served as it is.  An unreadable sidecar counts as absent.      *)
Load(t) ==
  /\ pc[t] = "load"
  /\ LET k == job[t].key
     IN \E obs \in {disk[k].obs, NoObs} :
          /\ Usable(k, obs)
          /\ LET c == [sans |-> disk[k].crt.sans, serial |-> disk[k].crt.serial,
                       key |-> disk[k].key]
             IN cache' = [cache EXCEPT ![k] = [cert |-> c, obs |-> obs]] /\ Return(t, c)
  /\ UNCHANGED <<Environment, disk, lockgen>>

(* Nothing usable is on disk.  It may be so at any time, whatever was saved:   *)
(* the certificate is near expiry, a file is unreadable, there is no store.    *)
LoadNothing(t) ==
  /\ pc[t] = "load"
  /\ Goto(t, "sign")
  /\ UNCHANGED <<Environment, cache, disk, lockgen>>

(* The names to sign: the exact host before any observation, the clipped   *)
(* observation after one.                                                  *)
SansFor(t) ==
  LET j == job[t]
      id == Owner(j.lst, j.key.host)
  IN IF j.op = "serve" THEN {Exact(j.key.host)}
     ELSE ClipSans(conf[j.lst], id, j.key.host, j.obs)

(* CertificateAuthority::issue: a fresh key pair, signed for the names.  It *)
(* is told apart from the one in the store only, which shows whether the    *)
(* files belong together.                                                  *)
Sign(t) ==
  /\ pc[t] = "sign"
  /\ \E n \in Serial :
       /\ n # disk[job[t].key].key
       /\ cert' = [cert EXCEPT ![t] = [sans |-> SansFor(t), serial |-> n, key |-> n]]
  /\ pc' = [pc EXCEPT ![t] = "saveCrt"]
  /\ UNCHANGED <<Environment, cache, disk, lockgen, job>>

(* A failed issuance serves nothing and leaves the current entry alone. *)
SignFails(t) ==
  /\ pc[t] = "sign"
  /\ Idle(t)
  /\ UNCHANGED <<Environment, cache, disk, lockgen>>

(* CertStore::save: three files, each replaced atomically, in this order.  *)
SaveCrt(t) ==
  /\ pc[t] = "saveCrt"
  /\ disk' = [disk EXCEPT ![job[t].key].crt = [sans |-> cert[t].sans, serial |-> cert[t].serial]]
  /\ Goto(t, "saveKey")
  /\ UNCHANGED <<Environment, cache, lockgen>>

SaveKey(t) ==
  /\ pc[t] = "saveKey"
  /\ disk' = [disk EXCEPT ![job[t].key].key = cert[t].serial]
  /\ Goto(t, "saveObs")
  /\ UNCHANGED <<Environment, cache, lockgen>>

(* Mutant: a stale sidecar is not removed. *)
SaveObsKeepsOld(t) ==
  /\ pc[t] = "saveObs"
  /\ disk' = [disk EXCEPT ![job[t].key].obs = IF job[t].obs = NoObs THEN @ ELSE job[t].obs]
  /\ Goto(t, "insert")
  /\ UNCHANGED <<Environment, cache, lockgen>>

(* The sidecar last: written for an observation, removed without one. *)
SaveObs(t) ==
  /\ pc[t] = "saveObs"
  /\ disk' = [disk EXCEPT ![job[t].key].obs = job[t].obs]
  /\ Goto(t, "insert")
  /\ UNCHANGED <<Environment, cache, lockgen>>

(* A failed write abandons the rest of the save; the certificate is still  *)
(* served from memory.  Without a store every save ends like this.         *)
SaveFails(t) ==
  /\ WritesFail
  /\ pc[t] \in {"saveCrt", "saveKey", "saveObs"}
  /\ Goto(t, "insert")
  /\ UNCHANGED <<Environment, cache, disk, lockgen>>

Insert(t) ==
  /\ pc[t] = "insert"
  /\ cache' = [cache EXCEPT ![job[t].key] = [cert |-> cert[t], obs |-> job[t].obs]]
  /\ \/ job[t].op = "serve" /\ Return(t, cert[t])
     \/ job[t].op = "record" /\ Idle(t)
  /\ UNCHANGED <<Environment, disk, lockgen>>

(* The handshake goes on with the certificate it was given. *)
Handshake(t) ==
  /\ pc[t] = "served"
  /\ Idle(t)
  /\ UNCHANGED <<Environment, cache, disk, lockgen>>

----------------------------------------------------------------------------
(* The moka caches drop entries on their own: certificates by TTL or       *)
(* capacity, locks when idle for 60s or by capacity -- held or not.  That  *)
(* a lock nobody works with is replaced changes nothing.                   *)
Evict(k) ==
  /\ cache[k] # NoCert
  /\ cache' = [cache EXCEPT ![k] = NoCert]
  /\ UNCHANGED <<Environment, disk, lockgen, pc, job, cert>>

ExpireLock(k) ==
  /\ lockgen[k] + restarts < MaxExpiries
  /\ \E t \in Task : pc[t] \notin {"idle", "spawned"} /\ job[t].key = k /\ job[t].gen = lockgen[k]
  /\ lockgen' = [lockgen EXCEPT ![k] = @ + 1]
  /\ UNCHANGED <<Environment, cache, disk, pc, job, cert>>

(* An upstream starts presenting another certificate. *)
Rotate(tgt, h, o) ==
  /\ rotations < MaxRotations
  /\ o # upstream[tgt][h]
  /\ upstream' = [upstream EXCEPT ![tgt][h] = o]
  /\ presented' = [presented EXCEPT ![tgt][h] = @ \cup {o}]
  /\ rotations' = rotations + 1
  /\ UNCHANGED <<conf, cache, disk, lockgen, pc, job, cert, restarts>>

(* The process stops and is started again, perhaps with an edited          *)
(* configuration: only the files survive.                                  *)
Restart(c) ==
  /\ restarts < MaxRestarts
  /\ CrashAnywhere \/ \A t \in Task : pc[t] \notin {"saveKey", "saveObs"}
  /\ restarts' = restarts + 1
  /\ conf' = c
  /\ cache' = [k \in Key |-> NoCert]
  /\ lockgen' = [k \in Key |-> 0]
  /\ pc' = [t \in Task |-> "idle"]
  /\ job' = [t \in Task |-> NoJob]
  /\ cert' = [t \in Task |-> NoCert]
  /\ UNCHANGED <<upstream, presented, disk, rotations>>

TaskStep(t) ==
  \/ StartRecord(t) \/ LockServe(t) \/ LockRecord(t) \/ Load(t) \/ LoadNothing(t)
  \/ Sign(t) \/ SignFails(t) \/ SaveCrt(t) \/ SaveKey(t) \/ SaveObs(t) \/ SaveFails(t)
  \/ Insert(t) \/ Handshake(t)

Next ==
  \/ \E t \in Task : TaskStep(t)
  \/ \E t \in Task, l \in Listener, h \in Host : StartServe(t, l, h) \/ Observe(t, l, h)
  \/ \E k \in Key : Evict(k) \/ ExpireLock(k)
  \/ \E tgt \in Reflecting, h \in Host, o \in Observation : Rotate(tgt, h, o)
  \/ \E c \in Configs : Restart(c)

Spec == Init /\ [][Next]_vars

(* Fairness for the liveness property.  The runtime runs every started     *)
(* task to its end (blocking-pool threads and the handshake are scheduled  *)
(* by the system), a mutex that keeps being released is acquired in the    *)
(* end, the CA does not fail for ever, and clients keep connecting, so     *)
(* every name keeps being observed.  Nothing is assumed about eviction,    *)
(* upstream rotation or restarts.                                          *)
Progress(t) ==
  \/ StartRecord(t) \/ LockServe(t) \/ LockRecord(t) \/ Load(t) \/ LoadNothing(t)
  \/ Sign(t) \/ SaveCrt(t) \/ SaveKey(t) \/ SaveObs(t) \/ Insert(t) \/ Handshake(t)
SignRecord(t) == job[t].op = "record" /\ Sign(t)
Fairness ==
  /\ \A t \in Task : WF_vars(Progress(t)) /\ SF_vars(LockRecord(t)) /\ SF_vars(SignRecord(t))
  /\ \A l \in Listener, h \in Host : SF_vars(\E t \in Task : Observe(t, l, h))
FairSpec == Spec /\ Fairness

----------------------------------------------------------------------------
(* Every variable has its type: a task only works on a key it was given,   *)
(* and every certificate, cached, stored or in hand, is one the gateway    *)
(* minted.                                                                 *)
TypeOK ==
  /\ conf \in Configs
  /\ upstream \in [Reflecting -> [Host -> Observation]]
  /\ presented \in [Reflecting -> [Host -> SUBSET Observation]]
  /\ cache \in [Key -> CachedCert \cup {NoCert}]
  /\ disk \in [Key -> [crt : [sans : SUBSET SAN, serial : Serial] \cup {NoCert},
                      key : Serial \cup {NoCert}, obs : Obs]]
  /\ lockgen \in [Key -> Nat]
  /\ pc \in [Task -> {"idle", "spawned", "lock", "served"} \cup Critical]
  /\ job \in [Task -> Job \cup {NoJob}]
  /\ cert \in [Task -> Cert \cup {NoCert}]
  /\ restarts \in 0 .. MaxRestarts /\ rotations \in 0 .. MaxRotations

(* The gateway's central promise: no certificate handed to a handshake     *)
(* covers a host that the listener would route to another scope or not at  *)
(* all, so a client that coalesces connections cannot bypass the routing.  *)
(* Certificates reach a handshake from the cache, from the store and from  *)
(* the CA.                                                                 *)
ServedIsConfined ==
  \A t \in Task : pc[t] = "served" =>
    LET l == job[t].lst
    IN Confined(conf[l], Owner(l, job[t].key.host), cert[t].sans, Names)

(* The issuer is its abstract specification: a handshake gets a            *)
(* certificate for its host alone or one that mirrors what the upstream of *)
(* that very scope has presented, clipped for it; and one that no          *)
(* observation vouches for covers its host alone -- wherever a crash, a    *)
(* failed write or an evicted lock falls ("Exact first", resolver.rs; the  *)
(* check for a stored certificate broader than it may be, get_or_issue).   *)
Users(k) == {ci \in Conf \X RouteId : CertScope(ci[1], ci[2]) = k.scope}
OwnNames == [k \in Key |-> {Exact(k.host)}]
ClippedNames ==
  [k \in Key |-> [o \in Observation |->
     {ClipSans(ci[1], ci[2], k.host, o) : ci \in Users(k)}]]
PresentedTo(k) == IF k.scope.fwd \in Reflecting THEN presented[k.scope.fwd][k.host] ELSE {}
Entry(k) ==
  IF cache[k] = NoCert THEN NoCert
  ELSE [names |-> cache[k].cert.sans, basis |-> cache[k].obs]
Given(t) ==
  IF pc[t] # "served" THEN NoCert ELSE [key |-> job[t].key, names |-> cert[t].sans]

I == INSTANCE Issuer WITH
       Client <- Task, Own <- OwnNames, Mirrors <- ClippedNames,
       Unobserved <- NoObs, None <- NoCert,
       presented <- [k \in Key |-> PresentedTo(k)],
       entry <- [k \in Key |-> Entry(k)],
       given <- [t \in Task |-> Given(t)]

ImplementsIssuer == I!Spec

(* The observation recorded with a certificate is the one it mirrors: no   *)
(* rotation goes unnoticed because the comparison is made against a set    *)
(* the certificate was not built from (store.rs, the sidecar comment).     *)
ObservationDescribesCertificate ==
  \A k \in Key : cache[k] # NoCert /\ cache[k].obs # NoObs =>
    \A l \in Listener : Routed(l, k.host) /\ KeyOf(l, k.host) = k =>
      cache[k].cert.sans = ClipSans(conf[l], Owner(l, k.host), k.host, cache[k].obs)

(* A concurrent first handshake cannot overwrite a mirrored certificate    *)
(* with the exact one it is about to insert (resolver.rs, the comment on   *)
(* the lock record_upstream_sans takes).                                   *)
MirrorNotDowngraded ==
  [][\A k \in Key : cache[k] # NoCert /\ cache[k].obs # NoObs =>
       cache'[k] = NoCert \/ cache'[k].obs # NoObs]_vars

(* Mirroring converges: however often the entry is evicted and whatever    *)
(* order detached observations run in, once the upstream stops changing    *)
(* the cached certificate mirrors it again and again.                      *)
MirrorsEventually ==
  \A l \in Listener, h \in Host :
    []<>(Routed(l, h) /\ conf[l].fwd[Owner(l, h)] \in Reflecting =>
           LET k == KeyOf(l, h)
               o == upstream[conf[l].fwd[Owner(l, h)]][h]
           IN cache[k] # NoCert /\ cache[k].obs = o
                /\ cache[k].cert.sans = ClipSans(conf[l], Owner(l, h), h, o))

----------------------------------------------------------------------------
(* The strengthening under which ServedIsConfined is inductive.            *)

(* What makes a fingerprint enough: no two configurations agree on the     *)
(* patterns and differ in where some route forwards.                       *)
ForwardingDetermined ==
  \A c, d \in Conf : Fingerprint(c.table) = Fingerprint(d.table) => c.fwd = d.fwd

(* Names that may be served under a key by every listener that uses it.    *)
SafeSans(k, sans) ==
  \A c \in Conf, id \in RouteId :
    CertScope(c, id) = k.scope => Confined(c, id, sans, Names)

Holding == {"saveCrt", "saveKey", "saveObs", "insert", "served"}

(* A running call knows its key, and one that holds a certificate has one. *)
TaskInv ==
  \A t \in Task :
    /\ pc[t] # "idle" => /\ job[t] \in Job
                         /\ Routed(job[t].lst, job[t].key.host)
                         /\ job[t].key = KeyOf(job[t].lst, job[t].key.host)
                         /\ job[t].op = "record" => job[t].obs \in Observation
    /\ pc[t] \in Holding => cert[t] \in Cert

(* Every certificate, wherever it is kept, is safe for its key. *)
SafeEverywhere ==
  /\ \A k \in Key : cache[k] # NoCert => SafeSans(k, cache[k].cert.sans)
  /\ \A k \in Key : disk[k].crt # NoCert => SafeSans(k, disk[k].crt.sans)
  /\ \A t \in Task : pc[t] \in Holding => SafeSans(job[t].key, cert[t].sans)

IInv == TypeOK /\ TaskInv /\ SafeEverywhere

(* And the one under which every step is a step of the issuer promised.    *)
NamesPromised(k) == {OwnNames[k]} \cup UNION {ClippedNames[k][o] : o \in PresentedTo(k)}

(* Wherever a certificate is kept, its names were promised for its key, and *)
(* so was what it is said to mirror.                                       *)
PromisedEverywhere ==
  /\ \A k \in Key : cache[k] # NoCert => Entry(k) \in I!Promised(k)
  /\ \A k \in Key : /\ disk[k].crt # NoCert => disk[k].crt.sans \in NamesPromised(k)
                    /\ disk[k].obs \in PresentedTo(k) \cup {NoObs}
  /\ \A t \in Task : pc[t] \in Holding => cert[t].sans \in NamesPromised(job[t].key)

(* A call that serves a host knows of no observation and signs for the     *)
(* host alone; one that records has an observation that was presented.     *)
CallsInv ==
  \A t \in Task :
    /\ pc[t] # "idle" => IF job[t].op = "serve" THEN job[t].obs = NoObs
                         ELSE job[t].obs \in PresentedTo(job[t].key)
    /\ pc[t] \in Holding \ {"served"} /\ job[t].op = "serve" => cert[t].sans = OwnNames[job[t].key]
    /\ pc[t] \in {"load", "served"} => job[t].op = "serve"

UpstreamPresented ==
  \A tgt \in Reflecting, h \in Host : upstream[tgt][h] \in presented[tgt][h]

GrantInv == UpstreamPresented /\ CallsInv /\ PromisedEverywhere

(* And those under which a mirrored certificate stays what it is said to    *)
(* be, while no lock is evicted in use and every save is finished.         *)
LocksHold == MaxExpiries = 0
SavesFinish == ~CrashAnywhere /\ ~WritesFail

(* Every key has its first lock and one call at a time works under it.  A  *)
(* call that serves found the cache empty, and nobody fills it meanwhile.  *)
Exclusive ==
  /\ \A k \in Key : lockgen[k] = 0
  /\ \A t \in Task : pc[t] # "idle" => job[t].gen = 0
  /\ \A t, u \in Task :
       pc[t] \in Critical /\ pc[u] \in Critical /\ job[t].key = job[u].key => t = u
  /\ \A t \in Task :
       pc[t] \in Critical /\ job[t].op = "serve" => cache[job[t].key] = NoCert

(* A certificate has the names its observation is clipped to, for every    *)
(* route that uses the key.                                                *)
Describes(k, sans, obs) ==
  obs # NoObs => \A ci \in Users(k) : sans = ClipSans(ci[1], ci[2], k.host, obs)

Unfinished == {"saveKey", "saveObs"}
Saving(k) == \E t \in Task : pc[t] \in Unfinished /\ job[t].key = k

(* Every certificate is described by the observation beside it; on disk,   *)
(* once the call that is replacing the files is done with them.            *)
DescribedEverywhere ==
  /\ \A k \in Key : cache[k] # NoCert => Describes(k, cache[k].cert.sans, cache[k].obs)
  /\ \A k \in Key : disk[k].crt # NoCert /\ ~Saving(k)
                      => Describes(k, disk[k].crt.sans, disk[k].obs)
  /\ \A t \in Task :
       /\ pc[t] \in Holding \ {"served"} => Describes(job[t].key, cert[t].sans, job[t].obs)
       /\ pc[t] \in Unfinished => /\ disk[job[t].key].crt # NoCert
                                  /\ disk[job[t].key].crt.sans = cert[t].sans
=============================================================================
