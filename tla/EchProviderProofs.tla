------------------------- MODULE EchProviderProofs -------------------------
(***************************************************************************)
(* The ECH cache for every set of connections, names, zones and keys:      *)
(* generations name configs, and a config the server accepts is never      *)
(* evicted, however late a rejection arrives.                              *)
(***************************************************************************)
EXTENDS EchProvider, FiniteSetTheorems, TLAPS

(* No generation in use has yet to be handed out. *)
GenerationsIssued ==
  /\ \A n \in Name : cache[n] # NoEntry =>
       cache[n].generation # 0 /\ cache[n].generation < next_generation
  /\ \A m, n \in Name : cache[m] # NoEntry /\ cache[n] # NoEntry
                         /\ cache[m].generation = cache[n].generation => m = n
  /\ \A c \in Conn : dial[c].generation < next_generation
  /\ \A c \in Conn : dial[c].pc \in {"hello", "rejected"} => dial[c].generation # 0

(* A rejected config is older than the server's: keys only advance. *)
RejectedIsOlder ==
  \A c \in Conn : dial[c].pc = "rejected" =>
    dial[c].key \in Key /\ dial[c].key < serverKey[Z(c)]

(* No config is ahead of the server. *)
KeysPublished ==
  /\ \A z \in Zone : published[z] \in Key => published[z] <= serverKey[z]
  /\ \A z \in Zone : dnscache[z] \in Key => dnscache[z] <= serverKey[z]
  /\ \A n \in Name : cache[n] # NoEntry /\ cache[n].key \in Key
                       => cache[n].key <= serverKey[LookupName[n]]
  /\ \A c \in Conn : dial[c].generation # 0 /\ dial[c].key \in Key
                       => dial[c].key <= serverKey[Z(c)]

IInv == TypeOK /\ GenerationNamesConfig /\ GenerationsIssued /\ RejectedIsOlder /\ KeysPublished

(* What a lookup may leave in the DNS cache. *)
DnsKept(dns) ==
  /\ dns \in [Zone -> Key \cup {NoKey, NoRecord}]
  /\ \A z \in Zone : dns[z] \in Key => dns[z] <= serverKey[z]

(* Taking a config leaves a dial of the right type. *)
LEMMA HoldType ==
  ASSUME TypeOK, NEW c \in Conn, NEW k \in Key \cup {NoKey}, NEW g \in Nat
  PROVE  [dial EXCEPT ![c] = [@ EXCEPT !.pc = "hello", !.key = k, !.generation = g]] \in [Conn -> Dial]
<1>1. [dial[c] EXCEPT !.pc = "hello", !.key = k, !.generation = g] \in Dial
  BY DEF Dial, TypeOK
<1> QED BY <1>1 DEF TypeOK

(* Installing a config that is not ahead of the server keeps the invariant. *)
LEMMA InstallStep ==
  ASSUME IInv, NEW c \in Conn, NEW k \in Key \cup {NoKey},
         dial[c].pc = "build", k \in Key => k <= serverKey[Z(c)], Install(c, k),
         writer' = NoConn, DnsKept(dnscache'),
         UNCHANGED <<cfg, serverKey, published, lapses, evictions>>, steady' \subseteq Conn
  PROVE  IInv'
<1> USE EchAssumption DEF world
<1> DEFINE n == dial[c].name
           e == ConfigFor(Fresh(k), dial[c].alpn)
<1>0. n \in Name /\ dial[c].alpn \in Alpn
  BY DEF IInv, TypeOK, Dial
<1>1. /\ cache' = [cache EXCEPT ![n] = e]
      /\ e \in Cached /\ e # NoEntry
      /\ e.key = k /\ e.generation = next_generation
  <2>1. Fresh(k) \in Cached /\ Fresh(k).key = k /\ Fresh(k).generation = next_generation
    BY DEF Fresh, Cached, IInv, TypeOK
  <2>2. e \in Cached /\ e.key = k /\ e.generation = next_generation
    BY <1>0, <2>1 DEF ConfigFor, Cached
  <2>3. e # NoEntry
    BY <2>2 DEF Cached
  <2> QED BY <2>2, <2>3 DEF Install
<1> HIDE DEF e
<1>2. dial' = [dial EXCEPT ![c] = [@ EXCEPT !.pc = "hello", !.key = k,
                                         !.generation = next_generation]]
  BY DEF Install, Hold, Fresh
<1>3. next_generation' = next_generation + 1
  BY DEF Install
<1>4. dial' \in [Conn -> Dial]
  BY <1>2, HoldType DEF IInv, TypeOK
<1>5. /\ \A x \in Conn : dial'[x].name = dial[x].name
      /\ dial'[c].pc = "hello" /\ dial'[c].key = k /\ dial'[c].generation = next_generation
      /\ \A x \in Conn \ {c} : /\ dial'[x].pc = dial[x].pc /\ dial'[x].key = dial[x].key
                              /\ dial'[x].generation = dial[x].generation
  BY <1>2 DEF Dial, IInv, TypeOK
<1>6. /\ cache'[n] = e /\ \A m \in Name \ {n} : cache'[m] = cache[m]
      /\ next_generation \in Nat \ {0} /\ \A x \in Conn : dial[x].generation \in Nat
      /\ \A m \in Name : cache[m] # NoEntry => cache[m].generation \in Nat
  BY <1>0, <1>1 DEF IInv, TypeOK, Dial, Cached
<1>7. TypeOK'
  <2>1. cache' \in [Name -> Cached \cup {NoEntry}]
    BY <1>0, <1>1 DEF IInv, TypeOK
  <2>2. \A x \in Conn : dial'[x].pc = "build" <=> writer' = x
    BY <1>5 DEF IInv, TypeOK
  <2> QED BY <1>3, <1>4, <2>1, <2>2 DEF IInv, TypeOK, DnsKept
<1>8. GenerationNamesConfig'
  BY <1>0, <1>1, <1>5, <1>6 DEF IInv, GenerationNamesConfig, GenerationsIssued
<1>9. GenerationsIssued'
  <2>1. \A m \in Name : cache'[m] # NoEntry =>
          cache'[m].generation # 0 /\ cache'[m].generation < next_generation'
    BY <1>1, <1>3, <1>6 DEF IInv, GenerationsIssued
  <2>2. \A m, l \in Name : cache'[m] # NoEntry /\ cache'[l] # NoEntry
                             /\ cache'[m].generation = cache'[l].generation => m = l
    BY <1>1, <1>6 DEF IInv, GenerationsIssued
  <2>3. \A x \in Conn : dial'[x].generation < next_generation'
    BY <1>3, <1>5, <1>6 DEF IInv, GenerationsIssued
  <2>4. \A x \in Conn : dial'[x].pc \in {"hello", "rejected"} => dial'[x].generation # 0
    BY <1>5, <1>6 DEF IInv, GenerationsIssued
  <2> QED BY <2>1, <2>2, <2>3, <2>4, Zenon DEF GenerationsIssued
<1>10. RejectedIsOlder'
  BY <1>5 DEF IInv, RejectedIsOlder, Z
<1>11. KeysPublished'
  BY <1>0, <1>1, <1>5 DEF IInv, TypeOK, KeysPublished, DnsKept, Z, Key
<1> QED BY <1>7, <1>8, <1>9, <1>10, <1>11 DEF IInv

(* So does keeping the cached one, or giving up. *)
LEMMA KeepStep ==
  ASSUME IInv, NEW c \in Conn, dial[c].pc = "build", KeepOrFail(c),
         writer' = NoConn, DnsKept(dnscache'), UNCHANGED <<cfg, serverKey, published, lapses, evictions>>, steady' \subseteq Conn
  PROVE  IInv'
<1> USE EchAssumption DEF world
<1> DEFINE n == dial[c].name
<1>1. CASE cache[n] # NoEntry
  <2>1. cache' = [cache EXCEPT ![n] = [cache[n] EXCEPT !.fresh = TRUE,
                                        !.configs = @ \cup {dial[c].alpn}]]
    BY <1>1 DEF KeepOrFail, ConfigFor, IInv, TypeOK, Dial, Cached
  <2>2. dial' = [dial EXCEPT ![c] = [@ EXCEPT !.pc = "hello", !.key = cache[n].key,
                                           !.generation = cache[n].generation]]
    BY <1>1 DEF KeepOrFail, Hold
  <2>3. next_generation' = next_generation
    BY <1>1 DEF KeepOrFail
  <2>4. dial' \in [Conn -> Dial]
    <3>1. cache[n].key \in Key \cup {NoKey} /\ cache[n].generation \in Nat
      BY <1>1 DEF IInv, TypeOK, Cached, Dial
    <3> QED BY <2>2, <3>1, HoldType DEF IInv
  <2>5. /\ \A x \in Conn : dial'[x].name = dial[x].name
        /\ dial'[c].pc = "hello" /\ dial'[c].key = cache[n].key
        /\ dial'[c].generation = cache[n].generation
        /\ \A x \in Conn \ {c} : /\ dial'[x].pc = dial[x].pc /\ dial'[x].key = dial[x].key
                                /\ dial'[x].generation = dial[x].generation
    BY <2>2 DEF Dial, IInv, TypeOK
  <2>6. /\ cache' \in [Name -> Cached \cup {NoEntry}]
        /\ \A m \in Name : /\ cache'[m] = NoEntry <=> cache[m] = NoEntry
                           /\ cache'[m].key = cache[m].key
                           /\ cache'[m].generation = cache[m].generation
    <3> DEFINE e == [cache[n] EXCEPT !.fresh = TRUE, !.configs = @ \cup {dial[c].alpn}]
    <3>1. n \in Name /\ cache[n] \in Cached /\ dial[c].alpn \in Alpn
      BY <1>1 DEF IInv, TypeOK, Dial
    <3>2. e \in Cached /\ e.key = cache[n].key /\ e.generation = cache[n].generation
      BY <3>1 DEF Cached
    <3>3. e # NoEntry
      BY <3>2 DEF Cached
    <3>4. cache' = [cache EXCEPT ![n] = e]
      BY <2>1
    <3> HIDE DEF e
    <3> QED BY <1>1, <3>1, <3>2, <3>3, <3>4 DEF IInv, TypeOK
  <2>7. TypeOK'
    <3>1. \A x \in Conn : dial'[x].pc = "build" <=> writer' = x
      BY <2>5 DEF IInv, TypeOK
    <3> QED BY <2>3, <2>4, <2>6, <3>1 DEF IInv, TypeOK, DnsKept
  <2>8. GenerationNamesConfig'
    <3>1. n \in Name /\ cache[n].generation # 0
      BY <1>1 DEF IInv, TypeOK, GenerationsIssued, Dial
    <3> QED BY <1>1, <2>5, <2>6, <3>1 DEF IInv, GenerationNamesConfig, GenerationsIssued
  <2>9. GenerationsIssued'
    <3>1. n \in Name
      BY DEF IInv, TypeOK, Dial
    <3> QED BY <1>1, <2>3, <2>5, <2>6, <3>1 DEF IInv, GenerationsIssued
  <2>10. RejectedIsOlder'
    BY <2>5 DEF IInv, RejectedIsOlder, Z
  <2>11. KeysPublished'
    BY <1>1, <2>5, <2>6 DEF IInv, TypeOK, KeysPublished, GenerationsIssued, DnsKept, Z, Dial
  <2> QED BY <2>7, <2>8, <2>9, <2>10, <2>11 DEF IInv
<1>2. CASE cache[n] = NoEntry
  <2>1. UNCHANGED <<cache, next_generation>> /\ dial' = [dial EXCEPT ![c].pc = "failed"]
    BY <1>2 DEF KeepOrFail
  <2>2. /\ dial' \in [Conn -> Dial]
        /\ dial'[c].pc = "failed"
        /\ \A x \in Conn \ {c} : dial'[x].pc = dial[x].pc
        /\ \A x \in Conn : /\ dial'[x].name = dial[x].name /\ dial'[x].key = dial[x].key
                           /\ dial'[x].generation = dial[x].generation
    BY <2>1 DEF IInv, TypeOK, Dial
  <2>3. TypeOK'
    BY <2>1, <2>2 DEF IInv, TypeOK, DnsKept
  <2>4. GenerationNamesConfig' /\ GenerationsIssued'
    BY <2>1, <2>2 DEF IInv, TypeOK, GenerationNamesConfig, GenerationsIssued
  <2>5. RejectedIsOlder' /\ KeysPublished'
    BY <2>1, <2>2 DEF IInv, TypeOK, RejectedIsOlder, KeysPublished, DnsKept, Z
  <2> QED BY <2>3, <2>4, <2>5 DEF IInv
<1> QED BY <1>1, <1>2

(* Every step keeps the invariant. *)
LEMMA StepIInv ==
  ASSUME IInv, [Next]_vars
  PROVE  IInv'
<1> USE EchAssumption DEF Key, world, Z
<1>1. ASSUME NEW c \in Conn, Connect(c) PROVE IInv'
  <2>1. TypeOK'
    <3>1. dial[c] \in Dial /\ lapses \in Nat
      BY DEF IInv, TypeOK
    <3>2. [dial[c] EXCEPT !.pc = "client", !.since = lapses] \in Dial
      BY <3>1 DEF Dial
    <3>3. dial' = [dial EXCEPT ![c] = [@ EXCEPT !.pc = "client", !.since = lapses]]
      BY <1>1, <3>1 DEF Connect, IInv, TypeOK
    <3>4. dial' \in [Conn -> Dial]
      BY <3>2, <3>3 DEF IInv, TypeOK
    <3>5. steady' \subseteq Conn
      BY <1>1 DEF Connect, IInv, TypeOK
    <3>6. \A x \in Conn : dial'[x].pc = "build" <=> writer' = x
      BY <1>1 DEF Connect, IInv, TypeOK, Dial
    <3> QED BY <1>1, <3>4, <3>5, <3>6 DEF Connect, IInv, TypeOK
  <2>2. GenerationNamesConfig'
    BY <1>1 DEF IInv, TypeOK, GenerationNamesConfig, GenerationsIssued, Dial, Cached, Connect
  <2>3. GenerationsIssued'
    BY <1>1 DEF IInv, TypeOK, GenerationsIssued, Dial, Cached, Connect
  <2>4. RejectedIsOlder'
    BY <1>1 DEF IInv, TypeOK, RejectedIsOlder, KeysPublished, GenerationsIssued, Dial, Cached, Connect
  <2>5. KeysPublished'
    BY <1>1 DEF IInv, TypeOK, KeysPublished, GenerationsIssued, Dial, Cached, Connect
  <2> QED BY <2>1, <2>2, <2>3, <2>4, <2>5 DEF IInv
<1>2. ASSUME NEW c \in Conn, FastPath(c) PROVE IInv'
  <2>1. TypeOK'
    <3>1. cache[dial[c].name].key \in Key \cup {NoKey} /\ cache[dial[c].name].generation \in Nat
      BY <1>2 DEF FastPath, Usable, IInv, TypeOK, Cached, Dial
    <3>2. dial' \in [Conn -> Dial]
      BY <1>2, <3>1, HoldType DEF FastPath, Hold, IInv
    <3> QED BY <1>2, <3>2 DEF FastPath, Hold, IInv, TypeOK
  <2>2. GenerationNamesConfig'
    BY <1>2 DEF IInv, TypeOK, GenerationNamesConfig, GenerationsIssued, Dial, Cached, FastPath, Usable, Hold
  <2>3. GenerationsIssued'
    BY <1>2 DEF IInv, TypeOK, GenerationsIssued, Dial, Cached, FastPath, Usable, Hold
  <2>4. RejectedIsOlder'
    BY <1>2 DEF IInv, TypeOK, RejectedIsOlder, KeysPublished, GenerationsIssued, Dial, Cached, FastPath, Usable, Hold
  <2>5. KeysPublished'
    BY <1>2 DEF IInv, TypeOK, KeysPublished, GenerationsIssued, Dial, Cached, FastPath, Usable, Hold
  <2> QED BY <2>1, <2>2, <2>3, <2>4, <2>5 DEF IInv
<1>3. ASSUME NEW c \in Conn, SlowPath(c) PROVE IInv'
  <2>1. TypeOK'
    BY <1>3 DEF IInv, TypeOK, Dial, Cached, SlowPath, Usable
  <2>2. GenerationNamesConfig'
    BY <1>3 DEF IInv, TypeOK, GenerationNamesConfig, GenerationsIssued, Dial, Cached, SlowPath, Usable
  <2>3. GenerationsIssued'
    BY <1>3 DEF IInv, TypeOK, GenerationsIssued, Dial, Cached, SlowPath, Usable
  <2>4. RejectedIsOlder'
    BY <1>3 DEF IInv, TypeOK, RejectedIsOlder, KeysPublished, GenerationsIssued, Dial, Cached, SlowPath, Usable
  <2>5. KeysPublished'
    BY <1>3 DEF IInv, TypeOK, KeysPublished, GenerationsIssued, Dial, Cached, SlowPath, Usable
  <2> QED BY <2>1, <2>2, <2>3, <2>4, <2>5 DEF IInv
<1>4. ASSUME NEW c \in Conn, LockFresh(c) PROVE IInv'
  <2>1. TypeOK'
    <3>1. /\ cache[dial[c].name] \in Cached /\ dial[c].alpn \in Alpn /\ dial[c].name \in Name
          /\ cache[dial[c].name].key \in Key \cup {NoKey}
          /\ cache[dial[c].name].generation \in Nat
      BY <1>4 DEF LockFresh, Usable, IInv, TypeOK, Cached, Dial
    <3>2. dial' \in [Conn -> Dial]
      BY <1>4, <3>1, HoldType DEF LockFresh, Hold, IInv
    <3>3. ConfigFor(cache[dial[c].name], dial[c].alpn) \in Cached
      BY <3>1 DEF ConfigFor, Cached
    <3>4. cache' \in [Name -> Cached \cup {NoEntry}]
      BY <1>4, <3>3 DEF LockFresh, IInv, TypeOK
    <3> QED BY <1>4, <3>2, <3>4 DEF LockFresh, Hold, IInv, TypeOK
  <2>2. GenerationNamesConfig'
    BY <1>4 DEF IInv, TypeOK, GenerationNamesConfig, GenerationsIssued, Dial, Cached, LockFresh, Usable, Hold, ConfigFor
  <2>3. GenerationsIssued'
    BY <1>4 DEF IInv, TypeOK, GenerationsIssued, Dial, Cached, LockFresh, Usable, Hold, ConfigFor
  <2>4. RejectedIsOlder'
    BY <1>4 DEF IInv, TypeOK, RejectedIsOlder, KeysPublished, GenerationsIssued, Dial, Cached, LockFresh, Usable, Hold, ConfigFor
  <2>5. KeysPublished'
    BY <1>4 DEF IInv, TypeOK, KeysPublished, GenerationsIssued, Dial, Cached, LockFresh, Usable, Hold, ConfigFor
  <2> QED BY <2>1, <2>2, <2>3, <2>4, <2>5 DEF IInv
<1>5. ASSUME NEW c \in Conn, LockBuild(c) PROVE IInv'
  <2>1. TypeOK'
    BY <1>5 DEF IInv, TypeOK, Dial, Cached, LockBuild, Usable
  <2>2. GenerationNamesConfig'
    BY <1>5 DEF IInv, TypeOK, GenerationNamesConfig, GenerationsIssued, Dial, Cached, LockBuild, Usable
  <2>3. GenerationsIssued'
    BY <1>5 DEF IInv, TypeOK, GenerationsIssued, Dial, Cached, LockBuild, Usable
  <2>4. RejectedIsOlder'
    BY <1>5 DEF IInv, TypeOK, RejectedIsOlder, KeysPublished, GenerationsIssued, Dial, Cached, LockBuild, Usable
  <2>5. KeysPublished'
    BY <1>5 DEF IInv, TypeOK, KeysPublished, GenerationsIssued, Dial, Cached, LockBuild, Usable
  <2> QED BY <2>1, <2>2, <2>3, <2>4, <2>5 DEF IInv
<1>6. ASSUME NEW c \in Conn, HandshakeOk(c) PROVE IInv'
  <2>1. TypeOK'
    BY <1>6 DEF IInv, TypeOK, Dial, Cached, HandshakeOk, Accepts
  <2>2. GenerationNamesConfig'
    BY <1>6 DEF IInv, TypeOK, GenerationNamesConfig, GenerationsIssued, Dial, Cached, HandshakeOk, Accepts
  <2>3. GenerationsIssued'
    BY <1>6 DEF IInv, TypeOK, GenerationsIssued, Dial, Cached, HandshakeOk, Accepts
  <2>4. RejectedIsOlder'
    BY <1>6 DEF IInv, TypeOK, RejectedIsOlder, KeysPublished, GenerationsIssued, Dial, Cached, HandshakeOk, Accepts
  <2>5. KeysPublished'
    BY <1>6 DEF IInv, TypeOK, KeysPublished, GenerationsIssued, Dial, Cached, HandshakeOk, Accepts
  <2> QED BY <2>1, <2>2, <2>3, <2>4, <2>5 DEF IInv
<1>7. ASSUME NEW c \in Conn, HandshakeRejected(c) PROVE IInv'
  <2>1. TypeOK'
    BY <1>7 DEF IInv, TypeOK, Dial, Cached, HandshakeRejected, Accepts
  <2>2. GenerationNamesConfig'
    BY <1>7 DEF IInv, TypeOK, GenerationNamesConfig, GenerationsIssued, Dial, Cached, HandshakeRejected, Accepts
  <2>3. GenerationsIssued'
    BY <1>7 DEF IInv, TypeOK, GenerationsIssued, Dial, Cached, HandshakeRejected, Accepts
  <2>4. RejectedIsOlder'
    <3>1. dial[c].key \in Key /\ dial[c].key # serverKey[Z(c)] /\ serverKey[Z(c)] \in Key
      BY <1>7 DEF IInv, TypeOK, Dial, HandshakeRejected, Accepts
    <3>2. dial[c].key <= serverKey[Z(c)]
      BY <1>7, <3>1 DEF IInv, KeysPublished, GenerationsIssued, HandshakeRejected
    <3>3. dial[c].key < serverKey[Z(c)]
      BY <3>1, <3>2
    <3> QED BY <1>7, <3>1, <3>3 DEF IInv, TypeOK, RejectedIsOlder, Dial, HandshakeRejected
  <2>5. KeysPublished'
    BY <1>7 DEF IInv, TypeOK, KeysPublished, GenerationsIssued, Dial, Cached, HandshakeRejected, Accepts
  <2> QED BY <2>1, <2>2, <2>3, <2>4, <2>5 DEF IInv
<1>8. ASSUME NEW c \in Conn, HandshakeFails(c) PROVE IInv'
  <2>1. TypeOK'
    BY <1>8 DEF IInv, TypeOK, Dial, Cached, HandshakeFails
  <2>2. GenerationNamesConfig'
    BY <1>8 DEF IInv, TypeOK, GenerationNamesConfig, GenerationsIssued, Dial, Cached, HandshakeFails
  <2>3. GenerationsIssued'
    BY <1>8 DEF IInv, TypeOK, GenerationsIssued, Dial, Cached, HandshakeFails
  <2>4. RejectedIsOlder'
    BY <1>8 DEF IInv, TypeOK, RejectedIsOlder, KeysPublished, GenerationsIssued, Dial, Cached, HandshakeFails
  <2>5. KeysPublished'
    BY <1>8 DEF IInv, TypeOK, KeysPublished, GenerationsIssued, Dial, Cached, HandshakeFails
  <2> QED BY <2>1, <2>2, <2>3, <2>4, <2>5 DEF IInv
<1>9. ASSUME NEW c \in Conn, Invalidate(c) PROVE IInv'
  <2>1. TypeOK'
    BY <1>9 DEF IInv, TypeOK, Dial, Cached, Invalidate, Current, Cleared
  <2>2. GenerationNamesConfig'
    BY <1>9 DEF IInv, TypeOK, GenerationNamesConfig, GenerationsIssued, Dial, Cached, Invalidate, Current, Cleared
  <2>3. GenerationsIssued'
    BY <1>9 DEF IInv, TypeOK, GenerationsIssued, Dial, Cached, Invalidate, Current, Cleared
  <2>4. RejectedIsOlder'
    BY <1>9 DEF IInv, TypeOK, RejectedIsOlder, KeysPublished, GenerationsIssued, Dial, Cached, Invalidate, Current, Cleared
  <2>5. KeysPublished'
    BY <1>9 DEF IInv, TypeOK, KeysPublished, GenerationsIssued, Dial, Cached, Invalidate, Current, Cleared
  <2> QED BY <2>1, <2>2, <2>3, <2>4, <2>5 DEF IInv
<1>10. ASSUME NEW z \in Zone, Rotate(z) PROVE IInv'
  <2>1. TypeOK'
    BY <1>10 DEF IInv, TypeOK, Dial, Cached, Rotate, Resteady
  <2>2. GenerationNamesConfig'
    BY <1>10 DEF IInv, TypeOK, GenerationNamesConfig, GenerationsIssued, Dial, Cached, Rotate, Resteady
  <2>3. GenerationsIssued'
    BY <1>10 DEF IInv, TypeOK, GenerationsIssued, Dial, Cached, Rotate, Resteady
  <2>4. RejectedIsOlder'
    BY <1>10 DEF IInv, TypeOK, RejectedIsOlder, KeysPublished, GenerationsIssued, Dial, Cached, Rotate, Resteady
  <2>5. KeysPublished'
    BY <1>10 DEF IInv, TypeOK, KeysPublished, GenerationsIssued, Dial, Cached, Rotate, Resteady
  <2> QED BY <2>1, <2>2, <2>3, <2>4, <2>5 DEF IInv
<1>11. ASSUME NEW z \in Zone, Publish(z) PROVE IInv'
  <2>1. TypeOK'
    BY <1>11 DEF IInv, TypeOK, Dial, Cached, Publish, Resteady
  <2>2. GenerationNamesConfig'
    BY <1>11 DEF IInv, TypeOK, GenerationNamesConfig, GenerationsIssued, Dial, Cached, Publish, Resteady
  <2>3. GenerationsIssued'
    BY <1>11 DEF IInv, TypeOK, GenerationsIssued, Dial, Cached, Publish, Resteady
  <2>4. RejectedIsOlder'
    BY <1>11 DEF IInv, TypeOK, RejectedIsOlder, KeysPublished, GenerationsIssued, Dial, Cached, Publish, Resteady
  <2>5. KeysPublished'
    BY <1>11 DEF IInv, TypeOK, KeysPublished, GenerationsIssued, Dial, Cached, Publish, Resteady
  <2> QED BY <2>1, <2>2, <2>3, <2>4, <2>5 DEF IInv
<1>12. ASSUME NEW z \in Zone, DnsExpire(z) PROVE IInv'
  <2>1. TypeOK'
    BY <1>12 DEF IInv, TypeOK, Dial, Cached, DnsExpire
  <2>2. GenerationNamesConfig'
    BY <1>12 DEF IInv, TypeOK, GenerationNamesConfig, GenerationsIssued, Dial, Cached, DnsExpire
  <2>3. GenerationsIssued'
    BY <1>12 DEF IInv, TypeOK, GenerationsIssued, Dial, Cached, DnsExpire
  <2>4. RejectedIsOlder'
    BY <1>12 DEF IInv, TypeOK, RejectedIsOlder, KeysPublished, GenerationsIssued, Dial, Cached, DnsExpire
  <2>5. KeysPublished'
    BY <1>12 DEF IInv, TypeOK, KeysPublished, GenerationsIssued, Dial, Cached, DnsExpire
  <2> QED BY <2>1, <2>2, <2>3, <2>4, <2>5 DEF IInv
<1>13. ASSUME NEW n \in Name, Lapse(n) PROVE IInv'
  <2>1. TypeOK'
    <3>1. [cache[n] EXCEPT !.fresh = FALSE] \in Cached
      <4>1. cache[n] \in Cached
        BY <1>13 DEF Lapse, Usable, IInv, TypeOK
      <4> QED BY <4>1 DEF Cached
    <3>2. cache' = [cache EXCEPT ![n] = [@ EXCEPT !.fresh = FALSE]]
      BY <1>13 DEF Lapse
    <3> QED BY <1>13, <3>1, <3>2 DEF Lapse, IInv, TypeOK
  <2>2. GenerationNamesConfig'
    BY <1>13 DEF IInv, TypeOK, GenerationNamesConfig, GenerationsIssued, Dial, Cached, Lapse, Usable
  <2>3. GenerationsIssued'
    BY <1>13 DEF IInv, TypeOK, GenerationsIssued, Dial, Cached, Lapse, Usable
  <2>4. RejectedIsOlder'
    BY <1>13 DEF IInv, TypeOK, RejectedIsOlder, KeysPublished, GenerationsIssued, Dial, Cached, Lapse, Usable
  <2>5. KeysPublished'
    BY <1>13 DEF IInv, TypeOK, KeysPublished, GenerationsIssued, Dial, Cached, Lapse, Usable
  <2> QED BY <2>1, <2>2, <2>3, <2>4, <2>5 DEF IInv
<1>14. ASSUME NEW c \in Conn, BuildStatic(c) PROVE IInv'
  <2>1. DnsKept(dnscache') /\ StaticKey \in Key /\ StaticKey <= serverKey[Z(c)]
    BY <1>14 DEF BuildStatic, DnsKept, IInv, TypeOK, KeysPublished, StaticKey, Dial
  <2>2. /\ KeepOrFail(c) \/ Install(c, StaticKey)
        /\ dial[c].pc = "build" /\ writer' = NoConn /\ steady' \subseteq Conn
        /\ UNCHANGED <<cfg, serverKey, published, lapses, evictions>>
    BY <1>14 DEF BuildStatic, Built, IInv, TypeOK
  <2> QED BY <2>1, <2>2, InstallStep, KeepStep
<1>15. ASSUME NEW c \in Conn, BuildAnswered(c) PROVE IInv'
  <2> DEFINE z == Z(c)
             k == Acquired(Answered(z).key)
  <2>1. z \in Zone
    BY DEF IInv, TypeOK, Dial
  <2>2. /\ Answered(z).key \in Key \cup {NoKey}
        /\ Answered(z).key \in Key => Answered(z).key <= serverKey[z]
        /\ DnsKept(Answered(z).cached)
    BY <2>1 DEF Answered, DnsKept, IInv, TypeOK, KeysPublished
  <2>3. k \in Key \cup {NoKey} /\ (k \in Key => k <= serverKey[z])
    <3>1. StaticKey \in Key /\ StaticKey <= serverKey[z]
      BY <2>1 DEF StaticKey, IInv, TypeOK
    <3>2. cfg.mode \in {"static", "doh", "doh-with-fallback"}
      BY DEF IInv, TypeOK
    <3> QED BY <2>2, <3>1, <3>2 DEF Acquired
  <2> HIDE DEF k
  <2>4. Built(c, k) /\ DnsKept(dnscache') /\ dial[c].pc = "build" /\ writer' = NoConn
        /\ steady' \subseteq Conn /\ UNCHANGED <<cfg, serverKey, published, lapses, evictions>>
    BY <1>15, <2>2 DEF BuildAnswered, k, IInv, TypeOK
  <2> QED BY <2>1, <2>3, <2>4, InstallStep, KeepStep DEF Built
<1>16. ASSUME NEW c \in Conn, BuildLookupFailed(c) PROVE IInv'
  <2>2. DnsKept(dnscache') /\ StaticKey \in Key /\ StaticKey <= serverKey[Z(c)]
    BY <1>16 DEF BuildLookupFailed, DnsKept, IInv, TypeOK, KeysPublished, StaticKey, Dial
  <2>3. /\ KeepOrFail(c) \/ Install(c, StaticKey)
        /\ dial[c].pc = "build" /\ writer' = NoConn /\ steady' \subseteq Conn
        /\ UNCHANGED <<cfg, serverKey, published, lapses, evictions>>
    BY <1>16 DEF BuildLookupFailed, IInv, TypeOK
  <2> QED BY <2>2, <2>3, InstallStep, KeepStep
<1>17. CASE UNCHANGED vars
  BY <1>17 DEF vars, IInv, TypeOK, GenerationNamesConfig, GenerationsIssued, RejectedIsOlder,
       KeysPublished
<1> QED BY <1>1, <1>2, <1>3, <1>4, <1>5, <1>6, <1>7, <1>8, <1>9, <1>10, <1>11, <1>12, <1>13, <1>14, <1>15, <1>16, <1>17 DEF Next, Step

LEMMA InitIInv == Init => IInv
<1> SUFFICES ASSUME Init PROVE IInv
  OBVIOUS
<1> USE EchAssumption DEF Init, Key
<1>1. \A c \in Conn : /\ dial[c] \in Dial /\ dial[c].pc = "idle" /\ dial[c].key = NoKey
                       /\ dial[c].generation = 0
  BY DEF Dial
<1>2. TypeOK
  <2>1. dial \in [Conn -> Dial]
    BY <1>1
  <2> QED BY <1>1, <2>1 DEF TypeOK
<1>3. GenerationNamesConfig /\ GenerationsIssued
  BY <1>1 DEF GenerationNamesConfig, GenerationsIssued
<1>4. RejectedIsOlder /\ KeysPublished
  BY <1>1 DEF RejectedIsOlder, KeysPublished
<1> QED BY <1>2, <1>3, <1>4 DEF IInv

(* Every variable keeps its type, and the write lock is held exactly by    *)
(* the connection that is fetching (EchProvider::client).                  *)
THEOREM EchTypeCorrect == Spec => []TypeOK
<1>1. IInv => TypeOK
  BY DEF IInv
<1> QED BY InitIInv, StepIInv, <1>1, PTL DEF Spec

(* A generation names one resolved config for good: Cached.generation in   *)
(* src/ech.rs.                                                             *)
THEOREM GenerationsNameConfigs == Spec => []GenerationNamesConfig
<1>1. IInv => GenerationNamesConfig
  BY DEF IInv
<1> QED BY InitIInv, StepIInv, <1>1, PTL DEF Spec

(* An entry disappears in no other step than an invalidation of its name. *)
LEMMA OnlyInvalidateEvicts ==
  ASSUME IInv, Next, NEW n \in Name, cache[n] # NoEntry, cache'[n] = NoEntry
  PROVE  \E c \in Conn : Invalidate(c) /\ dial[c].name = n
<1> USE EchAssumption DEF IInv, TypeOK
<1>1. NoEntry \notin Cached
  BY DEF Cached
<1>2. /\ \A e \in Cached : [e EXCEPT !.fresh = TRUE] \in Cached /\ [e EXCEPT !.fresh = FALSE] \in Cached
      /\ \A e \in Cached, a \in Alpn : ConfigFor(e, a) \in Cached
      /\ \A k \in Key \cup {NoKey} : Fresh(k) \in Cached
  <2>1. ASSUME NEW e \in Cached
        PROVE  [e EXCEPT !.fresh = TRUE] \in Cached /\ [e EXCEPT !.fresh = FALSE] \in Cached
    BY DEF Cached
  <2>2. ASSUME NEW e \in Cached, NEW a \in Alpn PROVE ConfigFor(e, a) \in Cached
    BY DEF ConfigFor, Cached
  <2>3. ASSUME NEW k \in Key \cup {NoKey} PROVE Fresh(k) \in Cached
    BY DEF Fresh, Cached
  <2> QED BY <2>1, <2>2, <2>3
<1>3. ASSUME NEW c \in Conn PROVE dial[c].name \in Name /\ dial[c].alpn \in Alpn
  BY DEF Dial
<1>4. ASSUME NEW c \in Conn, NEW k \in Key \cup {NoKey}, Install(c, k) PROVE FALSE
  BY <1>1, <1>2, <1>3, <1>4 DEF Install
<1>5. ASSUME NEW c \in Conn, KeepOrFail(c) PROVE FALSE
  <2>1. CASE cache[dial[c].name] # NoEntry
    <3>1. ConfigFor([cache[dial[c].name] EXCEPT !.fresh = TRUE], dial[c].alpn) \in Cached
      BY <1>2, <1>3, <2>1
    <3> QED BY <1>1, <1>5, <2>1, <3>1 DEF KeepOrFail
  <2> QED BY <1>5, <2>1 DEF KeepOrFail
<1>6. ASSUME NEW c \in Conn, LockFresh(c) PROVE FALSE
  BY <1>1, <1>2, <1>3, <1>6 DEF LockFresh, Usable
<1>7. ASSUME NEW m \in Name, Lapse(m) PROVE FALSE
  <2>1. cache' = [cache EXCEPT ![m] = [@ EXCEPT !.fresh = FALSE]]
    BY <1>7 DEF Lapse
  <2>2. m = n /\ cache[n] \in Cached
    BY <2>1
  <2> QED BY <1>1, <1>2, <2>1, <2>2
<1>8. StaticKey \in Key
  BY DEF StaticKey, Key
<1>9. ASSUME NEW c \in Conn, BuildAnswered(c) PROVE FALSE
  <2>1. Answered(Z(c)).key \in Key \cup {NoKey}
    BY <1>3 DEF Answered, Z
  <2>2. Acquired(Answered(Z(c)).key) \in Key \cup {NoKey}
    BY <1>8, <2>1 DEF Acquired
  <2> QED BY <1>4, <1>5, <1>9, <2>2 DEF BuildAnswered, Built
<1>10. ASSUME NEW c \in Conn, Invalidate(c) PROVE dial[c].name = n
  BY <1>3, <1>10 DEF Invalidate
<1>11. cache' # cache
  OBVIOUS
<1>12. PICK c \in Conn : Connect(c) \/ Step(c)
  BY <1>7, <1>11 DEF Next, Rotate, Publish, DnsExpire
<1> QED
  BY <1>4, <1>5, <1>6, <1>8, <1>9, <1>10, <1>11, <1>12
     DEF Step, Connect, FastPath, SlowPath, LockBuild, BuildStatic, BuildLookupFailed, Built,
         HandshakeOk, HandshakeRejected, HandshakeFails

(* However late a rejection is acted on, invalidate_after_rejection evicts *)
(* no config the server accepts.                                           *)
THEOREM AcceptedConfigsKept == Spec => AcceptedConfigKept
<1> DEFINE Kept == \A n \in Name : cache[n] # NoEntry /\ cache'[n] = NoEntry
                     => cache[n].key \in Key /\ cache[n].key < serverKey[LookupName[n]]
<1>1. ASSUME IInv, [Next]_vars, IInv' PROVE [Kept]_vars
  <2>1. ASSUME NEW n \in Name, cache[n] # NoEntry, cache'[n] = NoEntry, Next
        PROVE  cache[n].key \in Key /\ cache[n].key < serverKey[LookupName[n]]
    <3>1. PICK c \in Conn : Invalidate(c) /\ dial[c].name = n
      BY <1>1, <2>1, OnlyInvalidateEvicts
    <3>2. dial[c].pc = "rejected" /\ cache[n].generation = dial[c].generation
      BY <2>1, <3>1 DEF Invalidate, Current
    <3>3. dial[c].key \in Key /\ dial[c].key < serverKey[LookupName[n]]
      BY <3>1, <3>2, <1>1 DEF IInv, RejectedIsOlder, Z
    <3>4. dial[c].key = cache[n].key
      BY <1>1, <2>1, <3>2 DEF IInv, GenerationNamesConfig
    <3> QED BY <3>3, <3>4
  <2> QED BY <1>1, <2>1
<1> QED BY InitIInv, StepIInv, <1>1, PTL DEF Spec, AcceptedConfigKept

-----------------------------------------------------------------------------
(* What a step may do to the entry of a name and to the DNS cache. *)

Held(n) ==
  \/ cache[n] = NoEntry /\ cache'[n] = NoEntry
  \/ /\ cache[n] # NoEntry /\ cache'[n] # NoEntry
     /\ cache'[n].key = cache[n].key /\ cache'[n].generation = cache[n].generation
     /\ cache[n].fresh => cache'[n].fresh
     /\ cache'[n].fresh => cache[n].fresh \/ writer' = NoConn
Lapsing(n) ==
  /\ Usable(n) /\ cache'[n] # NoEntry /\ ~cache'[n].fresh /\ cache'[n].key = cache[n].key
  /\ lapses' = lapses + 1
Evicting(n) ==
  /\ cache[n] # NoEntry /\ cache'[n] = NoEntry
  /\ cfg.mode = "doh" => dnscache'[LookupName[n]] = NoRecord
Installing(n) ==
  /\ ~Usable(n) /\ cache'[n] # NoEntry /\ cache'[n].fresh /\ writer' = NoConn
  /\ cfg.mode = "doh" => \/ cache'[n].key = Answered(LookupName[n]).key
                         \/ steady' \cap {c \in Conn : Z(c) = LookupName[n]} = {}

(* A fetch only ever begins, and stays, under the name's unusable entry. *)
BuildsWhatIsMissing == \A c \in Conn : dial[c].pc = "build" => ~Usable(dial[c].name)

(* Every fetch beyond the names that are usable now was paid for by a      *)
(* lapse or an eviction.                                                   *)
FetchesCounted ==
  next_generation - 1 <= Cardinality({n \in Name : Usable(n)}) + lapses + evictions

(* A steady dial's zone publishes the key of its server. *)
SteadyPublished == \A c \in steady : published[Z(c)] = serverKey[Z(c)]

(* Nothing a dial could be given any more is an old key. *)
Healed(c) ==
  /\ dnscache[Z(c)] \in {serverKey[Z(c)], NoRecord}
  /\ cache[dial[c].name] # NoEntry => cache[dial[c].name].key = serverKey[Z(c)]

Lapsed(c, k) == lapses >= dial[c].since + k

(* A steady dial has been rejected no more often than entries lapsed under *)
(* it, and once besides: when a rejection is acted on, either the caches   *)
(* are cleared, or were, or the entry it stems from has lapsed meanwhile.  *)
RecoversAt(c) ==
  /\ dial[c].pc \in {"client", "wait", "build"} => Healed(c) \/ Lapsed(c, dial[c].attempt)
  /\ dial[c].pc \in {"hello", "rejected"} /\ dial[c].key \in Key /\ dial[c].key # serverKey[Z(c)] =>
       /\ Lapsed(c, dial[c].attempt)
       /\ \/ Healed(c)
          \/ Lapsed(c, dial[c].attempt + 1)
          \/ Usable(dial[c].name) /\ cache[dial[c].name].generation = dial[c].generation
  /\ dial[c].pc = "refused" => Lapsed(c, MaxRetries)
Recovering ==
  /\ \A c \in Conn : dial[c].since <= lapses /\ (dial[c].pc = "idle" => dial[c].attempt = 0)
  /\ cfg.mode = "doh" => \A c \in steady : RecoversAt(c)

RInv == IInv /\ BuildsWhatIsMissing /\ SteadyPublished /\ Recovering

(* The record of an entry: what assembling, refreshing or lapsing leaves. *)
LEMMA EntryTypes ==
  /\ NoEntry \notin Cached
  /\ \A e \in Cached, a \in Alpn :
       /\ ConfigFor(e, a) \in Cached
       /\ ConfigFor(e, a).key = e.key /\ ConfigFor(e, a).generation = e.generation
       /\ ConfigFor(e, a).fresh = e.fresh
  /\ \A e \in Cached, b \in BOOLEAN :
       /\ [e EXCEPT !.fresh = b] \in Cached /\ [e EXCEPT !.fresh = b].fresh = b
       /\ [e EXCEPT !.fresh = b].key = e.key /\ [e EXCEPT !.fresh = b].generation = e.generation
<1>1. NoEntry \notin Cached
  BY EchAssumption DEF Cached
<1>2. ASSUME NEW e \in Cached, NEW a \in Alpn
      PROVE  /\ ConfigFor(e, a) \in Cached
             /\ ConfigFor(e, a).key = e.key /\ ConfigFor(e, a).generation = e.generation
             /\ ConfigFor(e, a).fresh = e.fresh
  BY DEF ConfigFor, Cached
<1>3. ASSUME NEW e \in Cached, NEW b \in BOOLEAN
      PROVE  /\ [e EXCEPT !.fresh = b] \in Cached /\ [e EXCEPT !.fresh = b].fresh = b
             /\ [e EXCEPT !.fresh = b].key = e.key /\ [e EXCEPT !.fresh = b].generation = e.generation
  BY DEF Cached
<1> QED BY <1>1, <1>2, <1>3

(* What of its dial a connection does not change once it has begun. *)
Aimed(c) ==
  /\ dial'[c].name = dial[c].name /\ dial'[c].attempt = dial[c].attempt
  /\ dial'[c].since = dial[c].since

(* What a successful and a failed fetch do to the entries. *)
LEMMA InstallEffect ==
  ASSUME TypeOK, NEW c \in Conn, NEW k \in Key \cup {NoKey}, Install(c, k)
  PROVE  /\ cache'[dial[c].name] # NoEntry /\ cache'[dial[c].name].fresh
         /\ cache'[dial[c].name].key = k
         /\ cache'[dial[c].name].generation = next_generation
         /\ \A n \in Name \ {dial[c].name} : cache'[n] = cache[n]
         /\ \A x \in Conn \ {c} : dial'[x] = dial[x]
         /\ Aimed(c) /\ dial'[c].pc = "hello"
         /\ dial'[c].key = k /\ dial'[c].generation = next_generation
         /\ next_generation' = next_generation + 1
<1>1. dial[c].name \in Name /\ dial[c].alpn \in Alpn
  BY DEF TypeOK, Dial
<1>2. Fresh(k) \in Cached /\ Fresh(k).key = k /\ Fresh(k).generation = next_generation /\ Fresh(k).fresh
  BY DEF Fresh, Cached, TypeOK
<1> DEFINE e == ConfigFor(Fresh(k), dial[c].alpn)
<1>3. e \in Cached /\ e.key = k /\ e.generation = next_generation /\ e.fresh /\ e # NoEntry
  BY <1>1, <1>2, EntryTypes
<1>4. cache' = [cache EXCEPT ![dial[c].name] = e] /\ next_generation' = next_generation + 1
  BY DEF Install
<1> HIDE DEF e
<1>5. dial' = [dial EXCEPT ![c] = [@ EXCEPT !.pc = "hello", !.key = k, !.generation = next_generation]]
  BY DEF Install, Hold, Fresh
<1>6. Aimed(c) /\ dial'[c].pc = "hello" /\ dial'[c].key = k /\ dial'[c].generation = next_generation
  BY <1>5 DEF TypeOK, Dial, Aimed
<1> QED BY <1>1, <1>3, <1>4, <1>5, <1>6 DEF TypeOK, Usable

LEMMA KeepEffect ==
  ASSUME TypeOK, NEW c \in Conn, KeepOrFail(c)
  PROVE  LET n == dial[c].name IN
         /\ next_generation' = next_generation
         /\ \A m \in Name \ {n} : cache'[m] = cache[m]
         /\ \A x \in Conn \ {c} : dial'[x] = dial[x]
         /\ Aimed(c)
         /\ \/ /\ cache[n] = NoEntry /\ cache'[n] = NoEntry
               /\ dial'[c].pc = "failed"
            \/ /\ cache[n] # NoEntry /\ cache'[n] # NoEntry /\ cache'[n].fresh
               /\ cache'[n].key = cache[n].key /\ cache'[n].generation = cache[n].generation
               /\ dial'[c].pc = "hello" /\ dial'[c].key = cache[n].key
               /\ dial'[c].generation = cache[n].generation
<1> DEFINE n == dial[c].name
<1>1. n \in Name /\ dial[c].alpn \in Alpn
  BY DEF TypeOK, Dial
<1>2. CASE cache[n] = NoEntry
  BY <1>1, <1>2 DEF KeepOrFail, TypeOK, Dial, Aimed
<1>3. CASE cache[n] # NoEntry
  <2> DEFINE r == [cache[n] EXCEPT !.fresh = TRUE]
             e == ConfigFor(r, dial[c].alpn)
  <2>1. cache[n] \in Cached
    BY <1>1, <1>3 DEF TypeOK
  <2>2. r \in Cached /\ r.fresh /\ r.key = cache[n].key /\ r.generation = cache[n].generation
    BY <2>1, EntryTypes
  <2>3. /\ e \in Cached /\ e.fresh /\ e # NoEntry
        /\ e.key = cache[n].key /\ e.generation = cache[n].generation
    <3> HIDE DEF r
    <3> QED BY <1>1, <2>2, EntryTypes
  <2>4. cache' = [cache EXCEPT ![n] = e] /\ next_generation' = next_generation
    BY <1>3 DEF KeepOrFail
  <2>5. dial' = [dial EXCEPT ![c] = [@ EXCEPT !.pc = "hello", !.key = cache[n].key,
                                                !.generation = cache[n].generation]]
    BY <1>3 DEF KeepOrFail, Hold
  <2> HIDE DEF e, r
  <2>6. /\ Aimed(c) /\ dial'[c].pc = "hello" /\ dial'[c].key = cache[n].key
        /\ dial'[c].generation = cache[n].generation
    BY <2>5 DEF TypeOK, Dial, Aimed
  <2> QED BY <1>1, <1>3, <2>3, <2>4, <2>5, <2>6 DEF TypeOK, Usable
<1> QED BY <1>2, <1>3

LEMMA EntryStep ==
  ASSUME RInv, Next, NEW n \in Name
  PROVE  Held(n) \/ Lapsing(n) \/ Evicting(n) \/ Installing(n)
<1> USE EchAssumption, EntryTypes DEF RInv, IInv
<1>1. ASSUME NEW c \in Conn, Connect(c) \/ FastPath(c) \/ SlowPath(c) \/ LockBuild(c)
                             \/ HandshakeOk(c) \/ HandshakeRejected(c) \/ HandshakeFails(c)
      PROVE  Held(n)
  BY <1>1 DEF Held, Connect, FastPath, SlowPath, LockBuild, HandshakeOk, HandshakeRejected,
              HandshakeFails
<1>2. ASSUME NEW c \in Conn, LockFresh(c) PROVE Held(n)
  <2>1. /\ dial[c].name \in Name /\ dial[c].alpn \in Alpn /\ cache[dial[c].name] \in Cached
        /\ cache' = [cache EXCEPT ![dial[c].name] = ConfigFor(cache[dial[c].name], dial[c].alpn)]
    BY <1>2 DEF LockFresh, Usable, TypeOK, Dial
  <2> QED BY <2>1 DEF Held, TypeOK
<1>3. ASSUME NEW c \in Conn, NEW k \in Key \cup {NoKey}, Install(c, k), dial[c].pc = "build", writer' = NoConn,
             cfg.mode = "doh" => \/ k = Answered(Z(c)).key
                                 \/ steady' \cap {x \in Conn : Z(x) = Z(c)} = {}
      PROVE  Held(n) \/ Installing(n)
  <2>0. /\ cache'[dial[c].name] # NoEntry /\ cache'[dial[c].name].fresh
        /\ cache'[dial[c].name].key = k
        /\ \A m \in Name \ {dial[c].name} : cache'[m] = cache[m]
    BY ONLY <1>3, TypeOK, InstallEffect
  <2>1. CASE n = dial[c].name
    BY <1>3, <2>0, <2>1 DEF Installing, BuildsWhatIsMissing, Z
  <2>2. CASE n # dial[c].name
    BY <2>0, <2>2 DEF Held
  <2> QED BY <2>1, <2>2
<1>4. ASSUME NEW c \in Conn, KeepOrFail(c), writer' = NoConn PROVE Held(n)
  BY <1>4, KeepEffect DEF Held, Usable
<1>5. ASSUME NEW c \in Conn, BuildStatic(c) PROVE Held(n) \/ Installing(n)
  <2>1. StaticKey \in Key /\ cfg.mode # "doh"
    BY <1>5 DEF BuildStatic, StaticKey, Key
  <2> QED BY <1>3, <1>4, <1>5, <2>1 DEF BuildStatic, Built
<1>6. ASSUME NEW c \in Conn, BuildAnswered(c) PROVE Held(n) \/ Installing(n)
  <2>1. Answered(Z(c)).key \in Key \cup {NoKey}
    BY DEF Answered, TypeOK, Z, Dial
  <2>2. Acquired(Answered(Z(c)).key) \in Key \cup {NoKey}
    <3>1. StaticKey \in Key /\ cfg.mode \in {"static", "doh", "doh-with-fallback"}
      BY DEF StaticKey, Key, TypeOK
    <3> QED BY <2>1, <3>1 DEF Acquired
  <2>3. cfg.mode = "doh" => Acquired(Answered(Z(c)).key) = Answered(Z(c)).key
    BY DEF Acquired
  <2> QED BY <1>3, <1>4, <1>6, <2>2, <2>3 DEF BuildAnswered, Built
<1>7. ASSUME NEW c \in Conn, BuildLookupFailed(c) PROVE Held(n) \/ Installing(n)
  <2>1. StaticKey \in Key /\ steady' \cap {x \in Conn : Z(x) = Z(c)} = {}
    <3>1. steady' \cap {x \in Conn : Z(x) = Z(c)} = {}
      BY <1>7 DEF BuildLookupFailed, TypeOK
    <3> QED BY <3>1 DEF StaticKey, Key
  <2> QED BY <1>3, <1>4, <1>7, <2>1 DEF BuildLookupFailed
<1>8. ASSUME NEW c \in Conn, Invalidate(c) PROVE Held(n) \/ Evicting(n)
  <2>1. CASE Current(c) /\ n = dial[c].name
    <3>1. cache' = [cache EXCEPT ![n] = NoEntry] /\ dnscache' = Cleared(Z(c)) /\ cache[n] # NoEntry
      BY <1>8, <2>1 DEF Invalidate, Current
    <3>2. Z(c) = LookupName[n] /\ Z(c) \in Zone
      BY <2>1 DEF Z, TypeOK
    <3> QED BY <3>1, <3>2 DEF Evicting, Cleared, TypeOK
  <2>2. CASE ~(Current(c) /\ n = dial[c].name)
    BY <1>8, <2>2 DEF Invalidate, Held, TypeOK, Dial
  <2> QED BY <2>1, <2>2
<1>9. ASSUME NEW z \in Zone, Rotate(z) \/ Publish(z) \/ DnsExpire(z) PROVE Held(n)
  BY <1>9 DEF Rotate, Publish, DnsExpire, Held
<1>10. ASSUME NEW m \in Name, Lapse(m) PROVE Held(n) \/ Lapsing(n)
  <2>1. cache' = [cache EXCEPT ![m] = [cache[m] EXCEPT !.fresh = FALSE]] /\ Usable(m)
        /\ lapses' = lapses + 1 /\ cache[m] \in Cached
    BY <1>10 DEF Lapse, Usable, TypeOK
  <2>2. CASE m = n
    <3>1. cache'[n] = [cache[n] EXCEPT !.fresh = FALSE]
      BY <2>1, <2>2 DEF TypeOK
    <3>2. cache'[n] \in Cached /\ ~cache'[n].fresh /\ cache'[n].key = cache[n].key
      BY ONLY <2>1, <2>2, <3>1, EntryTypes
    <3> QED BY <2>1, <2>2, <3>2 DEF Lapsing
  <2>3. CASE m # n
    BY <2>1, <2>3 DEF Held, TypeOK
  <2> QED BY <2>2, <2>3
<1> QED
  BY <1>1, <1>2, <1>5, <1>6, <1>7, <1>8, <1>9, <1>10 DEF Next, Step

(* The resolver's cache only takes up what a zone publishes. *)
LEMMA DnsStep ==
  ASSUME RInv, Next, NEW z \in Zone
  PROVE  dnscache'[z] \in {dnscache[z], NoRecord, published[z]}
<1> USE DEF RInv, IInv, TypeOK, world
<1>1. ASSUME NEW c \in Conn, BuildAnswered(c)
      PROVE  dnscache'[z] \in {dnscache[z], published[z]}
  <2>1. dnscache' = dnscache \/ dnscache' = [dnscache EXCEPT ![Z(c)] = published[Z(c)]]
    BY <1>1 DEF BuildAnswered, Answered
  <2> QED BY <2>1
<1>2. ASSUME NEW c \in Conn, Invalidate(c) PROVE dnscache'[z] \in {dnscache[z], NoRecord}
  <2>1. dnscache' = dnscache \/ dnscache' = [dnscache EXCEPT ![Z(c)] = NoRecord]
    BY <1>2 DEF Invalidate, Cleared
  <2> QED BY <2>1
<1>3. ASSUME NEW x \in Zone, DnsExpire(x) PROVE dnscache'[z] \in {dnscache[z], NoRecord}
  BY <1>3 DEF DnsExpire
<1>4. CASE \E c \in Conn : Connect(c) \/ Step(c)
  BY <1>1, <1>2, <1>4 DEF Step, Connect, FastPath, SlowPath, LockFresh, LockBuild, BuildStatic,
       BuildLookupFailed, HandshakeOk, HandshakeRejected, HandshakeFails
<1> QED BY <1>3, <1>4 DEF Next, Rotate, Publish, Lapse

(* A connection's dial is advanced by its own steps, and keeps its name. *)
LEMMA DialStep ==
  ASSUME RInv, Next, NEW c \in Conn
  PROVE  /\ dial'[c].name = dial[c].name
         /\ Connect(c) \/ Step(c) \/ dial'[c] = dial[c]
<1> USE DEF RInv, IInv, world
<1>1. ASSUME NEW d \in Conn, NEW k \in Key \cup {NoKey}, Install(d, k)
      PROVE  dial'[c].name = dial[c].name /\ (c # d => dial'[c] = dial[c])
  BY ONLY <1>1, TypeOK, InstallEffect DEF Aimed
<1>2. ASSUME NEW d \in Conn, KeepOrFail(d)
      PROVE  dial'[c].name = dial[c].name /\ (c # d => dial'[c] = dial[c])
  BY ONLY <1>2, TypeOK, KeepEffect DEF Aimed
<1>3. ASSUME NEW d \in Conn, BuildStatic(d) \/ BuildAnswered(d) \/ BuildLookupFailed(d)
      PROVE  dial'[c].name = dial[c].name /\ (c # d => dial'[c] = dial[c])
  <2>1. StaticKey \in Key /\ Answered(Z(d)).key \in Key \cup {NoKey}
    BY EchAssumption DEF StaticKey, Key, Answered, TypeOK, Z, Dial
  <2>2. Acquired(Answered(Z(d)).key) \in Key \cup {NoKey}
    BY <2>1, EchAssumption DEF Acquired, TypeOK
  <2> QED BY <1>1, <1>2, <1>3, <2>1, <2>2 DEF BuildStatic, BuildAnswered, BuildLookupFailed, Built
<1>4. ASSUME NEW d \in Conn, FastPath(d) \/ LockFresh(d)
      PROVE  dial'[c].name = dial[c].name /\ (c # d => dial'[c] = dial[c])
  <2>1. PICK e : dial' = [dial EXCEPT ![d] = [@ EXCEPT !.pc = "hello", !.key = e.key,
                                                        !.generation = e.generation]]
    BY <1>4 DEF FastPath, LockFresh, Hold
  <2> QED BY <2>1 DEF TypeOK, Dial
<1>8. ASSUME NEW d \in Conn, SlowPath(d) \/ LockBuild(d) \/ HandshakeFails(d)
                \/ HandshakeOk(d) \/ HandshakeRejected(d)
      PROVE  dial'[c].name = dial[c].name /\ (c # d => dial'[c] = dial[c])
  <2>1. PICK p : dial' = [dial EXCEPT ![d].pc = p]
    BY <1>8 DEF SlowPath, LockBuild, HandshakeFails, HandshakeOk, HandshakeRejected
  <2> QED BY <2>1 DEF TypeOK, Dial
<1>9. ASSUME NEW d \in Conn, Invalidate(d) \/ Connect(d)
      PROVE  dial'[c].name = dial[c].name /\ (c # d => dial'[c] = dial[c])
  BY <1>9 DEF Invalidate, Connect, TypeOK, Dial
<1>5. ASSUME UNCHANGED dial PROVE dial'[c] = dial[c]
  BY <1>5
<1>6. CASE \E d \in Conn : Connect(d) \/ Step(d)
  BY <1>3, <1>4, <1>6, <1>8, <1>9 DEF Step
<1>7. CASE (\E z \in Zone : Rotate(z) \/ Publish(z) \/ DnsExpire(z)) \/ (\E n \in Name : Lapse(n))
  BY <1>5, <1>7 DEF Rotate, Publish, DnsExpire, Lapse
<1> QED BY <1>6, <1>7 DEF Next

(* Only the holder of the write lock fetches. *)
LEMMA BuildsStep ==
  ASSUME RInv, IInv', Next
  PROVE  BuildsWhatIsMissing'
<1> USE DEF RInv, IInv
<1> SUFFICES ASSUME NEW c \in Conn, dial'[c].pc = "build" PROVE ~Usable(dial[c].name)'
  BY DEF BuildsWhatIsMissing
<1> DEFINE n == dial[c].name
<1>1. n \in Name /\ dial'[c].name = n /\ writer' = c /\ c # NoConn
  BY EchAssumption, DialStep DEF TypeOK, Dial
<1>2. CASE dial[c].pc = "build"
  <2>1. ~Usable(n)
    BY <1>2 DEF BuildsWhatIsMissing
  <2>2. Held(n) \/ Lapsing(n) \/ Evicting(n) \/ Installing(n)
    BY <1>1, EntryStep
  <2> QED BY ONLY <1>1, <2>1, <2>2 DEF Held, Lapsing, Evicting, Installing, Usable
<1>3. CASE LockBuild(c)
  BY <1>1, <1>3 DEF LockBuild, Usable
<1>4. ASSUME dial[c].pc # "build" PROVE LockBuild(c)
  <2>1. Connect(c) \/ Step(c)
    BY <1>4, DialStep
  <2>2. dial[c] \in Dial /\ writer # c
    BY <1>4 DEF TypeOK
  <2>3. writer' # writer
    BY <1>1, <2>2
  <2> QED BY <1>1, <2>1, <2>3 DEF Connect, Step, FastPath, SlowPath, LockFresh, BuildStatic, BuildAnswered,
       BuildLookupFailed, HandshakeOk, HandshakeRejected, HandshakeFails, Invalidate
<1> QED BY <1>2, <1>3, <1>4

(* While a dial stays steady its zone and its server stand still. *)
LEMMA SteadyStep ==
  ASSUME RInv, IInv', Next
  PROVE  /\ SteadyPublished'
         /\ \A c \in steady' : Connect(c) \/ c \in steady
         /\ \A c \in steady \cap steady' : serverKey'[Z(c)] = serverKey[Z(c)]
<1> USE DEF RInv, IInv
<1>0. \A c \in Conn : Z(c)' = Z(c) /\ Z(c) \in Zone
  BY DialStep, EchAssumption DEF Z, TypeOK, Dial
<1> DEFINE Goal == /\ \A c \in steady' : published'[Z(c)] = serverKey'[Z(c)]
                   /\ \A c \in steady' : Connect(c) \/ c \in steady
                   /\ \A c \in steady \cap steady' : serverKey'[Z(c)] = serverKey[Z(c)]
<1>1. ASSUME NEW d \in Conn, Connect(d) PROVE Goal
  BY <1>1 DEF Connect, SteadyPublished
<1>2. ASSUME NEW d \in Conn, Step(d) PROVE Goal
  <2>1. UNCHANGED <<serverKey, published>> /\ steady' \subseteq steady
    BY <1>2 DEF Step, world, FastPath, SlowPath, LockFresh, LockBuild, BuildStatic, BuildAnswered,
         BuildLookupFailed, HandshakeOk, HandshakeRejected, HandshakeFails, Invalidate
  <2> QED BY <2>1 DEF SteadyPublished
<1>3. ASSUME NEW z \in Zone, Rotate(z) PROVE Goal
  <2>1. /\ steady' = {x \in steady : Z(x) = z => serverKey'[z] = published'[z]}
        /\ published' = published /\ serverKey' = [serverKey EXCEPT ![z] = @ + 1]
        /\ serverKey[z] \in Nat
    BY <1>3, EchAssumption DEF Rotate, Resteady, TypeOK, Key
  <2>2. \A c \in steady : Z(c) = z => c \notin steady'
    BY <2>1 DEF SteadyPublished, TypeOK
  <2> QED BY <1>0, <2>1, <2>2 DEF SteadyPublished, TypeOK
<1>4. ASSUME NEW z \in Zone, Publish(z) PROVE Goal
  <2>1. /\ steady' = {x \in steady : Z(x) = z => serverKey'[z] = published'[z]}
        /\ serverKey' = serverKey /\ \A y \in Zone \ {z} : published'[y] = published[y]
    BY <1>4 DEF Publish, Resteady, TypeOK
  <2> QED BY <1>0, <2>1 DEF SteadyPublished, TypeOK
<1>5. ASSUME (\E z \in Zone : DnsExpire(z)) \/ (\E n \in Name : Lapse(n)) PROVE Goal
  BY <1>5 DEF DnsExpire, Lapse, world, SteadyPublished
<1>6. Goal
  BY <1>1, <1>2, <1>3, <1>4, <1>5 DEF Next
<1>7. SteadyPublished'
  BY <1>0, <1>6 DEF SteadyPublished, TypeOK
<1> QED BY <1>6, <1>7

(* Once both caches have let go of an old key, a steady dial never sees it *)
(* again.                                                                  *)
LEMMA HealedStep ==
  ASSUME RInv, IInv', Next, cfg.mode = "doh", NEW c \in steady \cap steady', Healed(c)
  PROVE  Healed(c)'
<1> USE DEF RInv, IInv
<1> DEFINE n == dial[c].name
<1>1. /\ c \in Conn /\ n \in Name /\ Z(c) \in Zone /\ Z(c) = LookupName[n]
      /\ dial'[c].name = n /\ Z(c)' = Z(c)
  BY DialStep, EchAssumption DEF Z, TypeOK, Dial
<1>2. serverKey'[Z(c)] = serverKey[Z(c)] /\ published[Z(c)] = serverKey[Z(c)]
  BY SteadyStep DEF SteadyPublished
<1>3. dnscache'[Z(c)] \in {serverKey[Z(c)], NoRecord}
  BY <1>1, <1>2, DnsStep DEF Healed
<1>4. Held(n) \/ Lapsing(n) \/ Evicting(n) \/ Installing(n)
  BY <1>1, EntryStep
<1>5. CASE Installing(n)
  <2>1. cache'[n].key = Answered(Z(c)).key
    BY <1>1, <1>5 DEF Installing
  <2>2. Answered(Z(c)).key = serverKey[Z(c)]
    BY <1>2 DEF Healed, Answered
  <2> QED BY <1>1, <1>2, <1>3, <2>1, <2>2 DEF Healed
<1>6. CASE Held(n) \/ Lapsing(n) \/ Evicting(n)
  BY <1>1, <1>2, <1>3, <1>6 DEF Healed, Held, Lapsing, Evicting, Usable
<1> QED BY <1>4, <1>5, <1>6

LEMMA LapsesStep == ASSUME RInv, Next PROVE lapses' \in Nat /\ lapses' >= lapses /\ cfg' = cfg
<1>1. \A c \in Conn : Connect(c) \/ Step(c) => lapses' = lapses /\ cfg' = cfg
  BY DEF Connect, Step, world, FastPath, SlowPath, LockFresh, LockBuild, BuildStatic, BuildAnswered,
         BuildLookupFailed, HandshakeOk, HandshakeRejected, HandshakeFails, Invalidate
<1>2. \A z \in Zone : Rotate(z) \/ Publish(z) \/ DnsExpire(z) => lapses' = lapses /\ cfg' = cfg
  BY DEF Rotate, Publish, DnsExpire, world
<1>3. \A n \in Name : Lapse(n) => lapses' = lapses + 1 /\ cfg' = cfg
  BY DEF Lapse
<1> QED BY <1>1, <1>2, <1>3 DEF Next, RInv, IInv, TypeOK

(* What others do leaves a steady dial as near to recovery as it was. *)
LEMMA OthersStep ==
  ASSUME RInv, IInv', Next, cfg.mode = "doh", NEW c \in steady \cap steady', RecoversAt(c),
         UNCHANGED dial[c]
  PROVE  RecoversAt(c)'
<1> USE DEF RInv, IInv
<1> DEFINE n == dial[c].name
<1>1. /\ c \in Conn /\ n \in Name /\ Z(c)' = Z(c) /\ LookupName[n] = Z(c)
      /\ dial[c].since \in Nat /\ dial[c].attempt \in Nat /\ lapses \in Nat
  BY DialStep DEF Z, TypeOK, Dial
<1>2. serverKey'[Z(c)] = serverKey[Z(c)] /\ lapses' \in Nat /\ lapses' >= lapses
  BY SteadyStep, LapsesStep
<1>3. Healed(c) => Healed(c)'
  BY HealedStep
<1>4. \A k \in Nat : Lapsed(c, k) => Lapsed(c, k)'
  BY <1>1, <1>2 DEF Lapsed
<1>5. dial[c].pc \in {"client", "wait", "build"} => Healed(c)' \/ Lapsed(c, dial[c].attempt)'
  BY <1>1, <1>3, <1>4 DEF RecoversAt
<1>6. ASSUME dial[c].pc \in {"hello", "rejected"}, dial[c].key \in Key, dial[c].key # serverKey[Z(c)]
      PROVE  /\ Lapsed(c, dial[c].attempt)'
             /\ \/ Healed(c)'
                \/ Lapsed(c, dial[c].attempt + 1)'
                \/ Usable(n)' /\ cache'[n].generation = dial[c].generation
  <2>1. Lapsed(c, dial[c].attempt)'
    BY <1>1, <1>4, <1>6 DEF RecoversAt
  <2>2. CASE Usable(n) /\ cache[n].generation = dial[c].generation
    <3>1. Held(n) \/ Lapsing(n) \/ Evicting(n)
      BY <1>1, <2>2, EntryStep DEF Installing
    <3>2. Held(n) => Usable(n)' /\ cache'[n].generation = dial[c].generation
      BY <2>2 DEF Held, Usable
    <3>3. Lapsing(n) => Lapsed(c, dial[c].attempt + 1)'
      BY <1>1, <1>6 DEF Lapsing, RecoversAt, Lapsed
    <3>4. Evicting(n) => Healed(c)'
      BY <1>1 DEF Evicting, Healed
    <3> QED BY <2>1, <3>1, <3>2, <3>3, <3>4
  <2>3. CASE Healed(c) \/ Lapsed(c, dial[c].attempt + 1)
    BY <1>1, <1>3, <1>4, <2>1, <2>3
  <2> QED BY <1>6, <2>2, <2>3 DEF RecoversAt
<1>7. dial[c].pc = "refused" => Lapsed(c, MaxRetries)'
  BY <1>1, <1>4, EchAssumption DEF RecoversAt
<1> QED BY <1>1, <1>2, <1>5, <1>6, <1>7 DEF RecoversAt

(* A config taken while the caches may hold an old key. *)
LEMMA TakeStep ==
  ASSUME RInv, IInv', Next, cfg.mode = "doh", NEW c \in steady \cap steady', RecoversAt(c),
         dial[c].pc \in {"client", "wait", "build"}, dial'[c].pc = "hello", Aimed(c),
         Usable(dial[c].name)', dial'[c].generation = cache'[dial[c].name].generation,
         dial'[c].key = cache'[dial[c].name].key
  PROVE  RecoversAt(c)'
<1> USE DEF RInv, IInv
<1> DEFINE n == dial[c].name
<1>1. /\ c \in Conn /\ n \in Name /\ Z(c)' = Z(c) /\ dial'[c].name = n
      /\ dial[c].since \in Nat /\ dial[c].attempt \in Nat /\ lapses \in Nat
      /\ dial'[c].attempt = dial[c].attempt /\ dial'[c].since = dial[c].since
  BY DialStep DEF Z, TypeOK, Dial, Aimed
<1>2. lapses' \in Nat /\ lapses' >= lapses
  BY LapsesStep
<1>3. Healed(c) => dial'[c].key = serverKey'[Z(c)]
  <2>1. Healed(c) => Healed(c)'
    BY HealedStep
  <2> QED BY <1>1, <2>1 DEF Healed, Usable
<1>4. Lapsed(c, dial[c].attempt) => Lapsed(c, dial[c].attempt)'
  BY <1>1, <1>2 DEF Lapsed
<1> QED BY <1>1, <1>3, <1>4 DEF RecoversAt

(* A step of the dial itself. *)
LEMMA OwnStep ==
  ASSUME RInv, IInv', Next, cfg.mode = "doh", NEW c \in steady \cap steady', RecoversAt(c), Step(c)
  PROVE  RecoversAt(c)'
<1> USE DEF RInv, IInv
<1> DEFINE n == dial[c].name
<1>1. /\ c \in Conn /\ n \in Name /\ Z(c)' = Z(c) /\ dial'[c].name = n /\ Z(c) = LookupName[n]
      /\ dial[c].since \in Nat /\ dial[c].attempt \in Nat /\ lapses \in Nat /\ Z(c) \in Zone
      /\ dial[c] \in Dial
  BY DialStep, EchAssumption DEF Z, TypeOK, Dial
<1>2. lapses' \in Nat /\ lapses' >= lapses /\ serverKey'[Z(c)] = serverKey[Z(c)]
  BY LapsesStep, SteadyStep
<1>3. Healed(c) => Healed(c)'
  BY HealedStep
<1>4. ASSUME FastPath(c) PROVE RecoversAt(c)'
  <2>1. /\ Usable(n) /\ cache' = cache /\ dial[c].pc = "client"
        /\ dial' = [dial EXCEPT ![c] = [@ EXCEPT !.pc = "hello", !.key = cache[n].key,
                                                 !.generation = cache[n].generation]]
    BY <1>4 DEF FastPath, Hold
  <2>2. /\ Aimed(c) /\ dial'[c].pc = "hello" /\ dial'[c].key = cache[n].key
        /\ dial'[c].generation = cache[n].generation
    BY <1>1, <2>1 DEF TypeOK, Dial, Aimed
  <2> QED BY <1>1, <2>1, <2>2, TakeStep DEF Usable
<1>5. ASSUME LockFresh(c) PROVE RecoversAt(c)'
  <2>1. /\ Usable(n) /\ cache' = [cache EXCEPT ![n] = ConfigFor(@, dial[c].alpn)]
        /\ dial[c].pc = "wait"
        /\ dial' = [dial EXCEPT ![c] = [@ EXCEPT !.pc = "hello", !.key = cache[n].key,
                                                 !.generation = cache[n].generation]]
    BY <1>5 DEF LockFresh, Hold
  <2>2. /\ Aimed(c) /\ dial'[c].pc = "hello" /\ dial'[c].key = cache[n].key
        /\ dial'[c].generation = cache[n].generation
    BY <1>1, <2>1 DEF TypeOK, Dial, Aimed
  <2>3. /\ cache'[n] = ConfigFor(cache[n], dial[c].alpn)
        /\ cache[n] \in Cached /\ dial[c].alpn \in Alpn
    BY <1>1, <2>1 DEF TypeOK, Usable, Dial
  <2>4. /\ cache'[n] # NoEntry /\ cache'[n].fresh /\ cache'[n].key = cache[n].key
        /\ cache'[n].generation = cache[n].generation
    BY <2>1, <2>3, EntryTypes DEF Usable
  <2> QED BY <1>1, <2>1, <2>2, <2>4, TakeStep DEF Usable
<1>6. ASSUME SlowPath(c) \/ LockBuild(c) PROVE RecoversAt(c)'
  <2>1. PICK p \in {"wait", "build"} :
          dial' = [dial EXCEPT ![c].pc = p] /\ dial[c].pc \in {"client", "wait"}
    BY <1>6 DEF SlowPath, LockBuild
  <2>2. dial'[c].pc \in {"wait", "build"} /\ Aimed(c)
    BY <1>1, <2>1 DEF Aimed, TypeOK, Dial
  <2> QED BY <1>1, <1>2, <1>3, <2>1, <2>2 DEF RecoversAt, Lapsed, Aimed
<1>7. ASSUME NEW k \in Key \cup {NoKey}, Install(c, k), dial[c].pc = "build" PROVE RecoversAt(c)'
  <2>1. /\ cache'[n] # NoEntry /\ cache'[n].fresh /\ cache'[n].key = k
        /\ cache'[n].generation = next_generation
        /\ Aimed(c) /\ dial'[c].pc = "hello"
        /\ dial'[c].key = k /\ dial'[c].generation = next_generation
    BY ONLY <1>1, <1>7, TypeOK, InstallEffect
  <2> QED BY <1>1, <1>7, <2>1, TakeStep DEF Usable
<1>8. ASSUME KeepOrFail(c), dial[c].pc = "build" PROVE RecoversAt(c)'
  <2>1. CASE dial'[c].pc = "failed"
    BY <2>1 DEF RecoversAt
  <2>2. CASE dial'[c].pc # "failed"
    <3>1. /\ cache'[n] # NoEntry /\ cache'[n].fresh
          /\ cache'[n].key = cache[n].key /\ cache'[n].generation = cache[n].generation
          /\ Aimed(c) /\ dial'[c].pc = "hello" /\ dial'[c].key = cache[n].key
          /\ dial'[c].generation = cache[n].generation
      BY ONLY <1>1, <1>8, <2>2, TypeOK, KeepEffect
    <3> QED BY <1>1, <1>8, <3>1, TakeStep DEF Usable
  <2> QED BY <2>1, <2>2
<1>9. ASSUME BuildAnswered(c) PROVE RecoversAt(c)'
  <2>1. Acquired(Answered(Z(c)).key) \in Key \cup {NoKey}
    BY <1>1 DEF Answered, Acquired, TypeOK
  <2> QED BY <1>7, <1>8, <1>9, <2>1 DEF BuildAnswered, Built
<1>10. ~BuildStatic(c) /\ ~BuildLookupFailed(c)
  BY <1>1 DEF BuildStatic, BuildLookupFailed
<1>11. ASSUME HandshakeOk(c) \/ HandshakeFails(c) PROVE RecoversAt(c)'
  <2>1. PICK p \in {"ok", "failed"} : dial' = [dial EXCEPT ![c].pc = p]
    BY <1>11 DEF HandshakeOk, HandshakeFails
  <2>2. dial'[c].pc \in {"ok", "failed"}
    BY <1>1, <2>1 DEF TypeOK, Dial
  <2> QED BY <2>2 DEF RecoversAt
<1>12. ASSUME HandshakeRejected(c) PROVE RecoversAt(c)'
  <2>1. PICK p \in {"rejected", "refused"} :
          /\ dial' = [dial EXCEPT ![c].pc = p] /\ dial[c].pc = "hello"
          /\ p = "refused" => dial[c].attempt >= MaxRetries
    <3>1. CASE dial[c].attempt < MaxRetries
      BY <1>12, <3>1 DEF HandshakeRejected
    <3>2. CASE ~(dial[c].attempt < MaxRetries)
      <4>1. dial' = [dial EXCEPT ![c].pc = "refused"] /\ dial[c].pc = "hello"
        BY <1>12, <3>2 DEF HandshakeRejected
      <4>2. dial[c].attempt >= MaxRetries
        BY <1>1, <3>2, EchAssumption
      <4> QED BY <4>1, <4>2
    <3> QED BY <3>1, <3>2
  <2>2. /\ dial'[c].pc = p /\ Aimed(c) /\ dial'[c].key = dial[c].key
        /\ dial'[c].generation = dial[c].generation
    BY <1>1, <2>1 DEF Aimed, TypeOK, Dial
  <2>3. dial[c].key \in Key /\ dial[c].key # serverKey[Z(c)] /\ UNCHANGED <<cache, lapses>>
    BY <1>1, <1>12 DEF HandshakeRejected, Accepts, Dial, world
  <2>4. Lapsed(c, dial[c].attempt)
    BY <2>1, <2>3 DEF RecoversAt
  <2>5. CASE p = "refused"
    BY <1>1, <1>2, <2>1, <2>2, <2>4, <2>5, EchAssumption DEF RecoversAt, Lapsed, Aimed
  <2>6. CASE p = "rejected"
    BY <1>1, <1>2, <1>3, <2>1, <2>2, <2>3, <2>4, <2>6 DEF RecoversAt, Lapsed, Aimed, Usable
  <2> QED BY <2>5, <2>6
<1>13. ASSUME Invalidate(c) PROVE RecoversAt(c)'
  <2>1. /\ dial' = [dial EXCEPT ![c].pc = "client", ![c].attempt = @ + 1] /\ dial[c].pc = "rejected"
    BY <1>13 DEF Invalidate
  <2>2. /\ dial'[c].pc = "client" /\ dial'[c].attempt = dial[c].attempt + 1
        /\ dial'[c].since = dial[c].since
    BY <1>1, <2>1 DEF TypeOK, Dial
  <2>3. dial[c].key \in Key /\ dial[c].key # serverKey[Z(c)]
    BY <1>1, <2>1, EchAssumption DEF RejectedIsOlder, TypeOK, Key
  <2>4. CASE Current(c)
    <3>1. cache'[n] = NoEntry /\ dnscache'[Z(c)] = NoRecord
      BY <1>1, <1>13, <2>4 DEF Invalidate, Cleared, TypeOK
    <3> QED BY <1>1, <2>2, <3>1 DEF RecoversAt, Healed
  <2>5. CASE ~Current(c)
    <3>1. Healed(c) \/ Lapsed(c, dial[c].attempt + 1)
      BY <2>1, <2>3, <2>5 DEF RecoversAt, Current, Usable
    <3> QED BY <1>1, <1>2, <1>3, <2>2, <3>1 DEF RecoversAt, Lapsed
  <2> QED BY <2>4, <2>5
<1> QED BY <1>4, <1>5, <1>6, <1>9, <1>10, <1>11, <1>12, <1>13 DEF Step

(* A dial has been retried only once begun, and begins with the lapses so  *)
(* far.                                                                    *)
LEMMA BegunStep ==
  ASSUME RInv, Next, NEW c \in Conn
  PROVE  dial'[c].since <= lapses' /\ (dial'[c].pc = "idle" => dial'[c].attempt = 0)
<1> USE DEF RInv, IInv
<1>1. /\ dial[c] \in Dial /\ lapses \in Nat /\ lapses' \in Nat /\ lapses' >= lapses
      /\ dial[c].since \in Nat /\ dial[c].since <= lapses
      /\ dial[c].pc = "idle" => dial[c].attempt = 0
  BY LapsesStep DEF TypeOK, Recovering, Dial
<1>2. CASE dial'[c] = dial[c]
  BY <1>1, <1>2
<1>3. ASSUME Connect(c) PROVE dial'[c].since = lapses /\ dial'[c].pc = "client"
  BY <1>3 DEF Connect, TypeOK, Dial
<1>4. ASSUME Step(c) PROVE dial'[c].since = dial[c].since /\ dial'[c].pc # "idle"
  <2>1. ASSUME NEW k \in Key \cup {NoKey}, Install(c, k) PROVE Aimed(c) /\ dial'[c].pc # "idle"
    BY ONLY <2>1, TypeOK, InstallEffect
  <2>2. ASSUME KeepOrFail(c) PROVE Aimed(c) /\ dial'[c].pc # "idle"
    BY ONLY <2>2, TypeOK, KeepEffect
  <2>3. /\ StaticKey \in Key
        /\ Answered(Z(c)).key \in Key \cup {NoKey}
        /\ Acquired(Answered(Z(c)).key) \in Key \cup {NoKey}
    <3>1. StaticKey \in Key /\ Answered(Z(c)).key \in Key \cup {NoKey}
      BY EchAssumption DEF StaticKey, Key, Answered, TypeOK, Z, Dial
    <3> QED BY <3>1, EchAssumption DEF Acquired, TypeOK
  <2>4. ASSUME BuildStatic(c) \/ BuildAnswered(c) \/ BuildLookupFailed(c)
        PROVE  Aimed(c) /\ dial'[c].pc # "idle"
    BY <2>1, <2>2, <2>3, <2>4 DEF BuildStatic, BuildAnswered, BuildLookupFailed, Built
  <2>5. ASSUME FastPath(c) \/ LockFresh(c) PROVE Aimed(c) /\ dial'[c].pc # "idle"
    <3>1. PICK e : dial' = [dial EXCEPT ![c] = [@ EXCEPT !.pc = "hello", !.key = e.key,
                                                          !.generation = e.generation]]
      BY <2>5 DEF FastPath, LockFresh, Hold
    <3> QED BY <1>1, <3>1 DEF Dial, Aimed, TypeOK
  <2>6. ASSUME SlowPath(c) \/ LockBuild(c) \/ HandshakeFails(c) \/ HandshakeOk(c) \/ HandshakeRejected(c)
        PROVE  Aimed(c) /\ dial'[c].pc # "idle"
    <3>1. PICK p : dial' = [dial EXCEPT ![c].pc = p] /\ p # "idle"
      BY <2>6 DEF SlowPath, LockBuild, HandshakeFails, HandshakeOk, HandshakeRejected
    <3> QED BY <1>1, <3>1 DEF Dial, Aimed, TypeOK
  <2>7. ASSUME Invalidate(c) PROVE dial'[c].since = dial[c].since /\ dial'[c].pc # "idle"
    BY <1>1, <2>7 DEF Invalidate, Dial, TypeOK
  <2> QED BY <1>4, <2>4, <2>5, <2>6, <2>7 DEF Step, Aimed
<1> QED BY <1>1, <1>2, <1>3, <1>4, DialStep

LEMMA RecoveringStep ==
  ASSUME RInv, IInv', Next
  PROVE  Recovering'
<1> USE DEF RInv, IInv
<1>1. ASSUME cfg.mode = "doh", NEW c \in steady' PROVE RecoversAt(c)'
  <2>0. c \in Conn
    BY DEF TypeOK
  <2>1. CASE Connect(c)
    <3>1. dial'[c].pc = "client" /\ dial'[c].since = lapses /\ lapses' = lapses
          /\ dial'[c].attempt = 0 /\ lapses \in Nat
      BY <2>0, <2>1 DEF Connect, TypeOK, Dial, Recovering
    <3> QED BY <3>1 DEF RecoversAt, Lapsed
  <2>2. CASE ~Connect(c)
    <3>1. c \in steady /\ RecoversAt(c)
      BY <1>1, <2>2, SteadyStep DEF Recovering
    <3>2. Step(c) \/ UNCHANGED dial[c]
      BY <2>0, <2>2, DialStep
    <3> QED BY <1>1, <3>1, <3>2, OwnStep, OthersStep
  <2> QED BY <2>1, <2>2
<1>2. cfg' = cfg
  BY LapsesStep
<1> QED BY <1>1, <1>2, BegunStep DEF Recovering

LEMMA RInvInductive == ASSUME RInv, [Next]_vars PROVE RInv'
<1>1. IInv'
  BY StepIInv DEF RInv
<1>2. CASE Next
  BY <1>1, <1>2, BuildsStep, SteadyStep, RecoveringStep DEF RInv
<1>3. CASE UNCHANGED vars
  <2>1. BuildsWhatIsMissing' /\ SteadyPublished'
    BY <1>3 DEF vars, RInv, BuildsWhatIsMissing, SteadyPublished, Usable, Z
  <2>2. Recovering'
    BY <1>3 DEF vars, RInv, Recovering, RecoversAt, Healed, Lapsed, Usable, Z
  <2> QED BY <1>1, <2>1, <2>2 DEF RInv
<1> QED BY <1>2, <1>3

LEMMA InitRInv == Init => RInv
<1> SUFFICES ASSUME Init PROVE RInv
  OBVIOUS
<1>1. \A c \in Conn : dial[c].pc = "idle" /\ dial[c].attempt = 0 /\ dial[c].since = 0
  BY DEF Init
<1>2. steady = {} /\ lapses = 0
  BY DEF Init
<1> QED BY <1>1, <1>2, InitIInv DEF RInv, BuildsWhatIsMissing, SteadyPublished, Recovering

(* A dial during which the zone always published the server's key and      *)
(* every lookup was answered is refused for its key only if entries lapsed *)
(* under it as often as it may retry: however rotations, evictions and     *)
(* rejections of other dials interleave, and however many inner names      *)
(* share the zone, the retries of dial_ech outlast both caches.            *)
THEOREM DialsRecover == Spec => []DialRecovers
<1>1. RInv => DialRecovers
  <2> SUFFICES ASSUME RInv, cfg.mode = "doh", NEW c \in Conn, dial[c].pc = "refused", c \in steady
               PROVE  lapses - dial[c].since >= MaxRetries
    BY DEF DialRecovers
  <2>1. lapses >= dial[c].since + MaxRetries
    BY DEF RInv, Recovering, RecoversAt, Lapsed
  <2>2. lapses \in Nat /\ dial[c].since \in Nat /\ MaxRetries \in Nat
    BY EchAssumption DEF RInv, IInv, TypeOK, Dial
  <2> QED BY <2>1, <2>2
<1> QED BY InitRInv, RInvInductive, <1>1, PTL DEF Spec

-----------------------------------------------------------------------------
(* How often the zone is asked. *)

UsableNames == {n \in Name : Usable(n)}

LEMMA UsableInNames == UsableNames \subseteq Name /\ UsableNames' \subseteq Name
  BY DEF UsableNames

LEMMA UsableFinite ==
  /\ IsFiniteSet(UsableNames) /\ IsFiniteSet(UsableNames')
  /\ Cardinality(UsableNames) \in Nat /\ Cardinality(UsableNames') \in Nat
  /\ Cardinality(UsableNames) <= Cardinality(Name)
<1>1. UsableNames \in SUBSET Name /\ UsableNames' \in SUBSET Name
  BY DEF UsableNames
<1>2. IsFiniteSet(Name)
  BY EchAssumption
<1> QED BY <1>1, <1>2, FS_Subset, FS_CardinalityType

LEMMA FetchesStep ==
  ASSUME RInv, FetchesCounted, Next
  PROVE  FetchesCounted'
<1> USE DEF RInv, IInv
<1> DEFINE U == UsableNames
           Goal == next_generation' - 1 <= Cardinality(U') + lapses' + evictions'
<1>0. /\ next_generation \in Nat /\ lapses \in Nat /\ evictions \in Nat
      /\ next_generation - 1 <= Cardinality(U) + lapses + evictions
  BY DEF TypeOK, FetchesCounted, UsableNames
<1>1. ASSUME UNCHANGED <<next_generation, lapses, evictions>>, U \subseteq U' PROVE Goal
  <2>1. Cardinality(U) <= Cardinality(U')
    BY <1>1, UsableFinite, FS_Subset
  <2> QED BY <1>0, <1>1, <2>1, UsableFinite
<1>2. ASSUME NEW n \in Name, U' = U \ {n}, next_generation' = next_generation,
             \/ lapses' = lapses + 1 /\ evictions' = evictions
             \/ lapses' = lapses /\ evictions' = evictions + 1
      PROVE  Goal
  <2>1. Cardinality(U') = IF n \in U THEN Cardinality(U) - 1 ELSE Cardinality(U)
    BY <1>2, UsableFinite, FS_RemoveElement
  <2>2. Cardinality(U') >= Cardinality(U) - 1
    BY <2>1, UsableFinite
  <2>3. Cardinality(U) \in Nat /\ Cardinality(U') \in Nat
    BY UsableFinite
  <2> QED BY ONLY <1>0, <1>2, <2>2, <2>3
<1>3. ASSUME NEW c \in Conn, NEW k \in Key \cup {NoKey}, Install(c, k), dial[c].pc = "build",
             UNCHANGED <<lapses, evictions>>
      PROVE  Goal
  <2> DEFINE n == dial[c].name
  <2>1. /\ cache'[n] # NoEntry /\ cache'[n].fresh /\ \A m \in Name \ {n} : cache'[m] = cache[m]
        /\ next_generation' = next_generation + 1
    BY ONLY <1>3, TypeOK, InstallEffect
  <2>2. n \in Name /\ n \notin U
    BY <1>3 DEF TypeOK, Dial, BuildsWhatIsMissing, UsableNames
  <2>3. U' = U \cup {n}
    <3>1. \A m \in Name : m \in U' <=> m \in U \/ m = n
      BY <2>1, <2>2 DEF UsableNames, Usable
    <3> QED BY ONLY <2>2, <3>1, UsableInNames
  <2>4. Cardinality(U') = Cardinality(U) + 1
    BY <2>2, <2>3, UsableFinite, FS_AddElement
  <2> QED BY <1>0, <1>3, <2>1, <2>4, UsableFinite
<1>4. ASSUME NEW c \in Conn, KeepOrFail(c), UNCHANGED <<lapses, evictions>> PROVE Goal
  <2> DEFINE n == dial[c].name
  <2>1. /\ next_generation' = next_generation /\ \A m \in Name \ {n} : cache'[m] = cache[m]
        /\ \/ cache[n] = NoEntry /\ cache'[n] = NoEntry
           \/ cache'[n] # NoEntry /\ cache'[n].fresh
    BY ONLY <1>4, TypeOK, KeepEffect
  <2>2. U \subseteq U'
    BY <2>1 DEF UsableNames, Usable
  <2> QED BY <1>1, <1>4, <2>1, <2>2
<1>5. ASSUME NEW c \in Conn, BuildStatic(c) \/ BuildAnswered(c) \/ BuildLookupFailed(c) PROVE Goal
  <2>1. StaticKey \in Key /\ Answered(Z(c)).key \in Key \cup {NoKey}
    BY EchAssumption DEF StaticKey, Key, Answered, TypeOK, Z, Dial
  <2>2. Acquired(Answered(Z(c)).key) \in Key \cup {NoKey}
    BY <2>1, EchAssumption DEF Acquired, TypeOK
  <2> QED BY <1>3, <1>4, <1>5, <2>1, <2>2 DEF BuildStatic, BuildAnswered, BuildLookupFailed, Built, world
<1>6. ASSUME NEW c \in Conn, LockFresh(c) PROVE Goal
  <2> DEFINE n == dial[c].name
  <2>1. /\ n \in Name /\ dial[c].alpn \in Alpn /\ cache[n] \in Cached /\ cache[n].fresh
        /\ cache' = [cache EXCEPT ![n] = ConfigFor(cache[n], dial[c].alpn)]
    BY <1>6 DEF LockFresh, Usable, TypeOK, Dial
  <2>2. cache'[n] = ConfigFor(cache[n], dial[c].alpn) /\ \A m \in Name \ {n} : cache'[m] = cache[m]
    BY <2>1 DEF TypeOK
  <2>3. cache'[n] # NoEntry /\ cache'[n].fresh
    BY <2>1, <2>2, EntryTypes
  <2>4. U \subseteq U'
    BY <2>2, <2>3 DEF UsableNames, Usable
  <2> QED BY <1>1, <1>6, <2>4 DEF LockFresh, world
<1>7. ASSUME NEW c \in Conn, Invalidate(c) PROVE Goal
  <2>1. CASE Current(c)
    <3>1. /\ cache' = [cache EXCEPT ![dial[c].name] = NoEntry]
          /\ next_generation' = next_generation /\ lapses' = lapses /\ evictions' = evictions + 1
      BY <1>7, <2>1 DEF Invalidate, world
    <3>2. U' = U \ {dial[c].name}
      <4>1. \A m \in Name : m \in U' <=> m \in U /\ m # dial[c].name
        BY <3>1 DEF UsableNames, Usable, TypeOK
      <4> QED BY ONLY <4>1, UsableInNames
    <3>3. dial[c].name \in Name
      BY DEF TypeOK, Dial
    <3> QED BY ONLY <1>2, <3>1, <3>2, <3>3
  <2>2. CASE ~Current(c)
    <3>1. UNCHANGED <<cache, next_generation, lapses, evictions>>
      BY <1>7, <2>2 DEF Invalidate, world
    <3> QED BY <1>1, <3>1 DEF UsableNames, Usable
  <2> QED BY <2>1, <2>2
<1>8. ASSUME NEW n \in Name, Lapse(n) PROVE Goal
  <2>1. /\ cache' = [cache EXCEPT ![n].fresh = FALSE] /\ cache[n] \in Cached
        /\ next_generation' = next_generation /\ lapses' = lapses + 1 /\ evictions' = evictions
    BY <1>8 DEF Lapse, Usable, TypeOK
  <2>2. ~cache'[n].fresh /\ \A m \in Name \ {n} : cache'[m] = cache[m]
    BY <2>1 DEF TypeOK, Cached
  <2>3. U' = U \ {n}
    <3>1. \A m \in Name : m \in U' <=> m \in U /\ m # n
      BY <2>2 DEF UsableNames, Usable
    <3> QED BY ONLY <3>1, UsableInNames
  <2> QED BY ONLY <1>2, <2>1, <2>3
<1>9. ASSUME UNCHANGED <<cache, next_generation, lapses, evictions>> PROVE Goal
  BY <1>1, <1>9 DEF UsableNames, Usable
<1>10. ASSUME NEW c \in Conn, Connect(c) \/ Step(c) PROVE Goal
  BY <1>5, <1>6, <1>7, <1>9, <1>10 DEF Step, Connect, FastPath, SlowPath, LockBuild, HandshakeOk,
     HandshakeRejected, HandshakeFails, world
<1>11. ASSUME NEW z \in Zone, Rotate(z) \/ Publish(z) \/ DnsExpire(z) PROVE Goal
  BY <1>9, <1>11 DEF Rotate, Publish, DnsExpire, world
<1>12. Goal
  BY <1>8, <1>10, <1>11 DEF Next
<1> QED BY <1>12 DEF FetchesCounted, UsableNames

(* Connections that miss together, or offer different ALPN, share a fetch: *)
(* however many connections race, EchProvider::client asks for a name once *)
(* and again only after its entry has lapsed or has been evicted.          *)
THEOREM FetchesShared == Spec => []OneFetchPerLapse
<1>1. Init => FetchesCounted
  <2> SUFFICES ASSUME Init PROVE FetchesCounted
    OBVIOUS
  <2>1. next_generation = 1 /\ lapses = 0 /\ evictions = 0
    BY DEF Init
  <2> QED BY <2>1, UsableFinite DEF FetchesCounted, UsableNames
<1>2. ASSUME RInv, FetchesCounted, [Next]_vars PROVE FetchesCounted'
  <2>1. CASE Next
    BY <1>2, <2>1, FetchesStep
  <2>2. CASE UNCHANGED vars
    BY <1>2, <2>2 DEF vars, FetchesCounted, Usable
  <2> QED BY <1>2, <2>1, <2>2
<1>3. ASSUME RInv, FetchesCounted PROVE OneFetchPerLapse
  <2>1. /\ next_generation \in Nat /\ lapses \in Nat /\ evictions \in Nat
        /\ next_generation - 1 <= Cardinality(UsableNames) + lapses + evictions
    BY <1>3 DEF RInv, IInv, TypeOK, FetchesCounted, UsableNames
  <2>2. Cardinality(Name) \in Nat
    BY EchAssumption, FS_CardinalityType
  <2> QED BY <2>1, <2>2, UsableFinite DEF OneFetchPerLapse
<1> QED BY InitRInv, RInvInductive, <1>1, <1>2, <1>3, PTL DEF Spec
=============================================================================
