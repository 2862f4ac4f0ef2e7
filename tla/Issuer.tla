-------------------------------- MODULE Issuer --------------------------------
(***************************************************************************)
(* What the certificate issuer promises the handshakes it serves, whatever *)
(* it keeps where: a certificate is for its host alone, or for names that  *)
(* an upstream has presented for that host -- and it is never held for a   *)
(* mirror of something no upstream presented.  CertMirror implements this. *)
(***************************************************************************)
CONSTANTS
  Client,       \* the calls into the issuer
  Key,          \* what certificates are issued for
  Observation,  \* what an upstream may present
  Own,          \* Key -> the names of a certificate for its host alone
  Mirrors,      \* Key -> Observation -> the sets of names that mirror it
  Unobserved,   \* the basis of a certificate that mirrors nothing
  None

VARIABLES
  presented,    \* Key -> what its upstream has ever presented
  entry,        \* Key -> the names it is served with and their basis, or None
  given         \* Client -> the key and the names of its certificate, or None

vars == <<presented, entry, given>>

Init ==
  /\ presented \in [Key -> SUBSET Observation]
  /\ entry = [k \in Key |-> None]
  /\ given = [c \in Client |-> None]

(* A certificate mirrors at most what was presented; without a basis it is *)
(* for the host alone.  The basis may be another observation than the one  *)
(* mirrored: the two are not written to the store at once.                 *)
Promised(k) ==
  {[names |-> Own[k], basis |-> Unobserved]}
    \cup [names : {Own[k]} \cup UNION {Mirrors[k][o] : o \in presented[k]}, basis : presented[k]]

Present ==
  /\ presented' \in [Key -> SUBSET Observation]
  /\ \A k \in Key : presented[k] \subseteq presented'[k]
  /\ UNCHANGED <<entry, given>>

Issue(k) == \E p \in Promised(k) : entry' = [entry EXCEPT ![k] = p]

Replace(k) == Issue(k) /\ UNCHANGED <<presented, given>>

Drop(k) == entry' = [entry EXCEPT ![k] = None] /\ UNCHANGED <<presented, given>>

(* The certificate in force, or the one issued for the purpose. *)
Give(c, k) ==
  /\ given[c] = None
  /\ Issue(k) \/ UNCHANGED entry
  /\ entry'[k] # None
  /\ given' = [given EXCEPT ![c] = [key |-> k, names |-> entry'[k].names]]
  /\ UNCHANGED presented

Release(c) == given' = [given EXCEPT ![c] = None] /\ UNCHANGED <<presented, entry>>

Restart ==
  /\ entry' = [k \in Key |-> None]
  /\ given' = [c \in Client |-> None]
  /\ UNCHANGED presented

Next ==
  \/ Present \/ Restart
  \/ \E k \in Key : Replace(k) \/ Drop(k)
  \/ \E c \in Client : Release(c) \/ \E k \in Key : Give(c, k)

Spec == Init /\ [][Next]_vars
=============================================================================
