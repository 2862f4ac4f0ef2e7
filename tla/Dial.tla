-------------------------------- MODULE Dial --------------------------------
(***************************************************************************)
(* Reaching an upstream: resolve_upstream (src/dns.rs) turns a name into   *)
(* one address or two, and dial (src/proxy.rs) connects to the first or    *)
(* races both, as in RFC 8305, within connect_timeout.                     *)
(*                                                                         *)
(* Time is in units; an attempt that never completes takes longer than the *)
(* budget.  The runtime handles what is due before time goes on.           *)
(***************************************************************************)
EXTENDS Naturals, Sequences, FiniteSetsExt

CONSTANTS
  Delay,    \* ATTEMPT_DELAY
  Budget,   \* connect_timeout
  Longest,  \* the longest an attempt may take
  NoAddr

Family == {"ipv4", "ipv6", "dual"}
Addr == {"v6", "v4", "nat64"}
Role == {"primary", "fallback"}
Outcome == [at : 0 .. Longest, ok : BOOLEAN]

DialConstants ==
  /\ Delay \in Nat /\ Budget \in Nat /\ Longest \in Nat
  /\ NoAddr \notin Addr

VARIABLES
  how,     \* how the route resolves: its family, and whether there is a prefix
  fate,    \* Role -> what becomes of a connection to that address, and when
  addrs,   \* ResolvedAddrs
  pc,      \* "idle", "resolve", "single", "head", "race", "done"
  now,     \* since dial was called
  begun,   \* when the fallback was started
  errs,    \* the attempts that failed
  result   \* the address connected to, or why there is none

vars == <<how, fate, addrs, pc, now, begun, errs, result>>

Init ==
  /\ how = [family |-> "dual", nat64 |-> FALSE]
  /\ fate = [r \in Role |-> [at |-> 0, ok |-> TRUE]]
  /\ addrs = [primary |-> NoAddr, fallback |-> NoAddr]
  /\ pc = "idle" /\ now = 0 /\ begun = 0 /\ errs = {} /\ result = "none"

(* A route with these settings has a connection to make. *)
Begin(family, nat64) ==
  /\ pc = "idle"
  /\ how' = [family |-> family, nat64 |-> nat64] /\ pc' = "resolve"
  /\ UNCHANGED <<fate, addrs, now, begun, errs, result>>

-----------------------------------------------------------------------------
(* nat64_or_v4 *)
Nat64OrV4 == IF how.nat64 THEN "nat64" ELSE "v4"

(* The addresses a lookup under the route's family yields, preferred first. *)
(* An IPv4 literal is projected unless the route is IPv6 only, and then it  *)
(* is dialled as it is.                                                     *)
Answers(n) ==
  IF n.literal
  THEN IF n.aaaa THEN <<"v6">> ELSE IF how.family = "ipv6" THEN <<"v4">> ELSE <<Nat64OrV4>>
  ELSE LET six == IF n.aaaa /\ how.family # "ipv4" THEN <<"v6">> ELSE << >>
           four == IF n.a /\ how.family # "ipv6" THEN <<Nat64OrV4>> ELSE << >> IN
       IF how.nat64 /\ six # << >> THEN six ELSE six \o four

(* What the host publishes, or that it is an address itself. *)
Published == {n \in [literal : BOOLEAN, aaaa : BOOLEAN, a : BOOLEAN] :
                n.literal => n.aaaa # n.a}

Resolve ==
  /\ pc = "resolve"
  /\ fate' \in [Role -> Outcome]
  /\ \E n \in Published : LET found == Answers(n) IN
     /\ addrs' = [primary  |-> IF found = << >> THEN NoAddr ELSE found[1],
                  fallback |-> IF Len(found) < 2 THEN NoAddr ELSE found[2]]
     /\ pc' = IF found = << >> THEN "done" ELSE IF Len(found) < 2 THEN "single" ELSE "head"
     /\ result' = IF found = << >> THEN "unresolved" ELSE result
  /\ UNCHANGED <<how, now, begun, errs>>

-----------------------------------------------------------------------------
Racing == pc \in {"single", "head", "race"}
PrimaryDue == Racing /\ "primary" \notin errs /\ fate["primary"].at <= now
FallbackDue == pc = "race" /\ "fallback" \notin errs /\ begun + fate["fallback"].at <= now
(* biased: a fallback that is ready waits for a primary that is. *)
FallbackTurn == FallbackDue /\ ~PrimaryDue

Done(r) == pc' = "done" /\ result' = r
StartFallback == pc' = "race" /\ begun' = now

Connected ==
  /\ \/ PrimaryDue /\ fate["primary"].ok /\ Done(addrs.primary)
     \/ FallbackTurn /\ fate["fallback"].ok /\ Done(addrs.fallback)
  /\ UNCHANGED <<how, fate, addrs, now, begun, errs>>

(* "a primary that fails inside it does not get to hold the alternative    *)
(* back for the remainder"                                                 *)
PrimaryFails ==
  /\ PrimaryDue /\ ~fate["primary"].ok
  /\ errs' = errs \cup {"primary"}
  /\ IF pc = "single" \/ "fallback" \in errs THEN Done("failed") /\ begun' = begun
     ELSE IF pc = "head" THEN StartFallback /\ UNCHANGED result
     ELSE UNCHANGED <<pc, begun, result>>
  /\ UNCHANGED <<how, fate, addrs, now>>

(* A mutant: the first error of the race ends it. *)
FallbackFailsTheRace ==
  /\ FallbackTurn /\ ~fate["fallback"].ok
  /\ errs' = errs \cup {"fallback"} /\ Done("failed")
  /\ UNCHANGED <<how, fate, addrs, now, begun>>

FallbackFails ==
  /\ FallbackTurn /\ ~fate["fallback"].ok
  /\ errs' = errs \cup {"fallback"}
  /\ IF "primary" \in errs THEN Done("failed") ELSE UNCHANGED <<pc, result>>
  /\ UNCHANGED <<how, fate, addrs, now, begun>>

HeadStartOver ==
  /\ pc = "head" /\ now >= Delay /\ ~PrimaryDue
  /\ StartFallback
  /\ UNCHANGED <<how, fate, addrs, now, errs, result>>

(* connect_timeout bounds the race as a whole. *)
Spent == now >= Budget
(* Nothing is ready, and no timer of the race is due. *)
Idle == Racing /\ ~PrimaryDue /\ ~FallbackDue /\ ~(pc = "head" /\ now >= Delay)

TimedOut ==
  /\ Idle /\ Spent
  /\ Done("timeout")
  /\ UNCHANGED <<how, fate, addrs, now, begun, errs>>

Elapse ==
  /\ Idle /\ ~Spent
  /\ now' = now + 1
  /\ UNCHANGED <<how, fate, addrs, pc, begun, errs, result>>

Ended == pc = "done" /\ UNCHANGED vars

Dialling == Resolve \/ Connected \/ PrimaryFails \/ FallbackFails \/ HeadStartOver \/ TimedOut
            \/ Elapse
Next == (\E f \in Family, n \in BOOLEAN : Begin(f, n)) \/ Dialling \/ Ended
Spec == Init /\ [][Next]_vars

-----------------------------------------------------------------------------
(* Types, and "connect_timeout bounds the race, not each attempt" (dial). *)
TypeOK ==
  /\ addrs \in [primary : Addr \cup {NoAddr}, fallback : Addr \cup {NoAddr}]
  /\ fate \in [Role -> Outcome] /\ errs \in SUBSET Role
  /\ pc \in {"idle", "resolve", "single", "head", "race", "done"}
  /\ now \in 0 .. Budget /\ begun \in 0 .. Budget
  /\ result \in Addr \cup {"none", "unresolved", "failed", "timeout"}

Reached(role, from) == fate[role].ok /\ from + fate[role].at <= Budget
(* When the second family may start: the head start is over, or the first  *)
(* has failed.                                                             *)
Turn == IF fate["primary"].ok THEN Delay ELSE Min({Delay, fate["primary"].at})

(* A dial fails only when neither address could have been reached in time, *)
(* the second one counted from the end of the head start or from the       *)
(* first's failure (race_families: no error or silence of one family hides *)
(* a working other one).                                                   *)
NoLiveMissed ==
  pc = "done" /\ result \in {"failed", "timeout"} =>
    /\ ~Reached("primary", 0)
    /\ addrs.fallback # NoAddr => ~Reached("fallback", Turn)

(* The second family carries the connection only when the first had its    *)
(* head start and was not connected by then either, however close the two  *)
(* are (the biased selects of race_families).                              *)
PrimaryPreferred ==
  pc = "done" /\ addrs.fallback # NoAddr /\ result = addrs.fallback =>
    /\ begun = Turn
    /\ ~(fate["primary"].ok /\ fate["primary"].at <= now)

(* A race of two families gives the connection the first one could have    *)
(* made in time, and else the second's (race_families).                    *)
RaceIsWon == NoLiveMissed /\ PrimaryPreferred
=============================================================================
