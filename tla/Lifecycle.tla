----------------------------- MODULE Lifecycle ------------------------------
(***************************************************************************)
(* A deployment, and a connection made under the settings it arrives at:   *)
(* the family and the prefix in force for a route are what its dial goes    *)
(* by.                                                                      *)
(***************************************************************************)
EXTENDS Deployment

CONSTANTS Delay, Budget, Longest, NoAddr      \* see Dial

VARIABLES how, fate, addrs, pc, now, begun, errs, result

D == INSTANCE Dial

ASSUME LifecycleAssumption == D!DialConstants

dialling == <<how, fate, addrs, pc, now, begun, errs, result>>
vars == <<settings, dialling>>

Init == SettingsInit /\ D!Init

Settle == SettingsNext /\ UNCHANGED dialling

(* connect_upstream, for a route that dials a name itself. *)
Connect ==
  /\ phase = "running"
  /\ \E r \in Route : Dials(doc, r) /\ D!Begin(Family(doc, r), Nat64(doc, r) # Unset)
  /\ Leave

Dial == D!Dialling /\ UNCHANGED settings

Ended == (D!Ended \/ phase \in {"refused", "failed"}) /\ UNCHANGED vars

Next == Settle \/ Connect \/ Dial \/ Ended
Spec == Init /\ [][Next]_vars

-----------------------------------------------------------------------------
(* Every variable has its type (see the modules of the two stages). *)
TypeOK == SettingsTypeOK /\ D!TypeOK

(* race_families: no error or silence of one family hides a working other   *)
(* one, and the second only carries the connection when the first had its   *)
(* head start.                                                              *)
RaceIsWon == D!RaceIsWon
=============================================================================
