--------------------------- MODULE MCEchProvider ---------------------------
(* Instances of EchProvider: one route serving one inner name, in every    *)
(* mode. *)
EXTENDS EchProvider, TLC

AllModes == {"static", "doh", "doh-with-fallback"}
OwnDomain == [n \in Name |-> CHOOSE z \in Zone : TRUE]
=============================================================================
