---------------------------- MODULE ResolverPlan ----------------------------
(***************************************************************************)
(* The [resolvers] table (src/config.rs): who resolves a resolver's own    *)
(* address, and who fetches its ECH configuration.  Sys stands for the OS  *)
(* resolver and for inline specs, which are leaves.                        *)
(***************************************************************************)
EXTENDS Naturals, FiniteSets

CONSTANTS
  Res,  \* the declared resolvers
  Sys   \* an undeclared one: it has no plan and no dependencies

ASSUME ResAssumption == IsFiniteSet(Res) /\ Sys \notin Res

(* One declaration: its references, its ECH source mode ("none" without    *)
(* ECH) and require_ech.                                                   *)
Def == [bootstrap : Res \cup {Sys}, ech_resolver : Res \cup {Sys},
        mode : {"none", "static", "doh", "doh-with-fallback"}, require_ech : BOOLEAN]

(* A mutant: only the bootstrap counts as a dependency. *)
BootstrapOnly(p, r) == {p[r].bootstrap} \ {Sys}

(* ResolverDef::references, the edges of the dependency graph. *)
References(p, r) == {p[r].bootstrap, p[r].ech_resolver} \ {Sys}

(* What "acyclic" means: the resolvers can be ranked above what they use. *)
Acyclic(p) ==
  \E rank \in [Res -> 1 .. Cardinality(Res)] :
    \A r \in Res : \A q \in References(p, r) : rank[q] < rank[r]
=============================================================================
