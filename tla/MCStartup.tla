------------------------------ MODULE MCStartup ------------------------------
(* Every dependency graph over three declared resolvers; every routing     *)
(* table of up to three patterns, where "f" is a label that none mentions,  *)
(* the generic host of the confinement argument; then two routes,          *)
(* on one backend or two.  Of the ways a reply can be wrong, one that      *)
(* comes and one that never does are tried.                                *)
EXTENDS Startup, TLC

SortedNames == <<"r1", "r2", "r3">>
AllPlans == [Res -> [bootstrap : Res \cup {Sys}, ech_resolver : Res \cup {Sys},
                     mode : {"doh"}, require_ech : {FALSE}]]

MCBudgets == {1, 2}
(* A route without http2 is not probed: one policy stands for all three. *)
MCConfs == [http2 : {TRUE}, key : Backend, policy : {"off", "warn", "require"}, budget : MCBudgets]
             \cup [http2 : {FALSE}, key : Backend, policy : {"require"}, budget : MCBudgets]
MCReplies == {[kind |-> "settings", at |-> 1], [kind |-> "settings", at |-> 2],
              [kind |-> "short", at |-> 1], [kind |-> "silent", at |-> 1]}

MCLabel == {"a", "x", "f"}
MCRouteId == 0 .. 1

X == <<"x">>
AX == <<"a", "x">>
AAX == <<"a", "a", "x">>

MCHosts == {X, AX, <<"f", "x">>, AAX, <<"f", "a", "x">>, <<"a", "f", "x">>}

MCRegexes ==
  <<"r1">> :> [lang  |-> {AX, <<"f", "a", "x">>},
           scope |-> {[kind |-> "exact", dom |-> AX], [kind |-> "wildcard", dom |-> AX]}]
   @@ <<"r2">> :> [lang |-> {<<"f", "x">>, AAX},
           scope |-> {[kind |-> "suffix", dom |-> X]}]
   @@ <<"r3">> :> [lang |-> {AX},
           scope |-> {[kind |-> "suffix", dom |-> AX]}]

MCPattern ==
  [kind : {"exact", "suffix"}, key : {AX, AAX}]
    \cup {[kind |-> "suffix", key |-> X], [kind |-> "wildcard", key |-> X],
          [kind |-> "wildcard", key |-> AX]}
    \cup [kind : {"regex"}, key : {<<"r1">>, <<"r2">>, <<"r3">>, <<"undeclared">>}]
    \cup {[kind |-> "inline", key |-> <<"r1">>]}
=============================================================================
