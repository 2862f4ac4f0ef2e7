--------------------------- MODULE ResolverOrder ---------------------------
(***************************************************************************)
(* Config::resolver_build_order (src/config.rs): a depth-first search with *)
(* an explicit stack that orders the declared resolvers, or reports a      *)
(* cycle.  One action per iteration of its loop.                           *)
(***************************************************************************)
EXTENDS ResolverPlan, Sequences, SequencesExt

CONSTANTS
  Plans,   \* the configurations explored
  Names,   \* the declared names, sorted: a sequence without duplicates
  NoPlan   \* the search is over and its result has been used

OrderConstants ==
  /\ IsFiniteSet(Res) /\ Sys \notin Res
  /\ \A p \in Plans : p \in [Res -> Def]
  /\ Names \in Seq(Res) /\ IsInjective(Names) /\ ToSet(Names) = Res /\ NoPlan \notin Plans

VARIABLES
  plan,
  roots,   \* the names the outer loop has still to visit
  stack,   \* Enter and Exit steps, top first
  marks,   \* Res -> "none", "open" or "done"
  order,   \* the build order so far
  cycle    \* the reported path, or the empty sequence

vars == <<plan, roots, stack, marks, order, cycle>>

Enter(r, path) == [kind |-> "enter", name |-> r, path |-> path]
Exit(r) == [kind |-> "exit", name |-> r, path |-> << >>]

Init ==
  /\ plan \in Plans
  /\ roots = Names
  /\ stack = << >>
  /\ marks = [r \in Res |-> "none"]
  /\ order = << >>
  /\ cycle = << >>

(* The outer loop takes the next name, and skips one already ordered. *)
NextRoot ==
  /\ stack = << >> /\ roots # << >> /\ cycle = << >>
  /\ roots' = Tail(roots)
  /\ stack' = IF marks[Head(roots)] = "done" THEN << >>
              ELSE <<Enter(Head(roots), <<Head(roots)>>)>>
  /\ UNCHANGED <<plan, marks, order, cycle>>

(* A mutant: the order is built from the wrong end. *)
PopExitReversed ==
  /\ stack # << >> /\ cycle = << >> /\ Head(stack).kind = "exit"
  /\ marks' = [marks EXCEPT ![Head(stack).name] = "done"]
  /\ order' = <<Head(stack).name>> \o order
  /\ stack' = Tail(stack)
  /\ UNCHANGED <<plan, roots, cycle>>

PopExit ==
  /\ stack # << >> /\ cycle = << >> /\ Head(stack).kind = "exit"
  /\ marks' = [marks EXCEPT ![Head(stack).name] = "done"]
  /\ order' = Append(order, Head(stack).name)
  /\ stack' = Tail(stack)
  /\ UNCHANGED <<plan, roots, cycle>>

PopDone ==
  /\ stack # << >> /\ cycle = << >> /\ Head(stack).kind = "enter"
  /\ marks[Head(stack).name] = "done"
  /\ stack' = Tail(stack)
  /\ UNCHANGED <<plan, roots, marks, order, cycle>>

(* A node entered again before its exit closes a cycle. *)
Reopened(r) == marks[r] = "open"

PopOpen ==
  /\ stack # << >> /\ cycle = << >> /\ Head(stack).kind = "enter"
  /\ Reopened(Head(stack).name)
  /\ cycle' = Head(stack).path
  /\ UNCHANGED <<plan, roots, stack, marks, order>>

(* The edges, which are at most two, in name order; the last one on top. *)
Earlier(q, s) == \E i, j \in DOMAIN Names : i < j /\ Names[i] = q /\ Names[j] = s
Edges(r) ==
  CHOOSE s \in UNION {[1 .. n -> References(plan, r)] : n \in 0 .. 2} :
    /\ ToSet(s) = References(plan, r)
    /\ \A i, j \in DOMAIN s : i < j => Earlier(s[i], s[j])
Pushed(r, path) == Reverse([i \in 1 .. Len(Edges(r)) |-> Enter(Edges(r)[i], Append(path, Edges(r)[i]))])

PopNew ==
  /\ stack # << >> /\ cycle = << >> /\ Head(stack).kind = "enter"
  /\ marks[Head(stack).name] = "none"
  /\ LET r == Head(stack).name IN
       /\ marks' = [marks EXCEPT ![r] = "open"]
       /\ stack' = Pushed(r, Head(stack).path) \o <<Exit(r)>> \o Tail(stack)
  /\ UNCHANGED <<plan, roots, order, cycle>>

Finished == cycle # << >> \/ (roots = << >> /\ stack = << >>)
Refused == cycle # << >>

Next == NextRoot \/ PopExit \/ PopDone \/ PopOpen \/ PopNew

(* The caller has built what the order lists. *)
Forget ==
  /\ plan # NoPlan /\ Finished /\ ~Refused
  /\ plan' = NoPlan /\ roots' = << >> /\ stack' = << >>
  /\ marks' = [r \in Res |-> "none"] /\ order' = << >> /\ cycle' = << >>

-----------------------------------------------------------------------------
(* Every variable has its type; the names ordered are exactly those marked *)
(* done, and those marked open are exactly those whose exit is pending.    *)
TypeOK ==
  /\ plan \in Plans \cup {NoPlan}
  /\ roots \in Seq(Res) /\ order \in Seq(Res) /\ cycle \in Seq(Res)
  /\ stack \in Seq([kind : {"enter", "exit"}, name : Res, path : Seq(Res)])
  /\ marks \in [Res -> {"none", "open", "done"}]
  /\ \A r \in Res : /\ marks[r] = "done" <=> r \in ToSet(order)
                    /\ marks[r] = "open" <=> Exit(r) \in ToSet(stack)

(* "Every resolver appears after the ones it depends on": at any moment    *)
(* the order built so far is one in which they can be built, each once     *)
(* (build_named_resolvers looks each dependency up in its registry).       *)
OrderIsTopological ==
  /\ IsInjective(order)
  /\ \A i \in DOMAIN order : References(plan, order[i]) \subseteq {order[j] : j \in 1 .. i - 1}

(* A reported path follows the graph's edges back to a name already on it. *)
CycleIsReal ==
  Refused =>
    /\ \A i \in 1 .. Len(cycle) - 1 : cycle[i + 1] \in References(plan, cycle[i])
    /\ \E i \in 1 .. Len(cycle) - 1 : cycle[i] = Last(cycle)

(* The verdict is exact: a table is refused if and only if it is cyclic,   *)
(* and an accepted one is ordered completely.                              *)
VerdictExact ==
  plan # NoPlan /\ Finished =>
    /\ Refused <=> ~Acyclic(plan)
    /\ ~Refused => ToSet(order) = Res

(* What resolver_build_order answers is right, whatever the table. *)
AnswerIsRight == OrderIsTopological /\ CycleIsReal /\ VerdictExact
=============================================================================
