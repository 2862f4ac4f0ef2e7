------------------------------- MODULE MCPool -------------------------------
(* Small pools: three literals; a domain whose records rotate; a sampled   *)
(* network beside a literal of the same network; a sampled network of      *)
(* which one address answers; a literal that NAT64 translates; a sampled   *)
(* network that NAT64 projects; sampled networks that overlap each other   *)
(* and one expanded in full.                                               *)
EXTENDS Pool, TLC

None == << >>
Addrs == {"a", "b", "c", "d"}
AnyAnswer == [a \in Addrs |-> BOOLEAN]
OnlyAlive(a) == [[b \in Addrs |-> {FALSE}] EXCEPT ![a] = {TRUE}]
AllKinds(ts) == {[target |-> t, kind |-> k] : t \in ts, k \in {"ipv4", "ipv6", "nat64"}}
All(ts) == "all" :> AllKinds(ts)

Empty == [literal |-> {}, cidr |-> {}, domain |-> {}, ip |-> None, net |-> None,
          sample |-> None, zone |-> None, answers |-> AnyAnswer, v6 |-> None,
          projected |-> {}, selects |-> None, fallback |-> NoTarget, adaptive |-> FALSE,
          threshold |-> 1, base |-> 1, interval |-> 1]

Three == {"l1", "l2", "l3"}
ThreeLiterals ==
  [Empty EXCEPT !.literal = Three, !.ip = ("l1" :> "a" @@ "l2" :> "b" @@ "l3" :> "c"),
                !.selects = (All(Three) @@ "two" :> AllKinds({"l2", "l3"})), !.fallback = "l3"]

Rotating ==
  [Empty EXCEPT !.domain = {"name"}, !.zone = ("name" :> {{}, {"a", "b"}, {"b", "c"}, {"c"}}),
                !.selects = All({"name"}), !.fallback = "name", !.adaptive = TRUE]

Network(addrs, n) ==
  [Empty EXCEPT !.cidr = {"net"}, !.net = ("net" :> addrs), !.sample = ("net" :> n),
                !.selects = All({"net"}), !.threshold = 2, !.interval = 2]
Sampled == [Network({"a", "b", "c"}, 1) EXCEPT !.literal = {"l1"}, !.ip = ("l1" :> "a"),
                                               !.selects = All({"net", "l1"})]
Explored == [Network({"a", "b", "c", "d"}, 2) EXCEPT !.answers = OnlyAlive("c")]

(* An IPv4 literal and what NAT64 makes of it, which one view leaves out. *)
Translated ==
  [Empty EXCEPT !.literal = {"l1"}, !.ip = ("l1" :> "a"), !.v6 = ("a" :> "d"),
                !.projected = {"l1"}, !.fallback = "l1", !.adaptive = TRUE,
                !.selects = (All({"l1"}) @@ "direct" :> {[target |-> "l1", kind |-> "ipv4"]})]

(* Half of what is synthesized from it never answers, the rest sometimes. *)
Projected ==
  [Network({"a", "b"}, 1) EXCEPT !.v6 = ("a" :> "c" @@ "b" :> "d"), !.projected = {"net"},
                                 !.answers = [OnlyAlive("b") EXCEPT !["d"] = BOOLEAN]]

(* A dead sample of one network is an address of the other, which loses it. *)
Overlapping ==
  [Empty EXCEPT !.cidr = {"net", "edge", "whole"},
                !.net = ("net" :> {"a", "b", "c"} @@ "edge" :> {"a", "b"} @@ "whole" :> {"a", "d"}),
                !.sample = ("net" :> 1 @@ "edge" :> 1 @@ "whole" :> NoSample),
                !.answers = OnlyAlive("c"), !.fallback = "whole",
                !.selects = (All({"net", "edge", "whole"}) @@ "drawn" :> AllKinds({"net"}))]
MCPools == {ThreeLiterals, Rotating, Sampled, Explored, Translated, Projected, Overlapping}
=============================================================================
