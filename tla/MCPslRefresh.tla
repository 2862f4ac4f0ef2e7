---------------------------- MODULE MCPslRefresh ----------------------------
(* Rules as published lists have them: plain suffixes of one and two       *)
(* labels, a wildcard with an exception, and private entries below plain   *)
(* and private ones.                                                       *)
EXTENDS PslRefresh

Plain(name, section) == [kind |-> "plain", name |-> name, section |-> section]
Star(name, section) == [kind |-> "wildcard", name |-> name, section |-> section]
Except(name, section) == [kind |-> "exception", name |-> name, section |-> section]

Sample ==
  {Plain(<<"uk">>, "icann"), Plain(CoUk, "icann"),
   Plain(<<"jp">>, "icann"), Star(<<"jp", "kobe">>, "icann"),
   Except(<<"jp", "kobe", "city">>, "icann"),
   Plain(<<"uk", "co", "blog">>, "private"), Plain(<<"uk", "co", "blog", "eu">>, "private"),
   Star(<<"uk", "host">>, "private")}
MCRule == Sample \cup {Star(CoUk, "icann")}
MCEmbedded == {r \in Sample : r.section = "icann"}
MCLists == UNION {kSubset(n, Sample) : n \in 0 .. 3}
Good == {Plain(CoUk, "icann")}
(* It parses and does not pass the sanity check. *)
Insane == {Star(CoUk, "icann")}
MCOperated == {Good, {}}
MCServed == {Good, Insane, {}}

(* A check interval only adds the ticker to auto_update. *)
MCConfigs == {c \in PslConfig : c.check = c.auto_update}

Under(top, labels) == {<<top>> \o s : s \in UNION {[1 .. n -> labels] : n \in 0 .. 3}}
MCLabel == {"uk", "co", "host", "blog", "eu", "jp", "kobe", "city"}
MCNames == Under("uk", {"co", "host", "blog", "eu"}) \cup Under("jp", {"kobe", "city", "co"})
=============================================================================
