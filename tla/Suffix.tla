------------------------------- MODULE Suffix -------------------------------
(***************************************************************************)
(* The public-suffix list and the one question it answers (src/suffix.rs): *)
(* may *.P be minted?  A list is a set of rules.                           *)
(*                                                                         *)
(* Names are written from the top: <<"uk", "co">> is co.uk, so that what a *)
(* name lies under is a prefix of it.                                      *)
(***************************************************************************)
EXTENDS Naturals, Sequences, FiniteSetsExt, SequencesExt

CONSTANTS
  Label,         \* what names are made of
  Rule,          \* the rules that files are made of
  Names,         \* the names asked about
  EMBEDDED_LIST  \* the list in the binary

ASSUME SuffixAssumption ==
  /\ Rule \subseteq [kind : {"plain", "wildcard", "exception"}, name : Seq(Label),
                    section : {"icann", "private"}]
  /\ Names \subseteq Seq(Label) \ {<< >>}
  /\ EMBEDDED_LIST \subseteq Rule /\ EMBEDDED_LIST # {}

-----------------------------------------------------------------------------
(* The publicsuffix crate: the rule that prevails for a name, and the      *)
(* suffix it makes of it.                                                  *)
Matches(r, h) == IsPrefix(r.name, h) /\ (r.kind = "wildcard" => Len(h) > Len(r.name))
SuffixLen(r) == CASE r.kind = "plain" -> Len(r.name)
                  [] r.kind = "wildcard" -> Len(r.name) + 1
                  [] r.kind = "exception" -> Len(r.name) - 1
Prevails(r, s) ==
  \/ r.kind = "exception"
  \/ s.kind # "exception" /\ SuffixLen(r) > SuffixLen(s)
  \/ r.kind = "plain" /\ s.kind = "wildcard" /\ SuffixLen(r) = SuffixLen(s)
PublicSuffix(list, h) ==
  LET found == {r \in list : Matches(r, h)}
  IN IF found = {} THEN [len |-> 1, type |-> "unknown"]
     ELSE LET best == CHOOSE r \in found : \A s \in found \ {r} : Prevails(r, s)
          IN [len |-> SuffixLen(best), type |-> best.section]

(* A mutant: a private suffix is a boundary like any other. *)
BoundaryOfAnySection(list, h) == PublicSuffix(list, h).len
(* registrable_icann: the length of the boundary suffix, or of the name    *)
(* when there is none.  A private suffix is walked down, a label at a time. *)
Boundary(list, h) ==
  LET suffix == PublicSuffix(list, h)
      rests  == {n \in 1 .. suffix.len - 1 :
                   PublicSuffix(list, SubSeq(h, 1, n)).type # "private"}
  IN IF suffix.type # "private" THEN suffix.len
     ELSE IF rests = {} THEN Len(h)
     ELSE PublicSuffix(list, SubSeq(h, 1, Max(rests))).len

(* one_label_below finds one unless the name is the suffix. *)
WildcardIsMintable(list, parent) == Len(parent) > Boundary(list, parent)

-----------------------------------------------------------------------------
(* List::from_bytes: a file without a rule is no list. *)
HasRules(list) == list # {}
(* "a valid list resolves a well-known multi-level suffix": example.co.uk  *)
(* has a registrable domain.                                               *)
CoUk == <<"uk", "co">>
PassesSanity(list) == PublicSuffix(list, Append(CoUk, "example")).len < 3

(* The reference: the published algorithm on the ICANN section alone. *)
IcannSuffix(list, h) == PublicSuffix({r \in list : r.section = "icann"}, h).len
=============================================================================
