---------------------------- MODULE UriPattern ----------------------------
(***************************************************************************)
(* Class uri_pattern (utils/uri_pattern.cpp), by which server<> finds the  *)
(* handler of a request.  A pattern and a url are the sequences of levels  *)
(* that boost::split makes of them at every "/": never empty, since the    *)
(* empty text is one empty level.                                          *)
(***************************************************************************)
EXTENDS Integers, Sequences, SequencesExt

CONSTANTS
  Levels,  \* the texts between two slashes
  Plus,    \* the text "+"
  Hash     \* the text "#"

ASSUME LevelsAssumption == Plus \in Levels /\ Hash \in Levels /\ Plus # Hash

Paths == Seq(Levels) \ {<<>>}

(* What the constructor stores: a final "#" is taken off and remembered. *)
CatchAll(pattern) == Last(pattern) = Hash
Parts(pattern) == IF CatchAll(pattern) THEN Front(pattern) ELSE pattern

(* match with "#" standing for no level as well. *)
Match_OrEqual(pattern, url) ==
  LET parts == Parts(pattern) IN
  /\ Len(parts) <= Len(url)
  /\ ~CatchAll(pattern) => Len(parts) = Len(url)
  /\ \A i \in 1..Len(parts) : parts[i] \in {Plus, url[i]}

(* match: three tests of lengths, then the levels one by one. *)
Match(pattern, url) ==
  LET parts == Parts(pattern) IN
  /\ Len(parts) <= Len(url)
  /\ ~CatchAll(pattern) => Len(parts) = Len(url)
  /\ CatchAll(pattern) => Len(parts) < Len(url)
  /\ \A i \in 1..Len(parts) : parts[i] \in {Plus, url[i]}

---------------------------------------------------------------------------
(* The rules (the comments at server.h:22 and uri_pattern.cpp:27), without *)
(* lengths: the url is the pattern with each "+" replaced by one level and *)
(* a final "#" by one level or more.                                       *)
Fits(level, text) == level = Plus \/ level = text

Replaces(head, levels) ==
  /\ DOMAIN head = DOMAIN levels
  /\ \A i \in DOMAIN head : Fits(head[i], levels[i])

Covers(pattern, url) ==
  \/ Last(pattern) # Hash /\ Replaces(pattern, url)
  \/ /\ Last(pattern) = Hash
     /\ \E n \in 0..Len(url) - 1 : Replaces(Front(pattern), SubSeq(url, 1, n))
===========================================================================
