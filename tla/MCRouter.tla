----------------------------- MODULE MCRouter -----------------------------
(***************************************************************************)
(* The values with which TLC checks Router: patterns with every kind of    *)
(* wildcard, and urls that tell them apart.                                *)
(***************************************************************************)
EXTENDS Router, TLC

CONSTANTS a, b

MCLevels == {a, b, Plus, Hash}
MCPatterns == {<<Hash>>, <<a>>, <<a, Hash>>, <<Plus, b>>}
MCAsked == {<<a, b>>}
MCUrls == {<<a>>, <<b, b>>, <<a, b, a>>}
Symmetry == Permutations(Threads)
===========================================================================
