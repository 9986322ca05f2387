--------------------------- MODULE MCHttpClient ---------------------------
(* HttpClient with the symmetry of its descriptors and socket objects: no  *)
(* action or property tells two of them apart.  Two calls share one        *)
(* descriptor, or one call uses two.                                       *)
EXTENDS HttpClient, TLC

CONSTANT MaxUsed  \* bound on calls that live and descriptors in use, together

Symmetry == Permutations(Calls) \union Permutations(Fds) \union Permutations(Socks)

Used == Cardinality({c \in Calls : Alive(c)}) + Cardinality({f \in Fds : user[f] # None})
MCSpec == Init /\ [][Next /\ Used' <= MaxUsed]_vars
===========================================================================
