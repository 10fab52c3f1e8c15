--------------------------- MODULE MCWorkersForm ---------------------------
(* A small page: two items or texts, two filters, indices to the base 3.   *)
EXTENDS WorkersForm

CONSTANTS iron, gold, ingot

MCValues == {iron, gold}
MCQueries == {ingot}

\* One filter finds both items, an empty one nothing.
MCFound == [q \in MCQueries \union {NoQuery} |-> IF q = NoQuery THEN {} ELSE MCValues]

MCSymmetry == Permutations(MCValues)
=============================================================================
