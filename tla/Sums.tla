-------------------------------- MODULE Sums --------------------------------
(***************************************************************************)
(* Sums over the rows of a table and over finite sets.  A table whose rows *)
(* have the identifiers 1..n (SQLite hands out rowids that way) is a       *)
(* function on 1..n, and what "SELECT SUM(...)" would return is            *)
(* SumTo(f, n).  What a loop in the code adds up over a map, in whatever   *)
(* order, is SumOver(f, S).  The sums are recursive functions, not         *)
(* RECURSIVE operators, so that modules built on them can be proved about. *)
(***************************************************************************)
EXTENDS FiniteSetsExt, Integers

\* f[1] + ... + f[n]
SumTo(f, n) ==
  LET running[i \in 0..n] == IF i = 0 THEN 0 ELSE running[i-1] + f[i]
  IN  running[n]

\* The sum of f[x] for all x of the finite set S.
SumOver(f, S) == MapThenSumSet(LAMBDA x : f[x], S)
=============================================================================
