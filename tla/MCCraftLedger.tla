--------------------------- MODULE MCCraftLedger ---------------------------
(* A small instance of CraftLedger: one item; recipe 1 consumes one of it  *)
(* and recipe 2 two.  Callers are interchangeable.                         *)
EXTENDS CraftLedger, TLC

CONSTANTS iron

MCItems == {iron}
Of(n) == [u \in MCItems |-> n]

MCIngredients == <<Of(1), Of(2)>>

\* Two repeats of recipe 1 fit into a batch; recipe 2 was given the limit 0.
MCMaxRepeats == <<2, 0>>

MCPlanShapes ==
  { [goal |-> Of(0), catalyst |-> Of(0), steps |-> <<2, 0>>, produces |-> {}],
    [goal |-> Of(1), catalyst |-> Of(0), steps |-> <<0, 1>>, produces |-> MCItems] }

\* Repeats go down to one too few, reserves two up or down.
MCLeft == -1..2
MCReserve == -2..2

CallerSymmetry == Permutations(Callers)
=============================================================================
