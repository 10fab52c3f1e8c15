------------------------- MODULE MCCraftingService -------------------------
(* Small instances of CraftingService: one item; recipe 1 consumes one of  *)
(* it, recipe 2 two, recipe 3 one again.                                   *)
EXTENDS CraftingService, TLC

CONSTANTS iron

MCItems == {iron}
Of(n) == [u \in MCItems |-> n]

MCIngredients == <<Of(1), Of(2), Of(1)>>

Shape(steps) == [goal |-> Of(0), catalyst |-> Of(0), steps |-> steps, produces |-> {}]

\* Crafts of one or two repeats that fit into one batch, and one of recipe 3,
\* which was given the limit 0.
OneBatch == { Shape(<<2, 0, 0>>), Shape(<<0, 1, 0>>), Shape(<<0, 0, 1>>) }
TwoOrNone == <<2, 2, 0>>

\* A recipe that consumes nothing of the item; two repeats are two batches.
Free == <<Of(0)>>
One == <<Of(1)>>
TwoRepeats == { Shape(<<2>>) }
OneEach == <<1>>

WorkerSymmetry == Permutations(Workers)
=============================================================================
