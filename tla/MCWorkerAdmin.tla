--------------------------- MODULE MCWorkerAdmin ---------------------------
(* Two workers, one recipe type, a config with it and one without.         *)
EXTENDS WorkerAdmin, TLC

CONSTANTS smelting, plain, smelter

MCConfigs == {plain, smelter}
MCNames == {smelting}
MCCraftType == [c \in MCConfigs |-> IF c = smelter THEN smelting ELSE NoType]

MCRows ==
  { [config |-> plain, enabled |-> TRUE], [config |-> smelter, enabled |-> TRUE],
    [config |-> smelter, enabled |-> FALSE] }

MCSymmetry == Permutations(Keys) \union Permutations(Requests) \union
              Permutations(Handlers)
=============================================================================
