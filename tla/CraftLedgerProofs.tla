------------------------- MODULE CraftLedgerProofs -------------------------
(***************************************************************************)
(* The crafting tables keep their promises for every number of items,      *)
(* recipes, plans, crafts and callers.                                     *)
(***************************************************************************)
EXTENDS CraftLedger, SumsProofs

\* The shape of a copy, as TypeOK has it.
Copies == [id : CraftIds, recipe_id : Recipes, repeats : Int \ {0}, commit_repeats : Int]

\* What n repeats consume of each item is an integer.
LEMMA BatchIsInt ==
  ASSUME NEW r \in Recipes, NEW n \in Int
  PROVE  \A u \in Items : Batch(r, n)[u] = Ingredients[r][u] * n /\ Batch(r, n)[u] \in Int
BY TablesAssumption DEF Batch

\* Releasing integers leaves integers.
LEMMA ReleasedIsInt ==
  ASSUME itemReserve \in [Items -> Int], NEW taken, \A u \in Items : taken[u] \in Int
  PROVE  Released(taken) \in [Items -> Int]
BY DEF Released

\* A plan's consumption pays for its goals and steps.
LEMMA ConsumedCovers ==
  ASSUME NEW shape \in PlanShapes, NEW u \in Items
  PROVE  LET need == SumTo([r \in Recipes |-> shape.steps[r] * Ingredients[r][u]], NRecipes)
         IN  /\ need \in Nat
             /\ Consumed(shape)[u] \in Nat
             /\ shape.goal[u] + need <= Consumed(shape)[u]
<1> DEFINE f == [r \in Recipes |-> shape.steps[r] * Ingredients[r][u]]
<1>1. shape.steps \in [Recipes -> Nat] /\ shape.goal[u] \in Nat /\ shape.catalyst[u] \in Nat
  BY LedgerAssumption
<1>2. NRecipes \in Nat /\ \A r \in Recipes : Ingredients[r][u] \in Nat
  BY TablesAssumption
<1>3. \A r \in 1..NRecipes : f[r] \in Nat
  BY <1>1, <1>2 DEF Recipes
<1> HIDE DEF f
<1>4. SumTo(f, NRecipes) \in Nat
  BY <1>2, <1>3, SumIsNat
<1>5. Consumed(shape)[u] = shape.goal[u] + shape.catalyst[u] + SumTo(f, NRecipes)
  BY DEF Consumed, f
<1>. QED BY <1>1, <1>4, <1>5 DEF f

\* A new plan acquires at most what it consumes.
LEMMA AcquiredBounds ==
  ASSUME NEW shape \in PlanShapes, NEW stock \in [Items -> Nat], NEW u \in Items
  PROVE  /\ Acquired(shape, stock)[u] \in Nat
         /\ Acquired(shape, stock)[u] <= Consumed(shape)[u]
<1>1. Consumed(shape)[u] \in Nat
  BY ConsumedCovers
<1>2. stock[u] \in Nat
  OBVIOUS
<1>. QED BY <1>1, <1>2 DEF Acquired

\* What the updates of repeats, commit_repeats and status leave of a row.
LEMMA RowUpdates ==
  ASSUME NEW row \in CraftRow, NEW n \in Int, NEW s \in {"PENDING", "COMMITED"}
  PROVE  /\ [row EXCEPT !.repeats = n] \in CraftRow
         /\ [row EXCEPT !.commit_repeats = n] \in CraftRow
         /\ [row EXCEPT !.status = s] \in CraftRow
BY DEF CraftRow

\* A row that is completed and left is a row with the repeats that are left.
LEMMA CompletedRow ==
  ASSUME NEW row \in CraftRow, row.status = "COMMITED", row.repeats # row.commit_repeats
  PROVE  /\ Completed(row) \in CraftRow
         /\ Completed(row).id = row.id /\ Completed(row).recipe_id = row.recipe_id
         /\ Completed(row).repeats = row.repeats - row.commit_repeats
         /\ Completed(row).commit_repeats = 0
         /\ Completed(row).status = "PENDING"
<1> DEFINE r1 == [row EXCEPT !.repeats = row.repeats - row.commit_repeats]
           r2 == [r1 EXCEPT !.commit_repeats = 0]
           r3 == [r2 EXCEPT !.status = "PENDING"]
<1>1. row.repeats - row.commit_repeats \in Int
  BY DEF CraftRow
<1>2. r1 \in CraftRow /\ r1.id = row.id /\ r1.recipe_id = row.recipe_id
      /\ r1.repeats = row.repeats - row.commit_repeats
  BY <1>1, RowUpdates DEF CraftRow
<1> HIDE DEF r1
<1>3. r2 \in CraftRow /\ r2.id = row.id /\ r2.recipe_id = row.recipe_id
      /\ r2.repeats = row.repeats - row.commit_repeats /\ r2.commit_repeats = 0
  BY <1>2, RowUpdates DEF CraftRow
<1> HIDE DEF r2
<1>4. r3 \in CraftRow /\ r3.id = row.id /\ r3.recipe_id = row.recipe_id
      /\ r3.repeats = row.repeats - row.commit_repeats /\ r3.commit_repeats = 0
      /\ r3.status = "PENDING"
  BY <1>3, RowUpdates DEF CraftRow
<1>5. Completed(row) = r3
  BY DEF Completed, r1, r2
<1>. QED BY <1>4, <1>5

\* A row that is commited is a row.
LEMMA CommitedRow ==
  ASSUME NEW row \in CraftRow, NEW n \in Int
  PROVE  /\ Commited(row, n) \in CraftRow
         /\ Commited(row, n).id = row.id /\ Commited(row, n).repeats = row.repeats
         /\ Commited(row, n).status = "COMMITED" /\ Commited(row, n).commit_repeats = n
         /\ Commited(row, n).recipe_id = row.recipe_id
<1> DEFINE r1 == [row EXCEPT !.status = "COMMITED"]
           r2 == [r1 EXCEPT !.commit_repeats = n]
<1>1. r1 \in CraftRow /\ r1.id = row.id /\ r1.recipe_id = row.recipe_id
      /\ r1.repeats = row.repeats /\ r1.status = "COMMITED"
  BY RowUpdates DEF CraftRow
<1> HIDE DEF r1
<1>2. r2 \in CraftRow /\ r2.id = row.id /\ r2.recipe_id = row.recipe_id
      /\ r2.repeats = row.repeats /\ r2.status = "COMMITED" /\ r2.commit_repeats = n
  BY <1>1, RowUpdates DEF CraftRow
<1>3. Commited(row, n) = r2
  BY DEF Commited, r1
<1>. QED BY <1>2, <1>3

-----------------------------------------------------------------------------
\* TypeOK in its parts: the craft table, the other tables, the copies.
CraftsOK ==
  /\ craft \in [CraftIds -> CraftRow \union {NoCraft}]
  /\ \A c \in CraftIds : craft[c] # NoCraft => craft[c].id = c /\ craft[c].repeats # 0

PlansOK ==
  /\ planState \subseteq PlanIds
  /\ planGoal \in [PlanIds -> [Items -> Nat]]
  /\ planAmount \in [PlanIds -> [Items -> Int]]
  /\ planRequired \in [PlanIds -> [Items -> Int]]
  /\ planSteps \in [PlanIds -> [Recipes -> Nat]]

ReservesOK ==
  /\ itemReserve \in [Items -> Int]
  /\ reserveRows \subseteq Items
  /\ workerState \subseteq Processors \X CraftIds

CopiesOK == copy \in [Callers -> SUBSET Copies]

TablesOK == CraftsOK /\ PlansOK /\ ReservesOK

\* The parts are TypeOK.
LEMMA TypeParts == TypeOK <=> TablesOK /\ CopiesOK
BY DEF TypeOK, TablesOK, CraftsOK, PlansOK, ReservesOK, CopiesOK, Copies

\* A row that there is in the craft table.
LEMMA LiveRow ==
  ASSUME CraftsOK, NEW c \in CraftIds, craft[c] # NoCraft
  PROVE  craft[c] \in CraftRow /\ craft[c].id = c /\ craft[c].repeats # 0
BY DEF CraftsOK

\* One row of the craft table is replaced or deleted.
LEMMA CraftUpdate ==
  ASSUME CraftsOK, NEW c \in CraftIds, NEW row,
         \/ row = NoCraft
         \/ row \in CraftRow /\ row.id = c /\ row.repeats # 0,
         craft' = [craft EXCEPT ![c] = row]
  PROVE  CraftsOK'
BY DEF CraftsOK

\* The completion of a live row of the craft table keeps the table's shape.
LEMMA CompleteCrafts ==
  ASSUME CraftsOK, NEW c \in CraftIds, craft[c] # NoCraft,
         craft' = [craft EXCEPT ![c] = Completed(craft[c])]
  PROVE  CraftsOK'
<1>1. craft[c] \in CraftRow /\ craft[c].id = c /\ craft[c].repeats # 0
  BY LiveRow
<1>2. CASE craft[c].status = "COMMITED" /\ craft[c].repeats # craft[c].commit_repeats
  <2>1. /\ Completed(craft[c]) \in CraftRow /\ Completed(craft[c]).id = c
        /\ Completed(craft[c]).repeats = craft[c].repeats - craft[c].commit_repeats
    BY <1>1, <1>2, CompletedRow
  <2>2. craft[c].repeats \in Int /\ craft[c].commit_repeats \in Int
    BY <1>1 DEF CraftRow
  <2>3. Completed(craft[c]).repeats # 0
    BY <1>2, <2>1, <2>2
  <2>. QED BY <2>1, <2>3, CraftUpdate
<1>3. CASE ~(craft[c].status = "COMMITED" /\ craft[c].repeats # craft[c].commit_repeats)
  <2>1. Completed(craft[c]) = NoCraft
    BY <1>3 DEF Completed
  <2>. QED BY <2>1, CraftUpdate
<1>. QED BY <1>2, <1>3

\* Releasing the ingredients of some repeats, and forgetting who waits.
LEMMA ReleaseReserves ==
  ASSUME ReservesOK, NEW r \in Recipes, NEW n \in Int,
         itemReserve' = Released(Batch(r, n)),
         workerState' \subseteq Processors \X CraftIds,
         UNCHANGED reserveRows
  PROVE  ReservesOK'
<1>1. \A u \in Items : Batch(r, n)[u] \in Int
  BY BatchIsInt
<1>2. Released(Batch(r, n)) \in [Items -> Int]
  BY <1>1, ReleasedIsInt DEF ReservesOK
<1>. QED BY <1>2 DEF ReservesOK

\* Storing a plan keeps the shape of the tables.
LEMMA InsertPlanType ==
  ASSUME TablesOK, NEW p \in PlanIds, NEW shape \in PlanShapes, NEW stock \in [Items -> Nat],
         InsertPlan(p, shape, stock)
  PROVE  TablesOK'
<1>1. /\ shape.goal \in [Items -> Nat] /\ shape.steps \in [Recipes -> Nat]
      /\ shape.produces \subseteq Items
  BY LedgerAssumption
<1>2. Consumed(shape) \in [Items -> Int]
  BY ConsumedCovers DEF Consumed
<1>3. Acquired(shape, stock) \in [Items -> Int]
  <2>1. \A u \in Items : Acquired(shape, stock)[u] \in Int
    BY AcquiredBounds
  <2>. QED BY <2>1 DEF Acquired
<1>4. PlansOK'
  BY <1>1, <1>2, <1>3 DEF TablesOK, PlansOK, InsertPlan
<1>5. ReservesOK'
  BY <1>1, <1>3 DEF TablesOK, ReservesOK, InsertPlan
<1>6. CraftsOK'
  BY DEF TablesOK, CraftsOK, InsertPlan
<1>. QED BY <1>4, <1>5, <1>6 DEF TablesOK

\* Removing a plan keeps the shape of the tables.
LEMMA RemovePlanType ==
  ASSUME TablesOK, NEW p \in PlanIds, RemovePlan(p)
  PROVE  TablesOK'
<1>1. PlansOK'
  BY DEF TablesOK, PlansOK, RemovePlan, Nothing
<1>2. Released(planAmount[p]) \in [Items -> Int]
  BY ReleasedIsInt DEF TablesOK, PlansOK, ReservesOK
<1>3. ReservesOK'
  BY <1>2 DEF TablesOK, ReservesOK, RemovePlan
<1>4. CraftsOK'
  BY DEF TablesOK, CraftsOK, RemovePlan
<1>. QED BY <1>1, <1>3, <1>4 DEF TablesOK

\* Submitting a craft keeps the shape of the tables: no step is left with
\* negative repeats, and the new row has some.
LEMMA InsertCraftType ==
  ASSUME TablesOK, NEW p \in PlanIds, NEW r \in Recipes, NEW n \in Nat \ {0}, InsertCraft(p, r, n)
  PROVE  TablesOK'
<1> DEFINE row(c) == [id |-> c, plan_id |-> p, recipe_id |-> r, worker_id |-> NoWorker,
                     status |-> "PENDING", repeats |-> n, commit_repeats |-> 0]
<1>1. PICK c \in CraftIds : craft' = [craft EXCEPT ![c] = row(c)]
  BY DEF InsertCraft
<1>2. CraftsOK'
  <2>1. row(c) \in CraftRow /\ row(c).id = c /\ row(c).repeats # 0
    BY DEF CraftRow
  <2> HIDE DEF row
  <2>. QED BY <1>1, <2>1, CraftUpdate DEF TablesOK
<1>3. \A u \in Items : Batch(r, n)[u] \in Int
  BY BatchIsInt
<1>4. planSteps[p][r] - n \in Nat
  BY DEF InsertCraft, TablesOK, PlansOK
<1>5. PlansOK'
  BY <1>3, <1>4 DEF TablesOK, PlansOK, InsertCraft
<1>6. ReservesOK'
  BY DEF TablesOK, ReservesOK, InsertCraft
<1>. QED BY <1>2, <1>5, <1>6 DEF TablesOK

\* Giving a craft to a worker keeps the shape of the tables.
LEMMA AssignType ==
  ASSUME TablesOK, NEW cp \in Copies, NEW w \in Workers, AssignCraftToWorker(cp, w)
  PROVE  TablesOK'
<1>1. cp.id \in CraftIds
  BY DEF Copies
<1> DEFINE row == [craft[cp.id] EXCEPT !.worker_id = w]
<1>2. craft[cp.id] \in CraftRow /\ craft[cp.id].id = cp.id /\ craft[cp.id].repeats # 0
  BY <1>1, LiveRow DEF AssignCraftToWorker, TablesOK
<1>3. row \in CraftRow /\ row.id = cp.id /\ row.repeats # 0
  BY <1>2 DEF CraftRow
<1>4. craft' = [craft EXCEPT ![cp.id] = row]
  BY DEF AssignCraftToWorker
<1>5. CraftsOK'
  BY <1>1, <1>3, <1>4, CraftUpdate DEF TablesOK
<1>. QED BY <1>5 DEF TablesOK, PlansOK, ReservesOK, AssignCraftToWorker, planTables

\* Commiting n repeats keeps the shape of the tables.
LEMMA CommitType ==
  ASSUME TablesOK, NEW cp \in Copies, NEW n \in Int, CommitCraft(cp, n)
  PROVE  TablesOK'
<1> DEFINE row == Commited(craft[cp.id], n)
<1>1. cp.id \in CraftIds /\ cp.recipe_id \in Recipes
  BY DEF Copies
<1>2. craft[cp.id] \in CraftRow /\ craft[cp.id].id = cp.id /\ craft[cp.id].repeats # 0
  BY <1>1, LiveRow DEF CommitCraft, Committable, TablesOK
<1>3. row \in CraftRow /\ row.id = cp.id /\ row.repeats # 0
  BY <1>2, CommitedRow
<1>4. craft' = [craft EXCEPT ![cp.id] = row]
  BY DEF CommitCraft
<1> HIDE DEF row
<1>5. CraftsOK'
  BY <1>1, <1>3, <1>4, CraftUpdate DEF TablesOK
<1>6. ReservesOK'
  <2>1. workerState' \subseteq Processors \X CraftIds
    BY DEF CommitCraft, NotWaiting, TablesOK, ReservesOK
  <2>. QED BY <1>1, <2>1, ReleaseReserves DEF CommitCraft, TablesOK
<1>. QED BY <1>5, <1>6 DEF TablesOK, PlansOK, CommitCraft, planTables

\* Completing a craft keeps the shape of the tables.
LEMMA CompleteType ==
  ASSUME TablesOK, NEW cp \in Copies, CompleteCraft(cp)
  PROVE  TablesOK'
<1>1. cp.id \in CraftIds
  BY DEF Copies
<1>2. CraftsOK'
  BY <1>1, CompleteCrafts DEF CompleteCraft, TablesOK
<1>. QED BY <1>2 DEF TablesOK, PlansOK, ReservesOK, CompleteCraft, planTables

\* Commiting and completing one repeat keeps the shape of the tables.
LEMMA CommitAndCompleteType ==
  ASSUME TablesOK, NEW cp \in Copies, CommitAndComplete(cp)
  PROVE  TablesOK'
<1> DEFINE row == Commited(craft[cp.id], 1)
<1>1. cp.id \in CraftIds /\ cp.recipe_id \in Recipes
  BY DEF Copies
<1>2. craft[cp.id] \in CraftRow /\ craft[cp.id].id = cp.id /\ craft[cp.id].repeats # 0
  BY <1>1, LiveRow DEF CommitAndComplete, Committable, TablesOK
<1>3. /\ row \in CraftRow /\ row.id = cp.id /\ row.repeats = craft[cp.id].repeats
      /\ row.status = "COMMITED" /\ row.commit_repeats = 1
  BY <1>2, CommitedRow
<1>4. craft' = [craft EXCEPT ![cp.id] = Completed(row)]
  BY DEF CommitAndComplete
<1> HIDE DEF row
<1>5. CraftsOK'
  <2>1. CASE row.repeats # row.commit_repeats
    <3>1. /\ Completed(row) \in CraftRow /\ Completed(row).id = cp.id
          /\ Completed(row).repeats = row.repeats - 1
      BY <1>3, <2>1, CompletedRow
    <3>2. row.repeats \in Int
      BY <1>3 DEF CraftRow
    <3>3. Completed(row).repeats # 0
      BY <1>3, <2>1, <3>1, <3>2
    <3>. QED BY <1>1, <1>4, <3>1, <3>3, CraftUpdate DEF TablesOK
  <2>2. CASE row.repeats = row.commit_repeats
    <3>1. Completed(row) = NoCraft
      BY <2>2 DEF Completed
    <3>. QED BY <1>1, <1>4, <3>1, CraftUpdate DEF TablesOK
  <2>. QED BY <2>1, <2>2
<1>6. ReservesOK'
  <2>1. workerState' \subseteq Processors \X CraftIds
    BY DEF CommitAndComplete, NotWaiting, TablesOK, ReservesOK
  <2>. QED BY <1>1, <2>1, ReleaseReserves DEF CommitAndComplete, TablesOK
<1>. QED BY <1>5, <1>6 DEF TablesOK, PlansOK, CommitAndComplete, planTables

\* Commiting one repeat and noting who waits keeps the shape of the tables.
LEMMA CommitAndWaitType ==
  ASSUME TablesOK, NEW cp \in Copies, NEW k \in Processors, CommitAndWait(cp, k)
  PROVE  TablesOK'
<1> DEFINE row == Commited(craft[cp.id], 1)
<1>1. cp.id \in CraftIds /\ cp.recipe_id \in Recipes
  BY DEF Copies
<1>2. craft[cp.id] \in CraftRow /\ craft[cp.id].id = cp.id /\ craft[cp.id].repeats # 0
  BY <1>1, LiveRow DEF CommitAndWait, Committable, TablesOK
<1>3. row \in CraftRow /\ row.id = cp.id /\ row.repeats # 0
  BY <1>2, CommitedRow
<1>4. craft' = [craft EXCEPT ![cp.id] = row]
  BY DEF CommitAndWait
<1> HIDE DEF row
<1>5. CraftsOK'
  BY <1>1, <1>3, <1>4, CraftUpdate DEF TablesOK
<1>6. ReservesOK'
  <2>1. workerState' \subseteq Processors \X CraftIds
    BY <1>1 DEF CommitAndWait, NotWaiting, TablesOK, ReservesOK
  <2>. QED BY <1>1, <2>1, ReleaseReserves DEF CommitAndWait, TablesOK
<1>. QED BY <1>5, <1>6 DEF TablesOK, PlansOK, CommitAndWait, planTables

\* Completing what a processing worker waited for keeps the shape of the
\* tables.
LEMMA CompleteWaitType ==
  ASSUME TablesOK, NEW cp \in Copies, NEW k \in Processors, CompleteWorkerWait(k, cp)
  PROVE  TablesOK'
<1>1. cp.id \in CraftIds
  BY DEF Copies
<1>2. CraftsOK'
  BY <1>1, CompleteCrafts DEF CompleteWorkerWait, TablesOK
<1>3. ReservesOK'
  BY DEF CompleteWorkerWait, TablesOK, ReservesOK
<1>. QED BY <1>2, <1>3 DEF TablesOK, PlansOK, CompleteWorkerWait, planTables

\* Cancelling a craft keeps the shape of the tables.
LEMMA CancelType ==
  ASSUME TablesOK, NEW cp \in Copies, CancelCraft(cp)
  PROVE  TablesOK'
<1>1. cp.id \in CraftIds /\ cp.recipe_id \in Recipes /\ cp.repeats - cp.commit_repeats \in Int
  BY DEF Copies
<1>2. CraftsOK'
  BY <1>1, CraftUpdate DEF CancelCraft, TablesOK
<1>3. ReservesOK'
  <2>1. workerState' \subseteq Processors \X CraftIds
    BY DEF CancelCraft, NotWaiting, TablesOK, ReservesOK
  <2>. QED BY <1>1, <2>1, ReleaseReserves DEF CancelCraft, TablesOK
<1>. QED BY <1>2, <1>3 DEF TablesOK, PlansOK, CancelCraft, planTables

\* What the plans miss, and what is dealt out to them, are integers; nobody
\* gets a negative amount, nor more than it misses, while nobody holds too
\* much.
LEMMA DealtBounds ==
  ASSUME PlansOK, NEW u \in Items, NEW free \in Int
  PROVE  /\ \A p \in PlanIds : Missing(u)[p] \in Int /\ Dealt(u, free)[p] \in Int
         /\ \A p \in PlanIds : Missing(u)[p] >= 0 =>
              0 <= Dealt(u, free)[p] /\ Dealt(u, free)[p] <= Missing(u)[p]
<1> DEFINE left(p) == free - SumTo(Missing(u), p - 1)
<1>1. \A p \in PlanIds : Missing(u)[p] \in Int
  BY DEF Missing, PlansOK
<1>2. ASSUME NEW p \in PlanIds PROVE left(p) \in Int
  <2>1. p - 1 \in Nat /\ \A i \in 1..(p - 1) : i \in PlanIds
    BY TablesAssumption DEF PlanIds
  <2>2. SumTo(Missing(u), p - 1) \in Int
    BY <1>1, <2>1, SumIsInt
  <2>. QED BY <2>2
<1>3. \A p \in PlanIds : Dealt(u, free)[p] = IF left(p) <= 0 THEN 0
                           ELSE IF left(p) < Missing(u)[p] THEN left(p) ELSE Missing(u)[p]
  BY DEF Dealt
<1> HIDE DEF left
<1>. QED BY <1>1, <1>2, <1>3

\* A count of the storage keeps the shape of the tables.
LEMMA CountType ==
  ASSUME TablesOK, NEW u \in Items, NEW count \in Nat, UpdateItemCount(u, count)
  PROVE  TablesOK'
<1> DEFINE dealt == Dealt(u, count - itemReserve[u])
<1>1. \A p \in PlanIds : dealt[p] \in Int
  BY DealtBounds DEF TablesOK, ReservesOK
<1>2. /\ planAmount' = [p \in PlanIds |-> [planAmount[p] EXCEPT ![u] = @ + dealt[p]]]
      /\ itemReserve' = [itemReserve EXCEPT ![u] = @ + SumTo(dealt, MaxPlans)]
  BY DEF UpdateItemCount
<1> HIDE DEF dealt
<1>3. SumTo(dealt, MaxPlans) \in Int
  BY <1>1, TablesAssumption, SumIsInt DEF PlanIds
<1>4. PlansOK'
  <2>1. planAmount' \in [PlanIds -> [Items -> Int]]
    BY <1>1, <1>2 DEF TablesOK, PlansOK
  <2>2. UNCHANGED <<planState, planGoal, planRequired, planSteps>>
    BY DEF UpdateItemCount
  <2>. QED BY <2>1, <2>2 DEF TablesOK, PlansOK
<1>5. ReservesOK'
  BY <1>2, <1>3 DEF UpdateItemCount, TablesOK, ReservesOK
<1>6. CraftsOK'
  BY DEF UpdateItemCount, TablesOK, CraftsOK
<1>. QED BY <1>4, <1>5, <1>6 DEF TablesOK

\* Clearing the reserves keeps the shape of the tables.
LEMMA ClearType ==
  ASSUME TablesOK, ClearActualReserves
  PROVE  TablesOK'
BY DEF TablesOK, CraftsOK, PlansOK, ReservesOK, ClearActualReserves, planTables, Nothing

-----------------------------------------------------------------------------
\* Copies of rows have the shape of copies.
LEMMA CopiesOfRows ==
  ASSUME CraftsOK, NEW row \in CraftRows
  PROVE  CopyOf(row) \in Copies
<1>1. PICK c \in CraftIds : row = craft[c] /\ craft[c] # NoCraft
  BY DEF CraftRows
<1>2. row \in CraftRow /\ row.repeats # 0
  BY <1>1, LiveRow
<1>. QED BY <1>2 DEF CraftRow, CopyOf, Copies

\* A commit writes an integer to a copy.
LEMMA NoteCommitType ==
  ASSUME CopiesOK, NEW h \in Callers, NEW cp \in copy[h], NEW n \in Int, NoteCommit(h, cp, n)
  PROVE  CopiesOK'
<1>1. cp \in Copies
  BY DEF CopiesOK
<1>2. [cp EXCEPT !.commit_repeats = n] \in Copies
  BY <1>1 DEF Copies
<1>. QED BY <1>2 DEF NoteCommit, CopiesOK

\* A batch is a number of repeats, and zero only where the recipe's limit is:
\* a copy has some.
LEMMA BatchSize ==
  ASSUME NEW cp \in Copies, NEW n \in BatchSizes(cp)
  PROVE  n \in Int /\ (n = 0 => MaxRepeats[cp.recipe_id] = 0)
BY LedgerAssumption DEF BatchSizes, Copies

\* What a goroutine does with one of its copies preserves the types.
LEMMA OnCopyType ==
  ASSUME TablesOK, CopiesOK, NEW h \in Callers, NEW cp \in copy[h], OnCopy(h, cp)
  PROVE  TablesOK' /\ CopiesOK'
<1>1. cp \in Copies
  BY DEF CopiesOK
<1>2. CASE \E w \in Workers : Assign(h, cp, w)
  BY <1>1, <1>2, AssignType DEF Assign, CopiesOK
<1>3. CASE \E n \in BatchSizes(cp) : Commit(h, cp, n)
  <2>1. PICK n \in BatchSizes(cp) : CommitCraft(cp, n) /\ NoteCommit(h, cp, n)
    BY <1>3 DEF Commit
  <2>2. n \in Int
    BY <1>1, BatchSize
  <2>. QED BY <1>1, <2>1, <2>2, CommitType, NoteCommitType
<1>4. CASE Complete(h, cp)
  BY <1>1, <1>4, CompleteType DEF Complete, CopiesOK
<1>5. CASE CommitComplete(h, cp)
  <2>1. CommitAndComplete(cp) /\ NoteCommit(h, cp, 1)
    BY <1>5 DEF CommitComplete
  <2>. QED BY <1>1, <2>1, CommitAndCompleteType, NoteCommitType
<1>6. ASSUME NEW k \in Processors, CommitWait(h, cp, k) PROVE TablesOK' /\ CopiesOK'
  <2>1. CommitAndWait(cp, k) /\ NoteCommit(h, cp, 1)
    BY <1>6 DEF CommitWait
  <2>. QED BY <1>1, <2>1, CommitAndWaitType, NoteCommitType
<1>7. ASSUME NEW k \in Processors, CompleteWait(h, cp, k) PROVE TablesOK' /\ CopiesOK'
  BY <1>1, <1>7, CompleteWaitType DEF CompleteWait, CopiesOK
<1>8. CASE Cancel(h, cp)
  BY <1>1, <1>8, CancelType DEF Cancel, CopiesOK
<1>. QED BY <1>2, <1>3, <1>4, <1>5, <1>6, <1>7, <1>8 DEF OnCopy

\* What is done with a plan preserves the types.
LEMMA OnPlanType ==
  ASSUME TablesOK, CopiesOK, NEW p \in PlanIds, OnPlan(p)
  PROVE  TablesOK' /\ CopiesOK'
<1>1. ASSUME NEW shape \in PlanShapes, Schedule(p, shape) PROVE TablesOK' /\ CopiesOK'
  <2>1. PICK stock \in [Items -> 0..MaxStock] : InsertPlan(p, shape, stock)
    BY <1>1 DEF Schedule
  <2>2. stock \in [Items -> Nat]
    BY LedgerAssumption
  <2>. QED BY <1>1, <2>1, <2>2, InsertPlanType DEF Schedule, CopiesOK
<1>2. CASE Delete(p)
  BY <1>2, RemovePlanType DEF Delete, CopiesOK
<1>3. ASSUME NEW r \in Recipes, Submit(p, r) PROVE TablesOK' /\ CopiesOK'
  <2>1. PICK n \in 1..planSteps[p][r] : InsertCraft(p, r, n)
    BY <1>3 DEF Submit
  <2>2. n \in Nat \ {0}
    BY DEF TablesOK, PlansOK
  <2>. QED BY <1>3, <2>1, <2>2, InsertCraftType DEF Submit, CopiesOK
<1>. QED BY <1>1, <1>2, <1>3 DEF OnPlan

\* Every step preserves the types.
LEMMA NextType ==
  ASSUME TablesOK, CopiesOK, [Next]_vars
  PROVE  TablesOK' /\ CopiesOK'
<1>1. ASSUME NEW h \in Callers, Find(h) PROVE TablesOK' /\ CopiesOK'
  <2>1. PICK rows \in SUBSET CraftRows :
          copy' = [copy EXCEPT ![h] = {CopyOf(row) : row \in rows}]
    BY <1>1 DEF Find
  <2>2. {CopyOf(row) : row \in rows} \subseteq Copies
    BY CopiesOfRows DEF TablesOK
  <2>3. CopiesOK'
    BY <2>1, <2>2 DEF CopiesOK
  <2>. QED BY <1>1, <2>3 DEF Find, tables, TablesOK, CraftsOK, PlansOK, ReservesOK
<1>2. ASSUME NEW h \in Callers, Forget(h) PROVE TablesOK' /\ CopiesOK'
  BY <1>2 DEF Forget, CopiesOK, tables, TablesOK, CraftsOK, PlansOK, ReservesOK
<1>3. ASSUME NEW h \in Callers, NEW cp \in copy[h], OnCopy(h, cp) PROVE TablesOK' /\ CopiesOK'
  BY <1>3, OnCopyType
<1>4. ASSUME NEW p \in PlanIds, OnPlan(p) PROVE TablesOK' /\ CopiesOK'
  BY <1>4, OnPlanType
<1>5. ASSUME NEW u \in Items, NEW n \in 1..MaxStock, Count(u, n) PROVE TablesOK' /\ CopiesOK'
  <2>1. n \in Nat
    BY LedgerAssumption
  <2>. QED BY <1>5, <2>1, CountType DEF Count, CopiesOK
<1>6. CASE Clear
  BY <1>6, ClearType DEF Clear, CopiesOK
<1>7. CASE Crash
  BY <1>7 DEF Crash, CopiesOK, tables, TablesOK, CraftsOK, PlansOK, ReservesOK
<1>8. CASE UNCHANGED vars
  BY <1>8 DEF vars, CopiesOK, tables, TablesOK, CraftsOK, PlansOK, ReservesOK
<1>. QED BY <1>1, <1>2, <1>3, <1>4, <1>5, <1>6, <1>7, <1>8 DEF Next

\* The empty database has the types.
LEMMA InitType == Init => TablesOK /\ CopiesOK
BY DEF Init, InitTables, TablesOK, CraftsOK, PlansOK, ReservesOK, CopiesOK, Nothing

LEMMA InitTypeOK == Init => TypeOK
BY InitType, TypeParts

LEMMA NextTypeOK == ASSUME TypeOK, [Next]_vars PROVE TypeOK'
<1>1. TablesOK' /\ CopiesOK'
  BY TypeParts, NextType
<1>. QED BY <1>1 DEF TypeOK, TablesOK, CraftsOK, PlansOK, ReservesOK, CopiesOK, Copies

\* Type correctness: whatever the order of the calls, every table keeps the
\* shape of its schema, every craft that there is still has repeats, and so
\* has every copy.
THEOREM TypeCorrect == Spec => []TypeOK
<1>1. TypeOK /\ [Next]_vars => TypeOK'
  BY NextTypeOK
<1>. QED BY InitTypeOK, <1>1, PTL DEF Spec

-----------------------------------------------------------------------------
\* One row of the craft table is replaced by one whose status tells the truth.
LEMMA ToldUpdate ==
  ASSUME CraftsOK, NEW c \in CraftIds, StatusTold(craft[c]), NEW d \in CraftIds, NEW row,
         d = c => StatusTold(row), craft' = [craft EXCEPT ![d] = row]
  PROVE  StatusTold(craft'[c])
BY DEF CraftsOK

\* A completed row has nothing commited and is PENDING.
LEMMA CompletedTold ==
  ASSUME NEW row \in CraftRow
  PROVE  StatusTold(Completed(row))
<1>1. CASE row.status = "COMMITED" /\ row.repeats # row.commit_repeats
  BY <1>1, CompletedRow DEF StatusTold
<1>2. CASE ~(row.status = "COMMITED" /\ row.repeats # row.commit_repeats)
  BY <1>2 DEF Completed, StatusTold
<1>. QED BY <1>1, <1>2

\* What a goroutine does with one of its copies leaves the status of c true,
\* unless it commits no repeats of c.
LEMMA OnCopyTold ==
  ASSUME TablesOK, CopiesOK, NEW c \in CraftIds, StatusTold(craft[c]), ~EmptyCommit(c),
         NEW h \in Callers, NEW cp \in copy[h], OnCopy(h, cp)
  PROVE  StatusTold(craft'[c])
<1>1. cp \in Copies /\ cp.id \in CraftIds
  BY DEF CopiesOK, Copies
<1>2. craft[cp.id] # NoCraft => craft[cp.id] \in CraftRow
  BY <1>1, LiveRow DEF TablesOK
<1>3. ASSUME NEW n \in Int, cp.id = c => n # 0, Committable(cp),
             craft' = [craft EXCEPT ![cp.id] = Commited(craft[cp.id], n)]
      PROVE  StatusTold(craft'[c])
  <2> DEFINE row == Commited(craft[cp.id], n)
  <2>1. row.status = "COMMITED" /\ row.commit_repeats = n
    BY <1>2, <1>3, CommitedRow DEF Committable
  <2> HIDE DEF row
  <2>2. cp.id = c => StatusTold(row)
    BY <1>3, <2>1 DEF StatusTold
  <2>. QED BY <1>1, <1>3, <2>2, ToldUpdate DEF TablesOK, row
<1>4. ASSUME craft[cp.id] # NoCraft, craft' = [craft EXCEPT ![cp.id] = Completed(craft[cp.id])]
      PROVE  StatusTold(craft'[c])
  <2>1. StatusTold(Completed(craft[cp.id]))
    BY <1>2, <1>4, CompletedTold
  <2>. QED BY <1>1, <1>4, <2>1, ToldUpdate DEF TablesOK
<1>5. ASSUME NEW w \in Workers, Assign(h, cp, w) PROVE StatusTold(craft'[c])
  <2> DEFINE row == [craft[cp.id] EXCEPT !.worker_id = w]
  <2>1. craft[cp.id] \in CraftRow /\ craft[cp.id] # NoCraft
    BY <1>1, <1>2, <1>5 DEF Assign, AssignCraftToWorker
  <2>2. cp.id = c => StatusTold(row)
    BY <2>1 DEF StatusTold, CraftRow, NoCraft
  <2>3. craft' = [craft EXCEPT ![cp.id] = row]
    BY <1>5 DEF Assign, AssignCraftToWorker
  <2> HIDE DEF row
  <2>. QED BY <1>1, <2>2, <2>3, ToldUpdate DEF TablesOK
<1>6. CASE \E n \in BatchSizes(cp) : Commit(h, cp, n)
  <2>1. PICK n \in BatchSizes(cp) : Commit(h, cp, n)
    BY <1>6
  <2>2. n \in Int
    BY <1>1, BatchSize
  <2>3. n = 0 => MaxRepeats[cp.recipe_id] = 0
    BY <1>1, BatchSize
  <2>4. cp.id = c => n # 0
    BY <2>1, <2>3 DEF EmptyCommit
  <2>. QED BY <1>3, <2>1, <2>2, <2>4 DEF Commit, CommitCraft
<1>7. CASE Complete(h, cp)
  BY <1>4, <1>7 DEF Complete, CompleteCraft
<1>8. CASE CommitComplete(h, cp)
  <2> DEFINE row == Commited(craft[cp.id], 1)
  <2>1. CommitAndComplete(cp)
    BY <1>8 DEF CommitComplete
  <2>2. row \in CraftRow
    BY <1>2, <2>1, CommitedRow DEF CommitAndComplete, Committable
  <2>3. craft' = [craft EXCEPT ![cp.id] = Completed(row)]
    BY <2>1 DEF CommitAndComplete
  <2> HIDE DEF row
  <2>4. StatusTold(Completed(row))
    BY <2>2, CompletedTold
  <2>. QED BY <1>1, <2>3, <2>4, ToldUpdate DEF TablesOK
<1>9. ASSUME NEW k \in Processors, CommitWait(h, cp, k) PROVE StatusTold(craft'[c])
  <2>1. Committable(cp) /\ craft' = [craft EXCEPT ![cp.id] = Commited(craft[cp.id], 1)]
    BY <1>9 DEF CommitWait, CommitAndWait
  <2>2. 1 \in Int /\ 1 # 0
    OBVIOUS
  <2>. QED BY <1>3, <2>1, <2>2
<1>10. ASSUME NEW k \in Processors, CompleteWait(h, cp, k) PROVE StatusTold(craft'[c])
  BY <1>4, <1>10 DEF CompleteWait, CompleteWorkerWait
<1>11. CASE Cancel(h, cp)
  <2>1. craft' = [craft EXCEPT ![cp.id] = NoCraft]
    BY <1>11 DEF Cancel, CancelCraft
  <2>2. StatusTold(NoCraft)
    BY DEF StatusTold
  <2>. QED BY <1>1, <2>1, <2>2, ToldUpdate DEF TablesOK
<1>. QED BY <1>5, <1>6, <1>7, <1>8, <1>9, <1>10, <1>11 DEF OnCopy

\* A craft that is submitted is PENDING with nothing commited.
LEMMA SubmitTold ==
  ASSUME TablesOK, NEW c \in CraftIds, StatusTold(craft[c]),
         NEW p \in PlanIds, NEW r \in Recipes, Submit(p, r)
  PROVE  StatusTold(craft'[c])
<1>1. PICK n \in 1..planSteps[p][r] : InsertCraft(p, r, n)
  BY DEF Submit
<1> DEFINE row(d) == [id |-> d, plan_id |-> p, recipe_id |-> r, worker_id |-> NoWorker,
                     status |-> "PENDING", repeats |-> n, commit_repeats |-> 0]
<1>2. PICK d \in CraftIds : craft' = [craft EXCEPT ![d] = row(d)]
  BY <1>1 DEF InsertCraft
<1>3. StatusTold(row(d))
  BY DEF StatusTold
<1> HIDE DEF row
<1>. QED BY <1>2, <1>3, ToldUpdate DEF TablesOK

\* The worker's Restore decides by the status, the transactions by the number
\* of commited repeats: the two say the same of a craft, in whatever order the
\* callers commit, complete and cancel, until no repeats of it are commited.
THEOREM CommitsAgree == Spec => CommitConsistent
<1>1. TypeOK /\ [Next]_vars =>
        [\A c \in CraftIds :
           StatusTold(craft[c]) /\ ~EmptyCommit(c) => StatusTold(craft[c])']_vars
  <2>1. SUFFICES ASSUME TypeOK, [Next]_vars, NEW c \in CraftIds,
                        StatusTold(craft[c]), ~EmptyCommit(c)
                 PROVE  StatusTold(craft'[c])
    OBVIOUS
  <2>2. TablesOK /\ CopiesOK
    BY <2>1, TypeParts
  <2>3. ASSUME NEW h \in Callers, NEW cp \in copy[h], OnCopy(h, cp) PROVE StatusTold(craft'[c])
    BY <2>1, <2>2, <2>3, OnCopyTold
  <2>4. ASSUME NEW p \in PlanIds, NEW r \in Recipes, Submit(p, r) PROVE StatusTold(craft'[c])
    BY <2>1, <2>2, <2>4, SubmitTold
  <2>5. UNCHANGED craft => StatusTold(craft'[c])
    BY <2>1
  <2>6. ASSUME NEW h \in Callers, Find(h) \/ Forget(h) PROVE UNCHANGED craft
    BY <2>6 DEF Find, Forget, tables
  <2>7. ASSUME NEW p \in PlanIds, Delete(p) \/ \E shape \in PlanShapes : Schedule(p, shape)
        PROVE UNCHANGED craft
    BY <2>7 DEF Delete, RemovePlan, Schedule, InsertPlan
  <2>8. ASSUME NEW u \in Items, NEW n \in 1..MaxStock, Count(u, n) PROVE UNCHANGED craft
    BY <2>8 DEF Count, UpdateItemCount
  <2>9. Clear \/ Crash \/ UNCHANGED vars => UNCHANGED craft
    BY DEF Clear, ClearActualReserves, Crash, vars, tables
  <2>. QED BY <2>1, <2>3, <2>4, <2>5, <2>6, <2>7, <2>8, <2>9 DEF Next, OnPlan
<1>. QED BY <1>1, TypeCorrect, PTL DEF Spec, CommitConsistent

-----------------------------------------------------------------------------
\* What the steps that plan p has not submitted consume of u.
StepNeed(p, u) == SumTo([r \in Recipes |-> planSteps[p][r] * Ingredients[r][u]], NRecipes)

\* PlanCovered, for one plan and one item.
Covered(p, u) ==
  /\ 0 <= planAmount[p][u]
  /\ planAmount[p][u] <= planRequired[p][u]
  /\ planGoal[p][u] + StepNeed(p, u) <= planRequired[p][u]
  /\ p \notin planState => planRequired[p][u] = 0

\* PlanCovered says it of every plan and item.
LEMMA PlanCoveredParts == PlanCovered <=> \A p \in PlanIds, u \in Items : Covered(p, u)
BY DEF PlanCovered, Covered, StepNeed

\* The factors of what the steps consume are natural numbers.
LEMMA StepFactors ==
  ASSUME PlansOK, NEW p \in PlanIds, NEW u \in Items, NEW r \in 1..NRecipes
  PROVE  planSteps[p][r] \in Nat /\ Ingredients[r][u] \in Nat
BY TablesAssumption DEF PlansOK, Recipes

\* The need of the steps is a natural number.
LEMMA StepNeedIsNat ==
  ASSUME PlansOK, NEW p \in PlanIds, NEW u \in Items
  PROVE  StepNeed(p, u) \in Nat
<1> DEFINE f == [r \in Recipes |-> planSteps[p][r] * Ingredients[r][u]]
<1>1. \A r \in 1..NRecipes : planSteps[p][r] \in Nat /\ Ingredients[r][u] \in Nat
  BY StepFactors
<1>2. \A r \in 1..NRecipes : f[r] \in Nat
  BY <1>1 DEF Recipes
<1> HIDE DEF f
<1>3. SumTo(f, NRecipes) \in Nat
  BY <1>2, TablesAssumption, SumIsNat
<1>. QED BY <1>3 DEF StepNeed, f

\* Storing a plan: it requires what it consumes and holds no more than that.
LEMMA ScheduleCovered ==
  ASSUME TablesOK, PlanCovered, NEW p \in PlanIds, NEW shape \in PlanShapes,
         NEW stock \in [Items -> Nat], InsertPlan(p, shape, stock)
  PROVE  PlanCovered'
<1>1. SUFFICES ASSUME NEW q \in PlanIds, NEW u \in Items PROVE Covered(q, u)'
  BY DEF PlanCovered, Covered, StepNeed
<1>2. Covered(q, u)
  BY PlanCoveredParts
<1>3. CASE q # p
  <2>1. /\ planAmount'[q] = planAmount[q] /\ planRequired'[q] = planRequired[q]
        /\ planGoal'[q] = planGoal[q] /\ planSteps'[q] = planSteps[q]
        /\ q \notin planState' => q \notin planState
    BY <1>3 DEF InsertPlan, TablesOK, PlansOK
  <2>2. StepNeed(q, u)' = StepNeed(q, u)
    BY <2>1 DEF StepNeed
  <2>. QED BY <1>2, <2>1, <2>2 DEF Covered
<1>4. CASE q = p
  <2>1. /\ planAmount'[q] = Acquired(shape, stock) /\ planRequired'[q] = Consumed(shape)
        /\ planGoal'[q] = shape.goal /\ planSteps'[q] = shape.steps
        /\ q \in planState'
    BY <1>4 DEF InsertPlan, TablesOK, PlansOK
  <2>2. StepNeed(q, u)' = SumTo([r \in Recipes |-> shape.steps[r] * Ingredients[r][u]], NRecipes)
    BY <2>1 DEF StepNeed
  <2>3. /\ Consumed(shape)[u] \in Nat
        /\ shape.goal[u] + StepNeed(q, u)' <= Consumed(shape)[u]
    BY <2>2, ConsumedCovers
  <2>4. Acquired(shape, stock)[u] \in Nat /\ Acquired(shape, stock)[u] <= Consumed(shape)[u]
    BY AcquiredBounds
  <2>. QED BY <2>1, <2>3, <2>4 DEF Covered
<1>. QED BY <1>3, <1>4

\* Removing a plan: it requires nothing any more.
LEMMA DeleteCovered ==
  ASSUME TablesOK, PlanCovered, NEW p \in PlanIds, RemovePlan(p)
  PROVE  PlanCovered'
<1>1. SUFFICES ASSUME NEW q \in PlanIds, NEW u \in Items PROVE Covered(q, u)'
  BY DEF PlanCovered, Covered, StepNeed
<1>2. Covered(q, u)
  BY PlanCoveredParts
<1>3. CASE q # p
  <2>1. /\ planAmount'[q] = planAmount[q] /\ planRequired'[q] = planRequired[q]
        /\ planGoal'[q] = planGoal[q] /\ planSteps'[q] = planSteps[q]
        /\ q \notin planState' => q \notin planState
    BY <1>3 DEF RemovePlan, TablesOK, PlansOK
  <2>2. StepNeed(q, u)' = StepNeed(q, u)
    BY <2>1 DEF StepNeed
  <2>. QED BY <1>2, <2>1, <2>2 DEF Covered
<1>4. CASE q = p
  <2> DEFINE f == [r \in Recipes |-> planSteps'[q][r] * Ingredients[r][u]]
  <2>1. /\ planAmount'[q][u] = 0 /\ planRequired'[q][u] = 0 /\ planGoal'[q][u] = 0
        /\ planSteps'[q] = [r \in Recipes |-> 0]
    BY <1>4 DEF RemovePlan, TablesOK, PlansOK, Nothing
  <2>2. \A r \in 1..NRecipes : f[r] = 0
    BY <2>1, TablesAssumption DEF Recipes
  <2>3. StepNeed(q, u)' = SumTo(f, NRecipes)
    BY DEF StepNeed
  <2> HIDE DEF f
  <2>4. SumTo(f, NRecipes) = 0
    BY <2>2, TablesAssumption, SumOfZeros
  <2>. QED BY <2>1, <2>3, <2>4 DEF Covered
<1>. QED BY <1>3, <1>4

\* Submitting n repeats of a step: need, requirement and amount shrink by the
\* same batch.
LEMMA SubmitCovered ==
  ASSUME TablesOK, PlanCovered, NEW p \in PlanIds, NEW r \in Recipes, NEW n \in Nat \ {0},
         InsertCraft(p, r, n)
  PROVE  PlanCovered'
<1>1. SUFFICES ASSUME NEW q \in PlanIds, NEW u \in Items PROVE Covered(q, u)'
  BY DEF PlanCovered, Covered, StepNeed
<1>2. Covered(q, u)
  BY PlanCoveredParts
<1>3. CASE q # p
  <2>1. /\ planAmount'[q] = planAmount[q] /\ planRequired'[q] = planRequired[q]
        /\ planGoal'[q] = planGoal[q] /\ planSteps'[q] = planSteps[q]
        /\ q \notin planState' => q \notin planState
    BY <1>3 DEF InsertCraft, TablesOK, PlansOK
  <2>2. StepNeed(q, u)' = StepNeed(q, u)
    BY <2>1 DEF StepNeed
  <2>. QED BY <1>2, <2>1, <2>2 DEF Covered
<1>4. CASE q = p
  <2> DEFINE batch == Ingredients[r][u] * n
             f == [i \in Recipes |-> planSteps[q][i] * Ingredients[i][u]]
             g == [i \in Recipes |-> planSteps'[q][i] * Ingredients[i][u]]
  <2>1. /\ planAmount'[q][u] = planAmount[q][u] - batch
        /\ planRequired'[q][u] = planRequired[q][u] - batch
        /\ planGoal'[q] = planGoal[q] /\ planState' = planState
        /\ planAmount[q][u] >= batch
        /\ planAmount[q][u] \in Int /\ planRequired[q][u] \in Int /\ planGoal[q][u] \in Int
    BY <1>4, BatchIsInt DEF InsertCraft, TablesOK, PlansOK
  <2>2. planSteps'[q] = [planSteps[q] EXCEPT ![r] = planSteps[q][r] - n]
    BY <1>4 DEF InsertCraft, TablesOK, PlansOK
  <2>3. \A i \in 1..NRecipes : planSteps[q][i] \in Nat /\ Ingredients[i][u] \in Nat
    BY StepFactors DEF TablesOK
  <2>4. \A i \in 1..NRecipes : f[i] \in Int /\ g[i] \in Int /\ (i # r => g[i] = f[i])
    BY <2>2, <2>3 DEF Recipes, TablesOK, PlansOK
  <2>5. g[r] = f[r] - batch
    <3>1. planSteps'[q][r] = planSteps[q][r] - n
      BY <2>2 DEF TablesOK, PlansOK
    <3>2. planSteps[q][r] \in Int /\ Ingredients[r][u] \in Int
      BY <2>3 DEF Recipes
    <3>3. (planSteps[q][r] - n) * Ingredients[r][u]
            = planSteps[q][r] * Ingredients[r][u] - Ingredients[r][u] * n
      BY <3>2
    <3>. QED BY <3>1, <3>3
  <2>6. batch \in Nat
    BY <2>3 DEF Recipes
  <2>7. StepNeed(q, u) = SumTo(f, NRecipes) /\ StepNeed(q, u)' = SumTo(g, NRecipes)
    BY DEF StepNeed
  <2> HIDE DEF f, g, batch
  <2>8. SumTo(g, NRecipes) = SumTo(f, NRecipes) + (g[r] - f[r])
    <3>1. NRecipes \in Nat /\ r \in 1..NRecipes
      BY TablesAssumption DEF Recipes
    <3>2. /\ \A i \in 1..NRecipes : f[i] \in Int
          /\ \A i \in 1..NRecipes : g[i] \in Int
          /\ \A i \in 1..NRecipes : i # r => g[i] = f[i]
      BY <2>4
    <3>. QED BY <3>1, <3>2, SumAfterUpdate
  <2>9. SumTo(f, NRecipes) \in Int
    BY <2>4, TablesAssumption, SumIsInt
  <2>10. f[r] \in Int
    BY <2>4 DEF Recipes
  <2>11. StepNeed(q, u)' = StepNeed(q, u) - batch /\ StepNeed(q, u) \in Int
    BY <2>5, <2>6, <2>7, <2>8, <2>9, <2>10
  <2>. QED BY <1>2, <2>1, <2>6, <2>11 DEF Covered
<1>. QED BY <1>3, <1>4

\* Dealing out what was counted: nobody gets more than it misses.
LEMMA CountCovered ==
  ASSUME TablesOK, PlanCovered, NEW i \in Items, NEW count \in Nat, UpdateItemCount(i, count)
  PROVE  PlanCovered'
<1>1. SUFFICES ASSUME NEW q \in PlanIds, NEW u \in Items PROVE Covered(q, u)'
  BY DEF PlanCovered, Covered, StepNeed
<1>2. Covered(q, u)
  BY PlanCoveredParts
<1> DEFINE dealt == Dealt(i, count - itemReserve[i])
<1>3. planAmount' = [p \in PlanIds |-> [planAmount[p] EXCEPT ![i] = @ + dealt[p]]]
  BY DEF UpdateItemCount
<1>4. UNCHANGED <<planState, planGoal, planRequired, planSteps>>
  BY DEF UpdateItemCount
<1>5. StepNeed(q, u)' = StepNeed(q, u)
  BY <1>4 DEF StepNeed
<1>6. u = i => 0 <= dealt[q] /\ dealt[q] <= planRequired[q][u] - planAmount[q][u]
  <2>1. u = i => Missing(i)[q] = planRequired[q][u] - planAmount[q][u]
    BY DEF Missing
  <2>2. planRequired[q][u] \in Int /\ planAmount[q][u] \in Int /\ count - itemReserve[i] \in Int
    BY DEF TablesOK, PlansOK, ReservesOK
  <2>3. u = i => Missing(i)[q] >= 0
    BY <1>2, <2>1, <2>2 DEF Covered
  <2>. QED BY <2>1, <2>2, <2>3, DealtBounds DEF TablesOK
<1>7. dealt[q] \in Int
  <2>1. count - itemReserve[i] \in Int
    BY DEF TablesOK, ReservesOK
  <2>. QED BY <2>1, DealtBounds DEF TablesOK
<1> HIDE DEF dealt
<1>8. planAmount'[q][u] = IF u = i THEN planAmount[q][u] + dealt[q] ELSE planAmount[q][u]
  BY <1>3 DEF TablesOK, PlansOK
<1>9. planRequired[q][u] \in Int /\ planAmount[q][u] \in Int
  BY DEF TablesOK, PlansOK
<1>10. 0 <= planAmount'[q][u] /\ planAmount'[q][u] <= planRequired'[q][u]
  BY <1>2, <1>4, <1>6, <1>7, <1>8, <1>9 DEF Covered
<1>. QED BY <1>2, <1>4, <1>5, <1>10 DEF Covered

\* The empty database covers every plan: there is none.
LEMMA InitCovered == Init => PlanCovered
<1>1. SUFFICES ASSUME Init, NEW p \in PlanIds, NEW u \in Items PROVE Covered(p, u)
  BY PlanCoveredParts
<1> DEFINE f == [r \in Recipes |-> planSteps[p][r] * Ingredients[r][u]]
<1>2. /\ planAmount[p][u] = 0 /\ planRequired[p][u] = 0 /\ planGoal[p][u] = 0
      /\ planSteps[p] = [r \in Recipes |-> 0]
  BY <1>1 DEF Init, InitTables, Nothing
<1>3. \A r \in 1..NRecipes : f[r] = 0
  BY <1>2, TablesAssumption DEF Recipes
<1>4. StepNeed(p, u) = SumTo(f, NRecipes)
  BY DEF StepNeed
<1> HIDE DEF f
<1>5. SumTo(f, NRecipes) = 0
  BY <1>3, TablesAssumption, SumOfZeros
<1>. QED BY <1>2, <1>4, <1>5 DEF Covered

\* Every step preserves PlanCovered.
LEMMA NextCovered ==
  ASSUME TypeOK, PlanCovered, [Next]_vars
  PROVE  PlanCovered'
<1>1. TablesOK /\ CopiesOK
  BY TypeParts
<1>2. ASSUME UNCHANGED planTables PROVE PlanCovered'
  BY <1>2 DEF PlanCovered, planTables
<1>3. ASSUME NEW h \in Callers, Find(h) \/ Forget(h) PROVE UNCHANGED planTables
  BY <1>3 DEF Find, Forget, tables, planTables
<1>4. ASSUME NEW h \in Callers, NEW cp \in copy[h], OnCopy(h, cp) PROVE UNCHANGED planTables
  BY <1>4 DEF OnCopy, Assign, AssignCraftToWorker, Commit, CommitCraft, Complete, CompleteCraft,
     CommitComplete, CommitAndComplete, CommitWait, CommitAndWait, CompleteWait,
     CompleteWorkerWait, Cancel, CancelCraft
<1>5. ASSUME NEW p \in PlanIds, OnPlan(p) PROVE PlanCovered'
  <2>1. ASSUME NEW shape \in PlanShapes, Schedule(p, shape) PROVE PlanCovered'
    <3>1. PICK stock \in [Items -> 0..MaxStock] : InsertPlan(p, shape, stock)
      BY <2>1 DEF Schedule
    <3>2. stock \in [Items -> Nat]
      BY LedgerAssumption
    <3>. QED BY <1>1, <3>1, <3>2, ScheduleCovered
  <2>2. CASE Delete(p)
    BY <1>1, <2>2, DeleteCovered DEF Delete
  <2>3. ASSUME NEW r \in Recipes, Submit(p, r) PROVE PlanCovered'
    <3>1. PICK n \in 1..planSteps[p][r] : InsertCraft(p, r, n)
      BY <2>3 DEF Submit
    <3>2. n \in Nat \ {0}
      BY <1>1 DEF TablesOK, PlansOK
    <3>. QED BY <1>1, <3>1, <3>2, SubmitCovered
  <2>. QED BY <1>5, <2>1, <2>2, <2>3 DEF OnPlan
<1>6. ASSUME NEW u \in Items, NEW n \in 1..MaxStock, Count(u, n) PROVE PlanCovered'
  <2>1. n \in Nat
    BY LedgerAssumption
  <2>. QED BY <1>1, <1>6, <2>1, CountCovered DEF Count
<1>7. Clear \/ Crash \/ UNCHANGED vars => UNCHANGED planTables
  BY DEF Clear, ClearActualReserves, Crash, vars, tables, planTables
<1>. QED BY <1>2, <1>3, <1>4, <1>5, <1>6, <1>7 DEF Next

\* However plans, submissions and counts of the storage follow each other, a
\* plan holds between nothing and what it requires, and requires enough for
\* its goals and every repeat it has not submitted.
THEOREM PlansCovered == Spec => []PlanCovered
<1>1. Init => PlanCovered
  BY InitCovered
<1>2. TypeOK /\ PlanCovered /\ [Next]_vars => PlanCovered'
  BY NextCovered
<1>. QED BY <1>1, <1>2, TypeCorrect, PTL DEF Spec

-----------------------------------------------------------------------------
\* The two sums of Drift: what the plans and what the crafts hold of u.
HeldByPlans(u) == SumTo([p \in PlanIds |-> planAmount[p][u]], MaxPlans)
HeldByCrafts(u) == SumTo([c \in CraftIds |-> HeldByCraft(craft[c], u)], MaxCrafts)

\* What a row of the craft table holds is an integer.
LEMMA HeldIsInt ==
  ASSUME NEW row, row = NoCraft \/ row \in CraftRow, NEW u \in Items
  PROVE  HeldByCraft(row, u) \in Int
<1>1. CASE row = NoCraft
  BY <1>1 DEF HeldByCraft
<1>2. CASE row # NoCraft
  <2>1. row.repeats - row.commit_repeats \in Int /\ row.recipe_id \in Recipes
    BY <1>2 DEF CraftRow
  <2>2. Ingredients[row.recipe_id][u] \in Int
    BY <2>1, TablesAssumption
  <2>3. (row.repeats - row.commit_repeats) * Ingredients[row.recipe_id][u] \in Int
    BY <2>1, <2>2
  <2>. QED BY <1>2, <2>3 DEF HeldByCraft
<1>. QED BY <1>1, <1>2

\* The sums of Drift are integers.
LEMMA SumsAreInt ==
  ASSUME TablesOK, NEW u \in Items
  PROVE  HeldByPlans(u) \in Int /\ HeldByCrafts(u) \in Int
<1> DEFINE f == [p \in PlanIds |-> planAmount[p][u]]
           g == [c \in CraftIds |-> HeldByCraft(craft[c], u)]
<1>1. \A p \in 1..MaxPlans : f[p] \in Int
  BY DEF TablesOK, PlansOK, PlanIds
<1>2. \A c \in 1..MaxCrafts : g[c] \in Int
  <2>1. ASSUME NEW c \in CraftIds PROVE HeldByCraft(craft[c], u) \in Int
    BY HeldIsInt DEF TablesOK, CraftsOK
  <2>. QED BY <2>1 DEF CraftIds
<1> HIDE DEF f, g
<1>3. SumTo(f, MaxPlans) \in Int /\ SumTo(g, MaxCrafts) \in Int
  BY <1>1, <1>2, TablesAssumption, SumIsInt
<1>. QED BY <1>3 DEF HeldByPlans, HeldByCrafts, f, g

\* A step that changes what one plan holds of u changes the sum by as much.
LEMMA PlanSumUpdate ==
  ASSUME PlansOK, PlansOK', NEW u \in Items, NEW p \in PlanIds,
         \A q \in PlanIds : q # p => planAmount'[q][u] = planAmount[q][u]
  PROVE  HeldByPlans(u)' = HeldByPlans(u) + (planAmount'[p][u] - planAmount[p][u])
<1> DEFINE f == [q \in PlanIds |-> planAmount[q][u]]
           g == [q \in PlanIds |-> planAmount'[q][u]]
<1>1. MaxPlans \in Nat /\ p \in 1..MaxPlans
  BY TablesAssumption DEF PlanIds
<1>2. /\ \A q \in 1..MaxPlans : f[q] \in Int
      /\ \A q \in 1..MaxPlans : g[q] \in Int
      /\ \A q \in 1..MaxPlans : q # p => g[q] = f[q]
  BY DEF PlansOK, PlanIds
<1>3. g[p] = planAmount'[p][u] /\ f[p] = planAmount[p][u]
  OBVIOUS
<1>4. HeldByPlans(u) = SumTo(f, MaxPlans) /\ HeldByPlans(u)' = SumTo(g, MaxPlans)
  BY DEF HeldByPlans
<1> HIDE DEF f, g
<1>5. SumTo(g, MaxPlans) = SumTo(f, MaxPlans) + (g[p] - f[p])
  BY <1>1, <1>2, SumAfterUpdate
<1>. QED BY <1>3, <1>4, <1>5

\* A step that replaces one row of the craft table changes the sum by the
\* difference of what the rows hold.
LEMMA CraftSumUpdate ==
  ASSUME CraftsOK, CraftsOK', NEW u \in Items, NEW c \in CraftIds, NEW row,
         craft' = [craft EXCEPT ![c] = row]
  PROVE  HeldByCrafts(u)' = HeldByCrafts(u) + (HeldByCraft(row, u) - HeldByCraft(craft[c], u))
<1> DEFINE f == [i \in CraftIds |-> HeldByCraft(craft[i], u)]
           g == [i \in CraftIds |-> HeldByCraft(craft'[i], u)]
<1>1. MaxCrafts \in Nat /\ c \in 1..MaxCrafts
  BY TablesAssumption DEF CraftIds
<1>2. craft'[c] = row /\ \A i \in CraftIds : i # c => craft'[i] = craft[i]
  BY DEF CraftsOK
<1>3. \A i \in CraftIds : HeldByCraft(craft[i], u) \in Int
  BY HeldIsInt DEF CraftsOK
<1>4. \A i \in CraftIds : HeldByCraft(craft'[i], u) \in Int
  BY HeldIsInt DEF CraftsOK
<1>5. /\ \A i \in 1..MaxCrafts : f[i] \in Int
      /\ \A i \in 1..MaxCrafts : g[i] \in Int
      /\ \A i \in 1..MaxCrafts : i # c => g[i] = f[i]
  BY <1>2, <1>3, <1>4 DEF CraftIds
<1>6. g[c] = HeldByCraft(row, u) /\ f[c] = HeldByCraft(craft[c], u)
  BY <1>2
<1>7. HeldByCrafts(u) = SumTo(f, MaxCrafts) /\ HeldByCrafts(u)' = SumTo(g, MaxCrafts)
  BY DEF HeldByCrafts, HeldByCraft
<1> HIDE DEF f, g
<1>8. SumTo(g, MaxCrafts) = SumTo(f, MaxCrafts) + (g[c] - f[c])
  BY <1>1, <1>5, SumAfterUpdate
<1>. QED BY <1>6, <1>7, <1>8

\* The drift of u stays when its reserve moves as much as the two sums do.
LEMMA DriftStays ==
  ASSUME TablesOK, NEW u \in Items, NEW d \in Int, NEW e \in Int,
         itemReserve'[u] = itemReserve[u] + d + e,
         HeldByPlans(u)' = HeldByPlans(u) + d,
         HeldByCrafts(u)' = HeldByCrafts(u) + e
  PROVE  Drift(u)' = Drift(u)
<1>1. itemReserve[u] \in Int /\ HeldByPlans(u) \in Int /\ HeldByCrafts(u) \in Int
  BY SumsAreInt DEF TablesOK, ReservesOK
<1>2. Drift(u) = itemReserve[u] - HeldByPlans(u) - HeldByCrafts(u)
  BY DEF Drift, HeldByPlans, HeldByCrafts
<1>3. Drift(u)' = itemReserve'[u] - HeldByPlans(u)' - HeldByCrafts(u)'
  BY DEF Drift, HeldByPlans, HeldByCrafts
<1> DEFINE a == itemReserve[u]  b == HeldByPlans(u)  c == HeldByCrafts(u)
           a1 == itemReserve'[u]  b1 == HeldByPlans(u)'  c1 == HeldByCrafts(u)'
<1>4. a \in Int /\ b \in Int /\ c \in Int /\ a1 = a + d + e /\ b1 = b + d /\ c1 = c + e
  BY <1>1
<1> HIDE DEF a, b, c, a1, b1, c1
<1>5. a1 - b1 - c1 = a - b - c
  BY <1>4
<1>. QED BY <1>2, <1>3, <1>5 DEF a, b, c, a1, b1, c1

\* The same for a step that leaves the plans alone and replaces the craft c
\* by row.
LEMMA DriftOfCraft ==
  ASSUME TablesOK, TablesOK', NEW u \in Items, NEW c \in CraftIds, NEW row,
         craft' = [craft EXCEPT ![c] = row], UNCHANGED planTables,
         itemReserve'[u] = itemReserve[u] + (HeldByCraft(row, u) - HeldByCraft(craft[c], u))
  PROVE  Drift(u)' = Drift(u)
<1> DEFINE e == HeldByCraft(row, u) - HeldByCraft(craft[c], u)
<1>1. HeldByCrafts(u)' = HeldByCrafts(u) + e
  BY CraftSumUpdate DEF TablesOK
<1>2. HeldByPlans(u)' = HeldByPlans(u)
  BY DEF HeldByPlans, planTables
<1>3. craft'[c] = row
  BY DEF TablesOK, CraftsOK
<1>4. HeldByCraft(row, u) \in Int
  BY <1>3, HeldIsInt DEF TablesOK, CraftsOK
<1>5. HeldByCraft(craft[c], u) \in Int
  BY HeldIsInt DEF TablesOK, CraftsOK
<1>6. e \in Int /\ itemReserve'[u] = itemReserve[u] + e
  BY <1>4, <1>5
<1> HIDE DEF e
<1>7. HeldByPlans(u) \in Int /\ itemReserve[u] \in Int
  BY SumsAreInt DEF TablesOK, ReservesOK
<1>8. itemReserve'[u] = itemReserve[u] + 0 + e /\ HeldByPlans(u)' = HeldByPlans(u) + 0
  BY <1>2, <1>6, <1>7
<1>. QED BY <1>1, <1>6, <1>8, DriftStays

\* The ingredients of repeats add up.
LEMMA Distributes ==
  ASSUME NEW a \in Int, NEW b \in Int, NEW c \in Int
  PROVE  /\ (a - b) * c \in Int /\ a * c \in Int /\ c * b \in Int
         /\ (a - b) * c = a * c - c * b
OBVIOUS

\* What a row that there is holds.
LEMMA HeldByRow ==
  ASSUME NEW row \in CraftRow, NEW u \in Items
  PROVE  HeldByCraft(row, u) = (row.repeats - row.commit_repeats) * Ingredients[row.recipe_id][u]
BY DEF HeldByCraft, CraftRow, NoCraft

\* Taking a batch from the reserve of an item that has a row.
LEMMA ReleaseOfBatch ==
  ASSUME TablesOK, NEW u \in reserveRows, NEW r \in Recipes, NEW n \in Int,
         itemReserve' = Released(Batch(r, n))
  PROVE  itemReserve'[u] = itemReserve[u] - Ingredients[r][u] * n
BY DEF Released, Batch, TablesOK, ReservesOK

\* A commit of n repeats by the right recipe takes what the row gives up.
LEMMA CommitDrift ==
  ASSUME TablesOK, TablesOK', NEW u \in reserveRows, NEW cp \in Copies, NEW n \in Int,
         Committable(cp), cp.recipe_id = craft[cp.id].recipe_id,
         craft' = [craft EXCEPT ![cp.id] = Commited(craft[cp.id], n)],
         itemReserve' = Released(Batch(cp.recipe_id, n)), UNCHANGED planTables
  PROVE  Drift(u)' = Drift(u)
<1> DEFINE old == craft[cp.id]
           row == Commited(old, n)
           of == Ingredients[cp.recipe_id][u]
<1>1. cp.id \in CraftIds /\ cp.recipe_id \in Recipes /\ u \in Items
  BY DEF Copies, TablesOK, ReservesOK
<1>2. old \in CraftRow /\ old.commit_repeats = 0 /\ old.recipe_id = cp.recipe_id /\ old.repeats \in Int
  BY <1>1, LiveRow DEF Committable, TablesOK, CraftRow
<1>3. /\ row \in CraftRow /\ row.repeats = old.repeats /\ row.commit_repeats = n
      /\ row.recipe_id = cp.recipe_id
  BY <1>2, CommitedRow
<1>4. of \in Int
  BY <1>1, TablesAssumption
<1>5. itemReserve'[u] = itemReserve[u] - of * n
  BY <1>1, ReleaseOfBatch
<1>6. craft' = [craft EXCEPT ![cp.id] = row]
  OBVIOUS
<1> HIDE DEF row, of
<1>7. HeldByCraft(old, u) = (old.repeats - 0) * of
  BY <1>1, <1>2, HeldByRow DEF of
<1>8. HeldByCraft(row, u) = (old.repeats - n) * of
  BY <1>1, <1>3, HeldByRow DEF of
<1>9. HeldByCraft(row, u) = old.repeats * of - of * n
  BY <1>2, <1>4, <1>8, Distributes
<1>10. HeldByCraft(old, u) = old.repeats * of
  BY <1>2, <1>4, <1>7
<1>11. old.repeats * of \in Int /\ of * n \in Int /\ itemReserve[u] \in Int
  BY <1>1, <1>2, <1>4, Distributes DEF TablesOK, ReservesOK
<1>12. itemReserve'[u] = itemReserve[u] + (HeldByCraft(row, u) - HeldByCraft(old, u))
  BY <1>5, <1>9, <1>10, <1>11
<1>. QED BY <1>1, <1>6, <1>12, DriftOfCraft

\* What is left of a COMMITED row when it is completed holds as much as
\* before.
LEMMA CompletedHolds ==
  ASSUME NEW row \in CraftRow, row.status = "COMMITED", NEW u \in Items
  PROVE  HeldByCraft(Completed(row), u) = HeldByCraft(row, u)
<1> DEFINE of == Ingredients[row.recipe_id][u]
<1>1. row.repeats \in Int /\ row.commit_repeats \in Int /\ row.recipe_id \in Recipes
  BY DEF CraftRow
<1>2. of \in Int
  BY <1>1, TablesAssumption
<1>3. HeldByCraft(row, u) = (row.repeats - row.commit_repeats) * of
  BY HeldByRow
<1>4. CASE row.repeats # row.commit_repeats
  <2>1. /\ Completed(row) \in CraftRow /\ Completed(row).recipe_id = row.recipe_id
        /\ Completed(row).repeats = row.repeats - row.commit_repeats
        /\ Completed(row).commit_repeats = 0
    BY <1>4, CompletedRow
  <2>2. HeldByCraft(Completed(row), u) = ((row.repeats - row.commit_repeats) - 0) * of
    BY <2>1, HeldByRow
  <2>3. (row.repeats - row.commit_repeats) - 0 = row.repeats - row.commit_repeats
    BY <1>1
  <2>. QED BY <1>3, <2>2, <2>3
<1>5. CASE row.repeats = row.commit_repeats
  <2>1. Completed(row) = NoCraft /\ row.repeats - row.commit_repeats = 0
    BY <1>1, <1>5 DEF Completed
  <2>2. 0 * of = 0
    BY <1>2
  <2>. QED BY <1>3, <2>1, <2>2 DEF HeldByCraft
<1>. QED BY <1>4, <1>5

\* Completing a COMMITED craft changes no holding.
LEMMA CompleteDrift ==
  ASSUME TablesOK, TablesOK', NEW u \in reserveRows, NEW cp \in Copies,
         craft[cp.id] # NoCraft, craft[cp.id].status # "PENDING",
         craft' = [craft EXCEPT ![cp.id] = Completed(craft[cp.id])],
         UNCHANGED planTables, UNCHANGED itemReserve
  PROVE  Drift(u)' = Drift(u)
<1>1. cp.id \in CraftIds /\ u \in Items
  BY DEF Copies, TablesOK, ReservesOK
<1>2. craft[cp.id] \in CraftRow /\ craft[cp.id].status = "COMMITED"
  BY <1>1, LiveRow DEF TablesOK, CraftRow
<1>3. HeldByCraft(Completed(craft[cp.id]), u) = HeldByCraft(craft[cp.id], u)
  BY <1>1, <1>2, CompletedHolds
<1>4. HeldByCraft(craft[cp.id], u) \in Int /\ itemReserve[u] \in Int
  BY <1>1, <1>2, HeldIsInt DEF TablesOK, ReservesOK
<1>5. itemReserve'[u]
        = itemReserve[u] + (HeldByCraft(Completed(craft[cp.id]), u) - HeldByCraft(craft[cp.id], u))
  BY <1>3, <1>4
<1>. QED BY <1>1, <1>5, DriftOfCraft

\* Commiting and completing one repeat takes what the row gives up.
LEMMA CommitAndCompleteDrift ==
  ASSUME TablesOK, TablesOK', NEW u \in reserveRows, NEW cp \in Copies,
         CommitAndComplete(cp), cp.recipe_id = craft[cp.id].recipe_id
  PROVE  Drift(u)' = Drift(u)
<1> DEFINE old == craft[cp.id]
           mid == Commited(old, 1)
           row == Completed(mid)
           of == Ingredients[cp.recipe_id][u]
<1>1. cp.id \in CraftIds /\ cp.recipe_id \in Recipes /\ u \in Items
  BY DEF Copies, TablesOK, ReservesOK
<1>2. /\ old \in CraftRow /\ old.commit_repeats = 0 /\ old.recipe_id = cp.recipe_id
      /\ old.repeats \in Int
  BY <1>1, LiveRow DEF CommitAndComplete, Committable, TablesOK, CraftRow
<1>3. /\ mid \in CraftRow /\ mid.repeats = old.repeats /\ mid.commit_repeats = 1
      /\ mid.recipe_id = cp.recipe_id /\ mid.status = "COMMITED"
  BY <1>2, CommitedRow
<1>4. of \in Int
  BY <1>1, TablesAssumption
<1>5. itemReserve'[u] = itemReserve[u] - of * 1
  BY <1>1, ReleaseOfBatch DEF CommitAndComplete
<1>6. craft' = [craft EXCEPT ![cp.id] = row]
  BY DEF CommitAndComplete
<1> HIDE DEF mid, of
<1>7. HeldByCraft(old, u) = (old.repeats - 0) * of
  BY <1>1, <1>2, HeldByRow DEF of
<1>8. HeldByCraft(mid, u) = (old.repeats - 1) * of
  BY <1>1, <1>3, HeldByRow DEF of
<1>9. HeldByCraft(row, u) = HeldByCraft(mid, u)
  BY <1>1, <1>3, CompletedHolds
<1>10. (old.repeats - 1) * of = old.repeats * of - of /\ (old.repeats - 0) * of = old.repeats * of
  BY <1>2, <1>4
<1>11. old.repeats * of \in Int /\ of * 1 = of /\ itemReserve[u] \in Int
  BY <1>1, <1>2, <1>4, Distributes DEF TablesOK, ReservesOK
<1>12. itemReserve'[u] = itemReserve[u] + (HeldByCraft(row, u) - HeldByCraft(old, u))
  BY <1>4, <1>5, <1>7, <1>8, <1>9, <1>10, <1>11
<1> HIDE DEF row
<1>. QED BY <1>1, <1>6, <1>12, DriftOfCraft DEF CommitAndComplete

\* Cancelling by a copy with the right recipe and repeats gives back all that
\* the row holds.
LEMMA CancelDrift ==
  ASSUME TablesOK, TablesOK', NEW u \in reserveRows, NEW cp \in Copies, CancelCraft(cp),
         cp.recipe_id = craft[cp.id].recipe_id, cp.repeats = craft[cp.id].repeats
  PROVE  Drift(u)' = Drift(u)
<1> DEFINE left == cp.repeats - cp.commit_repeats
           of == Ingredients[cp.recipe_id][u]
<1>1. cp.id \in CraftIds /\ cp.recipe_id \in Recipes /\ u \in Items /\ left \in Int
  BY DEF Copies, TablesOK, ReservesOK
<1>2. craft[cp.id] \in CraftRow /\ craft[cp.id].commit_repeats = cp.commit_repeats
  BY <1>1, LiveRow DEF CancelCraft, TablesOK
<1>3. of \in Int
  BY <1>1, TablesAssumption
<1>4. HeldByCraft(craft[cp.id], u) = left * of
  BY <1>1, <1>2, HeldByRow
<1>5. itemReserve'[u] = itemReserve[u] - of * left
  BY <1>1, ReleaseOfBatch DEF CancelCraft
<1>6. HeldByCraft(NoCraft, u) = 0
  BY DEF HeldByCraft
<1> HIDE DEF left, of
<1>7. of * left = left * of /\ left * of \in Int
  BY <1>1, <1>3
<1>8. itemReserve[u] \in Int
  BY <1>1 DEF TablesOK, ReservesOK
<1>9. itemReserve'[u] = itemReserve[u] + (HeldByCraft(NoCraft, u) - HeldByCraft(craft[cp.id], u))
  BY <1>4, <1>5, <1>6, <1>7, <1>8
<1>. QED BY <1>1, <1>9, DriftOfCraft DEF CancelCraft

\* A new plan reserves what it holds.
LEMMA ScheduleDrift ==
  ASSUME TablesOK, TablesOK', PlanCovered, NEW u \in Items, NEW p \in PlanIds,
         NEW shape \in PlanShapes, NEW stock \in [Items -> Nat], InsertPlan(p, shape, stock)
  PROVE  Drift(u)' = Drift(u)
<1> DEFINE d == Acquired(shape, stock)[u]
<1>1. p \notin planState
  BY TablesAssumption DEF InsertPlan, IsNextRowid, PlanIds
<1>2. Covered(p, u)
  BY PlanCoveredParts
<1>3. planAmount[p][u] \in Int /\ planRequired[p][u] \in Int /\ itemReserve[u] \in Int
  BY DEF TablesOK, PlansOK, ReservesOK
<1>4. planAmount[p][u] = 0
  BY <1>1, <1>2, <1>3 DEF Covered
<1>5. d \in Int
  BY AcquiredBounds
<1>6. planAmount' = [planAmount EXCEPT ![p] = Acquired(shape, stock)]
  BY DEF InsertPlan
<1>7. planAmount'[p][u] = d /\ \A q \in PlanIds : q # p => planAmount'[q][u] = planAmount[q][u]
  BY <1>6 DEF TablesOK, PlansOK
<1>8. itemReserve'[u] = itemReserve[u] + d
  BY DEF InsertPlan
<1> HIDE DEF d
<1>9. HeldByPlans(u)' = HeldByPlans(u) + (planAmount'[p][u] - planAmount[p][u])
  BY <1>7, PlanSumUpdate DEF TablesOK
<1>10. HeldByPlans(u)' = HeldByPlans(u) + d
  BY <1>4, <1>5, <1>7, <1>9
<1>11. HeldByCrafts(u)' = HeldByCrafts(u)
  BY DEF InsertPlan, HeldByCrafts, HeldByCraft
<1>12. HeldByCrafts(u) \in Int
  BY SumsAreInt
<1>13. itemReserve'[u] = itemReserve[u] + d + 0 /\ HeldByCrafts(u)' = HeldByCrafts(u) + 0
  BY <1>3, <1>5, <1>8, <1>11, <1>12
<1>. QED BY <1>5, <1>10, <1>13, DriftStays

\* A plan that is removed gives back what it holds.
LEMMA DeleteDrift ==
  ASSUME TablesOK, TablesOK', NEW u \in reserveRows, NEW p \in PlanIds, RemovePlan(p)
  PROVE  Drift(u)' = Drift(u)
<1> DEFINE d == 0 - planAmount[p][u]
<1>1. u \in Items /\ planAmount[p][u] \in Int /\ itemReserve[u] \in Int
  BY DEF TablesOK, PlansOK, ReservesOK
<1>2. planAmount' = [planAmount EXCEPT ![p] = Nothing]
  BY DEF RemovePlan
<1>3. planAmount'[p][u] = 0 /\ \A q \in PlanIds : q # p => planAmount'[q][u] = planAmount[q][u]
  BY <1>1, <1>2 DEF TablesOK, PlansOK, Nothing
<1>4. HeldByPlans(u)' = HeldByPlans(u) + d
  BY <1>1, <1>3, PlanSumUpdate DEF TablesOK
<1>5. itemReserve'[u] = itemReserve[u] - planAmount[p][u]
  BY <1>1 DEF RemovePlan, Released
<1>6. HeldByCrafts(u)' = HeldByCrafts(u) /\ HeldByCrafts(u) \in Int
  BY <1>1, SumsAreInt DEF RemovePlan, HeldByCrafts, HeldByCraft
<1>7. d \in Int /\ itemReserve'[u] = itemReserve[u] + d + 0 /\ HeldByCrafts(u)' = HeldByCrafts(u) + 0
  BY <1>1, <1>5, <1>6
<1>8. u \in Items
  BY <1>1
<1> HIDE DEF d
<1>. QED BY <1>4, <1>7, <1>8, DriftStays

\* A submission moves a batch from its plan to the new craft.
LEMMA SubmitDrift ==
  ASSUME TablesOK, TablesOK', NEW u \in Items, NEW p \in PlanIds, NEW r \in Recipes,
         NEW n \in Nat \ {0}, InsertCraft(p, r, n)
  PROVE  Drift(u)' = Drift(u)
<1> DEFINE row(c) == [id |-> c, plan_id |-> p, recipe_id |-> r, worker_id |-> NoWorker,
                     status |-> "PENDING", repeats |-> n, commit_repeats |-> 0]
           batch == Ingredients[r][u] * n
           d == 0 - batch
<1>1. PICK c \in CraftIds : /\ craft' = [craft EXCEPT ![c] = row(c)]
                            /\ IsNextRowid(c, {i \in CraftIds : craft[i] # NoCraft})
  BY DEF InsertCraft
<1>2. craft[c] = NoCraft
  BY <1>1 DEF IsNextRowid, CraftIds
<1>3. row(c) \in CraftRow /\ row(c).repeats = n /\ row(c).commit_repeats = 0 /\ row(c).recipe_id = r
  BY DEF CraftRow
<1>4. batch \in Int
  BY BatchIsInt
<1>5. HeldByCraft(row(c), u) = (n - 0) * Ingredients[r][u]
  <2> HIDE DEF row
  <2>. QED BY <1>3, HeldByRow
<1>6. (n - 0) * Ingredients[r][u] = batch
  <2>1. Ingredients[r][u] \in Int
    BY TablesAssumption
  <2>. QED BY <2>1
<1>7. /\ planAmount'[p][u] = planAmount[p][u] - batch
      /\ \A q \in PlanIds : q # p => planAmount'[q][u] = planAmount[q][u]
      /\ planAmount[p][u] \in Int /\ itemReserve[u] \in Int /\ itemReserve' = itemReserve
  BY BatchIsInt DEF InsertCraft, TablesOK, PlansOK, ReservesOK
<1>8. HeldByPlans(u)' = HeldByPlans(u) + (planAmount'[p][u] - planAmount[p][u])
  BY <1>7, PlanSumUpdate DEF TablesOK
<1>9. HeldByCraft(craft[c], u) = 0
  BY <1>2 DEF HeldByCraft
<1> HIDE DEF row, batch
<1>10. HeldByCrafts(u)' = HeldByCrafts(u) + (HeldByCraft(row(c), u) - HeldByCraft(craft[c], u))
  BY <1>1, CraftSumUpdate DEF TablesOK
<1>11. d \in Int /\ planAmount'[p][u] - planAmount[p][u] = d
  BY <1>4, <1>7
<1>12. HeldByCrafts(u)' = HeldByCrafts(u) + batch
  BY <1>4, <1>5, <1>6, <1>9, <1>10
<1>13. itemReserve'[u] = itemReserve[u] + d + batch
  BY <1>4, <1>7
<1> HIDE DEF d
<1>. QED BY <1>4, <1>8, <1>11, <1>12, <1>13, DriftStays

\* A count adds to the reserve what it deals out to the plans.
LEMMA CountDrift ==
  ASSUME TablesOK, TablesOK', NEW u \in Items, NEW i \in Items, NEW count \in Nat,
         UpdateItemCount(i, count)
  PROVE  Drift(u)' = Drift(u)
<1> DEFINE dealt == Dealt(i, count - itemReserve[i])
           f == [p \in PlanIds |-> planAmount[p][u]]
           g == [p \in PlanIds |-> planAmount'[p][u]]
           d == IF u = i THEN SumTo(dealt, MaxPlans) ELSE 0
<1>1. planAmount' = [p \in PlanIds |-> [planAmount[p] EXCEPT ![i] = @ + dealt[p]]]
  BY DEF UpdateItemCount
<1>2. itemReserve' = [itemReserve EXCEPT ![i] = @ + SumTo(dealt, MaxPlans)]
  BY DEF UpdateItemCount
<1>3. \A p \in PlanIds : dealt[p] \in Int
  <2>1. count - itemReserve[i] \in Int
    BY DEF TablesOK, ReservesOK
  <2>. QED BY <2>1, DealtBounds DEF TablesOK
<1> HIDE DEF dealt
<1>4. SumTo(dealt, MaxPlans) \in Int
  BY <1>3, TablesAssumption, SumIsInt DEF PlanIds
<1>5. d \in Int /\ itemReserve[u] \in Int /\ itemReserve'[u] = itemReserve[u] + d
  BY <1>2, <1>4 DEF TablesOK, ReservesOK
<1>6. \A p \in PlanIds : planAmount'[p][u] = IF u = i THEN planAmount[p][u] + dealt[p]
                                             ELSE planAmount[p][u]
  BY <1>1 DEF TablesOK, PlansOK
<1>7. HeldByPlans(u) = SumTo(f, MaxPlans) /\ HeldByPlans(u)' = SumTo(g, MaxPlans)
  BY DEF HeldByPlans
<1>8. HeldByPlans(u)' = HeldByPlans(u) + d
  <2>1. CASE u = i
    <3>1. /\ \A p \in 1..MaxPlans : f[p] \in Int
          /\ \A p \in 1..MaxPlans : g[p] \in Int
          /\ \A p \in 1..MaxPlans : dealt[p] \in Int
          /\ \A p \in 1..MaxPlans : g[p] = f[p] + dealt[p]
      BY <1>3, <1>6, <2>1 DEF TablesOK, PlansOK, PlanIds
    <3> HIDE DEF f, g
    <3>2. MaxPlans \in Nat
      BY TablesAssumption
    <3>3. SumTo(g, MaxPlans) = SumTo(f, MaxPlans) + SumTo(dealt, MaxPlans)
      BY <3>1, <3>2, SumOfSum
    <3>. QED BY <1>7, <2>1, <3>3
  <2>2. CASE u # i
    <3>1. g = f
      <4>1. \A p \in PlanIds : planAmount'[p][u] = planAmount[p][u]
        BY <1>6, <2>2
      <4>. QED BY <4>1
    <3> HIDE DEF f, g
    <3>2. HeldByPlans(u) \in Int
      BY SumsAreInt
    <3>3. HeldByPlans(u)' = HeldByPlans(u) + 0
      BY <1>7, <3>1, <3>2
    <3>. QED BY <2>2, <3>3
  <2>. QED BY <2>1, <2>2
<1>9. HeldByCrafts(u)' = HeldByCrafts(u) /\ HeldByCrafts(u) \in Int
  BY SumsAreInt DEF UpdateItemCount, HeldByCrafts, HeldByCraft
<1> HIDE DEF d
<1> DEFINE e == 0
<1>10. /\ e \in Int /\ itemReserve'[u] = itemReserve[u] + d + e
       /\ HeldByCrafts(u)' = HeldByCrafts(u) + e
  BY <1>5, <1>9
<1> HIDE DEF e
<1>. QED BY <1>5, <1>8, <1>10, DriftStays

\* A step that changes neither plans, crafts nor reserves changes no drift.
LEMMA NoDrift ==
  ASSUME UNCHANGED <<planAmount, craft, itemReserve>>
  PROVE  \A u \in reserveRows : Drift(u)' = Drift(u)
BY DEF Drift, HeldByCraft

\* A craft that is given to a worker holds what it held.
LEMMA AssignDrift ==
  ASSUME TablesOK, TablesOK', NEW u \in reserveRows, NEW cp \in Copies, NEW w \in Workers,
         AssignCraftToWorker(cp, w)
  PROVE  Drift(u)' = Drift(u)
<1> DEFINE row == [craft[cp.id] EXCEPT !.worker_id = w]
<1>1. craft[cp.id] # NoCraft /\ craft' = [craft EXCEPT ![cp.id] = row]
      /\ UNCHANGED planTables /\ UNCHANGED itemReserve
  BY DEF AssignCraftToWorker
<1>2. cp.id \in CraftIds /\ craft[cp.id] \in CraftRow
  BY <1>1, LiveRow DEF TablesOK, Copies
<1>3. /\ row \in CraftRow /\ row.repeats = craft[cp.id].repeats
      /\ row.commit_repeats = craft[cp.id].commit_repeats
      /\ row.recipe_id = craft[cp.id].recipe_id
  BY <1>2 DEF CraftRow
<1> HIDE DEF row
<1>4. u \in Items /\ itemReserve[u] \in Int
  BY DEF TablesOK, ReservesOK
<1>5. HeldByCraft(row, u) = HeldByCraft(craft[cp.id], u)
  BY <1>2, <1>3, <1>4, HeldByRow
<1>6. HeldByCraft(craft[cp.id], u) \in Int
  BY <1>2, <1>4, HeldIsInt
<1>7. itemReserve'[u] = itemReserve[u] + (HeldByCraft(row, u) - HeldByCraft(craft[cp.id], u))
  BY <1>1, <1>4, <1>5, <1>6
<1>. QED BY <1>1, <1>2, <1>4, <1>7, DriftOfCraft

\* What a goroutine does with one of its copies changes no drift, unless it
\* is one of the faults.
LEMMA OnCopyDrift ==
  ASSUME TablesOK, TablesOK', CopiesOK, NEW h \in Callers, NEW cp \in copy[h], OnCopy(h, cp),
         ~LedgerFault, NEW u \in reserveRows
  PROVE  Drift(u)' = Drift(u)
<1>1. cp \in Copies /\ cp.id \in CraftIds
  BY DEF CopiesOK, Copies
<1>2. ASSUME NEW w \in Workers, Assign(h, cp, w) PROVE Drift(u)' = Drift(u)
  BY <1>1, <1>2, AssignDrift DEF Assign
<1>3. ASSUME NEW n \in BatchSizes(cp), Commit(h, cp, n) PROVE Drift(u)' = Drift(u)
  <2>1. CommitCraft(cp, n) /\ n \in Int
    BY <1>1, <1>3, BatchSize DEF Commit
  <2>2. cp.recipe_id = craft[cp.id].recipe_id
    BY <1>3, <2>1 DEF LedgerFault, StaleCommit, CommitCraft, Committable
  <2>. QED BY <1>1, <2>1, <2>2, CommitDrift DEF CommitCraft
<1>4. CASE Complete(h, cp)
  <2>1. craft[cp.id] # NoCraft /\ craft[cp.id].status # "PENDING"
    BY <1>4 DEF Complete, CompleteCraft, LedgerFault, UncommitedComplete
  <2>. QED BY <1>1, <1>4, <2>1, CompleteDrift DEF Complete, CompleteCraft
<1>5. CASE CommitComplete(h, cp)
  <2>1. cp.recipe_id = craft[cp.id].recipe_id
    BY <1>5 DEF CommitComplete, CommitAndComplete, LedgerFault, StaleCommit, Committable
  <2>. QED BY <1>1, <1>5, <2>1, CommitAndCompleteDrift DEF CommitComplete
<1>6. ASSUME NEW k \in Processors, CommitWait(h, cp, k) PROVE Drift(u)' = Drift(u)
  <2>1. cp.recipe_id = craft[cp.id].recipe_id
    BY <1>6 DEF CommitWait, CommitAndWait, LedgerFault, StaleCommit, Committable
  <2>2. 1 \in Int
    OBVIOUS
  <2>. QED BY <1>1, <1>6, <2>1, <2>2, CommitDrift DEF CommitWait, CommitAndWait
<1>7. ASSUME NEW k \in Processors, CompleteWait(h, cp, k) PROVE Drift(u)' = Drift(u)
  <2>1. craft[cp.id] # NoCraft /\ craft[cp.id].status # "PENDING"
    BY <1>7 DEF CompleteWait, CompleteWorkerWait, LedgerFault, UncommitedComplete
  <2>. QED BY <1>1, <1>7, <2>1, CompleteDrift DEF CompleteWait, CompleteWorkerWait
<1>8. CASE Cancel(h, cp)
  <2>1. cp.recipe_id = craft[cp.id].recipe_id /\ cp.repeats = craft[cp.id].repeats
    BY <1>8 DEF Cancel, CancelCraft, LedgerFault, StaleCancel
  <2>. QED BY <1>1, <1>8, <2>1, CancelDrift DEF Cancel
<1>. QED BY <1>2, <1>3, <1>4, <1>5, <1>6, <1>7, <1>8 DEF OnCopy

\* Every step that is none of the faults changes no drift.
LEMMA NextDrift ==
  ASSUME TypeOK, TypeOK', PlanCovered, [Next]_vars, ~LedgerFault, NEW u \in reserveRows
  PROVE  Drift(u)' = Drift(u)
<1>1. TablesOK /\ CopiesOK /\ u \in Items
  BY TypeParts DEF TablesOK, ReservesOK
<1>2. TablesOK'
  BY DEF TypeOK, TablesOK, CraftsOK, PlansOK, ReservesOK
<1>3. ASSUME NEW h \in Callers, Find(h) \/ Forget(h) PROVE Drift(u)' = Drift(u)
  BY <1>3, NoDrift DEF Find, Forget, tables
<1>4. ASSUME NEW h \in Callers, NEW cp \in copy[h], OnCopy(h, cp) PROVE Drift(u)' = Drift(u)
  BY <1>1, <1>2, <1>4, OnCopyDrift
<1>5. ASSUME NEW p \in PlanIds, OnPlan(p) PROVE Drift(u)' = Drift(u)
  <2>1. ASSUME NEW shape \in PlanShapes, Schedule(p, shape) PROVE Drift(u)' = Drift(u)
    <3>1. PICK stock \in [Items -> 0..MaxStock] : InsertPlan(p, shape, stock)
      BY <2>1 DEF Schedule
    <3>2. stock \in [Items -> Nat]
      BY LedgerAssumption
    <3>. QED BY <1>1, <1>2, <3>1, <3>2, ScheduleDrift
  <2>2. CASE Delete(p)
    BY <1>1, <1>2, <2>2, DeleteDrift DEF Delete
  <2>3. ASSUME NEW r \in Recipes, Submit(p, r) PROVE Drift(u)' = Drift(u)
    <3>1. PICK n \in 1..planSteps[p][r] : InsertCraft(p, r, n)
      BY <2>3 DEF Submit
    <3>2. n \in Nat \ {0}
      BY <1>1 DEF TablesOK, PlansOK
    <3>. QED BY <1>1, <1>2, <3>1, <3>2, SubmitDrift
  <2>. QED BY <1>5, <2>1, <2>2, <2>3 DEF OnPlan
<1>6. ASSUME NEW i \in Items, NEW n \in 1..MaxStock, Count(i, n) PROVE Drift(u)' = Drift(u)
  <2>1. n \in Nat
    BY LedgerAssumption
  <2>. QED BY <1>1, <1>2, <1>6, <2>1, CountDrift DEF Count
<1>7. ~Clear
  BY DEF LedgerFault
<1>8. Crash \/ UNCHANGED vars => Drift(u)' = Drift(u)
  BY NoDrift DEF Crash, vars, tables
<1>. QED BY <1>3, <1>4, <1>5, <1>6, <1>7, <1>8 DEF Next

\* The only steps that can part the reserve of an item from what plans and
\* crafts hold of it are the four faults; every other transaction books both
\* sides, for whatever copies it is called with.
THEOREM ReservesBooked == Spec => LedgerDrift
<1>1. TypeOK /\ TypeOK' /\ PlanCovered /\ [Next]_vars
        => [~LedgerFault => \A u \in reserveRows : Drift(u)' = Drift(u)]_vars
  BY NextDrift
<1>. QED BY <1>1, TypeCorrect, PlansCovered, PTL DEF Spec, LedgerDrift

-----------------------------------------------------------------------------
(***************************************************************************)
(* As long as none of the faults happens, reserve and holdings are equal.  *)
(* An item that has no row in item_reserve yet is not reserved, and        *)
(* neither a plan nor a craft uses it.                                     *)
(***************************************************************************)
Bare(u) ==
  /\ itemReserve[u] = 0
  /\ \A p \in PlanIds : planRequired[p][u] = 0
  /\ \A c \in CraftIds : craft[c] # NoCraft => Ingredients[craft[c].recipe_id][u] = 0

Balanced ==
  /\ \A u \in Items \ reserveRows : Bare(u)
  /\ \A u \in reserveRows : Drift(u) = 0

\* The rows that a step leaves in the craft table keep their recipes.
RecipesKept ==
  \A c \in CraftIds : craft'[c] # NoCraft =>
    craft[c] # NoCraft /\ craft'[c].recipe_id = craft[c].recipe_id

\* One row is replaced by one of the same recipe, or deleted.
LEMMA UpdateKeepsRecipes ==
  ASSUME CraftsOK, NEW c \in CraftIds, craft[c] # NoCraft, NEW row,
         row = NoCraft \/ row.recipe_id = craft[c].recipe_id,
         craft' = [craft EXCEPT ![c] = row]
  PROVE  RecipesKept
BY DEF RecipesKept, CraftsOK

LEMMA CompletedRecipe ==
  ASSUME NEW row \in CraftRow
  PROVE  Completed(row) = NoCraft \/ Completed(row).recipe_id = row.recipe_id
<1>1. CASE row.status = "COMMITED" /\ row.repeats # row.commit_repeats
  BY <1>1, CompletedRow
<1>2. CASE ~(row.status = "COMMITED" /\ row.repeats # row.commit_repeats)
  BY <1>2 DEF Completed
<1>. QED BY <1>1, <1>2

\* No transaction on a copy changes the recipe of a row.
LEMMA OnCopyRecipes ==
  ASSUME TablesOK, CopiesOK, NEW h \in Callers, NEW cp \in copy[h], OnCopy(h, cp)
  PROVE  RecipesKept
<1>1. cp \in Copies /\ cp.id \in CraftIds
  BY DEF CopiesOK, Copies
<1> DEFINE old == craft[cp.id]
<1>2. old # NoCraft /\ old \in CraftRow
  <2>1. old # NoCraft
    BY DEF OnCopy, Assign, AssignCraftToWorker, Commit, CommitCraft, Complete, CompleteCraft,
       CommitComplete, CommitAndComplete, CommitWait, CommitAndWait, CompleteWait,
       CompleteWorkerWait, Cancel, CancelCraft, Committable
  <2>. QED BY <1>1, <2>1, LiveRow DEF TablesOK
<1>3. ASSUME NEW row, row = NoCraft \/ row.recipe_id = old.recipe_id,
             craft' = [craft EXCEPT ![cp.id] = row]
      PROVE  RecipesKept
  BY <1>1, <1>2, <1>3, UpdateKeepsRecipes DEF TablesOK
<1>4. ASSUME NEW w \in Workers, Assign(h, cp, w) PROVE RecipesKept
  <2> DEFINE row == [old EXCEPT !.worker_id = w]
  <2>1. row.recipe_id = old.recipe_id /\ craft' = [craft EXCEPT ![cp.id] = row]
    BY <1>2, <1>4 DEF Assign, AssignCraftToWorker, CraftRow
  <2> HIDE DEF row
  <2>. QED BY <2>1, <1>3
<1>5. ASSUME NEW n \in Int, craft' = [craft EXCEPT ![cp.id] = Commited(old, n)]
      PROVE  RecipesKept
  <2>1. Commited(old, n).recipe_id = old.recipe_id
    BY <1>2, CommitedRow
  <2>. QED BY <2>1, <1>5, <1>3
<1>6. ASSUME craft' = [craft EXCEPT ![cp.id] = Completed(old)] PROVE RecipesKept
  <2>1. Completed(old) = NoCraft \/ Completed(old).recipe_id = old.recipe_id
    BY <1>2, CompletedRecipe
  <2>. QED BY <2>1, <1>6, <1>3
<1>7. CASE CommitAndComplete(cp)
  <2> DEFINE mid == Commited(old, 1)
  <2>1. mid \in CraftRow /\ mid.recipe_id = old.recipe_id
    BY <1>2, CommitedRow
  <2>2. craft' = [craft EXCEPT ![cp.id] = Completed(mid)]
    BY <1>7 DEF CommitAndComplete
  <2> HIDE DEF mid
  <2>3. Completed(mid) = NoCraft \/ Completed(mid).recipe_id = old.recipe_id
    BY <2>1, CompletedRecipe
  <2>. QED BY <2>2, <2>3, <1>3
<1>8. CASE CancelCraft(cp)
  BY <1>8, <1>3 DEF CancelCraft
<1>9. \A n \in BatchSizes(cp) \union {1} : n \in Int
  BY <1>1, BatchSize
<1>10. \/ \E w \in Workers : Assign(h, cp, w)
      \/ \E n \in BatchSizes(cp) \union {1} : craft' = [craft EXCEPT ![cp.id] = Commited(old, n)]
      \/ craft' = [craft EXCEPT ![cp.id] = Completed(old)]
      \/ CommitAndComplete(cp) \/ CancelCraft(cp)
  BY DEF OnCopy, Commit, CommitCraft, Complete, CompleteCraft, CommitComplete, CommitWait,
     CommitAndWait, CompleteWait, CompleteWorkerWait, Cancel
<1>. QED BY <1>4, <1>5, <1>6, <1>7, <1>8, <1>9, <1>10

\* No transaction on a copy touches what is bare.
LEMMA OnCopyBare ==
  ASSUME TablesOK, CopiesOK, NEW h \in Callers, NEW cp \in copy[h], OnCopy(h, cp),
         NEW u \in Items \ reserveRows, Bare(u)
  PROVE  Bare(u)'
<1>1. UNCHANGED planRequired /\ UNCHANGED reserveRows
  BY DEF OnCopy, Assign, AssignCraftToWorker, Commit, CommitCraft, Complete, CompleteCraft,
     CommitComplete, CommitAndComplete, CommitWait, CommitAndWait, CompleteWait,
     CompleteWorkerWait, Cancel, CancelCraft, planTables
<1>2. itemReserve'[u] = itemReserve[u]
  <2>1. itemReserve' = itemReserve \/ \E r, n : itemReserve' = Released(Batch(r, n))
    BY DEF OnCopy, Assign, AssignCraftToWorker, Commit, CommitCraft, Complete,
       CompleteCraft, CommitComplete, CommitAndComplete, CommitWait, CommitAndWait, CompleteWait,
       CompleteWorkerWait, Cancel, CancelCraft
  <2>2. ASSUME NEW r, NEW n PROVE Released(Batch(r, n))[u] = itemReserve[u]
    BY DEF Released
  <2>. QED BY <2>1, <2>2
<1>3. RecipesKept
  BY OnCopyRecipes
<1>. QED BY <1>1, <1>2, <1>3 DEF Bare, RecipesKept

\* A plan that is stored gives a row to every item it uses.
LEMMA ScheduleBare ==
  ASSUME TablesOK, NEW p \in PlanIds, NEW shape \in PlanShapes, NEW stock \in [Items -> Nat],
         InsertPlan(p, shape, stock), NEW u \in Items \ reserveRows', Bare(u)
  PROVE  Bare(u)'
<1>1. u \in Items /\ Consumed(shape)[u] \in Nat /\ ~(Consumed(shape)[u] > 0)
  BY ConsumedCovers DEF InsertPlan
<1>2. Consumed(shape)[u] = 0
  BY <1>1
<1>3. /\ Acquired(shape, stock)[u] \in Nat
      /\ Acquired(shape, stock)[u] <= Consumed(shape)[u]
  BY <1>1, AcquiredBounds
<1>4. Acquired(shape, stock)[u] = 0
  BY <1>2, <1>3
<1>5. itemReserve'[u] = 0
  BY <1>1, <1>4 DEF InsertPlan, Bare
<1>6. \A q \in PlanIds : planRequired'[q][u] = 0
  BY <1>1, <1>2 DEF InsertPlan, Bare, TablesOK, PlansOK
<1>. QED BY <1>5, <1>6 DEF InsertPlan, Bare

\* A plan holds nothing of what it does not require.
LEMMA BarePlan ==
  ASSUME TablesOK, PlanCovered, NEW u \in Items, Bare(u), NEW p \in PlanIds
  PROVE  planAmount[p][u] = 0 /\ planRequired[p][u] = 0
<1>1. Covered(p, u) /\ planAmount[p][u] \in Int
  BY PlanCoveredParts DEF TablesOK, PlansOK
<1>. QED BY <1>1 DEF Covered, Bare

\* It submits no craft that needs what is bare.
LEMMA SubmitBare ==
  ASSUME TablesOK, PlanCovered, NEW p \in PlanIds, NEW r \in Recipes, NEW n \in Nat \ {0},
         InsertCraft(p, r, n), NEW u \in Items \ reserveRows, Bare(u)
  PROVE  Bare(u)'
<1>1. Batch(r, n)[u] = Ingredients[r][u] * n /\ Ingredients[r][u] \in Nat
  BY BatchIsInt, TablesAssumption
<1>2. planAmount[p][u] = 0 /\ planRequired[p][u] = 0
  BY BarePlan
<1>3. Ingredients[r][u] * n <= 0
  BY <1>1, <1>2 DEF InsertCraft
<1>4. Ingredients[r][u] = 0
  <2> DEFINE i == Ingredients[r][u]
  <2>1. i \in Nat /\ i * n <= 0
    BY <1>1, <1>3
  <2> HIDE DEF i
  <2>2. i = 0
    BY <2>1
  <2>. QED BY <2>2 DEF i
<1>5. Batch(r, n)[u] = 0
  BY <1>1, <1>4
<1>6. \A q \in PlanIds : planRequired'[q][u] = 0
  BY <1>2, <1>5 DEF InsertCraft, Bare, TablesOK, PlansOK
<1> DEFINE row(c) == [id |-> c, plan_id |-> p, recipe_id |-> r, worker_id |-> NoWorker,
                     status |-> "PENDING", repeats |-> n, commit_repeats |-> 0]
<1>7. PICK c \in CraftIds : craft' = [craft EXCEPT ![c] = row(c)]
  BY DEF InsertCraft
<1>8. row(c).recipe_id = r
  OBVIOUS
<1> HIDE DEF row
<1>9. \A d \in CraftIds : craft'[d] # NoCraft => Ingredients[craft'[d].recipe_id][u] = 0
  BY <1>4, <1>7, <1>8 DEF Bare, TablesOK, CraftsOK
<1>. QED BY <1>6, <1>9 DEF Bare, InsertCraft

\* What is bare stays bare until it gets a row.
LEMMA NextBare ==
  ASSUME TypeOK, PlanCovered, [Next]_vars, reserveRows \subseteq reserveRows',
         NEW u \in Items \ reserveRows', Bare(u)
  PROVE  Bare(u)'
<1>1. TablesOK /\ CopiesOK /\ u \in Items \ reserveRows
  BY TypeParts
<1>2. ASSUME UNCHANGED <<itemReserve, planRequired, craft>> PROVE Bare(u)'
  BY <1>2 DEF Bare
<1>3. ASSUME NEW h \in Callers, NEW cp \in copy[h], OnCopy(h, cp) PROVE Bare(u)'
  BY <1>1, <1>3, OnCopyBare
<1>4. ASSUME NEW p \in PlanIds, OnPlan(p) PROVE Bare(u)'
  <2>1. ASSUME NEW shape \in PlanShapes, Schedule(p, shape) PROVE Bare(u)'
    <3>1. PICK stock \in [Items -> 0..MaxStock] : InsertPlan(p, shape, stock)
      BY <2>1 DEF Schedule
    <3>2. stock \in [Items -> Nat]
      BY LedgerAssumption
    <3>. QED BY <1>1, <3>1, <3>2, ScheduleBare
  <2>2. CASE Delete(p)
    <3>1. /\ planRequired' = [planRequired EXCEPT ![p] = Nothing]
          /\ itemReserve' = Released(planAmount[p]) /\ UNCHANGED craft
      BY <2>2 DEF Delete, RemovePlan
    <3>2. itemReserve'[u] = itemReserve[u]
      BY <1>1, <3>1 DEF Released
    <3>3. \A q \in PlanIds : planRequired'[q][u] = 0
      BY <1>1, <3>1 DEF Bare, Nothing, TablesOK, PlansOK
    <3>. QED BY <3>1, <3>2, <3>3 DEF Bare
  <2>3. ASSUME NEW r \in Recipes, Submit(p, r) PROVE Bare(u)'
    <3>1. PICK n \in 1..planSteps[p][r] : InsertCraft(p, r, n)
      BY <2>3 DEF Submit
    <3>2. n \in Nat \ {0}
      BY <1>1 DEF TablesOK, PlansOK
    <3>. QED BY <1>1, <3>1, <3>2, SubmitBare
  <2>. QED BY <1>4, <2>1, <2>2, <2>3 DEF OnPlan
<1>5. ASSUME NEW i \in Items, NEW n \in 1..MaxStock, Count(i, n) PROVE Bare(u)'
  <2>1. /\ UNCHANGED <<planRequired, craft>> /\ u # i
        /\ \E x : itemReserve' = [itemReserve EXCEPT ![i] = x]
    BY <1>5 DEF Count, UpdateItemCount
  <2>. QED BY <1>1, <2>1 DEF Bare, TablesOK, ReservesOK
<1>6. CASE Clear
  BY <1>1, <1>6 DEF Clear, ClearActualReserves, Nothing, Bare, planTables
<1>7. ASSUME (\E h \in Callers : Find(h) \/ Forget(h)) \/ Crash \/ UNCHANGED vars
      PROVE  UNCHANGED <<itemReserve, planRequired, craft>>
  BY <1>7 DEF Find, Forget, Crash, vars, tables
<1>. QED BY <1>2, <1>3, <1>4, <1>5, <1>6, <1>7 DEF Next

\* An item that is bare has no drift.
LEMMA BareDrift ==
  ASSUME TypeOK, PlanCovered, NEW u \in Items, Bare(u)
  PROVE  Drift(u) = 0
<1> DEFINE f == [p \in PlanIds |-> planAmount[p][u]]
           g == [c \in CraftIds |-> HeldByCraft(craft[c], u)]
<1>1. TablesOK
  BY TypeParts
<1>2. \A p \in 1..MaxPlans : f[p] = 0
  BY <1>1, BarePlan DEF PlanIds
<1>3. \A c \in 1..MaxCrafts : g[c] = 0
  <2>1. ASSUME NEW c \in CraftIds, craft[c] # NoCraft PROVE HeldByCraft(craft[c], u) = 0
    <3>1. craft[c] \in CraftRow /\ Ingredients[craft[c].recipe_id][u] = 0
      BY <1>1, <2>1, LiveRow DEF TablesOK, Bare
    <3>2. craft[c].repeats - craft[c].commit_repeats \in Int
      BY <3>1 DEF CraftRow
    <3>. QED BY <2>1, <3>1, <3>2 DEF HeldByCraft
  <2>. QED BY <2>1 DEF CraftIds, HeldByCraft
<1>4. Drift(u) = itemReserve[u] - SumTo(f, MaxPlans) - SumTo(g, MaxCrafts)
  BY DEF Drift
<1> HIDE DEF f, g
<1>5. SumTo(f, MaxPlans) = 0 /\ SumTo(g, MaxCrafts) = 0
  BY <1>2, <1>3, TablesAssumption, SumOfZeros
<1>. QED BY <1>4, <1>5 DEF Bare

\* A row is added by planning and counting alone, and they book both sides.
LEMMA NewRowDrift ==
  ASSUME TypeOK, TypeOK', PlanCovered, [Next]_vars, NEW u \in reserveRows' \ reserveRows
  PROVE  Drift(u)' = Drift(u)
<1>1. TablesOK /\ u \in Items
  BY TypeParts DEF TypeOK
<1>2. TablesOK'
  BY DEF TypeOK, TablesOK, CraftsOK, PlansOK, ReservesOK
<1>3. ASSUME NEW h \in Callers, NEW cp \in copy[h], OnCopy(h, cp) PROVE FALSE
  BY <1>3 DEF OnCopy, Assign, AssignCraftToWorker, Commit, CommitCraft, Complete, CompleteCraft,
     CommitComplete, CommitAndComplete, CommitWait, CommitAndWait, CompleteWait,
     CompleteWorkerWait, Cancel, CancelCraft
<1>4. ASSUME NEW p \in PlanIds, OnPlan(p) PROVE Drift(u)' = Drift(u)
  <2>1. ASSUME NEW shape \in PlanShapes, Schedule(p, shape) PROVE Drift(u)' = Drift(u)
    <3>1. PICK stock \in [Items -> 0..MaxStock] : InsertPlan(p, shape, stock)
      BY <2>1 DEF Schedule
    <3>2. stock \in [Items -> Nat]
      BY LedgerAssumption
    <3>. QED BY <1>1, <1>2, <3>1, <3>2, ScheduleDrift
  <2>2. ~Delete(p) /\ \A r \in Recipes : ~Submit(p, r)
    BY DEF Delete, RemovePlan, Submit, InsertCraft
  <2>. QED BY <1>4, <2>1, <2>2 DEF OnPlan
<1>5. ASSUME NEW i \in Items, NEW n \in 1..MaxStock, Count(i, n) PROVE Drift(u)' = Drift(u)
  <2>1. n \in Nat
    BY LedgerAssumption
  <2>. QED BY <1>1, <1>2, <1>5, <2>1, CountDrift DEF Count
<1>6. ~Clear /\ ~Crash /\ ~UNCHANGED vars /\ \A h \in Callers : ~Find(h) /\ ~Forget(h)
  BY DEF Clear, ClearActualReserves, Crash, Find, Forget, vars, tables
<1>. QED BY <1>3, <1>4, <1>5, <1>6 DEF Next

\* A step that drops no row and changes no drift keeps the balance.
LEMMA BalanceStep ==
  ASSUME TypeOK, TypeOK', PlanCovered, Balanced, [Next]_vars,
         reserveRows \subseteq reserveRows', \A u \in reserveRows : Drift(u)' = Drift(u)
  PROVE  Balanced'
<1>1. ASSUME NEW u \in Items \ reserveRows' PROVE Bare(u)'
  BY <1>1, NextBare DEF Balanced
<1>2. ASSUME NEW u \in reserveRows', u \notin reserveRows PROVE Drift(u)' = 0
  <2>1. u \in Items /\ Bare(u)
    BY <1>2 DEF TypeOK, Balanced
  <2>. QED BY <1>2, <2>1, NewRowDrift, BareDrift
<1>3. \A u \in reserveRows : Drift(u)' = 0
  BY DEF Balanced
<1>. QED BY <1>1, <1>2, <1>3 DEF Balanced

LEMMA InitBalanced == Init => Balanced
BY DEF Init, InitTables, Nothing, Balanced, Bare

\* No step but the clearing of all reserves takes a row away.
LEMMA RowsStayListed ==
  ASSUME [Next]_vars, ~Clear
  PROVE  reserveRows \subseteq reserveRows'
<1>1. ASSUME NEW h \in Callers, NEW cp \in copy[h], OnCopy(h, cp) PROVE reserveRows' = reserveRows
  BY <1>1 DEF OnCopy, Assign, AssignCraftToWorker, Commit, CommitCraft, Complete, CompleteCraft,
     CommitComplete, CommitAndComplete, CommitWait, CommitAndWait, CompleteWait,
     CompleteWorkerWait, Cancel, CancelCraft
<1>2. ASSUME NEW p \in PlanIds, OnPlan(p) PROVE reserveRows \subseteq reserveRows'
  BY <1>2 DEF OnPlan, Schedule, InsertPlan, Delete, RemovePlan, Submit, InsertCraft
<1>3. ASSUME NEW u \in Items, NEW n \in 1..MaxStock, Count(u, n)
      PROVE  reserveRows \subseteq reserveRows'
  BY <1>3 DEF Count, UpdateItemCount
<1>4. ASSUME (\E h \in Callers : Find(h) \/ Forget(h)) \/ Crash \/ UNCHANGED vars
      PROVE  reserveRows' = reserveRows
  BY <1>4 DEF Find, Forget, Crash, vars, tables
<1>. QED BY <1>1, <1>2, <1>3, <1>4 DEF Next

\* While the tables see no fault - no cancel and no commit by an outdated
\* copy, no completion of a craft that is not commited, no clearing - the
\* reserve of every item is what plans and crafts hold of it: this is what
\* ReservesBooked adds up to, new rows included.
THEOREM FaultlessBalance ==
  Init /\ [][Next /\ ~LedgerFault]_vars => [](\A u \in reserveRows : Drift(u) = 0)
<1> DEFINE Inv == TypeOK /\ PlanCovered /\ Balanced
<1>1. Init => Inv
  BY InitTypeOK, InitCovered, InitBalanced
<1>2. ASSUME Inv, [Next /\ ~LedgerFault]_vars PROVE Inv'
  <2>1. [Next]_vars /\ TypeOK' /\ PlanCovered'
    BY <1>2, NextTypeOK, NextCovered
  <2>2. CASE ~LedgerFault
    <3>1. reserveRows \subseteq reserveRows'
      BY <2>1, <2>2, RowsStayListed DEF LedgerFault
    <3>2. \A u \in reserveRows : Drift(u)' = Drift(u)
      BY <1>2, <2>1, <2>2, NextDrift
    <3>. QED BY <1>2, <2>1, <3>1, <3>2, BalanceStep
  <2>3. CASE UNCHANGED vars
    <3>1. UNCHANGED <<planAmount, craft, itemReserve, reserveRows>>
      BY <2>3 DEF vars, tables
    <3>. QED BY <1>2, <2>1, <3>1, NoDrift, BalanceStep
  <2>. QED BY <1>2, <2>2, <2>3
<1>3. Inv => \A u \in reserveRows : Drift(u) = 0
  BY DEF Balanced
<1> HIDE DEF Inv
<1>4. Inv /\ [Next /\ ~LedgerFault]_vars => Inv'
  BY <1>2
<1>. QED BY <1>1, <1>3, <1>4, PTL

-----------------------------------------------------------------------------
\* Plans, crafts and copies are about recipe r alone.
Only(r) ==
  /\ \A p \in PlanIds, q \in Recipes : planSteps[p][q] > 0 => q = r
  /\ \A c \in CraftIds : craft[c] # NoCraft => craft[c].recipe_id = r
  /\ \A h \in Callers : \A cp \in copy[h] : cp.recipe_id = r

\* They stay so if all results of the planner are: no transaction and no
\* goroutine makes up a recipe.
LEMMA OnlyStep ==
  ASSUME NEW r \in Recipes, \A shape \in PlanShapes, q \in Recipes : shape.steps[q] > 0 => q = r,
         TypeOK, Only(r), [Next]_vars
  PROVE  Only(r)'
<1>1. TablesOK /\ CopiesOK
  BY TypeParts
<1>2. ASSUME UNCHANGED <<planSteps, craft>>, \A h \in Callers : copy'[h] \subseteq copy[h]
      PROVE  Only(r)'
  BY <1>2 DEF Only
<1>3. ASSUME NEW h \in Callers, Find(h) PROVE Only(r)'
  <2>1. \A row \in CraftRows : CopyOf(row).recipe_id = r
    BY DEF CraftRows, CopyOf, Only
  <2>2. \A g \in Callers : \A cp \in copy'[g] : cp.recipe_id = r
    BY <1>1, <1>3, <2>1 DEF Find, Only, CopiesOK
  <2>. QED BY <1>3, <2>2 DEF Find, tables, Only
<1>4. ASSUME NEW h \in Callers, Forget(h) PROVE Only(r)'
  BY <1>1, <1>2, <1>4 DEF Forget, tables, CopiesOK
<1>5. ASSUME NEW h \in Callers, NEW cp \in copy[h], OnCopy(h, cp) PROVE Only(r)'
  <2>1. RecipesKept
    BY <1>1, <1>5, OnCopyRecipes
  <2>2. UNCHANGED planSteps
    BY <1>5 DEF OnCopy, Assign, AssignCraftToWorker, Commit, CommitCraft, Complete, CompleteCraft,
       CommitComplete, CommitAndComplete, CommitWait, CommitAndWait, CompleteWait,
       CompleteWorkerWait, Cancel, CancelCraft, planTables
  <2>3. copy' = copy \/ \E n : NoteCommit(h, cp, n)
    BY <1>5 DEF OnCopy, Assign, Commit, Complete, CommitComplete, CommitWait, CompleteWait, Cancel
  <2>4. ASSUME NEW n, NoteCommit(h, cp, n)
        PROVE  \A g \in Callers : \A x \in copy'[g] : x.recipe_id = r
    <3>1. cp \in Copies /\ cp.recipe_id = r
      BY <1>1 DEF CopiesOK, Only
    <3>2. [cp EXCEPT !.commit_repeats = n].recipe_id = r
      BY <3>1 DEF Copies
    <3>. QED BY <1>1, <2>4, <3>2 DEF NoteCommit, Only, CopiesOK
  <2>. QED BY <2>1, <2>2, <2>3, <2>4 DEF Only, RecipesKept
<1>6. ASSUME NEW p \in PlanIds, OnPlan(p) PROVE Only(r)'
  <2>1. ASSUME NEW shape \in PlanShapes, Schedule(p, shape) PROVE Only(r)'
    BY <1>1, <2>1 DEF Schedule, InsertPlan, Only, TablesOK, PlansOK
  <2>2. CASE Delete(p)
    BY <1>1, <2>2 DEF Delete, RemovePlan, Only, TablesOK, PlansOK
  <2>3. ASSUME NEW q \in Recipes, Submit(p, q) PROVE Only(r)'
    <3>1. PICK n \in 1..planSteps[p][q] : InsertCraft(p, q, n)
      BY <2>3 DEF Submit
    <3>2. q = r /\ planSteps[p][q] \in Nat /\ n \in Nat
      BY <1>1, <3>1 DEF Only, TablesOK, PlansOK
    <3>3. planSteps' = [planSteps EXCEPT ![p][q] = planSteps[p][q] - n]
      BY <3>1 DEF InsertCraft
    <3>4. \A o \in PlanIds, i \in Recipes : planSteps'[o][i] > 0 => i = r
      BY <1>1, <3>2, <3>3 DEF Only, TablesOK, PlansOK
    <3> DEFINE row(c) == [id |-> c, plan_id |-> p, recipe_id |-> q, worker_id |-> NoWorker,
                     status |-> "PENDING", repeats |-> n, commit_repeats |-> 0]
    <3>5. PICK c \in CraftIds : craft' = [craft EXCEPT ![c] = row(c)]
      BY <3>1 DEF InsertCraft
    <3>6. row(c).recipe_id = r
      BY <3>2
    <3> HIDE DEF row
    <3>7. \A d \in CraftIds : craft'[d] # NoCraft => craft'[d].recipe_id = r
      BY <1>1, <3>5, <3>6 DEF Only, TablesOK, CraftsOK
    <3>. QED BY <2>3, <3>4, <3>7 DEF Submit, Only
  <2>. QED BY <1>6, <2>1, <2>2, <2>3 DEF OnPlan
<1>7. ASSUME NEW u \in Items, NEW n \in 1..MaxStock, Count(u, n) PROVE Only(r)'
  BY <1>2, <1>7 DEF Count, UpdateItemCount
<1>8. CASE Clear
  BY <1>2, <1>8 DEF Clear, ClearActualReserves, planTables
<1>9. CASE Crash
  BY <1>2, <1>9 DEF Crash, tables
<1>10. CASE UNCHANGED vars
  BY <1>2, <1>10 DEF vars, tables
<1>. QED BY <1>3, <1>4, <1>5, <1>6, <1>7, <1>8, <1>9, <1>10 DEF Next
=============================================================================
