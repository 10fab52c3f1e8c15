---------------------------- MODULE CraftTables ----------------------------
(***************************************************************************)
(* The crafting tables of the SQLite database and the transactions of the  *)
(* data access layer on them (internal/dao): plan_state, plan_goal,        *)
(* plan_item_state, plan_step_state, craft, item_reserve, worker_state.    *)
(*                                                                         *)
(* One operator is one transaction that commits: SQLite serialises them.   *)
(* A transaction that the code rolls back changes nothing, so the          *)
(* conditions under which it would be rolled back are conjuncts.  Callers  *)
(* pass the *Craft they read some time ago: cp below, a row that may be    *)
(* out of date, or whose id may by now belong to another craft.            *)
(*                                                                         *)
(* Assumed: nobody edits or deletes a recipe that plans or crafts use, and *)
(* no item is twice among the goals of a plan.                             *)
(***************************************************************************)
EXTENDS Sums, FiniteSets

CONSTANTS
  Items,        \* item uids
  NRecipes,     \* the recipe table has the ids 1..NRecipes
  Ingredients,  \* Ingredients[r][u]: how much of u one repeat of r consumes
  Workers,      \* worker ids of crafting clients (craft.worker_id)
  Processors,   \* worker keys of processing workers (worker_state.worker_key)
  NoWorker,     \* SQL NULL in craft.worker_id
  MaxPlans,     \* bound on plan rowids
  MaxCrafts     \* bound on craft rowids

Recipes  == 1..NRecipes
PlanIds  == 1..MaxPlans
CraftIds == 1..MaxCrafts

ASSUME TablesAssumption ==
  /\ NRecipes \in Nat /\ MaxPlans \in Nat /\ MaxCrafts \in Nat
  /\ Ingredients \in [Recipes -> [Items -> Nat]]
  /\ NoWorker \notin Workers

VARIABLES
  planState,     \* ids of the rows of plan_state
  planGoal,      \* plan_goal.amount, 0 where there is no row
  planAmount,    \* plan_item_state.amount, 0 where there is no row
  planRequired,  \* plan_item_state.required_amount, 0 where there is no row
  planSteps,     \* plan_step_state.repeats, 0 where there is no row
  craft,         \* the craft table: rowid -> row or NoCraft
  itemReserve,   \* item_reserve.amount, 0 where there is no row
  reserveRows,   \* item uids that have a row in item_reserve
  workerState    \* rows <<worker_key, wait_craft_id>> of worker_state

tables == <<planState, planGoal, planAmount, planRequired, planSteps,
            craft, itemReserve, reserveRows, workerState>>

planTables == <<planState, planGoal, planAmount, planRequired, planSteps>>

CraftRow == [id : CraftIds, plan_id : PlanIds, recipe_id : Recipes,
             worker_id : Workers \union {NoWorker},
             status : {"PENDING", "COMMITED"}, repeats : Int, commit_repeats : Int]

NoCraft == [id |-> 0]

\* The result set of SELECT ... FROM craft.
CraftRows == {craft[c] : c \in {c \in CraftIds : craft[c] # NoCraft}}

\* What the transactions use of a *Craft.
CopyOf(row) == [id |-> row.id, recipe_id |-> row.recipe_id,
                repeats |-> row.repeats, commit_repeats |-> row.commit_repeats]

Nothing == [u \in Items |-> 0]

\* A new row of a table with INTEGER PRIMARY KEY gets the largest rowid in
\* use plus one: the id of a deleted row can come back.
IsNextRowid(id, used) ==
  /\ \A i \in used : i < id
  /\ id = 1 \/ id - 1 \in used

\* What n repeats of recipe r consume.
Batch(r, n) == [u \in Items |-> Ingredients[r][u] * n]

\* ReleaseItems: an UPDATE, without effect on an item that has no row.
Released(taken) ==
  [u \in Items |-> IF u \in reserveRows THEN itemReserve[u] - taken[u] ELSE itemReserve[u]]

-----------------------------------------------------------------------------
\* What the planner counts as consumed by a plan: the goals, the catalysts
\* (once) and the ingredients of every step.  Of two goals for one item it would
\* count the last only, while plan_goal gets both.
Consumed(shape) ==
  [u \in Items |-> shape.goal[u] + shape.catalyst[u]
     + SumTo([r \in Recipes |-> shape.steps[r] * Ingredients[r][u]], NRecipes)]

\* What a new plan reserves of a stock: a goal is never taken from the stock.
Acquired(shape, stock) ==
  [u \in Items |-> IF shape.goal[u] > 0 THEN 0
                   ELSE IF stock[u] < Consumed(shape)[u] THEN stock[u] ELSE Consumed(shape)[u]]

InitTables ==
  /\ planState = {}
  /\ planGoal = [p \in PlanIds |-> Nothing]
  /\ planAmount = [p \in PlanIds |-> Nothing]
  /\ planRequired = [p \in PlanIds |-> Nothing]
  /\ planSteps = [p \in PlanIds |-> [r \in Recipes |-> 0]]
  /\ craft = [c \in CraftIds |-> NoCraft]
  /\ itemReserve = Nothing
  /\ reserveRows = {}
  /\ workerState = {}

InsertPlan(p, shape, stock) ==
  /\ IsNextRowid(p, planState)
  /\ planState' = planState \union {p}
  /\ planGoal' = [planGoal EXCEPT ![p] = shape.goal]
  /\ planAmount' = [planAmount EXCEPT ![p] = Acquired(shape, stock)]
  /\ planRequired' = [planRequired EXCEPT ![p] = Consumed(shape)]
  /\ planSteps' = [planSteps EXCEPT ![p] = shape.steps]
  /\ itemReserve' = [u \in Items |-> itemReserve[u] + Acquired(shape, stock)[u]]
  /\ reserveRows' = reserveRows \union shape.produces \union {u \in Items : Consumed(shape)[u] > 0}
  /\ UNCHANGED <<craft, workerState>>

\* Mutant: what the plan required is given back, not what it holds.
RemovePlanReleasesRequired(p) ==
  /\ p \in planState
  /\ planState' = planState \ {p}
  /\ planGoal' = [planGoal EXCEPT ![p] = Nothing]
  /\ planSteps' = [planSteps EXCEPT ![p] = [r \in Recipes |-> 0]]
  /\ itemReserve' = Released(planRequired[p])
  /\ planAmount' = [planAmount EXCEPT ![p] = Nothing]
  /\ planRequired' = [planRequired EXCEPT ![p] = Nothing]
  /\ UNCHANGED <<craft, reserveRows, workerState>>

\* RemovePlan gives back what the plan holds; crafts it has already
\* submitted keep theirs and stay in the table.
RemovePlan(p) ==
  /\ p \in planState
  /\ planState' = planState \ {p}
  /\ planGoal' = [planGoal EXCEPT ![p] = Nothing]
  /\ planSteps' = [planSteps EXCEPT ![p] = [r \in Recipes |-> 0]]
  /\ itemReserve' = Released(planAmount[p])
  /\ planAmount' = [planAmount EXCEPT ![p] = Nothing]
  /\ planRequired' = [planRequired EXCEPT ![p] = Nothing]
  /\ UNCHANGED <<craft, reserveRows, workerState>>

\* Mutant: the ingredients are taken without "amount >= ?".
InsertCraftUnchecked(p, r, n) ==
  /\ planSteps[p][r] >= n
  /\ \E c \in CraftIds :
       /\ IsNextRowid(c, {i \in CraftIds : craft[i] # NoCraft})
       /\ craft' = [craft EXCEPT ![c] =
            [id |-> c, plan_id |-> p, recipe_id |-> r, worker_id |-> NoWorker,
             status |-> "PENDING", repeats |-> n, commit_repeats |-> 0]]
  /\ planSteps' = [planSteps EXCEPT ![p][r] = @ - n]
  /\ planAmount' = [planAmount EXCEPT ![p] = [u \in Items |-> @[u] - Batch(r, n)[u]]]
  /\ planRequired' = [planRequired EXCEPT ![p] = [u \in Items |-> @[u] - Batch(r, n)[u]]]
  /\ UNCHANGED <<planState, planGoal, itemReserve, reserveRows, workerState>>

\* InsertCraft moves n repeats of a step, and the ingredients held for them,
\* from the plan to a new craft.
InsertCraft(p, r, n) ==
  /\ planSteps[p][r] >= n
  /\ \A u \in Items : planAmount[p][u] >= Batch(r, n)[u]
  /\ \E c \in CraftIds :
       /\ IsNextRowid(c, {i \in CraftIds : craft[i] # NoCraft})
       /\ craft' = [craft EXCEPT ![c] =
            [id |-> c, plan_id |-> p, recipe_id |-> r, worker_id |-> NoWorker,
             status |-> "PENDING", repeats |-> n, commit_repeats |-> 0]]
  /\ planSteps' = [planSteps EXCEPT ![p][r] = @ - n]
  /\ planAmount' = [planAmount EXCEPT ![p] = [u \in Items |-> @[u] - Batch(r, n)[u]]]
  /\ planRequired' = [planRequired EXCEPT ![p] = [u \in Items |-> @[u] - Batch(r, n)[u]]]
  /\ UNCHANGED <<planState, planGoal, itemReserve, reserveRows, workerState>>

\* Mutant: the UPDATE lacks "AND worker_id IS NULL".
AssignCraftAlways(cp, w) ==
  /\ craft[cp.id] # NoCraft
  /\ craft' = [craft EXCEPT ![cp.id].worker_id = w]
  /\ UNCHANGED <<planTables, itemReserve, reserveRows, workerState>>

AssignCraftToWorker(cp, w) ==
  /\ craft[cp.id] # NoCraft
  /\ craft[cp.id].worker_id = NoWorker
  /\ craft' = [craft EXCEPT ![cp.id].worker_id = w]
  /\ UNCHANGED <<planTables, itemReserve, reserveRows, workerState>>

-----------------------------------------------------------------------------
\* The WHERE clause of the commit: a PENDING row with nothing commited.
Committable(cp) ==
  /\ craft[cp.id] # NoCraft
  /\ craft[cp.id].status = "PENDING"
  /\ craft[cp.id].commit_repeats = 0

Commited(row, n) == [row EXCEPT !.status = "COMMITED", !.commit_repeats = n]

\* Mutant: a finished craft is not deleted.
CompletedKeepsEmptyRow(row) ==
  IF row.status = "COMMITED"
  THEN [row EXCEPT !.repeats = @ - row.commit_repeats, !.commit_repeats = 0, !.status = "PENDING"]
  ELSE NoCraft

\* Mutant: the status is not set back to PENDING.
CompletedKeepsStatus(row) ==
  IF row.status = "COMMITED" /\ row.repeats # row.commit_repeats
  THEN [row EXCEPT !.repeats = @ - row.commit_repeats, !.commit_repeats = 0]
  ELSE NoCraft

\* CompleteCraftInOuterTx on a row.  The UPDATE of a COMMITED row returns the
\* repeats that are left; on any other row it returns none, the failed Scan
\* leaves newRepeats at 0, and the DELETE that follows takes that row too.
Completed(row) ==
  IF row.status = "COMMITED" /\ row.repeats # row.commit_repeats
  THEN [row EXCEPT !.repeats = @ - row.commit_repeats, !.commit_repeats = 0, !.status = "PENDING"]
  ELSE NoCraft

NotWaiting(id) == {row \in workerState : row[2] # id}

\* The commit consumes the reserve of the n repeats.
CommitCraft(cp, n) ==
  /\ Committable(cp)
  /\ craft' = [craft EXCEPT ![cp.id] = Commited(@, n)]
  /\ itemReserve' = Released(Batch(cp.recipe_id, n))
  /\ workerState' = NotWaiting(cp.id)
  /\ UNCHANGED <<planTables, reserveRows>>

CompleteCraft(cp) ==
  /\ craft[cp.id] # NoCraft
  /\ craft' = [craft EXCEPT ![cp.id] = Completed(@)]
  /\ UNCHANGED <<planTables, itemReserve, reserveRows, workerState>>

\* A processing worker that does not wait commits and completes one repeat in
\* the transaction of its export.
CommitAndComplete(cp) ==
  /\ Committable(cp)
  /\ craft' = [craft EXCEPT ![cp.id] = Completed(Commited(@, 1))]
  /\ itemReserve' = Released(Batch(cp.recipe_id, 1))
  /\ workerState' = NotWaiting(cp.id)
  /\ UNCHANGED <<planTables, reserveRows>>

\* One that waits for the results notes the craft it waits for instead.
CommitAndWait(cp, k) ==
  /\ Committable(cp)
  /\ craft' = [craft EXCEPT ![cp.id] = Commited(@, 1)]
  /\ itemReserve' = Released(Batch(cp.recipe_id, 1))
  /\ workerState' = NotWaiting(cp.id) \union {<<k, cp.id>>}
  /\ UNCHANGED <<planTables, reserveRows>>

CompleteWorkerWait(k, cp) ==
  /\ <<k, cp.id>> \in workerState
  /\ craft[cp.id] # NoCraft
  /\ workerState' = workerState \ {<<k, cp.id>>}
  /\ craft' = [craft EXCEPT ![cp.id] = Completed(@)]
  /\ UNCHANGED <<planTables, itemReserve, reserveRows>>

\* Mutant: the repeats that are commited are given back too.
CancelReleasesAll(cp) ==
  /\ craft[cp.id] # NoCraft
  /\ craft[cp.id].commit_repeats = cp.commit_repeats
  /\ craft' = [craft EXCEPT ![cp.id] = NoCraft]
  /\ itemReserve' = Released(Batch(cp.recipe_id, cp.repeats))
  /\ workerState' = NotWaiting(cp.id)
  /\ UNCHANGED <<planTables, reserveRows>>

\* The row must have the commit_repeats of the copy; what is given back is
\* computed from the copy alone.
CancelCraft(cp) ==
  /\ craft[cp.id] # NoCraft
  /\ craft[cp.id].commit_repeats = cp.commit_repeats
  /\ craft' = [craft EXCEPT ![cp.id] = NoCraft]
  /\ itemReserve' = Released(Batch(cp.recipe_id, cp.repeats - cp.commit_repeats))
  /\ workerState' = NotWaiting(cp.id)
  /\ UNCHANGED <<planTables, reserveRows>>

-----------------------------------------------------------------------------
Missing(u) == [p \in PlanIds |-> planRequired[p][u] - planAmount[p][u]]

\* How a free amount of u is dealt out to the plans that miss some, oldest
\* plan (smallest rowid) first.
Dealt(u, free) ==
  [p \in PlanIds |->
     LET left == free - SumTo(Missing(u), p - 1)
     IN  IF left <= 0 THEN 0 ELSE IF left < Missing(u)[p] THEN left ELSE Missing(u)[p]]

\* UpdateItemCount: the storage was seen to hold count of u.
UpdateItemCount(u, count) ==
  /\ count > itemReserve[u]
  /\ \E p \in PlanIds : Missing(u)[p] > 0
  /\ LET dealt == Dealt(u, count - itemReserve[u])
     IN  /\ planAmount' = [p \in PlanIds |-> [planAmount[p] EXCEPT ![u] = @ + dealt[p]]]
         /\ itemReserve' = [itemReserve EXCEPT ![u] = @ + SumTo(dealt, MaxPlans)]
  /\ reserveRows' = reserveRows \union {u}
  /\ UNCHANGED <<planState, planGoal, planRequired, planSteps, craft, workerState>>

\* The "clear" button of the reserves page.
ClearActualReserves ==
  /\ \E u \in Items : itemReserve[u] # 0
  /\ itemReserve' = Nothing
  /\ reserveRows' = {u \in reserveRows : itemReserve[u] = 0}
  /\ UNCHANGED <<planTables, craft, workerState>>
=============================================================================
