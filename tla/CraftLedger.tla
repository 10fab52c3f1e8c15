---------------------------- MODULE CraftLedger ----------------------------
(***************************************************************************)
(* The crafting tables under every order of calls that their callers can   *)
(* make.  A caller (an HTTP handler, a crafting worker, a processing       *)
(* worker) reads craft rows, keeps the copies for as long as it likes - it *)
(* talks to game clients in between - and then starts a transaction on one *)
(* of them.  Nothing orders the callers: the promises below are the ones   *)
(* the transactions keep on their own.                                     *)
(***************************************************************************)
EXTENDS CraftTables

CONSTANTS
  Callers,      \* goroutines that hold copies of craft rows
  PlanShapes,   \* results of the planner: [goal, catalyst, steps, produces]
  MaxStock,     \* bound on a counted stock
  MaxRepeats,   \* MaxRepeats[r]: the limit of recipe r on the repeats that a
                \* crafting worker commits at once: its max_repeats, any integer
                \* that the recipe form was given, else what fits into a stack
  LeftBound,    \* bound: the repeats a commit may leave a row, a set of integers
  ReserveBound  \* bound: no plan is scheduled and nothing commited while some
                \* reserve is not in this set of integers

ASSUME LedgerAssumption ==
  /\ PlanShapes \subseteq [goal : [Items -> Nat], catalyst : [Items -> Nat],
                           steps : [Recipes -> Nat], produces : SUBSET Items]
  /\ MaxStock \in Nat /\ MaxRepeats \in [Recipes -> Int]
  /\ LeftBound \subseteq Int /\ ReserveBound \subseteq Int

VARIABLE copy  \* copy[h]: the rows h has read, with its own changes to them

vars == <<tables, copy>>

Init ==
  /\ InitTables
  /\ copy = [h \in Callers |-> {}]

-----------------------------------------------------------------------------
\* FindById, FindCurrent, FindNextByTypes, GetAllCrafts: some rows are read.
Find(h) ==
  /\ \E rows \in (SUBSET CraftRows) \ {{}} :
       copy' = [copy EXCEPT ![h] = {CopyOf(row) : row \in rows}]
  /\ UNCHANGED tables

\* A goroutine is done with some of its copies, or returns.
Forget(h) ==
  /\ \E kept \in (SUBSET copy[h]) \ {copy[h]} : copy' = [copy EXCEPT ![h] = kept]
  /\ UNCHANGED tables

\* The server stops: the tables stay, the copies are gone.
Crash ==
  /\ copy' = [h \in Callers |-> {}]
  /\ UNCHANGED tables

\* A commit also writes commit_repeats of the copy.
NoteCommit(h, cp, n) ==
  copy' = [copy EXCEPT ![h] = (@ \ {cp}) \union {[cp EXCEPT !.commit_repeats = n]}]

\* 1 for the manual commit and for processing workers; a crafting worker
\* takes as many of the repeats it knows of as the recipe allows.  Nothing
\* stops it where that is 0 or less.
BatchSizes(cp) ==
  {1, IF cp.repeats < MaxRepeats[cp.recipe_id] THEN cp.repeats ELSE MaxRepeats[cp.recipe_id]}

BoundedReserve == \A u \in Items : itemReserve[u] \in ReserveBound

WithinBound(cp, n) ==
  /\ BoundedReserve
  /\ craft[cp.id] # NoCraft => craft[cp.id].repeats - n \in LeftBound

Schedule(p, shape) ==
  /\ BoundedReserve
  /\ \E stock \in [Items -> 0..MaxStock] : InsertPlan(p, shape, stock)
  /\ UNCHANGED copy

Delete(p) == RemovePlan(p) /\ UNCHANGED copy

Submit(p, r) ==
  /\ \E n \in 1..planSteps[p][r] : InsertCraft(p, r, n)
  /\ UNCHANGED copy

Assign(h, cp, w) == AssignCraftToWorker(cp, w) /\ UNCHANGED copy

Commit(h, cp, n) ==
  /\ WithinBound(cp, n)
  /\ CommitCraft(cp, n)
  /\ NoteCommit(h, cp, n)

Complete(h, cp) == CompleteCraft(cp) /\ UNCHANGED copy

CommitComplete(h, cp) ==
  /\ WithinBound(cp, 1)
  /\ CommitAndComplete(cp)
  /\ NoteCommit(h, cp, 1)

CommitWait(h, cp, k) ==
  /\ WithinBound(cp, 1)
  /\ CommitAndWait(cp, k)
  /\ NoteCommit(h, cp, 1)

CompleteWait(h, cp, k) == CompleteWorkerWait(k, cp) /\ UNCHANGED copy

Cancel(h, cp) == CancelCraft(cp) /\ UNCHANGED copy

Count(u, n) == UpdateItemCount(u, n) /\ UNCHANGED copy

Clear == ClearActualReserves /\ UNCHANGED copy

OnCopy(h, cp) ==
  \/ \E w \in Workers : Assign(h, cp, w)
  \/ \E n \in BatchSizes(cp) : Commit(h, cp, n)
  \/ Complete(h, cp)
  \/ CommitComplete(h, cp)
  \/ \E k \in Processors : CommitWait(h, cp, k) \/ CompleteWait(h, cp, k)
  \/ Cancel(h, cp)

OnPlan(p) ==
  \/ \E shape \in PlanShapes : Schedule(p, shape)
  \/ Delete(p)
  \/ \E r \in Recipes : Submit(p, r)

Next ==
  \/ \E h \in Callers : Find(h) \/ Forget(h) \/ \E cp \in copy[h] : OnCopy(h, cp)
  \/ \E p \in PlanIds : OnPlan(p)
  \/ \E u \in Items, n \in 1..MaxStock : Count(u, n)
  \/ Clear
  \/ Crash

Spec == Init /\ [][Next]_vars

-----------------------------------------------------------------------------
\* Type correctness: every table keeps the shape its schema promises, ids are
\* rowids, every live craft still has repeats, and a copy is such a row.
TypeOK ==
  /\ planState \subseteq PlanIds
  /\ planGoal \in [PlanIds -> [Items -> Nat]]
  /\ planAmount \in [PlanIds -> [Items -> Int]]
  /\ planRequired \in [PlanIds -> [Items -> Int]]
  /\ planSteps \in [PlanIds -> [Recipes -> Nat]]
  /\ craft \in [CraftIds -> CraftRow \union {NoCraft}]
  /\ \A c \in CraftIds : craft[c] # NoCraft => craft[c].id = c /\ craft[c].repeats # 0
  /\ itemReserve \in [Items -> Int]
  /\ reserveRows \subseteq Items
  /\ workerState \subseteq Processors \X CraftIds
  /\ copy \in [Callers -> SUBSET [id : CraftIds, recipe_id : Recipes,
                                  repeats : Int \ {0}, commit_repeats : Int]]

\* A plan never holds a negative amount of an item, nor more than it still
\* requires (InsertCraft and UpdateItemCount against each other), and what it
\* requires always pays for its goals and for every repeat it has not
\* submitted yet: no submission of a craft eats into the rest of the plan.  A
\* plan that is removed requires nothing: its id can be used again.
PlanCovered ==
  \A p \in PlanIds, u \in Items :
    /\ 0 <= planAmount[p][u]
    /\ planAmount[p][u] <= planRequired[p][u]
    /\ planGoal[p][u] + SumTo([r \in Recipes |-> planSteps[p][r] * Ingredients[r][u]], NRecipes)
         <= planRequired[p][u]
    /\ p \notin planState => planRequired[p][u] = 0

\* Restore decides by the status of a craft, Complete by its commited repeats.
StatusTold(row) ==
  row # NoCraft => (row.status = "COMMITED" <=> row.commit_repeats # 0)

\* A crafting worker commits no repeats of craft c, by a recipe whose limit
\* is 0: the limit is applied after the only check for zero.
EmptyCommit(c) ==
  \E h \in Callers : \E cp \in copy[h] :
    /\ cp.id = c /\ MaxRepeats[cp.recipe_id] = 0
    /\ Commit(h, cp, 0)

\* A craft says COMMITED exactly when it has repeats in the hands of a worker,
\* until a batch of no repeats is commited for it: no order of commits,
\* completions, cancels and reused ids makes status and number disagree, not
\* where batches are negative either.
CommitConsistent ==
  [][\A c \in CraftIds :
       StatusTold(craft[c]) /\ ~EmptyCommit(c) => StatusTold(craft[c])']_vars

\* What a craft row still holds of an item.
HeldByCraft(row, u) ==
  IF row = NoCraft THEN 0
  ELSE (row.repeats - row.commit_repeats) * Ingredients[row.recipe_id][u]

\* The reserve of u less everything plans and crafts hold of it.
Drift(u) ==
  itemReserve[u] - SumTo([p \in PlanIds |-> planAmount[p][u]], MaxPlans)
                 - SumTo([c \in CraftIds |-> HeldByCraft(craft[c], u)], MaxCrafts)

\* The steps after which reserve and holdings need not agree any more: a
\* cancel or a commit that goes by an outdated copy, a completion of a craft
\* that is not COMMITED, and the clearing of all reserves.
StaleCancel ==
  \E h \in Callers : \E cp \in copy[h] :
    /\ craft[cp.id] # NoCraft
    /\ cp.recipe_id # craft[cp.id].recipe_id \/ cp.repeats # craft[cp.id].repeats
    /\ Cancel(h, cp)

StaleCommit ==
  \E h \in Callers : \E cp \in copy[h] :
    /\ craft[cp.id] # NoCraft
    /\ cp.recipe_id # craft[cp.id].recipe_id
    /\ \/ \E n \in BatchSizes(cp) : Commit(h, cp, n)
       \/ CommitComplete(h, cp)
       \/ \E k \in Processors : CommitWait(h, cp, k)

UncommitedComplete ==
  \E h \in Callers : \E cp \in copy[h] :
    /\ craft[cp.id] # NoCraft
    /\ craft[cp.id].status = "PENDING"
    /\ Complete(h, cp) \/ \E k \in Processors : CompleteWait(h, cp, k)

LedgerFault == StaleCancel \/ StaleCommit \/ UncommitedComplete \/ Clear

\* Apart from those faults no step moves the reserve of an item away from
\* what plans and crafts hold of it: every transaction that takes, moves,
\* consumes or gives back items books both sides.
LedgerDrift ==
  [][~LedgerFault => \A u \in reserveRows : Drift(u)' = Drift(u)]_vars
=============================================================================
