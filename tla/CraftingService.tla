-------------------------- MODULE CraftingService --------------------------
(***************************************************************************)
(* Crafting workers (internal/services/crafter/worker.go), one goroutine   *)
(* per connected crafter client, and the HTTP handlers that commit or      *)
(* cancel a craft by hand, working on the same craft table.                *)
(*                                                                         *)
(* A worker's client is a turtle with a buffer chest.  The call to it may  *)
(* fail, and its answer may come too late or never (10 s timeouts), after  *)
(* it has done all, a part or nothing of its work.  The turtle keeps what  *)
(* it holds when the server restarts.                                      *)
(*                                                                         *)
(* Assumed: the storage holds what a craft takes, and turtle.craft()       *)
(* succeeds on what was loaded; one client serves its requests in the      *)
(* order they were sent; one goroutine runs per worker id.                 *)
(***************************************************************************)
EXTENDS CraftTables

CONSTANTS
  Handlers,     \* HTTP requests under way
  PlanShapes,   \* results of the planner: [goal, catalyst, steps, produces]
  MaxStock,     \* bound on a counted stock
  MaxRepeats,   \* MaxRepeats[r]: the repeats of recipe r that fit into a batch, the
                \* max_repeats of the recipe (any integer) where it has one
  Lossy,        \* TRUE: calls to crafter clients may fail
  MaxReserve    \* bound: no plan is scheduled while a reserve is outside
                \* -MaxReserve..MaxReserve

ASSUME ServiceAssumption ==
  /\ Workers \intersect Handlers = {}
  /\ PlanShapes \subseteq [goal : [Items -> Nat], catalyst : [Items -> Nat],
                           steps : [Recipes -> Nat], produces : SUBSET Items]
  /\ MaxStock \in Nat /\ MaxReserve \in Nat
  /\ MaxRepeats \in [Recipes -> Int]
  /\ Lossy \in BOOLEAN

VARIABLES
  pc,      \* where a worker or a handler is
  cur,     \* the *Craft it works on
  todo,    \* nexts: the rest of the crafts a worker has listed
  active,  \* active: the worker has crafted something in this round
  resumed, \* the worker's craft comes from FindCurrent, not from nexts
  machine, \* what a worker's client holds, see Batches
  meddled  \* history: since the server was started a handler has ended a craft
           \* that a worker was at

callers == <<pc, cur, todo, active, resumed, meddled>>
vars == <<tables, callers, machine>>

Agents == Workers \union Handlers

NoCopy == [id |-> 0]

\* A batch in a client: "loaded", ingredients in the buffer or the grid;
\* "crafted", the result in slot 13; "made", the result is in the storage and
\* the client is empty, but no craft has been completed for it yet (the last
\* one is history, the turtle does not know of it).
Batches == [recipe_id : Recipes, repeats : Nat \ {0}, stage : {"loaded", "crafted", "made"}]

Empty == [stage |-> "empty"]

Init ==
  /\ InitTables
  /\ pc = [a \in Agents |-> "idle"]
  /\ cur = [a \in Agents |-> NoCopy]
  /\ todo = [w \in Workers |-> {}]
  /\ active = [w \in Workers |-> FALSE]
  /\ resumed = [w \in Workers |-> FALSE]
  /\ machine = [w \in Workers |-> Empty]
  /\ meddled = FALSE

GoTo(a, label) == pc' = [pc EXCEPT ![a] = label]

-----------------------------------------------------------------------------
\* The worker's process().

Lowest(rows) == CHOOSE row \in rows : \A other \in rows : row.id <= other.id

\* An error, or done = false, ends process(); cycle() starts it again after
\* 30 s or a ping.
GiveUp(w) ==
  /\ GoTo(w, "idle")
  /\ cur' = [cur EXCEPT ![w] = NoCopy]
  /\ todo' = [todo EXCEPT ![w] = {}]
  /\ UNCHANGED <<active, resumed, meddled>>

\* Mutant: Restore does not look at the status and crafts again.
FindCurrentCraftsAgain(w) ==
  /\ pc[w] = "idle"
  /\ LET mine == {row \in CraftRows : row.worker_id = w}
     IN  IF mine = {}
         THEN /\ GoTo(w, "types")
              /\ UNCHANGED <<cur, resumed>>
         ELSE /\ cur' = [cur EXCEPT ![w] = CopyOf(Lowest(mine))]
              /\ resumed' = [resumed EXCEPT ![w] = TRUE]
              /\ GoTo(w, "dump")
  /\ UNCHANGED <<tables, todo, active, machine, meddled>>

\* Mutant: only PENDING crafts of the worker are found.
FindCurrentPending(w) ==
  /\ pc[w] = "idle"
  /\ LET mine == {row \in CraftRows : row.worker_id = w /\ row.status = "PENDING"}
     IN  IF mine = {}
         THEN /\ GoTo(w, "types")
              /\ UNCHANGED <<cur, resumed>>
         ELSE /\ cur' = [cur EXCEPT ![w] = CopyOf(Lowest(mine))]
              /\ resumed' = [resumed EXCEPT ![w] = TRUE]
              /\ GoTo(w, "dump")
  /\ UNCHANGED <<tables, todo, active, machine, meddled>>

FindCurrent(w) ==
  /\ pc[w] = "idle"
  /\ LET mine == {row \in CraftRows : row.worker_id = w}
     IN  IF mine = {}
         THEN /\ GoTo(w, "types")
              /\ UNCHANGED <<cur, resumed>>
         ELSE /\ cur' = [cur EXCEPT ![w] = CopyOf(Lowest(mine))]
              /\ resumed' = [resumed EXCEPT ![w] = TRUE]
              /\ GoTo(w, IF Lowest(mine).status = "PENDING" THEN "dump" ELSE "restore")
  /\ UNCHANGED <<tables, todo, active, machine, meddled>>

\* GetSupportTypes; every recipe of the model has a type this worker supports.
GetTypes(w) ==
  /\ pc[w] = "types"
  /\ GoTo(w, "select")
  /\ UNCHANGED <<tables, cur, todo, active, resumed, machine, meddled>>

\* FindNextByTypes does not look at the status or the worker of a row.
FindNext(w) ==
  /\ pc[w] = "select"
  /\ todo' = [todo EXCEPT ![w] = {CopyOf(row) : row \in CraftRows}]
  /\ active' = [active EXCEPT ![w] = FALSE]
  /\ GoTo(w, "next")
  /\ UNCHANGED <<tables, cur, resumed, machine, meddled>>

Assign(w) ==
  /\ pc[w] = "next" /\ todo[w] # {}
  /\ LET cp == Lowest(todo[w])
     IN  /\ AssignCraftToWorker(cp, w)
         /\ cur' = [cur EXCEPT ![w] = cp]
         /\ todo' = [todo EXCEPT ![w] = @ \ {cp}]
  /\ resumed' = [resumed EXCEPT ![w] = FALSE]
  /\ GoTo(w, "dump")
  /\ UNCHANGED <<active, machine, meddled>>

\* The craft is gone, or some worker has it (this one, perhaps).
Skip(w) ==
  /\ pc[w] = "next" /\ todo[w] # {}
  /\ LET cp == Lowest(todo[w])
     IN  /\ craft[cp.id] # NoCraft => craft[cp.id].worker_id # NoWorker
         /\ todo' = [todo EXCEPT ![w] = @ \ {cp}]
  /\ UNCHANGED <<tables, pc, cur, active, resumed, machine, meddled>>

EndOfList(w) ==
  /\ pc[w] = "next" /\ todo[w] = {}
  /\ GoTo(w, IF active[w] THEN "select" ELSE "idle")
  /\ UNCHANGED <<tables, cur, todo, active, resumed, machine, meddled>>

-----------------------------------------------------------------------------
\* Craft() and Restore().

\* DumpOut empties the turtle into its buffer, cleanupBuffer the buffer into
\* the storage: a result that was still in the turtle is made by this.
Dumped(batch) ==
  IF batch.stage \in {"crafted", "made"} THEN [batch EXCEPT !.stage = "made"] ELSE Empty

Dump(w) ==
  /\ pc[w] = "dump"
  /\ machine' = [machine EXCEPT ![w] = Dumped(@)]
  /\ GoTo(w, "load")
  /\ UNCHANGED <<tables, cur, todo, active, resumed, meddled>>

\* The repeats of the copy can be out of date, and negative: CommitCraft checks
\* no bounds.  The limit of a recipe can be 0 or less.
BatchSize(cp) ==
  IF cp.repeats < MaxRepeats[cp.recipe_id] THEN cp.repeats ELSE MaxRepeats[cp.recipe_id]

\* What the client holds once its batch is moved into the buffer: nothing is
\* moved for 0 repeats or less, and that is no error.
Filled(cp, batch) ==
  IF BatchSize(cp) > 0
  THEN [recipe_id |-> cp.recipe_id, repeats |-> BatchSize(cp), stage |-> "loaded"]
  ELSE batch

\* Mutant: the ingredients of one repeat are moved, whatever the batch.
LoadOne(w) ==
  /\ pc[w] = "load"
  /\ machine' = [machine EXCEPT ![w] =
       [recipe_id |-> cur[w].recipe_id, repeats |-> 1, stage |-> "loaded"]]
  /\ GoTo(w, "commit")
  /\ UNCHANGED <<tables, cur, todo, active, resumed, meddled>>

Load(w) ==
  /\ pc[w] = "load"
  /\ machine' = [machine EXCEPT ![w] = Filled(cur[w], @)]
  /\ GoTo(w, "commit")
  /\ UNCHANGED <<tables, cur, todo, active, resumed, meddled>>

\* Mutant: the commit is not noted in the copy.
CommitUnnoted(w) ==
  /\ pc[w] = "commit"
  /\ CommitCraft(cur[w], BatchSize(cur[w]))
  /\ GoTo(w, "call")
  /\ UNCHANGED <<cur, todo, active, resumed, machine, meddled>>

Commit(w) ==
  /\ pc[w] = "commit"
  /\ CommitCraft(cur[w], BatchSize(cur[w]))
  /\ cur' = [cur EXCEPT ![w].commit_repeats = BatchSize(cur[w])]
  /\ GoTo(w, "call")
  /\ UNCHANGED <<todo, active, resumed, machine, meddled>>

CommitFails(w) ==
  /\ pc[w] = "commit"
  /\ ~Committable(cur[w])
  /\ GiveUp(w)
  /\ UNCHANGED <<tables, machine>>

\* restore() of the turtle: a result in slot 13 is put into the storage, else
\* craft() takes what the buffer and the grid hold.  It answers true whatever
\* it finds.
Performed(batch) ==
  IF batch.stage = "empty" THEN Empty ELSE [batch EXCEPT !.stage = "made"]

\* craft and restore, answered in time.
Call(w) ==
  /\ pc[w] = "restore" \/ (pc[w] = "call" /\ machine[w].stage = "loaded")
  /\ machine' = [machine EXCEPT ![w] = Performed(@)]
  /\ GoTo(w, "complete")
  /\ UNCHANGED <<tables, cur, todo, active, resumed, meddled>>

\* turtle.craft() fails in an empty grid, the client answers false, and the
\* commit of no repeats, or fewer, stays until Restore finds it.
NothingToCraft(w) ==
  /\ pc[w] = "call"
  /\ machine[w].stage # "loaded"
  /\ GiveUp(w)
  /\ UNCHANGED <<tables, machine>>

\* How far a client gets with a call that the server sees fail.
Outcomes(w) ==
  CASE pc[w] = "types" -> {machine[w]}
    [] pc[w] = "dump" -> {machine[w], Dumped(machine[w])}
    [] pc[w] = "load" ->
         {machine[w], Filled(cur[w], machine[w])}
    [] OTHER ->
         {machine[w], Performed(machine[w])}
           \union {[machine[w] EXCEPT !.stage = "crafted"] : s \in {machine[w].stage} \intersect {"loaded"}}

CallFails(w) ==
  /\ Lossy
  /\ pc[w] \in {"types", "dump", "load", "call", "restore"}
  /\ \E batch \in Outcomes(w) : machine' = [machine EXCEPT ![w] = batch]
  /\ GiveUp(w)
  /\ UNCHANGED tables

\* The made batch is accounted for by the completion.
Complete(w) ==
  /\ pc[w] = "complete"
  /\ CompleteCraft(cur[w])
  /\ machine' = [machine EXCEPT ![w] = IF @.stage = "made" THEN Empty ELSE @]
  /\ GoTo(w, "done")
  /\ UNCHANGED <<cur, todo, active, resumed, meddled>>

CompleteFails(w) ==
  /\ pc[w] = "complete"
  /\ craft[cur[w].id] = NoCraft
  /\ GiveUp(w)
  /\ UNCHANGED <<tables, machine>>

\* Mutant: the craft that is done stays at hand.
DoneKeepsCraft(w) ==
  /\ pc[w] = "done"
  /\ GoTo(w, IF resumed[w] THEN "types" ELSE "next")
  /\ active' = [active EXCEPT ![w] = TRUE]
  /\ UNCHANGED <<tables, cur, todo, resumed, machine, meddled>>

\* Craft() or Restore() returns true.
Done(w) ==
  /\ pc[w] = "done"
  /\ GoTo(w, IF resumed[w] THEN "types" ELSE "next")
  /\ active' = [active EXCEPT ![w] = TRUE]
  /\ cur' = [cur EXCEPT ![w] = NoCopy]
  /\ UNCHANGED <<tables, todo, resumed, machine, meddled>>

-----------------------------------------------------------------------------
\* POST /crafts/{id}/commit: FindById, items to the player, CommitCraft of
\* one repeat, CompleteCraft.  POST /crafts/{id}/cancel: FindById, CancelCraft.
Request(h, label) ==
  /\ pc[h] = "idle"
  /\ \E row \in CraftRows : cur' = [cur EXCEPT ![h] = CopyOf(row)]
  /\ GoTo(h, label)
  /\ UNCHANGED <<tables, todo, active, resumed, machine, meddled>>

ManualCommit(h) ==
  /\ pc[h] = "manual commit"
  /\ CommitCraft(cur[h], 1)
  /\ cur' = [cur EXCEPT ![h].commit_repeats = 1]
  /\ GoTo(h, "manual complete")
  /\ UNCHANGED <<todo, active, resumed, machine, meddled>>

\* The step ends a craft that a worker is at.
TakesAway(c) ==
  /\ craft[c] # NoCraft /\ craft'[c] = NoCraft
  /\ \E w \in Workers : cur[w] # NoCopy /\ cur[w].id = c /\ pc[w] # "done"

ManualComplete(h) ==
  /\ pc[h] = "manual complete"
  /\ CompleteCraft(cur[h])
  /\ meddled' = (meddled \/ TakesAway(cur[h].id))
  /\ GoTo(h, "done")
  /\ UNCHANGED <<cur, todo, active, resumed, machine>>

Cancel(h) ==
  /\ pc[h] = "cancel"
  /\ CancelCraft(cur[h])
  /\ meddled' = (meddled \/ TakesAway(cur[h].id))
  /\ GoTo(h, "done")
  /\ UNCHANGED <<cur, todo, active, resumed, machine>>

\* The answer to the browser, after the last step or after any error.
Respond(h) ==
  /\ \/ pc[h] = "done"
     \/ pc[h] = "manual commit"  \* no player online, or not Committable
     \/ pc[h] = "manual complete" /\ craft[cur[h].id] = NoCraft
     \/ pc[h] = "cancel" /\ (craft[cur[h].id] # NoCraft
                              => craft[cur[h].id].commit_repeats # cur[h].commit_repeats)
  /\ GoTo(h, "idle")
  /\ cur' = [cur EXCEPT ![h] = NoCopy]
  /\ UNCHANGED <<tables, todo, active, resumed, machine, meddled>>

-----------------------------------------------------------------------------
\* Planning, and the storage counts of the state updater.

Schedule ==
  /\ \A u \in Items : itemReserve[u] \in -MaxReserve..MaxReserve
  /\ \E p \in PlanIds, shape \in PlanShapes, stock \in [Items -> 0..MaxStock] :
       InsertPlan(p, shape, stock)
  /\ UNCHANGED <<callers, machine>>

Submit ==
  /\ \E p \in PlanIds, r \in Recipes : \E n \in 1..planSteps[p][r] : InsertCraft(p, r, n)
  /\ UNCHANGED <<callers, machine>>

Delete == (\E p \in PlanIds : RemovePlan(p)) /\ UNCHANGED <<callers, machine>>

Count ==
  /\ \E u \in Items, n \in 1..MaxStock : UpdateItemCount(u, n)
  /\ UNCHANGED <<callers, machine>>

\* The server stops and starts again: only tables and turtles are left.
Crash ==
  /\ \E a \in Agents : pc[a] # "idle"
  /\ pc' = [a \in Agents |-> "idle"]
  /\ cur' = [a \in Agents |-> NoCopy]
  /\ todo' = [w \in Workers |-> {}]
  /\ active' = [w \in Workers |-> FALSE]
  /\ resumed' = [w \in Workers |-> FALSE]
  /\ meddled' = FALSE
  /\ UNCHANGED <<tables, machine>>

\* What a worker does by itself, and what takes an answer of its client.
OwnStep(w) ==
  \/ FindCurrent(w) \/ FindNext(w) \/ Assign(w) \/ Skip(w) \/ EndOfList(w)
  \/ Commit(w) \/ CommitFails(w) \/ Complete(w) \/ CompleteFails(w) \/ Done(w)

Answered(w) == GetTypes(w) \/ Dump(w) \/ Load(w) \/ Call(w) \/ NothingToCraft(w)

Handle(h) ==
  \/ Request(h, "manual commit") \/ Request(h, "cancel")
  \/ ManualCommit(h) \/ ManualComplete(h) \/ Cancel(h) \/ Respond(h)

Next ==
  \/ \E w \in Workers : OwnStep(w) \/ Answered(w) \/ CallFails(w)
  \/ \E h \in Handlers : Handle(h)
  \/ Schedule \/ Submit \/ Delete \/ Count
  \/ Crash

Spec == Init /\ [][Next]_vars

\* The worker's goroutine runs on; a client whose calls are repeated for ever
\* answers in time now and then.  Nobody has to use the service, and nothing
\* is assumed of the handlers.
Fairness ==
  \A w \in Workers :
    /\ WF_vars(OwnStep(w))
    /\ SF_vars(GetTypes(w)) /\ SF_vars(Dump(w)) /\ SF_vars(Load(w)) /\ SF_vars(Call(w))
    /\ SF_vars(NothingToCraft(w))

FairSpec == Spec /\ Fairness

-----------------------------------------------------------------------------
\* Type correctness: where agents can be, what copies and clients can hold; a
\* worker's craft is at hand exactly while it works on one.
TypeOK ==
  /\ pc \in [Agents -> {"idle", "types", "select", "next", "dump", "load", "commit", "call",
                        "restore", "complete", "manual commit", "manual complete", "cancel", "done"}]
  /\ \A a \in Agents :
       IF pc[a] \in {"idle", "types", "select", "next"} THEN cur[a] = NoCopy
       ELSE cur[a].id \in CraftIds /\ cur[a].recipe_id \in Recipes /\ cur[a].repeats \in Int \ {0}
  /\ \A w \in Workers : pc[w] # "next" /\ cur[w] = NoCopy => todo[w] = {}
  /\ \A w \in Workers : \A cp \in todo[w] : cp.id \in CraftIds
  /\ active \in [Workers -> BOOLEAN] /\ resumed \in [Workers -> BOOLEAN]
  /\ machine \in [Workers -> Batches \union {Empty}]
  /\ meddled \in BOOLEAN

\* The recipe of every craft allows a batch of one repeat at least.
Endable == \A c \in CraftIds : craft[c] # NoCraft => MaxRepeats[craft[c].recipe_id] > 0

\* The repeats a step takes off a craft.
Booked(c) ==
  IF craft[c] = NoCraft THEN 0
  ELSE craft[c].repeats - (IF craft'[c] = NoCraft THEN 0 ELSE craft'[c].repeats)

\* Every repeat that is taken off a craft has been made by a client, and is
\* taken off by the step that accounts for the batch; every batch that has
\* been made is accounted for, once: lost answers, interrupted calls and
\* restarts of the server neither repeat a batch nor pass over one.  Excepted
\* is that the worker keeps coming back to a craft that has no end.
ExactlyOnce ==
  [][Endable =>
     /\ \A c \in CraftIds : Booked(c) # 0 =>
          \E w \in Workers :
            /\ machine[w] = [recipe_id |-> craft[c].recipe_id, repeats |-> Booked(c), stage |-> "made"]
            /\ machine'[w] = Empty
     /\ \A w \in Workers : machine[w].stage = "made" /\ machine'[w] # machine[w] =>
          \E c \in CraftIds : craft[c] # NoCraft /\ Booked(c) = machine[w].repeats]_vars

\* A craft is in the hands of one worker at most: no two workers load, call
\* or complete for the same row at the same time, whatever handlers commit and
\* cancel besides.  Excepted is that a handler has ended a craft that a worker
\* was at: its rowid may come back, and the worker does not notice.
OneWorkerPerCraft ==
  ~meddled => \A v, w \in Workers :
    /\ cur[v] # NoCopy /\ cur[w] # NoCopy /\ cur[v].id = cur[w].id
    /\ pc[v] # "done" /\ pc[w] # "done"
    => v = w

\* A worker whose client is asked to craft has the commit of exactly that
\* batch in the table, under its own name: after a restart FindCurrent and
\* Restore will find it again.  A commit of no repeats or fewer, which a limit
\* below 1 makes, goes with a client that was given nothing.
CallsAreCommited ==
  \A w \in Workers : pc[w] = "call" =>
    LET row == craft[cur[w].id] IN
    /\ row # NoCraft
    /\ row.worker_id = w
    /\ row.status = "COMMITED"
    /\ IF row.commit_repeats > 0
       THEN machine[w] = [recipe_id |-> row.recipe_id, repeats |-> row.commit_repeats,
                          stage |-> "loaded"]
       ELSE machine[w].stage # "loaded"

\* Every craft that is submitted is in the end crafted completely, once the
\* server is no longer restarted - if the recipe of every craft allows a batch
\* at all: with a limit of 0 or less it is commited and completed for ever.
EveryCraftDone ==
  []Endable /\ <>[][~Crash]_vars =>
    \A c \in CraftIds : craft[c] # NoCraft ~> craft[c] = NoCraft

\* CompleteCraft completes commited crafts: the error it has for everything
\* else says "expected commited craft to complete".
CompletesCommited ==
  [][\A a \in Agents :
       pc[a] \in {"complete", "manual complete"} /\ pc'[a] = "done"
         => craft[cur[a].id].status = "COMMITED"]_vars

\* Workers and handlers use the tables as CraftLedger allows: a caller acts on
\* rows it has read itself, one transaction at a time.
CopiesOf(a) ==
  (IF cur[a] = NoCopy THEN {} ELSE {cur[a]}) \union (IF a \in Workers THEN todo[a] ELSE {})

Ledger == INSTANCE CraftLedger WITH
  Callers <- Agents, LeftBound <- Int, ReserveBound <- Int,
  copy <- [a \in Agents |-> CopiesOf(a)]

UsesLedger == Ledger!Spec

\* What is reserved of an item is what plans and crafts hold of it: workers,
\* their failures and restarts, and the deletion of plans leave no reserve
\* behind and take none twice.  With several workers this needs that all
\* crafts have one recipe: a listed craft whose rowid has come back is commited
\* by the recipe of the old one (StaleCommit of CraftLedger).
ReservesBalance == \A u \in reserveRows : Ledger!Drift(u) = 0
=============================================================================
