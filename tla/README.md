# Verification of the aecc-server crafting system

`aecc-server` (a Go program, `src/`) automates an item storage and autocrafting
in Minecraft. ComputerCraft computers run Lua scripts and talk JSON-RPC over
websockets to the server, which keeps recipes, plans, crafts, reserves and
transfers in SQLite and drives the computers from background goroutines and from
an HTTP user interface. The repository has no design documents and no Go tests;
everything here is read from the code.

The TLA+ modules beside this file model the crafting tables, the transactions on
them, the goroutines that work with them, the stored transactions by which
exports survive a restart, the cache of the item store, the JSON-RPC server and its goroutine pool, the life cycles of clients and of workers, the page on
which a worker is edited, and how the page of the script editor is put together. TLC
checks them on small instances. TLAPS proves every safety property of them, apart from those
of the editor's page, for all values of their constants.

## 1. Inventory

| Component | Code (`src/internal/...`) | State | Operations | What is hard |
|---|---|---|---|---|
| Crafting tables | `dao/crafts.go`, `plans.go`, `item_reserve.go`, `worker_state.go` | `plan_state`, `plan_goal`, `plan_item_state`, `plan_step_state`, `craft`, `item_reserve`, `worker_state` | insert/remove plan, insert/assign/commit/complete/cancel craft, count, clear | callers act on copies of rows read long ago; rowids come back after a delete; an ignored `Scan` error |
| Crafting workers | `services/crafter/worker.go`, `wsmethods/crafter_client.go`, `lua/crafter.lua` | one goroutine per client; the turtle's slots and buffer chest | dump, load, commit, craft/restore, complete | answers lost after the work is done; restarts between commit and completion |
| Worker factory | `services/crafter/worker_factory.go` | map of workers | connect, disconnect, ping | `Stop` outside the lock, then delete of whatever worker has the role |
| Manual commit, cancel | `server/router.go` 967-1028 | none | HTTP handlers on the same crafts | races with the worker that has the craft |
| Planner, plan progress | `services/crafter/planner.go`, `crafter.go`, `state_updater.go` | none beyond the tables | plan an item, submit what can be submitted, count the storage | counts that include other plans' reserves; an error on one plan ends the sweep over the others |
| Transfer transactions | `services/storage/transfer_transaction_manager.go`, `dao/export_transaction.go` | stored transactions; transaction chests and tanks | set up, commit, roll back, replay every 30 s | crash between commit and transfer; the replay takes no lock |
| Processing workers | `services/worker/*.go` | `worker_state`; machines | export ingredients, wait for results | commit of export and craft in one database transaction, results of a cancelled craft |
| Stores | `services/storage/multiple_chests_store.go`, `fluid_store.go`, `combined_store.go` | cached counts of chests and tanks | import, export, sync | cache against contents after a short move; a loop that may never end |
| JSON-RPC | `wsrpc/handler.go`, `pkg/gopool/pool.go` | pending calls, request ids, pool of 128 goroutines | request, answer, timeout | late or second answers block a pool goroutine; ids wrap |
| Clients manager | `wsmethods/clients_manager.go`, `dao/clients.go` | connected clients by role | login, register, remove | a client is announced as gone before it is removed |
| Worker administration | `services/worker/worker_manager.go`, `worker_handler_manager.go`, `worker_handler.go`, `dao/workers.go`, `recipe_types.go` | rows of workers and recipe types; handlers and their goroutines | create, update, rename, delete; start, stop | the row and the handler change in two steps with nothing around both |
| Worker's page | `server/resources/static/js/workers-form.js`, `worker_params.go` | form elements, shared dialog, debounce timer | add, delete, select, search, post | searches that overtake one another; indices that put fields together |
| Script editor's page | `server/resources/static/monaco/*` | the loader's modules, scripts under way | define, require, load events and errors | scripts arrive in any order or fail; a definition without a name is kept for a later event |
| Players, recipes, other pages | `services/player`, `dao/recipes.go`, `server/router.go` | reference data | CRUD, pages | little that a model checker would find |

How they interact: the planner's result becomes a plan (`SchedulePlanForItem`),
which reserves stock; `CheckNextSteps` moves repeats of a plan's steps, and the
ingredients held for them, into crafts; crafting and processing workers take
crafts, commit a number of repeats (this consumes the reserve), have them made by
their client and complete them; every result that reaches the storage is counted,
and `UpdateItemCount` deals it out to the plans that miss it. HTTP handlers delete
plans and commit or cancel crafts at any time in between.

What makes the components correct:

* tables: reserve and holdings stay equal; a plan can always pay for what it still
  has to submit; a status never contradicts the commited repeats;
* workers: each repeat is made and booked exactly once, whatever is lost; one
  worker per craft; every craft is finished in the end;
* transfers: all or nothing is delivered, once, also over a crash;
* stores: the cache never promises what the chests do not hold;
* JSON-RPC: an answer reaches the call it belongs to, and the pool is never used up;
* life cycles: one goroutine per worker id, every goroutine can be stopped, `Stop` ends;
* worker's page: the dialog lists what its filter asks for; what is saved is what the form showed;
* editor's page: no module runs before its dependencies, or as another's; every require is answered.

`PROJECT.json` lists the components with their status and every hazard at its
line, those of the parts that are not modelled included.

## 2. The modules

| Module | Models |
|---|---|
| `Sums` | `SumTo(f, n)`: the sum of a column over the rowids `1..n`; `SumOver(f, S)`: the sum over a finite set |
| `CraftTables` | the tables and one operator per transaction of `internal/dao` |
| `CraftLedger` | those transactions under the most general callers |
| `CraftingService` | crafting workers, their clients, manual commit and cancel, planning, restarts |
| `Delivery` | what an export promises: orders that are placed as a whole, handed over once, closed when nothing is left |
| `TransferTx` | transfer transactions: set-up, commit, transfer, restore, the ping without the lock |
| `ItemStore` | the warm storage's cache of its chests, imports, exports and the sync that lists the chests |
| `RpcServer` | calls, answers, timeouts, ids that wrap, and the pool that delivers answers and runs logins |
| `ClientLifecycle` | connections, the clients manager, the crafter worker factory and its workers' goroutines |
| `WorkerAdmin` | rows of workers and recipe types, handlers and their goroutines, under overlapping requests |
| `WorkersForm` | the page that edits a worker, its dialog and searches, and the parsing of what it posts |
| `ModuleLoader` | the module manager of the vendored loader, the script tags and requires of a page |
| `EditorPage` | the scripts of the editor's page and what each defines |
| `SumsProofs`, `CraftLedgerProofs`, `CraftingServiceProofs`, `TransferTxProofs`, `ItemStoreProofs`, `WorkerAdminProofs`, `ConnectionProofs` (`RpcServer` and `ClientLifecycle`), `WorkersFormProofs` | theorems |
| `MC...` | instances for TLC |

`CraftingService` INSTANCEs `CraftLedger`, both extend `CraftTables`. `TransferTx` INSTANCEs `Delivery`, its
abstract specification. The others stand for themselves:
what one part sees of another is in it as a call that may fail or take long (the storage client for crafting
and transfers, `process()` for `ClientLifecycle`, the client for `RpcServer`).

**CraftTables.** A table whose rows have rowids is a function on `1..Max...`; a
missing amount is 0 and a missing craft is `NoCraft`. `INTEGER PRIMARY KEY` without
`AUTOINCREMENT` means that the next rowid is the largest in use plus one, so the id
of a deleted craft or plan comes back (`IsNextRowid`). One operator is one committed
transaction, for SQLite serialises them; what the code rolls back changes nothing,
so those conditions are conjuncts. Transactions on crafts take a `*Craft` that the
caller read earlier, `cp`. `CommitCraft`, `CancelCraft` and `CompleteCraft` look at the row that has
`cp.id` *now*, and compute what they release from `cp`, as the code does.
`ReleaseItems` is an `UPDATE`: it does nothing for an item without a row, hence
`reserveRows`. `Completed` follows `CompleteCraftInOuterTx` through the ignored
error of `row.Scan`: a row that is not COMMITED is deleted. What a plan consumes
(`Consumed`) and reserves (`Acquired`) is computed from the planner's result, a `PlanShapes` record:
goals, catalysts (once each), repeats of each step, items a step produces (they get
a reserve row); a goal is never taken from the stock.

**CraftLedger.** `copy[h]` is the set of rows a caller `h` holds. `Find` reads any
rows, `Forget` drops some, `Crash` drops all; in between a caller may start any
transaction on any of its copies. Nothing orders the callers, so what holds here holds for
every goroutine that uses the tables: crafting workers, processing workers (whose
transactions `CommitComplete`, `CommitWait`, `CompleteWait` are here) and handlers.
`LedgerFault` names the four kinds of step after which reserve and holdings may
differ, each a real path of the code.

**CraftingService.** `pc[w]`, `cur[w]`, `todo[w]` follow `CraftWorker.process`,
`Craft` and `Restore` statement by statement; a step ends at a database transaction
or a call to the client. `machine[w]` is what the turtle and its buffer hold:
nothing, a loaded batch, a crafted result in slot 13, or a result that is in the
storage with no craft completed for it yet (`made`, a history value). `restore` of
`crafter.lua` answers true whatever it finds, and so does `Call`. What a recipe allows in one batch (`MaxRepeats`)
is any integer: the code takes `max_repeats` as it was entered, after its only check for zero (`worker.go:145-151`). A batch of
no repeats or fewer is commited like any other, but loads nothing, and the client answers false to `craft` (`NothingToCraft`);
the row is COMMITED, and the next `Restore` completes what was not made. With `Lossy` a call may fail
for the server after all, part or nothing of its work; an error ends `process`,
which runs again later (`GiveUp`). The handlers are two- and three-step programs with a copy
of their own. `Crash` clears every goroutine and keeps tables and turtles. `meddled` is history:
since the server was started a handler has ended a craft that a worker was at.
The module INSTANCEs `CraftLedger` with the copies its goroutines hold, and
`UsesLedger` says that it implements the ledger; `ReservesBalance` uses the ledger's `Drift`.

**TransferTx.** `cell` is what the slots of the transaction chest and the transaction
tanks hold, `stored` the rows of `stored_tx` with their subjects. `pc[p]` follows a worker through
`setupTransaction` (restore, `dump`, `load`, then an `open` database transaction) and
`Commit` or `Rollback`, and every goroutine through `processSTX` (`items`, `fluids`, `drop`);
`at` is the cell it is at. One step is one call to the storage client, or one database
transaction. A transaction of a worker that has returned an error stays in `stored`
and is replayed. Ids are `AUTOINCREMENT` and do not come back; what a goroutine has read
(`work`) may have been dropped since. `owed` is a history value: what was commited for
a target less what was delivered. A call that fails has done nothing: one that has worked, and whose
answer was lost, is the step followed by `CallFails`. `DropTransaction` waits for an open database transaction.

**Delivery.** Three steps: `Place` an order, `HandOver` a part of what is left of it in one place, `Close` it
when nothing is left. There are no cells, goroutines, phases, locks or failures. In the refinement mapping every
stored transaction is an open order (`OrderOf`), and what is left of it is what its cells hold; the ids are the rowids. So `Commit`
is `Place`, a move of a stored transaction is `HandOver`, `DropTransaction` is `Close`, and set-ups, checks, the ping's reads, restarts
and drops of rows that are gone are stutters.

**ItemStore.** `chest` is what the chests hold; `stacks`, `used`, `free` and `stats` are the store's maps, `known`
the chests they are about. A slot's stack in `stacks` is 0 where the Go map has no entry. `op[p]` follows
`ImportStack` (fill slots that hold the item, then empty ones) and `ExportStack` move by move: one step is
one call to the storage client, which moves from nothing to all it is asked for, or fails after it has
moved something. `mu` is the lock of the store, held over the calls. `sync[q]` is the sync of `combined_store.go`:
list all chests, `Clear`, and `Add` each chest from that listing, each under a lock of its own. `TakeOutside` is
everybody else who takes from a chest: the optimization of the cold storage has its own lock only.
The order in which Go ranges over a map is any order.

**RpcServer.** `calls[c]` is a `SendRequestSync` from its start (`wait`), over the timeout whose channel
is not removed yet (`expired`), to its end. `pending` maps ids to the calls whose channels are
registered; an answered call leaves its entry there, as the code does. `arriving` are the goroutines of the websocket server
that hand a task to the pool, `queue` and `worker` the pool: a task goes to a free goroutine or the queue,
and only a task that comes to a full queue makes a new goroutine. A goroutine that has looked up the
channel of an answer waits until somebody reads it. A login runs in the pool and makes a call itself; it ends
with that call here, and what `RegisterClient` does then, with the clients' lock and the listener, is in `ClientLifecycle` (at this
commit a crafter is refused before). A client may answer the calls in `Twice` a second time (`ReceiveAgain`). The repository's own
clients do not: `clientV4.lua.tmpl:160-175` sends one result or one error per request. The server takes both.

**ClientLifecycle.** `reg[c]` and `rem[c]` follow the registration and removal of a connection through
`clients_manager.go` and `worker_factory.go`, lock by lock; `run[w]` is the goroutine of the worker that
was made for connection `w`, `stopped[w]` its flag. `Stop` sets the flag and sends on an unbuffered
channel, which `process()` is in the way of; `process()` looks up the storage client, for which it needs the read
lock of the clients. A waiting writer keeps readers out, as Go's `RWMutex` does. `latest` and `crossed` are
history: the last login of a role, and whether one of four named races has happened. A nil pointer ends the server (`down`).

**WorkerAdmin.** `types` and `table` are `recipe_types` and `worker`; `handler` is the manager's map
and `runner` the handlers with their goroutines; `req[p]` follows a request through its database
transactions and the handler manager's lock. A deletion reads in one transaction and writes in
another. A runner reads `isStarted` without a lock: a read before or after the write. `parted`
is history, set by the six named faults.

**WorkersForm.** The user, the script, its timer and its searches, and the server's parsing. A form element is its
index and one value; `counter` numbers elements and lives as long as the script, longer than the page that
`HX-Location` swaps. The dialog is one object with one promise, whoever opened it. `Parsed` puts posted fields
together by their index and sorts the indices of exports as strings (`Before`), those of imports in
the order of a Go map. `Refused` is the answer that renders what was parsed; any post may be refused, for other fields
than those of the rows are checked as well. What is in the dialog's input changes by `Fill`, of which the script does not hear; it
hears `KeyUp`. `unasked` is history: the last change has come when no search was to come, and no key has gone up since.

**ModuleLoader.** `modules`, `asked`, `inverse` and `current` are the fields of the loader's `ModuleManager`, and its methods
are operators that take and return all of them, as `defineModule`, `_resolve` and `_onModuleComplete` call one another
in one turn of the event loop. A step is one event of the page: a script tag that runs or fails, a `require`, or the load
or error event of a script or resource that the loader has asked for. `ran` and `failed` are history. The loader keeps
a definition without a name (`current`) until the load event of a script it has asked for, of whichever. What a plugin
loads becomes a module; its failure is reported, but no module that waits learns of it.

**EditorPage.** `Contents` of the page: `editor.main.js` bundles the editor, its API and the contributions of the
languages, and needs a stylesheet; `monaco-vim.js` defines one module without a name and has a script tag, although the page
requires it, too; the editor requires the language (`lua.js`) when it is there.

### Assumptions

* Recipes are constants (`Ingredients`, `MaxRepeats`). The code lets anybody edit or delete one at any time (`POST` and
  `DELETE /recipes/{id}`, `router.go:525`, `576`, `dao/recipes.go:213`, `333`). Done between the submission and the commit of a
  craft this parts the reserve from the holdings, for `InsertCraft` and `CommitCraft` each compute with the recipe as it is
  then; and a craft whose recipe is gone is never done. All results about reserves (`LedgerDrift`, `ReservesBalance`, `PlanCovered`,
  `FaultlessBalance`) and `EveryCraftDone` are about recipes that are left alone while plans or crafts use them.
* No item is twice among the goals of a plan. Of two goals for one item the planner counts the last (`planner.go:114-119`), while
  `plan_goal` gets both (`plans.go:270`): the plan then requires less than its goals, and `PlanCovered` would not hold.
* The storage holds what a commited craft takes, and `turtle.craft()` succeeds on what was loaded.
  (`trasferItems` ignores short exports; listed as a hazard, the stores are not modelled.)
* One goroutine runs per worker id in `CraftingService`; the worker factory can break this, see `ClientLifecycle`.
* A client serves its requests in the order they were sent. A request that timed out and
  is still queued in the client when the next one arrives is served first.
* In `CraftingService` nobody clears the reserves and no processing worker shares the
  crafts; both are in `CraftLedger`.
* In `ClientLifecycle` a client registers with the properties that its role needs. At this commit none does: the login, the
  only caller of `RegisterClient`, passes `nil` (`clients_manager.go:138`), and `NewCrafterClient` refuses a client
  without a `buffer_name` (`crafter_client.go:19-22`), also one that has a row in the database. So what the module shows of crafters,
  the races, the nil pointer and the deadlock included, is latent until the login passes on what a client has sent.
* In `WorkersForm` the user does not leave the page while a post is on its way.
* For transfers the storage is an endless source and sink: an export may bring less, and with
  `Full` an import may take less. The check of several tanks is one step.

## 3. What TLC checks

| Run | Instance | Properties |
|---|---|---|
| `ledger_callers` | two callers, a crafting and a processing worker, one plan, one craft, recipes that consume 1 and 2 of an item, the limit of the first 2 repeats, of the second 0 | `TypeOK`, `CommitConsistent`, `PlanCovered`, `LedgerDrift` |
| `service_lossy` | one worker, three crafts, recipes with the limit 2 whose crafts fit into one batch and one with the limit 0, lost answers, restarts, fairness | `TypeOK`, `CallsAreCommited`, `ReservesBalance`, `ExactlyOnce`, `UsesLedger`, `EveryCraftDone` |
| `service_agents` | two workers and a handler, one rowid for crafts of two batches, restarts | `OneWorkerPerCraft` |
| `service_race` | a worker and a handler, one craft | `CompletesCommited`: violated, see below |
| `transfer_safety` | two workers and the ping, two slots and a tank, the first slot of size 2, three requests, two commits, lost answers, short moves, a storage that may be full, restarts | `TypeOK`, `SubjectsApart`, `OwedIsPending`, `Delivers` |
| `transfer_progress` | one worker and the ping, one slot and one tank of size 1, dumps move everything, fairness | `TransfersEnd`, `LockFreed` |
| `item_store` | a chest of two slots and one of one, two items, amounts to 2, one user and one sync, takers from outside | `TypeOK`, `StoreExact`, `CountsAdd` |
| `rpc_server` | two goroutines, a queue of one, ids modulo 2, three calls of which one may be answered twice, one login, fairness | `TypeOK`, `AnswersOwnCall`, `LostToLateAnswers`, `PoolLives` |
| `client_lifecycle` | three connections of one role, fairness | `LifeTypeOK`, `WorkersMatch`, `PanicsExplained`, `RemovalsEnd` |
| `worker_admin` | two requests, two keys, a crafting and a plain configuration, three handlers | `TypeOK`, `RunnersMatch`, `StopIsReceived`, `BindingsKept` |
| `worker_form` | two rows, indices to 3 in base 3, two items, two searches | `TypeOK`, `ResultsForFilter`, `SavedAsShown` |
| `editor_page` | the page as it is, every script and the stylesheet arriving in any order or failing, fairness | `TypeOK`, `FactoriesInOrder`, `OwnDefinition`, `RequiresAnswered` |

* `LedgerDrift`: no transaction books only one side. It is an action property over
  the *drift* (reserve less holdings), so it keeps its meaning after a fault has
  made the drift non-zero.
* `PlanCovered`: a plan holds at most what it requires, and requires enough for its
  goals and for every repeat that it has not submitted, while submissions and
  counts change both numbers.
* `CommitConsistent`: `Restore` decides by the status, the transactions by
  `commit_repeats`; no step makes the two disagree, except the one by which they do: a commit of no repeats (`EmptyCommit`), which a
  recipe with `max_repeats` 0 leads to. It is an action property, so it goes on to say something of the rows where that has not happened.
* `ExactlyOnce`: a completion takes off a craft exactly the batch that a client has
  made, and no made batch is passed over. It holds for crafts that fit into one
  batch. With two crafts of several batches a lost answer breaks it: `FindCurrent`
  returns the craft with the lower id first, whose `DumpOut` throws away
  the other's commited ingredients, and the later `Restore` completes that one with nothing made.
  Nothing in the repository says that it must not, so this is a hazard in the list and not a finding.
* `EveryCraftDone`: once the server is no longer restarted every craft gets done, if the recipe of every craft that comes allows a batch
  of one at least (`Endable`). With `max_repeats` 0 a craft is commited and completed for ever; below 0 each completion adds repeats.
* With the limit 0, which recipe 3 has in `service_lossy`, a call to the client still goes with the commit that the row has
  (`CallsAreCommited`), and no reserve is lost or invented (`ReservesBalance`). `ExactlyOnce` excepts it (`Endable`): the craft that
  never ends stays with the worker, as one of several batches does, and its `DumpOut` throws away the next one's ingredients.
* `UsesLedger`: the service does to the tables only what `CraftLedger` lets a caller do with copies it has read, hence what is shown of the
  ledger holds of the service. TLC checks it for one worker with lost answers and restarts; the proof is for workers and handlers.
* `OneWorkerPerCraft`: no two workers work on one craft, whatever handlers commit and cancel, until one ends a
  craft that a worker is at (`meddled`): that worker may keep a copy whose rowid has become another craft.
  `StaleCancel` and `StaleCommit` are faults of the ledger for the same reason.
* `ReservesBalance` holds for workers among themselves; with a handler the faults of the ledger happen.

* `OwedIsPending`: apart from three named faults, what a target is owed is exactly what stored transactions
  still have in their cells for it. So nothing is delivered that was not commited, nothing is
  dropped before all of it was delivered, and a replay delivers nothing twice. The
  faults are real paths of the code, and the property fails without any one of them:
  `StaleMove` (the ping goes on with a transaction that somebody else has finished, and moves the
  goods of the next one), `DumpPending` (all transaction tanks are dumped, but only
  those of the own request are restored first), `LeftoverCommit` (how much a dump has moved is not looked
  at). No doc says otherwise, so they are hazards and not findings.
* `Delivers`: apart from the same faults `TransferTx` implements `Delivery`. It says more than `OwedIsPending`, which only
  relates sums: what a commit stores is the request as it was asked for, a step hands over from one order only, orders
  that a step is not about stay as they are, and a row goes only when its own cells are empty.
* `SubjectsApart`: two stored transactions never share the chest or a tank, hence the
  unique index is never hit, although the ping drops rows at any time.
* `TransfersEnd`, `LockFreed`: every stored transaction is finished in the end by a restore or by the
  ping, and nobody keeps the lock. With a storage that may be full `TransfersEnd` fails: a leftover in
  a slot that the request does not use fails the check that the chest is empty for ever.

* `StoreExact`: the cache is what the chests hold, apart from named faults that last until the next sync:
  an import into an empty slot records what it asked for and not what was moved, a call that fails and has moved something is
  not recorded, a listing is out of date when it is added, and somebody else takes from a chest. Each is a path of the
  code, and the property fails without any one of them.
* `CountsAdd`: however wrong the cache is about the chests, its maps agree with one another: counts
  are sums of stacks, the free slots of a chest those not in use. Only two overlapping syncs break this, which add a chest twice.
* `AnswersOwnCall`, `LostToLateAnswers`: a call gets its own answer, and a goroutine of the pool is lost only to an
  answer that was looked up before its call timed out, or to one of two answers to one request (an answered call leaves its
  channel registered); the one exception of both is an answer so late that its id has come again.
* `PoolLives`: answers and logins get a goroutine as long as one is not lost, although an answer may be queued behind the login
  that waits for it (the login then times out), and a task in the queue gets no new goroutine while the pool is not full.
* `WorkersMatch`: with nobody coming or going, the last login of a role has the role's
  worker, and no other goroutine runs. It excludes four races, which `ClientLifecycle` marks where they happen: a registration
  that overlaps the removal of its connection, two stops of one worker, a removal that stops another connection's
  worker, and one that deletes a worker that came later.
* `PanicsExplained`: without a race the server ends with a nil pointer only if two clients had one role and the
  last to log in left first; then the other one's removal finds no worker. No two steps need to overlap for this.
* `RemovalsEnd`: every removal ends, apart from two stops of one worker and a deadlock that the property names: a removal that holds
  the clients' read lock waits for `process()`, which waits for that lock behind a waiting writer, which waits for the removal.
* `RunnersMatch`: between requests every enabled worker runs once, with the configuration of its row, and nothing else
  runs. Six faults are named and excluded; each is one interleaving of requests, or one plain request (a change of the
  key, the creation of a disabled worker), after which the handlers differ from the rows until a restart.
* `StopIsReceived`: whoever waits in `Stop` with the manager's lock waits for a goroutine that is there and will receive.
* `BindingsKept`: a worker and its recipe type point at each other. Two exceptions: the deletion of a bound
  type, and a worker that is deleted while an update changes its type.
* `ResultsForFilter`: the debounced search never loses what is in the filter when the last key goes up. Excepted are the newest search if
  it failed or an older answer came after it, and a change that no key follows: the script listens to `keyup` alone (`workers-form.js:230`),
  so a filter that is pasted or dropped with the mouse, or filled in by the browser, is not searched for until a key goes up.
* `SavedAsShown`: no two form elements ever share an index, over additions, deletions, refused posts and swapped pages, and
  a worker is saved with each element's own values; exports keep their order as long as their indices have equally many digits.

* `FactoriesInOrder`: the factory of a module runs once, after those of all its dependencies, also when a script runs twice.
* `OwnDefinition`: no module gets the definition of another script, although `monaco-vim.js` leaves one behind that has
  no name: the load event that takes it up is always that of a second run of the same script.
* `RequiresAnswered`: each require gets its callback or an error, unless the stylesheet fails: its plugin tells no
  module, and the editor never starts.

The faults that these properties name are nowhere excluded by the repository's own words, so they are
listed as hazards and not as findings.

Bounds. Rowids are capped (`MaxPlans`, `MaxCrafts`): one row already is reused by a
later craft, two rows make the order of ids matter, and three crafts let a round
have finished, current and future crafts. Stock counts go to 2 and reserves to 2
(`ReserveBound` of the ledger, checked before new plans and commits; `MaxReserve` of the service, before new plans): enough for a
plan to get none, part or all of what it misses, and for a wrong release to show. `LeftBound` is the set of repeats that a commit,
perhaps by an outdated copy, may leave a row. In `service_agents` recipe 1 consumes
nothing of the item (`Free`): its property is about who works on which row, and three agents and crafts of two batches fill the
instance; reserves are in `service_lossy` and the ledger. One rowid is enough for it to come back while a worker has the old craft.
Both bounds of the ledger are sets, all integers where it is instantiated, so they restrict no proof. Batches of one and
two repeats against crafts of one and two repeats give the craft that fits, the craft that does not, and
the last partial batch. Two callers are enough for a transaction between any two steps of another.

Transfers: a slot of size 2 with requests for 1 and 2 lets a move or a dump take
part of a cell; a request that leaves a slot unused, one for a fluid only and one for both phases, and a
second transaction after the first (`MaxTx` 2) give a stale replay, a restore by another worker and a
dump of a tank with other subjects. The lock lets one worker work at a time, so a second one is enough; in the
progress run it would only repeat the first one's turns.

Store: its lock makes several users equal to one, so one user is enough; two slots in one chest and one in
another let an import fill, spill over and find no place. Nothing begins after a fault until the next
sync (`AfterFault`), because the property says nothing of such states: 1.6 million states. With one item
and one-slot chests, two syncs and, separately, `AfterFault = TRUE` pass as well.
RPC: with ids modulo 2 the third call has the id of the first, and two goroutines of which each may be lost reach the end of the pool.
A login alone fills the pool as long as its second goroutine is not started or is lost, and a second answer costs a goroutine while
the other one is still needed.
Limits of recipes: 2 gives a last partial batch, 0 a batch of nothing; below 0 a commit and a completion book
with the other sign, which the theorems include.
Life cycles: two connections can take a worker over, a third makes removals overlap a take-over; behaviours end at a race
(`AfterRace`), with two connections they pass without that bound. Administration: two requests give every overlap of two, two
keys a rename and a swap; nothing begins after a fault until a restart, and without that bound the run passes too
(861 000 states). Worker's page: with base 3 the indices 1 to 3 cross from one digit to two; two rows are enough for
a wrong order or a shared index, two searches for one to overtake the other, and one filter besides the empty one for what is shown to be another's.

Deadlock is checked for transfers, the store, the worker administration and the page, where somebody can always
start something. It is not checked for the ledger and the service, which have nothing to do when no plan exists and
the bounds are reached, nor for calls and connections, of which there are finitely many, nor for the editor's page, which is
complete some time. The editor's page has no bounds.

Fairness (`FairSpec`). Every step a worker takes by itself is weakly fair: its goroutine loops, waking
every 30 s or on a ping. Every step that takes an answer of the client is
strongly fair: calls may fail, but a call that is repeated for ever is answered in time now
and then. `TransferTx` has the same fairness: strong for the moves and checks of the client, which fail or
move nothing now and then but not for ever, and for a writer that waits for SQLite; weak for the
ping, which comes every 30 s, and for the steps of a set-up, which may as well fail.
In `RpcServer` calls have a timeout and goroutines run: one weak fairness for all of these steps (`Serve`), for with finitely many
calls and logins whatever goes on reaches each of them (in the code Go's channels serve who waits first); nothing is assumed of clients. In `ClientLifecycle` a registration and a
worker's goroutine run on (weak), a removal that waits for a lock gets it in turn (strong), and `process()` ends, for it calls
the storage finitely often with timeouts (strong). In `ModuleLoader` the browser loads each script it was asked for or reports an
error (weak); the page's own steps are assumed of nobody.
Nothing is assumed of handlers, of planning, or of the restarts, other
than that they end (the antecedents of `EveryCraftDone`, `TransfersEnd` and `LockFreed`).

### Finding

`service_race` is a real behaviour. `CompleteCraftInOuterTx` has the error "expected
commited craft to complete" (`dao/crafts.go:307`), but its `UPDATE` returns no row
for a PENDING craft, the error of `Scan` (294) is ignored, and with `newRepeats` still 0
the `DELETE` (298) removes the craft with the repeats that are left. A manual commit
and the `Restore` of the worker that has the craft complete the same repeat, and
the second completion does this. The reserve of the repeats that are lost stays.

## 4. What is proved

A theorem holds for all values of the constants that satisfy the named assumptions of its module: sizes and amounts are natural
numbers, limits of recipes are integers, the modulus of the ids is positive, special values are not among the ordinary ones. Sets
of items, workers, plans, clients and callers are arbitrary, finite only where a sum goes over them. All theorems are
about `Spec`: failing calls, restarts and every interleaving included, without fairness; the two `Faultless` theorems are about its behaviours without a fault.

| Theorem | Statement |
|---|---|
| `CraftLedgerProofs!TypeCorrect` | `Spec => []TypeOK` |
| `CraftLedgerProofs!CommitsAgree` | `Spec => CommitConsistent` |
| `CraftLedgerProofs!PlansCovered` | `Spec => []PlanCovered` |
| `CraftLedgerProofs!ReservesBooked` | `Spec => LedgerDrift` |
| `CraftLedgerProofs!FaultlessBalance` | without a fault the drift of every item is 0 |
| `CraftingServiceProofs!UsesTheLedger` | `Spec => UsesLedger`: the service implements the ledger |
| `CraftingServiceProofs!ServiceTypes` | `Spec => []TypeOK` |
| `CraftingServiceProofs!OneWorker` | `Spec => []OneWorkerPerCraft` |
| `CraftingServiceProofs!WorkersCompleteCommited` | `Spec => CompletesCommited`, if `Handlers = {}` |
| `CraftingServiceProofs!CallsFindCommits` | `Spec => []CallsAreCommited`, if `Handlers = {}` and `OneRecipe \/ Alone` |
| `CraftingServiceProofs!ReservesAgree` | `Spec => []ReservesBalance`, if `Handlers = {}` and `OneRecipe \/ Alone` |
| `CraftingServiceProofs!BatchesCountOnce` | `Spec => ExactlyOnce`, if `Handlers = {}`, `Alone` and `FitsBatch` |
| `TransferTxProofs!TypeCorrect` | `Spec => []TypeOK` |
| `TransferTxProofs!StoredApart` | `Spec => []SubjectsApart` |
| `TransferTxProofs!DeliveredOnce` | `Spec => OwedIsPending` |
| `TransferTxProofs!FaultlessDelivery` | without a fault a target is owed what stored cells hold for it, and never less than nothing |
| `TransferTxProofs!ImplementsDelivery` | `Spec => Delivers` |
| `ItemStoreProofs!TypeCorrect` | `Spec => []TypeOK` |
| `ItemStoreProofs!CacheExact` | `Spec => []StoreExact` |
| `ItemStoreProofs!CountsAgree` | `Spec => []CountsAdd` |
| `ConnectionProofs!TypeCorrect` | `Spec => []TypeOK` |
| `ConnectionProofs!OwnAnswers` | `Spec => []AnswersOwnCall` |
| `ConnectionProofs!LateAnswersLose` | `Spec => []LostToLateAnswers` |
| `ConnectionProofs!LifecycleTypes` | `LifeSpec => []LifeTypeOK` |
| `ConnectionProofs!WorkersAgree` | `LifeSpec => []WorkersMatch` |
| `ConnectionProofs!PanicsAre` | `LifeSpec => []PanicsExplained` |
| `WorkerAdminProofs!TypeCorrect` | `Spec => []TypeOK` |
| `WorkerAdminProofs!StopsAreReceived` | `Spec => []StopIsReceived` |
| `WorkerAdminProofs!BindingsAgree` | `Spec => BindingsKept` |
| `WorkerAdminProofs!RunnersAgree` | `Spec => []RunnersMatch` |
| `WorkersFormProofs!TypeCorrect` | `Spec => []TypeOK` |
| `WorkersFormProofs!SearchShown` | `Spec => []ResultsForFilter` |
| `WorkersFormProofs!SavedAsEntered` | `Spec => SavedAsShown` |

**The ledger.**

* `TypeOK` is inductive by itself; it is split into `CraftsOK`, `PlansOK`,
  `ReservesOK`, `CopiesOK`, with one lemma per transaction. Its interesting part is
  that a live craft and a copy never have zero repeats: a completion deletes exactly those rows.
* `CommitsAgree` follows from `TypeOK` step by step (`ToldUpdate`): a completion sets the status and the number together (`CompletedTold`),
  and a commit is of one repeat, of all that a copy has, which are never none, or of the limit of its recipe: only where that
  is 0 the two disagree afterwards (`OnCopyTold`). Nothing is assumed of the limits.
* `PlanCovered` is inductive with `TypeOK`. `InsertPlan` needs that the consumption covers goals and
  steps (`ConsumedCovers`); `InsertCraft` that the need of the steps shrinks by the batch
  it takes (`SumAfterUpdate`); `UpdateItemCount` that nobody is dealt more than it misses
  (`DealtBounds`). The conjunct "a removed plan requires nothing" is the strengthening that
  `ReservesBooked` needs: a new plan may reuse an id, and overwrites what the id held.
* `ReservesBooked` is a consequence of `TypeOK` and `PlanCovered` in one step: `DriftStays`
  and `DriftOfCraft` reduce every transaction to the difference of one summand.
* `FaultlessBalance` adds the steps up: it is about behaviours without a fault (`[][Next /\ ~LedgerFault]_vars`), and needs
  besides `ReservesBooked` that an item that gets its first reserve row was held by nobody.

**The crafting service.**

* `UsesTheLedger`: the refinement, action by action. A caller's copies are what a goroutine has at hand (`CopiesOf`); `Hands` says that
  these are all copies of rows, where in its code a goroutine has any, and that a list is dropped when it is done with. Reading
  is `Find`, letting go is `Forget`, each transaction is the ledger's (`SameTransactions`). So everything that is proved
  of the ledger holds for the service, whose proofs use the ledger's types and drift through the instance `L`.
* `OneWorker`: "no two workers have the same craft" says nothing of the table, so it is not inductive. `IInv`
  adds that the row of a craft that is worked on carries the name of the worker (`Owned`). Then only the
  worker itself ends the row, `AssignCraftToWorker` takes only rows without a name, and a new craft gets no rowid that
  is in use. A handler that commits, completes a part or cancels leaves the names in the rows it does not delete; one that deletes the row
  of a craft that a worker is at sets `meddled`.
* The others have `Handlers = {}`, because a manual commit beside a worker does break them (`service_race` shows one case).
  `Notes` says what the row and the client say of the batch that a worker is at, by where the worker is: it has commited what is loaded
  before it calls. From `Notes` follow that only COMMITED crafts are completed, and `CallsAreCommited` if
  the recipe of the copy is that of the row.
* That needs a hypothesis: a list of crafts may be old, and the rowid of a craft that is gone may be that of a new craft
  with another recipe, which is then commited by the old one. With one recipe (`OneRecipe`), or with one worker
  (`Alone`: the rowids in its list come back only behind those it still has to do, `Listed`), it cannot happen.
  The ledger's `StaleCommit` and `StaleCancel` cannot happen either, so `ReservesBalance` follows from `FaultlessBalance`.
* `BatchesCountOnce`: `Once` says that the worker has one row at a time, that this row is commited exactly while its batch is in the client or
  on its way (`Held`), and that the copy at hand knows the row's repeats (`Counted`). With several batches in a craft
  `FindCurrent` can find another row of the worker first, hence `FitsBatch`; `ExactlyOnce` is false without it.

**Transfers.**

* `StoredApart`: a set-up may store only what overlaps nothing stored. `IInv` adds that who works has the lock
  (`Exclusive`) and that a worker that restores has every overlapping transaction at hand (`Restores`): nobody else can store
  one meanwhile, and the worker drops all it has at hand before it goes on. The ping may only drop.
* `TypeCorrect` besides needs that stored rows are finitely many and that ids tell them from each other and from what goroutines
  have at hand (`IdsUnique`), also from rows that were dropped.
* `DeliveredOnce`: what is pending is a sum over cells of a sum over stored rows. The cells of stored rows are apart (`CellsApart`, from `StoredApart`), so
  each cell belongs to one row at most; a step changes one cell, or one row. `Cleared` is the strengthening: once a goroutine
  has checked the cells of a stored transaction they stay empty, because only a set-up fills cells, and never those of a stored
  transaction. So the row that is dropped has nothing left to deliver.
* `FaultlessDelivery`: nothing is owed and pending at the start, and the steps that are no faults keep the difference. What cells hold is
  a sum of amounts (`TotalNat`), hence no target gets more than was commited for it.
* `ImplementsDelivery`: one lemma per kind of step. `CommitPlaces` (the new id is that of no stored row, what the
  cells hold is the request), `MoveHandsOver` (by `CellsApart` the cell is of no other order, and by `IdsUnique` orders are as
  many as rows), `DropCloses` (by `Cleared` nothing is left of it), and `OpenSame` for all steps that change no cell of a stored row, set-ups
  among them.

**The store.**

* `CacheExact`: `IInv` adds that whoever works has the lock and visits only slots of stacks that the store knows (`Working`),
  that nothing is remembered of unknown chests (`UnknownClear`), and the types of chests, stacks and of what a sync has still
  to add (`Listings`). `UnknownClear` is what makes an addition exact for items that the listing does not mention. One or several
  syncs make no difference: the second addition of a chest is exact or sets the fault.
* `CountsAgree`: `Counts` says that the statistics are at least the sums of the stacks, and equal to them as long as no two syncs
  overlap (`StatsCover`), that a slot in use is that of one item (`OneItem`), and that the free slots of a chest are those not in use
  (`FreeCount`). "At least" is what the types need with overlapping syncs: a statistic never gets negative.

**JSON-RPC.** `IInv` says where the ids of the last `Modulus` calls are (`IdsRotate`), hence that calls with one id are `Modulus`
calls apart (`IdsApart`); that a channel is registered under the id of its call, the last one with it (`Registered`); that an answer which is anywhere in the
pool goes to the call it is for, or to one `Modulus` calls later, and is there once as a first and once as a second answer (`AnswersOK`, `AnswersDistinct`); and that a call
which has ended and is still registered has had an answer (`EndedOK`). The last one is what makes a goroutine that is lost to a late first answer impossible.

**Life cycles.** `LifeInv` says for each connection, unless one of the four races has happened, how far its registration, its worker and
its removal are, seen together (`InStep`, `WorkerInStep`): a worker that runs is its role's or is being
stopped by the removal of its connection; one that was stopped has somebody who waits for its end. `Owned` holds
also after a race: a role's worker is that of its last login.

**Worker administration.**

* `StopsAreReceived`: `IInv` is the types, "a started handler has a goroutine that runs it" (`StartedRuns`) and "a handler that is
  still to be started is in use by the one request that made it" (`StartsFresh`). Handlers are a finite set, of which an unused one is taken.
* `BindingsAgree`: one lemma per transaction on the two tables; every other step leaves them alone.
* `RunnersAgree`: `RunnersMatch` speaks of the time between requests only, so `RInv` says what holds during them: what does not match for a
  key is still expected from a request under way (`Expected`, `Coming`), and what each request is about to do follows from the
  row it has written (`Follows`), as long as none of the six faults has happened.

**Worker's page.**

* `SearchShown`: `SearchInv` says that the handler is still to run, or no key has followed the last change of the input, or the newest search is on its way, not overtaken and for
  what is in the input (`NewestPending`), or all that are on their way are overtaken and the property holds already
  (`NewestOver`). The answer of the newest search turns `NewestPending` into `NewestOver`; no other answer does anything to either.
* `SavedAsEntered`: "no two elements share an index" is not inductive, since a new element must not get an index that is in use.
  `FormInv` says that the indices of the elements, and of what was posted, ascend, and that the counter is above
  all of them (`Numbered`), which is why it may only start again from 1 with a new page. So the server's parsing is a permutation of the
  rows (`ParsedIs`), and no value is lost or doubled (`SameCopies`). Exports come sorted as strings; with as many digits
  that is the order of the numbers (`BeforeIsLess`), and a permutation that keeps the order is none (`AscendingIsIdentity`).

**Sums.** `SumsProofs` proves the facts about `SumTo` (uniqueness of the running sum by
least counterexample, sum of zeros, of one term, of a sum, after an update of one
term) and about `SumOver` (a sum over a finite set with one element more, after an update, of terms at most others). They are
proved, not assumed, for every length and every finite set.

**Only model-checked.** The editor's page: `_onModuleComplete` calls itself through the
modules that wait, and the model has it as a RECURSIVE operator, which excludes theorems. The page has no parameters and the run
no bounds, so that TLC sees every behaviour of it. Liveness (`EveryCraftDone`, `TransfersEnd`, `LockFreed`, `PoolLives`,
`RemovalsEnd`, `RequiresAnswered`): fairness and ENABLED are beyond the prover.

## 5. Not modelled, and why

Formats, pages, logging, configuration and imports have no behaviour worth a
model. The names and amounts of items are opaque. Query limits (`LIMIT 50`) are
above the bounds. `CleanupItems` deletes rows that hold and require nothing, which the tables do not tell from
absent rows. Items sent to a player by a manual commit are not followed. Then:

* the planner's choice of recipes (`planner.go`) is a computation over data; the tables take any result it may have (`PlanShapes`);
* the sweep of `state_updater.go`: the ledger lets every plan be counted and submitted at any time, which includes what the
  sweep does; what it fails to do after an error is a hazard without a property;
* the processing worker's loop and its machines: only its transactions are in the ledger;
* the fluid store and the cold storage; the importer, exporter and fluid importer, which have no state;
* the poller of the websocket library; one of its goroutines runs a removal when a connection hangs up (hazard);
* the player manager, the other Lua scripts and pages.

## 6. What could follow

1. The processing worker, composed with `CraftLedger` and with what its machine holds.
2. The sweep of the state updater with its early returns; every plan that can go on does go on.
3. The fluid store, whose export loops for ever when a tank gives nothing.
