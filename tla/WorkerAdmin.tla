---------------------------- MODULE WorkerAdmin ----------------------------
(***************************************************************************)
(* Worker administration (internal/services/worker/worker_manager.go,      *)
(* worker_handler_manager.go, worker_handler.go, internal/dao/workers.go,  *)
(* recipe_types.go).  HTTP requests create, update and delete workers.     *)
(* The table has one row per worker; a processing worker is bound to its   *)
(* recipe type in recipe_types.  A handler runs each enabled worker in a   *)
(* goroutine, every 5 s.  A request changes the table in one transaction   *)
(* (a deletion reads in one and writes in another) and the handlers under  *)
(* the lock of the handler manager, but nothing covers both.               *)
(*                                                                         *)
(* isStarted is read and written by two goroutines without a lock; it is   *)
(* one word that no other variable depends on, so each outcome is that of  *)
(* a read before or after the write.                                       *)
(***************************************************************************)
EXTENDS FiniteSetsExt, Integers

CONSTANTS
  Keys,      \* worker keys
  Configs,   \* configurations of workers
  CraftType, \* config -> its recipe type, or NoType
  Names,     \* recipe types
  NoType,
  Unbound,   \* worker_id of a recipe type without worker: ''
  NoRow,
  Requests,  \* goroutines that handle requests
  Nobody,    \* the lock is free
  Rows,      \* what the forms say of a worker: [config, enabled]
  Handlers,  \* bound: handlers that are in use at a time
  NoHandler,
  AfterFault,\* bound: FALSE if no request comes after a fault, until a restart
  MaxRows    \* bound on rows of one recipe type

ASSUME AdminAssumption ==
  /\ CraftType \in [Configs -> Names \union {NoType}]
  /\ NoType \notin Names /\ Unbound \notin Keys /\ Nobody \notin Requests
  /\ Rows \subseteq [config : Configs, enabled : BOOLEAN]
  /\ Rows # {} /\ NoRow \notin Rows
  /\ NoHandler \notin Handlers /\ IsFiniteSet(Handlers) /\ IsFiniteSet(Requests)
  /\ MaxRows \in Nat /\ AfterFault \in BOOLEAN

VARIABLES
  types,    \* recipe_types: name -> worker_id -> number of rows
  table,    \* worker: key -> row or NoRow
  handler,  \* workerHanlders: key -> handler or NoHandler
  runner,   \* handler -> [config, started, at]: its goroutine and what it runs
  mu,       \* who has the handler manager's lock
  req,      \* request -> where it is: [at, op, key, to, row, h]
  parted    \* history: a named fault may have parted runners from the table

tables == <<types, table>>
handlers == <<handler, runner, mu>>
vars == <<tables, handlers, req, parted>>

Idle == [at |-> "idle"]
Unused == [config |-> CHOOSE c \in Configs : TRUE, started |-> FALSE, at |-> "new"]
Started(c) == [config |-> c, started |-> TRUE, at |-> "top"]

Running(h) == runner[h].at \in {"top", "run", "wait", "done"}
InUse(h) ==
  \/ Running(h) \/ \E k \in Keys : handler[k] = h
  \/ \E p \in Requests : req[p].at = "start" /\ req[p].h = h
Free == {h \in Handlers : ~InUse(h)}

Init ==
  /\ types = [n \in Names |-> [k \in Keys \union {Unbound} |-> 0]]
  /\ table = [k \in Keys |-> NoRow]
  /\ handler = [k \in Keys |-> NoHandler]
  /\ runner = [h \in Handlers |-> Unused]
  /\ mu = Nobody
  /\ req = [p \in Requests |-> Idle]
  /\ parted = FALSE

Become(p, r) == req' = [req EXCEPT ![p] = r]
GoTo(p, label) == req' = [req EXCEPT ![p].at = label]

\* Bounds: a request comes only while each one can have its handler.
Room ==
  /\ parted => AfterFault
  /\ Cardinality({p \in Requests : req[p] # Idle}) < Cardinality(Free)

\* The handler of a request takes it up.
Begin(p, op, at, key, to, row) ==
  /\ req[p] = Idle /\ Room
  /\ Become(p, [at |-> at, op |-> op, key |-> key, to |-> to, row |-> row,
                h |-> NoHandler])

-----------------------------------------------------------------------------
\* Transactions.

CraftOf(row) == IF row = NoRow THEN NoType ELSE CraftType[row.config]

\* UnSetWorkerForRecipeType: the type's rows with this worker become unbound;
\* it succeeds if there was one.
CanUnset(ts, n, k) == n # NoType => ts[n][k] = 1
Unset(ts, n, k) ==
  IF n = NoType THEN ts
  ELSE [ts EXCEPT ![n][k] = 0, ![n][Unbound] = @ + 1]

\* SetWorkerForRecipeType: the type's unbound rows get this worker; it
\* succeeds if there was one.
CanSet(ts, n) == n # NoType => ts[n][Unbound] = 1
Set(ts, n, k) ==
  IF n = NoType THEN ts
  ELSE [ts EXCEPT ![n][Unbound] = 0, ![n][k] = @ + 1]

\* CreateWorker: one transaction.  If it fails nothing has happened.
Create(p, key, row) ==
  /\ Begin(p, "create", "add", key, key, row)
  /\ table[key] = NoRow /\ CanSet(types, CraftOf(row))
  /\ table' = [table EXCEPT ![key] = row]
  /\ types' = Set(types, CraftOf(row), key)
  /\ UNCHANGED <<handlers, parted>>

\* Mutant: the previous type stays bound.
UpdateBound(p, key, to, row) ==
  /\ Begin(p, "update", "add", key, to, row)
  /\ table[key] # NoRow
  /\ to = key \/ table[to] = NoRow
  /\ CanSet(types, CraftOf(row))
  /\ table' = [table EXCEPT ![key] = NoRow, ![to] = row]
  /\ types' = Set(types, CraftOf(row), to)
  /\ parted' = (parted \/ to # key)
  /\ UNCHANGED handlers

\* UpdateWorker: one transaction.  The form may have another key: then the
\* handler of the old key goes on (first fault).
Update(p, key, to, row) ==
  LET freed == Unset(types, CraftOf(table[key]), key) IN
  /\ Begin(p, "update", "add", key, to, row)
  /\ table[key] # NoRow /\ CanUnset(types, CraftOf(table[key]), key)
  /\ to = key \/ table[to] = NoRow
  /\ CanSet(freed, CraftOf(row))
  /\ table' = [table EXCEPT ![key] = NoRow, ![to] = row]
  /\ types' = Set(freed, CraftOf(row), to)
  /\ parted' = (parted \/ to # key)
  /\ UNCHANGED handlers

\* DeleteWorker begins with the handler.
Remove(p, key) ==
  /\ Begin(p, "delete", "remove", key, key, CHOOSE row \in Rows : TRUE)
  /\ UNCHANGED <<tables, handlers, parted>>

\* It reads the row in a transaction of its own
Read(p) ==
  /\ req[p].at = "read"
  /\ table[req[p].key] # NoRow
  /\ req' = [req EXCEPT ![p].at = "delete", ![p].row = table[req[p].key]]
  /\ UNCHANGED <<tables, handlers, parted>>

\* ... and deletes what has the key by then.  A handler that was added since
\* the removal goes on (second fault).
Delete(p) ==
  LET r == req[p] IN
  /\ r.at = "delete"
  /\ CanUnset(types, CraftOf(r.row), r.key)
  /\ types' = Unset(types, CraftOf(r.row), r.key)
  /\ table' = [table EXCEPT ![r.key] = NoRow]
  /\ parted' = (parted \/ handler[r.key] # NoHandler)
  /\ Become(p, Idle)
  /\ UNCHANGED handlers

\* It fails, after the handler was removed (third fault).
DeleteFails(p) ==
  /\ req[p].at \in {"read", "delete"}
  /\ parted' = (parted \/ table[req[p].key] # NoRow)
  /\ Become(p, Idle)
  /\ UNCHANGED <<tables, handlers>>

InsertType(n) ==
  /\ MapThenSumSet(LAMBDA k : types[n][k], Keys \union {Unbound}) < MaxRows
  /\ types' = [types EXCEPT ![n][Unbound] = @ + 1]
  /\ UNCHANGED <<table, handlers, req, parted>>

\* DeleteRecipeType asks whether recipes use the type, not workers.
DeleteType(n) ==
  /\ types' = [types EXCEPT ![n] = [k \in Keys \union {Unbound} |-> 0]]
  /\ UNCHANGED <<table, handlers, req, parted>>

-----------------------------------------------------------------------------
\* The handler manager.

\* What Add and Remove do under the lock once the old handler is stopped.
Replace(p, r) ==
  IF req[p].op = "delete"
  THEN /\ handler' = [handler EXCEPT ![req[p].key] = NoHandler]
       /\ runner' = r
       /\ GoTo(p, "read")
  ELSE \E h \in Free :
         /\ handler' = [handler EXCEPT ![req[p].to] = h]
         /\ runner' = r
         /\ req' = [req EXCEPT ![p].at = "start", ![p].h = h]

KeyOf(p) == IF req[p].op = "delete" THEN req[p].key ELSE req[p].to

\* Mutant: the handler is replaced without being stopped.
EnterUnstopped(p) ==
  /\ req[p].at \in {"add", "remove"} /\ mu = Nobody
  /\ parted' = (parted \/ (req[p].at = "add" /\ table[req[p].to] # req[p].row))
  /\ Replace(p, runner)
  /\ UNCHANGED <<mu, tables>>

\* Add or Remove takes the lock.  The table may have changed since the
\* request's transaction (fourth fault).  A handler that is started is told to
\* stop, which ends when its goroutine is between two runs.
Enter(p) ==
  LET old == handler[KeyOf(p)] IN
  /\ req[p].at \in {"add", "remove"} /\ mu = Nobody
  /\ parted' = (parted \/ (req[p].at = "add" /\ table[req[p].to] # req[p].row))
  /\ IF old # NoHandler /\ runner[old].started
     THEN /\ mu' = p
          /\ runner' = [runner EXCEPT ![old].started = FALSE]
          /\ GoTo(p, "stopping")
          /\ UNCHANGED handler
     ELSE Replace(p, runner) /\ UNCHANGED mu
  /\ UNCHANGED tables

\* Mutant: the lock is kept.
StoppedLocked(p) ==
  LET old == handler[KeyOf(p)] IN
  /\ req[p].at = "stopping" /\ runner[old].at \in {"wait", "done"}
  /\ Replace(p, [runner EXCEPT ![old] = Unused])
  /\ UNCHANGED <<tables, mu, parted>>

\* done <- true is received, and the goroutine ends.
Stopped(p) ==
  LET old == handler[KeyOf(p)] IN
  /\ req[p].at = "stopping" /\ runner[old].at \in {"wait", "done"}
  /\ Replace(p, [runner EXCEPT ![old] = Unused])
  /\ mu' = Nobody
  /\ UNCHANGED <<tables, parted>>

\* Start, outside the lock: the handler may have been replaced since (fifth
\* fault).  CreateWorker also starts a worker that is not enabled (sixth).
Start(p) ==
  LET r == req[p] IN
  /\ r.at = "start"
  /\ IF r.op = "create" \/ r.row.enabled
     THEN /\ runner' = [runner EXCEPT ![r.h] = Started(r.row.config)]
          /\ parted' = (parted \/ handler[r.to] # r.h \/ ~r.row.enabled)
     ELSE UNCHANGED <<runner, parted>>
  /\ Become(p, Idle)
  /\ UNCHANGED <<tables, handler, mu>>

-----------------------------------------------------------------------------
\* The goroutine of a handler.

\* Mutant: it ends by itself when it is no longer started.
WorkReturns(h) ==
  /\ runner[h].at \in {"top", "wait"}
  /\ runner' = [runner EXCEPT ![h] = IF runner[h].started THEN [@ EXCEPT !.at = "run"]
                                     ELSE Unused]
  /\ UNCHANGED <<tables, handler, mu, req, parted>>

\* At first, and when 5 s have passed or a ping has come: it runs if it is
\* started, or else waits for the message that it is done.
Work(h) ==
  /\ runner[h].at \in {"top", "wait"}
  /\ runner' = [runner EXCEPT ![h].at = IF runner[h].started THEN "run" ELSE "done"]
  /\ UNCHANGED <<tables, handler, mu, req, parted>>

RunEnds(h) ==
  /\ runner[h].at = "run"
  /\ runner' = [runner EXCEPT ![h].at = "wait"]
  /\ UNCHANGED <<tables, handler, mu, req, parted>>

\* The server is started again: init runs the workers that are enabled.
Restart ==
  LET enabled == {k \in Keys : table[k] # NoRow /\ table[k].enabled} IN
  /\ \E f \in [enabled -> Handlers] :
       /\ \A j, k \in enabled : f[j] = f[k] => j = k
       /\ handler' = [k \in Keys |-> IF k \in enabled THEN f[k] ELSE NoHandler]
       /\ runner' = [h \in Handlers |->
                       IF \E k \in enabled : f[k] = h
                       THEN Started(table[CHOOSE k \in enabled : f[k] = h].config)
                       ELSE Unused]
  /\ mu' = Nobody
  /\ req' = [p \in Requests |-> Idle]
  /\ parted' = FALSE
  /\ UNCHANGED tables

-----------------------------------------------------------------------------
Step(p) == Enter(p) \/ Stopped(p) \/ Start(p) \/ Read(p) \/ Delete(p) \/ DeleteFails(p)

Request(p) ==
  \E key \in Keys :
    \/ Remove(p, key)
    \/ \E row \in Rows :
         \/ Create(p, key, row)
         \/ \E to \in Keys : Update(p, key, to, row)

Next ==
  \/ \E p \in Requests : Request(p) \/ Step(p)
  \/ \E h \in Handlers : Work(h) \/ RunEnds(h)
  \/ \E n \in Names : InsertType(n) \/ DeleteType(n)
  \/ Restart

Spec == Init /\ [][Next]_vars

-----------------------------------------------------------------------------
\* Properties.

ReqSet ==
  {Idle} \union
  [at : {"add", "remove", "stopping", "read", "delete", "start"},
   op : {"create", "update", "delete"}, key : Keys, to : Keys,
   row : Rows, h : Handlers \union {NoHandler}]

\* Every row, handler and request has its type; who waits for a handler to
\* stop has the lock, and nobody else has it.
TypeOK ==
  /\ types \in [Names -> [Keys \union {Unbound} -> Nat]]
  /\ table \in [Keys -> Rows \union {NoRow}]
  /\ handler \in [Keys -> Handlers \union {NoHandler}]
  /\ runner \in [Handlers -> [config : Configs, started : BOOLEAN,
                              at : {"new", "top", "run", "wait", "done"}]]
  /\ mu \in Requests \union {Nobody}
  /\ req \in [Requests -> ReqSet]
  /\ \A p \in Requests : mu = p <=> req[p].at = "stopping"
  /\ parted \in BOOLEAN

\* A recipe type has a row for a worker exactly if the worker's config names
\* the type.
Agree ==
  \A n \in Names, k \in Keys :
    types[n][k] = IF CraftOf(table[k]) = n THEN 1 ELSE 0

\* DeleteWorker unbinds what it read, not what it deletes.
DeletesAnother(p) ==
  /\ req[p].at = "delete"
  /\ CraftOf(table[req[p].key]) # CraftOf(req[p].row)
  /\ table'[req[p].key] = NoRow

\* Whatever requests overlap, bindings and configs stay in step: apart from a
\* recipe type that is deleted while a worker is bound to it, and from a worker
\* that is deleted while its recipe type is changed by an update.  Both leave a
\* type that no worker can get, or a worker that cannot be changed.
BindingsKept ==
  [][Agree => \/ Agree'
              \/ \E n \in Names : \E k \in Keys : types[n][k] > 0 /\ DeleteType(n)
              \/ \E p \in Requests : DeletesAnother(p)]_vars

\* Between requests every enabled worker runs in one goroutine, with the config
\* of its row, that the handler manager can stop, and nothing else runs.  Apart
\* from six named faults: a request that gives a worker another key, an update
\* that puts its handler in place between the steps of a deletion, a deletion
\* that fails after it has removed the handler, two requests that change the
\* row in one order and the handler in the other, a handler that is replaced
\* before it is started, and the creation of a worker that is not enabled.
RunnersMatch ==
  (~parted /\ \A p \in Requests : req[p] = Idle) =>
    /\ \A k \in Keys : (table[k] # NoRow /\ table[k].enabled) =>
         /\ handler[k] # NoHandler /\ Running(handler[k])
         /\ runner[handler[k]].config = table[k].config
    /\ \A h \in Handlers : Running(h) =>
         \E k \in Keys : handler[k] = h /\ table[k] # NoRow /\ table[k].enabled

\* Who waits in Stop, with the lock, waits for a goroutine that will receive:
\* it cannot have ended, or never have begun, though both sides look at
\* isStarted without a lock.  Otherwise no worker could be changed any more.
StopIsReceived ==
  \A p \in Requests : mu = p =>
    /\ handler[KeyOf(p)] # NoHandler
    /\ Running(handler[KeyOf(p)]) /\ ~runner[handler[KeyOf(p)]].started
=============================================================================
