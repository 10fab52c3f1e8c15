----------------------------- MODULE TransferTx -----------------------------
(***************************************************************************)
(* Transfer transactions (internal/services/storage/                       *)
(* transfer_transaction_manager.go, internal/dao/export_transaction.go).   *)
(* A processing worker first moves what it wants to export into the cells  *)
(* of a transaction chest and of transaction tanks.  Then it stores, in    *)
(* one database transaction, what is to be moved where; only then are the  *)
(* cells moved to their targets.  A stored transaction that was not        *)
(* finished is replayed: by the next transaction on the same subjects, or  *)
(* by pingTransaction, every 30 s and without the lock.                    *)
(*                                                                         *)
(* The storage is an endless source and sink, and a target takes as much   *)
(* as it likes: what does not fit stays in the cell.  The client may do    *)
(* what it is asked and its answer be lost: that is a step that succeeds   *)
(* and a failure of the call after it, so a call that fails does nothing.  *)
(***************************************************************************)
EXTENDS Sums

CONSTANTS
  Workers,   \* processing workers
  Pinger,    \* the goroutine that replays stored transactions
  Nobody,    \* the lock is free
  NSlots,    \* slots of the transaction chest, the cells 1..NSlots ...
  NTanks,    \* ... and transaction tanks, the cells after them
  Size,      \* how much a cell holds
  Uids,      \* items and fluids
  NoUid,
  Targets,   \* input inventories and tanks of machines
  Requests,  \* what workers export: cell -> [uid, amount, target]
  Full,      \* TRUE: the storage may have no room for what is dumped
  Lossy,     \* TRUE: calls to the storage client may fail
  MaxTx      \* bound on stored_tx ids

Slots == 1..NSlots
Tanks == (NSlots + 1)..(NSlots + NTanks)
Cells == Slots \union Tanks
Procs == Workers \union {Pinger}

NoRequest == <<>>

ASSUME TransferAssumption ==
  /\ NSlots \in Nat /\ NTanks \in Nat /\ Size \in [Cells -> Nat] /\ MaxTx \in Nat
  /\ Pinger \notin Workers /\ Nobody \notin Workers /\ NoUid \notin Uids
  /\ \A r \in Requests :
       /\ DOMAIN r \subseteq Cells /\ DOMAIN r # {}
       /\ \A c \in DOMAIN r : /\ r[c].uid \in Uids /\ r[c].target \in Targets
                              /\ r[c].amount \in 1..Size[c]
  /\ Full \in BOOLEAN /\ Lossy \in BOOLEAN

VARIABLES
  stored,   \* rows of stored_tx: [id, moves], with their subjects
  lastId,   \* AUTOINCREMENT: ids never come back
  cell,     \* what the cells hold: [uid, amount]
  mu,       \* who has the manager's lock
  pc,       \* where a goroutine is
  work,     \* the stored transactions it has read and not processed yet
  at,       \* the last cell it has handled in this phase
  request,  \* what a worker wants to export, until it is commited
  owed      \* history: what was commited to a target and is not delivered yet

procs == <<mu, pc, work, at, request>>
vars == <<stored, lastId, cell, procs, owed>>

Empty == [uid |-> NoUid, amount |-> 0]

Without(content, n) ==
  IF content.amount = n THEN Empty ELSE [content EXCEPT !.amount = @ - n]

\* The names that the unique index of stored_tx_subjects keeps apart: the
\* chest as one, each tank by itself.
Subjects(moves) == {IF c \in Slots THEN 0 ELSE c : c \in DOMAIN moves}

Init ==
  /\ stored = {} /\ lastId = 0
  /\ cell = [c \in Cells |-> Empty]
  /\ mu = Nobody
  /\ pc = [p \in Procs |-> "idle"]
  /\ work = [p \in Procs |-> {}]
  /\ at = [p \in Procs |-> 0]
  /\ request = [w \in Workers |-> NoRequest]
  /\ owed = [t \in Targets |-> [u \in Uids |-> 0]]

GoTo(p, label) == pc' = [pc EXCEPT ![p] = label] /\ at' = [at EXCEPT ![p] = 0]

\* Mutant: the lock is kept on an error.
StopKeepsLock(p) ==
  /\ GoTo(p, "idle")
  /\ work' = [work EXCEPT ![p] = {}]
  /\ request' = [w \in Workers |-> IF w = p THEN NoRequest ELSE request[w]]
  /\ UNCHANGED mu

\* The goroutine returns, and unlocks if it has the lock.
Stop(p) ==
  /\ GoTo(p, "idle")
  /\ work' = [work EXCEPT ![p] = {}]
  /\ request' = [w \in Workers |-> IF w = p THEN NoRequest ELSE request[w]]
  /\ mu' = IF mu = p THEN Nobody ELSE mu

-----------------------------------------------------------------------------
\* Mutant: pending transactions are not looked for.
BeginUnrestored(w, r) ==
  /\ pc[w] = "idle" /\ mu = Nobody
  /\ mu' = w
  /\ request' = [request EXCEPT ![w] = r]
  /\ GoTo(w, "dump")
  /\ UNCHANGED <<stored, lastId, cell, owed, work>>

\* CreateExportTransaction takes the lock and restores what is pending on the
\* subjects of its request.
Begin(w, r) ==
  /\ pc[w] = "idle" /\ mu = Nobody
  /\ mu' = w
  /\ request' = [request EXCEPT ![w] = r]
  /\ LET locks == {tx \in stored : Subjects(tx.moves) \intersect Subjects(r) # {}}
     IN  /\ work' = [work EXCEPT ![w] = locks]
         /\ GoTo(w, IF locks = {} THEN "dump" ELSE "items")
  /\ UNCHANGED <<stored, lastId, cell, owed>>

\* Mutant: the ping reads the transactions, and does nothing with them.
PingReadsOnly ==
  /\ pc[Pinger] = "idle" /\ stored # {}
  /\ work' = [work EXCEPT ![Pinger] = stored]
  /\ UNCHANGED <<stored, lastId, cell, mu, pc, at, request, owed>>

Ping ==
  /\ pc[Pinger] = "idle" /\ stored # {}
  /\ work' = [work EXCEPT ![Pinger] = stored]
  /\ GoTo(Pinger, "items")
  /\ UNCHANGED <<stored, lastId, cell, mu, request, owed>>

-----------------------------------------------------------------------------
\* processSTX: performTransfer of the oldest one at hand, then its deletion.

First(p) == CHOOSE tx \in work[p] : \A other \in work[p] : tx.id <= other.id

CellsOf(phase) == IF phase = "items" THEN Slots ELSE Tanks

\* The cells of its kind that it has to move.
Moved(p) == DOMAIN First(p).moves \intersect CellsOf(pc[p])

\* MoveStack moves what there is in the slot, MoveFluid only the fluid named.
Movable(move, c) ==
  IF c \in Tanks /\ cell[c].uid # move.uid THEN 0
  ELSE IF cell[c].amount < move.amount THEN cell[c].amount ELSE move.amount

Move(p, c, n) ==
  /\ pc[p] \in {"items", "fluids"}
  /\ c \in Moved(p) /\ c > at[p] /\ \A d \in Moved(p) : d > at[p] => c <= d
  /\ LET move == First(p).moves[c]
     IN  /\ n <= Movable(move, c)
         /\ cell' = [cell EXCEPT ![c] = Without(@, n)]
         /\ owed' = IF n = 0 THEN owed
                    ELSE [owed EXCEPT ![move.target][cell[c].uid] = @ - n]
  /\ at' = [at EXCEPT ![p] = c]
  /\ UNCHANGED <<stored, lastId, mu, pc, work, request>>

MoveAll(p, c) ==
  /\ pc[p] \in {"items", "fluids"} /\ c \in Moved(p)
  /\ Move(p, c, Movable(First(p).moves[c], c))

\* The whole chest must be empty then, or each tank that was used.
LeftBehind(p) == IF pc[p] = "items" THEN Slots ELSE Moved(p)

Checking(p, phase) ==
  /\ pc[p] = phase
  /\ \A c \in Moved(p) : c <= at[p]

\* Mutant: what was left behind is not looked at.
CheckNothing(p, phase) ==
  /\ Checking(p, phase)
  /\ GoTo(p, IF phase = "items" THEN "fluids" ELSE "drop")
  /\ UNCHANGED <<stored, lastId, cell, owed, mu, work, request>>

Check(p, phase) ==
  /\ Checking(p, phase)
  /\ Moved(p) # {} => \A c \in LeftBehind(p) : cell[c] = Empty
  /\ GoTo(p, IF phase = "items" THEN "fluids" ELSE "drop")
  /\ UNCHANGED <<stored, lastId, cell, owed, mu, work, request>>

CheckFails(p, phase) ==
  /\ Checking(p, phase)
  /\ Moved(p) # {} /\ \E c \in LeftBehind(p) : cell[c] # Empty
  /\ Stop(p)
  /\ UNCHANGED <<stored, lastId, cell, owed>>

\* DropTransaction waits while a worker's transaction of the database is open:
\* SQLite has one writer.
Drop(p) ==
  /\ pc[p] = "drop" /\ \A w \in Workers : pc[w] # "open"
  /\ stored' = {tx \in stored : tx.id # First(p).id}
  /\ IF work[p] = {First(p)} /\ (p = Pinger \/ request[p] = NoRequest)
     THEN Stop(p)
     ELSE /\ work' = [work EXCEPT ![p] = @ \ {First(p)}]
          /\ GoTo(p, IF work[p] = {First(p)} THEN "dump" ELSE "items")
          /\ UNCHANGED <<mu, request>>
  /\ UNCHANGED <<lastId, cell, owed>>

-----------------------------------------------------------------------------
\* setupTransaction, after the restore.

\* ImportAll of the chest if there are items in the request, ImportAllFluids
\* of every tank; how much was moved is not looked at.
Dumped(w) == {c \in Cells : cell[c] # Empty /\ c > at[w]
                            /\ (c \in Slots => DOMAIN request[w] \intersect Slots # {})}

Dump(w) ==
  /\ pc[w] = "dump" /\ Dumped(w) # {}
  /\ LET c == Min(Dumped(w))
     IN  /\ \E n \in 0..cell[c].amount :
              /\ Full \/ n = cell[c].amount
              /\ cell' = [cell EXCEPT ![c] = Without(@, n)]
         /\ at' = [at EXCEPT ![w] = c]
  /\ UNCHANGED <<stored, lastId, mu, pc, work, request, owed>>

DumpDone(w) ==
  /\ pc[w] = "dump" /\ Dumped(w) = {}
  /\ GoTo(w, "load")
  /\ UNCHANGED <<stored, lastId, cell, mu, work, request, owed>>

ToLoad(w) == {c \in DOMAIN request[w] : c > at[w]}

\* ExportStack or ExportFluid into the next cell, n of it arrive.
Export(w, c, n) ==
  LET wish == request[w][c]
  IN  /\ cell[c].uid \in {NoUid, wish.uid}
      /\ cell[c].amount + n <= Size[c]
      /\ cell' = [cell EXCEPT ![c] = IF n = 0 THEN @
                                     ELSE [uid |-> wish.uid, amount |-> @.amount + n]]

Load(w) ==
  /\ pc[w] = "load" /\ ToLoad(w) # {}
  /\ LET c == Min(ToLoad(w))
     IN  /\ Export(w, c, request[w][c].amount)
         /\ at' = [at EXCEPT ![w] = c]
  /\ UNCHANGED <<stored, lastId, mu, pc, work, request, owed>>

\* "Can't move items for stx": less than that arrives.
LoadShort(w) ==
  /\ pc[w] = "load" /\ ToLoad(w) # {}
  /\ LET c == Min(ToLoad(w))
     IN  \/ \E n \in 0..(request[w][c].amount - 1) : Export(w, c, n)
         \/ cell[c].uid \notin {NoUid, request[w][c].uid} /\ UNCHANGED cell
  /\ Stop(w)
  /\ UNCHANGED <<stored, lastId, owed>>

\* InsertTransactionUncommitted: a transaction of the database is open now.
Insert(w) ==
  /\ pc[w] = "load" /\ ToLoad(w) = {}
  /\ GoTo(w, "open")
  /\ UNCHANGED <<stored, lastId, cell, mu, work, request, owed>>

\* The database transaction commits, what is stored now is processed.
Commit(w) ==
  /\ pc[w] = "open" /\ lastId < MaxTx
  /\ LET tx == [id |-> lastId + 1, moves |-> request[w]]
     IN  /\ stored' = stored \union {tx}
         /\ work' = [work EXCEPT ![w] = {tx}]
  /\ lastId' = lastId + 1
  /\ owed' = [t \in Targets |-> [u \in Uids |-> owed[t][u] +
       SumOver([c \in DOMAIN request[w] |-> request[w][c].amount],
         {c \in DOMAIN request[w] : request[w][c].target = t /\ request[w][c].uid = u})]]
  /\ request' = [request EXCEPT ![w] = NoRequest]
  /\ GoTo(w, "items")
  /\ UNCHANGED <<cell, mu>>

\* Rollback, or a commit that the database refuses.
Rollback(w) ==
  /\ pc[w] = "open"
  /\ Stop(w)
  /\ UNCHANGED <<stored, lastId, cell, owed>>

-----------------------------------------------------------------------------
\* A call to the storage client fails.
CallFails(p) ==
  /\ Lossy
  /\ \/ pc[p] \in {"items", "fluids"} /\ Moved(p) # {}
     \/ pc[p] \in {"dump", "load"}
  /\ Stop(p)
  /\ UNCHANGED <<stored, lastId, cell, owed>>

\* The server stops and starts again.  An open transaction of the database
\* is rolled back.
Crash ==
  /\ \E p \in Procs : pc[p] # "idle"
  /\ mu' = Nobody
  /\ pc' = [p \in Procs |-> "idle"]
  /\ work' = [p \in Procs |-> {}]
  /\ at' = [p \in Procs |-> 0]
  /\ request' = [w \in Workers |-> NoRequest]
  /\ UNCHANGED <<stored, lastId, cell, owed>>

\* What a goroutine does without an answer of the client.
OwnStep(p) == Drop(p) \/ \E phase \in {"items", "fluids"} : CheckFails(p, phase)

SetUp(w) == Dump(w) \/ DumpDone(w) \/ Load(w) \/ LoadShort(w) \/ Insert(w)

Next ==
  \/ Ping
  \/ \E p \in Procs :
       \/ \E c \in Cells : \E n \in 0..Size[c] : Move(p, c, n)
       \/ \E phase \in {"items", "fluids"} : Check(p, phase)
       \/ OwnStep(p) \/ CallFails(p)
  \/ \E w \in Workers :
       (\E r \in Requests : Begin(w, r)) \/ SetUp(w) \/ Commit(w) \/ Rollback(w)
  \/ Crash

Spec == Init /\ [][Next]_vars

\* Goroutines run on, the ping comes again, SQLite lets a waiting writer in
\* between others; a client whose call is repeated for ever answers in time
\* now and then, and a target that is offered the same for ever makes room
\* for it now and then.
Fairness ==
  /\ WF_vars(Ping)
  /\ \A p \in Procs :
       /\ SF_vars(OwnStep(p))
       /\ \A c \in Cells : SF_vars(MoveAll(p, c))
       /\ \A phase \in {"items", "fluids"} : SF_vars(Check(p, phase))
  /\ \A w \in Workers : WF_vars(SetUp(w)) /\ WF_vars(Commit(w) \/ Rollback(w))

FairSpec == Spec /\ Fairness

-----------------------------------------------------------------------------
\* Type correctness: phases, cells within their size, and who holds what.
TypeOK ==
  /\ \A tx \in stored : tx.id \in 1..lastId /\ tx.moves \in Requests
  /\ lastId \in 0..MaxTx
  /\ \A c \in Cells : cell[c] \in [uid : Uids, amount : 1..Size[c]] \union {Empty}
  /\ mu \in Workers \union {Nobody}
  /\ pc \in [Procs -> {"idle", "items", "fluids", "drop", "dump", "load", "open"}]
  /\ pc[Pinger] \notin {"dump", "load", "open"}
  /\ \A p \in Procs : work[p] # {} <=> pc[p] \in {"items", "fluids", "drop"}
  /\ \A p \in Procs : \A tx \in work[p] : tx.id \in 1..lastId /\ tx.moves \in Requests
  /\ at \in [Procs -> Cells \union {0}]
  /\ \A w \in Workers :
       /\ pc[w] # "idle" <=> mu = w
       /\ request[w] \in Requests \union {NoRequest}
       /\ pc[w] \in {"dump", "load", "open"} => request[w] # NoRequest
  /\ owed \in [Targets -> [Uids -> Int]]

\* Transactions are kept apart by their subjects: the unique index, whose
\* error would leave the database transaction open, is never hit, although
\* the ping drops transactions at any time and goroutines die at any point.
SubjectsApart ==
  /\ \A tx, other \in stored :
       tx # other => Subjects(tx.moves) \intersect Subjects(other.moves) = {}
  /\ \A w \in Workers : pc[w] \in {"dump", "load", "open"} =>
       \A tx \in stored : Subjects(tx.moves) \intersect Subjects(request[w]) = {}

\* What a transaction still has in its cells for a target.
InCells(tx, t, u) ==
  SumOver([c \in Cells |-> cell[c].amount],
    {c \in DOMAIN tx.moves : tx.moves[c].target = t /\ cell[c].uid = u})

\* What stored transactions still have in their cells for a target.
Pending(t, u) == SumOver([tx \in stored |-> InCells(tx, t, u)], stored)

\* The steps after which a target may get too much or too little: a transfer
\* for a transaction that somebody else has finished in the meantime (the
\* ping takes no lock), the dump of a tank that a pending transaction has
\* filled (only the subjects of the own request are restored), and the commit
\* of cells that hold something else than the request (how much a dump has
\* moved is not looked at).
StaleMove ==
  \E p \in Procs : \E c \in Cells : \E n \in 1..Size[c] :
    /\ work[p] # {} /\ First(p) \notin stored
    /\ Move(p, c, n)

DumpPending ==
  \E w \in Workers :
    /\ Dump(w)
    /\ \E tx \in stored : Min(Dumped(w)) \in DOMAIN tx.moves

LeftoverCommit ==
  \E w \in Workers :
    /\ \E c \in DOMAIN request[w] :
         cell[c] # [uid |-> request[w][c].uid, amount |-> request[w][c].amount]
    /\ Commit(w)

TransferFault == StaleMove \/ DumpPending \/ LeftoverCommit

\* All or nothing, once: apart from those faults a target is owed exactly
\* what stored transactions still have in their cells for it.  Nothing that
\* is not commited is delivered, a transaction is dropped only when all of it
\* was delivered, and replays, short moves and restarts deliver nothing twice.
OwedIsPending ==
  [][~TransferFault => \A t \in Targets, u \in Uids :
       (owed[t][u] - Pending(t, u))' = owed[t][u] - Pending(t, u)]_vars

\* A stored transaction is an order, of which is left what its cells hold.
OrderOf(tx) ==
  [id |-> tx.id, order |-> tx.moves, left |-> [c \in DOMAIN tx.moves |-> cell[c]]]

D == INSTANCE Delivery WITH
  Orders <- Requests, placed <- lastId, open <- {OrderOf(tx) : tx \in stored}

\* Apart from those faults, whatever workers and the ping do, fail to do or do
\* again is a delivery.
Delivers == D!Init /\ [][D!Next \/ TransferFault]_(D!vars)

\* Every stored transaction is finished in the end, once the server is no
\* longer restarted: also those whose worker has died or given up.
TransfersEnd ==
  <>[][~Crash]_vars =>
    \A id \in 1..MaxTx : (\E tx \in stored : tx.id = id) ~> ~(\E tx \in stored : tx.id = id)

\* Nobody waits for the manager's lock for ever.
LockFreed == <>[][~Crash]_vars => (mu # Nobody ~> mu = Nobody)
=============================================================================
