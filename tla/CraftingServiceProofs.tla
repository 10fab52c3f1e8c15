----------------------- MODULE CraftingServiceProofs -----------------------
(***************************************************************************)
(* Proofs about the crafting service, for any number of workers, crafts,   *)
(* recipes and plans, with failing calls and restarts.                     *)
(*                                                                         *)
(* With handlers at work, too, the service uses the ledger as its callers  *)
(* do (UsesTheLedger) and keeps its types (ServiceTypes), and a craft is   *)
(* in the hands of one worker at most until a handler ends it (OneWorker). *)
(*                                                                         *)
(* Workers among themselves (Handlers = {}; a manual commit or cancel      *)
(* changes a craft, or frees its rowid, while a worker still holds it):    *)
(* only what is commited is completed (WorkersCompleteCommited). A list of *)
(* crafts may be old, and the rowid of one that is gone may be that of new *)
(* one: if the list's recipe is the row's after all, because all crafts    *)
(* are of one recipe or one worker makes them all, calls are for what is   *)
(* commited (CallsFindCommits) and the reserves balance (ReservesAgree).   *)
(* One worker with crafts of one batch accounts for each batch once        *)
(* (BatchesCountOnce).                                                     *)
(***************************************************************************)
EXTENDS CraftingService, SumsProofs

Free == {"idle", "types", "select", "next"}
Busy == {"dump", "load", "commit", "call", "restore", "complete"}

IsRow(c, row) ==
  row = [id |-> c, plan_id |-> row.plan_id, recipe_id |-> row.recipe_id,
         worker_id |-> row.worker_id, status |-> row.status,
         repeats |-> row.repeats, commit_repeats |-> row.commit_repeats]

IsCopy(cp) ==
  /\ cp.id \in CraftIds
  /\ cp = [id |-> cp.id, recipe_id |-> cp.recipe_id,
           repeats |-> cp.repeats, commit_repeats |-> cp.commit_repeats]

\* The row of the craft table with the id of cp is assigned to w.
Has(w, cp) == craft[cp.id] # NoCraft /\ craft[cp.id].worker_id = w

\* A live row has the id it is stored under.
RowsShaped ==
  /\ craft = [c \in CraftIds |-> craft[c]]
  /\ \A c \in CraftIds : craft[c] # NoCraft => IsRow(c, craft[c])

AgentsShaped ==
  /\ pc = [a \in Agents |-> pc[a]]
  /\ cur = [a \in Agents |-> cur[a]]
  /\ todo = [w \in Workers |-> todo[w]]

\* What a worker has at hand, by where it is.
AtHand ==
  \A w \in Workers :
    /\ pc[w] \in Free \union Busy \union {"done"}
    /\ pc[w] \in Free => cur[w] = NoCopy
    /\ pc[w] \in Busy => IsCopy(cur[w])
    /\ \A cp \in todo[w] : IsCopy(cp)

\* The craft that a worker works on is in the table, under its name.
Owned == \A w \in Workers : pc[w] \in Busy => Has(w, cur[w])

IInv == RowsShaped /\ AgentsShaped /\ AtHand /\ Owned

-----------------------------------------------------------------------------
\* A row keeps its id and its worker through a commit and a completion.
LEMMA RowsKept ==
  ASSUME NEW c \in CraftIds, NEW row, IsRow(c, row), NEW w, NEW n
  PROVE  /\ row # NoCraft
         /\ LET new == [row EXCEPT !.worker_id = w]
            IN  IsRow(c, new) /\ new # NoCraft /\ new.worker_id = w
         /\ IsRow(c, Commited(row, n)) /\ Commited(row, n) # NoCraft
         /\ Commited(row, n).worker_id = row.worker_id
         /\ \/ Completed(row) = NoCraft
            \/ IsRow(c, Completed(row)) /\ Completed(row).worker_id = row.worker_id
<1>1. c # 0
  BY TablesAssumption DEF CraftIds
<1>2. \A any : IsRow(c, any) => any.id = c
  BY DEF IsRow
<1>3. \A any : IsRow(c, any) => any # NoCraft
  BY <1>1, <1>2 DEF NoCraft
<1> DEFINE lit(v, s, m, k) == [id |-> c, plan_id |-> row.plan_id, recipe_id |-> row.recipe_id,
                              worker_id |-> v, status |-> s, repeats |-> m, commit_repeats |-> k]
<1>4. \A v, s, m, k : /\ IsRow(c, lit(v, s, m, k)) /\ lit(v, s, m, k).worker_id = v
                     /\ lit(v, s, m, k).repeats = m /\ lit(v, s, m, k).commit_repeats = k
  BY DEF IsRow
<1>5. row = lit(row.worker_id, row.status, row.repeats, row.commit_repeats)
  BY DEF IsRow
<1>6. [row EXCEPT !.worker_id = w] = lit(w, row.status, row.repeats, row.commit_repeats)
  BY <1>5
<1>7. Commited(row, n) = lit(row.worker_id, "COMMITED", row.repeats, n)
  <2> DEFINE r1 == [row EXCEPT !.status = "COMMITED"]
             r2 == [r1 EXCEPT !.commit_repeats = n]
  <2>1. r1 = lit(row.worker_id, "COMMITED", row.repeats, row.commit_repeats)
    BY <1>5
  <2> HIDE DEF r1
  <2>2. r2 = lit(row.worker_id, "COMMITED", row.repeats, n)
    BY <2>1
  <2>. QED BY <2>2 DEF Commited, r1
<1>8. \/ Completed(row) = NoCraft
      \/ Completed(row) = lit(row.worker_id, "PENDING", row.repeats - row.commit_repeats, 0)
  <2> DEFINE left == row.repeats - row.commit_repeats
             r1 == [row EXCEPT !.repeats = left]
             r2 == [r1 EXCEPT !.commit_repeats = 0]
             r3 == [r2 EXCEPT !.status = "PENDING"]
  <2>1. Completed(row) = NoCraft \/ Completed(row) = r3
    BY DEF Completed
  <2> HIDE DEF left
  <2>2. r1 = lit(row.worker_id, row.status, left, row.commit_repeats)
    BY <1>5
  <2> HIDE DEF r1
  <2>3. r2 = lit(row.worker_id, row.status, left, 0)
    BY <2>2
  <2> HIDE DEF r2
  <2>4. r3 = lit(row.worker_id, "PENDING", left, 0)
    BY <2>3
  <2>. QED BY <2>1, <2>4 DEF left
<1> HIDE DEF lit
<1>. QED BY <1>3, <1>4, <1>6, <1>7, <1>8

\* Of rows or copies, one has the lowest id.
LEMMA LowestIsOne ==
  ASSUME NEW rows, rows # {}, \A row \in rows : row.id \in CraftIds
  PROVE  Lowest(rows) \in rows
<1> DEFINE ids == {row.id : row \in rows}
<1>1. ids \subseteq Nat /\ ids # {}
  BY TablesAssumption DEF CraftIds
<1>2. PICK m \in ids : \A k \in ids : m <= k
  <2> HIDE DEF ids
  <2>. QED BY <1>1, LeastElement
<1>3. \E row \in rows : \A other \in rows : row.id <= other.id
  BY <1>2
<1>. QED BY <1>3 DEF Lowest

\* The copy of a row is a copy.
LEMMA CopyOfRow ==
  ASSUME NEW c \in CraftIds, NEW row, IsRow(c, row)
  PROVE  IsCopy(CopyOf(row)) /\ CopyOf(row).id = c
<1>1. row.id = c
  BY DEF IsRow
<1>. QED BY <1>1 DEF IsCopy, CopyOf

\* The rows of a query have their ids, and are found under them.
LEMMA RowsFound ==
  ASSUME RowsShaped, NEW row \in CraftRows
  PROVE  row.id \in CraftIds /\ row = craft[row.id] /\ row # NoCraft /\ IsRow(row.id, row)
<1>1. PICK c \in CraftIds : craft[c] # NoCraft /\ row = craft[c]
  BY DEF CraftRows
<1>2. IsRow(c, row)
  BY <1>1 DEF RowsShaped
<1>3. row.id = c
  BY <1>2 DEF IsRow
<1>. QED BY <1>1, <1>2, <1>3

-----------------------------------------------------------------------------
\* Worker w goes to l, with cp at hand and with a list of copies.
Moves(w, l, cp, list) ==
  /\ pc' = [pc EXCEPT ![w] = l]
  /\ cur' = [cur EXCEPT ![w] = cp]
  /\ todo' = [todo EXCEPT ![w] = list]

Copies(list) == \A cp \in list : IsCopy(cp)

\* What the worker has at hand there is right, after the step.
Right(w, l, cp) ==
  /\ l \in Free \union Busy \union {"done"}
  /\ l \in Free => cp = NoCopy
  /\ l \in Busy => IsCopy(cp) /\ craft'[cp.id] # NoCraft /\ craft'[cp.id].worker_id = w

\* All workers but w still have the crafts they work on.
OthersKeep(w) ==
  \A v \in Workers \ {w} :
    pc[v] \in Busy => craft'[cur[v].id] # NoCraft /\ craft'[cur[v].id].worker_id = v

\* Every worker's step keeps the invariant, if it moves to a label where what
\* it has at hand is right and takes no craft from another worker.
LEMMA WorkerStep ==
  ASSUME IInv, NEW w \in Workers, NEW l, NEW cp, NEW list,
         Moves(w, l, cp, list), Copies(list), Right(w, l, cp), RowsShaped', OthersKeep(w)
  PROVE  IInv'
<1>1. \A v \in Workers : /\ pc'[v] = IF v = w THEN l ELSE pc[v]
                         /\ cur'[v] = IF v = w THEN cp ELSE cur[v]
                         /\ todo'[v] = IF v = w THEN list ELSE todo[v]
  BY DEF IInv, AgentsShaped, Moves, Agents
<1>2. AgentsShaped'
  BY DEF IInv, AgentsShaped, Moves
<1>3. AtHand'
  BY <1>1 DEF IInv, AtHand, IsCopy, Copies, Right
<1>4. ASSUME NEW v \in Workers, pc'[v] \in Busy  PROVE  Has(v, cur[v])'
  <2>1. CASE v = w
    BY <2>1, <1>1, <1>4 DEF Has, Right
  <2>2. CASE v # w
    BY <2>2, <1>1, <1>4 DEF Has, OthersKeep
  <2>. QED BY <2>1, <2>2
<1>5. Owned'
  BY <1>4 DEF Owned
<1>. QED BY <1>2, <1>3, <1>5 DEF IInv

\* The rows after a step that changes one of them, that of a craft which the
\* worker has or takes.
LEMMA RowUpdate ==
  ASSUME IInv, NEW w \in Workers, NEW c \in CraftIds, NEW new,
         craft' = [craft EXCEPT ![c] = new], new = NoCraft \/ IsRow(c, new),
         craft[c] # NoCraft, craft[c].worker_id \in {w, NoWorker}
  PROVE  /\ RowsShaped'
         /\ craft'[c] = new
         /\ OthersKeep(w)
<1>1. \A d \in CraftIds : craft'[d] = IF d = c THEN new ELSE craft[d]
  BY DEF IInv, RowsShaped
<1>2. RowsShaped'
  BY <1>1 DEF IInv, RowsShaped
<1>3. ASSUME NEW v \in Workers \ {w}, pc[v] \in Busy
      PROVE  craft'[cur[v].id] # NoCraft /\ craft'[cur[v].id].worker_id = v
  <2>1. cur[v].id \in CraftIds /\ Has(v, cur[v])
    BY <1>3 DEF IInv, AtHand, Owned, IsCopy
  <2>2. cur[v].id # c
    BY <2>1, TablesAssumption DEF Has
  <2>. QED BY <2>1, <2>2, <1>1 DEF Has
<1>. QED BY <1>1, <1>2, <1>3 DEF OthersKeep

\* A step that does not touch the craft table takes nobody's craft.
LEMMA RowsStay ==
  ASSUME IInv, craft' = craft, NEW w \in Workers
  PROVE  /\ RowsShaped' /\ OthersKeep(w)
         /\ \A cp : Has(w, cp) => craft'[cp.id] # NoCraft /\ craft'[cp.id].worker_id = w
BY DEF IInv, RowsShaped, Owned, Has, OthersKeep

\* A worker that gives up lets go of everything; its craft stays in the table.
LEMMA GiveUpInv ==
  ASSUME IInv, NEW w \in Workers, GiveUp(w), craft' = craft
  PROVE  IInv'
<1>1. Moves(w, "idle", NoCopy, {})
  BY DEF GiveUp, GoTo, Moves
<1>2. Right(w, "idle", NoCopy) /\ Copies({})
  BY DEF Right, Copies, Free, Busy
<1>. QED BY <1>1, <1>2, RowsStay, WorkerStep

\* The labels are of three kinds.
LEMMA Kinds == Free \intersect Busy = {} /\ "done" \notin Free \union Busy
BY DEF Free, Busy

\* A worker that goes on with the same craft or without one.
LEMMA MoveInv ==
  ASSUME IInv, NEW w \in Workers, NEW l, pc' = [pc EXCEPT ![w] = l],
         UNCHANGED <<cur, todo, craft>>,
         \/ pc[w] \in Free /\ l \in Free
         \/ pc[w] \in Busy /\ l \in Busy
  PROVE  IInv'
<1>1. Moves(w, l, cur[w], todo[w])
  BY DEF IInv, AgentsShaped, Moves
<1>2. Copies(todo[w])
  BY DEF IInv, AtHand, Copies
<1>3. Right(w, l, cur[w])
  BY Kinds, RowsStay DEF IInv, AtHand, Owned, Right
<1>. QED BY <1>1, <1>2, <1>3, RowsStay, WorkerStep

\* FindCurrent hands a worker a craft under its own name.
LEMMA FindCurrentInv ==
  ASSUME IInv, NEW w \in Workers, FindCurrent(w)
  PROVE  IInv'
<1> DEFINE mine == {row \in CraftRows : row.worker_id = w}
<1>1. craft' = craft /\ todo' = todo /\ pc[w] = "idle"
  BY DEF FindCurrent, tables
<1>2. CASE mine = {}
  <2>1. pc' = [pc EXCEPT ![w] = "types"] /\ cur' = cur
    BY <1>2 DEF FindCurrent, GoTo
  <2>. QED BY <1>1, <2>1, MoveInv DEF Free
<1>3. CASE mine # {}
  <2> DEFINE row == Lowest(mine)
             l == IF row.status = "PENDING" THEN "dump" ELSE "restore"
  <2>1. Moves(w, l, CopyOf(row), todo[w]) /\ Copies(todo[w])
    BY <1>1, <1>3 DEF FindCurrent, GoTo, Moves, Copies, IInv, AgentsShaped, AtHand
  <2>2. row \in mine
    <3>1. \A r \in mine : r.id \in CraftIds
      BY RowsFound DEF IInv
    <3>. QED BY <3>1, <1>3, LowestIsOne
  <2>3. row.id \in CraftIds /\ row = craft[row.id] /\ row # NoCraft /\ IsRow(row.id, row)
    BY <2>2, RowsFound DEF IInv
  <2>4. IsCopy(CopyOf(row)) /\ Has(w, CopyOf(row))
    <3>1. IsCopy(CopyOf(row)) /\ CopyOf(row).id = row.id
      BY <2>3, CopyOfRow
    <3>. QED BY <3>1, <2>2, <2>3 DEF Has
  <2>5. l \in Busy /\ l \notin Free
    BY DEF Busy, Free
  <2> HIDE DEF row, l
  <2>6. Right(w, l, CopyOf(row))
    BY <1>1, <2>4, <2>5 DEF Has, Right
  <2>. QED BY <1>1, <2>1, <2>6, RowsStay, WorkerStep
<1>. QED BY <1>2, <1>3

\* FindNext lists copies of rows.
LEMMA FindNextInv ==
  ASSUME IInv, NEW w \in Workers, FindNext(w)
  PROVE  IInv'
<1> DEFINE list == {CopyOf(row) : row \in CraftRows}
<1>1. craft' = craft /\ pc[w] = "select" /\ cur' = cur
      /\ pc' = [pc EXCEPT ![w] = "next"] /\ todo' = [todo EXCEPT ![w] = list]
  BY DEF FindNext, GoTo, tables
<1>2. Copies(list)
  BY RowsFound, CopyOfRow DEF IInv, Copies
<1> HIDE DEF list
<1>3. Moves(w, "next", cur[w], list)
  BY <1>1 DEF IInv, AgentsShaped, Moves
<1>4. Right(w, "next", cur[w])
  BY <1>1 DEF Right, IInv, AtHand, Free, Busy
<1>. QED BY <1>1, <1>2, <1>3, <1>4, RowsStay, WorkerStep

\* AssignCraftToWorker takes only a craft that no worker has.
LEMMA AssignInv ==
  ASSUME IInv, NEW w \in Workers, Assign(w)
  PROVE  IInv'
<1> DEFINE cp == Lowest(todo[w])
           list == todo[w] \ {cp}
           new == [craft[cp.id] EXCEPT !.worker_id = w]
<1>1. /\ todo[w] # {} /\ craft[cp.id] # NoCraft /\ craft[cp.id].worker_id = NoWorker
      /\ craft' = [craft EXCEPT ![cp.id] = new]
      /\ Moves(w, "dump", cp, list)
  BY DEF Assign, AssignCraftToWorker, GoTo, Moves
<1>2. Copies(todo[w])
  BY DEF IInv, AtHand, Copies
<1>3. cp \in todo[w]
  <2>1. \A x \in todo[w] : x.id \in CraftIds
    BY <1>2 DEF Copies, IsCopy
  <2>. QED BY <1>1, <2>1, LowestIsOne
<1>4. IsCopy(cp) /\ cp.id \in CraftIds /\ Copies(list)
  BY <1>2, <1>3 DEF Copies, IsCopy
<1> HIDE DEF cp, list
<1>5. IsRow(cp.id, craft[cp.id])
  BY <1>1, <1>4 DEF IInv, RowsShaped
<1>6. IsRow(cp.id, new) /\ new # NoCraft /\ new.worker_id = w
  BY <1>4, <1>5, RowsKept
<1> HIDE DEF new
<1>7. RowsShaped' /\ craft'[cp.id] = new /\ OthersKeep(w)
  BY <1>1, <1>4, <1>6, RowUpdate
<1>8. Right(w, "dump", cp)
  BY <1>4, <1>6, <1>7 DEF Right, Free, Busy
<1>. QED BY <1>1, <1>4, <1>7, <1>8, WorkerStep

\* A craft that is passed over stays where it is.
LEMMA SkipInv ==
  ASSUME IInv, NEW w \in Workers, Skip(w)
  PROVE  IInv'
<1> DEFINE list == todo[w] \ {Lowest(todo[w])}
<1>1. craft' = craft /\ Moves(w, pc[w], cur[w], list)
  BY DEF Skip, tables, Moves, IInv, AgentsShaped
<1>2. Copies(list)
  BY DEF IInv, AtHand, Copies
<1>3. Right(w, pc[w], cur[w])
  BY <1>1, RowsStay DEF IInv, AtHand, Owned, Right
<1>. QED BY <1>1, <1>2, <1>3, RowsStay, WorkerStep

\* The craft of a worker is live and its own.
LEMMA OwnCraft ==
  ASSUME IInv, NEW w \in Workers, pc[w] \in Busy
  PROVE  /\ IsCopy(cur[w]) /\ cur[w].id \in CraftIds /\ craft[cur[w].id] # NoCraft
         /\ craft[cur[w].id].worker_id = w /\ IsRow(cur[w].id, craft[cur[w].id])
         /\ Copies(todo[w])
BY DEF IInv, AtHand, Owned, Has, IsCopy, RowsShaped, Copies

\* The commit of a craft leaves it with the worker.
LEMMA CommitInv ==
  ASSUME IInv, NEW w \in Workers, Commit(w)
  PROVE  IInv'
<1> DEFINE c == cur[w].id
           cp == [cur[w] EXCEPT !.commit_repeats = BatchSize(cur[w])]
           new == Commited(craft[c], BatchSize(cur[w]))
<1>1. /\ pc[w] = "commit" /\ craft' = [craft EXCEPT ![c] = new]
      /\ Moves(w, "call", cp, todo[w])
  BY DEF Commit, CommitCraft, GoTo, Moves, IInv, AgentsShaped
<1>2. /\ IsCopy(cur[w]) /\ c \in CraftIds /\ craft[c] # NoCraft
      /\ craft[c].worker_id = w /\ IsRow(c, craft[c]) /\ Copies(todo[w])
  BY <1>1, OwnCraft DEF Busy
<1>3. IsCopy(cp) /\ cp.id = c
  BY <1>2 DEF IsCopy
<1> HIDE DEF c, cp
<1>4. IsRow(c, new) /\ new # NoCraft /\ new.worker_id = w
  BY <1>2, RowsKept
<1> HIDE DEF new
<1>5. RowsShaped' /\ craft'[c] = new /\ OthersKeep(w)
  BY <1>1, <1>2, <1>4, RowUpdate
<1>6. Right(w, "call", cp)
  BY <1>3, <1>4, <1>5 DEF Right, Free, Busy
<1>. QED BY <1>1, <1>2, <1>5, <1>6, WorkerStep

\* The completion of a craft, or its deletion, is that of the worker's own.
LEMMA CompleteInv ==
  ASSUME IInv, NEW w \in Workers, Complete(w)
  PROVE  IInv'
<1> DEFINE c == cur[w].id
           new == Completed(craft[c])
<1>1. /\ pc[w] = "complete" /\ craft' = [craft EXCEPT ![c] = new]
      /\ Moves(w, "done", cur[w], todo[w])
  BY DEF Complete, CompleteCraft, GoTo, Moves, IInv, AgentsShaped
<1>2. /\ c \in CraftIds /\ craft[c] # NoCraft
      /\ craft[c].worker_id = w /\ IsRow(c, craft[c]) /\ Copies(todo[w])
  BY <1>1, OwnCraft DEF Busy
<1> HIDE DEF c
<1>3. new = NoCraft \/ IsRow(c, new)
  BY <1>2, RowsKept
<1> HIDE DEF new
<1>4. RowsShaped' /\ OthersKeep(w)
  BY <1>1, <1>2, <1>3, RowUpdate
<1>5. Right(w, "done", cur[w])
  BY Kinds DEF Right
<1>. QED BY <1>1, <1>2, <1>4, <1>5, WorkerStep

\* A worker that is done lets go of its craft.
LEMMA DoneInv ==
  ASSUME IInv, NEW w \in Workers, Done(w)
  PROVE  IInv'
<1> DEFINE l == IF resumed[w] THEN "types" ELSE "next"
<1>1. craft' = craft /\ Moves(w, l, NoCopy, todo[w])
  BY DEF Done, GoTo, tables, Moves, IInv, AgentsShaped
<1>2. Copies(todo[w]) /\ Right(w, l, NoCopy)
  BY Kinds DEF IInv, AtHand, Copies, Right, Free
<1> HIDE DEF l
<1>. QED BY <1>1, <1>2, RowsStay, WorkerStep

\* Every step of a worker, answered or not.
LEMMA WorkerInv ==
  ASSUME IInv, NEW w \in Workers, OwnStep(w) \/ Answered(w) \/ CallFails(w)
  PROVE  IInv'
<1>1. CASE FindCurrent(w)
  BY <1>1, FindCurrentInv
<1>2. CASE FindNext(w)
  BY <1>2, FindNextInv
<1>3. CASE Assign(w)
  BY <1>3, AssignInv
<1>4. CASE Skip(w)
  BY <1>4, SkipInv
<1>5. CASE EndOfList(w)
  BY <1>5, MoveInv DEF EndOfList, GoTo, tables, Free
<1>6. CASE Commit(w)
  BY <1>6, CommitInv
<1>7. CASE CommitFails(w) \/ CompleteFails(w) \/ NothingToCraft(w) \/ CallFails(w)
  BY <1>7, GiveUpInv DEF CommitFails, CompleteFails, NothingToCraft, CallFails, tables
<1>8. CASE Complete(w)
  BY <1>8, CompleteInv
<1>9. CASE Done(w)
  BY <1>9, DoneInv
<1>10. CASE GetTypes(w)
  BY <1>10, MoveInv DEF GetTypes, GoTo, tables, Free
<1>11. CASE Dump(w)
  BY <1>11, MoveInv DEF Dump, GoTo, tables, Busy
<1>12. CASE Load(w)
  BY <1>12, MoveInv DEF Load, GoTo, tables, Busy
<1>13. CASE Call(w)
  BY <1>13, MoveInv DEF Call, GoTo, tables, Busy
<1>. QED BY <1>1, <1>2, <1>3, <1>4, <1>5, <1>6, <1>7, <1>8, <1>9, <1>10, <1>11, <1>12, <1>13
         DEF OwnStep, Answered

\* A new craft takes a rowid that no worker holds.
LEMMA SubmitInv ==
  ASSUME IInv, Submit
  PROVE  IInv'
<1>1. PICK p \in PlanIds, r \in Recipes : \E n \in 1..planSteps[p][r] : InsertCraft(p, r, n)
  BY DEF Submit
<1>2. PICK n : InsertCraft(p, r, n)
  BY <1>1
<1> DEFINE new(c) == [id |-> c, plan_id |-> p, recipe_id |-> r, worker_id |-> NoWorker,
                      status |-> "PENDING", repeats |-> n, commit_repeats |-> 0]
<1>3. PICK c \in CraftIds : /\ IsNextRowid(c, {i \in CraftIds : craft[i] # NoCraft})
                            /\ craft' = [craft EXCEPT ![c] = new(c)]
  BY <1>2 DEF InsertCraft
<1>4. craft[c] = NoCraft
  BY <1>3, TablesAssumption DEF IsNextRowid, CraftIds
<1>5. IsRow(c, new(c))
  BY DEF IsRow
<1> HIDE DEF new
<1>6. \A d \in CraftIds : craft'[d] = IF d = c THEN new(c) ELSE craft[d]
  BY <1>3 DEF IInv, RowsShaped
<1>7. RowsShaped'
  BY <1>3, <1>5, <1>6 DEF IInv, RowsShaped
<1>8. UNCHANGED <<pc, cur, todo>>
  BY DEF Submit, callers
<1>9. AgentsShaped' /\ AtHand'
  BY <1>8 DEF IInv, AgentsShaped, AtHand
<1>10. ASSUME NEW w \in Workers, pc[w] \in Busy  PROVE  Has(w, cur[w])'
  <2>1. cur[w].id \in CraftIds /\ craft[cur[w].id] # NoCraft /\ craft[cur[w].id].worker_id = w
    BY <1>10, OwnCraft
  <2>. QED BY <2>1, <1>4, <1>6, <1>8 DEF Has
<1>11. Owned'
  BY <1>8, <1>10 DEF Owned
<1>. QED BY <1>7, <1>9, <1>11 DEF IInv

\* The other steps of planning do not touch the crafts.
LEMMA PlanInv ==
  ASSUME IInv, Schedule \/ Delete \/ Count
  PROVE  IInv'
<1>1. UNCHANGED <<craft, pc, cur, todo>>
  BY DEF Schedule, Delete, Count, InsertPlan, RemovePlan, UpdateItemCount, callers
<1>. QED BY <1>1 DEF IInv, RowsShaped, AgentsShaped, AtHand, Owned, Has

\* After a restart no worker has anything at hand.
LEMMA CrashInv ==
  ASSUME IInv, Crash
  PROVE  IInv'
<1>1. AgentsShaped' /\ RowsShaped'
  BY DEF Crash, tables, IInv, AgentsShaped, RowsShaped
<1>2. \A w \in Workers : pc'[w] = "idle" /\ cur'[w] = NoCopy /\ todo'[w] = {}
  BY DEF Crash, Agents
<1>. QED BY <1>1, <1>2 DEF IInv, AtHand, Owned, Free, Busy

\* The invariant holds at first.
LEMMA InitInv == Init => IInv
<1> SUFFICES ASSUME Init PROVE IInv
  OBVIOUS
<1>1. AgentsShaped /\ RowsShaped
  BY DEF Init, InitTables, AgentsShaped, RowsShaped
<1>2. \A w \in Workers : pc[w] = "idle" /\ cur[w] = NoCopy /\ todo[w] = {}
  BY DEF Init, Agents
<1>. QED BY <1>1, <1>2 DEF IInv, AtHand, Owned, Free, Busy

LEMMA StepInv ==
  ASSUME Handlers = {}, IInv, [Next]_vars
  PROVE  IInv'
<1>1. CASE UNCHANGED vars
  BY <1>1 DEF vars, tables, callers, IInv, RowsShaped, AgentsShaped, AtHand, Owned, Has
<1>2. CASE \E w \in Workers : OwnStep(w) \/ Answered(w) \/ CallFails(w)
  BY <1>2, WorkerInv
<1>. QED BY <1>1, <1>2, SubmitInv, PlanInv, CrashInv DEF Next

LEMMA AlwaysInv == ASSUME Handlers = {} PROVE Spec => []IInv
<1>1. IInv /\ [Next]_vars => IInv'
  BY StepInv
<1>. QED BY InitInv, <1>1, PTL DEF Spec

-----------------------------------------------------------------------------
(***************************************************************************)
(* The goroutines use the tables as CraftLedger allows.  L is the ledger   *)
(* with its theorems, of which a copy is what a goroutine has at hand.     *)
(***************************************************************************)
L == INSTANCE CraftLedgerProofs WITH
  Callers <- Agents, LeftBound <- Int, ReserveBound <- Int,
  copy <- [a \in Agents |-> CopiesOf(a)]

\* The ledger's assumptions are those of the service.
LEMMA LedgerAssumptions == L!TablesAssumption /\ L!LedgerAssumption
BY TablesAssumption, ServiceAssumption DEF L!Recipes, Recipes

Listing == {"idle", "types", "select"}
Fresh == {"dump", "load", "commit"}
Requested == {"manual commit", "manual complete", "cancel", "done"}

\* What a worker at l has at hand: craft cp and list; r says where cp is from.
HandsOf(l, cp, list, r) ==
  /\ l \in Free \union Busy \union {"done"}
  /\ l \in Free <=> cp = NoCopy
  /\ l \in Listing => list = {}
  /\ l \in Fresh => cp \notin list
  /\ l \notin Free /\ r => list = {}

Hands ==
  /\ AgentsShaped
  /\ resumed = [w \in Workers |-> resumed[w]]
  /\ \A w \in Workers : HandsOf(pc[w], cur[w], todo[w], resumed[w])
  /\ \A h \in Handlers : /\ pc[h] \in Requested \union {"idle"}
                         /\ pc[h] = "idle" <=> cur[h] = NoCopy

\* All agents but a keep what they have at hand.
Apart(a) ==
  \A b \in Agents \ {a} :
    /\ pc'[b] = pc[b] /\ cur'[b] = cur[b]
    /\ b \in Workers => todo'[b] = todo[b]

\* The ledger's callers are the agents.
LEMMA CopyAfter ==
  ASSUME NEW a \in Agents, Apart(a)
  PROVE  [b \in Agents |-> CopiesOf(b)]'
           = [[b \in Agents |-> CopiesOf(b)] EXCEPT ![a] = CopiesOf(a)']
BY DEF Apart, CopiesOf

\* A goroutine that reads rows and keeps copies of nothing else does a Find.
LEMMA FindStep ==
  ASSUME NEW a \in Agents, Apart(a), UNCHANGED tables,
         NEW rows \in (SUBSET CraftRows) \ {{}}, CopiesOf(a)' = {CopyOf(row) : row \in rows}
  PROVE  L!Next
<1>1. L!CraftRows = CraftRows
  BY DEF L!CraftRows, CraftRows, L!CraftIds, CraftIds, L!NoCraft, NoCraft
<1>2. {L!CopyOf(row) : row \in rows} = {CopyOf(row) : row \in rows}
  BY DEF L!CopyOf, CopyOf
<1>3. L!Find(a)
  BY <1>1, <1>2, CopyAfter DEF L!Find, L!tables, tables
<1>. QED BY <1>3 DEF L!Next

\* One that lets go of copies does a Forget, if there were any.
LEMMA ForgetStep ==
  ASSUME NEW a \in Agents, Apart(a), UNCHANGED tables, CopiesOf(a)' \subseteq CopiesOf(a)
  PROVE  [L!Next]_L!vars
<1>1. UNCHANGED L!tables
  BY DEF L!tables, tables
<1>2. CASE CopiesOf(a)' = CopiesOf(a)
  <2>1. UNCHANGED [b \in Agents |-> CopiesOf(b)]
    BY <1>2, CopyAfter
  <2>. QED BY <1>1, <2>1 DEF L!vars
<1>3. CASE CopiesOf(a)' # CopiesOf(a)
  <2>1. L!Forget(a)
    BY <1>1, <1>3, CopyAfter DEF L!Forget
  <2>. QED BY <2>1 DEF L!Next
<1>. QED BY <1>2, <1>3

\* A worker's step.
Steps(w, l, cp, list, r) ==
  /\ Moves(w, l, cp, list)
  /\ resumed' = [resumed EXCEPT ![w] = r]

LEMMA StepHands ==
  ASSUME Hands, NEW w \in Workers, NEW l, NEW cp, NEW list, NEW r,
         Steps(w, l, cp, list, r), HandsOf(l, cp, list, r)
  PROVE  /\ Hands' /\ Apart(w) /\ w \in Agents
         /\ CopiesOf(w)' = (IF cp = NoCopy THEN {} ELSE {cp}) \union list
<1>1. w \in Agents /\ w \notin Handlers
  BY ServiceAssumption DEF Agents
<1>2. \A v \in Workers : /\ pc'[v] = IF v = w THEN l ELSE pc[v]
                         /\ cur'[v] = IF v = w THEN cp ELSE cur[v]
                         /\ todo'[v] = IF v = w THEN list ELSE todo[v]
                         /\ resumed'[v] = IF v = w THEN r ELSE resumed[v]
  BY DEF Hands, AgentsShaped, Steps, Moves, Agents
<1>3. \A h \in Handlers : pc'[h] = pc[h] /\ cur'[h] = cur[h]
  BY <1>1 DEF Hands, AgentsShaped, Steps, Moves, Agents
<1>4. AgentsShaped' /\ (resumed = [v \in Workers |-> resumed[v]])'
  BY DEF Hands, AgentsShaped, Steps, Moves
<1>5. ASSUME NEW v \in Workers PROVE HandsOf(pc[v], cur[v], todo[v], resumed[v])'
  <2>1. CASE v = w
    BY <1>2, <2>1 DEF HandsOf
  <2>2. CASE v # w
    BY <1>2, <2>2 DEF HandsOf, Hands
  <2>. QED BY <2>1, <2>2
<1>6. Hands'
  BY <1>3, <1>4, <1>5 DEF Hands
<1>7. Apart(w)
  BY <1>2, <1>3 DEF Apart, Agents
<1>8. CopiesOf(w)' = (IF cp = NoCopy THEN {} ELSE {cp}) \union list
  BY <1>2 DEF CopiesOf
<1>. QED BY <1>1, <1>6, <1>7, <1>8

-----------------------------------------------------------------------------
\* The transactions are the ledger's.
LEMMA SameTransactions ==
  /\ \A cp, w : AssignCraftToWorker(cp, w) => L!AssignCraftToWorker(cp, w)
  /\ \A cp, n : CommitCraft(cp, n) => L!CommitCraft(cp, n)
  /\ \A cp : CompleteCraft(cp) => L!CompleteCraft(cp)
  /\ \A cp : CancelCraft(cp) => L!CancelCraft(cp)
  /\ \A p, shape, stock : InsertPlan(p, shape, stock) => L!InsertPlan(p, shape, stock)
  /\ \A p : RemovePlan(p) => L!RemovePlan(p)
  /\ \A p, r, n : InsertCraft(p, r, n) => L!InsertCraft(p, r, n)
  /\ \A u, n : UpdateItemCount(u, n) => L!UpdateItemCount(u, n)
<1>1. \A cp, w : AssignCraftToWorker(cp, w) => L!AssignCraftToWorker(cp, w)
  BY DEF AssignCraftToWorker, L!AssignCraftToWorker, NoCraft, L!NoCraft, planTables, L!planTables
<1>2. \A cp, n : CommitCraft(cp, n) => L!CommitCraft(cp, n)
  BY DEF CommitCraft, L!CommitCraft, Committable, L!Committable, Commited, L!Commited,
         Released, L!Released, Batch, L!Batch, NotWaiting, L!NotWaiting,
         NoCraft, L!NoCraft, planTables, L!planTables
<1>3. \A cp : CompleteCraft(cp) => L!CompleteCraft(cp)
  BY DEF CompleteCraft, L!CompleteCraft, Completed, L!Completed,
         NoCraft, L!NoCraft, planTables, L!planTables
<1>4. \A cp : CancelCraft(cp) => L!CancelCraft(cp)
  BY DEF CancelCraft, L!CancelCraft, Released, L!Released, Batch, L!Batch,
         NotWaiting, L!NotWaiting, NoCraft, L!NoCraft, planTables, L!planTables
<1>5. \A p, shape, stock : InsertPlan(p, shape, stock) => L!InsertPlan(p, shape, stock)
  BY DEF InsertPlan, L!InsertPlan, IsNextRowid, L!IsNextRowid, Acquired, L!Acquired,
         Consumed, L!Consumed, SumTo, L!SumTo, Recipes, L!Recipes
<1>6. \A p : RemovePlan(p) => L!RemovePlan(p)
  BY DEF RemovePlan, L!RemovePlan, Released, L!Released, Nothing, L!Nothing, Recipes, L!Recipes
<1>7. \A p, r, n : InsertCraft(p, r, n) => L!InsertCraft(p, r, n)
  <2>1. L!CraftIds = CraftIds /\ L!NoCraft = NoCraft /\ \A r, n : L!Batch(r, n) = Batch(r, n)
    BY DEF CraftIds, L!CraftIds, NoCraft, L!NoCraft, Batch, L!Batch
  <2>2. \A c, used : IsNextRowid(c, used) => L!IsNextRowid(c, used)
    BY DEF IsNextRowid, L!IsNextRowid
  <2> SUFFICES ASSUME NEW p, NEW r, NEW n, InsertCraft(p, r, n) PROVE L!InsertCraft(p, r, n)
    OBVIOUS
  <2> DEFINE steps == [planSteps EXCEPT ![p][r] = @ - n]
  <2>3. planSteps' = steps
    BY DEF InsertCraft
  <2> HIDE DEF steps
  <2>4. PICK c \in CraftIds :
          /\ IsNextRowid(c, {i \in CraftIds : craft[i] # NoCraft})
          /\ craft' = [craft EXCEPT ![c] =
               [id |-> c, plan_id |-> p, recipe_id |-> r, worker_id |-> NoWorker,
                status |-> "PENDING", repeats |-> n, commit_repeats |-> 0]]
    BY DEF InsertCraft
  <2>. QED BY <2>1, <2>2, <2>3, <2>4 DEF InsertCraft, L!InsertCraft, steps
<1>8. \A u, n : UpdateItemCount(u, n) => L!UpdateItemCount(u, n)
  <2>1. \A u : L!Missing(u) = Missing(u)
    BY DEF Missing, L!Missing, PlanIds, L!PlanIds
  <2>2. \A f, n : L!SumTo(f, n) = SumTo(f, n)
    BY DEF SumTo, L!SumTo
  <2>3. \A u, free : L!Dealt(u, free) = Dealt(u, free)
    BY <2>1, <2>2 DEF Dealt, L!Dealt, PlanIds, L!PlanIds
  <2>. QED BY <2>1, <2>2, <2>3 DEF UpdateItemCount, L!UpdateItemCount, PlanIds, L!PlanIds
<1>. QED BY <1>1, <1>2, <1>3, <1>4, <1>5, <1>6, <1>7, <1>8

\* The ledger's types, in the terms of the service.
LEMMA LedgerTypes ==
  ASSUME L!TypeOK
  PROVE  /\ RowsShaped
         /\ \A c \in CraftIds : craft[c] # NoCraft =>
              /\ craft[c].recipe_id \in Recipes /\ craft[c].repeats \in Int \ {0}
              /\ craft[c].commit_repeats \in Int
         /\ \A u \in Items : itemReserve[u] \in Int
         /\ \A a \in Agents : \A cp \in CopiesOf(a) :
              cp \in [id : CraftIds, recipe_id : Recipes, repeats : Int \ {0}, commit_repeats : Int]
<1>1. craft \in [CraftIds -> CraftRow \union {NoCraft}]
  BY DEF L!TypeOK, L!CraftIds, CraftIds, L!CraftRow, CraftRow, L!NoCraft, NoCraft,
         L!PlanIds, PlanIds, L!Recipes, Recipes
<1>2. \A c \in CraftIds : craft[c] # NoCraft => craft[c].id = c /\ craft[c].repeats # 0
  BY DEF L!TypeOK, L!CraftIds, CraftIds, L!NoCraft, NoCraft
<1>3. RowsShaped
  BY <1>1, <1>2 DEF RowsShaped, IsRow, CraftRow
<1>4. \A c \in CraftIds : craft[c] # NoCraft => craft[c] \in CraftRow
  BY <1>1
<1>5. \A a \in Agents : \A cp \in CopiesOf(a) :
        cp \in [id : CraftIds, recipe_id : Recipes, repeats : Int \ {0}, commit_repeats : Int]
  BY DEF L!TypeOK, L!CraftIds, CraftIds, L!Recipes, Recipes
<1>6. \A u \in Items : itemReserve[u] \in Int
  BY DEF L!TypeOK
<1>. QED BY <1>2, <1>3, <1>4, <1>5, <1>6 DEF CraftRow

\* A copy is not nothing.
LEMMA SomeCopy ==
  ASSUME NEW cp, cp.id \in CraftIds
  PROVE  cp # NoCopy
BY DEF CraftIds, NoCopy

\* What a worker has at hand are copies it holds.
LEMMA HeldCopies ==
  ASSUME L!TypeOK, Hands, NEW w \in Workers
  PROVE  /\ w \in Agents
         /\ \A cp \in todo[w] : cp \in CopiesOf(w) /\ cp.id \in CraftIds
         /\ pc[w] \notin Free => /\ cur[w] \in CopiesOf(w) /\ cur[w].id \in CraftIds
                                 /\ CopiesOf(w) = {cur[w]} \union todo[w]
         /\ pc[w] \in Free => CopiesOf(w) = todo[w]
<1>1. w \in Agents
  BY DEF Agents
<1>2. \A cp \in CopiesOf(w) : cp.id \in CraftIds
  BY <1>1, LedgerTypes
<1>3. pc[w] \in Free <=> cur[w] = NoCopy
  BY DEF Hands, HandsOf
<1>. QED BY <1>1, <1>2, <1>3 DEF CopiesOf

\* A transaction on a copy that is held is a step of the ledger.
LEMMA OnCopyStep ==
  ASSUME NEW a \in Agents, NEW cp \in CopiesOf(a), L!OnCopy(a, cp)
  PROVE  L!Next
BY DEF L!Next

\* A worker that goes on with what it has, or lets go of some of it.
LEMMA LetGo ==
  ASSUME Hands, NEW w \in Workers, NEW l, NEW cp, NEW list, NEW r,
         Steps(w, l, cp, list, r), HandsOf(l, cp, list, r), UNCHANGED tables,
         (IF cp = NoCopy THEN {} ELSE {cp}) \union list \subseteq CopiesOf(w)
  PROVE  Hands' /\ [L!Next]_L!vars
BY StepHands, ForgetStep

LEMMA GiveUpUses ==
  ASSUME Hands, NEW w \in Workers, GiveUp(w), UNCHANGED tables
  PROVE  Hands' /\ [L!Next]_L!vars
<1>1. Steps(w, "idle", NoCopy, {}, resumed[w])
  BY DEF GiveUp, GoTo, Steps, Moves, Hands
<1>2. HandsOf("idle", NoCopy, {}, resumed[w])
  BY DEF HandsOf, Free, Busy, Listing, Fresh
<1>. QED BY <1>1, <1>2, LetGo

\* A worker that only goes to another label.
LEMMA GoToUses ==
  ASSUME Hands, NEW w \in Workers, NEW l, GoTo(w, l), UNCHANGED <<tables, cur, todo, resumed>>,
         HandsOf(l, cur[w], todo[w], resumed[w])
  PROVE  Hands' /\ [L!Next]_L!vars
<1>1. Steps(w, l, cur[w], todo[w], resumed[w])
  BY DEF GoTo, Steps, Moves, Hands, AgentsShaped
<1>2. (IF cur[w] = NoCopy THEN {} ELSE {cur[w]}) \union todo[w] \subseteq CopiesOf(w)
  BY DEF CopiesOf
<1>. QED BY <1>1, <1>2, LetGo

\* FindCurrent reads the row of a craft, or nothing.
LEMMA FindCurrentUses ==
  ASSUME L!TypeOK, Hands, NEW w \in Workers, FindCurrent(w)
  PROVE  Hands' /\ [L!Next]_L!vars
<1> DEFINE mine == {row \in CraftRows : row.worker_id = w}
<1>1. UNCHANGED tables /\ todo' = todo /\ pc[w] = "idle"
  BY DEF FindCurrent
<1>2. cur[w] = NoCopy /\ todo[w] = {}
  BY <1>1 DEF Hands, HandsOf, Free, Listing
<1>3. CASE mine = {}
  <2>1. GoTo(w, "types") /\ UNCHANGED <<tables, cur, todo, resumed>>
    BY <1>1, <1>3 DEF FindCurrent
  <2>2. HandsOf("types", cur[w], todo[w], resumed[w])
    BY <1>2 DEF HandsOf, Free, Busy, Listing, Fresh
  <2>. QED BY <2>1, <2>2, GoToUses
<1>4. CASE mine # {}
  <2> DEFINE row == Lowest(mine)
             l == IF row.status = "PENDING" THEN "dump" ELSE "restore"
  <2>1. Steps(w, l, CopyOf(row), {}, TRUE)
    <3>1. pc' = [pc EXCEPT ![w] = l] /\ cur' = [cur EXCEPT ![w] = CopyOf(row)]
          /\ resumed' = [resumed EXCEPT ![w] = TRUE]
      BY <1>4 DEF FindCurrent, GoTo
    <3>2. todo' = [todo EXCEPT ![w] = {}]
      BY <1>1, <1>2 DEF Hands, AgentsShaped
    <3>. QED BY <3>1, <3>2 DEF Steps, Moves
  <2>2. row \in CraftRows
    <3>1. \A r \in mine : r.id \in CraftIds
      BY LedgerTypes, RowsFound
    <3>2. row \in mine
      BY <1>4, <3>1, LowestIsOne
    <3>. QED BY <3>2
  <2>3. CopyOf(row) # NoCopy
    <3>1. row.id \in CraftIds
      BY <2>2, LedgerTypes, RowsFound
    <3>. QED BY <3>1, SomeCopy DEF CopyOf
  <2>4. HandsOf(l, CopyOf(row), {}, TRUE)
    BY <2>3 DEF HandsOf, Free, Busy, Listing, Fresh
  <2> HIDE DEF row, l
  <2> DEFINE cp == CopyOf(row)
  <2>5. Hands' /\ Apart(w) /\ w \in Agents /\ CopiesOf(w)' = {CopyOf(row)}
    <3> HIDE DEF cp
    <3>1. /\ Hands' /\ Apart(w) /\ w \in Agents
          /\ CopiesOf(w)' = (IF cp = NoCopy THEN {} ELSE {cp}) \union {}
      BY <2>1, <2>4, StepHands DEF cp
    <3>. QED BY <2>3, <3>1 DEF cp
  <2>6. {CopyOf(r) : r \in {row}} = {CopyOf(row)} /\ {row} \in (SUBSET CraftRows) \ {{}}
    BY <2>2
  <2>. QED BY <1>1, <2>5, <2>6, FindStep
<1>. QED BY <1>3, <1>4

\* FindNext reads all rows, if there are any.
LEMMA FindNextUses ==
  ASSUME L!TypeOK, Hands, NEW w \in Workers, FindNext(w)
  PROVE  Hands' /\ [L!Next]_L!vars
<1> DEFINE list == {CopyOf(row) : row \in CraftRows}
<1>1. UNCHANGED tables /\ pc[w] = "select"
  BY DEF FindNext
<1>2. cur[w] = NoCopy
  BY <1>1 DEF Hands, HandsOf, Free
<1>3. Steps(w, "next", NoCopy, list, resumed[w])
  BY <1>2 DEF FindNext, GoTo, Steps, Moves, Hands, AgentsShaped
<1>4. HandsOf("next", NoCopy, list, resumed[w])
  BY DEF HandsOf, Free, Listing, Fresh
<1> HIDE DEF list
<1>5. Hands' /\ Apart(w) /\ w \in Agents /\ CopiesOf(w)' = list
  BY <1>3, <1>4, StepHands
<1>6. CASE CraftRows = {}
  BY <1>1, <1>5, <1>6, ForgetStep DEF list
<1>7. CASE CraftRows # {}
  BY <1>1, <1>5, <1>7, FindStep DEF list
<1>. QED BY <1>6, <1>7

\* A worker takes the lowest copy of its list.
LEMMA FirstOfList ==
  ASSUME L!TypeOK, Hands, NEW w \in Workers, todo[w] # {}
  PROVE  Lowest(todo[w]) \in todo[w]
<1>1. \A cp \in todo[w] : cp.id \in CraftIds
  BY HeldCopies
<1>. QED BY <1>1, LowestIsOne

LEMMA AssignUses ==
  ASSUME L!TypeOK, Hands, NEW w \in Workers, Assign(w)
  PROVE  Hands' /\ [L!Next]_L!vars
<1> DEFINE cp == Lowest(todo[w])
<1>1. /\ pc[w] = "next" /\ todo[w] # {} /\ AssignCraftToWorker(cp, w)
      /\ Steps(w, "dump", cp, todo[w] \ {cp}, FALSE)
  BY DEF Assign, GoTo, Steps, Moves
<1>2. cp \in todo[w]
  BY <1>1, FirstOfList
<1> HIDE DEF cp
<1>3. CopiesOf(w) = todo[w] /\ cp # NoCopy
  BY <1>1, <1>2, HeldCopies, SomeCopy DEF Free
<1>4. HandsOf("dump", cp, todo[w] \ {cp}, FALSE)
  BY <1>3 DEF HandsOf, Free, Busy, Listing
<1>5. Hands' /\ Apart(w) /\ w \in Agents /\ CopiesOf(w)' = CopiesOf(w)
  <2>1. /\ Hands' /\ Apart(w) /\ w \in Agents
        /\ CopiesOf(w)' = (IF cp = NoCopy THEN {} ELSE {cp}) \union (todo[w] \ {cp})
    BY <1>1, <1>4, StepHands
  <2>. QED BY <1>2, <1>3, <2>1
<1>6. UNCHANGED [b \in Agents |-> CopiesOf(b)]
  BY <1>5, CopyAfter
<1>7. L!Assign(w, cp, w)
  BY <1>1, <1>6, SameTransactions DEF L!Assign
<1>8. L!Next
  BY <1>2, <1>3, <1>5, <1>7, OnCopyStep DEF L!OnCopy
<1>. QED BY <1>5, <1>8

LEMMA SkipUses ==
  ASSUME L!TypeOK, Hands, NEW w \in Workers, Skip(w)
  PROVE  Hands' /\ [L!Next]_L!vars
<1> DEFINE list == todo[w] \ {Lowest(todo[w])}
<1>1. pc[w] = "next" /\ UNCHANGED tables /\ Steps(w, pc[w], cur[w], list, resumed[w])
  BY DEF Skip, Steps, Moves, Hands, AgentsShaped
<1>2. cur[w] = NoCopy /\ CopiesOf(w) = todo[w]
  BY <1>1, HeldCopies DEF Hands, HandsOf, Free
<1>3. HandsOf(pc[w], cur[w], list, resumed[w])
  BY <1>1, <1>2 DEF HandsOf, Free, Listing, Fresh
<1>. QED BY <1>1, <1>2, <1>3, LetGo

\* A commit is written to the worker's copy, too.
LEMMA CommitUses ==
  ASSUME L!TypeOK, Hands, NEW w \in Workers, Commit(w)
  PROVE  Hands' /\ [L!Next]_L!vars
<1> DEFINE old == cur[w]
           n == BatchSize(old)
           new == [old EXCEPT !.commit_repeats = n]
<1>1. pc[w] = "commit" /\ CommitCraft(old, n) /\ Steps(w, "call", new, todo[w], resumed[w])
  BY DEF Commit, GoTo, Steps, Moves, Hands, AgentsShaped
<1>2. /\ w \in Agents /\ old \in CopiesOf(w) /\ old.id \in CraftIds
      /\ CopiesOf(w) = {old} \union todo[w] /\ old \notin todo[w]
  BY <1>1, HeldCopies DEF Free, Hands, HandsOf, Fresh
<1>3. old \in [id : CraftIds, recipe_id : Recipes, repeats : Int \ {0}, commit_repeats : Int]
  BY <1>2, LedgerTypes
<1>4. new.id = old.id /\ new # NoCopy
  BY <1>2, <1>3, SomeCopy
<1>5. n \in Int /\ n \in L!BatchSizes(old)
  BY <1>3, ServiceAssumption DEF BatchSize, L!BatchSizes
<1> HIDE DEF new, n
<1>6. resumed[w] => todo[w] = {}
  BY <1>1 DEF Hands, HandsOf, Free
<1>7. HandsOf("call", new, todo[w], resumed[w])
  BY <1>4, <1>6 DEF HandsOf, Free, Busy, Listing, Fresh
<1>8. Hands' /\ Apart(w) /\ CopiesOf(w)' = {new} \union todo[w]
  BY <1>1, <1>4, <1>7, StepHands
<1>9. L!NoteCommit(w, old, n)
  BY <1>2, <1>8, CopyAfter DEF L!NoteCommit, new
<1>10. L!WithinBound(old, n)
  BY <1>2, <1>5, LedgerTypes DEF L!WithinBound, L!BoundedReserve, L!NoCraft, NoCraft
<1>11. L!Commit(w, old, n)
  BY <1>1, <1>9, <1>10, SameTransactions DEF L!Commit
<1>12. L!Next
  BY <1>2, <1>5, <1>11, OnCopyStep DEF L!OnCopy
<1>. QED BY <1>8, <1>12

LEMMA CompleteUses ==
  ASSUME L!TypeOK, Hands, NEW w \in Workers, Complete(w)
  PROVE  Hands' /\ [L!Next]_L!vars
<1>1. /\ pc[w] = "complete" /\ CompleteCraft(cur[w])
      /\ Steps(w, "done", cur[w], todo[w], resumed[w])
  BY DEF Complete, GoTo, Steps, Moves, Hands, AgentsShaped
<1>2. /\ w \in Agents /\ cur[w] \in CopiesOf(w) /\ cur[w] # NoCopy
      /\ CopiesOf(w) = {cur[w]} \union todo[w] /\ (resumed[w] => todo[w] = {})
  BY <1>1, HeldCopies DEF Free, Hands, HandsOf
<1>3. HandsOf("done", cur[w], todo[w], resumed[w])
  BY <1>2 DEF HandsOf, Free, Listing, Fresh
<1>4. Hands' /\ Apart(w) /\ CopiesOf(w)' = CopiesOf(w)
  BY <1>1, <1>2, <1>3, StepHands
<1>5. UNCHANGED [b \in Agents |-> CopiesOf(b)]
  BY <1>2, <1>4, CopyAfter
<1>6. L!Complete(w, cur[w])
  BY <1>1, <1>5, SameTransactions DEF L!Complete
<1>7. L!Next
  BY <1>2, <1>6, OnCopyStep DEF L!OnCopy
<1>. QED BY <1>4, <1>7

LEMMA DoneUses ==
  ASSUME Hands, NEW w \in Workers, Done(w)
  PROVE  Hands' /\ [L!Next]_L!vars
<1> DEFINE l == IF resumed[w] THEN "types" ELSE "next"
<1>1. UNCHANGED tables /\ pc[w] = "done" /\ Steps(w, l, NoCopy, todo[w], resumed[w])
  BY DEF Done, GoTo, Steps, Moves, Hands, AgentsShaped
<1>2. resumed[w] => todo[w] = {}
  BY <1>1 DEF Hands, HandsOf, Free
<1>3. HandsOf(l, NoCopy, todo[w], resumed[w])
  BY <1>2 DEF HandsOf, Free, Busy, Listing, Fresh
<1>4. todo[w] \subseteq CopiesOf(w)
  BY DEF CopiesOf
<1> HIDE DEF l
<1>. QED BY <1>1, <1>3, <1>4, LetGo

\* Everything a worker does is a step of the ledger, or none.
LEMMA WorkerUses ==
  ASSUME L!TypeOK, Hands, NEW w \in Workers, OwnStep(w) \/ Answered(w) \/ CallFails(w)
  PROVE  Hands' /\ [L!Next]_L!vars
<1>1. CASE CommitFails(w) \/ CompleteFails(w) \/ NothingToCraft(w) \/ CallFails(w)
  BY <1>1, GiveUpUses DEF CommitFails, CompleteFails, NothingToCraft, CallFails
<1>2. CASE EndOfList(w)
  <2> DEFINE l == IF active[w] THEN "select" ELSE "idle"
  <2>1. GoTo(w, l) /\ UNCHANGED <<tables, cur, todo, resumed>> /\ pc[w] = "next" /\ todo[w] = {}
    BY <1>2 DEF EndOfList
  <2>2. HandsOf(l, cur[w], todo[w], resumed[w])
    BY <2>1 DEF Hands, HandsOf, Free, Busy, Listing, Fresh
  <2> HIDE DEF l
  <2>. QED BY <2>1, <2>2, GoToUses
<1>3. CASE GetTypes(w)
  <2>1. GoTo(w, "select") /\ UNCHANGED <<tables, cur, todo, resumed>>
    BY <1>3 DEF GetTypes
  <2>2. HandsOf("select", cur[w], todo[w], resumed[w])
    BY <1>3 DEF GetTypes, Hands, HandsOf, Free, Busy, Listing, Fresh
  <2>. QED BY <2>1, <2>2, GoToUses
<1>4. CASE Dump(w) \/ Load(w) \/ Call(w)
  <2> DEFINE l == IF Dump(w) THEN "load" ELSE IF Load(w) THEN "commit" ELSE "complete"
  <2>1. /\ GoTo(w, l) /\ UNCHANGED <<tables, cur, todo, resumed>> /\ pc[w] \in Busy
        /\ l \in Fresh => pc[w] \in Fresh
    BY <1>4 DEF Dump, Load, Call, Busy, Fresh
  <2>2. l \in Busy /\ l \notin Free /\ pc[w] \notin Free /\ l \notin Listing
    BY <2>1 DEF Busy, Free, Listing
  <2> HIDE DEF l
  <2>3. HandsOf(l, cur[w], todo[w], resumed[w])
    BY <2>1, <2>2 DEF Hands, HandsOf
  <2>. QED BY <2>1, <2>3, GoToUses
<1>. QED BY <1>1, <1>2, <1>3, <1>4, FindCurrentUses, FindNextUses, AssignUses, SkipUses,
             CommitUses, CompleteUses, DoneUses DEF OwnStep, Answered

-----------------------------------------------------------------------------
\* A handler's step: it goes to l with cp at hand.
Handles(h, l, cp) ==
  /\ pc' = [pc EXCEPT ![h] = l]
  /\ cur' = [cur EXCEPT ![h] = cp]
  /\ UNCHANGED <<todo, resumed>>
  /\ l \in Requested \union {"idle"}
  /\ l = "idle" <=> cp = NoCopy

LEMMA HandlerHands ==
  ASSUME Hands, NEW h \in Handlers, NEW l, NEW cp, Handles(h, l, cp)
  PROVE  /\ Hands' /\ Apart(h) /\ h \in Agents
         /\ CopiesOf(h)' = IF cp = NoCopy THEN {} ELSE {cp}
<1>1. h \in Agents /\ h \notin Workers
  BY ServiceAssumption DEF Agents
<1>2. \A g \in Agents : /\ pc'[g] = IF g = h THEN l ELSE pc[g]
                        /\ cur'[g] = IF g = h THEN cp ELSE cur[g]
  BY DEF Hands, AgentsShaped, Handles
<1>3. AgentsShaped' /\ (resumed = [v \in Workers |-> resumed[v]])'
  BY DEF Hands, AgentsShaped, Handles
<1>4. \A w \in Workers : HandsOf(pc[w], cur[w], todo[w], resumed[w])'
  BY <1>1, <1>2 DEF Hands, HandsOf, Handles, Agents
<1>5. \A g \in Handlers : /\ pc'[g] \in Requested \union {"idle"}
                          /\ pc'[g] = "idle" <=> cur'[g] = NoCopy
  BY <1>2 DEF Hands, Handles, Agents
<1>6. Hands'
  BY <1>3, <1>4, <1>5 DEF Hands
<1>7. Apart(h)
  BY <1>2 DEF Apart, Handles
<1>8. CopiesOf(h)' = IF cp = NoCopy THEN {} ELSE {cp}
  BY <1>1, <1>2 DEF CopiesOf
<1>. QED BY <1>1, <1>6, <1>7, <1>8

\* A handler that is not idle holds the copy of its craft.
LEMMA HandlerCopy ==
  ASSUME L!TypeOK, Hands, NEW h \in Handlers, pc[h] # "idle"
  PROVE  /\ h \in Agents /\ CopiesOf(h) = {cur[h]} /\ cur[h] # NoCopy
         /\ cur[h] \in [id : CraftIds, recipe_id : Recipes, repeats : Int \ {0}, commit_repeats : Int]
<1>1. h \in Agents /\ h \notin Workers
  BY ServiceAssumption DEF Agents
<1>2. CopiesOf(h) = {cur[h]} /\ cur[h] # NoCopy
  BY <1>1 DEF Hands, CopiesOf
<1>. QED BY <1>1, <1>2, LedgerTypes

LEMMA RequestUses ==
  ASSUME L!TypeOK, Hands, NEW h \in Handlers, NEW l \in {"manual commit", "cancel"}, Request(h, l)
  PROVE  Hands' /\ [L!Next]_L!vars
<1>1. PICK row \in CraftRows : cur' = [cur EXCEPT ![h] = CopyOf(row)]
  BY DEF Request
<1> DEFINE cp == CopyOf(row)
<1>2. cp # NoCopy
  <2>1. row.id \in CraftIds
    BY LedgerTypes, RowsFound
  <2>. QED BY <2>1, SomeCopy DEF CopyOf
<1>3. Handles(h, l, cp)
  BY <1>1, <1>2 DEF Request, GoTo, Handles, Requested
<1> HIDE DEF cp
<1>4. /\ Hands' /\ Apart(h) /\ h \in Agents
      /\ CopiesOf(h)' = IF cp = NoCopy THEN {} ELSE {cp}
  BY <1>3, HandlerHands
<1>5. {CopyOf(r) : r \in {row}} = {cp} /\ {row} \in (SUBSET CraftRows) \ {{}}
  BY DEF cp
<1>6. UNCHANGED tables /\ CopiesOf(h)' = {CopyOf(r) : r \in {row}}
  BY <1>2, <1>4, <1>5 DEF Request
<1>. QED BY <1>4, <1>5, <1>6, FindStep

LEMMA ManualCommitUses ==
  ASSUME L!TypeOK, Hands, NEW h \in Handlers, ManualCommit(h)
  PROVE  Hands' /\ [L!Next]_L!vars
<1> DEFINE old == cur[h]
           new == [old EXCEPT !.commit_repeats = 1]
<1>1. pc[h] = "manual commit" /\ CommitCraft(old, 1) /\ cur' = [cur EXCEPT ![h] = new]
      /\ pc' = [pc EXCEPT ![h] = "manual complete"] /\ UNCHANGED <<todo, resumed>>
  BY DEF ManualCommit, GoTo, Hands, AgentsShaped
<1>2. /\ h \in Agents /\ CopiesOf(h) = {old} /\ old # NoCopy
      /\ old \in [id : CraftIds, recipe_id : Recipes, repeats : Int \ {0}, commit_repeats : Int]
  BY <1>1, HandlerCopy
<1>3. new # NoCopy
  <2>1. new.id = old.id /\ old.id \in CraftIds
    BY <1>2
  <2>. QED BY <2>1, SomeCopy
<1> HIDE DEF new
<1>4. Handles(h, "manual complete", new)
  BY <1>1, <1>3 DEF Handles, Requested
<1>5. /\ Hands' /\ Apart(h)
      /\ CopiesOf(h)' = IF new = NoCopy THEN {} ELSE {new}
  BY <1>4, HandlerHands
<1>6. L!NoteCommit(h, old, 1)
  BY <1>2, <1>3, <1>5, CopyAfter DEF L!NoteCommit, new
<1>7. L!WithinBound(old, 1)
  BY <1>2, LedgerTypes DEF L!WithinBound, L!BoundedReserve, L!NoCraft, NoCraft
<1>8. L!Commit(h, old, 1) /\ 1 \in L!BatchSizes(old)
  BY <1>1, <1>6, <1>7, SameTransactions DEF L!Commit, L!BatchSizes
<1>9. L!Next
  BY <1>2, <1>8, OnCopyStep DEF L!OnCopy
<1>. QED BY <1>5, <1>9

\* The second transaction of a request, a completion or a cancellation.
LEMMA LastTransactionUses ==
  ASSUME L!TypeOK, Hands, NEW h \in Handlers, ManualComplete(h) \/ Cancel(h)
  PROVE  Hands' /\ [L!Next]_L!vars
<1>1. /\ pc[h] # "idle" /\ (CompleteCraft(cur[h]) \/ CancelCraft(cur[h]))
      /\ pc' = [pc EXCEPT ![h] = "done"] /\ UNCHANGED <<cur, todo, resumed>>
  BY DEF ManualComplete, Cancel, GoTo
<1>2. h \in Agents /\ CopiesOf(h) = {cur[h]} /\ cur[h] # NoCopy
  BY <1>1, HandlerCopy
<1>3. Handles(h, "done", cur[h])
  BY <1>1, <1>2 DEF Handles, Requested, Hands, AgentsShaped
<1>4. /\ Hands' /\ Apart(h)
      /\ CopiesOf(h)' = IF cur[h] = NoCopy THEN {} ELSE {cur[h]}
  BY <1>3, HandlerHands
<1>5. UNCHANGED [b \in Agents |-> CopiesOf(b)]
  BY <1>2, <1>4, CopyAfter
<1>6. L!Complete(h, cur[h]) \/ L!Cancel(h, cur[h])
  BY <1>1, <1>5, SameTransactions DEF L!Complete, L!Cancel
<1>7. L!Next
  BY <1>2, <1>6, OnCopyStep DEF L!OnCopy
<1>. QED BY <1>4, <1>7

LEMMA RespondUses ==
  ASSUME Hands, NEW h \in Handlers, Respond(h)
  PROVE  Hands' /\ [L!Next]_L!vars
<1>1. Handles(h, "idle", NoCopy) /\ UNCHANGED tables
  BY DEF Respond, GoTo, Handles
<1>2. /\ Hands' /\ Apart(h) /\ h \in Agents
      /\ CopiesOf(h)' = IF NoCopy = NoCopy THEN {} ELSE {NoCopy}
  BY <1>1, HandlerHands
<1>. QED BY <1>1, <1>2, ForgetStep

\* Everything a handler does is a step of the ledger, or none.
LEMMA HandlerUses ==
  ASSUME L!TypeOK, Hands, NEW h \in Handlers, Handle(h)
  PROVE  Hands' /\ [L!Next]_L!vars
BY RequestUses, ManualCommitUses, LastTransactionUses, RespondUses DEF Handle

\* Planning and counting change the tables alone.
LEMMA PlanUses ==
  ASSUME L!TypeOK, Hands, Schedule \/ Submit \/ Delete \/ Count
  PROVE  Hands' /\ [L!Next]_L!vars
<1>1. UNCHANGED callers
  BY DEF Schedule, Submit, Delete, Count
<1>2. Hands' /\ UNCHANGED [b \in Agents |-> CopiesOf(b)]
  BY <1>1 DEF callers, Hands, HandsOf, AgentsShaped, CopiesOf
<1>3. L!PlanIds = PlanIds /\ L!Recipes = Recipes
  BY DEF L!PlanIds, PlanIds, L!Recipes, Recipes
<1>4. CASE Schedule
  <2>1. PICK p \in PlanIds, shape \in PlanShapes, stock \in [Items -> 0..MaxStock] :
          InsertPlan(p, shape, stock)
    BY <1>4 DEF Schedule
  <2>2. L!BoundedReserve
    BY LedgerTypes DEF L!BoundedReserve
  <2>3. L!Schedule(p, shape)
    BY <1>2, <2>1, <2>2, SameTransactions DEF L!Schedule
  <2>. QED BY <1>2, <1>3, <2>3 DEF L!Next, L!OnPlan
<1>5. CASE Submit
  <2>1. PICK p \in PlanIds, r \in Recipes : \E n \in 1..planSteps[p][r] : InsertCraft(p, r, n)
    BY <1>5 DEF Submit
  <2>2. L!Submit(p, r)
    BY <1>2, <2>1, SameTransactions DEF L!Submit
  <2>. QED BY <1>2, <1>3, <2>2 DEF L!Next, L!OnPlan
<1>6. CASE Delete
  <2>1. PICK p \in PlanIds : RemovePlan(p)
    BY <1>6 DEF Delete
  <2>2. L!Delete(p)
    BY <1>2, <2>1, SameTransactions DEF L!Delete
  <2>. QED BY <1>2, <1>3, <2>2 DEF L!Next, L!OnPlan
<1>7. CASE Count
  <2>1. PICK u \in Items, n \in 1..MaxStock : UpdateItemCount(u, n)
    BY <1>7 DEF Count
  <2>2. L!Count(u, n)
    BY <1>2, <2>1, SameTransactions DEF L!Count
  <2>. QED BY <1>2, <2>2 DEF L!Next
<1>. QED BY <1>4, <1>5, <1>6, <1>7

\* After a restart nobody holds a copy.
LEMMA CrashUses ==
  ASSUME Crash
  PROVE  Hands' /\ [L!Next]_L!vars
<1>1. \A a \in Agents : pc'[a] = "idle" /\ cur'[a] = NoCopy
  BY DEF Crash
<1>2. \A w \in Workers : todo'[w] = {} /\ w \in Agents
  BY DEF Crash, Agents
<1>3. AgentsShaped' /\ (resumed = [w \in Workers |-> resumed[w]])'
  BY DEF Crash, AgentsShaped
<1>4. Hands'
  BY <1>1, <1>2, <1>3 DEF Hands, HandsOf, Agents, Free, Busy, Fresh
<1>5. [a \in Agents |-> CopiesOf(a)]' = [a \in Agents |-> {}]
  BY <1>1, <1>2 DEF CopiesOf
<1>6. L!Crash
  BY <1>5 DEF Crash, L!Crash, L!tables, tables
<1>. QED BY <1>4, <1>6 DEF L!Next

\* Every step of the service is one of the ledger, or leaves it alone.
LEMMA NextUses ==
  ASSUME L!TypeOK, Hands, [Next]_vars
  PROVE  Hands' /\ [L!Next]_L!vars
<1>1. CASE UNCHANGED vars
  <2>1. Hands' /\ UNCHANGED [a \in Agents |-> CopiesOf(a)]
    BY <1>1 DEF vars, callers, Hands, HandsOf, AgentsShaped, CopiesOf
  <2>. QED BY <1>1, <2>1 DEF vars, tables, L!vars, L!tables
<1>2. CASE \E w \in Workers : OwnStep(w) \/ Answered(w) \/ CallFails(w)
  BY <1>2, WorkerUses
<1>3. CASE \E h \in Handlers : Handle(h)
  BY <1>3, HandlerUses
<1>. QED BY <1>1, <1>2, <1>3, PlanUses, CrashUses DEF Next

LEMMA InitUses == Init => Hands /\ L!Init
<1> SUFFICES ASSUME Init PROVE Hands /\ L!Init
  OBVIOUS
<1>1. \A a \in Agents : pc[a] = "idle" /\ cur[a] = NoCopy
  BY DEF Init
<1>2. \A w \in Workers : todo[w] = {} /\ w \in Agents
  BY DEF Init, Agents
<1>3. AgentsShaped /\ resumed = [w \in Workers |-> resumed[w]]
  BY DEF Init, AgentsShaped
<1>4. Hands
  BY <1>1, <1>2, <1>3 DEF Hands, HandsOf, Agents, Free, Busy, Fresh
<1>5. [a \in Agents |-> CopiesOf(a)] = [a \in Agents |-> {}]
  BY <1>1, <1>2 DEF CopiesOf
<1>6. L!InitTables
  BY DEF Init, InitTables, L!InitTables, L!PlanIds, PlanIds, L!Nothing, Nothing,
         L!Recipes, Recipes, L!CraftIds, CraftIds, L!NoCraft, NoCraft
<1>. QED BY <1>4, <1>5, <1>6 DEF L!Init

\* L and Ledger are the same instance, with and without its theorems.
LEMMA SameLedger ==
  /\ L!Init <=> Ledger!Init
  /\ [L!Next]_L!vars <=> [Ledger!Next]_Ledger!vars
BY DEF L!Recipes, L!PlanIds, L!CraftIds, L!tables, L!planTables, L!CraftRow,
         L!NoCraft, L!CraftRows, L!CopyOf, L!Nothing, L!IsNextRowid, L!Batch,
         L!Released, L!Consumed, L!Acquired, L!InitTables, L!InsertPlan,
         L!RemovePlan, L!InsertCraft, L!AssignCraftToWorker, L!Committable,
         L!Commited, L!Completed, L!NotWaiting, L!CommitCraft, L!CompleteCraft,
         L!CommitAndComplete, L!CommitAndWait, L!CompleteWorkerWait,
         L!CancelCraft, L!Missing, L!Dealt, L!UpdateItemCount,
         L!ClearActualReserves, L!SumTo, L!vars, L!Init, L!Find, L!Forget,
         L!Crash, L!NoteCommit, L!BatchSizes, L!BoundedReserve, L!WithinBound,
         L!Schedule, L!Delete, L!Submit, L!Assign, L!Commit, L!Complete,
         L!CommitComplete, L!CommitWait, L!CompleteWait, L!Cancel, L!Count,
         L!Clear, L!OnCopy, L!OnPlan, L!Next, Ledger!Recipes, Ledger!PlanIds,
         Ledger!CraftIds, Ledger!tables, Ledger!planTables, Ledger!CraftRow,
         Ledger!NoCraft, Ledger!CraftRows, Ledger!CopyOf, Ledger!Nothing,
         Ledger!IsNextRowid, Ledger!Batch, Ledger!Released, Ledger!Consumed,
         Ledger!Acquired, Ledger!InitTables, Ledger!InsertPlan,
         Ledger!RemovePlan, Ledger!InsertCraft, Ledger!AssignCraftToWorker,
         Ledger!Committable, Ledger!Commited, Ledger!Completed,
         Ledger!NotWaiting, Ledger!CommitCraft, Ledger!CompleteCraft,
         Ledger!CommitAndComplete, Ledger!CommitAndWait,
         Ledger!CompleteWorkerWait, Ledger!CancelCraft, Ledger!Missing,
         Ledger!Dealt, Ledger!UpdateItemCount, Ledger!ClearActualReserves,
         Ledger!SumTo, Ledger!vars, Ledger!Init, Ledger!Find, Ledger!Forget,
         Ledger!Crash, Ledger!NoteCommit, Ledger!BatchSizes,
         Ledger!BoundedReserve, Ledger!WithinBound, Ledger!Schedule,
         Ledger!Delete, Ledger!Submit, Ledger!Assign, Ledger!Commit,
         Ledger!Complete, Ledger!CommitComplete, Ledger!CommitWait,
         Ledger!CompleteWait, Ledger!Cancel, Ledger!Count, Ledger!Clear,
         Ledger!OnCopy, Ledger!OnPlan, Ledger!Next

\* The refinement: whatever workers and handlers do and whatever fails, the
\* tables only see the calls CraftLedger allows: one transaction at a time, on
\* a row the caller has read itself.  With it go what agents have at hand and
\* the types of the tables.
LEMMA StepsUse == Spec => Ledger!Spec /\ [](Hands /\ L!TypeOK)
<1> DEFINE Inv == Hands /\ L!TypeOK
<1>1. Init => Inv /\ Ledger!Init
  BY InitUses, SameLedger, LedgerAssumptions, L!InitTypeOK
<1>2. Inv /\ [Next]_vars => Inv' /\ [Ledger!Next]_Ledger!vars
  BY NextUses, SameLedger, LedgerAssumptions, L!NextTypeOK
<1>. QED BY <1>1, <1>2, PTL DEF Spec, Ledger!Spec

THEOREM UsesTheLedger == Spec => UsesLedger
BY StepsUse, PTL DEF UsesLedger

-----------------------------------------------------------------------------
(***************************************************************************)
(* One worker for each craft, with handlers at work, too.  Until a handler *)
(* takes a craft away from a worker, all is as among workers.              *)
(***************************************************************************)
\* The shapes of IInv hold whatever handlers do.
LEMMA Shaped ==
  ASSUME L!TypeOK, Hands
  PROVE  RowsShaped /\ AgentsShaped /\ AtHand
<1>1. RowsShaped /\ AgentsShaped
  BY LedgerTypes DEF Hands
<1>2. \A a \in Agents : \A cp \in CopiesOf(a) : IsCopy(cp)
  BY LedgerTypes DEF IsCopy
<1>3. ASSUME NEW w \in Workers
      PROVE  /\ pc[w] \in Free \union Busy \union {"done"}
             /\ pc[w] \in Free => cur[w] = NoCopy
             /\ pc[w] \in Busy => IsCopy(cur[w])
             /\ \A cp \in todo[w] : IsCopy(cp)
  <2>1. HandsOf(pc[w], cur[w], todo[w], resumed[w])
    BY DEF Hands
  <2>. QED BY <1>2, <2>1, HeldCopies, Kinds DEF HandsOf
<1>. QED BY <1>1, <1>3 DEF AtHand

\* A handler that ends no craft a worker is at leaves the workers theirs: the
\* rows it commits and completes keep their worker.
LEMMA HandlerKeeps ==
  ASSUME IInv, NEW h \in Handlers, Handle(h), ~meddled'
  PROVE  Owned'
<1>1. ASSUME NEW w \in Workers  PROVE  pc'[w] = pc[w] /\ cur'[w] = cur[w]
  <2>1. w # h /\ w \in Agents
    BY ServiceAssumption DEF Agents
  <2>2. \E l, cp : pc' = [pc EXCEPT ![h] = l] /\ (cur' = cur \/ cur' = [cur EXCEPT ![h] = cp])
    BY DEF Handle, Request, ManualCommit, ManualComplete, Cancel, Respond, GoTo
  <2>. QED BY <2>1, <2>2 DEF IInv, AgentsShaped
<1> SUFFICES ASSUME NEW w \in Workers, pc[w] \in Busy  PROVE  Has(w, cur[w])'
  BY <1>1 DEF Owned
<1> DEFINE c == cur[h].id
           d == cur[w].id
<1>2. /\ d \in CraftIds /\ craft[d] # NoCraft /\ craft[d].worker_id = w
      /\ IsRow(d, craft[d]) /\ cur[w] # NoCopy /\ pc[w] # "done"
  BY OwnCraft, SomeCopy, Kinds
<1>3. craft = [i \in CraftIds |-> craft[i]]
  BY DEF IInv, RowsShaped
<1> SUFFICES craft'[d] # NoCraft /\ craft'[d].worker_id = w
  BY <1>1 DEF Has
<1>4. PICK row : /\ row = craft[d]
                 /\ Commited(row, 1) # NoCraft /\ Commited(row, 1).worker_id = w
                 /\ Completed(row) = NoCraft \/ Completed(row).worker_id = w
  <2>1. PICK row : row = craft[d]
    OBVIOUS
  <2>2. IsRow(d, row) /\ row.worker_id = w
    BY <1>2, <2>1
  <2> HIDE DEF d
  <2>3. /\ Commited(row, 1) # NoCraft /\ Commited(row, 1).worker_id = row.worker_id
        /\ Completed(row) = NoCraft \/ Completed(row).worker_id = row.worker_id
    BY <1>2, <2>2, RowsKept
  <2>. QED BY <2>1, <2>2, <2>3
<1>5. CASE craft' = craft
  BY <1>2, <1>5
<1>6. CASE ManualCommit(h)
  <2>1. craft' = [craft EXCEPT ![c] = Commited(craft[c], 1)]
    BY <1>6 DEF ManualCommit, CommitCraft
  <2>2. Commited(row, 1) # NoCraft /\ Commited(row, 1).worker_id = w
    BY <1>4
  <2>. QED BY <1>2, <1>3, <1>4, <2>1, <2>2
<1>7. CASE ManualComplete(h) \/ Cancel(h)
  <2>1. PICK new : craft' = [craft EXCEPT ![c] = new] /\ (new = NoCraft \/ new = Completed(craft[c]))
    BY <1>7 DEF ManualComplete, Cancel, CompleteCraft, CancelCraft
  <2>2. ~TakesAway(c)
    BY <1>7 DEF ManualComplete, Cancel
  <2>3. CASE c = d
    <3>1. craft'[d] = new
      BY <1>2, <1>3, <2>1, <2>3
    <3>2. craft'[d] # NoCraft
      BY <1>2, <2>2, <2>3 DEF TakesAway
    <3>3. new = Completed(row)
      BY <1>4, <2>1, <2>3, <3>1, <3>2
    <3>. QED BY <1>4, <3>1, <3>2, <3>3
  <2>4. CASE c # d
    BY <1>2, <1>3, <2>1, <2>4
  <2>. QED BY <2>3, <2>4
<1>8. CASE Request(h, "manual commit") \/ Request(h, "cancel") \/ Respond(h)
  BY <1>5, <1>8 DEF Request, Respond, tables
<1>. QED BY <1>6, <1>7, <1>8 DEF Handle

\* What each step says of meddled.
LEMMA MeddledAfter ==
  ASSUME [Next]_vars
  PROVE  \/ meddled' = meddled
         \/ Crash /\ meddled' = FALSE
         \/ \E c : meddled' = (meddled \/ TakesAway(c))
BY DEF Next, vars, callers, OwnStep, Answered, Handle, FindCurrent, GetTypes, FindNext, Assign,
       Skip, EndOfList, Dump, Load, Commit, CommitFails, Call, NothingToCraft, CallFails, Complete, CompleteFails,
       Done, GiveUp, Request, ManualCommit, ManualComplete, Cancel, Respond, Schedule, Submit,
       Delete, Count, Crash

LEMMA NextOwned ==
  ASSUME Hands, L!TypeOK, ~meddled => Owned, [Next]_vars
  PROVE  (~meddled => Owned)'
<1> SUFFICES ASSUME ~meddled'  PROVE  Owned'
  OBVIOUS
<1>1. CASE Crash
  BY <1>1, CrashUses DEF Crash, Owned, Busy, Agents
<1>2. CASE ~Crash
  <2>1. ~meddled
    BY <1>2, MeddledAfter
  <2>2. IInv
    BY <2>1, Shaped DEF IInv
  <2>3. CASE UNCHANGED vars
    BY <2>2, <2>3 DEF vars, tables, callers, IInv, Owned, Has
  <2>4. CASE \E w \in Workers : OwnStep(w) \/ Answered(w) \/ CallFails(w)
    BY <2>2, <2>4, WorkerInv DEF IInv
  <2>5. CASE \E h \in Handlers : Handle(h)
    BY <2>2, <2>5, HandlerKeeps
  <2>6. CASE Schedule \/ Submit \/ Delete \/ Count
    BY <2>2, <2>6, SubmitInv, PlanInv DEF IInv
  <2>. QED BY <1>2, <2>3, <2>4, <2>5, <2>6 DEF Next
<1>. QED BY <1>1, <1>2

\* A craft is in the hands of one worker at most (OneWorkerPerCraft), until a
\* handler ends a craft that a worker is at, and again after a restart: the row
\* of a craft that is worked on carries the name of the worker, no other worker
\* ends it, and no new craft gets its rowid.
THEOREM OneWorker == Spec => []OneWorkerPerCraft
<1>1. Init => (~meddled => Owned)
  BY DEF Init, Owned, Busy, Agents
<1>2. Hands /\ L!TypeOK /\ (~meddled => Owned) /\ [Next]_vars => (~meddled => Owned)'
  BY NextOwned
<1>3. Hands /\ L!TypeOK /\ (~meddled => Owned) => OneWorkerPerCraft
  <2> SUFFICES ASSUME Hands, L!TypeOK, Owned, NEW v \in Workers, NEW w \in Workers,
                      cur[v] # NoCopy, cur[w] # NoCopy, cur[v].id = cur[w].id,
                      pc[v] # "done", pc[w] # "done"
               PROVE  v = w
    BY DEF OneWorkerPerCraft
  <2>1. IInv
    BY Shaped DEF IInv
  <2>2. pc[v] \in Busy /\ pc[w] \in Busy
    BY <2>1 DEF IInv, AtHand
  <2>. QED BY <2>1, <2>2, OwnCraft
<1>. QED BY <1>1, <1>2, <1>3, StepsUse, PTL DEF Spec

-----------------------------------------------------------------------------
(***************************************************************************)
(* Types.  What agents have at hand and the copies are typed already, by   *)
(* Hands and by the types of the ledger.                                   *)
(***************************************************************************)
ClientsOK ==
  /\ active \in [Workers -> BOOLEAN] /\ resumed \in [Workers -> BOOLEAN]
  /\ machine \in [Workers -> Batches \union {Empty}]

\* The batch of a copy is a number, of any sign.
LEMMA SizeOfBatch ==
  ASSUME NEW cp, cp.recipe_id \in Recipes, cp.repeats \in Int
  PROVE  BatchSize(cp) \in Int
BY ServiceAssumption DEF BatchSize

\* Calls leave something in the client that it can hold.
LEMMA StagesOK ==
  ASSUME NEW batch \in Batches \union {Empty}
  PROVE  /\ Dumped(batch) \in Batches \union {Empty}
         /\ Performed(batch) \in Batches \union {Empty}
         /\ batch.stage = "loaded" => [batch EXCEPT !.stage = "crafted"] \in Batches
         /\ batch.stage = "loaded" => batch \in Batches
BY DEF Dumped, Performed, Batches, Empty

\* What is loaded is a batch of the worker's craft, or nothing.
LEMMA FilledOK ==
  ASSUME L!TypeOK, Hands, NEW w \in Workers, pc[w] \in Busy, NEW batch \in Batches \union {Empty}
  PROVE  Filled(cur[w], batch) \in Batches \union {Empty}
<1>1. w \in Agents /\ cur[w] \in CopiesOf(w)
  BY HeldCopies, Kinds
<1>2. cur[w].recipe_id \in Recipes /\ cur[w].repeats \in Int \ {0}
  BY <1>1, LedgerTypes
<1>3. BatchSize(cur[w]) \in Int
  BY <1>2, SizeOfBatch
<1>. QED BY <1>2, <1>3 DEF Batches, Filled

LEMMA ClientsStep ==
  ASSUME L!TypeOK, Hands, ClientsOK, [Next]_vars
  PROVE  ClientsOK'
<1>1. ASSUME UNCHANGED machine, active' \in [Workers -> BOOLEAN], resumed' \in [Workers -> BOOLEAN]
      PROVE  ClientsOK'
  BY <1>1 DEF ClientsOK
<1>2. ASSUME NEW w \in Workers, OwnStep(w), ~Complete(w) PROVE ClientsOK'
  BY <1>1, <1>2 DEF ClientsOK, OwnStep, FindCurrent, FindNext, Assign, Skip, EndOfList, Commit,
     CommitFails, CompleteFails, Done, GiveUp
<1>3. ASSUME NEW w \in Workers, NEW batch \in Batches \union {Empty},
             machine' = [machine EXCEPT ![w] = batch], UNCHANGED <<active, resumed>>
      PROVE  ClientsOK'
  BY <1>3 DEF ClientsOK
<1>4. ASSUME NEW w \in Workers, Complete(w) \/ Answered(w) PROVE ClientsOK'
  <2>1. machine[w] \in Batches \union {Empty} /\ Empty \in Batches \union {Empty}
    BY DEF ClientsOK
  <2>2. CASE Complete(w)
    BY <2>1, <2>2, <1>3 DEF Complete
  <2>3. CASE GetTypes(w)
    BY <2>3, <1>1 DEF GetTypes, ClientsOK
  <2>4. CASE Dump(w)
    BY <2>1, <2>4, <1>3, StagesOK DEF Dump
  <2>5. CASE Load(w)
    <3>1. pc[w] \in Busy
      BY <2>5 DEF Load, Busy
    <3>. QED BY <2>1, <2>5, <3>1, <1>3, FilledOK DEF Load
  <2>6. CASE Call(w)
    BY <2>1, <2>6, <1>3, StagesOK DEF Call
  <2>7. CASE NothingToCraft(w)
    BY <2>7, <1>1 DEF NothingToCraft, GiveUp, ClientsOK
  <2>. QED BY <1>4, <2>2, <2>3, <2>4, <2>5, <2>6, <2>7 DEF Answered
<1>5. ASSUME NEW w \in Workers, CallFails(w) PROVE ClientsOK'
  <2>1. PICK batch \in Outcomes(w) : machine' = [machine EXCEPT ![w] = batch]
    BY <1>5 DEF CallFails
  <2>2. machine[w] \in Batches \union {Empty}
    BY DEF ClientsOK
  <2>3. batch \in Batches \union {Empty}
    <3>1. CASE pc[w] = "load"
      <4>1. pc[w] \in Busy
        BY <3>1 DEF Busy
      <4>. QED BY <2>1, <2>2, <3>1, <4>1, FilledOK DEF Outcomes
    <3>2. CASE pc[w] # "load"
      BY <2>1, <2>2, <3>2, StagesOK DEF Outcomes
    <3>. QED BY <3>1, <3>2
  <2>. QED BY <1>5, <2>1, <2>3, <1>3 DEF CallFails, GiveUp
<1>6. ASSUME NEW h \in Handlers, Handle(h) PROVE ClientsOK'
  BY <1>1, <1>6 DEF ClientsOK, Handle, Request, ManualCommit, ManualComplete, Cancel, Respond
<1>7. Schedule \/ Submit \/ Delete \/ Count \/ Crash \/ UNCHANGED vars => ClientsOK'
  BY <1>1 DEF ClientsOK, Schedule, Submit, Delete, Count, Crash, vars, callers
<1>. QED BY <1>2, <1>4, <1>5, <1>6, <1>7 DEF Next

\* The types follow.
LEMMA TypesOfParts ==
  ASSUME L!TypeOK, Hands, ClientsOK, meddled \in BOOLEAN
  PROVE  TypeOK
<1>1. pc \in [Agents -> {"idle", "types", "select", "next", "dump", "load", "commit", "call",
                        "restore", "complete", "manual commit", "manual complete", "cancel", "done"}]
  <2>1. \A a \in Agents : pc[a] \in Free \union Busy \union Requested
    BY DEF Hands, HandsOf, Agents, Free, Requested
  <2>. QED BY <2>1 DEF Hands, AgentsShaped, Free, Busy, Requested
<1>2. ASSUME NEW a \in Agents
      PROVE  IF pc[a] \in {"idle", "types", "select", "next"} THEN cur[a] = NoCopy
             ELSE cur[a].id \in CraftIds /\ cur[a].recipe_id \in Recipes
                  /\ cur[a].repeats \in Int \ {0}
  <2>1. pc[a] \in Free <=> cur[a] = NoCopy
    BY DEF Hands, HandsOf, Agents, Free, Requested
  <2>2. cur[a] # NoCopy => cur[a] \in CopiesOf(a)
    BY DEF CopiesOf
  <2>. QED BY <2>1, <2>2, LedgerTypes DEF Free
<1>3. ASSUME NEW w \in Workers
      PROVE  /\ pc[w] # "next" /\ cur[w] = NoCopy => todo[w] = {}
             /\ \A cp \in todo[w] : cp.id \in CraftIds
  BY HeldCopies DEF Hands, HandsOf, Free, Listing
<1>. QED BY <1>1, <1>2, <1>3 DEF TypeOK, ClientsOK

\* Type correctness, for any number of workers and handlers and with calls
\* that fail: an agent is where its code can be, has a craft at hand exactly
\* while it works on one, and a client never holds more than one batch.
THEOREM ServiceTypes == Spec => []TypeOK
<1> DEFINE Inv == Hands /\ L!TypeOK
           Boolean == meddled \in BOOLEAN
<1>1. Init => ClientsOK
  BY DEF Init, ClientsOK
<1>2. Inv /\ ClientsOK /\ [Next]_vars => ClientsOK'
  BY ClientsStep
<1>3. Init => Boolean
  BY DEF Init
<1>4. Boolean /\ [Next]_vars => Boolean'
  <2>1. [Next]_vars => \/ meddled' = meddled \/ meddled' = FALSE
                       \/ \E c : meddled' = (meddled \/ TakesAway(c))
    BY MeddledAfter
  <2>. QED BY <2>1
<1>5. Inv /\ ClientsOK /\ Boolean => TypeOK
  BY TypesOfParts
<1>6. Spec => []Inv
  BY StepsUse, PTL
<1> HIDE DEF Inv, Boolean
<1>. QED BY <1>1, <1>2, <1>3, <1>4, <1>5, <1>6, PTL DEF Spec

-----------------------------------------------------------------------------
(***************************************************************************)
(* What workers among themselves do to the rows of each other, and what a  *)
(* commit in the table says while they go on.                              *)
(***************************************************************************)
\* A worker changes one row at most, one that it has or that nobody has.
LEMMA WorkerRow ==
  ASSUME IInv, NEW w \in Workers, OwnStep(w) \/ Answered(w) \/ CallFails(w), craft' # craft
  PROVE  \E c, row : /\ craft' = [craft EXCEPT ![c] = row]
                     /\ craft[c].worker_id \in {w, NoWorker}
<1>1. CASE Assign(w)
  BY <1>1 DEF Assign, AssignCraftToWorker
<1>2. ASSUME pc[w] \in Busy, NEW row, craft' = [craft EXCEPT ![cur[w].id] = row]
      PROVE  \E c, new : /\ craft' = [craft EXCEPT ![c] = new]
                         /\ craft[c].worker_id \in {w, NoWorker}
  BY <1>2, OwnCraft
<1>3. CASE Commit(w)
  BY <1>3, <1>2 DEF Commit, CommitCraft, Busy
<1>4. CASE Complete(w)
  BY <1>4, <1>2 DEF Complete, CompleteCraft, Busy
<1>5. Assign(w) \/ Commit(w) \/ Complete(w)
  BY DEF OwnStep, Answered, FindCurrent, FindNext, Skip, EndOfList, CommitFails, CompleteFails,
     Done, GetTypes, Dump, Load, Call, NothingToCraft, CallFails, tables
<1>. QED BY <1>1, <1>3, <1>4, <1>5

\* The others keep what they have at hand, in the client and in the table.
LEMMA OthersRows ==
  ASSUME IInv, NEW w \in Workers, OwnStep(w) \/ Answered(w) \/ CallFails(w),
         NEW v \in Workers \ {w}, machine = [x \in Workers |-> machine[x]]
  PROVE  /\ pc'[v] = pc[v] /\ cur'[v] = cur[v] /\ todo'[v] = todo[v] /\ machine'[v] = machine[v]
         /\ pc[v] \in Busy => craft'[cur[v].id] = craft[cur[v].id]
<1>1. v \in Agents
  BY DEF Agents
<1>2. pc'[v] = pc[v]
  BY <1>1 DEF OwnStep, Answered, FindCurrent, FindNext, Assign, Skip, EndOfList, Commit,
     CommitFails, Complete, CompleteFails, Done, GetTypes, Dump, Load, Call, NothingToCraft, CallFails, GiveUp, GoTo,
     IInv, AgentsShaped
<1>3. cur'[v] = cur[v] /\ todo'[v] = todo[v]
  BY <1>1 DEF OwnStep, Answered, FindCurrent, FindNext, Assign, Skip, EndOfList, Commit,
     CommitFails, Complete, CompleteFails, Done, GetTypes, Dump, Load, Call, NothingToCraft, CallFails, GiveUp,
     IInv, AgentsShaped
<1>4. machine'[v] = machine[v]
  BY DEF OwnStep, Answered, FindCurrent, FindNext, Assign, Skip, EndOfList, Commit,
     CommitFails, Complete, CompleteFails, Done, GetTypes, Dump, Load, Call, NothingToCraft, CallFails
<1>5. ASSUME pc[v] \in Busy, craft' # craft PROVE craft'[cur[v].id] = craft[cur[v].id]
  <2>1. PICK c, row : /\ craft' = [craft EXCEPT ![c] = row]
                      /\ craft[c].worker_id \in {w, NoWorker}
    BY <1>5, WorkerRow
  <2>2. cur[v].id \in CraftIds /\ craft[cur[v].id].worker_id = v
    BY <1>5, OwnCraft
  <2>3. cur[v].id # c
    BY <2>1, <2>2, TablesAssumption
  <2>. QED BY <2>1, <2>2, <2>3 DEF IInv, RowsShaped
<1>. QED BY <1>2, <1>3, <1>4, <1>5

\* Planning and counting leave the rows alone that there are.
LEMMA PlanRows ==
  ASSUME IInv, Schedule \/ Submit \/ Delete \/ Count, NEW c \in CraftIds, craft[c] # NoCraft
  PROVE  craft'[c] = craft[c]
<1>1. CASE Submit
  <2>1. PICK p, r, n : InsertCraft(p, r, n)
    BY <1>1 DEF Submit
  <2>2. PICK d \in CraftIds : /\ IsNextRowid(d, {i \in CraftIds : craft[i] # NoCraft})
                              /\ \E row : craft' = [craft EXCEPT ![d] = row]
    BY <2>1 DEF InsertCraft
  <2>3. d # c
    BY <2>2, TablesAssumption DEF IsNextRowid, CraftIds
  <2>. QED BY <2>2, <2>3 DEF IInv, RowsShaped
<1>2. CASE Schedule \/ Delete \/ Count
  BY <1>2 DEF Schedule, Delete, Count, InsertPlan, RemovePlan, UpdateItemCount
<1>. QED BY <1>1, <1>2

Loaded(cp) == [recipe_id |-> cp.recipe_id, repeats |-> BatchSize(cp), stage |-> "loaded"]

\* What a client holds that was given the batch of cp: none, if it is empty.
GoesWith(cp, batch) ==
  IF BatchSize(cp) > 0 THEN batch = Loaded(cp) ELSE batch.stage # "loaded"

\* What the table and the client of a worker say of the batch it is at.
Noted(w) ==
  /\ pc[w] \in {"call", "restore", "complete"} => craft[cur[w].id].status = "COMMITED"
  /\ pc[w] = "load" => machine[w].stage # "loaded"
  /\ pc[w] \in {"commit", "call"} => GoesWith(cur[w], machine[w])
  /\ pc[w] = "call" => craft[cur[w].id].commit_repeats = BatchSize(cur[w])

Notes == machine = [w \in Workers |-> machine[w]] /\ \A w \in Workers : Noted(w)

\* FindCurrent sends a worker to Restore for a COMMITED craft alone.
LEMMA FindCurrentNotes ==
  ASSUME L!TypeOK, IInv, NEW w \in Workers, FindCurrent(w)
  PROVE  Noted(w)'
<1> DEFINE mine == {row \in CraftRows : row.worker_id = w}
<1>1. craft' = craft /\ pc[w] = "idle" /\ w \in Agents
  BY DEF FindCurrent, tables, Agents
<1>2. CASE mine = {}
  BY <1>1, <1>2 DEF FindCurrent, GoTo, Noted, IInv, AgentsShaped
<1>3. CASE mine # {}
  <2> DEFINE row == Lowest(mine)
  <2>1. /\ pc'[w] = IF row.status = "PENDING" THEN "dump" ELSE "restore"
        /\ cur'[w] = CopyOf(row)
    BY <1>1, <1>3 DEF FindCurrent, GoTo, IInv, AgentsShaped
  <2>2. row \in mine
    <3>1. \A r \in mine : r.id \in CraftIds
      BY RowsFound DEF IInv
    <3>. QED BY <3>1, <1>3, LowestIsOne
  <2>3. row.id \in CraftIds /\ row = craft[row.id] /\ row # NoCraft
    BY <2>2, RowsFound DEF IInv
  <2> HIDE DEF row
  <2>4. row.status \in {"PENDING", "COMMITED"}
    BY <2>3 DEF L!TypeOK, L!CraftRow, L!CraftIds, CraftIds, L!NoCraft, NoCraft
  <2>5. CopyOf(row).id = row.id
    BY DEF CopyOf
  <2>. QED BY <1>1, <2>1, <2>3, <2>4, <2>5 DEF Noted
<1>. QED BY <1>2, <1>3

\* The commit of the batch that is loaded.
LEMMA CommitNotes ==
  ASSUME L!TypeOK, IInv, Notes, NEW w \in Workers, Commit(w)
  PROVE  Noted(w)'
<1> DEFINE c == cur[w].id
           n == BatchSize(cur[w])
           cp == [cur[w] EXCEPT !.commit_repeats = n]
<1>1. /\ pc[w] = "commit" /\ w \in Agents /\ craft' = [craft EXCEPT ![c] = Commited(craft[c], n)]
      /\ pc'[w] = "call" /\ cur'[w] = cp /\ machine' = machine
  BY DEF Commit, CommitCraft, GoTo, IInv, AgentsShaped, Agents
<1>2. IsCopy(cur[w]) /\ c \in CraftIds /\ craft[c] # NoCraft /\ IsRow(c, craft[c])
  BY <1>1, OwnCraft DEF Busy
<1>3. cp.id = c /\ cp.recipe_id = cur[w].recipe_id /\ cp.repeats = cur[w].repeats
  BY <1>2 DEF IsCopy
<1>4. BatchSize(cp) = n /\ GoesWith(cp, machine[w])
  <2>1. BatchSize(cp) = n /\ Loaded(cp) = Loaded(cur[w])
    BY <1>3 DEF BatchSize, Loaded
  <2>2. GoesWith(cur[w], machine[w])
    BY <1>1 DEF Notes, Noted
  <2> HIDE DEF n, cp
  <2>. QED BY <2>1, <2>2 DEF GoesWith, n
<1> DEFINE new == Commited(craft[c], n)
<1>5. new.status = "COMMITED" /\ new.commit_repeats = n
  BY <1>2 DEF Commited, IsRow
<1>6. craft'[c] = new
  BY <1>1, <1>2 DEF IInv, RowsShaped
<1> HIDE DEF c, n, cp, new
<1>. QED BY <1>1, <1>3, <1>4, <1>5, <1>6 DEF Noted

\* A worker's own step.
LEMMA OwnNotes ==
  ASSUME L!TypeOK, ClientsOK, IInv, Notes, NEW w \in Workers,
         OwnStep(w) \/ Answered(w) \/ CallFails(w)
  PROVE  Noted(w)'
<1>1. w \in Agents
  BY DEF Agents
<1>2. CASE Load(w)
  <2>1. /\ pc[w] = "load" /\ pc'[w] = "commit" /\ cur'[w] = cur[w]
        /\ machine'[w] = Filled(cur[w], machine[w])
    BY <1>1, <1>2 DEF Load, GoTo, Notes, IInv, AgentsShaped
  <2>2. machine[w].stage # "loaded"
    BY <2>1 DEF Notes, Noted
  <2>3. GoesWith(cur[w], machine'[w])
    BY <2>1, <2>2 DEF GoesWith, Filled, Loaded
  <2>4. GoesWith(cur[w], machine[w])'
    BY <2>1, <2>3 DEF GoesWith, BatchSize, Loaded
  <2>. QED BY <2>1, <2>4 DEF Noted
<1>3. CASE Call(w)
  BY <1>1, <1>3 DEF Call, GoTo, tables, Noted, Notes, IInv, AgentsShaped
<1>4. ASSUME pc'[w] \notin {"load", "commit", "call", "restore", "complete"} PROVE Noted(w)'
  BY <1>4 DEF Noted
<1>6. CASE Dump(w)
  <2>1. machine[w] \in Batches \union {Empty}
    BY DEF ClientsOK
  <2>2. Dumped(machine[w]).stage # "loaded"
    BY <2>1 DEF Dumped, Batches, Empty
  <2>3. pc'[w] = "load" /\ machine'[w] = Dumped(machine[w])
    BY <1>1, <1>6 DEF Dump, GoTo, Notes, IInv, AgentsShaped
  <2>. QED BY <2>2, <2>3 DEF Noted
<1>5. CASE FindNext(w) \/ Assign(w) \/ Skip(w) \/ EndOfList(w) \/ CommitFails(w) \/ Complete(w)
           \/ CompleteFails(w) \/ Done(w) \/ GetTypes(w) \/ NothingToCraft(w) \/ CallFails(w)
  BY <1>1, <1>4, <1>5 DEF FindNext, Assign, Skip, EndOfList, CommitFails, Complete, CompleteFails,
     Done, GetTypes, NothingToCraft, CallFails, GiveUp, GoTo, IInv, AgentsShaped
<1>. QED BY <1>2, <1>3, <1>5, <1>6, FindCurrentNotes, CommitNotes DEF OwnStep, Answered

LEMMA NotesStep ==
  ASSUME Handlers = {}, L!TypeOK, ClientsOK, IInv, Notes, [Next]_vars
  PROVE  Notes'
<1>1. ASSUME NEW w \in Workers, OwnStep(w) \/ Answered(w) \/ CallFails(w) PROVE Notes'
  <2>1. Noted(w)'
    BY <1>1, OwnNotes
  <2>2. ASSUME NEW v \in Workers \ {w} PROVE Noted(v)'
    <3>1. /\ pc'[v] = pc[v] /\ cur'[v] = cur[v] /\ machine'[v] = machine[v]
          /\ pc[v] \in Busy => craft'[cur[v].id] = craft[cur[v].id]
      BY <1>1, OthersRows DEF Notes
    <3>. QED BY <3>1 DEF Notes, Noted, Busy, GoesWith, BatchSize, Loaded
  <2>3. (machine = [x \in Workers |-> machine[x]])'
    BY <1>1 DEF Notes, OwnStep, Answered, FindCurrent, FindNext, Assign, Skip, EndOfList, Commit,
       CommitFails, Complete, CompleteFails, Done, GetTypes, Dump, Load, Call, NothingToCraft, CallFails
  <2>. QED BY <2>1, <2>2, <2>3 DEF Notes
<1>2. CASE Schedule \/ Submit \/ Delete \/ Count
  <2>1. UNCHANGED <<pc, cur, machine>>
    BY <1>2 DEF Schedule, Submit, Delete, Count, callers
  <2>2. ASSUME NEW w \in Workers, pc[w] \in Busy PROVE craft'[cur[w].id] = craft[cur[w].id]
    BY <1>2, <2>2, PlanRows, OwnCraft
  <2>3. ASSUME NEW w \in Workers PROVE Noted(w)'
    BY <2>1, <2>2 DEF Notes, Noted, Busy, GoesWith, BatchSize, Loaded
  <2>. QED BY <2>1, <2>3 DEF Notes
<1>3. CASE Crash
  BY <1>3 DEF Crash, Notes, Noted, Agents
<1>4. CASE UNCHANGED vars
  BY <1>4 DEF vars, callers, tables, Notes, Noted, GoesWith, BatchSize, Loaded
<1>. QED BY <1>1, <1>2, <1>3, <1>4 DEF Next

LEMMA AlwaysNotes == ASSUME Handlers = {} PROVE Spec => []Notes
<1>1. Init => Notes
  BY DEF Init, Notes, Noted, Agents
<1>2. L!TypeOK /\ ClientsOK /\ IInv /\ Notes /\ [Next]_vars => Notes'
  BY NotesStep
<1>3. TypeOK => ClientsOK
  BY DEF TypeOK, ClientsOK
<1>. QED BY <1>1, <1>2, <1>3, StepsUse, AlwaysInv, ServiceTypes, PTL DEF Spec

\* CompleteCraft expects a commited craft, and among workers alone it always
\* gets one: the failures of clients and restarts of the server cannot bring a
\* worker to complete a craft that is PENDING.  (With handlers it can happen:
\* CompletesCommited is refuted by a run.)
THEOREM WorkersCompleteCommited == ASSUME Handlers = {} PROVE Spec => CompletesCommited
<1>1. IInv /\ Notes => \A a \in Agents :
        pc[a] \in {"complete", "manual complete"} => craft[cur[a].id].status = "COMMITED"
  BY DEF IInv, AtHand, Notes, Noted, Agents, Free, Busy
<1>2. (\A a \in Agents : pc[a] \in {"complete", "manual complete"}
                            => craft[cur[a].id].status = "COMMITED")
        => [\A a \in Agents :
              pc[a] \in {"complete", "manual complete"} /\ pc'[a] = "done"
                => craft[cur[a].id].status = "COMMITED"]_vars
  OBVIOUS
<1>. QED BY <1>1, <1>2, AlwaysInv, AlwaysNotes, PTL DEF CompletesCommited

-----------------------------------------------------------------------------
(***************************************************************************)
(* A craft that is worked on has the recipe of the copy at hand.  That is  *)
(* so when all crafts have one recipe, and when there is one worker: the   *)
(* rowids in its list come back only behind those it still has to do.      *)
(***************************************************************************)
Recognised ==
  \A w \in Workers : pc[w] \in Busy => craft[cur[w].id].recipe_id = cur[w].recipe_id

OneRecipe == \E r \in Recipes : \A shape \in PlanShapes, q \in Recipes : shape.steps[q] > 0 => q = r

Alone == \A v, w \in Workers : v = w

\* With one recipe, the ledger's tables and copies are about that one.
LEMMA OnlyRecognised ==
  ASSUME Handlers = {}, NEW r \in Recipes,
         \A shape \in PlanShapes, q \in Recipes : shape.steps[q] > 0 => q = r
  PROVE  Spec => []Recognised
<1>1. Init => L!Only(r)
  <2> SUFFICES ASSUME Init PROVE L!Only(r)
    OBVIOUS
  <2>1. \A a \in Agents : CopiesOf(a) = {}
    BY DEF Init, CopiesOf, Agents
  <2>2. \A c \in L!CraftIds : craft[c] = L!NoCraft
    BY DEF Init, InitTables, L!CraftIds, CraftIds, L!NoCraft, NoCraft
  <2>3. \A p \in L!PlanIds, q \in L!Recipes : planSteps[p][q] = 0
    BY DEF Init, InitTables, L!PlanIds, PlanIds, L!Recipes, Recipes
  <2>. QED BY <2>1, <2>2, <2>3 DEF L!Only
<1>2. Hands /\ L!TypeOK /\ L!Only(r) /\ [Next]_vars => L!Only(r)'
  <2> SUFFICES ASSUME Hands, L!TypeOK, L!Only(r), [Next]_vars PROVE L!Only(r)'
    OBVIOUS
  <2>1. [L!Next]_L!vars
    BY NextUses
  <2>2. L!Recipes = Recipes
    BY DEF L!Recipes, Recipes
  <2>. QED BY <2>1, <2>2, LedgerAssumptions, L!OnlyStep
<1>3. IInv /\ Hands /\ L!TypeOK /\ L!Only(r) => Recognised
  <2> SUFFICES ASSUME IInv, Hands, L!TypeOK, L!Only(r), NEW w \in Workers, pc[w] \in Busy
               PROVE  craft[cur[w].id].recipe_id = cur[w].recipe_id
    BY DEF Recognised
  <2>1. w \in Agents /\ cur[w] \in CopiesOf(w)
    BY HeldCopies, Kinds
  <2>2. cur[w].id \in CraftIds /\ craft[cur[w].id] # NoCraft
    BY OwnCraft
  <2>3. cur[w].recipe_id = r
    BY <2>1 DEF L!Only
  <2>4. craft[cur[w].id].recipe_id = r
    BY <2>2 DEF L!Only, L!CraftIds, CraftIds, L!NoCraft, NoCraft
  <2>. QED BY <2>3, <2>4
<1>. QED BY <1>1, <1>2, <1>3, StepsUse, AlwaysInv, PTL DEF Spec

\* With one worker, the rows of its list are those it has listed.
Listed(w) ==
  /\ \A cp \in todo[w] : craft[cp.id] # NoCraft /\ craft[cp.id].recipe_id = cp.recipe_id
  /\ \A x, y \in todo[w] : x.id = y.id => x = y
  /\ pc[w] \in Busy => /\ craft[cur[w].id].recipe_id = cur[w].recipe_id
                        /\ \A cp \in todo[w] : cp.id # cur[w].id

\* FindCurrent is called with no list at hand.
LEMMA FindCurrentListed ==
  ASSUME IInv, Hands, NEW w \in Workers, FindCurrent(w)
  PROVE  Listed(w)'
<1> DEFINE mine == {row \in CraftRows : row.worker_id = w}
<1>1. craft' = craft /\ pc[w] = "idle" /\ w \in Agents /\ todo' = todo
  BY DEF FindCurrent, tables, Agents
<1>2. todo'[w] = {}
  BY <1>1 DEF Hands, HandsOf, Listing
<1>3. CASE mine = {}
  BY <1>1, <1>2, <1>3 DEF FindCurrent, GoTo, Listed, IInv, AgentsShaped, Busy
<1>4. CASE mine # {}
  <2> DEFINE row == Lowest(mine)
  <2>1. cur'[w] = CopyOf(row)
    BY <1>1, <1>4 DEF FindCurrent, IInv, AgentsShaped
  <2>2. row \in mine
    <3>1. \A r \in mine : r.id \in CraftIds
      BY RowsFound DEF IInv
    <3>. QED BY <3>1, <1>4, LowestIsOne
  <2>3. row = craft[row.id]
    BY <2>2, RowsFound DEF IInv
  <2> HIDE DEF row
  <2>4. CopyOf(row).id = row.id /\ CopyOf(row).recipe_id = row.recipe_id
    BY DEF CopyOf
  <2>. QED BY <1>1, <1>2, <2>1, <2>3, <2>4 DEF Listed
<1>. QED BY <1>3, <1>4

\* FindNext lists the rows as they are, each once.
LEMMA FindNextListed ==
  ASSUME IInv, NEW w \in Workers, FindNext(w)
  PROVE  Listed(w)'
<1>1. craft' = craft /\ pc'[w] = "next" /\ todo'[w] = {CopyOf(row) : row \in CraftRows}
  BY DEF FindNext, tables, GoTo, IInv, AgentsShaped, Agents
<1>2. ASSUME NEW row \in CraftRows
      PROVE  /\ CopyOf(row).id = row.id /\ CopyOf(row).recipe_id = row.recipe_id
             /\ craft[row.id] = row /\ row # NoCraft
  <2>1. row = craft[row.id] /\ row # NoCraft
    BY RowsFound DEF IInv
  <2>. QED BY <2>1 DEF CopyOf
<1>3. \A x, y \in todo'[w] : x.id = y.id => x = y
  <2> SUFFICES ASSUME NEW a \in CraftRows, NEW b \in CraftRows, CopyOf(a).id = CopyOf(b).id
               PROVE  CopyOf(a) = CopyOf(b)
    BY <1>1
  <2>1. a = b
    BY <1>2
  <2>. QED BY <2>1
<1>4. \A cp \in todo'[w] : craft[cp.id] # NoCraft /\ craft[cp.id].recipe_id = cp.recipe_id
  BY <1>1, <1>2
<1>. QED BY <1>1, <1>3, <1>4 DEF Listed, Busy

\* Assign takes the first of the list, the others stay what they are.
LEMMA AssignListed ==
  ASSUME IInv, NEW w \in Workers, Listed(w), Assign(w)
  PROVE  Listed(w)'
<1> DEFINE cp == Lowest(todo[w])
           new == [craft[cp.id] EXCEPT !.worker_id = w]
<1>1. /\ todo[w] # {} /\ craft[cp.id] # NoCraft /\ craft' = [craft EXCEPT ![cp.id] = new]
      /\ cur'[w] = cp /\ todo'[w] = todo[w] \ {cp}
  BY DEF Assign, AssignCraftToWorker, IInv, AgentsShaped, Agents
<1>2. cp \in todo[w] /\ \A x \in todo[w] : x.id \in CraftIds
  <2>1. \A x \in todo[w] : x.id \in CraftIds
    BY DEF IInv, AtHand, IsCopy
  <2>. QED BY <1>1, <2>1, LowestIsOne
<1> HIDE DEF cp
<1>3. IsRow(cp.id, craft[cp.id])
  BY <1>1, <1>2 DEF IInv, RowsShaped
<1>4. new.recipe_id = craft[cp.id].recipe_id /\ new # NoCraft
  BY <1>2, <1>3, RowsKept DEF IsRow
<1> HIDE DEF new
<1>5. \A c \in CraftIds : craft'[c] = IF c = cp.id THEN new ELSE craft[c]
  BY <1>1 DEF IInv, RowsShaped
<1>6. \A x \in todo'[w] : x.id # cp.id /\ craft'[x.id] = craft[x.id]
  BY <1>1, <1>2, <1>5 DEF Listed
<1>7. craft'[cp.id].recipe_id = cp.recipe_id
  BY <1>2, <1>4, <1>5 DEF Listed
<1>. QED BY <1>1, <1>6, <1>7 DEF Listed

\* Commit and Complete change the row of the worker's craft, not the listed.
LEMMA RowListed ==
  ASSUME IInv, NEW w \in Workers, Listed(w), Commit(w) \/ Complete(w)
  PROVE  Listed(w)'
<1> DEFINE c == cur[w].id
<1>1. pc[w] \in Busy /\ todo'[w] = todo[w] /\ \E row : craft' = [craft EXCEPT ![c] = row]
  BY DEF Commit, Complete, CommitCraft, CompleteCraft, Busy
<1>2. IsCopy(cur[w]) /\ c \in CraftIds /\ IsRow(c, craft[c])
  BY <1>1, OwnCraft
<1>3. \A cp \in todo[w] : cp.id # c /\ craft'[cp.id] = craft[cp.id]
  <2>1. \A cp \in todo[w] : cp.id # c /\ cp.id \in CraftIds
    BY <1>1 DEF Listed, IInv, AtHand, IsCopy
  <2>. QED BY <1>1, <2>1 DEF IInv, RowsShaped
<1>4. CASE Complete(w)
  <2>1. pc'[w] \notin Busy
    BY <1>4, Kinds DEF Complete, GoTo, IInv, AgentsShaped, Agents
  <2>. QED BY <1>1, <1>3, <2>1 DEF Listed
<1>5. CASE Commit(w)
  <2> DEFINE cp == [cur[w] EXCEPT !.commit_repeats = BatchSize(cur[w])]
             new == Commited(craft[c], BatchSize(cur[w]))
  <2>1. cur'[w] = cp /\ craft' = [craft EXCEPT ![c] = new]
    BY <1>5 DEF Commit, CommitCraft, IInv, AgentsShaped, Agents
  <2>2. cp.id = c /\ cp.recipe_id = cur[w].recipe_id
    BY <1>2 DEF IsCopy
  <2>3. new.recipe_id = craft[c].recipe_id
    BY <1>2 DEF Commited, IsRow
  <2> HIDE DEF cp, new
  <2>4. craft'[c] = new
    BY <1>2, <2>1 DEF IInv, RowsShaped
  <2> HIDE DEF c
  <2>5. craft[c].recipe_id = cur[w].recipe_id /\ \A x \in todo[w] : x.id # c
    BY <1>1 DEF Listed, c
  <2>. QED BY <1>1, <1>3, <2>1, <2>2, <2>3, <2>4, <2>5 DEF Listed
<1>. QED BY <1>4, <1>5

\* All steps of the worker.
LEMMA OwnListed ==
  ASSUME IInv, Hands, NEW w \in Workers, Listed(w), OwnStep(w) \/ Answered(w) \/ CallFails(w)
  PROVE  Listed(w)'
<1>1. w \in Agents
  BY DEF Agents
<1>2. CASE CommitFails(w) \/ CompleteFails(w) \/ NothingToCraft(w) \/ CallFails(w)
  BY <1>1, <1>2 DEF CommitFails, CompleteFails, NothingToCraft, CallFails, GiveUp, GoTo, Listed,
     Busy, IInv, AgentsShaped
<1>3. ASSUME craft' = craft, todo'[w] \subseteq todo[w],
             pc'[w] \in Busy => pc[w] \in Busy /\ cur'[w] = cur[w]
      PROVE  Listed(w)'
  BY <1>3 DEF Listed
<1>4. CASE Skip(w)
  BY <1>1, <1>3, <1>4 DEF Skip, tables, IInv, AgentsShaped
<1>5. CASE EndOfList(w) \/ GetTypes(w) \/ Done(w)
  BY <1>1, <1>3, <1>5 DEF EndOfList, GetTypes, Done, GoTo, tables, IInv, AgentsShaped, Busy
<1>6. CASE Dump(w) \/ Load(w) \/ Call(w)
  BY <1>1, <1>3, <1>6 DEF Dump, Load, Call, GoTo, tables, IInv, AgentsShaped, Busy
<1>. QED BY <1>2, <1>4, <1>5, <1>6, FindCurrentListed, FindNextListed, AssignListed, RowListed
         DEF OwnStep, Answered

Lists == \A w \in Workers : Listed(w)

LEMMA AlwaysLists ==
  ASSUME Handlers = {}, Alone
  PROVE  Spec => []Lists
<1>1. Init => Lists
  BY DEF Init, Lists, Listed, Agents, Busy
<1>2. Hands /\ IInv /\ Lists /\ [Next]_vars => Lists'
  <2> SUFFICES ASSUME Hands, IInv, Lists, [Next]_vars, NEW w \in Workers PROVE Listed(w)'
    BY DEF Lists
  <2>1. ASSUME NEW v \in Workers, OwnStep(v) \/ Answered(v) \/ CallFails(v) PROVE Listed(w)'
    <3>1. v = w
      BY DEF Alone
    <3>. QED BY <2>1, <3>1, OwnListed DEF Lists
  <2>2. CASE Schedule \/ Submit \/ Delete \/ Count
    <3>1. UNCHANGED <<pc, cur, todo>>
      BY <2>2 DEF Schedule, Submit, Delete, Count, callers
    <3>2. \A cp \in todo[w] : cp.id \in CraftIds /\ craft[cp.id] # NoCraft
      BY DEF Lists, Listed, IInv, AtHand, IsCopy
    <3>3. \A cp \in todo[w] : craft'[cp.id] = craft[cp.id]
      BY <2>2, <3>2, PlanRows
    <3>4. pc[w] \in Busy => craft'[cur[w].id] = craft[cur[w].id]
      BY <2>2, PlanRows, OwnCraft
    <3>5. Listed(w)
      BY DEF Lists
    <3>. QED BY <3>1, <3>3, <3>4, <3>5 DEF Listed
  <2>3. CASE Crash
    BY <2>3 DEF Crash, Listed, Agents, Busy
  <2>4. CASE UNCHANGED vars
    BY <2>4 DEF vars, callers, tables, Lists, Listed
  <2>. QED BY <2>1, <2>2, <2>3, <2>4 DEF Next
<1>. QED BY <1>1, <1>2, StepsUse, AlwaysInv, PTL DEF Spec

LEMMA AloneRecognised ==
  ASSUME Handlers = {}, Alone
  PROVE  Spec => []Recognised
<1>1. Lists => Recognised
  BY DEF Lists, Recognised, Listed
<1>. QED BY <1>1, AlwaysLists, PTL

LEMMA AlwaysRecognised ==
  ASSUME Handlers = {}, OneRecipe \/ Alone
  PROVE  Spec => []Recognised
BY OnlyRecognised, AloneRecognised DEF OneRecipe

\* A client that is asked to craft works on a batch the table knows of: the
\* row of the craft is there, under the name of the worker, and commited for
\* exactly what is loaded.  A restart finds it, whatever the number of
\* workers, items, recipes and plans.
THEOREM CallsFindCommits ==
  ASSUME Handlers = {}, OneRecipe \/ Alone
  PROVE  Spec => []CallsAreCommited
<1>1. IInv /\ Notes /\ Recognised => CallsAreCommited
  <2> SUFFICES ASSUME IInv, Notes, Recognised, NEW w \in Workers, pc[w] = "call"
               PROVE  LET row == craft[cur[w].id]
                      IN  /\ row # NoCraft /\ row.worker_id = w /\ row.status = "COMMITED"
                          /\ IF row.commit_repeats > 0
                             THEN machine[w] = [recipe_id |-> row.recipe_id,
                                                repeats |-> row.commit_repeats, stage |-> "loaded"]
                             ELSE machine[w].stage # "loaded"
    BY DEF CallsAreCommited
  <2>1. craft[cur[w].id] # NoCraft /\ craft[cur[w].id].worker_id = w
    BY OwnCraft DEF Busy
  <2>2. /\ craft[cur[w].id].status = "COMMITED" /\ GoesWith(cur[w], machine[w])
        /\ craft[cur[w].id].commit_repeats = BatchSize(cur[w])
    BY DEF Notes, Noted
  <2>3. craft[cur[w].id].recipe_id = cur[w].recipe_id
    BY DEF Recognised, Busy
  <2>. QED BY <2>1, <2>2, <2>3 DEF GoesWith, Loaded
<1>. QED BY <1>1, AlwaysInv, AlwaysNotes, AlwaysRecognised, PTL

-----------------------------------------------------------------------------
(***************************************************************************)
(* The balance of the reserves: no step of the workers is one of the       *)
(* ledger's faults.                                                        *)
(***************************************************************************)
LEMMA ListingGrows ==
  ASSUME Handlers = {}, [Next]_vars
  PROVE  reserveRows \subseteq reserveRows'
<1>1. ASSUME NEW w \in Workers, OwnStep(w) \/ Answered(w) \/ CallFails(w)
      PROVE  reserveRows' = reserveRows
  BY <1>1 DEF OwnStep, Answered, FindCurrent, FindNext, Assign, AssignCraftToWorker, Skip,
     EndOfList, Commit, CommitCraft, CommitFails, Complete, CompleteCraft, CompleteFails, Done,
     GetTypes, Dump, Load, Call, NothingToCraft, CallFails, tables
<1>2. Schedule \/ Submit \/ Delete \/ Count => reserveRows \subseteq reserveRows'
  BY DEF Schedule, InsertPlan, Submit, InsertCraft, Delete, RemovePlan, Count, UpdateItemCount
<1>3. Crash \/ UNCHANGED vars => reserveRows' = reserveRows
  BY DEF Crash, vars, tables
<1>. QED BY <1>1, <1>2, <1>3 DEF Next

\* What a worker does to the tables books both sides.
LEMMA WorkerDrift ==
  ASSUME L!TypeOK, L!TypeOK', Hands, IInv, Notes, Recognised,
         NEW w \in Workers, OwnStep(w) \/ Answered(w) \/ CallFails(w), NEW u \in reserveRows
  PROVE  L!Drift(u)' = L!Drift(u)
<1> USE LedgerAssumptions
<1>1. L!TablesOK /\ L!CopiesOK
  BY L!TypeParts
<1>2. L!TablesOK'
  BY DEF L!TypeOK, L!TablesOK, L!CraftsOK, L!PlansOK, L!ReservesOK
<1>3. \A a \in Agents : \A cp \in CopiesOf(a) : cp \in L!Copies
  BY <1>1 DEF L!CopiesOK
<1>4. CASE Assign(w)
  <2> DEFINE cp == Lowest(todo[w])
  <2>1. todo[w] # {} /\ AssignCraftToWorker(cp, w)
    BY <1>4 DEF Assign
  <2>2. w \in Agents /\ cp \in CopiesOf(w)
    BY <1>4, FirstOfList, HeldCopies DEF Assign
  <2>3. cp \in L!Copies
    BY <1>3, <2>2
  <2> HIDE DEF cp
  <2>4. L!AssignCraftToWorker(cp, w)
    BY <2>1, SameTransactions
  <2>. QED BY <1>1, <1>2, <2>3, <2>4, L!AssignDrift
<1>5. CASE Commit(w)
  <2> DEFINE cp == cur[w]  n == BatchSize(cur[w])
  <2>1. pc[w] \in Busy /\ CommitCraft(cp, n)
    BY <1>5 DEF Commit, Busy
  <2>2. w \in Agents /\ cp \in CopiesOf(w) /\ cp.recipe_id = craft[cp.id].recipe_id
    BY <2>1, HeldCopies, Kinds DEF Recognised
  <2>3. cp \in L!Copies /\ n \in Int
    BY <1>3, <2>2, LedgerTypes, SizeOfBatch
  <2> HIDE DEF cp, n
  <2>4. L!CommitCraft(cp, n)
    BY <2>1, SameTransactions
  <2>5. /\ L!Committable(cp) /\ craft' = [craft EXCEPT ![cp.id] = L!Commited(craft[cp.id], n)]
        /\ itemReserve' = L!Released(L!Batch(cp.recipe_id, n)) /\ UNCHANGED L!planTables
    BY <2>4 DEF L!CommitCraft
  <2>. QED BY <1>1, <1>2, <2>2, <2>3, <2>5, L!CommitDrift
<1>6. CASE Complete(w)
  <2> DEFINE cp == cur[w]
  <2>1. pc[w] = "complete" /\ CompleteCraft(cp)
    BY <1>6 DEF Complete
  <2>2. w \in Agents /\ cp \in CopiesOf(w) /\ craft[cp.id].status # "PENDING"
    BY <2>1, HeldCopies DEF Notes, Noted, Free
  <2>3. cp \in L!Copies
    BY <1>3, <2>2
  <2> HIDE DEF cp
  <2>4. L!CompleteCraft(cp)
    BY <2>1, SameTransactions
  <2>5. /\ craft[cp.id] # L!NoCraft /\ craft' = [craft EXCEPT ![cp.id] = L!Completed(craft[cp.id])]
        /\ UNCHANGED L!planTables /\ UNCHANGED itemReserve
    BY <2>4 DEF L!CompleteCraft
  <2>. QED BY <1>1, <1>2, <2>2, <2>3, <2>5, L!CompleteDrift
<1>7. CASE ~Assign(w) /\ ~Commit(w) /\ ~Complete(w)
  <2>1. UNCHANGED <<planAmount, craft, itemReserve>>
    BY <1>7 DEF OwnStep, Answered, FindCurrent, FindNext, Skip, EndOfList, CommitFails,
       CompleteFails, Done, GetTypes, Dump, Load, Call, NothingToCraft, CallFails, tables
  <2>. QED BY <2>1, L!NoDrift
<1>. QED BY <1>4, <1>5, <1>6, <1>7

\* So does planning, whoever works on the crafts.
LEMMA PlanDrift ==
  ASSUME L!TypeOK, L!TypeOK', L!PlanCovered, Schedule \/ Submit \/ Delete \/ Count,
         NEW u \in reserveRows
  PROVE  L!Drift(u)' = L!Drift(u)
<1> USE LedgerAssumptions
<1>1. L!TablesOK /\ u \in Items
  BY L!TypeParts DEF L!TypeOK
<1>2. L!TablesOK'
  BY DEF L!TypeOK, L!TablesOK, L!CraftsOK, L!PlansOK, L!ReservesOK
<1>3. L!PlanIds = PlanIds /\ L!Recipes = Recipes
  BY DEF L!PlanIds, PlanIds, L!Recipes, Recipes
<1>4. CASE Schedule
  <2>1. PICK p \in PlanIds, shape \in PlanShapes, stock \in [Items -> 0..MaxStock] :
          InsertPlan(p, shape, stock)
    BY <1>4 DEF Schedule
  <2>2. L!InsertPlan(p, shape, stock) /\ stock \in [Items -> Nat]
    BY <2>1, SameTransactions
  <2>. QED BY <1>1, <1>2, <1>3, <2>2, L!ScheduleDrift
<1>5. CASE Submit
  <2>1. PICK p \in PlanIds, r \in Recipes : \E n \in 1..planSteps[p][r] : InsertCraft(p, r, n)
    BY <1>5 DEF Submit
  <2>2. PICK n \in 1..planSteps[p][r] : InsertCraft(p, r, n)
    BY <2>1
  <2>3. n \in Nat \ {0}
    BY <1>1, <1>3 DEF L!TablesOK, L!PlansOK
  <2>4. L!InsertCraft(p, r, n)
    BY <2>2, SameTransactions
  <2>. QED BY <1>1, <1>2, <1>3, <2>3, <2>4, L!SubmitDrift
<1>6. CASE Delete
  <2>1. PICK p \in PlanIds : RemovePlan(p)
    BY <1>6 DEF Delete
  <2>2. L!RemovePlan(p)
    BY <2>1, SameTransactions
  <2>. QED BY <1>1, <1>2, <1>3, <2>2, L!DeleteDrift
<1>7. CASE Count
  <2>1. PICK i \in Items, n \in 1..MaxStock : UpdateItemCount(i, n)
    BY <1>7 DEF Count
  <2>2. L!UpdateItemCount(i, n) /\ n \in Nat
    BY <2>1, SameTransactions
  <2>. QED BY <1>1, <1>2, <2>2, L!CountDrift
<1>. QED BY <1>4, <1>5, <1>6, <1>7

LEMMA BalanceKept ==
  ASSUME Handlers = {}, L!TypeOK, Hands, IInv, Notes, Recognised, L!PlanCovered, L!Balanced, [Next]_vars
  PROVE  L!PlanCovered' /\ L!Balanced'
<1> USE LedgerAssumptions
<1>1. [L!Next]_L!vars
  BY NextUses
<1>2. L!TypeOK' /\ L!PlanCovered'
  BY <1>1, L!NextTypeOK, L!NextCovered
<1>3. \A u \in reserveRows : L!Drift(u)' = L!Drift(u)
  <2>1. CASE Crash \/ UNCHANGED vars
    <3>1. UNCHANGED <<planAmount, craft, itemReserve>>
      BY <2>1 DEF Crash, vars, tables
    <3>. QED BY <3>1, L!NoDrift
  <2>. QED BY <1>2, <2>1, WorkerDrift, PlanDrift DEF Next
<1>4. reserveRows \subseteq reserveRows'
  BY ListingGrows
<1>. QED BY <1>1, <1>2, <1>3, <1>4, L!BalanceStep

\* While the handlers are silent, what is reserved of an item is what plans and
\* crafts hold of it, however many workers, failing clients, restarts and
\* deleted plans there are - if all crafts have one recipe or one worker does
\* them all.
THEOREM ReservesAgree ==
  ASSUME Handlers = {}, OneRecipe \/ Alone
  PROVE  Spec => []ReservesBalance
<1>1. Init => L!PlanCovered /\ L!Balanced
  BY InitUses, LedgerAssumptions, L!InitCovered, L!InitBalanced
<1>2. Hands /\ L!TypeOK /\ IInv /\ Notes /\ Recognised /\ L!PlanCovered /\ L!Balanced /\ [Next]_vars
        => L!PlanCovered' /\ L!Balanced'
  BY BalanceKept
<1>3. L!Balanced => ReservesBalance
  <2>1. \A u : L!Drift(u) = Ledger!Drift(u)
    BY DEF L!Drift, Ledger!Drift, L!HeldByCraft, Ledger!HeldByCraft, L!SumTo, Ledger!SumTo,
       L!PlanIds, Ledger!PlanIds, L!CraftIds, Ledger!CraftIds, L!NoCraft, Ledger!NoCraft
  <2>. QED BY <2>1 DEF L!Balanced, ReservesBalance
<1>. QED BY <1>1, <1>2, <1>3, StepsUse, AlwaysInv, AlwaysNotes, AlwaysRecognised, PTL DEF Spec

-----------------------------------------------------------------------------
(***************************************************************************)
(* Batches are accounted for once, when one worker does all crafts and     *)
(* each craft is one batch: then the worker has one row at a time, and a   *)
(* commited row says what is in the client.                                *)
(***************************************************************************)
Fits(steps) == \A r \in Recipes : steps[r] > 0 => steps[r] <= MaxRepeats[r]

FitsBatch == \A shape \in PlanShapes : Fits(shape.steps)

\* Each row is one batch, which is commited as a whole.
FitRow(row) ==
  /\ row.repeats \in 1..MaxRepeats[row.recipe_id]
  /\ row.commit_repeats = IF row.status = "COMMITED" THEN row.repeats ELSE 0
  /\ row.worker_id = NoWorker => row.status = "PENDING"

RowsFit ==
  /\ \A p \in PlanIds : Fits(planSteps[p])
  /\ \A c \in CraftIds : craft[c] # NoCraft => FitRow(craft[c])

Mine(w, c) == craft[c] # NoCraft /\ craft[c].worker_id = w

\* The worker has one row, and none while it looks for crafts.
OneRow(w) ==
  /\ \A c, d \in CraftIds : Mine(w, c) /\ Mine(w, d) => c = d
  /\ pc[w] \in {"types", "select", "next", "done"} => \A c \in CraftIds : ~Mine(w, c)

\* What the client of a worker can hold, by the row the worker has.
Holds(w, row, batch) ==
  IF row.status = "COMMITED"
  THEN /\ batch.stage \in {"loaded", "crafted", "made"}
       /\ batch = [recipe_id |-> row.recipe_id, repeats |-> row.repeats, stage |-> batch.stage]
  ELSE batch.stage \in {"empty", "loaded"}

Held(w) ==
  /\ \A c \in CraftIds : Mine(w, c) => Holds(w, craft[c], machine[w])
  /\ (\A c \in CraftIds : ~Mine(w, c)) => machine[w].stage \in {"empty", "loaded"}
  /\ pc[w] = "complete" => machine[w].stage = "made"
  /\ pc[w] \in {"dump", "load", "commit"} => craft[cur[w].id].status = "PENDING"

\* Copies at hand know the repeats of their rows.
Counted(w) ==
  /\ \A cp \in todo[w] : craft[cp.id].repeats = cp.repeats
  /\ pc[w] \in Busy => craft[cur[w].id].repeats = cur[w].repeats

Once(w) == OneRow(w) /\ Held(w) /\ Counted(w)

\* The row a worker works on is the one it has.
LEMMA RowAtWork ==
  ASSUME IInv, NEW w \in Workers, OneRow(w), pc[w] \in Busy
  PROVE  /\ cur[w].id \in CraftIds /\ Mine(w, cur[w].id)
         /\ \A c \in CraftIds : Mine(w, c) => c = cur[w].id
<1>1. cur[w].id \in CraftIds /\ Mine(w, cur[w].id)
  BY OwnCraft DEF Mine
<1>. QED BY <1>1 DEF OneRow

\* A step that leaves the rows alone and lets go of copies at most.
LEMMA QuietOnce ==
  ASSUME NEW w \in Workers, Once(w), UNCHANGED <<craft, machine>>, todo'[w] \subseteq todo[w],
         pc'[w] \notin Busy,
         pc'[w] \in {"types", "select", "next", "done"} => \A c \in CraftIds : ~Mine(w, c)
  PROVE  Once(w)'
BY DEF Once, OneRow, Held, Counted, Mine, Holds, Busy

LEMMA FindCurrentOnce ==
  ASSUME IInv, NEW w \in Workers, Once(w), FindCurrent(w)
  PROVE  Once(w)'
<1> DEFINE mine == {row \in CraftRows : row.worker_id = w}
<1>1. UNCHANGED <<craft, machine, todo>> /\ pc[w] = "idle" /\ w \in Agents
  BY DEF FindCurrent, tables, Agents
<1>2. CASE mine = {}
  <2>1. \A c \in CraftIds : ~Mine(w, c)
    BY <1>2 DEF CraftRows, Mine
  <2>2. pc'[w] = "types"
    BY <1>1, <1>2 DEF FindCurrent, GoTo, IInv, AgentsShaped
  <2>. QED BY <1>1, <2>1, <2>2, QuietOnce DEF Busy
<1>3. CASE mine # {}
  <2> DEFINE row == Lowest(mine)
  <2>1. /\ cur'[w] = CopyOf(row)
        /\ pc'[w] = IF row.status = "PENDING" THEN "dump" ELSE "restore"
    BY <1>1, <1>3 DEF FindCurrent, GoTo, IInv, AgentsShaped
  <2>2. row \in mine
    <3>1. \A r \in mine : r.id \in CraftIds
      BY RowsFound DEF IInv
    <3>. QED BY <3>1, <1>3, LowestIsOne
  <2>3. row = craft[row.id]
    BY <2>2, RowsFound DEF IInv
  <2> HIDE DEF row
  <2>4. CopyOf(row).id = row.id /\ CopyOf(row).repeats = row.repeats
    BY DEF CopyOf
  <2>5. craft'[cur'[w].id].repeats = cur'[w].repeats
    BY <1>1, <2>1, <2>3, <2>4
  <2>6. Counted(w)'
    BY <1>1, <2>5 DEF Once, Counted
  <2>7. pc'[w] = "dump" => craft'[cur'[w].id].status = "PENDING"
    BY <1>1, <2>1, <2>3, <2>4
  <2>8. OneRow(w)'
    BY <1>1, <2>1 DEF Once, OneRow, Mine
  <2>9. Held(w)'
    BY <1>1, <2>1, <2>7 DEF Once, Held, Mine, Holds
  <2>. QED BY <2>6, <2>8, <2>9 DEF Once
<1>. QED BY <1>2, <1>3

LEMMA FindNextOnce ==
  ASSUME IInv, NEW w \in Workers, Once(w), FindNext(w)
  PROVE  Once(w)'
<1>1. /\ UNCHANGED <<craft, machine>> /\ pc[w] = "select" /\ pc'[w] = "next"
      /\ todo'[w] = {CopyOf(row) : row \in CraftRows}
  BY DEF FindNext, tables, GoTo, IInv, AgentsShaped, Agents
<1>2. ASSUME NEW row \in CraftRows PROVE craft[CopyOf(row).id].repeats = CopyOf(row).repeats
  <2>1. row = craft[row.id]
    BY RowsFound DEF IInv
  <2>. QED BY <2>1 DEF CopyOf
<1>3. \A cp \in todo'[w] : craft'[cp.id].repeats = cp.repeats
  BY <1>1, <1>2
<1>. QED BY <1>1, <1>3 DEF Once, OneRow, Held, Counted, Mine, Holds, Busy

\* A worker that takes a row has no other.
LEMMA AssignOnce ==
  ASSUME IInv, RowsFit, NEW w \in Workers, Once(w), Listed(w), Assign(w)
  PROVE  Once(w)' /\ RowsFit'
<1> DEFINE cp == Lowest(todo[w])
           new == [craft[cp.id] EXCEPT !.worker_id = w]
<1>1. /\ pc[w] = "next" /\ todo[w] # {} /\ craft[cp.id] # NoCraft
      /\ craft[cp.id].worker_id = NoWorker /\ craft' = [craft EXCEPT ![cp.id] = new]
      /\ pc'[w] = "dump" /\ cur'[w] = cp /\ todo'[w] = todo[w] \ {cp}
      /\ machine' = machine /\ planSteps' = planSteps
  BY DEF Assign, AssignCraftToWorker, planTables, GoTo, IInv, AgentsShaped, Agents
<1>2. cp \in todo[w] /\ \A x \in todo[w] : x.id \in CraftIds
  <2>1. \A x \in todo[w] : x.id \in CraftIds
    BY DEF IInv, AtHand, IsCopy
  <2>. QED BY <1>1, <2>1, LowestIsOne
<1> HIDE DEF cp
<1>3. IsRow(cp.id, craft[cp.id]) /\ FitRow(craft[cp.id])
  BY <1>1, <1>2 DEF IInv, RowsShaped, RowsFit
<1>4. /\ new # NoCraft /\ new.worker_id = w /\ new.status = "PENDING"
      /\ new.repeats = craft[cp.id].repeats /\ FitRow(new)
  <2>1. new # NoCraft
    BY <1>2, <1>3, RowsKept
  <2>2. /\ new.worker_id = w /\ new.status = craft[cp.id].status
        /\ new.repeats = craft[cp.id].repeats /\ new.commit_repeats = craft[cp.id].commit_repeats
        /\ new.recipe_id = craft[cp.id].recipe_id
    BY <1>3 DEF IsRow
  <2>3. craft[cp.id].status = "PENDING" /\ w # NoWorker
    BY <1>1, <1>3, TablesAssumption DEF FitRow
  <2> HIDE DEF new
  <2>. QED BY <1>3, <2>1, <2>2, <2>3 DEF FitRow
<1> HIDE DEF new
<1>5. \A c \in CraftIds : craft'[c] = IF c = cp.id THEN new ELSE craft[c]
  BY <1>1 DEF IInv, RowsShaped
<1>6. \A c \in CraftIds : Mine(w, c)' => c = cp.id
  BY <1>1, <1>5 DEF Once, OneRow, Mine
<1>7. OneRow(w)'
  BY <1>1, <1>6 DEF OneRow
<1>8. machine[w].stage \in {"empty", "loaded"}
  BY <1>1 DEF Once, OneRow, Held
<1>9. Held(w)'
  BY <1>1, <1>2, <1>4, <1>5, <1>6, <1>8 DEF Held, Holds
<1>10. Counted(w)'
  BY <1>1, <1>2, <1>4, <1>5 DEF Once, Counted, Listed
<1>11. RowsFit'
  BY <1>1, <1>4, <1>5 DEF RowsFit
<1>. QED BY <1>7, <1>9, <1>10, <1>11 DEF Once

\* A commit is of the whole row.
LEMMA CommitOnce ==
  ASSUME L!TypeOK, Hands, IInv, Notes, RowsFit, NEW w \in Workers, Once(w), Listed(w), Commit(w)
  PROVE  Once(w)' /\ RowsFit'
<1> DEFINE c == cur[w].id
           n == BatchSize(cur[w])
           new == Commited(craft[c], n)
<1>1. /\ pc[w] = "commit" /\ craft' = [craft EXCEPT ![c] = new] /\ pc'[w] = "call"
      /\ cur'[w].id = c /\ cur'[w].repeats = cur[w].repeats
      /\ UNCHANGED <<machine, todo, planSteps>>
  <2>1. /\ pc[w] = "commit" /\ craft' = [craft EXCEPT ![c] = new] /\ pc'[w] = "call"
        /\ cur'[w] = [cur[w] EXCEPT !.commit_repeats = n]
        /\ UNCHANGED <<machine, todo, planSteps>>
    BY DEF Commit, CommitCraft, GoTo, planTables, IInv, AgentsShaped, Agents
  <2>2. IsCopy(cur[w])
    BY <2>1, OwnCraft DEF Busy
  <2>. QED BY <2>1, <2>2 DEF IsCopy
<1>2. /\ c \in CraftIds /\ craft[c] # NoCraft /\ IsRow(c, craft[c]) /\ craft[c].worker_id = w
      /\ Mine(w, c) /\ \A d \in CraftIds : Mine(w, d) => d = c
  BY <1>1, OwnCraft, RowAtWork DEF Busy, Once
<1>3. /\ craft[c].repeats = cur[w].repeats /\ craft[c].recipe_id = cur[w].recipe_id
      /\ FitRow(craft[c])
  BY <1>1, <1>2 DEF Once, Counted, Listed, Busy, RowsFit
<1>4. n = craft[c].repeats /\ n > 0
  <2>1. craft[c].recipe_id \in Recipes
    BY <1>2, LedgerTypes
  <2>. QED BY <1>3, <2>1, ServiceAssumption DEF FitRow, BatchSize
<1>5. /\ new.repeats = craft[c].repeats /\ new.commit_repeats = craft[c].repeats
      /\ new.status = "COMMITED" /\ new.worker_id = w /\ new.recipe_id = craft[c].recipe_id
  BY <1>2, <1>4 DEF IsRow, Commited
<1>6. FitRow(new)
  BY <1>2, <1>3, <1>5, TablesAssumption DEF FitRow
<1>7. new # NoCraft
  BY <1>2, RowsKept
<1>8. machine[w] = [recipe_id |-> new.recipe_id, repeats |-> new.repeats, stage |-> "loaded"]
  <2>1. GoesWith(cur[w], machine[w])
    BY <1>1 DEF Notes, Noted
  <2>2. machine[w] = Loaded(cur[w])
    BY <1>4, <2>1 DEF GoesWith
  <2>. QED BY <1>3, <1>4, <1>5, <2>2 DEF Loaded
<1> HIDE DEF new
<1>9. \A d \in CraftIds : craft'[d] = IF d = c THEN new ELSE craft[d]
  BY <1>1, <1>2 DEF IInv, RowsShaped
<1>10. \A d \in CraftIds : Mine(w, d)' => d = c
  BY <1>2, <1>9 DEF Mine
<1>11. \A cp \in todo[w] : cp.id \in CraftIds /\ cp.id # c
  BY <1>1 DEF Listed, Busy, IInv, AtHand, IsCopy
<1> HIDE DEF c, n
<1>12. OneRow(w)'
  BY <1>1, <1>10 DEF OneRow, Mine
<1>13. Holds(w, new, machine[w])
  <2>1. machine[w].stage = "loaded"
    BY <1>8
  <2>2. machine[w] = [recipe_id |-> new.recipe_id, repeats |-> new.repeats, stage |-> machine[w].stage]
    BY <1>8, <2>1
  <2>. QED BY <1>5, <2>1, <2>2 DEF Holds
<1>14. Held(w)'
  <2>1. \E d \in CraftIds : Mine(w, d)'
    BY <1>2, <1>5, <1>7, <1>9 DEF Mine
  <2>2. \A d \in CraftIds : Mine(w, d)' => Holds(w, craft'[d], machine'[w])
    BY <1>1, <1>9, <1>10, <1>13
  <2>. QED BY <1>1, <1>2, <2>1, <2>2 DEF Held, Holds
<1>15. Counted(w)'
  BY <1>1, <1>2, <1>3, <1>5, <1>9, <1>11 DEF Once, Counted
<1>16. RowsFit'
  BY <1>1, <1>6, <1>9 DEF RowsFit
<1>. QED BY <1>12, <1>14, <1>15, <1>16 DEF Once

\* The completion of the one batch of a row ends the craft; what has been made
\* is the batch of the row.
LEMMA CompleteOnce ==
  ASSUME IInv, Notes, RowsFit, NEW w \in Workers, Once(w), Listed(w), Complete(w)
  PROVE  /\ Once(w)' /\ RowsFit'
         /\ cur[w].id \in CraftIds /\ craft[cur[w].id] # NoCraft
         /\ craft' = [craft EXCEPT ![cur[w].id] = NoCraft]
         /\ machine[w] = [recipe_id |-> craft[cur[w].id].recipe_id,
                          repeats |-> craft[cur[w].id].repeats, stage |-> "made"]
         /\ machine' = [machine EXCEPT ![w] = Empty]
<1> DEFINE c == cur[w].id
<1>1. /\ pc[w] = "complete" /\ pc'[w] = "done" /\ UNCHANGED <<cur, todo, planSteps>>
      /\ craft' = [craft EXCEPT ![c] = Completed(craft[c])]
      /\ machine' = [machine EXCEPT ![w] = IF machine[w].stage = "made" THEN Empty ELSE machine[w]]
  BY DEF Complete, CompleteCraft, GoTo, planTables, IInv, AgentsShaped, Agents
<1>2. /\ c \in CraftIds /\ craft[c] # NoCraft
      /\ Mine(w, c) /\ \A d \in CraftIds : Mine(w, d) => d = c
  BY <1>1, OwnCraft, RowAtWork DEF Busy, Once
<1>3. craft[c].status = "COMMITED" /\ machine[w].stage = "made"
  BY <1>1 DEF Notes, Noted, Once, Held
<1>4. craft[c].repeats = craft[c].commit_repeats
  BY <1>2, <1>3 DEF RowsFit, FitRow
<1>5. craft' = [craft EXCEPT ![c] = NoCraft]
  BY <1>1, <1>4 DEF Completed
<1>6. machine[w] = [recipe_id |-> craft[c].recipe_id, repeats |-> craft[c].repeats, stage |-> "made"]
  BY <1>2, <1>3 DEF Once, Held, Holds
<1>7. machine' = [machine EXCEPT ![w] = Empty] /\ machine'[w] = Empty
  BY <1>1, <1>3 DEF Notes
<1> HIDE DEF c
<1>8. \A d \in CraftIds : craft'[d] = IF d = c THEN NoCraft ELSE craft[d]
  BY <1>2, <1>5 DEF IInv, RowsShaped
<1>9. \A d \in CraftIds : ~Mine(w, d)'
  BY <1>2, <1>8 DEF Mine
<1>10. OneRow(w)' /\ Held(w)'
  BY <1>1, <1>7, <1>9 DEF OneRow, Held, Empty
<1>11. \A cp \in todo[w] : cp.id \in CraftIds /\ cp.id # c
  BY <1>1 DEF Listed, Busy, IInv, AtHand, IsCopy, c
<1>12. Counted(w)'
  BY <1>1, <1>8, <1>11 DEF Once, Counted, Busy
<1>13. RowsFit'
  BY <1>1, <1>8 DEF RowsFit
<1>. QED BY <1>2, <1>5, <1>6, <1>7, <1>10, <1>12, <1>13 DEF Once, c

\* A step that changes what the client holds, into something the row allows.
LEMMA ClientOnce ==
  ASSUME NEW w \in Workers, Once(w), craft' = craft, todo'[w] \subseteq todo[w],
         pc'[w] \notin {"types", "select", "next", "done"},
         pc'[w] \in Busy => pc[w] \in Busy /\ cur'[w] = cur[w],
         pc'[w] \in {"dump", "load", "commit"} => pc[w] \in {"dump", "load"},
         pc'[w] = "complete" => machine'[w].stage = "made",
         \A c \in CraftIds : Mine(w, c) => Holds(w, craft[c], machine'[w]),
         (\A c \in CraftIds : ~Mine(w, c)) => machine'[w].stage \in {"empty", "loaded"}
  PROVE  Once(w)'
<1>1. \A c \in CraftIds : Mine(w, c)' <=> Mine(w, c)
  BY DEF Mine
<1>2. OneRow(w)'
  BY <1>1 DEF Once, OneRow
<1>3. Held(w)'
  <2>1. pc'[w] \in {"dump", "load", "commit"} => craft'[cur'[w].id].status = "PENDING"
    BY DEF Once, Held, Busy
  <2>. QED BY <1>1, <2>1 DEF Held, Holds
<1>4. Counted(w)'
  BY DEF Once, Counted
<1>. QED BY <1>2, <1>3, <1>4 DEF Once

\* Before the commit the client holds nothing or ingredients.
LEMMA BeforeCommit ==
  ASSUME IInv, NEW w \in Workers, Once(w), pc[w] \in {"dump", "load"}
  PROVE  /\ machine[w].stage \in {"empty", "loaded"}
         /\ craft' = craft /\ todo'[w] \subseteq todo[w]
              /\ machine'[w].stage \in {"empty", "loaded"}
              /\ pc'[w] \in {"idle", "load", "commit"} /\ (pc'[w] # "idle" => cur'[w] = cur[w])
            => Once(w)'
<1> DEFINE c == cur[w].id
<1>1. c \in CraftIds /\ Mine(w, c) /\ \A d \in CraftIds : Mine(w, d) => d = c
  BY RowAtWork DEF Once, Busy
<1>2. craft[c].status = "PENDING" /\ Holds(w, craft[c], machine[w])
  BY <1>1 DEF Once, Held
<1> HIDE DEF c
<1>3. machine[w].stage \in {"empty", "loaded"}
  BY <1>2 DEF Holds
<1>4. ASSUME craft' = craft, todo'[w] \subseteq todo[w], machine'[w].stage \in {"empty", "loaded"},
             pc'[w] \in {"idle", "load", "commit"}, pc'[w] # "idle" => cur'[w] = cur[w]
      PROVE  Once(w)'
  <2>1. \A d \in CraftIds : Mine(w, d) => Holds(w, craft[d], machine'[w])
    BY <1>1, <1>2, <1>4 DEF Holds
  <2>2. /\ pc'[w] \notin {"types", "select", "next", "done"} /\ pc'[w] # "complete"
        /\ pc'[w] \in Busy => pc[w] \in Busy /\ cur'[w] = cur[w]
    BY <1>4 DEF Busy
  <2>. QED BY <1>4, <2>1, <2>2, ClientOnce
<1>. QED BY <1>3, <1>4

\* After it, the batch of the row, in some stage.
LEMMA AfterCommit ==
  ASSUME IInv, Notes, NEW w \in Workers, Once(w), pc[w] \in {"call", "restore"}
  PROVE  /\ machine[w].stage \in {"loaded", "crafted", "made"}
         /\ machine[w] = [machine[w] EXCEPT !.stage = machine[w].stage]
         /\ \A stage \in {"loaded", "crafted", "made"} :
              /\ craft' = craft /\ todo'[w] \subseteq todo[w]
              /\ machine'[w] = [machine[w] EXCEPT !.stage = stage]
              /\ \/ pc'[w] = "idle"
                 \/ pc'[w] = "complete" /\ stage = "made" /\ cur'[w] = cur[w]
              => Once(w)'
<1> DEFINE c == cur[w].id
<1>1. c \in CraftIds /\ Mine(w, c) /\ \A d \in CraftIds : Mine(w, d) => d = c
  BY RowAtWork DEF Once, Busy
<1>2. craft[c].status = "COMMITED" /\ Holds(w, craft[c], machine[w])
  BY <1>1 DEF Once, Held, Notes, Noted
<1> HIDE DEF c
<1>3. /\ machine[w] = [recipe_id |-> craft[c].recipe_id, repeats |-> craft[c].repeats,
                       stage |-> machine[w].stage]
      /\ machine[w].stage \in {"loaded", "crafted", "made"}
  BY <1>2 DEF Holds
<1>4. machine[w] = [machine[w] EXCEPT !.stage = machine[w].stage]
  BY <1>3
<1>5. ASSUME NEW stage \in {"loaded", "crafted", "made"}, craft' = craft, todo'[w] \subseteq todo[w],
             machine'[w] = [machine[w] EXCEPT !.stage = stage],
             \/ pc'[w] = "idle"
             \/ pc'[w] = "complete" /\ stage = "made" /\ cur'[w] = cur[w]
      PROVE  Once(w)'
  <2>1. /\ machine'[w] = [recipe_id |-> craft[c].recipe_id, repeats |-> craft[c].repeats, stage |-> stage]
        /\ machine'[w].stage = stage
    BY <1>3, <1>5
  <2>2. Holds(w, craft[c], machine'[w])
    BY <1>2, <2>1 DEF Holds
  <2>3. \A d \in CraftIds : Mine(w, d) => Holds(w, craft[d], machine'[w])
    BY <1>1, <2>2
  <2>4. /\ pc'[w] \notin {"types", "select", "next", "done"}
        /\ pc'[w] \notin {"dump", "load", "commit"}
        /\ pc'[w] \in Busy => pc[w] \in Busy /\ cur'[w] = cur[w]
        /\ pc'[w] = "complete" => machine'[w].stage = "made"
    BY <1>5, <2>1 DEF Busy
  <2>. QED BY <1>1, <1>5, <2>3, <2>4, ClientOnce
<1>. QED BY <1>3, <1>4, <1>5

\* The calls of the client, answered or not.  A made batch outlasts them all.
LEMMA CallsOnce ==
  ASSUME IInv, Notes, NEW w \in Workers, Once(w),
         Dump(w) \/ Load(w) \/ Call(w) \/ NothingToCraft(w) \/ CallFails(w)
  PROVE  Once(w)' /\ (machine[w].stage = "made" => machine'[w] = machine[w])
<1>1. w \in Agents /\ craft' = craft
  BY DEF Agents, Dump, Load, Call, NothingToCraft, CallFails, tables
<1>2. CASE Dump(w)
  <2>1. /\ pc[w] = "dump" /\ pc'[w] = "load" /\ machine'[w] = Dumped(machine[w])
        /\ cur'[w] = cur[w] /\ todo'[w] = todo[w]
    BY <1>1, <1>2 DEF Dump, GoTo, IInv, AgentsShaped, Notes
  <2>2. machine[w].stage \in {"empty", "loaded"}
    BY <2>1, BeforeCommit
  <2>3. machine'[w].stage \in {"empty", "loaded"}
    BY <2>1, <2>2 DEF Dumped, Empty
  <2>. QED BY <1>1, <2>1, <2>2, <2>3, BeforeCommit
<1>3. CASE Load(w)
  <2>1. /\ pc[w] = "load" /\ pc'[w] = "commit" /\ machine'[w] = Filled(cur[w], machine[w])
        /\ cur'[w] = cur[w] /\ todo'[w] = todo[w]
    BY <1>1, <1>3 DEF Load, GoTo, IInv, AgentsShaped, Notes
  <2>2. machine[w].stage \in {"empty", "loaded"}
    BY <2>1, BeforeCommit
  <2>3. machine'[w].stage \in {"empty", "loaded"}
    BY <2>1, <2>2 DEF Filled
  <2>. QED BY <1>1, <2>1, <2>2, <2>3, BeforeCommit
<1>4. CASE Call(w)
  <2>1. /\ pc[w] \in {"call", "restore"} /\ pc'[w] = "complete"
        /\ machine'[w] = Performed(machine[w]) /\ cur'[w] = cur[w] /\ todo'[w] = todo[w]
    BY <1>1, <1>4 DEF Call, GoTo, IInv, AgentsShaped, Notes
  <2>2. /\ machine[w].stage \in {"loaded", "crafted", "made"}
        /\ machine[w] = [machine[w] EXCEPT !.stage = machine[w].stage]
    BY <2>1, AfterCommit
  <2>3. machine'[w] = [machine[w] EXCEPT !.stage = "made"]
    BY <2>1, <2>2 DEF Performed
  <2>4. Once(w)'
    BY <1>1, <2>1, <2>3, AfterCommit
  <2>. QED BY <2>2, <2>3, <2>4
<1>5. CASE CallFails(w)
  <2>1. PICK batch \in Outcomes(w) : machine' = [machine EXCEPT ![w] = batch]
    BY <1>5 DEF CallFails
  <2>2. pc'[w] = "idle" /\ todo'[w] = {} /\ machine'[w] = batch
        /\ pc[w] \in {"types", "dump", "load", "call", "restore"}
    BY <1>1, <1>5, <2>1 DEF CallFails, GiveUp, GoTo, IInv, AgentsShaped, Notes
  <2>3. CASE pc[w] = "types"
    <3>1. machine'[w] = machine[w]
      BY <2>1, <2>2, <2>3 DEF Outcomes
    <3>2. machine[w].stage \in {"empty", "loaded"} /\ \A c \in CraftIds : ~Mine(w, c)
      BY <2>3 DEF Once, Held, OneRow
    <3>3. pc'[w] \notin Busy
      BY <2>2 DEF Busy
    <3>. QED BY <1>1, <2>2, <3>1, <3>2, <3>3, ClientOnce
  <2>4. CASE pc[w] \in {"dump", "load"}
    <3>1. machine[w].stage \in {"empty", "loaded"}
      BY <2>4, BeforeCommit
    <3>2. machine'[w].stage \in {"empty", "loaded"}
      BY <2>1, <2>2, <2>4, <3>1 DEF Outcomes, Dumped, Filled, Empty
    <3>. QED BY <1>1, <2>2, <2>4, <3>1, <3>2, BeforeCommit
  <2>5. CASE pc[w] \in {"call", "restore"}
    <3>1. /\ machine[w].stage \in {"loaded", "crafted", "made"}
          /\ machine[w] = [machine[w] EXCEPT !.stage = machine[w].stage]
      BY <2>5, AfterCommit
    <3>2. Performed(machine[w]) = [machine[w] EXCEPT !.stage = "made"]
      BY <3>1 DEF Performed
    <3>3. \/ machine'[w] = machine[w] \/ machine'[w] = Performed(machine[w])
          \/ machine[w].stage = "loaded" /\ machine'[w] = [machine[w] EXCEPT !.stage = "crafted"]
      BY <2>1, <2>2, <2>5 DEF Outcomes
    <3>4. \E stage \in {"loaded", "crafted", "made"} : machine'[w] = [machine[w] EXCEPT !.stage = stage]
      BY <3>1, <3>2, <3>3
    <3>5. Once(w)'
      BY <1>1, <2>2, <2>5, <3>4, AfterCommit
    <3>6. machine[w].stage = "made" => machine'[w] = machine[w]
      BY <3>1, <3>2, <3>3
    <3>. QED BY <3>5, <3>6
  <2>. QED BY <2>2, <2>3, <2>4, <2>5
<1>6. CASE NothingToCraft(w)
  <2>1. pc[w] = "call" /\ pc'[w] = "idle" /\ machine' = machine /\ todo'[w] \subseteq todo[w]
    BY <1>1, <1>6 DEF NothingToCraft, GiveUp, GoTo, IInv, AgentsShaped
  <2>2. /\ machine[w].stage \in {"loaded", "crafted", "made"}
        /\ machine[w] = [machine[w] EXCEPT !.stage = machine[w].stage]
    BY <2>1, AfterCommit
  <2>. QED BY <1>1, <2>1, <2>2, AfterCommit
<1>. QED BY <1>2, <1>3, <1>4, <1>5, <1>6

\* Planning makes rows that are one batch, for nobody.
LEMMA NewRowsOnce ==
  ASSUME IInv, L!TypeOK, FitsBatch, RowsFit, Schedule \/ Submit \/ Delete \/ Count
  PROVE  /\ RowsFit'
         /\ \A c \in CraftIds : craft[c] = NoCraft /\ craft'[c] # NoCraft
                                  => craft'[c].worker_id = NoWorker
<1>1. ASSUME NEW c \in CraftIds, NEW row, craft' = [craft EXCEPT ![c] = row],
             row.repeats \in 1..MaxRepeats[row.recipe_id], row.commit_repeats = 0,
             row.status = "PENDING", row.worker_id = NoWorker, \A p \in PlanIds : Fits(planSteps'[p])
      PROVE  /\ RowsFit'
             /\ \A d \in CraftIds : craft[d] = NoCraft /\ craft'[d] # NoCraft
                                      => craft'[d].worker_id = NoWorker
  <2>1. \A d \in CraftIds : craft'[d] = IF d = c THEN row ELSE craft[d]
    BY <1>1 DEF IInv, RowsShaped
  <2>2. FitRow(row)
    BY <1>1 DEF FitRow
  <2>. QED BY <1>1, <2>1, <2>2 DEF RowsFit
<1>2. /\ planSteps \in [PlanIds -> [Recipes -> Int]]
      /\ \A p \in PlanIds : Fits(planSteps[p])
  BY DEF RowsFit, L!TypeOK, L!PlanIds, PlanIds, L!Recipes, Recipes
<1>3. CASE Submit
  <2>1. PICK p \in PlanIds, r \in Recipes : \E k \in 1..planSteps[p][r] : InsertCraft(p, r, k)
    BY <1>3 DEF Submit
  <2>2. PICK k \in 1..planSteps[p][r] : InsertCraft(p, r, k)
    BY <2>1
  <2> DEFINE rest == [planSteps[p] EXCEPT ![r] = planSteps[p][r] - k]
  <2>3. planSteps' = [planSteps EXCEPT ![p] = rest]
    BY <2>2 DEF InsertCraft
  <2>4. /\ k \in 1..MaxRepeats[r] /\ planSteps[p] \in [Recipes -> Int] /\ Fits(planSteps[p])
        /\ \A q \in Recipes : MaxRepeats[q] \in Int
    BY <1>2, <2>2, ServiceAssumption DEF Fits
  <2>5. Fits(rest)
    BY <2>2, <2>4 DEF Fits
  <2> HIDE DEF rest
  <2>6. \A o \in PlanIds : Fits(planSteps'[o])
    BY <1>2, <2>3, <2>5
  <2>7. PICK c \in CraftIds : craft' = [craft EXCEPT ![c] =
            [id |-> c, plan_id |-> p, recipe_id |-> r, worker_id |-> NoWorker,
             status |-> "PENDING", repeats |-> k, commit_repeats |-> 0]]
    BY <2>2 DEF InsertCraft
  <2> DEFINE row == [id |-> c, plan_id |-> p, recipe_id |-> r, worker_id |-> NoWorker,
                     status |-> "PENDING", repeats |-> k, commit_repeats |-> 0]
  <2>8. /\ craft' = [craft EXCEPT ![c] = row] /\ row.repeats = k /\ row.commit_repeats = 0
        /\ row.recipe_id = r /\ row.status = "PENDING" /\ row.worker_id = NoWorker
    BY <2>7
  <2> HIDE DEF row
  <2>. QED BY <1>1, <2>4, <2>6, <2>8
<1>4. CASE Count
  BY <1>4 DEF Count, UpdateItemCount, RowsFit
<1>5. ASSUME NEW p \in PlanIds, NEW steps \in [Recipes -> Int], craft' = craft,
             Fits(steps), planSteps' = [planSteps EXCEPT ![p] = steps]
      PROVE  RowsFit'
  <2>1. \A o \in PlanIds : planSteps'[o] = IF o = p THEN steps ELSE planSteps[o]
    BY <1>2, <1>5
  <2>. QED BY <1>5, <2>1 DEF RowsFit
<1>6. CASE Delete
  <2>1. PICK p \in PlanIds : RemovePlan(p)
    BY <1>6 DEF Delete
  <2> DEFINE steps == [r \in Recipes |-> 0]
  <2>2. craft' = craft /\ planSteps' = [planSteps EXCEPT ![p] = steps]
    BY <2>1 DEF RemovePlan
  <2>3. steps \in [Recipes -> Int] /\ Fits(steps)
    BY DEF Fits
  <2> HIDE DEF steps
  <2>. QED BY <1>5, <2>2, <2>3
<1>7. CASE Schedule
  <2>1. PICK p \in PlanIds, shape \in PlanShapes, stock \in [Items -> 0..MaxStock] :
          InsertPlan(p, shape, stock)
    BY <1>7 DEF Schedule
  <2>2. craft' = craft /\ planSteps' = [planSteps EXCEPT ![p] = shape.steps]
    BY <2>1 DEF InsertPlan
  <2>3. shape.steps \in [Recipes -> Int] /\ Fits(shape.steps)
    BY ServiceAssumption DEF FitsBatch
  <2>. QED BY <1>5, <2>2, <2>3
<1>. QED BY <1>3, <1>4, <1>6, <1>7

LEMMA PlanOnce ==
  ASSUME IInv, L!TypeOK, FitsBatch, RowsFit, NEW w \in Workers, Listed(w), Once(w),
         Schedule \/ Submit \/ Delete \/ Count
  PROVE  Once(w)' /\ RowsFit'
<1>1. UNCHANGED <<pc, cur, todo, machine>>
  BY DEF Schedule, Submit, Delete, Count, callers
<1>2. RowsFit' /\ \A c \in CraftIds : craft[c] = NoCraft /\ craft'[c] # NoCraft
                                        => craft'[c].worker_id # w
  BY NewRowsOnce, TablesAssumption
<1>3. \A c \in CraftIds : craft[c] # NoCraft => craft'[c] = craft[c]
  BY PlanRows
<1>4. \A c \in CraftIds : (Mine(w, c)' <=> Mine(w, c)) /\ (Mine(w, c) => craft'[c] = craft[c])
  BY <1>2, <1>3 DEF Mine
<1>5. OneRow(w)'
  BY <1>1, <1>4 DEF Once, OneRow
<1>6. pc[w] \in Busy => craft'[cur[w].id] = craft[cur[w].id]
  BY <1>3, OwnCraft
<1>7. Held(w)'
  BY <1>1, <1>4, <1>6 DEF Once, Held, Holds, Busy
<1>8. \A cp \in todo[w] : cp.id \in CraftIds /\ craft[cp.id] # NoCraft
  BY DEF Listed, IInv, AtHand, IsCopy
<1>9. Counted(w)'
  BY <1>1, <1>3, <1>6, <1>8 DEF Once, Counted
<1>. QED BY <1>2, <1>5, <1>7, <1>9 DEF Once

\* Every step of the one worker.
LEMMA WorkerOnce ==
  ASSUME L!TypeOK, Hands, IInv, Notes, RowsFit, NEW w \in Workers, Once(w), Listed(w),
         OwnStep(w) \/ Answered(w) \/ CallFails(w)
  PROVE  Once(w)' /\ RowsFit'
<1>1. w \in Agents
  BY DEF Agents
<1>2. ASSUME UNCHANGED <<craft, planSteps>> PROVE RowsFit'
  BY <1>2 DEF RowsFit
<1>3. CASE FindCurrent(w) \/ FindNext(w)
  BY <1>2, <1>3, FindCurrentOnce, FindNextOnce DEF FindCurrent, FindNext, tables, planTables
<1>4. CASE Dump(w) \/ Load(w) \/ Call(w) \/ NothingToCraft(w) \/ CallFails(w)
  BY <1>2, <1>4, CallsOnce DEF Dump, Load, Call, NothingToCraft, CallFails, tables, planTables
<1>5. CASE Skip(w) \/ EndOfList(w) \/ GetTypes(w)
  <2>1. /\ UNCHANGED <<craft, machine, planSteps>> /\ pc[w] \in {"next", "types"}
        /\ todo'[w] \subseteq todo[w] /\ pc'[w] \notin Busy
    BY <1>1, <1>5 DEF Skip, EndOfList, GetTypes, GoTo, tables, planTables, IInv, AgentsShaped, Busy
  <2>2. \A c \in CraftIds : ~Mine(w, c)
    BY <2>1 DEF Once, OneRow
  <2>. QED BY <1>2, <2>1, <2>2, QuietOnce
<1>6. CASE Done(w)
  <2>1. /\ UNCHANGED <<craft, machine, planSteps>> /\ pc[w] = "done"
        /\ todo'[w] \subseteq todo[w] /\ pc'[w] \notin Busy
    BY <1>1, <1>6 DEF Done, GoTo, tables, planTables, IInv, AgentsShaped, Busy
  <2>2. \A c \in CraftIds : ~Mine(w, c)
    BY <2>1 DEF Once, OneRow
  <2>. QED BY <1>2, <2>1, <2>2, QuietOnce
<1>7. CASE CommitFails(w) \/ CompleteFails(w)
  <2>1. /\ UNCHANGED <<craft, machine, planSteps>> /\ pc'[w] = "idle"
        /\ todo'[w] \subseteq todo[w]
    BY <1>1, <1>7 DEF CommitFails, CompleteFails, GiveUp, GoTo, tables, planTables, IInv, AgentsShaped
  <2>. QED BY <1>2, <2>1, QuietOnce DEF Busy
<1>. QED BY <1>3, <1>4, <1>5, <1>6, <1>7, AssignOnce, CommitOnce, CompleteOnce DEF OwnStep, Answered

LEMMA AlwaysOnce ==
  ASSUME Handlers = {}, Alone, FitsBatch
  PROVE  Spec => [](RowsFit /\ \A w \in Workers : Once(w))
<1> DEFINE Inv == RowsFit /\ \A w \in Workers : Once(w)
<1>1. Init => Inv
  BY ServiceAssumption DEF Init, InitTables, RowsFit, Fits, Once, OneRow, Held, Counted, Mine, Agents, Empty, Busy
<1>2. L!TypeOK /\ Hands /\ IInv /\ Notes /\ Lists /\ Inv /\ [Next]_vars => Inv'
  <2> SUFFICES ASSUME L!TypeOK, Hands, IInv, Notes, Lists, Inv, [Next]_vars PROVE Inv'
    OBVIOUS
  <2>1. ASSUME NEW v \in Workers, OwnStep(v) \/ Answered(v) \/ CallFails(v) PROVE Inv'
    <3>1. Once(v)' /\ RowsFit'
      BY <2>1, WorkerOnce DEF Lists
    <3>2. \A w \in Workers : w = v
      BY DEF Alone
    <3>. QED BY <3>1, <3>2
  <2>2. CASE Schedule \/ Submit \/ Delete \/ Count
    BY <2>2, NewRowsOnce, PlanOnce DEF Lists
  <2>3. ASSUME Crash \/ UNCHANGED vars, NEW w \in Workers PROVE Once(w)'
    <3>1. CASE Crash
      <4>1. UNCHANGED <<craft, machine>> /\ pc'[w] = "idle" /\ todo'[w] \subseteq todo[w]
        BY <3>1 DEF Crash, tables, Agents
      <4>. QED BY <4>1, QuietOnce DEF Busy
    <3>2. CASE UNCHANGED vars
      BY <3>2 DEF vars, callers, tables, Once, OneRow, Held, Counted, Mine, Holds
    <3>. QED BY <2>3, <3>1, <3>2
  <2>4. Crash \/ UNCHANGED vars => RowsFit'
    BY DEF Crash, vars, callers, tables, planTables, RowsFit
  <2>. QED BY <2>1, <2>2, <2>3, <2>4 DEF Next
<1>. QED BY <1>1, <1>2, StepsUse, AlwaysInv, AlwaysNotes, AlwaysLists, PTL DEF Spec

\* Only the completion of a craft changes the repeats of a row that is there.
LEMMA RepeatsStay ==
  ASSUME Handlers = {}, IInv, [Next]_vars, \A v \in Workers : ~Complete(v),
         NEW c \in CraftIds, craft[c] # NoCraft
  PROVE  craft'[c] # NoCraft /\ craft'[c].repeats = craft[c].repeats
<1>1. ASSUME NEW w \in Workers, Assign(w)
      PROVE  craft'[c] # NoCraft /\ craft'[c].repeats = craft[c].repeats
  <2>1. PICK d : craft' = [craft EXCEPT ![d] = [craft[d] EXCEPT !.worker_id = w]]
    BY <1>1 DEF Assign, AssignCraftToWorker
  <2>2. IsRow(c, craft[c])
    BY DEF IInv, RowsShaped
  <2> DEFINE new == [craft[c] EXCEPT !.worker_id = w]
  <2>3. new # NoCraft /\ new.repeats = craft[c].repeats
    BY <2>2, RowsKept DEF IsRow
  <2>4. craft'[c] = IF c = d THEN new ELSE craft[c]
    BY <2>1 DEF IInv, RowsShaped
  <2> HIDE DEF new
  <2>. QED BY <2>3, <2>4
<1>2. ASSUME NEW w \in Workers, Commit(w)
      PROVE  craft'[c] # NoCraft /\ craft'[c].repeats = craft[c].repeats
  <2>1. PICK d, n : craft' = [craft EXCEPT ![d] = Commited(craft[d], n)]
    BY <1>2 DEF Commit, CommitCraft
  <2>2. IsRow(c, craft[c])
    BY DEF IInv, RowsShaped
  <2> DEFINE new == Commited(craft[c], n)
  <2>3. new # NoCraft
    BY <2>2, RowsKept
  <2>4. new.repeats = craft[c].repeats
    BY <2>2 DEF IsRow, Commited
  <2>5. craft'[c] = IF c = d THEN new ELSE craft[c]
    BY <2>1 DEF IInv, RowsShaped
  <2> HIDE DEF new
  <2>. QED BY <2>3, <2>4, <2>5
<1>3. ASSUME NEW w \in Workers, OwnStep(w) \/ Answered(w) \/ CallFails(w), ~Assign(w), ~Commit(w)
      PROVE  craft' = craft
  BY <1>3 DEF OwnStep, Answered, FindCurrent, FindNext, Skip, EndOfList, CommitFails, CompleteFails,
     Done, GetTypes, Dump, Load, Call, NothingToCraft, CallFails, tables
<1>4. Crash \/ UNCHANGED vars => craft' = craft
  BY DEF Crash, vars, tables
<1>. QED BY <1>1, <1>2, <1>3, <1>4, PlanRows DEF Next

\* Lost answers, interrupted calls and restarts neither repeat a batch nor pass
\* over one: what the worker takes off a craft is what its client has made
\* since the last completion, and everything the client has made is taken off.
\* For the one worker of its crafts, when each craft fits one batch: a worker
\* that is left with several rows, or that finds the rowid of a finished craft
\* again, does lose count.
THEOREM BatchesCountOnce ==
  ASSUME Handlers = {}, Alone, FitsBatch
  PROVE  Spec => ExactlyOnce
<1> DEFINE Inv == IInv /\ Notes /\ Lists /\ RowsFit /\ \A w \in Workers : Once(w)
           Taken == \A c \in CraftIds : Booked(c) # 0 =>
                      \E w \in Workers :
                        /\ machine[w] = [recipe_id |-> craft[c].recipe_id, repeats |-> Booked(c), stage |-> "made"]
                        /\ machine'[w] = Empty
           Made == \A w \in Workers : machine[w].stage = "made" /\ machine'[w] # machine[w] =>
                     \E c \in CraftIds : craft[c] # NoCraft /\ Booked(c) = machine[w].repeats
<1>1. Inv /\ [Next]_vars => [Endable => Taken /\ Made]_vars
  <2> SUFFICES ASSUME Inv, [Next]_vars PROVE Taken /\ Made
    OBVIOUS
  <2>1. ASSUME NEW c \in CraftIds, craft[c] # NoCraft PROVE craft[c].repeats \in Int \ {0}
    BY <2>1 DEF RowsFit, FitRow
  <2>2. CASE \A v \in Workers : ~Complete(v)
    <3>1. \A c \in CraftIds : Booked(c) = 0
      BY <2>1, <2>2, RepeatsStay DEF Booked
    <3>2. ASSUME NEW w \in Workers, machine[w].stage = "made" PROVE machine'[w] = machine[w]
      <4>1. CASE Schedule \/ Submit \/ Delete \/ Count \/ Crash \/ UNCHANGED vars
        BY <4>1 DEF Schedule, Submit, Delete, Count, Crash, vars
      <4>2. ASSUME NEW v \in Workers, OwnStep(v) \/ Answered(v) \/ CallFails(v)
            PROVE  machine'[w] = machine[w]
        <5>1. v = w
          BY DEF Alone
        <5>2. CASE Dump(w) \/ Load(w) \/ Call(w) \/ NothingToCraft(w) \/ CallFails(w)
          BY <3>2, <5>2, CallsOnce
        <5>3. CASE OwnStep(w) \/ GetTypes(w)
          BY <2>2, <5>3 DEF OwnStep, FindCurrent, FindNext, Assign, Skip, EndOfList, Commit,
             CommitFails, CompleteFails, Done, GetTypes
        <5>. QED BY <4>2, <5>1, <5>2, <5>3 DEF Answered
      <4>. QED BY <4>1, <4>2 DEF Next
    <3>. QED BY <3>1, <3>2
  <2>3. ASSUME NEW w \in Workers, Complete(w) PROVE Taken /\ Made
    <3> DEFINE d == cur[w].id
    <3>1. /\ d \in CraftIds /\ craft[d] # NoCraft /\ craft' = [craft EXCEPT ![d] = NoCraft]
          /\ machine[w] = [recipe_id |-> craft[d].recipe_id, repeats |-> craft[d].repeats, stage |-> "made"]
          /\ machine' = [machine EXCEPT ![w] = Empty]
      BY <2>3, CompleteOnce DEF Lists
    <3> HIDE DEF d
    <3>2. machine'[w] = Empty /\ machine[w].repeats = craft[d].repeats
      BY <3>1 DEF Notes
    <3>3. \A c \in CraftIds : craft'[c] = IF c = d THEN NoCraft ELSE craft[c]
      BY <3>1 DEF IInv, RowsShaped
    <3>4. Booked(d) = craft[d].repeats /\ \A c \in CraftIds : c # d => Booked(c) = 0
      BY <2>1, <3>1, <3>3 DEF Booked
    <3>5. Taken
      BY <3>1, <3>2, <3>4
    <3>6. Made
      <4>1. \A v \in Workers : v = w
        BY DEF Alone
      <4>. QED BY <3>1, <3>2, <3>4, <4>1
    <3>. QED BY <3>5, <3>6
  <2>. QED BY <2>2, <2>3
<1>. QED BY <1>1, AlwaysInv, AlwaysNotes, AlwaysLists, AlwaysOnce, PTL DEF Spec, ExactlyOnce
=============================================================================
