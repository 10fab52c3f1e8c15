-------------------------- MODULE TransferTxProofs --------------------------
(***************************************************************************)
(* For any workers, cells and requests, any sizes and any number of        *)
(* transactions, with the ping, failing calls and restarts: stored         *)
(* transactions are kept apart by their subjects, everything keeps its     *)
(* type, and apart from the named faults no step delivers anything twice   *)
(* or loses it.                                                            *)
(***************************************************************************)
EXTENDS TransferTx, SumsProofs

Overlap(tx, r) == Subjects(tx.moves) \intersect Subjects(r) # {}

\* The variables that matter here have their types.
Shapes ==
  /\ mu \in Workers \union {Nobody}
  /\ pc \in [Procs -> {"idle", "items", "fluids", "drop", "dump", "load", "open"}]
  /\ work = [p \in Procs |-> work[p]]
  /\ request = [w \in Workers |-> request[w]]

\* A worker is at work exactly while it has the lock.
Exclusive == \A w \in Workers : mu = w <=> pc[w] # "idle"

\* A worker that restores what is pending on the subjects of its request has
\* all of that at hand, for nobody can store anything meanwhile.
Restores ==
  \A w \in Workers : pc[w] \in {"items", "fluids", "drop"} /\ request[w] # NoRequest =>
    \A tx \in stored : Overlap(tx, request[w]) => tx \in work[w]

IInv == Shapes /\ Exclusive /\ Restores /\ SubjectsApart

\* Workers, the ping and nobody are told apart.
LEMMA Distinct == Pinger \notin Workers /\ Nobody \notin Workers /\ Workers \subseteq Procs
BY TransferAssumption DEF Procs

\* The invariant holds at first.
LEMMA InitInv == Init => IInv
BY Distinct DEF Init, IInv, Shapes, Exclusive, Restores, SubjectsApart

\* While nothing is stored, a goroutine that stays in its phases, restoring or
\* setting up, disturbs nothing.
LEMMA PhaseInv ==
  ASSUME IInv, NEW p \in Procs, NEW l, UNCHANGED <<stored, mu, work, request>>,
         \/ pc' = pc
         \/ /\ pc' = [pc EXCEPT ![p] = l]
            /\ \/ pc[p] \in {"items", "fluids"} /\ l \in {"fluids", "drop"}
               \/ pc[p] \in {"dump", "load"} /\ l \in {"load", "open"}
  PROVE  IInv'
<1>1. CASE pc' = pc
  BY <1>1 DEF IInv, Shapes, Exclusive, Restores, SubjectsApart
<1>2. CASE pc' # pc
  <2>1. \/ pc[p] \in {"items", "fluids"} /\ l \in {"fluids", "drop"}
        \/ pc[p] \in {"dump", "load"} /\ l \in {"load", "open"}
    BY <1>2
  <2>2. \A q \in Procs : pc'[q] = IF q = p THEN l ELSE pc[q]
    BY <1>2 DEF IInv, Shapes
  <2>3. Shapes'
    BY <1>2, <2>1 DEF IInv, Shapes
  <2>4. Exclusive'
    BY <2>1, <2>2, Distinct DEF IInv, Exclusive
  <2>5. Restores' /\ SubjectsApart'
    BY <2>1, <2>2, Distinct DEF IInv, Restores, SubjectsApart
  <2>. QED BY <2>3, <2>4, <2>5 DEF IInv
<1>. QED BY <1>1, <1>2

\* Nor does one that returns, whatever has been dropped.
LEMMA StopInv ==
  ASSUME IInv, NEW p \in Procs, Stop(p), stored' \subseteq stored
  PROVE  IInv'
<1>1. /\ pc' = [pc EXCEPT ![p] = "idle"] /\ work' = [work EXCEPT ![p] = {}]
      /\ request' = [w \in Workers |-> IF w = p THEN NoRequest ELSE request[w]]
      /\ mu' = IF mu = p THEN Nobody ELSE mu
  BY DEF Stop, GoTo
<1>2. \A q \in Procs : /\ pc'[q] = IF q = p THEN "idle" ELSE pc[q]
                       /\ work'[q] = IF q = p THEN {} ELSE work[q]
  BY <1>1 DEF IInv, Shapes
<1>3. Shapes'
  BY <1>1 DEF IInv, Shapes
<1>4. Exclusive'
  BY <1>1, <1>2, Distinct DEF IInv, Exclusive
<1>5. Restores' /\ SubjectsApart'
  BY <1>1, <1>2, Distinct DEF IInv, Restores, SubjectsApart, Overlap
<1>. QED BY <1>3, <1>4, <1>5 DEF IInv

\* A worker begins with the lock and with all that is pending on its subjects.
LEMMA BeginInv ==
  ASSUME IInv, NEW w \in Workers, NEW r \in Requests, Begin(w, r)
  PROVE  IInv'
<1> DEFINE locks == {tx \in stored : Overlap(tx, r)}
<1>1. /\ pc[w] = "idle" /\ mu = Nobody /\ mu' = w /\ stored' = stored
      /\ request' = [request EXCEPT ![w] = r]
      /\ work' = [work EXCEPT ![w] = locks]
      /\ pc' = [pc EXCEPT ![w] = IF locks = {} THEN "dump" ELSE "items"]
  BY DEF Begin, GoTo, Overlap
<1> HIDE DEF locks
<1>2. /\ \A q \in Procs : /\ pc'[q] = IF q = w THEN IF locks = {} THEN "dump" ELSE "items"
                                      ELSE pc[q]
                          /\ work'[q] = IF q = w THEN locks ELSE work[q]
      /\ \A v \in Workers : request'[v] = IF v = w THEN r ELSE request[v]
  BY <1>1, Distinct DEF IInv, Shapes
<1>3. Shapes'
  BY <1>1 DEF IInv, Shapes
<1>4. \A v \in Workers : v # w => pc'[v] = "idle"
  BY <1>1, <1>2, Distinct DEF IInv, Exclusive, Shapes
<1>5. pc'[w] \in {"dump", "items"} /\ work'[w] = locks /\ request'[w] = r
  BY <1>2, Distinct
<1>6. Exclusive'
  BY <1>1, <1>4, <1>5, Distinct DEF Exclusive
<1>7. Restores'
  BY <1>1, <1>4, <1>5 DEF Restores, locks
<1>8. SubjectsApart'
  <2>1. pc'[w] = "dump" => \A tx \in stored : ~Overlap(tx, r)
    BY <1>2, Distinct DEF locks
  <2>. QED BY <1>1, <1>4, <1>5, <2>1 DEF IInv, SubjectsApart, Overlap
<1>. QED BY <1>3, <1>6, <1>7, <1>8 DEF IInv

\* The ping takes no part in it.
LEMMA PingInv ==
  ASSUME IInv, Ping
  PROVE  IInv'
<1>1. /\ UNCHANGED <<stored, mu, request>>
      /\ pc' = [pc EXCEPT ![Pinger] = "items"] /\ work' = [work EXCEPT ![Pinger] = stored]
  BY DEF Ping, GoTo
<1>2. \A w \in Workers : pc'[w] = pc[w] /\ work'[w] = work[w]
  BY <1>1, Distinct DEF IInv, Shapes
<1>. QED BY <1>1, <1>2 DEF IInv, Shapes, Exclusive, Restores, SubjectsApart

\* A transaction that has been dropped is neither stored nor at hand.
LEMMA DropInv ==
  ASSUME IInv, NEW p \in Procs, Drop(p)
  PROVE  IInv'
<1> DEFINE first == First(p)
<1>1. stored' = {tx \in stored : tx.id # first.id}
  BY DEF Drop
<1> HIDE DEF first
<1>2. stored' \subseteq stored /\ first \notin stored'
  BY <1>1
<1>3. CASE Stop(p)
  BY <1>2, <1>3, StopInv
<1>4. CASE ~Stop(p)
  <2> DEFINE l == IF work[p] = {first} THEN "dump" ELSE "items"
  <2>1. /\ UNCHANGED <<mu, request>> /\ pc[p] = "drop"
        /\ work' = [work EXCEPT ![p] = @ \ {first}]
        /\ pc' = [pc EXCEPT ![p] = l]
        /\ work[p] = {first} => p \in Workers /\ request[p] # NoRequest
    BY <1>4 DEF Drop, GoTo, first, Procs
  <2>2. \A q \in Procs : /\ pc'[q] = IF q = p THEN l ELSE pc[q]
                         /\ work'[q] = IF q = p THEN work[p] \ {first} ELSE work[q]
    BY <2>1 DEF IInv, Shapes
  <2>3. Shapes'
    BY <2>1 DEF IInv, Shapes
  <2>4. Exclusive'
    BY <2>1, <2>2, Distinct DEF IInv, Exclusive
  <2>5. Restores'
    BY <1>2, <2>1, <2>2, Distinct DEF IInv, Restores
  <2>6. SubjectsApart'
    <3>1. ASSUME NEW w \in Workers, pc'[w] \in {"dump", "load", "open"},
                 NEW tx \in stored'
          PROVE  Subjects(tx.moves) \intersect Subjects(request'[w]) = {}
      <4>1. CASE w = p
        <5>1. work[p] = {first} /\ request[p] # NoRequest /\ tx # first /\ tx \in stored
          BY <1>2, <2>1, <2>2, <3>1, <4>1
        <5>2. ~Overlap(tx, request[p])
          BY <2>1, <4>1, <5>1 DEF IInv, Restores
        <5>. QED BY <2>1, <4>1, <5>2 DEF Overlap
      <4>2. CASE w # p
        BY <1>2, <2>1, <2>2, <3>1, <4>2, Distinct DEF IInv, SubjectsApart
      <4>. QED BY <4>1, <4>2
    <3>2. \A tx, other \in stored' :
            tx # other => Subjects(tx.moves) \intersect Subjects(other.moves) = {}
      BY <1>2 DEF IInv, SubjectsApart
    <3>. QED BY <3>1, <3>2 DEF SubjectsApart
  <2>. QED BY <2>3, <2>4, <2>5, <2>6 DEF IInv
<1>. QED BY <1>3, <1>4

\* What a worker stores overlaps with nothing: it alone has the lock.
LEMMA CommitInv ==
  ASSUME IInv, NEW w \in Workers, Commit(w)
  PROVE  IInv'
<1> DEFINE tx == [id |-> lastId + 1, moves |-> request[w]]
<1>1. /\ pc[w] = "open" /\ stored' = stored \union {tx} /\ work' = [work EXCEPT ![w] = {tx}]
      /\ request' = [request EXCEPT ![w] = NoRequest]
      /\ pc' = [pc EXCEPT ![w] = "items"] /\ mu' = mu
  BY DEF Commit, GoTo
<1>2. tx.moves = request[w]
  OBVIOUS
<1> HIDE DEF tx
<1>3. mu = w /\ \A v \in Workers : v # w => pc[v] = "idle"
  BY <1>1 DEF IInv, Exclusive
<1>4. /\ \A q \in Procs : pc'[q] = IF q = w THEN "items" ELSE pc[q]
      /\ request'[w] = NoRequest
  BY <1>1 DEF IInv, Shapes
<1>5. Shapes'
  BY <1>1 DEF IInv, Shapes
<1>6. Exclusive'
  BY <1>1, <1>3, <1>4, Distinct DEF IInv, Exclusive
<1>7. Restores'
  BY <1>3, <1>4, Distinct DEF Restores
<1>8. \A other \in stored : Subjects(other.moves) \intersect Subjects(tx.moves) = {}
  BY <1>1, <1>2 DEF IInv, SubjectsApart
<1>9. SubjectsApart'
  BY <1>1, <1>3, <1>4, <1>8, Distinct DEF IInv, SubjectsApart
<1>. QED BY <1>5, <1>6, <1>7, <1>9 DEF IInv

\* After a restart everybody is idle.
LEMMA CrashInv ==
  ASSUME IInv, Crash
  PROVE  IInv'
BY Distinct DEF Crash, IInv, Shapes, Exclusive, Restores, SubjectsApart

\* The invariant is inductive.
LEMMA NextInv == IInv /\ [Next]_vars => IInv'
<1>. SUFFICES ASSUME IInv, [Next]_vars PROVE IInv'
  OBVIOUS
<1>1. ASSUME NEW p \in Procs, NEW c \in Cells, NEW n \in 0..Size[c], Move(p, c, n)
      PROVE  IInv'
  BY <1>1, PhaseInv DEF Move
<1>2. ASSUME NEW p \in Procs, NEW phase \in {"items", "fluids"}, Check(p, phase)
      PROVE  IInv'
  BY <1>2, PhaseInv DEF Check, Checking, GoTo
<1>3. ASSUME NEW p \in Procs, OwnStep(p) \/ CallFails(p) PROVE IInv'
  <2>1. CASE Drop(p)
    BY <2>1, DropInv
  <2>2. CASE ~Drop(p)
    BY <1>3, <2>2, StopInv DEF OwnStep, CheckFails, CallFails
  <2>. QED BY <2>1, <2>2
<1>4. ASSUME NEW w \in Workers, SetUp(w) \/ Rollback(w) PROVE IInv'
  <2>1. w \in Procs
    BY Distinct
  <2>2. CASE LoadShort(w) \/ Rollback(w)
    BY <2>1, <2>2, StopInv DEF LoadShort, Rollback
  <2>3. CASE Dump(w) \/ Load(w)
    BY <2>1, <2>3, PhaseInv DEF Dump, Load
  <2>4. CASE DumpDone(w)
    BY <2>1, <2>4, PhaseInv DEF DumpDone, GoTo
  <2>5. CASE Insert(w)
    BY <2>1, <2>5, PhaseInv DEF Insert, GoTo
  <2>. QED BY <1>4, <2>2, <2>3, <2>4, <2>5 DEF SetUp
<1>5. CASE UNCHANGED vars
  BY <1>5 DEF vars, procs, IInv, Shapes, Exclusive, Restores, SubjectsApart
<1>. QED BY <1>1, <1>2, <1>3, <1>4, <1>5, PingInv, BeginInv, CommitInv, CrashInv DEF Next

\* No two stored transactions share a subject, and what a worker sets up shares
\* none with a stored one: the unique index of stored_tx_subjects is never hit.
THEOREM StoredApart == Spec => []SubjectsApart
<1>1. IInv => SubjectsApart
  BY DEF IInv
<1>. QED BY InitInv, NextInv, <1>1, PTL DEF Spec

-----------------------------------------------------------------------------
\* Types.  The parts of TypeOK: what is stored and read, what cells hold, and
\* where goroutines are.
RowsOK ==
  /\ lastId \in 0..MaxTx
  /\ \A tx \in stored : tx.id \in 1..lastId /\ tx.moves \in Requests
  /\ \A p \in Procs : \A tx \in work[p] : tx.id \in 1..lastId /\ tx.moves \in Requests

Content(c) == [uid : Uids, amount : 1..Size[c]] \union {Empty}

CellsOK == \A c \in Cells : cell[c] \in Content(c)

PhasesOK ==
  /\ mu \in Workers \union {Nobody}
  /\ pc \in [Procs -> {"idle", "items", "fluids", "drop", "dump", "load", "open"}]
  /\ pc[Pinger] \notin {"dump", "load", "open"}
  /\ \A p \in Procs : work[p] # {} <=> pc[p] \in {"items", "fluids", "drop"}
  /\ at \in [Procs -> Cells \union {0}]
  /\ \A w \in Workers :
       /\ pc[w] # "idle" <=> mu = w
       /\ request[w] \in Requests \union {NoRequest}
       /\ pc[w] \in {"dump", "load", "open"} => request[w] # NoRequest

OwedOK == owed \in [Targets -> [Uids -> Int]]

LEMMA TypeParts == TypeOK <=> RowsOK /\ CellsOK /\ PhasesOK /\ OwedOK
BY DEF TypeOK, RowsOK, CellsOK, PhasesOK, OwedOK, Content

\* What the sums need besides: rows are finitely many, and cell is a function.
Finite == IsFiniteSet(stored) /\ cell = [c \in Cells |-> cell[c]]

\* Ids tell stored transactions from one another and from those at hand.
IdsUnique ==
  \A tx \in stored : \A other \in stored \union UNION {work[p] : p \in Procs} :
    other.id = tx.id => other = tx

TInv == IInv /\ RowsOK /\ CellsOK /\ PhasesOK /\ OwedOK /\ Finite /\ IdsUnique

\* Cells are finitely many numbers above zero.
LEMMA CellFacts ==
  /\ Cells \subseteq Nat \ {0} /\ IsFiniteSet(Cells)
  /\ Slots \subseteq Cells /\ Tanks \subseteq Cells /\ Slots \intersect Tanks = {}
  /\ \A c \in Cells : Size[c] \in Nat
<1>1. NSlots \in Nat /\ NTanks \in Nat /\ Size \in [Cells -> Nat]
  BY TransferAssumption
<1>2. IsFiniteSet(Slots) /\ IsFiniteSet(Tanks)
  BY <1>1, FS_Interval DEF Slots, Tanks
<1>3. IsFiniteSet(Cells)
  BY <1>2, FS_Union DEF Cells
<1>. QED BY <1>1, <1>3 DEF Cells, Slots, Tanks

\* A request is for some cells, of each an amount that fits.
LEMMA RequestFacts ==
  ASSUME NEW r \in Requests
  PROVE  /\ DOMAIN r \subseteq Cells /\ DOMAIN r # {} /\ r # NoRequest
         /\ IsFiniteSet(DOMAIN r)
         /\ \A c \in DOMAIN r : /\ r[c].uid \in Uids /\ r[c].target \in Targets
                                /\ r[c].amount \in 1..Size[c]
<1>1. /\ DOMAIN r \subseteq Cells /\ DOMAIN r # {}
      /\ \A c \in DOMAIN r : /\ r[c].uid \in Uids /\ r[c].target \in Targets
                             /\ r[c].amount \in 1..Size[c]
  BY TransferAssumption
<1>2. DOMAIN NoRequest = {}
  BY DEF NoRequest
<1>3. IsFiniteSet(DOMAIN r)
  BY <1>1, CellFacts, FS_Subset
<1>. QED BY <1>1, <1>2, <1>3

\* The least element of a set of numbers is one of them.
LEMMA MinIn ==
  ASSUME NEW T, T \subseteq Nat, T # {}
  PROVE  Min(T) \in T /\ \A y \in T : Min(T) <= y
<1>1. \E x \in T : \A y \in T : x <= y
  BY LeastElement
<1>. QED BY <1>1 DEF Min

\* The transaction that is processed is at hand, and the oldest there.
LEMMA FirstAtHand ==
  ASSUME NEW p \in Procs, RowsOK, work[p] # {}
  PROVE  First(p) \in work[p] /\ First(p).moves \in Requests /\ First(p).id \in 1..lastId
<1> DEFINE ids == {tx.id : tx \in work[p]}
<1>1. ids \subseteq Nat /\ ids # {}
  BY DEF RowsOK
<1>2. PICK i \in ids : \A j \in ids : i <= j
  BY <1>1, LeastElement
<1>3. \E tx \in work[p] : \A other \in work[p] : tx.id <= other.id
  BY <1>2
<1>4. First(p) \in work[p]
  BY <1>3 DEF First
<1>. QED BY <1>4 DEF RowsOK

\* What a cell may hold, and what is left of it.
LEMMA ContentFacts ==
  ASSUME NEW c \in Cells, NEW x \in Content(c)
  PROVE  /\ x.amount \in 0..Size[c] /\ (x = Empty <=> x.amount = 0)
         /\ (x = Empty <=> x.uid = NoUid) /\ (x # Empty => x.uid \in Uids)
         /\ \A n \in 0..x.amount :
              /\ Without(x, n) \in Content(c)
              /\ Without(x, n).amount = x.amount - n
              /\ n # x.amount => Without(x, n).uid = x.uid
              /\ n = 0 => Without(x, n) = x
<1>1. NoUid \notin Uids /\ Size[c] \in Nat
  BY TransferAssumption, CellFacts
<1>2. CASE x = Empty
  BY <1>1, <1>2 DEF Empty, Content, Without
<1>3. CASE x \in [uid : Uids, amount : 1..Size[c]]
  <2>1. /\ x.amount \in 1..Size[c] /\ x.uid \in Uids /\ x = [uid |-> x.uid, amount |-> x.amount]
        /\ Empty.amount = 0 /\ Empty.uid = NoUid
    BY <1>3 DEF Empty
  <2>2. ASSUME NEW n \in 0..x.amount
        PROVE  /\ Without(x, n) \in Content(c)
               /\ Without(x, n).amount = x.amount - n
               /\ n # x.amount => Without(x, n).uid = x.uid
               /\ n = 0 => Without(x, n) = x
    <3>1. CASE n = x.amount
      BY <2>1, <3>1 DEF Without, Content, Empty
    <3>2. CASE n # x.amount
      <4>1. Without(x, n) = [uid |-> x.uid, amount |-> x.amount - n]
        BY <2>1, <3>2 DEF Without
      <4>2. x.amount - n \in 1..Size[c] /\ (n = 0 => x.amount - n = x.amount)
        BY <1>1, <2>1, <3>2
      <4>3. [uid |-> x.uid, amount |-> x.amount - n] \in Content(c)
        BY <2>1, <4>2 DEF Content
      <4>. QED BY <2>1, <3>2, <4>1, <4>2, <4>3
    <3>. QED BY <3>1, <3>2
  <2>. QED BY <1>1, <2>1, <2>2
<1>. QED BY <1>2, <1>3 DEF Content

\* Nothing new is stored, and nobody reads what is not: rows keep their types
\* and their ids.
LEMMA RowsKept ==
  ASSUME TInv, lastId' = lastId, stored' \subseteq stored,
         \A p \in Procs : work'[p] \subseteq work[p] \union stored
  PROVE  RowsOK' /\ IdsUnique' /\ IsFiniteSet(stored')
<1>1. RowsOK'
  BY DEF TInv, RowsOK
<1>2. IdsUnique'
  BY DEF TInv, IdsUnique
<1>3. IsFiniteSet(stored')
  BY FS_Subset DEF TInv, Finite
<1>. QED BY <1>1, <1>2, <1>3

\* A cell gets other content.
LEMMA CellSet ==
  ASSUME CellsOK, Finite, NEW c \in Cells, NEW x \in Content(c), cell' = [cell EXCEPT ![c] = x]
  PROVE  /\ CellsOK' /\ cell' = [d \in Cells |-> cell'[d]]
         /\ \A d \in Cells : cell'[d] = IF d = c THEN x ELSE cell[d]
<1>1. \A d \in Cells : cell'[d] = IF d = c THEN x ELSE cell[d]
  BY DEF Finite
<1>2. CellsOK'
  BY <1>1 DEF CellsOK, Content
<1>. QED BY <1>1, <1>2 DEF Finite

\* A goroutine goes on in its phases.
LEMMA PhaseTypes ==
  ASSUME TInv, NEW p \in Procs, NEW l, NEW k \in Cells \union {0}, UNCHANGED <<mu, work, request>>,
         at' = [at EXCEPT ![p] = k],
         \/ pc' = pc
         \/ /\ pc' = [pc EXCEPT ![p] = l]
            /\ \/ pc[p] \in {"items", "fluids"} /\ l \in {"fluids", "drop"}
               \/ pc[p] \in {"dump", "load"} /\ l \in {"load", "open"}
  PROVE  PhasesOK'
<1>1. at' \in [Procs -> Cells \union {0}]
  BY DEF TInv, PhasesOK
<1>2. CASE pc' = pc
  BY <1>1, <1>2 DEF TInv, PhasesOK
<1>3. CASE pc' # pc
  <2>1. /\ \/ pc[p] \in {"items", "fluids"} /\ l \in {"fluids", "drop"}
           \/ pc[p] \in {"dump", "load"} /\ l \in {"load", "open"}
        /\ pc' = [pc EXCEPT ![p] = l]
    BY <1>3
  <2>2. \A q \in Procs : pc'[q] = IF q = p THEN l ELSE pc[q]
    BY <2>1 DEF TInv, PhasesOK
  <2>3. pc' \in [Procs -> {"idle", "items", "fluids", "drop", "dump", "load", "open"}]
    BY <2>1 DEF TInv, PhasesOK
  <2>4. pc'[Pinger] \notin {"dump", "load", "open"}
    BY <2>1, <2>2 DEF TInv, PhasesOK, Procs
  <2>5. \A q \in Procs : work'[q] # {} <=> pc'[q] \in {"items", "fluids", "drop"}
    BY <2>1, <2>2 DEF TInv, PhasesOK
  <2>6. ASSUME NEW w \in Workers
        PROVE  /\ pc'[w] # "idle" <=> mu' = w
               /\ request'[w] \in Requests \union {NoRequest}
               /\ pc'[w] \in {"dump", "load", "open"} => request'[w] # NoRequest
    BY <2>1, <2>2, Distinct DEF TInv, PhasesOK
  <2>. QED BY <1>1, <2>3, <2>4, <2>5, <2>6 DEF TInv, PhasesOK
<1>. QED BY <1>2, <1>3

\* A goroutine returns.
LEMMA StopTypes ==
  ASSUME TInv, NEW p \in Procs, Stop(p)
  PROVE  /\ PhasesOK'
         /\ \A q \in Procs : /\ pc'[q] = IF q = p THEN "idle" ELSE pc[q]
                             /\ work'[q] = IF q = p THEN {} ELSE work[q]
<1>1. /\ pc' = [pc EXCEPT ![p] = "idle"] /\ work' = [work EXCEPT ![p] = {}]
      /\ at' = [at EXCEPT ![p] = 0]
      /\ request' = [w \in Workers |-> IF w = p THEN NoRequest ELSE request[w]]
      /\ mu' = IF mu = p THEN Nobody ELSE mu
  BY DEF Stop, GoTo
<1>2. \A q \in Procs : /\ pc'[q] = IF q = p THEN "idle" ELSE pc[q]
                       /\ work'[q] = IF q = p THEN {} ELSE work[q]
  BY <1>1 DEF TInv, PhasesOK, IInv, Shapes
<1>3. /\ pc' \in [Procs -> {"idle", "items", "fluids", "drop", "dump", "load", "open"}]
      /\ at' \in [Procs -> Cells \union {0}]
  BY <1>1 DEF TInv, PhasesOK
<1>4. pc'[Pinger] \notin {"dump", "load", "open"}
  BY <1>2 DEF TInv, PhasesOK, Procs
<1>5. \A q \in Procs : work'[q] # {} <=> pc'[q] \in {"items", "fluids", "drop"}
  BY <1>2 DEF TInv, PhasesOK
<1>6. mu' \in Workers \union {Nobody}
  BY <1>1 DEF TInv, PhasesOK
<1>7. ASSUME NEW w \in Workers
      PROVE  /\ pc'[w] # "idle" <=> mu' = w
             /\ request'[w] \in Requests \union {NoRequest}
             /\ pc'[w] \in {"dump", "load", "open"} => request'[w] # NoRequest
  BY <1>1, <1>2, Distinct DEF TInv, PhasesOK
<1>. QED BY <1>2, <1>3, <1>4, <1>5, <1>6, <1>7 DEF PhasesOK

\* What a move does: it takes n from a cell of the oldest transaction at hand.
LEMMA MoveFacts ==
  ASSUME TInv, NEW p \in Procs, NEW c \in Cells, NEW n \in 0..Size[c], Move(p, c, n)
  PROVE  /\ First(p) \in work[p] /\ First(p).moves \in Requests /\ c \in DOMAIN First(p).moves
         /\ n \in 0..cell[c].amount
         /\ cell' = [cell EXCEPT ![c] = Without(cell[c], n)]
         /\ Without(cell[c], n) \in Content(c)
         /\ n # 0 => /\ cell[c].uid \in Uids /\ First(p).moves[c].target \in Targets
                     /\ owed' = [owed EXCEPT ![First(p).moves[c].target][cell[c].uid] = @ - n]
         /\ n = 0 => owed' = owed /\ cell' = cell
<1>1. pc[p] \in {"items", "fluids"} /\ c \in Moved(p)
  BY DEF Move
<1>2. First(p) \in work[p] /\ First(p).moves \in Requests
  BY <1>1, FirstAtHand DEF TInv, PhasesOK
<1>3. c \in DOMAIN First(p).moves
  BY <1>1 DEF Moved
<1>4. PICK move : move = First(p).moves[c]
  OBVIOUS
<1>5. move.uid \in Uids /\ move.target \in Targets /\ move.amount \in 1..Size[c]
  BY <1>2, <1>3, <1>4, RequestFacts
<1>6. /\ n <= Movable(move, c)
      /\ cell' = [cell EXCEPT ![c] = Without(cell[c], n)]
      /\ owed' = IF n = 0 THEN owed ELSE [owed EXCEPT ![move.target][cell[c].uid] = @ - n]
  BY <1>4 DEF Move
<1>7. cell[c] \in Content(c)
  BY DEF TInv, CellsOK
<1>8. cell[c].amount \in 0..Size[c] /\ (cell[c] # Empty => cell[c].uid \in Uids)
  BY <1>7, ContentFacts
<1>9. Size[c] \in Nat
  BY CellFacts
<1>10. n \in 0..cell[c].amount
  BY <1>5, <1>6, <1>8, <1>9 DEF Movable
<1>11. Without(cell[c], n) \in Content(c) /\ (n = 0 => Without(cell[c], n) = cell[c])
  BY <1>7, <1>10, ContentFacts
<1>12. n # 0 => cell[c].uid \in Uids
  BY <1>7, <1>8, <1>10, ContentFacts
<1>13. n = 0 => cell' = cell
  BY <1>6, <1>11 DEF TInv, Finite
<1>. QED BY <1>2, <1>3, <1>4, <1>5, <1>6, <1>10, <1>11, <1>12, <1>13

\* An amount that is owed changes.
LEMMA OwedSet ==
  ASSUME OwedOK, NEW t \in Targets, NEW u \in Uids, NEW n \in Int,
         owed' = [owed EXCEPT ![t][u] = @ - n]
  PROVE  /\ OwedOK'
         /\ \A s \in Targets, v \in Uids :
              owed'[s][v] = IF s = t /\ v = u THEN owed[t][u] - n ELSE owed[s][v]
BY DEF OwedOK

\* The parts besides IInv: one lemma for each kind of step.
Rest == RowsOK /\ CellsOK /\ PhasesOK /\ OwedOK /\ Finite /\ IdsUnique

LEMMA MoveTypes ==
  ASSUME TInv, NEW p \in Procs, NEW c \in Cells, NEW n \in 0..Size[c], Move(p, c, n)
  PROVE  Rest'
<1>1. /\ at' = [at EXCEPT ![p] = c] /\ UNCHANGED <<stored, lastId, mu, pc, work, request>>
  BY DEF Move
<1>2. PhasesOK'
  BY <1>1, PhaseTypes
<1>3. RowsOK' /\ IdsUnique' /\ IsFiniteSet(stored')
  BY <1>1, RowsKept
<1>4. CellsOK' /\ cell' = [d \in Cells |-> cell'[d]]
  BY MoveFacts, CellSet DEF TInv
<1>5. OwedOK'
  <2>1. CASE n = 0
    <3>1. owed' = owed
      BY <2>1, MoveFacts
    <3>. QED BY <3>1 DEF TInv, OwedOK
  <2>2. CASE n # 0
    <3>1. PICK t, u : t = First(p).moves[c].target /\ u = cell[c].uid
      OBVIOUS
    <3>2. /\ t \in Targets /\ u \in Uids
          /\ owed' = [owed EXCEPT ![t][u] = @ - n]
      BY <2>2, <3>1, MoveFacts
    <3>3. n \in Int
      OBVIOUS
    <3>. QED BY <3>2, <3>3, OwedSet DEF TInv
  <2>. QED BY <2>1, <2>2
<1>. QED BY <1>2, <1>3, <1>4, <1>5 DEF Rest, Finite

\* Goroutines that only change where they are.
LEMMA PhaseRest ==
  ASSUME TInv, PhasesOK', UNCHANGED <<lastId, cell, owed>>, stored' \subseteq stored,
         \A p \in Procs : work'[p] \subseteq work[p] \union stored
  PROVE  Rest'
<1>1. RowsOK' /\ IdsUnique' /\ IsFiniteSet(stored')
  BY RowsKept
<1>2. CellsOK' /\ cell' = [d \in Cells |-> cell'[d]]
  BY DEF TInv, CellsOK, Content, Finite
<1>. QED BY <1>1, <1>2 DEF Rest, Finite, TInv, OwedOK

LEMMA StopRest ==
  ASSUME TInv, NEW p \in Procs, Stop(p), UNCHANGED <<lastId, cell, owed>>, stored' \subseteq stored
  PROVE  Rest'
<1>1. \A q \in Procs : work'[q] \subseteq work[q] \union stored
  BY StopTypes
<1>. QED BY <1>1, StopTypes, PhaseRest

LEMMA BeginTypes ==
  ASSUME TInv, NEW w \in Workers, NEW r \in Requests, Begin(w, r)
  PROVE  Rest'
<1> DEFINE locks == {tx \in stored : Subjects(tx.moves) \intersect Subjects(r) # {}}
           l == IF locks = {} THEN "dump" ELSE "items"
<1>1. /\ pc[w] = "idle" /\ mu = Nobody /\ mu' = w
      /\ request' = [request EXCEPT ![w] = r]
      /\ work' = [work EXCEPT ![w] = locks]
      /\ pc' = [pc EXCEPT ![w] = l] /\ at' = [at EXCEPT ![w] = 0]
      /\ UNCHANGED <<stored, lastId, cell, owed>>
  BY DEF Begin, GoTo
<1>2. locks \subseteq stored /\ l \in {"dump", "items"} /\ (l = "items" <=> locks # {})
  OBVIOUS
<1> HIDE DEF locks, l
<1>3. w \in Procs /\ w # Pinger /\ w # Nobody /\ r # NoRequest
  BY Distinct, RequestFacts
<1>4. \A q \in Procs : /\ pc'[q] = IF q = w THEN l ELSE pc[q]
                       /\ work'[q] = IF q = w THEN locks ELSE work[q]
  BY <1>1, <1>3 DEF TInv, PhasesOK, IInv, Shapes
<1>5. \A v \in Workers : request'[v] = IF v = w THEN r ELSE request[v]
  BY <1>1 DEF TInv, IInv, Shapes
<1>6. PhasesOK'
  <2>1. /\ pc' \in [Procs -> {"idle", "items", "fluids", "drop", "dump", "load", "open"}]
        /\ at' \in [Procs -> Cells \union {0}] /\ mu' \in Workers \union {Nobody}
    BY <1>1, <1>2, <1>3 DEF TInv, PhasesOK
  <2>2. pc'[Pinger] \notin {"dump", "load", "open"}
    BY <1>3, <1>4 DEF TInv, PhasesOK, Procs
  <2>3. \A q \in Procs : work'[q] # {} <=> pc'[q] \in {"items", "fluids", "drop"}
    BY <1>2, <1>4 DEF TInv, PhasesOK
  <2>4. ASSUME NEW v \in Workers
        PROVE  /\ pc'[v] # "idle" <=> mu' = v
               /\ request'[v] \in Requests \union {NoRequest}
               /\ pc'[v] \in {"dump", "load", "open"} => request'[v] # NoRequest
    BY <1>1, <1>2, <1>3, <1>4, <1>5, Distinct DEF TInv, PhasesOK
  <2>. QED BY <2>1, <2>2, <2>3, <2>4 DEF PhasesOK
<1>. QED BY <1>1, <1>2, <1>4, <1>6, PhaseRest

LEMMA PingTypes ==
  ASSUME TInv, Ping
  PROVE  Rest'
<1>1. /\ UNCHANGED <<stored, lastId, cell, mu, request, owed>> /\ stored # {}
      /\ pc' = [pc EXCEPT ![Pinger] = "items"] /\ work' = [work EXCEPT ![Pinger] = stored]
      /\ at' = [at EXCEPT ![Pinger] = 0]
  BY DEF Ping, GoTo
<1>2. Pinger \in Procs
  BY DEF Procs
<1>3. \A q \in Procs : /\ pc'[q] = IF q = Pinger THEN "items" ELSE pc[q]
                       /\ work'[q] = IF q = Pinger THEN stored ELSE work[q]
  BY <1>1 DEF TInv, PhasesOK, IInv, Shapes
<1>4. PhasesOK'
  <2>1. /\ pc' \in [Procs -> {"idle", "items", "fluids", "drop", "dump", "load", "open"}]
        /\ at' \in [Procs -> Cells \union {0}]
    BY <1>1 DEF TInv, PhasesOK
  <2>2. \A q \in Procs : work'[q] # {} <=> pc'[q] \in {"items", "fluids", "drop"}
    BY <1>1, <1>3 DEF TInv, PhasesOK
  <2>. QED BY <1>1, <1>2, <1>3, <2>1, <2>2, Distinct DEF TInv, PhasesOK
<1>. QED BY <1>1, <1>3, <1>4, PhaseRest

\* A transaction is dropped: by its own goroutine, which goes on or returns.
LEMMA DropFacts ==
  ASSUME TInv, NEW p \in Procs, Drop(p)
  PROVE  /\ First(p) \in work[p]
         /\ \A tx \in stored : tx.id = First(p).id <=> tx = First(p)
         /\ stored' = stored \ {First(p)}
         /\ UNCHANGED <<lastId, cell, owed>>
<1>1. pc[p] = "drop" /\ stored' = {tx \in stored : tx.id # First(p).id}
      /\ UNCHANGED <<lastId, cell, owed>>
  BY DEF Drop
<1>2. First(p) \in work[p]
  BY <1>1, FirstAtHand DEF TInv, PhasesOK
<1>3. \A tx \in stored : tx.id = First(p).id => tx = First(p)
  BY <1>2 DEF TInv, IdsUnique
<1>. QED BY <1>1, <1>2, <1>3

LEMMA DropTypes ==
  ASSUME TInv, NEW p \in Procs, Drop(p)
  PROVE  Rest'
<1>0. PICK first : first = First(p)
  OBVIOUS
<1>1. stored' \subseteq stored /\ UNCHANGED <<lastId, cell, owed>> /\ first \in work[p]
  BY <1>0, DropFacts
<1>2. CASE Stop(p)
  BY <1>1, <1>2, StopRest
<1>3. CASE ~Stop(p)
  <2>0. PICK l : l = IF work[p] = {first} THEN "dump" ELSE "items"
    OBVIOUS
  <2>1. /\ UNCHANGED <<mu, request>> /\ pc[p] = "drop"
        /\ work' = [work EXCEPT ![p] = work[p] \ {first}]
        /\ pc' = [pc EXCEPT ![p] = l] /\ at' = [at EXCEPT ![p] = 0]
        /\ work[p] = {first} => p # Pinger /\ request[p] # NoRequest
    BY <1>0, <1>3, <2>0 DEF Drop, GoTo
  <2>2. \A q \in Procs : /\ pc'[q] = IF q = p THEN l ELSE pc[q]
                         /\ work'[q] = IF q = p THEN work[p] \ {first} ELSE work[q]
    BY <2>1 DEF TInv, PhasesOK, IInv, Shapes
  <2>3. /\ pc' \in [Procs -> {"idle", "items", "fluids", "drop", "dump", "load", "open"}]
        /\ at' \in [Procs -> Cells \union {0}]
    BY <2>0, <2>1 DEF TInv, PhasesOK
  <2>4. pc'[Pinger] \notin {"dump", "load", "open"}
    BY <2>0, <2>1, <2>2 DEF TInv, PhasesOK, Procs
  <2>5. \A q \in Procs : work'[q] # {} <=> pc'[q] \in {"items", "fluids", "drop"}
    <3>1. work[p] \ {first} # {} <=> l = "items"
      BY <1>1, <2>0
    <3>. QED BY <2>0, <2>2, <3>1 DEF TInv, PhasesOK
  <2>6. ASSUME NEW v \in Workers
        PROVE  /\ pc'[v] # "idle" <=> mu' = v
               /\ request'[v] \in Requests \union {NoRequest}
               /\ pc'[v] \in {"dump", "load", "open"} => request'[v] # NoRequest
    BY <2>0, <2>1, <2>2, Distinct DEF TInv, PhasesOK
  <2>7. PhasesOK'
    BY <2>1, <2>3, <2>4, <2>5, <2>6 DEF TInv, PhasesOK
  <2>8. \A q \in Procs : work'[q] \subseteq work[q] \union stored
    BY <2>2
  <2>. QED BY <1>1, <2>7, <2>8, PhaseRest
<1>. QED BY <1>2, <1>3

\* What is added to what is owed is a sum over the cells of the request.
Added(r, t, u) ==
  SumOver([c \in DOMAIN r |-> r[c].amount], {c \in DOMAIN r : r[c].target = t /\ r[c].uid = u})

LEMMA AddedIsInt ==
  ASSUME NEW r \in Requests, NEW t, NEW u
  PROVE  Added(r, t, u) \in Int
<1>1. PICK S : S = {c \in DOMAIN r : r[c].target = t /\ r[c].uid = u}
  OBVIOUS
<1>2. S \in SUBSET DOMAIN r /\ IsFiniteSet(DOMAIN r)
  BY <1>1, RequestFacts
<1>3. IsFiniteSet(S)
  BY <1>2, FS_Subset
<1>4. PICK f : f = [c \in DOMAIN r |-> r[c].amount]
  OBVIOUS
<1>5. \A c \in S : f[c] \in Int
  <2>1. ASSUME NEW c \in S PROVE r[c].amount \in 1..Size[c] /\ Size[c] \in Nat
    BY <1>2, RequestFacts, CellFacts
  <2>. QED BY <1>2, <1>4, <2>1
<1>6. SumOver(f, S) \in Int
  BY <1>3, <1>5, SumOverIsInt
<1>. QED BY <1>1, <1>4, <1>6 DEF Added

LEMMA CommitFacts ==
  ASSUME TInv, NEW w \in Workers, Commit(w)
  PROVE  /\ request[w] \in Requests
         /\ \A tx \in stored : tx.id # lastId + 1
         /\ \A t \in Targets, u \in Uids : owed'[t][u] = owed[t][u] + Added(request[w], t, u)
         /\ OwedOK'
<1>1. pc[w] = "open"
  BY DEF Commit
<1>2. request[w] \in Requests
  BY <1>1 DEF TInv, PhasesOK
<1>3. \A tx \in stored : tx.id # lastId + 1
  BY DEF TInv, RowsOK
<1>4. owed' = [t \in Targets |-> [u \in Uids |-> owed[t][u] + Added(request[w], t, u)]]
  BY DEF Commit, Added
<1>5. \A t \in Targets, u \in Uids : owed[t][u] + Added(request[w], t, u) \in Int
  BY <1>2, AddedIsInt DEF TInv, OwedOK
<1>6. OwedOK'
  BY <1>4, <1>5 DEF OwedOK
<1>. QED BY <1>2, <1>3, <1>4, <1>6

LEMMA CommitTypes ==
  ASSUME TInv, NEW w \in Workers, Commit(w)
  PROVE  Rest'
<1>0. PICK tx : tx = [id |-> lastId + 1, moves |-> request[w]]
  OBVIOUS
<1>1. /\ pc[w] = "open" /\ lastId < MaxTx /\ lastId' = lastId + 1
      /\ stored' = stored \union {tx} /\ work' = [work EXCEPT ![w] = {tx}]
      /\ request' = [request EXCEPT ![w] = NoRequest]
      /\ pc' = [pc EXCEPT ![w] = "items"] /\ at' = [at EXCEPT ![w] = 0]
      /\ UNCHANGED <<cell, mu>>
  BY <1>0 DEF Commit, GoTo
<1>2. tx.id = lastId + 1 /\ tx.moves \in Requests
  BY <1>0, CommitFacts
<1>3. w \in Procs /\ w # Pinger
  BY Distinct
<1>4. /\ \A q \in Procs : /\ pc'[q] = IF q = w THEN "items" ELSE pc[q]
                          /\ work'[q] = IF q = w THEN {tx} ELSE work[q]
      /\ \A v \in Workers : request'[v] = IF v = w THEN NoRequest ELSE request[v]
  BY <1>1, <1>3 DEF TInv, PhasesOK, IInv, Shapes
<1>5. RowsOK'
  <2>1. lastId \in 0..MaxTx /\ MaxTx \in Nat
    BY TransferAssumption DEF TInv, RowsOK
  <2>2. lastId' \in 0..MaxTx
    BY <1>1, <2>1
  <2>3. \A t2 \in stored' : t2.id \in 1..lastId' /\ t2.moves \in Requests
    BY <1>1, <1>2, <2>1 DEF TInv, RowsOK
  <2>4. \A p \in Procs : \A t2 \in work'[p] : t2.id \in 1..lastId' /\ t2.moves \in Requests
    BY <1>1, <1>2, <1>4, <2>1 DEF TInv, RowsOK
  <2>. QED BY <2>2, <2>3, <2>4 DEF RowsOK
<1>6. IdsUnique'
  <2>1. \A other \in stored \union UNION {work[p] : p \in Procs} : other.id # tx.id
    BY <1>2 DEF TInv, RowsOK
  <2>2. \A other \in stored' \union UNION {work'[p] : p \in Procs} :
          other = tx \/ other \in stored \union UNION {work[p] : p \in Procs}
    BY <1>1, <1>4
  <2>. QED BY <1>1, <2>1, <2>2 DEF TInv, IdsUnique
<1>7. PhasesOK'
  <2>1. /\ pc' \in [Procs -> {"idle", "items", "fluids", "drop", "dump", "load", "open"}]
        /\ at' \in [Procs -> Cells \union {0}]
    BY <1>1 DEF TInv, PhasesOK
  <2>2. pc'[Pinger] \notin {"dump", "load", "open"}
    BY <1>3, <1>4 DEF TInv, PhasesOK, Procs
  <2>3. \A q \in Procs : work'[q] # {} <=> pc'[q] \in {"items", "fluids", "drop"}
    BY <1>4 DEF TInv, PhasesOK
  <2>4. ASSUME NEW v \in Workers
        PROVE  /\ pc'[v] # "idle" <=> mu' = v
               /\ request'[v] \in Requests \union {NoRequest}
               /\ pc'[v] \in {"dump", "load", "open"} => request'[v] # NoRequest
    BY <1>1, <1>4, Distinct DEF TInv, PhasesOK
  <2>. QED BY <1>1, <2>1, <2>2, <2>3, <2>4 DEF TInv, PhasesOK
<1>8. IsFiniteSet(stored')
  BY <1>1, FS_AddElement DEF TInv, Finite
<1>9. CellsOK' /\ cell' = [d \in Cells |-> cell'[d]]
  BY <1>1 DEF TInv, CellsOK, Content, Finite
<1>. QED BY <1>5, <1>6, <1>7, <1>8, <1>9, CommitFacts DEF Rest, Finite

\* The dump takes some of what a cell holds.
LEMMA DumpFacts ==
  ASSUME TInv, NEW w \in Workers, Dump(w)
  PROVE  \E c \in Cells, n \in Nat :
           /\ c = Min(Dumped(w)) /\ cell[c] # Empty /\ n \in 0..cell[c].amount
           /\ cell' = [cell EXCEPT ![c] = Without(cell[c], n)]
           /\ Without(cell[c], n) \in Content(c)
           /\ at' = [at EXCEPT ![w] = c]
<1>1. PICK c : c = Min(Dumped(w))
  OBVIOUS
<1>2. Dumped(w) \subseteq Cells /\ Dumped(w) # {}
  BY DEF Dump, Dumped
<1>3. Dumped(w) \subseteq Nat
  BY <1>2, CellFacts
<1>4. c \in Dumped(w)
  BY <1>1, <1>2, <1>3, MinIn
<1>5. c \in Cells /\ cell[c] # Empty
  BY <1>4 DEF Dumped
<1>6. PICK n \in 0..cell[c].amount : cell' = [cell EXCEPT ![c] = Without(cell[c], n)]
  BY <1>1 DEF Dump
<1>7. cell[c] \in Content(c)
  BY <1>5 DEF TInv, CellsOK
<1>8. Without(cell[c], n) \in Content(c) /\ n \in Nat
  BY <1>5, <1>7, ContentFacts
<1>9. at' = [at EXCEPT ![w] = c]
  BY <1>1 DEF Dump
<1>. QED BY <1>1, <1>5, <1>6, <1>8, <1>9

\* An export puts what arrives into a cell of the request.
LEMMA ExportFacts ==
  ASSUME TInv, NEW w \in Workers, pc[w] = "load", NEW c \in DOMAIN request[w],
         NEW n \in 0..request[w][c].amount, Export(w, c, n)
  PROVE  \E x \in Content(c) : c \in Cells /\ cell' = [cell EXCEPT ![c] = x]
<1>1. request[w] \in Requests
  BY DEF TInv, PhasesOK
<1>2. /\ c \in Cells /\ request[w][c].uid \in Uids /\ request[w][c].amount \in 1..Size[c]
      /\ Size[c] \in Nat
  BY <1>1, RequestFacts, CellFacts
<1>3. cell[c] \in Content(c)
  BY <1>2 DEF TInv, CellsOK
<1>4. cell[c].amount \in 0..Size[c]
  BY <1>2, <1>3, ContentFacts
<1>5. PICK x : x = IF n = 0 THEN cell[c]
                   ELSE [uid |-> request[w][c].uid, amount |-> cell[c].amount + n]
  OBVIOUS
<1>6. cell' = [cell EXCEPT ![c] = x] /\ cell[c].amount + n <= Size[c]
  BY <1>5 DEF Export
<1>7. n # 0 => cell[c].amount + n \in 1..Size[c]
  BY <1>2, <1>4, <1>6
<1>8. x \in Content(c)
  BY <1>2, <1>3, <1>5, <1>7 DEF Content
<1>. QED BY <1>2, <1>6, <1>8

\* The next cell to load is one of the request.
LEMMA ToLoadIn ==
  ASSUME TInv, NEW w \in Workers, pc[w] = "load", ToLoad(w) # {}
  PROVE  /\ Min(ToLoad(w)) \in DOMAIN request[w] /\ Min(ToLoad(w)) \in Cells
         /\ request[w] \in Requests /\ request[w][Min(ToLoad(w))].amount \in Nat
<1>1. request[w] \in Requests
  BY DEF TInv, PhasesOK
<1>2. ToLoad(w) \subseteq DOMAIN request[w] /\ DOMAIN request[w] \subseteq Cells
  BY <1>1, RequestFacts DEF ToLoad
<1>3. ToLoad(w) \subseteq Nat
  BY <1>2, CellFacts
<1>4. Min(ToLoad(w)) \in ToLoad(w)
  BY <1>3, MinIn
<1>5. PICK c : c = Min(ToLoad(w))
  OBVIOUS
<1>6. c \in DOMAIN request[w] /\ c \in Cells
  BY <1>2, <1>4, <1>5
<1>7. request[w][c].amount \in 1..Size[c] /\ Size[c] \in Nat
  BY <1>1, <1>6, RequestFacts, CellFacts
<1>8. request[w][c].amount \in Nat
  BY <1>7
<1>. QED BY <1>1, <1>5, <1>6, <1>8

\* A worker that fills or empties a cell.
LEMMA CellRest ==
  ASSUME TInv, PhasesOK', NEW c \in Cells, NEW x \in Content(c), cell' = [cell EXCEPT ![c] = x],
         UNCHANGED <<stored, lastId, owed>>, \A p \in Procs : work'[p] \subseteq work[p]
  PROVE  Rest'
<1>1. RowsOK' /\ IdsUnique' /\ IsFiniteSet(stored')
  <2>1. \A p \in Procs : work'[p] \subseteq work[p] \union stored
    OBVIOUS
  <2>. QED BY <2>1, RowsKept
<1>2. CellsOK' /\ cell' = [d \in Cells |-> cell'[d]]
  BY CellSet DEF TInv
<1>. QED BY <1>1, <1>2 DEF Rest, Finite, TInv, OwedOK

LEMMA SetUpTypes ==
  ASSUME TInv, NEW w \in Workers, SetUp(w)
  PROVE  Rest'
<1>0. w \in Procs
  BY Distinct
<1>1. CASE Dump(w)
  <2>1. UNCHANGED <<stored, lastId, mu, pc, work, request, owed>>
    BY <1>1 DEF Dump
  <2>2. PICK c \in Cells, n \in Nat :
           /\ cell' = [cell EXCEPT ![c] = Without(cell[c], n)]
           /\ Without(cell[c], n) \in Content(c)
           /\ at' = [at EXCEPT ![w] = c]
    BY <1>1, DumpFacts
  <2>3. PhasesOK'
    BY <1>0, <2>1, <2>2, PhaseTypes
  <2>. QED BY <2>1, <2>2, <2>3, CellRest
<1>2. CASE DumpDone(w)
  <2>1. /\ UNCHANGED <<stored, lastId, cell, mu, work, request, owed>> /\ pc[w] = "dump"
        /\ pc' = [pc EXCEPT ![w] = "load"] /\ at' = [at EXCEPT ![w] = 0]
    BY <1>2 DEF DumpDone, GoTo
  <2>2. PhasesOK'
    BY <1>0, <2>1, PhaseTypes
  <2>. QED BY <2>1, <2>2, PhaseRest
<1>3. CASE Insert(w)
  <2>1. /\ UNCHANGED <<stored, lastId, cell, mu, work, request, owed>> /\ pc[w] = "load"
        /\ pc' = [pc EXCEPT ![w] = "open"] /\ at' = [at EXCEPT ![w] = 0]
    BY <1>3 DEF Insert, GoTo
  <2>2. PhasesOK'
    BY <1>0, <2>1, PhaseTypes
  <2>. QED BY <2>1, <2>2, PhaseRest
<1>4. CASE Load(w)
  <2>0. PICK c : c = Min(ToLoad(w))
    OBVIOUS
  <2>1. /\ UNCHANGED <<stored, lastId, mu, pc, work, request, owed>> /\ pc[w] = "load"
        /\ at' = [at EXCEPT ![w] = c] /\ Export(w, c, request[w][c].amount)
    BY <1>4, <2>0 DEF Load
  <2>2. c \in DOMAIN request[w] /\ c \in Cells /\ request[w][c].amount \in Nat
    BY <1>4, <2>0, ToLoadIn DEF Load
  <2>3. request[w][c].amount \in 0..request[w][c].amount
    BY <2>2
  <2>4. \E x \in Content(c) : cell' = [cell EXCEPT ![c] = x]
    BY <2>1, <2>2, <2>3, ExportFacts
  <2>5. PhasesOK'
    BY <1>0, <2>1, <2>2, PhaseTypes
  <2>. QED BY <2>1, <2>2, <2>4, <2>5, CellRest
<1>5. CASE LoadShort(w)
  <2>0. PICK c : c = Min(ToLoad(w))
    OBVIOUS
  <2>1. /\ UNCHANGED <<stored, lastId, owed>> /\ pc[w] = "load" /\ Stop(w)
        /\ \/ \E n \in 0..(request[w][c].amount - 1) : Export(w, c, n)
           \/ UNCHANGED cell
    BY <1>5, <2>0 DEF LoadShort
  <2>2. c \in DOMAIN request[w] /\ c \in Cells /\ request[w][c].amount \in Nat
    BY <1>5, <2>0, ToLoadIn DEF LoadShort
  <2>3. CASE UNCHANGED cell
    BY <1>0, <2>1, <2>3, StopRest
  <2>4. CASE \E n \in 0..(request[w][c].amount - 1) : Export(w, c, n)
    <3>1. PICK n \in 0..request[w][c].amount : Export(w, c, n)
      BY <2>2, <2>4
    <3>2. \E x \in Content(c) : cell' = [cell EXCEPT ![c] = x]
      BY <2>1, <2>2, <3>1, ExportFacts
    <3>3. PhasesOK' /\ \A p \in Procs : work'[p] \subseteq work[p]
      BY <1>0, <2>1, StopTypes
    <3>. QED BY <2>1, <2>2, <3>2, <3>3, CellRest
  <2>. QED BY <2>1, <2>3, <2>4
<1>. QED BY <1>1, <1>2, <1>3, <1>4, <1>5 DEF SetUp

LEMMA CrashTypes ==
  ASSUME TInv, Crash
  PROVE  Rest'
<1>1. /\ mu' = Nobody /\ pc' = [p \in Procs |-> "idle"] /\ work' = [p \in Procs |-> {}]
      /\ at' = [p \in Procs |-> 0] /\ request' = [w \in Workers |-> NoRequest]
      /\ UNCHANGED <<stored, lastId, cell, owed>>
  BY DEF Crash
<1>2. PhasesOK'
  BY <1>1, Distinct DEF PhasesOK, Procs
<1>3. \A p \in Procs : work'[p] \subseteq work[p] \union stored
  BY <1>1
<1>. QED BY <1>1, <1>2, <1>3, PhaseRest

LEMMA InitTypes == Init => TInv
<1>. SUFFICES ASSUME Init PROVE TInv
  OBVIOUS
<1>1. RowsOK /\ IdsUnique
  BY TransferAssumption DEF Init, RowsOK, IdsUnique
<1>2. CellsOK /\ OwedOK /\ Finite
  BY FS_EmptySet DEF Init, CellsOK, Content, OwedOK, Finite
<1>3. PhasesOK
  BY Distinct DEF Init, PhasesOK, Procs
<1>. QED BY <1>1, <1>2, <1>3, InitInv DEF TInv

\* The types are inductive with the invariant above.
LEMMA NextTypes == TInv /\ [Next]_vars => TInv'
<1>. SUFFICES ASSUME TInv, [Next]_vars PROVE TInv'
  OBVIOUS
<1>0. IInv'
  BY NextInv DEF TInv
<1>1. ASSUME NEW p \in Procs, NEW c \in Cells, NEW n \in 0..Size[c], Move(p, c, n)
      PROVE  Rest'
  BY <1>1, MoveTypes
<1>2. ASSUME NEW p \in Procs, NEW phase \in {"items", "fluids"}, Check(p, phase)
      PROVE  Rest'
  <2>1. PICK l \in {"fluids", "drop"} : pc' = [pc EXCEPT ![p] = l]
    BY <1>2 DEF Check, GoTo
  <2>2. /\ UNCHANGED <<stored, lastId, cell, owed, mu, work, request>> /\ pc[p] = phase
        /\ at' = [at EXCEPT ![p] = 0]
    BY <1>2 DEF Check, Checking, GoTo
  <2>3. PhasesOK'
    BY <2>1, <2>2, PhaseTypes
  <2>. QED BY <2>2, <2>3, PhaseRest
<1>3. ASSUME NEW p \in Procs, OwnStep(p) \/ CallFails(p) PROVE Rest'
  <2>1. CASE Drop(p)
    BY <2>1, DropTypes
  <2>2. CASE ~Drop(p)
    BY <1>3, <2>2, StopRest DEF OwnStep, CheckFails, CallFails
  <2>. QED BY <2>1, <2>2
<1>4. ASSUME NEW w \in Workers, Rollback(w) PROVE Rest'
  <2>1. w \in Procs
    BY Distinct
  <2>. QED BY <1>4, <2>1, StopRest DEF Rollback
<1>5. ASSUME NEW w \in Workers, NEW r \in Requests, Begin(w, r) PROVE Rest'
  BY <1>5, BeginTypes
<1>6. ASSUME NEW w \in Workers, SetUp(w) \/ Commit(w) PROVE Rest'
  BY <1>6, SetUpTypes, CommitTypes
<1>7. Ping \/ Crash => Rest'
  BY PingTypes, CrashTypes
<1>8. ASSUME UNCHANGED vars PROVE Rest'
  <2>1. UNCHANGED <<stored, lastId, cell, mu, pc, work, at, request, owed>>
    BY <1>8 DEF vars, procs
  <2>2. PhasesOK'
    BY <2>1 DEF TInv, PhasesOK
  <2>. QED BY <2>1, <2>2, PhaseRest
<1>9. Rest'
  <2>1. CASE Next
    BY <2>1, <1>1, <1>2, <1>3, <1>4, <1>5, <1>6, <1>7 DEF Next
  <2>. QED BY <2>1, <1>8
<1>. QED BY <1>0, <1>9 DEF TInv, Rest

\* Phases, cells and rows keep their types: no cell ever holds more than fits,
\* and goroutines have something at hand exactly while they process it.
THEOREM TypeCorrect == Spec => []TypeOK
<1>1. TInv => TypeOK
  BY TypeParts DEF TInv
<1>. QED BY InitTypes, NextTypes, <1>1, PTL DEF Spec

-----------------------------------------------------------------------------
\* What is owed.  While a stored transaction is processed by somebody, its
\* cells stay empty once they were checked: only a worker that sets up a
\* transaction fills cells, and never those of a stored one.
Cleared ==
  \A p \in Procs : pc[p] \in {"fluids", "drop"} /\ First(p) \in stored =>
    \A c \in DOMAIN First(p).moves : c \in Slots \/ pc[p] = "drop" => cell[c] = Empty

CInv == TInv /\ Cleared

\* No two stored transactions have a cell in common, nor has what a worker sets up.
LEMMA CellsApart ==
  ASSUME IInv
  PROVE  /\ \A tx, other \in stored : \A c \in DOMAIN tx.moves :
              c \in DOMAIN other.moves => tx = other
         /\ \A w \in Workers : pc[w] \in {"dump", "load", "open"} =>
              \A tx \in stored : \A c \in DOMAIN tx.moves : c \notin DOMAIN request[w]
<1>1. ASSUME NEW r, NEW s, NEW c \in DOMAIN r, c \in DOMAIN s
      PROVE  Subjects(r) \intersect Subjects(s) # {}
  <2>1. /\ (IF c \in Slots THEN 0 ELSE c) \in Subjects(r)
        /\ (IF c \in Slots THEN 0 ELSE c) \in Subjects(s)
    BY <1>1 DEF Subjects
  <2>. QED BY <2>1
<1>. QED BY <1>1 DEF IInv, SubjectsApart

\* Steps that fill no cell of a stored transaction, and after which nobody has
\* gone on to another phase, keep cleared what was.
LEMMA ClearedKept ==
  ASSUME CInv, stored' \subseteq stored,
         \A p \in Procs : pc'[p] \in {"fluids", "drop"} => pc'[p] = pc[p] /\ work'[p] = work[p],
         \A tx \in stored : \A c \in DOMAIN tx.moves : cell[c] = Empty => cell'[c] = Empty
  PROVE  Cleared'
<1>. SUFFICES ASSUME NEW p \in Procs, pc'[p] \in {"fluids", "drop"}, First(p)' \in stored',
                     NEW c \in DOMAIN First(p)'.moves, c \in Slots \/ pc'[p] = "drop"
              PROVE  cell'[c] = Empty
  BY DEF Cleared
<1>1. First(p)' = First(p) /\ pc'[p] = pc[p]
  BY DEF First
<1>2. PICK tx : tx = First(p)
  OBVIOUS
<1>3. tx \in stored /\ c \in DOMAIN tx.moves
  BY <1>1, <1>2
<1>4. cell[c] = Empty
  BY <1>1, <1>2, <1>3 DEF CInv, Cleared
<1>. QED BY <1>3, <1>4

\* A check that succeeds: what was looked at is empty.
LEMMA CheckCleared ==
  ASSUME CInv, NEW p \in Procs, NEW phase \in {"items", "fluids"}, Check(p, phase)
  PROVE  Cleared'
<1>1. /\ pc[p] = phase
      /\ Moved(p) # {} => \A c \in LeftBehind(p) : cell[c] = Empty
      /\ pc' = [pc EXCEPT ![p] = IF phase = "items" THEN "fluids" ELSE "drop"]
      /\ UNCHANGED <<stored, cell, work>>
  BY DEF Check, Checking, GoTo
<1>. SUFFICES ASSUME NEW q \in Procs, pc'[q] \in {"fluids", "drop"}, First(q)' \in stored',
                     NEW c \in DOMAIN First(q)'.moves, c \in Slots \/ pc'[q] = "drop"
              PROVE  cell'[c] = Empty
  BY DEF Cleared
<1>2. First(q)' = First(q)
  BY <1>1 DEF First
<1>3. PICK tx : tx = First(q)
  OBVIOUS
<1>4. tx \in stored /\ c \in DOMAIN tx.moves /\ c \in Cells
  BY <1>1, <1>2, <1>3, RequestFacts DEF CInv, TInv, RowsOK
<1>5. \A r \in Procs : pc'[r] = IF r = p THEN IF phase = "items" THEN "fluids" ELSE "drop"
                                ELSE pc[r]
  BY <1>1 DEF CInv, TInv, PhasesOK
<1>6. CASE q # p
  BY <1>1, <1>2, <1>3, <1>4, <1>5, <1>6 DEF CInv, Cleared
<1>7. CASE q = p /\ phase = "items"
  <2>1. c \in Slots
    BY <1>5, <1>7
  <2>2. c \in Moved(p)
    BY <1>1, <1>3, <1>4, <1>7, <2>1 DEF Moved, CellsOf
  <2>3. c \in LeftBehind(p)
    BY <1>1, <1>7, <2>1 DEF LeftBehind
  <2>. QED BY <1>1, <2>2, <2>3
<1>8. CASE q = p /\ phase = "fluids"
  <2>1. CASE c \in Slots
    BY <1>1, <1>3, <1>4, <1>8, <2>1 DEF CInv, Cleared
  <2>2. CASE c \notin Slots
    <3>1. c \in Tanks
      BY <1>4, <2>2 DEF Cells
    <3>2. c \in Moved(p)
      BY <1>1, <1>3, <1>4, <1>8, <3>1 DEF Moved, CellsOf
    <3>3. c \in LeftBehind(p)
      BY <1>1, <1>8, <3>2 DEF LeftBehind
    <3>. QED BY <1>1, <3>2, <3>3
  <2>. QED BY <2>1, <2>2
<1>. QED BY <1>6, <1>7, <1>8

\* A cell is emptied, or left as it is if nothing is taken.
LEMMA EmptyStays ==
  ASSUME TInv, NEW c \in Cells, NEW n \in 0..cell[c].amount,
         cell' = [cell EXCEPT ![c] = Without(cell[c], n)]
  PROVE  \A d \in Cells : cell[d] = Empty => cell'[d] = Empty
<1>1. cell[c] \in Content(c)
  BY DEF TInv, CellsOK
<1>2. cell[c] = Empty => n = 0
  BY <1>1, ContentFacts
<1>3. n = 0 => Without(cell[c], n) = cell[c]
  BY <1>1, ContentFacts
<1>4. \A d \in Cells : cell'[d] = IF d = c THEN Without(cell[c], n) ELSE cell[d]
  BY DEF TInv, Finite
<1>. QED BY <1>2, <1>3, <1>4

LEMMA StoredCells ==
  ASSUME TInv
  PROVE  \A tx \in stored : /\ tx.moves \in Requests /\ DOMAIN tx.moves \subseteq Cells
                            /\ IsFiniteSet(DOMAIN tx.moves)
BY RequestFacts DEF TInv, RowsOK

\* Cleared holds on.
LEMMA InitCleared == Init => CInv
<1>1. Init => Cleared
  BY DEF Init, Cleared
<1>. QED BY <1>1, InitTypes DEF CInv

LEMMA NextCleared == CInv /\ [Next]_vars => CInv'
<1>. SUFFICES ASSUME CInv, [Next]_vars PROVE Cleared'
  BY NextTypes DEF CInv
<1>0. \A tx \in stored : \A c \in DOMAIN tx.moves : c \in Cells
  BY StoredCells DEF CInv
<1>1. ASSUME NEW p \in Procs, NEW c \in Cells, NEW n \in 0..Size[c], Move(p, c, n)
      PROVE  Cleared'
  <2>1. UNCHANGED <<stored, pc, work>>
    BY <1>1 DEF Move
  <2>2. n \in 0..cell[c].amount /\ cell' = [cell EXCEPT ![c] = Without(cell[c], n)]
    <3>1. TInv
      BY DEF CInv
    <3>2. n \in 0..cell[c].amount
      BY <1>1, <3>1, MoveFacts
    <3>3. cell' = [cell EXCEPT ![c] = Without(cell[c], n)]
      BY <1>1 DEF Move
    <3>. QED BY <3>2, <3>3
  <2>3. \A d \in Cells : cell[d] = Empty => cell'[d] = Empty
    BY <2>2, EmptyStays DEF CInv
  <2>. QED BY <1>0, <2>1, <2>3, ClearedKept
<1>2. ASSUME NEW p \in Procs, NEW phase \in {"items", "fluids"}, Check(p, phase)
      PROVE  Cleared'
  BY <1>2, CheckCleared
<1>3. ASSUME NEW p \in Procs, Stop(p), stored' \subseteq stored, UNCHANGED cell
      PROVE  Cleared'
  BY <1>3, StopTypes, ClearedKept DEF CInv
<1>4. ASSUME NEW p \in Procs, OwnStep(p) \/ CallFails(p) PROVE Cleared'
  <2>1. CASE Drop(p)
    <3>1. UNCHANGED cell /\ stored' \subseteq stored
      BY <2>1 DEF Drop
    <3>2. CASE Stop(p)
      BY <1>3, <3>1, <3>2
    <3>3. CASE ~Stop(p)
      <4>0. PICK l : l = IF work[p] = {First(p)} THEN "dump" ELSE "items"
        OBVIOUS
      <4>1. /\ work' = [work EXCEPT ![p] = work[p] \ {First(p)}] /\ pc' = [pc EXCEPT ![p] = l]
            /\ l \notin {"fluids", "drop"}
        BY <2>1, <3>3, <4>0 DEF Drop, GoTo
      <4>2. \A q \in Procs : pc'[q] \in {"fluids", "drop"} => pc'[q] = pc[q] /\ work'[q] = work[q]
        BY <4>1 DEF CInv, TInv, PhasesOK, IInv, Shapes
      <4>. QED BY <3>1, <4>2, ClearedKept
    <3>. QED BY <3>2, <3>3
  <2>2. CASE ~Drop(p)
    BY <1>3, <1>4, <2>2 DEF OwnStep, CheckFails, CallFails
  <2>. QED BY <2>1, <2>2
<1>5. ASSUME NEW w \in Workers, NEW r \in Requests, Begin(w, r) PROVE Cleared'
  <2>0. PICK l, locks : /\ pc' = [pc EXCEPT ![w] = l] /\ work' = [work EXCEPT ![w] = locks]
                        /\ l \in {"dump", "items"}
    BY <1>5 DEF Begin, GoTo
  <2>1. UNCHANGED <<stored, cell>>
    BY <1>5 DEF Begin
  <2>2. \A q \in Procs : pc'[q] \in {"fluids", "drop"} => pc'[q] = pc[q] /\ work'[q] = work[q]
    BY <2>0 DEF CInv, TInv, PhasesOK, IInv, Shapes
  <2>. QED BY <2>1, <2>2, ClearedKept
<1>6. CASE Ping
  <2>1. /\ UNCHANGED <<stored, cell>> /\ pc' = [pc EXCEPT ![Pinger] = "items"]
        /\ work' = [work EXCEPT ![Pinger] = stored]
    BY <1>6 DEF Ping, GoTo
  <2>2. \A q \in Procs : pc'[q] \in {"fluids", "drop"} => pc'[q] = pc[q] /\ work'[q] = work[q]
    BY <2>1 DEF CInv, TInv, PhasesOK, IInv, Shapes
  <2>. QED BY <2>1, <2>2, ClearedKept
<1>7. ASSUME NEW w \in Workers, SetUp(w) PROVE Cleared'
  <2>1. \A tx \in stored : \A c \in DOMAIN tx.moves : cell[c] = Empty => cell'[c] = Empty
    <3>1. CASE Dump(w)
      <4>1. PICK c \in Cells, n \in Nat : /\ n \in 0..cell[c].amount
                                          /\ cell' = [cell EXCEPT ![c] = Without(cell[c], n)]
        BY <3>1, DumpFacts DEF CInv
      <4>2. \A d \in Cells : cell[d] = Empty => cell'[d] = Empty
        BY <4>1, EmptyStays DEF CInv
      <4>. QED BY <1>0, <4>2
    <3>2. CASE Load(w) \/ LoadShort(w)
      <4>0. PICK c : c = Min(ToLoad(w))
        OBVIOUS
      <4>1. c \in DOMAIN request[w] /\ pc[w] = "load"
        BY <3>2, <4>0, ToLoadIn DEF CInv, Load, LoadShort
      <4>2. \E x : cell' = [cell EXCEPT ![c] = x]
        <5>1. CASE UNCHANGED cell
          <6>1. cell' = [cell EXCEPT ![c] = cell[c]]
            BY <5>1 DEF CInv, TInv, Finite
          <6>. QED BY <6>1
        <5>2. CASE \E n : Export(w, c, n)
          BY <5>2 DEF Export
        <5>. QED BY <3>2, <4>0, <5>1, <5>2 DEF Load, LoadShort
      <4>3. \A d \in Cells : d # c => cell'[d] = cell[d]
        BY <4>2 DEF CInv, TInv, Finite
      <4>4. \A tx \in stored : c \notin DOMAIN tx.moves
        BY <4>1, CellsApart DEF CInv, TInv
      <4>. QED BY <1>0, <4>3, <4>4
    <3>3. CASE DumpDone(w) \/ Insert(w)
      BY <3>3 DEF DumpDone, Insert
    <3>. QED BY <1>7, <3>1, <3>2, <3>3 DEF SetUp
  <2>2. stored' = stored
    BY <1>7 DEF SetUp, Dump, DumpDone, Load, LoadShort, Insert
  <2>3. \A q \in Procs : pc'[q] \in {"fluids", "drop"} => pc'[q] = pc[q] /\ work'[q] = work[q]
    <3>1. CASE Dump(w) \/ Load(w)
      BY <3>1 DEF Dump, Load
    <3>2. CASE LoadShort(w)
      <4>1. Stop(w) /\ w \in Procs
        BY <3>2, Distinct DEF LoadShort
      <4>. QED BY <4>1, StopTypes DEF CInv
    <3>3. CASE DumpDone(w) \/ Insert(w)
      <4>1. PICK l \in {"load", "open"} : pc' = [pc EXCEPT ![w] = l] /\ UNCHANGED work
        BY <3>3 DEF DumpDone, Insert, GoTo
      <4>. QED BY <4>1 DEF CInv, TInv, PhasesOK
    <3>. QED BY <1>7, <3>1, <3>2, <3>3 DEF SetUp
  <2>. QED BY <2>1, <2>2, <2>3, ClearedKept
<1>8. ASSUME NEW w \in Workers, Commit(w) PROVE Cleared'
  <2>0. PICK tx : tx = [id |-> lastId + 1, moves |-> request[w]]
    OBVIOUS
  <2>1. /\ stored' = stored \union {tx} /\ work' = [work EXCEPT ![w] = {tx}]
        /\ pc' = [pc EXCEPT ![w] = "items"] /\ UNCHANGED cell /\ tx.id = lastId + 1
    BY <1>8, <2>0 DEF Commit, GoTo
  <2>2. \A q \in Procs : pc'[q] \in {"fluids", "drop"} => pc'[q] = pc[q] /\ work'[q] = work[q]
    BY <2>1 DEF CInv, TInv, PhasesOK, IInv, Shapes
  <2>. SUFFICES ASSUME NEW q \in Procs, pc'[q] \in {"fluids", "drop"}, First(q)' \in stored',
                       NEW c \in DOMAIN First(q)'.moves, c \in Slots \/ pc'[q] = "drop"
                PROVE  cell'[c] = Empty
    BY DEF Cleared
  <2>3. First(q)' = First(q) /\ pc'[q] = pc[q]
    BY <2>2 DEF First
  <2>4. First(q) \in work[q] /\ First(q).id \in 1..lastId
    BY <2>3, FirstAtHand DEF CInv, TInv, PhasesOK
  <2>5. First(q).id # tx.id
    BY <2>1, <2>4 DEF CInv, TInv, RowsOK
  <2>6. First(q) \in stored
    BY <2>1, <2>3, <2>5
  <2>. QED BY <2>1, <2>3, <2>6 DEF CInv, Cleared
<1>9. ASSUME NEW w \in Workers, Rollback(w) PROVE Cleared'
  BY <1>3, <1>9, Distinct DEF Rollback
<1>10. CASE Crash
  BY <1>10 DEF Crash, Cleared
<1>11. CASE UNCHANGED vars
  <2>1. UNCHANGED <<stored, cell, pc, work>>
    BY <1>11 DEF vars, procs
  <2>. QED BY <2>1, ClearedKept
<1>12. CASE Next
  BY <1>1, <1>2, <1>4, <1>5, <1>6, <1>7, <1>8, <1>9, <1>10, <1>12 DEF Next
<1>. QED BY <1>11, <1>12

\* What cells with some content hold for a target, of the cells of a request.
Holds(content, r, t, u) ==
  SumOver([c \in Cells |-> content[c].amount],
    {c \in DOMAIN r : r[c].target = t /\ content[c].uid = u})

LEMMA HoldsFacts ==
  ASSUME NEW r \in Requests, NEW x, \A c \in Cells : x[c] \in Content(c), NEW t, NEW u
  PROVE  /\ Holds(x, r, t, u) \in Int
         /\ \A y : (\A c \in DOMAIN r : y[c] = x[c]) => Holds(y, r, t, u) = Holds(x, r, t, u)
         /\ u \in Uids /\ (\A c \in DOMAIN r : x[c] = Empty) => Holds(x, r, t, u) = 0
<1>0. DOMAIN r \subseteq Cells /\ IsFiniteSet(DOMAIN r)
  BY RequestFacts
<1>1. PICK S, f : /\ S = {c \in DOMAIN r : r[c].target = t /\ x[c].uid = u}
                  /\ f = [c \in Cells |-> x[c].amount]
  OBVIOUS
<1>2. S \in SUBSET DOMAIN r /\ S \subseteq Cells
  BY <1>0, <1>1
<1>3. IsFiniteSet(S)
  BY <1>0, <1>2, FS_Subset
<1>4. \A c \in S : f[c] \in Int
  <2>1. ASSUME NEW c \in S PROVE x[c].amount \in 0..Size[c]
    BY <1>2, ContentFacts
  <2>. QED BY <1>1, <1>2, <2>1
<1>5. Holds(x, r, t, u) = SumOver(f, S)
  BY <1>1 DEF Holds
<1>6. Holds(x, r, t, u) \in Int
  BY <1>3, <1>4, <1>5, SumOverIsInt
<1>7. ASSUME NEW y, \A c \in DOMAIN r : y[c] = x[c]
      PROVE  Holds(y, r, t, u) = Holds(x, r, t, u)
  <2>1. PICK h : h = [c \in Cells |-> y[c].amount]
    OBVIOUS
  <2>2. S = {c \in DOMAIN r : r[c].target = t /\ y[c].uid = u}
    BY <1>1, <1>7
  <2>3. \A c \in S : h[c] = f[c]
    BY <1>1, <1>2, <1>7, <2>1
  <2>4. SumOver(h, S) = SumOver(f, S)
    BY <1>3, <1>4, <2>3, SumOverSame
  <2>5. Holds(y, r, t, u) = SumOver(h, S)
    BY <2>1, <2>2 DEF Holds
  <2>. QED BY <1>5, <2>4, <2>5
<1>8. ASSUME u \in Uids, \A c \in DOMAIN r : x[c] = Empty
      PROVE  Holds(x, r, t, u) = 0
  <2>1. NoUid \notin Uids
    BY TransferAssumption
  <2>2. S = {}
    BY <1>1, <1>8, <2>1 DEF Empty
  <2>. QED BY <1>5, <2>2, SumOverEmpty
<1>. QED BY <1>6, <1>7, <1>8

\* A move of n from one of the cells.
LEMMA HoldsMoved ==
  ASSUME NEW r \in Requests, NEW x, \A c \in Cells : x[c] \in Content(c),
         NEW k \in DOMAIN r, NEW n \in 1..x[k].amount,
         NEW y, \A c \in Cells : y[c] = IF c = k THEN Without(x[k], n) ELSE x[c],
         NEW t, NEW u \in Uids
  PROVE  Holds(y, r, t, u) =
           Holds(x, r, t, u) - (IF r[k].target = t /\ x[k].uid = u THEN n ELSE 0)
<1>0. DOMAIN r \subseteq Cells /\ IsFiniteSet(DOMAIN r) /\ k \in Cells /\ Size[k] \in Nat
  BY RequestFacts, CellFacts
<1>1. PICK S, f : /\ S = {c \in DOMAIN r : r[c].target = t /\ x[c].uid = u}
                  /\ f = [c \in Cells |-> x[c].amount]
  OBVIOUS
<1>2. PICK T, h : /\ T = {c \in DOMAIN r : r[c].target = t /\ y[c].uid = u}
                  /\ h = [c \in Cells |-> y[c].amount]
  OBVIOUS
<1>3. S \in SUBSET DOMAIN r /\ S \subseteq Cells
  BY <1>0, <1>1
<1>4. IsFiniteSet(S)
  BY <1>0, <1>3, FS_Subset
<1>5. \A c \in Cells : f[c] \in Int
  <2>1. ASSUME NEW c \in Cells PROVE x[c].amount \in 0..Size[c]
    BY ContentFacts
  <2>. QED BY <1>1, <2>1
<1>6. /\ Without(x[k], n).amount = x[k].amount - n
      /\ n # x[k].amount => Without(x[k], n).uid = x[k].uid
      /\ Without(x[k], n) \in Content(k) /\ x[k].amount \in 0..Size[k]
  BY <1>0, ContentFacts
<1>7. n = x[k].amount => Without(x[k], n) = Empty
  BY DEF Without
<1>8. Holds(x, r, t, u) = SumOver(f, S) /\ Holds(y, r, t, u) = SumOver(h, T)
  BY <1>1, <1>2 DEF Holds
<1>9. NoUid \notin Uids
  BY TransferAssumption
<1>10. y[k] = Without(x[k], n) /\ \A c \in Cells : c # k => y[c] = x[c] /\ h[c] = f[c]
  BY <1>0, <1>1, <1>2
<1>11. h[k] = x[k].amount - n /\ f[k] = x[k].amount /\ h[k] \in Int
  BY <1>0, <1>1, <1>2, <1>6, <1>10
<1>12. CASE k \notin S
  <2>1. k \notin T
    <3>1. CASE n = x[k].amount
      BY <1>2, <1>7, <1>9, <1>10, <3>1 DEF Empty
    <3>2. CASE n # x[k].amount
      BY <1>1, <1>2, <1>6, <1>10, <1>12, <3>2
    <3>. QED BY <3>1, <3>2
  <2>2. T = S
    BY <1>0, <1>1, <1>2, <1>10, <1>12, <2>1
  <2>3. \A c \in S : h[c] = f[c] /\ f[c] \in Int
    BY <1>3, <1>5, <1>10, <1>12
  <2>4. SumOver(h, S) = SumOver(f, S)
    BY <1>4, <2>3, SumOverSame
  <2>5. SumOver(f, S) \in Int
    BY <1>4, <2>3, SumOverIsInt
  <2>. QED BY <1>1, <1>8, <1>12, <2>2, <2>4, <2>5
<1>13. CASE k \in S
  <2>0. \A c \in S : f[c] \in Int
    BY <1>3, <1>5
  <2>1. SumOver(f, S) = f[k] + SumOver(f, S \ {k}) /\ SumOver(f, S \ {k}) \in Int
    BY <1>4, <1>13, <2>0, SumOverTake
  <2>2. CASE n = x[k].amount
    <3>1. k \notin T
      BY <1>2, <1>7, <1>9, <1>10, <2>2 DEF Empty
    <3>2. T = S \ {k}
      BY <1>0, <1>1, <1>2, <1>10, <3>1
    <3>3. \A c \in S \ {k} : h[c] = f[c] /\ f[c] \in Int
      BY <1>3, <1>5, <1>10
    <3>4. IsFiniteSet(S \ {k})
      BY <1>4, FS_RemoveElement
    <3>5. SumOver(h, S \ {k}) = SumOver(f, S \ {k})
      BY <3>3, <3>4, SumOverSame
    <3>. QED BY <1>1, <1>8, <1>11, <1>13, <2>1, <2>2, <3>2, <3>5
  <2>3. CASE n # x[k].amount
    <3>1. k \in T
      BY <1>1, <1>2, <1>6, <1>10, <1>13, <2>3
    <3>2. T = S
      BY <1>0, <1>1, <1>2, <1>10, <1>13, <3>1
    <3>3. \A c \in S : h[c] \in Int
      BY <1>3, <1>5, <1>10, <1>11
    <3>4. \A c \in S \ {k} : h[c] = f[c]
      BY <1>3, <1>10
    <3>5. SumOver(h, S) = SumOver(f, S) + (h[k] - f[k])
      BY <1>4, <1>13, <2>0, <3>3, <3>4, SumOverUpdate
    <3>6. SumOver(f, S) \in Int /\ x[k].amount \in Int /\ n \in Int
      BY <1>4, <2>0, <1>6, SumOverIsInt
    <3>7. SumOver(h, S) = SumOver(f, S) - n
      BY <1>11, <3>5, <3>6
    <3>. QED BY <1>1, <1>8, <1>13, <3>2, <3>7
  <2>. QED BY <2>2, <2>3
<1>. QED BY <1>12, <1>13

\* What the cells of some rows hold together.
Total(rows, content, t, u) ==
  SumOver([tx \in rows |-> Holds(content, tx.moves, t, u)], rows)

LEMMA PendingIs ==
  ASSUME NEW t, NEW u
  PROVE  Pending(t, u) = Total(stored, cell, t, u) /\ Pending(t, u)' = Total(stored', cell', t, u)
BY DEF Pending, InCells, Total, Holds

LEMMA TotalSame ==
  ASSUME NEW rows, IsFiniteSet(rows), \A tx \in rows : tx.moves \in Requests,
         NEW x, \A c \in Cells : x[c] \in Content(c),
         NEW y, \A tx \in rows : \A c \in DOMAIN tx.moves : y[c] = x[c], NEW t, NEW u
  PROVE  Total(rows, x, t, u) \in Int /\ Total(rows, y, t, u) = Total(rows, x, t, u)
<1>1. PICK f : f = [tx \in rows |-> Holds(x, tx.moves, t, u)]
  OBVIOUS
<1>2. PICK h : h = [tx \in rows |-> Holds(y, tx.moves, t, u)]
  OBVIOUS
<1>3. ASSUME NEW tx \in rows PROVE f[tx] \in Int /\ h[tx] = f[tx]
  <2>1. PICK r \in Requests : r = tx.moves
    OBVIOUS
  <2>2. \A c \in DOMAIN r : y[c] = x[c]
    BY <2>1
  <2>3. Holds(x, r, t, u) \in Int /\ Holds(y, r, t, u) = Holds(x, r, t, u)
    BY <2>2, HoldsFacts
  <2>. QED BY <1>1, <1>2, <2>1, <2>3
<1>4. SumOver(f, rows) \in Int
  BY <1>3, SumOverIsInt
<1>5. SumOver(h, rows) = SumOver(f, rows)
  BY <1>3, SumOverSame
<1>. QED BY <1>1, <1>2, <1>4, <1>5 DEF Total

\* The rows with one more.
LEMMA TotalWith ==
  ASSUME NEW rows, IsFiniteSet(rows), \A tx \in rows : tx.moves \in Requests,
         NEW x, \A c \in Cells : x[c] \in Content(c), NEW k \in rows, NEW t, NEW u
  PROVE  Total(rows, x, t, u) = Holds(x, k.moves, t, u) + Total(rows \ {k}, x, t, u)
<1>1. PICK f : f = [tx \in rows |-> Holds(x, tx.moves, t, u)]
  OBVIOUS
<1>2. PICK h : h = [tx \in rows \ {k} |-> Holds(x, tx.moves, t, u)]
  OBVIOUS
<1>3. ASSUME NEW tx \in rows PROVE f[tx] \in Int /\ f[tx] = Holds(x, tx.moves, t, u)
  <2>1. PICK r \in Requests : r = tx.moves
    OBVIOUS
  <2>2. Holds(x, r, t, u) \in Int
    BY HoldsFacts
  <2>. QED BY <1>1, <2>1, <2>2
<1>4. SumOver(f, rows) = f[k] + SumOver(f, rows \ {k})
  BY <1>3, SumOverTake
<1>5. IsFiniteSet(rows \ {k})
  BY FS_RemoveElement
<1>6. \A tx \in rows \ {k} : f[tx] \in Int /\ h[tx] = f[tx]
  BY <1>2, <1>3
<1>7. SumOver(h, rows \ {k}) = SumOver(f, rows \ {k})
  BY <1>5, <1>6, SumOverSame
<1>. QED BY <1>1, <1>2, <1>3, <1>4, <1>7 DEF Total

\* A move from a cell of one of the rows, which no other row has.
LEMMA TotalMoved ==
  ASSUME NEW rows, IsFiniteSet(rows), \A tx \in rows : tx.moves \in Requests,
         NEW x, \A c \in Cells : x[c] \in Content(c),
         NEW first \in rows, NEW k \in DOMAIN first.moves,
         \A tx \in rows : k \in DOMAIN tx.moves => tx = first,
         NEW n \in 1..x[k].amount,
         NEW y, \A c \in Cells : y[c] = IF c = k THEN Without(x[k], n) ELSE x[c],
         NEW t, NEW u \in Uids
  PROVE  Total(rows, y, t, u) =
           Total(rows, x, t, u) - (IF first.moves[k].target = t /\ x[k].uid = u THEN n ELSE 0)
<1>1. PICK f : f = [tx \in rows |-> Holds(x, tx.moves, t, u)]
  OBVIOUS
<1>2. PICK h : h = [tx \in rows |-> Holds(y, tx.moves, t, u)]
  OBVIOUS
<1>3. PICK m : m = IF first.moves[k].target = t /\ x[k].uid = u THEN n ELSE 0
  OBVIOUS
<1>4. k \in Cells /\ m \in Int
  <2>1. k \in Cells
    BY RequestFacts
  <2>2. x[k].amount \in 0..Size[k]
    BY <2>1, ContentFacts
  <2>. QED BY <1>3, <2>1, <2>2
<1>5. \A tx \in rows : f[tx] \in Int
  <2>1. ASSUME NEW tx \in rows PROVE f[tx] \in Int
    <3>1. PICK r \in Requests : r = tx.moves
      OBVIOUS
    <3>2. Holds(x, r, t, u) \in Int
      BY HoldsFacts
    <3>. QED BY <1>1, <3>1, <3>2
  <2>. QED BY <2>1
<1>6. h[first] = f[first] - m
  <2>1. PICK r \in Requests : r = first.moves
    OBVIOUS
  <2>2. k \in DOMAIN r
    BY <2>1
  <2>3. Holds(y, r, t, u) =
          Holds(x, r, t, u) - (IF r[k].target = t /\ x[k].uid = u THEN n ELSE 0)
    BY <2>2, HoldsMoved
  <2>. QED BY <1>1, <1>2, <1>3, <2>1, <2>3
<1>7. \A tx \in rows \ {first} : h[tx] = f[tx]
  <2>1. ASSUME NEW tx \in rows \ {first} PROVE h[tx] = f[tx]
    <3>1. PICK r \in Requests : r = tx.moves
      OBVIOUS
    <3>2. k \notin DOMAIN r /\ DOMAIN r \subseteq Cells
      BY <3>1, RequestFacts
    <3>3. \A c \in DOMAIN r : y[c] = x[c]
      BY <3>2
    <3>4. Holds(y, r, t, u) = Holds(x, r, t, u)
      BY <3>3, HoldsFacts
    <3>. QED BY <1>1, <1>2, <3>1, <3>4
  <2>. QED BY <2>1
<1>8. \A tx \in rows : h[tx] \in Int
  BY <1>4, <1>5, <1>6, <1>7
<1>9. SumOver(h, rows) = SumOver(f, rows) + (h[first] - f[first])
  BY <1>5, <1>7, <1>8, SumOverUpdate
<1>10. SumOver(f, rows) \in Int
  BY <1>5, SumOverIsInt
<1>11. SumOver(h, rows) = SumOver(f, rows) - m
  BY <1>4, <1>5, <1>6, <1>9, <1>10
<1>. QED BY <1>1, <1>2, <1>3, <1>11 DEF Total

\* What a step may not change.
Kept == \A t \in Targets, u \in Uids : (owed[t][u] - Pending(t, u))' = owed[t][u] - Pending(t, u)

\* The facts about rows and cells that the lemmas above need.
LEMMA SumTypes ==
  ASSUME TInv
  PROVE  /\ IsFiniteSet(stored) /\ \A tx \in stored : tx.moves \in Requests
         /\ \A c \in Cells : cell[c] \in Content(c)
         /\ \A t \in Targets, u \in Uids : owed[t][u] \in Int
BY DEF TInv, Finite, RowsOK, CellsOK, OwedOK

\* Steps that touch no cell of a stored transaction.
LEMMA OthersKeep ==
  ASSUME TInv, UNCHANGED <<owed, stored>>,
         \A tx \in stored : \A c \in DOMAIN tx.moves : cell'[c] = cell[c]
  PROVE  Kept
<1>. SUFFICES ASSUME NEW t \in Targets, NEW u \in Uids
              PROVE  (owed[t][u] - Pending(t, u))' = owed[t][u] - Pending(t, u)
  BY DEF Kept
<1>1. PICK y : y = cell'
  OBVIOUS
<1>2. Total(stored, y, t, u) = Total(stored, cell, t, u)
  BY <1>1, SumTypes, TotalSame
<1>3. Pending(t, u)' = Pending(t, u)
  BY <1>1, <1>2, PendingIs
<1>. QED BY <1>3

\* A transfer for a stored transaction: what leaves its cell is delivered.
LEMMA MoveKeeps ==
  ASSUME TInv, NEW p \in Procs, NEW c \in Cells, NEW n \in 0..Size[c], Move(p, c, n),
         n # 0 => First(p) \in stored
  PROVE  Kept
<1>0. UNCHANGED stored
  BY DEF Move
<1>1. CASE n = 0
  <2>1. owed' = owed /\ cell' = cell
    BY <1>1, MoveFacts
  <2>. QED BY <1>0, <2>1, OthersKeep
<1>2. CASE n # 0
  <2>0. PICK first, y : first = First(p) /\ y = cell'
    OBVIOUS
  <2>1. PICK s, v : s = first.moves[c].target /\ v = cell[c].uid
    OBVIOUS
  <2>2. /\ first \in stored /\ c \in DOMAIN first.moves /\ n \in 0..cell[c].amount
        /\ s \in Targets /\ v \in Uids
    BY <1>2, <2>0, <2>1, MoveFacts
  <2>3. owed' = [owed EXCEPT ![s][v] = @ - n]
    BY <1>2, <2>0, <2>1, MoveFacts
  <2>4. n \in 1..cell[c].amount
    BY <1>2, <2>2
  <2>5. \A d \in Cells : y[d] = IF d = c THEN Without(cell[c], n) ELSE cell[d]
    <3>1. cell' = [cell EXCEPT ![c] = Without(cell[c], n)]
      BY DEF Move
    <3>. QED BY <2>0, <3>1 DEF TInv, Finite
  <2>6. \A tx \in stored : c \in DOMAIN tx.moves => tx = first
    BY <2>2, CellsApart DEF TInv
  <2>. SUFFICES ASSUME NEW t \in Targets, NEW u \in Uids
                PROVE  (owed[t][u] - Pending(t, u))' = owed[t][u] - Pending(t, u)
    BY DEF Kept
  <2>7. PICK m : m = IF s = t /\ v = u THEN n ELSE 0
    OBVIOUS
  <2>8. Total(stored, y, t, u) =
          Total(stored, cell, t, u) - (IF first.moves[c].target = t /\ cell[c].uid = u THEN n ELSE 0)
    BY <2>2, <2>4, <2>5, <2>6, SumTypes, TotalMoved
  <2>9. Pending(t, u)' = Pending(t, u) - m
    BY <1>0, <2>0, <2>1, <2>7, <2>8, PendingIs
  <2>10. n \in Int
    OBVIOUS
  <2>11. owed'[t][u] = owed[t][u] - m
    <3>1. \A a \in Targets, b \in Uids :
            owed'[a][b] = IF a = s /\ b = v THEN owed[s][v] - n ELSE owed[a][b]
      <4>1. OwedOK
        BY DEF TInv
      <4>. QED BY <2>2, <2>3, <4>1 DEF OwedOK
    <3>2. owed[t][u] \in Int
      BY SumTypes
    <3>. QED BY <2>7, <3>1, <3>2
  <2>12. Pending(t, u) \in Int
    <3>1. Total(stored, cell, t, u) \in Int
      BY SumTypes, TotalSame
    <3>. QED BY <3>1, PendingIs
  <2>13. owed[t][u] \in Int /\ m \in Int
    BY <2>7, <2>10, SumTypes
  <2>. QED BY <2>9, <2>11, <2>12, <2>13
<1>. QED BY <1>1, <1>2

\* A transaction is dropped when all of it was delivered.
LEMMA DropKeeps ==
  ASSUME CInv, NEW p \in Procs, Drop(p)
  PROVE  Kept
<1>0. TInv /\ pc[p] = "drop"
  BY DEF CInv, Drop
<1>1. PICK first : first = First(p)
  OBVIOUS
<1>2. stored' = stored \ {first} /\ UNCHANGED <<cell, owed>>
  BY <1>0, <1>1, DropFacts
<1>3. CASE first \notin stored
  <2>1. stored' = stored
    BY <1>2, <1>3
  <2>. QED BY <1>0, <1>2, <2>1, OthersKeep
<1>4. CASE first \in stored
  <2>1. \A c \in DOMAIN first.moves : cell[c] = Empty
    BY <1>0, <1>1, <1>4 DEF CInv, Cleared
  <2>. SUFFICES ASSUME NEW t \in Targets, NEW u \in Uids
                PROVE  (owed[t][u] - Pending(t, u))' = owed[t][u] - Pending(t, u)
    BY DEF Kept
  <2>2. Holds(cell, first.moves, t, u) = 0
    <3>1. first.moves \in Requests /\ \A c \in Cells : cell[c] \in Content(c)
      BY <1>0, <1>4, SumTypes
    <3>. QED BY <2>1, <3>1, HoldsFacts
  <2>3. Total(stored, cell, t, u) =
          Holds(cell, first.moves, t, u) + Total(stored \ {first}, cell, t, u)
    BY <1>0, <1>4, SumTypes, TotalWith
  <2>4. Total(stored \ {first}, cell, t, u) \in Int
    <3>1. IsFiniteSet(stored \ {first}) /\ \A tx \in stored \ {first} : tx.moves \in Requests
      BY <1>0, SumTypes, FS_RemoveElement
    <3>. QED BY <1>0, <3>1, SumTypes, TotalSame
  <2>5. Pending(t, u)' = Pending(t, u)
    BY <1>2, <2>2, <2>3, <2>4, PendingIs
  <2>. QED BY <1>2, <2>5
<1>. QED BY <1>3, <1>4

\* What is commited is in the cells.
LEMMA CommitKeeps ==
  ASSUME TInv, NEW w \in Workers, Commit(w),
         \A c \in DOMAIN request[w] :
           cell[c] = [uid |-> request[w][c].uid, amount |-> request[w][c].amount]
  PROVE  Kept
<1>0. PICK tx, r : r = request[w] /\ tx = [id |-> lastId + 1, moves |-> r]
  OBVIOUS
<1>1. stored' = stored \union {tx} /\ UNCHANGED cell
  BY <1>0 DEF Commit
<1>2. /\ r \in Requests /\ tx.moves = r /\ tx \notin stored
      /\ \A t \in Targets, u \in Uids : owed'[t][u] = owed[t][u] + Added(r, t, u)
  BY <1>0, CommitFacts
<1>. SUFFICES ASSUME NEW t \in Targets, NEW u \in Uids
              PROVE  (owed[t][u] - Pending(t, u))' = owed[t][u] - Pending(t, u)
  BY DEF Kept
<1>3. Holds(cell, r, t, u) = Added(r, t, u)
  <2>1. DOMAIN r \subseteq Cells /\ IsFiniteSet(DOMAIN r)
    BY <1>2, RequestFacts
  <2>2. PICK S, f, h : /\ S = {c \in DOMAIN r : r[c].target = t /\ r[c].uid = u}
                       /\ f = [c \in DOMAIN r |-> r[c].amount]
                       /\ h = [c \in Cells |-> cell[c].amount]
    OBVIOUS
  <2>0. \A c \in DOMAIN r : cell[c].uid = r[c].uid /\ cell[c].amount = r[c].amount
    <3>1. ASSUME NEW c \in DOMAIN r
          PROVE  cell[c].uid = r[c].uid /\ cell[c].amount = r[c].amount
      <4>1. PICK a, b : a = r[c].uid /\ b = r[c].amount
        OBVIOUS
      <4>2. cell[c] = [uid |-> a, amount |-> b]
        BY <1>0, <4>1
      <4>. QED BY <4>1, <4>2
    <3>. QED BY <3>1
  <2>3. S = {c \in DOMAIN r : r[c].target = t /\ cell[c].uid = u}
    BY <2>0, <2>2
  <2>4. \A c \in S : h[c] = f[c]
    BY <2>0, <2>1, <2>2
  <2>5. \A c \in S : f[c] \in Int
    <3>1. ASSUME NEW c \in S PROVE r[c].amount \in 1..Size[c] /\ Size[c] \in Nat
      BY <1>2, <2>2, RequestFacts, CellFacts
    <3>. QED BY <2>2, <3>1
  <2>6. IsFiniteSet(S)
    BY <2>1, <2>2, FS_Subset
  <2>7. SumOver(h, S) = SumOver(f, S)
    BY <2>4, <2>5, <2>6, SumOverSame
  <2>. QED BY <2>2, <2>3, <2>7 DEF Holds, Added
<1>4. PICK rows : rows = stored \union {tx}
  OBVIOUS
<1>5. IsFiniteSet(rows) /\ tx \in rows /\ rows \ {tx} = stored
      /\ \A t2 \in rows : t2.moves \in Requests
  BY <1>2, <1>4, SumTypes, FS_AddElement
<1>6. Total(rows, cell, t, u) = Holds(cell, tx.moves, t, u) + Total(rows \ {tx}, cell, t, u)
  BY <1>5, SumTypes, TotalWith
<1>7. Pending(t, u)' = Added(r, t, u) + Pending(t, u)
  BY <1>1, <1>2, <1>3, <1>4, <1>5, <1>6, PendingIs
<1>8. Total(stored, cell, t, u) \in Int
  BY SumTypes, TotalSame
<1>9. Pending(t, u) \in Int /\ Added(r, t, u) \in Int /\ owed[t][u] \in Int
  BY <1>2, <1>8, AddedIsInt, SumTypes, PendingIs
<1>. QED BY <1>2, <1>7, <1>9

\* A worker that sets up a transaction touches no cell of a stored one.
LEMMA SetUpCells ==
  ASSUME TInv, NEW w \in Workers, SetUp(w), ~DumpPending
  PROVE  /\ UNCHANGED <<stored, lastId, owed>>
         /\ \A tx \in stored : \A c \in DOMAIN tx.moves : cell'[c] = cell[c]
<1>. DEFINE Apart == \A tx \in stored : \A c \in DOMAIN tx.moves : cell'[c] = cell[c]
<1>1. UNCHANGED <<stored, lastId, owed>>
  BY DEF SetUp, Dump, DumpDone, Load, LoadShort, Insert
<1>2. CASE UNCHANGED cell
  BY <1>1, <1>2
<1>3. ASSUME NEW c, NEW x, cell' = [cell EXCEPT ![c] = x],
             \A tx \in stored : c \notin DOMAIN tx.moves
      PROVE  Apart
  <2>1. \A d \in Cells : d # c => cell'[d] = cell[d]
    BY <1>3 DEF TInv, Finite
  <2>. QED BY <1>3, <2>1, StoredCells
<1>4. CASE Dump(w)
  <2>1. PICK c \in Cells, n \in Nat : /\ c = Min(Dumped(w))
                                      /\ cell' = [cell EXCEPT ![c] = Without(cell[c], n)]
    BY <1>4, DumpFacts
  <2>2. \A tx \in stored : c \notin DOMAIN tx.moves
    BY <1>4, <2>1 DEF DumpPending
  <2>. QED BY <1>1, <1>3, <2>1, <2>2
<1>5. CASE Load(w) \/ LoadShort(w)
  <2>1. PICK c : c = Min(ToLoad(w))
    OBVIOUS
  <2>2. c \in DOMAIN request[w] /\ pc[w] = "load"
    BY <1>5, <2>1, ToLoadIn DEF Load, LoadShort
  <2>3. \A tx \in stored : c \notin DOMAIN tx.moves
    BY <2>2, CellsApart DEF TInv
  <2>4. CASE \E n : Export(w, c, n)
    <3>1. PICK x : cell' = [cell EXCEPT ![c] = x]
      BY <2>4 DEF Export
    <3>. QED BY <1>1, <1>3, <2>3, <3>1
  <2>. QED BY <1>2, <1>5, <2>1, <2>4 DEF Load, LoadShort
<1>6. CASE DumpDone(w) \/ Insert(w)
  BY <1>2, <1>6 DEF DumpDone, Insert
<1>. QED BY <1>4, <1>5, <1>6 DEF SetUp

\* A step that is no fault keeps the difference of what is owed and what is in cells.
LEMMA NextKeeps ==
  ASSUME CInv, [Next]_vars, ~TransferFault
  PROVE  Kept
<1>0. TInv
  BY DEF CInv
<1>1. ASSUME UNCHANGED <<stored, cell, owed>> PROVE Kept
  BY <1>0, <1>1, OthersKeep
<1>2. ASSUME NEW p \in Procs, NEW c \in Cells, NEW n \in 0..Size[c], Move(p, c, n)
      PROVE  Kept
  <2>1. work[p] # {}
    BY <1>0, <1>2 DEF Move, TInv, PhasesOK
  <2>2. n # 0 => First(p) \in stored
    <3>1. n # 0 => n \in 1..Size[c]
      OBVIOUS
    <3>. QED BY <1>2, <2>1, <3>1 DEF TransferFault, StaleMove
  <2>. QED BY <1>0, <1>2, <2>2, MoveKeeps
<1>3. ASSUME NEW p \in Procs, OwnStep(p) \/ CallFails(p) PROVE Kept
  <2>1. CASE Drop(p)
    BY <2>1, DropKeeps
  <2>2. CASE ~Drop(p)
    BY <1>1, <1>3, <2>2 DEF OwnStep, CheckFails, CallFails
  <2>. QED BY <2>1, <2>2
<1>4. ASSUME NEW w \in Workers, SetUp(w) PROVE Kept
  BY <1>0, <1>4, SetUpCells, OthersKeep DEF TransferFault
<1>5. ASSUME NEW w \in Workers, Commit(w) PROVE Kept
  <2>1. \A c \in DOMAIN request[w] :
          cell[c] = [uid |-> request[w][c].uid, amount |-> request[w][c].amount]
    BY <1>5 DEF TransferFault, LeftoverCommit
  <2>. QED BY <1>0, <1>5, <2>1, CommitKeeps
<1>6. ASSUME NEW p, NEW phase, Check(p, phase) PROVE Kept
  BY <1>1, <1>6 DEF Check
<1>7. ASSUME NEW w, NEW r, Begin(w, r) PROVE Kept
  BY <1>1, <1>7 DEF Begin
<1>8. ASSUME NEW w, Rollback(w) PROVE Kept
  BY <1>1, <1>8 DEF Rollback
<1>9. Ping \/ Crash => Kept
  BY <1>1 DEF Ping, Crash
<1>10. UNCHANGED vars => Kept
  BY <1>1 DEF vars
<1>. QED BY <1>2, <1>3, <1>4, <1>5, <1>6, <1>7, <1>8, <1>9, <1>10 DEF Next

\* All or nothing, once: apart from the three named faults no step changes the
\* difference of what targets are owed and what stored transactions still have
\* in their cells for them, whoever replays, gives up or dies when.
THEOREM DeliveredOnce == Spec => OwedIsPending
<1>1. CInv /\ [Next]_vars =>
        [~TransferFault => \A t \in Targets, u \in Uids :
           (owed[t][u] - Pending(t, u))' = owed[t][u] - Pending(t, u)]_vars
  BY NextKeeps DEF Kept
<1>. QED BY InitCleared, NextCleared, <1>1, PTL DEF Spec, OwedIsPending

\* Cells of stored rows hold no less than nothing for a target.
LEMMA TotalNat ==
  ASSUME NEW rows, IsFiniteSet(rows), \A tx \in rows : tx.moves \in Requests,
         NEW x, \A c \in Cells : x[c] \in Content(c), NEW t, NEW u
  PROVE  Total(rows, x, t, u) \in Nat
<1>1. PICK f : f = [tx \in rows |-> Holds(x, tx.moves, t, u)]
  OBVIOUS
<1>2. ASSUME NEW tx \in rows PROVE f[tx] \in Nat
  <2>1. PICK r \in Requests : r = tx.moves
    OBVIOUS
  <2>2. PICK own, amounts : /\ own = {c \in DOMAIN r : r[c].target = t /\ x[c].uid = u}
                            /\ amounts = [c \in Cells |-> x[c].amount]
    OBVIOUS
  <2>3. IsFiniteSet(own) /\ own \subseteq Cells
    BY <2>2, RequestFacts, FS_Subset
  <2>4. ASSUME NEW c \in own PROVE amounts[c] \in Nat
    BY <2>2, <2>3, ContentFacts, CellFacts
  <2>5. SumOver(amounts, own) \in Nat
    BY <2>3, <2>4, SumOverIsNat
  <2>. QED BY <1>1, <2>1, <2>2, <2>5 DEF Holds
<1>3. SumOver(f, rows) \in Nat
  BY <1>2, SumOverIsNat
<1>. QED BY <1>1, <1>3 DEF Total

\* While none of the three faults happens, a target is owed exactly what
\* stored transactions still have in their cells for it, and so never less
\* than nothing: no target ever gets more than was commited for it.
THEOREM FaultlessDelivery ==
  Init /\ [][Next /\ ~TransferFault]_vars =>
    [](\A t \in Targets, u \in Uids : owed[t][u] = Pending(t, u) /\ owed[t][u] \in Nat)
<1> DEFINE Exact == \A t \in Targets, u \in Uids : owed[t][u] = Pending(t, u)
           Inv == CInv /\ Exact
           Goal == \A t \in Targets, u \in Uids : owed[t][u] = Pending(t, u) /\ owed[t][u] \in Nat
<1>1. Init => Inv
  <2>1. ASSUME Init, NEW t \in Targets, NEW u \in Uids PROVE owed[t][u] = Pending(t, u)
    BY <2>1, SumOverEmpty DEF Init, Pending
  <2>. QED BY <2>1, InitCleared
<1>2. ASSUME Inv, [Next /\ ~TransferFault]_vars PROVE Inv'
  <2>1. CInv' /\ TInv /\ TInv'
    BY <1>2, NextCleared DEF CInv
  <2>2. Kept
    <3>1. CASE ~TransferFault
      BY <1>2, <3>1, NextKeeps
    <3>2. CASE UNCHANGED vars
      BY <2>1, <3>2, OthersKeep DEF vars
    <3>. QED BY <1>2, <3>1, <3>2
  <2>3. ASSUME NEW t \in Targets, NEW u \in Uids PROVE owed'[t][u] = Pending(t, u)'
    <3>1. (owed[t][u] - Pending(t, u))' = owed[t][u] - Pending(t, u)
      BY <2>2 DEF Kept
    <3>2. owed[t][u] = Pending(t, u) /\ owed[t][u] \in Int
      BY <1>2, <2>1, SumTypes
    <3>3. owed'[t][u] \in Int
      BY <2>1 DEF TInv, OwedOK
    <3>4. /\ IsFiniteSet(stored') /\ \A tx \in stored' : tx.moves \in Requests
          /\ \A c \in Cells : cell'[c] \in Content(c)
      BY <2>1 DEF TInv, Finite, RowsOK, CellsOK, Content, Empty
    <3>5. Total(stored', cell', t, u) \in Nat
      BY <3>4, TotalNat
    <3>6. Pending(t, u)' \in Int
      BY <3>5, PendingIs
    <3>. QED BY <3>1, <3>2, <3>3, <3>6
  <2>. QED BY <2>1, <2>3
<1>3. Inv => Goal
  <2>1. ASSUME CInv, NEW t \in Targets, NEW u \in Uids PROVE Pending(t, u) \in Nat
    BY <2>1, SumTypes, TotalNat, PendingIs DEF CInv
  <2>. QED BY <2>1
<1> HIDE DEF Inv
<1>4. Inv /\ [Next /\ ~TransferFault]_vars => Inv'
  BY <1>2
<1>5. Init /\ [][Next /\ ~TransferFault]_vars => []Goal
  <2> HIDE DEF Goal
  <2>. QED BY <1>1, <1>3, <1>4, PTL
<1>. QED BY <1>5

-----------------------------------------------------------------------------
\* The refinement: stored transactions are open orders.

LEMMA OrderFacts ==
  ASSUME TInv, NEW tx \in stored
  PROVE  /\ tx.moves \in Requests /\ DOMAIN tx.moves \subseteq Cells
         /\ OrderOf(tx).id = tx.id /\ OrderOf(tx).order = tx.moves
         /\ OrderOf(tx).left = [c \in DOMAIN tx.moves |-> cell[c]]
         /\ \A other \in stored : OrderOf(other) = OrderOf(tx) => other = tx
<1>1. \A other \in stored : other.id = tx.id => other = tx
  BY DEF TInv, IdsUnique
<1>. QED BY <1>1, StoredCells DEF OrderOf

\* An order whose cells nobody touches stays as it is.
LEMMA OrderStays ==
  ASSUME NEW tx, \A c \in DOMAIN tx.moves : cell'[c] = cell[c]
  PROVE  OrderOf(tx)' = OrderOf(tx)
BY DEF OrderOf

LEMMA OpenSame ==
  ASSUME TInv, UNCHANGED <<stored, lastId, owed>>,
         \A tx \in stored : \A c \in DOMAIN tx.moves : cell'[c] = cell[c]
  PROVE  UNCHANGED D!vars
<1>1. \A tx \in stored : OrderOf(tx)' = OrderOf(tx)
  BY OrderStays
<1>2. {OrderOf(tx) : tx \in stored}' = {OrderOf(tx) : tx \in stored}
  BY <1>1
<1>. QED BY <1>2 DEF D!vars

\* A commit of what was asked for places an order.
LEMMA CommitPlaces ==
  ASSUME TInv, NEW w \in Workers, Commit(w),
         \A c \in DOMAIN request[w] :
           cell[c] = [uid |-> request[w][c].uid, amount |-> request[w][c].amount]
  PROVE  D!Next
<1>0. PICK tx, r : r = request[w] /\ tx = [id |-> lastId + 1, moves |-> r]
  OBVIOUS
<1>1. /\ stored' = stored \union {tx} /\ UNCHANGED cell /\ lastId' = lastId + 1
      /\ owed' = [t \in Targets |-> [u \in Uids |-> owed[t][u] +
           SumOver([c \in DOMAIN r |-> r[c].amount],
             {c \in DOMAIN r : r[c].target = t /\ r[c].uid = u})]]
  BY <1>0 DEF Commit
<1>2. r \in Requests
  BY <1>0, CommitFacts
<1>3. \A x : OrderOf(x)' = OrderOf(x)
  BY <1>1, OrderStays
<1>4. OrderOf(tx) = [id |-> lastId + 1, order |-> r,
                     left |-> [c \in DOMAIN r |-> [uid |-> r[c].uid, amount |-> r[c].amount]]]
  BY <1>0 DEF OrderOf
<1>5. {OrderOf(x) : x \in stored}' = {OrderOf(x) : x \in stored} \union {OrderOf(tx)}
  BY <1>1, <1>3
<1>6. \A f, S : D!SumOver(f, S) = SumOver(f, S)
  BY DEF D!SumOver, SumOver, D!MapThenSumSet, MapThenSumSet, D!MapThenFoldSet, MapThenFoldSet
<1>7. D!Place(r)
  BY <1>1, <1>4, <1>5, <1>6 DEF D!Place
<1>. QED BY <1>2, <1>7 DEF D!Next

\* A transfer of a stored transaction is a part of its order.
LEMMA MoveHandsOver ==
  ASSUME TInv, NEW p \in Procs, NEW c \in Cells, NEW n \in 0..Size[c], Move(p, c, n),
         n # 0, First(p) \in stored
  PROVE  D!Next
<1>0. PICK first, o, y : first = First(p) /\ o = OrderOf(first) /\ y = Without(cell[c], n)
  OBVIOUS
<1>1. /\ first \in stored /\ c \in DOMAIN first.moves /\ n \in 1..cell[c].amount
      /\ cell' = [cell EXCEPT ![c] = y]
      /\ owed' = [owed EXCEPT ![first.moves[c].target][cell[c].uid] = @ - n]
      /\ UNCHANGED <<stored, lastId>>
  <2>1. n \in 0..cell[c].amount
    BY MoveFacts
  <2>2. UNCHANGED <<stored, lastId>>
    BY DEF Move
  <2>. QED BY <1>0, <2>1, <2>2, MoveFacts
<1>2. /\ o.id = first.id /\ o.order = first.moves
      /\ o.left = [d \in DOMAIN first.moves |-> cell[d]] /\ DOMAIN first.moves \subseteq Cells
      /\ \A tx \in stored : OrderOf(tx) = o => tx = first
  BY <1>0, <1>1, OrderFacts
<1>3. \A d \in Cells : cell'[d] = IF d = c THEN y ELSE cell[d]
  BY <1>1 DEF TInv, Finite
<1>4. \A tx \in stored : tx # first => OrderOf(tx)' = OrderOf(tx)
  <2>1. ASSUME NEW tx \in stored, tx # first
        PROVE  \A d \in DOMAIN tx.moves : cell'[d] = cell[d]
    <3>1. c \notin DOMAIN tx.moves
      BY <1>1, <2>1, CellsApart DEF TInv
    <3>2. DOMAIN tx.moves \subseteq Cells
      BY StoredCells
    <3>. QED BY <1>3, <3>1, <3>2
  <2>. QED BY <2>1, OrderStays
<1>5. PICK new : new = [o EXCEPT !.left = [@ EXCEPT ![c] = y]]
  OBVIOUS
<1>6. OrderOf(first)' = new
  <2>1. [o.left EXCEPT ![c] = y] = [d \in DOMAIN first.moves |-> cell'[d]]
    BY <1>1, <1>2, <1>3
  <2>2. OrderOf(first)' =
          [id |-> first.id, order |-> first.moves, left |-> [d \in DOMAIN first.moves |-> cell'[d]]]
    BY DEF OrderOf
  <2>3. new = [id |-> first.id, order |-> first.moves, left |-> [o.left EXCEPT ![c] = y]]
    BY <1>0, <1>2, <1>5 DEF OrderOf
  <2>. QED BY <2>1, <2>2, <2>3
<1>7. {OrderOf(tx) : tx \in stored}' = ({OrderOf(tx) : tx \in stored} \ {o}) \union {new}
  <2>1. stored = (stored \ {first}) \union {first}
    BY <1>1
  <2>2. {OrderOf(tx) : tx \in stored}' = {OrderOf(tx)' : tx \in stored}
    BY <1>1
  <2>3. {OrderOf(tx)' : tx \in stored} = {OrderOf(tx) : tx \in stored \ {first}} \union {new}
    BY <1>1, <1>4, <1>6
  <2>4. {OrderOf(tx) : tx \in stored \ {first}} = {OrderOf(tx) : tx \in stored} \ {o}
    BY <1>0, <1>1, <1>2
  <2>. QED BY <2>2, <2>3, <2>4
<1>8. /\ o.left[c] = cell[c] /\ c \in DOMAIN o.left
      /\ y = IF n = cell[c].amount THEN D!NothingLeft ELSE [cell[c] EXCEPT !.amount = @ - n]
  BY <1>0, <1>1, <1>2 DEF Without, Empty, D!NothingLeft
<1>9. D!HandOver(o, c, n)
  BY <1>1, <1>2, <1>5, <1>7, <1>8 DEF D!HandOver
<1>10. o \in {OrderOf(tx) : tx \in stored} /\ n \in 1..o.left[c].amount
  BY <1>0, <1>1, <1>8
<1>. QED BY <1>8, <1>9, <1>10 DEF D!Next

\* A transaction that is dropped is an order of which nothing is left, or one
\* that was closed already.
LEMMA DropCloses ==
  ASSUME CInv, NEW p \in Procs, Drop(p)
  PROVE  [D!Next]_(D!vars)
<1>0. TInv /\ pc[p] = "drop"
  BY DEF CInv, Drop
<1>1. PICK first, o : first = First(p) /\ o = OrderOf(first)
  OBVIOUS
<1>2. stored' = stored \ {first} /\ UNCHANGED <<lastId, cell, owed>>
  BY <1>0, <1>1, DropFacts
<1>3. CASE first \notin stored
  <2>1. stored' = stored
    BY <1>2, <1>3
  <2>. QED BY <1>0, <1>2, <2>1, OpenSame
<1>4. CASE first \in stored
  <2>1. \A c \in DOMAIN first.moves : cell[c] = Empty
    BY <1>0, <1>1, <1>4 DEF CInv, Cleared
  <2>2. /\ o.left = [c \in DOMAIN first.moves |-> cell[c]]
        /\ \A tx \in stored : OrderOf(tx) = o => tx = first
    BY <1>0, <1>1, <1>4, OrderFacts
  <2>3. \A c \in DOMAIN o.left : o.left[c] = D!NothingLeft
    BY <2>1, <2>2 DEF Empty, D!NothingLeft
  <2>4. \A tx : OrderOf(tx)' = OrderOf(tx)
    BY <1>2, OrderStays
  <2>5. {OrderOf(tx) : tx \in stored}' = {OrderOf(tx) : tx \in stored} \ {o}
    BY <1>1, <1>2, <1>4, <2>2, <2>4
  <2>6. D!Close(o) /\ o \in {OrderOf(tx) : tx \in stored}
    BY <1>1, <1>2, <1>4, <2>3, <2>5 DEF D!Close
  <2>. QED BY <2>6 DEF D!Next
<1>. QED BY <1>3, <1>4

\* A step that is no fault is a step of the delivery, or none of its business.
LEMMA NextDelivers ==
  ASSUME CInv, [Next]_vars, ~TransferFault
  PROVE  [D!Next]_(D!vars)
<1>0. TInv
  BY DEF CInv
<1>1. ASSUME UNCHANGED <<stored, lastId, cell, owed>> PROVE [D!Next]_(D!vars)
  BY <1>0, <1>1, OpenSame
<1>2. ASSUME NEW p \in Procs, NEW c \in Cells, NEW n \in 0..Size[c], Move(p, c, n)
      PROVE  [D!Next]_(D!vars)
  <2>1. CASE n = 0
    <3>1. UNCHANGED <<stored, lastId, cell, owed>>
      BY <1>0, <1>2, <2>1, MoveFacts DEF Move
    <3>. QED BY <1>1, <3>1
  <2>2. CASE n # 0
    <3>1. work[p] # {} /\ n \in 1..Size[c]
      BY <1>0, <1>2, <2>2 DEF Move, TInv, PhasesOK
    <3>2. First(p) \in stored
      BY <1>2, <3>1 DEF TransferFault, StaleMove
    <3>. QED BY <1>0, <1>2, <2>2, <3>2, MoveHandsOver
  <2>. QED BY <2>1, <2>2
<1>3. ASSUME NEW p \in Procs, OwnStep(p) \/ CallFails(p) PROVE [D!Next]_(D!vars)
  <2>1. CASE Drop(p)
    BY <2>1, DropCloses
  <2>2. CASE ~Drop(p)
    BY <1>1, <1>3, <2>2 DEF OwnStep, CheckFails, CallFails
  <2>. QED BY <2>1, <2>2
<1>4. ASSUME NEW w \in Workers, SetUp(w) PROVE [D!Next]_(D!vars)
  BY <1>0, <1>4, SetUpCells, OpenSame DEF TransferFault
<1>5. ASSUME NEW w \in Workers, Commit(w) PROVE [D!Next]_(D!vars)
  <2>1. \A c \in DOMAIN request[w] :
          cell[c] = [uid |-> request[w][c].uid, amount |-> request[w][c].amount]
    BY <1>5 DEF TransferFault, LeftoverCommit
  <2>. QED BY <1>0, <1>5, <2>1, CommitPlaces
<1>6. ASSUME NEW p, NEW phase, Check(p, phase) PROVE [D!Next]_(D!vars)
  BY <1>1, <1>6 DEF Check
<1>7. ASSUME NEW w, NEW r, Begin(w, r) PROVE [D!Next]_(D!vars)
  BY <1>1, <1>7 DEF Begin
<1>8. ASSUME NEW w, Rollback(w) PROVE [D!Next]_(D!vars)
  BY <1>1, <1>8 DEF Rollback
<1>9. Ping \/ Crash => [D!Next]_(D!vars)
  BY <1>1 DEF Ping, Crash
<1>10. UNCHANGED vars => [D!Next]_(D!vars)
  BY <1>1 DEF vars
<1>. QED BY <1>2, <1>3, <1>4, <1>5, <1>6, <1>7, <1>8, <1>9, <1>10 DEF Next

\* Stored transactions, whoever works on them or dies, implement a delivery:
\* orders are placed as a whole, each piece is handed over once, and an order is
\* closed with nothing left, apart from the three named faults.
THEOREM ImplementsDelivery == Spec => Delivers
<1>1. Init => D!Init
  BY DEF Init, D!Init
<1>2. CInv /\ [Next]_vars => [D!Next \/ TransferFault]_(D!vars)
  BY NextDelivers
<1>. QED BY InitCleared, NextCleared, <1>1, <1>2, PTL DEF Spec, Delivers
=============================================================================
