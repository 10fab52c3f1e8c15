----------------------------- MODULE ItemStore -----------------------------
(***************************************************************************)
(* The chests of the item storage and what the server remembers of them    *)
(* (internal/services/storage/multiple_chests_store.go), with the sync of  *)
(* combined_store.go that lists the chests every 30 s and after an         *)
(* optimization.                                                           *)
(*                                                                         *)
(* Imports and exports hold the store's lock over all their calls to the   *)
(* storage client; one step is one call with the bookkeeping that follows. *)
(* A sync lists the chests without the lock and takes it once to clear the *)
(* store and once per chest.  A call moves what the source still has and   *)
(* the target has room for, and it may fail after it has moved something.  *)
(***************************************************************************)
EXTENDS Sums

CONSTANTS
  Items,
  Nothing,   \* what an empty slot holds
  Chests,
  Size,      \* chest -> number of its slots
  MaxCount,  \* a slot holds so many of an item
  Users,     \* goroutines that import or export
  Syncers,   \* goroutines that sync: the cycle, and requests to optimize
  Nobody,
  Outside,   \* whether others take from the chests: players, the cold storage
  AfterFault \* whether operations begin while the store is known to be wrong

ASSUME StoreAssumption ==
  /\ Nothing \notin Items /\ Nobody \notin Users /\ IsFiniteSet(Chests)
  /\ Size \in [Chests -> Nat] /\ MaxCount \in Nat \ {0} /\ {Outside, AfterFault} \subseteq BOOLEAN

Slots == UNION {{c} \X (1..Size[c]) : c \in Chests}

VARIABLES
  chest,    \* slot -> [uid, n]: what is in the game's chests
  stacks,   \* stacksByUID: item -> slot -> amount, 0 for none
  used,     \* usedSlots
  known,    \* chests that have an entry in inventories
  free,     \* inventories[c].FreeSlots, 0 for chests that are not known
  stats,    \* itemStats
  mu,       \* which import or export has the lock
  op,       \* user -> [at, uid, remain, todo]
  sync,     \* syncer -> [at, listing, todo]
  parted,   \* history: a named fault may have parted the store from the chests
  twice     \* history: a chest was added twice since the store was cleared

store == <<stacks, used, known, free, stats>>
vars == <<chest, store, mu, op, sync, parted, twice>>

Stack == [uid : Items, n : 1..MaxCount]
EmptySlot == [uid |-> Nothing, n |-> 0]
IdleOp == [at |-> "idle", uid |-> Nothing, remain |-> 0, todo |-> {}]
IdleSync == [at |-> "idle", listing |-> <<>>, todo |-> {}]

Init ==
  /\ chest \in [Slots -> Stack \union {EmptySlot}]
  /\ stacks = [u \in Items |-> [s \in Slots |-> 0]]
  /\ used = {} /\ known = {}
  /\ free = [c \in Chests |-> 0]
  /\ stats = [u \in Items |-> 0]
  /\ mu = Nobody
  /\ op = [p \in Users |-> IdleOp]
  /\ sync = [q \in Syncers |-> IdleSync]
  /\ parted = FALSE /\ twice = FALSE

\* The range over the stacks of an item.
StacksOf(u) == {s \in Slots : stacks[u][s] > 0}

PutInto(s, u, n) == [chest EXCEPT ![s] = [uid |-> u, n |-> @.n + n]]
TakenFrom(s, n) ==
  [chest EXCEPT ![s] = IF @.n = n THEN EmptySlot ELSE [uid |-> @.uid, n |-> @.n - n]]
RoomFor(u, s) ==
  IF chest[s].uid \in {u, Nothing} THEN MaxCount - chest[s].n ELSE 0

AtMost(a, b) == IF a < b THEN a ELSE b

\* setStackSize; FreeSlots counts the slots that fill and those that empty.
SetStackSize(u, s, amount) ==
  /\ stats' = [stats EXCEPT ![u] = @ + amount - stacks[u][s]]
  /\ stacks' = [stacks EXCEPT ![u][s] = amount]
  /\ used' = IF amount > 0
             THEN IF stacks[u][s] = 0 THEN used \union {s} ELSE used
             ELSE used \ {s}
  /\ free' = [free EXCEPT ![s[1]] =
                IF amount = 0 THEN @ + 1 ELSE IF stacks[u][s] = 0 THEN @ - 1 ELSE @]
  /\ UNCHANGED known

-----------------------------------------------------------------------------
\* ImportStack and ExportStack.

\* One has begun; it is at its first call.
Begin(p, at, u, n, todo) ==
  /\ mu = Nobody /\ mu' = p
  /\ parted => AfterFault
  /\ op' = [op EXCEPT ![p] = [at |-> at, uid |-> u, remain |-> n, todo |-> todo]]
  /\ UNCHANGED <<chest, store, sync, parted, twice>>

Return(p) == mu' = Nobody /\ op' = [op EXCEPT ![p] = IdleOp]

Import(p, u, n) ==
  IF StacksOf(u) = {} THEN Begin(p, "empty", u, n, {})
  ELSE Begin(p, "fill", u, n, StacksOf(u))

Export(p, u, n) ==
  StacksOf(u) # {} /\ Begin(p, "take", u, n, StacksOf(u))

\* A slot is done, and m have been moved.
Advance(p, s, m) ==
  LET o == op[p] IN
  IF o.remain = m \/ (o.at = "take" /\ o.todo = {s})
  THEN Return(p)
  ELSE /\ op' = [op EXCEPT ![p].remain = o.remain - m, ![p].todo = o.todo \ {s},
                           ![p].at = IF o.todo = {s} THEN "empty" ELSE o.at]
       /\ UNCHANGED mu

\* Mutant: an import asks for all the rest, whatever fits.
WantedAll(p, s) ==
  IF op[p].at = "fill" THEN op[p].remain ELSE AtMost(stacks[op[p].uid][s], op[p].remain)

\* How much the next call asks for.
Wanted(p, s) ==
  LET count == stacks[op[p].uid][s] IN
  AtMost(IF op[p].at = "fill" THEN MaxCount - count ELSE count, op[p].remain)

\* An import tops up a stack.
Fill(p, s) ==
  LET u == op[p].uid IN
  /\ op[p].at = "fill" /\ s \in op[p].todo
  /\ \E m \in 0..AtMost(Wanted(p, s), RoomFor(u, s)) :
       /\ chest' = IF m > 0 THEN PutInto(s, u, m) ELSE chest
       /\ IF Wanted(p, s) > 0 THEN SetStackSize(u, s, stacks[u][s] + m)
          ELSE UNCHANGED store
       /\ Advance(p, s, m)
  /\ UNCHANGED <<sync, parted, twice>>

\* An export takes from a stack, whatever has got into its slot.
Take(p, s) ==
  LET u == op[p].uid IN
  /\ op[p].at = "take" /\ s \in op[p].todo
  /\ \E m \in 0..AtMost(Wanted(p, s), chest[s].n) :
       /\ chest' = IF m > 0 THEN TakenFrom(s, m) ELSE chest
       /\ SetStackSize(u, s, stacks[u][s] - m)
       /\ Advance(p, s, m)
  /\ UNCHANGED <<sync, parted, twice>>

\* The first unused slot of some chest that has free ones.
EmptySlots ==
  {s \in Slots : /\ s[1] \in known /\ free[s[1]] # 0 /\ s \notin used
                 /\ \A i \in 1..(s[2] - 1) : <<s[1], i>> \in used}

\* Mutant: the amount that was moved is remembered, but not a new slot.
PlaceUnused(p, s) ==
  LET u == op[p].uid IN
  /\ op[p].at = "empty" /\ s \in EmptySlots
  /\ \E m \in 0..AtMost(op[p].remain, RoomFor(u, s)) :
       /\ chest' = IF m > 0 THEN PutInto(s, u, m) ELSE chest
       /\ parted' = (parted \/ m # op[p].remain)
  /\ stacks' = [stacks EXCEPT ![u][s] = op[p].remain]
  /\ stats' = [stats EXCEPT ![u] = @ + op[p].remain]
  /\ Return(p)
  /\ UNCHANGED <<used, known, free, sync, twice>>

\* importToEmptySlot: the rest goes into an empty slot.  What was asked for is
\* remembered, not what was moved (first fault).
Place(p, s) ==
  LET u == op[p].uid IN
  /\ op[p].at = "empty" /\ s \in EmptySlots
  /\ \E m \in 0..AtMost(op[p].remain, RoomFor(u, s)) :
       /\ chest' = IF m > 0 THEN PutInto(s, u, m) ELSE chest
       /\ parted' = (parted \/ m # op[p].remain)
  /\ SetStackSize(u, s, op[p].remain)
  /\ Return(p)
  /\ UNCHANGED <<sync, twice>>

NoPlace(p) ==
  /\ op[p].at = "empty" /\ EmptySlots = {}
  /\ Return(p)
  /\ UNCHANGED <<chest, store, sync, parted, twice>>

\* A call fails, perhaps after it has moved something (second fault).
CallFails(p) ==
  LET u == op[p].uid IN
  /\ op[p].at # "idle"
  /\ \/ UNCHANGED <<chest, parted>>
     \/ /\ \/ \E s \in op[p].todo :
                /\ op[p].at = "fill"
                /\ \E m \in 1..AtMost(Wanted(p, s), RoomFor(u, s)) : chest' = PutInto(s, u, m)
           \/ \E s \in op[p].todo :
                /\ op[p].at = "take"
                /\ \E m \in 1..AtMost(Wanted(p, s), chest[s].n) : chest' = TakenFrom(s, m)
           \/ \E s \in EmptySlots :
                /\ op[p].at = "empty"
                /\ \E m \in 1..AtMost(op[p].remain, RoomFor(u, s)) : chest' = PutInto(s, u, m)
        /\ parted' = TRUE
  /\ Return(p)
  /\ UNCHANGED <<store, sync, twice>>

-----------------------------------------------------------------------------
\* CombinedStore.sync.

List(q) ==
  /\ sync[q].at = "idle"
  /\ sync' = [sync EXCEPT ![q] = [at |-> "listed", listing |-> chest, todo |-> {}]]
  /\ UNCHANGED <<chest, store, mu, op, parted, twice>>

\* From here on the store says nothing that could be wrong.
Clear(q) ==
  /\ sync[q].at = "listed" /\ mu = Nobody
  /\ stacks' = [u \in Items |-> [s \in Slots |-> 0]]
  /\ used' = {} /\ known' = {}
  /\ free' = [c \in Chests |-> 0]
  /\ stats' = [u \in Items |-> 0]
  /\ sync' = [sync EXCEPT ![q].at = "adding", ![q].todo = Chests]
  /\ parted' = FALSE /\ twice' = FALSE
  /\ UNCHANGED <<chest, mu, op>>

In(c) == {s \in Slots : s[1] = c}
Listed(l, c, u) == {s \in In(c) : l[s].uid = u}

\* Mutant: the slots of a chest that are taken count as free.
AddAllFree(q, c) ==
  LET l == sync[q].listing IN
  /\ sync[q].at = "adding" /\ c \in sync[q].todo /\ mu = Nobody
  /\ known' = known \union {c}
  /\ free' = [free EXCEPT ![c] = Size[c]]
  /\ used' = used \union {s \in In(c) : l[s] # EmptySlot}
  /\ stacks' = [u \in Items |-> [s \in Slots |->
                  IF s \in Listed(l, c, u) THEN l[s].n ELSE stacks[u][s]]]
  /\ stats' = [u \in Items |->
                 stats[u] + SumOver([s \in Listed(l, c, u) |-> l[s].n], Listed(l, c, u))]
  /\ sync' = [sync EXCEPT ![q] = IF @.todo = {c} THEN IdleSync
                                 ELSE [at |-> "adding", todo |-> @.todo \ {c},
                                       listing |-> Restrict(@.listing, Slots \ In(c))]]
  /\ parted' = (parted \/ \E s \in In(c) : l[s] # chest[s])
  /\ twice' = (twice \/ c \in known)
  /\ UNCHANGED <<chest, mu, op>>

\* Add, with a listing that may be out of date by now (third fault), to a store
\* that another sync may have filled since it was cleared (fourth).
Add(q, c) ==
  LET l == sync[q].listing IN
  /\ sync[q].at = "adding" /\ c \in sync[q].todo /\ mu = Nobody
  /\ known' = known \union {c}
  /\ free' = [free EXCEPT ![c] = Size[c] - Cardinality({s \in In(c) : l[s] # EmptySlot})]
  /\ used' = used \union {s \in In(c) : l[s] # EmptySlot}
  /\ stacks' = [u \in Items |-> [s \in Slots |->
                  IF s \in Listed(l, c, u) THEN l[s].n ELSE stacks[u][s]]]
  /\ stats' = [u \in Items |->
                 stats[u] + SumOver([s \in Listed(l, c, u) |-> l[s].n], Listed(l, c, u))]
  /\ sync' = [sync EXCEPT ![q] = IF @.todo = {c} THEN IdleSync
                                 ELSE [at |-> "adding", todo |-> @.todo \ {c},
                                       listing |-> Restrict(@.listing, Slots \ In(c))]]
  /\ parted' = (parted \/ \E s \in In(c) : l[s] # chest[s])
  /\ twice' = (twice \/ c \in known)
  /\ UNCHANGED <<chest, mu, op>>

\* Somebody else takes from a chest, the cold storage in an optimization, say,
\* which takes only its own lock (fifth fault).
TakeOutside(s) ==
  /\ Outside /\ chest[s] # EmptySlot
  /\ parted => AfterFault
  /\ chest' = [chest EXCEPT ![s] = EmptySlot]
  /\ parted' = (parted \/ s[1] \in known)
  /\ UNCHANGED <<store, mu, op, sync, twice>>

-----------------------------------------------------------------------------
Step(p) == (\E s \in Slots : Fill(p, s) \/ Take(p, s) \/ Place(p, s)) \/ NoPlace(p)
Sync(q) == List(q) \/ Clear(q) \/ \E c \in Chests : Add(q, c)

Next ==
  \/ \E p \in Users : Step(p) \/ CallFails(p)
  \/ \E p \in Users, u \in Items, n \in 1..MaxCount : Import(p, u, n) \/ Export(p, u, n)
  \/ \E q \in Syncers : Sync(q)
  \/ \E s \in Slots : TakeOutside(s)

Spec == Init /\ [][Next]_vars

-----------------------------------------------------------------------------
\* Properties.

\* Every part has its type; who imports or exports has the lock.
TypeOK ==
  /\ chest \in [Slots -> Stack \union {EmptySlot}]
  /\ stacks \in [Items -> [Slots -> 0..MaxCount]]
  /\ used \subseteq Slots /\ known \subseteq Chests
  /\ free \in [Chests -> Int]
  /\ stats \in [Items -> Nat]
  /\ \A p \in Users : mu = p <=> op[p].at # "idle"
  /\ \A p \in Users : op[p].at # "idle" => op[p].remain \in 1..MaxCount
  /\ parted \in BOOLEAN /\ twice \in BOOLEAN

\* What the store remembers of a chest is what is in it, and imports look for
\* empty slots where there are some.  Apart from named faults, each of which
\* lasts until the next sync: an import into an empty slot that moves less than
\* it was asked for, a call that fails and has moved something, a listing that
\* is out of date when it is added, and somebody else who takes from a chest.
StoreExact ==
  ~parted =>
    \A c \in known : \A s \in In(c) :
      /\ \A u \in Items : stacks[u][s] = IF chest[s].uid = u THEN chest[s].n ELSE 0
      /\ s \in used <=> chest[s] # EmptySlot

\* Whatever is moved, and however wrong the store is: its counts add up, and a
\* slot is either free or in use for one item.  Apart from two syncs that
\* overlap.
CountsAdd ==
  ~twice =>
    /\ \A u \in Items : stats[u] = SumOver(stacks[u], Slots)
    /\ \A c \in known : free[c] = Size[c] - Cardinality(used \intersect In(c))
    /\ \A s \in Slots : Cardinality({u \in Items : stacks[u][s] > 0}) = IF s \in used THEN 1 ELSE 0
=============================================================================
