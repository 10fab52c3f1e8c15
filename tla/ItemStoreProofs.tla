-------------------------- MODULE ItemStoreProofs --------------------------
(***************************************************************************)
(* The cache of the item store is exact apart from its named faults, and   *)
(* its counts are the sums of its stacks unless two syncs overlap: for any *)
(* chests, slots and items, any users of the store and any number of syncs.*)
(***************************************************************************)
EXTENDS ItemStore, SumsProofs

Contents == Stack \union {EmptySlot}
OpRec == [at : {"idle", "fill", "empty", "take"}, uid : Items \union {Nothing},
          remain : 0..MaxCount, todo : SUBSET Slots]

Shapes ==
  /\ chest \in [Slots -> Contents]
  /\ stacks \in [Items -> [Slots -> 0..MaxCount]]
  /\ op \in [Users -> OpRec]

\* Whoever imports or exports has the lock, so the slots that are still to be
\* visited are those of stacks that the store knew in the beginning: nobody has
\* changed them since.
Visits(o, k, st) ==
  /\ o.uid \in Items /\ o.remain > 0
  /\ \A s \in o.todo : s[1] \in k /\ st[o.uid][s] > 0

Working ==
  \A p \in Users : /\ mu = p <=> op[p].at # "idle"
                   /\ op[p].at # "idle" => Visits(op[p], known, stacks)

\* The store says nothing of a chest that it does not know.
UnknownClear ==
  \A s \in Slots : s[1] \notin known => s \notin used /\ \A u \in Items : stacks[u][s] = 0

\* What the store remembers of a slot that holds x.
Remembers(x, st, us, s) ==
  /\ \A u \in Items : st[u][s] = IF x.uid = u THEN x.n ELSE 0
  /\ s \in us <=> x # EmptySlot

Exact == ~parted => \A s \in Slots : s[1] \in known => Remembers(chest[s], stacks, used, s)

IInv == Shapes /\ Working /\ UnknownClear /\ Exact

-----------------------------------------------------------------------------
\* What a slot holds is counted.
LEMMA SlotsHoldSome == MaxCount \in Nat \ {0}
BY StoreAssumption

USE SlotsHoldSome

\* What slots hold, and how much.
LEMMA FullOrEmpty ==
  /\ \A x \in Stack : /\ x # EmptySlot /\ x.uid \in Items /\ x.uid # Nothing
                     /\ x.n \in Nat \ {0} /\ x.n <= MaxCount
  /\ \A x \in Contents : x.n \in Nat /\ x.n <= MaxCount
  /\ EmptySlot \in Contents /\ MaxCount \in Nat \ {0} /\ 0 \in 0..MaxCount
  /\ \A k : k \in 0..MaxCount <=> k \in Nat /\ k <= MaxCount
BY StoreAssumption DEF Contents, Stack, EmptySlot

\* The lesser of two numbers.
LEMMA AtMostBounds ==
  ASSUME NEW a \in Int, NEW b \in Int
  PROVE  AtMost(a, b) \in Int /\ AtMost(a, b) <= a /\ AtMost(a, b) <= b
BY DEF AtMost

\* What a slot holds after something was put into it.
LEMMA AfterPut ==
  ASSUME Shapes, NEW s \in Slots, NEW u \in Items, NEW m \in Nat \ {0},
         chest[s].n + m <= MaxCount
  PROVE  /\ PutInto(s, u, m) \in [Slots -> Contents]
         /\ \A t \in Slots : PutInto(s, u, m)[t] =
              IF t = s THEN [uid |-> u, n |-> chest[s].n + m] ELSE chest[t]
<1>1. chest[s].n \in Nat
  BY FullOrEmpty DEF Shapes
<1>2. [uid |-> u, n |-> chest[s].n + m] \in Contents
  BY <1>1, StoreAssumption DEF Stack, Contents
<1>. QED BY <1>2 DEF Shapes, PutInto

\* What a slot holds after something was taken from it.
LEMMA AfterTake ==
  ASSUME Shapes, NEW s \in Slots, NEW m \in 1..chest[s].n
  PROVE  /\ TakenFrom(s, m) \in [Slots -> Contents]
         /\ \A t \in Slots : TakenFrom(s, m)[t] =
              IF t # s THEN chest[t]
              ELSE IF m = chest[s].n THEN EmptySlot
              ELSE [uid |-> chest[s].uid, n |-> chest[s].n - m]
<1>1. chest[s] \in Stack
  BY DEF Shapes, Contents, EmptySlot
<1>2. chest[s].uid \in Items /\ chest[s].n \in Nat /\ chest[s].n <= MaxCount
  BY <1>1, FullOrEmpty
<1> DEFINE new == IF chest[s].n = m THEN EmptySlot
                  ELSE [uid |-> chest[s].uid, n |-> chest[s].n - m]
<1>3. TakenFrom(s, m) = [chest EXCEPT ![s] = new]
  BY DEF TakenFrom
<1>4. new \in Contents
  BY <1>2, StoreAssumption DEF Contents, Stack
<1> HIDE DEF new
<1>5. /\ TakenFrom(s, m) \in [Slots -> Contents]
      /\ \A t \in Slots : TakenFrom(s, m)[t] = IF t = s THEN new ELSE chest[t]
  BY <1>3, <1>4 DEF Shapes
<1>. QED BY <1>5 DEF new

\* What the store remembers after setStackSize.
LEMMA AfterSet ==
  ASSUME Shapes, NEW u \in Items, NEW s \in Slots, NEW a \in 0..MaxCount, SetStackSize(u, s, a)
  PROVE  /\ stacks' \in [Items -> [Slots -> 0..MaxCount]]
         /\ \A v \in Items, t \in Slots :
              stacks'[v][t] = IF v = u /\ t = s THEN a ELSE stacks[v][t]
         /\ known' = known
         /\ \A t \in Slots : t # s => (t \in used' <=> t \in used)
         /\ a = 0 => s \notin used'
         /\ a > 0 => (s \in used' <=> s \in used \/ stacks[u][s] = 0)
<1>1. stacks' = [stacks EXCEPT ![u][s] = a] /\ known' = known
      /\ used' = IF a > 0
                 THEN IF stacks[u][s] = 0 THEN used \union {s} ELSE used
                 ELSE used \ {s}
  BY DEF SetStackSize
<1>2. stacks' \in [Items -> [Slots -> 0..MaxCount]]
      /\ \A v \in Items, t \in Slots :
           stacks'[v][t] = IF v = u /\ t = s THEN a ELSE stacks[v][t]
  BY <1>1 DEF Shapes
<1>. QED BY <1>1, <1>2

\* A call that fits what the store asked for leaves it exact, if it notes what
\* the slot holds now.
LEMMA StillExact ==
  ASSUME IInv, NEW s \in Slots, known' = known, ~parted' => ~parted,
         \A t \in Slots \ {s} : chest'[t] = chest[t],
         \A v \in Items, t \in Slots \ {s} : stacks'[v][t] = stacks[v][t],
         \A t \in Slots \ {s} : t \in used' <=> t \in used,
         ~parted => Remembers(chest'[s], stacks', used', s)
  PROVE  Exact'
BY DEF IInv, Exact, Remembers

\* Where the store is exact, a slot that is still to be visited holds what the
\* store knows of it.
LEMMA VisitedSlot ==
  ASSUME IInv, NEW p \in Users, op[p].at # "idle", NEW s \in op[p].todo
  PROVE  /\ s \in Slots /\ s[1] \in known
         /\ op[p].uid \in Items /\ stacks[op[p].uid][s] \in Nat \ {0}
         /\ ~parted => /\ Remembers(chest[s], stacks, used, s)
                       /\ chest[s] = [uid |-> op[p].uid, n |-> stacks[op[p].uid][s]]
                       /\ s \in used
<1>1. /\ s \in Slots /\ s[1] \in known
      /\ op[p].uid \in Items /\ stacks[op[p].uid][s] \in Nat \ {0}
  BY DEF IInv, Shapes, Working, Visits, OpRec
<1>2. ~parted => Remembers(chest[s], stacks, used, s)
  BY <1>1 DEF IInv, Exact
<1>3. ASSUME ~parted
      PROVE  chest[s].uid = op[p].uid /\ chest[s].n = stacks[op[p].uid][s]
  BY <1>1, <1>2, <1>3 DEF Remembers
<1>4. ~parted => chest[s] \in Stack
  BY <1>1, <1>3 DEF IInv, Shapes, Contents, EmptySlot
<1>5. ~parted => chest[s] = [uid |-> op[p].uid, n |-> stacks[op[p].uid][s]]
  BY <1>3, <1>4 DEF Stack
<1>6. ~parted => s \in used
  BY <1>2, <1>4, FullOrEmpty DEF Remembers
<1>. QED BY <1>1, <1>2, <1>5, <1>6

\* Whoever works has the lock, so all others are idle.
LEMMA OthersIdle ==
  ASSUME Working, NEW p \in Users, op[p].at # "idle"
  PROVE  \A q \in Users \ {p} : op[q].at = "idle"
BY DEF Working

\* A user that returns leaves nobody at work.
LEMMA AfterReturn ==
  ASSUME Shapes, Working, NEW p \in Users, op[p].at # "idle", Return(p)
  PROVE  op' \in [Users -> OpRec] /\ Working'
<1>1. IdleOp \in OpRec /\ IdleOp.at = "idle"
  BY DEF IdleOp, OpRec
<1>2. op' = [op EXCEPT ![p] = IdleOp]
  BY DEF Return
<1>3. op' \in [Users -> OpRec] /\ \A q \in Users : op'[q] = IF q = p THEN IdleOp ELSE op[q]
  BY <1>1, <1>2 DEF Shapes
<1>4. mu' = Nobody /\ Nobody \notin Users
  BY StoreAssumption DEF Return
<1>. QED BY <1>1, <1>3, <1>4, OthersIdle DEF Working

\* A slot is done: what is still to be visited has not been touched.
LEMMA AfterAdvance ==
  ASSUME Shapes, Working, NEW p \in Users, op[p].at # "idle", NEW s \in Slots,
         NEW m \in Nat, m <= op[p].remain, Advance(p, s, m), known' = known,
         \A v \in Items, t \in Slots \ {s} : stacks'[v][t] = stacks[v][t]
  PROVE  op' \in [Users -> OpRec] /\ Working'
<1>1. CASE Return(p)
  BY <1>1, AfterReturn
<1>2. CASE ~Return(p)
  <2> DEFINE l == IF op[p].todo = {s} THEN "empty" ELSE op[p].at
             new == [at |-> l, uid |-> op[p].uid, remain |-> op[p].remain - m,
                     todo |-> op[p].todo \ {s}]
  <2>1. /\ op[p].remain # m /\ mu' = mu
        /\ op' = [op EXCEPT ![p].remain = op[p].remain - m, ![p].todo = op[p].todo \ {s},
                            ![p].at = l]
    BY <1>2 DEF Advance
  <2>2. op[p] = [at |-> op[p].at, uid |-> op[p].uid, remain |-> op[p].remain,
                 todo |-> op[p].todo]
        /\ op[p] \in OpRec /\ op[p].uid \in Items
    BY DEF Shapes, Working, Visits, OpRec
  <2>3. op[p].remain - m \in 0..MaxCount /\ op[p].remain - m > 0
    BY <2>1, <2>2, StoreAssumption DEF OpRec
  <2>4. new \in OpRec
    BY <2>2, <2>3 DEF OpRec
  <2>5. \A q \in Users : op'[q] = IF q = p THEN new ELSE op[q]
    <3> DEFINE rem == op[p].remain - m
               rest == op[p].todo \ {s}
               o1 == [op EXCEPT ![p].remain = rem]
               o2 == [o1 EXCEPT ![p].todo = rest]
               o3 == [o2 EXCEPT ![p].at = l]
    <3>1. op' = o3
      BY <2>1
    <3> HIDE DEF rem, rest, l
    <3>2. /\ o1 = [q \in Users |-> o1[q]]
          /\ o1[p] = [at |-> op[p].at, uid |-> op[p].uid, remain |-> rem, todo |-> op[p].todo]
          /\ \A q \in Users \ {p} : o1[q] = op[q]
      BY <2>2 DEF Shapes
    <3> HIDE DEF o1
    <3>3. /\ o2 = [q \in Users |-> o2[q]]
          /\ o2[p] = [at |-> op[p].at, uid |-> op[p].uid, remain |-> rem, todo |-> rest]
          /\ \A q \in Users \ {p} : o2[q] = op[q]
      BY <3>2
    <3> HIDE DEF o2
    <3>4. /\ o3[p] = [at |-> l, uid |-> op[p].uid, remain |-> rem, todo |-> rest]
          /\ \A q \in Users \ {p} : o3[q] = op[q]
      BY <3>3
    <3>. QED BY <3>1, <3>4 DEF rem, rest
  <2>6. op' \in [Users -> OpRec]
    <3>1. op' = [q \in Users |-> op'[q]]
      BY <2>1 DEF Shapes
    <3>. QED BY <3>1, <2>4, <2>5 DEF Shapes
  <2>7. /\ new.uid = op[p].uid /\ new.remain > 0 /\ new.todo = op[p].todo \ {s}
        /\ new.at # "idle"
    BY <2>3
  <2>8. Visits(new, known', stacks')
    BY <2>2, <2>7 DEF Working, Visits, OpRec
  <2> HIDE DEF new
  <2>9. \A q \in Users : mu' = q <=> op'[q].at # "idle"
    BY <2>1, <2>5, <2>7, OthersIdle DEF Working
  <2>10. \A q \in Users : op'[q].at # "idle" => op'[q] = new
    BY <2>5, OthersIdle
  <2>. QED BY <2>6, <2>8, <2>9, <2>10 DEF Working
<1>. QED BY <1>1, <1>2

-----------------------------------------------------------------------------
\* Imports and exports.

\* Whoever begins visits the slots of stacks that the store knows.
LEMMA BeginInv ==
  ASSUME IInv, NEW p \in Users, NEW u \in Items, NEW n \in 1..MaxCount,
         Import(p, u, n) \/ Export(p, u, n)
  PROVE  IInv'
<1>1. PICK l \in {"empty", "fill", "take"}, todo \in {{}, StacksOf(u)} : Begin(p, l, u, n, todo)
  BY DEF Import, Export
<1> DEFINE new == [at |-> l, uid |-> u, remain |-> n, todo |-> todo]
<1>2. /\ mu = Nobody /\ mu' = p /\ op' = [op EXCEPT ![p] = new]
      /\ UNCHANGED <<chest, stacks, used, known, parted>>
  BY <1>1 DEF Begin, store
<1>3. n \in 0..MaxCount /\ n > 0
  BY StoreAssumption
<1>4. todo \subseteq Slots /\ \A s \in todo : s[1] \in known /\ stacks[u][s] > 0
  BY DEF StacksOf, IInv, UnknownClear
<1>5. new \in OpRec /\ Visits(new, known, stacks) /\ new.at # "idle"
  BY <1>3, <1>4 DEF OpRec, Visits
<1> HIDE DEF new
<1>6. op' \in [Users -> OpRec] /\ \A q \in Users : op'[q] = IF q = p THEN new ELSE op[q]
  BY <1>2, <1>5 DEF IInv, Shapes
<1>7. \A q \in Users : op[q].at = "idle"
  BY <1>2, StoreAssumption DEF IInv, Working
<1>8. Working'
  BY <1>2, <1>5, <1>6, <1>7 DEF Working
<1>. QED BY <1>2, <1>6, <1>8 DEF IInv, Shapes, UnknownClear, Exact

\* What comes with an exact slot: a bookkeeping that follows a move into or out
\* of a known slot of the worker's item keeps the rest of the invariant.
LEMMA MoveInv ==
  ASSUME IInv, NEW s \in Slots, s[1] \in known, known' = known,
         chest' \in [Slots -> Contents],
         stacks' \in [Items -> [Slots -> 0..MaxCount]],
         op' \in [Users -> OpRec], Working', Exact',
         \A v \in Items, t \in Slots \ {s} : stacks'[v][t] = stacks[v][t],
         \A t \in Slots \ {s} : t \in used' <=> t \in used
  PROVE  IInv'
<1>1. UnknownClear'
  <2>1. ASSUME NEW t \in Slots, t[1] \notin known'
        PROVE  t \notin used' /\ \A u \in Items : stacks'[u][t] = 0
    BY <2>1 DEF IInv, UnknownClear
  <2>. QED BY <2>1 DEF UnknownClear
<1>. QED BY <1>1 DEF IInv, Shapes

\* What the store remembers of the one item that a slot holds.
LEMMA RememberOne ==
  ASSUME NEW x, NEW u \in Items, NEW k \in Nat \ {0}, NEW y, y = [uid |-> u, n |-> k],
         NEW st, NEW st2, NEW us, NEW us2, NEW s, Remembers(x, st, us, s),
         x.uid \in {u, Nothing},
         \A v \in Items : st2[v][s] = IF v = u THEN k ELSE st[v][s],
         s \in us2
  PROVE  Remembers(y, st2, us2, s)
<1>1. y.uid = u /\ y.n = k /\ y # EmptySlot
  BY StoreAssumption DEF EmptySlot
<1>2. \A v \in Items : v # u => st[v][s] = 0
  BY StoreAssumption DEF Remembers
<1>. QED BY <1>1, <1>2 DEF Remembers

\* How much room there is for an item in a slot.
LEMMA RoomIsThere ==
  ASSUME Shapes, NEW s \in Slots, NEW u \in Items
  PROVE  RoomFor(u, s) \in Int /\ \A m \in Nat \ {0} : m <= RoomFor(u, s) => chest[s].n + m <= MaxCount
<1>1. chest[s].n \in Nat
  BY FullOrEmpty DEF Shapes
<1>. QED BY <1>1 DEF RoomFor

\* What a call may ask for.
LEMMA WantedIsThere ==
  ASSUME IInv, NEW p \in Users, op[p].at # "idle", NEW s \in op[p].todo
  PROVE  /\ Wanted(p, s) \in Int /\ Wanted(p, s) <= op[p].remain
         /\ op[p].at = "fill" => Wanted(p, s) <= MaxCount - stacks[op[p].uid][s]
         /\ op[p].at # "fill" => Wanted(p, s) <= stacks[op[p].uid][s]
<1>1. op[p].remain \in Nat
  BY DEF IInv, Shapes, OpRec
<1>2. stacks[op[p].uid][s] \in Nat
  BY VisitedSlot
<1> DEFINE fits == IF op[p].at = "fill" THEN MaxCount - stacks[op[p].uid][s]
                   ELSE stacks[op[p].uid][s]
<1>3. fits \in Int
  BY <1>2
<1>4. Wanted(p, s) = AtMost(fits, op[p].remain)
  BY DEF Wanted
<1>5. Wanted(p, s) \in Int /\ Wanted(p, s) <= fits /\ Wanted(p, s) <= op[p].remain
  <2> HIDE DEF fits
  <2>. QED BY <1>1, <1>3, <1>4 DEF AtMost
<1>. QED BY <1>5

\* The call of an import that tops up a stack, and what is noted of it.
LEMMA FillCall ==
  ASSUME IInv, NEW p \in Users, NEW s, Fill(p, s)
  PROVE  \E m \in Nat :
           /\ m <= op[p].remain
           /\ m > 0 => chest[s].n + m <= MaxCount
           /\ chest' = IF m > 0 THEN PutInto(s, op[p].uid, m) ELSE chest
           /\ \/ /\ SetStackSize(op[p].uid, s, stacks[op[p].uid][s] + m)
                 /\ stacks[op[p].uid][s] + m <= MaxCount
              \/ m = 0 /\ UNCHANGED store
           /\ Advance(p, s, m)
<1> DEFINE u == op[p].uid
           k == stacks[u][s]
<1>1. op[p].at = "fill" /\ s \in op[p].todo
  BY DEF Fill
<1>2. s \in Slots /\ u \in Items /\ k \in Nat
  BY <1>1, VisitedSlot
<1>3. PICK m \in 0..AtMost(Wanted(p, s), RoomFor(u, s)) :
        /\ chest' = IF m > 0 THEN PutInto(s, u, m) ELSE chest
        /\ IF Wanted(p, s) > 0 THEN SetStackSize(u, s, k + m) ELSE UNCHANGED store
        /\ Advance(p, s, m)
  BY DEF Fill
<1>4. Wanted(p, s) \in Int /\ Wanted(p, s) <= op[p].remain /\ Wanted(p, s) <= MaxCount - k
  BY <1>1, WantedIsThere
<1>5. /\ RoomFor(u, s) \in Int
      /\ \A i \in Nat \ {0} : i <= RoomFor(u, s) => chest[s].n + i <= MaxCount
  BY <1>2, RoomIsThere DEF IInv
<1>6. op[p].remain \in Nat
  BY DEF IInv, Shapes, OpRec
<1>7. AtMost(Wanted(p, s), RoomFor(u, s)) \in Int
      /\ AtMost(Wanted(p, s), RoomFor(u, s)) <= Wanted(p, s)
      /\ AtMost(Wanted(p, s), RoomFor(u, s)) <= RoomFor(u, s)
  BY <1>4, <1>5, AtMostBounds
<1> HIDE DEF u, k
<1>8. /\ m \in Nat /\ m <= op[p].remain
      /\ m <= RoomFor(u, s) /\ m <= Wanted(p, s)
  BY <1>2, <1>3, <1>4, <1>5, <1>6, <1>7
<1>9. m > 0 => chest[s].n + m <= MaxCount
  BY <1>5, <1>8
<1>10. Wanted(p, s) > 0 => k + m <= MaxCount
  BY <1>2, <1>4, <1>8
<1>11. \/ SetStackSize(u, s, k + m) /\ k + m <= MaxCount
       \/ m = 0 /\ UNCHANGED store
  <2>1. CASE Wanted(p, s) > 0
    BY <1>3, <1>10, <2>1
  <2>2. CASE ~(Wanted(p, s) > 0)
    <3>1. m = 0
      BY <1>4, <1>8, <2>2
    <3>. QED BY <1>3, <2>2, <3>1
  <2>. QED BY <2>1, <2>2
<1>. QED BY <1>3, <1>8, <1>9, <1>11 DEF u, k

\* What an import adds to a stack is added to what the store remembers.
LEMMA FillInv ==
  ASSUME IInv, NEW p \in Users, NEW s, Fill(p, s)
  PROVE  IInv'
<1> DEFINE u == op[p].uid
           k == stacks[u][s]
<1>1. op[p].at = "fill" /\ s \in op[p].todo /\ parted' = parted
  BY DEF Fill
<1>2. /\ s \in Slots /\ s[1] \in known /\ u \in Items /\ k \in Nat \ {0}
      /\ ~parted => /\ Remembers(chest[s], stacks, used, s)
                    /\ chest[s] = [uid |-> u, n |-> k] /\ s \in used
  BY <1>1, VisitedSlot
<1>3. PICK m \in Nat :
        /\ m <= op[p].remain
        /\ m > 0 => chest[s].n + m <= MaxCount
        /\ chest' = IF m > 0 THEN PutInto(s, u, m) ELSE chest
        /\ \/ SetStackSize(u, s, k + m) /\ k + m <= MaxCount
           \/ m = 0 /\ UNCHANGED store
        /\ Advance(p, s, m)
  BY FillCall
<1>6. k + m \in Nat \ {0}
  BY <1>2
<1> HIDE DEF u, k
<1>7. /\ chest' \in [Slots -> Contents]
      /\ \A t \in Slots \ {s} : chest'[t] = chest[t]
      /\ m > 0 => chest'[s] = [uid |-> u, n |-> chest[s].n + m]
      /\ m = 0 => chest'[s] = chest[s]
  <2>1. CASE m > 0
    <3>1. m \in Nat \ {0} /\ chest[s].n + m <= MaxCount /\ chest' = PutInto(s, u, m)
      BY <1>3, <2>1
    <3>. QED BY <1>2, <2>1, <3>1, AfterPut DEF IInv
  <2>2. CASE ~(m > 0)
    BY <1>3, <2>2 DEF IInv, Shapes
  <2>. QED BY <2>1, <2>2
<1>8. ~parted => chest'[s] = [uid |-> u, n |-> k + m]
  BY <1>2, <1>6, <1>7
<1>9. /\ stacks' \in [Items -> [Slots -> 0..MaxCount]] /\ known' = known
      /\ \A v \in Items, t \in Slots :
           stacks'[v][t] = IF v = u /\ t = s THEN k + m ELSE stacks[v][t]
      /\ \A t \in Slots \ {s} : t \in used' <=> t \in used
      /\ s \in used => s \in used'
  <2>1. CASE SetStackSize(u, s, k + m) /\ k + m <= MaxCount
    <3>1. k + m \in 0..MaxCount
      BY <1>6, <2>1
    <3>2. PICK a \in 0..MaxCount : a = k + m
      BY <3>1
    <3>. QED BY <1>2, <1>6, <2>1, <3>2, AfterSet DEF IInv
  <2>2. CASE m = 0 /\ UNCHANGED store
    <3>1. m = 0 /\ UNCHANGED <<stacks, used, known>>
      BY <2>2 DEF store
    <3>. QED BY <1>2, <3>1 DEF IInv, Shapes, k
  <2>. QED BY <1>3, <2>1, <2>2
<1>10. op' \in [Users -> OpRec] /\ Working'
  BY <1>1, <1>2, <1>3, <1>6, <1>9, AfterAdvance DEF IInv
<1>11. ASSUME ~parted  PROVE  Remembers(chest'[s], stacks', used', s)
  <2>1. chest[s].uid = u
    BY <1>2, <1>11
  <2>2. \A v \in Items : stacks'[v][s] = IF v = u THEN k + m ELSE stacks[v][s]
    BY <1>2, <1>9
  <2>3. s \in used' /\ chest'[s] = [uid |-> u, n |-> k + m]
    BY <1>2, <1>8, <1>9, <1>11
  <2>. QED BY <1>2, <1>6, <1>11, <2>1, <2>2, <2>3, RememberOne
<1>12. Exact'
  BY <1>1, <1>2, <1>7, <1>9, <1>11, StillExact
<1>. QED BY <1>2, <1>7, <1>9, <1>10, <1>12, MoveInv

\* The call of an export, and what is noted of it.
LEMMA TakeCall ==
  ASSUME IInv, NEW p \in Users, NEW s, Take(p, s)
  PROVE  \E m \in Nat :
           /\ m <= op[p].remain /\ m <= chest[s].n
           /\ stacks[op[p].uid][s] - m \in 0..MaxCount
           /\ chest' = IF m > 0 THEN TakenFrom(s, m) ELSE chest
           /\ SetStackSize(op[p].uid, s, stacks[op[p].uid][s] - m)
           /\ Advance(p, s, m)
<1> DEFINE u == op[p].uid
           k == stacks[u][s]
<1>1. op[p].at = "take" /\ s \in op[p].todo
  BY DEF Take
<1>2. s \in Slots /\ u \in Items /\ k \in 0..MaxCount
  BY <1>1, VisitedSlot DEF IInv, Shapes
<1>3. PICK m \in 0..AtMost(Wanted(p, s), chest[s].n) :
        /\ chest' = IF m > 0 THEN TakenFrom(s, m) ELSE chest
        /\ SetStackSize(u, s, k - m)
        /\ Advance(p, s, m)
  BY DEF Take
<1>4. Wanted(p, s) \in Int /\ Wanted(p, s) <= op[p].remain /\ Wanted(p, s) <= k
  BY <1>1, WantedIsThere
<1>5. op[p].remain \in Nat /\ chest[s].n \in Nat
  BY <1>2, FullOrEmpty DEF IInv, Shapes, OpRec
<1>6. AtMost(Wanted(p, s), chest[s].n) \in Int
      /\ AtMost(Wanted(p, s), chest[s].n) <= Wanted(p, s)
      /\ AtMost(Wanted(p, s), chest[s].n) <= chest[s].n
  BY <1>4, <1>5, AtMostBounds
<1> HIDE DEF u, k
<1>7. m \in Nat /\ m <= op[p].remain /\ m <= chest[s].n /\ k - m \in 0..MaxCount
  BY <1>2, <1>3, <1>4, <1>5, <1>6
<1>. QED BY <1>3, <1>7 DEF u, k

\* What an export takes from a stack is taken off what the store remembers.
LEMMA TakeInv ==
  ASSUME IInv, NEW p \in Users, NEW s, Take(p, s)
  PROVE  IInv'
<1> DEFINE u == op[p].uid
           k == stacks[u][s]
<1>1. op[p].at = "take" /\ s \in op[p].todo /\ parted' = parted
  BY DEF Take
<1>2. /\ s \in Slots /\ s[1] \in known /\ u \in Items /\ k \in Nat \ {0}
      /\ ~parted => /\ Remembers(chest[s], stacks, used, s)
                    /\ chest[s] = [uid |-> u, n |-> k] /\ s \in used
  BY <1>1, VisitedSlot
<1>3. PICK m \in Nat :
        /\ m <= op[p].remain /\ m <= chest[s].n /\ k - m \in 0..MaxCount
        /\ chest' = IF m > 0 THEN TakenFrom(s, m) ELSE chest
        /\ SetStackSize(u, s, k - m)
        /\ Advance(p, s, m)
  BY TakeCall
<1>4. chest[s].n \in Nat
  BY <1>2, FullOrEmpty DEF IInv, Shapes
<1>6. m \in Nat /\ m <= op[p].remain /\ m <= chest[s].n /\ k - m \in 0..MaxCount
  BY <1>3
<1> HIDE DEF u, k
<1>7. /\ chest' \in [Slots -> Contents]
      /\ \A t \in Slots \ {s} : chest'[t] = chest[t]
      /\ m > 0 => chest'[s] = IF m = chest[s].n THEN EmptySlot
                              ELSE [uid |-> chest[s].uid, n |-> chest[s].n - m]
      /\ m = 0 => chest'[s] = chest[s]
  <2>1. CASE m > 0
    <3>1. m \in 1..chest[s].n
      BY <1>4, <1>6, <2>1
    <3>. QED BY <1>2, <1>3, <2>1, <3>1, AfterTake DEF IInv
  <2>2. CASE ~(m > 0)
    BY <1>3, <1>6, <2>2 DEF IInv, Shapes
  <2>. QED BY <2>1, <2>2
<1>8. ~parted => chest'[s] = IF m = k THEN EmptySlot ELSE [uid |-> u, n |-> k - m]
  BY <1>2, <1>6, <1>7
<1>9. /\ stacks' \in [Items -> [Slots -> 0..MaxCount]] /\ known' = known
      /\ \A v \in Items, t \in Slots :
           stacks'[v][t] = IF v = u /\ t = s THEN k - m ELSE stacks[v][t]
      /\ \A t \in Slots \ {s} : t \in used' <=> t \in used
      /\ k - m = 0 => s \notin used'
      /\ k - m > 0 => (s \in used => s \in used')
  <2>1. PICK a \in 0..MaxCount : a = k - m
    BY <1>6
  <2>. QED BY <1>2, <1>3, <2>1, AfterSet DEF IInv
<1>10. op' \in [Users -> OpRec] /\ Working'
  BY <1>1, <1>2, <1>3, <1>6, <1>9, AfterAdvance DEF IInv
<1>11. ASSUME ~parted  PROVE  Remembers(chest'[s], stacks', used', s)
  <2>1. chest[s].uid = u
    BY <1>2, <1>11
  <2>2. \A v \in Items : stacks'[v][s] = IF v = u THEN k - m ELSE stacks[v][s]
    BY <1>2, <1>9
  <2>3. CASE m = k
    <3>1. chest'[s] = EmptySlot /\ s \notin used'
      BY <1>2, <1>6, <1>8, <1>9, <1>11, <2>3
    <3>2. \A v \in Items : v # u => stacks[v][s] = 0
      BY <1>2, <1>11, <2>1 DEF Remembers
    <3>3. \A v \in Items : stacks'[v][s] = 0
      BY <1>2, <2>2, <2>3, <3>2
    <3>. QED BY <3>1, <3>3 DEF Remembers, EmptySlot
  <2>4. CASE m # k
    <3>1. k - m \in Nat \ {0}
      BY <1>2, <1>6, <2>4
    <3>2. s \in used' /\ chest'[s] = [uid |-> u, n |-> k - m]
      BY <1>2, <1>8, <1>9, <1>11, <2>4, <3>1
    <3>. QED BY <1>2, <1>11, <2>1, <2>2, <3>1, <3>2, RememberOne
  <2>. QED BY <2>3, <2>4
<1>12. Exact'
  BY <1>1, <1>2, <1>7, <1>9, <1>11, StillExact
<1>. QED BY <1>2, <1>7, <1>9, <1>10, <1>12, MoveInv

\* The call of an import that starts a stack, and what is noted of it.
LEMMA PlaceCall ==
  ASSUME IInv, NEW p \in Users, NEW s \in Slots, Place(p, s)
  PROVE  /\ op[p].at = "empty" /\ s[1] \in known /\ s \notin used /\ op[p].uid \in Items
         /\ op[p].remain \in 0..MaxCount /\ op[p].remain > 0
         /\ SetStackSize(op[p].uid, s, op[p].remain) /\ Return(p)
         /\ \E m \in Nat :
              /\ m > 0 => chest[s].n + m <= MaxCount
              /\ chest' = IF m > 0 THEN PutInto(s, op[p].uid, m) ELSE chest
              /\ parted' = (parted \/ m # op[p].remain)
<1> DEFINE u == op[p].uid
           n == op[p].remain
<1>1. op[p].at = "empty" /\ s[1] \in known /\ s \notin used /\ Return(p)
      /\ SetStackSize(u, s, n)
  BY DEF Place, EmptySlots
<1>2. u \in Items /\ n \in 0..MaxCount /\ n > 0
  BY <1>1 DEF IInv, Shapes, Working, Visits, OpRec
<1>3. PICK m \in 0..AtMost(n, RoomFor(u, s)) :
        /\ chest' = IF m > 0 THEN PutInto(s, u, m) ELSE chest
        /\ parted' = (parted \/ m # n)
  BY DEF Place
<1> HIDE DEF u, n
<1>4. /\ RoomFor(u, s) \in Int
      /\ \A i \in Nat \ {0} : i <= RoomFor(u, s) => chest[s].n + i <= MaxCount
  BY <1>2, RoomIsThere DEF IInv
<1>5. AtMost(n, RoomFor(u, s)) \in Int /\ AtMost(n, RoomFor(u, s)) <= RoomFor(u, s)
  BY <1>2, <1>4 DEF AtMost
<1>6. m \in Nat /\ m <= RoomFor(u, s)
  BY <1>3, <1>4, <1>5
<1>7. m > 0 => chest[s].n + m <= MaxCount
  BY <1>4, <1>6
<1>. QED BY <1>1, <1>2, <1>3, <1>6, <1>7 DEF u, n

\* A new stack goes into a slot that the store knows to be empty; if less is
\* moved than is noted, the store is no longer exact.
LEMMA PlaceInv ==
  ASSUME IInv, NEW p \in Users, NEW s \in Slots, Place(p, s)
  PROVE  IInv'
<1> DEFINE u == op[p].uid
           n == op[p].remain
<1>1. /\ op[p].at = "empty" /\ s[1] \in known /\ s \notin used /\ Return(p)
      /\ SetStackSize(u, s, n)
  BY PlaceCall
<1>2. u \in Items /\ n \in 0..MaxCount /\ n \in Nat \ {0}
  BY PlaceCall
<1>3. PICK m \in Nat :
        /\ m > 0 => chest[s].n + m <= MaxCount
        /\ chest' = IF m > 0 THEN PutInto(s, u, m) ELSE chest
        /\ parted' = (parted \/ m # n)
  BY PlaceCall
<1> HIDE DEF u, n
<1>5. /\ chest' \in [Slots -> Contents]
      /\ \A t \in Slots \ {s} : chest'[t] = chest[t]
      /\ m > 0 => chest'[s] = [uid |-> u, n |-> chest[s].n + m]
  <2>1. CASE m > 0
    <3>1. m \in Nat \ {0} /\ chest[s].n + m <= MaxCount /\ chest' = PutInto(s, u, m)
      BY <1>3, <2>1
    <3>. QED BY <1>2, <2>1, <3>1, AfterPut DEF IInv
  <2>2. CASE ~(m > 0)
    BY <1>3, <2>2 DEF IInv, Shapes
  <2>. QED BY <2>1, <2>2
<1>6. /\ stacks' \in [Items -> [Slots -> 0..MaxCount]] /\ known' = known
      /\ \A v \in Items, t \in Slots :
           stacks'[v][t] = IF v = u /\ t = s THEN n ELSE stacks[v][t]
      /\ \A t \in Slots \ {s} : t \in used' <=> t \in used
      /\ s \in used' <=> s \in used \/ stacks[u][s] = 0
  <2>1. PICK a \in 0..MaxCount : a = n
    BY <1>2
  <2>. QED BY <1>1, <1>2, <2>1, AfterSet DEF IInv
<1>7. op' \in [Users -> OpRec] /\ Working'
  BY <1>1, AfterReturn DEF IInv
<1>8. ASSUME ~parted'
      PROVE  Exact' /\ ~parted
  <2>1. ~parted /\ m = n
    BY <1>3, <1>8
  <2>2. Remembers(chest[s], stacks, used, s)
    BY <1>1, <2>1 DEF IInv, Exact
  <2>3. chest[s] = EmptySlot /\ \A v \in Items : stacks[v][s] = 0
    BY <1>1, <2>2, StoreAssumption DEF Remembers, EmptySlot
  <2>4. s \in used' /\ chest'[s] = [uid |-> u, n |-> n]
    BY <1>2, <1>5, <1>6, <2>1, <2>3 DEF EmptySlot
  <2>5. \A v \in Items : stacks'[v][s] = IF v = u THEN n ELSE stacks[v][s]
    BY <1>6
  <2>6. chest[s].uid \in {u, Nothing}
    BY <2>3 DEF EmptySlot
  <2>7. Remembers(chest'[s], stacks', used', s)
    BY <1>2, <2>2, <2>4, <2>5, <2>6, RememberOne
  <2>. QED BY <1>5, <1>6, <2>1, <2>7, StillExact
<1>9. Exact'
  BY <1>8 DEF Exact
<1>. QED BY <1>1, <1>5, <1>6, <1>7, <1>9, MoveInv

\* Nothing is noted where no slot is empty.
LEMMA NoPlaceInv ==
  ASSUME IInv, NEW p \in Users, NoPlace(p)
  PROVE  IInv'
<1>1. op[p].at # "idle" /\ Return(p) /\ UNCHANGED <<chest, stacks, used, known, parted>>
  BY DEF NoPlace, store
<1>2. op' \in [Users -> OpRec] /\ Working'
  BY <1>1, AfterReturn DEF IInv
<1>. QED BY <1>1, <1>2 DEF IInv, Shapes, UnknownClear, Exact

\* A call that fails is not noted, whatever it has moved.
LEMMA CallFailsInv ==
  ASSUME IInv, NEW p \in Users, CallFails(p)
  PROVE  IInv'
<1>1. op[p].at # "idle" /\ Return(p) /\ UNCHANGED <<stacks, used, known>>
  BY DEF CallFails, store
<1>2. op' \in [Users -> OpRec] /\ Working'
  BY <1>1, AfterReturn DEF IInv
<1>3. op[p].uid \in Items
  BY <1>1 DEF IInv, Working, Visits
<1>4. CASE UNCHANGED <<chest, parted>>
  BY <1>1, <1>2, <1>4 DEF IInv, Shapes, UnknownClear, Exact
<1>5. CASE parted' = TRUE /\ ~ UNCHANGED chest
  <2>1. chest' \in [Slots -> Contents]
    <3>1. ASSUME NEW s \in Slots, NEW m \in Nat \ {0}, chest[s].n + m <= MaxCount,
                 chest' = PutInto(s, op[p].uid, m)
          PROVE  chest' \in [Slots -> Contents]
      <4>1. PutInto(s, op[p].uid, m) \in [Slots -> Contents]
        BY <1>3, <3>1, AfterPut DEF IInv
      <4>. QED BY <3>1, <4>1
    <3>2. ASSUME NEW s \in Slots, NEW m \in 1..chest[s].n, chest' = TakenFrom(s, m)
          PROVE  chest' \in [Slots -> Contents]
      <4>1. TakenFrom(s, m) \in [Slots -> Contents]
        BY <3>2, AfterTake DEF IInv
      <4>. QED BY <3>2, <4>1
    <3>3. ASSUME NEW s \in Slots, NEW w \in Int, NEW m \in 1..AtMost(w, RoomFor(op[p].uid, s))
          PROVE  m \in Nat \ {0} /\ chest[s].n + m <= MaxCount
      <4>1. /\ RoomFor(op[p].uid, s) \in Int
            /\ \A i \in Nat \ {0} : i <= RoomFor(op[p].uid, s) => chest[s].n + i <= MaxCount
        BY <1>3, RoomIsThere DEF IInv
      <4>2. AtMost(w, RoomFor(op[p].uid, s)) \in Int
            /\ AtMost(w, RoomFor(op[p].uid, s)) <= RoomFor(op[p].uid, s)
        BY <4>1, AtMostBounds
      <4>3. m \in Nat \ {0} /\ m <= RoomFor(op[p].uid, s)
        BY <4>1, <4>2
      <4>. QED BY <4>1, <4>3
    <3>4. ASSUME NEW s \in op[p].todo, NEW m \in 1..AtMost(Wanted(p, s), RoomFor(op[p].uid, s)),
                 chest' = PutInto(s, op[p].uid, m)
          PROVE  chest' \in [Slots -> Contents]
      <4>1. s \in Slots /\ Wanted(p, s) \in Int
        BY <1>1, VisitedSlot, WantedIsThere
      <4>2. m \in Nat \ {0} /\ chest[s].n + m <= MaxCount
        BY <3>3, <4>1
      <4>. QED BY <3>1, <3>4, <4>1, <4>2
    <3>5. ASSUME NEW s \in op[p].todo, NEW m \in 1..AtMost(Wanted(p, s), chest[s].n),
                 chest' = TakenFrom(s, m)
          PROVE  chest' \in [Slots -> Contents]
      <4>1. s \in Slots /\ Wanted(p, s) \in Int
        BY <1>1, VisitedSlot, WantedIsThere
      <4>2. chest[s].n \in Int
        BY <4>1, FullOrEmpty DEF IInv, Shapes
      <4>3. AtMost(Wanted(p, s), chest[s].n) \in Int
            /\ AtMost(Wanted(p, s), chest[s].n) <= chest[s].n
        BY <4>1, <4>2, AtMostBounds
      <4>4. m \in 1..chest[s].n
        BY <4>2, <4>3
      <4>. QED BY <3>2, <3>5, <4>1, <4>4
    <3>6. ASSUME NEW s \in EmptySlots, NEW m \in 1..AtMost(op[p].remain, RoomFor(op[p].uid, s)),
                 chest' = PutInto(s, op[p].uid, m)
          PROVE  chest' \in [Slots -> Contents]
      <4>1. s \in Slots /\ op[p].remain \in Int
        BY DEF EmptySlots, IInv, Shapes, OpRec
      <4>2. m \in Nat \ {0} /\ chest[s].n + m <= MaxCount
        BY <3>3, <4>1
      <4>. QED BY <3>1, <3>6, <4>1, <4>2
    <3>. QED BY <1>5, <3>4, <3>5, <3>6 DEF CallFails
  <2>. QED BY <1>1, <1>2, <1>5, <2>1 DEF IInv, Shapes, UnknownClear, Exact
<1>6. CASE parted' = TRUE /\ UNCHANGED chest
  BY <1>1, <1>2, <1>6 DEF IInv, Shapes, UnknownClear, Exact
<1>. QED BY <1>4, <1>5, <1>6 DEF CallFails

-----------------------------------------------------------------------------
\* The sync, and others who use the chests.

\* Listing the chests leaves the store alone.
LEMMA ListInv ==
  ASSUME IInv, NEW q \in Syncers, List(q)
  PROVE  IInv'
<1>1. UNCHANGED <<chest, stacks, used, known, mu, op, parted>>
  BY DEF List, store
<1>. QED BY <1>1 DEF IInv, Shapes, Working, UnknownClear, Exact

\* Of a store that is cleared nothing is wrong.
LEMMA ClearInv ==
  ASSUME IInv, NEW q \in Syncers, Clear(q)
  PROVE  IInv'
<1>1. /\ mu = Nobody /\ stacks' = [u \in Items |-> [s \in Slots |-> 0]]
      /\ used' = {} /\ known' = {} /\ UNCHANGED <<chest, mu, op>>
  BY DEF Clear
<1>2. stacks' \in [Items -> [Slots -> 0..MaxCount]]
      /\ \A u \in Items, s \in Slots : stacks'[u][s] = 0
  BY <1>1
<1>3. \A p \in Users : op[p].at = "idle"
  BY <1>1, StoreAssumption DEF IInv, Working
<1>. QED BY <1>1, <1>2, <1>3 DEF IInv, Shapes, Working, UnknownClear, Exact

\* A chest is added as it was listed: if that is what it holds, the store is
\* exact for it, also if another sync has added it already.
LEMMA AddInv ==
  ASSUME IInv, NEW q \in Syncers, NEW c \in Chests, Add(q, c),
         \A s \in In(c) : sync[q].listing[s] \in Contents
  PROVE  IInv'
<1> DEFINE l == sync[q].listing
<1>1. /\ mu = Nobody /\ known' = known \union {c}
      /\ used' = used \union {s \in In(c) : l[s] # EmptySlot}
      /\ stacks' = [u \in Items |-> [s \in Slots |->
                       IF s \in Listed(l, c, u) THEN l[s].n ELSE stacks[u][s]]]
      /\ ~parted' => ~parted /\ \A s \in In(c) : l[s] = chest[s]
      /\ UNCHANGED <<chest, mu, op>>
  BY DEF Add
<1>2. \A s \in In(c) : l[s] \in Contents
  OBVIOUS
<1> HIDE DEF l
<1>3. \A s \in In(c) : l[s].n \in 0..MaxCount
  BY <1>2, FullOrEmpty
<1>4. /\ stacks' \in [Items -> [Slots -> 0..MaxCount]]
      /\ \A u \in Items, s \in Slots :
           stacks'[u][s] = IF s[1] = c /\ l[s].uid = u THEN l[s].n ELSE stacks[u][s]
  BY <1>1, <1>3 DEF Listed, In, IInv, Shapes
<1>5. \A p \in Users : op[p].at = "idle"
  BY <1>1, StoreAssumption DEF IInv, Working
<1>6. Shapes' /\ Working'
  BY <1>1, <1>4, <1>5 DEF IInv, Shapes, Working
<1>7. UnknownClear'
  BY <1>1, <1>4 DEF IInv, UnknownClear, In
<1>8. ASSUME ~parted', NEW s \in Slots, s[1] \in known'
      PROVE  Remembers(chest'[s], stacks', used', s)
  <2>1. CASE s[1] # c
    BY <1>1, <1>4, <1>8, <2>1 DEF IInv, Exact, Remembers, In
  <2>2. CASE s[1] = c
    <3>1. l[s] = chest[s] /\ ~parted
      BY <1>1, <1>8, <2>2 DEF In
    <3>2. \/ Remembers(chest[s], stacks, used, s)
          \/ s \notin used /\ \A u \in Items : stacks[u][s] = 0
      BY <3>1 DEF IInv, Exact, UnknownClear
    <3>3. \A u \in Items : stacks'[u][s] = IF chest[s].uid = u THEN chest[s].n ELSE 0
      BY <1>4, <2>2, <3>1, <3>2 DEF Remembers
    <3>4. s \in used' <=> s \in used \/ chest[s] # EmptySlot
      BY <1>1, <2>2, <3>1 DEF In
    <3>5. s \in used' <=> chest[s] # EmptySlot
      BY <3>2, <3>4 DEF Remembers
    <3>. QED BY <1>1, <3>3, <3>5 DEF Remembers
  <2>. QED BY <2>1, <2>2
<1>9. Exact'
  BY <1>8 DEF Exact
<1>. QED BY <1>6, <1>7, <1>9 DEF IInv

\* What somebody takes from a chest that the store knows parts them.
LEMMA TakeOutsideInv ==
  ASSUME IInv, NEW s \in Slots, TakeOutside(s)
  PROVE  IInv'
<1>1. /\ chest' = [chest EXCEPT ![s] = EmptySlot] /\ parted' = (parted \/ s[1] \in known)
      /\ UNCHANGED <<stacks, used, known, mu, op>>
  BY DEF TakeOutside, store
<1>2. /\ chest' \in [Slots -> Contents]
      /\ \A t \in Slots \ {s} : chest'[t] = chest[t]
  BY <1>1, FullOrEmpty DEF IInv, Shapes
<1>3. Exact'
  BY <1>1, <1>2 DEF IInv, Exact, Remembers
<1>. QED BY <1>1, <1>2, <1>3 DEF IInv, Shapes, Working, UnknownClear

\* What a sync has still to add is a listing of stacks and empty slots.
ToAdd(y) ==
  /\ y = [at |-> y.at, listing |-> y.listing, todo |-> y.todo]
  /\ \A s \in Slots : y.at = "listed" \/ (y.at = "adding" /\ s[1] \in y.todo)
                     => y.listing[s] \in Contents

Listings ==
  /\ sync = [q \in Syncers |-> sync[q]]
  /\ \A q \in Syncers : ToAdd(sync[q])

\* The listing of a sync stays what it is, but for the chests it has added.
LEMMA SyncListings ==
  ASSUME Shapes, Listings, NEW q \in Syncers, Sync(q)
  PROVE  Listings'
<1>1. ASSUME NEW y, sync' = [sync EXCEPT ![q] = y], ToAdd(y)
      PROVE  Listings'
  <2>1. sync' = [r \in Syncers |-> sync'[r]]
        /\ \A r \in Syncers : sync'[r] = IF r = q THEN y ELSE sync[r]
    BY <1>1 DEF Listings
  <2>2. ASSUME NEW r \in Syncers  PROVE  ToAdd(sync'[r])
    BY <1>1, <2>1 DEF Listings
  <2>3. ASSUME NEW r \in Syncers  PROVE  ToAdd(sync[r])'
    BY <2>2 DEF ToAdd
  <2>. QED BY <2>1, <2>3 DEF Listings
<1>2. CASE List(q)
  <2> DEFINE y == [at |-> "listed", listing |-> chest, todo |-> {}]
  <2>1. sync' = [sync EXCEPT ![q] = y]
    BY <1>2 DEF List
  <2>2. ToAdd(y)
    BY DEF Shapes, ToAdd
  <2> HIDE DEF y
  <2>. QED BY <1>1, <2>1, <2>2
<1>3. CASE Clear(q)
  <2> DEFINE l == sync[q].listing
             y == [at |-> "adding", listing |-> l, todo |-> Chests]
  <2>1. sync[q].at = "listed" /\ sync' = [sync EXCEPT ![q].at = "adding", ![q].todo = Chests]
    BY <1>3 DEF Clear
  <2>2. sync[q] = [at |-> "listed", listing |-> l, todo |-> sync[q].todo]
        /\ \A s \in Slots : l[s] \in Contents
    BY <2>1 DEF Listings, ToAdd
  <2> HIDE DEF l
  <2>3. ToAdd(y)
    BY <2>2 DEF ToAdd
  <2>4. sync' = [sync EXCEPT ![q] = y]
    <3> DEFINE f1 == [sync EXCEPT ![q].at = "adding"]
               f2 == [f1 EXCEPT ![q].todo = Chests]
    <3>1. sync' = f2
      BY <2>1
    <3>2. /\ f1 = [r \in Syncers |-> f1[r]]
          /\ f1[q] = [at |-> "adding", listing |-> l, todo |-> sync[q].todo]
          /\ \A r \in Syncers \ {q} : f1[r] = sync[r]
      BY <2>2 DEF Listings
    <3> HIDE DEF f1
    <3>3. /\ f2 = [r \in Syncers |-> f2[r]] /\ f2[q] = y
          /\ \A r \in Syncers \ {q} : f2[r] = sync[r]
      BY <3>2
    <3> HIDE DEF f2, y
    <3>. QED BY <3>1, <3>3 DEF Listings
  <2> HIDE DEF y
  <2>. QED BY <1>1, <2>3, <2>4
<1>4. CASE \E c \in Chests : Add(q, c)
  <2>1. PICK c \in Chests : Add(q, c)
    BY <1>4
  <2> DEFINE l == sync[q].listing
             z == [at |-> "adding", todo |-> sync[q].todo \ {c},
                   listing |-> Restrict(l, Slots \ In(c))]
             y == IF sync[q].todo = {c} THEN IdleSync ELSE z
  <2>2. sync[q].at = "adding" /\ sync' = [sync EXCEPT ![q] = y]
    BY <2>1 DEF Add
  <2>3. \A s \in Slots : s[1] \in sync[q].todo => l[s] \in Contents
    BY <2>2 DEF Listings, ToAdd
  <2> HIDE DEF l
  <2>4. ToAdd(z)
    <3>1. \A s \in Slots : s[1] \in z.todo => s \in Slots \ In(c)
      BY DEF In
    <3>2. \A s \in Slots \ In(c) : z.listing[s] = l[s]
      BY DEF Restrict
    <3>. QED BY <2>3, <3>1, <3>2 DEF ToAdd
  <2>5. ToAdd(IdleSync)
    BY DEF ToAdd, IdleSync
  <2> HIDE DEF z
  <2>6. ToAdd(y)
    BY <2>4, <2>5
  <2> HIDE DEF y
  <2>. QED BY <1>1, <2>2, <2>6
<1>. QED BY <1>2, <1>3, <1>4 DEF Sync

\* The sync keeps the invariant.
LEMMA SyncInv ==
  ASSUME IInv, Listings, NEW q \in Syncers, Sync(q)
  PROVE  IInv'
<1>1. ASSUME NEW c \in Chests, Add(q, c)
      PROVE  \A s \in In(c) : sync[q].listing[s] \in Contents
  BY <1>1 DEF Add, In, Listings, ToAdd
<1>. QED BY <1>1, ListInv, ClearInv, AddInv DEF Sync

\* A user's step keeps the invariant, and no listing is touched by it.
LEMMA UserInv ==
  ASSUME IInv, NEW p \in Users,
         \/ Step(p) \/ CallFails(p)
         \/ \E u \in Items, n \in 1..MaxCount : Import(p, u, n) \/ Export(p, u, n)
  PROVE  IInv' /\ sync' = sync
<1>1. CASE \E u \in Items, n \in 1..MaxCount : Import(p, u, n) \/ Export(p, u, n)
  BY <1>1, BeginInv DEF Import, Export, Begin
<1>2. CASE Step(p)
  BY <1>2, FillInv, TakeInv, PlaceInv, NoPlaceInv DEF Step, Fill, Take, Place, NoPlace
<1>3. CASE CallFails(p)
  BY <1>3, CallFailsInv DEF CallFails
<1>. QED BY <1>1, <1>2, <1>3

\* The invariant holds at first.
LEMMA InitInv == Init => IInv /\ Listings
<1> SUFFICES ASSUME Init PROVE IInv /\ Listings
  OBVIOUS
<1>1. chest \in [Slots -> Contents]
  BY DEF Init, Contents
<1>2. /\ stacks \in [Items -> [Slots -> 0..MaxCount]]
      /\ \A u \in Items, s \in Slots : stacks[u][s] = 0
      /\ used = {} /\ known = {}
  BY DEF Init
<1>3. IdleOp \in OpRec /\ IdleOp.at = "idle" /\ ToAdd(IdleSync)
  BY DEF IdleOp, OpRec, IdleSync, ToAdd
<1>4. op = [p \in Users |-> IdleOp] /\ sync = [q \in Syncers |-> IdleSync]
  BY DEF Init
<1>5. mu = Nobody /\ Nobody \notin Users
  BY StoreAssumption DEF Init
<1>. QED BY <1>1, <1>2, <1>3, <1>4, <1>5
         DEF IInv, Shapes, Working, UnknownClear, Exact, Listings

\* Every step keeps the invariant.
LEMMA NextInv == IInv /\ Listings /\ [Next]_vars => IInv' /\ Listings'
<1> SUFFICES ASSUME IInv, Listings, [Next]_vars PROVE IInv' /\ Listings'
  OBVIOUS
<1>1. CASE UNCHANGED vars
  BY <1>1 DEF vars, store, IInv, Shapes, Working, Visits, UnknownClear, Exact, Remembers,
              Listings, ToAdd
<1>2. ASSUME IInv', sync' = sync  PROVE IInv' /\ Listings'
  BY <1>2 DEF Listings, ToAdd
<1>3. ASSUME NEW p \in Users,
             \/ Step(p) \/ CallFails(p)
             \/ \E u \in Items, n \in 1..MaxCount : Import(p, u, n) \/ Export(p, u, n)
      PROVE  IInv' /\ Listings'
  BY <1>2, <1>3, UserInv
<1>4. ASSUME NEW q \in Syncers, Sync(q)  PROVE  IInv' /\ Listings'
  BY <1>4, SyncInv, SyncListings DEF IInv
<1>5. ASSUME NEW s \in Slots, TakeOutside(s)  PROVE  IInv' /\ Listings'
  BY <1>2, <1>5, TakeOutsideInv DEF TakeOutside
<1>. QED BY <1>1, <1>3, <1>4, <1>5 DEF Next

\* What the store remembers of a chest is what is in it, until one of the named
\* faults happens and again after the next sync (StoreExact): whatever users and
\* syncs overlap, whatever calls move, and in whatever order slots are visited.
THEOREM CacheExact == Spec => []StoreExact
<1>1. IInv => StoreExact
  <2> SUFFICES ASSUME IInv, ~parted, NEW c \in known, NEW s \in In(c)
               PROVE  /\ \A u \in Items : stacks[u][s] = IF chest[s].uid = u THEN chest[s].n ELSE 0
                      /\ s \in used <=> chest[s] # EmptySlot
    BY DEF StoreExact
  <2>. QED BY DEF IInv, Exact, Remembers, In
<1>. QED BY InitInv, NextInv, <1>1, PTL DEF Spec

-----------------------------------------------------------------------------
\* What the counts add up to.

CountTypes ==
  /\ used \subseteq Slots /\ known \subseteq Chests
  /\ free \in [Chests -> Int] /\ stats \in [Items -> Int]
  /\ parted \in BOOLEAN /\ twice \in BOOLEAN

\* The statistics count what is remembered; a chest that was added twice may be
\* counted twice, but nothing is ever left out.
StatsCover ==
  \A u \in Items : /\ stats[u] >= SumOver(stacks[u], Slots)
                   /\ ~twice => stats[u] = SumOver(stacks[u], Slots)

OneItem ==
  ~twice => \A s \in Slots :
    /\ s \notin used => \A u \in Items : stacks[u][s] = 0
    /\ s \in used => \E u \in Items : /\ stacks[u][s] > 0
                                      /\ \A v \in Items \ {u} : stacks[v][s] = 0

FreeCount ==
  ~twice => \A c \in known : free[c] = Size[c] - Cardinality(used \intersect In(c))

Counts == CountTypes /\ StatsCover /\ OneItem /\ FreeCount

\* Chests have finitely many slots.
LEMMA SlotsFinite == IsFiniteSet(Slots)
<1> DEFINE slotsOf == [c \in Chests |-> {c} \X (1..Size[c])]
           all == {{c} \X (1..Size[c]) : c \in Chests}
<1>1. slotsOf \in Surjection(Chests, all)
  BY DEF Surjection
<1>2. IsFiniteSet(all)
  <2> HIDE DEF slotsOf, all
  <2>. QED BY <1>1, StoreAssumption, FS_Surjection
<1>3. ASSUME NEW T \in all  PROVE IsFiniteSet(T)
  <2>1. PICK c \in Chests : T = {c} \X (1..Size[c])
    BY <1>3
  <2>2. IsFiniteSet({c})
    BY FS_Singleton
  <2>3. IsFiniteSet(1..Size[c])
    <3>1. PICK k \in Int : k = Size[c]
      BY StoreAssumption
    <3>2. IsFiniteSet(1..k)
      BY FS_Interval
    <3>. QED BY <3>1, <3>2
  <2>. QED BY <2>1, <2>2, <2>3, FS_Product
<1> HIDE DEF all
<1>4. IsFiniteSet(UNION all)
  BY <1>2, <1>3, FS_UNION
<1>. QED BY <1>4 DEF Slots, all

\* A slot is in one chest.
LEMMA SlotOfChest ==
  /\ \A s \in Slots : s[1] \in Chests /\ s \in In(s[1])
  /\ \A c, s : s \in In(c) <=> s \in Slots /\ s[1] = c
BY DEF Slots, In

\* The slots that are in use are finitely many, in every chest.
LEMMA UsedFinite ==
  ASSUME NEW us, us \subseteq Slots, NEW c
  PROVE  /\ IsFiniteSet(us \intersect In(c))
         /\ Cardinality(us \intersect In(c)) \in Nat
<1>1. us \intersect In(c) \subseteq Slots
  OBVIOUS
<1>2. IsFiniteSet(us \intersect In(c))
  BY <1>1, SlotsFinite, FS_Subset
<1>. QED BY <1>2, FS_CardinalityType

\* setStackSize keeps the statistics at what is remembered.
LEMMA SetStats ==
  ASSUME IInv, Counts, NEW s \in Slots, NEW u \in Items, NEW a \in 0..MaxCount,
         SetStackSize(u, s, a), twice' = twice
  PROVE  stats' \in [Items -> Int] /\ StatsCover'
<1>1. /\ stacks' \in [Items -> [Slots -> 0..MaxCount]]
      /\ \A v \in Items, t \in Slots :
           stacks'[v][t] = IF v = u /\ t = s THEN a ELSE stacks[v][t]
  BY AfterSet DEF IInv
<1>2. stacks \in [Items -> [Slots -> 0..MaxCount]] /\ stats \in [Items -> Int]
  BY DEF IInv, Shapes, Counts, CountTypes
<1>3. stats' = [stats EXCEPT ![u] = stats[u] + a - stacks[u][s]]
  BY DEF SetStackSize
<1>4. stats' \in [Items -> Int]
      /\ \A v \in Items : stats'[v] = IF v = u THEN stats[u] + a - stacks[u][s] ELSE stats[v]
  BY <1>2, <1>3
<1>5. ASSUME NEW v \in Items, v # u
      PROVE  SumOver(stacks'[v], Slots) = SumOver(stacks[v], Slots)
  <2>1. PICK f, h : f = stacks[v] /\ h = stacks'[v]
    OBVIOUS
  <2>2. \A t \in Slots : f[t] \in Int /\ h[t] = f[t]
    BY <1>1, <1>2, <1>5, <2>1
  <2>3. SumOver(h, Slots) = SumOver(f, Slots)
    BY <2>2, SlotsFinite, SumOverSame
  <2>. QED BY <2>1, <2>3
<1>6. SumOver(stacks'[u], Slots) = SumOver(stacks[u], Slots) + (a - stacks[u][s])
  <2>1. PICK f, h : f = stacks[u] /\ h = stacks'[u]
    OBVIOUS
  <2>2. /\ \A t \in Slots : f[t] \in Int /\ h[t] \in Int
        /\ \A t \in Slots \ {s} : h[t] = f[t]
        /\ h[s] = a
    BY <1>1, <1>2, <2>1
  <2>3. SumOver(h, Slots) = SumOver(f, Slots) + (h[s] - f[s])
    BY <2>2, SlotsFinite, SumOverUpdate
  <2>. QED BY <2>1, <2>2, <2>3
<1>7. \A v \in Items : SumOver(stacks[v], Slots) \in Int
  <2>1. ASSUME NEW v \in Items  PROVE SumOver(stacks[v], Slots) \in Int
    <3>1. PICK f : f = stacks[v]
      OBVIOUS
    <3>2. \A t \in Slots : f[t] \in Int
      BY <1>2, <3>1
    <3>3. SumOver(f, Slots) \in Int
      BY <3>2, SlotsFinite, SumOverIsInt
    <3>. QED BY <3>1, <3>3
  <2>. QED BY <2>1
<1>8. stacks[u][s] \in Int
  BY <1>2
<1>9. ASSUME NEW v \in Items
      PROVE  /\ stats'[v] >= SumOver(stacks'[v], Slots)
             /\ ~twice' => stats'[v] = SumOver(stacks'[v], Slots)
  <2>1. CASE v = u
    BY <1>2, <1>4, <1>6, <1>7, <1>8, <2>1 DEF Counts, StatsCover
  <2>2. CASE v # u
    BY <1>4, <1>5, <2>2 DEF Counts, StatsCover
  <2>. QED BY <2>1, <2>2
<1>. QED BY <1>4, <1>9 DEF StatsCover

\* setStackSize keeps slots in use for one item, and the free ones counted.
LEMMA SetSlots ==
  ASSUME IInv, Counts, NEW s \in Slots, s[1] \in known, NEW u \in Items, NEW a \in 0..MaxCount,
         SetStackSize(u, s, a), twice' = twice,
         stacks[u][s] > 0 \/ (s \notin used /\ a > 0)
  PROVE  OneItem' /\ FreeCount'
<1>1. /\ \A v \in Items, t \in Slots :
           stacks'[v][t] = IF v = u /\ t = s THEN a ELSE stacks[v][t]
      /\ known' = known
      /\ \A t \in Slots : t # s => (t \in used' <=> t \in used)
      /\ a = 0 => s \notin used'
      /\ a > 0 => (s \in used' <=> s \in used \/ stacks[u][s] = 0)
  BY AfterSet DEF IInv
<1>2. stacks[u][s] \in Nat /\ a \in Nat /\ used \subseteq Slots /\ free \in [Chests -> Int]
  BY DEF IInv, Shapes, Counts, CountTypes
<1>3. ASSUME ~twice
      PROVE  /\ stacks[u][s] > 0 <=> s \in used
             /\ \A v \in Items \ {u} : stacks[v][s] = 0
  <2>1. /\ s \notin used => \A v \in Items : stacks[v][s] = 0
        /\ s \in used => \E v \in Items : /\ stacks[v][s] > 0
                                          /\ \A w \in Items \ {v} : stacks[w][s] = 0
    BY <1>3 DEF Counts, OneItem
  <2>. QED BY <1>2, <2>1
<1>4. OneItem'
  <2>1. ASSUME ~twice, NEW t \in Slots
        PROVE  /\ t \notin used' => \A v \in Items : stacks'[v][t] = 0
               /\ t \in used' => \E v \in Items : /\ stacks'[v][t] > 0
                                                  /\ \A w \in Items \ {v} : stacks'[w][t] = 0
    <3>1. CASE t # s
      <4>1. /\ t \notin used => \A v \in Items : stacks[v][t] = 0
            /\ t \in used => \E v \in Items : /\ stacks[v][t] > 0
                                              /\ \A w \in Items \ {v} : stacks[w][t] = 0
        BY <2>1 DEF Counts, OneItem
      <4>. QED BY <1>1, <3>1, <4>1
    <3>2. CASE t = s
      <4>1. \A v \in Items \ {u} : stacks'[v][s] = 0
        BY <1>1, <1>3, <2>1
      <4>2. stacks'[u][s] = a
        BY <1>1
      <4>3. s \in used' <=> a > 0
        BY <1>1, <1>2, <1>3, <2>1
      <4>. QED BY <1>2, <3>2, <4>1, <4>2, <4>3
    <3>. QED BY <3>1, <3>2
  <2>2. twice' = twice
    OBVIOUS
  <2>. QED BY <2>1, <2>2 DEF OneItem
<1>5. FreeCount'
  <2> SUFFICES ASSUME ~twice, NEW c \in known
               PROVE  free'[c] = Size[c] - Cardinality(used' \intersect In(c))
    BY <1>1 DEF FreeCount
  <2>1. c \in Chests /\ Size[c] \in Nat
        /\ free[c] = Size[c] - Cardinality(used \intersect In(c))
    BY StoreAssumption DEF Counts, CountTypes, FreeCount
  <2>2. free' = [free EXCEPT ![s[1]] =
                   IF a = 0 THEN @ + 1 ELSE IF stacks[u][s] = 0 THEN @ - 1 ELSE @]
    BY DEF SetStackSize
  <2>3. used' = IF a > 0 THEN IF stacks[u][s] = 0 THEN used \union {s} ELSE used ELSE used \ {s}
    BY DEF SetStackSize
  <2>4. IsFiniteSet(used \intersect In(c)) /\ Cardinality(used \intersect In(c)) \in Nat
    BY <1>2, UsedFinite
  <2>5. CASE c # s[1]
    <3>1. free'[c] = free[c]
      BY <1>2, <2>1, <2>2, <2>5
    <3>2. s \notin In(c)
      BY <2>5, SlotOfChest
    <3>3. used' \intersect In(c) = used \intersect In(c)
      BY <2>3, <3>2
    <3>. QED BY <2>1, <3>1, <3>3
  <2>6. CASE c = s[1]
    <3>1. s \in In(c)
      BY <2>6, SlotOfChest
    <3>2. free'[c] = IF a = 0 THEN free[c] + 1 ELSE IF stacks[u][s] = 0 THEN free[c] - 1 ELSE free[c]
      BY <1>2, <2>1, <2>2, <2>6
    <3>3. CASE a = 0
      <4>1. s \in used
        BY <1>2, <1>3, <3>3
      <4>2. used' \intersect In(c) = (used \intersect In(c)) \ {s}
        BY <2>3, <3>3
      <4>3. Cardinality(used' \intersect In(c)) = Cardinality(used \intersect In(c)) - 1
        BY <2>4, <3>1, <4>1, <4>2, FS_RemoveElement
      <4>. QED BY <2>1, <2>4, <3>2, <3>3, <4>3
    <3>4. CASE a # 0 /\ stacks[u][s] = 0
      <4>1. s \notin used /\ a > 0
        BY <1>2, <1>3, <3>4
      <4>2. used' \intersect In(c) = (used \intersect In(c)) \union {s}
        BY <2>3, <3>1, <3>4, <4>1
      <4>3. Cardinality(used' \intersect In(c)) = Cardinality(used \intersect In(c)) + 1
        BY <2>4, <4>1, <4>2, FS_AddElement
      <4>. QED BY <2>1, <2>4, <3>2, <3>4, <4>3
    <3>5. CASE a # 0 /\ stacks[u][s] # 0
      <4>1. used' = used
        BY <1>2, <2>3, <3>5
      <4>. QED BY <2>1, <3>2, <3>5, <4>1
    <3>. QED BY <3>3, <3>4, <3>5
  <2>. QED BY <2>5, <2>6
<1>. QED BY <1>4, <1>5

\* So setStackSize keeps all counts.
LEMMA SetCounts ==
  ASSUME IInv, Counts, NEW s \in Slots, s[1] \in known, NEW u \in Items, NEW a \in 0..MaxCount,
         SetStackSize(u, s, a), twice' = twice, parted' \in BOOLEAN,
         stacks[u][s] > 0 \/ (s \notin used /\ a > 0)
  PROVE  Counts'
<1>1. stats' \in [Items -> Int] /\ StatsCover'
  BY SetStats
<1>2. OneItem' /\ FreeCount'
  BY SetSlots
<1>3. used' \subseteq Slots /\ known' \subseteq Chests
  BY DEF Counts, CountTypes, SetStackSize
<1>4. free' \in [Chests -> Int]
  <2>1. \E k \in Int : free' = [free EXCEPT ![s[1]] = k]
    <3>1. free[s[1]] \in Int
      BY SlotOfChest DEF Counts, CountTypes
    <3>2. free' = [free EXCEPT ![s[1]] =
                     IF a = 0 THEN free[s[1]] + 1
                     ELSE IF stacks[u][s] = 0 THEN free[s[1]] - 1 ELSE free[s[1]]]
      BY DEF SetStackSize
    <3>3. PICK k : k = IF a = 0 THEN free[s[1]] + 1
                       ELSE IF stacks[u][s] = 0 THEN free[s[1]] - 1 ELSE free[s[1]]
      OBVIOUS
    <3>4. k \in Int
      BY <3>1, <3>3
    <3>. QED BY <3>2, <3>3, <3>4
  <2>. QED BY <2>1 DEF Counts, CountTypes
<1>5. twice' \in BOOLEAN
  BY DEF Counts, CountTypes
<1>. QED BY <1>1, <1>2, <1>3, <1>4, <1>5 DEF Counts, CountTypes

\* What does not touch the store leaves the counts alone.
LEMMA SameCounts ==
  ASSUME Counts, UNCHANGED <<store, twice>>, parted' \in BOOLEAN
  PROVE  Counts'
BY DEF store, Counts, CountTypes, StatsCover, OneItem, FreeCount, In

\* The steps of imports and exports.
LEMMA UserCounts ==
  ASSUME IInv, Counts, NEW p \in Users,
         \/ Step(p) \/ CallFails(p)
         \/ \E u \in Items, n \in 1..MaxCount : Import(p, u, n) \/ Export(p, u, n)
  PROVE  Counts'
<1>0. parted \in BOOLEAN
  BY DEF Counts, CountTypes
<1>1. CASE \E u \in Items, n \in 1..MaxCount : Import(p, u, n) \/ Export(p, u, n)
  BY <1>0, <1>1, SameCounts DEF Import, Export, Begin
<1>2. CASE NoPlace(p)
  BY <1>0, <1>2, SameCounts DEF NoPlace
<1>3. CASE CallFails(p)
  BY <1>0, <1>3, SameCounts DEF CallFails
<1>4. ASSUME NEW s \in Slots, Fill(p, s)  PROVE Counts'
  <2>1. op[p].at = "fill" /\ s \in op[p].todo /\ UNCHANGED <<parted, twice>>
    BY <1>4 DEF Fill
  <2>2. /\ s[1] \in known /\ op[p].uid \in Items
        /\ stacks[op[p].uid][s] \in Nat \ {0}
    BY <2>1, VisitedSlot
  <2>3. PICK m \in Nat :
          \/ /\ SetStackSize(op[p].uid, s, stacks[op[p].uid][s] + m)
             /\ stacks[op[p].uid][s] + m <= MaxCount
          \/ m = 0 /\ UNCHANGED store
    BY <1>4, FillCall
  <2>4. CASE UNCHANGED store
    BY <1>0, <2>1, <2>4, SameCounts
  <2>5. CASE /\ SetStackSize(op[p].uid, s, stacks[op[p].uid][s] + m)
             /\ stacks[op[p].uid][s] + m <= MaxCount
    <3>1. PICK a \in 0..MaxCount : a = stacks[op[p].uid][s] + m
      BY <2>2, <2>5
    <3>. QED BY <1>0, <2>1, <2>2, <2>5, <3>1, SetCounts
  <2>. QED BY <2>3, <2>4, <2>5
<1>5. ASSUME NEW s \in Slots, Take(p, s)  PROVE Counts'
  <2>1. op[p].at = "take" /\ s \in op[p].todo /\ UNCHANGED <<parted, twice>>
    BY <1>5 DEF Take
  <2>2. /\ s[1] \in known /\ op[p].uid \in Items
        /\ stacks[op[p].uid][s] \in Nat \ {0}
    BY <2>1, VisitedSlot
  <2>3. PICK m \in Nat : /\ stacks[op[p].uid][s] - m \in 0..MaxCount
                         /\ SetStackSize(op[p].uid, s, stacks[op[p].uid][s] - m)
    BY <1>5, TakeCall
  <2>4. PICK a \in 0..MaxCount : a = stacks[op[p].uid][s] - m
    BY <2>3
  <2>. QED BY <1>0, <2>1, <2>2, <2>3, <2>4, SetCounts
<1>6. ASSUME NEW s \in Slots, Place(p, s)  PROVE Counts'
  <2>1. /\ s[1] \in known /\ s \notin used /\ op[p].uid \in Items
        /\ op[p].remain \in 0..MaxCount /\ op[p].remain > 0
        /\ SetStackSize(op[p].uid, s, op[p].remain)
    BY <1>6, PlaceCall
  <2>2. parted' \in BOOLEAN /\ twice' = twice
    BY <1>6 DEF Place
  <2>. QED BY <2>1, <2>2, SetCounts
<1>. QED BY <1>1, <1>2, <1>3, <1>4, <1>5, <1>6 DEF Step

\* A store that is cleared counts nothing.
LEMMA ClearCounts ==
  ASSUME NEW q \in Syncers, Clear(q)
  PROVE  Counts'
<1>1. /\ stacks' = [u \in Items |-> [s \in Slots |-> 0]]
      /\ used' = {} /\ known' = {}
      /\ free' = [c \in Chests |-> 0] /\ stats' = [u \in Items |-> 0]
      /\ parted' = FALSE /\ twice' = FALSE
  BY DEF Clear
<1>2. ASSUME NEW u \in Items  PROVE SumOver(stacks'[u], Slots) = 0
  <2>1. PICK h, f : h = stacks'[u] /\ f = [x \in {} |-> 0]
    OBVIOUS
  <2>2. \A s \in Slots : h[s] = IF s \in {} THEN f[s] ELSE 0
    BY <1>1, <2>1
  <2>3. SumOver(h, Slots) = SumOver(f, {})
    BY <2>2, SlotsFinite, SumOverPart
  <2>. QED BY <2>1, <2>3, SumOverEmpty
<1>3. stats' \in [Items -> Int] /\ \A u \in Items : stats'[u] = 0
  BY <1>1
<1>4. StatsCover'
  <2>1. ASSUME NEW u \in Items
        PROVE  /\ stats'[u] >= SumOver(stacks'[u], Slots)
               /\ stats'[u] = SumOver(stacks'[u], Slots)
    BY <1>2, <1>3
  <2>. QED BY <2>1 DEF StatsCover
<1>5. free' \in [Chests -> Int] /\ \A u \in Items, s \in Slots : stacks'[u][s] = 0
  BY <1>1
<1>6. CountTypes'
  BY <1>1, <1>3, <1>5 DEF CountTypes
<1>7. OneItem' /\ FreeCount'
  BY <1>1, <1>5 DEF OneItem, FreeCount
<1>. QED BY <1>4, <1>6, <1>7 DEF Counts

\* A chest that is added: what was listed of an item is counted, and what it
\* replaces is not taken off.
LEMMA AddStats ==
  ASSUME IInv, Counts, NEW q \in Syncers, NEW c \in Chests, Add(q, c), NEW l, l = sync[q].listing,
         \A s \in In(c) : l[s] \in Contents
  PROVE  stats' \in [Items -> Int] /\ StatsCover'
<1>1. /\ stacks' = [u \in Items |-> [s \in Slots |->
                      IF s \in Listed(l, c, u) THEN l[s].n ELSE stacks[u][s]]]
      /\ stats' = [u \in Items |->
                     stats[u] + SumOver([s \in Listed(l, c, u) |-> l[s].n], Listed(l, c, u))]
      /\ twice' = (twice \/ c \in known)
  BY DEF Add
<1>2. stacks \in [Items -> [Slots -> 0..MaxCount]] /\ stats \in [Items -> Int]
  BY DEF IInv, Shapes, Counts, CountTypes
<1>3. ASSUME NEW u \in Items
      PROVE  /\ stats'[u] \in Int
             /\ stats'[u] >= SumOver(stacks'[u], Slots)
             /\ ~twice' => stats'[u] = SumOver(stacks'[u], Slots)
  <2>1. PICK L, f, d, h : /\ L = Listed(l, c, u) /\ f = stacks[u]
                          /\ d = [s \in L |-> l[s].n] /\ h = stacks'[u]
    OBVIOUS
  <2>2. L \subseteq Slots /\ L \subseteq In(c)
    BY <2>1 DEF Listed, In
  <2>3. /\ \A s \in Slots : f[s] \in Nat
        /\ \A s \in L : d[s] \in Int
        /\ \A s \in Slots : h[s] = IF s \in L THEN d[s] ELSE f[s]
    <3>1. \A s \in Slots : f[s] \in Nat
      BY <1>2, <2>1
    <3>2. \A s \in L : d[s] = l[s].n /\ l[s].n \in Nat
      BY <2>1, <2>2, FullOrEmpty
    <3>3. h = [s \in Slots |-> IF s \in L THEN l[s].n ELSE f[s]]
      BY <1>1, <2>1
    <3>. QED BY <3>1, <3>2, <3>3
  <2>4. /\ SumOver(f, Slots) + SumOver(d, L) >= SumOver(h, Slots)
        /\ (\A s \in L : f[s] = 0) => SumOver(h, Slots) = SumOver(f, Slots) + SumOver(d, L)
    BY <2>2, <2>3, SlotsFinite, SumOverReplace
  <2>5. SumOver(f, Slots) \in Int /\ SumOver(h, Slots) \in Int /\ SumOver(d, L) \in Int
    <3>1. \A s \in Slots : f[s] \in Int /\ h[s] \in Int
      BY <2>2, <2>3
    <3>2. IsFiniteSet(L)
      BY <2>2, SlotsFinite, FS_Subset
    <3>. QED BY <2>3, <3>1, <3>2, SlotsFinite, SumOverIsInt
  <2>6. stats'[u] = stats[u] + SumOver(d, L)
    BY <1>1, <2>1
  <2>7. /\ stats[u] \in Int /\ stats[u] >= SumOver(f, Slots)
        /\ ~twice => stats[u] = SumOver(f, Slots)
    BY <1>2, <2>1 DEF Counts, StatsCover
  <2>8. ~twice' => ~twice /\ \A s \in L : f[s] = 0
    <3>1. ASSUME ~twice', NEW s \in L  PROVE f[s] = 0
      <4>1. s \in Slots /\ s[1] \notin known
        BY <1>1, <2>2, <3>1, SlotOfChest
      <4>. QED BY <2>1, <4>1 DEF IInv, UnknownClear
    <3>. QED BY <1>1, <3>1
  <2>. QED BY <2>1, <2>4, <2>5, <2>6, <2>7, <2>8
<1>4. stats' \in [Items -> Int]
  BY <1>1, <1>3
<1>. QED BY <1>3, <1>4 DEF StatsCover

\* A chest that is added has the slots in use that were listed as such, each
\* for one item.
LEMMA AddSlots ==
  ASSUME IInv, Counts, NEW q \in Syncers, NEW c \in Chests, Add(q, c), NEW l, l = sync[q].listing,
         \A s \in In(c) : l[s] \in Contents
  PROVE  OneItem' /\ FreeCount'
<1>1. /\ known' = known \union {c}
      /\ free' = [free EXCEPT ![c] = Size[c] - Cardinality({s \in In(c) : l[s] # EmptySlot})]
      /\ used' = used \union {s \in In(c) : l[s] # EmptySlot}
      /\ stacks' = [u \in Items |-> [s \in Slots |->
                      IF s \in Listed(l, c, u) THEN l[s].n ELSE stacks[u][s]]]
      /\ twice' = (twice \/ c \in known)
  BY DEF Add
<1>2. SUFFICES ASSUME ~twice, c \notin known  PROVE OneItem' /\ FreeCount'
  BY <1>1 DEF OneItem, FreeCount
<1>3. \A s \in In(c) : s \in Slots /\ s \notin used /\ \A u \in Items : stacks[u][s] = 0
  BY <1>2, SlotOfChest DEF IInv, UnknownClear
<1>4. \A u \in Items, s \in Slots :
        stacks'[u][s] = IF s \in In(c) /\ l[s].uid = u THEN l[s].n ELSE stacks[u][s]
  BY <1>1 DEF Listed
<1>5. ASSUME NEW s \in Slots
      PROVE  /\ s \notin used' => \A v \in Items : stacks'[v][s] = 0
             /\ s \in used' => \E v \in Items : /\ stacks'[v][s] > 0
                                                /\ \A w \in Items \ {v} : stacks'[w][s] = 0
  <2>1. CASE s \notin In(c)
    <3>1. /\ s \notin used => \A v \in Items : stacks[v][s] = 0
          /\ s \in used => \E v \in Items : /\ stacks[v][s] > 0
                                            /\ \A w \in Items \ {v} : stacks[w][s] = 0
      BY <1>2 DEF Counts, OneItem
    <3>. QED BY <1>1, <1>4, <2>1, <3>1
  <2>2. CASE s \in In(c) /\ l[s] = EmptySlot
    <3>1. s \notin used' /\ l[s].uid \notin Items
      BY <1>1, <1>3, <2>2, StoreAssumption DEF EmptySlot
    <3>. QED BY <1>3, <1>4, <2>2, <3>1
  <2>3. CASE s \in In(c) /\ l[s] # EmptySlot
    <3>1. s \in used' /\ l[s] \in Stack
      BY <1>1, <2>3 DEF Contents
    <3>2. l[s].uid \in Items /\ l[s].n \in Nat \ {0}
      BY <3>1, FullOrEmpty
    <3>3. \A v \in Items : stacks'[v][s] = IF l[s].uid = v THEN l[s].n ELSE 0
      BY <1>3, <1>4, <2>3
    <3>4. stacks'[l[s].uid][s] > 0 /\ \A w \in Items \ {l[s].uid} : stacks'[w][s] = 0
      BY <3>2, <3>3
    <3>. QED BY <3>1, <3>2, <3>4
  <2>. QED BY <2>1, <2>2, <2>3
<1>6. OneItem'
  BY <1>5 DEF OneItem
<1>7. FreeCount'
  <2> SUFFICES ASSUME NEW e \in known'
               PROVE  free'[e] = Size[e] - Cardinality(used' \intersect In(e))
    BY DEF FreeCount
  <2>1. free \in [Chests -> Int] /\ known \subseteq Chests
    BY DEF Counts, CountTypes
  <2>2. CASE e = c
    <3>1. used' \intersect In(c) = {s \in In(c) : l[s] # EmptySlot}
      BY <1>1, <1>3
    <3>2. free'[c] = Size[c] - Cardinality({s \in In(c) : l[s] # EmptySlot})
      BY <1>1, <2>1
    <3>. QED BY <2>2, <3>1, <3>2
  <2>3. CASE e # c
    <3>1. e \in known /\ e \in Chests
      BY <1>1, <2>1, <2>3
    <3>2. used' \intersect In(e) = used \intersect In(e)
      BY <1>1, <2>3, SlotOfChest
    <3>3. free'[e] = free[e]
      BY <1>1, <2>1, <2>3, <3>1
    <3>4. free[e] = Size[e] - Cardinality(used \intersect In(e))
      BY <1>2, <3>1 DEF Counts, FreeCount
    <3>. QED BY <3>2, <3>3, <3>4
  <2>. QED BY <2>2, <2>3
<1>. QED BY <1>6, <1>7

\* The steps of a sync.
LEMMA SyncCounts ==
  ASSUME IInv, Listings, Counts, NEW q \in Syncers, Sync(q)
  PROVE  Counts'
<1>0. parted \in BOOLEAN /\ twice \in BOOLEAN
  BY DEF Counts, CountTypes
<1>1. CASE List(q)
  BY <1>0, <1>1, SameCounts DEF List
<1>2. CASE Clear(q)
  BY <1>2, ClearCounts
<1>3. ASSUME NEW c \in Chests, Add(q, c)  PROVE Counts'
  <2>1. PICK l : l = sync[q].listing
    OBVIOUS
  <2>2. \A s \in In(c) : l[s] \in Contents
    BY <1>3, <2>1 DEF Add, In, Listings, ToAdd
  <2>3. stats' \in [Items -> Int] /\ StatsCover' /\ OneItem' /\ FreeCount'
    BY <1>3, <2>1, <2>2, AddStats, AddSlots
  <2>4. /\ known' = known \union {c}
        /\ used' = used \union {s \in In(c) : l[s] # EmptySlot}
        /\ parted' = (parted \/ \E s \in In(c) : l[s] # chest[s])
        /\ twice' = (twice \/ c \in known)
    BY <1>3, <2>1 DEF Add
  <2>5. used' \subseteq Slots /\ known' \subseteq Chests
    BY <2>4, SlotOfChest DEF Counts, CountTypes
  <2>6. parted' \in BOOLEAN /\ twice' \in BOOLEAN
    BY <2>4
  <2>7. free' \in [Chests -> Int]
    <3>1. {s \in In(c) : l[s] # EmptySlot} \subseteq Slots
      BY SlotOfChest
    <3>2. Cardinality({s \in In(c) : l[s] # EmptySlot}) \in Nat
      BY <3>1, SlotsFinite, FS_Subset, FS_CardinalityType
    <3>3. PICK k : k = Size[c] - Cardinality({s \in In(c) : l[s] # EmptySlot})
      OBVIOUS
    <3>4. k \in Int /\ free' = [free EXCEPT ![c] = k]
      BY <1>3, <2>1, <3>2, <3>3, StoreAssumption DEF Add
    <3>. QED BY <3>4 DEF Counts, CountTypes
  <2>. QED BY <2>3, <2>5, <2>6, <2>7 DEF Counts, CountTypes
<1>. QED BY <1>1, <1>2, <1>3 DEF Sync

\* Nothing is counted at first.
LEMMA InitCounts == Init => Counts
<1> SUFFICES ASSUME Init PROVE Counts
  OBVIOUS
<1>1. /\ stacks = [u \in Items |-> [s \in Slots |-> 0]]
      /\ used = {} /\ known = {}
      /\ free = [c \in Chests |-> 0] /\ stats = [u \in Items |-> 0]
      /\ parted = FALSE /\ twice = FALSE
  BY DEF Init
<1>2. ASSUME NEW u \in Items  PROVE SumOver(stacks[u], Slots) = 0
  <2>1. PICK h, f : h = stacks[u] /\ f = [x \in {} |-> 0]
    OBVIOUS
  <2>2. \A s \in Slots : h[s] = IF s \in {} THEN f[s] ELSE 0
    BY <1>1, <2>1
  <2>3. SumOver(h, Slots) = SumOver(f, {})
    BY <2>2, SlotsFinite, SumOverPart
  <2>. QED BY <2>1, <2>3, SumOverEmpty
<1>3. stats \in [Items -> Int] /\ \A u \in Items : stats[u] = 0
  BY <1>1
<1>4. StatsCover
  <2>1. ASSUME NEW u \in Items
        PROVE  /\ stats[u] >= SumOver(stacks[u], Slots)
               /\ stats[u] = SumOver(stacks[u], Slots)
    BY <1>2, <1>3
  <2>. QED BY <2>1 DEF StatsCover
<1>5. free \in [Chests -> Int] /\ \A u \in Items, s \in Slots : stacks[u][s] = 0
  BY <1>1
<1>6. CountTypes
  BY <1>1, <1>3, <1>5 DEF CountTypes
<1>7. OneItem /\ FreeCount
  BY <1>1, <1>5 DEF OneItem, FreeCount
<1>. QED BY <1>4, <1>6, <1>7 DEF Counts

\* Every step keeps the counts.
LEMMA NextCounts == IInv /\ Listings /\ Counts /\ [Next]_vars => Counts'
<1> SUFFICES ASSUME IInv, Listings, Counts, [Next]_vars PROVE Counts'
  OBVIOUS
<1>0. parted \in BOOLEAN
  BY DEF Counts, CountTypes
<1>1. CASE UNCHANGED vars
  BY <1>0, <1>1, SameCounts DEF vars
<1>2. ASSUME NEW p \in Users,
             \/ Step(p) \/ CallFails(p)
             \/ \E u \in Items, n \in 1..MaxCount : Import(p, u, n) \/ Export(p, u, n)
      PROVE  Counts'
  BY <1>2, UserCounts
<1>3. ASSUME NEW q \in Syncers, Sync(q)  PROVE Counts'
  BY <1>3, SyncCounts
<1>4. ASSUME NEW s \in Slots, TakeOutside(s)  PROVE Counts'
  BY <1>0, <1>4, SameCounts DEF TakeOutside
<1>. QED BY <1>1, <1>2, <1>3, <1>4 DEF Next

\* Slots, amounts, statistics and whoever imports or exports keep their types
\* (TypeOK): no stack outgrows its slot, in the game or in the store, and no
\* statistic gets negative, also where syncs overlap.
THEOREM TypeCorrect == Spec => []TypeOK
<1>1. IInv /\ Counts => TypeOK
  <2> SUFFICES ASSUME IInv, Counts PROVE TypeOK
    OBVIOUS
  <2>1. chest \in [Slots -> Stack \union {EmptySlot}]
        /\ stacks \in [Items -> [Slots -> 0..MaxCount]]
    BY DEF IInv, Shapes, Contents
  <2>2. ASSUME NEW u \in Items  PROVE stats[u] \in Nat
    <3>1. PICK f : f = stacks[u]
      OBVIOUS
    <3>2. \A s \in Slots : f[s] \in Nat
      BY <2>1, <3>1
    <3>3. SumOver(f, Slots) \in Nat
      BY <3>2, SlotsFinite, SumOverIsNat
    <3>4. stats[u] \in Int /\ stats[u] >= SumOver(f, Slots)
      BY <3>1 DEF Counts, CountTypes, StatsCover
    <3>. QED BY <3>3, <3>4
  <2>3. stats \in [Items -> Nat]
    BY <2>2 DEF Counts, CountTypes
  <2>4. \A p \in Users : mu = p <=> op[p].at # "idle"
    BY DEF IInv, Working
  <2>5. \A p \in Users : op[p].at # "idle" => op[p].remain \in 1..MaxCount
    BY DEF IInv, Working, Visits, Shapes, OpRec
  <2>. QED BY <2>1, <2>3, <2>4, <2>5 DEF TypeOK, Counts, CountTypes
<1>. QED BY InitInv, NextInv, InitCounts, NextCounts, <1>1, PTL DEF Spec

\* Whatever calls move and however wrong the store is, its counts add up and a
\* slot is free or in use for one item, as long as no two syncs overlap
\* (CountsAdd): imports, exports and sync only ever change the two together.
THEOREM CountsAgree == Spec => []CountsAdd
<1>1. Counts => CountsAdd
  <2> SUFFICES ASSUME Counts, ~twice PROVE
        /\ \A u \in Items : stats[u] = SumOver(stacks[u], Slots)
        /\ \A c \in known : free[c] = Size[c] - Cardinality(used \intersect In(c))
        /\ \A s \in Slots :
             Cardinality({u \in Items : stacks[u][s] > 0}) = IF s \in used THEN 1 ELSE 0
    BY DEF CountsAdd
  <2>1. ASSUME NEW s \in Slots
        PROVE  Cardinality({u \in Items : stacks[u][s] > 0}) = IF s \in used THEN 1 ELSE 0
    <3>1. CASE s \in used
      <4>1. PICK v \in Items : stacks[v][s] > 0 /\ \A w \in Items \ {v} : stacks[w][s] = 0
        BY <3>1 DEF Counts, OneItem
      <4>2. {u \in Items : stacks[u][s] > 0} = {v}
        BY <4>1
      <4>. QED BY <3>1, <4>2, FS_Singleton
    <3>2. CASE s \notin used
      <4>1. {u \in Items : stacks[u][s] > 0} = {}
        BY <3>2 DEF Counts, OneItem
      <4>. QED BY <3>2, <4>1, FS_EmptySet
    <3>. QED BY <3>1, <3>2
  <2>. QED BY <2>1 DEF Counts, StatsCover, FreeCount
<1>. QED BY InitInv, NextInv, InitCounts, NextCounts, <1>1, PTL DEF Spec
=============================================================================
