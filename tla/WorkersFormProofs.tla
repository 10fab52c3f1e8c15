------------------------- MODULE WorkersFormProofs -------------------------
(***************************************************************************)
(* Proofs about the page that edits a worker: for any items, filters and   *)
(* numerals, any number of elements and of searches that are on their way. *)
(***************************************************************************)
EXTENDS WorkersForm, SumsProofs, SequenceTheorems, FiniteSetTheorems, TLAPS

Entries == Values \union {NoValue}
Post == [state : {"none", "sent", "saved"}, kind : Kinds \union {"none"}, rows : Seq(RowSet)]
Fetch == [query : Queries \union {NoQuery}, overtaken : BOOLEAN]

\* The elements come in the order of their indices.
Ascending(ps) == \A i, j \in DOMAIN ps : i < j => ps[i].idx < ps[j].idx

\* The script has not given the counter to an element yet.
Numbered == \A i \in DOMAIN rows : rows[i].idx < counter

FormTypes ==
  /\ kind \in Kinds \union {"none"} /\ counter \in 1..(MaxIdx + 1)
  /\ rows \in Seq(RowSet) /\ post \in Post
  /\ dialog \in {"none", "hidden", "shown", "detached"}
  /\ waiter \in 0..(counter - 1)
  /\ saved \in [kind : Kinds \union {"none"}, config : Seq(Values)]

FormInv == FormTypes /\ Ascending(rows) /\ Ascending(post.rows) /\ Numbered

SearchTypes ==
  /\ filter \in Queries \union {NoQuery} /\ timer \in BOOLEAN
  /\ stale \in BOOLEAN /\ unasked \in BOOLEAN
  /\ fetches \in Seq(Fetch)
  /\ shown \in Queries \union {NoQuery, Nothing}

\* If one is neither to come nor missed: a search for what is in the input is the
\* newest one and on its way; or all that are on their way are overtaken.
NewestPending ==
  /\ fetches # <<>> /\ ~fetches[Len(fetches)].overtaken
  /\ fetches[Len(fetches)].query = filter
NewestOver == (\A i \in DOMAIN fetches : fetches[i].overtaken) /\ (shown = filter \/ stale)

SearchInv == SearchTypes /\ (timer \/ unasked \/ NewestPending \/ NewestOver)

IInv == FormInv /\ SearchInv
-----------------------------------------------------------------------------
\* Sequences.
LEMMA RemoveAtIs ==
  ASSUME NEW S, NEW s \in Seq(S), NEW i \in DOMAIN s
  PROVE  /\ RemoveAt(s, i) \in Seq(S) /\ Len(s) \in Nat \ {0} /\ DOMAIN s = 1..Len(s)
         /\ Len(RemoveAt(s, i)) = Len(s) - 1 /\ DOMAIN RemoveAt(s, i) = 1..(Len(s) - 1)
         /\ \A j \in 1..(Len(s) - 1) : RemoveAt(s, i)[j] = IF j < i THEN s[j] ELSE s[j + 1]
<1>1. Len(s) \in Nat /\ DOMAIN s = 1..Len(s) /\ i \in 1..Len(s)
  BY LenProperties
<1>2. PICK a, b : a = SubSeq(s, 1, i - 1) /\ b = SubSeq(s, i + 1, Len(s))
  OBVIOUS
<1>3. /\ a \in Seq(S) /\ Len(a) = i - 1
      /\ \A j \in 1..(i - 1) : a[j] = s[j]
  BY <1>1, <1>2
<1>4. /\ b \in Seq(S) /\ Len(b) = Len(s) - i
      /\ \A j \in 1..(Len(s) - i) : b[j] = s[i + j]
  BY <1>1, <1>2
<1>5. PICK r : r = RemoveAt(s, i) /\ r = a \o b
  BY <1>2 DEF RemoveAt
<1>6. /\ r \in Seq(S) /\ Len(r) = Len(a) + Len(b)
      /\ \A j \in 1..(Len(a) + Len(b)) : r[j] = IF j <= Len(a) THEN a[j] ELSE b[j - Len(a)]
  <2>1. a \in Seq(S) /\ b \in Seq(S)
    BY <1>3, <1>4
  <2>. QED BY <1>5, <2>1, ConcatProperties, Zenon
<1>7. Len(a) + Len(b) = Len(s) - 1 /\ Len(s) - 1 \in Nat
  BY <1>1, <1>3, <1>4
<1>8. Len(r) = Len(s) - 1 /\ DOMAIN r = 1..(Len(s) - 1)
  BY <1>6, <1>7, LenProperties
<1>9. ASSUME NEW j \in 1..(Len(s) - 1)
      PROVE  r[j] = IF j < i THEN s[j] ELSE s[j + 1]
  <2>1. r[j] = IF j <= i - 1 THEN a[j] ELSE b[j - (i - 1)]
    BY <1>3, <1>6, <1>7
  <2>2. CASE j < i
    BY <1>1, <1>3, <2>1, <2>2
  <2>3. CASE ~(j < i)
    <3>1. j - (i - 1) \in 1..(Len(s) - i) /\ i + (j - (i - 1)) = j + 1
      BY <1>1, <2>3
    <3>2. PICK k : k = j - (i - 1)
      OBVIOUS
    <3>3. b[k] = s[i + k] /\ i + k = j + 1
      BY <1>4, <3>1, <3>2
    <3>4. r[j] = b[k] /\ (j < i) = FALSE
      BY <1>1, <2>1, <2>3, <3>2
    <3>. QED BY <3>3, <3>4
  <2>. QED BY <2>2, <2>3
<1>10. Len(s) \in Nat \ {0}
  BY <1>1
<1>. QED BY <1>1, <1>5, <1>6, <1>8, <1>9, <1>10, Zenon

LEMMA RowsAre ==
  ASSUME NEW n \in Nat \ {0}, NEW values \in Seq(Entries), n + Len(values) - 1 <= MaxIdx
  PROVE  /\ Rows(n, values) \in Seq(RowSet) /\ Ascending(Rows(n, values))
         /\ Len(Rows(n, values)) = Len(values) /\ DOMAIN Rows(n, values) = 1..Len(values)
         /\ \A i \in 1..Len(values) : Rows(n, values)[i].idx = n + i - 1
<1>1. Len(values) \in Nat /\ \A i \in 1..Len(values) : values[i] \in Entries
  BY LenProperties, ElementOfSeq
<1>2. MaxIdx \in Nat
  BY FormAssumption
<1>3. \A i \in 1..Len(values) : [idx |-> n + i - 1, value |-> values[i]] \in RowSet
  BY <1>1, <1>2 DEF RowSet, Entries
<1>. QED BY <1>1, <1>3 DEF Rows, Ascending
-----------------------------------------------------------------------------
\* What is posted has one index for each element, so what the server makes of it
\* is the same values, put in some order.
LEMMA RowTypes ==
  ASSUME NEW ps \in Seq(RowSet)
  PROVE  /\ Len(ps) \in Nat /\ DOMAIN ps = 1..Len(ps)
         /\ \A i \in DOMAIN ps : ps[i].idx \in 1..MaxIdx /\ ps[i].value \in Entries
<1>1. Len(ps) \in Nat /\ DOMAIN ps = 1..Len(ps) /\ \A i \in DOMAIN ps : ps[i] \in RowSet
  BY LenProperties, ElementOfSeq
<1>. QED BY <1>1 DEF RowSet, Entries

LEMMA IndicesApart ==
  ASSUME NEW ps \in Seq(RowSet), Ascending(ps)
  PROVE  /\ \A i, j \in DOMAIN ps : ps[i].idx = ps[j].idx => i = j
         /\ IsFiniteSet(Indices(ps)) /\ Cardinality(Indices(ps)) = Len(ps)
<1>1. \A i, j \in DOMAIN ps : ps[i].idx = ps[j].idx => i = j
  BY RowTypes DEF Ascending
<1>2. PICK f : f = [i \in 1..Len(ps) |-> ps[i].idx]
  OBVIOUS
<1>3. f \in Bijection(1..Len(ps), Indices(ps))
  BY <1>1, <1>2, RowTypes DEF Bijection, Injection, Surjection, IsInjective, Indices
<1>4. /\ IsFiniteSet(1..Len(ps)) /\ Cardinality(1..Len(ps)) = Len(ps)
  <2>1. Len(ps) \in Nat
    BY RowTypes
  <2>. QED BY <2>1, FS_Interval
<1>5. ExistsBijection(1..Len(ps), Indices(ps))
  BY <1>3 DEF ExistsBijection
<1>. QED BY <1>1, <1>4, <1>5, FS_Bijection

LEMMA OrderIs ==
  ASSUME NEW k, NEW ps \in Seq(RowSet), Ascending(ps), NEW order \in Orders(k, ps)
  PROVE  /\ order \in [1..Len(ps) -> Indices(ps)] /\ DOMAIN order = 1..Len(ps)
         /\ \A i, j \in 1..Len(ps) : order[i] = order[j] => i = j
         /\ \A x \in Indices(ps) : \E i \in 1..Len(ps) : order[i] = x
<1>1. IsFiniteSet(Indices(ps)) /\ Cardinality(Indices(ps)) = Len(ps)
  BY IndicesApart
<1>2. /\ order \in [1..Len(ps) -> Indices(ps)]
      /\ \A i, j \in 1..Len(ps) : i # j => order[i] # order[j]
  BY <1>1 DEF Orders, SetToSeqs
<1>3. order \in Injection(1..Len(ps), Indices(ps))
  BY <1>2 DEF Injection, IsInjective
<1>4. IsFiniteSet(1..Len(ps)) /\ Cardinality(1..Len(ps)) = Len(ps)
  BY FS_Interval, RowTypes
<1>5. order \in Surjection(1..Len(ps), Indices(ps))
  BY <1>1, <1>3, <1>4, FS_Injection
<1>. QED BY <1>2, <1>5 DEF Surjection

LEMMA ParsedIs ==
  ASSUME NEW k, NEW ps \in Seq(RowSet), Ascending(ps), NEW order \in Orders(k, ps)
  PROVE  \E p \in Bijection(1..Len(ps), 1..Len(ps)) :
           /\ Parsed(ps, order) = [i \in 1..Len(ps) |-> ps[p[i]].value]
           /\ \A i \in 1..Len(ps) : ps[p[i]].idx = order[i]
<1>1. /\ DOMAIN ps = 1..Len(ps)
      /\ \A i, j \in 1..Len(ps) : ps[i].idx = ps[j].idx => i = j
  BY IndicesApart, RowTypes
<1>2. /\ DOMAIN order = 1..Len(ps)
      /\ \A i \in 1..Len(ps) : order[i] \in Indices(ps)
      /\ \A i, j \in 1..Len(ps) : order[i] = order[j] => i = j
      /\ \A x \in Indices(ps) : \E i \in 1..Len(ps) : order[i] = x
  BY OrderIs
<1>3. PICK p : p = [i \in 1..Len(ps) |-> CHOOSE j \in 1..Len(ps) : ps[j].idx = order[i]]
  OBVIOUS
<1>4. /\ p \in [1..Len(ps) -> 1..Len(ps)]
      /\ \A i \in 1..Len(ps) : ps[p[i]].idx = order[i]
  <2>1. ASSUME NEW i \in 1..Len(ps)
        PROVE  \E j \in 1..Len(ps) : ps[j].idx = order[i]
    BY <1>1, <1>2 DEF Indices
  <2>. QED BY <1>3, <2>1
<1>5. \A i, j \in 1..Len(ps) : p[i] = p[j] => i = j
  BY <1>2, <1>4
<1>6. \A j \in 1..Len(ps) : \E i \in 1..Len(ps) : p[i] = j
  <2>. TAKE j \in 1..Len(ps)
  <2>1. ps[j].idx \in Indices(ps)
    BY <1>1 DEF Indices
  <2>2. PICK i \in 1..Len(ps) : order[i] = ps[j].idx
    BY <1>2, <2>1
  <2>3. p[i] = j
    BY <1>1, <1>4, <2>2
  <2>. QED BY <2>3
<1>7. p \in Bijection(1..Len(ps), 1..Len(ps))
  BY <1>4, <1>5, <1>6 DEF Bijection, Injection, Surjection, IsInjective
<1>8. ASSUME NEW i \in 1..Len(ps)
      PROVE  FirstWith(ps, order[i]) = p[i]
  <2>1. \A m \in 1..(p[i] - 1) : m \in 1..Len(ps) /\ m # p[i]
    BY <1>4, RowTypes
  <2>2. \A m \in 1..(p[i] - 1) : ps[m].idx # order[i]
    BY <1>1, <1>4, <2>1
  <2>3. p[i] \in DOMAIN ps /\ ps[p[i]].idx = order[i]
    BY <1>1, <1>4
  <2>4. \A j \in DOMAIN ps : ps[j].idx = order[i] => j = p[i]
    BY <1>1, <1>4
  <2>. QED BY <2>2, <2>3, <2>4 DEF FirstWith
<1>9. Parsed(ps, order) = [i \in 1..Len(ps) |-> ps[p[i]].value]
  BY <1>2, <1>8 DEF Parsed
<1>. QED BY <1>4, <1>7, <1>9

\* The server's config has as many entries, each one of the form's.
LEMMA ParsedTypes ==
  ASSUME NEW k, NEW ps \in Seq(RowSet), Ascending(ps), NEW order \in Orders(k, ps)
  PROVE  Parsed(ps, order) \in Seq(Entries) /\ Len(Parsed(ps, order)) = Len(ps)
<1>1. PICK p \in Bijection(1..Len(ps), 1..Len(ps)) :
        Parsed(ps, order) = [i \in 1..Len(ps) |-> ps[p[i]].value]
  BY ParsedIs
<1>2. \A i \in 1..Len(ps) : p[i] \in 1..Len(ps)
  BY DEF Bijection, Injection
<1>3. \A i \in 1..Len(ps) : ps[p[i]].value \in Entries
  BY <1>2, RowTypes
<1>4. Len(ps) \in Nat
  BY RowTypes
<1>. QED BY <1>1, <1>3, <1>4
-----------------------------------------------------------------------------
\* What is saved.

\* Each value comes as often as in the form.
LEMMA SameCopies ==
  ASSUME NEW k, NEW ps \in Seq(RowSet), Ascending(ps), NEW order \in Orders(k, ps)
  PROVE  Copies(Parsed(ps, order)) = Copies(Entered(ps))
<1>1. PICK n, a, b : n = Len(ps) /\ a = Parsed(ps, order) /\ b = Entered(ps)
  OBVIOUS
<1>2. PICK p \in Bijection(1..n, 1..n) : a = [i \in 1..n |-> ps[p[i]].value]
  BY <1>1, ParsedIs
<1>3. n \in Nat /\ b = [i \in 1..n |-> ps[i].value]
  BY <1>1, RowTypes DEF Entered
<1>4. /\ \A i \in 1..n : p[i] \in 1..n
      /\ \A i, j \in 1..n : p[i] = p[j] => i = j
      /\ \A j \in 1..n : \E i \in 1..n : p[i] = j
  BY <1>2 DEF Bijection, Injection, Surjection, IsInjective
<1>5. ASSUME NEW v \in Values
      PROVE  Cardinality({i \in DOMAIN a : a[i] = v}) = Cardinality({i \in DOMAIN b : b[i] = v})
  <2>1. PICK A, B : A = {i \in 1..n : a[i] = v} /\ B = {i \in 1..n : b[i] = v}
    OBVIOUS
  <2>2. PICK f : f = [i \in A |-> p[i]]
    OBVIOUS
  <2>3. f \in [A -> B] /\ \A i, j \in A : f[i] = f[j] => i = j
    BY <1>2, <1>3, <1>4, <2>1, <2>2
  <2>4. \A j \in B : \E i \in A : f[i] = j
    BY <1>2, <1>3, <1>4, <2>1, <2>2
  <2>5. ExistsBijection(A, B)
    BY <2>3, <2>4 DEF ExistsBijection, Bijection, Injection, Surjection, IsInjective
  <2>6. IsFiniteSet(1..n)
    BY <1>3, FS_Interval
  <2>7. IsFiniteSet(A)
    BY <2>1, <2>6, FS_Subset
  <2>8. Cardinality(A) = Cardinality(B)
    BY <2>5, <2>7, FS_Bijection
  <2>. QED BY <1>2, <1>3, <2>1, <2>8
<1>. QED BY <1>1, <1>5 DEF Copies

\* Numerals that are sorted as strings are sorted as numbers, if they are equally
\* long: the counter has two digits at most.
LEMMA BeforeIsLess ==
  ASSUME NEW n \in 1..MaxIdx, NEW m \in 1..MaxIdx, (n < Radix) = (m < Radix), Before(n, m)
  PROVE  n < m
<1>1. Radix \in Nat /\ Radix > 1 /\ n \in Nat /\ m \in Nat
  BY FormAssumption
<1>2. CASE n < Radix
  BY <1>1, <1>2 DEF Before, Leading
<1>3. CASE ~(n < Radix)
  <2>1. n \div Radix < m \div Radix \/ n < m
    BY <1>1, <1>3 DEF Before, Leading
  <2>2. PICK q, r \in Nat : n = Radix * q + r /\ r < Radix /\ q = n \div Radix
    BY <1>1
  <2>3. PICK u, w \in Nat : m = Radix * u + w /\ u = m \div Radix
    BY <1>1
  <2>4. ASSUME q < u
        PROVE  n < m
    <3>1. PICK d \in Nat : u = q + 1 + d
      <4>1. u - q - 1 \in Nat /\ u = q + 1 + (u - q - 1)
        BY <2>2, <2>3, <2>4
      <4>. QED BY <4>1
    <3>2. Radix * u = Radix * q + Radix + Radix * d /\ Radix * d \in Nat
      BY <1>1, <2>2, <3>1
    <3>. QED BY <1>1, <2>2, <2>3, <3>2
  <2>. QED BY <2>1, <2>2, <2>3, <2>4
<1>. QED BY <1>2, <1>3

\* The only way to put the numbers up to n in ascending order.
LEMMA AscendingIsIdentity ==
  ASSUME NEW n \in Nat, NEW p \in Bijection(1..n, 1..n),
         \A i, j \in 1..n : i < j => p[i] < p[j]
  PROVE  \A i \in 1..n : p[i] = i
<1>. DEFINE Bad == {i \in 1..n : p[i] # i}
<1>1. /\ \A i \in 1..n : p[i] \in 1..n
      /\ \A i, j \in 1..n : p[i] = p[j] => i = j
      /\ \A j \in 1..n : \E i \in 1..n : p[i] = j
  BY DEF Bijection, Injection, Surjection, IsInjective
<1>2. SUFFICES ASSUME Bad # {} PROVE FALSE
  OBVIOUS
<1>3. Bad \subseteq Nat
  OBVIOUS
<1>4. PICK m \in Bad : \A y \in Bad : m <= y
  <2>. HIDE DEF Bad
  <2>. QED BY <1>2, <1>3, LeastElement
<1>5. m \in 1..n /\ p[m] # m /\ \A i \in 1..n : i < m => p[i] = i
  <2>1. m \in 1..n /\ p[m] # m
    OBVIOUS
  <2>2. ASSUME NEW i \in 1..n, i < m
        PROVE  p[i] = i
    <3>1. ~(m <= i)
      BY <2>1, <2>2
    <3>2. i \notin Bad
      BY <1>4, <3>1
    <3>. QED BY <3>2
  <2>. QED BY <2>1, <2>2
<1>6. p[m] > m
  <2>1. PICK t \in 1..n : t = p[m]
    BY <1>1, <1>5
  <2>2. t < m => p[t] = t
    BY <1>5
  <2>3. p[t] = p[m] => t = m
    BY <1>1, <1>5
  <2>4. ~(t < m)
    BY <1>5, <2>1, <2>2, <2>3
  <2>. QED BY <1>5, <2>1, <2>4
<1>7. PICK k \in 1..n : p[k] = m
  BY <1>1, <1>5
<1>8. k > m
  BY <1>5, <1>7
<1>. QED BY <1>1, <1>5, <1>6, <1>7, <1>8

\* Exports whose indices are equally long keep their order.
LEMMA SameOrder ==
  ASSUME NEW ps \in Seq(RowSet), Ascending(ps), SameDigits(ps),
         NEW order \in Orders("exporter", ps)
  PROVE  Parsed(ps, order) = Entered(ps)
<1>1. PICK n : n = Len(ps) /\ n \in Nat /\ DOMAIN ps = 1..n
  BY RowTypes
<1>2. PICK p \in Bijection(1..n, 1..n) :
        /\ Parsed(ps, order) = [i \in 1..n |-> ps[p[i]].value]
        /\ \A i \in 1..n : ps[p[i]].idx = order[i]
  BY <1>1, ParsedIs
<1>3. \A i \in 1..n : p[i] \in 1..n /\ ps[i].idx \in 1..MaxIdx
  BY <1>1, <1>2, RowTypes DEF Bijection, Injection
<1>4. \A i, j \in 1..n : i < j => Before(order[i], order[j])
  <2>1. DOMAIN order = 1..n
    BY <1>1, OrderIs
  <2>. QED BY <2>1 DEF Orders
<1>5. ASSUME NEW i \in 1..n, NEW j \in 1..n, i < j
      PROVE  p[i] < p[j]
  <2>1. PICK a, b : a = p[i] /\ b = p[j]
    OBVIOUS
  <2>2. a \in 1..n /\ b \in 1..n /\ Before(ps[a].idx, ps[b].idx)
    BY <1>2, <1>3, <1>4, <1>5, <2>1
  <2>3. (ps[a].idx < Radix) = (ps[b].idx < Radix)
    BY <1>1, <2>2 DEF SameDigits
  <2>4. ps[a].idx < ps[b].idx
    BY <1>3, <2>2, <2>3, BeforeIsLess
  <2>5. b <= a => ps[b].idx <= ps[a].idx
    BY <1>1, <1>3, <2>2 DEF Ascending
  <2>. QED BY <1>1, <1>3, <2>1, <2>2, <2>4, <2>5
<1>6. \A i \in 1..n : p[i] = i
  BY <1>1, <1>5, AscendingIsIdentity
<1>. QED BY <1>1, <1>2, <1>6 DEF Entered
-----------------------------------------------------------------------------
\* The form.
LEMMA InitIInv == Init => IInv
<1>. SUFFICES ASSUME Init PROVE IInv
  OBVIOUS
<1>1. <<>> \in Seq(RowSet) /\ <<>> \in Seq(Values) /\ <<>> \in Seq(Fetch)
  OBVIOUS
<1>2. FormTypes
  <2>1. post \in Post
    BY <1>1 DEF Init, NoPost, Post
  <2>2. saved \in [kind : Kinds \union {"none"}, config : Seq(Values)]
    BY <1>1 DEF Init
  <2>3. counter \in 1..(MaxIdx + 1) /\ waiter \in 0..(counter - 1)
    BY FormAssumption DEF Init
  <2>. QED BY <1>1, <2>1, <2>2, <2>3 DEF Init, FormTypes
<1>4. SearchTypes
  BY <1>1 DEF Init, SearchTypes
<1>3. DOMAIN rows = {} /\ DOMAIN post.rows = {} /\ DOMAIN fetches = {} /\ stale
  BY DEF Init, NoPost
<1>. QED BY <1>2, <1>3, <1>4 DEF IInv, FormInv, SearchInv, NewestOver, Ascending, Numbered

LEMMA RenderInv ==
  ASSUME NEW n \in 1..(MaxIdx + 1), NEW values \in Seq(Entries), Render(n, values)
  PROVE  /\ rows' \in Seq(RowSet) /\ Ascending(rows)' /\ Numbered'
         /\ counter' \in n..(MaxIdx + 1) /\ counter' \in 1..(MaxIdx + 1)
<1>1. MaxIdx \in Nat /\ Len(values) \in Nat
  BY FormAssumption, LenProperties
<1>2. n + Len(values) - 1 <= MaxIdx /\ rows' = Rows(n, values) /\ counter' = n + Len(values)
  BY DEF Render
<1>3. /\ Rows(n, values) \in Seq(RowSet) /\ Ascending(Rows(n, values))
      /\ DOMAIN Rows(n, values) = 1..Len(values)
      /\ \A i \in 1..Len(values) : Rows(n, values)[i].idx = n + i - 1
  BY <1>1, <1>2, RowsAre
<1>4. Ascending(rows)'
  BY <1>2, <1>3 DEF Ascending
<1>5. Numbered'
  BY <1>1, <1>2, <1>3 DEF Numbered
<1>. QED BY <1>1, <1>2, <1>3, <1>4, <1>5

LEMMA ChangeTypeInv ==
  ASSUME FormInv, NEW k \in Kinds, ChangeType(k)
  PROVE  FormInv'
<1>1. <<NoValue>> \in Seq(Entries)
  BY DEF Entries
<1>2. counter \in 1..(MaxIdx + 1) /\ Render(counter, <<NoValue>>)
  BY DEF FormInv, FormTypes, ChangeType
<1>3. /\ rows' \in Seq(RowSet) /\ Ascending(rows)' /\ Numbered'
      /\ counter' \in counter..(MaxIdx + 1) /\ counter' \in 1..(MaxIdx + 1)
  BY <1>1, <1>2, RenderInv
<1>4. kind' = k /\ UNCHANGED <<dialog, waiter, post, saved>>
  BY DEF ChangeType
<1>5. waiter' \in 0..(counter' - 1)
  <2>1. waiter' = waiter /\ waiter \in 0..(counter - 1)
    BY DEF FormInv, FormTypes, ChangeType
  <2>2. MaxIdx \in Nat
    BY FormAssumption
  <2>3. counter \in 1..(MaxIdx + 1) /\ counter' \in counter..(MaxIdx + 1)
    BY <1>2, <1>3
  <2>4. counter \in Nat /\ counter' \in Nat /\ counter <= counter'
    BY <2>2, <2>3
  <2>5. waiter \in Nat /\ waiter < counter
    BY <2>1, <2>4
  <2>6. PICK w, c : w = waiter' /\ c = counter'
    OBVIOUS
  <2>7. w = waiter /\ c \in Nat /\ counter <= c
    BY <2>1, <2>4, <2>6
  <2>8. w \in 0..(c - 1)
    BY <2>4, <2>5, <2>7
  <2>. QED BY <2>6, <2>8
<1>. QED BY <1>3, <1>4, <1>5 DEF FormInv, FormTypes, Ascending

LEMMA AddInv ==
  ASSUME FormInv, Add
  PROVE  FormInv'
<1>1. <<NoValue>> \in Seq(Entries) /\ Len(<<NoValue>>) = 1
  BY DEF Entries
<1>2. /\ counter \in 1..MaxIdx /\ counter' = counter + 1 /\ MaxIdx \in Nat
      /\ rows' = rows \o Rows(counter, <<NoValue>>)
      /\ UNCHANGED <<kind, dialog, waiter, post, saved>>
  BY FormAssumption DEF FormInv, FormTypes, Add
<1>3. PICK new : new = Rows(counter, <<NoValue>>)
  OBVIOUS
<1>4. new \in Seq(RowSet) /\ Len(new) = 1 /\ new[1].idx = counter
  <2>1. counter \in Nat \ {0} /\ counter + 1 - 1 <= MaxIdx /\ counter + 1 - 1 = counter
    BY <1>2
  <2>2. /\ new \in Seq(RowSet) /\ Len(new) = Len(<<NoValue>>)
        /\ \A i \in 1..Len(<<NoValue>>) : new[i].idx = counter + i - 1
    BY <1>1, <1>3, <2>1, RowsAre
  <2>. QED BY <1>1, <2>1, <2>2
<1>5. /\ rows \in Seq(RowSet) /\ Len(rows) \in Nat /\ DOMAIN rows = 1..Len(rows)
      /\ \A i \in DOMAIN rows : rows[i].idx \in 1..MaxIdx
  BY RowTypes DEF FormInv, FormTypes
<1>6. /\ rows' \in Seq(RowSet) /\ DOMAIN rows' = 1..(Len(rows) + 1)
      /\ \A i \in 1..Len(rows) : rows'[i] = rows[i]
      /\ rows'[Len(rows) + 1] = new[1]
  BY <1>2, <1>3, <1>4, <1>5
<1>7. \A i \in 1..Len(rows) : rows[i].idx < counter
  BY <1>5 DEF FormInv, Numbered
<1>8. Numbered'
  BY <1>2, <1>4, <1>5, <1>6, <1>7 DEF Numbered
<1>9. Ascending(rows)'
  <2>1. \A i, j \in 1..Len(rows) : i < j => rows[i].idx < rows[j].idx
    BY <1>5 DEF FormInv, Ascending
  <2>. QED BY <1>4, <1>5, <1>6, <1>7, <2>1 DEF Ascending
<1>10. Ascending(post.rows)'
  BY <1>2 DEF FormInv, Ascending
<1>. QED BY <1>2, <1>6, <1>8, <1>9, <1>10 DEF FormInv, FormTypes

LEMMA DelInv ==
  ASSUME FormInv, NEW i \in DOMAIN rows, Del(i)
  PROVE  FormInv'
<1>1. /\ rows \in Seq(RowSet) /\ Len(rows) \in Nat /\ DOMAIN rows = 1..Len(rows)
      /\ \A j \in DOMAIN rows : rows[j].idx \in 1..MaxIdx
  BY RowTypes DEF FormInv, FormTypes
<1>2. /\ rows' \in Seq(RowSet) /\ DOMAIN rows' = 1..(Len(rows) - 1)
      /\ \A j \in 1..(Len(rows) - 1) : rows'[j] = IF j < i THEN rows[j] ELSE rows[j + 1]
  BY <1>1, RemoveAtIs DEF Del
<1>3. UNCHANGED <<kind, counter, dialog, waiter, post, saved>>
  BY DEF Del
<1>7. \A j \in 1..(Len(rows) - 1) :
        \E k \in 1..Len(rows) : rows'[j] = rows[k] /\ k = (IF j < i THEN j ELSE j + 1)
  BY <1>1, <1>2
<1>4. Numbered'
  <2>1. \A k \in 1..Len(rows) : rows[k].idx < counter
    BY <1>1 DEF FormInv, Numbered
  <2>. QED BY <1>2, <1>3, <1>7, <2>1 DEF Numbered
<1>5. Ascending(rows)'
  <2>1. \A j, k \in 1..Len(rows) : j < k => rows[j].idx < rows[k].idx
    BY <1>1 DEF FormInv, Ascending
  <2>2. ASSUME NEW j \in 1..(Len(rows) - 1), NEW k \in 1..(Len(rows) - 1), j < k
        PROVE  rows'[j].idx < rows'[k].idx
    <3>1. PICK a \in 1..Len(rows) : rows'[j] = rows[a] /\ a = (IF j < i THEN j ELSE j + 1)
      BY <1>7
    <3>2. PICK b \in 1..Len(rows) : rows'[k] = rows[b] /\ b = (IF k < i THEN k ELSE k + 1)
      BY <1>7
    <3>3. a < b
      BY <1>1, <2>2, <3>1, <3>2
    <3>. QED BY <2>1, <3>1, <3>2, <3>3
  <2>. QED BY <1>2, <2>2 DEF Ascending
<1>6. Ascending(post.rows)'
  BY <1>3 DEF FormInv, Ascending
<1>. QED BY <1>2, <1>3, <1>4, <1>5, <1>6 DEF FormInv, FormTypes

\* The values of elements change, their indices do not.
LEMMA ValuesInv ==
  ASSUME FormInv, rows' \in Seq(RowSet), DOMAIN rows' = DOMAIN rows,
         \A i \in DOMAIN rows : rows'[i].idx = rows[i].idx,
         UNCHANGED <<kind, counter, post, saved>>,
         dialog' \in {"none", "hidden", "shown", "detached"}, waiter' \in 0..(counter - 1)
  PROVE  FormInv'
<1>1. Numbered'
  BY DEF FormInv, Numbered
<1>2. Ascending(rows)' /\ Ascending(post.rows)'
  BY DEF FormInv, Ascending
<1>. QED BY <1>1, <1>2 DEF FormInv, FormTypes

LEMMA TypeInv ==
  ASSUME FormInv, NEW i \in DOMAIN rows, NEW v \in Entries, Type(i, v)
  PROVE  FormInv'
<1>1. rows \in Seq(RowSet) /\ rows' = [rows EXCEPT ![i].value = v]
  BY DEF FormInv, FormTypes, Type
<1>2. /\ Len(rows) \in Nat /\ DOMAIN rows = 1..Len(rows)
      /\ \A j \in DOMAIN rows : rows[j] \in RowSet
  BY <1>1, LenProperties, ElementOfSeq
<1>3. PICK r : r = [rows[i] EXCEPT !.value = v]
  OBVIOUS
<1>4. r \in RowSet /\ r.idx = rows[i].idx
  BY <1>2, <1>3 DEF RowSet, Entries
<1>5. rows' = [j \in 1..Len(rows) |-> IF j = i THEN r ELSE rows[j]]
  BY <1>1, <1>2, <1>3
<1>6. rows' \in Seq(RowSet) /\ DOMAIN rows' = DOMAIN rows
  BY <1>2, <1>4, <1>5
<1>7. \A j \in DOMAIN rows : rows'[j].idx = rows[j].idx
  BY <1>2, <1>4, <1>5
<1>8. dialog' \in {"none", "hidden", "shown", "detached"} /\ waiter' \in 0..(counter - 1)
  BY DEF FormInv, FormTypes, Type
<1>9. UNCHANGED <<kind, counter, post, saved>>
  BY DEF Type
<1>. QED BY <1>6, <1>7, <1>8, <1>9, ValuesInv

LEMMA SelInv ==
  ASSUME FormInv, NEW i \in DOMAIN rows, Sel(i)
  PROVE  FormInv'
<1>1. UNCHANGED <<rows, kind, counter, post, saved>>
  BY DEF Sel, page
<1>2. rows[i].idx \in 1..MaxIdx /\ rows[i].idx < counter /\ counter \in 1..(MaxIdx + 1)
  BY RowTypes DEF FormInv, FormTypes, Numbered
<1>3. waiter' \in 0..(counter - 1)
  <2>1. waiter' = rows[i].idx /\ MaxIdx \in Nat
    BY FormAssumption DEF Sel
  <2>. QED BY <1>2, <2>1
<1>4. dialog' \in {"none", "hidden", "shown", "detached"}
  BY DEF Sel
<1>5. rows' \in Seq(RowSet)
  BY <1>1 DEF FormInv, FormTypes
<1>. QED BY <1>1, <1>3, <1>4, <1>5, ValuesInv

LEMMA SelectInv ==
  ASSUME FormInv, NEW v \in Values, Select(v)
  PROVE  FormInv'
<1>1. /\ rows' = [j \in DOMAIN rows |->
                    IF rows[j].idx = waiter THEN [rows[j] EXCEPT !.value = v] ELSE rows[j]]
      /\ rows \in Seq(RowSet)
  BY DEF FormInv, FormTypes, Select
<1>2. /\ Len(rows) \in Nat /\ DOMAIN rows = 1..Len(rows)
      /\ \A j \in DOMAIN rows : rows[j] \in RowSet
  BY <1>1, LenProperties, ElementOfSeq
<1>3. ASSUME NEW j \in DOMAIN rows
      PROVE  rows'[j] \in RowSet /\ rows'[j].idx = rows[j].idx
  <2>1. /\ [rows[j] EXCEPT !.value = v] \in RowSet
        /\ [rows[j] EXCEPT !.value = v].idx = rows[j].idx
    BY <1>2 DEF RowSet
  <2>. QED BY <1>1, <1>2, <2>1
<1>4. rows' \in Seq(RowSet) /\ DOMAIN rows' = DOMAIN rows
  BY <1>1, <1>2, <1>3
<1>5. dialog' \in {"none", "hidden", "shown", "detached"} /\ waiter' \in 0..(counter - 1)
  BY FormAssumption DEF FormInv, FormTypes, Select
<1>6. UNCHANGED <<kind, counter, post, saved>>
  BY DEF Select
<1>. QED BY <1>3, <1>4, <1>5, <1>6, ValuesInv

\* Steps of the dialog that leave the elements alone.
LEMMA DialogInv ==
  ASSUME FormInv, UNCHANGED <<page, post, saved>>,
         \/ UNCHANGED <<dialog, waiter>>
         \/ dialog' = "hidden" /\ waiter' = 0
  PROVE  FormInv'
<1>1. UNCHANGED <<rows, kind, counter, post, saved>>
  BY DEF page
<1>2. dialog' \in {"none", "hidden", "shown", "detached"} /\ waiter' \in 0..(counter - 1)
  BY FormAssumption DEF FormInv, FormTypes
<1>3. rows' \in Seq(RowSet)
  BY <1>1 DEF FormInv, FormTypes
<1>. QED BY <1>1, <1>2, <1>3, ValuesInv
-----------------------------------------------------------------------------
\* The post.
LEMMA SubmitInv ==
  ASSUME FormInv, Submit
  PROVE  FormInv'
<1>1. UNCHANGED <<rows, kind, counter, dialog, waiter, saved>>
  BY DEF Submit, page
<1>2. post' = [state |-> "sent", kind |-> kind, rows |-> rows]
  BY DEF Submit
<1>3. post' \in Post /\ Ascending(post.rows)'
  BY <1>2 DEF FormInv, FormTypes, Post, Ascending
<1>. QED BY <1>1, <1>3 DEF FormInv, FormTypes, Ascending, Numbered

LEMMA PostFailsInv ==
  ASSUME FormInv, PostFails
  PROVE  FormInv'
<1>1. UNCHANGED <<rows, kind, counter, dialog, waiter, saved>>
  BY DEF PostFails, page
<1>2. post' = NoPost /\ <<>> \in Seq(RowSet)
  BY DEF PostFails
<1>3. post' \in Post /\ Ascending(post.rows)'
  BY <1>2 DEF NoPost, Post, Ascending
<1>. QED BY <1>1, <1>3 DEF FormInv, FormTypes, Ascending, Numbered

LEMMA SaveInv ==
  ASSUME FormInv, Save
  PROVE  FormInv'
<1>1. UNCHANGED <<rows, kind, counter, dialog, waiter>>
  BY DEF Save, page
<1>2. PICK order \in Orders(post.kind, post.rows) :
        /\ Valid(Parsed(post.rows, order))
        /\ saved' = [kind |-> post.kind, config |-> Parsed(post.rows, order)]
  BY DEF Save
<1>3. post.rows \in Seq(RowSet) /\ Ascending(post.rows) /\ post.kind \in Kinds \union {"none"}
  BY DEF FormInv, FormTypes, Post
<1>4. PICK config : config = Parsed(post.rows, order)
  OBVIOUS
<1>5. config \in Seq(Entries)
  BY <1>3, <1>4, ParsedTypes
<1>6. /\ Len(config) \in Nat /\ DOMAIN config = 1..Len(config)
      /\ \A i \in 1..Len(config) : config[i] \in Entries
  BY <1>5, LenProperties, ElementOfSeq
<1>7. \A i \in 1..Len(config) : config[i] \in Values
  BY <1>2, <1>4, <1>6 DEF Valid, Entries
<1>8. config = [i \in 1..Len(config) |-> config[i]]
  BY <1>5, <1>6
<1>9. config \in Seq(Values)
  BY <1>6, <1>7, <1>8
<1>10. saved' \in [kind : Kinds \union {"none"}, config : Seq(Values)]
  BY <1>2, <1>3, <1>4, <1>9
<1>11. post' = [post EXCEPT !.state = "saved"]
  BY DEF Save
<1>12. post' \in Post /\ Ascending(post.rows)'
  BY <1>11 DEF FormInv, FormTypes, Post, Ascending
<1>. QED BY <1>1, <1>10, <1>12 DEF FormInv, FormTypes, Ascending, Numbered

\* A page that is swapped or loaded again: its elements are new.
LEMMA PageInv ==
  ASSUME FormInv, NEW n \in {1, counter}, NEW values \in Seq(Entries), Render(n, values),
         kind' \in Kinds \union {"none"}, post' = NoPost, UNCHANGED saved,
         dialog' \in {"none", "hidden", "shown", "detached"},
         waiter' = IF n = counter /\ waiter' # 0 THEN waiter ELSE 0
  PROVE  FormInv'
<1>1. MaxIdx \in Nat /\ counter \in 1..(MaxIdx + 1) /\ waiter \in 0..(counter - 1)
  BY FormAssumption DEF FormInv, FormTypes
<1>2. n \in 1..(MaxIdx + 1)
  BY <1>1
<1>3. /\ rows' \in Seq(RowSet) /\ Ascending(rows)' /\ Numbered'
      /\ counter' \in n..(MaxIdx + 1) /\ counter' \in 1..(MaxIdx + 1)
  BY <1>2, RenderInv
<1>4. waiter' \in 0..(counter' - 1)
  BY <1>1, <1>3
<1>5. <<>> \in Seq(RowSet)
  OBVIOUS
<1>6. post' \in Post /\ Ascending(post.rows)'
  BY <1>5 DEF NoPost, Post, Ascending
<1>7. saved' \in [kind : Kinds \union {"none"}, config : Seq(Values)]
  BY DEF FormInv, FormTypes
<1>. QED BY <1>3, <1>4, <1>6, <1>7 DEF FormInv, FormTypes

LEMMA ConfigEntries ==
  ASSUME NEW config \in Seq(Values)
  PROVE  config \in Seq(Entries)
<1>1. /\ Len(config) \in Nat /\ DOMAIN config = 1..Len(config)
      /\ \A i \in 1..Len(config) : config[i] \in Entries
  BY LenProperties, ElementOfSeq DEF Entries
<1>2. config = [i \in 1..Len(config) |-> config[i]]
  BY <1>1
<1>. QED BY <1>1, <1>2

LEMMA LocatedInv ==
  ASSUME FormInv, Located
  PROVE  FormInv'
<1>1. /\ Render(counter, saved.config) /\ kind' = saved.kind /\ post' = NoPost
      /\ dialog' = IF dialog = "none" THEN "none" ELSE "detached"
      /\ UNCHANGED <<waiter, saved>>
  BY DEF Located
<1>2. saved.config \in Seq(Entries) /\ kind' \in Kinds \union {"none"}
  BY <1>1, ConfigEntries DEF FormInv, FormTypes
<1>. QED BY <1>1, <1>2, PageInv

LEMMA RefusedInv ==
  ASSUME FormInv, Refused
  PROVE  FormInv'
<1>1. PICK order \in Orders(post.kind, post.rows) :
        Render(counter, Parsed(post.rows, order))
  BY DEF Refused
<1>2. post.rows \in Seq(RowSet) /\ Ascending(post.rows) /\ post.kind \in Kinds \union {"none"}
  BY DEF FormInv, FormTypes, Post
<1>3. Parsed(post.rows, order) \in Seq(Entries)
  BY <1>2, ParsedTypes
<1>4. kind' = post.kind /\ post' = NoPost /\ UNCHANGED <<dialog, waiter, saved>>
  BY DEF Refused
<1>5. dialog' \in {"none", "hidden", "shown", "detached"}
  BY <1>4 DEF FormInv, FormTypes
<1>. QED BY <1>1, <1>2, <1>3, <1>4, <1>5, PageInv

LEMMA ReloadInv ==
  ASSUME FormInv, Reload
  PROVE  FormInv'
<1>1. /\ Render(1, saved.config) /\ kind' = saved.kind /\ post = NoPost
      /\ dialog' = "none" /\ waiter' = 0 /\ UNCHANGED <<post, saved>>
  BY DEF Reload
<1>2. saved.config \in Seq(Entries) /\ kind' \in Kinds \union {"none"}
  BY <1>1, ConfigEntries DEF FormInv, FormTypes
<1>. QED BY <1>1, <1>2, PageInv
-----------------------------------------------------------------------------
\* The dialog's searches.
LEMMA FillSearch ==
  ASSUME SearchInv, NEW q \in Queries \union {NoQuery}, Fill(q)
  PROVE  SearchInv'
BY DEF Fill, SearchInv, SearchTypes

LEMMA KeyUpSearch ==
  ASSUME SearchInv, KeyUp
  PROVE  SearchInv'
BY DEF KeyUp, SearchInv, SearchTypes

LEMMA SearchSearch ==
  ASSUME SearchInv, Search
  PROVE  SearchInv'
<1>1. PICK f : f = [query |-> filter, overtaken |-> FALSE]
  OBVIOUS
<1>2. /\ f \in Fetch /\ fetches \in Seq(Fetch) /\ fetches' = Append(fetches, f)
      /\ timer' = FALSE /\ UNCHANGED <<filter, shown, stale, unasked>>
  BY <1>1 DEF SearchInv, SearchTypes, Fetch, Search
<1>3. fetches' \in Seq(Fetch) /\ Len(fetches') = Len(fetches) + 1 /\ Len(fetches) \in Nat
      /\ fetches'[Len(fetches) + 1] = f
  BY <1>2, AppendProperties, LenProperties
<1>4. fetches' # <<>>
  BY <1>3
<1>5. NewestPending'
  BY <1>1, <1>2, <1>3, <1>4 DEF NewestPending
<1>. QED BY <1>2, <1>3, <1>5 DEF SearchInv, SearchTypes

\* The searches that are left: those before the one that is over are overtaken.
LEMMA OverIs ==
  ASSUME fetches \in Seq(Fetch), NEW i \in DOMAIN fetches, Over(i)
  PROVE  /\ fetches' \in Seq(Fetch) /\ Len(fetches) \in Nat \ {0} /\ i \in 1..Len(fetches)
         /\ Len(fetches') = Len(fetches) - 1 /\ DOMAIN fetches' = 1..(Len(fetches) - 1)
         /\ \A j \in 1..(Len(fetches) - 1) : j < i => fetches'[j].overtaken
         /\ \A j \in 1..(Len(fetches) - 1) :
              ~(j < i) => /\ fetches'[j].overtaken = fetches[j + 1].overtaken
                          /\ fetches'[j].query = fetches[j + 1].query
<1>1. /\ Len(fetches) \in Nat /\ DOMAIN fetches = 1..Len(fetches)
      /\ \A j \in DOMAIN fetches : fetches[j] \in Fetch
  BY LenProperties, ElementOfSeq
<1>2. PICK m : m = [j \in DOMAIN fetches |->
                      [fetches[j] EXCEPT !.overtaken = @ \/ j < i]]
  OBVIOUS
<1>3. ASSUME NEW j \in DOMAIN fetches
      PROVE  m[j] \in Fetch /\ m[j].query = fetches[j].query
  <2>1. PICK b \in BOOLEAN : b = (fetches[j].overtaken \/ j < i)
    OBVIOUS
  <2>2. fetches[j] \in Fetch /\ m[j] = [fetches[j] EXCEPT !.overtaken = b]
    BY <1>1, <1>2, <2>1
  <2>. QED BY <2>2 DEF Fetch
<1>10. ASSUME NEW j \in DOMAIN fetches, j < i
       PROVE  m[j].overtaken
  <2>1. m[j] = [fetches[j] EXCEPT !.overtaken = TRUE] /\ fetches[j] \in Fetch
    BY <1>1, <1>2, <1>10
  <2>. QED BY <2>1 DEF Fetch
<1>11. ASSUME NEW j \in DOMAIN fetches, ~(j < i)
       PROVE  m[j].overtaken = fetches[j].overtaken
  <2>1. fetches[j] \in Fetch /\ fetches[j].overtaken \in BOOLEAN
    BY <1>1 DEF Fetch
  <2>2. m[j] = [fetches[j] EXCEPT !.overtaken = fetches[j].overtaken]
    BY <1>2, <1>11, <2>1
  <2>. QED BY <2>1, <2>2 DEF Fetch
<1>4. m \in Seq(Fetch) /\ DOMAIN m = DOMAIN fetches /\ Len(m) = Len(fetches)
  BY <1>1, <1>2, <1>3
<1>5. fetches' = RemoveAt(m, i)
  BY <1>2 DEF Over
<1>6. PICK r : r = RemoveAt(m, i)
  OBVIOUS
<1>7. /\ r \in Seq(Fetch) /\ Len(m) \in Nat \ {0}
      /\ Len(r) = Len(m) - 1 /\ DOMAIN r = 1..(Len(m) - 1)
      /\ \A j \in 1..(Len(m) - 1) : r[j] = IF j < i THEN m[j] ELSE m[j + 1]
  BY <1>4, <1>6, RemoveAtIs
<1>8. ASSUME NEW j \in 1..(Len(fetches) - 1)
      PROVE  /\ j < i => r[j].overtaken
             /\ ~(j < i) => /\ r[j].overtaken = fetches[j + 1].overtaken
                            /\ r[j].query = fetches[j + 1].query
  <2>1. j \in DOMAIN fetches /\ j + 1 \in DOMAIN fetches
    BY <1>1
  <2>2. j < i => r[j] = m[j]
    BY <1>4, <1>7
  <2>3. ~(j < i) => r[j] = m[j + 1] /\ ~(j + 1 < i)
    BY <1>1, <1>4, <1>7
  <2>. QED BY <1>3, <1>10, <1>11, <2>1, <2>2, <2>3
<1>9. i \in 1..Len(fetches)
  BY <1>1
<1>. QED BY <1>4, <1>5, <1>6, <1>7, <1>8, <1>9

\* After the newest of the searches that were left is over, none is left that is
\* not overtaken; after another one, the newest is still the same.
LEMMA NewestIs ==
  ASSUME fetches \in Seq(Fetch), NEW i \in DOMAIN fetches, Over(i), UNCHANGED filter
  PROVE  /\ i = Len(fetches) => \A j \in DOMAIN fetches' : fetches'[j].overtaken
         /\ i # Len(fetches) /\ NewestPending => NewestPending'
         /\ (\A j \in DOMAIN fetches : fetches[j].overtaken)
              => \A j \in DOMAIN fetches' : fetches'[j].overtaken
<1>1. PICK n, r : n = Len(fetches) /\ r = fetches'
  OBVIOUS
<1>2. /\ n \in Nat \ {0} /\ i \in 1..n /\ DOMAIN r = 1..(n - 1) /\ Len(r) = n - 1
      /\ \A j \in 1..(n - 1) : j < i => r[j].overtaken
      /\ \A j \in 1..(n - 1) : ~(j < i) => /\ r[j].overtaken = fetches[j + 1].overtaken
                                           /\ r[j].query = fetches[j + 1].query
  BY <1>1, OverIs
<1>3. i = n => \A j \in DOMAIN r : r[j].overtaken
  BY <1>2
<1>4. ASSUME i # n, NewestPending
      PROVE  NewestPending'
  <2>1. n - 1 \in 1..(n - 1) /\ ~(n - 1 < i) /\ (n - 1) + 1 = n
    BY <1>2, <1>4
  <2>2. r[n - 1].overtaken = fetches[n].overtaken /\ r[n - 1].query = fetches[n].query
    BY <1>2, <2>1
  <2>3. r # <<>>
    BY <1>2, <2>1
  <2>4. ~r[n - 1].overtaken /\ r[n - 1].query = filter
    BY <1>1, <1>4, <2>2 DEF NewestPending
  <2>5. Len(fetches') = n - 1
    BY <1>1, <1>2
  <2>. QED BY <1>1, <2>3, <2>4, <2>5 DEF NewestPending
<1>5. ASSUME \A j \in DOMAIN fetches : fetches[j].overtaken, NEW j \in DOMAIN r
      PROVE  r[j].overtaken
  <2>1. DOMAIN fetches = 1..n
    BY <1>1, LenProperties
  <2>2. j + 1 \in 1..n /\ j \in 1..(n - 1)
    BY <1>2
  <2>. QED BY <1>2, <1>5, <2>1, <2>2
<1>. QED BY <1>1, <1>3, <1>4, <1>5

LEMMA AnswerSearch ==
  ASSUME SearchInv, NEW i \in DOMAIN fetches, Answer(i) \/ AnswerFails(i)
  PROVE  SearchInv'
<1>1. fetches \in Seq(Fetch) /\ Over(i) /\ UNCHANGED <<filter, timer, unasked>>
  BY DEF SearchInv, SearchTypes, Answer, AnswerFails
<1>2. /\ fetches' \in Seq(Fetch) /\ i \in 1..Len(fetches) /\ fetches[i] \in Fetch
  BY <1>1, OverIs, ElementOfSeq
<1>3. /\ Answer(i) => shown' = fetches[i].query /\ stale' = fetches[i].overtaken
      /\ AnswerFails(i) => shown' = shown /\ stale' = (stale \/ ~fetches[i].overtaken)
  BY DEF Answer, AnswerFails
<1>4. fetches[i].query \in Queries \union {NoQuery} /\ fetches[i].overtaken \in BOOLEAN
  BY <1>2 DEF Fetch
<1>5. SearchTypes'
  BY <1>1, <1>2, <1>3, <1>4 DEF SearchInv, SearchTypes
<1>6. /\ i = Len(fetches) => \A j \in DOMAIN fetches' : fetches'[j].overtaken
      /\ i # Len(fetches) /\ NewestPending => NewestPending'
      /\ (\A j \in DOMAIN fetches : fetches[j].overtaken)
           => \A j \in DOMAIN fetches' : fetches'[j].overtaken
  BY <1>1, NewestIs
<1>7. CASE timer \/ unasked
  BY <1>1, <1>5, <1>7 DEF SearchInv
<1>8. CASE NewestPending /\ i = Len(fetches)
  <2>1. ~fetches[i].overtaken /\ fetches[i].query = filter
    BY <1>8 DEF NewestPending
  <2>2. shown' = filter' \/ stale'
    BY <1>1, <1>3, <2>1
  <2>3. NewestOver'
    BY <1>6, <1>8, <2>2 DEF NewestOver
  <2>. QED BY <1>5, <2>3 DEF SearchInv
<1>9. CASE NewestPending /\ i # Len(fetches)
  BY <1>5, <1>6, <1>9 DEF SearchInv
<1>10. CASE NewestOver
  <2>1. fetches[i].overtaken /\ (shown = filter \/ stale)
    BY <1>10 DEF NewestOver
  <2>2. shown' = filter' \/ stale'
    BY <1>1, <1>3, <2>1
  <2>3. NewestOver'
    BY <1>6, <1>10, <2>2 DEF NewestOver
  <2>. QED BY <1>5, <2>3 DEF SearchInv
<1>. QED BY <1>7, <1>8, <1>9, <1>10 DEF SearchInv

LEMMA ReloadSearch ==
  ASSUME SearchInv, Reload
  PROVE  SearchInv'
<1>1. <<>> \in Seq(Fetch)
  OBVIOUS
<1>2. /\ filter' = NoQuery /\ timer' = FALSE /\ fetches' = <<>>
      /\ shown' = Nothing /\ stale' = TRUE /\ unasked' = FALSE
  BY DEF Reload
<1>3. NewestOver'
  BY <1>2 DEF NewestOver
<1>. QED BY <1>1, <1>2, <1>3 DEF SearchInv, SearchTypes

LEMMA SearchSame ==
  ASSUME SearchInv, UNCHANGED search
  PROVE  SearchInv'
BY DEF search, SearchInv, SearchTypes, NewestPending, NewestOver
-----------------------------------------------------------------------------
LEMMA NextIInv == IInv /\ [Next]_vars => IInv'
<1>. SUFFICES ASSUME IInv, [Next]_vars PROVE IInv'
  OBVIOUS
<1>0. FormInv /\ SearchInv
  BY DEF IInv
<1>1. ASSUME NEW k \in Kinds, ChangeType(k) PROVE IInv'
  <2>1. UNCHANGED search
    BY <1>1 DEF ChangeType
  <2>. QED BY <1>0, <1>1, <2>1, ChangeTypeInv, SearchSame DEF IInv
<1>2. CASE Add
  <2>1. UNCHANGED search
    BY <1>2 DEF Add
  <2>. QED BY <1>0, <1>2, <2>1, AddInv, SearchSame DEF IInv
<1>3. ASSUME NEW i \in DOMAIN rows, Del(i) PROVE IInv'
  <2>1. UNCHANGED search
    BY <1>3 DEF Del
  <2>. QED BY <1>0, <1>3, <2>1, DelInv, SearchSame DEF IInv
<1>4. ASSUME NEW i \in DOMAIN rows, Sel(i) PROVE IInv'
  <2>1. UNCHANGED search
    BY <1>4 DEF Sel
  <2>. QED BY <1>0, <1>4, <2>1, SelInv, SearchSame DEF IInv
<1>5. ASSUME NEW i \in DOMAIN rows, NEW v \in Values \union {NoValue}, Type(i, v) PROVE IInv'
  <2>1. UNCHANGED search /\ v \in Entries
    BY <1>5 DEF Type, Entries
  <2>. QED BY <1>0, <1>5, <2>1, TypeInv, SearchSame DEF IInv
<1>6. ASSUME NEW v \in Values, Select(v) PROVE IInv'
  <2>1. UNCHANGED search
    BY <1>6 DEF Select
  <2>. QED BY <1>0, <1>6, <2>1, SelectInv, SearchSame DEF IInv
<1>7. CASE Cancel
  <2>1. /\ UNCHANGED search /\ UNCHANGED <<page, post, saved>>
        /\ dialog' = "hidden" /\ waiter' = 0
    BY <1>7 DEF Cancel
  <2>. QED BY <1>0, <2>1, DialogInv, SearchSame DEF IInv
<1>8. ASSUME NEW q \in Queries \union {NoQuery}, Fill(q) PROVE IInv'
  <2>1. UNCHANGED <<page, post, saved>> /\ UNCHANGED <<dialog, waiter>>
    BY <1>8 DEF Fill
  <2>. QED BY <1>0, <1>8, <2>1, DialogInv, FillSearch DEF IInv
<1>20. CASE KeyUp
  <2>1. UNCHANGED <<page, post, saved>> /\ UNCHANGED <<dialog, waiter>>
    BY <1>20 DEF KeyUp
  <2>. QED BY <1>0, <1>20, <2>1, DialogInv, KeyUpSearch DEF IInv
<1>9. CASE Search
  <2>1. UNCHANGED <<page, post, saved>> /\ UNCHANGED <<dialog, waiter>>
    BY <1>9 DEF Search
  <2>. QED BY <1>0, <1>9, <2>1, DialogInv, SearchSearch DEF IInv
<1>10. ASSUME NEW i \in DOMAIN fetches, Answer(i) \/ AnswerFails(i) PROVE IInv'
  <2>1. UNCHANGED <<page, post, saved>> /\ UNCHANGED <<dialog, waiter>>
    BY <1>10 DEF Answer, AnswerFails
  <2>. QED BY <1>0, <1>10, <2>1, DialogInv, AnswerSearch DEF IInv
<1>11. CASE Submit
  <2>1. UNCHANGED search
    BY <1>11 DEF Submit
  <2>. QED BY <1>0, <1>11, <2>1, SubmitInv, SearchSame DEF IInv
<1>12. CASE Save
  <2>1. UNCHANGED search
    BY <1>12 DEF Save
  <2>. QED BY <1>0, <1>12, <2>1, SaveInv, SearchSame DEF IInv
<1>13. CASE Located
  <2>1. UNCHANGED search
    BY <1>13 DEF Located
  <2>. QED BY <1>0, <1>13, <2>1, LocatedInv, SearchSame DEF IInv
<1>14. CASE Refused
  <2>1. UNCHANGED search
    BY <1>14 DEF Refused
  <2>. QED BY <1>0, <1>14, <2>1, RefusedInv, SearchSame DEF IInv
<1>15. CASE PostFails
  <2>1. UNCHANGED search
    BY <1>15 DEF PostFails
  <2>. QED BY <1>0, <1>15, <2>1, PostFailsInv, SearchSame DEF IInv
<1>16. CASE Reload
  BY <1>0, <1>16, ReloadInv, ReloadSearch DEF IInv
<1>17. CASE UNCHANGED vars
  <2>1. UNCHANGED search /\ UNCHANGED <<page, post, saved>> /\ UNCHANGED <<dialog, waiter>>
    BY <1>17 DEF vars
  <2>. QED BY <1>0, <2>1, DialogInv, SearchSame DEF IInv
<1>18. CASE Edit
  BY <1>1, <1>2, <1>3, <1>4, <1>5, <1>18 DEF Edit
<1>19. CASE Dialog
  BY <1>6, <1>7, <1>8, <1>20, <1>9, <1>10, <1>19 DEF Dialog
<1>. QED BY <1>11, <1>12, <1>13, <1>14, <1>15, <1>16, <1>17, <1>18, <1>19 DEF Next

LEMMA AlwaysIInv == Spec => []IInv
BY InitIInv, NextIInv, PTL DEF Spec

\* The elements of the form and what it posts are rows with indices that the
\* script has given, and what the server saves is a sequence of values.
THEOREM TypeCorrect == Spec => []TypeOK
<1>1. IInv => TypeOK
  BY DEF IInv, FormInv, FormTypes, SearchInv, SearchTypes, Post, Fetch, TypeOK
<1>. QED BY <1>1, AlwaysIInv, PTL

\* However changes of the input, keys, debounced searches, answers, failures and
\* answers out of order come: when no search is to come, the dialog lists what the
\* server finds for its filter, unless the newest search failed or was overtaken,
\* or the last change of the input was one that no key followed.
THEOREM SearchShown == Spec => []ResultsForFilter
<1>1. IInv => ResultsForFilter
  BY DEF IInv, SearchInv, NewestPending, NewestOver, ResultsForFilter
<1>. QED BY <1>1, AlwaysIInv, PTL

\* Whatever was added, deleted, refused, lost or swapped before: a worker is saved
\* with one config for each element that was in the form, with the values of that
\* element, and exports in the order of the page if their indices are equally long.
THEOREM SavedAsEntered == Spec => SavedAsShown
<1>. DEFINE Kept == saved' # saved =>
                      /\ Copies(saved'.config) = Copies(Entered(post.rows))
                      /\ post.kind = "exporter" /\ SameDigits(post.rows)
                           => saved'.config = Entered(post.rows)
<1>1. ASSUME IInv, Save
      PROVE  Kept
  <2>1. post.rows \in Seq(RowSet) /\ Ascending(post.rows)
    BY <1>1 DEF IInv, FormInv, FormTypes, Post
  <2>2. PICK order \in Orders(post.kind, post.rows) :
          saved' = [kind |-> post.kind, config |-> Parsed(post.rows, order)]
    BY <1>1 DEF Save
  <2>3. saved'.config = Parsed(post.rows, order)
    BY <2>2
  <2>4. Copies(saved'.config) = Copies(Entered(post.rows))
    BY <2>1, <2>3, SameCopies
  <2>5. ASSUME post.kind = "exporter", SameDigits(post.rows)
        PROVE  saved'.config = Entered(post.rows)
    BY <2>1, <2>3, <2>5, SameOrder
  <2>. QED BY <2>4, <2>5
<1>2. ASSUME [Next]_vars, ~Save
      PROVE  saved' = saved
  <2>1. CASE Edit
    BY <2>1 DEF Edit, ChangeType, Add, Del, Sel, Type
  <2>2. CASE Dialog
    BY <2>2 DEF Dialog, Select, Cancel, Fill, KeyUp, Search, Answer, AnswerFails
  <2>3. CASE Submit \/ Located \/ Refused \/ PostFails \/ Reload
    BY <2>3 DEF Submit, Located, Refused, PostFails, Reload
  <2>4. CASE UNCHANGED vars
    BY <2>4 DEF vars
  <2>. QED BY <1>2, <2>1, <2>2, <2>3, <2>4 DEF Next
<1>3. IInv /\ [Next]_vars => Kept
  BY <1>1, <1>2
<1>4. IInv /\ [Next]_vars => [Kept]_vars
  BY <1>3
<1>. HIDE DEF Kept
<1>5. Spec => [][Kept]_vars
  BY <1>4, AlwaysIInv, PTL DEF Spec
<1>. USE DEF Kept
<1>. QED BY <1>5 DEF SavedAsShown
=============================================================================
