----------------------------- MODULE SumsProofs -----------------------------
(***************************************************************************)
(* What the sums of the models return: the facts that proofs about tables, *)
(* ledgers and storages need.  First SumTo of Sums: the sum of a           *)
(* table is the last of its partial sums; where a lemma is about two       *)
(* tables, so are the partial sums.  Then sums over finite sets, which are *)
(* sums of tables whose rows are the elements in some order.               *)
(***************************************************************************)
EXTENDS Sums, FiniteSetTheorems, TLAPS

\* g is the function of partial sums of f[1], ..., f[n].
IsRunning(g, f, n) ==
  /\ g \in [0..n -> Int]
  /\ g[0] = 0
  /\ \A i \in 1..n : g[i] = g[i-1] + f[i]

\* The least-number principle in first-order form.
LEMMA LeastElement ==
  ASSUME NEW T, T \subseteq Nat, T # {}
  PROVE  \E x \in T : \A y \in T : x <= y
<1>1. PICK x \in T : \A y \in T : ~ (<<y, x>> \in OpToRel(<, Nat))
  BY WFMin, NatLessThanWellFounded
<1>2. ASSUME NEW y \in T PROVE x <= y
  <2>1. <<y, x>> \notin OpToRel(<, Nat)
    BY <1>1
  <2>2. ~(y < x)
    BY <2>1 DEF OpToRel
  <2>. QED BY <2>2
<1>. QED BY <1>2

\* Every table with integers in its rows has partial sums.
LEMMA RunningExists ==
  ASSUME NEW n \in Nat, NEW f, \A i \in 1..n : f[i] \in Int
  PROVE  \E g : IsRunning(g, f, n)
<1> DEFINE Bad == {m \in 0..n : ~ \E g : IsRunning(g, f, m)}
<1>1. Bad = {} => n \notin Bad
  OBVIOUS
<1>2. SUFFICES ASSUME Bad # {} PROVE FALSE
  BY <1>1
<1> Bad \subseteq Nat
  OBVIOUS
<1> HIDE DEF Bad
<1>3. PICK m \in Bad : \A y \in Bad : m <= y
  BY <1>2, LeastElement
<1> USE DEF Bad
<1>4. CASE m = 0
  <2>1. IsRunning([i \in 0..0 |-> 0], f, 0)
    BY DEF IsRunning
  <2>. QED BY <2>1, <1>4
<1>5. CASE m # 0
  <2>1. m-1 \in 0..n /\ m - 1 \notin Bad
    BY <1>3, <1>5
  <2>2. PICK g : IsRunning(g, f, m-1)
    BY <2>1
  <2> DEFINE h == [i \in 0..m |-> IF i = m THEN g[m-1] + f[m] ELSE g[i]]
  <2>3. g[m-1] \in Int /\ f[m] \in Int /\ m \in 1..n
    BY <2>2, <1>5 DEF IsRunning
  <2>4. h \in [0..m -> Int]
    BY <2>2, <2>3 DEF IsRunning
  <2>5. h[0] = 0
    BY <2>2, <2>3 DEF IsRunning
  <2>6. ASSUME NEW i \in 1..m PROVE h[i] = h[i-1] + f[i]
    <3>1. i \in 0..m /\ i-1 \in 0..m /\ i-1 # m
      BY <2>3
    <3>2. h[i-1] = g[i-1]
      BY <3>1
    <3>3. CASE i = m
      BY <3>1, <3>2, <3>3
    <3>4. CASE i # m
      <4>1. i \in 1..(m-1)
        BY <3>4, <2>3
      <4>2. h[i] = g[i]
        BY <3>1, <3>4
      <4>. QED BY <4>1, <4>2, <3>2, <2>2 DEF IsRunning
    <3>. QED BY <3>3, <3>4
  <2>7. IsRunning(h, f, m)
    BY <2>4, <2>5, <2>6 DEF IsRunning
  <2>. QED BY <2>7
<1>. QED BY <1>4, <1>5

\* Whatever obeys the recursion of the partial sums ends in the same sum.
LEMMA RunningUnique ==
  ASSUME NEW n \in Nat, NEW f, \A i \in 1..n : f[i] \in Int, NEW g, NEW h,
         IsRunning(g, f, n),
         h[0] = 0, \A i \in 1..n : h[i] = h[i-1] + f[i]
  PROVE  g[n] = h[n]
<1> DEFINE Bad == {m \in 0..n : g[m] # h[m]}
<1>2. SUFFICES ASSUME Bad # {} PROVE FALSE
  OBVIOUS
<1> Bad \subseteq Nat
  OBVIOUS
<1> HIDE DEF Bad
<1>3. PICK m \in Bad : \A y \in Bad : m <= y
  BY <1>2, LeastElement
<1> USE DEF Bad
<1>4. m # 0
  BY DEF IsRunning
<1>5. m - 1 \in 0..n /\ m-1 \notin Bad
  BY <1>3, <1>4
<1>. QED BY <1>4, <1>5 DEF IsRunning

\* SumTo(f, n) is the last partial sum: the recursive function in its
\* definition is the function of partial sums.
LEMMA SumToRunning ==
  ASSUME NEW n \in Nat, NEW f, \A i \in 1..n : f[i] \in Int, NEW g, IsRunning(g, f, n)
  PROVE  SumTo(f, n) = g[n]
<1> DEFINE step(h) == [i \in 0..n |-> IF i = 0 THEN 0 ELSE h[i-1] + f[i]]
<1> DEFINE running == CHOOSE h : h = step(h)
<1>1. g = step(g)
  BY DEF IsRunning
<1>2. running = step(running)
  BY <1>1
<1>3. SumTo(f, n) = running[n]
  BY DEF SumTo
<1>4. /\ running[0] = step(running)[0]
      /\ \A i \in 1..n : running[i] = step(running)[i]
  BY <1>2
<1> HIDE DEF running
<1>5. running[0] = 0
  BY <1>4
<1>6. ASSUME NEW i \in 1..n PROVE running[i] = running[i-1] + f[i]
  <2>1. i \in 0..n /\ i # 0
    OBVIOUS
  <2>. QED BY <2>1, <1>4
<1>. QED BY <1>3, <1>5, <1>6, RunningUnique

\* The empty table.
LEMMA SumOfZeros ==
  ASSUME NEW n \in Nat, NEW f, \A i \in 1..n : f[i] \in Int, \A i \in 1..n : f[i] = 0
  PROVE  SumTo(f, n) = 0
<1>1. IsRunning([i \in 0..n |-> 0], f, n)
  BY DEF IsRunning
<1>. QED BY <1>1, SumToRunning

\* A sum of integers is an integer.
LEMMA SumIsInt ==
  ASSUME NEW n \in Nat, NEW f, \A i \in 1..n : f[i] \in Int
  PROVE  SumTo(f, n) \in Int
<1>1. PICK g : IsRunning(g, f, n)
  BY RunningExists
<1>2. SumTo(f, n) = g[n]
  BY <1>1, SumToRunning
<1>. QED BY <1>1, <1>2 DEF IsRunning

\* A sum of natural numbers is not negative.
LEMMA SumIsNat ==
  ASSUME NEW n \in Nat, NEW f, \A i \in 1..n : f[i] \in Nat
  PROVE  SumTo(f, n) \in Nat
<1>1. PICK g : IsRunning(g, f, n)
  BY RunningExists
<1>2. SumTo(f, n) = g[n]
  BY <1>1, SumToRunning
<1> DEFINE Bad == {m \in 0..n : g[m] \notin Nat}
<1>3. SUFFICES ASSUME Bad # {} PROVE FALSE
  BY <1>2
<1> Bad \subseteq Nat
  OBVIOUS
<1> HIDE DEF Bad
<1>4. PICK m \in Bad : \A y \in Bad : m <= y
  BY <1>3, LeastElement
<1> USE DEF Bad
<1>5. m # 0
  BY <1>1 DEF IsRunning
<1>6. m - 1 \in 0..n /\ m - 1 \notin Bad /\ m \in 1..n
  BY <1>4, <1>5
<1>7. g[m] = g[m-1] + f[m] /\ g[m-1] \in Nat /\ f[m] \in Nat
  BY <1>1, <1>6 DEF IsRunning
<1>. QED BY <1>7

\* Two tables summed row by row.
LEMMA SumOfSum ==
  ASSUME NEW n \in Nat, NEW f, \A i \in 1..n : f[i] \in Int, NEW d, \A i \in 1..n : d[i] \in Int,
         NEW h, \A i \in 1..n : h[i] \in Int, \A i \in 1..n : h[i] = f[i] + d[i]
  PROVE  SumTo(h, n) = SumTo(f, n) + SumTo(d, n)
<1>1. PICK g : IsRunning(g, f, n)
  BY RunningExists
<1>2. PICK e : IsRunning(e, d, n)
  BY RunningExists
<1> DEFINE s == [i \in 0..n |-> g[i] + e[i]]
<1>3. IsRunning(s, h, n)
  <2>1. s \in [0..n -> Int] /\ s[0] = 0
    BY <1>1, <1>2 DEF IsRunning
  <2>2. ASSUME NEW i \in 1..n PROVE s[i] = s[i-1] + h[i]
    <3>1. i \in 0..n /\ i-1 \in 0..n
      OBVIOUS
    <3>2. s[i] = g[i] + e[i] /\ s[i-1] = g[i-1] + e[i-1]
      BY <3>1
    <3>3. /\ g[i] = g[i-1] + f[i] /\ e[i] = e[i-1] + d[i]
          /\ g[i-1] \in Int /\ e[i-1] \in Int
      BY <1>1, <1>2, <3>1 DEF IsRunning
    <3>. QED BY <3>2, <3>3
  <2>. QED BY <2>1, <2>2 DEF IsRunning
<1>4. s[n] = g[n] + e[n]
  OBVIOUS
<1>. QED BY <1>1, <1>2, <1>3, <1>4, SumToRunning

\* A table with one row other than zero.
LEMMA SumOfOne ==
  ASSUME NEW n \in Nat, NEW f, \A i \in 1..n : f[i] \in Int, NEW k \in 1..n,
         \A i \in 1..n : i # k => f[i] = 0
  PROVE  SumTo(f, n) = f[k]
<1> DEFINE g == [i \in 0..n |-> IF i < k THEN 0 ELSE f[k]]
<1>1. IsRunning(g, f, n)
  <2>1. g \in [0..n -> Int] /\ g[0] = 0
    OBVIOUS
  <2>2. ASSUME NEW i \in 1..n PROVE g[i] = g[i-1] + f[i]
    <3>1. i \in 0..n /\ i-1 \in 0..n
      OBVIOUS
    <3>. QED BY <3>1
  <2>. QED BY <2>1, <2>2 DEF IsRunning
<1>2. SumTo(f, n) = g[n]
  BY <1>1, SumToRunning
<1>. QED BY <1>2

\* One row of a table changes by d: so does the sum.
LEMMA SumAfterUpdate ==
  ASSUME NEW n \in Nat, NEW f, \A i \in 1..n : f[i] \in Int, NEW h, \A i \in 1..n : h[i] \in Int,
         NEW k \in 1..n, \A i \in 1..n : i # k => h[i] = f[i]
  PROVE  SumTo(h, n) = SumTo(f, n) + (h[k] - f[k])
<1> DEFINE d == [i \in 1..n |-> IF i = k THEN h[k] - f[k] ELSE 0]
<1>1. d \in [1..n -> Int]
  OBVIOUS
<1>2. SumTo(d, n) = h[k] - f[k]
  BY <1>1, SumOfOne
<1>3. \A i \in 1..n : h[i] = f[i] + d[i]
  OBVIOUS
<1> HIDE DEF d
<1>4. SumTo(h, n) = SumTo(f, n) + SumTo(d, n)
  BY <1>1, <1>3, SumOfSum
<1>. QED BY <1>2, <1>4

-----------------------------------------------------------------------------
\* g is the function of the sums of f over the subsets of S.
IsSums(g, f, S) ==
  /\ g \in [SUBSET S -> Int]
  /\ g[{}] = 0
  /\ \A T \in SUBSET S : \A x \in T : g[T] = f[x] + g[T \ {x}]

\* h takes one element after the other, in an order of its own for each subset.
TakesOneByOne(h, f, S) ==
  /\ h[{}] = 0
  /\ \A T \in SUBSET S : T # {} => \E x \in T : h[T] = f[x] + h[T \ {x}]

\* Over a finite set there are such sums, in whatever order they are taken.
LEMMA SumsExist ==
  ASSUME NEW S, IsFiniteSet(S), NEW f, \A x \in S : f[x] \in Int
  PROVE  \E g : IsSums(g, f, S)
<1>0. PICK n \in Nat : ExistsBijection(1..n, S)
  BY FS_NatBijection
<1>1. PICK b \in Bijection(1..n, S) : TRUE
  BY <1>0 DEF ExistsBijection
<1>2. /\ b \in [1..n -> S]
      /\ \A x \in S : \E i \in 1..n : b[i] = x
      /\ \A i, j \in 1..n : b[i] = b[j] => i = j
  BY <1>1 DEF Bijection, Injection, Surjection, IsInjective
<1> DEFINE row(T) == [i \in 1..n |-> IF b[i] \in T THEN f[b[i]] ELSE 0]
           g == [T \in SUBSET S |-> SumTo(row(T), n)]
<1>3. ASSUME NEW T \in SUBSET S
      PROVE  row(T) \in [1..n -> Int]
  BY <1>2
<1>4. g \in [SUBSET S -> Int]
  <2>1. ASSUME NEW T \in SUBSET S  PROVE SumTo(row(T), n) \in Int
    <3>1. \A i \in 1..n : row(T)[i] \in Int
      BY <1>3
    <3> HIDE DEF row
    <3>. QED BY <3>1, SumIsInt
  <2> HIDE DEF row
  <2>. QED BY <2>1
<1>5. g[{}] = 0
  <2>1. \A i \in 1..n : row({})[i] = 0
    OBVIOUS
  <2> HIDE DEF row
  <2>2. SumTo(row({}), n) = 0
    BY <2>1, SumOfZeros
  <2>. QED BY <2>2
<1>6. ASSUME NEW T \in SUBSET S, NEW x \in T
      PROVE  g[T] = f[x] + g[T \ {x}]
  <2>1. PICK k \in 1..n : b[k] = x
    BY <1>2
  <2>2. /\ \A i \in 1..n : row(T)[i] \in Int /\ row(T \ {x})[i] \in Int
        /\ \A i \in 1..n : i # k => row(T)[i] = row(T \ {x})[i]
        /\ row(T)[k] = f[x] /\ row(T \ {x})[k] = 0 /\ f[x] \in Int
    BY <1>2, <1>3, <2>1
  <2>3. PICK p, q : p = row(T) /\ q = row(T \ {x})
    OBVIOUS
  <2>4. g[T] = SumTo(p, n) /\ g[T \ {x}] = SumTo(q, n)
    BY <2>3
  <2>5. /\ \A i \in 1..n : p[i] \in Int /\ q[i] \in Int
        /\ \A i \in 1..n : i # k => p[i] = q[i]
        /\ p[k] = f[x] /\ q[k] = 0 /\ f[x] \in Int
    BY <2>2, <2>3
  <2> HIDE DEF row, g
  <2>6. SumTo(p, n) = SumTo(q, n) + (p[k] - q[k])
    BY <2>5, SumAfterUpdate
  <2>7. SumTo(q, n) \in Int
    BY <2>5, SumIsInt
  <2>. QED BY <2>4, <2>5, <2>6, <2>7
<1> HIDE DEF g
<1>. QED BY <1>4, <1>5, <1>6 DEF IsSums

\* Whatever takes the elements of each subset one after the other gets the same.
LEMMA SumsUnique ==
  ASSUME NEW S, IsFiniteSet(S), NEW f, NEW g, IsSums(g, f, S), NEW h, TakesOneByOne(h, f, S)
  PROVE  \A T \in SUBSET S : h[T] = g[T]
<1> DEFINE Bad == {m \in Nat : \E T \in SUBSET S : Cardinality(T) = m /\ h[T] # g[T]}
<1>1. SUFFICES ASSUME Bad # {} PROVE FALSE
  BY FS_Subset, FS_CardinalityType
<1>2. Bad \subseteq Nat
  OBVIOUS
<1> HIDE DEF Bad
<1>3. PICK m \in Bad : \A y \in Bad : m <= y
  BY <1>1, <1>2, LeastElement
<1>4. PICK T \in SUBSET S : Cardinality(T) = m /\ h[T] # g[T]
  BY <1>3 DEF Bad
<1>5. T # {}
  BY <1>4 DEF IsSums, TakesOneByOne
<1>6. PICK x \in T : h[T] = f[x] + h[T \ {x}]
  BY <1>5 DEF TakesOneByOne
<1>7. IsFiniteSet(T)
  BY FS_Subset
<1>8. Cardinality(T \ {x}) = m - 1 /\ m - 1 \in Nat
  <2>1. IsFiniteSet(T \ {x}) /\ Cardinality(T \ {x}) = Cardinality(T) - 1
    BY <1>7, FS_RemoveElement
  <2>2. Cardinality(T \ {x}) \in Nat
    BY <2>1, FS_CardinalityType
  <2>. QED BY <1>4, <2>1, <2>2
<1>9. m - 1 \notin Bad
  BY <1>2, <1>3, <1>8
<1>10. h[T \ {x}] = g[T \ {x}]
  BY <1>8, <1>9 DEF Bad
<1>. QED BY <1>4, <1>6, <1>10 DEF IsSums

\* SumOver is one of those.
LEMMA SumOverIs ==
  ASSUME NEW S, IsFiniteSet(S), NEW f, NEW g, IsSums(g, f, S)
  PROVE  SumOver(f, S) = g[S]
<1> DEFINE step(h) == [T \in SUBSET S |-> IF T = {} THEN 0
                        ELSE f[CHOOSE x \in T : TRUE] + h[T \ {CHOOSE x \in T : TRUE}]]
           iter == CHOOSE h : h = step(h)
<1>1. g = step(g)
  <2>1. \A T \in SUBSET S : g[T] = step(g)[T]
    BY DEF IsSums
  <2>. QED BY <2>1 DEF IsSums
<1>2. iter = step(iter)
  BY <1>1
<1>3. SumOver(f, S) = iter[S]
  BY DEF SumOver, MapThenSumSet, MapThenFoldSet
<1> HIDE DEF iter
<1>4. iter[{}] = 0
  BY <1>2
<1>5. ASSUME NEW T \in SUBSET S, T # {}
      PROVE  \E x \in T : iter[T] = f[x] + iter[T \ {x}]
  <2>1. (CHOOSE x \in T : TRUE) \in T
    BY <1>5
  <2>2. iter[T] = step(iter)[T]
    BY <1>2
  <2>3. PICK x \in T : x = CHOOSE y \in T : TRUE
    BY <2>1
  <2>4. iter[T] = f[x] + iter[T \ {x}]
    BY <1>5, <2>2, <2>3
  <2>. QED BY <2>4
<1>6. PICK it : it = iter
  OBVIOUS
<1>7. TakesOneByOne(it, f, S)
  BY <1>4, <1>5, <1>6 DEF TakesOneByOne
<1>8. \A T \in SUBSET S : it[T] = g[T]
  BY <1>7, SumsUnique
<1>. QED BY <1>3, <1>6, <1>8

\* The sum over a finite set is the sum over the rest and one element.
LEMMA SumOverTake ==
  ASSUME NEW S, IsFiniteSet(S), NEW f, \A x \in S : f[x] \in Int, NEW k \in S
  PROVE  /\ SumOver(f, S \ {k}) \in Int
         /\ SumOver(f, S) = f[k] + SumOver(f, S \ {k})
<1> DEFINE R == S \ {k}
<1>1. PICK g : IsSums(g, f, S)
  BY SumsExist
<1> DEFINE h == [T \in SUBSET R |-> g[T]]
<1>2. IsSums(h, f, R)
  <2>1. \A T \in SUBSET R : T \in SUBSET S /\ g[T] \in Int
    BY <1>1 DEF IsSums
  <2>2. h \in [SUBSET R -> Int] /\ h[{}] = 0
    BY <1>1, <2>1 DEF IsSums
  <2>3. ASSUME NEW T \in SUBSET R, NEW x \in T PROVE h[T] = f[x] + h[T \ {x}]
    <3>1. T \ {x} \in SUBSET R /\ g[T] = f[x] + g[T \ {x}]
      BY <1>1, <2>1 DEF IsSums
    <3>. QED BY <3>1
  <2>. QED BY <2>2, <2>3 DEF IsSums
<1>3. h[R] = g[R] /\ g[S] = f[k] + g[R] /\ g[R] \in Int
  BY <1>1 DEF IsSums
<1>4. IsFiniteSet(R)
  BY FS_RemoveElement
<1> HIDE DEF h, R
<1>5. SumOver(f, R) = h[R]
  BY <1>2, <1>4, SumOverIs
<1>6. SumOver(f, S) = g[S]
  BY <1>1, SumOverIs
<1>. QED BY <1>3, <1>5, <1>6 DEF R

\* It is an integer.
LEMMA SumOverIsInt ==
  ASSUME NEW S, IsFiniteSet(S), NEW f, \A x \in S : f[x] \in Int
  PROVE  SumOver(f, S) \in Int
<1>1. PICK g : IsSums(g, f, S)
  BY SumsExist
<1>2. SumOver(f, S) = g[S]
  BY <1>1, SumOverIs
<1>3. S \in SUBSET S
  OBVIOUS
<1>. QED BY <1>1, <1>2, <1>3 DEF IsSums

\* Nothing adds up to zero.
LEMMA SumOverEmpty == \A f : SumOver(f, {}) = 0
<1>. TAKE f
<1> DEFINE g == [T \in SUBSET {} |-> 0]
<1>1. IsSums(g, f, {})
  BY DEF IsSums
<1>2. IsFiniteSet({})
  BY FS_EmptySet
<1>3. g[{}] = 0
  OBVIOUS
<1> HIDE DEF g
<1>. QED BY <1>1, <1>2, <1>3, SumOverIs

\* Only the values on the set count.
LEMMA SumOverSame ==
  ASSUME NEW S, IsFiniteSet(S), NEW f, \A x \in S : f[x] \in Int,
         NEW h, \A x \in S : h[x] = f[x]
  PROVE  SumOver(h, S) = SumOver(f, S)
<1>1. PICK g : IsSums(g, f, S)
  BY SumsExist
<1>2. IsSums(g, h, S)
  BY <1>1 DEF IsSums
<1>. QED BY <1>1, <1>2, SumOverIs

\* One value changes by d: so does the sum.
LEMMA SumOverUpdate ==
  ASSUME NEW S, IsFiniteSet(S), NEW f, \A x \in S : f[x] \in Int, NEW k \in S,
         NEW h, \A x \in S : h[x] \in Int, \A x \in S \ {k} : h[x] = f[x]
  PROVE  SumOver(h, S) = SumOver(f, S) + (h[k] - f[k])
<1>1. IsFiniteSet(S \ {k})
  BY FS_RemoveElement
<1>2. /\ SumOver(f, S \ {k}) \in Int
      /\ SumOver(f, S) = f[k] + SumOver(f, S \ {k})
  BY SumOverTake
<1>3. SumOver(h, S) = h[k] + SumOver(h, S \ {k})
  BY SumOverTake
<1>4. \A x \in S \ {k} : f[x] \in Int
  OBVIOUS
<1>5. SumOver(h, S \ {k}) = SumOver(f, S \ {k})
  BY <1>1, <1>4, SumOverSame
<1>. QED BY <1>2, <1>3, <1>5

\* Two columns summed element by element.
LEMMA SumOverSum ==
  ASSUME NEW S, IsFiniteSet(S), NEW f, \A x \in S : f[x] \in Int, NEW d, \A x \in S : d[x] \in Int,
         NEW h, \A x \in S : h[x] = f[x] + d[x]
  PROVE  SumOver(h, S) = SumOver(f, S) + SumOver(d, S)
<1>1. PICK g : IsSums(g, f, S)
  BY SumsExist
<1>2. PICK e : IsSums(e, d, S)
  BY SumsExist
<1> DEFINE s == [T \in SUBSET S |-> g[T] + e[T]]
<1>3. IsSums(s, h, S)
  <2>1. s \in [SUBSET S -> Int] /\ s[{}] = 0
    BY <1>1, <1>2 DEF IsSums
  <2>2. ASSUME NEW T \in SUBSET S, NEW x \in T PROVE s[T] = h[x] + s[T \ {x}]
    <3>1. T \ {x} \in SUBSET S /\ x \in S
      OBVIOUS
    <3>2. /\ g[T] = f[x] + g[T \ {x}] /\ e[T] = d[x] + e[T \ {x}]
          /\ g[T \ {x}] \in Int /\ e[T \ {x}] \in Int
      BY <1>1, <1>2, <3>1 DEF IsSums
    <3>3. s[T] = g[T] + e[T] /\ s[T \ {x}] = g[T \ {x}] + e[T \ {x}]
      BY <3>1
    <3>4. f[x] \in Int /\ d[x] \in Int /\ h[x] = f[x] + d[x]
      BY <3>1
    <3> HIDE DEF s
    <3>. QED BY <3>2, <3>3, <3>4
  <2>. QED BY <2>1, <2>2 DEF IsSums
<1>4. s[S] = g[S] + e[S]
  OBVIOUS
<1> HIDE DEF s
<1>. QED BY <1>1, <1>2, <1>3, <1>4, SumOverIs

\* What is zero need not be summed.
LEMMA SumOverPart ==
  ASSUME NEW S, IsFiniteSet(S), NEW T, T \subseteq S, NEW d, \A x \in T : d[x] \in Int,
         NEW h, \A x \in S : h[x] = IF x \in T THEN d[x] ELSE 0
  PROVE  SumOver(h, S) = SumOver(d, T)
<1>1. IsFiniteSet(T)
  BY FS_Subset
<1>2. PICK g : IsSums(g, d, T)
  BY <1>1, SumsExist
<1> DEFINE s == [U \in SUBSET S |-> g[U \intersect T]]
<1>3. IsSums(s, h, S)
  <2>1. s \in [SUBSET S -> Int] /\ s[{}] = 0
    <3>1. \A U \in SUBSET S : U \intersect T \in SUBSET T
      OBVIOUS
    <3>2. {} \intersect T = {}
      OBVIOUS
    <3>. QED BY <1>2, <3>1, <3>2 DEF IsSums
  <2>2. ASSUME NEW U \in SUBSET S, NEW x \in U PROVE s[U] = h[x] + s[U \ {x}]
    <3>1. s[U] = g[U \intersect T] /\ s[U \ {x}] = g[(U \ {x}) \intersect T]
      OBVIOUS
    <3> HIDE DEF s
    <3>2. CASE x \in T
      <4>1. (U \ {x}) \intersect T = (U \intersect T) \ {x}
        OBVIOUS
      <4>2. g[U \intersect T] = d[x] + g[(U \intersect T) \ {x}]
        BY <1>2, <3>2 DEF IsSums
      <4>. QED BY <3>1, <3>2, <4>1, <4>2
    <3>3. CASE x \notin T
      <4>1. (U \ {x}) \intersect T = U \intersect T /\ h[x] = 0
        BY <3>3
      <4>2. s[U] = s[U \ {x}]
        BY <3>1, <4>1
      <4>3. s[U \ {x}] \in Int
        BY <2>1
      <4>. QED BY <4>1, <4>2, <4>3
    <3>. QED BY <3>2, <3>3
  <2>. QED BY <2>1, <2>2 DEF IsSums
<1>4. s[S] = g[T]
  <2>1. S \intersect T = T
    OBVIOUS
  <2>. QED BY <2>1
<1> HIDE DEF s
<1>. QED BY <1>1, <1>2, <1>3, <1>4, SumOverIs

\* A sum of natural numbers is not negative.
LEMMA SumOverIsNat ==
  ASSUME NEW S, IsFiniteSet(S), NEW f, \A x \in S : f[x] \in Nat
  PROVE  SumOver(f, S) \in Nat
<1>1. PICK g : IsSums(g, f, S)
  BY SumsExist
<1>2. SumOver(f, S) = g[S]
  BY <1>1, SumOverIs
<1> DEFINE Bad == {m \in Nat : \E T \in SUBSET S : Cardinality(T) = m /\ g[T] \notin Nat}
<1>3. SUFFICES ASSUME Bad # {} PROVE FALSE
  BY <1>2, FS_CardinalityType
<1>4. Bad \subseteq Nat
  OBVIOUS
<1> HIDE DEF Bad
<1>5. PICK m \in Bad : \A y \in Bad : m <= y
  BY <1>3, <1>4, LeastElement
<1>6. PICK T \in SUBSET S : Cardinality(T) = m /\ g[T] \notin Nat
  BY <1>5 DEF Bad
<1>7. PICK x \in T : TRUE
  <2>1. g[{}] = 0
    BY <1>1 DEF IsSums
  <2>2. T # {}
    <3>1. ASSUME T = {}  PROVE FALSE
      <4>1. g[T] = 0
        BY <2>1, <3>1
      <4>2. 0 \in Nat
        OBVIOUS
      <4>. QED BY <1>6, <4>1, <4>2
    <3>. QED BY <3>1
  <2>. QED BY <2>2
<1>8. IsFiniteSet(T \ {x}) /\ Cardinality(T \ {x}) = m - 1 /\ m \in Nat
  <2>1. IsFiniteSet(T)
    BY FS_Subset
  <2>. QED BY <1>4, <1>6, <2>1, FS_RemoveElement
<1>9. m - 1 \in Nat /\ m - 1 \notin Bad
  <2>1. m - 1 \in Nat
    BY <1>8, FS_CardinalityType
  <2>. QED BY <1>5, <1>8, <2>1
<1>10. g[T \ {x}] \in Nat
  BY <1>8, <1>9 DEF Bad
<1>11. g[T] = f[x] + g[T \ {x}] /\ f[x] \in Nat
  BY <1>1 DEF IsSums
<1>. QED BY <1>6, <1>10, <1>11

\* Values that replace others: their sum is added at least, and exactly if what
\* they replace was zero.
LEMMA SumOverReplace ==
  ASSUME NEW S, IsFiniteSet(S), NEW T, T \subseteq S, NEW f, \A x \in S : f[x] \in Nat,
         NEW d, \A x \in T : d[x] \in Int,
         NEW h, \A x \in S : h[x] = IF x \in T THEN d[x] ELSE f[x]
  PROVE  /\ SumOver(f, S) + SumOver(d, T) >= SumOver(h, S)
         /\ (\A x \in T : f[x] = 0) => SumOver(h, S) = SumOver(f, S) + SumOver(d, T)
<1> DEFINE put == [x \in S |-> IF x \in T THEN d[x] ELSE 0]
           gone == [x \in S |-> IF x \in T THEN f[x] ELSE 0]
           both == [x \in S |-> f[x] + put[x]]
<1>1. /\ \A x \in S : put[x] \in Int /\ gone[x] \in Nat
      /\ \A x \in S : put[x] = IF x \in T THEN d[x] ELSE 0
      /\ \A x \in S : gone[x] = IF x \in T THEN f[x] ELSE 0
      /\ \A x \in S : both[x] = f[x] + put[x]
  OBVIOUS
<1>2. \A x \in S : both[x] = h[x] + gone[x]
  OBVIOUS
<1>3. /\ \A x \in S : f[x] \in Int /\ h[x] \in Int /\ gone[x] \in Int
  OBVIOUS
<1> HIDE DEF put, gone, both
<1>4. SumOver(put, S) = SumOver(d, T)
  BY <1>1, SumOverPart
<1>5. SumOver(both, S) = SumOver(f, S) + SumOver(put, S)
  BY <1>1, <1>3, SumOverSum
<1>6. SumOver(both, S) = SumOver(h, S) + SumOver(gone, S)
  BY <1>2, <1>3, SumOverSum
<1>7. SumOver(gone, S) \in Nat
  BY <1>1, SumOverIsNat
<1>8. SumOver(f, S) \in Int /\ SumOver(h, S) \in Int /\ SumOver(put, S) \in Int
  BY <1>1, <1>3, SumOverIsInt
<1>9. ASSUME \A x \in T : f[x] = 0  PROVE  SumOver(gone, S) = 0
  <2> DEFINE zero == [x \in {} |-> 0]
  <2>1. \A x \in S : gone[x] = IF x \in {} THEN zero[x] ELSE 0
    BY <1>1, <1>9
  <2> HIDE DEF zero
  <2>2. SumOver(gone, S) = SumOver(zero, {})
    BY <2>1, SumOverPart
  <2>. QED BY <2>2, SumOverEmpty
<1>. QED BY <1>4, <1>5, <1>6, <1>7, <1>8, <1>9
=============================================================================
