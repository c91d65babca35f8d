---------------------------- MODULE BacktestProofs ----------------------------
(***************************************************************************)
(* Proofs about Backtest.                                                  *)
(***************************************************************************)
EXTENDS Backtest, FiniteSetTheorems, SequenceTheorems, TLAPS

-----------------------------------------------------------------------------
(* Least numbers, and sets of numbers in ascending order. *)

LEMMA LeastNat ==
    ASSUME NEW T, T \subseteq Nat, T # {}
    PROVE  \E n \in T : \A m \in T : n <= m
<1>1. IsWellFoundedOn(OpToRel(<, Nat), Nat)
  BY NatLessThanWellFounded
<1>2. PICK n \in T : \A m \in T : ~(<<m, n>> \in OpToRel(<, Nat))
  BY <1>1, WFMin
<1>3. ASSUME NEW m \in T PROVE n <= m
  <2>1. m \in Nat /\ n \in Nat
    OBVIOUS
  <2>2. ~(m < n)
    BY <1>2, <2>1 DEF OpToRel
  <2> QED  BY <2>1, <2>2
<1> QED  BY <1>3

\* How many members of a set are below a number.
Rank(S, x) == Cardinality({y \in S : y < x})

LEMMA RankBounds ==
    ASSUME NEW S, S \subseteq Nat, IsFiniteSet(S), NEW x \in S
    PROVE  /\ Rank(S, x) \in 0..(Cardinality(S) - 1)
           /\ \A y \in S : x < y => Rank(S, x) < Rank(S, y)
<1>1. /\ IsFiniteSet(S \ {x}) /\ Cardinality(S \ {x}) = Cardinality(S) - 1
      /\ Cardinality(S) \in Nat
  BY FS_RemoveElement, FS_CardinalityType
<1>2. {y \in S : y < x} \in SUBSET (S \ {x})
  OBVIOUS
<1>3. /\ IsFiniteSet({y \in S : y < x})
      /\ Cardinality({y \in S : y < x}) <= Cardinality(S \ {x})
  BY <1>1, <1>2, FS_Subset
<1>4. Rank(S, x) \in Nat
  BY <1>3, FS_CardinalityType DEF Rank
<1>5. ASSUME NEW y \in S, x < y
      PROVE  Rank(S, x) < Rank(S, y)
  <2>1. {z \in S : z < x} \cup {x} \in SUBSET {z \in S : z < y}
    <3>1. x \in Nat /\ y \in Nat /\ \A z \in S : z \in Nat
      OBVIOUS
    <3>2. ASSUME NEW z \in {z \in S : z < x} \cup {x} PROVE z \in S /\ z < y
      BY <1>5, <3>1
    <3> QED  BY <3>2
  <2>2. IsFiniteSet({z \in S : z < y})
    BY FS_Subset, {z \in S : z < y} \in SUBSET S
  <2>3. Cardinality({z \in S : z < x} \cup {x}) <= Cardinality({z \in S : z < y})
    BY <2>1, <2>2, FS_Subset
  <2>4. Cardinality({z \in S : z < x} \cup {x}) = Cardinality({z \in S : z < x}) + 1
    BY <1>3, FS_AddElement
  <2>5. Cardinality({z \in S : z < y}) \in Nat
    BY <2>2, FS_CardinalityType
  <2> QED  BY <1>4, <2>3, <2>4, <2>5 DEF Rank
<1> QED  BY <1>1, <1>3, <1>4, <1>5 DEF Rank

\* A sequence that lists a set of numbers in ascending order.
Lists(q, S) ==
    /\ q \in Seq(S) /\ DOMAIN q = 1..Cardinality(S) /\ Len(q) = Cardinality(S)
    /\ \A x \in S : \E i \in DOMAIN q : q[i] = x
    /\ \A i, j \in DOMAIN q : i < j => q[i] < q[j]

LEMMA AscendingLists ==
    ASSUME NEW S, S \subseteq Nat, IsFiniteSet(S)
    PROVE  Lists(Ascending(S), S)
<1> DEFINE n == Cardinality(S)
           rank == [x \in S |-> Rank(S, x)]
           q == Ascending(S)
<1>0. q = [j \in 1..n |-> CHOOSE z \in S : Cardinality({y \in S : y < z}) = j - 1]
  BY Zenon DEF Ascending
<1>1. n \in Nat
  BY FS_CardinalityType
<1>2. ASSUME NEW x \in S, NEW y \in S, Rank(S, x) = Rank(S, y)
      PROVE  x = y
  <2>1. x \in Nat /\ y \in Nat
    OBVIOUS
  <2>2. ~(x < y) /\ ~(y < x)
    <3>1. Rank(S, x) \in 0..(n - 1) /\ Rank(S, y) \in 0..(n - 1)
      BY RankBounds
    <3>2. (x < y => Rank(S, x) < Rank(S, y)) /\ (y < x => Rank(S, y) < Rank(S, x))
      BY RankBounds
    <3> HIDE DEF n
    <3> QED  BY <1>1, <1>2, <3>1, <3>2
  <2> QED  BY <2>1, <2>2
<1>3. rank \in Injection(S, 0..(n - 1))
  <2>1. rank \in [S -> 0..(n - 1)]
    BY RankBounds
  <2>2. \A x, y \in S : rank[x] = rank[y] => x = y
    BY <1>2
  <2> QED  BY <2>1, <2>2 DEF Injection, IsInjective
<1>4. rank \in Surjection(S, 0..(n - 1))
  <2>1. IsFiniteSet(0..(n - 1)) /\ Cardinality(0..(n - 1)) = n
    <3>1. 0 \in Int /\ n - 1 \in Int
      BY <1>1
    <3>2. IsFiniteSet(0..(n - 1)) /\ Cardinality(0..(n - 1)) = IF 0 > n - 1 THEN 0 ELSE n - 1 - 0 + 1
      BY <3>1, FS_Interval
    <3> HIDE DEF n
    <3> QED  BY <1>1, <3>2
  <2> QED  BY <1>3, <2>1, FS_Injection
<1>5. ASSUME NEW i \in 1..n
      PROVE  q[i] \in S /\ Rank(S, q[i]) = i - 1
  <2>1. i - 1 \in 0..(n - 1)
    BY <1>1
  <2>2. PICK x \in S : rank[x] = i - 1
    BY <1>4, <2>1 DEF Surjection
  <2>3. Cardinality({y \in S : y < x}) = i - 1
    BY <2>2 DEF Rank
  <2>4. q[i] = CHOOSE z \in S : Cardinality({y \in S : y < z}) = i - 1
    <3> HIDE DEF q, n
    <3> QED  BY <1>0, Zenon
  <2>5. q[i] \in S /\ Cardinality({y \in S : y < q[i]}) = i - 1
    BY <2>3, <2>4, Zenon
  <2> QED  BY <2>5 DEF Rank
<1>6. /\ DOMAIN q = 1..n
      /\ q = [i \in 1..n |-> q[i]]
  <2> HIDE DEF q, n
  <2>1. DOMAIN q = 1..n
    BY <1>0, Zenon
  <2>2. q = [i \in DOMAIN q |-> q[i]]
    BY <1>0
  <2> QED  BY <2>1, <2>2
<1> HIDE DEF q
<1>7. q \in Seq(S) /\ Len(q) = n
  BY <1>1, <1>5, <1>6
<1>8. ASSUME NEW x \in S
      PROVE  \E i \in 1..n : q[i] = x
  <2>1. Rank(S, x) \in 0..(n - 1)
    BY RankBounds
  <2>2. PICK i \in 1..n : i - 1 = Rank(S, x)
    <3> HIDE DEF n
    <3>1. Rank(S, x) + 1 \in 1..n
      BY <1>1, <2>1
    <3> QED  BY <2>1, <3>1
  <2>3. q[i] \in S /\ Rank(S, q[i]) = Rank(S, x)
    BY <1>5, <2>2
  <2> QED  BY <1>2, <2>3
<1>9. ASSUME NEW i \in 1..n, NEW j \in 1..n, i < j
      PROVE  q[i] < q[j]
  <2>1. /\ q[i] \in S /\ Rank(S, q[i]) = i - 1
        /\ q[j] \in S /\ Rank(S, q[j]) = j - 1
    BY <1>5
  <2>2. q[j] < q[i] => Rank(S, q[j]) < Rank(S, q[i])
    BY <2>1, RankBounds
  <2>3. ~(q[j] < q[i]) /\ q[i] # q[j]
    BY <1>1, <1>9, <2>1, <2>2
  <2>4. q[i] \in Nat /\ q[j] \in Nat
    BY <2>1
  <2> QED  BY <2>3, <2>4
<1>10. Lists(q, S)
  BY <1>6, <1>7, <1>8, <1>9 DEF Lists
<1> QED  BY <1>10 DEF q

LEMMA ListRange ==
    ASSUME NEW S, NEW q, Lists(q, S)
    PROVE  ToSet(q) = S /\ \A i \in DOMAIN q : q[i] \in S
<1>1. \A i \in DOMAIN q : q[i] \in S
  BY DEF Lists
<1> QED  BY <1>1 DEF Lists, ToSet

\* A sequence takes the elements of another at a set of positions, in their order.
Picks(sub, x, at) ==
    /\ DOMAIN sub = 1..Cardinality(at) /\ Cardinality(at) \in Nat
    /\ sub = [k \in 1..Cardinality(at) |-> sub[k]]
    /\ \A k \in DOMAIN sub : Ascending(at)[k] \in at /\ sub[k] = x[Ascending(at)[k]]
    /\ \A k, j \in DOMAIN sub : k < j => Ascending(at)[k] < Ascending(at)[j]

LEMMA SubPicks ==
    ASSUME NEW x, NEW at, at \subseteq Nat, IsFiniteSet(at)
    PROVE  Picks(Sub(x, at), x, at)
<1>1. Lists(Ascending(at), at)
  BY AscendingLists
<1>2. Sub(x, at) = [k \in DOMAIN Ascending(at) |-> x[Ascending(at)[k]]]
  BY DEF Sub
<1>3. \A k \in DOMAIN Ascending(at) : Ascending(at)[k] \in at
  BY <1>1 DEF Lists
<1>4. Cardinality(at) \in Nat
  BY FS_CardinalityType
<1> DEFINE sub == Sub(x, at)
<1> HIDE DEF sub
<1>5. sub = [k \in DOMAIN Ascending(at) |-> x[Ascending(at)[k]]]
  BY <1>2 DEF sub
<1>6. DOMAIN sub = 1..Cardinality(at) /\ sub = [k \in DOMAIN sub |-> sub[k]]
  BY <1>1, <1>5 DEF Lists
<1>7. Picks(sub, x, at)
  BY <1>1, <1>3, <1>4, <1>5, <1>6 DEF Lists, Picks
<1> QED  BY <1>7 DEF sub

\* A set of days has a last one.
LEMMA LastIsLast ==
    ASSUME NEW S, S \subseteq Nat, IsFiniteSet(S), S # {}
    PROVE  Max(S) \in S /\ \A x \in S : x <= Max(S)
<1> DEFINE n == Cardinality(S)
           q == Ascending(S)
<1>1. Lists(q, S) /\ n \in Nat /\ n # 0
  BY AscendingLists, FS_CardinalityType, FS_EmptySet
<1> HIDE DEF q, n
<1>2. DOMAIN q = 1..n /\ \A i \in 1..n : q[i] \in S /\ q[i] \in Nat
  <2>1. DOMAIN q = 1..n
    BY <1>1 DEF Lists, n
  <2> QED  BY <1>1, <2>1, ListRange
<1>3. ASSUME NEW x \in S PROVE x <= q[n]
  <2>1. PICK i \in 1..n : q[i] = x
    BY <1>1, <1>2 DEF Lists
  <2>2. CASE i = n
    BY <1>2, <2>1, <2>2
  <2>3. CASE i < n
    <3>1. n \in 1..n
      BY <1>1
    <3>2. q[i] < q[n]
      <4>1. \A a, b \in 1..n : a < b => q[a] < q[b]
        BY <1>1, <1>2 DEF Lists
      <4> QED  BY <2>3, <3>1, <4>1
    <3> QED  BY <1>2, <2>1, <3>1, <3>2
  <2> QED  BY <1>1, <2>1, <2>2, <2>3
<1>4. q[n] \in S /\ \A x \in S : q[n] >= x
  <2>1. n \in 1..n
    BY <1>1
  <2>2. \A x \in S : x \in Nat
    OBVIOUS
  <2> QED  BY <1>2, <1>3, <2>1, <2>2
<1>5. Max(S) \in S /\ \A x \in S : Max(S) >= x
  BY <1>4, Zenon DEF Max
<1>6. \A x \in S : x \in Nat
  OBVIOUS
<1> QED  BY <1>5, <1>6

-----------------------------------------------------------------------------
(* Sums, over the columns of a window and over the days of a run. *)

One(s) == CHOOSE x \in s : TRUE

\* Which element of a set is added next, and on which side of the sum of the others.
Pick(k, s) == IF k.of = "window" THEN Max(s) ELSE One(s)
Plus(k, x, rest) == IF k.of = "window" THEN rest + k.f[x] ELSE k.f[x] + rest

\* The sums over sets of arguments, element by element.
Sums(k, F, sum) ==
    sum = [s \in F |-> IF s = {} THEN 0 ELSE Plus(k, Pick(k, s), sum[s \ {Pick(k, s)}])]

\* The subsets of at most n elements.
Small(D, n) == {s \in SUBSET D : Cardinality(s) <= n}

\* Windows are summed over numbers, of which there is a largest.
Summable(k, D) == IsFiniteSet(D) /\ (k.of = "window" => D \subseteq Nat)

LEMMA MaxIsIn ==
    ASSUME NEW S, S \subseteq Nat, IsFiniteSet(S), S # {}
    PROVE  Max(S) \in S
BY LastIsLast

\* Taking one element out makes a finite set smaller.
LEMMA Smaller ==
    ASSUME NEW D, NEW k, Summable(k, D), NEW s \in SUBSET D, s # {}
    PROVE  /\ Pick(k, s) \in s /\ s \ {Pick(k, s)} \in SUBSET D
           /\ Cardinality(s) \in Nat /\ Cardinality(s) # 0
           /\ Cardinality(s \ {Pick(k, s)}) = Cardinality(s) - 1
<1>1. IsFiniteSet(s)
  BY FS_Subset DEF Summable
<1>2. Pick(k, s) \in s
  <2>1. CASE k.of = "window"
    <3>1. Max(s) \in s
      BY <1>1, <2>1, MaxIsIn DEF Summable
    <3> QED  BY <2>1, <3>1 DEF Pick
  <2>2. CASE k.of # "window"
    <3>1. (CHOOSE x \in s : TRUE) \in s
      BY Zenon
    <3> QED  BY <2>2, <3>1 DEF Pick, One
  <2> QED  BY <2>1, <2>2
<1>3. Cardinality(s) \in Nat /\ Cardinality(s) # 0
  BY <1>1, FS_CardinalityType, FS_EmptySet
<1> QED  BY <1>1, <1>2, <1>3, FS_RemoveElement

\* The recursive function that sums exists: so it does for the smallest sets without one.
LEMMA SumsExist ==
    ASSUME NEW D, NEW k, Summable(k, D), NEW n \in Nat
    PROVE  \E sum : Sums(k, Small(D, n), sum)
<1> DEFINE T == {m \in Nat : ~ \E sum : Sums(k, Small(D, m), sum)}
<1> SUFFICES ASSUME n \in T PROVE FALSE
  OBVIOUS
<1>1. PICK m \in T : \A j \in T : m <= j
  <2>1. T \subseteq Nat /\ T # {}
    OBVIOUS
  <2> HIDE DEF T
  <2> QED  BY <2>1, LeastNat
<1>2. m \in Nat
  OBVIOUS
<1> DEFINE rest(s) == s \ {Pick(k, s)}
<1>3. \A s \in SUBSET D : s # {} => /\ rest(s) \in SUBSET D /\ Cardinality(s) \in Nat
                                    /\ Cardinality(s) # 0 /\ Cardinality(rest(s)) = Cardinality(s) - 1
  BY Smaller
<1>4. CASE m = 0
  <2> DEFINE g == [s \in Small(D, 0) |-> 0]
  <2>1. ASSUME NEW s \in Small(D, 0) PROVE s = {}
    <3>1. s \in SUBSET D /\ Cardinality(s) <= 0
      BY DEF Small
    <3>2. s # {} => Cardinality(s) \in Nat /\ Cardinality(s) # 0
      BY <1>3, <3>1, Zenon
    <3> QED  BY <3>1, <3>2
  <2>2. \A s \in Small(D, 0) : g[s] = IF s = {} THEN 0 ELSE Plus(k, Pick(k, s), g[rest(s)])
    BY <2>1
  <2>3. g = [s \in Small(D, 0) |-> g[s]]
    OBVIOUS
  <2> HIDE DEF g
  <2>4. Sums(k, Small(D, 0), g)
    BY <2>2, <2>3, Zenon DEF Sums
  <2> QED  BY <1>4, <2>4
<1>5. CASE m # 0
  <2>1. m - 1 \in Nat /\ ~(m <= m - 1)
    BY <1>2, <1>5
  <2>2. m - 1 \notin T
    <3> HIDE DEF T
    <3> QED  BY <1>1, <2>1
  <2>3. PICK sum : Sums(k, Small(D, m - 1), sum)
    BY <2>1, <2>2
  <2> DEFINE g == [s \in Small(D, m) |-> IF s = {} THEN 0 ELSE Plus(k, Pick(k, s), sum[rest(s)])]
  <2>4. Small(D, m - 1) \subseteq Small(D, m)
    <3> SUFFICES ASSUME NEW s \in Small(D, m - 1) PROVE s \in Small(D, m)
      OBVIOUS
    <3>1. s \in SUBSET D /\ Cardinality(s) <= m - 1
      BY DEF Small
    <3>2. Cardinality(s) \in Nat
      <4>1. CASE s = {}
        BY <4>1, FS_EmptySet
      <4>2. CASE s # {}
        BY <1>3, <3>1, <4>2, Zenon
      <4> QED  BY <4>1, <4>2
    <3>3. Cardinality(s) <= m
      BY <1>2, <3>1, <3>2
    <3> QED  BY <3>1, <3>3 DEF Small
  <2>5. sum = [s \in Small(D, m - 1) |-> IF s = {} THEN 0 ELSE Plus(k, Pick(k, s), sum[rest(s)])]
    BY <2>3, Zenon DEF Sums
  <2>6. \A s \in Small(D, m - 1) : g[s] = sum[s]
    BY <2>4, <2>5, Zenon
  <2>7. ASSUME NEW s \in Small(D, m), s # {}
        PROVE  rest(s) \in Small(D, m - 1)
    <3>1. s \in SUBSET D /\ Cardinality(s) <= m
      BY DEF Small
    <3> HIDE DEF rest
    <3>2. Cardinality(rest(s)) <= m - 1 /\ rest(s) \in SUBSET D
      BY <1>2, <1>3, <2>7, <3>1
    <3> QED  BY <3>2 DEF Small
  <2>8. \A s \in Small(D, m) : g[s] = IF s = {} THEN 0 ELSE Plus(k, Pick(k, s), g[rest(s)])
    BY <2>6, <2>7, Zenon
  <2>9. g = [s \in Small(D, m) |-> g[s]]
    OBVIOUS
  <2> HIDE DEF g
  <2>10. Sums(k, Small(D, m), g)
    BY <2>8, <2>9, Zenon DEF Sums
  <2> QED  BY <2>10
<1> QED  BY <1>4, <1>5

LEMMA AllSumsExist ==
    ASSUME NEW D, NEW k, Summable(k, D)
    PROVE  \E sum : Sums(k, SUBSET D, sum)
<1>1. Small(D, Cardinality(D)) = SUBSET D
  BY FS_Subset, FS_CardinalityType DEF Small, Summable
<1>2. Cardinality(D) \in Nat
  BY FS_CardinalityType DEF Summable
<1>3. \E sum : Sums(k, Small(D, Cardinality(D)), sum)
  BY <1>2, SumsExist
<1> QED  BY <1>1, <1>3

LEMMA SumOfSet ==
    ASSUME NEW k, NEW D, NEW sum, Sums(k, SUBSET D, sum)
    PROVE  \A s \in SUBSET D :
              sum[s] = IF s = {} THEN 0 ELSE Plus(k, Pick(k, s), sum[s \ {Pick(k, s)}])
<1>1. sum = [s \in SUBSET D |-> IF s = {} THEN 0 ELSE Plus(k, Pick(k, s), sum[s \ {Pick(k, s)}])]
  BY Zenon DEF Sums
<1> QED  BY <1>1, Zenon

\* Sums of natural numbers are natural numbers.
LEMMA SumsAreNat ==
    ASSUME NEW D, NEW k, Summable(k, D), \A x \in D : k.f[x] \in Nat, NEW sum, Sums(k, SUBSET D, sum)
    PROVE  \A s \in SUBSET D : sum[s] \in Nat
<1> DEFINE T == {n \in Nat : \E s \in SUBSET D : Cardinality(s) = n /\ sum[s] \notin Nat}
<1>1. ASSUME T # {} PROVE FALSE
  <2>1. PICK n \in T : \A j \in T : n <= j
    <3>1. T \subseteq Nat
      OBVIOUS
    <3> HIDE DEF T
    <3> QED  BY <1>1, <3>1, LeastNat
  <2>2. PICK s \in SUBSET D : Cardinality(s) = n /\ sum[s] \notin Nat
    OBVIOUS
  <2>3. s # {}
    BY <2>2, SumOfSet
  <2> PICK x : x = Pick(k, s)
    OBVIOUS
  <2> PICK u : u = s \ {x}
    OBVIOUS
  <2>4. x \in D /\ u \in SUBSET D /\ n \in Nat /\ Cardinality(u) = n - 1 /\ n # 0
    BY <2>2, <2>3, Smaller
  <2>5. n - 1 \in Nat /\ ~(n <= n - 1)
    BY <2>4
  <2>6. n - 1 \notin T
    <3> HIDE DEF T
    <3> QED  BY <2>1, <2>5
  <2>7. sum[u] \in Nat
    BY <2>4, <2>5, <2>6
  <2>8. sum[s] = Plus(k, x, sum[u])
    BY <2>3, SumOfSet
  <2> QED  BY <2>2, <2>4, <2>7, <2>8 DEF Plus
<1>2. \A s \in SUBSET D : Cardinality(s) \in Nat
  BY FS_Subset, FS_CardinalityType DEF Summable
<1> QED  BY <1>1, <1>2

\* The sum of a window, as strategies take means of it.
LEMMA WindowSum ==
    ASSUME NEW n \in Nat, NEW x \in [1..n -> Nat]
    PROVE  Sum(x) \in Nat
<1> DEFINE k == [of |-> "window", f |-> x]
           D == DOMAIN x
           it == CHOOSE sum : sum = [s \in SUBSET D |-> IF s = {} THEN 0 ELSE sum[s \ {Max(s)}] + x[Max(s)]]
<1>1. D = 1..n /\ IsFiniteSet(D) /\ D \subseteq Nat
  BY FS_Interval
<1>2. Summable(k, D) /\ \A y \in D : k.f[y] \in Nat
  BY <1>1 DEF Summable
<1>3. \A y, rest : Plus(k, y, rest) = rest + x[y]
  BY DEF Plus
<1>4. \A s : Pick(k, s) = Max(s)
  BY DEF Pick
<1>5. Sum(x) = it[D]
  BY Zenon DEF Sum, FoldLeft, MapThenFoldSet
<1> HIDE DEF k, D, it
<1>6. PICK sum : Sums(k, SUBSET D, sum)
  BY <1>2, AllSumsExist
<1>7. sum = [s \in SUBSET D |-> IF s = {} THEN 0 ELSE sum[s \ {Max(s)}] + x[Max(s)]]
  BY <1>3, <1>4, <1>6 DEF Sums
<1>8. it = [s \in SUBSET D |-> IF s = {} THEN 0 ELSE it[s \ {Max(s)}] + x[Max(s)]]
  BY <1>7, Zenon DEF it
<1>9. Sums(k, SUBSET D, it)
  BY <1>3, <1>4, <1>8 DEF Sums
<1>10. it[D] \in Nat
  <2>1. D \in SUBSET D
    OBVIOUS
  <2> QED  BY <1>2, <1>9, <2>1, SumsAreNat
<1> QED  BY <1>5, <1>10

\* A function that counts one more at y.
CountsOneMore(D, y, f, g) ==
    /\ f \in [D -> Nat] /\ g \in [D -> Nat] /\ y \in D /\ g[y] = f[y] + 1
    /\ \A x \in D \ {y} : g[x] = f[x]

Total(f) == [of |-> "total", f |-> f]

\* Its sums are one more as well.
LEMMA OneMoreInSums ==
    ASSUME NEW D, IsFiniteSet(D), NEW f, NEW g, NEW y, CountsOneMore(D, y, f, g),
           NEW a, NEW b, Sums(Total(f), SUBSET D, a), Sums(Total(g), SUBSET D, b)
    PROVE  \A s \in SUBSET D : a[s] \in Nat /\ b[s] = IF y \in s THEN a[s] + 1 ELSE a[s]
<1> DEFINE Right(s) == b[s] = IF y \in s THEN a[s] + 1 ELSE a[s]
           T == {n \in Nat : \E s \in SUBSET D : Cardinality(s) = n /\ ~Right(s)}
<1>1. Summable(Total(f), D) /\ Summable(Total(g), D)
  BY DEF Summable, Total
<1>2. (\A x \in D : Total(f).f[x] \in Nat) /\ \A x \in D : f[x] \in Nat
  BY DEF CountsOneMore, Total
<1>3. \A s \in SUBSET D : a[s] \in Nat
  BY <1>1, <1>2, SumsAreNat
<1>4. \A s : Pick(Total(f), s) = One(s) /\ Pick(Total(g), s) = One(s)
  BY Zenon DEF Pick, Total, One
<1>5. \A x, rest : Plus(Total(f), x, rest) = f[x] + rest /\ Plus(Total(g), x, rest) = g[x] + rest
  BY DEF Plus, Total
<1>6. ASSUME T # {} PROVE FALSE
  <2>1. PICK n \in T : \A j \in T : n <= j
    <3>1. T \subseteq Nat
      OBVIOUS
    <3> HIDE DEF T
    <3> QED  BY <1>6, <3>1, LeastNat
  <2>2. PICK s \in SUBSET D : Cardinality(s) = n /\ ~Right(s)
    OBVIOUS
  <2>3. s # {}
    <3>1. a[{}] = 0 /\ b[{}] = 0
      BY SumOfSet
    <3> QED  BY <2>2, <3>1
  <2> PICK x : x = One(s)
    OBVIOUS
  <2> PICK u : u = s \ {x}
    OBVIOUS
  <2>4. x \in s /\ x \in D /\ u \in SUBSET D /\ n \in Nat /\ Cardinality(u) = n - 1 /\ n # 0
    <3>1. x = Pick(Total(f), s)
      BY <1>4
    <3> QED  BY <1>1, <2>2, <2>3, <3>1, Smaller
  <2>5. n - 1 \in Nat /\ ~(n <= n - 1)
    BY <2>4
  <2>6. n - 1 \notin T
    <3> HIDE DEF T
    <3> QED  BY <2>1, <2>5
  <2>7. Right(u)
    <3> HIDE DEF Right
    <3> QED  BY <2>4, <2>5, <2>6
  <2>8. a[s] = f[x] + a[u] /\ b[s] = g[x] + b[u]
    <3>1. a[s] = Plus(Total(f), x, a[u]) /\ b[s] = Plus(Total(g), x, b[u])
      BY <1>4, <2>3, SumOfSet
    <3> QED  BY <1>5, <3>1
  <2>9. a[u] \in Nat /\ f[x] \in Nat
    BY <1>2, <1>3, <2>4
  <2>10. CASE x = y
    <3>1. y \notin u /\ y \in s /\ g[x] = f[x] + 1
      BY <2>4, <2>10 DEF CountsOneMore
    <3>2. b[u] = a[u]
      BY <2>7, <3>1
    <3>3. b[s] = a[s] + 1
      BY <2>8, <2>9, <3>1, <3>2
    <3> QED  BY <2>2, <3>1, <3>3
  <2>11. CASE x # y
    <3>1. (y \in u <=> y \in s) /\ g[x] = f[x]
      BY <2>4, <2>11 DEF CountsOneMore
    <3> QED  BY <2>2, <2>7, <2>8, <2>9, <3>1
  <2> QED  BY <2>10, <2>11
<1>7. \A s \in SUBSET D : Cardinality(s) \in Nat
  BY FS_Subset, FS_CardinalityType
<1> QED  BY <1>3, <1>6, <1>7

\* What SumFunctionOnSet computes.
LEMMA SumIsTotal ==
    ASSUME NEW D, IsFiniteSet(D), NEW f
    PROVE  \E sum : Sums(Total(f), SUBSET D, sum) /\ SumFunctionOnSet(f, D) = sum[D]
<1> DEFINE it == CHOOSE sum : sum = [s \in SUBSET D |-> IF s = {} THEN 0 ELSE f[One(s)] + sum[s \ {One(s)}]]
<1>1. Summable(Total(f), D)
  BY DEF Summable, Total
<1>2. \A s : Pick(Total(f), s) = One(s)
  BY Zenon DEF Pick, Total, One
<1>3. \A x, rest : Plus(Total(f), x, rest) = f[x] + rest
  BY DEF Plus, Total
<1>4. SumFunctionOnSet(f, D) = it[D]
  BY Zenon DEF SumFunctionOnSet, FoldFunctionOnSet, MapThenFoldSet, One
<1> HIDE DEF it
<1>5. PICK sum : Sums(Total(f), SUBSET D, sum)
  BY <1>1, AllSumsExist
<1>6. sum = [s \in SUBSET D |-> IF s = {} THEN 0 ELSE f[One(s)] + sum[s \ {One(s)}]]
  <2>1. sum = [s \in SUBSET D |-> IF s = {} THEN 0
                 ELSE Plus(Total(f), Pick(Total(f), s), sum[s \ {Pick(Total(f), s)}])]
    BY <1>5, Zenon DEF Sums
  <2>2. \A s : f[One(s)] + sum[s \ {One(s)}] = Plus(Total(f), Pick(Total(f), s), sum[s \ {Pick(Total(f), s)}])
    BY <1>2, <1>3, Zenon
  <2> QED  BY <2>1, <2>2, Zenon
<1>7. it = [s \in SUBSET D |-> IF s = {} THEN 0 ELSE f[One(s)] + it[s \ {One(s)}]]
  BY <1>6, Zenon DEF it
<1>8. Sums(Total(f), SUBSET D, it)
  <2>1. \A s : f[One(s)] + it[s \ {One(s)}] = Plus(Total(f), Pick(Total(f), s), it[s \ {Pick(Total(f), s)}])
    BY <1>2, <1>3, Zenon
  <2>2. it = [s \in SUBSET D |-> IF s = {} THEN 0
                 ELSE Plus(Total(f), Pick(Total(f), s), it[s \ {Pick(Total(f), s)}])]
    BY <1>7, <2>1, Zenon
  <2> QED  BY <2>2, Zenon DEF Sums
<1> QED  BY <1>4, <1>8

LEMMA OneMoreInTotal ==
    ASSUME NEW D, IsFiniteSet(D), NEW f, NEW g, NEW y, CountsOneMore(D, y, f, g)
    PROVE  SumFunctionOnSet(f, D) \in Nat /\ SumFunctionOnSet(g, D) = SumFunctionOnSet(f, D) + 1
<1>1. PICK a : Sums(Total(f), SUBSET D, a) /\ SumFunctionOnSet(f, D) = a[D]
  BY SumIsTotal
<1>2. PICK b : Sums(Total(g), SUBSET D, b) /\ SumFunctionOnSet(g, D) = b[D]
  BY SumIsTotal
<1>3. \A s \in SUBSET D : a[s] \in Nat /\ b[s] = IF y \in s THEN a[s] + 1 ELSE a[s]
  BY <1>1, <1>2, OneMoreInSums
<1>4. D \in SUBSET D /\ y \in D
  BY DEF CountsOneMore
<1> QED  BY <1>1, <1>2, <1>3, <1>4

LEMMA NothingInSums ==
    ASSUME NEW D, IsFiniteSet(D), NEW f, \A x \in D : f[x] = 0, NEW a, Sums(Total(f), SUBSET D, a)
    PROVE  \A s \in SUBSET D : a[s] = 0
<1> PICK k : k = Total(f)
  OBVIOUS
<1> DEFINE T == {n \in Nat : \E s \in SUBSET D : Cardinality(s) = n /\ a[s] # 0}
<1>0. Sums(k, SUBSET D, a)
  OBVIOUS
<1>1. Summable(k, D) /\ \A x \in D : \A rest : Plus(k, x, rest) = 0 + rest
  BY DEF Summable, Total, Plus
<1>2. \A s \in SUBSET D : a[s] = IF s = {} THEN 0 ELSE Plus(k, Pick(k, s), a[s \ {Pick(k, s)}])
  <2>1. a = [s \in SUBSET D |-> IF s = {} THEN 0 ELSE Plus(k, Pick(k, s), a[s \ {Pick(k, s)}])]
    BY <1>0, Zenon DEF Sums
  <2> QED  BY <2>1, Zenon
<1>3. ASSUME T # {} PROVE FALSE
  <2>1. PICK n \in T : \A j \in T : n <= j
    <3>1. T \subseteq Nat
      OBVIOUS
    <3> HIDE DEF T
    <3> QED  BY <1>3, <3>1, LeastNat
  <2>2. PICK s \in SUBSET D : Cardinality(s) = n /\ a[s] # 0
    OBVIOUS
  <2>3. s # {}
    BY <1>2, <2>2
  <2> PICK x : x = Pick(k, s)
    OBVIOUS
  <2> PICK u : u = s \ {x}
    OBVIOUS
  <2>4. x \in D /\ u \in SUBSET D /\ n \in Nat /\ Cardinality(u) = n - 1 /\ n # 0
    BY <1>1, <2>2, <2>3, Smaller
  <2>5. n - 1 \in Nat /\ ~(n <= n - 1)
    BY <2>4
  <2>6. n - 1 \notin T
    <3> HIDE DEF T
    <3> QED  BY <2>1, <2>5
  <2>7. a[u] = 0
    BY <2>4, <2>5, <2>6
  <2>8. a[s] = Plus(k, x, a[u])
    BY <1>2, <2>3
  <2> QED  BY <1>1, <2>2, <2>4, <2>7, <2>8
<1>4. \A s \in SUBSET D : Cardinality(s) \in Nat
  BY FS_Subset, FS_CardinalityType
<1> QED  BY <1>3, <1>4

LEMMA NothingInTotal ==
    ASSUME NEW D, IsFiniteSet(D), NEW f, \A x \in D : f[x] = 0
    PROVE  SumFunctionOnSet(f, D) = 0
<1>1. PICK a : Sums(Total(f), SUBSET D, a) /\ SumFunctionOnSet(f, D) = a[D]
  BY SumIsTotal
<1>2. \A s \in SUBSET D : a[s] = 0
  BY <1>1, NothingInSums
<1> QED  BY <1>1, <1>2

-----------------------------------------------------------------------------
(* Price tables and the frames cut from them. *)

LEMMA BarPrices ==
    ASSUME bars \in History, NEW s \in Symbol, NEW d \in Day
    PROVE  /\ bars[s][d].close \in Price /\ bars[s][d].high \in Price /\ bars[s][d].low \in Price
           /\ Known(bars[s][d].low) => Known(bars[s][d].close)
<1>1. bars \in [Symbol -> [Day -> [close: Price, high: Price, low: Price]]]
  BY BacktestAssumption
<1>2. bars[s][d] \in [close: Price, high: Price, low: Price]
  BY <1>1
<1> QED  BY <1>2, BacktestAssumption

\* A comparison with a price that is unknown is false.
LEMMA UnknownIsNeverReached ==
    ASSUME bars \in History, NEW s \in Symbol, NEW d \in Day, ~Known(bars[s][d].close), NEW p
    PROVE  ~Ends(bars[s][d], p)
BY BarPrices DEF AtMost, Ends

DaysIn(C) == UNION {DaysOf(s) : s \in C}

LEMMA FrameRows ==
    ASSUME NEW C \in SUBSET Symbol
    PROVE  /\ DaysIn(C) \subseteq Day /\ Day \subseteq Nat \ {0} /\ IsFiniteSet(DaysIn(C))
           /\ Lists(Frame(C).days, DaysIn(C))
           /\ Cols(Frame(C)) = C
           /\ \A s \in C : \A i \in Rows(Frame(C)) :
                 /\ Frame(C).close[s][i] = bars[s][Frame(C).days[i]].close
                 /\ Frame(C).high[s][i] = bars[s][Frame(C).days[i]].high
                 /\ Frame(C).low[s][i] = bars[s][Frame(C).days[i]].low
<1>1. DaysIn(C) \subseteq Day /\ Day \subseteq Nat \ {0} /\ IsFiniteSet(Day)
  BY BacktestAssumption DEF DaysIn, DaysOf
<1>2. IsFiniteSet(DaysIn(C)) /\ DaysIn(C) \subseteq Nat
  BY <1>1, FS_Subset
<1>3. Lists(Ascending(DaysIn(C)), DaysIn(C))
  BY <1>2, AscendingLists
<1>4. Frame(C).days = Ascending(DaysIn(C))
  BY DEF Frame, DaysIn
<1>5. /\ Frame(C).close = [s \in C |-> [i \in Rows(Frame(C)) |-> bars[s][Frame(C).days[i]].close]]
      /\ Frame(C).high = [s \in C |-> [i \in Rows(Frame(C)) |-> bars[s][Frame(C).days[i]].high]]
      /\ Frame(C).low = [s \in C |-> [i \in Rows(Frame(C)) |-> bars[s][Frame(C).days[i]].low]]
  BY DEF Frame, Rows
<1>6. Cols(Frame(C)) = C
  BY <1>5 DEF Cols
<1> QED  BY <1>1, <1>2, <1>3, <1>4, <1>5, <1>6

-----------------------------------------------------------------------------
(* The fills of a column. *)

\* A price that was paid on its day, and a holding that no bar through a day has to end.
Traded(s, entry, px) == px \in Nat /\ BoughtAt(bars[s][entry], px)
Rides(s, entry, px, last) ==
    \A d \in Day : entry < d /\ d <= last => ~Ends(bars[s][d], StopPrice(px))

\* A sale after the day of the entry, at the stop or the close.
Sold(s, entry, px, exit, exitPx) ==
    /\ entry < exit /\ Rides(s, entry, px, exit - 1)
    /\ SoldAt(bars[s][exit], StopPrice(px), exitPx) /\ exitPx \in Nat

Closed(s, r, days) ==
    /\ r \in Holding /\ r.symbol = s /\ r.entry \in days /\ r.exit \in days
    /\ Traded(s, r.entry, r.entryPx) /\ Sold(s, r.entry, r.entryPx, r.exit, r.exitPx)

Kept(s, h, days, last) ==
    /\ h.entry \in days /\ h.entry <= last
    /\ Traded(s, h.entry, h.price) /\ Rides(s, h.entry, h.price, last)

\* What holds of a column after the rows up to a day.
ColumnOK(s, st, days, last) ==
    /\ st = [held |-> st.held, done |-> st.done]
    /\ st.held # None => Kept(s, st.held, days, last)
    /\ \A r \in st.done : Closed(s, r, days) /\ r.exit <= last
    /\ \A r, o \in st.done : (o.entry > r.entry => r.exit < o.entry) /\ (o.entry = r.entry => o = r)
    /\ st.held # None => \A r \in st.done : r.exit < st.held.entry

\* The days between two rows of a frame have no bar of its columns.
LEMMA BetweenRows ==
    ASSUME bars \in History, req \in Request, NEW C \in SUBSET Symbol, NEW s \in C,
           NEW i \in Rows(Frame(C)), NEW d \in Day,
           d < Frame(C).days[i], i = 1 \/ Frame(C).days[i - 1] < d, d <= req.end
    PROVE  ~Known(bars[s][d].close)
<1> DEFINE q == Frame(C).days
<1>1. Lists(q, DaysIn(C)) /\ DaysIn(C) \subseteq Nat
  BY FrameRows
<1>2. SUFFICES ASSUME Known(bars[s][d].close) PROVE FALSE
  OBVIOUS
<1>3. d \in DaysIn(C)
  BY <1>2 DEF DaysIn, DaysOf
<1> HIDE DEF q
<1>4. PICK k \in DOMAIN q : q[k] = d
  BY <1>1, <1>3 DEF Lists
<1>5. /\ i \in DOMAIN q /\ DOMAIN q = 1..Cardinality(DaysIn(C))
      /\ \A j \in DOMAIN q : q[j] \in Nat
      /\ Cardinality(DaysIn(C)) \in Nat
  BY <1>1, FrameRows, FS_CardinalityType DEF Lists, Rows, q
<1>6. k \in Nat /\ i \in Nat
  BY <1>5
<1>7. CASE k >= i
  <2>1. q[i] <= q[k]
    <3>1. CASE k = i
      BY <1>5, <3>1
    <3>2. CASE i < k
      BY <1>1, <1>5, <3>2 DEF Lists
    <3> QED  BY <1>6, <1>7, <3>1, <3>2
  <2> QED  BY <1>4, <1>5, <2>1 DEF q
<1>8. CASE k < i
  <2>1. i # 1 /\ i - 1 \in DOMAIN q /\ k <= i - 1
    BY <1>5, <1>6, <1>8
  <2>2. q[k] <= q[i - 1]
    <3>1. CASE k = i - 1
      BY <1>5, <2>1, <3>1
    <3>2. CASE k < i - 1
      BY <1>1, <1>5, <2>1, <3>2 DEF Lists
    <3> QED  BY <1>6, <2>1, <3>1, <3>2
  <2> QED  BY <1>4, <1>5, <2>1, <2>2 DEF q
<1> QED  BY <1>6, <1>7, <1>8

\* The prices of a column: natural numbers, or unknown.
LEMMA ColumnPrices ==
    ASSUME bars \in History, NEW C \in SUBSET Symbol, NEW s \in C
    PROVE  \E m \in Nat : /\ Rows(Frame(C)) = 1..m
                          /\ Frame(C).close[s] \in [1..m -> Price]
                          /\ \A i \in 1..m : Frame(C).close[s][i] \in Price /\ Frame(C).low[s][i] \in Price
<1> DEFINE q == Frame(C).days
           m == Cardinality(DaysIn(C))
           c == Frame(C).close[s]
           l == Frame(C).low[s]
<1>1. /\ Lists(q, DaysIn(C)) /\ DaysIn(C) \subseteq Day /\ IsFiniteSet(DaysIn(C)) /\ s \in Symbol
      /\ \A i \in Rows(Frame(C)) : c[i] = bars[s][q[i]].close /\ l[i] = bars[s][q[i]].low
  BY FrameRows
<1>2. c = [i \in DOMAIN q |-> bars[s][q[i]].close]
  BY DEF Frame
<1>3. m \in Nat /\ DOMAIN q = 1..m /\ Rows(Frame(C)) = DOMAIN q
  BY <1>1, FS_CardinalityType DEF Lists, Rows
<1> HIDE DEF q, c, l, m
<1>4. \A i \in DOMAIN q : q[i] \in Day
  BY <1>1, ListRange
<1>5. \A i \in DOMAIN q : c[i] \in Price /\ l[i] \in Price
  BY <1>1, <1>3, <1>4, BarPrices
<1>6. c \in [DOMAIN q -> Price]
  BY <1>2, <1>5
<1> QED  BY <1>3, <1>5, <1>6 DEF c, l

\* What a strategy computes from a window is a number when the window has no gap.
LEMMA WindowPrices ==
    ASSUME NEW m \in Nat, NEW x \in [1..m -> Price], NEW i \in 1..m, NEW n \in Nat \ {0}, Full(x, i, n)
    PROVE  Window(x, i, n) \in [1..n -> Nat] /\ Sum(Window(x, i, n)) \in Nat
<1> DEFINE w == Window(x, i, n)
<1>0. n \in Nat /\ i \in Nat /\ i <= m /\ n # 0
  OBVIOUS
<1>1. i >= n /\ \A v \in ToSet(w) : Known(v)
  BY DEF Full
<1>2. w = [k \in 1..(1 + i - (i - n + 1)) |-> x[k + (i - n + 1) - 1]]
  BY DEF Window, SubSeq
<1>3. 1 + i - (i - n + 1) = n
  BY <1>0
<1>4. \A k \in 1..n : k + (i - n + 1) - 1 \in 1..m
  BY <1>0, <1>1
<1> HIDE DEF w
<1>5. DOMAIN w = 1..n /\ \A k \in 1..n : w[k] \in Price
  BY <1>2, <1>3, <1>4
<1>6. \A k \in 1..n : w[k] \in ToSet(w)
  BY <1>5 DEF ToSet
<1>7. \A k \in 1..n : w[k] \in Nat
  BY <1>1, <1>5, <1>6 DEF Known, Price
<1>8. w \in [1..n -> Nat]
  BY <1>2, <1>3, <1>7
<1> QED  BY <1>0, <1>8, WindowSum DEF w

LEMMA MeanIsANumber ==
    ASSUME NEW m \in Nat, NEW x \in [1..m -> Price], NEW i \in 1..m, NEW n \in Nat \ {0}
    PROVE  Mean(x, i, n) \in Int
<1>1. CASE Full(x, i, n)
  <2> PICK t : t = Sum(Window(x, i, n))
    OBVIOUS
  <2>1. t \in Nat
    BY <1>1, WindowPrices
  <2>2. t \div n \in Int
    BY <2>1
  <2> QED  BY <1>1, <2>2 DEF Mean
<1>2. CASE ~Full(x, i, n)
  BY <1>2 DEF Mean, NaN
<1> QED  BY <1>1, <1>2

\* The lowest and the highest of a window are numbers.
LEMMA ExtremesAreNumbers ==
    ASSUME NEW m \in Nat, NEW x \in [1..m -> Price], NEW i \in 1..m, NEW n \in Nat \ {0}
    PROVE  Lowest(x, i, n) \in Int /\ Highest(x, i, n) \in Int
<1> DEFINE w == Window(x, i, n)
           S == ToSet(w)
<1>1. CASE Full(x, i, n)
  <2>1. w \in [1..n -> Nat]
    BY <1>1, WindowPrices
  <2> HIDE DEF w
  <2>2. S \subseteq Nat /\ S # {}
    <3>1. S = {w[k] : k \in 1..n} /\ 1 \in 1..n
      BY <2>1 DEF ToSet
    <3> QED  BY <2>1, <3>1
  <2>3. IsFiniteSet(S)
    <3>1. IsFiniteSet(1..n)
      BY FS_Interval
    <3>2. w \in Surjection(1..n, S)
      BY <2>1 DEF ToSet, Surjection
    <3> QED  BY <3>1, <3>2, FS_Surjection
  <2> HIDE DEF S
  <2>4. Max(S) \in Nat
    BY <2>2, <2>3, LastIsLast
  <2>5. Min(S) \in Nat
    <3>1. PICK a \in S : \A b \in S : a <= b
      BY <2>2, LeastNat
    <3>2. Min(S) \in S
      BY <3>1, Zenon DEF Min
    <3> QED  BY <2>2, <3>2
  <2> QED  BY <1>1, <2>4, <2>5 DEF Lowest, Highest, S, w
<1>2. CASE ~Full(x, i, n)
  BY <1>2 DEF Lowest, Highest, NaN
<1> QED  BY <1>1, <1>2

\* A limit price is a price, unless it is unknown or out of reach.
LEMMA LimitIsAPrice ==
    ASSUME NEW m \in Nat, NEW x \in [1..m -> Price], NEW i \in 1..m
    PROVE  BuyLevel(x, i) \in Nat \cup {NaN, Unreachable}
<1>1. Short \in Nat \ {0} /\ Short + 1 \in Nat \ {0}
  BY StrategyAssumption
<1>2. Mean(x, i, Short) \in Int /\ Swing(x, i, Short) \in Int
  <2>1. Lowest(x, i, Short + 1) \in Int /\ Highest(x, i, Short + 1) \in Int
    BY <1>1, ExtremesAreNumbers
  <2>2. Swing(x, i, Short) \in Int
    BY <2>1 DEF Swing, NaN
  <2> QED  BY <1>1, <2>2, MeanIsANumber
<1> PICK a : a = Mean(x, i, Short)
  OBVIOUS
<1> PICK b : b = HalfWidth(x, i)
  OBVIOUS
<1>3. b \in Int
  <2> PICK w : w = Swing(x, i, Short)
    OBVIOUS
  <2>1. w \in Int /\ b = w \div 2
    BY <1>2 DEF HalfWidth
  <2> QED  BY <2>1
<1>4. a - b \in Int /\ (~(a - b < 0) => a - b \in Nat)
  BY <1>2, <1>3
<1> QED  BY <1>4 DEF BuyLevel

\* What a row trades at is a price, and it was there to be traded at.
LEMMA FillIsTraded ==
    ASSUME bars \in History, req \in Request, Fillable(req), NEW C \in SUBSET Symbol, NEW s \in C,
           NEW i \in Rows(Frame(C)), EntryAt(Frame(C), s, i), Priced(FillPrice(Frame(C), s, i))
    PROVE  Traded(s, Frame(C).days[i], FillPrice(Frame(C), s, i))
<1> DEFINE f == Frame(C)
           now == f.days[i]
           px == FillPrice(f, s, i)
           limit == LimitAt(f, s, i)
<1>1. PICK m \in Nat : /\ Rows(f) = 1..m
                       /\ f.close[s] \in [1..m -> Price]
                       /\ \A k \in 1..m : f.close[s][k] \in Price /\ f.low[s][k] \in Price
  BY ColumnPrices
<1>2. f.close[s][i] = bars[s][now].close /\ f.low[s][i] = bars[s][now].low
  BY FrameRows
<1>3. i \in Nat /\ i \in 1..m /\ f.close[s][i] \in Price /\ f.low[s][i] \in Price
  BY <1>1
<1>4. limit \in Nat \cup {NaN, Unreachable}
  <2>1. req.fillLag \in {0, 1}
    BY DEF Fillable
  <2>2. CASE i - req.fillLag > 0
    <3> PICK k : k = i - req.fillLag
      OBVIOUS
    <3>1. k \in 1..m
      BY <1>3, <2>1, <2>2
    <3>2. BuyLevel(f.close[s], k) \in Nat \cup {NaN, Unreachable}
      BY <1>1, <3>1, LimitIsAPrice
    <3> QED  BY <2>2, <3>2 DEF LimitAt
  <2>3. CASE ~(i - req.fillLag > 0)
    BY <2>3 DEF LimitAt
  <2> QED  BY <2>2, <2>3
<1>5. CASE req.fillPrice = "limit" /\ Priced(limit)
  <2>1. px = limit /\ req.fillModel = "limit-touch"
    BY <1>5 DEF FillPrice, Fillable
  <2>2. AtMost(f.low[s][i], limit)
    BY <1>5, <2>1 DEF EntryAt, Priced
  <2>3. limit # Unreachable
    <3>1. f.low[s][i] \in Nat /\ f.low[s][i] <= limit
      BY <1>3, <2>2 DEF AtMost, Known, Price
    <3> HIDE DEF limit, f
    <3> QED  BY <3>1 DEF Unreachable
  <2>4. limit # NaN
    BY <1>5 DEF Priced, Known
  <2>5. px \in Nat /\ Priced(px)
    BY <1>4, <1>5, <2>1, <2>3, <2>4
  <2>6. BoughtAt(bars[s][now], px)
    BY <1>2, <1>5, <2>1, <2>2, <2>5, Zenon DEF BoughtAt, OnBar, GappedBelow
  <2> QED  BY <2>5, <2>6 DEF Traded
<1>6. CASE ~(req.fillPrice = "limit" /\ Priced(limit))
  <2>1. px = f.close[s][i]
    BY <1>6 DEF FillPrice
  <2>2. px \in Nat
    BY <1>3, <2>1 DEF Priced, Known, Price
  <2>3. BoughtAt(bars[s][now], px)
    BY <1>2, <2>1, Zenon DEF BoughtAt, OnBar
  <2> QED  BY <2>2, <2>3 DEF Traded
<1> QED  BY <1>5, <1>6

\* A stop is a price that can be traded at.
LEMMA StopIsAPrice ==
    ASSUME NEW px \in Nat, px # 0
    PROVE  StopPrice(px) \in Nat /\ Priced(StopPrice(px))
<1>1. StopPct \in Nat /\ StopPct <= 99
  BY BacktestAssumption
<1>2. px * StopPct \in Nat /\ px * StopPct <= px * 99
  BY <1>1
<1> PICK y \in Nat : y = px * StopPct /\ y <= 99 * px
  BY <1>2
<1>3. y \div 100 \in Nat /\ y \div 100 < px
  OBVIOUS
<1>4. px - (y \div 100) \in Nat \ {0}
  BY <1>3
<1>5. StopPrice(px) \in Nat \ {0}
  BY <1>4 DEF StopPrice
<1> QED  BY <1>5 DEF Priced, Known, NaN

\* What a stop sells at was there to be had or gapped through; a bar that has to end a
\* holding ends it; and where no stop sells, a sale at the close is one.
LEMMA StopFillSells ==
    ASSUME Fillable(req), NEW bar \in [close: Price, high: Price, low: Price],
           Known(bar.low) => Known(bar.close), NEW stop \in Nat, Priced(stop)
    PROVE  /\ Priced(StopFill(bar, stop)) =>
                 StopFill(bar, stop) \in Nat /\ SoldAt(bar, stop, StopFill(bar, stop))
           /\ ~Priced(StopFill(bar, stop)) => ~Ends(bar, stop) /\ SoldAt(bar, stop, bar.close)
<1> DEFINE x == StopFill(bar, stop)
<1>1. /\ bar.close \in Price /\ bar.high \in Price /\ bar.low \in Price
      /\ req.fillPrice \in {"close", "limit"}
  BY DEF Fillable
<1>2. CASE req.fillPrice = "close" /\ AtMost(bar.close, stop)
  <2>1. x = bar.close
    BY <1>2, Zenon DEF StopFill
  <2>2. SoldAt(bar, stop, bar.close)
    BY <1>2, Zenon DEF SoldAt, OnBar
  <2>3. ~Priced(bar.close) => ~Ends(bar, stop)
    BY <1>2 DEF Ends
  <2>4. Priced(bar.close) => bar.close \in Nat
    BY <1>1 DEF Priced, Known, Price
  <2> HIDE DEF x
  <2> QED  BY <2>1, <2>2, <2>3, <2>4 DEF x
<1>3. CASE /\ ~(req.fillPrice = "close" /\ AtMost(bar.close, stop))
           /\ AtMost(bar.low, stop) /\ (req.fillPrice = "limit" \/ AtMost(stop, Top(bar)))
  <2>1. x = stop
    BY <1>3, Zenon DEF StopFill
  <2>2. OnBar(bar, stop) \/ (req.fillPrice = "limit" /\ stop = stop /\ GappedBelow(bar, stop))
    BY <1>3 DEF OnBar, GappedBelow
  <2>3. SoldAt(bar, stop, stop)
    BY <1>3, <2>2, Zenon DEF SoldAt
  <2> HIDE DEF x
  <2> QED  BY <2>1, <2>3 DEF x
<1>4. CASE /\ ~(req.fillPrice = "close" /\ AtMost(bar.close, stop))
           /\ ~(AtMost(bar.low, stop) /\ (req.fillPrice = "limit" \/ AtMost(stop, Top(bar))))
  <2>1. x = NaN
    BY <1>4, Zenon DEF StopFill
  <2>2. ~Ends(bar, stop)
    <3> SUFFICES ASSUME AtMost(bar.low, stop), req.fillPrice = "close", Priced(bar.close),
                        AtMost(bar.close, Top(bar)), ~AtMost(stop, Top(bar)), ~AtMost(bar.close, stop)
                 PROVE  FALSE
      BY <1>1, <1>4, Zenon DEF Ends
    <3>1. Top(bar) \in Price
      BY <1>1 DEF Top
    <3> QED  BY <1>1, <3>1 DEF AtMost, Known, Priced, Price
  <2>3. SoldAt(bar, stop, bar.close)
    BY <2>2, Zenon DEF SoldAt, OnBar
  <2>4. ~Priced(x)
    BY <2>1 DEF Priced, Known
  <2> HIDE DEF x
  <2> QED  BY <2>2, <2>3, <2>4 DEF x
<1> QED  BY <1>2, <1>3, <1>4

\* One row keeps what holds of a column (simulate_limit_touch_fills).
LEMMA RowKeepsColumn ==
    ASSUME bars \in History, req \in Request, Fillable(req), NEW C \in SUBSET Symbol, NEW s \in C,
           NEW i \in Rows(Frame(C)), NEW st, NEW last \in Nat, last < Frame(C).days[i],
           \A d \in Day : last < d /\ d < Frame(C).days[i] => ~Known(bars[s][d].close),
           ColumnOK(s, st, DaysIn(C), last)
    PROVE  ColumnOK(s, FillRow(Frame(C), s, st, i), DaysIn(C), Frame(C).days[i])
<1> DEFINE f == Frame(C)
           days == DaysIn(C)
           now == f.days[i]
           new == FillRow(f, s, st, i)
           bar == bars[s][now]
           sale == StopFill(bar, StopPrice(st.held.price))
           stopped == Priced(sale)
           Out(price) ==
              [held |-> None,
               done |-> st.done \cup {Record(s, st.held.entry, st.held.price, now, price)}]
<1> SUFFICES ColumnOK(s, new, days, now)
  OBVIOUS
<1>1. /\ Lists(f.days, days) /\ days \subseteq Day /\ Day \subseteq Nat \ {0} /\ s \in Symbol
      /\ f.close[s][i] = bar.close /\ f.low[s][i] = bar.low /\ f.high[s][i] = bar.high
  BY FrameRows
<1>2. now \in days /\ now \in Day /\ now \in Nat /\ last < now
  <2> DEFINE q == f.days
  <2>1. q \in Seq(days) /\ i \in DOMAIN q /\ now = q[i]
    BY <1>1 DEF Lists, Rows
  <2> HIDE DEF q
  <2>2. now \in days
    BY <2>1
  <2> QED  BY <1>1, <2>2
<1>3. /\ st = [held |-> st.held, done |-> st.done]
      /\ st.held # None => Kept(s, st.held, days, last)
      /\ \A r \in st.done : Closed(s, r, days) /\ r.exit <= last
      /\ \A r, o \in st.done : (o.entry > r.entry => r.exit < o.entry) /\ (o.entry = r.entry => o = r)
      /\ st.held # None => \A r \in st.done : r.exit < st.held.entry
  BY DEF ColumnOK
<1>4. \A r \in st.done : r.entry \in Nat /\ r.exit \in Nat /\ r.entry < r.exit /\ r.exit <= now
  BY <1>1, <1>2, <1>3 DEF Closed, Sold
<1>4a. /\ bar \in [close: Price, high: Price, low: Price] /\ (Known(bar.low) => Known(bar.close))
       /\ BarAt(f, s, i) = bar
  <2>1. bars \in [Symbol -> [Day -> [close: Price, high: Price, low: Price]]]
    BY BacktestAssumption
  <2>2. bar \in [close: Price, high: Price, low: Price]
    BY <1>1, <1>2, <2>1
  <2>3. BarAt(f, s, i) = [close |-> bar.close, high |-> bar.high, low |-> bar.low]
    BY <1>1 DEF BarAt
  <2> HIDE DEF bar, f
  <2>4. bar = [close |-> bar.close, high |-> bar.high, low |-> bar.low]
    BY <2>2
  <2> QED  BY <1>1, <1>2, <2>2, <2>3, <2>4, BarPrices DEF bar
<1>4b. ASSUME st.held # None
       PROVE  /\ StopPrice(st.held.price) \in Nat
              /\ stopped => sale \in Nat /\ SoldAt(bar, StopPrice(st.held.price), sale)
              /\ ~stopped => /\ ~Ends(bar, StopPrice(st.held.price))
                             /\ SoldAt(bar, StopPrice(st.held.price), bar.close)
  <2>1. st.held.price \in Nat /\ st.held.price # 0
    BY <1>3, <1>4b DEF Kept, Traded, BoughtAt, Priced
  <2> PICK stop : stop = StopPrice(st.held.price)
    OBVIOUS
  <2>2. stop \in Nat /\ Priced(stop)
    BY <2>1, StopIsAPrice
  <2>3. sale = StopFill(bar, stop)
    OBVIOUS
  <2> HIDE DEF bar, sale
  <2> QED  BY <1>4a, <2>2, <2>3, StopFillSells
\* A holding rides to the day before this row, and through it when the stop does not sell.
<1>5. ASSUME st.held # None
      PROVE  /\ st.held.entry \in Nat /\ st.held.entry < now
             /\ Rides(s, st.held.entry, st.held.price, now - 1)
             /\ ~stopped => Rides(s, st.held.entry, st.held.price, now)
  <2>1. Kept(s, st.held, days, last)
    BY <1>3, <1>5
  <2>2. ASSUME NEW d \in Day, st.held.entry < d, d < now
        PROVE  ~Ends(bars[s][d], StopPrice(st.held.price))
    <3>0. d \in Nat
      BY <1>1
    <3>1. CASE d <= last
      BY <2>1, <2>2, <3>1 DEF Kept, Rides
    <3>2. CASE last < d
      <4>1. ~Known(bars[s][d].close)
        BY <2>2, <3>2
      <4> QED  BY <1>1, <4>1, UnknownIsNeverReached
    <3> QED  BY <3>0, <3>1, <3>2
  <2>3. st.held.entry \in Nat /\ st.held.entry < now
    <3>1. st.held.entry \in Nat /\ st.held.entry <= last
      BY <1>1, <2>1 DEF Kept
    <3> HIDE DEF now
    <3> QED  BY <1>2, <3>1
  <2>4. \A d \in Day : d \in Nat
    BY <1>1
  <2>5. Rides(s, st.held.entry, st.held.price, now - 1)
    <3>1. \A d \in Day : d <= now - 1 => d < now
      BY <1>2, <2>4
    <3> QED  BY <2>2, <3>1 DEF Rides
  <2>6. ASSUME ~stopped
        PROVE  Rides(s, st.held.entry, st.held.price, now)
    <3>1. \A d \in Day : d <= now => d < now \/ d = now
      BY <1>2, <2>4
    <3>2. ~Ends(bars[s][now], StopPrice(st.held.price))
      BY <1>4b, <1>5, <2>6
    <3> QED  BY <2>2, <3>1, <3>2 DEF Rides
  <2> QED  BY <2>3, <2>5, <2>6
<1>6. ASSUME st.held # None, NEW price \in Nat,
             price = IF stopped THEN sale ELSE bar.close
      PROVE  ColumnOK(s, Out(price), days, now)
  <2> DEFINE r == Record(s, st.held.entry, st.held.price, now, price)
  <2>1. /\ r.symbol = s /\ r.entry = st.held.entry /\ r.entryPx = st.held.price
        /\ r.exit = now /\ r.exitPx = price
    BY DEF Record
  <2>2. Kept(s, st.held, days, last)
    BY <1>3, <1>6
  <2>3. Closed(s, r, days)
    <3>1. SoldAt(bars[s][r.exit], StopPrice(r.entryPx), r.exitPx)
      BY <1>4b, <1>6, <2>1
    <3>2. r \in Holding
      <4>1. st.held.entry \in Day /\ st.held.price \in Nat
        BY <1>1, <2>2 DEF Kept, Traded
      <4> QED  BY <1>1, <1>2, <1>6, <4>1 DEF Record, Holding
    <3> HIDE DEF r
    <3> QED  BY <1>2, <1>5, <1>6, <2>1, <2>2, <3>1, <3>2 DEF Closed, Sold, Kept
  <2>4. Out(price).held = None /\ Out(price).done = st.done \cup {r}
    OBVIOUS
  <2> HIDE DEF r
  <2>5. \A x \in st.done \cup {r} : Closed(s, x, days) /\ x.exit <= now
    BY <1>2, <1>3, <1>4, <2>1, <2>3
  <2>6. ASSUME NEW x \in st.done \cup {r}, NEW o \in st.done \cup {r}
        PROVE  (o.entry > x.entry => x.exit < o.entry) /\ (o.entry = x.entry => o = x)
    <3>0. r.entry \in Nat /\ r.entry < now /\ \A y \in st.done : y.exit < r.entry
      BY <1>3, <1>5, <1>6, <2>1
    <3>1. CASE x \in st.done /\ o \in st.done
      BY <1>3, <3>1
    <3>2. CASE x \in st.done /\ o = r
      BY <1>4, <3>0, <3>2
    <3>3. CASE x = r /\ o \in st.done
      BY <1>4, <3>0, <3>3
    <3>4. CASE x = r /\ o = r
      BY <3>0, <3>4
    <3> QED  BY <3>1, <3>2, <3>3, <3>4
  <2>7. Out(price) = [held |-> Out(price).held, done |-> Out(price).done]
    BY <2>4
  <2> HIDE DEF Out
  <2> QED  BY <2>4, <2>5, <2>6, <2>7 DEF ColumnOK
<1>7. CASE st.held # None /\ stopped
  <2>1. new = Out(sale)
    BY <1>4a, <1>7 DEF FillRow
  <2>2. sale \in Nat
    BY <1>4b, <1>7
  <2> HIDE DEF new, Out
  <2> QED  BY <1>6, <1>7, <2>1, <2>2
<1>8. CASE st.held # None /\ ~stopped
  <2>1. CASE Signalled(signals.exit, s, i) /\ Priced(f.close[s][i])
    <3>1. new = Out(f.close[s][i])
      BY <1>4a, <1>8, <2>1 DEF FillRow
    <3>2. f.close[s][i] \in Nat
      BY <1>1, <1>2, <2>1, BarPrices DEF Priced, Known, Price
    <3> HIDE DEF new, Out
    <3> QED  BY <1>1, <1>6, <1>8, <3>1, <3>2
  <2>2. CASE ~(Signalled(signals.exit, s, i) /\ Priced(f.close[s][i]))
    <3>1. new = st
      BY <1>4a, <1>8, <2>2 DEF FillRow
    <3>2. Kept(s, st.held, days, now)
      BY <1>2, <1>3, <1>5, <1>8 DEF Kept
    <3> HIDE DEF new
    <3> QED  BY <1>3, <1>4, <1>8, <3>1, <3>2 DEF ColumnOK
  <2> QED  BY <2>1, <2>2
<1>9. CASE st.held = None
  <2>1. CASE ~(EntryAt(f, s, i) /\ Priced(FillPrice(f, s, i)))
    <3>1. new = st
      BY <1>9, <2>1 DEF FillRow
    <3> HIDE DEF new
    <3> QED  BY <1>3, <1>4, <1>9, <3>1 DEF ColumnOK
  <2>2. CASE EntryAt(f, s, i) /\ Priced(FillPrice(f, s, i))
    <3> DEFINE px == FillPrice(f, s, i)
               h == [entry |-> now, price |-> px]
    <3>1. new = [st EXCEPT !.held = h]
      BY <1>9, <2>2 DEF FillRow
    <3>2. Traded(s, now, px)
      BY <2>2, FillIsTraded
    <3>3. new.held = h /\ new.done = st.done /\ new = [held |-> new.held, done |-> new.done]
      BY <1>3, <3>1
    <3>4. h.entry = now /\ h.price = px
      OBVIOUS
    <3>5. Kept(s, h, days, now)
      <4>1. Rides(s, now, px, now)
        <5>0. \A d \in Day : d \in Nat
          BY <1>1
        <5> HIDE DEF now, px
        <5>1. \A d \in Day : ~(now < d /\ d <= now)
          BY <1>2, <5>0
        <5> QED  BY <5>1 DEF Rides
      <4> QED  BY <1>2, <3>2, <3>4, <4>1 DEF Kept
    <3>6. \A r \in st.done : r.exit < now
      BY <1>2, <1>3, <1>4
    <3> HIDE DEF new, h
    <3> QED  BY <1>3, <1>4, <3>3, <3>4, <3>5, <3>6 DEF ColumnOK
  <2> QED  BY <2>1, <2>2
<1> QED  BY <1>7, <1>8, <1>9

\* The day of a row; before the first one nothing is held.
DayOf(q, i) == IF i = 0 THEN 0 ELSE q[i]

\* What is computed row by row: the fills of a column, the plan of a rotation, and the index of the
\* columns, each from what it was a row before.
RowOf(k, before, i) ==
    CASE k.of = "fills" ->
            IF i = 0 THEN [held |-> None, done |-> {}] ELSE FillRow(k.f, k.s, before, i)
      [] k.of = "plan" ->
            IF i = 0 THEN [held |-> {}, entry |-> {}, exit |-> {}]
            ELSE IF i \in Schedule(k.f, k.start)
                 THEN Rebalanced(k.f, k.gate, SeedRow(k.f, k.start), before, i)
            ELSE before
      [] k.of = "index" ->
            IF i = 0 THEN 10000 ELSE (before * RowReturn(k.f, i)) \div 100

ByRow(g, k, n) == g = [i \in 0..n |-> RowOf(k, g[i - 1], i)]

\* There is such a function: the first row that would have no value has one.
LEMMA RowsExist ==
    ASSUME NEW k, NEW n \in Nat
    PROVE  \E g : ByRow(g, k, n)
<1> SUFFICES \E g : g = [i \in 0..n |-> RowOf(k, g[i - 1], i)]
  BY Zenon DEF ByRow
<1> DEFINE T == {m \in Nat : ~ \E g : g = [i \in 0..m |-> RowOf(k, g[i - 1], i)]}
<1> SUFFICES ASSUME T # {} PROVE FALSE
  OBVIOUS
<1>1. PICK m \in T : \A j \in T : m <= j
  <2>1. T \subseteq Nat
    OBVIOUS
  <2> HIDE DEF T
  <2> QED  BY <2>1, LeastNat
<1>2. m \in Nat
  OBVIOUS
<1>3. CASE m = 0
  <2> DEFINE z == RowOf(k, 0, 0)
             g == [i \in 0..0 |-> z]
  <2>1. RowOf(k, g[0 - 1], 0) = z
    BY DEF RowOf
  <2>2. \A i \in 0..0 : i = 0
    OBVIOUS
  <2> HIDE DEF z
  <2>3. g = [i \in 0..0 |-> RowOf(k, g[i - 1], i)]
    BY <2>1, <2>2
  <2> QED  BY <1>1, <1>3, <2>3
<1>4. CASE m # 0
  <2>1. m - 1 \in Nat /\ m - 1 \notin T
    <3>1. m - 1 \in Nat /\ ~(m <= m - 1)
      BY <1>2, <1>4
    <3> HIDE DEF T
    <3> QED  BY <1>1, <3>1
  <2>2. PICK g : g = [i \in 0..(m - 1) |-> RowOf(k, g[i - 1], i)]
    BY <2>1
  <2> DEFINE h == [i \in 0..m |-> IF i = m THEN RowOf(k, g[m - 1], m) ELSE g[i]]
  <2>3. ASSUME NEW i \in 0..m
        PROVE  h[i] = RowOf(k, h[i - 1], i)
    <3>1. CASE i = m
      <4>1. m - 1 # m /\ m - 1 \in 0..m /\ m \in 0..m
        BY <1>2, <1>4
      <4>2. h[m] = RowOf(k, g[m - 1], m) /\ h[m - 1] = g[m - 1]
        BY <4>1, Zenon
      <4> QED  BY <3>1, <4>1, <4>2, Zenon
    <3>2. CASE i # m
      <4>1. i \in 0..(m - 1)
        BY <1>2, <3>2
      <4>2. h[i] = g[i] /\ g[i] = RowOf(k, g[i - 1], i)
        BY <2>2, <3>2, <4>1, Zenon
      <4>3. CASE i = 0
        <5>1. \A x, y : RowOf(k, x, 0) = RowOf(k, y, 0)
          BY DEF RowOf
        <5>2. g[0] = RowOf(k, g[0 - 1], 0) /\ h[0] = g[0]
          BY <4>2, <4>3
        <5>3. h[0] = RowOf(k, h[0 - 1], 0)
          BY <5>1, <5>2, Zenon
        <5> QED  BY <4>3, <5>3, Zenon
      <4>4. CASE i # 0
        <5>1. i - 1 \in 0..m /\ i - 1 # m
          BY <1>2, <3>2, <4>4
        <5>2. h[i - 1] = g[i - 1]
          BY <5>1, Zenon
        <5> QED  BY <4>2, <5>2
      <4> QED  BY <4>3, <4>4
    <3> QED  BY <3>1, <3>2
  <2>4. h = [i \in 0..m |-> h[i]]
    OBVIOUS
  <2> HIDE DEF h
  <2>5. h = [i \in 0..m |-> RowOf(k, h[i - 1], i)]
    BY <2>3, <2>4, Zenon
  <2> QED  BY <1>1, <2>5
<1> QED  BY <1>3, <1>4

\* The fills of a column are built row by row.
LEMMA FillsByRow ==
    ASSUME NEW f, NEW s, Len(f.days) \in Nat
    PROVE  /\ Fills(f, s)[0] = [held |-> None, done |-> {}]
           /\ \A i \in 1..Len(f.days) : Fills(f, s)[i] = FillRow(f, s, Fills(f, s)[i - 1], i)
<1> DEFINE k == [of |-> "fills", f |-> f, s |-> s]
           n == Len(f.days)
           fill == Fills(f, s)
<1>1. \A x, i : RowOf(k, x, i) = IF i = 0 THEN [held |-> None, done |-> {}] ELSE FillRow(f, s, x, i)
  BY DEF RowOf
<1>2. fill = CHOOSE g : g = [i \in 0..n |-> IF i = 0 THEN [held |-> None, done |-> {}]
                                           ELSE FillRow(f, s, g[i - 1], i)]
  BY Zenon DEF Fills
<1> HIDE DEF k, n, fill
<1>0. n \in Nat
  BY DEF n
<1>3a. PICK g : ByRow(g, k, n)
  BY <1>0, RowsExist
<1>3. g = [i \in 0..n |-> RowOf(k, g[i - 1], i)]
  BY <1>3a DEF ByRow
<1>4. g = [i \in 0..n |-> IF i = 0 THEN [held |-> None, done |-> {}] ELSE FillRow(f, s, g[i - 1], i)]
  BY <1>1, <1>3
<1>5. fill = [i \in 0..n |-> IF i = 0 THEN [held |-> None, done |-> {}]
                             ELSE FillRow(f, s, fill[i - 1], i)]
  BY <1>2, <1>4, Zenon
<1>6. 0 \in 0..n /\ \A i \in 1..n : i \in 0..n /\ i # 0
  BY DEF n
<1> QED  BY <1>5, <1>6 DEF fill, n

\* What FillsAreHonest says of one record, and of the records of one symbol.
Honest(r) ==
    /\ r \in Holding /\ Traded(r.symbol, r.entry, r.entryPx)
    /\ IsOpen(r) => Rides(r.symbol, r.entry, r.entryPx, req.end)
    /\ ~IsOpen(r) => Sold(r.symbol, r.entry, r.entryPx, r.exit, r.exitPx)

Disjoint(R) ==
    \A r, o \in R : o.symbol = r.symbol =>
        /\ o.entry > r.entry => ~IsOpen(r) /\ r.exit < o.entry
        /\ o.entry = r.entry => o = r

\* The days of a record are among those of a frame.
Within(r, days) == r.entry \in days /\ (r.exit = 0 \/ (r.exit \in days /\ r.entry < r.exit))

LEMMA ColumnIsHonest ==
    ASSUME bars \in History, req \in Request, Fillable(req), NEW C \in SUBSET Symbol, NEW s \in C
    PROVE  /\ \A r \in FillColumn(Frame(C), s) :
                 r.symbol = s /\ Honest(r) /\ Within(r, DaysIn(C))
           /\ Disjoint(FillColumn(Frame(C), s))
<1> DEFINE f == Frame(C)
           days == DaysIn(C)
           q == f.days
           n == Cardinality(days)
           st == Fills(f, s)
           end == st[n]
           R == FillColumn(f, s)
<1> SUFFICES /\ \A r \in R : r.symbol = s /\ Honest(r) /\ Within(r, days)
             /\ Disjoint(R)
  OBVIOUS
<1>1. /\ Lists(q, days) /\ days \subseteq Day /\ Day \subseteq Nat \ {0} /\ s \in Symbol
      /\ IsFiniteSet(days)
  BY FrameRows
<1>2. n \in Nat /\ Len(q) = n /\ DOMAIN q = 1..n /\ Rows(f) = 1..n
  BY <1>1, FS_CardinalityType DEF Lists, Rows
<1>3. \A i \in 1..n : q[i] \in days /\ q[i] \in Nat /\ q[i] > 0
  <2> HIDE DEF q, n, days
  <2>1. \A i \in 1..n : q[i] \in days
    BY <1>1, <1>2 DEF Lists
  <2>2. \A d \in days : d \in Nat /\ d > 0
    <3>1. \A d \in Day : d \in Nat /\ d > 0
      BY <1>1
    <3> QED  BY <1>1, <3>1
  <2> QED  BY <2>1, <2>2
<1>3a. \A i, j \in 1..n : i < j => q[i] < q[j]
  <2> HIDE DEF q, n, days
  <2> QED  BY <1>1, <1>2 DEF Lists
<1>4. st[0] = [held |-> None, done |-> {}] /\ \A i \in 1..n : st[i] = FillRow(f, s, st[i - 1], i)
  BY <1>2, FillsByRow
<1>5. ASSUME NEW i \in 1..n, NEW d \in Day, d < q[i], i = 1 \/ q[i - 1] < d
      PROVE  ~Known(bars[s][d].close)
  <2>1. CASE d <= req.end
    BY <1>2, <1>5, <2>1, BetweenRows
  <2>2. CASE ~(d <= req.end)
    <3>1. q[i] <= req.end
      BY <1>3 DEF DaysIn, DaysOf
    <3>2. req.end \in Nat /\ d \in Nat
      BY <1>1, BacktestAssumption
    <3> HIDE DEF q
    <3> QED  BY <1>3, <1>5, <2>2, <3>1, <3>2
  <2> QED  BY <2>1, <2>2
<1>6. \A i \in 0..n : ColumnOK(s, st[i], days, DayOf(q, i))
  <2> DEFINE T == {i \in 0..n : ~ColumnOK(s, st[i], days, DayOf(q, i))}
  <2> SUFFICES ASSUME T # {} PROVE FALSE
    OBVIOUS
  <2>1. PICK m \in T : \A k \in T : m <= k
    <3>1. T \subseteq Nat
      OBVIOUS
    <3> HIDE DEF T
    <3> QED  BY <3>1, LeastNat
  <2>2. m \in 0..n /\ ~ColumnOK(s, st[m], days, DayOf(q, m))
    OBVIOUS
  <2>3. CASE m = 0
    <3>1. st[0].held = None /\ st[0].done = {} /\ st[0] = [held |-> st[0].held, done |-> st[0].done]
      BY <1>4
    <3> HIDE DEF st
    <3>2. ColumnOK(s, st[0], days, DayOf(q, 0))
      BY <3>1 DEF ColumnOK
    <3> QED  BY <2>2, <2>3, <3>2
  <2>4. CASE m # 0
    <3>1. m \in 1..n /\ m - 1 \in 0..n /\ ~(m <= m - 1) /\ (m - 1 # 0 => m - 1 \in 1..n)
          /\ (m # 1 => m - 1 # 0)
      BY <1>2, <2>2, <2>4
    <3>2. ColumnOK(s, st[m - 1], days, DayOf(q, m - 1))
      <4>1. m - 1 \notin T
        <5> HIDE DEF T
        <5> QED  BY <2>1, <3>1
      <4> QED  BY <3>1, <4>1
    <3>3. DayOf(q, m - 1) \in Nat /\ DayOf(q, m - 1) < q[m]
      <4>1. m - 1 = 0 \/ q[m - 1] < q[m]
        <5>1. m - 1 < m
          BY <3>1
        <5> HIDE DEF q
        <5> QED  BY <1>3a, <3>1, <5>1
      <4> HIDE DEF q, n
      <4> QED  BY <1>3, <3>1, <4>1 DEF DayOf
    <3>4. ASSUME NEW d \in Day, DayOf(q, m - 1) < d, d < q[m]
          PROVE  ~Known(bars[s][d].close)
      <4> HIDE DEF q, n
      <4> QED  BY <1>5, <3>1, <3>4 DEF DayOf
    <3>5. DayOf(q, m) = q[m]
      BY <2>4 DEF DayOf
    <3>6. ColumnOK(s, FillRow(f, s, st[m - 1], m), days, q[m])
      <4> DEFINE was == st[m - 1]
                 last == DayOf(q, m - 1)
      <4>1. ColumnOK(s, was, days, last) /\ last \in Nat /\ last < Frame(C).days[m]
        BY <3>2, <3>3
      <4>2. \A d \in Day : last < d /\ d < Frame(C).days[m] => ~Known(bars[s][d].close)
        BY <3>4
      <4>3. m \in Rows(Frame(C))
        BY <1>2, <3>1
      <4> HIDE DEF was, last
      <4>4. ColumnOK(s, FillRow(Frame(C), s, was, m), DaysIn(C), Frame(C).days[m])
        BY <4>1, <4>2, <4>3, RowKeepsColumn
      <4> QED  BY <4>4 DEF was
    <3> QED  BY <1>4, <2>2, <3>1, <3>5, <3>6
  <2> QED  BY <2>3, <2>4
<1>7. n \in 0..n /\ end = [held |-> end.held, done |-> end.done]
      /\ ColumnOK(s, end, days, DayOf(q, n))
  <2>1. n \in 0..n
    BY <1>2
  <2> QED  BY <1>6, <2>1 DEF ColumnOK
<1>8. DayOf(q, n) \in Nat
  BY <1>2, <1>3 DEF DayOf
\* After the last row the column has no bar.
<1>9. ASSUME NEW d \in Day, DayOf(q, n) < d, d <= req.end
      PROVE  ~Known(bars[s][d].close)
  <2> SUFFICES ASSUME Known(bars[s][d].close) PROVE FALSE
    OBVIOUS
  <2>1. d \in days
    BY <1>9 DEF DaysIn, DaysOf
  <2> HIDE DEF q, days, n
  <2>2. PICK k \in 1..n : q[k] = d
    BY <1>1, <1>2, <2>1 DEF Lists
  <2>3. q[k] <= q[n] /\ n # 0
    <3>1. CASE k = n
      BY <1>2, <1>3, <3>1
    <3>2. CASE k < n
      <4>1. n \in 1..n
        BY <1>2, <3>2
      <4> QED  BY <1>3, <1>3a, <3>2, <4>1
    <3> QED  BY <1>2, <3>1, <3>2
  <2> QED  BY <1>2, <1>3, <1>9, <2>2, <2>3 DEF DayOf
<1>10. R = end.done \cup IF end.held = None THEN {}
                         ELSE {Record(s, end.held.entry, end.held.price, 0, NaN)}
  BY <1>2 DEF FillColumn
<1> DEFINE o == Record(s, end.held.entry, end.held.price, 0, NaN)
<1>11. /\ o.symbol = s /\ o.entry = end.held.entry /\ o.entryPx = end.held.price /\ o.exit = 0
  BY DEF Record
<1> HIDE DEF o, R, end, st, q, n, f
<1>12. ASSUME NEW r \in end.done
       PROVE  /\ r.symbol = s /\ Honest(r) /\ Within(r, days) /\ ~IsOpen(r)
              /\ r.entry \in Nat /\ r.exit \in Nat /\ r.entry < r.exit
  <2>1. Closed(s, r, days)
    BY <1>7 DEF ColumnOK
  <2>2. r.exit # 0
    BY <1>1, <2>1 DEF Closed
  <2>3. Honest(r) /\ Within(r, days) /\ ~IsOpen(r)
    BY <2>1, <2>2 DEF Closed, Honest, Within, IsOpen, Sold
  <2> QED  BY <1>1, <2>1, <2>3 DEF Closed, Sold
<1>13. ASSUME end.held # None
       PROVE  /\ o.symbol = s /\ Honest(o) /\ Within(o, days) /\ o.entry \in Nat
              /\ \A r \in end.done : r.exit < o.entry
  <2>1. Kept(s, end.held, days, DayOf(q, n)) /\ \A r \in end.done : r.exit < end.held.entry
    BY <1>7, <1>13 DEF ColumnOK
  <2>2. ASSUME NEW d \in Day, end.held.entry < d, d <= req.end
        PROVE  ~Ends(bars[s][d], StopPrice(end.held.price))
    <3>0. d \in Nat
      BY <1>1
    <3>1. CASE d <= DayOf(q, n)
      BY <2>1, <2>2, <3>1 DEF Kept, Rides
    <3>2. CASE DayOf(q, n) < d
      BY <1>1, <1>9, <2>2, <3>2, UnknownIsNeverReached
    <3> QED  BY <1>8, <3>0, <3>1, <3>2
  <2>3. Rides(s, o.entry, o.entryPx, req.end) /\ IsOpen(o) /\ Traded(s, o.entry, o.entryPx)
    BY <1>11, <2>1, <2>2 DEF Rides, IsOpen, Kept
  <2>4. o \in Holding
    <3>1. end.held.entry \in Day /\ end.held.price \in Nat
      BY <1>1, <2>1 DEF Kept, Traded
    <3> QED  BY <1>1, <3>1 DEF o, Record, Holding
  <2>5. Within(o, days) /\ Honest(o)
    BY <1>11, <2>1, <2>3, <2>4 DEF Within, Honest, Kept
  <2> QED  BY <1>1, <1>11, <2>1, <2>5 DEF Within
<1>14. \A r \in R : r \in end.done \/ (r = o /\ end.held # None)
  BY <1>10 DEF o
<1>15. ASSUME NEW r \in R, NEW p \in R
       PROVE  (p.entry > r.entry => ~IsOpen(r) /\ r.exit < p.entry) /\ (p.entry = r.entry => p = r)
  <2>1. CASE r \in end.done /\ p \in end.done
    BY <1>7, <1>12, <2>1 DEF ColumnOK
  <2>2. CASE r \in end.done /\ p = o /\ end.held # None
    BY <1>12, <1>13, <2>2
  <2>3. CASE r = o /\ p \in end.done /\ end.held # None
    BY <1>12, <1>13, <2>3
  <2>4. CASE r = o /\ p = o /\ end.held # None
    BY <1>13, <2>4
  <2> QED  BY <1>14, <2>1, <2>2, <2>3, <2>4
<1>16. \A r \in R : r.symbol = s /\ Honest(r) /\ Within(r, days)
  BY <1>12, <1>13, <1>14
<1>17. Disjoint(R)
  BY <1>15 DEF Disjoint
<1> QED  BY <1>16, <1>17

-----------------------------------------------------------------------------
(* Batches and chunks. *)

LEMMA SliceBounds ==
    ASSUME NEW i \in Nat, NEW j \in Nat, NEW size \in Nat, i < j
    PROVE  i * size <= (j - 1) * size /\ (i - 1) * size + size = i * size /\ i * size \in Nat
           /\ (i # 0 => (i - 1) * size \in Nat)
OBVIOUS

LEMMA BatchDomain ==
    ASSUME NEW S, NEW q \in Seq(S), NEW size \in Nat \ {0}
    PROVE  \E m \in Int : DOMAIN Batches(q, size) = 1..m
<1>1. Len(q) + size - 1 \in Int
  OBVIOUS
<1>2. (Len(q) + size - 1) \div size \in Int
  BY <1>1
<1> QED  BY <1>2 DEF Batches

\* A batch has the symbols of its own positions.
LEMMA BatchPositions ==
    ASSUME NEW S, NEW q \in Seq(S), NEW size \in Nat \ {0}, NEW i \in DOMAIN Batches(q, size),
           NEW x \in ToSet(Batches(q, size)[i])
    PROVE  \E k \in DOMAIN q : q[k] = x /\ (i - 1) * size < k /\ k <= i * size
<1>1. /\ i \in Nat /\ i # 0
      /\ Batches(q, size)[i] = SubSeq(q, (i - 1) * size + 1,
                                      IF i * size > Len(q) THEN Len(q) ELSE i * size)
  <2>1. i \in Nat /\ i # 0
    BY BatchDomain
  <2>2. i \in 1..((Len(q) + size - 1) \div size)
    BY DEF Batches
  <2> QED  BY <2>1, <2>2 DEF Batches
<1>2. PICK w \in Nat : w = (i - 1) * size
  BY <1>1, SliceBounds, i + 1 \in Nat
<1>3. PICK v \in Nat : v = i * size
  BY <1>1, SliceBounds, i + 1 \in Nat
<1> DEFINE b == IF v > Len(q) THEN Len(q) ELSE v
           part == SubSeq(q, w + 1, b)
<1>4. b \in Nat /\ b <= Len(q) /\ b <= v /\ Len(q) \in Nat /\ DOMAIN q = 1..Len(q)
  OBVIOUS
<1>5. part = [k \in 1..(1 + b - (w + 1)) |-> q[k + (w + 1) - 1]]
  BY DEF SubSeq
<1>6. x \in ToSet(part)
  BY <1>1, <1>2, <1>3
<1> HIDE DEF part, b
<1>7. PICK j \in 1..(1 + b - (w + 1)) : x = q[j + (w + 1) - 1]
  BY <1>5, <1>6 DEF ToSet
<1>8. j + (w + 1) - 1 \in 1..Len(q) /\ w < j + (w + 1) - 1 /\ j + (w + 1) - 1 <= v
  BY <1>4
<1> QED  BY <1>2, <1>3, <1>4, <1>7, <1>8

LEMMA BatchesAreApart ==
    ASSUME NEW S, NEW q \in Seq(S), \A a, b \in DOMAIN q : q[a] = q[b] => a = b,
           NEW size \in Nat \ {0},
           NEW i \in DOMAIN Batches(q, size), NEW j \in DOMAIN Batches(q, size), i < j,
           NEW x \in ToSet(Batches(q, size)[i])
    PROVE  x \notin ToSet(Batches(q, size)[j])
<1> SUFFICES ASSUME x \in ToSet(Batches(q, size)[j]) PROVE FALSE
  OBVIOUS
<1>1. PICK k \in DOMAIN q : q[k] = x /\ k <= i * size
  BY BatchPositions
<1>2. PICK l \in DOMAIN q : q[l] = x /\ (j - 1) * size < l
  BY BatchPositions
<1>3. i \in Nat /\ j \in Nat
  BY BatchDomain
<1>4. PICK v \in Nat : v = i * size
  BY <1>3, SliceBounds
<1>5. PICK w \in Nat : w = (j - 1) * size
  BY <1>3, SliceBounds, j + 1 \in Nat
<1>6. v <= w
  BY <1>3, <1>4, <1>5, SliceBounds
<1>7. k = l /\ k \in Nat
  BY <1>1, <1>2
<1> QED  BY <1>1, <1>2, <1>4, <1>5, <1>6, <1>7

\* What is traded is a sequence of different symbols.
LEMMA TradablesDiffer ==
    ASSUME req \in Request
    PROVE  /\ Tradables(req) \in Seq(Symbol)
           /\ \A a, b \in DOMAIN Tradables(req) : Tradables(req)[a] = Tradables(req)[b] => a = b
<1> DEFINE q == req.selected
           at == {i \in DOMAIN q : q[i] # req.benchmark}
           sub == Sub(q, at)
<1>1. q \in Seq(Symbol) /\ \A a, b \in DOMAIN q : q[a] = q[b] => a = b
  BY BacktestAssumption DEF IsInjective
<1>2. at \subseteq Nat /\ IsFiniteSet(at)
  <2>1. DOMAIN q = 1..Len(q) /\ Len(q) \in Nat
    BY <1>1
  <2>2. IsFiniteSet(DOMAIN q)
    BY <2>1, FS_Interval, 1 \in Int
  <2> QED  BY <2>1, <2>2, FS_Subset
<1> HIDE DEF at
<1>3. /\ DOMAIN sub = 1..Cardinality(at) /\ Cardinality(at) \in Nat
      /\ \A k \in DOMAIN sub : Ascending(at)[k] \in at /\ sub[k] = q[Ascending(at)[k]]
      /\ \A k, j \in DOMAIN sub : k < j => Ascending(at)[k] < Ascending(at)[j]
  <2>1. Picks(sub, q, at)
    <3> HIDE DEF q
    <3> QED  BY <1>2, SubPicks
  <2> HIDE DEF sub, q
  <2> QED  BY <2>1 DEF Picks
<1>4. sub = [k \in 1..Cardinality(at) |-> sub[k]]
  <2> HIDE DEF q
  <2> QED  BY <1>2, SubPicks DEF Picks
<1> HIDE DEF sub
<1>5. \A k \in DOMAIN sub : Ascending(at)[k] \in DOMAIN q
  BY <1>3 DEF at
<1>6. sub \in Seq(Symbol)
  <2>1. \A k \in 1..Cardinality(at) : sub[k] \in Symbol
    BY <1>1, <1>3, <1>5
  <2> QED  BY <1>3, <1>4, <2>1
<1>7. ASSUME NEW a \in DOMAIN sub, NEW b \in DOMAIN sub, sub[a] = sub[b]
      PROVE  a = b
  <2>1. Ascending(at)[a] = Ascending(at)[b]
    BY <1>1, <1>3, <1>5, <1>7
  <2>2. Ascending(at)[a] \in Nat /\ a \in Nat /\ b \in Nat
    <3>1. Ascending(at)[a] \in at
      BY <1>3
    <3>2. \A k \in 1..Cardinality(at) : k \in Nat
      OBVIOUS
    <3>3. a \in Nat /\ b \in Nat
      BY <1>3, <3>2
    <3>4. \A k \in at : k \in Nat
      BY <1>2
    <3> QED  BY <3>1, <3>3, <3>4
  <2> QED  BY <1>3, <2>1, <2>2
<1>8. CASE Len(q) = 1
  BY <1>1, <1>8 DEF Tradables
<1>9. CASE Len(q) # 1
  <2>1. Tradables(req) = sub
    BY <1>9 DEF Tradables, sub, at
  <2> QED  BY <1>6, <1>7, <2>1
<1> QED  BY <1>8, <1>9

\* The chunks share no symbol.
LEMMA PartsAreApart ==
    ASSUME req \in Request, Valid(req)
    PROVE  /\ \E n \in Nat : DOMAIN Parts = 1..n
           /\ Parts \in Seq(SUBSET Symbol)
           /\ \A i \in DOMAIN Parts : Parts[i] # {} /\ \A s \in Parts[i] :
                 Cardinality(DaysOf(s)) >= MinBars
           /\ \A i, j \in DOMAIN Parts : i # j => Parts[i] \cap Parts[j] = {}
<1> DEFINE q == Tradables(req)
           size == req.chunkSize
           batches == Batches(q, size)
           loaded == [i \in DOMAIN batches |-> Loaded(batches[i])]
           at == {i \in DOMAIN loaded : loaded[i] # {}}
           n == Cardinality(at)
<1>1. q \in Seq(Symbol) /\ \A a, b \in DOMAIN q : q[a] = q[b] => a = b
  BY TradablesDiffer
<1>2. size \in Nat \ {0}
  BY BacktestAssumption DEF Valid
<1>3. Parts = Sub(loaded, at)
  BY DEF Parts
<1> HIDE DEF q, size
<1>4. DOMAIN loaded = DOMAIN batches
  OBVIOUS
<1>5. \E m \in Int : DOMAIN batches = 1..m
  BY <1>1, <1>2, BatchDomain
<1>6. at \subseteq Nat /\ IsFiniteSet(at)
  <2> HIDE DEF loaded, batches
  <2>1. PICK m \in Int : DOMAIN loaded = 1..m
    BY <1>4, <1>5
  <2>2. IsFiniteSet(1..m)
    BY FS_Interval, 1 \in Int
  <2> QED  BY <2>1, <2>2, FS_Subset
<1>7. \A i \in DOMAIN loaded : loaded[i] \in SUBSET ToSet(batches[i])
                               /\ \A s \in loaded[i] : Cardinality(DaysOf(s)) >= MinBars
  BY DEF Loaded
<1>8. \A i \in DOMAIN loaded : loaded[i] \in SUBSET Symbol
  <2> SUFFICES ASSUME NEW i \in DOMAIN loaded, NEW s \in ToSet(batches[i])
               PROVE  s \in Symbol
    BY <1>7
  <2>1. PICK k \in DOMAIN q : q[k] = s
    BY <1>1, <1>2, <1>4, BatchPositions
  <2> QED  BY <1>1, <2>1
<1>9. ASSUME NEW i \in DOMAIN loaded, NEW j \in DOMAIN loaded, i # j
      PROVE  loaded[i] \cap loaded[j] = {}
  <2>1. i \in Nat /\ j \in Nat
    BY <1>5
  <2>2. ASSUME NEW a \in DOMAIN batches, NEW b \in DOMAIN batches, a < b
        PROVE  ToSet(batches[a]) \cap ToSet(batches[b]) = {}
    BY <1>1, <1>2, <2>2, BatchesAreApart
  <2>3. i < j \/ j < i
    BY <1>9, <2>1
  <2>4. ToSet(batches[i]) \cap ToSet(batches[j]) = {}
    BY <1>4, <2>2, <2>3
  <2> QED  BY <1>7, <2>4
<1>10. /\ DOMAIN Parts = 1..n /\ n \in Nat
       /\ \A k \in DOMAIN Parts : Ascending(at)[k] \in at /\ Parts[k] = loaded[Ascending(at)[k]]
       /\ \A k, j \in DOMAIN Parts : k < j => Ascending(at)[k] < Ascending(at)[j]
  <2>1. Picks(Sub(loaded, at), loaded, at)
    <3> HIDE DEF loaded, at
    <3> QED  BY <1>6, SubPicks
  <2> HIDE DEF loaded, at
  <2> QED  BY <1>3, <2>1 DEF Picks
<1>11. Parts = [k \in 1..n |-> Parts[k]]
  <2> HIDE DEF loaded, at
  <2> QED  BY <1>3, <1>6, SubPicks DEF Picks, n
<1>12. \A k \in DOMAIN Parts : Ascending(at)[k] \in DOMAIN loaded /\ loaded[Ascending(at)[k]] # {}
  BY <1>10
<1> HIDE DEF loaded, at, n
<1>13. Parts \in Seq(SUBSET Symbol)
  <2>1. \A k \in 1..n : Parts[k] \in SUBSET Symbol
    BY <1>8, <1>10, <1>12
  <2> QED  BY <1>10, <1>11, <2>1
<1>14. \A i \in DOMAIN Parts : Parts[i] # {} /\ \A s \in Parts[i] : Cardinality(DaysOf(s)) >= MinBars
  BY <1>7, <1>10, <1>12
<1>15. ASSUME NEW i \in DOMAIN Parts, NEW j \in DOMAIN Parts, i # j
       PROVE  Parts[i] \cap Parts[j] = {}
  <2>1. i \in Nat /\ j \in Nat
    BY <1>10
  <2>2. Ascending(at)[i] # Ascending(at)[j]
    <3>1. Ascending(at)[i] \in Nat /\ Ascending(at)[j] \in Nat
      BY <1>6, <1>10
    <3>2. i < j \/ j < i
      BY <1>15, <2>1
    <3> QED  BY <1>10, <3>1, <3>2
  <2> QED  BY <1>9, <1>10, <1>12, <2>2
<1> QED  BY <1>10, <1>13, <1>14, <1>15

-----------------------------------------------------------------------------
(* The records of every run are honest. *)

\* The days of the run, and the phases that follow loading.
AllDays == DaysIn(UNION ToSet(Parts))
Live == {"generating", "filling", "cutting", "booking", "error", "no_trades", "done"}

LoadedOK == phase \in Live => whole = Frame(UNION ToSet(Parts)) /\ Valid(req) /\ Parts # <<>>

RecordsOK ==
    /\ \A r \in records : Honest(r) /\ Within(r, AllDays)
    /\ Disjoint(records)

\* A chunk that is still to be simulated has columns no record is of.
ChunkOK(f) ==
    \E C \in SUBSET Symbol :
        f = Frame(C) /\ DaysIn(C) \subseteq AllDays /\ \A r \in records : r.symbol \notin C

ChunksOK ==
    phase \in {"generating", "filling"} =>
        /\ chunks \in Seq(ToSet(chunks)) /\ chunks # <<>>
        /\ \A i \in DOMAIN chunks : ChunkOK(chunks[i])
        /\ \A i, j \in DOMAIN chunks : i # j => Cols(chunks[i]) \cap Cols(chunks[j]) = {}

RunInv ==
    /\ req \in Request /\ bars \in History
    /\ phase \in Live \cup {"idle", "invalid", "no_symbols", "no_history"}
    /\ phase \notin Live => records = {}
    /\ LoadedOK /\ RecordsOK /\ ChunksOK

\* The request and the price table do not change, nor does what is read off them.
LEMMA TapeStands ==
    ASSUME req' = req, bars' = bars
    PROVE  /\ Parts' = Parts /\ AllDays' = AllDays /\ \A C : Frame(C)' = Frame(C) /\ DaysIn(C)' = DaysIn(C)
           /\ \A r : Honest(r)' = Honest(r) /\ Valid(req)' = Valid(req)
<1>1. \A s : DaysOf(s)' = DaysOf(s)
  BY DEF DaysOf
<1>2. \A batch : Loaded(batch)' = Loaded(batch)
  BY <1>1 DEF Loaded
<1>3. Parts' = Parts
  <2> DEFINE batches == Batches(Tradables(req), req.chunkSize)
             loaded == [i \in DOMAIN batches |-> Loaded(batches[i])]
  <2>1. batches' = batches
    OBVIOUS
  <2> HIDE DEF batches
  <2>2. loaded' = loaded
    BY <1>2, <2>1
  <2>3. Parts = Sub(loaded, {i \in DOMAIN loaded : loaded[i] # {}})
    BY DEF Parts, batches
  <2>4. Parts' = Sub(loaded', {i \in DOMAIN loaded' : loaded'[i] # {}})
    BY DEF Parts, batches
  <2> HIDE DEF loaded
  <2> QED  BY <2>2, <2>3, <2>4
<1>4. \A C : DaysIn(C)' = DaysIn(C)
  BY <1>1 DEF DaysIn
<1>5. AllDays' = AllDays
  BY <1>3, <1>4 DEF AllDays
<1>6. \A C : Frame(C)' = Frame(C)
  <2> SUFFICES ASSUME NEW CONSTANT C PROVE Frame(C)' = Frame(C)
    OBVIOUS
  <2>1. DaysIn(C)' = DaysIn(C)
    BY <1>4
  <2> DEFINE D(x) == [days |-> Ascending(x),
        close |-> [s \in C |-> [i \in DOMAIN Ascending(x) |-> bars[s][Ascending(x)[i]].close]],
        high |-> [s \in C |-> [i \in DOMAIN Ascending(x) |-> bars[s][Ascending(x)[i]].high]],
        low |-> [s \in C |-> [i \in DOMAIN Ascending(x) |-> bars[s][Ascending(x)[i]].low]]]
  <2>2. Frame(C) = D(DaysIn(C)) /\ Frame(C)' = D(DaysIn(C))'
    BY DEF Frame, DaysIn
  <2>3. D(DaysIn(C))' = D(DaysIn(C))
    BY <2>1
  <2> QED  BY <2>2, <2>3
<1>7. \A r : Honest(r)' = Honest(r)
  <2> SUFFICES ASSUME NEW CONSTANT r PROVE Honest(r)' = Honest(r)
    OBVIOUS
  <2>1. \A p : Traded(r.symbol, r.entry, p)' = Traded(r.symbol, r.entry, p)
    BY DEF Traded, BoughtAt, OnBar, GappedBelow, Top, Priced, Known, AtMost
  <2>2. \A p, d : Rides(r.symbol, r.entry, p, d)' = Rides(r.symbol, r.entry, p, d)
    BY DEF Rides, Ends, Top, Priced, AtMost, StopPrice, Known
  <2>3. \A d, stop, p : SoldAt(bars[r.symbol][d], stop, p)' = SoldAt(bars[r.symbol][d], stop, p)
    BY DEF SoldAt, OnBar, GappedBelow, Ends, Top, Priced, AtMost, Known
  <2> QED  BY <2>1, <2>2, <2>3 DEF Honest, Sold, IsOpen, StopPrice
<1>8. Valid(req)' = Valid(req)
  OBVIOUS
<1> QED  BY <1>3, <1>4, <1>5, <1>6, <1>7, <1>8

LEMMA NextTape ==
    ASSUME [Next]_vars
    PROVE  req' = req /\ bars' = bars
BY DEF Next, vars, tape, Refuse, SelectNothing, LoadNothing, End, Load, GenerateSignals, Fail, RunChunk,
       CutWindow, Report, SkipFull, Book, BookLastBar, Take

LEMMA RunInit == Init => RunInv
<1> SUFFICES ASSUME Init PROVE RunInv
  OBVIOUS
<1> QED  BY DEF Init, RunInv, Live, LoadedOK, RecordsOK, ChunksOK, Disjoint

\* Loading cuts the frames of chunks that share no symbol.
LEMMA LoadKeepsRun ==
    ASSUME RunInv, Load
    PROVE  RunInv'
<1>1. /\ phase = "idle" /\ Valid(req) /\ Parts # <<>> /\ records = {}
      /\ chunks' = [i \in DOMAIN Parts |-> Frame(Parts[i])]
      /\ whole' = Frame(UNION ToSet(Parts)) /\ phase' = "generating"
      /\ req' = req /\ bars' = bars /\ records' = {}
      /\ req \in Request /\ bars \in History
  BY DEF Load, RunInv, Live
<1>2. /\ Parts' = Parts /\ AllDays' = AllDays /\ \A C : Frame(C)' = Frame(C) /\ DaysIn(C)' = DaysIn(C)
      /\ Valid(req)'
  BY <1>1, TapeStands
<1>3. PICK n \in Nat : DOMAIN Parts = 1..n
  BY <1>1, PartsAreApart
<1>4. /\ Parts \in Seq(SUBSET Symbol)
      /\ \A i, j \in DOMAIN Parts : i # j => Parts[i] \cap Parts[j] = {}
  BY <1>1, PartsAreApart
<1>5. chunks' \in Seq(ToSet(chunks')) /\ DOMAIN chunks' = DOMAIN Parts /\ chunks' # <<>>
  <2>1. chunks' = [i \in 1..n |-> chunks'[i]] /\ DOMAIN chunks' = DOMAIN Parts
    BY <1>1, <1>3
  <2>2. \A i \in 1..n : chunks'[i] \in ToSet(chunks')
    BY <1>3, <2>1 DEF ToSet
  <2>3. chunks' \in Seq(ToSet(chunks'))
    BY <2>1, <2>2
  <2>4. Parts \in Seq(SUBSET Symbol) /\ n # 0
    BY <1>1, <1>3, <1>4
  <2> QED  BY <1>3, <2>1, <2>3, <2>4
<1>6. \A i \in DOMAIN Parts : chunks'[i] = Frame(Parts[i]) /\ Parts[i] \in SUBSET Symbol
                              /\ Cols(chunks'[i]) = Parts[i]
  BY <1>1, <1>4, FrameRows
<1>7. ASSUME NEW i \in DOMAIN Parts
      PROVE  \E C \in SUBSET Symbol :
                /\ chunks'[i] = Frame(C)' /\ DaysIn(C)' \subseteq AllDays'
                /\ \A r \in records' : r.symbol \notin C
  <2>1. PICK C \in SUBSET Symbol : C = Parts[i]
    BY <1>6
  <2>2. chunks'[i] = Frame(C)'
    BY <1>2, <1>6, <2>1
  <2>3. C \in ToSet(Parts)
    BY <2>1 DEF ToSet
  <2>4. DaysIn(C) \subseteq AllDays
    BY <2>3 DEF AllDays, DaysIn
  <2>5. DaysIn(C)' \subseteq AllDays'
    BY <1>2, <2>4
  <2>6. \A r \in records' : r.symbol \notin C
    BY <1>1
  <2> QED  BY <2>2, <2>5, <2>6
<1>8. \A i, j \in DOMAIN Parts : i # j => Cols(chunks'[i]) \cap Cols(chunks'[j]) = {}
  BY <1>4, <1>6
<1>9. ChunksOK'
  <2>1. \A i \in DOMAIN chunks' : ChunkOK(chunks[i])'
    BY <1>5, <1>7 DEF ChunkOK
  <2> QED  BY <1>5, <1>8, <2>1 DEF ChunksOK
<1>10. LoadedOK'
  BY <1>1, <1>2 DEF LoadedOK
<1>11. RecordsOK'
  BY <1>1 DEF RecordsOK, Disjoint
<1> QED  BY <1>1, <1>9, <1>10, <1>11 DEF RunInv, Live

\* The records of a chunk are of symbols of their own.
LEMMA RunChunkKeepsRun ==
    ASSUME RunInv, RunChunk
    PROVE  RunInv'
<1> DEFINE f == Head(chunks)
           new == UNION {FillColumn(f, s) : s \in Cols(f)}
<1>1. /\ phase = "filling" /\ phase \in Live /\ req \in Request /\ bars \in History
      /\ req' = req /\ bars' = bars /\ whole' = whole
      /\ records' = records \cup new /\ chunks' = Tail(chunks)
      /\ phase' = IF Len(chunks) = 1 THEN "cutting"
                  ELSE IF NeedsUniverse(req.ask.strategy) THEN "filling" ELSE "generating"
      /\ LoadedOK /\ RecordsOK /\ ChunksOK
  BY DEF RunChunk, RunInv, Live, tape
<1>2. /\ Parts' = Parts /\ AllDays' = AllDays /\ \A C : Frame(C)' = Frame(C) /\ DaysIn(C)' = DaysIn(C)
      /\ \A r : Honest(r)' = Honest(r)
  BY <1>1, TapeStands
<1>3. /\ chunks \in Seq(ToSet(chunks)) /\ chunks # <<>>
      /\ \A i \in DOMAIN chunks : ChunkOK(chunks[i])
      /\ \A i, j \in DOMAIN chunks : i # j => Cols(chunks[i]) \cap Cols(chunks[j]) = {}
  BY <1>1 DEF ChunksOK
<1>4. 1 \in DOMAIN chunks /\ f = chunks[1]
  BY <1>3
<1>5. PICK C \in SUBSET Symbol :
         f = Frame(C) /\ DaysIn(C) \subseteq AllDays /\ \A r \in records : r.symbol \notin C
  BY <1>3, <1>4 DEF ChunkOK
<1>6. Cols(f) = C
  BY <1>5, FrameRows
<1>7. Fillable(req) /\ Valid(req) /\ whole = Frame(UNION ToSet(Parts)) /\ Parts # <<>>
  BY <1>1 DEF LoadedOK, Valid
<1>8. ASSUME NEW s \in C
      PROVE  /\ \A r \in FillColumn(f, s) : r.symbol = s /\ Honest(r) /\ Within(r, AllDays)
             /\ Disjoint(FillColumn(f, s))
  <2>1. /\ \A r \in FillColumn(Frame(C), s) : r.symbol = s /\ Honest(r) /\ Within(r, DaysIn(C))
        /\ Disjoint(FillColumn(Frame(C), s))
    BY <1>1, <1>7, ColumnIsHonest
  <2>2. \A r : Within(r, DaysIn(C)) => Within(r, AllDays)
    BY <1>5 DEF Within
  <2> QED  BY <1>5, <2>1, <2>2
<1> HIDE DEF f
<1>9. \A r \in new : r.symbol \in C /\ r \in FillColumn(f, r.symbol)
  BY <1>6, <1>8
<1> HIDE DEF new
<1>10. RecordsOK'
  <2>1. \A r \in records' : Honest(r) /\ Within(r, AllDays)
    BY <1>1, <1>8, <1>9 DEF RecordsOK
  <2>2. \A r \in records' : Honest(r)' /\ Within(r, AllDays')
    BY <1>2, <2>1
  <2>3. ASSUME NEW r \in records', NEW o \in records', o.symbol = r.symbol
        PROVE  (o.entry > r.entry => ~IsOpen(r) /\ r.exit < o.entry) /\ (o.entry = r.entry => o = r)
    <3>1. CASE r \in records /\ o \in records
      BY <1>1, <2>3, <3>1 DEF RecordsOK, Disjoint
    <3>2. CASE r \in new /\ o \in new
      <4>1. r.symbol \in C /\ r \in FillColumn(f, r.symbol) /\ o \in FillColumn(f, r.symbol)
        BY <1>9, <2>3, <3>2
      <4> QED  BY <1>8, <2>3, <4>1 DEF Disjoint
    <3>3. CASE r \in new /\ o \in records
      BY <1>5, <1>9, <2>3, <3>3
    <3>4. CASE r \in records /\ o \in new
      BY <1>5, <1>9, <2>3, <3>4
    <3> QED  BY <1>1, <3>1, <3>2, <3>3, <3>4
  <2>4. Disjoint(records')
    BY <2>3 DEF Disjoint
  <2>5. Within(1, AllDays)' = Within(1, AllDays')
    BY DEF Within
  <2> QED  BY <2>2, <2>4 DEF RecordsOK, Disjoint, IsOpen, Within
<1>11. ChunksOK'
  <2> SUFFICES ASSUME Len(chunks) # 1 PROVE ChunksOK'
    BY <1>1 DEF ChunksOK
  <2> DEFINE left == Tail(chunks)
  <2>1. /\ left \in Seq(ToSet(chunks)) /\ Len(left) = Len(chunks) - 1 /\ Len(chunks) \in Nat
        /\ DOMAIN left = 1..(Len(chunks) - 1) /\ left # <<>> /\ DOMAIN chunks = 1..Len(chunks)
        /\ \A i \in DOMAIN left : left[i] = chunks[i + 1] /\ i + 1 \in DOMAIN chunks /\ i + 1 # 1
                                   /\ i \in Nat
    <3>1. Len(chunks) \in Nat /\ Len(chunks) # 0 /\ DOMAIN chunks = 1..Len(chunks)
      BY <1>3
    <3>2. left \in Seq(ToSet(chunks)) /\ Len(left) = Len(chunks) - 1
          /\ DOMAIN left = 1..(Len(chunks) - 1)
      BY <1>3
    <3>3. \A i \in 1..(Len(chunks) - 1) : left[i] = chunks[i + 1]
      BY <1>3
    <3> HIDE DEF left
    <3>4. left # <<>>
      BY <3>1, <3>2
    <3>5. \A i \in 1..(Len(chunks) - 1) : i + 1 \in DOMAIN chunks /\ i + 1 # 1 /\ i \in Nat
      BY <3>1
    <3> QED  BY <3>1, <3>2, <3>3, <3>4, <3>5
  <2> HIDE DEF left
  <2>2. left \in Seq(ToSet(left))
    <3>1. \A i \in DOMAIN left : left[i] \in ToSet(left)
      BY DEF ToSet
    <3>2. left = [i \in 1..(Len(chunks) - 1) |-> left[i]]
      BY <2>1
    <3>3. Len(chunks) - 1 \in Nat
      BY <2>1
    <3> QED  BY <2>1, <3>1, <3>2, <3>3
  <2>3. ASSUME NEW i \in DOMAIN left
        PROVE  \E D \in SUBSET Symbol :
                  /\ left[i] = Frame(D)' /\ DaysIn(D)' \subseteq AllDays'
                  /\ \A r \in records' : r.symbol \notin D
    <3>1. PICK D \in SUBSET Symbol :
             left[i] = Frame(D) /\ DaysIn(D) \subseteq AllDays /\ \A r \in records : r.symbol \notin D
      <4>1. left[i] = chunks[i + 1] /\ i + 1 \in DOMAIN chunks
        BY <2>1
      <4>2. ChunkOK(chunks[i + 1])
        BY <1>3, <4>1
      <4> QED  BY <4>1, <4>2 DEF ChunkOK
    <3>2. Cols(left[i]) = D
      BY <3>1, FrameRows
    <3>3. D \cap C = {}
      <4>1. left[i] = chunks[i + 1] /\ i + 1 \in DOMAIN chunks /\ i + 1 # 1
        BY <2>1
      <4>2. Cols(chunks[i + 1]) \cap Cols(chunks[1]) = {}
        BY <1>3, <1>4, <4>1
      <4> QED  BY <1>4, <1>6, <3>2, <4>1, <4>2
    <3>4. \A r \in records' : r.symbol \notin D
      BY <1>1, <1>9, <3>1, <3>3
    <3>5. left[i] = Frame(D)' /\ DaysIn(D)' \subseteq AllDays'
      BY <1>2, <3>1
    <3> QED  BY <3>4, <3>5
  <2>4. ASSUME NEW i \in DOMAIN left, NEW j \in DOMAIN left, i # j
        PROVE  Cols(left[i]) \cap Cols(left[j]) = {}
    <3>1. i + 1 \in DOMAIN chunks /\ j + 1 \in DOMAIN chunks /\ i + 1 # j + 1
          /\ left[i] = chunks[i + 1] /\ left[j] = chunks[j + 1]
      BY <2>1, <2>4
    <3> QED  BY <1>3, <3>1
  <2>5. chunks' = left
    BY <1>1 DEF left
  <2>6. \A i \in DOMAIN chunks' : ChunkOK(chunks[i])'
    BY <2>3, <2>5 DEF ChunkOK
  <2> QED  BY <2>1, <2>2, <2>4, <2>5, <2>6 DEF ChunksOK
<1>12. LoadedOK'
  BY <1>1, <1>2, <1>7, TapeStands DEF LoadedOK
<1>13. phase' \in Live
  BY <1>1 DEF Live
<1> QED  BY <1>1, <1>10, <1>11, <1>12, <1>13 DEF RunInv

\* The other steps leave the records and the chunks alone.
LEMMA OthersKeepRun ==
    ASSUME RunInv, records' = records, chunks' = chunks, whole' = whole, req' = req, bars' = bars,
           \/ phase' = phase
           \/ phase = "generating" /\ phase' = "filling"
           \/ phase \in Live /\ phase' \in Live \ {"generating", "filling"}
           \/ phase = "idle" /\ phase' \in {"invalid", "no_symbols", "no_history"}
    PROVE  RunInv'
<1>1. /\ Parts' = Parts /\ AllDays' = AllDays /\ \A C : Frame(C)' = Frame(C) /\ DaysIn(C)' = DaysIn(C)
      /\ \A r : Honest(r)' = Honest(r) /\ Valid(req)' = Valid(req)
  BY TapeStands
<1>2. /\ phase' \in Live \cup {"idle", "invalid", "no_symbols", "no_history"}
      /\ phase' \in Live => phase \in Live
      /\ phase' \notin Live => phase \notin Live
      /\ phase' \in {"generating", "filling"} => phase \in {"generating", "filling"}
  BY DEF RunInv, Live
<1>3. LoadedOK'
  BY <1>1, <1>2 DEF RunInv, LoadedOK
<1>4. RecordsOK'
  <2>1. \A r \in records' : Honest(r)' /\ Within(r, AllDays')
    BY <1>1 DEF RunInv, RecordsOK
  <2>2. Disjoint(records')
    BY DEF RunInv, RecordsOK
  <2> QED  BY <2>1, <2>2 DEF RecordsOK, Disjoint, IsOpen, Within
<1>5. ASSUME phase' \in {"generating", "filling"}, NEW i \in DOMAIN chunks
      PROVE  \E C \in SUBSET Symbol :
                /\ chunks'[i] = Frame(C)' /\ DaysIn(C)' \subseteq AllDays'
                /\ \A r \in records' : r.symbol \notin C
  <2>1. PICK C \in SUBSET Symbol :
           chunks[i] = Frame(C) /\ DaysIn(C) \subseteq AllDays /\ \A r \in records : r.symbol \notin C
    BY <1>2, <1>5 DEF RunInv, ChunksOK, ChunkOK
  <2>2. chunks'[i] = Frame(C)' /\ DaysIn(C)' \subseteq AllDays'
    BY <1>1, <2>1
  <2> QED  BY <2>1, <2>2
<1>6. ChunksOK'
  <2>1. SUFFICES ASSUME phase' \in {"generating", "filling"} PROVE ChunksOK'
    BY DEF ChunksOK
  <2>2. \A i \in DOMAIN chunks' : ChunkOK(chunks[i])'
    BY <1>5, <2>1 DEF ChunkOK
  <2> QED  BY <1>2, <2>1, <2>2 DEF RunInv, ChunksOK
<1> QED  BY <1>2, <1>3, <1>4, <1>6 DEF RunInv

LEMMA RunStep ==
    ASSUME RunInv, [Next]_vars
    PROVE  RunInv'
<1>1. CASE Load
  BY <1>1, LoadKeepsRun
<1>2. CASE RunChunk
  BY <1>2, RunChunkKeepsRun
<1>3. CASE ~Load /\ ~RunChunk
  <2>1. req' = req /\ bars' = bars
    BY NextTape
  <2>2. records' = records /\ chunks' = chunks /\ whole' = whole
    BY <1>3 DEF Next, vars, tape, Refuse, SelectNothing, LoadNothing, End, GenerateSignals, Fail,
                CutWindow, Report, SkipFull, Book, BookLastBar, Take
  <2>3. \/ phase' = phase
        \/ phase = "generating" /\ phase' = "filling"
        \/ phase \in Live /\ phase' \in Live \ {"generating", "filling"}
        \/ phase = "idle" /\ phase' \in {"invalid", "no_symbols", "no_history"}
    BY <1>3 DEF Next, vars, tape, Refuse, SelectNothing, LoadNothing, End, GenerateSignals, Fail,
                CutWindow, Report, SkipFull, Book, BookLastBar, Take, Live
  <2> QED  BY <2>1, <2>2, <2>3, OthersKeepRun
<1> QED  BY <1>1, <1>2, <1>3

LEMMA RunInvMeans == RunInv => FillsAreHonest
<1> SUFFICES ASSUME RunInv, NEW r \in records
             PROVE  LET bar(d) == bars[r.symbol][d]
                        stop == StopPrice(r.entryPx)
                        later == {d \in Day : d > r.entry /\ d <= req.end}
                    IN /\ BoughtAt(bar(r.entry), r.entryPx)
                       /\ \A d \in later : IsOpen(r) \/ d < r.exit => ~Ends(bar(d), stop)
                       /\ ~IsOpen(r) => r.exit \in later /\ SoldAt(bar(r.exit), stop, r.exitPx)
                       /\ \A o \in records : o.symbol = r.symbol /\ o.entry > r.entry =>
                             ~IsOpen(r) /\ r.exit < o.entry
  BY DEF FillsAreHonest
<1>1. Honest(r) /\ Within(r, AllDays) /\ Disjoint(records)
  BY DEF RunInv, RecordsOK
<1>2. Traded(r.symbol, r.entry, r.entryPx)
  BY <1>1 DEF Honest
<1>3. \A d \in AllDays : d \in Day /\ d <= req.end
  BY DEF AllDays, DaysIn, DaysOf
<1>4. ASSUME NEW d \in Day, d > r.entry, d <= req.end, IsOpen(r) \/ d < r.exit
      PROVE  ~Ends(bars[r.symbol][d], StopPrice(r.entryPx))
  <2>1. CASE IsOpen(r)
    <3>1. Rides(r.symbol, r.entry, r.entryPx, req.end)
      BY <1>1, <2>1 DEF Honest
    <3>2. r.entry \in Nat /\ d \in Nat
      <4>1. r.entry \in Day
        BY <1>1, <1>3 DEF Within
      <4> QED  BY <4>1, BacktestAssumption
    <3> QED  BY <1>4, <3>1, <3>2 DEF Rides
  <2>2. CASE ~IsOpen(r)
    <3>1. Rides(r.symbol, r.entry, r.entryPx, r.exit - 1) /\ d < r.exit
      BY <1>1, <1>4, <2>2 DEF Honest, Sold
    <3>2. r.entry \in Nat /\ d \in Nat /\ r.exit \in Nat
      <4>1. r.entry \in Day /\ r.exit \in Day
        BY <1>1, <1>3, <2>2 DEF Within, IsOpen
      <4> QED  BY <4>1, BacktestAssumption
    <3>3. d <= r.exit - 1
      BY <3>1, <3>2
    <3> QED  BY <1>4, <3>1, <3>2, <3>3 DEF Rides
  <2> QED  BY <2>1, <2>2
<1>5. ASSUME ~IsOpen(r)
      PROVE  /\ r.exit \in Day /\ r.exit > r.entry /\ r.exit <= req.end
             /\ SoldAt(bars[r.symbol][r.exit], StopPrice(r.entryPx), r.exitPx)
  <2>1. r.exit # 0
    BY <1>5 DEF IsOpen
  <2>2. r.exit \in Day /\ r.entry \in Day /\ r.entry < r.exit /\ r.exit <= req.end
    BY <1>1, <1>3, <2>1 DEF Within
  <2>3. r.exit \in Nat /\ r.entry \in Nat
    BY <2>2, BacktestAssumption
  <2> QED  BY <1>1, <1>5, <2>2, <2>3 DEF Honest, Sold
<1> QED  BY <1>1, <1>2, <1>4, <1>5 DEF Traded, Disjoint

\* Under close pricing every fill is at a price of its bar.  Under limit pricing none is below
\* its bar's low, and one above its high is at a limit, or a stop, that the bar gapped below.  A
\* position is held through no bar that reached its stop, and no symbol is bought while it is
\* held (simulate_fills, simulate_limit_touch_fills).
THEOREM HonestFills == Spec => []FillsAreHonest
<1> QED  BY RunInit, RunStep, RunInvMeans, PTL DEF Spec

-----------------------------------------------------------------------------
(* The cap on positions. *)

\* A booked record takes a place on the days it is held, or on its entry day if that is the last.
Counted(b, d) == d \in Held(b) \/ (Held(b) = {} /\ d = b.entry)

CapInv ==
    /\ pending \cup booked \cup refused \subseteq {r \in records : r.entry >= First}
    /\ pending \cap booked = {} /\ IsFiniteSet(booked)
    /\ pending # {} => phase = "booking"
    /\ phase \notin {"booking", "no_trades", "done"} => booked \cup refused = {} /\ opened.day = 0
    /\ \A r \in pending : opened.day <= r.entry
    /\ \A b \in booked : b.entry <= opened.day
    /\ opened.day \in Nat
    /\ opened.count = Cardinality({b \in booked : b.entry = opened.day})
    /\ open = [d \in Day |-> Cardinality({b \in booked : Counted(b, d)})]
    /\ \A d \in Day : open[d] <= MaxPositions
    /\ \A r \in refused : r.entry < LastDay =>
          Cardinality({b \in booked : r.entry \in Held(b) \/ b.entry = r.entry}) >= MaxPositions

\* The test window starts on a day: a loaded symbol has more bars than the warm-up takes.
LEMMA FirstIsADay ==
    ASSUME RunInv, phase \in Live
    PROVE  /\ First \in Nat
           /\ ToSet(whole.days) = AllDays
           /\ AllDays \subseteq Day /\ Day \subseteq Nat \ {0} /\ IsFiniteSet(Day)
<1> DEFINE C == UNION ToSet(Parts)
           q == whole.days
<1>1. /\ whole = Frame(C) /\ Valid(req) /\ Parts # <<>> /\ req \in Request
      /\ C \in SUBSET Symbol
  <2>1. whole = Frame(C) /\ Valid(req) /\ Parts # <<>> /\ req \in Request
    BY DEF RunInv, LoadedOK
  <2>2. Parts \in Seq(SUBSET Symbol)
    BY <2>1, PartsAreApart
  <2>3. ToSet(Parts) \subseteq SUBSET Symbol
    BY <2>2 DEF ToSet
  <2> QED  BY <2>1, <2>3
<1>2. /\ AllDays \subseteq Day /\ Day \subseteq Nat \ {0} /\ IsFiniteSet(AllDays) /\ IsFiniteSet(Day)
      /\ Lists(q, AllDays)
  BY <1>1, FrameRows, BacktestAssumption DEF AllDays
<1>3. ToSet(q) = AllDays
  <2> HIDE DEF q
  <2> QED  BY <1>2, ListRange
<1>4. First \in Nat
  <2>1. CASE req.start # 0
    BY <1>1, <2>1, BacktestAssumption DEF First
  <2>2. CASE req.start = 0
    <3>1. PICK n \in Nat : DOMAIN Parts = 1..n
      BY <1>1, PartsAreApart
    <3>2. 1 \in DOMAIN Parts
      <4>1. n # 0
        BY <1>1, <3>1, PartsAreApart
      <4> QED  BY <3>1, <4>1
    <3>3. PICK s \in Parts[1] : Cardinality(DaysOf(s)) >= MinBars
      BY <1>1, <3>2, PartsAreApart
    <3>4. DaysOf(s) \in SUBSET AllDays
      BY <3>2, <3>3 DEF AllDays, DaysIn, ToSet
    <3>5. /\ IsFiniteSet(DaysOf(s)) /\ Cardinality(DaysOf(s)) <= Cardinality(AllDays)
          /\ Cardinality(DaysOf(s)) \in Nat /\ Cardinality(AllDays) \in Nat
      BY <1>2, <3>4, FS_Subset, FS_CardinalityType
    <3>6. Warmup + 1 \in DOMAIN q
      <4>1. Warmup \in Nat /\ MinBars \in Nat /\ Warmup < MinBars
        BY BacktestAssumption
      <4>2. DOMAIN q = 1..Cardinality(AllDays)
        BY <1>2 DEF Lists
      <4> HIDE DEF q
      <4> QED  BY <3>3, <3>5, <4>1, <4>2
    <3>7. q[Warmup + 1] \in ToSet(q)
      BY <3>6 DEF ToSet
    <3>8. First = q[Warmup + 1]
      BY <2>2 DEF First
    <3> HIDE DEF q
    <3> QED  BY <1>2, <1>3, <3>7, <3>8
  <2> QED  BY <2>1, <2>2
<1> QED  BY <1>2, <1>3, <1>4

\* A record of the test window is entered on one of its days and left on a later one.
LEMMA WindowDays ==
    ASSUME RunInv, phase \in Live, NEW r \in records, r.entry >= First
    PROVE  /\ r.entry \in Index /\ r.entry \in Nat /\ r.entry <= LastDay
           /\ Index \subseteq Day /\ Index \subseteq Nat /\ LastDay \in Index
           /\ \A d \in Index : d <= LastDay
           /\ ExitDay(r) \in Index
           /\ ~IsOpen(r) => r.entry < r.exit /\ r.exit \in Held(r)
           /\ Held(r) = {} => r.entry = LastDay
<1>1. /\ First \in Nat /\ ToSet(whole.days) = AllDays
      /\ AllDays \subseteq Day /\ Day \subseteq Nat \ {0} /\ IsFiniteSet(Day)
  BY FirstIsADay
<1>2. Within(r, AllDays)
  BY DEF RunInv, RecordsOK
<1>3. Index = {d \in AllDays : d >= First}
  BY <1>1 DEF Index
<1>4. Index \subseteq Day /\ Index \subseteq Nat /\ IsFiniteSet(Index)
  BY <1>1, <1>3, FS_Subset
<1>5. r.entry \in Index
  BY <1>2, <1>3 DEF Within
<1>6. LastDay \in Index /\ \A d \in Index : d <= LastDay
  BY <1>4, <1>5, LastIsLast DEF LastDay
<1>7. r.entry \in Nat /\ LastDay \in Nat
  BY <1>4, <1>5, <1>6
<1>8. ASSUME ~IsOpen(r)
      PROVE  r.exit \in Index /\ r.entry < r.exit
  <2>1. r.exit \in AllDays /\ r.entry < r.exit
    BY <1>2, <1>8 DEF Within, IsOpen
  <2>2. r.exit \in Nat
    BY <1>1, <2>1
  <2>3. r.exit >= First
    BY <1>1, <1>7, <2>1, <2>2
  <2> QED  BY <1>3, <2>1, <2>3
<1>9. ExitDay(r) \in Index
  BY <1>6, <1>8 DEF ExitDay
<1>10. ~IsOpen(r) => r.exit \in Held(r)
  <2> SUFFICES ASSUME ~IsOpen(r) PROVE r.exit \in Held(r)
    OBVIOUS
  <2>1. r.exit \in Index /\ r.entry < r.exit /\ r.exit \in Nat /\ ExitDay(r) = r.exit
    BY <1>4, <1>8 DEF ExitDay
  <2> QED  BY <2>1 DEF Held
<1>11. ASSUME Held(r) = {} PROVE r.entry = LastDay
  <2>1. IsOpen(r)
    BY <1>10, <1>11
  <2>2. ExitDay(r) = LastDay
    BY <2>1 DEF ExitDay
  <2>3. ~(r.entry < LastDay)
    BY <1>6, <1>7, <1>11, <2>2 DEF Held
  <2> QED  BY <1>5, <1>6, <1>7, <2>3
<1> QED  BY <1>4, <1>5, <1>6, <1>7, <1>8, <1>9, <1>10, <1>11

LEMMA HeldStands ==
    ASSUME req' = req, bars' = bars, whole' = whole
    PROVE  /\ First' = First /\ Index' = Index /\ LastDay' = LastDay
           /\ \A r : Held(r)' = Held(r) /\ \A d : Counted(r, d)' = Counted(r, d)
<1>1. First' = First
  BY DEF First
<1>2. Index' = Index
  BY <1>1 DEF Index
<1>3. LastDay' = LastDay
  BY <1>2 DEF LastDay
<1>4. \A r : ExitDay(r)' = ExitDay(r)
  BY <1>3 DEF ExitDay, IsOpen
<1>5. \A r : Held(r)' = Held(r)
  BY <1>2, <1>4 DEF Held
<1> QED  BY <1>1, <1>2, <1>3, <1>5 DEF Counted

\* Whoever is open on a later day was open, or was opened, on the entry day of the record taken.
LEMMA TakenRecord ==
    ASSUME RunInv, CapInv, NEW r \in pending
    PROVE  /\ phase = "booking" /\ r \in records /\ r.entry >= First /\ r \notin booked
           /\ r.entry \in Day /\ r.entry \in Nat /\ r.entry <= LastDay /\ Held(r) \subseteq Day
           /\ \A d \in Held(r) : d \in Index /\ r.entry < d
           /\ \A b \in booked : b.entry \in Nat /\ b.entry <= r.entry
           /\ Opened(r) = Cardinality({b \in booked : b.entry = r.entry}) /\ Opened(r) \in Nat
           /\ \A d \in Day : open[d] \in Nat
           /\ \A d \in Held(r) : open[d] <= open[r.entry] + Opened(r)
           /\ r.entry < LastDay =>
                 open[r.entry] + Opened(r) =
                    Cardinality({b \in booked : r.entry \in Held(b) \/ b.entry = r.entry})
<1> DEFINE e == r.entry
           Now == {b \in booked : b.entry = e}
           Over(d) == {b \in booked : Counted(b, d)}
<1>1. phase = "booking" /\ phase \in Live /\ r \in records /\ e >= First /\ r \notin booked
  BY DEF CapInv, Live
<1>2. \A x \in records : x.entry >= First =>
         /\ x.entry \in Index /\ x.entry \in Nat /\ x.entry <= LastDay
         /\ Index \subseteq Day /\ Index \subseteq Nat /\ LastDay \in Index
         /\ (Held(x) = {} => x.entry = LastDay)
  BY <1>1, WindowDays
<1>3. /\ e \in Index /\ e \in Day /\ e \in Nat /\ e <= LastDay /\ Index \subseteq Day
      /\ Index \subseteq Nat /\ LastDay \in Nat
  BY <1>1, <1>2
<1>4. \A d \in Held(r) : d \in Index /\ e < d
  BY DEF Held
<1>5. /\ booked \subseteq {x \in records : x.entry >= First} /\ IsFiniteSet(booked)
      /\ \A b \in booked : b.entry <= opened.day
      /\ opened.day \in Nat /\ opened.day <= e
      /\ opened.count = Cardinality({b \in booked : b.entry = opened.day})
      /\ open = [d \in Day |-> Cardinality(Over(d))]
  BY DEF CapInv
<1>6. \A b \in booked : /\ b \in records /\ b.entry >= First /\ b.entry \in Nat /\ b.entry <= e
                        /\ (Held(b) = {} => b.entry = LastDay)
  BY <1>2, <1>3, <1>5
<1>7. /\ IsFiniteSet(Now) /\ Cardinality(Now) \in Nat
      /\ \A d \in Day : IsFiniteSet(Over(d)) /\ open[d] = Cardinality(Over(d)) /\ open[d] \in Nat
  <2>1. IsFiniteSet(Now)
    BY <1>5, FS_Subset
  <2>2. ASSUME NEW d \in Day PROVE IsFiniteSet(Over(d)) /\ open[d] = Cardinality(Over(d))
    <3>1. Over(d) \in SUBSET booked
      OBVIOUS
    <3> QED  BY <1>5, <3>1, FS_Subset
  <2> HIDE DEF Now, Over
  <2> QED  BY <2>1, <2>2, FS_CardinalityType
<1>8. Opened(r) = Cardinality(Now)
  <2>1. CASE opened.day = e
    BY <1>5, <2>1 DEF Opened
  <2>2. CASE opened.day # e
    <3>1. \A b \in booked : b.entry # e
      BY <1>3, <1>5, <1>6, <2>2
    <3>2. Now = {}
      BY <3>1
    <3> HIDE DEF Now
    <3> QED  BY <2>2, <3>2, FS_EmptySet DEF Opened
  <2> QED  BY <2>1, <2>2
<1>9. ASSUME NEW d \in Held(r)
      PROVE  open[d] <= open[e] + Opened(r)
  <2>1. d \in Index /\ e < d /\ d \in Day /\ d \in Nat
    BY <1>3, <1>4
  <2>2. ASSUME NEW b \in Over(d), b \notin Now
        PROVE  b \in Over(e)
    <3>1. b \in booked /\ b.entry \in Nat /\ b.entry <= e /\ b.entry # e
      BY <1>6, <2>2
    <3>2. d \in Held(b)
      <4>1. Counted(b, d)
        BY <2>2
      <4>2. d # b.entry
        BY <1>3, <2>1, <3>1
      <4> QED  BY <4>1, <4>2 DEF Counted
    <3>3. b.entry < e /\ d <= ExitDay(b)
      BY <1>3, <3>1, <3>2 DEF Held
    <3>4. e <= ExitDay(b)
      <4>1. ExitDay(b) \in Nat
        BY <1>1, <1>6, <1>3, <3>1, WindowDays
      <4> QED  BY <1>3, <2>1, <3>3, <4>1
    <3>5. e \in Held(b)
      BY <1>3, <3>3, <3>4 DEF Held
    <3> QED  BY <3>1, <3>5 DEF Counted
  <2>3. Over(d) \in SUBSET (Over(e) \cup Now)
    <3> HIDE DEF Over, Now
    <3> QED  BY <2>2
  <2>4. /\ IsFiniteSet(Over(e) \cup Now)
        /\ Cardinality(Over(e) \cup Now) =
              Cardinality(Over(e)) + Cardinality(Now) - Cardinality(Over(e) \cap Now)
        /\ Cardinality(Over(e) \cap Now) \in Nat
    <3> HIDE DEF Over, Now
    <3>1. IsFiniteSet(Over(e)) /\ IsFiniteSet(Now)
      BY <1>3, <1>7
    <3>2. IsFiniteSet(Over(e) \cap Now)
      BY <3>1, FS_Intersection
    <3> QED  BY <3>1, <3>2, FS_Union, FS_CardinalityType
  <2>5. Cardinality(Over(d)) <= Cardinality(Over(e) \cup Now)
    <3> HIDE DEF Over, Now
    <3> QED  BY <2>3, <2>4, FS_Subset
  <2> HIDE DEF Over, Now
  <2> QED  BY <1>3, <1>7, <1>8, <2>1, <2>4, <2>5
<1>10. ASSUME e < LastDay
       PROVE  open[e] + Opened(r) = Cardinality({b \in booked : e \in Held(b) \/ b.entry = e})
  <2>1. \A b \in booked : Counted(b, e) <=> e \in Held(b)
    BY <1>3, <1>6, <1>10 DEF Counted
  <2>2. \A b \in booked : e \in Held(b) => b.entry # e
    BY <1>6 DEF Held
  <2>3. {b \in booked : e \in Held(b) \/ b.entry = e} = Over(e) \cup Now
    BY <2>1
  <2>4. Over(e) \cap Now = {}
    BY <2>1, <2>2
  <2>5. Cardinality(Over(e) \cup Now) = Cardinality(Over(e)) + Cardinality(Now)
    <3> HIDE DEF Over, Now
    <3>1. IsFiniteSet(Over(e)) /\ IsFiniteSet(Now)
      BY <1>3, <1>7
    <3>2. Cardinality(Over(e)) \in Nat /\ Cardinality(Now) \in Nat
      BY <3>1, FS_CardinalityType
    <3>3. Cardinality(Over(e) \cup Now) = Cardinality(Over(e)) + Cardinality(Now) - Cardinality({})
      BY <3>1, <2>4, FS_Union
    <3> QED  BY <3>2, <3>3, FS_EmptySet
  <2>6. open[e] = Cardinality(Over(e)) /\ Opened(r) = Cardinality(Now)
    BY <1>3, <1>7, <1>8
  <2>7. Cardinality({b \in booked : e \in Held(b) \/ b.entry = e}) = Cardinality(Over(e) \cup Now)
    BY <2>3
  <2> HIDE DEF Over, Now, e
  <2> QED  BY <2>5, <2>6, <2>7
<1> QED  BY <1>1, <1>3, <1>4, <1>6, <1>7, <1>8, <1>9, <1>10

LEMMA CapInit == Init => CapInv
<1> SUFFICES ASSUME Init PROVE CapInv
  OBVIOUS
<1>1. /\ records = {} /\ pending = {} /\ booked = {} /\ refused = {} /\ opened.day = 0
      /\ opened.count = 0 /\ open = [d \in Day |-> 0] /\ phase = "idle"
  BY DEF Init
<1>2. \A d \in Day : {b \in booked : Counted(b, d)} = {}
  BY <1>1
<1>3. {b \in booked : b.entry = opened.day} = {}
  BY <1>1
<1>4. open = [d \in Day |-> Cardinality({b \in booked : Counted(b, d)})]
  BY <1>1, <1>2, FS_EmptySet
<1>5. IsFiniteSet(booked) /\ Cardinality({b \in booked : b.entry = opened.day}) = 0
  BY <1>1, <1>3, FS_EmptySet
<1>6. \A d \in Day : open[d] <= MaxPositions
  BY <1>1, BacktestAssumption
<1> QED  BY <1>1, <1>4, <1>5, <1>6 DEF CapInv

\* Before the records of the window are cut out, no position is booked.
LEMMA EarlyKeepsCap ==
    ASSUME RunInv, CapInv, phase \notin {"booking", "no_trades", "done"}, UNCHANGED book,
           \/ pending' = {} /\ phase' \notin {"booking", "no_trades", "done"}
           \/ CutWindow
    PROVE  CapInv'
<1>1. booked = {} /\ refused = {} /\ opened.day = 0 /\ booked' = {} /\ refused' = {} /\ opened' = opened
      /\ open' = open
  BY DEF CapInv, book
<1>2. /\ opened.count = Cardinality({b \in booked : b.entry = opened.day})
      /\ open = [d \in Day |-> Cardinality({b \in booked : Counted(b, d)})]
      /\ \A d \in Day : open[d] <= MaxPositions
  BY DEF CapInv
<1>3. /\ {b \in booked' : b.entry = opened'.day} = {b \in booked : b.entry = opened.day}
      /\ \A d \in Day : {b \in booked' : Counted(b, d)'} = {b \in booked : Counted(b, d)}
  BY <1>1
<1>4. open' = [d \in Day |-> Cardinality({b \in booked' : Counted(b, d)'})]
  BY <1>1, <1>2, <1>3
<1>5. /\ pending' \subseteq {r \in records' : r.entry >= First'}
      /\ (pending' # {} => phase' = "booking")
      /\ \A r \in pending' : opened'.day <= r.entry
  <2>1. CASE pending' = {}
    BY <2>1
  <2>2. CASE CutWindow
    <3>1. /\ phase = "cutting" /\ phase' = "booking" /\ records' = records
          /\ pending' = {r \in records : r.entry >= First} /\ First' = First
      BY <2>2, HeldStands DEF CutWindow, tape
    <3>2. \A r \in pending' : r.entry \in Nat
      <4>1. phase \in Live
        BY <3>1 DEF Live
      <4> QED  BY <3>1, <4>1, WindowDays
    <3> QED  BY <1>1, <3>1, <3>2
  <2> QED  BY <2>1, <2>2
<1>6. phase' \notin {"booking", "no_trades", "done"} => booked' \cup refused' = {} /\ opened'.day = 0
  BY <1>1
<1> QED  BY <1>1, <1>2, <1>3, <1>4, <1>5, <1>6, FS_EmptySet DEF CapInv

\* Reporting leaves the book alone.
LEMMA ReportKeepsCap ==
    ASSUME CapInv, UNCHANGED <<tape, records, pending, book>>,
           \/ phase' = phase
           \/ Report
    PROVE  CapInv'
<1>1. /\ First' = First /\ LastDay' = LastDay
      /\ \A r : Held(r)' = Held(r) /\ \A d : Counted(r, d)' = Counted(r, d)
  BY HeldStands DEF tape
<1>2. records' = records /\ pending' = pending /\ booked' = booked /\ refused' = refused
      /\ opened' = opened /\ open' = open
  BY DEF book
<1>3. /\ \A d \in Day : {b \in booked' : Counted(b, d)'} = {b \in booked : Counted(b, d)}
      /\ \A r \in refused : {b \in booked' : r.entry \in Held(b)' \/ b.entry = r.entry}
                               = {b \in booked : r.entry \in Held(b) \/ b.entry = r.entry}
  BY <1>1, <1>2
<1>4. /\ pending' # {} => phase' = "booking"
      /\ phase' \notin {"booking", "no_trades", "done"} => booked' \cup refused' = {} /\ opened'.day = 0
  <2>1. CASE phase' = phase
    BY <1>2, <2>1 DEF CapInv
  <2>2. CASE Report
    BY <1>2, <2>2 DEF Report, End
  <2> QED  BY <2>1, <2>2
<1>5. open' = [d \in Day |-> Cardinality({b \in booked' : Counted(b, d)'})]
  BY <1>2, <1>3 DEF CapInv
<1>6. \A r \in refused' : r.entry < LastDay' =>
         Cardinality({b \in booked' : r.entry \in Held(b)' \/ b.entry = r.entry}) >= MaxPositions
  BY <1>1, <1>2, <1>3 DEF CapInv
<1> QED  BY <1>1, <1>2, <1>4, <1>5, <1>6 DEF CapInv


\* One member more of a set that is counted.
LEMMA OneMore ==
    ASSUME NEW S, IsFiniteSet(S), NEW x, x \notin S
    PROVE  IsFiniteSet(S \cup {x}) /\ Cardinality(S \cup {x}) = Cardinality(S) + 1 /\ Cardinality(S) \in Nat
<1> QED  BY FS_AddElement, FS_CardinalityType

\* The record taken is entered no later than the others, and they stay in their window.
LEMMA TakeKeepsWindow ==
    ASSUME RunInv, CapInv, NEW r \in pending, Take(r)
    PROVE  /\ First' = First /\ LastDay' = LastDay
           /\ \A x : Held(x)' = Held(x) /\ \A d : Counted(x, d)' = Counted(x, d)
           /\ records' = records /\ phase' = "booking" /\ phase = "booking"
           /\ pending' = pending \ {r}
           /\ \A o \in pending : r.entry <= o.entry
<1>1. /\ req' = req /\ bars' = bars /\ whole' = whole
      /\ records' = records /\ phase' = "booking" /\ phase = "booking" /\ pending' = pending \ {r}
  BY DEF Take, tape
<1>2. ASSUME NEW o \in pending PROVE r.entry <= o.entry
  <2>1. o.entry \in Nat /\ r.entry \in Nat
    BY TakenRecord
  <2>2. o = r \/ Before(r, o)
    BY DEF Take
  <2> QED  BY <2>1, <2>2 DEF Before
<1> QED  BY <1>1, <1>2, HeldStands

\* A record the cap keeps out finds max_positions open, or opened on its day.
LEMMA SkipKeepsCap ==
    ASSUME RunInv, CapInv, NEW r \in pending, SkipFull(r)
    PROVE  CapInv'
<1>1. Take(r) /\ AtCap(r) /\ booked' = booked /\ open' = open /\ refused' = refused \cup {r}
      /\ opened'.day = r.entry /\ opened'.count = Opened(r)
  BY DEF SkipFull
<1>2. /\ First' = First /\ LastDay' = LastDay
      /\ \A x : Held(x)' = Held(x) /\ \A d : Counted(x, d)' = Counted(x, d)
      /\ records' = records /\ phase' = "booking" /\ pending' = pending \ {r}
      /\ \A o \in pending : r.entry <= o.entry
  BY <1>1, TakeKeepsWindow
<1>3. /\ pending' \cup booked' \cup refused' \subseteq {x \in records' : x.entry >= First'}
      /\ pending' \cap booked' = {} /\ IsFiniteSet(booked')
      /\ \A o \in pending' : opened'.day <= o.entry
  BY <1>1, <1>2 DEF CapInv
<1>4. /\ \A b \in booked' : b.entry <= opened'.day
      /\ opened'.day \in Nat
      /\ opened'.count = Cardinality({b \in booked' : b.entry = opened'.day})
  BY <1>1, TakenRecord
<1>5. \A d \in Day : {b \in booked' : Counted(b, d)'} = {b \in booked : Counted(b, d)}
  BY <1>1, <1>2
<1>6. open' = [d \in Day |-> Cardinality({b \in booked' : Counted(b, d)'})]
      /\ \A d \in Day : open'[d] <= MaxPositions
  BY <1>1, <1>5 DEF CapInv
<1>7. ASSUME NEW x \in refused', x.entry < LastDay'
      PROVE  Cardinality({b \in booked' : x.entry \in Held(b)' \/ b.entry = x.entry}) >= MaxPositions
  <2>1. {b \in booked' : x.entry \in Held(b)' \/ b.entry = x.entry}
           = {b \in booked : x.entry \in Held(b) \/ b.entry = x.entry}
    BY <1>1, <1>2
  <2>2. CASE x \in refused
    BY <1>2, <1>7, <2>1, <2>2 DEF CapInv
  <2>3. CASE x = r
    <3>1. r.entry < LastDay
      BY <1>2, <1>7, <2>3
    <3>2. open[r.entry] + Opened(r) = Cardinality({b \in booked : r.entry \in Held(b) \/ b.entry = r.entry})
      BY <3>1, TakenRecord
    <3> QED  BY <1>1, <2>1, <2>3, <3>2 DEF AtCap
  <2> QED  BY <1>1, <2>2, <2>3
<1> QED  BY <1>2, <1>3, <1>4, <1>6, <1>7 DEF CapInv

\* A booked record takes one place on each day it is counted, and there was one left.
LEMMA BookKeepsCap ==
    ASSUME RunInv, CapInv, NEW r \in pending, Book(r) \/ BookLastBar(r)
    PROVE  CapInv'
<1> DEFINE e == r.entry
<1>1. /\ Take(r) /\ ~AtCap(r) /\ booked' = booked \cup {r} /\ refused' = refused
      /\ opened'.day = e /\ opened'.count = Opened(r) + 1
  BY DEF Book, BookLastBar
<1>2. /\ First' = First /\ LastDay' = LastDay
      /\ \A x : Held(x)' = Held(x) /\ \A d : Counted(x, d)' = Counted(x, d)
      /\ records' = records /\ phase' = "booking" /\ pending' = pending \ {r}
      /\ \A o \in pending : e <= o.entry
  BY <1>1, TakeKeepsWindow
<1>3. /\ r \in records /\ e >= First /\ r \notin booked /\ e \in Day /\ e \in Nat
      /\ Held(r) \subseteq Day
      /\ \A d \in Held(r) : e < d
      /\ \A b \in booked : b.entry \in Nat /\ b.entry <= e
      /\ Opened(r) = Cardinality({b \in booked : b.entry = e}) /\ Opened(r) \in Nat
      /\ \A d \in Day : open[d] \in Nat
      /\ \A d \in Held(r) : open[d] <= open[e] + Opened(r)
  BY TakenRecord
<1>4. /\ IsFiniteSet(booked)
      /\ open = [d \in Day |-> Cardinality({b \in booked : Counted(b, d)})]
      /\ \A d \in Day : open[d] <= MaxPositions
  BY DEF CapInv
<1>5. /\ pending' \cup booked' \cup refused' \subseteq {x \in records' : x.entry >= First'}
      /\ pending' \cap booked' = {} /\ IsFiniteSet(booked')
      /\ \A o \in pending' : opened'.day <= o.entry
  <2>1. IsFiniteSet(booked')
    BY <1>1, <1>3, <1>4, OneMore
  <2> QED  BY <1>1, <1>2, <1>3, <2>1 DEF CapInv
<1>6. /\ \A b \in booked' : b.entry <= opened'.day
      /\ opened'.day \in Nat
  BY <1>1, <1>3
<1>7. opened'.count = Cardinality({b \in booked' : b.entry = opened'.day})
  <2> DEFINE Now == {b \in booked : b.entry = e}
  <2>1. {b \in booked' : b.entry = opened'.day} = Now \cup {r} /\ r \notin Now
    BY <1>1, <1>3
  <2>2. IsFiniteSet(Now)
    BY <1>4, FS_Subset
  <2>3. opened'.count = Cardinality(Now) + 1
    BY <1>1, <1>3
  <2> HIDE DEF Now
  <2>4. Cardinality(Now \cup {r}) = Cardinality(Now) + 1
    BY <2>1, <2>2, OneMore
  <2> QED  BY <2>1, <2>3, <2>4
<1>8. open' = [d \in Day |-> IF Counted(r, d) THEN open[d] + 1 ELSE open[d]]
  <2>1. CASE Book(r)
    <3>1. open' = [d \in Day |-> IF d \in Held(r) THEN open[d] + 1 ELSE open[d]] /\ Held(r) # {}
      BY <2>1 DEF Book
    <3>2. \A d \in Day : Counted(r, d) <=> d \in Held(r)
      BY <3>1 DEF Counted
    <3> QED  BY <3>1, <3>2
  <2>2. CASE BookLastBar(r)
    <3>1. open' = [open EXCEPT ![e] = open[e] + 1] /\ Held(r) = {}
      BY <2>2 DEF BookLastBar
    <3>2. \A d \in Day : Counted(r, d) <=> d = e
      BY <3>1 DEF Counted
    <3>3. DOMAIN open = Day
      BY <1>4
    <3>4. open' = [d \in Day |-> IF d = e THEN open[d] + 1 ELSE open[d]]
      BY <3>1, <3>3
    <3> QED  BY <3>2, <3>4
  <2> QED  BY <2>1, <2>2
<1>9. ASSUME NEW d \in Day
      PROVE  /\ open'[d] = Cardinality({b \in booked' : Counted(b, d)'})
             /\ open'[d] <= MaxPositions
  <2> DEFINE Over == {b \in booked : Counted(b, d)}
  <2>1. {b \in booked' : Counted(b, d)'} = IF Counted(r, d) THEN Over \cup {r} ELSE Over
    BY <1>1, <1>2
  <2>2. IsFiniteSet(Over) /\ r \notin Over /\ open[d] = Cardinality(Over)
    <3>1. Over \in SUBSET booked
      OBVIOUS
    <3> QED  BY <1>3, <1>4, <3>1, FS_Subset
  <2> HIDE DEF Over
  <2>3. open'[d] = Cardinality({b \in booked' : Counted(b, d)'})
    BY <1>8, <2>1, <2>2, OneMore
  <2>4. CASE ~Counted(r, d)
    BY <1>4, <1>8, <2>3, <2>4
  <2>5. CASE Counted(r, d)
    <3>1. open[d] <= open[e] + Opened(r)
      BY <1>3, <2>5 DEF Counted
    <3>2. open[e] + Opened(r) < MaxPositions
      <4>1. MaxPositions \in Nat /\ open[e] \in Nat /\ Opened(r) \in Nat
        BY <1>3, BacktestAssumption
      <4> QED  BY <1>1, <4>1 DEF AtCap
    <3>3. open[d] \in Nat /\ open[e] \in Nat /\ Opened(r) \in Nat /\ MaxPositions \in Nat
      BY <1>3, BacktestAssumption
    <3>4. open'[d] = open[d] + 1
      BY <1>8, <2>5
    <3> HIDE DEF e
    <3>5. open[d] + 1 <= MaxPositions
      BY <3>1, <3>2, <3>3
    <3> QED  BY <2>3, <3>4, <3>5
  <2> QED  BY <2>3, <2>4, <2>5
<1>10. open' = [d \in Day |-> Cardinality({b \in booked' : Counted(b, d)'})]
  <2>1. open' = [d \in Day |-> open'[d]]
    BY <1>8
  <2> QED  BY <1>9, <2>1
<1>11. ASSUME NEW x \in refused', x.entry < LastDay'
       PROVE  Cardinality({b \in booked' : x.entry \in Held(b)' \/ b.entry = x.entry}) >= MaxPositions
  <2> DEFINE was == {b \in booked : x.entry \in Held(b) \/ b.entry = x.entry}
             now == {b \in booked' : x.entry \in Held(b)' \/ b.entry = x.entry}
  <2>1. Cardinality(was) >= MaxPositions
    BY <1>1, <1>2, <1>11 DEF CapInv
  <2>2. was \subseteq now /\ IsFiniteSet(now)
    <3>1. now \in SUBSET booked'
      OBVIOUS
    <3>2. was \subseteq now
      BY <1>1, <1>2
    <3> QED  BY <1>5, <3>1, <3>2, FS_Subset
  <2> HIDE DEF was, now
  <2>3. IsFiniteSet(was) /\ Cardinality(was) <= Cardinality(now)
    BY <2>2, FS_Subset
  <2>4. Cardinality(was) \in Nat /\ Cardinality(now) \in Nat /\ MaxPositions \in Nat
    BY <2>2, <2>3, FS_CardinalityType, BacktestAssumption
  <2>5. Cardinality(now) >= MaxPositions
    BY <2>1, <2>3, <2>4
  <2> QED  BY <2>5 DEF now
<1> QED  BY <1>2, <1>5, <1>6, <1>7, <1>9, <1>10, <1>11 DEF CapInv

LEMMA CapStep ==
    ASSUME RunInv, CapInv, [Next]_vars
    PROVE  CapInv'
<1>1. ASSUME NEW r \in pending, SkipFull(r) PROVE CapInv'
  BY <1>1, SkipKeepsCap
<1>2. ASSUME NEW r \in pending, Book(r) \/ BookLastBar(r) PROVE CapInv'
  BY <1>2, BookKeepsCap
<1>3. CASE Report
  BY <1>3, ReportKeepsCap DEF Report, End
<1>4. CASE UNCHANGED vars
  BY <1>4, ReportKeepsCap DEF vars
<1>5. CASE CutWindow
  BY <1>5, EarlyKeepsCap DEF CutWindow
<1>6. CASE Refuse \/ SelectNothing \/ LoadNothing \/ Load \/ GenerateSignals \/ Fail \/ RunChunk
  <2>1. /\ phase \in {"idle", "generating", "filling"} /\ pending' = pending /\ UNCHANGED book
        /\ phase' \notin {"booking", "no_trades", "done"}
    BY <1>6 DEF Refuse, SelectNothing, LoadNothing, Load, GenerateSignals, Fail, RunChunk, End, book
  <2>2. pending = {}
    BY <2>1 DEF CapInv
  <2> QED  BY <2>1, <2>2, EarlyKeepsCap
<1> QED  BY <1>1, <1>2, <1>3, <1>4, <1>5, <1>6 DEF Next

\* The cap is exact, for every history, every request and every max_positions: no day counts more
\* than max_positions open, and a record is only refused on a day that has its full number carried
\* into it or opened on it (aggregate_trades).
THEOREM ExactCap == Spec => []CapIsExact
<1>1. CapInv => CapIsExact
  BY DEF CapInv, CapIsExact
<1> QED  BY <1>1, RunInit, RunStep, CapInit, CapStep, PTL DEF Spec

-----------------------------------------------------------------------------
(* The books. *)

Closings(B) == {r \in B : ~IsOpen(r)}
MarksMade(B) == UNION {{Mark(r, d) : d \in Marked(r)} : r \in B}

BookInv ==
    /\ opened \in [day: Day \cup {0}, count: 0..MaxPositions]
    /\ fees \in [Day -> Nat]
    /\ SumFunctionOnSet(fees, Day) = Cardinality(booked) + Cardinality(Closings(booked))
    /\ \A d \in Day : fees[d] > 0 => open[d] > 0
    /\ marks = MarksMade(booked)

\* A booked record is one of the run's, entered and left in the test window.
LEMMA BookedRecord ==
    ASSUME RunInv, CapInv, NEW r \in booked
    PROVE  /\ phase \in Live /\ phase \in {"booking", "no_trades", "done"}
           /\ r \in records /\ r \in Holding /\ Honest(r)
           /\ r.entry \in Nat /\ r.entry <= LastDay /\ LastDay \in Day /\ LastDay \in Index
           /\ Held(r) \subseteq Day /\ Held(r) \subseteq Nat \ {0} /\ IsFiniteSet(Held(r))
           /\ \A d \in Held(r) : r.entry < d /\ d <= ExitDay(r) /\ d <= LastDay
           /\ ~IsOpen(r) => r.exit \in Held(r)
           /\ Held(r) = {} => r.entry = LastDay
<1>1. phase \in {"booking", "no_trades", "done"} /\ r \in records /\ r.entry >= First
  BY DEF CapInv
<1>2. phase \in Live
  BY <1>1 DEF Live
<1>3. /\ r.entry \in Index /\ r.entry \in Nat /\ r.entry <= LastDay
      /\ Index \subseteq Day /\ Index \subseteq Nat /\ LastDay \in Index
      /\ \A d \in Index : d <= LastDay
      /\ ~IsOpen(r) => r.entry < r.exit /\ r.exit \in Held(r)
      /\ Held(r) = {} => r.entry = LastDay
  BY <1>1, <1>2, WindowDays
<1>4. Honest(r) /\ r \in Holding
  BY <1>1 DEF RunInv, RecordsOK, Honest
<1>5. Held(r) \subseteq Index /\ \A d \in Held(r) : r.entry < d /\ d <= ExitDay(r)
  BY DEF Held
<1>6. Day \subseteq Nat \ {0} /\ IsFiniteSet(Day)
  BY BacktestAssumption
<1>7. Held(r) \subseteq Day
  BY <1>3, <1>5
<1>8. IsFiniteSet(Held(r)) /\ Held(r) \subseteq Nat \ {0}
  BY <1>6, <1>7, FS_Subset
<1>9. LastDay \in Day /\ \A d \in Held(r) : d <= LastDay
  BY <1>3, <1>5
<1> QED  BY <1>1, <1>2, <1>3, <1>4, <1>5, <1>7, <1>8, <1>9

LEMMA MarkIs ==
    ASSUME NEW r, NEW d
    PROVE  /\ Mark(r, d).of = <<r.symbol, r.entry>> /\ Mark(r, d).day = d /\ Mark(r, d).from = Base(r, d)
           /\ Mark(r, d).to = IF d = r.exit THEN r.exitPx ELSE bars[r.symbol][d].close
BY Zenon DEF Mark

\* The marks of a booked record are its own: no other record of the symbol has its entry day.
LEMMA MarksAreOwn ==
    ASSUME RunInv, CapInv, BookInv, NEW r \in booked
    PROVE  /\ \A m \in MarksOf(r) : \E d \in Marked(r) : m = Mark(r, d)
           /\ \A d \in Marked(r) : Mark(r, d) \in MarksOf(r)
<1>1. marks = MarksMade(booked) /\ Disjoint(records)
  BY DEF BookInv, RunInv, RecordsOK
<1>2. ASSUME NEW m \in MarksOf(r)
      PROVE  \E d \in Marked(r) : m = Mark(r, d)
  <2>1. m \in marks /\ m.of = <<r.symbol, r.entry>>
    BY DEF MarksOf
  <2>2. PICK b \in booked : m \in {Mark(b, d) : d \in Marked(b)}
    BY <1>1, <2>1 DEF MarksMade
  <2>3. PICK d \in Marked(b) : m = Mark(b, d)
    BY <2>2
  <2>4. b.symbol = r.symbol /\ b.entry = r.entry
    BY <2>1, <2>3, MarkIs
  <2>5. b = r
    BY <1>1, <2>4, BookedRecord DEF Disjoint
  <2> QED  BY <2>3, <2>5
<1>3. ASSUME NEW d \in Marked(r) PROVE Mark(r, d) \in MarksOf(r)
  <2>1. Mark(r, d) \in marks
    BY <1>1 DEF MarksMade
  <2> QED  BY <2>1, MarkIs DEF MarksOf
<1> QED  BY <1>2, <1>3

\* A marked day has the exit, or a close.
LEMMA MarkedDays ==
    ASSUME RunInv, CapInv, NEW r \in booked, NEW d \in Marked(r)
    PROVE  /\ d \in Held(r) /\ d \in Day /\ d \in Nat /\ r.symbol \in Symbol /\ bars \in History
           /\ d = r.exit => ~IsOpen(r) /\ r.exitPx \in Nat
           /\ d # r.exit => bars[r.symbol][d].close \in Nat
           /\ \A e \in Held(r) : e < d => e # r.exit
<1>1. /\ d \in Held(r) /\ (Known(bars[r.symbol][d].close) \/ d = r.exit)
  BY DEF Marked
<1>2. /\ r \in Holding /\ Honest(r) /\ d \in Day /\ d \in Nat \ {0} /\ Held(r) \subseteq Nat \ {0}
      /\ \A e \in Held(r) : e <= ExitDay(r)
  BY <1>1, BookedRecord
<1>3. r.symbol \in Symbol /\ bars \in History
  BY <1>2 DEF Holding, RunInv
<1>4. ASSUME d = r.exit PROVE ~IsOpen(r) /\ r.exitPx \in Nat
  <2>1. ~IsOpen(r)
    BY <1>2, <1>4 DEF IsOpen
  <2> QED  BY <1>2, <2>1 DEF Honest, Sold
<1>5. d # r.exit => bars[r.symbol][d].close \in Nat
  BY <1>1, <1>2, <1>3, BarPrices DEF Known, Price
<1>6. ASSUME NEW e \in Held(r), e < d PROVE e # r.exit
  <2>1. e \in Nat \ {0} /\ d \in Nat
    BY <1>2
  <2>2. CASE IsOpen(r)
    BY <2>1, <2>2 DEF IsOpen
  <2>3. CASE ~IsOpen(r)
    <3>1. d <= r.exit
      BY <1>1, <1>2, <2>3 DEF ExitDay
    <3>2. ~(d <= e)
      BY <1>6, <2>1
    <3> QED  BY <3>1, <3>2
  <2> QED  BY <2>2, <2>3
<1> QED  BY <1>1, <1>2, <1>3, <1>4, <1>5, <1>6

\* Each mark compounds from where the last one before it led that was worth something.
LEMMA MarksLead ==
    ASSUME RunInv, CapInv, BookInv, NEW r \in booked, NEW m \in MarksOf(r), NEW before,
           before = {o \in MarksOf(r) : o.day < m.day /\ o.to # 0}
    PROVE  {m.from} = IF before = {} THEN {r.entryPx} ELSE {o.to : o \in Latest(before)}
<1> DEFINE price(e) == bars[r.symbol][e].close
<1>1. PICK d \in Marked(r) : m = Mark(r, d)
  BY MarksAreOwn
<1>2. m.day = d /\ m.from = Base(r, d)
  BY <1>1, MarkIs
<1> DEFINE closes == {e \in Held(r) : e < d /\ Priced(bars[r.symbol][e].close)}
<1>3. Base(r, d) = IF closes = {} THEN r.entryPx ELSE price(Max(closes))
  BY DEF Base
<1>4. \A e \in Held(r) : e < d => e # r.exit
  BY MarkedDays
<1>5. \A o \in before : \E e \in closes : o = Mark(r, e)
  <2> SUFFICES ASSUME NEW o \in before PROVE \E e \in closes : o = Mark(r, e)
    OBVIOUS
  <2>1. o \in MarksOf(r) /\ o.day < d /\ o.to # 0
    BY <1>2
  <2>2. PICK e \in Marked(r) : o = Mark(r, e)
    BY <2>1, MarksAreOwn
  <2>3. e \in Held(r) /\ e < d /\ e # r.exit /\ Known(price(e))
    BY <1>4, <2>1, <2>2, MarkIs DEF Marked
  <2>4. o.to = price(e)
    BY <2>2, <2>3, MarkIs
  <2>5. e \in closes
    BY <2>1, <2>3, <2>4 DEF Priced
  <2> QED  BY <2>2, <2>5
<1>6. ASSUME NEW e \in closes
      PROVE  Mark(r, e) \in before /\ Mark(r, e).day = e /\ Mark(r, e).to = price(e)
  <2>1. e \in Held(r) /\ e < d /\ Known(price(e)) /\ price(e) # 0 /\ e # r.exit
    BY <1>4 DEF Priced
  <2>2. Mark(r, e) \in MarksOf(r)
    BY <2>1, MarksAreOwn DEF Marked
  <2>3. Mark(r, e).day = e /\ Mark(r, e).to = price(e)
    BY <2>1, MarkIs
  <2> QED  BY <1>2, <2>1, <2>2, <2>3
<1>7. closes \subseteq Nat /\ IsFiniteSet(closes)
  <2>1. closes \in SUBSET Held(r)
    OBVIOUS
  <2> QED  BY <2>1, BookedRecord, FS_Subset
<1> HIDE DEF closes, price
<1>8. CASE closes = {}
  BY <1>2, <1>3, <1>5, <1>8
<1>9. CASE closes # {}
  <2> PICK k : k = Max(closes)
    OBVIOUS
  <2>1. k \in closes /\ \A e \in closes : e <= k
    BY <1>7, <1>9, LastIsLast
  <2>2. Mark(r, k) \in before /\ Mark(r, k).day = k /\ Mark(r, k).to = price(k)
    BY <1>6, <2>1
  <2>3. Mark(r, k) \in Latest(before)
    <3>1. ASSUME NEW o \in before PROVE o.day <= k
      <4>1. PICK e \in closes : o = Mark(r, e)
        BY <1>5
      <4> QED  BY <1>6, <2>1, <4>1
    <3> QED  BY <2>2, <3>1 DEF Latest
  <2>4. ASSUME NEW o \in Latest(before) PROVE o = Mark(r, k)
    <3>1. o \in before /\ k <= o.day
      BY <2>2 DEF Latest
    <3>2. PICK e \in closes : o = Mark(r, e)
      BY <1>5, <3>1
    <3>3. k <= e /\ e <= k
      BY <1>6, <2>1, <3>1, <3>2
    <3>4. k \in Nat /\ e \in Nat
      BY <1>7, <2>1, <3>2
    <3>5. e = k
      BY <3>3, <3>4
    <3> QED  BY <3>2, <3>5
  <2>5. {o.to : o \in Latest(before)} = {price(k)}
    BY <2>2, <2>3, <2>4
  <2> QED  BY <1>2, <1>3, <1>9, <2>2, <2>5
<1> QED  BY <1>8, <1>9

\* The last mark of a position that was sold leads to its exit price.
LEMMA MarksEnd ==
    ASSUME RunInv, CapInv, BookInv, NEW r \in booked, ~IsOpen(r)
    PROVE  {m.to : m \in Latest(MarksOf(r))} = {r.exitPx}
<1> DEFINE x == r.exit
<1>1. x \in Held(r) /\ x \in Nat /\ \A d \in Held(r) : d <= x
  BY BookedRecord DEF ExitDay
<1>2. x \in Marked(r)
  BY <1>1 DEF Marked
<1>3. Mark(r, x) \in MarksOf(r) /\ Mark(r, x).day = x /\ Mark(r, x).to = r.exitPx
  BY <1>2, MarksAreOwn, MarkIs
<1>4. ASSUME NEW o \in MarksOf(r)
      PROVE  \E d \in Held(r) : o = Mark(r, d) /\ o.day = d /\ d <= x
  <2>1. PICK d \in Marked(r) : o = Mark(r, d)
    BY MarksAreOwn
  <2>2. d \in Held(r)
    BY DEF Marked
  <2> QED  BY <1>1, <2>1, <2>2, MarkIs
<1> HIDE DEF x
<1>5. Mark(r, x) \in Latest(MarksOf(r))
  BY <1>3, <1>4 DEF Latest
<1>6. ASSUME NEW o \in Latest(MarksOf(r)) PROVE o = Mark(r, x)
  <2>1. o \in MarksOf(r) /\ x <= o.day
    BY <1>3 DEF Latest
  <2>2. PICK d \in Held(r) : o = Mark(r, d) /\ o.day = d /\ d <= x
    BY <1>4, <2>1
  <2>3. d \in Nat
    BY BookedRecord
  <2>4. d = x
    BY <1>1, <2>1, <2>2, <2>3
  <2> QED  BY <2>2, <2>4
<1> QED  BY <1>3, <1>5, <1>6

LEMMA BookTypes ==
    ASSUME RunInv, CapInv, BookInv
    PROVE  TypeOK
<1>1. /\ phase \in Ended \cup {"idle", "generating", "filling", "cutting", "booking"}
      /\ req \in Request /\ bars \in History
  BY DEF RunInv, Live, Ended
<1>2. records \cup pending \cup booked \cup refused \subseteq Holding
  BY DEF RunInv, RecordsOK, Honest, CapInv
<1>3. open \in [Day -> Nat]
  <2>1. IsFiniteSet(booked) /\ open = [d \in Day |-> Cardinality({b \in booked : Counted(b, d)})]
    BY DEF CapInv
  <2>2. ASSUME NEW d \in Day PROVE Cardinality({b \in booked : Counted(b, d)}) \in Nat
    BY <2>1, FS_Subset, FS_CardinalityType
  <2> QED  BY <2>1, <2>2
<1>4. marks \subseteq [of: Symbol \X Day, day: Day, from: Nat, to: Nat]
  <2> SUFFICES ASSUME NEW m \in marks PROVE m \in [of: Symbol \X Day, day: Day, from: Nat, to: Nat]
    OBVIOUS
  <2>1. PICK r \in booked : m \in {Mark(r, d) : d \in Marked(r)}
    BY DEF BookInv, MarksMade
  <2>2. PICK d \in Marked(r) : m = Mark(r, d)
    BY <2>1
  <2>3. /\ r \in Holding /\ d \in Day /\ bars \in History
        /\ (d = r.exit => r.exitPx \in Nat) /\ (d # r.exit => bars[r.symbol][d].close \in Nat)
    BY BookedRecord, MarkedDays
  <2>4. Base(r, d) \in Nat
    <3> DEFINE closes == {e \in Held(r) : e < d /\ Priced(bars[r.symbol][e].close)}
    <3>1. closes \subseteq Nat /\ IsFiniteSet(closes) /\ closes \subseteq Day
      <4>1. closes \in SUBSET Held(r)
        OBVIOUS
      <4> QED  BY <4>1, BookedRecord, FS_Subset
    <3>2. r.entryPx \in Nat /\ r.symbol \in Symbol
      BY <2>3 DEF Holding
    <3>3. \A e \in closes : bars[r.symbol][e].close \in Nat
      BY <2>3, <3>1, <3>2, BarPrices DEF Priced, Known, Price
    <3>4. Base(r, d) = IF closes = {} THEN r.entryPx ELSE bars[r.symbol][Max(closes)].close
      BY DEF Base
    <3> HIDE DEF closes
    <3>5. closes # {} => Max(closes) \in closes
      BY <3>1, LastIsLast
    <3> QED  BY <3>2, <3>3, <3>4, <3>5
  <2>5. r.symbol \in Symbol /\ r.entry \in Day
    BY <2>3 DEF Holding
  <2> QED  BY <2>2, <2>3, <2>4, <2>5 DEF Mark
<1> QED  BY <1>1, <1>2, <1>3, <1>4 DEF TypeOK, BookInv

LEMMA BookInvMeans ==
    ASSUME RunInv, CapInv, BookInv
    PROVE  BooksBalance
<1>1. TypeOK
  BY BookTypes
<1>2. ASSUME NEW r \in booked
      PROVE  /\ \A m \in MarksOf(r) :
                   LET before == {o \in MarksOf(r) : o.day < m.day /\ o.to # 0}
                   IN {m.from} = IF before = {} THEN {r.entryPx} ELSE {o.to : o \in Latest(before)}
             /\ ~IsOpen(r) => {m.to : m \in Latest(MarksOf(r))} = {r.exitPx}
  BY MarksLead, MarksEnd
<1>3. SumFunctionOnSet(fees, Day) =
         Cardinality(booked) + Cardinality({r \in booked : ~IsOpen(r)})
  BY DEF BookInv, Closings
<1>4. ASSUME NEW d \in Day
      PROVE  /\ fees[d] > 0 => open[d] > 0
             /\ open[d] = Cardinality({r \in booked : d \in Held(r) \/ (d = LastDay /\ d = r.entry)})
  <2>1. fees[d] > 0 => open[d] > 0
    BY DEF BookInv
  <2>2. open[d] = Cardinality({r \in booked : Counted(r, d)})
    BY DEF CapInv
  <2>3. ASSUME NEW r \in booked
        PROVE  Counted(r, d) <=> d \in Held(r) \/ (d = LastDay /\ d = r.entry)
    <3>1. Held(r) = {} <=> r.entry = LastDay
      <4>1. Held(r) = {} => r.entry = LastDay
        BY BookedRecord
      <4>2. ASSUME r.entry = LastDay PROVE Held(r) = {}
        <5>1. \A e \in Held(r) : r.entry < e /\ e <= LastDay /\ e \in Nat
          BY BookedRecord
        <5>2. LastDay \in Nat
          BY <4>2, BookedRecord
        <5>3. \A e \in Held(r) : FALSE
          BY <4>2, <5>1, <5>2
        <5> QED  BY <5>3
      <4> QED  BY <4>1, <4>2
    <3> QED  BY <3>1 DEF Counted
  <2>4. {r \in booked : Counted(r, d)} = {r \in booked : d \in Held(r) \/ (d = LastDay /\ d = r.entry)}
    BY <2>3
  <2> QED  BY <2>1, <2>2, <2>4
<1> QED  BY <1>1, <1>2, <1>3, <1>4 DEF BooksBalance

\* What is booked depends on the history and the request alone.
LEMMA MarksStand ==
    ASSUME req' = req, bars' = bars, whole' = whole
    PROVE  \A B : MarksMade(B)' = MarksMade(B)
<1>1. \A r : Held(r)' = Held(r)
  BY HeldStands
<1>2. \A r : Marked(r)' = Marked(r)
  BY <1>1 DEF Marked, Known
<1>3. \A r, d : Base(r, d)' = Base(r, d)
  BY <1>1 DEF Base, Priced, Known
<1>4. \A r, d : Mark(r, d)' = Mark(r, d)
  BY <1>3 DEF Mark
<1> SUFFICES ASSUME NEW CONSTANT B PROVE MarksMade(B)' = MarksMade(B)
  OBVIOUS
<1>5. ASSUME NEW CONSTANT m
      PROVE  (m \in MarksMade(B))' <=> m \in MarksMade(B)
  <2>1. (m \in MarksMade(B)) <=> \E r \in B : \E d \in Marked(r) : m = Mark(r, d)
    BY DEF MarksMade
  <2>2. (m \in MarksMade(B))' <=> (\E r \in B : \E d \in Marked(r) : m = Mark(r, d))'
    BY DEF MarksMade
  <2> QED  BY <1>2, <1>4, <2>1, <2>2
<1> QED  BY <1>5

LEMMA BookInit == Init => BookInv
<1> SUFFICES ASSUME Init PROVE BookInv
  OBVIOUS
<1>1. /\ booked = {} /\ marks = {} /\ opened = [day |-> 0, count |-> 0] /\ fees = [d \in Day |-> 0]
  BY DEF Init
<1>2. opened \in [day: Day \cup {0}, count: 0..MaxPositions]
  BY <1>1, BacktestAssumption
<1>3. Closings(booked) = {} /\ MarksMade(booked) = {}
  BY <1>1 DEF Closings, MarksMade
<1>4. SumFunctionOnSet(fees, Day) = 0
  <2>1. IsFiniteSet(Day) /\ \A d \in Day : fees[d] = 0
    BY <1>1, BacktestAssumption
  <2> QED  BY <2>1, NothingInTotal
<1>5. Cardinality(booked) = 0 /\ Cardinality(Closings(booked)) = 0
  BY <1>1, <1>3, FS_EmptySet
<1>6. fees \in [Day -> Nat] /\ \A d \in Day : ~(fees[d] > 0)
  BY <1>1
<1>7. SumFunctionOnSet(fees, Day) = Cardinality(booked) + Cardinality(Closings(booked))
  BY <1>4, <1>5
<1> QED  BY <1>1, <1>2, <1>3, <1>6, <1>7 DEF BookInv

\* What a step leaves of the books that books nothing.
LEMMA NothingBooked ==
    ASSUME RunInv, CapInv, BookInv, req' = req, bars' = bars, booked' = booked, open' = open,
           fees' = fees, marks' = marks, whole' = whole \/ booked = {},
           opened' \in [day: Day \cup {0}, count: 0..MaxPositions]
    PROVE  BookInv'
<1>1. MarksMade(booked)' = MarksMade(booked)
  <2>1. CASE whole' = whole
    <3>1. PICK B : B = booked
      OBVIOUS
    <3>2. \A X : MarksMade(X)' = MarksMade(X)
      BY <2>1, MarksStand
    <3>3. MarksMade(B)' = MarksMade(B)
      BY <3>2
    <3>4. booked' = B
      BY <3>1
    <3>5. MarksMade(booked)' = MarksMade(B)'
      BY <3>4 DEF MarksMade
    <3> QED  BY <3>1, <3>3, <3>5
  <2>2. CASE booked = {}
    BY <2>2 DEF MarksMade
  <2> QED  BY <2>1, <2>2
<1>2. Closings(booked)' = Closings(booked)
  BY DEF Closings, IsOpen
<1>3. SumFunctionOnSet(fees', Day) = Cardinality(booked') + Cardinality(Closings(booked)')
  BY <1>2 DEF BookInv
<1>4. fees' \in [Day -> Nat] /\ (\A d \in Day : fees'[d] > 0 => open'[d] > 0) /\ marks' = MarksMade(booked)'
  BY <1>1 DEF BookInv
<1> QED  BY <1>3, <1>4 DEF BookInv

\* The fees of one record more: one for each of its sides.
PaidOnce(f, g, y) == g = [d \in Day |-> f[d] + (IF d = y THEN 1 ELSE 0)]

LEMMA OneFee ==
    ASSUME NEW f \in [Day -> Nat], NEW g, NEW y \in Day, PaidOnce(f, g, y)
    PROVE  g \in [Day -> Nat] /\ SumFunctionOnSet(f, Day) \in Nat
           /\ SumFunctionOnSet(g, Day) = SumFunctionOnSet(f, Day) + 1
<1>1. CountsOneMore(Day, y, f, g)
  BY DEF CountsOneMore, PaidOnce
<1>2. IsFiniteSet(Day)
  BY BacktestAssumption
<1> QED  BY <1>1, <1>2, OneMoreInTotal DEF CountsOneMore

Paid(f, g, y, x) ==
    g = [d \in Day |-> f[d] + (IF d = y THEN 1 ELSE 0) + (IF d = x THEN 1 ELSE 0)]

LEMMA FeesOfARecord ==
    ASSUME NEW f \in [Day -> Nat], NEW g, NEW y \in Day, NEW x \in Day \cup {0}, Paid(f, g, y, x)
    PROVE  g \in [Day -> Nat] /\ SumFunctionOnSet(f, Day) \in Nat
           /\ SumFunctionOnSet(g, Day) = SumFunctionOnSet(f, Day) + (IF x = 0 THEN 1 ELSE 2)
<1> DEFINE h == [d \in Day |-> f[d] + (IF d = y THEN 1 ELSE 0)]
<1>1. h \in [Day -> Nat] /\ SumFunctionOnSet(f, Day) \in Nat
      /\ SumFunctionOnSet(h, Day) = SumFunctionOnSet(f, Day) + 1
  <2>1. PaidOnce(f, h, y)
    BY DEF PaidOnce
  <2> HIDE DEF h
  <2> QED  BY <2>1, OneFee
<1>2. \A d \in Day : h[d] = f[d] + (IF d = y THEN 1 ELSE 0)
  OBVIOUS
<1> HIDE DEF h
<1>3. PaidOnce(h, g, x)
  BY <1>2 DEF Paid, PaidOnce
<1>4. CASE x = 0
  <2>1. \A d \in Day : d # x
    BY <1>4, BacktestAssumption
  <2>2. \A d \in Day : h[d] + (IF d = x THEN 1 ELSE 0) = h[d]
    BY <1>1, <2>1
  <2>3. g = h
    BY <1>1, <1>3, <2>2 DEF PaidOnce
  <2> QED  BY <1>1, <1>4, <2>3
<1>5. CASE x # 0
  <2>1. x \in Day
    BY <1>5
  <2>2. g \in [Day -> Nat] /\ SumFunctionOnSet(g, Day) = SumFunctionOnSet(h, Day) + 1
    BY <1>1, <1>3, <2>1, OneFee
  <2> QED  BY <1>1, <1>5, <2>2
<1> QED  BY <1>4, <1>5

\* Booking a record books its marks, and a fee for each of its sides on a day it is counted.
LEMMA BookKeepsBook ==
    ASSUME RunInv, CapInv, BookInv, NEW r \in pending, Book(r) \/ BookLastBar(r)
    PROVE  BookInv'
<1> DEFINE e == r.entry
<1>1. /\ Take(r) /\ ~AtCap(r) /\ booked' = booked \cup {r}
      /\ opened' = [day |-> e, count |-> Opened(r) + 1]
      /\ req' = req /\ bars' = bars /\ whole' = whole
  BY DEF Book, BookLastBar, Take, tape
<1>2. /\ r \in records /\ e >= First /\ r \notin booked /\ e \in Day /\ e \in Nat
      /\ Held(r) \subseteq Day
      /\ Opened(r) \in Nat
      /\ \A d \in Day : open[d] \in Nat
      /\ phase \in Live
  BY TakenRecord DEF Live
<1>3. r \in Holding
  BY <1>2 DEF RunInv, RecordsOK, Honest
<1>4. IsFiniteSet(booked) /\ IsFiniteSet(Closings(booked)) /\ r \notin Closings(booked)
  <2>1. IsFiniteSet(booked)
    BY DEF CapInv
  <2>2. Closings(booked) \in SUBSET booked
    BY DEF Closings
  <2> QED  BY <1>2, <2>1, <2>2, FS_Subset
<1>5. opened' \in [day: Day \cup {0}, count: 0..MaxPositions]
  <2>1. MaxPositions \in Nat /\ open[e] \in Nat
    BY <1>2, BacktestAssumption
  <2>2. ~(open[e] + Opened(r) >= MaxPositions)
    BY <1>1 DEF AtCap
  <2>3. Opened(r) + 1 \in 0..MaxPositions
    BY <1>2, <2>1, <2>2
  <2> QED  BY <1>1, <1>2, <2>3
<1>6. Closings(booked') = IF IsOpen(r) THEN Closings(booked) ELSE Closings(booked) \cup {r}
  BY <1>1 DEF Closings
<1>7. /\ Cardinality(booked') = Cardinality(booked) + 1 /\ Cardinality(booked) \in Nat
      /\ Cardinality(Closings(booked')) = Cardinality(Closings(booked)) + (IF IsOpen(r) THEN 0 ELSE 1)
      /\ Cardinality(Closings(booked)) \in Nat
  <2>1. Cardinality(booked') = Cardinality(booked) + 1 /\ Cardinality(booked) \in Nat
    BY <1>1, <1>2, <1>4, OneMore
  <2> PICK K : K = Closings(booked)
    OBVIOUS
  <2>2. Cardinality(K \cup {r}) = Cardinality(K) + 1 /\ Cardinality(K) \in Nat
    BY <1>4, OneMore
  <2>3. Closings(booked') = IF IsOpen(r) THEN K ELSE K \cup {r}
    BY <1>6
  <2> QED  BY <2>1, <2>2, <2>3
<1>8. /\ fees \in [Day -> Nat] /\ \A d \in Day : fees[d] > 0 => open[d] > 0
      /\ SumFunctionOnSet(fees, Day) = Cardinality(booked) + Cardinality(Closings(booked))
      /\ marks = MarksMade(booked)
  BY DEF BookInv
<1>9. ~IsOpen(r) => r.exit \in Held(r)
  BY <1>2, WindowDays
<1>10. marks' = MarksMade(booked')
  <2>1. MarksMade(booked') = MarksMade(booked) \cup {Mark(r, d) : d \in Marked(r)}
    BY <1>1 DEF MarksMade
  <2>2. CASE Book(r)
    BY <1>8, <2>1, <2>2 DEF Book
  <2>3. CASE BookLastBar(r)
    <3>1. Marked(r) = {} /\ marks' = marks
      BY <2>3 DEF BookLastBar, Marked
    <3> QED  BY <1>8, <2>1, <3>1
  <2> QED  BY <2>2, <2>3
<1>11. /\ fees' \in [Day -> Nat]
       /\ SumFunctionOnSet(fees', Day) = SumFunctionOnSet(fees, Day) + (IF IsOpen(r) THEN 1 ELSE 2)
       /\ \A d \in Day : fees'[d] > 0 => open'[d] > 0
  <2>1. CASE Book(r)
    <3> PICK y : y = Min(Held(r))
      OBVIOUS
    <3>1. /\ fees' = [d \in Day |-> fees[d] + (IF d = y THEN 1 ELSE 0) + (IF d = r.exit THEN 1 ELSE 0)]
          /\ open' = [d \in Day |-> IF d \in Held(r) THEN open[d] + 1 ELSE open[d]]
          /\ Held(r) # {}
      BY <2>1 DEF Book
    <3>2. y \in Held(r)
      <4>1. Held(r) \subseteq Nat
        BY <1>2, BacktestAssumption
      <4>2. PICK a \in Held(r) : \A b \in Held(r) : a <= b
        BY <3>1, <4>1, LeastNat
      <4> QED  BY <4>2, Zenon DEF Min
    <3>3. y \in Day /\ r.exit \in Day \cup {0}
      BY <1>2, <1>3, <3>2 DEF Holding
    <3> PICK x : x = r.exit
      OBVIOUS
    <3>4. fees' \in [Day -> Nat]
          /\ SumFunctionOnSet(fees', Day) = SumFunctionOnSet(fees, Day) + (IF x = 0 THEN 1 ELSE 2)
      <4> PICK g : g = fees'
        OBVIOUS
      <4>1. Paid(fees, g, y, x)
        BY <3>1, Zenon DEF Paid
      <4>2. x \in Day \cup {0}
        BY <3>3
      <4>3. fees \in [Day -> Nat] /\ y \in Day
        BY <1>8, <3>3
      <4>4. /\ g \in [Day -> Nat]
            /\ SumFunctionOnSet(g, Day) = SumFunctionOnSet(fees, Day) + (IF x = 0 THEN 1 ELSE 2)
        BY <4>1, <4>2, <4>3, FeesOfARecord
      <4> QED  BY <4>4
    <3>5. ASSUME NEW d \in Day, fees'[d] > 0 PROVE open'[d] > 0
      <4>1. CASE d \in Held(r)
        BY <1>2, <3>1, <4>1
      <4>2. CASE d \notin Held(r)
        <5>1. d # y /\ d # r.exit
          <6>1. d # 0
            BY BacktestAssumption
          <6> QED  BY <1>9, <3>2, <4>2, <6>1 DEF IsOpen
        <5>2. fees'[d] = fees[d] + 0 + 0
          BY <3>1, <5>1
        <5>3. fees[d] \in Nat
          BY <1>8
        <5> QED  BY <1>8, <3>1, <3>5, <4>2, <5>2, <5>3
      <4> QED  BY <4>1, <4>2
    <3> QED  BY <3>4, <3>5 DEF IsOpen
  <2>2. CASE BookLastBar(r)
    <3>1. fees' = [fees EXCEPT ![e] = fees[e] + 1] /\ open' = [open EXCEPT ![e] = open[e] + 1] /\ Held(r) = {}
      BY <2>2 DEF BookLastBar
    <3>2. DOMAIN open = Day
      BY DEF CapInv
    <3> PICK y \in Day : y = e
      BY <1>2
    <3> HIDE DEF e
    <3>3. fees' = [d \in Day |-> fees[d] + (IF d = y THEN 1 ELSE 0)]
      <4>1. fees' = [d \in Day |-> IF d = y THEN fees[d] + 1 ELSE fees[d]]
        BY <1>8, <3>1
      <4>2. \A d \in Day : fees[d] \in Nat
        BY <1>8
      <4>3. \A d \in Day : (IF d = y THEN fees[d] + 1 ELSE fees[d]) = fees[d] + (IF d = y THEN 1 ELSE 0)
        BY <4>2
      <4> QED  BY <4>1, <4>3
    <3>4. open' = [d \in Day |-> IF d = e THEN open[d] + 1 ELSE open[d]]
      BY <3>1, <3>2
    <3>5. fees' \in [Day -> Nat] /\ SumFunctionOnSet(fees', Day) = SumFunctionOnSet(fees, Day) + 1
      <4> PICK g : g = fees'
        OBVIOUS
      <4>1. PaidOnce(fees, g, y)
        BY <3>3, Zenon DEF PaidOnce
      <4>2. g \in [Day -> Nat] /\ SumFunctionOnSet(g, Day) = SumFunctionOnSet(fees, Day) + 1
        BY <1>8, <4>1, OneFee
      <4> QED  BY <4>2
    <3>6. IsOpen(r)
      BY <1>9, <3>1
    <3>7. ASSUME NEW d \in Day, fees'[d] > 0 PROVE open'[d] > 0
      <4>1. CASE d = e
        BY <1>2, <3>4, <4>1
      <4>2. CASE d # e
        <5>1. fees'[d] = fees[d] + 0 /\ fees[d] \in Nat /\ open'[d] = open[d]
          BY <1>8, <3>3, <3>4, <4>2
        <5> QED  BY <1>8, <3>7, <5>1
      <4> QED  BY <4>1, <4>2
    <3> QED  BY <3>5, <3>6, <3>7
  <2> QED  BY <2>1, <2>2
<1>12. SumFunctionOnSet(fees', Day) = Cardinality(booked') + Cardinality(Closings(booked'))
  BY <1>7, <1>8, <1>11
<1>13. MarksMade(booked)' = MarksMade(booked') /\ Closings(booked)' = Closings(booked')
  <2> PICK B : B = booked'
    OBVIOUS
  <2>1. \A X : MarksMade(X)' = MarksMade(X)
    BY <1>1, MarksStand
  <2>2. MarksMade(B)' = MarksMade(B)
    BY <2>1
  <2>3. MarksMade(booked)' = MarksMade(B)'
    BY DEF MarksMade
  <2>4. Closings(booked)' = Closings(booked')
    BY DEF Closings, IsOpen
  <2> QED  BY <2>2, <2>3, <2>4
<1> QED  BY <1>5, <1>10, <1>11, <1>12, <1>13 DEF BookInv

LEMMA BookStep ==
    ASSUME RunInv, CapInv, BookInv, [Next]_vars
    PROVE  BookInv'
<1>1. ASSUME NEW r \in pending, SkipFull(r) PROVE BookInv'
  <2>1. /\ req' = req /\ bars' = bars /\ whole' = whole /\ booked' = booked /\ open' = open
        /\ fees' = fees /\ marks' = marks /\ opened' = [day |-> r.entry, count |-> Opened(r)]
    BY <1>1 DEF SkipFull, Take, tape
  <2>2. Opened(r) \in 0..MaxPositions
    BY BacktestAssumption DEF BookInv, Opened
  <2>3. r.entry \in Day
    BY TakenRecord
  <2> QED  BY <2>1, <2>2, <2>3, NothingBooked
<1>2. ASSUME NEW r \in pending, Book(r) \/ BookLastBar(r) PROVE BookInv'
  BY <1>2, BookKeepsBook
<1>3. CASE \/ Refuse \/ SelectNothing \/ LoadNothing \/ Load \/ GenerateSignals \/ Fail \/ RunChunk
           \/ CutWindow \/ Report \/ UNCHANGED vars
  <2>1. UNCHANGED book /\ req' = req /\ bars' = bars /\ (whole' = whole \/ phase = "idle")
    BY <1>3 DEF Refuse, SelectNothing, LoadNothing, Load, GenerateSignals, Fail, RunChunk, CutWindow,
                Report, End, vars, book, tape
  <2>2. phase = "idle" => booked = {}
    BY DEF CapInv
  <2> QED  BY <2>1, <2>2, NothingBooked DEF BookInv, book
<1> QED  BY <1>1, <1>2, <1>3 DEF Next

\* The books balance, for every history, every request and every max_positions: the marks of a
\* position that was booked compound without a gap from its entry fill to its exit fill, whatever
\* bars are missing or worthless on the way, each of its sides costs one fee, booked on a day that
\* counts a position, and each day counts the positions held on it (_book_holding,
\* aggregate_trades).
THEOREM BalancedBooks == Spec => []BooksBalance
<1> QED  BY RunInit, RunStep, CapInit, CapStep, BookInit, BookStep, BookInvMeans, PTL DEF Spec

-----------------------------------------------------------------------------
(* Signals. *)

\* What a column of signals is filled with was generated from the frame it is filled on.
SignalInv == phase = "filling" => signals = Generate(req.ask.strategy, Seen, Benchmark, First)

LEMMA SignalStep ==
    ASSUME SignalInv, [Next]_vars
    PROVE  SignalInv'
<1> SUFFICES ASSUME phase' = "filling"
             PROVE  (signals = Generate(req.ask.strategy, Seen, Benchmark, First))'
  BY DEF SignalInv
<1>1. req' = req /\ bars' = bars
  BY NextTape
<1>2. \A s : DaysOf(s)' = DaysOf(s)
  BY <1>1 DEF DaysOf
<1>3. Benchmark' = Benchmark
  BY <1>1, <1>2 DEF Benchmark
<1>4. CASE GenerateSignals
  <2>1. whole' = whole /\ chunks' = chunks /\ signals' = Generate(req.ask.strategy, Seen, Benchmark, First)
    BY <1>4 DEF GenerateSignals, tape, Seen
  <2>2. Seen' = Seen /\ First' = First
    BY <1>1, <2>1 DEF Seen, First
  <2> QED  BY <1>1, <1>3, <2>1, <2>2
<1>5. CASE RunChunk
  <2>1. /\ whole' = whole /\ signals' = signals /\ NeedsUniverse(req.ask.strategy) /\ phase = "filling"
    BY <1>5 DEF RunChunk, tape
  <2>2. Seen' = Seen /\ First' = First
    BY <1>1, <2>1 DEF Seen, First
  <2> QED  BY <1>1, <1>3, <2>1, <2>2 DEF SignalInv
<1>6. CASE ~GenerateSignals /\ ~RunChunk
  <2>1. /\ whole' = whole /\ chunks' = chunks /\ signals' = signals /\ phase = "filling"
    BY <1>6 DEF Next, vars, tape, Refuse, SelectNothing, LoadNothing, Load, End, Fail,
                CutWindow, Report, SkipFull, Book, BookLastBar, Take
  <2>2. Seen' = Seen /\ First' = First
    BY <1>1, <2>1 DEF Seen, First
  <2> QED  BY <1>1, <1>3, <2>1, <2>2 DEF SignalInv
<1> QED  BY <1>4, <1>5, <1>6

\* A set of numbers has a first one.
LEMMA FirstIsFirst ==
    ASSUME NEW S, S \subseteq Nat, S # {}
    PROVE  Min(S) \in S /\ \A x \in S : Min(S) <= x
<1>1. PICK n \in S : \A m \in S : n <= m
  BY LeastNat
<1> QED  BY <1>1, Zenon DEF Min

LEMMA SeedIsARow ==
    ASSUME NEW f, NEW start, NEW n \in Nat, Rows(f) = 1..n
    PROVE  SeedRow(f, start) \in 0..n /\ Schedule(f, start) \subseteq 1..n
<1> DEFINE rows == {i \in Rows(f) : f.days[i] >= start}
<1>1. SeedRow(f, start) = IF rows = {} THEN 0 ELSE Min(rows)
  BY DEF SeedRow
<1>2. SeedRow(f, start) \in 0..n
  <2>1. rows \subseteq 1..n /\ rows \subseteq Nat
    OBVIOUS
  <2>2. CASE rows = {}
    BY <1>1, <2>2
  <2>3. CASE rows # {}
    <3>1. Min(rows) \in rows
      <4> HIDE DEF rows
      <4> QED  BY <2>1, <2>3, FirstIsFirst
    <3>2. SeedRow(f, start) = Min(rows)
      BY <1>1, <2>3
    <3>3. SeedRow(f, start) \in 1..n
      <4> HIDE DEF rows
      <4> QED  BY <2>1, <3>1, <3>2
    <3> QED  BY <3>3
  <2> QED  BY <2>2, <2>3
<1> QED  BY <1>2 DEF Schedule

\* A rotation's plan is built row by row.
LEMMA PlansByRow ==
    ASSUME NEW f, NEW gate, NEW start, Len(f.days) \in Nat
    PROVE  LET plan == RotationPlans(f, gate, start) IN
           /\ plan[0] = [held |-> {}, entry |-> {}, exit |-> {}]
           /\ \A i \in 1..Len(f.days) :
                 plan[i] = IF i \in Schedule(f, start)
                           THEN Rebalanced(f, gate, SeedRow(f, start), plan[i - 1], i) ELSE plan[i - 1]
<1> DEFINE k == [of |-> "plan", f |-> f, gate |-> gate, start |-> start]
           n == Len(f.days)
           plan == RotationPlans(f, gate, start)
           Row(x, i) == IF i = 0 THEN [held |-> {}, entry |-> {}, exit |-> {}]
                        ELSE IF i \in Schedule(f, start)
                             THEN Rebalanced(f, gate, SeedRow(f, start), x, i)
                        ELSE x
<1>1. \A x, i : RowOf(k, x, i) = Row(x, i)
  BY DEF RowOf
<1>2. plan = CHOOSE g : g = [i \in 0..n |-> Row(g[i - 1], i)]
  BY Zenon DEF RotationPlans
<1> HIDE DEF k, n, plan, Row
<1>0. n \in Nat
  BY DEF n
<1>3a. PICK g : ByRow(g, k, n)
  BY <1>0, RowsExist
<1>3. g = [i \in 0..n |-> RowOf(k, g[i - 1], i)]
  BY <1>3a DEF ByRow
<1>4. g = [i \in 0..n |-> Row(g[i - 1], i)]
  BY <1>1, <1>3
<1>5. plan = [i \in 0..n |-> Row(plan[i - 1], i)]
  BY <1>2, <1>4, Zenon
<1>6. 0 \in 0..n /\ \A i \in 1..n : i \in 0..n /\ i # 0
  BY DEF n
<1>7. plan[0] = Row(plan[0 - 1], 0) /\ \A i \in 1..n : plan[i] = Row(plan[i - 1], i)
  BY <1>5, <1>6
<1>8. plan[0] = [held |-> {}, entry |-> {}, exit |-> {}]
  BY <1>7 DEF Row
<1>9. ASSUME NEW i \in 1..n
      PROVE  plan[i] = IF i \in Schedule(f, start)
                       THEN Rebalanced(f, gate, SeedRow(f, start), plan[i - 1], i) ELSE plan[i - 1]
  BY <1>6, <1>7 DEF Row
<1> QED  BY <1>8, <1>9 DEF plan, n

\* What signals up to a row lead to: the columns entered since the seed and not exited.
Leads(cols, entry, exit, seed, i) ==
    {s \in cols : \E k \in seed..i : <<s, k>> \in entry /\ \A j \in k..i : <<s, j>> \notin exit}

\* A plan up to a row, and a plan that is another one up to a row.
PlanOK(p, cols, seed, i) ==
    /\ p.held \subseteq cols /\ p.entry \subseteq cols \X (1..i) /\ p.exit \subseteq cols \X (1..i)
    /\ seed # 0 /\ i >= seed => p.held = Leads(cols, p.entry, p.exit, seed, i)
Extends(p, o, i) ==
    \A s, k : k \in 1..i => /\ <<s, k>> \in p.entry <=> <<s, k>> \in o.entry
                            /\ <<s, k>> \in p.exit <=> <<s, k>> \in o.exit

LEMMA TargetsAreColumns ==
    ASSUME NEW f, NEW gate, NEW i
    PROVE  Target(f, gate, i) \subseteq Cols(f)
<1> QED  BY DEF Target, Wanted, Tradable

LEMMA RebalanceKeepsPlan ==
    ASSUME NEW f, NEW gate, NEW i \in Nat \ {0}, NEW seed \in Nat, NEW p, PlanOK(p, Cols(f), seed, i - 1)
    PROVE  LET q == Rebalanced(f, gate, seed, p, i) IN
           /\ PlanOK(q, Cols(f), seed, i) /\ Extends(q, p, i - 1)
           /\ q.held = Target(f, gate, i)
<1> DEFINE C == Cols(f)
           wanted == Target(f, gate, i)
           held == IF i = seed THEN {} ELSE p.held
           q == Rebalanced(f, gate, seed, p, i)
<1>1. /\ q.held = wanted /\ q.entry = p.entry \cup ((wanted \ held) \X {i})
      /\ q.exit = p.exit \cup ((held \ wanted) \X {i})
  BY DEF Rebalanced
<1>2. wanted \subseteq C
  BY TargetsAreColumns
<1>3. /\ p.held \subseteq C /\ p.entry \subseteq C \X (1..(i - 1)) /\ p.exit \subseteq C \X (1..(i - 1))
      /\ (seed # 0 /\ i - 1 >= seed => p.held = Leads(C, p.entry, p.exit, seed, i - 1))
  BY DEF PlanOK
<1> HIDE DEF wanted, q, C
<1>4. held \subseteq C
  BY <1>3
<1> HIDE DEF held
<1>5. i \in 1..i /\ i \notin 1..(i - 1) /\ 1..(i - 1) \subseteq 1..i
  OBVIOUS
<1>6. q.entry \subseteq C \X (1..i) /\ q.exit \subseteq C \X (1..i)
  BY <1>1, <1>2, <1>3, <1>4, <1>5
<1>7. \A s : /\ <<s, i>> \in q.entry <=> s \in wanted \ held
             /\ <<s, i>> \in q.exit <=> s \in held \ wanted
  <2>1. \A s : <<s, i>> \notin p.entry /\ <<s, i>> \notin p.exit
    BY <1>3, <1>5
  <2> QED  BY <1>1, <2>1
<1>8. \A s, k : k # i => /\ <<s, k>> \in q.entry <=> <<s, k>> \in p.entry
                         /\ <<s, k>> \in q.exit <=> <<s, k>> \in p.exit
  BY <1>1
<1>9. Extends(q, p, i - 1)
  <2>1. \A k \in 1..(i - 1) : k # i
    OBVIOUS
  <2> QED  BY <1>8, <2>1 DEF Extends
<1>10. ASSUME seed # 0, i >= seed
       PROVE  wanted = Leads(C, q.entry, q.exit, seed, i)
  <2>1. ASSUME NEW s \in wanted
        PROVE  s \in Leads(C, q.entry, q.exit, seed, i)
    <3>1. CASE s \notin held
      <4>1. i \in seed..i /\ \A j \in i..i : j = i
        BY <1>10
      <4>2. <<s, i>> \in q.entry /\ <<s, i>> \notin q.exit
        BY <1>7, <2>1, <3>1
      <4> QED  BY <1>2, <4>1, <4>2 DEF Leads
    <3>2. CASE s \in held
      <4>1. i # seed /\ s \in p.held
        BY <3>2 DEF held
      <4>2. s \in Leads(C, p.entry, p.exit, seed, i - 1)
        BY <1>3, <1>10, <4>1
      <4>3. PICK k \in seed..(i - 1) :
               <<s, k>> \in p.entry /\ \A j \in k..(i - 1) : <<s, j>> \notin p.exit
        BY <4>2 DEF Leads
      <4>4. k \in seed..i /\ k # i /\ \A j \in k..i : j = i \/ (j # i /\ j \in k..(i - 1))
        OBVIOUS
      <4>5. <<s, k>> \in q.entry
        BY <1>8, <4>3, <4>4
      <4>6. \A j \in k..i : <<s, j>> \notin q.exit
        BY <1>7, <1>8, <2>1, <4>3, <4>4
      <4> QED  BY <1>2, <4>4, <4>5, <4>6 DEF Leads
    <3> QED  BY <3>1, <3>2
  <2>2. ASSUME NEW s \in Leads(C, q.entry, q.exit, seed, i)
        PROVE  s \in wanted
    <3>1. PICK k \in seed..i :
             <<s, k>> \in q.entry /\ \A j \in k..i : <<s, j>> \notin q.exit
      BY <2>2 DEF Leads
    <3>2. s \in C /\ i \in k..i
      BY <2>2, <1>10 DEF Leads
    <3>3. CASE k = i
      BY <1>7, <3>1, <3>3
    <3>4. CASE k # i
      <4>1. k \in seed..(i - 1) /\ i - 1 >= seed /\ seed # i
            /\ \A j \in k..(i - 1) : j \in k..i /\ j # i
        BY <1>10, <3>4
      <4>2. <<s, k>> \in p.entry /\ \A j \in k..(i - 1) : <<s, j>> \notin p.exit
        BY <1>8, <3>1, <3>4, <4>1
      <4>3. s \in p.held
        BY <1>3, <1>10, <3>2, <4>1, <4>2 DEF Leads
      <4>4. s \in held /\ <<s, i>> \notin q.exit
        BY <3>1, <3>2, <4>1, <4>3 DEF held
      <4> QED  BY <1>7, <4>4
    <3> QED  BY <3>3, <3>4
  <2> QED  BY <2>1, <2>2
<1>11. PlanOK(q, C, seed, i)
  BY <1>1, <1>2, <1>6, <1>10 DEF PlanOK
<1> QED  BY <1>1, <1>9, <1>11 DEF q, C, wanted

\* A row on which nothing is rebalanced leads where the row before led.
LEMMA QuietKeepsPlan ==
    ASSUME NEW cols, NEW i \in Nat \ {0}, NEW seed \in Nat, seed # i, NEW p, PlanOK(p, cols, seed, i - 1)
    PROVE  PlanOK(p, cols, seed, i) /\ Extends(p, p, i - 1)
<1>1. /\ p.held \subseteq cols /\ p.entry \subseteq cols \X (1..(i - 1))
      /\ p.exit \subseteq cols \X (1..(i - 1))
      /\ (seed # 0 /\ i - 1 >= seed => p.held = Leads(cols, p.entry, p.exit, seed, i - 1))
  BY DEF PlanOK
<1>2. i \notin 1..(i - 1) /\ 1..(i - 1) \subseteq 1..i
  OBVIOUS
<1>3. \A s : <<s, i>> \notin p.entry /\ <<s, i>> \notin p.exit
  BY <1>1, <1>2
<1>4. ASSUME seed # 0, i >= seed
      PROVE  Leads(cols, p.entry, p.exit, seed, i) = Leads(cols, p.entry, p.exit, seed, i - 1)
  <2>1. seed..i = (seed..(i - 1)) \cup {i} /\ \A k \in seed..(i - 1) : k..i = (k..(i - 1)) \cup {i}
    BY <1>4
  <2> QED  BY <1>3, <2>1 DEF Leads
<1>5. seed # 0 /\ i >= seed => i - 1 >= seed
  OBVIOUS
<1>6. p.entry \subseteq cols \X (1..i) /\ p.exit \subseteq cols \X (1..i)
  BY <1>1, <1>2
<1> QED  BY <1>1, <1>4, <1>5, <1>6 DEF PlanOK, Extends

\* Every row of a plan leads to what it holds, and says nothing new of the rows before.
LEMMA PlanRows ==
    ASSUME NEW f, NEW gate, NEW start, NEW n \in Nat, Len(f.days) = n, Rows(f) = 1..n
    PROVE  LET plan == RotationPlans(f, gate, start)
               seed == SeedRow(f, start)
           IN /\ \A m \in 0..n : PlanOK(plan[m], Cols(f), seed, m)
              /\ \A m \in 1..n : Extends(plan[m], plan[m - 1], m - 1)
              /\ \A m \in Schedule(f, start) : plan[m].held = Target(f, gate, m)
<1> DEFINE plan == RotationPlans(f, gate, start)
           seed == SeedRow(f, start)
           C == Cols(f)
<1>1. seed \in 0..n /\ Schedule(f, start) \subseteq 1..n /\ (seed # 0 => seed \in Schedule(f, start))
  <2>1. seed # 0 => seed \in Schedule(f, start)
    BY DEF Schedule
  <2> QED  BY <2>1, SeedIsARow
<1>2. /\ plan[0] = [held |-> {}, entry |-> {}, exit |-> {}]
      /\ \A i \in 1..n : plan[i] = IF i \in Schedule(f, start)
                                   THEN Rebalanced(f, gate, seed, plan[i - 1], i) ELSE plan[i - 1]
  BY PlansByRow
<1> HIDE DEF plan, seed, C
<1>3. ASSUME NEW i \in 1..n, PlanOK(plan[i - 1], C, seed, i - 1)
      PROVE  /\ PlanOK(plan[i], C, seed, i) /\ Extends(plan[i], plan[i - 1], i - 1)
             /\ i \in Schedule(f, start) => plan[i].held = Target(f, gate, i)
  <2> DEFINE p == plan[i - 1]
  <2>1. i \in Nat \ {0} /\ seed \in Nat /\ PlanOK(p, C, seed, i - 1)
    BY <1>1, <1>3
  <2>2. CASE i \in Schedule(f, start)
    <3>1. plan[i] = Rebalanced(f, gate, seed, p, i)
      BY <1>2, <2>2
    <3> HIDE DEF p
    <3>2. LET q == Rebalanced(f, gate, seed, p, i) IN
             PlanOK(q, C, seed, i) /\ Extends(q, p, i - 1) /\ q.held = Target(f, gate, i)
      BY <2>1, RebalanceKeepsPlan DEF C
    <3> QED  BY <3>1, <3>2 DEF p
  <2>3. CASE i \notin Schedule(f, start)
    <3>1. plan[i] = p /\ seed # i
      BY <1>1, <1>2, <2>3
    <3> HIDE DEF p
    <3>2. PlanOK(p, C, seed, i) /\ Extends(p, p, i - 1)
      BY <2>1, <3>1, QuietKeepsPlan
    <3> QED  BY <2>3, <3>1, <3>2 DEF p
  <2> QED  BY <2>2, <2>3
<1>4. \A m \in 0..n : PlanOK(plan[m], C, seed, m)
  <2> DEFINE T == {m \in 0..n : ~PlanOK(plan[m], C, seed, m)}
  <2> SUFFICES ASSUME T # {} PROVE FALSE
    OBVIOUS
  <2>1. PICK m \in T : \A k \in T : m <= k
    <3>1. T \subseteq Nat
      OBVIOUS
    <3> HIDE DEF T
    <3> QED  BY <3>1, LeastNat
  <2>2. m \in 0..n /\ ~PlanOK(plan[m], C, seed, m)
    OBVIOUS
  <2>3. CASE m = 0
    <3>1. plan[0].held = {} /\ plan[0].entry = {} /\ plan[0].exit = {}
      BY <1>2
    <3>2. seed # 0 => ~(0 >= seed)
      BY <1>1
    <3>3. PlanOK(plan[0], C, seed, 0)
      BY <3>1, <3>2 DEF PlanOK
    <3> QED  BY <2>2, <2>3, <3>3
  <2>4. CASE m # 0
    <3>1. m \in 1..n /\ m - 1 \in 0..n /\ ~(m <= m - 1)
      BY <2>2, <2>4
    <3>2. PlanOK(plan[m - 1], C, seed, m - 1)
      <4>1. m - 1 \notin T
        <5> HIDE DEF T
        <5> QED  BY <2>1, <3>1
      <4> QED  BY <3>1, <4>1
    <3> QED  BY <1>3, <2>2, <3>1, <3>2
  <2> QED  BY <2>3, <2>4
<1>5. \A m \in 1..n : m - 1 \in 0..n
  OBVIOUS
<1> QED  BY <1>1, <1>3, <1>4, <1>5 DEF plan, seed, C

\* So the plan as a whole leads on a row to where the plan of that row led.
LEMMA PlanIsFollowed ==
    ASSUME NEW f, NEW gate, NEW start, NEW n \in Nat, Len(f.days) = n, Rows(f) = 1..n,
           NEW i \in Schedule(f, start), SeedRow(f, start) # 0, i >= SeedRow(f, start)
    PROVE  LET said == RotationPlan(f, gate, start)
           IN Leads(Cols(f), said.entry, said.exit, SeedRow(f, start), i) = Target(f, gate, i)
<1> DEFINE plan == RotationPlans(f, gate, start)
           seed == SeedRow(f, start)
           C == Cols(f)
           said == RotationPlan(f, gate, start)
<1>1. seed \in 1..n /\ i \in 1..n /\ seed <= i
  BY SeedIsARow
<1>2. /\ \A m \in 0..n : PlanOK(plan[m], C, seed, m)
      /\ \A m \in 1..n : Extends(plan[m], plan[m - 1], m - 1)
      /\ plan[i].held = Target(f, gate, i)
  BY PlanRows
<1>3. said.entry = {x \in plan[n].entry : x[2] >= seed} /\ said.exit = plan[n].exit
  BY DEF RotationPlan
<1> HIDE DEF plan, seed, C, said
<1>4. \A m \in i..n : Extends(plan[m], plan[i], i)
  <2> DEFINE T == {m \in i..n : ~Extends(plan[m], plan[i], i)}
  <2> SUFFICES ASSUME T # {} PROVE FALSE
    OBVIOUS
  <2>1. PICK m \in T : \A k \in T : m <= k
    <3>1. T \subseteq Nat
      BY <1>1
    <3> HIDE DEF T
    <3> QED  BY <3>1, LeastNat
  <2>2. m \in i..n /\ ~Extends(plan[m], plan[i], i)
    OBVIOUS
  <2>3. m # i
    BY <2>2 DEF Extends
  <2>4. m \in 1..n /\ m - 1 \in i..n /\ ~(m <= m - 1) /\ \A k \in 1..i : k \in 1..(m - 1)
    BY <1>1, <2>2, <2>3
  <2>5. Extends(plan[m - 1], plan[i], i)
    <3>1. m - 1 \notin T
      <4> HIDE DEF T
      <4> QED  BY <2>1, <2>4
    <3> QED  BY <2>4, <3>1
  <2>6. Extends(plan[m], plan[m - 1], m - 1)
    BY <1>2, <2>4
  <2> QED  BY <2>2, <2>4, <2>5, <2>6 DEF Extends
<1>5. Extends(plan[n], plan[i], i)
  <2>1. n \in i..n
    BY <1>1
  <2> QED  BY <1>4, <2>1
<1>6. ASSUME NEW s, NEW k \in seed..i
      PROVE  /\ <<s, k>> \in said.entry <=> <<s, k>> \in plan[i].entry
             /\ <<s, k>> \in said.exit <=> <<s, k>> \in plan[i].exit
  <2>1. k \in 1..i /\ k >= seed
    BY <1>1
  <2> QED  BY <1>3, <1>5, <2>1 DEF Extends
<1>7. \A k \in seed..i : \A j \in k..i : j \in seed..i
  BY <1>1
<1>8. Leads(C, said.entry, said.exit, seed, i) = Leads(C, plan[i].entry, plan[i].exit, seed, i)
  BY <1>6, <1>7 DEF Leads
<1>9. plan[i].held = Leads(C, plan[i].entry, plan[i].exit, seed, i)
  <2>1. i \in 0..n /\ seed # 0
    BY <1>1
  <2> QED  BY <1>1, <1>2, <2>1 DEF PlanOK
<1> QED  BY <1>2, <1>8, <1>9 DEF said, C, seed

\* A frame of a run has rows 1, 2, ...
LEMMA WholeRows ==
    ASSUME RunInv, phase \in Live
    PROVE  Len(whole.days) \in Nat /\ Rows(whole) = 1..Len(whole.days)
<1> DEFINE C == UNION ToSet(Parts)
<1>1. /\ whole = Frame(C) /\ C \in SUBSET Symbol
  <2>1. whole = Frame(C) /\ Valid(req) /\ Parts # <<>> /\ req \in Request
    BY DEF RunInv, LoadedOK
  <2>2. Parts \in Seq(SUBSET Symbol)
    BY <2>1, PartsAreApart
  <2>3. ToSet(Parts) \subseteq SUBSET Symbol
    BY <2>2 DEF ToSet
  <2> QED  BY <2>1, <2>3
<1> HIDE DEF C
<1>2. bars \in History /\ req \in Request
  BY DEF RunInv, LoadedOK
<1>3. Lists(whole.days, DaysIn(C)) /\ IsFiniteSet(DaysIn(C))
  BY <1>1, <1>2, FrameRows
<1>4. Cardinality(DaysIn(C)) \in Nat
  BY <1>3, FS_CardinalityType
<1> QED  BY <1>3, <1>4 DEF Lists, Rows

\* A rotation holds what it wants: from the first row of the test window on, its entries and exits
\* lead on every scheduled row to exactly the names it wants there, for any universe, prices,
\* gate, schedule and warm-up (MomentumRotationStrategy.generate).
THEOREM RotationFollowed == Spec => []RotationIsFollowed
<1>1. ASSUME RunInv, SignalInv PROVE RotationIsFollowed
  <2> SUFFICES ASSUME phase = "filling", req.ask.strategy = "momentum-rotation"
               PROVE  LET seed == SeedRow(whole, First)
                          gate == Gate(whole, Benchmark, FALSE)
                          held(i) == {s \in Cols(whole) : \E k \in seed..i :
                                         <<s, k>> \in signals.entry
                                         /\ \A j \in k..i : <<s, j>> \notin signals.exit}
                      IN \A i \in Schedule(whole, First) :
                            seed # 0 /\ i >= seed => held(i) = Target(whole, gate, i)
    BY DEF RotationIsFollowed
  <2> DEFINE gate == Gate(whole, Benchmark, FALSE)
  <2>1. phase \in Live
    BY DEF Live
  <2>2. Len(whole.days) \in Nat /\ Rows(whole) = 1..Len(whole.days)
    BY <1>1, <2>1, WholeRows
  <2>3. signals = RotationPlan(whole, gate, First)
    <3>1. signals = Generate("momentum-rotation", whole, Benchmark, First)
      BY <1>1 DEF SignalInv, Seen, NeedsUniverse
    <3> QED  BY <3>1, Zenon DEF Generate
  <2> HIDE DEF gate
  <2>4. ASSUME NEW i \in Schedule(whole, First), SeedRow(whole, First) # 0,
               i >= SeedRow(whole, First)
        PROVE  Leads(Cols(whole), signals.entry, signals.exit, SeedRow(whole, First), i)
                  = Target(whole, gate, i)
    BY <2>2, <2>3, <2>4, PlanIsFollowed
  <2> QED  BY <2>4 DEF Leads, gate
<1>2. Init => SignalInv
  BY DEF Init, SignalInv
<1> QED  BY <1>1, <1>2, RunInit, RunStep, SignalStep, PTL DEF Spec

-----------------------------------------------------------------------------
(* What depends on the past only. *)

\* A column, and the same column without its last row.
Agree(c, d, n) == c = [i \in 1..(n + 1) |-> c[i]] /\ d = [i \in 1..n |-> c[i]]

LEMMA AgreeRows ==
    ASSUME NEW c, NEW d, NEW n \in Nat, Agree(c, d, n)
    PROVE  /\ DOMAIN c = 1..(n + 1) /\ DOMAIN d = 1..n
           /\ \A i \in 1..n : c[i] = d[i]
<1>1. c = [i \in 1..(n + 1) |-> c[i]] /\ d = [i \in 1..n |-> c[i]]
  BY DEF Agree
<1>2. DOMAIN d = 1..n /\ \A i \in 1..n : d[i] = c[i]
  BY <1>1, Zenon
<1>3. DOMAIN c = 1..(n + 1)
  BY <1>1, Zenon
<1> QED  BY <1>2, <1>3

\* A window that ends before the last row does not see it.
LEMMA WindowsAgree ==
    ASSUME NEW c, NEW d, NEW n \in Nat, Agree(c, d, n), NEW i \in Int, i <= n, NEW k \in Nat \ {0}, i >= k
    PROVE  Window(c, i, k) = Window(d, i, k)
<1> DEFINE S == {c[j] : j \in 1..n}
           a == i - k + 1
<1>1. a \in Int /\ i \in Int /\ a >= 1 /\ a..i \subseteq 1..n /\ i - a + 1 = k
  OBVIOUS
<1>2. \A j \in 1..n : c[j] = d[j] /\ c[j] \in S
  BY AgreeRows
<1>3. \A j \in a..i : c[j] \in S /\ d[j] \in S
  BY <1>1, <1>2
<1> HIDE DEF S, a
<1>4. /\ SubSeq(c, a, i) \in Seq(S) /\ SubSeq(d, a, i) \in Seq(S)
      /\ Len(SubSeq(c, a, i)) = Len(SubSeq(d, a, i))
      /\ Len(SubSeq(c, a, i)) = IF a <= i THEN i - a + 1 ELSE 0
      /\ \A j \in 1..(i - a + 1) : /\ SubSeq(c, a, i)[j] = c[a + j - 1]
                                  /\ SubSeq(d, a, i)[j] = d[a + j - 1]
  BY <1>1, <1>3, SubSeqProperties
<1>5. ASSUME NEW j \in 1..Len(SubSeq(c, a, i))
      PROVE  SubSeq(c, a, i)[j] = SubSeq(d, a, i)[j]
  <2>1. j \in 1..(i - a + 1)
    BY <1>1, <1>4
  <2>2. a + j - 1 \in 1..n
    BY <1>1, <2>1
  <2> QED  BY <1>2, <1>4, <2>1, <2>2
<1>6. SubSeq(c, a, i) = SubSeq(d, a, i)
  BY <1>4, <1>5, SeqEqual
<1> QED  BY <1>6 DEF Window, a

\* Neither do the means, the extremes and the swing over a window.
LEMMA RollingAgrees ==
    ASSUME NEW c, NEW d, NEW n \in Nat, Agree(c, d, n), NEW i \in Int, i <= n, NEW k \in Nat \ {0}
    PROVE  /\ Full(c, i, k) <=> Full(d, i, k)
           /\ Mean(c, i, k) = Mean(d, i, k)
           /\ Lowest(c, i, k) = Lowest(d, i, k) /\ Highest(c, i, k) = Highest(d, i, k)
<1>1. CASE i >= k
  BY <1>1, WindowsAgree DEF Full, Mean, Lowest, Highest
<1>2. CASE ~(i >= k)
  <2>1. ~Full(c, i, k) /\ ~Full(d, i, k)
    BY <1>2 DEF Full
  <2> QED  BY <2>1 DEF Mean, Lowest, Highest
<1> QED  BY <1>1, <1>2

LEMMA SwingAgrees ==
    ASSUME NEW c, NEW d, NEW n \in Nat, Agree(c, d, n), NEW i \in Int, i <= n, NEW k \in Nat \ {0}
    PROVE  Swing(c, i, k) = Swing(d, i, k)
<1>1. k + 1 \in Nat \ {0}
  OBVIOUS
<1>2. Lowest(c, i, k + 1) = Lowest(d, i, k + 1) /\ Highest(c, i, k + 1) = Highest(d, i, k + 1)
  BY <1>1, RollingAgrees
<1> QED  BY <1>2 DEF Swing

LEMMA ReturnsAgree ==
    ASSUME NEW c, NEW d, NEW n \in Nat, Agree(c, d, n), NEW i \in 1..n, NEW k \in Nat
    PROVE  Shift(c, i, k) = Shift(d, i, k) /\ Return(c, i, k) = Return(d, i, k) /\ c[i] = d[i]
<1>1. /\ DOMAIN c = 1..(n + 1) /\ DOMAIN d = 1..n /\ \A j \in 1..n : c[j] = d[j]
  BY AgreeRows
<1>2. i - k \in DOMAIN c <=> i - k \in DOMAIN d
  BY <1>1
<1>3. Shift(c, i, k) = Shift(d, i, k)
  BY <1>1, <1>2 DEF Shift
<1> QED  BY <1>1, <1>3 DEF Return

LEMMA Lengths ==
    /\ {Short, Long, Pullback, Trail, HoldDays, VovLookback, VovLookback + 1} \subseteq Nat \ {0}
    /\ Skip \in Nat /\ Trail - Skip \in Nat /\ Rising \in Nat
<1> QED  BY StrategyAssumption

LEMMA MomentumAgrees ==
    ASSUME NEW c, NEW d, NEW n \in Nat, Agree(c, d, n), NEW i \in 1..n
    PROVE  Momentum(c, i) = Momentum(d, i)
<1>1. CASE i > Skip
  <2>1. i - Skip \in 1..n
    BY <1>1, Lengths
  <2>2. c[i - Skip] = d[i - Skip] /\ Return(c, i - Skip, Trail - Skip) = Return(d, i - Skip, Trail - Skip)
    BY <2>1, ReturnsAgree, Lengths
  <2> QED  BY <2>2 DEF Momentum
<1>2. CASE ~(i > Skip)
  BY <1>2 DEF Momentum
<1> QED  BY <1>1, <1>2

LEMMA CrossAgrees ==
    ASSUME NEW c, NEW d, NEW n \in Nat, Agree(c, d, n), NEW i \in 1..n
    PROVE  (CrossEntry(c, i) <=> CrossEntry(d, i)) /\ (CrossExit(c, i) <=> CrossExit(d, i))
<1>1. i - 1 \in Int /\ i - 1 <= n /\ i \in Int /\ i <= n
  OBVIOUS
<1>2. /\ Mean(c, i, Short) = Mean(d, i, Short) /\ Mean(c, i, Long) = Mean(d, i, Long)
      /\ Mean(c, i - 1, Short) = Mean(d, i - 1, Short) /\ Mean(c, i - 1, Long) = Mean(d, i - 1, Long)
  BY <1>1, RollingAgrees, Lengths
<1>3. c[i] = d[i]
  BY AgreeRows
<1> QED  BY <1>2, <1>3 DEF CrossEntry, CrossExit

LEMMA DipAgrees ==
    ASSUME NEW c, NEW d, NEW n \in Nat, Agree(c, d, n), NEW i \in 1..n
    PROVE  (DipEntry(c, i) <=> DipEntry(d, i)) /\ (DipExit(c, i) <=> DipExit(d, i))
<1>1. ASSUME NEW j \in 1..n PROVE DipEntry(c, j) <=> DipEntry(d, j)
  <2>1. Highest(c, j, Trail) = Highest(d, j, Trail)
    BY RollingAgrees, Lengths
  <2>2. c[j] = d[j]
    BY AgreeRows
  <2> QED  BY <2>1, <2>2 DEF DipEntry
<1>2. Lowest(c, i, Trail) = Lowest(d, i, Trail) /\ c[i] = d[i]
  <2>1. Lowest(c, i, Trail) = Lowest(d, i, Trail)
    BY RollingAgrees, Lengths
  <2> QED  BY <2>1, AgreeRows
<1>3. i > HoldDays => i - HoldDays \in 1..n
  BY Lengths
<1> QED  BY <1>1, <1>2, <1>3 DEF DipExit

\* The first of two rows, as a window that is cut at the first row has it.
LEMMA FromTheFirst ==
    ASSUME NEW x \in Int
    PROVE  Max({1, x}) \in Nat \ {0}
<1>1. \E m \in {1, x} : \A y \in {1, x} : m >= y
  <2>1. CASE x >= 1
    BY <2>1
  <2>2. CASE ~(x >= 1)
    BY <2>2
  <2> QED  BY <2>1, <2>2
<1>2. Max({1, x}) \in {1, x} /\ \A y \in {1, x} : Max({1, x}) >= y
  BY <1>1, Zenon DEF Max
<1> QED  BY <1>2

LEMMA ShallowAgrees ==
    ASSUME NEW c, NEW d, NEW n \in Nat, Agree(c, d, n), NEW i \in 1..n
    PROVE  Shallow(c, i) <=> Shallow(d, i)
<1>1. \A k \in Max({1, i - Trail + 1})..i : k \in 1..n
  <2>1. Max({1, i - Trail + 1}) \in Nat \ {0}
    BY FromTheFirst, Lengths
  <2> QED  BY <2>1
<1>2. ASSUME NEW k \in 1..n, NEW p \in Max({1, k - Trail + 1})..k PROVE p \in 1..n
  <2>1. Max({1, k - Trail + 1}) \in Nat \ {0}
    BY FromTheFirst, Lengths
  <2> QED  BY <2>1
<1>3. \A k \in 1..n : c[k] = d[k]
  BY AgreeRows
<1> QED  BY <1>1, <1>2, <1>3 DEF Shallow

LEMMA VovAgrees ==
    ASSUME NEW c, NEW d, NEW n \in Nat, Agree(c, d, n)
    PROVE  Agree(VolOfVol(c), VolOfVol(d), n)
<1> DEFINE vol(x) == [k \in DOMAIN x |-> Swing(x, k, Short)]
           vov(x) == [k \in DOMAIN x |-> Swing(vol(x), k, Short)]
<1>1. /\ DOMAIN c = 1..(n + 1) /\ DOMAIN d = 1..n
  BY AgreeRows
<1>2. \A k \in 1..n : Swing(c, k, Short) = Swing(d, k, Short)
  BY SwingAgrees, Lengths
<1>3. \A k \in 1..n : k \in 1..(n + 1)
  OBVIOUS
<1>4. Agree(vol(c), vol(d), n)
  BY <1>1, <1>2, <1>3 DEF Agree
<1>5. \A k \in 1..n : Swing(vol(c), k, Short) = Swing(vol(d), k, Short)
  <2> HIDE DEF vol
  <2> QED  BY <1>4, SwingAgrees, Lengths
<1>6. DOMAIN vol(c) = DOMAIN c /\ DOMAIN vol(d) = DOMAIN d
  OBVIOUS
<1>7. Agree(vov(c), vov(d), n)
  <2> HIDE DEF vol
  <2> QED  BY <1>1, <1>3, <1>5 DEF Agree
<1>8. VolOfVol(c) = vov(c) /\ VolOfVol(d) = vov(d)
  BY DEF VolOfVol
<1> QED  BY <1>7, <1>8

LEMMA CompressedAgrees ==
    ASSUME NEW c, NEW d, NEW n \in Nat, Agree(c, d, n), NEW i \in 1..n
    PROVE  Compressed(c, i) <=> Compressed(d, i)
<1> DEFINE v == VolOfVol(c)
           w == VolOfVol(d)
<1>1. Agree(v, w, n)
  BY VovAgrees
<1> HIDE DEF v, w
<1>2. Full(v, i, VovLookback + 1) <=> Full(w, i, VovLookback + 1)
  BY <1>1, RollingAgrees, Lengths
<1>3. CASE ~Full(v, i, VovLookback + 1)
  BY <1>2, <1>3 DEF Compressed, VovRank, v, w
<1>4. CASE Full(v, i, VovLookback + 1)
  <2>1. i >= VovLookback + 1
    BY <1>4 DEF Full
  <2>2. (i - VovLookback)..(i - 1) \subseteq 1..n
    BY <2>1, Lengths
  <2>3. \A k \in 1..n : v[k] = w[k]
    BY <1>1, AgreeRows
  <2>4. {k \in (i - VovLookback)..(i - 1) : v[k] < v[i]} = {k \in (i - VovLookback)..(i - 1) : w[k] < w[i]}
    BY <2>2, <2>3
  <2>5. VovRank(c, i) = VovRank(d, i)
    BY <1>2, <1>4, <2>4 DEF VovRank, v, w
  <2> QED  BY <2>5 DEF Compressed
<1> QED  BY <1>3, <1>4

\* A frame, and the same frame without its last row.
FramesAgree(f, p, n) ==
    /\ Cols(p) = Cols(f) /\ Len(f.days) = n + 1 /\ Len(p.days) = n
    /\ Agree(f.days, p.days, n)
    /\ \A s \in Cols(f) : /\ Agree(f.close[s], p.close[s], n)
                          /\ Agree(f.high[s], p.high[s], n)
                          /\ Agree(f.low[s], p.low[s], n)

LEMMA FrameRowsAgree ==
    ASSUME NEW f, NEW p, NEW n \in Nat, FramesAgree(f, p, n)
    PROVE  /\ Rows(f) = 1..(n + 1) /\ Rows(p) = 1..n
           /\ \A i \in 1..n : p.days[i] = f.days[i]
<1>1. Agree(f.days, p.days, n)
  BY DEF FramesAgree
<1> QED  BY <1>1, AgreeRows DEF Rows

LEMMA BuyRedAgrees ==
    ASSUME NEW f, NEW p, NEW n \in Nat, FramesAgree(f, p, n), NEW s \in Cols(f), NEW i \in 1..n
    PROVE  /\ BuyRedEntry(f, s, i) <=> BuyRedEntry(p, s, i)
           /\ BuyRedExit(f, s, i) <=> BuyRedExit(p, s, i)
<1> DEFINE c == f.close[s]
           d == p.close[s]
<1>1. Agree(c, d, n) /\ Agree(f.high[s], p.high[s], n) /\ Agree(f.low[s], p.low[s], n)
  BY DEF FramesAgree
<1>2. f.high[s][i] = p.high[s][i] /\ f.low[s][i] = p.low[s][i]
  <2> DEFINE h == f.high[s]
             g == p.high[s]
             l == f.low[s]
             m == p.low[s]
  <2> HIDE DEF h, g, l, m, c, d
  <2>1. Agree(h, g, n) /\ Agree(l, m, n)
    BY <1>1 DEF h, g, l, m
  <2>2. h[i] = g[i] /\ l[i] = m[i]
    BY <2>1, AgreeRows
  <2> QED  BY <2>2 DEF h, g, l, m
<1> HIDE DEF c, d
<1>3. i \in Int /\ i <= n
  OBVIOUS
<1>4. /\ Mean(c, i, Short) = Mean(d, i, Short) /\ Mean(c, i, Long) = Mean(d, i, Long)
      /\ Lowest(c, i, Trail) = Lowest(d, i, Trail)
  BY <1>1, <1>3, RollingAgrees, Lengths
<1>5. Swing(c, i, Short) = Swing(d, i, Short)
  BY <1>1, <1>3, SwingAgrees, Lengths
<1>6. BuyLevel(c, i) = BuyLevel(d, i) /\ SellLevel(c, i) = SellLevel(d, i)
  BY <1>4, <1>5 DEF BuyLevel, SellLevel, HalfWidth
<1>7. (Shallow(c, i) <=> Shallow(d, i)) /\ (Compressed(c, i) <=> Compressed(d, i))
  BY <1>1, ShallowAgrees, CompressedAgrees
<1>8. c[i] = d[i]
  BY <1>1, AgreeRows
<1>9. BuyRedEntry(f, s, i) <=> BuyRedEntry(p, s, i)
  BY <1>2, <1>4, <1>6, <1>7, <1>8 DEF BuyRedEntry, c, d
<1>10. BuyRedExit(f, s, i) <=> BuyRedExit(p, s, i)
  BY <1>2, <1>4, <1>6, <1>8 DEF BuyRedExit, c, d
<1> QED  BY <1>9, <1>10

\* The index of the columns is built row by row.
Levels(f, level, n) ==
    /\ EqualWeightIndex(f) = [i \in Rows(f) |-> level[i]]
    /\ level[0] = 10000
    /\ \A i \in 1..n : level[i] = (level[i - 1] * RowReturn(f, i)) \div 100

LEMMA IndexByRow ==
    ASSUME NEW f, NEW m \in Nat, Len(f.days) = m
    PROVE  \E level : Levels(f, level, m)
<1> DEFINE k == [of |-> "index", f |-> f]
           n == Len(f.days)
           Row(x, i) == IF i = 0 THEN 10000 ELSE (x * RowReturn(f, i)) \div 100
           level == CHOOSE g : g = [i \in 0..n |-> Row(g[i - 1], i)]
<1>1. \A x, i : RowOf(k, x, i) = Row(x, i)
  BY DEF RowOf
<1>2. EqualWeightIndex(f) = [i \in Rows(f) |-> level[i]]
  BY DEF EqualWeightIndex
<1>0. n \in Nat
  OBVIOUS
<1> HIDE DEF k, n, Row, level
<1>3a. PICK g : ByRow(g, k, n)
  BY <1>0, RowsExist
<1>3. g = [i \in 0..n |-> RowOf(k, g[i - 1], i)]
  BY <1>3a DEF ByRow
<1>4. g = [i \in 0..n |-> Row(g[i - 1], i)]
  BY <1>1, <1>3
<1>5. level = [i \in 0..n |-> Row(level[i - 1], i)]
  BY <1>4, Zenon DEF level
<1>6. 0 \in 0..n /\ \A i \in 1..n : i \in 0..n /\ i # 0
  BY DEF n
<1>7. level[0] = Row(level[0 - 1], 0) /\ \A i \in 1..n : level[i] = Row(level[i - 1], i)
  BY <1>5, <1>6
<1>8. level[0] = 10000
  BY <1>7 DEF Row
<1>9. \A i \in 1..n : level[i] = (level[i - 1] * RowReturn(f, i)) \div 100
  BY <1>6, <1>7 DEF Row
<1> QED  BY <1>2, <1>8, <1>9 DEF n, Levels

LEMMA RowReturnsAgree ==
    ASSUME NEW f, NEW p, NEW n \in Nat, FramesAgree(f, p, n), NEW i \in 1..n
    PROVE  RowReturn(f, i) = RowReturn(p, i)
<1>1. \A s \in Cols(f) : Return(f.close[s], i, 1) = Return(p.close[s], i, 1)
  <2> SUFFICES ASSUME NEW s \in Cols(f) PROVE Return(f.close[s], i, 1) = Return(p.close[s], i, 1)
    OBVIOUS
  <2> DEFINE c == f.close[s]
             d == p.close[s]
  <2>1. Agree(c, d, n)
    BY DEF FramesAgree
  <2> HIDE DEF c, d
  <2>2. Return(c, i, 1) = Return(d, i, 1)
    BY <2>1, ReturnsAgree
  <2> QED  BY <2>2 DEF c, d
<1>2. Cols(p) = Cols(f)
  BY DEF FramesAgree
<1> DEFINE cf == {s \in Cols(f) : Return(f.close[s], i, 1) \notin {NaN, Infinite}}
           cp == {s \in Cols(p) : Return(p.close[s], i, 1) \notin {NaN, Infinite}}
<1>3. cf = cp
  BY <1>1, <1>2
<1>4. [s \in cf |-> Return(f.close[s], i, 1)] = [s \in cp |-> Return(p.close[s], i, 1)]
  BY <1>1, <1>3
<1>5. /\ RowReturn(f, i) = IF cf = {} THEN 100
         ELSE SumFunctionOnSet([s \in cf |-> Return(f.close[s], i, 1)], cf) \div Cardinality(cf)
      /\ RowReturn(p, i) = IF cp = {} THEN 100
         ELSE SumFunctionOnSet([s \in cp |-> Return(p.close[s], i, 1)], cp) \div Cardinality(cp)
  BY DEF RowReturn
<1> HIDE DEF cf, cp
<1> QED  BY <1>3, <1>4, <1>5

LEMMA IndexAgrees ==
    ASSUME NEW f, NEW p, NEW n \in Nat, FramesAgree(f, p, n)
    PROVE  Agree(EqualWeightIndex(f), EqualWeightIndex(p), n)
<1>1. /\ Len(f.days) = n + 1 /\ Len(p.days) = n /\ Rows(f) = 1..(n + 1) /\ Rows(p) = 1..n
  BY FrameRowsAgree DEF FramesAgree
<1>2. PICK a : Levels(f, a, n + 1)
  <2>1. n + 1 \in Nat
    OBVIOUS
  <2> QED  BY <1>1, <2>1, IndexByRow
<1>3. PICK b : Levels(p, b, n)
  BY <1>1, IndexByRow
<1>4. \A i \in 0..n : a[i] = b[i]
  <2> DEFINE T == {i \in 0..n : a[i] # b[i]}
  <2> SUFFICES ASSUME T # {} PROVE FALSE
    OBVIOUS
  <2>1. PICK m \in T : \A k \in T : m <= k
    <3>1. T \subseteq Nat
      OBVIOUS
    <3> HIDE DEF T
    <3> QED  BY <3>1, LeastNat
  <2>2. m \in 0..n /\ a[m] # b[m]
    OBVIOUS
  <2>3. m # 0
    BY <1>2, <1>3, <2>2 DEF Levels
  <2>4. m \in 1..n /\ m \in 1..(n + 1) /\ m - 1 \in 0..n /\ ~(m <= m - 1)
    BY <2>2, <2>3
  <2>5. a[m - 1] = b[m - 1]
    <3>1. m - 1 \notin T
      <4> HIDE DEF T
      <4> QED  BY <2>1, <2>4
    <3> QED  BY <2>4, <3>1
  <2>6. RowReturn(f, m) = RowReturn(p, m)
    BY <2>4, RowReturnsAgree
  <2> QED  BY <1>2, <1>3, <2>2, <2>4, <2>5, <2>6 DEF Levels
<1>5. \A i \in 1..n : i \in 0..n /\ i \in 1..(n + 1)
  OBVIOUS
<1> QED  BY <1>1, <1>2, <1>3, <1>4, <1>5 DEF Agree, Levels

LEMMA BenchmarkAgrees ==
    ASSUME NEW f, NEW p, NEW n \in Nat, FramesAgree(f, p, n), NEW b
    PROVE  Agree(FilledBenchmark(f, b), FilledBenchmark(p, b), n)
<1> DEFINE known(g, i) == {k \in 1..i : g.days[k] \in DOMAIN b}
           at(g, i) == IF known(g, i) = {} THEN NaN ELSE b[g.days[Max(known(g, i))]]
<1>1. /\ Rows(f) = 1..(n + 1) /\ Rows(p) = 1..n /\ \A i \in 1..n : p.days[i] = f.days[i]
  BY FrameRowsAgree
<1>2. /\ FilledBenchmark(f, b) = [i \in 1..(n + 1) |-> at(f, i)]
      /\ FilledBenchmark(p, b) = [i \in 1..n |-> at(p, i)]
  BY <1>1 DEF FilledBenchmark
<1>3. ASSUME NEW i \in 1..n PROVE at(f, i) = at(p, i)
  <2>1. \A k \in 1..i : k \in 1..n
    OBVIOUS
  <2>2. known(f, i) = known(p, i)
    BY <1>1, <2>1
  <2>3. CASE known(f, i) # {}
    <3>1. known(f, i) \subseteq 1..i /\ known(f, i) \subseteq Nat /\ IsFiniteSet(known(f, i))
      <4>1. IsFiniteSet(1..i)
        BY FS_Interval
      <4>2. known(f, i) \subseteq 1..i
        OBVIOUS
      <4> HIDE DEF known
      <4> QED  BY <4>1, <4>2, FS_Subset
    <3>2. Max(known(f, i)) \in known(f, i)
      <4> HIDE DEF known
      <4> QED  BY <2>3, <3>1, LastIsLast
    <3>3. Max(known(f, i)) \in 1..n
      <4> HIDE DEF known
      <4> QED  BY <2>1, <3>1, <3>2
    <3> HIDE DEF known
    <3> QED  BY <1>1, <2>2, <3>3
  <2>4. CASE known(f, i) = {}
    <3> HIDE DEF known
    <3> QED  BY <2>2, <2>4
  <2> QED  BY <2>3, <2>4
<1>4. \A i \in 1..n : i \in 1..(n + 1)
  OBVIOUS
<1> HIDE DEF at
<1> QED  BY <1>2, <1>3, <1>4 DEF Agree

\* The gate of a row is open or closed whatever comes after.
LEMMA GatesAgree ==
    ASSUME NEW f, NEW p, NEW n \in Nat, FramesAgree(f, p, n), NEW b
    PROVE  \A i \in 1..n : i \in Gate(f, b, FALSE) <=> i \in Gate(p, b, FALSE)
<1> DEFINE market(g) == IF DOMAIN b # {} THEN FilledBenchmark(g, b) ELSE EqualWeightIndex(g)
           sma(g) == [i \in Rows(g) |-> Mean(market(g), i, Long)]
<1>1. Rows(f) = 1..(n + 1) /\ Rows(p) = 1..n
  BY FrameRowsAgree
<1>2. Agree(market(f), market(p), n)
  BY IndexAgrees, BenchmarkAgrees
<1>3. ASSUME NEW i \in 1..n
      PROVE  /\ market(f)[i] = market(p)[i] /\ sma(f)[i] = sma(p)[i]
             /\ i \in Rows(f) /\ i \in Rows(p)
  <2>1. i \in Rows(f) /\ i \in Rows(p)
    BY <1>1
  <2> HIDE DEF market
  <2>2. Mean(market(f), i, Long) = Mean(market(p), i, Long) /\ market(f)[i] = market(p)[i]
    <3>1. i \in Int /\ i <= n
      OBVIOUS
    <3>2. Mean(market(f), i, Long) = Mean(market(p), i, Long)
      BY <1>2, <3>1, RollingAgrees, Lengths
    <3>3. market(f)[i] = market(p)[i]
      BY <1>2, AgreeRows
    <3> QED  BY <3>2, <3>3
  <2> QED  BY <2>1, <2>2
<1>4. \A g : Gate(g, b, FALSE) = IF DOMAIN b = {} /\ Fallback = "none" THEN Rows(g)
                                ELSE {i \in Rows(g) : Above(market(g)[i], sma(g)[i])}
  BY DEF Gate
<1> HIDE DEF market, sma
<1>5. ASSUME NEW i \in 1..n PROVE i \in Gate(f, b, FALSE) <=> i \in Gate(p, b, FALSE)
  <2>1. CASE DOMAIN b = {} /\ Fallback = "none"
    <3>1. Gate(f, b, FALSE) = Rows(f) /\ Gate(p, b, FALSE) = Rows(p)
      BY <1>4, <2>1
    <3> QED  BY <1>3, <3>1
  <2>2. CASE ~(DOMAIN b = {} /\ Fallback = "none")
    <3>1. /\ Gate(f, b, FALSE) = {j \in Rows(f) : Above(market(f)[j], sma(f)[j])}
          /\ Gate(p, b, FALSE) = {j \in Rows(p) : Above(market(p)[j], sma(p)[j])}
      BY <1>4, <2>2
    <3> QED  BY <1>3, <3>1
  <2> QED  BY <2>1, <2>2
<1> QED  BY <1>5

LEMMA MomentaAgree ==
    ASSUME NEW f, NEW p, NEW n \in Nat, FramesAgree(f, p, n), NEW i \in 1..n
    PROVE  /\ \A s \in Cols(f) : /\ Momentum(f.close[s], i) = Momentum(p.close[s], i)
                                 /\ f.close[s][i] = p.close[s][i]
           /\ Cols(p) = Cols(f)
<1> SUFFICES ASSUME NEW s \in Cols(f)
             PROVE  Momentum(f.close[s], i) = Momentum(p.close[s], i) /\ f.close[s][i] = p.close[s][i]
  BY DEF FramesAgree
<1> DEFINE c == f.close[s]
           d == p.close[s]
<1>1. Agree(c, d, n)
  BY DEF FramesAgree
<1> HIDE DEF c, d
<1>2. Momentum(c, i) = Momentum(d, i) /\ c[i] = d[i]
  BY <1>1, MomentumAgrees, AgreeRows
<1> QED  BY <1>2 DEF c, d

LEMMA PullbackAgrees ==
    ASSUME NEW f, NEW p, NEW n \in Nat, FramesAgree(f, p, n), NEW s \in Cols(f), NEW i \in 1..n
    PROVE  /\ PullbackEntry(f, s, i) <=> PullbackEntry(p, s, i)
           /\ PullbackExit(f.close[s], i) <=> PullbackExit(p.close[s], i)
<1> DEFINE c == f.close[s]
           d == p.close[s]
           h == f.high[s]
           g == p.high[s]
<1>1. Agree(c, d, n) /\ Agree(h, g, n)
  BY DEF FramesAgree
<1>2. InTopThird(f, s, i) <=> InTopThird(p, s, i)
  <2>1. /\ \A t \in Cols(f) : Momentum(f.close[t], i) = Momentum(p.close[t], i)
        /\ Cols(p) = Cols(f)
    BY MomentaAgree
  <2> DEFINE rf == {t \in Cols(f) : Known(Momentum(f.close[t], i))}
             rp == {t \in Cols(p) : Known(Momentum(p.close[t], i))}
             bf == {t \in rf : Momentum(f.close[t], i) < Momentum(f.close[s], i)}
             bp == {t \in rp : Momentum(p.close[t], i) < Momentum(p.close[s], i)}
             lf == {t \in rf : Momentum(f.close[t], i) = Momentum(f.close[s], i)}
             lp == {t \in rp : Momentum(p.close[t], i) = Momentum(p.close[s], i)}
  <2>2. rf = rp
    BY <2>1
  <2>3. bf = bp /\ lf = lp
    BY <2>1, <2>2
  <2>4. /\ InTopThird(f, s, i) <=>
              s \in rf /\ 3 * (2 * Cardinality(bf) + Cardinality(lf) + 1) >= 4 * Cardinality(rf)
        /\ InTopThird(p, s, i) <=>
              s \in rp /\ 3 * (2 * Cardinality(bp) + Cardinality(lp) + 1) >= 4 * Cardinality(rp)
    BY DEF InTopThird
  <2> HIDE DEF rf, rp, bf, bp, lf, lp
  <2> QED  BY <2>2, <2>3, <2>4
<1> HIDE DEF c, d, h, g
<1>3. i \in Int /\ i <= n /\ i - Rising \in Int /\ i - Rising <= n
  BY Lengths
<1>4. /\ Mean(c, i, Long) = Mean(d, i, Long) /\ Mean(c, i - Rising, Long) = Mean(d, i - Rising, Long)
      /\ Mean(c, i, Pullback) = Mean(d, i, Pullback) /\ c[i] = d[i]
  <2>1. c[i] = d[i]
    BY <1>1, AgreeRows
  <2>2. Mean(c, i, Long) = Mean(d, i, Long) /\ Mean(c, i, Pullback) = Mean(d, i, Pullback)
    BY <1>1, <1>3, RollingAgrees, Lengths
  <2>3. Mean(c, i - Rising, Long) = Mean(d, i - Rising, Long)
    BY <1>1, <1>3, RollingAgrees, Lengths
  <2> QED  BY <2>1, <2>2, <2>3
<1>5. i > 1 => h[i - 1] = g[i - 1]
  <2>1. i > 1 => i - 1 \in 1..n
    OBVIOUS
  <2>2. \A j \in 1..n : h[j] = g[j]
    BY <1>1, AgreeRows
  <2> QED  BY <2>1, <2>2
<1>6. PullbackEntry(f, s, i) <=> PullbackEntry(p, s, i)
  BY <1>2, <1>4, <1>5 DEF PullbackEntry, c, d, h, g
<1>7. PullbackExit(c, i) <=> PullbackExit(d, i)
  BY <1>4 DEF PullbackExit
<1> QED  BY <1>6, <1>7 DEF c, d

LEMMA TargetsAgree ==
    ASSUME NEW f, NEW p, NEW n \in Nat, FramesAgree(f, p, n), NEW i \in 1..n,
           NEW gf, NEW gp, i \in gf <=> i \in gp
    PROVE  Target(f, gf, i) = Target(p, gp, i)
<1>1. /\ \A s \in Cols(f) : /\ Momentum(f.close[s], i) = Momentum(p.close[s], i)
                            /\ f.close[s][i] = p.close[s][i]
      /\ Cols(p) = Cols(f)
  BY MomentaAgree
<1>2. Tradable(f, i) = Tradable(p, i) /\ Tradable(f, i) \subseteq Cols(f)
  BY <1>1 DEF Tradable
<1> DEFINE ahead(g, s) == {t \in Tradable(g, i) :
                              \/ Momentum(g.close[t], i) > Momentum(g.close[s], i)
                              \/ Momentum(g.close[t], i) = Momentum(g.close[s], i) /\ t > s}
<1>3. \A s \in Tradable(f, i) : ahead(f, s) = ahead(p, s)
  BY <1>1, <1>2
<1>4. \A g : Wanted(g, i) = {s \in Tradable(g, i) : Cardinality(ahead(g, s)) < TopN}
  BY DEF Wanted
<1> HIDE DEF ahead
<1>5. Wanted(f, i) = Wanted(p, i)
  BY <1>2, <1>3, <1>4
<1> QED  BY <1>5 DEF Target

\* The first row of the test window is found without the last row, if it is not that row.
LEMMA SeedAgrees ==
    ASSUME NEW f, NEW p, NEW n \in Nat \ {0}, FramesAgree(f, p, n), NEW start, f.days[n] >= start
    PROVE  /\ SeedRow(f, start) = SeedRow(p, start)
           /\ \A i \in 1..n : i \in Schedule(f, start) <=> i \in Schedule(p, start)
<1> DEFINE rf == {i \in Rows(f) : f.days[i] >= start}
           rp == {i \in Rows(p) : p.days[i] >= start}
<1>1. Rows(f) = 1..(n + 1) /\ Rows(p) = 1..n /\ \A i \in 1..n : p.days[i] = f.days[i]
  BY FrameRowsAgree
<1>2. n \in rf /\ n \in rp
  BY <1>1
<1>3. \A i \in rf : i <= n => i \in rp
  BY <1>1
<1>4. rp \subseteq rf /\ rf \subseteq Nat /\ rp \subseteq Nat
  BY <1>1
<1>5. SeedRow(f, start) = Min(rf) /\ SeedRow(p, start) = Min(rp)
  BY <1>2 DEF SeedRow
<1> HIDE DEF rf, rp
<1>6. /\ Min(rf) \in rf /\ \A x \in rf : Min(rf) <= x
      /\ Min(rp) \in rp /\ \A x \in rp : Min(rp) <= x
  BY <1>2, <1>4, FirstIsFirst
<1>7. Min(rf) \in rp
  BY <1>2, <1>3, <1>6
<1>8. Min(rf) <= Min(rp) /\ Min(rp) <= Min(rf) /\ Min(rf) \in Nat /\ Min(rp) \in Nat
  BY <1>4, <1>6, <1>7
<1>9. Min(rf) = Min(rp)
  BY <1>8
<1>10. \A i \in 1..n : i \in Rows(f) /\ i \in Rows(p)
  BY <1>1
<1> QED  BY <1>5, <1>9, <1>10 DEF Schedule

LEMMA PlansAgree ==
    ASSUME NEW f, NEW p, NEW n \in Nat \ {0}, FramesAgree(f, p, n), NEW start, f.days[n] >= start,
           NEW gf, NEW gp, \A i \in 1..n : i \in gf <=> i \in gp
    PROVE  \A i \in 0..n : RotationPlans(f, gf, start)[i] = RotationPlans(p, gp, start)[i]
<1> DEFINE a == RotationPlans(f, gf, start)
           b == RotationPlans(p, gp, start)
           seed == SeedRow(f, start)
<1>1. Len(f.days) = n + 1 /\ Len(p.days) = n /\ n + 1 \in Nat /\ n \in Nat
  BY DEF FramesAgree
<1>2. /\ SeedRow(p, start) = seed
      /\ \A i \in 1..n : i \in Schedule(f, start) <=> i \in Schedule(p, start)
  BY SeedAgrees
<1>3. /\ a[0] = [held |-> {}, entry |-> {}, exit |-> {}]
      /\ \A i \in 1..(n + 1) : a[i] = IF i \in Schedule(f, start)
                                      THEN Rebalanced(f, gf, seed, a[i - 1], i) ELSE a[i - 1]
  BY <1>1, PlansByRow
<1>4. /\ b[0] = [held |-> {}, entry |-> {}, exit |-> {}]
      /\ \A i \in 1..n : b[i] = IF i \in Schedule(p, start)
                                THEN Rebalanced(p, gp, SeedRow(p, start), b[i - 1], i) ELSE b[i - 1]
  BY <1>1, PlansByRow
<1> HIDE DEF a, b, seed
<1> DEFINE T == {i \in 0..n : a[i] # b[i]}
<1>5. T = {}
  <2> SUFFICES ASSUME T # {} PROVE FALSE
    OBVIOUS
  <2>1. PICK m \in T : \A k \in T : m <= k
    <3>1. T \subseteq Nat
      OBVIOUS
    <3> HIDE DEF T
    <3> QED  BY <3>1, LeastNat
  <2>2. m \in 0..n /\ a[m] # b[m]
    OBVIOUS
  <2>3. m # 0
    BY <1>3, <1>4, <2>2
  <2>4. m \in 1..n /\ m \in 1..(n + 1) /\ m - 1 \in 0..n /\ ~(m <= m - 1)
    BY <2>2, <2>3
  <2>5. a[m - 1] = b[m - 1]
    <3>1. m - 1 \notin T
      <4> HIDE DEF T
      <4> QED  BY <2>1, <2>4
    <3> QED  BY <2>4, <3>1
  <2>6. Target(f, gf, m) = Target(p, gp, m)
    <3>1. FramesAgree(f, p, n) /\ (m \in gf <=> m \in gp)
      BY <2>4
    <3> QED  BY <1>1, <2>4, <3>1, TargetsAgree
  <2>7. Rebalanced(f, gf, seed, a[m - 1], m) = Rebalanced(p, gp, SeedRow(p, start), b[m - 1], m)
    BY <1>2, <2>5, <2>6 DEF Rebalanced
  <2>8. /\ a[m] = IF m \in Schedule(f, start) THEN Rebalanced(f, gf, seed, a[m - 1], m) ELSE a[m - 1]
        /\ b[m] = IF m \in Schedule(p, start)
                  THEN Rebalanced(p, gp, SeedRow(p, start), b[m - 1], m) ELSE b[m - 1]
        /\ m \in Schedule(f, start) <=> m \in Schedule(p, start)
    BY <1>2, <1>3, <1>4, <2>4
  <2> QED  BY <2>2, <2>5, <2>7, <2>8
<1> QED  BY <1>5 DEF a, b

\* What signals say of the rows up to n.
UpToRow(cells, n) == {x \in cells : x[2] <= n}

LEMMA RotationAgrees ==
    ASSUME NEW f, NEW p, NEW n \in Nat \ {0}, FramesAgree(f, p, n), NEW start, f.days[n] >= start,
           NEW gf, NEW gp, \A i \in 1..n : i \in gf <=> i \in gp
    PROVE  /\ RotationPlan(p, gp, start).entry = UpToRow(RotationPlan(f, gf, start).entry, n)
           /\ RotationPlan(p, gp, start).exit = UpToRow(RotationPlan(f, gf, start).exit, n)
<1> DEFINE a == RotationPlans(f, gf, start)
           b == RotationPlans(p, gp, start)
           C == Cols(f)
           seed == SeedRow(f, start)
<1>1. /\ Len(f.days) = n + 1 /\ Len(p.days) = n /\ n + 1 \in Nat /\ n \in 0..n
      /\ n + 1 \in 0..(n + 1) /\ n \in 0..(n + 1) /\ n + 1 \in 1..(n + 1) /\ (n + 1) - 1 = n
      /\ Rows(f) = 1..(n + 1)
  BY FrameRowsAgree DEF FramesAgree
<1>2. SeedRow(p, start) = seed
  BY SeedAgrees
<1>3. a[n] = b[n]
  BY <1>1, PlansAgree
<1>4. PlanOK(a[n + 1], C, seed, n + 1) /\ PlanOK(a[n], C, seed, n) /\ Extends(a[n + 1], a[n], n)
  <2>1. /\ \A m \in 0..(n + 1) : PlanOK(a[m], C, seed, m)
        /\ \A m \in 1..(n + 1) : Extends(a[m], a[m - 1], m - 1)
    BY <1>1, PlanRows
  <2> HIDE DEF a, C, seed
  <2>2. Extends(a[n + 1], a[(n + 1) - 1], (n + 1) - 1)
    BY <1>1, <2>1
  <2> QED  BY <1>1, <2>1, <2>2
<1>5. /\ RotationPlan(f, gf, start) = [entry |-> {x \in a[n + 1].entry : x[2] >= seed},
                                       exit |-> a[n + 1].exit]
      /\ RotationPlan(p, gp, start) = [entry |-> {x \in b[n].entry : x[2] >= SeedRow(p, start)},
                                       exit |-> b[n].exit]
  BY <1>1 DEF RotationPlan
<1> HIDE DEF a, b, C, seed
<1>6. /\ a[n + 1].entry \subseteq C \X (1..(n + 1)) /\ a[n + 1].exit \subseteq C \X (1..(n + 1))
      /\ a[n].entry \subseteq C \X (1..n) /\ a[n].exit \subseteq C \X (1..n)
  BY <1>4 DEF PlanOK
<1>7. ASSUME NEW x
      PROVE  /\ x \in a[n].entry <=> x \in a[n + 1].entry /\ x[2] <= n
             /\ x \in a[n].exit <=> x \in a[n + 1].exit /\ x[2] <= n
  <2>1. CASE x \in C \X (1..(n + 1))
    <3>1. PICK s \in C, k \in 1..(n + 1) : x = <<s, k>>
      BY <2>1
    <3>2. CASE k <= n
      <4>1. k \in 1..n /\ x[2] = k
        BY <3>1, <3>2
      <4> QED  BY <1>4, <3>1, <3>2, <4>1 DEF Extends
    <3>3. CASE ~(k <= n)
      <4>1. k \notin 1..n /\ x[2] = k
        BY <3>1, <3>3
      <4>2. x \notin C \X (1..n)
        BY <3>1, <4>1
      <4> QED  BY <1>6, <3>3, <4>1, <4>2
    <3> QED  BY <3>2, <3>3
  <2>2. CASE x \notin C \X (1..(n + 1))
    <3>1. x \notin C \X (1..n)
      BY <2>2
    <3> QED  BY <1>6, <2>2, <3>1
  <2> QED  BY <2>1, <2>2
<1>8. {x \in a[n].entry : x[2] >= seed} = {x \in {x \in a[n + 1].entry : x[2] >= seed} : x[2] <= n}
  BY <1>7
<1>9. a[n].exit = {x \in a[n + 1].exit : x[2] <= n}
  BY <1>7
<1> QED  BY <1>2, <1>3, <1>5, <1>8, <1>9 DEF UpToRow

\* Cells of a frame that are told by the past only.
SameCells(T, S, C, n) ==
    /\ T \subseteq C \X (1..(n + 1)) /\ S \subseteq C \X (1..n)
    /\ \A s \in C, i \in 1..n : <<s, i>> \in T <=> <<s, i>> \in S

LEMMA CellsAgree ==
    ASSUME NEW C, NEW n \in Nat, NEW T, NEW S, SameCells(T, S, C, n)
    PROVE  S = UpToRow(T, n)
<1>0. /\ T \subseteq C \X (1..(n + 1)) /\ S \subseteq C \X (1..n)
      /\ \A s \in C, i \in 1..n : <<s, i>> \in T <=> <<s, i>> \in S
  BY DEF SameCells
<1>1. ASSUME NEW x \in C \X (1..(n + 1)) PROVE x \in S <=> x \in UpToRow(T, n)
  <2>1. PICK s \in C, k \in 1..(n + 1) : x = <<s, k>>
    OBVIOUS
  <2>2. x[2] = k /\ (k <= n <=> k \in 1..n)
    BY <2>1
  <2>3. k \notin 1..n => x \notin S
    BY <1>0, <2>1
  <2> QED  BY <1>0, <2>1, <2>2, <2>3 DEF UpToRow
<1>2. S \subseteq C \X (1..(n + 1)) /\ UpToRow(T, n) \subseteq C \X (1..(n + 1))
  <2>1. 1..n \subseteq 1..(n + 1)
    OBVIOUS
  <2> QED  BY <1>0, <2>1 DEF UpToRow
<1> QED  BY <1>1, <1>2

LEMMA GeneratedAgree ==
    ASSUME NEW f, NEW p, NEW n \in Nat \ {0}, FramesAgree(f, p, n), NEW b, NEW start,
           f.days[n] >= start, NEW strategy \in Builtin
    PROVE  /\ Generate(strategy, p, b, start).entry = UpToRow(Generate(strategy, f, b, start).entry, n)
           /\ Generate(strategy, p, b, start).exit = UpToRow(Generate(strategy, f, b, start).exit, n)
<1> DEFINE C == Cols(f)
           was == Generate(strategy, f, b, start)
           cut == Generate(strategy, p, b, start)
<1>0. n \in Nat
  OBVIOUS
<1>1. Cols(p) = C /\ Rows(f) = 1..(n + 1) /\ Rows(p) = 1..n
  <2>1. Rows(f) = 1..(n + 1) /\ Rows(p) = 1..n
    BY <1>0, FrameRowsAgree
  <2> QED  BY <2>1 DEF FramesAgree
<1>2. \A s \in C : Agree(f.close[s], p.close[s], n)
  BY DEF FramesAgree
<1>3. \A s \in C, i \in 1..n : <<s, i>> \in C \X (1..n) /\ <<s, i>> \in C \X (1..(n + 1))
  OBVIOUS
<1> SUFFICES cut.entry = UpToRow(was.entry, n) /\ cut.exit = UpToRow(was.exit, n)
  OBVIOUS
<1>4. CASE strategy = "sma-cross"
  <2>1. /\ was.entry = {x \in C \X (1..(n + 1)) : CrossEntry(f.close[x[1]], x[2])}
        /\ was.exit = {x \in C \X (1..(n + 1)) : CrossExit(f.close[x[1]], x[2])}
        /\ cut.entry = {x \in C \X (1..n) : CrossEntry(p.close[x[1]], x[2])}
        /\ cut.exit = {x \in C \X (1..n) : CrossExit(p.close[x[1]], x[2])}
    BY <1>1, <1>4 DEF Generate, Cells
  <2>2. \A s \in C, i \in 1..n : /\ CrossEntry(f.close[s], i) <=> CrossEntry(p.close[s], i)
                                 /\ CrossExit(f.close[s], i) <=> CrossExit(p.close[s], i)
    BY <1>1, <1>2, CrossAgrees
  <2> HIDE DEF C, was, cut
  <2>3. \A s \in C, i \in 1..n : /\ <<s, i>> \in was.entry <=> <<s, i>> \in cut.entry
                                 /\ <<s, i>> \in was.exit <=> <<s, i>> \in cut.exit
    BY <1>3, <2>1, <2>2
  <2>4. /\ was.entry \subseteq C \X (1..(n + 1)) /\ was.exit \subseteq C \X (1..(n + 1))
        /\ cut.entry \subseteq C \X (1..n) /\ cut.exit \subseteq C \X (1..n)
    BY <2>1
  <2>5. SameCells(was.entry, cut.entry, C, n) /\ SameCells(was.exit, cut.exit, C, n)
    BY <2>3, <2>4 DEF SameCells
  <2> QED  BY <1>0, <2>5, CellsAgree
<1>5. CASE strategy = "naive-dip"
  <2>1. /\ was.entry = {x \in C \X (1..(n + 1)) : DipEntry(f.close[x[1]], x[2])}
        /\ was.exit = {x \in C \X (1..(n + 1)) : DipExit(f.close[x[1]], x[2])}
        /\ cut.entry = {x \in C \X (1..n) : DipEntry(p.close[x[1]], x[2])}
        /\ cut.exit = {x \in C \X (1..n) : DipExit(p.close[x[1]], x[2])}
    BY <1>1, <1>5 DEF Generate, Cells
  <2>2. \A s \in C, i \in 1..n : /\ DipEntry(f.close[s], i) <=> DipEntry(p.close[s], i)
                                 /\ DipExit(f.close[s], i) <=> DipExit(p.close[s], i)
    BY <1>1, <1>2, DipAgrees
  <2> HIDE DEF C, was, cut
  <2>3. \A s \in C, i \in 1..n : /\ <<s, i>> \in was.entry <=> <<s, i>> \in cut.entry
                                 /\ <<s, i>> \in was.exit <=> <<s, i>> \in cut.exit
    BY <1>3, <2>1, <2>2
  <2>4. /\ was.entry \subseteq C \X (1..(n + 1)) /\ was.exit \subseteq C \X (1..(n + 1))
        /\ cut.entry \subseteq C \X (1..n) /\ cut.exit \subseteq C \X (1..n)
    BY <2>1
  <2>5. SameCells(was.entry, cut.entry, C, n) /\ SameCells(was.exit, cut.exit, C, n)
    BY <2>3, <2>4 DEF SameCells
  <2> QED  BY <1>0, <2>5, CellsAgree
<1>6. CASE strategy = "buy-red"
  <2>1. /\ was.entry = {x \in C \X (1..(n + 1)) : BuyRedEntry(f, x[1], x[2])}
        /\ was.exit = {x \in C \X (1..(n + 1)) : BuyRedExit(f, x[1], x[2])}
        /\ cut.entry = {x \in C \X (1..n) : BuyRedEntry(p, x[1], x[2])}
        /\ cut.exit = {x \in C \X (1..n) : BuyRedExit(p, x[1], x[2])}
    BY <1>1, <1>6 DEF Generate, Cells
  <2>2. \A s \in C, i \in 1..n : /\ BuyRedEntry(f, s, i) <=> BuyRedEntry(p, s, i)
                                 /\ BuyRedExit(f, s, i) <=> BuyRedExit(p, s, i)
    BY <1>1, BuyRedAgrees
  <2> HIDE DEF C, was, cut
  <2>3. \A s \in C, i \in 1..n : /\ <<s, i>> \in was.entry <=> <<s, i>> \in cut.entry
                                 /\ <<s, i>> \in was.exit <=> <<s, i>> \in cut.exit
    BY <1>3, <2>1, <2>2
  <2>4. /\ was.entry \subseteq C \X (1..(n + 1)) /\ was.exit \subseteq C \X (1..(n + 1))
        /\ cut.entry \subseteq C \X (1..n) /\ cut.exit \subseteq C \X (1..n)
    BY <2>1
  <2>5. SameCells(was.entry, cut.entry, C, n) /\ SameCells(was.exit, cut.exit, C, n)
    BY <2>3, <2>4 DEF SameCells
  <2> QED  BY <1>0, <2>5, CellsAgree
<1>7. CASE strategy = "trend-pullback"
  <2> DEFINE gf == Gate(f, b, FALSE)
             gp == Gate(p, b, FALSE)
  <2>1. /\ was.entry = {x \in C \X (1..(n + 1)) : x[2] \in gf /\ PullbackEntry(f, x[1], x[2])}
        /\ was.exit = {x \in C \X (1..(n + 1)) : PullbackExit(f.close[x[1]], x[2])}
        /\ cut.entry = {x \in C \X (1..n) : x[2] \in gp /\ PullbackEntry(p, x[1], x[2])}
        /\ cut.exit = {x \in C \X (1..n) : PullbackExit(p.close[x[1]], x[2])}
    BY <1>1, <1>7 DEF Generate, Cells
  <2>2. \A s \in C, i \in 1..n : /\ PullbackEntry(f, s, i) <=> PullbackEntry(p, s, i)
                                 /\ PullbackExit(f.close[s], i) <=> PullbackExit(p.close[s], i)
    BY <1>1, PullbackAgrees
  <2>3. \A i \in 1..n : i \in gf <=> i \in gp
    BY <1>1, GatesAgree
  <2> HIDE DEF C, was, cut, gf, gp
  <2>4. \A s \in C, i \in 1..n : /\ <<s, i>> \in was.entry <=> <<s, i>> \in cut.entry
                                 /\ <<s, i>> \in was.exit <=> <<s, i>> \in cut.exit
    BY <1>3, <2>1, <2>2, <2>3
  <2>5. /\ was.entry \subseteq C \X (1..(n + 1)) /\ was.exit \subseteq C \X (1..(n + 1))
        /\ cut.entry \subseteq C \X (1..n) /\ cut.exit \subseteq C \X (1..n)
    BY <2>1
  <2>6. SameCells(was.entry, cut.entry, C, n) /\ SameCells(was.exit, cut.exit, C, n)
    BY <2>4, <2>5 DEF SameCells
  <2> QED  BY <1>0, <2>6, CellsAgree
<1>8. CASE strategy = "momentum-rotation"
  <2> DEFINE gf == Gate(f, b, FALSE)
             gp == Gate(p, b, FALSE)
  <2>1. was = RotationPlan(f, gf, start) /\ cut = RotationPlan(p, gp, start)
    BY <1>8, Zenon DEF Generate
  <2>2. \A i \in 1..n : i \in gf <=> i \in gp
    BY <1>1, GatesAgree
  <2> HIDE DEF was, cut, gf, gp
  <2> QED  BY <2>1, <2>2, RotationAgrees
<1> QED  BY <1>4, <1>5, <1>6, <1>7, <1>8 DEF Builtin

\* A frame without its last row.
LEMMA PrefixIsPast ==
    ASSUME NEW C \in SUBSET Symbol, NEW n \in Nat, Len(Frame(C).days) = n + 1
    PROVE  FramesAgree(Frame(C), Prefix(Frame(C), n), n)
<1> DEFINE f == Frame(C)
           p == Prefix(f, n)
           q == f.days
<1>1. Lists(q, DaysIn(C)) /\ Cols(f) = C
  BY FrameRows
<1>2. Len(q) = n + 1 /\ DOMAIN q = 1..(n + 1) /\ q \in Seq(DaysIn(C))
  <2> HIDE DEF q
  <2>1. q \in Seq(DaysIn(C)) /\ DOMAIN q = 1..Cardinality(DaysIn(C)) /\ Len(q) = Cardinality(DaysIn(C))
    BY <1>1 DEF Lists
  <2>2. Len(q) = n + 1
    BY DEF q
  <2> QED  BY <2>1, <2>2
<1>3. ASSUME NEW x, x = [i \in 1..(n + 1) |-> x[i]]
      PROVE  Agree(x, SubSeq(x, 1, n), n) /\ Len(SubSeq(x, 1, n)) = n
  <2> DEFINE S == {x[i] : i \in 1..n}
             y == SubSeq(x, 1, n)
  <2>1. \A i \in 1..n : x[i] \in S
    OBVIOUS
  <2> HIDE DEF S
  <2>2. /\ y \in Seq(S) /\ Len(y) = IF 1 <= n THEN n - 1 + 1 ELSE 0
        /\ \A i \in 1..(n - 1 + 1) : y[i] = x[1 + i - 1]
    BY <2>1, SubSeqProperties
  <2> HIDE DEF y
  <2>3. Len(y) = n /\ \A i \in 1..n : y[i] = x[i]
    BY <2>2
  <2>4. y = [i \in 1..n |-> y[i]]
    BY <2>2, <2>3
  <2>5. y = [i \in 1..n |-> x[i]]
    BY <2>3, <2>4
  <2> QED  BY <1>3, <2>3, <2>5 DEF Agree, y
<1>4. q = [i \in 1..(n + 1) |-> q[i]]
  <2> HIDE DEF q
  <2> QED  BY <1>2
<1>5. /\ f.close = [s \in C |-> [i \in 1..(n + 1) |-> bars[s][q[i]].close]]
      /\ f.high = [s \in C |-> [i \in 1..(n + 1) |-> bars[s][q[i]].high]]
      /\ f.low = [s \in C |-> [i \in 1..(n + 1) |-> bars[s][q[i]].low]]
  BY <1>2 DEF Frame
<1>6. /\ p.days = SubSeq(q, 1, n)
      /\ p.close = [s \in DOMAIN f.close |-> SubSeq(f.close[s], 1, n)]
      /\ p.high = [s \in DOMAIN f.high |-> SubSeq(f.high[s], 1, n)]
      /\ p.low = [s \in DOMAIN f.low |-> SubSeq(f.low[s], 1, n)]
  BY DEF Prefix
<1> HIDE DEF f, p, q
<1>7. DOMAIN f.close = C /\ DOMAIN f.high = C /\ DOMAIN f.low = C /\ DOMAIN p.close = C
  BY <1>5, <1>6
<1>8. ASSUME NEW s \in C
      PROVE  /\ Agree(f.close[s], p.close[s], n) /\ Agree(f.high[s], p.high[s], n)
             /\ Agree(f.low[s], p.low[s], n)
  <2>1. /\ p.close[s] = SubSeq(f.close[s], 1, n) /\ p.high[s] = SubSeq(f.high[s], 1, n)
        /\ p.low[s] = SubSeq(f.low[s], 1, n)
    BY <1>6, <1>7
  <2>2. /\ f.close[s] = [i \in 1..(n + 1) |-> f.close[s][i]]
        /\ f.high[s] = [i \in 1..(n + 1) |-> f.high[s][i]]
        /\ f.low[s] = [i \in 1..(n + 1) |-> f.low[s][i]]
    BY <1>5
  <2> QED  BY <1>3, <2>1, <2>2
<1>9. Agree(q, p.days, n) /\ Len(p.days) = n
  BY <1>3, <1>4, <1>6
<1>10. Cols(p) = Cols(f)
  BY <1>7 DEF Cols
<1>11. FramesAgree(f, p, n)
  BY <1>1, <1>2, <1>7, <1>8, <1>9, <1>10 DEF FramesAgree, Cols, q
<1> QED  BY <1>11 DEF f, p

\* No strategy looks ahead: the signals of a frame without its last row are those of the frame, but
\* for the last row, for any prices with any gaps, any windows of the strategies and any benchmark
\* (the promise nopeek.py audits the strategies for).
THEOREM NoPeek == Spec => []SignalsNeverPeek
<1>1. ASSUME RunInv, SignalInv PROVE SignalsNeverPeek
  <2> DEFINE n == Len(Seen.days) - 1
             cut == Generate(req.ask.strategy, Prefix(Seen, n), Benchmark, First)
  <2> SUFFICES ASSUME phase = "filling", Len(Seen.days) > 1, Seen.days[n] >= First
               PROVE  /\ cut.entry = UpToRow(signals.entry, n)
                      /\ cut.exit = UpToRow(signals.exit, n)
    BY DEF SignalsNeverPeek, UpToRow
  <2>1. phase \in Live
    BY DEF Live
  <2>2. PICK C \in SUBSET Symbol : Seen = Frame(C)
    <3>1. CASE NeedsUniverse(req.ask.strategy)
      <4>1. whole = Frame(UNION ToSet(Parts)) /\ Valid(req) /\ req \in Request
        BY <1>1, <2>1 DEF RunInv, LoadedOK
      <4>2. Parts \in Seq(SUBSET Symbol)
        BY <4>1, PartsAreApart
      <4>3. ToSet(Parts) \subseteq SUBSET Symbol
        BY <4>2 DEF ToSet
      <4>4. UNION ToSet(Parts) \in SUBSET Symbol
        BY <4>3
      <4> QED  BY <3>1, <4>1, <4>4 DEF Seen
    <3>2. CASE ~NeedsUniverse(req.ask.strategy)
      <4>1. chunks \in Seq(ToSet(chunks)) /\ chunks # <<>> /\ \A i \in DOMAIN chunks : ChunkOK(chunks[i])
        BY <1>1 DEF RunInv, ChunksOK
      <4>2. 1 \in DOMAIN chunks /\ Head(chunks) = chunks[1]
        BY <4>1
      <4>3. ChunkOK(chunks[1])
        BY <4>1, <4>2
      <4> QED  BY <3>2, <4>2, <4>3 DEF ChunkOK, Seen
    <3> QED  BY <3>1, <3>2
  <2>3. n \in Nat \ {0} /\ Len(Frame(C).days) = n + 1
    <3>1. Lists(Frame(C).days, DaysIn(C)) /\ IsFiniteSet(DaysIn(C))
      BY FrameRows
    <3>2. Len(Frame(C).days) \in Nat
      BY <3>1, FS_CardinalityType DEF Lists
    <3>3. PICK L \in Nat : L = Len(Seen.days)
      BY <2>2, <3>2
    <3>4. L > 1 /\ n = L - 1
      BY <3>3
    <3>5. Len(Frame(C).days) = L
      BY <2>2, <3>3
    <3> HIDE DEF n
    <3>6. n \in Nat \ {0} /\ L = n + 1
      BY <3>4
    <3> QED  BY <3>5, <3>6
  <2>4. signals = Generate(req.ask.strategy, Seen, Benchmark, First)
    BY <1>1 DEF SignalInv
  <2>5. req.ask.strategy \in Builtin
    BY <1>1, <2>1 DEF RunInv, LoadedOK, Valid, Built, Builds
  <2> HIDE DEF n
  <2>6. FramesAgree(Seen, Prefix(Seen, n), n)
    BY <2>2, <2>3, PrefixIsPast
  <2> QED  BY <2>3, <2>4, <2>5, <2>6, GeneratedAgree
<1>2. Init => SignalInv
  BY DEF Init, SignalInv
<1> QED  BY <1>1, <1>2, RunInit, RunStep, SignalStep, PTL DEF Spec
=====
