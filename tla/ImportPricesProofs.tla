------------------------- MODULE ImportPricesProofs -------------------------
(***************************************************************************)
(* Proofs about ImportPrices, for every set of runs, selection, batch size *)
(* and feed: the types and the progress reported, that the bars counted    *)
(* are the bars of the table, that what a run adds of a symbol comes from  *)
(* one answer and stays, and that a success is complete.  The invariant    *)
(* says that the batches still to be tried are the slices of the rest of   *)
(* the selection, that no bar of that rest has been added, and that each   *)
(* selected symbol has failed, has its bars in the table, has them among   *)
(* those being added, or is in that rest.                                  *)
(*                                                                         *)
(* An induction over numbers is the least number principle: a property     *)
(* that failed would fail of a least number first.                         *)
(***************************************************************************)
EXTENDS ImportPrices, FiniteSetTheorems, TLAPS

-----------------------------------------------------------------------------
(* Least numbers, sequences of sequences. *)

LEMMA LeastNat ==
    ASSUME NEW T, T \subseteq Nat, T # {}
    PROVE  \E n \in T : \A m \in T : n <= m
<1>1. IsWellFoundedOn(OpToRel(<,Nat), Nat)
  BY NatLessThanWellFounded
<1>2. PICK n \in T : \A m \in T : ~(<<m, n>> \in OpToRel(<, Nat))
  BY <1>1, WFMin
<1>3. ASSUME NEW m \in T PROVE n <= m
  <2>1. m \in Nat /\ n \in Nat
    OBVIOUS
  <2>2. ~(m < n)
    BY <1>2, <2>1 DEF OpToRel
  <2> QED BY <2>1, <2>2
<1> QED  BY <1>3

\* The sequence of the sequences up to the m-th, one after the other.
Joined(seqs, m, f) ==
    f = [i \in 1..m |-> IF i = 1 THEN seqs[i] ELSE f[i - 1] \o seqs[i]]

\* The recursive function that joins sequences exists.
LEMMA JoinExists ==
    ASSUME NEW S, NEW seqs \in Seq(Seq(S)), NEW n \in Nat, n # 0
    PROVE  \E f : Joined(seqs, n, f)
<1> DEFINE T == {m \in Nat : m # 0 /\ ~ \E f : Joined(seqs, m, f)}
<1> SUFFICES ASSUME n \in T PROVE FALSE
  OBVIOUS
<1>1. PICK m \in T : \A k \in T : m <= k
  <2> HIDE DEF T
  <2>1. T \subseteq Nat /\ T # {}
    BY DEF T
  <2> QED  BY <2>1, LeastNat
<1>2. m \in Nat /\ m # 0
  OBVIOUS
<1>3. CASE m = 1
  <2> DEFINE f == [i \in 1..1 |-> seqs[i]]
  <2>1. f = [i \in 1..1 |-> IF i = 1 THEN seqs[i] ELSE f[i - 1] \o seqs[i]]
    OBVIOUS
  <2>2. Joined(seqs, 1, f)
    BY <2>1 DEF Joined
  <2> QED  BY <1>3, <2>2
<1>4. CASE m # 1
  <2>1. m - 1 \in Nat /\ m - 1 # 0 /\ m - 1 \notin T
    BY <1>1, <1>2, <1>4
  <2>2. PICK f : Joined(seqs, m - 1, f)
    BY <2>1
  <2> DEFINE g == [i \in 1..m |-> IF i = m THEN f[m - 1] \o seqs[m] ELSE f[i]]
  <2>3. f = [i \in 1..(m - 1) |-> IF i = 1 THEN seqs[i] ELSE f[i - 1] \o seqs[i]]
    BY <2>2 DEF Joined
  <2>4. ASSUME NEW i \in 1..m
        PROVE  g[i] = IF i = 1 THEN seqs[i] ELSE g[i - 1] \o seqs[i]
    <3>1. CASE i = m
      <4>1. m # 1 /\ m - 1 # m /\ m - 1 \in 1..m /\ m \in 1..m
        BY <1>2, <1>4
      <4>2. g[m] = f[m - 1] \o seqs[m] /\ g[m - 1] = f[m - 1]
        BY <4>1, Zenon
      <4> QED  BY <3>1, <4>1, <4>2, Zenon
    <3>2. CASE i # m
      <4>1. i \in 1..(m - 1)
        BY <1>2, <3>2
      <4>2. g[i] = f[i]
        BY <3>2
      <4>3. f[i] = IF i = 1 THEN seqs[i] ELSE f[i - 1] \o seqs[i]
        BY <2>3, <4>1
      <4>4. i # 1 => g[i - 1] = f[i - 1]
        BY <1>2, <3>2
      <4> QED  BY <4>2, <4>3, <4>4
    <3> QED  BY <3>1, <3>2
  <2>5. g = [i \in 1..m |-> g[i]]
    OBVIOUS
  <2> HIDE DEF g
  <2>6. g = [i \in 1..m |-> IF i = 1 THEN seqs[i] ELSE g[i - 1] \o seqs[i]]
    BY <2>4, <2>5, Zenon
  <2>7. Joined(seqs, m, g)
    BY <2>6 DEF Joined
  <2> QED  BY <2>7
<1> QED  BY <1>3, <1>4

\* Flattening is its last value.
LEMMA FlattenIsJoined ==
    ASSUME NEW S, NEW seqs \in Seq(Seq(S)), seqs # <<>>
    PROVE  \E f : Joined(seqs, Len(seqs), f) /\ FlattenSeq(seqs) = f[Len(seqs)]
<1> DEFINE fl == CHOOSE f : f = [i \in 1..Len(seqs) |-> IF i = 1 THEN seqs[i] ELSE f[i - 1] \o seqs[i]]
<1>1. Len(seqs) \in Nat /\ Len(seqs) # 0
  OBVIOUS
<1>2. PICK f : f = [i \in 1..Len(seqs) |-> IF i = 1 THEN seqs[i] ELSE f[i - 1] \o seqs[i]]
  BY <1>1, JoinExists DEF Joined
<1>3. fl = [i \in 1..Len(seqs) |-> IF i = 1 THEN seqs[i] ELSE fl[i - 1] \o seqs[i]]
  BY <1>2, Zenon
<1>4. FlattenSeq(seqs) = fl[Len(seqs)]
  BY <1>1, Zenon DEF FlattenSeq
<1> HIDE DEF fl
<1> QED  BY <1>3, <1>4, Zenon DEF Joined

\* A flattened sequence has the members of the sequences, and no others.
LEMMA Flattened ==
    ASSUME NEW S, NEW seqs \in Seq(Seq(S))
    PROVE  /\ FlattenSeq(seqs) \in Seq(S)
           /\ \A x \in ToSet(FlattenSeq(seqs)) : \E i \in DOMAIN seqs : x \in ToSet(seqs[i])
           /\ \A i \in DOMAIN seqs : ToSet(seqs[i]) \subseteq ToSet(FlattenSeq(seqs))
<1>1. CASE seqs = <<>>
  <2>1. Len(seqs) = 0 /\ DOMAIN seqs = {} /\ seqs \in Seq(S)
    BY <1>1
  <2>2. FlattenSeq(seqs) = seqs
    BY <2>1, Zenon DEF FlattenSeq
  <2>3. ToSet(seqs) = {}
    BY <2>1 DEF ToSet
  <2> QED  BY <2>1, <2>2, <2>3
<1>2. CASE seqs # <<>>
  <2> DEFINE n == Len(seqs)
  <2>0. n \in Nat /\ n # 0 /\ DOMAIN seqs = 1..n
    BY <1>2
  <2>1. PICK f : Joined(seqs, n, f) /\ FlattenSeq(seqs) = f[n]
    BY <1>2, FlattenIsJoined
  <2>2. f = [i \in 1..n |-> IF i = 1 THEN seqs[i] ELSE f[i - 1] \o seqs[i]]
    BY <2>1 DEF Joined
  <2> DEFINE Right(m) == /\ f[m] \in Seq(S)
                         /\ \A x \in ToSet(f[m]) : \E i \in 1..m : x \in ToSet(seqs[i])
                         /\ \A i \in 1..m : ToSet(seqs[i]) \subseteq ToSet(f[m])
             T == {m \in 1..n : ~Right(m)}
  <2>3. ASSUME T # {} PROVE FALSE
    <3>1. PICK m \in T : \A k \in T : m <= k
      <4> HIDE DEF Right
      <4>1. T \subseteq Nat
        OBVIOUS
      <4> HIDE DEF T
      <4> QED  BY <2>3, <4>1, LeastNat
    <3>2. m \in 1..n /\ m \in Nat /\ ~Right(m)
      BY <2>0, <3>1
    <3>2a. f[m] = IF m = 1 THEN seqs[m] ELSE f[m - 1] \o seqs[m]
      BY <2>2, <3>2
    <3>3. seqs[m] \in Seq(S)
      BY <2>0, <3>2
    <3>4. CASE m = 1
      <4>1. f[1] = seqs[1]
        BY <3>2a, <3>4
      <4> QED  BY <3>2, <3>3, <3>4, <4>1
    <3>5. CASE m # 1
      <4>1. m - 1 \in 1..n /\ m - 1 \notin T
        <5>1. m - 1 \in 1..n
          BY <2>0, <3>2, <3>5
        <5>2. ~(m <= m - 1)
          BY <3>2
        <5> HIDE DEF T
        <5> QED  BY <3>1, <5>1, <5>2
      <4>2. Right(m - 1)
        BY <4>1
      <4>3. f[m] = f[m - 1] \o seqs[m]
        BY <3>2a, <3>5
      <4>4. f[m - 1] \in Seq(S)
        BY <4>2
      <4>5. ToSet(f[m]) = ToSet(f[m - 1]) \cup ToSet(seqs[m]) /\ f[m] \in Seq(S)
        <5> DEFINE a == f[m - 1]
                   b == seqs[m]
        <5>1. a \in Seq(S) /\ b \in Seq(S) /\ f[m] = a \o b
          BY <3>3, <4>3, <4>4
        <5> HIDE DEF a, b
        <5>2. a \o b \in Seq(S) /\ ToSet(a \o b) = ToSet(a) \cup ToSet(b)
          <6>0. DOMAIN a = 1..Len(a) /\ DOMAIN b = 1..Len(b)
            BY <5>1
          <6>1. Len(a) \in Nat /\ Len(b) \in Nat /\ Len(a \o b) = Len(a) + Len(b)
            BY <5>1
          <6>2. \A i \in 1..Len(a) : (a \o b)[i] = a[i]
            BY <5>1
          <6>3. \A i \in 1..Len(b) : (a \o b)[Len(a) + i] = b[i]
            BY <5>1
          <6>4. ToSet(a \o b) \subseteq ToSet(a) \cup ToSet(b)
            BY <5>1 DEF ToSet
          <6>5. ToSet(a) \subseteq ToSet(a \o b)
            <7> SUFFICES ASSUME NEW i \in 1..Len(a) PROVE a[i] \in ToSet(a \o b)
              BY <5>1, <6>0, Zenon DEF ToSet
            <7>1. i \in DOMAIN (a \o b)
              BY <5>1, <6>1
            <7> QED  BY <6>2, <7>1, Zenon DEF ToSet
          <6>6. ToSet(b) \subseteq ToSet(a \o b)
            <7> SUFFICES ASSUME NEW i \in 1..Len(b) PROVE b[i] \in ToSet(a \o b)
              BY <5>1, <6>0, Zenon DEF ToSet
            <7>1. Len(a) + i \in DOMAIN (a \o b)
              BY <5>1, <6>1
            <7> QED  BY <6>3, <7>1, Zenon DEF ToSet
          <6> QED  BY <5>1, <6>4, <6>5, <6>6
        <5> QED  BY <5>1, <5>2 DEF a, b
      <4>6. \A i \in 1..m : i = m \/ i \in 1..(m - 1)
        BY <3>2
      <4>7. 1..(m - 1) \subseteq 1..m /\ m \in 1..m
        BY <3>2
      <4> HIDE DEF T
      <4>8. \A x \in ToSet(f[m]) : \E i \in 1..m : x \in ToSet(seqs[i])
        BY <4>2, <4>5, <4>7
      <4>9. \A i \in 1..m : ToSet(seqs[i]) \subseteq ToSet(f[m])
        BY <4>2, <4>5, <4>6
      <4> QED  BY <3>2, <4>5, <4>8, <4>9
    <3> QED  BY <3>4, <3>5
  <2>4. n \in 1..n
    BY <2>0
  <2>5. Right(n)
    BY <2>3, <2>4
  <2> HIDE DEF T
  <2> QED  BY <2>0, <2>1, <2>5
<1> QED  BY <1>1, <1>2

-----------------------------------------------------------------------------
(* Sums. *)

Total(f) == FoldFunction(LAMBDA a, b : a + b, 0, f)

One(s) == CHOOSE x \in s : TRUE

\* The sums of a function over sets of its arguments.
Sums(f, F, sum) ==
    sum = [s \in F |-> IF s = {} THEN 0 ELSE f[One(s)] + sum[s \ {One(s)}]]

\* The subsets of at most n elements.
Small(D, n) == {s \in SUBSET D : Cardinality(s) <= n}

\* Taking one element out makes a finite set smaller.
LEMMA Smaller ==
    ASSUME NEW D, IsFiniteSet(D), NEW s \in SUBSET D, s # {}
    PROVE  /\ One(s) \in s /\ s \ {One(s)} \in SUBSET D
           /\ Cardinality(s) \in Nat /\ Cardinality(s) # 0
           /\ Cardinality(s \ {One(s)}) = Cardinality(s) - 1
<1>1. One(s) \in s
  BY Zenon DEF One
<1>2. IsFiniteSet(s)
  BY FS_Subset
<1>3. Cardinality(s) \in Nat /\ Cardinality(s) # 0
  BY <1>2, FS_CardinalityType, FS_EmptySet
<1> QED
  BY <1>1, <1>2, <1>3, FS_RemoveElement

\* The recursive function that sums exists.
LEMMA SumsExist ==
    ASSUME NEW D, IsFiniteSet(D), NEW f, NEW n \in Nat
    PROVE  \E sum : Sums(f, Small(D, n), sum)
<1> DEFINE T == {m \in Nat : ~ \E sum : Sums(f, Small(D, m), sum)}
<1> SUFFICES ASSUME n \in T PROVE FALSE
  OBVIOUS
<1>1. PICK m \in T : \A k \in T : m <= k
  <2>1. T \subseteq Nat /\ T # {}
    OBVIOUS
  <2> HIDE DEF T
  <2> QED  BY <2>1, LeastNat
<1>2. m \in Nat
  OBVIOUS
<1>3. \A s \in SUBSET D : s # {} => /\ s \ {One(s)} \in SUBSET D
                                    /\ Cardinality(s) \in Nat /\ Cardinality(s) # 0
                                    /\ Cardinality(s \ {One(s)}) = Cardinality(s) - 1
  BY Smaller
<1>4. CASE m = 0
  <2> DEFINE g == [s \in Small(D, 0) |-> 0]
  <2>1. ASSUME NEW s \in Small(D, 0) PROVE s = {}
    <3>1. s \in SUBSET D /\ Cardinality(s) <= 0
      BY DEF Small
    <3>2. s # {} => Cardinality(s) \in Nat /\ Cardinality(s) # 0
      BY <1>3, <3>1, Zenon
    <3> QED  BY <3>1, <3>2
  <2>2. \A s \in Small(D, 0) : g[s] = IF s = {} THEN 0 ELSE f[One(s)] + g[s \ {One(s)}]
    BY <2>1
  <2>3. g = [s \in Small(D, 0) |-> g[s]]
    OBVIOUS
  <2> HIDE DEF g
  <2>4. g = [s \in Small(D, 0) |-> IF s = {} THEN 0 ELSE f[One(s)] + g[s \ {One(s)}]]
    BY <2>2, <2>3, Zenon
  <2>5. Sums(f, Small(D, 0), g)
    BY <2>4, Zenon DEF Sums
  <2> QED  BY <1>4, <2>5
<1>5. CASE m # 0
  <2>1. m - 1 \in Nat /\ ~(m <= m - 1)
    BY <1>2, <1>5
  <2>2. m - 1 \notin T
    <3> HIDE DEF T
    <3> QED  BY <1>1, <2>1
  <2>3. PICK sum : Sums(f, Small(D, m - 1), sum)
    BY <2>1, <2>2
  <2> DEFINE g == [s \in Small(D, m) |-> IF s = {} THEN 0 ELSE f[One(s)] + sum[s \ {One(s)}]]
  <2>4. Small(D, m - 1) \subseteq Small(D, m)
    <3> SUFFICES ASSUME NEW s \in Small(D, m - 1) PROVE s \in Small(D, m)
      OBVIOUS
    <3>1. s \in SUBSET D /\ Cardinality(s) <= m - 1
      BY DEF Small
    <3>2. Cardinality(s) \in Nat
      BY <3>1, FS_Subset, FS_CardinalityType
    <3>3. Cardinality(s) <= m
      BY <1>2, <3>1, <3>2
    <3> QED  BY <3>1, <3>3 DEF Small
  <2>5. sum = [s \in Small(D, m - 1) |-> IF s = {} THEN 0 ELSE f[One(s)] + sum[s \ {One(s)}]]
    BY <2>3, Zenon DEF Sums
  <2>6. \A s \in Small(D, m - 1) : g[s] = sum[s]
    BY <2>4, <2>5, Zenon
  <2>7. ASSUME NEW s \in Small(D, m), s # {}
        PROVE  s \ {One(s)} \in Small(D, m - 1)
    <3>1. s \in SUBSET D /\ Cardinality(s) <= m
      BY DEF Small
    <3>2. Cardinality(s \ {One(s)}) <= m - 1
      BY <1>2, <1>3, <2>7, <3>1
    <3>3. s \ {One(s)} \in SUBSET D
      BY <3>1
    <3> QED  BY <3>2, <3>3 DEF Small
  <2>8. \A s \in Small(D, m) : g[s] = IF s = {} THEN 0 ELSE f[One(s)] + g[s \ {One(s)}]
    BY <2>6, <2>7, Zenon
  <2>9. g = [s \in Small(D, m) |-> g[s]]
    OBVIOUS
  <2> HIDE DEF g
  <2>10. g = [s \in Small(D, m) |-> IF s = {} THEN 0 ELSE f[One(s)] + g[s \ {One(s)}]]
    BY <2>8, <2>9, Zenon
  <2>11. Sums(f, Small(D, m), g)
    BY <2>10, Zenon DEF Sums
  <2> QED  BY <2>11
<1> QED  BY <1>4, <1>5

\* The total is its value for the whole domain.
LEMMA TotalIsSum ==
    ASSUME NEW D, IsFiniteSet(D), NEW f, DOMAIN f = D
    PROVE  \E sum : Sums(f, SUBSET D, sum) /\ Total(f) = sum[D]
<1> DEFINE it == CHOOSE sum : sum = [s \in SUBSET D |-> IF s = {} THEN 0
                                        ELSE f[CHOOSE x \in s : TRUE] + sum[s \ {CHOOSE x \in s : TRUE}]]
<1>1. Small(D, Cardinality(D)) = SUBSET D
  BY FS_Subset, FS_CardinalityType DEF Small
<1>2. Cardinality(D) \in Nat
  BY FS_CardinalityType
<1>3. PICK sum : Sums(f, SUBSET D, sum)
  <2>1. \E sum : Sums(f, Small(D, Cardinality(D)), sum)
    BY <1>2, SumsExist
  <2> QED  BY <1>1, <2>1
<1>4. sum = [s \in SUBSET D |-> IF s = {} THEN 0
                 ELSE f[CHOOSE x \in s : TRUE] + sum[s \ {CHOOSE x \in s : TRUE}]]
  BY <1>3, Zenon DEF Sums, One
<1>5. it = [s \in SUBSET D |-> IF s = {} THEN 0
                 ELSE f[CHOOSE x \in s : TRUE] + it[s \ {CHOOSE x \in s : TRUE}]]
  <2> DEFINE P(u) == u = [s \in SUBSET D |-> IF s = {} THEN 0
                 ELSE f[CHOOSE x \in s : TRUE] + u[s \ {CHOOSE x \in s : TRUE}]]
  <2>1. P(sum)
    BY <1>4, Zenon
  <2>2. it = CHOOSE u : P(u)
    BY Zenon
  <2> HIDE DEF P, it
  <2>3. P(CHOOSE u : P(u))
    BY <2>1, Zenon
  <2>4. P(it)
    BY <2>2, <2>3
  <2> QED  BY <2>4, Zenon DEF P
<1>6. Total(f) = it[D]
  BY Zenon DEF Total, FoldFunction, FoldFunctionOnSet, MapThenFoldSet
<1> HIDE DEF it
<1>7. Sums(f, SUBSET D, it)
  BY <1>5, Zenon DEF Sums, One
<1> QED  BY <1>6, <1>7

\* Two functions of D that agree but for y.
AgreeBut(D, y, f, g) == /\ f \in [D -> Nat] /\ g \in [D -> Nat] /\ y \in D
                        /\ \A x \in D \ {y} : f[x] = g[x]

\* Two functions that differ in one value have sums that differ by as much.
LEMMA SumsDiffer ==
    ASSUME NEW D, IsFiniteSet(D), NEW f, NEW g, NEW y, AgreeBut(D, y, f, g)
    PROVE  \A a, b : Sums(f, SUBSET D, a) /\ Sums(g, SUBSET D, b) =>
               \A t \in SUBSET D :
                   /\ a[t] \in Nat /\ b[t] \in Nat
                   /\ IF y \in t THEN a[t] + g[y] = b[t] + f[y] ELSE a[t] = b[t]
<1> SUFFICES ASSUME NEW a, NEW b, Sums(f, SUBSET D, a), Sums(g, SUBSET D, b), NEW t \in SUBSET D
             PROVE  /\ a[t] \in Nat /\ b[t] \in Nat
                    /\ IF y \in t THEN a[t] + g[y] = b[t] + f[y] ELSE a[t] = b[t]
  OBVIOUS
<1> USE DEF AgreeBut
<1> DEFINE Right(s) == /\ a[s] \in Nat /\ b[s] \in Nat
                       /\ IF y \in s THEN a[s] + g[y] = b[s] + f[y] ELSE a[s] = b[s]
           T == {n \in Nat : \E s \in SUBSET D : Cardinality(s) = n /\ ~Right(s)}
<1>0. ASSUME NEW s \in SUBSET D
      PROVE  /\ a[s] = IF s = {} THEN 0 ELSE f[One(s)] + a[s \ {One(s)}]
             /\ b[s] = IF s = {} THEN 0 ELSE g[One(s)] + b[s \ {One(s)}]
  <2>1. a = [u \in SUBSET D |-> IF u = {} THEN 0 ELSE f[One(u)] + a[u \ {One(u)}]]
    BY Zenon DEF Sums
  <2>2. b = [u \in SUBSET D |-> IF u = {} THEN 0 ELSE g[One(u)] + b[u \ {One(u)}]]
    BY Zenon DEF Sums
  <2>3. \A u \in SUBSET D : a[u] = IF u = {} THEN 0 ELSE f[One(u)] + a[u \ {One(u)}]
    BY <2>1, Zenon
  <2>4. \A u \in SUBSET D : b[u] = IF u = {} THEN 0 ELSE g[One(u)] + b[u \ {One(u)}]
    BY <2>2, Zenon
  <2> QED  BY <2>3, <2>4, Zenon
<1>1. ASSUME T # {} PROVE FALSE
  <2>1. PICK n \in T : \A k \in T : n <= k
    <3>1. T \subseteq Nat
      OBVIOUS
    <3> HIDE DEF T
    <3> QED  BY <1>1, <3>1, LeastNat
  <2>2. PICK s \in SUBSET D : Cardinality(s) = n /\ ~Right(s)
    OBVIOUS
  <2>3. CASE s = {}
    <3>1. a[s] = 0 /\ b[s] = 0
      BY <1>0, <2>3
    <3> QED  BY <2>2, <2>3, <3>1
  <2>4. CASE s # {}
    <3> PICK x : x = One(s)
      OBVIOUS
    <3> PICK u : u = s \ {One(s)}
      OBVIOUS
    <3>1. x \in s /\ u \in SUBSET D /\ u = s \ {x} /\ n \in Nat /\ Cardinality(u) = n - 1 /\ n # 0
      BY <2>2, <2>4, Smaller
    <3>2. a[s] = f[x] + a[u] /\ b[s] = g[x] + b[u]
      BY <1>0, <2>4
    <3>3. n - 1 \in Nat /\ ~(n <= n - 1)
      BY <3>1
    <3>4. n - 1 \notin T
      <4> HIDE DEF T
      <4> QED  BY <2>1, <3>3
    <3>5. Right(u)
      <4> HIDE DEF Right
      <4> QED  BY <3>1, <3>3, <3>4
    <3>6. f[x] \in Nat /\ g[x] \in Nat /\ f[y] \in Nat /\ g[y] \in Nat /\ x \in D
      BY <3>1
    <3>7. CASE x = y
      <4>1. y \notin u /\ y \in s
        BY <3>1, <3>7
      <4>2. a[u] = b[u] /\ a[u] \in Nat
        BY <3>5, <4>1
      <4>3. a[s] \in Nat /\ b[s] \in Nat /\ a[s] + g[y] = b[s] + f[y]
        BY <3>2, <3>6, <3>7, <4>2
      <4> QED  BY <2>2, <4>1, <4>3
    <3>8. CASE x # y
      <4>1. (y \in u) <=> (y \in s)
        BY <3>1, <3>8
      <4>2. f[x] = g[x]
        BY <3>6, <3>8
      <4>3. a[u] \in Nat /\ b[u] \in Nat
        BY <3>5
      <4>4. a[s] \in Nat /\ b[s] \in Nat
        BY <3>2, <3>6, <4>3
      <4>5. CASE y \in u
        <5>1. a[u] + g[y] = b[u] + f[y]
          BY <3>5, <4>5
        <5> PICK p, q, v, gy, fy : p = a[u] /\ q = b[u] /\ v = f[x] /\ gy = g[y] /\ fy = f[y]
          OBVIOUS
        <5>3. p \in Nat /\ q \in Nat /\ v \in Nat /\ gy \in Nat /\ fy \in Nat /\ p + gy = q + fy
          BY <3>6, <4>3, <5>1
        <5>4. (v + p) + gy = (v + q) + fy
          BY <5>3
        <5>2. a[s] + g[y] = b[s] + f[y]
          BY <3>2, <4>2, <5>4
        <5> QED  BY <2>2, <4>1, <4>4, <4>5, <5>2
      <4>6. CASE y \notin u
        <5>1. a[u] = b[u]
          BY <3>5, <4>6
        <5>2. a[s] = b[s]
          BY <3>2, <4>2, <5>1
        <5> QED  BY <2>2, <4>1, <4>4, <4>6, <5>2
      <4> QED  BY <4>5, <4>6
    <3> QED  BY <3>7, <3>8
  <2> QED  BY <2>3, <2>4
<1>2. Cardinality(t) \in Nat
  BY FS_Subset, FS_CardinalityType
<1> QED
  BY <1>1, <1>2

\* The same for totals.
LEMMA TotalsDiffer ==
    ASSUME NEW D, IsFiniteSet(D), NEW f, NEW g, NEW y, AgreeBut(D, y, f, g)
    PROVE  Total(f) \in Nat /\ Total(g) \in Nat /\ Total(f) + g[y] = Total(g) + f[y]
<1>0. \A a, b : Sums(f, SUBSET D, a) /\ Sums(g, SUBSET D, b) =>
          \A t \in SUBSET D :
              /\ a[t] \in Nat /\ b[t] \in Nat
              /\ IF y \in t THEN a[t] + g[y] = b[t] + f[y] ELSE a[t] = b[t]
  BY SumsDiffer
<1>1. DOMAIN f = D /\ DOMAIN g = D /\ y \in D
  BY DEF AgreeBut
<1>2. PICK a : Sums(f, SUBSET D, a) /\ Total(f) = a[D]
  BY <1>1, TotalIsSum
<1>3. PICK b : Sums(g, SUBSET D, b) /\ Total(g) = b[D]
  BY <1>1, TotalIsSum
<1>4. D \in SUBSET D
  OBVIOUS
<1>5. /\ a[D] \in Nat /\ b[D] \in Nat
      /\ IF y \in D THEN a[D] + g[y] = b[D] + f[y] ELSE a[D] = b[D]
  <2>1. Sums(f, SUBSET D, a) /\ Sums(g, SUBSET D, b)
    BY <1>2, <1>3
  <2>2. \A t \in SUBSET D : /\ a[t] \in Nat /\ b[t] \in Nat
                            /\ IF y \in t THEN a[t] + g[y] = b[t] + f[y] ELSE a[t] = b[t]
    BY <1>0, <2>1, Zenon
  <2> QED  BY <1>4, <2>2
<1> QED
  BY <1>1, <1>2, <1>3, <1>5

\* Zeros sum up to zero.
LEMMA TotalOfZeros ==
    ASSUME NEW D, IsFiniteSet(D)
    PROVE  Total([x \in D |-> 0]) = 0
<1> PICK f : f = [x \in D |-> 0]
  OBVIOUS
<1>1. f \in [D -> Nat] /\ DOMAIN f = D /\ \A x \in D : f[x] = 0
  OBVIOUS
<1>2. PICK a : Sums(f, SUBSET D, a) /\ Total(f) = a[D]
  BY <1>1, TotalIsSum
<1> DEFINE T == {n \in Nat : \E s \in SUBSET D : Cardinality(s) = n /\ a[s] # 0}
<1>3. \A u \in SUBSET D : a[u] = IF u = {} THEN 0 ELSE f[One(u)] + a[u \ {One(u)}]
  <2>1. a = [u \in SUBSET D |-> IF u = {} THEN 0 ELSE f[One(u)] + a[u \ {One(u)}]]
    BY <1>2, Zenon DEF Sums
  <2> QED  BY <2>1, Zenon
<1>4. ASSUME T # {} PROVE FALSE
  <2>1. PICK n \in T : \A k \in T : n <= k
    <3>1. T \subseteq Nat
      OBVIOUS
    <3> HIDE DEF T
    <3> QED  BY <1>4, <3>1, LeastNat
  <2>2. PICK s \in SUBSET D : Cardinality(s) = n /\ a[s] # 0
    OBVIOUS
  <2>3. s # {}
    BY <1>3, <2>2
  <2> PICK u : u = s \ {One(s)}
    OBVIOUS
  <2>4. One(s) \in D /\ u \in SUBSET D /\ n \in Nat /\ Cardinality(u) = n - 1 /\ n # 0
    BY <2>2, <2>3, Smaller
  <2>5. n - 1 \in Nat /\ ~(n <= n - 1)
    BY <2>4
  <2>6. n - 1 \notin T
    <3> HIDE DEF T
    <3> QED  BY <2>1, <2>5
  <2>7. a[u] = 0
    BY <2>4, <2>5, <2>6
  <2>8. a[s] = f[One(s)] + a[u]
    BY <1>3, <2>3
  <2> QED  BY <1>1, <2>2, <2>4, <2>7, <2>8
<1>5. Cardinality(D) \in Nat
  BY FS_CardinalityType
<1> QED
  BY <1>2, <1>4, <1>5

-----------------------------------------------------------------------------
(* Slices. *)

\* The slice at an offset lies in the selection and has a symbol.
LEMMA SliceBounds ==
    ASSUME NEW n \in Nat, NEW size \in Nat \ {0},
           NEW i \in 1..((n + size - 1) \div size)
    PROVE  /\ (i - 1) * size + 1 \in 1..n
           /\ (i - 1) * size + 1 <= i * size
           /\ i * size \in Nat
<1> DEFINE q == (n + size - 1) \div size
<1>1. q \in Nat /\ q * size <= n + size - 1
  OBVIOUS
<1>2. i \in Nat /\ 1 <= i /\ i <= q
  BY <1>1
<1>3. (i - 1) * size <= (q - 1) * size
  BY <1>1, <1>2
<1>4. (q - 1) * size = q * size - size /\ (i - 1) * size = i * size - size
  BY <1>1, <1>2
<1>5. (i - 1) * size \in Nat
  BY <1>2
<1>6. (i - 1) * size + 1 <= n
  BY <1>1, <1>3, <1>4, <1>5
<1> QED
  BY <1>2, <1>4, <1>5, <1>6

\* Sequences of one length with the same members are equal.
LEMMA SameSequence ==
    ASSUME NEW S, NEW u \in Seq(S), NEW v \in Seq(S), Len(u) = Len(v),
           \A i \in 1..Len(u) : u[i] = v[i]
    PROVE  u = v
OBVIOUS

\* A part of a selection: its length and its members.
LEMMA SubSeqType ==
    ASSUME NEW q \in Seq(Symbol), NEW i \in Nat \ {0}, NEW j \in Nat, j <= Len(q)
    PROVE  /\ SubSeq(q, i, j) \in Seq(Symbol)
           /\ Len(SubSeq(q, i, j)) = IF i <= j THEN j - i + 1 ELSE 0
           /\ \A k \in 1..(j - i + 1) : SubSeq(q, i, j)[k] = q[i + k - 1]
<1>1. Len(q) \in Nat /\ i \in Nat /\ j \in Nat /\ 1 <= i
  OBVIOUS
<1>2. CASE i <= j
  BY <1>1, <1>2
<1>3. CASE ~(i <= j)
  <2>1. SubSeq(q, i, j) = <<>>
    BY <1>1, <1>3
  <2> QED  BY <1>1, <1>3, <2>1
<1> QED  BY <1>2, <1>3

\* A slice of what follows the first m symbols is a slice.
SliceOfRest(q, m, i, j) ==
    SubSeq(SubSeq(q, m + 1, Len(q)), i, j) = SubSeq(q, m + i, m + j)

LEMMA SubOfSub ==
    ASSUME NEW q \in Seq(Symbol), NEW m \in Nat, NEW i \in Nat \ {0}, NEW j \in Nat,
           m <= Len(q), j <= Len(q) - m
    PROVE  SliceOfRest(q, m, i, j)
<1> PICK n : n = Len(q)
  OBVIOUS
<1> PICK p : p = SubSeq(q, m + 1, Len(q))
  OBVIOUS
<1>0. m + j <= n /\ m + 1 \in Nat \ {0} /\ m + i \in Nat \ {0} /\ m + j \in Nat /\ i \in Nat /\ 1 <= i
  OBVIOUS
<1>1. /\ p \in Seq(Symbol) /\ Len(p) = n - m
      /\ \A k \in 1..(n - m) : p[k] = q[m + k]
  <2>1. /\ p \in Seq(Symbol)
        /\ Len(p) = IF m + 1 <= n THEN n - (m + 1) + 1 ELSE 0
        /\ \A k \in 1..(n - (m + 1) + 1) : p[k] = q[(m + 1) + k - 1]
    BY <1>0, SubSeqType
  <2>2. n - (m + 1) + 1 = n - m /\ \A k \in 1..(n - m) : (m + 1) + k - 1 = m + k
    BY <1>0
  <2>3. (IF m + 1 <= n THEN n - (m + 1) + 1 ELSE 0) = n - m
    BY <1>0
  <2> QED  BY <2>1, <2>2, <2>3
<1>2. j <= n - m
  BY <1>0
<1> PICK a : a = SubSeq(p, i, j)
  OBVIOUS
<1> PICK b : b = SubSeq(q, m + i, m + j)
  OBVIOUS
<1>3. /\ a \in Seq(Symbol) /\ Len(a) = IF i <= j THEN j - i + 1 ELSE 0
      /\ \A k \in 1..(j - i + 1) : a[k] = p[i + k - 1]
  <2>1. j <= Len(p) /\ i \in Nat \ {0} /\ j \in Nat /\ p \in Seq(Symbol)
    BY <1>1, <1>2
  <2> QED  BY <2>1, SubSeqType
<1>4. /\ b \in Seq(Symbol) /\ Len(b) = IF m + i <= m + j THEN (m + j) - (m + i) + 1 ELSE 0
      /\ \A k \in 1..((m + j) - (m + i) + 1) : b[k] = q[(m + i) + k - 1]
  BY <1>0, SubSeqType
<1>5. (m + j) - (m + i) + 1 = j - i + 1 /\ (m + i <= m + j <=> i <= j)
  BY <1>0
<1>6. Len(a) = Len(b)
  BY <1>3, <1>4, <1>5
<1>7. ASSUME NEW k \in 1..Len(a) PROVE a[k] = b[k]
  <2>1. i <= j /\ k \in 1..(j - i + 1)
    BY <1>0, <1>3
  <2>2. i + k - 1 \in 1..(n - m) /\ m + (i + k - 1) = (m + i) + k - 1
    BY <1>0, <1>2, <2>1
  <2>3. a[k] = p[i + k - 1] /\ b[k] = q[(m + i) + k - 1]
    BY <1>3, <1>4, <1>5, <2>1
  <2> QED  BY <1>1, <2>2, <2>3
<1>8. a = b
  <2>1. a \in Seq(Symbol) /\ b \in Seq(Symbol)
    BY <1>3, <1>4
  <2> QED  BY <1>6, <1>7, <2>1, SameSequence
<1> QED  BY <1>8 DEF SliceOfRest

\* The slices of n symbols; the first symbol of the i-th, and the last.
Slices(n, size) == (n + size - 1) \div size
FirstAt(i, size) == (i - 1) * size + 1
LastAt(i, size, n) == IF i * size > n THEN n ELSE i * size

\* How many slices: none of nothing, one of at most a batch, one more for each further batch.
LEMMA SlicesAre ==
    ASSUME NEW n \in Nat, NEW size \in Nat \ {0}
    PROVE  /\ Slices(n, size) \in Nat
           /\ n = 0 => Slices(n, size) = 0
           /\ n # 0 => Slices(n, size) # 0
           /\ n # 0 /\ n <= size => Slices(n, size) = 1
           /\ n > size => Slices(n, size) = Slices(n - size, size) + 1
BY DEF Slices

\* A slice is within the selection.
LEMMA SliceIs ==
    ASSUME NEW n \in Nat, NEW size \in Nat \ {0}, NEW i \in 1..Slices(n, size)
    PROVE  /\ FirstAt(i, size) \in Nat \ {0} /\ FirstAt(i, size) <= n
           /\ LastAt(i, size, n) \in Nat /\ LastAt(i, size, n) <= n
<1>1. (i - 1) * size + 1 \in 1..n /\ i * size \in Nat
  BY SliceBounds DEF Slices
<1> QED
  BY <1>1 DEF FirstAt, LastAt

\* Where the first slice begins and ends.
LEMMA FirstSlice ==
    ASSUME NEW n \in Nat, NEW size \in Nat \ {0}
    PROVE  FirstAt(1, size) = 1 /\ LastAt(1, size, n) = IF size > n THEN n ELSE size
<1>1. (1 - 1) * size = 0 /\ 1 * size = size
  OBVIOUS
<1> QED
  BY <1>1 DEF FirstAt, LastAt

\* A slice is the slice before it of what follows the first batch.
LEMMA NextSlice ==
    ASSUME NEW n \in Nat, NEW size \in Nat \ {0}, n > size, NEW i \in Nat \ {0}
    PROVE  /\ FirstAt(i + 1, size) = size + FirstAt(i, size)
           /\ LastAt(i + 1, size, n) = size + LastAt(i, size, n - size)
<1>1. ((i + 1) - 1) * size = (i - 1) * size + size /\ (i + 1) * size = i * size + size
  OBVIOUS
<1> PICK k, l : k = i * size /\ l = (i - 1) * size
  OBVIOUS
<1>2. k \in Int /\ l \in Int
  OBVIOUS
<1>3. /\ FirstAt(i + 1, size) = l + size + 1 /\ FirstAt(i, size) = l + 1
      /\ LastAt(i + 1, size, n) = IF k + size > n THEN n ELSE k + size
      /\ LastAt(i, size, n - size) = IF k > n - size THEN n - size ELSE k
  BY <1>1 DEF FirstAt, LastAt
<1> QED
  BY <1>2, <1>3

\* The batches are the slices.
LEMMA BatchesAre ==
    ASSUME NEW q \in Seq(Symbol), NEW size \in Nat \ {0}
    PROVE  /\ Batches(q, size) \in Seq(Seq(Symbol))
           /\ Len(Batches(q, size)) = Slices(Len(q), size)
           /\ \A i \in 1..Slices(Len(q), size) :
                  Batches(q, size)[i] = SubSeq(q, FirstAt(i, size), LastAt(i, size, Len(q)))
<1> PICK n : n = Len(q)
  OBVIOUS
<1> DEFINE slice(i) == SubSeq(q, FirstAt(i, size), LastAt(i, size, n))
<1>1. n \in Nat /\ Slices(n, size) \in Nat
  BY SlicesAre
<1>2. Batches(q, size) = [i \in 1..Slices(n, size) |-> slice(i)]
  BY Zenon DEF Batches, Slices, FirstAt, LastAt
<1>3. ASSUME NEW i \in 1..Slices(n, size)
      PROVE  slice(i) \in Seq(Symbol)
  <2>1. /\ FirstAt(i, size) \in Nat \ {0} /\ FirstAt(i, size) <= n
        /\ LastAt(i, size, n) \in Nat /\ LastAt(i, size, n) <= n
    BY <1>1, SliceIs
  <2> QED  BY <2>1, SubSeqType
<1> HIDE DEF slice
<1>4. Batches(q, size) \in Seq(Seq(Symbol)) /\ Len(Batches(q, size)) = Slices(n, size)
  BY <1>1, <1>2, <1>3
<1>5. \A i \in 1..Slices(n, size) : Batches(q, size)[i] = slice(i)
  BY <1>2
<1> QED
  BY <1>4, <1>5 DEF slice

\* The first slice, and the slices of the rest.
LEMMA BatchesSplit ==
    ASSUME NEW q \in Seq(Symbol), q # <<>>, NEW size \in Nat \ {0}
    PROVE  \E m \in 1..Len(q) :
               /\ Batches(q, size) # <<>>
               /\ Head(Batches(q, size)) = SubSeq(q, 1, m)
               /\ Len(Head(Batches(q, size))) = m
               /\ Tail(Batches(q, size)) = Batches(SubSeq(q, m + 1, Len(q)), size)
<1> PICK n : n = Len(q)
  OBVIOUS
<1> PICK m : m = LastAt(1, size, n)
  OBVIOUS
<1> PICK b : b = Batches(q, size)
  OBVIOUS
<1>0. n \in Nat /\ n # 0
  OBVIOUS
<1>1. m = (IF size > n THEN n ELSE size) /\ m \in 1..n /\ m \in Nat
  BY <1>0, FirstSlice
<1> PICK count : count = Slices(n, size)
  OBVIOUS
<1>2. count \in Nat /\ count # 0
  BY <1>0, SlicesAre
<1>3. /\ b \in Seq(Seq(Symbol)) /\ Len(b) = count
      /\ \A i \in 1..count : b[i] = SubSeq(q, FirstAt(i, size), LastAt(i, size, n))
  BY BatchesAre
<1>4. b # <<>> /\ Head(b) = b[1]
  BY <1>2, <1>3
<1>5. b[1] = SubSeq(q, 1, m)
  <2>1. 1 \in 1..count /\ FirstAt(1, size) = 1
    BY <1>0, <1>2, FirstSlice
  <2> QED  BY <1>3, <2>1
<1>6. Len(SubSeq(q, 1, m)) = m
  <2>1. Len(SubSeq(q, 1, m)) = IF 1 <= m THEN m - 1 + 1 ELSE 0
    BY <1>1, SubSeqType
  <2> QED  BY <1>1, <2>1
<1> PICK p : p = SubSeq(q, m + 1, n)
  OBVIOUS
<1>7. p \in Seq(Symbol) /\ Len(p) = n - m
  <2>1. p \in Seq(Symbol) /\ Len(p) = IF m + 1 <= n THEN n - (m + 1) + 1 ELSE 0
    BY <1>0, <1>1, SubSeqType
  <2> QED  BY <1>0, <1>1, <2>1
<1> PICK rest : rest = Slices(n - m, size)
  OBVIOUS
<1>8. n - m \in Nat /\ rest \in Nat /\ rest = count - 1 /\ (rest # 0 => n > size /\ m = size)
  <2>1. n - m \in Nat
    BY <1>0, <1>1
  <2>2. CASE n <= size
    <3>1. m = n /\ count = 1 /\ n - m = 0
      <4>1. m = n /\ n - m = 0
        BY <1>0, <1>1, <2>2
      <4>2. count = 1
        BY <1>0, <2>2, SlicesAre
      <4> QED  BY <4>1, <4>2
    <3>2. rest = 0
      BY <2>1, <3>1, SlicesAre
    <3> QED  BY <2>1, <3>1, <3>2
  <2>3. CASE ~(n <= size)
    <3>1. m = size /\ n > size
      BY <1>0, <1>1, <2>3
    <3>2. count = rest + 1 /\ rest \in Nat
      BY <1>0, <2>1, <3>1, SlicesAre
    <3> QED  BY <2>1, <3>1, <3>2
  <2> QED  BY <2>2, <2>3
<1>9. /\ Batches(p, size) \in Seq(Seq(Symbol)) /\ Len(Batches(p, size)) = rest
      /\ \A i \in 1..rest : Batches(p, size)[i] = SubSeq(p, FirstAt(i, size), LastAt(i, size, n - m))
  <2>1. /\ Batches(p, size) \in Seq(Seq(Symbol)) /\ Len(Batches(p, size)) = Slices(Len(p), size)
        /\ \A i \in 1..Slices(Len(p), size) :
               Batches(p, size)[i] = SubSeq(p, FirstAt(i, size), LastAt(i, size, Len(p)))
    BY <1>7, BatchesAre, Zenon
  <2> QED  BY <1>7, <2>1, Zenon
<1>10. Tail(b) \in Seq(Seq(Symbol)) /\ Len(Tail(b)) = rest /\ \A i \in 1..rest : Tail(b)[i] = b[i + 1]
  BY <1>2, <1>3, <1>4, <1>8
<1>11. ASSUME NEW i \in 1..rest PROVE Tail(b)[i] = Batches(p, size)[i]
  <2>1. m = size /\ n > size /\ i \in Nat \ {0} /\ i + 1 \in 1..count
    BY <1>2, <1>8
  <2> PICK lo, hi : lo = FirstAt(i, size) /\ hi = LastAt(i, size, n - m)
    OBVIOUS
  <2>2. lo \in Nat \ {0} /\ hi \in Nat /\ hi <= n - m
    BY <1>8, SliceIs
  <2>3. m + hi <= n
    BY <1>0, <1>1, <2>2
  <2>4. SubSeq(p, lo, hi) = SubSeq(q, m + lo, m + hi)
    <3>1. m <= Len(q) /\ hi <= Len(q) - m
      BY <1>0, <1>1, <2>2
    <3>2. SliceOfRest(q, m, lo, hi)
      BY <1>1, <2>2, <3>1, SubOfSub
    <3> QED  BY <3>2 DEF SliceOfRest
  <2>5. FirstAt(i + 1, size) = m + lo /\ LastAt(i + 1, size, n) = m + hi
    BY <1>0, <2>1, NextSlice
  <2>7. b[i + 1] = SubSeq(q, m + lo, m + hi)
    BY <1>3, <2>1, <2>5
  <2> QED  BY <1>9, <1>10, <2>4, <2>7
<1>12. Tail(b) = Batches(p, size)
  <2> PICK u, v : u = Tail(b) /\ v = Batches(p, size)
    OBVIOUS
  <2>1. u \in Seq(Seq(Symbol)) /\ v \in Seq(Seq(Symbol)) /\ Len(u) = Len(v)
    BY <1>9, <1>10
  <2>2. \A i \in 1..Len(u) : u[i] = v[i]
    BY <1>10, <1>11
  <2>4. u = v
    BY <2>1, <2>2, SameSequence
  <2> QED  BY <2>4
<1> QED
  BY <1>1, <1>4, <1>5, <1>6, <1>12

-----------------------------------------------------------------------------
(* What a provider answers. *)

LEMMA Divided ==
    ASSUME NEW a \in Nat, NEW c \in Nat \ {0}, a % c = 0
    PROVE  a \div c \in Nat /\ (a \div c) * c = a
OBVIOUS

\* A row's bar: typed, of the row's symbol and day, and what the row says, whichever the provider.
LEMMA BarOfRow ==
    ASSUME NEW by \in Provider, NEW s \in Symbol, NEW r \in Row, Complete(by, r),
           Answerable(by, r), DayOf(r.at) \in Date
    PROVE  /\ BarOf(by, s, r) \in StockPrice
           /\ BarOf(by, s, r).symbol = s
           /\ OfRow(BarOf(by, s, r), by, r)
<1> DEFINE b == BarOf(by, s, r)
<1>0. /\ r.open \in Field /\ r.close \in Field /\ r.adjOpen \in Field /\ r.adjClose \in Field
      /\ None \notin Nat /\ Missing \notin Nat /\ Missing # None
  BY ImportAssumption DEF ImportAssumption, Row
<1>1. ASSUME NEW open \in Price, NEW close \in Price, b = Bar(s, r, open, close)
      PROVE  b \in StockPrice /\ b.symbol = s /\ b.date = DayOf(r.at) /\ b.open = open /\ b.close = close
  <2> HIDE DEF b
  <2> QED  BY <1>1 DEF Bar, StockPrice
<1>2. CASE by = "alpaca"
  <2>1. b = Bar(s, r, r.open, r.close)
    BY <1>2 DEF BarOf, AlpacaBar
  <2>2. r.open \in Price /\ r.close \in Price
    BY <1>2 DEF Answerable, Price
  <2> HIDE DEF b
  <2>3. b \in StockPrice /\ b.symbol = s /\ b.date = DayOf(r.at) /\ b.open = r.open /\ b.close = r.close
    BY <1>1, <2>1, <2>2
  <2>4. OfRow(b, by, r)
    BY <1>2, <2>3 DEF OfRow
  <2> QED  BY <2>3, <2>4 DEF b
<1>3. CASE by = "tiingo"
  <2> PICK o, c : o = OrElse(r.adjOpen, r.open) /\ c = OrElse(r.adjClose, r.close)
    OBVIOUS
  <2>1. b = Bar(s, r, o, c)
    BY <1>3 DEF BarOf, TiingoBar
  <2>2. o # Missing /\ c # Missing
    BY <1>3 DEF Complete, Malformed
  <2>3. o \in Price /\ c \in Price
    BY <1>0, <2>2 DEF OrElse, Field, Price
  <2>4. \/ o = r.adjOpen /\ c = r.adjClose
        \/ /\ {r.adjOpen, r.adjClose} \cap {None, Missing} # {}
           /\ o \in {r.open, r.adjOpen} /\ c \in {r.close, r.adjClose}
    BY DEF OrElse
  <2> HIDE DEF b
  <2>5. b \in StockPrice /\ b.symbol = s /\ b.date = DayOf(r.at) /\ b.open = o /\ b.close = c
    BY <1>1, <2>1, <2>3
  <2>6. OfRow(b, by, r)
    BY <1>3, <2>4, <2>5 DEF OfRow
  <2> QED  BY <2>5, <2>6 DEF b
<1>4. CASE by = "yahoo"
  <2>0. r.open \in Nat /\ r.close \in Nat /\ r.adjClose \in Price
    BY <1>4 DEF Complete, Padding, Answerable, Price
  <2>1. CASE r.adjClose # None /\ r.close # 0
    <3> PICK o, c : o = (r.open * r.adjClose) \div r.close /\ c = r.adjClose
      OBVIOUS
    <3>1. b = Bar(s, r, o, c)
      BY <1>4, <2>1 DEF BarOf, YahooBar
    <3>2. c \in Nat
      BY <2>0, <2>1 DEF Price
    <3>3. (r.open * r.adjClose) % r.close = 0
      BY <1>4, <2>1 DEF Answerable, Divides, Complete
    <3>4. r.open * r.adjClose \in Nat
      BY <2>0, <3>2
    <3>5. o \in Nat /\ o * r.close = r.open * r.adjClose
      BY <2>0, <2>1, <3>3, <3>4, Divided
    <3>6. r.open * r.adjClose = c * r.open
      BY <2>0, <3>2
    <3>7. o \in Price /\ c \in Price
      BY <3>2, <3>5 DEF Price
    <3> HIDE DEF b
    <3>8. b \in StockPrice /\ b.symbol = s /\ b.date = DayOf(r.at) /\ b.open = o /\ b.close = c
      BY <1>1, <3>1, <3>7
    <3>9. b.open * r.close = b.close * r.open /\ b.close = r.adjClose
      BY <3>5, <3>6, <3>8
    <3>10. OfRow(b, by, r)
      BY <1>4, <2>1, <3>8, <3>9, Zenon DEF OfRow
    <3> QED  BY <3>8, <3>10 DEF b
  <2>2. CASE ~(r.adjClose # None /\ r.close # 0)
    <3>1. b = Bar(s, r, r.open, r.close)
      BY <1>4, <2>2 DEF BarOf, YahooBar
    <3>2. r.open \in Price /\ r.close \in Price
      BY <2>0 DEF Price
    <3> HIDE DEF b
    <3>3. b \in StockPrice /\ b.symbol = s /\ b.date = DayOf(r.at) /\ b.open = r.open /\ b.close = r.close
      BY <1>1, <3>1, <3>2
    <3>4. b.open * r.close = b.close * r.open
      BY <2>0, <3>3
    <3>5. OfRow(b, by, r)
      BY <1>4, <2>2, <3>3, <3>4 DEF OfRow
    <3> QED  BY <3>3, <3>5 DEF b
  <2> QED  BY <2>1, <2>2
<1> QED  BY <1>2, <1>3, <1>4 DEF Provider

\* A time in the window is on a day of it, and the other way round.
THEOREM WindowDays ==
    ASSUME NEW by \in Provider, NEW hour \in Int, NEW from \in Int, NEW to \in Int
    PROVE  InWindow(by, hour, from, to) <=> DayOf(hour) \in from..to
<1>1. by \in {"alpaca", "tiingo", "yahoo"}
  BY DEF Provider
<1> PICK d : d = DayOf(hour)
  OBVIOUS
<1>2. d \in Int /\ 24 * d <= hour /\ hour < 24 * d + 24
  BY DEF DayOf
<1>3. hour >= 24 * from <=> d >= from
  BY <1>2
<1>4. InWindow(by, hour, from, to) <=> d >= from /\ d <= to
  <2>1. CASE by = "yahoo"
    BY <1>2, <1>3, <2>1 DEF InWindow
  <2>2. CASE by = "alpaca"
    BY <1>2, <1>3, <2>2 DEF InWindow
  <2>3. CASE by = "tiingo"
    BY <1>2, <1>3, <2>3 DEF InWindow
  <2> QED  BY <1>1, <2>1, <2>2, <2>3
<1> QED  BY <1>2, <1>4

ReadsWell(by, s, from, to, day) ==
    LET rows == Published(by, s, day) IN
    rows # Unknown => \A k \in DOMAIN rows : ~(InWindow(by, rows[k].at, from, to) /\ Malformed(by, rows[k]))

\* The bars of a symbol: well typed, of the provider's answer, one for each day it has.
LEMMA PricesOfSymbol ==
    ASSUME NEW by \in Provider, NEW s \in Symbol, NEW day \in Date,
           NEW from \in Int, NEW to \in Int, from..to \subseteq Date,
           ReadsWell(by, s, from, to, day)
    PROVE  /\ GetPrices(by, s, from, to, day) \in Seq(StockPrice)
           /\ \A b \in ToSet(GetPrices(by, s, from, to, day)) : b.symbol = s /\ FromAnswer(b, by, day)
           /\ \A d \in Dated(by, s, day) \cap from..to :
                  \E b \in ToSet(GetPrices(by, s, from, to, day)) : b.symbol = s /\ b.date = d
<1> PICK rows : rows = Published(by, s, day)
  OBVIOUS
<1>1. CASE rows = Unknown
  <2>1. GetPrices(by, s, from, to, day) = <<>>
    BY <1>1 DEF GetPrices
  <2>2. Dated(by, s, day) = {}
    BY <1>1 DEF Dated
  <2>3. ToSet(<<>>) = {}
    BY DEF ToSet
  <2> QED  BY <2>1, <2>2, <2>3
<1>2. CASE rows # Unknown
  <2> DEFINE part(i) == BarsOf(by, s, rows[i], from, to)
             parts == [i \in DOMAIN rows |-> part(i)]
  <2>1. /\ rows \in Seq(Row)
        /\ \A i \in DOMAIN rows : Answerable(by, rows[i])
    BY <1>2, FeedAssumption DEF FeedAssumption
  <2>1a. \A i \in DOMAIN rows : rows[i] \in Row
    BY <2>1
  <2>1b. \A r \in Row : r.at \in Int
    BY DEF Row
  <2>2. GetPrices(by, s, from, to, day) = FlattenSeq(parts)
    BY <1>2, Zenon DEF GetPrices
  <2>3. ASSUME NEW i \in DOMAIN rows, DayOf(rows[i].at) \in from..to, ~Padding(by, rows[i])
        PROVE  /\ part(i) = <<BarOf(by, s, rows[i])>> /\ Complete(by, rows[i])
               /\ BarOf(by, s, rows[i]) \in StockPrice
               /\ BarOf(by, s, rows[i]).symbol = s
               /\ BarOf(by, s, rows[i]).date = DayOf(rows[i].at)
               /\ FromAnswer(BarOf(by, s, rows[i]), by, day)
    <3> PICK r : r = rows[i]
      OBVIOUS
    <3>1. r \in Row /\ r.at \in Int
      BY <2>1a, <2>1b
    <3>2. InWindow(by, r.at, from, to)
      BY <2>3, <3>1, WindowDays
    <3>3. Complete(by, r)
      BY <1>2, <2>3, <3>2 DEF ReadsWell, Complete
    <3>4. Answerable(by, r)
      BY <2>1
    <3>5. DayOf(r.at) \in Date
      BY <2>3
    <3> PICK b : b = BarOf(by, s, r)
      OBVIOUS
    <3>6. b \in StockPrice /\ b.symbol = s /\ OfRow(b, by, r)
      BY <3>1, <3>3, <3>4, <3>5, BarOfRow
    <3>7. r \in ToSet(rows)
      BY DEF ToSet
    <3>8. FromAnswer(b, by, day) /\ b.date = DayOf(r.at)
      BY <1>2, <3>6, <3>7 DEF FromAnswer, OfRow
    <3>9. part(i) = <<b>>
      BY <2>3, <3>2 DEF BarsOf
    <3> QED  BY <3>3, <3>6, <3>8, <3>9
  <2>4. ASSUME NEW i \in DOMAIN rows, ~(DayOf(rows[i].at) \in from..to /\ ~Padding(by, rows[i]))
        PROVE  part(i) = <<>>
    <3>1. rows[i].at \in Int
      BY <2>1a, <2>1b
    <3>2. ~(InWindow(by, rows[i].at, from, to) /\ ~Padding(by, rows[i]))
      BY <2>4, <3>1, WindowDays
    <3> QED  BY <3>2 DEF BarsOf
  <2> HIDE DEF part
  <2>5. \A i \in DOMAIN rows : part(i) \in Seq(StockPrice)
    <3>1. \A b \in StockPrice : <<b>> \in Seq(StockPrice)
      OBVIOUS
    <3>2. <<>> \in Seq(StockPrice)
      OBVIOUS
    <3> QED  BY <2>3, <2>4, <3>1, <3>2
  <2>6. parts \in Seq(Seq(StockPrice)) /\ DOMAIN parts = DOMAIN rows /\ \A i \in DOMAIN rows : parts[i] = part(i)
    BY <2>1, <2>5
  <2> HIDE DEF parts
  <2> PICK got : got = FlattenSeq(parts)
    OBVIOUS
  <2>7. /\ got \in Seq(StockPrice)
        /\ \A x \in ToSet(got) : \E i \in DOMAIN rows : x \in ToSet(part(i))
        /\ \A i \in DOMAIN rows : ToSet(part(i)) \subseteq ToSet(got)
    BY <2>6, Flattened
  <2>8. \A x : ToSet(<<x>>) = {x}
    BY DEF ToSet
  <2>9. ToSet(<<>>) = {}
    BY DEF ToSet
  <2>10. ASSUME NEW b \in ToSet(got) PROVE b.symbol = s /\ FromAnswer(b, by, day)
    <3>1. PICK i \in DOMAIN rows : b \in ToSet(part(i))
      BY <2>7
    <3>2. DayOf(rows[i].at) \in from..to /\ ~Padding(by, rows[i])
      BY <2>4, <2>9, <3>1
    <3>3. b = BarOf(by, s, rows[i])
      BY <2>3, <2>8, <3>1, <3>2
    <3> QED  BY <2>3, <3>2, <3>3
  <2>11. ASSUME NEW d \in Dated(by, s, day) \cap from..to
         PROVE  \E b \in ToSet(got) : b.symbol = s /\ b.date = d
    <3>1. d \in {DayOf(rows[i].at) : i \in {k \in DOMAIN rows : Complete(by, rows[k])}}
      BY <1>2, Zenon DEF Dated
    <3>2. PICK i \in DOMAIN rows : Complete(by, rows[i]) /\ d = DayOf(rows[i].at)
      BY <3>1
    <3>3. DayOf(rows[i].at) \in from..to /\ ~Padding(by, rows[i])
      BY <3>2 DEF Complete
    <3>4. part(i) = <<BarOf(by, s, rows[i])>>
      BY <2>3, <3>3
    <3>5. BarOf(by, s, rows[i]) \in ToSet(got)
      BY <2>7, <2>8, <3>4
    <3> QED  BY <2>3, <3>2, <3>3, <3>5
  <2> QED  BY <2>2, <2>7, <2>10, <2>11
<1> QED  BY <1>1, <1>2


-----------------------------------------------------------------------------
(* The invariant. *)

Working == {"fetching", "storing"}

\* A run at work has a batch, one that answered has none left.
AtWork ==
    \A r \in Run :
        /\ phase[r] \in Working => todo[r] # <<>>
        /\ phase[r] = "success" => todo[r] = <<>>

\* The window of a run and the day it began.
RequestOK ==
    \A r \in Run :
        phase[r] \in Working \cup {"success"} =>
            /\ request[r].from \in Date /\ request[r].to \in Date
            /\ request[r].on \in Date /\ request[r].on <= today

IInv == TypeOK /\ AtWork /\ RequestOK /\ ProgressAddsUp

-----------------------------------------------------------------------------
(* Progress. *)

\* The first d symbols are done, and t is the slices of the others.
Progress(symbols, d, t) ==
    /\ d <= Len(symbols)
    /\ t = Batches(SubSeq(symbols, d + 1, Len(symbols)), BatchSize)

\* The property, run by run.
LEMMA ProgressIs ==
    ProgressAddsUp <=> \A r \in Run : Progress(request[r].symbols, done[r], todo[r])
BY DEF ProgressAddsUp, Progress, Rest

\* No symbols, no batches.
LEMMA NoSlices ==
    ASSUME NEW symbols \in Seq(Symbol), Len(symbols) = 0
    PROVE  Batches(symbols, BatchSize) = <<>>
<1>1. BatchSize \in Nat \ {0}
  BY ImportAssumption DEF ImportAssumption
<1>2. Slices(0, BatchSize) = 0
  BY <1>1, SlicesAre
<1>3. Batches(symbols, BatchSize) \in Seq(Seq(Symbol)) /\ Len(Batches(symbols, BatchSize)) = 0
  BY <1>1, <1>2, BatchesAre
<1> QED  BY <1>3

\* A run begins with the slices of its whole selection.
LEMMA ProgressStarts ==
    ASSUME NEW symbols \in Seq(Symbol)
    PROVE  /\ Progress(symbols, 0, Batches(symbols, BatchSize))
           /\ Batches(symbols, BatchSize) \in Seq(Seq(Symbol))
           /\ symbols # <<>> => Batches(symbols, BatchSize) # <<>>
           /\ symbols = <<>> => Batches(symbols, BatchSize) = <<>>
<1>1. BatchSize \in Nat \ {0}
  BY ImportAssumption DEF ImportAssumption
<1>2. SubSeq(symbols, 1, Len(symbols)) = symbols
  OBVIOUS
<1>3. Batches(symbols, BatchSize) \in Seq(Seq(Symbol))
  BY <1>1, BatchesAre
<1>4. symbols # <<>> => Batches(symbols, BatchSize) # <<>>
  BY <1>1, BatchesSplit
<1>5. symbols = <<>> => Batches(symbols, BatchSize) = <<>>
  BY NoSlices
<1>6. 0 <= Len(symbols) /\ 0 + 1 = 1
  OBVIOUS
<1> QED  BY <1>2, <1>3, <1>4, <1>5, <1>6 DEF Progress

\* Nothing has no length.
LEMMA EmptyLen == Len(<<>>) = 0
OBVIOUS

\* A batch done leaves the slices of the rest, and takes no symbol but its own.
LEMMA ProgressGoesOn ==
    ASSUME NEW symbols \in Seq(Symbol), NEW d \in Nat, NEW t, t # <<>>, Progress(symbols, d, t)
    PROVE  /\ t \in Seq(Seq(Symbol)) /\ t[1] \in Seq(Symbol) /\ Len(t[1]) \in Nat
           /\ Progress(symbols, d + Len(t[1]), Tail(t))
           /\ \A s \in ToSet(SubSeq(symbols, d + 1, Len(symbols))) :
                  \/ s \in ToSet(t[1])
                  \/ s \in ToSet(SubSeq(symbols, d + Len(t[1]) + 1, Len(symbols)))
<1> PICK n : n = Len(symbols)
  OBVIOUS
<1> PICK q : q = SubSeq(symbols, d + 1, n)
  OBVIOUS
<1>1. BatchSize \in Nat \ {0} /\ n \in Nat /\ d <= n /\ d + 1 \in Nat \ {0}
  BY ImportAssumption DEF ImportAssumption, Progress
<1>2. q \in Seq(Symbol) /\ Len(q) = n - d
  <2>1. q \in Seq(Symbol) /\ Len(q) = IF d + 1 <= n THEN n - (d + 1) + 1 ELSE 0
    BY <1>1, SubSeqType
  <2> QED  BY <1>1, <2>1
<1>3. t = Batches(q, BatchSize)
  BY DEF Progress
<1>4. q # <<>>
  <2> SUFFICES ASSUME q = <<>> PROVE FALSE
    OBVIOUS
  <2>1. Len(q) = 0
    BY EmptyLen
  <2> QED  BY <1>2, <1>3, <2>1, NoSlices
<1>5. PICK m \in 1..Len(q) : /\ Head(t) = SubSeq(q, 1, m) /\ Len(Head(t)) = m
                             /\ Tail(t) = Batches(SubSeq(q, m + 1, Len(q)), BatchSize)
  BY <1>1, <1>2, <1>3, <1>4, BatchesSplit
<1>6. t \in Seq(Seq(Symbol))
  BY <1>1, <1>2, <1>3, BatchesAre
<1>7. Head(t) = t[1] /\ t[1] \in Seq(Symbol)
  <2>1. Len(t) \in Nat /\ Len(t) # 0
    BY <1>6
  <2> QED  BY <1>6, <2>1
<1>8. m \in Nat /\ m <= n - d /\ m >= 1
  BY <1>1, <1>2, <1>5
<1>9. SubSeq(q, m + 1, Len(q)) = SubSeq(symbols, d + m + 1, n)
  <2>1. m + 1 \in Nat \ {0} /\ n - d \in Nat /\ d <= Len(symbols) /\ n - d <= Len(symbols) - d
    BY <1>1, <1>8
  <2>2. SliceOfRest(symbols, d, m + 1, n - d)
    BY <1>1, <2>1, SubOfSub
  <2>3. d + (m + 1) = d + m + 1 /\ d + (n - d) = n
    BY <1>1, <1>8
  <2> QED  BY <1>2, <2>2, <2>3 DEF SliceOfRest
<1>10. Progress(symbols, d + m, Tail(t))
  <2>1. d + m <= n
    BY <1>1, <1>8
  <2> QED  BY <1>5, <1>9, <2>1 DEF Progress
<1>11. ASSUME NEW s \in ToSet(q)
       PROVE  s \in ToSet(t[1]) \/ s \in ToSet(SubSeq(q, m + 1, Len(q)))
  <2>1. PICK i \in 1..Len(q) : s = q[i]
    <3>1. DOMAIN q = 1..Len(q)
      BY <1>2
    <3> QED  BY <3>1 DEF ToSet
  <2>2. CASE i <= m
    <3>1. i \in 1..m /\ 1..(m - 1 + 1) = 1..m /\ m <= Len(q) /\ 1 \in Nat \ {0}
      BY <1>2, <1>8, <2>2
    <3>2. \A k \in 1..(m - 1 + 1) : SubSeq(q, 1, m)[k] = q[1 + k - 1]
      BY <1>2, <1>8, <3>1, SubSeqType
    <3>3. 1 + i - 1 = i
      OBVIOUS
    <3>4. t[1][i] = s
      BY <1>5, <1>7, <2>1, <3>1, <3>2, <3>3
    <3>5. i \in DOMAIN t[1]
      BY <1>5, <1>7, <3>1
    <3> QED  BY <3>4, <3>5 DEF ToSet
  <2>3. CASE ~(i <= m)
    <3> PICK p, k : p = SubSeq(q, m + 1, Len(q)) /\ k = i - m
      OBVIOUS
    <3>1. m + 1 \in Nat \ {0} /\ Len(q) \in Nat /\ Len(q) <= Len(q)
      BY <1>2, <1>8
    <3>2. /\ p \in Seq(Symbol) /\ Len(p) = IF m + 1 <= Len(q) THEN Len(q) - (m + 1) + 1 ELSE 0
          /\ \A j \in 1..(Len(q) - (m + 1) + 1) : p[j] = q[(m + 1) + j - 1]
      BY <1>2, <3>1, SubSeqType
    <3>3. k \in 1..(Len(q) - (m + 1) + 1) /\ (m + 1) + k - 1 = i /\ m + 1 <= Len(q)
      BY <1>8, <2>3, <3>1
    <3>4. p[k] = s
      BY <2>1, <3>2, <3>3
    <3>5. k \in DOMAIN p
      BY <3>2, <3>3
    <3> QED  BY <3>4, <3>5 DEF ToSet
  <2> QED  BY <2>2, <2>3
<1> QED
  BY <1>5, <1>6, <1>7, <1>8, <1>9, <1>10, <1>11

\* No batch left, no symbol left.
LEMMA ProgressEnds ==
    ASSUME NEW symbols \in Seq(Symbol), NEW d \in Nat, Progress(symbols, d, <<>>)
    PROVE  d = Len(symbols) /\ ToSet(SubSeq(symbols, d + 1, Len(symbols))) = {}
<1> PICK n : n = Len(symbols)
  OBVIOUS
<1> PICK q : q = SubSeq(symbols, d + 1, n)
  OBVIOUS
<1>1. BatchSize \in Nat \ {0} /\ n \in Nat /\ d <= n /\ d + 1 \in Nat \ {0}
  BY ImportAssumption DEF ImportAssumption, Progress
<1>2. q \in Seq(Symbol) /\ Len(q) = n - d
  <2>1. q \in Seq(Symbol) /\ Len(q) = IF d + 1 <= n THEN n - (d + 1) + 1 ELSE 0
    BY <1>1, SubSeqType
  <2> QED  BY <1>1, <2>1
<1>3. q = <<>>
  <2>1. Batches(q, BatchSize) = <<>>
    BY DEF Progress
  <2> QED  BY <1>1, <1>2, <2>1, BatchesSplit
<1>4. ToSet(q) = {}
  BY <1>3 DEF ToSet
<1>5. Len(q) = 0
  BY <1>3, EmptyLen
<1> QED  BY <1>1, <1>2, <1>4, <1>5

-----------------------------------------------------------------------------
(* What a fetch brings. *)

\* A batch's bars: typed, of its symbols, from the answer, and one for each day of the window it has of each symbol.
LEMMA FetchedIs ==
    ASSUME IInv, NEW r \in Run, phase[r] = "fetching",
           ~Refuses(request[r].by, todo[r][1], request[r].from, request[r].to, today)
    PROVE  /\ Fetched(r) \in Seq(StockPrice)
           /\ \A b \in ToSet(Fetched(r)) : b.symbol \in ToSet(todo[r][1]) /\ FromAnswer(b, request[r].by, today)
           /\ \A s \in ToSet(todo[r][1]) : \A d \in Dated(request[r].by, s, today) :
                  d \in request[r].from .. request[r].to =>
                      \E b \in ToSet(Fetched(r)) : b.symbol = s /\ b.date = d
<1> PICK by, from, to, q : by = request[r].by /\ from = request[r].from /\ to = request[r].to /\ q = todo[r][1]
  OBVIOUS
<1>1. by \in Provider /\ from \in Int /\ to \in Int /\ today \in Date /\ request[r].symbols \in Seq(Symbol)
      /\ done[r] \in Nat
  BY DEF IInv, TypeOK
<1>2. from..to \subseteq Date
  <2>1. from \in Date /\ to \in Date
    BY DEF IInv, RequestOK, Working
  <2> QED  BY <2>1, ImportAssumption DEF ImportAssumption
<1>3. q \in Seq(Symbol)
  <2>1. todo[r] # <<>>
    BY DEF IInv, AtWork, Working
  <2>2. Progress(request[r].symbols, done[r], todo[r])
    BY ProgressIs DEF IInv
  <2> QED  BY <1>1, <2>1, <2>2, ProgressGoesOn
<1> DEFINE part(i) == GetPrices(by, q[i], from, to, today)
           parts == [i \in DOMAIN q |-> part(i)]
<1>4. \A i \in DOMAIN q : q[i] \in Symbol
  BY <1>3
<1>5. ASSUME NEW i \in DOMAIN q
      PROVE  /\ part(i) \in Seq(StockPrice)
             /\ \A b \in ToSet(part(i)) : b.symbol = q[i] /\ FromAnswer(b, by, today)
             /\ \A d \in Dated(by, q[i], today) \cap from..to :
                    \E b \in ToSet(part(i)) : b.symbol = q[i] /\ b.date = d
  <2>1. ReadsWell(by, q[i], from, to, today)
    BY DEF ReadsWell, Refuses
  <2> HIDE DEF part
  <2> QED  BY <1>1, <1>2, <1>4, <2>1, PricesOfSymbol DEF part
<1> HIDE DEF part
<1>6. parts \in Seq(Seq(StockPrice)) /\ DOMAIN parts = DOMAIN q /\ \A i \in DOMAIN q : parts[i] = part(i)
  <2>1. \A i \in DOMAIN q : part(i) \in Seq(StockPrice)
    BY <1>5
  <2>2. DOMAIN q = 1..Len(q) /\ Len(q) \in Nat
    BY <1>3
  <2>3. parts \in Seq(Seq(StockPrice))
    BY <2>1, <2>2
  <2> QED  BY <2>3
<1>7. Fetched(r) = FlattenSeq(parts)
  BY Zenon DEF Fetched, part
<1> HIDE DEF parts
<1>8. /\ Fetched(r) \in Seq(StockPrice)
      /\ \A x \in ToSet(Fetched(r)) : \E i \in DOMAIN q : x \in ToSet(part(i))
      /\ \A i \in DOMAIN q : ToSet(part(i)) \subseteq ToSet(Fetched(r))
  BY <1>6, <1>7, Flattened
<1>9. \A b \in ToSet(Fetched(r)) : b.symbol \in ToSet(q) /\ FromAnswer(b, by, today)
  <2>1. \A i \in DOMAIN q : q[i] \in ToSet(q)
    BY DEF ToSet
  <2> QED  BY <1>5, <1>8, <2>1
<1>10. ASSUME NEW s \in ToSet(q), NEW d \in Dated(by, s, today), d \in from..to
       PROVE  \E b \in ToSet(Fetched(r)) : b.symbol = s /\ b.date = d
  <2>1. PICK i \in DOMAIN q : s = q[i]
    BY DEF ToSet
  <2> QED  BY <1>5, <1>8, <1>10, <2>1
<1> QED
  BY <1>8, <1>9, <1>10

-----------------------------------------------------------------------------
(* The invariant is inductive. *)

\* A sequence's head and tail.
LEMMA TailOf ==
    ASSUME NEW S, NEW t \in Seq(S), t # <<>>
    PROVE  /\ Head(t) \in S /\ Head(t) = t[1] /\ Tail(t) \in Seq(S)
           /\ Len(t) = 1 <=> Tail(t) = <<>>
           /\ \A x \in ToSet(t) : x = Head(t) \/ x \in ToSet(Tail(t))
           /\ Head(t) \in ToSet(t) /\ ToSet(Tail(t)) \subseteq ToSet(t)
<1>1. Len(t) \in Nat /\ Len(t) # 0 /\ DOMAIN t = 1..Len(t)
  OBVIOUS
<1>2. Head(t) = t[1] /\ t[1] \in S /\ Tail(t) \in Seq(S)
  BY <1>1
<1>3. Len(Tail(t)) = Len(t) - 1 /\ \A i \in 1..(Len(t) - 1) : Tail(t)[i] = t[i + 1]
  BY <1>1
<1>4. Len(t) = 1 <=> Tail(t) = <<>>
  <2> PICK u : u = Tail(t)
    OBVIOUS
  <2>1. u \in Seq(S) /\ Len(u) = Len(t) - 1
    BY <1>2, <1>3
  <2>2. Len(u) = 0 => u = <<>>
    BY <2>1
  <2>3. u = <<>> => Len(u) = 0
    BY EmptyLen
  <2> QED  BY <1>1, <2>1, <2>2, <2>3
<1>5. ASSUME NEW x \in ToSet(t) PROVE x = Head(t) \/ x \in ToSet(Tail(t))
  <2>1. PICK i \in 1..Len(t) : x = t[i]
    BY <1>1 DEF ToSet
  <2>2. CASE i = 1
    BY <1>2, <2>1, <2>2
  <2>3. CASE i # 1
    <3>1. i - 1 \in 1..(Len(t) - 1) /\ (i - 1) + 1 = i
      BY <1>1, <2>3
    <3>2. Tail(t)[i - 1] = x /\ i - 1 \in DOMAIN Tail(t)
      BY <1>2, <1>3, <2>1, <3>1
    <3> QED  BY <3>2 DEF ToSet
  <2> QED  BY <2>2, <2>3
<1>6. Head(t) \in ToSet(t)
  BY <1>1, <1>2 DEF ToSet
<1>7. ASSUME NEW x \in ToSet(Tail(t)) PROVE x \in ToSet(t)
  <2>1. DOMAIN Tail(t) = 1..(Len(t) - 1)
    BY <1>2, <1>3
  <2>2. PICK i \in 1..(Len(t) - 1) : x = Tail(t)[i]
    BY <2>1 DEF ToSet
  <2>3. i + 1 \in 1..Len(t) /\ x = t[i + 1]
    BY <1>1, <1>3, <2>2
  <2> QED  BY <1>1, <2>3 DEF ToSet
<1> QED
  BY <1>2, <1>4, <1>5, <1>6, <1>7

\* Going on to the next batch keeps the invariant.
LEMMA Moves ==
    ASSUME IInv, NEW r \in Run, phase[r] \in Working, NextBatch(r), UNCHANGED <<today, request>>
    PROVE  /\ phase' \in [Run -> Ended \cup {"fetching", "storing"}]
           /\ todo' \in [Run -> Seq(Seq(Symbol))]
           /\ attempt' \in [Run -> 0..(MaxAttempts - 1)]
           /\ done' \in [Run -> Nat]
           /\ AtWork' /\ RequestOK' /\ ProgressAddsUp'
<1> PICK syms, d, t : syms = request[r].symbols /\ d = done[r] /\ t = todo[r]
  OBVIOUS
<1>1. /\ t # <<>> /\ syms \in Seq(Symbol) /\ d \in Nat /\ t \in Seq(Seq(Symbol))
      /\ Progress(syms, d, t)
  BY ProgressIs DEF IInv, TypeOK, AtWork
<1>2. Len(t[1]) \in Nat /\ Progress(syms, d + Len(t[1]), Tail(t))
  BY <1>1, ProgressGoesOn
<1>3. Tail(t) \in Seq(Seq(Symbol)) /\ (Len(t) = 1 <=> Tail(t) = <<>>)
  BY <1>1, TailOf
<1>4. /\ todo' = [todo EXCEPT ![r] = Tail(t)]
      /\ attempt' = [attempt EXCEPT ![r] = 0]
      /\ done' = [done EXCEPT ![r] = d + Len(t[1])]
      /\ phase' = [phase EXCEPT ![r] = IF Len(t) = 1 THEN "success" ELSE "fetching"]
  BY DEF NextBatch
<1>5. /\ phase \in [Run -> Ended \cup {"fetching", "storing"}] /\ todo \in [Run -> Seq(Seq(Symbol))]
      /\ attempt \in [Run -> 0..(MaxAttempts - 1)] /\ done \in [Run -> Nat]
  BY DEF IInv, TypeOK
<1>6. 0 \in 0..(MaxAttempts - 1)
  BY ImportAssumption DEF ImportAssumption
<1>7. /\ phase' \in [Run -> Ended \cup {"fetching", "storing"}] /\ todo' \in [Run -> Seq(Seq(Symbol))]
      /\ attempt' \in [Run -> 0..(MaxAttempts - 1)] /\ done' \in [Run -> Nat]
  <2>1. phase' \in [Run -> Ended \cup {"fetching", "storing"}]
    BY <1>4, <1>5 DEF Ended
  <2>2. todo' \in [Run -> Seq(Seq(Symbol))]
    BY <1>3, <1>4, <1>5
  <2>3. attempt' \in [Run -> 0..(MaxAttempts - 1)]
    BY <1>4, <1>5, <1>6
  <2>4. done' \in [Run -> Nat]
    BY <1>1, <1>2, <1>4, <1>5
  <2> QED  BY <2>1, <2>2, <2>3, <2>4
<1>8. /\ todo'[r] = Tail(t) /\ done'[r] = d + Len(t[1])
      /\ phase'[r] = IF Len(t) = 1 THEN "success" ELSE "fetching"
      /\ \A q \in Run \ {r} : todo'[q] = todo[q] /\ done'[q] = done[q] /\ phase'[q] = phase[q]
  BY <1>4, <1>5
<1>9. AtWork'
  <2> SUFFICES ASSUME NEW q \in Run
               PROVE  /\ phase'[q] \in Working => todo'[q] # <<>>
                      /\ phase'[q] = "success" => todo'[q] = <<>>
    BY DEF AtWork
  <2>1. CASE q = r
    BY <1>3, <1>8, <2>1 DEF Working
  <2>2. CASE q # r
    BY <1>8, <2>2 DEF IInv, AtWork
  <2> QED  BY <2>1, <2>2
<1>10. RequestOK'
  BY <1>8 DEF IInv, RequestOK
<1>11. ProgressAddsUp'
  <2> SUFFICES ASSUME NEW q \in Run
               PROVE  Progress(request'[q].symbols, done'[q], todo'[q])
    BY DEF ProgressAddsUp, Progress, Rest
  <2>1. CASE q = r
    BY <1>2, <1>8, <2>1
  <2>2. CASE q # r
    BY <1>8, <2>2, ProgressIs DEF IInv
  <2> QED  BY <2>1, <2>2
<1> QED
  BY <1>7, <1>9, <1>10, <1>11

\* So does abandoning a run.
LEMMA Quits ==
    ASSUME IInv, NEW r \in Run, NEW how \in {"raised", "killed"}, Abandon(r, how)
    PROVE  IInv'
<1>1. \A q \in Run \ {r} : /\ phase'[q] = phase[q] /\ todo'[q] = todo[q]
                           /\ request'[q] = request[q] /\ done'[q] = done[q]
  BY DEF IInv, TypeOK, Abandon
<1>2. phase'[r] = how /\ todo'[r] = <<>> /\ request'[r] = NoRequest /\ done'[r] = 0 /\ today' = today
  BY DEF IInv, TypeOK, Abandon
<1>3. TypeOK'
  <2>1. /\ today' \in Date /\ prices' \subseteq StockPrice
        /\ phase' \in [Run -> Ended \cup {"fetching", "storing"}]
    BY DEF IInv, TypeOK, Abandon, Ended
  <2>2. request' \in [Run -> [by: Provider, symbols: Seq(Symbol), from: Int, to: Int, on: Int]]
    <3>1. NoRequest \in [by: Provider, symbols: Seq(Symbol), from: Int, to: Int, on: Int]
      BY DEF NoRequest, Provider
    <3> QED  BY <3>1 DEF IInv, TypeOK, Abandon
  <2>3. todo' \in [Run -> Seq(Seq(Symbol))] /\ bars' \in [Run -> Seq(StockPrice)]
    BY DEF IInv, TypeOK, Abandon
  <2>4. attempt' \in [Run -> 0..(MaxAttempts - 1)]
    <3>1. 0 \in 0..(MaxAttempts - 1)
      BY ImportAssumption DEF ImportAssumption
    <3> QED  BY <3>1 DEF IInv, TypeOK, Abandon
  <2>5. /\ done' \in [Run -> Nat] /\ failed' \in [Run -> SUBSET Symbol] /\ imported' \in [Run -> Nat]
        /\ earlier' \in Nat /\ mine' \in [Run -> SUBSET StockPrice]
    BY DEF IInv, TypeOK, Abandon, result
  <2> QED  BY <2>1, <2>2, <2>3, <2>4, <2>5 DEF TypeOK
<1>4. AtWork'
  BY <1>1, <1>2 DEF IInv, AtWork, Working
<1>5. RequestOK'
  BY <1>1, <1>2 DEF IInv, RequestOK, Working
<1>6. ProgressAddsUp'
  <2> SUFFICES ASSUME NEW q \in Run
               PROVE  Progress(request'[q].symbols, done'[q], todo'[q])
    BY DEF ProgressAddsUp, Progress, Rest
  <2>1. CASE q = r
    <3>1. <<>> \in Seq(Symbol)
      OBVIOUS
    <3>2. Progress(<<>>, 0, <<>>)
      BY <3>1, ProgressStarts
    <3> QED  BY <1>2, <2>1, <3>2 DEF NoRequest
  <2>2. CASE q # r
    BY <1>1, <2>2, ProgressIs DEF IInv
  <2> QED  BY <2>1, <2>2
<1> QED
  BY <1>3, <1>4, <1>5, <1>6 DEF IInv

\* So does starting one.
LEMMA Starts ==
    ASSUME IInv, NEW r \in Run, NEW ask \in Ask, Start(r, ask)
    PROVE  IInv'
<1> PICK to, t : to = (IF ask.to = None THEN today ELSE ask.to) /\ t = Batches(ask.symbols, BatchSize)
  OBVIOUS
<1> PICK new : new = [by |-> ask.by, symbols |-> ask.symbols, from |-> ask.from, to |-> to, on |-> today]
  OBVIOUS
<1>0. /\ request' = [request EXCEPT ![r] = new] /\ todo' = [todo EXCEPT ![r] = t]
      /\ phase' = [phase EXCEPT ![r] = IF ask.symbols = <<>> THEN "success" ELSE "fetching"]
      /\ done' = [done EXCEPT ![r] = 0] /\ earlier' = earlier + imported[r]
      /\ failed' = [failed EXCEPT ![r] = {}] /\ imported' = [imported EXCEPT ![r] = 0]
      /\ mine' = [mine EXCEPT ![r] = {}]
      /\ UNCHANGED <<today, prices, attempt, bars>>
  BY DEF Start
<1>1. /\ ask.by \in Provider /\ ask.symbols \in Seq(Symbol) /\ ask.from \in Date
      /\ to \in Date /\ today \in Date /\ Date \subseteq Int
  BY ImportAssumption DEF ImportAssumption, IInv, TypeOK
<1>2. /\ t \in Seq(Seq(Symbol)) /\ Progress(ask.symbols, 0, t)
      /\ (ask.symbols = <<>> <=> t = <<>>)
  BY <1>1, ProgressStarts
<1>3. \A q \in Run \ {r} : /\ phase'[q] = phase[q] /\ todo'[q] = todo[q]
                           /\ request'[q] = request[q] /\ done'[q] = done[q]
  BY <1>0 DEF IInv, TypeOK
<1>4. /\ phase'[r] = (IF ask.symbols = <<>> THEN "success" ELSE "fetching")
      /\ todo'[r] = t /\ request'[r] = new /\ done'[r] = 0
  BY <1>0 DEF IInv, TypeOK
<1>5. TypeOK'
  <2>1. /\ today' \in Date /\ prices' \subseteq StockPrice /\ bars' \in [Run -> Seq(StockPrice)]
        /\ attempt' \in [Run -> 0..(MaxAttempts - 1)]
    BY <1>0 DEF IInv, TypeOK
  <2>2. phase' \in [Run -> Ended \cup {"fetching", "storing"}]
    BY <1>0 DEF IInv, TypeOK, Ended
  <2>3. request' \in [Run -> [by: Provider, symbols: Seq(Symbol), from: Int, to: Int, on: Int]]
    <3>1. new \in [by: Provider, symbols: Seq(Symbol), from: Int, to: Int, on: Int]
      BY <1>1
    <3> QED  BY <1>0, <3>1 DEF IInv, TypeOK
  <2>4. todo' \in [Run -> Seq(Seq(Symbol))]
    BY <1>0, <1>2 DEF IInv, TypeOK
  <2>5. /\ done' \in [Run -> Nat] /\ failed' \in [Run -> SUBSET Symbol] /\ imported' \in [Run -> Nat]
        /\ earlier' \in Nat /\ mine' \in [Run -> SUBSET StockPrice]
    BY <1>0 DEF IInv, TypeOK
  <2> QED  BY <2>1, <2>2, <2>3, <2>4, <2>5 DEF TypeOK
<1>6. AtWork'
  BY <1>2, <1>3, <1>4 DEF IInv, AtWork, Working
<1>7. RequestOK'
  <2> SUFFICES ASSUME NEW q \in Run, phase'[q] \in Working \cup {"success"}
               PROVE  /\ request'[q].from \in Date /\ request'[q].to \in Date
                      /\ request'[q].on \in Date /\ request'[q].on <= today'
    BY DEF RequestOK
  <2>1. CASE q = r
    <3>1. request'[q].from = ask.from /\ request'[q].to = to /\ request'[q].on = today /\ today' = today
      BY <1>0, <1>4, <2>1
    <3> QED  BY <1>1, <3>1
  <2>2. CASE q # r
    BY <1>0, <1>3, <2>2 DEF IInv, RequestOK
  <2> QED  BY <2>1, <2>2
<1>8. ProgressAddsUp'
  <2> SUFFICES ASSUME NEW q \in Run
               PROVE  Progress(request'[q].symbols, done'[q], todo'[q])
    BY DEF ProgressAddsUp, Progress, Rest
  <2>1. CASE q = r
    BY <1>2, <1>4, <2>1
  <2>2. CASE q # r
    BY <1>3, <2>2, ProgressIs DEF IInv
  <2> QED  BY <2>1, <2>2
<1> QED
  BY <1>5, <1>6, <1>7, <1>8 DEF IInv

\* A step that leaves requests, batches and progress alone, and no run's phase but
\* from one at work to another.
LEMMA Stays ==
    ASSUME IInv, TypeOK', UNCHANGED <<request, todo, done>>, today' >= today,
           \A r \in Run : phase'[r] = phase[r] \/ (phase[r] \in Working /\ phase'[r] \in Working)
    PROVE  IInv'
<1>1. AtWork'
  BY DEF IInv, AtWork, Working
<1>2. RequestOK'
  <2> SUFFICES ASSUME NEW q \in Run, phase'[q] \in Working \cup {"success"}
               PROVE  /\ request'[q].from \in Date /\ request'[q].to \in Date
                      /\ request'[q].on \in Date /\ request'[q].on <= today'
    BY DEF RequestOK
  <2>1. /\ request[q].from \in Date /\ request[q].to \in Date
        /\ request[q].on \in Date /\ request[q].on <= today
    BY DEF IInv, RequestOK
  <2>2. request[q].on \in Int /\ today \in Int /\ today' \in Int
    BY <2>1, ImportAssumption DEF ImportAssumption, IInv, TypeOK
  <2>3. request[q].on <= today'
    BY <2>1, <2>2
  <2> QED  BY <2>1, <2>3
<1>3. ProgressAddsUp'
  BY DEF IInv, ProgressAddsUp, Rest
<1> QED
  BY <1>1, <1>2, <1>3 DEF IInv

\* The invariant holds at the start.
LEMMA Begins == Init => IInv
<1> SUFFICES ASSUME Init PROVE IInv
  OBVIOUS
<1>1. TypeOK
  <2>1. NoRequest \in [by: Provider, symbols: Seq(Symbol), from: Int, to: Int, on: Int]
    BY DEF NoRequest, Provider
  <2>2. 0 \in 0..(MaxAttempts - 1)
    BY ImportAssumption DEF ImportAssumption
  <2>3. /\ today \in Date /\ prices \subseteq StockPrice
        /\ phase \in [Run -> Ended \cup {"fetching", "storing"}]
        /\ request \in [Run -> [by: Provider, symbols: Seq(Symbol), from: Int, to: Int, on: Int]]
    BY <2>1 DEF Init, Ended
  <2>4. /\ todo \in [Run -> Seq(Seq(Symbol))] /\ bars \in [Run -> Seq(StockPrice)]
        /\ attempt \in [Run -> 0..(MaxAttempts - 1)]
    BY <2>2 DEF Init
  <2>5. /\ done \in [Run -> Nat] /\ failed \in [Run -> SUBSET Symbol] /\ imported \in [Run -> Nat]
        /\ earlier \in Nat /\ mine \in [Run -> SUBSET StockPrice]
    BY DEF Init
  <2> QED  BY <2>3, <2>4, <2>5 DEF TypeOK
<1>2. AtWork
  BY DEF Init, AtWork, Working
<1>3. RequestOK
  BY DEF Init, RequestOK, Working
<1>4. ProgressAddsUp
  <2>1. Progress(<<>>, 0, <<>>)
    <3>1. <<>> \in Seq(Symbol)
      OBVIOUS
    <3> QED  BY <3>1, ProgressStarts
  <2>2. \A r \in Run : Progress(request[r].symbols, done[r], todo[r])
    BY <2>1 DEF Init, NoRequest
  <2> QED  BY <2>2, ProgressIs
<1> QED
  BY <1>1, <1>2, <1>3, <1>4 DEF IInv

\* Every step keeps the invariant.
LEMMA Inductive == IInv /\ [Next]_vars => IInv'
<1> SUFFICES ASSUME IInv, [Next]_vars PROVE IInv'
  OBVIOUS
<1>1. ASSUME NEW r \in Run, NEW ask \in Ask, Start(r, ask) PROVE IInv'
  BY <1>1, Starts
<1>2. ASSUME NEW r \in Run, FetchSucceeds(r) PROVE IInv'
  <2>1. Fetched(r) \in Seq(StockPrice)
    BY <1>2, FetchedIs DEF FetchSucceeds
  <2>2. TypeOK'
    <3>1. bars' \in [Run -> Seq(StockPrice)]
      BY <1>2, <2>1 DEF FetchSucceeds, IInv, TypeOK
    <3>2. phase' \in [Run -> Ended \cup {"fetching", "storing"}]
      BY <1>2 DEF FetchSucceeds, IInv, TypeOK
    <3> QED  BY <1>2, <3>1, <3>2 DEF FetchSucceeds, IInv, TypeOK, result
  <2>3. \A q \in Run : phase'[q] = phase[q] \/ (phase[q] \in Working /\ phase'[q] \in Working)
    BY <1>2 DEF FetchSucceeds, IInv, TypeOK, Working
  <2>4. today' >= today /\ UNCHANGED <<request, todo, done>>
    BY <1>2, ImportAssumption DEF FetchSucceeds, result, ImportAssumption, IInv, TypeOK
  <2> QED  BY <2>2, <2>3, <2>4, Stays
<1>3. ASSUME NEW r \in Run, FetchFails(r) PROVE IInv'
  <2>1. CASE attempt[r] + 1 < MaxAttempts
    <3>1. attempt' = [attempt EXCEPT ![r] = @ + 1] /\ UNCHANGED <<phase, todo, done, failed>>
          /\ UNCHANGED <<today, prices, request, bars, imported, earlier, mine>>
      BY <1>3, <2>1 DEF FetchFails
    <3>2. attempt' \in [Run -> 0..(MaxAttempts - 1)]
      BY <2>1, <3>1, ImportAssumption DEF IInv, TypeOK, ImportAssumption
    <3>3. TypeOK'
      BY <3>1, <3>2 DEF IInv, TypeOK
    <3>4. today' >= today
      BY <3>1, ImportAssumption DEF ImportAssumption, IInv, TypeOK
    <3> QED  BY <3>1, <3>3, <3>4, Stays
  <2>2. CASE ~(attempt[r] + 1 < MaxAttempts)
    <3>1. /\ failed' = [failed EXCEPT ![r] = @ \cup ToSet(todo[r][1])] /\ NextBatch(r)
          /\ UNCHANGED <<today, prices, request, bars, imported, earlier, mine>> /\ phase[r] \in Working
      BY <1>3, <2>2 DEF FetchFails, Working
    <3>2. /\ phase' \in [Run -> Ended \cup {"fetching", "storing"}]
          /\ todo' \in [Run -> Seq(Seq(Symbol))]
          /\ attempt' \in [Run -> 0..(MaxAttempts - 1)]
          /\ done' \in [Run -> Nat]
          /\ AtWork' /\ RequestOK' /\ ProgressAddsUp'
      BY <3>1, Moves
    <3>3. todo[r][1] \in Seq(Symbol)
      <4>1. /\ todo[r] # <<>> /\ request[r].symbols \in Seq(Symbol) /\ done[r] \in Nat
            /\ Progress(request[r].symbols, done[r], todo[r])
        BY <3>1, ProgressIs DEF IInv, TypeOK, AtWork
      <4> QED  BY <4>1, ProgressGoesOn
    <3>4. ToSet(todo[r][1]) \subseteq Symbol
      BY <3>3 DEF ToSet
    <3>5. failed' \in [Run -> SUBSET Symbol]
      BY <3>1, <3>4 DEF IInv, TypeOK
    <3>6. TypeOK'
      BY <3>1, <3>2, <3>5 DEF IInv, TypeOK
    <3> QED  BY <3>2, <3>6 DEF IInv
  <2> QED  BY <2>1, <2>2
<1>4. ASSUME NEW r \in Run, AddPrice(r) PROVE IInv'
  <2>1. bars[r] \in Seq(StockPrice) /\ bars[r] # <<>>
    BY <1>4 DEF AddPrice, IInv, TypeOK
  <2>2. Head(bars[r]) \in StockPrice /\ Tail(bars[r]) \in Seq(StockPrice)
    BY <2>1, TailOf
  <2>3. bars' \in [Run -> Seq(StockPrice)]
    BY <1>4, <2>2 DEF AddPrice, IInv, TypeOK
  <2>4. /\ prices' \subseteq StockPrice /\ imported' \in [Run -> Nat]
        /\ mine' \in [Run -> SUBSET StockPrice]
    <3>1. CASE Stored(Head(bars[r]))
      BY <1>4, <3>1 DEF AddPrice, IInv, TypeOK
    <3>2. CASE ~Stored(Head(bars[r]))
      <4>1. /\ prices' = prices \cup {Head(bars[r])} /\ imported' = [imported EXCEPT ![r] = @ + 1]
            /\ mine' = [mine EXCEPT ![r] = @ \cup {Head(bars[r])}]
        BY <1>4, <3>2 DEF AddPrice
      <4> QED  BY <2>2, <4>1 DEF IInv, TypeOK
    <3> QED  BY <3>1, <3>2
  <2>5. TypeOK' /\ UNCHANGED <<today, phase, request, todo, done>>
    BY <1>4, <2>3, <2>4 DEF AddPrice, IInv, TypeOK
  <2>6. today' >= today
    BY <2>5, ImportAssumption DEF ImportAssumption, IInv, TypeOK
  <2> QED  BY <2>5, <2>6, Stays
<1>5. ASSUME NEW r \in Run, FinishBatch(r) PROVE IInv'
  <2>1. NextBatch(r) /\ phase[r] \in Working /\ UNCHANGED <<today, prices, request, bars, failed, imported, earlier, mine>>
    BY <1>5 DEF FinishBatch, Working
  <2>2. /\ phase' \in [Run -> Ended \cup {"fetching", "storing"}]
        /\ todo' \in [Run -> Seq(Seq(Symbol))]
        /\ attempt' \in [Run -> 0..(MaxAttempts - 1)]
        /\ done' \in [Run -> Nat]
        /\ AtWork' /\ RequestOK' /\ ProgressAddsUp'
    BY <2>1, Moves
  <2>3. TypeOK'
    BY <2>1, <2>2 DEF IInv, TypeOK
  <2> QED  BY <2>2, <2>3 DEF IInv
<1>6. ASSUME NEW r \in Run, AddPriceRaises(r) PROVE IInv'
  BY <1>6, Quits DEF AddPriceRaises
<1>7. ASSUME NEW r \in Run, Kill(r) PROVE IInv'
  BY <1>7, Quits DEF Kill
<1>8. CASE NextDay
  <2>1. TypeOK' /\ UNCHANGED <<phase, request, todo, done>>
    BY <1>8 DEF NextDay, IInv, TypeOK, result
  <2>2. today' >= today
    BY <1>8, ImportAssumption DEF NextDay, ImportAssumption, IInv, TypeOK
  <2> QED  BY <2>1, <2>2, Stays
<1>9. CASE UNCHANGED vars
  <2>1. TypeOK' /\ UNCHANGED <<today, phase, request, todo, done>>
    BY <1>9 DEF vars, result, IInv, TypeOK
  <2>2. today' >= today
    BY <2>1, ImportAssumption DEF ImportAssumption, IInv, TypeOK
  <2> QED  BY <2>1, <2>2, Stays
<1> QED
  BY <1>1, <1>2, <1>3, <1>4, <1>5, <1>6, <1>7, <1>8, <1>9 DEF Next, Step

\* The variables keep their types, and a run's progress is honest at every point: the
\* symbols it reported are the first of its selection, and the batches it still has are
\* the slices of the rest (_import_batches, _report_progress).
THEOREM TypesAndProgress == Spec => [](TypeOK /\ ProgressAddsUp)
<1>1. IInv => TypeOK /\ ProgressAddsUp
  BY DEF IInv
<1> QED
  BY <1>1, Begins, Inductive, PTL DEF Spec

-----------------------------------------------------------------------------
(* The count. *)

Keys == {<<b.symbol, b.date>> : b \in prices}

CountOK ==
    /\ IsFiniteSet(Keys)
    /\ earlier + Total(imported) = Cardinality(Keys)

\* The invariant says what the property says.
LEMMA CountIs ==
    ASSUME IInv, CountOK
    PROVE  CountsAddUp
BY Zenon DEF CountsAddUp, CountOK, Keys, Total, IInv

\* Changing one count changes the total by as much.
LEMMA TotalType ==
    ASSUME NEW f \in [Run -> Nat], NEW r \in Run, NEW n \in Nat
    PROVE  /\ Total(f) \in Nat /\ Total([f EXCEPT ![r] = n]) \in Nat
           /\ Total(f) + n = Total([f EXCEPT ![r] = n]) + f[r]
<1> PICK g : g = [f EXCEPT ![r] = n]
  OBVIOUS
<1>1. IsFiniteSet(Run)
  BY ImportAssumption DEF ImportAssumption
<1>2. AgreeBut(Run, r, f, g) /\ g[r] = n
  BY DEF AgreeBut
<1>3. Total(f) \in Nat /\ Total(g) \in Nat /\ Total(f) + g[r] = Total(g) + f[r]
  <2>1. \A D, a, b, y : IsFiniteSet(D) /\ AgreeBut(D, y, a, b) =>
            Total(a) \in Nat /\ Total(b) \in Nat /\ Total(a) + b[y] = Total(b) + a[y]
    BY TotalsDiffer
  <2>2. \A a, b, y : AgreeBut(Run, y, a, b) =>
            Total(a) \in Nat /\ Total(b) \in Nat /\ Total(a) + b[y] = Total(b) + a[y]
    BY <1>1, <2>1
  <2>3. AgreeBut(Run, r, f, g)
    BY <1>2
  <2> QED  BY <2>2, <2>3
<1> QED
  BY <1>2, <1>3

\* What a run counted goes to the runs that ended.
LEMMA CountHandedOver ==
    ASSUME IInv, CountOK, NEW r \in Run, earlier' = earlier + imported[r],
           imported' = [imported EXCEPT ![r] = 0], prices' = prices
    PROVE  CountOK'
<1> PICK f, e : f = imported /\ e = earlier
  OBVIOUS
<1>1. f \in [Run -> Nat] /\ e \in Nat /\ f[r] \in Nat
  BY DEF IInv, TypeOK
<1>2. 0 \in Nat
  OBVIOUS
<1>3. Total(f) \in Nat /\ Total(imported') \in Nat /\ Total(f) + 0 = Total(imported') + f[r]
  BY <1>1, <1>2, TotalType
<1>4. earlier' + Total(imported') = e + Total(f)
  BY <1>1, <1>3
<1>5. Keys' = Keys
  BY DEF Keys
<1> QED
  BY <1>4, <1>5 DEF CountOK

\* Every step keeps the count.
LEMMA CountInductive == IInv /\ CountOK /\ [Next]_vars => CountOK'
<1> SUFFICES ASSUME IInv, CountOK, [Next]_vars PROVE CountOK'
  OBVIOUS
<1>0. ASSUME UNCHANGED <<earlier, imported, prices>> PROVE CountOK'
  BY <1>0 DEF CountOK, Keys
<1>1. ASSUME NEW r \in Run, NEW ask \in Ask, Start(r, ask) PROVE CountOK'
  BY <1>1, CountHandedOver DEF Start
<1>2. ASSUME NEW r \in Run, FetchSucceeds(r) PROVE CountOK'
  BY <1>0, <1>2 DEF FetchSucceeds, result
<1>3. ASSUME NEW r \in Run, FetchFails(r) PROVE CountOK'
  BY <1>0, <1>3 DEF FetchFails
<1>4. ASSUME NEW r \in Run, AddPrice(r) PROVE CountOK'
  <2> PICK bar : bar = Head(bars[r])
    OBVIOUS
  <2>1. CASE Stored(bar)
    BY <1>0, <1>4, <2>1 DEF AddPrice
  <2>2. CASE ~Stored(bar)
    <3>1. /\ prices' = prices \cup {bar} /\ imported' = [imported EXCEPT ![r] = imported[r] + 1]
          /\ earlier' = earlier
      BY <1>4, <2>2 DEF AddPrice
    <3> PICK key : key = <<bar.symbol, bar.date>>
      OBVIOUS
    <3>2. key \notin Keys
      BY <2>2 DEF Stored, Keys
    <3>3. Keys' = Keys \cup {key}
      BY <3>1 DEF Keys
    <3>4. /\ IsFiniteSet(Keys) /\ earlier + Total(imported) = Cardinality(Keys)
      BY DEF CountOK
    <3>5. IsFiniteSet(Keys') /\ Cardinality(Keys') = Cardinality(Keys) + 1
      BY <3>2, <3>3, <3>4, FS_AddElement
    <3> PICK f, e : f = imported /\ e = earlier
      OBVIOUS
    <3>6. f \in [Run -> Nat] /\ e \in Nat /\ f[r] \in Nat /\ f[r] + 1 \in Nat
      BY DEF IInv, TypeOK
    <3>7. Total(f) \in Nat /\ Total(imported') \in Nat /\ Total(f) + (f[r] + 1) = Total(imported') + f[r]
      BY <3>1, <3>6, TotalType
    <3>8. e + Total(imported') = (e + Total(f)) + 1
      BY <3>6, <3>7
    <3> QED  BY <3>1, <3>4, <3>5, <3>8 DEF CountOK
  <2> QED  BY <2>1, <2>2
<1>5. ASSUME NEW r \in Run, FinishBatch(r) PROVE CountOK'
  BY <1>0, <1>5 DEF FinishBatch
<1>6. ASSUME NEW r \in Run, AddPriceRaises(r) PROVE CountOK'
  BY <1>6, CountHandedOver DEF AddPriceRaises, Abandon
<1>7. ASSUME NEW r \in Run, Kill(r) PROVE CountOK'
  BY <1>7, CountHandedOver DEF Kill, Abandon
<1>8. CASE NextDay
  BY <1>0, <1>8 DEF NextDay, result
<1>9. CASE UNCHANGED vars
  BY <1>0, <1>9 DEF vars, result
<1> QED
  BY <1>1, <1>2, <1>3, <1>4, <1>5, <1>6, <1>7, <1>8, <1>9 DEF Next, Step

\* Nothing is counted at the start.
LEMMA CountBegins == Init => CountOK
<1> SUFFICES ASSUME Init PROVE CountOK
  OBVIOUS
<1>1. Keys = {}
  BY DEF Init, Keys
<1>2. IsFiniteSet(Keys) /\ Cardinality(Keys) = 0
  BY <1>1, FS_EmptySet
<1>3. Total(imported) = 0
  <2>1. IsFiniteSet(Run)
    BY ImportAssumption DEF ImportAssumption
  <2>2. imported = [r \in Run |-> 0]
    BY DEF Init
  <2> QED  BY <2>1, <2>2, TotalOfZeros
<1>4. earlier = 0
  BY DEF Init
<1> QED
  BY <1>2, <1>3, <1>4 DEF CountOK

\* What all runs together say they imported is what the table holds, each day of a
\* symbol once (_import_batches, add_price).
THEOREM CountsAlwaysAddUp == Spec => []CountsAddUp
<1>1. Init => IInv /\ CountOK
  BY Begins, CountBegins
<1>2. (IInv /\ CountOK) /\ [Next]_vars => (IInv /\ CountOK)'
  BY Inductive, CountInductive
<1>3. IInv /\ CountOK => CountsAddUp
  BY CountIs
<1> QED
  BY <1>1, <1>2, <1>3, PTL DEF Spec

-----------------------------------------------------------------------------
(* One answer. *)

\* Where a run's bars are: those it added, and those it still has to.
HeldBy(r) == mine[r] \cup ToSet(bars[r])

\* What is left of the selection behind the current batch.
Later(r) == SubSeq(request[r].symbols, done[r] + Len(todo[r][1]) + 1, Len(request[r].symbols))

\* The bars of a symbol come from one answer.
FromOne(r, s) ==
    \E day \in request[r].on .. today :
        \A b \in HeldBy(r) : b.symbol = s => FromAnswer(b, request[r].by, day)

\* No bar is held of a symbol whose batch is still to be fetched.
AnswerOf(r) ==
    /\ IsInjective(request[r].symbols)
    /\ mine[r] \subseteq prices
    /\ phase[r] # "storing" => bars[r] = <<>>
    /\ phase[r] \notin Working \cup {"success"} => mine[r] = {}
    /\ phase[r] \in Working \cup {"success"} => \A s \in Symbol : FromOne(r, s)
    /\ phase[r] = "fetching" => \A b \in mine[r] : b.symbol \notin ToSet(Rest(r))
    /\ phase[r] = "storing" => \A b \in HeldBy(r) : b.symbol \notin ToSet(Later(r))

AnswersOK == \A r \in Run : AnswerOf(r)

\* The invariant implies the property.
LEMMA AnswersAre == IInv /\ AnswersOK => OneAnswerPerSymbol
<1> SUFFICES ASSUME IInv, NEW r \in Run, AnswerOf(r)
             PROVE  /\ mine[r] \subseteq prices
                    /\ \A s \in {b.symbol : b \in mine[r]} : \E day \in request[r].on .. today :
                           \A b \in mine[r] : b.symbol = s => FromAnswer(b, request[r].by, day)
  BY DEF AnswersOK, OneAnswerPerSymbol
<1>1. mine[r] \subseteq prices
  BY DEF AnswerOf
<1>2. ASSUME NEW s \in {b.symbol : b \in mine[r]}
      PROVE  \E day \in request[r].on .. today :
                 \A b \in mine[r] : b.symbol = s => FromAnswer(b, request[r].by, day)
  <2>1. phase[r] \in Working \cup {"success"}
    BY <1>2 DEF AnswerOf
  <2>2. mine[r] \subseteq StockPrice
    BY DEF IInv, TypeOK
  <2>3. s \in Symbol
    BY <1>2, <2>2 DEF StockPrice
  <2>4. FromOne(r, s)
    BY <2>1, <2>3 DEF AnswerOf
  <2> QED  BY <2>4 DEF FromOne, HeldBy
<1> QED
  BY <1>1, <1>2

\* The members of the end of a selection.
LEMMA EndOf ==
    ASSUME NEW q \in Seq(Symbol), NEW i \in Nat \ {0}, NEW j \in Nat, j <= Len(q)
    PROVE  ToSet(SubSeq(q, i, j)) = {q[k] : k \in i..j}
<1> PICK p : p = SubSeq(q, i, j)
  OBVIOUS
<1>1. /\ p \in Seq(Symbol) /\ Len(p) = IF i <= j THEN j - i + 1 ELSE 0
      /\ \A k \in 1..(j - i + 1) : p[k] = q[i + k - 1]
  BY SubSeqType
<1>2. DOMAIN p = 1..(IF i <= j THEN j - i + 1 ELSE 0)
  BY <1>1
<1>3. ToSet(p) = {p[k] : k \in DOMAIN p}
  BY DEF ToSet
<1>4. ASSUME NEW x \in ToSet(p) PROVE x \in {q[k] : k \in i..j}
  <2>1. PICK k \in DOMAIN p : x = p[k]
    BY <1>3
  <2>2. i <= j /\ k \in 1..(j - i + 1)
    BY <1>2
  <2>3. x = q[i + k - 1] /\ i + k - 1 \in i..j
    BY <1>1, <2>1, <2>2
  <2> QED  BY <2>3
<1>5. ASSUME NEW k \in i..j PROVE q[k] \in ToSet(p)
  <2>1. i <= j /\ k - i + 1 \in 1..(j - i + 1) /\ i + (k - i + 1) - 1 = k
    OBVIOUS
  <2>2. p[k - i + 1] = q[k] /\ k - i + 1 \in DOMAIN p
    BY <1>1, <1>2, <2>1
  <2> QED  BY <1>3, <2>2
<1> QED  BY <1>4, <1>5

\* The first batch is the part of the selection that follows what is done.
LEMMA BatchIs ==
    ASSUME NEW symbols \in Seq(Symbol), NEW d \in Nat, NEW t, t # <<>>, Progress(symbols, d, t)
    PROVE  /\ Len(t[1]) \in Nat /\ d + Len(t[1]) <= Len(symbols)
           /\ t[1] = SubSeq(symbols, d + 1, d + Len(t[1]))
<1> PICK n : n = Len(symbols)
  OBVIOUS
<1> PICK q : q = SubSeq(symbols, d + 1, n)
  OBVIOUS
<1>1. BatchSize \in Nat \ {0} /\ n \in Nat /\ d <= n /\ d + 1 \in Nat \ {0}
  BY ImportAssumption DEF ImportAssumption, Progress
<1>2. q \in Seq(Symbol) /\ Len(q) = n - d
  <2>1. q \in Seq(Symbol) /\ Len(q) = IF d + 1 <= n THEN n - (d + 1) + 1 ELSE 0
    BY <1>1, SubSeqType
  <2> QED  BY <1>1, <2>1
<1>3. t = Batches(q, BatchSize)
  BY DEF Progress
<1>4. q # <<>>
  <2> SUFFICES ASSUME q = <<>> PROVE FALSE
    OBVIOUS
  <2>1. Len(q) = 0
    BY EmptyLen
  <2> QED  BY <1>2, <1>3, <2>1, NoSlices
<1>5. PICK m \in 1..Len(q) : Head(t) = SubSeq(q, 1, m) /\ Len(Head(t)) = m
  BY <1>1, <1>2, <1>3, <1>4, BatchesSplit
<1>6. t \in Seq(Seq(Symbol))
  BY <1>1, <1>2, <1>3, BatchesAre
<1>7. Head(t) = t[1]
  BY <1>6
<1>8. m \in Nat /\ m <= n - d /\ 1 \in Nat \ {0} /\ d <= Len(symbols) /\ m <= Len(symbols) - d
  BY <1>1, <1>2, <1>5
<1>9. SliceOfRest(symbols, d, 1, m)
  BY <1>8, SubOfSub
<1>10. SubSeq(q, 1, m) = SubSeq(symbols, d + 1, d + m)
  BY <1>9 DEF SliceOfRest
<1>11. d + m <= n
  BY <1>1, <1>8
<1> QED  BY <1>5, <1>7, <1>8, <1>10, <1>11

\* In a selection without repetitions no symbol of a batch comes later.
LEMMA BatchIsApart ==
    ASSUME NEW symbols \in Seq(Symbol), IsInjective(symbols), NEW d \in Nat,
           NEW t, t # <<>>, Progress(symbols, d, t),
           NEW s \in ToSet(SubSeq(symbols, d + Len(t[1]) + 1, Len(symbols)))
    PROVE  s \notin ToSet(t[1]) /\ s \in ToSet(SubSeq(symbols, d + 1, Len(symbols)))
<1> PICK n, m : n = Len(symbols) /\ m = Len(t[1])
  OBVIOUS
<1>1. m \in Nat /\ n \in Nat /\ d + m <= n /\ t[1] = SubSeq(symbols, d + 1, d + m)
  BY BatchIs
<1>2. d + 1 \in Nat \ {0} /\ d + m + 1 \in Nat \ {0} /\ d + m \in Nat /\ n <= Len(symbols) /\ d + m <= Len(symbols)
  BY <1>1
<1>3. s \in {symbols[k] : k \in (d + m + 1)..n}
  BY <1>1, <1>2, EndOf
<1>4. PICK k \in (d + m + 1)..n : s = symbols[k]
  BY <1>3
<1>5. ToSet(t[1]) = {symbols[i] : i \in (d + 1)..(d + m)}
  BY <1>1, <1>2, EndOf
<1>6. ToSet(SubSeq(symbols, d + 1, n)) = {symbols[i] : i \in (d + 1)..n}
  BY <1>1, <1>2, EndOf
<1>7. k \in (d + 1)..n /\ k \in DOMAIN symbols /\ DOMAIN symbols = 1..n
  BY <1>1, <1>4
<1>8. ASSUME s \in ToSet(t[1]) PROVE FALSE
  <2>1. PICK i \in (d + 1)..(d + m) : s = symbols[i]
    BY <1>5, <1>8
  <2>2. i \in DOMAIN symbols /\ i # k
    BY <1>1, <1>4, <1>7, <2>1
  <2> QED  BY <1>4, <1>7, <2>1, <2>2 DEF IsInjective
<1> QED  BY <1>4, <1>6, <1>7, <1>8

\* A symbol of the batch is one of the rest.
LEMMA BatchIsOfRest ==
    ASSUME NEW symbols \in Seq(Symbol), NEW d \in Nat, NEW t, t # <<>>, Progress(symbols, d, t)
    PROVE  ToSet(t[1]) \subseteq ToSet(SubSeq(symbols, d + 1, Len(symbols)))
<1> PICK n, m : n = Len(symbols) /\ m = Len(t[1])
  OBVIOUS
<1>1. m \in Nat /\ n \in Nat /\ d + m <= n /\ t[1] = SubSeq(symbols, d + 1, d + m)
  BY BatchIs
<1>2. d + 1 \in Nat \ {0} /\ d + m \in Nat /\ n <= Len(symbols) /\ d + m <= Len(symbols)
  BY <1>1
<1>3. ToSet(t[1]) = {symbols[i] : i \in (d + 1)..(d + m)}
  BY <1>1, <1>2, EndOf
<1>4. ToSet(SubSeq(symbols, d + 1, n)) = {symbols[i] : i \in (d + 1)..n}
  BY <1>1, <1>2, EndOf
<1>5. (d + 1)..(d + m) \subseteq (d + 1)..n
  BY <1>1
<1> QED  BY <1>3, <1>4, <1>5

\* A run at work: its batch is of the rest, and apart from what comes later.
LEMMA Apart ==
    ASSUME IInv, NEW r \in Run, AnswerOf(r), phase[r] \in Working
    PROVE  /\ ToSet(todo[r][1]) \subseteq ToSet(Rest(r))
           /\ \A s \in ToSet(Later(r)) : s \notin ToSet(todo[r][1]) /\ s \in ToSet(Rest(r))
<1>1. /\ todo[r] # <<>> /\ request[r].symbols \in Seq(Symbol) /\ done[r] \in Nat
      /\ Progress(request[r].symbols, done[r], todo[r]) /\ IsInjective(request[r].symbols)
  BY ProgressIs DEF IInv, TypeOK, AtWork, AnswerOf
<1>2. ToSet(todo[r][1]) \subseteq ToSet(Rest(r))
  BY <1>1, BatchIsOfRest DEF Rest
<1>3. ASSUME NEW s \in ToSet(Later(r)) PROVE s \notin ToSet(todo[r][1]) /\ s \in ToSet(Rest(r))
  BY <1>1, BatchIsApart DEF Rest, Later
<1> QED  BY <1>2, <1>3

\* A run that is only passed by, or that adds what it holds, keeps it from one answer.
LEMMA AnswerKept ==
    ASSUME IInv, IInv', NEW r \in Run, AnswerOf(r), today <= today',
           request'[r] = request[r], phase'[r] = phase[r], done'[r] = done[r], todo'[r] = todo[r],
           mine'[r] \subseteq prices', mine'[r] \cup ToSet(bars'[r]) \subseteq HeldBy(r),
           phase[r] # "storing" => bars'[r] = bars[r] /\ mine'[r] = mine[r]
    PROVE  AnswerOf(r)'
<1>1. Rest(r)' = Rest(r) /\ Later(r)' = Later(r) /\ HeldBy(r)' \subseteq HeldBy(r)
  BY DEF Rest, Later, HeldBy
<1>2. request[r].on \in Int /\ today \in Int /\ today' \in Int
  BY ImportAssumption DEF ImportAssumption, IInv, TypeOK
<1>3. ASSUME NEW s, FromOne(r, s) PROVE FromOne(r, s)'
  <2>1. PICK day \in request[r].on .. today :
            \A b \in HeldBy(r) : b.symbol = s => FromAnswer(b, request[r].by, day)
    BY <1>3 DEF FromOne
  <2>2. day \in request[r].on .. today'
    BY <1>2
  <2> QED  BY <1>1, <2>1, <2>2 DEF FromOne
<1>4. phase'[r] \in Working \cup {"success"} => \A s \in Symbol : FromOne(r, s)'
  BY <1>3 DEF AnswerOf
<1>5. phase'[r] = "fetching" => \A b \in mine'[r] : b.symbol \notin ToSet(Rest(r))
  BY DEF AnswerOf
<1>6. phase'[r] = "storing" => \A b \in HeldBy(r)' : b.symbol \notin ToSet(Later(r))
  BY <1>1 DEF AnswerOf
<1>7. /\ IsInjective(request'[r].symbols) /\ phase'[r] # "storing" => bars'[r] = <<>>
      /\ phase'[r] \notin Working \cup {"success"} => mine'[r] = {}
  BY DEF AnswerOf, Working
<1> QED
  BY <1>1, <1>4, <1>5, <1>6, <1>7 DEF AnswerOf

\* No bars of an empty sequence.
LEMMA NoBars == ToSet(<<>>) = {}
BY DEF ToSet

\* Nothing is repeated in an empty selection.
LEMMA EmptyIsInjective == IsInjective(<<>>)
BY DEF IsInjective

\* Fetching a batch: none of its symbols was held before.
LEMMA AnswerFetched ==
    ASSUME IInv, NEW r \in Run, AnswerOf(r), FetchSucceeds(r)
    PROVE  AnswerOf(r)'
<1> PICK by, q, got : by = request[r].by /\ q = todo[r][1] /\ got = Fetched(r)
  OBVIOUS
<1>1. /\ phase[r] = "fetching" /\ phase'[r] = "storing" /\ bars'[r] = got /\ today' = today
      /\ request' = request /\ done' = done /\ todo' = todo /\ prices' = prices /\ mine' = mine
  BY DEF FetchSucceeds, result, IInv, TypeOK
<1>2. \A b \in ToSet(got) : b.symbol \in ToSet(q) /\ FromAnswer(b, by, today)
  BY FetchedIs DEF FetchSucceeds
<1>3. /\ ToSet(q) \subseteq ToSet(Rest(r))
      /\ \A s \in ToSet(Later(r)) : s \notin ToSet(q) /\ s \in ToSet(Rest(r))
  BY <1>1, Apart DEF Working
<1>4. \A b \in mine[r] : b.symbol \notin ToSet(Rest(r))
  BY <1>1 DEF AnswerOf
<1>5. HeldBy(r)' = mine[r] \cup ToSet(got) /\ Later(r)' = Later(r)
  BY <1>1 DEF HeldBy, Later
<1>6. today \in request[r].on .. today
  <2>1. request[r].on \in Int /\ request[r].on <= today /\ today \in Int
    BY <1>1, ImportAssumption DEF ImportAssumption, IInv, TypeOK, RequestOK, Working
  <2> QED  BY <2>1
<1>7. ASSUME NEW s \in Symbol PROVE FromOne(r, s)'
  <2>1. CASE s \in ToSet(q)
    <3>1. \A b \in mine[r] \cup ToSet(got) : b.symbol = s => FromAnswer(b, by, today)
      BY <1>2, <1>3, <1>4, <2>1
    <3> QED  BY <1>1, <1>5, <1>6, <3>1 DEF FromOne
  <2>2. CASE s \notin ToSet(q)
    <3>1. FromOne(r, s)
      BY <1>1 DEF AnswerOf, Working
    <3>2. PICK day \in request[r].on .. today :
              \A b \in HeldBy(r) : b.symbol = s => FromAnswer(b, by, day)
      BY <3>1 DEF FromOne
    <3>3. \A b \in mine[r] \cup ToSet(got) : b.symbol = s => b \in HeldBy(r)
      BY <1>2, <2>2 DEF HeldBy
    <3>4. \A b \in mine[r] \cup ToSet(got) : b.symbol = s => FromAnswer(b, by, day)
      BY <3>2, <3>3
    <3> QED  BY <1>1, <1>5, <3>2, <3>4 DEF FromOne
  <2> QED  BY <2>1, <2>2
<1>8. \A b \in HeldBy(r)' : b.symbol \notin ToSet(Later(r)')
  BY <1>2, <1>3, <1>4, <1>5
<1>9. IsInjective(request'[r].symbols) /\ mine'[r] \subseteq prices'
  BY <1>1 DEF AnswerOf
<1> QED
  BY <1>1, <1>7, <1>8, <1>9 DEF AnswerOf, Working

\* Going on to the next batch: what came later is the rest.
LEMMA AnswerMoves ==
    ASSUME IInv, NEW r \in Run, AnswerOf(r), phase[r] \in Working, bars[r] = <<>>, NextBatch(r),
           UNCHANGED <<today, prices, request, bars, mine>>
    PROVE  AnswerOf(r)'
<1>1. done'[r] = done[r] + Len(todo[r][1]) /\ phase'[r] \in {"fetching", "success"}
  BY DEF NextBatch, IInv, TypeOK
<1>2. Rest(r)' = Later(r) /\ HeldBy(r)' = HeldBy(r) /\ HeldBy(r) = mine[r]
  BY <1>1, NoBars DEF Rest, Later, HeldBy
<1>3. \A s \in Symbol : FromOne(r, s)'
  <2>1. \A s \in Symbol : FromOne(r, s)
    BY DEF AnswerOf
  <2> QED  BY <1>2, <2>1 DEF FromOne
<1>4. \A b \in mine[r] : b.symbol \notin ToSet(Later(r))
  <2>1. CASE phase[r] = "fetching"
    <3>1. \A b \in mine[r] : b.symbol \notin ToSet(Rest(r))
      BY <2>1 DEF AnswerOf
    <3>2. \A s \in ToSet(Later(r)) : s \in ToSet(Rest(r))
      BY Apart
    <3> QED  BY <3>1, <3>2
  <2>2. CASE phase[r] = "storing"
    BY <1>2, <2>2 DEF AnswerOf
  <2> QED  BY <2>1, <2>2 DEF Working
<1>5. mine'[r] \subseteq prices' /\ IsInjective(request'[r].symbols) /\ bars'[r] = <<>>
  BY DEF AnswerOf
<1> QED
  BY <1>1, <1>2, <1>3, <1>4, <1>5 DEF AnswerOf, Working

\* Every step keeps what each run holds of a symbol from one answer.
LEMMA AnswersInductive == IInv /\ IInv' /\ AnswersOK /\ [Next]_vars => AnswersOK'
<1> SUFFICES ASSUME IInv, IInv', AnswersOK, [Next]_vars PROVE AnswersOK'
  OBVIOUS
<1> USE DEF result
<1>0. /\ today \in Int /\ bars \in [Run -> Seq(StockPrice)] /\ mine \in [Run -> SUBSET StockPrice]
      /\ \A r \in Run : AnswerOf(r) /\ mine[r] \subseteq prices
  BY ImportAssumption DEF ImportAssumption, IInv, TypeOK, AnswersOK, AnswerOf
<1>p. ASSUME NEW q \in Run, today <= today', prices \subseteq prices',
             request'[q] = request[q], phase'[q] = phase[q], done'[q] = done[q],
             todo'[q] = todo[q], bars'[q] = bars[q], mine'[q] = mine[q]
      PROVE  AnswerOf(q)'
  <2>1. mine'[q] \subseteq prices' /\ mine'[q] \cup ToSet(bars'[q]) \subseteq HeldBy(q)
    BY <1>0, <1>p DEF HeldBy
  <2> QED  BY <1>0, <1>p, <2>1, AnswerKept
<1>a. ASSUME today <= today', prices \subseteq prices', UNCHANGED <<phase, request, todo, done, bars, mine>>
      PROVE  AnswersOK'
  BY <1>a, <1>p DEF AnswersOK
<1>b. ASSUME NEW r \in Run, NEW how \in {"raised", "killed"}, Abandon(r, how) PROVE AnswersOK'
  <2>1. ASSUME NEW q \in Run PROVE AnswerOf(q)'
    <3>1. CASE q = r
      <4>1. /\ phase'[q] = how /\ mine'[q] = {} /\ bars'[q] = <<>> /\ request'[q] = NoRequest
        BY <1>b, <3>1 DEF Abandon, IInv, TypeOK
      <4>2. IsInjective(request'[q].symbols)
        BY <4>1, EmptyIsInjective DEF NoRequest
      <4>3. HeldBy(q)' = {} /\ phase'[q] \notin Working \cup {"success"}
        BY <4>1, NoBars DEF HeldBy, Working
      <4> QED  BY <4>1, <4>2, <4>3 DEF AnswerOf, Working
    <3>2. CASE q # r
      <4>1. /\ request'[q] = request[q] /\ phase'[q] = phase[q] /\ done'[q] = done[q]
            /\ todo'[q] = todo[q] /\ bars'[q] = bars[q] /\ mine'[q] = mine[q]
            /\ prices' = prices /\ today' = today
        BY <1>b, <3>2 DEF Abandon, IInv, TypeOK
      <4> QED  BY <1>0, <1>p, <4>1
    <3> QED  BY <3>1, <3>2
  <2> QED  BY <2>1 DEF AnswersOK
<1>1. ASSUME NEW r \in Run, NEW ask \in Ask, Start(r, ask) PROVE AnswersOK'
  <2>1. ASSUME NEW q \in Run PROVE AnswerOf(q)'
    <3>1. CASE q = r
      <4>1. /\ phase[q] \in Ended /\ mine'[q] = {} /\ bars'[q] = bars[q]
            /\ request'[q].symbols = ask.symbols /\ request'[q].on = today /\ today' = today
            /\ phase'[q] \in {"fetching", "success"}
        BY <1>1, <3>1 DEF Start, IInv, TypeOK
      <4>2. bars'[q] = <<>>
        BY <1>0, <4>1 DEF AnswerOf, Ended
      <4>3. IsInjective(request'[q].symbols)
        BY <4>1, ImportAssumption DEF ImportAssumption
      <4>4. HeldBy(q)' = {}
        BY <4>1, <4>2, NoBars DEF HeldBy
      <4>5. today' \in request'[q].on .. today'
        BY <1>0, <4>1
      <4>6. \A s \in Symbol : FromOne(q, s)'
        BY <4>4, <4>5 DEF FromOne
      <4> QED  BY <4>1, <4>2, <4>3, <4>4, <4>6 DEF AnswerOf, Working
    <3>2. CASE q # r
      <4>1. /\ request'[q] = request[q] /\ phase'[q] = phase[q] /\ done'[q] = done[q]
            /\ todo'[q] = todo[q] /\ bars'[q] = bars[q] /\ mine'[q] = mine[q]
            /\ prices' = prices /\ today' = today
        BY <1>1, <3>2 DEF Start, IInv, TypeOK
      <4> QED  BY <1>0, <1>p, <4>1
    <3> QED  BY <3>1, <3>2
  <2> QED  BY <2>1 DEF AnswersOK
<1>2. ASSUME NEW r \in Run, FetchSucceeds(r) PROVE AnswersOK'
  <2>1. ASSUME NEW q \in Run PROVE AnswerOf(q)'
    <3>1. CASE q = r
      BY <1>0, <1>2, <3>1, AnswerFetched
    <3>2. CASE q # r
      <4>1. /\ request'[q] = request[q] /\ phase'[q] = phase[q] /\ done'[q] = done[q]
            /\ todo'[q] = todo[q] /\ bars'[q] = bars[q] /\ mine'[q] = mine[q]
            /\ prices' = prices /\ today' = today
        BY <1>2, <3>2 DEF FetchSucceeds, IInv, TypeOK
      <4> QED  BY <1>0, <1>p, <4>1
    <3> QED  BY <3>1, <3>2
  <2> QED  BY <2>1 DEF AnswersOK
<1>c. ASSUME NEW r \in Run, phase[r] \in Working, bars[r] = <<>>, NextBatch(r),
             UNCHANGED <<today, prices, request, bars, mine>>
      PROVE  AnswersOK'
  <2>1. ASSUME NEW q \in Run PROVE AnswerOf(q)'
    <3>1. CASE q = r
      BY <1>0, <1>c, <3>1, AnswerMoves
    <3>2. CASE q # r
      <4>1. phase'[q] = phase[q] /\ done'[q] = done[q] /\ todo'[q] = todo[q]
        BY <1>c, <3>2 DEF NextBatch, IInv, TypeOK
      <4> QED  BY <1>0, <1>c, <1>p, <4>1
    <3> QED  BY <3>1, <3>2
  <2> QED  BY <2>1 DEF AnswersOK
<1>3. ASSUME NEW r \in Run, FetchFails(r) PROVE AnswersOK'
  <2>1. CASE attempt[r] + 1 < MaxAttempts
    BY <1>0, <1>a, <1>3, <2>1 DEF FetchFails
  <2>2. CASE ~(attempt[r] + 1 < MaxAttempts)
    <3>1. /\ phase[r] = "fetching" /\ NextBatch(r)
          /\ UNCHANGED <<today, prices, request, bars, mine>>
      BY <1>3, <2>2 DEF FetchFails
    <3>2. bars[r] = <<>>
      BY <1>0, <3>1 DEF AnswerOf
    <3> QED  BY <1>c, <3>1, <3>2 DEF Working
  <2> QED  BY <2>1, <2>2
<1>4. ASSUME NEW r \in Run, AddPrice(r) PROVE AnswersOK'
  <2>1. ASSUME NEW q \in Run PROVE AnswerOf(q)'
    <3>0. /\ today' = today /\ prices \subseteq prices' /\ UNCHANGED <<phase, request, todo, done>>
          /\ phase[r] = "storing" /\ bars[r] # <<>> /\ bars' = [bars EXCEPT ![r] = Tail(bars[r])]
      BY <1>4 DEF AddPrice
    <3>1. CASE q = r
      <4>1. Head(bars[r]) \in ToSet(bars[r]) /\ ToSet(Tail(bars[r])) \subseteq ToSet(bars[r])
        BY <1>0, <3>0, TailOf
      <4>2. bars'[r] = Tail(bars[r])
        BY <1>0, <3>0
      <4>3. mine'[r] \subseteq prices' /\ mine'[r] \subseteq mine[r] \cup {Head(bars[r])}
        <5>1. CASE Stored(Head(bars[r]))
          BY <1>0, <1>4, <5>1 DEF AddPrice
        <5>2. CASE ~Stored(Head(bars[r]))
          <6>1. /\ prices' = prices \cup {Head(bars[r])}
                /\ mine' = [mine EXCEPT ![r] = mine[r] \cup {Head(bars[r])}]
            BY <1>4, <5>2 DEF AddPrice
          <6> QED  BY <1>0, <6>1
        <5> QED  BY <5>1, <5>2
      <4>4. mine'[r] \cup ToSet(bars'[r]) \subseteq HeldBy(r)
        BY <4>1, <4>2, <4>3 DEF HeldBy
      <4> QED  BY <1>0, <3>0, <3>1, <4>3, <4>4, AnswerKept
    <3>2. CASE q # r
      <4>1. bars'[q] = bars[q] /\ mine'[q] = mine[q]
        BY <1>0, <1>4, <3>2 DEF AddPrice
      <4> QED  BY <1>0, <1>p, <3>0, <4>1
    <3> QED  BY <3>1, <3>2
  <2> QED  BY <2>1 DEF AnswersOK
<1>5. ASSUME NEW r \in Run, FinishBatch(r) PROVE AnswersOK'
  BY <1>c, <1>5 DEF FinishBatch, Working
<1>6. ASSUME NEW r \in Run, AddPriceRaises(r) PROVE AnswersOK'
  BY <1>b, <1>6 DEF AddPriceRaises
<1>7. ASSUME NEW r \in Run, Kill(r) PROVE AnswersOK'
  BY <1>b, <1>7 DEF Kill
<1>8. CASE NextDay
  <2>1. today <= today' /\ prices' = prices /\ UNCHANGED <<phase, request, todo, done, bars, mine>>
    BY <1>0, <1>8 DEF NextDay
  <2> QED  BY <1>a, <2>1
<1>9. CASE UNCHANGED vars
  <2>1. today <= today' /\ prices' = prices /\ UNCHANGED <<phase, request, todo, done, bars, mine>>
    BY <1>0, <1>9 DEF vars
  <2> QED  BY <1>a, <2>1
<1> QED
  BY <1>1, <1>2, <1>3, <1>4, <1>5, <1>6, <1>7, <1>8, <1>9 DEF Next, Step

\* Nothing is held at the start.
LEMMA AnswersBegin == Init => AnswersOK
<1> SUFFICES ASSUME Init, NEW r \in Run PROVE AnswerOf(r)
  BY DEF AnswersOK
<1>1. phase[r] = "idle" /\ mine[r] = {} /\ bars[r] = <<>> /\ request[r] = NoRequest
  BY DEF Init
<1>2. IsInjective(request[r].symbols)
  BY <1>1, EmptyIsInjective DEF NoRequest
<1>3. phase[r] \notin Working \cup {"success"}
  BY <1>1 DEF Working
<1> QED  BY <1>1, <1>2, <1>3 DEF AnswerOf, Working

\* While a run lasts, all the bars it has added of a symbol are in the table and come from
\* one answer of its provider, on one day since it began, each adjusted as its row says
\* (_fetch_with_retry, add_price, map_price, _adjusted, _get_symbol_prices).
THEOREM OneAnswer == Spec => []OneAnswerPerSymbol
<1>1. Init => IInv /\ AnswersOK
  BY Begins, AnswersBegin
<1>2. (IInv /\ AnswersOK) /\ [Next]_vars => (IInv /\ AnswersOK)'
  BY Inductive, AnswersInductive
<1>3. IInv /\ AnswersOK => OneAnswerPerSymbol
  BY AnswersAre
<1> QED
  BY <1>1, <1>2, <1>3, PTL DEF Spec

-----------------------------------------------------------------------------
(* Completeness. *)

\* The bars of the days that are due are in a table.
Covered(r, s, table) == Due(r, s) \subseteq DatesOf(s, table)

\* Each selected symbol has failed, has its bars, is about to have them, or is still to come.
CoveredBy(r) ==
    /\ phase[r] \in {"fetching", "success"} =>
           \A s \in ToSet(request[r].symbols) :
               s \in failed[r] \/ Covered(r, s, prices) \/ s \in ToSet(Rest(r))
    /\ phase[r] = "storing" =>
           \A s \in ToSet(request[r].symbols) :
               s \in failed[r] \/ Covered(r, s, prices \cup ToSet(bars[r])) \/ s \in ToSet(Later(r))

CoveredOK == \A r \in Run : CoveredBy(r)

\* The invariant implies the property.
LEMMA SuccessIs ==
    ASSUME IInv, CoveredOK
    PROVE  SuccessIsComplete
<1> SUFFICES ASSUME NEW r \in Run, phase[r] = "success"
             PROVE  /\ done[r] = Len(request[r].symbols)
                    /\ \A s \in ToSet(request[r].symbols) \ failed[r] :
                           Due(r, s) \subseteq DatesOf(s, prices)
  BY DEF SuccessIsComplete
<1>1. /\ todo[r] = <<>> /\ request[r].symbols \in Seq(Symbol) /\ done[r] \in Nat
      /\ Progress(request[r].symbols, done[r], todo[r])
  BY ProgressIs DEF IInv, TypeOK, AtWork
<1>2. done[r] = Len(request[r].symbols) /\ ToSet(Rest(r)) = {}
  BY <1>1, ProgressEnds DEF Rest
<1> QED
  BY <1>2 DEF CoveredOK, CoveredBy, Covered

\* A day that is due tomorrow is due today, and tables grow.
LEMMA DueShrinks ==
    ASSUME IInv, IInv', NEW r \in Run, NEW s, request'[r] = request[r], today <= today'
    PROVE  Due(r, s)' \subseteq Due(r, s)
<1>1. request[r].on \in Int /\ today \in Int /\ today' \in Int
  BY ImportAssumption DEF ImportAssumption, IInv, TypeOK
<1>2. request[r].on .. today \subseteq request[r].on .. today'
  BY <1>1
<1> QED
  BY <1>2 DEF Due

\* A symbol that has its bars keeps them.
LEMMA CoveredStays ==
    ASSUME IInv, IInv', NEW r \in Run, NEW s, request'[r] = request[r], today <= today',
           NEW table, NEW larger, table \subseteq larger, Covered(r, s, table)
    PROVE  Due(r, s)' \subseteq DatesOf(s, larger)
<1>1. Due(r, s)' \subseteq Due(r, s)
  BY DueShrinks
<1>2. DatesOf(s, table) \subseteq DatesOf(s, larger)
  BY DEF DatesOf
<1> QED
  BY <1>1, <1>2 DEF Covered

\* What other runs do to a run: the table grows, the days pass.
LEMMA OthersKeep ==
    ASSUME IInv, IInv', NEW r \in Run, CoveredBy(r), today <= today', prices \subseteq prices',
           request'[r] = request[r], phase'[r] = phase[r], failed'[r] = failed[r],
           done'[r] = done[r], todo'[r] = todo[r], bars'[r] = bars[r]
    PROVE  CoveredBy(r)'
<1>1. Rest(r)' = Rest(r) /\ Later(r)' = Later(r)
  BY DEF Rest, Later
<1>2. ASSUME NEW s, Covered(r, s, prices) PROVE Due(r, s)' \subseteq DatesOf(s, prices')
  BY <1>2, CoveredStays
<1>3. ASSUME NEW s, Covered(r, s, prices \cup ToSet(bars[r]))
      PROVE  Due(r, s)' \subseteq DatesOf(s, prices' \cup ToSet(bars[r]))
  <2>1. prices \cup ToSet(bars[r]) \subseteq prices' \cup ToSet(bars[r])
    OBVIOUS
  <2> QED  BY <1>3, <2>1, CoveredStays
<1>4. ASSUME phase'[r] \in {"fetching", "success"}, NEW s \in ToSet(request'[r].symbols)
      PROVE  s \in failed'[r] \/ Due(r, s)' \subseteq DatesOf(s, prices') \/ s \in ToSet(Rest(r))
  BY <1>2, <1>4 DEF CoveredBy
<1>5. ASSUME phase'[r] = "storing", NEW s \in ToSet(request'[r].symbols)
      PROVE  \/ s \in failed'[r] \/ Due(r, s)' \subseteq DatesOf(s, prices' \cup ToSet(bars'[r]))
             \/ s \in ToSet(Later(r))
  BY <1>3, <1>5 DEF CoveredBy
<1> QED
  BY <1>1, <1>4, <1>5 DEF CoveredBy, Covered

\* A run at work knows its batch: a symbol of the rest is in it or comes later.
LEMMA RestSplits ==
    ASSUME IInv, NEW r \in Run, phase[r] \in Working
    PROVE  /\ todo[r] # <<>> /\ todo[r][1] \in Seq(Symbol)
           /\ \A s \in ToSet(Rest(r)) : s \in ToSet(todo[r][1]) \/ s \in ToSet(Later(r))
<1>1. /\ todo[r] # <<>> /\ request[r].symbols \in Seq(Symbol) /\ done[r] \in Nat
      /\ Progress(request[r].symbols, done[r], todo[r])
  BY ProgressIs DEF IInv, TypeOK, AtWork
<1> QED
  BY <1>1, ProgressGoesOn DEF Rest, Later

\* The next batch: what came later is the rest.
LEMMA NextRest ==
    ASSUME IInv, NEW r \in Run, NextBatch(r), request' = request
    PROVE  /\ Rest(r)' = Later(r)
           /\ phase'[r] \in {"fetching", "success"}
           /\ \A q \in Run \ {r} : phase'[q] = phase[q] /\ done'[q] = done[q] /\ todo'[q] = todo[q]
<1>1. done'[r] = done[r] + Len(todo[r][1]) /\ phase'[r] = IF Len(todo[r]) = 1 THEN "success" ELSE "fetching"
  BY DEF NextBatch, IInv, TypeOK
<1>2. \A q \in Run \ {r} : phase'[q] = phase[q] /\ done'[q] = done[q] /\ todo'[q] = todo[q]
  BY DEF NextBatch, IInv, TypeOK
<1> QED
  BY <1>1, <1>2 DEF Rest, Later

\* Every step keeps each symbol failed, stored, being stored or still to come.
LEMMA CoveredInductive == IInv /\ IInv' /\ CoveredOK /\ [Next]_vars => CoveredOK'
<1> SUFFICES ASSUME IInv, IInv', CoveredOK, [Next]_vars PROVE CoveredOK'
  OBVIOUS
<1> USE DEF result
<1>0. /\ today \in Int
      /\ \A r \in Run : CoveredBy(r) /\ bars[r] \in Seq(StockPrice)
  BY ImportAssumption DEF ImportAssumption, IInv, TypeOK, CoveredOK
<1>a. ASSUME today <= today', prices \subseteq prices', UNCHANGED <<phase, request, todo, done, failed, bars>>
      PROVE  CoveredOK'
  BY <1>0, <1>a, OthersKeep DEF CoveredOK
<1>b. ASSUME NEW r \in Run, NEW how \in {"raised", "killed"}, Abandon(r, how) PROVE CoveredOK'
  <2>1. ASSUME NEW q \in Run PROVE CoveredBy(q)'
    <3>1. CASE q = r
      <4>1. phase'[q] = how
        BY <1>b, <3>1 DEF Abandon, IInv, TypeOK
      <4> QED  BY <4>1 DEF CoveredBy
    <3>2. CASE q # r
      <4>1. /\ request'[q] = request[q] /\ phase'[q] = phase[q] /\ failed'[q] = failed[q]
            /\ done'[q] = done[q] /\ todo'[q] = todo[q] /\ bars'[q] = bars[q]
            /\ prices' = prices /\ today' = today
        BY <1>b, <3>2 DEF Abandon, IInv, TypeOK
      <4> QED  BY <1>0, <4>1, OthersKeep
    <3> QED  BY <3>1, <3>2
  <2> QED  BY <2>1 DEF CoveredOK
<1>1. ASSUME NEW r \in Run, NEW ask \in Ask, Start(r, ask) PROVE CoveredOK'
  <2>1. ASSUME NEW q \in Run PROVE CoveredBy(q)'
    <3>1. CASE q = r
      <4>1. /\ phase'[q] \in {"fetching", "success"} /\ done'[q] = 0
            /\ request'[q].symbols = ask.symbols
        BY <1>1, <3>1 DEF Start, IInv, TypeOK
      <4>2. ask.symbols \in Seq(Symbol)
        BY ImportAssumption DEF ImportAssumption
      <4>3. SubSeq(ask.symbols, 1, Len(ask.symbols)) = ask.symbols /\ 0 + 1 = 1
        BY <4>2
      <4>4. Rest(q)' = ask.symbols
        BY <4>1, <4>3 DEF Rest
      <4> QED  BY <4>1, <4>4 DEF CoveredBy
    <3>2. CASE q # r
      <4>1. /\ request'[q] = request[q] /\ phase'[q] = phase[q] /\ failed'[q] = failed[q]
            /\ done'[q] = done[q] /\ todo'[q] = todo[q] /\ bars'[q] = bars[q]
            /\ prices' = prices /\ today' = today
        BY <1>1, <3>2 DEF Start, IInv, TypeOK
      <4> QED  BY <1>0, <4>1, OthersKeep
    <3> QED  BY <3>1, <3>2
  <2> QED  BY <2>1 DEF CoveredOK
<1>2. ASSUME NEW r \in Run, FetchSucceeds(r) PROVE CoveredOK'
  <2>1. ASSUME NEW q \in Run PROVE CoveredBy(q)'
    <3>1. CASE q = r
      <4>1. /\ phase[r] = "fetching" /\ phase'[r] = "storing" /\ bars'[r] = Fetched(r)
            /\ request' = request /\ failed' = failed /\ prices' = prices /\ today' = today
            /\ done' = done /\ todo' = todo
        BY <1>2 DEF FetchSucceeds, IInv, TypeOK
      <4>2. \A s \in ToSet(todo[r][1]) : \A d \in Dated(request[r].by, s, today) :
                d \in request[r].from .. request[r].to =>
                    \E b \in ToSet(Fetched(r)) : b.symbol = s /\ b.date = d
        BY <1>2, FetchedIs DEF FetchSucceeds
      <4>3. Later(r)' = Later(r) /\ \A s : Due(r, s)' = Due(r, s)
        BY <4>1 DEF Later, Due
      <4>4. today \in request[r].on .. today
        <5>1. request[r].on \in Int /\ request[r].on <= today
          BY <4>1 DEF IInv, TypeOK, RequestOK, Working
        <5> QED  BY <1>0, <5>1
      <4>5. ASSUME NEW s \in ToSet(request[r].symbols)
            PROVE  \/ s \in failed[r] \/ Due(r, s) \subseteq DatesOf(s, prices \cup ToSet(Fetched(r)))
                   \/ s \in ToSet(Later(r))
        <5>1. CASE Covered(r, s, prices)
          <6>1. DatesOf(s, prices) \subseteq DatesOf(s, prices \cup ToSet(Fetched(r)))
            BY DEF DatesOf
          <6> QED  BY <5>1, <6>1 DEF Covered
        <5>2. CASE s \in ToSet(todo[r][1])
          <6> SUFFICES ASSUME NEW d \in Due(r, s)
                       PROVE  d \in DatesOf(s, prices \cup ToSet(Fetched(r)))
            OBVIOUS
          <6>1. d \in Dated(request[r].by, s, today) /\ d \in request[r].from .. request[r].to
            BY <4>4 DEF Due
          <6>2. PICK b \in ToSet(Fetched(r)) : b.symbol = s /\ b.date = d
            BY <4>2, <5>2, <6>1
          <6> QED  BY <6>2 DEF DatesOf
        <5>3. CASE s \in ToSet(Rest(r))
          BY <4>1, <5>2, <5>3, RestSplits DEF Working
        <5> QED  BY <1>0, <4>1, <5>1, <5>3 DEF CoveredBy
      <4> QED  BY <3>1, <4>1, <4>3, <4>5 DEF CoveredBy, Covered
    <3>2. CASE q # r
      <4>1. /\ request'[q] = request[q] /\ phase'[q] = phase[q] /\ failed'[q] = failed[q]
            /\ done'[q] = done[q] /\ todo'[q] = todo[q] /\ bars'[q] = bars[q]
            /\ prices' = prices /\ today' = today
        BY <1>2, <3>2 DEF FetchSucceeds, IInv, TypeOK
      <4> QED  BY <1>0, <4>1, OthersKeep
    <3> QED  BY <3>1, <3>2
  <2> QED  BY <2>1 DEF CoveredOK
<1>3. ASSUME NEW r \in Run, FetchFails(r) PROVE CoveredOK'
  <2>1. CASE attempt[r] + 1 < MaxAttempts
    BY <1>0, <1>a, <1>3, <2>1 DEF FetchFails
  <2>2. CASE ~(attempt[r] + 1 < MaxAttempts)
    <3>1. /\ phase[r] = "fetching" /\ NextBatch(r)
          /\ failed' = [failed EXCEPT ![r] = failed[r] \cup ToSet(todo[r][1])]
          /\ request' = request /\ bars' = bars /\ prices' = prices /\ today' = today
      BY <1>3, <2>2 DEF FetchFails
    <3>2. /\ failed'[r] = failed[r] \cup ToSet(todo[r][1])
          /\ \A q \in Run \ {r} : failed'[q] = failed[q]
      BY <3>1 DEF IInv, TypeOK
    <3>3. ASSUME NEW q \in Run PROVE CoveredBy(q)'
      <4>1. CASE q = r
        <5>1. Rest(r)' = Later(r) /\ phase'[r] \in {"fetching", "success"}
          BY <3>1, NextRest
        <5>2. \A s : Due(r, s)' = Due(r, s)
          BY <3>1 DEF Due
        <5>3. ASSUME NEW s \in ToSet(request[r].symbols)
              PROVE  s \in failed'[r] \/ Covered(r, s, prices) \/ s \in ToSet(Later(r))
          <6>1. s \in failed[r] \/ Covered(r, s, prices) \/ s \in ToSet(Rest(r))
            BY <1>0, <3>1 DEF CoveredBy
          <6>2. s \in ToSet(Rest(r)) => s \in ToSet(todo[r][1]) \/ s \in ToSet(Later(r))
            BY <3>1, RestSplits DEF Working
          <6> QED  BY <3>2, <6>1, <6>2
        <5> QED  BY <3>1, <4>1, <5>1, <5>2, <5>3 DEF CoveredBy, Covered
      <4>2. CASE q # r
        <5>1. phase'[q] = phase[q] /\ done'[q] = done[q] /\ todo'[q] = todo[q]
          BY <3>1, <4>2, NextRest
        <5> QED  BY <1>0, <3>1, <3>2, <4>2, <5>1, OthersKeep
      <4> QED  BY <4>1, <4>2
    <3> QED  BY <3>3 DEF CoveredOK
  <2> QED  BY <2>1, <2>2
<1>4. ASSUME NEW r \in Run, AddPrice(r) PROVE CoveredOK'
  <2> PICK bar : bar = Head(bars[r])
    OBVIOUS
  <2>1. /\ phase[r] = "storing" /\ bars[r] # <<>> /\ bars' = [bars EXCEPT ![r] = Tail(bars[r])]
        /\ (Stored(bar) \/ bar \in prices') /\ prices \subseteq prices'
        /\ UNCHANGED <<today, phase, request, todo, done, failed>>
    BY <1>4 DEF AddPrice
  <2>2. /\ bars'[r] = Tail(bars[r]) /\ \A q \in Run \ {r} : bars'[q] = bars[q]
    BY <2>1 DEF IInv, TypeOK
  <2>3. ASSUME NEW q \in Run PROVE CoveredBy(q)'
    <3>1. CASE q = r
      <4>1. Later(r)' = Later(r) /\ \A s : Due(r, s)' = Due(r, s)
        BY <2>1 DEF Later, Due
      <4>2. \A b \in ToSet(bars[r]) : b = bar \/ b \in ToSet(Tail(bars[r]))
        BY <1>0, <2>1, TailOf
      <4>3. \E b \in prices' : b.symbol = bar.symbol /\ b.date = bar.date
        BY <2>1 DEF Stored
      <4>4. ASSUME NEW s
            PROVE  DatesOf(s, prices \cup ToSet(bars[r])) \subseteq DatesOf(s, prices' \cup ToSet(Tail(bars[r])))
        <5> SUFFICES ASSUME NEW b \in prices \cup ToSet(bars[r]), b.symbol = s
                     PROVE  \E c \in prices' \cup ToSet(Tail(bars[r])) : c.symbol = s /\ c.date = b.date
          BY DEF DatesOf
        <5>1. CASE b = bar
          BY <4>3, <5>1
        <5>2. CASE b # bar
          BY <2>1, <4>2, <5>2
        <5> QED  BY <5>1, <5>2
      <4>5. ASSUME NEW s \in ToSet(request[r].symbols)
            PROVE  \/ s \in failed[r] \/ Due(r, s) \subseteq DatesOf(s, prices' \cup ToSet(Tail(bars[r])))
                   \/ s \in ToSet(Later(r))
        <5>1. s \in failed[r] \/ Covered(r, s, prices \cup ToSet(bars[r])) \/ s \in ToSet(Later(r))
          BY <1>0, <2>1 DEF CoveredBy
        <5> QED  BY <4>4, <5>1 DEF Covered
      <4> QED  BY <2>1, <2>2, <3>1, <4>1, <4>5 DEF CoveredBy, Covered
    <3>2. CASE q # r
      BY <1>0, <2>1, <2>2, <3>2, OthersKeep
    <3> QED  BY <3>1, <3>2
  <2> QED  BY <2>3 DEF CoveredOK
<1>5. ASSUME NEW r \in Run, FinishBatch(r) PROVE CoveredOK'
  <2>1. /\ phase[r] = "storing" /\ bars[r] = <<>> /\ NextBatch(r)
        /\ request' = request /\ bars' = bars /\ failed' = failed /\ prices' = prices /\ today' = today
    BY <1>5 DEF FinishBatch
  <2>2. ASSUME NEW q \in Run PROVE CoveredBy(q)'
    <3>1. CASE q = r
      <4>1. Rest(r)' = Later(r) /\ phase'[r] \in {"fetching", "success"}
        BY <2>1, NextRest
      <4>2. \A s : Due(r, s)' = Due(r, s)
        BY <2>1 DEF Due
      <4>3. prices \cup ToSet(bars[r]) = prices
        BY <2>1, NoBars
      <4>4. ASSUME NEW s \in ToSet(request[r].symbols)
            PROVE  s \in failed[r] \/ Covered(r, s, prices) \/ s \in ToSet(Later(r))
        BY <1>0, <2>1, <4>3 DEF CoveredBy
      <4> QED  BY <2>1, <3>1, <4>1, <4>2, <4>4 DEF CoveredBy, Covered
    <3>2. CASE q # r
      <4>1. phase'[q] = phase[q] /\ done'[q] = done[q] /\ todo'[q] = todo[q]
        BY <2>1, <3>2, NextRest
      <4> QED  BY <1>0, <2>1, <4>1, OthersKeep
    <3> QED  BY <3>1, <3>2
  <2> QED  BY <2>2 DEF CoveredOK
<1>6. ASSUME NEW r \in Run, AddPriceRaises(r) PROVE CoveredOK'
  BY <1>b, <1>6 DEF AddPriceRaises
<1>7. ASSUME NEW r \in Run, Kill(r) PROVE CoveredOK'
  BY <1>b, <1>7 DEF Kill
<1>8. CASE NextDay
  <2>1. today <= today' /\ prices' = prices /\ UNCHANGED <<phase, request, todo, done, failed, bars>>
    BY <1>0, <1>8 DEF NextDay
  <2> QED  BY <1>a, <2>1
<1>9. CASE UNCHANGED vars
  <2>1. today <= today' /\ prices' = prices /\ UNCHANGED <<phase, request, todo, done, failed, bars>>
    BY <1>0, <1>9 DEF vars
  <2> QED  BY <1>a, <2>1
<1> QED
  BY <1>1, <1>2, <1>3, <1>4, <1>5, <1>6, <1>7, <1>8, <1>9 DEF Next, Step

\* A run that answers with success has every bar its provider had, on every day from the
\* day it began, of the days of its window, for every selected symbol it does not name
\* as failed (execute, _import_batches, get_prices).
THEOREM SuccessIsAlwaysComplete == Spec => []SuccessIsComplete
<1>1. Init => IInv /\ CoveredOK
  <2>1. Init => CoveredOK
    BY DEF Init, CoveredOK, CoveredBy
  <2> QED  BY <2>1, Begins
<1>2. (IInv /\ CoveredOK) /\ [Next]_vars => (IInv /\ CoveredOK)'
  BY Inductive, CoveredInductive
<1>3. IInv /\ CoveredOK => SuccessIsComplete
  BY SuccessIs
<1> QED
  BY <1>1, <1>2, <1>3, PTL DEF Spec
=============================================================================
