---------------------------- MODULE ManifestProofs ----------------------------
(***************************************************************************)
(* Proofs about Manifest: what the sorted scan of neighbours decides, that *)
(* the verdict of a load is the one that its files deserve, and that what  *)
(* is loaded is complete, in order and acceptable to the archive reader,   *)
(* for all manifests and for edits at any moment.                          *)
(***************************************************************************)
EXTENDS Manifest, FiniteSetTheorems, NaturalsInduction, WellFoundedInduction, TLAPS

(***************************************************************************)
(* The least element of a set of naturals stands in for an induction.      *)
(***************************************************************************)
LEMMA LeastNatural ==
    ASSUME NEW T \in SUBSET Nat, T # {}
    PROVE  \E x \in T : \A y \in T : x <= y
<1>1. PICK x \in T : \A y \in T : ~ (<<y, x>> \in OpToRel(<, Nat))
  BY NatLessThanWellFounded, WFMin, Zenon
<1>2. ASSUME NEW y \in T PROVE x <= y
  <2>1. ~(y < x)
    BY <1>1 DEF OpToRel
  <2> QED BY <2>1
<1> QED BY <1>2

(***************************************************************************)
(* The byte order of names is a total order.                               *)
(***************************************************************************)
LEMMA BeforeTransitive ==
    ASSUME NEW a, NEW b, NEW c, IsName(a), IsName(b), IsName(c), Before(a, b), Before(b, c)
    PROVE  Before(a, c)
<1>0. /\ Len(a) \in Nat /\ Len(b) \in Nat /\ Len(c) \in Nat
      /\ \A n \in 1..Len(a) : a[n] \in Nat
      /\ \A n \in 1..Len(b) : b[n] \in Nat
      /\ \A n \in 1..Len(c) : c[n] \in Nat
  BY DEF IsName
<1>1. CASE (Len(a) < Len(b) /\ HasPrefix(b, a)) /\ (Len(b) < Len(c) /\ HasPrefix(c, b))
  <2>1. \A i \in 1..Len(a) : i \in 1..Len(b) /\ c[i] = a[i]
    BY <1>0, <1>1 DEF HasPrefix
  <2> QED BY <1>0, <1>1, <2>1 DEF Before, HasPrefix
<1>2. ASSUME Len(a) < Len(b), HasPrefix(b, a),
             NEW k \in 1..Len(b), k <= Len(c), b[k] < c[k], \A j \in 1..(k - 1) : b[j] = c[j]
      PROVE  Before(a, c)
  <2>1. CASE k <= Len(a)
    <3>1. k \in 1..Len(a) /\ a[k] = b[k] /\ \A j \in 1..(k - 1) : a[j] = b[j]
      BY <1>0, <1>2, <2>1 DEF HasPrefix
    <3> QED BY <1>2, <3>1 DEF Before
  <2>2. CASE Len(a) < k
    <3>1. \A i \in 1..Len(a) : i \in 1..(k - 1) /\ c[i] = a[i]
      BY <1>0, <1>2, <2>2 DEF HasPrefix
    <3> QED BY <1>0, <1>2, <2>2, <3>1 DEF Before, HasPrefix
  <2> QED BY <1>0, <2>1, <2>2
<1>3. ASSUME Len(b) < Len(c), HasPrefix(c, b),
             NEW i \in 1..Len(a), i <= Len(b), a[i] < b[i], \A j \in 1..(i - 1) : a[j] = b[j]
      PROVE  Before(a, c)
  <2>1. c[i] = b[i] /\ i <= Len(c) /\ \A j \in 1..(i - 1) : c[j] = b[j]
    BY <1>0, <1>3 DEF HasPrefix
  <2> QED BY <1>3, <2>1 DEF Before
<1>4. ASSUME NEW i \in 1..Len(a), i <= Len(b), a[i] < b[i], \A j \in 1..(i - 1) : a[j] = b[j],
             NEW k \in 1..Len(b), k <= Len(c), b[k] < c[k], \A j \in 1..(k - 1) : b[j] = c[j]
      PROVE  Before(a, c)
  <2>1. CASE i < k
    <3>1. i \in 1..(k - 1) /\ c[i] = b[i] /\ i <= Len(c) /\ \A j \in 1..(i - 1) : a[j] = c[j]
      BY <1>0, <1>4, <2>1
    <3> QED BY <1>4, <3>1 DEF Before
  <2>2. CASE i = k
    <3>1. a[i] \in Nat /\ b[i] \in Nat /\ c[i] \in Nat /\ i <= Len(c)
      BY <1>0, <1>4, <2>2
    <3>2. a[i] < c[i] /\ \A j \in 1..(i - 1) : a[j] = c[j]
      BY <1>4, <2>2, <3>1
    <3> QED BY <3>1, <3>2 DEF Before
  <2>3. CASE k < i
    <3>1. k \in 1..Len(a) /\ k \in 1..(i - 1) /\ a[k] = b[k] /\ \A j \in 1..(k - 1) : a[j] = c[j]
      BY <1>0, <1>4, <2>3
    <3> QED BY <1>4, <3>1 DEF Before
  <2> QED BY <1>0, <2>1, <2>2, <2>3
<1> QED BY <1>1, <1>2, <1>3, <1>4 DEF Before

LEMMA NotAfterTransitive ==
    ASSUME NEW a, NEW b, NEW c, IsName(a), IsName(b), IsName(c), NotAfter(a, b), NotAfter(b, c)
    PROVE  NotAfter(a, c)
  BY BeforeTransitive DEF NotAfter

LEMMA NotAfterAntisymmetric ==
    ASSUME NEW a, NEW b, IsName(a), IsName(b), NotAfter(a, b), NotAfter(b, a)
    PROVE  a = b
<1>1. ~Before(a, a)
  <2>1. Len(a) \in Nat /\ \A i \in 1..Len(a) : a[i] \in Nat
    BY DEF IsName
  <2> QED BY <2>1 DEF Before
<1> QED BY <1>1, BeforeTransitive DEF NotAfter

LEMMA NotAfterTotal ==
    ASSUME NEW a, NEW b, IsName(a), IsName(b)
    PROVE  NotAfter(a, b) \/ NotAfter(b, a)
<1> USE DEF IsName
<1>0. Len(a) \in Nat /\ Len(b) \in Nat
  OBVIOUS
<1> DEFINE T == {i \in 1..Len(a) : i <= Len(b) /\ a[i] # b[i]}
<1>1. CASE T = {}
  <2>1. \A i \in 1..Len(a) : i <= Len(b) => a[i] = b[i]
    BY <1>1
  <2>2. CASE Len(a) < Len(b)
    BY <1>0, <2>1, <2>2 DEF NotAfter, Before, HasPrefix
  <2>3. CASE Len(b) < Len(a)
    <3>1. \A i \in 1..Len(b) : a[i] = b[i]
      BY <1>0, <2>1, <2>3
    <3> QED BY <1>0, <2>3, <3>1 DEF NotAfter, Before, HasPrefix
  <2>4. CASE Len(a) = Len(b)
    <3>1. \A i \in 1..Len(a) : a[i] = b[i]
      BY <1>0, <2>1, <2>4
    <3> QED BY <2>4, <3>1 DEF NotAfter
  <2> QED BY <1>0, <2>2, <2>3, <2>4
<1>2. CASE T # {}
  <2>0. T \in SUBSET Nat
    OBVIOUS
  <2>1. PICK i \in T : \A j \in T : i <= j
    BY <1>2, <2>0, LeastNatural
  <2>2. i \in 1..Len(a) /\ i \in 1..Len(b) /\ a[i] \in Nat /\ b[i] \in Nat /\ a[i] # b[i]
    BY <1>0
  <2>3. \A j \in 1..(i - 1) : a[j] = b[j]
    <3> SUFFICES ASSUME NEW j \in 1..(i - 1), a[j] # b[j] PROVE FALSE
      OBVIOUS
    <3>1. j \in 1..Len(a) /\ j <= Len(b) /\ j < i
      BY <1>0, <2>2
    <3>2. j \in T
      BY <3>1
    <3> QED BY <2>1, <2>2, <3>1, <3>2
  <2>4. CASE a[i] < b[i]
    BY <1>0, <2>2, <2>3, <2>4 DEF NotAfter, Before
  <2>5. CASE b[i] < a[i]
    BY <1>0, <2>2, <2>3, <2>5 DEF NotAfter, Before
  <2> QED BY <2>2, <2>4, <2>5
<1> QED BY <1>1, <1>2

(***************************************************************************)
(* Sorting: a sorted prefix takes in the next name at its place.           *)
(***************************************************************************)
Sorts(p, names, n) ==
    /\ p \in [1..n -> 1..n]
    /\ \A i, j \in 1..n : p[i] = p[j] => i = j
    /\ \A k \in 1..n : \E i \in 1..n : p[i] = k
    /\ \A i, j \in 1..n : i < j => NotAfter(names[p[i]], names[p[j]])

LEMMA Insertion ==
    ASSUME NEW names \in Seq(Seq(Nat)), NEW n \in 1..Len(names), NEW p, Sorts(p, names, n - 1)
    PROVE  \E q : Sorts(q, names, n)
<1> DEFINE m == n - 1
           T == {k \in 1..n : k = n \/ ~NotAfter(names[p[k]], names[n])}
<1>0. n \in Nat /\ m \in Nat /\ n = m + 1 /\ n \in 1..n
  OBVIOUS
<1>a. /\ p \in [1..m -> 1..m]
      /\ \A i, j \in 1..m : p[i] = p[j] => i = j
      /\ \A l \in 1..m : \E i \in 1..m : p[i] = l
      /\ \A i, j \in 1..m : i < j => NotAfter(names[p[i]], names[p[j]])
  BY DEF Sorts
<1>b. \A i \in 1..n : IsName(names[i])
  BY DEF IsName
<1>1. T \in SUBSET Nat /\ n \in T
  BY <1>0
<1>2. PICK k \in T : \A j \in T : k <= j
  BY <1>1, LeastNatural
<1>3. k \in 1..n /\ (k = n \/ ~NotAfter(names[p[k]], names[n]))
  OBVIOUS
<1>4. \A i \in 1..m : i < k => NotAfter(names[p[i]], names[n])
  <2> SUFFICES ASSUME NEW i \in 1..m, i < k, ~NotAfter(names[p[i]], names[n]) PROVE FALSE
    OBVIOUS
  <2>1. i \in T
    BY <1>0
  <2> QED BY <1>0, <1>2, <1>3, <2>1
<1> HIDE DEF T, m
<1>c. \A i \in 1..m : p[i] \in 1..m /\ p[i] \in 1..n /\ p[i] # n
  BY <1>0, <1>a
<1>5. \A i \in 1..m : i >= k => NotAfter(names[n], names[p[i]])
  <2> SUFFICES ASSUME NEW i \in 1..m, i >= k PROVE NotAfter(names[n], names[p[i]])
    OBVIOUS
  <2>1. k \in 1..m /\ ~NotAfter(names[p[k]], names[n])
    BY <1>0, <1>3
  <2>2. IsName(names[n]) /\ IsName(names[p[k]]) /\ IsName(names[p[i]])
    BY <1>0, <1>b, <1>c, <2>1
  <2>3. NotAfter(names[n], names[p[k]])
    BY <2>1, <2>2, NotAfterTotal
  <2>4. CASE i = k
    BY <2>3, <2>4
  <2>5. CASE i > k
    <3>1. NotAfter(names[p[k]], names[p[i]])
      BY <1>0, <1>a, <2>1, <2>5
    <3> QED BY <2>2, <2>3, <3>1, NotAfterTransitive
  <2> QED BY <1>0, <1>3, <2>4, <2>5
<1> DEFINE q == [i \in 1..n |-> IF i < k THEN p[i] ELSE IF i = k THEN n ELSE p[i - 1]]
<1>d. \A i \in 1..n : /\ i < k => i \in 1..m
                      /\ i > k => i - 1 \in 1..m /\ i - 1 >= k
  BY <1>0, <1>3
<1>6. /\ \A i \in 1..n : i < k => q[i] = p[i]
      /\ q[k] = n
      /\ \A i \in 1..n : i > k => q[i] = p[i - 1]
      /\ q = [i \in 1..n |-> q[i]]
  BY <1>0, <1>3
<1> HIDE DEF q
<1>7. \A i \in 1..n : q[i] \in 1..n
  <2> SUFFICES ASSUME NEW i \in 1..n PROVE q[i] \in 1..n
    OBVIOUS
  <2>1. i < k \/ i = k \/ i > k
    BY <1>0, <1>3
  <2> QED BY <1>0, <1>6, <1>c, <1>d, <2>1
<1>8. \A i, j \in 1..n : i < j => q[i] # q[j]
  <2> SUFFICES ASSUME NEW i \in 1..n, NEW j \in 1..n, i < j PROVE q[i] # q[j]
    OBVIOUS
  <2>1. CASE j < k
    <3>1. i \in 1..m /\ j \in 1..m /\ q[i] = p[i] /\ q[j] = p[j]
      BY <1>0, <1>3, <1>6, <1>d, <2>1
    <3> QED BY <1>0, <1>a, <1>c, <3>1
  <2>2. CASE j = k
    <3>1. i \in 1..m /\ q[i] = p[i] /\ q[j] = n
      BY <1>0, <1>3, <1>6, <1>d, <2>2
    <3> QED BY <1>0, <1>a, <1>c, <3>1
  <2>3. CASE i < k /\ j > k
    <3>1. i \in 1..m /\ q[i] = p[i] /\ j - 1 \in 1..m /\ q[j] = p[j - 1] /\ i # j - 1
      BY <1>0, <1>3, <1>6, <1>d, <2>3
    <3> QED BY <1>0, <1>a, <1>c, <3>1
  <2>4. CASE i = k
    <3>1. q[i] = n /\ j - 1 \in 1..m /\ q[j] = p[j - 1]
      BY <1>0, <1>3, <1>6, <1>d, <2>4
    <3> QED BY <1>0, <1>a, <1>c, <3>1
  <2>5. CASE i > k
    <3>0. i \in Int /\ j \in Int /\ j > k
      BY <1>0, <1>3, <2>5
    <3>1. i - 1 \in 1..m /\ j - 1 \in 1..m /\ i - 1 # j - 1
      BY <1>d, <2>5, <3>0
    <3>2. q[i] = p[i - 1] /\ q[j] = p[j - 1]
      BY <1>6, <2>5, <3>0
    <3> QED BY <1>a, <3>1, <3>2
  <2> QED BY <1>0, <1>3, <2>1, <2>2, <2>3, <2>4, <2>5
<1>9. \A l \in 1..n : \E i \in 1..n : q[i] = l
  <2> SUFFICES ASSUME NEW l \in 1..n PROVE \E i \in 1..n : q[i] = l
    OBVIOUS
  <2>1. CASE l = n
    BY <1>3, <1>6, <2>1
  <2>2. CASE l # n
    <3>1. l \in 1..m
      BY <1>0, <2>2
    <3>2. PICK i \in 1..m : p[i] = l
      BY <1>0, <1>a, <3>1
    <3>3. CASE i < k
      <4>1. i \in 1..n /\ q[i] = p[i]
        BY <1>0, <1>6, <3>3
      <4> QED BY <3>2, <4>1
    <3>4. CASE i >= k
      <4>1. i + 1 \in 1..n /\ i + 1 > k /\ (i + 1) - 1 = i
        BY <1>0, <1>3, <3>4
      <4> QED BY <1>6, <3>2, <4>1
    <3> QED BY <1>0, <1>3, <3>3, <3>4
  <2> QED BY <2>1, <2>2
<1>10. \A i, j \in 1..n : i < j => NotAfter(names[q[i]], names[q[j]])
  <2> SUFFICES ASSUME NEW i \in 1..n, NEW j \in 1..n, i < j PROVE NotAfter(names[q[i]], names[q[j]])
    OBVIOUS
  <2>1. CASE j < k
    <3>1. i \in 1..m /\ j \in 1..m /\ q[i] = p[i] /\ q[j] = p[j]
      BY <1>0, <1>3, <1>6, <1>d, <2>1
    <3> QED BY <1>0, <1>a, <1>c, <3>1
  <2>2. CASE j = k
    <3>1. i \in 1..m /\ i < k /\ q[i] = p[i] /\ q[j] = n
      BY <1>0, <1>3, <1>6, <1>d, <2>2
    <3> QED BY <1>4, <3>1
  <2>3. CASE i < k /\ j > k
    <3>1. i \in 1..m /\ q[i] = p[i] /\ j - 1 \in 1..m /\ q[j] = p[j - 1] /\ i < j - 1
      BY <1>0, <1>3, <1>6, <1>d, <2>3
    <3> QED BY <1>0, <1>a, <1>c, <3>1
  <2>4. CASE i = k
    <3>1. q[i] = n /\ j - 1 \in 1..m /\ j - 1 >= k /\ q[j] = p[j - 1]
      BY <1>0, <1>3, <1>6, <1>d, <2>4
    <3> QED BY <1>5, <3>1
  <2>5. CASE i > k
    <3>0. i \in Int /\ j \in Int /\ j > k
      BY <1>0, <1>3, <2>5
    <3>1. i - 1 \in 1..m /\ j - 1 \in 1..m /\ i - 1 < j - 1
      BY <1>d, <2>5, <3>0
    <3>2. q[i] = p[i - 1] /\ q[j] = p[j - 1]
      BY <1>6, <2>5, <3>0
    <3> QED BY <1>a, <3>1, <3>2
  <2> QED BY <1>0, <1>3, <2>1, <2>2, <2>3, <2>4, <2>5
<1>11. \A i, j \in 1..n : q[i] = q[j] => i = j
  <2> SUFFICES ASSUME NEW i \in 1..n, NEW j \in 1..n, i # j PROVE q[i] # q[j]
    OBVIOUS
  <2>1. i < j \/ j < i
    OBVIOUS
  <2> QED BY <1>8, <2>1
<1>12. q \in [1..n -> 1..n]
  BY <1>6, <1>7
<1> QED BY <1>9, <1>10, <1>11, <1>12 DEF Sorts

LEMMA SortingExists ==
    ASSUME NEW names \in Seq(Seq(Nat))
    PROVE  \E p : Sorts(p, names, Len(names))
<1> DEFINE Has(n) == \E p : Sorts(p, names, n)
           T == {n \in 0..Len(names) : ~Has(n)}
<1>1. Has(0)
  <2>1. Sorts([i \in 1..0 |-> i], names, 0)
    BY DEF Sorts
  <2> QED BY <2>1
<1>2. ASSUME NEW n \in 1..Len(names), Has(n - 1) PROVE Has(n)
  BY <1>2, Insertion
<1>3. T = {}
  <2> SUFFICES ASSUME T # {} PROVE FALSE
    OBVIOUS
  <2>0. T \in SUBSET Nat /\ Len(names) \in Nat
    OBVIOUS
  <2> HIDE DEF Has
  <2>1. PICK n \in T : \A k \in T : n <= k
    BY <2>0, LeastNatural
  <2>2. n \in 0..Len(names) /\ ~Has(n)
    OBVIOUS
  <2>3. n # 0
    BY <2>2, <1>1
  <2>4. n \in 1..Len(names) /\ n - 1 \in 0..Len(names)
    BY <2>0, <2>2, <2>3
  <2>5. n - 1 \notin T
    BY <2>1, <2>2
  <2>6. Has(n - 1)
    BY <2>4, <2>5
  <2> QED BY <1>2, <2>2, <2>4, <2>6
<1>4. Len(names) \in 0..Len(names)
  OBVIOUS
<1>5. Has(Len(names))
  BY <1>3, <1>4
<1> QED BY <1>5

(* sort_unstable sorts.                                                    *)
LEMMA SortingSorts ==
    ASSUME NEW names \in Seq(Seq(Nat))
    PROVE  Sorts(Sorting(names), names, Len(names))
<1> DEFINE D == 1..Len(names)
           Ordered(p) == \A i, j \in D : i < j => NotAfter(names[p[i]], names[p[j]])
<1>0. \A p : p \in Bijection(D, D) /\ Ordered(p) <=> Sorts(p, names, Len(names))
  <2> SUFFICES ASSUME NEW p PROVE p \in Bijection(D, D) /\ Ordered(p) <=> Sorts(p, names, Len(names))
    OBVIOUS
  <2>1. p \in Bijection(D, D) <=> /\ p \in [D -> D]
                                  /\ \A i, j \in D : p[i] = p[j] => i = j
                                  /\ \A k \in D : \E i \in D : p[i] = k
    <3>1. p \in Injection(D, D) <=> p \in [D -> D] /\ \A i, j \in D : p[i] = p[j] => i = j
      BY DEF Injection, IsInjective
    <3>2. p \in Surjection(D, D) <=> p \in [D -> D] /\ \A k \in D : \E i \in D : p[i] = k
      BY DEF Surjection
    <3> QED BY <3>1, <3>2 DEF Bijection
  <2> QED BY <2>1 DEF Sorts
<1>1. PICK p : Sorts(p, names, Len(names))
  BY SortingExists
<1>2. Sorting(names) = CHOOSE r \in Bijection(D, D) : Ordered(r)
  BY DEF Sorting
<1> HIDE DEF D, Ordered
<1>3. Sorting(names) \in Bijection(D, D) /\ Ordered(Sorting(names))
  BY <1>0, <1>1, <1>2
<1> QED BY <1>0, <1>3

(***************************************************************************)
(* What the scan of neighbours in a sorted list decides.                   *)
(***************************************************************************)
(* The byte order puts whatever owns a name before it: if the later of two *)
(* sorted names owns the earlier one, they are the same name.              *)
LEMMA EarlierOwns ==
    ASSUME NEW a, NEW b, IsName(a), IsName(b),
           NotAfter(a, b), NamespacesOverlap(a, b)
    PROVE  NamespaceOwns(a, b)
<1>1. CASE NamespaceOwns(a, b)
  BY <1>1
<1>2. CASE a = b
  BY <1>2 DEF NamespaceOwns
<1>3. CASE Before(a, b) /\ NamespaceOwns(b, a) /\ a # b
  <2>1. HasPrefix(a, b) /\ Len(b) + 2 <= Len(a)
    BY <1>3 DEF NamespaceOwns
  <2>2. Len(a) \in Nat /\ Len(b) \in Nat
    BY DEF IsName
  <2>3. ~(Len(a) < Len(b))
    BY <2>1, <2>2
  <2>4. PICK i \in 1..Len(a) : i <= Len(b) /\ a[i] < b[i]
    BY <1>3, <2>3 DEF Before
  <2>5. a[i] = b[i] /\ a[i] \in Nat /\ b[i] \in Nat
    BY <2>1, <2>2, <2>4 DEF HasPrefix, IsName
  <2> QED
    BY <2>4, <2>5
<1> QED
  BY <1>1, <1>2, <1>3 DEF NotAfter, NamespacesOverlap

(* The names with a given prefix are an interval of the byte order. *)
LEMMA PrefixInterval ==
    ASSUME NEW a, NEW b, NEW c, IsName(a), IsName(b), IsName(c),
           Before(a, b), NotAfter(b, c), HasPrefix(c, a)
    PROVE  HasPrefix(b, a)
<1>0. /\ Len(a) \in Nat /\ Len(b) \in Nat /\ Len(c) \in Nat
      /\ \A n \in 1..Len(a) : a[n] \in Nat
      /\ \A n \in 1..Len(b) : b[n] \in Nat
      /\ \A n \in 1..Len(c) : c[n] \in Nat
  BY DEF IsName
<1>1. CASE b = c
  BY <1>1
<1>2. CASE Len(a) < Len(b) /\ HasPrefix(b, a)
  BY <1>2
<1>3. ASSUME NEW i \in 1..Len(a), i <= Len(b), a[i] < b[i],
             \A j \in 1..(i - 1) : a[j] = b[j], Before(b, c)
      PROVE  FALSE
  <2>1. c[i] = a[i] /\ i <= Len(c)
    BY <1>0, <1>3 DEF HasPrefix
  <2>2. a[i] \in Nat /\ b[i] \in Nat /\ c[i] \in Nat
    BY <1>0, <1>3, <2>1
  <2>3. CASE HasPrefix(c, b)
    <3>1. c[i] = b[i]
      BY <2>3, <1>3, <1>0 DEF HasPrefix
    <3> QED BY <3>1, <2>1, <2>2, <1>3
  <2>4. ASSUME NEW k \in 1..Len(b), k <= Len(c), b[k] < c[k],
               \A j \in 1..(k - 1) : b[j] = c[j]
        PROVE  FALSE
    <3>0. b[k] \in Nat /\ c[k] \in Nat
      BY <1>0, <2>4
    <3>1. CASE k < i
      <4>1. k \in 1..(i - 1) /\ k \in 1..Len(a)
        BY <3>1, <1>0, <1>3, <2>4
      <4>2. a[k] = b[k] /\ c[k] = a[k]
        BY <4>1, <1>3 DEF HasPrefix
      <4> QED BY <4>2, <3>0, <2>4
    <3>2. CASE k = i
      BY <3>2, <2>1, <2>2, <1>3, <2>4
    <3>3. CASE k > i
      <4>1. b[i] = c[i]
        BY <3>3, <1>0, <1>3, <2>4
      <4> QED BY <4>1, <2>1, <2>2, <1>3
    <3> QED BY <3>1, <3>2, <3>3, <1>0, <1>3, <2>4
  <2> QED BY <2>3, <2>4, <1>3 DEF Before
<1> QED
  BY <1>1, <1>2, <1>3 DEF Before, NotAfter

(* Between a namespace and a name it owns, the byte order has only names   *)
(* it owns, provided that none of them holds a digit.                      *)
LEMMA OwnedInterval ==
    ASSUME NEW a, NEW b, NEW c, IsName(a), IsName(b), IsName(c),
           NotAfter(a, b), NotAfter(b, c), NamespaceOwns(a, c),
           DigitFree(b), EndsInSegment(b)
    PROVE  NamespaceOwns(a, b)
<1> USE DEF IsName
<1>0. Len(a) \in Nat /\ Len(b) \in Nat /\ Len(c) \in Nat
  OBVIOUS
<1>1. CASE a = b
  BY <1>1 DEF NamespaceOwns
<1>2. CASE b = c
  BY <1>2
<1>3. CASE Before(a, b) /\ Before(b, c) /\ a # b /\ b # c
  <2>1. HasPrefix(c, a)
    BY <1>0 DEF NamespaceOwns, HasPrefix
  <2>2. HasPrefix(b, a)
    BY <1>3, <2>1, PrefixInterval DEF NotAfter
  <2>3. Len(b) > Len(a)
    <3>1. SUFFICES ASSUME Len(b) = Len(a) PROVE FALSE
      BY <2>2, <1>0 DEF HasPrefix
    <3>2. \A i \in 1..Len(a) : a[i] = b[i]
      BY <2>2 DEF HasPrefix
    <3>3. a = [i \in 1..Len(a) |-> a[i]] /\ b = [i \in 1..Len(b) |-> b[i]]
      OBVIOUS
    <3>4. a = b
      BY <3>1, <3>2, <3>3
    <3> QED BY <3>4, <1>3
  <2>4. a # c
    <3>1. SUFFICES ASSUME a = c PROVE FALSE
      OBVIOUS
    <3>2. PICK k \in 1..Len(b) : k <= Len(c) /\ b[k] < c[k]
      BY <3>1, <2>3, <1>0, <1>3 DEF Before
    <3>3. b[k] = c[k] /\ b[k] \in Nat
      BY <3>1, <3>2, <2>2, <1>0 DEF HasPrefix
    <3> QED BY <3>2, <3>3
  <2>5. Len(a) + 2 <= Len(c) /\ c[Len(a) + 1] = Colon /\ c[Len(a) + 2] = Colon
    BY <2>4 DEF NamespaceOwns
  <2>6. \A i \in 1..Len(a) : b[i] = c[i]
    BY <2>1, <2>2 DEF HasPrefix
  <2>7. b[Len(a) + 1] \in Nat /\ b[Len(a) + 1] >= Colon
    BY <1>0, <2>3 DEF DigitFree
  <2>8. b[Len(a) + 1] = Colon
    <3>1. CASE HasPrefix(c, b)
      <4>1. Len(a) + 1 \in 1..Len(b)
        BY <2>3, <1>0
      <4> QED BY <3>1, <4>1, <2>5 DEF HasPrefix
    <3>2. ASSUME NEW k \in 1..Len(b), k <= Len(c), b[k] < c[k],
                 \A j \in 1..(k - 1) : b[j] = c[j]
          PROVE  b[Len(a) + 1] = Colon
      <4>0. b[k] \in Nat /\ c[k] \in Nat
        BY <3>2, <1>0
      <4>1. ~(k <= Len(a))
        BY <4>0, <3>2, <2>6, <1>0
      <4>2. ~(k = Len(a) + 1)
        BY <3>2, <2>5, <2>7, <4>0 DEF Colon
      <4>3. Len(a) + 1 \in 1..(k - 1)
        BY <4>1, <4>2, <3>2, <1>0
      <4> QED BY <4>3, <3>2, <2>5
    <3> QED BY <3>1, <3>2, <1>3 DEF Before
  <2>9. Len(a) + 2 <= Len(b)
    BY <2>3, <2>8, <1>0 DEF EndsInSegment
  <2>10. b[Len(a) + 2] \in Nat /\ b[Len(a) + 2] >= Colon
    BY <1>0, <2>9 DEF DigitFree
  <2>11. b[Len(a) + 2] = Colon
    <3>1. CASE HasPrefix(c, b)
      BY <3>1, <2>9, <2>5, <1>0 DEF HasPrefix
    <3>2. ASSUME NEW k \in 1..Len(b), k <= Len(c), b[k] < c[k],
                 \A j \in 1..(k - 1) : b[j] = c[j]
          PROVE  b[Len(a) + 2] = Colon
      <4>0. b[k] \in Nat /\ c[k] \in Nat
        BY <3>2, <1>0
      <4>1. ~(k <= Len(a))
        BY <4>0, <3>2, <2>6, <1>0
      <4>2. ~(k = Len(a) + 1)
        BY <3>2, <2>5, <2>7, <4>0 DEF Colon
      <4>3. ~(k = Len(a) + 2)
        BY <3>2, <2>5, <2>10, <4>0 DEF Colon
      <4>4. ASSUME NEW l \in Nat, NEW m \in Nat, ~(m <= l), m # l + 1, m # l + 2
            PROVE  l + 2 \in 1..(m - 1)
        BY <4>4
      <4>5. Len(a) + 2 \in 1..(k - 1)
        BY <4>1, <4>2, <4>3, <4>4, <1>0
      <4> QED BY <4>5, <3>2, <2>5
    <3> QED BY <3>1, <3>2, <1>3 DEF Before
  <2> QED BY <2>2, <2>8, <2>9, <2>11 DEF NamespaceOwns
<1> QED
  BY <1>1, <1>2, <1>3 DEF NotAfter

(* manifest.rs and archive.rs: over sorted, digit-free namespaces the      *)
(* adjacent scan reports an overlap whenever any two of them overlap, so   *)
(* replacing the quadratic check by it lost nothing for such names.        *)
THEOREM AdjacentScanComplete ==
    ASSUME NEW names \in Seq(Seq(Nat)), NameSorted(names),
           \A i \in 1..Len(names) : DigitFree(names[i]) /\ EndsInSegment(names[i])
    PROVE  SomeOverlap(names) <=> AdjacentOverlap(names)
<1>0. Len(names) \in Nat /\ \A i \in 1..Len(names) : IsName(names[i])
  BY DEF IsName
<1>1. ASSUME AdjacentOverlap(names) PROVE SomeOverlap(names)
  <2>1. PICK i \in 1..(Len(names) - 1) : NamespacesOverlap(names[i], names[i + 1])
    BY <1>1 DEF AdjacentOverlap
  <2>2. i \in 1..Len(names) /\ i + 1 \in 1..Len(names) /\ i < i + 1
    BY <1>0
  <2> QED BY <2>1, <2>2 DEF SomeOverlap
<1>2. ASSUME SomeOverlap(names) PROVE AdjacentOverlap(names)
  <2>1. PICK i \in 1..Len(names), j \in 1..Len(names) :
           i < j /\ NamespacesOverlap(names[i], names[j])
    BY <1>2 DEF SomeOverlap
  <2>2. i \in 1..(Len(names) - 1) /\ i + 1 \in 1..Len(names) /\ i < i + 1
    BY <1>0, <2>1
  <2>3. NamespaceOwns(names[i], names[j])
    BY <1>0, <2>1, EarlierOwns DEF NameSorted
  <2>4. NotAfter(names[i], names[i + 1])
    BY <2>2 DEF NameSorted
  <2>5. NotAfter(names[i + 1], names[j])
    <3>1. CASE i + 1 = j
      BY <3>1 DEF NotAfter
    <3>2. CASE i + 1 < j
      BY <3>2, <2>2 DEF NameSorted
    <3> QED BY <3>1, <3>2, <2>1
  <2>6. NamespaceOwns(names[i], names[i + 1])
    BY <1>0, <2>2, <2>3, <2>4, <2>5, OwnedInterval
  <2> QED BY <2>2, <2>6 DEF AdjacentOverlap, NamespacesOverlap
<1> QED BY <1>1, <1>2

(***************************************************************************)
(* The verdict of the scan over a list in any order: some overlapping pair *)
(* has no third name strictly between its two.                             *)
(***************************************************************************)
Permutes(p, n) ==
    /\ p \in [1..n -> 1..n]
    /\ \A i, j \in 1..n : p[i] = p[j] => i = j
    /\ \A k \in 1..n : \E i \in 1..n : p[i] = k

Between(names, i, j) == {k \in (1..Len(names)) \ {i, j} :
    ~NotAfter(names[k], names[i]) /\ ~NotAfter(names[j], names[k])}

NeighboursOverlap(names) ==
    \E i, j \in 1..Len(names) :
        /\ i # j
        /\ NamespacesOverlap(names[i], names[j])
        /\ NotAfter(names[i], names[j])
        /\ Between(names, i, j) = {}

AnyOverlap(names) == \E i, j \in 1..Len(names) : i # j /\ NamespacesOverlap(names[i], names[j])

LEMMA SortingPermutes ==
    ASSUME NEW names \in Seq(Seq(Nat))
    PROVE  /\ Permutes(Sorting(names), Len(names))
           /\ \A i, j \in 1..Len(names) :
                i < j => NotAfter(names[Sorting(names)[i]], names[Sorting(names)[j]])
  BY SortingSorts DEF Sorts, Permutes

LEMMA SortedNamesFacts ==
    ASSUME NEW names \in Seq(Seq(Nat))
    PROVE  /\ SortedNames(names) \in Seq(Seq(Nat))
           /\ Len(SortedNames(names)) = Len(names)
           /\ \A i \in 1..Len(names) : SortedNames(names)[i] = names[Sorting(names)[i]]
           /\ NameSorted(SortedNames(names))
<1> DEFINE n == Len(names)
           p == Sorting(names)
           s == SortedNames(names)
<1>0. n \in Nat /\ Permutes(p, n) /\ \A i \in 1..n : names[i] \in Seq(Nat)
  BY SortingPermutes
<1>1. \A i \in 1..n : p[i] \in 1..n /\ names[p[i]] \in Seq(Nat)
  <2> HIDE DEF n, p
  <2> QED BY <1>0 DEF Permutes
<1>2. s = [i \in 1..n |-> names[p[i]]]
  BY DEF SortedNames
<1>3. \A i, j \in 1..n : i < j => NotAfter(names[p[i]], names[p[j]])
  BY SortingPermutes
<1> HIDE DEF n, p, s
<1>4. s \in Seq(Seq(Nat)) /\ Len(s) = n /\ \A i \in 1..n : s[i] = names[p[i]]
  BY <1>0, <1>1, <1>2
<1>5. NameSorted(s)
  BY <1>3, <1>4 DEF NameSorted
<1> QED BY <1>4, <1>5 DEF n, p, s

LEMMA ScanIsOfNeighbours ==
    ASSUME NEW names \in Seq(Seq(Nat))
    PROVE  AdjacentOverlap(SortedNames(names)) <=> NeighboursOverlap(names)
<1> DEFINE n == Len(names)
           p == Sorting(names)
           s == SortedNames(names)
<1>0. n \in Nat /\ Permutes(p, n) /\ \A i \in 1..n : IsName(names[i])
  BY SortingPermutes DEF IsName
<1>1. Len(s) = n /\ \A i \in 1..n : s[i] = names[p[i]] /\ p[i] \in 1..n
  BY <1>0, SortedNamesFacts DEF Permutes
<1>2. \A i, j \in 1..n : i < j => NotAfter(s[i], s[j])
  BY <1>1, SortedNamesFacts DEF NameSorted
<1>3. \A i \in 1..n : IsName(s[i])
  BY <1>0, <1>1
<1>e. n = Len(names)
  OBVIOUS
<1> HIDE DEF n, p, s
<1>4. ASSUME NEW i \in 1..(n - 1), NamespacesOverlap(s[i], s[i + 1]) PROVE NeighboursOverlap(names)
  <2>1. i \in 1..n /\ i + 1 \in 1..n /\ i < i + 1
    BY <1>0
  <2>2. p[i] # p[i + 1] /\ p[i] \in 1..n /\ p[i + 1] \in 1..n
    BY <1>0, <2>1 DEF Permutes
  <2>3. Between(names, p[i], p[i + 1]) = {}
    <3> SUFFICES ASSUME NEW k \in 1..n, k # p[i], k # p[i + 1],
                        ~NotAfter(names[k], names[p[i]]), ~NotAfter(names[p[i + 1]], names[k])
                 PROVE  FALSE
      BY <1>e DEF Between
    <3>1. PICK l \in 1..n : p[l] = k
      BY <1>0 DEF Permutes
    <3>2. l # i /\ l # i + 1 /\ names[k] = s[l] /\ names[p[i]] = s[i] /\ names[p[i + 1]] = s[i + 1]
      BY <1>1, <2>1, <3>1
    <3>3. l < i \/ i + 1 < l
      BY <1>0, <2>1, <3>2
    <3> QED BY <1>2, <2>1, <3>2, <3>3
  <2>4. NamespacesOverlap(names[p[i]], names[p[i + 1]]) /\ NotAfter(names[p[i]], names[p[i + 1]])
    BY <1>1, <1>2, <1>4, <2>1
  <2> QED BY <1>e, <2>2, <2>3, <2>4 DEF NeighboursOverlap
<1>5. ASSUME NEW i \in 1..n, i + 1 \in 1..n, NamespacesOverlap(s[i], s[i + 1]) PROVE AdjacentOverlap(s)
  <2>1. i \in 1..(Len(s) - 1)
    BY <1>0, <1>1, <1>5
  <2> QED BY <1>5, <2>1 DEF AdjacentOverlap
<1>6. ASSUME NEW i \in 1..n, NEW j \in 1..n, i < j, NamespacesOverlap(s[i], s[j]),
             \A k \in 1..n : k # i /\ k # j => NotAfter(s[k], s[i]) \/ NotAfter(s[j], s[k])
      PROVE  AdjacentOverlap(s)
  <2>1. i + 1 \in 1..n /\ i < i + 1
    BY <1>0, <1>6
  <2>2. CASE i + 1 = j
    BY <1>5, <1>6, <2>1, <2>2
  <2>3. CASE i + 1 # j
    <3>1. i + 1 < j /\ i + 1 # i
      BY <1>0, <1>6, <2>1, <2>3
    <3>2. NotAfter(s[i], s[i + 1]) /\ NotAfter(s[i + 1], s[j])
      BY <1>2, <2>1, <3>1
    <3>3. NotAfter(s[i + 1], s[i]) \/ NotAfter(s[j], s[i + 1])
      BY <1>6, <2>1, <2>3, <3>1
    <3>4. s[i + 1] = s[i] \/ s[i + 1] = s[j]
      BY <1>3, <2>1, <3>2, <3>3, NotAfterAntisymmetric
    <3>5. NamespacesOverlap(s[i], s[i + 1])
      BY <1>6, <3>4 DEF NamespacesOverlap, NamespaceOwns
    <3> QED BY <1>5, <2>1, <3>5
  <2> QED BY <2>2, <2>3
<1>7. ASSUME NEW a \in 1..n, NEW b \in 1..n, a # b, NamespacesOverlap(names[a], names[b]),
             NotAfter(names[a], names[b]), Between(names, a, b) = {}
      PROVE  AdjacentOverlap(s)
  <2>1. PICK i \in 1..n, j \in 1..n : p[i] = a /\ p[j] = b
    BY <1>0 DEF Permutes
  <2>2. i # j /\ s[i] = names[a] /\ s[j] = names[b]
    BY <1>1, <1>7, <2>1
  <2>3. \A k \in 1..n : k # i /\ k # j => NotAfter(s[k], s[i]) \/ NotAfter(s[j], s[k])
    <3> SUFFICES ASSUME NEW k \in 1..n, k # i, k # j PROVE NotAfter(s[k], s[i]) \/ NotAfter(s[j], s[k])
      OBVIOUS
    <3>1. p[k] \in 1..n /\ p[k] # a /\ p[k] # b /\ s[k] = names[p[k]]
      BY <1>0, <1>1, <2>1 DEF Permutes
    <3>2. p[k] \notin Between(names, a, b)
      BY <1>7
    <3> QED BY <1>e, <2>2, <3>1, <3>2 DEF Between
  <2>4. CASE i < j
    BY <1>6, <1>7, <2>2, <2>3, <2>4
  <2>5. CASE j < i
    <3>1. s[i] = s[j]
      BY <1>2, <1>3, <1>7, <2>2, <2>5, NotAfterAntisymmetric
    <3>2. NamespacesOverlap(s[j], s[i])
      BY <3>1 DEF NamespacesOverlap, NamespaceOwns
    <3>3. \A k \in 1..n : k # j /\ k # i => NotAfter(s[k], s[j]) \/ NotAfter(s[i], s[k])
      BY <2>3, <3>1
    <3> QED BY <1>6, <2>5, <3>2, <3>3
  <2> QED BY <2>2, <2>4, <2>5
<1>8. ASSUME AdjacentOverlap(s) PROVE \E i \in 1..(n - 1) : NamespacesOverlap(s[i], s[i + 1])
  BY <1>1, <1>8 DEF AdjacentOverlap
<1>9. ASSUME NeighboursOverlap(names) PROVE AdjacentOverlap(s)
  BY <1>7, <1>9, <1>e DEF NeighboursOverlap
<1> QED BY <1>4, <1>8, <1>9 DEF s

(* Neither overlap relation depends on the order of the list.              *)
LEMMA OverlapsPermuted ==
    ASSUME NEW names \in Seq(Seq(Nat)), NEW other \in Seq(Seq(Nat)), NEW p,
           Permutes(p, Len(names)), Len(other) = Len(names),
           \A i \in 1..Len(names) : other[i] = names[p[i]]
    PROVE  /\ NeighboursOverlap(other) <=> NeighboursOverlap(names)
           /\ AnyOverlap(other) <=> AnyOverlap(names)
<1> DEFINE n == Len(names)
<1>e. n = Len(names) /\ n = Len(other)
  OBVIOUS
<1> HIDE DEF n
<1>0. /\ \A i \in 1..n : p[i] \in 1..n /\ other[i] = names[p[i]]
      /\ \A i, j \in 1..n : p[i] = p[j] => i = j
      /\ \A k \in 1..n : \E i \in 1..n : p[i] = k
  BY <1>e DEF Permutes
<1>1. \A i, j \in 1..n : i # j <=> p[i] # p[j]
  BY <1>0
<1>2. ASSUME NEW i \in 1..n, NEW j \in 1..n
      PROVE  Between(other, i, j) = {} <=> Between(names, p[i], p[j]) = {}
  <2>1. ASSUME NEW k \in Between(other, i, j) PROVE p[k] \in Between(names, p[i], p[j])
    BY <1>0, <1>e, <2>1 DEF Between
  <2>2. ASSUME NEW l \in Between(names, p[i], p[j]) PROVE \E k \in 1..n : k \in Between(other, i, j)
    <3>1. l \in 1..n /\ l # p[i] /\ l # p[j]
      BY <1>e, <2>2 DEF Between
    <3>2. PICK k \in 1..n : p[k] = l
      BY <1>0, <3>1
    <3> QED BY <1>0, <1>e, <2>2, <3>1, <3>2 DEF Between
  <2> QED BY <2>1, <2>2
<1>3. ASSUME NeighboursOverlap(other) PROVE NeighboursOverlap(names)
  <2>1. PICK i \in 1..n, j \in 1..n : /\ i # j /\ NamespacesOverlap(other[i], other[j])
                                      /\ NotAfter(other[i], other[j]) /\ Between(other, i, j) = {}
    BY <1>3, <1>e DEF NeighboursOverlap
  <2>2. p[i] \in 1..n /\ p[j] \in 1..n /\ other[i] = names[p[i]] /\ other[j] = names[p[j]]
    BY <1>0
  <2>3. p[i] # p[j] /\ Between(names, p[i], p[j]) = {}
    BY <1>1, <1>2, <2>1
  <2> QED BY <1>e, <2>1, <2>2, <2>3 DEF NeighboursOverlap
<1>4. ASSUME NeighboursOverlap(names) PROVE NeighboursOverlap(other)
  <2>1. PICK a \in 1..n, b \in 1..n : /\ a # b /\ NamespacesOverlap(names[a], names[b])
                                      /\ NotAfter(names[a], names[b]) /\ Between(names, a, b) = {}
    BY <1>4, <1>e DEF NeighboursOverlap
  <2>2. PICK i \in 1..n, j \in 1..n : p[i] = a /\ p[j] = b
    BY <1>0
  <2>3. i # j /\ Between(other, i, j) = {} /\ other[i] = names[a] /\ other[j] = names[b]
    BY <1>0, <1>2, <2>1, <2>2
  <2> QED BY <1>e, <2>1, <2>3 DEF NeighboursOverlap
<1>5. ASSUME AnyOverlap(other) PROVE AnyOverlap(names)
  <2>1. PICK i \in 1..n, j \in 1..n : i # j /\ NamespacesOverlap(other[i], other[j])
    BY <1>5, <1>e DEF AnyOverlap
  <2>2. p[i] \in 1..n /\ p[j] \in 1..n /\ p[i] # p[j]
        /\ NamespacesOverlap(names[p[i]], names[p[j]])
    BY <1>0, <1>1, <2>1
  <2> QED BY <1>e, <2>2 DEF AnyOverlap
<1>6. ASSUME AnyOverlap(names) PROVE AnyOverlap(other)
  <2>1. PICK a \in 1..n, b \in 1..n : a # b /\ NamespacesOverlap(names[a], names[b])
    BY <1>6, <1>e DEF AnyOverlap
  <2>2. PICK i \in 1..n, j \in 1..n : p[i] = a /\ p[j] = b
    BY <1>0
  <2>3. i # j /\ NamespacesOverlap(other[i], other[j])
    BY <1>0, <2>1, <2>2
  <2> QED BY <1>e, <2>3 DEF AnyOverlap
<1> QED BY <1>3, <1>4, <1>5, <1>6

LEMMA AnyOverlapIsSome ==
    ASSUME NEW names \in Seq(Seq(Nat))
    PROVE  AnyOverlap(names) <=> SomeOverlap(names)
<1>1. Len(names) \in Nat
  OBVIOUS
<1>2. \A a, b : NamespacesOverlap(a, b) <=> NamespacesOverlap(b, a)
  BY DEF NamespacesOverlap
<1> QED BY <1>1, <1>2 DEF AnyOverlap, SomeOverlap

(* For names without digits the scan decides exactly whether two overlap.  *)
LEMMA ScanExact ==
    ASSUME NEW names \in Seq(Seq(Nat)),
           \A i \in 1..Len(names) : DigitFree(names[i]) /\ EndsInSegment(names[i])
    PROVE  AdjacentOverlap(SortedNames(names)) <=> AnyOverlap(names)
<1> DEFINE s == SortedNames(names)
           p == Sorting(names)
<1>1. Permutes(p, Len(names)) /\ s \in Seq(Seq(Nat)) /\ Len(s) = Len(names) /\ NameSorted(s)
      /\ \A i \in 1..Len(names) : s[i] = names[p[i]]
  BY SortingPermutes, SortedNamesFacts
<1> HIDE DEF s, p
<1>2. \A i \in 1..Len(s) : DigitFree(s[i]) /\ EndsInSegment(s[i])
  BY <1>1 DEF Permutes
<1>3. SomeOverlap(s) <=> AdjacentOverlap(s)
  BY <1>1, <1>2, AdjacentScanComplete
<1>4. AnyOverlap(s) <=> AnyOverlap(names)
  BY <1>1, OverlapsPermuted
<1>5. AnyOverlap(s) <=> SomeOverlap(s)
  BY <1>1, AnyOverlapIsSome
<1> QED BY <1>3, <1>4, <1>5 DEF s

(***************************************************************************)
(* The diagnostics of one manifest.                                        *)
(***************************************************************************)
(* Neither a repeated import nor an import of oneself: the names differ.   *)
LEMMA NamesCounted ==
    ASSUME NEW namespace, NEW imports \in Seq(Seq(Nat))
    PROVE  Cardinality({namespace} \cup ElementsOf(imports)) = Len(imports) + 1
             <=> ~HasRepeats(imports) /\ namespace \notin ElementsOf(imports)
<1> DEFINE n == Len(imports)
           names == {namespace} \cup ElementsOf(imports)
           f == [i \in 1..(n + 1) |-> IF i = n + 1 THEN namespace ELSE imports[i]]
<1>0. n \in Nat /\ n + 1 \in 1..(n + 1)
  OBVIOUS
<1>1. /\ f \in [1..(n + 1) -> names]
      /\ f[n + 1] = namespace
      /\ \A i \in 1..n : i \in 1..(n + 1) /\ i # n + 1 /\ f[i] = imports[i]
      /\ \A i \in 1..(n + 1) : i = n + 1 \/ i \in 1..n
  <2>1. \A i \in 1..(n + 1) : i = n + 1 \/ i \in 1..n
    BY <1>0
  <2>2. \A i \in 1..n : imports[i] \in names
    BY DEF ElementsOf
  <2> QED BY <1>0, <2>1, <2>2
<1>e. /\ n = Len(imports)
      /\ \A x : x \in names <=> x = namespace \/ \E i \in 1..n : x = imports[i]
  BY DEF ElementsOf
<1> HIDE DEF n, names, f
<1>2. f \in Surjection(1..(n + 1), names)
  <2>1. \A x \in names : \E i \in 1..(n + 1) : f[i] = x
    BY <1>0, <1>1, <1>e
  <2> QED BY <1>1, <2>1 DEF Surjection
<1>3. IsFiniteSet(1..(n + 1)) /\ Cardinality(1..(n + 1)) = n + 1
  BY <1>0, FS_Interval
<1>4. Cardinality(names) = n + 1 <=> f \in Injection(1..(n + 1), names)
  BY <1>2, <1>3, FS_Surjection
<1>5. f \in Injection(1..(n + 1), names) <=> \A i, j \in 1..(n + 1) : f[i] = f[j] => i = j
  BY <1>1 DEF Injection, IsInjective
<1>6. ASSUME \A i, j \in 1..(n + 1) : f[i] = f[j] => i = j
      PROVE  ~HasRepeats(imports) /\ namespace \notin ElementsOf(imports)
  <2>1. \A i, j \in 1..n : imports[i] = imports[j] => i = j
    BY <1>1, <1>6
  <2>2. \A i \in 1..n : imports[i] # namespace
    BY <1>0, <1>1, <1>6
  <2> QED BY <1>e, <2>1, <2>2 DEF HasRepeats, ElementsOf
<1>7. ASSUME ~HasRepeats(imports), namespace \notin ElementsOf(imports)
      PROVE  \A i, j \in 1..(n + 1) : f[i] = f[j] => i = j
  <2>1. \A i, j \in 1..n : imports[i] = imports[j] => i = j
    BY <1>7, <1>e DEF HasRepeats
  <2>2. \A i \in 1..n : imports[i] # namespace
    BY <1>7, <1>e DEF ElementsOf
  <2> QED BY <1>1, <2>1, <2>2
<1> QED BY <1>4, <1>5, <1>6, <1>7, <1>e DEF names

LEMMA FileShape ==
    ASSUME NEW m \in ManifestFiles \ {Absent, Garbled}
    PROVE  m.name \in Seq(Nat) /\ m.namespace \in Seq(Nat) /\ m.imports \in Seq(Seq(Nat))
  BY ManifestsAssumption

LEMMA NamespaceDiagnosticsExact ==
    ASSUME NEW n
    PROVE  NamespaceDiagnostics(n) = {} <=> n \in CedarNames
  BY CedarNamesAssumption DEF NamespaceDiagnostics

LEMMA InputDiagnosticsExact ==
    ASSUME NEW input, NEW where \in [Inputs -> Locations]
    PROVE  InputDiagnostics(input, where) = {}
             <=> input \in ExplicitInputs /\ where[input] = "inside"
<1>1. CASE input \notin ExplicitInputs
  BY <1>1 DEF InputDiagnostics
<1>2. CASE input \in ExplicitInputs
  <2>1. where[input] \in {"inside", "outside", "missing"}
    BY <1>2, ManifestsAssumption DEF Locations
  <2>2. CASE where[input] = "inside"
    BY <1>2, <2>2 DEF InputDiagnostics
  <2>3. CASE where[input] = "outside"
    BY <1>2, <2>3 DEF InputDiagnostics
  <2>4. CASE where[input] = "missing"
    BY <1>2, <2>4 DEF InputDiagnostics
  <2> QED BY <2>1, <2>2, <2>3, <2>4
<1> QED BY <1>1, <1>2

(* What a module manifest without diagnostics is like. *)
ManifestSound(m, where) ==
    /\ m.version = FormatVersion
    /\ ~Blank(m.name)
    /\ m.namespace \in CedarNames
    /\ ElementsOf(m.imports) \subseteq CedarNames
    /\ ~HasRepeats(m.imports)
    /\ m.namespace \notin ElementsOf(m.imports)
    /\ \A input \in InputsOf(m) : input \in ExplicitInputs /\ where[input] = "inside"

LEMMA ModuleDiagnosticsExact ==
    ASSUME NEW m, NEW where \in [Inputs -> Locations]
    PROVE  ModuleDiagnostics(m, where) = {} <=> ManifestSound(m, where)
<1> DEFINE a == IF m.version # FormatVersion THEN {"unsupported_version"} ELSE {}
           b == IF Blank(m.name) THEN {"empty_name"} ELSE {}
           c == NamespaceDiagnostics(m.namespace)
           d == UNION {NamespaceDiagnostics(n) : n \in ElementsOf(m.imports)}
           e == IF HasRepeats(m.imports) THEN {"duplicate_import"} ELSE {}
           f == IF m.namespace \in ElementsOf(m.imports) THEN {"self_import"} ELSE {}
           g == UNION {InputDiagnostics(input, where) : input \in InputsOf(m)}
<1>1. a = {} <=> m.version = FormatVersion
  OBVIOUS
<1>2. b = {} <=> ~Blank(m.name)
  OBVIOUS
<1>3. c = {} <=> m.namespace \in CedarNames
  BY NamespaceDiagnosticsExact
<1>4. d = {} <=> ElementsOf(m.imports) \subseteq CedarNames
  <2>1. d = {} <=> \A n \in ElementsOf(m.imports) : NamespaceDiagnostics(n) = {}
    OBVIOUS
  <2> QED BY <2>1, NamespaceDiagnosticsExact
<1>5. e = {} <=> ~HasRepeats(m.imports)
  OBVIOUS
<1>6. f = {} <=> m.namespace \notin ElementsOf(m.imports)
  OBVIOUS
<1>7. g = {} <=> \A input \in InputsOf(m) : input \in ExplicitInputs /\ where[input] = "inside"
  <2>1. g = {} <=> \A input \in InputsOf(m) : InputDiagnostics(input, where) = {}
    OBVIOUS
  <2> QED BY <2>1, InputDiagnosticsExact
<1>8. ModuleDiagnostics(m, where) = a \cup b \cup c \cup d \cup e \cup f \cup g
  BY DEF ModuleDiagnostics
<1> HIDE DEF a, b, c, d, e, f, g
<1>9. ModuleDiagnostics(m, where) = {}
        <=> a = {} /\ b = {} /\ c = {} /\ d = {} /\ e = {} /\ f = {} /\ g = {}
  BY <1>8
<1> QED BY <1>1, <1>2, <1>3, <1>4, <1>5, <1>6, <1>7, <1>9 DEF ManifestSound

LEMMA RootDiagnosticsExact ==
    ASSUME NEW r
    PROVE  RootDiagnostics(r) = {}
             <=> r.version = FormatVersion /\ ~Blank(r.name) /\ r.modules # <<>>
<1> DEFINE a == IF r.version # FormatVersion THEN {"unsupported_version"} ELSE {}
           b == IF Blank(r.name) THEN {"empty_name"} ELSE {}
           c == IF r.modules = <<>> THEN {"empty_modules"} ELSE {}
<1>1. /\ a = {} <=> r.version = FormatVersion
      /\ b = {} <=> ~Blank(r.name)
      /\ c = {} <=> r.modules # <<>>
  OBVIOUS
<1>2. RootDiagnostics(r) = a \cup b \cup c
  BY DEF RootDiagnostics
<1> HIDE DEF a, b, c
<1>3. RootDiagnostics(r) = {} <=> a = {} /\ b = {} /\ c = {}
  BY <1>2
<1> QED BY <1>1, <1>3

LEMMA ModuleSetDiagnosticsExact ==
    ASSUME NEW ms
    PROVE  ModuleSetDiagnostics(ms) = {}
             <=> /\ ~HasRepeats(NamesOf(ms))
                 /\ ~AdjacentOverlap(SortedNames(NamespacesOf(ms)))
                 /\ \A i \in 1..Len(ms) : ElementsOf(ms[i].imports) \subseteq ElementsOf(NamespacesOf(ms))
<1> DEFINE Unresolved == \E i \in 1..Len(ms) :
                            ~(ElementsOf(ms[i].imports) \subseteq ElementsOf(NamespacesOf(ms)))
           a == IF HasRepeats(NamesOf(ms)) THEN {"duplicate_module_name"} ELSE {}
           b == IF AdjacentOverlap(SortedNames(NamespacesOf(ms))) THEN {"overlapping_namespaces"} ELSE {}
           c == IF Unresolved THEN {"unresolved_import"} ELSE {}
<1>1. /\ a = {} <=> ~HasRepeats(NamesOf(ms))
      /\ b = {} <=> ~AdjacentOverlap(SortedNames(NamespacesOf(ms)))
      /\ c = {} <=> ~Unresolved
  OBVIOUS
<1>2. ModuleSetDiagnostics(ms) = a \cup b \cup c
  BY DEF ModuleSetDiagnostics
<1> HIDE DEF a, b, c
<1>3. ModuleSetDiagnostics(ms) = {} <=> a = {} /\ b = {} /\ c = {}
  BY <1>2
<1> QED BY <1>1, <1>3

(***************************************************************************)
(* The inductive invariant: what a load has established of the files it    *)
(* has read so far, as they were when it read them.                        *)
(***************************************************************************)
Roots == {d.root : d \in Disks} \ {Absent, Garbled}
Reads == [file : ManifestFiles \cup {Absent}, where : [Inputs -> Locations]]
Outcomes == {"loading", "ok", "io", "manifest", "invalid"}

(* A selection, and the file read for it, to which from_path has no objection. *)
Good(selection, read) ==
    /\ selection.manifest \notin AbsolutePaths
    /\ ModuleDiagnostics(read.file, read.where) = {}

Decoded(selection, read) ==
    selection.manifest \notin AbsolutePaths => read.file \in ManifestFiles \ {Absent, Garbled}

SoundSoFar(r, s) == RootDiagnostics(r) = {} /\ \A i \in 1..Len(s) : Good(r.modules[i], s[i])

LoadedOf(r, s) == [i \in 1..Len(s) |-> Selected(s[i].file, r.modules[i].role)]

AcceptedAs(r, s) == SoundSoFar(r, s) /\ ModuleSetDiagnostics(LoadedOf(r, s)) = {}

Progress(r, pos, ms, ds, out, s) ==
    /\ out \in Outcomes
    /\ r \in Roots
    /\ s \in Seq(Reads)
    /\ pos = Len(s) + 1
    /\ Len(s) <= Len(r.modules)
    /\ out \in {"loading", "ok", "invalid"} => \A i \in 1..Len(s) : Decoded(r.modules[i], s[i])
    /\ out = "loading" => /\ ds = {} <=> SoundSoFar(r, s)
                          /\ ds = {} => ms = LoadedOf(r, s)
    /\ out = "io" => Len(s) > 0 /\ s[Len(s)].file = Absent
    /\ out = "manifest" => Len(s) > 0 /\ s[Len(s)].file = Garbled
    /\ out \in {"ok", "invalid"} => Len(s) = Len(r.modules)
    /\ out = "ok" => AcceptedAs(r, s) /\ ms = SortedByName(LoadedOf(r, s))
    /\ out = "invalid" => ~AcceptedAs(r, s)

DiskInv ==
    /\ root \in {d.root : d \in Disks}
    /\ files \in [Paths -> ManifestFiles]
    /\ location \in [Inputs -> Locations]

LoadInv ==
    /\ raw = NotLoaded =>
         /\ position = 1 /\ modules = <<>> /\ diagnostics = {} /\ seen = <<>>
         /\ outcome \in {"loading", "io", "manifest"}
    /\ raw # NotLoaded => Progress(raw, position, modules, diagnostics, outcome, seen)

IInv == DiskInv /\ LoadInv

(***************************************************************************)
(* One more file read.                                                     *)
(***************************************************************************)
LEMMA RootShape ==
    ASSUME NEW r \in Roots
    PROVE  /\ r # NotLoaded
           /\ r.modules \in Seq([manifest : Paths \cup AbsolutePaths, role : {"ordinary", "global"}])
  BY ManifestsAssumption DEF Roots

LEMMA SoFarExtends ==
    ASSUME NEW r, NEW s \in Seq(Reads), NEW read \in Reads
    PROVE  SoundSoFar(r, Append(s, read)) <=> SoundSoFar(r, s) /\ Good(r.modules[Len(s) + 1], read)
<1> DEFINE t == Append(s, read)
           n == Len(s)
<1>1. n \in Nat /\ Len(t) = n + 1 /\ t[n + 1] = read /\ \A i \in 1..n : t[i] = s[i]
  OBVIOUS
<1>e. n = Len(s)
  OBVIOUS
<1> HIDE DEF t, n
<1>2. \A i : i \in 1..(n + 1) <=> i \in 1..n \/ i = n + 1
  BY <1>1
<1>3. (\A i \in 1..Len(t) : Good(r.modules[i], t[i]))
        <=> (\A i \in 1..n : Good(r.modules[i], s[i])) /\ Good(r.modules[n + 1], read)
  BY <1>1, <1>2
<1> QED BY <1>3, <1>e DEF SoundSoFar, t

LEMMA LoadedExtends ==
    ASSUME NEW r, NEW s \in Seq(Reads), NEW read \in Reads
    PROVE  LoadedOf(r, Append(s, read))
             = Append(LoadedOf(r, s), Selected(read.file, r.modules[Len(s) + 1].role))
<1> DEFINE n == Len(s)
           t == Append(s, read)
           module(i, one) == Selected(one.file, r.modules[i].role)
           m == module(n + 1, read)
<1>1. n \in Nat /\ Len(t) = n + 1 /\ t[n + 1] = read /\ \A i \in 1..n : t[i] = s[i]
  OBVIOUS
<1>2. LoadedOf(r, s) = [i \in 1..n |-> module(i, s[i])]
  BY DEF LoadedOf
<1>3. LoadedOf(r, t) = [i \in 1..Len(t) |-> module(i, t[i])]
  BY DEF LoadedOf
<1> HIDE DEF n, t, module, m
<1>4. LoadedOf(r, t) = [i \in 1..(n + 1) |-> IF i = n + 1 THEN m ELSE module(i, s[i])]
  <2>1. \A i \in 1..(n + 1) : module(i, t[i]) = IF i = n + 1 THEN m ELSE module(i, s[i])
    <3> SUFFICES ASSUME NEW i \in 1..(n + 1)
                 PROVE  module(i, t[i]) = IF i = n + 1 THEN m ELSE module(i, s[i])
      OBVIOUS
    <3>1. CASE i = n + 1
      <4>1. t[i] = read
        BY <1>1, <3>1
      <4> QED BY <3>1, <4>1 DEF m
    <3>2. CASE i # n + 1
      <4>1. t[i] = s[i]
        BY <1>1, <3>2
      <4> QED BY <3>2, <4>1
    <3> QED BY <3>1, <3>2
  <2> QED BY <1>1, <1>3, <2>1
<1> DEFINE q == LoadedOf(r, s)
<1> DEFINE M == {module(i, s[i]) : i \in 1..n}
<1>5. Len(q) = n /\ q \in Seq(M) /\ \A i \in 1..n : q[i] = module(i, s[i])
  <2>1. \A i \in 1..n : module(i, s[i]) \in M
    OBVIOUS
  <2> HIDE DEF M
  <2>2. q = [i \in 1..n |-> module(i, s[i])]
    BY <1>2
  <2>3. q \in [1..n -> M] /\ \A i \in 1..n : q[i] = module(i, s[i])
    <3> HIDE DEF q
    <3> QED BY <2>1, <2>2
  <2> HIDE DEF q
  <2> QED BY <1>1, <2>3
<1> HIDE DEF q, M
<1>6. Append(q, m) = [i \in 1..(n + 1) |-> IF i = n + 1 THEN m ELSE q[i]]
  <2> DEFINE a == Append(q, m)
             N == M \cup {m}
  <2>1. q \in Seq(N) /\ m \in N
    BY <1>5
  <2> HIDE DEF N
  <2>2. /\ a \in Seq(N) /\ Len(a) = n + 1 /\ a[n + 1] = m
        /\ \A i \in 1..n : a[i] = q[i]
    BY <1>1, <1>5, <2>1
  <2> HIDE DEF a
  <2>3. a = [i \in 1..(n + 1) |-> a[i]]
    BY <2>2
  <2>4. \A i \in 1..(n + 1) : a[i] = IF i = n + 1 THEN m ELSE q[i]
    BY <1>1, <2>2
  <2>5. a = [i \in 1..(n + 1) |-> IF i = n + 1 THEN m ELSE q[i]]
    BY <2>3, <2>4
  <2> QED BY <2>5 DEF a
<1>7. \A i \in 1..(n + 1) : i # n + 1 => i \in 1..n
  BY <1>1
<1>8. Append(q, m) = LoadedOf(r, t)
  BY <1>4, <1>5, <1>6, <1>7
<1> QED BY <1>8 DEF q, t, m, n, module

LEMMA ReadStep ==
    ASSUME NEW r, NEW pos, NEW ms, NEW ds, NEW s,
           Progress(r, pos, ms, ds, "loading", s), pos <= Len(r.modules),
           NEW read \in Reads, Decoded(r.modules[pos], read), NEW ds2, NEW ms2,
           ds2 = {} <=> ds = {} /\ Good(r.modules[pos], read),
           ds2 = {} => ms2 = Append(ms, Selected(read.file, r.modules[pos].role))
    PROVE  Progress(r, pos + 1, ms2, ds2, "loading", Append(s, read))
<1> DEFINE t == Append(s, read)
           n == Len(s)
<1>0. /\ r \in Roots /\ s \in Seq(Reads) /\ pos = n + 1
      /\ \A i \in 1..n : Decoded(r.modules[i], s[i])
      /\ ds = {} <=> SoundSoFar(r, s)
      /\ ds = {} => ms = LoadedOf(r, s)
  BY DEF Progress, Outcomes
<1>1. n \in Nat /\ t \in Seq(Reads) /\ Len(t) = n + 1 /\ t[n + 1] = read /\ \A i \in 1..n : t[i] = s[i]
  BY <1>0
<1>2. SoundSoFar(r, t) <=> SoundSoFar(r, s) /\ Good(r.modules[n + 1], read)
  BY <1>0, SoFarExtends
<1>3. LoadedOf(r, t) = Append(LoadedOf(r, s), Selected(read.file, r.modules[n + 1].role))
  BY <1>0, LoadedExtends
<1> HIDE DEF t, n
<1>4. \A i \in 1..Len(t) : Decoded(r.modules[i], t[i])
  <2> SUFFICES ASSUME NEW i \in 1..Len(t) PROVE Decoded(r.modules[i], t[i])
    OBVIOUS
  <2>1. CASE i = n + 1
    BY <1>0, <1>1, <2>1
  <2>2. CASE i # n + 1
    <3>1. i \in 1..n /\ t[i] = s[i]
      BY <1>1, <2>2
    <3> QED BY <1>0, <3>1
  <2> QED BY <2>1, <2>2
<1>5. ds2 = {} <=> SoundSoFar(r, t)
  BY <1>0, <1>2
<1>6. ds2 = {} => ms2 = LoadedOf(r, t)
  BY <1>0, <1>3
<1>7. pos + 1 = Len(t) + 1 /\ Len(t) <= Len(r.modules)
  BY <1>0, <1>1
<1>8. Progress(r, pos + 1, ms2, ds2, "loading", t)
  BY <1>0, <1>1, <1>4, <1>5, <1>6, <1>7 DEF Progress, Outcomes
<1> QED BY <1>8 DEF t

LEMMA UnreadStep ==
    ASSUME NEW r, NEW pos, NEW ms, NEW ds, NEW s,
           Progress(r, pos, ms, ds, "loading", s), pos <= Len(r.modules),
           NEW read \in Reads, NEW out,
           \/ out = "io" /\ read.file = Absent
           \/ out = "manifest" /\ read.file = Garbled
    PROVE  Progress(r, pos + 1, ms, ds, out, Append(s, read))
<1> DEFINE t == Append(s, read)
           n == Len(s)
<1>0. r \in Roots /\ s \in Seq(Reads) /\ pos = n + 1
  BY DEF Progress, Outcomes
<1>1. n \in Nat /\ t \in Seq(Reads) /\ Len(t) = n + 1 /\ t[n + 1] = read
  BY <1>0
<1> HIDE DEF t, n
<1>2. pos + 1 = Len(t) + 1 /\ Len(t) <= Len(r.modules) /\ Len(t) > 0 /\ t[Len(t)] = read
  BY <1>0, <1>1
<1>3. Progress(r, pos + 1, ms, ds, out, t)
  BY <1>0, <1>1, <1>2 DEF Progress, Outcomes
<1> QED BY <1>3 DEF t

LEMMA FinishStep ==
    ASSUME NEW r, NEW pos, NEW ms, NEW ds, NEW s,
           Progress(r, pos, ms, ds, "loading", s), pos > Len(r.modules),
           NEW ds2, ds2 = ds \cup ModuleSetDiagnostics(ms), NEW ms2, NEW out,
           \/ ds2 = {} /\ out = "ok" /\ ms2 = SortedByName(ms)
           \/ ds2 # {} /\ out = "invalid" /\ ms2 = ms
    PROVE  Progress(r, pos, ms2, ds2, out, s)
<1>0. /\ r \in Roots /\ s \in Seq(Reads) /\ pos = Len(s) + 1 /\ Len(s) <= Len(r.modules)
      /\ \A i \in 1..Len(s) : Decoded(r.modules[i], s[i])
      /\ ds = {} <=> SoundSoFar(r, s)
      /\ ds = {} => ms = LoadedOf(r, s)
  BY DEF Progress, Outcomes
<1>1. Len(s) = Len(r.modules)
  <2>1. Len(r.modules) \in Nat /\ Len(s) \in Nat
    BY <1>0, RootShape
  <2> QED BY <1>0, <2>1
<1>2. ds2 = {} <=> AcceptedAs(r, s)
  BY <1>0 DEF AcceptedAs
<1>3. ds2 = {} => ms = LoadedOf(r, s)
  BY <1>0
<1>4. out = "ok" => AcceptedAs(r, s) /\ ms2 = SortedByName(LoadedOf(r, s))
  BY <1>2, <1>3
<1>5. out = "invalid" => ~AcceptedAs(r, s)
  BY <1>2
<1> QED BY <1>0, <1>1, <1>4, <1>5 DEF Progress, Outcomes

(***************************************************************************)
(* The invariant holds of every load.                                      *)
(***************************************************************************)
LEMMA InitInv == Init => IInv
<1> SUFFICES ASSUME Init PROVE IInv
  OBVIOUS
<1>1. PICK found \in Disks : root = found.root /\ files = found.files
  BY DEF Init
<1>2. found.files = [p \in Paths |-> found.files[p]]
  BY ManifestsAssumption
<1>3. \A p \in Paths : found.files[p] \in ManifestFiles
  BY DEF ManifestFiles
<1>4. files \in [Paths -> ManifestFiles]
  BY <1>1, <1>2, <1>3
<1> QED BY <1>1, <1>4 DEF Init, IInv, DiskInv, LoadInv

LEMMA ReadRootKeepsInv == IInv /\ ReadRoot => IInv'
<1> SUFFICES ASSUME IInv, ReadRoot PROVE IInv'
  OBVIOUS
<1>1. /\ raw = NotLoaded /\ outcome = "loading" /\ position = 1 /\ modules = <<>>
      /\ diagnostics = {} /\ seen = <<>>
  BY DEF ReadRoot, IInv, LoadInv
<1>2. DiskInv'
  BY DEF ReadRoot, IInv, DiskInv, disk
<1>3. CASE raw' = NotLoaded
  <2>1. outcome' \in {"loading", "io", "manifest"} /\ diagnostics' = {}
    BY <1>1, <1>3, ManifestsAssumption DEF ReadRoot, IInv, DiskInv
  <2>2. position' = 1 /\ modules' = <<>> /\ seen' = <<>>
    BY <1>1 DEF ReadRoot
  <2> QED BY <1>2, <1>3, <2>1, <2>2 DEF IInv, LoadInv
<1>4. CASE raw' # NotLoaded
  <2>1. root \notin {Absent, Garbled} /\ raw' = root /\ diagnostics' = RootDiagnostics(root)
        /\ outcome' = "loading"
    BY <1>1, <1>4 DEF ReadRoot
  <2>2. root \in Roots
    BY <2>1 DEF IInv, DiskInv, Roots
  <2>3. position' = 1 /\ modules' = <<>> /\ seen' = <<>>
    BY <1>1 DEF ReadRoot
  <2>4. LoadedOf(root, <<>>) = <<>>
    BY DEF LoadedOf
  <2>5. SoundSoFar(root, <<>>) <=> RootDiagnostics(root) = {}
    BY DEF SoundSoFar
  <2>6. Len(root.modules) \in Nat /\ Len(<<>>) = 0
    BY <2>2, RootShape
  <2>7. Progress(root, 1, <<>>, RootDiagnostics(root), "loading", <<>>)
    BY <2>2, <2>4, <2>5, <2>6 DEF Progress, Outcomes
  <2> QED BY <1>2, <1>4, <2>1, <2>3, <2>7 DEF IInv, LoadInv
<1> QED BY <1>3, <1>4

LEMMA ReadsHere ==
    ASSUME IInv, Selecting
    PROVE  /\ Progress(raw, position, modules, diagnostics, "loading", seen)
           /\ position <= Len(raw.modules)
           /\ raw.modules[position].manifest \in Paths \cup AbsolutePaths
           /\ [file |-> Absent, where |-> location] \in Reads
           /\ \A p \in Paths : /\ files[p] \in ManifestFiles
                               /\ [file |-> files[p], where |-> location] \in Reads
<1>1. /\ Progress(raw, position, modules, diagnostics, "loading", seen)
      /\ position <= Len(raw.modules)
  BY DEF IInv, LoadInv, Selecting
<1>2. raw \in Roots /\ position = Len(seen) + 1 /\ seen \in Seq(Reads)
  BY <1>1 DEF Progress
<1>3. raw.modules \in Seq([manifest : Paths \cup AbsolutePaths, role : {"ordinary", "global"}])
  BY <1>2, RootShape
<1>4. position \in 1..Len(raw.modules)
  <2>1. Len(raw.modules) \in Nat /\ Len(seen) \in Nat
    BY <1>2, <1>3
  <2> QED BY <1>1, <1>2, <2>1
<1>5. raw.modules[position].manifest \in Paths \cup AbsolutePaths
  <2> DEFINE selections == [manifest : Paths \cup AbsolutePaths, role : {"ordinary", "global"}]
  <2>1. raw.modules[position] \in selections
    <3> HIDE DEF selections
    <3>1. raw.modules \in Seq(selections)
      BY <1>3 DEF selections
    <3> QED BY <1>4, <3>1
  <2> QED BY <2>1
<1>6. location \in [Inputs -> Locations] /\ \A p \in Paths : files[p] \in ManifestFiles
  BY DEF IInv, DiskInv
<1> QED BY <1>1, <1>5, <1>6 DEF Reads

LEMMA RefuseAbsoluteKeepsInv == IInv /\ RefuseAbsolute => IInv'
<1> SUFFICES ASSUME IInv, RefuseAbsolute PROVE IInv'
  OBVIOUS
<1> DEFINE read == [file |-> Absent, where |-> location]
<1>1. /\ Progress(raw, position, modules, diagnostics, "loading", seen)
      /\ position <= Len(raw.modules) /\ read \in Reads
  BY ReadsHere DEF RefuseAbsolute
<1>2. raw.modules[position].manifest \in AbsolutePaths
  BY DEF RefuseAbsolute
<1>3. ~Good(raw.modules[position], read) /\ Decoded(raw.modules[position], read)
  BY <1>2 DEF Good, Decoded
<1>4. diagnostics' # {}
  BY DEF RefuseAbsolute
<1>5. Progress(raw, position + 1, modules, diagnostics', "loading", Append(seen, read))
  <2> HIDE DEF read
  <2> QED BY <1>1, <1>3, <1>4, ReadStep
<1>6. /\ raw' = raw /\ position' = position + 1 /\ modules' = modules /\ outcome' = "loading"
      /\ seen' = Append(seen, read) /\ raw # NotLoaded
  BY DEF RefuseAbsolute, Selecting
<1>7. DiskInv'
  BY DEF RefuseAbsolute, IInv, DiskInv, disk
<1> HIDE DEF read
<1> QED BY <1>5, <1>6, <1>7 DEF IInv, LoadInv

LEMMA LoadModuleKeepsInv == IInv /\ LoadModule => IInv'
<1> SUFFICES ASSUME IInv, LoadModule PROVE IInv'
  OBVIOUS
<1> DEFINE selection == raw.modules[position]
           file == files[selection.manifest]
           read == [file |-> file, where |-> location]
<1>1. Selecting /\ selection.manifest \notin AbsolutePaths
  BY DEF LoadModule
<1>2. /\ Progress(raw, position, modules, diagnostics, "loading", seen)
      /\ position <= Len(raw.modules)
      /\ file \in ManifestFiles /\ read \in Reads
  BY <1>1, ReadsHere
<1>3. /\ raw' = raw /\ position' = position + 1 /\ seen' = Append(seen, read)
      /\ outcome = "loading" /\ raw # NotLoaded
  BY DEF LoadModule, Selecting
<1>4. DiskInv'
  BY DEF LoadModule, IInv, DiskInv, disk
<1>5. read.file = file /\ read.where = location
  OBVIOUS
<1>6. \/ file = Absent /\ outcome' = "io" /\ UNCHANGED <<modules, diagnostics>>
      \/ file = Garbled /\ outcome' = "manifest" /\ UNCHANGED <<modules, diagnostics>>
      \/ /\ file \notin {Absent, Garbled}
         /\ \/ /\ ModuleDiagnostics(file, location) = {}
               /\ modules' = Append(modules, Selected(file, selection.role))
               /\ UNCHANGED diagnostics
            \/ /\ ModuleDiagnostics(file, location) # {}
               /\ diagnostics' = diagnostics \cup ModuleDiagnostics(file, location)
               /\ UNCHANGED modules
         /\ UNCHANGED outcome
  BY DEF LoadModule
<1>e. selection = raw.modules[position]
  OBVIOUS
<1> HIDE DEF selection, file, read
<1>7. Progress(raw, position + 1, modules', diagnostics', outcome', Append(seen, read))
  <2>1. CASE file = Absent /\ outcome' = "io" /\ UNCHANGED <<modules, diagnostics>>
    <3>1. Progress(raw, position + 1, modules, diagnostics, "io", Append(seen, read))
      <4>1. read.file = Absent
        BY <1>5, <2>1
      <4> QED BY <1>2, <4>1, UnreadStep, Zenon
    <3> QED BY <2>1, <3>1
  <2>2. CASE file = Garbled /\ outcome' = "manifest" /\ UNCHANGED <<modules, diagnostics>>
    <3>1. Progress(raw, position + 1, modules, diagnostics, "manifest", Append(seen, read))
      <4>1. read.file = Garbled
        BY <1>5, <2>2
      <4> QED BY <1>2, <4>1, UnreadStep, Zenon
    <3> QED BY <2>2, <3>1
  <2>3. CASE /\ file \notin {Absent, Garbled}
             /\ \/ /\ ModuleDiagnostics(file, location) = {}
                   /\ modules' = Append(modules, Selected(file, selection.role))
                   /\ UNCHANGED diagnostics
                \/ /\ ModuleDiagnostics(file, location) # {}
                   /\ diagnostics' = diagnostics \cup ModuleDiagnostics(file, location)
                   /\ UNCHANGED modules
             /\ UNCHANGED outcome
    <3>1. Decoded(selection, read)
      BY <1>2, <1>5, <2>3 DEF Decoded
    <3>2. Good(selection, read) <=> ModuleDiagnostics(file, location) = {}
      BY <1>1, <1>5 DEF Good
    <3>3. diagnostics' = {} <=> diagnostics = {} /\ Good(selection, read)
      BY <2>3, <3>2
    <3>4. diagnostics' = {} => modules' = Append(modules, Selected(read.file, selection.role))
      BY <1>5, <2>3
    <3>5. Progress(raw, position + 1, modules', diagnostics', "loading", Append(seen, read))
      BY <1>2, <1>e, <3>1, <3>3, <3>4, ReadStep
    <3> QED BY <1>3, <2>3, <3>5
  <2> QED BY <1>6, <2>1, <2>2, <2>3
<1> QED BY <1>3, <1>4, <1>7 DEF IInv, LoadInv

LEMMA FinishLoadKeepsInv == IInv /\ FinishLoad => IInv'
<1> SUFFICES ASSUME IInv, FinishLoad PROVE IInv'
  OBVIOUS
<1>1. /\ Progress(raw, position, modules, diagnostics, "loading", seen)
      /\ position > Len(raw.modules) /\ raw # NotLoaded
  BY DEF FinishLoad, IInv, LoadInv
<1>2. /\ diagnostics' = diagnostics \cup ModuleSetDiagnostics(modules)
      /\ \/ diagnostics' = {} /\ outcome' = "ok" /\ modules' = SortedByName(modules)
         \/ diagnostics' # {} /\ outcome' = "invalid" /\ modules' = modules
  BY DEF FinishLoad
<1>3. Progress(raw, position, modules', diagnostics', outcome', seen)
  BY <1>1, <1>2, FinishStep
<1>4. raw' = raw /\ position' = position /\ seen' = seen
  BY DEF FinishLoad
<1>5. DiskInv'
  BY DEF FinishLoad, IInv, DiskInv, disk
<1> QED BY <1>1, <1>3, <1>4, <1>5 DEF IInv, LoadInv

LEMMA EditorKeepsInv == IInv /\ Editor => IInv'
<1> SUFFICES ASSUME IInv, Editor PROVE IInv'
  OBVIOUS
<1>1. UNCHANGED <<root, raw, position, modules, diagnostics, outcome, seen>>
  BY DEF Editor, EditModule, MoveInput
<1>2. LoadInv'
  BY <1>1 DEF IInv, LoadInv
<1>3. ASSUME NEW path \in Paths, NEW content \in Saves[path], EditModule(path, content)
      PROVE  DiskInv'
  <2>1. content \in ManifestFiles
    BY DEF ManifestFiles
  <2>2. files' \in [Paths -> ManifestFiles] /\ location' = location
    BY <1>3, <2>1 DEF EditModule, IInv, DiskInv
  <2> QED BY <1>1, <2>2 DEF IInv, DiskInv
<1>4. ASSUME NEW input \in Inputs, NEW where \in Locations, MoveInput(input, where)
      PROVE  DiskInv'
  BY <1>1, <1>4 DEF MoveInput, IInv, DiskInv
<1>5. DiskInv'
  BY <1>3, <1>4 DEF Editor
<1> QED BY <1>2, <1>5 DEF IInv

LEMMA NextKeepsInv == IInv /\ [Next]_vars => IInv'
<1>1. IInv /\ UNCHANGED vars => IInv'
  BY DEF vars, IInv, DiskInv, LoadInv
<1>2. Finished => UNCHANGED vars
  BY DEF Finished
<1> QED BY <1>1, <1>2, ReadRootKeepsInv, RefuseAbsoluteKeepsInv, LoadModuleKeepsInv,
           FinishLoadKeepsInv, EditorKeepsInv DEF Next, Loader

(* A load keeps to what its files say as they were when it read them.      *)
THEOREM LoadInvariant == Spec => []IInv
  BY InitInv, NextKeepsInv, PTL DEF Spec

(***************************************************************************)
(* What is loaded.                                                         *)
(***************************************************************************)
LEMMA LoadedShape ==
    ASSUME NEW r \in Roots, NEW s \in Seq(Reads), Len(s) = Len(r.modules),
           \A i \in 1..Len(s) : Decoded(r.modules[i], s[i]),
           SoundSoFar(r, s)
    PROVE  /\ Len(LoadedOf(r, s)) = Len(s)
           /\ \A i \in 1..Len(s) :
                /\ LoadedOf(r, s)[i] = Selected(s[i].file, r.modules[i].role)
                /\ LoadedOf(r, s)[i].name = s[i].file.name
                /\ LoadedOf(r, s)[i].namespace = s[i].file.namespace
                /\ LoadedOf(r, s)[i].imports = s[i].file.imports
                /\ s[i].file \in ManifestFiles \ {Absent, Garbled}
                /\ s[i].where \in [Inputs -> Locations]
                /\ r.modules[i].manifest \notin AbsolutePaths
                /\ ManifestSound(s[i].file, s[i].where)
           /\ NamesOf(LoadedOf(r, s)) = [i \in 1..Len(s) |-> s[i].file.name]
           /\ NamespacesOf(LoadedOf(r, s)) = [i \in 1..Len(s) |-> s[i].file.namespace]
           /\ NamesOf(LoadedOf(r, s)) \in Seq(Seq(Nat))
           /\ NamespacesOf(LoadedOf(r, s)) \in Seq(Seq(Nat))
<1> DEFINE ms == LoadedOf(r, s)
           n == Len(s)
<1>0. n \in Nat
  OBVIOUS
<1>1. ms = [i \in 1..n |-> Selected(s[i].file, r.modules[i].role)]
  BY DEF LoadedOf
<1>2. \A i \in 1..n : s[i] \in Reads
  OBVIOUS
<1>e. n = Len(s)
  OBVIOUS
<1> HIDE DEF ms, n
<1>3. Len(ms) = n /\ \A i \in 1..n : ms[i] = Selected(s[i].file, r.modules[i].role)
  BY <1>0, <1>1
<1>4. ASSUME NEW i \in 1..n
      PROVE  /\ ms[i].name = s[i].file.name
             /\ ms[i].namespace = s[i].file.namespace
             /\ ms[i].imports = s[i].file.imports
  BY <1>3 DEF Selected
<1>5. ASSUME NEW i \in 1..n
      PROVE  /\ s[i].file \in ManifestFiles \ {Absent, Garbled}
             /\ s[i].where \in [Inputs -> Locations]
             /\ r.modules[i].manifest \notin AbsolutePaths
             /\ ManifestSound(s[i].file, s[i].where)
  <2>1. Good(r.modules[i], s[i]) /\ Decoded(r.modules[i], s[i])
    BY <1>e DEF SoundSoFar
  <2>2. s[i].where \in [Inputs -> Locations]
    BY <1>2 DEF Reads
  <2> QED BY <2>1, <2>2, ModuleDiagnosticsExact DEF Good, Decoded
<1>6. \A i \in 1..n : s[i].file.name \in Seq(Nat) /\ s[i].file.namespace \in Seq(Nat)
  BY <1>5, FileShape
<1>7. NamesOf(ms) = [i \in 1..n |-> s[i].file.name]
  BY <1>3, <1>4 DEF NamesOf
<1>8. NamespacesOf(ms) = [i \in 1..n |-> s[i].file.namespace]
  BY <1>3, <1>4 DEF NamespacesOf
<1>9. NamesOf(ms) \in Seq(Seq(Nat)) /\ NamespacesOf(ms) \in Seq(Seq(Nat))
  BY <1>0, <1>6, <1>7, <1>8
<1> QED BY <1>3, <1>4, <1>5, <1>7, <1>8, <1>9 DEF ms, n

(* The order of the names, carried over to what bears them. *)
LEMMA SortedByNameFacts ==
    ASSUME NEW ms, Len(ms) \in Nat, NamesOf(ms) \in Seq(Seq(Nat))
    PROVE  /\ Permutes(Sorting(NamesOf(ms)), Len(ms))
           /\ Len(SortedByName(ms)) = Len(ms)
           /\ \A i \in 1..Len(ms) : SortedByName(ms)[i] = ms[Sorting(NamesOf(ms))[i]]
           /\ \A i, j \in 1..Len(ms) :
                i < j => NotAfter(SortedByName(ms)[i].name, SortedByName(ms)[j].name)
<1> DEFINE p == Sorting(NamesOf(ms))
           n == Len(ms)
           q == SortedByName(ms)
           names == NamesOf(ms)
<1>1. Len(names) = n /\ \A i \in 1..n : names[i] = ms[i].name
  BY DEF NamesOf
<1>2. Permutes(p, n) /\ \A i, j \in 1..n : i < j => NotAfter(names[p[i]], names[p[j]])
  BY <1>1, SortingPermutes
<1>3. q = [i \in 1..n |-> ms[p[i]]]
  BY DEF SortedByName
<1>0. n \in Nat
  OBVIOUS
<1> HIDE DEF p, n, q, names
<1>4. Len(q) = n /\ \A i \in 1..n : q[i] = ms[p[i]] /\ p[i] \in 1..n
  BY <1>0, <1>2, <1>3 DEF Permutes
<1>5. \A i \in 1..n : q[i].name = names[p[i]]
  BY <1>1, <1>4
<1>6. \A i, j \in 1..n : i < j => NotAfter(q[i].name, q[j].name)
  BY <1>2, <1>5
<1> QED BY <1>2, <1>4, <1>6 DEF p, n, q, names

LEMMA SortedIsOrdered ==
    ASSUME NEW ms, Len(ms) \in Nat, NamesOf(ms) \in Seq(Seq(Nat)), ~HasRepeats(NamesOf(ms))
    PROVE  OrderedByName(SortedByName(ms))
<1> DEFINE p == Sorting(NamesOf(ms))
           n == Len(ms)
           q == SortedByName(ms)
           names == NamesOf(ms)
<1>0. n \in Nat /\ Len(names) = n /\ \A i \in 1..n : names[i] = ms[i].name
  BY DEF NamesOf
<1>1. /\ Permutes(p, n) /\ Len(q) = n /\ \A i \in 1..n : q[i] = ms[p[i]]
      /\ \A i, j \in 1..n : i < j => NotAfter(q[i].name, q[j].name)
  BY SortedByNameFacts
<1>2. \A i, j \in 1..n : i # j => names[i] # names[j]
  BY <1>0 DEF HasRepeats
<1> HIDE DEF p, n, q, names
<1>3. ASSUME NEW i \in 1..(n - 1) PROVE Before(q[i].name, q[i + 1].name)
  <2>1. i \in 1..n /\ i + 1 \in 1..n /\ i < i + 1
    BY <1>0
  <2>2. p[i] \in 1..n /\ p[i + 1] \in 1..n /\ p[i] # p[i + 1]
    <3>1. i # i + 1
      BY <2>1
    <3>2. /\ \A k \in 1..n : p[k] \in 1..n
          /\ \A k, l \in 1..n : k # l => p[k] # p[l]
      BY <1>1 DEF Permutes
    <3> QED BY <2>1, <3>1, <3>2
  <2>3. q[i].name = names[p[i]] /\ q[i + 1].name = names[p[i + 1]]
    BY <1>0, <1>1, <2>1, <2>2
  <2>4. q[i].name # q[i + 1].name
    BY <1>2, <2>2, <2>3
  <2> QED BY <1>1, <2>1, <2>4 DEF NotAfter
<1> QED BY <1>1, <1>3 DEF OrderedByName, q

LEMMA ElementsPermuted ==
    ASSUME NEW a, NEW b, NEW n \in Nat, NEW p, Permutes(p, n), Len(a) = n, Len(b) = n,
           \A i \in 1..n : b[i] = a[p[i]]
    PROVE  ElementsOf(b) = ElementsOf(a)
<1>1. ASSUME NEW i \in 1..n PROVE b[i] \in ElementsOf(a)
  BY DEF ElementsOf, Permutes
<1>2. ASSUME NEW k \in 1..n PROVE a[k] \in ElementsOf(b)
  <2>1. PICK i \in 1..n : p[i] = k
    BY DEF Permutes
  <2> QED BY <2>1 DEF ElementsOf
<1> QED BY <1>1, <1>2 DEF ElementsOf

LEMMA AcceptedIsValid ==
    ASSUME NEW r \in Roots, NEW s \in Seq(Reads), Len(s) = Len(r.modules),
           \A i \in 1..Len(s) : Decoded(r.modules[i], s[i]),
           AcceptedAs(r, s)
    PROVE  /\ Len(SortedByName(LoadedOf(r, s))) = Len(r.modules)
           /\ ElementsOf(SortedByName(LoadedOf(r, s)))
                = {Selected(s[i].file, r.modules[i].role) : i \in 1..Len(r.modules)}
           /\ ModulesValid(SortedByName(LoadedOf(r, s)))
           /\ NamespacesOf(SortedByName(LoadedOf(r, s))) \in Seq(Seq(Nat))
           /\ \A i \in 1..Len(r.modules) : SortedByName(LoadedOf(r, s))[i].namespace \in CedarNames
<1> DEFINE ms == LoadedOf(r, s)
           n == Len(s)
           q == SortedByName(ms)
           p == Sorting(NamesOf(ms))
           spaces == NamespacesOf(ms)
           other == NamespacesOf(q)
<1>0. SoundSoFar(r, s) /\ ModuleSetDiagnostics(ms) = {}
  BY DEF AcceptedAs
<1>1. /\ n \in Nat /\ Len(ms) = n
      /\ NamesOf(ms) \in Seq(Seq(Nat)) /\ spaces \in Seq(Seq(Nat))
      /\ spaces = [i \in 1..n |-> s[i].file.namespace]
      /\ \A i \in 1..n : /\ ms[i] = Selected(s[i].file, r.modules[i].role)
                         /\ ms[i].name = s[i].file.name
                         /\ ms[i].namespace = s[i].file.namespace
                         /\ ms[i].imports = s[i].file.imports
                         /\ ManifestSound(s[i].file, s[i].where)
  BY <1>0, LoadedShape
<1>2. /\ ~HasRepeats(NamesOf(ms))
      /\ ~AdjacentOverlap(SortedNames(spaces))
      /\ \A i \in 1..n : ElementsOf(ms[i].imports) \subseteq ElementsOf(spaces)
  BY <1>0, <1>1, ModuleSetDiagnosticsExact
<1>3. n > 0
  <2>1. r.modules # <<>> /\ r.modules \in Seq([manifest : Paths \cup AbsolutePaths, role : {"ordinary", "global"}])
    BY <1>0, RootDiagnosticsExact, RootShape DEF SoundSoFar
  <2> QED BY <2>1
<1>4. Permutes(p, n) /\ Len(q) = n /\ \A i \in 1..n : q[i] = ms[p[i]]
  BY <1>1, SortedByNameFacts
<1>5. OrderedByName(q)
  BY <1>1, <1>2, SortedIsOrdered
<1>e. /\ other = [i \in 1..Len(q) |-> q[i].namespace]
      /\ n = Len(r.modules)
  BY DEF NamespacesOf
<1> HIDE DEF ms, n, q, p, spaces, other
<1>6. \A i \in 1..n : p[i] \in 1..n /\ q[i] = ms[p[i]]
  BY <1>4 DEF Permutes
<1>7. /\ other \in Seq(Seq(Nat)) /\ Len(other) = n
      /\ \A i \in 1..n : other[i] = spaces[p[i]] /\ other[i] = q[i].namespace
  <2>1. \A i \in 1..n : q[i].namespace = spaces[p[i]] /\ spaces[p[i]] \in Seq(Nat)
    <3>1. \A k \in 1..n : spaces[k] = s[k].file.namespace
      BY <1>1
    <3>2. \A k \in 1..n : spaces[k] = ms[k].namespace
      BY <1>1, <3>1
    <3>3. Len(spaces) = n
      BY <1>1
    <3>4. \A k \in 1..n : spaces[k] \in Seq(Nat)
      BY <1>1, <3>3
    <3> QED BY <1>6, <3>2, <3>4
  <2>2. other = [i \in 1..n |-> spaces[p[i]]]
    BY <1>4, <1>e, <2>1
  <2> QED BY <1>1, <2>1, <2>2
<1>8. ~AdjacentOverlap(SortedNames(other))
  <2>1. Len(spaces) = n
    BY <1>1
  <2>2. NeighboursOverlap(other) <=> NeighboursOverlap(spaces)
    <3>1. spaces \in Seq(Seq(Nat))
      BY <1>1
    <3>2. /\ Permutes(p, Len(spaces)) /\ Len(other) = Len(spaces)
          /\ \A i \in 1..Len(spaces) : other[i] = spaces[p[i]]
      BY <1>4, <1>7, <2>1
    <3> QED BY <1>7, <3>1, <3>2, OverlapsPermuted
  <2> QED BY <1>1, <1>2, <1>7, <2>2, ScanIsOfNeighbours
<1>9. ElementsOf(other) = ElementsOf(spaces)
  <2>1. Len(spaces) = n
    BY <1>1
  <2> QED BY <1>1, <1>4, <1>7, <2>1, ElementsPermuted
<1>10. ElementsOf(q) = ElementsOf(ms)
  BY <1>1, <1>4, ElementsPermuted
<1>11. ElementsOf(ms) = {Selected(s[i].file, r.modules[i].role) : i \in 1..n}
  <2>1. \A i \in 1..n : ms[i] = Selected(s[i].file, r.modules[i].role)
    BY <1>1
  <2>2. ElementsOf(ms) = {ms[i] : i \in 1..n}
    BY <1>1 DEF ElementsOf
  <2> QED BY <2>1, <2>2
<1>12. ASSUME NEW i \in 1..n
       PROVE  /\ ~Blank(q[i].name) /\ q[i].namespace \in CedarNames
              /\ ElementsOf(q[i].imports) \subseteq ElementsOf(other)
              /\ q[i].namespace \notin ElementsOf(q[i].imports)
              /\ ~HasRepeats(q[i].imports)
  <2>1. p[i] \in 1..n /\ q[i] = ms[p[i]]
    BY <1>6
  <2>2. ManifestSound(s[p[i]].file, s[p[i]].where)
    BY <1>1, <2>1
  <2>3. ElementsOf(q[i].imports) \subseteq ElementsOf(other)
    BY <1>2, <1>9, <2>1
  <2> QED BY <1>1, <2>1, <2>2, <2>3 DEF ManifestSound
<1>13. ImportsValid(q)
  <2>1. ElementsOf(NamespacesOf(q)) = ElementsOf(other)
    BY DEF other
  <2> QED BY <1>4, <1>12, <2>1 DEF ImportsValid
<1>14. q # <<>>
  BY <1>3, <1>4
<1>15. ModulesValid(q)
  <2>1. ~AdjacentOverlap(SortedNames(NamespacesOf(q)))
    BY <1>8 DEF other
  <2> QED BY <1>4, <1>5, <1>12, <1>13, <1>14, <2>1 DEF ModulesValid
<1>16. other \in Seq(Seq(Nat)) /\ \A i \in 1..n : q[i].namespace \in CedarNames
  BY <1>7, <1>12
<1> QED BY <1>4, <1>10, <1>11, <1>15, <1>16, <1>e DEF ms, q, other

(***************************************************************************)
(* The properties of Manifest.                                             *)
(***************************************************************************)
LEMMA FinishedLoad ==
    ASSUME IInv, outcome \in {"ok", "invalid"}
    PROVE  /\ raw \in Roots /\ seen \in Seq(Reads) /\ Len(seen) = Len(raw.modules)
           /\ \A i \in 1..Len(seen) : Decoded(raw.modules[i], seen[i])
           /\ outcome = "ok" => AcceptedAs(raw, seen) /\ modules = SortedByName(LoadedOf(raw, seen))
           /\ outcome = "invalid" => ~AcceptedAs(raw, seen)
<1>1. raw # NotLoaded
  BY DEF IInv, LoadInv
<1>2. Progress(raw, position, modules, diagnostics, outcome, seen)
  BY <1>1 DEF IInv, LoadInv
<1> QED BY <1>2 DEF Progress

(* manifest.rs: reading or decoding failures are told from content ones.   *)
THEOREM FailureIsTheFileHolds == Spec => []FailureIsTheFile
<1>1. IInv => FailureIsTheFile
  <2> SUFFICES ASSUME IInv PROVE FailureIsTheFile
    OBVIOUS
  <2>1. outcome = "invalid" =>
          \A i \in 1..Len(seen) : raw.modules[i].manifest \notin AbsolutePaths =>
             seen[i].file \notin {Absent, Garbled}
    BY FinishedLoad DEF Decoded
  <2>2. raw # NotLoaded => /\ outcome = "io" => seen[Len(seen)].file = Absent
                           /\ outcome = "manifest" => seen[Len(seen)].file = Garbled
    BY DEF IInv, LoadInv, Progress
  <2> QED BY <2>1, <2>2 DEF FailureIsTheFile
<1> QED BY <1>1, LoadInvariant, PTL

(* manifest.rs: every selection is in the loaded bundle, in name order.    *)
THEOREM NothingDroppedHolds == Spec => []NothingDropped
<1>1. IInv => NothingDropped
  <2> SUFFICES ASSUME IInv, outcome = "ok" PROVE NothingDropped
    BY DEF NothingDropped
  <2>1. /\ Len(modules) = Len(raw.modules)
        /\ ElementsOf(modules)
             = {Selected(seen[i].file, raw.modules[i].role) : i \in 1..Len(raw.modules)}
        /\ ModulesValid(modules)
    BY FinishedLoad, AcceptedIsValid
  <2> QED BY <2>1 DEF NothingDropped, ModulesValid
<1> QED BY <1>1, LoadInvariant, PTL

(* What manifest.rs loads satisfies archive.rs: although one scans the     *)
(* namespaces in the order of the selections' names and the other in that  *)
(* of the sorted modules, both scans see the same neighbours.              *)
THEOREM LoadedSetAcceptedHolds == Spec => []LoadedSetAccepted
<1>1. IInv => LoadedSetAccepted
  <2> SUFFICES ASSUME IInv, outcome = "ok" PROVE LoadedSetAccepted
    BY DEF LoadedSetAccepted
  <2>1. ModulesValid(modules)
    BY FinishedLoad, AcceptedIsValid
  <2> QED BY <2>1 DEF LoadedSetAccepted
<1> QED BY <1>1, LoadInvariant, PTL

LettersOnly == \A n \in CedarNames : DigitFree(n)

LEMMA SelectionSoundIsGood ==
    ASSUME NEW i \in 1..Len(seen), seen \in Seq(Reads), Decoded(raw.modules[i], seen[i])
    PROVE  SelectionSound(i) <=> Good(raw.modules[i], seen[i])
<1>1. CASE raw.modules[i].manifest \in AbsolutePaths
  BY <1>1 DEF SelectionSound, Good
<1>2. CASE raw.modules[i].manifest \notin AbsolutePaths
  <2> DEFINE m == seen[i].file
             where == seen[i].where
             names == {m.namespace} \cup ElementsOf(m.imports)
  <2>1. m \in ManifestFiles \ {Absent, Garbled}
    BY <1>2 DEF Decoded
  <2>2. where \in [Inputs -> Locations]
    <3>1. seen[i] \in Reads
      OBVIOUS
    <3> QED BY <3>1 DEF Reads
  <2>3. Cardinality(names) = Len(m.imports) + 1
          <=> ~HasRepeats(m.imports) /\ m.namespace \notin ElementsOf(m.imports)
    BY <2>1, FileShape, NamesCounted
  <2>4. names \subseteq CedarNames
          <=> m.namespace \in CedarNames /\ ElementsOf(m.imports) \subseteq CedarNames
    OBVIOUS
  <2>5. Good(raw.modules[i], seen[i]) <=> ManifestSound(m, where)
    BY <1>2, <2>2, ModuleDiagnosticsExact DEF Good
  <2>6. SelectionSound(i) <=>
          /\ raw.modules[i].manifest \notin AbsolutePaths
          /\ m.version = FormatVersion
          /\ ~Blank(m.name)
          /\ names \subseteq CedarNames
          /\ Cardinality(names) = Len(m.imports) + 1
          /\ \A input \in InputsOf(m) : input \in ExplicitInputs /\ where[input] = "inside"
    BY DEF SelectionSound
  <2> HIDE DEF m, where, names
  <2> QED BY <1>2, <2>3, <2>4, <2>5, <2>6 DEF ManifestSound
<1> QED BY <1>1, <1>2

(* Over letters, the module set has nothing to report exactly when no two  *)
(* modules share a name or have overlapping namespaces, and every import   *)
(* is the namespace of a module of the bundle.                             *)
LEMMA ModuleSetVerdict ==
    ASSUME LettersOnly,
           NEW r \in Roots, NEW s \in Seq(Reads), Len(s) = Len(r.modules),
           \A i \in 1..Len(s) : Decoded(r.modules[i], s[i]),
           SoundSoFar(r, s)
    PROVE  ModuleSetDiagnostics(LoadedOf(r, s)) = {} <=>
             /\ \A i, j \in 1..Len(s) : i # j =>
                  /\ s[i].file.name # s[j].file.name
                  /\ ~NamespacesOverlap(s[i].file.namespace, s[j].file.namespace)
             /\ \A i \in 1..Len(s) : \A k \in ElementsOf(s[i].file.imports) :
                  \E j \in 1..Len(s) : s[j].file.namespace = k
<1> DEFINE ms == LoadedOf(r, s)
           n == Len(s)
           names == NamesOf(ms)
           spaces == NamespacesOf(ms)
<1>1. /\ n \in Nat /\ Len(ms) = n
      /\ names \in Seq(Seq(Nat)) /\ spaces \in Seq(Seq(Nat))
      /\ names = [i \in 1..n |-> s[i].file.name]
      /\ spaces = [i \in 1..n |-> s[i].file.namespace]
      /\ \A i \in 1..n : /\ ms[i].imports = s[i].file.imports
                         /\ ManifestSound(s[i].file, s[i].where)
  BY LoadedShape
<1>2. ModuleSetDiagnostics(ms) = {} <=>
        /\ ~HasRepeats(names)
        /\ ~AdjacentOverlap(SortedNames(spaces))
        /\ \A i \in 1..n : ElementsOf(ms[i].imports) \subseteq ElementsOf(spaces)
  BY <1>1, ModuleSetDiagnosticsExact
<1> HIDE DEF names, spaces, ms, n
<1>3. /\ Len(names) = n /\ Len(spaces) = n
      /\ \A i \in 1..n : names[i] = s[i].file.name /\ spaces[i] = s[i].file.namespace
  BY <1>1
<1>4. \A i \in 1..n : DigitFree(spaces[i]) /\ EndsInSegment(spaces[i])
  BY <1>1, <1>3, CedarNamesAssumption DEF ManifestSound, LettersOnly
<1>5. AdjacentOverlap(SortedNames(spaces)) <=> AnyOverlap(spaces)
  BY <1>1, <1>3, <1>4, ScanExact
<1>6. ~HasRepeats(names)
        <=> \A i, j \in 1..n : i # j => s[i].file.name # s[j].file.name
  <2>1. ~HasRepeats(names) <=> \A i, j \in 1..n : i # j => names[i] # names[j]
    BY <1>3 DEF HasRepeats
  <2>2. \A i, j \in 1..n : (names[i] # names[j]) <=> (s[i].file.name # s[j].file.name)
    BY <1>3
  <2> QED BY <2>1, <2>2, Zenon
<1>7. ~AnyOverlap(spaces)
        <=> \A i, j \in 1..n : i # j =>
              ~NamespacesOverlap(s[i].file.namespace, s[j].file.namespace)
  <2>1. ~AnyOverlap(spaces)
          <=> \A i, j \in 1..n : i # j => ~NamespacesOverlap(spaces[i], spaces[j])
    BY <1>3 DEF AnyOverlap
  <2>2. \A i, j \in 1..n : NamespacesOverlap(spaces[i], spaces[j])
                            <=> NamespacesOverlap(s[i].file.namespace, s[j].file.namespace)
    BY <1>3
  <2> QED BY <2>1, <2>2, Zenon
<1>8. (\A i \in 1..n : ElementsOf(ms[i].imports) \subseteq ElementsOf(spaces))
        <=> \A i \in 1..n : \A k \in ElementsOf(s[i].file.imports) :
              \E j \in 1..n : s[j].file.namespace = k
  <2>1. \A k : k \in ElementsOf(spaces) <=> \E j \in 1..n : s[j].file.namespace = k
    BY <1>3 DEF ElementsOf
  <2> QED BY <1>1, <2>1
<1>9. (\A i, j \in 1..n : i # j =>
          /\ s[i].file.name # s[j].file.name
          /\ ~NamespacesOverlap(s[i].file.namespace, s[j].file.namespace))
        <=> ~HasRepeats(names) /\ ~AnyOverlap(spaces)
  BY <1>6, <1>7
<1> QED BY <1>2, <1>5, <1>8, <1>9 DEF ms, n

(* Over letters, what is accepted is what is sound as a whole. *)
LEMMA AcceptedIsSound ==
    ASSUME LettersOnly, raw \in Roots, seen \in Seq(Reads), Len(seen) = Len(raw.modules),
           \A i \in 1..Len(seen) : Decoded(raw.modules[i], seen[i])
    PROVE  BundleSound <=> AcceptedAs(raw, seen)
<1> DEFINE n == Len(raw.modules)
           Apart == \A i, j \in 1..n : i # j =>
                      /\ seen[i].file.name # seen[j].file.name
                      /\ ~NamespacesOverlap(seen[i].file.namespace, seen[j].file.namespace)
           Resolved == \A i \in 1..n : \A k \in ElementsOf(seen[i].file.imports) :
                         \E j \in 1..n : seen[j].file.namespace = k
<1>1. n \in Nat /\ (n > 0 <=> raw.modules # <<>>)
  <2>1. raw.modules \in Seq([manifest : Paths \cup AbsolutePaths, role : {"ordinary", "global"}])
    BY RootShape
  <2> QED BY <2>1
<1>2. BundleSound <=> /\ raw.version = FormatVersion /\ ~Blank(raw.name) /\ n > 0
                      /\ \A i \in 1..n : SelectionSound(i)
                      /\ Apart /\ Resolved
  BY DEF BundleSound
<1>3. SoundSoFar(raw, seen) <=> /\ raw.version = FormatVersion /\ ~Blank(raw.name) /\ n > 0
                                /\ \A i \in 1..n : SelectionSound(i)
  <2>1. \A i \in 1..n : SelectionSound(i) <=> Good(raw.modules[i], seen[i])
    BY SelectionSoundIsGood
  <2> QED BY <1>1, <2>1, RootDiagnosticsExact DEF SoundSoFar
<1>4. SoundSoFar(raw, seen) =>
        (ModuleSetDiagnostics(LoadedOf(raw, seen)) = {} <=> Apart /\ Resolved)
  <2>1. Len(seen) = n
    OBVIOUS
  <2>2. SoundSoFar(raw, seen) =>
          (ModuleSetDiagnostics(LoadedOf(raw, seen)) = {} <=>
             /\ \A i, j \in 1..Len(seen) : i # j =>
                  /\ seen[i].file.name # seen[j].file.name
                  /\ ~NamespacesOverlap(seen[i].file.namespace, seen[j].file.namespace)
             /\ \A i \in 1..Len(seen) : \A k \in ElementsOf(seen[i].file.imports) :
                  \E j \in 1..Len(seen) : seen[j].file.namespace = k)
    BY ModuleSetVerdict
  <2> HIDE DEF n
  <2> QED BY <2>1, <2>2
<1> HIDE DEF n, Apart, Resolved
<1> QED BY <1>2, <1>3, <1>4 DEF AcceptedAs

(* manifest.rs: over namespaces without digits a bundle is loaded if and   *)
(* only if it is sound as a whole, whatever was edited during the load.    *)
THEOREM VerdictExactHolds ==
    ASSUME LettersOnly
    PROVE  Spec => []VerdictExact
<1>1. IInv => VerdictExact
  BY FinishedLoad, AcceptedIsSound DEF VerdictExact
<1> QED BY <1>1, LoadInvariant, PTL

(* manifest.rs: over such namespaces, no two modules of a loaded bundle    *)
(* own a common name.                                                      *)
THEOREM NamespacesDisjointHolds ==
    ASSUME LettersOnly
    PROVE  Spec => []NamespacesDisjoint
<1>1. IInv => NamespacesDisjoint
  <2> SUFFICES ASSUME IInv, outcome = "ok" PROVE NamespacesDisjoint
    BY DEF NamespacesDisjoint
  <2> DEFINE spaces == NamespacesOf(modules)
  <2>1. /\ ModulesValid(modules) /\ spaces \in Seq(Seq(Nat))
        /\ Len(modules) = Len(raw.modules)
        /\ \A i \in 1..Len(raw.modules) : modules[i].namespace \in CedarNames
    BY FinishedLoad, AcceptedIsValid
  <2>2. ~AdjacentOverlap(SortedNames(spaces))
    BY <2>1 DEF ModulesValid
  <2>3. Len(spaces) = Len(modules) /\ \A i \in 1..Len(modules) : spaces[i] = modules[i].namespace
    BY <2>1 DEF NamespacesOf
  <2> HIDE DEF spaces
  <2>4. \A i \in 1..Len(spaces) : DigitFree(spaces[i]) /\ EndsInSegment(spaces[i])
    BY <2>1, <2>3, CedarNamesAssumption DEF LettersOnly
  <2>5. ~SomeOverlap(spaces)
    BY <2>1, <2>2, <2>4, ScanExact, AnyOverlapIsSome
  <2> QED BY <2>5 DEF NamespacesDisjoint, spaces
<1> QED BY <1>1, LoadInvariant, PTL

=============================================================================
