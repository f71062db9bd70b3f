---------------------------- MODULE Disk_proofs ----------------------------
(***************************************************************************)
(* What a PC keeps on its disk: the scan history and the program itself.   *)
(*                                                                         *)
(* The history (History): StoresChanges, SuccessMeansStored and            *)
(* ChangeIsVisible, for any number of scans, ranges, runs kept and deletes *)
(* by the user, at any point of a save; the first and the last speak of    *)
(* the app alone, whose user deletes between saves.  They rest on what a   *)
(* save that lists, compares and then writes may count on, on no           *)
(* transaction: what it compared with stays what it was until it is        *)
(* written, or is gone.                                                    *)
(*                                                                         *)
(* The program (Updater): NeverEmpty and FailedSwapKeepsACopy, for any     *)
(* number of power losses, every platform and an app started at any point  *)
(* of a swap.  Both rest on what the helper may count on at each of its    *)
(* steps (update_finalize.go), and on which copy of the program is on the  *)
(* device while others are only in memory.                                 *)
(***************************************************************************)
EXTENDS History, Updater, TLAPS, FiniteSetTheorems, FunctionTheorems, SequenceTheorems,
        WellFoundedInduction

-----------------------------------------------------------------------------
(* Sets of numbers in order.                                               *)

LEMMA LeastOf == ASSUME NEW S, S \subseteq Nat, S # {} PROVE \E n \in S : \A m \in S : n <= m
<1>1. PICK n \in S : \A m \in S : <<m, n>> \notin OpToRel(<, Nat)
  BY NatLessThanWellFounded, WFMin
<1>2. \A m \in S : ~(m < n)
  BY <1>1 DEF OpToRel
<1> QED
  BY <1>2

\* f lists the set D in increasing order.
Sorted(f, D) ==
  /\ f \in [1 .. Len(f) -> D] /\ Len(f) \in Nat
  /\ \A i, j \in 1 .. Len(f) : i < j => f[i] < f[j]
  /\ \A d \in D : \E i \in 1 .. Len(f) : f[i] = d

\* Where two such listings agree up to a place, neither is ahead at it.
LEMMA NotAhead ==
  ASSUME NEW D, D \subseteq Nat, NEW f, NEW g, Sorted(f, D), Sorted(g, D),
         NEW i \in 1 .. Len(f), \A j \in 1 .. (i - 1) : j <= Len(g) /\ g[j] = f[j]
  PROVE  i <= Len(g) /\ g[i] <= f[i]
<1>1. Len(f) \in Nat /\ Len(g) \in Nat
  BY DEF Sorted
<1>2. \A k \in 1 .. Len(f) : f[k] \in Nat
  BY DEF Sorted
<1>3. \A k \in 1 .. Len(g) : g[k] \in Nat
  BY DEF Sorted
<1>4. f[i] \in D
  BY DEF Sorted
<1>5. PICK j \in 1 .. Len(g) : g[j] = f[i]
  BY <1>4 DEF Sorted
<1>6. ~(j < i)
  <2> SUFFICES ASSUME j < i PROVE FALSE
    OBVIOUS
  <2>1. g[j] = f[j] /\ j \in 1 .. Len(f)
    BY <1>1
  <2>2. f[j] < f[i]
    BY <2>1 DEF Sorted
  <2> QED
    BY <1>2, <1>5, <2>1, <2>2
<1>7. i \in 1 .. Len(g) /\ (i = j \/ i < j)
  BY <1>1, <1>6
<1>8. i < j => g[i] < g[j]
  BY <1>7 DEF Sorted
<1> QED
  BY <1>2, <1>3, <1>5, <1>7, <1>8

LEMMA SortedUnique ==
  ASSUME NEW D, D \subseteq Nat, NEW f, NEW g, Sorted(f, D), Sorted(g, D)
  PROVE  f = g
<1> DEFINE Agree(i) == i <= Len(f) /\ i <= Len(g) /\ f[i] = g[i]
           Bad == {i \in Nat : i >= 1 /\ (i <= Len(f) \/ i <= Len(g)) /\ ~Agree(i)}
<1>1. /\ Len(f) \in Nat /\ Len(g) \in Nat /\ DOMAIN f = 1 .. Len(f) /\ DOMAIN g = 1 .. Len(g)
      /\ f = [i \in 1 .. Len(f) |-> f[i]] /\ g = [i \in 1 .. Len(g) |-> g[i]]
  BY DEF Sorted
<1>2. Bad = {}
  <2> SUFFICES ASSUME Bad # {} PROVE FALSE
    OBVIOUS
  <2>1. PICK i \in Bad : \A j \in Bad : i <= j
    <3>1. Bad \subseteq Nat
      OBVIOUS
    <3> HIDE DEF Bad
    <3> QED
      BY <3>1, LeastOf
  <2>2. \A j \in 1 .. (i - 1) : Agree(j)
    <3> TAKE j \in 1 .. (i - 1)
    <3>1. j \in Nat /\ j >= 1 /\ j < i /\ (j <= Len(f) \/ j <= Len(g))
      BY <1>1, <2>1
    <3>2. j \notin Bad
      BY <2>1, <3>1
    <3> QED
      BY <3>1, <3>2
  <2>3. i <= Len(f) => i <= Len(g) /\ g[i] <= f[i]
    <3> SUFFICES ASSUME i <= Len(f) PROVE i <= Len(g) /\ g[i] <= f[i]
      OBVIOUS
    <3>1. i \in 1 .. Len(f)
      BY <1>1, <2>1
    <3>2. \A j \in 1 .. (i - 1) : j <= Len(g) /\ g[j] = f[j]
      BY <2>2
    <3> QED
      BY <3>1, <3>2, NotAhead
  <2>4. i <= Len(g) => i <= Len(f) /\ f[i] <= g[i]
    <3> SUFFICES ASSUME i <= Len(g) PROVE i <= Len(f) /\ f[i] <= g[i]
      OBVIOUS
    <3>1. i \in 1 .. Len(g)
      BY <1>1, <2>1
    <3>2. \A j \in 1 .. (i - 1) : j <= Len(f) /\ f[j] = g[j]
      BY <2>2
    <3> QED
      BY <3>1, <3>2, NotAhead
  <2>5. i \in 1 .. Len(f) /\ i \in 1 .. Len(g)
    BY <1>1, <2>1, <2>3, <2>4
  <2>6. f[i] \in Nat /\ g[i] \in Nat
    BY <2>5 DEF Sorted
  <2> QED
    BY <2>1, <2>3, <2>4, <2>5, <2>6
<1>3. \A i \in Nat : i >= 1 /\ (i <= Len(f) \/ i <= Len(g)) => Agree(i)
  BY <1>2
<1>4. Len(f) = Len(g)
  <2> HIDE DEF Bad, Agree
  <2>1. ~(Len(f) < Len(g))
    <3> SUFFICES ASSUME Len(f) < Len(g) PROVE FALSE
      OBVIOUS
    <3>1. Len(f) + 1 \in Nat /\ Len(f) + 1 >= 1 /\ Len(f) + 1 <= Len(g)
      BY <1>1
    <3>2. Agree(Len(f) + 1)
      BY <1>3, <3>1
    <3> QED
      BY <1>1, <3>2 DEF Agree
  <2>2. ~(Len(g) < Len(f))
    <3> SUFFICES ASSUME Len(g) < Len(f) PROVE FALSE
      OBVIOUS
    <3>1. Len(g) + 1 \in Nat /\ Len(g) + 1 >= 1 /\ Len(g) + 1 <= Len(f)
      BY <1>1
    <3>2. Agree(Len(g) + 1)
      BY <1>3, <3>1
    <3> QED
      BY <1>1, <3>2 DEF Agree
  <2>3. Len(f) \in Nat /\ Len(g) \in Nat
    BY <1>1
  <2> QED
    BY <2>1, <2>2, <2>3
<1>5. \A i \in 1 .. Len(f) : f[i] = g[i]
  BY <1>1, <1>3
<1> HIDE DEF Bad, Agree
<1> QED
  BY <1>1, <1>4, <1>5

\* Whatever lists the set in order is its listing in order.
LEMMA AscendingIs ==
  ASSUME NEW D, D \subseteq Nat, NEW f, Sorted(f, D)
  PROVE  Ascending(D) = f
<1> DEFINE n == Len(f)
           g == Ascending(D)
<1>1. n \in Nat /\ f \in [1 .. n -> D] /\ DOMAIN f = 1 .. n
  BY DEF Sorted
<1>2. \A a, c \in 1 .. n : f[a] = f[c] => a = c
  <2> SUFFICES ASSUME NEW a \in 1 .. n, NEW c \in 1 .. n, f[a] = f[c] PROVE a = c
    OBVIOUS
  <2>1. a < c => f[a] < f[c]
    BY DEF Sorted
  <2>2. c < a => f[c] < f[a]
    BY DEF Sorted
  <2>3. f[a] \in Nat
    BY <1>1
  <2> QED
    BY <1>1, <2>1, <2>2, <2>3
<1>3. f \in Bijection(1 .. n, D)
  <2>1. \A t \in D : \E s \in 1 .. n : f[s] = t
    BY DEF Sorted
  <2> QED
    BY <1>1, <1>2, <2>1, Fun_IsBij
<1>4. Cardinality(D) = n /\ IsFiniteSet(D)
  <2>1. ExistsBijection(1 .. n, D)
    BY <1>3 DEF ExistsBijection
  <2> QED
    BY <1>1, <2>1, FS_CountingElements, FS_NatBijection
<1>5. g \in [1 .. n -> D] /\ \A i, j \in 1 .. n : i < j => g[i] < g[j]
  <2>1. \A i, j \in DOMAIN f : i < j => f[i] < f[j]
    BY <1>1 DEF Sorted
  <2>2. /\ g \in [1 .. n -> D]
        /\ \A i, j \in DOMAIN g : i < j => g[i] < g[j]
    BY <1>1, <1>4, <2>1 DEF Ascending
  <2> QED
    BY <2>2
<1> HIDE DEF g, n
<1>6. Len(g) = n
  BY <1>1, <1>5
<1>7. g \in Injection(1 .. n, D)
  <2>1. \A a, c \in 1 .. n : g[a] = g[c] => a = c
    <3> SUFFICES ASSUME NEW a \in 1 .. n, NEW c \in 1 .. n, g[a] = g[c] PROVE a = c
      OBVIOUS
    <3>1. (a < c => g[a] < g[c]) /\ (c < a => g[c] < g[a]) /\ g[a] \in Nat
      BY <1>5
    <3> QED
      BY <1>1, <3>1
  <2> QED
    BY <1>5, <2>1, Fun_IsInj
<1>8. g \in Surjection(1 .. n, D)
  <2>1. Cardinality(1 .. n) = n
    BY <1>1, FS_Interval
  <2> QED
    BY <1>4, <1>7, <2>1, FS_Injection
<1>9. \A d \in D : \E i \in 1 .. n : g[i] = d
  BY <1>8 DEF Surjection
<1>10. Sorted(g, D)
  BY <1>1, <1>5, <1>6, <1>9 DEF Sorted
<1> QED
  BY <1>10, SortedUnique DEF g

LEMMA AppendSorted ==
  ASSUME NEW D, D \subseteq Nat, NEW f, Sorted(f, D), NEW s \in Nat, \A d \in D : d < s
  PROVE  Sorted(Append(f, s), D \cup {s})
<1> DEFINE g == Append(f, s)
           n == Len(f)
<1>1. n \in Nat /\ f \in Seq(D) /\ DOMAIN f = 1 .. n /\ \A i \in 1 .. n : f[i] \in D
  BY DEF Sorted
<1>2. /\ g \in Seq(D \cup {s}) /\ Len(g) = n + 1 /\ g[n + 1] = s
      /\ \A i \in 1 .. n : g[i] = f[i]
  BY <1>1
<1> HIDE DEF g, n
<1>3. g \in [1 .. Len(g) -> D \cup {s}] /\ Len(g) \in Nat
  BY <1>1, <1>2
<1>4. ASSUME NEW i \in 1 .. Len(g), NEW j \in 1 .. Len(g), i < j PROVE g[i] < g[j]
  <2>1. i \in 1 .. n /\ g[i] = f[i] /\ f[i] \in D
    BY <1>1, <1>2, <1>4
  <2>2. CASE j = n + 1
    BY <1>2, <2>1, <2>2
  <2>3. CASE j # n + 1
    <3>1. j \in 1 .. n /\ g[j] = f[j]
      BY <1>1, <1>2, <2>3
    <3> QED
      BY <1>4, <2>1, <3>1 DEF Sorted, n
  <2> QED
    BY <2>2, <2>3
<1>5. ASSUME NEW d \in D \cup {s} PROVE \E i \in 1 .. Len(g) : g[i] = d
  <2>1. CASE d = s
    BY <1>1, <1>2, <2>1
  <2>2. CASE d \in D
    <3>1. PICK i \in 1 .. n : f[i] = d
      BY <2>2 DEF Sorted, n
    <3> QED
      BY <1>1, <1>2, <3>1
  <2> QED
    BY <2>1, <2>2
<1> QED
  BY <1>3, <1>4, <1>5 DEF Sorted, g

\* A sequence without its i-th entry.
LEMMA RemoveAtFacts ==
  ASSUME NEW S, NEW f \in Seq(S), NEW i \in 1 .. Len(f)
  PROVE  RemoveAt(f, i) = [j \in 1 .. (Len(f) - 1) |-> IF j < i THEN f[j] ELSE f[j + 1]]
<1> DEFINE n == Len(f)
           a == SubSeq(f, 1, i - 1)
           b == SubSeq(f, i + 1, n)
           g == [j \in 1 .. (n - 1) |-> IF j < i THEN f[j] ELSE f[j + 1]]
<1>1. n \in Nat /\ i \in Nat /\ i >= 1 /\ i <= n /\ DOMAIN f = 1 .. n
  OBVIOUS
<1>2. a \in Seq(S) /\ Len(a) = i - 1 /\ \A j \in 1 .. (i - 1) : a[j] = f[j]
  BY <1>1
<1>3. b \in Seq(S) /\ Len(b) = n - i /\ \A j \in 1 .. (n - i) : b[j] = f[i + j]
  <2>1. /\ b \in Seq(S) /\ Len(b) = IF i + 1 <= n THEN n - (i + 1) + 1 ELSE 0
        /\ \A j \in 1 .. (n - (i + 1) + 1) : b[j] = f[i + 1 + j - 1]
    BY <1>1, SubSeqProperties
  <2>2. n - (i + 1) + 1 = n - i
    BY <1>1
  <2>3. \A j \in 1 .. (n - i) : i + 1 + j - 1 = i + j
    BY <1>1
  <2> HIDE DEF b, n
  <2> QED
    BY <1>1, <2>1, <2>2, <2>3
<1> HIDE DEF n, a, b
<1>4. /\ a \o b \in Seq(S) /\ Len(a \o b) = n - 1
      /\ \A j \in 1 .. (n - 1) : (a \o b)[j] = IF j <= i - 1 THEN a[j] ELSE b[j - (i - 1)]
  <2>1. /\ a \o b \in Seq(S) /\ Len(a \o b) = Len(a) + Len(b)
        /\ \A j \in 1 .. (Len(a) + Len(b)) :
             (a \o b)[j] = IF j <= Len(a) THEN a[j] ELSE b[j - Len(a)]
    BY <1>2, <1>3, ConcatProperties
  <2>2. Len(a) + Len(b) = n - 1 /\ Len(a) = i - 1
    BY <1>1, <1>2, <1>3
  <2> QED
    BY <2>1, <2>2
<1>5. a \o b = [j \in 1 .. (n - 1) |-> (a \o b)[j]]
  <2> DEFINE c == a \o b
  <2>1. c \in Seq(S) /\ Len(c) = n - 1
    BY <1>4
  <2> HIDE DEF c
  <2>2. c = [j \in 1 .. Len(c) |-> c[j]]
    BY <2>1
  <2> QED
    BY <2>1, <2>2 DEF c
<1>6. ASSUME NEW j \in 1 .. (n - 1) PROVE (a \o b)[j] = g[j]
  <2>1. CASE j < i
    BY <1>1, <1>2, <1>4, <2>1
  <2>2. CASE ~(j < i)
    <3>1. j - (i - 1) \in 1 .. (n - i) /\ i + (j - (i - 1)) = j + 1 /\ ~(j <= i - 1)
      BY <1>1, <2>2
    <3>2. (a \o b)[j] = f[j + 1]
      BY <1>3, <1>4, <3>1
    <3> QED
      BY <2>2, <3>2
  <2> QED
    BY <2>1, <2>2
<1>7. a \o b = g
  BY <1>5, <1>6
<1> QED
  BY <1>7 DEF RemoveAt, a, b, n

LEMMA RemoveSorted ==
  ASSUME NEW D, D \subseteq Nat, NEW f, Sorted(f, D), NEW i \in 1 .. Len(f)
  PROVE  Sorted(RemoveAt(f, i), D \ {f[i]})
<1> DEFINE n == Len(f)
           g == [j \in 1 .. (n - 1) |-> IF j < i THEN f[j] ELSE f[j + 1]]
           E == D \ {f[i]}
<1>1. /\ n \in Nat /\ f \in Seq(D) /\ i \in Nat /\ n - 1 \in Nat
      /\ \A j \in 1 .. n : f[j] \in D /\ f[j] \in Nat
  <2>1. n \in Nat /\ f \in [1 .. n -> D]
    BY DEF Sorted
  <2> HIDE DEF n
  <2>2. n - 1 \in Nat /\ i \in Nat
    BY <2>1 DEF n
  <2>3. f \in Seq(D)
    BY <2>1
  <2>4. \A j \in 1 .. n : f[j] \in D /\ f[j] \in Nat
    BY <2>1
  <2> QED
    BY <2>1, <2>2, <2>3, <2>4
<1>2. \A j, k \in 1 .. n : j < k => f[j] < f[k]
  BY DEF Sorted
<1>3. \A d \in D : \E j \in 1 .. n : f[j] = d
  BY DEF Sorted
<1>4. RemoveAt(f, i) = g
  BY <1>1, RemoveAtFacts
<1> HIDE DEF n
<1>5. ASSUME NEW j \in 1 .. (n - 1)
      PROVE  \E k \in 1 .. n : g[j] = f[k] /\ k # i /\ (IF j < i THEN k = j ELSE k = j + 1)
  <2>1. j \in 1 .. n /\ j + 1 \in 1 .. n
    BY <1>1
  <2> QED
    BY <1>1, <2>1
<1>6. \A k \in 1 .. n : k # i => f[k] # f[i]
  <2> TAKE k \in 1 .. n
  <2>1. (k < i => f[k] < f[i]) /\ (i < k => f[i] < f[k]) /\ f[k] \in Nat /\ f[i] \in Nat
    BY <1>1, <1>2 DEF n
  <2> QED
    BY <1>1, <2>1
<1>7. g \in [1 .. (n - 1) -> E] /\ Len(g) = n - 1
  <2>1. \A j \in 1 .. (n - 1) : g[j] \in E
    BY <1>1, <1>5, <1>6
  <2>2. g \in [1 .. (n - 1) -> E]
    BY <2>1
  <2> HIDE DEF g
  <2> QED
    BY <1>1, <2>2
<1>8. ASSUME NEW j \in 1 .. (n - 1), NEW k \in 1 .. (n - 1), j < k PROVE g[j] < g[k]
  <2>1. PICK p \in 1 .. n : g[j] = f[p] /\ (IF j < i THEN p = j ELSE p = j + 1)
    BY <1>5
  <2>2. PICK q \in 1 .. n : g[k] = f[q] /\ (IF k < i THEN q = k ELSE q = k + 1)
    BY <1>5
  <2>3. p < q
    BY <1>1, <1>8, <2>1, <2>2
  <2> QED
    BY <1>2, <2>1, <2>2, <2>3
<1>9. ASSUME NEW d \in E PROVE \E j \in 1 .. (n - 1) : g[j] = d
  <2>1. PICK k \in 1 .. n : f[k] = d
    BY <1>3
  <2>2. CASE k < i
    <3>1. k \in 1 .. (n - 1)
      BY <1>1, <2>2 DEF n
    <3> QED
      BY <2>1, <2>2, <3>1
  <2>3. CASE i < k
    <3>1. k - 1 \in 1 .. (n - 1) /\ ~(k - 1 < i) /\ k - 1 + 1 = k
      BY <1>1, <2>3
    <3> QED
      BY <2>1, <3>1
  <2>4. k # i
    BY <2>1
  <2> QED
    BY <1>1, <2>2, <2>3, <2>4
<1> HIDE DEF g
<1> QED
  BY <1>1, <1>4, <1>7, <1>8, <1>9 DEF Sorted, E

\* How many are greater than the i-th.
LEMMA HowManyGreater ==
  ASSUME NEW D, D \subseteq Nat, NEW f, Sorted(f, D), NEW i \in 1 .. Len(f)
  PROVE  Cardinality({d \in D : d > f[i]}) = Len(f) - i
<1> DEFINE n == Len(f)
           G == {d \in D : d > f[i]}
           h == [j \in 1 .. (n - i) |-> f[i + j]]
<1>1. n \in Nat /\ i \in Nat /\ n - i \in Nat /\ \A j \in 1 .. n : f[j] \in D /\ f[j] \in Nat
  <2>1. n \in Nat /\ f \in [1 .. n -> D]
    BY DEF Sorted
  <2> HIDE DEF n
  <2>2. n - i \in Nat /\ i \in Nat
    BY <2>1 DEF n
  <2> QED
    BY <2>1, <2>2
<1>2. \A j, k \in 1 .. n : j < k => f[j] < f[k]
  BY DEF Sorted
<1>3. \A d \in D : \E j \in 1 .. n : f[j] = d
  BY DEF Sorted
<1> HIDE DEF n
<1>4. \A j \in 1 .. (n - i) : i + j \in 1 .. n /\ i < i + j
  BY <1>1
<1>5. \A j \in 1 .. (n - i) : h[j] = f[i + j] /\ h[j] \in G
  <2> TAKE j \in 1 .. (n - i)
  <2>1. i + j \in 1 .. n /\ i \in 1 .. n /\ i < i + j
    BY <1>4 DEF n
  <2> QED
    BY <1>1, <1>2, <2>1
<1>6. \A j, k \in 1 .. (n - i) : h[j] = h[k] => j = k
  <2> SUFFICES ASSUME NEW j \in 1 .. (n - i), NEW k \in 1 .. (n - i), j # k PROVE h[j] # h[k]
    OBVIOUS
  <2>1. /\ i + j \in 1 .. n /\ i + k \in 1 .. n
        /\ i + j < i + k \/ i + k < i + j
    BY <1>1, <1>4
  <2>2. f[i + j] < f[i + k] \/ f[i + k] < f[i + j]
    BY <1>2, <2>1
  <2> QED
    BY <1>1, <1>5, <2>1, <2>2
<1>7. \A d \in G : \E j \in 1 .. (n - i) : h[j] = d
  <2> TAKE d \in G
  <2>1. PICK k \in 1 .. n : f[k] = d
    BY <1>3
  <2>2. ~(k <= i)
    <3> SUFFICES ASSUME k <= i PROVE FALSE
      OBVIOUS
    <3>1. i \in 1 .. n /\ (k = i \/ f[k] < f[i])
      BY <1>1, <1>2 DEF n
    <3> QED
      BY <1>1, <2>1, <3>1
  <2>3. k - i \in 1 .. (n - i) /\ i + (k - i) = k
    BY <1>1, <2>2
  <2> QED
    BY <1>5, <2>1, <2>3
<1>8. h \in Bijection(1 .. (n - i), G)
  <2>1. h \in [1 .. (n - i) -> G]
    BY <1>5
  <2> HIDE DEF h, G
  <2> QED
    BY <1>6, <1>7, <2>1, Fun_IsBij
<1>9. ExistsBijection(1 .. (n - i), G)
  BY <1>8 DEF ExistsBijection
<1> HIDE DEF G
<1>10. Cardinality(G) = n - i
  BY <1>1, <1>9, FS_CountingElements
<1> QED
  BY <1>10 DEF G, n

\* The last K entries of a listing are the K greatest of its set.
LEMMA LastSorted ==
  ASSUME NEW D, D \subseteq Nat, NEW f, Sorted(f, D), NEW K \in Nat, K < Len(f)
  PROVE  /\ SubSeq(f, Len(f) - K + 1, Len(f)) = [j \in 1 .. K |-> f[Len(f) - K + j]]
         /\ Sorted(SubSeq(f, Len(f) - K + 1, Len(f)),
                   {d \in D : ~(Cardinality({k \in D : k > d}) >= K)})
<1> DEFINE n == Len(f)
           g == [j \in 1 .. K |-> f[n - K + j]]
           q == SubSeq(f, n - K + 1, n)
           E == {d \in D : ~(Cardinality({k \in D : k > d}) >= K)}
<1>1. n \in Nat /\ f \in [1 .. n -> D]
  BY DEF Sorted
<1>2. \A j, k \in 1 .. n : j < k => f[j] < f[k]
  BY DEF Sorted
<1>3. \A d \in D : \E j \in 1 .. n : f[j] = d
  BY DEF Sorted
<1>4. \A i \in 1 .. n : f[i] \in E <=> n - i < K
  <2> TAKE i \in 1 .. n
  <2>1. Cardinality({k \in D : k > f[i]}) = n - i
    BY HowManyGreater
  <2> QED
    BY <1>1, <2>1
<1> HIDE DEF n, E
<1>5. \A j \in 1 .. K : n - K + j \in 1 .. n /\ n - (n - K + j) < K
  BY <1>1 DEF n
<1>6. q = g
  <2>1. n - K + 1 \in Int /\ n \in Int /\ \A i \in (n - K + 1) .. n : f[i] \in D
    BY <1>1 DEF n
  <2>2. /\ q \in Seq(D) /\ Len(q) = IF n - K + 1 <= n THEN n - (n - K + 1) + 1 ELSE 0
        /\ \A j \in 1 .. (n - (n - K + 1) + 1) : q[j] = f[n - K + 1 + j - 1]
    BY <2>1, SubSeqProperties
  <2>3. n - (n - K + 1) + 1 = K /\ (~(n - K + 1 <= n) => K = 0)
    BY <1>1
  <2>4. \A j \in 1 .. K : n - K + 1 + j - 1 = n - K + j
    BY <1>1
  <2> HIDE DEF q
  <2>5. Len(q) = K /\ q = [j \in 1 .. Len(q) |-> q[j]]
    BY <2>2, <2>3
  <2> QED
    BY <2>2, <2>3, <2>4, <2>5
<1>7. g \in [1 .. K -> E] /\ Len(g) = K
  <2>1. \A j \in 1 .. K : g[j] \in E
    BY <1>4, <1>5
  <2>2. g \in [1 .. K -> E]
    BY <2>1
  <2> HIDE DEF g
  <2> QED
    BY <2>2
<1>8. ASSUME NEW j \in 1 .. K, NEW k \in 1 .. K, j < k PROVE g[j] < g[k]
  <2>1. n - K + j \in 1 .. n /\ n - K + k \in 1 .. n /\ n - K + j < n - K + k
    BY <1>1, <1>5, <1>8
  <2> QED
    BY <1>2, <2>1
<1>9. ASSUME NEW d \in E PROVE \E j \in 1 .. K : g[j] = d
  <2>1. PICK i \in 1 .. n : f[i] = d
    BY <1>3, <1>9 DEF E
  <2>2. n - i < K
    BY <1>4, <1>9, <2>1
  <2>3. i - (n - K) \in 1 .. K /\ n - K + (i - (n - K)) = i
    BY <1>1, <2>2
  <2> QED
    BY <2>1, <2>3
<1> HIDE DEF g, q
<1>10. Sorted(g, E)
  BY <1>7, <1>8, <1>9 DEF Sorted
<1> QED
  BY <1>6, <1>10 DEF E, g, q, n

LEMMA NoneStale ==
  ASSUME NEW D, D \subseteq Nat, NEW f, Sorted(f, D), NEW K \in Nat, Len(f) <= K
  PROVE  \A d \in D : ~(Cardinality({k \in D : k > d}) >= K)
<1> TAKE d \in D
<1>1. PICK i \in 1 .. Len(f) : f[i] = d
  BY DEF Sorted
<1>2. Cardinality({k \in D : k > f[i]}) = Len(f) - i
  BY HowManyGreater
<1>3. Cardinality({k \in D : k > d}) = Len(f) - i
  BY <1>1, <1>2
<1> QED
  BY <1>3 DEF Sorted

LEMMA NothingListed == Sorted(<<>>, {})
BY DEF Sorted

-----------------------------------------------------------------------------
(* The history store.                                                      *)

Labels == {"unused", "running", "list", "compare", "touch", "save", "prune", "done", "failed"}

Records ==
  [client : {"desktop", "cli"}, cidr : CIDRs \cup {{}}, pc : Labels,
   hosts : (UNION {HostsOf(c) : c \in CIDRs}) \cup {<<>>}, ended : Nat, latest : Scans \cup {NoRun}]

StoreTypes ==
  /\ DOMAIN runs \subseteq Scans /\ DOMAIN rows = DOMAIN runs
  /\ \A id \in DOMAIN runs :
       runs[id] \in [cidr : CIDRs, ended : Nat] /\ rows[id] \in HostsOf(runs[id].cidr)
  /\ started \in 0 .. MaxScans /\ ended \in Nat
  /\ use \in Uses /\ deletes \in Nat
  /\ scan \in [Scans -> Records]
  /\ \A s \in Scans :
       /\ scan[s].pc \in {"running", "list", "compare", "touch", "save", "prune"} =>
            scan[s].cidr \in CIDRs
       /\ s \in Saving => scan[s].hosts \in HostsOf(scan[s].cidr)

\* Saves do not overlap.
Apart == use.saving = 1

OneSave == Apart => \A s, t \in Saving : s = t

\* Of the app alone: one scan runs at a time, and it and the one that is being
\* saved are newer than every run that is stored.
OneAtATime ==
  Alone =>
    /\ \A s \in Scans : scan[s].pc # "unused" => s <= started /\ scan[s].client = "desktop"
    /\ \A s \in Scans : scan[s].pc = "running" => s = started
    /\ \A id \in DOMAIN runs : id <= started
    /\ \A s \in Scans : scan[s].pc \in {"running", "list", "compare", "touch", "save"} =>
         \A id \in DOMAIN runs : id < s
    /\ \E f : Sorted(f, DOMAIN runs)

Newest(id) == id \in DOMAIN runs /\ \A k \in DOMAIN runs : k <= id
Same(id, s) ==
  runs[id].cidr = scan[s].cidr /\ hostsEquivalent(rows[id], scan[s].hosts)

\* What a save compared its scan with is still the newest run.
StillNewest ==
  Alone => \A s \in Scans :
    /\ scan[s].pc \in {"compare", "touch"} =>
         Newest(scan[s].latest) /\ runs[scan[s].latest].cidr = scan[s].cidr
    /\ scan[s].pc = "touch" => Same(scan[s].latest, s)
    /\ scan[s].pc = "save" /\ scan[s].client = "desktop" =>
         \A id \in DOMAIN runs : Newest(id) => ~Same(id, s)

HInv == StoreTypes /\ OneSave /\ OneAtATime /\ StillNewest

LEMMA ScanNumbers ==
  /\ MaxScans \in Nat /\ Scans \subseteq Nat /\ IsFiniteSet(Scans) /\ Saving \subseteq Scans
  /\ NoRun \notin Scans
BY HistoryAssumption, FS_Interval DEF Scans, Saving

LEMMA NoScanTyped == NoScan \in Records
<1> DEFINE hosts == (UNION {HostsOf(c) : c \in CIDRs}) \cup {<<>>}
           ranges == CIDRs \cup {{}}
           latest == Scans \cup {NoRun}
<1>1. {} \in ranges /\ <<>> \in hosts /\ NoRun \in latest
  OBVIOUS
<1> HIDE DEF hosts, ranges, latest
<1>2. NoScan \in [client : {"desktop", "cli"}, cidr : ranges, pc : Labels, hosts : hosts,
                  ended : Nat, latest : latest]
  BY <1>1 DEF NoScan, Labels
<1> QED
  BY <1>2 DEF Records, hosts, ranges, latest

LEMMA InitHInv == StoreInit => HInv
<1> SUFFICES ASSUME StoreInit PROVE HInv
  OBVIOUS
<1>1. StoreTypes
  <2>1. scan \in [Scans -> Records] /\ \A s \in Scans : scan[s].pc = "unused"
    BY NoScanTyped DEF StoreInit, NoScan
  <2>2. DOMAIN runs = {} /\ DOMAIN rows = {}
    BY DEF StoreInit
  <2> QED
    BY <2>1, <2>2, HistoryAssumption DEF StoreInit, StoreTypes, Saving
<1>2. OneSave /\ OneAtATime /\ StillNewest
  <2>1. \A s \in Scans : scan[s].pc = "unused"
    BY DEF StoreInit, NoScan
  <2>2. DOMAIN runs = {}
    BY DEF StoreInit
  <2> QED
    BY <2>1, <2>2, NothingListed DEF OneSave, OneAtATime, StillNewest, Saving
<1> QED
  BY <1>1, <1>2 DEF HInv

LEMMA GotoFacts ==
  ASSUME StoreTypes, NEW s \in Scans, NEW label \in Labels, Goto(s, label)
  PROVE  /\ scan' \in [Scans -> Records]
         /\ \A t \in Scans \ {s} : scan'[t] = scan[t]
         /\ scan'[s].pc = label
         /\ \A field \in {"client", "cidr", "hosts", "ended", "latest"} :
              scan'[s][field] = scan[s][field]
BY DEF StoreTypes, Records, Goto

LEMMA LeaveFacts ==
  ASSUME StoreTypes, NEW s \in Scans, NEW label \in Labels,
         scan' = [scan EXCEPT ![s] = [NoScan EXCEPT !.pc = label]]
  PROVE  /\ scan' \in [Scans -> Records]
         /\ \A t \in Scans \ {s} : scan'[t] = scan[t]
         /\ scan'[s].pc = label /\ scan'[s].client = "desktop"
<1>1. [NoScan EXCEPT !.pc = label] \in Records
  BY NoScanTyped DEF Records
<1> QED
  BY <1>1 DEF StoreTypes, NoScan


\* The newest of the stored runs.
LEMMA LatestFacts ==
  ASSUME StoreTypes
  PROVE  /\ Latest = NoRun <=> DOMAIN runs = {}
         /\ Latest # NoRun => Newest(Latest) /\ Latest \in Scans
<1> DEFINE S == DOMAIN runs
           R == {m \in Nat : \E x \in S : m = MaxScans - x}
<1> SUFFICES ASSUME S # {} PROVE Latest \in S /\ \A k \in S : k <= Latest
  BY ScanNumbers DEF Latest, Newest, StoreTypes
<1>1. S \subseteq 1 .. MaxScans /\ MaxScans \in Nat
  BY ScanNumbers DEF StoreTypes, Scans
<1> HIDE DEF S
<1>2. R \subseteq Nat /\ R # {}
  <2>1. PICK x \in S : TRUE
    OBVIOUS
  <2>2. MaxScans - x \in Nat
    BY <1>1, <2>1
  <2> QED
    BY <2>1, <2>2
<1>3. PICK m \in R : \A k \in R : m <= k
  <2> HIDE DEF R
  <2> QED
    BY <1>2, LeastOf
<1>4. PICK x \in S : m = MaxScans - x
  BY <1>3
<1>5. \A y \in S : x >= y
  BY <1>1, <1>3, <1>4
<1>6. Max(S) \in S /\ \A y \in S : Max(S) >= y
  BY <1>4, <1>5 DEF Max
<1>7. Latest = Max(S)
  BY DEF Latest, S
<1> QED
  BY <1>1, <1>6, <1>7

LEMMA NewestIsLatest ==
  ASSUME StoreTypes, NEW id, Newest(id)
  PROVE  Latest # NoRun /\ id = Latest
<1>1. id \in DOMAIN runs /\ DOMAIN runs \subseteq Nat
  BY ScanNumbers DEF Newest, StoreTypes
<1>2. Newest(Latest) /\ Latest # NoRun
  BY <1>1, LatestFacts
<1>3. id <= Latest /\ Latest <= id /\ Latest \in Nat /\ id \in Nat
  BY <1>1, <1>2 DEF Newest
<1> QED
  BY <1>2, <1>3

-----------------------------------------------------------------------------
(* Each step preserves it.                                                 *)

LEMMA BeginScanHInv ==
  ASSUME HInv, NEW client \in use.clients, NEW cidr \in use.cidrs, BeginScan(client, cidr)
  PROVE  HInv'
<1> DEFINE s == started + 1
<1>1. /\ s \in Scans /\ started < MaxScans /\ started' = s /\ started \in Nat /\ s \in Nat
      /\ client \in {"desktop", "cli"} /\ cidr \in CIDRs
  BY HistoryAssumption DEF BeginScan, HInv, StoreTypes, Scans
<1>2. /\ scan' \in [Scans -> Records]
      /\ \A t \in Scans \ {s} : scan'[t] = scan[t]
      /\ scan'[s].pc = "running" /\ scan'[s].cidr = cidr /\ scan'[s].client = client
  <2>1. [NoScan EXCEPT !.client = client, !.cidr = cidr, !.pc = "running"] \in Records
    BY <1>1, NoScanTyped DEF Records, Labels
  <2> QED
    BY <1>1, <2>1 DEF BeginScan, HInv, StoreTypes, NoScan
<1>3. UNCHANGED <<runs, rows, ended, deletes, use>>
  BY DEF BeginScan
<1>4. Saving' \subseteq Saving /\ s \notin Saving'
  BY <1>2 DEF Saving
<1>5. StoreTypes'
  <2>1. \A t \in Scans :
          scan'[t].pc \in {"running", "list", "compare", "touch", "save", "prune"} =>
            scan'[t].cidr \in CIDRs
    BY <1>1, <1>2 DEF HInv, StoreTypes
  <2>2. \A t \in Saving' : scan'[t].hosts \in HostsOf(scan'[t].cidr)
    BY <1>2, <1>4 DEF HInv, StoreTypes, Saving
  <2>3. started' \in 0 .. MaxScans
    BY <1>1, ScanNumbers DEF Scans
  <2> QED
    BY <1>2, <1>3, <2>1, <2>2, <2>3 DEF HInv, StoreTypes
<1>6. OneAtATime'
  <2> SUFFICES ASSUME Alone' PROVE OneAtATime'
    BY DEF OneAtATime
  <2>1. Alone /\ client = "desktop"
    BY <1>3 DEF Alone
  <2>2. \A t \in Scans : scan[t].pc = "running" => scan[t].client # "desktop"
    BY <2>1 DEF BeginScan, At
  <2>3. \A t \in Scans : scan[t].pc = "running" => FALSE
    BY <2>1, <2>2 DEF HInv, OneAtATime
  <2>4. \A t \in Scans : scan'[t].pc # "unused" => t <= started' /\ scan'[t].client = "desktop"
    BY <1>1, <1>2, <2>1, ScanNumbers DEF HInv, OneAtATime
  <2>6. \A t \in Scans : scan'[t].pc = "running" => t = started'
    BY <1>1, <1>2, <2>3
  <2>7. \A id \in DOMAIN runs' : id <= started' /\ id < s
    <3>1. \A id \in DOMAIN runs : id <= started /\ id \in Nat
      BY <2>1, ScanNumbers DEF HInv, OneAtATime, StoreTypes
    <3> QED
      BY <1>1, <1>3, <3>1
  <2>8. \A t \in Scans : scan'[t].pc \in {"running", "list", "compare", "touch", "save"} =>
          \A id \in DOMAIN runs' : id < t
    BY <1>2, <1>3, <2>1, <2>7 DEF HInv, OneAtATime
  <2>9. \E f : Sorted(f, DOMAIN runs')
    BY <1>3, <2>1 DEF HInv, OneAtATime
  <2> QED
    BY <2>4, <2>6, <2>7, <2>8, <2>9 DEF OneAtATime
<1>7. OneSave' /\ StillNewest'
  BY <1>2, <1>3, <1>4 DEF HInv, OneSave, StillNewest, Alone, Apart, Newest, Same
<1> QED
  BY <1>5, <1>6, <1>7 DEF HInv

\* With the app alone, the scan that ends is the only one to be saved.
LEMMA EndScanHInv ==
  ASSUME HInv, NEW s \in Scans, EndScan(s)
  PROVE  HInv'
<1>1. PICK h \in HostsOf(scan[s].cidr) :
        scan' = [scan EXCEPT
                   ![s].pc = IF scan[s].client = "desktop" THEN "list" ELSE "save",
                   ![s].hosts = h, ![s].ended = ended + 1]
  BY DEF EndScan
<1>2. scan[s].pc = "running" /\ scan[s].cidr \in CIDRs /\ ended \in Nat /\ scan \in [Scans -> Records]
  BY DEF EndScan, HInv, StoreTypes
<1>3. /\ \A t \in Scans \ {s} : scan'[t] = scan[t]
      /\ scan'[s].pc = IF scan[s].client = "desktop" THEN "list" ELSE "save"
      /\ scan'[s].hosts = h /\ scan'[s].cidr = scan[s].cidr /\ scan'[s].client = scan[s].client
      /\ scan' \in [Scans -> Records]
  <2>1. h \in (UNION {HostsOf(c) : c \in CIDRs}) \cup {<<>>}
    BY <1>2
  <2>2. [scan[s] EXCEPT !.pc = IF scan[s].client = "desktop" THEN "list" ELSE "save",
                        !.hosts = h, !.ended = ended + 1] \in Records
    <3> DEFINE hosts == (UNION {HostsOf(c) : c \in CIDRs}) \cup {<<>>}
               ranges == CIDRs \cup {{}}
               latest == Scans \cup {NoRun}
               label == IF scan[s].client = "desktop" THEN "list" ELSE "save"
    <3>1. Records = [client : {"desktop", "cli"}, cidr : ranges, pc : Labels,
                     hosts : hosts, ended : Nat, latest : latest]
      BY DEF Records
    <3>2. h \in hosts /\ scan[s] \in Records
      BY <1>2, <2>1
    <3>3. label \in Labels /\ ended + 1 \in Nat
      BY <1>2 DEF Labels
    <3> HIDE DEF hosts, ranges, latest, label
    <3>4. [scan[s] EXCEPT !.pc = label, !.hosts = h, !.ended = ended + 1] \in Records
      BY <3>1, <3>2, <3>3
    <3> QED
      BY <3>4 DEF label
  <2>3. scan' = [scan EXCEPT ![s] =
          [scan[s] EXCEPT !.pc = IF scan[s].client = "desktop" THEN "list" ELSE "save",
                          !.hosts = h, !.ended = ended + 1]]
    BY <1>1
  <2> QED
    BY <1>2, <2>2, <2>3 DEF Records
<1>4. UNCHANGED <<runs, rows, started, deletes, use>> /\ ended' = ended + 1
  BY DEF EndScan
<1>5. Saving' \subseteq Saving \cup {s}
  BY <1>3 DEF Saving
<1>6. StoreTypes'
  <2>1. \A t \in Saving' : scan'[t].hosts \in HostsOf(scan'[t].cidr)
    BY <1>1, <1>3, <1>5, ScanNumbers DEF HInv, StoreTypes, Saving
  <2>2. \A t \in Scans :
          scan'[t].pc \in {"running", "list", "compare", "touch", "save", "prune"} =>
            scan'[t].cidr \in CIDRs
    BY <1>2, <1>3 DEF HInv, StoreTypes
  <2> QED
    BY <1>2, <1>3, <1>4, <2>1, <2>2 DEF HInv, StoreTypes
<1>7. Alone => scan'[s].pc = "list"
  BY <1>2, <1>3 DEF HInv, OneAtATime
<1>8. Apart => Saving = {}
  <2> SUFFICES ASSUME Apart PROVE Saving = {}
    OBVIOUS
  <2>1. IsFiniteSet(Saving)
    BY ScanNumbers, FS_Subset
  <2>2. Cardinality(Saving) \in Nat /\ Cardinality(Saving) < 1
    BY <2>1, FS_CardinalityType DEF EndScan, Apart
  <2> QED
    BY <2>1, <2>2, FS_EmptySet
<1>9. OneSave'
  BY <1>4, <1>5, <1>8 DEF OneSave, Apart
<1>10. OneAtATime'
  <2> SUFFICES ASSUME Alone PROVE OneAtATime'
    BY <1>4 DEF OneAtATime, Alone
  <2>3. \A t \in Scans : scan'[t].pc # "unused" => t <= started' /\ scan'[t].client = "desktop"
    BY <1>2, <1>3, <1>4 DEF HInv, OneAtATime
  <2>4. \A t \in Scans : scan'[t].pc = "running" => t = started'
    BY <1>3, <1>4, <1>7 DEF HInv, OneAtATime
  <2>5. \A t \in Scans : scan'[t].pc \in {"running", "list", "compare", "touch", "save"} =>
          \A id \in DOMAIN runs' : id < t
    BY <1>2, <1>3, <1>4 DEF HInv, OneAtATime
  <2>6. (\A id \in DOMAIN runs' : id <= started') /\ \E f : Sorted(f, DOMAIN runs')
    BY <1>4 DEF HInv, OneAtATime
  <2> QED
    BY <2>3, <2>4, <2>5, <2>6 DEF OneAtATime
<1>11. StillNewest'
  <2>1. scan'[s].pc = "save" => scan'[s].client # "desktop"
    BY <1>3
  <2>2. scan'[s].pc \notin {"compare", "touch"}
    BY <1>3
  <2> QED
    BY <1>3, <1>4, <1>7, <2>1, <2>2 DEF HInv, StillNewest, Alone, Apart, Newest, Same
<1> QED
  BY <1>6, <1>9, <1>10, <1>11 DEF HInv


\* A step of a save: of the app alone it is the only one, and the scan that may
\* be running meanwhile is a later one.
LEMMA SaveMoves ==
  ASSUME HInv, NEW s \in Saving, scan' \in [Scans -> Records],
         \A t \in Scans \ {s} : scan'[t] = scan[t],
         scan'[s].pc \notin {"unused", "running"},
         scan'[s].client = "desktop" \/ scan'[s].client = scan[s].client,
         UNCHANGED <<started, use>>
  PROVE  /\ Saving' \subseteq Saving
         /\ (Alone' <=> Alone) /\ (Apart' <=> Apart)
         /\ OneSave' /\ (Apart => \A t \in Saving' : t = s)
         /\ Alone =>
              /\ \A t \in Scans : scan'[t].pc # "unused" => t <= started' /\ scan'[t].client = "desktop"
              /\ \A t \in Scans : scan'[t].pc = "running" => t = started' /\ s < t
<1>1. s \in Scans /\ scan[s].pc # "unused" /\ scan[s].pc # "running"
  BY DEF Saving
<1>2. Saving' \subseteq Saving
  BY DEF Saving
<1>3. (Alone' <=> Alone) /\ (Apart' <=> Apart)
  BY DEF Alone, Apart
<1>4. OneSave' /\ (Apart => \A t \in Saving' : t = s)
  BY <1>2, <1>3 DEF HInv, OneSave
<1>5. ASSUME Alone
      PROVE  /\ \A t \in Scans : scan'[t].pc # "unused" => t <= started' /\ scan'[t].client = "desktop"
             /\ \A t \in Scans : scan'[t].pc = "running" => t = started' /\ s < t
  <2>1. \A t \in Scans : scan'[t].pc # "unused" => t <= started' /\ scan'[t].client = "desktop"
    BY <1>1, <1>5 DEF HInv, OneAtATime
  <2>2. s <= started
    BY <1>1, <1>5 DEF HInv, OneAtATime
  <2>3. \A t \in Scans : scan'[t].pc = "running" => t = started' /\ t # s
    BY <1>1, <1>5 DEF HInv, OneAtATime
  <2>4. s \in Nat /\ started \in Nat
    BY <1>1, ScanNumbers DEF HInv, StoreTypes
  <2> QED
    BY <1>2, <2>1, <2>2, <2>3, <2>4
<1> QED
  BY <1>2, <1>3, <1>4, <1>5

LEMMA ListLatestHInv ==
  ASSUME HInv, NEW s \in Scans, ListLatest(s)
  PROVE  HInv'
<1> DEFINE hit == Latest # NoRun /\ runs[Latest].cidr = scan[s].cidr
<1>1. scan[s].pc = "list" /\ s \in Saving /\ UNCHANGED <<runs, rows, started, ended, deletes, use>>
  BY DEF ListLatest, Saving
<1>2. Latest \in Scans \cup {NoRun}
  BY LatestFacts DEF HInv
<1>3. /\ scan' \in [Scans -> Records]
      /\ \A t \in Scans \ {s} : scan'[t] = scan[t]
      /\ scan'[s].pc = IF hit THEN "compare" ELSE "save"
      /\ scan'[s].latest = Latest
      /\ \A field \in {"client", "cidr", "hosts"} : scan'[s][field] = scan[s][field]
  BY <1>2 DEF ListLatest, HInv, StoreTypes, Records, Labels
<1>4. scan'[s].client = scan[s].client /\ scan'[s].cidr = scan[s].cidr /\ scan'[s].hosts = scan[s].hosts
  BY <1>3
<1> HIDE DEF hit
<1>5. /\ Saving' \subseteq Saving
      /\ (Alone' <=> Alone) /\ (Apart' <=> Apart)
      /\ OneSave' /\ (Apart => \A t \in Saving' : t = s)
      /\ Alone =>
           /\ \A t \in Scans : scan'[t].pc # "unused" => t <= started' /\ scan'[t].client = "desktop"
           /\ \A t \in Scans : scan'[t].pc = "running" => t = started' /\ s < t
  BY <1>1, <1>3, <1>4, SaveMoves
<1>6. StoreTypes'
  <2>1. \A t \in Scans :
          scan'[t].pc \in {"running", "list", "compare", "touch", "save", "prune"} =>
            scan'[t].cidr \in CIDRs
    BY <1>1, <1>3, <1>4 DEF HInv, StoreTypes
  <2>2. \A t \in Saving' : scan'[t].hosts \in HostsOf(scan'[t].cidr)
    BY <1>1, <1>3, <1>4, <1>5, ScanNumbers DEF HInv, StoreTypes
  <2> QED
    BY <1>1, <1>3, <2>1, <2>2 DEF HInv, StoreTypes, Saving
<1>7. OneAtATime'
  <2>1. Alone => \A t \in Scans : scan'[t].pc \in {"running", "list", "compare", "touch", "save"} =>
          \A id \in DOMAIN runs' : id < t
    BY <1>1, <1>3 DEF HInv, OneAtATime
  <2> QED
    BY <1>1, <1>5, <2>1 DEF HInv, OneAtATime
<1>8. StillNewest'
  <2> SUFFICES ASSUME Alone, NEW t \in Scans
               PROVE  /\ scan'[t].pc \in {"compare", "touch"} =>
                           Newest(scan[t].latest)' /\ runs'[scan'[t].latest].cidr = scan'[t].cidr
                      /\ scan'[t].pc = "touch" => Same(scan[t].latest, t)'
                      /\ scan'[t].pc = "save" => \A id \in DOMAIN runs' : Newest(id)' => ~Same(id, t)'
    BY <1>5 DEF StillNewest
  <2>1. CASE t # s
    <3>1. scan'[t].pc \notin {"compare", "touch", "save"}
      BY <1>5, <2>1 DEF Saving, Alone, Apart
    <3> QED
      BY <3>1
  <2>2. CASE t = s
    <3>1. hit => Newest(scan[s].latest)' /\ runs'[scan'[s].latest].cidr = scan'[s].cidr
      BY <1>1, <1>3, <1>4, LatestFacts DEF HInv, hit, Newest
    <3>2. ~hit => \A id \in DOMAIN runs' : Newest(id)' => ~Same(id, s)'
      <4> SUFFICES ASSUME ~hit, NEW id \in DOMAIN runs', Newest(id)' PROVE ~Same(id, s)'
        OBVIOUS
      <4>1. Newest(id)
        BY <1>1 DEF Newest
      <4>2. Latest # NoRun /\ id = Latest
        BY <4>1, NewestIsLatest DEF HInv
      <4> QED
        BY <1>1, <1>4, <4>2 DEF Same, hit
    <3> QED
      BY <1>3, <2>2, <3>1, <3>2
  <2> QED
    BY <2>1, <2>2
<1> QED
  BY <1>5, <1>6, <1>7, <1>8 DEF HInv

LEMMA CompareHInv ==
  ASSUME HInv, NEW s \in Scans, Compare(s)
  PROVE  HInv'
<1> DEFINE equal == hostsEquivalent(HostsForRun(scan[s].latest), scan[s].hosts)
           label == IF equal THEN "touch" ELSE "save"
<1>1. /\ scan[s].pc = "compare" /\ s \in Saving /\ Goto(s, label) /\ label \in Labels
      /\ UNCHANGED <<runs, rows, started, ended, deletes, use>>
  BY DEF Compare, Saving, Labels
<1>2. /\ scan' \in [Scans -> Records]
      /\ \A t \in Scans \ {s} : scan'[t] = scan[t]
      /\ scan'[s].pc = label
      /\ \A field \in {"client", "cidr", "hosts", "ended", "latest"} :
           scan'[s][field] = scan[s][field]
  BY <1>1, GotoFacts DEF HInv
<1>3. /\ scan'[s].client = scan[s].client /\ scan'[s].cidr = scan[s].cidr
      /\ scan'[s].hosts = scan[s].hosts /\ scan'[s].latest = scan[s].latest
  BY <1>2
<1>4. label \in {"touch", "save"} /\ (label = "touch" <=> equal)
  OBVIOUS
<1> HIDE DEF label
<1>5. /\ Saving' \subseteq Saving
      /\ (Alone' <=> Alone) /\ (Apart' <=> Apart)
      /\ OneSave' /\ (Apart => \A t \in Saving' : t = s)
      /\ Alone =>
           /\ \A t \in Scans : scan'[t].pc # "unused" => t <= started' /\ scan'[t].client = "desktop"
           /\ \A t \in Scans : scan'[t].pc = "running" => t = started' /\ s < t
  BY <1>1, <1>2, <1>3, <1>4, SaveMoves
<1>6. StoreTypes'
  <2>1. \A t \in Scans :
          scan'[t].pc \in {"running", "list", "compare", "touch", "save", "prune"} =>
            scan'[t].cidr \in CIDRs
    BY <1>1, <1>2, <1>3 DEF HInv, StoreTypes
  <2>2. \A t \in Saving' : scan'[t].hosts \in HostsOf(scan'[t].cidr)
    BY <1>1, <1>2, <1>3, <1>5, ScanNumbers DEF HInv, StoreTypes
  <2> QED
    BY <1>1, <1>2, <2>1, <2>2 DEF HInv, StoreTypes, Saving
<1>7. OneAtATime'
  <2>1. Alone => \A t \in Scans : scan'[t].pc \in {"running", "list", "compare", "touch", "save"} =>
          \A id \in DOMAIN runs' : id < t
    BY <1>1, <1>2 DEF HInv, OneAtATime
  <2> QED
    BY <1>1, <1>5, <2>1 DEF HInv, OneAtATime
<1>8. StillNewest'
  <2> SUFFICES ASSUME Alone, NEW t \in Scans
               PROVE  /\ scan'[t].pc \in {"compare", "touch"} =>
                           Newest(scan[t].latest)' /\ runs'[scan'[t].latest].cidr = scan'[t].cidr
                      /\ scan'[t].pc = "touch" => Same(scan[t].latest, t)'
                      /\ scan'[t].pc = "save" => \A id \in DOMAIN runs' : Newest(id)' => ~Same(id, t)'
    BY <1>5 DEF StillNewest
  <2>1. CASE t # s
    <3>1. scan'[t].pc \notin {"compare", "touch", "save"}
      BY <1>5, <2>1 DEF Saving, Alone, Apart
    <3> QED
      BY <3>1
  <2>2. CASE t = s
    <3> DEFINE l == scan[s].latest
    <3>1. Newest(l) /\ runs[l].cidr = scan[s].cidr
      BY <1>1 DEF HInv, StillNewest
    <3>2. Newest(scan[s].latest)' /\ runs'[scan'[s].latest].cidr = scan'[s].cidr
      BY <1>1, <1>3, <3>1 DEF Newest
    <3>3. equal <=> Same(l, s)
      <4>1. l \in DOMAIN rows
        BY <3>1 DEF HInv, StoreTypes, Newest
      <4> QED
        BY <3>1, <4>1 DEF Same, HostsForRun
    <3>4. equal => Same(scan[s].latest, s)'
      BY <1>1, <1>3, <3>3 DEF Same
    <3>5. ~equal => \A id \in DOMAIN runs' : Newest(id)' => ~Same(id, s)'
      <4> SUFFICES ASSUME ~equal, NEW id \in DOMAIN runs', Newest(id)' PROVE ~Same(id, s)'
        OBVIOUS
      <4>1. Newest(id)
        BY <1>1 DEF Newest
      <4>2. id = l
        BY <3>1, <4>1, NewestIsLatest DEF HInv
      <4> QED
        BY <1>1, <1>3, <3>3, <4>2 DEF Same
    <3> QED
      BY <1>2, <1>4, <2>2, <3>2, <3>4, <3>5
  <2> QED
    BY <2>1, <2>2
<1> QED
  BY <1>5, <1>6, <1>7, <1>8 DEF HInv


\* Once it is past its comparison, there is nothing left that could be outdated.
LEMMA PastComparison ==
  ASSUME NEW s \in Scans, Apart' => \A t \in Saving' : t = s,
         scan'[s].pc \notin {"compare", "touch", "save"}
  PROVE  StillNewest'
<1>1. ASSUME Alone', NEW t \in Scans PROVE scan'[t].pc \notin {"compare", "touch", "save"}
  BY <1>1 DEF Saving, Alone, Apart
<1> QED
  BY <1>1 DEF StillNewest

\* The newest run is found to be what was seen again: only its end moves on.
LEMMA TouchHInv ==
  ASSUME HInv, NEW s \in Scans, Touch(s)
  PROVE  /\ HInv'
         /\ DOMAIN runs' = DOMAIN runs
         /\ \A id \in DOMAIN runs : runs'[id].cidr = runs[id].cidr
<1>1. /\ scan[s].pc = "touch" /\ s \in Saving /\ Goto(s, "prune") /\ "prune" \in Labels
      /\ UNCHANGED <<rows, started, ended, deletes, use>>
  BY DEF Touch, Saving, Labels, TouchScanRun
<1>2. /\ scan' \in [Scans -> Records]
      /\ \A t \in Scans \ {s} : scan'[t] = scan[t]
      /\ scan'[s].pc = "prune"
      /\ \A field \in {"client", "cidr", "hosts", "ended", "latest"} :
           scan'[s][field] = scan[s][field]
  BY <1>1, GotoFacts DEF HInv
<1>3. scan'[s].client = scan[s].client /\ scan'[s].cidr = scan[s].cidr /\ scan'[s].hosts = scan[s].hosts
  BY <1>2
<1>4. /\ Saving' \subseteq Saving
      /\ (Alone' <=> Alone) /\ (Apart' <=> Apart)
      /\ OneSave' /\ (Apart => \A t \in Saving' : t = s)
      /\ Alone =>
           /\ \A t \in Scans : scan'[t].pc # "unused" => t <= started' /\ scan'[t].client = "desktop"
           /\ \A t \in Scans : scan'[t].pc = "running" => t = started' /\ s < t
  BY <1>1, <1>2, <1>3, SaveMoves
<1>5. /\ DOMAIN runs' = DOMAIN runs
      /\ \A id \in DOMAIN runs : runs'[id].cidr = runs[id].cidr /\ runs'[id] \in [cidr : CIDRs, ended : Nat]
  <2>1. scan[s].ended \in Nat
    BY DEF HInv, StoreTypes, Records
  <2>2. \A id \in DOMAIN runs : runs[id] \in [cidr : CIDRs, ended : Nat]
    BY DEF HInv, StoreTypes
  <2>3. CASE scan[s].latest \in DOMAIN runs
    <3>1. runs' = [runs EXCEPT ![scan[s].latest].ended = scan[s].ended]
      BY <2>3 DEF Touch, TouchScanRun
    <3> QED
      BY <2>1, <2>2, <3>1
  <2>4. CASE scan[s].latest \notin DOMAIN runs
    BY <2>2, <2>4 DEF Touch, TouchScanRun
  <2> QED
    BY <2>3, <2>4
<1>6. StoreTypes'
  <2>1. \A t \in Scans :
          scan'[t].pc \in {"running", "list", "compare", "touch", "save", "prune"} =>
            scan'[t].cidr \in CIDRs
    BY <1>1, <1>2, <1>3 DEF HInv, StoreTypes
  <2>2. \A t \in Saving' : scan'[t].hosts \in HostsOf(scan'[t].cidr)
    BY <1>1, <1>2, <1>3, <1>4, ScanNumbers DEF HInv, StoreTypes
  <2>3. \A id \in DOMAIN runs' :
          runs'[id] \in [cidr : CIDRs, ended : Nat] /\ rows'[id] \in HostsOf(runs'[id].cidr)
    BY <1>1, <1>5 DEF HInv, StoreTypes
  <2> QED
    BY <1>1, <1>2, <1>5, <2>1, <2>2, <2>3 DEF HInv, StoreTypes, Saving
<1>7. OneAtATime'
  <2>1. Alone => \A t \in Scans : scan'[t].pc \in {"running", "list", "compare", "touch", "save"} =>
          \A id \in DOMAIN runs' : id < t
    BY <1>2, <1>5 DEF HInv, OneAtATime
  <2>2. Alone => (\A id \in DOMAIN runs' : id <= started') /\ \E f : Sorted(f, DOMAIN runs')
    BY <1>1, <1>5 DEF HInv, OneAtATime
  <2> QED
    BY <1>4, <2>1, <2>2 DEF OneAtATime
<1>8. StillNewest'
  BY <1>2, <1>4, PastComparison
<1> QED
  BY <1>4, <1>5, <1>6, <1>7, <1>8 DEF HInv

\* The run of the scan is stored: of the app alone, as the newest.
LEMMA SaveHInv ==
  ASSUME HInv, NEW s \in Scans, Save(s)
  PROVE  HInv'
<1>1. /\ scan[s].pc = "save" /\ s \in Saving /\ {"prune", "done"} \subseteq Labels
      /\ UNCHANGED <<started, ended, deletes, use>>
      /\ scan[s].client = "desktop" => Goto(s, "prune")
      /\ scan[s].client # "desktop" => scan' = [scan EXCEPT ![s] = [NoScan EXCEPT !.pc = "done"]]
      /\ scan[s] \in Records /\ scan[s].cidr \in CIDRs /\ scan[s].ended \in Nat
      /\ scan[s].hosts \in HostsOf(scan[s].cidr)
  BY DEF Save, Saving, Labels, Leave, HInv, StoreTypes, Records
<1>2. /\ scan' \in [Scans -> Records]
      /\ \A t \in Scans \ {s} : scan'[t] = scan[t]
      /\ scan'[s].pc \in {"prune", "done"} /\ scan'[s].client = "desktop"
      /\ scan'[s].pc = "prune" => scan'[s].cidr = scan[s].cidr /\ scan'[s].hosts = scan[s].hosts
  <2>1. CASE scan[s].client = "desktop"
    <3>1. /\ scan' \in [Scans -> Records]
          /\ \A t \in Scans \ {s} : scan'[t] = scan[t]
          /\ scan'[s].pc = "prune"
          /\ \A field \in {"client", "cidr", "hosts", "ended", "latest"} :
               scan'[s][field] = scan[s][field]
      BY <1>1, <2>1, GotoFacts DEF HInv
    <3>2. scan'[s].client = scan[s].client /\ scan'[s].cidr = scan[s].cidr /\ scan'[s].hosts = scan[s].hosts
      BY <3>1
    <3> QED
      BY <2>1, <3>1, <3>2
  <2>2. CASE scan[s].client # "desktop"
    <3>1. /\ scan' \in [Scans -> Records]
          /\ \A t \in Scans \ {s} : scan'[t] = scan[t]
          /\ scan'[s].pc = "done" /\ scan'[s].client = "desktop"
      BY <1>1, <2>2, LeaveFacts DEF HInv
    <3> QED
      BY <3>1
  <2> QED
    BY <2>1, <2>2
<1>3. /\ Saving' \subseteq Saving
      /\ (Alone' <=> Alone) /\ (Apart' <=> Apart)
      /\ OneSave' /\ (Apart => \A t \in Saving' : t = s)
      /\ Alone =>
           /\ \A t \in Scans : scan'[t].pc # "unused" => t <= started' /\ scan'[t].client = "desktop"
           /\ \A t \in Scans : scan'[t].pc = "running" => t = started' /\ s < t
  BY <1>1, <1>2, SaveMoves
<1>4. /\ DOMAIN runs' = DOMAIN runs \cup {s} /\ DOMAIN rows' = DOMAIN rows \cup {s}
      /\ runs'[s] = [cidr |-> scan[s].cidr, ended |-> scan[s].ended] /\ rows'[s] = scan[s].hosts
      /\ \A id \in DOMAIN runs \ {s} : runs'[id] = runs[id]
      /\ \A id \in DOMAIN rows \ {s} : rows'[id] = rows[id]
  BY DEF Save, SaveScanRun, Put
<1>5. StoreTypes'
  <2>1. \A t \in Scans :
          scan'[t].pc \in {"running", "list", "compare", "touch", "save", "prune"} =>
            scan'[t].cidr \in CIDRs
    BY <1>1, <1>2 DEF HInv, StoreTypes
  <2>2. \A t \in Saving' : scan'[t].hosts \in HostsOf(scan'[t].cidr)
    <3>1. \A t \in Saving' : t = s => scan'[t].pc = "prune"
      BY <1>2 DEF Saving
    <3> QED
      BY <1>1, <1>2, <1>3, <3>1, ScanNumbers DEF HInv, StoreTypes
  <2>3. \A id \in DOMAIN runs' :
          runs'[id] \in [cidr : CIDRs, ended : Nat] /\ rows'[id] \in HostsOf(runs'[id].cidr)
    BY <1>1, <1>4 DEF HInv, StoreTypes
  <2>4. DOMAIN runs' \subseteq Scans /\ DOMAIN rows' = DOMAIN runs'
    BY <1>4 DEF HInv, StoreTypes
  <2> QED
    BY <1>1, <1>2, <2>1, <2>2, <2>3, <2>4 DEF HInv, StoreTypes, Saving
<1>6. OneAtATime'
  <2> SUFFICES ASSUME Alone PROVE OneAtATime'
    BY <1>3 DEF OneAtATime
  <2>1. \A id \in DOMAIN runs : id < s
    BY <1>1 DEF HInv, OneAtATime
  <2>2. \A t \in Scans : scan'[t].pc \in {"running", "list", "compare", "touch", "save"} =>
          \A id \in DOMAIN runs' : id < t
    <3>1. \A t \in Scans : scan'[t].pc \in {"list", "compare", "touch", "save"} => FALSE
      BY <1>2, <1>3 DEF Saving, Alone, Apart
    <3>2. \A t \in Scans : scan'[t].pc = "running" => s < t /\ scan[t].pc = "running"
      BY <1>2, <1>3
    <3> QED
      BY <1>4, <3>1, <3>2 DEF HInv, OneAtATime
  <2>3. \A id \in DOMAIN runs' : id <= started'
    <3>1. s <= started
      BY <1>1 DEF HInv, OneAtATime
    <3> QED
      BY <1>1, <1>4, <3>1 DEF HInv, OneAtATime
  <2>4. \E f : Sorted(f, DOMAIN runs')
    <3>1. PICK f : Sorted(f, DOMAIN runs)
      BY DEF HInv, OneAtATime
    <3>2. DOMAIN runs \subseteq Nat /\ s \in Nat
      BY ScanNumbers DEF HInv, StoreTypes
    <3>3. Sorted(Append(f, s), DOMAIN runs \cup {s})
      BY <2>1, <3>1, <3>2, AppendSorted
    <3> QED
      BY <1>4, <3>3
  <2> QED
    BY <1>3, <2>2, <2>3, <2>4 DEF OneAtATime
<1>7. StillNewest'
  BY <1>2, <1>3, PastComparison
<1> QED
  BY <1>3, <1>5, <1>6, <1>7 DEF HInv


\* Runs are taken away, and nothing else of the store changes.
LEMMA FewerTyped ==
  ASSUME HInv, NEW ids, runs' = Without(runs, ids), rows' = Without(rows, ids)
  PROVE  /\ DOMAIN runs' = DOMAIN runs \ ids
         /\ \A id \in DOMAIN runs' : runs'[id] = runs[id] /\ rows'[id] = rows[id]
         /\ DOMAIN runs' \subseteq Scans /\ DOMAIN rows' = DOMAIN runs'
         /\ \A id \in DOMAIN runs' :
              runs'[id] \in [cidr : CIDRs, ended : Nat] /\ rows'[id] \in HostsOf(runs'[id].cidr)
<1>1. DOMAIN runs' = DOMAIN runs \ ids /\ DOMAIN rows' = DOMAIN rows \ ids
  BY DEF Without
<1>2. DOMAIN rows = DOMAIN runs
  BY DEF HInv, StoreTypes
<1>3. \A id \in DOMAIN runs' : runs'[id] = runs[id] /\ rows'[id] = rows[id]
  BY <1>1, <1>2 DEF Without
<1> QED
  BY <1>1, <1>2, <1>3 DEF HInv, StoreTypes

\* The oldest runs go.
LEMMA PruneKeeps ==
  ASSUME HInv, PruneScanRuns
  PROVE  runs' = Without(runs, Stale) /\ rows' = Without(rows, Stale)
<1>1. DOMAIN rows = DOMAIN runs
  BY DEF HInv, StoreTypes
<1>2. Stale \cup (DOMAIN rows \ DOMAIN runs) = Stale
  BY <1>1
<1> QED
  BY <1>2 DEF PruneScanRuns

\* What a pruned listing is: the last Keep of it.
LEMMA PruneListing ==
  ASSUME HInv, NEW f, Sorted(f, DOMAIN runs)
  PROVE  /\ Len(f) \in Nat /\ Keep \in Nat
         /\ Len(f) <= Keep => Stale = {}
         /\ Len(f) > Keep =>
              /\ SubSeq(f, Len(f) - Keep + 1, Len(f)) = [j \in 1 .. Keep |-> f[Len(f) - Keep + j]]
              /\ Sorted(SubSeq(f, Len(f) - Keep + 1, Len(f)), DOMAIN runs \ Stale)
<1>1. DOMAIN runs \subseteq Nat /\ Keep \in Nat /\ Len(f) \in Nat
  BY ScanNumbers, HistoryAssumption DEF HInv, StoreTypes, Sorted
<1>2. ASSUME Len(f) <= Keep PROVE Stale = {}
  BY <1>1, <1>2, NoneStale DEF Stale
<1>3. ASSUME Len(f) > Keep
      PROVE  /\ SubSeq(f, Len(f) - Keep + 1, Len(f)) = [j \in 1 .. Keep |-> f[Len(f) - Keep + j]]
             /\ Sorted(SubSeq(f, Len(f) - Keep + 1, Len(f)), DOMAIN runs \ Stale)
  <2>1. /\ SubSeq(f, Len(f) - Keep + 1, Len(f)) = [j \in 1 .. Keep |-> f[Len(f) - Keep + j]]
        /\ Sorted(SubSeq(f, Len(f) - Keep + 1, Len(f)),
                  {d \in DOMAIN runs : ~(Cardinality({k \in DOMAIN runs : k > d}) >= Keep)})
    <3>1. Keep < Len(f)
      BY <1>1, <1>3
    <3> QED
      BY <1>1, <3>1, LastSorted
  <2>2. {d \in DOMAIN runs : ~(Cardinality({k \in DOMAIN runs : k > d}) >= Keep)} = DOMAIN runs \ Stale
    BY DEF Stale
  <2> QED
    BY <2>1, <2>2
<1> QED
  BY <1>1, <1>2, <1>3

LEMMA PruneHInv ==
  ASSUME HInv, NEW s \in Scans, Prune(s)
  PROVE  HInv'
<1>1. /\ scan[s].pc = "prune" /\ s \in Saving /\ "done" \in Labels
      /\ scan' = [scan EXCEPT ![s] = [NoScan EXCEPT !.pc = "done"]]
      /\ UNCHANGED <<started, ended, deletes, use>> /\ PruneScanRuns
  BY DEF Prune, Saving, Labels, Leave
<1>2. /\ scan' \in [Scans -> Records]
      /\ \A t \in Scans \ {s} : scan'[t] = scan[t]
      /\ scan'[s].pc = "done" /\ scan'[s].client = "desktop"
  BY <1>1, LeaveFacts DEF HInv
<1>3. /\ Saving' \subseteq Saving
      /\ (Alone' <=> Alone) /\ (Apart' <=> Apart)
      /\ OneSave' /\ (Apart => \A t \in Saving' : t = s)
      /\ Alone =>
           /\ \A t \in Scans : scan'[t].pc # "unused" => t <= started' /\ scan'[t].client = "desktop"
           /\ \A t \in Scans : scan'[t].pc = "running" => t = started' /\ s < t
  BY <1>1, <1>2, SaveMoves
<1>4. /\ DOMAIN runs' = DOMAIN runs \ Stale
      /\ DOMAIN runs' \subseteq Scans /\ DOMAIN rows' = DOMAIN runs'
      /\ \A id \in DOMAIN runs' :
           runs'[id] \in [cidr : CIDRs, ended : Nat] /\ rows'[id] \in HostsOf(runs'[id].cidr)
  BY <1>1, PruneKeeps, FewerTyped
<1>5. s \notin Saving'
  BY <1>2 DEF Saving
<1>6. StoreTypes'
  <2>1. \A t \in Scans :
          scan'[t].pc \in {"running", "list", "compare", "touch", "save", "prune"} =>
            scan'[t].cidr \in CIDRs
    BY <1>2 DEF HInv, StoreTypes
  <2>2. \A t \in Saving' : scan'[t].hosts \in HostsOf(scan'[t].cidr)
    BY <1>2, <1>3, <1>5, ScanNumbers DEF HInv, StoreTypes
  <2> QED
    BY <1>1, <1>2, <1>4, <2>1, <2>2 DEF HInv, StoreTypes, Saving
<1>7. OneAtATime'
  <2> SUFFICES ASSUME Alone PROVE OneAtATime'
    BY <1>3 DEF OneAtATime
  <2>1. \A t \in Scans : scan'[t].pc \in {"running", "list", "compare", "touch", "save"} =>
          \A id \in DOMAIN runs' : id < t
    BY <1>2, <1>4 DEF HInv, OneAtATime
  <2>2. \A id \in DOMAIN runs' : id <= started'
    BY <1>1, <1>4 DEF HInv, OneAtATime
  <2>3. \E f : Sorted(f, DOMAIN runs')
    <3>1. PICK f : Sorted(f, DOMAIN runs)
      BY DEF HInv, OneAtATime
    <3>2. CASE Len(f) <= Keep
      BY <1>4, <3>1, <3>2, PruneListing
    <3>3. CASE Len(f) > Keep
      BY <1>4, <3>1, <3>3, PruneListing
    <3> QED
      BY <3>1, <3>2, <3>3, PruneListing
  <2> QED
    BY <1>3, <2>1, <2>2, <2>3 DEF OneAtATime
<1>8. StillNewest'
  BY <1>2, <1>3, PastComparison
<1> QED
  BY <1>3, <1>6, <1>7, <1>8 DEF HInv

LEMMA StoreFailsHInv ==
  ASSUME HInv, NEW s \in Scans, StoreFails(s)
  PROVE  HInv'
<1>1. /\ s \in Saving /\ "failed" \in Labels
      /\ scan' = [scan EXCEPT ![s] = [NoScan EXCEPT !.pc = "failed"]]
      /\ UNCHANGED <<runs, rows, started, ended, deletes, use>>
  BY DEF StoreFails, Labels, Leave
<1>2. /\ scan' \in [Scans -> Records]
      /\ \A t \in Scans \ {s} : scan'[t] = scan[t]
      /\ scan'[s].pc = "failed" /\ scan'[s].client = "desktop"
  BY <1>1, LeaveFacts DEF HInv
<1>3. /\ Saving' \subseteq Saving
      /\ (Alone' <=> Alone) /\ (Apart' <=> Apart)
      /\ OneSave' /\ (Apart => \A t \in Saving' : t = s)
      /\ Alone =>
           /\ \A t \in Scans : scan'[t].pc # "unused" => t <= started' /\ scan'[t].client = "desktop"
           /\ \A t \in Scans : scan'[t].pc = "running" => t = started' /\ s < t
  BY <1>1, <1>2, SaveMoves
<1>4. s \notin Saving'
  BY <1>2 DEF Saving
<1>5. StoreTypes'
  <2>1. \A t \in Scans :
          scan'[t].pc \in {"running", "list", "compare", "touch", "save", "prune"} =>
            scan'[t].cidr \in CIDRs
    BY <1>2 DEF HInv, StoreTypes
  <2>2. \A t \in Saving' : scan'[t].hosts \in HostsOf(scan'[t].cidr)
    BY <1>2, <1>3, <1>4, ScanNumbers DEF HInv, StoreTypes
  <2> QED
    BY <1>1, <1>2, <2>1, <2>2 DEF HInv, StoreTypes, Saving
<1>6. OneAtATime'
  <2>1. Alone => \A t \in Scans : scan'[t].pc \in {"running", "list", "compare", "touch", "save"} =>
          \A id \in DOMAIN runs' : id < t
    BY <1>1, <1>2 DEF HInv, OneAtATime
  <2> QED
    BY <1>1, <1>3, <2>1 DEF HInv, OneAtATime
<1>7. StillNewest'
  BY <1>2, <1>3, PastComparison
<1> QED
  BY <1>3, <1>5, <1>6, <1>7 DEF HInv

\* A run that the user deletes, when none is being saved or at any time.
LEMMA DeleteRunHInv ==
  ASSUME HInv, NEW id \in DOMAIN runs, DeleteRun(id)
  PROVE  HInv'
<1>1. /\ deletes > 0 /\ deletes' = deletes - 1 /\ (use.undisturbed => Saving = {})
      /\ UNCHANGED <<started, ended, scan, use>>
      /\ runs' = Without(runs, {id}) /\ rows' = Without(rows, {id})
  BY DEF DeleteRun, DeleteScanRun
<1>2. /\ DOMAIN runs' = DOMAIN runs \ {id}
      /\ DOMAIN runs' \subseteq Scans /\ DOMAIN rows' = DOMAIN runs'
      /\ \A k \in DOMAIN runs' :
           runs'[k] \in [cidr : CIDRs, ended : Nat] /\ rows'[k] \in HostsOf(runs'[k].cidr)
  BY <1>1, FewerTyped
<1>3. Saving' = Saving /\ (Alone' <=> Alone) /\ scan' = scan
  BY <1>1 DEF Saving, Alone
<1>4. StoreTypes'
  <2>1. deletes \in Nat /\ deletes' \in Nat
    BY <1>1 DEF HInv, StoreTypes
  <2>2. \A t \in Saving' : scan'[t].hosts \in HostsOf(scan'[t].cidr)
    BY <1>3, ScanNumbers DEF HInv, StoreTypes
  <2> QED
    BY <1>1, <1>2, <2>1, <2>2 DEF HInv, StoreTypes, Saving
<1>5. OneAtATime'
  <2> SUFFICES ASSUME Alone PROVE OneAtATime'
    BY <1>3 DEF OneAtATime
  <2>1. \E f : Sorted(f, DOMAIN runs')
    <3>1. PICK f : Sorted(f, DOMAIN runs)
      BY DEF HInv, OneAtATime
    <3>2. DOMAIN runs \subseteq Nat
      BY ScanNumbers DEF HInv, StoreTypes
    <3>3. PICK i \in 1 .. Len(f) : f[i] = id
      BY <3>1 DEF Sorted
    <3>4. Sorted(RemoveAt(f, i), DOMAIN runs \ {f[i]})
      BY <3>1, <3>2, RemoveSorted
    <3> QED
      BY <1>2, <3>3, <3>4
  <2> QED
    BY <1>1, <1>2, <1>3, <2>1 DEF HInv, OneAtATime
<1>6. StillNewest'
  <2> SUFFICES ASSUME Alone, NEW t \in Scans
               PROVE  scan'[t].pc \notin {"compare", "touch", "save"}
    BY <1>3 DEF StillNewest
  <2> QED
    BY <1>1, <1>3 DEF Saving, Alone
<1> QED
  BY <1>1, <1>3, <1>4, <1>5, <1>6 DEF HInv, OneSave, Apart

LEMMA NextHInv ==
  ASSUME HInv, [StoreNext]_storeVars
  PROVE  HInv'
<1>1. ASSUME NEW client \in use.clients, NEW cidr \in use.cidrs, BeginScan(client, cidr) PROVE HInv'
  BY <1>1, BeginScanHInv
<1>2. ASSUME NEW s \in Scans, Step(s) PROVE HInv'
  BY <1>2, EndScanHInv, ListLatestHInv, CompareHInv, TouchHInv, SaveHInv, PruneHInv, StoreFailsHInv
     DEF Step
<1>3. ASSUME NEW id \in DOMAIN runs, DeleteRun(id) PROVE HInv'
  BY <1>3, DeleteRunHInv
<1>4. ASSUME UNCHANGED storeVars PROVE HInv'
  BY <1>4 DEF storeVars, HInv, StoreTypes, OneSave, Apart, OneAtATime, StillNewest, Alone, Saving, Newest, Same
<1> QED
  BY <1>1, <1>2, <1>3, <1>4 DEF StoreNext

THEOREM HistoryInvariance == StoreSpec => []HInv
<1>1. StoreInit => HInv
  BY InitHInv
<1>2. HInv /\ [StoreNext]_storeVars => HInv'
  BY NextHInv
<1> QED
  BY <1>1, <1>2, PTL DEF StoreSpec


-----------------------------------------------------------------------------
(* A save that reports success.                                            *)

\* The hosts that a comparison finds equal are the same rows.
LEMMA EquivalentRows ==
  ASSUME NEW c \in CIDRs, NEW a \in HostsOf(c), NEW b \in HostsOf(c)
  PROVE  hostsEquivalent(a, b) <=> a = b
<1>1. PICK x \in (SUBSET c) \ {{}} : a \in [x -> ScannedRows]
  BY DEF HostsOf
<1>2. PICK y \in (SUBSET c) \ {{}} : b \in [y -> ScannedRows]
  BY DEF HostsOf
<1>3. ASSUME hostsEquivalent(a, b) PROVE a = b
  <2>1. x = y
    BY <1>1, <1>2, <1>3 DEF hostsEquivalent
  <2>2. \A ip \in x : a[ip] = b[ip]
    <3> TAKE ip \in x
    <3>1. a[ip] \in Row /\ b[ip] \in Row
      BY <1>1, <1>2, <2>1 DEF ScannedRows
    <3>2. a[ip].mac = b[ip].mac /\ a[ip].open = b[ip].open /\ a[ip].alive = b[ip].alive
      BY <1>2, <1>3, <2>1 DEF hostsEquivalent, SameRow
    <3> QED
      BY <3>1, <3>2 DEF Row
  <2> QED
    BY <1>1, <1>2, <2>1, <2>2
<1>4. ASSUME a = b PROVE hostsEquivalent(a, b)
  BY <1>4 DEF hostsEquivalent, SameRow
<1> QED
  BY <1>3, <1>4

\* A scan whose run was stored, now or before, is past its save for good: no run
\* is ever written again under the same id.
Past == {"prune", "done", "failed"}

\* What a save compared its scan with, for as long as it is stored: a run of the
\* same range, and once the two were found equal, of the same hosts.
Compared(s) ==
  LET l == scan[s].latest IN
  /\ l \in Scans /\ scan[l].pc \in Past
  /\ l \in DOMAIN runs => runs[l].cidr = scan[s].cidr
  /\ l \in DOMAIN runs /\ scan[s].pc = "touch" => rows[l] = scan[s].hosts

SavedOnce ==
  /\ \A s \in Scans : s > started => scan[s].pc = "unused"
  /\ \A id \in DOMAIN runs : scan[id].pc \in Past
  /\ \A s \in Scans : scan[s].pc \in {"compare", "touch"} => Compared(s)

\* A step that leaves what a save compared its scan with as it was, or takes it
\* away.
LEMMA ComparedStays ==
  ASSUME SavedOnce, NEW t \in Scans, scan[t].pc \in {"compare", "touch"}, scan'[t] = scan[t],
         scan'[scan[t].latest].pc \in Past,
         scan[t].latest \in DOMAIN runs' =>
           /\ scan[t].latest \in DOMAIN runs
           /\ runs'[scan[t].latest].cidr = runs[scan[t].latest].cidr
           /\ rows'[scan[t].latest] = rows[scan[t].latest]
  PROVE  Compared(t)'
BY DEF SavedOnce, Compared

\* A step of the save of s that writes no run.
LEMMA SameRunsSavedOnce ==
  ASSUME HInv, SavedOnce, NEW s \in Scans, scan[s].pc # "unused",
         \A t \in Scans \ {s} : scan'[t] = scan[t],
         scan[s].pc \in Past => scan'[s].pc \in Past, scan'[s].pc # "unused",
         scan'[s].pc \in {"compare", "touch"} => Compared(s)',
         DOMAIN runs' \subseteq DOMAIN runs, started' = started,
         \A id \in DOMAIN runs' : runs'[id].cidr = runs[id].cidr /\ rows'[id] = rows[id]
  PROVE  SavedOnce'
<1>1. \A t \in Scans : scan[t].pc \in Past => scan'[t].pc \in Past
  OBVIOUS
<1>2. \A t \in Scans : t > started' => scan'[t].pc = "unused"
  BY DEF SavedOnce
<1>3. \A id \in DOMAIN runs' : scan'[id].pc \in Past
  BY <1>1 DEF SavedOnce, HInv, StoreTypes
<1>4. ASSUME NEW t \in Scans, t # s, scan'[t].pc \in {"compare", "touch"} PROVE Compared(t)'
  <2>1. scan'[t] = scan[t] /\ Compared(t)
    BY <1>4 DEF SavedOnce
  <2>2. scan'[scan[t].latest].pc \in Past
    BY <1>1, <2>1 DEF Compared
  <2> QED
    BY <1>4, <2>1, <2>2, ComparedStays
<1> QED
  BY <1>2, <1>3, <1>4 DEF SavedOnce

\* The run of s is written: no save compared its scan with it.
LEMMA SaveSavedOnce ==
  ASSUME HInv, SavedOnce, NEW s \in Scans, Save(s)
  PROVE  SavedOnce'
<1>1. scan[s].pc = "save" /\ started' = started
  BY DEF Save
<1>2. /\ \A t \in Scans \ {s} : scan'[t] = scan[t]
      /\ scan'[s].pc \in {"prune", "done"}
  <2>1. CASE scan[s].client = "desktop"
    BY <2>1, GotoFacts DEF Save, HInv, Labels
  <2>2. CASE scan[s].client # "desktop"
    BY <2>2, LeaveFacts DEF Save, Leave, HInv, Labels
  <2> QED
    BY <2>1, <2>2
<1>3. /\ DOMAIN runs' = DOMAIN runs \cup {s}
      /\ \A id \in DOMAIN runs \ {s} : runs'[id] = runs[id] /\ rows'[id] = rows[id]
  BY DEF Save, SaveScanRun, Put, HInv, StoreTypes
<1>4. \A t \in Scans : scan[t].pc \in Past => scan'[t].pc \in Past /\ t # s
  BY <1>1, <1>2 DEF Past
<1>5. \A id \in DOMAIN runs' : scan'[id].pc \in Past
  BY <1>2, <1>3, <1>4 DEF SavedOnce, HInv, StoreTypes, Past
<1>6. ASSUME NEW t \in Scans, scan'[t].pc \in {"compare", "touch"} PROVE Compared(t)'
  <2>1. t # s /\ scan'[t] = scan[t] /\ Compared(t)
    BY <1>2, <1>6 DEF SavedOnce
  <2>2. scan'[scan[t].latest].pc \in Past /\ scan[t].latest # s
    BY <1>4, <2>1 DEF Compared
  <2> QED
    BY <1>3, <1>6, <2>1, <2>2, ComparedStays
<1> QED
  BY <1>1, <1>2, <1>5, <1>6 DEF SavedOnce

\* What ListLatest and Compare find is so when they find it.
LEMMA FindsSavedOnce ==
  ASSUME HInv, SavedOnce, NEW s \in Scans, ListLatest(s) \/ Compare(s)
  PROVE  SavedOnce'
<1>1. CASE ListLatest(s)
  <2>1. /\ scan[s].pc = "list" /\ UNCHANGED <<runs, rows, started>>
        /\ \A t \in Scans \ {s} : scan'[t] = scan[t]
        /\ scan'[s].pc \in {"compare", "save"} /\ scan'[s].latest = Latest
        /\ scan'[s].cidr = scan[s].cidr
        /\ scan'[s].pc = "compare" => Latest # NoRun /\ runs[Latest].cidr = scan[s].cidr
    BY <1>1 DEF ListLatest, HInv, StoreTypes, Records
  <2>2. ASSUME scan'[s].pc \in {"compare", "touch"} PROVE Compared(s)'
    <3>1. Latest \in DOMAIN runs /\ Latest \in Scans /\ runs[Latest].cidr = scan[s].cidr
      BY <2>1, <2>2, LatestFacts DEF HInv, Newest
    <3>2. scan[Latest].pc \in Past /\ Latest # s
      BY <2>1, <3>1 DEF SavedOnce, Past
    <3> QED
      BY <2>1, <2>2, <3>1, <3>2 DEF Compared
  <2> QED
    BY <2>1, <2>2, SameRunsSavedOnce DEF Past
<1>2. CASE Compare(s)
  <2> DEFINE l == scan[s].latest
             label == IF hostsEquivalent(HostsForRun(l), scan[s].hosts) THEN "touch" ELSE "save"
  <2>1. /\ scan[s].pc = "compare" /\ UNCHANGED <<runs, rows, started>>
        /\ Goto(s, label) /\ label \in {"touch", "save"} /\ label \in Labels
    BY <1>2 DEF Compare, Labels
  <2>2. /\ \A t \in Scans \ {s} : scan'[t] = scan[t]
        /\ scan'[s].pc = label
        /\ \A field \in {"client", "cidr", "hosts", "ended", "latest"} :
             scan'[s][field] = scan[s][field]
    BY <2>1, GotoFacts DEF HInv
  <2>3. scan'[s].cidr = scan[s].cidr /\ scan'[s].hosts = scan[s].hosts /\ scan'[s].latest = l
    BY <2>2
  <2>4. Compared(s)
    BY <2>1 DEF SavedOnce
  <2>5. ASSUME label = "touch", l \in DOMAIN runs PROVE rows[l] = scan[s].hosts
    <3>1. hostsEquivalent(HostsForRun(l), scan[s].hosts)
      BY <2>5
    <3>2. l \in DOMAIN rows /\ HostsForRun(l) = rows[l]
      BY <2>5 DEF HostsForRun, HInv, StoreTypes
    <3>3. /\ scan[s].cidr \in CIDRs /\ scan[s].hosts \in HostsOf(scan[s].cidr)
          /\ rows[l] \in HostsOf(scan[s].cidr)
      BY <2>1, <2>4, <2>5 DEF HInv, StoreTypes, Saving, Compared
    <3> QED
      BY <3>1, <3>2, <3>3, EquivalentRows
  <2> HIDE DEF label
  <2>6. ASSUME scan'[s].pc \in {"compare", "touch"} PROVE Compared(s)'
    <3>1. l # s /\ scan'[l].pc \in Past /\ l \in Scans
      BY <2>1, <2>2, <2>4 DEF Compared, Past
    <3>2. l \in DOMAIN runs => runs[l].cidr = scan[s].cidr
      BY <2>4 DEF Compared
    <3>3. label = "touch"
      BY <2>1, <2>2, <2>6
    <3> QED
      BY <2>1, <2>3, <2>5, <3>1, <3>2, <3>3 DEF Compared
  <2> QED
    BY <2>1, <2>2, <2>6, SameRunsSavedOnce DEF Past
<1> QED
  BY <1>1, <1>2

LEMMA StepSavedOnce ==
  ASSUME HInv, SavedOnce, NEW s \in Scans, Step(s)
  PROVE  SavedOnce'
<1>1. CASE EndScan(s)
  <2>1. /\ scan[s].pc = "running" /\ UNCHANGED <<runs, rows, started>>
        /\ \A t \in Scans \ {s} : scan'[t] = scan[t]
        /\ scan'[s].pc \in {"list", "save"}
    BY <1>1 DEF EndScan, HInv, StoreTypes, Records
  <2> QED
    BY <2>1, SameRunsSavedOnce DEF Past
<1>2. CASE Touch(s)
  <2>1. /\ scan[s].pc = "touch" /\ rows' = rows /\ started' = started
        /\ \A t \in Scans \ {s} : scan'[t] = scan[t]
        /\ scan'[s].pc = "prune"
    BY <1>2, GotoFacts DEF Touch, TouchScanRun, HInv, Labels
  <2>2. DOMAIN runs' = DOMAIN runs /\ \A id \in DOMAIN runs : runs'[id].cidr = runs[id].cidr
    BY <1>2, TouchHInv
  <2> QED
    BY <2>1, <2>2, SameRunsSavedOnce DEF Past
<1>3. CASE Prune(s)
  <2>1. /\ scan[s].pc = "prune" /\ started' = started
        /\ \A t \in Scans \ {s} : scan'[t] = scan[t]
        /\ scan'[s].pc = "done"
    BY <1>3, LeaveFacts DEF Prune, Leave, HInv, Labels
  <2>2. DOMAIN runs' \subseteq DOMAIN runs
        /\ \A id \in DOMAIN runs' : runs'[id] = runs[id] /\ rows'[id] = rows[id]
    BY <1>3, PruneKeeps, FewerTyped DEF Prune
  <2> QED
    BY <2>1, <2>2, SameRunsSavedOnce DEF Past
<1>4. CASE StoreFails(s)
  <2>1. /\ s \in Saving /\ UNCHANGED <<runs, rows, started>>
        /\ \A t \in Scans \ {s} : scan'[t] = scan[t]
        /\ scan'[s].pc = "failed"
    BY <1>4, LeaveFacts DEF StoreFails, Leave, HInv, Labels
  <2>2. scan[s].pc # "unused"
    BY <2>1 DEF Saving
  <2> QED
    BY <2>1, <2>2, SameRunsSavedOnce DEF Past
<1> QED
  BY <1>1, <1>2, <1>3, <1>4, FindsSavedOnce, SaveSavedOnce DEF Step

LEMMA NextSavedOnce ==
  ASSUME HInv, SavedOnce, [StoreNext]_storeVars
  PROVE  SavedOnce'
<1>1. ASSUME NEW client \in use.clients, NEW cidr \in use.cidrs, BeginScan(client, cidr)
      PROVE  SavedOnce'
  <2> DEFINE s == started + 1
  <2>1. /\ started \in 0 .. MaxScans /\ use.scans \in 0 .. MaxScans /\ started < use.scans
        /\ started' = s /\ UNCHANGED <<runs, rows>>
    BY <1>1, HistoryAssumption DEF BeginScan, HInv, StoreTypes
  <2>2. s \in Scans /\ s > started
    BY <2>1, ScanNumbers DEF Scans
  <2>3. /\ \A t \in Scans \ {s} : scan'[t] = scan[t]
        /\ scan'[s].pc = "running" /\ scan[s].pc = "unused"
    BY <1>1, <2>2 DEF BeginScan, HInv, StoreTypes, NoScan, SavedOnce
  <2>4. \A t \in Scans : scan[t].pc \in Past => scan'[t].pc \in Past
    BY <2>3 DEF Past
  <2>5. ASSUME NEW t \in Scans, scan'[t].pc \in {"compare", "touch"} PROVE Compared(t)'
    <3>1. scan'[t] = scan[t] /\ Compared(t)
      BY <2>3, <2>5 DEF SavedOnce
    <3>2. scan'[scan[t].latest].pc \in Past
      BY <2>4, <3>1 DEF Compared
    <3> QED
      BY <2>1, <2>5, <3>1, <3>2, ComparedStays
  <2>6. \A t \in Scans : t > started' => scan'[t].pc = "unused"
    <3> SUFFICES ASSUME NEW t \in Scans, t > started' PROVE scan'[t].pc = "unused"
      OBVIOUS
    <3>1. t > started /\ t # s
      BY <2>1, ScanNumbers DEF Scans
    <3> QED
      BY <2>3, <3>1 DEF SavedOnce
  <2>7. \A id \in DOMAIN runs' : scan'[id].pc \in Past
    BY <2>1, <2>4 DEF SavedOnce, HInv, StoreTypes
  <2> QED
    BY <2>5, <2>6, <2>7 DEF SavedOnce
<1>2. ASSUME NEW id \in DOMAIN runs, DeleteRun(id) PROVE SavedOnce'
  <2>1. /\ UNCHANGED <<started, scan>> /\ DOMAIN runs' \subseteq DOMAIN runs
        /\ \A k \in DOMAIN runs' : runs'[k] = runs[k] /\ rows'[k] = rows[k]
    BY <1>2, FewerTyped DEF DeleteRun, DeleteScanRun
  <2>2. ASSUME NEW t \in Scans, scan'[t].pc \in {"compare", "touch"} PROVE Compared(t)'
    <3>1. scan'[t] = scan[t] /\ scan[scan[t].latest].pc \in Past
      BY <2>1, <2>2 DEF SavedOnce, Compared
    <3> QED
      BY <2>1, <2>2, <3>1, ComparedStays
  <2> QED
    BY <2>1, <2>2 DEF SavedOnce
<1>3. ASSUME UNCHANGED storeVars PROVE SavedOnce'
  BY <1>3 DEF storeVars, SavedOnce, Compared
<1> QED
  BY <1>1, <1>2, <1>3, StepSavedOnce DEF StoreNext

LEMMA SavedOnceAlways == StoreSpec => []SavedOnce
<1>1. StoreInit => SavedOnce
  BY DEF StoreInit, SavedOnce, NoScan
<1>2. HInv /\ SavedOnce /\ [StoreNext]_storeVars => SavedOnce'
  BY NextSavedOnce
<1> QED
  BY <1>1, <1>2, HistoryInvariance, PTL DEF StoreSpec

\* SuccessMeansStored, for the app and the CLI, any number of saves at once and
\* deletions at any moment: a plain save stores what the scan found, and what a
\* coalescing save extends still is that, since no run is written twice, unless
\* it is gone by then (sqlite.go:163-188).
THEOREM SuccessfulSavesAreStored == StoreSpec => SuccessMeansStored
<1> DEFINE Good(s) ==
      Succeeds(s) =>
        \/ \E id \in DOMAIN runs' : Stored(s, id)
        \/ scan[s].pc = "touch" /\ scan[s].latest \notin DOMAIN runs
<1>1. HInv /\ SavedOnce /\ [StoreNext]_storeVars => [\A s \in Scans : Good(s)]_storeVars
  <2> SUFFICES ASSUME HInv, SavedOnce, StoreNext, NEW s \in Scans,
                      scan[s].pc \in {"save", "touch"}, scan'[s].pc \in {"prune", "done"},
                      ~(scan[s].pc = "touch" /\ scan[s].latest \notin DOMAIN runs)
               PROVE  \E id \in DOMAIN runs' : Stored(s, id)
    BY DEF Succeeds
  <2>1. scan[s].ended \in Nat /\ scan[s].cidr \in CIDRs /\ scan[s].hosts \in HostsOf(scan[s].cidr)
    BY DEF HInv, StoreTypes, Records, Saving
  <2>2. CASE Save(s)
    <3>1. /\ s \in DOMAIN runs' /\ rows'[s] = scan[s].hosts
          /\ runs'[s] = [cidr |-> scan[s].cidr, ended |-> scan[s].ended]
      BY <2>2 DEF Save, SaveScanRun, Put
    <3> QED
      BY <2>1, <3>1 DEF Stored
  <2>3. CASE Touch(s)
    <3> DEFINE l == scan[s].latest
    <3>1. scan[s].pc = "touch" /\ l \in DOMAIN runs
      BY <2>3 DEF Touch
    <3>2. runs[l].cidr = scan[s].cidr /\ rows[l] = scan[s].hosts /\ runs[l] \in [cidr : CIDRs, ended : Nat]
      BY <3>1 DEF SavedOnce, Compared, HInv, StoreTypes
    <3>3. l \in DOMAIN runs' /\ runs'[l].cidr = runs[l].cidr /\ runs'[l].ended = scan[s].ended /\ rows' = rows
      BY <2>3, <3>1, <3>2 DEF Touch, TouchScanRun
    <3> QED
      BY <2>1, <3>2, <3>3 DEF Stored
  <2>4. \A t \in Scans \ {s} : Step(t) => scan'[s] = scan[s]
    BY DEF HInv, StoreTypes, Step, EndScan, ListLatest, Compare, Touch, Save, Prune, StoreFails, Goto, Leave
  <2>5. \A client \in use.clients, cidr \in use.cidrs :
          BeginScan(client, cidr) => scan'[s].pc \in {scan[s].pc, "running"}
    BY DEF HInv, StoreTypes, BeginScan
  <2>6. \A id \in DOMAIN runs : DeleteRun(id) => scan'[s] = scan[s]
    BY DEF DeleteRun
  <2>7. PICK t \in Scans : Step(t)
    BY <2>5, <2>6 DEF StoreNext
  <2>8. t = s
    BY <2>4, <2>7
  <2>9. scan'[s].pc \in {"prune", "done"} /\ Step(s) => Save(s) \/ Touch(s)
    <3>1. StoreFails(s) => scan'[s].pc = "failed"
      BY DEF StoreFails, Leave, HInv, StoreTypes, NoScan
    <3> QED
      BY <3>1 DEF Step, EndScan, ListLatest, Compare, Prune
  <2> QED
    BY <2>2, <2>3, <2>7, <2>8, <2>9
<1> QED
  BY <1>1, HistoryInvariance, SavedOnceAlways, PTL DEF StoreSpec, SuccessMeansStored


-----------------------------------------------------------------------------
(* A run that is stored is worth storing.                                  *)

\* Where two scans of a range are not equivalent, the history page has something
\* to list, or the difference is a host that one of them left bare: any other
\* host is alive by its MAC or a port, and does not differ in being alive only.
LEMMA VisibleChange ==
  ASSUME NEW c, NEW a \in HostsOf(c), NEW b \in HostsOf(c), ~hostsEquivalent(a, b),
         \A ip \in DOMAIN a \cap DOMAIN b :
           a[ip] # b[ip] => ~(Bare(a[ip]) \/ Bare(b[ip]))
  PROVE  DiffColumns(DiffHosts(a, b)) # [joined |-> {}, left |-> {}, changed |-> {}]
<1> DEFINE diff == DiffHosts(a, b)
           columns == DiffColumns(diff)
<1>1. PICK x \in (SUBSET c) \ {{}} : a \in [x -> ScannedRows]
  BY DEF HostsOf
<1>2. PICK y \in (SUBSET c) \ {{}} : b \in [y -> ScannedRows]
  BY DEF HostsOf
<1>3. columns.joined = y \ x /\ columns.left = x \ y
  BY <1>1, <1>2 DEF DiffColumns, DiffHosts
<1>4. CASE x # y
  <2>1. columns.joined # {} \/ columns.left # {}
    BY <1>3, <1>4
  <2> HIDE DEF columns
  <2> QED
    BY <2>1 DEF columns
<1>5. CASE x = y
  <2>1. PICK ip \in x : ~SameRow(a[ip], b[ip]) \/ a[ip].alive # b[ip].alive
    BY <1>1, <1>2, <1>5 DEF hostsEquivalent
  <2>2. a[ip] \in ScannedRows /\ b[ip] \in ScannedRows
    BY <1>1, <1>2, <1>5
  <2>3. ~SameRow(a[ip], b[ip])
    <3>1. a[ip] # b[ip] /\ ip \in DOMAIN a \cap DOMAIN b
      BY <1>1, <1>2, <1>5, <2>1 DEF SameRow
    <3>2. ~Bare(a[ip]) /\ ~Bare(b[ip])
      BY <3>1
    <3>3. /\ a[ip].alive \in BOOLEAN /\ b[ip].alive \in BOOLEAN
          /\ a[ip].alive <=> (a[ip].mac # NoMac \/ a[ip].open)
          /\ b[ip].alive <=> (b[ip].mac # NoMac \/ b[ip].open)
      BY <2>2, <3>2 DEF ScannedRows, Row, Bare
    <3> QED
      BY <2>1, <3>3 DEF SameRow
  <2> DEFINE change == [ip |-> ip, fields |-> Changes(a[ip], b[ip])]
  <2>4. PICK field \in {"mac", "open"} : field \in Changes(a[ip], b[ip])
    BY <2>3 DEF SameRow, Changes
  <2>5. change \in diff.changed
    BY <1>1, <1>2, <1>5, <2>4 DEF DiffHosts
  <2>6. <<change.ip, field>> \in columns.changed
    <3>1. columns.changed =
            UNION {{<<ch.ip, g>> : g \in ch.fields} : ch \in diff.changed}
      BY DEF DiffColumns
    <3>2. <<change.ip, field>> \in {<<change.ip, g>> : g \in change.fields}
      BY <2>4
    <3> HIDE DEF change, columns, diff
    <3> QED
      BY <2>5, <3>1, <3>2
  <2> HIDE DEF columns
  <2> QED
    BY <2>6 DEF columns
<1> QED
  BY <1>4, <1>5

\* ChangeIsVisible: what an app alone with its history stores beside a newest
\* run of the same range differs from it in something that the page's columns
\* show, or in a host that a cut-short scan left bare (sqlite.go:169-188, App.tsx's
\* diff).
THEOREM StoredChangesShow == StoreSpec => ChangeIsVisible
<1> DEFINE Differs(id, ip) ==
      /\ rows[Latest][ip] # rows'[id][ip]
      /\ Bare(rows[Latest][ip]) \/ Bare(rows'[id][ip])
<1> DEFINE Shown(id) ==
      (Alone /\ Latest # NoRun /\ runs[Latest].cidr = runs'[id].cidr) =>
        \/ DiffColumns(DiffHosts(rows[Latest], rows'[id]))
             # [joined |-> {}, left |-> {}, changed |-> {}]
        \/ \E ip \in DOMAIN rows[Latest] \cap DOMAIN rows'[id] : Differs(id, ip)
<1>1. HInv /\ [StoreNext]_storeVars => [\A id \in DOMAIN runs' \ DOMAIN runs : Shown(id)]_storeVars
  <2> SUFFICES ASSUME HInv, StoreNext, NEW id \in DOMAIN runs' \ DOMAIN runs,
                      Alone, Latest # NoRun, runs[Latest].cidr = runs'[id].cidr,
                      \A ip \in DOMAIN rows[Latest] \cap DOMAIN rows'[id] : ~Differs(id, ip)
               PROVE  DiffColumns(DiffHosts(rows[Latest], rows'[id]))
                        # [joined |-> {}, left |-> {}, changed |-> {}]
    OBVIOUS
  <2>1. PICK s \in Scans : Save(s)
    <3>1. \A s \in Scans : Touch(s) => DOMAIN runs' = DOMAIN runs
      BY TouchHInv
    <3>2. \A s \in Scans : Prune(s) => DOMAIN runs' \subseteq DOMAIN runs
      BY DEF Prune, PruneScanRuns, Without
    <3>3. \A k \in DOMAIN runs : DeleteRun(k) => DOMAIN runs' \subseteq DOMAIN runs
      BY DEF DeleteRun, DeleteScanRun, Without
    <3> QED
      BY <3>1, <3>2, <3>3
         DEF StoreNext, BeginScan, Step, EndScan, ListLatest, Compare, StoreFails
  <2>2. id = s /\ runs'[s].cidr = scan[s].cidr /\ rows'[s] = scan[s].hosts
    BY <2>1 DEF Save, SaveScanRun, Put
  <2>3. scan[s].pc = "save" /\ scan[s].client = "desktop" /\ scan[s].hosts \in HostsOf(scan[s].cidr)
    BY <2>1 DEF Save, HInv, OneAtATime, StoreTypes, Saving
  <2>4. Newest(Latest) /\ Latest \in DOMAIN runs
    BY LatestFacts DEF HInv, Newest
  <2>5. ~Same(Latest, s)
    BY <2>3, <2>4 DEF HInv, StillNewest
  <2>6. rows[Latest] \in HostsOf(scan[s].cidr) /\ ~hostsEquivalent(rows[Latest], scan[s].hosts)
    BY <2>2, <2>4, <2>5 DEF HInv, StoreTypes, Same
  <2> QED
    BY <2>2, <2>3, <2>6, VisibleChange
<1> QED
  BY <1>1, HistoryInvariance, PTL DEF StoreSpec, ChangeIsVisible

-----------------------------------------------------------------------------
(* The history is a change log.                                            *)

LEMMA LogIs ==
  ASSUME HInv, NEW f, Sorted(f, DOMAIN runs)
  PROVE  /\ InOrder = f /\ DOMAIN f = 1 .. Len(f) /\ Len(f) \in Nat
         /\ \A i \in 1 .. Len(f) : f[i] \in DOMAIN runs
         /\ [i \in DOMAIN InOrder |-> Entry(InOrder[i])] = [i \in 1 .. Len(f) |-> Entry(f[i])]
<1>1. DOMAIN runs \subseteq Nat
  BY ScanNumbers DEF HInv, StoreTypes
<1>2. InOrder = f
  BY <1>1, AscendingIs DEF InOrder
<1>3. DOMAIN f = 1 .. Len(f) /\ Len(f) \in Nat /\ \A i \in 1 .. Len(f) : f[i] \in DOMAIN runs
  BY DEF Sorted
<1> QED
  BY <1>2, <1>3

\* A save appends an observation that the last entry of the log is not.
LEMMA SaveObserves ==
  ASSUME HInv, HInv', Alone, NEW s \in Scans, Save(s)
  PROVE  [Log!Next]_Log!vars
<1>1. PICK f : Sorted(f, DOMAIN runs)
  BY DEF HInv, OneAtATime
<1> DEFINE n == Len(f)
           o == [cidr |-> scan[s].cidr, hosts |-> scan[s].hosts]
           old == [i \in 1 .. n |-> Entry(f[i])]
<1>2. /\ scan[s].pc = "save" /\ scan[s].client = "desktop" /\ scan[s].cidr \in CIDRs
      /\ scan[s].hosts \in HostsOf(scan[s].cidr) /\ \A id \in DOMAIN runs : id < s
      /\ UNCHANGED <<deletes, use>> /\ (Alone' <=> Alone)
  BY DEF Save, HInv, OneAtATime, StoreTypes, Saving, Alone
<1>3. /\ DOMAIN runs' = DOMAIN runs \cup {s} /\ s \notin DOMAIN runs /\ DOMAIN rows = DOMAIN runs
      /\ Entry(s)' = o /\ \A id \in DOMAIN runs : Entry(id)' = Entry(id)
  BY <1>2, ScanNumbers DEF Save, SaveScanRun, Put, Entry, HInv, StoreTypes
<1>4. /\ InOrder = f /\ DOMAIN f = 1 .. n /\ n \in Nat
      /\ \A i \in 1 .. n : f[i] \in DOMAIN runs
      /\ [i \in DOMAIN InOrder |-> Entry(InOrder[i])] = old
  BY <1>1, LogIs
<1>5. DOMAIN runs \subseteq Nat /\ s \in Nat /\ f \in Seq(DOMAIN runs)
  BY <1>1, <1>4, ScanNumbers DEF HInv, StoreTypes, Sorted
<1> HIDE DEF n, o, old
<1>6. InOrder' = Append(f, s)
  <2>1. Sorted(Append(f, s), DOMAIN runs')
    BY <1>1, <1>2, <1>3, <1>5, AppendSorted
  <2>2. DOMAIN runs' \subseteq Nat
    BY <1>3, <1>5
  <2> QED
    BY <2>1, <2>2, AscendingIs DEF InOrder
<1>7. [i \in DOMAIN InOrder |-> Entry(InOrder[i])]' = Append(old, o)
  <2>1. /\ DOMAIN Append(f, s) = 1 .. (n + 1) /\ Append(f, s)[n + 1] = s
        /\ \A i \in 1 .. n : Append(f, s)[i] = f[i]
    BY <1>5 DEF n
  <2>2. [i \in DOMAIN InOrder |-> Entry(InOrder[i])]'
          = [i \in 1 .. (n + 1) |-> Entry(Append(f, s)[i])']
    BY <1>6, <2>1
  <2>3. \A i \in 1 .. (n + 1) : Entry(Append(f, s)[i])' = IF i = n + 1 THEN o ELSE old[i]
    BY <1>3, <1>4, <2>1 DEF old
  <2>4. Append(old, o) = [i \in 1 .. (n + 1) |-> IF i = n + 1 THEN o ELSE old[i]]
    BY <1>4 DEF old
  <2> QED
    BY <2>2, <2>3, <2>4
<1>8. o \in Findings
  BY <1>2 DEF Findings, o
<1>9. n # 0 => old[n] # o
  <2> SUFFICES ASSUME n # 0 PROVE old[n] # o
    OBVIOUS
  <2>1. n \in 1 .. n /\ f[n] \in DOMAIN runs
    BY <1>4
  <2>2. Newest(f[n])
    <3> SUFFICES ASSUME NEW k \in DOMAIN runs PROVE k <= f[n]
      BY <2>1 DEF Newest
    <3>1. PICK j \in 1 .. n : f[j] = k
      BY <1>1 DEF Sorted, n
    <3>2. j < n => f[j] < f[n]
      BY <1>1, <2>1 DEF Sorted, n
    <3> QED
      BY <1>4, <1>5, <2>1, <3>1, <3>2
  <2>3. ~Same(f[n], s)
    BY <1>2, <2>1, <2>2 DEF HInv, StillNewest
  <2>4. Entry(f[n]) # o
    <3> SUFFICES ASSUME Entry(f[n]) = o PROVE FALSE
      OBVIOUS
    <3>1. runs[f[n]].cidr = scan[s].cidr /\ rows[f[n]] = scan[s].hosts
      BY DEF Entry, o
    <3> QED
      BY <2>3, <3>1 DEF Same, hostsEquivalent, SameRow
  <2> QED
    BY <2>1, <2>4 DEF old
<1>10. /\ Append(old, o) # <<>> /\ Log!Last(Append(old, o)) = o
       /\ ~(old # <<>> /\ Log!Last(old) = o)
  <2>1. /\ Len(old) = n /\ Len(Append(old, o)) = n + 1 /\ Append(old, o)[n + 1] = o
        /\ n = 0 <=> old = <<>>
    BY <1>4 DEF old
  <2> QED
    BY <1>4, <1>9, <2>1 DEF Log!Last
<1>11. Log!Observe
  BY <1>2, <1>4, <1>7, <1>8, <1>10 DEF Log!Observe
<1> QED
  BY <1>11 DEF Log!Next


\* A prune takes the oldest entries beyond Keep, and no other.
LEMMA PruneTrims ==
  ASSUME HInv, HInv', Alone, NEW s \in Scans, Prune(s)
  PROVE  [Log!Next]_Log!vars
<1>1. PICK f : Sorted(f, DOMAIN runs)
  BY DEF HInv, OneAtATime
<1> DEFINE n == Len(f)
           old == [i \in 1 .. n |-> Entry(f[i])]
           g == SubSeq(f, n - Keep + 1, n)
<1>2. /\ runs' = Without(runs, Stale) /\ rows' = Without(rows, Stale)
      /\ UNCHANGED <<deletes, use>> /\ (Alone' <=> Alone)
  BY PruneKeeps DEF Prune, Alone
<1>3. /\ DOMAIN runs' = DOMAIN runs \ Stale
      /\ \A id \in DOMAIN runs' : runs'[id] = runs[id] /\ rows'[id] = rows[id]
  BY <1>2, FewerTyped
<1>4. /\ InOrder = f /\ DOMAIN f = 1 .. n /\ n \in Nat
      /\ \A i \in 1 .. n : f[i] \in DOMAIN runs
      /\ [i \in DOMAIN InOrder |-> Entry(InOrder[i])] = old
  BY <1>1, LogIs
<1>5. /\ Keep \in Nat
      /\ n <= Keep => Stale = {}
      /\ n > Keep => g = [j \in 1 .. Keep |-> f[n - Keep + j]] /\ Sorted(g, DOMAIN runs')
  BY <1>1, <1>3, PruneListing
<1>6. DOMAIN runs' \subseteq Nat
  BY ScanNumbers DEF HInv, StoreTypes
<1> HIDE DEF n, old, g
<1>7. CASE n <= Keep
  <2>1. DOMAIN runs' = DOMAIN runs /\ InOrder' = f
    <3>1. DOMAIN runs' = DOMAIN runs
      BY <1>3, <1>5, <1>7
    <3> QED
      BY <1>1, <1>6, <3>1, AscendingIs DEF InOrder
  <2>2. \A i \in 1 .. n : Entry(f[i])' = Entry(f[i])
    BY <1>3, <1>4, <2>1 DEF Entry
  <2>3. [i \in DOMAIN InOrder |-> Entry(InOrder[i])]' = old
    BY <1>4, <2>1, <2>2 DEF old
  <2> QED
    BY <1>2, <1>4, <2>3 DEF Log!vars
<1>8. CASE n > Keep
  <2>1. InOrder' = g
    BY <1>5, <1>6, <1>8, AscendingIs DEF InOrder
  <2>2. DOMAIN g = 1 .. Keep /\ \A j \in 1 .. Keep : n - Keep + j \in 1 .. n /\ g[j] = f[n - Keep + j]
    BY <1>4, <1>5, <1>8
  <2>3. \A j \in 1 .. Keep : g[j] \in DOMAIN runs'
    BY <1>5, <1>8, <2>2 DEF Sorted
  <2>4. \A j \in 1 .. Keep : Entry(g[j])' = old[n - Keep + j]
    BY <1>3, <2>2, <2>3 DEF Entry, old
  <2>5. [i \in DOMAIN InOrder |-> Entry(InOrder[i])]' = [j \in 1 .. Keep |-> old[n - Keep + j]]
    BY <2>1, <2>2, <2>4
  <2>6. Len(old) = n /\ old \in Seq({Entry(id) : id \in DOMAIN runs})
    <3>1. \A i \in 1 .. n : old[i] \in {Entry(id) : id \in DOMAIN runs}
      BY <1>4 DEF old
    <3> QED
      BY <1>4, <3>1 DEF old
  <2>7. SubSeq(old, n - Keep + 1, n) = [j \in 1 .. Keep |-> old[n - Keep + j]]
    <3> DEFINE q == SubSeq(old, n - Keep + 1, n)
               E == {Entry(id) : id \in DOMAIN runs}
    <3>1. /\ n - Keep + 1 \in Int /\ n \in Int /\ old \in Seq(E)
          /\ \A i \in (n - Keep + 1) .. n : old[i] \in E
      BY <1>4, <1>5, <1>8, <2>6
    <3> HIDE DEF E
    <3>2. /\ q \in Seq(E) /\ Len(q) = IF n - Keep + 1 <= n THEN n - (n - Keep + 1) + 1 ELSE 0
          /\ \A j \in 1 .. (n - (n - Keep + 1) + 1) : q[j] = old[n - Keep + 1 + j - 1]
      BY <3>1, SubSeqProperties
    <3>3. n - (n - Keep + 1) + 1 = Keep /\ (~(n - Keep + 1 <= n) => Keep = 0)
      BY <1>4, <1>5
    <3>4. \A j \in 1 .. Keep : n - Keep + 1 + j - 1 = n - Keep + j
      BY <1>4, <1>5
    <3> HIDE DEF q
    <3>5. Len(q) = Keep /\ q = [j \in 1 .. Len(q) |-> q[j]]
      BY <3>2, <3>3
    <3> QED
      BY <3>2, <3>3, <3>4, <3>5 DEF q
  <2>8. Log!Trim
    BY <1>2, <1>4, <1>8, <2>5, <2>6, <2>7 DEF Log!Trim
  <2> QED
    BY <2>8 DEF Log!Next
<1> QED
  BY <1>4, <1>5, <1>7, <1>8

\* A run that the user deletes is struck out of the log, wherever it is.
LEMMA DeleteStrikes ==
  ASSUME HInv, HInv', Alone, NEW id \in DOMAIN runs, DeleteRun(id)
  PROVE  [Log!Next]_Log!vars
<1>1. PICK f : Sorted(f, DOMAIN runs)
  BY DEF HInv, OneAtATime
<1> DEFINE n == Len(f)
           old == [i \in 1 .. n |-> Entry(f[i])]
           E == {Entry(k) : k \in DOMAIN runs}
<1>2. /\ runs' = Without(runs, {id}) /\ rows' = Without(rows, {id})
      /\ deletes > 0 /\ deletes' = deletes - 1 /\ (Alone' <=> Alone)
  BY DEF DeleteRun, DeleteScanRun, Alone
<1>3. /\ DOMAIN runs' = DOMAIN runs \ {id}
      /\ \A k \in DOMAIN runs' : runs'[k] = runs[k] /\ rows'[k] = rows[k]
  BY <1>2, FewerTyped
<1>4. /\ InOrder = f /\ DOMAIN f = 1 .. n /\ n \in Nat
      /\ \A i \in 1 .. n : f[i] \in DOMAIN runs
      /\ [i \in DOMAIN InOrder |-> Entry(InOrder[i])] = old
  BY <1>1, LogIs
<1>5. DOMAIN runs \subseteq Nat /\ DOMAIN runs' \subseteq Nat
  BY ScanNumbers DEF HInv, StoreTypes
<1>6. PICK i \in 1 .. n : f[i] = id
  BY <1>1 DEF Sorted
<1> DEFINE g == RemoveAt(f, i)
<1>7. /\ Sorted(g, DOMAIN runs')
      /\ g = [j \in 1 .. (n - 1) |-> IF j < i THEN f[j] ELSE f[j + 1]]
  <2>1. Sorted(g, DOMAIN runs \ {f[i]})
    BY <1>1, <1>5, RemoveSorted
  <2>2. f \in Seq(DOMAIN runs)
    BY <1>1, <1>4 DEF Sorted
  <2> QED
    BY <1>3, <1>6, <2>1, <2>2, RemoveAtFacts
<1>8. old \in Seq(E) /\ Len(old) = n
  <2>1. \A j \in 1 .. n : old[j] \in E
    BY <1>4
  <2> HIDE DEF E
  <2> QED
    BY <1>4, <2>1
<1> HIDE DEF n, old, g, E
<1>9. InOrder' = g
  BY <1>5, <1>7, AscendingIs DEF InOrder
<1>10. DOMAIN g = 1 .. (n - 1) /\ \A j \in 1 .. (n - 1) : g[j] \in DOMAIN runs'
  BY <1>7 DEF Sorted
<1>11. \A j \in 1 .. (n - 1) : Entry(g[j])' = IF j < i THEN old[j] ELSE old[j + 1]
  <2> TAKE j \in 1 .. (n - 1)
  <2>1. g[j] \in DOMAIN runs' /\ Entry(g[j])' = Entry(g[j])
    BY <1>3, <1>9, <1>10 DEF Entry
  <2>2. j \in 1 .. n /\ j + 1 \in 1 .. n
    BY <1>4
  <2> QED
    BY <1>7, <2>1, <2>2 DEF old
<1>12. [k \in DOMAIN InOrder |-> Entry(InOrder[k])]' = RemoveAt(old, i)
  <2>1. RemoveAt(old, i) = [j \in 1 .. (n - 1) |-> IF j < i THEN old[j] ELSE old[j + 1]]
    BY <1>8, RemoveAtFacts
  <2> QED
    BY <1>9, <1>10, <1>11, <2>1
<1>13. Log!Strike(i) /\ i \in DOMAIN old
  <2>1. DOMAIN old = 1 .. n
    BY <1>8
  <2> QED
    BY <1>2, <1>4, <1>12, <2>1 DEF Log!Strike, Log!RemoveAt, RemoveAt
<1> QED
  BY <1>4, <1>13 DEF Log!Next

LEMMA StepIsLogged ==
  ASSUME HInv, HInv', [StoreNext]_storeVars
  PROVE  [Log!Next]_Log!vars
<1>1. ASSUME ~Alone PROVE [Log!Next]_Log!vars
  <2>1. ~Alone'
    BY <1>1 DEF Alone, StoreNext, BeginScan, Step, EndScan, ListLatest, Compare, Touch, Save, Prune,
                StoreFails, DeleteRun, storeVars
  <2> QED
    BY <1>1, <2>1 DEF Log!vars
<1>2. ASSUME UNCHANGED <<runs, rows, deletes, use>> PROVE UNCHANGED Log!vars
  BY <1>2 DEF Log!vars, Alone, InOrder, Entry
<1>3. ASSUME Alone, NEW s \in Scans, Touch(s) PROVE UNCHANGED Log!vars
  <2>1. /\ DOMAIN runs' = DOMAIN runs /\ rows' = rows /\ UNCHANGED <<deletes, use>>
        /\ \A id \in DOMAIN runs : runs'[id].cidr = runs[id].cidr
    BY <1>3, TouchHInv DEF Touch, TouchScanRun
  <2>2. PICK f : Sorted(f, DOMAIN runs)
    BY <1>3 DEF HInv, OneAtATime
  <2>3. InOrder = f /\ DOMAIN f = 1 .. Len(f) /\ \A i \in 1 .. Len(f) : f[i] \in DOMAIN runs
    BY <2>2, LogIs
  <2>4. InOrder' = InOrder
    BY <2>1 DEF InOrder
  <2>5. \A i \in DOMAIN InOrder : Entry(InOrder[i])' = Entry(InOrder[i])
    BY <2>1, <2>3, <2>4 DEF Entry
  <2>6. [i \in DOMAIN InOrder |-> Entry(InOrder[i])]' = [i \in DOMAIN InOrder |-> Entry(InOrder[i])]
    BY <2>4, <2>5
  <2> QED
    BY <2>1, <2>6 DEF Log!vars, Alone
<1>4. ASSUME Alone, NEW s \in Scans, Step(s) PROVE [Log!Next]_Log!vars
  <2>1. CASE EndScan(s) \/ ListLatest(s) \/ Compare(s) \/ StoreFails(s)
    BY <1>2, <2>1 DEF EndScan, ListLatest, Compare, StoreFails
  <2>2. CASE Touch(s)
    BY <1>3, <1>4, <2>2
  <2>3. CASE Save(s)
    BY <1>4, <2>3, SaveObserves
  <2>4. CASE Prune(s)
    BY <1>4, <2>4, PruneTrims
  <2> QED
    BY <1>4, <2>1, <2>2, <2>3, <2>4 DEF Step
<1>5. ASSUME Alone, NEW id \in DOMAIN runs, DeleteRun(id) PROVE [Log!Next]_Log!vars
  BY <1>5, DeleteStrikes
<1>6. ASSUME NEW client \in use.clients, NEW cidr \in use.cidrs, BeginScan(client, cidr)
      PROVE  UNCHANGED Log!vars
  BY <1>2, <1>6 DEF BeginScan
<1>7. ASSUME UNCHANGED storeVars PROVE UNCHANGED Log!vars
  BY <1>2, <1>7 DEF storeVars
<1> QED
  BY <1>1, <1>4, <1>5, <1>6, <1>7 DEF StoreNext

\* StoresChanges: the stored runs of an app that is alone with its history, and
\* whose user does not delete in the middle of a save (Alone), are a log of
\* observed network states, in which a scan that saw nothing new adds no entry
\* and only the oldest go by themselves, for any number of scans and of runs
\* kept (sqlite.go:163-188 and PruneScanRuns).
THEOREM StoreIsAChangeLog == StoreSpec => StoresChanges
<1>1. StoreInit => Log!Init
  <2> SUFFICES ASSUME StoreInit PROVE Log!Init
    OBVIOUS
  <2>1. DOMAIN runs = {} /\ deletes \in Nat
    BY HistoryAssumption DEF StoreInit
  <2>2. InOrder = <<>>
    BY <2>1, NothingListed, AscendingIs DEF InOrder
  <2> QED
    BY <2>1, <2>2 DEF Log!Init
<1>2. HInv /\ HInv' /\ [StoreNext]_storeVars => [Log!Next]_Log!vars
  BY StepIsLogged
<1> QED
  BY <1>1, <1>2, HistoryInvariance, PTL DEF StoreSpec, StoresChanges, Log!Spec

-----------------------------------------------------------------------------
(* The updater.  What the files hold, and what is left when the installed   *)
(* file is not whole.                                                      *)

Images(F) == [holds : [F -> Contents], unsynced : SUBSET Copies, bare : BOOLEAN]

\* A copy that is whole and on the device, unless one was given up too early.
Kept(d) == d.bare \/ \E f \in Copies : Safe(d, f)

LEMMA Names ==
  /\ "none" \notin Binaries /\ "partial" \notin Binaries /\ "torn" \notin Binaries
  /\ Binaries \subseteq Contents
  /\ {"none", "partial", "torn"} \subseteq Contents
  /\ Copies \subseteq Files
  /\ "target" \in Copies /\ "old" \in Copies /\ "new" \in Copies
BY UpdaterAssumption, Zenon DEF Binaries, Contents, Copies, Files

LEMMA ChangedFields ==
  ASSUME NEW d, NEW holds, NEW unsynced, NEW spared, d.bare \in BOOLEAN, spared \in BOOLEAN,
         NEW e, e = Changed(d, holds, unsynced, spared)
  PROVE  /\ e.holds = holds /\ e.unsynced = unsynced /\ e.bare \in BOOLEAN
         /\ e = [holds |-> holds, unsynced |-> unsynced, bare |-> e.bare]
         /\ ~e.bare => Safe(e, "target") \/ (~d.bare /\ ~spared)
         /\ d.bare => Safe(e, "target") \/ e.bare
<1> DEFINE safe == holds["target"] \in Binaries /\ "target" \notin unsynced
<1>1. e = [holds |-> holds, unsynced |-> unsynced, bare |-> ~safe /\ (d.bare \/ spared)]
  BY DEF Changed
<1>2. e.bare = (~safe /\ (d.bare \/ spared)) /\ e.holds = holds /\ e.unsynced = unsynced
  BY <1>1
<1>3. safe = Safe(e, "target")
  BY <1>2, Zenon DEF Safe, Whole
<1>4. safe \in BOOLEAN
  OBVIOUS
<1> HIDE DEF safe
<1>5. e = [holds |-> holds, unsynced |-> unsynced, bare |-> e.bare]
  BY <1>1, <1>2
<1>6. e.bare \in BOOLEAN
  BY <1>2, <1>4
<1>7. (~e.bare => safe \/ (~d.bare /\ ~spared)) /\ (d.bare => safe \/ e.bare)
  BY <1>2, Zenon
<1> QED
  BY <1>2, <1>3, <1>5, <1>6, <1>7, Zenon

\* A write beside the copies, to the installed file where it is not whole, or to
\* a spare where it is, leaves a copy; and so on for the other two.
LEMMA WriteKeeps ==
  ASSUME NEW d \in Images(Files), NEW f \in Files, NEW bytes \in Contents, Kept(d),
         f = "target" => ~Whole(d, "target"),
         f \in {"old", "new"} => Whole(d, "target")
  PROVE  /\ Write(d, f, bytes) \in Images(Files)
         /\ Write(d, f, bytes).holds = [d.holds EXCEPT ![f] = bytes]
         /\ Kept(Write(d, f, bytes))
         /\ d.bare /\ ~Whole(d, "target") /\ f # "target" => Write(d, f, bytes).bare
<1> DEFINE e == Write(d, f, bytes)
           holds == [d.holds EXCEPT ![f] = bytes]
           unsynced == d.unsynced \cup {n \in {f} \cap Copies : crashes < MaxCrashes}
<1>0. e = Changed(d, holds, unsynced, Spared(d, f))
  BY DEF Write
<1> HIDE DEF e, holds, unsynced
<1>1. d.bare \in BOOLEAN /\ Spared(d, f) \in BOOLEAN
  BY DEF Images, Spared
<1>2. /\ e.holds = holds /\ e.unsynced = unsynced /\ e.bare \in BOOLEAN
      /\ e = [holds |-> holds, unsynced |-> unsynced, bare |-> e.bare]
      /\ ~e.bare => Safe(e, "target") \/ (~d.bare /\ ~Spared(d, f))
      /\ d.bare => Safe(e, "target") \/ e.bare
  BY <1>1, <1>0, ChangedFields
<1> USE DEF holds, unsynced
<1>3. e \in Images(Files)
  BY <1>2 DEF Images
<1>4. Kept(e)
  <2>1. CASE e.bare \/ Safe(e, "target")
    BY <2>1, Names DEF Kept
  <2>2. CASE ~e.bare /\ ~Safe(e, "target")
    <3>1. ~d.bare /\ ~Spared(d, f)
      BY <1>2, <2>2
    <3>2. PICK g \in Copies : Safe(d, g)
      BY <3>1 DEF Kept
    <3>3. g # f
      BY <2>2, <1>2, <3>1, <3>2, Names DEF Spared, Safe, Whole, Copies, Images
    <3>4. Safe(e, g)
      BY <1>2, <3>2, <3>3, Names DEF Safe, Whole, Images
    <3> QED
      BY <3>4 DEF Kept
  <2> QED
    BY <2>1, <2>2
<1>5. d.bare /\ ~Whole(d, "target") /\ f # "target" => e.bare
  BY <1>2, Names DEF Safe, Whole, Images
<1> QED
  BY <1>2, <1>3, <1>4, <1>5 DEF e

LEMMA UnlinkKeeps ==
  ASSUME NEW d \in Images(Files), NEW f \in Files, Kept(d), f # "target",
         f \in {"old", "new"} => Whole(d, "target") \/ d.holds[f] = "none"
  PROVE  /\ Unlink(d, f) \in Images(Files)
         /\ Unlink(d, f).holds = [d.holds EXCEPT ![f] = "none"]
         /\ Kept(Unlink(d, f))
         /\ d.bare /\ ~Whole(d, "target") => Unlink(d, f).bare
<1> DEFINE e == Unlink(d, f)
           holds == [d.holds EXCEPT ![f] = "none"]
           unsynced == d.unsynced \ {f}
<1>0. e = Changed(d, holds, unsynced, Spared(d, f))
  BY DEF Unlink
<1> HIDE DEF e, holds, unsynced
<1>1. d.bare \in BOOLEAN /\ Spared(d, f) \in BOOLEAN
  BY DEF Images, Spared
<1>2. /\ e.holds = holds /\ e.unsynced = unsynced /\ e.bare \in BOOLEAN
      /\ e = [holds |-> holds, unsynced |-> unsynced, bare |-> e.bare]
      /\ ~e.bare => Safe(e, "target") \/ (~d.bare /\ ~Spared(d, f))
      /\ d.bare => Safe(e, "target") \/ e.bare
  BY <1>1, <1>0, ChangedFields
<1> USE DEF holds, unsynced
<1>3. e \in Images(Files)
  BY <1>2, Names DEF Images
<1>4. Kept(e)
  <2>1. CASE e.bare \/ Safe(e, "target")
    BY <2>1, Names DEF Kept
  <2>2. CASE ~e.bare /\ ~Safe(e, "target")
    <3>1. ~d.bare /\ ~Spared(d, f)
      BY <1>2, <2>2
    <3>2. PICK g \in Copies : Safe(d, g)
      BY <3>1 DEF Kept
    <3>3. g # f
      BY <2>2, <1>2, <3>1, <3>2, Names DEF Spared, Safe, Whole, Copies, Images
    <3>4. Safe(e, g)
      BY <1>2, <3>2, <3>3, Names DEF Safe, Whole, Images
    <3> QED
      BY <3>4 DEF Kept
  <2> QED
    BY <2>1, <2>2
<1>5. d.bare /\ ~Whole(d, "target") => e.bare
  BY <1>2, Names DEF Safe, Whole, Images
<1> QED
  BY <1>2, <1>3, <1>4, <1>5 DEF e

\* The renames of a swap, of its roll-back and of a repair.
LEMMA RenameKeeps ==
  ASSUME NEW d \in Images(Files), NEW f \in Copies, NEW g \in Copies, Kept(d),
         \/ f = "target" /\ g = "old" /\ Whole(d, "target")
         \/ f # "target" /\ g = "target" /\ ~Whole(d, "target")
  PROVE  /\ Rename(d, f, g) \in Images(Files)
         /\ Rename(d, f, g).holds = [d.holds EXCEPT ![g] = d.holds[f], ![f] = "none"]
         /\ Kept(Rename(d, f, g))
<1> DEFINE e == Rename(d, f, g)
           holds == [d.holds EXCEPT ![g] = d.holds[f], ![f] = "none"]
           unsynced == (d.unsynced \ {f, g}) \cup {n \in {g} : f \in d.unsynced}
<1>0. e = Changed(d, holds, unsynced, Spared(d, g))
  BY DEF Rename
<1> HIDE DEF e, holds, unsynced
<1>1. d.bare \in BOOLEAN /\ Spared(d, g) \in BOOLEAN
  BY DEF Images, Spared
<1>2. /\ e.holds = holds /\ e.unsynced = unsynced /\ e.bare \in BOOLEAN
      /\ e = [holds |-> holds, unsynced |-> unsynced, bare |-> e.bare]
      /\ ~e.bare => Safe(e, "target") \/ (~d.bare /\ ~Spared(d, g))
  BY <1>1, <1>0, ChangedFields
<1> USE DEF holds, unsynced
<1>3. e \in Images(Files)
  <2>1. d.holds \in [Files -> Contents] /\ d.holds[f] \in Contents
    BY Names DEF Images
  <2>2. holds \in [Files -> Contents]
    BY <2>1, Names
  <2>3. unsynced \in SUBSET Copies
    BY DEF Images
  <2> QED
    BY <1>2, <2>2, <2>3 DEF Images
<1>4. Kept(e)
  <2>1. CASE e.bare \/ Safe(e, "target")
    BY <2>1, Names DEF Kept
  <2>2. CASE ~e.bare /\ ~Safe(e, "target")
    <3>1. ~d.bare /\ ~Spared(d, g)
      BY <1>2, <2>2
    <3>2. PICK n \in Copies : Safe(d, n)
      BY <3>1 DEF Kept
    <3>3. CASE Safe(d, f)
      <4>1. Safe(e, g)
        BY <1>2, <3>3, Names DEF Safe, Whole, Images
      <4> QED
        BY <4>1 DEF Kept
    <3>4. CASE ~Safe(d, f)
      <4>1. n # f /\ n # g
        BY <3>1, <3>2, <3>4, Names DEF Spared, Safe, Whole
      <4>2. Safe(e, n)
        BY <1>2, <3>2, <4>1, Names DEF Safe, Whole, Images
      <4> QED
        BY <4>2 DEF Kept
    <3> QED
      BY <3>3, <3>4
  <2> QED
    BY <2>1, <2>2
<1> QED
  BY <1>2, <1>3, <1>4 DEF e

-----------------------------------------------------------------------------
(* The inductive invariant.                                                *)

Calls == [kind : {"none", "check", "download", "show", "apply"}, quiet : BOOLEAN,
          at : {"none", "asked", "fetched"}]

Types ==
  /\ disk \in Images(Files) /\ device \in Images(Copies)
  /\ disk.holds["archive"] \in Binaries \cup {"none"}
  /\ \A f \in Copies : disk.holds[f] # "partial" /\ device.holds[f] # "partial"
  /\ call \in Calls
  /\ crashes \in Nat

\* What is there while an app is open.
AppRuns ==
  /\ app # "none" => disk.holds["target"] # "torn"
  /\ call.kind # "none" => app # "none"

\* What the helper may count on at each step.
HelperRuns ==
  /\ helper \in {"none", "remove", "move", "write", "install", "relaunch"}
  /\ helper \in {"remove", "move", "relaunch"} => Whole(disk, "target")
  /\ helper \in {"write", "install"} =>
       /\ disk.holds["target"] = "none" /\ disk.holds["old"] # "torn"
       /\ disk.bare \/ Whole(disk, "old")
  /\ helper # "none" => disk.holds["new"] # "torn"

\* What is left of the program, before a power loss and after it.
CopyLeft == Kept(disk) /\ (crashes < MaxCrashes => Kept(device))

IInv == Types /\ AppRuns /\ HelperRuns /\ CopyLeft

LEMMA InitIInv == Init => IInv
<1> SUFFICES ASSUME Init PROVE IInv
  OBVIOUS
<1>1. disk \in Images(Files) /\ device \in Images(Copies)
  BY Names DEF Init, Images, Committed, Binaries
<1>2. Safe(disk, "target") /\ Safe(device, "target")
  BY Names DEF Init, Safe, Whole, Committed, Binaries
<1>3. CopyLeft
  BY <1>2, Names DEF CopyLeft, Kept
<1>4. /\ disk.holds["archive"] = "none"
      /\ \A f \in Copies : /\ disk.holds[f] # "partial" /\ disk.holds[f] # "torn"
                           /\ device.holds[f] = disk.holds[f]
  BY Names DEF Init, Files, Copies, Binaries, Committed
<1>5. call \in Calls /\ call.kind = "none" /\ helper = "none" /\ crashes = 0
  BY DEF Init, Calls, Idle
<1>6. Types
  BY <1>1, <1>4, <1>5 DEF Types
<1>7. AppRuns /\ HelperRuns
  BY <1>4, <1>5, Names DEF AppRuns, HelperRuns
<1> QED
  BY <1>3, <1>6, <1>7 DEF IInv

\* What depends on nothing but the files, the app, the helper and the call.
LEMMA StutterKeeps ==
  ASSUME IInv, UNCHANGED <<disk, device, helper, crashes>>,
         \/ app' = "none"
         \/ app' = app
         \/ Whole(disk, "target"),
         call'.kind = "none" \/ app' # "none",
         call' \in Calls
  PROVE  IInv'
BY Names DEF IInv, Types, AppRuns, HelperRuns, CopyLeft, Kept, Safe, Whole

LEMMA IdleKeeps ==
  ASSUME IInv, UNCHANGED <<disk, device, helper, crashes>>, call' = Idle,
         app' = "none" \/ app' = app \/ Whole(disk, "target")
  PROVE  IInv'
BY StutterKeeps DEF Calls, Idle

-----------------------------------------------------------------------------

LEMMA PageKeeps == ASSUME IInv, Page PROVE IInv'
<1>1. UNCHANGED <<disk, device, app, helper, crashes>> /\ app # "none"
  BY DEF Page, Check, Download, ShowDownload, Install, CloseDialog, ClearError, Click, world, procs
<1>2. call' \in Calls
  <2>1. \/ call' = call
        \/ \E kind \in {"check", "download", "show", "apply"} :
             call' = [kind |-> kind, quiet |-> FALSE, at |-> "asked"]
    BY Zenon DEF Page, Check, Download, ShowDownload, Install, CloseDialog, ClearError, track
  <2>2. call \in Calls
    BY DEF IInv, Types
  <2>3. \A kind \in {"check", "download", "show", "apply"} :
          [kind |-> kind, quiet |-> FALSE, at |-> "asked"] \in Calls
    BY DEF Calls
  <2> QED
    BY <2>1, <2>2, <2>3, Zenon
<1> QED
  BY <1>1, <1>2, StutterKeeps

\* A step that leaves the copies alone.
LEMMA BesideKeeps ==
  ASSUME IInv, UNCHANGED <<device, app, helper, crashes>>,
         call' \in Calls, call'.kind = "none" \/ app # "none",
         \/ \E bytes \in Binaries : disk' = Write(disk, "archive", bytes)
         \/ disk' = Unlink(disk, "archive")
  PROVE  IInv'
<1>1. disk \in Images(Files) /\ Kept(disk) /\ "archive" \in Files /\ "archive" \notin Copies
  BY DEF IInv, Types, CopyLeft, Files, Copies
<1>2. PICK bytes \in Binaries \cup {"none"} :
        /\ disk' \in Images(Files) /\ Kept(disk')
        /\ disk'.holds = [disk.holds EXCEPT !["archive"] = bytes]
        /\ disk.bare /\ ~Whole(disk, "target") => disk'.bare
  <2>1. ASSUME NEW bytes \in Binaries, disk' = Write(disk, "archive", bytes)
        PROVE  /\ disk' \in Images(Files) /\ Kept(disk')
               /\ disk'.holds = [disk.holds EXCEPT !["archive"] = bytes]
               /\ disk.bare /\ ~Whole(disk, "target") => disk'.bare
    BY <1>1, <2>1, WriteKeeps, Names
  <2>2. ASSUME disk' = Unlink(disk, "archive")
        PROVE  /\ disk' \in Images(Files) /\ Kept(disk')
               /\ disk'.holds = [disk.holds EXCEPT !["archive"] = "none"]
               /\ disk.bare /\ ~Whole(disk, "target") => disk'.bare
    BY <1>1, <2>2, UnlinkKeeps, Names
  <2> QED
    BY <2>1, <2>2
<1>3. /\ \A f \in Copies : disk'.holds[f] = disk.holds[f]
      /\ disk'.holds["archive"] \in Binaries \cup {"none"}
  BY <1>1, <1>2, Names DEF Images
<1>4. Types'
  BY <1>2, <1>3 DEF IInv, Types
<1>5. AppRuns'
  BY <1>3, Names DEF IInv, AppRuns
<1>6. HelperRuns'
  BY <1>2, <1>3, Names DEF IInv, HelperRuns, Whole
<1>7. CopyLeft'
  BY <1>2 DEF IInv, CopyLeft, Kept, Safe, Whole
<1> QED
  BY <1>4, <1>5, <1>6, <1>7 DEF IInv

\* The calls that touch no binary of the installation.
LEMMA CallKeeps ==
  ASSUME IInv, CheckForUpdate \/ FetchArchive \/ VerifyArchive \/ OpenUpdateDownload
  PROVE  IInv'
<1>1. UNCHANGED <<device, app, helper, crashes>> /\ app # "none"
  BY DEF CheckForUpdate, FetchArchive, VerifyArchive, OpenUpdateDownload, IInv, AppRuns, world, procs
<1>2. call' \in Calls
  <2>1. call' = call \/ call' = Idle \/ call' = [call EXCEPT !.at = "fetched"]
    BY DEF CheckForUpdate, FetchArchive, VerifyArchive, OpenUpdateDownload, Failed
  <2>2. call \in Calls
    BY DEF IInv, Types
  <2>3. Idle \in Calls
    BY DEF Calls, Idle
  <2>4. [call EXCEPT !.at = "fetched"] \in Calls
    BY <2>2 DEF Calls
  <2> QED
    BY <2>1, <2>2, <2>3, <2>4, Zenon
<1>3. CASE CheckForUpdate \/ VerifyArchive \/ OpenUpdateDownload
  BY <1>1, <1>2, <1>3, StutterKeeps DEF CheckForUpdate, VerifyArchive, OpenUpdateDownload
<1>4. CASE FetchArchive
  <2>1. disk' = disk \/ \E bytes \in Binaries : disk' = Write(disk, "archive", bytes)
    BY <1>4 DEF FetchArchive, Binaries
  <2>2. CASE disk' = disk
    BY <1>1, <1>2, <2>2, StutterKeeps
  <2>3. CASE \E bytes \in Binaries : disk' = Write(disk, "archive", bytes)
    BY <1>1, <1>2, <2>3, BesideKeeps
  <2> QED
    BY <2>1, <2>2, <2>3
<1> QED
  BY <1>3, <1>4

\* The swap starts with the installed and the staged binary whole.
LEMMA ApplyKeeps == ASSUME IInv, ApplyDownloadedUpdate PROVE IInv'
<1>1. UNCHANGED <<device, crashes>> /\ app # "none" /\ call' = Idle
  BY DEF ApplyDownloadedUpdate, Failed, IInv, AppRuns, world
<1>2. Idle \in Calls /\ Idle.kind = "none"
  BY DEF Calls, Idle
<1>3. disk \in Images(Files) /\ Kept(disk) /\ "new" \in Files
  BY DEF IInv, Types, CopyLeft, Files, Copies
<1>4. CASE UNCHANGED <<disk, app, helper>>
  BY <1>1, <1>2, <1>4, StutterKeeps
<1>5. ASSUME disk.holds["target"] # "none" PROVE Whole(disk, "target")
  BY <1>1, <1>3, <1>5, Names DEF IInv, AppRuns, Types, Images, Contents, Whole
<1>6. CASE /\ UNCHANGED <<app, helper>> /\ disk.holds["target"] # "none"
           /\ disk' = Unlink(disk, "new")
  <2>1. /\ disk' \in Images(Files) /\ Kept(disk')
        /\ disk'.holds = [disk.holds EXCEPT !["new"] = "none"]
    BY <1>3, <1>5, <1>6, UnlinkKeeps
  <2> QED
    BY <1>1, <1>2, <1>3, <1>5, <1>6, <2>1, Names
    DEF IInv, Types, AppRuns, HelperRuns, CopyLeft, Kept, Safe, Whole, Images, Files
<1>7. CASE /\ disk.holds["archive"] # "none" /\ disk.holds["target"] # "none"
           /\ disk' = Write(disk, "new", disk.holds["archive"])
           /\ helper' = "remove" /\ app' = "none"
  <2>1. disk.holds["archive"] \in Binaries
    BY <1>7 DEF IInv, Types
  <2>2. /\ disk' \in Images(Files) /\ Kept(disk')
        /\ disk'.holds = [disk.holds EXCEPT !["new"] = disk.holds["archive"]]
    BY <1>3, <1>5, <1>7, <2>1, WriteKeeps, Names
  <2> QED
    BY <1>1, <1>2, <1>3, <1>5, <1>7, <2>1, <2>2, Names
    DEF IInv, Types, AppRuns, HelperRuns, CopyLeft, Kept, Safe, Whole, Images, Files
<1> QED
  BY <1>4, <1>6, <1>7 DEF ApplyDownloadedUpdate, procs

-----------------------------------------------------------------------------

LEMMA HelperKeeps == ASSUME IInv, Helper PROVE IInv'
<1>1. disk \in Images(Files) /\ Kept(disk) /\ Copies \subseteq Files
  BY Names DEF IInv, Types, CopyLeft
<1>2. CASE RemoveBackup
  <2>1. Whole(disk, "target") /\ UNCHANGED <<device, app, crashes, call>> /\ helper' = "move"
    BY <1>2 DEF RemoveBackup, IInv, HelperRuns, world
  <2>2. CASE disk' = disk
    BY <1>2, <2>1, <2>2, Names
       DEF RemoveBackup, IInv, Types, AppRuns, HelperRuns, CopyLeft, Kept, Safe, Whole
  <2>3. CASE disk' = Unlink(disk, "old")
    <3>1. /\ disk' \in Images(Files) /\ Kept(disk')
          /\ disk'.holds = [disk.holds EXCEPT !["old"] = "none"]
      BY <1>1, <2>1, <2>3, UnlinkKeeps, Names
    <3> QED
      BY <1>1, <1>2, <2>1, <3>1, Names
         DEF RemoveBackup, IInv, Types, AppRuns, HelperRuns, CopyLeft, Kept, Safe, Whole, Images, Files
  <2> QED
    BY <1>2, <2>2, <2>3 DEF RemoveBackup, Removed
<1>3. CASE MoveAside
  <2>1. /\ Whole(disk, "target") /\ disk.holds["target"] # "none"
        /\ UNCHANGED <<device, app, crashes, call>> /\ helper' = "write" /\ helper # "none"
    BY <1>3, Names DEF MoveAside, IInv, HelperRuns, Whole, world
  <2>2. disk' = Rename(disk, "target", "old")
    BY <1>3, <2>1 DEF MoveAside
  <2>3. /\ disk' \in Images(Files) /\ Kept(disk')
        /\ disk'.holds = [disk.holds EXCEPT !["old"] = disk.holds["target"], !["target"] = "none"]
    BY <1>1, <2>1, <2>2, RenameKeeps, Names
  <2> QED
    BY <1>1, <2>1, <2>3, Names
       DEF IInv, Types, AppRuns, HelperRuns, CopyLeft, Kept, Safe, Whole, Images, Files
<1>4. CASE NotReleased
  BY <1>4 DEF NotReleased, IInv, Types, AppRuns, HelperRuns, CopyLeft, Kept, Safe, Whole, world
<1>5. CASE CopyBytes
  <2>1. /\ disk' \in Images(Files) /\ Kept(disk')
        /\ disk'.holds = [disk.holds EXCEPT !["target.tmp"] = "partial"]
        /\ disk.bare /\ ~Whole(disk, "target") => disk'.bare
    BY <1>1, <1>5, WriteKeeps, Names DEF CopyBytes, Files
  <2>2. /\ UNCHANGED <<device, app, crashes, call>> /\ helper = "write" /\ helper' = "install"
    BY <1>5 DEF CopyBytes, world
  <2>3. "target.tmp" \notin Copies /\ disk'.holds["archive"] = disk.holds["archive"]
    BY <1>1, <2>1 DEF Copies, Images, Files
  <2>4. \A f \in Copies : disk'.holds[f] = disk.holds[f]
    BY <1>1, <2>1, <2>3 DEF Images
  <2> QED
    BY <1>1, <2>1, <2>2, <2>3, <2>4, Names
       DEF IInv, Types, AppRuns, HelperRuns, CopyLeft, Kept, Safe, Whole
<1>6. CASE RenameIntoPlace
  <2>1. /\ helper = "install" /\ helper' = "relaunch" /\ UNCHANGED <<device, app, crashes, call>>
        /\ disk.holds["new"] \in Binaries \cup {"none"}
    BY <1>1, <1>6, Names DEF RenameIntoPlace, IInv, HelperRuns, Types, Images, Contents, world
  <2>2. PICK bytes \in Binaries : disk' = Unlink(Write(disk, "target", bytes), "target.tmp")
    BY <1>6, <2>1 DEF RenameIntoPlace, Binaries
  <2>3. ~Whole(disk, "target")
    BY <2>1, Names DEF IInv, HelperRuns, Whole
  <2> DEFINE d == Write(disk, "target", bytes)
  <2>4. d \in Images(Files) /\ Kept(d) /\ d.holds = [disk.holds EXCEPT !["target"] = bytes]
    BY <1>1, <2>3, WriteKeeps, Names
  <2> HIDE DEF d
  <2>5. "target.tmp" \in Files /\ "target.tmp" \notin {"old", "new", "target"}
    BY DEF Files
  <2>6. /\ disk' \in Images(Files) /\ Kept(disk')
        /\ disk'.holds = [d.holds EXCEPT !["target.tmp"] = "none"]
    <3>1. disk' = Unlink(d, "target.tmp")
      BY <2>2 DEF d
    <3> QED
      BY <2>4, <2>5, <3>1, UnlinkKeeps
  <2> QED
    BY <1>1, <2>1, <2>4, <2>6, Names
       DEF IInv, Types, AppRuns, HelperRuns, CopyLeft, Kept, Safe, Whole, Images, Files, Copies
<1>7. CASE RollBack
  <2>1. /\ helper \in {"write", "install"} /\ helper' = "none"
        /\ UNCHANGED <<device, app, crashes, call>>
        /\ ~Whole(disk, "target") /\ disk.holds["old"] # "torn"
    BY <1>7, Names DEF RollBack, IInv, HelperRuns, Whole, world
  <2>2. PICK d \in {disk, Unlink(disk, "target.tmp")} :
          disk' = d \/ disk' = Rename(d, "old", "target")
    BY <1>7 DEF RollBack
  <2>3. /\ d \in Images(Files) /\ Kept(d)
        /\ \A f \in Files \ {"target.tmp"} : d.holds[f] = disk.holds[f]
    <3>1. CASE d = disk
      BY <1>1, <3>1
    <3>2. CASE d = Unlink(disk, "target.tmp")
      <4>1. d \in Images(Files) /\ Kept(d) /\ d.holds = [disk.holds EXCEPT !["target.tmp"] = "none"]
        BY <1>1, <3>2, UnlinkKeeps DEF Files
      <4> QED
        BY <1>1, <4>1 DEF Images
    <3> QED
      BY <3>1, <3>2
  <2>4. CASE disk' = d
    BY <1>1, <2>1, <2>3, <2>4, Names
       DEF IInv, Types, AppRuns, HelperRuns, CopyLeft, Kept, Safe, Whole, Files, Copies
  <2>5. CASE disk' = Rename(d, "old", "target")
    <3>1. ~Whole(d, "target")
      BY <2>1, <2>3, Names DEF Whole, Files, Copies
    <3>2. /\ disk' \in Images(Files) /\ Kept(disk')
          /\ disk'.holds = [d.holds EXCEPT !["target"] = d.holds["old"], !["old"] = "none"]
      BY <2>3, <2>5, <3>1, RenameKeeps, Names
    <3>3. d.holds["old"] = disk.holds["old"] /\ d.holds["archive"] = disk.holds["archive"]
          /\ d.holds["new"] = disk.holds["new"]
      BY <2>3 DEF Files, Copies
    <3>4. /\ disk'.holds["target"] = disk.holds["old"] /\ disk'.holds["old"] = "none"
          /\ disk'.holds["new"] = disk.holds["new"] /\ disk'.holds["archive"] = disk.holds["archive"]
      BY <2>3, <3>2, <3>3, Names DEF Images, Files
    <3> QED
      BY <2>1, <3>2, <3>4, Names
         DEF IInv, Types, AppRuns, HelperRuns, CopyLeft, Kept, Safe, Whole, Copies
  <2> QED
    BY <2>2, <2>4, <2>5
<1>8. CASE Relaunch
  <2>1. /\ Whole(disk, "target") /\ UNCHANGED <<disk, device, crashes>> /\ helper' = "none"
        /\ \/ call' = Idle
           \/ UNCHANGED <<app, call>>
    BY <1>8 DEF Relaunch, StartApp, IInv, HelperRuns, world
  <2>2. call' \in Calls /\ (call'.kind = "none" \/ app' # "none")
    <3>1. CASE call' = Idle
      BY <3>1 DEF Calls, Idle
    <3>2. CASE UNCHANGED <<app, call>>
      BY <3>2 DEF IInv, Types, AppRuns
    <3> QED
      BY <2>1, <3>1, <3>2
  <2>3. disk.holds["target"] # "torn"
    BY <2>1, Names DEF Whole
  <2>4. Types'
    BY <2>1, <2>2 DEF IInv, Types
  <2>5. AppRuns' /\ HelperRuns'
    BY <2>1, <2>2, <2>3, Names DEF AppRuns, HelperRuns
  <2>6. CopyLeft'
    BY <2>1 DEF IInv, CopyLeft, Kept, Safe, Whole
  <2> QED
    BY <2>4, <2>5, <2>6 DEF IInv
<1> QED
  BY <1>2, <1>3, <1>4, <1>5, <1>6, <1>7, <1>8 DEF Helper

\* An app that is started removes what a swap left; where it takes the backup of a
\* swap that is on its way, the installation is bare.
LEMMA CleanUpKeeps == ASSUME IInv, CleanUp PROVE IInv'
<1>1. UNCHANGED <<device, app, helper, crashes>> /\ app # "none"
  BY DEF CleanUp, world
<1>2. call' \in Calls
  BY DEF CleanUp, Calls
<1>3. disk \in Images(Files) /\ Kept(disk) /\ disk.bare \in BOOLEAN /\ "old" \in Files /\ "new" \in Files
  BY DEF IInv, Types, CopyLeft, Images, Files, Copies
<1> DEFINE e == Removed(disk, "old")
           d == Removed(e, "new")
<1>4. disk' = [d EXCEPT !.bare = @ \/ (d.holds # disk.holds /\ ~Whole(disk, "target"))]
  BY DEF CleanUp, cleanupAfterUpdate
<1>5. /\ e = disk \/ e = Unlink(disk, "old")
      /\ d = e \/ d = Unlink(e, "new")
  BY DEF Removed
<1> HIDE DEF e, d
<1>6. CASE Whole(disk, "target")
  <2>1. /\ e \in Images(Files) /\ Kept(e)
        /\ e.holds = disk.holds \/ e.holds = [disk.holds EXCEPT !["old"] = "none"]
    BY <1>3, <1>5, <1>6, UnlinkKeeps, Names
  <2>2. e.holds["target"] = disk.holds["target"]
    BY <1>3, <2>1, Names DEF Images
  <2>3. Whole(e, "target")
    BY <1>6, <2>2 DEF Whole
  <2>4. /\ d \in Images(Files) /\ Kept(d)
        /\ d.holds = e.holds \/ d.holds = [e.holds EXCEPT !["new"] = "none"]
    BY <1>3, <1>5, <2>1, <2>3, UnlinkKeeps, Names
  <2>5. disk' = d
    BY <1>4, <1>6, <2>4 DEF Images
  <2>6. /\ disk'.holds["target"] = disk.holds["target"]
        /\ disk'.holds["archive"] = disk.holds["archive"]
        /\ \A f \in {"old", "new"} : disk'.holds[f] = disk.holds[f] \/ disk'.holds[f] = "none"
    BY <1>3, <2>1, <2>4, <2>5, Names DEF Images, Files
  <2> QED
    BY <1>1, <1>2, <1>6, <2>4, <2>5, <2>6, Names
       DEF IInv, Types, AppRuns, HelperRuns, CopyLeft, Kept, Safe, Whole, Copies
<1>7. CASE ~Whole(disk, "target")
  <2>1. /\ e.holds = disk.holds \/ e.holds = [disk.holds EXCEPT !["old"] = "none"]
        /\ e.unsynced = disk.unsynced \/ e.unsynced = disk.unsynced \ {"old"}
        /\ e.bare \in BOOLEAN
        /\ e = [holds |-> e.holds, unsynced |-> e.unsynced, bare |-> e.bare]
        /\ disk.bare => e.bare \/ Safe(e, "target")
    <3>1. CASE e = disk
      BY <1>3, <3>1 DEF Images
    <3>2. CASE e = Unlink(disk, "old")
      <4>1. e = Changed(disk, [disk.holds EXCEPT !["old"] = "none"], disk.unsynced \ {"old"},
                        Spared(disk, "old"))
        BY <3>2 DEF Unlink
      <4>2. Spared(disk, "old") \in BOOLEAN
        BY DEF Spared
      <4> QED
        BY <1>3, <4>1, <4>2, ChangedFields
    <3> QED
      BY <1>5, <3>1, <3>2
  <2>2. /\ d.holds = e.holds \/ d.holds = [e.holds EXCEPT !["new"] = "none"]
        /\ d.unsynced = e.unsynced \/ d.unsynced = e.unsynced \ {"new"}
        /\ d.bare \in BOOLEAN
        /\ d = [holds |-> d.holds, unsynced |-> d.unsynced, bare |-> d.bare]
        /\ e.bare => d.bare \/ Safe(d, "target")
    <3>1. CASE d = e
      BY <2>1, <3>1
    <3>2. CASE d = Unlink(e, "new")
      <4>1. d = Changed(e, [e.holds EXCEPT !["new"] = "none"], e.unsynced \ {"new"}, Spared(e, "new"))
        BY <3>2 DEF Unlink
      <4>2. Spared(e, "new") \in BOOLEAN
        BY DEF Spared
      <4> QED
        BY <2>1, <4>1, <4>2, ChangedFields
    <3> QED
      BY <1>5, <3>1, <3>2
  <2> DEFINE taken == d.holds # disk.holds
  <2>3. /\ disk'.holds = d.holds /\ disk'.unsynced = d.unsynced /\ disk'.bare = (d.bare \/ taken)
        /\ disk' = [holds |-> disk'.holds, unsynced |-> disk'.unsynced, bare |-> disk'.bare]
    BY <1>4, <1>7, <2>2
  <2>4. /\ disk'.holds["target"] = disk.holds["target"]
        /\ e.holds["target"] = disk.holds["target"] /\ d.holds["target"] = disk.holds["target"]
        /\ disk'.holds["archive"] = disk.holds["archive"]
        /\ \A f \in {"old", "new"} : disk'.holds[f] = disk.holds[f] \/ disk'.holds[f] = "none"
    BY <1>3, <2>1, <2>2, <2>3, Names DEF Images, Files
  <2>5. disk' \in Images(Files)
    <3>1. d.holds \in [Files -> Contents] /\ d.unsynced \subseteq Copies
      BY <1>3, <2>1, <2>2, Names DEF Images
    <3>2. disk'.bare \in BOOLEAN
      BY <2>2, <2>3
    <3> QED
      BY <2>3, <3>1, <3>2 DEF Images
  <2>6. disk.bare => disk'.bare
    <3>1. ~Safe(e, "target") /\ ~Safe(d, "target")
      BY <1>7, <2>4 DEF Safe, Whole
    <3> QED
      BY <2>1, <2>2, <2>3, <3>1, Zenon
  <2>7. d.holds # disk.holds => disk'.bare
    BY <2>3, Zenon
  <2>8. Kept(disk')
    <3>1. CASE d.holds # disk.holds \/ disk.bare
      BY <2>6, <2>7, <3>1 DEF Kept
    <3>2. CASE d.holds = disk.holds /\ ~disk.bare
      <4>1. PICK f \in Copies : Safe(disk, f)
        BY <1>3, <3>2 DEF Kept
      <4>2. Safe(disk', f)
        BY <2>1, <2>2, <2>3, <3>2, <4>1 DEF Safe, Whole
      <4> QED
        BY <4>2 DEF Kept
    <3> QED
      BY <3>1, <3>2
  <2>9. disk'.holds["old"] = disk.holds["old"] \/ disk'.bare
    BY <2>3, <2>7
  <2> QED
    BY <1>1, <1>2, <1>7, <2>4, <2>5, <2>6, <2>8, <2>9, Names
       DEF IInv, Types, AppRuns, HelperRuns, CopyLeft, Kept, Safe, Whole, Copies
<1> QED
  BY <1>6, <1>7

\* The user and the other processes.
LEMMA OutsideKeeps ==
  ASSUME IInv, Exited \/ UserStarts \/ UserCloses \/ OtherCloses \/ ArchiveLost
  PROVE  IInv'
<1>1. CASE Exited \/ OtherCloses
  BY <1>1, StutterKeeps DEF Exited, OtherCloses, world, IInv, Types, AppRuns
<1>2. CASE UserStarts
  <2>1. UNCHANGED <<disk, device, helper, crashes>> /\ call' = Idle /\ Whole(disk, "target")
    BY <1>2 DEF UserStarts, StartApp, world
  <2> QED
    BY <2>1, IdleKeeps
<1>3. CASE UserCloses
  <2>1. UNCHANGED <<disk, device, helper, crashes>> /\ call' = Idle /\ app' = "none"
    BY <1>3 DEF UserCloses, world
  <2> QED
    BY <2>1, IdleKeeps
<1>4. CASE ArchiveLost
  <2>1. /\ UNCHANGED <<device, app, helper, crashes, call>> /\ disk' = Unlink(disk, "archive")
        /\ call.kind = "none" /\ call \in Calls
    BY <1>4 DEF ArchiveLost, world, procs, Idle, IInv, Types
  <2> QED
    BY <2>1, BesideKeeps
<1> QED
  BY <1>1, <1>2, <1>3, <1>4

\* A repair touches nothing while a copy is whole but the name it belongs under.
LEMMA RepairKeeps == ASSUME IInv, Repair PROVE IInv'
<1>1. /\ UNCHANGED <<device, app, helper, crashes, call>> /\ app = "none" /\ helper = "none"
      /\ ~Whole(disk, "target")
  BY DEF Repair, world, procs
<1>2. disk \in Images(Files) /\ Kept(disk) /\ Copies \subseteq Files
  BY Names DEF IInv, Types, CopyLeft
<1>3. PICK f \in Copies :
        \/ f \in {"old", "new"} /\ Whole(disk, f) /\ disk' = Rename(disk, f, "target")
        \/ disk' = Write(disk, "target", Installed)
  BY Names DEF Repair
<1>4. CASE f \in {"old", "new"} /\ Whole(disk, f) /\ disk' = Rename(disk, f, "target")
  <2>1. f # "target"
    BY <1>4
  <2>2. /\ disk' \in Images(Files) /\ Kept(disk')
        /\ disk'.holds = [disk.holds EXCEPT !["target"] = disk.holds[f], ![f] = "none"]
    BY <1>1, <1>2, <1>4, <2>1, RenameKeeps, Names
  <2>3. disk'.holds["archive"] = disk.holds["archive"]
    BY <1>2, <2>2 DEF Copies, Images, Files
  <2>4. \A g \in Copies : disk'.holds[g] # "partial"
    BY <1>2, <2>2, <2>3, Names DEF IInv, Types, Images
  <2> QED
    BY <1>1, <2>2, <2>3, <2>4, Names
       DEF IInv, Types, AppRuns, HelperRuns, CopyLeft, Kept, Safe, Whole
<1>5. CASE disk' = Write(disk, "target", Installed)
  <2>1. Installed \in Binaries
    BY DEF Binaries
  <2>2. /\ disk' \in Images(Files) /\ Kept(disk')
        /\ disk'.holds = [disk.holds EXCEPT !["target"] = Installed]
    BY <1>1, <1>2, <1>5, <2>1, WriteKeeps, Names
  <2>3. disk'.holds["archive"] = disk.holds["archive"]
    BY <1>2, <2>2 DEF Copies, Images, Files
  <2>4. \A g \in Copies : disk'.holds[g] # "partial"
    BY <1>2, <2>1, <2>2, <2>3, Names DEF IInv, Types, Images
  <2> QED
    BY <1>1, <2>2, <2>3, <2>4, Names
       DEF IInv, Types, AppRuns, HelperRuns, CopyLeft, Kept, Safe, Whole
<1> QED
  BY <1>3, <1>4, <1>5

\* What is committed is what the programs see; a copy that was on the device is
\* found whole after a power loss.
LEMMA DeviceKeeps == ASSUME IInv, Device PROVE IInv'
<1>1. /\ disk \in Images(Files) /\ Kept(disk) /\ disk.bare \in BOOLEAN /\ Copies \subseteq Files
      /\ device \in Images(Copies)
  BY Names DEF IInv, Types, CopyLeft, Images
<1>2. \A d \in Images(Files) : /\ Committed(d) \in Images(Copies)
                               /\ \A f \in Copies : Committed(d).holds[f] = d.holds[f]
                               /\ Kept(d) => Kept(Committed(d))
  <2> SUFFICES ASSUME NEW d \in Images(Files)
               PROVE  /\ Committed(d) \in Images(Copies)
                      /\ \A f \in Copies : Committed(d).holds[f] = d.holds[f]
                      /\ Kept(d) => Kept(Committed(d))
    OBVIOUS
  <2>1. /\ Committed(d).unsynced = d.unsynced /\ Committed(d).bare = d.bare
        /\ Committed(d).holds = [f \in Copies |-> d.holds[f]]
    BY DEF Committed, Images
  <2>2. \A f \in Copies : d.holds[f] \in Contents
    BY <1>1 DEF Images
  <2>3. Committed(d) \in Images(Copies)
    BY <2>1, <2>2 DEF Committed, Images
  <2> QED
    BY <2>1, <2>3 DEF Kept, Safe, Whole
<1>3. CASE Commit
  <2>1. UNCHANGED <<disk, app, helper, crashes, call>> /\ device' = Committed(disk)
    BY <1>3 DEF Commit, procs
  <2>2. Types'
    BY <1>1, <1>2, <2>1 DEF IInv, Types
  <2>3. AppRuns' /\ HelperRuns'
    BY <2>1 DEF IInv, AppRuns, HelperRuns, Whole
  <2>4. CopyLeft'
    <3>1. Kept(disk') /\ Kept(device')
      BY <1>1, <1>2, <2>1
    <3> QED
      BY <3>1 DEF CopyLeft, Kept, Safe, Whole
  <2> QED
    BY <2>2, <2>3, <2>4 DEF IInv
<1>4. CASE \E f \in Copies : Flush(f)
  <2> DEFINE spared == FALSE
  <2>1. PICK f \in Copies : disk' = Changed(disk, disk.holds, disk.unsynced \ {f}, spared)
    BY <1>4 DEF Flush
  <2>0. spared \in BOOLEAN
    OBVIOUS
  <2> HIDE DEF spared
  <2>2. UNCHANGED <<device, app, helper, crashes, call>>
    BY <1>4 DEF Flush, world, procs
  <2>3. /\ disk'.holds = disk.holds /\ disk'.unsynced = disk.unsynced \ {f} /\ disk'.bare \in BOOLEAN
        /\ disk' = [holds |-> disk.holds, unsynced |-> disk.unsynced \ {f}, bare |-> disk'.bare]
        /\ ~disk'.bare => Safe(disk', "target") \/ ~disk.bare
        /\ disk.bare => Safe(disk', "target") \/ disk'.bare
    BY <1>1, <2>0, <2>1, ChangedFields
  <2>4. disk' \in Images(Files)
    BY <1>1, <2>3 DEF Images
  <2>5. Kept(disk')
    BY <1>1, <2>3, Names DEF Kept, Safe, Whole
  <2> QED
    BY <2>2, <2>3, <2>4, <2>5, Names
       DEF IInv, Types, AppRuns, HelperRuns, CopyLeft, Kept, Safe, Whole
<1>5. CASE PowerLoss
  <2>1. PICK torn \in SUBSET {f \in device.unsynced : device.holds[f] # "none"} :
          disk' = [holds |-> [f \in Files |-> IF f \notin Copies THEN "none"
                                             ELSE IF f \in torn THEN "torn" ELSE device.holds[f]],
                   unsynced |-> {},
                   bare |-> device.bare /\
                            [f \in Files |-> IF f \notin Copies THEN "none"
                                             ELSE IF f \in torn THEN "torn" ELSE device.holds[f]]
                              ["target"] \notin Binaries]
    BY <1>5 DEF PowerLoss
  <2> DEFINE found == [f \in Files |-> IF f \notin Copies THEN "none"
                                      ELSE IF f \in torn THEN "torn" ELSE device.holds[f]]
             lost == found["target"] \notin Binaries
  <2>2. /\ device' = IF crashes' < MaxCrashes THEN Committed(disk') ELSE Forgotten
        /\ crashes < MaxCrashes /\ crashes' = crashes + 1
        /\ app' = "none" /\ helper' = "none" /\ call' = Idle
    BY <1>5 DEF PowerLoss
  <2>3. /\ disk'.holds = found /\ disk'.unsynced = {} /\ disk'.bare = (device.bare /\ lost)
        /\ disk' = [holds |-> found, unsynced |-> {}, bare |-> disk'.bare]
    BY <2>1
  <2>4. found \in [Files -> Contents] /\ found["archive"] = "none" /\ \A f \in Copies :
          found[f] = IF f \in torn THEN "torn" ELSE device.holds[f]
    BY <1>1, Names DEF Images, Files, Copies
  <2>5. device.bare \in BOOLEAN /\ lost \in BOOLEAN
    BY <1>1 DEF Images
  <2>6. Safe(disk', "target") \/ lost
    BY <2>3 DEF Safe, Whole
  <2> HIDE DEF found, lost
  <2>7. disk'.bare \in BOOLEAN /\ (device.bare /\ lost => disk'.bare)
    BY <2>3, <2>5
  <2>8. disk' \in Images(Files)
    BY <2>3, <2>4, <2>7 DEF Images
  <2>9. Kept(disk')
    <3>1. CASE device.bare
      BY <2>6, <2>7, <3>1, Names DEF Kept
    <3>2. CASE ~device.bare
      <4>1. PICK f \in Copies : Safe(device, f)
        BY <2>2, <3>2 DEF IInv, CopyLeft, Kept
      <4>2. f \notin torn
        BY <2>1, <4>1 DEF Safe
      <4>3. Safe(disk', f)
        BY <2>3, <2>4, <4>1, <4>2 DEF Safe, Whole
      <4> QED
        BY <4>3 DEF Kept
    <3> QED
      BY <3>1, <3>2
  <2>10. Committed(disk') \in Images(Copies) /\ Kept(Committed(disk')) /\ Forgotten \in Images(Copies)
    BY <1>2, <2>8, <2>9, Names DEF Forgotten, Images
  <2>11. \A f \in Copies : disk'.holds[f] # "partial"
    <3>1. \A f \in Copies : device.holds[f] # "partial"
      BY DEF IInv, Types
    <3> QED
      BY <2>3, <2>4, <3>1, Names
  <2>12. disk'.holds["archive"] = "none" /\ crashes' \in Nat
    BY <2>2, <2>3, <2>4 DEF IInv, Types
  <2>13. call' \in Calls /\ call'.kind = "none"
    BY <2>2 DEF Calls, Idle
  <2>14. CASE crashes' < MaxCrashes
    <3>1. \A f \in Copies : device'.holds[f] # "partial"
      BY <1>2, <2>2, <2>8, <2>11, <2>14
    <3>2. Types'
      BY <2>2, <2>8, <2>10, <2>11, <2>12, <2>13, <2>14, <3>1 DEF Types
    <3>3. Kept(disk') /\ Kept(device')
      BY <2>2, <2>9, <2>10, <2>14
    <3>4. CopyLeft'
      BY <3>3 DEF CopyLeft, Kept, Safe, Whole
    <3> QED
      BY <2>2, <2>13, <3>2, <3>4, Names DEF IInv, AppRuns, HelperRuns
  <2>15. CASE ~(crashes' < MaxCrashes)
    <3>1. \A f \in Copies : device'.holds[f] # "partial"
      BY <2>2, <2>15 DEF Forgotten
    <3>2. Types'
      BY <2>2, <2>8, <2>10, <2>11, <2>12, <2>13, <2>15, <3>1 DEF Types
    <3>3. CopyLeft'
      BY <2>9, <2>15 DEF CopyLeft, Kept, Safe, Whole
    <3> QED
      BY <2>2, <2>13, <3>2, <3>3, Names DEF IInv, AppRuns, HelperRuns
  <2> QED
    BY <2>14, <2>15
<1> QED
  BY <1>3, <1>4, <1>5 DEF Device

\* The inductive invariant.
THEOREM Invariance == Spec => []IInv
<1>1. IInv /\ [Next]_vars => IInv'
  <2> SUFFICES ASSUME IInv, [Next]_vars PROVE IInv'
    OBVIOUS
  <2>1. CASE UNCHANGED vars
    <3>1. UNCHANGED <<disk, device, app, helper, call, crashes>>
      BY <2>1 DEF vars, world, procs
    <3> QED
      BY <3>1 DEF IInv, Types, AppRuns, HelperRuns, CopyLeft, Kept, Safe, Whole
  <2>2. CASE Page \/ App \/ Helper
    BY <2>2, PageKeeps, CallKeeps, ApplyKeeps, HelperKeeps DEF App
  <2>3. CASE CleanUp \/ Device \/ Repair
    BY <2>3, CleanUpKeeps, DeviceKeeps, RepairKeeps
  <2> QED
    BY <2>1, <2>2, <2>3, OutsideKeeps DEF Next
<1> QED
  BY <1>1, InitIInv, PTL DEF Spec

\* The installation is never left without a whole program (update_finalize.go),
\* whichever step is the last before a power loss.
THEOREM WholeOrRecoverable == Spec => []NeverEmpty
<1>1. IInv => NeverEmpty
  BY Names DEF IInv, Types, CopyLeft, Kept, Safe, NeverEmpty
<1> QED
  BY <1>1, Invariance, PTL

\* A helper that gives up by itself leaves a whole program in place or as the
\* backup (update_finalize.go: finalizeUpdate).
THEOREM GivingUpKeepsACopy == Spec => FailedSwapKeepsACopy
<1>1. IInv /\ IInv' /\ [Next]_vars =>
        [helper # "none" /\ helper' = "none" /\ crashes' = crashes
         => disk'.bare \/ Whole(disk', "target") \/ Whole(disk', "old")]_vars
  <2> SUFFICES ASSUME IInv, IInv', Next, helper # "none", helper' = "none", crashes' = crashes
               PROVE  disk'.bare \/ Whole(disk', "target") \/ Whole(disk', "old")
    OBVIOUS
  <2>1. NotReleased \/ RollBack \/ Relaunch
    <3>1. ~Page
      BY DEF Page, Check, Download, ShowDownload, Install, CloseDialog, ClearError, procs
    <3>2. ~App
      BY DEF App, CheckForUpdate, FetchArchive, VerifyArchive, OpenUpdateDownload,
             ApplyDownloadedUpdate, OneSwap, procs
    <3>3. ~(RemoveBackup \/ MoveAside \/ CopyBytes \/ RenameIntoPlace)
      BY DEF RemoveBackup, MoveAside, CopyBytes, RenameIntoPlace
    <3>4. ~(Exited \/ CleanUp \/ UserStarts \/ UserCloses \/ OtherCloses \/ ArchiveLost \/ Repair)
      BY DEF Exited, CleanUp, UserStarts, UserCloses, OtherCloses, ArchiveLost, Repair, procs
    <3>5. ~Device
      <4>1. ~Commit /\ ~\E f \in Copies : Flush(f)
        BY DEF Commit, Flush, procs
      <4>2. ~PowerLoss
        BY DEF PowerLoss, IInv, Types
      <4> QED
        BY <4>1, <4>2 DEF Device
    <3> QED
      BY <3>1, <3>2, <3>3, <3>4, <3>5 DEF Next, Helper
  <2>2. CASE NotReleased
    BY <2>2 DEF NotReleased, IInv, HelperRuns, Whole
  <2>3. CASE RollBack
    <3>1. /\ disk.holds["target"] = "none"
          /\ disk.bare \/ Whole(disk, "old")
          /\ disk \in Images(Files) /\ Kept(disk)
      BY <2>3 DEF RollBack, IInv, HelperRuns, CopyLeft, Types
    <3>2. PICK d \in {disk, Unlink(disk, "target.tmp")} :
            disk' = d \/ (disk.holds["old"] # "none" /\ disk' = Rename(d, "old", "target"))
      BY <2>3 DEF RollBack
    <3>3. d \in Images(Files) /\ (disk.bare => d.bare) /\ \A f \in Copies : d.holds[f] = disk.holds[f]
      <4>1. CASE d = disk
        BY <4>1, <3>1
      <4>2. CASE d = Unlink(disk, "target.tmp")
        <5>1. /\ d \in Images(Files) /\ d.holds = [disk.holds EXCEPT !["target.tmp"] = "none"]
              /\ disk.bare /\ ~Whole(disk, "target") => d.bare
          BY <3>1, <4>2, UnlinkKeeps DEF Files
        <5>2. \A f \in Copies : d.holds[f] = disk.holds[f]
          BY <3>1, <5>1, Names DEF Images, Copies
        <5> QED
          BY <3>1, <5>1, <5>2, Names DEF Whole
      <4> QED
        BY <3>2, <4>1, <4>2
    <3>4. CASE disk' = d
      BY <3>1, <3>3, <3>4, Names DEF Whole
    <3>5. CASE disk' = Rename(d, "old", "target")
      <4>1. disk' = Changed(d, [d.holds EXCEPT !["target"] = d.holds["old"], !["old"] = "none"],
                            (d.unsynced \ {"old", "target"}) \cup
                              {n \in {"target"} : "old" \in d.unsynced}, Spared(d, "target"))
        BY <3>5 DEF Rename
      <4>2. /\ disk'.holds = [d.holds EXCEPT !["target"] = d.holds["old"], !["old"] = "none"]
            /\ d.bare => Safe(disk', "target") \/ disk'.bare
        <5>1. d.bare \in BOOLEAN /\ Spared(d, "target") \in BOOLEAN
          BY <3>3 DEF Images, Spared
        <5> QED
          BY <4>1, <5>1, ChangedFields
      <4>3. disk'.holds["target"] = disk.holds["old"]
        BY <3>3, <4>2, Names DEF Images, Copies
      <4> QED
        BY <3>1, <3>3, <4>2, <4>3 DEF Safe, Whole
    <3> QED
      BY <3>2, <3>4, <3>5
  <2>4. CASE Relaunch
    BY <2>4 DEF Relaunch, IInv, HelperRuns, Whole
  <2> QED
    BY <2>1, <2>2, <2>3, <2>4
<1> QED
  BY <1>1, Invariance, PTL DEF Spec, FailedSwapKeepsACopy
=============================================================================
