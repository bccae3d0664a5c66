--------------------------- MODULE TaskListProofs ---------------------------
(***************************************************************************)
(* What the kernel's lists and the operators on its data do: sorted lists, *)
(* the rings of the ready lists, the ready and delayed lists after each of *)
(* the kernel's macros and calls, and the tick.  Nothing here speaks of a  *)
(* step of the system; TaskSchedulerProofs builds on it.                   *)
(***************************************************************************)
EXTENDS TaskScheduler, SequenceTheorems, FiniteSetTheorems, TLAPS

(* Lists. *)

(* A set of natural numbers that is not empty has a least element: the   *)
(* ground of every induction below, as the least counterexample.         *)
LEMMA NatMin ==
  ASSUME NEW T, T \subseteq Nat, T # {}
  PROVE \E x \in T : \A y \in T : x <= y
<1> DEFINE R == OpToRel(<, Nat)
<1>1. \A x, y \in Nat : x < y => <<x, y>> \in R
  BY DEF OpToRel
<1>2. IsWellFoundedOn(R, Nat)
  BY NatLessThanWellFounded
<1> HIDE DEF R
<1>3. PICK x \in T : \A y \in T : ~ (<<y, x>> \in R)
  BY <1>2, WFMin
<1>4. ASSUME NEW y \in T PROVE x <= y
  <2>1. ~(y < x)
    BY <1>1, <1>3
  <2> QED
    BY <2>1
<1> QED
  BY <1>4

(* Induction up to n, for the members of a set. *)
LEMMA SetInduction ==
  ASSUME NEW n \in Nat, NEW T, 0 \in T, \A i \in 1 .. n : i-1 \in T => i \in T
  PROVE  \A i \in 0 .. n : i \in T
<1> DEFINE B == {i \in 0..n : i \notin T}
<1>1. SUFFICES B = {}
  OBVIOUS
<1>2. SUFFICES ASSUME B # {} PROVE FALSE
  OBVIOUS
<1>3. B \subseteq Nat
  OBVIOUS
<1>4. PICK x \in B : \A y \in B : x <= y
  BY <1>2, <1>3, NatMin
<1>5. x \in 1 .. n /\ x - 1 \notin B
  BY <1>4
<1> QED
  BY <1>4, <1>5

(* A recursive function that goes through n steps. *)
Steps(step, n, K) == step \in [1 .. n -> [K -> K]]
Iterates(f, step, x, n, K) ==
    f \in [0 .. n -> K] /\ f[0] = x /\ \A i \in 1 .. n : f[i] = step[i][f[i-1]]

(* Such a function exists, whatever its steps. *)
LEMMA Iteration ==
  ASSUME NEW n \in Nat, NEW K, NEW x, x \in K, NEW step, Steps(step, n, K)
  PROVE  \E f : Iterates(f, step, x, n, K)
<1> DEFINE T == {m \in 0 .. n : \E f : Iterates(f, step, x, m, K)}
<1>1. 0 \in T
  <2>1. Iterates([i \in 0 .. 0 |-> x], step, x, 0, K)
    BY DEF Iterates
  <2> QED
    BY <2>1
<1>2. ASSUME NEW m \in 1 .. n, m-1 \in T PROVE m \in T
  <2>1. PICK f : Iterates(f, step, x, m-1, K)
    BY <1>2
  <2>2. f \in [0 .. m-1 -> K] /\ f[0] = x /\ \A i \in 1 .. m-1 : f[i] = step[i][f[i-1]]
    BY <2>1 DEF Iterates
  <2>3. step[m] \in [K -> K]
    BY DEF Steps
  <2> DEFINE g == [i \in 0 .. m |-> IF i = m THEN step[m][f[m-1]] ELSE f[i]]
  <2>4. g \in [0 .. m -> K]
    BY <2>2, <2>3
  <2>5. g[0] = x
    BY <2>2
  <2>6. ASSUME NEW i \in 1 .. m PROVE g[i] = step[i][g[i-1]]
    <3>1. CASE i = m
      BY <3>1
    <3>2. CASE i # m
      BY <2>2, <3>2
    <3> QED
      BY <3>1, <3>2
  <2> HIDE DEF g
  <2>7. Iterates(g, step, x, m, K)
    BY <2>4, <2>5, <2>6 DEF Iterates
  <2> QED
    BY <2>7
<1> HIDE DEF T
<1>3. \A m \in 0 .. n : m \in T
  BY <1>1, <1>2, SetInduction
<1>4. n \in T
  BY <1>3
<1> QED
  BY <1>4 DEF T

(* The recursive function of ListRemove, and its defining equation. *)
Kept(N, list, items) ==
  CHOOSE kept : kept = [n \in 0 .. N |->
      IF n = 0 THEN << >>
      ELSE IF list[n] \in items THEN kept[n - 1] ELSE Append(kept[n - 1], list[n])]

IsKept(F, N, list, items) ==
  F = [n \in 0 .. N |->
         IF n = 0 THEN << >>
         ELSE IF list[n] \in items THEN F[n - 1] ELSE Append(F[n - 1], list[n])]

(* A function satisfies the equation of ListRemove. *)
LEMMA KeptExists ==
  ASSUME NEW N \in Nat, NEW S, NEW list \in [1 .. N -> S], NEW items
  PROVE  IsKept(Kept(N, list, items), N, list, items)
<1> DEFINE step == [n \in 1 .. N |-> [s \in Seq(S) |-> IF list[n] \in items THEN s ELSE Append(s, list[n])]]
<1>1. \A n \in 1 .. N, s \in Seq(S) : Append(s, list[n]) \in Seq(S)
  BY AppendProperties
<1>2. Steps(step, N, Seq(S))
  BY <1>1 DEF Steps
<1>3. \A n \in 1 .. N, s \in Seq(S) : step[n][s] = IF list[n] \in items THEN s ELSE Append(s, list[n])
  OBVIOUS
<1>4. << >> \in Seq(S)
  BY EmptySeq
<1> HIDE DEF step
<1>5. PICK f : Iterates(f, step, << >>, N, Seq(S))
  BY <1>2, <1>4, Iteration
<1>6. f \in [0 .. N -> Seq(S)] /\ f[0] = << >> /\ \A i \in 1 .. N : f[i] = step[i][f[i-1]]
  BY <1>5 DEF Iterates
<1>7. ASSUME NEW n \in 0 .. N
      PROVE f[n] = IF n = 0 THEN << >>
                ELSE IF list[n] \in items THEN f[n - 1] ELSE Append(f[n - 1], list[n])
  <2>1. CASE n = 0
    BY <1>6, <2>1
  <2>2. CASE n # 0
    <3>1. n \in 1 .. N /\ f[n-1] \in Seq(S)
      BY <1>6, <2>2
    <3> QED
      BY <1>3, <1>6, <2>2, <3>1
  <2> QED
    BY <2>1, <2>2
<1>8. f = [n \in 0 .. N |->
                IF n = 0 THEN << >>
                ELSE IF list[n] \in items THEN f[n - 1] ELSE Append(f[n - 1], list[n])]
  BY <1>6, <1>7
<1> QED
  BY <1>8 DEF Kept, IsKept

(* The sequences ListRemove goes through, one item of the list after the *)
(* other.                                                                *)
LEMMA KeptIs ==
  ASSUME NEW N \in Nat, NEW S, NEW list \in [1 .. N -> S], NEW items
  PROVE  \E F : /\ F = Kept(N, list, items)
                /\ F \in [0 .. N -> Seq(S)]
                /\ F[0] = << >>
                /\ \A n \in 1 .. N : F[n] = IF list[n] \in items THEN F[n-1] ELSE Append(F[n-1], list[n])
<1>1. IsKept(Kept(N, list, items), N, list, items)
  BY KeptExists
<1>2. PICK F : F = Kept(N, list, items)
  OBVIOUS
<1>3. F = [n \in 0 .. N |->
                IF n = 0 THEN << >>
                ELSE IF list[n] \in items THEN F[n - 1] ELSE Append(F[n - 1], list[n])]
  BY <1>1, <1>2 DEF IsKept
<1>4. \A n \in 0 .. N : F[n] = IF n = 0 THEN << >>
                ELSE IF list[n] \in items THEN F[n - 1] ELSE Append(F[n - 1], list[n])
  BY <1>3
<1>5. F[0] = << >>
  BY <1>4
<1>6. ASSUME NEW n \in 1 .. N
      PROVE  F[n] = IF list[n] \in items THEN F[n-1] ELSE Append(F[n-1], list[n])
  BY <1>4
<1>7. ASSUME NEW n \in 1 .. N, F[n-1] \in Seq(S) PROVE F[n] \in Seq(S)
  <2>1. Append(F[n-1], list[n]) \in Seq(S)
    BY <1>7, AppendProperties
  <2> QED
    BY <1>6, <1>7, <2>1
<1>8. \A n \in 0 .. N : F[n] \in Seq(S)
  <2> DEFINE T == {n \in 0 .. N : F[n] \in Seq(S)}
  <2>0. << >> \in Seq(S)
    BY EmptySeq
  <2>1. 0 \in T
    <3>1. F[0] \in Seq(S)
      BY <1>5, <2>0, Zenon
    <3> QED
      BY <3>1
  <2>2. \A n \in 1 .. N : n-1 \in T => n \in T
    BY <1>7
  <2> HIDE DEF T
  <2>3. \A n \in 0 .. N : n \in T
    BY <2>1, <2>2, SetInduction
  <2> QED
    BY <2>3 DEF T
<1>9. F \in [0 .. N -> Seq(S)]
  BY <1>3, <1>8
<1> QED
  BY <1>2, <1>5, <1>6, <1>9

(* e gives the places in the list of what ListRemove has kept, in their  *)
(* order.                                                                *)
Picks(e, r, list, n, items) ==
    /\ e \in [1 .. Len(r) -> 1 .. n]
    /\ \A i, j \in 1 .. Len(r) : i < j => e[i] < e[j]
    /\ \A i \in 1 .. Len(r) : r[i] = list[e[i]] /\ list[e[i]] \notin items
    /\ \A j \in 1 .. n : list[j] \notin items => \E i \in 1 .. Len(r) : e[i] = j

(* uxListRemove keeps the other items, each once, in their order. *)
LEMMA ListRemovePicks ==
  ASSUME NEW S, NEW list \in Seq(S), NEW items
  PROVE  /\ ListRemove(list, items) \in Seq(S)
         /\ \E e : Picks(e, ListRemove(list, items), list, Len(list), items)
<1> DEFINE N == Len(list)
<1>1. N \in Nat /\ list \in [1 .. N -> S] /\ \A i \in 1 .. N : list[i] \in S
  BY LenProperties
<1>2. ListRemove(list, items) = Kept(N, list, items)[N]
  BY DEF ListRemove, Kept
<1> HIDE DEF N
<1>3. PICK F : /\ F = Kept(N, list, items)
               /\ F \in [0 .. N -> Seq(S)]
               /\ F[0] = << >>
               /\ \A n \in 1 .. N : F[n] = IF list[n] \in items THEN F[n-1] ELSE Append(F[n-1], list[n])
  BY <1>1, KeptIs
<1> DEFINE T == {n \in 0 .. N : \E e : Picks(e, F[n], list, n, items)}
<1>4. 0 \in T
  <2>1. Len(F[0]) = 0
    BY <1>3
  <2>2. Picks([i \in 1 .. 0 |-> 1], F[0], list, 0, items)
    BY <2>1 DEF Picks
  <2> QED
    BY <1>1, <2>2
<1>5. ASSUME NEW n \in 1 .. N, n-1 \in T PROVE n \in T
  <2>1. PICK e : Picks(e, F[n-1], list, n-1, items)
    BY <1>5
  <2>2. F[n-1] \in Seq(S) /\ Len(F[n-1]) \in Nat /\ n \in Nat /\ n - 1 \in Nat
    BY <1>1, <1>3
  <2>3. CASE list[n] \in items
    <3>1. F[n] = F[n-1]
      BY <1>3, <2>3
    <3>2. Picks(e, F[n-1], list, n, items)
      BY <2>1, <2>2, <2>3 DEF Picks
    <3> QED
      BY <3>1, <3>2
  <2>4. CASE list[n] \notin items
    <3> DEFINE r == F[n-1]
               m == Len(r)
               f == [i \in 1 .. m + 1 |-> IF i = m + 1 THEN n ELSE e[i]]
    <3>1. F[n] = Append(r, list[n])
      BY <1>3, <2>4
    <3>2. Len(F[n]) = m + 1 /\ F[n][m+1] = list[n] /\ \A i \in 1 .. m : F[n][i] = r[i]
      BY <1>1, <2>2, <3>1, AppendProperties
    <3>3. /\ e \in [1 .. m -> 1 .. n-1]
          /\ \A i, j \in 1 .. m : i < j => e[i] < e[j]
          /\ \A i \in 1 .. m : r[i] = list[e[i]] /\ list[e[i]] \notin items
          /\ \A j \in 1 .. n-1 : list[j] \notin items => \E i \in 1 .. m : e[i] = j
      BY <2>1 DEF Picks
    <3>4. m \in Nat
      BY <2>2
    <3> HIDE DEF m, r
    <3>5. f \in [1 .. m+1 -> 1 .. n]
      BY <2>2, <3>3, <3>4
    <3>6. ASSUME NEW i \in 1 .. m+1, NEW j \in 1 .. m+1, i < j PROVE f[i] < f[j]
      BY <2>2, <3>3, <3>4, <3>6
    <3>7. ASSUME NEW i \in 1 .. m+1 PROVE F[n][i] = list[f[i]] /\ list[f[i]] \notin items
      BY <2>2, <2>4, <3>2, <3>3, <3>4
    <3>8. ASSUME NEW j \in 1 .. n, list[j] \notin items PROVE \E i \in 1 .. m+1 : f[i] = j
      <4>1. CASE j = n
        BY <3>4, <4>1
      <4>2. CASE j # n
        <5>1. PICK i \in 1 .. m : e[i] = j
          BY <2>2, <3>3, <3>8, <4>2
        <5>2. i \in 1 .. m+1 /\ f[i] = j
          BY <3>4, <5>1
        <5> QED
          BY <5>2
      <4> QED
        BY <4>1, <4>2
    <3> HIDE DEF f
    <3>9. Picks(f, F[n], list, n, items)
      BY <3>2, <3>5, <3>6, <3>7, <3>8 DEF Picks
    <3> QED
      BY <3>9
  <2> QED
    BY <2>3, <2>4
<1> HIDE DEF T
<1>6. \A n \in 0 .. N : n \in T
  BY <1>1, <1>4, <1>5, SetInduction
<1>7. N \in T
  BY <1>1, <1>6
<1>8. F[N] \in Seq(S) /\ \E e : Picks(e, F[N], list, N, items)
  BY <1>1, <1>3, <1>7 DEF T
<1> QED
  BY <1>2, <1>3, <1>8 DEF N

(* No item is in the list twice. *)
NoRepeats(s) == \A i, j \in 1 .. Len(s) : s[i] = s[j] => i = j

(* The items of the list are sorted by value. *)
InOrder(s, value) == \A i, j \in 1 .. Len(s) : i < j => value[s[i]] <= value[s[j]]

(* The items of a list are what stands at its places. *)
LEMMA RangeIs ==
  ASSUME NEW S, NEW s \in Seq(S)
  PROVE  /\ Range(s) \subseteq S
         /\ Range(s) = {s[i] : i \in 1 .. Len(s)}
         /\ \A i \in 1 .. Len(s) : s[i] \in Range(s)
         /\ \A x \in Range(s) : \E i \in 1 .. Len(s) : s[i] = x
         /\ s = << >> <=> Range(s) = {}
<1>1. DOMAIN s = 1 .. Len(s) /\ Len(s) \in Nat /\ \A i \in 1 .. Len(s) : s[i] \in S
  BY LenProperties, ElementOfSeq
<1>2. Range(s) = {s[i] : i \in 1 .. Len(s)}
  BY <1>1 DEF Range
<1>3. s = << >> => Len(s) = 0
  OBVIOUS
<1>4. s # << >> => Len(s) # 0
  BY <1>1, EmptySeq
<1>5. s # << >> => 1 \in 1 .. Len(s)
  BY <1>1, <1>4
<1> QED
  BY <1>1, <1>2, <1>3, <1>5

(* uxListRemove takes out the items it is given, and leaves a list       *)
(* sorted and free of repetitions so.                                    *)
LEMMA ListRemoveIs ==
  ASSUME NEW S, NEW list \in Seq(S), NEW items
  PROVE  LET r == ListRemove(list, items) IN
         /\ r \in Seq(S)
         /\ Range(r) = Range(list) \ items
         /\ NoRepeats(list) => NoRepeats(r)
         /\ \A value : InOrder(list, value) => InOrder(r, value)
<1>1. PICK r : r = ListRemove(list, items)
  OBVIOUS
<1>2. r \in Seq(S) /\ \E e : Picks(e, r, list, Len(list), items)
  BY <1>1, ListRemovePicks
<1>3. PICK e : Picks(e, r, list, Len(list), items)
  BY <1>2
<1>4. Len(r) \in Nat /\ Len(list) \in Nat
  BY <1>2, LenProperties
<1>5. Range(r) = Range(list) \ items
  <2>1. ASSUME NEW x \in Range(r) PROVE x \in Range(list) \ items
    BY <1>2, <1>3, <2>1, RangeIs DEF Picks
  <2>2. ASSUME NEW x \in Range(list) \ items PROVE x \in Range(r)
    <3>1. PICK j \in 1 .. Len(list) : list[j] = x
      BY RangeIs
    <3>2. PICK i \in 1 .. Len(r) : e[i] = j
      BY <1>3, <3>1 DEF Picks
    <3>3. r[i] = x
      BY <1>3, <3>1, <3>2 DEF Picks
    <3> QED
      BY <1>2, <3>3, RangeIs
  <2> QED
    BY <2>1, <2>2
<1>6. ASSUME NoRepeats(list) PROVE NoRepeats(r)
  <2> SUFFICES ASSUME NEW i \in 1 .. Len(r), NEW j \in 1 .. Len(r), r[i] = r[j] PROVE i = j
    BY DEF NoRepeats
  <2>1. e[i] \in 1 .. Len(list) /\ e[j] \in 1 .. Len(list) /\ list[e[i]] = list[e[j]]
    BY <1>3 DEF Picks
  <2>2. e[i] = e[j]
    BY <1>6, <2>1 DEF NoRepeats
  <2>3. ~(i < j) /\ ~(j < i)
    BY <1>3, <2>1, <2>2 DEF Picks
  <2> QED
    BY <1>4, <2>3
<1>7. ASSUME NEW value, InOrder(list, value) PROVE InOrder(r, value)
  <2> SUFFICES ASSUME NEW i \in 1 .. Len(r), NEW j \in 1 .. Len(r), i < j
               PROVE  value[r[i]] <= value[r[j]]
    BY DEF InOrder
  <2>1. e[i] \in 1 .. Len(list) /\ e[j] \in 1 .. Len(list) /\ e[i] < e[j]
    BY <1>3 DEF Picks
  <2>2. r[i] = list[e[i]] /\ r[j] = list[e[j]]
    BY <1>3 DEF Picks
  <2> QED
    BY <1>7, <2>1, <2>2 DEF InOrder
<1> QED
  BY <1>1, <1>2, <1>5, <1>6, <1>7

(* vListInsertEnd adds the items, and no item comes to be in the ring    *)
(* twice.                                                                *)
LEMMA RingInsertAllEndIs ==
  ASSUME NEW S, NEW ring \in Seq(S), ring # << >>, NEW items \in Seq(S)
  PROVE  LET r == RingInsertAllEnd(ring, items) IN
         /\ r \in Seq(S)
         /\ Range(r) = Range(ring) \cup Range(items)
         /\ (NoRepeats(ring) /\ NoRepeats(items) /\ Range(ring) \cap Range(items) = {})
              => NoRepeats(r)
<1> DEFINE n == Len(ring)
           m == Len(items)
<1>1. PICK r : r = RingInsertAllEnd(ring, items)
  OBVIOUS
<1>2. n \in Nat /\ m \in Nat /\ n > 0
  BY LenProperties, EmptySeq
<1>3. ring[n] \in S /\ \A i \in 1 .. n : ring[i] \in S
  BY <1>2, ElementOfSeq
<1>4. PICK f : f = SubSeq(ring, 1, n - 1)
  OBVIOUS
<1>5. f \in Seq(S) /\ Len(f) = n - 1 /\ \A i \in 1 .. n - 1 : f[i] = ring[i]
  <2>1. 1 \in Int /\ n - 1 \in Int /\ \A i \in 1 .. n - 1 : ring[i] \in S
    BY <1>2, <1>3
  <2>2. /\ SubSeq(ring, 1, n - 1) \in Seq(S)
        /\ Len(SubSeq(ring, 1, n - 1)) = IF 1 <= n - 1 THEN n - 1 - 1 + 1 ELSE 0
        /\ \A i \in 1 .. n - 1 - 1 + 1 : SubSeq(ring, 1, n - 1)[i] = ring[1 + i - 1]
    BY <2>1, SubSeqProperties
  <2>3. \A i \in 1 .. n - 1 : i \in 1 .. n - 1 - 1 + 1 /\ 1 + i - 1 = i
    BY <1>2
  <2> HIDE DEF n
  <2> QED
    BY <1>2, <1>4, <2>2, <2>3
<1>6. PICK g : g = f \o items
  OBVIOUS
<1>7. /\ g \in Seq(S) /\ Len(g) = n - 1 + m
      /\ \A i \in 1 .. n - 1 + m : g[i] = IF i < n THEN ring[i] ELSE items[i - n + 1]
  <2>1. /\ f \o items \in Seq(S) /\ Len(f \o items) = Len(f) + Len(items)
        /\ \A i \in 1 .. Len(f) + Len(items) :
             (f \o items)[i] = IF i <= Len(f) THEN f[i] ELSE items[i - Len(f)]
    BY <1>5, ConcatProperties
  <2>2. \A i \in 1 .. n - 1 + m : (i <= n - 1 <=> i < n) /\ i - (n - 1) = i - n + 1
    BY <1>2
  <2>3. \A i \in 1 .. n - 1 + m : i < n => i \in 1 .. n - 1
    BY <1>2
  <2> HIDE DEF n
  <2> QED
    BY <1>2, <1>5, <1>6, <2>1, <2>2, <2>3
<1>8. r = g \o << ring[n] >>
  BY <1>1, <1>4, <1>6 DEF RingInsertAllEnd, Front, Last
<1>9. << ring[n] >> \in Seq(S) /\ Len(<< ring[n] >>) = 1 /\ << ring[n] >>[1] = ring[n]
  BY <1>3
<1>10. /\ r \in Seq(S) /\ Len(r) = n + m
       /\ \A i \in 1 .. n + m : r[i] = IF i < n THEN ring[i]
                                       ELSE IF i < n + m THEN items[i - n + 1] ELSE ring[n]
  <2>1. PICK l : l = << ring[n] >>
    OBVIOUS
  <2>2. /\ g \o l \in Seq(S) /\ Len(g \o l) = Len(g) + Len(l)
        /\ \A i \in 1 .. Len(g) + Len(l) :
             (g \o l)[i] = IF i <= Len(g) THEN g[i] ELSE l[i - Len(g)]
    BY <1>7, <1>9, <2>1, ConcatProperties
  <2>3. Len(l) = 1 /\ l[1] = ring[n] /\ r = g \o l
    BY <1>8, <1>9, <2>1
  <2> HIDE DEF n, m
  <2>4. Len(g) = n - 1 + m /\ Len(g) + Len(l) = n + m
    BY <1>2, <1>7, <2>3
  <2>5. ASSUME NEW i \in 1 .. n + m
        PROVE  r[i] = IF i < n THEN ring[i]
                      ELSE IF i < n + m THEN items[i - n + 1] ELSE ring[n]
    <3>1. CASE i < n + m
      <4>1. i \in 1 .. n - 1 + m /\ i <= Len(g) /\ i \in 1 .. Len(g) + Len(l)
        BY <1>2, <2>4, <3>1
      <4>2. r[i] = g[i]
        BY <2>2, <2>3, <4>1
      <4> QED
        BY <1>7, <3>1, <4>1, <4>2
    <3>2. CASE i = n + m
      <4>1. ~(i <= Len(g)) /\ i - Len(g) = 1 /\ i \in 1 .. Len(g) + Len(l)
        BY <1>2, <2>4, <3>2
      <4>2. r[i] = l[1]
        BY <2>2, <2>3, <4>1
      <4> QED
        BY <1>2, <2>3, <3>2, <4>2
    <3> QED
      BY <1>2, <3>1, <3>2
  <2> QED
    BY <2>2, <2>3, <2>4, <2>5
<1> HIDE DEF n, m
<1>11. /\ \A x \in Range(r) : \E i \in 1 .. n + m : r[i] = x
       /\ \A i \in 1 .. n + m : r[i] \in Range(r)
       /\ \A x \in Range(ring) : \E i \in 1 .. n : ring[i] = x
       /\ \A i \in 1 .. n : ring[i] \in Range(ring)
       /\ \A x \in Range(items) : \E i \in 1 .. m : items[i] = x
       /\ \A i \in 1 .. m : items[i] \in Range(items)
  BY <1>10, RangeIs DEF n, m
<1>12. Range(r) = Range(ring) \cup Range(items)
  <2>1. ASSUME NEW x \in Range(r) PROVE x \in Range(ring) \cup Range(items)
    <3>1. PICK i \in 1 .. n + m : r[i] = x
      BY <1>11
    <3>2. \/ \E j \in 1 .. n : x = ring[j]
          \/ \E j \in 1 .. m : x = items[j]
      <4>1. CASE i < n
        BY <1>2, <1>10, <3>1, <4>1
      <4>2. CASE i >= n /\ i < n + m
        <5>1. i - n + 1 \in 1 .. m /\ x = items[i - n + 1]
          BY <1>2, <1>10, <3>1, <4>2
        <5> QED
          BY <5>1
      <4>3. CASE i = n + m
        <5>1. n \in 1 .. n /\ x = ring[n]
          BY <1>2, <1>10, <3>1, <4>3
        <5> QED
          BY <5>1
      <4> QED
        BY <1>2, <4>1, <4>2, <4>3
    <3> QED
      BY <1>11, <3>2
  <2>2. ASSUME NEW x \in Range(ring) PROVE x \in Range(r)
    <3>1. PICK i \in 1 .. n : ring[i] = x
      BY <1>11
    <3>2. \E j \in 1 .. n + m : r[j] = x
      <4>1. CASE i < n
        BY <1>2, <1>10, <3>1, <4>1
      <4>2. CASE i = n
        <5>1. n + m \in 1 .. n + m /\ r[n + m] = x
          BY <1>2, <1>10, <3>1, <4>2
        <5> QED
          BY <5>1
      <4> QED
        BY <1>2, <4>1, <4>2
    <3> QED
      BY <1>11, <3>2
  <2>3. ASSUME NEW x \in Range(items) PROVE x \in Range(r)
    <3>1. PICK i \in 1 .. m : items[i] = x
      BY <1>11
    <3>2. i + n - 1 \in 1 .. n + m /\ r[i + n - 1] = x
      BY <1>2, <1>10, <3>1
    <3> QED
      BY <1>11, <3>2
  <2> QED
    BY <2>1, <2>2, <2>3
<1>13. ASSUME NoRepeats(ring), NoRepeats(items), Range(ring) \cap Range(items) = {}
       PROVE  NoRepeats(r)
  <2>1. \A i \in 1 .. n, j \in 1 .. m : ring[i] # items[j]
    BY <1>11, <1>13
  <2>2. \A i, j \in 1 .. n : ring[i] = ring[j] => i = j
    BY <1>13 DEF NoRepeats, n
  <2>3. \A i, j \in 1 .. m : items[i] = items[j] => i = j
    BY <1>13 DEF NoRepeats, m
  <2>4. ASSUME NEW i \in 1 .. n + m, NEW j \in 1 .. n + m, i < j PROVE r[i] # r[j]
    <3>1. CASE j < n
      BY <1>2, <1>10, <2>2, <2>4, <3>1
    <3>2. CASE j >= n /\ j < n + m
      <4>1. j - n + 1 \in 1 .. m /\ r[j] = items[j - n + 1]
        BY <1>2, <1>10, <3>2
      <4>2. CASE i < n
        <5>1. i \in 1 .. n /\ r[i] = ring[i]
          BY <1>2, <1>10, <4>2
        <5> QED
          BY <2>1, <4>1, <5>1
      <4>3. CASE i >= n
        <5>1. i - n + 1 \in 1 .. m /\ r[i] = items[i - n + 1] /\ i - n + 1 # j - n + 1
          BY <1>2, <1>10, <2>4, <3>2, <4>3
        <5> QED
          BY <2>3, <4>1, <5>1
      <4> QED
        BY <1>2, <4>2, <4>3
    <3>3. CASE j = n + m
      <4>1. n \in 1 .. n /\ r[j] = ring[n]
        BY <1>2, <1>10, <3>3
      <4>2. CASE i < n
        <5>1. i \in 1 .. n /\ r[i] = ring[i] /\ i # n
          BY <1>2, <1>10, <4>2
        <5> QED
          BY <2>2, <4>1, <5>1
      <4>3. CASE i >= n
        <5>1. i - n + 1 \in 1 .. m /\ r[i] = items[i - n + 1]
          BY <1>2, <1>10, <2>4, <3>3, <4>3
        <5> QED
          BY <2>1, <4>1, <5>1
      <4> QED
        BY <1>2, <4>2, <4>3
    <3> QED
      BY <1>2, <3>1, <3>2, <3>3
  <2>5. ASSUME NEW i \in 1 .. n + m, NEW j \in 1 .. n + m, r[i] = r[j] PROVE i = j
    BY <1>2, <2>4, <2>5
  <2> QED
    BY <1>10, <2>5 DEF NoRepeats
<1> QED
  BY <1>1, <1>10, <1>12, <1>13

(* An item more at the end of a list. *)
LEMMA AppendIs ==
  ASSUME NEW S, NEW s \in Seq(S), NEW x \in S
  PROVE  LET r == Append(s, x) IN
         /\ r \in Seq(S) /\ r # << >>
         /\ Range(r) = Range(s) \cup {x}
         /\ NoRepeats(s) /\ x \notin Range(s) => NoRepeats(r)
         /\ Last(r) = x
<1>1. PICK r : r = Append(s, x)
  OBVIOUS
<1>2. PICK n : n = Len(s)
  OBVIOUS
<1>3. /\ n \in Nat /\ r \in Seq(S) /\ r # << >> /\ Len(r) = n + 1
      /\ \A i \in 1 .. n : r[i] = s[i]
      /\ r[n + 1] = x
  BY <1>1, <1>2, LenProperties, AppendProperties
<1>4. /\ \A y \in Range(r) : \E i \in 1 .. n + 1 : r[i] = y
      /\ \A i \in 1 .. n + 1 : r[i] \in Range(r)
      /\ \A y \in Range(s) : \E i \in 1 .. n : s[i] = y
      /\ \A i \in 1 .. n : s[i] \in Range(s)
  BY <1>2, <1>3, RangeIs
<1>5. \A i \in 1 .. n + 1 : i \in 1 .. n \/ i = n + 1
  BY <1>3
<1>6. n + 1 \in 1 .. n + 1 /\ \A i \in 1 .. n : i \in 1 .. n + 1
  BY <1>3
<1>7. Range(r) = Range(s) \cup {x}
  <2>1. ASSUME NEW y \in Range(r) PROVE y \in Range(s) \cup {x}
    BY <1>3, <1>4, <1>5
  <2>2. ASSUME NEW y \in Range(s) PROVE y \in Range(r)
    BY <1>3, <1>4, <1>6
  <2>3. x \in Range(r)
    BY <1>3, <1>4, <1>6
  <2> QED
    BY <2>1, <2>2, <2>3
<1>8. ASSUME NoRepeats(s), x \notin Range(s) PROVE NoRepeats(r)
  <2>1. \A i, j \in 1 .. n : s[i] = s[j] => i = j
    BY <1>2, <1>8 DEF NoRepeats
  <2>2. ASSUME NEW i \in 1 .. n + 1, NEW j \in 1 .. n + 1, r[i] = r[j] PROVE i = j
    BY <1>3, <1>4, <1>5, <1>8, <2>1, <2>2
  <2> QED
    BY <1>3, <2>2 DEF NoRepeats
<1>9. Last(r) = x
  BY <1>3 DEF Last
<1> QED
  BY <1>1, <1>3, <1>7, <1>8, <1>9

(* The head of a list and what remains without it. *)
LEMMA TailIs ==
  ASSUME NEW S, NEW s \in Seq(S), s # << >>
  PROVE  /\ Head(s) \in Range(s) /\ Tail(s) \in Seq(S)
         /\ Range(s) = Range(Tail(s)) \cup {Head(s)}
         /\ NoRepeats(s) => NoRepeats(Tail(s)) /\ Head(s) \notin Range(Tail(s))
         /\ \A value : InOrder(s, value) => InOrder(Tail(s), value)
<1>1. PICK r : r = Tail(s)
  OBVIOUS
<1>2. PICK n : n = Len(s)
  OBVIOUS
<1>3. n \in Nat /\ n > 0
  BY <1>2, LenProperties, EmptySeq
<1>4. r \in Seq(S) /\ Len(r) = n - 1 /\ \A i \in 1 .. n - 1 : r[i] = s[i + 1]
  BY <1>1, <1>2, HeadTailProperties
<1>5. Head(s) = s[1]
  OBVIOUS
<1>6. /\ \A y \in Range(r) : \E i \in 1 .. n - 1 : r[i] = y
      /\ \A i \in 1 .. n - 1 : r[i] \in Range(r)
      /\ \A y \in Range(s) : \E i \in 1 .. n : s[i] = y
      /\ \A i \in 1 .. n : s[i] \in Range(s)
  BY <1>2, <1>4, RangeIs
<1>7. 1 \in 1 .. n /\ (\A i \in 1 .. n - 1 : i + 1 \in 1 .. n /\ i + 1 # 1)
  BY <1>3
<1>8. \A i \in 1 .. n : i = 1 \/ (i - 1 \in 1 .. n - 1 /\ (i - 1) + 1 = i)
  BY <1>3
<1>9. Range(s) = Range(r) \cup {s[1]}
  <2>1. ASSUME NEW y \in Range(s) PROVE y \in Range(r) \cup {s[1]}
    BY <1>4, <1>6, <1>8
  <2>2. ASSUME NEW y \in Range(r) PROVE y \in Range(s)
    BY <1>4, <1>6, <1>7
  <2> QED
    BY <1>6, <1>7, <2>1, <2>2
<1>10. ASSUME NoRepeats(s) PROVE NoRepeats(r) /\ s[1] \notin Range(r)
  <2>1. \A i, j \in 1 .. n : s[i] = s[j] => i = j
    BY <1>2, <1>10 DEF NoRepeats
  <2>2. ASSUME NEW i \in 1 .. n - 1, NEW j \in 1 .. n - 1, r[i] = r[j] PROVE i = j
    <3>1. i + 1 = j + 1
      BY <1>4, <1>7, <2>1, <2>2
    <3> QED
      BY <3>1
  <2>3. ASSUME s[1] \in Range(r) PROVE FALSE
    <3>1. PICK i \in 1 .. n - 1 : r[i] = s[1]
      BY <1>6, <2>3
    <3>2. s[i + 1] = s[1] /\ i + 1 \in 1 .. n /\ i + 1 # 1 /\ 1 \in 1 .. n
      BY <1>4, <1>7, <3>1
    <3> QED
      BY <2>1, <3>2
  <2> QED
    BY <1>4, <2>2, <2>3 DEF NoRepeats
<1>11. ASSUME NEW value, InOrder(s, value) PROVE InOrder(r, value)
  <2>1. \A i, j \in 1 .. n : i < j => value[s[i]] <= value[s[j]]
    BY <1>2, <1>11 DEF InOrder
  <2>2. ASSUME NEW i \in 1 .. n - 1, NEW j \in 1 .. n - 1, i < j PROVE value[r[i]] <= value[r[j]]
    <3>1. i + 1 < j + 1
      BY <2>2
    <3> QED
      BY <1>4, <1>7, <2>1, <3>1
  <2> QED
    BY <1>4, <2>2 DEF InOrder
<1> QED
  BY <1>1, <1>4, <1>5, <1>6, <1>7, <1>9, <1>10, <1>11

(* One step of the cursor changes no item of the ring. *)
LEMMA RotateIs ==
  ASSUME NEW S, NEW ring \in Seq(S), ring # << >>
  PROVE  LET r == Rotate(ring) IN
         /\ r \in Seq(S) /\ r # << >> /\ Len(r) = Len(ring)
         /\ Range(r) = Range(ring)
         /\ NoRepeats(ring) => NoRepeats(r)
         /\ Last(r) = Head(ring)
         /\ Len(ring) > 1 => Head(r) = ring[2]
<1>1. /\ Head(ring) \in Range(ring) /\ Tail(ring) \in Seq(S) /\ Head(ring) \in S
      /\ Range(ring) = Range(Tail(ring)) \cup {Head(ring)}
      /\ NoRepeats(ring) => NoRepeats(Tail(ring)) /\ Head(ring) \notin Range(Tail(ring))
      /\ Len(Tail(ring)) = Len(ring) - 1
      /\ Len(ring) \in Nat
      /\ \A i \in 1 .. Len(Tail(ring)) : Tail(ring)[i] = ring[i + 1]
  BY TailIs, HeadTailProperties, LenProperties
<1>2. Rotate(ring) = Append(Tail(ring), Head(ring))
  BY DEF Rotate
<1>3. PICK t : t = Tail(ring)
  OBVIOUS
<1>4. PICK h : h = Head(ring)
  OBVIOUS
<1>5. /\ Append(t, h) \in Seq(S) /\ Append(t, h) # << >>
      /\ Range(Append(t, h)) = Range(t) \cup {h}
      /\ NoRepeats(t) /\ h \notin Range(t) => NoRepeats(Append(t, h))
      /\ Last(Append(t, h)) = h
  <2>1. t \in Seq(S) /\ h \in S
    BY <1>1, <1>3, <1>4
  <2> QED
    BY <2>1, AppendIs
<1>6. /\ Len(Append(t, h)) = Len(t) + 1
      /\ \A i \in 1 .. Len(t) : Append(t, h)[i] = t[i]
  BY <1>1, <1>3, <1>4, AppendProperties
<1>7. ASSUME Len(ring) > 1 PROVE Head(Append(t, h)) = ring[2]
  <2>1. 1 \in 1 .. Len(t) /\ t[1] = ring[2]
    <3>1. 1 \in 1 .. Len(Tail(ring)) /\ 1 + 1 = 2
      BY <1>1, <1>7
    <3> QED
      BY <1>1, <1>3, <3>1
  <2>2. Append(t, h)[1] = ring[2]
    BY <1>6, <2>1
  <2>3. Head(Append(t, h)) = Append(t, h)[1]
    BY <1>5
  <2> QED
    BY <2>2, <2>3
<1> QED
  BY <1>1, <1>2, <1>3, <1>4, <1>5, <1>6, <1>7

(* listGET_OWNER_OF_NEXT_ENTRY changes no item of the ring and never     *)
(* stops on the end marker.                                              *)
LEMMA RingNextOwnerIs ==
  ASSUME NEW S, NEW ring \in Seq(S), NoRepeats(ring), RingItems(ring) # {}
  PROVE  LET r == RingNextOwner(ring) IN
         /\ r \in Seq(S)
         /\ Range(r) = Range(ring)
         /\ NoRepeats(r)
         /\ Last(r) \in RingItems(ring)
<1>1. PICK x \in Range(ring) : x # End
  BY DEF RingItems
<1>2. ring # << >>
  BY <1>1, RangeIs
<1>3. PICK n : n = Rotate(ring)
  OBVIOUS
<1>4. /\ n \in Seq(S) /\ n # << >> /\ Len(n) = Len(ring)
      /\ Range(n) = Range(ring)
      /\ NoRepeats(n)
      /\ Last(n) = Head(ring)
      /\ Len(ring) > 1 => Head(n) = ring[2]
  BY <1>2, <1>3, RotateIs
<1>5. Head(ring) = ring[1]
  BY <1>2
<1>6. Len(ring) \in Nat /\ \A i \in 1 .. Len(ring) : ring[i] \in Range(ring)
  BY LenProperties, RangeIs
<1>7. PICK m : m = Rotate(n)
  OBVIOUS
<1>8. /\ m \in Seq(S) /\ Range(m) = Range(n) /\ NoRepeats(m) /\ Last(m) = Head(n)
  BY <1>4, <1>7, RotateIs
<1>9. RingNextOwner(ring) = IF Last(n) = End THEN m ELSE n
  BY <1>3, <1>7 DEF RingNextOwner
<1>10. CASE Last(n) = End
  <2>1. ring[1] = End
    BY <1>4, <1>5, <1>10
  <2>2. PICK i \in 1 .. Len(ring) : ring[i] = x
    BY RangeIs
  <2>3. i # 1
    BY <1>1, <2>1, <2>2
  <2>4. Len(ring) > 1 /\ 2 \in 1 .. Len(ring) /\ 1 \in 1 .. Len(ring)
    BY <1>6, <2>2, <2>3
  <2>5. ring[2] # End
    BY <2>1, <2>4 DEF NoRepeats
  <2>6. Last(m) = ring[2]
    BY <1>4, <1>8, <2>4
  <2> QED
    BY <1>4, <1>6, <1>8, <1>9, <1>10, <2>4, <2>5, <2>6 DEF RingItems
<1>11. CASE Last(n) # End
  <2>1. Last(n) \in Range(ring)
    BY <1>2, <1>4, TailIs
  <2> QED
    BY <1>4, <1>9, <1>11, <2>1 DEF RingItems
<1> QED
  BY <1>10, <1>11

(* The least element of a set of natural numbers. *)
LEMMA MinIs ==
  ASSUME NEW T, T \subseteq Nat, T # {}
  PROVE  Min(T) \in T /\ \A x \in T : Min(T) <= x
BY NatMin DEF Min

(* The greatest element of a bounded set of integers. *)
LEMMA MaxIs ==
  ASSUME NEW T, T \subseteq Int, T # {}, NEW b \in Int, \A x \in T : x <= b
  PROVE  Max(T) \in T /\ \A x \in T : x <= Max(T)
<1> DEFINE D == {b - x : x \in T}
<1>1. D \subseteq Nat /\ D # {}
  <2>1. ASSUME NEW x \in T PROVE b - x \in Nat
    <3>1. x \in Int /\ x <= b
      OBVIOUS
    <3> QED
      BY <3>1
  <2> QED
    BY <2>1
<1>2. PICK d \in D : \A e \in D : d <= e
  BY <1>1, NatMin
<1>3. PICK m \in T : d = b - m
  OBVIOUS
<1>4. ASSUME NEW x \in T PROVE m >= x
  <2>1. b - x \in D
    OBVIOUS
  <2>2. b - m <= b - x
    BY <1>2, <1>3, <2>1
  <2> QED
    BY <2>2
<1>5. Max(T) \in T /\ \A x \in T : Max(T) >= x
  BY <1>4, Zenon DEF Max
<1> QED
  BY <1>5

(* A finite set of natural numbers is bounded. *)
LEMMA FiniteIsBounded ==
  ASSUME NEW T, T \subseteq Nat, IsFiniteSet(T)
  PROVE  \E b \in Nat : \A x \in T : x <= b
<1>1. PICK n \in Nat : ExistsSurjection(1 .. n, T)
  BY FS_NatSurjection
<1>2. PICK f \in [1 .. n -> T] : \A x \in T : \E i \in 1 .. n : f[i] = x
  BY <1>1 DEF ExistsSurjection, Surjection
<1> DEFINE M == {m \in 0 .. n : \E b \in Nat : \A i \in 1 .. m : f[i] <= b}
<1>3. 0 \in M
  OBVIOUS
<1>4. ASSUME NEW m \in 1 .. n, m - 1 \in M PROVE m \in M
  <2>1. PICK b \in Nat : \A i \in 1 .. m - 1 : f[i] <= b
    BY <1>4
  <2>2. f[m] \in Nat
    OBVIOUS
  <2>3. ASSUME NEW i \in 1 .. m PROVE f[i] \in Nat /\ (i \in 1 .. m - 1 \/ i = m)
    <3>1. i \in 1 .. n /\ (i \in 1 .. m - 1 \/ i = m)
      OBVIOUS
    <3>2. f[i] \in T
      BY <3>1
    <3> QED
      BY <3>1, <3>2
  <2>4. \A i \in 1 .. m : f[i] <= b + f[m]
    BY <2>1, <2>2, <2>3
  <2>5. b + f[m] \in Nat
    BY <2>2
  <2> QED
    BY <2>4, <2>5
<1> HIDE DEF M
<1>5. \A m \in 0 .. n : m \in M
  BY <1>3, <1>4, SetInduction
<1>6. n \in M
  BY <1>5
<1> QED
  BY <1>2, <1>6 DEF M

(* vListInsert adds the item and keeps the list sorted and free of       *)
(* repetitions.                                                          *)
LEMMA ListInsertIs ==
  ASSUME NEW S, NEW list \in Seq(S), NEW item \in S, NEW value, \A x \in S : value[x] \in Int
  PROVE  LET r == ListInsert(list, item, value) IN
         /\ r \in Seq(S) /\ r # << >>
         /\ Range(r) = Range(list) \cup {item}
         /\ NoRepeats(list) /\ item \notin Range(list) => NoRepeats(r)
         /\ InOrder(list, value) => InOrder(r, value)
<1> DEFINE later == {i \in DOMAIN list : value[list[i]] > value[item]}
           p == IF later = {} THEN Len(list) + 1 ELSE Min(later)
<1>1. PICK n : n = Len(list)
  OBVIOUS
<1>2. PICK r : r = ListInsert(list, item, value)
  OBVIOUS
<1>3. n \in Nat /\ DOMAIN list = 1 .. n /\ \A i \in 1 .. n : list[i] \in S /\ value[list[i]] \in Int
  BY <1>1, LenProperties, ElementOfSeq
<1>4. value[item] \in Int
  OBVIOUS
<1>5. r = SubSeq(list, 1, p - 1) \o << item >> \o SubSeq(list, p, n)
  BY <1>1, <1>2 DEF ListInsert, InsertAt
<1>6. /\ p \in 1 .. n + 1
      /\ \A i \in 1 .. n : i < p => value[list[i]] <= value[item]
      /\ p <= n => value[list[p]] > value[item]
  <2>1. CASE later = {}
    BY <1>1, <1>3, <1>4, <2>1
  <2>2. CASE later # {}
    <3>1. later \subseteq Nat
      BY <1>3
    <3>2. p \in later /\ \A i \in later : p <= i
      <4> HIDE DEF later
      <4> QED
        BY <2>2, <3>1, MinIs
    <3> HIDE DEF p
    <3> QED
      BY <1>3, <1>4, <3>2
  <2> QED
    BY <2>1, <2>2
<1> HIDE DEF p, later
<1>7. PICK a : a = SubSeq(list, 1, p - 1)
  OBVIOUS
<1>8. PICK c : c = SubSeq(list, p, n)
  OBVIOUS
<1>9. PICK l : l = << item >>
  OBVIOUS
<1>10. a \in Seq(S) /\ Len(a) = p - 1 /\ \A i \in 1 .. p - 1 : a[i] = list[i]
  <2>1. 1 \in Int /\ p - 1 \in Int /\ \A i \in 1 .. p - 1 : list[i] \in S
    BY <1>3, <1>6
  <2>2. /\ SubSeq(list, 1, p - 1) \in Seq(S)
        /\ Len(SubSeq(list, 1, p - 1)) = IF 1 <= p - 1 THEN p - 1 - 1 + 1 ELSE 0
        /\ \A i \in 1 .. p - 1 - 1 + 1 : SubSeq(list, 1, p - 1)[i] = list[1 + i - 1]
    BY <2>1, SubSeqProperties
  <2>3. \A i \in 1 .. p - 1 : i \in 1 .. p - 1 - 1 + 1 /\ 1 + i - 1 = i
    BY <1>6
  <2> QED
    BY <1>6, <1>7, <2>2, <2>3
<1>11. c \in Seq(S) /\ Len(c) = n - p + 1 /\ \A i \in 1 .. n - p + 1 : c[i] = list[p + i - 1]
  <2>1. p \in Int /\ n \in Int /\ \A i \in p .. n : list[i] \in S
    BY <1>3, <1>6
  <2>2. /\ SubSeq(list, p, n) \in Seq(S)
        /\ Len(SubSeq(list, p, n)) = IF p <= n THEN n - p + 1 ELSE 0
        /\ \A i \in 1 .. n - p + 1 : SubSeq(list, p, n)[i] = list[p + i - 1]
    BY <2>1, SubSeqProperties
  <2> QED
    BY <1>3, <1>6, <1>8, <2>2
<1>12. l \in Seq(S) /\ Len(l) = 1 /\ l[1] = item
  BY <1>9
<1>13. PICK b : b = a \o l
  OBVIOUS
<1>14. b \in Seq(S) /\ Len(b) = p /\ \A i \in 1 .. p : b[i] = IF i < p THEN list[i] ELSE item
  <2>1. /\ a \o l \in Seq(S) /\ Len(a \o l) = Len(a) + Len(l)
        /\ \A i \in 1 .. Len(a) + Len(l) :
              (a \o l)[i] = IF i <= Len(a) THEN a[i] ELSE l[i - Len(a)]
    BY <1>10, <1>12, ConcatProperties
  <2>2. Len(a) + Len(l) = p
    BY <1>6, <1>10, <1>12
  <2>3. ASSUME NEW i \in 1 .. p PROVE b[i] = IF i < p THEN list[i] ELSE item
    <3>1. b[i] = IF i <= p - 1 THEN a[i] ELSE l[i - (p - 1)]
      BY <1>10, <1>13, <2>1, <2>2
    <3>2. CASE i < p
      <4>1. i \in 1 .. p - 1 /\ i <= p - 1
        BY <1>6, <3>2
      <4> QED
        BY <1>10, <3>1, <3>2, <4>1
    <3>3. CASE i = p
      <4>1. i - (p - 1) = 1 /\ ~(i <= p - 1) /\ ~(i < p)
        BY <1>6, <3>3
      <4> QED
        BY <1>12, <3>1, <4>1
    <3> QED
      BY <1>6, <3>2, <3>3
  <2> QED
    BY <1>13, <2>1, <2>2, <2>3
<1>15. /\ r \in Seq(S) /\ Len(r) = n + 1
       /\ \A i \in 1 .. n + 1 : r[i] = IF i < p THEN list[i] ELSE IF i = p THEN item ELSE list[i - 1]
  <2>1. /\ b \o c \in Seq(S) /\ Len(b \o c) = Len(b) + Len(c)
        /\ \A i \in 1 .. Len(b) + Len(c) :
              (b \o c)[i] = IF i <= Len(b) THEN b[i] ELSE c[i - Len(b)]
    BY <1>11, <1>14, ConcatProperties
  <2>2. Len(b) + Len(c) = n + 1
    BY <1>3, <1>6, <1>11, <1>14
  <2>3. r = b \o c
    BY <1>5, <1>7, <1>8, <1>9, <1>13
  <2>4. ASSUME NEW i \in 1 .. n + 1
        PROVE  r[i] = IF i < p THEN list[i] ELSE IF i = p THEN item ELSE list[i - 1]
    <3>1. r[i] = IF i <= p THEN b[i] ELSE c[i - p]
      BY <1>14, <2>1, <2>2, <2>3
    <3>2. CASE i <= p
      <4>1. i \in 1 .. p
        BY <1>6, <3>2
      <4>2. r[i] = IF i < p THEN list[i] ELSE item
        BY <1>14, <3>1, <3>2, <4>1
      <4> QED
        BY <1>6, <3>2, <4>2
    <3>3. CASE i > p
      <4>1. i - p \in 1 .. n - p + 1 /\ p + (i - p) - 1 = i - 1
        BY <1>3, <1>6, <3>3
      <4>2. ~(i <= p) /\ ~(i < p) /\ i # p
        BY <1>6, <3>3
      <4>3. r[i] = list[i - 1]
        BY <1>11, <3>1, <4>1, <4>2
      <4> QED
        BY <4>2, <4>3
    <3> QED
      BY <1>6, <3>2, <3>3
  <2> QED
    BY <2>1, <2>2, <2>3, <2>4
<1>16. /\ \A y \in Range(r) : \E i \in 1 .. n + 1 : r[i] = y
       /\ \A i \in 1 .. n + 1 : r[i] \in Range(r)
       /\ \A y \in Range(list) : \E i \in 1 .. n : list[i] = y
       /\ \A i \in 1 .. n : list[i] \in Range(list)
  BY <1>1, <1>15, RangeIs
<1>17. \A i \in 1 .. n + 1 : \/ i \in 1 .. n /\ i < p /\ r[i] = list[i]
                             \/ i = p /\ r[i] = item
                             \/ i - 1 \in 1 .. n /\ i > p /\ r[i] = list[i - 1]
  BY <1>3, <1>6, <1>15
<1>18. Range(r) = Range(list) \cup {item}
  <2>1. ASSUME NEW y \in Range(r) PROVE y \in Range(list) \cup {item}
    BY <1>16, <1>17
  <2>2. ASSUME NEW y \in Range(list) PROVE y \in Range(r)
    <3>1. PICK i \in 1 .. n : list[i] = y
      BY <1>16
    <3>2. i \in 1 .. n + 1 /\ i + 1 \in 1 .. n + 1 /\ (i + 1) - 1 = i
      BY <1>3
    <3>3. r[i] = y \/ r[i + 1] = y
      BY <1>6, <1>15, <3>1, <3>2
    <3> QED
      BY <1>16, <3>2, <3>3
  <2>3. item \in Range(r)
    <3>1. p \in 1 .. n + 1 /\ r[p] = item
      BY <1>6, <1>15
    <3> QED
      BY <1>16, <3>1
  <2> QED
    BY <2>1, <2>2, <2>3
<1>19. ASSUME NoRepeats(list), item \notin Range(list) PROVE NoRepeats(r)
  <2>1. \A i, j \in 1 .. n : list[i] = list[j] => i = j
    BY <1>1, <1>19 DEF NoRepeats
  <2>2. \A i \in 1 .. n : list[i] # item
    BY <1>16, <1>19
  <2>3. ASSUME NEW i \in 1 .. n + 1, NEW j \in 1 .. n + 1, r[i] = r[j] PROVE i = j
    <3>1. \/ i \in 1 .. n /\ i < p /\ r[i] = list[i]
          \/ i = p /\ r[i] = item
          \/ i - 1 \in 1 .. n /\ i > p /\ r[i] = list[i - 1]
      BY <1>17
    <3>2. \/ j \in 1 .. n /\ j < p /\ r[j] = list[j]
          \/ j = p /\ r[j] = item
          \/ j - 1 \in 1 .. n /\ j > p /\ r[j] = list[j - 1]
      BY <1>17
    <3> QED
      BY <1>6, <2>1, <2>2, <2>3, <3>1, <3>2
  <2> QED
    BY <1>15, <2>3 DEF NoRepeats
<1>20. ASSUME InOrder(list, value) PROVE InOrder(r, value)
  <2>1. \A i, j \in 1 .. n : i < j => value[list[i]] <= value[list[j]]
    BY <1>1, <1>20 DEF InOrder
  <2>2. \A i \in 1 .. n : i < p => value[list[i]] <= value[item]
    BY <1>6
  <2>3. ASSUME NEW i \in 1 .. n, i >= p PROVE value[item] <= value[list[i]]
    <3>1. p \in 1 .. n /\ value[list[p]] > value[item]
      BY <1>3, <1>6, <2>3
    <3>2. value[list[p]] <= value[list[i]]
      <4>1. CASE i = p
        BY <1>3, <4>1
      <4>2. CASE i # p
        <5>1. p < i
          BY <1>6, <2>3, <4>2
        <5> QED
          BY <2>1, <3>1, <5>1
      <4> QED
        BY <4>1, <4>2
    <3>3. value[list[p]] \in Int /\ value[list[i]] \in Int
      BY <1>3, <3>1
    <3> QED
      BY <1>4, <3>1, <3>2, <3>3
  <2>4. ASSUME NEW i \in 1 .. n + 1, NEW j \in 1 .. n + 1, i < j PROVE value[r[i]] <= value[r[j]]
    <3>1. \/ i \in 1 .. n /\ i < p /\ r[i] = list[i]
          \/ i = p /\ r[i] = item
          \/ i - 1 \in 1 .. n /\ i > p /\ r[i] = list[i - 1]
      BY <1>17
    <3>2. \/ j \in 1 .. n /\ j < p /\ r[j] = list[j]
          \/ j = p /\ r[j] = item
          \/ j - 1 \in 1 .. n /\ j > p /\ r[j] = list[j - 1]
      BY <1>17
    <3>3. CASE i \in 1 .. n /\ i < p /\ r[i] = list[i]
      <4>1. CASE j \in 1 .. n /\ j < p /\ r[j] = list[j]
        BY <2>1, <2>4, <3>3, <4>1
      <4>2. CASE j = p /\ r[j] = item
        BY <2>2, <3>3, <4>2
      <4>3. CASE j - 1 \in 1 .. n /\ j > p /\ r[j] = list[j - 1]
        <5>1. i < j - 1
          BY <1>6, <3>3, <4>3
        <5> QED
          BY <2>1, <3>3, <4>3, <5>1
      <4> QED
        BY <3>2, <4>1, <4>2, <4>3
    <3>4. CASE i = p /\ r[i] = item
      <4>1. j - 1 \in 1 .. n /\ j > p /\ r[j] = list[j - 1] /\ j - 1 >= p
        BY <1>6, <2>4, <3>2, <3>4
      <4> QED
        BY <2>3, <3>4, <4>1
    <3>5. CASE i - 1 \in 1 .. n /\ i > p /\ r[i] = list[i - 1]
      <4>1. j - 1 \in 1 .. n /\ r[j] = list[j - 1] /\ i - 1 < j - 1
        BY <1>6, <2>4, <3>2, <3>5
      <4> QED
        BY <2>1, <3>5, <4>1
    <3> QED
      BY <3>1, <3>3, <3>4, <3>5
  <2> QED
    BY <1>15, <2>4 DEF InOrder
<1>21. r # << >>
  BY <1>3, <1>15
<1> QED
  BY <1>2, <1>15, <1>18, <1>19, <1>20, <1>21

-----------------------------------------------------------------------------
(* The kernel's data, and what stays true of it in each of its           *)
(* operations.                                                           *)

(* The types of the kernel's data. *)
RingType   == [Priorities -> Seq(Task \cup {End})]
ListType   == Seq(Task)
EventsType == [EventList -> Seq(Task)]
TickType   == 0 .. MaxDelay
WakeType   == [Task -> 0 .. MaxDelay]

KernelData ==
    [ready : RingType, top : Priorities, delayed : ListType, overflow : ListType,
     wakeAt : WakeType, nextUnblock : TickType, pendingReady : ListType,
     waiting : EventsType, terminated : ListType, tick : TickType,
     overflows : 0 .. OverflowSpan - 1, pended : 0 .. PendedSpan - 1,
     yieldPending : BOOLEAN]

(* A task is in one list at most by its generic list item, in a ready    *)
(* list only in that of its priority.                                    *)
GenericOk(s) ==
    /\ \A p \in Priorities :
        /\ NoRepeats(s.ready[p]) /\ End \in Range(s.ready[p])
        /\ \A t \in RingItems(s.ready[p]) : Priority[t] = p /\ t \notin Delayed(s)
    /\ NoRepeats(s.delayed) /\ NoRepeats(s.overflow)
    /\ Range(s.delayed) \cap Range(s.overflow) = {}

(* A task is in one list at most by its event list item. *)
EventsOk(s) ==
    /\ NoRepeats(s.pendingReady)
    /\ \A e \in EventList :
        /\ NoRepeats(s.waiting[e])
        /\ Range(s.waiting[e]) \cap Range(s.pendingReady) = {}
        /\ \A f \in EventList \ {e} : Range(s.waiting[e]) \cap Range(s.waiting[f]) = {}

(* The event list item of t is in a list. *)
OnEvent(s, t) == t \in Range(s.pendingReady) \/ \E e \in EventList : t \in Range(s.waiting[e])

(* Only a task that sleeps waits for an event. *)
EventsSleep(s) == \A t \in Task : OnEvent(s, t) => t \in Delayed(s)

(* uxTopReadyPriority is no lower than a ready task. *)
TopOk(s) == \A t \in Task : IsReady(s, t) => Priority[t] <= s.top

(* The priorities in use are 0 up to the highest one of a task. *)
LEMMA PrioritiesAre ==
    /\ Priorities \subseteq Nat /\ 0 \in Priorities
    /\ \A t \in Task : Priority[t] \in Priorities
    /\ \E b \in Nat : Priorities = 0 .. b
<1> DEFINE T == {Priority[t] : t \in Task}
<1>1. T \subseteq Nat /\ T # {} /\ Priority \in [Task -> T]
  BY TaskAssumption
<1>2. Priority \in Surjection(Task, T)
  BY <1>1 DEF Surjection
<1>3. IsFiniteSet(T)
  BY <1>2, TaskAssumption, FS_Surjection
<1>4. PICK b \in Nat : \A x \in T : x <= b
  BY <1>1, <1>3, FiniteIsBounded
<1>5. Max(T) \in T /\ \A x \in T : x <= Max(T)
  <2>1. T \subseteq Int
    BY <1>1
  <2> HIDE DEF T
  <2> QED
    BY <1>1, <1>4, <2>1, b \in Int, MaxIs
<1>6. Priorities = 0 .. Max(T)
  BY DEF Priorities
<1>7. Max(T) \in Nat
  BY <1>1, <1>5
<1>8. \A t \in Task : Priority[t] \in T
  OBVIOUS
<1>9. PICK c \in Nat : c = Max(T)
  BY <1>7
<1> HIDE DEF T
<1>10. ASSUME NEW t \in Task PROVE Priority[t] \in 0 .. c
  <2>1. Priority[t] \in T
    BY <1>8
  <2>2. Priority[t] \in Nat /\ Priority[t] <= c
    BY <1>1, <1>5, <1>9, <2>1
  <2> QED
    BY <2>2
<1> QED
  BY <1>6, <1>9, <1>10

(* The types of the parts of the kernel's data. *)
LEMMA KernelParts ==
    ASSUME NEW s \in KernelData
    PROVE  /\ s.ready \in RingType /\ s.top \in Priorities
           /\ s.delayed \in ListType /\ s.overflow \in ListType
           /\ s.wakeAt \in WakeType /\ s.nextUnblock \in TickType
           /\ s.pendingReady \in ListType /\ s.waiting \in EventsType
           /\ s.terminated \in ListType /\ s.tick \in TickType
           /\ s.overflows \in 0 .. OverflowSpan - 1
           /\ s.pended \in 0 .. PendedSpan - 1
           /\ s.yieldPending \in BOOLEAN
BY DEF KernelData

(* What removing generic list items changes, and what it leaves alone. *)
LEMMA RemoveGenericItemsIs ==
    ASSUME NEW s \in KernelData, NEW tasks
    PROVE  LET r == RemoveGenericItems(s, tasks) IN
           /\ r \in KernelData
           /\ \A t \in Task : r.wakeAt[t] = IF t \in tasks THEN 0 ELSE s.wakeAt[t]
           /\ \A p \in Priorities : r.ready[p] = ListRemove(s.ready[p], tasks)
           /\ r.delayed = ListRemove(s.delayed, tasks)
           /\ r.overflow = ListRemove(s.overflow, tasks)
           /\ r.top = s.top /\ r.nextUnblock = s.nextUnblock
           /\ r.pendingReady = s.pendingReady /\ r.waiting = s.waiting
           /\ r.terminated = s.terminated /\ r.tick = s.tick
           /\ r.overflows = s.overflows /\ r.pended = s.pended
           /\ r.yieldPending = s.yieldPending
<1> DEFINE w == [t \in Task |-> IF t \in tasks THEN 0 ELSE s.wakeAt[t]]
           a == [p \in Priorities |-> ListRemove(s.ready[p], tasks)]
           d == ListRemove(s.delayed, tasks)
           o == ListRemove(s.overflow, tasks)
<1>1. w \in WakeType
  BY KernelParts, SpanAssumption DEF WakeType, MaxDelay
<1>2. a \in RingType
  <2>1. \A p \in Priorities : s.ready[p] \in Seq(Task \cup {End})
    BY KernelParts DEF RingType
  <2>2. \A p \in Priorities : ListRemove(s.ready[p], tasks) \in Seq(Task \cup {End})
    BY <2>1, ListRemoveIs
  <2> QED
    BY <2>2 DEF RingType
<1>3. d \in ListType /\ o \in ListType
  BY KernelParts, ListRemoveIs DEF ListType
<1>4. RemoveGenericItems(s, tasks) =
        [s EXCEPT !.wakeAt = w, !.ready = a, !.delayed = d, !.overflow = o]
  BY DEF RemoveGenericItems
<1>5. /\ \A t \in Task : w[t] = IF t \in tasks THEN 0 ELSE s.wakeAt[t]
      /\ \A p \in Priorities : a[p] = ListRemove(s.ready[p], tasks)
  OBVIOUS
<1> HIDE DEF w, a, d, o
<1>6. [s EXCEPT !.wakeAt = w, !.ready = a, !.delayed = d, !.overflow = o] \in KernelData
  BY <1>1, <1>2, <1>3 DEF KernelData
<1> QED
  BY <1>4, <1>5, <1>6 DEF d, o, KernelData

(* The delayed tasks are the members of two lists. *)
LEMMA DelayedIs ==
    ASSUME NEW s \in KernelData
    PROVE  /\ Range(s.delayed) \subseteq Task /\ Range(s.overflow) \subseteq Task
           /\ \A t : t \in Delayed(s) <=> t \in Range(s.delayed) \/ t \in Range(s.overflow)
           /\ \A p \in Priorities : /\ s.ready[p] \in Seq(Task \cup {End})
                                    /\ Range(s.ready[p]) \subseteq Task \cup {End}
BY KernelParts, RangeIs DEF Delayed, ListType, RingType

(* The tasks are in no ready or delayed list afterwards, the others      *)
(* where they were.                                                      *)
LEMMA RemoveGenericItemsOk ==
    ASSUME NEW s \in KernelData, GenericOk(s), NEW tasks \in SUBSET Task
    PROVE  LET r == RemoveGenericItems(s, tasks) IN
           /\ GenericOk(r)
           /\ Range(r.delayed) = Range(s.delayed) \ tasks
           /\ Range(r.overflow) = Range(s.overflow) \ tasks
           /\ \A t \in Task : IsReady(r, t) <=> IsReady(s, t) /\ t \notin tasks
<1> PICK r : r = RemoveGenericItems(s, tasks)
  OBVIOUS
<1>1. /\ r \in KernelData
      /\ \A p \in Priorities : r.ready[p] = ListRemove(s.ready[p], tasks)
      /\ r.delayed = ListRemove(s.delayed, tasks)
      /\ r.overflow = ListRemove(s.overflow, tasks)
  BY RemoveGenericItemsIs
<1>2. /\ s.delayed \in Seq(Task) /\ s.overflow \in Seq(Task)
      /\ \A p \in Priorities : s.ready[p] \in Seq(Task \cup {End})
  BY KernelParts DEF ListType, RingType
<1>3. /\ Range(r.delayed) = Range(s.delayed) \ tasks
      /\ NoRepeats(s.delayed) => NoRepeats(r.delayed)
  BY <1>1, <1>2, ListRemoveIs
<1>4. /\ Range(r.overflow) = Range(s.overflow) \ tasks
      /\ NoRepeats(s.overflow) => NoRepeats(r.overflow)
  BY <1>1, <1>2, ListRemoveIs
<1>5. ASSUME NEW p \in Priorities
      PROVE  /\ Range(r.ready[p]) = Range(s.ready[p]) \ tasks
             /\ NoRepeats(s.ready[p]) => NoRepeats(r.ready[p])
  BY <1>1, <1>2, ListRemoveIs
<1>6. Delayed(r) = Delayed(s) \ tasks
  BY <1>3, <1>4 DEF Delayed
<1>7. GenericOk(r)
  <2>1. ASSUME NEW p \in Priorities
        PROVE  /\ NoRepeats(r.ready[p]) /\ End \in Range(r.ready[p])
               /\ \A t \in RingItems(r.ready[p]) : Priority[t] = p /\ t \notin Delayed(r)
    BY <1>5, <1>6, TaskAssumption DEF GenericOk, RingItems
  <2> QED
    BY <1>3, <1>4, <2>1 DEF GenericOk
<1>8. ASSUME NEW t \in Task PROVE IsReady(r, t) <=> IsReady(s, t) /\ t \notin tasks
  BY <1>5, PrioritiesAre DEF IsReady
<1> QED
  BY <1>3, <1>4, <1>7, <1>8

(* What removing event list items changes, and what it leaves alone. *)
LEMMA RemoveEventItemsIs ==
    ASSUME NEW s \in KernelData, NEW tasks
    PROVE  LET r == RemoveEventItems(s, tasks) IN
           /\ r \in KernelData
           /\ r.pendingReady = ListRemove(s.pendingReady, tasks)
           /\ \A e \in EventList : r.waiting[e] = ListRemove(s.waiting[e], tasks)
           /\ r.ready = s.ready /\ r.delayed = s.delayed /\ r.overflow = s.overflow
           /\ r.wakeAt = s.wakeAt
           /\ r.top = s.top /\ r.nextUnblock = s.nextUnblock
           /\ r.terminated = s.terminated /\ r.tick = s.tick
           /\ r.overflows = s.overflows /\ r.pended = s.pended
           /\ r.yieldPending = s.yieldPending
<1> DEFINE a == [e \in EventList |-> ListRemove(s.waiting[e], tasks)]
           d == ListRemove(s.pendingReady, tasks)
<1>1. a \in EventsType
  <2>1. \A e \in EventList : s.waiting[e] \in Seq(Task)
    BY KernelParts DEF EventsType
  <2>2. \A e \in EventList : ListRemove(s.waiting[e], tasks) \in Seq(Task)
    BY <2>1, ListRemoveIs
  <2> QED
    BY <2>2 DEF EventsType
<1>2. d \in ListType
  BY KernelParts, ListRemoveIs DEF ListType
<1>3. RemoveEventItems(s, tasks) = [s EXCEPT !.pendingReady = d, !.waiting = a]
  BY DEF RemoveEventItems
<1>4. \A e \in EventList : a[e] = ListRemove(s.waiting[e], tasks)
  OBVIOUS
<1> HIDE DEF a, d
<1>5. [s EXCEPT !.pendingReady = d, !.waiting = a] \in KernelData
  BY <1>1, <1>2 DEF KernelData
<1> QED
  BY <1>3, <1>4, <1>5 DEF d, KernelData

(* The tasks are on no event list afterwards, the others where they      *)
(* were.                                                                 *)
LEMMA RemoveEventItemsOk ==
    ASSUME NEW s \in KernelData, EventsOk(s), NEW tasks \in SUBSET Task
    PROVE  LET r == RemoveEventItems(s, tasks) IN
           /\ EventsOk(r)
           /\ \A t \in Task : OnEvent(r, t) <=> OnEvent(s, t) /\ t \notin tasks
           /\ Range(r.pendingReady) = Range(s.pendingReady) \ tasks
           /\ \A e \in EventList : Range(r.waiting[e]) = Range(s.waiting[e]) \ tasks
<1> PICK r : r = RemoveEventItems(s, tasks)
  OBVIOUS
<1>1. /\ r.pendingReady = ListRemove(s.pendingReady, tasks)
      /\ \A e \in EventList : r.waiting[e] = ListRemove(s.waiting[e], tasks)
  BY RemoveEventItemsIs
<1>2. /\ s.pendingReady \in Seq(Task)
      /\ \A e \in EventList : s.waiting[e] \in Seq(Task)
  BY KernelParts DEF ListType, EventsType
<1>3. /\ Range(r.pendingReady) = Range(s.pendingReady) \ tasks
      /\ NoRepeats(s.pendingReady) => NoRepeats(r.pendingReady)
  BY <1>1, <1>2, ListRemoveIs
<1>4. ASSUME NEW e \in EventList
      PROVE  /\ Range(r.waiting[e]) = Range(s.waiting[e]) \ tasks
             /\ NoRepeats(s.waiting[e]) => NoRepeats(r.waiting[e])
  BY <1>1, <1>2, ListRemoveIs
<1>5. EventsOk(r)
  BY <1>3, <1>4 DEF EventsOk
<1> QED
  BY <1>3, <1>4, <1>5 DEF OnEvent

(* What prvAddTaskToReadyList changes, and what it leaves alone. *)
LEMMA AddTasksIs ==
    ASSUME NEW s \in KernelData, NEW tasks \in Seq(Task),
           \A p \in Priorities : End \in Range(s.ready[p])
    PROVE  LET r == AddTasksToReadyLists(s, tasks) IN
           /\ r \in KernelData
           /\ \A p \in Priorities : r.ready[p] =
                RingInsertAllEnd(s.ready[p], ListRemove(tasks, {t \in Task : Priority[t] # p}))
           /\ s.top <= r.top /\ \A t \in Range(tasks) : Priority[t] <= r.top
           /\ r.delayed = s.delayed /\ r.overflow = s.overflow /\ r.wakeAt = s.wakeAt
           /\ r.nextUnblock = s.nextUnblock
           /\ r.pendingReady = s.pendingReady /\ r.waiting = s.waiting
           /\ r.terminated = s.terminated /\ r.tick = s.tick
           /\ r.overflows = s.overflows /\ r.pended = s.pended
           /\ r.yieldPending = s.yieldPending
<1> DEFINE of(p) == ListRemove(tasks, {t \in Task : Priority[t] # p})
           a == [p \in Priorities |-> RingInsertAllEnd(s.ready[p], of(p))]
           M == {s.top} \cup {Priority[t] : t \in Range(tasks)}
           m == Max(M)
<1>1. a \in RingType
  <2>1. ASSUME NEW p \in Priorities PROVE RingInsertAllEnd(s.ready[p], of(p)) \in Seq(Task \cup {End})
    <3>1. of(p) \in Seq(Task)
      BY ListRemoveIs
    <3>2. of(p) \in Seq(Task \cup {End})
      BY <3>1, SeqMonotonic
    <3>3. s.ready[p] \in Seq(Task \cup {End})
      BY DelayedIs
    <3>4. s.ready[p] # << >>
      BY <3>3, RangeIs
    <3> HIDE DEF of
    <3> QED
      BY <3>2, <3>3, <3>4, RingInsertAllEndIs
  <2> QED
    BY <2>1 DEF RingType
<1>2. m \in Priorities /\ s.top <= m /\ \A t \in Range(tasks) : Priority[t] <= m
  <2>1. Range(tasks) \subseteq Task
    BY RangeIs
  <2>2. PICK b \in Nat : Priorities = 0 .. b
    BY PrioritiesAre
  <2>3. s.top \in Priorities /\ \A t \in Task : Priority[t] \in Priorities
    BY KernelParts, PrioritiesAre
  <2>4. M \subseteq Priorities /\ M # {} /\ s.top \in M /\ \A t \in Range(tasks) : Priority[t] \in M
    BY <2>1, <2>3
  <2> HIDE DEF M
  <2>5. M \subseteq Int /\ b \in Int /\ \A x \in M : x <= b
    BY <2>2, <2>4
  <2>6. m \in M /\ \A x \in M : x <= m
    BY <2>4, <2>5, MaxIs
  <2> HIDE DEF m
  <2> QED
    BY <2>4, <2>6
<1>3. AddTasksToReadyLists(s, tasks) = [s EXCEPT !.top = m, !.ready = a]
  BY DEF AddTasksToReadyLists
<1>4. \A p \in Priorities : a[p] = RingInsertAllEnd(s.ready[p], of(p))
  OBVIOUS
<1> HIDE DEF a, m
<1>5. [s EXCEPT !.top = m, !.ready = a] \in KernelData
  BY <1>1, <1>2 DEF KernelData
<1> QED
  BY <1>2, <1>3, <1>4, <1>5 DEF KernelData

(* Tasks that were in no list are ready afterwards, the others where     *)
(* they were.                                                            *)
LEMMA AddTasksOk ==
    ASSUME NEW s \in KernelData, GenericOk(s), NEW tasks \in Seq(Task), NoRepeats(tasks),
           \A t \in Range(tasks) : ~IsReady(s, t) /\ t \notin Delayed(s)
    PROVE  LET r == AddTasksToReadyLists(s, tasks) IN
           /\ GenericOk(r)
           /\ \A t \in Task : IsReady(r, t) <=> IsReady(s, t) \/ t \in Range(tasks)
           /\ TopOk(s) => TopOk(r)
<1> PICK r : r = AddTasksToReadyLists(s, tasks)
  OBVIOUS
<1>1. \A p \in Priorities : End \in Range(s.ready[p])
  BY DEF GenericOk
<1>2. /\ r \in KernelData
      /\ \A p \in Priorities : r.ready[p] =
           RingInsertAllEnd(s.ready[p], ListRemove(tasks, {t \in Task : Priority[t] # p}))
      /\ s.top <= r.top /\ \A t \in Range(tasks) : Priority[t] <= r.top
      /\ r.delayed = s.delayed /\ r.overflow = s.overflow
  BY <1>1, AddTasksIs
<1>3. Range(tasks) \subseteq Task
  BY RangeIs
<1>4. ASSUME NEW p \in Priorities
      PROVE  /\ NoRepeats(r.ready[p])
             /\ Range(r.ready[p]) = Range(s.ready[p]) \cup {t \in Range(tasks) : Priority[t] = p}
  <2>1. PICK l : l = ListRemove(tasks, {t \in Task : Priority[t] # p})
    OBVIOUS
  <2>2. l \in Seq(Task) /\ Range(l) = Range(tasks) \ {t \in Task : Priority[t] # p} /\ NoRepeats(l)
    BY <2>1, ListRemoveIs
  <2>3. Range(l) = {t \in Range(tasks) : Priority[t] = p}
    BY <1>3, <2>2
  <2>4. l \in Seq(Task \cup {End})
    BY <2>2, SeqMonotonic
  <2>5. s.ready[p] \in Seq(Task \cup {End})
    BY DelayedIs
  <2>6. s.ready[p] # << >>
    BY <1>1, <2>5, RangeIs
  <2>7. NoRepeats(s.ready[p])
    BY DEF GenericOk
  <2>8. Range(s.ready[p]) \cap Range(l) = {}
    <3> SUFFICES ASSUME NEW t \in Range(s.ready[p]), t \in Range(l) PROVE FALSE
      OBVIOUS
    <3>1. t \in Range(tasks) /\ Priority[t] = p
      BY <2>3
    <3> QED
      BY <3>1 DEF IsReady
  <2>9. /\ Range(RingInsertAllEnd(s.ready[p], l)) = Range(s.ready[p]) \cup Range(l)
        /\ NoRepeats(RingInsertAllEnd(s.ready[p], l))
    BY <2>2, <2>4, <2>5, <2>6, <2>7, <2>8, RingInsertAllEndIs
  <2> QED
    BY <1>2, <2>1, <2>3, <2>9
<1>5. Delayed(r) = Delayed(s)
  BY <1>2 DEF Delayed
<1>6. GenericOk(r)
  <2>1. ASSUME NEW p \in Priorities
        PROVE  /\ NoRepeats(r.ready[p]) /\ End \in Range(r.ready[p])
               /\ \A t \in RingItems(r.ready[p]) : Priority[t] = p /\ t \notin Delayed(r)
    BY <1>1, <1>4, <1>5 DEF GenericOk, RingItems
  <2> QED
    BY <1>2, <2>1 DEF GenericOk
<1>7. ASSUME NEW t \in Task PROVE IsReady(r, t) <=> IsReady(s, t) \/ t \in Range(tasks)
  BY <1>4, PrioritiesAre DEF IsReady
<1>8. ASSUME TopOk(s) PROVE TopOk(r)
  <2> SUFFICES ASSUME NEW t \in Task, IsReady(r, t) PROVE Priority[t] <= r.top
    BY DEF TopOk
  <2>1. Priority[t] \in Int /\ s.top \in Int /\ r.top \in Int
    BY <1>2, KernelParts, PrioritiesAre
  <2>2. CASE IsReady(s, t)
    BY <1>2, <1>8, <2>1, <2>2 DEF TopOk
  <2>3. CASE t \in Range(tasks)
    BY <1>2, <2>3
  <2> QED
    BY <1>7, <2>2, <2>3
<1> QED
  BY <1>6, <1>7, <1>8

(* The delayed lists are sorted by wake time. *)
Sorted(s) == InOrder(s.delayed, s.wakeAt) /\ InOrder(s.overflow, s.wakeAt)

(* The lists of the kernel are consistent with one another. *)
ListsOk(s) ==
    /\ s \in KernelData
    /\ GenericOk(s) /\ EventsOk(s) /\ EventsSleep(s) /\ TopOk(s) /\ Sorted(s)

(* The tasks leave every list they are in. *)
Leave(s, tasks) == RemoveEventItems(RemoveGenericItems(s, tasks), tasks)

(* The data that is not in lists is the same. *)
SameClocks(r, s) ==
    /\ r.nextUnblock = s.nextUnblock /\ r.terminated = s.terminated
    /\ r.tick = s.tick /\ r.overflows = s.overflows /\ r.pended = s.pended
    /\ r.yieldPending = s.yieldPending

(* A list stays sorted while the values of its items stay the same. *)
LEMMA InOrderSame ==
    ASSUME NEW S, NEW s \in Seq(S), NEW v, NEW w, InOrder(s, v),
           \A x \in Range(s) : w[x] = v[x]
    PROVE  InOrder(s, w)
BY RangeIs DEF InOrder

(* Tasks that leave their lists leave the rest consistent. *)
LEMMA LeaveIs ==
    ASSUME NEW s, ListsOk(s), NEW tasks \in SUBSET Task
    PROVE  LET r == Leave(s, tasks) IN
           /\ ListsOk(r)
           /\ \A t \in Task : IsReady(r, t) <=> IsReady(s, t) /\ t \notin tasks
           /\ \A t \in Task : OnEvent(r, t) <=> OnEvent(s, t) /\ t \notin tasks
           /\ Range(r.delayed) = Range(s.delayed) \ tasks
           /\ Range(r.overflow) = Range(s.overflow) \ tasks
           /\ \A t \in Task \ tasks : r.wakeAt[t] = s.wakeAt[t]
           /\ SameClocks(r, s)
           /\ r.top = s.top
           /\ Range(r.pendingReady) = Range(s.pendingReady) \ tasks
           /\ \A e \in EventList : Range(r.waiting[e]) = Range(s.waiting[e]) \ tasks
<1>0. s \in KernelData /\ GenericOk(s) /\ EventsOk(s) /\ EventsSleep(s) /\ TopOk(s) /\ Sorted(s)
  BY DEF ListsOk
<1> PICK q : q = RemoveGenericItems(s, tasks)
  OBVIOUS
<1> PICK r : r = RemoveEventItems(q, tasks)
  OBVIOUS
<1>1. /\ q \in KernelData
      /\ \A t \in Task : q.wakeAt[t] = IF t \in tasks THEN 0 ELSE s.wakeAt[t]
      /\ q.delayed = ListRemove(s.delayed, tasks)
      /\ q.overflow = ListRemove(s.overflow, tasks)
      /\ q.top = s.top /\ q.pendingReady = s.pendingReady /\ q.waiting = s.waiting
      /\ SameClocks(q, s)
  BY <1>0, RemoveGenericItemsIs DEF SameClocks
<1>2. /\ GenericOk(q)
      /\ Range(q.delayed) = Range(s.delayed) \ tasks
      /\ Range(q.overflow) = Range(s.overflow) \ tasks
      /\ \A t \in Task : IsReady(q, t) <=> IsReady(s, t) /\ t \notin tasks
  BY <1>0, RemoveGenericItemsOk
<1>3. /\ r \in KernelData /\ r.ready = q.ready /\ r.delayed = q.delayed /\ r.overflow = q.overflow
      /\ r.wakeAt = q.wakeAt /\ r.top = q.top /\ SameClocks(r, q)
  BY <1>1, RemoveEventItemsIs DEF SameClocks
<1>4. EventsOk(q) /\ \A t \in Task : OnEvent(q, t) <=> OnEvent(s, t)
  BY <1>0, <1>1 DEF EventsOk, OnEvent
<1>5. /\ EventsOk(r)
      /\ \A t \in Task : OnEvent(r, t) <=> OnEvent(q, t) /\ t \notin tasks
      /\ Range(r.pendingReady) = Range(q.pendingReady) \ tasks
      /\ \A e \in EventList : Range(r.waiting[e]) = Range(q.waiting[e]) \ tasks
  BY <1>1, <1>4, RemoveEventItemsOk
<1>6. GenericOk(r) /\ Delayed(r) = Delayed(s) \ tasks
  BY <1>2, <1>3 DEF GenericOk, Delayed
<1>7. \A t \in Task : IsReady(r, t) <=> IsReady(s, t) /\ t \notin tasks
  BY <1>2, <1>3 DEF IsReady
<1>8. EventsSleep(r) /\ TopOk(r)
  BY <1>0, <1>1, <1>3, <1>4, <1>5, <1>6, <1>7 DEF EventsSleep, TopOk
<1>9. \A t \in Task \ tasks : r.wakeAt[t] = s.wakeAt[t]
  BY <1>1, <1>3
<1>10. Sorted(r)
  <2>1. s.delayed \in Seq(Task) /\ s.overflow \in Seq(Task)
    BY <1>0, KernelParts DEF ListType
  <2>2. InOrder(s.delayed, s.wakeAt) /\ InOrder(s.overflow, s.wakeAt)
    BY <1>0 DEF Sorted
  <2>3. q.delayed \in Seq(Task) /\ InOrder(q.delayed, s.wakeAt)
    BY <1>1, <2>1, <2>2, ListRemoveIs
  <2>4. q.overflow \in Seq(Task) /\ InOrder(q.overflow, s.wakeAt)
    BY <1>1, <2>1, <2>2, ListRemoveIs
  <2>5. /\ \A x \in Range(q.delayed) : x \in Task \ tasks
        /\ \A x \in Range(q.overflow) : x \in Task \ tasks
    BY <1>0, <1>2, DelayedIs
  <2>6. InOrder(q.delayed, r.wakeAt)
    BY <1>9, <2>3, <2>5, InOrderSame
  <2>7. InOrder(q.overflow, r.wakeAt)
    BY <1>9, <2>4, <2>5, InOrderSame
  <2> QED
    BY <1>3, <2>6, <2>7 DEF Sorted
<1>11. SameClocks(r, s)
  BY <1>1, <1>3 DEF SameClocks
<1>12. r = Leave(s, tasks)
  BY DEF Leave
<1> QED
  BY <1>1, <1>2, <1>3, <1>4, <1>5, <1>6, <1>7, <1>8, <1>9, <1>10, <1>11, <1>12 DEF ListsOk

(* Tasks that leave the Blocked state are ready, and the lists stay      *)
(* consistent.                                                           *)
LEMMA UnblockIs ==
    ASSUME NEW s, ListsOk(s), NEW tasks \in Seq(Task), NoRepeats(tasks),
           Range(tasks) \subseteq Delayed(s)
    PROVE  LET r == Unblock(s, tasks) IN
           /\ ListsOk(r)
           /\ \A t \in Task : IsReady(r, t) <=> IsReady(s, t) \/ t \in Range(tasks)
           /\ \A t \in Task : OnEvent(r, t) => OnEvent(s, t)
           /\ Range(r.delayed) = Range(s.delayed) \ Range(tasks)
           /\ Range(r.overflow) = Range(s.overflow) \ Range(tasks)
           /\ \A t \in Task \ Range(tasks) : r.wakeAt[t] = s.wakeAt[t]
           /\ SameClocks(r, s)
           /\ Range(r.pendingReady) = Range(s.pendingReady) \ Range(tasks)
           /\ \A e \in EventList : Range(r.waiting[e]) = Range(s.waiting[e]) \ Range(tasks)
<1> PICK q : q = Leave(s, Range(tasks))
  OBVIOUS
<1> PICK r : r = AddTasksToReadyLists(q, tasks)
  OBVIOUS
<1>1. Range(tasks) \in SUBSET Task
  BY RangeIs
<1>2. /\ ListsOk(q)
      /\ \A t \in Task : IsReady(q, t) <=> IsReady(s, t) /\ t \notin Range(tasks)
      /\ \A t \in Task : OnEvent(q, t) <=> OnEvent(s, t) /\ t \notin Range(tasks)
      /\ Range(q.delayed) = Range(s.delayed) \ Range(tasks)
      /\ Range(q.overflow) = Range(s.overflow) \ Range(tasks)
      /\ \A t \in Task \ Range(tasks) : q.wakeAt[t] = s.wakeAt[t]
      /\ SameClocks(q, s)
      /\ Range(q.pendingReady) = Range(s.pendingReady) \ Range(tasks)
      /\ \A e \in EventList : Range(q.waiting[e]) = Range(s.waiting[e]) \ Range(tasks)
  <2>1. PICK gone \in SUBSET Task : gone = Range(tasks)
    BY <1>1
  <2>2. LET left == Leave(s, gone) IN
        /\ ListsOk(left)
        /\ \A t \in Task : IsReady(left, t) <=> IsReady(s, t) /\ t \notin gone
        /\ \A t \in Task : OnEvent(left, t) <=> OnEvent(s, t) /\ t \notin gone
        /\ Range(left.delayed) = Range(s.delayed) \ gone
        /\ Range(left.overflow) = Range(s.overflow) \ gone
        /\ \A t \in Task \ gone : left.wakeAt[t] = s.wakeAt[t]
        /\ SameClocks(left, s)
        /\ left.top = s.top
        /\ Range(left.pendingReady) = Range(s.pendingReady) \ gone
        /\ \A e \in EventList : Range(left.waiting[e]) = Range(s.waiting[e]) \ gone
    BY LeaveIs, Zenon
  <2> QED
    BY <2>1, <2>2
<1>3. q \in KernelData /\ GenericOk(q) /\ EventsOk(q) /\ EventsSleep(q) /\ TopOk(q) /\ Sorted(q)
  BY <1>2 DEF ListsOk
<1>4. \A p \in Priorities : End \in Range(q.ready[p])
  BY <1>3 DEF GenericOk
<1>5. /\ r \in KernelData
      /\ r.delayed = q.delayed /\ r.overflow = q.overflow /\ r.wakeAt = q.wakeAt
      /\ r.pendingReady = q.pendingReady /\ r.waiting = q.waiting
      /\ SameClocks(r, q)
  BY <1>3, <1>4, AddTasksIs DEF SameClocks
<1>6. \A t \in Range(tasks) : ~IsReady(q, t) /\ t \notin Delayed(q)
  BY <1>1, <1>2 DEF Delayed
<1>7. /\ GenericOk(r)
      /\ \A t \in Task : IsReady(r, t) <=> IsReady(q, t) \/ t \in Range(tasks)
      /\ TopOk(r)
  BY <1>3, <1>6, AddTasksOk
<1>8. EventsOk(r) /\ EventsSleep(r) /\ Sorted(r) /\ \A t \in Task : OnEvent(r, t) <=> OnEvent(q, t)
  BY <1>3, <1>5 DEF EventsOk, EventsSleep, OnEvent, Delayed, Sorted
<1>9. SameClocks(r, s)
  BY <1>2, <1>5 DEF SameClocks
<1>10. r = Unblock(s, tasks)
  BY DEF Unblock, Leave
<1> QED
  BY <1>2, <1>5, <1>7, <1>8, <1>9, <1>10 DEF ListsOk

(* Ready and event lists are the same. *)
SameLists(r, s) ==
    /\ r.ready = s.ready /\ r.top = s.top /\ r.wakeAt = s.wakeAt
    /\ r.pendingReady = s.pendingReady /\ r.waiting = s.waiting

(* prvResetNextTaskUnblockTime finds a time no sleeper wakes before. *)
LEMMA ResetNextTaskUnblockTimeIs ==
    ASSUME NEW s, ListsOk(s)
    PROVE  LET r == ResetNextTaskUnblockTime(s) IN
           /\ ListsOk(r) /\ SameLists(r, s)
           /\ r.delayed = s.delayed /\ r.overflow = s.overflow
           /\ r.terminated = s.terminated /\ r.tick = s.tick /\ r.pended = s.pended
           /\ r.overflows = s.overflows
           /\ r.yieldPending = s.yieldPending
           /\ \A t \in Range(s.delayed) : r.nextUnblock <= s.wakeAt[t]
<1>0. s \in KernelData /\ GenericOk(s) /\ EventsOk(s) /\ EventsSleep(s) /\ TopOk(s) /\ Sorted(s)
  BY DEF ListsOk
<1> PICK n : n = IF s.delayed = << >> THEN MaxDelay ELSE s.wakeAt[Head(s.delayed)]
  OBVIOUS
<1> PICK r : r = [s EXCEPT !.nextUnblock = n]
  OBVIOUS
<1>1. s.delayed \in Seq(Task) /\ s.wakeAt \in WakeType
  BY <1>0, KernelParts DEF ListType
<1>2. s.delayed # << >> => Head(s.delayed) \in Task
  BY <1>1
<1>3. n \in TickType
  <2>1. MaxDelay \in TickType
    BY SpanAssumption DEF TickType, MaxDelay
  <2>2. s.delayed # << >> => s.wakeAt[Head(s.delayed)] \in TickType
    BY <1>1, <1>2 DEF WakeType, TickType
  <2> QED
    BY <2>1, <2>2
<1>4. r \in KernelData
  BY <1>0, <1>3 DEF KernelData
<1>5. /\ SameLists(r, s) /\ r.delayed = s.delayed /\ r.overflow = s.overflow
      /\ r.terminated = s.terminated /\ r.tick = s.tick /\ r.pended = s.pended
      /\ r.overflows = s.overflows
      /\ r.yieldPending = s.yieldPending /\ r.nextUnblock = n
  BY <1>0 DEF KernelData, SameLists
<1>6. GenericOk(r) /\ EventsOk(r) /\ EventsSleep(r) /\ TopOk(r) /\ Sorted(r)
  BY <1>0, <1>5 DEF SameLists, GenericOk, EventsOk, EventsSleep, TopOk, Sorted, Delayed,
                    OnEvent, IsReady
<1>7. ASSUME NEW t \in Range(s.delayed) PROVE n <= s.wakeAt[t]
  <2>1. PICK i \in 1 .. Len(s.delayed) : s.delayed[i] = t
    BY <1>1, RangeIs
  <2>2. Len(s.delayed) \in Nat /\ s.delayed # << >>
    BY <1>1, <2>1, LenProperties
  <2>3. n = s.wakeAt[s.delayed[1]]
    BY <2>2
  <2>4. CASE i = 1
    <3>1. s.wakeAt[t] \in Int
      BY <1>0, <1>1, DelayedIs, SpanAssumption DEF WakeType, MaxDelay
    <3> QED
      BY <2>1, <2>3, <2>4, <3>1
  <2>5. CASE i # 1
    <3>1. 1 \in 1 .. Len(s.delayed) /\ 1 < i
      BY <2>1, <2>2, <2>5
    <3> QED
      BY <1>0, <2>1, <2>3, <3>1 DEF Sorted, InOrder
  <2> QED
    BY <2>4, <2>5
<1> QED
  BY <1>4, <1>5, <1>6, <1>7 DEF ResetNextTaskUnblockTime, ListsOk

(* taskSWITCH_DELAYED_LISTS exchanges the two lists and nothing else. *)
LEMMA SwitchDelayedListsIs ==
    ASSUME NEW s, ListsOk(s)
    PROVE  LET r == SwitchDelayedLists(s) IN
           /\ ListsOk(r) /\ SameLists(r, s)
           /\ r.delayed = s.overflow /\ r.overflow = s.delayed
           /\ r.terminated = s.terminated /\ r.tick = s.tick /\ r.pended = s.pended
           /\ r.yieldPending = s.yieldPending
           /\ \A t \in Range(s.overflow) : r.nextUnblock <= s.wakeAt[t]
<1>0. s \in KernelData /\ GenericOk(s) /\ EventsOk(s) /\ EventsSleep(s) /\ TopOk(s) /\ Sorted(s)
  BY DEF ListsOk
<1> PICK o : o = (s.overflows + 1) % OverflowSpan
  OBVIOUS
<1> PICK r : r = [s EXCEPT !.delayed = s.overflow, !.overflow = s.delayed, !.overflows = o]
  OBVIOUS
<1>1. o \in 0 .. OverflowSpan - 1
  BY <1>0, KernelParts, SpanAssumption
<1>2. s.delayed \in ListType /\ s.overflow \in ListType
  BY <1>0, KernelParts
<1>3. r \in KernelData
  BY <1>0, <1>1, <1>2 DEF KernelData
<1>4. /\ SameLists(r, s) /\ r.delayed = s.overflow /\ r.overflow = s.delayed
      /\ r.terminated = s.terminated /\ r.tick = s.tick /\ r.pended = s.pended
      /\ r.yieldPending = s.yieldPending
  BY <1>0 DEF KernelData, SameLists
<1>5. Delayed(r) = Delayed(s)
  BY <1>4 DEF Delayed
<1>6. GenericOk(r) /\ EventsOk(r) /\ EventsSleep(r) /\ TopOk(r) /\ Sorted(r)
  BY <1>0, <1>4, <1>5 DEF SameLists, GenericOk, EventsOk, EventsSleep, TopOk, Sorted,
                    OnEvent, IsReady
<1>7. ListsOk(r)
  BY <1>3, <1>6 DEF ListsOk
<1>8. SwitchDelayedLists(s) = ResetNextTaskUnblockTime(r)
  BY <1>0 DEF SwitchDelayedLists, KernelData
<1>9. PICK q : q = ResetNextTaskUnblockTime(r)
  OBVIOUS
<1>10. /\ ListsOk(q) /\ SameLists(q, r)
       /\ q.delayed = r.delayed /\ q.overflow = r.overflow
       /\ q.terminated = r.terminated /\ q.tick = r.tick /\ q.pended = r.pended
       /\ q.yieldPending = r.yieldPending
       /\ \A t \in Range(r.delayed) : q.nextUnblock <= r.wakeAt[t]
  BY <1>7, <1>9, ResetNextTaskUnblockTimeIs
<1>11. SameLists(q, s)
  BY <1>4, <1>10 DEF SameLists
<1>12. r.wakeAt = s.wakeAt
  BY <1>4 DEF SameLists
<1> QED
  BY <1>4, <1>8, <1>9, <1>10, <1>11, <1>12

(* The tasks a tick takes from the head of the delayed list are all of   *)
(* those whose time has come, and no others.                             *)
LEMMA ExpiredIs ==
    ASSUME NEW s, ListsOk(s)
    PROVE  LET e == Expired(s) IN
           /\ e \in Seq(Task) /\ NoRepeats(e)
           /\ Range(e) = {t \in Range(s.delayed) : s.wakeAt[t] <= s.tick}
<1> DEFINE later == {n \in DOMAIN s.delayed : s.tick < s.wakeAt[s.delayed[n]]}
<1>0. /\ s.delayed \in Seq(Task) /\ s.wakeAt \in WakeType /\ s.tick \in TickType
      /\ NoRepeats(s.delayed) /\ InOrder(s.delayed, s.wakeAt)
  BY KernelParts DEF ListsOk, ListType, GenericOk, Sorted
<1> PICK n : n = Len(s.delayed)
  OBVIOUS
<1> PICK d : d = s.delayed
  OBVIOUS
<1>1. /\ n \in Nat /\ DOMAIN d = 1 .. n /\ s.tick \in Int
      /\ \A i \in 1 .. n : d[i] \in Task /\ s.wakeAt[d[i]] \in Int
  BY <1>0, LenProperties, ElementOfSeq, SpanAssumption DEF WakeType, TickType, MaxDelay
<1>2. /\ \A x \in Range(d) : \E i \in 1 .. n : d[i] = x
      /\ \A i \in 1 .. n : d[i] \in Range(d)
  BY <1>0, RangeIs
<1>3. ASSUME later = {}
      PROVE  /\ Expired(s) \in Seq(Task) /\ NoRepeats(Expired(s))
             /\ Range(Expired(s)) = {t \in Range(s.delayed) : s.wakeAt[t] <= s.tick}
  <2>1. Expired(s) = d
    BY <1>3 DEF Expired
  <2>2. \A i \in 1 .. n : s.wakeAt[d[i]] <= s.tick
    BY <1>1, <1>3
  <2> QED
    BY <1>0, <1>2, <2>1, <2>2
<1>4. ASSUME later # {}
      PROVE  /\ Expired(s) \in Seq(Task) /\ NoRepeats(Expired(s))
             /\ Range(Expired(s)) = {t \in Range(s.delayed) : s.wakeAt[t] <= s.tick}
  <2>0. PICK m : m = Min(later)
    OBVIOUS
  <2>1. later \subseteq Nat
    BY <1>1
  <2>2. m \in later /\ \A i \in later : m <= i
    <3> HIDE DEF later
    <3> QED
      BY <1>4, <2>0, <2>1, MinIs
  <2>3. m \in 1 .. n /\ s.tick < s.wakeAt[d[m]]
    BY <1>1, <2>2
  <2>4. ASSUME NEW i \in 1 .. n, i < m PROVE s.wakeAt[d[i]] <= s.tick
    <3>1. i \notin later
      BY <2>2, <2>3, <2>4, <1>1
    <3> QED
      BY <1>1, <3>1
  <2>5. Expired(s) = SubSeq(d, 1, m - 1)
    BY <1>4, <2>0 DEF Expired
  <2> HIDE DEF later
  <2>6. ASSUME NEW i \in 1 .. n, m <= i PROVE ~(s.wakeAt[d[i]] <= s.tick)
    <3>1. s.wakeAt[d[m]] \in Int /\ s.wakeAt[d[i]] \in Int /\ s.tick \in Int
      BY <1>1, <2>3
    <3>2. m = i \/ m < i
      BY <1>1, <2>3, <2>6
    <3>3. m = i \/ s.wakeAt[d[m]] <= s.wakeAt[d[i]]
      BY <1>0, <1>1, <2>3, <3>2 DEF InOrder
    <3> QED
      BY <2>3, <3>1, <3>3
  <2>7. PICK e : e = SubSeq(d, 1, m - 1)
    OBVIOUS
  <2>8. e \in Seq(Task) /\ Len(e) = m - 1 /\ \A i \in 1 .. m - 1 : e[i] = d[i]
    <3>1. 1 \in Int /\ m - 1 \in Int /\ \A i \in 1 .. m - 1 : d[i] \in Task
      BY <1>1, <2>3
    <3>2. /\ SubSeq(d, 1, m - 1) \in Seq(Task)
          /\ Len(SubSeq(d, 1, m - 1)) = IF 1 <= m - 1 THEN m - 1 - 1 + 1 ELSE 0
          /\ \A i \in 1 .. m - 1 - 1 + 1 : SubSeq(d, 1, m - 1)[i] = d[1 + i - 1]
      BY <3>1, SubSeqProperties
    <3>3. \A i \in 1 .. m - 1 : i \in 1 .. m - 1 - 1 + 1 /\ 1 + i - 1 = i
      BY <2>3
    <3> QED
      BY <2>3, <2>7, <3>2, <3>3
  <2>9. /\ \A x \in Range(e) : \E i \in 1 .. m - 1 : e[i] = x
        /\ \A i \in 1 .. m - 1 : e[i] \in Range(e)
    BY <2>8, RangeIs
  <2>10. \A i \in 1 .. m - 1 : i \in 1 .. n /\ i < m
    BY <1>1, <2>3
  <2>11. NoRepeats(e)
    BY <1>0, <2>8, <2>10 DEF NoRepeats
  <2>12. ASSUME NEW t \in Range(e) PROVE t \in Range(d) /\ s.wakeAt[t] <= s.tick
    <3>1. PICK i \in 1 .. m - 1 : e[i] = t
      BY <2>9
    <3>2. i \in 1 .. n /\ i < m /\ t = d[i]
      BY <2>8, <2>10, <3>1
    <3>3. s.wakeAt[d[i]] <= s.tick /\ d[i] \in Range(d)
      BY <1>2, <2>4, <3>2
    <3> QED
      BY <3>2, <3>3
  <2>13. ASSUME NEW t \in Range(d), s.wakeAt[t] <= s.tick PROVE t \in Range(e)
    <3>1. PICK i \in 1 .. n : d[i] = t
      BY <1>2
    <3>2. i < m
      BY <1>1, <2>3, <2>6, <2>13, <3>1
    <3>3. i \in 1 .. m - 1
      BY <1>1, <2>3, <3>2
    <3> QED
      BY <2>8, <2>9, <3>1, <3>3
  <2> QED
    BY <2>5, <2>7, <2>8, <2>11, <2>12, <2>13
<1> QED
  BY <1>3, <1>4

(* No sleeper of this round of the tick count is overdue,                *)
(* xNextTaskUnblockTime is no later than the first of them, and the      *)
(* others wake before the count is back where it is.                     *)
InTime(s) ==
    /\ \A t \in Range(s.delayed) : s.wakeAt[t] > s.tick /\ s.nextUnblock <= s.wakeAt[t]
    /\ \A t \in Range(s.overflow) : s.wakeAt[t] < s.tick

(* The lists are consistent, with one another and with the tick count. *)
DataOk(s) == ListsOk(s) /\ InTime(s)

(* The task is in a ready list or sleeps. *)
Placed(s, t) == IsReady(s, t) \/ t \in Delayed(s)

(* The ticks until a sleeper wakes, by the lists (TicksToWake, for any   *)
(* data).                                                                *)
ToWake(s, t) == IF t \in Range(s.delayed) THEN s.wakeAt[t] - s.tick
                                          ELSE s.wakeAt[t] + TickSpan - s.tick

(* The tick counts are integers of their type. *)
LEMMA ClocksAre ==
    ASSUME NEW s \in KernelData
    PROVE  /\ s.tick \in Int /\ 0 <= s.tick /\ s.tick <= MaxDelay
           /\ s.nextUnblock \in Int /\ 0 <= s.nextUnblock /\ s.nextUnblock <= MaxDelay
           /\ \A t \in Task : s.wakeAt[t] \in Int /\ 0 <= s.wakeAt[t] /\ s.wakeAt[t] <= MaxDelay
           /\ MaxDelay = TickSpan - 1 /\ MaxDelay \in Int /\ TickSpan \in Int /\ TickSpan > 1
<1>1. /\ s.wakeAt \in [Task -> 0 .. MaxDelay] /\ s.tick \in 0 .. MaxDelay
      /\ s.nextUnblock \in 0 .. MaxDelay
  BY KernelParts DEF WakeType, TickType
<1>2. MaxDelay = TickSpan - 1 /\ MaxDelay \in Int /\ TickSpan \in Int /\ TickSpan > 1
  BY SpanAssumption DEF MaxDelay
<1>3. \A t \in Task : s.wakeAt[t] \in 0 .. MaxDelay
  BY <1>1
<1> QED
  BY <1>1, <1>2, <1>3

(* xTaskIncrementTick wakes exactly the tasks whose time has come, and   *)
(* brings every other sleeper one tick nearer; a woken task that is no   *)
(* lower than the current one asks for a switch.                         *)
LEMMA IncrementTickIs ==
    ASSUME NEW s, DataOk(s)
    PROVE  LET i == IncrementTick(s)
               r == i.data
           IN  /\ DataOk(r) /\ i.switch \in BOOLEAN
               /\ r.terminated = s.terminated /\ r.pended = s.pended
               /\ r.yieldPending = s.yieldPending /\ (s.yieldPending => i.switch)
               /\ r.tick = IF s.tick = MaxDelay THEN 0 ELSE s.tick + 1
               /\ \A t \in Task : Placed(r, t) <=> Placed(s, t)
               /\ \A t \in Task : IsReady(s, t) => IsReady(r, t)
               /\ \A t \in Task : OnEvent(r, t) => OnEvent(s, t)
               /\ \A t \in Delayed(r) : ToWake(r, t) = ToWake(s, t) - 1
               /\ \A t \in Task : IsReady(r, t) /\ ~IsReady(s, t) =>
                    ToWake(s, t) = 1 /\ (Priority[t] >= Priority[cur] => i.switch)
<1>1. ListsOk(s) /\ InTime(s) /\ s \in KernelData
  BY DEF DataOk, ListsOk
<1>2. PICK c : c = (s.tick + 1) % TickSpan
  OBVIOUS
<1>3. c = (IF s.tick = MaxDelay THEN 0 ELSE s.tick + 1) /\ c \in TickType
  BY <1>1, <1>2, ClocksAre, SpanAssumption DEF TickType
<1>4. PICK q : q = [s EXCEPT !.tick = c]
  OBVIOUS
<1>5. q \in KernelData
  BY <1>1, <1>3, <1>4 DEF KernelData
<1>6. /\ SameLists(q, s) /\ q.delayed = s.delayed /\ q.overflow = s.overflow
      /\ q.terminated = s.terminated /\ q.pended = s.pended
      /\ q.yieldPending = s.yieldPending /\ q.nextUnblock = s.nextUnblock
      /\ q.tick = c
  BY <1>1, <1>4 DEF KernelData, SameLists
<1>7. ListsOk(q)
  BY <1>1, <1>5, <1>6 DEF SameLists, ListsOk, GenericOk, EventsOk, EventsSleep, TopOk, Sorted,
                          Delayed, OnEvent, IsReady
<1>8. PICK w : w = IF q.tick = 0 THEN SwitchDelayedLists(q) ELSE q
  OBVIOUS
<1>9. /\ Range(s.delayed) \subseteq Task /\ Range(s.overflow) \subseteq Task
      /\ \A t \in Range(s.delayed) : s.wakeAt[t] > s.tick /\ s.nextUnblock <= s.wakeAt[t]
      /\ \A t \in Range(s.overflow) : s.wakeAt[t] < s.tick
      /\ \A t : ~(t \in Range(s.delayed) /\ t \in Range(s.overflow))
  BY <1>1, DelayedIs DEF InTime, ListsOk, GenericOk
<1>10. /\ ListsOk(w) /\ SameLists(w, s)
       /\ w.terminated = s.terminated /\ w.pended = s.pended /\ w.tick = c
       /\ w.yieldPending = s.yieldPending
       /\ \A t \in Range(w.delayed) :
            w.wakeAt[t] >= w.tick /\ w.nextUnblock <= w.wakeAt[t]
       /\ \A t \in Range(w.overflow) : w.wakeAt[t] < w.tick
       /\ Delayed(w) = Delayed(s)
       /\ \A t \in Delayed(w) : ToWake(w, t) = ToWake(s, t) - 1
  <2>1. CASE c = 0
    <3>1. w = SwitchDelayedLists(q)
      BY <1>6, <1>8, <2>1
    <3>2. /\ ListsOk(w) /\ SameLists(w, q) /\ w.delayed = q.overflow /\ w.overflow = q.delayed
          /\ w.terminated = q.terminated /\ w.tick = q.tick /\ w.pended = q.pended
          /\ w.yieldPending = q.yieldPending
          /\ \A t \in Range(q.overflow) : w.nextUnblock <= q.wakeAt[t]
      BY <1>7, <3>1, SwitchDelayedListsIs
    <3>3. s.tick = MaxDelay
      BY <1>1, <1>3, <2>1, ClocksAre
    <3>4. \A t \in Range(s.delayed) : FALSE
      BY <1>1, <1>9, <3>3, ClocksAre
    <3>5. SameLists(w, s) /\ w.wakeAt = s.wakeAt /\ q.wakeAt = s.wakeAt
      BY <1>6, <3>2 DEF SameLists
    <3>6. \A t \in Task : s.wakeAt[t] \in Int /\ 0 <= s.wakeAt[t]
      BY <1>1, ClocksAre
    <3>7. \A t \in Delayed(w) : t \in Range(w.delayed) /\ t \notin Range(s.delayed) /\ t \in Task
      BY <1>6, <1>9, <3>2, <3>4 DEF Delayed
    <3>8. \A t \in Delayed(w) : ToWake(w, t) = s.wakeAt[t] /\ ToWake(s, t) = s.wakeAt[t] + 1
      BY <1>1, <1>6, <2>1, <3>2, <3>3, <3>5, <3>6, <3>7, ClocksAre DEF ToWake
    <3>9. \A t \in Delayed(w) : ToWake(w, t) = ToWake(s, t) - 1
      BY <3>6, <3>7, <3>8
    <3>10. \A t \in Range(w.delayed) : w.wakeAt[t] >= w.tick /\ w.nextUnblock <= w.wakeAt[t]
      BY <1>6, <1>9, <2>1, <3>2, <3>5, <3>6
    <3>11. \A t \in Range(w.overflow) : w.wakeAt[t] < w.tick
      BY <1>6, <3>2, <3>4
    <3>12. Delayed(w) = Delayed(s)
      BY <1>6, <3>2 DEF Delayed
    <3> QED
      BY <1>6, <3>2, <3>5, <3>9, <3>10, <3>11, <3>12
  <2>2. CASE c # 0
    <3>1. w = q
      BY <1>6, <1>8, <2>2
    <3>2. c = s.tick + 1 /\ s.tick \in Int
      BY <1>1, <1>3, <2>2, ClocksAre
    <3>3. /\ w.wakeAt = s.wakeAt /\ w.delayed = s.delayed /\ w.overflow = s.overflow
          /\ w.tick = s.tick + 1 /\ w.nextUnblock = s.nextUnblock
      BY <1>6, <3>1, <3>2 DEF SameLists
    <3>4. \A t \in Task : s.wakeAt[t] \in Int /\ TickSpan \in Int
      BY <1>1, ClocksAre
    <3>5. \A t \in Range(w.delayed) : w.wakeAt[t] >= w.tick /\ w.nextUnblock <= w.wakeAt[t]
      BY <1>9, <3>2, <3>3, <3>4
    <3>6. \A t \in Range(w.overflow) : w.wakeAt[t] < w.tick
      BY <1>9, <3>2, <3>3, <3>4
    <3>7. Delayed(w) = Delayed(s) /\ Delayed(s) \subseteq Task
      BY <1>9, <3>3 DEF Delayed
    <3>8. \A t \in Delayed(w) : ToWake(w, t) = ToWake(s, t) - 1
      BY <3>2, <3>3, <3>4, <3>7 DEF ToWake
    <3> QED
      BY <1>6, <1>7, <3>1, <3>5, <3>6, <3>7, <3>8
  <2> QED
    BY <2>1, <2>2
<1>11. PICK woken : woken = IF w.tick < w.nextUnblock THEN << >> ELSE Expired(w)
  OBVIOUS
<1>12. PICK u : u = IF w.tick < w.nextUnblock THEN w
                    ELSE ResetNextTaskUnblockTime(Unblock(w, woken))
  OBVIOUS
<1>13. w \in KernelData /\ c \in Int /\ w.nextUnblock \in Int
       /\ \A t \in Task : w.wakeAt[t] \in Int
  BY <1>3, <1>10, ClocksAre DEF ListsOk, TickType
<1>14. Range(w.delayed) \subseteq Task /\ Range(w.overflow) \subseteq Task
  BY <1>13, DelayedIs
<1>15. Range(woken) = {t \in Range(w.delayed) : w.wakeAt[t] <= w.tick}
  <2>1. CASE w.tick < w.nextUnblock
    <3>1. woken = << >> /\ << >> \in Seq(Task)
      BY <1>11, <2>1
    <3>2. Range(woken) = {}
      BY <3>1, RangeIs
    <3>3. \A t \in Range(w.delayed) : ~(w.wakeAt[t] <= w.tick)
      BY <1>10, <1>13, <1>14, <2>1
    <3> QED
      BY <3>2, <3>3
  <2>2. CASE ~(w.tick < w.nextUnblock)
    BY <1>10, <1>11, <2>2, ExpiredIs
  <2> QED
    BY <2>1, <2>2
<1>16. /\ ListsOk(u)
       /\ \A t \in Task : IsReady(u, t) <=> IsReady(w, t) \/ t \in Range(woken)
       /\ \A t \in Task : OnEvent(u, t) => OnEvent(w, t)
       /\ Range(u.delayed) = Range(w.delayed) \ Range(woken)
       /\ Range(u.overflow) = Range(w.overflow) \ Range(woken)
       /\ \A t \in Task \ Range(woken) : u.wakeAt[t] = w.wakeAt[t]
       /\ u.terminated = w.terminated /\ u.tick = w.tick /\ u.pended = w.pended
       /\ u.yieldPending = w.yieldPending
       /\ \A t \in Range(u.delayed) : u.nextUnblock <= u.wakeAt[t]
  <2>1. CASE w.tick < w.nextUnblock
    <3>1. u = w /\ woken = << >> /\ << >> \in Seq(Task)
      BY <1>11, <1>12, <2>1
    <3>2. Range(woken) = {}
      BY <3>1, RangeIs
    <3> QED
      BY <1>10, <3>1, <3>2
  <2>2. CASE ~(w.tick < w.nextUnblock)
    <3>1. woken = Expired(w)
      BY <1>11, <2>2
    <3>2. woken \in Seq(Task) /\ NoRepeats(woken)
      BY <1>10, <3>1, ExpiredIs
    <3>3. Range(woken) \subseteq Delayed(w)
      BY <1>15 DEF Delayed
    <3>4. PICK v : v = Unblock(w, woken)
      OBVIOUS
    <3>5. /\ ListsOk(v)
          /\ \A t \in Task : IsReady(v, t) <=> IsReady(w, t) \/ t \in Range(woken)
          /\ \A t \in Task : OnEvent(v, t) => OnEvent(w, t)
          /\ Range(v.delayed) = Range(w.delayed) \ Range(woken)
          /\ Range(v.overflow) = Range(w.overflow) \ Range(woken)
          /\ \A t \in Task \ Range(woken) : v.wakeAt[t] = w.wakeAt[t]
          /\ SameClocks(v, w)
      BY <1>10, <3>2, <3>3, <3>4, UnblockIs
    <3>6. u = ResetNextTaskUnblockTime(v)
      BY <1>12, <2>2, <3>4
    <3>7. /\ ListsOk(u) /\ SameLists(u, v)
          /\ u.delayed = v.delayed /\ u.overflow = v.overflow
          /\ u.terminated = v.terminated /\ u.tick = v.tick /\ u.pended = v.pended
          /\ u.yieldPending = v.yieldPending
          /\ \A t \in Range(v.delayed) : u.nextUnblock <= v.wakeAt[t]
      BY <3>5, <3>6, ResetNextTaskUnblockTimeIs
    <3>8. /\ \A t \in Task : IsReady(u, t) <=> IsReady(v, t)
          /\ \A t \in Task : OnEvent(u, t) <=> OnEvent(v, t)
          /\ u.wakeAt = v.wakeAt
      BY <3>7 DEF SameLists, IsReady, OnEvent
    <3> QED
      BY <3>5, <3>7, <3>8 DEF SameClocks
  <2> QED
    BY <2>1, <2>2
<1>17. InTime(u)
  <2>1. ASSUME NEW t \in Range(u.delayed)
        PROVE  u.wakeAt[t] > u.tick /\ u.nextUnblock <= u.wakeAt[t]
    <3>1. t \in Range(w.delayed) /\ t \notin Range(woken) /\ t \in Task
      BY <1>14, <1>16
    <3>2. ~(w.wakeAt[t] <= w.tick) /\ w.wakeAt[t] \in Int /\ w.tick \in Int
      BY <1>10, <1>13, <1>15, <3>1
    <3> QED
      BY <1>16, <3>1, <3>2
  <2>2. ASSUME NEW t \in Range(u.overflow) PROVE u.wakeAt[t] < u.tick
    BY <1>10, <1>14, <1>16
  <2> QED
    BY <2>1, <2>2 DEF InTime
<1>18. \A t \in Task : /\ IsReady(w, t) <=> IsReady(s, t)
                       /\ OnEvent(w, t) <=> OnEvent(s, t)
  BY <1>10 DEF SameLists, IsReady, OnEvent
<1>19. \A t : t \in Delayed(u) <=> t \in Delayed(s) /\ t \notin Range(woken)
  BY <1>10, <1>16 DEF Delayed
<1>20. \A t \in Range(woken) : t \in Delayed(s) /\ t \in Range(w.delayed)
  BY <1>10, <1>15 DEF Delayed
<1>21. ASSUME NEW t \in Delayed(u) PROVE ToWake(u, t) = ToWake(s, t) - 1
  <2>1. t \in Delayed(w) /\ t \notin Range(woken) /\ t \in Task
    BY <1>10, <1>14, <1>19 DEF Delayed
  <2>2. ToWake(u, t) = ToWake(w, t)
    BY <1>16, <2>1 DEF ToWake
  <2> QED
    BY <1>10, <2>1, <2>2
<1>22. ASSUME NEW t \in Range(woken) PROVE ToWake(s, t) = 1
  <2>1. t \in Range(w.delayed) /\ t \in Delayed(w) /\ w.wakeAt[t] <= w.tick /\ t \in Task
    BY <1>10, <1>14, <1>15, <1>20
  <2>2. w.wakeAt[t] = w.tick
    BY <1>10, <1>13, <2>1
  <2>3. ToWake(w, t) = 0
    <3>1. w.wakeAt[t] \in Int /\ w.wakeAt[t] - w.wakeAt[t] = 0
      BY <1>13, <2>1
    <3> QED
      BY <2>1, <2>2, <3>1 DEF ToWake
  <2>4. ToWake(s, t) \in Int
    BY <1>1, <2>1, ClocksAre DEF ToWake
  <2>5. ToWake(w, t) = ToWake(s, t) - 1
    BY <1>10, <2>1
  <2> QED
    BY <2>3, <2>4, <2>5
<1>23. PICK i : i = IncrementTick(s)
  OBVIOUS
<1>24. /\ i.data = u
       /\ i.switch = (\/ \E t \in Range(woken) : Priority[t] >= Priority[cur]
                      \/ Cardinality(RingItems(u.ready[Priority[cur]])) > 1
                      \/ u.yieldPending)
  BY <1>2, <1>4, <1>8, <1>11, <1>12, <1>23 DEF IncrementTick
<1>25. i.switch \in BOOLEAN
  BY <1>24
<1>26. s.yieldPending => i.switch
  BY <1>10, <1>16, <1>24
<1>27. \A t \in Range(woken) : Priority[t] >= Priority[cur] => i.switch
  BY <1>24
<1>28. \A t \in Task : Placed(u, t) <=> Placed(s, t)
  BY <1>16, <1>18, <1>19, <1>20 DEF Placed
<1>29. \A t \in Task : /\ IsReady(s, t) => IsReady(u, t)
                       /\ OnEvent(u, t) => OnEvent(s, t)
                       /\ IsReady(u, t) /\ ~IsReady(s, t) => t \in Range(woken)
  BY <1>16, <1>18
<1>30. DataOk(u)
  BY <1>16, <1>17 DEF DataOk
<1>31. /\ u.terminated = s.terminated /\ u.pended = s.pended
       /\ u.yieldPending = s.yieldPending
       /\ u.tick = IF s.tick = MaxDelay THEN 0 ELSE s.tick + 1
  BY <1>3, <1>10, <1>16
<1>32. u = i.data
  BY <1>24
<1> QED
  BY <1>21, <1>22, <1>23, <1>25, <1>26, <1>27, <1>28, <1>29, <1>30, <1>31, <1>32

(* x is a number of whole rounds of the tick count. *)
Multiple(x) == \E q \in Int : x = q * TickSpan

(* Sums of whole rounds are whole rounds, and of those near 0 there are  *)
(* three.                                                                *)
LEMMA MultipleIs ==
    ASSUME NEW x \in Int
    PROVE  /\ Multiple(0)
           /\ Multiple(x) => Multiple(x + TickSpan) /\ Multiple(x - TickSpan)
           /\ Multiple(x) /\ -2 * TickSpan < x /\ x < 2 * TickSpan => x \in {-TickSpan, 0, TickSpan}
           /\ \A y \in Int : Multiple(x) /\ Multiple(y) => Multiple(x + y)
<1>0. TickSpan \in Int /\ TickSpan > 1
  BY SpanAssumption
<1>1. Multiple(0)
  <2>1. 0 \in Int /\ 0 = 0 * TickSpan
    BY <1>0
  <2> QED
    BY <2>1 DEF Multiple
<1>2. ASSUME NEW y \in Int, Multiple(x), Multiple(y) PROVE Multiple(x + y)
  <2>1. PICK a \in Int : x = a * TickSpan
    BY <1>2 DEF Multiple
  <2>2. PICK b \in Int : y = b * TickSpan
    BY <1>2 DEF Multiple
  <2>3. a + b \in Int /\ x + y = (a + b) * TickSpan
    BY <1>0, <2>1, <2>2
  <2> QED
    BY <2>3 DEF Multiple
<1>3. Multiple(TickSpan) /\ Multiple(-TickSpan) /\ -TickSpan \in Int
  <2>1. 1 \in Int /\ -1 \in Int /\ TickSpan = 1 * TickSpan /\ -TickSpan = (-1) * TickSpan
    BY <1>0
  <2> QED
    BY <1>0, <2>1 DEF Multiple
<1>4. ASSUME Multiple(x) PROVE Multiple(x + TickSpan) /\ Multiple(x - TickSpan)
  <2>1. Multiple(x + TickSpan) /\ Multiple(x + (-TickSpan))
    BY <1>0, <1>2, <1>3, <1>4
  <2>2. x + (-TickSpan) = x - TickSpan
    BY <1>0
  <2> QED
    BY <2>1, <2>2
<1>5. ASSUME Multiple(x), -2 * TickSpan < x, x < 2 * TickSpan
      PROVE  x \in {-TickSpan, 0, TickSpan}
  <2>1. PICK a \in Int : x = a * TickSpan
    BY <1>5 DEF Multiple
  <2>2. ASSUME a >= 2 PROVE FALSE
    <3>1. (a - 2) * TickSpan >= 0 /\ (a - 2) * TickSpan = a * TickSpan - 2 * TickSpan
      BY <1>0, <2>2
    <3> QED
      BY <1>0, <1>5, <2>1, <3>1
  <2>3. ASSUME a <= -2 PROVE FALSE
    <3>1. (-2 - a) * TickSpan >= 0 /\ (-2 - a) * TickSpan = -2 * TickSpan - a * TickSpan
      BY <1>0, <2>3
    <3> QED
      BY <1>0, <1>5, <2>1, <3>1
  <2>4. a = -1 \/ a = 0 \/ a = 1
    BY <2>2, <2>3
  <2>5. 0 * TickSpan = 0 /\ 1 * TickSpan = TickSpan /\ (-1) * TickSpan = -TickSpan
    BY <1>0
  <2> QED
    BY <2>1, <2>4, <2>5
<1> QED
  BY <1>1, <1>2, <1>4, <1>5

(* xYieldPending is no part of what keeps the lists consistent. *)
LEMMA PendingIs ==
    ASSUME NEW s, DataOk(s), NEW b \in BOOLEAN
    PROVE  LET r == [s EXCEPT !.yieldPending = b] IN
           /\ DataOk(r) /\ r.yieldPending = b
           /\ SameLists(r, s) /\ r.delayed = s.delayed /\ r.overflow = s.overflow
           /\ r.terminated = s.terminated /\ r.tick = s.tick /\ r.pended = s.pended
           /\ r.nextUnblock = s.nextUnblock
<1>1. PICK r : r = [s EXCEPT !.yieldPending = b]
  OBVIOUS
<1>2. s \in KernelData
  BY DEF DataOk, ListsOk
<1>3. r \in KernelData
  BY <1>1, <1>2 DEF KernelData
<1>4. /\ r.yieldPending = b
      /\ SameLists(r, s) /\ r.delayed = s.delayed /\ r.overflow = s.overflow
      /\ r.terminated = s.terminated /\ r.tick = s.tick /\ r.pended = s.pended
      /\ r.nextUnblock = s.nextUnblock
  BY <1>1, <1>2 DEF KernelData, SameLists
<1>5. DataOk(r)
  BY <1>3, <1>4 DEF DataOk, SameLists, ListsOk, InTime, GenericOk, EventsOk, EventsSleep, TopOk,
                    Sorted, Delayed, OnEvent, IsReady
<1> QED
  BY <1>1, <1>4, <1>5

(* r and s hold the same tasks; a ready task stays ready and no task     *)
(* starts to wait.                                                       *)
SameTasks(r, s) ==
    /\ \A t \in Task : Placed(r, t) <=> Placed(s, t)
    /\ \A t \in Task : IsReady(s, t) => IsReady(r, t)
    /\ \A t \in Task : OnEvent(r, t) => OnEvent(s, t)

(* r is s after n ticks. *)
Later(r, s, n) ==
    /\ DataOk(r) /\ SameTasks(r, s)
    /\ r.terminated = s.terminated /\ r.pended = s.pended
    /\ Multiple(r.tick - s.tick - n)
    /\ \A t \in Delayed(r) : ToWake(r, t) = ToWake(s, t) - n
    /\ \A t \in Task : IsReady(r, t) /\ ~IsReady(s, t) => ToWake(s, t) <= n
    /\ \A t \in Task : IsReady(r, t) /\ ~IsReady(s, t) /\ Priority[t] > Priority[cur] =>
            r.yieldPending
    /\ s.yieldPending => r.yieldPending

(* A pended tick, as xTaskResumeAll unwinds it. *)
OneTick(s) ==
    LET i == IncrementTick(s) IN [i.data EXCEPT !.yieldPending = @ \/ i.switch]

(* A task is never both ready and asleep. *)
LEMMA ReadyOrDelayed ==
    ASSUME NEW s, DataOk(s), NEW t \in Task
    PROVE  ~(IsReady(s, t) /\ t \in Delayed(s))
BY PrioritiesAre, TaskAssumption DEF DataOk, ListsOk, GenericOk, IsReady, RingItems

(* Unwinding a pended tick is one tick. *)
LEMMA OneTickIs ==
    ASSUME NEW s, DataOk(s), cur \in Task
    PROVE  Later(OneTick(s), s, 1)
<1>1. PICK i : i = IncrementTick(s)
  OBVIOUS
<1>2. PICK q : q = i.data
  OBVIOUS
<1>3. /\ DataOk(q) /\ i.switch \in BOOLEAN
      /\ q.terminated = s.terminated /\ q.pended = s.pended
      /\ q.yieldPending = s.yieldPending /\ (s.yieldPending => i.switch)
      /\ q.tick = IF s.tick = MaxDelay THEN 0 ELSE s.tick + 1
      /\ \A t \in Task : Placed(q, t) <=> Placed(s, t)
      /\ \A t \in Task : IsReady(s, t) => IsReady(q, t)
      /\ \A t \in Task : OnEvent(q, t) => OnEvent(s, t)
      /\ \A t \in Delayed(q) : ToWake(q, t) = ToWake(s, t) - 1
      /\ \A t \in Task : IsReady(q, t) /\ ~IsReady(s, t) =>
           ToWake(s, t) = 1 /\ (Priority[t] >= Priority[cur] => i.switch)
  BY <1>1, <1>2, IncrementTickIs
<1>4. q \in KernelData /\ q.yieldPending \in BOOLEAN /\ s \in KernelData
  BY <1>3, KernelParts DEF DataOk, ListsOk
<1>5. PICK b \in BOOLEAN : b = (q.yieldPending \/ i.switch)
  OBVIOUS
<1>6. PICK r : r = [q EXCEPT !.yieldPending = b]
  OBVIOUS
<1>7. r = OneTick(s)
  BY <1>1, <1>2, <1>4, <1>5, <1>6 DEF OneTick, KernelData
<1>8. /\ DataOk(r) /\ r.yieldPending = b
      /\ SameLists(r, q) /\ r.delayed = q.delayed /\ r.overflow = q.overflow
      /\ r.terminated = q.terminated /\ r.tick = q.tick /\ r.pended = q.pended
  BY <1>3, <1>6, PendingIs
<1>9. /\ \A t \in Task : IsReady(r, t) <=> IsReady(q, t)
      /\ \A t \in Task : OnEvent(r, t) <=> OnEvent(q, t)
      /\ Delayed(r) = Delayed(q)
      /\ \A t \in Task : Placed(r, t) <=> Placed(q, t)
      /\ \A t : ToWake(r, t) = ToWake(q, t)
  BY <1>8 DEF SameLists, IsReady, OnEvent, Delayed, Placed, ToWake
<1>10. SameTasks(r, s)
  BY <1>3, <1>9 DEF SameTasks
<1>11. Multiple(r.tick - s.tick - 1)
  <2>1. /\ s.tick \in Int /\ MaxDelay = TickSpan - 1 /\ TickSpan \in Int
    BY <1>4, ClocksAre
  <2>2. r.tick - s.tick - 1 = 0 \/ r.tick - s.tick - 1 = 0 - TickSpan
    BY <1>3, <1>8, <2>1
  <2>3. Multiple(0) /\ Multiple(0 - TickSpan)
    BY MultipleIs, 0 \in Int
  <2> QED
    BY <2>2, <2>3
<1>12. \A t \in Task : IsReady(r, t) /\ ~IsReady(s, t) =>
          ToWake(s, t) <= 1 /\ (Priority[t] > Priority[cur] => r.yieldPending)
  <2>1. \A t \in Task : Priority[t] \in Int
    BY PrioritiesAre
  <2>2. ASSUME NEW t \in Task, IsReady(r, t), ~IsReady(s, t)
        PROVE  ToWake(s, t) <= 1 /\ (Priority[t] > Priority[cur] => r.yieldPending)
    <3>1. ToWake(s, t) = 1 /\ (Priority[t] >= Priority[cur] => i.switch)
      BY <1>3, <1>9, <2>2
    <3>2. Priority[t] > Priority[cur] => Priority[t] >= Priority[cur]
      BY <2>1
    <3>3. ToWake(s, t) <= 1
      BY <3>1
    <3>4. i.switch => r.yieldPending
      BY <1>5, <1>8
    <3> QED
      BY <3>1, <3>2, <3>3, <3>4
  <2> QED
    BY <2>2
<1>13. s.yieldPending => r.yieldPending
  BY <1>3, <1>5, <1>8
<1> QED
  BY <1>3, <1>7, <1>8, <1>9, <1>10, <1>11, <1>12, <1>13 DEF Later

(* A tick after n ticks. *)
LEMMA LaterThen ==
    ASSUME NEW s, DataOk(s), NEW n \in Nat, NEW q, Later(q, s, n), NEW r, Later(r, q, 1)
    PROVE  Later(r, s, n + 1)
<1>1. /\ DataOk(r) /\ r.terminated = s.terminated /\ r.pended = s.pended
      /\ SameTasks(r, s)
      /\ (s.yieldPending => r.yieldPending)
  BY DEF Later, SameTasks
<1>2. /\ s.tick \in Int /\ q.tick \in Int /\ r.tick \in Int /\ TickSpan \in Int
      /\ \A t \in Task : s.wakeAt[t] \in Int /\ q.wakeAt[t] \in Int /\ r.wakeAt[t] \in Int
      /\ Delayed(s) \subseteq Task /\ Delayed(q) \subseteq Task /\ Delayed(r) \subseteq Task
  BY ClocksAre, DelayedIs DEF Later, DataOk, ListsOk
<1>3. \A t \in Task : ToWake(s, t) \in Int /\ ToWake(q, t) \in Int /\ ToWake(r, t) \in Int
  BY <1>2 DEF ToWake
<1>4. Multiple(r.tick - s.tick - (n + 1))
  <2>1. PICK a \in Int : a = q.tick - s.tick - n
    BY <1>2
  <2>2. PICK b \in Int : b = r.tick - q.tick - 1
    BY <1>2
  <2>3. Multiple(a) /\ Multiple(b)
    BY <2>1, <2>2 DEF Later
  <2>4. a + b = r.tick - s.tick - (n + 1)
    BY <1>2, <2>1, <2>2
  <2> QED
    BY <2>3, <2>4, MultipleIs
<1>5. ASSUME NEW t \in Delayed(r) PROVE ToWake(r, t) = ToWake(s, t) - (n + 1)
  <2>1. t \in Task /\ Placed(r, t) /\ ~IsReady(r, t)
    BY <1>1, <1>2, ReadyOrDelayed DEF Placed
  <2>2. Placed(q, t) /\ ~IsReady(q, t)
    BY <2>1 DEF Later, SameTasks
  <2>3. t \in Delayed(q)
    BY <2>2 DEF Placed
  <2>4. ToWake(r, t) = ToWake(q, t) - 1 /\ ToWake(q, t) = ToWake(s, t) - n
    BY <2>3 DEF Later
  <2> QED
    BY <1>3, <2>1, <2>4
<1>6. ASSUME NEW t \in Task, IsReady(r, t), ~IsReady(s, t)
      PROVE  ToWake(s, t) <= n + 1 /\ (Priority[t] > Priority[cur] => r.yieldPending)
  <2>1. CASE IsReady(q, t)
    BY <1>3, <1>6, <2>1 DEF Later
  <2>2. CASE ~IsReady(q, t)
    <3>1. t \in Delayed(q)
      BY <1>1, <1>6, <2>2 DEF Later, SameTasks, Placed
    <3>2. ToWake(q, t) = ToWake(s, t) - n /\ ToWake(q, t) <= 1
      BY <1>6, <2>2, <3>1 DEF Later
    <3>3. Priority[t] > Priority[cur] => r.yieldPending
      BY <1>6, <2>2 DEF Later
    <3> QED
      BY <1>3, <3>2, <3>3
  <2> QED
    BY <2>1, <2>2
<1> QED
  BY <1>1, <1>4, <1>5, <1>6 DEF Later

(* The recursive function of CatchUp, and its defining equation. *)
Caught(N, m) ==
    CHOOSE after : after = [n \in 0 .. N |->
        IF n = 0 THEN m
        ELSE LET i == IncrementTick(after[n - 1]) IN [i.data EXCEPT !.yieldPending = @ \/ i.switch]]

IsCaught(f, N, m) ==
    f = [n \in 0 .. N |->
        IF n = 0 THEN m
        ELSE LET i == IncrementTick(f[n - 1]) IN [i.data EXCEPT !.yieldPending = @ \/ i.switch]]

(* A function satisfies the equation of CatchUp. *)
LEMMA CaughtExists ==
    ASSUME NEW N \in Nat, NEW m, DataOk(m), cur \in Task
    PROVE  IsCaught(Caught(N, m), N, m)
<1> DEFINE K == {r \in KernelData : DataOk(r)}
           step == [n \in 1 .. N |-> [s \in K |-> OneTick(s)]]
<1>1. ASSUME NEW s \in K PROVE OneTick(s) \in K
  <2>1. DataOk(OneTick(s))
    BY OneTickIs DEF Later
  <2> QED
    BY <2>1 DEF DataOk, ListsOk
<1>2. Steps(step, N, K)
  BY <1>1 DEF Steps
<1>3. \A n \in 1 .. N, s \in K : step[n][s] = OneTick(s)
  OBVIOUS
<1>4. m \in K
  BY DEF DataOk, ListsOk
<1> HIDE DEF step, K
<1>5. PICK f : Iterates(f, step, m, N, K)
  BY <1>2, <1>4, Iteration
<1>6. f \in [0 .. N -> K] /\ f[0] = m /\ \A i \in 1 .. N : f[i] = step[i][f[i - 1]]
  BY <1>5 DEF Iterates
<1>7. ASSUME NEW n \in 0 .. N PROVE f[n] = IF n = 0 THEN m ELSE OneTick(f[n - 1])
  <2>1. CASE n = 0
    BY <1>6, <2>1
  <2>2. CASE n # 0
    <3>1. n \in 1 .. N /\ f[n - 1] \in K
      BY <1>6, <2>2
    <3> QED
      BY <1>3, <1>6, <2>2, <3>1
  <2> QED
    BY <2>1, <2>2
<1>8. f = [n \in 0 .. N |-> IF n = 0 THEN m ELSE OneTick(f[n - 1])]
  BY <1>6, <1>7
<1>9. IsCaught(f, N, m)
  BY <1>8 DEF IsCaught, OneTick
<1> QED
  BY <1>9 DEF Caught, IsCaught

(* Unwinding n pended ticks is n ticks. *)
LEMMA CaughtIs ==
    ASSUME NEW N \in Nat, NEW m, DataOk(m), cur \in Task
    PROVE  Later(Caught(N, m)[N], m, N)
<1>1. PICK f : f = Caught(N, m)
  OBVIOUS
<1>2. IsCaught(f, N, m)
  BY <1>1, CaughtExists
<1>3. f = [n \in 0 .. N |-> IF n = 0 THEN m ELSE OneTick(f[n - 1])]
  BY <1>2 DEF IsCaught, OneTick
<1>4. \A n \in 0 .. N : f[n] = IF n = 0 THEN m ELSE OneTick(f[n - 1])
  BY <1>3
<1> DEFINE T == {n \in 0 .. N : Later(f[n], m, n)}
<1>5. 0 \in T
  <2>1. f[0] = m
    BY <1>4
  <2>2. m.tick \in Int /\ m.tick - m.tick - 0 = 0 /\ Multiple(0)
    BY ClocksAre, MultipleIs, 0 \in Int DEF DataOk, ListsOk
  <2>3. Delayed(m) \subseteq Task /\ \A t \in Task : ToWake(m, t) \in Int
    BY ClocksAre, DelayedIs DEF ToWake, DataOk, ListsOk
  <2>4. Later(m, m, 0)
    BY <2>2, <2>3 DEF Later, SameTasks
  <2> QED
    BY <2>1, <2>4
<1>6. ASSUME NEW n \in 1 .. N, n - 1 \in T PROVE n \in T
  <2>1. Later(f[n - 1], m, n - 1) /\ n - 1 \in Nat /\ f[n] = OneTick(f[n - 1])
    BY <1>4, <1>6
  <2>2. Later(f[n], f[n - 1], 1)
    BY <2>1, OneTickIs DEF Later
  <2>3. Later(f[n], m, (n - 1) + 1)
    BY <2>1, <2>2, LaterThen
  <2>4. (n - 1) + 1 = n
    OBVIOUS
  <2> QED
    BY <2>3, <2>4
<1> HIDE DEF T
<1>7. \A n \in 0 .. N : n \in T
  BY <1>5, <1>6, SetInduction
<1>8. N \in T
  BY <1>7
<1> QED
  BY <1>1, <1>8 DEF T

(* xTaskResumeAll moves the pending tasks to their ready lists and       *)
(* leaves the others where they are.                                     *)
LEMMA MovedIs ==
    ASSUME NEW s, DataOk(s)
    PROVE  LET r == Unblock(s, s.pendingReady) IN
           /\ DataOk(r) /\ SameTasks(r, s) /\ SameClocks(r, s)
           /\ \A t \in Delayed(r) : ToWake(r, t) = ToWake(s, t)
           /\ \A t \in Task : IsReady(r, t) /\ ~IsReady(s, t) => t \in Range(s.pendingReady)
<1>1. ListsOk(s) /\ InTime(s) /\ s \in KernelData
  BY DEF DataOk, ListsOk
<1>2. PICK p : p = s.pendingReady
  OBVIOUS
<1>3. p \in Seq(Task) /\ NoRepeats(p) /\ Range(p) \subseteq Delayed(s) /\ Range(p) \subseteq Task
  <2>1. p \in Seq(Task)
    BY <1>1, <1>2, KernelParts DEF ListType
  <2>2. Range(p) \subseteq Task
    BY <2>1, RangeIs
  <2> QED
    BY <1>1, <1>2, <2>1, <2>2 DEF ListsOk, EventsOk, EventsSleep, OnEvent
<1>4. PICK r : r = Unblock(s, p)
  OBVIOUS
<1>5. /\ ListsOk(r)
      /\ \A t \in Task : IsReady(r, t) <=> IsReady(s, t) \/ t \in Range(p)
      /\ \A t \in Task : OnEvent(r, t) => OnEvent(s, t)
      /\ Range(r.delayed) = Range(s.delayed) \ Range(p)
      /\ Range(r.overflow) = Range(s.overflow) \ Range(p)
      /\ \A t \in Task \ Range(p) : r.wakeAt[t] = s.wakeAt[t]
      /\ SameClocks(r, s)
  BY <1>1, <1>3, <1>4, UnblockIs
<1>6. Range(s.delayed) \subseteq Task /\ Range(s.overflow) \subseteq Task
  BY <1>1, DelayedIs
<1>7. InTime(r)
  BY <1>1, <1>5, <1>6 DEF InTime, SameClocks
<1>8. \A t : t \in Delayed(r) <=> t \in Delayed(s) /\ t \notin Range(p)
  BY <1>5 DEF Delayed
<1>9. SameTasks(r, s)
  BY <1>3, <1>5, <1>8 DEF SameTasks, Placed
<1>10. \A t \in Delayed(r) : ToWake(r, t) = ToWake(s, t)
  <2>1. ASSUME NEW t \in Delayed(r) PROVE ToWake(r, t) = ToWake(s, t)
    <3>1. t \in Task /\ t \notin Range(p)
      BY <1>6, <1>8 DEF Delayed
    <3> QED
      BY <1>5, <3>1 DEF ToWake, SameClocks
  <2> QED
    BY <2>1
<1> QED
  BY <1>2, <1>4, <1>5, <1>7, <1>9, <1>10 DEF DataOk

(* What xTaskResumeAll has done when the last suspension ends: it holds  *)
(* the same tasks, as many ticks later as were pended, and a task that   *)
(* became ready above the current one leaves a yield pending.            *)
LEMMA CatchUpIs ==
    ASSUME NEW s, DataOk(s), cur \in Task
    PROVE  LET c == CatchUp(s) IN
           /\ DataOk(c) /\ SameTasks(c, s)
           /\ c.terminated = s.terminated /\ c.pended = 0
           /\ Multiple(c.tick - s.tick - s.pended)
           /\ \A t \in Delayed(c) : ToWake(c, t) = ToWake(s, t) - s.pended
           /\ \A t \in Task : IsReady(c, t) /\ ~IsReady(s, t) =>
                OnEvent(s, t) \/ ToWake(s, t) <= s.pended
           /\ \A t \in Task : IsReady(c, t) /\ ~IsReady(s, t) /\ Priority[t] > Priority[cur] =>
                c.yieldPending
           /\ s.yieldPending => c.yieldPending
<1>1. s \in KernelData /\ s.pended \in 0 .. PendedSpan - 1 /\ s.yieldPending \in BOOLEAN
  BY KernelParts DEF DataOk, ListsOk
<1>2. PICK N \in Nat : N = s.pended
  BY <1>1, SpanAssumption
<1>3. PICK u : u = Unblock(s, s.pendingReady)
  OBVIOUS
<1>4. /\ DataOk(u) /\ SameTasks(u, s) /\ SameClocks(u, s)
      /\ \A t \in Delayed(u) : ToWake(u, t) = ToWake(s, t)
      /\ \A t \in Task : IsReady(u, t) /\ ~IsReady(s, t) => t \in Range(s.pendingReady)
  BY <1>3, MovedIs
<1>5. PICK b \in BOOLEAN : b = (s.yieldPending \/ \E t \in Range(s.pendingReady) : Priority[t] >= Priority[cur])
  OBVIOUS
<1>6. PICK m : m = [u EXCEPT !.yieldPending = b]
  OBVIOUS
<1>7. /\ DataOk(m) /\ m.yieldPending = b
      /\ SameLists(m, u) /\ m.delayed = u.delayed /\ m.overflow = u.overflow
      /\ m.terminated = u.terminated /\ m.tick = u.tick /\ m.pended = u.pended
  BY <1>4, <1>6, PendingIs
<1>8. m = [Unblock(s, s.pendingReady) EXCEPT !.yieldPending =
                    @ \/ \E t \in Range(s.pendingReady) : Priority[t] >= Priority[cur]]
  <2>1. u.yieldPending = s.yieldPending
    BY <1>4 DEF SameClocks
  <2>2. m = [u EXCEPT !.yieldPending = u.yieldPending \/ \E t \in Range(s.pendingReady) : Priority[t] >= Priority[cur]]
    BY <1>5, <1>6, <2>1
  <2> QED
    BY <1>3, <2>2
<1>9. PICK f : f = Caught(N, m)
  OBVIOUS
<1>10. PICK a : a = f[N]
  OBVIOUS
<1>11. Later(a, m, N)
  BY <1>7, <1>9, <1>10, CaughtIs
<1>12. PICK c : c = [a EXCEPT !.pended = 0]
  OBVIOUS
<1>13. c = CatchUp(s)
  BY <1>2, <1>8, <1>9, <1>10, <1>12 DEF CatchUp, Caught
<1>14. /\ DataOk(a) /\ SameTasks(a, m)
       /\ a.terminated = m.terminated
       /\ Multiple(a.tick - m.tick - N)
       /\ \A t \in Delayed(a) : ToWake(a, t) = ToWake(m, t) - N
       /\ \A t \in Task : IsReady(a, t) /\ ~IsReady(m, t) => ToWake(m, t) <= N
       /\ \A t \in Task : IsReady(a, t) /\ ~IsReady(m, t) /\ Priority[t] > Priority[cur] =>
            a.yieldPending
       /\ m.yieldPending => a.yieldPending
  BY <1>11 DEF Later
<1>15. a \in KernelData
  BY <1>14 DEF DataOk, ListsOk
<1>16. /\ SameLists(c, a) /\ c.delayed = a.delayed /\ c.overflow = a.overflow
       /\ c.terminated = a.terminated /\ c.tick = a.tick /\ c.pended = 0
       /\ c.nextUnblock = a.nextUnblock /\ c.yieldPending = a.yieldPending
       /\ c \in KernelData
  <2>1. 0 \in 0 .. PendedSpan - 1
    BY SpanAssumption
  <2> QED
    BY <1>12, <1>15, <2>1 DEF KernelData, SameLists
<1>17. DataOk(c)
  BY <1>14, <1>16 DEF DataOk, SameLists, ListsOk, InTime, GenericOk, EventsOk, EventsSleep, TopOk,
                    Sorted, Delayed, OnEvent, IsReady
<1>18. /\ \A t \in Task : IsReady(c, t) <=> IsReady(a, t)
       /\ \A t \in Task : OnEvent(c, t) <=> OnEvent(a, t)
       /\ Delayed(c) = Delayed(a)
       /\ \A t \in Task : Placed(c, t) <=> Placed(a, t)
       /\ \A t : ToWake(c, t) = ToWake(a, t)
  BY <1>16 DEF SameLists, IsReady, OnEvent, Delayed, Placed, ToWake
<1>19. /\ \A t \in Task : IsReady(m, t) <=> IsReady(u, t)
       /\ \A t \in Task : OnEvent(m, t) <=> OnEvent(u, t)
       /\ Delayed(m) = Delayed(u)
       /\ \A t \in Task : Placed(m, t) <=> Placed(u, t)
       /\ \A t : ToWake(m, t) = ToWake(u, t)
  BY <1>7 DEF SameLists, IsReady, OnEvent, Delayed, Placed, ToWake
<1>20. SameTasks(c, s)
  BY <1>4, <1>14, <1>18, <1>19 DEF SameTasks
<1>21. Multiple(c.tick - s.tick - s.pended)
  <2>1. c.tick = a.tick /\ m.tick = s.tick /\ N = s.pended
    BY <1>2, <1>4, <1>7, <1>16 DEF SameClocks
  <2> QED
    BY <1>14, <2>1
<1>22. Delayed(u) \subseteq Task /\ Delayed(a) \subseteq Task
  BY <1>4, <1>15, DelayedIs DEF Delayed, DataOk, ListsOk
<1>23. ASSUME NEW t \in Delayed(c) PROVE ToWake(c, t) = ToWake(s, t) - s.pended
  <2>1. t \in Delayed(a) /\ t \in Task /\ Placed(a, t)
    BY <1>18, <1>22 DEF Placed
  <2>2. ~IsReady(a, t)
    BY <1>14, <2>1, ReadyOrDelayed
  <2>3. Placed(m, t) /\ ~IsReady(m, t)
    BY <1>14, <2>1, <2>2 DEF SameTasks
  <2>4. t \in Delayed(u)
    BY <1>19, <2>3 DEF Placed
  <2> QED
    BY <1>2, <1>4, <1>14, <1>18, <1>19, <2>1, <2>4
<1>24. ASSUME NEW t \in Task, IsReady(c, t), ~IsReady(s, t)
       PROVE  /\ OnEvent(s, t) \/ ToWake(s, t) <= s.pended
              /\ Priority[t] > Priority[cur] => c.yieldPending
  <2>1. CASE IsReady(u, t)
    <3>1. t \in Range(s.pendingReady)
      BY <1>4, <1>24, <2>1
    <3>2. Priority[t] > Priority[cur] => Priority[t] >= Priority[cur]
      BY PrioritiesAre
    <3>3. Priority[t] > Priority[cur] => b
      BY <1>5, <3>1, <3>2
    <3>4. b => c.yieldPending
      BY <1>7, <1>14, <1>16
    <3> QED
      BY <3>1, <3>3, <3>4 DEF OnEvent
  <2>2. CASE ~IsReady(u, t)
    <3>1. IsReady(a, t) /\ ~IsReady(m, t)
      BY <1>18, <1>19, <1>24, <2>2
    <3>2. Placed(a, t)
      BY <3>1 DEF Placed
    <3>3. Placed(u, t)
      BY <1>14, <1>19, <3>2 DEF SameTasks
    <3>4. t \in Delayed(u)
      BY <2>2, <3>3 DEF Placed
    <3>5. ToWake(s, t) <= s.pended
      BY <1>2, <1>4, <1>14, <1>19, <3>1, <3>4
    <3> QED
      BY <1>14, <1>16, <3>1, <3>5
  <2> QED
    BY <2>1, <2>2
<1>25. s.yieldPending => c.yieldPending
  BY <1>5, <1>7, <1>14, <1>16
<1>26. c.terminated = s.terminated
  BY <1>4, <1>7, <1>14, <1>16 DEF SameClocks
<1> QED
  BY <1>13, <1>16, <1>17, <1>20, <1>21, <1>23, <1>24, <1>25, <1>26

(* A task that is not in a sorted list yet, put at its place in it. *)
LEMMA TaskInsertIs ==
    ASSUME NEW list \in Seq(Task), NEW task \in Task, NEW value, \A x \in Task : value[x] \in Int,
           InOrder(list, value), NoRepeats(list), task \notin Range(list)
    PROVE  /\ ListInsert(list, task, value) \in Seq(Task)
           /\ Range(ListInsert(list, task, value)) = Range(list) \cup {task}
           /\ NoRepeats(ListInsert(list, task, value))
           /\ InOrder(ListInsert(list, task, value), value)
<1>1. LET r == ListInsert(list, task, value) IN
      /\ r \in Seq(Task) /\ r # << >>
      /\ Range(r) = Range(list) \cup {task}
      /\ NoRepeats(list) /\ task \notin Range(list) => NoRepeats(r)
      /\ InOrder(list, value) => InOrder(r, value)
  BY ListInsertIs, Zenon
<1> QED
  BY <1>1

(* A tick count that is b ticks ahead. *)
LEMMA AheadIs ==
    ASSUME NEW a \in 0 .. MaxDelay, NEW b \in 0 .. MaxDelay
    PROVE  /\ (a + b) % TickSpan \in 0 .. MaxDelay
           /\ (a + b) % TickSpan = IF a + b < TickSpan THEN a + b ELSE a + b - TickSpan
           /\ b > 0 => (a + b) % TickSpan # a
BY SpanAssumption DEF MaxDelay

(* prvAddCurrentTaskToDelayedList puts the current task to sleep until   *)
(* its wake time, on the list of the round in which that time comes, and *)
(* moves no other task.                                                  *)
LEMMA AddCurrentTaskToDelayedListLists ==
    ASSUME NEW s, s \in KernelData, cur \in Task,
           GenericOk(s), EventsOk(s), TopOk(s), Sorted(s),
           \A t \in Task \ {cur} : OnEvent(s, t) => t \in Delayed(s),
           NEW wake \in 0 .. MaxDelay
    PROVE  LET r == AddCurrentTaskToDelayedList(s, wake) IN
           /\ ListsOk(r)
           /\ \A t \in Task : IsReady(r, t) <=> IsReady(s, t) /\ t # cur
           /\ r.pendingReady = s.pendingReady /\ r.waiting = s.waiting
           /\ \A t \in Task : t \in Delayed(r) <=> t \in Delayed(s) \/ t = cur
           /\ Range(r.delayed) = (Range(s.delayed) \ {cur}) \cup (IF wake < s.tick THEN {} ELSE {cur})
           /\ Range(r.overflow) = (Range(s.overflow) \ {cur}) \cup (IF wake < s.tick THEN {cur} ELSE {})
           /\ r.wakeAt[cur] = wake /\ \A t \in Task \ {cur} : r.wakeAt[t] = s.wakeAt[t]
           /\ r.nextUnblock <= s.nextUnblock /\ (~(wake < s.tick) => r.nextUnblock <= wake)
           /\ r.terminated = s.terminated /\ r.tick = s.tick /\ r.pended = s.pended
           /\ r.yieldPending = s.yieldPending
<1>1. PICK q : q = RemoveGenericItems(s, {cur})
  OBVIOUS
<1>2. /\ q \in KernelData
      /\ \A t \in Task : q.wakeAt[t] = IF t \in {cur} THEN 0 ELSE s.wakeAt[t]
      /\ q.delayed = ListRemove(s.delayed, {cur})
      /\ q.overflow = ListRemove(s.overflow, {cur})
      /\ q.top = s.top /\ q.pendingReady = s.pendingReady /\ q.waiting = s.waiting
      /\ SameClocks(q, s)
  BY <1>1, RemoveGenericItemsIs DEF SameClocks
<1>3. /\ GenericOk(q)
      /\ Range(q.delayed) = Range(s.delayed) \ {cur}
      /\ Range(q.overflow) = Range(s.overflow) \ {cur}
      /\ \A t \in Task : IsReady(q, t) <=> IsReady(s, t) /\ t \notin {cur}
  BY <1>1, RemoveGenericItemsOk
<1>4. PICK w : w = [q.wakeAt EXCEPT ![cur] = wake]
  OBVIOUS
<1>5. /\ w \in WakeType /\ w[cur] = wake /\ \A t \in Task \ {cur} : w[t] = s.wakeAt[t]
      /\ \A t \in Task : w[t] \in Int
  <2>1. q.wakeAt \in [Task -> 0 .. MaxDelay]
    BY <1>2, KernelParts DEF WakeType
  <2>2. w \in [Task -> 0 .. MaxDelay]
    BY <1>4, <2>1
  <2>3. \A t \in Task : w[t] \in Int
    BY <2>2, SpanAssumption DEF MaxDelay
  <2>4. w[cur] = wake /\ \A t \in Task \ {cur} : w[t] = s.wakeAt[t]
    BY <1>2, <1>4, <2>1
  <2> QED
    BY <2>2, <2>3, <2>4 DEF WakeType
<1>6. /\ q.delayed \in Seq(Task) /\ InOrder(q.delayed, w) /\ NoRepeats(q.delayed)
      /\ q.overflow \in Seq(Task) /\ InOrder(q.overflow, w) /\ NoRepeats(q.overflow)
      /\ Range(q.delayed) \subseteq Task \ {cur} /\ Range(q.overflow) \subseteq Task \ {cur}
      /\ Range(q.delayed) \cap Range(q.overflow) = {}
  <2>1. s.delayed \in Seq(Task) /\ s.overflow \in Seq(Task)
    BY KernelParts DEF ListType
  <2>2. InOrder(s.delayed, s.wakeAt) /\ InOrder(s.overflow, s.wakeAt)
    BY DEF Sorted
  <2>3. q.delayed \in Seq(Task) /\ InOrder(q.delayed, s.wakeAt)
    BY <1>2, <2>1, <2>2, ListRemoveIs
  <2>4. q.overflow \in Seq(Task) /\ InOrder(q.overflow, s.wakeAt)
    BY <1>2, <2>1, <2>2, ListRemoveIs
  <2>5. Range(q.delayed) \subseteq Task \ {cur} /\ Range(q.overflow) \subseteq Task \ {cur}
    BY <1>3, DelayedIs
  <2>6. InOrder(q.delayed, w)
    BY <1>5, <2>3, <2>5, InOrderSame
  <2>7. InOrder(q.overflow, w)
    BY <1>5, <2>4, <2>5, InOrderSame
  <2> QED
    BY <1>3, <2>3, <2>4, <2>5, <2>6, <2>7 DEF GenericOk
<1>7. /\ s.tick \in Int /\ s.nextUnblock \in Int /\ MaxDelay \in Int /\ TickSpan \in Int
      /\ \A t \in Task : s.wakeAt[t] \in Int
      /\ 0 <= s.nextUnblock /\ s.nextUnblock <= MaxDelay
  BY ClocksAre
<1>8. PICK d : d = IF wake < s.tick THEN q.delayed ELSE ListInsert(q.delayed, cur, w)
  OBVIOUS
<1>9. PICK o : o = IF wake < s.tick THEN ListInsert(q.overflow, cur, w) ELSE q.overflow
  OBVIOUS
<1>10. PICK n : n = IF wake < s.tick THEN s.nextUnblock ELSE Min({s.nextUnblock, wake})
  OBVIOUS
<1>11. /\ d \in Seq(Task) /\ InOrder(d, w) /\ NoRepeats(d)
       /\ Range(d) = Range(q.delayed) \cup (IF wake < s.tick THEN {} ELSE {cur})
  <2>1. CASE wake < s.tick
    BY <1>6, <1>8, <2>1
  <2>2. CASE ~(wake < s.tick)
    <3>1. d = ListInsert(q.delayed, cur, w)
      BY <1>8, <2>2
    <3>2. cur \notin Range(q.delayed)
      BY <1>6
    <3>3. /\ d \in Seq(Task)
          /\ Range(d) = Range(q.delayed) \cup {cur}
          /\ NoRepeats(d)
          /\ InOrder(d, w)
      BY <1>5, <1>6, <3>1, <3>2, TaskInsertIs
    <3> QED
      BY <2>2, <3>3
  <2> QED
    BY <2>1, <2>2
<1>12. /\ o \in Seq(Task) /\ InOrder(o, w) /\ NoRepeats(o)
       /\ Range(o) = Range(q.overflow) \cup (IF wake < s.tick THEN {cur} ELSE {})
  <2>1. CASE ~(wake < s.tick)
    BY <1>6, <1>9, <2>1
  <2>2. CASE wake < s.tick
    <3>1. o = ListInsert(q.overflow, cur, w)
      BY <1>9, <2>2
    <3>2. cur \notin Range(q.overflow)
      BY <1>6
    <3>3. /\ o \in Seq(Task)
          /\ Range(o) = Range(q.overflow) \cup {cur}
          /\ NoRepeats(o)
          /\ InOrder(o, w)
      BY <1>5, <1>6, <3>1, <3>2, TaskInsertIs
    <3> QED
      BY <2>2, <3>3
  <2> QED
    BY <2>1, <2>2
<1>13. n \in 0 .. MaxDelay /\ n <= s.nextUnblock /\ (~(wake < s.tick) => n <= wake)
  <2>1. {s.nextUnblock, wake} \subseteq Nat
    BY <1>7
  <2>2. /\ Min({s.nextUnblock, wake}) \in {s.nextUnblock, wake}
        /\ \A x \in {s.nextUnblock, wake} : Min({s.nextUnblock, wake}) <= x
    BY <2>1, MinIs
  <2> QED
    BY <1>7, <1>10, <2>2
<1>14. PICK r : r = [q EXCEPT !.wakeAt = w, !.delayed = d, !.overflow = o, !.nextUnblock = n]
  OBVIOUS
<1>15. r \in KernelData
  BY <1>2, <1>5, <1>11, <1>12, <1>13, <1>14 DEF KernelData, ListType, TickType
<1>16. /\ r.wakeAt = w /\ r.delayed = d /\ r.overflow = o /\ r.nextUnblock = n
       /\ r.ready = q.ready /\ r.top = s.top
       /\ r.pendingReady = s.pendingReady /\ r.waiting = s.waiting
       /\ r.terminated = s.terminated /\ r.tick = s.tick /\ r.pended = s.pended
       /\ r.yieldPending = s.yieldPending
  BY <1>2, <1>14 DEF KernelData, SameClocks
<1>17. AddCurrentTaskToDelayedList(s, wake) = r
  <2>1. q.wakeAt \in [Task -> 0 .. MaxDelay] /\ q.nextUnblock = s.nextUnblock
    BY <1>2, KernelParts DEF WakeType, SameClocks
  <2>2. PICK v : v = [q EXCEPT !.wakeAt[cur] = wake]
    OBVIOUS
  <2>3. v = [q EXCEPT !.wakeAt = w] /\ v.wakeAt = w /\ v.delayed = q.delayed
        /\ v.overflow = q.overflow /\ v.nextUnblock = s.nextUnblock
    BY <1>2, <1>4, <2>1, <2>2 DEF KernelData
  <2>4. CASE wake < s.tick
    <3>1. AddCurrentTaskToDelayedList(s, wake) = [v EXCEPT !.overflow = ListInsert(@, cur, v.wakeAt)]
      BY <1>1, <2>2, <2>4 DEF AddCurrentTaskToDelayedList
    <3>2. AddCurrentTaskToDelayedList(s, wake) = [v EXCEPT !.overflow = o]
      BY <1>2, <1>9, <2>3, <2>4, <3>1
    <3>3. d = v.delayed /\ n = v.nextUnblock
      BY <1>8, <1>10, <2>3, <2>4
    <3>4. r = [v EXCEPT !.overflow = o, !.delayed = d, !.nextUnblock = n]
      BY <1>2, <1>14, <2>3 DEF KernelData
    <3>5. v \in KernelData
      BY <1>2, <1>5, <2>3 DEF KernelData
    <3>6. [v EXCEPT !.overflow = o, !.delayed = v.delayed, !.nextUnblock = v.nextUnblock]
            = [v EXCEPT !.overflow = o]
      BY <3>5 DEF KernelData
    <3> QED
      BY <3>2, <3>3, <3>4, <3>6
  <2>5. CASE ~(wake < s.tick)
    <3>1. AddCurrentTaskToDelayedList(s, wake) =
            [v EXCEPT !.delayed = ListInsert(@, cur, v.wakeAt), !.nextUnblock = Min({@, wake})]
      BY <1>1, <2>2, <2>5 DEF AddCurrentTaskToDelayedList
    <3>2. AddCurrentTaskToDelayedList(s, wake) = [v EXCEPT !.delayed = d, !.nextUnblock = n]
      BY <1>2, <1>8, <1>10, <2>3, <2>5, <3>1
    <3> QED
      BY <1>2, <1>9, <1>14, <2>1, <2>3, <2>5, <3>2 DEF KernelData
  <2> QED
    BY <2>4, <2>5
<1>18. \A t \in Task : t \in Delayed(r) <=> t \in Delayed(s) \/ t = cur
  BY <1>3, <1>11, <1>12, <1>16 DEF Delayed
<1>19. \A t \in Task : t \in Delayed(r) <=> t \in Delayed(q) \/ t = cur
  BY <1>3, <1>11, <1>12, <1>16 DEF Delayed
<1>20. \A t \in Task : IsReady(r, t) <=> IsReady(s, t) /\ t # cur
  BY <1>3, <1>16 DEF IsReady
<1>21. \A t \in Task : OnEvent(r, t) <=> OnEvent(s, t)
  BY <1>16 DEF OnEvent
<1>22. GenericOk(r)
  <2>1. ASSUME NEW p \in Priorities
        PROVE  /\ NoRepeats(r.ready[p]) /\ End \in Range(r.ready[p])
               /\ \A t \in RingItems(r.ready[p]) : Priority[t] = p /\ t \notin Delayed(r)
    <3>1. /\ NoRepeats(q.ready[p]) /\ End \in Range(q.ready[p])
          /\ \A t \in RingItems(q.ready[p]) : Priority[t] = p /\ t \notin Delayed(q)
      BY <1>3 DEF GenericOk
    <3>2. ASSUME NEW t \in RingItems(q.ready[p]) PROVE t # cur /\ t \in Task
      <4>1. t \in Task
        BY <1>2, DelayedIs DEF RingItems
      <4>2. IsReady(q, t)
        BY <3>1, <4>1 DEF IsReady, RingItems
      <4> QED
        BY <1>3, <4>1, <4>2
    <3> QED
      BY <1>16, <1>19, <3>1, <3>2
  <2>2. Range(r.delayed) \cap Range(r.overflow) = {}
    BY <1>6, <1>11, <1>12, <1>16
  <2> QED
    BY <1>11, <1>12, <1>16, <2>1, <2>2 DEF GenericOk
<1>23. EventsOk(r) /\ TopOk(r) /\ Sorted(r)
  BY <1>11, <1>12, <1>16, <1>20 DEF EventsOk, TopOk, Sorted
<1>24. EventsSleep(r)
  BY <1>18, <1>21 DEF EventsSleep
<1>25. /\ Range(r.delayed) = (Range(s.delayed) \ {cur}) \cup (IF wake < s.tick THEN {} ELSE {cur})
       /\ Range(r.overflow) = (Range(s.overflow) \ {cur}) \cup (IF wake < s.tick THEN {cur} ELSE {})
  BY <1>3, <1>11, <1>12, <1>16
<1> QED
  BY <1>5, <1>13, <1>15, <1>16, <1>17, <1>18, <1>20, <1>22, <1>23, <1>24, <1>25
  DEF ListsOk

(* A wake time that is still to come keeps the sleepers in time.         *)
LEMMA AddCurrentTaskToDelayedListIs ==
    ASSUME NEW s, s \in KernelData, cur \in Task,
           GenericOk(s), EventsOk(s), TopOk(s), Sorted(s), InTime(s),
           \A t \in Task \ {cur} : OnEvent(s, t) => t \in Delayed(s),
           NEW wake \in 0 .. MaxDelay, wake # s.tick
    PROVE  LET r == AddCurrentTaskToDelayedList(s, wake) IN
           /\ DataOk(r)
           /\ \A t \in Task : IsReady(r, t) <=> IsReady(s, t) /\ t # cur
           /\ \A t \in Task : OnEvent(r, t) <=> OnEvent(s, t)
           /\ \A t \in Task : t \in Delayed(r) <=> t \in Delayed(s) \/ t = cur
           /\ \A t \in Task \ {cur} : ToWake(r, t) = ToWake(s, t)
           /\ ToWake(r, cur) = IF wake < s.tick THEN wake + TickSpan - s.tick ELSE wake - s.tick
           /\ r.terminated = s.terminated /\ r.tick = s.tick /\ r.pended = s.pended
           /\ r.yieldPending = s.yieldPending
<1>1. PICK r : r = AddCurrentTaskToDelayedList(s, wake)
  OBVIOUS
<1>2. /\ ListsOk(r)
      /\ \A t \in Task : IsReady(r, t) <=> IsReady(s, t) /\ t # cur
      /\ r.pendingReady = s.pendingReady /\ r.waiting = s.waiting
      /\ \A t \in Task : t \in Delayed(r) <=> t \in Delayed(s) \/ t = cur
      /\ Range(r.delayed) = (Range(s.delayed) \ {cur}) \cup (IF wake < s.tick THEN {} ELSE {cur})
      /\ Range(r.overflow) = (Range(s.overflow) \ {cur}) \cup (IF wake < s.tick THEN {cur} ELSE {})
      /\ r.wakeAt[cur] = wake /\ \A t \in Task \ {cur} : r.wakeAt[t] = s.wakeAt[t]
      /\ r.nextUnblock <= s.nextUnblock /\ (~(wake < s.tick) => r.nextUnblock <= wake)
      /\ r.terminated = s.terminated /\ r.tick = s.tick /\ r.pended = s.pended
      /\ r.yieldPending = s.yieldPending
  BY <1>1, AddCurrentTaskToDelayedListLists
<1>3. /\ s.tick \in Int /\ s.nextUnblock \in Int /\ MaxDelay \in Int /\ TickSpan \in Int
      /\ r.nextUnblock \in Int /\ wake \in Int
      /\ \A t \in Task : s.wakeAt[t] \in Int
  BY <1>2, ClocksAre DEF ListsOk
<1>4. Range(s.delayed) \subseteq Task /\ Range(s.overflow) \subseteq Task
  BY DelayedIs
<1>5. InTime(r)
  <2>1. ASSUME NEW t \in Range(r.delayed) PROVE r.wakeAt[t] > r.tick /\ r.nextUnblock <= r.wakeAt[t]
    <3>1. CASE t = cur
      <4>1. ~(wake < s.tick)
        BY <1>2, <2>1, <3>1
      <4> QED
        BY <1>2, <1>3, <3>1, <4>1
    <3>2. CASE t # cur
      <4>1. t \in Range(s.delayed) /\ t \in Task \ {cur}
        BY <1>2, <1>4, <2>1, <3>2
      <4>2. s.wakeAt[t] > s.tick /\ s.nextUnblock <= s.wakeAt[t]
        BY <4>1 DEF InTime
      <4> QED
        BY <1>2, <1>3, <4>1, <4>2
    <3> QED
      BY <3>1, <3>2
  <2>2. ASSUME NEW t \in Range(r.overflow) PROVE r.wakeAt[t] < r.tick
    <3>1. CASE t = cur
      <4>1. wake < s.tick
        BY <1>2, <2>2, <3>1
      <4> QED
        BY <1>2, <3>1, <4>1
    <3>2. CASE t # cur
      <4>1. t \in Range(s.overflow) /\ t \in Task \ {cur}
        BY <1>2, <1>4, <2>2, <3>2
      <4> QED
        BY <1>2, <4>1 DEF InTime
    <3> QED
      BY <3>1, <3>2
  <2> QED
    BY <2>1, <2>2 DEF InTime
<1>6. \A t \in Task : OnEvent(r, t) <=> OnEvent(s, t)
  BY <1>2 DEF OnEvent
<1>7. ASSUME NEW t \in Task \ {cur} PROVE ToWake(r, t) = ToWake(s, t)
  <2>1. t \in Range(r.delayed) <=> t \in Range(s.delayed)
    BY <1>2
  <2> QED
    BY <1>2, <2>1 DEF ToWake
<1>8. ToWake(r, cur) = IF wake < s.tick THEN wake + TickSpan - s.tick ELSE wake - s.tick
  <2>1. cur \in Range(r.delayed) <=> ~(wake < s.tick)
    BY <1>2
  <2> QED
    BY <1>2, <2>1 DEF ToWake
<1> QED
  BY <1>1, <1>2, <1>5, <1>6, <1>7, <1>8 DEF DataOk

(* Every task is in the state it was in: only cursors and                *)
(* uxTopReadyPriority differ.                                            *)
SameStates(r, s) ==
    /\ \A t \in Task : IsReady(r, t) <=> IsReady(s, t)
    /\ r.delayed = s.delayed /\ r.overflow = s.overflow /\ r.wakeAt = s.wakeAt
    /\ r.pendingReady = s.pendingReady /\ r.waiting = s.waiting
    /\ r.terminated = s.terminated /\ r.tick = s.tick /\ r.pended = s.pended

LEMMA SameStatesIs ==
    ASSUME NEW r, NEW s, SameStates(r, s)
    PROVE  /\ Delayed(r) = Delayed(s)
           /\ \A t \in Task : Placed(r, t) <=> Placed(s, t)
           /\ \A t \in Task : OnEvent(r, t) <=> OnEvent(s, t)
           /\ \A t : ToWake(r, t) = ToWake(s, t)
BY DEF SameStates, Placed, OnEvent, ToWake, Delayed

(* The kernel's data after a context switch, and the task it chooses. *)
Switched(s) ==
    LET p == TopReady(s) IN
    [s EXCEPT !.yieldPending = FALSE, !.top = p, !.ready[p] = RingNextOwner(s.ready[p])]

Chosen(s) == Last(RingNextOwner(s.ready[TopReady(s)]))

(* taskSELECT_HIGHEST_PRIORITY_TASK finds a ready task and none that is  *)
(* ready is higher.                                                      *)
LEMMA SwitchedLists ==
    ASSUME NEW s, ListsOk(s), NEW u \in Task, IsReady(s, u)
    PROVE  LET r == Switched(s) IN
           /\ ListsOk(r) /\ SameStates(r, s) /\ r.yieldPending = FALSE
           /\ r.nextUnblock = s.nextUnblock
           /\ Chosen(s) \in Task /\ IsReady(r, Chosen(s))
           /\ \A t \in Task : IsReady(s, t) => Priority[t] <= Priority[Chosen(s)]
<1>1. /\ s \in KernelData /\ GenericOk(s) /\ EventsOk(s) /\ EventsSleep(s) /\ TopOk(s)
      /\ Sorted(s)
  BY DEF ListsOk
<1>2. PICK b \in Nat : Priorities = 0 .. b
  BY PrioritiesAre
<1>3. /\ \A t \in Task : Priority[t] \in Priorities /\ Priority[t] \in Int
      /\ s.top \in Priorities /\ s.top \in Int
  BY <1>1, PrioritiesAre, KernelParts
<1> DEFINE P == {x \in Priorities : x <= s.top /\ RingItems(s.ready[x]) # {}}
<1>4. ASSUME NEW t \in Task, IsReady(s, t) PROVE Priority[t] \in P
  <2>1. t \in RingItems(s.ready[Priority[t]])
    BY <1>4, TaskAssumption DEF IsReady, RingItems
  <2>2. Priority[t] <= s.top
    BY <1>1, <1>4 DEF TopOk
  <2> QED
    BY <1>3, <2>1, <2>2
<1>5. PICK p : p = TopReady(s)
  OBVIOUS
<1>6. p = Max(P)
  BY <1>5 DEF TopReady
<1>8. P \subseteq Priorities /\ \A x \in P : RingItems(s.ready[x]) # {}
  OBVIOUS
<1> HIDE DEF P
<1>7. P \subseteq Priorities /\ P \subseteq Int /\ P # {} /\ \A x \in P : x <= b
  <2>1. Priority[u] \in P
    BY <1>4
  <2>2. \A x \in Priorities : x \in Int /\ x <= b
    BY <1>2
  <2> QED
    BY <1>8, <2>1, <2>2
<1>9. p \in P /\ \A x \in P : x <= p
  BY <1>6, <1>7, MaxIs, b \in Int
<1>10. p \in Priorities /\ p \in Int /\ RingItems(s.ready[p]) # {}
  BY <1>7, <1>8, <1>9
<1>11. PICK ring : ring = RingNextOwner(s.ready[p])
  OBVIOUS
<1>12. s.ready[p] \in Seq(Task \cup {End}) /\ NoRepeats(s.ready[p])
  BY <1>1, <1>10, DelayedIs DEF GenericOk
<1>13. /\ ring \in Seq(Task \cup {End})
       /\ Range(ring) = Range(s.ready[p])
       /\ NoRepeats(ring)
       /\ Last(ring) \in RingItems(s.ready[p])
  BY <1>10, <1>11, <1>12, RingNextOwnerIs
<1>14. PICK c : c = Last(ring)
  OBVIOUS
<1>15. c \in Task /\ Priority[c] = p /\ c \in Range(s.ready[p])
  <2>1. c \in RingItems(s.ready[p])
    BY <1>13, <1>14
  <2>2. Priority[c] = p
    BY <1>1, <1>10, <2>1 DEF GenericOk
  <2>3. Range(s.ready[p]) \subseteq Task \cup {End}
    BY <1>1, <1>10, DelayedIs
  <2> QED
    BY <2>1, <2>2, <2>3 DEF RingItems
<1>16. PICK a : a = [s.ready EXCEPT ![p] = ring]
  OBVIOUS
<1>17. /\ a \in RingType /\ a[p] = ring /\ \A x \in Priorities : x # p => a[x] = s.ready[x]
  <2>1. s.ready \in [Priorities -> Seq(Task \cup {End})]
    BY <1>1, KernelParts DEF RingType
  <2> QED
    BY <1>10, <1>13, <1>16, <2>1 DEF RingType
<1>18. PICK r : r = [s EXCEPT !.yieldPending = FALSE, !.top = p, !.ready = a]
  OBVIOUS
<1>19. r \in KernelData
  BY <1>1, <1>10, <1>17, <1>18 DEF KernelData
<1>20. /\ r.yieldPending = FALSE /\ r.top = p /\ r.ready = a
       /\ r.delayed = s.delayed /\ r.overflow = s.overflow /\ r.wakeAt = s.wakeAt
       /\ r.nextUnblock = s.nextUnblock
       /\ r.pendingReady = s.pendingReady /\ r.waiting = s.waiting
       /\ r.terminated = s.terminated /\ r.tick = s.tick /\ r.pended = s.pended
  BY <1>1, <1>18 DEF KernelData
<1>21. r = Switched(s)
  <2>1. Switched(s) = [s EXCEPT !.yieldPending = FALSE, !.top = p, !.ready[p] = ring]
    BY <1>5, <1>11 DEF Switched
  <2>2. [s EXCEPT !.yieldPending = FALSE, !.top = p, !.ready[p] = ring]
          = [s EXCEPT !.yieldPending = FALSE, !.top = p, !.ready = [s.ready EXCEPT ![p] = ring]]
    BY <1>1 DEF KernelData
  <2> QED
    BY <1>16, <1>18, <2>1, <2>2
<1>22. \A x \in Priorities : Range(r.ready[x]) = Range(s.ready[x]) /\ NoRepeats(r.ready[x])
  BY <1>1, <1>13, <1>17, <1>20 DEF GenericOk
<1>23. \A t \in Task : IsReady(r, t) <=> IsReady(s, t)
  BY <1>3, <1>22 DEF IsReady
<1>24. GenericOk(r)
  BY <1>1, <1>20, <1>22 DEF GenericOk, RingItems, Delayed
<1>25. EventsOk(r) /\ EventsSleep(r) /\ Sorted(r)
  BY <1>1, <1>20 DEF EventsOk, EventsSleep, Sorted, OnEvent, Delayed
<1>26. \A t \in Task : IsReady(s, t) => Priority[t] <= p
  BY <1>4, <1>9
<1>27. TopOk(r)
  BY <1>20, <1>23, <1>26 DEF TopOk
<1>28. SameStates(r, s)
  BY <1>20, <1>23 DEF SameStates
<1>29. IsReady(r, c)
  BY <1>10, <1>15, <1>22 DEF IsReady
<1>30. Chosen(s) = c
  BY <1>5, <1>11, <1>14 DEF Chosen
<1> QED
  BY <1>15, <1>19, <1>20, <1>21, <1>24, <1>25, <1>26, <1>27, <1>28, <1>29, <1>30 DEF ListsOk

(* ... and no sleeper's time is changed. *)
LEMMA SwitchedIs ==
    ASSUME NEW s, DataOk(s), NEW u \in Task, IsReady(s, u)
    PROVE  LET r == Switched(s) IN
           /\ DataOk(r) /\ SameStates(r, s) /\ r.yieldPending = FALSE
           /\ Chosen(s) \in Task /\ IsReady(r, Chosen(s))
           /\ \A t \in Task : IsReady(s, t) => Priority[t] <= Priority[Chosen(s)]
<1>1. ListsOk(s) /\ InTime(s)
  BY DEF DataOk
<1>2. PICK r : r = Switched(s)
  OBVIOUS
<1>3. /\ ListsOk(r) /\ SameStates(r, s) /\ r.yieldPending = FALSE
      /\ r.nextUnblock = s.nextUnblock
      /\ Chosen(s) \in Task /\ IsReady(r, Chosen(s))
      /\ \A t \in Task : IsReady(s, t) => Priority[t] <= Priority[Chosen(s)]
  BY <1>1, <1>2, SwitchedLists
<1>4. InTime(r)
  BY <1>1, <1>3 DEF InTime, SameStates
<1> QED
  BY <1>2, <1>3, <1>4 DEF DataOk

(* vTaskSwitchContext: no task changes its state, and the chosen task is *)
(* a highest ready one.                                                  *)
LEMMA SwitchContextIs ==
    ASSUME NEW s, DataOk(s), NEW u \in Task, IsReady(s, u), SwitchContext(s)
    PROVE  /\ DataOk(k') /\ SameStates(k', s)
           /\ suspended > 0 => cur' = cur /\ k'.yieldPending
           /\ ~(suspended > 0) => /\ cur' \in Task /\ IsReady(k', cur')
                                  /\ \A t \in Task : IsReady(s, t) => Priority[t] <= Priority[cur']
<1>1. CASE suspended > 0
  <2>1. k' = [s EXCEPT !.yieldPending = TRUE] /\ cur' = cur
    BY <1>1 DEF SwitchContext
  <2>2. PICK r : r = [s EXCEPT !.yieldPending = TRUE]
    OBVIOUS
  <2>3. /\ DataOk(r) /\ r.yieldPending = TRUE
        /\ SameLists(r, s) /\ r.delayed = s.delayed /\ r.overflow = s.overflow
        /\ r.terminated = s.terminated /\ r.tick = s.tick /\ r.pended = s.pended
    BY <2>2, PendingIs
  <2>4. SameStates(r, s)
    BY <2>3 DEF SameStates, SameLists, IsReady
  <2> QED
    BY <1>1, <2>1, <2>2, <2>3, <2>4
<1>2. CASE ~(suspended > 0)
  <2>1. k' = Switched(s) /\ cur' = Chosen(s)
    BY <1>2 DEF SwitchContext, Switched, Chosen
  <2>2. PICK r : r = Switched(s)
    OBVIOUS
  <2>3. PICK c : c = Chosen(s)
    OBVIOUS
  <2>4. /\ DataOk(r) /\ SameStates(r, s) /\ r.yieldPending = FALSE
        /\ c \in Task /\ IsReady(r, c)
        /\ \A t \in Task : IsReady(s, t) => Priority[t] <= Priority[c]
    BY <2>2, <2>3, SwitchedIs
  <2> QED
    BY <1>2, <2>1, <2>2, <2>3, <2>4
<1> QED
  BY <1>1, <1>2

(* xTaskResumeAll: nothing while an outer suspension goes on, and        *)
(* otherwise all that CatchUp does, then a switch if one was pending.    *)
LEMMA ResumeAllIs ==
    ASSUME DataOk(k), NEW u \in Task, IsReady(k, u), cur \in Task, suspended \in 1 .. 2,
           NEW yielded \in BOOLEAN, ResumeAll(yielded)
    PROVE  /\ suspended' = suspended - 1 /\ DataOk(k') /\ SameTasks(k', k)
           /\ k'.terminated = k.terminated
           /\ suspended = 2 => k' = k /\ cur' = cur /\ ~yielded
           /\ suspended = 1 =>
                /\ k'.pended = 0
                /\ Multiple(k'.tick - k.tick - k.pended)
                /\ \A t \in Delayed(k') : ToWake(k', t) = ToWake(k, t) - k.pended
                /\ \A t \in Task : IsReady(k', t) /\ ~IsReady(k, t) =>
                        OnEvent(k, t) \/ ToWake(k, t) <= k.pended
                /\ yielded => /\ cur' \in Task /\ IsReady(k', cur')
                              /\ \A t \in Task : IsReady(k', t) => Priority[t] <= Priority[cur']
                /\ ~yielded => /\ cur' = cur /\ ~k.yieldPending
                               /\ \A t \in Task : IsReady(k', t) /\ ~IsReady(k, t) =>
                                    ~(Priority[t] > Priority[cur])
<1>1. CASE suspended = 2
  <2>1. suspended > 1
    BY <1>1
  <2>2. k' = k /\ cur' = cur /\ ~yielded /\ suspended' = suspended - 1
    BY <2>1 DEF ResumeAll
  <2> QED
    BY <1>1, <2>2 DEF SameTasks
<1>2. CASE suspended = 1
  <2>1. ~(suspended > 1)
    BY <1>2
  <2>2. PICK s : s = CatchUp(k)
    OBVIOUS
  <2>3. /\ DataOk(s) /\ SameTasks(s, k)
        /\ s.terminated = k.terminated /\ s.pended = 0
        /\ Multiple(s.tick - k.tick - k.pended)
        /\ \A t \in Delayed(s) : ToWake(s, t) = ToWake(k, t) - k.pended
        /\ \A t \in Task : IsReady(s, t) /\ ~IsReady(k, t) =>
             OnEvent(k, t) \/ ToWake(k, t) <= k.pended
        /\ \A t \in Task : IsReady(s, t) /\ ~IsReady(k, t) /\ Priority[t] > Priority[cur] =>
             s.yieldPending
        /\ k.yieldPending => s.yieldPending
    BY <2>2, CatchUpIs
  <2>4. yielded = s.yieldPending /\ suspended' = suspended - 1
    BY <2>1, <2>2 DEF ResumeAll
  <2>5. CASE yielded
    <3>1. k' = Switched(s) /\ cur' = Chosen(s)
      BY <2>1, <2>2, <2>5 DEF ResumeAll, Switched, Chosen
    <3>2. IsReady(s, u)
      BY <2>3 DEF SameTasks
    <3>3. PICK r : r = Switched(s)
      OBVIOUS
    <3>4. PICK c : c = Chosen(s)
      OBVIOUS
    <3>5. /\ DataOk(r) /\ SameStates(r, s) /\ r.yieldPending = FALSE
          /\ c \in Task /\ IsReady(r, c)
          /\ \A t \in Task : IsReady(s, t) => Priority[t] <= Priority[c]
      BY <2>3, <3>2, <3>3, <3>4, SwitchedIs
    <3>6. /\ Delayed(r) = Delayed(s)
          /\ \A t \in Task : Placed(r, t) <=> Placed(s, t)
          /\ \A t \in Task : OnEvent(r, t) <=> OnEvent(s, t)
          /\ \A t : ToWake(r, t) = ToWake(s, t)
      BY <3>5, SameStatesIs
    <3>7. /\ \A t \in Task : IsReady(r, t) <=> IsReady(s, t)
          /\ r.tick = s.tick /\ r.terminated = s.terminated /\ r.pended = s.pended
      BY <3>5 DEF SameStates
    <3>8. SameTasks(r, k)
      BY <2>3, <3>6, <3>7 DEF SameTasks
    <3>9. \A t \in Delayed(r) : ToWake(r, t) = ToWake(k, t) - k.pended
      BY <2>3, <3>6
    <3>10. k' = r /\ cur' = c
      BY <3>1, <3>3, <3>4
    <3> QED
      BY <1>2, <2>3, <2>4, <2>5, <3>5, <3>7, <3>8, <3>9, <3>10
  <2>6. CASE ~yielded
    <3>1. k' = s /\ cur' = cur
      BY <2>1, <2>2, <2>6 DEF ResumeAll, Keep
    <3> QED
      BY <1>2, <2>3, <2>4, <2>6, <3>1
  <2> QED
    BY <2>5, <2>6
<1> QED
  BY <1>1, <1>2

=============================================================================
