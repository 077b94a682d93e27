-------------------------- MODULE ConsoleTypesProofs --------------------------
(***************************************************************************)
(* The types of the console's pages, and what rests on those of the table  *)
(* of droplets: its pages are the rows that pass its filters, and a        *)
(* created droplet shows on the first of them.                             *)
(*                                                                         *)
(* A table arranges its rows by rank: the number of places that come no    *)
(* later.  In a total order of finitely many places each rank is one       *)
(* place's, which makes a sequence of them.                                *)
(***************************************************************************)
EXTENDS ConsoleFlagsProofs

(* The places that come no later than one.                                 *)
UpTo(places, upto, i) == {j \in places : <<j, i>> \in upto}
Rank(places, upto, i) == Cardinality(UpTo(places, upto, i))

TotalOrder(places, upto) ==
  /\ \A i \in places : <<i, i>> \in upto
  /\ \A i, j \in places : <<i, j>> \in upto \/ <<j, i>> \in upto
  /\ \A i, j \in places : <<i, j>> \in upto /\ <<j, i>> \in upto => i = j
  /\ \A i, j, k \in places : <<i, j>> \in upto /\ <<j, k>> \in upto => <<i, k>> \in upto

LEMMA RankRange ==
  ASSUME NEW places, IsFiniteSet(places), NEW upto, TotalOrder(places, upto),
         NEW i \in places
  PROVE  /\ IsFiniteSet(UpTo(places, upto, i))
         /\ Rank(places, upto, i) \in 1 .. Cardinality(places)
<1>1. UpTo(places, upto, i) \in SUBSET places /\ i \in UpTo(places, upto, i)
  BY DEF UpTo, TotalOrder
<1>2. /\ IsFiniteSet(UpTo(places, upto, i))
      /\ Rank(places, upto, i) <= Cardinality(places)
  BY <1>1, FS_Subset DEF Rank
<1>3. Rank(places, upto, i) \in Nat /\ Rank(places, upto, i) # 0
  BY <1>1, <1>2, FS_EmptySet, FS_CardinalityType DEF Rank
<1>4. Cardinality(places) \in Nat
  BY FS_CardinalityType
<1> QED BY <1>2, <1>3, <1>4

(* A place has the lower rank of two exactly when it comes first.          *)
LEMMA RankOrders ==
  ASSUME NEW places, IsFiniteSet(places), NEW upto, TotalOrder(places, upto),
         NEW i \in places, NEW k \in places
  PROVE  <<i, k>> \in upto <=> Rank(places, upto, i) <= Rank(places, upto, k)
<1>1. ASSUME NEW a \in places, NEW b \in places, <<a, b>> \in upto
      PROVE  /\ Rank(places, upto, a) <= Rank(places, upto, b)
             /\ Rank(places, upto, a) = Rank(places, upto, b) => a = b
  <2>1. UpTo(places, upto, a) \in SUBSET UpTo(places, upto, b)
    BY <1>1 DEF UpTo, TotalOrder
  <2>2. /\ Rank(places, upto, a) <= Rank(places, upto, b)
        /\ Rank(places, upto, a) = Rank(places, upto, b)
             => UpTo(places, upto, a) = UpTo(places, upto, b)
    BY <2>1, RankRange, FS_Subset DEF Rank
  <2>3. b \in UpTo(places, upto, b)
    BY DEF UpTo, TotalOrder
  <2>4. b \in UpTo(places, upto, a) => a = b
    BY <1>1 DEF UpTo, TotalOrder
  <2> QED BY <2>2, <2>3, <2>4
<1>2. Rank(places, upto, i) \in Int /\ Rank(places, upto, k) \in Int
  BY RankRange
<1>3. CASE <<i, k>> \in upto
  BY <1>1, <1>3
<1>4. CASE <<i, k>> \notin upto
  <2>1. <<k, i>> \in upto /\ i # k
    BY <1>4 DEF TotalOrder
  <2>2. /\ Rank(places, upto, k) <= Rank(places, upto, i)
        /\ Rank(places, upto, k) # Rank(places, upto, i)
    BY <1>1, <2>1
  <2> QED BY <1>2, <1>4, <2>2
<1> QED BY <1>3, <1>4

(* The place of a rank.                                                    *)
At(places, upto, n) == CHOOSE i \in places : Rank(places, upto, i) = n

LEMMA RankOnto ==
  ASSUME NEW places, IsFiniteSet(places), NEW upto, TotalOrder(places, upto)
  PROVE  /\ \A n \in 1 .. Cardinality(places) :
              /\ At(places, upto, n) \in places
              /\ Rank(places, upto, At(places, upto, n)) = n
         /\ \A i \in places : At(places, upto, Rank(places, upto, i)) = i
<1> DEFINE Ranks == Cardinality(places)
           rank == [i \in places |-> Rank(places, upto, i)]
<1>1. Ranks \in Nat
  BY FS_CardinalityType
<1>2. \A i, k \in places : Rank(places, upto, i) = Rank(places, upto, k) => i = k
  <2> SUFFICES ASSUME NEW i \in places, NEW k \in places,
                      Rank(places, upto, i) = Rank(places, upto, k)
               PROVE  i = k
    OBVIOUS
  <2>1. Rank(places, upto, i) \in Int /\ Rank(places, upto, k) \in Int
    BY RankRange
  <2>2. <<i, k>> \in upto /\ <<k, i>> \in upto
    BY <2>1, RankOrders
  <2> QED BY <2>2 DEF TotalOrder
<1>3. rank \in Injection(places, 1 .. Ranks)
  <2>1. rank \in [places -> 1 .. Ranks]
    BY RankRange
  <2> QED BY <1>2, <2>1 DEF Injection, IsInjective
<1>4. IsFiniteSet(1 .. Ranks) /\ Cardinality(1 .. Ranks) = Ranks
  BY <1>1, FS_Interval
<1>5. rank \in Surjection(places, 1 .. Ranks)
  <2> HIDE DEF rank
  <2> QED BY <1>3, <1>4, FS_Injection
<1>6. \A n \in 1 .. Ranks : \E i \in places : Rank(places, upto, i) = n
  BY <1>5 DEF Surjection
<1>7. \A n \in 1 .. Ranks : /\ At(places, upto, n) \in places
                            /\ Rank(places, upto, At(places, upto, n)) = n
  BY <1>6 DEF At
<1>8. ASSUME NEW i \in places PROVE At(places, upto, Rank(places, upto, i)) = i
  <2>1. Rank(places, upto, i) \in 1 .. Ranks
    BY RankRange
  <2> QED BY <1>2, <1>7, <2>1
<1> QED BY <1>7, <1>8
-----------------------------------------------------------------------------
LEMMA ArrangedAt ==
  ASSUME NEW items, NEW places, NEW upto
  PROVE  P!Arranged(items, places, upto)
           = [n \in 1 .. Cardinality(places) |-> items[At(places, upto, n)]]
BY DEF P!Arranged, At, Rank, UpTo, P!Cardinality, Cardinality

(* An arrangement has every place once, in their order.                    *)
ArrangementOf(rows, items, places, upto) ==
  /\ DOMAIN rows = 1 .. Cardinality(places)
  /\ \A n \in DOMAIN rows :
       At(places, upto, n) \in places /\ rows[n] = items[At(places, upto, n)]
  /\ \A i \in places : /\ Rank(places, upto, i) \in DOMAIN rows
                        /\ rows[Rank(places, upto, i)] = items[i]
  /\ \A m, n \in DOMAIN rows :
       <<At(places, upto, m), At(places, upto, n)>> \in upto <=> m <= n

LEMMA ArrangedRows ==
  ASSUME NEW items, NEW places, IsFiniteSet(places), NEW upto, TotalOrder(places, upto)
  PROVE  ArrangementOf(P!Arranged(items, places, upto), items, places, upto)
<1> DEFINE rows == P!Arranged(items, places, upto)
<1>1. rows = [n \in 1 .. Cardinality(places) |-> items[At(places, upto, n)]]
  BY ArrangedAt
<1>2. Cardinality(places) \in Nat
  BY FS_CardinalityType
<1>3. \A n \in 1 .. Cardinality(places) :
        At(places, upto, n) \in places /\ Rank(places, upto, At(places, upto, n)) = n
  BY RankOnto
<1>4. \A i \in places : /\ Rank(places, upto, i) \in 1 .. Cardinality(places)
                        /\ At(places, upto, Rank(places, upto, i)) = i
  BY RankOnto, RankRange
<1>5. \A m, n \in 1 .. Cardinality(places) :
        <<At(places, upto, m), At(places, upto, n)>> \in upto <=> m <= n
  BY <1>3, RankOrders
<1> HIDE DEF rows
<1>6. ArrangementOf(rows, items, places, upto)
  BY <1>1, <1>2, <1>3, <1>4, <1>5 DEF ArrangementOf
<1> QED BY <1>6 DEF rows

(* The statuses have places in their order.                                *)
LEMMA Positions ==
  ASSUME NEW status \in P!DropletStatuses
  PROVE  P!Position(status) \in Nat
<1>1. DOMAIN Order \subseteq Nat
  BY ConsoleAssumption
<1>2. \E i \in DOMAIN Order : Order[i] = status
  BY ConsoleAssumption DEF P!DropletStatuses
<1> QED BY <1>1, <1>2 DEF P!Position

(* Rows a table can be given.                                              *)
Tabular(items) ==
  /\ \E n \in Nat : DOMAIN items = 1 .. n
  /\ \A i \in DOMAIN items : items[i].status \in P!DropletStatuses

LEMMA SortedTotal ==
  ASSUME NEW items, Tabular(items), NEW view
  PROVE  TotalOrder(P!Found(items, view), P!Sorted(items, view))
<1> DEFINE Places == DOMAIN items
           pos == [i \in Places |-> P!Position(items[i].status)]
           upto == P!Sorted(items, view)
<1>1. Places \subseteq Int /\ \A i \in Places : pos[i] \in Int
  BY Positions DEF Tabular
<1>2. P!Found(items, view) \subseteq Places
  BY DEF P!Found
<1>3. ASSUME view.dir = "asc" PROVE TotalOrder(P!Found(items, view), upto)
  <2>1. \A i, k \in Places : <<i, k>> \in upto
                              <=> pos[i] < pos[k] \/ (~(pos[k] < pos[i]) /\ i <= k)
    BY <1>3 DEF P!Sorted, P!Before
  <2> HIDE DEF pos, upto
  <2> QED BY <1>1, <1>2, <2>1 DEF TotalOrder
<1>4. ASSUME view.dir = "desc" PROVE TotalOrder(P!Found(items, view), upto)
  <2>1. \A i, k \in Places : <<i, k>> \in upto
                              <=> pos[k] < pos[i] \/ (~(pos[i] < pos[k]) /\ i <= k)
    BY <1>4 DEF P!Sorted, P!Before
  <2> HIDE DEF pos, upto
  <2> QED BY <1>1, <1>2, <2>1 DEF TotalOrder
<1>5. ASSUME view.dir \notin {"asc", "desc"} PROVE TotalOrder(P!Found(items, view), upto)
  <2>1. \A i, k \in Places : <<i, k>> \in upto <=> i <= k
    BY <1>5 DEF P!Sorted, P!Before
  <2> HIDE DEF pos, upto
  <2> QED BY <1>1, <1>2, <2>1 DEF TotalOrder
<1> QED BY <1>3, <1>4, <1>5

LEMMA FoundFinite ==
  ASSUME NEW items, NEW n \in Nat, DOMAIN items = 1 .. n, NEW view
  PROVE  /\ IsFiniteSet(P!Found(items, view))
         /\ Cardinality(P!Found(items, view)) \in 0 .. n
<1>1. P!Found(items, view) \in SUBSET (1 .. n)
  BY DEF P!Found
<1>2. IsFiniteSet(1 .. n) /\ Cardinality(1 .. n) = n
  BY FS_Interval
<1> QED BY <1>1, <1>2, FS_Subset, FS_CardinalityType

(* The rows that are on the pages: a sequence of the items that pass, in   *)
(* the order of the sort.                                                  *)
TableOf(rows, items, view) ==
  /\ rows \in Seq({items[i] : i \in DOMAIN items})
  /\ Len(rows) = Cardinality(P!Found(items, view))
  /\ Len(rows) \in Nat /\ \A n \in Nat : DOMAIN items = 1 .. n => Len(rows) <= n
  /\ \A j \in DOMAIN rows : \E i \in P!Found(items, view) : rows[j] = items[i]
  /\ \A i \in P!Found(items, view) : \E j \in DOMAIN rows : rows[j] = items[i]
  /\ \A j \in 1 .. Len(rows) - 1 : ~P!Before(rows[j + 1], rows[j], view.dir)

LEMMA FilteredRows ==
  ASSUME NEW items, Tabular(items), NEW view
  PROVE  TableOf(P!Filtered(items, view), items, view)
<1>0. PICK n \in Nat : DOMAIN items = 1 .. n
  BY DEF Tabular
<1> DEFINE rows == P!Filtered(items, view)
<1> DEFINE places == P!Found(items, view)
           upto == P!Sorted(items, view)
<1>1. IsFiniteSet(places) /\ Cardinality(places) \in 0 .. n
  BY <1>0, FoundFinite
<1>2. TotalOrder(places, upto)
  BY SortedTotal
<1>3. rows = P!Arranged(items, places, upto)
  BY DEF P!Filtered
<1>4. places \subseteq DOMAIN items
  BY DEF P!Found
<1>5. \A i, k \in DOMAIN items : P!Before(items[i], items[k], view.dir) => <<i, k>> \in upto
  BY DEF P!Sorted
<1> HIDE DEF places, upto, rows
<1>6. /\ DOMAIN rows = 1 .. Cardinality(places)
      /\ \A j \in DOMAIN rows :
           At(places, upto, j) \in places /\ rows[j] = items[At(places, upto, j)]
      /\ \A i \in places : /\ Rank(places, upto, i) \in DOMAIN rows
                            /\ rows[Rank(places, upto, i)] = items[i]
      /\ \A l, m \in DOMAIN rows :
           <<At(places, upto, l), At(places, upto, m)>> \in upto <=> l <= m
  <2>1. ArrangementOf(rows, items, places, upto)
    BY <1>1, <1>2, <1>3, ArrangedRows
  <2> QED BY <2>1 DEF ArrangementOf
<1>7. Len(rows) = Cardinality(places) /\ rows \in Seq({items[i] : i \in DOMAIN items})
  <2>1. rows = [j \in 1 .. Cardinality(places) |-> items[At(places, upto, j)]]
    BY <1>3, ArrangedAt
  <2>2. \A j \in 1 .. Cardinality(places) : items[At(places, upto, j)] \in {items[i] : i \in DOMAIN items}
    BY <1>4, <1>6
  <2>3. rows \in [1 .. Cardinality(places) -> {items[i] : i \in DOMAIN items}]
    BY <2>1, <2>2, Zenon
  <2> QED BY <1>1, <2>3
<1>8. ASSUME NEW j \in 1 .. Len(rows) - 1 PROVE ~P!Before(rows[j + 1], rows[j], view.dir)
  <2>1. j \in DOMAIN rows /\ j + 1 \in DOMAIN rows /\ ~(j + 1 <= j)
    BY <1>1, <1>6, <1>7
  <2>2. <<At(places, upto, j + 1), At(places, upto, j)>> \notin upto
    BY <1>6, <2>1
  <2> QED BY <1>4, <1>5, <1>6, <2>1, <2>2
<1>9. \A m \in Nat : DOMAIN items = 1 .. m => m = n
  BY <1>0
<1>10. TableOf(rows, items, view)
  BY <1>1, <1>6, <1>7, <1>8, <1>9 DEF TableOf, places
<1> QED BY <1>10 DEF rows
-----------------------------------------------------------------------------
(* What Math.max(1, Math.ceil()) makes of a number of rows.                *)
CountOf(n, size) == IF n = 0 THEN 1 ELSE (n + size - 1) \div size

LEMMA CountOfPages ==
  ASSUME NEW size \in Nat \ {0}, NEW n \in Nat
  PROVE  /\ CountOf(n, size) \in Nat \ {0} /\ (n # 0 => CountOf(n, size) <= n)
         /\ n <= CountOf(n, size) * size /\ (CountOf(n, size) - 1) * size <= n
<1> DEFINE count == CountOf(n, size)
<1> USE DEF CountOf
<1>1. CASE n = 0
  BY <1>1
<1>2. CASE n # 0
  <2>1. /\ count \in Int
        /\ size * count <= n + size - 1 /\ n + size - 1 < size * count + size
    BY <1>2, SMT
  <2>2. count >= 1
    <3> SUFFICES ASSUME count <= 0 PROVE FALSE
      BY <2>1
    <3>1. size * count <= 0
      BY <2>1
    <3> QED BY <2>1, <3>1, <1>2
  <2>3. count <= n
    <3> SUFFICES ASSUME n + 1 <= count PROVE FALSE
      BY <2>1
    <3>1. size * (n + 1) <= size * count
      BY <2>1
    <3>2. size * (n + 1) = size * n + size /\ n <= size * n
      OBVIOUS
    <3> QED BY <2>1, <3>1, <3>2
  <2>4. size * count = count * size /\ (count - 1) * size = size * count - size
    BY <2>1
  <2> QED BY <2>1, <2>2, <2>3, <2>4
<1> QED BY <1>1, <1>2

LEMMA SubSeqJoined ==
  ASSUME NEW S, NEW rows \in Seq(S), NEW a \in Nat, NEW b \in Nat, a <= b, b <= Len(rows)
  PROVE  SubSeq(rows, 1, a) \o SubSeq(rows, a + 1, b) = SubSeq(rows, 1, b)
<1>1. /\ SubSeq(rows, 1, a) = [i \in 1 .. a |-> rows[i]]
      /\ SubSeq(rows, a + 1, b) = [i \in 1 .. b - a |-> rows[i + a]]
      /\ SubSeq(rows, 1, b) = [i \in 1 .. b |-> rows[i]]
  OBVIOUS
<1> QED BY <1>1

(* A nonempty set of naturals has a least element: strict inclusion is     *)
(* well-founded on the intervals that end in one.                          *)
LEMMA LeastNatural ==
  ASSUME NEW S \in SUBSET Nat, S # {}
  PROVE  \E m \in S : \A n \in S : m <= n
<1> DEFINE T == {1 .. n : n \in S}
<1>1. T \subseteq FiniteSubsetsOf(Nat)
  BY FS_Interval DEF FiniteSubsetsOf
<1>2. T # {}
  OBVIOUS
<1>3. PICK X \in T : \A Y \in T : <<Y, X>> \notin StrictSubsetOrdering(Nat)
  <2> HIDE DEF T
  <2> QED BY <1>1, <1>2, FS_StrictSubsetOrderingWellFounded, WFMin
<1>4. PICK m \in S : X = 1 .. m
  BY <1>3
<1>5. ASSUME NEW n \in S, n < m PROVE FALSE
  <2>1. 1 .. n \in T /\ 1 .. n \subseteq Nat /\ 1 .. m \subseteq Nat
    BY <1>5
  <2>2. 1 .. n \subseteq 1 .. m /\ m \in 1 .. m /\ m \notin 1 .. n
    BY <1>5
  <2> QED BY <1>3, <1>4, <2>1, <2>2 DEF StrictSubsetOrdering
<1> QED BY <1>5

(* The first pages of a sequence of them, one after the other, for which   *)
(* there is one function.                                                  *)
Joins(f, count, pages) ==
  \A n \in 0 .. count : f[n] = IF n = 0 THEN <<>> ELSE f[n - 1] \o pages[n]

LEMMA OneJoining ==
  ASSUME NEW count \in Nat, NEW pages, NEW f, NEW g,
         Joins(f, count, pages), Joins(g, count, pages)
  PROVE  f[count] = g[count]
<1> DEFINE bad == {n \in 0 .. count : f[n] # g[n]}
<1>1. bad \in SUBSET Nat
  OBVIOUS
<1>2. ASSUME bad # {} PROVE FALSE
  <2>1. PICK m \in bad : \A n \in bad : m <= n
    <3> HIDE DEF bad
    <3> QED BY <1>1, <1>2, LeastNatural
  <2>2. m \in 0 .. count /\ f[m] # g[m]
    OBVIOUS
  <2>3. f[0] = <<>> /\ g[0] = <<>>
    <3>1. 0 \in 0 .. count
      OBVIOUS
    <3> QED BY <3>1, Zenon DEF Joins
  <2>4. m # 0
    BY <2>2, <2>3
  <2>5. m - 1 \in 0 .. count /\ m - 1 \notin bad
    BY <2>1, <2>2, <2>4
  <2>6. f[m - 1] = g[m - 1]
    BY <2>5
  <2>7. f[m] = f[m - 1] \o pages[m]
    BY <2>2, <2>4, Zenon DEF Joins
  <2>8. g[m] = g[m - 1] \o pages[m]
    BY <2>2, <2>4, Zenon DEF Joins
  <2> QED BY <2>2, <2>6, <2>7, <2>8
<1>3. count \in 0 .. count
  OBVIOUS
<1>4. count \notin bad
  BY <1>2
<1> QED BY <1>3, <1>4

(* The pages up to the n-th hold the first rows.                           *)
LEMMA PagesJoined ==
  ASSUME NEW S, NEW rows \in Seq(S), NEW size \in Nat \ {0}, NEW count \in Nat \ {0},
         Len(rows) <= count * size, (count - 1) * size <= Len(rows)
  PROVE  /\ \E f : f = [n \in 0 .. count |->
                        IF n = 0 THEN <<>> ELSE f[n - 1] \o P!Slice(rows, n, size)]
         /\ \A f : f = [n \in 0 .. count |->
                        IF n = 0 THEN <<>> ELSE f[n - 1] \o P!Slice(rows, n, size)]
                    => f[count] = rows
<1> DEFINE last == [n \in 0 .. count |-> IF n * size < Len(rows) THEN n * size ELSE Len(rows)]
           w == [n \in 0 .. count |-> SubSeq(rows, 1, last[n])]
           pages == [n \in 0 .. count |-> P!Slice(rows, n, size)]
<1>1. \A n \in 0 .. count : /\ n * size \in Nat
                            /\ last[n] = IF n * size < Len(rows) THEN n * size ELSE Len(rows)
  OBVIOUS
<1>2. w = [n \in 0 .. count |-> w[n]] /\ \A n \in 0 .. count : w[n] = SubSeq(rows, 1, last[n])
  OBVIOUS
<1>3. \A n \in 1 .. count : pages[n] = SubSeq(rows, (n - 1) * size + 1, last[n])
  <2> SUFFICES ASSUME NEW n \in 1 .. count
               PROVE  pages[n] = SubSeq(rows, (n - 1) * size + 1, last[n])
    OBVIOUS
  <2>1. n \in 0 .. count
    OBVIOUS
  <2>2. last[n] = IF n * size < Len(rows) THEN n * size ELSE Len(rows)
    BY <1>1, <2>1
  <2>3. pages[n] = P!Slice(rows, n, size)
    BY <2>1, Zenon
  <2> HIDE DEF last, pages
  <2> QED BY <2>2, <2>3 DEF P!Slice
<1> HIDE DEF last, w, pages
<1>4. w[0] = <<>> /\ w[count] = rows
  <2>1. 0 \in 0 .. count /\ count \in 0 .. count /\ Len(rows) \in Nat
    OBVIOUS
  <2>2. last[0] = 0
    BY <1>1, <2>1
  <2>3. last[count] = Len(rows)
    BY <1>1, <2>1
  <2>4. w[0] = SubSeq(rows, 1, 0) /\ w[count] = SubSeq(rows, 1, Len(rows))
    BY <1>2, <2>1, <2>2, <2>3, Zenon
  <2>5. SubSeq(rows, 1, 0) = <<>> /\ SubSeq(rows, 1, Len(rows)) = rows
    BY <2>1
  <2> QED BY <2>4, <2>5
<1>5. ASSUME NEW n \in 1 .. count PROVE w[n] = w[n - 1] \o pages[n]
  <2> DEFINE a == (n - 1) * size
  <2>1. a \in Nat /\ n * size = a + size /\ n - 1 \in 0 .. count /\ n \in 0 .. count
    OBVIOUS
  <2>2. a <= Len(rows)
    <3>1. a <= (count - 1) * size
      OBVIOUS
    <3> QED BY <2>1, <3>1
  <2>3. pages[n] = SubSeq(rows, a + 1, last[n])
    BY <1>3
  <2>4. last[n - 1] = IF a < Len(rows) THEN a ELSE Len(rows)
    BY <1>1, <2>1
  <2>5. last[n] = IF n * size < Len(rows) THEN n * size ELSE Len(rows)
    BY <1>1, <2>1
  <2> HIDE DEF a
  <2>6. last[n - 1] = a
    BY <2>1, <2>2, <2>4
  <2>7. last[n] \in Nat /\ a <= last[n] /\ last[n] <= Len(rows)
    BY <2>1, <2>2, <2>5
  <2>8. w[n - 1] = SubSeq(rows, 1, a) /\ w[n] = SubSeq(rows, 1, last[n])
    BY <1>2, <2>1, <2>6
  <2> QED BY <2>1, <2>3, <2>7, <2>8, SubSeqJoined
<1>6. w = [n \in 0 .. count |-> IF n = 0 THEN <<>> ELSE w[n - 1] \o P!Slice(rows, n, size)]
  <2>1. \A n \in 0 .. count :
          w[n] = IF n = 0 THEN <<>> ELSE w[n - 1] \o P!Slice(rows, n, size)
    <3> SUFFICES ASSUME NEW n \in 0 .. count, n # 0
                 PROVE  w[n] = w[n - 1] \o P!Slice(rows, n, size)
      BY <1>4
    <3>1. n \in 1 .. count
      OBVIOUS
    <3>2. pages[n] = P!Slice(rows, n, size)
      BY DEF pages
    <3> QED BY <1>5, <3>1, <3>2
  <2> QED BY <1>2, <2>1, Zenon
<1>7. ASSUME NEW f,
             \A n \in 0 .. count :
               f[n] = IF n = 0 THEN <<>> ELSE f[n - 1] \o P!Slice(rows, n, size)
      PROVE  Joins(f, count, pages)
  <2> SUFFICES ASSUME NEW n \in 0 .. count
               PROVE  f[n] = IF n = 0 THEN <<>> ELSE f[n - 1] \o pages[n]
    BY DEF Joins
  <2>1. pages[n] = P!Slice(rows, n, size)
    BY DEF pages
  <2> QED BY <1>7, <2>1
<1>8. ASSUME NEW f,
             f = [n \in 0 .. count |->
                    IF n = 0 THEN <<>> ELSE f[n - 1] \o P!Slice(rows, n, size)]
      PROVE  Joins(f, count, pages)
  <2>1. \A n \in 0 .. count :
          f[n] = IF n = 0 THEN <<>> ELSE f[n - 1] \o P!Slice(rows, n, size)
    BY <1>8, Zenon
  <2> QED BY <1>7, <2>1
<1>9. Joins(w, count, pages)
  BY <1>6, <1>8
<1>10. ASSUME NEW f, Joins(f, count, pages) PROVE f[count] = rows
  <2>1. count \in Nat
    OBVIOUS
  <2>2. f[count] = w[count]
    BY <1>9, <1>10, <2>1, OneJoining, Zenon
  <2> QED BY <1>4, <2>2
<1> QED BY <1>6, <1>8, <1>10, Zenon

(* A table of droplets is what its filters and its sort make of the rows.  *)
LEMMA TablePages ==
  ASSUME NEW items, Tabular(items), NEW view, view.size \in Nat \ {0}
  PROVE  P!PagesCoverRows(items, view)
<1> DEFINE rows == P!Filtered(items, view)
           count == P!PageCount(items, view)
<1>1. TableOf(rows, items, view)
  BY FilteredRows
<1>2. count = CountOf(Len(rows), view.size)
  BY DEF P!PageCount, CountOf
<1> HIDE DEF rows, count
<1>3. /\ count \in Nat \ {0}
      /\ Len(rows) <= count * view.size /\ (count - 1) * view.size <= Len(rows)
  <2>1. Len(rows) \in Nat
    BY <1>1 DEF TableOf
  <2> QED BY <1>2, <2>1, CountOfPages
<1> DEFINE upto == CHOOSE f : f = [m \in 0 .. count |->
                     IF m = 0 THEN <<>> ELSE f[m - 1] \o P!Slice(rows, m, view.size)]
<1>4. upto[count] = rows
  <2>1. rows \in Seq({items[i] : i \in DOMAIN items})
    BY <1>1 DEF TableOf
  <2>2. /\ \E f : f = [m \in 0 .. count |->
                       IF m = 0 THEN <<>> ELSE f[m - 1] \o P!Slice(rows, m, view.size)]
        /\ \A f : f = [m \in 0 .. count |->
                       IF m = 0 THEN <<>> ELSE f[m - 1] \o P!Slice(rows, m, view.size)]
                   => f[count] = rows
    BY <1>3, <2>1, PagesJoined
  <2> QED BY <2>2, Zenon
<1> HIDE DEF upto
<1>5. \A i \in DOMAIN items :
        (\E j \in DOMAIN rows : rows[j] = items[i]) <=> i \in P!Found(items, view)
  <2>1. ASSUME NEW i \in DOMAIN items, NEW j \in DOMAIN rows, rows[j] = items[i]
        PROVE  i \in P!Found(items, view)
    <3>1. PICK k \in P!Found(items, view) : rows[j] = items[k]
      BY <1>1 DEF TableOf
    <3> QED BY <2>1, <3>1 DEF P!Found
  <2> QED BY <1>1, <2>1 DEF TableOf
<1>6. Len(rows) = P!Cardinality(P!Found(items, view))
  BY <1>1, OneCardinality DEF TableOf
<1>7. \A j \in 1 .. Len(rows) - 1 : ~P!Before(rows[j + 1], rows[j], view.dir)
  BY <1>1 DEF TableOf
<1> QED BY <1>4, <1>5, <1>6, <1>7, Zenon DEF P!PagesCoverRows, rows, count, upto

-----------------------------------------------------------------------------
(* The requests of any page, in the terms of the flags' proofs.            *)
Room(calls) == \E s \in Slots : calls[s] = Empty
Placed(calls, c) == Filled(calls, CHOOSE s \in Slots : calls[s] = Empty, c)

LEMMA PlacedSlot ==
  ASSUME NEW calls, Room(calls), NEW c
  PROVE  \E s \in Slots : calls[s] = Empty /\ Placed(calls, c) = Filled(calls, s, c)
BY DEF Room, Placed

LEMMA RequestsOfDroplets ==
  ASSUME NEW calls, NEW c, NEW s
  PROVE  /\ P!Idle = Empty /\ P!NoCalls = Unused
         /\ P!HasRoom(calls) <=> Room(calls)
         /\ P!Sent(calls, c) = Placed(calls, c)
         /\ P!Done(calls, s) = Filled(calls, s, Empty)
BY DEF P!Idle, P!NoCalls, P!HasRoom, P!Sent, P!Done, Empty, Unused, Room, Placed, Filled

(* A slot that is empty and one that holds such a request.                 *)
Fit(calls, requests) == calls \in [Slots -> {Empty} \cup requests]

LEMMA FitFilled ==
  ASSUME NEW calls, NEW requests, Fit(calls, requests),
         NEW s \in Slots, NEW c \in {Empty} \cup requests
  PROVE  Fit(Filled(calls, s, c), requests)
BY DEF Fit, Filled

LEMMA FitPlaced ==
  ASSUME NEW calls, NEW requests, Fit(calls, requests), Room(calls), NEW c \in requests
  PROVE  Fit(Placed(calls, c), requests)
BY PlacedSlot, FitFilled

LEMMA FitUnused ==
  ASSUME NEW requests
  PROVE  Fit(Unused, requests) /\ Room(Unused)
BY ConsoleAssumption DEF Fit, Unused, Room

-----------------------------------------------------------------------------
(* ProvisioningPanel: an answer to a load is a listing.                    *)
DropletCalls ==
  {c \in [kind : P!Loads \cup {"create", "delete"}, id : P!Ids \cup {None},
          served : BOOLEAN, answer : P!Listings \cup {None}] :
     c.kind \in P!Loads /\ c.served => c.answer \in P!Listings}

TableViews ==
  [term : Terms \cup {Unset}, status : P!DropletStatuses \cup {Unset},
   dir : P!Directions \cup {Unset}, at : 1 .. MaxDroplets, size : RowSizes]

DropletsPages ==
  [table : P!Tables, booting : SUBSET P!Ids, others : SUBSET P!Ids,
   listed : P!Listings, tab : P!Tabs,
   loading : BOOLEAN, form : [named : BOOLEAN, clustered : BOOLEAN],
   highlight : P!Ids \cup {None}, view : TableViews,
   calls : [Slots -> {Empty} \cup DropletCalls], changes : Nat, failures : Nat]

LEMMA DropletRequest ==
  ASSUME NEW kind \in P!Loads \cup {"create", "delete"}, NEW id \in P!Ids \cup {None}
  PROVE  /\ P!Request(kind, id).kind = kind /\ P!Request(kind, id).id = id
         /\ P!Request(kind, id).served = FALSE
         /\ P!Request(kind, id) \in DropletCalls
BY DEF P!Request, DropletCalls

LEMMA DropletsTyped ==
  ASSUME page \in DropletsPages
  PROVE  P!TypeOK
<1>1. \A s \in Slots : page.calls[s] = Empty \/ page.calls[s] \in DropletCalls
  BY DEF DropletsPages
<1>2. /\ page.table \in P!Tables /\ page.booting \subseteq P!Ids /\ page.others \subseteq P!Ids
      /\ page.listed \in P!Listings
      /\ page.tab \in P!Tabs /\ page.loading \in BOOLEAN
      /\ page.form \in [named : BOOLEAN, clustered : BOOLEAN]
      /\ page.highlight \in P!Ids \cup {None} /\ page.view \in TableViews
  BY DEF DropletsPages
<1>3. /\ page.view.at \in 1 .. MaxDroplets /\ page.view.size \in RowSizes
      /\ page.view.dir \in P!Directions \cup {Unset}
  BY <1>2 DEF TableViews
<1>4. ASSUME NEW c \in DropletCalls
      PROVE  /\ c.kind \in P!Loads \cup {"create", "delete"} /\ c.id \in P!Ids \cup {None}
             /\ c.answer \in P!Listings \cup {None}
  BY DEF DropletCalls
<1>5. P!Idle = Empty
  BY RequestsOfDroplets
<1> QED BY <1>1, <1>2, <1>3, <1>4, <1>5 DEF P!TypeOK

LEMMA DropletsMounted ==
  ASSUME page' \in P!Mounts
  PROVE  page' \in DropletsPages
<1> DEFINE call == P!Request("list", None)
           table(n) == [d \in P!Ids |-> IF d <= n THEN "provisioning" ELSE None]
<1>0. PICK n \in 0 .. MaxDroplets - 1 :
        page' \in {P!Mounted(table(n), booting) : booting \in SUBSET (1 .. n)}
  BY Zenon DEF P!Mounts
<1>1. PICK booting \in SUBSET (1 .. n) : page' = P!Mounted(table(n), booting)
  BY <1>0, Zenon
<1>2. booting \subseteq P!Ids /\ table(n) \in P!Tables
  BY ConsoleAssumption DEF P!Tables, P!DropletStatuses, P!Ids
<1> HIDE DEF table
<1>3. call \in DropletCalls
  BY DEF P!Request, DropletCalls, P!Loads
<1> HIDE DEF call
<1>4. Placed(Unused, call) \in [Slots -> {Empty} \cup DropletCalls]
  BY <1>3, FitUnused, FitPlaced DEF Fit
<1>5. P!Sent(P!NoCalls, call) = Placed(Unused, call)
  BY RequestsOfDroplets
<1>6. P!Empty \in P!Listings
  BY DEF P!Empty, P!Listings
<1>7. P!FirstView \in TableViews
  <2>1. 1 \in 1 .. MaxDroplets
    BY ConsoleAssumption
  <2> QED BY <2>1, ConsoleAssumption DEF P!FirstView, TableViews
<1>8. P!Blank \in [named : BOOLEAN, clustered : BOOLEAN]
  BY DEF P!Blank
<1>9. page' = [table |-> table(n), booting |-> booting, others |-> {}, listed |-> P!Empty,
               tab |-> "overview",
               loading |-> FALSE, form |-> P!Blank, highlight |-> None, view |-> P!FirstView,
               calls |-> Placed(Unused, call), changes |-> 0, failures |-> 0]
  BY <1>1, <1>5 DEF P!Mounted, call
<1> QED BY <1>2, <1>4, <1>6, <1>7, <1>8, <1>9 DEF DropletsPages, P!Tabs

-----------------------------------------------------------------------------
LEMMA Bounds ==
  /\ MaxJobs \in Nat /\ MaxDroplets \in Nat /\ MaxDeployments \in Nat
  /\ MaxPage \in Nat \ {0} /\ MaxProviders \in Nat \ {0}
BY ConsoleAssumption, Zenon

LEMMA TableSizes == RowSizes \subseteq Nat \ {0} /\ FirstSize \in RowSizes
BY ConsoleAssumption, Zenon

(* The rows given to the table: the droplets of a listing, the newest one  *)
(* first.                                                                  *)
RowsListing(items, listed) ==
  /\ \E n \in 0 .. MaxDroplets : DOMAIN items = 1 .. n
  /\ \A i \in DOMAIN items : /\ items[i].id \in P!Ids /\ listed[items[i].id] # None
                              /\ items[i].status = listed[items[i].id]
  /\ \A d \in P!Ids :
       listed[d] # None /\ (\A e \in P!Ids : e > d => listed[e] = None)
         => 1 \in DOMAIN items /\ items[1].id = d

LEMMA RowsOfListing ==
  ASSUME NEW listed \in P!Listings
  PROVE  RowsListing(P!Items(listed), listed)
<1> DEFINE rows == P!Items(listed)
           records == [d \in P!Ids |-> [id |-> d, status |-> listed[d]]]
           places == {d \in P!Ids : listed[d] # None}
           upto == {p \in P!Ids \X P!Ids : p[1] >= p[2]}
<1>1. P!Ids \subseteq Int /\ IsFiniteSet(P!Ids) /\ Cardinality(P!Ids) = MaxDroplets
  <2>1. MaxDroplets \in Nat
    BY Bounds
  <2> QED BY <2>1, FS_Interval DEF P!Ids
<1>2. places \in SUBSET P!Ids
  OBVIOUS
<1>3. IsFiniteSet(places) /\ Cardinality(places) \in 0 .. MaxDroplets
  <2> HIDE DEF places
  <2>1. IsFiniteSet(places) /\ Cardinality(places) <= MaxDroplets
    BY <1>1, <1>2, FS_Subset
  <2>2. Cardinality(places) \in Nat
    BY <2>1, FS_CardinalityType
  <2> QED BY <2>1, <2>2, Bounds
<1>4. \A d, e \in P!Ids : <<d, e>> \in upto <=> d >= e
  OBVIOUS
<1>5. \A d \in P!Ids : records[d].id = d /\ records[d].status = listed[d]
  OBVIOUS
<1>6. \A d \in P!Ids : d \in places <=> listed[d] # None
  OBVIOUS
<1>7. rows = P!Arranged(records, places, upto)
  BY DEF P!Items, P!NewestFirst, P!RowsOf
<1> HIDE DEF rows, records, places, upto
<1>8. TotalOrder(places, upto)
  BY <1>1, <1>2, <1>4 DEF TotalOrder
<1>9. ArrangementOf(rows, records, places, upto)
  BY <1>3, <1>7, <1>8, ArrangedRows
<1>10. \A i \in DOMAIN rows : /\ rows[i].id \in P!Ids /\ listed[rows[i].id] # None
                              /\ rows[i].status = listed[rows[i].id]
  BY <1>2, <1>5, <1>6, <1>9 DEF ArrangementOf
<1>11. ASSUME NEW d \in P!Ids, listed[d] # None, \A e \in P!Ids : e > d => listed[e] = None
       PROVE  1 \in DOMAIN rows /\ rows[1].id = d
  <2> DEFINE r == Rank(places, upto, d)
             first == At(places, upto, 1)
  <2>1. DOMAIN rows = 1 .. Cardinality(places)
    BY <1>9 DEF ArrangementOf
  <2>2. d \in places /\ r \in DOMAIN rows /\ rows[r] = records[d]
    BY <1>6, <1>9, <1>11 DEF ArrangementOf
  <2>3. 1 \in DOMAIN rows
    BY <1>3, <2>1, <2>2
  <2>4. first \in places /\ rows[1] = records[first]
    BY <1>9, <2>3 DEF ArrangementOf
  <2>5. <<first, At(places, upto, r)>> \in upto
    BY <1>3, <1>9, <2>1, <2>2, <2>3 DEF ArrangementOf
  <2>6. At(places, upto, r) = d
    BY <1>3, <1>8, <2>2, RankOnto
  <2>7. first \in P!Ids /\ first >= d /\ listed[first] # None
    BY <1>2, <1>4, <1>6, <2>4, <2>5, <2>6
  <2>8. ~(first > d) /\ first \in Int /\ d \in Int
    BY <1>1, <1>11, <2>7
  <2>9. first = d
    BY <2>7, <2>8
  <2> QED BY <1>5, <2>3, <2>4, <2>9
<1>12. \E n \in 0 .. MaxDroplets : DOMAIN rows = 1 .. n
  BY <1>3, <1>9 DEF ArrangementOf
<1>13. RowsListing(rows, listed)
  BY <1>10, <1>11, <1>12 DEF RowsListing
<1> QED BY <1>13 DEF rows

LEMMA ListingTabular ==
  ASSUME NEW listed \in P!Listings
  PROVE  Tabular(P!Items(listed))
<1>1. RowsListing(P!Items(listed), listed)
  BY RowsOfListing
<1>2. \A d \in P!Ids : listed[d] # None => listed[d] \in P!DropletStatuses
  BY DEF P!Listings
<1> DEFINE items == P!Items(listed)
<1> HIDE DEF items
<1>3. \E n \in Nat : DOMAIN items = 1 .. n
  BY <1>1, Bounds DEF RowsListing, items
<1>4. \A i \in DOMAIN items : items[i].status \in P!DropletStatuses
  BY <1>1, <1>2, Zenon DEF RowsListing, items
<1> QED BY <1>3, <1>4 DEF Tabular, items

LEMMA DropletPages ==
  ASSUME NEW listed \in P!Listings, NEW view \in TableViews
  PROVE  /\ P!PageCount(P!Items(listed), view) \in Nat \ {0}
         /\ P!PageCount(P!Items(listed), view) <= MaxDroplets
<1> DEFINE items == P!Items(listed)
           rows == P!Filtered(items, view)
           count == P!PageCount(items, view)
<1>1. RowsListing(items, listed) /\ Tabular(items)
  BY RowsOfListing, ListingTabular
<1>2. view.size \in Nat \ {0} /\ 1 <= MaxDroplets
  <2>1. view.size \in RowSizes /\ view.at \in 1 .. MaxDroplets
    BY DEF TableViews
  <2>2. view.size \in Nat \ {0}
    BY <2>1, TableSizes, Zenon
  <2>3. 1 <= MaxDroplets
    BY <2>1, Bounds
  <2> QED BY <2>2, <2>3
<1>3. TableOf(rows, items, view)
  BY <1>1, FilteredRows
<1>4. count = CountOf(Len(rows), view.size)
  BY DEF P!PageCount, CountOf
<1> HIDE DEF items, rows, count
<1>5. PICK n \in 0 .. MaxDroplets : DOMAIN items = 1 .. n
  BY <1>1 DEF RowsListing
<1>6. Len(rows) \in Nat /\ Len(rows) <= MaxDroplets
  BY <1>3, <1>5, Bounds DEF TableOf
<1>7. count \in Nat \ {0} /\ (Len(rows) # 0 => count <= Len(rows))
  BY <1>2, <1>4, <1>6, CountOfPages
<1>8. Len(rows) = 0 => count = 1
  BY <1>4 DEF CountOf
<1>9. count \in Nat \ {0} /\ count <= MaxDroplets
  BY <1>2, <1>6, <1>7, <1>8, Bounds
<1> QED BY <1>9 DEF items, count

(* The table's own controls keep its view what it can be.                  *)
LEMMA DropletsViewed ==
  ASSUME NEW listed \in P!Listings, NEW view \in TableViews,
         NEW next \in P!Views(P!Items(listed), view)
  PROVE  next \in TableViews
<1> DEFINE items == P!Items(listed)
           last == P!PageCount(items, view)
<1>1. last \in Nat \ {0} /\ last <= MaxDroplets
  BY DropletPages
<1>2. \A i \in DOMAIN items : items[i].status \in P!DropletStatuses
  BY ListingTabular DEF Tabular
<1>3. \/ \E term \in Terms \cup {Unset} : next = [view EXCEPT !.term = term]
      \/ \E status \in {items[i].status : i \in DOMAIN items} \cup {Unset} :
           next = [view EXCEPT !.status = status]
      \/ next = [view EXCEPT !.dir = IF @ = "asc" THEN "desc" ELSE "asc"]
      \/ \E n \in RowSizes : next = [view EXCEPT !.size = n, !.at = 1]
      \/ view.at # 1 /\ next = [view EXCEPT !.at = 1]
      \/ view.at # 1 /\ next = [view EXCEPT !.at = view.at - 1]
      \/ next = [view EXCEPT !.at = last]
      \/ next = [view EXCEPT !.at = IF view.at < last THEN view.at + 1 ELSE last]
  <2> DEFINE terms == {[view EXCEPT !.term = term] : term \in Terms \cup {Unset}}
             statuses == {[view EXCEPT !.status = status] :
                            status \in {items[i].status : i \in DOMAIN items} \cup {Unset}}
             turned == {[view EXCEPT !.dir = IF @ = "asc" THEN "desc" ELSE "asc"]}
             sized == {[view EXCEPT !.size = n, !.at = 1] : n \in RowSizes}
             back == {[view EXCEPT !.at = 1], [view EXCEPT !.at = view.at - 1]}
             on == {[view EXCEPT !.at = last],
                    [view EXCEPT !.at = IF view.at < last THEN view.at + 1 ELSE last]}
             controls == UNION {turned, sized, IF view.at = 1 THEN {} ELSE back,
                                IF view.at = last THEN {} ELSE on}
  <2>1. next \in UNION {terms, statuses, IF P!Filtered(items, view) = <<>> THEN {} ELSE controls}
    BY DEF P!Views
  <2> HIDE DEF terms, statuses, turned, sized, back, on, items, last
  <2>2. \/ next \in terms \/ next \in statuses \/ next \in turned \/ next \in sized
        \/ view.at # 1 /\ next \in back
        \/ next \in on
    BY <2>1
  <2> QED BY <2>2, Zenon DEF terms, statuses, turned, sized, back, on
<1> HIDE DEF items, last
<1>4. view.at \in 1 .. MaxDroplets /\ MaxDroplets \in Nat
  BY Bounds DEF TableViews
<1>5. CASE \E term \in Terms \cup {Unset} : next = [view EXCEPT !.term = term]
  BY <1>5 DEF TableViews
<1>6. CASE \E status \in {items[i].status : i \in DOMAIN items} \cup {Unset} :
             next = [view EXCEPT !.status = status]
  <2>1. PICK status \in {items[i].status : i \in DOMAIN items} \cup {Unset} :
          next = [view EXCEPT !.status = status]
    BY <1>6
  <2>2. status \in P!DropletStatuses \cup {Unset}
    BY <1>2
  <2> QED BY <2>1, <2>2 DEF TableViews
<1>7. CASE next = [view EXCEPT !.dir = IF @ = "asc" THEN "desc" ELSE "asc"]
  BY <1>7 DEF TableViews, P!Directions
<1>8. ASSUME NEW at \in 1 .. MaxDroplets, next = [view EXCEPT !.at = at]
      PROVE  next \in TableViews
  BY <1>8 DEF TableViews
<1>9. CASE \E n \in RowSizes : next = [view EXCEPT !.size = n, !.at = 1]
  <2>1. 1 \in 1 .. MaxDroplets
    BY <1>4
  <2> QED BY <1>9, <2>1 DEF TableViews
<1>10. /\ 1 \in 1 .. MaxDroplets /\ last \in 1 .. MaxDroplets
       /\ view.at # 1 => view.at - 1 \in 1 .. MaxDroplets
       /\ (IF view.at < last THEN view.at + 1 ELSE last) \in 1 .. MaxDroplets
  BY <1>1, <1>4
<1>11. CASE view.at # 1 /\ next = [view EXCEPT !.at = view.at - 1]
  BY <1>8, <1>10, <1>11, Zenon
<1>12. CASE next = [view EXCEPT !.at = IF view.at < last THEN view.at + 1 ELSE last]
  BY <1>8, <1>10, <1>12, Zenon
<1>13. CASE next = [view EXCEPT !.at = 1] \/ next = [view EXCEPT !.at = last]
  BY <1>8, <1>10, <1>13, Zenon
<1> QED BY <1>3, <1>5, <1>6, <1>7, <1>9, <1>11, <1>12, <1>13, Zenon

(* The table that DropletsListTab mounts with its tab.                     *)
LEMMA DropletsOpened ==
  ASSUME page \in DropletsPages, NEW p \in DropletsPages, NEW tab \in P!Tabs
  PROVE  P!Opened(p, tab) \in DropletsPages
<1>1. 1 \in 1 .. MaxDroplets
  <2>1. page.view \in TableViews
    BY DEF DropletsPages
  <2>2. page.view.at \in 1 .. MaxDroplets
    BY <2>1 DEF TableViews
  <2> QED BY <2>2, Bounds
<1>2. P!FirstView \in TableViews
  BY <1>1, TableSizes DEF P!FirstView, TableViews
<1> QED BY <1>2 DEF P!Opened, DropletsPages

LEMMA DropletsSent ==
  ASSUME page \in DropletsPages, P!MayStart, NEW call \in DropletCalls
  PROVE  P!Started(call) \in DropletsPages
<1>1. Room(page.calls)
  BY RequestsOfDroplets DEF P!MayStart
<1>2. Fit(page.calls, DropletCalls)
  BY DEF DropletsPages, Fit
<1>3. P!Sent(page.calls, call) \in [Slots -> {Empty} \cup DropletCalls]
  BY <1>1, <1>2, FitPlaced, RequestsOfDroplets DEF Fit
<1> DEFINE sent == [page EXCEPT !.calls = P!Sent(page.calls, call)]
<1>4. sent \in DropletsPages /\ sent.changes = page.changes
  BY <1>3 DEF DropletsPages
<1>5. P!Started(call) = [sent EXCEPT !.changes = page.changes + 1]
  BY DEF P!Started
<1> HIDE DEF sent
<1>6. page.changes + 1 \in Nat
  BY DEF DropletsPages
<1> QED BY <1>4, <1>5, <1>6 DEF DropletsPages

(* A slot of the page is given another content.                            *)
LEMMA DropletsFilled ==
  ASSUME NEW p \in DropletsPages, NEW s \in Slots, NEW c \in {Empty} \cup DropletCalls
  PROVE  [p EXCEPT !.calls = Filled(p.calls, s, c)] \in DropletsPages
<1>1. Filled(p.calls, s, c) \in [Slots -> {Empty} \cup DropletCalls]
  BY FitFilled DEF DropletsPages, Fit
<1> QED BY <1>1 DEF DropletsPages

LEMMA DropletsLoaded ==
  ASSUME page \in DropletsPages, NEW p \in DropletsPages, p.calls = page.calls,
         NEW s \in Slots, page.calls[s] # Empty, NEW listing \in P!Listings
  PROVE  P!Loaded(p, s, listing) \in DropletsPages
<1> DEFINE done == [p EXCEPT !.calls = Filled(p.calls, s, Empty)]
           got == [p EXCEPT !.calls = P!Done(p.calls, s), !.listed = listing]
           shown == [got EXCEPT !.highlight = page.calls[s].id, !.form = P!Blank,
                                !.loading = FALSE]
<1>1. done \in DropletsPages
  BY DropletsFilled
<1>2. got = [done EXCEPT !.listed = listing]
  BY RequestsOfDroplets
<1>3. got \in DropletsPages
  <2> HIDE DEF done
  <2> QED BY <1>1, <1>2 DEF DropletsPages
<1>4. page.calls[s].id \in P!Ids \cup {None}
  <2>1. page.calls[s] \in DropletCalls
    BY DEF DropletsPages
  <2> QED BY <2>1 DEF DropletCalls
<1> HIDE DEF got
<1>5. shown \in DropletsPages
  BY <1>3, <1>4 DEF DropletsPages, P!Blank
<1> HIDE DEF shown
<1>6. P!Opened(shown, "droplets") \in DropletsPages
  BY <1>5, DropletsOpened DEF P!Tabs
<1> QED BY <1>3, <1>6 DEF P!Loaded, got, shown

LEMMA LowestUnused ==
  ASSUME P!Unused # {}
  PROVE  /\ P!Lowest(P!Unused) \in P!Unused
         /\ \A e \in P!Unused : P!Lowest(P!Unused) <= e
<1>1. P!Unused \in SUBSET Nat
  BY Bounds DEF P!Unused, P!Ids
<1>2. \E d \in P!Unused : \A e \in P!Unused : d <= e
  <2> HIDE DEF P!Unused
  <2> QED BY <1>1, LeastNatural
<1> QED BY <1>2 DEF P!Lowest

LEMMA DropletsServed ==
  ASSUME page \in DropletsPages, NEW s \in Slots, P!Serve(s)
  PROVE  page' \in DropletsPages
<1> DEFINE c == page.calls[s]
<1>1. c \in DropletCalls /\ c.served = FALSE
  <2>1. c # Empty
    BY RequestsOfDroplets DEF P!Serve
  <2>2. c \in DropletCalls
    BY <2>1 DEF DropletsPages
  <2> QED BY <2>2 DEF P!Serve, DropletCalls
<1>2. CASE c.kind = "create" /\ P!Unused # {}
                /\ LET d == P!Lowest(P!Unused) IN
                   page' = [page EXCEPT !.table[d] = "provisioning", !.booting = @ \cup {d},
                                        !.calls[s] = [c EXCEPT !.served = TRUE, !.id = d]]
  <2> DEFINE d == P!Lowest(P!Unused)
             made == [c EXCEPT !.served = TRUE, !.id = d]
             filled == [page EXCEPT !.calls = Filled(page.calls, s, made)]
             added == [page.table EXCEPT ![d] = "provisioning"]
  <2>1. d \in P!Ids
    BY <1>2, LowestUnused DEF P!Unused
  <2> HIDE DEF d
  <2>2. made \in DropletCalls
    BY <1>1, <1>2, <2>1 DEF DropletCalls, P!Loads
  <2> HIDE DEF made
  <2>3. filled \in DropletsPages
    BY <2>2, DropletsFilled
  <2>4. added \in P!Tables
    BY <2>1 DEF DropletsPages, P!Tables, P!DropletStatuses
  <2>5. page.booting \cup {d} \in SUBSET P!Ids
    BY <2>1 DEF DropletsPages
  <2>6. page' = [filled EXCEPT !.table = added, !.booting = page.booting \cup {d}]
    BY <1>2 DEF d, made, Filled, DropletsPages
  <2> HIDE DEF filled, added
  <2> QED BY <2>3, <2>4, <2>5, <2>6 DEF DropletsPages
<1>3. CASE c.kind = "delete"
           /\ page' = [page EXCEPT !.table[c.id] = "gone", !.calls[s].served = TRUE]
  <2> DEFINE acted == [c EXCEPT !.served = TRUE]
             filled == [page EXCEPT !.calls = Filled(page.calls, s, acted)]
             left == [page.table EXCEPT ![c.id] = "gone"]
  <2>1. acted \in DropletCalls
    BY <1>1, <1>3 DEF DropletCalls, P!Loads
  <2>2. page' = [filled EXCEPT !.table = left]
    BY <1>3 DEF Filled, DropletsPages
  <2> HIDE DEF acted
  <2>3. filled \in DropletsPages
    BY <2>1, DropletsFilled
  <2>4. left \in P!Tables
    BY DEF DropletsPages, P!Tables
  <2> HIDE DEF filled, left
  <2> QED BY <2>2, <2>3, <2>4 DEF DropletsPages
<1>4. CASE c.kind \in P!Loads
           /\ page' = [page EXCEPT !.calls[s] =
                [c EXCEPT !.served = TRUE, !.answer = P!Listing(page.table)]]
  <2> DEFINE read == [c EXCEPT !.served = TRUE, !.answer = P!Listing(page.table)]
  <2>1. P!Listing(page.table) \in P!Listings
    BY DEF P!Listing, P!Listings
  <2>2. read \in DropletCalls
    BY <1>1, <2>1 DEF DropletCalls
  <2> HIDE DEF read
  <2>3. page' = [page EXCEPT !.calls = Filled(page.calls, s, read)]
    BY <1>4 DEF Filled, DropletsPages, read
  <2> QED BY <2>2, <2>3, DropletsFilled
<1> QED BY <1>2, <1>3, <1>4, Zenon DEF P!Serve

LEMMA DropletsStep ==
  ASSUME page \in DropletsPages, P!Next
  PROVE  page' \in DropletsPages
<1>2. ASSUME NEW kind \in P!Loads \cup {"create", "delete"}, NEW id \in P!Ids \cup {None}
      PROVE  P!Request(kind, id) \in DropletCalls
  BY DropletRequest
<1>3. /\ page.table \in P!Tables /\ page.booting \in SUBSET P!Ids
      /\ page.listed \in P!Listings /\ page.view \in TableViews
      /\ page.form \in [named : BOOLEAN, clustered : BOOLEAN]
  BY DEF DropletsPages
<1>4. CASE P!QuickDeploy
  <2> DEFINE p == [page EXCEPT !.form.named = TRUE]
  <2>1. p \in DropletsPages
    BY <1>3 DEF DropletsPages
  <2> HIDE DEF p
  <2>2. P!Opened(p, "create") \in DropletsPages
    BY <2>1, DropletsOpened DEF P!Tabs
  <2> QED BY <1>4, <2>2 DEF P!QuickDeploy, p
<1>5. ASSUME NEW tab \in P!Tabs, P!SelectTab(tab) PROVE page' \in DropletsPages
  BY <1>5, DropletsOpened DEF P!SelectTab
<1>6. ASSUME NEW form \in [named : BOOLEAN, clustered : BOOLEAN], P!ChangeForm(form)
      PROVE  page' \in DropletsPages
  BY <1>6 DEF P!ChangeForm, DropletsPages
<1>7. ASSUME NEW view, P!Browse(view) PROVE page' \in DropletsPages
  <2>1. view \in P!Views(P!Items(page.listed), page.view)
    BY <1>7 DEF P!Browse
  <2>2. view \in TableViews
    BY <1>3, <2>1, DropletsViewed
  <2>3. page.changes + 1 \in Nat
    BY DEF DropletsPages
  <2>4. page' = [page EXCEPT !.view = view, !.changes = page.changes + 1]
    BY <1>7 DEF P!Browse
  <2> QED BY <2>2, <2>3, <2>4 DEF DropletsPages
<1>8. CASE P!Unhighlight
  BY <1>8 DEF P!Unhighlight, DropletsPages
<1>9. CASE P!Create
  <2> DEFINE p == P!Started(P!Request("create", None))
  <2>1. p \in DropletsPages
    BY <1>2, <1>9, DropletsSent DEF P!Create
  <2>2. page' = [p EXCEPT !.loading = TRUE]
    BY <1>9 DEF P!Create
  <2> HIDE DEF p
  <2> QED BY <2>1, <2>2 DEF DropletsPages
<1>10. CASE P!Refresh
  BY <1>2, <1>10, DropletsSent DEF P!Refresh, P!Loads
<1>11. ASSUME NEW d \in P!Ids, P!Delete(d) PROVE page' \in DropletsPages
  BY <1>2, <1>11, DropletsSent DEF P!Delete
<1>12. ASSUME NEW d \in P!Ids, P!Boot(d) PROVE page' \in DropletsPages
  <2>1. [page.table EXCEPT ![d] = "active"] \in P!Tables
    BY <1>3 DEF P!Tables, P!DropletStatuses
  <2>2. page.booting \ {d} \in SUBSET P!Ids
    BY <1>3
  <2> QED BY <1>12, <2>1, <2>2 DEF P!Boot, DropletsPages
<1>18. CASE P!CreateElsewhere
  <2> DEFINE d == P!Lowest(P!Unused)
  <2>1. d \in P!Ids
    BY <1>18, LowestUnused DEF P!CreateElsewhere, P!Unused
  <2> HIDE DEF d
  <2>2. [page.table EXCEPT ![d] = "provisioning"] \in P!Tables
    BY <1>3, <2>1 DEF P!Tables, P!DropletStatuses
  <2>3. /\ page.booting \cup {d} \in SUBSET P!Ids /\ page.others \cup {d} \in SUBSET P!Ids
        /\ page.changes + 1 \in Nat
    BY <2>1 DEF DropletsPages
  <2>4. page' = [page EXCEPT !.table = [page.table EXCEPT ![d] = "provisioning"],
                             !.booting = page.booting \cup {d},
                             !.others = page.others \cup {d}, !.changes = page.changes + 1]
    BY <1>18 DEF P!CreateElsewhere, d
  <2> QED BY <2>2, <2>3, <2>4 DEF DropletsPages
<1>13. ASSUME NEW s \in Slots, page.calls[s] # P!Idle
       PROVE  page.calls[s] # Empty /\ page.calls[s] \in DropletCalls
  BY <1>13, RequestsOfDroplets DEF DropletsPages
<1>14. ASSUME NEW s \in Slots, P!DeliverChange(s) PROVE page' \in DropletsPages
  <2> DEFINE c == page.calls[s]
             next == [c EXCEPT !.kind = P!Reload[c.kind], !.served = FALSE]
  <2>1. c \in DropletCalls /\ c.kind \in {"create", "delete"}
    BY <1>13, <1>14 DEF P!DeliverChange, P!Reload
  <2>2. P!Reload[c.kind] \in P!Loads
    <3>1. P!Reload["create"] \in P!Loads /\ P!Reload["delete"] \in P!Loads
      BY DEF P!Reload, P!Loads
    <3> QED BY <2>1, <3>1
  <2>3. next \in DropletCalls
    BY <2>1, <2>2 DEF DropletCalls
  <2>4. page' = [page EXCEPT !.calls = Filled(page.calls, s, next)]
    BY <1>14 DEF P!DeliverChange, Filled
  <2> HIDE DEF next
  <2> QED BY <2>3, <2>4, DropletsFilled
<1>15. ASSUME NEW s \in Slots, P!DeliverList(s) PROVE page' \in DropletsPages
  <2>1. /\ page.calls[s] # Empty /\ page.calls[s] \in DropletCalls
        /\ page.calls[s].served /\ page.calls[s].kind \in P!Loads
    BY <1>13, <1>15 DEF P!DeliverList
  <2>2. page.calls[s].answer \in P!Listings
    BY <2>1 DEF DropletCalls
  <2>3. P!Loaded(page, s, page.calls[s].answer) \in DropletsPages
    BY <2>1, <2>2, DropletsLoaded
  <2> QED BY <1>15, <2>3 DEF P!DeliverList
<1>16. ASSUME NEW s \in Slots, P!Fail(s) PROVE page' \in DropletsPages
  <2> DEFINE failed == [page EXCEPT !.failures = IF @ < MaxFailures THEN @ + 1 ELSE @]
  <2>0. failed \in DropletsPages /\ failed.calls = page.calls
    BY DEF DropletsPages
  <2>1. page.calls[s] # Empty
    BY <1>13, <1>16 DEF P!Fail
  <2>2. CASE page.calls[s].kind \in P!Loads
    <3>1. page' = P!Loaded(failed, s, P!Empty)
      BY <1>16, <2>2 DEF P!Fail
    <3>2. P!Empty \in P!Listings
      BY DEF P!Empty, P!Listings
    <3> HIDE DEF failed
    <3> QED BY <2>0, <2>1, <3>1, <3>2, DropletsLoaded
  <2>3. CASE page.calls[s].kind \notin P!Loads
    <3> DEFINE done == [failed EXCEPT !.calls = Filled(failed.calls, s, Empty)]
               busy == page.loading /\ page.calls[s].kind # "create"
    <3>1. page' = [failed EXCEPT !.calls = P!Done(page.calls, s), !.loading = busy]
      BY <1>16, <2>3 DEF P!Fail
    <3>2. busy \in BOOLEAN
      OBVIOUS
    <3> HIDE DEF failed, busy
    <3>3. done \in DropletsPages
      BY <2>0, DropletsFilled
    <3>4. page' = [done EXCEPT !.loading = busy]
      BY <2>0, <3>1, RequestsOfDroplets
    <3> HIDE DEF done
    <3> QED BY <3>2, <3>3, <3>4 DEF DropletsPages
  <2> QED BY <2>2, <2>3
<1>17. ASSUME NEW s \in Slots, P!Serve(s) PROVE page' \in DropletsPages
  BY <1>17, DropletsServed
<1> QED
  BY <1>4, <1>5, <1>6, <1>7, <1>8, <1>9, <1>10, <1>11, <1>12, <1>14, <1>15, <1>16, <1>17,
     <1>18
  DEF P!Next, P!Deliver

-----------------------------------------------------------------------------
DropletsInv == route = "provisioning" => page \in DropletsPages

LEMMA DropletsAlways == Spec => []DropletsInv
<1>1. Init => DropletsInv
  BY DEF Init, DropletsInv
<1>2. DropletsInv /\ [Next]_vars => DropletsInv'
  <2> SUFFICES ASSUME DropletsInv, [Next]_vars, route' = "provisioning"
               PROVE  page' \in DropletsPages
    BY DEF DropletsInv, DropletsPages, TableViews, DropletCalls, P!Tables, P!Listings, P!Ids, P!Tabs, P!Loads,
           P!DropletStatuses, P!Directions
  <2>1. CASE UNCHANGED <<route, page>>
    BY <2>1 DEF DropletsInv
  <2>2. CASE Opens
    BY <2>2, DropletsMounted DEF Opens, Mounts
  <2>3. CASE route' = route /\ PageStep
    BY <2>3, DropletsStep DEF DropletsInv, PageStep
  <2> QED BY <2>1, <2>2, <2>3, StepKinds
<1> QED BY <1>1, <1>2, PTL DEF Spec

(* TabularSection.tsx: however the rows change under the user's term,      *)
(* filter and sort, the pages, one after the other, are the droplets that  *)
(* pass the filter, each of them once and in the order of the sort.        *)
THEOREM PagesAreRowsHolds == Spec => []PagesAreRows
<1>1. DropletsInv => PagesAreRows
  <2> SUFFICES ASSUME page \in DropletsPages PROVE P!PagesAreRows
    BY DEF DropletsInv, PagesAreRows
  <2>1. page.listed \in P!Listings /\ page.view.size \in RowSizes
    BY DEF DropletsPages, TableViews
  <2>2. Tabular(P!Items(page.listed)) /\ page.view.size \in Nat \ {0}
    BY <2>1, ListingTabular, TableSizes
  <2> QED BY <2>2, TablePages DEF P!PagesAreRows
<1> QED BY <1>1, DropletsAlways, PTL

-----------------------------------------------------------------------------
(* Rows on display are rows of the table.                                  *)
LEMMA SliceRows ==
  ASSUME NEW S, NEW rows \in Seq(S), NEW at \in Nat \ {0}, NEW size \in Nat \ {0},
         NEW i \in DOMAIN P!Slice(rows, at, size)
  PROVE  \E j \in DOMAIN rows : P!Slice(rows, at, size)[i] = rows[j]
<1> DEFINE from == (at - 1) * size
           upto == IF at * size < Len(rows) THEN at * size ELSE Len(rows)
<1>1. from \in Nat /\ upto \in Nat /\ upto <= Len(rows)
  OBVIOUS
<1>2. P!Slice(rows, at, size) = SubSeq(rows, from + 1, upto)
  BY DEF P!Slice
<1> HIDE DEF from, upto
<1>3. /\ DOMAIN SubSeq(rows, from + 1, upto) = 1 .. upto - from
      /\ \A k \in 1 .. upto - from : SubSeq(rows, from + 1, upto)[k] = rows[k + from]
  BY <1>1
<1>4. i \in 1 .. upto - from /\ i + from \in DOMAIN rows
  BY <1>1, <1>2, <1>3
<1> QED BY <1>2, <1>3, <1>4

LEMMA ShownListed ==
  ASSUME NEW listed \in P!Listings, NEW view \in TableViews,
         NEW i \in DOMAIN P!RowsShown(P!Items(listed), view)
  PROVE  /\ P!RowsShown(P!Items(listed), view)[i].id \in P!Ids
         /\ listed[P!RowsShown(P!Items(listed), view)[i].id] # None
<1> DEFINE items == P!Items(listed)
           rows == P!Filtered(items, view)
           shown == P!RowsShown(items, view)
<1>1. RowsListing(items, listed) /\ TableOf(rows, items, view)
  BY RowsOfListing, ListingTabular, FilteredRows
<1>2. view.size \in Nat \ {0} /\ view.at \in Nat \ {0}
  <2>1. view.size \in RowSizes /\ view.at \in 1 .. MaxDroplets
    BY DEF TableViews
  <2>2. view.size \in Nat \ {0}
    BY <2>1, TableSizes, Zenon
  <2> QED BY <2>1, <2>2, Bounds
<1>3. rows \in Seq({items[k] : k \in DOMAIN items})
  BY <1>1 DEF TableOf
<1>4. shown = P!Slice(rows, view.at, view.size)
  BY DEF P!RowsShown
<1> HIDE DEF items, rows, shown
<1>5. PICK j \in DOMAIN rows : shown[i] = rows[j]
  BY <1>2, <1>3, <1>4, SliceRows DEF shown, items
<1>6. PICK k \in P!Found(items, view) : rows[j] = items[k]
  BY <1>1 DEF TableOf
<1>7. k \in DOMAIN items
  BY DEF P!Found
<1>8. shown[i].id \in P!Ids /\ listed[shown[i].id] # None
  BY <1>1, <1>5, <1>6, <1>7, Zenon DEF RowsListing
<1> QED BY <1>8 DEF shown, items

(* A table that nobody has touched begins with its first row.              *)
LEMMA FirstRow ==
  ASSUME NEW items, Tabular(items), 1 \in DOMAIN items
  PROVE  /\ 1 \in DOMAIN P!RowsShown(items, P!FirstView)
         /\ P!RowsShown(items, P!FirstView)[1] = items[1]
<1> DEFINE view == P!FirstView
           rows == P!Filtered(items, view)
           places == P!Found(items, view)
           upto == P!Sorted(items, view)
           r == Rank(places, upto, 1)
           first == At(places, upto, 1)
<1>0. PICK n \in Nat : DOMAIN items = 1 .. n
  BY DEF Tabular
<1>1. /\ view.term = Unset /\ view.status = Unset /\ view.dir = Unset
      /\ view.at = 1 /\ view.size = FirstSize
  BY DEF P!FirstView
<1> HIDE DEF view
<1>2. IsFiniteSet(places) /\ TotalOrder(places, upto)
  BY <1>0, FoundFinite, SortedTotal
<1>3. ArrangementOf(rows, items, places, upto)
  BY <1>2, ArrangedRows DEF P!Filtered
<1>4. places = DOMAIN items
  BY <1>1 DEF P!Found
<1>5. \A i, k \in DOMAIN items : <<i, k>> \in upto => i <= k
  <2>1. Unset \notin {"asc", "desc"}
    BY ConsoleAssumption, Zenon
  <2>2. \A x, y : ~P!Before(x, y, view.dir)
    BY <1>1, <2>1 DEF P!Before
  <2> QED BY <2>2 DEF P!Sorted
<1>6. TableOf(rows, items, view)
  BY FilteredRows
<1>7. rows \in Seq({items[k] : k \in DOMAIN items})
  BY <1>6 DEF TableOf
<1> HIDE DEF rows, places, upto
<1>8. Cardinality(places) \in Nat /\ DOMAIN rows = 1 .. Cardinality(places)
  BY <1>2, <1>3, FS_CardinalityType DEF ArrangementOf
<1>9. r \in DOMAIN rows /\ rows[r] = items[1]
  BY <1>3, <1>4 DEF ArrangementOf
<1>10. 1 \in DOMAIN rows /\ 1 <= r
  BY <1>8, <1>9
<1>11. first \in DOMAIN items /\ rows[1] = items[first]
  BY <1>3, <1>4, <1>10 DEF ArrangementOf
<1>12. <<first, At(places, upto, r)>> \in upto
  BY <1>3, <1>9, <1>10 DEF ArrangementOf
<1>13. At(places, upto, r) = 1
  BY <1>2, <1>4, RankOnto
<1>14. first = 1
  <2>1. first <= 1
    BY <1>5, <1>11, <1>12, <1>13
  <2> QED BY <1>0, <1>11, <2>1
<1>15. Len(rows) \in Nat /\ Len(rows) >= 1
  BY <1>7, <1>10
<1>16. P!RowsShown(items, view) = SubSeq(rows, 1, IF FirstSize < Len(rows) THEN FirstSize ELSE Len(rows))
  <2>1. FirstSize \in Nat \ {0}
    BY TableSizes, Zenon
  <2>2. (view.at - 1) * view.size + 1 = 1 /\ view.at * view.size = FirstSize
    BY <1>1, <2>1
  <2>3. P!RowsShown(items, view) = P!Slice(rows, view.at, view.size)
    BY Zenon DEF P!RowsShown, rows
  <2> QED BY <2>2, <2>3, Zenon DEF P!Slice
<1>17. FirstSize \in Nat \ {0}
  BY TableSizes, Zenon
<1>18. /\ 1 \in DOMAIN P!RowsShown(items, view)
       /\ P!RowsShown(items, view)[1] = rows[1]
  BY <1>7, <1>15, <1>16, <1>17
<1> QED BY <1>11, <1>14, <1>18 DEF view

-----------------------------------------------------------------------------
(* Droplets are numbered as they are created and stay in the table when    *)
(* they are deleted, so what has been read of them is there still; and the *)
(* one that a creation made is the newest, but for those of others, as     *)
(* long as it is on its way, the next being kept off by the busy flag.     *)
Known(rows, table) == \A d \in P!Ids : rows[d] # None => table[d] # None
Newest(d, table, others) ==
  d \in P!Ids /\ \A e \in P!Ids : e > d /\ table[e] # None => e \in others
Prefix(table) == \A d, e \in P!Ids : d <= e /\ table[e] # None => table[d] # None
Made(c) == c.kind \in P!Creations /\ (c.kind = "create" => c.served)

DropletCall(c, table, others) ==
  /\ c.kind \in P!Loads /\ c.served => Known(c.answer, table)
  /\ c.kind = "delete" => c.id \in P!Ids /\ table[c.id] # None
  /\ Made(c) => Newest(c.id, table, others)

CallsOf(table, others) == {c \in DropletCalls : DropletCall(c, table, others)}

CreatedInv ==
  /\ Prefix(page.table) /\ Known(page.listed, page.table)
  /\ \A d \in page.booting : page.table[d] # None
  /\ Fit(page.calls, CallsOf(page.table, page.others))

(* A table in which the same droplets have been created.                   *)
SameIds(table, next) == \A d \in P!Ids : next[d] = None <=> table[d] = None

LEMMA SameIdsKept ==
  ASSUME page.booting \subseteq P!Ids, CreatedInv, NEW next, SameIds(page.table, next)
  PROVE  /\ Prefix(next) /\ Known(page.listed, next)
         /\ \A d \in page.booting : next[d] # None
         /\ Fit(page.calls, CallsOf(next, page.others))
<1>1. Prefix(next)
  BY DEF CreatedInv, Prefix, SameIds
<1>2. Known(page.listed, next) /\ \A d \in page.booting : next[d] # None
  BY DEF CreatedInv, Known, SameIds
<1>3. ASSUME NEW c, DropletCall(c, page.table, page.others) PROVE DropletCall(c, next, page.others)
  BY <1>3 DEF DropletCall, Known, Newest, SameIds
<1>4. CallsOf(page.table, page.others) \subseteq CallsOf(next, page.others)
  BY <1>3 DEF CallsOf
<1>5. Fit(page.calls, CallsOf(next, page.others))
  BY <1>4 DEF CreatedInv, Fit
<1> QED BY <1>1, <1>2, <1>5

(* A step of the page that gives one slot another content.                 *)
LEMMA CreatedFilled ==
  ASSUME page \in DropletsPages, CreatedInv, SameIds(page.table, page'.table),
         Known(page'.listed, page'.table), page'.booting \subseteq page.booting,
         page'.others = page.others,
         NEW s \in Slots, NEW c \in {Empty} \cup CallsOf(page'.table, page'.others),
         page'.calls = Filled(page.calls, s, c)
  PROVE  CreatedInv'
<1>1. page.booting \subseteq P!Ids
  BY DEF DropletsPages
<1>2. /\ Prefix(page'.table) /\ Fit(page.calls, CallsOf(page'.table, page'.others))
      /\ \A d \in page.booting : page'.table[d] # None
  BY <1>1, SameIdsKept
<1>3. Fit(page'.calls, CallsOf(page'.table, page'.others))
  BY <1>2, FitFilled
<1>4. Prefix(page'.table) <=> Prefix(page.table)'
  BY DEF Prefix, P!Ids
<1>5. Known(page'.listed, page'.table) <=> Known(page.listed, page.table)'
  BY DEF Known, P!Ids
<1>6. Fit(page'.calls, CallsOf(page'.table, page'.others))
        <=> Fit(page.calls, CallsOf(page.table, page.others))'
  OBVIOUS
<1> QED BY <1>2, <1>3, <1>4, <1>5, <1>6 DEF CreatedInv

(* A step that leaves the table's ids and its requests alone.              *)
LEMMA CreatedKept ==
  ASSUME page \in DropletsPages, CreatedInv, SameIds(page.table, page'.table),
         Known(page'.listed, page'.table), page'.booting \subseteq page.booting,
         page'.others = page.others,
         page'.calls = page.calls
  PROVE  CreatedInv'
<1>1. PICK s \in Slots : TRUE
  BY ConsoleAssumption
<1>2. page.calls \in [Slots -> {Empty} \cup DropletCalls]
  BY DEF DropletsPages
<1>3. page'.calls = Filled(page.calls, s, page.calls[s])
  BY <1>2 DEF Filled
<1>4. page.booting \subseteq P!Ids
  BY DEF DropletsPages
<1>5. Fit(page.calls, CallsOf(page'.table, page'.others))
  BY <1>4, SameIdsKept
<1>6. page.calls[s] \in {Empty} \cup CallsOf(page'.table, page'.others)
  BY <1>5 DEF Fit
<1> QED BY <1>3, <1>6, CreatedFilled

LEMMA SameTable == ASSUME NEW table PROVE SameIds(table, table)
BY DEF SameIds

LEMMA KindsOfDroplets ==
  /\ "create" \in P!Creations /\ "create reload" \in P!Creations
  /\ "delete" \notin P!Creations /\ "delete reload" \notin P!Creations
  /\ "list" \notin P!Creations
  /\ "delete" \notin P!Loads /\ "create" \notin P!Loads
  /\ "create reload" # "create" /\ "create reload" # "delete"
  /\ "delete reload" # "delete" /\ "create" # "delete"
  /\ "list" \in P!Loads /\ "create reload" \in P!Loads /\ "delete reload" \in P!Loads
BY DEF P!Creations, P!Loads

LEMMA CreatedSent ==
  ASSUME page \in DropletsPages, CreatedInv,
         NEW c \in DropletCalls, DropletCall(c, page.table, page.others), P!MayStart,
         page'.calls = P!Started(c).calls, page'.table = page.table,
         page'.listed = page.listed, page'.booting = page.booting, page'.others = page.others
  PROVE  CreatedInv'
<1>1. Room(page.calls)
  BY RequestsOfDroplets DEF P!MayStart
<1>2. page'.calls = Placed(page.calls, c)
  <2>1. P!Started(c).calls = P!Sent(page.calls, c)
    BY DEF P!Started, DropletsPages
  <2> QED BY <2>1, RequestsOfDroplets
<1>3. PICK s \in Slots : page'.calls = Filled(page.calls, s, c)
  BY <1>1, <1>2, PlacedSlot
<1>4. c \in CallsOf(page'.table, page'.others)
  BY DEF CallsOf
<1>5. SameIds(page.table, page'.table) /\ Known(page'.listed, page'.table)
  BY SameTable DEF CreatedInv
<1> QED BY <1>3, <1>4, <1>5, CreatedFilled

(* A request that has not been served and promises nothing yet.            *)
LEMMA FreshCall ==
  ASSUME NEW kind \in P!Loads \cup {"create", "delete"}, NEW id \in P!Ids \cup {None},
         NEW table, NEW others,
         kind \notin {"delete", "create reload"} \/ (kind = "delete" /\ id \in P!Ids /\ table[id] # None)
  PROVE  P!Request(kind, id) \in CallsOf(table, others)
<1> DEFINE c == P!Request(kind, id)
<1>2. c.kind = kind /\ c.id = id /\ c.served = FALSE /\ c \in DropletCalls
  BY DropletRequest
<1> HIDE DEF c
<1>3. ~Made(c)
  BY <1>2, KindsOfDroplets, Zenon DEF Made, P!Creations
<1>4. DropletCall(c, table, others)
  BY <1>2, <1>3, KindsOfDroplets DEF DropletCall
<1> QED BY <1>2, <1>4 DEF CallsOf, c

LEMMA CreatedMounted ==
  ASSUME page' \in P!Mounts
  PROVE  CreatedInv'
<1> DEFINE call == P!Request("list", None)
           table(n) == [d \in P!Ids |-> IF d <= n THEN "provisioning" ELSE None]
<1>0. PICK n \in 0 .. MaxDroplets - 1 :
        page' \in {P!Mounted(table(n), booting) : booting \in SUBSET (1 .. n)}
  BY Zenon DEF P!Mounts
<1>1. PICK booting \in SUBSET (1 .. n) : page' = P!Mounted(table(n), booting)
  BY <1>0, Zenon
<1>2. /\ page'.table = table(n) /\ page'.booting = booting /\ page'.listed = P!Empty
      /\ page'.calls = P!Sent(P!NoCalls, call)
  BY <1>1 DEF P!Mounted
<1>3. Prefix(table(n)) /\ \A d \in booting : table(n)[d] # None
  <2>1. None # "provisioning"
    BY ConsoleAssumption, Zenon
  <2>2. P!Ids = 1 .. MaxDroplets /\ MaxDroplets \in Nat /\ P!Ids \subseteq Int /\ n \in Int
    BY Bounds DEF P!Ids
  <2>3. Prefix(table(n))
    BY <2>1, <2>2 DEF Prefix
  <2>4. \A d \in 1 .. n : d \in P!Ids /\ d <= n
    BY <2>2
  <2> QED BY <2>1, <2>3, <2>4
<1> HIDE DEF table
<1>4. Known(P!Empty, table(n))
  BY DEF Known, P!Empty
<1>5. call \in CallsOf(table(n), page'.others)
  <2>1. "list" \in P!Loads \cup {"create", "delete"} /\ "list" \notin {"delete", "create reload"}
    BY DEF P!Loads
  <2> QED BY <2>1, FreshCall
<1> HIDE DEF call
<1>6. Fit(page'.calls, CallsOf(table(n), page'.others))
  <2>1. page'.calls = Placed(Unused, call)
    BY <1>2, RequestsOfDroplets
  <2> QED BY <1>5, <2>1, FitUnused, FitPlaced
<1>7. Prefix(page.table)'
  BY <1>2, <1>3 DEF Prefix, P!Ids
<1>8. Known(page.listed, page.table)'
  BY <1>2, <1>4 DEF Known, P!Ids
<1>9. Fit(page.calls, CallsOf(page.table, page.others))'
  BY <1>2, <1>6
<1>10. (\A d \in page.booting : page.table[d] # None)'
  BY <1>2, <1>3
<1> QED BY <1>7, <1>8, <1>9, <1>10 DEF CreatedInv

(* The one creation that is on its way.                                    *)
LEMMA OneCreating ==
  ASSUME ProvisioningInv, NEW s \in Slots, NEW t \in Slots,
         page.calls[s].kind \in P!Creations, page.calls[t].kind \in P!Creations
  PROVE  s = t
<1>1. Exactly(page.loading, page.calls, P!Creations)
  BY DEF ProvisioningInv, Flagged
<1>2. s \in Waiting(page.calls, P!Creations) /\ t \in Waiting(page.calls, P!Creations)
  BY DEF Waiting
<1> QED BY <1>1, <1>2 DEF Exactly

(* The next droplet, whoever creates it.                                   *)
LEMMA DropletAdded ==
  ASSUME page \in DropletsPages, CreatedInv, P!Unused # {}, NEW next,
         next = [page.table EXCEPT ![P!Lowest(P!Unused)] = "provisioning"]
  PROVE  LET d == P!Lowest(P!Unused)
         IN /\ d \in P!Ids /\ Prefix(next) /\ Known(page.listed, next)
            /\ \A e \in page.booting \cup {d} : next[e] # None
            /\ \A e \in P!Ids : e > d => next[e] = None
            /\ \A e \in P!Ids : page.table[e] # None => next[e] # None
            /\ \A e \in P!Ids : next[e] # None => e = d \/ page.table[e] # None
<1> DEFINE d == P!Lowest(P!Unused)
<1>1. page.table \in P!Tables /\ page.booting \subseteq P!Ids
  BY DEF DropletsPages
<1>2. None # "provisioning"
  BY ConsoleAssumption, Zenon
<1>3. d \in P!Ids /\ page.table[d] = None /\ \A e \in P!Ids : page.table[e] = None => d <= e
  BY LowestUnused DEF P!Unused
<1> HIDE DEF d
<1>4. next[d] = "provisioning" /\ \A e \in P!Ids : e # d => next[e] = page.table[e]
  BY <1>1, <1>3 DEF P!Tables, d
<1>5. P!Ids \subseteq Int
  BY Bounds DEF P!Ids
<1>6. Prefix(page.table)
  BY DEF CreatedInv
<1>7. \A e \in P!Ids : e > d => next[e] = None
  BY <1>3, <1>4, <1>5, <1>6 DEF Prefix
<1>8. Prefix(next)
  <2>1. ASSUME NEW a \in P!Ids, NEW e \in P!Ids, a <= e, next[e] # None PROVE next[a] # None
    <3>1. CASE a = d
      BY <1>2, <1>4, <3>1
    <3>2. CASE a # d /\ e = d
      BY <1>3, <1>4, <1>5, <2>1, <3>2
    <3>3. CASE a # d /\ e # d
      BY <1>4, <1>6, <2>1, <3>3 DEF Prefix
    <3> QED BY <3>1, <3>2, <3>3
  <2> QED BY <2>1 DEF Prefix
<1>9. \A e \in P!Ids : page.table[e] # None => next[e] # None
  BY <1>2, <1>4
<1>10. /\ Known(page.listed, next) /\ \A e \in page.booting \cup {d} : next[e] # None
  BY <1>1, <1>2, <1>3, <1>4, <1>9 DEF CreatedInv, Known
<1>11. \A e \in P!Ids : next[e] # None => e = d \/ page.table[e] # None
  BY <1>4
<1> QED BY <1>3, <1>7, <1>8, <1>9, <1>10, <1>11 DEF d

(* One that somebody else creates is newer than what the user creates, and *)
(* is known to be.                                                         *)
LEMMA CreatedOther ==
  ASSUME page \in DropletsPages, CreatedInv, P!CreateElsewhere
  PROVE  CreatedInv'
<1> DEFINE d == P!Lowest(P!Unused)
           next == [page.table EXCEPT ![d] = "provisioning"]
<1>1. /\ P!Unused # {} /\ page'.table = next /\ page'.booting = page.booting \cup {d}
      /\ page'.others = page.others \cup {d} /\ page'.listed = page.listed
      /\ page'.calls = page.calls
  BY DEF P!CreateElsewhere, DropletsPages
<1>2. /\ d \in P!Ids /\ Prefix(next) /\ Known(page.listed, next)
      /\ \A e \in page.booting \cup {d} : next[e] # None
      /\ \A e \in P!Ids : page.table[e] # None => next[e] # None
      /\ \A e \in P!Ids : next[e] # None => e = d \/ page.table[e] # None
  BY <1>1, DropletAdded
<1> HIDE DEF d, next
<1>3. ASSUME NEW c, DropletCall(c, page.table, page.others)
      PROVE  DropletCall(c, next, page.others \cup {d})
  <2>1. c.kind \in P!Loads /\ c.served => Known(c.answer, next)
    BY <1>2, <1>3 DEF DropletCall, Known
  <2>2. c.kind = "delete" => c.id \in P!Ids /\ next[c.id] # None
    BY <1>2, <1>3 DEF DropletCall
  <2>3. Made(c) => Newest(c.id, next, page.others \cup {d})
    BY <1>2, <1>3 DEF DropletCall, Newest
  <2> QED BY <2>1, <2>2, <2>3 DEF DropletCall
<1>4. CallsOf(page.table, page.others) \subseteq CallsOf(next, page.others \cup {d})
  BY <1>3 DEF CallsOf
<1>5. Fit(page.calls, CallsOf(next, page.others \cup {d}))
  BY <1>4 DEF CreatedInv, Fit
<1>6. Fit(page.calls, CallsOf(page.table, page.others))'
  BY <1>1, <1>5
<1>7. Prefix(page.table)'
  BY <1>1, <1>2 DEF Prefix, P!Ids
<1>8. Known(page.listed, page.table)'
  BY <1>1, <1>2 DEF Known, P!Ids
<1> QED BY <1>1, <1>2, <1>6, <1>7, <1>8 DEF CreatedInv

LEMMA CreatedServed ==
  ASSUME page \in DropletsPages, ProvisioningInv, CreatedInv, NEW s \in Slots, P!Serve(s)
  PROVE  CreatedInv'
<1> DEFINE c == page.calls[s]
<1>1. c \in DropletCalls /\ DropletCall(c, page.table, page.others) /\ c.served = FALSE
  <2>1. c # Empty
    BY RequestsOfDroplets DEF P!Serve
  <2>2. c \in CallsOf(page.table, page.others)
    BY <2>1 DEF CreatedInv, Fit
  <2> QED BY <2>2 DEF P!Serve, CallsOf, DropletCalls
<1>2. /\ page.table \in P!Tables /\ page.booting \subseteq P!Ids
      /\ page.calls \in [Slots -> {Empty} \cup DropletCalls]
  BY DEF DropletsPages
<1>3. None \notin {"active", "provisioning", "gone"}
  BY ConsoleAssumption, Zenon
<1>4. CASE c.kind = "create" /\ P!Unused # {}
                /\ LET d == P!Lowest(P!Unused) IN
                   page' = [page EXCEPT !.table[d] = "provisioning", !.booting = @ \cup {d},
                                        !.calls[s] = [c EXCEPT !.served = TRUE, !.id = d]]
  <2> DEFINE d == P!Lowest(P!Unused)
             made == [c EXCEPT !.served = TRUE, !.id = d]
             next == [page.table EXCEPT ![d] = "provisioning"]
  <2>1. /\ d \in P!Ids /\ Prefix(next) /\ Known(page.listed, next)
        /\ \A e \in page.booting \cup {d} : next[e] # None
        /\ \A e \in P!Ids : e > d => next[e] = None
        /\ \A e \in P!Ids : page.table[e] # None => next[e] # None
    BY <1>4, DropletAdded
  <2>2. /\ page'.table = next /\ page'.booting = page.booting \cup {d}
        /\ page'.others = page.others
        /\ page'.listed = page.listed /\ page'.calls = Filled(page.calls, s, made)
    BY <1>4 DEF DropletsPages, Filled
  <2> HIDE DEF d
  <2>4. /\ made.kind = "create" /\ made.served /\ made.id = d
        /\ made \in DropletCalls
    BY <1>1, <1>4, <2>1 DEF DropletCalls, P!Loads
  <2> HIDE DEF made, next
  <2>7. Newest(d, next, page.others)
    BY <2>1 DEF Newest
  <2>11. made \in CallsOf(next, page.others)
    BY <2>4, <2>7, KindsOfDroplets DEF CallsOf, DropletCall
  <2>12. ASSUME NEW t \in Slots, t # s, page.calls[t] # Empty
         PROVE  page.calls[t] \in CallsOf(next, page.others)
    <3> DEFINE other == page.calls[t]
    <3>1. other \in DropletCalls /\ DropletCall(other, page.table, page.others)
      BY <2>12 DEF CreatedInv, Fit, CallsOf
    <3>2. other.kind \notin P!Creations
      BY <1>4, <2>12, OneCreating, KindsOfDroplets
    <3> HIDE DEF other
    <3>3. DropletCall(other, next, page.others)
      BY <2>1, <3>1, <3>2 DEF DropletCall, Known, Made
    <3> QED BY <3>1, <3>3 DEF CallsOf, other
  <2>13. Fit(page'.calls, CallsOf(next, page.others))
    BY <1>2, <2>2, <2>11, <2>12 DEF Fit, Filled
  <2>14. Prefix(page.table)'
    BY <2>1, <2>2 DEF Prefix, P!Ids
  <2>15. Known(page.listed, page.table)'
    BY <2>1, <2>2 DEF Known, P!Ids
  <2>16. Fit(page.calls, CallsOf(page.table, page.others))'
    BY <2>2, <2>13
  <2> QED BY <2>1, <2>2, <2>14, <2>15, <2>16 DEF CreatedInv
<1>5. CASE c.kind = "delete"
           /\ page' = [page EXCEPT !.table[c.id] = "gone", !.calls[s].served = TRUE]
  <2> DEFINE acted == [c EXCEPT !.served = TRUE]
             left == [page.table EXCEPT ![c.id] = "gone"]
  <2>1. /\ page'.table = left /\ page'.booting = page.booting
        /\ page'.others = page.others /\ page'.listed = page.listed
        /\ page'.calls = Filled(page.calls, s, acted)
    BY <1>5 DEF DropletsPages, Filled
  <2>2. c.id \in P!Ids /\ page.table[c.id] # None
    BY <1>1, <1>5 DEF DropletCall
  <2>3. SameIds(page.table, left)
    BY <1>2, <1>3, <2>2 DEF SameIds, P!Tables
  <2>4. /\ acted.kind = "delete" /\ acted.id = c.id /\ acted \in DropletCalls
    BY <1>1, <1>5 DEF DropletCalls, P!Loads
  <2> HIDE DEF acted, left
  <2>5. ~Made(acted) /\ acted.kind \notin P!Loads
    BY <2>4, KindsOfDroplets DEF Made
  <2>6. acted \in CallsOf(left, page.others)
    BY <2>2, <2>3, <2>4, <2>5 DEF CallsOf, DropletCall, SameIds
  <2>7. Known(page.listed, left)
    BY <1>2, <2>3, SameIdsKept
  <2> QED BY <2>1, <2>3, <2>6, <2>7, CreatedFilled
<1>6. CASE c.kind \in P!Loads
           /\ page' = [page EXCEPT !.calls[s] =
                [c EXCEPT !.served = TRUE, !.answer = P!Listing(page.table)]]
  <2> DEFINE read == [c EXCEPT !.served = TRUE, !.answer = P!Listing(page.table)]
  <2>1. /\ page'.table = page.table /\ page'.booting = page.booting /\ page'.others = page.others
        /\ page'.listed = page.listed /\ page'.calls = Filled(page.calls, s, read)
    BY <1>6 DEF DropletsPages, Filled
  <2>2. P!Listing(page.table) \in P!Listings /\ Known(P!Listing(page.table), page.table)
    BY DEF P!Listing, P!Listings, Known
  <2>3. /\ read.kind = c.kind /\ read.id = c.id /\ read.answer = P!Listing(page.table)
        /\ read \in DropletCalls
    BY <1>1, <2>2 DEF DropletCalls
  <2> HIDE DEF read
  <2>4. c.kind # "delete" /\ c.kind # "create"
    BY <1>6, KindsOfDroplets
  <2>5. Made(read) => Made(c)
    BY <2>3, <2>4 DEF Made
  <2>6. read \in CallsOf(page.table, page.others)
    BY <1>1, <2>2, <2>3, <2>4, <2>5 DEF CallsOf, DropletCall
  <2> QED BY <2>1, <2>6, SameTable, CreatedFilled DEF CreatedInv
<1> QED BY <1>4, <1>5, <1>6, Zenon DEF P!Serve

LEMMA LoadedFields ==
  ASSUME NEW p \in DropletsPages, NEW s, NEW listing
  PROVE  /\ P!Loaded(p, s, listing).table = p.table
         /\ P!Loaded(p, s, listing).booting = p.booting /\ P!Loaded(p, s, listing).others = p.others
         /\ P!Loaded(p, s, listing).listed = listing
         /\ P!Loaded(p, s, listing).calls = Filled(p.calls, s, Empty)
<1> DEFINE got == [p EXCEPT !.calls = P!Done(p.calls, s), !.listed = listing]
           shown == P!Opened([got EXCEPT !.highlight = page.calls[s].id, !.form = P!Blank,
                                         !.loading = FALSE], "droplets")
<1>1. /\ got.table = p.table /\ got.booting = p.booting /\ got.others = p.others /\ got.listed = listing
      /\ got.calls = Filled(p.calls, s, Empty)
  BY RequestsOfDroplets DEF DropletsPages
<1>2. /\ shown.table = p.table /\ shown.booting = p.booting
      /\ shown.others = p.others /\ shown.listed = listing
      /\ shown.calls = Filled(p.calls, s, Empty)
  BY RequestsOfDroplets DEF DropletsPages, P!Opened
<1>3. P!Loaded(p, s, listing) = IF page.calls[s].kind # "create reload" THEN got ELSE shown
  BY DEF P!Loaded
<1> HIDE DEF got, shown
<1> QED BY <1>1, <1>2, <1>3, Zenon

(* What the end of a creation puts forward.                                *)
LEMMA LoadedMarks ==
  ASSUME NEW p \in DropletsPages, NEW s, NEW listing
  PROVE  \/ P!Loaded(p, s, listing).highlight = p.highlight
         \/ /\ page.calls[s].kind = "create reload"
            /\ P!Loaded(p, s, listing).highlight = page.calls[s].id
            /\ P!Loaded(p, s, listing).tab = "droplets"
<1> DEFINE got == [p EXCEPT !.calls = P!Done(p.calls, s), !.listed = listing]
           shown == P!Opened([got EXCEPT !.highlight = page.calls[s].id, !.form = P!Blank,
                                         !.loading = FALSE], "droplets")
<1>1. got.highlight = p.highlight
  BY DEF DropletsPages
<1>2. shown.highlight = page.calls[s].id /\ shown.tab = "droplets"
  BY DEF DropletsPages, P!Opened
<1>3. P!Loaded(p, s, listing) = IF page.calls[s].kind # "create reload" THEN got ELSE shown
  BY DEF P!Loaded
<1> HIDE DEF got, shown
<1> QED BY <1>1, <1>2, <1>3, Zenon

LEMMA CreatedStep ==
  ASSUME page \in DropletsPages, ProvisioningInv, CreatedInv, P!Next
  PROVE  CreatedInv'
<1>1. /\ page.listed \in P!Listings /\ page.view \in TableViews
      /\ page.table \in P!Tables /\ page.booting \subseteq P!Ids
  BY DEF DropletsPages
<1>2. Known(page.listed, page.table) /\ SameIds(page.table, page.table)
  BY SameTable DEF CreatedInv
<1>3. ASSUME page'.table = page.table, page'.listed = page.listed,
             page'.booting = page.booting, page'.others = page.others, page'.calls = page.calls
      PROVE  CreatedInv'
  BY <1>2, <1>3, CreatedKept
<1>4. ASSUME NEW s \in Slots, page.calls[s] # P!Idle
      PROVE  /\ page.calls[s] # Empty /\ page.calls[s] \in DropletCalls
             /\ DropletCall(page.calls[s], page.table, page.others)
  BY <1>4, RequestsOfDroplets DEF CreatedInv, Fit, CallsOf
<1>5. CASE P!QuickDeploy
  <2>1. /\ page'.table = page.table /\ page'.listed = page.listed
        /\ page'.booting = page.booting /\ page'.others = page.others /\ page'.calls = page.calls
    BY <1>5 DEF P!QuickDeploy, P!Opened, DropletsPages
  <2> QED BY <1>3, <2>1
<1>6. ASSUME NEW tab, P!SelectTab(tab) PROVE CreatedInv'
  <2>1. /\ page'.table = page.table /\ page'.listed = page.listed
        /\ page'.booting = page.booting /\ page'.others = page.others /\ page'.calls = page.calls
    BY <1>6 DEF P!SelectTab, P!Opened, DropletsPages
  <2> QED BY <1>3, <2>1
<1>7. ASSUME NEW form, P!ChangeForm(form) PROVE CreatedInv'
  <2>1. /\ page'.table = page.table /\ page'.listed = page.listed
        /\ page'.booting = page.booting /\ page'.others = page.others /\ page'.calls = page.calls
    BY <1>7 DEF P!ChangeForm, DropletsPages
  <2> QED BY <1>3, <2>1
<1>8. ASSUME NEW view, P!Browse(view) PROVE CreatedInv'
  <2>1. /\ page'.table = page.table /\ page'.listed = page.listed
        /\ page'.booting = page.booting /\ page'.others = page.others /\ page'.calls = page.calls
    BY <1>8 DEF P!Browse, DropletsPages
  <2> QED BY <1>3, <2>1
<1>9. CASE P!Unhighlight
  <2>1. /\ page'.table = page.table /\ page'.listed = page.listed
        /\ page'.booting = page.booting /\ page'.others = page.others /\ page'.calls = page.calls
    BY <1>9 DEF P!Unhighlight, DropletsPages
  <2> QED BY <1>3, <2>1
<1>10. ASSUME NEW c \in CallsOf(page.table, page.others), P!MayStart,
              page'.calls = P!Started(c).calls, page'.table = page.table,
              page'.listed = page.listed, page'.booting = page.booting, page'.others = page.others
       PROVE  CreatedInv'
  BY <1>10, CreatedSent DEF CallsOf
<1>11. ASSUME NEW c PROVE /\ P!Started(c).table = page.table /\ P!Started(c).listed = page.listed
                          /\ P!Started(c).booting = page.booting /\ P!Started(c).others = page.others
  BY DEF P!Started, DropletsPages
<1>12. CASE P!Create
  <2> DEFINE c == P!Request("create", None)
  <2>1. c \in CallsOf(page.table, page.others)
    <3>1. "create" \notin {"delete", "create reload"}
      OBVIOUS
    <3> QED BY <3>1, FreshCall
  <2>2. P!MayStart /\ page' = [P!Started(c) EXCEPT !.loading = TRUE]
    BY <1>12 DEF P!Create
  <2>3. page'.calls = P!Started(c).calls /\ page'.table = P!Started(c).table
        /\ page'.listed = P!Started(c).listed /\ page'.booting = P!Started(c).booting
        /\ page'.others = P!Started(c).others
    BY <2>2 DEF P!Started, DropletsPages
  <2> HIDE DEF c
  <2> QED BY <1>10, <1>11, <2>1, <2>2, <2>3
<1>13. CASE P!Refresh
  <2> DEFINE c == P!Request("list", None)
  <2>1. c \in CallsOf(page.table, page.others)
    <3>1. "list" \notin {"delete", "create reload"} /\ "list" \in P!Loads
      BY DEF P!Loads
    <3> QED BY <3>1, FreshCall
  <2>2. P!MayStart /\ page' = P!Started(c)
    BY <1>13 DEF P!Refresh
  <2> HIDE DEF c
  <2> QED BY <1>10, <1>11, <2>1, <2>2
<1>14. ASSUME NEW d \in P!Ids, P!Delete(d) PROVE CreatedInv'
  <2> DEFINE c == P!Request("delete", d)
  <2>1. page.table[d] # None
    <3>1. page.listed[d] # None
      BY <1>1, <1>14, ShownListed DEF P!Delete
    <3> QED BY <1>2, <3>1 DEF Known
  <2>2. c \in CallsOf(page.table, page.others)
    BY <2>1, FreshCall
  <2>3. P!MayStart /\ page' = P!Started(c)
    BY <1>14 DEF P!Delete
  <2> HIDE DEF c
  <2> QED BY <1>10, <1>11, <2>2, <2>3
<1>15. ASSUME NEW d \in P!Ids, P!Boot(d) PROVE CreatedInv'
  <2>1. /\ page'.table = [page.table EXCEPT ![d] = "active"] /\ page'.listed = page.listed
        /\ page'.others = page.others
        /\ page'.booting = page.booting \ {d} /\ page'.calls = page.calls /\ d \in page.booting
    BY <1>15 DEF P!Boot, DropletsPages
  <2>2. page.table[d] # None /\ None # "active"
    BY <2>1, ConsoleAssumption, Zenon DEF CreatedInv
  <2>3. SameIds(page.table, page'.table)
    BY <1>1, <2>1, <2>2 DEF SameIds, P!Tables
  <2>4. Known(page'.listed, page'.table)
    BY <1>1, <2>1, <2>3, SameIdsKept
  <2>5. page'.booting \subseteq page.booting
    BY <2>1
  <2> QED BY <2>1, <2>3, <2>4, <2>5, CreatedKept
<1>16. ASSUME NEW s \in Slots, P!DeliverChange(s) PROVE CreatedInv'
  <2> DEFINE c == page.calls[s]
             next == [c EXCEPT !.kind = P!Reload[c.kind], !.served = FALSE]
  <2>1. /\ c \in DropletCalls /\ DropletCall(c, page.table, page.others)
        /\ c.kind \in {"create", "delete"} /\ c.served
    BY <1>4, <1>16 DEF P!DeliverChange, P!Reload
  <2>2. /\ P!Reload["create"] = "create reload" /\ P!Reload["delete"] = "delete reload"
    BY DEF P!Reload
  <2>3. /\ page'.calls = Filled(page.calls, s, next) /\ page'.table = page.table
        /\ page'.listed = page.listed /\ page'.booting = page.booting /\ page'.others = page.others
    BY <1>16 DEF P!DeliverChange, Filled, DropletsPages
  <2>4. /\ next.kind = P!Reload[c.kind] /\ next.id = c.id /\ next.served = FALSE
        /\ P!Reload[c.kind] \in P!Loads => next \in DropletCalls
    BY <2>1 DEF DropletCalls
  <2> HIDE DEF next
  <2>5. P!Reload[c.kind] \in P!Loads /\ next.kind # "delete"
    BY <2>1, <2>2, <2>4, KindsOfDroplets, Zenon
  <2>6. Made(next) => Made(c)
    <3>1. c.kind = "delete" => next.kind \notin P!Creations
      BY <2>2, <2>4, KindsOfDroplets
    <3>2. c.kind = "create" => Made(c)
      BY <2>1, KindsOfDroplets DEF Made
    <3> QED BY <2>1, <3>1, <3>2 DEF Made
  <2>7. DropletCall(next, page.table, page.others)
    BY <2>1, <2>4, <2>5, <2>6 DEF DropletCall
  <2>8. next \in CallsOf(page'.table, page'.others)
    BY <2>3, <2>4, <2>5, <2>7 DEF CallsOf
  <2> QED BY <1>2, <2>3, <2>8, CreatedFilled
<1>17. ASSUME NEW s \in Slots, P!DeliverList(s) PROVE CreatedInv'
  <2> DEFINE c == page.calls[s]
  <2>1. /\ c \in DropletCalls /\ DropletCall(c, page.table, page.others) /\ c.kind \in P!Loads /\ c.served
        /\ page' = P!Loaded(page, s, c.answer)
    BY <1>4, <1>17 DEF P!DeliverList
  <2>2. Known(c.answer, page.table)
    BY <2>1 DEF DropletCall
  <2>3. /\ page'.calls = Filled(page.calls, s, Empty) /\ page'.table = page.table
        /\ page'.listed = c.answer /\ page'.booting = page.booting /\ page'.others = page.others
    BY <2>1, LoadedFields
  <2> QED BY <1>2, <2>2, <2>3, CreatedFilled
<1>18. ASSUME NEW s \in Slots, P!Fail(s) PROVE CreatedInv'
  <2> DEFINE failed == [page EXCEPT !.failures = IF @ < MaxFailures THEN @ + 1 ELSE @]
  <2>0. /\ failed \in DropletsPages /\ failed.calls = page.calls /\ failed.table = page.table
        /\ failed.listed = page.listed /\ failed.booting = page.booting /\ failed.others = page.others
    BY DEF DropletsPages
  <2>1. CASE page.calls[s].kind \in P!Loads
    <3>1. page' = P!Loaded(failed, s, P!Empty)
      BY <1>18, <2>1 DEF P!Fail
    <3> HIDE DEF failed
    <3>2. /\ page'.calls = Filled(page.calls, s, Empty) /\ page'.table = page.table
          /\ page'.listed = P!Empty /\ page'.booting = page.booting /\ page'.others = page.others
      BY <2>0, <3>1, LoadedFields
    <3>3. Known(P!Empty, page.table)
      BY DEF Known, P!Empty
    <3> QED BY <1>2, <3>2, <3>3, CreatedFilled
  <2>2. CASE page.calls[s].kind \notin P!Loads
    <3>1. page' = [failed EXCEPT !.calls = P!Done(page.calls, s),
                                 !.loading = @ /\ page.calls[s].kind # "create"]
      BY <1>18, <2>2 DEF P!Fail
    <3> HIDE DEF failed
    <3>2. /\ page'.calls = Filled(page.calls, s, Empty) /\ page'.table = page.table
          /\ page'.listed = page.listed /\ page'.booting = page.booting /\ page'.others = page.others
      BY <2>0, <3>1, RequestsOfDroplets DEF DropletsPages
    <3> QED BY <1>2, <3>2, CreatedFilled
  <2> QED BY <2>1, <2>2
<1>19. ASSUME NEW s \in Slots, P!Serve(s) PROVE CreatedInv'
  BY <1>19, CreatedServed
<1>20. CASE P!CreateElsewhere
  BY <1>20, CreatedOther
<1> QED
  BY <1>20, <1>5, <1>6, <1>7, <1>8, <1>9, <1>12, <1>13, <1>14, <1>15, <1>16, <1>17, <1>18, <1>19
  DEF P!Next, P!Deliver

LEMMA CreatedAlways == Spec => [](route = "provisioning" => CreatedInv)
<1>1. Init => (route = "provisioning" => CreatedInv)
  BY DEF Init
<1>2. FlagsInv /\ DropletsInv /\ (route = "provisioning" => CreatedInv) /\ [Next]_vars
        => (route = "provisioning" => CreatedInv)'
  <2> SUFFICES ASSUME FlagsInv, DropletsInv, route = "provisioning" => CreatedInv, [Next]_vars,
                      route' = "provisioning"
               PROVE  CreatedInv'
    OBVIOUS
  <2>1. CASE UNCHANGED <<route, page>>
    <3>1. CreatedInv /\ page' = page
      BY <2>1
    <3> QED BY <3>1 DEF CreatedInv, Prefix, Known, Fit, CallsOf, DropletCall, DropletCalls, Newest, Made,
                        P!Ids, P!Loads, P!Creations, P!Listings, P!DropletStatuses
  <2>2. CASE Opens
    BY <2>2, CreatedMounted DEF Opens, Mounts
  <2>3. CASE route' = route /\ PageStep
    BY <2>3, CreatedStep DEF DropletsInv, FlagsInv, PageStep
  <2> QED BY <2>1, <2>2, <2>3, StepKinds
<1> QED BY <1>1, <1>2, FlagsAlways, DropletsAlways, PTL DEF Spec

(* What a step newly puts forward is the droplet of a creation whose       *)
(* reload has come or failed.                                              *)
LEMMA MarkedByReload ==
  ASSUME page \in DropletsPages, CreatedInv, P!Next,
         page'.highlight \notin {page.highlight, None}
  PROVE  /\ page'.tab = "droplets"
         /\ Newest(page'.highlight, page.table, page.others) /\ page'.others = page.others
         /\ page'.listed = P!Empty \/ Known(page'.listed, page.table)
<1>1. ASSUME NEW s \in Slots, NEW p \in DropletsPages, NEW listing, page.calls[s] # P!Idle,
             p.highlight = page.highlight, page' = P!Loaded(p, s, listing)
      PROVE  page'.tab = "droplets" /\ Newest(page'.highlight, page.table, page.others)
  <2>1. /\ page.calls[s].kind = "create reload" /\ page'.highlight = page.calls[s].id
        /\ page'.tab = "droplets"
    BY <1>1, LoadedMarks, Zenon
  <2>2. Made(page.calls[s])
    BY <2>1, KindsOfDroplets, Zenon DEF Made
  <2>3. DropletCall(page.calls[s], page.table, page.others)
    BY <1>1, RequestsOfDroplets DEF CreatedInv, Fit, CallsOf
  <2>4. Newest(page.calls[s].id, page.table, page.others)
    BY <2>2, <2>3, Zenon DEF DropletCall
  <2> QED BY <2>1, <2>4, Zenon
<1>2. ASSUME NEW s \in Slots, P!DeliverList(s)
      PROVE  /\ page'.tab = "droplets" /\ Newest(page'.highlight, page.table, page.others)
             /\ Known(page'.listed, page.table) /\ page'.others = page.others
  <2>1. /\ page.calls[s] # P!Idle /\ page.calls[s].kind \in P!Loads /\ page.calls[s].served
        /\ page' = P!Loaded(page, s, page.calls[s].answer)
    BY <1>2 DEF P!DeliverList
  <2>2. page'.tab = "droplets" /\ Newest(page'.highlight, page.table, page.others)
    BY <1>1, <2>1
  <2>3. DropletCall(page.calls[s], page.table, page.others)
    BY <2>1, RequestsOfDroplets DEF CreatedInv, Fit, CallsOf
  <2>4. page'.listed = page.calls[s].answer /\ page'.others = page.others
    BY <2>1, LoadedFields
  <2>5. Known(page.calls[s].answer, page.table)
    BY <2>1, <2>3 DEF DropletCall
  <2> QED BY <2>2, <2>4, <2>5
<1>3. ASSUME NEW s \in Slots, P!Fail(s)
      PROVE  /\ page'.tab = "droplets" /\ Newest(page'.highlight, page.table, page.others)
             /\ page'.listed = P!Empty /\ page'.others = page.others
  <2> DEFINE failed == [page EXCEPT !.failures = IF @ < MaxFailures THEN @ + 1 ELSE @]
  <2>0. /\ failed \in DropletsPages /\ failed.highlight = page.highlight
        /\ failed.others = page.others
    BY DEF DropletsPages
  <2>1. page.calls[s].kind \in P!Loads
    <3>1. SUFFICES ASSUME page.calls[s].kind \notin P!Loads PROVE FALSE
      OBVIOUS
    <3>2. page' = [failed EXCEPT !.calls = P!Done(page.calls, s),
                                 !.loading = @ /\ page.calls[s].kind # "create"]
      BY <1>3, <3>1 DEF P!Fail
    <3> HIDE DEF failed
    <3> QED BY <2>0, <3>2 DEF DropletsPages
  <2>2. page.calls[s] # P!Idle /\ page' = P!Loaded(failed, s, P!Empty)
    BY <1>3, <2>1 DEF P!Fail
  <2> HIDE DEF failed
  <2>3. page'.tab = "droplets" /\ Newest(page'.highlight, page.table, page.others)
    BY <1>1, <2>0, <2>2
  <2>4. page'.listed = P!Empty /\ page'.others = page.others
    BY <2>0, <2>2, LoadedFields
  <2> QED BY <2>3, <2>4
<1>4. ~P!QuickDeploy /\ ~P!Create /\ ~P!Refresh /\ ~P!Unhighlight /\ ~P!CreateElsewhere
  BY DEF P!QuickDeploy, P!Create, P!Refresh, P!Unhighlight, P!CreateElsewhere, P!Started, P!Opened, DropletsPages
<1>5. ASSUME NEW x PROVE ~P!SelectTab(x) /\ ~P!ChangeForm(x) /\ ~P!Browse(x)
  BY DEF P!SelectTab, P!ChangeForm, P!Browse, P!Opened, DropletsPages
<1>6. ASSUME NEW d PROVE ~P!Delete(d) /\ ~P!Boot(d)
  BY DEF P!Delete, P!Boot, P!Started, DropletsPages
<1>7. ASSUME NEW s PROVE ~P!Serve(s) /\ ~P!DeliverChange(s)
  BY DEF P!Serve, P!DeliverChange, DropletsPages
<1> QED BY <1>2, <1>3, <1>4, <1>5, <1>6, <1>7 DEF P!Next, P!Deliver

(* ProvisioningPanel.tsx:61: what the end of a creation highlights is the  *)
(* droplet that it created, the newest there is but for those of others,   *)
(* and so the first row of the table as it opens unless one of theirs is   *)
(* listed before it, in every interleaving with deletions, reloads and     *)
(* failures.                                                               *)
THEOREM CreatedIsShownHolds == Spec => CreatedIsShown
<1>1. DropletsInv /\ DropletsInv' /\ (route = "provisioning" => CreatedInv) /\ [Next]_vars
        => [route = "provisioning" /\ route' = route => P!ShowsCreated]_vars
  <2> SUFFICES ASSUME DropletsInv, DropletsInv', CreatedInv, [Next]_vars,
                      route = "provisioning", route' = route,
                      page'.highlight \notin {page.highlight, None},
                      page'.listed[page'.highlight] # None, page'.view = P!FirstView,
                      \A d \in page'.others : d > page'.highlight => page'.listed[d] = None
               PROVE  /\ page'.tab = "droplets"
                      /\ \E i \in DOMAIN P!RowsShown(P!Items(page'.listed), page'.view) :
                           P!RowsShown(P!Items(page'.listed), page'.view)[i].id = page'.highlight
    BY DEF P!ShowsCreated
  <2> DEFINE h == page'.highlight
             items == P!Items(page'.listed)
  <2>1. P!Next /\ page \in DropletsPages
    <3>1. CASE UNCHANGED <<route, page>>
      BY <3>1
    <3>2. CASE Opens
      <4>1. PICK table, booting : page' = P!Mounted(table, booting)
        BY <3>2 DEF Opens, Mounts, P!Mounts
      <4>2. page'.highlight = None
        BY <4>1 DEF P!Mounted
      <4> QED BY <4>2
    <3>3. CASE route' = route /\ PageStep
      BY <3>3 DEF DropletsInv, PageStep
    <3> QED BY <3>1, <3>2, <3>3, StepKinds
  <2>2. /\ page'.tab = "droplets" /\ Newest(h, page.table, page.others)
        /\ page'.others = page.others
        /\ page'.listed = P!Empty \/ Known(page'.listed, page.table)
    BY <2>1, MarkedByReload
  <2>3. h \in P!Ids /\ Known(page'.listed, page.table)
    BY <2>2 DEF Newest, P!Empty
  <2>4. \A e \in P!Ids : e > h => page'.listed[e] = None
    BY <2>2, <2>3 DEF Newest, Known
  <2>5. page'.listed \in P!Listings
    BY DEF DropletsInv, DropletsPages, P!Listings, P!Ids, P!DropletStatuses
  <2>6. RowsListing(items, page'.listed) /\ Tabular(items)
    BY <2>5, RowsOfListing, ListingTabular
  <2>7. 1 \in DOMAIN items /\ items[1].id = h
    BY <2>3, <2>4, <2>6 DEF RowsListing
  <2> HIDE DEF items, h
  <2>8. /\ 1 \in DOMAIN P!RowsShown(items, P!FirstView)
        /\ P!RowsShown(items, P!FirstView)[1].id = h
    BY <2>6, <2>7, FirstRow
  <2> QED BY <2>2, <2>8 DEF items, h
<1> QED BY <1>1, DropletsAlways, CreatedAlways, PTL DEF CreatedIsShown, Spec

-----------------------------------------------------------------------------
(* Dashboard.                                                              *)
DashboardPages ==
  [backend : {"checking", "online", "offline"}, tab : D!Tabs, shown : SUBSET D!Parts,
   waiting : SUBSET D!Parts, failed : BOOLEAN, failures : Nat]

LEMMA DashboardPageTyped ==
  ASSUME page \in DashboardPages
  PROVE  D!TypeOK
BY DEF DashboardPages, D!TypeOK

LEMMA DashboardPageMounted == D!Mounts \subseteq DashboardPages
<1> DEFINE first == [backend |-> "checking", tab |-> "status", shown |-> {},
                     waiting |-> D!Parts, failed |-> FALSE, failures |-> 0]
<1>1. {} \in SUBSET D!Parts /\ D!Parts \in SUBSET D!Parts
  OBVIOUS
<1>2. first \in DashboardPages
  BY <1>1 DEF DashboardPages, D!Tabs
<1> QED BY <1>2 DEF D!Mounts

LEMMA DashboardPageStep ==
  ASSUME page \in DashboardPages, D!Next
  PROVE  page' \in DashboardPages
<1>1. CASE D!CheckBackend
  BY <1>1 DEF D!CheckBackend, DashboardPages
<1>2. ASSUME NEW tab \in D!Tabs, D!SelectTab(tab) PROVE page' \in DashboardPages
  BY <1>2 DEF D!SelectTab, DashboardPages
<1>3. ASSUME NEW part \in D!Parts, D!Answer(part) PROVE page' \in DashboardPages
  <2> DEFINE next == IF page.waiting = {part} /\ ~page.failed THEN D!Parts ELSE page.shown
  <2>1. next \in SUBSET D!Parts /\ page.waiting \ {part} \in SUBSET D!Parts
    BY DEF DashboardPages
  <2>2. page' = [page EXCEPT !.waiting = page.waiting \ {part}, !.shown = next]
    BY <1>3 DEF D!Answer
  <2> HIDE DEF next
  <2> QED BY <2>1, <2>2 DEF DashboardPages
<1>4. ASSUME NEW part \in D!Parts, D!Fail(part) PROVE page' \in DashboardPages
  <2>1. page.waiting \ {part} \in SUBSET D!Parts /\ page.failures + 1 \in Nat
    BY DEF DashboardPages
  <2>2. page' = [page EXCEPT !.waiting = page.waiting \ {part}, !.failed = TRUE, !.shown = {},
                             !.failures = page.failures + 1]
    BY <1>4 DEF D!Fail
  <2> QED BY <2>1, <2>2 DEF DashboardPages
<1> QED BY <1>1, <1>2, <1>3, <1>4 DEF D!Next

-----------------------------------------------------------------------------
(* ClusterPanel.                                                           *)
ClusterPages ==
  [members : SUBSET Droplets, existing : SUBSET Droplets, loading : BOOLEAN, error : BOOLEAN,
   known : BOOLEAN, droplets : SUBSET Droplets, tab : K!Tabs,
   answers : [K!Parts -> {None} \cup SUBSET Droplets], missed : SUBSET Droplets,
   outlived : SUBSET Droplets, changes : Nat, failures : Nat]

LEMMA ClusterPageTyped ==
  ASSUME page \in ClusterPages
  PROVE  K!TypeOK
BY DEF ClusterPages, K!TypeOK

LEMMA ClusterPageMounted ==
  ASSUME page' \in K!Mounts
  PROVE  page' \in ClusterPages
<1>1. PICK members, existing :
        /\ members \in SUBSET Droplets /\ existing \in SUBSET Droplets
        /\ page' = K!Mounted(members, existing)
  BY DEF K!Mounts
<1> QED BY <1>1 DEF K!Mounted, ClusterPages, K!Tabs

LEMMA ClusterPageStep ==
  ASSUME page \in ClusterPages, K!Next
  PROVE  page' \in ClusterPages
<1>1. /\ page.members \in SUBSET Droplets /\ page.existing \in SUBSET Droplets
      /\ page.changes + 1 \in Nat /\ page.failures + 1 \in Nat
      /\ page.answers \in [K!Parts -> {None} \cup SUBSET Droplets]
  BY DEF ClusterPages
<1>2. CASE K!Deliver
  <2>1. page.answers["cluster"] \in SUBSET Droplets
    BY <1>1, <1>2 DEF K!Deliver, K!Parts
  <2>2. page.answers["droplets"] \cap page.answers["cluster"] \in SUBSET Droplets
    BY <2>1
  <2> QED BY <1>2, <2>2 DEF K!Deliver, ClusterPages
<1>3. CASE K!Fail
  BY <1>1, <1>3 DEF K!Fail, ClusterPages
<1>4. ASSUME NEW tab \in K!Tabs, K!SelectTab(tab) PROVE page' \in ClusterPages
  BY <1>4 DEF K!SelectTab, ClusterPages
<1>5. ASSUME NEW d \in Droplets, K!CreateDroplet(d) \/ K!AttachDroplet(d) \/ K!DeleteDroplet(d)
      PROVE  page' \in ClusterPages
  <2>1. /\ page.existing \cup {d} \in SUBSET Droplets /\ page.members \cup {d} \in SUBSET Droplets
        /\ page.existing \ {d} \in SUBSET Droplets
        /\ \A part : /\ page.missed \cup K!After(part, d) \in SUBSET Droplets
                     /\ page.outlived \cup K!After(part, d) \in SUBSET Droplets
    BY <1>1 DEF ClusterPages, K!After
  <2>2. CASE K!CreateDroplet(d)
    BY <1>1, <2>1, <2>2 DEF K!CreateDroplet, ClusterPages
  <2>3. CASE K!AttachDroplet(d)
    BY <2>1, <2>3 DEF K!AttachDroplet, ClusterPages
  <2>4. CASE K!DeleteDroplet(d)
    BY <1>1, <2>1, <2>4 DEF K!DeleteDroplet, ClusterPages
  <2> QED BY <1>5, <2>2, <2>3, <2>4
<1>6. ASSUME NEW part \in K!Parts, K!Serve(part) PROVE page' \in ClusterPages
  <2> DEFINE read == IF part = "cluster" THEN page.members ELSE page.existing
             answers == [page.answers EXCEPT ![part] = read]
  <2>1. read \in SUBSET Droplets
    BY <1>1
  <2> HIDE DEF read
  <2>2. answers \in [K!Parts -> {None} \cup SUBSET Droplets]
    BY <1>1, <2>1
  <2>3. page' = [page EXCEPT !.answers = answers]
    BY <1>6 DEF K!Serve, read
  <2> HIDE DEF answers
  <2> QED BY <2>2, <2>3 DEF ClusterPages
<1> QED BY <1>2, <1>3, <1>4, <1>5, <1>6 DEF K!Next

-----------------------------------------------------------------------------
(* CreateClusterPanel.                                                     *)
NewCalls == [kind : {"create"}]

NewPages ==
  [name : N!FormNames, error : BOOLEAN, saving : BOOLEAN, left : BOOLEAN,
   calls : [Slots -> {Empty} \cup NewCalls], changes : Nat, failures : Nat]

LEMMA RequestsOfNew ==
  ASSUME NEW calls, NEW c, NEW s
  PROVE  /\ N!Idle = Empty /\ N!NoCalls = Unused
         /\ N!HasRoom(calls) <=> Room(calls)
         /\ N!Sent(calls, c) = Placed(calls, c)
         /\ N!Done(calls, s) = Filled(calls, s, Empty)
BY DEF N!Idle, N!NoCalls, N!HasRoom, N!Sent, N!Done, Empty, Unused, Room, Placed, Filled

LEMMA NewPageTyped ==
  ASSUME page \in NewPages
  PROVE  N!TypeOK
BY RequestsOfNew DEF NewPages, NewCalls, N!TypeOK

LEMMA NewPageMounted ==
  ASSUME page' \in N!Mounts
  PROVE  page' \in NewPages
<1>1. N!NoCalls \in [Slots -> {Empty} \cup NewCalls]
  BY RequestsOfNew, FitUnused DEF Fit
<1>2. page' = [name |-> "missing", error |-> FALSE, saving |-> FALSE, left |-> FALSE,
               calls |-> N!NoCalls, changes |-> 0, failures |-> 0]
  BY DEF N!Mounts
<1> QED BY <1>1, <1>2 DEF NewPages, N!FormNames

LEMMA NewPageStep ==
  ASSUME page \in NewPages, N!Next
  PROVE  page' \in NewPages
<1>1. Fit(page.calls, NewCalls) /\ page.changes + 1 \in Nat /\ page.failures + 1 \in Nat
  BY DEF NewPages, Fit
<1>2. ASSUME NEW name \in N!FormNames, N!SetName(name) PROVE page' \in NewPages
  BY <1>2 DEF N!SetName, NewPages
<1>3. CASE N!Submit
  <2> DEFINE sent == N!Sent(page.calls, [kind |-> "create"])
  <2>1. CASE page' = [page EXCEPT !.error = TRUE]
    BY <2>1 DEF NewPages
  <2>2. CASE /\ N!HasRoom(page.calls)
             /\ page' = [page EXCEPT !.saving = TRUE, !.error = FALSE, !.changes = page.changes + 1,
                                     !.calls = sent]
    <3>1. [kind |-> "create"] \in NewCalls
      BY DEF NewCalls
    <3>2. sent \in [Slots -> {Empty} \cup NewCalls]
      BY <1>1, <2>2, <3>1, RequestsOfNew, FitPlaced DEF Fit
    <3> HIDE DEF sent
    <3> QED BY <1>1, <2>2, <3>2 DEF NewPages
  <2> QED BY <1>3, <2>1, <2>2 DEF N!Submit
<1>4. ASSUME NEW s \in Slots, N!Deliver(s) \/ N!Fail(s) PROVE page' \in NewPages
  <2> DEFINE done == N!Done(page.calls, s)
  <2>1. done \in [Slots -> {Empty} \cup NewCalls]
    <3>1. Fit(Filled(page.calls, s, Empty), NewCalls)
      BY <1>1, FitFilled
    <3>2. done = Filled(page.calls, s, Empty)
      BY RequestsOfNew
    <3> QED BY <3>1, <3>2 DEF Fit
  <2>2. \/ page' = [page EXCEPT !.calls = done, !.saving = FALSE, !.left = TRUE]
        \/ page' = [page EXCEPT !.calls = done, !.saving = FALSE, !.error = TRUE,
                                !.failures = page.failures + 1]
    BY <1>4 DEF N!Deliver, N!Fail
  <2> HIDE DEF done
  <2> QED BY <1>1, <2>1, <2>2 DEF NewPages
<1> QED BY <1>2, <1>3, <1>4 DEF N!Next

-----------------------------------------------------------------------------
(* BillingPanel.                                                           *)
BillingCalls == [kind : {"clusters", "estimate"}, cluster : Clusters \cup {None}]

BillingPages ==
  [clusters : BOOLEAN, selected : Clusters \cup {None}, estimate : Clusters \cup {None},
   loading : BOOLEAN, error : BOOLEAN, calls : [Slots -> {Empty} \cup BillingCalls],
   changes : Nat, failures : Nat]

LEMMA RequestsOfBilling ==
  ASSUME NEW calls, NEW c, NEW s
  PROVE  /\ B!Idle = Empty /\ B!NoCalls = Unused
         /\ B!HasRoom(calls) <=> Room(calls)
         /\ B!Sent(calls, c) = Placed(calls, c)
         /\ B!Done(calls, s) = Filled(calls, s, Empty)
BY DEF B!Idle, B!NoCalls, B!HasRoom, B!Sent, B!Done, Empty, Unused, Room, Placed, Filled

LEMMA BillingPageTyped ==
  ASSUME page \in BillingPages
  PROVE  B!TypeOK
BY RequestsOfBilling DEF BillingPages, BillingCalls, B!TypeOK

LEMMA BillingPageMounted ==
  ASSUME page' \in B!Mounts
  PROVE  page' \in BillingPages
<1> DEFINE calls == B!Sent(B!NoCalls, B!Request("clusters", None))
<1>1. calls \in [Slots -> {Empty} \cup BillingCalls]
  <2>1. B!Request("clusters", None) \in BillingCalls
    BY DEF B!Request, BillingCalls
  <2> QED BY <2>1, RequestsOfBilling, FitUnused, FitPlaced DEF Fit
<1>2. page' = [clusters |-> FALSE, selected |-> None, estimate |-> None, loading |-> FALSE,
               error |-> FALSE, calls |-> calls, changes |-> 0, failures |-> 0]
  BY DEF B!Mounts
<1> HIDE DEF calls
<1> QED BY <1>1, <1>2 DEF BillingPages

LEMMA BillingPageStep ==
  ASSUME page \in BillingPages, B!Next
  PROVE  page' \in BillingPages
<1>1. /\ Fit(page.calls, BillingCalls) /\ page.changes + 1 \in Nat /\ page.failures + 1 \in Nat
      /\ page.selected \in Clusters \cup {None}
  BY DEF BillingPages, Fit
<1>2. CASE B!Estimate
  <2> DEFINE sent == B!Sent(page.calls, B!Request("estimate", page.selected))
  <2>1. CASE page' = [page EXCEPT !.error = TRUE]
    BY <2>1 DEF BillingPages
  <2>2. CASE /\ B!HasRoom(page.calls)
             /\ page' = [page EXCEPT !.loading = TRUE, !.error = FALSE,
                                     !.changes = page.changes + 1, !.calls = sent]
    <3>1. B!Request("estimate", page.selected) \in BillingCalls
      BY <1>1 DEF B!Request, BillingCalls
    <3>2. sent \in [Slots -> {Empty} \cup BillingCalls]
      BY <1>1, <2>2, <3>1, RequestsOfBilling, FitPlaced DEF Fit
    <3> HIDE DEF sent
    <3> QED BY <1>1, <2>2, <3>2 DEF BillingPages
  <2> QED BY <1>2, <2>1, <2>2 DEF B!Estimate
<1>3. CASE B!Reset
  BY <1>3 DEF B!Reset, BillingPages
<1>4. ASSUME NEW c \in Clusters \cup {None}, B!SelectCluster(c) PROVE page' \in BillingPages
  BY <1>4 DEF B!SelectCluster, BillingPages
<1>5. ASSUME NEW s \in Slots, B!Deliver(s) \/ B!Fail(s) PROVE page' \in BillingPages
  <2> DEFINE done == B!Done(page.calls, s)
             c == page.calls[s]
  <2>1. done \in [Slots -> {Empty} \cup BillingCalls]
    BY <1>1, RequestsOfBilling, FitFilled DEF Fit
  <2>2. CASE B!Deliver(s)
    <3>1. c.cluster \in Clusters \cup {None}
      BY <2>2, RequestsOfBilling DEF B!Deliver, BillingPages, BillingCalls
    <3>2. \/ page' = [page EXCEPT !.calls = done, !.clusters = TRUE]
          \/ page' = [page EXCEPT !.calls = done, !.estimate = c.cluster, !.loading = FALSE]
      BY <2>2 DEF B!Deliver
    <3> HIDE DEF done, c
    <3> QED BY <2>1, <3>1, <3>2 DEF BillingPages
  <2>3. CASE B!Fail(s)
    <3> DEFINE error == page.error \/ c.kind = "estimate"
               loading == page.loading /\ ~(c.kind = "estimate")
    <3>1. error \in BOOLEAN /\ loading \in BOOLEAN
      OBVIOUS
    <3>2. page' = [page EXCEPT !.calls = done, !.failures = page.failures + 1,
                               !.error = error, !.loading = loading]
      BY <2>3 DEF B!Fail
    <3> HIDE DEF done, c, error, loading
    <3> QED BY <1>1, <2>1, <3>1, <3>2 DEF BillingPages
  <2> QED BY <1>5, <2>2, <2>3
<1> QED BY <1>2, <1>3, <1>4, <1>5 DEF B!Next

-----------------------------------------------------------------------------
(* MonitoringPanel.                                                        *)
MetricKinds == M!Loads \cup M!Polls \cup M!Fetches \cup {"clusters"}
MetricCalls == [kind : MetricKinds, ask : M!Asks]

MetricsPages ==
  [ask : M!Asks, view : M!Asks \cup {None}, clusters : SUBSET Clusters, loading : BOOLEAN,
   rate : M!Scopes \cup {None}, pool : BOOLEAN, changes : Nat, failures : Nat,
   calls : [Slots -> {Empty} \cup MetricCalls]]

LEMMA RequestsOfMetrics ==
  ASSUME NEW calls, NEW c, NEW s
  PROVE  /\ M!Idle = Empty /\ M!NoCalls = Unused
         /\ M!HasRoom(calls) <=> Room(calls)
         /\ M!Sent(calls, c) = Placed(calls, c)
         /\ M!Done(calls, s) = Filled(calls, s, Empty)
BY DEF M!Idle, M!NoCalls, M!HasRoom, M!Sent, M!Done, Empty, Unused, Room, Placed, Filled

LEMMA MetricBounds ==
  /\ MetricSizes \subseteq Nat \ {0} /\ MetricSize \in MetricSizes
  /\ Rows \in [Clusters \cup {None} -> [Types \cup {None} -> Nat]]
BY ConsoleAssumption, Zenon

LEMMA MetricRequest ==
  ASSUME NEW kind \in MetricKinds, NEW ask \in M!Asks
  PROVE  M!Request(kind, ask) \in MetricCalls
BY DEF M!Request, MetricCalls

LEMMA MetricFollowers ==
  ASSUME NEW kind \in DOMAIN M!Follower
  PROVE  M!Follower[kind] \in MetricKinds
<1>1. M!Follower = [k \in {"metrics", "load rate", "poll pool"} |->
        CASE k = "metrics" -> "load rate"
          [] k = "load rate" -> "load pool"
          [] k = "poll pool" -> "poll rate"]
  BY Zenon DEF M!Follower
<1>2. kind \in {"metrics", "load rate", "poll pool"}
  BY <1>1, Zenon
<1>3. CASE kind = "metrics"
  <2>1. M!Follower[kind] = "load rate"
    BY <1>1, <1>2, <1>3, Zenon
  <2> QED BY <2>1, Zenon DEF MetricKinds, M!Loads
<1>4. CASE kind = "load rate"
  <2>1. M!Follower[kind] = "load pool"
    BY <1>1, <1>2, <1>4, Zenon
  <2> QED BY <2>1, Zenon DEF MetricKinds, M!Loads
<1>5. CASE kind = "poll pool"
  <2>1. M!Follower[kind] = "poll rate"
    BY <1>1, <1>2, <1>5, Zenon
  <2> QED BY <2>1, Zenon DEF MetricKinds, M!Polls
<1> QED BY <1>2, <1>3, <1>4, <1>5, Zenon

LEMMA MetricsPageTyped ==
  ASSUME page \in MetricsPages
  PROVE  M!TypeOK
<1>1. /\ page.ask \in M!Asks /\ page.view \in M!Asks \cup {None}
      /\ page.clusters \subseteq Clusters
      /\ page.loading \in BOOLEAN /\ page.pool \in BOOLEAN /\ page.rate \in M!Scopes \cup {None}
      /\ page.calls \in [Slots -> {Empty} \cup MetricCalls]
  BY DEF MetricsPages
<1>2. M!Idle = Empty
  BY RequestsOfMetrics
<1> QED BY <1>1, <1>2, Zenon DEF M!TypeOK, MetricCalls, MetricKinds

(* A request is sent, and an answer taken.                                 *)
LEMMA MetricsSent ==
  ASSUME NEW p \in MetricsPages, Room(p.calls), NEW call \in MetricCalls
  PROVE  [p EXCEPT !.calls = M!Sent(p.calls, call)] \in MetricsPages
<1>1. M!Sent(p.calls, call) \in [Slots -> {Empty} \cup MetricCalls]
  BY FitPlaced, RequestsOfMetrics DEF Fit, MetricsPages
<1> QED BY <1>1 DEF MetricsPages

LEMMA MetricsLoading ==
  ASSUME NEW p \in MetricsPages, Room(p.calls), NEW ask \in M!Asks
  PROVE  M!Loading(p, ask) \in MetricsPages
<1> DEFINE sent == [p EXCEPT !.calls = M!Sent(p.calls, M!Request("metrics", ask))]
<1>1. sent \in MetricsPages
  BY MetricRequest, MetricsSent, Zenon DEF MetricKinds, M!Loads
<1>2. M!Loading(p, ask) = [sent EXCEPT !.loading = TRUE]
  BY DEF M!Loading, MetricsPages
<1> HIDE DEF sent
<1> QED BY <1>1, <1>2 DEF MetricsPages

LEMMA MetricsResumed ==
  ASSUME NEW p \in MetricsPages, NEW s \in Slots, p.calls[s] # Empty
  PROVE  M!Resumed(p, s) \in MetricsPages
<1> DEFINE c == p.calls[s]
           next == [c EXCEPT !.kind = M!Follower[c.kind]]
<1>1. c \in MetricCalls /\ Fit(p.calls, MetricCalls)
  BY DEF MetricsPages, Fit
<1>2. CASE c.kind \in DOMAIN M!Follower
  <2>1. next \in MetricCalls
    BY <1>1, <1>2, MetricFollowers DEF MetricCalls
  <2> HIDE DEF next
  <2>2. Filled(p.calls, s, next) \in [Slots -> {Empty} \cup MetricCalls]
    BY <1>1, <2>1, FitFilled DEF Fit
  <2>3. M!Resumed(p, s) = [p EXCEPT !.calls = Filled(p.calls, s, next)]
    BY <1>2 DEF M!Resumed, Filled, MetricsPages, next
  <2> QED BY <2>2, <2>3 DEF MetricsPages
<1>3. CASE c.kind \notin DOMAIN M!Follower
  <2>1. Filled(p.calls, s, Empty) \in [Slots -> {Empty} \cup MetricCalls]
    BY <1>1, FitFilled DEF Fit
  <2>2. M!Resumed(p, s) = [p EXCEPT !.calls = Filled(p.calls, s, Empty)]
    BY <1>3, RequestsOfMetrics DEF M!Resumed
  <2> QED BY <2>1, <2>2 DEF MetricsPages
<1> QED BY <1>2, <1>3

LEMMA MetricsFirstAsk == M!FirstAsk \in M!Asks
<1>1. 1 \in 1 .. MaxPage
  BY Bounds
<1> QED BY <1>1, MetricBounds DEF M!FirstAsk, M!Asks, M!AnyCluster, M!AnyType

(* There is room for a second request when the first has been sent.        *)
LEMMA SecondRoom ==
  ASSUME NEW c
  PROVE  Room(Placed(Unused, c))
<1>1. Room(Unused)
  BY FitUnused
<1>2. PICK s \in Slots : Placed(Unused, c) = Filled(Unused, s, c)
  BY <1>1, PlacedSlot
<1>3. PICK t \in Slots : t # s /\ Filled(Unused, s, c)[t] = Empty
  BY SecondSlot
<1> QED BY <1>2, <1>3 DEF Room

LEMMA MetricsPageMounted ==
  ASSUME page' \in M!Mounts
  PROVE  page' \in MetricsPages
<1> DEFINE call == M!Request("clusters", M!FirstAsk)
           first == [ask |-> M!FirstAsk, view |-> None, clusters |-> {}, loading |-> FALSE,
                     rate |-> None, pool |-> FALSE, changes |-> 0, failures |-> 0,
                     calls |-> Placed(Unused, call)]
<1>1. call \in MetricCalls
  BY MetricsFirstAsk, MetricRequest, Zenon DEF MetricKinds
<1>2. page' = M!Loading(first, M!FirstAsk)
  BY RequestsOfMetrics DEF M!Mounts, M!Mounted
<1> HIDE DEF call
<1>3. Placed(Unused, call) \in [Slots -> {Empty} \cup MetricCalls]
  BY <1>1, FitUnused, FitPlaced DEF Fit
<1>4. first \in MetricsPages /\ first.calls = Placed(Unused, call)
  BY <1>3, MetricsFirstAsk DEF MetricsPages
<1> HIDE DEF first
<1>5. Room(first.calls)
  BY <1>4, SecondRoom
<1> QED BY <1>2, <1>4, <1>5, MetricsFirstAsk, MetricsLoading

LEMMA MetricsReasked ==
  ASSUME page \in MetricsPages,
         NEW ask \in [cluster : Clusters \cup {None}, type : Types \cup {None},
                      page : Nat \ {0}, size : MetricSizes],
         M!Reask(ask)
  PROVE  page' \in MetricsPages
<1>1. ask \in M!Asks
  <2>1. ask.page \in 1 .. MaxPage
    BY Bounds DEF M!Reask
  <2> QED BY <2>1 DEF M!Asks, M!AnyCluster, M!AnyType
<1>2. M!Loading(page, ask) \in MetricsPages /\ M!Loading(page, ask).changes = page.changes
  <2>1. Room(page.calls)
    BY RequestsOfMetrics DEF M!Reask, M!MayAsk
  <2> QED BY <1>1, <2>1, MetricsLoading DEF M!Loading, MetricsPages
<1>3. page.changes + 1 \in Nat
  BY DEF MetricsPages
<1>4. page' = [M!Loading(page, ask) EXCEPT !.ask = ask, !.changes = page.changes + 1]
  BY <1>2 DEF M!Reask
<1> QED BY <1>1, <1>2, <1>3, <1>4 DEF MetricsPages

LEMMA MetricsAnswered ==
  ASSUME page \in MetricsPages, NEW s \in Slots, M!Deliver(s)
  PROVE  page' \in MetricsPages
<1>1. page.calls[s] # Empty /\ page.calls[s] \in MetricCalls
  <2>1. \E kinds : kinds \subseteq MetricKinds /\ page.calls[s].kind \in kinds
    BY Zenon DEF M!Deliver, M!DeliverMetrics, M!DeliverRate, M!DeliverPool, M!DeliverClusters,
                 M!Awaits, M!InFlight, MetricKinds, M!Loads, M!Polls
  <2>2. "idle" \notin MetricKinds
    BY Zenon DEF MetricKinds, M!Loads, M!Polls, M!Fetches
  <2>3. page.calls[s] # Empty
    BY <2>1, <2>2 DEF Empty
  <2> QED BY <2>3 DEF MetricsPages
<1>2. page.calls[s].ask \in M!Asks
  BY <1>1 DEF MetricCalls
<1>3. CASE M!DeliverMetrics(s)
  <2> DEFINE p == [page EXCEPT !.view = page.calls[s].ask, !.loading = FALSE]
  <2>1. p \in MetricsPages /\ p.calls = page.calls
    BY <1>2 DEF MetricsPages
  <2>2. page' = M!Resumed(p, s)
    BY <1>3 DEF M!DeliverMetrics
  <2> HIDE DEF p
  <2> QED BY <1>1, <2>1, <2>2, MetricsResumed
<1>4. CASE M!DeliverRate(s)
  <2> DEFINE rate == IF page.calls[s].kind = "fetch scoped" THEN "scoped" ELSE "global"
             p == [page EXCEPT !.rate = rate]
  <2>1. rate \in M!Scopes
    BY Zenon DEF M!Scopes
  <2>2. page' = M!Resumed(p, s)
    BY <1>4, Zenon DEF M!DeliverRate
  <2> HIDE DEF rate
  <2>3. p \in MetricsPages /\ p.calls = page.calls
    BY <2>1 DEF MetricsPages
  <2> HIDE DEF p
  <2> QED BY <1>1, <2>2, <2>3, MetricsResumed
<1>5. CASE M!DeliverPool(s)
  <2> DEFINE p == [page EXCEPT !.pool = TRUE]
  <2>1. p \in MetricsPages /\ p.calls = page.calls
    BY DEF MetricsPages
  <2>2. page' = M!Resumed(p, s)
    BY <1>5, Zenon DEF M!DeliverPool
  <2> HIDE DEF p
  <2> QED BY <1>1, <2>1, <2>2, MetricsResumed
<1>6. ASSUME NEW list \in SUBSET Clusters, M!DeliverClusters(s, list) PROVE page' \in MetricsPages
  <2> DEFINE done == Filled(page.calls, s, Empty)
             got == [page EXCEPT !.clusters = list, !.calls = done]
  <2>1. Fit(page.calls, MetricCalls)
    BY DEF Fit, MetricsPages
  <2>2. done \in [Slots -> {Empty} \cup MetricCalls] /\ Room(done)
    <3>1. done[s] = Empty
      BY <2>1 DEF Fit, Filled
    <3>2. Fit(done, MetricCalls)
      BY <2>1, FitFilled
    <3> QED BY <3>1, <3>2 DEF Fit, Room
  <2>3. \/ page' = got
        \/ \E first \in list : page' = [M!Loading(got, [page.ask EXCEPT !.cluster = first])
                                          EXCEPT !.ask = [page.ask EXCEPT !.cluster = first]]
    BY <1>6, RequestsOfMetrics DEF M!DeliverClusters
  <2> HIDE DEF done
  <2>4. got \in MetricsPages /\ got.calls = done
    BY <2>2 DEF MetricsPages
  <2> HIDE DEF got
  <2>5. ASSUME NEW first \in list,
               page' = [M!Loading(got, [page.ask EXCEPT !.cluster = first])
                          EXCEPT !.ask = [page.ask EXCEPT !.cluster = first]]
        PROVE  page' \in MetricsPages
    <3> DEFINE ask == [page.ask EXCEPT !.cluster = first]
    <3>1. ask \in M!Asks
      BY DEF MetricsPages, M!Asks, M!AnyCluster
    <3> HIDE DEF ask
    <3>2. M!Loading(got, ask) \in MetricsPages
      BY <2>2, <2>4, <3>1, MetricsLoading
    <3>3. page' = [M!Loading(got, ask) EXCEPT !.ask = ask]
      BY <2>5 DEF ask
    <3> QED BY <3>1, <3>2, <3>3 DEF MetricsPages
  <2> QED BY <2>3, <2>4, <2>5
<1> QED BY <1>3, <1>4, <1>5, <1>6 DEF M!Deliver

LEMMA MetricsPageStep ==
  ASSUME page \in MetricsPages, M!Next
  PROVE  page' \in MetricsPages
<1>1. /\ page.ask \in M!Asks /\ page.view \in M!Asks \cup {None}
      /\ page.changes + 1 \in Nat /\ page.failures + 1 \in Nat
  BY DEF MetricsPages
<1> DEFINE Questions == [cluster : Clusters \cup {None}, type : Types \cup {None},
                         page : Nat \ {0}, size : MetricSizes]
<1>2. page.ask \in Questions /\ page.ask.page \in Nat \ {0}
  BY <1>1, Bounds DEF M!Asks, M!AnyCluster, M!AnyType
<1>3. ASSUME NEW ask \in Questions, M!Reask(ask) PROVE page' \in MetricsPages
  BY <1>3, MetricsReasked
<1>4. CASE M!Refresh
  <2>1. M!Loading(page, page.ask) \in MetricsPages
        /\ M!Loading(page, page.ask).changes = page.changes
    <3>1. Room(page.calls)
      BY <1>4, RequestsOfMetrics DEF M!Refresh, M!MayAsk
    <3> QED BY <1>1, <3>1, MetricsLoading DEF M!Loading, MetricsPages
  <2>2. page' = [M!Loading(page, page.ask) EXCEPT !.changes = page.changes + 1]
    BY <1>4, <2>1 DEF M!Refresh
  <2> QED BY <1>1, <2>1, <2>2 DEF MetricsPages
<1>5. CASE M!Poll
  <2>1. Room(page.calls) /\ M!Request("poll pool", page.ask) \in MetricCalls
    BY <1>1, <1>5, RequestsOfMetrics, MetricRequest, Zenon DEF M!Poll, MetricKinds, M!Polls
  <2>2. page' = [page EXCEPT !.calls = M!Sent(page.calls, M!Request("poll pool", page.ask))]
    BY <1>5, Zenon DEF M!Poll
  <2> DEFINE call == M!Request("poll pool", page.ask)
  <2> HIDE DEF call
  <2> QED BY <2>1, <2>2, MetricsSent, Zenon
<1>6. ASSUME NEW kind \in M!Fetches, M!FetchScoped(kind) PROVE page' \in MetricsPages
  <2> DEFINE call == M!Request(kind, page.ask)
             sent == [page EXCEPT !.calls = M!Sent(page.calls, call)]
  <2>1. Room(page.calls) /\ call \in MetricCalls
    BY <1>1, <1>6, RequestsOfMetrics, MetricRequest, Zenon DEF M!FetchScoped, M!MayAsk, MetricKinds
  <2>2. page' = [sent EXCEPT !.changes = page.changes + 1]
    BY <1>6 DEF M!FetchScoped
  <2> HIDE DEF call
  <2>3. sent \in MetricsPages
    BY <2>1, MetricsSent
  <2> HIDE DEF sent
  <2> QED BY <1>1, <2>2, <2>3 DEF MetricsPages
<1>7. ASSUME NEW c \in M!AnyCluster, M!SelectCluster(c) PROVE page' \in MetricsPages
  <2>1. [page.ask EXCEPT !.cluster = c] \in Questions
    BY <1>2 DEF M!AnyCluster
  <2> QED BY <1>3, <1>7, <2>1 DEF M!SelectCluster
<1>8. ASSUME NEW t \in M!AnyType, M!SelectType(t) PROVE page' \in MetricsPages
  <2>1. [page.ask EXCEPT !.type = t] \in Questions
    BY <1>2 DEF M!AnyType
  <2> QED BY <1>3, <1>8, <2>1 DEF M!SelectType
<1>9. ASSUME NEW n \in MetricSizes, M!SetPageSize(n) PROVE page' \in MetricsPages
  <2> DEFINE sized == [page.ask EXCEPT !.size = n]
  <2>0. sized \in Questions
    BY <1>2
  <2> HIDE DEF sized
  <2>1. [sized EXCEPT !.page = 1] \in Questions
    BY <2>0
  <2> USE DEF sized
  <2> QED BY <1>3, <1>9, <2>1 DEF M!SetPageSize
<1>10. ASSUME NEW n \in Nat \ {0}, M!Reask([page.ask EXCEPT !.page = n])
       PROVE  page' \in MetricsPages
  <2>1. [page.ask EXCEPT !.page = n] \in Questions
    BY <1>2
  <2> QED BY <1>3, <1>10, <2>1
<1>11. CASE M!FirstPage
  BY <1>10, <1>11 DEF M!FirstPage
<1>12. CASE M!PrevPage
  <2> DEFINE n == IF page.ask.page > 1 THEN page.ask.page - 1 ELSE 1
  <2>1. n \in Nat \ {0}
    BY <1>2
  <2>2. M!Reask([page.ask EXCEPT !.page = n])
    BY <1>12 DEF M!PrevPage
  <2> HIDE DEF n
  <2> QED BY <1>10, <2>1, <2>2
<1>13. CASE M!NextPage
  <2> DEFINE n == page.ask.page + 1
  <2>1. n \in Nat \ {0}
    BY <1>2
  <2>2. M!Reask([page.ask EXCEPT !.page = n])
    BY <1>13 DEF M!NextPage
  <2> HIDE DEF n
  <2> QED BY <1>10, <2>1, <2>2
<1>14. CASE M!LastPage
  <2> DEFINE n == M!Pages(M!Total(page.view), page.view.size)
  <2>1. page.view \in M!Asks
    BY <1>1, <1>14 DEF M!LastPage, M!MoreRows, M!HasRows
  <2>2. M!Total(page.view) \in Nat /\ page.view.size \in Nat \ {0}
    BY <2>1, MetricBounds DEF M!Total, M!Asks, M!AnyCluster, M!AnyType
  <2>3. n = CountOf(M!Total(page.view), page.view.size)
    BY DEF M!Pages, CountOf
  <2>4. M!Reask([page.ask EXCEPT !.page = n])
    BY <1>14 DEF M!LastPage
  <2> HIDE DEF n
  <2>5. n \in Nat \ {0}
    BY <2>2, <2>3, CountOfPages
  <2> QED BY <1>10, <2>4, <2>5
<1>15. ASSUME NEW s \in Slots, M!Deliver(s) PROVE page' \in MetricsPages
  BY <1>15, MetricsAnswered
<1>16. ASSUME NEW s \in Slots, M!Fail(s) PROVE page' \in MetricsPages
  <2> DEFINE kind == page.calls[s].kind
             loading == page.loading /\ kind # "metrics"
             rate == IF kind \in {"load rate"} \cup M!Fetches THEN None ELSE page.rate
             pool == page.pool /\ kind # "load pool"
             p == [page EXCEPT !.failures = page.failures + 1, !.loading = loading,
                               !.rate = rate, !.pool = pool]
  <2>1. loading \in BOOLEAN /\ pool \in BOOLEAN
    BY Zenon
  <2>2. rate \in M!Scopes \cup {None}
    <3>1. page.rate \in M!Scopes \cup {None}
      BY DEF MetricsPages
    <3> QED BY <3>1, Zenon
  <2>3. page.calls[s] # Empty /\ page' = M!Resumed(p, s)
    BY <1>16, RequestsOfMetrics, Zenon DEF M!Fail
  <2> HIDE DEF loading, rate, pool
  <2>4. p \in MetricsPages /\ p.calls = page.calls
    BY <1>1, <2>1, <2>2 DEF MetricsPages
  <2> HIDE DEF p
  <2> QED BY <2>3, <2>4, MetricsResumed
<1> QED
  BY <1>4, <1>5, <1>6, <1>7, <1>8, <1>9, <1>11, <1>12, <1>13, <1>14, <1>15, <1>16, Zenon DEF M!Next

-----------------------------------------------------------------------------
(* ProvidersPanel: an answer is the number of providers there were.        *)
ProviderCalls ==
  {c \in [kind : ProviderKinds, served : BOOLEAN, answer : V!Counts \cup {None}] :
     c.served => c.answer \in V!Counts}

ProvidersPages ==
  [stored : V!Counts, providers : V!Counts, inputs : SUBSET V!Inputs, loading : BOOLEAN,
   error : BOOLEAN, details : V!Details \cup {None}, clusters : BOOLEAN,
   calls : [Slots -> {Empty} \cup ProviderCalls], changes : Nat, failures : Nat]

LEMMA RequestsOfProviders ==
  ASSUME NEW calls, NEW c, NEW s
  PROVE  /\ V!Idle = Empty /\ V!NoCalls = Unused
         /\ V!HasRoom(calls) <=> Room(calls)
         /\ V!Sent(calls, c) = Placed(calls, c)
         /\ V!Done(calls, s) = Filled(calls, s, Empty)
BY DEF V!Idle, V!NoCalls, V!HasRoom, V!Sent, V!Done, Empty, Unused, Room, Placed, Filled

LEMMA ProviderRequest ==
  ASSUME NEW kind \in ProviderKinds
  PROVE  V!Request(kind) \in ProviderCalls
BY DEF V!Request, ProviderCalls

LEMMA KindsOfProviders ==
  /\ V!Actions \cup {"list", "create reload", "clusters"} = ProviderKinds
  /\ "create" \in ProviderKinds /\ "schedule" \in ProviderKinds /\ "migrate" \in ProviderKinds
  /\ "list" \in ProviderKinds /\ "clusters" \in ProviderKinds
BY Zenon DEF V!Actions, ProviderKinds, ProviderWork

LEMMA ProvidersPageTyped ==
  ASSUME page \in ProvidersPages
  PROVE  V!TypeOK
<1>1. ASSUME NEW s \in Slots
      PROVE  \/ page.calls[s] = V!Idle
             \/ page.calls[s].kind \in ProviderKinds /\ page.calls[s].answer \in V!Counts \cup {None}
  BY RequestsOfProviders DEF ProvidersPages, ProviderCalls
<1>2. /\ page.stored \in V!Counts /\ page.providers \in V!Counts
      /\ page.inputs \subseteq V!Inputs
      /\ page.loading \in BOOLEAN /\ page.error \in BOOLEAN /\ page.clusters \in BOOLEAN
      /\ page.details \in V!Details \cup {None}
  BY DEF ProvidersPages
<1> QED BY <1>1, <1>2, KindsOfProviders, Zenon DEF V!TypeOK

LEMMA ProvidersPageMounted ==
  ASSUME page' \in V!Mounts
  PROVE  page' \in ProvidersPages
<1> DEFINE first == V!Request("list")
           second == V!Request("clusters")
<1>1. PICK n \in 0 .. 1 : page' = V!Mounted(n)
  BY DEF V!Mounts
<1>2. n \in V!Counts /\ 0 \in V!Counts
  BY Bounds DEF V!Counts
<1>3. first \in ProviderCalls /\ second \in ProviderCalls
  BY ProviderRequest, KindsOfProviders
<1> HIDE DEF first, second
<1>4. Placed(Placed(Unused, first), second) \in [Slots -> {Empty} \cup ProviderCalls]
  <2>1. Fit(Placed(Unused, first), ProviderCalls)
    BY <1>3, FitUnused, FitPlaced
  <2> QED BY <1>3, <2>1, SecondRoom, FitPlaced DEF Fit
<1>5. V!Sent(V!Sent(V!NoCalls, first), second) = Placed(Placed(Unused, first), second)
  BY RequestsOfProviders
<1>6. page' = [stored |-> n, providers |-> 0, inputs |-> {}, loading |-> TRUE, error |-> FALSE,
               details |-> None, clusters |-> FALSE,
               calls |-> Placed(Placed(Unused, first), second), changes |-> 0, failures |-> 0]
  BY <1>1, <1>5 DEF V!Mounted, first, second
<1> QED BY <1>2, <1>4, <1>6 DEF ProvidersPages

LEMMA ProvidersSettled ==
  ASSUME NEW p \in ProvidersPages, NEW s \in Slots, NEW c \in {Empty} \cup ProviderCalls
  PROVE  [p EXCEPT !.calls = Filled(p.calls, s, c)] \in ProvidersPages
<1>1. Filled(p.calls, s, c) \in [Slots -> {Empty} \cup ProviderCalls]
  BY FitFilled DEF ProvidersPages, Fit
<1> QED BY <1>1 DEF ProvidersPages

LEMMA ProvidersPageStep ==
  ASSUME page \in ProvidersPages, V!Next
  PROVE  page' \in ProvidersPages
<1>1. /\ page.changes + 1 \in Nat /\ page.stored \in V!Counts /\ page.loading \in BOOLEAN
      /\ page.error \in BOOLEAN /\ page.failures \in Nat
      /\ (IF page.failures < MaxFailures THEN page.failures + 1 ELSE page.failures) \in Nat
  BY DEF ProvidersPages
<1>2. ASSUME NEW inputs \in SUBSET V!Inputs, V!Fill(inputs) PROVE page' \in ProvidersPages
  BY <1>2 DEF V!Fill, ProvidersPages
<1>3. CASE V!ClearChoice
  <2>1. page.inputs \ {"preferred", "avoid"} \in SUBSET V!Inputs
    BY DEF ProvidersPages
  <2> QED BY <1>2, <1>3, <2>1 DEF V!ClearChoice
<1>4. CASE V!OpenDetails \/ V!CloseDetails
  BY <1>4 DEF V!OpenDetails, V!CloseDetails, V!Details, ProvidersPages
<1>5. ASSUME NEW needed, V!Complain(needed) PROVE page' \in ProvidersPages
  BY <1>5 DEF V!Complain, ProvidersPages
<1>6. ASSUME NEW kind \in ProviderKinds, V!Act(kind) PROVE page' \in ProvidersPages
  <2> DEFINE sent == Placed(page.calls, V!Request(kind))
  <2>1. Fit(page.calls, ProviderCalls) /\ Room(page.calls)
    BY <1>6, RequestsOfProviders DEF V!Act, ProvidersPages, Fit
  <2>2. V!Request(kind) \in ProviderCalls
    BY ProviderRequest
  <2>3. sent \in [Slots -> {Empty} \cup ProviderCalls]
    BY <2>1, <2>2, FitPlaced DEF Fit
  <2>4. page' = [page EXCEPT !.calls = sent, !.changes = page.changes + 1,
                             !.loading = TRUE, !.error = FALSE]
    BY <1>6, RequestsOfProviders DEF V!Act
  <2> HIDE DEF sent
  <2> QED BY <1>1, <2>3, <2>4 DEF ProvidersPages
<1>7. CASE V!Create
  BY <1>6, <1>7, KindsOfProviders DEF V!Create
<1>8. CASE V!Schedule
  BY <1>5, <1>6, <1>8, KindsOfProviders DEF V!Schedule
<1>9. CASE V!Migrate
  BY <1>5, <1>6, <1>9, KindsOfProviders DEF V!Migrate
<1>10. ASSUME NEW s \in Slots, V!Serve(s) PROVE page' \in ProvidersPages
  <2> DEFINE stored == page.stored + IF page.calls[s].kind = "create" THEN 1 ELSE 0
             c == [page.calls[s] EXCEPT !.served = TRUE, !.answer = stored]
             filled == [page EXCEPT !.calls = Filled(page.calls, s, c)]
  <2>1. page.calls[s] \in ProviderCalls
    BY <1>10, RequestsOfProviders DEF V!Serve, ProvidersPages
  <2>2. stored \in V!Counts
    BY <1>1, <1>10, Bounds DEF V!Serve, V!Counts
  <2>3. page' = [filled EXCEPT !.stored = stored]
    BY <1>10 DEF V!Serve, Filled, ProvidersPages
  <2> HIDE DEF stored
  <2>4. c \in ProviderCalls
    BY <2>1, <2>2 DEF ProviderCalls
  <2> HIDE DEF c
  <2>5. filled \in ProvidersPages
    BY <2>4, ProvidersSettled
  <2> HIDE DEF filled
  <2> QED BY <2>2, <2>3, <2>5 DEF ProvidersPages
<1>11. ASSUME NEW s \in Slots, V!Deliver(s) PROVE page' \in ProvidersPages
  <2> DEFINE c == page.calls[s]
             loading == page.loading /\ c.kind = "clusters"
             filled == [page EXCEPT !.calls = Filled(page.calls, s, Empty)]
             done == [page EXCEPT !.calls = V!Done(@, s), !.loading = @ /\ c.kind = "clusters"]
  <2>1. c \in ProviderCalls /\ c.served /\ c.kind \in ProviderKinds /\ c.answer \in V!Counts
    BY <1>11, RequestsOfProviders DEF V!Deliver, ProvidersPages, ProviderCalls
  <2>2. CASE c.kind = "create"
    <3> DEFINE call == V!Request("create reload")
               asked == [page EXCEPT !.calls = Filled(page.calls, s, call)]
    <3>1. call \in ProviderCalls
      BY ProviderRequest, Zenon DEF ProviderKinds, ProviderWork
    <3>2. page' = [asked EXCEPT !.loading = TRUE]
      BY <1>11, <2>2 DEF V!Deliver, Filled, ProvidersPages
    <3> HIDE DEF call
    <3>3. asked \in ProvidersPages
      BY <3>1, ProvidersSettled
    <3> HIDE DEF asked
    <3> QED BY <3>2, <3>3 DEF ProvidersPages
  <2>3. CASE c.kind # "create"
    <3>1. \/ page' = [done EXCEPT !.providers = c.answer]
          \/ page' = [done EXCEPT !.details = "placement"]
          \/ page' = [done EXCEPT !.details = "migration"]
          \/ page' = [done EXCEPT !.clusters = TRUE]
      BY <1>11, <2>1, <2>3 DEF V!Deliver, ProviderKinds, ProviderWork
    <3>2. done = [filled EXCEPT !.loading = loading]
      BY RequestsOfProviders DEF ProvidersPages
    <3>3. loading \in BOOLEAN
      OBVIOUS
    <3> HIDE DEF loading
    <3>4. filled \in ProvidersPages
      BY ProvidersSettled
    <3> HIDE DEF filled
    <3>5. done \in ProvidersPages
      <4> HIDE DEF done
      <4> QED BY <3>2, <3>3, <3>4 DEF ProvidersPages
    <3> HIDE DEF done
    <3> QED BY <2>1, <3>1, <3>5 DEF ProvidersPages, V!Details
  <2> QED BY <2>2, <2>3
<1>12. ASSUME NEW s \in Slots, V!Fail(s) PROVE page' \in ProvidersPages
  <2> DEFINE failures == IF page.failures < MaxFailures THEN page.failures + 1 ELSE page.failures
             loading == page.loading /\ page.calls[s].kind = "clusters"
             error == page.error \/ page.calls[s].kind # "clusters"
             filled == [page EXCEPT !.calls = Filled(page.calls, s, Empty)]
  <2>1. loading \in BOOLEAN /\ error \in BOOLEAN /\ failures \in Nat
    BY <1>1
  <2>2. page' = [filled EXCEPT !.failures = failures, !.loading = loading, !.error = error]
    BY <1>12, RequestsOfProviders DEF V!Fail, ProvidersPages
  <2> HIDE DEF failures, loading, error
  <2>3. filled \in ProvidersPages
    BY ProvidersSettled
  <2> HIDE DEF filled
  <2> QED BY <2>1, <2>2, <2>3 DEF ProvidersPages
<1> QED
  BY <1>2, <1>3, <1>4, <1>7, <1>8, <1>9, <1>10, <1>11, <1>12 DEF V!Next

-----------------------------------------------------------------------------
(* LimiterRulesPanel: a save carries its form, a deletion its key, and the *)
(* answer to a load the rules.                                             *)
RuleKinds == L!Loads \cup {"save", "delete"}

RuleCalls ==
  {c \in [kind : RuleKinds, key : L!Keys \cup {None}, form : L!Forms \cup {None},
          filter : L!Filters, served : BOOLEAN, answer : L!Rules \cup {None}] :
     /\ c.kind \in L!Loads /\ c.served => c.answer \in L!Rules
     /\ c.kind = "save" => c.form \in L!Forms
     /\ c.kind = "delete" => c.key \in L!Keys}

RulesPages ==
  [rules : L!Rules, items : L!Rules, filter : L!Filters, form : L!Forms \cup {None},
   loading : BOOLEAN, submitting : BOOLEAN, calls : [Slots -> {Empty} \cup RuleCalls],
   changes : Nat, failures : Nat]

LEMMA RequestsOfRules ==
  ASSUME NEW calls, NEW c, NEW s
  PROVE  /\ L!Idle = Empty /\ L!NoCalls = Unused
         /\ L!HasRoom(calls) <=> Room(calls)
         /\ L!Sent(calls, c) = Placed(calls, c)
         /\ L!Done(calls, s) = Filled(calls, s, Empty)
BY DEF L!Idle, L!NoCalls, L!HasRoom, L!Sent, L!Done, Empty, Unused, Room, Placed, Filled

LEMMA KindsOfRules ==
  /\ L!Loads \subseteq RuleKinds /\ "save" \in RuleKinds /\ "delete" \in RuleKinds
  /\ "list" \in L!Loads /\ "save" \notin L!Loads /\ "delete" \notin L!Loads
  /\ \A kind \in RuleKinds : kind \in L!Loads \/ kind = "save" \/ kind = "delete"
  /\ DOMAIN L!Reload = {"save", "delete"}
  /\ \A kind \in DOMAIN L!Reload : L!Reload[kind] \in L!Loads
<1>1. L!Reload = [save |-> "save reload", delete |-> "delete reload"]
  BY Zenon DEF L!Reload
<1>2. DOMAIN L!Reload = {"save", "delete"}
  BY <1>1, Zenon
<1>3. \A kind \in DOMAIN L!Reload : L!Reload[kind] \in L!Loads
  <2>1. L!Reload["save"] = "save reload" /\ L!Reload["delete"] = "delete reload"
    BY <1>1, Zenon
  <2> QED BY <1>2, <2>1, Zenon DEF L!Loads
<1> QED BY <1>2, <1>3, Zenon DEF RuleKinds, L!Loads

LEMMA RuleRequest ==
  ASSUME NEW kind \in RuleKinds, NEW key \in L!Keys \cup {None}, NEW form \in L!Forms \cup {None},
         NEW filter \in L!Filters,
         kind = "save" => form \in L!Forms, kind = "delete" => key \in L!Keys
  PROVE  L!Request(kind, key, form, filter) \in RuleCalls
BY DEF L!Request, RuleCalls

LEMMA RulesPageTyped ==
  ASSUME page \in RulesPages
  PROVE  L!TypeOK
<1>1. ASSUME NEW s \in Slots
      PROVE  \/ page.calls[s] = L!Idle
             \/ /\ page.calls[s].kind \in RuleKinds /\ page.calls[s].key \in L!Keys \cup {None}
                /\ page.calls[s].form \in L!Forms \cup {None}
                /\ page.calls[s].answer \in L!Rules \cup {None}
  BY RequestsOfRules DEF RulesPages, RuleCalls
<1>2. /\ page.rules \in L!Rules /\ page.items \in L!Rules
      /\ page.filter \in L!Filters /\ page.form \in L!Forms \cup {None}
      /\ page.loading \in BOOLEAN /\ page.submitting \in BOOLEAN
  BY DEF RulesPages
<1> QED BY <1>1, <1>2, Zenon DEF L!TypeOK, RuleKinds

LEMMA RulesPageMounted ==
  ASSUME page' \in L!Mounts
  PROVE  page' \in RulesPages
<1> DEFINE call == L!Request("list", None, None, None)
           rules(some) == [k \in L!Keys |-> IF k \in some THEN Fields ELSE {}]
<1>1. PICK some : page' = L!Mounted(rules(some))
  BY DEF L!Mounts
<1>2. rules(some) \in L!Rules /\ L!NoRules \in L!Rules
  BY DEF L!Rules, L!NoRules
<1> HIDE DEF rules
<1>3. call \in RuleCalls
  BY RuleRequest, KindsOfRules DEF L!Filters
<1> HIDE DEF call
<1>4. Placed(Unused, call) \in [Slots -> {Empty} \cup RuleCalls]
  BY <1>3, FitUnused, FitPlaced DEF Fit
<1>5. page' = [rules |-> rules(some), items |-> L!NoRules, filter |-> None, form |-> None,
               loading |-> TRUE, submitting |-> FALSE, calls |-> Placed(Unused, call),
               changes |-> 0, failures |-> 0]
  BY <1>1, RequestsOfRules DEF L!Mounted, call
<1> QED BY <1>2, <1>4, <1>5 DEF RulesPages, L!Filters

LEMMA RulesSettled ==
  ASSUME NEW p \in RulesPages, NEW s \in Slots, NEW c \in {Empty} \cup RuleCalls
  PROVE  [p EXCEPT !.calls = Filled(p.calls, s, c)] \in RulesPages
<1>1. Filled(p.calls, s, c) \in [Slots -> {Empty} \cup RuleCalls]
  BY FitFilled DEF RulesPages, Fit
<1> QED BY <1>1 DEF RulesPages

LEMMA RulesStarted ==
  ASSUME page \in RulesPages, L!MayStart, NEW call \in RuleCalls
  PROVE  L!Started(call) \in RulesPages
<1> DEFINE sent == Placed(page.calls, call)
<1>1. Fit(page.calls, RuleCalls) /\ Room(page.calls) /\ page.changes + 1 \in Nat
  BY RequestsOfRules DEF L!MayStart, RulesPages, Fit
<1>2. sent \in [Slots -> {Empty} \cup RuleCalls]
  BY <1>1, FitPlaced DEF Fit
<1>3. L!Started(call) = [page EXCEPT !.calls = sent, !.changes = page.changes + 1]
  BY RequestsOfRules DEF L!Started
<1> HIDE DEF sent
<1> QED BY <1>1, <1>2, <1>3 DEF RulesPages

LEMMA RulesFinished ==
  ASSUME NEW p \in RulesPages, NEW s \in Slots
  PROVE  L!Finished(p, s) \in RulesPages
<1> DEFINE saved == page.calls[s].kind = "save reload"
           filled == [p EXCEPT !.calls = Filled(p.calls, s, Empty)]
<1>1. filled \in RulesPages
  BY RulesSettled
<1>2. \/ L!Finished(p, s) = [filled EXCEPT !.loading = FALSE, !.form = None, !.submitting = FALSE]
      \/ L!Finished(p, s) = [filled EXCEPT !.loading = FALSE]
  <2>1. L!Finished(p, s) = [filled EXCEPT !.loading = FALSE,
                              !.form = IF saved THEN None ELSE p.form,
                              !.submitting = p.submitting /\ ~saved]
    BY RequestsOfRules, Zenon DEF L!Finished
  <2>2. saved \in BOOLEAN
    BY Zenon
  <2> HIDE DEF saved
  <2> QED BY <2>1, <2>2 DEF RulesPages
<1> HIDE DEF filled
<1> QED BY <1>1, <1>2 DEF RulesPages

LEMMA RulesServed ==
  ASSUME page \in RulesPages, NEW s \in Slots, L!Serve(s)
  PROVE  page' \in RulesPages
<1> DEFINE c == page.calls[s]
           acted == [c EXCEPT !.served = TRUE]
           filled == [page EXCEPT !.calls = Filled(page.calls, s, acted)]
<1>1. c \in RuleCalls /\ page.rules \in L!Rules
  BY RequestsOfRules DEF L!Serve, RulesPages
<1>2. ASSUME c.kind \notin L!Loads, NEW rules \in L!Rules,
             page' = [page EXCEPT !.rules = rules, !.calls[s].served = TRUE]
      PROVE  page' \in RulesPages
  <2>1. acted \in RuleCalls
    BY <1>1, <1>2 DEF RuleCalls
  <2>2. page' = [filled EXCEPT !.rules = rules]
    BY <1>2 DEF Filled, RulesPages
  <2> HIDE DEF acted
  <2>3. filled \in RulesPages
    BY <2>1, RulesSettled
  <2> HIDE DEF filled
  <2> QED BY <2>2, <2>3 DEF RulesPages
<1>3. CASE /\ c.kind = "save" /\ ~L!Refused(c)
           /\ page' = [page EXCEPT !.calls[s].served = TRUE,
                        !.rules = [page.rules EXCEPT ![L!Target(c.form)] = @ \cup c.form.fields]]
  <2>1. c.form \in L!Forms
    BY <1>1, <1>3 DEF RuleCalls
  <2>2. L!Target(c.form) \in L!Keys
    BY <1>3, <2>1 DEF L!Target, L!Refused, L!Forms, L!Keys
  <2>3. [page.rules EXCEPT ![L!Target(c.form)] = @ \cup c.form.fields] \in L!Rules
    BY <1>1, <2>1, <2>2 DEF L!Rules, L!Forms
  <2> QED BY <1>2, <1>3, <2>3, KindsOfRules
<1>4. CASE /\ c.kind = "delete"
           /\ page' = [page EXCEPT !.rules = [page.rules EXCEPT ![c.key] = {}],
                                   !.calls[s].served = TRUE]
  <2>1. [page.rules EXCEPT ![c.key] = {}] \in L!Rules
    BY <1>1 DEF L!Rules
  <2> QED BY <1>2, <1>4, <2>1, KindsOfRules
<1>5. CASE /\ c.kind \in L!Loads
           /\ page' = [page EXCEPT !.calls[s] = [c EXCEPT !.served = TRUE,
                !.answer = [k \in L!Keys |->
                   IF c.filter \in {None, k.name} THEN page.rules[k] ELSE {}]]]
  <2> DEFINE answer == [k \in L!Keys |->
                          IF c.filter \in {None, k.name} THEN page.rules[k] ELSE {}]
             read == [c EXCEPT !.served = TRUE, !.answer = answer]
  <2>1. answer \in L!Rules
    BY <1>1 DEF L!Rules
  <2>2. page' = [page EXCEPT !.calls = Filled(page.calls, s, read)]
    BY <1>5 DEF Filled, RulesPages
  <2> HIDE DEF answer
  <2>3. read \in RuleCalls
    BY <1>1, <1>5, <2>1, KindsOfRules DEF RuleCalls
  <2> HIDE DEF read
  <2> QED BY <2>2, <2>3, RulesSettled
<1> QED BY <1>3, <1>4, <1>5 DEF L!Serve

LEMMA RulesPageStep ==
  ASSUME page \in RulesPages, L!Next
  PROVE  page' \in RulesPages
<1>1. /\ page.rules \in L!Rules /\ page.items \in L!Rules /\ page.filter \in L!Filters
      /\ page.form \in L!Forms \cup {None} /\ page.changes + 1 \in Nat
      /\ page.loading \in BOOLEAN /\ page.submitting \in BOOLEAN
  BY DEF RulesPages
<1>2. ASSUME NEW s \in Slots, page.calls[s] # L!Idle
      PROVE  page.calls[s] \in RuleCalls
  BY <1>2, RequestsOfRules DEF RulesPages
<1>3. ASSUME NEW name \in L!Filters, L!SetFilter(name) PROVE page' \in RulesPages
  BY <1>3 DEF L!SetFilter, RulesPages
<1>4. CASE L!Refresh
  <2> DEFINE p == L!Started(L!Request("list", None, None, page.filter))
  <2>1. p \in RulesPages
    BY <1>1, <1>4, RuleRequest, RulesStarted, KindsOfRules DEF L!Refresh
  <2>2. page' = [p EXCEPT !.loading = TRUE]
    BY <1>4 DEF L!Refresh
  <2> HIDE DEF p
  <2> QED BY <2>1, <2>2 DEF RulesPages
<1>5. ASSUME NEW k \in L!Keys, L!Delete(k) PROVE page' \in RulesPages
  <2> DEFINE p == L!Started(L!Request("delete", k, None, page.filter))
  <2>1. L!Request("delete", k, None, page.filter) \in RuleCalls
    BY <1>1, RuleRequest, KindsOfRules
  <2>2. p \in RulesPages
    BY <1>5, <2>1, RulesStarted DEF L!Delete
  <2>3. page' = [p EXCEPT !.loading = TRUE]
    BY <1>5 DEF L!Delete
  <2> HIDE DEF p
  <2> QED BY <2>2, <2>3 DEF RulesPages
<1>6. CASE L!OpenCreate
  <2>1. [key |-> None, name |-> None, scope |-> "global", id |-> None, fields |-> {}] \in L!Forms
    BY DEF L!Forms, L!FormScopes
  <2> QED BY <1>6, <2>1 DEF L!OpenCreate, RulesPages
<1>7. ASSUME NEW k \in L!Keys, L!OpenEdit(k) PROVE page' \in RulesPages
  <2>1. L!FormOf(k) \in L!Forms
    BY <1>1 DEF L!FormOf, L!Forms, L!FormScopes, L!Keys, L!Rules
  <2> QED BY <1>7, <2>1 DEF L!OpenEdit, RulesPages
<1>8. CASE L!CloseModal
  BY <1>8 DEF L!CloseModal, RulesPages
<1>9. ASSUME NEW form \in L!Forms, L!Change(form) PROVE page' \in RulesPages
  BY <1>1, <1>9 DEF L!Change, RulesPages
<1>10. page.form # None =>
         /\ \A name \in Names : [page.form EXCEPT !.name = name] \in L!Forms
         /\ \A scope \in {"global", "cluster"} : [page.form EXCEPT !.scope = scope] \in L!Forms
         /\ \A id \in ScopeIds \cup {None} : [page.form EXCEPT !.id = id] \in L!Forms
         /\ \A fields \in SUBSET Fields : [page.form EXCEPT !.fields = fields] \in L!Forms
  BY <1>1 DEF L!Forms, L!FormScopes
<1>11. ASSUME NEW name \in Names, L!SetName(name) PROVE page' \in RulesPages
  BY <1>9, <1>10, <1>11 DEF L!SetName
<1>12. ASSUME NEW scope \in {"global", "cluster"}, L!SetScope(scope) PROVE page' \in RulesPages
  BY <1>9, <1>10, <1>12 DEF L!SetScope
<1>13. ASSUME NEW id \in ScopeIds \cup {None}, L!SetScopeId(id) PROVE page' \in RulesPages
  BY <1>9, <1>10, <1>13 DEF L!SetScopeId
<1>14. ASSUME NEW fields \in SUBSET Fields, L!SetFields(fields) PROVE page' \in RulesPages
  BY <1>9, <1>10, <1>14 DEF L!SetFields
<1>15. CASE L!Submit
  <2> DEFINE p == L!Started(L!Request("save", None, page.form, page.filter))
  <2>1. L!Request("save", None, page.form, page.filter) \in RuleCalls
    <3>1. page.form \in L!Forms
      BY <1>1, <1>15 DEF L!Submit
    <3> QED BY <1>1, <3>1, RuleRequest, KindsOfRules
  <2>2. p \in RulesPages
    BY <1>15, <2>1, RulesStarted DEF L!Submit
  <2>3. page' = [p EXCEPT !.submitting = TRUE]
    BY <1>15 DEF L!Submit
  <2> HIDE DEF p
  <2> QED BY <2>2, <2>3 DEF RulesPages
<1>16. ASSUME NEW s \in Slots, L!DeliverList(s) PROVE page' \in RulesPages
  <2> DEFINE p == [page EXCEPT !.items = page.calls[s].answer]
  <2>1. page.calls[s].answer \in L!Rules
    BY <1>2, <1>16 DEF L!DeliverList, RuleCalls
  <2>2. p \in RulesPages /\ page' = L!Finished(p, s)
    BY <1>16, <2>1 DEF L!DeliverList, RulesPages
  <2> HIDE DEF p
  <2> QED BY <2>2, RulesFinished
<1>17. ASSUME NEW s \in Slots, L!DeliverChange(s) PROVE page' \in RulesPages
  <2> DEFINE c == page.calls[s]
             next == [c EXCEPT !.kind = L!Reload[c.kind], !.served = FALSE]
             filled == [page EXCEPT !.calls = Filled(page.calls, s, next)]
  <2>1. c \in RuleCalls /\ L!Reload[c.kind] \in L!Loads
    BY <1>2, <1>17, KindsOfRules DEF L!DeliverChange
  <2>2. next \in RuleCalls
    BY <2>1, KindsOfRules DEF RuleCalls
  <2>3. page' = [filled EXCEPT !.loading = TRUE]
    BY <1>17 DEF L!DeliverChange, Filled, RulesPages
  <2> HIDE DEF next
  <2>4. filled \in RulesPages
    BY <2>2, RulesSettled
  <2> HIDE DEF filled
  <2> QED BY <2>3, <2>4 DEF RulesPages
<1>18. ASSUME NEW s \in Slots, L!Fail(s) PROVE page' \in RulesPages
  <2> DEFINE failures == IF page.failures < MaxFailures THEN page.failures + 1 ELSE page.failures
             failed == [page EXCEPT !.failures = failures]
             kind == page.calls[s].kind
             submitting == page.submitting /\ kind # "save"
             loading == page.loading /\ kind # "delete"
             filled == [failed EXCEPT !.calls = Filled(failed.calls, s, Empty)]
  <2>1. failures \in Nat
    BY DEF RulesPages
  <2>2. submitting \in BOOLEAN /\ loading \in BOOLEAN
    OBVIOUS
  <2>3. page' = IF kind \in L!Loads THEN L!Finished(failed, s)
                ELSE [failed EXCEPT !.calls = L!Done(page.calls, s),
                                    !.submitting = submitting, !.loading = loading]
    BY <1>18 DEF L!Fail
  <2> HIDE DEF failures, submitting, loading, kind
  <2>4. failed \in RulesPages /\ failed.calls = page.calls
    BY <2>1 DEF RulesPages
  <2> HIDE DEF failed
  <2>5. filled \in RulesPages
    BY <2>4, RulesSettled
  <2>6. L!Done(page.calls, s) = Filled(failed.calls, s, Empty)
    BY <2>4, RequestsOfRules
  <2>7. CASE kind \in L!Loads
    BY <2>3, <2>4, <2>7, RulesFinished
  <2>8. CASE kind \notin L!Loads
    <3>1. page' = [filled EXCEPT !.submitting = submitting, !.loading = loading]
      BY <2>3, <2>6, <2>8
    <3> HIDE DEF filled
    <3> QED BY <2>2, <2>5, <3>1 DEF RulesPages
  <2> QED BY <2>7, <2>8
<1>19. ASSUME NEW s \in Slots, L!Serve(s) PROVE page' \in RulesPages
  BY <1>19, RulesServed
<1> QED
  BY <1>3, <1>4, <1>5, <1>6, <1>7, <1>8, <1>11, <1>12, <1>13, <1>14, <1>15, <1>16, <1>17, <1>18, <1>19
  DEF L!Next, L!Deliver

-----------------------------------------------------------------------------
(* ClustersPanel: the answer to a load is a table.                         *)
ListCalls ==
  {c \in [kind : C!Loads \cup {"update", "delete"}, id : Clusters \cup {None},
          status : Statuses \cup {None}, editing : Clusters \cup {None},
          served : BOOLEAN, answer : C!Tables \cup {None}] :
     c.kind \in C!Loads /\ c.served => c.answer \in C!Tables}

ClusterEditors == [id : Clusters \cup {None}, status : Statuses \cup {None}]

ClustersPages ==
  [table : C!Tables, listed : C!Tables, loading : BOOLEAN, filter : C!Filters,
   editor : ClusterEditors, saving : BOOLEAN, calls : [Slots -> {Empty} \cup ListCalls],
   changes : Nat, failures : Nat, mixed : BOOLEAN]

LEMMA RequestsOfClusters ==
  ASSUME NEW calls, NEW c, NEW s
  PROVE  /\ C!Idle = Empty /\ C!NoCalls = Unused
         /\ C!HasRoom(calls) <=> Room(calls)
         /\ C!Sent(calls, c) = Placed(calls, c)
         /\ C!Done(calls, s) = Filled(calls, s, Empty)
BY DEF C!Idle, C!NoCalls, C!HasRoom, C!Sent, C!Done, Empty, Unused, Room, Placed, Filled

LEMMA KindsOfClusters ==
  /\ "list" \in C!Loads /\ "update" \notin C!Loads /\ "delete" \notin C!Loads
  /\ DOMAIN C!Reload = {"update", "delete"}
  /\ \A kind \in DOMAIN C!Reload : C!Reload[kind] \in C!Loads
<1>1. C!Reload = [update |-> "update reload", delete |-> "delete reload"]
  BY Zenon DEF C!Reload
<1>2. DOMAIN C!Reload = {"update", "delete"}
  BY <1>1, Zenon
<1>3. \A kind \in DOMAIN C!Reload : C!Reload[kind] \in C!Loads
  <2>1. C!Reload["update"] = "update reload" /\ C!Reload["delete"] = "delete reload"
    BY <1>1, Zenon
  <2> QED BY <1>2, <2>1, Zenon DEF C!Loads
<1> QED BY <1>2, <1>3, Zenon DEF C!Loads

LEMMA ListRequest ==
  ASSUME NEW kind \in C!Loads \cup {"update", "delete"}, NEW id \in Clusters \cup {None},
         NEW status \in Statuses \cup {None}, NEW editing \in Clusters \cup {None}
  PROVE  C!Request(kind, id, status, editing) \in ListCalls
BY DEF C!Request, ListCalls

LEMMA ClustersPageTyped ==
  ASSUME page \in ClustersPages
  PROVE  C!TypeOK
<1>1. ASSUME NEW s \in Slots
      PROVE  \/ page.calls[s] = C!Idle
             \/ /\ page.calls[s].kind \in C!Loads \cup {"update", "delete"}
                /\ page.calls[s].answer \in C!Tables \cup {None}
  BY RequestsOfClusters DEF ClustersPages, ListCalls
<1>2. /\ page.table \in C!Tables /\ page.listed \in C!Tables
      /\ page.loading \in BOOLEAN /\ page.saving \in BOOLEAN /\ page.mixed \in BOOLEAN
      /\ page.filter \in C!Filters /\ page.editor \in ClusterEditors
  BY DEF ClustersPages
<1> QED BY <1>1, <1>2, Zenon DEF C!TypeOK, ClusterEditors

LEMMA ListRequested == C!List \in ListCalls
BY ListRequest, KindsOfClusters DEF C!List

LEMMA ClustersPageMounted ==
  ASSUME page' \in C!Mounts
  PROVE  page' \in ClustersPages
<1>1. PICK table \in C!Tables : page' = C!Mounted(table)
  BY DEF C!Mounts
<1>2. C!Unlisted \in C!Tables /\ C!Closed \in ClusterEditors
  BY DEF C!Unlisted, C!Tables, C!Closed, ClusterEditors
<1>3. Placed(Unused, C!List) \in [Slots -> {Empty} \cup ListCalls]
  BY ListRequested, FitUnused, FitPlaced DEF Fit
<1>4. page' = [table |-> table, listed |-> C!Unlisted, loading |-> TRUE, filter |-> "all",
               editor |-> C!Closed, saving |-> FALSE, calls |-> Placed(Unused, C!List),
               changes |-> 0, failures |-> 0, mixed |-> FALSE]
  BY <1>1, RequestsOfClusters DEF C!Mounted
<1> QED BY <1>1, <1>2, <1>3, <1>4 DEF ClustersPages, C!Filters

LEMMA ClustersSettled ==
  ASSUME NEW p \in ClustersPages, NEW s \in Slots, NEW c \in {Empty} \cup ListCalls
  PROVE  [p EXCEPT !.calls = Filled(p.calls, s, c)] \in ClustersPages
<1>1. Filled(p.calls, s, c) \in [Slots -> {Empty} \cup ListCalls]
  BY FitFilled DEF ClustersPages, Fit
<1> QED BY <1>1 DEF ClustersPages

LEMMA ClustersStarted ==
  ASSUME page \in ClustersPages, C!MayStart, NEW call \in ListCalls
  PROVE  C!Started(call) \in ClustersPages
<1> DEFINE sent == Placed(page.calls, call)
           mixed == page.mixed \/ page.calls # C!NoCalls
<1>1. Fit(page.calls, ListCalls) /\ Room(page.calls) /\ page.changes + 1 \in Nat
  BY RequestsOfClusters DEF C!MayStart, ClustersPages, Fit
<1>2. sent \in [Slots -> {Empty} \cup ListCalls]
  BY <1>1, FitPlaced DEF Fit
<1>3. C!Started(call) = [page EXCEPT !.calls = sent, !.changes = page.changes + 1, !.mixed = mixed]
  BY RequestsOfClusters DEF C!Started
<1>4. mixed \in BOOLEAN
  OBVIOUS
<1> HIDE DEF sent, mixed
<1> QED BY <1>1, <1>2, <1>3, <1>4 DEF ClustersPages

LEMMA ClustersFinished ==
  ASSUME NEW p \in ClustersPages, NEW s \in Slots
  PROVE  C!Finished(p, s) \in ClustersPages
<1> DEFINE c == page.calls[s]
           saving == p.saving /\ c.kind # "update reload"
           editor == IF c.kind = "update reload" \/ (c.kind = "delete reload" /\ c.editing = c.id)
                     THEN C!Closed ELSE p.editor
           filled == [p EXCEPT !.calls = Filled(p.calls, s, Empty)]
<1>1. filled \in ClustersPages
  BY ClustersSettled
<1>2. saving \in BOOLEAN
  BY Zenon
<1>3. editor \in ClusterEditors
  <2>1. C!Closed \in ClusterEditors /\ p.editor \in ClusterEditors
    BY DEF C!Closed, ClusterEditors, ClustersPages
  <2> QED BY <2>1, Zenon
<1>4. C!Finished(p, s) = [filled EXCEPT !.loading = FALSE, !.saving = saving, !.editor = editor]
  BY RequestsOfClusters, Zenon DEF C!Finished
<1> HIDE DEF filled, saving, editor
<1> QED BY <1>1, <1>2, <1>3, <1>4 DEF ClustersPages

LEMMA ClustersServed ==
  ASSUME page \in ClustersPages, NEW s \in Slots, C!Serve(s)
  PROVE  page' \in ClustersPages
<1> DEFINE c == page.calls[s]
           acted == [c EXCEPT !.served = TRUE]
           filled == [page EXCEPT !.calls = Filled(page.calls, s, acted)]
<1>1. c \in ListCalls /\ page.table \in C!Tables
  BY RequestsOfClusters DEF C!Serve, ClustersPages
<1>2. ASSUME c.kind \notin C!Loads, NEW status \in Statuses \cup {None},
             page' = [page EXCEPT !.table = [page.table EXCEPT ![c.id] = status],
                                  !.calls[s].served = TRUE]
      PROVE  page' \in ClustersPages
  <2> DEFINE table == [page.table EXCEPT ![c.id] = status]
  <2>1. acted \in ListCalls
    BY <1>1, <1>2 DEF ListCalls
  <2>2. table \in C!Tables
    BY <1>1 DEF C!Tables
  <2>3. page' = [filled EXCEPT !.table = table]
    BY <1>2 DEF Filled, ClustersPages
  <2> HIDE DEF acted, table
  <2>4. filled \in ClustersPages
    BY <2>1, ClustersSettled
  <2> HIDE DEF filled
  <2> QED BY <2>2, <2>3, <2>4 DEF ClustersPages
<1>3. CASE c.kind = "update"
           /\ page' = [page EXCEPT !.table = [page.table EXCEPT ![c.id] = c.status],
                                   !.calls[s].served = TRUE]
  <2>1. c.status \in Statuses \cup {None}
    BY <1>1 DEF ListCalls
  <2> QED BY <1>2, <1>3, <2>1, KindsOfClusters
<1>4. CASE c.kind = "delete"
           /\ page' = [page EXCEPT !.table = [page.table EXCEPT ![c.id] = None],
                                   !.calls[s].served = TRUE]
  BY <1>2, <1>4, KindsOfClusters
<1>5. CASE /\ c.kind \in C!Loads
           /\ page' = [page EXCEPT !.calls[s] =
                         [c EXCEPT !.served = TRUE, !.answer = page.table]]
  <2> DEFINE read == [c EXCEPT !.served = TRUE, !.answer = page.table]
  <2>1. read \in ListCalls
    BY <1>1 DEF ListCalls
  <2>2. page' = [page EXCEPT !.calls = Filled(page.calls, s, read)]
    BY <1>5 DEF Filled, ClustersPages
  <2> HIDE DEF read
  <2> QED BY <2>1, <2>2, ClustersSettled
<1> QED BY <1>3, <1>4, <1>5 DEF C!Serve

LEMMA ClustersPageStep ==
  ASSUME page \in ClustersPages, C!Next
  PROVE  page' \in ClustersPages
<1>1. /\ page.table \in C!Tables /\ page.listed \in C!Tables /\ page.filter \in C!Filters
      /\ page.editor \in ClusterEditors /\ page.saving \in BOOLEAN
  BY DEF ClustersPages
<1>2. ASSUME NEW s \in Slots, page.calls[s] # C!Idle
      PROVE  page.calls[s] \in ListCalls
  BY <1>2, RequestsOfClusters DEF ClustersPages
<1>3. CASE C!Refresh
  <2>1. C!Started(C!List) \in ClustersPages
    BY <1>3, ListRequested, ClustersStarted DEF C!Refresh
  <2>2. page' = [C!Started(C!List) EXCEPT !.loading = TRUE]
    BY <1>3 DEF C!Refresh
  <2> QED BY <2>1, <2>2 DEF ClustersPages
<1>4. ASSUME NEW key \in C!Filters, C!FilterByCard(key) PROVE page' \in ClustersPages
  <2>1. (IF page.filter = key THEN "all" ELSE key) \in C!Filters
    BY DEF C!Filters
  <2> QED BY <1>4, <2>1 DEF C!FilterByCard, ClustersPages
<1>5. ASSUME NEW key \in C!Filters, C!SelectFilter(key) PROVE page' \in ClustersPages
  BY <1>5 DEF C!SelectFilter, ClustersPages
<1>6. ASSUME NEW c \in Clusters, C!StartEditing(c) PROVE page' \in ClustersPages
  <2>1. [id |-> c, status |-> page.listed[c]] \in ClusterEditors
    BY <1>1 DEF ClusterEditors, C!Tables
  <2> QED BY <1>6, <2>1 DEF C!StartEditing, ClustersPages
<1>7. ASSUME NEW status \in Statuses, C!ChangeForm(status) PROVE page' \in ClustersPages
  <2>1. [page.editor EXCEPT !.status = status] \in ClusterEditors
    BY <1>1 DEF ClusterEditors
  <2>2. page' = [page EXCEPT !.editor = [page.editor EXCEPT !.status = status]]
    BY <1>7 DEF C!ChangeForm
  <2> QED BY <2>1, <2>2 DEF ClustersPages
<1>8. CASE C!CancelEditing
  <2>1. C!Closed \in ClusterEditors
    BY DEF C!Closed, ClusterEditors
  <2> QED BY <1>8, <2>1 DEF C!CancelEditing, ClustersPages
<1>9. page.editor.id \in Clusters \cup {None} /\ page.editor.status \in Statuses \cup {None}
  BY <1>1 DEF ClusterEditors
<1>10. CASE C!Save
  <2> DEFINE p == C!Started(C!Request("update", page.editor.id, page.editor.status, None))
  <2>1. C!Request("update", page.editor.id, page.editor.status, None) \in ListCalls
    BY <1>9, ListRequest
  <2>2. p \in ClustersPages
    BY <1>10, <2>1, ClustersStarted DEF C!Save
  <2>3. page' = [p EXCEPT !.saving = TRUE]
    BY <1>10 DEF C!Save
  <2> HIDE DEF p
  <2> QED BY <2>2, <2>3 DEF ClustersPages
<1>11. ASSUME NEW c \in Clusters, C!Delete(c) PROVE page' \in ClustersPages
  <2>1. C!Request("delete", c, None, page.editor.id) \in ListCalls
    BY <1>9, ListRequest
  <2> QED BY <1>11, <2>1, ClustersStarted DEF C!Delete
<1>12. ASSUME NEW s \in Slots, C!DeliverList(s) PROVE page' \in ClustersPages
  <2> DEFINE p == [page EXCEPT !.listed = page.calls[s].answer]
  <2>1. page.calls[s].answer \in C!Tables
    BY <1>2, <1>12 DEF C!DeliverList, ListCalls
  <2>2. p \in ClustersPages /\ page' = C!Finished(p, s)
    BY <1>12, <2>1 DEF C!DeliverList, ClustersPages
  <2> HIDE DEF p
  <2> QED BY <2>2, ClustersFinished
<1>13. ASSUME NEW s \in Slots, C!DeliverChange(s) PROVE page' \in ClustersPages
  <2> DEFINE c == page.calls[s]
             next == [c EXCEPT !.kind = C!Reload[c.kind], !.served = FALSE]
             filled == [page EXCEPT !.calls = Filled(page.calls, s, next)]
  <2>1. c \in ListCalls /\ C!Reload[c.kind] \in C!Loads
    BY <1>2, <1>13, KindsOfClusters DEF C!DeliverChange
  <2>2. next \in ListCalls
    BY <2>1 DEF ListCalls
  <2>3. page' = [filled EXCEPT !.loading = TRUE]
    BY <1>13 DEF C!DeliverChange, Filled, ClustersPages
  <2> HIDE DEF next
  <2>4. filled \in ClustersPages
    BY <2>2, ClustersSettled
  <2> HIDE DEF filled
  <2> QED BY <2>3, <2>4 DEF ClustersPages
<1>14. ASSUME NEW s \in Slots, C!Fail(s) PROVE page' \in ClustersPages
  <2> DEFINE failures == IF page.failures < MaxFailures THEN page.failures + 1 ELSE page.failures
             failed == [page EXCEPT !.failures = failures, !.mixed = TRUE]
             kind == page.calls[s].kind
             saving == page.saving /\ kind # "update"
             filled == [failed EXCEPT !.calls = Filled(failed.calls, s, Empty)]
  <2>1. failures \in Nat
    BY DEF ClustersPages
  <2>2. saving \in BOOLEAN
    OBVIOUS
  <2>3. page' = IF kind \in C!Loads THEN C!Finished(failed, s)
                ELSE [failed EXCEPT !.calls = C!Done(page.calls, s), !.saving = saving]
    BY <1>14 DEF C!Fail
  <2> HIDE DEF failures, saving, kind
  <2>4. failed \in ClustersPages /\ failed.calls = page.calls
    BY <2>1 DEF ClustersPages
  <2> HIDE DEF failed
  <2>5. filled \in ClustersPages
    BY <2>4, ClustersSettled
  <2>6. C!Done(page.calls, s) = Filled(failed.calls, s, Empty)
    BY <2>4, RequestsOfClusters
  <2>7. CASE kind \in C!Loads
    BY <2>3, <2>4, <2>7, ClustersFinished
  <2>8. CASE kind \notin C!Loads
    <3>1. page' = [filled EXCEPT !.saving = saving]
      BY <2>3, <2>6, <2>8
    <3> HIDE DEF filled
    <3> QED BY <2>2, <2>5, <3>1 DEF ClustersPages
  <2> QED BY <2>7, <2>8
<1>15. ASSUME NEW s \in Slots, C!Serve(s) PROVE page' \in ClustersPages
  BY <1>15, ClustersServed
<1> QED
  BY <1>3, <1>4, <1>5, <1>6, <1>7, <1>8, <1>10, <1>11, <1>12, <1>13, <1>14, <1>15
  DEF C!Next, C!Deliver

-----------------------------------------------------------------------------
(* AutoscalingPanel: the answer to a load is a listing, and what is saved  *)
(* is a form.                                                              *)
Forming == {"toggle", "update", "create"}

PolicyCalls ==
  {c \in [kind : A!Kinds, policy : Policies \cup {None}, form : A!Forms \cup {None},
          cluster : Clusters \cup {None}, served : BOOLEAN, answer : A!Listings \cup {None}] :
     /\ (c.kind = "list" /\ c.served => c.answer \in A!Listings)
     /\ (c.kind \in Forming => c.form \in A!Forms)}

PolicyEditors == {e \in A!Editors : e.open => e.form \in A!Forms}

PoliciesPages ==
  [cluster : Clusters \cup {None}, table : A!Tables, listed : A!Listings, card : A!Listings,
   editor : PolicyEditors, detail : Policies \cup {None}, samples : Policies \cup {None},
   result : BOOLEAN, calls : [Slots -> {Empty} \cup PolicyCalls],
   changes : Nat, failures : Nat, mixed : BOOLEAN]

LEMMA RequestsOfPolicies ==
  ASSUME NEW calls, NEW c, NEW s
  PROVE  /\ A!Idle = Empty /\ A!NoCalls = Unused
         /\ A!HasRoom(calls) <=> Room(calls)
         /\ A!Sent(calls, c) = Placed(calls, c)
         /\ A!Done(calls, s) = Filled(calls, s, Empty)
BY DEF A!Idle, A!NoCalls, A!HasRoom, A!Sent, A!Done, Empty, Unused, Room, Placed, Filled

LEMMA KindsOfPolicies ==
  /\ A!Kinds = {"delete", "toggle", "update", "create", "list", "evaluate", "samples"}
  /\ "list" \notin Forming /\ "delete" \notin Forming
  /\ "evaluate" \notin Forming /\ "samples" \notin Forming
BY DEF A!Kinds, A!PolicyChanges, Forming

LEMMA PolicyRequest ==
  ASSUME NEW kind \in A!Kinds, NEW policy \in Policies \cup {None},
         NEW form \in A!Forms \cup {None}, NEW cluster \in Clusters \cup {None},
         kind \in Forming => form \in A!Forms
  PROVE  A!Request(kind, policy, form, cluster) \in PolicyCalls
BY DEF A!Request, PolicyCalls

LEMMA PoliciesPageTyped ==
  ASSUME page \in PoliciesPages
  PROVE  A!TypeOK
<1>1. ASSUME NEW s \in Slots
      PROVE  \/ page.calls[s] = A!Idle
             \/ /\ page.calls[s].kind \in A!Kinds
                /\ page.calls[s].policy \in Policies \cup {None}
                /\ page.calls[s].form \in A!Forms \cup {None}
                /\ page.calls[s].answer \in A!Listings \cup {None}
  BY RequestsOfPolicies DEF PoliciesPages, PolicyCalls
<1>2. /\ page.cluster \in Clusters \cup {None}
      /\ page.table \in A!Tables /\ page.listed \in A!Listings /\ page.card \in A!Listings
      /\ page.editor \in A!Editors
      /\ page.detail \in Policies \cup {None} /\ page.samples \in Policies \cup {None}
      /\ page.result \in BOOLEAN /\ page.mixed \in BOOLEAN
  BY DEF PoliciesPages, PolicyEditors
<1> QED BY <1>1, <1>2, Zenon DEF A!TypeOK

LEMMA ClosedEditor == A!Closed \in PolicyEditors
BY DEF A!Closed, A!Editors, PolicyEditors

LEMMA PoliciesPageMounted ==
  ASSUME page' \in A!Mounts
  PROVE  page' \in PoliciesPages
<1>1. PICK table \in [Policies -> A!Switch \cup {None}] : page' = A!Mounted(table)
  BY DEF A!Mounts
<1>2. table \in A!Tables /\ A!Unlisted \in A!Listings
  BY DEF A!Tables, A!Unlisted, A!Listings
<1>3. Unused \in [Slots -> {Empty} \cup PolicyCalls]
  BY FitUnused DEF Fit
<1>4. page' = [cluster |-> None, table |-> table, listed |-> A!Unlisted, card |-> A!Unlisted,
               editor |-> A!Closed, detail |-> None, samples |-> None, result |-> FALSE,
               calls |-> Unused, changes |-> 0, failures |-> 0, mixed |-> FALSE]
  BY <1>1, RequestsOfPolicies DEF A!Mounted
<1> QED BY <1>2, <1>3, <1>4, ClosedEditor DEF PoliciesPages

LEMMA PoliciesSettled ==
  ASSUME NEW p \in PoliciesPages, NEW s \in Slots, NEW c \in {Empty} \cup PolicyCalls
  PROVE  [p EXCEPT !.calls = Filled(p.calls, s, c)] \in PoliciesPages
<1>1. Filled(p.calls, s, c) \in [Slots -> {Empty} \cup PolicyCalls]
  BY FitFilled DEF PoliciesPages, Fit
<1> QED BY <1>1 DEF PoliciesPages

LEMMA PoliciesStarted ==
  ASSUME NEW p \in PoliciesPages, A!HasRoom(p.calls), NEW call \in PolicyCalls
  PROVE  A!Started(p, call) \in PoliciesPages
<1> DEFINE sent == Placed(p.calls, call)
           mixed == p.mixed \/ page.calls # A!NoCalls
<1>1. Fit(p.calls, PolicyCalls) /\ Room(p.calls) /\ p.changes + 1 \in Nat
  BY RequestsOfPolicies DEF PoliciesPages, Fit
<1>2. sent \in [Slots -> {Empty} \cup PolicyCalls]
  BY <1>1, FitPlaced DEF Fit
<1>3. A!Started(p, call) = [p EXCEPT !.calls = sent, !.changes = p.changes + 1, !.mixed = mixed]
  BY RequestsOfPolicies DEF A!Started
<1>4. mixed \in BOOLEAN
  OBVIOUS
<1> HIDE DEF sent, mixed
<1> QED BY <1>1, <1>2, <1>3, <1>4 DEF PoliciesPages

(* A card drawn again shows its policy as listed.                          *)
LEMMA PoliciesRemounted ==
  ASSUME NEW p \in PoliciesPages, NEW hidden
  PROVE  A!Remounted(p, hidden) \in PoliciesPages
<1> DEFINE card == [q \in Policies |-> IF q \in hidden THEN p.listed[q] ELSE p.card[q]]
           mixed == p.mixed \/ page.calls # A!NoCalls
<1>1. card \in A!Listings
  BY DEF A!Listings, PoliciesPages
<1>2. mixed \in BOOLEAN
  OBVIOUS
<1>3. A!Remounted(p, hidden) = [p EXCEPT !.card = card, !.mixed = mixed]
  BY DEF A!Remounted
<1> HIDE DEF card, mixed
<1> QED BY <1>1, <1>2, <1>3 DEF PoliciesPages

LEMMA PoliciesShown ==
  ASSUME NEW p \in PoliciesPages, NEW listing \in A!Listings
  PROVE  A!Shown(p, listing) \in PoliciesPages
<1> DEFINE card == [q \in Policies |->
                      IF listing[q] = None \/ p.listed[q] = None THEN listing[q] ELSE p.card[q]]
<1>1. card \in A!Listings
  BY DEF A!Listings, PoliciesPages
<1>2. A!Shown(p, listing) = [p EXCEPT !.listed = listing, !.card = card]
  BY DEF A!Shown
<1> HIDE DEF card
<1> QED BY <1>1, <1>2 DEF PoliciesPages

LEMMA PoliciesServed ==
  ASSUME page \in PoliciesPages, NEW s \in Slots, A!Serve(s)
  PROVE  page' \in PoliciesPages
<1> DEFINE c == page.calls[s]
           acted == [c EXCEPT !.served = TRUE]
           filled == [page EXCEPT !.calls = Filled(page.calls, s, acted)]
<1>1. c \in PolicyCalls /\ page.table \in A!Tables
  BY RequestsOfPolicies DEF A!Serve, PoliciesPages
<1>2. ASSUME c.kind # "list", NEW table \in A!Tables,
             page' = [page EXCEPT !.table = table, !.calls[s].served = TRUE]
      PROVE  page' \in PoliciesPages
  <2>1. acted \in PolicyCalls
    BY <1>1, <1>2 DEF PolicyCalls
  <2>2. page' = [filled EXCEPT !.table = table]
    BY <1>2 DEF Filled, PoliciesPages
  <2> HIDE DEF acted
  <2>3. filled \in PoliciesPages
    BY <2>1, PoliciesSettled
  <2> HIDE DEF filled
  <2> QED BY <1>2, <2>2, <2>3 DEF PoliciesPages
<1>3. ASSUME NEW p, NEW x \in A!Switch \cup {None, "gone"}
      PROVE  [page.table EXCEPT ![p] = x] \in A!Tables
  BY <1>1 DEF A!Tables
<1>4. c.kind \in Forming => c.form.enabled \in A!Switch
  BY <1>1 DEF PolicyCalls, A!Forms
<1>5. CASE /\ c.kind \in {"toggle", "update"}
           /\ page' = [page EXCEPT !.table = [page.table EXCEPT ![c.policy] = c.form.enabled],
                                   !.calls[s].served = TRUE]
  <2>1. [page.table EXCEPT ![c.policy] = c.form.enabled] \in A!Tables
    BY <1>3, <1>4, <1>5 DEF Forming
  <2> QED BY <1>2, <1>5, <2>1
<1>6. CASE /\ c.kind = "delete"
           /\ page' = [page EXCEPT !.table = [page.table EXCEPT ![c.policy] = "gone"],
                                   !.calls[s].served = TRUE]
  <2>1. [page.table EXCEPT ![c.policy] = "gone"] \in A!Tables
    BY <1>3
  <2> QED BY <1>2, <1>6, <2>1
<1>7. ASSUME NEW p \in Policies, c.kind = "create",
             page' = [page EXCEPT !.table = [page.table EXCEPT ![p] = c.form.enabled],
                                  !.calls[s].served = TRUE]
      PROVE  page' \in PoliciesPages
  <2>1. [page.table EXCEPT ![p] = c.form.enabled] \in A!Tables
    BY <1>3, <1>4, <1>7 DEF Forming
  <2> QED BY <1>2, <1>7, <2>1
<1>8. CASE /\ c.kind \in {"evaluate", "samples"}
           /\ page' = [page EXCEPT !.table = page.table, !.calls[s].served = TRUE]
  BY <1>1, <1>2, <1>8
<1>9. CASE /\ c.kind = "list"
           /\ page' = [page EXCEPT !.calls[s] =
                         [c EXCEPT !.served = TRUE, !.answer = A!Listing(page.table, c.cluster)]]
  <2> DEFINE read == [c EXCEPT !.served = TRUE, !.answer = A!Listing(page.table, c.cluster)]
  <2>1. A!Listing(page.table, c.cluster) \in A!Listings
    BY <1>1 DEF A!Listing, A!Listings, A!Tables
  <2>2. read \in PolicyCalls
    BY <1>1, <1>9, <2>1, KindsOfPolicies DEF PolicyCalls
  <2>3. page' = [page EXCEPT !.calls = Filled(page.calls, s, read)]
    BY <1>9 DEF Filled, PoliciesPages
  <2> HIDE DEF read
  <2> QED BY <2>2, <2>3, PoliciesSettled
<1> QED BY <1>5, <1>6, <1>7, <1>8, <1>9 DEF A!Serve

LEMMA PoliciesDelivered ==
  ASSUME page \in PoliciesPages, NEW s \in Slots, A!Deliver(s)
  PROVE  page' \in PoliciesPages
<1> DEFINE c == page.calls[s]
           done == [page EXCEPT !.calls = A!Done(page.calls, s)]
           reload == [page EXCEPT !.calls[s] = A!Request("list", None, None, c.cluster)]
<1>1. c \in PolicyCalls /\ c.served
  BY RequestsOfPolicies DEF A!Deliver, PoliciesPages
<1>2. done \in PoliciesPages
  BY RequestsOfPolicies, PoliciesSettled
<1>3. reload \in PoliciesPages
  <2>1. A!Request("list", None, None, c.cluster) \in PolicyCalls
    BY <1>1, PolicyRequest, KindsOfPolicies DEF PolicyCalls
  <2>2. reload = [page EXCEPT !.calls =
                    Filled(page.calls, s, A!Request("list", None, None, c.cluster))]
    BY DEF Filled, PoliciesPages
  <2> QED BY <2>1, <2>2, PoliciesSettled
<1>4. \/ c.kind = "list" /\ page' = A!Shown(done, c.answer)
      \/ c.kind = "evaluate" /\ page' = [done EXCEPT !.result = TRUE]
      \/ c.kind = "samples" /\ page' = [done EXCEPT !.samples = c.policy]
      \/ page' = reload
      \/ page' = [reload EXCEPT !.editor = A!Closed]
  BY Zenon DEF A!Deliver
<1>5. c.policy \in Policies \cup {None}
      /\ (c.kind = "list" => c.answer \in A!Listings)
  BY <1>1 DEF PolicyCalls
<1> HIDE DEF c, done, reload
<1>6. CASE c.kind = "list" /\ page' = A!Shown(done, c.answer)
  BY <1>2, <1>5, <1>6, PoliciesShown
<1>7. CASE page' = [done EXCEPT !.result = TRUE]
  BY <1>2, <1>7 DEF PoliciesPages
<1>8. CASE page' = [done EXCEPT !.samples = c.policy]
  BY <1>2, <1>5, <1>8 DEF PoliciesPages
<1>9. CASE page' = [reload EXCEPT !.editor = A!Closed]
  BY <1>3, <1>9, ClosedEditor DEF PoliciesPages
<1> QED BY <1>3, <1>4, <1>6, <1>7, <1>8, <1>9

LEMMA PoliciesPageStep ==
  ASSUME page \in PoliciesPages, A!Next
  PROVE  page' \in PoliciesPages
<1>1. /\ page.table \in A!Tables /\ page.listed \in A!Listings /\ page.card \in A!Listings
      /\ page.editor \in PolicyEditors /\ page.cluster \in Clusters \cup {None}
  BY DEF PoliciesPages
<1>2. \A p \in A!Cards : page.listed[p] \in A!Switch
  BY <1>1 DEF A!Cards, A!Listings
<1>3. \A p \in Policies : A!Flip(page.card[p]) \in A!Switch
  BY DEF A!Flip, A!Switch
<1>4. ASSUME NEW p \in PoliciesPages, p.calls = page.calls, A!MayStart, NEW kind \in A!Kinds,
             NEW policy \in Policies \cup {None}, NEW form \in A!Forms \cup {None},
             NEW cluster \in Clusters \cup {None}, kind \in Forming => form \in A!Forms
      PROVE  A!Started(p, A!Request(kind, policy, form, cluster)) \in PoliciesPages
  BY <1>4, PolicyRequest, PoliciesStarted DEF A!MayStart
<1>5. ASSUME NEW c \in Clusters \cup {None}, A!SelectCluster(c) PROVE page' \in PoliciesPages
  <2> DEFINE selected == [page EXCEPT !.cluster = c]
             again == A!Remounted(page, Policies)
  <2>1. selected \in PoliciesPages /\ selected.calls = page.calls
    BY DEF PoliciesPages
  <2>2. A!Started(selected, A!Request("list", None, None, c)) \in PoliciesPages
    <3> HIDE DEF selected
    <3> QED BY <1>4, <1>5, <2>1, KindsOfPolicies DEF A!SelectCluster
  <2>3. again \in PoliciesPages
    BY PoliciesRemounted
  <2>4. \/ page' = [again EXCEPT !.cluster = c, !.changes = again.changes + 1]
        \/ page' = A!Started(selected, A!Request("list", None, None, c))
    BY <1>5 DEF A!SelectCluster
  <2> HIDE DEF again
  <2>5. again.changes + 1 \in Nat
    BY <2>3 DEF PoliciesPages
  <2>6. [again EXCEPT !.cluster = c, !.changes = again.changes + 1] \in PoliciesPages
    BY <2>3, <2>5 DEF PoliciesPages
  <2> QED BY <2>2, <2>4, <2>6
<1>6. CASE A!Refresh
  BY <1>1, <1>4, <1>6, KindsOfPolicies DEF A!Refresh
<1>7. CASE A!Evaluate
  BY <1>1, <1>4, <1>7, KindsOfPolicies DEF A!Evaluate
<1>8. CASE A!CloseResult
  BY <1>8 DEF A!CloseResult, PoliciesPages
<1>9. ASSUME NEW p \in Policies, A!Refilter(p) PROVE page' \in PoliciesPages
  BY <1>9, PoliciesRemounted DEF A!Refilter
<1>10. ASSUME NEW p \in Policies, A!Delete(p) PROVE page' \in PoliciesPages
  BY <1>1, <1>4, <1>10, KindsOfPolicies DEF A!Delete
<1>11. ASSUME NEW p \in Policies, A!Toggle(p) PROVE page' \in PoliciesPages
  <2> DEFINE to == A!Flip(page.card[p])
             flipped == [page EXCEPT !.card = [page.card EXCEPT ![p] = to]]
             form == [of |-> p, enabled |-> to, over |-> FALSE]
  <2>1. to \in A!Switch
    BY <1>3
  <2>2. form \in A!Forms
    BY <2>1 DEF A!Forms
  <2>3. [page.card EXCEPT ![p] = to] \in A!Listings
    BY <1>1, <2>1 DEF A!Listings
  <2>4. flipped \in PoliciesPages /\ flipped.calls = page.calls
    <3> HIDE DEF to
    <3> QED BY <2>3 DEF PoliciesPages
  <2>5. A!MayStart
        /\ page' = A!Started(flipped, A!Request("toggle", p, form, page.cluster))
    BY <1>11 DEF A!Toggle
  <2> HIDE DEF flipped, form
  <2> QED BY <1>1, <1>4, <2>2, <2>4, <2>5, KindsOfPolicies
<1>12. ASSUME NEW p \in Policies, A!OpenDetail(p) PROVE page' \in PoliciesPages
  <2> DEFINE opened == [page EXCEPT !.detail = p]
  <2>1. opened \in PoliciesPages /\ opened.calls = page.calls
    BY DEF PoliciesPages
  <2>2. A!MayStart
        /\ page' = A!Started(opened, A!Request("samples", p, None, page.cluster))
    BY <1>12 DEF A!OpenDetail
  <2> HIDE DEF opened
  <2> QED BY <1>1, <1>4, <2>1, <2>2, KindsOfPolicies
<1>13. CASE A!CloseDetail
  BY <1>13 DEF A!CloseDetail, PoliciesPages
<1>14. ASSUME NEW editor \in PolicyEditors
       PROVE  [page EXCEPT !.editor = editor] \in PoliciesPages
  BY DEF PoliciesPages
<1>15. ASSUME NEW of \in Policies \cup {None}, NEW id \in Policies \cup {None},
              NEW enabled \in A!Switch, NEW over \in BOOLEAN
       PROVE  [open |-> TRUE, id |-> id, form |-> [of |-> of, enabled |-> enabled, over |-> over]]
                \in PolicyEditors
  BY DEF PolicyEditors, A!Editors, A!Forms
<1>16. ASSUME NEW p \in Policies, A!Edit(p) PROVE page' \in PoliciesPages
  BY <1>2, <1>14, <1>15, <1>16 DEF A!Edit
<1>17. ASSUME NEW p \in Policies, A!Duplicate(p) PROVE page' \in PoliciesPages
  BY <1>2, <1>14, <1>15, <1>17 DEF A!Duplicate
<1>18. CASE A!NewPolicy \/ A!UseTemplate
  <2>1. PICK enabled \in A!Switch : A!Fill(enabled)
    BY <1>18 DEF A!NewPolicy, A!UseTemplate, A!Switch
  <2> DEFINE form == [of |-> None, enabled |-> enabled, over |-> page.editor.open]
             editor == [page.editor EXCEPT !.open = TRUE, !.form = form]
  <2>2. form \in A!Forms
    BY <1>1 DEF A!Forms, PolicyEditors, A!Editors
  <2>3. page' = [page EXCEPT !.editor = editor]
    BY <2>1 DEF A!Fill
  <2> HIDE DEF form
  <2>4. editor \in PolicyEditors
    BY <1>1, <2>2 DEF PolicyEditors, A!Editors
  <2> HIDE DEF editor
  <2> QED BY <1>14, <2>3, <2>4
<1>19. CASE A!CloseEditor \/ A!Escape
  <2> DEFINE closed == [page EXCEPT !.editor = A!Closed]
  <2>1. closed \in PoliciesPages
    BY <1>14, ClosedEditor
  <2>2. page' = closed \/ page' = [closed EXCEPT !.result = FALSE]
    BY <1>19 DEF A!CloseEditor, A!Escape
  <2> HIDE DEF closed
  <2> QED BY <2>1, <2>2 DEF PoliciesPages
<1>20. CASE A!Save
  <2> DEFINE mixed == page.mixed \/ (/\ page.editor.id # None
                                    /\ page.editor.form.enabled # page.table[page.editor.id])
             told == [page EXCEPT !.mixed = mixed]
             kind == IF page.editor.id = None THEN "create" ELSE "update"
  <2>1. page.editor.id \in Policies \cup {None} /\ page.editor.form \in A!Forms
    BY <1>1, <1>20 DEF A!Save, PolicyEditors, A!Editors
  <2>2. /\ A!MayStart
        /\ page' = A!Started(told, A!Request(kind, page.editor.id, page.editor.form, page.cluster))
    BY <1>20 DEF A!Save
  <2>3. kind \in A!Kinds
    BY KindsOfPolicies
  <2>4. mixed \in BOOLEAN
    OBVIOUS
  <2> HIDE DEF mixed, kind
  <2>5. told \in PoliciesPages /\ told.calls = page.calls
    BY <2>4 DEF PoliciesPages
  <2> HIDE DEF told
  <2> QED BY <1>1, <1>4, <2>1, <2>2, <2>3, <2>5
<1>21. ASSUME NEW s \in Slots, A!Fail(s) PROVE page' \in PoliciesPages
  <2> DEFINE failures == IF page.failures < MaxFailures THEN page.failures + 1 ELSE page.failures
             samples == IF page.calls[s].kind = "samples" THEN None ELSE page.samples
             filled == [page EXCEPT !.calls = Filled(page.calls, s, Empty)]
  <2>1. failures \in Nat /\ samples \in Policies \cup {None}
    BY DEF PoliciesPages
  <2>2. filled \in PoliciesPages
    BY PoliciesSettled
  <2>3. page' = [filled EXCEPT !.mixed = TRUE, !.failures = failures, !.samples = samples]
    BY <1>21, RequestsOfPolicies DEF A!Fail
  <2> HIDE DEF filled, failures, samples
  <2> QED BY <2>1, <2>2, <2>3 DEF PoliciesPages
<1>22. ASSUME NEW s \in Slots, A!Serve(s) \/ A!Deliver(s) PROVE page' \in PoliciesPages
  BY <1>22, PoliciesServed, PoliciesDelivered
<1> QED
  BY <1>5, <1>6, <1>7, <1>8, <1>9, <1>10, <1>11, <1>12, <1>13, <1>16, <1>17, <1>18, <1>19,
     <1>20, <1>21, <1>22
  DEF A!Next

-----------------------------------------------------------------------------
(* JobPanel: there is room for the job of a creation that is on its way.   *)
JobKinds == J!Lists \cup J!Creations \cup {"get"}
JobCalls == [kind : JobKinds, ask : J!Asks, answer : {None} \cup 0 .. MaxJobs]
Jobs == [id : 0 .. MaxJobs, got : 0 .. MaxJobs, loading : BOOLEAN]
JobViews == [ask : J!Asks, total : 0 .. MaxJobs]

JobsPages ==
  [ask : J!Asks, view : JobViews, loading : BOOLEAN, creating : BOOLEAN, job : Jobs,
   calls : [Slots -> {Empty} \cup JobCalls], stored : 0 .. MaxJobs,
   changes : Nat, failures : Nat]

Unanswered(calls) == {s \in Slots : calls[s].kind = "create" /\ calls[s].answer = None}

JobsTyped ==
  /\ page \in JobsPages
  /\ Unanswered(page.calls) # {} => page.stored < MaxJobs

LEMMA RequestsOfJobs ==
  ASSUME NEW calls, NEW c, NEW s
  PROVE  /\ J!Idle = Empty /\ J!NoCalls = Unused
         /\ J!HasRoom(calls) <=> Room(calls)
         /\ J!Sent(calls, c) = Placed(calls, c)
         /\ J!Done(calls, s) = Filled(calls, s, Empty)
BY DEF J!Idle, J!NoCalls, J!HasRoom, J!Sent, J!Done, Empty, Unused, Room, Placed, Filled

LEMMA KindsOfJobs ==
  /\ JobKinds = {"list", "reload", "create", "get"}
  /\ J!Lists = {"list", "reload"} /\ J!Creations = {"create", "reload"}
BY DEF JobKinds, J!Lists, J!Creations

LEMMA JobBounds == MaxJobs \in Nat /\ None \notin 0 .. MaxJobs
BY ConsoleAssumption

LEMMA JobRequest ==
  ASSUME NEW kind \in JobKinds, NEW ask \in J!Asks
  PROVE  /\ J!Request(kind, ask) \in JobCalls
         /\ J!Request(kind, ask).kind = kind
BY DEF J!Request, JobCalls

LEMMA JobsPageTyped ==
  ASSUME page \in JobsPages
  PROVE  J!TypeOK
BY RequestsOfJobs DEF JobsPages, JobViews, Jobs, JobCalls, JobKinds, J!TypeOK

(* A call put in a slot, where only a creation needs room.                 *)
LEMMA UnansweredFilled ==
  ASSUME NEW calls \in [Slots -> {Empty} \cup JobCalls], NEW s \in Slots,
         NEW c \in {Empty} \cup JobCalls
  PROVE  /\ c.kind # "create" \/ c.answer # None =>
              Unanswered(Filled(calls, s, c)) \subseteq Unanswered(calls)
         /\ Unanswered(Unused) = {}
<1>1. /\ Filled(calls, s, c)[s] = c
      /\ \A t \in Slots \ {s} : Filled(calls, s, c)[t] = calls[t]
  BY DEF Filled
<1>2. Unanswered(Unused) = {}
  BY DEF Unanswered, Unused, Empty
<1> QED BY <1>1, <1>2 DEF Unanswered

(* The creation that is on its way is the only one.                        *)
LEMMA OneUnanswered ==
  ASSUME JobFlagsInv, page \in JobsPages
  PROVE  /\ ~page.creating => Unanswered(page.calls) = {}
         /\ \A s, t \in Slots : page.calls[s].kind = "create" /\ page.calls[t].kind = "create"
              => s = t
<1>1. Exactly(page.creating, page.calls, J!Creations) /\ page.creating \in BOOLEAN
  BY DEF JobFlagsInv, Flagged, JobsPages
<1>2. \A s \in Slots : page.calls[s].kind = "create" => s \in Waiting(page.calls, J!Creations)
  BY KindsOfJobs DEF Waiting
<1>3. \/ Waiting(page.calls, J!Creations) = {}
      \/ page.creating /\ \E s \in Slots : Waiting(page.calls, J!Creations) = {s}
  BY <1>1 DEF Exactly
<1> QED BY <1>2, <1>3 DEF Unanswered

LEMMA RoomLeft ==
  ASSUME JobFlagsInv, page \in JobsPages, J!RoomForJob
  PROVE  /\ page.stored < MaxJobs
         /\ Unanswered(page.calls) # {} => page.stored + 1 < MaxJobs
<1> DEFINE U == Unanswered(page.calls)
<1>1. {s \in J!InFlight(page.calls, {"create"}) : page.calls[s].answer = None} = U
  BY InFlightWaiting DEF Waiting, Unanswered
<1>2. page.stored + Cardinality(U) < MaxJobs
  BY <1>1, OneCardinality DEF J!RoomForJob
<1>3. U = {} \/ \E s \in Slots : U = {s}
  BY OneUnanswered DEF Unanswered
<1>4. page.stored \in Nat /\ MaxJobs \in Nat
  BY JobBounds DEF JobsPages
<1> HIDE DEF U
<1>5. ASSUME U = {}
      PROVE  page.stored < MaxJobs
  BY <1>2, <1>4, <1>5, FS_EmptySet
<1>6. ASSUME NEW s \in Slots, U = {s}
      PROVE  page.stored + 1 < MaxJobs
  BY <1>2, <1>4, <1>6, FS_Singleton
<1>7. page.stored + 1 < MaxJobs => page.stored < MaxJobs
  BY <1>4
<1> QED BY <1>3, <1>5, <1>6, <1>7 DEF U

LEMMA JobsSent ==
  ASSUME JobsTyped, Room(page.calls), NEW kind \in JobKinds, NEW ask \in J!Asks,
         kind = "create" => page.stored < MaxJobs
  PROVE  LET sent == J!Sent(page.calls, J!Request(kind, ask))
         IN /\ sent \in [Slots -> {Empty} \cup JobCalls]
            /\ Unanswered(sent) # {} => page.stored < MaxJobs
<1> DEFINE call == J!Request(kind, ask)
           sent == J!Sent(page.calls, call)
<1>1. Fit(page.calls, JobCalls)
  BY DEF JobsTyped, JobsPages, Fit
<1>2. call \in JobCalls /\ call.kind = kind
  BY JobRequest
<1> HIDE DEF call
<1>3. PICK s \in Slots : sent = Filled(page.calls, s, call)
  BY PlacedSlot, RequestsOfJobs
<1>4. sent \in [Slots -> {Empty} \cup JobCalls]
  BY <1>1, <1>2, <1>3, FitFilled DEF Fit
<1>5. kind # "create" => Unanswered(sent) \subseteq Unanswered(page.calls)
  BY <1>1, <1>2, <1>3, UnansweredFilled DEF Fit
<1> HIDE DEF sent
<1>6. Unanswered(sent) # {} => page.stored < MaxJobs
  BY <1>5 DEF JobsTyped
<1> QED BY <1>4, <1>6 DEF call, sent

(* A list, or the page of a job, just mounted with its first request.      *)
LEMMA JobsPageFresh ==
  ASSUME NEW kind \in {"list", "get"}
  PROVE  LET sent == J!Sent(J!NoCalls, J!Request(kind, J!FirstAsk))
         IN sent \in [Slots -> {Empty} \cup JobCalls] /\ Unanswered(sent) = {}
<1> DEFINE call == J!Request(kind, J!FirstAsk)
           sent == J!Sent(J!NoCalls, call)
<1>1. call \in JobCalls /\ call.kind = kind
  BY JobRequest, FirstAskIsAsk, KindsOfJobs
<1> HIDE DEF call
<1>2. sent = Placed(Unused, call)
  BY RequestsOfJobs
<1>3. Fit(Unused, JobCalls) /\ Room(Unused)
  BY FitUnused
<1>4. PICK s \in Slots : sent = Filled(Unused, s, call)
  BY <1>2, <1>3, PlacedSlot
<1>5. sent \in [Slots -> {Empty} \cup JobCalls]
  BY <1>1, <1>3, <1>4, FitFilled DEF Fit
<1>6. Unanswered(sent) = {}
  BY <1>1, <1>3, <1>4, UnansweredFilled DEF Fit
<1> QED BY <1>5, <1>6 DEF sent, call

LEMMA JobsPageMounted ==
  ASSUME page' \in J!Mounts
  PROVE  JobsTyped'
<1>1. PICK n \in 0 .. MaxJobs : page' = J!Mounted(n)
  BY DEF J!Mounts
<1> DEFINE sent == J!Sent(J!NoCalls, J!Request("list", J!FirstAsk))
<1>2. sent \in [Slots -> {Empty} \cup JobCalls] /\ Unanswered(sent) = {}
  BY JobsPageFresh
<1>3. page' = [ask |-> J!FirstAsk, view |-> J!NoView, loading |-> TRUE, creating |-> FALSE,
               job |-> J!NoJob, calls |-> sent, stored |-> n, changes |-> 0, failures |-> 0]
  BY <1>1 DEF J!Mounted
<1> HIDE DEF sent
<1>4. J!NoView \in JobViews /\ J!NoJob \in Jobs
  BY FirstAskIsAsk, JobBounds DEF J!NoView, J!NoJob, JobViews, Jobs
<1> QED BY <1>2, <1>3, <1>4, FirstAskIsAsk DEF JobsTyped, JobsPages

(* A list is asked for: the question and what is counted may change.       *)
LEMMA JobsLoading ==
  ASSUME JobsTyped, Room(page.calls), NEW ask \in J!Asks, NEW kept \in J!Asks,
         NEW changes \in Nat,
         page' = [J!Loading(page, ask) EXCEPT !.ask = kept, !.changes = changes]
  PROVE  JobsTyped'
<1> DEFINE sent == J!Sent(page.calls, J!Request("list", ask))
<1>1. /\ sent \in [Slots -> {Empty} \cup JobCalls]
      /\ Unanswered(sent) # {} => page.stored < MaxJobs
  BY JobsSent, KindsOfJobs
<1>2. page' = [page EXCEPT !.loading = TRUE, !.calls = sent, !.ask = kept, !.changes = changes]
  BY DEF J!Loading
<1> HIDE DEF sent
<1>3. page' \in JobsPages
  BY <1>1, <1>2 DEF JobsTyped, JobsPages
<1>4. page'.calls = sent /\ page'.stored = page.stored
  BY <1>2 DEF JobsTyped, JobsPages
<1> QED BY <1>1, <1>3, <1>4 DEF JobsTyped

LEMMA JobsRestated ==
  ASSUME JobsTyped, NEW ask \in J!Asks, J!Reask(ask)
  PROVE  JobsTyped'
<1> DEFINE changes == page.changes + 1
<1>1. changes \in Nat
  BY DEF JobsTyped, JobsPages
<1>2. Room(page.calls)
  BY RequestsOfJobs DEF J!Reask
<1>3. page' = [J!Loading(page, ask) EXCEPT !.ask = ask, !.changes = changes]
  BY DEF J!Reask, J!Loading
<1> QED BY <1>1, <1>2, <1>3, JobsLoading

LEMMA JobsTurned ==
  ASSUME JobsTyped, J!FirstPage \/ J!PrevPage \/ J!NextPage \/ J!LastPage
  PROVE  JobsTyped'
<1> DEFINE at == page.ask.page
<1>1. /\ page.ask \in J!Asks /\ at \in Nat \ {0} /\ page.ask.size \in JobSizes
      /\ page.view.total \in Nat
  BY JobBounds DEF JobsTyped, JobsPages, JobViews, J!Asks
<1>2. J!PageCount \in Nat \ {0}
  <2>1. page.ask.size \in Nat \ {0}
    BY <1>1, ConsoleAssumption
  <2> QED BY <1>1, <2>1, PagesGrow DEF J!PageCount
<1>3. ASSUME NEW n \in Nat \ {0}, J!GoTo(n) PROVE JobsTyped'
  <2>1. [page.ask EXCEPT !.page = n] \in J!Asks
    BY <1>1 DEF J!Asks
  <2> QED BY <1>3, <2>1, JobsRestated DEF J!GoTo
<1>4. CASE J!FirstPage
  BY <1>3, <1>4 DEF J!FirstPage
<1>5. CASE J!PrevPage
  <2>1. at - 1 \in Nat \ {0}
    BY <1>1, <1>5 DEF J!PrevPage
  <2> QED BY <1>3, <1>5, <2>1 DEF J!PrevPage
<1>6. CASE J!NextPage
  <2> DEFINE next == IF at < J!PageCount THEN at + 1 ELSE J!PageCount
  <2>1. next \in Nat \ {0}
    BY <1>1, <1>2
  <2>2. J!GoTo(next)
    BY <1>6 DEF J!NextPage
  <2> QED BY <1>3, <2>1, <2>2
<1>7. CASE J!LastPage
  BY <1>2, <1>3, <1>7 DEF J!LastPage
<1> QED BY <1>4, <1>5, <1>6, <1>7

LEMMA JobsServed ==
  ASSUME JobsTyped, JobFlagsInv, NEW s \in Slots, J!Serve(s)
  PROVE  JobsTyped'
<1> DEFINE c == page.calls[s]
           stored == page.stored + IF c.kind = "create" THEN 1 ELSE 0
           answer == IF J!OnList THEN stored ELSE page.job.id
           served == [c EXCEPT !.answer = answer]
           calls == Filled(page.calls, s, served)
<1>1. c \in JobCalls /\ c.answer = None /\ page.stored \in 0 .. MaxJobs
      /\ page.job \in Jobs /\ page.calls \in [Slots -> {Empty} \cup JobCalls]
  BY RequestsOfJobs DEF J!Serve, JobsTyped, JobsPages
<1>2. c.kind = "create" => page.stored < MaxJobs
  BY <1>1 DEF JobsTyped, Unanswered
<1>3. stored \in 0 .. MaxJobs
  BY <1>1, <1>2, JobBounds
<1>4. page' = [page EXCEPT !.stored = stored, !.calls = calls]
  BY DEF J!Serve, Filled, JobsTyped, JobsPages
<1>5. c.kind # "create" => stored = page.stored
  BY <1>1
<1> HIDE DEF stored
<1>6. answer \in 0 .. MaxJobs
  BY <1>1, <1>3 DEF Jobs
<1> HIDE DEF answer
<1>7. served \in JobCalls /\ served.answer # None
  BY <1>1, <1>6, JobBounds DEF JobCalls
<1> HIDE DEF served
<1>8. calls \in [Slots -> {Empty} \cup JobCalls]
  BY <1>1, <1>7, FitFilled DEF Fit
<1>9. Unanswered(calls) \subseteq Unanswered(page.calls)
  BY <1>1, <1>7, UnansweredFilled
<1>10. c.kind = "create" => Unanswered(calls) = {}
  <2>1. s \notin Unanswered(calls)
    BY <1>1, <1>7 DEF Unanswered, Filled
  <2>2. c.kind = "create" => \A t \in Unanswered(page.calls) : t = s
    BY OneUnanswered DEF Unanswered, JobsTyped
  <2> QED BY <1>9, <2>1, <2>2
<1> HIDE DEF calls, c
<1>11. page' \in JobsPages /\ page'.calls = calls /\ page'.stored = stored
  BY <1>3, <1>4, <1>8 DEF JobsTyped, JobsPages
<1>12. Unanswered(calls) # {} => stored < MaxJobs
  BY <1>5, <1>9, <1>10 DEF JobsTyped
<1> QED BY <1>11, <1>12 DEF JobsTyped

(* A call ends or becomes another, which is no creation.                   *)
LEMMA JobsFinished ==
  ASSUME JobsTyped, NEW s \in Slots, NEW c \in {Empty} \cup JobCalls, c.kind # "create",
         NEW loading \in BOOLEAN, NEW creating \in BOOLEAN, NEW view \in JobViews,
         NEW job \in Jobs, NEW failures \in Nat,
         page' = [page EXCEPT !.calls = Filled(page.calls, s, c), !.loading = loading,
                    !.creating = creating, !.view = view, !.job = job, !.failures = failures]
  PROVE  JobsTyped'
<1> DEFINE calls == Filled(page.calls, s, c)
<1>1. page.calls \in [Slots -> {Empty} \cup JobCalls]
  BY DEF JobsTyped, JobsPages
<1>2. calls \in [Slots -> {Empty} \cup JobCalls]
  BY <1>1, FitFilled DEF Fit
<1>3. Unanswered(calls) \subseteq Unanswered(page.calls)
  BY <1>1, UnansweredFilled
<1>4. page' = [page EXCEPT !.calls = calls, !.loading = loading,
                 !.creating = creating, !.view = view, !.job = job, !.failures = failures]
  OBVIOUS
<1> HIDE DEF calls
<1>5. page' \in JobsPages /\ page'.calls = calls /\ page'.stored = page.stored
  BY <1>2, <1>4 DEF JobsTyped, JobsPages
<1> QED BY <1>3, <1>5 DEF JobsTyped

LEMMA JobsResumed ==
  ASSUME JobsTyped, NEW s \in Slots, J!Deliver(s)
  PROVE  JobsTyped'
<1> DEFINE c == page.calls[s]
<1>1. c \in JobCalls /\ c.answer # None
  BY RequestsOfJobs DEF J!Deliver, J!DeliverList, J!DeliverCreate, J!DeliverJob, J!Arrived,
     JobsTyped, JobsPages
<1>2. c.ask \in J!Asks /\ c.answer \in 0 .. MaxJobs
  BY <1>1 DEF JobCalls
<1>3. /\ page.loading \in BOOLEAN /\ page.creating \in BOOLEAN /\ page.view \in JobViews
      /\ page.job \in Jobs /\ page.failures \in Nat
      /\ page = [ask |-> page.ask, view |-> page.view, loading |-> page.loading,
                 creating |-> page.creating, job |-> page.job, calls |-> page.calls,
                 stored |-> page.stored, changes |-> page.changes, failures |-> page.failures]
  BY DEF JobsTyped, JobsPages
<1>4. Empty.kind # "create"
  BY DEF Empty
<1>5. CASE J!DeliverList(s)
  <2> DEFINE view == [ask |-> c.ask, total |-> c.answer]
             creating == page.creating /\ c.kind # "reload"
  <2>1. view \in JobViews /\ creating \in BOOLEAN
    BY <1>2 DEF JobViews
  <2>2. page' = [page EXCEPT !.calls = Filled(page.calls, s, Empty), !.loading = FALSE,
                             !.view = view, !.creating = creating]
    BY <1>5, RequestsOfJobs DEF J!DeliverList
  <2> HIDE DEF view, creating
  <2>3. page' = [page EXCEPT !.calls = Filled(page.calls, s, Empty), !.loading = FALSE,
                   !.creating = creating, !.view = view, !.job = page.job,
                   !.failures = page.failures]
    BY <1>3, <2>2
  <2> QED BY <1>3, <1>4, <2>1, <2>3, JobsFinished
<1>6. CASE J!DeliverCreate(s)
  <2> DEFINE next == J!Request("reload", c.ask)
  <2>1. next \in JobCalls /\ next.kind = "reload"
    BY <1>2, JobRequest, KindsOfJobs
  <2>2. page' = [page EXCEPT !.calls = Filled(page.calls, s, next), !.loading = TRUE]
    BY <1>6 DEF J!DeliverCreate, Filled, JobsTyped, JobsPages
  <2> HIDE DEF next
  <2>3. page' = [page EXCEPT !.calls = Filled(page.calls, s, next), !.loading = TRUE,
                   !.creating = page.creating, !.view = page.view, !.job = page.job,
                   !.failures = page.failures]
    BY <1>3, <2>2
  <2> QED BY <1>3, <2>1, <2>3, JobsFinished
<1>7. CASE J!DeliverJob(s)
  <2> DEFINE job == [page.job EXCEPT !.got = c.answer, !.loading = FALSE]
  <2>1. job \in Jobs
    BY <1>2, <1>3 DEF Jobs
  <2>2. page' = [page EXCEPT !.calls = Filled(page.calls, s, Empty), !.job = job]
    BY <1>7, RequestsOfJobs DEF J!DeliverJob
  <2> HIDE DEF job
  <2>3. page' = [page EXCEPT !.calls = Filled(page.calls, s, Empty), !.loading = page.loading,
                   !.creating = page.creating, !.view = page.view, !.job = job,
                   !.failures = page.failures]
    BY <1>3, <2>2
  <2> QED BY <1>3, <1>4, <2>1, <2>3, JobsFinished
<1> QED BY <1>5, <1>6, <1>7 DEF J!Deliver

LEMMA JobsPageStep ==
  ASSUME JobsTyped, JobFlagsInv, J!Next
  PROVE  JobsTyped'
<1>1. /\ page.ask \in J!Asks /\ page.changes \in Nat /\ page.failures \in Nat
      /\ page.stored \in 0 .. MaxJobs /\ page.job \in Jobs
      /\ page.view \in JobViews /\ page.loading \in BOOLEAN /\ page.creating \in BOOLEAN
  BY DEF JobsTyped, JobsPages
<1>2. CASE J!Poll \/ J!Refresh
  <2>1. Room(page.calls) /\ page' = J!Loading(page, page.ask)
    BY <1>2, RequestsOfJobs DEF J!Poll, J!Refresh
  <2>2. page' = [J!Loading(page, page.ask) EXCEPT !.ask = page.ask, !.changes = page.changes]
    BY <2>1 DEF J!Loading, JobsTyped, JobsPages
  <2> QED BY <1>1, <2>1, <2>2, JobsLoading
<1>3. ASSUME NEW f \in J!SortFields, J!ToggleSort(f) PROVE JobsTyped'
  <2> DEFINE dir == IF f = page.ask.field /\ page.ask.dir = "desc" THEN "asc" ELSE "desc"
             ask == [page.ask EXCEPT !.page = 1, !.field = f, !.dir = dir]
  <2>1. dir \in J!Dirs
    BY DEF J!Dirs
  <2>2. J!Reask(ask)
    BY <1>3 DEF J!ToggleSort
  <2> HIDE DEF dir
  <2>3. ask \in J!Asks
    BY <1>1, <2>1, OrderAsked
  <2> QED BY <2>2, <2>3, JobsRestated
<1>4. ASSUME NEW n \in JobSizes, J!SetPageSize(n) PROVE JobsTyped'
  BY <1>1, <1>4, SizeAsked, JobsRestated DEF J!SetPageSize
<1>5. CASE J!CreateJob
  <2> DEFINE sent == J!Sent(page.calls, J!Request("create", page.ask))
  <2>1. Room(page.calls) /\ page.stored < MaxJobs
    BY <1>5, RequestsOfJobs, RoomLeft DEF J!CreateJob, J!Submit, JobsTyped
  <2>2. sent \in [Slots -> {Empty} \cup JobCalls]
    BY <1>1, <2>1, JobsSent, KindsOfJobs
  <2>3. page' = [page EXCEPT !.creating = TRUE, !.calls = sent]
    BY <1>5 DEF J!CreateJob, J!Submit
  <2> HIDE DEF sent
  <2>4. page' \in JobsPages /\ page'.stored = page.stored
    BY <2>2, <2>3 DEF JobsTyped, JobsPages
  <2> QED BY <2>1, <2>4 DEF JobsTyped
<1>6. ASSUME NEW id \in 1 .. MaxJobs, J!OpenJob(id) PROVE JobsTyped'
  <2> DEFINE sent == J!Sent(J!NoCalls, J!Request("get", J!FirstAsk))
             job == [id |-> id, got |-> 0, loading |-> TRUE]
  <2>1. sent \in [Slots -> {Empty} \cup JobCalls] /\ Unanswered(sent) = {}
    BY JobsPageFresh
  <2>2. job \in Jobs /\ J!NoView \in JobViews
    BY FirstAskIsAsk, JobBounds DEF J!NoView, JobViews, Jobs
  <2>3. page' = [page EXCEPT !.ask = J!FirstAsk, !.view = J!NoView, !.loading = FALSE,
                             !.creating = FALSE, !.job = job, !.calls = sent]
    BY <1>6 DEF J!OpenJob
  <2> HIDE DEF sent, job
  <2>4. page' \in JobsPages /\ page'.calls = sent
    BY <2>1, <2>2, <2>3, FirstAskIsAsk DEF JobsTyped, JobsPages
  <2> QED BY <2>1, <2>4 DEF JobsTyped
<1>7. CASE J!Back
  <2> DEFINE sent == J!Sent(J!NoCalls, J!Request("list", J!FirstAsk))
             changes == page.changes + 1
  <2>1. sent \in [Slots -> {Empty} \cup JobCalls] /\ Unanswered(sent) = {}
    BY JobsPageFresh
  <2>2. J!NoJob \in Jobs /\ J!NoView \in JobViews /\ changes \in Nat
    BY <1>1, FirstAskIsAsk, JobBounds DEF J!NoView, J!NoJob, JobViews, Jobs
  <2>3. page' = [ask |-> J!FirstAsk, view |-> J!NoView, loading |-> TRUE, creating |-> FALSE,
                 job |-> J!NoJob, calls |-> sent, stored |-> page.stored,
                 changes |-> changes, failures |-> page.failures]
    BY <1>7 DEF J!Back, J!Mounted
  <2> HIDE DEF sent, changes
  <2>4. page' \in JobsPages /\ page'.calls = sent
    BY <1>1, <2>1, <2>2, <2>3, FirstAskIsAsk DEF JobsPages
  <2> QED BY <2>1, <2>4 DEF JobsTyped
<1>8. CASE J!AddElsewhere
  <2> DEFINE stored == page.stored + 1
  <2>1. stored \in 0 .. MaxJobs
    BY <1>1, <1>8, RoomLeft, JobBounds DEF J!AddElsewhere, JobsTyped
  <2>2. Unanswered(page.calls) # {} => stored < MaxJobs
    BY <1>8, RoomLeft DEF J!AddElsewhere, JobsTyped
  <2>3. page' = [page EXCEPT !.stored = stored]
    BY <1>8 DEF J!AddElsewhere
  <2> HIDE DEF stored
  <2>4. page' \in JobsPages /\ page'.calls = page.calls /\ page'.stored = stored
    BY <2>1, <2>3 DEF JobsTyped, JobsPages
  <2> QED BY <2>2, <2>4 DEF JobsTyped
<1>9. ASSUME NEW s \in Slots, J!Fail(s) PROVE JobsTyped'
  <2> DEFINE failures == page.failures + 1
             loading == page.loading /\ page.calls[s].kind \notin J!Lists
             creating == page.creating /\ page.calls[s].kind \notin J!Creations
             job == [page.job EXCEPT !.loading = @ /\ page.calls[s].kind # "get"]
  <2>1. /\ failures \in Nat /\ loading \in BOOLEAN /\ creating \in BOOLEAN
        /\ Empty.kind # "create"
    BY <1>1 DEF Empty
  <2>2. job \in Jobs
    BY <1>1 DEF Jobs
  <2>3. page' = [page EXCEPT !.calls = Filled(page.calls, s, Empty), !.loading = loading,
                   !.creating = creating, !.job = job, !.failures = failures]
    BY <1>9, RequestsOfJobs DEF J!Fail
  <2> HIDE DEF failures, loading, creating, job
  <2>4. page' = [page EXCEPT !.calls = Filled(page.calls, s, Empty), !.loading = loading,
                   !.creating = creating, !.view = page.view, !.job = job,
                   !.failures = failures]
    BY <2>3 DEF JobsTyped, JobsPages
  <2> QED BY <1>1, <2>1, <2>2, <2>4, JobsFinished
<1>10. ASSUME NEW s \in Slots, J!Serve(s) \/ J!Deliver(s) PROVE JobsTyped'
  BY <1>10, JobsServed, JobsResumed
<1> QED
  BY <1>2, <1>3, <1>4, <1>5, <1>6, <1>7, <1>8, <1>9, <1>10, JobsTurned DEF J!Next

-----------------------------------------------------------------------------
(* DeploymentsPanel: a deployment stays in the table, so a rollout, a row  *)
(* and a rollback are of one that is there.                                *)
RolloutKinds == R!Loads \cup {"start", "rollback", "logs"}

ReadFrom(rows, db) == \A d \in R!Ids : rows[d] # None => db[d] \in R!Deployments

RolloutCalls(db) ==
  {c \in [kind : RolloutKinds, cluster : Clusters, id : R!Ids \cup {None},
          served : BOOLEAN, answer : R!Tables \cup {None}] :
     /\ (c.kind \in R!Loads /\ c.served => c.answer \in R!Tables /\ ReadFrom(c.answer, db))
     /\ (c.kind = "rollback" => c.id \in R!Ids /\ db[c.id] \in R!Deployments)}

RolloutsRecords ==
  [db : R!Tables, rollout : R!Rollouts, stuck : SUBSET R!Ids, shown : R!Tables,
   selected : Clusters \cup {None}, loading : BOOLEAN, creating : BOOLEAN,
   logs : R!Ids \cup {None},
   calls : [Slots -> {Empty} \cup UNION {RolloutCalls(db) : db \in R!Tables}],
   changes : Nat, failures : Nat]

RolloutsPages ==
  {p \in RolloutsRecords : /\ ReadFrom(p.shown, p.db) /\ ReadFrom(p.rollout, p.db)
                           /\ Fit(p.calls, RolloutCalls(p.db))}

LEMMA RequestsOfRollouts ==
  ASSUME NEW calls, NEW c, NEW s
  PROVE  /\ R!Idle = Empty /\ R!NoCalls = Unused
         /\ R!HasRoom(calls) <=> Room(calls)
         /\ R!Sent(calls, c) = Placed(calls, c)
         /\ R!Done(calls, s) = Filled(calls, s, Empty)
BY DEF R!Idle, R!NoCalls, R!HasRoom, R!Sent, R!Done, Empty, Unused, Room, Placed, Filled

LEMMA KindsOfRollouts ==
  /\ "list" \in R!Loads /\ R!Loads \subseteq RolloutKinds /\ "rollback" \notin R!Loads
  /\ "start" \notin R!Loads /\ "logs" \notin R!Loads
  /\ {"start", "rollback", "logs"} \subseteq RolloutKinds
  /\ DOMAIN R!Reload = {"start", "rollback"}
  /\ \A kind \in DOMAIN R!Reload : R!Reload[kind] \in R!Loads
<1>1. R!Reload = [start |-> "start reload", rollback |-> "rollback reload"]
  BY Zenon DEF R!Reload
<1>2. DOMAIN R!Reload = {"start", "rollback"}
  BY <1>1, Zenon
<1>3. R!Reload["start"] = "start reload" /\ R!Reload["rollback"] = "rollback reload"
  BY <1>1, Zenon
<1>4. \A kind \in DOMAIN R!Reload : R!Reload[kind] \in R!Loads
  BY <1>2, <1>3, Zenon DEF R!Loads
<1>5. "rollback" \notin R!Loads /\ "start" \notin R!Loads /\ "logs" \notin R!Loads
  BY Zenon DEF R!Loads
<1>6. "list" \in R!Loads
  BY Zenon DEF R!Loads
<1> QED BY <1>2, <1>4, <1>5, <1>6, Zenon DEF RolloutKinds

LEMMA RolloutBounds ==
  /\ Steps \in Nat /\ Monitor \in 1 .. Steps /\ R!Pause \in Nat /\ R!Pause = Steps + 2
  /\ None \notin Nat /\ R!Ids \subseteq Nat
BY ConsoleAssumption, Bounds DEF R!Pause, R!Ids

LEMMA RolloutRequest ==
  ASSUME NEW db, NEW kind \in RolloutKinds, NEW cluster \in Clusters, NEW id \in R!Ids \cup {None},
         kind = "rollback" => id \in R!Ids /\ db[id] \in R!Deployments
  PROVE  R!Request(kind, cluster, id) \in RolloutCalls(db)
BY DEF R!Request, RolloutCalls

LEMMA RolloutsPageTyped ==
  ASSUME page \in RolloutsPages
  PROVE  R!TypeOK
<1>1. ASSUME NEW s \in Slots
      PROVE  \/ page.calls[s] = R!Idle
             \/ /\ page.calls[s].kind \in RolloutKinds
                /\ page.calls[s].cluster \in Clusters
                /\ page.calls[s].id \in R!Ids \cup {None}
                /\ page.calls[s].answer \in R!Tables \cup {None}
  BY RequestsOfRollouts DEF RolloutsPages, Fit, RolloutCalls
<1>2. /\ page.db \in R!Tables /\ page.shown \in R!Tables
      /\ page.selected \in Clusters \cup {None}
      /\ page.loading \in BOOLEAN /\ page.creating \in BOOLEAN
      /\ page.logs \in R!Ids \cup {None} /\ page.stuck \subseteq R!Ids
      /\ page.rollout \in R!Rollouts
  BY DEF RolloutsPages, RolloutsRecords
<1> QED BY <1>1, <1>2, Zenon DEF R!TypeOK, RolloutKinds

(* The requests are read against the table there is.                       *)
LEMMA RolloutsRecord ==
  ASSUME NEW db \in R!Tables, NEW calls, Fit(calls, RolloutCalls(db))
  PROVE  calls \in [Slots -> {Empty} \cup UNION {RolloutCalls(x) : x \in R!Tables}]
<1>1. RolloutCalls(db) \subseteq UNION {RolloutCalls(x) : x \in R!Tables}
  OBVIOUS
<1> QED BY <1>1 DEF Fit

LEMMA RolloutsPageMounted ==
  ASSUME page' \in R!Mounts
  PROVE  page' \in RolloutsPages
<1> DEFINE none == [d \in R!Ids |-> None]
<1>1. PICK n \in 0 .. MaxDeployments - 1 :
        \E kept \in [1 .. n -> Clusters], left \in [1 .. n -> R!Left] :
          page' = R!Mounted(kept, left)
  <2> DEFINE found(n) == {R!Mounted(kept, left) : kept \in [1 .. n -> Clusters],
                                                 left \in [1 .. n -> R!Left]}
  <2>1. PICK n \in 0 .. MaxDeployments - 1 : page' \in found(n)
    BY DEF R!Mounts
  <2>2. \E kept \in [1 .. n -> Clusters], left \in [1 .. n -> R!Left] :
          page' = R!Mounted(kept, left)
    BY <2>1, SMT
  <2> QED BY <2>2
<1>2. PICK kept \in [1 .. n -> Clusters], left \in [1 .. n -> R!Left] :
        page' = R!Mounted(kept, left)
  BY <1>1, Zenon
<1> DEFINE db == [d \in R!Ids |-> IF d \in DOMAIN kept
                    THEN [cluster |-> kept[d], status |-> left[d][1]] ELSE None]
           rollout == [d \in R!Ids |-> IF d \in DOMAIN kept THEN left[d][2] ELSE None]
           stuck == {d \in DOMAIN kept : left[d][2] = None /\ left[d][1] \notin R!Ended}
<1>3. /\ page'.db = db /\ page'.rollout = rollout /\ page'.stuck = stuck
      /\ page' = [db |-> db, rollout |-> rollout, stuck |-> stuck,
                  shown |-> none, selected |-> None, loading |-> FALSE, creating |-> FALSE,
                  logs |-> None, calls |-> Unused, changes |-> 0, failures |-> 0]
  BY <1>2, RequestsOfRollouts DEF R!Mounted, R!Empty
<1>4. n \in Nat /\ DOMAIN kept = 1 .. n /\ 1 .. n \subseteq R!Ids
  BY Bounds DEF R!Ids
<1>5. ASSUME NEW d \in 1 .. n
      PROVE  /\ kept[d] \in Clusters /\ left[d][1] \in R!RolloutStatuses
             /\ left[d][2] \in {None} \cup 0 .. R!Pause
  <2>1. left[d] \in R!Left /\ kept[d] \in Clusters
    OBVIOUS
  <2>2. 0 \in 0 .. R!Pause
    BY RolloutBounds
  <2> QED BY <2>1, <2>2 DEF R!Left, R!RolloutStatuses, R!Ended
<1>6. db \in R!Tables
  BY <1>4, <1>5 DEF R!Tables, R!Deployments
<1>7. rollout \in R!Rollouts /\ stuck \in SUBSET R!Ids
  BY <1>4, <1>5 DEF R!Rollouts
<1>8. ReadFrom(none, db) /\ ReadFrom(rollout, db)
  BY <1>4, <1>5 DEF ReadFrom, R!Deployments
<1>9. none \in R!Tables
  BY DEF R!Tables
<1> HIDE DEF none, db, rollout, stuck
<1>10. Fit(Unused, RolloutCalls(db))
  BY FitUnused
<1>11. page' \in RolloutsRecords
  BY <1>3, <1>6, <1>7, <1>9, <1>10, RolloutsRecord DEF RolloutsRecords
<1> QED BY <1>3, <1>8, <1>10, <1>11 DEF RolloutsPages

LEMMA RolloutsSettled ==
  ASSUME NEW p \in RolloutsPages, NEW s \in Slots, NEW c \in {Empty} \cup RolloutCalls(p.db)
  PROVE  [p EXCEPT !.calls = Filled(p.calls, s, c)] \in RolloutsPages
<1> DEFINE calls == Filled(p.calls, s, c)
           q == [p EXCEPT !.calls = calls]
<1>1. Fit(calls, RolloutCalls(p.db))
  BY FitFilled DEF RolloutsPages
<1>2. calls \in [Slots -> {Empty} \cup UNION {RolloutCalls(x) : x \in R!Tables}]
  BY <1>1, RolloutsRecord DEF RolloutsPages, RolloutsRecords
<1> HIDE DEF calls
<1>3. /\ q \in RolloutsRecords
      /\ q.db = p.db /\ q.shown = p.shown /\ q.rollout = p.rollout /\ q.calls = calls
  BY <1>2 DEF RolloutsPages, RolloutsRecords
<1> HIDE DEF q
<1>4. q \in RolloutsPages
  BY <1>1, <1>3 DEF RolloutsPages
<1> QED BY <1>4 DEF q, calls

(* What is written to the table takes no deployment out of it.             *)
LEMMA RolloutsWritten ==
  ASSUME NEW p \in RolloutsPages, NEW db \in R!Tables, NEW rollout \in R!Rollouts,
         \A d \in R!Ids : p.db[d] \in R!Deployments => db[d] \in R!Deployments,
         ReadFrom(rollout, db)
  PROVE  [p EXCEPT !.db = db, !.rollout = rollout] \in RolloutsPages
<1> DEFINE q == [p EXCEPT !.db = db, !.rollout = rollout]
<1>1. ReadFrom(p.shown, db)
  BY DEF RolloutsPages, ReadFrom
<1>2. RolloutCalls(p.db) \subseteq RolloutCalls(db)
  BY DEF RolloutCalls, ReadFrom
<1>3. Fit(p.calls, RolloutCalls(db))
  BY <1>2 DEF RolloutsPages, Fit
<1>4. /\ q \in RolloutsRecords
      /\ q.db = db /\ q.shown = p.shown /\ q.rollout = rollout /\ q.calls = p.calls
  BY DEF RolloutsPages, RolloutsRecords
<1> HIDE DEF q
<1>5. q \in RolloutsPages
  BY <1>1, <1>3, <1>4 DEF RolloutsPages
<1> QED BY <1>5 DEF q

LEMMA RolloutsFields ==
  ASSUME NEW p \in RolloutsPages
  PROVE  /\ p.stuck \in SUBSET R!Ids /\ p.shown \in R!Tables /\ ReadFrom(p.shown, p.db)
         /\ p.selected \in Clusters \cup {None} /\ p.loading \in BOOLEAN
         /\ p.creating \in BOOLEAN /\ p.logs \in R!Ids \cup {None}
         /\ p.changes \in Nat /\ p.failures \in Nat
         /\ p.db \in R!Tables /\ p.rollout \in R!Rollouts /\ ReadFrom(p.rollout, p.db)
         /\ DOMAIN p.calls = Slots
         /\ p = [db |-> p.db, rollout |-> p.rollout, stuck |-> p.stuck, shown |-> p.shown,
                 selected |-> p.selected, loading |-> p.loading, creating |-> p.creating,
                 logs |-> p.logs, calls |-> p.calls, changes |-> p.changes,
                 failures |-> p.failures]
BY DEF RolloutsPages, RolloutsRecords

LEMMA RolloutsStarted ==
  ASSUME page \in RolloutsPages, R!MayStart, NEW call \in RolloutCalls(page.db)
  PROVE  /\ R!Started(call) \in RolloutsPages
         /\ R!Started(call).db = page.db
<1>1. Fit(page.calls, RolloutCalls(page.db)) /\ Room(page.calls)
  BY RequestsOfRollouts DEF R!MayStart, RolloutsPages
<1>2. PICK s \in Slots : Placed(page.calls, call) = Filled(page.calls, s, call)
  BY <1>1, PlacedSlot
<1> DEFINE p == [page EXCEPT !.calls = Filled(page.calls, s, call)]
           changes == page.changes + 1
<1>3. p \in RolloutsPages
  BY RolloutsSettled
<1>4. R!Started(call) = [p EXCEPT !.changes = changes]
  BY <1>2, RequestsOfRollouts DEF R!Started
<1>5. changes \in Nat
  BY RolloutsFields
<1>6. p.db = page.db
  BY RolloutsFields
<1> HIDE DEF p, changes
<1> QED BY <1>3, <1>4, <1>5, <1>6 DEF RolloutsPages, RolloutsRecords

LEMMA RolloutsServed ==
  ASSUME page \in RolloutsPages, NEW s \in Slots, R!Serve(s)
  PROVE  page' \in RolloutsPages
<1> DEFINE c == page.calls[s]
           acted == [c EXCEPT !.served = TRUE]
           filled == [page EXCEPT !.calls = Filled(page.calls, s, acted)]
<1>1. c \in RolloutCalls(page.db)
  BY RequestsOfRollouts DEF R!Serve, RolloutsPages, Fit
<1>2. /\ page.db \in R!Tables /\ page.rollout \in R!Rollouts
      /\ ReadFrom(page.rollout, page.db) /\ DOMAIN page.calls = Slots
  BY RolloutsFields
<1>3. [page EXCEPT !.calls[s].served = TRUE] = filled
  BY <1>2 DEF Filled, RolloutsPages, RolloutsRecords
<1>4. c.kind \notin R!Loads => filled \in RolloutsPages
  <2>1. c.kind \notin R!Loads => acted \in RolloutCalls(page.db)
    BY <1>1 DEF RolloutCalls
  <2> HIDE DEF acted
  <2> QED BY <2>1, RolloutsSettled
<1>5. filled.db = page.db /\ filled.rollout = page.rollout
  BY DEF RolloutsPages, RolloutsRecords
<1>6. CASE c.kind = "start" /\ R!Unused # {}
           /\ LET d == CHOOSE e \in R!Unused : \A f \in R!Unused : e <= f IN
              page' = [[page EXCEPT !.calls[s].served = TRUE] EXCEPT !.rollout[d] = 0,
                         !.db[d] = [cluster |-> c.cluster, status |-> "pending"]]
  <2> DEFINE d == CHOOSE e \in R!Unused : \A f \in R!Unused : e <= f
             made == [cluster |-> c.cluster, status |-> "pending"]
             db == [page.db EXCEPT ![d] = made]
             rollout == [page.rollout EXCEPT ![d] = 0]
  <2>1. d \in R!Unused
    <3>1. R!Unused \in SUBSET Nat
      BY RolloutBounds DEF R!Unused
    <3>2. \E e \in R!Unused : \A f \in R!Unused : e <= f
      <4> HIDE DEF R!Unused
      <4> QED BY <1>6, <3>1, LeastNatural
    <3> QED BY <3>2
  <2>2. page' = [filled EXCEPT !.rollout[d] = 0, !.db[d] = made]
    BY <1>3, <1>6
  <2> HIDE DEF d
  <2>3. page' = [filled EXCEPT !.db = db, !.rollout = rollout]
    BY <1>5, <2>2
  <2>4. d \in R!Ids
    BY <2>1 DEF R!Unused
  <2>5. made \in R!Deployments
    BY <1>1 DEF RolloutCalls, R!Deployments, R!RolloutStatuses
  <2> HIDE DEF made
  <2>6. db \in R!Tables
    BY <1>2, <2>5 DEF R!Tables
  <2>7. \A e \in R!Ids : filled.db[e] \in R!Deployments => db[e] \in R!Deployments
    BY <1>2, <1>5, <2>5 DEF R!Tables
  <2>8. rollout \in R!Rollouts
    <3>1. 0 \in 0 .. R!Pause
      BY RolloutBounds
    <3> QED BY <1>2, <3>1 DEF R!Rollouts
  <2>9. ReadFrom(rollout, db)
    BY <1>2, <2>5 DEF ReadFrom, R!Tables, R!Rollouts
  <2>10. filled \in RolloutsPages
    BY <1>4, <1>6, KindsOfRollouts
  <2> HIDE DEF filled, db, rollout
  <2> QED BY <2>3, <2>6, <2>7, <2>8, <2>9, <2>10, RolloutsWritten
<1>7. CASE c.kind = "rollback"
           /\ page' = [[page EXCEPT !.calls[s].served = TRUE]
                         EXCEPT !.db[c.id].status = "rolled_back"]
  <2> DEFINE made == [page.db[c.id] EXCEPT !.status = "rolled_back"]
             db == [page.db EXCEPT ![c.id] = made]
  <2>1. page.db[c.id] \in R!Deployments
    BY <1>1, <1>7 DEF RolloutCalls
  <2>2. made \in R!Deployments
    BY <2>1 DEF R!Deployments, R!RolloutStatuses, R!Ended
  <2>3. page' = [filled EXCEPT !.db[c.id].status = "rolled_back"]
    BY <1>3, <1>7
  <2>4. page' = [filled EXCEPT !.db = db, !.rollout = page.rollout]
    <3>1. filled \in RolloutsPages
      BY <1>4, <1>7, KindsOfRollouts
    <3> HIDE DEF filled
    <3> QED BY <1>5, <2>3, <3>1 DEF RolloutsPages, RolloutsRecords
  <2> HIDE DEF made
  <2>5. db \in R!Tables
    BY <1>2, <2>2 DEF R!Tables
  <2>6. \A e \in R!Ids : page.db[e] \in R!Deployments => db[e] \in R!Deployments
    BY <1>2, <2>2 DEF R!Tables
  <2>7. ReadFrom(page.rollout, db)
    BY <1>2, <2>6 DEF ReadFrom
  <2>8. filled \in RolloutsPages
    BY <1>4, <1>7, KindsOfRollouts
  <2> HIDE DEF filled, db
  <2> QED BY <1>2, <1>5, <2>4, <2>5, <2>6, <2>7, <2>8, RolloutsWritten
<1>8. CASE c.kind = "logs" /\ page' = [page EXCEPT !.calls[s].served = TRUE]
  BY <1>3, <1>4, <1>8, KindsOfRollouts
<1>9. CASE c.kind \in R!Loads
           /\ page' = [[page EXCEPT !.calls[s].served = TRUE] EXCEPT !.calls[s].answer =
                [d \in R!Ids |-> IF page.db[d] # None /\ page.db[d].cluster = c.cluster
                                 THEN page.db[d] ELSE None]]
  <2> DEFINE rows == [d \in R!Ids |-> IF page.db[d] # None /\ page.db[d].cluster = c.cluster
                                      THEN page.db[d] ELSE None]
             read == [c EXCEPT !.served = TRUE, !.answer = rows]
  <2>1. rows \in R!Tables /\ ReadFrom(rows, page.db)
    BY <1>2 DEF R!Tables, ReadFrom
  <2>2. page' = [page EXCEPT !.calls = Filled(page.calls, s, read)]
    <3>1. page' = [filled EXCEPT !.calls[s].answer = rows]
      BY <1>3, <1>9
    <3> HIDE DEF rows
    <3>2. filled.calls = Filled(page.calls, s, acted)
      BY DEF RolloutsPages, RolloutsRecords
    <3>3. [filled.calls EXCEPT ![s].answer = rows] = Filled(page.calls, s, read)
      <4>1. read = [acted EXCEPT !.answer = rows]
        OBVIOUS
      <4> HIDE DEF acted, read, filled
      <4> QED BY <1>2, <3>2, <4>1 DEF Filled
    <3>4. page' = [filled EXCEPT !.calls = [filled.calls EXCEPT ![s].answer = rows]]
      BY <3>1
    <3> QED BY <3>3, <3>4
  <2> HIDE DEF rows
  <2>3. read \in RolloutCalls(page.db)
    BY <1>1, <1>9, <2>1, KindsOfRollouts DEF RolloutCalls
  <2> HIDE DEF read
  <2> QED BY <2>2, <2>3, RolloutsSettled
<1> QED BY <1>6, <1>7, <1>8, <1>9 DEF R!Serve

LEMMA RolloutsSaved ==
  ASSUME page \in RolloutsPages, NEW d \in R!Ids, page.rollout[d] # None,
         NEW status \in R!RolloutStatuses, NEW next \in {None} \cup 0 .. R!Pause,
         R!Saved(d, status, next)
  PROVE  page' \in RolloutsPages
<1> DEFINE saved == [page.db[d] EXCEPT !.status = status]
           db == [page.db EXCEPT ![d] = saved]
           rollout == [page.rollout EXCEPT ![d] = next]
<1>1. /\ page.db \in R!Tables /\ page.rollout \in R!Rollouts
      /\ ReadFrom(page.rollout, page.db)
  BY RolloutsFields
<1>2. page.db[d] \in R!Deployments
  BY <1>1 DEF ReadFrom
<1>3. saved \in R!Deployments
  BY <1>2 DEF R!Deployments
<1>4. page' = [page EXCEPT !.db = db, !.rollout = rollout]
  BY DEF R!Saved, RolloutsPages, RolloutsRecords
<1> HIDE DEF saved
<1>5. db \in R!Tables /\ rollout \in R!Rollouts
  BY <1>1, <1>3 DEF R!Tables, R!Rollouts
<1>6. \A e \in R!Ids : page.db[e] \in R!Deployments => db[e] \in R!Deployments
  BY <1>1, <1>3 DEF R!Tables
<1>7. ReadFrom(rollout, db)
  BY <1>1, <1>3, <1>6 DEF ReadFrom, R!Rollouts, R!Tables
<1> HIDE DEF db, rollout
<1> QED BY <1>4, <1>5, <1>6, <1>7, RolloutsWritten

LEMMA RolloutsRolled ==
  ASSUME page \in RolloutsPages, NEW d \in R!Ids, R!Roll(d)
  PROVE  page' \in RolloutsPages
<1> DEFINE i == page.rollout[d]
<1>1. i \in {None} \cup 0 .. R!Pause
  BY RolloutsFields DEF R!Rollouts
<1>2. {"in-progress", "rolled_out", "failed", "rolled_back"} \subseteq R!RolloutStatuses
  BY DEF R!RolloutStatuses, R!Ended
<1>3. CASE R!Step(d)
  <2>1. i # None
    BY <1>3 DEF R!Step, R!Running
  <2>2. CASE i <= Steps
    <3>1. i + 1 \in 0 .. R!Pause
      BY <1>1, <2>1, <2>2, RolloutBounds
    <3>2. R!Saved(d, "in-progress", i + 1)
      BY <1>3, <2>2 DEF R!Step
    <3> QED BY <1>2, <2>1, <3>1, <3>2, RolloutsSaved
  <2>3. CASE ~(i <= Steps)
    <3>1. R!Saved(d, "rolled_out", None)
      BY <1>3, <2>3 DEF R!Step
    <3> QED BY <1>2, <2>1, <3>1, RolloutsSaved
  <2> QED BY <2>2, <2>3
<1>4. CASE R!Issue(d)
  <2>1. i # None /\ R!Saved(d, "failed", R!Pause)
    BY <1>4 DEF R!Issue, R!Running
  <2>2. R!Pause \in 0 .. R!Pause
    BY RolloutBounds
  <2> QED BY <1>2, <2>1, <2>2, RolloutsSaved
<1>5. CASE R!AutomaticRollback(d)
  <2>1. i # None /\ R!Saved(d, "rolled_back", None)
    BY <1>5, RolloutBounds DEF R!AutomaticRollback
  <2> QED BY <1>2, <2>1, RolloutsSaved
<1> QED BY <1>3, <1>4, <1>5 DEF R!Roll

(* A rollout goes on to another step, or ends, and no row changes.         *)
LEMMA RolloutsLost ==
  ASSUME page \in RolloutsPages, NEW rollout \in R!Rollouts, NEW stuck \in SUBSET R!Ids,
         \A d \in R!Ids : rollout[d] # None => page.rollout[d] # None,
         page' = [page EXCEPT !.failures = page.failures + 1, !.rollout = rollout,
                              !.stuck = stuck]
  PROVE  page' \in RolloutsPages
<1> DEFINE p == [page EXCEPT !.db = page.db, !.rollout = rollout]
           failures == page.failures + 1
<1>1. page.db \in R!Tables /\ ReadFrom(page.rollout, page.db) /\ failures \in Nat
  BY RolloutsFields
<1>2. ReadFrom(rollout, page.db)
  BY <1>1 DEF ReadFrom
<1>3. p \in RolloutsPages
  BY <1>1, <1>2, RolloutsWritten
<1>4. page' = [p EXCEPT !.failures = failures, !.stuck = stuck]
  BY DEF RolloutsPages, RolloutsRecords
<1> HIDE DEF p, failures
<1> QED BY <1>1, <1>3, <1>4 DEF RolloutsPages, RolloutsRecords

LEMMA RolloutsCut ==
  ASSUME page \in RolloutsPages, (\E d \in R!Ids : R!LoseSave(d)) \/ R!Restart
  PROVE  page' \in RolloutsPages
<1>1. /\ page.rollout \in R!Rollouts /\ page.stuck \in SUBSET R!Ids
  BY RolloutsFields
<1>2. ASSUME NEW d \in R!Ids, R!LoseSave(d) PROVE page' \in RolloutsPages
  <2> DEFINE i == page.rollout[d]
  <2>1. i \in 0 .. R!Pause
    BY <1>1, <1>2 DEF R!LoseSave, R!Rollouts
  <2>2. PICK next \in {None, i + 1, R!Pause} : R!Lost(d, next) /\ (next = i + 1 => i <= Steps \/ next = R!Pause)
    BY <1>2, <2>1, RolloutBounds DEF R!LoseSave
  <2>3. next \in {None} \cup 0 .. R!Pause
    BY <2>1, <2>2, RolloutBounds
  <2> DEFINE rollout == [page.rollout EXCEPT ![d] = next]
             stuck == IF next = None THEN page.stuck \cup {d} ELSE page.stuck
  <2>4. rollout \in R!Rollouts
    BY <1>1, <2>3 DEF R!Rollouts
  <2>5. \A e \in R!Ids : rollout[e] # None => page.rollout[e] # None
    BY <1>1, <1>2 DEF R!LoseSave, R!Rollouts
  <2>6. stuck \in SUBSET R!Ids
    BY <1>1
  <2>7. page' = [page EXCEPT !.failures = page.failures + 1, !.rollout = rollout,
                             !.stuck = stuck]
    BY <2>2 DEF R!Lost
  <2> HIDE DEF rollout, stuck
  <2> QED BY <2>4, <2>5, <2>6, <2>7, RolloutsLost
<1>3. CASE R!Restart
  <2> DEFINE rollout == [d \in R!Ids |-> None]
             stuck == page.stuck \cup {d \in R!Ids : page.rollout[d] # None}
  <2>1. rollout \in R!Rollouts /\ \A d \in R!Ids : rollout[d] = None
    BY DEF R!Rollouts
  <2>2. stuck \in SUBSET R!Ids
    BY <1>1
  <2>3. page' = [page EXCEPT !.failures = page.failures + 1, !.rollout = rollout,
                             !.stuck = stuck]
    BY <1>3 DEF R!Restart
  <2> HIDE DEF rollout, stuck
  <2> QED BY <2>1, <2>2, <2>3, RolloutsLost
<1> QED BY <1>2, <1>3

LEMMA RolloutsDelivered ==
  ASSUME page \in RolloutsPages, NEW s \in Slots, R!Deliver(s)
  PROVE  page' \in RolloutsPages
<1> DEFINE c == page.calls[s]
           done == [page EXCEPT !.calls = Filled(page.calls, s, Empty)]
<1>1. c \in RolloutCalls(page.db) /\ c.served
  <2>1. s \in R!InFlight(page.calls, {"logs"}) \cup R!InFlight(page.calls, DOMAIN R!Reload)
              \cup R!InFlight(page.calls, R!Loads)
        /\ c.served
    BY Zenon DEF R!Deliver, R!DeliverList, R!DeliverChange, R!DeliverLogs, R!Arrived
  <2>2. c.kind \in {"logs"} \cup DOMAIN R!Reload \cup R!Loads
    BY <2>1 DEF R!InFlight
  <2>3. "idle" \notin {"logs"} \cup DOMAIN R!Reload \cup R!Loads
    <3>1. "idle" \notin R!Loads
      BY Zenon DEF R!Loads
    <3> QED BY <3>1, KindsOfRollouts
  <2>4. c # Empty
    BY <2>2, <2>3 DEF Empty
  <2> QED BY <2>1, <2>4 DEF RolloutsPages, Fit
<1>2. done \in RolloutsPages /\ done.db = page.db
  <2>1. done \in RolloutsPages
    BY RolloutsSettled
  <2> QED BY <2>1 DEF RolloutsPages, RolloutsRecords
<1>3. CASE R!DeliverList(s)
  <2> DEFINE creating == page.creating /\ c.kind # "start reload"
             rows == c.answer
  <2>1. c.kind \in R!Loads
    BY <1>3 DEF R!DeliverList, R!Arrived, R!InFlight
  <2>2. rows \in R!Tables /\ ReadFrom(rows, page.db)
    BY <1>1, <2>1 DEF RolloutCalls
  <2>3. creating \in BOOLEAN
    BY Zenon
  <2>4. page' = [done EXCEPT !.shown = rows, !.loading = FALSE, !.creating = creating]
    BY <1>3, RequestsOfRollouts, Zenon DEF R!DeliverList
  <2> HIDE DEF done, creating, rows
  <2> QED BY <1>2, <2>2, <2>3, <2>4 DEF RolloutsPages, RolloutsRecords
<1>4. CASE R!DeliverChange(s)
  <2> DEFINE next == [c EXCEPT !.kind = R!Reload[c.kind], !.served = FALSE]
             filled == [page EXCEPT !.calls = Filled(page.calls, s, next)]
  <2>1. c.kind \in DOMAIN R!Reload
    BY <1>4 DEF R!DeliverChange, R!Arrived, R!InFlight
  <2>2. R!Reload[c.kind] \in R!Loads
    BY <2>1, KindsOfRollouts
  <2>3. next \in RolloutCalls(page.db)
    <3>1. ASSUME NEW kind \in R!Loads
          PROVE  [c EXCEPT !.kind = kind, !.served = FALSE] \in RolloutCalls(page.db)
      BY <1>1, KindsOfRollouts DEF RolloutCalls
    <3> QED BY <2>2, <3>1
  <2>4. page' = [filled EXCEPT !.loading = TRUE]
    BY <1>4 DEF R!DeliverChange, Filled, RolloutsPages, RolloutsRecords
  <2> HIDE DEF next
  <2>5. filled \in RolloutsPages
    BY <2>3, RolloutsSettled
  <2> HIDE DEF filled
  <2> QED BY <2>4, <2>5 DEF RolloutsPages, RolloutsRecords
<1>5. CASE R!DeliverLogs(s)
  <2>1. c.id \in R!Ids \cup {None}
    BY <1>1 DEF RolloutCalls
  <2>2. page' = [done EXCEPT !.logs = c.id]
    BY <1>5, RequestsOfRollouts DEF R!DeliverLogs
  <2> HIDE DEF done, c
  <2> QED BY <1>2, <2>1, <2>2 DEF RolloutsPages, RolloutsRecords
<1> QED BY <1>3, <1>4, <1>5 DEF R!Deliver

LEMMA RolloutsPageStep ==
  ASSUME page \in RolloutsPages, R!Next
  PROVE  page' \in RolloutsPages
<1>1. /\ page.selected \in Clusters \cup {None} /\ ReadFrom(page.shown, page.db)
      /\ page.changes \in Nat /\ page.failures \in Nat
      /\ page.loading \in BOOLEAN /\ page.creating \in BOOLEAN
  BY RolloutsFields
<1>2. ASSUME NEW kind \in {"list", "start", "logs"}, NEW cluster \in Clusters,
             NEW id \in R!Ids \cup {None}
      PROVE  R!Request(kind, cluster, id) \in RolloutCalls(page.db)
  BY <1>2, RolloutRequest, KindsOfRollouts
<1>3. ASSUME NEW c \in Clusters \cup {None}, R!SelectCluster(c) PROVE page' \in RolloutsPages
  <2>1. CASE c = None
    <3> DEFINE changes == page.changes + 1
    <3>1. changes \in Nat /\ page' = [page EXCEPT !.selected = c, !.changes = changes]
      BY <1>1, <1>3, <2>1 DEF R!SelectCluster
    <3> HIDE DEF changes
    <3> QED BY <3>1 DEF RolloutsPages, RolloutsRecords
  <2>2. CASE c # None
    <3> DEFINE p == R!Started(R!Request("list", c, None))
    <3>1. p \in RolloutsPages
      BY <1>2, <1>3, <2>2, RolloutsStarted DEF R!SelectCluster
    <3>2. page' = [p EXCEPT !.selected = c, !.loading = TRUE]
      BY <1>3, <2>2 DEF R!SelectCluster
    <3> HIDE DEF p
    <3> QED BY <3>1, <3>2 DEF RolloutsPages, RolloutsRecords
  <2> QED BY <2>1, <2>2
<1>4. CASE R!Refresh
  <2> DEFINE p == R!Started(R!Request("list", page.selected, None))
  <2>1. p \in RolloutsPages
    BY <1>1, <1>2, <1>4, RolloutsStarted DEF R!Refresh
  <2>2. page' = [p EXCEPT !.loading = TRUE]
    BY <1>4 DEF R!Refresh
  <2> HIDE DEF p
  <2> QED BY <2>1, <2>2 DEF RolloutsPages, RolloutsRecords
<1>5. CASE R!Start
  <2> DEFINE p == R!Started(R!Request("start", page.selected, None))
  <2>1. p \in RolloutsPages
    BY <1>1, <1>2, <1>5, RolloutsStarted DEF R!Start
  <2>2. page' = [p EXCEPT !.creating = TRUE]
    BY <1>5 DEF R!Start
  <2> HIDE DEF p
  <2> QED BY <2>1, <2>2 DEF RolloutsPages, RolloutsRecords
<1>6. \A d \in R!RowsListed : page.selected \in Clusters /\ page.db[d] \in R!Deployments
  BY <1>1 DEF R!RowsListed, ReadFrom
<1>7. ASSUME NEW d \in R!Ids, R!Rollback(d) PROVE page' \in RolloutsPages
  <2>1. R!Request("rollback", page.selected, d) \in RolloutCalls(page.db)
    BY <1>6, <1>7, RolloutRequest, KindsOfRollouts DEF R!Rollback
  <2> QED BY <1>7, <2>1, RolloutsStarted DEF R!Rollback
<1>8. ASSUME NEW d \in R!Ids, R!ViewLogs(d) PROVE page' \in RolloutsPages
  <2>1. R!Request("logs", page.selected, d) \in RolloutCalls(page.db)
    BY <1>2, <1>6, <1>8 DEF R!ViewLogs
  <2> QED BY <1>8, <2>1, RolloutsStarted DEF R!ViewLogs
<1>9. CASE R!CloseLogs
  BY <1>9 DEF R!CloseLogs, RolloutsPages, RolloutsRecords
<1>10. ASSUME NEW s \in Slots, R!Fail(s) PROVE page' \in RolloutsPages
  <2> DEFINE kind == page.calls[s].kind
             failures == IF page.failures < MaxFailures THEN page.failures + 1 ELSE page.failures
             loading == page.loading /\ kind \notin R!Loads
             creating == page.creating /\ kind \notin R!Starts
             done == [page EXCEPT !.calls = Filled(page.calls, s, Empty)]
  <2>1. failures \in Nat /\ loading \in BOOLEAN /\ creating \in BOOLEAN
    BY <1>1
  <2>2. done \in RolloutsPages
    BY RolloutsSettled
  <2>3. page' = [done EXCEPT !.failures = failures, !.loading = loading, !.creating = creating]
    BY <1>10, RequestsOfRollouts DEF R!Fail
  <2> HIDE DEF done, failures, loading, creating, kind
  <2> QED BY <2>1, <2>2, <2>3 DEF RolloutsPages, RolloutsRecords
<1>11. ASSUME NEW d \in R!Ids, R!Roll(d) PROVE page' \in RolloutsPages
  BY <1>11, RolloutsRolled
<1>12. ASSUME NEW s \in Slots, R!Serve(s) \/ R!Deliver(s) PROVE page' \in RolloutsPages
  BY <1>12, RolloutsServed, RolloutsDelivered
<1> QED
  BY <1>3, <1>4, <1>5, <1>7, <1>8, <1>9, <1>10, <1>11, <1>12, RolloutsCut DEF R!Next

-----------------------------------------------------------------------------
TypesInv ==
  /\ route = "dashboard" => page \in DashboardPages
  /\ route = "provisioning" => page \in DropletsPages
  /\ route = "jobs" => JobsTyped
  /\ route = "monitoring" => page \in MetricsPages
  /\ route = "autoscaling" => page \in PoliciesPages
  /\ route = "deployments" => page \in RolloutsPages
  /\ route = "providers" => page \in ProvidersPages
  /\ route = "billing" => page \in BillingPages
  /\ route = "rules" => page \in RulesPages
  /\ route = "clusters" => page \in ClustersPages
  /\ route = "new" => page \in NewPages
  /\ route = "cluster" => page \in ClusterPages

LEMMA TypesOpened ==
  ASSUME Opens
  PROVE  TypesInv'
<1>1. page' \in Mounts(route')
  BY DEF Opens
<1>2. /\ (route' = "dashboard" => page' \in DashboardPages)
      /\ (route' = "provisioning" => page' \in DropletsPages)
      /\ (route' = "jobs" => JobsTyped')
      /\ (route' = "monitoring" => page' \in MetricsPages)
  BY <1>1, DashboardPageMounted, DropletsMounted, JobsPageMounted, MetricsPageMounted DEF Mounts
<1>3. /\ (route' = "autoscaling" => page' \in PoliciesPages)
      /\ (route' = "deployments" => page' \in RolloutsPages)
      /\ (route' = "providers" => page' \in ProvidersPages)
      /\ (route' = "billing" => page' \in BillingPages)
  BY <1>1, PoliciesPageMounted, RolloutsPageMounted, ProvidersPageMounted, BillingPageMounted
  DEF Mounts
<1>4. /\ (route' = "rules" => page' \in RulesPages)
      /\ (route' = "clusters" => page' \in ClustersPages)
      /\ (route' = "new" => page' \in NewPages)
      /\ (route' = "cluster" => page' \in ClusterPages)
  BY <1>1, RulesPageMounted, ClustersPageMounted, NewPageMounted, ClusterPageMounted DEF Mounts
<1> QED BY <1>2, <1>3, <1>4 DEF TypesInv

LEMMA TypesStepped ==
  ASSUME TypesInv, FlagsInv, route' = route, PageStep
  PROVE  TypesInv'
<1>1. /\ (route = "dashboard" => page' \in DashboardPages)
      /\ (route = "provisioning" => page' \in DropletsPages)
      /\ (route = "jobs" => JobsTyped')
      /\ (route = "monitoring" => page' \in MetricsPages)
  BY DashboardPageStep, DropletsStep, JobsPageStep, MetricsPageStep
  DEF TypesInv, FlagsInv, PageStep
<1>2. /\ (route = "autoscaling" => page' \in PoliciesPages)
      /\ (route = "deployments" => page' \in RolloutsPages)
      /\ (route = "providers" => page' \in ProvidersPages)
      /\ (route = "billing" => page' \in BillingPages)
  BY PoliciesPageStep, RolloutsPageStep, ProvidersPageStep, BillingPageStep
  DEF TypesInv, PageStep
<1>3. /\ (route = "rules" => page' \in RulesPages)
      /\ (route = "clusters" => page' \in ClustersPages)
      /\ (route = "new" => page' \in NewPages)
      /\ (route = "cluster" => page' \in ClusterPages)
  BY RulesPageStep, ClustersPageStep, NewPageStep, ClusterPageStep DEF TypesInv, PageStep
<1> QED BY <1>1, <1>2, <1>3 DEF TypesInv

LEMMA RouteTyped ==
  ASSUME route \in Routes, late \in {0, 1}, Next
  PROVE  route' \in Routes /\ late' \in {0, 1}
BY DEF Next, Visit, Navigate, ToClusters, LateAnswer, Step, Routes

LEMMA TypesImply ==
  ASSUME route \in Routes, late \in {0, 1}, TypesInv
  PROVE  TypeOK
<1>1. /\ (route = "dashboard" => D!TypeOK) /\ (route = "provisioning" => P!TypeOK)
      /\ (route = "jobs" => J!TypeOK) /\ (route = "monitoring" => M!TypeOK)
  BY DashboardPageTyped, DropletsTyped, JobsPageTyped, MetricsPageTyped DEF TypesInv, JobsTyped
<1>2. /\ (route = "autoscaling" => A!TypeOK) /\ (route = "deployments" => R!TypeOK)
      /\ (route = "providers" => V!TypeOK) /\ (route = "billing" => B!TypeOK)
  BY PoliciesPageTyped, RolloutsPageTyped, ProvidersPageTyped, BillingPageTyped DEF TypesInv
<1>3. /\ (route = "rules" => L!TypeOK) /\ (route = "clusters" => C!TypeOK)
      /\ (route = "new" => N!TypeOK) /\ (route = "cluster" => K!TypeOK)
  BY RulesPageTyped, ClustersPageTyped, NewPageTyped, ClusterPageTyped DEF TypesInv
<1>4. CASE route = "dashboard"
  BY <1>1, <1>4 DEF TypeOK
<1>5. CASE route = "provisioning"
  BY <1>1, <1>5 DEF TypeOK
<1>6. CASE route = "jobs"
  BY <1>1, <1>6 DEF TypeOK
<1>7. CASE route = "monitoring"
  BY <1>1, <1>7 DEF TypeOK
<1>8. CASE route = "autoscaling"
  BY <1>2, <1>8 DEF TypeOK
<1>9. CASE route = "deployments"
  BY <1>2, <1>9 DEF TypeOK
<1>10. CASE route = "providers"
  BY <1>2, <1>10 DEF TypeOK
<1>11. CASE route = "billing"
  BY <1>2, <1>11 DEF TypeOK
<1>12. CASE route = "rules"
  BY <1>3, <1>12 DEF TypeOK
<1>13. CASE route = "clusters"
  BY <1>3, <1>13 DEF TypeOK
<1>14. CASE route = "new"
  BY <1>3, <1>14 DEF TypeOK
<1>15. CASE route = "cluster"
  BY <1>3, <1>15 DEF TypeOK
<1> QED
  BY <1>4, <1>5, <1>6, <1>7, <1>8, <1>9, <1>10, <1>11, <1>12, <1>13, <1>14, <1>15 DEF Routes

(* Every page keeps to its types whatever the user does, however answers   *)
(* are ordered and whatever fails: a list shows only what a load of it has *)
(* answered, a save carries the form it was opened with, a rollout and a   *)
(* rollback are of a deployment that is there, and the jobs on their way   *)
(* are counted before another is asked for.                                *)
THEOREM TypeOKHolds == Spec => []TypeOK
<1> DEFINE Inv == route \in Routes /\ late \in {0, 1} /\ TypesInv
<1>1. Init => Inv
  BY DashboardPageMounted DEF Init, TypesInv, Routes
<1>2. Inv /\ FlagsInv /\ [Next]_vars => Inv'
  <2> SUFFICES ASSUME Inv, FlagsInv, [Next]_vars PROVE Inv'
    OBVIOUS
  <2>1. route' \in Routes /\ late' \in {0, 1}
    BY RouteTyped DEF vars
  <2>2. CASE UNCHANGED <<route, page>>
    <3>1. TypesInv'
      BY <2>2 DEF TypesInv, JobsTyped, Unanswered
    <3> QED BY <2>1, <3>1
  <2>3. CASE Opens
    BY <2>1, <2>3, TypesOpened
  <2>4. CASE route' = route /\ PageStep
    BY <2>1, <2>4, TypesStepped
  <2> QED BY <2>2, <2>3, <2>4, StepKinds
<1>3. Inv => TypeOK
  BY TypesImply
<1> QED BY <1>1, <1>2, <1>3, FlagsAlways, PTL DEF Spec
=============================================================================
