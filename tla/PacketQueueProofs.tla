------------------------- MODULE PacketQueueProofs -------------------------
(* What the operators of PacketQueue return, for every size of the ring.   *)
EXTENDS PacketQueue, SequenceMaps, TLAPS, FiniteSetTheorems

\* A non-empty set of natural numbers has a least element (used for the
\* scan of mii_move_my_rd_index).
LEMMA LeastElement ==
    ASSUME NEW K \in SUBSET Nat, K # {}
    PROVE  \E x \in K : \A y \in K : x <= y
<1> DEFINE T == {1 .. k : k \in K}
<1>1. T \subseteq FiniteSubsetsOf(Nat)
  <2> SUFFICES ASSUME NEW k \in K PROVE 1 .. k \in FiniteSubsetsOf(Nat)
    OBVIOUS
  <2>1. IsFiniteSet(1 .. k)
    BY FS_Interval
  <2>2. 1 .. k \in SUBSET Nat
    OBVIOUS
  <2> QED BY <2>1, <2>2 DEF FiniteSubsetsOf
<1>2. T # {}
  OBVIOUS
<1>3. IsWellFoundedOn(StrictSubsetOrdering(Nat), FiniteSubsetsOf(Nat))
  BY FS_StrictSubsetOrderingWellFounded
<1>4. \E t \in T : \A u \in T : ~ (<<u, t>> \in StrictSubsetOrdering(Nat))
  BY <1>1, <1>2, <1>3, WFMin
<1>5. PICK x \in K : \A y \in K : ~ (<<1 .. y, 1 .. x>> \in StrictSubsetOrdering(Nat))
  BY <1>4
<1>6. \A y \in K : ~(y < x)
  <2> SUFFICES ASSUME NEW y \in K, y < x
               PROVE  <<1 .. y, 1 .. x>> \in StrictSubsetOrdering(Nat)
    BY <1>5
  <2>1. 1 .. y \subseteq 1 .. x
    OBVIOUS
  <2>2. x \in 1 .. x /\ x \notin 1 .. y
    OBVIOUS
  <2>3. 1 .. y \in SUBSET Nat /\ 1 .. x \in SUBSET Nat
    OBVIOUS
  <2> QED BY <2>1, <2>2, <2>3 DEF StrictSubsetOrdering
<1> QED BY <1>6

\* Walking k places round the ring stays in the ring, and every slot is
\* reached, at its distance.
LEMMA AheadIndex ==
    ASSUME NEW i \in Index, NEW k \in 0 .. NumPointers
    PROVE  Ahead(i, k) \in Index
BY NumPointersAssumption DEF Ahead, Index

LEMMA AheadDistance ==
    ASSUME NEW i \in Index, NEW j \in Index
    PROVE  /\ Distance(i, j) \in 0 .. NumPointers - 1
           /\ Ahead(i, Distance(i, j)) = j
BY NumPointersAssumption DEF Ahead, Distance, Index

LEMMA DistanceAhead ==
    ASSUME NEW i \in Index, NEW k \in 0 .. NumPointers - 1
    PROVE  Distance(i, Ahead(i, k)) = k
BY NumPointersAssumption DEF Ahead, Distance, Index

\* Distances seen from a slot further on.
LEMMA DistanceFurtherOn ==
    ASSUME NEW i \in Index, NEW j \in Index, NEW k \in 1 .. NumPointers
    PROVE  Distance(Ahead(i, k), j) = IF Distance(i, j) >= k
                                     THEN Distance(i, j) - k
                                     ELSE Distance(i, j) - k + NumPointers
BY NumPointersAssumption DEF Ahead, Distance, Index

\* A walk can be made in two parts.
LEMMA AheadFurtherOn ==
    ASSUME NEW i \in Index, NEW k \in 0 .. NumPointers, NEW m \in 0 .. NumPointers, k <= m
    PROVE  Ahead(Ahead(i, k), m - k) = Ahead(i, m)
BY NumPointersAssumption DEF Ahead, Index

\* The scan of mii_move_my_rd_index ends at the first slot that is in use
\* or wr, at the latest after one time round the ring.
LEMMA MoveMyRdIndexStops ==
    ASSUME NEW q, q.wr \in Index, NEW i \in Index
    PROVE  \E k \in 1 .. NumPointers :
              /\ MoveMyRdIndex(q, i) = Ahead(i, k)
              /\ ScanStops(q, Ahead(i, k))
              /\ \A m \in 1 .. k - 1 : ~ScanStops(q, Ahead(i, m))
<1> DEFINE K == {k \in 1 .. NumPointers : ScanStops(q, Ahead(i, k))}
           d == Distance(i, q.wr)
           First(j) == \E k \in 1 .. NumPointers :
                          /\ j = Ahead(i, k)
                          /\ ScanStops(q, j)
                          /\ \A m \in 1 .. k - 1 : ~ScanStops(q, Ahead(i, m))
<1>1. K # {}
  <2>1. CASE d = 0
    <3>1. Ahead(i, NumPointers) = q.wr
      BY <2>1, NumPointersAssumption DEF Ahead, Distance, Index
    <3>2. NumPointers \in K
      BY <3>1, NumPointersAssumption DEF ScanStops
    <3> QED BY <3>2
  <2>2. CASE d # 0
    <3>1. d \in 1 .. NumPointers /\ Ahead(i, d) = q.wr
      BY <2>2, AheadDistance, NumPointersAssumption
    <3>2. d \in K
      BY <3>1 DEF ScanStops
    <3> QED BY <3>2
  <2> QED BY <2>1, <2>2
<1>2. K \in SUBSET Nat
  BY NumPointersAssumption
<1>3. PICK k \in K : \A y \in K : k <= y
  BY <1>1, <1>2, LeastElement
<1>4. k \in 1 .. NumPointers /\ ScanStops(q, Ahead(i, k))
  BY <1>3
<1>5. \A m \in 1 .. k - 1 : ~ScanStops(q, Ahead(i, m))
  <2> SUFFICES ASSUME NEW m \in 1 .. k - 1, ScanStops(q, Ahead(i, m)) PROVE FALSE
    OBVIOUS
  <2>1. m \in K
    BY <1>4, NumPointersAssumption
  <2> QED BY <2>1, <1>3, <1>4, NumPointersAssumption
<1>6. Ahead(i, k) \in Index
  BY <1>4, AheadIndex, NumPointersAssumption
<1>7. First(Ahead(i, k))
  BY <1>4, <1>5
<1>8. \E j \in Index : First(j)
  BY <1>6, <1>7
<1>9. MoveMyRdIndex(q, i) = CHOOSE j \in Index : First(j)
  BY DEF MoveMyRdIndex
<1>10. First(MoveMyRdIndex(q, i))
  BY <1>8, <1>9
<1> QED BY <1>10

\* So it returns a slot of the ring.
LEMMA MoveMyRdIndexType ==
    ASSUME NEW q, q.wr \in Index, NEW i \in Index
    PROVE  MoveMyRdIndex(q, i) \in Index
BY MoveMyRdIndexStops, AheadIndex, NumPointersAssumption

\* The slots at distances m to e - 1 from slot r are e - m slots from the
\* m-th on.
LEMMA RunOfSlots ==
    ASSUME NEW S \in SUBSET Index, NEW r \in Index,
           NEW e \in 0 .. NumPointers, NEW m \in 0 .. NumPointers, m <= e,
           \A i \in Index : i \in S <=> m <= Distance(r, i) /\ Distance(r, i) < e
    PROVE  /\ IsFiniteSet(S) /\ Cardinality(S) = e - m
           /\ \A k \in 0 .. e - m - 1 : Ahead(Ahead(r, m), k) \in S
           /\ \A i \in S : Distance(Ahead(r, m), i) < e - m
<1>1. PICK s \in Index : s = Ahead(r, m)
  BY AheadIndex
<1> DEFINE n == e - m
<1>2. n \in 0 .. NumPointers
  BY NumPointersAssumption
<1>3. \A i \in Index : i \in S <=> Distance(s, i) < n
  <2> SUFFICES ASSUME NEW i \in Index
               PROVE  m <= Distance(r, i) /\ Distance(r, i) < e <=> Distance(s, i) < n
    OBVIOUS
  <2>1. Distance(r, i) \in 0 .. NumPointers - 1
    BY AheadDistance
  <2> QED BY <2>1, <1>1, NumPointersAssumption DEF Ahead, Distance, Index
<1> HIDE DEF n
<1>4. \A k \in 0 .. n - 1 : Ahead(s, k) \in Index /\ Distance(s, Ahead(s, k)) = k
  BY <1>2, AheadIndex, DistanceAhead, NumPointersAssumption
<1>5. \A k \in 0 .. n - 1 : Ahead(s, k) \in S
  <2> SUFFICES ASSUME NEW k \in 0 .. n - 1 PROVE Ahead(s, k) \in S
    OBVIOUS
  <2>1. Ahead(s, k) \in Index /\ Distance(s, Ahead(s, k)) = k
    BY <1>4
  <2>2. k < n
    BY <1>2, NumPointersAssumption
  <2> QED BY <2>1, <2>2, <1>3
<1>6. IsFiniteSet(S) /\ Cardinality(S) = n
  <2> DEFINE g == [k \in 0 .. n - 1 |-> Ahead(s, k)]
  <2>1. g \in [0 .. n - 1 -> S]
    BY <1>5
  <2>2. \A j, k \in 0 .. n - 1 : g[j] = g[k] => j = k
    BY <1>4
  <2>3. \A i \in S : \E k \in 0 .. n - 1 : g[k] = i
    <3> SUFFICES ASSUME NEW i \in Index, i \in S
                 PROVE  \E k \in 0 .. n - 1 : g[k] = i
      OBVIOUS
    <3>1. Distance(s, i) \in 0 .. n - 1 /\ Ahead(s, Distance(s, i)) = i
      BY <1>2, <1>3, AheadDistance
    <3> QED BY <3>1
  <2> HIDE DEF g
  <2>4. g \in Bijection(0 .. n - 1, S)
    BY <2>1, <2>2, <2>3 DEF Bijection, Injection, IsInjective, Surjection
  <2>5. IsFiniteSet(0 .. n - 1) /\ Cardinality(0 .. n - 1) = n
    <3>1. 0 \in Int /\ n - 1 \in Int /\ (IF 0 > n - 1 THEN 0 ELSE n - 1 - 0 + 1) = n
      BY <1>2, NumPointersAssumption
    <3> QED BY <3>1, FS_Interval
  <2> QED BY <2>4, <2>5, FS_Bijection DEF ExistsBijection
<1>7. \A i \in S : Distance(s, i) < n
  BY <1>3
<1> QED BY <1>1, <1>5, <1>6, <1>7 DEF n

\* A run of slots grows at its end and shrinks at its start.
LEMMA SlotsAre ==
    ASSUME NEW i \in Index, NEW n \in 0 .. NumPointers
    PROVE  /\ Slots(i, n) \in Seq(Index) /\ Len(Slots(i, n)) = n
           /\ \A k \in 1 .. n : Slots(i, n)[k] = Ahead(i, k - 1)
<1>1. \A k \in 1 .. n : Ahead(i, k - 1) \in Index
  BY AheadIndex, NumPointersAssumption
<1> QED BY <1>1 DEF Slots

LEMMA SlotsGrow ==
    ASSUME NEW i \in Index, NEW n \in 0 .. NumPointers - 1
    PROVE  Ahead(i, n) \in Index /\ Slots(i, n + 1) = Append(Slots(i, n), Ahead(i, n))
<1> DEFINE s == Slots(i, n)
           t == Slots(i, n + 1)
           x == Ahead(i, n)
           u == Append(s, x)
<1>1. s \in Seq(Index) /\ Len(s) = n /\ \A k \in 1 .. n : s[k] = Ahead(i, k - 1)
  BY SlotsAre, NumPointersAssumption
<1>2. t \in Seq(Index) /\ Len(t) = n + 1 /\ \A k \in 1 .. n + 1 : t[k] = Ahead(i, k - 1)
  <2>1. n + 1 \in 0 .. NumPointers
    BY NumPointersAssumption
  <2> QED BY <2>1, SlotsAre
<1>3. x \in Index
  BY AheadIndex, NumPointersAssumption
<1>4. t[n + 1] = x
  BY <1>2
<1> HIDE DEF s, t, x
<1>5. u \in Seq(Index) /\ Len(u) = n + 1 /\ u[n + 1] = x /\ \A k \in 1 .. n : u[k] = s[k]
  BY <1>1, <1>3, Appended
<1> HIDE DEF u
<1>6. \A k \in 1 .. n + 1 : k = n + 1 \/ k \in 1 .. n
  OBVIOUS
<1>7. \A k \in 1 .. n + 1 : t[k] = u[k]
  BY <1>1, <1>2, <1>4, <1>5, <1>6
<1>8. t = u
  BY <1>2, <1>5, <1>7, SameSequence
<1> QED BY <1>3, <1>8 DEF s, t, x, u

LEMMA SlotsShrink ==
    ASSUME NEW i \in Index, NEW n \in 1 .. NumPointers
    PROVE  /\ Slots(i, n) # <<>> /\ Head(Slots(i, n)) = i
           /\ Tail(Slots(i, n)) = Slots(NextIndex(i), n - 1)
<1> DEFINE s == Slots(i, n)
           t == Slots(NextIndex(i), n - 1)
           u == Tail(s)
<1>1. s \in Seq(Index) /\ Len(s) = n /\ \A k \in 1 .. n : s[k] = Ahead(i, k - 1)
  BY SlotsAre
<1>2. NextIndex(i) \in Index /\ n - 1 \in 0 .. NumPointers
  BY AheadIndex, NumPointersAssumption DEF NextIndex
<1>3. t \in Seq(Index) /\ Len(t) = n - 1 /\ \A k \in 1 .. n - 1 : t[k] = Ahead(NextIndex(i), k - 1)
  BY <1>2, SlotsAre
<1>4. Ahead(i, 0) = i /\ \A k \in 1 .. n - 1 : Ahead(NextIndex(i), k - 1) = Ahead(i, k)
  BY NumPointersAssumption DEF NextIndex, Ahead, Index
<1> HIDE DEF s, t
<1>5. /\ s # <<>> /\ Head(s) = s[1] /\ u \in Seq(Index) /\ Len(u) = n - 1
      /\ \A k \in 1 .. n - 1 : u[k] = s[k + 1]
  BY <1>1
<1>6. s[1] = i
  BY <1>1, <1>4
<1> HIDE DEF u
<1>7. \A k \in 1 .. n - 1 : u[k] = t[k]
  <2> SUFFICES ASSUME NEW k \in 1 .. n - 1 PROVE u[k] = t[k]
    OBVIOUS
  <2>1. k + 1 \in 1 .. n /\ (k + 1) - 1 = k
    OBVIOUS
  <2>2. s[k + 1] = Ahead(i, k)
    BY <2>1, <1>1
  <2> QED BY <2>2, <1>3, <1>4, <1>5
<1>8. u = t
  BY <1>3, <1>5, <1>7, SameSequence
<1> QED BY <1>5, <1>6, <1>8 DEF s, t, u
=============================================================================
