------------------------- MODULE MacHashSwapProofs -------------------------
(* What an insertion into a table of macaddr_filter_hash.c does, for every *)
(* table, every pair of hash functions and every number of tries; that no  *)
(* address is looked up in a table that is being changed, for all tables   *)
(* and numbers of buffer managers; and what calls and lookups make of the  *)
(* two tables.                                                             *)
EXTENDS MacHashSwap, FiniteSetTheorems, TLAPS

(***************************************************************************)
(* Induction, for sets of numbers.  Every set of natural numbers has a     *)
(* least element, because initial intervals are ordered by inclusion.      *)
(***************************************************************************)
LEMMA Least ==
    ASSUME NEW S \in SUBSET Nat, S # {}
    PROVE  \E n \in S : \A m \in S : n <= m
<1> DEFINE T == {1 .. n : n \in S}
           R == StrictSubsetOrdering(Nat)
<1>1. IsWellFoundedOn(R, FiniteSubsetsOf(Nat))
  BY FS_StrictSubsetOrderingWellFounded
<1>2. T \subseteq FiniteSubsetsOf(Nat)
  <2>1. ASSUME NEW n \in S PROVE 1 .. n \in SUBSET Nat /\ IsFiniteSet(1 .. n)
    BY FS_Interval
  <2> QED BY <2>1 DEF FiniteSubsetsOf
<1>3. T # {}
  OBVIOUS
<1>4. PICK x \in T : \A y \in T : ~ (<<y, x>> \in R)
  <2> HIDE DEF T, R
  <2> QED BY <1>1, <1>2, <1>3, WFMin
<1>5. PICK n \in S : x = 1 .. n
  OBVIOUS
<1>6. ASSUME NEW m \in S, ~(n <= m) PROVE FALSE
  <2>1. 1 .. m \subseteq 1 .. n /\ 1 .. m # 1 .. n
    <3>1. n \in 1 .. n /\ n \notin 1 .. m
      BY <1>6
    <3> QED BY <1>6, <3>1
  <2>2. <<1 .. m, x>> \in R
    BY <1>5, <2>1 DEF StrictSubsetOrdering
  <2> QED BY <1>4, <2>2
<1> QED BY <1>6

LEMMA Induction ==
    ASSUME NEW T, 0 \in T, \A n \in Nat : n \in T => n + 1 \in T
    PROVE  Nat \subseteq T
<1> SUFFICES ASSUME Nat \ T # {} PROVE FALSE
  OBVIOUS
<1>1. PICK n \in Nat \ T : \A m \in Nat \ T : n <= m
  BY Least
<1>2. n # 0 /\ n - 1 \in Nat
  BY <1>1
<1>3. n - 1 \in T
  BY <1>1, <1>2
<1> QED BY <1>2, <1>3

----------------------------------------------------------------------------
(* The loop of insert is what its definition says.                         *)

\* The right side of the definition for some tries left.
EndAfter(f, tries, left) ==
    [s \in LoopState |->
        IF s.conflict /\ left > 0 THEN f[left - 1][Try(s, tries - left)] ELSE s]

LEMMA LoopIs ==
    ASSUME NEW tries \in Nat, NEW left \in 0 .. tries
    PROVE  Loop(tries)[left] = EndAfter(Loop(tries), tries, left)
<1> DEFINE IsLoop(f, n) == f = [m \in 0 .. n |-> EndAfter(f, tries, m)]
           Solved == {n \in Nat : \E f : IsLoop(f, n)}
<1>1. 0 \in Solved
  <2> DEFINE f == [m \in 0 .. 0 |-> [s \in LoopState |-> s]]
  <2>1. IsLoop(f, 0)
    BY DEF EndAfter
  <2> QED BY <2>1
<1>2. ASSUME NEW n \in Nat, n \in Solved PROVE n + 1 \in Solved
  <2>1. PICK f : f = [m \in 0 .. n |-> EndAfter(f, tries, m)]
    BY <1>2
  <2> DEFINE g == [m \in 0 .. n + 1 |-> IF m = n + 1 THEN EndAfter(f, tries, n + 1) ELSE f[m]]
  <2>2. ASSUME NEW m \in 0 .. n + 1 PROVE g[m] = EndAfter(g, tries, m)
    <3>1. EndAfter(g, tries, m) = EndAfter(f, tries, m)
      <4>1. CASE m = 0
        BY <4>1 DEF EndAfter
      <4>2. CASE m # 0
        <5>1. m - 1 \in 0 .. n /\ g[m - 1] = f[m - 1]
          BY <4>2
        <5> QED BY <5>1 DEF EndAfter
      <4> QED BY <4>1, <4>2
    <3>2. CASE m = n + 1
      BY <3>1, <3>2
    <3>3. CASE m # n + 1
      <4>1. m \in 0 .. n /\ g[m] = f[m]
        BY <3>3
      <4>2. f[m] = EndAfter(f, tries, m)
        BY <2>1, <4>1
      <4> QED BY <3>1, <4>1, <4>2
    <3> QED BY <3>2, <3>3
  <2>3. IsLoop(g, n + 1)
    BY <2>2
  <2> HIDE DEF g, IsLoop
  <2>4. \E h : IsLoop(h, n + 1)
    BY <2>3
  <2> QED BY <2>4
<1>3. tries \in Solved
  <2> HIDE DEF Solved
  <2> QED BY <1>1, <1>2, Induction
<1>4. Loop(tries) = [m \in 0 .. tries |-> EndAfter(Loop(tries), tries, m)]
  BY <1>3 DEF Loop, EndAfter
<1> QED BY <1>4
LEMMA LoopUnfolds ==
    ASSUME NEW tries \in Nat, NEW left \in 0 .. tries, NEW s \in LoopState
    PROVE  Loop(tries)[left][s] =
               IF s.conflict /\ left > 0 THEN Loop(tries)[left - 1][Try(s, tries - left)] ELSE s
<1>1. Loop(tries)[left] = EndAfter(Loop(tries), tries, left)
  BY LoopIs
<1> QED BY <1>1 DEF EndAfter

----------------------------------------------------------------------------
(* The steps of the loop, field by field.                                  *)

LEMMA PlacesInTable ==
    ASSUME NEW g \in Generation, NEW y \in {0, 1}, NEW k \in Keys
    PROVE  Hash[g][y][k] \in Slots
BY MacHashAssumption

LEMMA EntryIn ==
    ASSUME NEW t \in Table, NEW q \in Slots, NEW k \in Keys, NEW r \in Result
    PROVE  LET w == WithEntry(t, q, k, r) IN
           /\ w \in Table
           /\ w.gen = t.gen /\ w.num_entries = t.num_entries
           /\ w.id = [t.id EXCEPT ![q] = k]
           /\ w.result = [t.result EXCEPT ![q] = r]
BY DEF WithEntry, Table

LEMMA EntryKeeps ==
    \A t \in Table, q \in Slots, k \in Keys, r \in Result :
        /\ WithEntry(t, q, k, r).gen = t.gen
        /\ WithEntry(t, q, k, r).num_entries = t.num_entries
BY DEF WithEntry, Table

\* The result of placing the entry in hand at q.
Merged(s, q) == IF s.set \/ s.table.id[q] = NoKey THEN s.result
                ELSE s.table.result[q] \cup s.result

LEMMA PlaceIs ==
    ASSUME NEW s \in LoopState, NEW q \in Slots
    PROVE  LET p == Place(s, q) IN
           /\ p \in LoopState /\ ~p.conflict
           /\ Merged(s, q) \in Result
           /\ p.table = WithEntry(s.table, q, s.key, Merged(s, q))
<1>1. Merged(s, q) \in Result
  BY DEF Merged, LoopState, Table, Result
<1>2. s.table \in Table /\ s.key \in Keys
  BY DEF LoopState
<1>3. WithEntry(s.table, q, s.key, Merged(s, q)) \in Table
  BY <1>1, <1>2, EntryIn
<1>4. Place(s, q) = [s EXCEPT !.table = WithEntry(s.table, q, s.key, Merged(s, q)),
                              !.conflict = FALSE]
  BY DEF Place, Merged, LoopState
<1> QED BY <1>1, <1>3, <1>4 DEF LoopState

LEMMA ExchangeIs ==
    ASSUME NEW s \in LoopState, NEW q \in Slots, s.table.id[q] # NoKey
    PROVE  LET e == Exchange(s, q) IN
           /\ e \in LoopState /\ e.conflict = s.conflict
           /\ e.table = WithEntry(s.table, q, s.key, s.result)
           /\ e.key = s.table.id[q] /\ e.result = s.table.result[q] /\ e.set
<1>1. s.table \in Table /\ s.key \in Keys /\ s.result \in Result
  BY DEF LoopState
<1>2. s.table.id[q] \in Keys /\ s.table.result[q] \in Result
  BY <1>1 DEF Table
<1>3. 1 - s.hashtype \in {0, 1}
  BY DEF LoopState
<1>4. WithEntry(s.table, q, s.key, s.result) \in Table
  BY <1>1, EntryIn
<1>5. Exchange(s, q) = [s EXCEPT !.table = WithEntry(s.table, q, s.key, s.result),
              !.key = s.table.id[q], !.result = s.table.result[q],
              !.set = TRUE, !.hashtype = 1 - s.hashtype]
  BY DEF Exchange, LoopState
<1> QED BY <1>2, <1>3, <1>4, <1>5 DEF LoopState
----------------------------------------------------------------------------
(* Tables in which lookups find every entry.                               *)

First(t, k) == Hash[t.gen][0][k]
Second(t, k) == Hash[t.gen][1][k]

\* An entry is at one of its two places, at the second only while the first
\* is taken, and at one of them only.
WellPlacedAt(t, s) ==
    /\ s \in {First(t, t.id[s]), Second(t, t.id[s])}
    /\ s # First(t, t.id[s]) => t.id[First(t, t.id[s])] # NoKey
    /\ \A u \in Slots : t.id[u] = t.id[s] => u = s

WellPlaced(t) == \A s \in Slots : t.id[s] # NoKey => WellPlacedAt(t, s)

Holds(t, k) == \E s \in Slots : t.id[s] = k

\* Lookups do not depend on the number of entries.
LEMMA SameEntries ==
    ASSUME NEW t, NEW w, w.gen = t.gen, w.id = t.id, w.result = t.result
    PROVE  /\ WellPlaced(t) => WellPlaced(w)
           /\ \A x \in Keys : Lookup(w, x) = Lookup(t, x)
<1>1. \A x : First(w, x) = First(t, x) /\ Second(w, x) = Second(t, x)
  BY DEF First, Second
<1>2. \A s \in Slots : WellPlacedAt(t, s) => WellPlacedAt(w, s)
  BY <1>1 DEF WellPlacedAt
<1>3. WellPlaced(t) => WellPlaced(w)
  BY <1>2 DEF WellPlaced
<1> QED BY <1>3 DEF Lookup

LEMMA PlacesAreSlots ==
    ASSUME NEW t \in Table, NEW k \in Keys
    PROVE  First(t, k) \in Slots /\ Second(t, k) \in Slots
BY PlacesInTable DEF First, Second, Table

LEMMA LookupIs ==
    ASSUME NEW t \in Table, WellPlaced(t), NEW k \in Keys
    PROVE  /\ \A s \in Slots : t.id[s] = k => Lookup(t, k) = t.result[s]
           /\ ~Holds(t, k) => Lookup(t, k) = {}
<1>1. First(t, k) \in Slots /\ Second(t, k) \in Slots
  BY PlacesAreSlots
<1>2. Lookup(t, k) = IF t.id[Second(t, k)] = k THEN t.result[Second(t, k)]
                     ELSE IF t.id[First(t, k)] = k THEN t.result[First(t, k)]
                     ELSE {}
  BY DEF Lookup, First, Second
<1>3. ASSUME NEW s \in Slots, t.id[s] = k PROVE Lookup(t, k) = t.result[s]
  <2>1. k # NoKey
    BY MacHashAssumption
  <2>2. s \in {First(t, k), Second(t, k)} /\ \A u \in Slots : t.id[u] = k => u = s
    BY <1>3, <2>1 DEF WellPlaced, WellPlacedAt
  <2> QED BY <1>1, <1>2, <1>3, <2>2
<1>4. ASSUME ~Holds(t, k) PROVE Lookup(t, k) = {}
  BY <1>1, <1>2, <1>4 DEF Holds
<1> QED BY <1>3, <1>4

\* An entry for a key that is nowhere else, at its first place, or at its
\* second when the first is taken.
LEMMA EntryPlaced ==
    ASSUME NEW t \in Table, WellPlaced(t), NEW k \in Keys, NEW r \in Result,
           NEW q \in {First(t, k), Second(t, k)},
           q # First(t, k) => t.id[First(t, k)] # NoKey,
           \A j \in Slots : t.id[j] = k => j = q
    PROVE  LET w == WithEntry(t, q, k, r) IN
           /\ w \in Table /\ w.gen = t.gen /\ w.num_entries = t.num_entries
           /\ WellPlaced(w)
           /\ \A j \in Slots : t.id[j] # NoKey => w.id[j] # NoKey
           /\ Lookup(w, k) = r
           /\ \A x \in Keys : x # k /\ x # t.id[q] => Lookup(w, x) = Lookup(t, x)
           /\ t.id[q] \notin {NoKey, k} => ~Holds(w, t.id[q])
<1> DEFINE w == WithEntry(t, q, k, r)
<1>1. q \in Slots /\ First(t, k) \in Slots /\ k # NoKey
  BY PlacesAreSlots, MacHashAssumption
<1>2. /\ w \in Table /\ w.gen = t.gen /\ w.num_entries = t.num_entries
      /\ w.id = [t.id EXCEPT ![q] = k] /\ w.result = [t.result EXCEPT ![q] = r]
  BY <1>1, EntryIn
<1> HIDE DEF w
<1>3. \A x \in Keys : First(w, x) = First(t, x) /\ Second(w, x) = Second(t, x)
  BY <1>2 DEF First, Second
<1>4. /\ t.id \in [Slots -> Keys \cup {NoKey}] /\ t.result \in [Slots -> Result]
      /\ w.id[q] = k /\ w.result[q] = r
      /\ \A j \in Slots \ {q} : w.id[j] = t.id[j] /\ w.id[j] # k /\ w.result[j] = t.result[j]
  BY <1>1, <1>2 DEF Table
<1>5. \A j \in Slots : t.id[j] # NoKey => w.id[j] # NoKey
  BY <1>1, <1>4
<1>6. WellPlaced(w)
  <2> SUFFICES ASSUME NEW s \in Slots, w.id[s] # NoKey PROVE WellPlacedAt(w, s)
    BY DEF WellPlaced
  <2>1. CASE s = q
    <3>1. s \in {First(w, k), Second(w, k)}
      BY <1>3, <2>1
    <3>2. s # First(w, k) => w.id[First(w, k)] # NoKey
      BY <1>1, <1>3, <1>5, <2>1
    <3> QED BY <1>1, <1>4, <2>1, <3>1, <3>2 DEF WellPlacedAt
  <2>2. CASE s # q
    <3>1. w.id[s] = t.id[s] /\ t.id[s] \in Keys /\ t.id[s] # k /\ WellPlacedAt(t, s)
      BY <1>4, <2>2 DEF WellPlaced
    <3>2. s # First(t, t.id[s]) => w.id[First(t, t.id[s])] # NoKey
      BY <1>5, <3>1, PlacesAreSlots DEF WellPlacedAt
    <3>3. \A u \in Slots : w.id[u] = t.id[s] => u = s
      BY <1>4, <3>1 DEF WellPlacedAt
    <3> QED BY <1>3, <3>1, <3>2, <3>3 DEF WellPlacedAt
  <2> QED BY <2>1, <2>2
<1>7. Lookup(w, k) = r
  BY <1>1, <1>2, <1>4, <1>6, LookupIs
<1>8. ASSUME NEW x \in Keys, x # k, x # t.id[q] PROVE Lookup(w, x) = Lookup(t, x)
  <2>1. ASSUME NEW s \in Slots, t.id[s] = x PROVE Lookup(w, x) = Lookup(t, x)
    <3>1. s # q /\ w.id[s] = x /\ w.result[s] = t.result[s]
      BY <1>4, <1>8, <2>1
    <3>2. w \in Table /\ WellPlaced(w)
      BY <1>2, <1>6
    <3>3. Lookup(w, x) = w.result[s]
      BY <3>1, <3>2, LookupIs, Zenon
    <3>4. Lookup(t, x) = t.result[s]
      BY <2>1, LookupIs
    <3> QED BY <3>1, <3>3, <3>4
  <2>2. CASE ~Holds(t, x)
    <3>1. ~Holds(w, x)
      BY <1>4, <1>8, <2>2 DEF Holds
    <3> QED BY <1>2, <1>6, <2>2, <3>1, LookupIs
  <2> QED BY <2>1, <2>2 DEF Holds
<1>9. ASSUME t.id[q] \notin {NoKey, k} PROVE ~Holds(w, t.id[q])
  <2>1. \A j \in Slots : t.id[j] = t.id[q] => j = q
    BY <1>1, <1>9 DEF WellPlaced, WellPlacedAt
  <2> QED BY <1>4, <1>9, <2>1 DEF Holds
<1> QED BY <1>2, <1>5, <1>6, <1>7, <1>8, <1>9 DEF w
----------------------------------------------------------------------------
(* The loop, for an insertion of result r for key k into table t.          *)

\* What a lookup is to find afterwards.
Target(t, k, r, set, x) ==
    IF x = k THEN (IF set THEN r ELSE Lookup(t, k) \cup r) ELSE Lookup(t, x)

\* Nothing has been done, because first one, then both places were taken.
Fresh(s, t, k, r, set) ==
    s.conflict /\ s.table = t /\ s.key = k /\ s.result = r /\ s.set = set

AtFirst(s, t, k, r, set) == Fresh(s, t, k, r, set) /\ s.hashtype = 0

AtSecond(s, t, k, r, set) ==
    /\ Fresh(s, t, k, r, set)
    /\ s.hashtype = 1
    /\ t.id[First(t, k)] \notin {NoKey, k}

\* The entry in hand is all that the table lacks.
Moving(s, t, k, r, set) ==
    /\ s.conflict /\ s.set
    /\ WellPlaced(s.table)
    /\ s.table.id[First(s.table, s.key)] # NoKey
    /\ ~Holds(s.table, s.key)
    /\ \A x \in Keys : Target(t, k, r, set, x) =
                           IF x = s.key THEN s.result ELSE Lookup(s.table, x)

Inserted(s, t, k, r, set) ==
    /\ ~s.conflict
    /\ WellPlaced(s.table)
    /\ \A x \in Keys : Lookup(s.table, x) = Target(t, k, r, set, x)

LoopInv(s, count, t, k, r, set) ==
    \/ Inserted(s, t, k, r, set)
    \/ count = 0 /\ AtFirst(s, t, k, r, set)
    \/ count = 1 /\ AtSecond(s, t, k, r, set)
    \/ count > 1 /\ Moving(s, t, k, r, set)

\* The types alone, which a table without order has too.
LEMMA TryTyped ==
    ASSUME NEW s \in LoopState, NEW count \in Nat
    PROVE  /\ Try(s, count) \in LoopState
           /\ Try(s, count).table.gen = s.table.gen
           /\ Try(s, count).table.num_entries = s.table.num_entries
<1> DEFINE q == Hash[s.table.gen][s.hashtype][s.key]
<1>1. /\ s.table \in Table /\ s.key \in Keys /\ s.result \in Result
      /\ s.hashtype \in {0, 1} /\ q \in Slots
  BY PlacesInTable DEF LoopState, Table
<1>2. CASE ~ContainsDifferentEntry(s.table, q, s.key)
  <2>1. Try(s, count) = Place(s, q)
    BY <1>2 DEF Try
  <2> HIDE DEF q
  <2>2. /\ Place(s, q) \in LoopState /\ Merged(s, q) \in Result
        /\ Place(s, q).table = WithEntry(s.table, q, s.key, Merged(s, q))
    BY <1>1, PlaceIs
  <2>3. /\ WithEntry(s.table, q, s.key, Merged(s, q)).gen = s.table.gen
        /\ WithEntry(s.table, q, s.key, Merged(s, q)).num_entries = s.table.num_entries
    BY <1>1, <2>2, EntryKeeps
  <2> QED BY <2>1, <2>2, <2>3
<1>3. CASE ContainsDifferentEntry(s.table, q, s.key) /\ count = 0
  <2>1. Try(s, count) = [s EXCEPT !.hashtype = 1 - s.hashtype]
    BY <1>3 DEF Try, LoopState
  <2>2. 1 - s.hashtype \in {0, 1}
    BY <1>1
  <2> QED BY <2>1, <2>2 DEF LoopState
<1>4. CASE ContainsDifferentEntry(s.table, q, s.key) /\ count # 0
  <2>1. Try(s, count) = Exchange(s, q) /\ s.table.id[q] # NoKey
    BY <1>4 DEF Try, ContainsDifferentEntry
  <2> HIDE DEF q
  <2>2. /\ Exchange(s, q) \in LoopState
        /\ Exchange(s, q).table = WithEntry(s.table, q, s.key, s.result)
    BY <1>1, <2>1, ExchangeIs
  <2>3. /\ WithEntry(s.table, q, s.key, s.result).gen = s.table.gen
        /\ WithEntry(s.table, q, s.key, s.result).num_entries = s.table.num_entries
    BY <1>1, EntryKeeps
  <2> QED BY <2>1, <2>2, <2>3
<1> QED BY <1>2, <1>3, <1>4

\* The entry in hand has a place: what was there was nothing, or of its key.
LEMMA PlaceInserts ==
    ASSUME NEW t \in Table, WellPlaced(t), NEW k \in Keys, NEW r \in Result,
           NEW set \in BOOLEAN,
           NEW s \in LoopState, NEW q \in {First(s.table, s.key), Second(s.table, s.key)},
           s.table.id[q] \in {NoKey, s.key},
           \/ AtFirst(s, t, k, r, set) /\ q = First(t, k)
           \/ AtSecond(s, t, k, r, set)
           \/ Moving(s, t, k, r, set)
    PROVE  Inserted(Place(s, q), t, k, r, set)
<1>1. s.table \in Table /\ s.key \in Keys /\ q \in Slots /\ WellPlaced(s.table)
      /\ s.key # NoKey
  BY PlacesAreSlots, MacHashAssumption DEF LoopState, AtFirst, AtSecond, Fresh, Moving
<1>2. q # First(s.table, s.key) => s.table.id[First(s.table, s.key)] # NoKey
  BY DEF AtFirst, AtSecond, Fresh, Moving
<1>3. \A j \in Slots : s.table.id[j] = s.key => j = q
  <2> SUFFICES ASSUME NEW j \in Slots, s.table.id[j] = s.key, j # q PROVE FALSE
    OBVIOUS
  <2>1. WellPlacedAt(s.table, j)
    BY <1>1 DEF WellPlaced
  <2>2. s.table.id[q] = NoKey
    BY <1>1, <2>1 DEF WellPlacedAt
  <2>3. q = First(s.table, s.key) => FALSE
    BY <1>1, <2>1, <2>2 DEF WellPlacedAt
  <2> QED BY <1>1, <2>1, <2>3 DEF WellPlacedAt, Moving, AtFirst, AtSecond, Fresh, Holds
<1>4. /\ ~Place(s, q).conflict /\ Merged(s, q) \in Result
      /\ Place(s, q).table = WithEntry(s.table, q, s.key, Merged(s, q))
  BY <1>1, PlaceIs
<1> DEFINE w == WithEntry(s.table, q, s.key, Merged(s, q))
<1>5. /\ WellPlaced(w) /\ Lookup(w, s.key) = Merged(s, q)
      /\ \A x \in Keys : x # s.key /\ x # s.table.id[q] => Lookup(w, x) = Lookup(s.table, x)
  BY <1>1, <1>2, <1>3, <1>4, EntryPlaced
<1>6. \A x \in Keys : x # s.key => Lookup(w, x) = Lookup(s.table, x)
  BY <1>5, MacHashAssumption
<1>7. Lookup(s.table, s.key) = IF s.table.id[q] = NoKey THEN {} ELSE s.table.result[q]
  BY <1>1, <1>3, LookupIs DEF Holds
<1>8. Merged(s, q) = IF s.set THEN s.result ELSE Lookup(s.table, s.key) \cup s.result
  BY <1>1, <1>7 DEF Merged
<1> HIDE DEF w
<1>9. ASSUME NEW x \in Keys PROVE Lookup(w, x) = Target(t, k, r, set, x)
  <2>1. CASE Fresh(s, t, k, r, set)
    BY <1>5, <1>6, <1>8, <2>1 DEF Fresh, Target
  <2>2. CASE Moving(s, t, k, r, set)
    BY <1>5, <1>6, <1>8, <2>2 DEF Moving
  <2> QED BY <2>1, <2>2 DEF AtFirst, AtSecond
<1> QED BY <1>4, <1>5, <1>9 DEF Inserted, w

\* It takes the place of another entry, which has its first place taken too:
\* by the key that comes, if that is where it was.
LEMMA ExchangeMoves ==
    ASSUME NEW t \in Table, WellPlaced(t), NEW k \in Keys, NEW r \in Result,
           NEW set \in BOOLEAN,
           NEW s \in LoopState, NEW q \in {First(s.table, s.key), Second(s.table, s.key)},
           s.table.id[q] \notin {NoKey, s.key},
           \/ AtSecond(s, t, k, r, set) /\ q = Second(t, k)
           \/ Moving(s, t, k, r, set)
    PROVE  Moving(Exchange(s, q), t, k, r, set)
<1>1. s.table \in Table /\ s.key \in Keys /\ q \in Slots /\ WellPlaced(s.table)
      /\ s.result \in Result
  BY PlacesAreSlots DEF LoopState, AtSecond, Fresh, Moving
<1>2. s.table.id[First(s.table, s.key)] # NoKey
  BY DEF AtSecond, Fresh, Moving
<1>3. ~Holds(s.table, s.key)
  <2>1. CASE Moving(s, t, k, r, set)
    BY <2>1 DEF Moving
  <2>2. CASE AtSecond(s, t, k, r, set) /\ q = Second(t, k)
    <3>1. ASSUME NEW j \in Slots, s.table.id[j] = s.key PROVE FALSE
      <4>1. s.key # NoKey
        BY <1>1, MacHashAssumption
      <4>2. j \in {First(t, k), Second(t, k)}
        BY <1>1, <2>2, <3>1, <4>1 DEF AtSecond, Fresh, WellPlaced, WellPlacedAt
      <4> QED BY <2>2, <3>1, <4>2 DEF AtSecond, Fresh
    <3> QED BY <3>1 DEF Holds
  <2> QED BY <2>1, <2>2
<1> DEFINE w == WithEntry(s.table, q, s.key, s.result)
           e == Exchange(s, q)
           y == s.table.id[q]
<1>4. /\ e \in LoopState /\ e.conflict /\ e.table = w /\ e.set
      /\ e.key = y /\ e.result = s.table.result[q]
  BY <1>1, ExchangeIs DEF AtSecond, Fresh, Moving
<1>5. /\ w \in Table /\ w.gen = s.table.gen /\ WellPlaced(w)
      /\ \A j \in Slots : s.table.id[j] # NoKey => w.id[j] # NoKey
      /\ Lookup(w, s.key) = s.result
      /\ \A x \in Keys : x # s.key /\ x # y => Lookup(w, x) = Lookup(s.table, x)
      /\ ~Holds(w, y)
  BY <1>1, <1>2, <1>3, EntryPlaced DEF Holds
<1>6. y \in Keys /\ y # s.key /\ Lookup(s.table, y) = s.table.result[q]
  BY <1>1, LookupIs DEF Table
<1>7. w.id[First(w, y)] # NoKey
  <2>1. First(w, y) = First(s.table, y) /\ First(s.table, y) \in Slots
    BY <1>1, <1>5, <1>6, PlacesAreSlots DEF First
  <2>2. s.table.id[First(s.table, y)] # NoKey
    BY <1>1, <1>6 DEF WellPlaced, WellPlacedAt
  <2> QED BY <1>5, <2>1, <2>2
<1> HIDE DEF w, e, y
<1>8. ASSUME NEW x \in Keys
      PROVE  Target(t, k, r, set, x) = IF x = y THEN s.table.result[q] ELSE Lookup(w, x)
  <2>1. CASE Fresh(s, t, k, r, set)
    <3>1. Lookup(s.table, s.key) = {}
      BY <1>1, <1>3, LookupIs
    <3>2. Target(t, k, r, set, s.key) = s.result
      BY <2>1, <3>1 DEF Fresh, Target
    <3>3. x # s.key => Target(t, k, r, set, x) = Lookup(s.table, x)
      BY <2>1 DEF Fresh, Target
    <3> QED BY <1>5, <1>6, <3>2, <3>3
  <2>2. CASE Moving(s, t, k, r, set)
    BY <1>5, <1>6, <2>2 DEF Moving
  <2> QED BY <2>1, <2>2 DEF AtSecond
<1>9. Moving(e, t, k, r, set)
  BY <1>4, <1>5, <1>7, <1>8 DEF Moving
<1> QED BY <1>9 DEF e

LEMMA TryStep ==
    ASSUME NEW t \in Table, WellPlaced(t), NEW k \in Keys, NEW r \in Result,
           NEW set \in BOOLEAN,
           NEW s \in LoopState, s.conflict, NEW count \in Nat,
           LoopInv(s, count, t, k, r, set)
    PROVE  LoopInv(Try(s, count), count + 1, t, k, r, set)
<1> DEFINE q == Hash[s.table.gen][s.hashtype][s.key]
<1>1. s.hashtype \in {0, 1} /\ q = IF s.hashtype = 0 THEN First(s.table, s.key)
                                                     ELSE Second(s.table, s.key)
  BY DEF LoopState, First, Second
<1>2. \/ count = 0 /\ AtFirst(s, t, k, r, set) /\ q = First(t, k)
      \/ count = 1 /\ AtSecond(s, t, k, r, set) /\ q = Second(t, k)
      \/ count > 1 /\ Moving(s, t, k, r, set)
  BY <1>1 DEF LoopInv, Inserted, AtFirst, AtSecond, Fresh
<1>3. q \in {First(s.table, s.key), Second(s.table, s.key)}
  BY <1>1
<1>4. Try(s, count) = IF ~ContainsDifferentEntry(s.table, q, s.key) THEN Place(s, q)
                      ELSE IF count = 0 THEN [s EXCEPT !.hashtype = 1 - @]
                      ELSE Exchange(s, q)
  BY DEF Try
<1> HIDE DEF q
<1>5. CASE ~ContainsDifferentEntry(s.table, q, s.key)
  <2>1. Inserted(Place(s, q), t, k, r, set)
    BY <1>2, <1>3, <1>5, PlaceInserts DEF ContainsDifferentEntry
  <2> QED BY <1>4, <1>5, <2>1 DEF LoopInv
<1>6. CASE ContainsDifferentEntry(s.table, q, s.key) /\ count = 0
  <2>1. Try(s, count) = [s EXCEPT !.hashtype = 1]
    BY <1>2, <1>4, <1>6 DEF AtFirst, LoopState
  <2>2. AtSecond(Try(s, count), t, k, r, set)
    BY <1>2, <1>6, <2>1 DEF AtFirst, AtSecond, Fresh, LoopState, ContainsDifferentEntry
  <2> QED BY <1>6, <2>2 DEF LoopInv
<1>7. CASE ContainsDifferentEntry(s.table, q, s.key) /\ count # 0
  <2>1. Moving(Exchange(s, q), t, k, r, set)
    BY <1>2, <1>3, <1>7, ExchangeMoves DEF ContainsDifferentEntry
  <2>2. Try(s, count) = Exchange(s, q)
    BY <1>4, <1>7
  <2>3. count + 1 > 1
    BY <1>7
  <2> QED BY <2>1, <2>2, <2>3 DEF LoopInv
<1> QED BY <1>5, <1>6, <1>7

\* All iterations, by induction on the tries left.
LEMMA LoopTyped ==
    ASSUME NEW tries \in Nat, NEW left \in 0 .. tries, NEW s \in LoopState
    PROVE  LET e == Loop(tries)[left][s] IN
           /\ e \in LoopState
           /\ e.table.gen = s.table.gen /\ e.table.num_entries = s.table.num_entries
<1> DEFINE Same(u, e) == /\ e \in LoopState
                         /\ e.table.gen = u.table.gen
                         /\ e.table.num_entries = u.table.num_entries
           L == Loop(tries)
           T == {n \in Nat : n <= tries => \A u \in LoopState : Same(u, L[n][u])}
<1>1. ASSUME NEW n \in 0 .. tries, NEW u \in LoopState
      PROVE  L[n][u] = IF u.conflict /\ n > 0 THEN L[n - 1][Try(u, tries - n)] ELSE u
  BY LoopUnfolds
<1> HIDE DEF L
<1>2. 0 \in T
  BY <1>1
<1>3. ASSUME NEW n \in Nat, n \in T PROVE n + 1 \in T
  <2> SUFFICES ASSUME n + 1 <= tries, NEW u \in LoopState PROVE Same(u, L[n + 1][u])
    OBVIOUS
  <2>1. L[n + 1][u] = IF u.conflict THEN L[n][Try(u, tries - (n + 1))] ELSE u
    BY <1>1
  <2>2. tries - (n + 1) \in Nat
    OBVIOUS
  <2>3. Same(u, Try(u, tries - (n + 1)))
    BY <2>2, TryTyped
  <2>4. \A v \in LoopState : Same(v, L[n][v])
    BY <1>3
  <2>5. Same(Try(u, tries - (n + 1)), L[n][Try(u, tries - (n + 1))])
    BY <2>3, <2>4
  <2> QED BY <2>1, <2>3, <2>5
<1>4. left \in T
  <2> HIDE DEF T
  <2> QED BY <1>2, <1>3, Induction
<1> QED BY <1>4 DEF L

LEMMA LoopInserts ==
    ASSUME NEW t \in Table, WellPlaced(t), NEW k \in Keys, NEW r \in Result,
           NEW set \in BOOLEAN,
           NEW tries \in Nat, NEW left \in 0 .. tries,
           NEW s \in LoopState, LoopInv(s, tries - left, t, k, r, set)
    PROVE  LET e == Loop(tries)[left][s] IN
           ~e.conflict => Inserted(e, t, k, r, set)
<1> DEFINE L == Loop(tries)
           Good(u, n) == LoopInv(u, tries - n, t, k, r, set)
           Ends(e) == ~e.conflict => Inserted(e, t, k, r, set)
           T == {n \in Nat : n <= tries => \A u \in LoopState : Good(u, n) => Ends(L[n][u])}
<1>1. ASSUME NEW n \in 0 .. tries, NEW u \in LoopState
      PROVE  L[n][u] = IF u.conflict /\ n > 0 THEN L[n - 1][Try(u, tries - n)] ELSE u
  BY LoopUnfolds
<1>2. ASSUME NEW u \in LoopState, NEW n \in Nat, Good(u, n) PROVE Ends(u)
  BY <1>2 DEF LoopInv, AtFirst, AtSecond, Fresh, Moving
<1> HIDE DEF L, Ends
<1>3. 0 \in T
  BY <1>1, <1>2
<1>4. ASSUME NEW n \in Nat, n \in T PROVE n + 1 \in T
  <2> SUFFICES ASSUME n + 1 <= tries, NEW u \in LoopState, Good(u, n + 1)
               PROVE  Ends(L[n + 1][u])
    OBVIOUS
  <2>1. L[n + 1][u] = IF u.conflict THEN L[n][Try(u, tries - (n + 1))] ELSE u
    BY <1>1
  <2>2. tries - (n + 1) \in Nat /\ tries - (n + 1) + 1 = tries - n
    OBVIOUS
  <2>3. CASE ~u.conflict
    BY <1>2, <2>1, <2>3
  <2>4. CASE u.conflict
    <3> DEFINE v == Try(u, tries - (n + 1))
    <3>1. v \in LoopState
      BY <2>2, TryTyped
    <3>2. LoopInv(v, tries - (n + 1) + 1, t, k, r, set)
      BY <2>2, <2>4, TryStep
    <3>3. Good(v, n)
      BY <2>2, <3>2
    <3>4. L[n + 1][u] = L[n][v]
      BY <2>1, <2>4
    <3> HIDE DEF v, Good
    <3>5. Ends(L[n][v])
      BY <1>4, <3>1, <3>3
    <3> QED BY <3>4, <3>5
  <2> QED BY <2>3, <2>4
<1>5. left \in T
  <2> HIDE DEF T
  <2> QED BY <1>3, <1>4, Induction
<1> QED BY <1>5 DEF L, Ends

\* insert keeps the types.
LEMMA InsertTyped ==
    ASSUME NEW t \in Table, NEW k \in Keys, NEW r \in Result, NEW set \in BOOLEAN
    PROVE  LET ins == Insert(t, k, r, set) IN
           /\ ins.success \in BOOLEAN
           /\ ins.table \in Table /\ ins.table.gen = t.gen
<1> DEFINE tries == t.num_entries + ExtraTries
           s == [table |-> t, key |-> k, result |-> r, set |-> set,
                 hashtype |-> 0, conflict |-> TRUE]
           e == Loop(tries)[tries][s]
<1>1. tries \in Nat /\ s \in LoopState
  BY MacHashAssumption DEF Table, LoopState
<1>2. e \in LoopState /\ e.table.gen = s.table.gen
  <2> HIDE DEF tries, s
  <2> QED BY <1>1, LoopTyped
<1>3. Insert(t, k, r, set) =
          IF e.conflict THEN [success |-> FALSE, table |-> e.table]
          ELSE [success |-> TRUE, table |-> [e.table EXCEPT !.num_entries = @ + 1]]
  BY DEF Insert
<1>4. s.table.gen = t.gen
  OBVIOUS
<1> HIDE DEF e, s, tries
<1>5. e.table \in Table /\ [e.table EXCEPT !.num_entries = @ + 1] \in Table
      /\ [e.table EXCEPT !.num_entries = @ + 1].gen = e.table.gen
  BY <1>2 DEF LoopState, Table
<1> QED BY <1>2, <1>3, <1>4, <1>5

\* In a table in which lookups find every entry, insert, if it succeeds,
\* makes an entry for its key or adds to the one there is, and leaves every
\* other key with what it had, however many entries it moves on.
THEOREM InsertCorrect ==
    ASSUME NEW t \in Table, WellPlaced(t), NEW k \in Keys, NEW r \in Result,
           NEW set \in BOOLEAN, Insert(t, k, r, set).success
    PROVE  /\ WellPlaced(Insert(t, k, r, set).table)
           /\ \A x \in Keys : Lookup(Insert(t, k, r, set).table, x) = Target(t, k, r, set, x)
<1> DEFINE tries == t.num_entries + ExtraTries
           s == [table |-> t, key |-> k, result |-> r, set |-> set,
                 hashtype |-> 0, conflict |-> TRUE]
           e == Loop(tries)[tries][s]
<1>1. tries \in Nat /\ s \in LoopState
  BY MacHashAssumption DEF Table, LoopState
<1>2. AtFirst(s, t, k, r, set)
  BY DEF AtFirst, Fresh
<1>3. Insert(t, k, r, set) =
          IF e.conflict THEN [success |-> FALSE, table |-> e.table]
          ELSE [success |-> TRUE, table |-> [e.table EXCEPT !.num_entries = @ + 1]]
  BY DEF Insert
<1> HIDE DEF s, tries
<1>4. e \in LoopState
  BY <1>1, LoopTyped
<1>5. LoopInv(s, tries - tries, t, k, r, set)
  BY <1>1, <1>2 DEF LoopInv
<1>6. ~e.conflict => Inserted(e, t, k, r, set)
  BY <1>1, <1>5, LoopInserts
<1> DEFINE w == [e.table EXCEPT !.num_entries = @ + 1]
<1> HIDE DEF e
<1>7. ~e.conflict /\ Insert(t, k, r, set).table = w
  BY <1>3
<1>8. e.table \in Table
  BY <1>4 DEF LoopState
<1>9. w.gen = e.table.gen /\ w.id = e.table.id /\ w.result = e.table.result
  BY <1>8 DEF Table
<1> HIDE DEF w
<1>10. /\ WellPlaced(e.table) => WellPlaced(w)
       /\ \A x \in Keys : Lookup(w, x) = Lookup(e.table, x)
  BY <1>9, SameEntries
<1> QED BY <1>6, <1>7, <1>10 DEF Inserted

----------------------------------------------------------------------------
(* The other operations.                                                   *)

Empty(t) == \A s \in Slots : t.id[s] = NoKey

LEMMA EmptyIs ==
    ASSUME NEW t \in Table, Empty(t)
    PROVE  WellPlaced(t) /\ \A k \in Keys : Lookup(t, k) = {}
<1>1. WellPlaced(t)
  BY DEF Empty, WellPlaced
<1>2. ASSUME NEW k \in Keys PROVE Lookup(t, k) = {}
  <2>1. ~Holds(t, k)
    BY MacHashAssumption DEF Empty, Holds
  <2> QED BY <1>1, <2>1, LookupIs
<1> QED BY <1>1, <1>2

LEMMA NextPolysTyped ==
    ASSUME NEW t \in Table
    PROVE  NextPolys(t) \in Table /\ NextPolys(t).id = t.id
<1>1. (t.gen + 1) % Generations \in Generation
  BY MacHashAssumption DEF Table, Generation
<1> QED BY <1>1 DEF NextPolys, Table

LEMMA ClearTableIs ==
    ASSUME NEW t \in Table
    PROVE  /\ ClearTable(t) \in Table /\ Empty(ClearTable(t))
           /\ NextPolys(Emptied(t)) \in Table /\ Empty(NextPolys(Emptied(t)))
<1>1. Emptied(t) \in Table /\ Empty(Emptied(t))
  BY DEF Emptied, Table, Empty, Result
<1>2. ASSUME NEW u \in Table PROVE [u EXCEPT !.gen = 0] \in Table /\ [u EXCEPT !.gen = 0].id = u.id
  <2>1. 0 \in Generation
    BY MacHashAssumption DEF Generation
  <2> QED BY <2>1 DEF Table
<1> QED BY <1>1, <1>2, NextPolysTyped DEF ClearTable, Empty

\* delete_entry removes the client from what a lookup finds for the key,
\* and nothing else, if the other table has the same polynomials.
LEMMA DeleteEntryTyped ==
    ASSUME NEW b \in Table, NEW h \in Table, h.gen = b.gen,
           NEW c \in Clients, NEW is_hp \in BOOLEAN, NEW k \in Keys
    PROVE  /\ PlaceToDelete(b, h, k) \in Slots
           /\ DeleteEntry(b, h, c, is_hp, k) \in Table
           /\ DeleteEntry(b, h, c, is_hp, k).gen = b.gen
           /\ DeleteEntry(b, h, c, is_hp, k).id = b.id
           /\ DeleteEntry(b, h, c, is_hp, k).result =
                  [b.result EXCEPT ![PlaceToDelete(b, h, k)] =
                       Without(b.result[PlaceToDelete(b, h, k)], c, is_hp)]
<1> DEFINE x == PlaceToDelete(b, h, k)
<1>1. x \in Slots
  BY PlacesInTable DEF PlaceToDelete, Table
<1> HIDE DEF x
<1>2. Without(b.result[x], c, is_hp) \in Result
  BY <1>1 DEF Without, Table, Result
<1>3. DeleteEntry(b, h, c, is_hp, k) = [b EXCEPT !.result[x] = Without(b.result[x], c, is_hp)]
  BY <1>1 DEF DeleteEntry, Table, x
<1> QED BY <1>1, <1>2, <1>3 DEF Table, x

LEMMA DeleteCorrect ==
    ASSUME NEW b \in Table, NEW h \in Table, h.gen = b.gen, WellPlaced(b),
           NEW c \in Clients, NEW is_hp \in BOOLEAN, NEW k \in Keys,
           Deletes(b, h, is_hp, k)
    PROVE  LET d == DeleteEntry(b, h, c, is_hp, k) IN
           /\ WellPlaced(d)
           /\ (Hp \in Lookup(b, k)) <=> is_hp
           /\ \A x \in Keys : Lookup(d, x) = IF x = k THEN Without(Lookup(b, k), c, is_hp)
                                             ELSE Lookup(b, x)
<1> DEFINE d == DeleteEntry(b, h, c, is_hp, k)
           y == PlaceToDelete(b, h, k)
<1>1. /\ y \in Slots /\ d \in Table /\ d.gen = b.gen /\ d.id = b.id
      /\ d.result = [b.result EXCEPT ![y] = Without(b.result[y], c, is_hp)]
  BY DeleteEntryTyped
<1>2. b.id[y] = k /\ ((Hp \in b.result[y]) <=> is_hp)
  BY DEF Deletes
<1> HIDE DEF d, y
<1>3. WellPlaced(d)
  <2>1. \A x : First(d, x) = First(b, x) /\ Second(d, x) = Second(b, x)
    BY <1>1 DEF First, Second
  <2>2. \A s \in Slots : WellPlacedAt(b, s) => WellPlacedAt(d, s)
    BY <1>1, <2>1 DEF WellPlacedAt
  <2> QED BY <1>1, <2>2 DEF WellPlaced
<1>4. Lookup(b, k) = b.result[y]
  BY <1>1, <1>2, LookupIs
<1>5. ASSUME NEW x \in Keys
      PROVE  Lookup(d, x) = IF x = k THEN Without(Lookup(b, k), c, is_hp) ELSE Lookup(b, x)
  <2>1. ASSUME NEW s \in Slots, b.id[s] = x
        PROVE  Lookup(d, x) = IF s = y THEN Without(b.result[y], c, is_hp) ELSE b.result[s]
    <3>1. d.id[s] = x
      BY <1>1, <2>1
    <3>2. Lookup(d, x) = d.result[s]
      BY <1>1, <1>3, <3>1, LookupIs, Zenon
    <3> QED BY <1>1, <3>2 DEF Table
  <2>2. ASSUME NEW s \in Slots, b.id[s] = x
        PROVE  Lookup(b, x) = b.result[s] /\ (s = y <=> x = k)
    <3>1. Lookup(b, x) = b.result[s]
      BY <2>2, LookupIs
    <3>2. x # NoKey
      BY MacHashAssumption
    <3> QED BY <1>1, <1>2, <2>2, <3>1, <3>2 DEF WellPlaced, WellPlacedAt
  <2>3. CASE ~Holds(b, x)
    <3>1. ~Holds(d, x) /\ x # k
      BY <1>1, <1>2, <2>3 DEF Holds
    <3>2. Lookup(d, x) = {}
      BY <1>1, <1>3, <3>1, LookupIs, Zenon
    <3> QED BY <2>3, <3>1, <3>2, LookupIs
  <2> QED BY <1>4, <2>1, <2>2, <2>3 DEF Holds
<1> QED BY <1>2, <1>3, <1>4, <1>5 DEF d

(***************************************************************************)
(* The swap of the tables.  Of the tables themselves nothing is needed to  *)
(* see that nobody looks up in the one that is being changed.              *)
(***************************************************************************)

\* The part of the type invariant that does not speak of tables.
ControlTyped ==
    /\ hash_table \in {0, 1}
    /\ waiting \in [Filters -> BOOLEAN]
    /\ active \in [Filters -> BOOLEAN]
    /\ pc \in {"idle", "refill", "insert", "flip", "check", "flag", "wait", "sync"}
    /\ pc \in {"check", "flag", "wait"} => i \in Filters
    /\ mgr \in [Filters -> {"load", "clear", "select", "stopped"}]
    /\ held \in [Filters -> {0, 1}]

\* A manager that has looked at hash_table before it was flipped.
Stale(f) == mgr[f] \in {"clear", "select"} /\ held[f] # hash_table

\* A stale manager that has been flagged will clear its flag only after it
\* has looked again.
Flagged(f) == Stale(f) => mgr[f] = "select" /\ waiting[f]

\* The filters that the configuration task has flagged, if they are active,
\* and those it has waited for.
Passed(f) == pc = "wait" \/ (pc \in {"check", "flag"} /\ f < i)
WaitedFor(f) == pc \notin {"check", "flag", "wait"} \/ (pc = "wait" /\ f < i)

SwapInv ==
    /\ ControlTyped
    /\ \A f \in Filters :
           /\ mgr[f] # "stopped" => active[f]
           /\ Passed(f) => Flagged(f)
           /\ WaitedFor(f) => ~Stale(f)

\* The filters are numbered from 0.
LEMMA FilterNumbers ==
    /\ Filters \subseteq Nat /\ 0 \in Filters
    /\ \A f \in Filters : f + 1 # MaxFilters => f + 1 \in Filters
    /\ \A f, g \in Filters : g + 1 = MaxFilters => f < g \/ f = g
    /\ \A f, g \in Filters : f < g + 1 => f < g \/ f = g
BY MacHashSwapAssumption DEF Filters

LEMMA InitSwapInv == Init => SwapInv
BY FilterNumbers DEF Init, SwapInv, ControlTyped, Passed, WaitedFor, Stale, Flagged

\* A call changes the backup table, and nobody is stale before the flip.
LEMMA CallStep ==
    ASSUME SwapInv, Call \/ RetryAdd \/ Refill
    PROVE  SwapInv'
<1>1. UNCHANGED <<hash_table, waiting, active, mgr, held>>
  BY DEF Call, AddEntry, RetryAdd, TryAdd, Delete, Clear, Refill
<1>2. /\ pc \notin {"check", "flag", "wait"}
      /\ pc' \in {"refill", "insert", "flip"}
  BY DEF Call, AddEntry, RetryAdd, TryAdd, Delete, Clear, Refill
<1> QED BY <1>1, <1>2 DEF SwapInv, ControlTyped, Passed, WaitedFor, Stale, Flagged

\* The flip makes every manager stale, and the configuration task has
\* passed none.
LEMMA FlipStep ==
    ASSUME SwapInv, Flip
    PROVE  SwapInv'
<1>1. ControlTyped'
  BY FilterNumbers DEF SwapInv, ControlTyped, Flip, Backup
<1>2. \A f \in Filters : ~Passed(f)' /\ ~WaitedFor(f)'
  BY FilterNumbers DEF Flip, Passed, WaitedFor
<1> QED BY <1>1, <1>2 DEF SwapInv, Flip

\* A filter that is not active is passed without a flag: its manager has
\* stopped, or starts and has yet to look at hash_table.
LEMMA CheckActiveStep ==
    ASSUME SwapInv, CheckActive
    PROVE  SwapInv'
<1> USE FilterNumbers
<1>1. UNCHANGED <<hash_table, waiting, active, mgr, held>>
  BY DEF CheckActive, tableVars
<1>2. i \in Filters /\ pc = "check"
  BY DEF SwapInv, ControlTyped, CheckActive
<1>3. ControlTyped'
  BY <1>1, <1>2 DEF SwapInv, ControlTyped, CheckActive, Advance
<1>4. \A f \in Filters : ~WaitedFor(f)'
  BY <1>2 DEF CheckActive, Advance, WaitedFor
<1>5. ASSUME NEW f \in Filters, Passed(f)'
      PROVE  Passed(f) \/ (f = i /\ ~active[i])
  BY <1>2, <1>5 DEF CheckActive, Advance, Passed
<1>6. \A f \in Filters : ~active[f] => Flagged(f)
  BY DEF SwapInv, Flagged, Stale
<1> QED BY <1>1, <1>3, <1>4, <1>5, <1>6 DEF SwapInv, Flagged, Stale

\* The flag goes up after a stale manager has cleared it.
LEMMA SetFlagStep ==
    ASSUME SwapInv, SetFlag
    PROVE  SwapInv'
<1> USE FilterNumbers
<1>1. UNCHANGED <<hash_table, active, mgr, held>>
  BY DEF SetFlag, tableVars
<1>2. i \in Filters /\ pc = "flag"
  BY DEF SwapInv, ControlTyped, SetFlag
<1>3. ControlTyped'
  BY <1>1, <1>2 DEF SwapInv, ControlTyped, SetFlag, Advance
<1>4. \A f \in Filters : ~WaitedFor(f)'
  BY <1>2 DEF SetFlag, Advance, WaitedFor
<1>5. ASSUME NEW f \in Filters, Passed(f)'
      PROVE  Flagged(f)'
  <2>1. Passed(f) \/ f = i
    BY <1>2, <1>5 DEF SetFlag, Advance, Passed
  <2>2. waiting'[i] = TRUE /\ (waiting[f] => waiting'[f])
    BY <1>2 DEF SetFlag, SwapInv, ControlTyped
  <2>3. Stale(i) => mgr[i] = "select"
    BY DEF SetFlag, Stale
  <2> QED BY <1>1, <2>1, <2>2, <2>3 DEF SwapInv, Flagged, Stale
<1> QED BY <1>1, <1>3, <1>4, <1>5 DEF SwapInv

\* A filter whose flag is down is not stale any more.
LEMMA WaitStep ==
    ASSUME SwapInv, Wait
    PROVE  SwapInv'
<1> USE FilterNumbers
<1>1. UNCHANGED <<hash_table, waiting, active, mgr, held>>
  BY DEF Wait, tableVars
<1>2. i \in Filters /\ pc = "wait" /\ ~waiting[i]
  BY DEF SwapInv, ControlTyped, Wait
<1>3. ControlTyped'
  BY <1>1, <1>2 DEF SwapInv, ControlTyped, Wait, Advance
<1>4. \A f \in Filters : Flagged(f)
  BY <1>2 DEF SwapInv, Passed
<1>5. ASSUME NEW f \in Filters, WaitedFor(f)'
      PROVE  WaitedFor(f) \/ f = i
  BY <1>2, <1>5 DEF Wait, Advance, WaitedFor
<1> QED BY <1>1, <1>2, <1>3, <1>4, <1>5 DEF SwapInv, Flagged, Stale

\* When the retries run out, those that have not answered have stopped.
LEMMA TimeOutStep ==
    ASSUME SwapInv, TimeOut
    PROVE  SwapInv'
<1>1. UNCHANGED <<hash_table, waiting, active, mgr, held>>
  BY DEF TimeOut, tableVars
<1>2. pc = "wait" /\ pc' = "sync"
  BY DEF TimeOut
<1>3. \A f \in Filters : ~Stale(f)
  BY <1>2 DEF SwapInv, Passed, Flagged, Stale, TimeOut
<1> QED BY <1>1, <1>2, <1>3 DEF SwapInv, ControlTyped, Passed, Stale

\* The table that managers have left is changed.
LEMMA SyncStep ==
    ASSUME SwapInv, Sync
    PROVE  SwapInv'
<1>1. UNCHANGED <<hash_table, waiting, active, mgr, held>>
  BY DEF Sync
<1>2. pc = "sync" /\ pc' = "idle"
  BY DEF Sync
<1> QED BY <1>1, <1>2 DEF SwapInv, ControlTyped, Passed, WaitedFor, Stale, Flagged

\* A manager that looks at hash_table is not stale, and one that is stale
\* and flagged does not clear its flag.
LEMMA ManagerStep ==
    ASSUME SwapInv, NEW g \in Filters, Manager(g)
    PROVE  SwapInv'
<1>1. UNCHANGED <<hash_table, active, pc, i>>
  BY DEF Manager, LoadTable, ClearFlag, Iterate, Stop, tableVars, callVars
<1>2. ControlTyped'
  BY <1>1 DEF SwapInv, ControlTyped, Manager, LoadTable, ClearFlag, Iterate, Stop
<1>3. \A f \in Filters : Stale(f)' => Stale(f)
  BY <1>1 DEF Stale, SwapInv, ControlTyped, Manager, LoadTable, ClearFlag, Iterate, Stop
<1>4. \A f \in Filters : mgr'[f] # "stopped" => mgr[f] # "stopped"
  BY DEF SwapInv, ControlTyped, Manager, LoadTable, ClearFlag, Iterate, Stop
<1>5. ASSUME NEW f \in Filters, Flagged(f) PROVE Flagged(f)'
  BY <1>1, <1>3, <1>5 DEF Flagged, Stale, SwapInv, ControlTyped,
                          Manager, LoadTable, ClearFlag, Iterate, Stop
<1> QED BY <1>1, <1>2, <1>3, <1>4, <1>5 DEF SwapInv, Passed, WaitedFor

\* Managers stop and start without a table in hand.
LEMMA MacStep ==
    ASSUME SwapInv, Mac
    PROVE  SwapInv'
<1>1. CASE ChangeSpeed
  BY <1>1 DEF SwapInv, ControlTyped, Passed, WaitedFor, Stale, Flagged, ChangeSpeed,
              tableVars, callVars
<1>2. CASE NoneActive
  BY <1>2 DEF SwapInv, ControlTyped, Passed, WaitedFor, Stale, Flagged, NoneActive,
              tableVars, callVars
<1>3. ASSUME NEW n \in 1 .. MaxFilters, Restart(n) PROVE SwapInv'
  <2>1. UNCHANGED <<hash_table, waiting, pc, i, held>>
    BY <1>3 DEF Restart, tableVars, callVars
  <2>2. active' \in [Filters -> BOOLEAN] /\ mgr' \in [Filters -> {"load", "stopped"}]
    <3>1. \A f \in Filters : (f < n) \in BOOLEAN
      OBVIOUS
    <3>2. active' = [f \in Filters |-> f < n]
      BY <1>3 DEF Restart
    <3>3. mgr' = [f \in Filters |-> IF f < n THEN "load" ELSE "stopped"]
      BY <1>3 DEF Restart
    <3>4. active' \in [Filters -> BOOLEAN]
      BY <3>1, <3>2, Zenon
    <3> QED BY <3>3, <3>4
  <2>3. \A f \in Filters : mgr'[f] # "stopped" => active'[f]
    BY <1>3 DEF Restart
  <2>4. ControlTyped'
    BY <2>1, <2>2 DEF SwapInv, ControlTyped
  <2>5. \A f \in Filters : ~Stale(f)'
    BY <2>2 DEF Stale
  <2> QED BY <2>3, <2>4, <2>5 DEF SwapInv, Flagged
<1> QED BY <1>1, <1>2, <1>3 DEF Mac

\* The invariant of the swap: macaddr_filter_hash.c against the managers.
THEOREM SwapInvariance == Spec => []SwapInv
<1>1. SwapInv /\ [Next]_vars => SwapInv'
  <2> SUFFICES ASSUME SwapInv, [Next]_vars PROVE SwapInv'
    OBVIOUS
  <2>1. CASE UNCHANGED vars
    BY <2>1 DEF vars, tableVars, callVars, SwapInv, ControlTyped, Passed, WaitedFor, Stale, Flagged
  <2>2. CASE Call
    BY <2>2, CallStep
  <2>3. CASE Config
    BY <2>3, CallStep, FlipStep, CheckActiveStep, SetFlagStep, WaitStep, TimeOutStep, SyncStep
       DEF Config
  <2>4. CASE \E f \in Filters : Manager(f)
    BY <2>4, ManagerStep
  <2>5. CASE Mac
    BY <2>5, MacStep
  <2> QED BY <2>1, <2>2, <2>3, <2>4, <2>5 DEF Next
<1> QED BY <1>1, InitSwapInv, PTL DEF Spec

\* A buffer manager never looks up an address in the table that the
\* configuration task is changing (swap_tables, mii_macaddr_get_hash_table),
\* across restarts of the managers and time-outs of the configuration task.
THEOREM LookupsAreSafe == Spec => []NoLookupInBackup
<1>1. SwapInv => NoLookupInBackup
  BY DEF SwapInv, NoLookupInBackup, WaitedFor, Stale
<1> QED BY <1>1, SwapInvariance, PTL

----------------------------------------------------------------------------
(* The types, and that the two tables are kept the same.                   *)

\* The loop index is 0 outside the loops; the refill is that of an address
\* that is added, and the copy that of a refill.
TypeInv ==
    /\ TypeOK
    /\ pc \notin {"refill", "check", "flag", "wait"} => i = 0
    /\ pc \in {"refill", "insert"} => do_memcpy
    /\ do_memcpy => op.kind = "add" /\ pc # "idle"

\* A call has changed one table, and not yet the other.
Swapping == pc \in {"flip", "check", "flag", "wait", "sync"}
OldTable == IF pc = "flip" THEN tables[hash_table] ELSE tables[Backup]
NewTable == IF pc = "flip" THEN tables[Backup] ELSE tables[hash_table]

\* Call o once more, on the other table.
Redone(o, b, h) ==
    IF o.kind = "add" THEN Insert(b, o.key, ResultFor(o.client, o.is_hp), FALSE).table
    ELSE IF o.kind = "delete" /\ Deletes(b, h, o.is_hp, o.key)
         THEN DeleteEntry(b, h, o.client, o.is_hp, o.key)
    ELSE IF o.kind = "clear" THEN ClearTable(b)
    ELSE b

\* Without a refill, the call repeated on the old table gives the new one.
SameTables ==
    /\ pc = "idle" => tables[0] = tables[1]
    /\ Swapping => do_memcpy \/ NewTable = Redone(op, OldTable, NewTable)

TablesInv == TypeInv /\ SameTables

AddOps == [kind : {"add"}, client : Clients, is_hp : BOOLEAN, key : Keys]
DeleteOps == [kind : {"delete"}, client : Clients, is_hp : BOOLEAN, key : Keys]
ClearOps == [kind : {"clear"}, client : Clients, is_hp : BOOLEAN]

LEMMA OpKinds ==
    ASSUME NEW o
    PROVE  /\ o \in AddOps => o \in Ops /\ o.kind = "add"
           /\ o \in DeleteOps => o \in Ops /\ o.kind = "delete"
           /\ o \in Ops /\ o.kind = "add" => o \in AddOps
           /\ o \in Ops /\ o.kind = "delete" => o \in DeleteOps
           /\ o \in Ops /\ o.kind = "clear" => o \in ClearOps
           /\ o \in ClearOps => o \in Ops /\ o.kind = "clear"
           /\ o \in Ops => o.kind \in {"add", "delete", "clear", "none"}
           /\ NoOp \in Ops /\ NoOp.kind = "none"
BY DEF Ops, NoOp, AddOps, DeleteOps, ClearOps

LEMMA ResultForIs ==
    ASSUME NEW c \in Clients, NEW is_hp \in BOOLEAN
    PROVE  ResultFor(c, is_hp) \in Result
BY DEF ResultFor, Result

LEMMA TablesAre ==
    ASSUME TypeOK
    PROVE  /\ hash_table \in {0, 1} /\ Backup \in {0, 1} /\ Backup # hash_table
           /\ tables[hash_table] \in Table /\ tables[Backup] \in Table
           /\ tables[0] = tables[1] <=> tables[Backup] = tables[hash_table]
BY DEF TypeOK, Backup

\* What changes tables changes the backup table alone.
LEMMA BackupChanged ==
    ASSUME TypeOK, NEW t \in Table, tables' = [tables EXCEPT ![Backup] = t], UNCHANGED hash_table
    PROVE  /\ tables' \in [{0, 1} -> Table]
           /\ tables'[Backup] = t /\ tables'[hash_table] = tables[hash_table]
           /\ Backup' = Backup
BY TablesAre DEF TypeOK, Backup

LEMMA InitTablesInv == Init => TablesInv
<1> SUFFICES ASSUME Init PROVE TablesInv
  OBVIOUS
<1>1. EmptyTable \in Table
  BY MacHashAssumption DEF EmptyTable, Table, Generation, Result
<1>2. 0 \in 0 .. MaxFilters - 1
  BY MacHashSwapAssumption
<1> QED BY <1>1, <1>2, OpKinds DEF Init, TablesInv, TypeInv, TypeOK, SameTables, Swapping

LEMMA InsertOpTyped ==
    ASSUME TypeOK, NEW o \in AddOps
    PROVE  InsertOp(o).success \in BOOLEAN /\ InsertOp(o).table \in Table
<1>1. /\ tables[Backup] \in Table /\ o.key \in Keys
      /\ ResultFor(o.client, o.is_hp) \in Result /\ FALSE \in BOOLEAN
  BY TablesAre, ResultForIs DEF AddOps
<1> QED BY <1>1, InsertTyped DEF InsertOp

\* An insertion, the first of a call or one after a refill.
LEMMA TryAddTables ==
    ASSUME TypeInv, NEW o \in AddOps, NEW refilled \in BOOLEAN, TryAdd(o, refilled), i = 0,
           ~refilled => tables[0] = tables[1]
    PROVE  TablesInv'
<1>1. /\ UNCHANGED <<hash_table, waiting, active, i, mgr, held, mac>> /\ op' = o
  BY DEF TryAdd
<1>2. \/ /\ tables' = [tables EXCEPT ![Backup] = InsertOp(o).table]
         /\ pc' = "flip" /\ do_memcpy' = refilled
      \/ /\ tables' = [tables EXCEPT ![Backup] = NextPolys(Emptied(tables[Backup]))]
         /\ pc' = "refill" /\ do_memcpy' = TRUE
  BY DEF TryAdd
<1>3. /\ InsertOp(o).table \in Table
      /\ NextPolys(Emptied(tables[Backup])) \in Table
  BY InsertOpTyped, TablesAre, ClearTableIs DEF TypeInv
<1>4. tables' \in [{0, 1} -> Table]
  BY <1>1, <1>2, <1>3, BackupChanged DEF TypeInv
<1>5. o \in Ops /\ o.kind = "add"
  BY OpKinds
<1>6. 0 \in 0 .. NumSlots - 1 /\ 0 \in 0 .. MaxFilters - 1
  BY MacHashAssumption, MacHashSwapAssumption
<1>7. TypeInv'
  BY <1>1, <1>2, <1>4, <1>5, <1>6 DEF TypeInv, TypeOK
<1>8. ASSUME ~refilled, pc' = "flip" PROVE NewTable' = Redone(op, OldTable, NewTable)'
  <2>1. tables' = [tables EXCEPT ![Backup] = InsertOp(o).table]
    BY <1>2, <1>8
  <2>2. OldTable' = tables[hash_table] /\ NewTable' = InsertOp(o).table
    BY <1>1, <1>3, <1>8, <2>1, BackupChanged DEF OldTable, NewTable, TypeInv
  <2>3. tables[Backup] = tables[hash_table]
    BY <1>8, TablesAre DEF TypeInv
  <2> QED BY <1>1, <1>5, <2>2, <2>3 DEF Redone, InsertOp
<1> QED BY <1>2, <1>7, <1>8 DEF TablesInv, SameTables, Swapping

LEMMA AddTables ==
    ASSUME TablesInv, (\E c \in Clients, k \in Keys : AddEntry(c, k)) \/ RetryAdd
    PROVE  TablesInv'
<1>1. ASSUME NEW c \in Clients, NEW k \in Keys, AddEntry(c, k)
      PROVE  TablesInv'
  <2>1. [kind |-> "add", client |-> c, is_hp |-> k \in HpKeys, key |-> k] \in AddOps
    BY DEF AddOps
  <2>2. i = 0 /\ FALSE \in BOOLEAN /\ tables[0] = tables[1]
    BY <1>1 DEF AddEntry, TablesInv, TypeInv, SameTables
  <2> QED BY <1>1, <2>1, <2>2, TryAddTables DEF AddEntry, TablesInv
<1>2. CASE RetryAdd
  <2>1. op \in AddOps /\ i = 0 /\ TRUE \in BOOLEAN
    BY <1>2, OpKinds DEF RetryAdd, TablesInv, TypeInv, TypeOK
  <2> QED BY <1>2, <2>1, TryAddTables DEF RetryAdd, TablesInv
<1> QED BY <1>1, <1>2

\* A deletion, which only changes a result: done again it does the same.
LEMMA DeleteTables ==
    ASSUME TablesInv, NEW c \in Clients, NEW k \in Keys, NEW is_hp \in BOOLEAN,
           Delete(c, is_hp, k)
    PROVE  TablesInv'
<1> DEFINE o == [kind |-> "delete", client |-> c, is_hp |-> is_hp, key |-> k]
           t == tables[hash_table]
           d == DeleteEntry(t, t, c, is_hp, k)
<1>1. /\ t \in Table /\ tables[Backup] = t /\ TypeOK /\ i = 0 /\ ~do_memcpy
  BY TablesAre DEF TablesInv, TypeInv, SameTables, Delete
<1>2. /\ Deletes(t, t, is_hp, k) /\ tables' = [tables EXCEPT ![Backup] = d]
      /\ op' = o /\ pc' = "flip"
      /\ UNCHANGED <<hash_table, waiting, active, do_memcpy, i, mgr, held, mac>>
  BY <1>1 DEF Delete
<1>3. d \in Table /\ d.gen = t.gen
  <2>1. d.gen = t.gen
    BY <1>1 DEF DeleteEntry, Table
  <2>2. \A u \in Table : DeleteEntry(u, u, c, is_hp, k) \in Table
    BY DeleteEntryTyped
  <2> QED BY <1>1, <2>1, <2>2
<1> HIDE DEF t, d
<1>4. tables' \in [{0, 1} -> Table] /\ OldTable' = t /\ NewTable' = d
  BY <1>1, <1>2, <1>3, BackupChanged DEF OldTable, NewTable, t
<1>5. o \in Ops /\ o.kind = "delete" /\ o.client = c /\ o.is_hp = is_hp /\ o.key = k
  BY OpKinds DEF DeleteOps
<1> HIDE DEF o
<1>6. TypeInv'
  <2>1. 0 \in 0 .. MaxFilters - 1
    BY MacHashSwapAssumption
  <2> QED BY <1>1, <1>2, <1>4, <1>5, <2>1 DEF TypeInv, TypeOK
<1>7. PlaceToDelete(t, d, k) = PlaceToDelete(t, t, k)
  BY <1>3 DEF PlaceToDelete
<1>8. Redone(o, t, d) = d
  BY <1>2, <1>5, <1>7 DEF Redone, Deletes, DeleteEntry, d
<1> QED BY <1>2, <1>4, <1>6, <1>8 DEF TablesInv, SameTables

LEMMA ClearTables ==
    ASSUME TablesInv, NEW c \in Clients, NEW is_hp \in BOOLEAN, Clear(c, is_hp)
    PROVE  TablesInv'
<1>1. /\ TypeOK /\ tables[Backup] = tables[hash_table] /\ i = 0 /\ ~do_memcpy
      /\ tables' = [tables EXCEPT ![Backup] = ClearTable(tables[Backup])]
      /\ op' = [kind |-> "clear", client |-> c, is_hp |-> is_hp] /\ pc' = "flip"
      /\ UNCHANGED <<hash_table, waiting, active, do_memcpy, i, mgr, held, mac>>
  BY TablesAre DEF TablesInv, TypeInv, SameTables, Clear
<1>2. ClearTable(tables[Backup]) \in Table
  BY <1>1, TablesAre, ClearTableIs
<1>3. /\ tables' \in [{0, 1} -> Table]
      /\ OldTable' = tables[Backup] /\ NewTable' = ClearTable(tables[Backup])
  BY <1>1, <1>2, BackupChanged DEF OldTable, NewTable
<1>4. op' \in Ops /\ op'.kind = "clear"
  <2>1. op' \in ClearOps
    BY <1>1 DEF ClearOps
  <2> QED BY <2>1, OpKinds
<1>5. TypeInv'
  <2>1. 0 \in 0 .. MaxFilters - 1
    BY MacHashSwapAssumption
  <2> QED BY <1>1, <1>3, <1>4, <2>1 DEF TypeInv, TypeOK
<1>6. Redone(op', OldTable', NewTable') = NewTable'
  BY <1>3, <1>4 DEF Redone
<1> QED BY <1>1, <1>5, <1>6 DEF TablesInv, SameTables

LEMMA RefillTables ==
    ASSUME TablesInv, Refill
    PROVE  TablesInv'
<1> DEFINE h == tables[hash_table]
           r == Insert(tables[Backup], h.id[i], h.result[i], TRUE)
<1>1. /\ TypeOK /\ pc = "refill" /\ do_memcpy /\ op.kind = "add" /\ i \in Slots
      /\ UNCHANGED <<hash_table, waiting, active, op, do_memcpy, mgr, held, mac>>
  BY DEF TablesInv, TypeInv, TypeOK, Refill, Slots
<1>2. /\ h \in Table /\ h.id[i] \in Keys \cup {NoKey} /\ h.result[i] \in Result
  BY <1>1, TablesAre DEF Table
<1>3. ASSUME h.id[i] # NoKey PROVE r.table \in Table /\ NextPolys(r.table) \in Table
  <2>1. r.table \in Table
    BY <1>1, <1>2, <1>3, InsertTyped, TablesAre
  <2> QED BY <2>1, NextPolysTyped
<1>4. \/ tables' = tables
      \/ h.id[i] # NoKey /\ tables' = [tables EXCEPT ![Backup] = NextPolys(r.table)]
      \/ h.id[i] # NoKey /\ tables' = [tables EXCEPT ![Backup] = r.table]
  BY DEF Refill
<1>5. /\ pc' \in {"refill", "insert"}
      /\ i' \in 0 .. NumSlots - 1
      /\ pc' = "insert" => i' = 0
  <2>1. \/ pc' = pc /\ i' = 0
        \/ /\ pc' = IF i + 1 = NumSlots THEN "insert" ELSE "refill"
           /\ i' = IF i + 1 = NumSlots THEN 0 ELSE i + 1
    BY DEF Refill
  <2> HIDE DEF h, r
  <2> QED BY <1>1, <2>1, MacHashAssumption DEF Slots
<1> HIDE DEF h, r
<1>6. tables' \in [{0, 1} -> Table]
  BY <1>1, <1>3, <1>4, BackupChanged DEF TypeOK
<1>7. 0 \in 0 .. MaxFilters - 1
  BY MacHashSwapAssumption
<1>8. TypeInv'
  BY <1>1, <1>5, <1>6, <1>7 DEF TypeInv, TypeOK
<1> QED BY <1>5, <1>8 DEF TablesInv, SameTables, Swapping

\* The tables change their roles.
LEMMA FlipTables ==
    ASSUME TablesInv, Flip
    PROVE  TablesInv'
<1>1. /\ TypeOK /\ pc = "flip" /\ pc' = "check" /\ i' = 0
      /\ hash_table' = Backup /\ Backup \in {0, 1} /\ Backup' = hash_table
      /\ UNCHANGED <<tables, waiting, active, op, do_memcpy, mgr, held, mac>>
  BY TablesAre DEF Flip, TablesInv, TypeInv, TypeOK, Backup
<1>2. 0 \in 0 .. MaxFilters - 1
  BY MacHashSwapAssumption
<1>3. TypeInv'
  BY <1>1, <1>2 DEF TablesInv, TypeInv, TypeOK
<1>4. OldTable' = OldTable /\ NewTable' = NewTable
  BY <1>1 DEF OldTable, NewTable
<1> QED BY <1>1, <1>3, <1>4 DEF TablesInv, SameTables, Swapping

LEMMA WaitTables ==
    ASSUME TablesInv, CheckActive \/ SetFlag \/ Wait \/ TimeOut
    PROVE  TablesInv'
<1>1. /\ TypeOK /\ pc \in {"check", "flag", "wait"} /\ i \in Filters
      /\ UNCHANGED <<tableVars, active, op, do_memcpy, mgr, held, mac>>
  BY DEF CheckActive, SetFlag, Wait, TimeOut, TablesInv, TypeInv, TypeOK, Filters
<1>2. waiting' \in [Filters -> BOOLEAN]
  BY DEF CheckActive, SetFlag, Wait, TimeOut, TablesInv, TypeInv, TypeOK
<1>3. /\ pc' \in {"check", "flag", "wait", "sync"} /\ i' \in Filters
      /\ pc' = "sync" => i' = 0
  BY <1>1, FilterNumbers DEF CheckActive, SetFlag, Wait, TimeOut, Advance
<1>4. TypeInv'
  BY <1>1, <1>2, <1>3 DEF TablesInv, TypeInv, TypeOK, tableVars, Filters
<1>5. OldTable' = OldTable /\ NewTable' = NewTable
  BY <1>1, <1>3 DEF OldTable, NewTable, tableVars, Backup
<1> QED BY <1>1, <1>3, <1>4, <1>5 DEF TablesInv, SameTables, Swapping

\* The old table is copied, or the call is done again on it.
LEMMA SyncTables ==
    ASSUME TablesInv, Sync
    PROVE  TablesInv' /\ tables' = [tables EXCEPT ![Backup] = tables[hash_table]]
<1>1. /\ TypeOK /\ i = 0 /\ op \in Ops /\ op.kind \in {"add", "delete", "clear", "none"}
      /\ do_memcpy => op.kind = "add"
      /\ ~do_memcpy => tables[hash_table] = Redone(op, tables[Backup], tables[hash_table])
  BY OpKinds DEF TablesInv, TypeInv, TypeOK, SameTables, Swapping, Sync, OldTable, NewTable
<1>2. /\ op' = NoOp /\ ~do_memcpy' /\ pc' = "idle"
      /\ do_memcpy' \in BOOLEAN
      /\ UNCHANGED <<hash_table, waiting, active, i, mgr, held, mac>>
  BY DEF Sync
<1>3. tables' = [tables EXCEPT ![Backup] =
                    IF do_memcpy THEN tables[hash_table]
                    ELSE Redone(op, tables[Backup], tables[hash_table])]
  BY <1>1 DEF Sync, Redone, InsertOp
<1>4. tables' = [tables EXCEPT ![Backup] = tables[hash_table]]
  BY <1>1, <1>3
<1>5. tables' \in [{0, 1} -> Table] /\ tables'[0] = tables'[1]
  BY <1>1, <1>2, <1>4, TablesAre, BackupChanged DEF TypeOK, Backup
<1>6. 0 \in 0 .. MaxFilters - 1
  BY MacHashSwapAssumption
<1>7. TypeInv'
  BY <1>1, <1>2, <1>5, <1>6, OpKinds DEF TypeInv, TypeOK
<1> QED BY <1>2, <1>4, <1>5, <1>7 DEF TablesInv, SameTables, Swapping

\* The types of what the managers and the MAC change.
OthersTypes ==
    /\ mgr \in [Filters -> {"load", "clear", "select", "stopped"}]
    /\ held \in [Filters -> {0, 1}]
    /\ mac \in {"running", "stopping", "stopped"}
    /\ waiting \in [Filters -> BOOLEAN] /\ active \in [Filters -> BOOLEAN]

\* The managers and the MAC do not change tables.
LEMMA OthersTables ==
    ASSUME TablesInv, (\E f \in Filters : Manager(f)) \/ Mac \/ UNCHANGED vars
    PROVE  TablesInv' /\ UNCHANGED <<tableVars, callVars>>
<1>1. UNCHANGED <<tableVars, callVars>>
  BY DEF Manager, LoadTable, ClearFlag, Iterate, Stop, Mac, ChangeSpeed, NoneActive, Restart,
         vars
<1>2. OthersTypes'
  <2>1. ASSUME NEW f \in Filters, Manager(f) PROVE OthersTypes'
    BY <2>1 DEF OthersTypes, Manager, LoadTable, ClearFlag, Iterate, Stop, TablesInv, TypeInv,
                TypeOK
  <2>2. CASE ChangeSpeed \/ NoneActive \/ UNCHANGED vars
    BY <2>2 DEF OthersTypes, ChangeSpeed, NoneActive, vars, TablesInv, TypeInv, TypeOK
  <2>3. ASSUME NEW n \in 1 .. MaxFilters, Restart(n) PROVE OthersTypes'
    <3>1. \A f \in Filters : (f < n) \in BOOLEAN
      OBVIOUS
    <3>2. active' \in [Filters -> BOOLEAN]
      <4>1. active' = [f \in Filters |-> f < n]
        BY <2>3 DEF Restart
      <4> QED BY <3>1, <4>1, Zenon
    <3>3. mgr' \in [Filters -> {"load", "clear", "select", "stopped"}]
      BY <2>3 DEF Restart
    <3> QED BY <2>3, <3>2, <3>3 DEF OthersTypes, Restart, TablesInv, TypeInv, TypeOK
  <2> QED BY <2>1, <2>2, <2>3 DEF Mac
<1>3. TypeInv'
  BY <1>1, <1>2 DEF OthersTypes, TablesInv, TypeInv, TypeOK, tableVars, callVars
<1>4. OldTable' = OldTable /\ NewTable' = NewTable
  BY <1>1 DEF OldTable, NewTable, Backup, tableVars, callVars
<1> QED BY <1>1, <1>3, <1>4 DEF TablesInv, SameTables, Swapping, tableVars, callVars

THEOREM Invariance == Spec => []TablesInv
<1>1. TablesInv /\ [Next]_vars => TablesInv'
  BY AddTables, DeleteTables, ClearTables, RefillTables, FlipTables, WaitTables, SyncTables,
     OthersTables DEF Next, Call, Config
<1> QED BY <1>1, InitTablesInv, PTL DEF Spec

\* Every table that the configuration task works on is one: insertions and
\* refills keep to the places, the clients and the polynomials there are.
THEOREM TypeCorrect == Spec => []TypeOK
<1>1. TablesInv => TypeOK
  BY DEF TablesInv, TypeInv
<1> QED BY <1>1, Invariance, PTL

\* When a call returns the two tables are the same: done again on the old
\* table (the end of mii_macaddr_hash_table_add_entry, _delete_entry and
\* _clear) it has the same effect, and after a refill the table is copied.
THEOREM TablesInSync == Spec => []InSync
<1>1. TablesInv => InSync
  BY DEF TablesInv, SameTables, InSync
<1> QED BY <1>1, Invariance, PTL
----------------------------------------------------------------------------
(* What the tables contain, as long as no attempt of a refill fails: one   *)
(* that does leaves entries behind for the next, which looks for them with *)
(* other polynomials.                                                      *)

\* The entry that refill_backup_table has come to finds a place.
RefillSucceeds ==
    LET h == tables[hash_table]
    IN  pc = "refill" /\ h.id[i] # NoKey =>
            Insert(tables[Backup], h.id[i], h.result[i], TRUE).success

\* Call o, told by what a lookup finds before and after it.
Done(o, from, to) ==
    \/ /\ o.kind = "add"
       /\ \A x \in Keys : Lookup(to, x) =
              IF x = o.key THEN Lookup(from, x) \cup ResultFor(o.client, o.is_hp)
              ELSE Lookup(from, x)
    \/ /\ o.kind = "delete"
       /\ (Hp \in Lookup(from, o.key)) <=> o.is_hp
       /\ \A x \in Keys : Lookup(to, x) =
              IF x = o.key THEN Without(Lookup(from, x), o.client, o.is_hp)
              ELSE Lookup(from, x)
    \/ /\ o.kind = "clear"
       /\ ClearShared \/ \A x \in Keys : Lookup(from, x) \in {{}, ResultFor(o.client, o.is_hp)}
       /\ \A x \in Keys : Lookup(to, x) = {}

SameLookups(t, u) == \A x \in Keys : Lookup(t, x) = Lookup(u, x)

\* Table b has the first n entries of table h.
Refilled(b, h, n) ==
    \A x \in Keys : Lookup(b, x) = IF \E j \in 0 .. n - 1 : h.id[j] = x THEN Lookup(h, x) ELSE {}

ContentInv ==
    /\ WellPlaced(tables[hash_table]) /\ WellPlaced(tables[Backup])
    /\ pc = "refill" => Refilled(tables[Backup], tables[hash_table], i)
    /\ pc = "insert" => SameLookups(tables[Backup], tables[hash_table])
    /\ Swapping => Done(op, OldTable, NewTable)

LEMMA InitContent == Init => ContentInv
<1>1. EmptyTable \in Table
  BY MacHashAssumption DEF EmptyTable, Table, Generation, Result
<1>2. WellPlaced(EmptyTable)
  <2>1. Empty(EmptyTable)
    BY DEF Empty, EmptyTable
  <2> QED BY <1>1, <2>1, EmptyIs
<1> QED BY <1>2 DEF Init, ContentInv, Swapping, Backup

\* What changes the backup table alone.
LEMMA BackupContent ==
    ASSUME TypeOK, NEW t \in Table, tables' = [tables EXCEPT ![Backup] = t],
           UNCHANGED hash_table, WellPlaced(tables[hash_table]), WellPlaced(t)
    PROVE  /\ WellPlaced(tables'[hash_table']) /\ WellPlaced(tables'[Backup'])
           /\ tables'[Backup'] = t /\ tables'[hash_table'] = tables[hash_table]
BY BackupChanged

LEMMA TryAddContent ==
    ASSUME TypeInv, NEW o \in AddOps, NEW refilled \in BOOLEAN, TryAdd(o, refilled), i = 0,
           WellPlaced(tables[hash_table]), WellPlaced(tables[Backup]),
           SameLookups(tables[Backup], tables[hash_table])
    PROVE  ContentInv'
<1> DEFINE b == tables[Backup]
           r == ResultFor(o.client, o.is_hp)
<1>1. /\ UNCHANGED <<hash_table, i>> /\ op' = o /\ TypeOK
  BY DEF TryAdd, TypeInv
<1>2. b \in Table /\ o.key \in Keys /\ r \in Result /\ FALSE \in BOOLEAN /\ o.kind = "add"
  BY <1>1, TablesAre, ResultForIs DEF AddOps
<1>3. InsertOp(o) = Insert(b, o.key, r, FALSE)
  BY DEF InsertOp
<1>4. CASE InsertOp(o).success
  <2>1. tables' = [tables EXCEPT ![Backup] = InsertOp(o).table] /\ pc' = "flip"
    BY <1>4 DEF TryAdd
  <2> DEFINE w == InsertOp(o).table
  <2>2. w \in Table
    BY <1>1, InsertOpTyped
  <2>3. WellPlaced(w) /\ \A x \in Keys : Lookup(w, x) = Target(b, o.key, r, FALSE, x)
    <3>1. WellPlaced(b)
      OBVIOUS
    <3>2. Insert(b, o.key, r, FALSE).success
      BY <1>3, <1>4
    <3> HIDE DEF b, r
    <3>3. /\ WellPlaced(Insert(b, o.key, r, FALSE).table)
          /\ \A x \in Keys : Lookup(Insert(b, o.key, r, FALSE).table, x) =
                               Target(b, o.key, r, FALSE, x)
      BY <1>2, <3>1, <3>2, InsertCorrect
    <3> QED BY <1>3, <3>3
  <2> HIDE DEF w
  <2>4. /\ WellPlaced(tables'[hash_table']) /\ WellPlaced(tables'[Backup'])
        /\ tables'[Backup'] = w /\ tables'[hash_table'] = tables[hash_table]
    BY <1>1, <2>1, <2>2, <2>3, BackupContent DEF w
  <2>5. Done(o, tables[hash_table], w)
    BY <1>2, <2>3 DEF Done, Target, SameLookups
  <2> QED BY <1>1, <2>1, <2>4, <2>5 DEF ContentInv, OldTable, NewTable, Swapping
<1>5. CASE ~InsertOp(o).success
  <2> DEFINE w == NextPolys(Emptied(b))
  <2>1. tables' = [tables EXCEPT ![Backup] = w] /\ pc' = "refill"
    BY <1>5 DEF TryAdd
  <2>2. w \in Table /\ Empty(w)
    BY <1>2, ClearTableIs
  <2> HIDE DEF w
  <2>3. WellPlaced(w) /\ \A x \in Keys : Lookup(w, x) = {}
    BY <2>2, EmptyIs
  <2>4. /\ WellPlaced(tables'[hash_table']) /\ WellPlaced(tables'[Backup'])
        /\ tables'[Backup'] = w /\ tables'[hash_table'] = tables[hash_table]
    BY <1>1, <2>1, <2>2, <2>3, BackupContent
  <2>5. Refilled(w, tables[hash_table], 0)
    <3>1. \A j \in 0 .. 0 - 1 : FALSE
      OBVIOUS
    <3> QED BY <2>3, <3>1 DEF Refilled
  <2> QED BY <1>1, <2>1, <2>4, <2>5 DEF ContentInv, Swapping
<1> QED BY <1>4, <1>5

LEMMA AddContent ==
    ASSUME TablesInv, ContentInv, (\E c \in Clients, k \in Keys : AddEntry(c, k)) \/ RetryAdd
    PROVE  ContentInv'
<1>1. ASSUME NEW c \in Clients, NEW k \in Keys, AddEntry(c, k)
      PROVE  ContentInv'
  <2>1. [kind |-> "add", client |-> c, is_hp |-> k \in HpKeys, key |-> k] \in AddOps
    BY DEF AddOps
  <2>2. i = 0 /\ FALSE \in BOOLEAN /\ tables[Backup] = tables[hash_table]
    BY <1>1, TablesAre DEF AddEntry, TablesInv, TypeInv, SameTables
  <2>3. SameLookups(tables[Backup], tables[hash_table])
    BY <2>2 DEF SameLookups
  <2> QED BY <1>1, <2>1, <2>2, <2>3, TryAddContent DEF AddEntry, TablesInv, ContentInv
<1>2. CASE RetryAdd
  <2>1. op \in AddOps /\ i = 0 /\ TRUE \in BOOLEAN
    BY <1>2, OpKinds DEF RetryAdd, TablesInv, TypeInv, TypeOK
  <2> QED BY <1>2, <2>1, TryAddContent DEF RetryAdd, TablesInv, ContentInv
<1> QED BY <1>1, <1>2

LEMMA DeleteContent ==
    ASSUME TablesInv, ContentInv, NEW c \in Clients, NEW k \in Keys, NEW is_hp \in BOOLEAN,
           Delete(c, is_hp, k)
    PROVE  ContentInv'
<1> DEFINE o == [kind |-> "delete", client |-> c, is_hp |-> is_hp, key |-> k]
           t == tables[hash_table]
           d == DeleteEntry(t, t, c, is_hp, k)
<1>1. /\ t \in Table /\ tables[Backup] = t /\ TypeOK
  BY TablesAre DEF TablesInv, TypeInv, SameTables, Delete
<1>2. /\ Deletes(t, t, is_hp, k) /\ tables' = [tables EXCEPT ![Backup] = d]
      /\ op' = o /\ pc' = "flip" /\ UNCHANGED <<hash_table, i>>
  BY <1>1 DEF Delete
<1>3. WellPlaced(t)
  BY DEF ContentInv
<1>4. d \in Table
  <2>1. \A u \in Table : DeleteEntry(u, u, c, is_hp, k) \in Table
    BY DeleteEntryTyped
  <2> QED BY <1>1, <2>1
<1>5. /\ WellPlaced(d)
      /\ (Hp \in Lookup(t, k)) <=> is_hp
      /\ \A x \in Keys : Lookup(d, x) = IF x = k THEN Without(Lookup(t, k), c, is_hp)
                                        ELSE Lookup(t, x)
  <2> HIDE DEF t
  <2> QED BY <1>1, <1>2, <1>3, DeleteCorrect
<1> HIDE DEF d, t
<1>6. /\ WellPlaced(tables'[hash_table']) /\ WellPlaced(tables'[Backup'])
      /\ tables'[Backup'] = d /\ tables'[hash_table'] = t
  BY <1>1, <1>2, <1>3, <1>4, <1>5, BackupContent DEF t
<1>7. o.kind = "delete" /\ o.client = c /\ o.is_hp = is_hp /\ o.key = k
  OBVIOUS
<1> HIDE DEF o
<1>8. Done(o, t, d)
  BY <1>5, <1>7 DEF Done
<1> QED BY <1>2, <1>6, <1>8 DEF ContentInv, OldTable, NewTable, Swapping

LEMMA ClearContent ==
    ASSUME TablesInv, ContentInv, NEW c \in Clients, NEW is_hp \in BOOLEAN, Clear(c, is_hp)
    PROVE  ContentInv'
<1> DEFINE w == ClearTable(tables[Backup])
<1>1. TypeOK /\ WellPlaced(tables[hash_table])
  BY DEF TablesInv, TypeInv, ContentInv
<1>2. w \in Table /\ Empty(w)
  BY <1>1, TablesAre, ClearTableIs
<1>3. /\ tables' = [tables EXCEPT ![Backup] = w]
      /\ op'.kind = "clear" /\ op'.client = c /\ op'.is_hp = is_hp
      /\ ClearShared \/ OnlyOf(c, is_hp)
      /\ pc' = "flip" /\ UNCHANGED <<hash_table, i>>
  BY DEF Clear
<1> HIDE DEF w
<1>4. WellPlaced(w) /\ \A x \in Keys : Lookup(w, x) = {}
  BY <1>2, EmptyIs
<1>5. /\ WellPlaced(tables'[hash_table']) /\ WellPlaced(tables'[Backup'])
      /\ tables'[Backup'] = w /\ tables'[hash_table'] = tables[hash_table]
  BY <1>1, <1>2, <1>3, <1>4, BackupContent
<1>6. Done(op', tables[hash_table], w)
  BY <1>3, <1>4 DEF Done, OnlyOf
<1> QED BY <1>3, <1>5, <1>6 DEF ContentInv, OldTable, NewTable, Swapping

LEMMA RefilledOneMore ==
    ASSUME NEW b, NEW w, NEW h \in Table, WellPlaced(h), NEW n \in Slots, Refilled(b, h, n),
           \A x \in Keys : Lookup(w, x) = IF x = h.id[n] THEN h.result[n] ELSE Lookup(b, x)
    PROVE  Refilled(w, h, n + 1)
<1> SUFFICES ASSUME NEW x \in Keys
             PROVE  Lookup(w, x) = IF \E j \in 0 .. (n + 1) - 1 : h.id[j] = x THEN Lookup(h, x)
                                   ELSE {}
  BY DEF Refilled
<1>1. (\E j \in 0 .. (n + 1) - 1 : h.id[j] = x) <=> (h.id[n] = x \/ \E j \in 0 .. n - 1 : h.id[j] = x)
  <2>1. n \in Nat
    BY MacHashAssumption DEF Slots
  <2>2. \A j : j \in 0 .. (n + 1) - 1 <=> j \in 0 .. n - 1 \/ j = n
    BY <2>1
  <2> QED BY <2>2
<1>2. h.id[n] = x => Lookup(h, x) = h.result[n]
  BY LookupIs
<1> QED BY <1>1, <1>2 DEF Refilled

LEMMA RefilledAll ==
    ASSUME NEW b, NEW h \in Table, WellPlaced(h), Refilled(b, h, NumSlots)
    PROVE  SameLookups(b, h)
<1>1. ASSUME NEW x \in Keys PROVE Lookup(b, x) = Lookup(h, x)
  <2>1. (\E j \in 0 .. NumSlots - 1 : h.id[j] = x) <=> Holds(h, x)
    BY DEF Holds, Slots
  <2> QED BY <2>1, LookupIs DEF Refilled
<1> QED BY <1>1 DEF SameLookups

\* An entry without an id is not one of an address.
LEMMA RefillContent ==
    ASSUME TablesInv, ContentInv, RefillSucceeds, Refill
    PROVE  ContentInv'
<1> DEFINE h == tables[hash_table]
           b == tables[Backup]
           r == Insert(b, h.id[i], h.result[i], TRUE)
           w == IF h.id[i] = NoKey THEN b ELSE r.table
<1>1. /\ TypeOK /\ pc = "refill" /\ i \in Slots /\ UNCHANGED hash_table
      /\ h \in Table /\ b \in Table /\ Refilled(b, h, i) /\ WellPlaced(h) /\ WellPlaced(b)
      /\ h.id[i] # NoKey => r.success
  BY TablesAre DEF Refill, TablesInv, TypeInv, TypeOK, Slots, ContentInv, RefillSucceeds
<1>2. /\ tables' = IF h.id[i] = NoKey THEN tables ELSE [tables EXCEPT ![Backup] = r.table]
      /\ i' = IF i + 1 = NumSlots THEN 0 ELSE i + 1
      /\ pc' = IF i + 1 = NumSlots THEN "insert" ELSE "refill"
  BY <1>1 DEF Refill
<1> HIDE DEF h, b
<1>3. h.id[i] \in Keys \cup {NoKey} /\ h.result[i] \in Result /\ TRUE \in BOOLEAN
  BY <1>1 DEF Table
<1>4. /\ w \in Table /\ WellPlaced(w)
      /\ \A x \in Keys : Lookup(w, x) = IF x = h.id[i] THEN h.result[i] ELSE Lookup(b, x)
  <2>1. CASE h.id[i] = NoKey
    BY <1>1, <2>1, MacHashAssumption
  <2>2. CASE h.id[i] # NoKey
    <3>1. r.table \in Table
      BY <1>1, <1>3, <2>2, InsertTyped
    <3>2. WellPlaced(r.table) /\ \A x \in Keys :
              Lookup(r.table, x) = Target(b, h.id[i], h.result[i], TRUE, x)
      BY <1>1, <1>3, <2>2, InsertCorrect
    <3> QED BY <2>2, <3>1, <3>2 DEF Target
  <2> QED BY <2>1, <2>2
<1>5. tables' = [tables EXCEPT ![Backup] = w]
  BY <1>1, <1>2, TablesAre DEF TypeOK, b
<1> HIDE DEF w, r
<1>6. Refilled(w, h, i + 1)
  BY <1>1, <1>4, RefilledOneMore
<1>7. /\ WellPlaced(tables'[hash_table']) /\ WellPlaced(tables'[Backup'])
      /\ tables'[Backup'] = w /\ tables'[hash_table'] = h
  BY <1>1, <1>4, <1>5, BackupContent DEF h
<1>8. CASE i + 1 = NumSlots
  <2>1. SameLookups(w, h)
    BY <1>1, <1>6, <1>8, RefilledAll
  <2> QED BY <1>2, <1>7, <1>8, <2>1 DEF ContentInv, Swapping
<1>9. CASE i + 1 # NumSlots
  BY <1>2, <1>6, <1>7, <1>9 DEF ContentInv, Swapping
<1> QED BY <1>8, <1>9

LEMMA FlipContent ==
    ASSUME TablesInv, ContentInv, Flip
    PROVE  ContentInv'
<1>1. /\ TypeOK /\ pc = "flip" /\ pc' = "check" /\ hash_table' = Backup /\ Backup' = hash_table
      /\ UNCHANGED <<tables, op>>
  BY DEF Flip, TablesInv, TypeInv, TypeOK, Backup
<1>2. OldTable' = OldTable /\ NewTable' = NewTable
  BY <1>1 DEF OldTable, NewTable
<1> QED BY <1>1, <1>2 DEF ContentInv, Swapping

LEMMA WaitContent ==
    ASSUME TablesInv, ContentInv, CheckActive \/ SetFlag \/ Wait \/ TimeOut
    PROVE  ContentInv' /\ UNCHANGED tableVars
<1>1. /\ pc \in {"check", "flag", "wait"} /\ pc' \in {"check", "flag", "wait", "sync"}
      /\ UNCHANGED <<tableVars, op>>
  BY DEF CheckActive, SetFlag, Wait, TimeOut, Advance
<1>2. OldTable' = OldTable /\ NewTable' = NewTable
  BY <1>1 DEF OldTable, NewTable, tableVars, Backup
<1> QED BY <1>1, <1>2 DEF ContentInv, Swapping, tableVars, Backup

LEMMA SyncContent ==
    ASSUME TablesInv, ContentInv, Sync
    PROVE  ContentInv'
<1>1. /\ TypeOK /\ tables[hash_table] \in Table /\ UNCHANGED hash_table /\ pc' = "idle"
      /\ tables' = [tables EXCEPT ![Backup] = tables[hash_table]]
  BY SyncTables, TablesAre DEF TablesInv, TypeInv, Sync
<1>2. WellPlaced(tables[hash_table])
  BY DEF ContentInv
<1>3. WellPlaced(tables'[hash_table']) /\ WellPlaced(tables'[Backup'])
  BY <1>1, <1>2, BackupContent
<1> QED BY <1>1, <1>3 DEF ContentInv, Swapping

LEMMA OthersContent ==
    ASSUME TablesInv, ContentInv, (\E f \in Filters : Manager(f)) \/ Mac \/ UNCHANGED vars
    PROVE  ContentInv'
<1>1. UNCHANGED <<tableVars, callVars>>
  BY OthersTables
<1>2. OldTable' = OldTable /\ NewTable' = NewTable
  BY <1>1 DEF OldTable, NewTable, Backup, tableVars, callVars
<1> QED BY <1>1, <1>2 DEF ContentInv, Swapping, Backup, tableVars, callVars

\* What the tables contain: during a refill the part of the other table that
\* it has come to, and after a call that other table and its effect.
THEOREM Contents == Spec /\ []RefillSucceeds => []ContentInv
<1>1. TablesInv /\ ContentInv /\ RefillSucceeds /\ [Next]_vars => ContentInv'
  BY AddContent, DeleteContent, ClearContent, RefillContent, FlipContent, WaitContent,
     SyncContent, OthersContent DEF Next, Call, Config
<1> QED BY <1>1, InitContent, Invariance, PTL DEF Spec
\* Each address is found at one of its two places and is in the table once,
\* whatever entries insert has moved: while no attempt of a refill fails.
THEOREM EntriesAreFound == Spec /\ []RefillSucceeds => []EntriesFindable
<1>1. ContentInv => EntriesFindable
  BY DEF ContentInv, WellPlaced, WellPlacedAt, First, Second, EntriesFindable
<1> QED BY <1>1, Contents, PTL

\* An address that is added is found, and one that is deleted is not, when
\* the configuration task has swapped the tables.
THEOREM CallsTakeEffect == Spec /\ []RefillSucceeds => []CallTakesEffect
<1>1. TypeOK /\ ContentInv => CallTakesEffect
  <2> SUFFICES ASSUME TypeOK, ContentInv, pc = "sync" PROVE CallTakesEffect
    BY DEF CallTakesEffect
  <2>1. Done(op, tables[Backup], tables[hash_table]) /\ op \in Ops
    BY DEF ContentInv, Swapping, OldTable, NewTable, TypeOK
  <2>2. ASSUME op.kind = "add"
        PROVE  ResultFor(op.client, op.is_hp) \subseteq Lookup(tables[hash_table], op.key)
    <3>1. op.key \in Keys
      BY <2>1, <2>2, OpKinds DEF AddOps
    <3> QED BY <2>1, <2>2, <3>1 DEF Done
  <2>3. ASSUME op.kind = "delete"
        PROVE  op.client \notin Lookup(tables[hash_table], op.key)
    <3>1. op.key \in Keys
      BY <2>1, <2>3, OpKinds DEF DeleteOps
    <3> QED BY <2>1, <2>3, <3>1 DEF Done, Without
  <2> QED BY <2>2, <2>3 DEF CallTakesEffect
<1> QED BY <1>1, TypeCorrect, Contents, PTL

\* What a lookup finds: the variable of FilterTable.
Found(t) == [k \in Keys |-> Lookup(t, k)]

\* Without the filters of client c, when there are no others.
ClearsOnly(c, is_hp, from, to) ==
    /\ \A x \in Keys : Lookup(from, x) \in {{}, ResultFor(c, is_hp)}
    /\ Found(to) = [x \in Keys |-> {}]

LEMMA DoneIsStep ==
    ASSUME ~ClearShared, NEW o \in Ops, NEW from, NEW to, Done(o, from, to)
    PROVE  \/ \E c \in Clients, is_hp \in BOOLEAN, k \in Keys :
                  \/ Found(to) = [Found(from) EXCEPT ![k] = @ \cup Abstract!Bits(c, is_hp)]
                  \/ /\ (Hp \in Found(from)[k]) <=> is_hp
                     /\ Found(to) = [Found(from) EXCEPT ![k] = Abstract!Without(@, c, is_hp)]
           \/ \E c \in Clients, is_hp \in BOOLEAN : ClearsOnly(c, is_hp, from, to)
<1>1. CASE /\ o.kind = "add"
           /\ \A x \in Keys : Lookup(to, x) =
                  IF x = o.key THEN Lookup(from, x) \cup ResultFor(o.client, o.is_hp)
                  ELSE Lookup(from, x)
  <2>1. o.key \in Keys /\ o.client \in Clients /\ o.is_hp \in BOOLEAN
    BY <1>1, OpKinds DEF AddOps
  <2>2. ResultFor(o.client, o.is_hp) = Abstract!Bits(o.client, o.is_hp)
    BY DEF ResultFor, Abstract!Bits
  <2>3. Found(to) = [Found(from) EXCEPT ![o.key] = @ \cup Abstract!Bits(o.client, o.is_hp)]
    BY <1>1, <2>2 DEF Found
  <2> QED BY <2>1, <2>3
<1>2. CASE /\ o.kind = "delete"
           /\ (Hp \in Lookup(from, o.key)) <=> o.is_hp
           /\ \A x \in Keys : Lookup(to, x) =
                  IF x = o.key THEN Without(Lookup(from, x), o.client, o.is_hp)
                  ELSE Lookup(from, x)
  <2>1. o.key \in Keys /\ o.client \in Clients /\ o.is_hp \in BOOLEAN
    BY <1>2, OpKinds DEF DeleteOps
  <2>2. Found(to) = [Found(from) EXCEPT ![o.key] = Abstract!Without(@, o.client, o.is_hp)]
    BY <1>2 DEF Found, Without, Abstract!Without
  <2>3. (Hp \in Found(from)[o.key]) <=> o.is_hp
    BY <1>2, <2>1 DEF Found
  <2> QED BY <2>1, <2>2, <2>3
<1>3. CASE /\ o.kind = "clear"
           /\ ClearShared \/ \A x \in Keys : Lookup(from, x) \in {{}, ResultFor(o.client, o.is_hp)}
           /\ \A x \in Keys : Lookup(to, x) = {}
  <2>1. o.client \in Clients /\ o.is_hp \in BOOLEAN
    BY <1>3, OpKinds DEF ClearOps
  <2>2. ClearsOnly(o.client, o.is_hp, from, to)
    BY <1>3 DEF ClearsOnly, Found
  <2> QED BY <2>1, <2>2
<1> QED BY <1>1, <1>2, <1>3 DEF Done

\* A result of one client alone is removed with that client.
LEMMA ClearsOnlyIsDeleteAll ==
    ASSUME NEW c \in Clients, NEW is_hp \in BOOLEAN, NEW from, NEW to,
           ClearsOnly(c, is_hp, from, to)
    PROVE  Found(to) = [k \in Keys |-> IF (Hp \in Found(from)[k]) = is_hp
                                       THEN Abstract!Without(Found(from)[k], c, is_hp)
                                       ELSE Found(from)[k]]
<1>1. ASSUME NEW k \in Keys
      PROVE  (IF (Hp \in Found(from)[k]) = is_hp THEN Abstract!Without(Found(from)[k], c, is_hp)
              ELSE Found(from)[k]) = {}
  <2>1. Found(from)[k] \in {{}, ResultFor(c, is_hp)}
    BY DEF ClearsOnly, Found
  <2>2. CASE Found(from)[k] = {}
    BY <2>2 DEF Abstract!Without
  <2>3. CASE Found(from)[k] = ResultFor(c, is_hp) /\ is_hp
    BY <2>3 DEF ResultFor, Abstract!Without
  <2>4. CASE Found(from)[k] = ResultFor(c, is_hp) /\ ~is_hp
    <3>1. c # Hp
      BY MacHashAssumption
    <3> QED BY <2>4, <3>1 DEF ResultFor, Abstract!Without
  <2> QED BY <2>1, <2>2, <2>3, <2>4
<1> QED BY <1>1 DEF ClearsOnly

\* Lookups change when the tables are swapped, and by what the call is for:
\* while no attempt of a refill fails, and del_all_macaddr_filters is called
\* when no other client has filters.
THEOREM RefinesFilterTable ==
    ASSUME ~ClearShared
    PROVE  Spec /\ []RefillSucceeds => ImplementsFilterTable
<1> DEFINE filters == [k \in Keys |-> Lookup(tables[hash_table], k)]
<1>1. Init => Abstract!Init
  <2> SUFFICES ASSUME Init PROVE \A k \in Keys : Lookup(tables[hash_table], k) = {}
    BY DEF Abstract!Init
  <2>1. EmptyTable \in Table /\ Empty(EmptyTable)
    BY MacHashAssumption DEF EmptyTable, Table, Generation, Result, Empty
  <2> QED BY <2>1, EmptyIs DEF Init
<1>2. TablesInv /\ ContentInv /\ [Next]_vars => [Abstract!Next]_filters
  <2> SUFFICES ASSUME TablesInv, ContentInv, [Next]_vars PROVE [Abstract!Next]_filters
    OBVIOUS
  <2>1. ASSUME Flip PROVE Abstract!Next
    <3>1. /\ pc = "flip" /\ tables' = tables /\ hash_table' = Backup /\ op \in Ops
          /\ Done(op, tables[hash_table], tables[Backup])
      BY <2>1 DEF Flip, ContentInv, Swapping, OldTable, NewTable, TablesInv, TypeInv, TypeOK
    <3>2. filters = Found(tables[hash_table]) /\ filters' = Found(tables[Backup])
      BY <3>1 DEF Found
    <3> DEFINE from == tables[hash_table]
               to == tables[Backup]
    <3>3. ASSUME NEW c \in Clients, NEW is_hp \in BOOLEAN, NEW k \in Keys,
                 Found(to) = [Found(from) EXCEPT ![k] = @ \cup Abstract!Bits(c, is_hp)]
          PROVE  Abstract!Add(c, is_hp, k)
      BY <3>2, <3>3 DEF Abstract!Add
    <3>4. ASSUME NEW c \in Clients, NEW is_hp \in BOOLEAN, NEW k \in Keys,
                 (Hp \in Found(from)[k]) <=> is_hp,
                 Found(to) = [Found(from) EXCEPT ![k] = Abstract!Without(@, c, is_hp)]
          PROVE  Abstract!Delete(c, is_hp, k)
      BY <3>2, <3>4 DEF Abstract!Delete
    <3>5. ASSUME NEW c \in Clients, NEW is_hp \in BOOLEAN, ClearsOnly(c, is_hp, from, to)
          PROVE  Abstract!DeleteAll(c, is_hp)
      BY <3>2, <3>5, ClearsOnlyIsDeleteAll DEF Abstract!DeleteAll
    <3> HIDE DEF from, to, filters
    <3>6. Done(op, from, to)
      BY <3>1 DEF from, to
    <3> QED BY <3>1, <3>3, <3>4, <3>5, <3>6, DoneIsStep DEF Abstract!Next
  <2>2. ASSUME UNCHANGED hash_table, tables'[hash_table] = tables[hash_table]
        PROVE  filters' = filters
    BY <2>2
  <2>3. ASSUME Call \/ RetryAdd \/ Refill
        PROVE  UNCHANGED hash_table /\ tables'[hash_table] = tables[hash_table]
    BY <2>3, TablesAre DEF Call, AddEntry, RetryAdd, TryAdd, Delete, Clear, Refill,
       TablesInv, TypeInv, TypeOK
  <2>4. ASSUME Sync
        PROVE  UNCHANGED hash_table /\ tables'[hash_table] = tables[hash_table]
    BY <2>4, TablesAre DEF Sync, TablesInv, TypeInv, TypeOK
  <2>5. ASSUME \/ CheckActive \/ SetFlag \/ Wait \/ TimeOut
               \/ (\E f \in Filters : Manager(f)) \/ Mac \/ UNCHANGED vars
        PROVE  UNCHANGED <<tables, hash_table>>
    BY <2>5, WaitContent, OthersTables DEF tableVars
  <2> QED BY <2>1, <2>2, <2>3, <2>4, <2>5 DEF Next, Config
<1> QED BY <1>1, <1>2, Invariance, Contents, PTL DEF Spec, ImplementsFilterTable, Abstract!Spec
=============================================================================
