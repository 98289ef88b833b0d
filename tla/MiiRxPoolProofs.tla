--------------------------- MODULE MiiRxPoolProofs ---------------------------
(***************************************************************************)
(* The safety properties of MiiRxPool.  rx_pins reads the shared pointer   *)
(* before the frame it is for begins, so that what it knows is old: by the *)
(* frames that come until the server publishes again, and by those that    *)
(* had come since it published before.  Everything is measured backwards   *)
(* from wrptr, in the words of so many longest frames.                     *)
(***************************************************************************)
EXTENDS MiiRxPool, SequenceTheorems, TLAPS

\* The frames that the pool has to have room for, whatever is in the queues:
\* those that wait for the filter and those of two rounds of the server.
Backlog == MaxIncoming + 2 * MaxLag

\* The words of the pool there are for each, and that they are enough, with
\* the words that mii_commit skips.
Share == (PoolEnd - 1) \div Backlog
PoolHoldsFrames == \A n \in FrameWords : HeaderWords + n + MinUsage - 1 <= Share

\* The words of k frames.
Span(k) == k * Share

\* No frame is about to be committed whose last words are so near the end
\* of the pool that mii_commit goes on to word 0, while that is where the
\* oldest packet starts.
NotOnOldest == ~(rx.got \in FrameWords /\ rx.dptr > LastSafe /\ rx.end = 0)

----------------------------------------------------------------------------
(* The memory.                                                             *)

\* How many words t comes after s.
Gap(s, t) == IF t >= s THEN t - s ELSE t - s + PoolEnd

\* The sizes of the pool are numbers that fit each other.
LEMMA PoolSizes ==
    /\ PoolEnd \in Nat /\ HeaderWords \in Nat /\ MinUsage \in Nat
    /\ 0 < HeaderWords /\ HeaderWords < MinUsage /\ MinUsage < PoolEnd
    /\ NullPtr \notin Int /\ DummyPtr \notin Int
    /\ \A n \in FrameWords : n \in Nat /\ 0 < n /\ n + HeaderWords < PoolEnd
  BY MempoolAssumption, MiiRxPoolAssumption

LEMMA BoundsAre ==
    /\ MaxIncoming \in Nat /\ 0 < MaxIncoming /\ MaxLag \in Nat /\ 0 < MaxLag
    /\ Backlog \in Nat /\ 3 <= Backlog
  BY MiiRxPoolAssumption DEF Backlog

LEMMA SpanIs ==
    /\ Share \in Nat /\ Span(Backlog - 1) + Share < PoolEnd
    /\ \A k \in Nat : Span(k) \in Nat /\ Span(k + 1) = Span(k) + Share
    /\ \A j, k \in Nat : j <= k => Span(j) <= Span(k)
    /\ Span(1) = Share
<1>1. Share \in Nat /\ Backlog * Share <= PoolEnd - 1
  <2>1. \A f \in Nat \ {0}, p \in Nat : p \div f \in Nat /\ f * (p \div f) <= p
    OBVIOUS
  <2>2. PoolEnd - 1 \in Nat
    BY PoolSizes
  <2> QED BY <2>1, <2>2, BoundsAre DEF Share
<1>2. \A a \in Nat, k \in Nat : k * a \in Nat /\ (k + 1) * a = k * a + a /\ 1 * a = a
  OBVIOUS
<1>3. \A a \in Nat, j \in Nat, k \in Nat : j <= k => j * a <= k * a
  <2> SUFFICES ASSUME NEW a \in Nat, NEW j \in Nat, NEW k \in Nat, j <= k
               PROVE  j * a <= k * a
    OBVIOUS
  <2>1. PICK d \in Nat : k = j + d
    <3>1. k - j \in Nat /\ k = j + (k - j)
      OBVIOUS
    <3> QED BY <3>1
  <2>2. k * a = j * a + d * a /\ d * a \in Nat /\ j * a \in Nat
    BY <2>1
  <2> QED BY <2>2
<1>4. Backlog - 1 \in Nat /\ (Backlog - 1) + 1 = Backlog
  BY BoundsAre
<1>5. Span(Backlog - 1) + Share = Backlog * Share
  BY <1>1, <1>2, <1>4 DEF Span
<1>6. \A k \in Nat : Span(k) \in Nat /\ Span(k + 1) = Span(k) + Share
  BY <1>1, <1>2 DEF Span
<1>7. \A j, k \in Nat : j <= k => Span(j) <= Span(k)
  BY <1>1, <1>3 DEF Span
<1>8. Span(1) = Share
  BY <1>1, <1>2 DEF Span
<1>9. Span(Backlog - 1) + Share < PoolEnd
  <2>1. \A f \in Nat, a \in Nat : f * a \in Nat
    OBVIOUS
  <2>2. PICK m \in Nat : m = Backlog * Share
    BY <2>1, <1>1, BoundsAre
  <2> QED BY <2>2, <1>1, <1>5, PoolSizes
<1> QED BY <1>1, <1>6, <1>7, <1>8, <1>9

LEMMA ShareIs ==
    /\ Share \in Nat /\ 3 * Share < PoolEnd
    /\ Span(Backlog - 1) \in Nat /\ Span(Backlog - 1) + Share < PoolEnd
<1>1. PICK k \in Nat : k = Backlog - 1 /\ 2 <= k
  BY BoundsAre
<1>2. Span(k) \in Nat /\ Span(2) <= Span(k) /\ Span(k) + Share < PoolEnd
  BY <1>1, SpanIs
<1>3. Span(2) = Share + Share
  <2>1. 1 \in Nat /\ 1 + 1 = 2
    OBVIOUS
  <2> QED BY <2>1, SpanIs
<1> QED BY <1>1, <1>2, <1>3, SpanIs, PoolSizes

LEMMA GapIs ==
    ASSUME NEW s \in Word, NEW t \in Word
    PROVE  Gap(s, t) \in 0 .. PoolEnd - 1 /\ Gap(s, s) = 0 /\ (Gap(s, t) = 0 => s = t)
  BY PoolSizes DEF Gap, Word

LEMMA SafeWord == 0 .. LastSafe \subseteq Word
  BY PoolSizes DEF LastSafe, Word

\* Walking on from a word, and how far one has come.
LEMMA GapAfter ==
    ASSUME NEW o \in Word, NEW s \in Word, NEW j \in Nat, Gap(o, s) + j < PoolEnd
    PROVE  WordAfter(s, j) \in Word /\ Gap(o, WordAfter(s, j)) = Gap(o, s) + j
  BY PoolSizes DEF Gap, WordAfter, Word

\* Packets that lie behind each other have no word in common.
LEMMA WordsApart ==
    ASSUME NEW o \in Word, NEW s \in Word, NEW t \in Word, NEW l \in Nat, NEW n \in Nat,
           Gap(o, s) + HeaderWords + l <= Gap(o, t),
           Gap(o, t) + HeaderWords + n <= PoolEnd
    PROVE  WordsOf(s, l) \cap WordsOf(t, n) = {}
<1> SUFFICES ASSUME NEW j \in 0 .. HeaderWords + l - 1, NEW k \in 0 .. HeaderWords + n - 1,
                    WordAfter(s, j) = WordAfter(t, k)
             PROVE  FALSE
  BY DEF WordsOf
<1>1. Gap(o, s) \in Nat /\ Gap(o, t) \in Nat
  BY GapIs, PoolSizes
<1>2. j \in Nat /\ Gap(o, s) + j < PoolEnd /\ Gap(o, s) + j < Gap(o, t)
  BY <1>1, PoolSizes
<1>3. k \in Nat /\ Gap(o, t) + k < PoolEnd
  BY <1>1, PoolSizes
<1>4. Gap(o, WordAfter(s, j)) = Gap(o, s) + j
  BY <1>2, GapAfter
<1>5. Gap(o, WordAfter(t, k)) = Gap(o, t) + k
  BY <1>3, GapAfter
<1> QED BY <1>1, <1>2, <1>3, <1>4, <1>5

\* Going from s to w and on to x, less than once round, is going from s to x.
LEMMA GapAdds ==
    ASSUME NEW s \in Word, NEW w \in Word, NEW x \in Word, Gap(s, w) + Gap(w, x) < PoolEnd
    PROVE  Gap(s, x) = Gap(s, w) + Gap(w, x)
  BY PoolSizes DEF Gap, Word

----------------------------------------------------------------------------
(* How far back packets lie.                                               *)

\* Where packets start, and how long they are.
Placed == [start : 0 .. LastSafe, len : FrameWords]

\* Seen from word w, p lies behind q.
Older(p, q, w) == Gap(q.start, w) + HeaderWords + p.len <= Gap(p.start, w)

\* All packets of s lie before word w.
Inside(s, w) == \A i \in 1 .. Len(s) : HeaderWords + s[i].len <= Gap(s[i].start, w)

\* The packets of s lie in the order they are in, oldest first.
InAge(s, w) == \A i, j \in 1 .. Len(s) : i < j => Older(s[i], s[j], w)

\* Of a packet of s and one of t, either lies behind the other.
Apart(s, t, w) ==
    \A i \in 1 .. Len(s), j \in 1 .. Len(t) : Older(s[i], t[j], w) \/ Older(t[j], s[i], w)

\* All packets of s are older than any of t.
Before(s, t, w) == \A i \in 1 .. Len(s), j \in 1 .. Len(t) : Older(s[i], t[j], w)

\* All packets of s start at most b words before w.
Reach(s, w, b) == \A i \in 1 .. Len(s) : Gap(s[i].start, w) <= b

\* How far back from w nothing is overwritten, if a frame stops at word v:
\* there is room for a frame in any case.
Cover(v, w) ==
    IF v # NullPtr /\ Gap(v, w) > Span(Backlog - 1) THEN Gap(v, w) ELSE Span(Backlog - 1)

LEMMA CoverIs ==
    ASSUME NEW w \in Word, NEW v, v = NullPtr \/ v \in Word
    PROVE  /\ Cover(v, w) \in Nat /\ Span(Backlog - 1) <= Cover(v, w)
           /\ v # NullPtr => Gap(v, w) \in Nat /\ Gap(v, w) <= Cover(v, w)
<1>1. v # NullPtr => Gap(v, w) \in Nat
  BY GapIs, PoolSizes
<1>2. Span(Backlog - 1) \in Nat
  BY SpanIs, BoundsAre
<1> QED BY <1>1, <1>2 DEF Cover

\* When wrptr moves from w to x, every word at most b before w gets as much
\* further away.
Shifts(w, x, b) == \A s \in Word : Gap(s, w) <= b => Gap(s, x) = Gap(s, w) + Gap(w, x)

\* The write pointer moves past a frame of n words which did not end on the
\* word e it stops at, by a share of the pool at most and not past e.
LEMMA CommitShifts ==
    ASSUME PoolHoldsFrames, NEW w \in 0 .. LastSafe, NEW n \in FrameWords, NEW e,
           e = NullPtr \/ (e \in 0 .. LastSafe /\ Gap(e, w) + HeaderWords + n <= PoolEnd),
           WordAfter(w, HeaderWords + n) # e,
           ~(WordAfter(w, HeaderWords + n) > LastSafe /\ e = 0),
           NEW x, x = Commit(WordAfter(w, HeaderWords + n))
    PROVE  /\ x \in 0 .. LastSafe
           /\ HeaderWords + n <= Gap(w, x) /\ Gap(w, x) <= Share
           /\ Shifts(w, x, Cover(e, w))
<1> DEFINE m == HeaderWords + n
           d == WordAfter(w, m)
<1>1. m \in Nat /\ 0 < m /\ m < PoolEnd /\ m + MinUsage - 1 <= Share
  BY PoolSizes DEF PoolHoldsFrames
<1>2. w \in Word /\ Gap(w, w) = 0
  BY SafeWord, GapIs
<1>3. d \in Word /\ Gap(w, d) = m
  BY <1>1, <1>2, GapAfter
<1>4. d # e /\ ~(d > LastSafe /\ e = 0) /\ x = Commit(d)
  OBVIOUS
<1>5. e = NullPtr \/ (e \in 0 .. LastSafe /\ Gap(e, w) + m <= PoolEnd)
  <2>1. ASSUME e \in 0 .. LastSafe, Gap(e, w) + HeaderWords + n <= PoolEnd
        PROVE  Gap(e, w) + m <= PoolEnd
    <3>1. Gap(e, w) \in Nat /\ n \in Nat
      BY <2>1, <1>2, SafeWord, GapIs, PoolSizes
    <3> QED BY <3>1, <2>1, PoolSizes
  <2> QED BY <2>1
<1> HIDE DEF m, d
<1>6. x \in 0 .. LastSafe
  BY <1>3, <1>4, PoolSizes DEF Commit, LastSafe, Word
<1>7. m <= Gap(w, x) /\ Gap(w, x) <= m + MinUsage - 1
  <2>1. CASE d > LastSafe
    BY <2>1, <1>1, <1>2, <1>3, <1>4, PoolSizes, ShareIs DEF Commit, LastSafe, Gap, Word
  <2>2. CASE ~(d > LastSafe)
    BY <2>2, <1>1, <1>3, <1>4, PoolSizes DEF Commit
  <2> QED BY <2>1, <2>2
<1>8. x \in Word /\ Gap(w, x) \in Nat
  BY <1>2, <1>6, SafeWord, GapIs, PoolSizes
<1>9. Gap(w, x) <= Share
  BY <1>1, <1>7, <1>8, PoolSizes, ShareIs
<1>10. Cover(e, w) + Gap(w, x) < PoolEnd
  <2>1. CASE e # NullPtr /\ Gap(e, w) > Span(Backlog - 1)
    <3>1. e \in 0 .. LastSafe /\ e \in Word /\ Gap(e, w) + m <= PoolEnd
      BY <2>1, <1>5, SafeWord
    <3>2. Gap(e, w) + m < PoolEnd
      BY <3>1, <1>1, <1>2, <1>3, <1>4, PoolSizes DEF Gap, Word
    <3>3. Gap(e, d) = Gap(e, w) + m
      BY <3>1, <3>2, <1>2, <1>3, GapAdds
    <3>4. Gap(e, w) + Gap(w, x) < PoolEnd
      <4>1. CASE d > LastSafe
        <5>1. x = 0 /\ e > 0
          BY <4>1, <3>1, <1>4 DEF Commit
        <5>2. e < d
          BY <4>1, <3>1, <1>3, PoolSizes DEF LastSafe, Word
        <5> QED BY <5>1, <5>2, <3>1, <3>3, <1>1, <1>2, <1>3, <1>7, PoolSizes, ShareIs DEF Gap, Word
      <4>2. CASE ~(d > LastSafe)
        BY <4>2, <3>2, <1>3, <1>4 DEF Commit
      <4> QED BY <4>1, <4>2
    <3> QED BY <2>1, <3>4 DEF Cover
  <2>2. CASE ~(e # NullPtr /\ Gap(e, w) > Span(Backlog - 1))
    <3>1. Span(Backlog - 1) \in Nat
      BY ShareIs, BoundsAre
    <3> QED BY <2>2, <3>1, <1>8, <1>9, ShareIs, PoolSizes DEF Cover
  <2> QED BY <2>1, <2>2
<1>11. Shifts(w, x, Cover(e, w))
  <2> SUFFICES ASSUME NEW s \in Word, Gap(s, w) <= Cover(e, w)
               PROVE  Gap(s, x) = Gap(s, w) + Gap(w, x)
    BY DEF Shifts
  <2>1. Gap(s, w) \in Nat /\ Cover(e, w) \in Nat
    BY <1>2, <1>5, SafeWord, GapIs, CoverIs, PoolSizes
  <2>2. Gap(s, w) + Gap(w, x) < PoolEnd
    BY <2>1, <1>8, <1>10, PoolSizes
  <2> QED BY <2>2, <1>2, <1>8, GapAdds
<1> QED BY <1>6, <1>7, <1>9, <1>11 DEF m

\* Gaps of the packets of a sequence are numbers.
LEMMA PlacedIs ==
    ASSUME NEW s \in Seq(Placed), NEW w \in Word
    PROVE  /\ Len(s) \in Nat
           /\ \A i \in 1 .. Len(s) :
                 /\ s[i] \in Placed /\ s[i].start \in Word /\ s[i].start \in 0 .. LastSafe
                 /\ s[i].len \in FrameWords /\ s[i].len \in Nat
                 /\ Gap(s[i].start, w) \in 0 .. PoolEnd - 1
<1> SUFFICES ASSUME NEW i \in 1 .. Len(s)
             PROVE  /\ s[i] \in Placed /\ s[i].start \in Word /\ s[i].start \in 0 .. LastSafe
                    /\ s[i].len \in FrameWords /\ s[i].len \in Nat
                    /\ Gap(s[i].start, w) \in 0 .. PoolEnd - 1
  BY LenProperties
<1>1. s[i] \in Placed
  BY ElementOfSeq
<1>2. s[i].start \in 0 .. LastSafe /\ s[i].len \in FrameWords
  BY <1>1 DEF Placed
<1>3. s[i].start \in Word /\ s[i].len \in Nat
  BY <1>2, SafeWord, PoolSizes
<1>4. Gap(s[i].start, w) \in 0 .. PoolEnd - 1
  BY <1>3, GapIs
<1> QED BY <1>1, <1>2, <1>3, <1>4

\* What moving wrptr from w to x does to how packets lie.
LEMMA ReachShifts ==
    ASSUME NEW s \in Seq(Placed), NEW w \in Word, NEW x \in Word, NEW b,
           Shifts(w, x, b), Reach(s, w, b), NEW c \in Int, Reach(s, w, c)
    PROVE  Reach(s, x, c + Gap(w, x))
<1> SUFFICES ASSUME NEW i \in 1 .. Len(s)
             PROVE  Gap(s[i].start, x) <= c + Gap(w, x)
  BY DEF Reach
<1>1. Gap(s[i].start, w) <= c /\ Gap(s[i].start, w) <= b
  BY DEF Reach
<1>2. Gap(s[i].start, x) = Gap(s[i].start, w) + Gap(w, x)
  BY <1>1, PlacedIs DEF Shifts
<1>3. Gap(s[i].start, w) \in Int /\ Gap(w, x) \in Int
  BY PlacedIs, GapIs
<1> QED BY <1>1, <1>2, <1>3

LEMMA OlderShifts ==
    ASSUME NEW s \in Seq(Placed), NEW t \in Seq(Placed), NEW w \in Word, NEW x \in Word, NEW b,
           Shifts(w, x, b), Reach(s, w, b), Reach(t, w, b),
           NEW i \in 1 .. Len(s), NEW j \in 1 .. Len(t), Older(s[i], t[j], w)
    PROVE  Older(s[i], t[j], x)
<1>1. Gap(s[i].start, w) <= b /\ Gap(t[j].start, w) <= b
  BY DEF Reach
<1>2. /\ Gap(s[i].start, x) = Gap(s[i].start, w) + Gap(w, x)
      /\ Gap(t[j].start, x) = Gap(t[j].start, w) + Gap(w, x)
  BY <1>1, PlacedIs DEF Shifts
<1>3. /\ Gap(s[i].start, w) \in Int /\ Gap(t[j].start, w) \in Int /\ Gap(w, x) \in Int
      /\ s[i].len \in Nat
  BY PlacedIs, GapIs
<1>4. Gap(t[j].start, w) + HeaderWords + s[i].len <= Gap(s[i].start, w)
  BY DEF Older
<1>5. Gap(t[j].start, x) + HeaderWords + s[i].len <= Gap(s[i].start, x)
  BY <1>2, <1>3, <1>4, PoolSizes
<1> QED BY <1>5 DEF Older

LEMMA InsideShifts ==
    ASSUME NEW s \in Seq(Placed), NEW w \in Word, NEW x \in Word, NEW b,
           Shifts(w, x, b), Reach(s, w, b), Inside(s, w)
    PROVE  Inside(s, x)
<1> SUFFICES ASSUME NEW i \in 1 .. Len(s)
             PROVE  HeaderWords + s[i].len <= Gap(s[i].start, x)
  BY DEF Inside
<1>1. Gap(s[i].start, w) <= b /\ HeaderWords + s[i].len <= Gap(s[i].start, w)
  BY DEF Reach, Inside
<1>2. Gap(s[i].start, x) = Gap(s[i].start, w) + Gap(w, x)
  BY <1>1, PlacedIs DEF Shifts
<1>3. Gap(s[i].start, w) \in Int /\ Gap(w, x) \in Nat /\ s[i].len \in Nat
  BY PlacedIs, GapIs, PoolSizes
<1> QED BY <1>1, <1>2, <1>3, PoolSizes

\* A new packet that starts where wrptr was is the youngest.
LEMMA NewestLast ==
    ASSUME NEW s \in Seq(Placed), NEW w \in Word, NEW x \in Word, NEW b,
           Shifts(w, x, b), Reach(s, w, b), Inside(s, w),
           NEW t \in Seq(Placed), \A j \in 1 .. Len(t) : t[j].start = w
    PROVE  Before(s, t, x)
<1> SUFFICES ASSUME NEW i \in 1 .. Len(s), NEW j \in 1 .. Len(t)
             PROVE  Gap(t[j].start, x) + HeaderWords + s[i].len <= Gap(s[i].start, x)
  BY DEF Before, Older
<1>1. Gap(s[i].start, w) <= b /\ HeaderWords + s[i].len <= Gap(s[i].start, w)
  BY DEF Reach, Inside
<1>2. Gap(s[i].start, x) = Gap(s[i].start, w) + Gap(w, x) /\ t[j].start = w
  BY <1>1, PlacedIs DEF Shifts
<1>3. Gap(s[i].start, w) \in Int /\ Gap(w, x) \in Nat /\ s[i].len \in Nat
  BY PlacedIs, GapIs, PoolSizes
<1> QED BY <1>1, <1>2, <1>3, PoolSizes

----------------------------------------------------------------------------
(* Packets that come and go.                                               *)

\* t is s without some of its elements.
Thinned(s, t) ==
    \E f \in [1 .. Len(t) -> 1 .. Len(s)] :
        /\ \A i \in 1 .. Len(t) : t[i] = s[f[i]]
        /\ \A i, j \in 1 .. Len(t) : i < j => f[i] < f[j]

\* What is true of packets in a sequence is true of what is left of it.
LEMMA ThinnedKeeps ==
    ASSUME NEW s, NEW t, NEW u, NEW w, NEW b, Thinned(s, t)
    PROVE  /\ Inside(s, w) => Inside(t, w)
           /\ InAge(s, w) => InAge(t, w)
           /\ Reach(s, w, b) => Reach(t, w, b)
           /\ Before(s, u, w) => Before(t, u, w)
           /\ Before(u, s, w) => Before(u, t, w)
           /\ Apart(s, u, w) => Apart(t, u, w)
           /\ Apart(u, s, w) => Apart(u, t, w)
<1>1. PICK f \in [1 .. Len(t) -> 1 .. Len(s)] :
          /\ \A i \in 1 .. Len(t) : t[i] = s[f[i]]
          /\ \A i, j \in 1 .. Len(t) : i < j => f[i] < f[j]
  BY DEF Thinned
<1>2. \A i \in 1 .. Len(t) : f[i] \in 1 .. Len(s)
  OBVIOUS
<1>3. Inside(s, w) => Inside(t, w)
  BY <1>1, <1>2 DEF Inside
<1>4. InAge(s, w) => InAge(t, w)
  BY <1>1, <1>2 DEF InAge
<1>5. Reach(s, w, b) => Reach(t, w, b)
  BY <1>1, <1>2 DEF Reach
<1>6. Before(s, u, w) => Before(t, u, w)
  BY <1>1, <1>2 DEF Before
<1>7. Apart(s, u, w) => Apart(t, u, w)
  BY <1>1, <1>2 DEF Apart
<1>8. Apart(u, s, w) => Apart(u, t, w)
  BY <1>1, <1>2 DEF Apart
<1>9. Before(u, s, w) => Before(u, t, w)
  BY <1>1, <1>2 DEF Before
<1> QED BY <1>3, <1>4, <1>5, <1>6, <1>7, <1>8, <1>9

\* A function that says which elements are left.
LEMMA ThinnedBy ==
    ASSUME NEW s, NEW t, NEW f \in [1 .. Len(t) -> 1 .. Len(s)],
           \A i \in 1 .. Len(t) : t[i] = s[f[i]],
           \A i, j \in 1 .. Len(t) : i < j => f[i] < f[j]
    PROVE  Thinned(s, t)
  BY DEF Thinned

LEMMA TailThins ==
    ASSUME NEW A, NEW s \in Seq(A), s # <<>>
    PROVE  Tail(s) \in Seq(A) /\ Thinned(s, Tail(s))
<1>1. /\ Tail(s) \in Seq(A) /\ Len(Tail(s)) = Len(s) - 1 /\ Len(s) \in Nat \ {0}
      /\ \A i \in 1 .. Len(Tail(s)) : Tail(s)[i] = s[i + 1]
  BY HeadTailProperties, EmptySeq
<1>2. PICK t : t = Tail(s)
  OBVIOUS
<1>3. PICK f : f = [i \in 1 .. Len(t) |-> i + 1]
  OBVIOUS
<1>4. f \in [1 .. Len(t) -> 1 .. Len(s)] /\ \A i \in 1 .. Len(t) : f[i] = i + 1
  BY <1>1, <1>2, <1>3
<1>5. \A i \in 1 .. Len(t) : t[i] = s[f[i]]
  BY <1>1, <1>2, <1>4
<1>6. \A i, j \in 1 .. Len(t) : i < j => f[i] < f[j]
  BY <1>4
<1>7. Thinned(s, t)
  BY <1>4, <1>5, <1>6, ThinnedBy
<1> QED BY <1>1, <1>2, <1>7

LEMMA RemovalThins ==
    ASSUME NEW A, NEW s \in Seq(A), NEW i \in 1 .. Len(s)
    PROVE  /\ SubSeq(s, 1, i - 1) \o SubSeq(s, i + 1, Len(s)) \in Seq(A)
           /\ Thinned(s, SubSeq(s, 1, i - 1) \o SubSeq(s, i + 1, Len(s)))
<1>1. Len(s) \in Nat /\ i \in Int /\ \A k \in 1 .. Len(s) : s[k] \in A
  BY LenProperties, ElementOfSeq
<1>2. PICK u, v, t : /\ u = SubSeq(s, 1, i - 1) /\ v = SubSeq(s, i + 1, Len(s))
                     /\ t = SubSeq(s, 1, i - 1) \o SubSeq(s, i + 1, Len(s))
  OBVIOUS
<1>3. u \in Seq(A) /\ Len(u) = i - 1 /\ \A k \in 1 .. i - 1 : u[k] = s[k]
  <2>1. 1 \in Int /\ i - 1 \in Int /\ \A k \in 1 .. i - 1 : s[k] \in A
    BY <1>1
  <2>2. /\ u \in Seq(A) /\ Len(u) = IF 1 <= i - 1 THEN (i - 1) - 1 + 1 ELSE 0
        /\ \A k \in 1 .. (i - 1) - 1 + 1 : u[k] = s[1 + k - 1]
    BY <1>2, <2>1, SubSeqProperties
  <2> QED BY <1>1, <2>2
<1>4. v \in Seq(A) /\ Len(v) = Len(s) - i /\ \A k \in 1 .. Len(s) - i : v[k] = s[i + k]
  <2>1. i + 1 \in Int /\ Len(s) \in Int /\ \A k \in i + 1 .. Len(s) : s[k] \in A
    BY <1>1
  <2>2. /\ v \in Seq(A) /\ Len(v) = IF i + 1 <= Len(s) THEN Len(s) - (i + 1) + 1 ELSE 0
        /\ \A k \in 1 .. Len(s) - (i + 1) + 1 : v[k] = s[(i + 1) + k - 1]
    BY <1>2, <2>1, SubSeqProperties
  <2> QED BY <1>1, <2>2
<1>5. t = u \o v
  BY <1>2
<1>6. /\ t \in Seq(A) /\ Len(t) = Len(u) + Len(v)
      /\ \A k \in 1 .. Len(u) + Len(v) : t[k] = IF k <= Len(u) THEN u[k] ELSE v[k - Len(u)]
  BY <1>3, <1>4, <1>5, ConcatProperties
<1>7. Len(t) = Len(s) - 1
  BY <1>1, <1>3, <1>4, <1>6
<1>8. PICK f : f = [k \in 1 .. Len(t) |-> IF k < i THEN k ELSE k + 1]
  OBVIOUS
<1>9. /\ f \in [1 .. Len(t) -> 1 .. Len(s)]
      /\ \A k \in 1 .. Len(t) : f[k] = IF k < i THEN k ELSE k + 1
  BY <1>1, <1>7, <1>8
<1>10. ASSUME NEW k \in 1 .. Len(t)
       PROVE  t[k] = s[f[k]]
  <2>1. CASE k < i
    BY <2>1, <1>1, <1>3, <1>4, <1>6, <1>7, <1>9
  <2>2. CASE ~(k < i)
    <3>1. k - (i - 1) \in 1 .. Len(s) - i /\ i + (k - (i - 1)) = k + 1
      BY <2>2, <1>1, <1>7
    <3>2. v[k - (i - 1)] = s[k + 1]
      BY <3>1, <1>4
    <3>3. t[k] = v[k - (i - 1)]
      BY <2>2, <1>1, <1>3, <1>6
    <3> QED BY <2>2, <3>2, <3>3, <1>9
  <2> QED BY <2>1, <2>2
<1>11. \A j, k \in 1 .. Len(t) : j < k => f[j] < f[k]
  BY <1>1, <1>9
<1>12. Thinned(s, t)
  BY <1>9, <1>10, <1>11, ThinnedBy
<1> QED BY <1>2, <1>6, <1>12

LEMMA ReachMore ==
    ASSUME NEW s \in Seq(Placed), NEW w \in Word, NEW b \in Int, NEW c \in Int, b <= c, Reach(s, w, b)
    PROVE  Reach(s, w, c)
<1> SUFFICES ASSUME NEW i \in 1 .. Len(s)
             PROVE  Gap(s[i].start, w) <= c
  BY DEF Reach
<1>1. Gap(s[i].start, w) \in Int /\ Gap(s[i].start, w) <= b
  BY PlacedIs DEF Reach
<1> QED BY <1>1

\* There is nothing to say of no packets.
LEMMA NoPackets ==
    ASSUME NEW s, Len(s) = 0, NEW t, NEW w, NEW b
    PROVE  Inside(s, w) /\ InAge(s, w) /\ Before(t, s, w) /\ Reach(s, w, b)
<1>1. \A i \in 1 .. Len(s) : FALSE
  OBVIOUS
<1> QED BY <1>1 DEF Inside, InAge, Before, Reach

\* A packet that is added to a queue and is the youngest of all.
LEMMA AppendKeeps ==
    ASSUME NEW s \in Seq(Placed), NEW u \in Seq(Placed), Len(u) = 1, NEW v, NEW w, NEW b,
           NEW t, t = Append(s, Head(u))
    PROVE  /\ t \in Seq(Placed)
           /\ Inside(s, w) /\ Inside(u, w) => Inside(t, w)
           /\ InAge(s, w) /\ Before(s, u, w) => InAge(t, w)
           /\ Reach(s, w, b) /\ Reach(u, w, b) => Reach(t, w, b)
           /\ Apart(s, v, w) /\ Before(v, u, w) => Apart(t, v, w)
           /\ Apart(v, s, w) /\ Before(v, u, w) => Apart(v, t, w)
           /\ Before(s, v, w) /\ Before(u, v, w) => Before(t, v, w)
           /\ Before(v, s, w) /\ Before(v, u, w) => Before(v, t, w)
<1>1. 1 \in 1 .. Len(u) /\ u[1] \in Placed
  <2>1. 1 \in 1 .. Len(u)
    OBVIOUS
  <2> QED BY <2>1, ElementOfSeq
<1>2. Head(u) = u[1]
  OBVIOUS
<1>3. PICK p \in Placed : p = u[1]
  BY <1>1
<1>4. t = Append(s, p)
  BY <1>2, <1>3
<1>5. /\ Len(s) \in Nat /\ t \in Seq(Placed) /\ Len(t) = Len(s) + 1 /\ t[Len(s) + 1] = p
      /\ \A i \in 1 .. Len(s) : t[i] = s[i]
  BY <1>4
<1>6. \A i \in 1 .. Len(t) : i \in 1 .. Len(s) \/ (i = Len(s) + 1 /\ t[i] = u[1])
  BY <1>3, <1>5
<1>7. Inside(s, w) /\ Inside(u, w) => Inside(t, w)
  BY <1>1, <1>5, <1>6 DEF Inside
<1>8. InAge(s, w) /\ Before(s, u, w) => InAge(t, w)
  <2> SUFFICES ASSUME InAge(s, w), Before(s, u, w), NEW i \in 1 .. Len(t), NEW j \in 1 .. Len(t), i < j
               PROVE  Older(t[i], t[j], w)
    BY DEF InAge
  <2>1. i \in 1 .. Len(s)
    BY <1>5
  <2>2. CASE j \in 1 .. Len(s)
    BY <2>1, <2>2, <1>5 DEF InAge
  <2>3. CASE t[j] = u[1]
    BY <2>1, <2>3, <1>1, <1>5 DEF Before
  <2> QED BY <2>2, <2>3, <1>6
<1>9. Reach(s, w, b) /\ Reach(u, w, b) => Reach(t, w, b)
  BY <1>1, <1>5, <1>6 DEF Reach
<1>10. Apart(s, v, w) /\ Before(v, u, w) => Apart(t, v, w)
  BY <1>1, <1>5, <1>6 DEF Apart, Before
<1>11. Apart(v, s, w) /\ Before(v, u, w) => Apart(v, t, w)
  BY <1>1, <1>5, <1>6 DEF Apart, Before
<1>12. Before(s, v, w) /\ Before(u, v, w) => Before(t, v, w)
  BY <1>1, <1>5, <1>6 DEF Before
<1>13. Before(v, s, w) /\ Before(v, u, w) => Before(v, t, w)
  BY <1>1, <1>5, <1>6 DEF Before
<1> QED BY <1>5, <1>7, <1>8, <1>9, <1>10, <1>11, <1>12, <1>13

LEMMA AloneIs ==
    ASSUME NEW p \in Placed
    PROVE  \E u \in Seq(Placed) : Len(u) = 1 /\ u[1] = p /\ Head(u) = p
<1>1. PICK u : u = Append(<<>>, p)
  OBVIOUS
<1>2. u \in Seq(Placed) /\ Len(u) = 1 /\ u[1] = p
  BY <1>1
<1>3. Head(u) = u[1]
  BY <1>2
<1> QED BY <1>2, <1>3

\* The oldest packet of a queue, on its own.
LEMMA HeadAlone ==
    ASSUME NEW s \in Seq(Placed), s # <<>>, NEW w
    PROVE  \E u \in Seq(Placed) :
               /\ Len(u) = 1 /\ Head(u) = Head(s)
               /\ Inside(s, w) => Inside(u, w)
               /\ \A b : Reach(s, w, b) => Reach(u, w, b)
               /\ \A v : Before(v, s, w) => Before(v, u, w)
               /\ InAge(s, w) => Before(u, Tail(s), w)
<1>1. /\ Len(s) \in Nat \ {0} /\ 1 \in 1 .. Len(s) /\ Head(s) = s[1] /\ Head(s) \in Placed
      /\ Len(Tail(s)) = Len(s) - 1
      /\ \A i \in 1 .. Len(Tail(s)) : Tail(s)[i] = s[i + 1]
  BY EmptySeq, HeadTailProperties
<1>2. PICK p \in Placed : p = s[1]
  BY <1>1
<1>3. PICK u \in Seq(Placed) : Len(u) = 1 /\ u[1] = p /\ Head(u) = p
  BY AloneIs
<1>4. \A i \in 1 .. Len(u) : u[i] = s[1]
  BY <1>2, <1>3
<1>5. Inside(s, w) => Inside(u, w)
  BY <1>1, <1>4 DEF Inside
<1>6. \A b : Reach(s, w, b) => Reach(u, w, b)
  BY <1>1, <1>4 DEF Reach
<1>7. \A v : Before(v, s, w) => Before(v, u, w)
  BY <1>1, <1>4 DEF Before
<1>8. ASSUME InAge(s, w) PROVE Before(u, Tail(s), w)
  <2> SUFFICES ASSUME NEW i \in 1 .. Len(u), NEW j \in 1 .. Len(Tail(s))
               PROVE  Older(u[i], Tail(s)[j], w)
    BY DEF Before
  <2>1. j + 1 \in 1 .. Len(s) /\ 1 < j + 1 /\ Tail(s)[j] = s[j + 1]
    BY <1>1
  <2>2. Older(s[1], s[j + 1], w)
    BY <2>1, <1>1, <1>8 DEF InAge
  <2> QED BY <2>1, <2>2, <1>4
<1> QED BY <1>1, <1>2, <1>3, <1>5, <1>6, <1>7, <1>8

----------------------------------------------------------------------------
(* Packets that have just been committed.                                  *)

\* The last packet of s is within a frame of w, the one before within two.
Stacked(s, w) == \A i \in 1 .. Len(s) : Gap(s[i].start, w) <= Span(Len(s) - i + 1)

LEMMA StackedReach ==
    ASSUME NEW s \in Seq(Placed), NEW w \in Word, Stacked(s, w), NEW k \in Nat, Len(s) <= k
    PROVE  Reach(s, w, Span(k))
<1> SUFFICES ASSUME NEW i \in 1 .. Len(s)
             PROVE  Gap(s[i].start, w) <= Span(k)
  BY DEF Reach
<1>1. Gap(s[i].start, w) \in Nat /\ Len(s) \in Nat
  BY PlacedIs, PoolSizes
<1>2. PICK j \in Nat : j = Len(s) - i + 1 /\ j <= k
  BY <1>1
<1>3. Gap(s[i].start, w) <= Span(j)
  BY <1>2 DEF Stacked
<1>4. Span(j) <= Span(k) /\ Span(j) \in Nat /\ Span(k) \in Nat
  BY <1>2, SpanIs
<1> QED BY <1>1, <1>3, <1>4

\* The filter takes the oldest.
LEMMA StackedTail ==
    ASSUME NEW s \in Seq(Placed), s # <<>>, NEW w, Stacked(s, w)
    PROVE  Stacked(Tail(s), w)
<1>1. /\ Len(s) \in Nat \ {0} /\ Len(Tail(s)) = Len(s) - 1
      /\ \A i \in 1 .. Len(Tail(s)) : Tail(s)[i] = s[i + 1]
  BY EmptySeq, HeadTailProperties
<1> SUFFICES ASSUME NEW i \in 1 .. Len(Tail(s))
             PROVE  Gap(Tail(s)[i].start, w) <= Span(Len(Tail(s)) - i + 1)
  BY DEF Stacked
<1>2. i + 1 \in 1 .. Len(s) /\ Len(s) - (i + 1) + 1 = Len(Tail(s)) - i + 1
  BY <1>1
<1>3. Gap(s[i + 1].start, w) <= Span(Len(s) - (i + 1) + 1)
  BY <1>2 DEF Stacked
<1> QED BY <1>1, <1>2, <1>3

\* One more is committed where wrptr was, and wrptr moves behind it.
LEMMA StackedAppend ==
    ASSUME NEW s \in Seq(Placed), NEW w \in Word, NEW x \in Word, Stacked(s, w),
           NEW b, Shifts(w, x, b), Reach(s, w, b), Gap(w, x) <= Share,
           NEW p \in Placed, p.start = w
    PROVE  Stacked(Append(s, p), x)
<1>1. PICK t : t = Append(s, p)
  OBVIOUS
<1>2. /\ Len(s) \in Nat /\ Len(t) = Len(s) + 1 /\ t[Len(s) + 1] = p
      /\ \A i \in 1 .. Len(s) : t[i] = s[i]
  BY <1>1
<1>3. ASSUME NEW i \in 1 .. Len(t)
      PROVE  Gap(t[i].start, x) <= Span(Len(t) - i + 1)
  <2>1. CASE i = Len(s) + 1
    <3>1. Len(t) - i + 1 = 1
      BY <2>1, <1>2
    <3> QED BY <3>1, <2>1, <1>2, SpanIs
  <2>2. CASE i # Len(s) + 1
    <3>1. i \in 1 .. Len(s)
      BY <2>2, <1>2, <1>3
    <3>2. Gap(s[i].start, w) \in Nat /\ Gap(w, x) \in Nat
      BY <3>1, PlacedIs, GapIs, PoolSizes
    <3>3. Gap(s[i].start, x) = Gap(s[i].start, w) + Gap(w, x)
      BY <3>1, PlacedIs DEF Reach, Shifts
    <3>4. PICK k \in Nat : k = Len(s) - i + 1 /\ Len(t) - i + 1 = k + 1
      BY <3>1, <1>2
    <3>5. Gap(s[i].start, w) <= Span(k)
      BY <3>1, <3>4 DEF Stacked
    <3>6. Span(k) \in Nat /\ Span(k + 1) = Span(k) + Share /\ Share \in Nat
      BY <3>4, SpanIs
    <3>7. Gap(s[i].start, x) <= Span(k + 1)
      BY <3>2, <3>3, <3>5, <3>6
    <3> QED BY <3>1, <3>4, <3>7, <1>2
  <2> QED BY <2>1, <2>2
<1> QED BY <1>1, <1>3 DEF Stacked

----------------------------------------------------------------------------
(* The invariant.                                                          *)

Frame == [buf : Word \cup {NullPtr, DummyPtr}, dptr : Word \cup {DummyPtr},
          end : Word \cup {NullPtr, DummyPtr}, got : Nat]

Typed ==
    /\ wrptr \in 0 .. LastSafe
    /\ rdptr \in (0 .. LastSafe) \cup {NullPtr}
    /\ rx \in Frame
    /\ incoming \in Seq(Placed) /\ lp \in Seq(Placed) /\ hp \in Seq(Placed)
    /\ Len(incoming) <= MaxIncoming
    /\ pc \in {"select", "drain", "publish"}
    /\ lag \in 0 .. MaxLag

\* How the packets lie in the pool: those the filter has yet to look at are
\* the youngest, and the server's are in the order they came in.
Ordered ==
    /\ Inside(incoming, wrptr) /\ Inside(lp, wrptr) /\ Inside(hp, wrptr)
    /\ InAge(incoming, wrptr) /\ InAge(lp, wrptr) /\ InAge(hp, wrptr) /\ Apart(lp, hp, wrptr)
    /\ Before(lp, incoming, wrptr) /\ Before(hp, incoming, wrptr)
    /\ Stacked(incoming, wrptr)

\* How far back the packets reach that have come since the last publication
\* or waited for the filter then, and those of the round before it.
Recently == Span(MaxIncoming + lag)
RoundBefore == Span(MaxIncoming + MaxLag + lag)

\* The published pointer is behind every packet that is not recent.  A high
\* priority packet may be older than it: one that came between the drain
\* and the publication, and that the next drain takes.
Published ==
    /\ rdptr # NullPtr =>
          /\ 0 < Gap(rdptr, wrptr)
          /\ Reach(incoming, wrptr, Gap(rdptr, wrptr)) /\ Reach(lp, wrptr, Gap(rdptr, wrptr))
          /\ Reach(hp, wrptr, Gap(rdptr, wrptr)) \/ Reach(hp, wrptr, RoundBefore)
    /\ rdptr = NullPtr => Reach(lp, wrptr, Recently) /\ Reach(hp, wrptr, Recently)
    /\ pc = "publish" => Reach(hp, wrptr, Recently)

\* No frame comes before the server has published.
Late == lag = MaxLag

\* What rx_pins knows of the frame it is receiving: where it is, and that
\* the word it stops at covers the packets.
Covered ==
    /\ rx.got > 0 => ~Late /\ Len(incoming) < MaxIncoming
    /\ rx.buf \notin Word => rx.got = 0
    /\ Receiving /\ rx.buf \notin Word => rx.dptr = rx.end
    /\ rx.buf \in Word =>
          /\ rx.buf = wrptr /\ rx.dptr = WordAfter(wrptr, HeaderWords + rx.got)
          /\ rx.got = 0 \/ \E n \in FrameWords : rx.got <= n
          /\ rx.end = NullPtr \/ (/\ rx.end \in 0 .. LastSafe
                                  /\ Gap(rx.end, wrptr) + HeaderWords + rx.got <= PoolEnd)
          /\ rdptr # NullPtr => Gap(rdptr, wrptr) <= Cover(rx.end, wrptr)
          /\ Reach(incoming, wrptr, Cover(rx.end, wrptr)) /\ Reach(lp, wrptr, Cover(rx.end, wrptr))
          /\ Late \/ Reach(hp, wrptr, Cover(rx.end, wrptr))

IInv == Typed /\ Ordered /\ Published /\ Covered

\* How far back these are, in frames.
LEMMA RecentIs ==
    ASSUME Typed
    PROVE  /\ Recently \in Nat /\ RoundBefore \in Nat /\ Span(Backlog - 1) \in Nat
           /\ Recently <= RoundBefore /\ Recently <= Span(Backlog - 1)
           /\ ~Late => RoundBefore <= Span(Backlog - 1)
<1>1. PICK a, b, c : a = MaxIncoming + lag /\ b = MaxIncoming + MaxLag + lag /\ c = Backlog - 1
  OBVIOUS
<1>2. /\ a \in Nat /\ b \in Nat /\ c \in Nat /\ a <= b /\ a <= c
      /\ lag # MaxLag => b <= c
  BY <1>1, BoundsAre DEF Typed, Backlog
<1>3. /\ Span(a) \in Nat /\ Span(b) \in Nat /\ Span(c) \in Nat
      /\ Span(a) <= Span(b) /\ Span(a) <= Span(c)
      /\ lag # MaxLag => Span(b) <= Span(c)
  BY <1>2, SpanIs
<1> QED BY <1>1, <1>3 DEF Recently, RoundBefore, Late

LEMMA IncomingReach ==
    ASSUME Typed, Ordered
    PROVE  Reach(incoming, wrptr, Recently) /\ Reach(incoming, wrptr, RoundBefore)
<1>1. wrptr \in Word /\ incoming \in Seq(Placed) /\ Stacked(incoming, wrptr)
  BY SafeWord DEF Typed, Ordered
<1>2. PICK a, b : a = MaxIncoming + lag /\ b = MaxIncoming + MaxLag + lag
  OBVIOUS
<1>3. /\ a \in Nat /\ b \in Nat /\ Len(incoming) <= a /\ Len(incoming) <= b
  BY <1>1, <1>2, BoundsAre, LenProperties DEF Typed
<1> QED BY <1>1, <1>2, <1>3, StackedReach DEF Recently, RoundBefore

LEMMA InitInv == ASSUME Init PROVE IInv
<1>1. <<>> \in Seq(Placed) /\ Len(<<>>) = 0
  BY EmptySeq
<1>2. Typed
  BY <1>1, PoolSizes, BoundsAre DEF Init, Typed, Frame, Idle, LastSafe, Word
<1>3. Ordered
  <2>1. Apart(lp, hp, wrptr) /\ Stacked(incoming, wrptr)
    BY <1>1 DEF Init, Apart, Stacked
  <2> QED BY <2>1, <1>1, NoPackets DEF Init, Ordered
<1>4. Published
  BY <1>1, NoPackets DEF Init, Published
<1>5. Covered
  <2>1. rx.buf = NullPtr /\ rx.got = 0 /\ NullPtr \notin Word
    BY PoolSizes DEF Init, Idle, Word
  <2> QED BY <2>1 DEF Covered, Receiving
<1> QED BY <1>2, <1>3, <1>4, <1>5 DEF IInv

----------------------------------------------------------------------------
(* Packets change queues, or leave them.                                   *)

\* What is behind word wrptr in each queue, after such a step, was in one
\* of the queues before.
NoFurther ==
    /\ \A b : Reach(incoming, wrptr, b) => Reach(incoming', wrptr, b)
    /\ \A b : Reach(incoming, wrptr, b) /\ Reach(lp, wrptr, b) => Reach(lp', wrptr, b)
    /\ \A b : Reach(incoming, wrptr, b) /\ Reach(hp, wrptr, b) => Reach(hp', wrptr, b)

LEMMA DrainHpStep ==
    ASSUME IInv, DrainHp
    PROVE  Typed' /\ Ordered' /\ NoFurther /\ UNCHANGED incoming
<1> USE DEF IInv
<1>1. hp' = Tail(hp) /\ hp # <<>> /\ UNCHANGED <<wrptr, rdptr, rx, incoming, lp, pc, lag>>
  BY DEF DrainHp
<1>2. hp' \in Seq(Placed) /\ Thinned(hp, hp')
  BY <1>1, TailThins DEF Typed
<1>3. Typed'
  BY <1>1, <1>2 DEF Typed
<1>4. /\ Inside(hp', wrptr) /\ InAge(hp', wrptr) /\ Apart(lp, hp', wrptr)
      /\ Before(hp', incoming, wrptr)
  BY <1>2, ThinnedKeeps DEF Ordered
<1>5. Ordered'
  BY <1>1, <1>4 DEF Ordered
<1>6. \A b : Reach(hp, wrptr, b) => Reach(hp', wrptr, b)
  BY <1>2, ThinnedKeeps
<1> QED BY <1>1, <1>3, <1>5, <1>6 DEF NoFurther

LEMMA FreeLpStep ==
    ASSUME IInv, NEW i \in 1 .. MaxHeld, FreeLp(i)
    PROVE  Typed' /\ Ordered' /\ NoFurther /\ UNCHANGED incoming
<1> USE DEF IInv
<1>1. /\ lp' = SubSeq(lp, 1, i - 1) \o SubSeq(lp, i + 1, Len(lp))
      /\ i \in 1 .. Len(lp) /\ UNCHANGED <<wrptr, rdptr, rx, incoming, hp, pc, lag>>
  <2>1. Len(lp) \in Nat /\ MaxHeld \in Nat
    BY LenProperties, MiiRxPoolAssumption DEF Typed
  <2> QED BY <2>1 DEF FreeLp
<1>2. lp' \in Seq(Placed) /\ Thinned(lp, lp')
  BY <1>1, RemovalThins DEF Typed
<1>3. Typed'
  BY <1>1, <1>2 DEF Typed
<1>4. /\ Inside(lp', wrptr) /\ InAge(lp', wrptr) /\ Apart(lp', hp, wrptr)
      /\ Before(lp', incoming, wrptr)
  BY <1>2, ThinnedKeeps DEF Ordered
<1>5. Ordered'
  BY <1>1, <1>4 DEF Ordered
<1>6. \A b : Reach(lp, wrptr, b) => Reach(lp', wrptr, b)
  BY <1>2, ThinnedKeeps
<1> QED BY <1>1, <1>3, <1>5, <1>6 DEF NoFurther

LEMMA FilterStep ==
    ASSUME IInv, Filter
    PROVE  Typed' /\ Ordered' /\ NoFurther /\ Len(incoming') <= Len(incoming)
<1> USE DEF IInv
<1>1. /\ incoming # <<>> /\ incoming' = Tail(incoming)
      /\ UNCHANGED <<wrptr, rdptr, rx, pc, lag>>
      /\ \/ UNCHANGED <<lp, hp>>
         \/ lp' = Append(lp, Head(incoming)) /\ hp' = hp
         \/ hp' = Append(hp, Head(incoming)) /\ lp' = lp
  BY DEF Filter
<1>2. PICK w, t : w = wrptr /\ t = incoming' /\ w \in Word
  BY SafeWord DEF Typed
<1>3. /\ t \in Seq(Placed) /\ Thinned(incoming, t) /\ Len(t) <= Len(incoming)
      /\ Len(t) <= MaxIncoming
  <2>1. Len(incoming) \in Nat \ {0} /\ Len(t) = Len(incoming) - 1
    BY <1>1, <1>2, EmptySeq, HeadTailProperties DEF Typed
  <2> QED BY <2>1, <1>1, <1>2, TailThins, BoundsAre DEF Typed
<1>4. /\ Inside(incoming, w) /\ InAge(incoming, w) /\ Before(lp, incoming, w)
      /\ Before(hp, incoming, w) /\ Stacked(incoming, w)
      /\ Inside(lp, w) /\ Inside(hp, w) /\ InAge(lp, w) /\ InAge(hp, w) /\ Apart(lp, hp, w)
  BY <1>2 DEF Ordered
<1>5. /\ Inside(t, w) /\ InAge(t, w) /\ Before(lp, t, w) /\ Before(hp, t, w)
      /\ \A b : Reach(incoming, w, b) => Reach(t, w, b)
  BY <1>3, <1>4, ThinnedKeeps
<1>6. Stacked(t, w)
  BY <1>1, <1>2, <1>4, StackedTail DEF Typed
<1>7. PICK u \in Seq(Placed) :
          /\ Len(u) = 1 /\ Head(u) = Head(incoming) /\ Inside(u, w)
          /\ \A b : Reach(incoming, w, b) => Reach(u, w, b)
          /\ Before(lp, u, w) /\ Before(hp, u, w) /\ Before(u, t, w)
  BY <1>1, <1>2, <1>4, HeadAlone DEF Typed
<1>8. lp \in Seq(Placed) /\ hp \in Seq(Placed)
  BY DEF Typed
<1>9. CASE UNCHANGED <<lp, hp>>
  <2>1. Typed' /\ Ordered'
    BY <1>1, <1>2, <1>3, <1>4, <1>5, <1>6, <1>9 DEF Typed, Ordered
  <2> QED BY <2>1, <1>1, <1>2, <1>3, <1>5, <1>9 DEF NoFurther
<1>10. CASE lp' = Append(lp, Head(incoming)) /\ hp' = hp
  <2>1. PICK l : l = lp' /\ l = Append(lp, Head(u))
    BY <1>7, <1>10
  <2>2. /\ l \in Seq(Placed) /\ Inside(l, w) /\ InAge(l, w) /\ Apart(l, hp, w)
        /\ Before(l, t, w)
        /\ \A b : Reach(lp, w, b) /\ Reach(u, w, b) => Reach(l, w, b)
    BY <2>1, <1>4, <1>5, <1>7, <1>8, AppendKeeps
  <2>3. Typed' /\ Ordered'
    BY <2>1, <2>2, <1>1, <1>2, <1>3, <1>4, <1>5, <1>6, <1>10 DEF Typed, Ordered
  <2> QED BY <2>1, <2>2, <2>3, <1>1, <1>2, <1>3, <1>5, <1>7, <1>10 DEF NoFurther
<1>11. CASE hp' = Append(hp, Head(incoming)) /\ lp' = lp
  <2>1. PICK h : h = hp' /\ h = Append(hp, Head(u))
    BY <1>7, <1>11
  <2>2. /\ h \in Seq(Placed) /\ Inside(h, w) /\ InAge(h, w) /\ Apart(lp, h, w)
        /\ Before(h, t, w)
        /\ \A b : Reach(hp, w, b) /\ Reach(u, w, b) => Reach(h, w, b)
    <3>1. h \in Seq(Placed) /\ Inside(h, w) /\ InAge(h, w)
      BY <2>1, <1>4, <1>7, <1>8, AppendKeeps
    <3>2. Apart(lp, h, w)
      BY <2>1, <1>4, <1>7, <1>8, AppendKeeps
    <3>3. Before(h, t, w)
      BY <2>1, <1>5, <1>7, <1>8, AppendKeeps
    <3>4. \A b : Reach(hp, w, b) /\ Reach(u, w, b) => Reach(h, w, b)
      BY <2>1, <1>7, <1>8, AppendKeeps
    <3> QED BY <3>1, <3>2, <3>3, <3>4
  <2>3. Typed' /\ Ordered'
    BY <2>1, <2>2, <1>1, <1>2, <1>3, <1>4, <1>5, <1>6, <1>11 DEF Typed, Ordered
  <2> QED BY <2>1, <2>2, <2>3, <1>1, <1>2, <1>3, <1>5, <1>7, <1>11 DEF NoFurther
<1> QED BY <1>1, <1>9, <1>10, <1>11

\* Nothing else changes.
LEMMA QueuesStep ==
    ASSUME IInv, Filter \/ DrainHp \/ \E i \in 1 .. MaxHeld : FreeLp(i)
    PROVE  IInv'
<1> USE DEF IInv
<1>1. UNCHANGED <<wrptr, rdptr, rx, pc, lag>>
  BY DEF Filter, DrainHp, FreeLp
<1>2. Typed' /\ Ordered' /\ NoFurther /\ Len(incoming') <= Len(incoming)
  <2>1. Len(incoming) \in Nat
    BY LenProperties DEF Typed
  <2> QED BY <2>1, FilterStep, DrainHpStep, FreeLpStep
<1>3. Reach(incoming, wrptr, Recently) /\ Reach(incoming, wrptr, RoundBefore)
  BY IncomingReach
<1>4. Recently' = Recently /\ RoundBefore' = RoundBefore /\ Late' = Late /\ Receiving' = Receiving
  BY <1>1 DEF Recently, RoundBefore, Late, Receiving
<1>5. Published'
  <2>1. ASSUME rdptr # NullPtr
        PROVE  /\ Reach(incoming', wrptr, Gap(rdptr, wrptr)) /\ Reach(lp', wrptr, Gap(rdptr, wrptr))
               /\ Reach(hp', wrptr, Gap(rdptr, wrptr)) \/ Reach(hp', wrptr, RoundBefore)
    BY <2>1, <1>2, <1>3 DEF Published, NoFurther
  <2>2. ASSUME rdptr = NullPtr
        PROVE  Reach(lp', wrptr, Recently) /\ Reach(hp', wrptr, Recently)
    BY <2>2, <1>2, <1>3 DEF Published, NoFurther
  <2>3. pc = "publish" => Reach(hp', wrptr, Recently)
    BY <1>2, <1>3 DEF Published, NoFurther
  <2> QED BY <2>1, <2>2, <2>3, <1>1, <1>4 DEF Published
<1>6. Covered'
  <2>1. ASSUME rx.buf \in Word
        PROVE  /\ Reach(incoming', wrptr, Cover(rx.end, wrptr)) /\ Reach(lp', wrptr, Cover(rx.end, wrptr))
               /\ Late \/ Reach(hp', wrptr, Cover(rx.end, wrptr))
    BY <2>1, <1>2 DEF Covered, NoFurther
  <2>2. Len(incoming) < MaxIncoming => Len(incoming') < MaxIncoming
    <3>1. Len(incoming) \in Nat /\ Len(incoming') \in Nat
      BY <1>2, LenProperties DEF Typed
    <3> QED BY <3>1, <1>2, BoundsAre
  <2> QED BY <2>1, <2>2, <1>1, <1>4 DEF Covered
<1> QED BY <1>2, <1>5, <1>6

----------------------------------------------------------------------------
(* The server's loop.                                                      *)

LEMMA DrainStep ==
    ASSUME IInv, StartDrain \/ StopDrain
    PROVE  IInv'
<1> USE DEF IInv
<1>1. /\ UNCHANGED <<wrptr, rdptr, rx, incoming, lp, hp, lag>> /\ pc \in {"select", "drain"}
      /\ \/ pc' = "drain"
         \/ pc' = "publish" /\ hp = <<>>
  BY DEF StartDrain, StopDrain
<1>2. pc' = "publish" => \A b : Reach(hp, wrptr, b)
  BY <1>1, EmptySeq, NoPackets
<1>3. Typed' /\ Ordered'
  BY <1>1 DEF Typed, Ordered
<1>4. Recently' = Recently /\ RoundBefore' = RoundBefore /\ Late' = Late /\ Receiving' = Receiving
  BY <1>1 DEF Recently, RoundBefore, Late, Receiving
<1>5. Published'
  BY <1>1, <1>2, <1>4 DEF Published
<1>6. Covered'
  BY <1>1, <1>4 DEF Covered
<1> QED BY <1>3, <1>5, <1>6

\* The oldest packet of a queue reaches furthest back.
LEMMA HeadReaches ==
    ASSUME NEW s \in Seq(Placed), s # <<>>, NEW w \in Word, Inside(s, w), InAge(s, w),
           NEW u \in Seq(Placed), Before(s, u, w), NEW r, r = Head(s).start
    PROVE  /\ r \in 0 .. LastSafe /\ 0 < Gap(r, w) /\ Gap(r, w) \in Nat
           /\ Reach(s, w, Gap(r, w)) /\ Reach(u, w, Gap(r, w))
           /\ \A b : Reach(s, w, b) => Gap(r, w) <= b
<1>1. Len(s) \in Nat \ {0} /\ 1 \in 1 .. Len(s) /\ r = s[1].start
  <2>1. Len(s) \in Nat \ {0}
    BY EmptySeq
  <2> QED BY <2>1
<1>2. r \in 0 .. LastSafe /\ s[1].len \in Nat /\ Gap(r, w) \in Nat
  BY <1>1, PlacedIs, PoolSizes
<1>3. 0 < Gap(r, w)
  <2>1. HeaderWords + s[1].len <= Gap(r, w)
    BY <1>1 DEF Inside
  <2> QED BY <2>1, <1>2, PoolSizes
<1>4. ASSUME NEW p, Gap(p.start, w) \in Nat, Older(s[1], p, w)
      PROVE  Gap(p.start, w) <= Gap(r, w)
  <2>1. Gap(p.start, w) + HeaderWords + s[1].len <= Gap(r, w)
    BY <1>1, <1>4 DEF Older
  <2> QED BY <2>1, <1>2, <1>4, PoolSizes
<1>5. Reach(s, w, Gap(r, w))
  <2> SUFFICES ASSUME NEW i \in 1 .. Len(s)
               PROVE  Gap(s[i].start, w) <= Gap(r, w)
    BY DEF Reach
  <2>1. CASE i = 1
    BY <2>1, <1>1, <1>2
  <2>2. CASE i # 1
    <3>1. 1 < i
      BY <2>2, <1>1
    <3>2. Older(s[1], s[i], w)
      BY <3>1, <1>1 DEF InAge
    <3>3. Gap(s[i].start, w) \in Nat
      BY PlacedIs, PoolSizes
    <3> QED BY <3>2, <3>3, <1>4
  <2> QED BY <2>1, <2>2
<1>6. Reach(u, w, Gap(r, w))
  <2> SUFFICES ASSUME NEW i \in 1 .. Len(u)
               PROVE  Gap(u[i].start, w) <= Gap(r, w)
    BY DEF Reach
  <2>1. Older(s[1], u[i], w)
    BY <1>1 DEF Before
  <2>2. Gap(u[i].start, w) \in Nat
    BY PlacedIs, PoolSizes
  <2> QED BY <2>1, <2>2, <1>4
<1>7. \A b : Reach(s, w, b) => Gap(r, w) <= b
  BY <1>1 DEF Reach
<1> QED BY <1>2, <1>3, <1>5, <1>6, <1>7

LEMMA PublishStep ==
    ASSUME IInv, Publish
    PROVE  IInv'
<1> USE DEF IInv
<1>1. /\ pc = "publish" /\ rdptr' = NextRdptr(lp, hp) /\ pc' = "select" /\ lag' = 0
      /\ UNCHANGED <<wrptr, rx, incoming, lp, hp>>
  BY DEF Publish
<1>2. wrptr \in Word /\ ~Late'
  BY <1>1, SafeWord, BoundsAre DEF Typed, Late
<1>3. /\ Recently \in Nat /\ Recently <= Span(Backlog - 1) /\ Span(Backlog - 1) \in Nat
      /\ Reach(hp, wrptr, Recently) /\ Reach(incoming, wrptr, Recently)
  BY <1>1, RecentIs, IncomingReach DEF Published
\* What has come since the last publication is what came in the round before.
<1>4. RoundBefore' \in Nat /\ Recently <= RoundBefore'
  <2>1. PICK a, b : a = MaxIncoming + lag /\ b = MaxIncoming + MaxLag + 0
    OBVIOUS
  <2>2. a \in Nat /\ b \in Nat /\ a <= b
    BY <2>1, BoundsAre DEF Typed
  <2> QED BY <2>1, <2>2, <1>1, SpanIs DEF Recently, RoundBefore
<1>5. Reach(hp, wrptr, RoundBefore')
  BY <1>2, <1>3, <1>4, ReachMore DEF Typed
\* The frame that rx_pins waits for stops before these packets.
<1>6. rx.buf \in Word => Reach(hp, wrptr, Cover(rx.end, wrptr))
  <2> SUFFICES ASSUME rx.buf \in Word
               PROVE  Reach(hp, wrptr, Cover(rx.end, wrptr))
    OBVIOUS
  <2>1. rx.end = NullPtr \/ rx.end \in Word
    BY SafeWord DEF Covered
  <2>2. Cover(rx.end, wrptr) \in Nat /\ Span(Backlog - 1) <= Cover(rx.end, wrptr)
    BY <2>1, <1>2, CoverIs
  <2> QED BY <2>2, <1>2, <1>3, ReachMore DEF Typed
<1>7. Len(hp) = 0 => \A b : Reach(hp, wrptr, b)
  BY NoPackets
<1>8. Ordered'
  BY <1>1 DEF Ordered
<1>9. CASE rdptr' = NullPtr
  <2>1. lp = <<>> /\ hp = <<>>
    <3>1. ASSUME NEW s \in Seq(Placed), s # <<>>
          PROVE  Head(s).start # NullPtr
      <4>1. Head(s) \in Placed
        BY <3>1, HeadTailProperties
      <4>2. Head(s).start \in Int
        BY <4>1 DEF Placed
      <4> QED BY <4>2, PoolSizes
    <3> QED BY <3>1, <1>1, <1>9 DEF NextRdptr, Typed
  <2>2. Reach(lp, wrptr, Recently') /\ Reach(hp, wrptr, Recently')
    BY <2>1, EmptySeq, NoPackets
  <2>3. Typed' /\ Published'
    BY <2>2, <1>1, <1>9, BoundsAre DEF Typed, Published
  <2>4. Covered'
    BY <1>1, <1>2, <1>9, <1>6 DEF Covered, Receiving
  <2> QED BY <2>3, <2>4, <1>8
<1>10. CASE rdptr' # NullPtr
  <2>1. PICK r : r = rdptr'
    OBVIOUS
  <2>2. /\ r \in 0 .. LastSafe /\ 0 < Gap(r, wrptr) /\ Gap(r, wrptr) \in Nat
        /\ Reach(incoming, wrptr, Gap(r, wrptr)) /\ Reach(lp, wrptr, Gap(r, wrptr))
        /\ \A b : Reach(lp, wrptr, b) /\ Reach(hp, wrptr, b) => Gap(r, wrptr) <= b
        /\ Reach(hp, wrptr, Gap(r, wrptr)) \/ Reach(hp, wrptr, RoundBefore')
    <3>1. CASE lp # <<>>
      <4>1. r = Head(lp).start
        BY <3>1, <2>1, <1>1 DEF NextRdptr
      <4>2. /\ r \in 0 .. LastSafe /\ 0 < Gap(r, wrptr) /\ Gap(r, wrptr) \in Nat
            /\ Reach(lp, wrptr, Gap(r, wrptr)) /\ Reach(incoming, wrptr, Gap(r, wrptr))
            /\ \A b : Reach(lp, wrptr, b) => Gap(r, wrptr) <= b
        BY <3>1, <4>1, <1>2, HeadReaches DEF Typed, Ordered
      <4> QED BY <4>2, <1>5
    <3>2. CASE lp = <<>>
      <4>1. r = Head(hp).start /\ hp # <<>>
        BY <3>2, <2>1, <1>1, <1>10 DEF NextRdptr
      <4>2. /\ r \in 0 .. LastSafe /\ 0 < Gap(r, wrptr) /\ Gap(r, wrptr) \in Nat
            /\ Reach(hp, wrptr, Gap(r, wrptr)) /\ Reach(incoming, wrptr, Gap(r, wrptr))
            /\ \A b : Reach(hp, wrptr, b) => Gap(r, wrptr) <= b
        BY <4>1, <1>2, HeadReaches DEF Typed, Ordered
      <4>4. Reach(lp, wrptr, Gap(r, wrptr))
        BY <3>2, EmptySeq, NoPackets
      <4> QED BY <4>2, <4>4
    <3> QED BY <3>1, <3>2
  <2>3. Typed' /\ Published'
    BY <2>1, <2>2, <1>1, <1>10, BoundsAre DEF Typed, Published
  <2>4. Covered'
    <3>1. rx.buf \in Word => Gap(r, wrptr) <= Cover(rx.end, wrptr)
      BY <2>2, <1>6 DEF Covered
    <3> QED BY <3>1, <2>1, <1>1, <1>2, <1>6 DEF Covered, Receiving
  <2> QED BY <2>3, <2>4, <1>8
<1> QED BY <1>9, <1>10

----------------------------------------------------------------------------
(* The pins.                                                               *)

\* There is always room for the header at a word where a packet may start,
\* unless the oldest packet starts in it.
LEMMA ReserveIs ==
    ASSUME NEW w \in 0 .. LastSafe, NEW r \in 0 .. LastSafe, Reserve(w, r) # DummyPtr, 0 < Gap(r, w)
    PROVE  Gap(r, w) + HeaderWords <= PoolEnd
  BY PoolSizes DEF Reserve, Gap, LastSafe

LEMMA IdleIs ==
    ASSUME rx' = Idle
    PROVE  Covered' /\ rx' \in Frame
<1>1. rx'.buf = NullPtr /\ rx'.got = 0 /\ NullPtr \notin Word /\ rx' \in Frame
  BY PoolSizes DEF Idle, Frame, Word
<1> QED BY <1>1 DEF Covered, Receiving

LEMMA RxDropStep ==
    ASSUME IInv, RxDrop
    PROVE  IInv'
<1>1. rx' = Idle /\ UNCHANGED <<wrptr, rdptr, incoming, lp, hp, pc, lag>>
  BY DEF RxDrop
<1>2. Typed' /\ Ordered'
  BY <1>1, IdleIs DEF IInv, Typed, Ordered
<1>3. Published'
  BY <1>1 DEF IInv, Published, RoundBefore, Recently
<1> QED BY <1>1, <1>2, <1>3, IdleIs DEF IInv

LEMMA RxStartStep ==
    ASSUME IInv, RxStart
    PROVE  IInv'
<1> USE DEF IInv
<1>1. UNCHANGED <<wrptr, rdptr, incoming, lp, hp, pc, lag>>
  BY DEF RxStart
<1>2. Ordered' /\ Published'
  BY <1>1 DEF Ordered, Published, RoundBefore, Recently
<1>3. wrptr \in Word /\ wrptr \in 0 .. LastSafe /\ (rdptr = NullPtr \/ rdptr \in 0 .. LastSafe)
  BY SafeWord DEF Typed
<1>4. DummyPtr \notin Word /\ NullPtr \notin Word
  BY PoolSizes DEF Word
<1>5. CASE Reserve(wrptr, rdptr) = DummyPtr
  <2>1. rx' = [buf |-> DummyPtr, dptr |-> DummyPtr, end |-> DummyPtr, got |-> 0]
    BY <1>5 DEF RxStart
  <2>2. rx' \in Frame /\ rx'.buf = DummyPtr /\ rx'.dptr = rx'.end /\ rx'.got = 0
    BY <2>1 DEF Frame
  <2>3. Covered'
    BY <2>2, <1>4 DEF Covered
  <2> QED BY <2>2, <2>3, <1>1, <1>2 DEF Typed
<1>6. CASE Reserve(wrptr, rdptr) # DummyPtr
  <2>1. rx' = [buf |-> wrptr, dptr |-> WordAfter(wrptr, HeaderWords), end |-> rdptr, got |-> 0]
    BY <1>6 DEF RxStart
  <2>2. rx'.buf = wrptr /\ rx'.dptr = WordAfter(wrptr, HeaderWords) /\ rx'.end = rdptr /\ rx'.got = 0
    BY <2>1
  <2>3. WordAfter(wrptr, HeaderWords) \in Word
    <3>1. Gap(wrptr, wrptr) + HeaderWords < PoolEnd /\ HeaderWords \in Nat
      BY <1>3, GapIs, PoolSizes
    <3> QED BY <3>1, <1>3, GapAfter
  <2>4. rx' \in Frame
    BY <2>1, <2>3, <1>3, SafeWord DEF Frame
  <2>5. /\ Cover(rdptr, wrptr) \in Nat /\ Span(Backlog - 1) <= Cover(rdptr, wrptr)
        /\ rdptr # NullPtr => Gap(rdptr, wrptr) \in Nat /\ Gap(rdptr, wrptr) <= Cover(rdptr, wrptr)
    BY <1>3, SafeWord, CoverIs
  <2>6. /\ Recently \in Nat /\ Recently <= Cover(rdptr, wrptr)
        /\ RoundBefore \in Nat
        /\ ~Late => RoundBefore <= Cover(rdptr, wrptr)
        /\ Reach(incoming, wrptr, Recently)
    BY <2>5, RecentIs, IncomingReach
  <2>7. /\ Reach(incoming, wrptr, Cover(rdptr, wrptr)) /\ Reach(lp, wrptr, Cover(rdptr, wrptr))
        /\ Late \/ Reach(hp, wrptr, Cover(rdptr, wrptr))
    <3>1. CASE rdptr = NullPtr
      BY <3>1, <2>5, <2>6, <1>3, ReachMore DEF Typed, Published
    <3>2. CASE rdptr # NullPtr
      BY <3>2, <2>5, <2>6, <1>3, ReachMore DEF Typed, Published
    <3> QED BY <3>1, <3>2
  <2>8. rdptr # NullPtr => rdptr \in 0 .. LastSafe /\ Gap(rdptr, wrptr) + HeaderWords + 0 <= PoolEnd
    <3>1. ASSUME rdptr # NullPtr
          PROVE  Gap(rdptr, wrptr) + HeaderWords <= PoolEnd /\ Gap(rdptr, wrptr) \in Nat
      BY <3>1, <2>5, <1>3, <1>6, ReserveIs DEF Published
    <3> QED BY <3>1, <1>3, PoolSizes
  <2>9. Covered'
    <3>1. HeaderWords + 0 = HeaderWords
      BY PoolSizes
    <3>2. Late' = Late
      BY <1>1 DEF Late
    <3> QED BY <3>1, <3>2, <2>2, <2>5, <2>7, <2>8, <1>1, <1>3 DEF Covered, Receiving
  <2> QED BY <2>4, <2>9, <1>1, <1>2 DEF Typed
<1> QED BY <1>5, <1>6

LEMMA RxWordStep ==
    ASSUME IInv, RxWord
    PROVE  IInv'
<1> USE DEF IInv
<1>1. PICK u, v : u = rx /\ v = rx'
  OBVIOUS
<1>2. /\ UNCHANGED <<wrptr, rdptr, incoming, lp, hp, pc, lag>>
      /\ u.buf # NullPtr /\ u.dptr # u.end
      /\ u.got = 0 => lag < MaxLag /\ Len(incoming) < MaxIncoming
      /\ \E n \in FrameWords : u.got < n
      /\ v = [u EXCEPT !.dptr = NextWord(u.dptr), !.got = u.got + 1]
  BY <1>1 DEF RxWord, Receiving
<1>3. u \in Frame /\ u.got \in Nat
  BY <1>1 DEF Typed, Frame
<1>4. /\ v.buf = u.buf /\ v.end = u.end /\ v.dptr = NextWord(u.dptr) /\ v.got = u.got + 1
      /\ u.buf \in Word \cup {NullPtr, DummyPtr} /\ u.end \in Word \cup {NullPtr, DummyPtr}
      /\ v = [buf |-> u.buf, dptr |-> v.dptr, end |-> u.end, got |-> v.got]
  BY <1>2, <1>3 DEF Frame
<1>5. Ordered' /\ Published'
  BY <1>2 DEF Ordered, Published, RoundBefore, Recently
<1>6. u.buf \in Word
  BY <1>1, <1>2 DEF Covered, Receiving
<1>7. /\ u.buf = wrptr /\ u.dptr = WordAfter(wrptr, HeaderWords + u.got)
      /\ u.end = NullPtr \/ (/\ u.end \in 0 .. LastSafe
                             /\ Gap(u.end, wrptr) + HeaderWords + u.got <= PoolEnd)
  BY <1>1, <1>6 DEF Covered
<1>8. wrptr \in Word
  BY SafeWord DEF Typed
<1>9. PICK n \in FrameWords : u.got < n
  BY <1>2
<1>10. PICK m \in Nat : m = HeaderWords + u.got
  BY <1>3, PoolSizes
<1>11. m + 1 < PoolEnd /\ HeaderWords + v.got = m + 1 /\ v.got <= n /\ v.got \in Nat
  BY <1>3, <1>4, <1>9, <1>10, PoolSizes
<1>12. u.dptr = WordAfter(wrptr, m) /\ u.dptr \in Word /\ Gap(wrptr, u.dptr) = m
  <2>1. Gap(wrptr, wrptr) = 0
    BY <1>8, GapIs
  <2>2. Gap(wrptr, wrptr) + m < PoolEnd
    BY <2>1, <1>11, PoolSizes
  <2>3. WordAfter(wrptr, m) \in Word /\ Gap(wrptr, WordAfter(wrptr, m)) = m
    BY <2>1, <2>2, <1>8, GapAfter
  <2>4. u.dptr = WordAfter(wrptr, m)
    BY <1>7, <1>10
  <2> QED BY <2>3, <2>4
<1>13. v.dptr = WordAfter(wrptr, m + 1) /\ v.dptr \in Word
  BY <1>4, <1>8, <1>11, <1>12, PoolSizes DEF NextWord, WordAfter, Word
<1>14. v \in Frame
  BY <1>4, <1>11, <1>13 DEF Frame
<1>15. ~Late /\ Len(incoming) < MaxIncoming
  <2>1. CASE u.got = 0
    BY <2>1, <1>2, BoundsAre DEF Late, Typed
  <2>2. CASE u.got # 0
    BY <2>2, <1>1, <1>3 DEF Covered
  <2> QED BY <2>1, <2>2
<1>16. u.end # NullPtr => u.end \in 0 .. LastSafe /\ Gap(u.end, wrptr) + HeaderWords + v.got <= PoolEnd
  <2> SUFFICES ASSUME u.end # NullPtr
               PROVE  u.end \in 0 .. LastSafe /\ Gap(u.end, wrptr) + HeaderWords + v.got <= PoolEnd
    OBVIOUS
  <2>1. u.end \in 0 .. LastSafe /\ u.end \in Word /\ Gap(u.end, wrptr) + HeaderWords + u.got <= PoolEnd
    BY <1>7, SafeWord
  <2>2. Gap(u.end, wrptr) \in Nat
    BY <2>1, <1>8, GapIs, PoolSizes
  <2>3. Gap(u.end, wrptr) + m <= PoolEnd
    BY <2>1, <2>2, <1>3, <1>10, PoolSizes
  <2>4. Gap(u.end, wrptr) + m # PoolEnd
    <3>1. PICK e \in Word : e = u.end
      BY <2>1
    <3>2. Gap(e, wrptr) + m = PoolEnd => WordAfter(wrptr, m) = e
      BY <1>8, <1>11, PoolSizes DEF Gap, WordAfter, Word
    <3> QED BY <3>1, <3>2, <1>2, <1>12
  <2> QED BY <2>1, <2>2, <2>3, <2>4, <1>11, PoolSizes
<1>17. Covered'
  <2>1. Late' = Late
    BY <1>2 DEF Late
  <2>2. /\ v.buf = wrptr /\ v.dptr = WordAfter(wrptr, HeaderWords + v.got)
        /\ \E k \in FrameWords : v.got <= k
    BY <1>4, <1>7, <1>11, <1>13
  <2>3. /\ rdptr # NullPtr => Gap(rdptr, wrptr) <= Cover(v.end, wrptr)
        /\ Reach(incoming, wrptr, Cover(v.end, wrptr)) /\ Reach(lp, wrptr, Cover(v.end, wrptr))
        /\ Late \/ Reach(hp, wrptr, Cover(v.end, wrptr))
    BY <1>1, <1>4, <1>6 DEF Covered
  <2>4. rx'.buf = v.buf /\ rx'.dptr = v.dptr /\ rx'.end = v.end /\ rx'.got = v.got
    BY <1>1
  <2>5. v.end = u.end /\ v.buf \in Word
    BY <1>4, <1>6
  <2> QED BY <2>1, <2>2, <2>3, <2>4, <2>5, <1>2, <1>15, <1>16 DEF Covered
<1> QED BY <1>1, <1>2, <1>5, <1>14, <1>17 DEF Typed

LEMMA RxCommitStep ==
    ASSUME PoolHoldsFrames, IInv, NotOnOldest, RxCommit
    PROVE  IInv'
<1> USE DEF IInv
<1>1. PICK w, x, n, e : w = wrptr /\ x = wrptr' /\ n = rx.got /\ e = rx.end
  OBVIOUS
<1>2. /\ rx.dptr # e /\ n \in FrameWords /\ x = Commit(rx.dptr)
      /\ incoming' = Append(incoming, [start |-> rx.buf, len |-> n])
      /\ rx' = Idle /\ lag' = lag + 1 /\ UNCHANGED <<rdptr, lp, hp, pc>>
  BY <1>1 DEF RxCommit
<1>3. n \in Nat /\ 0 < n
  BY <1>2, PoolSizes
<1>4. ~Late /\ Len(incoming) < MaxIncoming /\ rx.buf \in Word
  BY <1>1, <1>3 DEF Covered
<1>5. /\ rx.buf = w /\ rx.dptr = WordAfter(w, HeaderWords + n)
      /\ e = NullPtr \/ (e \in 0 .. LastSafe /\ Gap(e, w) + HeaderWords + n <= PoolEnd)
      /\ rdptr # NullPtr => Gap(rdptr, w) <= Cover(e, w)
      /\ Reach(incoming, w, Cover(e, w)) /\ Reach(lp, w, Cover(e, w)) /\ Reach(hp, w, Cover(e, w))
  BY <1>1, <1>4 DEF Covered
<1>6. /\ w \in 0 .. LastSafe /\ w \in Word
      /\ incoming \in Seq(Placed) /\ lp \in Seq(Placed) /\ hp \in Seq(Placed)
  BY <1>1, SafeWord DEF Typed
<1>7. ~(WordAfter(w, HeaderWords + n) > LastSafe /\ e = 0)
  BY <1>1, <1>2, <1>5 DEF NotOnOldest
<1>8. /\ x \in 0 .. LastSafe /\ HeaderWords + n <= Gap(w, x) /\ Gap(w, x) <= Share
      /\ Shifts(w, x, Cover(e, w))
  BY <1>2, <1>5, <1>6, <1>7, CommitShifts
<1>9. x \in Word /\ Gap(w, x) \in Nat
  BY <1>6, <1>8, SafeWord, GapIs, PoolSizes
<1>10. PICK p \in Placed : p = [start |-> w, len |-> n]
  BY <1>2, <1>6 DEF Placed
<1>11. p.start = w /\ p.len = n
  BY <1>10
\* The new packet, on its own, and behind the others.
<1>12. PICK u \in Seq(Placed) : Len(u) = 1 /\ u[1] = p /\ Head(u) = p
  BY AloneIs
<1>13. PICK t : t = incoming' /\ t = Append(incoming, p) /\ t = Append(incoming, Head(u))
  BY <1>2, <1>5, <1>10, <1>12
<1>14. \A j \in 1 .. Len(u) : u[j].start = w /\ u[j].len = n
  BY <1>11, <1>12
<1>15. Inside(u, x) /\ \A b : Gap(w, x) <= b => Reach(u, x, b)
  BY <1>8, <1>14 DEF Inside, Reach
<1>16. /\ Inside(incoming, w) /\ Inside(lp, w) /\ Inside(hp, w)
       /\ InAge(incoming, w) /\ InAge(lp, w) /\ InAge(hp, w) /\ Apart(lp, hp, w)
       /\ Before(lp, incoming, w) /\ Before(hp, incoming, w) /\ Stacked(incoming, w)
  BY <1>1 DEF Ordered
<1>17. /\ Inside(incoming, x) /\ Inside(lp, x) /\ Inside(hp, x)
       /\ Before(incoming, u, x) /\ Before(lp, u, x) /\ Before(hp, u, x)
  BY <1>5, <1>6, <1>8, <1>9, <1>14, <1>16, InsideShifts, NewestLast
<1>18. ASSUME NEW s \in {incoming, lp, hp}, NEW r \in {incoming, lp, hp},
              NEW i \in 1 .. Len(s), NEW j \in 1 .. Len(r), Older(s[i], r[j], w)
       PROVE  Older(s[i], r[j], x)
  BY <1>5, <1>6, <1>8, <1>9, <1>18, OlderShifts
<1>19. InAge(incoming, x) /\ InAge(lp, x) /\ InAge(hp, x)
  <2>1. ASSUME NEW s \in {incoming, lp, hp}, NEW i \in 1 .. Len(s), NEW j \in 1 .. Len(s), i < j
        PROVE  Older(s[i], s[j], x)
    <3>1. Older(s[i], s[j], w)
      BY <2>1, <1>16 DEF InAge
    <3> QED BY <3>1, <1>18
  <2> QED BY <2>1 DEF InAge
<1>20. Apart(lp, hp, x)
  <2>1. ASSUME NEW i \in 1 .. Len(lp), NEW j \in 1 .. Len(hp)
        PROVE  Older(lp[i], hp[j], x) \/ Older(hp[j], lp[i], x)
    <3>1. Older(lp[i], hp[j], w) \/ Older(hp[j], lp[i], w)
      BY <1>16 DEF Apart
    <3> QED BY <3>1, <1>18
  <2> QED BY <2>1 DEF Apart
<1>21. Before(lp, incoming, x) /\ Before(hp, incoming, x)
  <2>1. ASSUME NEW s \in {lp, hp}, NEW i \in 1 .. Len(s), NEW j \in 1 .. Len(incoming)
        PROVE  Older(s[i], incoming[j], x)
    <3>1. Older(s[i], incoming[j], w)
      BY <2>1, <1>16 DEF Before
    <3> QED BY <3>1, <1>18
  <2> QED BY <2>1 DEF Before
<1>22. /\ t \in Seq(Placed) /\ Inside(t, x) /\ InAge(t, x) /\ Before(lp, t, x) /\ Before(hp, t, x)
       /\ \A b : Reach(incoming, x, b) /\ Reach(u, x, b) => Reach(t, x, b)
  <2>1. t \in Seq(Placed) /\ Inside(t, x) /\ InAge(t, x)
    BY <1>6, <1>12, <1>13, <1>15, <1>17, <1>19, AppendKeeps
  <2>2. \A v : Before(v, incoming, x) /\ Before(v, u, x) => Before(v, t, x)
    BY <1>6, <1>12, <1>13, AppendKeeps
  <2>3. Before(lp, t, x) /\ Before(hp, t, x)
    BY <2>2, <1>17, <1>21
  <2>4. \A b : Reach(incoming, x, b) /\ Reach(u, x, b) => Reach(t, x, b)
    BY <1>6, <1>12, <1>13, AppendKeeps
  <2> QED BY <2>1, <2>3, <2>4
<1>23. Stacked(t, x)
  BY <1>5, <1>6, <1>8, <1>9, <1>11, <1>13, <1>16, StackedAppend
<1>24. Typed'
  <2>1. rx' \in Frame
    BY <1>2, IdleIs
  <2>2. Len(t) <= MaxIncoming
    <3>1. Len(t) = Len(incoming) + 1 /\ Len(incoming) \in Nat
      BY <1>6, <1>13
    <3> QED BY <3>1, <1>4, BoundsAre
  <2>3. lag + 1 \in 0 .. MaxLag
    BY <1>4, BoundsAre DEF Late, Typed
  <2> QED BY <2>1, <2>2, <2>3, <1>1, <1>2, <1>8, <1>13, <1>22 DEF Typed
<1>25. Ordered'
  BY <1>1, <1>2, <1>13, <1>17, <1>19, <1>20, <1>22, <1>23 DEF Ordered
\* What came since a publication reaches back a frame more.
<1>26. /\ Recently \in Nat /\ Recently' = Recently + Share
       /\ RoundBefore \in Nat /\ RoundBefore' = RoundBefore + Share /\ Share \in Nat
  <2>1. PICK a, b : /\ a = MaxIncoming + lag /\ MaxIncoming + (lag + 1) = a + 1 /\ a \in Nat
                    /\ b = MaxIncoming + MaxLag + lag /\ MaxIncoming + MaxLag + (lag + 1) = b + 1
                    /\ b \in Nat
    BY BoundsAre DEF Typed
  <2> QED BY <2>1, <1>2, SpanIs DEF Recently, RoundBefore
<1>27. ASSUME NEW s \in {lp, hp}, NEW b \in Nat, Reach(s, w, b)
       PROVE  Reach(s, x, b + Gap(w, x)) /\ Reach(s, x, b + Share)
  <2>1. s \in Seq(Placed) /\ Reach(s, w, Cover(e, w))
    BY <1>5, <1>6
  <2>2. Reach(s, x, b + Gap(w, x))
    BY <2>1, <1>6, <1>8, <1>9, <1>27, ReachShifts
  <2>3. b + Gap(w, x) \in Int /\ b + Share \in Int /\ b + Gap(w, x) <= b + Share
    BY <1>8, <1>9, <1>26
  <2> QED BY <2>1, <2>2, <2>3, <1>9, ReachMore
<1>28. pc = "publish" => Reach(hp, x, Recently')
  BY <1>1, <1>26, <1>27 DEF Published
<1>29. ASSUME rdptr = NullPtr
       PROVE  Reach(lp, x, Recently') /\ Reach(hp, x, Recently')
  BY <1>1, <1>26, <1>27, <1>29 DEF Published
<1>30. ASSUME rdptr # NullPtr
       PROVE  /\ 0 < Gap(rdptr, x)
              /\ Reach(t, x, Gap(rdptr, x)) /\ Reach(lp, x, Gap(rdptr, x))
              /\ Reach(hp, x, Gap(rdptr, x)) \/ Reach(hp, x, RoundBefore')
  <2>1. PICK r \in Word : r = rdptr
    BY <1>30, SafeWord DEF Typed
  <2>2. /\ 0 < Gap(r, w) /\ Reach(incoming, w, Gap(r, w)) /\ Reach(lp, w, Gap(r, w))
        /\ Gap(r, w) <= Cover(e, w)
        /\ Reach(hp, w, Gap(r, w)) \/ Reach(hp, w, RoundBefore)
    BY <2>1, <1>1, <1>5, <1>30 DEF Published
  <2>3. Gap(r, x) = Gap(r, w) + Gap(w, x) /\ Gap(r, w) \in Nat /\ Gap(r, x) \in Nat
    BY <2>1, <2>2, <1>6, <1>8, <1>9, GapIs, PoolSizes DEF Shifts
  <2>4. Reach(lp, x, Gap(r, x))
    BY <2>2, <2>3, <1>27
  <2>5. Reach(u, x, Gap(r, x)) /\ 0 < Gap(r, x)
    BY <2>2, <2>3, <1>9, <1>15
  <2>6. Reach(incoming, x, Gap(r, x))
    BY <2>2, <2>3, <1>5, <1>6, <1>8, <1>9, ReachShifts
  <2>7. Reach(hp, x, Gap(r, x)) \/ Reach(hp, x, RoundBefore')
    BY <2>2, <2>3, <1>26, <1>27
  <2> QED BY <2>1, <2>4, <2>5, <2>6, <2>7, <1>22
<1>31. Published'
  BY <1>1, <1>2, <1>13, <1>28, <1>29, <1>30 DEF Published
<1>32. Covered'
  BY <1>2, IdleIs
<1> QED BY <1>24, <1>25, <1>31, <1>32

----------------------------------------------------------------------------
(* The theorems.                                                           *)

LEMMA NextInv ==
    ASSUME PoolHoldsFrames, IInv, NotOnOldest, [Next]_vars
    PROVE  IInv'
<1>1. CASE RxStart
  BY <1>1, RxStartStep
<1>2. CASE RxWord
  BY <1>2, RxWordStep
<1>3. CASE RxCommit
  BY <1>3, RxCommitStep
<1>4. CASE RxDrop
  BY <1>4, RxDropStep
<1>5. CASE Filter \/ DrainHp \/ \E i \in 1 .. MaxHeld : FreeLp(i)
  BY <1>5, QueuesStep
<1>6. CASE StartDrain \/ StopDrain
  BY <1>6, DrainStep
<1>7. CASE Publish
  BY <1>7, PublishStep
<1>8. CASE UNCHANGED vars
  <2>1. UNCHANGED <<wrptr, rdptr, rx, incoming, lp, hp, pc, lag>>
    BY <1>8 DEF vars
  <2>2. Typed' /\ Ordered'
    BY <2>1 DEF IInv, Typed, Ordered
  <2>3. Published'
    BY <2>1 DEF IInv, Published, RoundBefore, Recently
  <2>4. Covered'
    BY <2>1 DEF IInv, Covered, Late, Receiving
  <2> QED BY <2>2, <2>3, <2>4 DEF IInv
<1> QED BY <1>1, <1>2, <1>3, <1>4, <1>5, <1>6, <1>7, <1>8 DEF Next, RxPins, Loop

LEMMA SafetyFromInv ==
    ASSUME PoolHoldsFrames, IInv
    PROVE  TypeOK /\ LivePacketsIntact /\ PacketsDisjoint
<1> USE DEF IInv
<1>1. wrptr \in Word /\ wrptr \in 0 .. LastSafe
  BY SafeWord DEF Typed
<1>2. TypeOK
  <2>1. Placed \subseteq Packets
    BY SafeWord DEF Placed, Packets
  <2>2. \A s \in {incoming, lp, hp} : s \in Seq(Packets)
    BY <2>1, SeqMonotonic DEF Typed
  <2>3. /\ rx.buf \in Word \cup {NullPtr, DummyPtr} /\ rx.dptr \in Word \cup {DummyPtr}
        /\ rx.end \in Word \cup {NullPtr, DummyPtr} /\ rx.got \in Nat
    BY DEF Typed, Frame
  <2>4. lag \in 0 .. MaxLag /\ rdptr \in Word \cup {NullPtr}
    BY SafeWord DEF Typed
  <2> QED BY <2>2, <2>3, <2>4 DEF TypeOK, Typed
\* A packet in use, and what is known of where it is.
<1>3. ASSUME NEW p \in Live
      PROVE  /\ p.start \in Word /\ p.len \in Nat /\ Gap(p.start, wrptr) \in 0 .. PoolEnd - 1
             /\ HeaderWords + p.len <= Gap(p.start, wrptr)
             /\ rx.buf \in Word /\ rx.got > 0 => Gap(p.start, wrptr) <= Cover(rx.end, wrptr)
  <2>1. PICK s \in {incoming, lp, hp} : \E i \in DOMAIN s : p = s[i]
    BY DEF Live
  <2>2. s \in Seq(Placed) /\ Inside(s, wrptr)
    BY <2>1 DEF Typed, Ordered
  <2>3. PICK i \in 1 .. Len(s) : p = s[i]
    BY <2>1, <2>2, LenProperties
  <2>4. p.start \in Word /\ p.len \in Nat /\ Gap(p.start, wrptr) \in 0 .. PoolEnd - 1
    BY <2>2, <2>3, <1>1, PlacedIs
  <2>5. HeaderWords + p.len <= Gap(p.start, wrptr)
    BY <2>2, <2>3 DEF Inside
  <2>6. ASSUME rx.buf \in Word, rx.got > 0
        PROVE  Gap(p.start, wrptr) <= Cover(rx.end, wrptr)
    <3>1. Reach(s, wrptr, Cover(rx.end, wrptr))
      BY <2>1, <2>6 DEF Covered
    <3> QED BY <3>1, <2>3 DEF Reach
  <2> QED BY <2>4, <2>5, <2>6
<1>4. LivePacketsIntact
  <2> SUFFICES ASSUME NEW p \in Live, rx.buf \in Word, rx.got > 0
               PROVE  WordsOf(p.start, p.len) \cap WordsOf(rx.buf, rx.got) = {}
    BY DEF LivePacketsIntact, Overwriting, Written
  <2>1. PICK g, e : g = rx.got /\ e = rx.end /\ g \in Nat
    BY DEF Typed, Frame
  <2>2. /\ rx.buf = wrptr /\ \E n \in FrameWords : g <= n
        /\ e = NullPtr \/ (e \in 0 .. LastSafe /\ Gap(e, wrptr) + HeaderWords + g <= PoolEnd)
    BY <2>1 DEF Covered
  <2>3. HeaderWords + g <= Share /\ Span(Backlog - 1) \in Nat
    BY <2>1, <2>2, PoolSizes, ShareIs DEF PoolHoldsFrames
  <2>4. Gap(p.start, wrptr) + HeaderWords + g <= PoolEnd
    <3>1. Gap(p.start, wrptr) <= Cover(e, wrptr) /\ Gap(p.start, wrptr) \in Nat
      BY <2>1, <1>3, PoolSizes
    <3>2. CASE Cover(e, wrptr) = Span(Backlog - 1)
      BY <3>1, <3>2, <2>1, <2>3, PoolSizes, ShareIs
    <3>3. CASE e # NullPtr /\ Cover(e, wrptr) = Gap(e, wrptr)
      <4>1. Gap(e, wrptr) \in Nat
        BY <3>3, <2>2, <1>1, SafeWord, GapIs, PoolSizes
      <4> QED BY <4>1, <3>1, <3>3, <2>1, <2>2, PoolSizes
    <3> QED BY <3>2, <3>3 DEF Cover
  <2>5. Gap(p.start, p.start) = 0
    BY <1>3, GapIs
  <2>6. Gap(p.start, p.start) + HeaderWords + p.len <= Gap(p.start, wrptr)
    BY <2>5, <1>3, PoolSizes
  <2> QED BY <2>1, <2>2, <2>4, <2>6, <1>1, <1>3, WordsApart
\* Two packets lie one behind the other.
<1>5. ASSUME NEW p \in Live, NEW q \in Live, p # q
      PROVE  Older(p, q, wrptr) \/ Older(q, p, wrptr)
  <2>1. PICK s \in {incoming, lp, hp}, t \in {incoming, lp, hp} :
            (\E i \in DOMAIN s : p = s[i]) /\ (\E j \in DOMAIN t : q = t[j])
    BY DEF Live
  <2>2. s \in Seq(Placed) /\ t \in Seq(Placed)
    BY <2>1 DEF Typed
  <2>3. PICK i \in 1 .. Len(s), j \in 1 .. Len(t) : p = s[i] /\ q = t[j]
    BY <2>1, <2>2, LenProperties
  <2>4. CASE s = t
    <3>1. i # j /\ (i < j \/ j < i)
      BY <2>3, <2>4, <1>5
    <3>2. InAge(s, wrptr)
      BY DEF Ordered
    <3> QED BY <3>1, <3>2, <2>3, <2>4 DEF InAge
  <2>5. CASE s # t
    BY <2>3, <2>5 DEF Ordered, Apart, Before
  <2> QED BY <2>4, <2>5
<1>6. ASSUME NEW p \in Live, NEW q \in Live, Older(p, q, wrptr)
      PROVE  WordsOf(p.start, p.len) \cap WordsOf(q.start, q.len) = {}
  <2>1. PICK a \in Word, b \in Word, l \in Nat, n \in Nat :
            a = p.start /\ b = q.start /\ l = p.len /\ n = q.len
    BY <1>3
  <2>2. /\ Gap(a, wrptr) \in 0 .. PoolEnd - 1 /\ Gap(b, wrptr) \in 0 .. PoolEnd - 1
        /\ Gap(b, wrptr) + HeaderWords + l <= Gap(a, wrptr)
        /\ HeaderWords + n <= Gap(b, wrptr)
    BY <2>1, <1>3, <1>6 DEF Older
  <2>3. Gap(a, b) = Gap(a, wrptr) - Gap(b, wrptr) /\ Gap(a, a) = 0
    BY <2>2, <1>1, PoolSizes DEF Gap, Word
  <2>4. Gap(a, a) + HeaderWords + l <= Gap(a, b) /\ Gap(a, b) + HeaderWords + n <= PoolEnd
    BY <2>2, <2>3, PoolSizes
  <2> QED BY <2>1, <2>4, WordsApart
<1>7. PacketsDisjoint
  BY <1>5, <1>6 DEF PacketsDisjoint
<1> QED BY <1>2, <1>4, <1>7

\* The invariant, as long as no frame ends as NotOnOldest excludes.
THEOREM Invariance ==
    ASSUME PoolHoldsFrames
    PROVE  Spec /\ []NotOnOldest => []IInv
<1>1. Init => IInv
  BY InitInv
<1>2. IInv /\ NotOnOldest /\ [Next]_vars => IInv'
  BY NextInv
<1> QED BY <1>1, <1>2, PTL DEF Spec

\* Pointers and frames have the shape the code gives them.
THEOREM TypeCorrect ==
    ASSUME PoolHoldsFrames
    PROVE  Spec /\ []NotOnOldest => []TypeOK
<1>1. IInv => TypeOK
  BY SafetyFromInv
<1> QED BY <1>1, Invariance, PTL

\* rx_pins writes to no word of a packet that a queue still holds, though
\* the pointer it stops at was read before the frame began.
THEOREM PacketsStayIntact ==
    ASSUME PoolHoldsFrames
    PROVE  Spec /\ []NotOnOldest => []LivePacketsIntact
<1>1. IInv => LivePacketsIntact
  BY SafetyFromInv
<1> QED BY <1>1, Invariance, PTL

\* No two packets share a word.
THEOREM PacketsStayApart ==
    ASSUME PoolHoldsFrames
    PROVE  Spec /\ []NotOnOldest => []PacketsDisjoint
<1>1. IInv => PacketsDisjoint
  BY SafetyFromInv
<1> QED BY <1>1, Invariance, PTL
=============================================================================
