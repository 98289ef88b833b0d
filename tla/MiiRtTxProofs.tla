---------------------------- MODULE MiiRtTxProofs ----------------------------
(***************************************************************************)
(* The safety properties of MiiRtTx, for every size of the ring and of the *)
(* pool and all packets that fit, and that it implements TxDelivery.  They *)
(* hold for one client, since two are given the same buffer, and as long   *)
(* as a null pointer from mii_get_rdptr means an empty ring, which it does *)
(* unless TornRead.                                                        *)
(***************************************************************************)
EXTENDS MiiRtTx, PacketQueueProofs

OneClient == \E c : Clients = {c}

\* The pool has room for any packet, and commit does not move the packet's
\* end on to its start.
PoolHoldsPacket == \A n \in FrameWords : HeaderWords + n + MinUsage <= PoolEnd

\* How many words t comes after s.
Gap(s, t) == IF t >= s THEN t - s ELSE t - s + PoolEnd

\* The n packets at p[0], p[1] and so on lie behind each other in memory m,
\* all before word w.
Laid(m, p, n, w) ==
    /\ \A k \in 0 .. n - 1 :
          /\ p[k] \in Word /\ PacketAt(m, p[k]) \in Frames
          /\ Gap(p[0], p[k]) + HeaderWords + m[p[k]].len <= Gap(p[0], w)
    /\ \A j, k \in 0 .. n - 1 :
          j < k => Gap(p[0], p[j]) + HeaderWords + m[p[j]].len <= Gap(p[0], p[k])

----------------------------------------------------------------------------
(* The memory.                                                             *)

\* The sizes of the pool are numbers that fit each other.
LEMMA PoolSizes ==
    /\ PoolEnd \in Nat /\ HeaderWords \in Nat /\ MinUsage \in Nat
    /\ 0 < HeaderWords /\ HeaderWords < MinUsage /\ MinUsage < PoolEnd
    /\ DataWords \in Nat /\ MinUsage <= DataWords
    /\ \A n \in FrameWords : n \in Nat /\ 0 < n /\ n <= DataWords
    /\ Null \notin Word /\ NoClient \notin Clients
  BY PoolAssumption, MiiRtTxAssumption DEF MempoolAssumption, Word

\* What a packet that a client has handed over looks like.
LEMMA FrameShape ==
    ASSUME NEW m, NEW s, PacketAt(m, s) \in Frames
    PROVE  m[s].len \in FrameWords /\ m[s].timed \in Clients \cup {NoClient}
<1>1. PICK c \in Clients : PacketAt(m, s) \in
          {[len |-> n, timed |-> t, data |-> [k \in 1 .. n |-> [from |-> c, tag |-> g]]] :
               n \in FrameWords, t \in {c, NoClient}, g \in Tags}
  BY DEF Frames
<1>2. PICK n \in FrameWords, t \in {c, NoClient}, g \in Tags :
          PacketAt(m, s) = [len |-> n, timed |-> t, data |-> [k \in 1 .. n |-> [from |-> c, tag |-> g]]]
  BY <1>1
<1>3. PacketAt(m, s).len = n /\ PacketAt(m, s).timed = t
  BY <1>2
<1>4. PacketAt(m, s).len = m[s].len /\ PacketAt(m, s).timed = m[s].timed
  BY DEF PacketAt
<1> QED BY <1>3, <1>4

\* Walking on from a word, and how far one has come.
LEMMA GapAfter ==
    ASSUME NEW o \in Word, NEW s \in Word, NEW j \in Nat, Gap(o, s) + j < PoolEnd
    PROVE  WordAfter(s, j) \in Word /\ Gap(o, WordAfter(s, j)) = Gap(o, s) + j
  BY PoolSizes DEF Gap, WordAfter, Word

\* Packets that lie behind each other have no word in common.
LEMMA WordsApart ==
    ASSUME NEW o \in Word, NEW s \in Word, NEW t \in Word, NEW l \in Nat, NEW n \in Nat,
           Gap(o, s) + HeaderWords + l <= Gap(o, t),
           Gap(o, t) + HeaderWords + n <= PoolEnd
    PROVE  WordsOf(s, l) \cap WordsOf(t, n) = {}
<1> SUFFICES ASSUME NEW j \in 0 .. HeaderWords + l - 1, NEW k \in 0 .. HeaderWords + n - 1,
                    WordAfter(s, j) = WordAfter(t, k)
             PROVE  FALSE
  BY DEF WordsOf
<1>1. Gap(o, s) \in Nat /\ Gap(o, t) \in Nat
  BY PoolSizes DEF Gap, Word
<1>2. j \in Nat /\ Gap(o, s) + j < PoolEnd /\ Gap(o, s) + j < Gap(o, t)
  BY <1>1, PoolSizes
<1>3. k \in Nat /\ Gap(o, t) + k < PoolEnd
  BY <1>1, PoolSizes
<1>4. Gap(o, WordAfter(s, j)) = Gap(o, s) + j
  BY <1>2, GapAfter
<1>5. Gap(o, WordAfter(t, k)) = Gap(o, t) + k
  BY <1>3, GapAfter
<1> QED BY <1>1, <1>2, <1>3, <1>4, <1>5

\* A packet is read out of its words and nothing else.
LEMMA SameWordsSamePacket ==
    ASSUME NEW m, NEW r, NEW s \in Word, m[s].len \in Nat, HeaderWords + m[s].len <= PoolEnd,
           \A w \in WordsOf(s, m[s].len) : r[w] = m[w]
    PROVE  PacketAt(r, s) = PacketAt(m, s) /\ r[s] = m[s]
<1>1. \A k \in 0 .. HeaderWords + m[s].len - 1 : r[WordAfter(s, k)] = m[WordAfter(s, k)]
  BY DEF WordsOf
<1>2. r[s] = m[s]
  <2>1. WordAfter(s, 0) = s /\ 0 \in 0 .. HeaderWords + m[s].len - 1
    BY PoolSizes DEF WordAfter, Word
  <2> QED BY <2>1, <1>1
<1>3. \A k \in 1 .. m[s].len : r[WordAfter(s, HeaderWords + k - 1)] = m[WordAfter(s, HeaderWords + k - 1)]
  <2> SUFFICES ASSUME NEW k \in 1 .. m[s].len
               PROVE  HeaderWords + k - 1 \in 0 .. HeaderWords + m[s].len - 1
    BY <1>1
  <2> QED BY PoolSizes
<1> QED BY <1>2, <1>3 DEF PacketAt

\* The write pointer moves past the packet, and not on to the first one.
LEMMA CommitAdvances ==
    ASSUME NEW o \in Word, NEW s \in 0 .. LastSafe, NEW l \in Nat,
           Gap(o, s) + HeaderWords + l + MinUsage <= PoolEnd
    PROVE  /\ Commit(WordAfter(s, HeaderWords + l)) \in 0 .. LastSafe
           /\ Gap(o, s) + HeaderWords + l <= Gap(o, Commit(WordAfter(s, HeaderWords + l)))
<1>1. s \in Word /\ HeaderWords + l \in Nat /\ Gap(o, s) + (HeaderWords + l) < PoolEnd
  BY PoolSizes DEF LastSafe, Word, Gap
<1>2. PICK e \in Word : e = WordAfter(s, HeaderWords + l)
  BY <1>1, GapAfter
<1>3. Gap(o, e) = Gap(o, s) + (HeaderWords + l)
  BY <1>1, <1>2, GapAfter
<1>4. Commit(e) \in 0 .. LastSafe /\ Gap(o, e) <= Gap(o, Commit(e))
  <2>1. CASE e > LastSafe
    <3>1. Gap(o, e) + MinUsage <= PoolEnd
      BY <1>1, <1>3, PoolSizes DEF Gap, Word
    <3>2. Gap(o, e) <= Gap(o, 0)
      BY <2>1, <3>1, PoolSizes DEF LastSafe, Gap, Word
    <3> QED BY <2>1, <3>2, PoolSizes DEF Commit, LastSafe
  <2>2. CASE ~(e > LastSafe)
    BY <2>2, PoolSizes DEF Commit, LastSafe, Word, Gap
  <2> QED BY <2>1, <2>2
<1> QED BY <1>1, <1>2, <1>3, <1>4, PoolSizes DEF Gap, Word

\* Memory m with a packet of l words for client t, whose data is g from c,
\* at s.
Written(m, s, l, t, c, g) ==
    [w \in Word |->
        IF w = s THEN [len |-> l, timed |-> t]
        ELSE IF w \in WordsOf(s, l) \ WordsOf(s, 0) THEN [from |-> c, tag |-> g] ELSE m[w]]

\* A packet is read as it was written.
LEMMA PacketWritten ==
    ASSUME NEW m, NEW s \in Word, NEW c \in Clients, NEW t \in {c, NoClient}, NEW g \in Tags,
           NEW l \in FrameWords, HeaderWords + l <= PoolEnd
    PROVE  /\ PacketAt(Written(m, s, l, t, c, g), s) \in Frames
           /\ Written(m, s, l, t, c, g)[s] = [len |-> l, timed |-> t]
<1> DEFINE h == [len |-> l, timed |-> t]
           d == [from |-> c, tag |-> g]
           r == Written(m, s, l, t, c, g)
<1>1. l \in Nat /\ h.len = l /\ h.timed = t
  BY PoolSizes
<1>2. ASSUME NEW k \in 1 .. l
      PROVE  r[WordAfter(s, HeaderWords + k - 1)] = d
  <2>1. PICK j \in Nat : j = HeaderWords + k - 1
    BY PoolSizes
  <2>2. j >= HeaderWords /\ j \in 0 .. HeaderWords + l - 1 /\ j < PoolEnd
    BY <1>1, <2>1, PoolSizes
  <2>3. WordAfter(s, j) \in Word /\ \A i \in 0 .. HeaderWords + 0 - 1 : WordAfter(s, i) # WordAfter(s, j)
    BY <2>2, PoolSizes DEF WordAfter, Word
  <2>4. WordAfter(s, 0) = s /\ 0 \in 0 .. HeaderWords + 0 - 1
    BY PoolSizes DEF WordAfter, Word
  <2>5. WordAfter(s, j) \in WordsOf(s, h.len) \ WordsOf(s, 0)
    BY <1>1, <2>2, <2>3 DEF WordsOf
  <2>6. WordAfter(s, j) # s
    BY <2>3, <2>4
  <2> QED BY <2>1, <2>3, <2>5, <2>6 DEF Written
<1>3. r[s] = h
  BY DEF Written
<1> HIDE DEF r
<1>4. PacketAt(r, s) = [len |-> l, timed |-> t, data |-> [k \in 1 .. l |-> d]]
  BY <1>1, <1>2, <1>3 DEF PacketAt
<1>5. PacketAt(r, s) \in Frames
  <2> DEFINE R(e, x, y, z) == [len |-> x, timed |-> y, data |-> [k \in 1 .. x |-> [from |-> e, tag |-> z]]]
  <2>1. PacketAt(r, s) = R(c, l, t, g)
    BY <1>4
  <2>2. Frames = UNION {{R(e, x, y, z) : x \in FrameWords, y \in {e, NoClient}, z \in Tags} : e \in Clients}
    BY DEF Frames
  <2> HIDE DEF R
  <2>3. R(c, l, t, g) \in {R(c, x, y, z) : x \in FrameWords, y \in {c, NoClient}, z \in Tags}
    OBVIOUS
  <2> QED BY <2>1, <2>2, <2>3
<1> QED BY <1>3, <1>5 DEF r

\* There is room at s for a packet of l words behind the n of p, and for
\* what commit skips.
Room(p, n, s, l) ==
    /\ HeaderWords + l + MinUsage <= PoolEnd
    /\ n > 0 => Gap(p[0], s) + HeaderWords + l + MinUsage <= PoolEnd

\* u has the packets of p and one at s.
Extended(u, p, n, s) == u[n] = s /\ \A k \in 0 .. n - 1 : u[k] = p[k]

\* A packet that is written behind the others leaves them alone, and is the
\* last of them.
LEMMA LaidAppend ==
    ASSUME NEW m, NEW p, NEW n \in Nat, NEW s \in 0 .. LastSafe, Laid(m, p, n, s),
           NEW c \in Clients, NEW t \in {c, NoClient}, NEW g \in Tags,
           NEW l \in FrameWords, Room(p, n, s, l),
           NEW r, r = Written(m, s, l, t, c, g), NEW u, Extended(u, p, n, s)
    PROVE  /\ Laid(r, u, n + 1, Commit(WordAfter(s, HeaderWords + l)))
           /\ \A k \in 0 .. n - 1 : PacketAt(r, p[k]) = PacketAt(m, p[k]) /\ r[p[k]] = m[p[k]]
           /\ PacketAt(r, s) \in Frames /\ r[s].timed = t
<1> USE DEF Room, Extended
<1> DEFINE v == Commit(WordAfter(s, HeaderWords + l))
<1>1. s \in Word /\ l \in Nat
  BY PoolSizes DEF LastSafe, Word
<1>2. PacketAt(r, s) \in Frames /\ r[s].len = l /\ r[s].timed = t
  <2>1. HeaderWords + l <= PoolEnd
    BY <1>1, PoolSizes
  <2>2. PacketAt(r, s) \in Frames /\ r[s] = [len |-> l, timed |-> t]
    BY <1>1, <2>1, PacketWritten
  <2> QED BY <2>2
<1>3. ASSUME NEW k \in 0 .. n - 1
      PROVE  /\ PacketAt(r, p[k]) = PacketAt(m, p[k]) /\ r[p[k]] = m[p[k]]
             /\ p[k] \in Word /\ m[p[k]].len \in Nat /\ p[0] \in Word
             /\ Gap(p[0], p[k]) + HeaderWords + m[p[k]].len <= Gap(p[0], s)
             /\ Gap(p[0], s) + HeaderWords + l + MinUsage <= PoolEnd
  <2>1. n > 0 /\ 0 \in 0 .. n - 1
    OBVIOUS
  <2>2. p[0] \in Word /\ p[k] \in Word /\ PacketAt(m, p[k]) \in Frames
    BY <2>1 DEF Laid
  <2>3. m[p[k]].len \in Nat
    BY <2>2, FrameShape, PoolSizes
  <2>4. Gap(p[0], p[k]) + HeaderWords + m[p[k]].len <= Gap(p[0], s)
    BY DEF Laid
  <2>5. Gap(p[0], s) + HeaderWords + l <= PoolEnd /\ Gap(p[0], p[k]) \in Nat /\ Gap(p[0], s) \in 0 .. PoolEnd - 1
    BY <2>1, <2>2, <1>1, PoolSizes DEF Gap, Word
  <2>6. WordsOf(p[k], m[p[k]].len) \cap WordsOf(s, l) = {}
    BY <2>2, <2>3, <2>4, <2>5, <1>1, WordsApart
  <2>7. WordsOf(p[k], m[p[k]].len) \subseteq Word
    <3>1. Gap(p[0], p[k]) + HeaderWords + m[p[k]].len <= PoolEnd
      BY <2>3, <2>4, <2>5, PoolSizes
    <3> SUFFICES ASSUME NEW j \in 0 .. HeaderWords + m[p[k]].len - 1
                 PROVE  WordAfter(p[k], j) \in Word
      BY DEF WordsOf
    <3>2. j \in Nat /\ Gap(p[0], p[k]) + j < PoolEnd
      BY <3>1, <2>3, <2>5, PoolSizes
    <3> QED BY <3>2, <2>2, GapAfter
  <2>8. s \in WordsOf(s, l)
    <3>1. WordAfter(s, 0) = s /\ 0 \in 0 .. HeaderWords + l - 1
      BY <1>1, PoolSizes DEF WordAfter, Word
    <3> QED BY <3>1 DEF WordsOf
  <2>9. \A w \in WordsOf(p[k], m[p[k]].len) : r[w] = m[w]
    BY <1>1, <2>6, <2>7, <2>8 DEF Written
  <2>10. HeaderWords + m[p[k]].len <= PoolEnd
    BY <2>3, <2>4, <2>5, PoolSizes
  <2>11. PacketAt(r, p[k]) = PacketAt(m, p[k]) /\ r[p[k]] = m[p[k]]
    BY <2>2, <2>3, <2>9, <2>10, SameWordsSamePacket
  <2> QED BY <2>1, <2>2, <2>3, <2>4, <2>11
<1>4. CASE n = 0
  <2>1. u[0] = s /\ \A k \in 0 .. (n + 1) - 1 : k = 0
    BY <1>4
  <2>2. Gap(s, s) = 0
    BY <1>1 DEF Gap, Word
  <2>3. HeaderWords + l <= Gap(s, v)
    <3>1. Gap(s, s) + HeaderWords + l + MinUsage <= PoolEnd
      BY <2>2, <1>1, PoolSizes
    <3>2. Gap(s, s) + HeaderWords + l <= Gap(s, v)
      BY <3>1, <1>1, CommitAdvances
    <3> QED BY <3>2, <2>2, <1>1, PoolSizes
  <2> HIDE DEF v
  <2>4. Laid(r, u, n + 1, v)
    <3>1. Gap(u[0], u[0]) + HeaderWords + r[u[0]].len <= Gap(u[0], v)
      BY <2>1, <2>2, <2>3, <1>1, <1>2, PoolSizes
    <3>2. \A j, k \in 0 .. (n + 1) - 1 : ~(j < k)
      BY <2>1
    <3> QED BY <3>1, <3>2, <2>1, <1>1, <1>2 DEF Laid
  <2>5. \A k \in 0 .. n - 1 : FALSE
    BY <1>4
  <2> QED BY <2>4, <2>5, <1>2 DEF v
<1>5. CASE n > 0
  <2>1. /\ u[0] = p[0] /\ p[0] \in Word
        /\ Gap(p[0], s) + HeaderWords + l + MinUsage <= PoolEnd
    <3>1. 0 \in 0 .. n - 1
      BY <1>5
    <3> QED BY <3>1, <1>3
  <2>2. Gap(p[0], s) + HeaderWords + l <= Gap(p[0], v)
    BY <2>1, <1>1, CommitAdvances
  <2>3. Gap(p[0], s) \in Nat /\ v \in Word /\ Gap(p[0], v) \in Nat
    <3>1. v \in 0 .. LastSafe
      BY <2>1, <1>1, CommitAdvances
    <3>2. v \in Word
      BY <3>1, PoolSizes DEF LastSafe, Word
    <3> HIDE DEF v
    <3> QED BY <3>2, <2>1, <1>1, PoolSizes DEF Gap, Word
  <2> HIDE DEF v
  <2>4. \A k \in 0 .. (n + 1) - 1 : k \in 0 .. n - 1 \/ k = n
    OBVIOUS
  <2>5. ASSUME NEW k \in 0 .. n - 1
        PROVE  /\ u[k] \in Word /\ PacketAt(r, u[k]) \in Frames
               /\ Gap(u[0], u[k]) + HeaderWords + r[u[k]].len <= Gap(u[0], s)
               /\ Gap(u[0], u[k]) + HeaderWords + r[u[k]].len <= Gap(u[0], v)
    <3>1. u[k] = p[k] /\ r[p[k]] = m[p[k]]
      BY <1>3
    <3>2. PacketAt(r, u[k]) \in Frames
      BY <3>1, <1>3 DEF Laid
    <3>3. Gap(p[0], p[k]) + HeaderWords + m[p[k]].len <= Gap(p[0], s) /\ Gap(p[0], s) <= Gap(p[0], v)
      BY <2>2, <2>3, <1>1, <1>3, PoolSizes
    <3>4. Gap(p[0], p[k]) \in Int /\ m[p[k]].len \in Nat
      BY <2>1, <1>3, PoolSizes DEF Gap, Word
    <3>5. Gap(p[0], p[k]) + HeaderWords + m[p[k]].len <= Gap(p[0], v)
      BY <3>3, <3>4, <2>3, PoolSizes
    <3> QED BY <3>1, <3>2, <3>3, <3>5, <2>1, <1>3
  <2>6. /\ u[n] \in Word /\ PacketAt(r, u[n]) \in Frames
        /\ Gap(u[0], u[n]) + HeaderWords + r[u[n]].len <= Gap(u[0], v)
    BY <2>1, <2>2, <1>1, <1>2
  <2>7. ASSUME NEW j \in 0 .. (n + 1) - 1, NEW k \in 0 .. (n + 1) - 1, j < k
        PROVE  Gap(u[0], u[j]) + HeaderWords + r[u[j]].len <= Gap(u[0], u[k])
    <3>1. j \in 0 .. n - 1
      BY <2>7
    <3>2. CASE k = n
      BY <3>1, <3>2, <2>5
    <3>3. CASE k \in 0 .. n - 1
      <4>1. Gap(p[0], p[j]) + HeaderWords + m[p[j]].len <= Gap(p[0], p[k])
        BY <3>1, <3>3, <2>7 DEF Laid
      <4>2. r[p[j]] = m[p[j]]
        BY <3>1, <1>3
      <4> QED BY <3>1, <3>3, <4>1, <4>2, <2>1
    <3> QED BY <3>2, <3>3, <2>4
  <2>8. Laid(r, u, n + 1, v)
    BY <2>4, <2>5, <2>6, <2>7 DEF Laid
  <2> QED BY <2>8, <1>2, <1>3 DEF v
<1> QED BY <1>4, <1>5

\* When the first packet goes, the others lie as they did, and more of the
\* pool is free.
LEMMA LaidRest ==
    ASSUME NEW m, NEW p, NEW n \in Nat, n > 0, NEW w \in Word, Laid(m, p, n, w),
           NEW u, \A k \in 0 .. n - 2 : u[k] = p[k + 1]
    PROVE  /\ Laid(m, u, n - 1, w)
           /\ n - 1 > 0 => Gap(u[0], w) <= Gap(p[0], w)
<1>1. CASE n = 1
  <2>1. \A k \in 0 .. (n - 1) - 1 : FALSE
    BY <1>1
  <2> QED BY <2>1, <1>1 DEF Laid
<1>2. CASE n > 1
  <2>1. 0 \in 0 .. n - 1 /\ 1 \in 0 .. n - 1 /\ 0 \in 0 .. n - 2
    BY <1>2
  <2>2. p[0] \in Word /\ p[1] \in Word /\ u[0] = p[1]
    <3>1. u[0] = p[0 + 1]
      BY <2>1
    <3> QED BY <3>1, <2>1 DEF Laid
  <2>3. ASSUME NEW x \in Word, Gap(p[0], p[1]) <= Gap(p[0], x)
        PROVE  Gap(p[1], x) = Gap(p[0], x) - Gap(p[0], p[1])
    BY <2>2, <2>3, PoolSizes DEF Gap, Word
  <2>4. /\ Gap(p[0], p[1]) \in Nat /\ Gap(p[0], w) \in Nat
        /\ \A k \in 0 .. n - 1 : Gap(p[0], p[k]) \in Nat /\ m[p[k]].len \in Nat
    <3>1. \A k \in 0 .. n - 1 : p[k] \in Word /\ m[p[k]].len \in Nat
      BY FrameShape, PoolSizes DEF Laid
    <3> QED BY <3>1, <2>2, PoolSizes DEF Gap, Word
  <2>5. ASSUME NEW k \in 1 .. n - 1
        PROVE  /\ Gap(p[1], p[k]) = Gap(p[0], p[k]) - Gap(p[0], p[1])
               /\ Gap(p[0], p[1]) <= Gap(p[0], w)
    <3>1. k \in 0 .. n - 1
      OBVIOUS
    <3>2. p[k] \in Word /\ Gap(p[0], p[k]) + HeaderWords + m[p[k]].len <= Gap(p[0], w)
      BY <3>1 DEF Laid
    <3>3. k = 1 \/ Gap(p[0], p[1]) + HeaderWords + m[p[1]].len <= Gap(p[0], p[k])
      BY <2>1, <3>1 DEF Laid
    <3>4. Gap(p[0], p[1]) <= Gap(p[0], p[k])
      BY <3>1, <3>3, <2>1, <2>4, PoolSizes
    <3>5. Gap(p[0], p[1]) <= Gap(p[0], w)
      BY <3>1, <3>2, <3>4, <2>4, PoolSizes
    <3> QED BY <3>2, <3>4, <3>5, <2>3
  <2>6. 1 \in 1 .. n - 1
    BY <1>2
  <2>7. Gap(p[0], p[1]) <= Gap(p[0], w) /\ Gap(p[1], w) = Gap(p[0], w) - Gap(p[0], p[1])
    BY <2>3, <2>5, <2>6
  <2>8. ASSUME NEW k \in 0 .. (n - 1) - 1
        PROVE  /\ u[k] \in Word /\ PacketAt(m, u[k]) \in Frames
               /\ Gap(u[0], u[k]) + HeaderWords + m[u[k]].len <= Gap(u[0], w)
    <3>1. PICK i \in 1 .. n - 1 : i = k + 1
      OBVIOUS
    <3>2. i \in 0 .. n - 1 /\ u[k] = p[i]
      BY <3>1
    <3>3. p[i] \in Word /\ PacketAt(m, p[i]) \in Frames
          /\ Gap(p[0], p[i]) + HeaderWords + m[p[i]].len <= Gap(p[0], w)
      BY <3>2 DEF Laid
    <3>4. Gap(p[1], p[i]) = Gap(p[0], p[i]) - Gap(p[0], p[1])
      BY <2>5
    <3>5. Gap(p[1], p[i]) + HeaderWords + m[p[i]].len <= Gap(p[1], w)
      BY <3>2, <3>3, <3>4, <2>4, <2>7, PoolSizes
    <3> QED BY <3>2, <3>3, <3>5, <2>2
  <2>9. ASSUME NEW j \in 0 .. (n - 1) - 1, NEW k \in 0 .. (n - 1) - 1, j < k
        PROVE  Gap(u[0], u[j]) + HeaderWords + m[u[j]].len <= Gap(u[0], u[k])
    <3>1. PICK i \in 1 .. n - 1, l \in 1 .. n - 1 : i = j + 1 /\ l = k + 1
      OBVIOUS
    <3>2. i \in 0 .. n - 1 /\ l \in 0 .. n - 1 /\ i < l /\ u[j] = p[i] /\ u[k] = p[l]
      BY <2>9, <3>1
    <3>3. Gap(p[0], p[i]) + HeaderWords + m[p[i]].len <= Gap(p[0], p[l])
      BY <3>2 DEF Laid
    <3>4. /\ Gap(p[1], p[i]) = Gap(p[0], p[i]) - Gap(p[0], p[1])
          /\ Gap(p[1], p[l]) = Gap(p[0], p[l]) - Gap(p[0], p[1])
      BY <2>5
    <3>5. Gap(p[1], p[i]) + HeaderWords + m[p[i]].len <= Gap(p[1], p[l])
      BY <3>2, <3>3, <3>4, <2>4, PoolSizes
    <3> QED BY <3>2, <3>5, <2>2
  <2>10. Gap(u[0], w) <= Gap(p[0], w)
    BY <2>2, <2>4, <2>7
  <2> QED BY <2>8, <2>9, <2>10 DEF Laid
<1> QED BY <1>1, <1>2

LEMMA LaidSame ==
    ASSUME NEW m, NEW p, NEW n \in Nat, NEW w, Laid(m, p, n, w), NEW u, \A k \in 0 .. n - 1 : u[k] = p[k]
    PROVE  Laid(m, u, n, w)
<1>1. n > 0 => u[0] = p[0]
  <2>1. n > 0 => 0 \in 0 .. n - 1
    OBVIOUS
  <2> QED BY <2>1
<1>2. ASSUME NEW k \in 0 .. n - 1
      PROVE  u[k] = p[k] /\ u[0] = p[0]
  BY <1>1
<1> QED BY <1>2 DEF Laid

----------------------------------------------------------------------------
(* The invariant: the queue holds n packets from rd on, which lie in that  *)
(* order in the pool, all behind each other and before wrptr.  A packet    *)
(* counts from the store of its pointer until rd moves off it.             *)

\* What the slots hold, from rd on.
InOrder == [k \in 0 .. NumPointers - 1 |-> q.ptrs[Ahead(q.rd, k)]]

QueueShape(n) ==
    /\ pc = "add" => n > 0 /\ q.wr = Ahead(q.rd, n - 1)
    /\ pc # "add" => q.wr = Ahead(q.rd, n)
    /\ \A k \in 0 .. NumPointers - 1 :
          Used(q, Ahead(q.rd, k)) <=> k < n \/ (txPc = "freeSlot" /\ k = NumPointers - 1)
    /\ txPc = "freeSlot" => n < NumPointers /\ freeing = Ahead(q.rd, NumPointers - 1)
    /\ txPc \in {"transmit", "freeRd"} => n > 0 /\ txBuf = NextBuf(q)

\* A reserved buffer is at wrptr, and with its packet written, and wrptr
\* moved on, the oldest packet is still clear.
Reserved(n) ==
    \A c \in Clients : sendBuffer[c] # Null =>
        /\ sendBuffer[c] = wrptr /\ requested[c] # 0 /\ ~QueueFull(q) /\ pc # "add"
        /\ n > 0 => Gap(NextBuf(q), wrptr) + HeaderWords + requested[c] + MinUsage <= PoolEnd

\* Between the loads of mii_get_rdptr: the slot loaded from may not be the
\* oldest any more, but then room up to its packet is room up to the oldest.
Loading(n) ==
    pc = "reserve" =>
        /\ ~QueueFull(q)
        /\ n > 0 /\ q.ptrs[rdIndex] # Null =>
              Gap(NextBuf(q), wrptr) <= Gap(q.ptrs[rdIndex], wrptr)

Shape(n) == QueueShape(n) /\ Laid(mem, InOrder, n, wrptr) /\ Reserved(n) /\ Loading(n)

LEMMA Typed ==
    ASSUME TypeOK
    PROVE  /\ q.rd \in Index /\ q.wr \in Index /\ q.ptrs \in [Index -> Word \cup {Null}]
           /\ q = [rd |-> q.rd, wr |-> q.wr, ptrs |-> q.ptrs]
           /\ wrptr \in 0 .. LastSafe /\ wrptr \in Word /\ rdIndex \in Index
           /\ \A c \in Clients : requested[c] \in FrameWords \cup {0} /\ requested[c] \in Nat
<1>1. wrptr \in 0 .. LastSafe /\ requested \in [Clients -> FrameWords \cup {0}]
  BY DEF TypeOK
<1>2. wrptr \in Word
  BY <1>1, PoolSizes DEF LastSafe, Word
<1>3. \A c \in Clients : requested[c] \in FrameWords \cup {0} /\ requested[c] \in Nat
  BY <1>1, PoolSizes
<1> QED BY <1>1, <1>2, <1>3 DEF TypeOK, QueueOf

LEMMA SlotsInOrder ==
    ASSUME TypeOK, NEW n \in 0 .. NumPointers, QueueShape(n)
    PROVE  /\ InOrder[0] = NextBuf(q)
           /\ NextBuf(q) # Null <=> n > 0
           /\ \A k \in 0 .. n - 1 : /\ Ahead(q.rd, k) \in Index
                                    /\ InOrder[k] = q.ptrs[Ahead(q.rd, k)] /\ InOrder[k] \in Word
           /\ n > 0 => NextBuf(q) \in Word
           /\ pc # "add" /\ ~QueueFull(q) =>
                 n < NumPointers /\ ~(txPc = "freeSlot" /\ n = NumPointers - 1)
<1>1. Ahead(q.rd, 0) = q.rd /\ Ahead(q.rd, NumPointers) = q.rd
  BY Typed, NumPointersAssumption DEF Ahead, Index
<1>2. 0 \in 0 .. NumPointers - 1 /\ NumPointers - 1 # 0
  BY NumPointersAssumption
<1>3. InOrder[0] = NextBuf(q)
  BY <1>1, <1>2 DEF InOrder, NextBuf
<1>4. NextBuf(q) # Null <=> n > 0
  BY <1>1, <1>2 DEF QueueShape, Used, NextBuf
<1>5. ASSUME NEW k \in 0 .. n - 1
      PROVE  /\ Ahead(q.rd, k) \in Index
             /\ InOrder[k] = q.ptrs[Ahead(q.rd, k)] /\ InOrder[k] \in Word
  <2>1. k \in 0 .. NumPointers - 1 /\ k < n
    BY NumPointersAssumption
  <2>2. Ahead(q.rd, k) \in Index
    BY <2>1, Typed, AheadIndex, NumPointersAssumption
  <2>3. q.ptrs[Ahead(q.rd, k)] # Null
    BY <2>1 DEF QueueShape, Used
  <2>4. InOrder[k] = q.ptrs[Ahead(q.rd, k)]
    BY <2>1 DEF InOrder
  <2> QED BY <2>2, <2>3, <2>4, Typed
<1>6. n > 0 => NextBuf(q) \in Word
  BY <1>4, Typed DEF NextBuf
<1>7. pc # "add" /\ ~QueueFull(q) => n < NumPointers /\ ~(txPc = "freeSlot" /\ n = NumPointers - 1)
  <2> SUFFICES ASSUME pc # "add", ~QueueFull(q)
               PROVE  n < NumPointers /\ ~(txPc = "freeSlot" /\ n = NumPointers - 1)
    OBVIOUS
  <2>1. ~Used(q, Ahead(q.rd, n))
    BY DEF QueueShape, QueueFull
  <2>2. n # NumPointers
    BY <2>1, <1>1, <1>2, NumPointersAssumption DEF QueueShape
  <2>3. n \in 0 .. NumPointers - 1
    BY <2>2, NumPointersAssumption
  <2> QED BY <2>1, <2>3, NumPointersAssumption DEF QueueShape
<1> QED BY <1>3, <1>4, <1>5, <1>6, <1>7

\* What a step does to the queue and the pool, and to the packets that are
\* in them both before and after it.
SamePackets(n) ==
    \A k \in 0 .. n - 1 : /\ q'.ptrs[Ahead(q.rd, k)] = q.ptrs[Ahead(q.rd, k)]
                          /\ PacketAt(mem', InOrder[k]) = PacketAt(mem, InOrder[k])
                          /\ mem'[InOrder[k]] = mem[InOrder[k]]

\* _complete_send_packet adds a packet at the end.
LEMMA CompleteSendShape ==
    ASSUME OneClient, PoolHoldsPacket, TypeOK, NEW n \in 0 .. NumPointers, Shape(n),
           NEW c \in Clients, NEW g \in Tags, NEW timed \in BOOLEAN, CompleteSend(c, g, timed)
    PROVE  /\ n + 1 \in 0 .. NumPointers /\ Shape(n + 1)'
           /\ SamePackets(n)
           /\ q.wr = Ahead(q.rd, n) /\ q.wr \in Index
           /\ q'.rd = q.rd /\ q'.ptrs = [q.ptrs EXCEPT ![q.wr] = wrptr]
           /\ wrptr' \in 0 .. LastSafe
           /\ PacketAt(mem', wrptr) \in Frames
           /\ mem'[wrptr].timed = IF timed THEN c ELSE NoClient
<1> DEFINE l == requested[c]
           t == IF timed THEN c ELSE NoClient
           h == [len |-> l, timed |-> t]
           d == [from |-> c, tag |-> g]
<1>1. /\ pc = "select" /\ sendBuffer[c] = wrptr /\ l # 0 /\ ~QueueFull(q)
      /\ n > 0 => Gap(NextBuf(q), wrptr) + HeaderWords + l + MinUsage <= PoolEnd
  BY DEF CompleteSend, Shape, Reserved
<1>2. l \in FrameWords /\ t \in {c, NoClient} /\ HeaderWords + l + MinUsage <= PoolEnd
  BY <1>1, Typed DEF PoolHoldsPacket
<1>3. /\ mem' = Written(mem, wrptr, l, t, c, g)
      /\ wrptr' = Commit(WordAfter(wrptr, HeaderWords + l))
      /\ q' = StorePtr(q, wrptr)
      /\ sendBuffer' = [sendBuffer EXCEPT ![c] = Null]
      /\ pc' = "add" /\ UNCHANGED <<txPc, txBuf, freeing>>
  BY <1>1 DEF CompleteSend, Written, WithPacket, txVars
<1>4. /\ q.wr = Ahead(q.rd, n) /\ n < NumPointers
      /\ ~(txPc = "freeSlot" /\ n = NumPointers - 1)
      /\ InOrder[0] = NextBuf(q)
  BY <1>1, SlotsInOrder DEF Shape, QueueShape
<1>5. /\ q'.rd = q.rd /\ q'.wr = q.wr
      /\ q'.ptrs = [q.ptrs EXCEPT ![q.wr] = wrptr]
  BY <1>3, Typed DEF StorePtr
<1>6. n + 1 \in 0 .. NumPointers /\ n \in Nat /\ n \in 0 .. NumPointers - 1
  BY <1>4, NumPointersAssumption
<1>7. ASSUME NEW k \in 0 .. NumPointers - 1
      PROVE  /\ Ahead(q.rd, k) \in Index
             /\ q'.ptrs[Ahead(q.rd, k)] = IF k = n THEN wrptr ELSE q.ptrs[Ahead(q.rd, k)]
             /\ InOrder'[k] = q'.ptrs[Ahead(q.rd, k)]
             /\ InOrder[k] = q.ptrs[Ahead(q.rd, k)]
  <2>1. Ahead(q.rd, k) \in Index /\ (Ahead(q.rd, k) = Ahead(q.rd, n) <=> k = n)
    BY <1>6, Typed, AheadIndex, DistanceAhead, NumPointersAssumption
  <2> QED BY <2>1, <1>4, <1>5, Typed DEF InOrder
<1>8. InOrder'[n] = wrptr /\ \A k \in 0 .. n - 1 : InOrder'[k] = InOrder[k]
  <2>1. \A k \in 0 .. n - 1 : k \in 0 .. NumPointers - 1 /\ k # n
    BY <1>6, NumPointersAssumption
  <2> QED BY <2>1, <1>6, <1>7
<1>9. Laid(mem, InOrder, n, wrptr) /\ wrptr \in 0 .. LastSafe
      /\ (n > 0 => Gap(InOrder[0], wrptr) + HeaderWords + l + MinUsage <= PoolEnd)
  BY <1>1, <1>4, Typed DEF Shape
<1> HIDE DEF l, t
<1>10. /\ Laid(mem', InOrder', n + 1, wrptr')
       /\ \A k \in 0 .. n - 1 : /\ PacketAt(mem', InOrder[k]) = PacketAt(mem, InOrder[k])
                                /\ mem'[InOrder[k]] = mem[InOrder[k]]
       /\ PacketAt(mem', wrptr) \in Frames /\ mem'[wrptr].timed = t
  <2>1. /\ wrptr \in 0 .. LastSafe /\ n \in Nat /\ l \in FrameWords /\ t \in {c, NoClient}
        /\ HeaderWords + l + MinUsage <= PoolEnd
    BY <1>2, <1>6, <1>9
  <2>2. PICK r : r = mem' /\ r = Written(mem, wrptr, l, t, c, g)
    BY <1>3
  <2>3. PICK p, u : p = InOrder /\ u = InOrder'
    OBVIOUS
  <2>4. Extended(u, p, n, wrptr) /\ Laid(mem, p, n, wrptr) /\ Room(p, n, wrptr, l)
    BY <2>3, <1>2, <1>8, <1>9 DEF Extended, Room
  <2>5. /\ Laid(r, u, n + 1, Commit(WordAfter(wrptr, HeaderWords + l)))
        /\ \A k \in 0 .. n - 1 : PacketAt(r, p[k]) = PacketAt(mem, p[k]) /\ r[p[k]] = mem[p[k]]
        /\ PacketAt(r, wrptr) \in Frames /\ r[wrptr].timed = t
    BY <2>1, <2>2, <2>4, LaidAppend
  <2> QED BY <2>2, <2>3, <2>5, <1>3
<1>11. QueueShape(n + 1)'
  <2>1. (n + 1) - 1 = n
    OBVIOUS
  <2>2. \A k \in 0 .. NumPointers - 1 :
            Used(q', Ahead(q.rd, k)) <=> k < n + 1 \/ (txPc = "freeSlot" /\ k = NumPointers - 1)
    <3> SUFFICES ASSUME NEW k \in 0 .. NumPointers - 1
                 PROVE  Used(q', Ahead(q.rd, k)) <=> k < n + 1 \/ (txPc = "freeSlot" /\ k = NumPointers - 1)
      OBVIOUS
    <3>1. CASE k = n
      BY <3>1, <1>7, Typed, PoolSizes DEF Used
    <3>2. CASE k # n
      <4>1. Used(q, Ahead(q.rd, k)) <=> k < n \/ (txPc = "freeSlot" /\ k = NumPointers - 1)
        BY DEF Shape, QueueShape
      <4>2. k < n + 1 <=> k < n
        BY <3>2, <1>6
      <4> QED BY <3>2, <4>1, <4>2, <1>7 DEF Used
    <3> QED BY <3>1, <3>2
  <2>3. txPc = "freeSlot" => n + 1 < NumPointers /\ freeing = Ahead(q.rd, NumPointers - 1)
    BY <1>4, <1>6, NumPointersAssumption DEF Shape, QueueShape
  <2>4. txPc \in {"transmit", "freeRd"} => txBuf = NextBuf(q')
    <3>1. txPc \in {"transmit", "freeRd"} => n > 0 /\ txBuf = NextBuf(q)
      BY DEF Shape, QueueShape
    <3>2. n > 0 => NextBuf(q') = NextBuf(q)
      <4>1. Ahead(q.rd, 0) = q.rd /\ 0 \in 0 .. NumPointers - 1
        BY Typed, NumPointersAssumption DEF Ahead, Index
      <4> QED BY <4>1, <1>5, <1>7 DEF NextBuf
    <3> QED BY <3>1, <3>2
  <2> QED BY <2>1, <2>2, <2>3, <2>4, <1>3, <1>4, <1>5, <1>6 DEF QueueShape
<1>12. Reserved(n + 1)'
  <2>1. \A b \in Clients : b = c
    BY DEF OneClient
  <2>2. sendBuffer'[c] = Null
    BY <1>3 DEF TypeOK
  <2> QED BY <2>1, <2>2 DEF Reserved
<1>13. wrptr' \in 0 .. LastSafe
  <2>1. l \in Nat /\ Gap(wrptr, wrptr) = 0 /\ wrptr \in Word
    BY <1>2, PoolSizes, Typed DEF Gap, Word
  <2>2. Gap(wrptr, wrptr) + HeaderWords + l + MinUsage <= PoolEnd
    BY <2>1, <1>2, PoolSizes
  <2> QED BY <2>1, <2>2, <1>3, <1>9, CommitAdvances
<1>14. SamePackets(n)
  <2>1. \A k \in 0 .. n - 1 : k \in 0 .. NumPointers - 1 /\ k # n
    BY <1>6, NumPointersAssumption
  <2> QED BY <2>1, <1>7, <1>10 DEF SamePackets
<1>15. Loading(n + 1)'
  BY <1>3 DEF Loading
<1> QED BY <1>4, <1>5, <1>6, <1>10, <1>11, <1>12, <1>13, <1>14, <1>15, Typed DEF Shape, t

\* A call that touches neither the queue nor the pool.
LEMMA QuietShape ==
    ASSUME NEW n \in 0 .. NumPointers, Shape(n),
           UNCHANGED <<q, mem, wrptr, txPc, txBuf, freeing>>, pc # "add", pc' = "post",
           \A c \in Clients : sendBuffer'[c] # Null =>
               sendBuffer'[c] = sendBuffer[c] /\ requested'[c] = requested[c]
    PROVE  Shape(n)'
<1>1. QueueShape(n)'
  BY DEF Shape, QueueShape
<1>2. InOrder' = InOrder
  BY DEF InOrder
<1>3. Reserved(n)' /\ Loading(n)'
  BY DEF Shape, Reserved, Loading
<1> QED BY <1>1, <1>2, <1>3 DEF Shape

\* The second store of mii_add_packet.
LEMMA AddPacketShape ==
    ASSUME TypeOK, NEW n \in 0 .. NumPointers, Shape(n), AddPacket
    PROVE  /\ Shape(n)'
           /\ q'.rd = q.rd /\ q'.ptrs = q.ptrs /\ q'.wr \in Index
<1>1. /\ pc = "add" /\ pc' = "post" /\ q' = AdvanceWr(q)
      /\ UNCHANGED <<mem, wrptr, requested, sendBuffer, txPc, txBuf, freeing>>
  BY DEF AddPacket, txVars
<1>2. q'.rd = q.rd /\ q'.ptrs = q.ptrs /\ q'.wr = NextIndex(q.wr)
  BY <1>1, Typed DEF AdvanceWr
<1>3. n > 0 /\ q.wr = Ahead(q.rd, n - 1)
  BY <1>1 DEF Shape, QueueShape
<1>4. NextIndex(q.wr) = Ahead(q.rd, n) /\ NextIndex(q.wr) \in Index
  <2>1. PICK i \in Index : i = q.rd
    BY Typed
  <2>2. n \in 1 .. NumPointers
    BY <1>3, NumPointersAssumption
  <2>3. NextIndex(Ahead(i, n - 1)) = Ahead(i, n) /\ Ahead(i, n) \in Index
    BY <2>2, NumPointersAssumption DEF NextIndex, Ahead, Index
  <2> QED BY <1>3, <2>1, <2>3
<1>5. QueueShape(n)'
  BY <1>1, <1>2, <1>4 DEF Shape, QueueShape, Used, NextBuf
<1>6. InOrder' = InOrder
  BY <1>2 DEF InOrder
<1>7. Reserved(n)' /\ Loading(n)'
  BY <1>1 DEF Shape, Reserved, Loading
<1> QED BY <1>1, <1>2, <1>4, <1>5, <1>6, <1>7 DEF Shape

\* No slot was in use when the null pointer was read, so none is.
LEMMA NullShape ==
    ASSUME TypeOK, NEW n \in 0 .. NumPointers, QueueShape(n), NullMeansEmpty,
           pc = "reserve", q.ptrs[rdIndex] = Null
    PROVE  n = 0
<1>1. Ahead(q.rd, 0) = q.rd /\ 0 \in 0 .. NumPointers - 1 /\ q.rd \in Index
  BY Typed, NumPointersAssumption DEF Ahead, Index
<1>2. n > 0 => Used(q, q.rd)
  BY <1>1 DEF QueueShape
<1>3. txPc = "freeSlot" => freeing # q.rd
  <2> SUFFICES ASSUME txPc = "freeSlot" PROVE freeing # q.rd
    OBVIOUS
  <2>1. freeing = Ahead(q.rd, NumPointers - 1)
    BY DEF QueueShape
  <2> QED BY <2>1, <1>1, NumPointersAssumption DEF Ahead, Index
<1>4. ~(n > 0)
  BY <1>1, <1>2, <1>3 DEF NullMeansEmpty
<1> QED BY <1>4, NumPointersAssumption

\* The first load of mii_get_rdptr.
LEMMA LoadRdShape ==
    ASSUME TypeOK, NEW n \in 0 .. NumPointers, Shape(n), LoadRd
    PROVE  Shape(n)'
<1>1. /\ pc = "post" /\ pc' = "reserve" /\ ~QueueFull(q) /\ rdIndex' = q.rd
      /\ UNCHANGED <<q, mem, wrptr, requested, sendBuffer, txPc, txBuf, freeing>>
  BY DEF LoadRd, txVars
<1>2. QueueShape(n)' /\ Reserved(n)' /\ InOrder' = InOrder
  BY <1>1 DEF Shape, QueueShape, Reserved, InOrder
<1>3. Loading(n)'
  <2>1. ASSUME n > 0 PROVE Gap(NextBuf(q), wrptr) <= Gap(q.ptrs[q.rd], wrptr)
    <3>1. NextBuf(q) \in Word /\ NextBuf(q) = q.ptrs[q.rd]
      BY <2>1, SlotsInOrder DEF Shape, NextBuf
    <3>2. Gap(NextBuf(q), wrptr) \in Int
      BY <3>1, Typed, PoolSizes DEF Gap, Word
    <3> QED BY <3>1, <3>2
  <2> QED BY <2>1, <1>1 DEF Loading
<1> QED BY <1>1, <1>2, <1>3 DEF Shape

\* The second load, and reserve.
LEMMA ReserveBuffersShape ==
    ASSUME TypeOK, NEW n \in 0 .. NumPointers, Shape(n), NullMeansEmpty, ReserveBuffers
    PROVE  Shape(n)'
<1> DEFINE p == q.ptrs[rdIndex]
<1>1. /\ pc = "reserve" /\ pc' = "select"
      /\ sendBuffer' = [c \in Clients |->
             IF sendBuffer[c] = Null /\ Granted(c) THEN wrptr ELSE sendBuffer[c]]
      /\ UNCHANGED <<q, mem, wrptr, requested, txPc, txBuf, freeing>>
  BY DEF ReserveBuffers, txVars
<1>2. QueueShape(n)'
  BY <1>1 DEF Shape, QueueShape
<1>3. InOrder' = InOrder
  BY <1>1 DEF InOrder
<1>4. /\ ~QueueFull(q)
      /\ n > 0 => p \in Word /\ Gap(NextBuf(q), wrptr) <= Gap(p, wrptr)
  <2>1. n > 0 => p # Null
    BY <1>1, NullShape DEF Shape
  <2>2. p # Null => p \in Word
    BY Typed
  <2> QED BY <2>1, <2>2, <1>1 DEF Shape, Loading
<1> HIDE DEF p
<1>5. ASSUME NEW c \in Clients, sendBuffer'[c] # Null
      PROVE  /\ sendBuffer'[c] = wrptr /\ requested[c] # 0 /\ ~QueueFull(q)
             /\ n > 0 => Gap(NextBuf(q), wrptr) + HeaderWords + requested[c] + MinUsage <= PoolEnd
  <2>1. CASE sendBuffer[c] # Null
    <3>1. sendBuffer'[c] = sendBuffer[c]
      BY <2>1, <1>1
    <3> QED BY <2>1, <3>1 DEF Shape, Reserved
  <2>2. CASE sendBuffer[c] = Null
    <3>1. sendBuffer'[c] = wrptr /\ Granted(c)
      BY <1>1, <1>5, <2>2
    <3>2. ASSUME n > 0
          PROVE  Gap(NextBuf(q), wrptr) + HeaderWords + requested[c] + MinUsage <= PoolEnd
      <4>1. NextBuf(q) \in Word /\ p \in Word /\ p # Null
        BY <3>2, <1>4, SlotsInOrder, PoolSizes DEF Shape
      <4>2. ReservesAtLeast(wrptr, p, requested[c] + HeaderWords + DataWords)
        BY <3>1 DEF Granted, p
      <4>3. PICK l \in Nat : l = requested[c]
        BY Typed
      <4>4. \/ p - wrptr >= l + HeaderWords + DataWords
            \/ p - wrptr <= 0 /\ p - wrptr + PoolEnd >= l + HeaderWords + DataWords
        BY <4>1, <4>2, <4>3 DEF ReservesAtLeast
      <4>5. Gap(p, wrptr) + HeaderWords + l + MinUsage <= PoolEnd
        BY <4>1, <4>4, Typed, PoolSizes DEF Gap, Word
      <4>6. Gap(p, wrptr) \in Int /\ Gap(NextBuf(q), wrptr) \in Int
        BY <4>1, Typed, PoolSizes DEF Gap, Word
      <4> QED BY <4>3, <4>5, <4>6, <1>4, <3>2, PoolSizes
    <3> QED BY <3>1, <3>2, <1>4 DEF Granted
  <2> QED BY <2>1, <2>2
<1>6. Reserved(n)' /\ Loading(n)'
  BY <1>1, <1>5 DEF Reserved, Loading
<1> QED BY <1>1, <1>2, <1>3, <1>6 DEF Shape

\* The queue is full.
LEMMA ReserveNoneShape ==
    ASSUME NEW n \in 0 .. NumPointers, Shape(n), ReserveNone
    PROVE  Shape(n)'
<1>1. /\ pc = "post" /\ pc' = "select"
      /\ UNCHANGED <<q, mem, wrptr, requested, sendBuffer, txPc, txBuf, freeing>>
  BY DEF ReserveNone, txVars
<1>2. QueueShape(n)' /\ Reserved(n)' /\ Loading(n)' /\ InOrder' = InOrder
  BY <1>1 DEF Shape, QueueShape, Reserved, Loading, InOrder
<1> QED BY <1>1, <1>2 DEF Shape

\* tx_pins takes a packet and sends it.
LEMMA NextPacketShape ==
    ASSUME TypeOK, NEW n \in 0 .. NumPointers, Shape(n), NextPacket
    PROVE  Shape(n)' /\ NextBuf(q) \in Word
<1>1. /\ txPc = "next" /\ NextBuf(q) # Null /\ txBuf' = NextBuf(q) /\ txPc' = "transmit"
      /\ UNCHANGED <<q, mem, wrptr, requested, sendBuffer, pc, rdIndex, freeing>>
  BY DEF NextPacket, serverVars
<1>2. n > 0 /\ NextBuf(q) \in Word
  BY <1>1, SlotsInOrder DEF Shape
<1>3. QueueShape(n)'
  BY <1>1, <1>2 DEF Shape, QueueShape
<1>4. InOrder' = InOrder /\ Reserved(n)' /\ Loading(n)'
  BY <1>1 DEF Shape, Reserved, Loading, InOrder
<1> QED BY <1>1, <1>2, <1>3, <1>4 DEF Shape

LEMMA TransmitShape ==
    ASSUME TypeOK, NEW n \in 0 .. NumPointers, Shape(n), Transmit
    PROVE  /\ Shape(n)'
           /\ n > 0 /\ txBuf = NextBuf(q) /\ txBuf = InOrder[0]
           /\ mem[txBuf].timed \in Clients \cup {NoClient}
<1>1. /\ txPc = "transmit" /\ txPc' = "freeRd"
      /\ UNCHANGED <<q, mem, wrptr, requested, sendBuffer, pc, rdIndex, freeing, txBuf>>
  BY DEF Transmit, serverVars
<1>2. n > 0 /\ txBuf = NextBuf(q) /\ txBuf = InOrder[0]
  BY <1>1, SlotsInOrder DEF Shape, QueueShape
<1>3. QueueShape(n)'
  BY <1>1 DEF Shape, QueueShape
<1>4. InOrder' = InOrder /\ Reserved(n)' /\ Loading(n)'
  BY <1>1 DEF Shape, Reserved, Loading, InOrder
<1>5. mem[txBuf].timed \in Clients \cup {NoClient}
  <2>1. 0 \in 0 .. n - 1
    BY <1>2
  <2>2. PacketAt(mem, txBuf) \in Frames
    BY <2>1, <1>2 DEF Shape, Laid
  <2> QED BY <2>2, FrameShape
<1> QED BY <1>1, <1>2, <1>3, <1>4, <1>5 DEF Shape

\* mii_free_index moves rd to the next slot, and then clears the one before.
LEMMA FreeRdShape ==
    ASSUME TypeOK, NEW n \in 0 .. NumPointers, Shape(n), FreeRd
    PROVE  /\ n - 1 \in 0 .. NumPointers /\ n > 0 /\ Shape(n - 1)'
           /\ q'.rd = NextIndex(q.rd) /\ q'.rd \in Index /\ q'.wr = q.wr /\ q'.ptrs = q.ptrs
           /\ freeing' = q.rd
<1>1. /\ txPc = "freeRd" /\ ~(pc = "add" /\ q.wr = q.rd) /\ q' = MoveRdOff(q, q.rd)
      /\ txPc' = "freeSlot" /\ freeing' = q.rd
      /\ UNCHANGED <<mem, wrptr, requested, sendBuffer, pc, rdIndex>>
  BY DEF FreeRd, serverVars
<1>2. n > 0 /\ n \in Nat
  BY <1>1, NumPointersAssumption DEF Shape, QueueShape
<1>3. ScanStops(q, Ahead(q.rd, 1))
  <2>1. \A k \in 0 .. NumPointers - 1 : k < n => Used(q, Ahead(q.rd, k))
    BY DEF Shape, QueueShape
  <2>2. CASE n > 1
    <3>1. 1 \in 0 .. NumPointers - 1
      BY NumPointersAssumption
    <3> QED BY <2>1, <2>2, <3>1 DEF ScanStops
  <2>3. CASE n = 1
    <3>1. Ahead(q.rd, n - 1) = q.rd
      BY <2>3, Typed, NumPointersAssumption DEF Ahead, Index
    <3>2. q.wr = Ahead(q.rd, 1)
      BY <2>3, <3>1, <1>1 DEF Shape, QueueShape
    <3> QED BY <3>2 DEF ScanStops
  <2> QED BY <1>2, <2>2, <2>3
<1>4. MoveMyRdIndex(q, q.rd) = NextIndex(q.rd)
  <2>1. PICK k \in 1 .. NumPointers : /\ MoveMyRdIndex(q, q.rd) = Ahead(q.rd, k)
                                      /\ \A m \in 1 .. k - 1 : ~ScanStops(q, Ahead(q.rd, m))
    BY Typed, MoveMyRdIndexStops
  <2>2. k = 1
    <3>1. k > 1 => 1 \in 1 .. k - 1
      BY NumPointersAssumption
    <3>2. k \in Nat /\ k >= 1
      BY NumPointersAssumption
    <3> QED BY <3>1, <3>2, <2>1, <1>3
  <2> QED BY <2>1, <2>2 DEF NextIndex
<1>5. q'.rd = NextIndex(q.rd) /\ q'.wr = q.wr /\ q'.ptrs = q.ptrs
  BY <1>1, <1>4, Typed DEF MoveRdOff
<1>6. q'.rd \in Index
  BY <1>5, Typed, AheadIndex, NumPointersAssumption DEF NextIndex
<1>7. /\ \A k \in 0 .. NumPointers - 1 : Ahead(q'.rd, k) = Ahead(q.rd, k + 1)
      /\ Ahead(q.rd, NumPointers) = q.rd
  <2>1. PICK r \in Index : r = q.rd
    BY Typed
  <2>2. \A k \in 0 .. NumPointers - 1 : Ahead(Ahead(r, 1), k) = Ahead(r, k + 1)
    BY NumPointersAssumption DEF Ahead, Index
  <2>3. Ahead(r, NumPointers) = r
    BY NumPointersAssumption DEF Ahead, Index
  <2> QED BY <2>1, <2>2, <2>3, <1>5 DEF NextIndex
<1>8. n - 1 \in 0 .. NumPointers /\ n - 1 < NumPointers
  BY <1>2, NumPointersAssumption
<1>9. \A k \in 0 .. NumPointers - 2 : InOrder'[k] = InOrder[k + 1]
  <2> SUFFICES ASSUME NEW k \in 0 .. NumPointers - 2
               PROVE  InOrder'[k] = InOrder[k + 1]
    OBVIOUS
  <2>1. k \in 0 .. NumPointers - 1 /\ k + 1 \in 0 .. NumPointers - 1
    BY NumPointersAssumption
  <2> QED BY <2>1, <1>5, <1>7 DEF InOrder
<1>10. /\ Laid(mem, InOrder', n - 1, wrptr)
       /\ n - 1 > 0 => Gap(InOrder'[0], wrptr) <= Gap(InOrder[0], wrptr)
  <2>1. PICK p, u : p = InOrder /\ u = InOrder'
    OBVIOUS
  <2>2. \A k \in 0 .. n - 2 : u[k] = p[k + 1]
    <3>1. \A k \in 0 .. n - 2 : k \in 0 .. NumPointers - 2
      BY NumPointersAssumption
    <3> QED BY <3>1, <2>1, <1>9
  <2>3. Laid(mem, p, n, wrptr) /\ wrptr \in Word /\ n \in Nat /\ n > 0
    BY <2>1, <1>2, Typed DEF Shape
  <2>4. Laid(mem, u, n - 1, wrptr) /\ (n - 1 > 0 => Gap(u[0], wrptr) <= Gap(p[0], wrptr))
    BY <2>2, <2>3, LaidRest
  <2> QED BY <2>1, <2>4
<1>11. QueueShape(n - 1)'
  <2>1. pc = "add" => n - 1 > 0 /\ q.wr = Ahead(q'.rd, (n - 1) - 1)
    <3> SUFFICES ASSUME pc = "add"
                 PROVE  n - 1 > 0 /\ q.wr = Ahead(q'.rd, (n - 1) - 1)
      OBVIOUS
    <3>1. q.wr = Ahead(q.rd, n - 1) /\ q.wr # q.rd
      BY <1>1 DEF Shape, QueueShape
    <3>2. n # 1
      BY <3>1, Typed, NumPointersAssumption DEF Ahead, Index
    <3>3. (n - 1) - 1 \in 0 .. NumPointers - 1 /\ (n - 1) - 1 + 1 = n - 1
      BY <3>2, <1>2, NumPointersAssumption
    <3> QED BY <3>1, <3>2, <3>3, <1>2, <1>7
  <2>2. pc # "add" => q.wr = Ahead(q'.rd, n - 1)
    <3>1. n - 1 \in 0 .. NumPointers - 1 /\ (n - 1) + 1 = n
      BY <1>2, NumPointersAssumption
    <3> QED BY <3>1, <1>7 DEF Shape, QueueShape
  <2>3. \A k \in 0 .. NumPointers - 1 :
            Used(q', Ahead(q'.rd, k)) <=> k < n - 1 \/ ("freeSlot" = "freeSlot" /\ k = NumPointers - 1)
    <3> SUFFICES ASSUME NEW k \in 0 .. NumPointers - 1
                 PROVE  Used(q', Ahead(q'.rd, k)) <=> k < n - 1 \/ k = NumPointers - 1
      OBVIOUS
    <3>1. CASE k = NumPointers - 1
      <4>1. Ahead(q'.rd, k) = q.rd
        BY <3>1, <1>7, NumPointersAssumption
      <4>2. NextBuf(q) # Null
        BY <1>2, SlotsInOrder DEF Shape
      <4> QED BY <3>1, <4>1, <4>2, <1>5 DEF Used, NextBuf
    <3>2. CASE k # NumPointers - 1
      <4>1. k + 1 \in 0 .. NumPointers - 1
        BY <3>2, NumPointersAssumption
      <4>2. Used(q, Ahead(q.rd, k + 1)) <=> k + 1 < n
        BY <4>1, <1>1 DEF Shape, QueueShape
      <4>3. k + 1 < n <=> k < n - 1
        BY <1>2, NumPointersAssumption
      <4> QED BY <3>2, <4>2, <4>3, <1>5, <1>7 DEF Used
    <3> QED BY <3>1, <3>2
  <2>4. freeing' = Ahead(q'.rd, NumPointers - 1)
    <3>1. NumPointers - 1 \in 0 .. NumPointers - 1 /\ (NumPointers - 1) + 1 = NumPointers
      BY NumPointersAssumption
    <3> QED BY <3>1, <1>1, <1>7
  <2> QED BY <2>1, <2>2, <2>3, <2>4, <1>1, <1>5, <1>8 DEF QueueShape
<1>12. n - 1 > 0 => /\ NextBuf(q) \in Word /\ NextBuf(q') \in Word
                    /\ Gap(NextBuf(q'), wrptr) <= Gap(NextBuf(q), wrptr)
  <2> SUFFICES ASSUME n - 1 > 0
               PROVE  /\ NextBuf(q) \in Word /\ NextBuf(q') \in Word
                      /\ Gap(NextBuf(q'), wrptr) <= Gap(NextBuf(q), wrptr)
    OBVIOUS
  <2>1. InOrder[0] = NextBuf(q) /\ NextBuf(q) \in Word
    BY <1>2, SlotsInOrder DEF Shape
  <2>2. InOrder'[0] = NextBuf(q') /\ NextBuf(q') \in Word
    <3>1. 0 \in 0 .. NumPointers - 1 /\ 1 \in 0 .. NumPointers - 1 /\ 1 < n
      BY <1>2, NumPointersAssumption
    <3>2. Ahead(q'.rd, 0) = q'.rd /\ q'.rd = Ahead(q.rd, 1)
      BY <1>5, <1>6, NumPointersAssumption DEF Ahead, NextIndex, Index
    <3>3. q.ptrs[Ahead(q.rd, 1)] # Null
      BY <3>1 DEF Shape, QueueShape, Used
    <3> QED BY <3>1, <3>2, <3>3, <1>5, <1>6, Typed DEF InOrder, NextBuf
  <2> QED BY <2>1, <2>2, <1>10
<1>13. QueueFull(q') <=> QueueFull(q)
  BY <1>5 DEF QueueFull, Used
<1>14. Reserved(n - 1)'
  <2> SUFFICES ASSUME NEW c \in Clients, sendBuffer[c] # Null
               PROVE  /\ sendBuffer[c] = wrptr /\ requested[c] # 0 /\ ~QueueFull(q') /\ pc # "add"
                      /\ n - 1 > 0 => Gap(NextBuf(q'), wrptr) + HeaderWords + requested[c] + MinUsage <= PoolEnd
    BY <1>1 DEF Reserved
  <2>1. /\ sendBuffer[c] = wrptr /\ requested[c] # 0 /\ ~QueueFull(q) /\ pc # "add"
        /\ Gap(NextBuf(q), wrptr) + HeaderWords + requested[c] + MinUsage <= PoolEnd
    BY <1>2 DEF Shape, Reserved
  <2>2. ASSUME n - 1 > 0
        PROVE  Gap(NextBuf(q'), wrptr) + HeaderWords + requested[c] + MinUsage <= PoolEnd
    <3>1. PICK x \in Nat, y \in Nat, z \in Nat :
              x = Gap(NextBuf(q'), wrptr) /\ y = Gap(NextBuf(q), wrptr) /\ z = requested[c]
      BY <2>2, <1>12, Typed, PoolSizes DEF Gap, Word
    <3> QED BY <3>1, <2>1, <2>2, <1>12, PoolSizes
  <2> QED BY <2>1, <2>2, <1>13
<1>15. Loading(n - 1)'
  <2> SUFFICES ASSUME pc = "reserve", n - 1 > 0, q.ptrs[rdIndex] # Null
               PROVE  Gap(NextBuf(q'), wrptr) <= Gap(q.ptrs[rdIndex], wrptr)
    BY <1>1, <1>5, <1>13 DEF Shape, Loading
  <2>1. Gap(NextBuf(q), wrptr) <= Gap(q.ptrs[rdIndex], wrptr)
    BY <1>2 DEF Shape, Loading
  <2>2. q.ptrs[rdIndex] \in Word
    BY Typed
  <2>3. PICK x \in Nat, y \in Nat, z \in Nat :
            x = Gap(NextBuf(q'), wrptr) /\ y = Gap(NextBuf(q), wrptr) /\ z = Gap(q.ptrs[rdIndex], wrptr)
    BY <2>2, <1>12, Typed, PoolSizes DEF Gap, Word
  <2> QED BY <2>1, <2>3, <1>12
<1> QED BY <1>1, <1>2, <1>5, <1>6, <1>8, <1>10, <1>11, <1>14, <1>15 DEF Shape

LEMMA FreeSlotShape ==
    ASSUME TypeOK, NEW n \in 0 .. NumPointers, Shape(n), FreeSlot
    PROVE  /\ Shape(n)'
           /\ freeing = Ahead(q.rd, NumPointers - 1) /\ n < NumPointers
           /\ q'.rd = q.rd /\ q'.wr = q.wr /\ q'.ptrs = [q.ptrs EXCEPT ![freeing] = Null]
<1>1. /\ txPc = "freeSlot" /\ q' = ClearSlot(q, freeing) /\ txPc' = "next"
      /\ UNCHANGED <<mem, wrptr, requested, sendBuffer, pc, rdIndex, txBuf>>
  BY DEF FreeSlot, serverVars
<1>2. freeing = Ahead(q.rd, NumPointers - 1) /\ n < NumPointers
  BY <1>1 DEF Shape, QueueShape
<1>3. q'.rd = q.rd /\ q'.wr = q.wr /\ q'.ptrs = [q.ptrs EXCEPT ![freeing] = Null]
  BY <1>1, Typed DEF ClearSlot
<1>4. ASSUME NEW k \in 0 .. NumPointers - 1
      PROVE  /\ q'.ptrs[Ahead(q.rd, k)] = IF k = NumPointers - 1 THEN Null ELSE q.ptrs[Ahead(q.rd, k)]
             /\ InOrder'[k] = q'.ptrs[Ahead(q.rd, k)] /\ InOrder[k] = q.ptrs[Ahead(q.rd, k)]
  <2>1. NumPointers - 1 \in 0 .. NumPointers - 1
    BY NumPointersAssumption
  <2>2. Ahead(q.rd, k) \in Index /\ (Ahead(q.rd, k) = Ahead(q.rd, NumPointers - 1) <=> k = NumPointers - 1)
    BY <2>1, Typed, AheadIndex, DistanceAhead, NumPointersAssumption
  <2> QED BY <2>2, <1>2, <1>3, Typed DEF InOrder
<1>5. \A k \in 0 .. n - 1 : k \in 0 .. NumPointers - 1 /\ k # NumPointers - 1
  BY <1>2, NumPointersAssumption
<1>6. Laid(mem, InOrder', n, wrptr)
  <2>1. \A k \in 0 .. n - 1 : InOrder'[k] = InOrder[k]
    BY <1>4, <1>5
  <2>2. PICK p, u : p = InOrder /\ u = InOrder'
    OBVIOUS
  <2>3. Laid(mem, p, n, wrptr) /\ n \in Nat
    BY <2>2, NumPointersAssumption DEF Shape
  <2>4. Laid(mem, u, n, wrptr)
    BY <2>1, <2>2, <2>3, LaidSame
  <2> QED BY <2>2, <2>4
<1>7. \A k \in 0 .. NumPointers - 1 : Used(q', Ahead(q'.rd, k)) <=> k < n
  <2> SUFFICES ASSUME NEW k \in 0 .. NumPointers - 1
               PROVE  q'.ptrs[Ahead(q.rd, k)] # Null <=> k < n
    BY <1>3 DEF Used
  <2>1. q.ptrs[Ahead(q.rd, k)] # Null <=> k < n \/ k = NumPointers - 1
    BY <1>1 DEF Shape, QueueShape, Used
  <2>2. k = NumPointers - 1 => ~(k < n)
    BY <1>2, NumPointersAssumption
  <2> QED BY <2>1, <2>2, <1>4
<1>8. QueueShape(n)'
  BY <1>1, <1>3, <1>7 DEF Shape, QueueShape
<1>9. n > 0 => NextBuf(q') = NextBuf(q)
  <2> SUFFICES ASSUME n > 0 PROVE NextBuf(q') = NextBuf(q)
    OBVIOUS
  <2>1. 0 \in 0 .. NumPointers - 1 /\ 0 # NumPointers - 1 /\ Ahead(q.rd, 0) = q.rd
    BY Typed, NumPointersAssumption DEF Ahead, Index
  <2>2. q'.ptrs[Ahead(q.rd, 0)] = q.ptrs[Ahead(q.rd, 0)]
    BY <2>1, <1>4
  <2> QED BY <2>1, <2>2, <1>3 DEF NextBuf
<1>10. QueueFull(q') => QueueFull(q)
  BY <1>3, Typed DEF QueueFull, Used
<1>11. Reserved(n)'
  BY <1>1, <1>9, <1>10 DEF Shape, Reserved
<1>12. Loading(n)'
  <2>1. q'.ptrs[rdIndex] # Null => q'.ptrs[rdIndex] = q.ptrs[rdIndex]
    BY <1>3, Typed
  <2> QED BY <2>1, <1>1, <1>9, <1>10 DEF Shape, Loading
<1> QED BY <1>1, <1>2, <1>3, <1>6, <1>8, <1>11, <1>12 DEF Shape

----------------------------------------------------------------------------
(* Times.  A client waits for at most one, so its packet is in the queue,  *)
(* or its time is in the ring of times, or the server has it.              *)

\* The slots of packets that wait and whose time client c wants.
TimedFor(c) == {i \in Waiting : mem[q.ptrs[i]].timed = c}

TimeShape ==
    \A c \in Clients :
        /\ sending[c] = "timing" <=> hasTime[c] = TRUE \/ TsFound(times) \/ TimedFor(c) # {}
        /\ ~(hasTime[c] = TRUE /\ TsFound(times))
        /\ TimedFor(c) # {} => hasTime[c] = FALSE /\ ~TsFound(times)
        /\ \A i, j \in TimedFor(c) : i = j

IInv ==
    /\ TypeOK
    /\ \E n \in 0 .. NumPointers : Shape(n)
    /\ TimeShape

\* The ring of times of one client has two entries, and holds one.
LEMMA TimesOfOne ==
    ASSUME OneClient, NEW t \in TsQueueType
    PROVE  /\ TsWaiting(t) = IF TsFound(t) THEN {t.rd} ELSE {}
           /\ TsGet(t) \in TsQueueType /\ ~TsFound(TsGet(t))
           /\ t.fifo[t.rd] \in Clients
           /\ \A c \in Clients : /\ TsAdd(t, c) \in TsQueueType
                                 /\ ~TsFound(t) => TsFound(TsAdd(t, c))
<1>1. NumTsEntries = 2
  <2>1. PICK c : Clients = {c}
    BY DEF OneClient
  <2>2. Cardinality(Clients) = 1
    BY <2>1, FS_Singleton
  <2> QED BY <2>2 DEF NumTsEntries
<1>2. TsIndex = {0, 1} /\ 0 .. 1 = {0, 1}
  BY <1>1 DEF TsIndex
<1>3. WrapToZero(0, NumTsEntries) = 1 /\ WrapToZero(1, NumTsEntries) = 0
  <2>1. 0 + 1 # 2 /\ 1 + 1 = 2 /\ (0 + 1) * 1 = 1 /\ (1 + 1) * 0 = 0
    OBVIOUS
  <2> QED BY <2>1, <1>1 DEF WrapToZero
<1>4. /\ t.rd \in {0, 1} /\ t.wr \in {0, 1} /\ t.fifo \in [TsIndex -> Clients]
      /\ t = [rd |-> t.rd, wr |-> t.wr, fifo |-> t.fifo]
  BY <1>2 DEF TsQueueType
<1>5. TsWaiting(t) = IF TsFound(t) THEN {t.rd} ELSE {}
  <2>1. ASSUME NEW i \in {0, 1}
        PROVE  i \in TsWaiting(t) <=> TsFound(t) /\ i = t.rd
    <3>1. i \in TsWaiting(t) <=> IF t.rd <= t.wr THEN t.rd <= i /\ i < t.wr ELSE i < t.wr \/ t.rd <= i
      BY <1>2 DEF TsWaiting
    <3>2. PICK r \in {0, 1}, w \in {0, 1} : r = t.rd /\ w = t.wr
      BY <1>4
    <3>3. (IF r <= w THEN r <= i /\ i < w ELSE i < w \/ r <= i) <=> r # w /\ i = r
      BY <3>2
    <3> QED BY <3>1, <3>2, <3>3 DEF TsFound
  <2>2. TsWaiting(t) \subseteq {0, 1}
    BY <1>2 DEF TsWaiting
  <2> QED BY <2>1, <2>2, <1>4
<1>6. /\ TsGet(t).rd = t.wr /\ TsGet(t).wr = t.wr /\ TsGet(t).fifo = t.fifo
      /\ TsGet(t) = [rd |-> t.wr, wr |-> t.wr, fifo |-> t.fifo]
  <2>1. CASE TsFound(t)
    <3>1. TsGet(t) = [rd |-> WrapToZero(t.rd, NumTsEntries), wr |-> t.wr, fifo |-> t.fifo]
      BY <2>1, <1>4 DEF TsGet
    <3>2. WrapToZero(t.rd, NumTsEntries) = t.wr
      BY <2>1, <1>3, <1>4 DEF TsFound
    <3> QED BY <3>1, <3>2
  <2>2. CASE ~TsFound(t)
    BY <2>2, <1>4 DEF TsGet, TsFound
  <2> QED BY <2>1, <2>2
<1>7. TsGet(t) \in TsQueueType /\ ~TsFound(TsGet(t))
  BY <1>2, <1>4, <1>6 DEF TsQueueType, TsFound
<1>8. ASSUME NEW c \in Clients
      PROVE  TsAdd(t, c) \in TsQueueType /\ (~TsFound(t) => TsFound(TsAdd(t, c)))
  <2>1. PICK w \in {0, 1} : w = WrapToZero(t.wr, NumTsEntries) /\ w # t.wr
    BY <1>3, <1>4
  <2>2. TsAdd(t, c) = [rd |-> t.rd, wr |-> w, fifo |-> [t.fifo EXCEPT ![t.wr] = c]]
    <3>1. TsAdd(t, c) = [t EXCEPT !.fifo = [t.fifo EXCEPT ![t.wr] = c], !.wr = w]
      BY <2>1 DEF TsAdd
    <3>2. PICK f : f = [t.fifo EXCEPT ![t.wr] = c]
      OBVIOUS
    <3> QED BY <3>1, <3>2, <1>4
  <2> QED BY <2>1, <2>2, <1>2, <1>4 DEF TsQueueType, TsFound
<1> QED BY <1>2, <1>4, <1>5, <1>7, <1>8

\* The slots that wait are those from NextToSend to the last.
FirstWaiting == IF txPc = "freeRd" THEN 1 ELSE 0

LEMMA WaitingAre ==
    ASSUME TypeOK, NEW n \in 0 .. NumPointers, QueueShape(n)
    PROVE  /\ FirstWaiting \in 0 .. n
           /\ NextToSend = Ahead(q.rd, FirstWaiting)
           /\ \A i \in Index : i \in Waiting <=> /\ FirstWaiting <= Distance(q.rd, i)
                                                 /\ Distance(q.rd, i) < n
<1>1. FirstWaiting \in 0 .. n
  BY NumPointersAssumption DEF FirstWaiting, QueueShape
<1>2. NextToSend = Ahead(q.rd, FirstWaiting)
  <2>1. Ahead(q.rd, 0) = q.rd
    BY Typed, NumPointersAssumption DEF Ahead, Index
  <2> QED BY <2>1 DEF NextToSend, FirstWaiting, NextIndex
<1>3. ASSUME NEW i \in Index
      PROVE  i \in Waiting <=> FirstWaiting <= Distance(q.rd, i) /\ Distance(q.rd, i) < n
  <2>1. PICK k \in 0 .. NumPointers - 1 : k = Distance(q.rd, i) /\ i = Ahead(q.rd, k)
    BY Typed, AheadDistance
  <2>2. i = q.rd <=> k = 0
    <3>1. Ahead(q.rd, 0) = q.rd /\ Distance(q.rd, q.rd) = 0
      BY Typed, NumPointersAssumption DEF Ahead, Distance, Index
    <3> QED BY <2>1, <3>1
  <2>3. txPc = "freeSlot" => n < NumPointers /\ (i = freeing <=> k = NumPointers - 1)
    <3> SUFFICES ASSUME txPc = "freeSlot"
                 PROVE  n < NumPointers /\ (i = freeing <=> k = NumPointers - 1)
      OBVIOUS
    <3>1. freeing = Ahead(q.rd, NumPointers - 1) /\ n < NumPointers
      BY DEF QueueShape
    <3>2. NumPointers - 1 \in 0 .. NumPointers - 1
      BY NumPointersAssumption
    <3>3. Distance(q.rd, freeing) = NumPointers - 1
      BY <3>1, <3>2, Typed, DistanceAhead
    <3> QED BY <2>1, <3>1, <3>3
  <2>4. Used(q, i) <=> k < n \/ (txPc = "freeSlot" /\ k = NumPointers - 1)
    BY <2>1 DEF QueueShape
  <2>5. i \in Waiting <=> /\ Used(q, i)
                          /\ ~(txPc = "freeRd" /\ k = 0)
                          /\ ~(txPc = "freeSlot" /\ k = NumPointers - 1)
    BY <2>2, <2>3 DEF Waiting
  <2>6. FirstWaiting <= k <=> ~(txPc = "freeRd" /\ k = 0)
    BY NumPointersAssumption DEF FirstWaiting
  <2>7. txPc = "freeSlot" /\ k < n => k # NumPointers - 1
    BY <2>3, NumPointersAssumption
  <2> QED BY <2>1, <2>4, <2>5, <2>6, <2>7
<1> QED BY <1>1, <1>2, <1>3

\* How many there are, and that there are no holes.
LEMMA WaitingInOrder ==
    ASSUME TypeOK, NEW n \in 0 .. NumPointers, QueueShape(n)
    PROVE  /\ NextToSend \in Index
           /\ Waiting \in SUBSET Index /\ IsFiniteSet(Waiting)
           /\ Cardinality(Waiting) = n - FirstWaiting
           /\ \A k \in 0 .. n - FirstWaiting - 1 : Ahead(NextToSend, k) \in Waiting
           /\ \A i \in Waiting : \E k \in 0 .. n - 1 : i = Ahead(q.rd, k) /\ q.ptrs[i] = InOrder[k]
<1>1. PICK m \in 0 .. n : m = FirstWaiting
  BY WaitingAre
<1>2. /\ NextToSend = Ahead(q.rd, m) /\ q.rd \in Index
      /\ \A i \in Index : i \in Waiting <=> m <= Distance(q.rd, i) /\ Distance(q.rd, i) < n
  BY <1>1, WaitingAre, Typed
<1>3. Waiting \in SUBSET Index
  BY DEF Waiting
<1>4. m \in 0 .. NumPointers /\ m <= n
  BY NumPointersAssumption
<1>5. NextToSend \in Index
  BY <1>2, <1>4, AheadIndex
<1>6. /\ IsFiniteSet(Waiting) /\ Cardinality(Waiting) = n - m
      /\ \A k \in 0 .. n - m - 1 : Ahead(NextToSend, k) \in Waiting
  BY <1>2, <1>3, <1>4, RunOfSlots
<1>7. ASSUME NEW i \in Waiting
      PROVE  \E k \in 0 .. n - 1 : i = Ahead(q.rd, k) /\ q.ptrs[i] = InOrder[k]
  <2>1. i \in Index
    BY <1>3
  <2>2. Distance(q.rd, i) \in 0 .. n - 1 /\ Ahead(q.rd, Distance(q.rd, i)) = i
    BY <2>1, <1>2, AheadDistance, NumPointersAssumption
  <2> QED BY <2>2, SlotsInOrder
<1> QED BY <1>1, <1>3, <1>5, <1>6, <1>7

\* A step that leaves the packets that wait.
LEMMA SameWaiting ==
    ASSUME q'.rd = q.rd, q'.ptrs = q.ptrs,
           \/ UNCHANGED <<txPc, freeing>>
           \/ txPc \in {"next", "transmit"} /\ txPc' \in {"next", "transmit"}
    PROVE  Waiting' = Waiting /\ NextToSend' = NextToSend
  BY DEF Waiting, NextToSend, Used

LEMMA SameTimed ==
    ASSUME Waiting' = Waiting, \A i \in Waiting : mem'[q'.ptrs[i]] = mem[q.ptrs[i]]
    PROVE  \A c \in Clients : TimedFor(c)' = TimedFor(c)
  BY DEF TimedFor

LEMMA SameTimes ==
    ASSUME TimeShape, \A c \in Clients : TimedFor(c)' = TimedFor(c), UNCHANGED <<hasTime, times>>,
           \A c \in Clients : sending'[c] = "timing" <=> sending[c] = "timing"
    PROVE  TimeShape'
  BY DEF TimeShape

----------------------------------------------------------------------------
(* Every step keeps the invariant.                                         *)

\* The calls that touch neither queue nor pool, nor a time.
LEMMA QuietStep ==
    ASSUME IInv, SelectOther \/ GetPacket \/ \E c \in Clients, l \in FrameWords : InitSend(c, l)
    PROVE  IInv'
<1>1. /\ pc = "select" /\ pc' = "post"
      /\ UNCHANGED <<q, mem, wrptr, sendBuffer, hasTime, rdIndex, txPc, txBuf, freeing, times>>
  BY DEF SelectOther, GetPacket, InitSend, txVars
<1>2. prioritize' \in 0 .. MaxPrioritize
  <2>1. prioritize \in 0 .. MaxPrioritize /\ MaxPrioritize \in Nat
    BY MiiRtTxAssumption DEF IInv, TypeOK
  <2>2. Dec(prioritize) \in 0 .. MaxPrioritize
    BY <2>1 DEF Dec
  <2>3. prioritize' = Dec(prioritize) \/ (prioritize' = Dec(prioritize) + 1 /\ Dec(prioritize) + 1 <= MaxPrioritize)
    BY DEF SelectOther, GetPacket, InitSend
  <2> QED BY <2>1, <2>2, <2>3
<1>3. /\ requested' \in [Clients -> FrameWords \cup {0}]
      /\ sending' \in [Clients -> {"idle", "sending", "timing"}]
      /\ \A c \in Clients : /\ sendBuffer[c] # Null => requested'[c] = requested[c]
                            /\ sending'[c] = "timing" <=> sending[c] = "timing"
  <2>1. /\ requested \in [Clients -> FrameWords \cup {0}]
        /\ sending \in [Clients -> {"idle", "sending", "timing"}]
    BY DEF IInv, TypeOK
  <2>2. CASE SelectOther \/ GetPacket
    BY <2>1, <2>2 DEF SelectOther, GetPacket
  <2>3. ASSUME NEW c \in Clients, NEW l \in FrameWords, InitSend(c, l)
        PROVE  <1>3!1 /\ <1>3!2 /\ <1>3!3
    BY <2>1, <2>3 DEF InitSend
  <2> QED BY <2>2, <2>3
<1>4. TypeOK'
  BY <1>1, <1>2, <1>3 DEF IInv, TypeOK
<1>5. PICK n \in 0 .. NumPointers : Shape(n)
  BY DEF IInv
<1>6. Shape(n)'
  BY <1>1, <1>3, <1>5, QuietShape
<1>7. TimeShape'
  <2>1. \A c \in Clients : TimedFor(c)' = TimedFor(c)
    BY <1>1, SameWaiting, SameTimed
  <2> QED BY <2>1, <1>1, <1>3, SameTimes DEF IInv
<1> QED BY <1>4, <1>6, <1>7 DEF IInv

\* _get_outgoing_timestamp
LEMMA GetTimeStep ==
    ASSUME IInv, NEW c \in Clients, GetTime(c)
    PROVE  IInv'
<1>1. /\ pc = "select" /\ pc' = "post" /\ sending[c] = "timing" /\ hasTime[c] = TRUE
      /\ hasTime' = [hasTime EXCEPT ![c] = FALSE] /\ sending' = [sending EXCEPT ![c] = "idle"]
      /\ prioritize' = Dec(prioritize)
      /\ UNCHANGED <<q, mem, wrptr, requested, sendBuffer, rdIndex, txPc, txBuf, freeing, times>>
  <2>1. hasTime \in [Clients -> BOOLEAN]
    BY DEF IInv, TypeOK
  <2>2. hasTime[c] = TRUE
    BY <2>1 DEF GetTime
  <2> QED BY <2>2 DEF GetTime, txVars
<1>2. prioritize' \in 0 .. MaxPrioritize
  <2>1. prioritize \in 0 .. MaxPrioritize /\ MaxPrioritize \in Nat
    BY MiiRtTxAssumption DEF IInv, TypeOK
  <2> QED BY <2>1, <1>1 DEF Dec
<1>3. TypeOK'
  <2>1. /\ hasTime \in [Clients -> BOOLEAN]
        /\ sending \in [Clients -> {"idle", "sending", "timing"}]
    BY DEF IInv, TypeOK
  <2>2. hasTime' \in [Clients -> BOOLEAN] /\ sending' \in [Clients -> {"idle", "sending", "timing"}]
    BY <2>1, <1>1
  <2> QED BY <2>2, <1>1, <1>2 DEF IInv, TypeOK
<1>4. PICK n \in 0 .. NumPointers : Shape(n)
  BY DEF IInv
<1>5. Shape(n)'
  BY <1>1, <1>4, QuietShape
<1>6. TimeShape'
  <2>1. \A b \in Clients : TimedFor(b)' = TimedFor(b)
    BY <1>1, SameWaiting, SameTimed
  <2>2. TimedFor(c) = {} /\ ~TsFound(times)
    BY <1>1 DEF IInv, TimeShape
  <2>3. \A b \in Clients : b # c => sending'[b] = sending[b] /\ hasTime'[b] = hasTime[b]
    BY <1>1 DEF IInv, TypeOK
  <2>4. sending'[c] = "idle" /\ hasTime'[c] = FALSE
    BY <1>1 DEF IInv, TypeOK
  <2>5. TsFound(times') <=> TsFound(times)
    BY <1>1
  <2> QED BY <2>1, <2>2, <2>3, <2>4, <2>5 DEF IInv, TimeShape
<1> QED BY <1>3, <1>5, <1>6 DEF IInv

LEMMA AddPacketStep ==
    ASSUME IInv, AddPacket
    PROVE  IInv'
<1>1. PICK n \in 0 .. NumPointers : Shape(n)
  BY DEF IInv
<1>2. Shape(n)' /\ q'.rd = q.rd /\ q'.ptrs = q.ptrs /\ q'.wr \in Index
  BY <1>1, AddPacketShape DEF IInv
<1>3. /\ q' = [q EXCEPT !.wr = NextIndex(q.wr)] /\ pc' = "post"
      /\ UNCHANGED <<mem, wrptr, requested, sendBuffer, hasTime, rdIndex, prioritize, sending,
                     txPc, txBuf, freeing, times>>
  BY DEF AddPacket, AdvanceWr, txVars
<1>4. q' \in QueueOf(Word)
  BY <1>2, <1>3, Typed DEF IInv, QueueOf
<1>5. TypeOK'
  BY <1>3, <1>4 DEF IInv, TypeOK
<1>6. TimeShape'
  <2>1. \A b \in Clients : TimedFor(b)' = TimedFor(b)
    BY <1>2, <1>3, SameWaiting, SameTimed
  <2> QED BY <2>1, <1>3, SameTimes DEF IInv
<1> QED BY <1>2, <1>5, <1>6 DEF IInv

\* The first load of mii_get_rdptr.
LEMMA LoadRdStep ==
    ASSUME IInv, LoadRd
    PROVE  IInv'
<1>1. PICK n \in 0 .. NumPointers : Shape(n)
  BY DEF IInv
<1>2. Shape(n)'
  BY <1>1, LoadRdShape DEF IInv
<1>3. /\ rdIndex' = q.rd /\ pc' = "reserve"
      /\ UNCHANGED <<q, mem, wrptr, requested, sendBuffer, hasTime, prioritize, sending,
                     txPc, txBuf, freeing, times>>
  BY DEF LoadRd, txVars
<1>4. TypeOK'
  BY <1>3, Typed DEF IInv, TypeOK
<1>5. TimeShape'
  <2>1. \A b \in Clients : TimedFor(b)' = TimedFor(b)
    BY <1>3, SameWaiting, SameTimed
  <2> QED BY <2>1, <1>3, SameTimes DEF IInv
<1> QED BY <1>2, <1>4, <1>5 DEF IInv

\* reserve, if the queue is not full, and handle_ts_queue
LEMMA ReserveStep ==
    ASSUME OneClient, IInv, NullMeansEmpty, ReserveBuffers \/ ReserveNone
    PROVE  IInv'
<1>1. PICK n \in 0 .. NumPointers : Shape(n)
  BY DEF IInv
<1>2. Shape(n)'
  BY <1>1, ReserveBuffersShape, ReserveNoneShape DEF IInv
<1>3. /\ HandleTimes /\ pc' = "select" /\ (rdIndex' = 0 \/ rdIndex' = rdIndex)
      /\ \/ sendBuffer' = sendBuffer
         \/ sendBuffer' = [c \in Clients |->
                IF sendBuffer[c] = Null /\ Granted(c) THEN wrptr ELSE sendBuffer[c]]
      /\ UNCHANGED <<q, mem, wrptr, requested, prioritize, sending, txPc, txBuf, freeing>>
  BY DEF ReserveBuffers, ReserveNone, txVars
<1>4. times \in TsQueueType /\ hasTime \in [Clients -> BOOLEAN]
  BY DEF IInv, TypeOK
<1>5. sendBuffer' \in [Clients -> Word \cup {Null}] /\ rdIndex' \in Index
  <2>1. 0 \in Index /\ rdIndex \in Index
    BY Typed, NumPointersAssumption DEF IInv, Index
  <2>2. wrptr \in Word /\ sendBuffer \in [Clients -> Word \cup {Null}]
    BY Typed DEF IInv, TypeOK
  <2> QED BY <2>1, <2>2, <1>3
<1>6. times' = TsGet(times) /\ times' \in TsQueueType /\ ~TsFound(times')
  BY <1>3, <1>4, TimesOfOne DEF HandleTimes
<1>7. hasTime' \in [Clients -> BOOLEAN]
  <2>1. hasTime' = [c \in Clients |-> hasTime[c] \/ (TsFound(times) /\ c = TsOldest(times))]
    BY <1>3 DEF HandleTimes
  <2>2. \A c \in Clients : (hasTime[c] \/ (TsFound(times) /\ c = TsOldest(times))) \in BOOLEAN
    OBVIOUS
  <2> QED BY <2>1, <2>2, Zenon
<1>8. \A c \in Clients : hasTime'[c] = TRUE <=> hasTime[c] = TRUE \/ TsFound(times)
  <2> SUFFICES ASSUME NEW c \in Clients
               PROVE  hasTime'[c] = TRUE <=> hasTime[c] = TRUE \/ TsFound(times)
    OBVIOUS
  <2>1. c = TsOldest(times)
    <3>1. \A a, b \in Clients : a = b
      BY DEF OneClient
    <3> QED BY <3>1, <1>4, TimesOfOne DEF TsOldest
  <2>2. hasTime'[c] = (hasTime[c] \/ (TsFound(times) /\ c = TsOldest(times)))
    BY <1>3 DEF HandleTimes
  <2>3. hasTime[c] \in BOOLEAN
    BY <1>4
  <2> QED BY <2>1, <2>2, <2>3, Zenon
<1>9. TypeOK'
  BY <1>3, <1>5, <1>6, <1>7 DEF IInv, TypeOK
<1>10. TimeShape'
  <2> SUFFICES ASSUME NEW c \in Clients
               PROVE  /\ sending'[c] = "timing" <=> hasTime'[c] = TRUE \/ TsFound(times') \/ TimedFor(c)' # {}
                      /\ ~(hasTime'[c] = TRUE /\ TsFound(times'))
                      /\ TimedFor(c)' # {} => hasTime'[c] = FALSE /\ ~TsFound(times')
                      /\ \A i, j \in TimedFor(c)' : i = j
    BY DEF TimeShape
  <2>1. TimedFor(c)' = TimedFor(c) /\ sending'[c] = sending[c]
    BY <1>3, SameWaiting, SameTimed
  <2>2. hasTime[c] \in BOOLEAN /\ hasTime'[c] \in BOOLEAN
    BY <1>4, <1>7
  <2>3. /\ sending[c] = "timing" <=> hasTime[c] = TRUE \/ TsFound(times) \/ TimedFor(c) # {}
        /\ TimedFor(c) # {} => hasTime[c] = FALSE /\ ~TsFound(times)
        /\ \A i, j \in TimedFor(c) : i = j
    BY DEF IInv, TimeShape
  <2>4. hasTime'[c] = TRUE <=> hasTime[c] = TRUE \/ TsFound(times)
    BY <1>8
  <2>5. ~TsFound(times')
    BY <1>6
  <2> QED BY <2>1, <2>2, <2>3, <2>4, <2>5
<1> QED BY <1>2, <1>9, <1>10 DEF IInv

\* _complete_send_packet
LEMMA CompleteSendStep ==
    ASSUME OneClient, PoolHoldsPacket, IInv,
           NEW c \in Clients, NEW g \in Tags, NEW timed \in BOOLEAN, CompleteSend(c, g, timed)
    PROVE  /\ IInv' /\ q.wr \in Index \ Waiting /\ Waiting' = Waiting \cup {q.wr}
           /\ q.wr = Ahead(NextToSend, Cardinality(Waiting)) /\ NextToSend' = NextToSend
           /\ Cardinality(Waiting) \in 0 .. NumPointers - 1
           /\ \A i \in Waiting : PacketAt(mem', q'.ptrs[i]) = PacketAt(mem, q.ptrs[i])
           /\ PacketAt(mem', q'.ptrs[q.wr]) \in Frames
           /\ txPc = "freeRd" => PacketAt(mem', txBuf) = PacketAt(mem, txBuf)
           /\ UNCHANGED <<txPc, txBuf>>
<1>1. PICK n \in 0 .. NumPointers : Shape(n)
  BY DEF IInv
<1>2. /\ n + 1 \in 0 .. NumPointers /\ Shape(n + 1)' /\ SamePackets(n)
      /\ q.wr = Ahead(q.rd, n) /\ q.wr \in Index
      /\ q'.rd = q.rd /\ q'.ptrs = [q.ptrs EXCEPT ![q.wr] = wrptr]
      /\ wrptr' \in 0 .. LastSafe
      /\ mem'[wrptr].timed = IF timed THEN c ELSE NoClient
      /\ PacketAt(mem', wrptr) \in Frames
  BY <1>1, CompleteSendShape DEF IInv
<1>3. /\ pc = "select" /\ sending[c] = "sending" /\ sendBuffer[c] = wrptr /\ ~QueueFull(q)
      /\ mem' = WithPacket(wrptr, [len |-> requested[c], timed |-> IF timed THEN c ELSE NoClient],
                           [from |-> c, tag |-> g])
      /\ q' = StorePtr(q, wrptr)
      /\ sending' = [sending EXCEPT ![c] = IF timed THEN "timing" ELSE "idle"]
      /\ sendBuffer' = [sendBuffer EXCEPT ![c] = Null]
      /\ requested' = [requested EXCEPT ![c] = 0]
      /\ prioritize' = PrioritizeRx /\ pc' = "add"
      /\ UNCHANGED <<hasTime, rdIndex, txPc, txBuf, freeing, times>>
  BY <1>1 DEF CompleteSend, Shape, Reserved, txVars
<1>4. wrptr \in Word /\ wrptr # Null /\ requested[c] \in FrameWords
  BY <1>1, <1>3, Typed, PoolSizes DEF IInv, Shape, Reserved
<1>5. q' \in QueueOf(Word)
  BY <1>2, <1>3, <1>4, Typed DEF IInv, QueueOf, StorePtr
<1>6. mem' \in [Word -> Header \cup Data \cup {Null}]
  <2>1. mem \in [Word -> Header \cup Data \cup {Null}]
    BY DEF IInv, TypeOK
  <2>2. [len |-> requested[c], timed |-> IF timed THEN c ELSE NoClient] \in Header
    BY <1>4 DEF Header
  <2>3. [from |-> c, tag |-> g] \in Data
    BY DEF Data
  <2>4. PICK h \in Header, d \in Data : mem' = WithPacket(wrptr, h, d)
    BY <2>2, <2>3, <1>3
  <2> QED BY <2>1, <2>4 DEF WithPacket
<1>7. TypeOK'
  <2>1. requested' \in [Clients -> FrameWords \cup {0}] /\ sendBuffer' \in [Clients -> Word \cup {Null}]
    BY <1>3 DEF IInv, TypeOK
  <2>2. sending' \in [Clients -> {"idle", "sending", "timing"}]
    BY <1>3 DEF IInv, TypeOK
  <2>3. prioritize' \in 0 .. MaxPrioritize
    BY <1>3, MiiRtTxAssumption
  <2> QED BY <2>1, <2>2, <2>3, <1>2, <1>3, <1>5, <1>6 DEF IInv, TypeOK
<1>8. QueueShape(n)
  BY <1>1 DEF Shape
<1>9. /\ q.wr \notin Waiting /\ Waiting' = Waiting \cup {q.wr}
      /\ \A i \in Waiting : /\ q'.ptrs[i] = q.ptrs[i] /\ mem'[q.ptrs[i]] = mem[q.ptrs[i]]
                            /\ PacketAt(mem', q.ptrs[i]) = PacketAt(mem, q.ptrs[i])
  <2>1. q.wr \notin Waiting
    BY <1>3 DEF Waiting, QueueFull
  <2>2. \A i \in Index : Used(q', i) <=> Used(q, i) \/ i = q.wr
    BY <1>2, <1>4, Typed DEF IInv, Used
  <2>3. txPc = "freeRd" => q.wr # q.rd
    BY <1>3, <1>4, <1>8, SlotsInOrder DEF IInv, QueueShape, QueueFull, Used, NextBuf
  <2>4. txPc = "freeSlot" => q.wr # freeing
    <3> SUFFICES ASSUME txPc = "freeSlot" PROVE Used(q, freeing)
      BY <1>3 DEF QueueFull
    <3>1. NumPointers - 1 \in 0 .. NumPointers - 1
      BY NumPointersAssumption
    <3> QED BY <3>1, <1>8 DEF QueueShape
  <2>5. Waiting' = Waiting \cup {q.wr}
    BY <2>2, <2>3, <2>4, <1>2, <1>3 DEF Waiting
  <2>6. ASSUME NEW i \in Waiting
        PROVE  /\ q'.ptrs[i] = q.ptrs[i] /\ mem'[q.ptrs[i]] = mem[q.ptrs[i]]
               /\ PacketAt(mem', q.ptrs[i]) = PacketAt(mem, q.ptrs[i])
    <3>1. PICK k \in 0 .. n - 1 : i = Ahead(q.rd, k) /\ q.ptrs[i] = InOrder[k]
      BY <1>8, WaitingInOrder DEF IInv
    <3> QED BY <3>1, <1>2 DEF SamePackets
  <2> QED BY <2>1, <2>5, <2>6
<1>10. q'.ptrs[q.wr] = wrptr
  BY <1>2, Typed DEF IInv
<1>11. TimedFor(c)' = IF timed THEN TimedFor(c) \cup {q.wr} ELSE TimedFor(c)
  <2>1. TimedFor(c)' = {i \in Waiting \cup {q.wr} : mem'[q'.ptrs[i]].timed = c}
    BY <1>9 DEF TimedFor
  <2>2. mem'[q'.ptrs[q.wr]].timed = c <=> timed
    BY <1>2, <1>10, PoolSizes
  <2> QED BY <2>1, <2>2, <1>9 DEF TimedFor
<1>12. TimeShape'
  <2>1. \A a, b \in Clients : a = b
    BY DEF OneClient
  <2>2. ~(hasTime[c] = TRUE) /\ hasTime[c] \in BOOLEAN /\ ~TsFound(times) /\ TimedFor(c) = {}
    BY <1>3 DEF IInv, TimeShape, TypeOK
  <2>3. sending'[c] = (IF timed THEN "timing" ELSE "idle")
    BY <1>3 DEF IInv, TypeOK
  <2>4. hasTime'[c] = hasTime[c] /\ (TsFound(times') <=> TsFound(times))
    BY <1>3
  <2>5. hasTime[c] = FALSE
    BY <2>2
  <2>6. /\ sending'[c] = "timing" <=> hasTime'[c] = TRUE \/ TsFound(times') \/ TimedFor(c)' # {}
        /\ ~(hasTime'[c] = TRUE /\ TsFound(times'))
        /\ TimedFor(c)' # {} => hasTime'[c] = FALSE /\ ~TsFound(times')
        /\ \A i, j \in TimedFor(c)' : i = j
    <3>1. CASE timed
      BY <3>1, <2>2, <2>3, <2>4, <2>5, <1>11
    <3>2. CASE ~timed
      BY <3>2, <2>2, <2>3, <2>4, <2>5, <1>11
    <3> QED BY <3>1, <3>2
  <2> QED BY <2>1, <2>6 DEF TimeShape
<1>13. /\ q.wr = Ahead(NextToSend, Cardinality(Waiting)) /\ NextToSend' = NextToSend
       /\ Cardinality(Waiting) \in 0 .. NumPointers - 1
  <2>1. /\ Cardinality(Waiting) = n - FirstWaiting
        /\ FirstWaiting \in 0 .. n /\ NextToSend = Ahead(q.rd, FirstWaiting)
    BY <1>8, WaitingInOrder, WaitingAre DEF IInv
  <2>2. PICK m \in 0 .. NumPointers : m = FirstWaiting /\ m <= n
    BY <2>1, NumPointersAssumption
  <2>3. n < NumPointers
    BY <1>2, NumPointersAssumption
  <2>4. Ahead(Ahead(q.rd, m), n - m) = Ahead(q.rd, n)
    BY <2>2, Typed, AheadFurtherOn DEF IInv
  <2>5. NextToSend' = NextToSend
    BY <1>2, <1>3 DEF NextToSend
  <2> QED BY <2>1, <2>2, <2>3, <2>4, <2>5, <1>2, NumPointersAssumption
<1>14. txPc = "freeRd" => PacketAt(mem', txBuf) = PacketAt(mem, txBuf)
  <2> SUFFICES ASSUME txPc = "freeRd" PROVE PacketAt(mem', txBuf) = PacketAt(mem, txBuf)
    OBVIOUS
  <2>1. n > 0 /\ txBuf = InOrder[0]
    BY <1>8, SlotsInOrder DEF IInv, QueueShape
  <2>2. 0 \in 0 .. n - 1
    BY <2>1
  <2> QED BY <2>1, <2>2, <1>2 DEF SamePackets
<1> QED BY <1>2, <1>3, <1>7, <1>9, <1>10, <1>12, <1>13, <1>14 DEF IInv

----------------------------------------------------------------------------
(* tx_pins.                                                                *)

LEMMA NextPacketStep ==
    ASSUME IInv, NextPacket
    PROVE  IInv'
<1>1. PICK n \in 0 .. NumPointers : Shape(n)
  BY DEF IInv
<1>2. Shape(n)' /\ NextBuf(q) \in Word
  BY <1>1, NextPacketShape DEF IInv
<1>3. /\ txPc = "next" /\ txPc' = "transmit" /\ txBuf' = NextBuf(q)
      /\ UNCHANGED <<q, mem, wrptr, requested, sendBuffer, hasTime, pc, rdIndex, prioritize, sending, times, freeing>>
  BY DEF NextPacket, serverVars
<1>4. TypeOK'
  BY <1>2, <1>3 DEF IInv, TypeOK
<1>5. TimeShape'
  <2>1. \A b \in Clients : TimedFor(b)' = TimedFor(b)
    BY <1>3, SameWaiting, SameTimed
  <2> QED BY <2>1, <1>3, SameTimes DEF IInv
<1> QED BY <1>2, <1>4, <1>5 DEF IInv

\* The packet that has been sent does not wait any more, and its time is in
\* the ring.
LEMMA TransmitStep ==
    ASSUME OneClient, IInv, Transmit
    PROVE  /\ IInv' /\ q.rd \in Waiting /\ Waiting' = Waiting \ {q.rd} /\ txBuf = q.ptrs[q.rd]
<1>1. PICK n \in 0 .. NumPointers : Shape(n)
  BY DEF IInv
<1>2. /\ Shape(n)' /\ n > 0 /\ txBuf = NextBuf(q)
      /\ mem[txBuf].timed \in Clients \cup {NoClient}
  BY <1>1, TransmitShape DEF IInv
<1>3. /\ txPc = "transmit" /\ txPc' = "freeRd"
      /\ times' = IF mem[txBuf].timed = NoClient THEN times ELSE TsAdd(times, mem[txBuf].timed)
      /\ UNCHANGED <<q, mem, wrptr, requested, sendBuffer, hasTime, pc, rdIndex, prioritize, sending, freeing, txBuf>>
  BY DEF Transmit, serverVars
<1>4. times \in TsQueueType
  BY DEF IInv, TypeOK
<1>5. times' \in TsQueueType
  BY <1>2, <1>3, <1>4, TimesOfOne
<1>6. TypeOK'
  BY <1>3, <1>5 DEF IInv, TypeOK
<1>7. q.rd \in Waiting /\ Waiting' = Waiting \ {q.rd} /\ txBuf = q.ptrs[q.rd]
  <2>1. NextBuf(q) # Null /\ q.rd \in Index
    BY <1>1, <1>2, SlotsInOrder, Typed DEF IInv, Shape
  <2>2. q.rd \in Waiting
    BY <2>1, <1>3 DEF Waiting, Used, NextBuf
  <2>3. Waiting' = Waiting \ {q.rd}
    BY <1>3 DEF Waiting
  <2> QED BY <2>2, <2>3, <1>2 DEF NextBuf
<1>8. TimeShape'
  <2> SUFFICES ASSUME NEW c \in Clients
               PROVE  /\ sending'[c] = "timing" <=> hasTime'[c] = TRUE \/ TsFound(times') \/ TimedFor(c)' # {}
                      /\ ~(hasTime'[c] = TRUE /\ TsFound(times'))
                      /\ TimedFor(c)' # {} => hasTime'[c] = FALSE /\ ~TsFound(times')
                      /\ \A i, j \in TimedFor(c)' : i = j
    BY DEF TimeShape
  <2>1. /\ sending[c] = "timing" <=> hasTime[c] = TRUE \/ TsFound(times) \/ TimedFor(c) # {}
        /\ ~(hasTime[c] = TRUE /\ TsFound(times))
        /\ TimedFor(c) # {} => hasTime[c] = FALSE /\ ~TsFound(times)
        /\ \A i, j \in TimedFor(c) : i = j
    BY DEF IInv, TimeShape
  <2>2. TimedFor(c)' = TimedFor(c) \ {q.rd}
    BY <1>3, <1>7 DEF TimedFor
  <2>3. hasTime'[c] = hasTime[c] /\ sending'[c] = sending[c]
    BY <1>3
  <2>4. CASE mem[txBuf].timed = NoClient
    <3>1. q.rd \notin TimedFor(c)
      BY <2>4, <1>7, PoolSizes DEF TimedFor
    <3>2. times' = times
      BY <2>4, <1>3
    <3>3. TimedFor(c)' = TimedFor(c)
      BY <3>1, <2>2
    <3> QED BY <3>2, <3>3, <2>1, <2>3
  <2>5. CASE mem[txBuf].timed # NoClient
    <3>1. mem[txBuf].timed = c
      BY <2>5, <1>2 DEF OneClient
    <3>2. q.rd \in TimedFor(c)
      BY <3>1, <1>7 DEF TimedFor
    <3>3. TimedFor(c)' = {} /\ hasTime[c] = FALSE /\ ~TsFound(times) /\ sending[c] = "timing"
      BY <3>2, <2>1, <2>2
    <3>4. TsFound(times')
      BY <3>1, <3>3, <2>5, <1>3, <1>4, TimesOfOne
    <3> QED BY <3>3, <3>4, <2>3
  <2> QED BY <2>4, <2>5
<1> QED BY <1>2, <1>6, <1>7, <1>8 DEF IInv

LEMMA FreeRdStep ==
    ASSUME IInv, FreeRd
    PROVE  /\ IInv' /\ Waiting' = Waiting /\ NextToSend' = NextToSend /\ q'.ptrs = q.ptrs
           /\ PacketAt(mem, txBuf) \in Frames
<1>1. PICK n \in 0 .. NumPointers : Shape(n)
  BY DEF IInv
<1>2. /\ n - 1 \in 0 .. NumPointers /\ n > 0 /\ Shape(n - 1)'
      /\ q'.rd = NextIndex(q.rd) /\ q'.rd \in Index /\ q'.wr = q.wr /\ q'.ptrs = q.ptrs
      /\ freeing' = q.rd
  BY <1>1, FreeRdShape DEF IInv
<1>3. /\ txPc = "freeRd" /\ txPc' = "freeSlot" /\ txBuf' = Null /\ q' = MoveRdOff(q, q.rd)
      /\ UNCHANGED <<mem, wrptr, requested, sendBuffer, hasTime, pc, rdIndex, prioritize, sending, times>>
  BY DEF FreeRd, serverVars
<1>4. q' \in QueueOf(Word)
  <2>1. q' = [q EXCEPT !.rd = MoveMyRdIndex(q, q.rd)]
    BY <1>3 DEF MoveRdOff
  <2>2. q' = [rd |-> q'.rd, wr |-> q'.wr, ptrs |-> q'.ptrs]
    BY <2>1, Typed DEF IInv
  <2> QED BY <2>2, <1>2, Typed DEF IInv, QueueOf
<1>5. TypeOK'
  BY <1>2, <1>3, <1>4, Typed DEF IInv, TypeOK
<1>6. Waiting' = Waiting /\ NextToSend' = NextToSend
  BY <1>2, <1>3 DEF Waiting, NextToSend, Used
<1>7. TimeShape'
  <2>1. \A b \in Clients : TimedFor(b)' = TimedFor(b)
    BY <1>2, <1>3, <1>6, SameTimed
  <2> QED BY <2>1, <1>3, SameTimes DEF IInv
<1>8. PacketAt(mem, txBuf) \in Frames
  <2>1. txBuf = InOrder[0] /\ 0 \in 0 .. n - 1
    BY <1>1, <1>2, <1>3, SlotsInOrder DEF IInv, Shape, QueueShape
  <2> QED BY <2>1, <1>1 DEF Shape, Laid
<1> QED BY <1>2, <1>5, <1>6, <1>7, <1>8 DEF IInv

LEMMA FreeSlotStep ==
    ASSUME IInv, FreeSlot
    PROVE  /\ IInv' /\ Waiting' = Waiting /\ NextToSend' = NextToSend
           /\ \A i \in Waiting : q'.ptrs[i] = q.ptrs[i]
<1>1. PICK n \in 0 .. NumPointers : Shape(n)
  BY DEF IInv
<1>2. /\ Shape(n)' /\ q'.rd = q.rd /\ q'.wr = q.wr /\ q'.ptrs = [q.ptrs EXCEPT ![freeing] = Null]
  BY <1>1, FreeSlotShape DEF IInv
<1>3. /\ txPc = "freeSlot" /\ txPc' = "next" /\ freeing' = 0 /\ q' = ClearSlot(q, freeing)
      /\ UNCHANGED <<mem, wrptr, requested, sendBuffer, hasTime, pc, rdIndex, prioritize, sending, times, txBuf>>
  BY DEF FreeSlot, serverVars
<1>4. freeing \in Index /\ 0 \in Index
  BY NumPointersAssumption DEF IInv, TypeOK, Index
<1>5. q' \in QueueOf(Word)
  <2>1. q' = [rd |-> q'.rd, wr |-> q'.wr, ptrs |-> q'.ptrs]
    BY <1>3, Typed DEF IInv, ClearSlot
  <2>2. q'.ptrs \in [Index -> Word \cup {Null}]
    BY <1>2, <1>4, Typed DEF IInv
  <2> QED BY <2>1, <2>2, <1>2, Typed DEF IInv, QueueOf
<1>6. TypeOK'
  BY <1>3, <1>4, <1>5 DEF IInv, TypeOK
<1>7. /\ Waiting' = Waiting /\ NextToSend' = NextToSend
      /\ \A i \in Waiting : q'.ptrs[i] = q.ptrs[i]
  <2>1. \A i \in Index : i # freeing => q'.ptrs[i] = q.ptrs[i]
    BY <1>2, Typed DEF IInv
  <2>2. q'.ptrs[freeing] = Null
    BY <1>2, <1>4, Typed DEF IInv
  <2>3. \A i \in Waiting : i \in Index /\ i # freeing
    BY <1>3 DEF Waiting
  <2>4. Waiting' = Waiting
    BY <2>1, <2>2, <1>3 DEF Waiting, Used
  <2> QED BY <2>1, <2>3, <2>4, <1>2, <1>3 DEF NextToSend
<1>8. TimeShape'
  <2>1. \A b \in Clients : TimedFor(b)' = TimedFor(b)
    BY <1>3, <1>7, SameTimed
  <2> QED BY <2>1, <1>3, SameTimes DEF IInv
<1> QED BY <1>2, <1>6, <1>7, <1>8 DEF IInv

----------------------------------------------------------------------------
(* The theorems.                                                           *)

LEMMA InitInv ==
    ASSUME OneClient, PoolHoldsPacket, Init
    PROVE  IInv
<1>1. 0 \in Index /\ 0 \in 0 .. LastSafe /\ 0 \in 0 .. MaxPrioritize /\ 0 \in 0 .. NumPointers
  <2>1. LastSafe \in Nat
    BY PoolSizes DEF LastSafe
  <2> QED BY <2>1, MiiRtTxAssumption, NumPointersAssumption DEF Index
<1>2. q = [rd |-> 0, wr |-> 0, ptrs |-> [i \in Index |-> Null]]
  BY DEF Init, EmptyQueue
<1>3. TypeOK
  <2>1. q \in QueueOf(Word)
    BY <1>1, <1>2 DEF QueueOf
  <2> QED BY <2>1, <1>1 DEF Init, TypeOK, TsQueueInit
<1>4. Shape(0)
  <2>1. Ahead(0, 0) = 0 /\ \A k \in 0 .. NumPointers - 1 : Ahead(0, k) \in Index
    BY AheadIndex, <1>1, NumPointersAssumption DEF Ahead
  <2>2. \A k \in 0 .. NumPointers - 1 : ~Used(q, Ahead(q.rd, k)) /\ ~(k < 0)
    BY <1>2, <2>1, NumPointersAssumption DEF Used
  <2>3. pc = "select" /\ txPc = "next" /\ q.wr = Ahead(q.rd, 0)
    BY <1>2, <2>1 DEF Init
  <2>4. QueueShape(0)
    BY <2>2, <2>3 DEF QueueShape
  <2>5. \A k \in 0 .. 0 - 1 : FALSE
    OBVIOUS
  <2>6. Laid(mem, InOrder, 0, wrptr)
    BY <2>5 DEF Laid
  <2>7. Reserved(0) /\ Loading(0)
    BY DEF Init, Reserved, Loading
  <2> QED BY <2>4, <2>6, <2>7 DEF Shape
<1>5. TimeShape
  <2>1. Waiting = {}
    BY <1>2 DEF Waiting, Used
  <2>2. \A c \in Clients : TimedFor(c) = {} /\ hasTime[c] = FALSE /\ sending[c] = "idle"
    BY <2>1 DEF Init, TimedFor
  <2>3. ~TsFound(times)
    BY DEF Init, TsQueueInit, TsFound
  <2> QED BY <2>2, <2>3 DEF TimeShape
<1> QED BY <1>1, <1>3, <1>4, <1>5 DEF IInv

LEMMA NextInv ==
    ASSUME OneClient, PoolHoldsPacket, IInv, NullMeansEmpty, [Next]_vars
    PROVE  IInv'
<1>1. CASE UNCHANGED vars
  <2>1. UNCHANGED <<q, mem, wrptr, requested, sendBuffer, hasTime, pc, rdIndex, prioritize, sending,
                    txPc, txBuf, freeing, times>>
    BY <1>1 DEF vars, serverVars, txVars
  <2>2. TypeOK'
    BY <2>1 DEF IInv, TypeOK
  <2>3. \A n \in 0 .. NumPointers : Shape(n) => Shape(n)'
    BY <2>1 DEF Shape, QueueShape, InOrder, Reserved, Loading
  <2>4. TimeShape'
    <3>1. \A b \in Clients : TimedFor(b)' = TimedFor(b)
      BY <2>1, SameWaiting, SameTimed
    <3> QED BY <3>1, <2>1, SameTimes DEF IInv
  <2> QED BY <2>2, <2>3, <2>4 DEF IInv
<1>2. CASE SelectOther \/ GetPacket \/ \E c \in Clients, n \in FrameWords : InitSend(c, n)
  BY <1>2, QuietStep
<1>3. CASE \E c \in Clients, g \in Tags, timed \in BOOLEAN : CompleteSend(c, g, timed)
  BY <1>3, CompleteSendStep
<1>4. CASE \E c \in Clients : GetTime(c)
  BY <1>4, GetTimeStep
<1>5. CASE AddPacket
  BY <1>5, AddPacketStep
<1>6. CASE Post
  BY <1>6, LoadRdStep, ReserveStep DEF Post
<1>7. CASE TxPins
  BY <1>7, NextPacketStep, TransmitStep, FreeRdStep, FreeSlotStep DEF TxPins
<1> QED BY <1>1, <1>2, <1>3, <1>4, <1>5, <1>6, <1>7 DEF Next, ClientCall

\* A null pointer stays one that says the ring is empty, as long as the
\* slot that the server is about to read is not cleared.
LEMMA NullStep ==
    ASSUME ~TornRead, IInv, NullMeansEmpty, [Next]_vars
    PROVE  NullMeansEmpty'
<1> SUFFICES ASSUME pc' = "reserve", q'.ptrs[rdIndex'] = Null, NEW i \in Index, Used(q', i)
             PROVE  txPc' = "freeSlot" /\ i = freeing'
  BY DEF NullMeansEmpty
<1>1. CASE LoadRd
  <2>1. /\ rdIndex' = q.rd /\ UNCHANGED <<q, txPc, freeing>>
    BY <1>1 DEF LoadRd, txVars
  <2>2. PICK n \in 0 .. NumPointers : Shape(n)
    BY DEF IInv
  <2>3. n = 0
    BY <2>1, <2>2, SlotsInOrder, NumPointersAssumption DEF IInv, Shape, NextBuf
  <2>4. PICK k \in 0 .. NumPointers - 1 : i = Ahead(q.rd, k)
    BY Typed, AheadDistance DEF IInv
  <2>5. Used(q, i)
    BY <2>1
  <2>6. txPc = "freeSlot" /\ k = NumPointers - 1
    BY <2>2, <2>3, <2>4, <2>5 DEF Shape, QueueShape
  <2> QED BY <2>1, <2>2, <2>4, <2>6 DEF Shape, QueueShape
<1>2. CASE NextPacket \/ Transmit \/ FreeRd
  <2>1. /\ pc = "reserve" /\ rdIndex' = rdIndex /\ q'.ptrs = q.ptrs /\ txPc # "freeSlot"
    BY <1>2, Typed DEF NextPacket, Transmit, FreeRd, serverVars, MoveRdOff, IInv
  <2>2. ~Used(q, i)
    BY <2>1 DEF NullMeansEmpty
  <2> QED BY <2>1, <2>2 DEF Used
<1>3. CASE FreeSlot
  <2>1. /\ pc = "reserve" /\ rdIndex' = rdIndex /\ rdIndex # freeing
        /\ q'.ptrs = [q.ptrs EXCEPT ![freeing] = Null]
    BY <1>3, Typed DEF FreeSlot, serverVars, ClearSlot, IInv
  <2>2. q.ptrs[rdIndex] = Null /\ Used(q, i) /\ i # freeing
    BY <2>1, Typed DEF IInv, Used
  <2> QED BY <2>1, <2>2 DEF NullMeansEmpty
<1>4. CASE UNCHANGED vars
  BY <1>4 DEF vars, serverVars, txVars, NullMeansEmpty, Used
<1> QED BY <1>1, <1>2, <1>3, <1>4
    DEF Next, ClientCall, TxPins, Post, SelectOther, GetPacket, InitSend, CompleteSend, GetTime,
        AddPacket, ReserveBuffers, ReserveNone

\* A null pointer from mii_get_rdptr means what mii_reserve_at_least takes
\* it for, unless both stores of mii_free_index fall between its two loads.
THEOREM NullsMeanEmpty ==
    ASSUME OneClient, PoolHoldsPacket, ~TornRead
    PROVE  Spec => []NullMeansEmpty
<1>1. Init => IInv /\ NullMeansEmpty
  BY InitInv DEF Init, NullMeansEmpty
<1>2. IInv /\ NullMeansEmpty /\ [Next]_vars => (IInv /\ NullMeansEmpty)'
  BY NextInv, NullStep
<1> QED BY <1>1, <1>2, PTL DEF Spec

\* With one client, a pool that has room for its packets, and null pointers
\* that mean an empty ring, the queue and the pool have the shape above.
THEOREM Invariance ==
    ASSUME OneClient, PoolHoldsPacket
    PROVE  Spec /\ []NullMeansEmpty => []IInv
<1>1. IInv /\ NullMeansEmpty /\ [Next]_vars => IInv'
  BY NextInv
<1>2. Init => IInv
  BY InitInv
<1> QED BY <1>1, <1>2, PTL DEF Spec

\* Every variable keeps its type; what tx_pins sends is a packet.
THEOREM TypeCorrect ==
    ASSUME OneClient, PoolHoldsPacket
    PROVE  Spec /\ []NullMeansEmpty => []TypeOK
<1>1. IInv => TypeOK
  BY DEF IInv
<1> QED BY <1>1, Invariance, PTL

\* mii_reserve_at_least and mii_commit keep what the client writes clear of
\* the packets that have not been sent (mii_buffering.c).
THEOREM ReservationsStayClear ==
    ASSUME OneClient, PoolHoldsPacket
    PROVE  Spec /\ []NullMeansEmpty => []ReservationsClear
<1>1. ASSUME IInv PROVE ReservationsClear
  <2> SUFFICES ASSUME NEW c \in Clients, NEW i \in Waiting, sendBuffer[c] # Null
               PROVE  WordsOf(q.ptrs[i], mem[q.ptrs[i]].len) \cap WordsOf(sendBuffer[c], requested[c]) = {}
    BY DEF ReservationsClear
  <2>1. PICK n \in 0 .. NumPointers : Shape(n)
    BY <1>1 DEF IInv
  <2>2. PICK k \in 0 .. n - 1 : q.ptrs[i] = InOrder[k]
    BY <1>1, <2>1, WaitingInOrder DEF IInv, Shape
  <2>3. n > 0 /\ InOrder[0] = NextBuf(q) /\ InOrder[0] \in Word
    BY <1>1, <2>1, SlotsInOrder DEF IInv, Shape
  <2>4. PICK o \in Word, s \in Word : o = InOrder[0] /\ s = q.ptrs[i]
    BY <2>1, <2>2, <2>3 DEF Shape, Laid
  <2>5. mem[s].len \in Nat /\ Gap(o, s) + HeaderWords + mem[s].len <= Gap(o, wrptr)
    <3>1. PacketAt(mem, s) \in Frames /\ Gap(o, s) + HeaderWords + mem[s].len <= Gap(o, wrptr)
      BY <2>1, <2>2, <2>4 DEF Shape, Laid
    <3> QED BY <3>1, FrameShape, PoolSizes
  <2>6. sendBuffer[c] = wrptr /\ Gap(o, wrptr) + HeaderWords + requested[c] + MinUsage <= PoolEnd
    BY <2>1, <2>3, <2>4 DEF Shape, Reserved
  <2>7. requested[c] \in Nat /\ wrptr \in Word
    BY <1>1, Typed DEF IInv
  <2>8. Gap(o, wrptr) + HeaderWords + requested[c] <= PoolEnd
    BY <2>4, <2>6, <2>7, PoolSizes DEF Gap, Word
  <2>9. WordsOf(s, mem[s].len) \cap WordsOf(wrptr, requested[c]) = {}
    BY <2>4, <2>5, <2>7, <2>8, WordsApart
  <2> QED BY <2>4, <2>6, <2>9
<1> QED BY <1>1, Invariance, PTL

\* The queue has a slot for the packet of a buffer that is handed out, so
\* that mii_add_packet need not look.
THEOREM ReservationsHaveSlots ==
    ASSUME OneClient, PoolHoldsPacket
    PROVE  Spec /\ []NullMeansEmpty => []SlotForReservation
<1>1. IInv => SlotForReservation
  BY DEF IInv, Shape, Reserved, SlotForReservation
<1> QED BY <1>1, Invariance, PTL

\* A client gets the time of the packet it sent, when it has been sent, and
\* waits for no other (send_timed_packet).
THEOREM TimesAreForWaiting ==
    ASSUME OneClient, PoolHoldsPacket
    PROVE  Spec /\ []NullMeansEmpty => []TimeIsForWaiting
<1>1. ASSUME NEW S, IsFiniteSet(S), \A i, j \in S : i = j
      PROVE  Cardinality(S) = IF S = {} THEN 0 ELSE 1
  <2>1. CASE S = {}
    BY <2>1, FS_EmptySet
  <2>2. CASE S # {}
    <3>1. PICK x : S = {x}
      BY <2>2, <1>1
    <3> QED BY <3>1, FS_Singleton
  <2> QED BY <2>1, <2>2
<1>2. ASSUME IInv PROVE TimeIsForWaiting
  <2> SUFFICES ASSUME NEW c \in Clients
               PROVE  /\ hasTime[c] => sending[c] = "timing"
                      /\ Cardinality({i \in TsWaiting(times) : times.fifo[i] = c})
                             + Cardinality({i \in Waiting : mem[q.ptrs[i]].timed = c})
                             + (IF hasTime[c] THEN 1 ELSE 0)
                          = IF sending[c] = "timing" THEN 1 ELSE 0
    BY DEF TimeIsForWaiting
  <2> DEFINE S == {i \in TsWaiting(times) : times.fifo[i] = c}
             h == IF hasTime[c] THEN 1 ELSE 0
  <2>1. times \in TsQueueType /\ hasTime[c] \in BOOLEAN
    BY <1>2 DEF IInv, TypeOK
  <2>2. /\ sending[c] = "timing" <=> hasTime[c] = TRUE \/ TsFound(times) \/ TimedFor(c) # {}
        /\ ~(hasTime[c] = TRUE /\ TsFound(times))
        /\ TimedFor(c) # {} => hasTime[c] = FALSE /\ ~TsFound(times)
        /\ \A i, j \in TimedFor(c) : i = j
    BY <1>2 DEF IInv, TimeShape
  <2>3. h = IF hasTime[c] = TRUE THEN 1 ELSE 0
    BY <2>1
  <2>4. Cardinality(S) = IF TsFound(times) THEN 1 ELSE 0
    <3>1. times.fifo[times.rd] = c
      BY <2>1, TimesOfOne DEF OneClient
    <3>2. S = IF TsFound(times) THEN {times.rd} ELSE {}
      BY <3>1, <2>1, TimesOfOne
    <3> HIDE DEF S
    <3> QED BY <3>2, FS_EmptySet, FS_Singleton
  <2>5. Cardinality(TimedFor(c)) = IF TimedFor(c) = {} THEN 0 ELSE 1
    <3>1. IsFiniteSet(Waiting)
      BY <1>2, WaitingInOrder DEF IInv, Shape
    <3>2. IsFiniteSet(TimedFor(c))
      BY <3>1, FS_Subset DEF TimedFor
    <3> QED BY <3>2, <2>2, <1>1
  <2>6. hasTime[c] => sending[c] = "timing"
    BY <2>1, <2>2
  <2> HIDE DEF S, h
  <2>7. Cardinality(S) + Cardinality(TimedFor(c)) + h = IF sending[c] = "timing" THEN 1 ELSE 0
    BY <2>1, <2>2, <2>3, <2>4, <2>5
  <2> QED BY <2>6, <2>7 DEF S, h, TimedFor
<1> QED BY <1>2, Invariance, PTL

----------------------------------------------------------------------------
(* TxDelivery: the packets of the slots that wait, and the one that is     *)
(* leaving.                                                                *)

Contents == [i \in Index |-> PacketAt(mem, q.ptrs[i])]

WaitingSlots == Slots(NextToSend, Cardinality(Waiting))

Wire == IF txPc = "freeRd" THEN PacketAt(mem, txBuf) ELSE Null

LEMMA WaitingSlotsAre ==
    ASSUME IInv
    PROVE  /\ NextToSend \in Index /\ Cardinality(Waiting) \in 0 .. NumPointers
           /\ WaitingSlots \in Seq(Index) /\ Len(WaitingSlots) = Cardinality(Waiting)
           /\ \A k \in 1 .. Len(WaitingSlots) : WaitingSlots[k] \in Waiting
           /\ Waiting \in SUBSET Index /\ IsFiniteSet(Waiting)
<1>1. PICK n \in 0 .. NumPointers : Shape(n)
  BY DEF IInv
<1>2. PICK m \in 0 .. n : m = FirstWaiting
  BY <1>1, WaitingAre DEF IInv, Shape
<1>3. /\ NextToSend \in Index /\ Waiting \in SUBSET Index /\ IsFiniteSet(Waiting)
      /\ Cardinality(Waiting) = n - m
      /\ \A k \in 0 .. n - m - 1 : Ahead(NextToSend, k) \in Waiting
  BY <1>1, <1>2, WaitingInOrder DEF IInv, Shape
<1>4. PICK l \in 0 .. NumPointers : l = n - m
  BY NumPointersAssumption
<1>5. /\ WaitingSlots \in Seq(Index) /\ Len(WaitingSlots) = l
      /\ \A k \in 1 .. l : WaitingSlots[k] = Ahead(NextToSend, k - 1)
  BY <1>3, <1>4, SlotsAre DEF WaitingSlots
<1>6. \A k \in 1 .. l : k - 1 \in 0 .. n - m - 1
  BY <1>4, NumPointersAssumption
<1> QED BY <1>3, <1>4, <1>5, <1>6

LEMMA PendingIs == Pending = [k \in DOMAIN WaitingSlots |-> PacketAt(mem, q.ptrs[WaitingSlots[k]])]
  BY DEF Pending, WaitingSlots

\* A step that leaves the packets that wait.
LEMMA SamePending ==
    ASSUME IInv, Waiting' = Waiting, NextToSend' = NextToSend,
           \A i \in Waiting : PacketAt(mem', q'.ptrs[i]) = PacketAt(mem, q.ptrs[i])
    PROVE  Pending' = Pending
<1>1. WaitingSlots' = WaitingSlots
  BY DEF WaitingSlots
<1>2. DOMAIN WaitingSlots = 1 .. Len(WaitingSlots)
  BY WaitingSlotsAre
<1>3. Pending' = [k \in DOMAIN WaitingSlots |-> PacketAt(mem', q'.ptrs[WaitingSlots[k]])]
  BY <1>1 DEF Pending, WaitingSlots
<1>4. \A k \in DOMAIN WaitingSlots :
          PacketAt(mem', q'.ptrs[WaitingSlots[k]]) = PacketAt(mem, q.ptrs[WaitingSlots[k]])
  BY <1>2, WaitingSlotsAre
<1> QED BY <1>3, <1>4, PendingIs

LEMMA PendingMap ==
    ASSUME IInv
    PROVE  Pending = Map(Contents, WaitingSlots)
<1>1. \A k \in DOMAIN WaitingSlots : WaitingSlots[k] \in Index
  BY WaitingSlotsAre
<1>2. \A k \in DOMAIN WaitingSlots : Contents[WaitingSlots[k]] = PacketAt(mem, q.ptrs[WaitingSlots[k]])
  BY <1>1 DEF Contents
<1> QED BY <1>2, PendingIs DEF Map

LEMMA PendingMapNext ==
    ASSUME IInv'
    PROVE  Pending' = Map(Contents', WaitingSlots')
<1>1. IInv' => (Pending = Map(Contents, WaitingSlots))'
  BY PendingMap, PTL
<1> QED BY <1>1 DEF Map

\* A packet that is handed over is the last of those that wait.
LEMMA CompleteSendRefines ==
    ASSUME OneClient, PoolHoldsPacket, IInv,
           NEW c \in Clients, NEW g \in Tags, NEW timed \in BOOLEAN, CompleteSend(c, g, timed)
    PROVE  Wire' = Wire /\ \E f \in Frames : Pending' = Append(Pending, f)
<1>1. /\ IInv' /\ q.wr \in Index \ Waiting /\ Waiting' = Waiting \cup {q.wr}
      /\ q.wr = Ahead(NextToSend, Cardinality(Waiting)) /\ NextToSend' = NextToSend
      /\ Cardinality(Waiting) \in 0 .. NumPointers - 1
      /\ \A i \in Waiting : PacketAt(mem', q'.ptrs[i]) = PacketAt(mem, q.ptrs[i])
      /\ PacketAt(mem', q'.ptrs[q.wr]) \in Frames
      /\ txPc = "freeRd" => PacketAt(mem', txBuf) = PacketAt(mem, txBuf)
      /\ UNCHANGED <<txPc, txBuf>>
  BY CompleteSendStep
<1>2. Wire' = Wire
  BY <1>1 DEF Wire
<1>3. Cardinality(Waiting') = Cardinality(Waiting) + 1
  BY <1>1, WaitingSlotsAre, FS_AddElement
<1>4. PICK w \in Seq(Index), x \in Index : w = WaitingSlots /\ x = q.wr
  BY <1>1, WaitingSlotsAre
<1>5. WaitingSlots' = Append(w, x)
  BY <1>1, <1>3, <1>4, WaitingSlotsAre, SlotsGrow DEF WaitingSlots
<1>6. PICK f, h : f = Contents /\ h = Contents'
  OBVIOUS
<1>7. \A k \in 1 .. Len(w) : f[w[k]] = h[w[k]]
  <2> SUFFICES ASSUME NEW k \in 1 .. Len(w) PROVE f[w[k]] = h[w[k]]
    OBVIOUS
  <2>1. PICK i \in Index : i = w[k] /\ i \in Waiting
    BY <1>4, WaitingSlotsAre
  <2>2. PacketAt(mem', q'.ptrs[i]) = PacketAt(mem, q.ptrs[i])
    BY <2>1, <1>1
  <2> QED BY <2>1, <2>2, <1>6 DEF Contents
<1>8. Map(h, w) = Map(f, w)
  BY <1>7, MapSame
<1>9. Map(h, Append(w, x)) = Append(Map(h, w), h[x])
  BY MapAppend
<1>10. h[x] \in Frames
  BY <1>1, <1>4, <1>6 DEF Contents
<1>11. Pending = Map(f, w) /\ Pending' = Map(h, Append(w, x))
  BY <1>1, <1>4, <1>5, <1>6, PendingMap, PendingMapNext
<1> QED BY <1>2, <1>8, <1>9, <1>10, <1>11

\* The packet that is sent is the first of those that wait.
LEMMA TransmitRefines ==
    ASSUME OneClient, IInv, Transmit
    PROVE  /\ Pending # <<>> /\ Wire = Null /\ Wire' = Head(Pending)
           /\ Pending' = Tail(Pending)
<1>1. IInv' /\ q.rd \in Waiting /\ Waiting' = Waiting \ {q.rd} /\ txBuf = q.ptrs[q.rd]
  BY TransmitStep
<1>2. txPc = "transmit" /\ txPc' = "freeRd" /\ UNCHANGED <<q, mem, txBuf>>
  BY DEF Transmit
<1>3. NextToSend = q.rd /\ NextToSend' = NextIndex(q.rd) /\ q.rd \in Index
  BY <1>2, Typed DEF NextToSend, IInv
<1>4. Contents' = Contents
  BY <1>2 DEF Contents
<1>5. Cardinality(Waiting) \in 1 .. NumPointers /\ Cardinality(Waiting') = Cardinality(Waiting) - 1
  <2>1. IsFiniteSet(Waiting) /\ Cardinality(Waiting) \in 0 .. NumPointers
    BY WaitingSlotsAre
  <2>2. Cardinality(Waiting) # 0
    BY <2>1, <1>1, FS_EmptySet
  <2>3. Cardinality(Waiting \ {q.rd}) = Cardinality(Waiting) - 1
    BY <2>1, <1>1, FS_RemoveElement
  <2> QED BY <2>1, <2>2, <2>3, <1>1, NumPointersAssumption
<1>6. WaitingSlots # <<>> /\ Head(WaitingSlots) = q.rd /\ WaitingSlots' = Tail(WaitingSlots)
  BY <1>3, <1>5, SlotsShrink DEF WaitingSlots
<1>7. PICK w, f : w \in Seq(Index) /\ w = WaitingSlots /\ f = Contents
  BY WaitingSlotsAre
<1>8. /\ Map(f, w) # <<>> /\ Head(Map(f, w)) = f[Head(w)]
      /\ Map(f, Tail(w)) = Tail(Map(f, w))
  BY <1>6, <1>7, MapTail
<1>9. Pending = Map(f, w) /\ Pending' = Map(f, Tail(w))
  BY <1>1, <1>4, <1>6, <1>7, PendingMap, PendingMapNext
<1>10. f[Head(w)] = PacketAt(mem, txBuf)
  BY <1>1, <1>3, <1>6, <1>7 DEF Contents
<1>11. Wire = Null /\ Wire' = PacketAt(mem, txBuf)
  BY <1>2 DEF Wire
<1> QED BY <1>8, <1>9, <1>10, <1>11

\* A step of the server or of the pins that no packet goes in or out by.
OtherStep ==
    \/ SelectOther \/ GetPacket \/ AddPacket \/ Post
    \/ NextPacket \/ FreeSlot
    \/ \E c \in Clients : GetTime(c) \/ \E n \in FrameWords : InitSend(c, n)
    \/ UNCHANGED vars

LEMMA OtherStepsRefine ==
    ASSUME IInv, OtherStep
    PROVE  Wire' = Wire /\ Pending' = Pending
<1>1. CASE FreeSlot
  <2>1. Waiting' = Waiting /\ NextToSend' = NextToSend /\ \A i \in Waiting : q'.ptrs[i] = q.ptrs[i]
    BY <1>1, FreeSlotStep
  <2>2. mem' = mem /\ txPc = "freeSlot" /\ txPc' = "next"
    BY <1>1 DEF FreeSlot
  <2>3. Pending' = Pending
    BY <2>1, <2>2, SamePending
  <2> QED BY <2>2, <2>3 DEF Wire
<1>2. CASE ~FreeSlot
  <2>1. q'.rd = q.rd /\ q'.ptrs = q.ptrs /\ mem' = mem
    <3>1. CASE AddPacket
      BY <3>1, Typed DEF IInv, AddPacket, AdvanceWr
    <3>2. CASE ~AddPacket
      BY <3>2, <1>2 DEF OtherStep, SelectOther, GetPacket, Post, LoadRd, ReserveBuffers, ReserveNone, NextPacket, GetTime, InitSend, vars, serverVars
    <3> QED BY <3>1, <3>2
  <2>2. \/ UNCHANGED <<txPc, txBuf, freeing>>
        \/ txPc = "next" /\ txPc' = "transmit"
    BY <1>2 DEF OtherStep, SelectOther, GetPacket, AddPacket, Post, LoadRd, ReserveBuffers, ReserveNone, NextPacket, GetTime, InitSend, vars, txVars
  <2>3. Waiting' = Waiting /\ NextToSend' = NextToSend
    BY <2>1, <2>2, SameWaiting
  <2>4. Pending' = Pending
    BY <2>1, <2>3, SamePending
  <2>5. Wire' = Wire
    BY <2>1, <2>2 DEF Wire
  <2> QED BY <2>4, <2>5
<1> QED BY <1>1, <1>2

\* mii_free_index, once it has moved rd, is the end of the transmission.
LEMMA FreeRdRefines ==
    ASSUME IInv, FreeRd
    PROVE  Wire # Null /\ Wire' = Null /\ Pending' = Pending
<1>1. /\ Waiting' = Waiting /\ NextToSend' = NextToSend /\ q'.ptrs = q.ptrs
      /\ PacketAt(mem, txBuf) \in Frames
  BY FreeRdStep
<1>2. mem' = mem /\ txPc = "freeRd" /\ txPc' = "freeSlot"
  BY DEF FreeRd
<1>3. Wire # Null /\ Wire' = Null
  BY <1>1, <1>2, NullAssumption DEF Wire
<1> QED BY <1>1, <1>2, <1>3, SamePending

LEMMA NextRefines ==
    ASSUME OneClient, PoolHoldsPacket, IInv, [Next]_vars
    PROVE  Abstract!Next \/ UNCHANGED Abstract!vars
<1>1. CASE \E c \in Clients, g \in Tags, timed \in BOOLEAN : CompleteSend(c, g, timed)
  <2>1. Wire' = Wire /\ \E f \in Frames : Pending' = Append(Pending, f)
    BY <1>1, CompleteSendRefines
  <2> QED BY <2>1 DEF Abstract!Next, Abstract!Accept, Wire
<1>2. CASE Transmit
  <2>1. Pending # <<>> /\ Wire = Null /\ Wire' = Head(Pending) /\ Pending' = Tail(Pending)
    BY <1>2, TransmitRefines
  <2> QED BY <2>1 DEF Abstract!Next, Abstract!Transmit, Wire
<1>3. CASE FreeRd
  <2>1. Wire # Null /\ Wire' = Null /\ Pending' = Pending
    BY <1>3, FreeRdRefines
  <2> QED BY <2>1 DEF Abstract!Next, Abstract!Sent, Wire
<1>4. CASE OtherStep
  <2>1. Wire' = Wire /\ Pending' = Pending
    BY <1>4, OtherStepsRefine
  <2> QED BY <2>1 DEF Abstract!vars, Wire
<1> QED BY <1>1, <1>2, <1>3, <1>4 DEF Next, ClientCall, TxPins, OtherStep

\* Packets go out whole, once each and in the order in which send_packet
\* handed them over.
THEOREM RefinesTxDelivery ==
    ASSUME OneClient, PoolHoldsPacket
    PROVE  Spec /\ []NullMeansEmpty => ImplementsTxDelivery
<1>1. ASSUME Init PROVE Abstract!Init
  <2>1. \A i \in Index : q.ptrs[i] = Null
    BY <1>1 DEF Init, EmptyQueue
  <2>2. Waiting = {}
    BY <2>1 DEF Waiting, Used
  <2>3. Cardinality(Waiting) = 0
    BY <2>2, FS_EmptySet
  <2>4. IInv
    BY <1>1, InitInv
  <2>5. WaitingSlots \in Seq(Index) /\ Len(WaitingSlots) = 0
    BY <2>3, <2>4, WaitingSlotsAre
  <2>6. DOMAIN WaitingSlots = {}
    BY <2>5
  <2>7. Pending = <<>>
    BY <2>6, PendingIs
  <2> QED BY <2>7, <1>1 DEF Abstract!Init, Init
<1>2. IInv /\ [Next]_vars => [Abstract!Next]_(Abstract!vars)
  BY NextRefines
<1> QED BY <1>1, <1>2, Invariance, PTL DEF Spec, ImplementsTxDelivery, Abstract!Spec
=============================================================================
