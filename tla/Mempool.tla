------------------------------ MODULE Mempool ------------------------------
(***************************************************************************)
(* The memory pools of mii_buffering.c.  A pool is a circular block of     *)
(* words, 0 .. PoolEnd - 1, written from wrptr on; a packet is a header    *)
(* followed by data that may wrap round at the end.  There is no read      *)
(* pointer in the pool: whoever writes is told where the oldest packet     *)
(* still in use starts, or gets a null pointer if there is none.           *)
(***************************************************************************)
EXTENDS Integers

CONSTANTS
    PoolEnd,        \* the word mii_get_wrap_ptr points to, counted from start
    HeaderWords,    \* MII_PACKET_HEADER_WORDS
    MinUsage,       \* MIN_USAGE, in words
    NullPtr,        \* the null pointer
    DummyPtr        \* dummy_packet, outside every pool

\* A header and the word after it are never split by the end of the pool.
ASSUME MempoolAssumption ==
    /\ PoolEnd \in Nat /\ HeaderWords \in Nat /\ MinUsage \in Nat
    /\ 0 < HeaderWords /\ HeaderWords < MinUsage /\ MinUsage < PoolEnd
    /\ NullPtr \notin Int /\ DummyPtr \notin Int

Word == 0 .. PoolEnd - 1

\* last_safe_wrptr: a packet may start there, and not after it.
LastSafe == PoolEnd - MinUsage

\* Mutant: data does not wrap round at the end of the pool.
NextWordFlat(w) == w + 1

\* The word that follows word w.
NextWord(w) == IF w + 1 = PoolEnd THEN 0 ELSE w + 1

\* The word that follows w by k words, for k of 0 .. PoolEnd.
WordAfter(w, k) == IF w + k >= PoolEnd THEN w + k - PoolEnd ELSE w + k

\* The words of a packet that starts at s and has n words of data.
WordsOf(s, n) == {WordAfter(s, k) : k \in 0 .. HeaderWords + n - 1}

\* mii_reserve_at_least: whether a packet may be put at wrptr.
ReservesAtLeast(wrptr, rdptr, size) ==
    \/ rdptr = NullPtr
    \/ rdptr - wrptr >= size
    \/ rdptr - wrptr <= 0 /\ rdptr - wrptr + PoolEnd >= size

\* mii_reserve: where a packet that is about to arrive goes.
Reserve(wrptr, rdptr) ==
    IF rdptr # NullPtr /\ rdptr > wrptr /\ rdptr - wrptr < MinUsage THEN DummyPtr ELSE wrptr

\* Mutant: a packet may start right up to the end of the pool.
CommitAnywhere(end) == end

\* mii_commit: where the next packet starts.
Commit(end) == IF end > LastSafe THEN 0 ELSE end
=============================================================================
