---------------------------- MODULE PacketQueue ----------------------------
(***************************************************************************)
(* The packet queue of mii_buffering.c: a ring of NumPointers pointers in  *)
(* which a slot that is not in use holds a null pointer.  One task adds at *)
(* wr, another frees slots, in any order, and keeps rd on the oldest one   *)
(* still in use.  There is no count of entries: full and empty are told    *)
(* apart only by the contents of the slots.                                *)
(*                                                                         *)
(* A queue is a record [rd, wr, ptrs].  The operators below are the reads  *)
(* and the stores of the C functions; a module that uses them decides      *)
(* which of the stores happen in one step.                                 *)
(***************************************************************************)
EXTENDS Integers

CONSTANTS
    NumPointers,    \* ETHERNET_NUM_PACKET_POINTERS
    Null            \* the null pointer

ASSUME NumPointersAssumption == NumPointers \in Nat /\ NumPointers > 1

Index == 0 .. NumPointers - 1

\* The queue of the contents in S.
QueueOf(S) == [rd : Index, wr : Index, ptrs : [Index -> S \cup {Null}]]

\* mii_init_packet_queue
EmptyQueue == [rd |-> 0, wr |-> 0, ptrs |-> [i \in Index |-> Null]]

\* The slot k places after slot i, for k of 0 .. NumPointers.
Ahead(i, k) == IF i + k >= NumPointers THEN i + k - NumPointers ELSE i + k

\* increment_and_wrap_power_of_2
NextIndex(i) == Ahead(i, 1)

\* The n slots from slot i on.
Slots(i, n) == [k \in 1 .. n |-> Ahead(i, k - 1)]

\* How many places slot j comes after slot i.
Distance(i, j) == IF j >= i THEN j - i ELSE j - i + NumPointers

Used(q, i) == q.ptrs[i] # Null

\* mii_packet_queue_full
QueueFull(q) == Used(q, q.wr)

\* mii_get_next_buf, mii_get_rdptr
NextBuf(q) == q.ptrs[q.rd]

\* Mutant: mii_get_my_next_buf trusts the slot alone.
MyNextBufUnguarded(q, my) == q.ptrs[my]

\* Mutant: mii_get_my_next_buf compares its own index with rd.
MyNextBufFromRd(q, my) == IF my = q.rd THEN Null ELSE q.ptrs[my]

\* mii_get_my_next_buf: with rd on wr the queue is empty or full, and in
\* either case there is nothing to process.
MyNextBuf(q, my) == IF q.rd = q.wr THEN Null ELSE q.ptrs[my]

\* Where the scan of mii_move_my_rd_index stops.
ScanStops(q, i) == i = q.wr \/ Used(q, i)

\* mii_move_my_rd_index: the first slot after i at which the scan stops.
MoveMyRdIndex(q, i) ==
    CHOOSE j \in Index :
        \E k \in 1 .. NumPointers :
            /\ j = Ahead(i, k)
            /\ ScanStops(q, j)
            /\ \A m \in 1 .. k - 1 : ~ScanStops(q, Ahead(i, m))

\* The two stores of mii_add_packet, in the order the code makes them.
StorePtr(q, p) == [q EXCEPT !.ptrs[q.wr] = p]
AdvanceWr(q)   == [q EXCEPT !.wr = NextIndex(q.wr)]

\* Mutant: mii_free_index advances rd to the next slot, used or not.
MoveRdOffByOne(q, i) == IF q.rd = i THEN [q EXCEPT !.rd = NextIndex(i)] ELSE q

\* The two stores of mii_free_index, in the order the code makes them.
MoveRdOff(q, i) == IF q.rd = i THEN [q EXCEPT !.rd = MoveMyRdIndex(q, i)] ELSE q
ClearSlot(q, i) == [q EXCEPT !.ptrs[i] = Null]

\* mii_move_rd_index
PopRd(q) == [q EXCEPT !.ptrs[q.rd] = Null, !.rd = NextIndex(q.rd)]
=============================================================================
