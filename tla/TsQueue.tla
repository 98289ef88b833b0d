------------------------------ MODULE TsQueue ------------------------------
(***************************************************************************)
(* The queue of transmit times (mii_ts_queue.c): a ring that a lock keeps  *)
(* to one operation at a time.  It is empty when its two indices meet, and *)
(* an addition does not look whether it is full.                           *)
(***************************************************************************)
EXTENDS Integers

CONSTANTS TsEntries,    \* num_entries
          TsIds         \* the values of timestamp_id; the time itself is data

TsIndex == 0 .. TsEntries - 1

\* mii_ts_queue_info_t
TsQueueType == [rd : TsIndex, wr : TsIndex, fifo : [TsIndex -> TsIds]]

\* mii_ts_queue_init: the memory of the ring holds anything at first.
TsQueueInit(t) == t \in TsQueueType /\ t.rd = 0 /\ t.wr = 0

\* increment_and_wrap_to_zero, by a product with the outcome of a test
WrapToZero(i, max) == (i + 1) * (IF i + 1 # max THEN 1 ELSE 0)

\* mii_ts_queue_add_entry
TsAdd(t, id) ==
    [t EXCEPT !.fifo[t.wr] = id, !.wr = WrapToZero(t.wr, TsEntries)]

\* mii_ts_queue_get_entry: whether there is an entry, and what it takes away
TsFound(t) == t.rd # t.wr
TsOldest(t) == t.fifo[t.rd]
TsGet(t) == IF TsFound(t) THEN [t EXCEPT !.rd = WrapToZero(t.rd, TsEntries)] ELSE t

\* The entries that wait, in no order.
TsWaiting(t) == {i \in TsIndex :
                    IF t.rd <= t.wr THEN t.rd <= i /\ i < t.wr ELSE i < t.wr \/ t.rd <= i}
=============================================================================
