# A formal model of lib_ethernet

TLA+ modules that model the Ethernet MAC library in `src/lib_ethernet`, TLC
configurations that check them on small instances, and theorems checked by
TLAPS. Paths below are relative to the repository root; without a directory
they are in `src/lib_ethernet/src`.

## 1. The system

lib_ethernet is software for xCORE: hardware threads ("cores") that never
deschedule, talk over channels and interfaces, and, in this library, share
memory by raw pointers. It contains four ways of driving a PHY. The state and
the hard parts of each component:

| component | source | state | operations | what is hard |
|---|---|---|---|---|
| packet queue | `mii_buffering.c` | `rd_index`, `wr_index`, `ptrs[]` | add, free by index, move, full, next | two cores without a lock; full and empty look alike; freed out of order |
| memory pool | `mii_buffering.c` | `wrptr`, start, end | reserve, reserve at least, commit | no read pointer of its own; wraps only near the end |
| RT MII server | `mii_ethernet_rt_mac.xc`, `client_state.*` | a fifo per receive client, a buffer per transmit client, filters, link state | one `select` loop serving all interfaces | counts shared by clients, drops, one notification for two kinds of news |
| MII receive pins | `mii_master.xc` | frame being written | receive, commit, drop | cannot wait; learns of the oldest packet from a pointer in memory |
| MII transmit pins | `mii_master.xc` | packet being sent, shaper credit | choose, send, free | polls queues that the server is changing |
| filter task | `mii_filter.xc`, `macaddr_filter.xc` | address table | classify a frame, add to a queue | lends its table to the server |
| timestamp queue | `mii_ts_queue.c` | a ring under a lock | add, get | no test for full |
| RGMII MAC | `rgmii_buffering.xc`, `rgmii_ethernet_mac.xc`, `rgmii_10_100_master.xc`, `*.S` | stacks of free and rings of used buffers, two managers | receive, send, restart on a change of speed | order over two managers; state that survives a restart |
| address hash table | `macaddr_filter_hash.c` | two tables, waiting flags | insert, delete, swap | swapped under readers, with a limit on waiting |
| standard MII MAC | `mii_ethernet_mac.xc` | one incoming packet, clients' flags | like the RT server, and it waits while it sends | one slow client holds up all |
| mii_lite driver | `mii_lite_driver.xc`, `mii_lite_*.S`, `mii.xc` | two banks, a notification bit | commit, free, restart | interrupt handler against client code |
| SMI | `smi.xc` | none | read and write a PHY register | nothing beyond port timing |

How the components of the real-time (RT) MII MAC interact:

    mii_master_rx_pins --incoming_packets--> mii_ethernet_filter
           ^   writes the rx pool                  | rx_packets_lp, rx_packets_hp
           |                                       v
      shared rdptr <------------------------ mii_ethernet_server <--> receive clients
                                                   | tx_packets_lp     (notification, get_packet)
                                                   v                   transmit clients
                                            mii_master_tx_pins         (two-call send)
                                                   `--ts_queue--> server

The receive clients get no copy: their fifos hold indices of
`rx_packets_lp`, and a packet's slot and memory are released by the last client.

The standard MII MAC is one task, and the MII layer below it is partly an interrupt
handler on the core of that task:

    mii_lite_lld --full buffer--> mii_interrupt_handler --token--> mii_ethernet_server
         ^                          |  commit, next buffer           | get, free
         `------- next_buffer ------+---- two banks, read_bank <-----'

The RGMII MAC has two buffer managers at 1 Gb/s and one below, all tasks of which
end and start again when the PHY reports another speed:

    rx pins --> buffer manager 0/1 --used_buffers_rx_lp/hp--> rx server <--> clients
       ^             |   ^ lookup                                |
       `-- free_buffers_rx <--------------------- last release --'
                         |
           configuration task: hash_table_0/1, swapped under the managers

What makes the components correct:

- queue and server: a slot is freed exactly once, by the last holder, never
  before; each packet is handed out once, in order, to the clients that want
  it and have room; clients learn of packets;
- pool: the pins never write over a packet that a queue holds, and dropped
  frames leave no trace;
- transmission: packets go out whole, once and in order; a send returns; a time
  goes to the packet it belongs to;
- hash table: nobody looks up in the table that is being changed; every call has
  the effect of one step of a plain table, and returns;
- RGMII buffers: each buffer is in one place, and comes back whatever clients do;
- MII layer: a packet belongs to one side at a time; the receiver always gets a
  buffer again; the client always learns of packets.

## 2. The modules

| module | what it is |
|---|---|
| `PacketQueue` | the ring of `mii_buffering.c`: reads and stores as operators |
| `Mempool` | the pools of `mii_buffering.c`: reserving, committing, wrapping |
| `MiiRtRx` | filter and server around `rx_packets_lp`, composed of `PacketQueue` and the clients' state |
| `RxDelivery` | abstract: a bounded queue per client |
| `MiiRxPool` | receive pins, filter and server around the receive memory, on `Mempool` |
| `MiiRtTx` | server and transmit pins, on `PacketQueue` and `Mempool` |
| `TxDelivery` | abstract: packets go out whole, once, in order |
| `TsQueue` | the ring of transmit times, `mii_ts_queue.c`; used by `MiiRtTx` |
| `MacHash` | the hash table of `macaddr_filter_hash.c` as operators |
| `MacHashSwap` | its two tables between the configuration task, the buffer managers and a restart |
| `FilterTable` | abstract: a result per address |
| `RgmiiRx` | the receive side of the RGMII MAC: pins, managers, server, restart |
| `MiiLite` | banks and notification of `mii_lite_driver.xc`: interrupt handler and client calls |
| `MiiMac` | the standard MII MAC on top of `MiiLite` |
| `MiiLayer` | abstract: what `mii_if` promises an application |
| `MiiRtRxMC`, `RgmiiRxMC`, `MacHashMC` | symmetry, frames and hash functions for TLC |
| `MiiRtRxInv` | the inductive invariant of `MiiRtRx` |
| `PacketQueueProofs` | lemmas about the ring: distances, the scan, slots in a row |
| `MiiRtRxProofs` | the safety properties of `MiiRtRx`, and that it implements `RxDelivery` |
| `MiiRtTxProofs` | the safety properties of `MiiRtTx`, and that it implements `TxDelivery` |
| `SequenceMaps` | lemmas about sequences of images and sequences that share their elements |
| `RgmiiRxProofs` | the safety properties of `RgmiiRx`, and that it implements `RxDelivery` |
| `MiiMacProofs` | the notifications of `MiiLite` as the client in `MiiMac` uses them; the memory for packets of any lengths while the writer does not go round a second time, and that it implements `MiiLayer` |
| `MiiRxPoolProofs` | the safety properties of `MiiRxPool` |
| `MacHashSwapProofs` | `Insert` and `DeleteEntry` give tables, by induction; the safety properties of `MacHashSwap`, and that it implements `FilterTable` |

**PacketQueue.** A queue is a record `[rd, wr, ptrs]`. `mii_add_packet` and
`mii_free_index` are each two operators (`StorePtr`, `AdvanceWr`; `MoveRdOff`,
`ClearSlot`), because another core can look between the two stores. The scan
of `mii_move_my_rd_index` is the function it computes, the first slot at which
it stops.

**MiiRtRx.** The filter has two steps, the stores of `mii_add_packet`. The
server's loop is cut into steps by `pc`: the select case (`GetStatus`, `GetData`,
`GetNoData`, the configuration calls, `SelectNothing` for the default case and
the calls that change nothing modelled), `handle_incoming_packet`
(`TakeNone`, `TakePacket`, `Route`, `MoveMyRd`), `drop_lp_packets` (`DropHead`,
`DropNothing`), and the two stores of `mii_free_index`
(`FreeMoveRd`, `FreeClearSlot`), after which `ret` says where the caller goes on.
A packet is the set of clients of its filter result, its Ethertype, a tag, and
`tcount`; a client's `fifo`, `rd_index` and `wr_index` are a sequence. That a
client is notified (`packet_ready`) is `notified`. The memory pool is not part of this
module, so a nearly full pool, which makes the server drop packets, is a
choice (`MayDrop`); it can only be so while the low priority queue has an oldest packet.

**MiiRxPool.** The pins write a frame word by word (`RxStart`, `RxWord`,
`RxCommit`, `RxDrop`); the server frees packets in any order (`FreeLp`), drains the
high priority queue (`StartDrain`, `DrainHp`, `StopDrain`) and publishes
the read pointer (`Publish`), while the filter goes on adding to both queues. The queues are
sequences of the packets in use, which is what `RdOnOldest` and `NoSlotLost` of
`MiiRtRx` entitle us to.

**MiiRtTx.** `InitSend`, `CompleteSend` and `GetTime` are the three calls of
`send_packet` and `send_timed_packet` (`api/ethernet.h`); the rest of an iteration
is `AddPacket` and `Post`: the test for a full queue and the two loads of `mii_get_rdptr`, between which the
pins may move `rd_index` or clear a slot (`LoadRd`, `ReserveBuffers`), or nothing (`ReserveNone`), and
`handle_ts_queue`. The pins take a packet,
send it (`Transmit` reads it whole from the words of the pool, so
a packet that was written over shows on the wire) and free it in two stores. A
packet's header is its first word; its data words carry who sent them. In
`TxDelivery` a packet that is leaving is on the wire until `mii_free_index`
has moved `rd` off it. Times go through `TsQueue`, whose ring has one entry more
than there are clients.

**MacHash.** A table is a record of its generation (which pair of polynomials),
`num_entries`, and per slot an id and a result. `Insert` is the loop of
`insert`, one `Try` an iteration; a recursive function of the tries left (`Loop`), so that a
failed insertion leaves the table as the code does, and theorems can be proved about it. Hash
functions are a constant: any function of generation, table and key.

**MacHashSwap.** The configuration task's `pc` walks through
`mii_macaddr_hash_table_add_entry` (`AddEntry`, `Refill`, `RetryAdd`), `Delete`,
`Clear` and then `swap_tables`: `Flip`, `CheckActive`, `SetFlag`, `Wait` or
`TimeOut`, `Sync`. A manager's iteration is `LoadTable`, `ClearFlag`, `Iterate`.
`ChangeSpeed`, `NoneActive` and `Restart` are `rgmii_ethernet_mac` with the two loops of
`mii_macaddr_set_num_active_filters`.

**RgmiiRx.** The stack of free buffers counts each buffer, so that one that is freed
twice shows. A manager has two steps, the exchange with the pins (`Keep`,
`Reuse`) and the lookup (`File`); the server's loop is the select (`GetPacket`,
`SelectNothing`, `ChangeMode`), the high priority drain (`TakeHp`, `SendHp`,
`NoHp`), `handle_incoming_packet` and `drop_lp_packets`. `Restart` keeps the
clients' fifos, as the code does. The abstract specification is `RxDelivery`
again, plus the one thing a restart may lose: what is not yet distributed.

**MiiLite.** Addresses and lengths are bytes of the real sizes. `Interrupt` is the
whole handler: it runs to its end on the client's core, so it is one step, which may come
between any two steps of the client. `NextPlace` is the end of
`mii_commit_buffer` and `mii_lite_restart_buffer`. Writing a packet removes
the words that it covers from `header`; reading a word that was written over is then an
error (`HeadersKept`). `NotifyMore` is the one data race of the module: `mii_notify` in the
client, interrupted between its test and its store.

**MiiMac.** The task's select loop: `IncomingPacket` to `SendToClients`, `get_packet`
in its three cases, link status, and `_complete_send_packet`, which does
not return to the select before the packet has gone out (`SendPacket`,
`Timestamp`, `PacketSent`).

## 3. What the runs check

| run | module | shows |
|---|---|---|
| `rx_safety` | `MiiRtRxMC` | slots are counted, freed once, handed out once, never lost; `rd` is on the oldest packet; the server implements `RxDelivery`; every packet is processed and every client with packets notified, in the absence of findings 1 and 2 |
| `rx_config` | `MiiRtRxMC` | the same promise while filters and link status change; only a status report hides packets |
| `rx_pool` | `MiiRxPool` | no packet in use is written over; packets do not overlap; room returns |
| `tx` | `MiiRtTx` | a null read pointer means an empty queue; reserved buffers are clear of waiting packets and have a slot; times are for those who wait; `TxDelivery`; sends return |
| `hash` | `MacHashMC` | no lookup in the table being changed; tables equal between calls; entries where lookups find them; `FilterTable`; calls return |
| `rgmii` | `RgmiiRxMC` | each buffer is in one place and counted; `RxDelivery`; buffers come back; high priority packets are sent |
| `lite` | `MiiMac` | buffers clear of packets; `MiiLayer`; a receiver without a buffer gets one; waiting packets are notified and taken; only a status report hides a packet |
| `rx_lost_notification` | `MiiRtRxMC` | violation, finding 1 |
| `rx_lockup` | `MiiRtRxMC` | violation, finding 2 |
| `rx_overwrite` | `MiiRxPool` | violation, finding 3 |
| `tx_shared_buffer` | `MiiRtTx` | violation, finding 4 |
| `lite_overwrite` | `MiiMac` | violation, finding 5 |

### Findings

1. **A link status report can hide packets** (`mii_ethernet_rt_mac.xc:256`).
   Status and packets share `packet_ready`. A packet that is queued while a
   status is pending raises a notification that is raised already; `get_packet` answers with
   the status, clears it, and nothing raises it again until the next packet
   arrives, against the documentation of `packet_ready`.
2. **A full ring looks empty** (`mii_buffering.c:251`). If the filter fills all
   `ETHERNET_NUM_PACKET_POINTERS` slots before the server has taken the oldest
   packet, `mii_get_my_next_buf` returns NULL for ever. The guard is needed
   (`RoutedOnce` fails without it), but it does not tell the two cases apart.
3. **The wrap of the write pointer ignores the read pointer**
   (`mii_buffering.c:169`). A packet that ends in the last `MIN_USAGE` bytes of the
   pool puts `wrptr` on to the start, where the oldest packet may be.
   `mii_reserve` takes equal pointers for an empty pool, and the next frame
   overwrites that packet.
4. **Two transmit clients share a buffer** (`mii_ethernet_rt_mac.xc:35`).
   Reserving does not move `wrptr`, so clients that ask at the same time get the same
   words, and the packet queued first is overwritten.
5. **A stale `free_ptr` looks like a free bank** (`mii_lite_driver.xc:248`). If the last
   packets of a bank have been freed before `wr_ptr` wraps, `free_ptr` stays on the
   mark of the unused tail until the next packet of the bank is freed. At the
   next wrap it differs from the head of the bank, which the code takes for a free head, and the
   driver is given the memory of a packet that the application may own.

Six more things came out of the models without a run of their own, and are noted with the hazards in
`PROJECT.json`:

- with `RestartHeld` TRUE, `BuffersAccounted` fails: the clients' fifos outlive a change of
  speed, the buffers they refer to are on the new free stack already, and are freed again
  (`rgmii_ethernet_mac.xc:150`);
- a failed attempt to refill a hash table leaves its entries behind (`macaddr_filter_hash.c:204`):
  `EntriesFindable` holds in run `hash`, where the next attempt overwrites them,
  and fails for hash functions under which it does not;
- with 1500 or 1520 words, which `api/mii.h:146` and `mii_lite_driver.h:29` name as the size of the
  receive buffer, `ReceiverRecovers` fails for packets of 1518 bytes: the receiver
  stops for good. From 1530 words, twice `MAXPACKET` bytes in each half, it holds;
- with a high priority client connected, each transmit pool gets half of `tx_bufsize_words`
  (`mii_ethernet_rt_mac.xc:584`): half of the 500 words that `api/ethernet.h:544` asks for is less than
  a packet of the largest size, and in a pool that does not hold a packet `ReservationsClear`
  fails (`PoolEnd` 6 with `DataWords` 4 and `FrameWords` {1, 4}). The theorems about `MiiRtTx` assume
  a pool that does (`PoolHoldsPacket`);
- with `TornRead` TRUE, `NullMeansEmpty` fails in run `tx`: `mii_get_rdptr` (`mii_buffering.c:278`) loads `rd_index` and then
  the slot, and if both stores of `mii_free_index` (`:196`, `:200`), on another core, fall between the
  two loads, the server reads null and `mii_reserve_at_least` asks for no room, while later packets wait.
  With `PoolEnd` 7 two such reads in a row make `ReservationsClear` fail too (a single one is not
  enough there, since grants before it have left room for a whole `mii_packet_t`);
- with `ClearShared` TRUE, `ImplementsFilterTable` fails in run `hash`: `del_all_macaddr_filters` of the RGMII MAC
  (`rgmii_buffering.xc:773`) clears the table, and with it what other clients, or the same client number
  with the other priority, have registered, while `api/ethernet.h:131` says "Delete all MAC addresses from the
  filter registered for this client". The run has the calls for which the two agree.

## 4. Bounds and why they are enough

- `rx_safety`: a ring of 3, two clients with fifos that hold 2 packets each
  (`FifoSize` 3 less the place that is never used). The clients together can
  hold every slot, hold them in different orders, hold the same one, and fill
  their fifos while others have room; the ring can wrap past a slow
  client and fill up. `MaxBacklog` keeps the filter one packet short of filling the ring ahead of the
  server, and the link does not change: without that, findings 2 and 1. For every size of
  ring, fifo and set of clients, and without these two bounds, the safety properties are
  proved (section 6).
- `rx_config`: two Ethertypes with one filter per client and two link states, a
  ring of 2. `del_ethertype_filter` for a type that is not there and
  `enable_link_status_notification` for one already waiting change nothing and are
  left to `SelectNothing`. The clients are interchangeable, so the run uses symmetry; no
  liveness is checked with it.
- `rx_pool`: a pool of 20 words, packets of 2 and 4 words, so that five to ten packets fill it
  and it wraps at every phase. Their ends are even, so none lies in
  the last word, the case of finding 3. For the same reason the dummy buffer of
  `mii_reserve` (less than `MIN_USAGE` between `wrptr` and `rdptr`) is not used
  in this run; frames are stopped by `end_ptr` instead. `MaxIncoming` and `MaxLag`
  say how far filter and server may fall behind the wire: a frame comes when no
  packet waits for the filter and at most one has come since the server last published. The pins read the
  pointer as soon as the frame before is done, so it may be older than that. What a null or
  stale pointer does not protect is bounded by the frames that
  come meanwhile, and the pool has to have room for those: `MaxIncoming + 2 * MaxLag` of the longest
  frames, which are just the 20 words; with 18 `LivePacketsIntact` fails, once through
  a null pointer and once because `mii_get_next_rdptr` prefers a
  low priority packet to an older one of high priority. The program relies in the same way on filter and
  server not being held up for longer than its pool lasts (by an output on `c_rx_hp`, say). For all
  values of the two bounds, all pools and frames of any size it is proved that room for so many is enough
  (section 6). `MaxHeld` caps the low priority queue.
- `tx`: a pool of 8 words, packets of 2 and 3 words, a ring of 3;
  one client, because two meet finding 4. Ring and pool both fill up and wrap, at every
  phase to each other, and a slot can be free while two packets wait. `PrioritizeRx` is 1 for the 3 that
  `_complete_send_packet` sets, and `MaxPrioritize` caps `prioritize_rx` at it; `tx_shared_buffer` has 3.
  `TornRead` FALSE is the assumption of section 5.
- `hash`: three addresses, one with high priority, in tables of three slots, with three pairs of hash functions
  under which insertions move entries on, fail, and refills fail in
  their turn; two managers; one client, whose bit and the high priority bit make up a result.
  `ExtraTries` (10 in the code) is 2 and `MaxEntries` caps `num_entries`, which
  counts updates too. Clients of different priority for one address are not supported by the
  code: an address has its priority (`HpKeys`). `ClearShared` FALSE leaves out the calls of
  `del_all_macaddr_filters` that section 3 describes.
- `rgmii`: five buffers, of which two managers give four to the pins: one is left
  for everybody else, so managers run out of buffers and the server drops. Frames are
  filtered, of high priority, for one client or for both. Fifos hold one packet
  (`FifoSize` 2): with more, the server would drop (`Threshold` 1) before one is full.
- `lite`: the buffer of 1600 words the examples and tests use, each half of which holds two packets of
  1518 bytes, so that every second packet ends at a wrap; `RingSize` 3 for the 32 slots
  of `read_bank`, so that it fills up too; `MaxTokens` for the notifications in the channel,
  which never hold a third; `Reported` for the clients that ask for link status. All frames
  have one length: with two, finding 5 (`lite_overwrite`).

No run needs deadlock checking switched off: a server's `default` case, a manager's
iteration or an incoming frame is always possible.

## 5. Assumptions

- **Clients** call `get_packet` when they have been notified, as the interface
  documents, add at most `ETHERNET_MAX_ETHERTYPE_FILTERS` filters (asserted by the
  code), and send the number of bytes they asked for.
- **Timing.** The second store of `mii_add_packet` follows the first by a few
  cycles of a core that is never descheduled. The server, which has to filter and
  count in between, does not move an index off a slot whose addition is under way
  (`StoreSettled`, and the guard of `FreeRd` in `MiiRtTx`). And `mii_free_index` does not make
  both of its stores between the two loads of `mii_get_rdptr`, which are next to each other (`TornRead` FALSE, the guard of
  `FreeSlot`); nothing but the speed of the two cores sees to that, and section 3 says what happens otherwise. All other
  interleavings of the loads and stores are explored. In the same way `SetFlag` assumes that a
  manager that read `hash_table` before the flip has cleared its flag, the next thing it does, by
  the time the configuration task has looked at an active flag and sets it; and a manager that runs clears its flag
  within the 100 retries of `swap_tables`, so only stopped ones time out.
- **Memory** is sequentially consistent, as it is on the device.
- **Fairness.** Each task has a hardware thread of its own, so weak fairness of the
  filter's second store, of the server's steps and of the pins is what the
  scheduler gives. A call of a client that is ready in iteration after iteration is
  accepted in the end: strong fairness, since the select's choice is not ordered.
  `FilterStore` has no fairness, as no frame need arrive. For sends,
  `SF(SelectOther)` says that there are iterations without a
  `get_packet`, because a frame takes longer to arrive than an iteration; otherwise
  `prioritize_rx` holds back sends for good.
  In `RgmiiRx` and `MacHashSwap`, weak fairness of server, managers, restart and
  configuration task, each with a thread of its own, and nothing of frames and low priority
  clients; the client on `c_rx_hp` reads its channel. In `MiiMac`, weak fairness of
  the task's straight-line steps and of the low level driver's transmission, strong fairness of the
  select case of the channel and of the calls of a client that has been notified.

## 6. What is proved

`MiiRtRxProofs` proves of the RT MAC's server for every number of slots, clients, fifo places, filters
and tags, from the `ASSUME`s of `PacketQueue` and `MiiRtRx` alone:

| theorem | property |
|---|---|
| `Invariance` | `Spec => []IInv` |
| `TypeCorrect` | `TypeOK` |
| `HeldSlotsAreCounted` | `HeldSlotsCounted` |
| `PacketsAreRoutedOnce` | `RoutedOnce` |
| `NoSlotIsLost` | `NoSlotLost` |
| `RdIsOnOldest` | `RdOnOldest` |
| `OnlyStatusHides` | `OnlyStatusHidesPackets` |

The argument. None of the properties is inductive: that freeing a slot leaves `rd` on
a used one depends on what lies further on in the ring. `IInv` (module
`MiiRtRxInv`) says what the ring looks like. From `rd` on, the first `e` slots are the ring's extent, up to `wr`
(or one beyond it while an addition is under way, or all the way round); the first `m` of them have been handed out and
may have holes, the others are unrouted without holes, and the server's own index
is at `m`. `Distance` and `Ahead` measure the ring from `rd`, so a step that
moves `rd` by `d` shifts all distances by `d`: the lemmas of `PacketQueueProofs` say
how, and that the scan of `mii_move_my_rd_index` passes over holes only. The rest
of `IInv` ties slots to fifos: counts equal holders, no client has a slot twice, a
slot being freed has no holder. There is one lemma per action
(`RouteStep`, `FreeMoveRdStep`, ...) and `NextInvariant` puts them together; `HeadReleased` is
shared by `get_packet` and the drops.

The module also proves `RefinesRxDelivery` (`Spec => ImplementsRxDelivery`) for the same
constants. `IInv` gives the sequence that the refinement mapping needs: the slots that wait to be
distributed are the `e - m` ones from the server's index on (`WaitingInOrder`), so that an
addition appends to `pending`, a distribution takes its head, and a slot that is freed, one of
the first `m`, is not in it. A fifo maps to the packets of its slots (`SequenceMaps`), which no step
changes while a client holds them. There is one lemma per action: a step of `RxDelivery`, or none.

`MiiRtTxProofs` proves of the RT MAC's transmission, for every number of slots, size of the pool,
set of lengths and set of packets, under two assumptions:

| theorem | statement |
|---|---|
| `NullsMeanEmpty` | `Spec => []NullMeansEmpty`, under `~TornRead` |
| `Invariance` | `Spec /\ []NullMeansEmpty => []IInv` |
| `TypeCorrect` | `TypeOK`, under `[]NullMeansEmpty` |
| `ReservationsStayClear` | `ReservationsClear`, under `[]NullMeansEmpty` |
| `ReservationsHaveSlots` | `SlotForReservation`, under `[]NullMeansEmpty` |
| `TimesAreForWaiting` | `TimeIsForWaiting`, under `[]NullMeansEmpty` |
| `RefinesTxDelivery` | `ImplementsTxDelivery`, under `[]NullMeansEmpty` |

`NullMeansEmpty` is what the comment at `mii_buffering.c:123` says of a null read pointer. It is proved where
the two loads are not torn, and the other theorems name it as their hypothesis, so that they say what holds
of a behaviour with `TornRead` in which no torn read meets a queue that is not empty.

`OneClient` is there because `ReservationsClear` and `ImplementsTxDelivery` are false for two
clients (finding 4), and `PoolHoldsPacket`, that a header, the data of any packet and `MIN_USAGE`
fit into the pool together, because they are false for pools that are too small (section 3); with
the pool all to itself the low priority queue meets it from some 410 words on. The argument: nothing in the code
relates queue and pool except `rdptr`, the pointer at `rd`, which `reserve` is given. It is enough
because of what `IInv` says of both. The queue holds `n` packets, in the slots from `rd` on without a gap
(`QueueShape`; the slot that `mii_free_index` has moved `rd` off and not cleared yet lies behind
them, and may make a queue look full that is not, but not the other way round).
These packets lie in that order behind each other in the pool, all before `wrptr`, where order
and distance are measured from the oldest one on (`Laid`, `Gap`), so that the end of the pool is
no special case. A buffer that has been reserved is at `wrptr`, and between its end and the oldest packet are
at least `MIN_USAGE` words more (`Reserved`), because `reserve` asks for room for the packet and a whole
`mii_packet_t`: so when `mii_commit` moves `wrptr` past the unused tail of the pool, it does
not reach the oldest packet (`CommitAdvances`), which is what goes wrong in the receive pool (finding 3).
Freeing a packet moves `rd` to the next slot, and everything is measured from the next packet on (`LaidRest`).
A time is in one place, from the packet that wants it to the client that waits (`TimeShape`).
For the refinement, `Pending` is the images of the waiting slots under their packets: a commit writes words that
belong to none of them (`LaidAppend`) and appends one, and a packet that leaves is the first.
Between the loads of `mii_get_rdptr` the packet at the index that the first one found may have left: then the
second finds it still, which asks for more room than there need be, or tx_pins has not stored anything yet.

`RgmiiRxProofs` proves of the RGMII receive side, for every number of buffers, managers and
clients and every set of frames, under `~RestartHeld`:

| theorem | property |
|---|---|
| `Invariance` | `Spec => []IInv` |
| `TypeCorrect` | `TypeOK` |
| `BuffersStayAccounted` | `BuffersAccounted` |
| `RefinesRxDelivery` | `ImplementsRxDelivery` |

`RestartHeld` says that the speed may change while clients hold packets; with it `BuffersAccounted` is
false (section 3). The argument: each buffer is in just one of the places where the code keeps
one (`Places`), so a step that moves a buffer from one to the next leaves all others alone, and
each place that is not a free stack has a frame in it (`WaitingFilled`, `InHand`). Fifos may share a
buffer, and `tcount` counts them; none has one twice (`NoDuplicates`). At a restart nobody holds one
(`NothingHeldAtRestart`). For the refinement, no step changes the frame of a buffer that waits or that a client
holds (`FramesKept`).

`MiiMacProofs` proves of the standard MAC on `mii_lite`, for every size of the memory, `MAXPACKET`, ring
of banks, channel and every finite set of clients:

| theorem | statement |
|---|---|
| `Invariance` | `Spec => []NotifyInv` |
| `NoPacketForgotten` | `WaitingNotified` |
| `StatusHides` | `OnlyStatusHides` |
| `MemoryInvariance` | `Spec /\ [][NoSecondWrap]_vars => []IInv` |
| `TypeCorrect` | `TypeOK`, under `[][NoSecondWrap]_vars` |
| `BuffersAreClear` | `BuffersClear`, under `[][NoSecondWrap]_vars` |
| `PacketsStayOwned` | `PacketOwned`, under `[][NoSecondWrap]_vars` |
| `LayerKept` | `ImplementsMiiLayer`, under `[][NoSecondWrap]_vars` |
| `NeverASecondWrap` | `ShortPackets` implies `Spec => [][NoSecondWrap]_vars` |
| `ShortPacketsSafe` | `ShortPackets` implies `Spec => [](TypeOK /\ BuffersClear /\ PacketOwned) /\ ImplementsMiiLayer` |

`NotifyInv` is what makes one bit
enough, between the interrupt handler and the client's read of it: the last token in the channel carries the present value of
`notify_last`, and without a token the client has seen that value (`LastIsNotified`); so a
commit that sends no token has one on its way. It holds however `NotifyMore`'s race turns out.

Packets may have any lengths, in any order. All theorems of the memory assume `BuffersFit`: `MAXPACKET` has room for
the words that the driver writes of a packet, and a bank has room for one. The first part is a property of the
driver, which writes up to 16 bytes more than it counts: with `MAXPACKET` 1530 it holds up to 1519 bytes, but not
for a tagged frame of 1522, of which nothing is claimed.

Without more, `PacketOwned` is false: that is finding 5. `NoSecondWrap` names the one event that makes it so, a
commit that leaves the end of a bank while `free_ptr` is still in the round before. The theorems say that
nothing else goes wrong: whatever the lengths, while the writer has not gone round a second time nothing in use is
written over. And `ShortPackets`, that `MAXPACKET` is room for the buffers of any two packets, rules
the event out (`ShortStep`): `Room` leaves `MAXPACKET` bytes below `free_ptr`, and `free_ptr` is at most one packet past
the last safe place, so a packet that arrives below it ends before that place. So the driver as it is
is right for packets of up to 764 bytes, whatever their lengths and however long the client keeps them, and for
packets of 1518 bytes it would be with a `MAXPACKET` of 3041. For packets of 1518 bytes
only, run `lite` finds the same properties true of the buffer of 1600 words.

The argument. The heads of a bank that are in use are a set of places (`C` of `Ring`), each of which leads to the next by
what it says: the length of a packet, or its negation once freed out of order, to where the buffer ends; 0 on the unused tail
to the begin of the bank; 1 at `wr_ptr`, where they end. Which of two is older is told going back from `wr_ptr` round the bank
(`Older`); `free_ptr` is at the oldest, and from `read_ptr` on none has been freed. What has been read and not
negated is what the client has (`OwnedAreHeld`). `Fill` is what `Room` finds of a buffer that the driver is given: all that
is written for a packet there ends before the next head in use (`FillIs`), and stays so until the
commit. `free_ptr` may wait on the unused tail after `wr_ptr` has wrapped. A second wrap would then put a second
tail into the bank and `wr_ptr` behind packets that wait, which `Room` takes for free memory; while `wr_ptr` is below
`free_ptr` it stays below the last safe place (`w < f` in `Ring`), which is where `NoSecondWrap` comes in.
`EndsLeft` says at which steps of the client pointers may be left at an end of the
bank, `OldestInv` that the buffer `free_ptr` is at has not been freed except while the client moves it on,
and that the MAC's incoming packet, which outlives packets read later, is the oldest of its bank. There is a
lemma for each operation (`CommitKeeps`, `WrapKeeps`, `AdvanceKeeps`, `RestartKeeps`, ...), and a commit may
come between any two of the client's steps. `WaitInv` lists the buffers that have not been read, in the
order of `arrived`, which is what the refinement needs: a commit is an arrival (`CommitIsArrive`), a get
takes the head of the list whatever bank it is in, and all other steps leave list and order alone.

`MacHashSwapProofs` proves, for every number of managers and entries and every hash
function, from the `ASSUME`s of `MacHash` and `MacHashSwap`:

| theorem | property |
|---|---|
| `SwapInvariance` | `Spec => []SwapInv` |
| `LookupsAreSafe` | `NoLookupInBackup` |
| `Invariance` | `Spec => []TablesInv` |
| `TypeCorrect` | `TypeOK` |
| `TablesInSync` | `InSync` |
| `Contents` | `Spec /\ []RefillSucceeds => []ContentInv` |
| `EntriesAreFound` | `EntriesFindable`, under `[]RefillSucceeds` |
| `CallsTakeEffect` | `CallTakesEffect`, under `[]RefillSucceeds` |
| `RefinesFilterTable` | `ImplementsFilterTable`, under `[]RefillSucceeds` and `~ClearShared` |

That nobody looks up in
the backup table when a call begins rests on every step of `swap_tables` before: `SwapInv` says,
for each filter, how far the configuration task has got with it. Before it is flagged its manager may be
stale (have read `hash_table` before the flip); once flagged a stale manager is in its
select and its flag is up (`Flagged`), so that it looks again before it clears the flag; once waited for it is not
stale. A manager that does not run is never stale, which covers restarts and time-outs.

That the tables are equal between calls rests on `SameTables`: during a call, the new table is what the
call, done once more, makes of the old one (`Redone`), or else the old one is copied. That
each operation gives a table is proved first; for `Insert` by induction over the tries left
(`Induction`, which the well-founded order of finite sets gives; the library's own induction
theorems take an operator and cannot be used).

What is in the tables follows from the theorem `InsertCorrect` about `insert`. A table is
`WellPlaced` when each key is in it once, at one of its two places, and at the second only while the
first is taken: without the last part `insert`, which looks at the first place first, would make a second
entry for a key. Moving entries on keeps this, because a place once taken stays taken. While the
loop runs, the entry in hand is all that the table lacks (`Moving`), so that a place that is free ends it with
every key as it was. `delete_entry` keeps ids, so it keeps the table well placed.

`RefillSucceeds` says that an entry which `refill_backup_table` takes over finds a place. It is there
because without it the three properties are false for some hash functions: what a failed
attempt leaves behind (section 3). So `ContentInv`, the part of the invariant that has what is in the
backup table after each entry of a refill, holds as long as refills succeed at the first attempt; run `hash` checks
the properties with refills that fail too, for the hash functions given there.

`MiiRxPoolProofs` proves of the receive memory, for every size of pool and all lengths of frames, that

| theorem | statement |
|---|---|
| `Invariance` | `Spec /\ []NotOnOldest => []IInv` |
| `TypeCorrect` | `TypeOK`, under `[]NotOnOldest` |
| `PacketsStayIntact` | `LivePacketsIntact`, under `[]NotOnOldest` |
| `PacketsStayApart` | `PacketsDisjoint`, under `[]NotOnOldest` |

All of them under `PoolHoldsFrames`, for every `MaxIncoming` and `MaxLag`: the pool has room for
`MaxIncoming + 2 * MaxLag` (`Backlog`) of the longest frames, each with the words that `mii_commit` may skip.
`MaxIncoming` and `MaxLag` do not say how fast filter and server are, but count how far they fall behind; the
theorems say which pool that takes. Without the assumption the properties fail (section 4): it is up to the
user of the library to give a pool for the delays of the server. With frames of 1518 bytes, the 4000 words of the
guide and the tests (`lib_ethernet.rst:382`) are enough for nine frames, so for a server that publishes after at most four
frames; the 500 that `api/ethernet.h:541` asks for at least are less than two frames, so nothing is claimed for them.
`NotOnOldest` excludes just the frame of finding 3, one that ends in the last `MIN_USAGE` bytes of the pool and
stops at word 0.

The argument measures everything backwards from `wrptr` (`Gap`), so that a step of a queue leaves
the measure alone and a commit adds the same to all of it (`CommitShifts`). Packets keep the order in which they came, in each
queue and between them (`Ordered`). What the pins read before the frame is old in two ways. A
null pointer says that there was no packet when it was published: those there are now have come since, and lie
within `Share` words for each frame that has (`Recently`). A pointer to a
low priority packet says nothing of an older one of high priority; but that
one has come between the drain and the publication, so it lies within two rounds of the server, and the next drain takes it
before the server publishes again (`Late`, `RoundBefore`). So a frame that starts at `wrptr` keeps clear of everything at most
`Cover` words back: all of the backlog but one frame, or as far as the word it stops at. `Covered` says that all packets are, when
the frame has a word; while it has none packets may be added and others pass out of cover, until the server
has published again.

Only checked by TLC, on the instances above: everything temporal under fairness, which is beyond the
prover, as is `ENABLED`; and the properties for constants that the theorems' assumptions exclude: refills that fail
in run `hash`, and what the runs that expect a violation show false.

## 7. Mutants

Each property of a passing run has a mutant: an operator, defined next to the one it
would replace and marked `Mutant:`, that changes it as a plausible mistake would
(an off-by-one in a ring, a count that is not noticed, a guard dropped). With it
the run finds the property violated. No specification uses a mutant.

## 8. Not modelled, and the plan

Not part of the models, and why:

- the content of packets beyond what tells them apart, VLAN stripping, timestamps and
  latencies, the MAC address: data that no step depends on;
- CRC, preambles, ports, clocks and delays, the assembly of the pins except for what it does
  with buffers, and SMI: straight-line port I/O, with no state that another task sees;
- the traffic shaper and `c_tx_hp`: credit is arithmetic on a 32-bit clock, and a model without
  time would only restate it. That the choice between the two queues is safe
  follows from each queue having one reader;
- the linear table of `macaddr_filter.xc`: loops over the array of one task, behind a blocking
  channel; `FilterTable` is what it promises;
- the RGMII transmit server: the same stack and ring as `RgmiiRx`, with one user at each end;
  link status and Ethertype filters there, which are the code of the RT server;
- Ethertype filters and address table of the standard MAC: whom a packet is for is a choice;
- tests, examples, documents and scripts: not part of the library.

Planned next, most useful first:

1. The RGMII transmit side and its restart; the high priority channel of the RT MAC.
2. The handshake on `c_conf` in which the filter task lends its table.
