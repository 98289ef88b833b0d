---------------------------- MODULE MacHashSwap ----------------------------
(***************************************************************************)
(* Who uses the address tables of the RGMII MAC.  The buffer managers look *)
(* up addresses in one table while the configuration task changes the      *)
(* other, swaps the two, waits until the managers have noticed and brings  *)
(* the table they have left up to date.  A change of speed stops the       *)
(* managers at any point of this and starts one or two of them again.      *)
(*                                                                         *)
(* backup_table is always the table that hash_table does not point to,     *)
(* except while the configuration task sets the flags, when it does not    *)
(* use it.                                                                 *)
(***************************************************************************)
EXTENDS MacHash

CONSTANTS
    HpKeys,         \* addresses that are added with high priority
    ClearShared,    \* del_all_macaddr_filters while others have filters too
    MaxFilters,     \* MAX_NUM_FILTERS: buffer managers
    MaxEntries      \* bound: num_entries, which counts updates too

ASSUME MacHashSwapAssumption ==
    /\ HpKeys \subseteq Keys
    /\ ClearShared \in BOOLEAN
    /\ MaxFilters \in Nat \ {0}
    /\ MaxEntries \in Nat

Filters == 0 .. MaxFilters - 1

VARIABLES
    tables,         \* hash_table_0 and hash_table_1
    hash_table,     \* which of them hash_table points to
    waiting,        \* waiting_for_filter
    active,         \* filter_active
    pc,             \* where the configuration task is
    op,             \* the call it is working on
    do_memcpy,      \* the argument of swap_tables
    i,              \* its loop index: a place of the table, or a filter
    mgr,            \* where each buffer manager is
    held,           \* the table it looks up addresses in
    mac             \* whether the tasks of the MAC run, end or have ended

tableVars == <<tables, hash_table>>
callVars == <<pc, op, do_memcpy, i>>
vars == <<tableVars, waiting, active, callVars, mgr, held, mac>>

Backup == 1 - hash_table
NoOp == [kind |-> "none"]
Ops == [kind : {"add", "delete"}, client : Clients, is_hp : BOOLEAN, key : Keys]
           \cup [kind : {"clear"}, client : Clients, is_hp : BOOLEAN] \cup {NoOp}

TypeOK ==
    /\ tables \in [{0, 1} -> Table]
    /\ hash_table \in {0, 1}
    /\ waiting \in [Filters -> BOOLEAN]
    /\ active \in [Filters -> BOOLEAN]
    /\ pc \in {"idle", "refill", "insert", "flip", "check", "flag", "wait", "sync"}
    /\ op \in Ops
    /\ do_memcpy \in BOOLEAN
    /\ i \in 0 .. (IF pc = "refill" THEN NumSlots ELSE MaxFilters) - 1
    /\ mgr \in [Filters -> {"load", "clear", "select", "stopped"}]
    /\ held \in [Filters -> {0, 1}]
    /\ mac \in {"running", "stopping", "stopped"}

EmptyTable == [gen |-> 0, num_entries |-> 0,
               id |-> [s \in Slots |-> NoKey], result |-> [s \in Slots |-> {}]]

\* mii_macaddr_hash_table_init, and the start of the MAC with two managers
Init ==
    /\ tables = [t \in {0, 1} |-> EmptyTable]
    /\ hash_table = 0
    /\ waiting = [f \in Filters |-> FALSE]
    /\ active = [f \in Filters |-> TRUE]
    /\ pc = "idle"
    /\ op = NoOp
    /\ do_memcpy = FALSE
    /\ i = 0
    /\ mgr = [f \in Filters |-> "load"]
    /\ held = [f \in Filters |-> 0]
    /\ mac = "running"

----------------------------------------------------------------------------
(* The calls of the configuration interface.                               *)

\* insert of the call's entry into the backup table
InsertOp(o) == Insert(tables[Backup], o.key, ResultFor(o.client, o.is_hp), FALSE)

\* mii_macaddr_hash_table_add_entry up to swap_tables or the refill, which
\* begins by emptying the backup table.  refilled: not for the first time.
TryAdd(o, refilled) ==
    LET r == InsertOp(o)
    IN  /\ op' = o
        /\ IF r.success
           THEN /\ tables' = [tables EXCEPT ![Backup] = r.table]
                /\ pc' = "flip"
                /\ do_memcpy' = refilled
           ELSE /\ tables' = [tables EXCEPT ![Backup] = NextPolys(Emptied(@))]
                /\ pc' = "refill"
                /\ do_memcpy' = TRUE
        /\ UNCHANGED <<hash_table, waiting, active, i, mgr, held, mac>>

\* An address is added with one priority only: clients of different priority
\* for the same address are not supported.
AddEntry(c, k) ==
    /\ pc = "idle"
    /\ tables[Backup].num_entries < MaxEntries
    /\ TryAdd([kind |-> "add", client |-> c, is_hp |-> k \in HpKeys, key |-> k], FALSE)

RetryAdd == pc = "insert" /\ TryAdd(op, TRUE)

\* refill_backup_table: one entry of the other table after the other.  An
\* insertion that fails starts the next attempt, on top of this one.
Refill ==
    /\ pc = "refill"
    /\ LET h == tables[hash_table]
           r == Insert(tables[Backup], h.id[i], h.result[i], TRUE)
       IN  \/ /\ h.id[i] # NoKey /\ ~r.success
              /\ tables' = [tables EXCEPT ![Backup] = NextPolys(r.table)]
              /\ i' = 0
              /\ pc' = pc
           \/ /\ h.id[i] # NoKey => r.success
              /\ tables' = IF h.id[i] = NoKey THEN tables ELSE [tables EXCEPT ![Backup] = r.table]
              /\ i' = IF i + 1 = NumSlots THEN 0 ELSE i + 1
              /\ pc' = IF i + 1 = NumSlots THEN "insert" ELSE "refill"
    /\ UNCHANGED <<hash_table, waiting, active, op, do_memcpy, mgr, held, mac>>

\* mii_macaddr_hash_table_delete_entry, when there is something to delete;
\* it returns at once when there is not.
Delete(c, is_hp, k) ==
    /\ pc = "idle"
    /\ Deletes(tables[Backup], tables[hash_table], is_hp, k)
    /\ tables' = [tables EXCEPT ![Backup] =
                     DeleteEntry(@, tables[hash_table], c, is_hp, k)]
    /\ op' = [kind |-> "delete", client |-> c, is_hp |-> is_hp, key |-> k]
    /\ pc' = "flip"
    /\ UNCHANGED <<hash_table, waiting, active, do_memcpy, i, mgr, held, mac>>

\* The filters are those of client c, and of no other.
OnlyOf(c, is_hp) ==
    \A k \in Keys : Lookup(tables[hash_table], k) \in {{}, ResultFor(c, is_hp)}

\* mii_macaddr_hash_table_clear, which a client calls for its own filters
\* and which clears those of the others with them.
Clear(c, is_hp) ==
    /\ pc = "idle"
    /\ ClearShared \/ OnlyOf(c, is_hp)
    /\ tables' = [tables EXCEPT ![Backup] = ClearTable(@)]
    /\ op' = [kind |-> "clear", client |-> c, is_hp |-> is_hp]
    /\ pc' = "flip"
    /\ UNCHANGED <<hash_table, waiting, active, do_memcpy, i, mgr, held, mac>>

----------------------------------------------------------------------------
(* swap_tables                                                             *)

Flip ==
    /\ pc = "flip"
    /\ hash_table' = Backup
    /\ pc' = "check"
    /\ i' = 0
    /\ UNCHANGED <<tables, waiting, active, op, do_memcpy, mgr, held, mac>>

\* Mutant: the next loop does not start with the first filter.
AdvanceOn(here, next) ==
    /\ i' = i + 1
    /\ pc' = IF i + 1 = MaxFilters THEN next ELSE here

\* The next filter, or the next loop.
Advance(here, next) ==
    /\ i' = IF i + 1 = MaxFilters THEN 0 ELSE i + 1
    /\ pc' = IF i + 1 = MaxFilters THEN next ELSE here

CheckActive ==
    /\ pc = "check"
    /\ IF active[i] THEN pc' = "flag" /\ i' = i ELSE Advance("check", "wait")
    /\ UNCHANGED <<tableVars, waiting, active, op, do_memcpy, mgr, held, mac>>

\* A manager that read the pointer before the flip has long cleared its
\* flag: it takes the next instructions for that.
SetFlag ==
    /\ pc = "flag"
    /\ ~(mgr[i] = "clear" /\ held[i] # hash_table)
    /\ waiting' = [waiting EXCEPT ![i] = TRUE]
    /\ Advance("check", "wait")
    /\ UNCHANGED <<tableVars, active, op, do_memcpy, mgr, held, mac>>

\* Mutant: no filter but the first is waited for.
WaitFirst ==
    /\ pc = "wait"
    /\ ~waiting[i]
    /\ pc' = "sync"
    /\ i' = 0
    /\ UNCHANGED <<tableVars, waiting, active, op, do_memcpy, mgr, held, mac>>

Wait ==
    /\ pc = "wait"
    /\ ~waiting[i]
    /\ Advance("wait", "sync")
    /\ UNCHANGED <<tableVars, waiting, active, op, do_memcpy, mgr, held, mac>>

\* Mutant: the configuration task waits as long as it takes.
TimeOutNever == FALSE

\* The retries run out, and the other filters are not waited for.  A
\* manager that runs takes much less than 100 retries to clear its flag.
TimeOut ==
    /\ pc = "wait"
    /\ waiting[i]
    /\ \A f \in Filters : waiting[f] => mgr[f] = "stopped"
    /\ pc' = "sync"
    /\ i' = 0
    /\ UNCHANGED <<tableVars, waiting, active, op, do_memcpy, mgr, held, mac>>

\* Mutant: the tables are not copied after a refill.
SyncApply ==
    /\ pc = "sync"
    /\ LET b == tables[Backup]
           h == tables[hash_table]
       IN  tables' = [tables EXCEPT ![Backup] =
               CASE op.kind = "add" -> InsertOp(op).table
                 [] op.kind = "delete" /\ Deletes(b, h, op.is_hp, op.key) ->
                        DeleteEntry(b, h, op.client, op.is_hp, op.key)
                 [] op.kind = "clear" -> ClearTable(b)
                 [] OTHER -> b]
    /\ op' = NoOp
    /\ do_memcpy' = FALSE
    /\ pc' = "idle"
    /\ UNCHANGED <<hash_table, waiting, active, i, mgr, held, mac>>

\* The end of the call: copy, or do the same to the other table.
Sync ==
    /\ pc = "sync"
    /\ LET b == tables[Backup]
           h == tables[hash_table]
       IN  tables' = [tables EXCEPT ![Backup] =
               CASE do_memcpy -> h
                 [] ~do_memcpy /\ op.kind = "add" -> InsertOp(op).table
                 [] op.kind = "delete" /\ Deletes(b, h, op.is_hp, op.key) ->
                        DeleteEntry(b, h, op.client, op.is_hp, op.key)
                 [] op.kind = "clear" -> ClearTable(b)
                 [] OTHER -> b]
    /\ op' = NoOp
    /\ do_memcpy' = FALSE
    /\ pc' = "idle"
    /\ UNCHANGED <<hash_table, waiting, active, i, mgr, held, mac>>

----------------------------------------------------------------------------
(* rgmii_buffer_manager: mii_macaddr_get_hash_table in every iteration,    *)
(* then one packet looked up, none, or a change of speed.                  *)

LoadTable(f) ==
    /\ mgr[f] = "load"
    /\ held' = [held EXCEPT ![f] = hash_table]
    /\ mgr' = [mgr EXCEPT ![f] = "clear"]
    /\ UNCHANGED <<tableVars, waiting, active, callVars, mac>>

ClearFlag(f) ==
    /\ mgr[f] = "clear"
    /\ waiting' = [waiting EXCEPT ![f] = FALSE]
    /\ mgr' = [mgr EXCEPT ![f] = "select"]
    /\ UNCHANGED <<tableVars, active, callVars, held, mac>>

\* A packet, or nothing; the lookup changes nothing.
Iterate(f) ==
    /\ mgr[f] = "select"
    /\ mgr' = [mgr EXCEPT ![f] = "load"]
    /\ held' = [held EXCEPT ![f] = 0]
    /\ UNCHANGED <<tableVars, waiting, active, callVars, mac>>

Stop(f) ==
    /\ mac = "stopping"
    /\ mgr[f] = "select"
    /\ mgr' = [mgr EXCEPT ![f] = "stopped"]
    /\ held' = [held EXCEPT ![f] = 0]
    /\ UNCHANGED <<tableVars, waiting, active, callVars, mac>>

----------------------------------------------------------------------------
(* rgmii_ethernet_mac                                                      *)

ChangeSpeed ==
    /\ mac = "running"
    /\ mac' = "stopping"
    /\ UNCHANGED <<tableVars, waiting, active, callVars, mgr, held>>

\* mii_macaddr_set_num_active_filters, its first loop ...
NoneActive ==
    /\ mac = "stopping"
    /\ \A f \in Filters : mgr[f] = "stopped"
    /\ active' = [f \in Filters |-> FALSE]
    /\ waiting' = [f \in Filters |-> FALSE]
    /\ mac' = "stopped"
    /\ UNCHANGED <<tableVars, callVars, mgr, held>>

\* ... its second, and the start of num_active managers
Restart(num_active) ==
    /\ mac = "stopped"
    /\ active' = [f \in Filters |-> f < num_active]
    /\ mgr' = [f \in Filters |-> IF f < num_active THEN "load" ELSE "stopped"]
    /\ mac' = "running"
    /\ UNCHANGED <<tableVars, waiting, callVars, held>>

----------------------------------------------------------------------------
Call ==
    \E c \in Clients :
        \/ \E k \in Keys : AddEntry(c, k) \/ \E is_hp \in BOOLEAN : Delete(c, is_hp, k)
        \/ \E is_hp \in BOOLEAN : Clear(c, is_hp)

Config == RetryAdd \/ Refill \/ Flip \/ CheckActive \/ SetFlag \/ Wait \/ TimeOut \/ Sync

Manager(f) == LoadTable(f) \/ ClearFlag(f) \/ Iterate(f) \/ Stop(f)

Mac == ChangeSpeed \/ NoneActive \/ \E n \in 1 .. MaxFilters : Restart(n)

Next == Call \/ Config \/ (\E f \in Filters : Manager(f)) \/ Mac

Spec == Init /\ [][Next]_vars

\* The configuration task and the managers have cores of their own.
Fairness == WF_vars(Config) /\ \A f \in Filters : WF_vars(Manager(f))

FairSpec == Spec /\ Fairness

----------------------------------------------------------------------------
(* Correctness.                                                            *)

\* A manager looks up addresses in the table that hash_table points to,
\* unless the configuration task has just swapped them: never in the one
\* that is being changed.
NoLookupInBackup ==
    pc \notin {"check", "flag", "wait"} =>
        \A f \in Filters : mgr[f] \in {"clear", "select"} => held[f] = hash_table

\* Between calls the two tables are the same, which is what the next call
\* changes one of.
InSync == pc = "idle" => tables[0] = tables[1]

\* An address is in the table once at most, where a lookup finds it.
EntriesFindable ==
    LET t == tables[hash_table]
    IN  \A s \in Slots : t.id[s] # NoKey =>
            /\ s \in {Hash[t.gen][0][t.id[s]], Hash[t.gen][1][t.id[s]]}
            /\ \A r \in Slots : t.id[r] = t.id[s] => r = s

\* A call has done what it was called for when it has swapped the tables.
CallTakesEffect ==
    pc = "sync" =>
        /\ op.kind = "add" => ResultFor(op.client, op.is_hp) \subseteq
                                  Lookup(tables[hash_table], op.key)
        /\ op.kind = "delete" => op.client \notin Lookup(tables[hash_table], op.key)

Abstract == INSTANCE FilterTable WITH
    filters <- [k \in Keys |-> Lookup(tables[hash_table], k)]

\* What a lookup finds changes at the swap, by just what the call was to
\* change, whatever entries it moved and however often it refilled.
ImplementsFilterTable == Abstract!Spec

\* A call returns, if managers have stopped or not.
CallsReturn == pc # "idle" ~> pc = "idle"
=============================================================================
