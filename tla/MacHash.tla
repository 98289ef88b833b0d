------------------------------ MODULE MacHash ------------------------------
(***************************************************************************)
(* The address table of macaddr_filter_hash.c.  A key has two places in a  *)
(* table, one per hash function; an insertion that finds both taken moves  *)
(* entries on to their other places.  The polynomials of the two hash      *)
(* functions only ever change together, so a table carries the number of   *)
(* the pair, its generation.                                               *)
(*                                                                         *)
(* A result is the set of its bits: clients, and Hp for bit 31.            *)
(***************************************************************************)
EXTENDS Integers

CONSTANTS
    Keys,           \* addresses, other than the one that is all zero
    NoKey,          \* the id of an empty entry, 0 in both words
    NumSlots,       \* MII_MACADDR_HASH_TABLE_SIZE
    Generations,    \* how many pairs of polynomials there are
    Hash,           \* Hash[g][t][k]: the place of k by function t of pair g
    Clients,        \* the receive clients
    Hp,             \* the high priority bit of a result
    ExtraTries      \* 10: places an insertion looks at beyond num_entries

Slots == 0 .. NumSlots - 1
Generation == 0 .. Generations - 1
Result == SUBSET (Clients \cup {Hp})

ASSUME MacHashAssumption ==
    /\ NoKey \notin Keys
    /\ NumSlots \in Nat \ {0} /\ Generations \in Nat \ {0}
    /\ Hash \in [Generation -> [{0, 1} -> [Keys -> Slots]]]
    /\ Hp \notin Clients
    /\ ExtraTries \in Nat \ {0}

\* mii_macaddr_hash_table_t without the user data
Table == [gen : Generation, num_entries : Nat,
          id : [Slots -> Keys \cup {NoKey}], result : [Slots -> Result]]

\* ethernet_filter_result_set_hp(1 << c, is_hp)
ResultFor(c, is_hp) == IF is_hp THEN {c, Hp} ELSE {c}

\* Mutant: the entries stay where the old polynomials put them.
EmptiedNot(t) == [t EXCEPT !.num_entries = 0]

\* The table without entries.  (The code leaves their results, but that of
\* an entry without an id is not read again.)
Emptied(t) == [t EXCEPT !.num_entries = 0, !.id = [i \in Slots |-> NoKey],
                        !.result = [i \in Slots |-> {}]]

\* clear_table
ClearTable(t) == [Emptied(t) EXCEPT !.gen = 0]

\* mii_macaddr_hash_lookup: the result for key k, nothing if it is not there
Lookup(t, k) ==
    LET x == Hash[t.gen][0][k]
        y == Hash[t.gen][1][k]
    IN  IF t.id[y] = k THEN t.result[y]
        ELSE IF t.id[x] = k THEN t.result[x]
        ELSE {}

\* contains_different_entry
ContainsDifferentEntry(t, i, k) == t.id[i] \notin {NoKey, k}

----------------------------------------------------------------------------
(* insert.  The state of its loop: the table, the entry in hand, set_not_or, *)
(* hashtype and conflict.                                                    *)

\* Table t with entry i for key k.
WithEntry(t, i, k, r) == [t EXCEPT !.id[i] = k, !.result[i] = r]

\* Mutant: nothing is added to what is there.
PlaceKeeps(s, i) ==
    [s EXCEPT !.table = WithEntry(@, i, s.key, IF s.set \/ @.id[i] = NoKey
                                               THEN s.result ELSE @.result[i]),
              !.conflict = FALSE]

\* The entry in hand goes into place i.
Place(s, i) ==
    [s EXCEPT !.table = WithEntry(@, i, s.key, IF s.set \/ @.id[i] = NoKey
                                               THEN s.result ELSE @.result[i] \cup s.result),
              !.conflict = FALSE]

\* Mutant: what was in place i is lost.
ExchangeLoses(s, i) ==
    [s EXCEPT !.table = WithEntry(@, i, s.key, s.result), !.conflict = FALSE]

\* The entry in hand goes into place i, and what was there is taken in hand.
Exchange(s, i) ==
    [s EXCEPT !.table = WithEntry(@, i, s.key, s.result),
              !.key = s.table.id[i], !.result = s.table.result[i],
              !.set = TRUE, !.hashtype = 1 - @]

\* One iteration.  The first only tries the other place of the new key.
Try(s, count) ==
    LET i == Hash[s.table.gen][s.hashtype][s.key]
    IN  IF ~ContainsDifferentEntry(s.table, i, s.key) THEN Place(s, i)
        ELSE IF count = 0 THEN [s EXCEPT !.hashtype = 1 - @]
        ELSE Exchange(s, i)

LoopState == [table : Table, key : Keys, result : Result, set : BOOLEAN,
              hashtype : {0, 1}, conflict : BOOLEAN]

\* The end of the loop, for each number of tries left and each state: it
\* goes on after a conflict.
Loop(tries) ==
    LET loop[left \in 0 .. tries] ==
            [s \in LoopState |->
                IF s.conflict /\ left > 0 THEN loop[left - 1][Try(s, tries - left)] ELSE s]
    IN  loop

\* insert: whether there was room, and the table as it is then.
Insert(t, k, r, set_not_or) ==
    LET tries == t.num_entries + ExtraTries
        end == Loop(tries)[tries][[table |-> t, key |-> k, result |-> r, set |-> set_not_or,
                                   hashtype |-> 0, conflict |-> TRUE]]
    IN  IF end.conflict THEN [success |-> FALSE, table |-> end.table]
        ELSE [success |-> TRUE, table |-> [end.table EXCEPT !.num_entries = @ + 1]]

\* The table with the next polynomials.
NextPolys(t) == [t EXCEPT !.gen = (@ + 1) % Generations]

----------------------------------------------------------------------------
\* The place at which delete_entry looks: the second hash function is that
\* of table h, of which b is the copy.
PlaceToDelete(b, h, k) ==
    IF b.id[Hash[b.gen][0][k]] = k THEN Hash[b.gen][0][k] ELSE Hash[h.gen][1][k]

\* What is left of result r without client c.
Without(r, c, is_hp) == IF is_hp /\ r \ {c, Hp} = {} THEN {} ELSE r \ {c}

\* Whether delete_entry finds the entry of key k, of the right priority.
Deletes(b, h, is_hp, k) ==
    LET x == PlaceToDelete(b, h, k)
    IN  b.id[x] = k /\ (Hp \in b.result[x]) = is_hp

\* delete_entry, when it finds the entry: b without client c for key k
DeleteEntry(b, h, c, is_hp, k) ==
    [b EXCEPT !.result[PlaceToDelete(b, h, k)] = Without(@, c, is_hp)]
=============================================================================
