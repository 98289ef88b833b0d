---------------------------- MODULE FilterTable ----------------------------
(***************************************************************************)
(* What an address filter promises: a result per address, which calls of   *)
(* the configuration interface change one at a time.                       *)
(***************************************************************************)
CONSTANTS Keys, Clients, Hp

VARIABLE filters    \* the result of each address

Init == filters = [k \in Keys |-> {}]

Bits(c, is_hp) == IF is_hp THEN {c, Hp} ELSE {c}

\* add_macaddr_filter
Add(c, is_hp, k) == filters' = [filters EXCEPT ![k] = @ \cup Bits(c, is_hp)]

\* A result without a client; one without clients has no priority.
Without(result, c, is_hp) ==
    IF is_hp /\ result \ {c, Hp} = {} THEN {} ELSE result \ {c}

\* del_macaddr_filter: the priority has to be that of the entry.
Delete(c, is_hp, k) ==
    /\ (Hp \in filters[k]) = is_hp
    /\ filters' = [filters EXCEPT ![k] = Without(@, c, is_hp)]

\* del_all_macaddr_filters: "Delete all MAC addresses from the filter
\* registered for this client" (api/ethernet.h:131), every one of them as
\* del_macaddr_filter does.
DeleteAll(c, is_hp) ==
    filters' = [k \in Keys |-> IF (Hp \in filters[k]) = is_hp
                               THEN Without(filters[k], c, is_hp) ELSE filters[k]]

Next ==
    \E c \in Clients, is_hp \in BOOLEAN :
        DeleteAll(c, is_hp) \/ \E k \in Keys : Add(c, is_hp, k) \/ Delete(c, is_hp, k)

Spec == Init /\ [][Next]_filters
=============================================================================
