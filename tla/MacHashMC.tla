----------------------------- MODULE MacHashMC -----------------------------
(* Places of keys 1, 2 and 3 for TLC: by generation, function and key.     *)
EXTENDS MacHashSwap

HashOf(places) == [g \in Generation |-> [t \in {0, 1} |-> [k \in Keys |-> places[g + 1][t + 1][k]]]]

\* Insertions move entries and fail, and so do attempts to refill.
MCHash == HashOf(<< << <<0, 2, 2>>, <<1, 2, 2>> >>,
                    << <<2, 1, 2>>, <<2, 2, 0>> >>,
                    << <<1, 1, 2>>, <<1, 2, 1>> >> >>)
=============================================================================
