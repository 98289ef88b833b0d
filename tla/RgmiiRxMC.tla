------------------------------ MODULE RgmiiRxMC ------------------------------
(* Frames for every path: nobody's, high priority, for one client, for all *)
(* and for none by Ethertype.                                              *)
EXTENDS RgmiiRx

MCFrames ==
    [kind : {"filtered", "hp"}, dst : {{}}]
        \cup [kind : {"lp"}, dst : {Clients, {CHOOSE c \in Clients : TRUE}}]
=============================================================================
