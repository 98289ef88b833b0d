----------------------------- MODULE MiiRtRxMC -----------------------------
(* MiiRtRx for TLC: the clients are interchangeable in the safety runs.    *)
EXTENDS MiiRtRxInv, TLC

ClientSymmetry == Permutations(Clients)
=============================================================================
