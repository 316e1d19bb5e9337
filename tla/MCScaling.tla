------------------------------ MODULE MCScaling ------------------------------
(***************************************************************************)
(* The auto-scaler with the code's own threshold and three depths: empty,  *)
(* a few tasks, and enough to ask for two more workers at once.            *)
(***************************************************************************)
EXTENDS AutoScaler, TLC

Depths == {0, 1, 101}

WorkerSymmetry == Permutations(WorkerId)
=============================================================================
