------------------------------ MODULE MCMining ------------------------------
(* Instances of Mining.  Two HWCtxIDs for four jobs make every ID come back. *)
EXTENDS Mining
=============================================================================
