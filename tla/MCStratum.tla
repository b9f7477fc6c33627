----------------------------- MODULE MCStratum -----------------------------
(* Instances of Stratum.  Two shares let a failed submission be followed by *)
(* one that succeeds, which is what resubmission needs; one message of the  *)
(* server suffices for a job, a reconnection or a new extranonce.           *)
EXTENDS Stratum
=============================================================================
