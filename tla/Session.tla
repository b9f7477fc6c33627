------------------------------- MODULE Session -------------------------------
(***************************************************************************)
(* What PoolRuntime.Run (and the module PoolManager, in GoDial and         *)
(* GoReturn) relies on about one stratum session, without its protocol: it *)
(* dials, connects or gives up as unreachable, and once the pool is told   *)
(* to stop, or the server has closed the connection, it returns.           *)
(***************************************************************************)

VARIABLES phase, result, bPoolExit, closed

vars == <<phase, result, bPoolExit, closed>>

Init ==
    /\ phase \in {"dial", "conn"}
    /\ result = "nil"
    /\ bPoolExit \in BOOLEAN
    /\ closed = FALSE

Dial ==
    /\ phase = "dial"
    /\ \/ phase' = "conn" /\ UNCHANGED result
       \/ phase' = "over" /\ result' = "Unreachable"
    /\ UNCHANGED <<bPoolExit, closed>>

Return ==
    /\ phase = "conn"
    /\ phase' = "over"
    /\ result' \in {"nil", "other"}
    /\ closed' = FALSE
    /\ UNCHANGED bPoolExit

Stop  == bPoolExit' = TRUE /\ UNCHANGED <<phase, result, closed>>
Close == phase = "conn" /\ closed' = TRUE /\ UNCHANGED <<phase, result, bPoolExit>>

Next == Dial \/ Return \/ Stop \/ Close

(* A session that was told to stop or was closed returns; another may last *)
(* for ever.                                                               *)
Spec ==
    /\ Init
    /\ [][Next]_vars
    /\ WF_vars(Dial)
    /\ WF_vars((bPoolExit \/ closed) /\ Return)
=============================================================================
