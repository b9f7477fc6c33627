-------------------------------- MODULE MCBoard --------------------------------
(***************************************************************************)
(* An instance of Board: three chips, of which the last is from the upper  *)
(* range of addresses.                                                     *)
(***************************************************************************)
EXTENDS Board

\* each reading has one hit of every chip, but of chip 1 more than are believed
MCReadings == {[i \in Indices |-> IF i = 1 THEN 2 ELSE 1]}
=============================================================================
