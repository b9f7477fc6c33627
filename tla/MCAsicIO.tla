------------------------------ MODULE MCAsicIO ------------------------------
(* Instances of AsicIO: two registers p and q of a chip, read alone or     *)
(* together.                                                               *)
EXTENDS AsicIO, TLC

CONSTANTS p, q

MCPayload == {p, q}
MCOverlap == {{p}, {p, q}}
MCSame    == {{p}}
MCNoDead  == {}

Symmetry == Permutations(Callers) \cup Permutations(Objs)
=============================================================================
