--------------------------- MODULE MCPoolManager ---------------------------
(* Model-checking instances of PoolManager: two valid configurations and    *)
(* an invalid one; lists that are empty, mixed with an invalid entry, and   *)
(* longer than MAX_POOL_NUMBER.                                             *)
EXTENDS PoolManager, TLC

CONSTANTS c1, c2, bad

MCCfg      == {c1, c2, bad}
MCValidCfg == {c1, c2}
MCConfigs  == {<<>>, <<bad>>, <<c1, c2, bad>>}
MCPair     == {<<c1, c2>>}
Symmetry   == Permutations(Slots)
=============================================================================
