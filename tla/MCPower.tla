------------------------------- MODULE MCPower -------------------------------
(* Instances of Power: a PSU with a watchdog and a sleep mode, one without *)
(* either, and none.                                                       *)
EXTENDS Power

MCKinds == {"bocoV2", "vendor", "none"}
=============================================================================
