------------------------------- MODULE MCDvfs -------------------------------
(* Instances of Dvfs: half a volt is more than the largest step up, a      *)
(* raise from the lowest voltage to the highest takes several steps.       *)
EXTENDS Dvfs

Steps == {1, 2}
=============================================================================
