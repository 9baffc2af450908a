--------------------------- MODULE MCCartridgeChange ---------------------------
(* CartridgeChange with a low, a middle and a full level; a page here is a unit *)
(* of the order of the thresholds of the code: 5 pages are 1, 50 pages are 2.   *)
EXTENDS CartridgeChange, TLC

MCKinds  == {"chip", "counter"}
MCChip   == {"chip"}
MCLevels == {10, 50, 90}
MCJobs   == {1, 3}
MCFew    == {1}
Symmetric == Permutations(Names)
=============================================================================
