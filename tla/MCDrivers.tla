----------------------------- MODULE MCDrivers -----------------------------
(***************************************************************************)
(* Instances of the drivers for TLC: the constants are in the cfgs.        *)
(***************************************************************************)
EXTENDS DriverProperties

\* The disks of src/phase4: 16 tracks and 32.
DiskTracks == [u \in Units |-> IF u = 0 THEN 16 ELSE 32]

\* The tests of the repository are as the theorems of DriverProofs want them.
ASSUME TestsOfRepository == SleepsOnce(AllTests) /\ SleepsFit(AllTests) /\ RequestsFit(AllTests)
=============================================================================
