------------------------------ MODULE MCUsers ------------------------------
(* Instances of the user processes for TLC: the constants are in the cfgs.  *)
EXTENDS UserProperties

\* All tests.  TLC evaluates what a cfg names as a constant's value wherever it
\* meets the constant, and what that in turn names once.
EveryTest == AllTests
=============================================================================
