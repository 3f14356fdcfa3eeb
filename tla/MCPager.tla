------------------------------ MODULE MCPager ------------------------------
(***************************************************************************)
(* Instances of virtual memory for TLC: the constants are in the cfgs.     *)
(***************************************************************************)
EXTENDS PagerProperties
=============================================================================
