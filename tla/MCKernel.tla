------------------------------ MODULE MCKernel ------------------------------
(* Instances of the kernel for TLC; the constants' values are in the cfg.   *)
EXTENDS KernelProperties
=============================================================================
