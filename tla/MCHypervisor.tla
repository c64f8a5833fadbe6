---------------------------- MODULE MCHypervisor ----------------------------
(* Instances of Hypervisor for TLC.                                        *)
EXTENDS Hypervisor
=============================================================================
