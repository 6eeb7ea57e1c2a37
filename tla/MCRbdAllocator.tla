--------------------------- MODULE MCRbdAllocator ---------------------------
(* Instances of RbdAllocator for TLC. *)
EXTENDS RbdAllocator, TLC

CONSTANTS q1, q2
=============================================================================
