---------------------------- MODULE MCNotifWait ----------------------------
(* Instances of NotifWait for TLC. *)
EXTENDS NotifWait

\* Every caller waits for a legacy id or an id of another group.
MCCmdSets == {{WIDE_ID(0, o), WIDE_ID(2, o)} : o \in Opcodes}
=============================================================================
