---------------------------- MODULE MCInternalMsg ----------------------------
(* Small instances of InternalMsg for TLC. *)
EXTENDS InternalMsg
CONSTANTS msgA, msgB
==============================================================================
