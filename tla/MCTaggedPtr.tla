----------------------------- MODULE MCTaggedPtr -----------------------------
(* Small instances of TaggedPtr for TLC. *)
EXTENDS TaggedPtr
CONSTANTS o1, o2
==============================================================================
