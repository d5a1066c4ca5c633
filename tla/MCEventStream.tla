---------------------------- MODULE MCEventStream ----------------------------
(* Small instance of EventStream for TLC: see the README for the bounds.    *)
EXTENDS EventStream
==============================================================================
