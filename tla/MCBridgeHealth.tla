--------------------------- MODULE MCBridgeHealth ---------------------------
(* Small instances of BridgeHealth for TLC: see the README for the bounds.  *)
EXTENDS BridgeHealth
=============================================================================
