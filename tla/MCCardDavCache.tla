--------------------------- MODULE MCCardDavCache ---------------------------
(* Small instance of CardDavCache for TLC: see the README for the bounds.   *)
EXTENDS CardDavCache
=============================================================================
