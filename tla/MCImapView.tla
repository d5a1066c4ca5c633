----------------------------- MODULE MCImapView -----------------------------
(* Small instance of ImapView for TLC: see the README for the bounds.       *)
EXTENDS ImapView
=============================================================================
