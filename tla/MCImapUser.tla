----------------------------- MODULE MCImapUser -----------------------------
(* Small instance of ImapUser for TLC: see the README for the bounds.       *)
EXTENDS ImapUser
=============================================================================
