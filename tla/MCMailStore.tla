---------------------------- MODULE MCMailStore ----------------------------
(* Small instance of MailStore for TLC: see the README for the bounds.      *)
EXTENDS MailStore, TLC

Symmetry == Permutations(Msgs) \cup Permutations(Labels)
=============================================================================
