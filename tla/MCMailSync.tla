----------------------------- MODULE MCMailSync -----------------------------
(* Small instances of MailSync for TLC: see the README for the bounds.      *)
EXTENDS MailSync, TLC

Symmetry == Permutations(Labels)
=============================================================================
