----------------------------- MODULE UidMailbox -----------------------------
(***************************************************************************)
(* What an IMAP client may rely on in a mailbox, whatever stores it: under *)
(* one UIDVALIDITY value a UID, once assigned, names the same message for  *)
(* ever and is never assigned again, and new messages take UIDs at or      *)
(* above the announced UIDNEXT.  Only a larger UIDVALIDITY voids the old   *)
(* UIDs.  One step may touch any number of mailboxes.                      *)
(***************************************************************************)
EXTENDS Naturals

CONSTANTS Labels, Msgs

VARIABLES
  uidValidity,  \* [Labels -> Nat]
  uidNext,      \* [Labels -> Nat]
  uids          \* [Labels -> partial function from UIDs to Msgs]

vars == <<uidValidity, uidNext, uids>>

\* UIDNEXT is above every UID in use.
BelowNext(f, next) == \A u \in DOMAIN f : u < next

Init ==
  /\ uidValidity \in [Labels -> Nat]
  /\ uidNext = [l \in Labels |-> 1]
  /\ uids = [l \in Labels |-> << >>]

\* Under the same UIDVALIDITY the announced UIDs may only lose entries.
Extend(l) ==
  /\ uidValidity'[l] = uidValidity[l]
  /\ uidNext'[l] >= uidNext[l]
  /\ \A u \in DOMAIN uids'[l] :
       u < uidNext[l] => u \in DOMAIN uids[l] /\ uids'[l][u] = uids[l][u]

\* A new UIDVALIDITY starts the numbering afresh.
Renumber(l) == uidValidity'[l] > uidValidity[l]

Next == \A l \in Labels : /\ Extend(l) \/ Renumber(l)
                          /\ BelowNext(uids'[l], uidNext'[l])

Spec == Init /\ [][Next]_vars
=============================================================================
