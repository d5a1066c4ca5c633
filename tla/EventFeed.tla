----------------------------- MODULE EventFeed -----------------------------
(***************************************************************************)
(* What a subscriber of an account may rely on, whoever fetches for it: it *)
(* is told of the changes as if it asked the account by itself and alone.  *)
(* An event begins where the last one it was told ended.  Only an answer   *)
(* to "latest" skips changes, and then says so and never goes back.  One   *)
(* step may touch any number of subscribers.                               *)
(***************************************************************************)
EXTENDS Naturals

CONSTANT Subscribers

VARIABLES
  head,   \* ID of the newest event of the account
  answer, \* [Subscribers -> what was last fetched on behalf of each]
  seen    \* [Subscribers -> ID of the last event each was told, or Nothing]

vars == <<head, answer, seen>>

Nothing == 0

\* An event covers the changes after from, up to id; "latest" covers none.
IsAnswer(e) == e.from <= e.id /\ e.id <= head /\ (e.latest => e.from = e.id)

Init ==
  /\ head \in Nat \ {0}
  /\ \A s \in Subscribers : IsAnswer(answer[s])
  /\ seen = [s \in Subscribers |-> Nothing]

\* Something is fetched for s, or nothing; what s is told is decided later.
Ask(s) == (answer'[s] = answer[s] \/ IsAnswer(answer'[s])) /\ seen'[s] = seen[s]

\* The first event may begin anywhere: the subscriber has just joined.
Follows(last, e) == last = Nothing \/ e.from = last \/ (e.latest /\ e.from >= last)

Tell(s) ==
  /\ Follows(seen[s], answer[s])
  /\ seen'[s] = answer[s].id
  /\ UNCHANGED <<head, answer>>

Next == head' >= head /\ \A s \in Subscribers : Ask(s) \/ Tell(s)

Spec == Init /\ [][Next]_vars
=============================================================================
