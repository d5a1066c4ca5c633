----------------------------- MODULE EventStream -----------------------------
(***************************************************************************)
(* The event stream of one account, events/events.go.                      *)
(*                                                                         *)
(* The first Register of a user starts a receiver goroutine; later ones    *)
(* add their channel to it.  The receiver fetches the next event, sends it *)
(* to every channel while holding its lock, and waits for a tick or a poll *)
(* request.  It ends when it finds no channel left; only then, in a second *)
(* critical section, does it leave the manager's map.  Each registration   *)
(* has a goroutine that waits for done, takes the channel out of the       *)
(* receiver and closes it.                                                 *)
(***************************************************************************)
EXTENDS Naturals, Sequences, FiniteSets

CONSTANTS
  Subscribers,  \* registrations, each with its own channel
  MaxReceivers, \* bound on the receiver goroutines ever started
  MaxHead       \* bound on the events of the account

ASSUME EventStreamAssumption == MaxReceivers \in Nat /\ MaxHead \in Nat \ {0}

Receivers == 1 .. MaxReceivers

VARIABLES
  head,      \* ID of the newest event the server has
  current,   \* the receiver in the manager's map, or NoReceiver
  pc,        \* [Receivers -> where its goroutine is]
  channels,  \* [Receivers -> its registered channels, in order]
  unsent,    \* [Receivers -> the channels it still has to send event to]
  cursor,    \* [Receivers -> last, or NoCursor]
  errors,    \* [Receivers -> consecutiveErrors]
  event,     \* [Receivers -> the event it fetched last]
  home,      \* [Subscribers -> the receiver Register returned]
  state,     \* [Subscribers -> life cycle of the registration]
  busy,      \* [Subscribers -> is its consumer handling an event?]
  polling,   \* [Subscribers -> is a goroutine blocked in Poll?]
  got,       \* history: [Subscribers -> ID of the last event it was sent]
  late       \* history: [Subscribers -> registered with a receiver that
             \*           had already left its loop?]

receiverVars == <<pc, channels, unsent, cursor, errors, event>>
subscriberVars == <<home, state, busy, polling, got, late>>
vars == <<head, current, receiverVars, subscriberVars>>

NoReceiver == 0
NoCursor == 0              \* last = "": the request asks for "latest"
MaxConsecutiveErrors == 3  \* maxConsecutiveEventErrors

\* An event covers the changes after from, up to id.  One asked for with
\* "latest" carries the newest ID and no change.
NoEvent == [from |-> 0, id |-> 0, latest |-> FALSE]
Event == [from : 0 .. MaxHead, id : 0 .. MaxHead, latest : BOOLEAN]

\* Mutant: the channels are read and changed without the lock.
UnlockedAlways(r) == TRUE

\* r.locker is held by the receiver while it sends.
Unlocked(r) == pc[r] # "sending"

-----------------------------------------------------------------------------
Init ==
  /\ head = 1
  /\ current = NoReceiver
  /\ pc = [r \in Receivers |-> "unborn"]
  /\ channels = [r \in Receivers |-> << >>]
  /\ unsent = [r \in Receivers |-> << >>]
  /\ cursor = [r \in Receivers |-> NoCursor]
  /\ errors = [r \in Receivers |-> 0]
  /\ event = [r \in Receivers |-> NoEvent]
  /\ home = [s \in Subscribers |-> NoReceiver]
  /\ state = [s \in Subscribers |-> "new"]
  /\ busy = [s \in Subscribers |-> FALSE]
  /\ polling = [s \in Subscribers |-> FALSE]
  /\ got = [s \in Subscribers |-> 0]
  /\ late = [s \in Subscribers |-> FALSE]

\* Something changes in the account (the server; not part of the bridge).
NewEvent ==
  /\ head < MaxHead
  /\ head' = head + 1
  /\ UNCHANGED <<current, receiverVars, subscriberVars>>

\* Manager.Register when the map has a receiver for the user.
RegisterExisting(s) ==
  /\ state[s] = "new"
  /\ current # NoReceiver
  /\ Unlocked(current)
  /\ channels' = [channels EXCEPT ![current] = Append(@, s)]
  /\ home' = [home EXCEPT ![s] = current]
  /\ state' = [state EXCEPT ![s] = "live"]
  /\ late' = [late EXCEPT ![s] = pc[current] = "ending"]
  /\ UNCHANGED <<head, current, pc, unsent, cursor, errors, event, busy, polling, got>>

\* Mutant: the map is not consulted.
RegisterFirstAlways(s) ==
  /\ state[s] = "new"
  /\ \E r \in Receivers :
       /\ pc[r] = "unborn"
       /\ current' = r
       /\ pc' = [pc EXCEPT ![r] = "fetching"]
       /\ channels' = [channels EXCEPT ![r] = <<s>>]
       /\ home' = [home EXCEPT ![s] = r]
  /\ state' = [state EXCEPT ![s] = "live"]
  /\ UNCHANGED <<head, unsent, cursor, errors, event, busy, polling, got, late>>

\* Manager.Register when it has none: a new receiver goroutine.
RegisterFirst(s) ==
  /\ state[s] = "new"
  /\ current = NoReceiver
  /\ \E r \in Receivers :
       /\ pc[r] = "unborn"
       /\ \A q \in Receivers : q < r => pc[q] # "unborn"
       /\ current' = r
       /\ pc' = [pc EXCEPT ![r] = "fetching"]
       /\ channels' = [channels EXCEPT ![r] = <<s>>]
       /\ home' = [home EXCEPT ![s] = r]
  /\ state' = [state EXCEPT ![s] = "live"]
  /\ UNCHANGED <<head, unsent, cursor, errors, event, busy, polling, got, late>>

Register(s) == RegisterExisting(s) \/ RegisterFirst(s)

\* The answer of GetEvent(last).
Answer(last) ==
  IF last = NoCursor
    THEN {[from |-> head, id |-> head, latest |-> TRUE]}
    ELSE {[from |-> last, id |-> i, latest |-> FALSE] :
            i \in {j \in last .. head : j > last \/ last = head}}

\* GetEvent succeeds: the cursor moves before the event is handed on.
FetchOk(r) ==
  /\ pc[r] = "fetching"
  /\ \E e \in Answer(cursor[r]) :
       /\ event' = [event EXCEPT ![r] = e]
       /\ cursor' = [cursor EXCEPT ![r] = e.id]
  /\ errors' = [errors EXCEPT ![r] = 0]
  /\ pc' = [pc EXCEPT ![r] = "fetched"]
  /\ UNCHANGED <<head, current, channels, unsent, subscriberVars>>

\* Mutant: an error ends the loop.
FetchErrorEnds(r) ==
  /\ pc[r] = "fetching"
  /\ pc' = [pc EXCEPT ![r] = "ending"]
  /\ UNCHANGED <<head, current, channels, unsent, cursor, errors, event, subscriberVars>>

\* GetEvent fails: the third failure in a row drops the cursor.
FetchError(r) ==
  /\ pc[r] = "fetching"
  /\ IF errors[r] + 1 >= MaxConsecutiveErrors
       THEN /\ cursor' = [cursor EXCEPT ![r] = NoCursor]
            /\ errors' = [errors EXCEPT ![r] = 0]
       ELSE /\ errors' = [errors EXCEPT ![r] = @ + 1]
            /\ UNCHANGED cursor
  /\ pc' = [pc EXCEPT ![r] = "waiting"]
  /\ UNCHANGED <<head, current, channels, unsent, event, subscriberVars>>

\* r.locker.Lock(): from here to the unlock the channels are fixed.
LockChannels(r) ==
  /\ pc[r] = "fetched"
  /\ unsent' = [unsent EXCEPT ![r] = channels[r]]
  /\ pc' = [pc EXCEPT ![r] = "sending"]
  /\ UNCHANGED <<head, current, channels, cursor, errors, event, subscriberVars>>

\* Mutants: a consumer that is busy is passed over; the consumer stops
\* receiving when done is closed.
SendPassesOver(r) ==
  /\ pc[r] = "sending"
  /\ unsent[r] # << >>
  /\ LET s == Head(unsent[r]) IN
       /\ busy' = [busy EXCEPT ![s] = TRUE]
       /\ got' = [got EXCEPT ![s] = IF busy[s] THEN @ ELSE event[r].id]
  /\ unsent' = [unsent EXCEPT ![r] = Tail(@)]
  /\ UNCHANGED <<head, current, pc, channels, cursor, errors, event, home, state, polling, late>>

SendWhileLive(r) ==
  /\ pc[r] = "sending"
  /\ unsent[r] # << >>
  /\ LET s == Head(unsent[r]) IN
       /\ state[s] = "live"
       /\ ~busy[s]
       /\ busy' = [busy EXCEPT ![s] = TRUE]
       /\ got' = [got EXCEPT ![s] = event[r].id]
  /\ unsent' = [unsent EXCEPT ![r] = Tail(@)]
  /\ UNCHANGED <<head, current, pc, channels, cursor, errors, event, home, state, polling, late>>

\* ch <- event, unbuffered: both sides move together.
Send(r) ==
  /\ pc[r] = "sending"
  /\ unsent[r] # << >>
  /\ LET s == Head(unsent[r]) IN
       /\ state[s] # "closed"
       /\ ~busy[s]
       /\ busy' = [busy EXCEPT ![s] = TRUE]
       /\ got' = [got EXCEPT ![s] = event[r].id]
  /\ unsent' = [unsent EXCEPT ![r] = Tail(@)]
  /\ UNCHANGED <<head, current, pc, channels, cursor, errors, event, home, state, polling, late>>

\* Unlock; n, the number of channels counted under the lock, ends the loop.
UnlockChannels(r) ==
  /\ pc[r] = "sending"
  /\ unsent[r] = << >>
  /\ pc' = [pc EXCEPT ![r] = IF channels[r] = << >> THEN "ending" ELSE "waiting"]
  /\ UNCHANGED <<head, current, channels, unsent, cursor, errors, event, subscriberVars>>

\* select: the ticker fires ...
Tick(r) ==
  /\ pc[r] = "waiting"
  /\ pc' = [pc EXCEPT ![r] = "fetching"]
  /\ UNCHANGED <<head, current, channels, unsent, cursor, errors, event, subscriberVars>>

\* ... or takes the request of a goroutine blocked in Poll.
TakePoll(s) ==
  /\ polling[s]
  /\ pc[home[s]] = "waiting"
  /\ pc' = [pc EXCEPT ![home[s]] = "fetching"]
  /\ polling' = [polling EXCEPT ![s] = FALSE]
  /\ UNCHANGED <<head, current, channels, unsent, cursor, errors, event, home, state, busy, got, late>>

\* The goroutine Register started: the receiver leaves the map, whatever was
\* registered with it meanwhile.
Forget(r) ==
  /\ pc[r] = "ending"
  /\ pc' = [pc EXCEPT ![r] = "dead"]
  /\ current' = NoReceiver
  /\ UNCHANGED <<head, channels, unsent, cursor, errors, event, subscriberVars>>

\* The consumer of the channel has handled an event and ranges on.
Handled(s) ==
  /\ busy[s]
  /\ busy' = [busy EXCEPT ![s] = FALSE]
  /\ UNCHANGED <<head, current, receiverVars, home, state, polling, got, late>>

\* Receiver.Poll: a goroutine blocks on r.poll.
Poll(s) ==
  /\ state[s] = "live"
  /\ ~polling[s]
  /\ polling' = [polling EXCEPT ![s] = TRUE]
  /\ UNCHANGED <<head, current, receiverVars, home, state, busy, got, late>>

\* The owner of the registration closes done.
CloseDone(s) ==
  /\ state[s] = "live"
  /\ state' = [state EXCEPT ![s] = "leaving"]
  /\ UNCHANGED <<head, current, receiverVars, home, busy, polling, got, late>>

\* Mutant: the oldest channel is taken out instead of the one that leaves.
UnsubscribeOldest(s) ==
  /\ state[s] = "leaving"
  /\ Unlocked(home[s])
  /\ channels' = [channels EXCEPT ![home[s]] = IF @ = << >> THEN @ ELSE Tail(@)]
  /\ state' = [state EXCEPT ![s] = "removed"]
  /\ UNCHANGED <<head, current, pc, unsent, cursor, errors, event, home, busy, polling, got, late>>

\* The channels without s, which is among them at most once.
Removed(chans, s) ==
  LET at == {i \in DOMAIN chans : chans[i] = s}
      i  == CHOOSE i \in at : TRUE
  IN IF at = {} THEN chans ELSE SubSeq(chans, 1, i - 1) \o SubSeq(chans, i + 1, Len(chans))

\* The goroutine waiting for done takes the channel out under r.locker ...
Unsubscribe(s) ==
  /\ state[s] = "leaving"
  /\ Unlocked(home[s])
  /\ channels' = [channels EXCEPT ![home[s]] = Removed(@, s)]
  /\ state' = [state EXCEPT ![s] = "removed"]
  /\ UNCHANGED <<head, current, pc, unsent, cursor, errors, event, home, busy, polling, got, late>>

\* ... and closes it after the unlock.
CloseChannel(s) ==
  /\ state[s] = "removed"
  /\ state' = [state EXCEPT ![s] = "closed"]
  /\ UNCHANGED <<head, current, receiverVars, home, busy, polling, got, late>>

ReceiverStep(r) ==
  FetchOk(r) \/ FetchError(r) \/ LockChannels(r) \/ Send(r) \/ UnlockChannels(r) \/ Tick(r) \/ Forget(r)

SubscriberStep(s) ==
  Register(s) \/ TakePoll(s) \/ Handled(s) \/ Poll(s) \/ CloseDone(s) \/ Unsubscribe(s) \/ CloseChannel(s)

Next ==
  \/ NewEvent
  \/ \E r \in Receivers : ReceiverStep(r)
  \/ \E s \in Subscribers : SubscriberStep(s)

Spec == Init /\ [][Next]_vars

(* Every API request ends, in an answer or in an error, consumers handle   *)
(* what they are sent, and Go's select and mutexes starve nobody: a case   *)
(* that is ready again and again is chosen, a waiter gets the lock.        *)
Fairness ==
  /\ \A r \in Receivers :
       /\ WF_vars(FetchOk(r) \/ FetchError(r))
       /\ WF_vars(LockChannels(r))
       /\ WF_vars(Send(r))
       /\ WF_vars(UnlockChannels(r))
       /\ WF_vars(Tick(r))
       /\ WF_vars(Forget(r))
  /\ \A s \in Subscribers :
       /\ WF_vars(Handled(s))
       /\ SF_vars(TakePoll(s))
       /\ SF_vars(Unsubscribe(s))
       /\ WF_vars(CloseChannel(s))

FairSpec == Spec /\ Fairness

-----------------------------------------------------------------------------
(* Properties.                                                             *)

\* Every variable has its type, and cursors stay below the newest event.
TypeOK ==
  /\ head \in 1 .. MaxHead
  /\ current \in Receivers \cup {NoReceiver}
  /\ pc \in [Receivers -> {"unborn", "fetching", "fetched", "sending", "waiting", "ending", "dead"}]
  /\ channels \in [Receivers -> Seq(Subscribers)]
  /\ unsent \in [Receivers -> Seq(Subscribers)]
  /\ cursor \in [Receivers -> 0 .. head]
  /\ errors \in [Receivers -> 0 .. MaxConsecutiveErrors - 1]
  /\ event \in [Receivers -> Event]
  /\ home \in [Subscribers -> Receivers \cup {NoReceiver}]
  /\ state \in [Subscribers -> {"new", "live", "leaving", "removed", "closed"}]
  /\ busy \in [Subscribers -> BOOLEAN]
  /\ polling \in [Subscribers -> BOOLEAN]
  /\ got \in [Subscribers -> 0 .. head]
  /\ late \in [Subscribers -> BOOLEAN]

\* A receiver never has a closed channel, nor one whose removal is over, left
\* to send to: a send on a closed channel would panic the whole bridge.
NoSendOnClosed ==
  \A r \in Receivers : \A i \in DOMAIN unsent[r] :
    state[unsent[r][i]] \in {"live", "leaving"}

\* Two receivers of one user never run at once: a second one starts only when
\* the first has left its loop for good, so no event is handled twice.
OneReceiver ==
  \A r, q \in Receivers :
    r # q => "unborn" \in {pc[r], pc[q]} \/ "dead" \in {pc[r], pc[q]}

\* A registered channel is known to the receiver in the map.  The exception is
\* one that registered between the loop's end and Forget.
ServedUnlessLate ==
  \A s \in Subscribers :
    state[s] = "live" /\ ~late[s] =>
      /\ home[s] = current
      /\ \E i \in DOMAIN channels[current] : channels[current][i] = s
      /\ pc[current] \notin {"ending", "dead"}

\* A subscriber sees every change of the account once and in order: it cannot tell
\* that it shares a receiver with others, which come and go at any time.
Feed == INSTANCE EventFeed WITH
  answer <- [s \in Subscribers |-> IF home[s] = NoReceiver THEN NoEvent ELSE event[home[s]]],
  seen   <- got

ImplementsFeed == Feed!Spec

\* A Poll of a subscriber that is not late and stays is taken eventually: the
\* receiver always comes back to its select.
PollTaken ==
  \A s \in Subscribers : polling[s] ~> (~polling[s] \/ state[s] # "live" \/ late[s])

\* A closed done ends in a closed channel: the receiver never keeps its lock
\* for ever, even when it is sending to the very subscriber that leaves.
LeavingEnds == \A s \in Subscribers : state[s] = "leaving" ~> state[s] = "closed"
=============================================================================
