------------------------------ MODULE ImapUser ------------------------------
(***************************************************************************)
(* The life of one account's IMAP user object and the waiting in it:       *)
(* imap/backend.go, imap/user.go and the locks of imap/mailbox.go's        *)
(* SEARCH, over one bolt file and one mailbox.                             *)
(*                                                                         *)
(*   out -> locking -> joining ------------> in -> initing -> ... -> in     *)
(*              |                           ^ |-> polling -> waiting -> in *)
(*              \-> fetching -> opening ----/ \-> leaving -> exiting -> out*)
(*                                                          \-> closing    *)
(*                                                                         *)
(* A login holds the backend's mutex until it ends, whatever it waits for: *)
(* the API, the user's mutex, or the lock of the database file.  The last  *)
(* logout closes the file and sets the user's fields to nil, while the     *)
(* goroutine of receiveEvents may still be at work.  A NOOP waits for the  *)
(* signal that goroutine offers after each event, to whoever is there.  A  *)
(* SEARCH lists its mailbox, if need be, and reads it in a transaction in  *)
(* which it takes the mailbox's mutex and the user's.                      *)
(***************************************************************************)
EXTENDS Naturals, FiniteSets

CONSTANTS
  Sessions,    \* IMAP connections of the account
  Names,       \* names the account logs in with: one file, one user per name
  Nobody,      \* no session, no name
  Events,      \* the goroutine of receiveEvents, as the holder of a lock
  MaxPollers,  \* bound on the goroutines blocked in Receiver.Poll
  MaxNotifiers \* bound on the goroutines about to signal eventSent

ASSUME ImapUserAssumption ==
  /\ IsFiniteSet(Sessions)
  /\ MaxPollers \in Nat \ {0} /\ MaxNotifiers \in Nat \ {0}
  /\ Nobody \notin Sessions \cup Names /\ Events \notin Sessions \cup {Nobody}

VARIABLES
  pc,        \* [Sessions -> where the connection is]
  name,      \* [Sessions -> the name it logs in with]
  be,        \* holder of the backend's mutex
  ul,        \* holder of the user's mutex
  ml,        \* holder of the mailbox's mutex
  user,      \* the name in backend.users, or Nobody
  clients,   \* numClients of that user
  file,      \* the database file: "closed", "open", or "leaked" by a failed login
  writer,    \* whose write transaction waits to map the file anew, or Nobody
  consumer,  \* receiveEvents: "off", "ranging", or what it does with an event
  late,      \* a receiveEvents of a closed user has yet to name its updates
  crashed,   \* the process ended on a nil dereference
  receiver,  \* the account's receiver: "none" in the map, "fetching", "sending",
             \* "waiting", or "ended" and still in the map
  pollers,   \* goroutines blocked in Receiver.Poll
  notifiers  \* goroutines that have yet to offer their signal

lockVars == <<be, ul, ml, writer>>
userVars == <<user, clients, file>>
eventVars == <<consumer, late, crashed>>
pollVars == <<receiver, pollers, notifiers>>
vars == <<pc, name, lockVars, userVars, eventVars, pollVars>>

Go(s, from, to) == pc[s] = from /\ pc' = [pc EXCEPT ![s] = to]

Out(s, from) == Go(s, from, "out") /\ name' = [name EXCEPT ![s] = Nobody]

Readers == {s \in Sessions : pc[s] \in {"scanning", "matching", "flagging"}}

LoggedIn == {"in", "initing", "listing", "beginning", "scanning", "matching", "flagging",
             "polling", "waiting", "leaving", "exiting"}

\* A write transaction of w may have to map a larger file, which waits for the
\* readers and keeps new ones out; one is at work at a time.
Grow(w) == writer = Nobody /\ writer' = w

Commit(w) == writer \in {w, Nobody} /\ (writer = w => Readers = {}) /\ writer' = Nobody

Init ==
  /\ pc = [s \in Sessions |-> "out"] /\ name = [s \in Sessions |-> Nobody]
  /\ be = Nobody /\ ul = Nobody /\ ml = Nobody /\ writer = Nobody
  /\ user = Nobody /\ clients = 0 /\ file = "closed"
  /\ consumer = "off" /\ late = FALSE /\ crashed = FALSE
  /\ receiver = "none" /\ pollers = 0 /\ notifiers = 0

-----------------------------------------------------------------------------
(* Login.                                                                   *)

\* backend.Login, with credentials that Manager.Auth accepts.
Login(s, n) ==
  /\ Go(s, "out", "locking")
  /\ name' = [name EXCEPT ![s] = n]
  /\ UNCHANGED <<lockVars, userVars, eventVars, pollVars>>

\* getUser: be.Lock(), and the lookup in be.users.
Enter(s) ==
  /\ be = Nobody /\ be' = s
  /\ Go(s, "locking", IF user = name[s] THEN "joining" ELSE "fetching")
  /\ UNCHANGED <<name, ul, ml, writer, userVars, eventVars, pollVars>>

\* Mutant: a second login of a user is not counted.
JoinUncounted(s) ==
  /\ Go(s, "joining", "in")
  /\ ul = Nobody
  /\ be' = Nobody
  /\ UNCHANGED <<name, ul, ml, writer, userVars, eventVars, pollVars>>

\* getUser, a known user: u.Lock(), numClients++.
Join(s) ==
  /\ Go(s, "joining", "in")
  /\ ul = Nobody
  /\ clients' = clients + 1
  /\ be' = Nobody
  /\ UNCHANGED <<name, ul, ml, writer, user, file, eventVars, pollVars>>

\* Mutant: an error return that keeps the mutex.
FetchKeepsLock(s) ==
  /\ (Go(s, "fetching", "opening") /\ UNCHANGED name) \/ Out(s, "fetching")
  /\ UNCHANGED <<lockVars, userVars, eventVars, pollVars>>

\* newUser: GetCurrentUser and ListAddresses, which may fail.
Fetch(s) ==
  /\ \/ Go(s, "fetching", "opening") /\ UNCHANGED <<name, be>>
     \/ Out(s, "fetching") /\ be' = Nobody
  /\ UNCHANGED <<ul, ml, writer, userVars, eventVars, pollVars>>

\* database.Open waits for the lock of the file, without a timeout.  Then
\* initMailboxes succeeds, the events goroutine starts, and Register makes a
\* receiver or finds one in the map, once it is not sending.  The loop of one it
\* finds may have ended: then nobody will ever send to this user.
Open(s) ==
  /\ Go(s, "opening", "in")
  /\ file = "closed" /\ file' = "open"
  /\ user' = name[s] /\ clients' = 1
  /\ consumer' = "ranging"
  /\ receiver # "sending"
  /\ IF receiver = "none" THEN receiver' = "fetching" /\ pollers' = 0
                          ELSE UNCHANGED <<receiver, pollers>>
  /\ be' = Nobody
  /\ UNCHANGED <<name, ul, ml, writer, late, crashed, notifiers>>

\* initMailboxes fails: nobody closes the file.
OpenFails(s) ==
  /\ Out(s, "opening")
  /\ file = "closed" /\ file' = "leaked"
  /\ be' = Nobody
  /\ UNCHANGED <<ul, ml, writer, user, clients, eventVars, pollVars>>

-----------------------------------------------------------------------------
(* Logout.                                                                  *)

Leave(s) ==
  /\ Go(s, "in", "leaving")
  /\ UNCHANGED <<name, lockVars, userVars, eventVars, pollVars>>

LockToLeave(s) ==
  /\ Go(s, "leaving", "exiting")
  /\ be = Nobody /\ be' = s
  /\ UNCHANGED <<name, ul, ml, writer, userVars, eventVars, pollVars>>

\* numClients--.  Others are left, or the user is removed from be.users and
\* both mutexes are kept.
Exit(s) ==
  /\ ul = Nobody
  /\ clients' = clients - 1
  /\ IF clients = 1
       THEN Go(s, "exiting", "closing") /\ ul' = s /\ user' = Nobody /\ UNCHANGED <<name, be>>
       ELSE Out(s, "exiting") /\ be' = Nobody /\ UNCHANGED <<ul, user>>
  /\ UNCHANGED <<ml, writer, file, eventVars, pollVars>>

\* db.Close() waits for transactions; then u.c, u.u and u.privateKeys are nil.
\* An events goroutine that has written its event goes on without them; one
\* that has not gets an error from the closed file and names nothing.
Close(s) ==
  /\ Out(s, "closing")
  /\ Readers = {} /\ writer = Nobody
  /\ file' = "closed"
  /\ consumer' = "off"
  /\ late' = (late \/ consumer \in {"naming", "flagging"})
  /\ be' = Nobody /\ ul' = Nobody
  /\ UNCHANGED <<ml, writer, user, clients, crashed, pollVars>>

-----------------------------------------------------------------------------
(* user.receiveEvents: one item stands for any number of them.              *)

Consume(from, to) ==
  /\ consumer = from /\ consumer' = to
  /\ UNCHANGED <<pc, name, be, userVars, late, crashed, receiver, pollers>>

\* A write transaction of the goroutine, and the mutexes it holds after it.
Write(from, to, holder) ==
  \/ /\ Consume(from, from) /\ Grow(Events)
     /\ UNCHANGED <<ul, ml, notifiers>>
  \/ /\ Consume(from, to) /\ Commit(Events)
     /\ ul' = holder[1] /\ ml' = holder[2] /\ UNCHANGED notifiers

\* The changes of the event go into the database.
Handle == Write("handling", "naming", <<ul, ml>>)

\* fetchFlags, for an update of a message's flags: the mailbox's mutex ...
Name ==
  /\ Consume("naming", "flagging")
  /\ ml = Nobody
  /\ UNCHANGED <<lockVars, notifiers>>

\* ... and the user's, which getMailboxByLabel and the counts also take.
Flag ==
  /\ Consume("naming", "notifying") \/ Consume("flagging", "notifying")
  /\ ul = Nobody
  /\ UNCHANGED <<lockVars, notifiers>>

\* A refresh: under the user's mutex, the mailbox is reset under its own ...
Refresh ==
  /\ Consume("handling", "resetting")
  /\ writer # Events
  /\ ul = Nobody /\ ul' = Events
  /\ UNCHANGED <<ml, writer, notifiers>>

LockToReset ==
  /\ Consume("resetting", "emptying")
  /\ ml = Nobody /\ ml' = Events
  /\ UNCHANGED <<ul, writer, notifiers>>

Reset == Write("emptying", "clearing", <<Nobody, Nobody>>)

\* ... ResetMessages, under no mutex ...
ResetMessages == Write("clearing", "renewing", <<ul, ml>>)

\* ... and initMailboxes, under the user's: the buckets are written and the API
\* is asked.  When that fails the event is over as well.
LockToRenew ==
  /\ Consume("renewing", "mapping")
  /\ ul = Nobody /\ ul' = Events
  /\ UNCHANGED <<ml, writer, notifiers>>

RenewBoxes == Write("mapping", "notifying", <<Nobody, ml>>)

\* Mutant: no notification for an event.
NotifyLaterNever ==
  /\ Consume("notifying", "ranging")
  /\ UNCHANGED <<lockVars, notifiers>>

\* The updates are queued, the goroutine that will signal starts.
NotifyLater ==
  /\ Consume("notifying", "ranging")
  /\ notifiers < MaxNotifiers /\ notifiers' = notifiers + 1
  /\ UNCHANGED lockVars

\* The goroutine of a closed user reads u.u.Name, or finds nothing to name.
NameLate ==
  /\ late /\ late' = FALSE
  /\ crashed' \in BOOLEAN
  /\ UNCHANGED <<pc, name, lockVars, userVars, consumer, pollVars>>

-----------------------------------------------------------------------------
(* SEARCH: one page stands for any number of them, and one entry.           *)

Command(s, from, to) ==
  Go(s, from, to) /\ UNCHANGED <<name, be, ul, userVars, eventVars, pollVars>>

Search(s) == Command(s, "in", "initing") /\ UNCHANGED <<ml, writer>>

\* mailbox.init takes the mailbox's mutex.  Whether the object is initialized is
\* left open: a refresh resets those in the map, and a session may have another.
InitBox(s) ==
  /\ ml = Nobody
  /\ \/ Command(s, "initing", "listing") /\ ml' = s
     \/ Command(s, "initing", "beginning") /\ UNCHANGED ml
  /\ UNCHANGED writer

\* sync empties the bucket and writes what ListMessages answers ...
ListBox(s) ==
  \/ Command(s, "listing", "listing") /\ Grow(s) /\ UNCHANGED ml
  \/ Command(s, "listing", "beginning") /\ Commit(s) /\ ml' = Nobody

\* ... or an error, which ends the command.
ListFails(s) ==
  /\ Command(s, "listing", "in")
  /\ writer # s
  /\ ml' = Nobody /\ UNCHANGED writer

\* ForEach begins a read transaction; a waiting writer keeps new readers out.
Begin(s) == Command(s, "beginning", "scanning") /\ writer = Nobody /\ UNCHANGED <<ml, writer>>

\* u.db.Message begins another inside it.
Scan(s) == Command(s, "scanning", "matching") /\ writer = Nobody /\ UNCHANGED <<ml, writer>>

\* matchMessage calls fetchFlags: the mailbox's mutex, then the user's.
Match(s) == Command(s, "matching", "flagging") /\ ml = Nobody /\ UNCHANGED <<ml, writer>>

MatchFlags(s) == Command(s, "flagging", "in") /\ ul = Nobody /\ UNCHANGED <<ml, writer>>

-----------------------------------------------------------------------------
(* NOOP.                                                                    *)

\* user.poll: go u.eventsReceiver.Poll() ...
Poll(s) ==
  /\ Go(s, "in", "polling")
  /\ pollers < MaxPollers
  /\ pollers' = pollers + 1
  /\ UNCHANGED <<name, lockVars, userVars, eventVars, receiver, notifiers>>

\* ... and the session arrives at <-u.eventSent.
Wait(s) ==
  /\ Go(s, "polling", "waiting")
  /\ UNCHANGED <<name, lockVars, userVars, eventVars, pollVars>>

ReceiverGo(from, to) ==
  /\ receiver = from /\ receiver' = to
  /\ UNCHANGED <<pc, name, lockVars, userVars, late, crashed, notifiers>>

\* With no channel to send the event to, the loop ends ...
FetchOk ==
  /\ ReceiverGo("fetching", IF consumer = "off" THEN "ended" ELSE "sending")
  /\ UNCHANGED <<consumer, pollers>>

\* ... and then the receiver leaves the manager's map.
Forget == ReceiverGo("ended", "none") /\ UNCHANGED <<consumer, pollers>>

\* An error is not sent to anyone.
FetchError == ReceiverGo("fetching", "waiting") /\ UNCHANGED <<consumer, pollers>>

\* ch <- event, taken by the consumer's range loop; that of a closed user still
\* runs, and can do nothing with the event.
Send ==
  /\ ReceiverGo("sending", "waiting")
  /\ \/ consumer = "ranging" /\ consumer' = "handling"
     \/ consumer = "off" /\ UNCHANGED consumer
  /\ UNCHANGED pollers

\* The receiver's select takes the ticker or a blocked Poll.
Tick == ReceiverGo("waiting", "fetching") /\ UNCHANGED <<consumer, pollers>>

\* Mutant: the receive succeeds with nobody there, as on a closed channel.
TakePollNobody ==
  ReceiverGo("waiting", "fetching") /\ pollers' = pollers - 1 /\ UNCHANGED consumer

TakePoll ==
  /\ ReceiverGo("waiting", "fetching")
  /\ pollers > 0 /\ pollers' = pollers - 1
  /\ UNCHANGED consumer

\* select { case u.eventSent <- struct{}{}: default: } with a session there ...
Notify(s) ==
  /\ Go(s, "waiting", "in")
  /\ notifiers > 0 /\ notifiers' = notifiers - 1
  /\ UNCHANGED <<name, lockVars, userVars, eventVars, receiver, pollers>>

\* ... or with none: the signal is dropped.
NotifyNobody ==
  /\ notifiers > 0 /\ notifiers' = notifiers - 1
  /\ \A s \in Sessions : pc[s] # "waiting"
  /\ UNCHANGED <<pc, name, lockVars, userVars, eventVars, receiver, pollers>>

-----------------------------------------------------------------------------
SessionStep(s) ==
  \/ \E n \in Names : Login(s, n)
  \/ Enter(s) \/ Join(s) \/ Fetch(s) \/ Open(s) \/ OpenFails(s)
  \/ Leave(s) \/ LockToLeave(s) \/ Exit(s) \/ Close(s)
  \/ Search(s) \/ InitBox(s) \/ ListBox(s) \/ ListFails(s)
  \/ Begin(s) \/ Scan(s) \/ Match(s) \/ MatchFlags(s)
  \/ Poll(s) \/ Wait(s) \/ Notify(s)

EventStep ==
  \/ Handle \/ Name \/ Flag \/ NotifyLater \/ NameLate
  \/ Refresh \/ LockToReset \/ Reset \/ ResetMessages \/ LockToRenew \/ RenewBoxes
  \/ FetchOk \/ Forget \/ FetchError \/ Send \/ Tick \/ TakePoll \/ NotifyNobody

Next == ~crashed /\ (EventStep \/ \E s \in Sessions : SessionStep(s))

Spec == Init /\ [][Next]_vars

\* What a session does once it has begun something, until that is over.
Progress(s) ==
  \/ Enter(s) \/ Join(s) \/ Fetch(s) \/ Open(s) \/ OpenFails(s)
  \/ LockToLeave(s) \/ Exit(s) \/ Close(s) \/ Wait(s) \/ Notify(s)
  \/ InitBox(s) \/ ListBox(s) \/ Begin(s) \/ Scan(s) \/ Match(s) \/ MatchFlags(s)

\* What receiveEvents does with an event, until it ranges over the next.
Consumption ==
  \/ Handle \/ Flag \/ NotifyLater
  \/ LockToReset \/ Reset \/ ResetMessages \/ LockToRenew \/ RenewBoxes

(* Goroutines run on, requests end (the HTTP client has a timeout) and, again *)
(* and again, with an answer; the ticker fires; Go's mutexes, channels and    *)
(* bolt's locks serve those who wait in turn.                                 *)
FairSpec ==
  /\ Spec
  /\ WF_vars(FetchOk \/ FetchError \/ Send \/ Tick) /\ SF_vars(FetchOk)
  /\ SF_vars(Consumption) /\ WF_vars(NotifyNobody)
  /\ \A s \in Sessions : SF_vars(Progress(s))

-----------------------------------------------------------------------------
(* Properties.                                                             *)

\* Every variable has its type.
TypeOK ==
  /\ pc \in [Sessions -> LoggedIn \cup
       {"out", "locking", "joining", "fetching", "opening", "closing"}]
  /\ name \in [Sessions -> Names \cup {Nobody}]
  /\ be \in Sessions \cup {Nobody}
  /\ \A holder \in {ul, ml, writer} : holder \in Sessions \cup {Events, Nobody}
  /\ user \in Names \cup {Nobody} /\ clients \in Nat
  /\ file \in {"closed", "open", "leaked"}
  /\ consumer \in {"off", "ranging", "handling", "naming", "flagging", "notifying",
                   "resetting", "emptying", "clearing", "renewing", "mapping"}
  /\ late \in BOOLEAN /\ crashed \in BOOLEAN
  /\ receiver \in {"none", "fetching", "sending", "waiting", "ended"}
  /\ pollers \in 0 .. MaxPollers /\ notifiers \in 0 .. MaxNotifiers

\* While a session is logged in, its user is the registered one, counts it, has
\* its file open, and has the goroutine that handles what is sent to it: no
\* session outlives the user it shares, and Logout's panic("unreachable") is
\* unreachable.  That somebody sends is another matter: see Deaf.
SessionsServed ==
  LET in == {s \in Sessions : pc[s] \in LoggedIn} IN
  /\ clients = Cardinality(in)
  /\ in # {} => file = "open" /\ consumer # "off"
  /\ \A s \in in : user = name[s]

\* A login waits for a file that is never closed: a failed login has left it
\* open, or the account is logged in under another name.  The backend's mutex
\* is held meanwhile, so nobody can log in or out any more.
FileNeverFree == \E s \in Sessions : pc[s] = "opening" /\ (file = "leaked" \/ user # Nobody)

\* A writer waits for a SEARCH that waits for the writer: for its transaction
\* inside a transaction, for the mailbox's mutex that a listing or a refresh
\* holds to write, or for the user's mutex that a refresh holds.
SearchNeverDone ==
  /\ writer # Nobody
  /\ \E s \in Sessions :
       \/ pc[s] = "scanning"
       \/ pc[s] = "matching" /\ ml # Nobody
       \/ pc[s] = "flagging" /\ ul = Events

Stuck == crashed \/ FileNeverFree \/ SearchNeverDone

\* The user was registered with a receiver whose loop had ended: no event will
\* be sent to it, and nothing takes what its NOOPs offer to Poll.
Deaf == consumer # "off" /\ receiver \in {"ended", "none"}

\* Every login, logout and search comes to its end, unless the process gets
\* stuck in one of the ways named here, which the code does not exclude.
CommandsEnd ==
  \A s \in Sessions :
    pc[s] \notin {"out", "in", "polling", "waiting"} ~> pc[s] \in {"out", "in"} \/ Stuck

\* A session in NOOP gets its answer, unless the process gets stuck or its user
\* is deaf.  The signal its own request causes may be lost, or wake another
\* session, so this needs the ticker; and an event request that fails signals
\* nobody, so it needs the API to answer again and again: while it does not,
\* NOOP hangs, whatever timeout the requests have.
PollReturns ==
  \A s \in Sessions :
    pc[s] \in {"polling", "waiting"} ~> pc[s] \notin {"polling", "waiting"} \/ Stuck \/ Deaf
=============================================================================
