---------------------------- MODULE BridgeProofs ----------------------------
(***************************************************************************)
(* Proofs about the two things a login to the bridge goes through: the     *)
(* user object it shares with other connections (ImapUser) and the health  *)
(* monitor it reports to (BridgeHealth).                                   *)
(*                                                                         *)
(* For any number of connections, names, pollers and signals, no session   *)
(* outlives the user object it shares, and nobody enters a critical section*)
(* of backend.go or user.go beside somebody.  For any logins, thresholds   *)
(* and timeouts, the clock of the logins hides nobody, and the process is  *)
(* given up for API failures only after the failures that the threshold    *)
(* asks for.                                                               *)
(***************************************************************************)
EXTENDS ImapUser, BridgeHealth, FiniteSetTheorems, SequenceTheorems, TLAPS

InSessions == {s \in Sessions : pc[s] \in LoggedIn}

\* Where a login or a logout holds the mutex of the backend.
BackendLocked == {"joining", "fetching", "opening", "exiting", "closing"}

\* A mutex is held by whoever is in its critical section, and by nobody else;
\* only who has something to write waits to map a larger file.
MutexesHeld ==
  /\ \A s \in Sessions : be = s <=> pc[s] \in BackendLocked
  /\ \A s \in Sessions : ul = s <=> pc[s] = "closing"
  /\ \A s \in Sessions : ml = s <=> pc[s] = "listing"
  /\ \A s \in Sessions : writer = s => pc[s] = "listing"
  /\ ul = Events <=> consumer \in {"resetting", "emptying", "mapping"}
  /\ ml = Events <=> consumer = "emptying"
  /\ writer = Events => consumer \in {"handling", "emptying", "clearing", "mapping"}

\* Who is on the way in or in has given a name.
Named == \A s \in Sessions : pc[s] # "out" => name[s] \in Names

\* There is a registered user exactly while it has clients, and then it has its
\* file and its events; who joins it finds it there.  The goroutine of a user
\* that is gone is over when its last client has closed the file.
UserAlive ==
  /\ user # Nobody <=> clients > 0
  /\ user # Nobody => file = "open" /\ consumer # "off"
  /\ consumer # "off" => user # Nobody \/ \E s \in Sessions : pc[s] = "closing"
  /\ \A s \in Sessions : pc[s] = "joining" => user = name[s]
  /\ \A s \in Sessions : pc[s] = "closing" => user = Nobody

Counted ==
  /\ clients = Cardinality(InSessions)
  /\ \A s \in InSessions : user = name[s]

UserInv == TypeOK /\ MutexesHeld /\ Named /\ UserAlive /\ Counted

-----------------------------------------------------------------------------
(* The sessions that are in.                                                *)

\* The sessions of a user can be counted.
LEMMA FiniteSessions ==
  /\ IsFiniteSet(InSessions)
  /\ Cardinality(InSessions) \in Nat
  /\ Cardinality(InSessions) = 0 <=> InSessions = {}
<1>1. IsFiniteSet(InSessions)
  BY ImapUserAssumption, FS_Subset DEF InSessions
<1> QED
  BY <1>1, FS_CardinalityType, FS_EmptySet

\* One comes in, one goes out, and the others stay where they are.
LEMMA OneComesIn ==
  ASSUME NEW s \in Sessions, s \notin InSessions, InSessions' = InSessions \cup {s}
  PROVE  Cardinality(InSessions') = Cardinality(InSessions) + 1
BY FiniteSessions, FS_AddElement

\* When one of them goes there is one less.
LEMMA OneGoesOut ==
  ASSUME NEW s \in Sessions, s \in InSessions, InSessions' = InSessions \ {s}
  PROVE  /\ Cardinality(InSessions') = Cardinality(InSessions) - 1
         /\ Cardinality(InSessions) > 0
<1>1. Cardinality(InSessions') = Cardinality(InSessions) - 1
  BY FiniteSessions, FS_RemoveElement
<1> QED
  BY <1>1, FiniteSessions

-----------------------------------------------------------------------------
(* The initial state and the steps.                                        *)

\* The invariant holds before anybody has logged in.
LEMMA InitUserInv == Init => UserInv
<1> SUFFICES ASSUME Init PROVE UserInv
  OBVIOUS
<1>1. InSessions = {}
  BY DEF Init, InSessions, LoggedIn
<1>2. Counted
  BY <1>1, FiniteSessions DEF Init, Counted
<1>3. TypeOK
  <2>1. pollers \in 0 .. MaxPollers /\ notifiers \in 0 .. MaxNotifiers /\ clients \in Nat
    BY ImapUserAssumption DEF Init
  <2> QED
    BY <2>1 DEF Init, TypeOK
<1>4. MutexesHeld
  BY ImapUserAssumption DEF Init, MutexesHeld, BackendLocked
<1>5. Named /\ UserAlive
  BY DEF Init, Named, UserAlive
<1> QED
  BY <1>2, <1>3, <1>4, <1>5 DEF UserInv

\* A session that stays in, or out, and a user that does not change.
LEMMA CountedKept ==
  ASSUME UserInv, UNCHANGED <<user, clients>>, InSessions' = InSessions,
         \A s \in InSessions : name'[s] = name[s]
  PROVE  Counted'
BY DEF UserInv, Counted

\* A login takes the mutex of the backend.
LEMMA LoginStep ==
  ASSUME UserInv, NEW s \in Sessions, NEW n \in Names, Login(s, n)
  PROVE  UserInv'
<1> USE ImapUserAssumption
    DEF UserInv, TypeOK, LoggedIn, Login, Go, lockVars, userVars, eventVars, pollVars
<1>1. TypeOK' /\ MutexesHeld' /\ Named' /\ UserAlive'
  BY DEF MutexesHeld, BackendLocked, Named, UserAlive
<1>2. Counted'
  BY CountedKept DEF InSessions
<1> QED
  BY <1>1, <1>2

\* Who finds the user registered joins it, and holds the mutex until then.
LEMMA EnterStep ==
  ASSUME UserInv, NEW s \in Sessions, Enter(s)
  PROVE  UserInv'
<1> USE ImapUserAssumption
    DEF UserInv, TypeOK, LoggedIn, Enter, Go, userVars, eventVars, pollVars
<1>1. TypeOK' /\ MutexesHeld' /\ Named' /\ UserAlive'
  BY DEF MutexesHeld, BackendLocked, Named, UserAlive
<1>2. Counted'
  BY CountedKept DEF InSessions
<1> QED
  BY <1>1, <1>2

\* A login that finds its user joins it.
LEMMA JoinStep ==
  ASSUME UserInv, NEW s \in Sessions, Join(s)
  PROVE  UserInv'
<1> USE ImapUserAssumption
    DEF UserInv, TypeOK, LoggedIn, Join, Go, userVars, eventVars, pollVars
<1>1. TypeOK' /\ MutexesHeld' /\ Named' /\ UserAlive'
  BY DEF MutexesHeld, BackendLocked, Named, UserAlive
<1>2. Counted'
  <2>1. s \notin InSessions /\ InSessions' = InSessions \cup {s}
    BY DEF InSessions
  <2> QED
    BY <2>1, OneComesIn DEF Counted, UserAlive
<1> QED
  BY <1>1, <1>2

\* A login asks the API for what a user is made of.
LEMMA FetchStep ==
  ASSUME UserInv, NEW s \in Sessions, Fetch(s)
  PROVE  UserInv'
<1> USE ImapUserAssumption
    DEF UserInv, TypeOK, LoggedIn, Fetch, Out, Go, userVars, eventVars, pollVars
<1>1. TypeOK' /\ MutexesHeld' /\ Named' /\ UserAlive'
  BY DEF MutexesHeld, BackendLocked, Named, UserAlive
<1>2. Counted'
  BY CountedKept DEF InSessions
<1> QED
  BY <1>1, <1>2

\* The file is closed, so there is no user: the session is its only client.
LEMMA OpenStep ==
  ASSUME UserInv, NEW s \in Sessions, Open(s)
  PROVE  UserInv'
<1>1. /\ user = Nobody /\ clients = 0 /\ InSessions = {}
      /\ ul # Events /\ ml # Events /\ writer # Events
  BY FiniteSessions
  DEF UserInv, TypeOK, MutexesHeld, BackendLocked, UserAlive, Counted, Open, Go
<1> USE ImapUserAssumption DEF UserInv, TypeOK, LoggedIn, Open, Go
<1>2. TypeOK'
  BY DEF Named
<1>3. MutexesHeld' /\ Named'
  BY <1>1 DEF MutexesHeld, BackendLocked, Named
<1>4. UserAlive'
  <2>1. user' # Nobody /\ clients' > 0
    BY DEF Named
  <2>2. \A r \in Sessions : pc'[r] \notin {"joining", "closing"}
    BY DEF MutexesHeld, BackendLocked
  <2> QED
    BY <2>1, <2>2 DEF UserAlive
<1>5. Counted'
  <2>1. InSessions' = InSessions \cup {s}
    BY DEF InSessions
  <2> QED
    BY <1>1, <2>1, OneComesIn DEF Counted
<1> QED
  BY <1>2, <1>3, <1>4, <1>5

\* A login that fails once the file is open.
LEMMA OpenFailsStep ==
  ASSUME UserInv, NEW s \in Sessions, OpenFails(s)
  PROVE  UserInv'
<1> USE ImapUserAssumption
    DEF UserInv, TypeOK, LoggedIn, OpenFails, Out, Go, userVars, eventVars, pollVars
<1>1. TypeOK' /\ MutexesHeld' /\ Named' /\ UserAlive'
  BY DEF MutexesHeld, BackendLocked, Named, UserAlive
<1>2. Counted'
  BY CountedKept DEF InSessions
<1> QED
  BY <1>1, <1>2

\* The last client removes the user from be.users; before that nobody does.
LEMMA ExitStep ==
  ASSUME UserInv, NEW s \in Sessions, Exit(s)
  PROVE  UserInv'
<1>1. s \in InSessions /\ InSessions' = InSessions \ {s}
  BY DEF UserInv, TypeOK, InSessions, LoggedIn, Exit, Out, Go
<1>2. clients' = Cardinality(InSessions') /\ clients' \in Nat /\ clients = clients' + 1
  <2>1. clients' = clients - 1 /\ clients = Cardinality(InSessions) /\ clients \in Nat
    BY DEF UserInv, TypeOK, Counted, Exit
  <2>2. Cardinality(InSessions') = Cardinality(InSessions) - 1 /\ Cardinality(InSessions) > 0
    BY <1>1, OneGoesOut
  <2> QED
    BY <2>1, <2>2
<1>3. InSessions' = {} \/ clients # 1
  <2>1. IsFiniteSet(InSessions')
    BY <1>1, FiniteSessions, FS_RemoveElement
  <2> QED
    BY <1>2, <2>1, FS_EmptySet
<1> USE ImapUserAssumption
    DEF UserInv, TypeOK, LoggedIn, Exit, Out, Go, eventVars, pollVars
<1>4. TypeOK'
  BY <1>2
<1>5. MutexesHeld'
  BY DEF MutexesHeld, BackendLocked
<1>6. Named' /\ UserAlive'
  BY <1>2 DEF MutexesHeld, BackendLocked, Named, UserAlive
<1>7. Counted'
  <2>1. InSessions' = {} \/ user' = user
    BY <1>3
  <2>2. \A r \in InSessions' : name'[r] = name[r]
    BY <1>1 DEF InSessions
  <2> QED
    BY <1>1, <1>2, <2>1, <2>2 DEF Counted
<1> QED
  BY <1>4, <1>5, <1>6, <1>7

\* The last one closes the file of the user it has unregistered.
LEMMA CloseStep ==
  ASSUME UserInv, NEW s \in Sessions, Close(s)
  PROVE  UserInv'
<1> USE ImapUserAssumption
    DEF UserInv, LoggedIn, Close, Out, Go, pollVars
<1>1. TypeOK'
  <2>1. late' \in BOOLEAN
    BY DEF TypeOK
  <2> QED
    BY <2>1 DEF TypeOK
<1>2. MutexesHeld' /\ Named' /\ UserAlive'
  BY DEF TypeOK, MutexesHeld, BackendLocked, Named, UserAlive
<1>3. Counted'
  BY CountedKept DEF TypeOK, InSessions
<1> QED
  BY <1>1, <1>2, <1>3

\* What a session does while it is logged in, short of leaving.
LEMMA InnerStep ==
  ASSUME UserInv, NEW s \in Sessions,
         \/ Leave(s) \/ LockToLeave(s) \/ Poll(s) \/ Wait(s) \/ Notify(s)
         \/ Search(s) \/ InitBox(s) \/ ListBox(s) \/ ListFails(s)
         \/ Begin(s) \/ Scan(s) \/ Match(s) \/ MatchFlags(s)
  PROVE  UserInv'
<1> USE ImapUserAssumption
    DEF UserInv, TypeOK, LoggedIn, Leave, LockToLeave, Poll, Wait, Notify, Search, InitBox,
        ListBox, ListFails, Begin, Scan, Match, MatchFlags, Command, Grow, Commit, Go,
        lockVars, userVars, eventVars, pollVars
<1>1. TypeOK'
  OBVIOUS
<1>2. MutexesHeld' /\ Named' /\ UserAlive'
  BY DEF MutexesHeld, BackendLocked, Named, UserAlive
<1>3. Counted'
  BY CountedKept DEF InSessions
<1> QED
  BY <1>1, <1>2, <1>3

\* The goroutines of the events leave the sessions where they are.
LEMMA EventStepInv ==
  ASSUME UserInv, EventStep
  PROVE  UserInv'
<1> USE ImapUserAssumption
    DEF UserInv, Handle, Name, Flag, NotifyLater, NameLate, Refresh, LockToReset, Reset,
        ResetMessages, LockToRenew, RenewBoxes, Consume, Write, Grow, Commit,
        ReceiverGo, FetchOk, Forget, FetchError, Send, Tick, TakePoll, NotifyNobody, EventStep,
        lockVars, userVars, eventVars, pollVars
<1>1. UNCHANGED <<pc, name, be, user, clients, file>> /\ (consumer = "off" <=> consumer' = "off")
  OBVIOUS
<1>2. TypeOK'
  <2>1. pollers' \in 0 .. MaxPollers /\ notifiers' \in 0 .. MaxNotifiers
    BY DEF TypeOK
  <2>2. /\ ul' \in {ul, Nobody, Events} /\ ml' \in {ml, Nobody, Events}
        /\ writer' \in {writer, Nobody, Events}
    OBVIOUS
  <2>3. /\ consumer' \in {"off", "ranging", "handling", "naming", "flagging", "notifying",
                          "resetting", "emptying", "clearing", "renewing", "mapping"}
        /\ receiver' \in {"none", "fetching", "sending", "waiting", "ended"}
    BY DEF TypeOK
  <2>4. late' \in BOOLEAN /\ crashed' \in BOOLEAN
    BY DEF TypeOK
  <2> QED
    BY <1>1, <2>1, <2>2, <2>3, <2>4 DEF TypeOK
<1>3. MutexesHeld'
  <2>1. /\ ul' = Events <=> consumer' \in {"resetting", "emptying", "mapping"}
        /\ ml' = Events <=> consumer' = "emptying"
        /\ writer' = Events => consumer' \in {"handling", "emptying", "clearing", "mapping"}
    BY DEF TypeOK, MutexesHeld
  <2>2. \A s \in Sessions :
          (ul' = s <=> ul = s) /\ (ml' = s <=> ml = s) /\ (writer' = s => writer = s)
    BY DEF TypeOK, MutexesHeld
  <2> QED
    BY <1>1, <2>1, <2>2 DEF MutexesHeld
<1>4. Named' /\ UserAlive'
  BY <1>1 DEF TypeOK, Named, UserAlive
<1>5. Counted'
  BY <1>1, CountedKept DEF InSessions
<1> QED
  BY <1>2, <1>3, <1>4, <1>5

\* Every step keeps the invariant.
LEMMA UserStep == UserInv /\ [Next]_vars => UserInv'
<1> SUFFICES ASSUME UserInv, [Next]_vars PROVE UserInv'
  OBVIOUS
<1>1. ASSUME NEW s \in Sessions, SessionStep(s) PROVE UserInv'
  BY <1>1, LoginStep, EnterStep, JoinStep, FetchStep, OpenStep, OpenFailsStep, ExitStep,
     CloseStep, InnerStep
  DEF SessionStep
<1>2. CASE UNCHANGED vars
  BY <1>2 DEF vars, lockVars, userVars, eventVars, pollVars, UserInv, TypeOK, MutexesHeld,
              Named, UserAlive, Counted, InSessions
<1> QED
  BY <1>1, <1>2, EventStepInv DEF Next

-----------------------------------------------------------------------------
(* The theorems.                                                            *)

\* The inductive invariant of logins, logouts and events.
THEOREM UserInvariant == Spec => []UserInv
BY InitUserInv, UserStep, PTL DEF Spec

\* Every variable keeps its type; in particular numClients, which Logout counts
\* down, is never negative.
THEOREM UserTypeCorrect == Spec => []TypeOK
<1>1. UserInv => TypeOK
  BY DEF UserInv
<1> QED
  BY <1>1, UserInvariant, PTL

\* No session that is logged in finds its user gone from be.users, its file
\* closed or its events goroutine over, whoever logs in and out meanwhile.  It
\* does not say that anybody sends to that goroutine: the receiver a login
\* registers with may have ended.
THEOREM SessionsAreServed == Spec => []SessionsServed
<1>1. UserInv => SessionsServed
  <2> SUFFICES ASSUME UserInv PROVE SessionsServed
    OBVIOUS
  <2>1. InSessions # {} => clients > 0
    BY FiniteSessions DEF UserInv, Counted
  <2> QED
    BY <2>1 DEF UserInv, Counted, UserAlive, InSessions, SessionsServed
<1> QED
  BY <1>1, UserInvariant, PTL

\* The critical sections of the backend's mutex, of the user's and of the
\* mailbox's exclude one another, each is left with its mutex free, and nobody
\* leaves a write transaction unfinished.
THEOREM MutexesAreHeld == Spec => []MutexesHeld
<1>1. UserInv => MutexesHeld
  BY DEF UserInv
<1> QED
  BY <1>1, UserInvariant, PTL

-----------------------------------------------------------------------------
(* The health monitor: the invariant.                                      *)

\* The counters of failures are those of the history: the number of failures
\* since the last success, and the age of the first of them.
FailuresCounted ==
  /\ Len(failures) = consecutiveFails
  /\ consecutiveFails > 0 => failures[1] = firstFailureAge

HealthInv ==
  /\ HealthTypeOK
  /\ LoginsCovered
  /\ FailuresCounted
  /\ RestartJustified

-----------------------------------------------------------------------------
(* Ages, and the logins in progress.                                        *)

\* An age that grows stays an age, and no time passes of what never was.
LEMMA OlderType ==
  ASSUME NEW bound \in Nat \ {0}, NEW age \in Age(bound) \cup {Zero}
  PROVE  /\ Older(age, bound) \in Age(bound) \cup {Zero}
         /\ Older(age, bound) = Zero <=> age = Zero
         /\ age \in Age(bound) => Older(age, bound) \in Age(bound)
BY DEF Older, Age, Zero

\* Time does not overtake: what was older stays older.
LEMMA OlderMonotone ==
  ASSUME NEW bound \in Nat \ {0}, NEW a \in Age(bound), NEW b \in Age(bound), a >= b
  PROVE  Older(a, bound) >= Older(b, bound)
BY DEF Older, Age, Zero

\* The logins in progress can be counted.
LEMMA FiniteLogins ==
  /\ IsFiniteSet(InProgress)
  /\ Cardinality(InProgress) \in Nat
  /\ Cardinality(InProgress) = 0 <=> InProgress = {}
<1>1. InProgress \in SUBSET Logins /\ IsFiniteSet(Logins)
  BY BridgeHealthAssumption DEF InProgress
<1>2. IsFiniteSet(InProgress)
  BY <1>1, FS_Subset
<1> QED
  BY <1>2, FS_CardinalityType, FS_EmptySet

-----------------------------------------------------------------------------
(* The initial state and the steps.                                        *)

\* The invariant holds at the start: no failure, no login.
LEMMA InitHealthInv == HealthInit => HealthInv
<1> SUFFICES ASSUME HealthInit PROVE HealthInv
  OBVIOUS
<1>1. HealthTypeOK
  BY BridgeHealthAssumption, EmptySeq DEF HealthInit, HealthTypeOK, Zero, Age
<1>2. LoginsCovered
  <2>1. InProgress = {}
    BY DEF HealthInit, InProgress
  <2> QED
    BY <2>1, FS_EmptySet DEF HealthInit, LoginsCovered
<1>3. FailuresCounted /\ RestartJustified
  BY EmptySeq DEF HealthInit, FailuresCounted, RestartJustified
<1> QED
  BY <1>1, <1>2, <1>3 DEF HealthInv

\* A success resets the counters and the history alike.
LEMMA SuccessStep == HealthInv /\ exited = "no" /\ ObserveSuccess => HealthInv'
<1> SUFFICES ASSUME HealthInv, exited = "no", ObserveSuccess PROVE HealthInv'
  OBVIOUS
<1>1. HealthTypeOK'
  BY BridgeHealthAssumption, EmptySeq
  DEF HealthInv, HealthTypeOK, ObserveSuccess, loginVars, Zero, Age
<1>2. LoginsCovered'
  BY DEF HealthInv, LoginsCovered, InProgress, ObserveSuccess, loginVars
<1>3. FailuresCounted' /\ RestartJustified'
  BY EmptySeq DEF FailuresCounted, RestartJustified, ObserveSuccess, loginVars
<1> QED
  BY <1>1, <1>2, <1>3 DEF HealthInv

\* A failure counts only if it is one the bridge may recover from.
LEMMA FailureStep ==
  ASSUME HealthInv, exited = "no", NEW path, NEW err, ObserveFailure(path, err)
  PROVE  HealthInv'
<1>1. failures \in Seq(Age(MinimumAge)) /\ 0 \in Age(MinimumAge)
  BY BridgeHealthAssumption DEF HealthInv, HealthTypeOK, Age
<1>2. /\ failures' \in Seq(Age(MinimumAge))
      /\ Len(failures') = Len(failures) + 1
      /\ Len(failures) > 0 => failures'[1] = failures[1]
      /\ Len(failures) = 0 => failures'[1] = 0
  BY <1>1, AppendProperties, LenProperties DEF ObserveFailure
<1>3. HealthTypeOK'
  BY <1>2, BridgeHealthAssumption
  DEF HealthInv, HealthTypeOK, ObserveFailure, loginVars, Zero, Age
<1>4. LoginsCovered'
  BY DEF HealthInv, LoginsCovered, InProgress, ObserveFailure, loginVars
<1>5. FailuresCounted'
  BY <1>2 DEF HealthInv, HealthTypeOK, FailuresCounted, ObserveFailure, loginVars, Zero, Age
<1>6. RestartJustified'
  BY DEF RestartJustified, ObserveFailure, loginVars
<1> QED
  BY <1>3, <1>4, <1>5, <1>6 DEF HealthInv

\* Who begins is the youngest: the clock, if it runs, is ahead of it.
LEMMA BeginStep ==
  ASSUME HealthInv, exited = "no", NEW l \in Logins, BeginIMAPOperation(l)
  PROVE  HealthInv'
<1>1. HealthTypeOK'
  BY BridgeHealthAssumption
  DEF HealthInv, HealthTypeOK, BeginIMAPOperation, requestVars, Zero, Age
<1>2. LoginsCovered'
  <2>1. InProgress' = InProgress \cup {l} /\ l \notin InProgress
    BY DEF HealthInv, HealthTypeOK, InProgress, BeginIMAPOperation, Zero
  <2>2. Cardinality(InProgress') = Cardinality(InProgress) + 1
    BY <2>1, FiniteLogins, FS_AddElement
  <2>3. \A m \in InProgress' : oldestIMAPOpAge' >= loginAge'[m]
    <3>1. CASE activeIMAPOps = 0
      <4>1. InProgress' = {l}
        BY <2>1, <3>1, FiniteLogins DEF HealthInv, LoginsCovered
      <4> QED
        BY <3>1, <4>1 DEF HealthInv, HealthTypeOK, BeginIMAPOperation
    <3>2. CASE activeIMAPOps # 0
      <4>1. PICK k \in InProgress : TRUE
        BY <3>2, FiniteLogins DEF HealthInv, LoginsCovered
      <4>2. oldestIMAPOpAge >= loginAge[k] /\ loginAge[k] \in Nat
        BY <4>1 DEF HealthInv, LoginsCovered, HealthTypeOK, InProgress, Age
      <4>3. oldestIMAPOpAge \in Int /\ oldestIMAPOpAge >= 0
        BY <4>2 DEF HealthInv, HealthTypeOK, Age, Zero
      <4> QED
        BY <2>1, <3>2, <4>3
        DEF HealthInv, HealthTypeOK, LoginsCovered, InProgress, BeginIMAPOperation
    <3> QED
      BY <3>1, <3>2
  <2> QED
    BY <2>2, <2>3 DEF HealthInv, LoginsCovered, BeginIMAPOperation
<1>3. FailuresCounted' /\ RestartJustified'
  BY DEF HealthInv, FailuresCounted, RestartJustified, BeginIMAPOperation, requestVars
<1> QED
  BY <1>1, <1>2, <1>3 DEF HealthInv

\* Who ends leaves the clock to the others, and stops it when there are none.
LEMMA EndStep ==
  ASSUME HealthInv, exited = "no", NEW l \in Logins, EndIMAPOperation(l)
  PROVE  HealthInv'
<1>1. InProgress' = InProgress \ {l} /\ l \in InProgress
  BY DEF HealthInv, HealthTypeOK, InProgress, EndIMAPOperation
<1>2. Cardinality(InProgress') = Cardinality(InProgress) - 1 /\ Cardinality(InProgress) > 0
  BY <1>1, FiniteLogins, FS_RemoveElement
<1>3. activeIMAPOps' = activeIMAPOps - 1 /\ activeIMAPOps' \in Nat
  BY <1>2, FiniteLogins DEF HealthInv, LoginsCovered, HealthTypeOK, EndIMAPOperation
<1>4. HealthTypeOK'
  BY <1>3, BridgeHealthAssumption
  DEF HealthInv, HealthTypeOK, EndIMAPOperation, requestVars, Zero, Age
<1>5. LoginsCovered'
  <2>1. activeIMAPOps' = Cardinality(InProgress')
    BY <1>2, <1>3 DEF HealthInv, LoginsCovered
  <2>2. CASE activeIMAPOps' = 0
    <3>1. IsFiniteSet(InProgress')
      BY <1>1, FiniteLogins, FS_RemoveElement
    <3>2. InProgress' = {}
      BY <2>1, <2>2, <3>1, FS_EmptySet
    <3> QED
      BY <2>1, <3>2 DEF LoginsCovered
  <2>3. CASE activeIMAPOps' # 0
    <3>1. \A m \in InProgress' : loginAge'[m] = loginAge[m]
      BY <1>1 DEF HealthInv, HealthTypeOK, EndIMAPOperation, InProgress
    <3> QED
      BY <1>1, <2>1, <2>3, <3>1 DEF HealthInv, LoginsCovered, EndIMAPOperation
  <2> QED
    BY <2>2, <2>3
<1>6. FailuresCounted' /\ RestartJustified'
  BY DEF HealthInv, FailuresCounted, RestartJustified, EndIMAPOperation, requestVars
<1> QED
  BY <1>4, <1>5, <1>6 DEF HealthInv

\* The watchdog reads the counters, which are those of the history.
LEMMA WatchdogStep == HealthInv /\ exited = "no" /\ Watchdog => HealthInv'
<1> SUFFICES ASSUME HealthInv, exited = "no", Watchdog PROVE HealthInv'
  OBVIOUS
<1>1. HealthTypeOK' /\ LoginsCovered' /\ FailuresCounted'
  BY DEF HealthInv, HealthTypeOK, LoginsCovered, InProgress, FailuresCounted, Watchdog,
    requestVars, loginVars
<1>2. RestartJustified'
  <2>1. CASE Stalled
    BY <2>1 DEF Watchdog, RestartJustified
  <2>2. CASE ~Stalled
    <3>1. consecutiveFails >= FailureThreshold /\ firstFailureAge >= MinimumAge
      BY <2>2 DEF Watchdog, Failing
    <3>2. Len(failures) = consecutiveFails /\ consecutiveFails \in Nat
      BY DEF HealthInv, HealthTypeOK, FailuresCounted
    <3>3. failures[1] = firstFailureAge
      BY <3>1, <3>2, BridgeHealthAssumption DEF HealthInv, FailuresCounted
    <3>4. failures' = failures
      BY DEF Watchdog, requestVars
    <3> QED
      BY <3>1, <3>2, <3>3, <3>4 DEF RestartJustified
  <2> QED
    BY <2>1, <2>2
<1> QED
  BY <1>1, <1>2 DEF HealthInv

\* Time passes for the clocks of the monitor and for the history alike.
LEMMA TickStep == HealthInv /\ exited = "no" /\ TimePasses => HealthInv'
<1> SUFFICES ASSUME HealthInv, exited = "no", TimePasses PROVE HealthInv'
  OBVIOUS
<1>1. /\ failures' \in Seq(Age(MinimumAge))
      /\ Len(failures') = Len(failures)
      /\ Len(failures) > 0 => failures'[1] = Older(failures[1], MinimumAge)
  <2>1. /\ DOMAIN failures = 1 .. Len(failures) /\ Len(failures) \in Nat
        /\ \A i \in DOMAIN failures : failures[i] \in Age(MinimumAge)
    BY LenProperties, ElementOfSeq DEF HealthInv, HealthTypeOK
  <2>2. failures' = [i \in 1 .. Len(failures) |-> Older(failures[i], MinimumAge)]
    BY <2>1 DEF TimePasses
  <2>3. \A i \in 1 .. Len(failures) : Older(failures[i], MinimumAge) \in Age(MinimumAge)
    BY <2>1, OlderType, BridgeHealthAssumption
  <2>4. failures' \in [1 .. Len(failures) -> Age(MinimumAge)]
    BY <2>2, <2>3
  <2> QED
    BY <2>1, <2>2, <2>4, SeqDef, LenProperties
<1>2. HealthTypeOK'
  <2>1. loginAge' \in [Logins -> Age(StallTimeout) \cup {Zero}]
    BY OlderType, BridgeHealthAssumption DEF HealthInv, HealthTypeOK, TimePasses
  <2>2. /\ firstFailureAge' \in Age(MinimumAge) \cup {Zero}
        /\ lastSuccessAge' \in Age(MinimumAge) \cup {Zero}
        /\ oldestIMAPOpAge' \in Age(StallTimeout) \cup {Zero}
        /\ firstFailureAge' = Zero <=> firstFailureAge = Zero
    BY OlderType, BridgeHealthAssumption DEF HealthInv, HealthTypeOK, TimePasses
  <2> QED
    BY <1>1, <2>1, <2>2 DEF HealthInv, HealthTypeOK, TimePasses
<1>3. LoginsCovered'
  <2>1. /\ \A l \in Logins : loginAge'[l] = Older(loginAge[l], StallTimeout)
        /\ oldestIMAPOpAge' = Older(oldestIMAPOpAge, StallTimeout)
    BY DEF TimePasses
  <2>2. InProgress' = InProgress
    BY <2>1, OlderType, BridgeHealthAssumption DEF HealthInv, HealthTypeOK, InProgress
  <2>3. ASSUME NEW l \in InProgress
        PROVE  oldestIMAPOpAge' >= loginAge'[l]
    <3>1. l \in Logins /\ loginAge[l] \in Age(StallTimeout) /\ oldestIMAPOpAge >= loginAge[l]
      BY DEF HealthInv, HealthTypeOK, LoginsCovered, InProgress
    <3>2. oldestIMAPOpAge \in Age(StallTimeout)
      BY <3>1 DEF HealthInv, HealthTypeOK, Age, Zero
    <3> QED
      BY <2>1, <3>1, <3>2, OlderMonotone, BridgeHealthAssumption
  <2> QED
    BY <2>2, <2>3 DEF HealthInv, LoginsCovered, TimePasses
<1>4. FailuresCounted'
  BY <1>1 DEF HealthInv, HealthTypeOK, FailuresCounted, TimePasses
<1>5. RestartJustified'
  BY DEF RestartJustified, TimePasses
<1> QED
  BY <1>2, <1>3, <1>4, <1>5 DEF HealthInv

\* Every step keeps the invariant.
LEMMA StepHealthInv == HealthInv /\ [HealthNext]_healthVars => HealthInv'
<1> SUFFICES ASSUME HealthInv, [HealthNext]_healthVars PROVE HealthInv'
  OBVIOUS
<1>1. CASE HealthNext
  BY <1>1, SuccessStep, FailureStep, BeginStep, EndStep, WatchdogStep, TickStep DEF HealthNext
<1>2. CASE UNCHANGED healthVars
  BY <1>2
  DEF HealthInv, HealthTypeOK, LoginsCovered, InProgress, FailuresCounted, RestartJustified,
    healthVars, requestVars, loginVars
<1> QED
  BY <1>1, <1>2

-----------------------------------------------------------------------------
(* The theorems.                                                           *)

\* The monitor's counters are those of the history, for any number of logins
\* and any thresholds (bridgeHealthMonitor).
THEOREM HealthInvariant == HealthSpec => []HealthInv
<1> QED
  BY InitHealthInv, StepHealthInv, PTL DEF HealthSpec

\* A login that hangs cannot hide behind others that come and go: the clock of
\* the monitor is at least as old as every login in progress.
THEOREM NoLoginHidden == HealthSpec => []LoginsCovered
<1>1. HealthInv => LoginsCovered
  BY DEF HealthInv
<1> QED
  BY <1>1, HealthInvariant, PTL

\* The watchdog gives the process up for API failures only after as many
\* recoverable failures in a row as the threshold asks for, over the minimum
\* age.
THEOREM RestartsAreJustified == HealthSpec => []RestartJustified
<1>1. HealthInv => RestartJustified
  BY DEF HealthInv
<1> QED
  BY <1>1, HealthInvariant, PTL
=============================================================================
