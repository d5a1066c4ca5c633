-------------------------- MODULE EventStreamProofs --------------------------
(***************************************************************************)
(* Proofs about EventStream, for every number of subscribers, receivers    *)
(* and events.  The invariant says which channels a receiver has: those of *)
(* the subscribers it is the home of, until their removal is over.         *)
(***************************************************************************)
EXTENDS EventStream, SequenceTheorems, TLAPS

\* A registration whose channel is still in place.
Registered(s) == state[s] \in {"live", "leaving"}

Running(r) == pc[r] \notin {"unborn", "dead"}

-----------------------------------------------------------------------------
(* The inductive invariant.                                                *)

\* A receiver's channels are those of its registered subscribers, each once.
ChannelsOK ==
  \A r \in Receivers :
    /\ \A i \in DOMAIN channels[r] :
         home[channels[r][i]] = r /\ Registered(channels[r][i])
    /\ \A i, j \in DOMAIN channels[r] : channels[r][i] = channels[r][j] => i = j

\* What is left to send to is registered, and only while the lock is held.
UnsentOK ==
  \A r \in Receivers :
    /\ pc[r] # "sending" => unsent[r] = << >>
    /\ \A i \in DOMAIN unsent[r] : home[unsent[r][i]] = r /\ Registered(unsent[r][i])

\* The receiver in the map is the one that runs.
CurrentOK ==
  /\ \A r \in Receivers : Running(r) => r = current
  /\ current # NoReceiver => Running(current)

\* Who is registered has a channel at home, which serves the punctual.
HomeOK ==
  \A s \in Subscribers : Registered(s) =>
    /\ home[s] \in Receivers
    /\ \E i \in DOMAIN channels[home[s]] : channels[home[s]][i] = s
    /\ pc[home[s]] # "unborn"
    /\ ~late[s] => Running(home[s]) /\ pc[home[s]] # "ending"

\* Events come from the account, and those asked for with "latest" carry nothing.
EventsOK ==
  \A r \in Receivers :
    /\ event[r].from <= event[r].id /\ event[r].id <= head
    /\ event[r].latest => event[r].from = event[r].id

StreamInv == TypeOK /\ ChannelsOK /\ UnsentOK /\ CurrentOK /\ HomeOK /\ EventsOK

-----------------------------------------------------------------------------
(* Taking a channel out (Register's done goroutine).                       *)

\* The others stay, and the one that leaves is gone.
LEMMA RemovedChannels ==
  ASSUME NEW S, NEW chans \in Seq(S), NEW s,
         \A i, j \in DOMAIN chans : chans[i] = chans[j] => i = j
  PROVE  LET rest == Removed(chans, s) IN
         /\ rest \in Seq(S)
         /\ \A i \in DOMAIN rest :
              rest[i] # s /\ \E j \in DOMAIN chans : chans[j] = rest[i]
         /\ \A i, j \in DOMAIN rest : rest[i] = rest[j] => i = j
         /\ \A j \in DOMAIN chans :
              chans[j] # s => \E i \in DOMAIN rest : rest[i] = chans[j]
<1> DEFINE rest == Removed(chans, s)
<1> DEFINE at == {i \in DOMAIN chans : chans[i] = s}
<1>1. CASE at = {}
  BY <1>1 DEF Removed
<1>2. CASE at # {}
  <2> DEFINE i == CHOOSE i \in at : TRUE
             left == SubSeq(chans, 1, i - 1)
             right == SubSeq(chans, i + 1, Len(chans))
  <2>1. i \in at
    BY <1>2
  <2>2. /\ Len(chans) \in Nat /\ DOMAIN chans = 1 .. Len(chans)
        /\ i \in 1 .. Len(chans) /\ chans[i] = s
        /\ \A k \in 1 .. Len(chans) : chans[k] \in S
    BY <2>1, LenProperties, ElementOfSeq
  <2> HIDE DEF i
  <2>3. /\ left \in Seq(S) /\ Len(left) = i - 1
        /\ \A k \in 1 .. i - 1 : left[k] = chans[k]
    <3>1. \A k \in 1 .. i - 1 : chans[k] \in S
      BY <2>2
    <3>2. i - 1 \in Int /\ 1 \in Int
      BY <2>2
    <3>3. /\ left \in Seq(S)
          /\ Len(left) = IF 1 <= i - 1 THEN i - 1 - 1 + 1 ELSE 0
          /\ \A k \in 1 .. i - 1 - 1 + 1 : left[k] = chans[1 + k - 1]
      BY <3>1, <3>2, SubSeqProperties
    <3> QED
      BY <2>2, <3>3
  <2>4. /\ right \in Seq(S) /\ Len(right) = Len(chans) - i
        /\ \A k \in 1 .. Len(chans) - i : right[k] = chans[k + i]
    <3>1. \A k \in i + 1 .. Len(chans) : chans[k] \in S
      BY <2>2
    <3>2. i + 1 \in Int /\ Len(chans) \in Int
      BY <2>2
    <3>3. /\ right \in Seq(S)
          /\ Len(right) = IF i + 1 <= Len(chans) THEN Len(chans) - (i + 1) + 1 ELSE 0
          /\ \A k \in 1 .. Len(chans) - (i + 1) + 1 : right[k] = chans[i + 1 + k - 1]
      BY <3>1, <3>2, SubSeqProperties
    <3> QED
      BY <2>2, <3>3
  <2>5. rest = left \o right
    BY <1>2 DEF Removed, i
  <2> HIDE DEF left, right
  <2>6. /\ rest \in Seq(S) /\ Len(rest) = Len(chans) - 1
        /\ \A k \in 1 .. Len(chans) - 1 :
             rest[k] = IF k < i THEN chans[k] ELSE chans[k + 1]
    <3> HIDE DEF rest
    <3>1. /\ rest \in Seq(S) /\ Len(rest) = Len(left) + Len(right)
          /\ \A k \in 1 .. Len(left) + Len(right) :
               rest[k] = IF k <= Len(left) THEN left[k] ELSE right[k - Len(left)]
      BY <2>3, <2>4, <2>5, ConcatProperties
    <3>2. ASSUME NEW k \in 1 .. Len(chans) - 1
          PROVE  rest[k] = IF k < i THEN chans[k] ELSE chans[k + 1]
      <4>1. k \in 1 .. Len(left) + Len(right)
        BY <2>2, <2>3, <2>4
      <4>2. CASE k < i
        BY <2>2, <2>3, <3>1, <4>1, <4>2
      <4>3. CASE k >= i
        <5>1. k - Len(left) \in 1 .. Len(chans) - i /\ k - Len(left) + i = k + 1
          BY <2>2, <2>3, <4>3
        <5> QED
          BY <2>2, <2>3, <2>4, <3>1, <4>1, <4>3, <5>1
      <4> QED
        BY <2>2, <4>2, <4>3
    <3> QED
      BY <2>2, <2>3, <2>4, <3>1, <3>2
  <2>7. DOMAIN rest = 1 .. Len(chans) - 1
    BY <2>6, LenProperties
  <2> HIDE DEF rest
  <2>8. ASSUME NEW k \in DOMAIN rest
        PROVE  rest[k] # s /\ \E j \in DOMAIN chans : chans[j] = rest[k]
    BY <2>2, <2>6, <2>7
  <2>9. ASSUME NEW j \in DOMAIN rest, NEW k \in DOMAIN rest, rest[j] = rest[k]
        PROVE  j = k
    <3> DEFINE from(n) == IF n < i THEN n ELSE n + 1
    <3>1. \A n \in DOMAIN rest : from(n) \in DOMAIN chans /\ rest[n] = chans[from(n)]
      BY <2>2, <2>6, <2>7
    <3>2. \A m, n \in DOMAIN rest : from(m) = from(n) => m = n
      BY <2>2, <2>7
    <3> HIDE DEF from
    <3>3. chans[from(j)] = chans[from(k)]
      BY <2>9, <3>1
    <3>4. from(j) = from(k)
      BY <2>2, <3>1, <3>3
    <3> QED
      BY <3>2, <3>4
  <2>10. ASSUME NEW j \in DOMAIN chans, chans[j] # s
         PROVE  \E k \in DOMAIN rest : rest[k] = chans[j]
    <3>1. CASE j < i
      BY <2>2, <2>6, <2>7, <3>1
    <3>2. CASE j > i
      <4>1. j - 1 \in DOMAIN rest /\ rest[j - 1] = chans[j]
        BY <2>2, <2>6, <2>7, <3>2
      <4> QED
        BY <4>1
    <3> QED
      BY <2>2, <2>10, <3>1, <3>2
  <2> QED
    BY <2>6, <2>8, <2>9, <2>10 DEF rest
<1> QED
  BY <1>1, <1>2

-----------------------------------------------------------------------------
(* The initial state and the steps.                                        *)

\* The invariant holds before anybody has registered.
LEMMA InitStreamInv == Init => StreamInv
<1> SUFFICES ASSUME Init PROVE StreamInv
  OBVIOUS
<1>1. << >> \in Seq(Subscribers) /\ DOMAIN << >> = {}
  BY EmptySeq
<1>2. TypeOK
  BY <1>1, EventStreamAssumption DEF Init, TypeOK, Event, NoEvent, NoReceiver, NoCursor,
    MaxConsecutiveErrors
<1>3. ChannelsOK /\ UnsentOK /\ HomeOK
  BY <1>1 DEF Init, ChannelsOK, UnsentOK, HomeOK, Registered
<1>4. CurrentOK /\ EventsOK
  BY EventStreamAssumption DEF Init, CurrentOK, EventsOK, Running, NoEvent
<1> QED
  BY <1>2, <1>3, <1>4 DEF StreamInv

\* A step that registers nobody, leaves the channels and the running receivers
\* and sends nothing new keeps the invariant, if it keeps the types.
LEMMA QuietStep ==
  ASSUME StreamInv, TypeOK', EventsOK',
         UNCHANGED <<current, channels, home, late, state>>,
         \A r \in Receivers : Running(r)' <=> Running(r),
         \A r \in Receivers : pc'[r] = "unborn" => pc[r] = "unborn",
         \A r \in Receivers : pc[r] # "ending" => pc'[r] # "ending" \/ channels[r] = << >>,
         \A r \in Receivers : pc'[r] # "sending" => unsent'[r] = << >>,
         \A r \in Receivers : \A i \in DOMAIN unsent'[r] :
           home[unsent'[r][i]] = r /\ Registered(unsent'[r][i])
  PROVE  StreamInv'
<1>1. ChannelsOK'
  BY DEF StreamInv, ChannelsOK, Registered
<1>2. UnsentOK'
  BY DEF UnsentOK, Registered
<1>3. CurrentOK'
  BY DEF StreamInv, CurrentOK, TypeOK, NoReceiver
<1>4. HomeOK'
  <2> SUFFICES ASSUME NEW s \in Subscribers, Registered(s)
               PROVE  /\ home[s] \in Receivers
                      /\ \E i \in DOMAIN channels[home[s]] : channels[home[s]][i] = s
                      /\ pc'[home[s]] # "unborn"
                      /\ ~late[s] => Running(home[s])' /\ pc'[home[s]] # "ending"
    BY DEF HomeOK, Registered
  <2>1. /\ home[s] \in Receivers
        /\ \E i \in DOMAIN channels[home[s]] : channels[home[s]][i] = s
        /\ pc[home[s]] # "unborn"
        /\ ~late[s] => Running(home[s]) /\ pc[home[s]] # "ending"
    BY DEF StreamInv, HomeOK
  <2>2. channels[home[s]] # << >>
    BY <2>1, EmptySeq
  <2> QED
    BY <2>1, <2>2
<1> QED
  BY <1>1, <1>2, <1>3, <1>4 DEF StreamInv

\* The types that most steps leave alone.
LEMMA ReceiverTypes ==
  ASSUME TypeOK, UNCHANGED <<head, current, channels, subscriberVars>>,
         pc' \in [Receivers -> {"unborn", "fetching", "fetched", "sending", "waiting",
                                "ending", "dead"}],
         unsent' \in [Receivers -> Seq(Subscribers)],
         cursor' \in [Receivers -> 0 .. head],
         errors' \in [Receivers -> 0 .. MaxConsecutiveErrors - 1],
         event' \in [Receivers -> Event]
  PROVE  TypeOK'
BY DEF TypeOK, subscriberVars

\* The account changes, which no goroutine has seen yet.
LEMMA NewEventStep == StreamInv /\ NewEvent => StreamInv'
<1> SUFFICES ASSUME StreamInv, NewEvent PROVE StreamInv'
  OBVIOUS
<1>1. TypeOK'
  BY EventStreamAssumption
  DEF StreamInv, TypeOK, NewEvent, receiverVars, subscriberVars, MaxConsecutiveErrors
<1>2. EventsOK'
  <2>1. head \in Int /\ head' = head + 1 /\ event' = event
    BY DEF StreamInv, TypeOK, NewEvent, receiverVars
  <2>2. \A r \in Receivers : event[r].id \in Int /\ event[r].id <= head
    BY DEF StreamInv, TypeOK, EventsOK, Event
  <2> QED
    BY <2>1, <2>2 DEF StreamInv, EventsOK
<1> QED
  BY <1>1, <1>2, QuietStep
  DEF NewEvent, receiverVars, subscriberVars, Running, StreamInv, UnsentOK

\* The receiver's own steps.
LEMMA FetchStep ==
  ASSUME StreamInv, NEW r \in Receivers, FetchOk(r) \/ FetchError(r) \/ Tick(r)
  PROVE  StreamInv'
<1>1. TypeOK' /\ EventsOK'
  <2>1. CASE FetchOk(r)
    <3>1. PICK e \in Answer(cursor[r]) : event' = [event EXCEPT ![r] = e]
                                         /\ cursor' = [cursor EXCEPT ![r] = e.id]
      BY <2>1 DEF FetchOk
    <3>2. /\ e \in Event /\ e.id \in 0 .. head
          /\ e.from <= e.id /\ e.id <= head /\ (e.latest => e.from = e.id)
      <4>1. head \in 1 .. MaxHead /\ cursor[r] \in 0 .. head /\ MaxHead \in Nat
        BY EventStreamAssumption DEF StreamInv, TypeOK
      <4>2. CASE cursor[r] = NoCursor
        <5>1. e = [from |-> head, id |-> head, latest |-> TRUE]
          BY <3>1, <4>2 DEF Answer
        <5> QED
          BY <4>1, <5>1 DEF Event
      <4>3. CASE cursor[r] # NoCursor
        <5>1. PICK i \in cursor[r] .. head :
                e = [from |-> cursor[r], id |-> i, latest |-> FALSE]
          BY <3>1, <4>3 DEF Answer
        <5> QED
          BY <4>1, <5>1 DEF Event
      <4> QED
        BY <4>2, <4>3
    <3>3. EventsOK'
      BY <2>1, <3>1, <3>2 DEF StreamInv, EventsOK, FetchOk, TypeOK
    <3>4. TypeOK'
      <4>1. /\ event' \in [Receivers -> Event] /\ cursor' \in [Receivers -> 0 .. head]
        BY <3>1, <3>2 DEF StreamInv, TypeOK
      <4>2. errors' \in [Receivers -> 0 .. MaxConsecutiveErrors - 1]
        BY <2>1 DEF StreamInv, TypeOK, FetchOk, MaxConsecutiveErrors
      <4>3. pc' \in [Receivers -> {"unborn", "fetching", "fetched", "sending", "waiting",
                                    "ending", "dead"}]
        BY <2>1 DEF StreamInv, TypeOK, FetchOk
      <4> QED
        BY <2>1, <4>1, <4>2, <4>3, ReceiverTypes DEF StreamInv, TypeOK, FetchOk
    <3> QED
      BY <3>3, <3>4
  <2>2. CASE FetchError(r)
    <3> DEFINE last == errors[r] + 1 >= MaxConsecutiveErrors
    <3>a. errors[r] \in 0 .. 2 /\ 0 \in 0 .. head /\ MaxConsecutiveErrors = 3
      BY EventStreamAssumption DEF StreamInv, TypeOK, MaxConsecutiveErrors
    <3>b. errors' \in [Receivers -> 0 .. 2]
      <4>1. errors' = [errors EXCEPT ![r] = IF last THEN 0 ELSE errors[r] + 1]
        BY <2>2 DEF FetchError
      <4>2. (IF last THEN 0 ELSE errors[r] + 1) \in 0 .. 2
        BY <3>a
      <4>3. errors \in [Receivers -> 0 .. 2]
        BY <3>a DEF StreamInv, TypeOK
      <4> HIDE DEF last
      <4> QED
        BY <4>1, <4>2, <4>3
    <3>c. cursor' \in [Receivers -> 0 .. head]
      BY <2>2, <3>a DEF StreamInv, TypeOK, FetchError, NoCursor
    <3>d. errors' \in [Receivers -> 0 .. MaxConsecutiveErrors - 1]
      BY <3>a, <3>b
    <3>1. TypeOK'
      BY <2>2, <3>c, <3>d, ReceiverTypes DEF StreamInv, TypeOK, FetchError
    <3> QED
      BY <2>2, <3>1 DEF StreamInv, EventsOK, FetchError
  <2>3. CASE Tick(r)
    <3>1. TypeOK'
      BY <2>3, ReceiverTypes DEF StreamInv, TypeOK, Tick
    <3> QED
      BY <2>3, <3>1 DEF StreamInv, EventsOK, Tick
  <2> QED
    BY <2>1, <2>2, <2>3
<1>2. /\ pc[r] \in {"fetching", "waiting"} /\ pc'[r] \in {"fetching", "fetched", "waiting"}
      /\ \A q \in Receivers : q # r => pc'[q] = pc[q]
      /\ UNCHANGED <<unsent, current, channels, home, late, state>>
  BY DEF StreamInv, TypeOK, FetchOk, FetchError, Tick, subscriberVars
<1> QED
  BY <1>1, <1>2, QuietStep DEF Running, StreamInv, UnsentOK

\* A receiver takes its lock to send an event to the channels registered then.
LEMMA LockStep ==
  ASSUME StreamInv, NEW r \in Receivers, LockChannels(r)
  PROVE  StreamInv'
<1>1. TypeOK' /\ EventsOK'
  <2>1. TypeOK'
    BY ReceiverTypes DEF StreamInv, TypeOK, LockChannels
  <2> QED
    BY <2>1 DEF StreamInv, EventsOK, LockChannels
<1>2. \A q \in Receivers : \A i \in DOMAIN unsent'[q] :
        home[unsent'[q][i]] = q /\ Registered(unsent'[q][i])
  BY DEF StreamInv, TypeOK, ChannelsOK, UnsentOK, LockChannels
<1>3. /\ pc[r] = "fetched" /\ pc'[r] = "sending"
      /\ \A q \in Receivers : q # r => pc'[q] = pc[q] /\ unsent'[q] = unsent[q]
      /\ UNCHANGED <<current, channels, home, late, state>>
  BY DEF StreamInv, TypeOK, LockChannels, subscriberVars
<1> QED
  BY <1>1, <1>2, <1>3, QuietStep DEF Running, StreamInv, UnsentOK

\* An event is sent on one of the channels that are left.
LEMMA SendStep ==
  ASSUME StreamInv, NEW r \in Receivers, Send(r)
  PROVE  StreamInv'
<1> DEFINE s == Head(unsent[r])
<1>1. /\ unsent[r] \in Seq(Subscribers) /\ unsent[r] # << >> /\ pc[r] = "sending"
      /\ unsent' = [unsent EXCEPT ![r] = Tail(@)] /\ pc' = pc
      /\ busy' = [busy EXCEPT ![s] = TRUE] /\ got' = [got EXCEPT ![s] = event[r].id]
      /\ UNCHANGED <<head, current, channels, cursor, errors, event, home, state, polling, late>>
  BY DEF StreamInv, TypeOK, Send
<1>2. /\ s \in Subscribers /\ Tail(unsent[r]) \in Seq(Subscribers)
      /\ \A i \in DOMAIN Tail(unsent[r]) :
           \E j \in DOMAIN unsent[r] : unsent[r][j] = Tail(unsent[r])[i]
  <2>1. /\ s \in Subscribers /\ Tail(unsent[r]) \in Seq(Subscribers)
        /\ Len(Tail(unsent[r])) = Len(unsent[r]) - 1
        /\ \A i \in 1 .. Len(Tail(unsent[r])) : Tail(unsent[r])[i] = unsent[r][i + 1]
    BY <1>1, HeadTailProperties
  <2>2. /\ DOMAIN unsent[r] = 1 .. Len(unsent[r]) /\ Len(unsent[r]) \in Nat
        /\ DOMAIN Tail(unsent[r]) = 1 .. Len(Tail(unsent[r]))
    BY <1>1, <2>1, LenProperties
  <2>3. ASSUME NEW i \in DOMAIN Tail(unsent[r])
        PROVE  i + 1 \in DOMAIN unsent[r] /\ unsent[r][i + 1] = Tail(unsent[r])[i]
    BY <2>1, <2>2
  <2> QED
    BY <2>1, <2>3
<1>3. event[r].id \in 0 .. head
  BY DEF StreamInv, TypeOK, EventsOK, Event
<1>4. TypeOK' /\ EventsOK'
  BY <1>1, <1>2, <1>3 DEF StreamInv, TypeOK, EventsOK
<1>5. \A q \in Receivers : \A i \in DOMAIN unsent'[q] :
        home[unsent'[q][i]] = q /\ Registered(unsent'[q][i])
  <2>1. /\ unsent'[r] = Tail(unsent[r])
        /\ \A q \in Receivers : q # r => unsent'[q] = unsent[q]
    BY <1>1 DEF StreamInv, TypeOK
  <2>2. \A q \in Receivers : \A i \in DOMAIN unsent[q] :
          home[unsent[q][i]] = q /\ Registered(unsent[q][i])
    BY DEF StreamInv, UnsentOK
  <2>3. \A i \in DOMAIN unsent'[r] :
          home[unsent'[r][i]] = r /\ Registered(unsent'[r][i])
    BY <1>2, <2>1, <2>2
  <2> QED
    BY <2>1, <2>2, <2>3
<1>6. \A q \in Receivers : pc'[q] # "sending" => unsent'[q] = << >>
  BY <1>1 DEF StreamInv, TypeOK, UnsentOK
<1> QED
  BY <1>1, <1>4, <1>5, <1>6, QuietStep DEF Running

\* A receiver that has sent to all gives the lock back.
LEMMA UnlockStep ==
  ASSUME StreamInv, NEW r \in Receivers, UnlockChannels(r)
  PROVE  StreamInv'
<1>1. TypeOK' /\ EventsOK'
  <2>1. TypeOK'
    BY ReceiverTypes DEF StreamInv, TypeOK, UnlockChannels
  <2> QED
    BY <2>1 DEF StreamInv, EventsOK, UnlockChannels
<1>2. /\ pc[r] = "sending" /\ unsent[r] = << >> /\ pc'[r] \in {"waiting", "ending"}
      /\ pc'[r] = "ending" => channels[r] = << >>
      /\ \A q \in Receivers : q # r => pc'[q] = pc[q]
      /\ UNCHANGED <<unsent, current, channels, home, late, state>>
  BY DEF StreamInv, TypeOK, UnlockChannels, subscriberVars
<1> QED
  BY <1>1, <1>2, QuietStep DEF Running, StreamInv, UnsentOK

\* The loop has ended; its receiver leaves the map.
LEMMA ForgetStep ==
  ASSUME StreamInv, NEW r \in Receivers, Forget(r)
  PROVE  StreamInv'
<1>1. /\ pc[r] = "ending" /\ pc' = [pc EXCEPT ![r] = "dead"] /\ current' = NoReceiver
      /\ UNCHANGED <<head, channels, unsent, cursor, errors, event, subscriberVars>>
  BY DEF Forget
<1>2. r = current /\ \A q \in Receivers : q # r => ~Running(q)
  BY <1>1 DEF StreamInv, CurrentOK, Running
<1>3. /\ pc'[r] = "dead" /\ \A q \in Receivers : q # r => pc'[q] = pc[q]
      /\ UNCHANGED <<channels, unsent, event, home, late, state, head>>
  BY <1>1 DEF StreamInv, TypeOK, subscriberVars
<1>4. TypeOK'
  BY <1>1 DEF StreamInv, TypeOK, subscriberVars
<1>5. ChannelsOK' /\ EventsOK'
  BY <1>3 DEF StreamInv, ChannelsOK, EventsOK, Registered
<1>6. UnsentOK'
  BY <1>1, <1>3 DEF StreamInv, UnsentOK, Registered
<1>7. CurrentOK'
  BY <1>1, <1>2, <1>3 DEF CurrentOK, Running
<1>8. HomeOK'
  BY <1>1, <1>2, <1>3 DEF StreamInv, HomeOK, Registered, Running
<1> QED
  BY <1>4, <1>5, <1>6, <1>7, <1>8 DEF StreamInv

-----------------------------------------------------------------------------
(* The subscribers' steps.                                                 *)

\* Polls and handled events do not touch the registrations.
LEMMA PollStep ==
  ASSUME StreamInv, NEW s \in Subscribers, TakePoll(s) \/ Handled(s) \/ Poll(s)
  PROVE  StreamInv'
<1>1. TypeOK' /\ EventsOK'
  BY DEF StreamInv, TypeOK, EventsOK, TakePoll, Handled, Poll, receiverVars
<1>2. /\ \A q \in Receivers : pc'[q] = pc[q] \/ (pc[q] = "waiting" /\ pc'[q] = "fetching")
      /\ UNCHANGED <<unsent, current, channels, home, late, state>>
  BY DEF StreamInv, TypeOK, TakePoll, Handled, Poll, receiverVars
<1> QED
  BY <1>1, <1>2, QuietStep DEF Running, StreamInv, UnsentOK

\* done is closed, and later the channel that nobody has any more.
LEMMA LeaveStep ==
  ASSUME StreamInv, NEW s \in Subscribers, CloseDone(s) \/ CloseChannel(s)
  PROVE  StreamInv'
<1>1. /\ UNCHANGED <<head, current, receiverVars, home, busy, polling, got, late>>
      /\ \/ state[s] = "live" /\ state' = [state EXCEPT ![s] = "leaving"]
         \/ state[s] = "removed" /\ state' = [state EXCEPT ![s] = "closed"]
  BY DEF CloseDone, CloseChannel
<1>2. \A t \in Subscribers : Registered(t)' <=> Registered(t)
  BY <1>1 DEF StreamInv, TypeOK, Registered
<1>3. TypeOK'
  BY <1>1 DEF StreamInv, TypeOK, receiverVars
<1>4. \A q \in Receivers : /\ \A i \in DOMAIN channels[q] : channels[q][i] \in Subscribers
                           /\ \A i \in DOMAIN unsent[q] : unsent[q][i] \in Subscribers
  BY ElementOfSeq, LenProperties DEF StreamInv, TypeOK
<1>5. ChannelsOK' /\ UnsentOK'
  BY <1>1, <1>2, <1>4 DEF StreamInv, ChannelsOK, UnsentOK, receiverVars
<1>6. CurrentOK' /\ EventsOK'
  BY <1>1 DEF StreamInv, CurrentOK, EventsOK, receiverVars, Running
<1>7. HomeOK'
  BY <1>1, <1>2 DEF StreamInv, HomeOK, receiverVars, Running
<1> QED
  BY <1>3, <1>5, <1>6, <1>7 DEF StreamInv

\* Nobody has the channel of who has not registered.
LEMMA NewcomerHasNoChannel ==
  ASSUME StreamInv, NEW s \in Subscribers, state[s] = "new"
  PROVE  /\ \A q \in Receivers : \A i \in DOMAIN channels[q] :
              channels[q][i] \in Subscribers /\ channels[q][i] # s
         /\ \A q \in Receivers : \A i \in DOMAIN unsent[q] :
              unsent[q][i] \in Subscribers /\ unsent[q][i] # s
<1>1. ~Registered(s)
  BY DEF Registered
<1>2. ASSUME NEW q \in Receivers, NEW i \in DOMAIN channels[q]
      PROVE  channels[q][i] \in Subscribers /\ channels[q][i] # s
  <2>1. channels[q] \in Seq(Subscribers)
    BY DEF StreamInv, TypeOK
  <2>2. channels[q][i] \in Subscribers
    BY <2>1, LenProperties, ElementOfSeq
  <2> QED
    BY <1>1, <2>2 DEF StreamInv, ChannelsOK
<1>3. ASSUME NEW q \in Receivers, NEW i \in DOMAIN unsent[q]
      PROVE  unsent[q][i] \in Subscribers /\ unsent[q][i] # s
  <2>1. unsent[q] \in Seq(Subscribers)
    BY DEF StreamInv, TypeOK
  <2>2. unsent[q][i] \in Subscribers
    BY <2>1, LenProperties, ElementOfSeq
  <2> QED
    BY <1>1, <2>2 DEF StreamInv, UnsentOK
<1> QED
  BY <1>2, <1>3

\* Register joins the receiver in the map ...
LEMMA JoinStep ==
  ASSUME StreamInv, NEW s \in Subscribers, RegisterExisting(s)
  PROVE  StreamInv'
<1> DEFINE r == current
           chans == channels[r]
           joined == Append(chans, s)
<1>1. /\ state[s] = "new" /\ r \in Receivers /\ pc[r] # "sending"
      /\ channels' = [channels EXCEPT ![r] = joined]
      /\ home' = [home EXCEPT ![s] = r] /\ state' = [state EXCEPT ![s] = "live"]
      /\ late' = [late EXCEPT ![s] = pc[r] = "ending"]
      /\ UNCHANGED <<head, current, pc, unsent, cursor, errors, event, busy, polling, got>>
  BY DEF StreamInv, TypeOK, RegisterExisting, Unlocked
<1>2. /\ chans \in Seq(Subscribers) /\ Len(chans) \in Nat /\ DOMAIN chans = 1 .. Len(chans)
      /\ joined \in Seq(Subscribers) /\ DOMAIN joined = 1 .. Len(chans) + 1
      /\ joined[Len(chans) + 1] = s
      /\ \A i \in 1 .. Len(chans) : joined[i] = chans[i]
  BY <1>1, AppendProperties, LenProperties DEF StreamInv, TypeOK
<1>3. TypeOK'
  BY <1>1, <1>2 DEF StreamInv, TypeOK
<1>4. /\ \A q \in Receivers : \A i \in DOMAIN channels[q] :
            channels[q][i] \in Subscribers /\ channels[q][i] # s
      /\ \A q \in Receivers : \A i \in DOMAIN unsent[q] :
            unsent[q][i] \in Subscribers /\ unsent[q][i] # s
  BY <1>1, NewcomerHasNoChannel
<1>5. /\ home'[s] = r /\ state'[s] = "live" /\ channels'[r] = joined
      /\ late'[s] <=> pc[r] = "ending"
      /\ \A t \in Subscribers : t # s => /\ home'[t] = home[t] /\ state'[t] = state[t]
                                         /\ late'[t] = late[t]
      /\ \A q \in Receivers : q # r => channels'[q] = channels[q]
  BY <1>1 DEF StreamInv, TypeOK
<1>6. ChannelsOK'
  <2>1. \A q \in Receivers : q # r =>
          /\ \A i \in DOMAIN channels'[q] :
               home'[channels'[q][i]] = q /\ state'[channels'[q][i]] \in {"live", "leaving"}
          /\ \A i, j \in DOMAIN channels'[q] : channels'[q][i] = channels'[q][j] => i = j
    BY <1>4, <1>5 DEF StreamInv, ChannelsOK, Registered
  <2>2. /\ \A i \in DOMAIN chans : home[chans[i]] = r /\ state[chans[i]] \in {"live", "leaving"}
        /\ \A i, j \in DOMAIN chans : chans[i] = chans[j] => i = j
        /\ \A i \in DOMAIN chans : chans[i] \in Subscribers /\ chans[i] # s
    BY <1>1, <1>4 DEF StreamInv, ChannelsOK, Registered
  <2> HIDE DEF chans, joined
  <2>3. \A i \in DOMAIN joined : i \in DOMAIN chans \/ i = Len(chans) + 1
    BY <1>2
  <2>4. \A i \in DOMAIN joined :
          home'[joined[i]] = r /\ state'[joined[i]] \in {"live", "leaving"}
    BY <1>2, <1>5, <2>2, <2>3
  <2>5. \A i, j \in DOMAIN joined : joined[i] = joined[j] => i = j
    BY <1>2, <2>2, <2>3
  <2> QED
    BY <1>5, <2>1, <2>4, <2>5 DEF ChannelsOK, Registered
<1>7. UnsentOK'
  BY <1>1, <1>4, <1>5 DEF StreamInv, UnsentOK, Registered
<1>8. CurrentOK' /\ EventsOK'
  BY <1>1 DEF StreamInv, CurrentOK, EventsOK, Running
<1>9. HomeOK'
  <2>1. /\ Len(chans) + 1 \in DOMAIN channels'[home'[s]] /\ home'[s] \in Receivers
        /\ channels'[home'[s]][Len(chans) + 1] = s
        /\ pc'[home'[s]] # "unborn"
        /\ ~late'[s] => pc'[home'[s]] \notin {"unborn", "dead", "ending"}
    <3>1. Running(r)
      BY <1>1 DEF StreamInv, CurrentOK, NoReceiver, Receivers
    <3> QED
      BY <1>1, <1>2, <1>5, <3>1 DEF Running
  <2>2. ASSUME NEW t \in Subscribers, t # s, state'[t] \in {"live", "leaving"}
        PROVE  /\ home'[t] \in Receivers
               /\ \E i \in DOMAIN channels'[home'[t]] : channels'[home'[t]][i] = t
               /\ pc'[home'[t]] # "unborn"
               /\ ~late'[t] => pc'[home'[t]] \notin {"unborn", "dead", "ending"}
    <3>1. /\ home[t] \in Receivers
          /\ \E i \in DOMAIN channels[home[t]] : channels[home[t]][i] = t
          /\ pc[home[t]] # "unborn"
          /\ ~late[t] => Running(home[t]) /\ pc[home[t]] # "ending"
      BY <1>5, <2>2 DEF StreamInv, HomeOK, Registered
    <3> HIDE DEF chans, joined
    <3>2. \E i \in DOMAIN channels'[home[t]] : channels'[home[t]][i] = t
      <4>1. CASE home[t] = r
        <5>1. channels[r] = chans
          BY DEF chans
        <5>2. PICK i \in DOMAIN chans : chans[i] = t
          BY <3>1, <4>1, <5>1
        <5>3. i \in DOMAIN joined /\ joined[i] = t
          BY <1>2, <5>2
        <5> QED
          BY <1>5, <4>1, <5>3
      <4>2. CASE home[t] # r
        BY <1>5, <3>1, <4>2
      <4> QED
        BY <4>1, <4>2
    <3>3. home'[t] = home[t] /\ late'[t] = late[t] /\ pc' = pc
      BY <1>1, <1>5, <2>2
    <3> QED
      BY <3>1, <3>2, <3>3 DEF Running
  <2> QED
    BY <2>1, <2>2 DEF HomeOK, Running, Registered
<1> QED
  BY <1>3, <1>6, <1>7, <1>8, <1>9 DEF StreamInv

\* ... or starts the first one.
LEMMA FirstStep ==
  ASSUME StreamInv, NEW s \in Subscribers, RegisterFirst(s)
  PROVE  StreamInv'
<1>1. PICK r \in Receivers :
        /\ pc[r] = "unborn" /\ current' = r /\ pc' = [pc EXCEPT ![r] = "fetching"]
        /\ channels' = [channels EXCEPT ![r] = <<s>>] /\ home' = [home EXCEPT ![s] = r]
  BY DEF RegisterFirst
<1>2. /\ state[s] = "new" /\ current = NoReceiver /\ state' = [state EXCEPT ![s] = "live"]
      /\ UNCHANGED <<head, unsent, cursor, errors, event, busy, polling, got, late>>
  BY DEF RegisterFirst
<1>3. <<s>> \in Seq(Subscribers) /\ DOMAIN <<s>> = {1} /\ <<s>>[1] = s
  OBVIOUS
<1>4. TypeOK'
  BY <1>1, <1>2, <1>3 DEF StreamInv, TypeOK
<1>5. /\ \A q \in Receivers : \A i \in DOMAIN channels[q] :
            channels[q][i] \in Subscribers /\ channels[q][i] # s
      /\ \A q \in Receivers : \A i \in DOMAIN unsent[q] :
            unsent[q][i] \in Subscribers /\ unsent[q][i] # s
  BY <1>2, NewcomerHasNoChannel
<1>6. /\ home'[s] = r /\ state'[s] = "live" /\ channels'[r] = <<s>> /\ pc'[r] = "fetching"
      /\ \A t \in Subscribers : t # s => home'[t] = home[t] /\ state'[t] = state[t]
      /\ \A q \in Receivers : q # r => channels'[q] = channels[q] /\ pc'[q] = pc[q]
  BY <1>1, <1>2 DEF StreamInv, TypeOK
<1>7. \A q \in Receivers : ~Running(q)
  BY <1>2 DEF StreamInv, CurrentOK, NoReceiver, Receivers
<1>8. ChannelsOK'
  BY <1>3, <1>5, <1>6 DEF StreamInv, ChannelsOK, Registered
<1>9. UnsentOK'
  <2>1. unsent[r] = << >>
    BY <1>1 DEF StreamInv, UnsentOK
  <2> QED
    BY <1>2, <1>5, <1>6, <2>1 DEF StreamInv, UnsentOK, Registered
<1>10. CurrentOK' /\ EventsOK'
  BY <1>1, <1>2, <1>6, <1>7 DEF StreamInv, CurrentOK, EventsOK, Running
<1>11. \A t \in Subscribers : t # s /\ state[t] \in {"live", "leaving"} => home[t] # r
  \* The channels of an unborn receiver are none.
  <2>1. \A t \in Subscribers : Registered(t) => pc[home[t]] # "unborn"
    BY DEF StreamInv, HomeOK
  <2> QED
    BY <1>1, <2>1 DEF Registered
<1>12. HomeOK'
  BY <1>2, <1>3, <1>6, <1>11 DEF StreamInv, HomeOK, Registered, Running
<1> QED
  BY <1>4, <1>8, <1>9, <1>10, <1>12 DEF StreamInv

\* A channel is taken out, under the lock.
LEMMA UnsubscribeStep ==
  ASSUME StreamInv, NEW s \in Subscribers, Unsubscribe(s)
  PROVE  StreamInv'
<1> DEFINE r == home[s]
           chans == channels[r]
           rest == Removed(chans, s)
<1>1. /\ state[s] = "leaving" /\ pc[r] # "sending" /\ r \in Receivers
      /\ channels' = [channels EXCEPT ![r] = rest] /\ state' = [state EXCEPT ![s] = "removed"]
      /\ UNCHANGED <<head, current, pc, unsent, cursor, errors, event, home, busy, polling,
                     got, late>>
  BY DEF StreamInv, HomeOK, Registered, Unsubscribe, Unlocked
<1>2. /\ chans \in Seq(Subscribers)
      /\ \A i, j \in DOMAIN chans : chans[i] = chans[j] => i = j
      /\ \A i \in DOMAIN chans : home[chans[i]] = r /\ state[chans[i]] \in {"live", "leaving"}
  BY <1>1 DEF StreamInv, TypeOK, ChannelsOK, Registered
<1>3. /\ rest \in Seq(Subscribers)
      /\ \A i \in DOMAIN rest : rest[i] # s /\ \E j \in DOMAIN chans : chans[j] = rest[i]
      /\ \A i, j \in DOMAIN rest : rest[i] = rest[j] => i = j
      /\ \A j \in DOMAIN chans : chans[j] # s => \E i \in DOMAIN rest : rest[i] = chans[j]
  <2> HIDE DEF chans
  <2> QED
    BY <1>2, RemovedChannels
<1> HIDE DEF chans, rest
<1>4. /\ state'[s] = "removed" /\ \A t : t # s => state'[t] = state[t]
      /\ channels'[r] = rest /\ channels[r] = chans
      /\ \A q \in Receivers : q # r => channels'[q] = channels[q]
  BY <1>1 DEF StreamInv, TypeOK, chans
<1>5. TypeOK'
  BY <1>1, <1>3 DEF StreamInv, TypeOK
<1>6. ChannelsOK'
  <2>1. \A i \in DOMAIN rest : home[rest[i]] = r /\ state'[rest[i]] \in {"live", "leaving"}
    BY <1>2, <1>3, <1>4
  <2>2. \A q \in Receivers : q # r => \A i \in DOMAIN channels[q] :
          channels[q][i] # s
    BY DEF StreamInv, ChannelsOK
  <2> QED
    BY <1>1, <1>3, <1>4, <2>1, <2>2 DEF StreamInv, ChannelsOK, Registered
<1>7. UnsentOK'
  <2>1. \A q \in Receivers : \A i \in DOMAIN unsent[q] : unsent[q][i] # s
    BY <1>1, EmptySeq DEF StreamInv, UnsentOK
  <2> QED
    BY <1>1, <1>4, <2>1 DEF StreamInv, UnsentOK, Registered
<1>8. CurrentOK' /\ EventsOK'
  BY <1>1 DEF StreamInv, CurrentOK, EventsOK, Running
<1>9. HomeOK'
  <2>1. ASSUME NEW t \in Subscribers, state'[t] \in {"live", "leaving"}
        PROVE  /\ t # s /\ Registered(t)
               /\ \E i \in DOMAIN channels'[home[t]] : channels'[home[t]][i] = t
    <3>1. t # s /\ state[t] \in {"live", "leaving"}
      BY <1>4, <2>1
    <3>2. home[t] \in Receivers /\ \E i \in DOMAIN channels[home[t]] : channels[home[t]][i] = t
      BY <3>1 DEF StreamInv, HomeOK, Registered
    <3>3. CASE home[t] = r
      BY <1>3, <1>4, <3>1, <3>2, <3>3 DEF Registered
    <3>4. CASE home[t] # r
      BY <1>4, <3>1, <3>2, <3>4 DEF Registered
    <3> QED
      BY <3>3, <3>4
  <2> QED
    BY <1>1, <2>1 DEF StreamInv, HomeOK, Registered, Running
<1> QED
  BY <1>5, <1>6, <1>7, <1>8, <1>9 DEF StreamInv

-----------------------------------------------------------------------------
(* The theorems.                                                           *)

\* Every step keeps the invariant.
LEMMA StepStreamInv == StreamInv /\ [Next]_vars => StreamInv'
<1> SUFFICES ASSUME StreamInv, [Next]_vars PROVE StreamInv'
  OBVIOUS
<1>1. CASE NewEvent
  BY <1>1, NewEventStep
<1>2. ASSUME NEW r \in Receivers, ReceiverStep(r)
      PROVE  StreamInv'
  BY <1>2, FetchStep, LockStep, SendStep, UnlockStep, ForgetStep DEF ReceiverStep
<1>3. ASSUME NEW s \in Subscribers, SubscriberStep(s)
      PROVE  StreamInv'
  BY <1>3, JoinStep, FirstStep, PollStep, LeaveStep, UnsubscribeStep
  DEF SubscriberStep, Register
<1>4. CASE UNCHANGED vars
  BY <1>4
  DEF StreamInv, TypeOK, ChannelsOK, UnsentOK, CurrentOK, HomeOK, EventsOK, Running,
    Registered, vars, receiverVars, subscriberVars
<1> QED
  BY <1>1, <1>2, <1>3, <1>4 DEF Next

\* The registrations, the lock and the map keep the channels in step with the
\* receivers, for any number of subscribers (events.Manager).
THEOREM StreamInvariant == Spec => []StreamInv
<1> QED
  BY InitStreamInv, StepStreamInv, PTL DEF Spec

\* Every variable of the event stream keeps its type.
THEOREM TypeCorrect == Spec => []TypeOK
<1>1. StreamInv => TypeOK
  BY DEF StreamInv
<1> QED
  BY <1>1, StreamInvariant, PTL

\* The receiver never sends on a channel that Register's goroutine has closed,
\* however many subscribers come and go.
THEOREM NeverSendsOnClosed == Spec => []NoSendOnClosed
<1>1. StreamInv => NoSendOnClosed
  BY DEF StreamInv, UnsentOK, NoSendOnClosed, Registered
<1> QED
  BY <1>1, StreamInvariant, PTL

\* Two receivers of one account never run at once.
THEOREM ReceiversExclude == Spec => []OneReceiver
<1>1. StreamInv => OneReceiver
  BY DEF StreamInv, CurrentOK, OneReceiver, Running
<1> QED
  BY <1>1, StreamInvariant, PTL

\* Who registered before the receiver's loop ended has a channel with the
\* receiver in the map, and that one does not end.
THEOREM PunctualAreServed == Spec => []ServedUnlessLate
<1>1. StreamInv => ServedUnlessLate
  BY DEF StreamInv, CurrentOK, HomeOK, ServedUnlessLate, Registered, Running
<1> QED
  BY <1>1, StreamInvariant, PTL

-----------------------------------------------------------------------------
(* No event is skipped.  What a subscriber was sent last is where the next *)
(* event begins: in the receiver's cursor until the next fetch, in the     *)
(* event until that one is sent.                                           *)

Fits(e, n) == e.from = n \/ (e.latest /\ e.from >= n)

\* The receiver of s is in step with s, which has got an event.
InStep(s) ==
  LET r == home[s] IN
  /\ pc[r] \in {"fetching", "waiting", "ending"} => cursor[r] \in {got[s], NoCursor}
  /\ pc[r] = "fetched" => Fits(event[r], got[s])
  /\ pc[r] = "sending" =>
       IF \E i \in DOMAIN unsent[r] : unsent[r][i] = s THEN Fits(event[r], got[s])
                                                      ELSE got[s] = event[r].id

GapOK ==
  /\ \A s \in Subscribers : state[s] = "new" => got[s] = 0
  /\ \A r \in Receivers :
       /\ pc[r] \in {"fetched", "sending"} => cursor[r] = event[r].id
       /\ \A i, j \in DOMAIN unsent[r] : unsent[r][i] = unsent[r][j] => i = j
  /\ \A s \in Subscribers : Registered(s) /\ got[s] # 0 => InStep(s)

\* A step that the receivers have no part in, and that registers nobody.
LEMMA GapQuiet ==
  ASSUME GapOK, UNCHANGED <<pc, unsent, cursor, event, home, got>>,
         \A s \in Subscribers : /\ state'[s] = "new" => state[s] = "new"
                                /\ Registered(s)' => Registered(s)
  PROVE  GapOK'
BY DEF GapOK, InStep

\* A step of the receiver r that only moves it on, or its cursor.
LEMMA GapMove ==
  ASSUME StreamInv, GapOK, NEW r \in Receivers, UNCHANGED <<home, state, got, unsent>>,
         \A q \in Receivers : q # r =>
           pc'[q] = pc[q] /\ cursor'[q] = cursor[q] /\ event'[q] = event[q],
         pc'[r] \in {"fetched", "sending"} => cursor'[r] = event'[r].id,
         \A s \in Subscribers : home[s] = r /\ got[s] # 0 /\ InStep(s) => InStep(s)'
  PROVE  GapOK'
<1>1. \A s \in Subscribers : Registered(s) => home[s] \in Receivers
  BY DEF StreamInv, HomeOK
<1>2. ASSUME NEW s \in Subscribers, Registered(s), got[s] # 0
      PROVE  InStep(s)'
  <2>1. InStep(s)
    BY <1>2 DEF GapOK
  <2>2. CASE home[s] = r
    BY <1>2, <2>1, <2>2
  <2>3. CASE home[s] # r
    BY <1>1, <1>2, <2>1, <2>3 DEF InStep
  <2> QED
    BY <2>2, <2>3
<1> QED
  BY <1>2 DEF GapOK, Registered

\* What is fetched begins where the cursor was, or says that it does not.
LEMMA GapFetch ==
  ASSUME StreamInv, GapOK, NEW r \in Receivers,
         FetchOk(r) \/ FetchError(r) \/ Tick(r) \/ UnlockChannels(r) \/ Forget(r)
  PROVE  GapOK'
<1>1. UNCHANGED <<home, state, got, unsent>>
  BY DEF FetchOk, FetchError, Tick, UnlockChannels, Forget, subscriberVars
<1>2. \A q \in Receivers : q # r =>
        pc'[q] = pc[q] /\ cursor'[q] = cursor[q] /\ event'[q] = event[q]
  BY DEF FetchOk, FetchError, Tick, UnlockChannels, Forget, StreamInv, TypeOK
<1>3. CASE FetchOk(r)
  <2>1. PICK e \in Answer(cursor[r]) : event' = [event EXCEPT ![r] = e]
                                       /\ cursor' = [cursor EXCEPT ![r] = e.id]
    BY <1>3 DEF FetchOk
  <2>2. /\ pc[r] = "fetching" /\ pc'[r] = "fetched" /\ event'[r] = e /\ cursor'[r] = e.id
    BY <1>3, <2>1 DEF FetchOk, StreamInv, TypeOK
  <2>3. (e.latest /\ e.from = head) \/ (cursor[r] # NoCursor /\ e.from = cursor[r])
    BY DEF Answer
  <2>4. \A s \in Subscribers : got[s] \in 0 .. head /\ head \in Nat
    BY DEF StreamInv, TypeOK
  <2>5. \A s \in Subscribers : home[s] = r /\ got[s] # 0 /\ InStep(s) => InStep(s)'
    <3> SUFFICES ASSUME NEW s \in Subscribers, home[s] = r, InStep(s)
                 PROVE  InStep(s)'
      OBVIOUS
    <3>1. cursor[r] \in {got[s], NoCursor}
      BY <2>2 DEF InStep
    <3>2. Fits(e, got[s])
      BY <2>3, <2>4, <3>1 DEF Fits
    <3> QED
      BY <1>1, <2>2, <3>2 DEF InStep, Fits
  <2> QED
    BY <1>1, <1>2, <2>2, <2>5, GapMove
<1>4. CASE FetchError(r)
  <2>1. /\ pc[r] = "fetching" /\ pc'[r] = "waiting" /\ event' = event
        /\ cursor'[r] \in {cursor[r], NoCursor}
    BY <1>4 DEF FetchError, StreamInv, TypeOK
  <2>2. \A s \in Subscribers : home[s] = r /\ got[s] # 0 /\ InStep(s) => InStep(s)'
    BY <1>1, <2>1 DEF InStep
  <2> QED
    BY <1>1, <1>2, <2>1, <2>2, GapMove
<1>5. CASE Tick(r)
  <2>1. pc[r] = "waiting" /\ pc'[r] = "fetching" /\ event' = event /\ cursor' = cursor
    BY <1>5 DEF Tick, StreamInv, TypeOK
  <2>2. \A s \in Subscribers : home[s] = r /\ got[s] # 0 /\ InStep(s) => InStep(s)'
    BY <1>1, <2>1 DEF InStep
  <2> QED
    BY <1>1, <1>2, <2>1, <2>2, GapMove
<1>6. CASE UnlockChannels(r)
  <2>1. /\ pc[r] = "sending" /\ pc'[r] \in {"ending", "waiting"}
        /\ event' = event /\ cursor' = cursor /\ unsent[r] = << >>
    BY <1>6 DEF UnlockChannels, StreamInv, TypeOK
  <2>2. cursor[r] = event[r].id /\ DOMAIN unsent[r] = {}
    BY <2>1, EmptySeq DEF GapOK
  <2>3. \A s \in Subscribers : home[s] = r /\ got[s] # 0 /\ InStep(s) => InStep(s)'
    BY <1>1, <2>1, <2>2 DEF InStep
  <2> QED
    BY <1>1, <1>2, <2>1, <2>3, GapMove
<1>7. CASE Forget(r)
  <2>1. pc'[r] = "dead" /\ event' = event /\ cursor' = cursor
    BY <1>7 DEF Forget, StreamInv, TypeOK
  <2>2. \A s \in Subscribers : home[s] = r /\ got[s] # 0 /\ InStep(s) => InStep(s)'
    BY <1>1, <2>1 DEF InStep
  <2> QED
    BY <1>1, <1>2, <2>1, <2>2, GapMove
<1> QED
  BY <1>3, <1>4, <1>5, <1>6, <1>7

\* The receiver takes the lock: everybody with a channel is to be sent the event.
LEMMA GapLock ==
  ASSUME StreamInv, GapOK, NEW r \in Receivers, LockChannels(r)
  PROVE  GapOK'
<1>1. /\ pc[r] = "fetched" /\ pc'[r] = "sending" /\ unsent'[r] = channels[r]
      /\ \A q \in Receivers : q # r => pc'[q] = pc[q] /\ unsent'[q] = unsent[q]
      /\ UNCHANGED <<home, state, got, cursor, event>>
  BY DEF LockChannels, StreamInv, TypeOK, subscriberVars
<1>2. ASSUME NEW s \in Subscribers, Registered(s), got[s] # 0
      PROVE  InStep(s)'
  <2>1. /\ InStep(s) /\ home[s] \in Receivers
        /\ \E i \in DOMAIN channels[home[s]] : channels[home[s]][i] = s
    BY <1>2 DEF GapOK, StreamInv, HomeOK
  <2>2. CASE home[s] = r
    BY <1>1, <2>1, <2>2 DEF InStep
  <2>3. CASE home[s] # r
    BY <1>1, <2>1, <2>3 DEF InStep
  <2> QED
    BY <2>2, <2>3
<1>3. \A q \in Receivers :
        /\ pc'[q] \in {"fetched", "sending"} => cursor'[q] = event'[q].id
        /\ \A i, j \in DOMAIN unsent'[q] : unsent'[q][i] = unsent'[q][j] => i = j
  BY <1>1 DEF GapOK, StreamInv, ChannelsOK
<1> QED
  BY <1>1, <1>2, <1>3 DEF GapOK, Registered

\* s is told what its receiver has in hand, and it follows what it was told last.
Told(s) ==
  /\ home[s] \in Receivers
  /\ got[s] = 0 \/ Fits(event[home[s]], got[s])
  /\ got'[s] = event[home[s]].id

\* The next channel is sent the event, once.
LEMMA GapSend ==
  ASSUME StreamInv, GapOK, NEW r \in Receivers, Send(r)
  PROVE  /\ GapOK'
         /\ \A s \in Subscribers : got'[s] = got[s] \/ Told(s)
<1> DEFINE us == unsent[r]
           h == Head(us)
<1>1. /\ us \in Seq(Subscribers) /\ us # << >> /\ pc[r] = "sending"
      /\ unsent' = [unsent EXCEPT ![r] = Tail(us)] /\ got' = [got EXCEPT ![h] = event[r].id]
      /\ UNCHANGED <<pc, cursor, event, home, state>>
  BY DEF StreamInv, TypeOK, Send
<1>2. /\ h \in Subscribers /\ h = us[1] /\ 1 \in DOMAIN us
      /\ \A i \in DOMAIN Tail(us) : i + 1 \in DOMAIN us /\ i + 1 # 1 /\ Tail(us)[i] = us[i + 1]
      /\ \A i \in DOMAIN us : i # 1 => i - 1 \in DOMAIN Tail(us) /\ Tail(us)[i - 1] = us[i]
      /\ DOMAIN us \subseteq Nat /\ DOMAIN Tail(us) \subseteq Nat
  <2>1. /\ h \in Subscribers /\ h = us[1] /\ Tail(us) \in Seq(Subscribers)
        /\ Len(Tail(us)) = Len(us) - 1
        /\ \A i \in 1 .. Len(Tail(us)) : Tail(us)[i] = us[i + 1]
    BY <1>1, HeadTailProperties
  <2>2. /\ DOMAIN us = 1 .. Len(us) /\ Len(us) \in Nat /\ Len(us) # 0
        /\ DOMAIN Tail(us) = 1 .. Len(Tail(us))
    BY <1>1, <2>1, LenProperties, EmptySeq
  <2> HIDE DEF us, h
  <2>3. ASSUME NEW i \in DOMAIN Tail(us)
        PROVE  i + 1 \in DOMAIN us /\ i + 1 # 1 /\ Tail(us)[i] = us[i + 1]
    BY <2>1, <2>2
  <2>4. ASSUME NEW i \in DOMAIN us, i # 1
        PROVE  i - 1 \in DOMAIN Tail(us) /\ Tail(us)[i - 1] = us[i]
    BY <2>1, <2>2, <2>4
  <2> QED
    BY <2>1, <2>2, <2>3, <2>4
<1>3. /\ \A i, j \in DOMAIN us : us[i] = us[j] => i = j
      /\ home[h] = r /\ Registered(h)
  BY <1>2 DEF GapOK, StreamInv, UnsentOK
<1>4. /\ got'[h] = event[r].id /\ unsent'[r] = Tail(us)
      /\ \A s \in Subscribers : s # h => got'[s] = got[s]
      /\ \A q \in Receivers : q # r => unsent'[q] = unsent[q]
  BY <1>1, <1>2 DEF StreamInv, TypeOK
<1> HIDE DEF us, h
<1>5. unsent[r] = us
  BY DEF us
<1>6. \A s \in Subscribers :
        (\E i \in DOMAIN Tail(us) : Tail(us)[i] = s) <=> s # h /\ \E i \in DOMAIN us : us[i] = s
  <2>1. ASSUME NEW i \in DOMAIN Tail(us)
        PROVE  Tail(us)[i] # h /\ \E j \in DOMAIN us : us[j] = Tail(us)[i]
    BY <1>2, <1>3
  <2>2. ASSUME NEW j \in DOMAIN us, us[j] # h
        PROVE  \E i \in DOMAIN Tail(us) : Tail(us)[i] = us[j]
    BY <1>2, <2>2
  <2> QED
    BY <2>1, <2>2
<1>7. \A i, j \in DOMAIN Tail(us) : Tail(us)[i] = Tail(us)[j] => i = j
  <2>1. ASSUME NEW i \in DOMAIN Tail(us), NEW j \in DOMAIN Tail(us), Tail(us)[i] = Tail(us)[j]
        PROVE  i = j
    <3>1. i + 1 = j + 1 /\ i \in Nat /\ j \in Nat
      BY <1>2, <1>3, <2>1
    <3> QED
      BY <3>1
  <2> QED
    BY <2>1
<1>8. ASSUME NEW s \in Subscribers, Registered(s), got'[s] # 0
      PROVE  InStep(s)'
  <2>1. CASE s = h
    BY <1>1, <1>3, <1>4, <1>6, <2>1 DEF InStep
  <2>2. CASE s # h
    <3>1. InStep(s) /\ got'[s] = got[s] /\ home[s] \in Receivers
      BY <1>4, <1>8, <2>2 DEF GapOK, StreamInv, HomeOK
    <3>2. CASE home[s] = r
      BY <1>1, <1>4, <1>5, <1>6, <2>2, <3>1, <3>2 DEF InStep
    <3>3. CASE home[s] # r
      BY <1>1, <1>4, <3>1, <3>3 DEF InStep
    <3> QED
      BY <3>2, <3>3
  <2> QED
    BY <2>1, <2>2
<1>9. GapOK'
  <2>1. \A s \in Subscribers : state'[s] = "new" => got'[s] = 0
    BY <1>1, <1>3, <1>4 DEF GapOK, Registered
  <2>2. \A q \in Receivers :
          /\ pc'[q] \in {"fetched", "sending"} => cursor'[q] = event'[q].id
          /\ \A i, j \in DOMAIN unsent'[q] : unsent'[q][i] = unsent'[q][j] => i = j
    BY <1>1, <1>4, <1>7 DEF GapOK
  <2>3. \A s \in Subscribers : Registered(s)' <=> Registered(s)
    BY <1>1 DEF Registered
  <2> QED
    BY <1>8, <2>1, <2>2, <2>3 DEF GapOK
<1>10. got[h] = 0 \/ Fits(event[home[h]], got[h])
  <2>1. CASE got[h] # 0
    <3>1. InStep(h)
      BY <1>2, <1>3, <2>1 DEF GapOK
    <3> QED
      BY <1>1, <1>2, <1>3, <1>5, <3>1 DEF InStep
  <2> QED
    BY <2>1
<1> QED
  BY <1>1, <1>3, <1>4, <1>9, <1>10 DEF Told

\* A subscriber that joins has had nothing yet.
LEMMA GapRegister ==
  ASSUME StreamInv, GapOK, NEW s \in Subscribers, Register(s)
  PROVE  GapOK'
<1>1. /\ state[s] = "new" /\ got' = got /\ got[s] = 0
      /\ UNCHANGED <<unsent, cursor, event>>
      /\ \A t \in Subscribers : t # s => home'[t] = home[t] /\ state'[t] = state[t]
      /\ state'[s] = "live"
  BY DEF Register, RegisterExisting, RegisterFirst, GapOK, StreamInv, TypeOK
<1>2. \A r \in Receivers :
        pc'[r] = pc[r] \/ (pc[r] = "unborn" /\ pc'[r] = "fetching")
  BY DEF Register, RegisterExisting, RegisterFirst, StreamInv, TypeOK
<1>3. ASSUME NEW t \in Subscribers, Registered(t)', got[t] # 0
      PROVE  InStep(t)'
  <2>1. t # s /\ Registered(t) /\ InStep(t) /\ home'[t] = home[t]
    BY <1>1, <1>3 DEF GapOK, Registered
  <2>2. home[t] \in Receivers /\ pc[home[t]] # "unborn"
    BY <2>1 DEF StreamInv, HomeOK
  <2> QED
    BY <1>1, <1>2, <2>1, <2>2 DEF InStep
<1>4. \A r \in Receivers :
        /\ pc'[r] \in {"fetched", "sending"} => cursor'[r] = event'[r].id
        /\ \A i, j \in DOMAIN unsent'[r] : unsent'[r][i] = unsent'[r][j] => i = j
  BY <1>1, <1>2 DEF GapOK
<1> QED
  BY <1>1, <1>3, <1>4 DEF GapOK

\* A poll wakes a receiver and moves no cursor.
LEMMA GapTakePoll ==
  ASSUME StreamInv, GapOK, NEW s \in Subscribers, TakePoll(s)
  PROVE  GapOK'
<1>1. /\ UNCHANGED <<home, state, got, unsent, cursor, event>>
      /\ \A r \in Receivers : pc'[r] = pc[r] \/ (pc[r] = "waiting" /\ pc'[r] = "fetching")
  BY DEF TakePoll, StreamInv, TypeOK
<1>2. ASSUME NEW t \in Subscribers, Registered(t), got[t] # 0
      PROVE  InStep(t)'
  <2>1. InStep(t) /\ home[t] \in Receivers
    BY <1>2 DEF GapOK, StreamInv, HomeOK
  <2> QED
    BY <1>1, <2>1 DEF InStep
<1> QED
  BY <1>1, <1>2 DEF GapOK, Registered

\* Every step keeps GapOK, and tells a subscriber what follows or nothing.
LEMMA StepGap ==
  StreamInv /\ GapOK /\ [Next]_vars =>
    GapOK' /\ (got' = got \/ \E r \in Receivers : Send(r))
<1> SUFFICES ASSUME StreamInv, GapOK, [Next]_vars
             PROVE  GapOK' /\ (got' = got \/ \E r \in Receivers : Send(r))
  OBVIOUS
<1>1. ASSUME NEW r \in Receivers, Send(r) PROVE GapOK'
  BY <1>1, GapSend
<1>2. ASSUME NEW r \in Receivers, ReceiverStep(r), ~Send(r)
      PROVE  GapOK' /\ got' = got
  <2>1. got' = got
    BY <1>2 DEF ReceiverStep, FetchOk, FetchError, LockChannels, UnlockChannels, Tick, Forget,
                subscriberVars
  <2> QED
    BY <1>2, <2>1, GapFetch, GapLock DEF ReceiverStep
<1>3. ASSUME NEW s \in Subscribers, SubscriberStep(s)
      PROVE  GapOK' /\ got' = got
  <2>1. CASE Register(s)
    BY <2>1, GapRegister DEF Register, RegisterExisting, RegisterFirst
  <2>2. CASE TakePoll(s)
    BY <2>2, GapTakePoll DEF TakePoll
  <2>3. CASE Handled(s) \/ Poll(s) \/ CloseDone(s) \/ Unsubscribe(s) \/ CloseChannel(s)
    <3>1. UNCHANGED <<pc, unsent, cursor, event, home, got>>
      BY <2>3 DEF Handled, Poll, CloseDone, Unsubscribe, CloseChannel, receiverVars
    <3>2. \A t \in Subscribers : /\ state'[t] = "new" => state[t] = "new"
                                 /\ Registered(t)' => Registered(t)
      BY <2>3 DEF Handled, Poll, CloseDone, Unsubscribe, CloseChannel, Registered, StreamInv,
                  TypeOK
    <3> QED
      BY <3>1, <3>2, GapQuiet
  <2> QED
    BY <1>3, <2>1, <2>2, <2>3 DEF SubscriberStep
<1>4. CASE NewEvent \/ UNCHANGED vars
  <2>1. UNCHANGED <<pc, unsent, cursor, event, home, got, state>>
    BY <1>4 DEF NewEvent, vars, receiverVars, subscriberVars
  <2> QED
    BY <2>1, GapQuiet DEF Registered
<1> QED
  BY <1>1, <1>2, <1>3, <1>4 DEF Next

-----------------------------------------------------------------------------
(* The abstract feed.                                                      *)

\* What was last fetched for s, as ImplementsFeed has it.
FetchedFor(s) == IF home[s] = NoReceiver THEN NoEvent ELSE event[home[s]]

\* What a step fetches is an answer of the account for everybody it is fetched for.
LEMMA FeedAsks ==
  ASSUME StreamInv, StreamInv', [Next]_vars
  PROVE  /\ head' >= head
         /\ \A s \in Subscribers : FetchedFor(s)' = FetchedFor(s) \/ Feed!IsAnswer(FetchedFor(s)')
<1>1. CASE head' = head
  <2>1. ASSUME NEW s \in Subscribers
        PROVE  Feed!IsAnswer(FetchedFor(s)')
    <3>1. CASE home'[s] = NoReceiver
      BY <1>1, <3>1 DEF FetchedFor, Feed!IsAnswer, NoEvent, StreamInv, TypeOK
    <3>2. CASE home'[s] # NoReceiver
      <4>1. home'[s] \in Receivers
        BY <3>2 DEF StreamInv, TypeOK
      <4> QED
        BY <1>1, <3>2, <4>1 DEF FetchedFor, Feed!IsAnswer, StreamInv, EventsOK
    <3> QED
      BY <3>1, <3>2
  <2> QED
    BY <1>1, <2>1 DEF StreamInv, TypeOK
<1>2. CASE head' # head
  <2>1. NewEvent
    BY <1>2 DEF Next, vars, ReceiverStep, FetchOk, FetchError, LockChannels, Send,
                UnlockChannels, Tick, Forget, SubscriberStep, Register, RegisterExisting,
                RegisterFirst, TakePoll, Handled, Poll, CloseDone, Unsubscribe, CloseChannel
  <2> QED
    BY <2>1 DEF NewEvent, receiverVars, subscriberVars, FetchedFor, StreamInv, TypeOK
<1> QED
  BY <1>1, <1>2

\* A subscriber sees every change of the account once and in order, whatever
\* fails and whoever comes and goes: a shared receiver implements a feed of each
\* subscriber's own.
THEOREM StreamImplementsFeed == Spec => ImplementsFeed
<1>1. Init => GapOK
  <2>1. DOMAIN << >> = {}
    BY EmptySeq
  <2> QED
    BY <2>1 DEF Init, GapOK, Registered
<1>2. Init => Feed!Init
  <2> SUFFICES ASSUME Init PROVE Feed!Init
    OBVIOUS
  <2>1. \A s \in Subscribers : FetchedFor(s) = NoEvent
    BY DEF Init, FetchedFor
  <2> QED
    BY <2>1 DEF Init, FetchedFor, NoEvent, Feed!Init, Feed!IsAnswer, Feed!Nothing
<1>3. StreamInv /\ StreamInv' /\ GapOK /\ [Next]_vars => [Feed!Next]_(Feed!vars)
  <2> SUFFICES ASSUME StreamInv, StreamInv', GapOK, [Next]_vars
               PROVE  Feed!Next
    OBVIOUS
  <2>1. /\ head' >= head
        /\ \A s \in Subscribers :
             FetchedFor(s)' = FetchedFor(s) \/ Feed!IsAnswer(FetchedFor(s)')
    BY FeedAsks
  <2>2. ASSUME NEW s \in Subscribers, got'[s] = got[s]
        PROVE  Feed!Ask(s)
    BY <2>1, <2>2 DEF FetchedFor, Feed!Ask
  <2>3. CASE got' = got
    BY <2>1, <2>2, <2>3 DEF Feed!Next
  <2>4. ASSUME NEW r \in Receivers, Send(r)
        PROVE  Feed!Next
    <3>1. UNCHANGED <<head, home, event>>
      BY <2>4 DEF Send
    <3>2. ASSUME NEW s \in Subscribers, Told(s), got'[s] # got[s]
          PROVE  Feed!Tell(s)
      <4>1. home[s] # NoReceiver
        BY <3>2 DEF Told, NoReceiver, Receivers
      <4> QED
        BY <3>1, <3>2, <4>1 DEF Told, Fits, Feed!Tell, Feed!Follows, Feed!Nothing
    <3>3. \A s \in Subscribers : got'[s] = got[s] \/ Told(s)
      BY <2>4, GapSend
    <3> QED
      BY <2>1, <2>2, <3>2, <3>3 DEF Feed!Next
  <2> QED
    BY <2>3, <2>4, StepGap
<1>4. StreamInv /\ GapOK /\ [Next]_vars => GapOK'
  BY StepGap
<1> QED
  BY <1>1, <1>2, <1>3, <1>4, InitStreamInv, StreamInvariant, PTL DEF Spec, ImplementsFeed, Feed!Spec
=============================================================================
