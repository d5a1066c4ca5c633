------------------------------ MODULE ImapView ------------------------------
(***************************************************************************)
(* What IMAP clients see of a mailbox and do to it: imap/mailbox.go and    *)
(* the updates of imap/user.go's receiveEvents, over MailStore.            *)
(*                                                                         *)
(* A client knows a mailbox by sequence numbers.  SELECT announces how     *)
(* many messages there are, EXISTS and EXPUNGE updates change the numbers, *)
(* FETCH tells what is behind one.  The bridge renumbers when it applies   *)
(* an event, and tells the clients later, whatever they do meanwhile.      *)
(* Commands change the account only; the events that follow bring the      *)
(* change to the database, unless they are lost.  A refresh empties the    *)
(* mailboxes and makes new objects of them; sessions keep those they have. *)
(*                                                                         *)
(* How a mailbox is listed is modelled step by step in MailSync, here it   *)
(* is one step; the updates for one mailbox keep their order.              *)
(***************************************************************************)
EXTENDS MailStore, Sequences

CONSTANTS
  Sessions,    \* IMAP connections of the account
  Opened,      \* the mailboxes they select
  AtLogin,     \* the sets of messages that may be there at the login
  Unknown,     \* an entry the client has not fetched
  MaxChanges,  \* bound on the changes of the account and the refreshes together
  MaxRefresh   \* bound on the refreshes

ASSUME ImapViewAssumption ==
  /\ Opened \subseteq Labels /\ Nil \notin Labels /\ AtLogin \subseteq SUBSET Msgs
  /\ MaxChanges \in Nat /\ MaxRefresh \in Nat
  /\ Msgs \subseteq Nat /\ IsFiniteSet(Msgs)
  /\ \A S \in SUBSET Labels : S # Nil

VARIABLES
  server,    \* the account: labels of each of its messages
  gone,      \* messages it has destroyed, whose API IDs are not used again
  changes,   \* how many changes it has seen
  backlog,   \* changes whose event has not been handled, in order
  current,   \* refreshes so far: which objects user.mailboxes has
  mapped,    \* the labels it has an object for
  total,     \* mailbox.total of those that clients select
  ready,     \* the mailbox objects that are initialized
  deleted,   \* mailbox.deleted of each object
  staged,    \* the event being handled: its counts and the updates it makes
  refresh,   \* what is left to do of a refresh
  channel,   \* updates on their way to the sessions, per mailbox
  view,      \* [Sessions -> the selected mailbox as the client knows it]
  cmd,       \* [Sessions -> the command between two requests]
  meant      \* history: <<b, m>>: m may be destroyed as a message of object b

storeVars == <<record, hasRecords, boxes, sequence, content, epoch, reply>>
accountVars == <<server, gone, changes, backlog>>
boxVars == <<current, mapped, total, ready, deleted>>
wireVars == <<staged, refresh, channel>>
viewVars == <<storeVars, accountVars, boxVars, wireVars, view, cmd, meant>>

\* A mailbox object: a label, and the refresh that made it.
Boxes == Labels \X (0 .. MaxRefresh)

\* follows is history: nothing has happened that makes the client lose step.
NoView == [box |-> <<Nil, 0>>, list |-> << >>, follows |-> TRUE]

LabelOf(s) == view[s].box[1]

Idle == [do |-> "idle", ids |-> {}, dest |-> Nil, refused |-> {}]

NoRefresh == [stage |-> "none", left |-> {}]

NothingStaged == [counts |-> Empty, updates |-> [l \in Labels |-> << >>]]

Size(l) == Cardinality(DOMAIN content[l])

EntryAt(l, i) == content[l][CHOOSE u \in DOMAIN content[l] : SeqNum(content[l], u) = i]

InLabel(l) == {m \in DOMAIN server : l \in server[m]}

\* The n-th message of S in ID order.
Nth(S, n) == CHOOSE m \in S : Cardinality({x \in S : x <= m}) = n

\* No update for l is on its way.
Quiet(l) == channel[l] = << >> /\ staged.updates[l] = << >>

-----------------------------------------------------------------------------
(* The account.  An event brings the changed message and the counts.       *)

LabelsIn(srv, m) == IF m \in DOMAIN srv THEN srv[m] ELSE {}

Item(srv, m) ==
  [kind    |-> IF m \notin DOMAIN server THEN "create"
               ELSE IF m \notin DOMAIN srv THEN "delete" ELSE "update",
   msg     |-> m,
   labels  |-> LabelsIn(srv, m),
   added   |-> LabelsIn(srv, m) \ LabelsIn(server, m),
   removed |-> LabelsIn(server, m) \ LabelsIn(srv, m),
   counts  |-> [l \in Labels |-> Cardinality({x \in DOMAIN srv : l \in srv[x]})]]

\* The account becomes srv, in one change for each message that differs.
Becomes(srv) ==
  LET differ == {m \in Msgs : \/ (m \in DOMAIN srv) # (m \in DOMAIN server)
                              \/ LabelsIn(srv, m) # LabelsIn(server, m)}
      k == Cardinality(differ)
  IN
  /\ changes + k <= MaxChanges
  /\ server' = srv
  /\ gone' = gone \cup (DOMAIN server \ DOMAIN srv)
  /\ changes' = changes + k
  /\ backlog' = backlog \o [i \in 1 .. k |-> Item(srv, Nth(differ, i))]

Without(f, S) == [x \in DOMAIN f \ S |-> f[x]]

\* history: of a message being moved that somebody takes from the destination,
\* the command c is not to blame.
TakenAway(c, srv) ==
  [c EXCEPT !.refused = @ \cup
    {m \in c.ids : c.do = "unlabelling" /\ c.dest \notin LabelsIn(srv, m)}]

\* A new mail, or another client.
OtherClient ==
  /\ \E m \in Msgs \ gone :
       \/ \E labels \in SUBSET Labels : Becomes(Put(server, m, labels))
       \/ m \in DOMAIN server /\ Becomes(Without(server, {m}))
  /\ changes' > changes
  /\ cmd' = [s \in Sessions |-> TakenAway(cmd[s], server')]
  /\ UNCHANGED <<storeVars, boxVars, wireVars, view, meant>>

-----------------------------------------------------------------------------
(* user.receiveEvents: the database changes, message by message, then the   *)
(* totals, and then the updates go out.                                     *)

\* Mutant: what leaves a mailbox is not announced.
UpdatesNoExpunge(answer) ==
  [l \in Labels |-> IF l \notin mapped \cap DOMAIN answer.created THEN << >>
     ELSE <<[kind |-> "exists", n |-> answer.created[l], sound |-> content'[l] # content[l]]>>]

\* The updates that a reply of the database makes, for the mailboxes in the map
\* that clients select.
\* sound is history: the bucket has changed.  A message that was there already is
\* announced with its old position, one that was not leaves with none.
Updates(answer) ==
  [l \in Labels |->
     LET One(kind, n) == <<[kind |-> kind, n |-> n, sound |-> content'[l] # content[l]]>>
     IN IF l \notin mapped \cap Opened THEN << >>
        ELSE IF l \in DOMAIN answer.created THEN One("exists", answer.created[l])
        ELSE IF l \in DOMAIN answer.deleted THEN One("expunge", answer.deleted[l])
        ELSE << >>]

\* The forms an update may have: what has changed, the new labels, or both.
LabelUpdates(item) ==
  LET delta == [labels |-> Nil, added |-> item.added, removed |-> item.removed]
  IN {delta, [delta EXCEPT !.labels = item.labels],
      [labels |-> item.labels, added |-> Nil, removed |-> Nil]}

\* One message of an event.
TakeEvent ==
  LET item == Head(backlog)
      m    == item.msg
  IN
  /\ backlog # << >> /\ refresh = NoRefresh
  /\ backlog' = Tail(backlog)
  /\ \/ /\ \/ item.kind = "create" /\ CreateMessage(m, item.labels)
           \/ item.kind = "update" /\ \E upd \in LabelUpdates(item) : UpdateMessage(m, upd)
           \/ item.kind = "delete" /\ DeleteMessage(m)
        /\ staged' = [counts |-> item.counts,
                      updates |-> [l \in Labels |-> staged.updates[l] \o Updates(reply')[l]]]
     \/ /\ item.kind # "create" /\ m \notin DOMAIN record
        /\ staged' = [staged EXCEPT !.counts = item.counts]
        /\ UNCHANGED storeVars
  /\ UNCHANGED <<server, gone, changes, boxVars, refresh, channel, view, cmd, meant>>

\* Changes that no event brings: the receiver starts at the latest event, and
\* does so again after three errors.
LoseEvents ==
  /\ staged = NothingStaged /\ refresh = NoRefresh
  /\ \E k \in 1 .. Len(backlog) : backlog' = SubSeq(backlog, k + 1, Len(backlog))
  /\ UNCHANGED <<storeVars, server, gone, changes, boxVars, wireVars, view, cmd, meant>>

\* mbox.total = count.Total, and updates <- update.
Publish ==
  /\ staged # NothingStaged
  /\ total' = [l \in Opened |-> IF l \in mapped THEN staged.counts[l] ELSE total[l]]
  /\ channel' = [l \in Labels |-> channel[l] \o staged.updates[l]]
  /\ staged' = NothingStaged
  /\ NoReply
  /\ UNCHANGED <<record, hasRecords, boxes, sequence, content, epoch,
                 accountVars, current, mapped, ready, deleted, refresh, view, cmd, meant>>

\* An update as a client takes it: EXISTS sets the size, EXPUNGE removes an
\* entry, if there is one of that number.
Taken(list, up) ==
  IF up.kind = "exists"
    THEN [i \in 1 .. up.n |-> IF i \in DOMAIN list THEN list[i] ELSE Unknown]
    ELSE IF up.n \in DOMAIN list
           THEN SubSeq(list, 1, up.n - 1) \o SubSeq(list, up.n + 1, Len(list))
           ELSE list

Deliver(l) ==
  /\ channel[l] # << >>
  /\ channel' = [channel EXCEPT ![l] = Tail(@)]
  /\ view' = [s \in Sessions |->
       IF LabelOf(s) # l THEN view[s]
       ELSE LET up == Head(channel[l])
                new == Taken(view[s].list, up)
            IN [box |-> view[s].box, list |-> new,
                follows |-> view[s].follows /\ (up.sound \/ new = view[s].list)]]
  /\ UNCHANGED <<storeVars, accountVars, boxVars, staged, refresh, cmd, meant>>

-----------------------------------------------------------------------------
(* user.receiveEvents, a refresh: no update tells the clients.              *)

StartRefresh ==
  /\ staged = NothingStaged /\ refresh = NoRefresh
  /\ current < MaxRefresh /\ changes < MaxChanges
  /\ changes' = changes + 1
  /\ backlog' = << >>
  /\ refresh' = [stage |-> "boxes", left |-> mapped]
  /\ UNCHANGED <<storeVars, server, gone, boxVars, staged, channel, view, cmd, meant>>

\* The clients of l lose step, if what they know is in the mailbox.
Unsettles(l) ==
  view' = [s \in Sessions |->
    [view[s] EXCEPT !.follows = @ /\ (LabelOf(s) = l => view[s].box \notin ready)]]

\* mailbox.reset; the set of deleted messages stays.
ResetBox(l) ==
  /\ refresh.stage = "boxes" /\ l \in refresh.left
  /\ Reset(l)
  /\ ready' = ready \ {<<l, current>>}
  /\ refresh' = [refresh EXCEPT !.left = @ \ {l}]
  /\ Unsettles(l)
  /\ UNCHANGED <<accountVars, current, mapped, total, deleted, staged, channel, cmd, meant>>

\* User.ResetMessages, whose error is only logged.
ResetRecords ==
  /\ refresh = [stage |-> "boxes", left |-> {}]
  /\ IF hasRecords THEN ResetMessages ELSE UNCHANGED storeVars
  /\ refresh' = [refresh EXCEPT !.stage = "map"]
  /\ UNCHANGED <<accountVars, boxVars, staged, channel, view, cmd, meant>>

\* initMailboxes: new objects, with the totals the server counts.  An error leaves
\* the totals 0 and may leave mailboxes out of the map: no update is made for them.
RenewBoxes ==
  /\ refresh.stage = "map"
  /\ refresh' = NoRefresh
  /\ current' = current + 1
  /\ \/ mapped' = Labels /\ total' = [l \in Opened |-> Cardinality(InLabel(l))]
     \/ mapped' \in SUBSET Labels /\ total' = [l \in Opened |-> 0]
  /\ view' = [s \in Sessions |-> [view[s] EXCEPT !.follows = @ /\ LabelOf(s) \in mapped']]
  /\ UNCHANGED <<storeVars, accountVars, ready, deleted, staged, channel, cmd, meant>>

-----------------------------------------------------------------------------
(* SELECT and FETCH.                                                        *)

\* Status announces mailbox.total, whatever the database holds.
Select(s, l) ==
  /\ cmd[s] = Idle /\ l \in mapped
  /\ view' = [view EXCEPT ![s] =
       [box |-> <<l, current>>, list |-> [i \in 1 .. total[l] |-> Unknown],
        follows |-> <<l, current>> \in ready => Quiet(l) /\ total[l] = Size(l)]]
  /\ UNCHANGED <<storeVars, accountVars, boxVars, wireVars, cmd, meant>>

\* history: the updates on their way do not count from what was just listed.
Outdated(ups) == [i \in DOMAIN ups |-> [ups[i] EXCEPT !.sound = FALSE]]

\* mailbox.init of an object, which any other command begins with: the bucket
\* is reset and filled, also under the clients of another object.
List(b) ==
  LET l == b[1]
      S == InLabel(l)
      k == Cardinality(S)
  IN
  /\ b \notin ready /\ \E s \in Sessions : view[s].box = b
  /\ Room(l, k - sequence[l]) /\ epoch[l] < MaxEpoch
  /\ ready' = ready \cup {b}
  /\ content' = [content EXCEPT ![l] = [u \in 1 .. k |-> Nth(S, u)]]
  /\ sequence' = [sequence EXCEPT ![l] = k]
  /\ record' = [m \in DOMAIN record \cup S |-> IF m \in S THEN server[m] ELSE record[m]]
  /\ hasRecords' = TRUE
  /\ epoch' = [epoch EXCEPT ![l] = @ + 1]
  /\ channel' = [channel EXCEPT ![l] = Outdated(@)]
  /\ staged' = [staged EXCEPT !.updates[l] = Outdated(@)]
  /\ view' = [s \in Sessions |-> [view[s] EXCEPT !.follows = @ /\ (LabelOf(s) = l =>
       IF view[s].box = b THEN Len(view[s].list) = k ELSE view[s].box \notin ready)]]
  /\ UNCHANGED <<boxes, reply, accountVars, current, mapped, total, deleted, refresh, cmd, meant>>

Can(s) == cmd[s] = Idle /\ view[s].box \in ready

Begin(s, do, ids, dest) ==
  /\ cmd' = [cmd EXCEPT ![s] = [Idle EXCEPT !.do = do, !.ids = ids, !.dest = dest]]
  /\ UNCHANGED <<storeVars, accountVars, boxVars, wireVars, view, meant>>

\* fetchMessage: the number or the UID gives an API ID ...
Fetch(s) ==
  LET l == LabelOf(s) IN
  Can(s) /\ \E u \in DOMAIN content[l] : Begin(s, "fetching", {content[l][u]}, Nil)

\* ... for which the number is looked up again, and answered with the record.
Answer(s) ==
  LET l == LabelOf(s)
      m == CHOOSE x \in cmd[s].ids : TRUE
      n == PositionIn(content[l], m)
      list == view[s].list
  IN
  /\ cmd[s].do = "fetching"
  /\ cmd' = [cmd EXCEPT ![s] = Idle]
  /\ view' = IF n \notin DOMAIN list \/ m \notin DOMAIN record THEN view
             ELSE [view EXCEPT ![s] =
                    [box |-> view[s].box, list |-> [list EXCEPT ![n] = m],
                     follows |-> view[s].follows /\ (Quiet(l) \/ list[n] = m)]]
  /\ UNCHANGED <<storeVars, accountVars, boxVars, wireVars, meant>>

-----------------------------------------------------------------------------
(* STORE, COPY, MOVE and EXPUNGE.  A client names a message it has fetched, *)
(* by its UID or by its number.                                             *)

OutOfStep(s) == ~view[s].follows \/ ~Quiet(LabelOf(s))

\* Mutant: sequence numbers counted from 0.
NamedFromZero(s, m) ==
  {EntryAt(LabelOf(s), i + 1) : i \in {j \in 1 .. Size(LabelOf(s)) - 1 :
     j \in DOMAIN view[s].list /\ view[s].list[j] = m}}

\* fromSeqSet: the messages that the numbers of m name by now ...
Named(s, m) ==
  {EntryAt(LabelOf(s), i) : i \in {j \in 1 .. Size(LabelOf(s)) :
     j \in DOMAIN view[s].list /\ view[s].list[j] = m}}

\* ... and its UIDs.
WithUid(l, m) == {x \in {m} : Holds(content[l], x)}

\* UpdateMessagesFlags, +FLAGS \Deleted.  A client out of step may flag
\* another message than it means.
Flag(b, m, named, inStep) ==
  /\ deleted' = [deleted EXCEPT ![b] = @ \cup named]
  /\ meant' = meant \cup ({b} \X ({m} \cup IF inStep THEN {} ELSE named))
  /\ UNCHANGED <<storeVars, accountVars, current, mapped, total, ready, wireVars, view, cmd>>

\* UpdateMessagesFlags, -FLAGS \Deleted, which does not stop an EXPUNGE that
\* has read the set, and does nothing for a message that has left the bucket.
Unflag(b, m, named, inStep) ==
  /\ deleted' = [deleted EXCEPT ![b] = @ \ named]
  /\ meant' = IF /\ inStep /\ m \in named
                 /\ \A s \in Sessions : cmd[s].do = "destroying" => m \notin cmd[s].ids
                THEN meant \ {<<b, m>>} ELSE meant
  /\ UNCHANGED <<storeVars, accountVars, current, mapped, total, ready, wireVars, view, cmd>>

\* Of a message that the client has fetched, by its number or its UID.
Store(s, m) ==
  LET b == view[s].box IN
  /\ Can(s)
  /\ \/ Flag(b, m, Named(s, m), ~OutOfStep(s)) \/ Unflag(b, m, Named(s, m), ~OutOfStep(s))
     \/ Flag(b, m, WithUid(b[1], m), TRUE) \/ Unflag(b, m, WithUid(b[1], m), TRUE)

\* By another connection, which keeps to UIDs; a STORE that changes nothing is a
\* stuttering step.
StoreElsewhere(b) ==
  /\ b \in ready
  /\ \E m \in {x \in Msgs : Holds(content[b[1]], x)} :
       Flag(b, m, {m}, TRUE) \/ Unflag(b, m, {m}, TRUE)
  /\ <<deleted, meant>>' # <<deleted, meant>>

\* CopyMessages and MoveMessages, of the messages named, if there are any; a
\* flag that is a label is a copy, too.
CopyOrMove(s, m) ==
  /\ Can(s)
  /\ \E ids \in {Named(s, m), WithUid(LabelOf(s), m)} \ {{}} :
       \E do \in {"copying", "moving"}, dest \in Labels : Begin(s, do, ids, dest)

\* Mutant: an error of the first request is passed over.
LabelIgnoresError(s) ==
  LET c == cmd[s] IN
  /\ c.do \in {"copying", "moving"}
  /\ cmd' = [cmd EXCEPT ![s] = IF c.do = "copying" THEN Idle ELSE [c EXCEPT !.do = "unlabelling"]]
  /\ UNCHANGED <<storeVars, accountVars, boxVars, wireVars, view, meant>>

\* LabelMessages.  The answer says of each message whether it was done, which
\* nobody reads; an error ends the command.
Label(s) ==
  LET c == cmd[s] IN
  /\ c.do \in {"copying", "moving"}
  /\ \/ \E S \in SUBSET (c.ids \cap DOMAIN server) :
          /\ Becomes([m \in DOMAIN server |->
               IF m \in S THEN server[m] \cup {c.dest} ELSE server[m]])
          /\ cmd' = [cmd EXCEPT ![s] =
               IF c.do = "copying" THEN Idle
               ELSE [c EXCEPT !.do = "unlabelling", !.refused = c.ids \ S]]
     \/ cmd' = [cmd EXCEPT ![s] = Idle] /\ UNCHANGED accountVars
  /\ UNCHANGED <<storeVars, boxVars, wireVars, view, meant>>

\* UnlabelMessages, of all of them.
Unlabel(s) ==
  LET c == cmd[s]
      l == LabelOf(s)
  IN
  /\ c.do = "unlabelling"
  /\ \E S \in SUBSET (c.ids \cap DOMAIN server) :
       Becomes([m \in DOMAIN server |-> IF m \in S THEN server[m] \ {l} ELSE server[m]])
  /\ cmd' = [t \in Sessions |-> IF t = s THEN Idle ELSE TakenAway(cmd[t], server')]
  /\ UNCHANGED <<storeVars, boxVars, wireVars, view, meant>>

\* Expunge: the set of the object, whoever has flagged, and wherever the
\* messages are by now ...
Expunge(s) ==
  LET b == view[s].box IN
  Can(s) /\ deleted[b] # {} /\ Begin(s, "destroying", deleted[b], Nil)

\* ... is destroyed, and not cleared.
Destroy(s) ==
  /\ cmd[s].do = "destroying"
  /\ \E S \in SUBSET (cmd[s].ids \cap DOMAIN server) : Becomes(Without(server, S))
  /\ cmd' = [cmd EXCEPT ![s] = Idle]
  /\ UNCHANGED <<storeVars, boxVars, wireVars, view, meant>>

-----------------------------------------------------------------------------
\* After a login: the totals are counted, no mailbox is listed.
ViewInit ==
  /\ record = Empty /\ hasRecords = FALSE /\ boxes = Labels
  /\ sequence = [l \in Labels |-> 0] /\ content = [l \in Labels |-> Empty]
  /\ epoch = [l \in Labels |-> 0] /\ reply = [created |-> Empty, deleted |-> Empty]
  /\ gone = {} /\ changes = 0 /\ backlog = << >>
  /\ server \in UNION {[S -> {{l} : l \in Opened}] : S \in AtLogin}
  /\ total = [l \in Opened |-> Cardinality({m \in DOMAIN server : l \in server[m]})]
  /\ current = 0 /\ mapped = Labels
  /\ ready = {} /\ deleted = [b \in Boxes |-> {}]
  /\ staged = NothingStaged /\ refresh = NoRefresh /\ channel = [l \in Labels |-> << >>]
  /\ view = [s \in Sessions |-> NoView] /\ cmd = [s \in Sessions |-> Idle]
  /\ meant = {}

Command(s) ==
  \/ \E l \in Opened : Select(s, l)
  \/ Fetch(s) \/ Answer(s)
  \/ \E i \in DOMAIN view[s].list :
       LET m == view[s].list[i] IN m # Unknown /\ (Store(s, m) \/ CopyOrMove(s, m))
  \/ Label(s) \/ Unlabel(s) \/ Expunge(s) \/ Destroy(s)

ViewNext ==
  \/ OtherClient \/ TakeEvent \/ LoseEvents \/ Publish
  \/ StartRefresh \/ ResetRecords \/ RenewBoxes
  \/ \E l \in Labels : Deliver(l) \/ ResetBox(l)
  \/ \E b \in Boxes : List(b) \/ StoreElsewhere(b)
  \/ \E s \in Sessions : Command(s)

ViewSpec == ViewInit /\ [][ViewNext]_viewVars

-----------------------------------------------------------------------------
(* Properties.                                                             *)

\* A client that takes the updates as they come knows the mailbox: as many
\* entries, and behind each number the message the bridge finds there.  It
\* loses step if the total it was told at SELECT was not that of the listing or
\* of the bucket; if an update counts from before a listing, or the bucket held
\* the message already, as after a change another listing or record has hidden;
\* if a FETCH is answered with numbers whose update is still on its way; and if
\* the mailbox is reset by a refresh, listed through another object, or left out
\* of the map.
ViewFollows ==
  \A s \in Sessions :
    LET l == LabelOf(s)
        list == view[s].list
    IN (view[s].box \in ready /\ view[s].follows /\ Quiet(l)) =>
         /\ Len(list) = Size(l)
         /\ \A i \in DOMAIN list : list[i] \in {Unknown, EntryAt(l, i)}

\* EXPUNGE destroys for good, and only what a client has flagged in that
\* mailbox object and not taken back, unless the client was out of step when it
\* named the message, after a refresh say, or took it back after the set was
\* read or the message had left.
DestroyedAsMeant ==
  [][\A s \in Sessions : cmd[s].do = "destroying" /\ cmd'[s] = Idle =>
       \A m \in DOMAIN server \ DOMAIN server' : <<view[s].box, m>> \in meant]_viewVars

\* A move takes a message from its mailbox only when it is in the other, unless
\* the server refused that message alone, another client was there, or the
\* destination is the mailbox itself: then the message is in no mailbox.
MoveNeverLoses ==
  [][\A s \in Sessions :
       LET l == LabelOf(s)
           c == cmd[s]
       IN c.do = "unlabelling" /\ cmd'[s] = Idle =>
            \A m \in (c.ids \cap DOMAIN server') \ c.refused :
              l \in server[m] \ server'[m] => c.dest \in server'[m] \/ c.dest = l]_viewVars
=============================================================================
