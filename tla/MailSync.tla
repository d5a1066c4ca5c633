------------------------------ MODULE MailSync ------------------------------
(***************************************************************************)
(* How the local database follows the account: imap/user.go and            *)
(* imap/mailbox.go over imap/database, fed by events/events.go.            *)
(*                                                                         *)
(* A mailbox is listed page by page the first time a session uses it       *)
(* (mailbox.init), and from then on only events change it.  Listings and   *)
(* events come from the same server but are ordered by nothing: a page is  *)
(* asked for, answered and stored in separate steps, and events are        *)
(* applied in between, message by message.                                 *)
(*                                                                         *)
(* A refresh event resets mailboxes, records and the map of mailboxes one  *)
(* after the other.  Sessions go on using the mailbox objects they have    *)
(* selected, so that there may be several of one mailbox, each with its    *)
(* own mutex and its own idea of whether the bucket has been filled.       *)
(*                                                                         *)
(* The history variable excused collects the (mailbox, message) pairs for  *)
(* which the code has lost agreement with the account, with the reason.    *)
(***************************************************************************)
EXTENDS MailStore, Sequences

CONSTANTS
  MaxLog,      \* bound on the changes made on the server
  MaxRenewals, \* bound on the logins and refreshes of the account
  MaxErrors,   \* errors in a row that drop the cursor; 3 in the code
  EventForms   \* what an update event may carry: "labels", "delta" or "both"

ASSUME MailSyncAssumption ==
  /\ Msgs \subseteq Nat    \* API IDs, compared by the listing's sort
  /\ MaxLog \in Nat /\ MaxRenewals \in Nat \ {0} /\ MaxErrors \in Nat \ {0}
  /\ EventForms \subseteq {"labels", "delta", "both"}
  /\ \A labels \in SUBSET Labels : labels # Nil

VARIABLES
  server,   \* the account: labels of each of its messages
  log,      \* the changes of the account, in order
  renewals, \* logins and refreshes so far: each makes new mailbox objects
  cursor,   \* position in log the event stream asks from, or Unset
  errors,   \* consecutive errors of the event stream
  todo,     \* the items of the current event not yet applied
  refresh,  \* what is left to do of a refresh event
  handed,   \* history: position in log up to which items were received
  objects,  \* how many objects each mailbox has; the newest is in the map
  mbox,     \* [Labels -> [1 .. MaxRenewals -> the mailbox object]]
  filled,   \* history: [Labels -> who filled the bucket last, and since when]
  excused   \* history: <<label, message, reason>>

storeVars == <<record, hasRecords, boxes, sequence, content, epoch, reply>>
serverVars == <<server, log>>
streamVars == <<cursor, errors, todo, refresh, handed>>
boxVars == <<objects, mbox, filled>>
syncVars == <<storeVars, serverVars, streamVars, renewals, boxVars, excused>>

\* No cursor yet, and a cursor given up after errors: both ask for "latest".
NoCursor == MaxLog + 1
LostCursor == MaxLog + 2
Unset == {NoCursor, LostCursor}

\* A mailbox object: initialized is state "ready", and "absent" is one that a
\* failing refresh has not made.  While it lists, offset is where the next page
\* starts, total and page are the last answer; at is history, the position in
\* log of that answer.
Closed == [state |-> "closed", offset |-> 0, total |-> 0, page |-> Empty, at |-> 0]

\* filled[l] is history: by, the object whose listing last reset the bucket,
\* and since, the position whose changes the bucket reflects: where that listing
\* began, or the older change that an event or a page has taken it back to.
Unfilled == [by |-> 0, since |-> 0]

\* Stages of a refresh: the mailboxes in left, the records, the map.
NoRefresh == [stage |-> "none", left |-> {}]

Objects == 1 .. objects
InUse(l) == {g \in Objects : mbox[l][g].state \notin {"closed", "absent"}}

\* The mailboxes in the user's map.
Mapped == {l \in Labels : mbox[l][objects].state # "absent"}

Least(i, j) == IF i < j THEN i ELSE j

\* Position in log up to which changes were applied.
Applied == handed - Len(todo)

-----------------------------------------------------------------------------
(* The server, which the bridge only sees through listings and events.      *)

Item(kind, m, old, new) == [kind |-> kind, msg |-> m, old |-> old, new |-> new]

InLabel(l) == {m \in DOMAIN server : l \in server[m]}

\* The messages of S at positions i + 1 .. i + n in ID order.
Slice(S, i, n) == {m \in S : Cardinality({x \in S : x <= m}) \in i + 1 .. i + n}

Arrive(m, labels) ==
  /\ \A i \in DOMAIN log : log[i].msg # m
  /\ server' = Put(server, m, labels)
  /\ log' = Append(log, Item("create", m, {}, labels))

Relabel(m, labels) ==
  /\ m \in DOMAIN server
  /\ labels # server[m]
  /\ server' = Put(server, m, labels)
  /\ log' = Append(log, Item("update", m, server[m], labels))

Destroy(m) ==
  /\ m \in DOMAIN server
  /\ server' = [n \in DOMAIN server \ {m} |-> server[n]]
  /\ log' = Append(log, Item("delete", m, server[m], {}))

ServerStep ==
  /\ Len(log) < MaxLog
  /\ \E m \in Msgs :
       \/ \E labels \in SUBSET Labels : Arrive(m, labels) \/ Relabel(m, labels)
       \/ Destroy(m)
  /\ UNCHANGED <<storeVars, streamVars, renewals, boxVars, excused>>

-----------------------------------------------------------------------------
(* The event stream.  Its channel is unbuffered: the next event arrives     *)
(* when the previous one is done with.                                      *)

\* The changes no event will bring and that l does not reflect.
Later(l) ==
  IF InUse(l) = {} THEN {}
  ELSE {i \in handed + 1 .. Len(log) : i > filled[l].since}

\* The channel takes no event while another is handled.
Ranging == todo = << >> /\ refresh = NoRefresh

\* GetEvent("latest"): the stream starts behind the newest change.
FetchLatest ==
  /\ cursor \in Unset
  /\ Ranging
  /\ cursor' = Len(log)
  /\ handed' = Len(log)
  /\ errors' = 0
  /\ excused' = excused \cup
       LET reason == IF cursor = LostCursor THEN "skipped" ELSE "missed"
       IN UNION {{<<l, log[i].msg, reason>> : i \in Later(l)} : l \in Labels}
  /\ UNCHANGED <<storeVars, serverVars, todo, refresh, renewals, boxVars>>

\* GetEvent(last): some of the changes since, at least one if there is one.
FetchNext ==
  /\ cursor \notin Unset
  /\ Ranging
  /\ \E to \in cursor .. Len(log) :
       /\ to > cursor \/ cursor = Len(log)
       /\ todo' = SubSeq(log, cursor + 1, to)
       /\ cursor' = to
       /\ handed' = to
  /\ errors' = 0
  /\ UNCHANGED <<storeVars, serverVars, refresh, renewals, boxVars, excused>>

\* GetEvent(last) is answered with a refresh: the changes up to now are in no
\* event, and only mailboxes in the map are reset.
FetchRefresh ==
  /\ cursor \notin Unset
  /\ Ranging
  /\ renewals < MaxRenewals
  /\ cursor' = Len(log)
  /\ handed' = Len(log)
  /\ errors' = 0
  /\ refresh' = [stage |-> IF Mapped = {} THEN "records" ELSE "boxes", left |-> Mapped]
  /\ renewals' = renewals + 1
  /\ excused' = excused \cup
       UNION {{<<l, log[i].msg, "unmapped">> : i \in Later(l)} : l \in Labels \ Mapped}
  /\ UNCHANGED <<storeVars, serverVars, todo, boxVars>>

\* Mutant: the count of errors is not cleared when the cursor is given up.
FetchErrorCounts ==
  /\ cursor' = IF errors + 1 >= MaxErrors /\ cursor # NoCursor THEN LostCursor ELSE cursor
  /\ errors' = errors + 1
  /\ UNCHANGED <<storeVars, serverVars, todo, refresh, handed, renewals, boxVars, excused>>

\* An error; the cursor is given up after MaxErrors in a row.
FetchError ==
  /\ cursor' = IF errors + 1 >= MaxErrors /\ cursor # NoCursor THEN LostCursor ELSE cursor
  /\ errors' = (errors + 1) % MaxErrors
  /\ UNCHANGED <<storeVars, serverVars, todo, refresh, handed, renewals, boxVars, excused>>

-----------------------------------------------------------------------------
(* user.receiveEvents, one message of the event at a time.                  *)

LabelUpdate(item, form) ==
  [labels  |-> IF form \in {"labels", "both"} THEN item.new ELSE Nil,
   added   |-> IF form \in {"delta", "both"} THEN item.new \ item.old ELSE Nil,
   removed |-> IF form \in {"delta", "both"} THEN item.old \ item.new ELSE Nil]

\* The mailboxes the item does not set right because the record they are found
\* by disagrees with them: an update by label set compares the new labels with
\* the record's, and a delete only looks at the labels of the record.  Records
\* are left behind by a reset and overwritten by any page with the message.
Misfiled(item, form) ==
  LET m == item.msg
      hidden == {l \in Labels \ record[m] : Holds(content[l], m)}
      extra == {l \in record[m] : ~Holds(content[l], m)}
  IN IF m \notin DOMAIN record THEN {}
     ELSE IF item.kind = "delete" THEN hidden
     ELSE IF item.kind = "update" /\ form = "labels" THEN hidden \cup extra
     ELSE {}

ApplyItem ==
  /\ todo # << >>
  /\ todo' = Tail(todo)
  /\ LET item == Head(todo)
         m == item.msg
         MayMisfile(form) ==
           excused' = excused \cup {<<l, m, "misfiled">> : l \in Misfiled(item, form)}
     IN \/ /\ item.kind = "create"
           /\ CreateMessage(m, item.new)
           /\ UNCHANGED excused
        \/ /\ item.kind = "update"
           /\ \E form \in EventForms :
                UpdateMessage(m, LabelUpdate(item, form)) /\ MayMisfile(form)
        \* UpdateMessage finds no record: logged, and the update is dropped.
        \/ /\ item.kind = "update"
           /\ m \notin DOMAIN record
           /\ excused' = excused \cup {<<l, m, "dropped">> : l \in item.new}
           /\ UNCHANGED storeVars
        \/ /\ item.kind = "delete"
           /\ DeleteMessage(m) /\ MayMisfile("none")
        \/ /\ item.kind = "delete"
           /\ m \notin DOMAIN record
           /\ UNCHANGED <<storeVars, excused>>
  /\ filled' = [l \in Labels |-> [filled[l] EXCEPT !.since = Least(@, Applied + 1)]]
  /\ UNCHANGED <<serverVars, cursor, errors, refresh, handed, renewals, objects, mbox>>

-----------------------------------------------------------------------------
(* user.receiveEvents, a refresh event.                                     *)

\* The bucket is emptied, or left half filled, by one object of the mailbox
\* while another counts it as filled or goes on filling it.
Emptied(l, g) == IF InUse(l) \ {g} = {} THEN {} ELSE {<<l, m, "emptied">> : m \in Msgs}

\* Mutant: the object stays initialized.
ResetBoxKeepsReady(l) ==
  /\ refresh.stage = "boxes" /\ l \in refresh.left
  /\ mbox[l][objects].state \in {"closed", "ready"}
  /\ Reset(l)
  /\ refresh' = [stage |-> IF refresh.left = {l} THEN "records" ELSE "boxes",
                 left |-> refresh.left \ {l}]
  /\ UNCHANGED <<serverVars, cursor, errors, todo, handed, renewals, boxVars, excused>>

\* mailbox.reset of the object in the map, once no session is listing it.
ResetBox(l) ==
  /\ refresh.stage = "boxes" /\ l \in refresh.left
  /\ mbox[l][objects].state \in {"closed", "ready"}
  /\ Reset(l)
  /\ mbox' = [mbox EXCEPT ![l][objects] = Closed]
  /\ refresh' = [stage |-> IF refresh.left = {l} THEN "records" ELSE "boxes",
                 left |-> refresh.left \ {l}]
  /\ filled' = [filled EXCEPT ![l] = Unfilled]
  /\ excused' = excused \cup Emptied(l, objects)
  /\ UNCHANGED <<serverVars, cursor, errors, todo, handed, renewals, objects>>

\* User.ResetMessages, or its error, which is only logged.  A mailbox opened
\* again since its reset loses the records of what it has listed.
ResetRecords ==
  /\ refresh.stage = "records"
  /\ IF hasRecords THEN ResetMessages ELSE UNCHANGED storeVars
  /\ refresh' = [refresh EXCEPT !.stage = "map"]
  /\ excused' = excused \cup
       UNION {{<<l, m, "unrecorded">> : m \in {x \in Msgs : Holds(content[l], x)}} : l \in Labels}
  /\ UNCHANGED <<serverVars, cursor, errors, todo, handed, renewals, boxVars>>

\* initMailboxes: a new map with new objects, not all of them after an error.
RenewBoxes ==
  /\ refresh.stage = "map"
  /\ refresh' = NoRefresh
  /\ objects' = objects + 1
  /\ \E made \in SUBSET Labels :
       mbox' = [l \in Labels |-> [mbox[l] EXCEPT ![objects + 1].state =
                  IF l \in made THEN "closed" ELSE "absent"]]
  /\ UNCHANGED <<storeVars, serverVars, cursor, errors, todo, handed, renewals, filled, excused>>

-----------------------------------------------------------------------------
(* mailbox.init and mailbox.sync, under the object's mutex, which the event *)
(* handlers take for a refresh only.                                        *)

\* The first use of the object: its bucket is reset, the records stay.
Open(l, g) ==
  /\ mbox[l][g].state = "closed"
  /\ Reset(l)
  /\ mbox' = [mbox EXCEPT ![l][g].state = "asking"]
  /\ filled' = [filled EXCEPT ![l] = [by |-> g, since |-> Len(log)]]
  /\ excused' = {e \in excused : e[1] # l}
  /\ UNCHANGED <<serverVars, streamVars, renewals, objects>>

\* Will a change not yet applied bring m into l, or be excused if skipped?
Coming(l, m) ==
  \E i \in Applied + 1 .. Len(log) :
    /\ log[i].msg = m /\ l \in log[i].new \ log[i].old
    /\ i <= handed \/ i > filled[l].since

\* ListMessages answers for the current offset.  Messages that have slipped
\* below the offset since the earlier pages are in no page.
AskPage(l, g) ==
  LET S == InLabel(l)
      offset == mbox[l][g].offset
  IN
  /\ mbox[l][g].state = "asking"
  /\ mbox' = [mbox EXCEPT ![l][g].state = "storing",
                          ![l][g].total = Cardinality(S),
                          ![l][g].page = [m \in Slice(S, offset, PageSize) |-> server[m]],
                          ![l][g].at = Len(log)]
  /\ excused' = excused \cup
       {<<l, m, "shifted">> : m \in {x \in Slice(S, 0, offset) :
          filled[l].by = g /\ ~Holds(content[l], x) /\ ~Coming(l, x)}}
  /\ UNCHANGED <<storeVars, serverVars, streamVars, renewals, objects, filled>>

\* ListMessages fails: the object stays uninitialized, its next use resets the
\* bucket.
AskFails(l, g) ==
  /\ mbox[l][g].state = "asking"
  /\ mbox' = [mbox EXCEPT ![l][g] = Closed]
  /\ IF filled[l].by = g
       THEN filled' = [filled EXCEPT ![l] = Unfilled] /\ excused' = excused \cup Emptied(l, g)
       ELSE UNCHANGED <<filled, excused>>
  /\ UNCHANGED <<storeVars, serverVars, streamVars, renewals, objects>>

\* The messages a page brings in although an event applied since the answer
\* said otherwise.
Outdated(b) ==
  {m \in DOMAIN b.page : \E i \in b.at + 1 .. Applied : log[i].msg = m}

\* Mutant: the loop leaves out the last page.
PastTotalEarly(b) == b.offset + 2 * PageSize >= b.total

\* Is the next page past the total of the last answer?
PastTotal(b) == b.offset + PageSize > b.total

\* Mailbox.Sync stores the page; the loop ends when the offset passes total.
StorePage(l, g) ==
  LET b    == mbox[l][g]
      new  == NewIn(content[l], DOMAIN b.page)
      k    == Cardinality(new)
  IN
  /\ b.state = "storing"
  /\ Sync(l, b.page, k, [i \in 1 .. k |-> CHOOSE m \in new : Slice(new, i - 1, 1) = {m}])
  /\ mbox' = [mbox EXCEPT ![l][g] = [Closed EXCEPT
                !.state = IF PastTotal(b) THEN "ready" ELSE "asking",
                !.offset = b.offset + PageSize]]
  /\ filled' = [filled EXCEPT ![l].since = Least(@, b.at)]
  /\ excused' = excused \cup {<<x, m, "outdated">> : x \in Labels, m \in Outdated(b)}
  /\ UNCHANGED <<serverVars, streamVars, renewals, objects>>

\* The last session logs out and a new one logs in: new mailbox objects, the same
\* database, and either a new event receiver or, when the old one has not yet
\* seen that nobody is left, that one.  What was being applied is cut off.
Relogin ==
  /\ renewals < MaxRenewals
  /\ \A l \in Labels, g \in Objects : mbox[l][g].state \in {"absent", "closed", "ready"}
  /\ renewals' = renewals + 1
  /\ objects' = 1
  /\ mbox' = [l \in Labels |-> [g \in 1 .. MaxRenewals |-> Closed]]
  /\ todo' = << >>
  /\ refresh' = NoRefresh
  /\ \/ cursor' = NoCursor /\ errors' = 0
     \/ UNCHANGED <<cursor, errors>>
  /\ filled' = [l \in Labels |-> Unfilled]
  /\ UNCHANGED <<storeVars, serverVars, handed, excused>>

-----------------------------------------------------------------------------
\* The first login has just created the buckets of all mailboxes.
SyncInit ==
  /\ record = Empty
  /\ hasRecords = FALSE
  /\ boxes = Labels
  /\ sequence = [l \in Labels |-> 0]
  /\ content = [l \in Labels |-> Empty]
  /\ epoch = [l \in Labels |-> 0]
  /\ reply = [created |-> Empty, deleted |-> Empty]
  /\ server = Empty
  /\ log = << >>
  /\ renewals = 1
  /\ cursor = NoCursor
  /\ errors = 0
  /\ todo = << >>
  /\ refresh = NoRefresh
  /\ handed = 0
  /\ objects = 1
  /\ mbox = [l \in Labels |-> [g \in 1 .. MaxRenewals |-> Closed]]
  /\ filled = [l \in Labels |-> Unfilled]
  /\ excused = {}

SyncNext ==
  \/ ServerStep
  \/ FetchLatest \/ FetchNext \/ FetchRefresh \/ FetchError
  \/ ApplyItem
  \/ \E l \in Labels : ResetBox(l)
  \/ ResetRecords \/ RenewBoxes
  \/ \E l \in Labels, g \in Objects :
       Open(l, g) \/ AskPage(l, g) \/ AskFails(l, g) \/ StorePage(l, g)
  \/ Relogin

SyncSpec == SyncInit /\ [][SyncNext]_syncVars

-----------------------------------------------------------------------------
(* Properties.                                                             *)

\* Every variable of the composition has its type; the store keeps its own.
SyncTypeOK ==
  /\ TypeOK
  /\ IsPartialFn(server, Msgs, SUBSET Labels)
  /\ cursor \in 0 .. Len(log) \cup Unset
  /\ errors \in 0 .. MaxErrors - 1
  /\ Len(todo) <= handed /\ handed <= Len(log)
  /\ refresh.stage \in {"none", "boxes", "records", "map"} /\ refresh.left \subseteq Labels
  /\ objects \in 1 .. MaxRenewals
  /\ \A l \in Labels, g \in 1 .. MaxRenewals :
       mbox[l][g].state \in {"absent", "closed", "asking", "storing", "ready"}

Excused(l, m) == \E e \in excused : e[1] = l /\ e[2] = m

CaughtUp == Ranging /\ cursor = Len(log)

\* Initialized in some object, and no object is listing it.
Settled(l) ==
  /\ InUse(l) # {}
  /\ \A g \in InUse(l) : mbox[l][g].state = "ready"

\* When the event stream has caught up, an initialized mailbox holds exactly
\* the messages the account has under its label, whatever the interleaving of
\* listings, events and refreshes, except where an event came before the first
\* cursor, was skipped by a later one, dropped for want of a record or applied by
\* a record that disagrees with the mailbox; where a page was shifted or outdated;
\* where a refresh took the records of a mailbox in use, or passed over one that a
\* failing refresh had left out of the map; or where one object of a mailbox
\* emptied the bucket of another.
Convergence ==
  CaughtUp => \A l \in Labels : Settled(l) =>
    \A m \in Msgs : ~Excused(l, m) =>
      (Holds(content[l], m) <=> m \in InLabel(l))

\* A message listed in an initialized mailbox can be fetched: it has a record,
\* even while events are being applied.  A refresh deletes the records after the
\* mailboxes are usable again, and so excuses those opened in between.
EntryHasRecord ==
  \A l \in Labels : Settled(l) =>
    \A m \in Msgs : Holds(content[l], m) /\ ~Excused(l, m) => m \in DOMAIN record
=============================================================================
