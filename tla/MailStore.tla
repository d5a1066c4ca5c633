------------------------------ MODULE MailStore ------------------------------
(***************************************************************************)
(* The local message database of the IMAP bridge, imap/database.           *)
(*                                                                         *)
(* A bolt file holds one bucket of message records, keyed by API ID, and   *)
(* one bucket per label (an IMAP mailbox) that maps UIDs to API IDs.  Each *)
(* exported method runs in one bolt transaction, so each is one action.    *)
(* A method that returns an error changes nothing: its guard is the        *)
(* condition under which it succeeds.                                      *)
(***************************************************************************)
EXTENDS Naturals, FiniteSets

CONSTANTS
  Labels,   \* label IDs, one bucket each
  Msgs,     \* API IDs of messages
  MaxUid,   \* bound on the UIDs issued per bucket; 2^32 - 1 in the code
  MaxEpoch, \* bound on the resets of one bucket
  PageSize, \* bound on the messages of one Sync; 150 in the code
  Nil       \* Go's nil slice, which is not the empty slice

ASSUME BoundsAssumption == MaxUid \in Nat /\ MaxEpoch \in Nat /\ PageSize \in Nat

VARIABLES
  record,     \* messages bucket: LabelIDs of each stored message
  hasRecords, \* does the messages bucket exist?
  boxes,      \* the labels whose bucket exists
  sequence,   \* bolt's NextSequence counter of each label bucket
  content,    \* entries of each label bucket: UID -> API ID
  epoch,      \* history variable: how many times a bucket was recreated
  reply       \* sequence numbers returned by the last call, per label

vars == <<record, hasRecords, boxes, sequence, content, epoch, reply>>

Uid == 1 .. MaxUid

Empty == [x \in {} |-> 0]

IsPartialFn(f, D, R) == DOMAIN f \subseteq D /\ f \in [DOMAIN f -> R]

-----------------------------------------------------------------------------
(* One label bucket.                                                       *)

Holds(f, m) == \E u \in DOMAIN f : f[u] = m

\* The scan goes through the keys in UID order and stops at the first match.
FirstUid(f, m) ==
  CHOOSE u \in DOMAIN f : f[u] = m /\ \A v \in DOMAIN f : f[v] = m => u <= v

\* Mutant: positions counted from 0.
SeqNumFromZero(f, u) == Cardinality({v \in DOMAIN f : v < u})

\* A sequence number is the position of an entry in UID order.
SeqNum(f, u) == Cardinality({v \in DOMAIN f : v <= u})

Put(f, u, m) == [v \in DOMAIN f \cup {u} |-> IF v = u THEN m ELSE f[v]]

\* Mutants: no scan for the message; the counter is not advanced.
CreateInNoScan(f, s, m) == Put(f, s + 1, m)
SequenceStuck(f, s, m) == s

\* mailboxCreateMessage: a message already in the bucket keeps its UID.
CreateIn(f, s, m) == IF Holds(f, m) THEN f ELSE Put(f, s + 1, m)
SequenceAfter(f, s, m) == IF Holds(f, m) THEN s ELSE s + 1

\* Mutant: the entry stays.
DeleteFromNothing(f, m) == f

\* mailboxDeleteMessage: the first match only.
DeleteFrom(f, m) ==
  IF Holds(f, m) THEN [u \in DOMAIN f \ {FirstUid(f, m)} |-> f[u]] ELSE f

\* The position mailboxDeleteMessage returns, 0 when there is no match.
PositionIn(f, m) == IF Holds(f, m) THEN SeqNum(f, FirstUid(f, m)) ELSE 0

\* The bucket after a page: order is the part of the page it did not hold.
AppendTo(f, s, k, order) ==
  [u \in DOMAIN f \cup (s + 1 .. s + k) |->
     IF u \in s + 1 .. s + k THEN order[u - s] ELSE f[u]]

-----------------------------------------------------------------------------
(* Label changes carried by an update event (protonmail/events.go).  A     *)
(* field that is absent from the JSON is Nil.                              *)

OptionalLabels == (SUBSET Labels) \cup {Nil}

Update == [labels : OptionalLabels, added : OptionalLabels, removed : OptionalLabels]

HasDelta(upd) == upd.added # Nil /\ upd.removed # Nil

\* DiffLabelIDs
AddedLabels(upd, current) ==
  IF HasDelta(upd) THEN upd.added
  ELSE IF upd.labels = Nil THEN {} ELSE upd.labels \ current

\* Mutant: the operands of the difference swapped.
RemovedLabelsSwapped(upd, current) ==
  IF HasDelta(upd) THEN upd.removed
  ELSE IF upd.labels = Nil THEN {} ELSE upd.labels \ current

RemovedLabels(upd, current) ==
  IF HasDelta(upd) THEN upd.removed
  ELSE IF upd.labels = Nil THEN {} ELSE current \ upd.labels

\* Mutants: a missing LabelIDs taken for an empty change; additions applied
\* after removals.
PatchedNilLabels(upd, current) ==
  IF HasDelta(upd) THEN (current \cup upd.added) \ upd.removed ELSE upd.labels

PatchedAddLast(upd, current) ==
  IF upd.labels # Nil THEN upd.labels
  ELSE IF HasDelta(upd) THEN (current \ upd.removed) \cup upd.added
  ELSE current

\* Patch, the LabelIDs part
Patched(upd, current) ==
  IF upd.labels # Nil THEN upd.labels
  ELSE IF HasDelta(upd) THEN (current \cup upd.added) \ upd.removed
  ELSE current

-----------------------------------------------------------------------------
Init ==
  /\ record = Empty
  /\ hasRecords = FALSE
  /\ boxes = {}
  /\ sequence = [l \in Labels |-> 0]
  /\ content = [l \in Labels |-> Empty]
  /\ epoch = [l \in Labels |-> 0]
  /\ reply = [created |-> Empty, deleted |-> Empty]

\* Bound on the UIDs of a bucket: room for n more.
Room(l, n) == sequence[l] + n <= MaxUid

NoReply == reply' = [created |-> Empty, deleted |-> Empty]

\* Mutant: opening a mailbox recreates its bucket.
MailboxRecreates(l) ==
  /\ boxes' = boxes \cup {l}
  /\ sequence' = [sequence EXCEPT ![l] = 0]
  /\ content' = [content EXCEPT ![l] = Empty]
  /\ NoReply
  /\ UNCHANGED <<record, hasRecords, epoch>>

\* User.Mailbox: the bucket is created if it does not exist.
Mailbox(l) ==
  /\ boxes' = boxes \cup {l}
  /\ NoReply
  /\ UNCHANGED <<record, hasRecords, sequence, content, epoch>>

\* User.CreateMessage.  The record is overwritten, and the message is added
\* to the bucket of each of its labels; it leaves no bucket.
CreateMessage(m, labels) ==
  /\ \A l \in labels : Room(l, 1)
  /\ record' = Put(record, m, labels)
  /\ hasRecords' = TRUE
  /\ boxes' = boxes \cup labels
  /\ content' = [l \in Labels |->
       IF l \in labels THEN CreateIn(content[l], sequence[l], m) ELSE content[l]]
  /\ sequence' = [l \in Labels |->
       IF l \in labels THEN SequenceAfter(content[l], sequence[l], m) ELSE sequence[l]]
  /\ reply' = [created |-> [l \in labels |-> PositionIn(content'[l], m)],
               deleted |-> Empty]
  /\ UNCHANGED epoch

\* User.UpdateMessage: an error when the message has no record.  Additions
\* come first, then removals, and a removed label may have no bucket.
UpdateMessage(m, upd) ==
  LET added   == AddedLabels(upd, record[m])
      removed == RemovedLabels(upd, record[m])
      grown   == [l \in Labels |->
        IF l \in added THEN CreateIn(content[l], sequence[l], m) ELSE content[l]]
  IN
  /\ hasRecords
  /\ m \in DOMAIN record
  /\ \A l \in added : Room(l, 1)
  /\ record' = Put(record, m, Patched(upd, record[m]))
  /\ boxes' = boxes \cup added
  /\ content' = [l \in Labels |->
       IF l \in removed THEN DeleteFrom(grown[l], m) ELSE grown[l]]
  /\ sequence' = [l \in Labels |->
       IF l \in added THEN SequenceAfter(content[l], sequence[l], m) ELSE sequence[l]]
  /\ reply' = [created |-> [l \in added |-> PositionIn(grown[l], m)],
               deleted |-> [l \in removed \cap boxes' |-> PositionIn(grown[l], m)]]
  /\ UNCHANGED <<hasRecords, epoch>>

\* User.DeleteMessage: the record goes, and the message leaves the buckets
\* of the labels its record names, no other.  No error without a record.
DeleteMessage(m) ==
  /\ hasRecords
  /\ m \in DOMAIN record
  /\ record' = [n \in DOMAIN record \ {m} |-> record[n]]
  /\ content' = [l \in Labels |->
       IF l \in record[m] THEN DeleteFrom(content[l], m) ELSE content[l]]
  /\ reply' = [created |-> Empty,
               deleted |-> [l \in record[m] \cap boxes |-> PositionIn(content[l], m)]]
  /\ UNCHANGED <<hasRecords, boxes, sequence, epoch>>

\* User.ResetMessages: DeleteBucket, an error when there is none.
ResetMessages ==
  /\ hasRecords
  /\ hasRecords' = FALSE
  /\ record' = Empty
  /\ NoReply
  /\ UNCHANGED <<boxes, sequence, content, epoch>>

\* Mailbox.Sync of one page listed by the API: page gives the labels of each
\* of its messages, order enumerates the k of them the bucket does not hold.
Sync(l, page, k, order) ==
  /\ l \in boxes
  /\ Room(l, k)
  /\ content' = [content EXCEPT ![l] = AppendTo(content[l], sequence[l], k, order)]
  /\ sequence' = [sequence EXCEPT ![l] = @ + k]
  /\ record' = [m \in DOMAIN record \cup DOMAIN page |->
                  IF m \in DOMAIN page THEN page[m] ELSE record[m]]
  /\ hasRecords' = TRUE
  /\ NoReply
  /\ UNCHANGED <<boxes, epoch>>

\* Mailbox.Reset: the bucket is deleted and created again, with its counter.
Reset(l) ==
  /\ l \in boxes
  /\ epoch[l] < MaxEpoch
  /\ content' = [content EXCEPT ![l] = Empty]
  /\ sequence' = [sequence EXCEPT ![l] = 0]
  /\ epoch' = [epoch EXCEPT ![l] = @ + 1]
  /\ NoReply
  /\ UNCHANGED <<record, hasRecords, boxes>>

-----------------------------------------------------------------------------
(* The pages and orders Sync is called with: messages the API lists under  *)
(* l, and an enumeration of those that are new to the bucket.              *)

IsOrder(order, k, S) ==
  /\ order \in [1 .. k -> S]
  /\ \A m \in S : \E i \in 1 .. k : order[i] = m
  /\ \A i, j \in 1 .. k : order[i] = order[j] => i = j

NewIn(f, S) == {m \in S : ~Holds(f, m)}

SyncPage(l) ==
  \E S \in SUBSET Msgs :
    /\ Cardinality(S) <= PageSize
    /\ \E page \in [S -> {L \in SUBSET Labels : l \in L}] :
       \E k \in 0 .. PageSize :
       \E order \in [1 .. k -> NewIn(content[l], S)] :
         IsOrder(order, k, NewIn(content[l], S)) /\ Sync(l, page, k, order)

Next ==
  \/ \E l \in Labels : Mailbox(l) \/ Reset(l) \/ SyncPage(l)
  \/ \E m \in Msgs :
       \/ \E labels \in SUBSET Labels : CreateMessage(m, labels)
       \/ \E upd \in Update : UpdateMessage(m, upd)
       \/ DeleteMessage(m)
  \/ ResetMessages

Spec == Init /\ [][Next]_vars

-----------------------------------------------------------------------------
(* Properties.                                                             *)

\* Every variable has its type, and UIDs stay within the key space.
TypeOK ==
  /\ IsPartialFn(record, Msgs, SUBSET Labels)
  /\ hasRecords \in BOOLEAN
  /\ boxes \subseteq Labels
  /\ sequence \in [Labels -> 0 .. MaxUid]
  /\ DOMAIN content = Labels
  /\ \A l \in Labels : IsPartialFn(content[l], Uid, Msgs)
  /\ epoch \in [Labels -> 0 .. MaxEpoch]
  /\ IsPartialFn(reply.created, Labels, Nat)
  /\ IsPartialFn(reply.deleted, Labels, Nat)

\* A message has at most one UID in a mailbox, whatever the order in which
\* pages and events bring it: the scans stop at the first match, so a second
\* entry would survive a deletion and never be reported.
OneUidPerMessage ==
  \A l \in Labels : \A u, v \in DOMAIN content[l] :
    content[l][u] = content[l][v] => u = v

\* No entry has a UID that the bucket's counter has not issued.
UidsIssued ==
  \A l \in Labels : \A u \in DOMAIN content[l] : u <= sequence[l]

\* No entry exists outside a bucket, and no record outside the messages bucket.
NothingOutsideBuckets ==
  /\ \A l \in Labels : l \notin boxes => DOMAIN content[l] = {}
  /\ ~hasRecords => DOMAIN record = {}

\* The inductive invariant: a new UID is fresh only because no entry is above
\* the counter, whatever resets, pages and events came before.
IInv == TypeOK /\ OneUidPerMessage /\ UidsIssued /\ NothingOutsideBuckets

\* The numbers a call returns are those an IMAP client needs to follow the
\* mailbox by EXISTS and EXPUNGE alone: a new entry is announced at the end,
\* and a removal names the position of the entry that goes.
RepliesFollowable ==
  [][\A l \in Labels :
       /\ (/\ l \in DOMAIN reply'.created \ DOMAIN reply'.deleted
           /\ sequence'[l] # sequence[l])
          => reply'.created[l] = Cardinality(DOMAIN content'[l])
       /\ (/\ l \in DOMAIN reply'.deleted \ DOMAIN reply'.created
           /\ content'[l] # content[l])
          => DOMAIN content'[l] =
               {u \in DOMAIN content[l] : SeqNum(content[l], u) # reply'.deleted[l]}]_vars

\* The buckets index the labels of m exactly.
Indexed(m) ==
  \A l \in Labels :
    Holds(content[l], m) <=> (m \in DOMAIN record /\ l \in record[m])

\* The two forms of an update that carries both say the same.
Coherent(upd, current) ==
  (HasDelta(upd) /\ upd.labels # Nil) =>
    upd.labels = (current \cup upd.added) \ upd.removed

\* Steps of the event handlers alone, leaving out updates whose two forms
\* disagree and creations of a known message that drop one of its labels.
EventStep ==
  \/ \E m \in Msgs, labels \in SUBSET Labels :
       /\ m \in DOMAIN record => record[m] \subseteq labels
       /\ CreateMessage(m, labels)
  \/ \E m \in DOMAIN record, upd \in Update :
       /\ Coherent(upd, record[m])
       /\ UpdateMessage(m, upd)
  \/ \E m \in Msgs : DeleteMessage(m)
  \/ \E l \in Labels : Mailbox(l)

EventSpec == Init /\ [][EventStep]_vars

\* The event handlers keep the index of buckets exact: DiffLabelIDs, which
\* moves the entries, and Patch, which writes the record, decide separately
\* which form of an update to use and must come to the same labels, and a
\* deletion must find every bucket that holds the message from its record.
IndexExact == \A m \in Msgs : Indexed(m)

\* The store keeps the UID contract of IMAP if each reset of a bucket is seen
\* by clients as a new UIDVALIDITY.
Imap == INSTANCE UidMailbox WITH
  uidValidity <- epoch,
  uidNext     <- [l \in Labels |-> sequence[l] + 1],
  uids        <- content

ImplementsUidMailbox == Imap!Spec

\* The UIDVALIDITY that Status announces (imap/mailbox.go).
UidValidity == 1

\* The store keeps the UID contract under the UIDVALIDITY it announces, as
\* the comment at imap/mailbox.go:113 requires of a sync.
AnnouncedImap == INSTANCE UidMailbox WITH
  uidValidity <- [l \in Labels |-> UidValidity],
  uidNext     <- [l \in Labels |-> sequence[l] + 1],
  uids        <- content

KeepsAnnouncedUids == AnnouncedImap!Spec
=============================================================================
