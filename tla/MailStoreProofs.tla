--------------------------- MODULE MailStoreProofs ---------------------------
(***************************************************************************)
(* Proofs about MailStore, for every set of labels and messages and every  *)
(* bound.  The operations of one bucket are proved right first; the proofs *)
(* about the actions only cite those lemmas.                               *)
(***************************************************************************)
EXTENDS MailStore, FiniteSetTheorems, TLAPS

\* One bucket f with counter s: what IInv says of each label.
BucketOK(f, s) ==
  /\ IsPartialFn(f, Uid, Msgs)
  /\ s \in 0 .. MaxUid
  /\ \A u \in DOMAIN f : u <= s
  /\ \A u, v \in DOMAIN f : f[u] = f[v] => u = v

\* The UID contract between two states of one bucket.
UidsKept(f, s, g, t) ==
  /\ t >= s
  /\ \A u \in DOMAIN g : u <= s => u \in DOMAIN f /\ g[u] = f[u]

-----------------------------------------------------------------------------
(* Finite sets of numbers: UIDs, and messages in the order of their IDs.    *)

Rank(S, m) == Cardinality({x \in S : x <= m})

\* Larger elements have larger ranks, which are positions in the set.
LEMMA RankGrows ==
  ASSUME NEW S \in SUBSET Nat, IsFiniteSet(S), NEW u \in S, NEW v \in S
  PROVE  /\ Rank(S, u) \in 1 .. Cardinality(S)
         /\ u < v => Rank(S, u) < Rank(S, v)
<1> DEFINE Upto(w) == {x \in S : x <= w}
<1>1. \A w \in S : IsFiniteSet(Upto(w)) /\ Cardinality(Upto(w)) \in Nat
  BY FS_Subset, FS_CardinalityType
<1>2. Cardinality(S) \in Nat /\ Cardinality(Upto(u)) <= Cardinality(S)
  BY FS_Subset, FS_CardinalityType
<1>3. Cardinality(Upto(u)) # 0
  BY <1>1, FS_EmptySet
<1>4. ASSUME u < v PROVE Cardinality(Upto(u)) < Cardinality(Upto(v))
  <2>1. u \in Nat /\ v \in Nat /\ \A x \in S : x \in Nat
    OBVIOUS
  <2>2. \A x \in S : x <= u => x <= v
    BY <1>4, <2>1
  <2>3. v <= v /\ ~(v <= u)
    BY <1>4, <2>1
  <2>4. Upto(u) \in SUBSET Upto(v) /\ v \in Upto(v) /\ v \notin Upto(u)
    BY <2>2, <2>3
  <2>5. /\ Cardinality(Upto(u)) <= Cardinality(Upto(v))
        /\ Cardinality(Upto(v)) = Cardinality(Upto(u)) => Upto(v) = Upto(u)
    BY <1>1, <2>4, FS_Subset
  <2> QED
    BY <1>1, <2>4, <2>5
<1> QED
  BY <1>1, <1>2, <1>3, <1>4 DEF Rank

\* Every position is the rank of an element.
LEMMA RankOnto ==
  ASSUME NEW S \in SUBSET Nat, IsFiniteSet(S), NEW n \in 1 .. Cardinality(S)
  PROVE  \E m \in S : Rank(S, m) = n
<1> DEFINE T == 1 .. Cardinality(S)
           rank == [m \in S |-> Rank(S, m)]
<1>1. Cardinality(S) \in Nat
  BY FS_CardinalityType
<1>2. IsFiniteSet(T) /\ Cardinality(T) = Cardinality(S)
  BY <1>1, FS_Interval
<1>3. rank \in [S -> T]
  BY RankGrows
<1>4. \A u, v \in S : rank[u] = rank[v] => u = v
  <2>1. \A u, v \in S : u < v => Rank(S, u) < Rank(S, v) /\ Rank(S, u) \in T /\ Rank(S, v) \in T
    BY RankGrows
  <2>2. \A u, v \in S : u < v \/ v < u \/ u = v
    OBVIOUS
  <2> QED
    BY <2>1, <2>2
<1>5. rank \in Injection(S, T)
  BY <1>3, <1>4 DEF Injection, IsInjective
<1>6. rank \in Surjection(S, T)
  BY <1>2, <1>5, FS_Injection
<1> QED
  BY <1>6 DEF Surjection

-----------------------------------------------------------------------------
(* One bucket.                                                             *)

\* In a bucket without duplicates the first match of a message is its entry
\* (mailboxDeleteMessage, FromApiID).
LEMMA FirstUidMatches ==
  ASSUME NEW f, NEW s, BucketOK(f, s), NEW m, Holds(f, m)
  PROVE  FirstUid(f, m) \in DOMAIN f /\ f[FirstUid(f, m)] = m
<1>1. PICK u \in DOMAIN f : f[u] = m
  BY DEF Holds
<1>2. \A v \in DOMAIN f : f[v] = m => u <= v
  BY <1>1 DEF BucketOK, IsPartialFn, Uid
<1> QED
  BY <1>1, <1>2 DEF FirstUid

\* The positions mailboxCreateMessage and mailboxDeleteMessage return are
\* numbers: a bucket is finite.
LEMMA PositionType ==
  ASSUME NEW f, NEW s, BucketOK(f, s), NEW m
  PROVE  PositionIn(f, m) \in Nat
<1>1. CASE Holds(f, m)
  <2> DEFINE S == {v \in DOMAIN f : v <= FirstUid(f, m)}
  <2>1. IsFiniteSet(1 .. MaxUid)
    BY FS_Interval, BoundsAssumption
  <2>2. S \in SUBSET (1 .. MaxUid)
    BY DEF BucketOK, IsPartialFn, Uid
  <2>3. Cardinality(S) \in Nat
    BY <2>1, <2>2, FS_Subset, FS_CardinalityType
  <2> QED
    BY <1>1, <2>3 DEF PositionIn, SeqNum
<1>2. CASE ~Holds(f, m)
  BY <1>2 DEF PositionIn
<1> QED
  BY <1>1, <1>2

\* mailboxCreateMessage keeps a bucket well formed and its UIDs in place, and
\* afterwards the bucket holds the message besides what it held.
LEMMA CreateInBucket ==
  ASSUME NEW f, NEW s, BucketOK(f, s), s + 1 <= MaxUid, NEW m \in Msgs
  PROVE  /\ BucketOK(CreateIn(f, s, m), SequenceAfter(f, s, m))
         /\ UidsKept(f, s, CreateIn(f, s, m), SequenceAfter(f, s, m))
         /\ \A n : Holds(CreateIn(f, s, m), n) <=> Holds(f, n) \/ n = m
<1>1. CASE Holds(f, m)
  BY <1>1, BoundsAssumption
  DEF CreateIn, SequenceAfter, UidsKept, BucketOK, IsPartialFn, Holds
<1>2. CASE ~Holds(f, m)
  <2> DEFINE g == Put(f, s + 1, m)
  <2>1. CreateIn(f, s, m) = g /\ SequenceAfter(f, s, m) = s + 1
    BY <1>2 DEF CreateIn, SequenceAfter
  <2>2. s + 1 \in Uid /\ s + 1 \notin DOMAIN f /\ s \in Nat
    BY BoundsAssumption DEF BucketOK, IsPartialFn, Uid
  <2>3. /\ DOMAIN g = DOMAIN f \cup {s + 1}
        /\ g[s + 1] = m
        /\ \A u \in DOMAIN f : g[u] = f[u]
    BY <2>2 DEF Put
  <2>4. IsPartialFn(g, Uid, Msgs)
    BY <2>2, <2>3 DEF Put, BucketOK, IsPartialFn
  <2>5. \A u \in DOMAIN g : u <= s + 1
    BY <2>2, <2>3 DEF BucketOK, IsPartialFn, Uid
  <2>6. \A u, v \in DOMAIN g : g[u] = g[v] => u = v
    BY <1>2, <2>3 DEF BucketOK, Holds
  <2>7. BucketOK(g, s + 1)
    BY <2>2, <2>4, <2>5, <2>6, BoundsAssumption DEF BucketOK
  <2>8. UidsKept(f, s, g, s + 1)
    BY <2>2, <2>3 DEF UidsKept
  <2>9. \A n : Holds(g, n) <=> Holds(f, n) \/ n = m
    BY <2>3 DEF Holds
  <2> QED
    BY <2>1, <2>7, <2>8, <2>9
<1> QED
  BY <1>1, <1>2

\* mailboxDeleteMessage keeps a bucket well formed and its UIDs in place, and
\* afterwards the bucket no longer holds the message.
LEMMA DeleteFromBucket ==
  ASSUME NEW f, NEW s, BucketOK(f, s), NEW m
  PROVE  /\ BucketOK(DeleteFrom(f, m), s)
         /\ UidsKept(f, s, DeleteFrom(f, m), s)
         /\ \A n : Holds(DeleteFrom(f, m), n) <=> Holds(f, n) /\ n # m
<1>1. CASE Holds(f, m)
  <2> DEFINE g == DeleteFrom(f, m)
             w == FirstUid(f, m)
  <2>1. w \in DOMAIN f /\ f[w] = m
    BY <1>1, FirstUidMatches
  <2>2. g = [u \in DOMAIN f \ {w} |-> f[u]]
    BY <1>1 DEF DeleteFrom
  <2> HIDE DEF g, w
  <2>3. BucketOK(g, s)
    BY <2>2 DEF BucketOK, IsPartialFn
  <2>4. UidsKept(f, s, g, s)
    BY <2>2, BoundsAssumption DEF UidsKept, BucketOK
  <2>5. \A n : Holds(g, n) <=> Holds(f, n) /\ n # m
    BY <2>1, <2>2 DEF Holds, BucketOK
  <2> QED
    BY <2>3, <2>4, <2>5 DEF g
<1>2. CASE ~Holds(f, m)
  BY <1>2, BoundsAssumption DEF DeleteFrom, UidsKept, BucketOK, Holds
<1> QED
  BY <1>1, <1>2

\* One page of Sync keeps a bucket well formed and its UIDs in place, and adds
\* its messages to those the bucket holds.
LEMMA AppendToBucket ==
  ASSUME NEW f, NEW s, BucketOK(f, s), NEW S \in SUBSET Msgs,
         NEW k \in Nat, s + k <= MaxUid,
         NEW order, IsOrder(order, k, NewIn(f, S))
  PROVE  /\ BucketOK(AppendTo(f, s, k, order), s + k)
         /\ UidsKept(f, s, AppendTo(f, s, k, order), s + k)
         /\ \A m : Holds(AppendTo(f, s, k, order), m) <=> Holds(f, m) \/ m \in S
<1> DEFINE g == AppendTo(f, s, k, order)
           new == s + 1 .. s + k
<1>1. s \in Nat /\ new \subseteq Uid /\ s + k \in 0 .. MaxUid
  BY BoundsAssumption DEF BucketOK, Uid
<1>2. \A u \in DOMAIN f : u \in Nat /\ u <= s /\ u \notin new
  BY <1>1 DEF BucketOK, IsPartialFn, Uid
<1>3. \A u \in new : u - s \in 1 .. k
  BY <1>1
<1>4. /\ DOMAIN g = DOMAIN f \cup new
      /\ \A u \in new : g[u] = order[u - s]
      /\ \A u \in DOMAIN f : g[u] = f[u]
  BY <1>2 DEF AppendTo
<1>5. \A u \in new : g[u] \in NewIn(f, S)
  BY <1>3, <1>4 DEF IsOrder
<1>6. IsPartialFn(g, Uid, Msgs)
  <2>1. DOMAIN g \subseteq Uid
    BY <1>1, <1>4 DEF BucketOK, IsPartialFn
  <2>2. \A u \in DOMAIN g : g[u] \in Msgs
    BY <1>4, <1>5 DEF BucketOK, IsPartialFn, NewIn
  <2> QED
    BY <2>1, <2>2 DEF AppendTo, IsPartialFn
<1>7. \A u \in DOMAIN g : u <= s + k
  BY <1>1, <1>2, <1>4
<1>8. \A u, v \in DOMAIN g : g[u] = g[v] => u = v
  <2>1. \A u, v \in DOMAIN f : g[u] = g[v] => u = v
    BY <1>4 DEF BucketOK
  <2>2. \A u \in DOMAIN f, v \in new : g[u] # g[v]
    BY <1>4, <1>5 DEF NewIn, Holds
  <2>3. \A u, v \in new : g[u] = g[v] => u = v
    BY <1>1, <1>3, <1>4 DEF IsOrder
  <2> QED
    BY <1>4, <2>1, <2>2, <2>3
<1>9. UidsKept(f, s, g, s + k)
  BY <1>1, <1>4 DEF UidsKept
<1>10. \A m : Holds(g, m) <=> Holds(f, m) \/ m \in S
  <2>1. ASSUME NEW m, Holds(g, m) PROVE Holds(f, m) \/ m \in S
    BY <1>4, <1>5, <2>1 DEF Holds, NewIn
  <2>2. ASSUME NEW m, Holds(f, m) PROVE Holds(g, m)
    BY <1>4, <2>2 DEF Holds
  <2>3. ASSUME NEW m \in S, ~Holds(f, m) PROVE Holds(g, m)
    <3>1. PICK i \in 1 .. k : order[i] = m
      BY <2>3 DEF IsOrder, NewIn
    <3>2. s + i \in new /\ (s + i) - s = i
      BY <1>1
    <3> QED
      BY <1>4, <3>1, <3>2 DEF Holds
  <2> QED
    BY <2>1, <2>2, <2>3
<1> QED
  BY <1>1, <1>6, <1>7, <1>8, <1>9, <1>10 DEF BucketOK

-----------------------------------------------------------------------------
(* The actions.  IInv is regrouped: what holds of each bucket, and the      *)
(* rest.  Every action is then shown to keep both and to honour the UID     *)
(* contract in every bucket it does not reset.                              *)

Buckets ==
  /\ DOMAIN content = Labels
  /\ DOMAIN sequence = Labels
  /\ sequence = [l \in Labels |-> sequence[l]]
  /\ \A l \in Labels : BucketOK(content[l], sequence[l])

Others ==
  /\ IsPartialFn(record, Msgs, SUBSET Labels)
  /\ hasRecords \in BOOLEAN
  /\ boxes \subseteq Labels
  /\ epoch \in [Labels -> 0 .. MaxEpoch]
  /\ IsPartialFn(reply.created, Labels, Nat)
  /\ IsPartialFn(reply.deleted, Labels, Nat)
  /\ NothingOutsideBuckets

UidContract ==
  \A l \in Labels :
    \/ epoch'[l] = epoch[l] /\ UidsKept(content[l], sequence[l], content'[l], sequence'[l])
    \/ epoch'[l] > epoch[l]

\* The inductive invariant said bucket by bucket.
LEMMA IInvRegrouped == IInv <=> Buckets /\ Others
<1>1. Buckets => sequence \in [Labels -> 0 .. MaxUid]
  BY DEF Buckets, BucketOK
<1> QED
  BY <1>1 DEF IInv, TypeOK, OneUidPerMessage, UidsIssued, Buckets, Others, BucketOK

\* The same of the next state.
LEMMA IInvRegroupedNext == IInv' <=> Buckets' /\ Others'
BY IInvRegrouped, PTL

\* A bucket just created is well formed.
LEMMA EmptyIsPartialFn == \A D, R : IsPartialFn(Empty, D, R)
BY DEF Empty, IsPartialFn

\* A bucket nobody touches keeps the UID contract.
LEMMA SameBucketKept ==
  ASSUME NEW f, NEW s, BucketOK(f, s)
  PROVE  UidsKept(f, s, f, s)
BY BoundsAssumption DEF BucketOK, UidsKept

\* The invariant holds before the first call.
LEMMA InitIInv == Init => IInv
<1> SUFFICES ASSUME Init PROVE Buckets /\ Others
  BY IInvRegrouped
<1>1. BucketOK(Empty, 0)
  BY EmptyIsPartialFn, BoundsAssumption DEF BucketOK, Empty
<1>2. Buckets
  BY <1>1 DEF Init, Buckets
<1>3. DOMAIN Empty = {}
  BY DEF Empty
<1>4. NothingOutsideBuckets
  BY <1>3 DEF Init, NothingOutsideBuckets
<1>5. reply.created = Empty /\ reply.deleted = Empty
  BY DEF Init
<1>6. epoch \in [Labels -> 0 .. MaxEpoch]
  BY BoundsAssumption DEF Init
<1>7. Others
  BY <1>4, <1>5, <1>6, EmptyIsPartialFn DEF Init, Others
<1> QED
  BY <1>2, <1>7

\* User.Mailbox keeps the invariant and the UID contract.
LEMMA MailboxStep ==
  ASSUME IInv, NEW l \in Labels, Mailbox(l)
  PROVE  Buckets' /\ Others' /\ UidContract
<1> USE IInvRegrouped DEF Mailbox, NoReply
<1>1. Buckets'
  BY DEF Buckets
<1>2. Others'
  BY EmptyIsPartialFn DEF Others, NothingOutsideBuckets
<1>3. UidContract
  BY SameBucketKept DEF UidContract, Buckets
<1> QED
  BY <1>1, <1>2, <1>3

\* User.CreateMessage keeps the invariant and the UID contract.
LEMMA CreateMessageStep ==
  ASSUME IInv, NEW m \in Msgs, NEW labels \in SUBSET Labels, CreateMessage(m, labels)
  PROVE  Buckets' /\ Others' /\ UidContract
<1>1. \A l \in labels : sequence[l] + 1 <= MaxUid
  BY DEF CreateMessage, Room
<1>2. \A l \in Labels : BucketOK(content[l], sequence[l])
  BY IInvRegrouped DEF Buckets
<1>3. ASSUME NEW l \in labels
      PROVE  /\ BucketOK(content'[l], sequence'[l])
             /\ UidsKept(content[l], sequence[l], content'[l], sequence'[l])
  BY <1>1, <1>2, <1>3, CreateInBucket DEF CreateMessage
<1>4. ASSUME NEW l \in Labels, l \notin labels
      PROVE  /\ BucketOK(content'[l], sequence'[l])
             /\ UidsKept(content[l], sequence[l], content'[l], sequence'[l])
             /\ content'[l] = content[l]
  BY <1>2, <1>4, SameBucketKept DEF CreateMessage
<1>5. Buckets'
  BY <1>3, <1>4 DEF CreateMessage, Buckets
<1>6. UidContract
  BY <1>3, <1>4 DEF CreateMessage, UidContract
<1>7. Others'
  <2>1. IsPartialFn(record', Msgs, SUBSET Labels)
    BY IInvRegrouped DEF CreateMessage, Put, IsPartialFn, Others
  <2>2. IsPartialFn(reply'.created, Labels, Nat) /\ IsPartialFn(reply'.deleted, Labels, Nat)
    <3>1. \A l \in labels : PositionIn(content'[l], m) \in Nat
      BY <1>3, PositionType
    <3> QED
      BY <3>1, EmptyIsPartialFn DEF CreateMessage, IsPartialFn
  <2>3. NothingOutsideBuckets'
    BY <1>4, IInvRegrouped DEF CreateMessage, NothingOutsideBuckets, Others
  <2> QED
    BY <2>1, <2>2, <2>3, IInvRegrouped DEF CreateMessage, Others
<1> QED
  BY <1>5, <1>6, <1>7

\* The labels an update adds, removes and leaves are labels (DiffLabelIDs,
\* Patch): a nil field never gets into a record.
LEMMA UpdateTypes ==
  ASSUME NEW upd \in Update, NEW current \in SUBSET Labels
  PROVE  /\ AddedLabels(upd, current) \in SUBSET Labels
         /\ RemovedLabels(upd, current) \in SUBSET Labels
         /\ Patched(upd, current) \in SUBSET Labels
<1>1. /\ upd.labels = Nil \/ upd.labels \in SUBSET Labels
      /\ upd.added = Nil \/ upd.added \in SUBSET Labels
      /\ upd.removed = Nil \/ upd.removed \in SUBSET Labels
  BY DEF Update, OptionalLabels
<1>2. CASE HasDelta(upd)
  BY <1>1, <1>2 DEF HasDelta, AddedLabels, RemovedLabels, Patched
<1>3. CASE ~HasDelta(upd)
  BY <1>1, <1>3 DEF AddedLabels, RemovedLabels, Patched
<1> QED
  BY <1>2, <1>3

\* User.UpdateMessage keeps both, with additions before removals.
LEMMA UpdateMessageStep ==
  ASSUME IInv, NEW m \in Msgs, NEW upd \in Update, UpdateMessage(m, upd)
  PROVE  Buckets' /\ Others' /\ UidContract
<1> DEFINE added   == AddedLabels(upd, record[m])
           removed == RemovedLabels(upd, record[m])
           grown   == [l \in Labels |->
             IF l \in added THEN CreateIn(content[l], sequence[l], m) ELSE content[l]]
<1>1. /\ m \in DOMAIN record
      /\ \A l \in added : sequence[l] + 1 <= MaxUid
      /\ record' = Put(record, m, Patched(upd, record[m]))
      /\ boxes' = boxes \cup added
      /\ content' = [l \in Labels |->
           IF l \in removed THEN DeleteFrom(grown[l], m) ELSE grown[l]]
      /\ sequence' = [l \in Labels |->
           IF l \in added THEN SequenceAfter(content[l], sequence[l], m) ELSE sequence[l]]
      /\ reply' = [created |-> [l \in added |-> PositionIn(grown[l], m)],
                   deleted |-> [l \in removed \cap boxes' |-> PositionIn(grown[l], m)]]
      /\ hasRecords /\ hasRecords' = hasRecords /\ epoch' = epoch
  BY DEF UpdateMessage, Room
<1>2. /\ added \in SUBSET Labels
      /\ removed \in SUBSET Labels
      /\ Patched(upd, record[m]) \in SUBSET Labels
  BY <1>1, IInvRegrouped, UpdateTypes DEF Others, IsPartialFn
<1>3. \A l \in Labels : BucketOK(content[l], sequence[l])
  BY IInvRegrouped DEF Buckets
<1> HIDE DEF added, removed
<1>4. \A l \in Labels : /\ BucketOK(grown[l], sequence'[l])
                        /\ UidsKept(content[l], sequence[l], grown[l], sequence'[l])
  <2>1. ASSUME NEW l \in added
        PROVE  /\ BucketOK(grown[l], sequence'[l])
               /\ UidsKept(content[l], sequence[l], grown[l], sequence'[l])
    BY <1>1, <1>2, <1>3, <2>1, CreateInBucket
  <2>2. ASSUME NEW l \in Labels, l \notin added
        PROVE  /\ BucketOK(grown[l], sequence'[l])
               /\ UidsKept(content[l], sequence[l], grown[l], sequence'[l])
    BY <1>1, <1>3, <2>2, SameBucketKept
  <2> QED
    BY <2>1, <2>2
<1>5. \A l \in Labels : \A u \in DOMAIN content'[l] :
        u \in DOMAIN grown[l] /\ content'[l][u] = grown[l][u]
  <2>1. ASSUME NEW l \in Labels
        PROVE  \A u \in DOMAIN DeleteFrom(grown[l], m) :
                 u \in DOMAIN grown[l] /\ DeleteFrom(grown[l], m)[u] = grown[l][u]
    BY DEF DeleteFrom
  <2> HIDE DEF grown
  <2> QED
    BY <1>1, <2>1
<1>6. \A l \in Labels : BucketOK(content'[l], sequence'[l])
  <2> HIDE DEF grown
  <2> QED
    BY <1>1, <1>4, DeleteFromBucket
<1>7. Buckets'
  BY <1>1, <1>6 DEF Buckets
<1>8. UidContract
  <2> HIDE DEF grown
  <2> QED
    BY <1>1, <1>4, <1>5 DEF UidContract, UidsKept
<1>9. Others'
  <2>1. IsPartialFn(record', Msgs, SUBSET Labels)
    BY <1>1, <1>2, IInvRegrouped DEF Put, IsPartialFn, Others
  <2>2. \A l \in Labels : PositionIn(grown[l], m) \in Nat
    <3> HIDE DEF grown
    <3> QED
      BY <1>4, PositionType
  <2>3. IsPartialFn(reply'.created, Labels, Nat) /\ IsPartialFn(reply'.deleted, Labels, Nat)
    <3> HIDE DEF grown
    <3> QED
      BY <1>1, <1>2, <2>2 DEF IsPartialFn
  <2>4. NothingOutsideBuckets'
    <3>1. \A l \in Labels : l \notin boxes' => DOMAIN grown[l] = {}
      BY <1>1, IInvRegrouped DEF Others, NothingOutsideBuckets
    <3> HIDE DEF grown
    <3>2. \A l \in Labels : l \notin boxes' => DOMAIN content'[l] = {}
      BY <1>5, <3>1
    <3> QED
      BY <1>1, <3>2 DEF NothingOutsideBuckets
  <2> QED
    BY <1>1, <1>2, <2>1, <2>3, <2>4, IInvRegrouped DEF Others
<1> QED
  BY <1>7, <1>8, <1>9

\* User.DeleteMessage keeps both.
LEMMA DeleteMessageStep ==
  ASSUME IInv, NEW m \in Msgs, DeleteMessage(m)
  PROVE  Buckets' /\ Others' /\ UidContract
<1>1. \A l \in Labels : BucketOK(content[l], sequence[l])
  BY IInvRegrouped DEF Buckets
<1>2. record[m] \in SUBSET Labels
  BY IInvRegrouped DEF DeleteMessage, Others, IsPartialFn
<1>3. \A l \in Labels :
        /\ BucketOK(content'[l], sequence'[l])
        /\ UidsKept(content[l], sequence[l], content'[l], sequence'[l])
  BY <1>1, DeleteFromBucket, SameBucketKept DEF DeleteMessage
<1>4. Buckets'
  BY <1>3, IInvRegrouped DEF DeleteMessage, Buckets
<1>5. UidContract
  BY <1>3 DEF DeleteMessage, UidContract
<1>6. Others'
  <2>1. IsPartialFn(record', Msgs, SUBSET Labels)
    BY IInvRegrouped DEF DeleteMessage, Others, IsPartialFn
  <2>2. \A l \in Labels : PositionIn(content[l], m) \in Nat
    BY <1>1, PositionType
  <2>3. IsPartialFn(reply'.created, Labels, Nat) /\ IsPartialFn(reply'.deleted, Labels, Nat)
    BY <1>2, <2>2, EmptyIsPartialFn DEF DeleteMessage, IsPartialFn
  <2>4. \A l \in Labels : DOMAIN content'[l] \subseteq DOMAIN content[l]
    BY DEF DeleteMessage, DeleteFrom
  <2>5. NothingOutsideBuckets'
    BY <2>4, IInvRegrouped DEF DeleteMessage, Others, NothingOutsideBuckets
  <2> QED
    BY <2>1, <2>3, <2>5, IInvRegrouped DEF DeleteMessage, Others
<1> QED
  BY <1>4, <1>5, <1>6

\* User.ResetMessages keeps both: it leaves the label buckets alone.
LEMMA ResetMessagesStep ==
  ASSUME IInv, ResetMessages
  PROVE  Buckets' /\ Others' /\ UidContract
<1> USE IInvRegrouped DEF ResetMessages, NoReply
<1>1. DOMAIN Empty = {}
  BY DEF Empty
<1>2. Buckets'
  BY DEF Buckets
<1>3. Others'
  BY <1>1, EmptyIsPartialFn DEF Others, NothingOutsideBuckets
<1>4. UidContract
  BY SameBucketKept DEF UidContract, Buckets
<1> QED
  BY <1>2, <1>3, <1>4

\* Mailbox.Sync keeps both for every page the API may list.
LEMMA SyncPageStep ==
  ASSUME IInv, NEW l \in Labels, SyncPage(l)
  PROVE  Buckets' /\ Others' /\ UidContract
<1>1. PICK S \in SUBSET Msgs :
        \E page \in [S -> {L \in SUBSET Labels : l \in L}] :
        \E k \in 0 .. PageSize :
        \E order \in [1 .. k -> NewIn(content[l], S)] :
          IsOrder(order, k, NewIn(content[l], S)) /\ Sync(l, page, k, order)
  BY DEF SyncPage
<1>2. PICK page \in [S -> {L \in SUBSET Labels : l \in L}], k \in 0 .. PageSize :
        \E order \in [1 .. k -> NewIn(content[l], S)] :
          IsOrder(order, k, NewIn(content[l], S)) /\ Sync(l, page, k, order)
  BY <1>1
<1>3. PICK order \in [1 .. k -> NewIn(content[l], S)] :
        IsOrder(order, k, NewIn(content[l], S)) /\ Sync(l, page, k, order)
  BY <1>2
<1>4. \A x \in Labels : BucketOK(content[x], sequence[x])
  BY IInvRegrouped DEF Buckets
<1>5. k \in Nat
  BY BoundsAssumption
<1>6. \A x \in Labels : x # l => content'[x] = content[x] /\ sequence'[x] = sequence[x]
  BY <1>3, IInvRegrouped DEF Sync, Buckets
<1>7. /\ content'[l] = AppendTo(content[l], sequence[l], k, order)
      /\ sequence'[l] = sequence[l] + k
  BY <1>3, IInvRegrouped DEF Sync, Buckets
<1>8. sequence[l] + k <= MaxUid
  BY <1>3 DEF Sync, Room
<1>9. /\ BucketOK(content'[l], sequence'[l])
      /\ UidsKept(content[l], sequence[l], content'[l], sequence'[l])
  BY <1>3, <1>4, <1>5, <1>7, <1>8, AppendToBucket
<1>10. \A x \in Labels :
        /\ BucketOK(content'[x], sequence'[x])
        /\ UidsKept(content[x], sequence[x], content'[x], sequence'[x])
  BY <1>4, <1>6, <1>9, SameBucketKept
<1>11. Buckets'
  BY <1>3, <1>10, IInvRegrouped DEF Sync, Buckets
<1>12. UidContract
  BY <1>3, <1>10 DEF Sync, UidContract
<1>13. Others'
  <2>1. IsPartialFn(record', Msgs, SUBSET Labels)
    BY <1>3, IInvRegrouped DEF Sync, Others, IsPartialFn
  <2>2. NothingOutsideBuckets'
    BY <1>3, <1>6, IInvRegrouped DEF Sync, Others, NothingOutsideBuckets
  <2> QED
    BY <1>3, <2>1, <2>2, EmptyIsPartialFn, IInvRegrouped DEF Sync, NoReply, Others
<1> QED
  BY <1>11, <1>12, <1>13

\* Mailbox.Reset keeps both at the price of a new UIDVALIDITY.
LEMMA ResetStep ==
  ASSUME IInv, NEW l \in Labels, Reset(l)
  PROVE  Buckets' /\ Others' /\ UidContract
<1>1. DOMAIN Empty = {}
  BY DEF Empty
<1>2. BucketOK(Empty, 0)
  BY <1>1, EmptyIsPartialFn, BoundsAssumption DEF BucketOK
<1>3. Buckets'
  BY <1>2, IInvRegrouped DEF Reset, Buckets
<1>4. epoch' \in [Labels -> 0 .. MaxEpoch] /\ epoch'[l] > epoch[l]
  BY BoundsAssumption, IInvRegrouped DEF Reset, Others
<1>5. Others'
  <2>1. NothingOutsideBuckets'
    BY <1>1, IInvRegrouped DEF Reset, Others, NothingOutsideBuckets, Buckets
  <2> QED
    BY <1>4, <2>1, EmptyIsPartialFn, IInvRegrouped DEF Reset, NoReply, Others
<1>6. UidContract
  <2>1. \A x \in Labels : x # l =>
          epoch'[x] = epoch[x] /\ content'[x] = content[x] /\ sequence'[x] = sequence[x]
    BY IInvRegrouped DEF Reset, Others, Buckets
  <2> QED
    BY <1>4, <2>1, SameBucketKept, IInvRegrouped DEF UidContract, Buckets
<1> QED
  BY <1>3, <1>5, <1>6

\* So does a step that changes nothing.
LEMMA StutterStep ==
  ASSUME IInv, UNCHANGED vars
  PROVE  Buckets' /\ Others' /\ UidContract
<1> USE IInvRegrouped DEF vars
<1>1. Buckets'
  BY DEF Buckets
<1>2. Others'
  BY DEF Others, NothingOutsideBuckets
<1>3. UidContract
  BY SameBucketKept DEF UidContract, Buckets
<1> QED
  BY <1>1, <1>2, <1>3

\* Every call keeps the invariant and the UID contract.
LEMMA NextStep == IInv /\ [Next]_vars => IInv' /\ UidContract
<1> SUFFICES ASSUME IInv, [Next]_vars
             PROVE  Buckets' /\ Others' /\ UidContract
  BY IInvRegroupedNext
<1>1. CASE UNCHANGED vars
  BY <1>1, StutterStep
<1>2. ASSUME NEW l \in Labels, Mailbox(l) \/ Reset(l) \/ SyncPage(l)
      PROVE  Buckets' /\ Others' /\ UidContract
  BY <1>2, MailboxStep, ResetStep, SyncPageStep
<1>3. ASSUME NEW m \in Msgs, NEW labels \in SUBSET Labels, CreateMessage(m, labels)
      PROVE  Buckets' /\ Others' /\ UidContract
  BY <1>3, CreateMessageStep
<1>4. ASSUME NEW m \in Msgs, NEW upd \in Update, UpdateMessage(m, upd)
      PROVE  Buckets' /\ Others' /\ UidContract
  BY <1>4, UpdateMessageStep
<1>5. ASSUME NEW m \in Msgs, DeleteMessage(m)
      PROVE  Buckets' /\ Others' /\ UidContract
  BY <1>5, DeleteMessageStep
<1>6. CASE ResetMessages
  BY <1>6, ResetMessagesStep
<1> QED
  BY <1>1, <1>2, <1>3, <1>4, <1>5, <1>6 DEF Next

-----------------------------------------------------------------------------
\* In every reachable state the store is well typed, holds every message at
\* most once per mailbox, and numbers it with a UID the bucket has issued:
\* no sequence of imap/database calls breaks the index.
THEOREM StoreInvariant == Spec => []IInv
<1>1. IInv /\ [Next]_vars => IInv'
  BY NextStep
<1> QED
  BY InitIInv, <1>1, PTL DEF Spec

\* A message never has two UIDs in one mailbox.
THEOREM NoDuplicateEntries == Spec => []OneUidPerMessage
<1>1. IInv => OneUidPerMessage
  BY DEF IInv
<1> QED
  BY StoreInvariant, <1>1, PTL

\* What the store's invariant and its UID contract come to in terms of IMAP.
LEMMA ContractIsImap == IInv /\ IInv' /\ UidContract => Imap!Next
<1> SUFFICES ASSUME IInv, IInv', UidContract PROVE Imap!Next
  OBVIOUS
<1>1. \A l \in Labels : BucketOK(content[l], sequence[l]) /\ sequence[l] \in Nat
  BY IInvRegrouped, BoundsAssumption DEF Buckets, BucketOK
<1>2. \A l \in Labels : BucketOK(content'[l], sequence'[l]) /\ sequence'[l] \in Nat
  BY IInvRegroupedNext, BoundsAssumption DEF Buckets, BucketOK
<1>3. ASSUME NEW l \in Labels
      PROVE  Imap!BelowNext(content'[l], [x \in Labels |-> sequence'[x] + 1][l])
  BY <1>2 DEF Imap!BelowNext, BucketOK, IsPartialFn, Uid
<1>4. ASSUME NEW l \in Labels, epoch'[l] > epoch[l]
      PROVE  Imap!Renumber(l)
  BY <1>4 DEF Imap!Renumber
<1>5. ASSUME NEW l \in Labels, epoch'[l] = epoch[l],
             UidsKept(content[l], sequence[l], content'[l], sequence'[l])
      PROVE  Imap!Extend(l)
  BY <1>1, <1>2, <1>5 DEF Imap!Extend, UidsKept, BucketOK, IsPartialFn, Uid
<1> QED
  BY <1>3, <1>4, <1>5 DEF UidContract, Imap!Next

\* The store implements the UID contract of IMAP, a reset of a bucket being a
\* change of UIDVALIDITY: between resets no UID is ever given to another
\* message, whatever is created, moved, deleted or synchronised.
THEOREM StoreImplementsUidMailbox == Spec => ImplementsUidMailbox
<1>1. Init => Imap!Init
  BY BoundsAssumption DEF Init, Imap!Init, Empty
<1>2. IInv /\ [Next]_vars => IInv' /\ UidContract
  BY NextStep
<1> QED
  BY <1>1, <1>2, ContractIsImap, StoreInvariant, PTL DEF Spec, ImplementsUidMailbox, Imap!Spec

-----------------------------------------------------------------------------
(* The positions the calls return.                                         *)

\* The positions of a bucket's entries are different.
LEMMA PositionsDiffer ==
  ASSUME NEW f, NEW s, BucketOK(f, s), NEW u \in DOMAIN f, NEW v \in DOMAIN f,
         SeqNum(f, u) = SeqNum(f, v)
  PROVE  u = v
<1> DEFINE Upto(w) == {x \in DOMAIN f : x <= w}
<1>1. IsFiniteSet(DOMAIN f)
  <2>1. IsFiniteSet(1 .. MaxUid)
    BY FS_Interval, BoundsAssumption
  <2>2. DOMAIN f \in SUBSET (1 .. MaxUid)
    BY DEF BucketOK, IsPartialFn, Uid
  <2> QED
    BY <2>1, <2>2, FS_Subset
<1>2. \A w \in DOMAIN f : IsFiniteSet(Upto(w))
  BY <1>1, FS_Subset
<1>3. \A w \in DOMAIN f : w \in Nat
  BY DEF BucketOK, IsPartialFn, Uid
<1>4. u \in Upto(u) /\ v \in Upto(v)
  BY <1>3
<1>5. CASE u <= v
  <2>1. Upto(u) \in SUBSET Upto(v)
    BY <1>3, <1>5
  <2>2. Upto(u) = Upto(v)
    BY <1>2, <2>1, FS_Subset DEF SeqNum
  <2>3. v <= u
    BY <1>4, <2>2
  <2> QED
    BY <1>3, <1>5, <2>3
<1>6. CASE v <= u
  <2>1. Upto(v) \in SUBSET Upto(u)
    BY <1>3, <1>6
  <2>2. Upto(v) = Upto(u)
    BY <1>2, <2>1, FS_Subset DEF SeqNum
  <2>3. u <= v
    BY <1>4, <2>2
  <2> QED
    BY <1>3, <1>6, <2>3
<1> QED
  BY <1>3, <1>5, <1>6

\* A new entry is the last: mailboxCreateMessage returns the size of the bucket.
LEMMA CreatedIsLast ==
  ASSUME NEW f, NEW s, BucketOK(f, s), s + 1 <= MaxUid, NEW m \in Msgs, ~Holds(f, m)
  PROVE  PositionIn(CreateIn(f, s, m), m) = Cardinality(DOMAIN CreateIn(f, s, m))
<1> DEFINE g == CreateIn(f, s, m)
<1>1. /\ BucketOK(g, s + 1) /\ Holds(g, m) /\ s \in Nat
  <2>1. BucketOK(CreateIn(f, s, m), SequenceAfter(f, s, m)) /\ Holds(CreateIn(f, s, m), m)
    BY CreateInBucket
  <2>2. SequenceAfter(f, s, m) = s + 1 /\ s \in Nat
    BY BoundsAssumption DEF SequenceAfter, BucketOK
  <2> QED
    BY <2>1, <2>2
<1>2. DOMAIN g = DOMAIN f \cup {s + 1} /\ g[s + 1] = m
  BY DEF CreateIn, Put
<1> HIDE DEF g
<1>3. FirstUid(g, m) \in DOMAIN g /\ g[FirstUid(g, m)] = m
  BY <1>1, FirstUidMatches
<1>4. FirstUid(g, m) = s + 1
  BY <1>1, <1>2, <1>3 DEF BucketOK
<1>5. {v \in DOMAIN g : v <= s + 1} = DOMAIN g
  BY <1>1 DEF BucketOK
<1>6. PositionIn(g, m) = SeqNum(g, s + 1)
  BY <1>1, <1>4 DEF PositionIn
<1>7. SeqNum(g, s + 1) = Cardinality(DOMAIN g)
  BY <1>5 DEF SeqNum
<1> QED
  BY <1>6, <1>7 DEF g

\* The entry that goes is the one at the position mailboxDeleteMessage returns.
LEMMA DeletedWasThere ==
  ASSUME NEW f, NEW s, BucketOK(f, s), NEW m, Holds(f, m)
  PROVE  DOMAIN DeleteFrom(f, m) = {u \in DOMAIN f : SeqNum(f, u) # PositionIn(f, m)}
<1> DEFINE w == FirstUid(f, m)
<1>1. w \in DOMAIN f
  BY FirstUidMatches
<1>2. DOMAIN DeleteFrom(f, m) = DOMAIN f \ {w}
  BY DEF DeleteFrom
<1>3. PositionIn(f, m) = SeqNum(f, w)
  BY DEF PositionIn
<1> HIDE DEF w
<1>4. \A u \in DOMAIN f : SeqNum(f, u) = SeqNum(f, w) => u = w
  BY <1>1, PositionsDiffer
<1> QED
  BY <1>1, <1>2, <1>3, <1>4

\* What a reply says of the mailbox l, and of every mailbox.
Announced(l) ==
  (l \in DOMAIN reply'.created \ DOMAIN reply'.deleted /\ sequence'[l] # sequence[l])
    => reply'.created[l] = Cardinality(DOMAIN content'[l])

Expunged(l) ==
  (l \in DOMAIN reply'.deleted \ DOMAIN reply'.created /\ content'[l] # content[l])
    => DOMAIN content'[l] = {u \in DOMAIN content[l] : SeqNum(content[l], u) # reply'.deleted[l]}

Followable == \A l \in Labels : Announced(l) /\ Expunged(l)

\* A call that answers nothing, or changes nothing.
LEMMA SilentFollowable ==
  ASSUME NoReply \/ UNCHANGED vars
  PROVE  Followable
<1>1. DOMAIN Empty = {}
  BY DEF Empty
<1>2. CASE NoReply
  BY <1>1, <1>2 DEF NoReply, Followable, Announced, Expunged
<1>3. CASE UNCHANGED vars
  BY <1>3 DEF vars, Followable, Announced, Expunged
<1> QED
  BY <1>2, <1>3

\* User.CreateMessage announces what is new in a mailbox at its end.
LEMMA CreateFollowable ==
  ASSUME IInv, NEW m \in Msgs, NEW labels \in SUBSET Labels, CreateMessage(m, labels)
  PROVE  Followable
<1>1. DOMAIN reply'.deleted = {} /\ DOMAIN reply'.created = labels
  BY DEF CreateMessage, Empty
<1>2. ASSUME NEW l \in labels, sequence'[l] # sequence[l]
      PROVE  reply'.created[l] = Cardinality(DOMAIN content'[l])
  <2>1. /\ BucketOK(content[l], sequence[l]) /\ sequence[l] + 1 <= MaxUid
    BY IInvRegrouped DEF Buckets, CreateMessage, Room
  <2>2. /\ content'[l] = CreateIn(content[l], sequence[l], m)
        /\ sequence'[l] = SequenceAfter(content[l], sequence[l], m)
        /\ reply'.created[l] = PositionIn(content'[l], m)
    BY DEF CreateMessage
  <2>3. ~Holds(content[l], m)
    BY <1>2, <2>2 DEF SequenceAfter
  <2> QED
    BY <2>1, <2>2, <2>3, CreatedIsLast
<1> QED
  BY <1>1, <1>2 DEF Followable, Announced, Expunged

\* User.UpdateMessage adds first: a mailbox it only adds to, or only removes
\* from, is answered for as it then is, or was.
LEMMA UpdateFollowable ==
  ASSUME IInv, NEW m \in Msgs, NEW upd \in Update, UpdateMessage(m, upd)
  PROVE  Followable
<1> DEFINE added   == AddedLabels(upd, record[m])
           removed == RemovedLabels(upd, record[m])
           grown   == [l \in Labels |->
             IF l \in added THEN CreateIn(content[l], sequence[l], m) ELSE content[l]]
<1>1. /\ m \in DOMAIN record
      /\ \A l \in added : sequence[l] + 1 <= MaxUid
      /\ boxes' = boxes \cup added
      /\ content' = [l \in Labels |->
           IF l \in removed THEN DeleteFrom(grown[l], m) ELSE grown[l]]
      /\ sequence' = [l \in Labels |->
           IF l \in added THEN SequenceAfter(content[l], sequence[l], m) ELSE sequence[l]]
      /\ reply' = [created |-> [l \in added |-> PositionIn(grown[l], m)],
                   deleted |-> [l \in removed \cap boxes' |-> PositionIn(grown[l], m)]]
  BY DEF UpdateMessage, Room
<1>2. added \in SUBSET Labels /\ removed \in SUBSET Labels
  BY <1>1, IInvRegrouped, UpdateTypes DEF Others, IsPartialFn
<1> HIDE DEF added, removed
<1>3. \A l \in Labels : BucketOK(content[l], sequence[l])
  BY IInvRegrouped DEF Buckets
<1>4. DOMAIN reply'.created = added /\ DOMAIN reply'.deleted = removed \cap boxes'
  BY <1>1
<1>5. ASSUME NEW l \in Labels, l \in added, l \notin removed \cap boxes',
             sequence'[l] # sequence[l]
      PROVE  reply'.created[l] = Cardinality(DOMAIN content'[l])
  <2>1. l \notin removed
    BY <1>1, <1>5
  <2>2. /\ content'[l] = CreateIn(content[l], sequence[l], m)
        /\ sequence'[l] = SequenceAfter(content[l], sequence[l], m)
        /\ reply'.created[l] = PositionIn(CreateIn(content[l], sequence[l], m), m)
    BY <1>1, <1>5, <2>1
  <2>3. ~Holds(content[l], m)
    BY <1>5, <2>2 DEF SequenceAfter
  <2> QED
    BY <1>1, <1>3, <1>5, <2>2, <2>3, CreatedIsLast
<1>6. ASSUME NEW l \in Labels, l \in removed \cap boxes', l \notin added,
             content'[l] # content[l]
      PROVE  DOMAIN content'[l] =
               {u \in DOMAIN content[l] : SeqNum(content[l], u) # reply'.deleted[l]}
  <2>1. /\ content'[l] = DeleteFrom(content[l], m)
        /\ reply'.deleted[l] = PositionIn(content[l], m)
    BY <1>1, <1>6
  <2>2. Holds(content[l], m)
    BY <1>6, <2>1 DEF DeleteFrom
  <2>3. DOMAIN DeleteFrom(content[l], m) =
          {u \in DOMAIN content[l] : SeqNum(content[l], u) # PositionIn(content[l], m)}
    BY <1>3, <2>2, DeletedWasThere
  <2> QED
    BY <2>1, <2>3
<1> HIDE DEF grown
<1> QED
  BY <1>4, <1>5, <1>6 DEF Followable, Announced, Expunged

\* User.DeleteMessage answers for the mailboxes as they were.
LEMMA DeleteFollowable ==
  ASSUME IInv, NEW m \in Msgs, DeleteMessage(m)
  PROVE  Followable
<1>1. DOMAIN reply'.created = {} /\ DOMAIN reply'.deleted = record[m] \cap boxes
  BY DEF DeleteMessage, Empty
<1>2. ASSUME NEW l \in Labels, l \in record[m] \cap boxes, content'[l] # content[l]
      PROVE  DOMAIN content'[l] =
               {u \in DOMAIN content[l] : SeqNum(content[l], u) # reply'.deleted[l]}
  <2>1. /\ content'[l] = DeleteFrom(content[l], m)
        /\ reply'.deleted[l] = PositionIn(content[l], m)
    BY <1>2 DEF DeleteMessage
  <2>2. Holds(content[l], m) /\ BucketOK(content[l], sequence[l])
    BY <1>2, <2>1, IInvRegrouped DEF DeleteFrom, Buckets
  <2>3. DOMAIN DeleteFrom(content[l], m) =
          {u \in DOMAIN content[l] : SeqNum(content[l], u) # PositionIn(content[l], m)}
    BY <2>2, DeletedWasThere
  <2> QED
    BY <2>1, <2>3
<1> QED
  BY <1>1, <1>2 DEF Followable, Announced, Expunged

\* Whichever call it is, its numbers can be followed.
LEMMA NextFollowable == IInv /\ [Next]_vars => Followable
<1> SUFFICES ASSUME IInv, [Next]_vars PROVE Followable
  OBVIOUS
<1>1. CASE UNCHANGED vars
  BY <1>1, SilentFollowable
<1>2. ASSUME NEW l \in Labels, Mailbox(l) \/ Reset(l) \/ SyncPage(l)
      PROVE  Followable
  BY <1>2, SilentFollowable DEF Mailbox, Reset, SyncPage, Sync
<1>3. ASSUME NEW m \in Msgs, NEW labels \in SUBSET Labels, CreateMessage(m, labels)
      PROVE  Followable
  BY <1>3, CreateFollowable
<1>4. ASSUME NEW m \in Msgs, NEW upd \in Update, UpdateMessage(m, upd)
      PROVE  Followable
  BY <1>4, UpdateFollowable
<1>5. ASSUME NEW m \in Msgs, DeleteMessage(m)
      PROVE  Followable
  BY <1>5, DeleteFollowable
<1>6. CASE ResetMessages
  BY <1>6, SilentFollowable DEF ResetMessages
<1> QED
  BY <1>1, <1>2, <1>3, <1>4, <1>5, <1>6 DEF Next

\* What every call returns is what a client needs to follow the mailbox by
\* EXISTS and EXPUNGE: the scans of imap/database count the entries in the
\* order of their UIDs, before a removal and after an addition.
THEOREM RepliesAreFollowable == Spec => RepliesFollowable
<1>1. Followable =>
        \A l \in Labels :
          /\ (/\ l \in DOMAIN reply'.created \ DOMAIN reply'.deleted
              /\ sequence'[l] # sequence[l])
             => reply'.created[l] = Cardinality(DOMAIN content'[l])
          /\ (/\ l \in DOMAIN reply'.deleted \ DOMAIN reply'.created
              /\ content'[l] # content[l])
             => DOMAIN content'[l] =
                  {u \in DOMAIN content[l] : SeqNum(content[l], u) # reply'.deleted[l]}
  BY DEF Followable, Announced, Expunged
<1> QED
  BY <1>1, NextFollowable, StoreInvariant, PTL DEF Spec, RepliesFollowable

-----------------------------------------------------------------------------
(* The index of buckets under the event handlers.                          *)

\* DiffLabelIDs and Patch agree on every update whose two forms agree: moving
\* the entries by the difference leaves the message under the patched labels.
LEMMA DiffMatchesPatch ==
  ASSUME NEW upd \in Update, NEW current \in SUBSET Labels, Coherent(upd, current)
  PROVE  Patched(upd, current) =
           (current \cup AddedLabels(upd, current)) \ RemovedLabels(upd, current)
<1>1. CASE HasDelta(upd)
  BY <1>1 DEF Coherent, HasDelta, Patched, AddedLabels, RemovedLabels
<1>2. CASE ~HasDelta(upd) /\ upd.labels = Nil
  BY <1>2 DEF Patched, AddedLabels, RemovedLabels
<1>3. CASE ~HasDelta(upd) /\ upd.labels # Nil
  BY <1>3 DEF Patched, AddedLabels, RemovedLabels
<1> QED
  BY <1>1, <1>2, <1>3

\* A mailbox that is opened, and a message created without losing a label,
\* keep the index exact.
LEMMA CreateKeepsIndex ==
  ASSUME IInv, IndexExact, NEW m \in Msgs, NEW labels \in SUBSET Labels,
         m \in DOMAIN record => record[m] \subseteq labels,
         CreateMessage(m, labels)
  PROVE  IndexExact'
<1> SUFFICES ASSUME NEW n \in Msgs, NEW l \in Labels
             PROVE  Holds(content'[l], n) <=> n \in DOMAIN record' /\ l \in record'[n]
  BY DEF IndexExact, Indexed
<1>1. Holds(content[l], n) <=> n \in DOMAIN record /\ l \in record[n]
  BY DEF IndexExact, Indexed
<1>2. /\ DOMAIN record' = DOMAIN record \cup {m}
      /\ record'[m] = labels
      /\ \A x \in DOMAIN record : x # m => record'[x] = record[x]
  BY DEF CreateMessage, Put
<1>3. CASE l \in labels
  <2>1. BucketOK(content[l], sequence[l]) /\ sequence[l] + 1 <= MaxUid
    BY <1>3, IInvRegrouped DEF Buckets, CreateMessage, Room
  <2>2. Holds(content'[l], n) <=> Holds(content[l], n) \/ n = m
    BY <1>3, <2>1, CreateInBucket DEF CreateMessage
  <2> QED
    BY <1>1, <1>2, <1>3, <2>2
<1>4. CASE l \notin labels
  <2>1. content'[l] = content[l]
    BY <1>4 DEF CreateMessage
  <2> QED
    BY <1>1, <1>2, <1>4, <2>1
<1> QED
  BY <1>3, <1>4

\* A coherent update moves the message to exactly its new labels.
LEMMA UpdateKeepsIndex ==
  ASSUME IInv, IndexExact, NEW m \in DOMAIN record, NEW upd \in Update,
         Coherent(upd, record[m]), UpdateMessage(m, upd)
  PROVE  IndexExact'
<1> DEFINE added   == AddedLabels(upd, record[m])
           removed == RemovedLabels(upd, record[m])
           grown   == [l \in Labels |->
             IF l \in added THEN CreateIn(content[l], sequence[l], m) ELSE content[l]]
<1>1. m \in Msgs /\ record[m] \in SUBSET Labels
  BY IInvRegrouped DEF Others, IsPartialFn
<1>2. /\ \A l \in added : sequence[l] + 1 <= MaxUid
      /\ record' = Put(record, m, Patched(upd, record[m]))
      /\ content' = [l \in Labels |->
           IF l \in removed THEN DeleteFrom(grown[l], m) ELSE grown[l]]
  BY DEF UpdateMessage, Room
<1>3. record' = Put(record, m, (record[m] \cup added) \ removed)
  BY <1>1, <1>2, DiffMatchesPatch
<1> SUFFICES ASSUME NEW n \in Msgs, NEW l \in Labels
             PROVE  Holds(content'[l], n) <=> n \in DOMAIN record' /\ l \in record'[n]
  BY DEF IndexExact, Indexed
<1> HIDE DEF added, removed
<1>4. BucketOK(content[l], sequence[l])
  BY IInvRegrouped DEF Buckets
<1>5. \E t : BucketOK(grown[l], t)
  BY <1>1, <1>2, <1>4, CreateInBucket
<1>6. Holds(grown[l], n) <=> Holds(content[l], n) \/ (l \in added /\ n = m)
  BY <1>1, <1>2, <1>4, CreateInBucket
<1> HIDE DEF grown
<1>7. Holds(content'[l], n) <=> Holds(grown[l], n) /\ ~(l \in removed /\ n = m)
  BY <1>2, <1>5, DeleteFromBucket
<1>8. Holds(content[l], n) <=> n \in DOMAIN record /\ l \in record[n]
  BY DEF IndexExact, Indexed
<1>9. /\ DOMAIN record' = DOMAIN record
      /\ record'[m] = (record[m] \cup added) \ removed
      /\ \A x \in DOMAIN record : x # m => record'[x] = record[x]
  BY <1>3 DEF Put
<1> QED
  BY <1>6, <1>7, <1>8, <1>9

\* A deletion takes the message out of every bucket that holds it.
LEMMA DeleteKeepsIndex ==
  ASSUME IInv, IndexExact, NEW m \in Msgs, DeleteMessage(m)
  PROVE  IndexExact'
<1> SUFFICES ASSUME NEW n \in Msgs, NEW l \in Labels
             PROVE  Holds(content'[l], n) <=> n \in DOMAIN record' /\ l \in record'[n]
  BY DEF IndexExact, Indexed
<1>1. BucketOK(content[l], sequence[l])
  BY IInvRegrouped DEF Buckets
<1>2. Holds(content'[l], n) <=> Holds(content[l], n) /\ ~(l \in record[m] /\ n = m)
  BY <1>1, DeleteFromBucket DEF DeleteMessage
<1>3. Holds(content[l], n) <=> n \in DOMAIN record /\ l \in record[n]
  BY DEF IndexExact, Indexed
<1> QED
  BY <1>2, <1>3 DEF DeleteMessage

\* As long as only event handlers run, the buckets index the records exactly,
\* for every set of labels and messages and every coherent update: DiffLabelIDs
\* and Patch never disagree, and DeleteMessage finds every entry to remove.
THEOREM EventsKeepIndexExact == EventSpec => []IndexExact
<1>1. Init => IndexExact
  BY DEF Init, IndexExact, Indexed, Holds, Empty
<1>2. IInv /\ EventStep => [Next]_vars
  BY IInvRegrouped DEF EventStep, Next, Others, IsPartialFn
<1>3. IInv /\ IndexExact /\ [EventStep]_vars => IndexExact'
  <2> SUFFICES ASSUME IInv, IndexExact, [EventStep]_vars
               PROVE  IndexExact'
    OBVIOUS
  <2>1. CASE UNCHANGED vars
    BY <2>1 DEF vars, IndexExact, Indexed
  <2>2. ASSUME NEW l \in Labels, Mailbox(l)
        PROVE  IndexExact'
    BY <2>2 DEF Mailbox, IndexExact, Indexed
  <2> QED
    BY <2>1, <2>2, CreateKeepsIndex, UpdateKeepsIndex, DeleteKeepsIndex DEF EventStep
<1>4. IInv /\ [EventStep]_vars => IInv'
  BY <1>2, NextStep
<1> QED
  BY InitIInv, <1>1, <1>3, <1>4, PTL DEF EventSpec
=============================================================================
