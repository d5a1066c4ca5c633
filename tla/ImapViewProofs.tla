---------------------------- MODULE ImapViewProofs ----------------------------
(***************************************************************************)
(* Proofs about ImapView, for all sets of sessions, messages and mailboxes *)
(* and all bounds.  A bucket is first shown to be a list, from which a     *)
(* deletion takes one entry and to which a creation appends one; then what *)
(* a client knows is related to that list through the updates on their way *)
(* (Led), over events, listings and refreshes.                             *)
(***************************************************************************)
EXTENDS ImapView, MailStoreProofs, SequenceTheorems

-----------------------------------------------------------------------------
(* The n-th element of a finite set of numbers.                            *)

\* Every position is the rank of one element, which Nth finds.
LEMMA NthIs ==
  ASSUME NEW S \in SUBSET Nat, IsFiniteSet(S), NEW n \in 1 .. Cardinality(S)
  PROVE  Nth(S, n) \in S /\ Rank(S, Nth(S, n)) = n
BY RankOnto DEF Nth, Rank

\* Nth at the rank of an element is the element.
LEMMA NthOfRank ==
  ASSUME NEW S \in SUBSET Nat, IsFiniteSet(S), NEW m \in S
  PROVE  Nth(S, Rank(S, m)) = m
<1> DEFINE w == Nth(S, Rank(S, m))
<1>1. w \in S /\ Rank(S, w) = Rank(S, m)
  BY RankGrows, NthIs
<1> HIDE DEF w
<1>2. (w < m => Rank(S, w) < Rank(S, m)) /\ (m < w => Rank(S, m) < Rank(S, w))
  BY <1>1, RankGrows
<1>3. Rank(S, m) \in Nat /\ w \in Nat /\ m \in Nat
  BY <1>1, RankGrows, FS_CardinalityType
<1> QED
  BY <1>1, <1>2, <1>3 DEF w

\* A new largest element comes last and moves no other.
LEMMA NthOfMore ==
  ASSUME NEW S \in SUBSET Nat, IsFiniteSet(S), NEW w \in Nat, \A x \in S : x < w
  PROVE  /\ Cardinality(S \cup {w}) = Cardinality(S) + 1
         /\ Nth(S \cup {w}, Cardinality(S) + 1) = w
         /\ \A n \in 1 .. Cardinality(S) : Nth(S \cup {w}, n) = Nth(S, n)
<1> DEFINE T == S \cup {w}
<1>1. IsFiniteSet(T) /\ Cardinality(T) = Cardinality(S) + 1 /\ T \in SUBSET Nat
  BY FS_AddElement
<1>2. {x \in T : x <= w} = T
  <2>1. w <= w /\ \A x \in S : x <= w
    OBVIOUS
  <2> QED
    BY <2>1
<1>3. Rank(T, w) = Cardinality(S) + 1
  BY <1>1, <1>2 DEF Rank
<1>4. ASSUME NEW u \in S PROVE Rank(T, u) = Rank(S, u)
  <2>1. {x \in T : x <= u} = {x \in S : x <= u}
    OBVIOUS
  <2> QED
    BY <2>1 DEF Rank
<1>5. Nth(T, Cardinality(S) + 1) = w
  BY <1>1, <1>3, NthOfRank
<1>6. ASSUME NEW n \in 1 .. Cardinality(S) PROVE Nth(T, n) = Nth(S, n)
  <2>1. Nth(S, n) \in S /\ Rank(T, Nth(S, n)) = n
    BY <1>4, NthIs
  <2>2. Nth(S, n) \in T
    BY <2>1
  <2> HIDE DEF T
  <2> QED
    BY <1>1, <2>1, <2>2, NthOfRank
<1> QED
  BY <1>1, <1>5, <1>6

\* Without an element those behind it move up by one.
LEMMA NthOfLess ==
  ASSUME NEW S \in SUBSET Nat, IsFiniteSet(S), NEW w \in S
  PROVE  /\ Cardinality(S \ {w}) = Cardinality(S) - 1
         /\ \A n \in 1 .. Cardinality(S) - 1 :
              Nth(S \ {w}, n) = IF n < Rank(S, w) THEN Nth(S, n) ELSE Nth(S, n + 1)
<1> DEFINE T == S \ {w}
<1>1. /\ IsFiniteSet(T) /\ Cardinality(T) = Cardinality(S) - 1 /\ T \in SUBSET Nat
      /\ Cardinality(S) \in Nat
  BY FS_RemoveElement, FS_CardinalityType
<1>2. ASSUME NEW u \in T, u < w PROVE Rank(T, u) = Rank(S, u)
  <2>1. {x \in T : x <= u} = {x \in S : x <= u}
    BY <1>2
  <2> QED
    BY <2>1 DEF Rank
<1>3. ASSUME NEW u \in T, w < u PROVE Rank(T, u) = Rank(S, u) - 1
  <2>1. {x \in T : x <= u} = {x \in S : x <= u} \ {w}
    BY <1>3
  <2>2. IsFiniteSet({x \in S : x <= u}) /\ w \in {x \in S : x <= u}
    BY <1>3, FS_Subset
  <2> QED
    BY <2>1, <2>2, FS_RemoveElement DEF Rank
<1>4. Rank(S, w) \in 1 .. Cardinality(S)
  BY RankGrows
<1>5. ASSUME NEW n \in 1 .. Cardinality(S) - 1
      PROVE  Nth(T, n) = IF n < Rank(S, w) THEN Nth(S, n) ELSE Nth(S, n + 1)
  <2>1. CASE n < Rank(S, w)
    <3> DEFINE u == Nth(S, n)
    <3>1. u \in S /\ Rank(S, u) = n
      BY <1>1, NthIs
    <3> HIDE DEF u
    <3>2. w < u => Rank(S, w) < Rank(S, u)
      BY <3>1, RankGrows
    <3>3. u \in T /\ u < w
      BY <1>4, <2>1, <3>1, <3>2
    <3>4. Rank(T, u) = n
      BY <1>2, <3>1, <3>3
    <3>5. Nth(T, n) = u
      BY <1>1, <3>3, <3>4, NthOfRank
    <3> QED
      BY <2>1, <3>5 DEF u
  <2>2. CASE ~(n < Rank(S, w))
    <3> DEFINE u == Nth(S, n + 1)
    <3>1. u \in S /\ Rank(S, u) = n + 1
      BY <1>1, NthIs
    <3> HIDE DEF u
    <3>2. u < w => Rank(S, u) < Rank(S, w)
      BY <3>1, RankGrows
    <3>3. u \in T /\ w < u
      BY <1>4, <2>2, <3>1, <3>2
    <3>4. Rank(T, u) = n
      BY <1>3, <3>1, <3>3
    <3>5. Nth(T, n) = u
      BY <1>1, <3>3, <3>4, NthOfRank
    <3> QED
      BY <2>2, <3>5 DEF u
  <2> QED
    BY <2>1, <2>2
<1> QED
  BY <1>1, <1>5

-----------------------------------------------------------------------------
(* A bucket as a list.                                                     *)

\* What a bucket shows by sequence number.
ListOf(f) == [i \in 1 .. Cardinality(DOMAIN f) |-> f[Nth(DOMAIN f, i)]]

\* The UIDs of a bucket are finitely many numbers.
LEMMA BucketDomain ==
  ASSUME NEW f, NEW s, BucketOK(f, s)
  PROVE  DOMAIN f \in SUBSET Nat /\ IsFiniteSet(DOMAIN f) /\ Cardinality(DOMAIN f) \in Nat
<1>1. IsFiniteSet(1 .. MaxUid)
  BY FS_Interval, BoundsAssumption
<1>2. DOMAIN f \in SUBSET (1 .. MaxUid)
  BY DEF BucketOK, IsPartialFn, Uid
<1>3. IsFiniteSet(DOMAIN f)
  BY <1>1, <1>2, FS_Subset
<1> QED
  BY <1>2, <1>3, FS_CardinalityType

\* The list of a bucket has one entry for each UID, a message it holds.
LEMMA ListType ==
  ASSUME NEW f, NEW s, BucketOK(f, s)
  PROVE  /\ ListOf(f) \in Seq(Msgs)
         /\ Len(ListOf(f)) = Cardinality(DOMAIN f)
         /\ \A i \in 1 .. Len(ListOf(f)) : ListOf(f)[i] = f[Nth(DOMAIN f, i)]
         /\ \A i \in 1 .. Len(ListOf(f)) : Holds(f, ListOf(f)[i])
<1> DEFINE n == Cardinality(DOMAIN f)
<1>1. n \in Nat
  BY BucketDomain
<1>2. \A i \in 1 .. n : Nth(DOMAIN f, i) \in DOMAIN f
  BY BucketDomain, NthIs
<1>3. \A i \in 1 .. n : f[Nth(DOMAIN f, i)] \in Msgs
  BY <1>2 DEF BucketOK, IsPartialFn
<1>4. ListOf(f) \in [1 .. n -> Msgs]
  BY <1>3 DEF ListOf
<1>5. ListOf(f) \in Seq(Msgs) /\ Len(ListOf(f)) = n
  BY <1>1, <1>4
<1> QED
  BY <1>1, <1>2, <1>5 DEF ListOf, Holds

\* mailboxCreateMessage appends a message that is not there, and its position
\* is the last.
LEMMA ListCreated ==
  ASSUME NEW f, NEW s, BucketOK(f, s), s + 1 <= MaxUid, NEW m \in Msgs, ~Holds(f, m)
  PROVE  /\ Len(ListOf(CreateIn(f, s, m))) = Len(ListOf(f)) + 1
         /\ PositionIn(CreateIn(f, s, m), m) = Len(ListOf(f)) + 1
         /\ \A i \in 1 .. Len(ListOf(f)) : ListOf(CreateIn(f, s, m))[i] = ListOf(f)[i]
<1> DEFINE g == CreateIn(f, s, m)
           n == Cardinality(DOMAIN f)
<1>1. BucketOK(g, SequenceAfter(f, s, m))
  BY CreateInBucket
<1>2. /\ DOMAIN g = DOMAIN f \cup {s + 1}
      /\ \A u \in DOMAIN f : g[u] = f[u]
  <2>1. \A u \in DOMAIN f : u # s + 1
    BY BoundsAssumption DEF BucketOK, IsPartialFn, Uid
  <2> QED
    BY <2>1 DEF CreateIn, Put
<1>3. PositionIn(g, m) = Cardinality(DOMAIN g)
  BY CreatedIsLast
<1> HIDE DEF g
<1>4. /\ DOMAIN f \in SUBSET Nat /\ IsFiniteSet(DOMAIN f) /\ n \in Nat
      /\ s + 1 \in Nat /\ \A u \in DOMAIN f : u < s + 1
  BY BucketDomain, BoundsAssumption DEF BucketOK, IsPartialFn, Uid
<1>5. /\ Cardinality(DOMAIN g) = n + 1
      /\ \A i \in 1 .. n : Nth(DOMAIN g, i) = Nth(DOMAIN f, i)
  BY <1>2, <1>4, NthOfMore
<1>6. \A i \in 1 .. n : Nth(DOMAIN f, i) \in DOMAIN f
  BY <1>4, NthIs
<1>7. /\ Len(ListOf(f)) = n /\ Len(ListOf(g)) = n + 1
      /\ \A i \in 1 .. n : ListOf(f)[i] = f[Nth(DOMAIN f, i)]
      /\ \A i \in 1 .. n + 1 : ListOf(g)[i] = g[Nth(DOMAIN g, i)]
  BY <1>1, <1>5, ListType
<1>8. ASSUME NEW i \in 1 .. n
      PROVE  ListOf(g)[i] = ListOf(f)[i]
  <2>1. i \in 1 .. n + 1
    BY <1>4
  <2>2. ListOf(g)[i] = g[Nth(DOMAIN f, i)]
    BY <1>5, <1>7, <2>1
  <2> QED
    BY <1>2, <1>6, <1>7, <2>2
<1> QED
  BY <1>3, <1>5, <1>7, <1>8 DEF g

\* The position mailboxDeleteMessage returns is where the message was, 0 if it
\* was not there; the entries behind it move up.
LEMMA ListDeleted ==
  ASSUME NEW f, NEW s, BucketOK(f, s), NEW m, Holds(f, m)
  PROVE  /\ PositionIn(f, m) \in 1 .. Len(ListOf(f))
         /\ ListOf(f)[PositionIn(f, m)] = m
         /\ Len(ListOf(DeleteFrom(f, m))) = Len(ListOf(f)) - 1
         /\ \A i \in 1 .. Len(ListOf(f)) - 1 :
              ListOf(DeleteFrom(f, m))[i] =
                IF i < PositionIn(f, m) THEN ListOf(f)[i] ELSE ListOf(f)[i + 1]
<1> DEFINE w == FirstUid(f, m)
           g == DeleteFrom(f, m)
           n == Cardinality(DOMAIN f)
<1>1. w \in DOMAIN f /\ f[w] = m
  BY FirstUidMatches
<1>2. DOMAIN g = DOMAIN f \ {w} /\ \A u \in DOMAIN g : g[u] = f[u]
  BY DEF DeleteFrom
<1>3. PositionIn(f, m) = Rank(DOMAIN f, w)
  BY DEF PositionIn, SeqNum, Rank
<1>4. BucketOK(g, s)
  BY DeleteFromBucket
<1> HIDE DEF w, g
<1>5. DOMAIN f \in SUBSET Nat /\ IsFiniteSet(DOMAIN f) /\ n \in Nat
  BY BucketDomain
<1>6. Rank(DOMAIN f, w) \in 1 .. n /\ Nth(DOMAIN f, Rank(DOMAIN f, w)) = w
  BY <1>1, <1>5, RankGrows, NthOfRank
<1>7. /\ Cardinality(DOMAIN g) = n - 1
      /\ \A i \in 1 .. n - 1 :
           Nth(DOMAIN g, i) =
             IF i < Rank(DOMAIN f, w) THEN Nth(DOMAIN f, i) ELSE Nth(DOMAIN f, i + 1)
  BY <1>1, <1>2, <1>5, NthOfLess
<1>8. /\ Len(ListOf(f)) = n /\ \A i \in 1 .. n : ListOf(f)[i] = f[Nth(DOMAIN f, i)]
      /\ Len(ListOf(g)) = n - 1 /\ \A i \in 1 .. n - 1 : ListOf(g)[i] = g[Nth(DOMAIN g, i)]
  BY <1>4, <1>7, ListType
<1>9. \A i \in 1 .. n - 1 : Nth(DOMAIN g, i) \in DOMAIN g
  <2>1. DOMAIN g \in SUBSET Nat /\ IsFiniteSet(DOMAIN g)
    BY <1>4, BucketDomain
  <2> QED
    BY <1>7, <2>1, NthIs
<1>10. \A i \in 1 .. n - 1 :
         ListOf(g)[i] = IF i < Rank(DOMAIN f, w) THEN ListOf(f)[i] ELSE ListOf(f)[i + 1]
  <2> SUFFICES ASSUME NEW i \in 1 .. n - 1
               PROVE  ListOf(g)[i] =
                        IF i < Rank(DOMAIN f, w) THEN ListOf(f)[i] ELSE ListOf(f)[i + 1]
    OBVIOUS
  <2>1. ListOf(g)[i] = f[Nth(DOMAIN g, i)]
    BY <1>2, <1>8, <1>9
  <2>2. i \in 1 .. n /\ i + 1 \in 1 .. n
    BY <1>5
  <2>3. ListOf(f)[i] = f[Nth(DOMAIN f, i)] /\ ListOf(f)[i + 1] = f[Nth(DOMAIN f, i + 1)]
    BY <1>8, <2>2
  <2> QED
    BY <1>7, <2>1, <2>3
<1> QED
  BY <1>1, <1>3, <1>6, <1>8, <1>10 DEF g

-----------------------------------------------------------------------------
(* What a client knows, and the updates it takes.                          *)

\* A client that has the list a knows nothing false of the list b.
Shows(a, b) == Len(a) = Len(b) /\ \A i \in 1 .. Len(b) : a[i] \in {Unknown, b[i]}

Announcement == [kind : {"exists", "expunge"}, n : Nat, sound : BOOLEAN]

Lists == Seq(Msgs \cup {Unknown})

\* The list a client has when it has taken an update, entry by entry.
LEMMA TakenIs ==
  ASSUME NEW a \in Lists, NEW up \in Announcement
  PROVE  /\ Taken(a, up) \in Lists
         /\ up.kind = "exists" =>
              /\ Len(Taken(a, up)) = up.n
              /\ \A i \in 1 .. up.n :
                   Taken(a, up)[i] = IF i \in 1 .. Len(a) THEN a[i] ELSE Unknown
         /\ up.kind # "exists" /\ up.n \in 1 .. Len(a) =>
              /\ Len(Taken(a, up)) = Len(a) - 1
              /\ \A i \in 1 .. Len(a) - 1 :
                   Taken(a, up)[i] = IF i < up.n THEN a[i] ELSE a[i + 1]
         /\ up.kind # "exists" /\ up.n \notin 1 .. Len(a) => Taken(a, up) = a
<1>1. up.n \in Nat /\ Len(a) \in Nat /\ DOMAIN a = 1 .. Len(a)
  BY LenProperties DEF Lists, Announcement
<1>2. \A i \in 1 .. Len(a) : a[i] \in Msgs \cup {Unknown}
  BY ElementOfSeq DEF Lists
<1>3. CASE up.kind = "exists"
  <2>1. Taken(a, up) = [i \in 1 .. up.n |-> IF i \in 1 .. Len(a) THEN a[i] ELSE Unknown]
    BY <1>1, <1>3 DEF Taken
  <2>2. Taken(a, up) \in [1 .. up.n -> Msgs \cup {Unknown}]
    BY <1>2, <2>1
  <2> QED
    BY <1>1, <1>3, <2>1, <2>2 DEF Lists
<1>4. CASE up.kind # "exists" /\ up.n \notin 1 .. Len(a)
  BY <1>1, <1>4 DEF Taken
<1>5. CASE up.kind # "exists" /\ up.n \in 1 .. Len(a)
  <2> DEFINE x == SubSeq(a, 1, up.n - 1)
             y == SubSeq(a, up.n + 1, Len(a))
  <2>1. Taken(a, up) = x \o y
    BY <1>1, <1>5 DEF Taken
  <2>2. /\ x \in Lists /\ Len(x) = up.n - 1
        /\ \A i \in 1 .. up.n - 1 : x[i] = a[i]
    <3>1. 1 \in Int /\ up.n - 1 \in Int /\ \A i \in 1 .. up.n - 1 : a[i] \in Msgs \cup {Unknown}
      BY <1>1, <1>2, <1>5
    <3>2. /\ x \in Lists /\ Len(x) = IF 1 <= up.n - 1 THEN up.n - 1 - 1 + 1 ELSE 0
          /\ \A i \in 1 .. up.n - 1 - 1 + 1 : x[i] = a[1 + i - 1]
      BY <3>1, SubSeqProperties DEF Lists
    <3>3. /\ up.n - 1 - 1 + 1 = up.n - 1 /\ (~(1 <= up.n - 1) => up.n - 1 = 0)
          /\ \A i \in 1 .. up.n - 1 : 1 + i - 1 = i
      BY <1>1, <1>5
    <3> QED
      BY <3>2, <3>3
  <2>3. /\ y \in Lists /\ Len(y) = Len(a) - up.n
        /\ \A i \in 1 .. Len(a) - up.n : y[i] = a[up.n + i]
    <3>1. /\ up.n + 1 \in Int /\ Len(a) \in Int
          /\ \A i \in up.n + 1 .. Len(a) : a[i] \in Msgs \cup {Unknown}
      BY <1>1, <1>2, <1>5
    <3>2. /\ y \in Lists
          /\ Len(y) = IF up.n + 1 <= Len(a) THEN Len(a) - (up.n + 1) + 1 ELSE 0
          /\ \A i \in 1 .. Len(a) - (up.n + 1) + 1 : y[i] = a[up.n + 1 + i - 1]
      BY <3>1, SubSeqProperties DEF Lists
    <3>3. /\ Len(a) - (up.n + 1) + 1 = Len(a) - up.n
          /\ ~(up.n + 1 <= Len(a)) => Len(a) - up.n = 0
          /\ \A i \in 1 .. Len(a) - up.n : up.n + 1 + i - 1 = up.n + i
      BY <1>1, <1>5
    <3> QED
      BY <3>2, <3>3
  <2> HIDE DEF x, y
  <2>6. Len(x) + Len(y) = Len(a) - 1
    BY <1>1, <1>5, <2>2, <2>3
  <2>7. /\ x \o y \in Lists /\ Len(x \o y) = Len(x) + Len(y)
        /\ \A i \in 1 .. Len(x) + Len(y) :
             (x \o y)[i] = IF i <= Len(x) THEN x[i] ELSE y[i - Len(x)]
    BY <2>2, <2>3, ConcatProperties DEF Lists
  <2>4. /\ x \o y \in Lists /\ Len(x \o y) = Len(a) - 1
        /\ \A i \in 1 .. Len(a) - 1 :
             (x \o y)[i] = IF i <= Len(x) THEN x[i] ELSE y[i - Len(x)]
    BY <2>6, <2>7
  <2>5. ASSUME NEW i \in 1 .. Len(a) - 1
        PROVE  (x \o y)[i] = IF i < up.n THEN a[i] ELSE a[i + 1]
    <3>1. CASE i < up.n
      <4>1. i \in 1 .. up.n - 1 /\ i <= Len(x)
        BY <1>1, <1>5, <2>2, <3>1
      <4> QED
        BY <2>2, <2>4, <3>1, <4>1
    <3>2. CASE ~(i < up.n)
      <4>1. i - Len(x) \in 1 .. Len(a) - up.n /\ ~(i <= Len(x)) /\ up.n + (i - Len(x)) = i + 1
        BY <1>1, <1>5, <2>2, <3>2
      <4> QED
        BY <2>3, <2>4, <3>2, <4>1
    <3> QED
      BY <3>1, <3>2
  <2> QED
    BY <1>5, <2>1, <2>4, <2>5
<1> QED
  BY <1>3, <1>4, <1>5

\* A list knows itself,
LEMMA ShowsSelf == ASSUME NEW a PROVE Shows(a, a)
BY DEF Shows

\* and who knows a list that knows another knows that one.
LEMMA ShowsThrough ==
  ASSUME NEW a, NEW b, NEW c, Shows(a, b), Shows(b, c)
  PROVE  Shows(a, c)
BY DEF Shows

\* Who knows nothing false of a list knows nothing false of it after both
\* have taken the same update.
LEMMA ShowsTaken ==
  ASSUME NEW a \in Lists, NEW b \in Lists, Shows(a, b), NEW up \in Announcement
  PROVE  Shows(Taken(a, up), Taken(b, up))
<1>1. Len(a) = Len(b) /\ Len(a) \in Nat /\ up.n \in Nat
  BY LenProperties DEF Lists, Shows, Announcement
<1> DEFINE c == Taken(a, up)
           d == Taken(b, up)
<1>2. CASE up.kind = "exists"
  <2>1. Len(c) = up.n /\ \A i \in 1 .. up.n : c[i] = IF i \in 1 .. Len(a) THEN a[i] ELSE Unknown
    BY <1>2, TakenIs
  <2>2. Len(d) = up.n /\ \A i \in 1 .. up.n : d[i] = IF i \in 1 .. Len(b) THEN b[i] ELSE Unknown
    BY <1>2, TakenIs
  <2> HIDE DEF c, d
  <2>3. Shows(c, d)
    BY <1>1, <2>1, <2>2 DEF Shows
  <2> QED
    BY <2>3 DEF c, d
<1>3. CASE up.kind # "exists" /\ up.n \in 1 .. Len(a)
  <2>1. /\ Len(c) = Len(a) - 1
        /\ \A i \in 1 .. Len(a) - 1 : c[i] = IF i < up.n THEN a[i] ELSE a[i + 1]
    BY <1>3, TakenIs
  <2>2. /\ Len(d) = Len(a) - 1
        /\ \A i \in 1 .. Len(a) - 1 : d[i] = IF i < up.n THEN b[i] ELSE b[i + 1]
    <3>1. up.n \in 1 .. Len(b)
      BY <1>1, <1>3
    <3> QED
      BY <1>1, <1>3, <3>1, TakenIs
  <2> HIDE DEF c, d
  <2>3. ASSUME NEW i \in 1 .. Len(a) - 1 PROVE c[i] \in {Unknown, d[i]}
    <3>1. i \in 1 .. Len(b) /\ i + 1 \in 1 .. Len(b)
      BY <1>1
    <3>2. a[i] \in {Unknown, b[i]} /\ a[i + 1] \in {Unknown, b[i + 1]}
      BY <3>1 DEF Shows
    <3> QED
      BY <2>1, <2>2, <3>2
  <2>4. Shows(c, d)
    BY <2>1, <2>2, <2>3 DEF Shows
  <2> QED
    BY <2>4 DEF c, d
<1>4. CASE up.kind # "exists" /\ up.n \notin 1 .. Len(a)
  BY <1>1, <1>4, TakenIs DEF Shows
<1> QED
  BY <1>2, <1>3, <1>4

\* b becomes c by what an update announces; one that was made before the mailbox
\* was listed, or that changes nothing, may announce nothing.
Leads(b, c, up) == Shows(Taken(b, up), c) \/ (~up.sound /\ c = b)

\* The updates ups lead a client from what it knows to the mailbox as it is.
Led(a, ups, last) ==
  \E B \in [1 .. Len(ups) + 1 -> Lists] :
    /\ Shows(a, B[1]) /\ B[Len(ups) + 1] = last
    /\ \A i \in 1 .. Len(ups) : Leads(B[i], B[i + 1], ups[i])

\* A client with no update to take knows the mailbox.
LEMMA LedByNothing ==
  ASSUME NEW a, NEW b \in Lists
  PROVE  Led(a, << >>, b) <=> Shows(a, b)
<1>1. Len(<< >>) = 0 /\ Len(<< >>) + 1 = 1
  OBVIOUS
<1>2. ASSUME Led(a, << >>, b) PROVE Shows(a, b)
  BY <1>1, <1>2 DEF Led
<1>3. ASSUME Shows(a, b) PROVE Led(a, << >>, b)
  <2> DEFINE B == [i \in 1 .. Len(<< >>) + 1 |-> b]
  <2>1. B \in [1 .. Len(<< >>) + 1 -> Lists] /\ B[1] = b /\ B[Len(<< >>) + 1] = b
    BY <1>1
  <2>2. \A i \in 1 .. Len(<< >>) : Leads(B[i], B[i + 1], << >>[i])
    BY <1>1
  <2> HIDE DEF B
  <2> QED
    BY <1>3, <2>1, <2>2 DEF Led
<1> QED
  BY <1>2, <1>3

\* An update is taken: one that may announce nothing leaves a client that
\* still follows as it was.
LEMMA LedByTheRest ==
  ASSUME NEW a \in Lists, NEW ups \in Seq(Announcement), ups # << >>, NEW b, Led(a, ups, b),
         Head(ups).sound \/ Taken(a, Head(ups)) = a
  PROVE  Led(Taken(a, Head(ups)), Tail(ups), b)
<1> DEFINE n == Len(ups)
           up == ups[1]
           x == Taken(a, Head(ups))
<1>1. /\ n \in Nat /\ n >= 1 /\ Head(ups) = up /\ up \in Announcement
      /\ Len(Tail(ups)) = n - 1
      /\ \A i \in 1 .. n - 1 : Tail(ups)[i] = ups[i + 1]
  <2>1. n \in Nat /\ n >= 1
    BY EmptySeq, LenProperties
  <2>2. Len(Tail(ups)) = n - 1 /\ \A i \in 1 .. Len(Tail(ups)) : Tail(ups)[i] = ups[i + 1]
    BY HeadTailProperties
  <2>3. Head(ups) = up /\ up \in Announcement
    BY <2>1, ElementOfSeq
  <2> QED
    BY <2>1, <2>2, <2>3
<1>2. PICK B \in [1 .. n + 1 -> Lists] :
        /\ Shows(a, B[1]) /\ B[n + 1] = b
        /\ \A i \in 1 .. n : Leads(B[i], B[i + 1], ups[i])
  BY DEF Led
<1>3. B[1] \in Lists /\ B[2] \in Lists /\ Leads(B[1], B[2], up)
  BY <1>1, <1>2
<1>4. Shows(x, B[2])
  <2>1. Shows(x, Taken(B[1], up))
    BY <1>1, <1>2, <1>3, ShowsTaken
  <2>2. CASE Shows(Taken(B[1], up), B[2])
    BY <2>1, <2>2, ShowsThrough
  <2>3. CASE ~up.sound /\ B[2] = B[1]
    <3>1. x = a
      BY <1>1, <2>3
    <3> HIDE DEF x
    <3> QED
      BY <1>2, <2>3, <3>1
  <2> QED
    BY <1>3, <2>2, <2>3 DEF Leads
<1> HIDE DEF x
<1> DEFINE C == [i \in 1 .. n |-> B[i + 1]]
<1>5. C \in [1 .. Len(Tail(ups)) + 1 -> Lists] /\ C[1] = B[2] /\ C[Len(Tail(ups)) + 1] = b
  BY <1>1, <1>2
<1>6. \A i \in 1 .. Len(Tail(ups)) : Leads(C[i], C[i + 1], Tail(ups)[i])
  <2> SUFFICES ASSUME NEW i \in 1 .. n - 1 PROVE Leads(C[i], C[i + 1], Tail(ups)[i])
    BY <1>1
  <2>1. i + 1 \in 1 .. n /\ i \in 1 .. n
    BY <1>1
  <2>2. C[i] = B[i + 1] /\ C[i + 1] = B[i + 1 + 1] /\ Tail(ups)[i] = ups[i + 1]
    BY <1>1, <2>1
  <2>3. Leads(B[i + 1], B[i + 1 + 1], ups[i + 1])
    BY <1>2, <2>1
  <2> QED
    BY <2>2, <2>3
<1> HIDE DEF C
<1>7. Led(x, Tail(ups), b)
  BY <1>4, <1>5, <1>6 DEF Led
<1> QED
  BY <1>7 DEF x

\* The mailbox changes, and an update follows those on their way.
LEMMA LedFurther ==
  ASSUME NEW a, NEW ups \in Seq(Announcement), NEW b, Led(a, ups, b), NEW c \in Lists,
         NEW up \in Announcement, Leads(b, c, up)
  PROVE  Led(a, ups \o <<up>>, c)
<1> DEFINE n == Len(ups)
           more == ups \o <<up>>
<1>1. /\ n \in Nat /\ Len(more) = n + 1 /\ more[n + 1] = up
      /\ \A i \in 1 .. n : more[i] = ups[i]
  OBVIOUS
<1>2. PICK B \in [1 .. n + 1 -> Lists] :
        /\ Shows(a, B[1]) /\ B[n + 1] = b
        /\ \A i \in 1 .. n : Leads(B[i], B[i + 1], ups[i])
  BY DEF Led
<1> HIDE DEF more
<1> DEFINE C == [i \in 1 .. Len(more) + 1 |-> IF i = n + 2 THEN c ELSE B[i]]
<1>3. /\ C \in [1 .. Len(more) + 1 -> Lists]
      /\ C[1] = B[1] /\ C[Len(more) + 1] = c
      /\ \A i \in 1 .. n + 1 : C[i] = B[i]
  BY <1>1, <1>2
<1>4. ASSUME NEW i \in 1 .. Len(more) PROVE Leads(C[i], C[i + 1], more[i])
  <2>1. CASE i = n + 1
    <3>1. C[i] = b /\ C[i + 1] = c
      BY <1>1, <1>2, <1>3, <2>1
    <3> QED
      BY <1>1, <2>1, <3>1
  <2>2. CASE i # n + 1
    <3>1. i \in 1 .. n /\ i + 1 \in 1 .. n + 1 /\ i \in 1 .. n + 1
      BY <1>1, <2>2
    <3>2. Leads(B[i], B[i + 1], ups[i])
      BY <1>2, <3>1
    <3> QED
      BY <1>1, <1>3, <3>1, <3>2
  <2> QED
    BY <2>1, <2>2
<1> HIDE DEF C
<1>5. Led(a, more, c)
  BY <1>2, <1>3, <1>4 DEF Led
<1> QED
  BY <1>5 DEF more

\* A listing after updates that need not announce anything.
LEMMA LedByListing ==
  ASSUME NEW a, NEW ups \in Seq(Announcement), \A i \in 1 .. Len(ups) : ~ups[i].sound,
         NEW b \in Lists, Shows(a, b)
  PROVE  Led(a, ups, b)
<1> DEFINE B == [i \in 1 .. Len(ups) + 1 |-> b]
<1>1. Len(ups) \in Nat
  OBVIOUS
<1>2. B \in [1 .. Len(ups) + 1 -> Lists] /\ \A i \in 1 .. Len(ups) + 1 : B[i] = b
  OBVIOUS
<1> HIDE DEF B
<1>3. \A i \in 1 .. Len(ups) : i \in 1 .. Len(ups) + 1 /\ i + 1 \in 1 .. Len(ups) + 1
  BY <1>1
<1>4. \A i \in 1 .. Len(ups) : Leads(B[i], B[i + 1], ups[i])
  BY <1>2, <1>3 DEF Leads
<1>5. 1 \in 1 .. Len(ups) + 1 /\ Len(ups) + 1 \in 1 .. Len(ups) + 1
  BY <1>1
<1> QED
  BY <1>2, <1>4, <1>5 DEF Led

-----------------------------------------------------------------------------
(* The account and its events.                                             *)

Items ==
  {item \in [kind : {"create", "update", "delete"}, msg : Msgs, labels : SUBSET Labels,
             added : SUBSET Labels, removed : SUBSET Labels, counts : [Labels -> Nat]] :
     item.added \cap item.removed = {}}

AccountOK(bl, srv) == IsPartialFn(srv, Msgs, SUBSET Labels) /\ bl \in Seq(Items)

\* The head of a backlog is an item, and the rest is a backlog.
LEMMA HeadOfBacklog ==
  ASSUME NEW bl \in Seq(Items), bl # << >>
  PROVE  Head(bl) \in Items /\ Tail(bl) \in Seq(Items)
BY HeadTailProperties

\* What an event brings of a message.
LEMMA ItemType ==
  ASSUME IsPartialFn(server, Msgs, SUBSET Labels), NEW srv, IsPartialFn(srv, Msgs, SUBSET Labels),
         NEW m \in Msgs
  PROVE  Item(srv, m) \in Items
<1>1. LabelsIn(srv, m) \in SUBSET Labels /\ LabelsIn(server, m) \in SUBSET Labels
  BY DEF LabelsIn, IsPartialFn
<1>2. IsFiniteSet(DOMAIN srv)
  BY ImapViewAssumption, FS_Subset DEF IsPartialFn
<1>3. \A l \in Labels : Cardinality({x \in DOMAIN srv : l \in srv[x]}) \in Nat
  BY <1>2, FS_Subset, FS_CardinalityType
<1> QED
  BY <1>1, <1>3 DEF Item, Items

\* A change of the account adds its items to the backlog.
LEMMA BecomesTells ==
  ASSUME AccountOK(backlog, server), NEW srv, IsPartialFn(srv, Msgs, SUBSET Labels), Becomes(srv)
  PROVE  server' = srv /\ AccountOK(backlog', server')
<1> DEFINE differ == {m \in Msgs : \/ (m \in DOMAIN srv) # (m \in DOMAIN server)
                                   \/ LabelsIn(srv, m) # LabelsIn(server, m)}
           k == Cardinality(differ)
           items == [i \in 1 .. k |-> Item(srv, Nth(differ, i))]
<1>1. server' = srv /\ backlog' = backlog \o items
  BY DEF Becomes
<1>2. differ \in SUBSET Nat /\ IsFiniteSet(differ) /\ k \in Nat /\ differ \subseteq Msgs
  BY ImapViewAssumption, FS_Subset, FS_CardinalityType
<1> HIDE DEF differ
<1>3. \A i \in 1 .. k : Nth(differ, i) \in Msgs
  BY <1>2, NthIs
<1>4. \A m \in Msgs : Item(srv, m) \in Items
  BY ItemType DEF AccountOK
<1>5. items \in [1 .. k -> Items]
  BY <1>3, <1>4
<1>6. items \in Seq(Items) /\ backlog \in Seq(Items)
  BY <1>2, <1>5 DEF AccountOK
<1> QED
  BY <1>1, <1>6, ConcatProperties DEF AccountOK

-----------------------------------------------------------------------------
(* The invariant.                                                          *)

Updating(l) == channel[l] \o staged.updates[l]

\* The buckets exist, and none has two entries for a message.
Stored ==
  /\ boxes = Labels /\ ready \subseteq Boxes
  /\ IsPartialFn(record, Msgs, SUBSET Labels)
  /\ Buckets

Wired ==
  /\ total \in [Opened -> Nat]
  /\ channel \in [Labels -> Seq(Announcement)]
  /\ \/ staged = NothingStaged
     \/ staged \in [counts : [Labels -> Nat], updates : [Labels -> Seq(Announcement)]]

\* A refresh under way makes the next set of objects.
Refreshed ==
  /\ current \in 0 .. MaxRefresh /\ mapped \subseteq Labels
  /\ refresh \in [stage : {"none", "boxes", "map"}, left : SUBSET Labels]
  /\ refresh.stage # "none" => current < MaxRefresh

Commands ==
  {c \in [do : {"idle", "fetching", "copying", "moving", "unlabelling", "destroying"},
          ids : SUBSET Msgs, dest : Labels \cup {Nil}, refused : SUBSET Msgs] :
     c.do \in {"copying", "moving", "unlabelling"} => c.dest \in Labels}

Views == [box : Boxes \cup {<<Nil, 0>>}, list : Lists, follows : BOOLEAN]

\* Updates are made for what a client that follows has selected, and it knows no
\* message before the listing.
InStep(v, c) ==
  v.follows =>
    /\ v.box \in Boxes => v.box[1] \in mapped \cap Opened
    /\ v.box \notin ready => \A i \in 1 .. Len(v.list) : v.list[i] = Unknown
    /\ c.do = "fetching" => v.box \in ready

Viewed ==
  /\ view \in [Sessions -> Views]
  /\ cmd \in [Sessions -> Commands]
  /\ \A s \in Sessions : cmd[s].do = "fetching" => view[s].box \in Boxes
  /\ \A s \in Sessions : InStep(view[s], cmd[s])

\* The client of s, if it follows, is led to the mailbox as it is.
Follows(s) ==
  (view[s].box \in ready /\ view[s].follows) =>
    Led(view[s].list, Updating(LabelOf(s)), ListOf(content[LabelOf(s)]))

\* What is flagged in a mailbox object, and what an EXPUNGE of it is about to
\* destroy, was meant there.
Flagged ==
  /\ deleted \in [Boxes -> SUBSET Msgs]
  /\ \A b \in Boxes : \A m \in deleted[b] : <<b, m>> \in meant
  /\ \A s \in Sessions : cmd[s].do = "destroying" =>
       \A m \in cmd[s].ids : <<view[s].box, m>> \in meant

\* What a MOVE is about to take from its mailbox is in the other.
Moved ==
  \A s \in Sessions : cmd[s].do = "unlabelling" =>
    \A m \in (cmd[s].ids \cap DOMAIN server) \ cmd[s].refused : cmd[s].dest \in server[m]

ViewInv ==
  /\ AccountOK(backlog, server)
  /\ Stored /\ Wired /\ Refreshed
  /\ Viewed /\ (\A s \in Sessions : Follows(s)) /\ Flagged /\ Moved

\* The label of a mailbox object.
LEMMA BoxIs ==
  ASSUME NEW b \in Boxes
  PROVE  b[1] \in Labels /\ b[2] \in 0 .. MaxRefresh /\ b = <<b[1], b[2]>>
BY DEF Boxes

\* Who has selected an object has selected its label.
LEMMA Selected ==
  ASSUME ViewInv, NEW s \in Sessions
  PROVE  /\ view[s] \in Views
         /\ view[s].box \in Boxes => LabelOf(s) \in Labels
         /\ view[s].box \in ready => view[s].box \in Boxes
BY BoxIs DEF ViewInv, Viewed, Views, Stored, LabelOf

\* Where the store, the wire and the clients stay as they are, nothing but the
\* account and the commands has to be looked at.
LEMMA AccountStep ==
  ASSUME ViewInv, UNCHANGED <<storeVars, boxVars, wireVars, view, meant>>,
         \/ UNCHANGED accountVars
         \/ \E srv : IsPartialFn(srv, Msgs, SUBSET Labels) /\ Becomes(srv),
         cmd' \in [Sessions -> Commands],
         \A s \in Sessions : cmd'[s].do \in {"fetching", "destroying"} =>
           cmd'[s].do = cmd[s].do /\ cmd'[s].ids = cmd[s].ids
  PROVE  /\ AccountOK(backlog', server')
         /\ Stored' /\ Wired' /\ Refreshed' /\ Viewed'
         /\ (\A s \in Sessions : Follows(s)') /\ Flagged'
<1> USE DEF storeVars, boxVars, wireVars
<1>1. AccountOK(backlog', server')
  <2>1. CASE UNCHANGED accountVars
    BY <2>1 DEF ViewInv, accountVars
  <2>2. CASE \E srv : IsPartialFn(srv, Msgs, SUBSET Labels) /\ Becomes(srv)
    BY <2>2, BecomesTells DEF ViewInv
  <2> QED
    BY <2>1, <2>2
<1>2. Stored' /\ Wired' /\ Refreshed'
  BY DEF ViewInv, Stored, Buckets, Wired, Refreshed
<1>3. Viewed'
  BY DEF ViewInv, Viewed, InStep
<1>4. \A s \in Sessions : Follows(s)'
  BY DEF ViewInv, Follows, Updating, LabelOf
<1>5. Flagged'
  BY DEF ViewInv, Flagged
<1> QED
  BY <1>1, <1>2, <1>3, <1>4, <1>5

\* TakenAway changes nothing but what the command is not to blame for.
LEMMA TakenAwayType ==
  ASSUME NEW c \in Commands, NEW srv
  PROVE  /\ TakenAway(c, srv) \in Commands
         /\ TakenAway(c, srv).do = c.do /\ TakenAway(c, srv).ids = c.ids
         /\ TakenAway(c, srv).dest = c.dest
         /\ TakenAway(c, srv).refused =
              c.refused \cup {m \in c.ids : c.do = "unlabelling" /\ c.dest \notin LabelsIn(srv, m)}
BY DEF TakenAway, Commands

\* A message in the account after a command loses nobody else's blame.
LEMMA TakenAwayMoved ==
  ASSUME NEW c \in Commands, NEW srv, NEW m \in (c.ids \cap DOMAIN srv) \ TakenAway(c, srv).refused,
         c.do = "unlabelling"
  PROVE  c.dest \in srv[m]
BY TakenAwayType DEF LabelsIn

\* New mail and other clients: no bucket changes, and no move is to blame.
LEMMA OtherClientStep ==
  ASSUME ViewInv, OtherClient
  PROVE  ViewInv'
<1>1. \E srv : IsPartialFn(srv, Msgs, SUBSET Labels) /\ Becomes(srv)
  <2>1. PICK m \in Msgs \ gone :
          \/ \E labels \in SUBSET Labels : Becomes(Put(server, m, labels))
          \/ m \in DOMAIN server /\ Becomes(Without(server, {m}))
    BY DEF OtherClient
  <2>2. IsPartialFn(server, Msgs, SUBSET Labels)
    BY DEF ViewInv, AccountOK
  <2>3. \A labels \in SUBSET Labels :
          IsPartialFn(Put(server, m, labels), Msgs, SUBSET Labels)
    BY <2>2 DEF IsPartialFn, Put
  <2>4. IsPartialFn(Without(server, {m}), Msgs, SUBSET Labels)
    BY <2>2 DEF IsPartialFn, Without
  <2> QED
    BY <2>1, <2>3, <2>4
<1>2. \A s \in Sessions : cmd[s] \in Commands
  BY DEF ViewInv, Viewed
<1>3. \A s \in Sessions : cmd'[s] = TakenAway(cmd[s], server')
  BY DEF OtherClient
<1>4. cmd' \in [Sessions -> Commands]
  BY <1>2, TakenAwayType DEF OtherClient
<1>5. \A s \in Sessions : cmd'[s].do = cmd[s].do /\ cmd'[s].ids = cmd[s].ids
  BY <1>2, <1>3, TakenAwayType
<1>6. /\ AccountOK(backlog', server')
      /\ Stored' /\ Wired' /\ Refreshed' /\ Viewed'
      /\ (\A s \in Sessions : Follows(s)') /\ Flagged'
  <2>1. UNCHANGED <<storeVars, boxVars, wireVars, view, meant>>
    BY DEF OtherClient
  <2> QED
    BY <1>1, <1>4, <1>5, <2>1, AccountStep
<1>7. Moved'
  <2> SUFFICES ASSUME NEW s \in Sessions, cmd'[s].do = "unlabelling",
                      NEW m \in (cmd'[s].ids \cap DOMAIN server') \ cmd'[s].refused
               PROVE  cmd'[s].dest \in server'[m]
    BY DEF Moved
  <2>1. /\ cmd[s] \in Commands /\ cmd[s].do = "unlabelling" /\ cmd'[s].dest = cmd[s].dest
        /\ m \in (cmd[s].ids \cap DOMAIN server') \ TakenAway(cmd[s], server').refused
    BY <1>2, <1>3, <1>5, TakenAwayType
  <2> QED
    BY <2>1, TakenAwayMoved
<1> QED
  BY <1>6, <1>7 DEF ViewInv

\* LabelMessages: what is taken from its mailbox next was labelled, or refused.
LEMMA LabelStep ==
  ASSUME ViewInv, NEW s \in Sessions, Label(s)
  PROVE  ViewInv'
<1> DEFINE c == cmd[s]
<1>1. \A t \in Sessions : cmd[t] \in Commands
  BY DEF ViewInv, Viewed
<1>2. IsPartialFn(server, Msgs, SUBSET Labels)
  BY DEF ViewInv, AccountOK
<1>3. UNCHANGED <<storeVars, boxVars, wireVars, view, meant>> /\ c.do \in {"copying", "moving"}
  BY DEF Label
<1>4. Idle \in Commands /\ Idle.do = "idle"
  BY DEF Idle, Commands
<1>5. CASE cmd' = [cmd EXCEPT ![s] = Idle] /\ UNCHANGED accountVars
  <2>1. cmd' \in [Sessions -> Commands] /\ \A t \in Sessions : cmd'[t] \in {cmd[t], Idle}
    BY <1>1, <1>4, <1>5 DEF ViewInv, Viewed
  <2>2. /\ AccountOK(backlog', server')
        /\ Stored' /\ Wired' /\ Refreshed' /\ Viewed'
        /\ (\A t \in Sessions : Follows(t)') /\ Flagged'
    BY <1>3, <1>4, <1>5, <2>1, AccountStep
  <2>3. Moved'
    BY <1>4, <1>5, <2>1 DEF ViewInv, Moved, accountVars
  <2> QED
    BY <2>2, <2>3 DEF ViewInv
<1>6. ASSUME NEW S \in SUBSET (c.ids \cap DOMAIN server),
             Becomes([m \in DOMAIN server |->
               IF m \in S THEN server[m] \cup {c.dest} ELSE server[m]]),
             cmd' = [cmd EXCEPT ![s] = IF c.do = "copying" THEN Idle
                       ELSE [c EXCEPT !.do = "unlabelling", !.refused = c.ids \ S]]
      PROVE  ViewInv'
  <2> DEFINE srv == [m \in DOMAIN server |->
                       IF m \in S THEN server[m] \cup {c.dest} ELSE server[m]]
             d == [c EXCEPT !.do = "unlabelling", !.refused = c.ids \ S]
  <2>5. c.dest \in Labels
    BY <1>1, <1>3 DEF Commands
  <2>1. d \in Commands /\ d.do = "unlabelling" /\ d.ids = c.ids /\ d.dest = c.dest
        /\ d.refused = c.ids \ S
    BY <1>1, <2>5 DEF Commands
  <2>2. server' = srv
    BY <1>6 DEF Becomes
  <2>3. DOMAIN srv = DOMAIN server /\ \A m \in DOMAIN server : server[m] \subseteq srv[m]
    OBVIOUS
  <2>4. \A m \in S : m \in DOMAIN server /\ c.dest \in srv[m]
    OBVIOUS
  <2>6. IsPartialFn(srv, Msgs, SUBSET Labels)
    BY <1>2, <2>5 DEF IsPartialFn
  <2> HIDE DEF srv
  <2>7. cmd' = [cmd EXCEPT ![s] = IF c.do = "copying" THEN Idle ELSE d]
    BY <1>6
  <2> HIDE DEF d
  <2>8. /\ cmd' \in [Sessions -> Commands]
        /\ \A t \in Sessions : cmd'[t] = cmd[t] \/ cmd'[t] = Idle \/ (t = s /\ cmd'[t] = d)
    BY <1>1, <1>4, <2>1, <2>7 DEF ViewInv, Viewed
  <2>9. Becomes(srv)
    BY <1>6 DEF srv
  <2>10. \E x : IsPartialFn(x, Msgs, SUBSET Labels) /\ Becomes(x)
    BY <1>2, <2>3, <2>6, <2>9
  <2>11. \A t \in Sessions : cmd'[t].do \in {"fetching", "destroying"} =>
           cmd'[t].do = cmd[t].do /\ cmd'[t].ids = cmd[t].ids
    BY <1>4, <2>1, <2>8
  <2>12. /\ AccountOK(backlog', server')
         /\ Stored' /\ Wired' /\ Refreshed' /\ Viewed'
         /\ (\A t \in Sessions : Follows(t)') /\ Flagged'
    BY <1>3, <2>8, <2>10, <2>11, AccountStep
  <2>13. Moved'
    <3> SUFFICES ASSUME NEW t \in Sessions, cmd'[t].do = "unlabelling",
                        NEW m \in (cmd'[t].ids \cap DOMAIN server') \ cmd'[t].refused
                 PROVE  cmd'[t].dest \in server'[m]
      BY DEF Moved
    <3>1. m \in DOMAIN server
      BY <2>2, <2>3
    <3>2. CASE cmd'[t] = cmd[t]
      <4>1. cmd[t].dest \in server[m]
        BY <3>1, <3>2 DEF ViewInv, Moved
      <4> QED
        BY <2>2, <2>3, <3>1, <3>2, <4>1
    <3>3. CASE cmd'[t] = d
      BY <2>1, <2>2, <2>4, <3>3
    <3> QED
      BY <1>4, <2>8, <3>2, <3>3
  <2> QED
    BY <2>12, <2>13 DEF ViewInv
<1> QED
  BY <1>5, <1>6 DEF Label

\* UnlabelMessages: somebody else's MOVE into the mailbox is not to blame.
LEMMA UnlabelStep ==
  ASSUME ViewInv, NEW s \in Sessions, Unlabel(s)
  PROVE  ViewInv'
<1>1. \A t \in Sessions : cmd[t] \in Commands
  BY DEF ViewInv, Viewed
<1>2. IsPartialFn(server, Msgs, SUBSET Labels)
  BY DEF ViewInv, AccountOK
<1>3. /\ UNCHANGED <<storeVars, boxVars, wireVars, view, meant>>
      /\ cmd' = [t \in Sessions |-> IF t = s THEN Idle ELSE TakenAway(cmd[t], server')]
  BY DEF Unlabel
<1>4. Idle \in Commands /\ Idle.do = "idle"
  BY DEF Idle, Commands
<1>5. PICK S \in SUBSET (cmd[s].ids \cap DOMAIN server) :
        Becomes([m \in DOMAIN server |->
          IF m \in S THEN server[m] \ {LabelOf(s)} ELSE server[m]])
  BY DEF Unlabel
<1> DEFINE srv == [m \in DOMAIN server |->
                     IF m \in S THEN server[m] \ {LabelOf(s)} ELSE server[m]]
<1>6. IsPartialFn(srv, Msgs, SUBSET Labels) /\ Becomes(srv)
  BY <1>2, <1>5 DEF IsPartialFn
<1> HIDE DEF srv
<1>7. cmd' \in [Sessions -> Commands]
  BY <1>1, <1>3, <1>4, TakenAwayType
<1>8. \A t \in Sessions : cmd'[t].do # "idle" =>
        /\ t # s /\ cmd'[t] = TakenAway(cmd[t], server') /\ cmd'[t].dest = cmd[t].dest
        /\ cmd'[t].do = cmd[t].do /\ cmd'[t].ids = cmd[t].ids
  BY <1>1, <1>3, <1>4, TakenAwayType
<1>9. /\ AccountOK(backlog', server')
      /\ Stored' /\ Wired' /\ Refreshed' /\ Viewed'
      /\ (\A t \in Sessions : Follows(t)') /\ Flagged'
  <2>1. \A t \in Sessions : cmd'[t].do \in {"fetching", "destroying"} =>
          cmd'[t].do = cmd[t].do /\ cmd'[t].ids = cmd[t].ids
    BY <1>8
  <2> QED
    BY <1>3, <1>6, <1>7, <2>1, AccountStep
<1>10. Moved'
  <2> SUFFICES ASSUME NEW t \in Sessions, cmd'[t].do = "unlabelling",
                      NEW m \in (cmd'[t].ids \cap DOMAIN server') \ cmd'[t].refused
               PROVE  cmd'[t].dest \in server'[m]
    BY DEF Moved
  <2>1. /\ cmd[t] \in Commands /\ cmd[t].do = "unlabelling" /\ cmd'[t].dest = cmd[t].dest
        /\ m \in (cmd[t].ids \cap DOMAIN server') \ TakenAway(cmd[t], server').refused
    BY <1>1, <1>8
  <2> QED
    BY <2>1, TakenAwayMoved
<1> QED
  BY <1>9, <1>10 DEF ViewInv

\* DeleteMessages: no other message is touched.
LEMMA DestroyStep ==
  ASSUME ViewInv, NEW s \in Sessions, Destroy(s)
  PROVE  ViewInv'
<1>1. \A t \in Sessions : cmd[t] \in Commands
  BY DEF ViewInv, Viewed
<1>2. IsPartialFn(server, Msgs, SUBSET Labels)
  BY DEF ViewInv, AccountOK
<1>3. UNCHANGED <<storeVars, boxVars, wireVars, view, meant>> /\ cmd' = [cmd EXCEPT ![s] = Idle]
  BY DEF Destroy
<1>4. Idle \in Commands /\ Idle.do = "idle"
  BY DEF Idle, Commands
<1>5. PICK S \in SUBSET (cmd[s].ids \cap DOMAIN server) : Becomes(Without(server, S))
  BY DEF Destroy
<1>6. IsPartialFn(Without(server, S), Msgs, SUBSET Labels)
  BY <1>2 DEF IsPartialFn, Without
<1>7. cmd' \in [Sessions -> Commands] /\ \A t \in Sessions : cmd'[t] \in {cmd[t], Idle}
  BY <1>1, <1>3, <1>4 DEF ViewInv, Viewed
<1>8. /\ AccountOK(backlog', server')
      /\ Stored' /\ Wired' /\ Refreshed' /\ Viewed'
      /\ (\A t \in Sessions : Follows(t)') /\ Flagged'
  BY <1>3, <1>4, <1>5, <1>6, <1>7, AccountStep
<1>9. server' = Without(server, S)
  BY <1>5 DEF Becomes
<1>10. DOMAIN server' \subseteq DOMAIN server /\ \A m \in DOMAIN server' : server'[m] = server[m]
  BY <1>9 DEF Without
<1>11. Moved'
  BY <1>4, <1>7, <1>10 DEF ViewInv, Moved
<1> QED
  BY <1>8, <1>11 DEF ViewInv

\* A command begins, on messages that it names.
LEMMA BeginStep ==
  ASSUME ViewInv, NEW s \in Sessions, NEW do, NEW ids \in SUBSET Msgs, NEW dest,
         do \in {"fetching", "copying", "moving", "destroying"},
         do \in {"copying", "moving"} => dest \in Labels, dest \in Labels \cup {Nil},
         do = "fetching" => view[s].box \in ready,
         do = "destroying" => \A m \in ids : <<view[s].box, m>> \in meant,
         Begin(s, do, ids, dest)
  PROVE  ViewInv'
<1> USE DEF storeVars, accountVars, boxVars, wireVars
<1> DEFINE d == [Idle EXCEPT !.do = do, !.ids = ids, !.dest = dest]
<1>1. d \in Commands /\ d.do = do /\ d.ids = ids
  BY DEF Idle, Commands
<1>2. /\ cmd' = [cmd EXCEPT ![s] = d]
      /\ UNCHANGED <<storeVars, accountVars, boxVars, wireVars, view, meant>>
  BY DEF Begin
<1> HIDE DEF d
<1>3. /\ cmd' \in [Sessions -> Commands]
      /\ \A t \in Sessions : cmd'[t] = IF t = s THEN d ELSE cmd[t]
  BY <1>1, <1>2 DEF ViewInv, Viewed
<1>4. AccountOK(backlog', server') /\ Stored' /\ Wired' /\ Refreshed'
  BY <1>2 DEF ViewInv, Stored, Buckets, Wired, Refreshed
<1>5. Viewed'
  BY <1>1, <1>2, <1>3 DEF ViewInv, Viewed, InStep, Stored
<1>6. \A t \in Sessions : Follows(t)'
  BY <1>2 DEF ViewInv, Follows, Updating, LabelOf
<1>7. Flagged'
  BY <1>1, <1>2, <1>3 DEF ViewInv, Flagged
<1>8. Moved'
  BY <1>1, <1>2, <1>3 DEF ViewInv, Moved
<1> QED
  BY <1>4, <1>5, <1>6, <1>7, <1>8 DEF ViewInv

\* What a bucket shows at a position.
LEMMA EntryIs ==
  ASSUME ViewInv, NEW l \in Labels
  PROVE  /\ BucketOK(content[l], sequence[l])
         /\ Size(l) = Len(ListOf(content[l])) /\ Size(l) \in Nat
         /\ ListOf(content[l]) \in Lists
         /\ \A i \in 1 .. Size(l) :
              /\ EntryAt(l, i) = ListOf(content[l])[i]
              /\ EntryAt(l, i) \in Msgs /\ Holds(content[l], EntryAt(l, i))
<1>1. BucketOK(content[l], sequence[l])
  BY DEF ViewInv, Stored, Buckets
<1>2. /\ ListOf(content[l]) \in Seq(Msgs) /\ Size(l) = Len(ListOf(content[l])) /\ Size(l) \in Nat
      /\ \A i \in 1 .. Size(l) :
           /\ ListOf(content[l])[i] = content[l][Nth(DOMAIN content[l], i)]
           /\ Holds(content[l], ListOf(content[l])[i])
  BY <1>1, ListType, BucketDomain DEF Size
<1>3. ListOf(content[l]) \in Lists
  BY <1>2, SeqMonotonic DEF Lists
<1>4. \A i \in 1 .. Size(l) : EntryAt(l, i) = content[l][Nth(DOMAIN content[l], i)]
  BY DEF EntryAt, SeqNum, Nth
<1>5. \A i \in 1 .. Size(l) : ListOf(content[l])[i] \in Msgs
  BY <1>2, ElementOfSeq
<1> QED
  BY <1>1, <1>2, <1>3, <1>4, <1>5

\* A client that follows, with no update on its way, knows the mailbox.
LEMMA QuietFollower ==
  ASSUME ViewInv, NEW s \in Sessions, view[s].box \in ready, view[s].follows, Quiet(LabelOf(s))
  PROVE  Shows(view[s].list, ListOf(content[LabelOf(s)]))
<1> DEFINE l == LabelOf(s)
<1>1. l \in Labels
  BY Selected
<1>2. Updating(l) = << >>
  BY DEF Quiet, Updating
<1>3. Led(view[s].list, << >>, ListOf(content[l]))
  BY <1>2 DEF ViewInv, Follows
<1> QED
  BY <1>1, <1>3, EntryIs, LedByNothing

\* What a client in step names by number is what it means.
LEMMA NamedInStep ==
  ASSUME ViewInv, NEW s \in Sessions, Can(s), NEW m, m # Unknown
  PROVE  /\ Named(s, m) \in SUBSET Msgs
         /\ ~OutOfStep(s) => Named(s, m) \subseteq {m}
<1> DEFINE l == LabelOf(s)
           list == view[s].list
<1>1. l \in Labels /\ view[s].box \in ready
  BY Selected DEF Can
<1>2. Named(s, m) \in SUBSET Msgs
  BY <1>1, EntryIs DEF Named
<1>3. ASSUME ~OutOfStep(s), NEW i \in 1 .. Size(l), i \in DOMAIN list, list[i] = m
      PROVE  EntryAt(l, i) = m
  <2>1. Shows(list, ListOf(content[l]))
    BY <1>1, <1>3, QuietFollower DEF OutOfStep
  <2>2. list[i] \in {Unknown, EntryAt(l, i)}
    BY <1>1, <1>3, <2>1, EntryIs DEF Shows
  <2> QED
    BY <1>3, <2>2
<1> QED
  BY <1>2, <1>3 DEF Named

\* What a client names by UID is what it means.
LEMMA WithUidIs ==
  ASSUME ViewInv, NEW l \in Labels, NEW m
  PROVE  WithUid(l, m) \in SUBSET Msgs /\ WithUid(l, m) \subseteq {m}
<1>1. BucketOK(content[l], sequence[l])
  BY DEF ViewInv, Stored, Buckets
<1>2. Holds(content[l], m) => m \in Msgs
  BY <1>1 DEF BucketOK, IsPartialFn, Holds
<1> QED
  BY <1>2 DEF WithUid

\* A flag is set on what is meant, and taken back on what nobody destroys.
LEMMA FlagStep ==
  ASSUME ViewInv, NEW b \in Boxes, NEW m, NEW named \in SUBSET Msgs, NEW inStep,
         inStep => named \subseteq {m},
         Flag(b, m, named, inStep) \/ Unflag(b, m, named, inStep)
  PROVE  ViewInv'
<1> USE DEF storeVars, accountVars, wireVars
<1>1. UNCHANGED <<storeVars, accountVars, current, mapped, total, ready, wireVars, view, cmd>>
  BY DEF Flag, Unflag
<1>2. AccountOK(backlog', server') /\ Stored'
  BY <1>1 DEF ViewInv, Stored, Buckets
<1>3. Wired' /\ Refreshed'
  BY <1>1 DEF ViewInv, Wired, Refreshed
<1>4. Viewed' /\ \A t \in Sessions : Follows(t)'
  BY <1>1 DEF ViewInv, Viewed, InStep, Follows, Updating, LabelOf
<1>5. Moved'
  BY <1>1 DEF ViewInv, Moved
<1>6. /\ deleted \in [Boxes -> SUBSET Msgs]
      /\ \A x \in Boxes : \A n \in deleted[x] : <<x, n>> \in meant
  BY DEF ViewInv, Flagged
<1>7. Flagged'
  <2>1. CASE Flag(b, m, named, inStep)
    <3>1. /\ deleted' = [deleted EXCEPT ![b] = deleted[b] \cup named]
          /\ meant' = meant \cup ({b} \X ({m} \cup IF inStep THEN {} ELSE named))
      BY <2>1 DEF Flag
    <3>2. deleted' \in [Boxes -> SUBSET Msgs]
      BY <1>6, <3>1
    <3>3. \A n \in named : <<b, n>> \in meant'
      BY <3>1
    <3>4. \A x \in Boxes : \A n \in deleted'[x] : <<x, n>> \in meant'
      BY <1>6, <3>1, <3>3
    <3> QED
      BY <1>1, <3>1, <3>2, <3>4 DEF ViewInv, Flagged
  <2>2. CASE Unflag(b, m, named, inStep)
    <3>1. deleted' = [deleted EXCEPT ![b] = deleted[b] \ named]
      BY <2>2 DEF Unflag
    <3>2. deleted' \in [Boxes -> SUBSET Msgs] /\ \A x \in Boxes : deleted'[x] \subseteq deleted[x]
      BY <1>6, <3>1
    <3>3. CASE /\ inStep /\ m \in named
               /\ \A s \in Sessions : cmd[s].do = "destroying" => m \notin cmd[s].ids
      <4>1. meant' = meant \ {<<b, m>>}
        BY <2>2, <3>3 DEF Unflag
      <4>2. m \notin deleted'[b]
        BY <1>6, <3>1, <3>3
      <4>3. \A x \in Boxes : \A n \in deleted'[x] : <<x, n>> \in meant'
        BY <1>6, <3>2, <4>1, <4>2
      <4>4. \A s \in Sessions : cmd'[s].do = "destroying" =>
              \A n \in cmd'[s].ids : <<view'[s].box, n>> \in meant'
        BY <1>1, <3>3, <4>1 DEF ViewInv, Flagged
      <4> QED
        BY <3>2, <4>3, <4>4 DEF Flagged
    <3>4. CASE ~(/\ inStep /\ m \in named
                 /\ \A s \in Sessions : cmd[s].do = "destroying" => m \notin cmd[s].ids)
      <4>1. meant' = meant
        BY <2>2, <3>4 DEF Unflag
      <4> QED
        BY <1>1, <1>6, <3>2, <4>1 DEF ViewInv, Flagged
    <3> QED
      BY <3>3, <3>4
  <2> QED
    BY <2>1, <2>2
<1> QED
  BY <1>2, <1>3, <1>4, <1>5, <1>7 DEF ViewInv

\* STORE, by number or by UID.
LEMMA StoreStep ==
  ASSUME ViewInv, NEW s \in Sessions, NEW m, m # Unknown, Store(s, m)
  PROVE  ViewInv'
<1> DEFINE b == view[s].box
           l == LabelOf(s)
<1>1. b \in Boxes /\ l = b[1] /\ l \in Labels /\ Can(s)
  BY Selected DEF Store, Can, LabelOf
<1>2. Named(s, m) \in SUBSET Msgs /\ (~OutOfStep(s) => Named(s, m) \subseteq {m})
  BY <1>1, NamedInStep
<1>3. WithUid(l, m) \in SUBSET Msgs /\ WithUid(l, m) \subseteq {m}
  BY <1>1, WithUidIs
<1>4. CASE Flag(b, m, Named(s, m), ~OutOfStep(s)) \/ Unflag(b, m, Named(s, m), ~OutOfStep(s))
  BY <1>1, <1>2, <1>4, FlagStep
<1>5. CASE Flag(b, m, WithUid(l, m), TRUE) \/ Unflag(b, m, WithUid(l, m), TRUE)
  BY <1>1, <1>3, <1>5, FlagStep
<1> QED
  BY <1>1, <1>4, <1>5 DEF Store

\* STORE of another connection.
LEMMA StoreElsewhereStep ==
  ASSUME ViewInv, NEW b \in Boxes, StoreElsewhere(b)
  PROVE  ViewInv'
<1>1. PICK m \in Msgs : Flag(b, m, {m}, TRUE) \/ Unflag(b, m, {m}, TRUE)
  BY DEF StoreElsewhere
<1> QED
  BY <1>1, FlagStep

\* FETCH, COPY, MOVE and EXPUNGE name their messages.
LEMMA CommandsBegin ==
  ASSUME ViewInv, NEW s \in Sessions,
         Fetch(s) \/ Expunge(s) \/ \E m : m # Unknown /\ CopyOrMove(s, m)
  PROVE  ViewInv'
<1> DEFINE b == view[s].box
           l == LabelOf(s)
<1>1. l \in Labels /\ b \in ready /\ b \in Boxes /\ Can(s)
  BY Selected DEF Fetch, CopyOrMove, Expunge, Can
<1>2. BucketOK(content[l], sequence[l])
  BY <1>1, EntryIs
<1>3. CASE Fetch(s)
  <2>1. PICK u \in DOMAIN content[l] : Begin(s, "fetching", {content[l][u]}, Nil)
    BY <1>3 DEF Fetch
  <2>2. {content[l][u]} \in SUBSET Msgs
    BY <1>2 DEF BucketOK, IsPartialFn
  <2> QED
    BY <1>1, <2>1, <2>2, BeginStep
<1>4. ASSUME NEW m, m # Unknown, CopyOrMove(s, m) PROVE ViewInv'
  <2>1. PICK ids \in {Named(s, m), WithUid(l, m)}, do \in {"copying", "moving"}, dest \in Labels :
          Begin(s, do, ids, dest)
    BY <1>4 DEF CopyOrMove
  <2>2. ids \in SUBSET Msgs
    BY <1>1, <1>4, NamedInStep, WithUidIs
  <2>3. do # "fetching" /\ do # "destroying"
    OBVIOUS
  <2> QED
    BY <2>1, <2>2, <2>3, BeginStep
<1>5. CASE Expunge(s)
  <2>1. Begin(s, "destroying", deleted[b], Nil)
    BY <1>5 DEF Expunge
  <2>2. deleted[b] \in SUBSET Msgs /\ \A n \in deleted[b] : <<b, n>> \in meant
    BY <1>1 DEF ViewInv, Flagged
  <2> QED
    BY <2>1, <2>2, BeginStep
<1> QED
  BY <1>3, <1>4, <1>5

\* SELECT: a client follows from the start if the total is that of the bucket
\* and no update is on its way.
LEMMA SelectStep ==
  ASSUME ViewInv, NEW s \in Sessions, NEW l \in Opened, Select(s, l)
  PROVE  ViewInv'
<1> USE DEF storeVars, accountVars, boxVars, wireVars
<1> DEFINE b == <<l, current>>
           list == [i \in 1 .. total[l] |-> Unknown]
           follows == b \in ready => Quiet(l) /\ total[l] = Size(l)
<1>1. /\ cmd[s] = Idle /\ l \in mapped
      /\ UNCHANGED <<storeVars, accountVars, boxVars, wireVars, cmd, meant>>
      /\ view' = [view EXCEPT ![s] = [box |-> b, list |-> list, follows |-> follows]]
  BY DEF Select
<1>2. l \in Labels /\ b \in Boxes /\ b[1] = l
  BY ImapViewAssumption DEF ViewInv, Refreshed, Boxes
<1>3. /\ total[l] \in Nat /\ list \in Lists /\ Len(list) = total[l]
      /\ \A i \in 1 .. Len(list) : list[i] = Unknown
  <2>1. total[l] \in Nat
    BY <1>2 DEF ViewInv, Wired
  <2>2. list \in [1 .. total[l] -> Msgs \cup {Unknown}]
    OBVIOUS
  <2>3. list \in Lists /\ Len(list) = total[l]
    BY <2>1, <2>2 DEF Lists
  <2> QED
    BY <2>1, <2>3
<1>4. follows \in BOOLEAN
  OBVIOUS
<1>5. follows /\ b \in ready => Quiet(l) /\ total[l] = Size(l)
  OBVIOUS
<1> HIDE DEF b, list, follows
<1>6. /\ view' \in [Sessions -> Views]
      /\ view'[s] = [box |-> b, list |-> list, follows |-> follows]
      /\ \A t \in Sessions \ {s} : view'[t] = view[t]
  BY <1>1, <1>2, <1>3, <1>4 DEF ViewInv, Viewed, Views
<1>7. AccountOK(backlog', server') /\ Stored' /\ Wired' /\ Refreshed'
  BY <1>1 DEF ViewInv, Stored, Buckets, Wired, Refreshed
<1>8. Viewed'
  <2>1. cmd[s].do = "idle"
    BY <1>1 DEF Idle
  <2>2. InStep(view[s], cmd[s])' /\ \A t \in Sessions : InStep(view[t], cmd[t])'
    BY <1>1, <1>2, <1>3, <1>6, <2>1 DEF ViewInv, Viewed, InStep
  <2>3. \A t \in Sessions : cmd[t].do = "fetching" => view'[t].box \in Boxes
    BY <1>2, <1>6 DEF ViewInv, Viewed
  <2> QED
    BY <1>1, <1>6, <2>2, <2>3 DEF ViewInv, Viewed
<1>9. ASSUME NEW t \in Sessions PROVE Follows(t)'
  <2>1. CASE t # s
    BY <1>1, <1>6, <2>1 DEF ViewInv, Follows, Updating, LabelOf
  <2>2. CASE t = s
    <3> SUFFICES ASSUME b \in ready, follows
                 PROVE  Led(list, Updating(l), ListOf(content[l]))
      BY <1>1, <1>2, <1>6, <2>2 DEF Follows, Updating, LabelOf
    <3>1. Updating(l) = << >> /\ total[l] = Size(l)
      BY <1>5 DEF Quiet, Updating
    <3>2. Len(ListOf(content[l])) = total[l] /\ ListOf(content[l]) \in Lists
      BY <1>2, <3>1, EntryIs
    <3>3. Shows(list, ListOf(content[l]))
      BY <1>3, <3>2 DEF Shows
    <3> QED
      BY <3>1, <3>2, <3>3, LedByNothing
  <2> QED
    BY <2>1, <2>2
<1>10. Flagged' /\ Moved'
  BY <1>1, <1>6 DEF ViewInv, Flagged, Moved, Idle
<1> QED
  BY <1>7, <1>8, <1>9, <1>10 DEF ViewInv

\* The answer of a FETCH: what is known afterwards is so, or the client no
\* longer follows, or knew it before.
LEMMA AnswerStep ==
  ASSUME ViewInv, NEW s \in Sessions, Answer(s)
  PROVE  ViewInv'
<1> USE DEF storeVars, accountVars, boxVars, wireVars
<1> DEFINE l == LabelOf(s)
           m == CHOOSE x \in cmd[s].ids : TRUE
           n == PositionIn(content[l], m)
           list == view[s].list
           still == view[s].follows /\ (Quiet(l) \/ list[n] = m)
           answered == n \in DOMAIN list /\ m \in DOMAIN record
<1>1. /\ cmd[s].do = "fetching" /\ cmd' = [cmd EXCEPT ![s] = Idle]
      /\ UNCHANGED <<storeVars, accountVars, boxVars, wireVars, meant>>
      /\ view' = IF ~answered THEN view
                 ELSE [view EXCEPT ![s] =
                        [box |-> view[s].box, list |-> [list EXCEPT ![n] = m], follows |-> still]]
  BY DEF Answer
<1>2. view[s].box \in Boxes /\ l \in Labels /\ list \in Lists /\ view[s] \in Views
  BY <1>1, Selected DEF ViewInv, Viewed, Views
<1>3. BucketOK(content[l], sequence[l]) /\ ListOf(content[l]) \in Lists
  BY <1>2, EntryIs
<1>4. Idle \in Commands /\ Idle.do = "idle"
  BY DEF Idle, Commands
<1>5. /\ cmd' \in [Sessions -> Commands]
      /\ \A t \in Sessions : cmd'[t] \in {cmd[t], Idle}
  BY <1>1, <1>4 DEF ViewInv, Viewed
<1>6. DOMAIN list = 1 .. Len(list) /\ Len(list) \in Nat
  BY <1>2, LenProperties DEF Lists
<1>7. ASSUME answered
      PROVE  m \in Msgs /\ n \in 1 .. Len(ListOf(content[l])) /\ ListOf(content[l])[n] = m
  <2>1. Holds(content[l], m)
    BY <1>6, <1>7 DEF PositionIn
  <2>2. m \in Msgs
    BY <1>3, <2>1 DEF BucketOK, IsPartialFn, Holds
  <2> QED
    BY <1>3, <2>1, <2>2, ListDeleted
<1>8. /\ still \in BOOLEAN
      /\ still => view[s].follows /\ (Quiet(l) \/ list[n] = m)
      /\ answered => n \in DOMAIN list
  BY <1>2 DEF Views
<1> HIDE DEF m, n, still, answered
<1>9. AccountOK(backlog', server') /\ Stored' /\ Wired' /\ Refreshed'
  BY <1>1 DEF ViewInv, Stored, Buckets, Wired, Refreshed
<1>10. CASE ~answered
  <2>1. view' = view
    BY <1>1, <1>10
  <2>2. Viewed'
    <3>1. \A t \in Sessions : cmd'[t].do = "fetching" => cmd'[t] = cmd[t]
      BY <1>4, <1>5
    <3>2. \A t \in Sessions : InStep(view[t], cmd[t])'
      BY <1>1, <2>1, <3>1 DEF ViewInv, Viewed, InStep
    <3> QED
      BY <1>5, <2>1, <3>1, <3>2 DEF ViewInv, Viewed
  <2>3. \A t \in Sessions : Follows(t)'
    BY <1>1, <2>1 DEF ViewInv, Follows, Updating, LabelOf
  <2>4. Flagged' /\ Moved'
    BY <1>1, <1>4, <1>5, <2>1 DEF ViewInv, Flagged, Moved
  <2> QED
    BY <1>9, <2>2, <2>3, <2>4 DEF ViewInv
<1>11. CASE answered
  <2> DEFINE new == [list EXCEPT ![n] = m]
  <2>1. /\ new \in Lists /\ Len(new) = Len(list)
        /\ \A i \in 1 .. Len(list) : new[i] = IF i = n THEN m ELSE list[i]
    <3>1. n \in 1 .. Len(list) /\ m \in Msgs \cup {Unknown}
      BY <1>6, <1>7, <1>8, <1>11
    <3> QED
      BY <1>2, <3>1, ExceptSeq DEF Lists
  <2>2. view' = [view EXCEPT ![s] = [box |-> view[s].box, list |-> new, follows |-> still]]
    BY <1>1, <1>11
  <2> HIDE DEF new
  <2>3. /\ view' \in [Sessions -> Views]
        /\ view'[s].box = view[s].box /\ view'[s].list = new /\ view'[s].follows = still
        /\ \A t \in Sessions \ {s} : view'[t] = view[t]
    BY <1>2, <1>8, <2>1, <2>2 DEF ViewInv, Viewed, Views
  <2>4. Viewed'
    <3>1. \A t \in Sessions : view'[t].box = view[t].box
      BY <2>3
    <3>2. \A t \in Sessions : cmd'[t].do = "fetching" => cmd'[t] = cmd[t]
      BY <1>4, <1>5
    <3>3. still => view[s].box \in ready
      BY <1>1, <1>8 DEF ViewInv, Viewed, InStep
    <3>4. InStep(view[s], cmd[s])'
      BY <1>1, <1>8, <2>3, <3>2, <3>3 DEF ViewInv, Viewed, InStep
    <3>5. \A t \in Sessions \ {s} : InStep(view[t], cmd[t])'
      BY <1>1, <2>3, <3>2 DEF ViewInv, Viewed, InStep
    <3> QED
      BY <1>5, <2>3, <3>1, <3>2, <3>4, <3>5 DEF ViewInv, Viewed
  <2>5. ASSUME NEW t \in Sessions PROVE Follows(t)'
    <3>1. CASE t # s
      BY <1>1, <2>3, <3>1 DEF ViewInv, Follows, Updating, LabelOf
    <3>2. CASE t = s
      <4> SUFFICES ASSUME still, view[s].box \in ready
                   PROVE  Led(new, Updating(l), ListOf(content[l]))
        BY <1>1, <2>3, <3>2 DEF Follows, Updating, LabelOf
      <4>1. CASE list[n] = m
        <5>1. new = list
          BY <1>2, <2>1, <4>1, SeqEqual DEF Lists
        <5>2. Led(list, Updating(l), ListOf(content[l]))
          BY <1>8 DEF ViewInv, Follows
        <5> QED
          BY <5>1, <5>2
      <4>2. CASE Quiet(l)
        <5>1. Shows(list, ListOf(content[l]))
          BY <1>8, <4>2, QuietFollower
        <5>2. Shows(new, ListOf(content[l]))
          BY <1>7, <1>11, <2>1, <5>1 DEF Shows
        <5>3. Updating(l) = << >>
          BY <4>2 DEF Quiet, Updating
        <5> QED
          BY <1>3, <5>2, <5>3, LedByNothing
      <4> QED
        BY <1>8, <4>1, <4>2
    <3> QED
      BY <3>1, <3>2
  <2>6. Flagged' /\ Moved'
    <3>1. \A t \in Sessions : view'[t].box = view[t].box
      BY <2>3
    <3> QED
      BY <1>1, <1>4, <1>5, <3>1 DEF ViewInv, Flagged, Moved
  <2> QED
    BY <1>9, <2>4, <2>5, <2>6 DEF ViewInv
<1> QED
  BY <1>10, <1>11

-----------------------------------------------------------------------------
(* The wire.                                                               *)

\* The updates on their way are announcements.
LEMMA WireType ==
  ASSUME ViewInv, NEW l \in Labels
  PROVE  /\ channel[l] \in Seq(Announcement) /\ staged.updates[l] \in Seq(Announcement)
         /\ Updating(l) \in Seq(Announcement)
<1>1. << >> \in Seq(Announcement)
  BY EmptySeq
<1>2. channel[l] \in Seq(Announcement)
  BY DEF ViewInv, Wired
<1>3. staged.updates[l] \in Seq(Announcement)
  <2>1. staged = NothingStaged => staged.updates[l] = << >>
    BY DEF NothingStaged
  <2>2. staged # NothingStaged => staged.updates \in [Labels -> Seq(Announcement)]
    BY DEF ViewInv, Wired
  <2> QED
    BY <1>1, <2>1, <2>2
<1> QED
  BY <1>2, <1>3, ConcatProperties DEF Updating

\* The updates go out: for every mailbox the same are on their way.
LEMMA PublishStep ==
  ASSUME ViewInv, Publish
  PROVE  ViewInv'
<1> USE DEF storeVars, accountVars, boxVars, wireVars
<1>1. /\ staged # NothingStaged /\ staged' = NothingStaged
      /\ total' = [l \in Opened |-> IF l \in mapped THEN staged.counts[l] ELSE total[l]]
      /\ channel' = [l \in Labels |-> channel[l] \o staged.updates[l]]
      /\ UNCHANGED <<record, hasRecords, boxes, sequence, content, epoch, accountVars,
                     current, mapped, ready, deleted, refresh, view, cmd, meant>>
  BY DEF Publish
<1>2. staged.counts \in [Labels -> Nat] /\ total \in [Opened -> Nat]
  BY <1>1 DEF ViewInv, Wired
<1>3. \A l \in Labels : channel'[l] = Updating(l) /\ Updating(l) \in Seq(Announcement)
  BY <1>1, WireType DEF Updating
<1>4. \A l \in Labels : Updating(l)' = Updating(l)
  <2> SUFFICES ASSUME NEW l \in Labels PROVE Updating(l)' = Updating(l)
    OBVIOUS
  <2>1. staged'.updates[l] = << >>
    BY <1>1 DEF NothingStaged
  <2>2. Updating(l) \o << >> = Updating(l)
    BY <1>3, ConcatEmptySeq
  <2> QED
    BY <1>3, <2>1, <2>2 DEF Updating
<1>5. AccountOK(backlog', server') /\ Stored' /\ Refreshed'
  BY <1>1 DEF ViewInv, Stored, Buckets, Refreshed
<1>6. Wired'
  <2>1. channel' \in [Labels -> Seq(Announcement)]
    BY <1>1, <1>3
  <2>2. total' \in [Opened -> Nat]
    BY <1>1, <1>2, ImapViewAssumption
  <2> QED
    BY <1>1, <1>2, <2>1, <2>2 DEF Wired
<1>7. Viewed'
  BY <1>1 DEF ViewInv, Viewed, InStep
<1>8. \A t \in Sessions : Follows(t)'
  <2> SUFFICES ASSUME NEW t \in Sessions, view[t].follows, view[t].box \in ready,
                      NEW l, l = LabelOf(t)
               PROVE  Led(view[t].list, Updating(l)', ListOf(content[l]))
    BY <1>1 DEF Follows, Updating, LabelOf
  <2>1. l \in Labels /\ Led(view[t].list, Updating(l), ListOf(content[l]))
    BY Selected DEF ViewInv, Follows
  <2> QED
    BY <1>4, <2>1
<1>9. Flagged' /\ Moved'
  BY <1>1 DEF ViewInv, Flagged, Moved
<1> QED
  BY <1>5, <1>6, <1>7, <1>8, <1>9 DEF ViewInv

\* The head of a queue is the head of what follows it.
LEMMA HeadOfQueue ==
  ASSUME NEW S, NEW a \in Seq(S), NEW b \in Seq(S), a # << >>
  PROVE  /\ a \o b \in Seq(S) /\ a \o b # << >>
         /\ Head(a \o b) = Head(a) /\ Head(a) \in S
         /\ Tail(a \o b) = Tail(a) \o b /\ Tail(a) \in Seq(S)
<1>1. Len(a) \in Nat /\ Len(a) >= 1 /\ Len(b) \in Nat
  BY EmptySeq, LenProperties
<1>2. /\ a \o b \in Seq(S) /\ Len(a \o b) = Len(a) + Len(b)
      /\ \A i \in 1 .. Len(a) + Len(b) :
           (a \o b)[i] = IF i <= Len(a) THEN a[i] ELSE b[i - Len(a)]
  BY ConcatProperties
<1>3. a \o b # << >>
  BY <1>1, <1>2, EmptySeq
<1>4. /\ Head(a) \in S /\ Tail(a) \in Seq(S) /\ Len(Tail(a)) = Len(a) - 1
      /\ \A i \in 1 .. Len(Tail(a)) : Tail(a)[i] = a[i + 1]
  BY HeadTailProperties
<1>5. /\ Tail(a \o b) \in Seq(S) /\ Len(Tail(a \o b)) = Len(a \o b) - 1
      /\ \A i \in 1 .. Len(Tail(a \o b)) : Tail(a \o b)[i] = (a \o b)[i + 1]
  BY <1>2, <1>3, HeadTailProperties
<1>6. Head(a \o b) = Head(a)
  <2>1. (a \o b)[1] = a[1]
    BY <1>1, <1>2
  <2> QED
    BY <1>2, <1>3, <2>1
<1>7. /\ Tail(a) \o b \in Seq(S) /\ Len(Tail(a) \o b) = Len(a) - 1 + Len(b)
      /\ \A i \in 1 .. Len(a) - 1 + Len(b) :
           (Tail(a) \o b)[i] = IF i <= Len(a) - 1 THEN Tail(a)[i] ELSE b[i - (Len(a) - 1)]
  BY <1>4, ConcatProperties
<1>8. ASSUME NEW i \in 1 .. Len(Tail(a \o b)) PROVE Tail(a \o b)[i] = (Tail(a) \o b)[i]
  <2>1. i \in 1 .. Len(a) - 1 + Len(b) /\ i + 1 \in 1 .. Len(a) + Len(b)
    BY <1>1, <1>2, <1>5
  <2>2. Tail(a \o b)[i] = IF i + 1 <= Len(a) THEN a[i + 1] ELSE b[i + 1 - Len(a)]
    BY <1>2, <1>5, <2>1
  <2>3. i <= Len(a) - 1 => i \in 1 .. Len(Tail(a)) /\ i + 1 <= Len(a)
    BY <1>1, <1>4, <2>1
  <2>4. ~(i <= Len(a) - 1) => ~(i + 1 <= Len(a)) /\ i - (Len(a) - 1) = i + 1 - Len(a)
    BY <1>1, <2>1
  <2>5. (Tail(a) \o b)[i] = IF i <= Len(a) - 1 THEN Tail(a)[i] ELSE b[i - (Len(a) - 1)]
    BY <1>7, <2>1
  <2> QED
    BY <1>4, <2>2, <2>3, <2>4, <2>5
<1>9. Len(Tail(a \o b)) = Len(Tail(a) \o b)
  BY <1>1, <1>2, <1>5, <1>7
<1>10. Tail(a \o b) = Tail(a) \o b
  BY <1>5, <1>7, <1>8, <1>9, SeqEqual
<1> QED
  BY <1>2, <1>3, <1>4, <1>6, <1>10

\* A client that knows nothing of the messages knows nothing afterwards.
LEMMA NothingTaken ==
  ASSUME NEW a \in Lists, NEW up \in Announcement, \A i \in 1 .. Len(a) : a[i] = Unknown
  PROVE  \A i \in 1 .. Len(Taken(a, up)) : Taken(a, up)[i] = Unknown
<1> DEFINE b == Taken(a, up)
<1>1. Len(a) \in Nat
  BY LenProperties DEF Lists
<1>2. CASE up.kind = "exists"
  <2>1. Len(b) = up.n /\ \A i \in 1 .. up.n : b[i] = IF i \in 1 .. Len(a) THEN a[i] ELSE Unknown
    BY <1>2, TakenIs
  <2> QED
    BY <2>1
<1>3. CASE up.kind # "exists" /\ up.n \in 1 .. Len(a)
  <2>1. /\ Len(b) = Len(a) - 1
        /\ \A i \in 1 .. Len(a) - 1 : b[i] = IF i < up.n THEN a[i] ELSE a[i + 1]
    BY <1>3, TakenIs
  <2>2. \A i \in 1 .. Len(a) - 1 : i \in 1 .. Len(a) /\ i + 1 \in 1 .. Len(a)
    BY <1>1
  <2> QED
    BY <2>1, <2>2
<1>4. CASE up.kind # "exists" /\ up.n \notin 1 .. Len(a)
  <2>1. b = a
    BY <1>4, TakenIs
  <2> QED
    BY <2>1
<1> QED
  BY <1>2, <1>3, <1>4

\* A client takes an update.
LEMMA DeliverStep ==
  ASSUME ViewInv, NEW l \in Labels, Deliver(l)
  PROVE  ViewInv'
<1> USE DEF storeVars, accountVars, boxVars, wireVars
<1> DEFINE up == Head(channel[l])
<1>1. /\ channel[l] # << >> /\ channel' = [channel EXCEPT ![l] = Tail(channel[l])]
      /\ view' = [s \in Sessions |->
           IF LabelOf(s) # l THEN view[s]
           ELSE [box |-> view[s].box, list |-> Taken(view[s].list, up),
                 follows |->
                   view[s].follows /\ (up.sound \/ Taken(view[s].list, up) = view[s].list)]]
      /\ UNCHANGED <<storeVars, accountVars, boxVars, staged, refresh, cmd, meant>>
  BY DEF Deliver
<1>2. channel[l] \in Seq(Announcement) /\ staged.updates[l] \in Seq(Announcement)
  BY WireType
<1>3. /\ Updating(l) \in Seq(Announcement) /\ Updating(l) # << >>
      /\ Head(Updating(l)) = up /\ up \in Announcement
      /\ Tail(Updating(l)) = Tail(channel[l]) \o staged.updates[l]
      /\ Tail(channel[l]) \in Seq(Announcement)
  BY <1>1, <1>2, HeadOfQueue DEF Updating
<1> HIDE DEF up
<1>4. channel \in [Labels -> Seq(Announcement)]
  BY DEF ViewInv, Wired
<1>5. /\ channel' \in [Labels -> Seq(Announcement)]
      /\ Updating(l)' = Tail(Updating(l))
      /\ \A x \in Labels \ {l} : Updating(x)' = Updating(x)
  BY <1>1, <1>3, <1>4 DEF Updating
<1>6. \A s \in Sessions : view[s] \in Views /\ Taken(view[s].list, up) \in Lists
  BY <1>3, Selected, TakenIs DEF Views
<1>7. ASSUME NEW s \in Sessions
      PROVE  /\ view'[s] \in Views /\ view'[s].box = view[s].box /\ LabelOf(s)' = LabelOf(s)
             /\ LabelOf(s) # l => view'[s] = view[s]
             /\ LabelOf(s) = l =>
                  /\ view'[s].list = Taken(view[s].list, up)
                  /\ view'[s].follows =>
                       view[s].follows /\ (up.sound \/ Taken(view[s].list, up) = view[s].list)
  <2>1. view'[s].box = view[s].box
    BY <1>1
  <2> QED
    BY <1>1, <1>6, <2>1 DEF Views, LabelOf
<1>8. AccountOK(backlog', server') /\ Stored' /\ Wired' /\ Refreshed'
  BY <1>1, <1>5 DEF ViewInv, Stored, Buckets, Wired, Refreshed
<1>9. Viewed'
  <2>1. view' \in [Sessions -> Views]
    BY <1>1, <1>7
  <2>2. ASSUME NEW s \in Sessions, view'[s].follows, view[s].box \notin ready,
               NEW i \in 1 .. Len(view'[s].list)
        PROVE  view'[s].list[i] = Unknown
    <3>1. view[s].follows
      BY <1>7, <2>2
    <3>2. \A j \in 1 .. Len(view[s].list) : view[s].list[j] = Unknown
      BY <2>2, <3>1 DEF ViewInv, Viewed, InStep
    <3>3. CASE LabelOf(s) # l
      BY <1>7, <2>2, <3>2, <3>3
    <3>4. CASE LabelOf(s) = l
      <4>1. view'[s].list = Taken(view[s].list, up) /\ view[s].list \in Lists
        BY <1>6, <1>7, <3>4 DEF Views
      <4>2. \A j \in 1 .. Len(Taken(view[s].list, up)) : Taken(view[s].list, up)[j] = Unknown
        BY <1>3, <3>2, <4>1, NothingTaken
      <4> QED
        BY <2>2, <4>1, <4>2
    <3> QED
      BY <3>3, <3>4
  <2>3. \A s \in Sessions : view'[s].follows => view[s].follows
    BY <1>7
  <2>4. \A s \in Sessions : InStep(view[s], cmd[s])'
    BY <1>1, <1>7, <2>2, <2>3 DEF ViewInv, Viewed, InStep
  <2> QED
    BY <1>1, <1>7, <2>1, <2>4 DEF ViewInv, Viewed
<1>10. ASSUME NEW s \in Sessions PROVE Follows(s)'
  <2> SUFFICES ASSUME NEW x, x = LabelOf(s), view[s].box \in ready, view'[s].follows
               PROVE  Led(view'[s].list, Updating(x)', ListOf(content[x]))
    BY <1>1, <1>7 DEF Follows, Updating
  <2>1. x \in Labels
    BY Selected
  <2>2. CASE x # l
    BY <1>5, <1>7, <2>1, <2>2 DEF ViewInv, Follows
  <2>3. CASE x = l
    <3>1. /\ view'[s].list = Taken(view[s].list, up)
          /\ view[s].follows /\ (up.sound \/ Taken(view[s].list, up) = view[s].list)
      BY <1>7, <2>3
    <3>2. Led(view[s].list, Updating(l), ListOf(content[l]))
      BY <2>3, <3>1 DEF ViewInv, Follows
    <3>3. view[s].list \in Lists
      BY <1>6 DEF Views
    <3>4. Led(Taken(view[s].list, up), Tail(Updating(l)), ListOf(content[l]))
      BY <1>3, <3>1, <3>2, <3>3, LedByTheRest
    <3> QED
      BY <1>5, <2>3, <3>1, <3>4
  <2> QED
    BY <2>2, <2>3
<1>11. Flagged' /\ Moved'
  BY <1>1, <1>7 DEF ViewInv, Flagged, Moved
<1> QED
  BY <1>8, <1>9, <1>10, <1>11 DEF ViewInv

-----------------------------------------------------------------------------
(* Changes no event brings, and refreshes.                                 *)

\* Events are lost: nothing else changes.
LEMMA LoseEventsStep ==
  ASSUME ViewInv, LoseEvents
  PROVE  ViewInv'
<1> USE DEF storeVars, boxVars, wireVars
<1>1. UNCHANGED <<storeVars, server, gone, changes, boxVars, wireVars, view, cmd, meant>>
  BY DEF LoseEvents
<1>2. PICK k \in 1 .. Len(backlog) : backlog' = SubSeq(backlog, k + 1, Len(backlog))
  BY DEF LoseEvents
<1>3. backlog \in Seq(Items) /\ Len(backlog) \in Nat
  BY LenProperties DEF ViewInv, AccountOK
<1>4. \A i \in k + 1 .. Len(backlog) : backlog[i] \in Items
  <2>1. \A i \in k + 1 .. Len(backlog) : i \in 1 .. Len(backlog)
    BY <1>3
  <2> QED
    BY <1>3, <2>1, ElementOfSeq
<1>5. backlog' \in Seq(Items)
  BY <1>2, <1>3, <1>4, SubSeqProperties
<1>6. AccountOK(backlog', server') /\ Stored' /\ Wired' /\ Refreshed'
  BY <1>1, <1>5 DEF ViewInv, AccountOK, Stored, Buckets, Wired, Refreshed
<1>7. Viewed' /\ \A s \in Sessions : Follows(s)'
  BY <1>1 DEF ViewInv, Viewed, InStep, Follows, Updating, LabelOf
<1>8. Flagged' /\ Moved'
  BY <1>1 DEF ViewInv, Flagged, Moved
<1> QED
  BY <1>6, <1>7, <1>8 DEF ViewInv

\* A refresh begins.
LEMMA StartRefreshStep ==
  ASSUME ViewInv, StartRefresh
  PROVE  ViewInv'
<1> USE DEF storeVars, boxVars
<1>1. /\ backlog' = << >> /\ refresh' = [stage |-> "boxes", left |-> mapped]
      /\ current < MaxRefresh
      /\ UNCHANGED <<storeVars, server, gone, boxVars, staged, channel, view, cmd, meant>>
  BY DEF StartRefresh
<1>2. AccountOK(backlog', server') /\ Stored' /\ Wired' /\ Refreshed'
  BY <1>1, EmptySeq DEF ViewInv, AccountOK, Stored, Buckets, Wired, Refreshed
<1>3. Viewed' /\ \A s \in Sessions : Follows(s)'
  BY <1>1 DEF ViewInv, Viewed, InStep, Follows, Updating, LabelOf
<1>4. Flagged' /\ Moved'
  BY <1>1 DEF ViewInv, Flagged, Moved
<1> QED
  BY <1>2, <1>3, <1>4 DEF ViewInv

\* The records go: no client knows a mailbox by them.
LEMMA ResetRecordsStep ==
  ASSUME ViewInv, ResetRecords
  PROVE  ViewInv'
<1> USE DEF storeVars, accountVars, boxVars
<1>1. /\ refresh.stage = "boxes" /\ refresh' = [refresh EXCEPT !.stage = "map"]
      /\ record' \in {record, Empty} /\ UNCHANGED <<boxes, sequence, content>>
      /\ UNCHANGED <<accountVars, boxVars, staged, channel, view, cmd, meant>>
  BY DEF ResetRecords, ResetMessages
<1>2. IsPartialFn(record', Msgs, SUBSET Labels)
  BY <1>1, EmptyIsPartialFn DEF ViewInv, Stored
<1>3. AccountOK(backlog', server') /\ Stored' /\ Wired'
  BY <1>1, <1>2 DEF ViewInv, Stored, Buckets, Wired
<1>4. Refreshed'
  <2>1. refresh \in [stage : {"none", "boxes", "map"}, left : SUBSET Labels] /\ current < MaxRefresh
    BY <1>1 DEF ViewInv, Refreshed
  <2>2. refresh' \in [stage : {"none", "boxes", "map"}, left : SUBSET Labels]
    BY <1>1, <2>1
  <2> QED
    BY <1>1, <2>1, <2>2 DEF ViewInv, Refreshed
<1>5. Viewed' /\ \A s \in Sessions : Follows(s)'
  BY <1>1 DEF ViewInv, Viewed, InStep, Follows, Updating, LabelOf
<1>6. Flagged' /\ Moved'
  BY <1>1 DEF ViewInv, Flagged, Moved
<1> QED
  BY <1>3, <1>4, <1>5, <1>6 DEF ViewInv

\* A bucket is emptied: who knew it by what was in it has lost step.
LEMMA ResetBoxStep ==
  ASSUME ViewInv, NEW l \in Labels, ResetBox(l)
  PROVE  ViewInv'
<1> USE DEF accountVars
<1>1. /\ content' = [content EXCEPT ![l] = Empty] /\ sequence' = [sequence EXCEPT ![l] = 0]
      /\ ready' = ready \ {<<l, current>>} /\ UNCHANGED <<record, boxes>>
      /\ refresh' = [refresh EXCEPT !.left = refresh.left \ {l}]
      /\ UNCHANGED <<accountVars, current, mapped, total, deleted, staged, channel, cmd, meant>>
  BY DEF ResetBox, Reset
<1>2. \A s \in Sessions : view[s] \in Views
  BY DEF ViewInv, Viewed
<1>3. ASSUME NEW s \in Sessions
      PROVE  /\ view'[s] \in Views /\ view'[s].box = view[s].box /\ view'[s].list = view[s].list
             /\ LabelOf(s)' = LabelOf(s)
             /\ view'[s].follows =>
                  view[s].follows /\ (LabelOf(s) = l => view[s].box \notin ready)
  <2>1. view'[s] = [view[s] EXCEPT !.follows =
          view[s].follows /\ (LabelOf(s) = l => view[s].box \notin ready)]
    BY DEF ResetBox, Unsettles
  <2>2. view[s] \in Views
    BY <1>2
  <2> QED
    BY <2>1, <2>2 DEF Views, LabelOf
<1>4. view' \in [Sessions -> Views]
  BY <1>3 DEF ResetBox, Unsettles
<1>5. BucketOK(Empty, 0)
  BY EmptyIsPartialFn, BoundsAssumption DEF BucketOK, Empty
<1>6. Buckets'
  BY <1>1, <1>5 DEF ViewInv, Stored, Buckets
<1>7. AccountOK(backlog', server') /\ Stored' /\ Wired' /\ Refreshed'
  BY <1>1, <1>6 DEF ViewInv, Stored, Wired, Refreshed
<1>8. Viewed'
  <2>1. ASSUME NEW s \in Sessions, view'[s].follows
        PROVE  /\ view[s].follows /\ (view[s].box \in ready => view[s].box \in ready')
    <3>1. view[s].box \in ready => LabelOf(s) # l
      BY <1>3, <2>1
    <3>2. view[s].box = <<l, current>> => LabelOf(s) = l
      BY DEF LabelOf
    <3> QED
      BY <1>1, <1>3, <2>1, <3>1, <3>2
  <2>2. \A s \in Sessions : InStep(view[s], cmd[s])'
    BY <1>1, <1>3, <2>1 DEF ViewInv, Viewed, InStep
  <2> QED
    BY <1>1, <1>3, <1>4, <2>2 DEF ViewInv, Viewed
<1>9. ASSUME NEW s \in Sessions PROVE Follows(s)'
  <2> SUFFICES ASSUME NEW x, x = LabelOf(s), view[s].box \in ready, view'[s].follows
               PROVE  Led(view[s].list, Updating(x), ListOf(content'[x]))
    BY <1>1, <1>3 DEF Follows, Updating
  <2>1. x # l /\ Led(view[s].list, Updating(x), ListOf(content[x]))
    BY <1>3 DEF ViewInv, Follows
  <2>2. x \in Labels /\ DOMAIN content = Labels
    BY Selected DEF ViewInv, Stored, Buckets
  <2> QED
    BY <1>1, <2>1, <2>2
<1>10. Flagged' /\ Moved'
  BY <1>1, <1>3 DEF ViewInv, Flagged, Moved
<1> QED
  BY <1>7, <1>8, <1>9, <1>10 DEF ViewInv

\* The messages the account has under a label are finitely many.
LEMMA InLabelType ==
  ASSUME ViewInv, NEW l \in Labels
  PROVE  /\ InLabel(l) \in SUBSET Msgs /\ Cardinality(InLabel(l)) \in Nat
         /\ \A m : m \in InLabel(l) <=> m \in DOMAIN server /\ l \in server[m]
<1>1. InLabel(l) \in SUBSET Msgs
  BY DEF InLabel, ViewInv, AccountOK, IsPartialFn
<1> QED
  BY <1>1, ImapViewAssumption, FS_Subset, FS_CardinalityType DEF InLabel

\* New objects: who has selected what is left out has lost step.
LEMMA RenewBoxesStep ==
  ASSUME ViewInv, RenewBoxes
  PROVE  ViewInv'
<1> USE DEF storeVars, accountVars
<1>1. /\ refresh.stage = "map" /\ refresh' = NoRefresh /\ current' = current + 1
      /\ UNCHANGED <<storeVars, accountVars, ready, deleted, staged, channel, cmd, meant>>
  BY DEF RenewBoxes
<1>2. mapped' \subseteq Labels /\ total' \in [Opened -> Nat]
  BY InLabelType, ImapViewAssumption DEF RenewBoxes
<1>3. \A s \in Sessions : view[s] \in Views
  BY DEF ViewInv, Viewed
<1>4. ASSUME NEW s \in Sessions
      PROVE  /\ view'[s] \in Views /\ view'[s].box = view[s].box /\ view'[s].list = view[s].list
             /\ LabelOf(s)' = LabelOf(s)
             /\ view'[s].follows => view[s].follows /\ view[s].box[1] \in mapped'
  <2>1. view'[s] = [view[s] EXCEPT !.follows = view[s].follows /\ LabelOf(s) \in mapped']
    BY DEF RenewBoxes
  <2>2. view[s] \in Views
    BY <1>3
  <2> QED
    BY <2>1, <2>2 DEF Views, LabelOf
<1>5. view' \in [Sessions -> Views]
  BY <1>4 DEF RenewBoxes
<1>6. AccountOK(backlog', server') /\ Stored' /\ Wired'
  BY <1>1, <1>2 DEF ViewInv, Stored, Buckets, Wired
<1>7. Refreshed'
  BY <1>1, <1>2, ImapViewAssumption DEF ViewInv, Refreshed, NoRefresh
<1>8. Viewed'
  <2>1. \A s \in Sessions : InStep(view[s], cmd[s])'
    BY <1>1, <1>4 DEF ViewInv, Viewed, InStep
  <2> QED
    BY <1>1, <1>4, <1>5, <2>1 DEF ViewInv, Viewed
<1>9. \A s \in Sessions : Follows(s)'
  BY <1>1, <1>4 DEF ViewInv, Follows, Updating
<1>10. Flagged' /\ Moved'
  BY <1>1, <1>4 DEF ViewInv, Flagged, Moved
<1> QED
  BY <1>6, <1>7, <1>8, <1>9, <1>10 DEF ViewInv

-----------------------------------------------------------------------------
(* The listing of a mailbox.                                               *)

\* The bucket that a listing makes holds the messages listed.
LEMMA ListedBucket ==
  ASSUME NEW S \in SUBSET Msgs, Cardinality(S) <= MaxUid, NEW f,
         f = [u \in 1 .. Cardinality(S) |-> Nth(S, u)]
  PROVE  /\ BucketOK(f, Cardinality(S)) /\ Cardinality(DOMAIN f) = Cardinality(S)
         /\ \A m : Holds(f, m) <=> m \in S
<1> DEFINE k == Cardinality(S)
<1>1. S \in SUBSET Nat /\ IsFiniteSet(S) /\ k \in Nat
  BY ImapViewAssumption, FS_Subset, FS_CardinalityType
<1>2. \A u \in 1 .. k : Nth(S, u) \in S /\ Rank(S, Nth(S, u)) = u
  BY <1>1, NthIs
<1>3. \A m \in S : Rank(S, m) \in 1 .. k /\ Nth(S, Rank(S, m)) = m
  BY <1>1, RankGrows, NthOfRank
<1>4. DOMAIN f = 1 .. k /\ \A u \in 1 .. k : f[u] = Nth(S, u)
  OBVIOUS
<1>5. Cardinality(DOMAIN f) = k
  BY <1>1, <1>4, FS_Interval
<1>6. \A u, v \in 1 .. k : f[u] = f[v] => u = v
  BY <1>2, <1>4
<1>7. \A m : Holds(f, m) <=> m \in S
  BY <1>2, <1>3, <1>4 DEF Holds
<1>8. f \in [1 .. k -> Msgs]
  BY <1>2, <1>4
<1>9. BucketOK(f, k)
  BY <1>1, <1>4, <1>6, <1>8, BoundsAssumption DEF BucketOK, IsPartialFn, Uid
<1> QED
  BY <1>5, <1>7, <1>9

\* What is on its way for a mailbox when it is listed need not announce anything.
LEMMA OutdatedType ==
  ASSUME NEW ups \in Seq(Announcement)
  PROVE  /\ Outdated(ups) \in Seq(Announcement)
         /\ \A i \in 1 .. Len(Outdated(ups)) : ~Outdated(ups)[i].sound
         /\ ups = << >> => Outdated(ups) = << >>
<1>1. Len(ups) \in Nat /\ DOMAIN ups = 1 .. Len(ups)
  BY LenProperties
<1>2. \A i \in 1 .. Len(ups) : ups[i] \in Announcement
  BY ElementOfSeq
<1>3. \A i \in 1 .. Len(ups) : [ups[i] EXCEPT !.sound = FALSE] \in Announcement
                               /\ ~[ups[i] EXCEPT !.sound = FALSE].sound
  BY <1>2 DEF Announcement
<1>4. Outdated(ups) = [i \in 1 .. Len(ups) |-> [ups[i] EXCEPT !.sound = FALSE]]
  BY <1>1 DEF Outdated
<1>5. Outdated(ups) \in [1 .. Len(ups) -> Announcement]
  BY <1>3, <1>4
<1>6. Outdated(ups) \in Seq(Announcement) /\ Len(Outdated(ups)) = Len(ups)
  BY <1>1, <1>5
<1>7. ups = << >> => Outdated(ups) = << >>
  BY <1>6, EmptySeq
<1> QED
  BY <1>3, <1>4, <1>6, <1>7

\* A listing: the bucket is what the account has, whatever the backlog brings,
\* and nothing that is on its way for the mailbox need announce anything.
LEMMA ListStep ==
  ASSUME ViewInv, NEW b \in Boxes, List(b)
  PROVE  ViewInv'
<1> USE DEF accountVars
<1> DEFINE l == b[1]
           S == InLabel(l)
           k == Cardinality(S)
           f == [u \in 1 .. k |-> Nth(S, u)]
<1>1. /\ b \notin ready /\ Room(l, k - sequence[l])
      /\ ready' = ready \cup {b}
      /\ content' = [content EXCEPT ![l] = f] /\ sequence' = [sequence EXCEPT ![l] = k]
      /\ record' = [m \in DOMAIN record \cup S |-> IF m \in S THEN server[m] ELSE record[m]]
      /\ channel' = [channel EXCEPT ![l] = Outdated(channel[l])]
      /\ staged' = [staged EXCEPT !.updates[l] = Outdated(staged.updates[l])]
      /\ UNCHANGED <<boxes, accountVars, current, mapped, total, deleted, refresh, cmd, meant>>
  BY DEF List
<1>2. ASSUME NEW s \in Sessions
      PROVE  /\ view'[s] \in Views /\ view'[s].box = view[s].box /\ view'[s].list = view[s].list
             /\ LabelOf(s)' = LabelOf(s)
             /\ view'[s].follows => view[s].follows
             /\ view'[s].follows /\ LabelOf(s) = l =>
                  IF view[s].box = b THEN Len(view[s].list) = k ELSE view[s].box \notin ready
  <2>1. view'[s] = [view[s] EXCEPT !.follows = view[s].follows /\ (LabelOf(s) = l =>
          IF view[s].box = b THEN Len(view[s].list) = k ELSE view[s].box \notin ready)]
    BY DEF List
  <2>2. view[s] \in Views
    BY DEF ViewInv, Viewed
  <2> HIDE DEF l, k
  <2> QED
    BY <2>1, <2>2 DEF Views, LabelOf
<1>3. view' \in [Sessions -> Views]
  BY <1>2 DEF List
<1>4. l \in Labels
  BY BoxIs
<1>5. /\ S \in SUBSET Msgs /\ k \in Nat
      /\ \A m \in S : m \in DOMAIN server /\ l \in server[m]
  BY <1>4, InLabelType
<1> HIDE DEF S, l
<1>6. BucketOK(content[l], sequence[l])
  BY <1>4, EntryIs
<1>7. k <= MaxUid
  BY <1>1, <1>5, <1>6, BoundsAssumption DEF Room, BucketOK
<1>8. BucketOK(f, k) /\ Cardinality(DOMAIN f) = k
  BY <1>5, <1>7, ListedBucket
<1>9. ListOf(f) \in Lists /\ Len(ListOf(f)) = k
  BY <1>8, ListType, SeqMonotonic DEF Lists
<1> HIDE DEF f, k
<1>10. DOMAIN content = Labels /\ \A x \in Labels : BucketOK(content[x], sequence[x])
  BY DEF ViewInv, Stored, Buckets
<1>11. content'[l] = f /\ \A x \in Labels \ {l} : content'[x] = content[x]
  BY <1>1, <1>4, <1>10
<1>12. AccountOK(backlog', server') /\ Refreshed'
  BY <1>1 DEF ViewInv, Refreshed
<1>13. Stored'
  <2>1. Buckets'
    BY <1>1, <1>4, <1>8, <1>10 DEF ViewInv, Stored, Buckets
  <2>2. IsPartialFn(server, Msgs, SUBSET Labels) /\ IsPartialFn(record, Msgs, SUBSET Labels)
    BY DEF ViewInv, Stored, AccountOK
  <2>3. IsPartialFn(record', Msgs, SUBSET Labels)
    BY <1>1, <1>5, <2>2 DEF IsPartialFn
  <2> QED
    BY <1>1, <2>1, <2>3 DEF ViewInv, Stored
<1>14. /\ channel[l] \in Seq(Announcement) /\ staged.updates[l] \in Seq(Announcement)
       /\ channel'[l] = Outdated(channel[l]) /\ staged'.updates[l] = Outdated(staged.updates[l])
       /\ Updating(l)' \in Seq(Announcement)
       /\ \A i \in 1 .. Len(Updating(l)') : ~Updating(l)'[i].sound
       /\ \A x \in Labels \ {l} : Updating(x)' = Updating(x)
  <2> DEFINE q == Outdated(channel[l])
             r == Outdated(staged.updates[l])
  <2>1. channel[l] \in Seq(Announcement) /\ staged.updates[l] \in Seq(Announcement)
    BY <1>4, WireType
  <2>2. /\ q \in Seq(Announcement) /\ r \in Seq(Announcement)
        /\ \A i \in 1 .. Len(q) : ~q[i].sound
        /\ \A i \in 1 .. Len(r) : ~r[i].sound
    BY <2>1, OutdatedType
  <2>3. /\ channel \in [Labels -> Seq(Announcement)]
        /\ staged \in [counts : {staged.counts}, updates : [Labels -> Seq(Announcement)]]
    <3>1. << >> \in Seq(Announcement)
      BY EmptySeq
    <3>2. CASE staged = NothingStaged
      BY <3>1, <3>2 DEF ViewInv, Wired, NothingStaged
    <3>3. CASE staged \in [counts : [Labels -> Nat], updates : [Labels -> Seq(Announcement)]]
      BY <3>3 DEF ViewInv, Wired
    <3> QED
      BY <3>2, <3>3 DEF ViewInv, Wired
  <2>4. channel'[l] = q /\ staged'.updates[l] = r
    BY <1>1, <1>4, <2>3
  <2>5. \A x \in Labels \ {l} : channel'[x] = channel[x] /\ staged'.updates[x] = staged.updates[x]
    BY <1>1, <2>3
  <2> HIDE DEF q, r
  <2>6. /\ q \o r \in Seq(Announcement) /\ Len(q) \in Nat /\ Len(r) \in Nat
        /\ Len(q \o r) = Len(q) + Len(r)
        /\ \A i \in 1 .. Len(q) + Len(r) :
             (q \o r)[i] = IF i <= Len(q) THEN q[i] ELSE r[i - Len(q)]
    BY <2>2, ConcatProperties, LenProperties
  <2>7. ASSUME NEW i \in 1 .. Len(q \o r) PROVE ~(q \o r)[i].sound
    <3>1. (q \o r)[i] = IF i <= Len(q) THEN q[i] ELSE r[i - Len(q)]
      BY <2>6
    <3>2. IF i <= Len(q) THEN i \in 1 .. Len(q) ELSE i - Len(q) \in 1 .. Len(r)
      BY <2>6
    <3> QED
      BY <2>2, <3>1, <3>2
  <2> QED
    BY <2>1, <2>4, <2>5, <2>6, <2>7 DEF Updating, q, r
<1>15. Wired'
  <2>1. /\ Outdated(channel[l]) \in Seq(Announcement)
        /\ Outdated(staged.updates[l]) \in Seq(Announcement)
        /\ staged.updates[l] = << >> => Outdated(staged.updates[l]) = << >>
    BY <1>14, OutdatedType
  <2>2. channel' \in [Labels -> Seq(Announcement)] /\ total' \in [Opened -> Nat]
    BY <1>1, <2>1 DEF ViewInv, Wired
  <2>3. CASE staged = NothingStaged
    <3>1. staged.updates[l] = << >>
      BY <1>4, <2>3 DEF NothingStaged
    <3>2. staged' = [NothingStaged EXCEPT !.updates[l] = << >>]
      BY <1>1, <2>1, <2>3, <3>1
    <3>3. staged' = NothingStaged
      BY <3>2 DEF NothingStaged
    <3> QED
      BY <2>2, <3>3 DEF Wired
  <2>4. CASE staged # NothingStaged
    <3>1. staged \in [counts : [Labels -> Nat], updates : [Labels -> Seq(Announcement)]]
      BY <2>4 DEF ViewInv, Wired
    <3>2. staged' \in [counts : [Labels -> Nat], updates : [Labels -> Seq(Announcement)]]
      BY <1>1, <2>1, <3>1
    <3> QED
      BY <2>2, <3>2 DEF Wired
  <2> QED
    BY <2>3, <2>4
<1>16. Viewed'
  <2>1. \A s \in Sessions : InStep(view[s], cmd[s])'
    BY <1>1, <1>2 DEF ViewInv, Viewed, InStep
  <2> QED
    BY <1>1, <1>2, <1>3, <2>1 DEF ViewInv, Viewed
<1>17. ASSUME NEW s \in Sessions PROVE Follows(s)'
  <2> SUFFICES ASSUME NEW x, x = LabelOf(s), view[s].box \in ready', view'[s].follows
               PROVE  Led(view[s].list, Updating(x)', ListOf(content'[x]))
    BY <1>2 DEF Follows
  <2>1. CASE view[s].box \in ready
    <3>1. x \in Labels /\ Led(view[s].list, Updating(x), ListOf(content[x]))
      BY <1>2, <2>1, Selected DEF ViewInv, Follows
    <3>2. x # l
      BY <1>1, <1>2, <2>1
    <3> QED
      BY <1>11, <1>14, <3>1, <3>2
  <2>2. CASE view[s].box = b
    <3>1. x = l
      BY <2>2 DEF LabelOf, l
    <3>2. view[s].follows /\ Len(view[s].list) = k
      BY <1>2, <2>2, <3>1
    <3>3. \A i \in 1 .. Len(view[s].list) : view[s].list[i] = Unknown
      BY <1>1, <2>2, <3>2 DEF ViewInv, Viewed, InStep
    <3>4. Shows(view[s].list, ListOf(f))
      BY <1>9, <3>2, <3>3 DEF Shows
    <3> QED
      BY <1>9, <1>11, <1>14, <3>1, <3>4, LedByListing
  <2> QED
    BY <1>1, <2>1, <2>2
<1>18. Flagged' /\ Moved'
  BY <1>1, <1>2 DEF ViewInv, Flagged, Moved
<1> QED
  BY <1>12, <1>13, <1>15, <1>16, <1>17, <1>18 DEF ViewInv

-----------------------------------------------------------------------------
(* An event is handled.                                                    *)

\* What the database does with m to the bucket of l, from f to g, to its counter,
\* from s to t, and the updates that are made of its reply.
Applied(l, m, f, s, g, t, ups) ==
  \E all :
    /\ \/ /\ s + 1 <= MaxUid /\ g = CreateIn(f, s, m) /\ t = SequenceAfter(f, s, m)
          /\ all = <<[kind |-> "exists", n |-> PositionIn(g, m), sound |-> g # f]>>
       \/ /\ g = DeleteFrom(f, m) /\ t = s
          /\ all = <<[kind |-> "expunge", n |-> PositionIn(f, m), sound |-> g # f]>>
       \/ g = f /\ t = s /\ all = << >>
    /\ ups = IF l \in mapped \cap Opened THEN all ELSE << >>

\* An EXISTS leads to the bucket with the new message, if it is new; otherwise
\* it is not one that is to announce something.
LEMMA LeadsCreated ==
  ASSUME NEW f, NEW s, BucketOK(f, s), s + 1 <= MaxUid, NEW m \in Msgs, NEW g,
         g = CreateIn(f, s, m), NEW up,
         up = [kind |-> "exists", n |-> PositionIn(g, m), sound |-> g # f]
  PROVE  /\ BucketOK(g, SequenceAfter(f, s, m))
         /\ up \in Announcement /\ Leads(ListOf(f), ListOf(g), up)
<1>1. BucketOK(g, SequenceAfter(f, s, m))
  BY CreateInBucket
<1>2. PositionIn(g, m) \in Nat
  BY <1>1, PositionType
<1>3. ListOf(f) \in Lists /\ Len(ListOf(f)) \in Nat
  <2>1. ListOf(f) \in Seq(Msgs)
    BY ListType
  <2> QED
    BY <2>1, SeqMonotonic, LenProperties DEF Lists
<1>4. up \in Announcement /\ up.kind = "exists" /\ up.n = PositionIn(g, m)
  BY <1>2 DEF Announcement
<1>5. up.sound <=> g # f
  OBVIOUS
<1>6. CASE Holds(f, m)
  <2>1. g = f
    BY <1>6 DEF CreateIn
  <2> QED
    BY <1>1, <1>4, <1>5, <2>1 DEF Leads
<1>7. CASE ~Holds(f, m)
  <2>1. /\ Len(ListOf(g)) = Len(ListOf(f)) + 1 /\ PositionIn(g, m) = Len(ListOf(f)) + 1
        /\ \A i \in 1 .. Len(ListOf(f)) : ListOf(g)[i] = ListOf(f)[i]
    BY <1>7, ListCreated
  <2>2. /\ Len(Taken(ListOf(f), up)) = up.n
        /\ \A i \in 1 .. up.n : Taken(ListOf(f), up)[i] =
             IF i \in 1 .. Len(ListOf(f)) THEN ListOf(f)[i] ELSE Unknown
    BY <1>3, <1>4, TakenIs
  <2>3. Shows(Taken(ListOf(f), up), ListOf(g))
    BY <1>3, <1>4, <2>1, <2>2 DEF Shows
  <2> QED
    BY <1>1, <1>4, <2>3 DEF Leads
<1> QED
  BY <1>6, <1>7

\* An EXPUNGE leads to the bucket without the message, or does nothing.
LEMMA LeadsDeleted ==
  ASSUME NEW f, NEW s, BucketOK(f, s), NEW m, NEW g, g = DeleteFrom(f, m), NEW up,
         up = [kind |-> "expunge", n |-> PositionIn(f, m), sound |-> g # f]
  PROVE  BucketOK(g, s) /\ up \in Announcement /\ Leads(ListOf(f), ListOf(g), up)
<1>1. BucketOK(g, s)
  BY DeleteFromBucket
<1>2. PositionIn(f, m) \in Nat
  BY PositionType
<1>3. ListOf(f) \in Lists /\ Len(ListOf(f)) \in Nat
  <2>1. ListOf(f) \in Seq(Msgs)
    BY ListType
  <2> QED
    BY <2>1, SeqMonotonic, LenProperties DEF Lists
<1>4. up \in Announcement /\ up.kind # "exists" /\ up.n = PositionIn(f, m)
  BY <1>2 DEF Announcement
<1>5. CASE ~Holds(f, m)
  <2>1. g = f /\ ~up.sound
    BY <1>5 DEF DeleteFrom
  <2> QED
    BY <1>1, <1>4, <2>1 DEF Leads
<1>6. CASE Holds(f, m)
  <2>1. /\ up.n \in 1 .. Len(ListOf(f)) /\ Len(ListOf(g)) = Len(ListOf(f)) - 1
        /\ \A i \in 1 .. Len(ListOf(f)) - 1 :
             ListOf(g)[i] = IF i < up.n THEN ListOf(f)[i] ELSE ListOf(f)[i + 1]
    BY <1>4, <1>6, ListDeleted
  <2>2. /\ Len(Taken(ListOf(f), up)) = Len(ListOf(f)) - 1
        /\ \A i \in 1 .. Len(ListOf(f)) - 1 : Taken(ListOf(f), up)[i] =
             IF i < up.n THEN ListOf(f)[i] ELSE ListOf(f)[i + 1]
    BY <1>3, <1>4, <2>1, TakenIs
  <2>3. Shows(Taken(ListOf(f), up), ListOf(g))
    BY <2>1, <2>2 DEF Shows
  <2> QED
    BY <1>1, <1>4, <2>3 DEF Leads
<1> QED
  BY <1>5, <1>6

\* A client that is led to the bucket is led to what a call makes of it.
LEMMA AppliedLeads ==
  ASSUME NEW l, NEW m \in Msgs, NEW f, NEW s, BucketOK(f, s), NEW g, NEW t, NEW ups,
         Applied(l, m, f, s, g, t, ups)
  PROVE  /\ BucketOK(g, t) /\ ups \in Seq(Announcement)
         /\ l \in mapped \cap Opened => \A a : \A q \in Seq(Announcement) :
              Led(a, q, ListOf(f)) => Led(a, q \o ups, ListOf(g))
<1>1. PICK all :
        /\ \/ /\ s + 1 <= MaxUid /\ g = CreateIn(f, s, m) /\ t = SequenceAfter(f, s, m)
              /\ all = <<[kind |-> "exists", n |-> PositionIn(g, m), sound |-> g # f]>>
           \/ /\ g = DeleteFrom(f, m) /\ t = s
              /\ all = <<[kind |-> "expunge", n |-> PositionIn(f, m), sound |-> g # f]>>
           \/ g = f /\ t = s /\ all = << >>
        /\ ups = IF l \in mapped \cap Opened THEN all ELSE << >>
  BY DEF Applied
<1>2. << >> \in Seq(Announcement)
  BY EmptySeq
<1>3. CASE g = f /\ t = s /\ all = << >>
  <2>1. \A q \in Seq(Announcement) : q \o all = q
    BY <1>3, ConcatEmptySeq
  <2> QED
    BY <1>1, <1>2, <1>3, <2>1
<1>4. ASSUME NEW up \in Announcement, all = <<up>>, BucketOK(g, t), Leads(ListOf(f), ListOf(g), up)
      PROVE  /\ BucketOK(g, t) /\ ups \in Seq(Announcement)
             /\ l \in mapped \cap Opened => \A a : \A q \in Seq(Announcement) :
                  Led(a, q, ListOf(f)) => Led(a, q \o ups, ListOf(g))
  <2>1. ListOf(g) \in Lists
    BY <1>4, ListType, SeqMonotonic DEF Lists
  <2>2. all \in Seq(Announcement)
    BY <1>4
  <2>3. ASSUME NEW a, NEW q \in Seq(Announcement), Led(a, q, ListOf(f))
        PROVE  Led(a, q \o all, ListOf(g))
    BY <1>4, <2>1, <2>3, LedFurther
  <2> QED
    BY <1>1, <1>2, <1>4, <2>2, <2>3
<1>5. CASE /\ g = DeleteFrom(f, m) /\ t = s
           /\ all = <<[kind |-> "expunge", n |-> PositionIn(f, m), sound |-> g # f]>>
  <2> DEFINE up == [kind |-> "expunge", n |-> PositionIn(f, m), sound |-> g # f]
  <2>1. BucketOK(g, t) /\ up \in Announcement /\ Leads(ListOf(f), ListOf(g), up)
    BY <1>5, LeadsDeleted
  <2> QED
    BY <1>4, <1>5, <2>1
<1>6. CASE /\ s + 1 <= MaxUid /\ g = CreateIn(f, s, m) /\ t = SequenceAfter(f, s, m)
           /\ all = <<[kind |-> "exists", n |-> PositionIn(g, m), sound |-> g # f]>>
  <2> DEFINE up == [kind |-> "exists", n |-> PositionIn(g, m), sound |-> g # f]
  <2>1. BucketOK(g, t) /\ up \in Announcement /\ Leads(ListOf(f), ListOf(g), up)
    BY <1>6, LeadsCreated
  <2> QED
    BY <1>4, <1>6, <2>1
<1> QED
  BY <1>1, <1>3, <1>5, <1>6

\* What handling a message comes to, whichever handler it is.
Handled(m) ==
  /\ boxes' = boxes
  /\ IsPartialFn(record', Msgs, SUBSET Labels)
  /\ DOMAIN content' = Labels
  /\ DOMAIN sequence' = Labels /\ sequence' = [l \in Labels |-> sequence'[l]]
  /\ \A l \in Labels :
       Applied(l, m, content[l], sequence[l], content'[l], sequence'[l], Updates(reply')[l])

\* The updates for a mailbox, by what the database replied of it.
LEMMA UpdatesAre ==
  ASSUME NEW answer, NEW l \in Labels, DOMAIN answer.created \cap DOMAIN answer.deleted = {}
  PROVE  Updates(answer)[l] =
           IF l \in mapped \cap Opened
             THEN IF l \in DOMAIN answer.created
                    THEN <<[kind |-> "exists", n |-> answer.created[l],
                            sound |-> content'[l] # content[l]]>>
                  ELSE IF l \in DOMAIN answer.deleted
                    THEN <<[kind |-> "expunge", n |-> answer.deleted[l],
                            sound |-> content'[l] # content[l]]>>
                  ELSE << >>
             ELSE << >>
BY DEF Updates

\* CreateMessage: the message joins the buckets of its labels.
LEMMA CreateHandled ==
  ASSUME ViewInv, NEW m \in Msgs, NEW labels \in SUBSET Labels, CreateMessage(m, labels)
  PROVE  Handled(m)
<1>1. /\ \A l \in labels : sequence[l] + 1 <= MaxUid
      /\ record' = Put(record, m, labels) /\ boxes' = boxes \cup labels
      /\ content' = [l \in Labels |->
           IF l \in labels THEN CreateIn(content[l], sequence[l], m) ELSE content[l]]
      /\ sequence' = [l \in Labels |->
           IF l \in labels THEN SequenceAfter(content[l], sequence[l], m) ELSE sequence[l]]
      /\ reply' = [created |-> [l \in labels |-> PositionIn(content'[l], m)], deleted |-> Empty]
  BY DEF CreateMessage, Room
<1>2. boxes' = boxes
  BY <1>1 DEF ViewInv, Stored
<1>3. IsPartialFn(record', Msgs, SUBSET Labels)
  BY <1>1 DEF ViewInv, Stored, IsPartialFn, Put
<1>4. /\ DOMAIN content' = Labels /\ DOMAIN sequence' = Labels
      /\ sequence' = [l \in Labels |-> sequence'[l]]
  BY <1>1
<1>5. /\ DOMAIN reply'.created = labels /\ DOMAIN reply'.deleted = {}
      /\ \A l \in labels : reply'.created[l] = PositionIn(content'[l], m)
  BY <1>1 DEF Empty
<1>6. ASSUME NEW l \in Labels
      PROVE  Applied(l, m, content[l], sequence[l], content'[l], sequence'[l], Updates(reply')[l])
  <2>1. CASE l \in labels
    <3>1. /\ content'[l] = CreateIn(content[l], sequence[l], m)
          /\ sequence'[l] = SequenceAfter(content[l], sequence[l], m)
          /\ sequence[l] + 1 <= MaxUid
      BY <1>1, <2>1
    <3>2. Updates(reply')[l] = IF l \in mapped \cap Opened
            THEN <<[kind |-> "exists", n |-> PositionIn(content'[l], m),
                    sound |-> content'[l] # content[l]]>>
            ELSE << >>
      BY <1>5, <2>1, UpdatesAre
    <3> QED
      BY <3>1, <3>2 DEF Applied
  <2>2. CASE l \notin labels
    <3>1. content'[l] = content[l] /\ sequence'[l] = sequence[l]
      BY <1>1, <2>2
    <3>2. Updates(reply')[l] = << >>
      BY <1>5, <2>2, UpdatesAre
    <3> QED
      BY <3>1, <3>2 DEF Applied
  <2> QED
    BY <2>1, <2>2
<1> QED
  BY <1>2, <1>3, <1>4, <1>6 DEF Handled

\* What an update adds and removes, in each of its forms, are different labels.
LEMMA FormsAgree ==
  ASSUME NEW item \in Items, NEW upd \in LabelUpdates(item), NEW had \in SUBSET Labels
  PROVE  /\ AddedLabels(upd, had) \in SUBSET Labels /\ RemovedLabels(upd, had) \in SUBSET Labels
         /\ AddedLabels(upd, had) \cap RemovedLabels(upd, had) = {}
         /\ Patched(upd, had) \in SUBSET Labels
<1>1. /\ item.added \in SUBSET Labels /\ item.removed \in SUBSET Labels
      /\ item.labels \in SUBSET Labels /\ item.added \cap item.removed = {}
      /\ item.added # Nil /\ item.removed # Nil /\ item.labels # Nil
  BY ImapViewAssumption DEF Items
<1>2. CASE upd.added = item.added /\ upd.removed = item.removed /\ upd.labels \in {Nil, item.labels}
  BY <1>1, <1>2 DEF HasDelta, AddedLabels, RemovedLabels, Patched
<1>3. CASE upd = [labels |-> item.labels, added |-> Nil, removed |-> Nil]
  BY <1>1, <1>3 DEF HasDelta, AddedLabels, RemovedLabels, Patched
<1> QED
  BY <1>2, <1>3 DEF LabelUpdates

\* UpdateMessage: it joins those of the labels added and leaves those removed.
LEMMA UpdateHandled ==
  ASSUME ViewInv, NEW item \in Items, NEW upd \in LabelUpdates(item),
         UpdateMessage(item.msg, upd)
  PROVE  Handled(item.msg)
<1> DEFINE m == item.msg
           added == AddedLabels(upd, record[m])
           removed == RemovedLabels(upd, record[m])
           patched == Patched(upd, record[m])
           grown == [l \in Labels |->
             IF l \in added THEN CreateIn(content[l], sequence[l], m) ELSE content[l]]
<1>1. m \in Msgs /\ m \in DOMAIN record /\ record[m] \in SUBSET Labels
  BY DEF Items, UpdateMessage, ViewInv, Stored, IsPartialFn
<1>2. /\ added \in SUBSET Labels /\ removed \in SUBSET Labels /\ added \cap removed = {}
      /\ patched \in SUBSET Labels
  BY <1>1, FormsAgree
<1>3. /\ \A l \in added : sequence[l] + 1 <= MaxUid
      /\ record' = Put(record, m, patched)
      /\ boxes' = boxes \cup added
      /\ content' = [l \in Labels |->
           IF l \in removed THEN DeleteFrom(grown[l], m) ELSE grown[l]]
      /\ sequence' = [l \in Labels |->
           IF l \in added THEN SequenceAfter(content[l], sequence[l], m) ELSE sequence[l]]
      /\ reply' = [created |-> [l \in added |-> PositionIn(grown[l], m)],
                   deleted |-> [l \in removed \cap boxes' |-> PositionIn(grown[l], m)]]
  BY DEF UpdateMessage, Room
<1>4. \A l \in Labels : grown[l] =
        IF l \in added THEN CreateIn(content[l], sequence[l], m) ELSE content[l]
  OBVIOUS
<1> HIDE DEF m, added, removed, patched, grown
<1>5. boxes' = boxes /\ removed \cap boxes' = removed
  BY <1>2, <1>3 DEF ViewInv, Stored
<1>6. IsPartialFn(record', Msgs, SUBSET Labels)
  BY <1>1, <1>2, <1>3 DEF ViewInv, Stored, IsPartialFn, Put
<1>7. /\ DOMAIN content' = Labels /\ DOMAIN sequence' = Labels
      /\ sequence' = [l \in Labels |-> sequence'[l]]
  BY <1>3
<1>8. /\ DOMAIN reply'.created = added /\ DOMAIN reply'.deleted = removed
      /\ \A l \in added : reply'.created[l] = PositionIn(grown[l], m)
      /\ \A l \in removed : reply'.deleted[l] = PositionIn(grown[l], m)
  BY <1>3, <1>5
<1>9. ASSUME NEW l \in Labels
      PROVE  Applied(l, m, content[l], sequence[l], content'[l], sequence'[l], Updates(reply')[l])
  <2>1. CASE l \in added
    <3>1. l \notin removed
      BY <1>2, <2>1
    <3>2. /\ content'[l] = CreateIn(content[l], sequence[l], m) /\ content'[l] = grown[l]
          /\ sequence'[l] = SequenceAfter(content[l], sequence[l], m)
          /\ sequence[l] + 1 <= MaxUid
      BY <1>3, <1>4, <2>1, <3>1
    <3>3. Updates(reply')[l] = IF l \in mapped \cap Opened
            THEN <<[kind |-> "exists", n |-> PositionIn(content'[l], m),
                    sound |-> content'[l] # content[l]]>>
            ELSE << >>
      BY <1>2, <1>8, <2>1, <3>2, UpdatesAre
    <3> QED
      BY <3>2, <3>3 DEF Applied
  <2>2. CASE l \in removed
    <3>1. l \notin added
      BY <1>2, <2>2
    <3>2. /\ content'[l] = DeleteFrom(content[l], m) /\ grown[l] = content[l]
          /\ sequence'[l] = sequence[l]
      BY <1>3, <1>4, <2>2, <3>1
    <3>3. Updates(reply')[l] = IF l \in mapped \cap Opened
            THEN <<[kind |-> "expunge", n |-> PositionIn(content[l], m),
                    sound |-> content'[l] # content[l]]>>
            ELSE << >>
      BY <1>2, <1>8, <2>2, <3>1, <3>2, UpdatesAre
    <3> QED
      BY <3>2, <3>3 DEF Applied
  <2>3. CASE l \notin added /\ l \notin removed
    <3>1. content'[l] = content[l] /\ sequence'[l] = sequence[l]
      BY <1>3, <1>4, <2>3
    <3>2. Updates(reply')[l] = << >>
      BY <1>2, <1>8, <2>3, UpdatesAre
    <3> QED
      BY <3>1, <3>2 DEF Applied
  <2> QED
    BY <2>1, <2>2, <2>3
<1>10. Handled(m)
  BY <1>5, <1>6, <1>7, <1>9 DEF Handled
<1> QED
  BY <1>10 DEF m

\* DeleteMessage: it leaves the buckets its record names.
LEMMA DeleteHandled ==
  ASSUME ViewInv, NEW m \in Msgs, DeleteMessage(m)
  PROVE  Handled(m)
<1> DEFINE had == record[m]
<1>1. /\ m \in DOMAIN record /\ had \in SUBSET Labels /\ boxes = Labels
  BY DEF DeleteMessage, ViewInv, Stored, IsPartialFn
<1>2. /\ record' = [n \in DOMAIN record \ {m} |-> record[n]]
      /\ content' = [l \in Labels |->
           IF l \in had THEN DeleteFrom(content[l], m) ELSE content[l]]
      /\ reply' = [created |-> Empty,
                   deleted |-> [l \in had \cap boxes |-> PositionIn(content[l], m)]]
      /\ boxes' = boxes /\ sequence' = sequence
  BY DEF DeleteMessage
<1>3. IsPartialFn(record', Msgs, SUBSET Labels)
  BY <1>2 DEF ViewInv, Stored, IsPartialFn
<1>4. /\ DOMAIN content' = Labels /\ DOMAIN sequence' = Labels
      /\ sequence' = [l \in Labels |-> sequence'[l]]
  BY <1>2 DEF ViewInv, Stored, Buckets
<1>5. had \cap boxes = had
  BY <1>1
<1> HIDE DEF had
<1>6. /\ DOMAIN reply'.created = {} /\ DOMAIN reply'.deleted = had
      /\ \A l \in had : reply'.deleted[l] = PositionIn(content[l], m)
  BY <1>2, <1>5 DEF Empty
<1>7. ASSUME NEW l \in Labels
      PROVE  Applied(l, m, content[l], sequence[l], content'[l], sequence'[l], Updates(reply')[l])
  <2>1. CASE l \in had
    <3>1. content'[l] = DeleteFrom(content[l], m) /\ sequence'[l] = sequence[l]
      BY <1>2, <2>1
    <3>2. Updates(reply')[l] = IF l \in mapped \cap Opened
            THEN <<[kind |-> "expunge", n |-> PositionIn(content[l], m),
                    sound |-> content'[l] # content[l]]>>
            ELSE << >>
      BY <1>6, <2>1, UpdatesAre
    <3> QED
      BY <3>1, <3>2 DEF Applied
  <2>2. CASE l \notin had
    <3>1. content'[l] = content[l] /\ sequence'[l] = sequence[l]
      BY <1>2, <2>2
    <3>2. Updates(reply')[l] = << >>
      BY <1>6, <2>2, UpdatesAre
    <3> QED
      BY <3>1, <3>2 DEF Applied
  <2> QED
    BY <2>1, <2>2
<1> QED
  BY <1>2, <1>3, <1>4, <1>7 DEF Handled

\* What the handlers do keeps the invariant.
LEMMA HandledStep ==
  ASSUME ViewInv, NEW item \in Items, backlog' \in Seq(Items), Handled(item.msg),
         staged' = [counts |-> item.counts,
                    updates |-> [l \in Labels |-> staged.updates[l] \o Updates(reply')[l]]],
         UNCHANGED <<server, gone, changes, boxVars, refresh, channel, view, cmd, meant>>
  PROVE  ViewInv'
<1> USE DEF boxVars
<1>1. item.msg \in Msgs /\ item.counts \in [Labels -> Nat]
  BY DEF Items
<1>2. \A l \in Labels : BucketOK(content[l], sequence[l])
  BY DEF ViewInv, Stored, Buckets
<1> DEFINE ups(l) == Updates(reply')[l]
<1>3. ASSUME NEW l \in Labels
      PROVE  /\ BucketOK(content'[l], sequence'[l]) /\ ups(l) \in Seq(Announcement)
             /\ l \in mapped \cap Opened => \A a : \A q \in Seq(Announcement) :
                  Led(a, q, ListOf(content[l])) => Led(a, q \o ups(l), ListOf(content'[l]))
  <2>1. Applied(l, item.msg, content[l], sequence[l], content'[l], sequence'[l], ups(l))
    BY DEF Handled
  <2> HIDE DEF ups
  <2> QED
    BY <1>1, <1>2, <2>1, AppliedLeads
<1>4. \A l \in Labels : staged'.updates[l] = staged.updates[l] \o ups(l)
  OBVIOUS
<1> HIDE DEF ups
<1>5. AccountOK(backlog', server') /\ Refreshed'
  BY DEF ViewInv, AccountOK, Refreshed
<1>6. Stored'
  BY <1>3 DEF Handled, ViewInv, Stored, Buckets
<1>7. ASSUME NEW l \in Labels
      PROVE  /\ staged'.updates[l] \in Seq(Announcement)
             /\ Updating(l) \in Seq(Announcement) /\ Updating(l)' = Updating(l) \o ups(l)
  <2>1. /\ channel[l] \in Seq(Announcement) /\ staged.updates[l] \in Seq(Announcement)
        /\ ups(l) \in Seq(Announcement) /\ Updating(l) \in Seq(Announcement)
    BY <1>3, WireType
  <2>2. staged.updates[l] \o ups(l) \in Seq(Announcement)
    BY <2>1, ConcatProperties
  <2>3. (channel[l] \o staged.updates[l]) \o ups(l) = channel[l] \o (staged.updates[l] \o ups(l))
    <3> DEFINE q == channel[l]
               r == staged.updates[l]
               u == ups(l)
    <3>1. q \in Seq(Announcement) /\ r \in Seq(Announcement) /\ u \in Seq(Announcement)
      BY <2>1
    <3> HIDE DEF q, r, u
    <3>2. (q \o r) \o u = q \o (r \o u)
      BY <3>1, ConcatAssociative
    <3> QED
      BY <3>2 DEF q, r, u
  <2>4. channel'[l] = channel[l]
    OBVIOUS
  <2> QED
    BY <1>4, <2>1, <2>2, <2>3, <2>4 DEF Updating
<1>8. Wired'
  <2>1. staged' \in [counts : [Labels -> Nat], updates : [Labels -> Seq(Announcement)]]
    <3>1. staged'.updates \in [Labels -> Seq(Announcement)]
      BY <1>7
    <3> QED
      BY <1>1, <3>1
  <2> QED
    BY <2>1 DEF ViewInv, Wired
<1>9. Viewed'
  BY DEF ViewInv, Viewed, InStep
<1>10. ASSUME NEW s \in Sessions PROVE Follows(s)'
  <2> SUFFICES ASSUME NEW l, l = LabelOf(s), view[s].box \in ready, view[s].follows
               PROVE  Led(view[s].list, Updating(l)', ListOf(content'[l]))
    BY DEF Follows, LabelOf
  <2>1. l \in Labels /\ l \in mapped \cap Opened
    BY Selected DEF ViewInv, Viewed, InStep, LabelOf
  <2>2. Led(view[s].list, Updating(l), ListOf(content[l]))
    BY DEF ViewInv, Follows
  <2> QED
    BY <1>3, <1>7, <2>1, <2>2
<1>11. Flagged' /\ Moved'
  BY DEF ViewInv, Flagged, Moved
<1> QED
  BY <1>5, <1>6, <1>8, <1>9, <1>10, <1>11 DEF ViewInv

\* A message without a record: the counts are taken, the updates stay.
LEMMA UnrecordedStep ==
  ASSUME ViewInv, NEW item \in Items, backlog' \in Seq(Items),
         staged' = [staged EXCEPT !.counts = item.counts], UNCHANGED storeVars,
         UNCHANGED <<server, gone, changes, boxVars, refresh, channel, view, cmd, meant>>
  PROVE  ViewInv'
<1> USE DEF storeVars, boxVars
<1>1. item.counts \in [Labels -> Nat]
  BY DEF Items
<1>2. << >> \in Seq(Announcement)
  BY EmptySeq
<1>3. /\ staged' \in [counts : [Labels -> Nat], updates : [Labels -> Seq(Announcement)]]
      /\ staged'.updates = staged.updates
  <2>1. CASE staged = NothingStaged
    BY <1>1, <1>2, <2>1 DEF NothingStaged
  <2>2. CASE staged # NothingStaged
    BY <1>1, <2>2 DEF ViewInv, Wired
  <2> QED
    BY <2>1, <2>2
<1>4. AccountOK(backlog', server') /\ Stored' /\ Wired' /\ Refreshed'
  BY <1>3 DEF ViewInv, AccountOK, Stored, Buckets, Wired, Refreshed
<1>5. Viewed' /\ \A s \in Sessions : Follows(s)'
  BY <1>3 DEF ViewInv, Viewed, InStep, Follows, Updating, LabelOf
<1>6. Flagged' /\ Moved'
  BY DEF ViewInv, Flagged, Moved
<1> QED
  BY <1>4, <1>5, <1>6 DEF ViewInv

\* user.receiveEvents, for whatever the event brings.
LEMMA TakeEventStep ==
  ASSUME ViewInv, TakeEvent
  PROVE  ViewInv'
<1> DEFINE item == Head(backlog)
           m == item.msg
<1>1. /\ backlog # << >> /\ backlog' = Tail(backlog) /\ backlog \in Seq(Items)
      /\ UNCHANGED <<server, gone, changes, boxVars, refresh, channel, view, cmd, meant>>
  BY DEF TakeEvent, ViewInv, AccountOK
<1>2. item \in Items /\ backlog' \in Seq(Items)
  BY <1>1, HeadOfBacklog
<1>3. m \in Msgs /\ item.labels \in SUBSET Labels
  BY <1>2 DEF Items
<1>4. CASE /\ \/ item.kind = "create" /\ CreateMessage(m, item.labels)
              \/ item.kind = "update" /\ \E upd \in LabelUpdates(item) : UpdateMessage(m, upd)
              \/ item.kind = "delete" /\ DeleteMessage(m)
           /\ staged' = [counts |-> item.counts,
                updates |-> [l \in Labels |-> staged.updates[l] \o Updates(reply')[l]]]
  <2>1. Handled(m)
    BY <1>2, <1>3, <1>4, CreateHandled, UpdateHandled, DeleteHandled
  <2> QED
    BY <1>1, <1>2, <1>4, <2>1, HandledStep
<1>5. CASE staged' = [staged EXCEPT !.counts = item.counts] /\ UNCHANGED storeVars
  BY <1>1, <1>2, <1>5, UnrecordedStep
<1> QED
  BY <1>4, <1>5 DEF TakeEvent

-----------------------------------------------------------------------------
(* The theorems.                                                           *)

\* After a login there is nothing to be out of step with.
LEMMA InitStep == ViewInit => ViewInv
<1> SUFFICES ASSUME ViewInit PROVE ViewInv
  OBVIOUS
<1> USE DEF ViewInit
<1>1. /\ backlog = << >> /\ ready = {} /\ boxes = Labels /\ record = Empty
      /\ content = [l \in Labels |-> Empty] /\ sequence = [l \in Labels |-> 0]
      /\ channel = [l \in Labels |-> << >>] /\ staged = NothingStaged
      /\ deleted = [b \in Boxes |-> {}]
      /\ current = 0 /\ mapped = Labels /\ refresh = NoRefresh
  OBVIOUS
<1>2. IsPartialFn(server, Msgs, SUBSET Labels)
  <2>1. PICK S \in AtLogin : server \in [S -> {{l} : l \in Opened}]
    OBVIOUS
  <2>2. \A l \in Opened : {l} \in SUBSET Labels
    BY ImapViewAssumption
  <2> QED
    BY <2>1, <2>2, ImapViewAssumption DEF IsPartialFn
<1>3. AccountOK(backlog, server)
  BY <1>1, <1>2, EmptySeq DEF AccountOK
<1>4. Stored
  <2>1. BucketOK(Empty, 0)
    BY EmptyIsPartialFn, BoundsAssumption DEF BucketOK, Empty
  <2> QED
    BY <1>1, <2>1, EmptyIsPartialFn DEF Stored, Buckets
<1>5. Wired
  <2>1. ASSUME NEW l \in Labels
        PROVE  Cardinality({m \in DOMAIN server : l \in server[m]}) \in Nat
    <3>1. {m \in DOMAIN server : l \in server[m]} \in SUBSET Msgs
      BY <1>2 DEF IsPartialFn
    <3> QED
      BY <3>1, ImapViewAssumption, FS_Subset, FS_CardinalityType
  <2>2. total \in [Opened -> Nat]
    BY <2>1, ImapViewAssumption
  <2> QED
    BY <1>1, <2>2, EmptySeq DEF Wired
<1>6. Refreshed
  BY <1>1, ImapViewAssumption DEF Refreshed, NoRefresh
<1>7. view = [s \in Sessions |-> NoView] /\ cmd = [s \in Sessions |-> Idle]
  OBVIOUS
<1>8. Viewed
  <2>1. NoView \in Views /\ NoView.box = <<Nil, 0>> /\ Len(NoView.list) = 0
    BY EmptySeq DEF NoView, Views, Lists
  <2>2. Idle \in Commands /\ Idle.do = "idle"
    BY DEF Idle, Commands
  <2>3. <<Nil, 0>> \notin Boxes
    BY ImapViewAssumption DEF Boxes
  <2> QED
    BY <1>7, <2>1, <2>2, <2>3 DEF Viewed, InStep
<1>9. \A s \in Sessions : Follows(s)
  BY <1>1 DEF Follows
<1>10. Flagged /\ Moved
  BY <1>1, <1>7 DEF Flagged, Moved, Idle
<1> QED
  BY <1>3, <1>4, <1>5, <1>6, <1>8, <1>9, <1>10 DEF ViewInv

\* A step that changes nothing.
LEMMA UnchangedStep ==
  ASSUME ViewInv, UNCHANGED viewVars
  PROVE  ViewInv'
<1> USE DEF viewVars, storeVars, accountVars, boxVars, wireVars
<1>1. AccountOK(backlog', server') /\ Stored'
  BY DEF ViewInv, Stored, Buckets
<1>2. Wired' /\ Refreshed'
  BY DEF ViewInv, Wired, Refreshed
<1>3. Viewed' /\ \A s \in Sessions : Follows(s)'
  BY DEF ViewInv, Viewed, InStep, Follows, Updating, LabelOf
<1>4. Flagged' /\ Moved'
  BY DEF ViewInv, Flagged, Moved
<1> QED
  BY <1>1, <1>2, <1>3, <1>4 DEF ViewInv

\* A step of one session.
LEMMA CommandStep ==
  ASSUME ViewInv, NEW s \in Sessions, Command(s)
  PROVE  ViewInv'
<1>1. ASSUME NEW l \in Opened, Select(s, l) PROVE ViewInv'
  BY <1>1, SelectStep
<1>2. ASSUME NEW m, m # Unknown, Store(s, m) PROVE ViewInv'
  BY <1>2, StoreStep
<1>3. ASSUME NEW m, m # Unknown, CopyOrMove(s, m) PROVE ViewInv'
  BY <1>3, CommandsBegin
<1>4. CASE Fetch(s) \/ Expunge(s)
  BY <1>4, CommandsBegin
<1>5. CASE Answer(s)
  BY <1>5, AnswerStep
<1>6. CASE Label(s)
  BY <1>6, LabelStep
<1>7. CASE Unlabel(s)
  BY <1>7, UnlabelStep
<1>8. CASE Destroy(s)
  BY <1>8, DestroyStep
<1> QED
  BY <1>1, <1>2, <1>3, <1>4, <1>5, <1>6, <1>7, <1>8 DEF Command

\* Every step keeps the invariant.
LEMMA ViewStep == ViewInv /\ [ViewNext]_viewVars => ViewInv'
<1> SUFFICES ASSUME ViewInv, [ViewNext]_viewVars PROVE ViewInv'
  OBVIOUS
<1>1. CASE OtherClient
  BY <1>1, OtherClientStep
<1>2. CASE TakeEvent
  BY <1>2, TakeEventStep
<1>3. CASE Publish
  BY <1>3, PublishStep
<1>4. ASSUME NEW l \in Labels, Deliver(l) \/ ResetBox(l) PROVE ViewInv'
  BY <1>4, DeliverStep, ResetBoxStep
<1>7. ASSUME NEW b \in Boxes, List(b) \/ StoreElsewhere(b) PROVE ViewInv'
  BY <1>7, ListStep, StoreElsewhereStep
<1>8. CASE LoseEvents \/ StartRefresh \/ ResetRecords \/ RenewBoxes
  BY <1>8, LoseEventsStep, StartRefreshStep, ResetRecordsStep, RenewBoxesStep
<1>5. ASSUME NEW s \in Sessions, Command(s) PROVE ViewInv'
  BY <1>5, CommandStep
<1>6. CASE UNCHANGED viewVars
  BY <1>6, UnchangedStep
<1> QED
  BY <1>1, <1>2, <1>3, <1>4, <1>5, <1>6, <1>7, <1>8 DEF ViewNext

\* The bridge, the account and the clients stay in step in every reachable
\* state: the updates on their way lead each client that follows from what it
\* knows to the mailbox as it is.
THEOREM ViewInvariant == ViewSpec => []ViewInv
BY InitStep, ViewStep, PTL DEF ViewSpec

\* A client that takes EXISTS and EXPUNGE as they come knows the mailbox when
\* none is on its way: how many messages, and behind each number what the
\* bridge finds there.
THEOREM ClientsFollow == ViewSpec => []ViewFollows
<1>1. ViewInv => ViewFollows
  <2> SUFFICES ASSUME ViewInv, NEW s \in Sessions, NEW l, l = LabelOf(s),
                      view[s].box \in ready, view[s].follows, Quiet(l)
               PROVE  /\ Len(view[s].list) = Size(l)
                      /\ \A i \in DOMAIN view[s].list :
                           view[s].list[i] \in {Unknown, EntryAt(l, i)}
    BY DEF ViewFollows
  <2>1. l \in Labels /\ view[s].list \in Lists
    BY Selected DEF Views
  <2>2. Shows(view[s].list, ListOf(content[l]))
    BY QuietFollower
  <2>3. /\ Size(l) = Len(ListOf(content[l]))
        /\ \A i \in 1 .. Size(l) : EntryAt(l, i) = ListOf(content[l])[i]
    BY <2>1, EntryIs
  <2>4. DOMAIN view[s].list = 1 .. Len(view[s].list)
    BY <2>1, LenProperties DEF Lists
  <2> QED
    BY <2>2, <2>3, <2>4 DEF Shows
<1> QED
  BY <1>1, ViewInvariant, PTL

\* A command that is under way goes on as it is, or takes its own step.
LEMMA OwnStep ==
  ASSUME ViewInv, ViewNext, NEW s \in Sessions, cmd[s] # Idle
  PROVE  cmd'[s].do = cmd[s].do \/ Answer(s) \/ Label(s) \/ Unlabel(s) \/ Destroy(s)
<1>1. cmd \in [Sessions -> Commands]
  BY DEF ViewInv, Viewed
<1>2. CASE OtherClient
  BY <1>1, <1>2, TakenAwayType DEF OtherClient
<1>3. CASE TakeEvent \/ LoseEvents \/ Publish \/ StartRefresh \/ ResetRecords \/ RenewBoxes
  BY <1>3 DEF TakeEvent, LoseEvents, Publish, StartRefresh, ResetRecords, RenewBoxes
<1>4. ASSUME NEW l \in Labels, Deliver(l) \/ ResetBox(l)
      PROVE  cmd'[s] = cmd[s]
  BY <1>4 DEF Deliver, ResetBox
<1>7. ASSUME NEW b \in Boxes, List(b) \/ StoreElsewhere(b)
      PROVE  cmd'[s] = cmd[s]
  BY <1>7 DEF List, StoreElsewhere, Flag, Unflag
<1>5. ASSUME NEW t \in Sessions, Command(t), t # s
      PROVE  cmd'[s].do = cmd[s].do
  <2>1. CASE Unlabel(t)
    BY <1>1, <1>5, <2>1, TakenAwayType DEF Unlabel
  <2>2. CASE \E l \in Opened : Select(t, l)
    BY <2>2 DEF Select
  <2>3. CASE Fetch(t) \/ Expunge(t)
    BY <1>1, <1>5, <2>3 DEF Fetch, Expunge, Begin
  <2>4. ASSUME NEW m, Store(t, m) PROVE cmd'[s] = cmd[s]
    BY <2>4 DEF Store, Flag, Unflag
  <2>5. ASSUME NEW m, CopyOrMove(t, m) PROVE cmd'[s] = cmd[s]
    BY <1>1, <1>5, <2>5 DEF CopyOrMove, Begin
  <2>6. CASE Answer(t) \/ Label(t) \/ Destroy(t)
    BY <1>1, <1>5, <2>6 DEF Answer, Label, Destroy
  <2> QED
    BY <1>5, <2>1, <2>2, <2>3, <2>4, <2>5, <2>6 DEF Command
<1>6. CASE Command(s)
  <2>1. ~Fetch(s) /\ ~Expunge(s) /\ \A m : ~Store(s, m) /\ ~CopyOrMove(s, m)
    BY DEF Fetch, Expunge, Store, CopyOrMove, Can
  <2>2. \A l : ~Select(s, l)
    BY DEF Select
  <2> QED
    BY <1>6, <2>1, <2>2 DEF Command
<1> QED
  BY <1>2, <1>3, <1>4, <1>5, <1>6, <1>7 DEF ViewNext

\* EXPUNGE destroys nothing but what a client meant to be destroyed in the
\* mailbox, or may have flagged when it was out of step.
THEOREM DestroyedWasMeant == ViewSpec => DestroyedAsMeant
<1>1. ViewInv /\ [ViewNext]_viewVars =>
        [\A s \in Sessions : cmd[s].do = "destroying" /\ cmd'[s] = Idle =>
           \A m \in DOMAIN server \ DOMAIN server' : <<view[s].box, m>> \in meant]_viewVars
  <2> SUFFICES ASSUME ViewInv, ViewNext, NEW s \in Sessions,
                      cmd[s].do = "destroying", cmd'[s] = Idle,
                      NEW m \in DOMAIN server \ DOMAIN server'
               PROVE  <<view[s].box, m>> \in meant
    OBVIOUS
  <2>1. Idle.do = "idle" /\ cmd[s] # Idle /\ cmd'[s].do # cmd[s].do
    BY DEF Idle
  <2>2. Destroy(s)
    BY <2>1, OwnStep DEF Answer, Label, Unlabel
  <2>3. PICK S \in SUBSET (cmd[s].ids \cap DOMAIN server) : Becomes(Without(server, S))
    BY <2>2 DEF Destroy
  <2>4. server' = Without(server, S)
    BY <2>3 DEF Becomes
  <2>5. m \in cmd[s].ids
    BY <2>4 DEF Without
  <2> QED
    BY <2>5 DEF ViewInv, Flagged
<1> QED
  BY <1>1, ViewInvariant, PTL DEF ViewSpec, DestroyedAsMeant

\* A MOVE takes a message from its mailbox only when the message is in the
\* other one, unless the server refused that message alone, somebody took it
\* from the other meanwhile, or both are the same mailbox.
THEOREM MovesNeverLose == ViewSpec => MoveNeverLoses
<1>1. ViewInv /\ [ViewNext]_viewVars =>
        [\A s \in Sessions :
           LET l == LabelOf(s)
               c == cmd[s]
           IN c.do = "unlabelling" /\ cmd'[s] = Idle =>
                \A m \in (c.ids \cap DOMAIN server') \ c.refused :
                  l \in server[m] \ server'[m] => c.dest \in server'[m] \/ c.dest = l]_viewVars
  <2> SUFFICES ASSUME ViewInv, ViewNext, NEW s \in Sessions,
                      cmd[s].do = "unlabelling", cmd'[s] = Idle,
                      NEW m \in (cmd[s].ids \cap DOMAIN server') \ cmd[s].refused,
                      LabelOf(s) \in server[m] \ server'[m]
               PROVE  cmd[s].dest \in server'[m] \/ cmd[s].dest = LabelOf(s)
    OBVIOUS
  <2>1. Idle.do = "idle" /\ cmd[s] # Idle /\ cmd'[s].do # cmd[s].do
    BY DEF Idle
  <2>2. Unlabel(s)
    BY <2>1, OwnStep DEF Answer, Label, Destroy
  <2>3. PICK S \in SUBSET (cmd[s].ids \cap DOMAIN server) :
          Becomes([x \in DOMAIN server |->
            IF x \in S THEN server[x] \ {LabelOf(s)} ELSE server[x]])
    BY <2>2 DEF Unlabel
  <2>4. server' = [x \in DOMAIN server |->
                     IF x \in S THEN server[x] \ {LabelOf(s)} ELSE server[x]]
    BY <2>3 DEF Becomes
  <2>5. m \in DOMAIN server
    BY <2>4
  <2>6. cmd[s].dest \in server[m]
    BY <2>5 DEF ViewInv, Moved
  <2> QED
    BY <2>4, <2>5, <2>6
<1> QED
  BY <1>1, ViewInvariant, PTL DEF ViewSpec, MoveNeverLoses
=============================================================================
