--------------------------- MODULE MailSyncProofs ---------------------------
(***************************************************************************)
(* Proofs about MailSync, for all sets of labels and messages, all page    *)
(* sizes and all bounds.  The steps are shown to be calls of the store     *)
(* first.  Then a mailbox is compared with the account: they may differ    *)
(* over a message while a change is still coming that moves it, or while   *)
(* the listing that fills the mailbox has not come to it (Agreement).      *)
(***************************************************************************)
EXTENDS MailSync, MailStoreProofs, SequenceTheorems

-----------------------------------------------------------------------------
(* The account read off its log.                                            *)

Change ==
  [kind : {"create", "update", "delete"}, msg : Msgs, old : SUBSET Labels, new : SUBSET Labels]

\* The last of the first i changes that is about m.
LastAbout(m, j, i) == log[j].msg = m /\ \A k \in j + 1 .. i : log[k].msg # m

\* The messages under l after the first i changes.
ListedAt(l, i) == {m \in Msgs : \E j \in 1 .. i : LastAbout(m, j, i) /\ l \in log[j].new}

\* Change j brings m into l or takes it out.
Moves(l, m, j) == log[j].msg = m /\ ~(l \in log[j].old <=> l \in log[j].new)

Quiet(l, m, i) == \A j \in i + 1 .. Len(log) : ~Moves(l, m, j)

AccountLogged ==
  /\ log \in Seq(Change) /\ Len(log) <= MaxLog
  /\ IsPartialFn(server, Msgs, SUBSET Labels)
  /\ \A i \in 1 .. Len(log) :
       /\ log[i].kind = "create" => log[i].old = {}
       /\ log[i].kind = "delete" => log[i].new = {}
  /\ \A l \in Labels, m \in Msgs, i \in 0 .. Len(log) :
       Quiet(l, m, i) => (m \in ListedAt(l, i) <=> m \in InLabel(l))

-----------------------------------------------------------------------------
(* Where the stream, a refresh and the listings stand.                      *)

StreamPlaced ==
  /\ cursor \in 0 .. Len(log) \cup Unset
  /\ cursor \notin Unset => cursor = handed
  /\ errors \in 0 .. MaxErrors - 1
  /\ handed \in 0 .. Len(log)
  /\ todo \in Seq(Change) /\ Len(todo) <= handed
  /\ \A k \in 1 .. Len(todo) : todo[k] = log[Applied + k]

\* The map never has more objects than there were renewals, the one of a refresh
\* under way included.
RefreshPlaced ==
  /\ refresh \in [stage : {"none", "boxes", "records", "map"}, left : SUBSET Labels]
  /\ refresh.stage # "boxes" => refresh.left = {}
  /\ objects \in 1 .. MaxRenewals
  /\ renewals \in 1 .. MaxRenewals
  /\ objects + (IF refresh.stage = "none" THEN 0 ELSE 1) <= renewals

Pages == UNION {[S -> SUBSET Labels] : S \in SUBSET Msgs}

Box == [state : {"absent", "closed", "asking", "storing", "ready"}, offset : Nat, total : Nat,
        page : Pages, at : Nat]

\* A page to be stored is what the account listed at its position in log.
Answered(l, b) ==
  /\ b.at <= Len(log)
  /\ b.total = Cardinality(ListedAt(l, b.at))
  /\ DOMAIN b.page = Slice(ListedAt(l, b.at), b.offset, PageSize)
  /\ \A m \in DOMAIN b.page : l \in b.page[m]

BoxesPlaced ==
  /\ mbox \in [Labels -> [1 .. MaxRenewals -> Box]]
  /\ filled \in [Labels -> [by : 0 .. MaxRenewals, since : Nat]]
  /\ \A l \in Labels : filled[l].since <= Len(log)
  /\ \A l \in Labels, g \in 1 .. MaxRenewals :
       /\ mbox[l][g].state = "storing" => Answered(l, mbox[l][g])
       /\ g > objects => mbox[l][g].state = "closed"

-----------------------------------------------------------------------------
(* Agreement of the mailboxes with the account and with the records.        *)

\* No change that has yet to be applied, or would be excused if it were skipped,
\* brings m into l or takes it out.
NoneComing(l, m) ==
  \A j \in Applied + 1 .. Len(log) : j <= handed \/ j > filled[l].since => ~Moves(l, m, j)

\* The listing of b has yet to bring in m, or asks for its next page, where those
\* it has missed are excused.
Unlisted(l, b, m) ==
  /\ b.state # "ready"
  /\ b.state = "storing" => m \in ListedAt(l, b.at) /\ Rank(ListedAt(l, b.at), m) > b.offset

Agrees(l, m) ==
  /\ filled[l].by \in InUse(l)
  /\ NoneComing(l, m) =>
       /\ Holds(content[l], m) => m \in InLabel(l)
       /\ m \in InLabel(l) => Holds(content[l], m) \/ Unlisted(l, mbox[l][filled[l].by], m)

\* A refresh has yet to reset the mailboxes in left.
Agreement ==
  \A l \in Labels \ refresh.left, m \in Msgs :
    InUse(l) # {} /\ ~Excused(l, m) => Agrees(l, m)

Recorded ==
  \A l \in Labels, m \in Msgs : Holds(content[l], m) /\ ~Excused(l, m) => m \in DOMAIN record

Places == IInv /\ AccountLogged /\ StreamPlaced /\ RefreshPlaced /\ BoxesPlaced

SyncInv == Places /\ Agreement /\ Recorded

-----------------------------------------------------------------------------
(* Slices of a finite set of numbers.                                       *)

\* A slice has no more elements than it was asked for.
LEMMA SliceSmall ==
  ASSUME NEW S \in SUBSET Nat, IsFiniteSet(S), NEW i \in Nat, NEW n \in Nat
  PROVE  /\ Slice(S, i, n) \subseteq S
         /\ IsFiniteSet(Slice(S, i, n))
         /\ Cardinality(Slice(S, i, n)) <= n
         /\ \A m \in S : m \in Slice(S, i, n) <=> Rank(S, m) > i /\ Rank(S, m) <= i + n
<1> DEFINE T == Slice(S, i, n)
           rank == [m \in T |-> Rank(S, m)]
<1>1. \A m \in S : Rank(S, m) \in Nat
  <2>1. Cardinality(S) \in Nat
    BY FS_CardinalityType
  <2> QED
    BY <2>1, RankGrows
<1>2. T \subseteq S /\ \A m \in S : m \in T <=> Rank(S, m) \in i + 1 .. i + n
  BY DEF Slice, Rank
<1>3. IsFiniteSet(T)
  BY <1>2, FS_Subset
<1>4. IsFiniteSet(i + 1 .. i + n) /\ Cardinality(i + 1 .. i + n) = n
  <2>1. i + 1 \in Int /\ i + n \in Int
    OBVIOUS
  <2> QED
    BY <2>1, FS_Interval
<1>5. \A u, v \in T : rank[u] = rank[v] => u = v
  <2>1. \A u, v \in S : u < v => Rank(S, u) < Rank(S, v)
    BY RankGrows
  <2>2. \A u, v \in S : u < v \/ v < u \/ u = v
    OBVIOUS
  <2> HIDE DEF T
  <2> QED
    BY <1>1, <1>2, <2>1, <2>2
<1>6. rank \in Injection(T, i + 1 .. i + n)
  <2> HIDE DEF T
  <2> QED
    BY <1>2, <1>5 DEF Injection, IsInjective
<1>7. Cardinality(T) <= n
  BY <1>4, <1>6, FS_Injection
<1> QED
  BY <1>1, <1>2, <1>3, <1>7

\* The order in which Sync enumerates the new messages of a page.
InOrder(S) == [i \in 1 .. Cardinality(S) |-> CHOOSE m \in S : Slice(S, i - 1, 1) = {m}]

\* It is an enumeration.
LEMMA InOrderIsOrder ==
  ASSUME NEW S \in SUBSET Nat, IsFiniteSet(S)
  PROVE  IsOrder(InOrder(S), Cardinality(S), S)
<1> DEFINE k == Cardinality(S)
<1>1. k \in Nat
  BY FS_CardinalityType
<1>2. \A u, v \in S : Rank(S, u) \in 1 .. k /\ (Rank(S, u) = Rank(S, v) => u = v)
  <2>1. \A u, v \in S : u < v => Rank(S, u) < Rank(S, v)
    BY RankGrows
  <2>2. \A u, v \in S : u < v \/ v < u \/ u = v
    OBVIOUS
  <2>3. \A u \in S : Rank(S, u) \in 1 .. k
    BY RankGrows
  <2> QED
    BY <1>1, <2>1, <2>2, <2>3
<1>3. ASSUME NEW i \in 1 .. k
      PROVE  InOrder(S)[i] \in S /\ Rank(S, InOrder(S)[i]) = i
  <2>1. PICK m \in S : Rank(S, m) = i
    BY RankOnto
  <2>2. Slice(S, i - 1, 1) = {x \in S : Rank(S, x) = i}
    <3>1. (i - 1) + 1 = i /\ i .. i = {i}
      BY <1>1
    <3> QED
      BY <3>1 DEF Slice, Rank
  <2>3. Slice(S, i - 1, 1) = {m}
    BY <1>2, <2>1, <2>2
  <2>4. InOrder(S)[i] = CHOOSE x \in S : Slice(S, i - 1, 1) = {x}
    BY DEF InOrder
  <2>5. InOrder(S)[i] \in S /\ Slice(S, i - 1, 1) = {InOrder(S)[i]}
    BY <2>3, <2>4
  <2> QED
    BY <2>1, <2>3, <2>5
<1>4. InOrder(S) \in [1 .. k -> S]
  BY <1>3 DEF InOrder
<1>5. \A m \in S : \E i \in 1 .. k : InOrder(S)[i] = m
  BY <1>2, <1>3
<1> QED
  BY <1>3, <1>4, <1>5 DEF IsOrder

-----------------------------------------------------------------------------
(* The log.                                                                 *)

\* A mailbox has been listed with finitely many messages at any time.
LEMMA ListedFinite ==
  ASSUME AccountLogged, NEW l, NEW i \in 0 .. Len(log)
  PROVE  /\ ListedAt(l, i) \in SUBSET Msgs /\ ListedAt(l, i) \in SUBSET Nat
         /\ IsFiniteSet(ListedAt(l, i))
<1> DEFINE T == {log[j].msg : j \in 1 .. i}
           f == [j \in 1 .. i |-> log[j].msg]
<1>1. IsFiniteSet(1 .. i)
  <2>1. i \in Int /\ 1 \in Int
    BY LenProperties DEF AccountLogged
  <2> QED
    BY <2>1, FS_Interval
<1>2. f \in Surjection(1 .. i, T)
  BY DEF Surjection
<1>3. IsFiniteSet(T)
  BY <1>1, <1>2, FS_Surjection
<1>4. ListedAt(l, i) \in SUBSET T /\ ListedAt(l, i) \in SUBSET Msgs
  BY DEF ListedAt, LastAbout
<1> QED
  BY <1>3, <1>4, FS_Subset, MailSyncAssumption

\* After a change its message is under the labels the change names.
LEMMA ListedByChange ==
  ASSUME AccountLogged, NEW l, NEW i \in 1 .. Len(log)
  PROVE  log[i].msg \in ListedAt(l, i) <=> l \in log[i].new
<1>1. log[i].msg \in Msgs /\ i \in Nat
  <2>1. log \in Seq(Change) /\ Len(log) \in Nat
    BY LenProperties DEF AccountLogged
  <2>2. log[i] \in Change
    BY <2>1, ElementOfSeq
  <2> QED
    BY <2>1, <2>2 DEF Change
<1>2. LastAbout(log[i].msg, i, i)
  BY <1>1 DEF LastAbout
<1>3. \A j \in 1 .. i : LastAbout(log[i].msg, j, i) => j = i
  <2> SUFFICES ASSUME NEW j \in 1 .. i, j # i PROVE ~LastAbout(log[i].msg, j, i)
    OBVIOUS
  <2>1. i \in j + 1 .. i
    BY <1>1
  <2> QED
    BY <2>1 DEF LastAbout
<1> QED
  BY <1>1, <1>2, <1>3 DEF ListedAt

\* What the account has under a label now is what its log says.
LEMMA LabelListed ==
  ASSUME AccountLogged, NEW l \in Labels
  PROVE  /\ InLabel(l) = ListedAt(l, Len(log))
         /\ InLabel(l) \in SUBSET Msgs /\ InLabel(l) \in SUBSET Nat /\ IsFiniteSet(InLabel(l))
<1>1. Len(log) \in Nat
  BY LenProperties DEF AccountLogged
<1>2. \A m : Quiet(l, m, Len(log))
  BY <1>1 DEF Quiet
<1>3. InLabel(l) \subseteq Msgs
  BY DEF AccountLogged, IsPartialFn, InLabel
<1>4. ListedAt(l, Len(log)) \subseteq Msgs
  BY DEF ListedAt
<1>5. InLabel(l) = ListedAt(l, Len(log))
  <2>1. Len(log) \in 0 .. Len(log)
    BY <1>1
  <2>2. \A m \in Msgs : m \in ListedAt(l, Len(log)) <=> m \in InLabel(l)
    BY <1>2, <2>1 DEF AccountLogged
  <2> QED
    BY <1>3, <1>4, <2>2
<1> QED
  BY <1>1, <1>5, ListedFinite

\* While no change moves a message, it is under the label or not as before.
LEMMA QuietSince ==
  ASSUME AccountLogged, NEW l \in Labels, NEW m \in Msgs, NEW i \in 0 .. Len(log), Quiet(l, m, i)
  PROVE  m \in ListedAt(l, i) <=> m \in InLabel(l)
BY DEF AccountLogged

\* One more change: what was listed before it stays.
LEMMA LogGrows ==
  ASSUME log \in Seq(Change), NEW c \in Change, log' = Append(log, c)
  PROVE  /\ log' \in Seq(Change) /\ Len(log') = Len(log) + 1 /\ Len(log) \in Nat
         /\ \A i \in 1 .. Len(log) : log'[i] = log[i]
         /\ log'[Len(log) + 1] = c
         /\ \A l : \A i \in 0 .. Len(log) : ListedAt(l, i)' = ListedAt(l, i)
         /\ \A l : \A m \in Msgs : m \in ListedAt(l, Len(log))'
              <=> (IF m = c.msg THEN l \in c.new ELSE m \in ListedAt(l, Len(log)))
<1> DEFINE n == Len(log)
<1>1. n \in Nat
  BY LenProperties
<1>2. /\ log' \in Seq(Change) /\ Len(log') = n + 1
      /\ \A i \in 1 .. n : log'[i] = log[i]
      /\ log'[n + 1] = c
  BY AppendProperties
<1>3. ASSUME NEW l, NEW i \in 0 .. n
      PROVE  ListedAt(l, i)' = ListedAt(l, i)
  <2>1. \A j \in 1 .. i : log'[j] = log[j] /\ \A k \in j + 1 .. i : log'[k] = log[k]
    BY <1>1, <1>2
  <2> QED
    BY <2>1 DEF ListedAt, LastAbout
<1>4. ASSUME NEW l, NEW m \in Msgs
      PROVE  m \in ListedAt(l, Len(log))' <=>
               (IF m = c.msg THEN l \in c.new ELSE m \in ListedAt(l, n))
  <2>1. m \in ListedAt(l, Len(log))' <=> \E j \in 1 .. n + 1 :
          log'[j].msg = m /\ (\A k \in j + 1 .. n + 1 : log'[k].msg # m) /\ l \in log'[j].new
    BY <1>2 DEF ListedAt, LastAbout
  <2>2. CASE m = c.msg
    <3>1. n + 1 \in 1 .. n + 1 /\ ~\E k \in n + 1 + 1 .. n + 1 : TRUE
      BY <1>1
    <3>2. \A j \in 1 .. n + 1 : j # n + 1 => n + 1 \in j + 1 .. n + 1
      BY <1>1
    <3> QED
      BY <1>2, <2>1, <2>2, <3>1, <3>2
  <2>3. CASE m # c.msg
    <3>1. \A j \in 1 .. n : log'[j] = log[j]
            /\ ((\A k \in j + 1 .. n + 1 : log'[k].msg # m)
                   <=> (\A k \in j + 1 .. n : log[k].msg # m))
      <4> SUFFICES ASSUME NEW j \in 1 .. n
                   PROVE  (\A k \in j + 1 .. n + 1 : log'[k].msg # m)
                            <=> (\A k \in j + 1 .. n : log[k].msg # m)
        BY <1>2
      <4>1. \A k : k \in j + 1 .. n + 1 <=> k \in j + 1 .. n \/ k = n + 1
        BY <1>1
      <4>2. \A k \in j + 1 .. n : log'[k] = log[k]
        BY <1>1, <1>2
      <4> QED
        BY <1>2, <2>3, <4>1, <4>2
    <3>2. \A j : j \in 1 .. n + 1 <=> j \in 1 .. n \/ j = n + 1
      BY <1>1
    <3>3. m \in ListedAt(l, n) <=> \E j \in 1 .. n :
            log[j].msg = m /\ (\A k \in j + 1 .. n : log[k].msg # m) /\ l \in log[j].new
      BY DEF ListedAt, LastAbout
    <3> QED
      BY <1>2, <2>1, <2>3, <3>1, <3>2, <3>3
  <2> QED
    BY <2>2, <2>3
<1> QED
  BY <1>1, <1>2, <1>3, <1>4

-----------------------------------------------------------------------------
(* Parts that a step leaves alone.                                          *)

\* The store keeps its invariant when nobody calls it.
LEMMA StoreKept == IInv /\ UNCHANGED storeVars => IInv'
<1>1. UNCHANGED storeVars => UNCHANGED vars
  BY DEF storeVars, vars
<1> QED
  BY <1>1, NextStep

\* Records follow entries as long as neither changes and no excuse is taken back.
LEMMA RecordedKept ==
  ASSUME Recorded, UNCHANGED <<content, record>>,
         \A l \in Labels, m \in Msgs : Excused(l, m) => Excused(l, m)'
  PROVE  Recorded'
BY DEF Recorded, Holds

\* The account stays as logged while the server does nothing.
LEMMA AccountKept == AccountLogged /\ UNCHANGED serverVars => AccountLogged'
BY DEF AccountLogged, serverVars, Quiet, Moves, ListedAt, LastAbout, InLabel

\* What was listed when stays the same while the server does nothing.
LEMMA ListedKept ==
  ASSUME UNCHANGED serverVars
  PROVE  /\ \A l : InLabel(l)' = InLabel(l)
         /\ \A l : \A i : ListedAt(l, i)' = ListedAt(l, i)
         /\ \A l : \A m : \A j : Moves(l, m, j)' <=> Moves(l, m, j)
BY DEF serverVars, InLabel, ListedAt, LastAbout, Moves

\* What a listing has yet to bring in stays the same with the object.
LEMMA UnlistedKept ==
  ASSUME UNCHANGED serverVars, NEW l, NEW m, NEW b
  PROVE  Unlisted(l, b, m)' <=> Unlisted(l, b, m)
BY ListedKept DEF Unlisted, Rank

-----------------------------------------------------------------------------
(* Steps of the server.                                                     *)

\* The change c is logged, with the labels its message had and has now.
LoggedAs(c) ==
  /\ Len(log) < MaxLog
  /\ log' = Append(log, c)
  /\ IsPartialFn(server', Msgs, SUBSET Labels)
  /\ c.kind = "create" => c.old = {}
  /\ c.kind = "delete" => c.new = {}
  /\ \A l \in Labels :
       /\ c.msg \in InLabel(l) <=> l \in c.old
       /\ \A m \in Msgs : m \in InLabel(l)' <=>
            (IF m = c.msg THEN l \in c.new ELSE m \in InLabel(l))

\* Every step of the server is logged.
LEMMA ServerChange ==
  ASSUME AccountLogged, ServerStep
  PROVE  \E c \in Change : LoggedAs(c)
<1>1. PICK m \in Msgs :
        (\E labels \in SUBSET Labels : Arrive(m, labels) \/ Relabel(m, labels)) \/ Destroy(m)
  BY DEF ServerStep
<1>2. Len(log) < MaxLog
  BY DEF ServerStep
<1>3. DOMAIN server \subseteq Msgs /\ \A x \in DOMAIN server : server[x] \in SUBSET Labels
  BY DEF AccountLogged, IsPartialFn
<1>4. ASSUME NEW labels \in SUBSET Labels
      PROVE  /\ DOMAIN Put(server, m, labels) = DOMAIN server \cup {m}
             /\ Put(server, m, labels)[m] = labels
             /\ \A x \in DOMAIN server \ {m} : Put(server, m, labels)[x] = server[x]
             /\ IsPartialFn(Put(server, m, labels), Msgs, SUBSET Labels)
  BY <1>3 DEF Put, IsPartialFn
<1>5. ASSUME NEW labels \in SUBSET Labels, Arrive(m, labels) PROVE \E c \in Change : LoggedAs(c)
  <2> DEFINE c == Item("create", m, {}, labels)
  <2>1. c \in Change /\ c.msg = m /\ c.new = labels /\ c.old = {} /\ c.kind = "create"
    BY DEF Item, Change
  <2>2. \A l \in Labels : m \notin InLabel(l)
    <3> SUFFICES ASSUME NEW l \in Labels, m \in ListedAt(l, Len(log)) PROVE FALSE
      BY LabelListed
    <3>1. PICK j \in 1 .. Len(log) : log[j].msg = m
      BY DEF ListedAt, LastAbout
    <3> QED
      BY <1>5, <3>1, LenProperties DEF Arrive, AccountLogged
  <2>3. \A l \in Labels, x \in Msgs :
          x \in InLabel(l)' <=> (IF x = m THEN l \in labels ELSE x \in InLabel(l))
    BY <1>4, <1>5 DEF Arrive, InLabel
  <2> HIDE DEF c
  <2>4. log' = Append(log, c) /\ IsPartialFn(server', Msgs, SUBSET Labels)
    BY <1>4, <1>5 DEF Arrive, c
  <2> QED
    BY <1>2, <2>1, <2>2, <2>3, <2>4 DEF LoggedAs
<1>6. ASSUME NEW labels \in SUBSET Labels, Relabel(m, labels) PROVE \E c \in Change : LoggedAs(c)
  <2> DEFINE c == Item("update", m, server[m], labels)
  <2>1. m \in DOMAIN server
    BY <1>6 DEF Relabel
  <2>2. c \in Change /\ c.msg = m /\ c.new = labels /\ c.old = server[m] /\ c.kind = "update"
    BY <1>3, <2>1 DEF Item, Change
  <2>3. \A l \in Labels : m \in InLabel(l) <=> l \in server[m]
    BY <2>1 DEF InLabel
  <2>4. \A l \in Labels, x \in Msgs :
          x \in InLabel(l)' <=> (IF x = m THEN l \in labels ELSE x \in InLabel(l))
    BY <1>4, <1>6 DEF Relabel, InLabel
  <2> HIDE DEF c
  <2>5. log' = Append(log, c) /\ IsPartialFn(server', Msgs, SUBSET Labels)
    BY <1>4, <1>6 DEF Relabel, c
  <2> QED
    BY <1>2, <2>2, <2>3, <2>4, <2>5 DEF LoggedAs
<1>7. CASE Destroy(m)
  <2> DEFINE c == Item("delete", m, server[m], {})
  <2>1. m \in DOMAIN server
    BY <1>7 DEF Destroy
  <2>2. c \in Change /\ c.msg = m /\ c.new = {} /\ c.old = server[m] /\ c.kind = "delete"
    BY <1>3, <2>1 DEF Item, Change
  <2>3. \A l \in Labels : m \in InLabel(l) <=> l \in server[m]
    BY <2>1 DEF InLabel
  <2>4. \A l \in Labels, x \in Msgs :
          x \in InLabel(l)' <=> (IF x = m THEN l \in {} ELSE x \in InLabel(l))
    BY <1>7 DEF Destroy, InLabel
  <2> HIDE DEF c
  <2>5. log' = Append(log, c)
    BY <1>7 DEF Destroy, c
  <2>6. IsPartialFn(server', Msgs, SUBSET Labels)
    BY <1>3, <1>7 DEF Destroy, IsPartialFn
  <2> QED
    BY <1>2, <2>2, <2>3, <2>4, <2>5, <2>6 DEF LoggedAs
<1> QED
  BY <1>1, <1>5, <1>6, <1>7

\* The log goes on telling the account.
LEMMA ServerLogs == AccountLogged /\ ServerStep => AccountLogged'
<1> SUFFICES ASSUME AccountLogged, ServerStep PROVE AccountLogged'
  OBVIOUS
<1>1. PICK c \in Change : LoggedAs(c)
  BY ServerChange
<1>2. log \in Seq(Change) /\ Len(log) \in Nat
  BY LenProperties DEF AccountLogged
<1>3. /\ log' \in Seq(Change) /\ Len(log') = Len(log) + 1
      /\ \A i \in 1 .. Len(log) : log'[i] = log[i]
      /\ log'[Len(log) + 1] = c
      /\ \A l : \A i \in 0 .. Len(log) : ListedAt(l, i)' = ListedAt(l, i)
      /\ \A l : \A m \in Msgs : m \in ListedAt(l, Len(log))'
           <=> (IF m = c.msg THEN l \in c.new ELSE m \in ListedAt(l, Len(log)))
  BY <1>1, <1>2, LogGrows DEF LoggedAs
<1>4. Len(log') <= MaxLog
  BY <1>1, <1>2, <1>3, MailSyncAssumption DEF LoggedAs
<1>5. \A i \in 1 .. Len(log') :
        /\ log'[i].kind = "create" => log'[i].old = {}
        /\ log'[i].kind = "delete" => log'[i].new = {}
  <2>1. \A i \in 1 .. Len(log') : i \in 1 .. Len(log) \/ i = Len(log) + 1
    BY <1>2, <1>3
  <2> QED
    BY <1>1, <1>3, <2>1 DEF AccountLogged, LoggedAs
<1>6. ASSUME NEW l \in Labels, NEW m \in Msgs, NEW i \in 0 .. Len(log'), Quiet(l, m, i)'
      PROVE  m \in ListedAt(l, i)' <=> m \in InLabel(l)'
  <2>1. CASE i = Len(log) + 1
    <3>1. m \in ListedAt(l, i)' <=> m \in ListedAt(l, Len(log))'
      BY <1>3, <2>1
    <3> QED
      BY <1>1, <1>3, <3>1, LabelListed DEF LoggedAs
  <2>2. CASE i # Len(log) + 1
    <3>1. i \in 0 .. Len(log)
      BY <1>2, <1>3, <2>2
    <3>2. \A j \in i + 1 .. Len(log) + 1 :
            ~(log'[j].msg = m /\ ~(l \in log'[j].old <=> l \in log'[j].new))
      BY <1>3, <1>6 DEF Quiet, Moves
    <3>3. Quiet(l, m, i)
      <4>1. \A j \in i + 1 .. Len(log) : j \in i + 1 .. Len(log) + 1 /\ log'[j] = log[j]
        BY <1>2, <1>3, <3>1
      <4> QED
        BY <3>2, <4>1 DEF Quiet, Moves
    <3>4. m = c.msg => (l \in c.old <=> l \in c.new)
      <4>1. Len(log) + 1 \in i + 1 .. Len(log) + 1
        BY <1>2, <3>1
      <4> QED
        BY <1>3, <3>2, <4>1
    <3>5. m \in InLabel(l)' <=> m \in InLabel(l)
      BY <1>1, <3>4 DEF LoggedAs
    <3> QED
      BY <1>3, <3>1, <3>3, <3>5, QuietSince
  <2> QED
    BY <2>1, <2>2
<1> QED
  BY <1>1, <1>3, <1>4, <1>5, <1>6 DEF AccountLogged, LoggedAs

\* A change of the account moves nobody else.
LEMMA ServerPlaces == Places /\ ServerStep => Places'
<1> SUFFICES ASSUME Places, ServerStep PROVE Places'
  OBVIOUS
<1>1. IInv' /\ AccountLogged'
  BY StoreKept, ServerLogs DEF Places, ServerStep
<1>2. PICK c \in Change : LoggedAs(c)
  BY ServerChange DEF Places
<1>3. /\ log \in Seq(Change) /\ Len(log) \in Nat /\ Len(log') = Len(log) + 1
      /\ \A i \in 1 .. Len(log) : log'[i] = log[i]
      /\ \A l : \A i \in 0 .. Len(log) : ListedAt(l, i)' = ListedAt(l, i)
  BY <1>2, LogGrows DEF Places, AccountLogged, LoggedAs
<1>4. StreamPlaced'
  <2>1. /\ UNCHANGED <<cursor, errors, todo, handed>>
        /\ handed \in 0 .. Len(log) /\ todo \in Seq(Change) /\ Len(todo) <= handed
        /\ \A k \in 1 .. Len(todo) : todo[k] = log[Applied + k]
    BY DEF ServerStep, streamVars, Places, StreamPlaced
  <2>2. \A k \in 1 .. Len(todo) : Applied + k \in 1 .. Len(log)
    BY <1>3, <2>1, LenProperties DEF Applied
  <2>3. \A k \in 1 .. Len(todo') : todo'[k] = log'[Applied' + k]
    BY <1>3, <2>1, <2>2 DEF Applied
  <2> QED
    BY <1>3, <2>1, <2>3 DEF Places, StreamPlaced, Unset, NoCursor, LostCursor
<1>5. RefreshPlaced'
  BY DEF ServerStep, streamVars, boxVars, Places, RefreshPlaced
<1>6. BoxesPlaced'
  <2>1. UNCHANGED <<mbox, filled, objects>>
    BY DEF ServerStep, boxVars
  <2>2. \A l \in Labels, g \in 1 .. MaxRenewals :
          mbox[l][g].state = "storing" => Answered(l, mbox[l][g])'
    <3> SUFFICES ASSUME NEW l \in Labels, NEW g \in 1 .. MaxRenewals, mbox[l][g].state = "storing"
                 PROVE  Answered(l, mbox[l][g])'
      OBVIOUS
    <3>1. PICK b : b = mbox[l][g]
      OBVIOUS
    <3>2. b \in Box /\ Answered(l, b)
      BY <3>1 DEF Places, BoxesPlaced
    <3>3. b.at \in 0 .. Len(log) /\ b.at <= Len(log')
      BY <1>3, <3>2 DEF Answered, Box
    <3>4. ListedAt(l, b.at)' = ListedAt(l, b.at)
      BY <1>3, <3>3
    <3>5. Answered(l, b)'
      BY <3>2, <3>3, <3>4 DEF Answered
    <3> QED
      BY <2>1, <3>1, <3>5 DEF Answered
  <2>3. \A l \in Labels : filled[l].since <= Len(log')
    BY <1>3 DEF Places, BoxesPlaced
  <2> QED
    BY <2>1, <2>2, <2>3 DEF Places, BoxesPlaced
<1> QED
  BY <1>1, <1>4, <1>5, <1>6 DEF Places

\* A change that moves a message is coming, and any other leaves it where it is.
LEMMA ServerAgrees == Places /\ Agreement /\ ServerStep => Agreement'
<1> SUFFICES ASSUME Places, Agreement, ServerStep,
                    NEW l \in Labels \ refresh'.left, NEW m \in Msgs, InUse(l)' # {},
                    ~Excused(l, m)'
             PROVE  Agrees(l, m)'
  BY DEF Agreement
<1>1. PICK c \in Change : LoggedAs(c)
  BY ServerChange DEF Places
<1>2. /\ log \in Seq(Change) /\ Len(log) \in Nat /\ Len(log') = Len(log) + 1
      /\ \A i \in 1 .. Len(log) : log'[i] = log[i]
      /\ log'[Len(log) + 1] = c
      /\ \A x : \A i \in 0 .. Len(log) : ListedAt(x, i)' = ListedAt(x, i)
  BY <1>1, LogGrows DEF Places, AccountLogged, LoggedAs
<1>3. UNCHANGED <<content, refresh, mbox, objects, filled, excused, handed, todo>>
  BY DEF ServerStep, storeVars, streamVars, boxVars
<1>4. Agrees(l, m) /\ filled[l].by \in InUse(l)
  <2>1. InUse(l) # {} /\ ~Excused(l, m) /\ l \notin refresh.left
    BY <1>3 DEF InUse, Objects, Excused
  <2> QED
    BY <2>1 DEF Agreement, Agrees
<1>5. /\ handed \in Nat /\ handed <= Len(log) /\ Applied \in Nat /\ Applied <= Len(log)
      /\ filled[l].since \in Nat /\ filled[l].since <= Len(log)
  BY <1>2, LenProperties DEF Places, StreamPlaced, BoxesPlaced, Applied
<1>6. ASSUME NoneComing(l, m)'
      PROVE  NoneComing(l, m) /\ (m = c.msg => (l \in c.old <=> l \in c.new))
  <2>1. \A j \in Applied + 1 .. Len(log) + 1 :
          j <= handed \/ j > filled[l].since =>
            ~(log'[j].msg = m /\ ~(l \in log'[j].old <=> l \in log'[j].new))
    BY <1>2, <1>3, <1>6 DEF NoneComing, Moves, Applied
  <2>2. \A j \in Applied + 1 .. Len(log) :
          j \in Applied + 1 .. Len(log) + 1 /\ log'[j] = log[j]
    BY <1>2, <1>5
  <2>3. Len(log) + 1 \in Applied + 1 .. Len(log) + 1 /\ Len(log) + 1 > filled[l].since
    BY <1>2, <1>5
  <2> QED
    BY <1>2, <2>1, <2>2, <2>3 DEF NoneComing, Moves
<1>7. ASSUME NoneComing(l, m)'
      PROVE  m \in InLabel(l)' <=> m \in InLabel(l)
  BY <1>1, <1>6, <1>7 DEF LoggedAs
<1>8. ASSUME NEW b, b = mbox[l][filled[l].by], Unlisted(l, b, m)
      PROVE  Unlisted(l, b, m)'
  <2>1. CASE b.state # "storing"
    BY <1>3, <1>8, <2>1 DEF Unlisted
  <2>2. CASE b.state = "storing"
    <3>1. filled[l].by \in 1 .. MaxRenewals
      BY <1>4, MailSyncAssumption DEF InUse, Objects, Places, RefreshPlaced
    <3>2. b.at \in 0 .. Len(log)
      <4>1. b \in Box /\ Answered(l, b)
        BY <1>8, <2>2, <3>1 DEF Places, BoxesPlaced
      <4> QED
        BY <1>2, <4>1 DEF Answered, Box
    <3>3. ListedAt(l, b.at)' = ListedAt(l, b.at)
      BY <1>2, <3>2
    <3> QED
      BY <1>8, <3>3 DEF Unlisted, Rank
  <2> QED
    BY <2>1, <2>2
<1>9. PICK b : b = mbox[l][filled[l].by]
  OBVIOUS
<1>10. Unlisted(l, b, m)' => Unlisted(l, mbox[l][filled[l].by], m)'
  BY <1>3, <1>9 DEF Unlisted
<1> QED
  BY <1>3, <1>4, <1>6, <1>7, <1>8, <1>9, <1>10 DEF Agrees, InUse, Objects

-----------------------------------------------------------------------------
(* Steps of the stream.                                                     *)

\* The mailbox objects stay as placed while neither they nor the log change.
LEMMA BoxesKept == BoxesPlaced /\ UNCHANGED <<serverVars, boxVars>> => BoxesPlaced'
<1> SUFFICES ASSUME BoxesPlaced, UNCHANGED <<serverVars, boxVars>> PROVE BoxesPlaced'
  OBVIOUS
<1>1. UNCHANGED <<log, mbox, filled, objects>>
  BY DEF serverVars, boxVars
<1>2. \A l : \A b : Answered(l, b)' <=> Answered(l, b)
  BY <1>1, ListedKept DEF Answered
<1>3. ASSUME NEW l \in Labels, NEW g \in 1 .. MaxRenewals, mbox[l][g].state = "storing"
      PROVE  Answered(l, mbox[l][g])'
  <2>1. PICK b : b = mbox[l][g]
    OBVIOUS
  <2>2. Answered(l, b)'
    BY <1>2, <1>3, <2>1 DEF BoxesPlaced
  <2> QED
    BY <1>1, <2>1, <2>2 DEF Answered
<1> QED
  BY <1>1, <1>3 DEF BoxesPlaced

\* The object that fills a mailbox being left alone, the mailbox agrees with the
\* account as long as no change ceases to be coming.
LEMMA AgreesStill ==
  ASSUME NEW l \in Labels, NEW m \in Msgs, Agrees(l, m), UNCHANGED serverVars,
         filled'[l].by = filled[l].by, filled[l].by \in InUse(l)',
         mbox'[l][filled[l].by] = mbox[l][filled[l].by],
         Holds(content'[l], m) <=> Holds(content[l], m),
         NoneComing(l, m)' => NoneComing(l, m)
  PROVE  Agrees(l, m)'
<1>1. PICK b : b = mbox[l][filled[l].by]
  OBVIOUS
<1>2. Unlisted(l, b, m)' <=> Unlisted(l, b, m)
  BY UnlistedKept
<1>3. Unlisted(l, b, m)' => Unlisted(l, mbox[l][filled[l].by], m)'
  BY <1>1 DEF Unlisted
<1> QED
  BY <1>1, <1>2, <1>3, ListedKept DEF Agrees

\* The same when nobody uses or leaves the mailbox.
LEMMA AgreesKept ==
  ASSUME NEW l \in Labels, NEW m \in Msgs, Agrees(l, m),
         UNCHANGED <<serverVars, objects>>, mbox'[l] = mbox[l], filled'[l].by = filled[l].by,
         Holds(content'[l], m) <=> Holds(content[l], m),
         NoneComing(l, m)' => NoneComing(l, m)
  PROVE  Agrees(l, m)'
<1>1. filled[l].by \in InUse(l)'
  BY DEF Agrees, InUse, Objects
<1> QED
  BY <1>1, AgreesStill

\* The stream starts behind the newest change.
LEMMA FetchLatestStep == SyncInv /\ FetchLatest => SyncInv'
<1> SUFFICES ASSUME SyncInv, FetchLatest PROVE SyncInv'
  OBVIOUS
<1>1. /\ IInv' /\ AccountLogged' /\ RefreshPlaced' /\ BoxesPlaced'
  BY StoreKept, AccountKept, BoxesKept
  DEF FetchLatest, SyncInv, Places, RefreshPlaced, boxVars, Ranging
<1>2. Len(log) \in Nat /\ todo = << >> /\ Len(todo) = 0 /\ Applied = handed /\ handed \in Nat
  BY LenProperties, EmptySeq
  DEF SyncInv, Places, AccountLogged, StreamPlaced, FetchLatest, Ranging, Applied
<1>3. /\ UNCHANGED <<storeVars, serverVars, todo, refresh, renewals, boxVars>>
      /\ cursor' = Len(log) /\ handed' = Len(log) /\ errors' = 0
  BY DEF FetchLatest
<1>4. StreamPlaced'
  <2>1. UNCHANGED log
    BY <1>3 DEF serverVars
  <2>2. Len(log) \in 0 .. Len(log) /\ 0 \in 0 .. MaxErrors - 1
    BY <1>2, MailSyncAssumption
  <2> QED
    BY <1>2, <1>3, <2>1, <2>2 DEF SyncInv, Places, StreamPlaced
<1>5. \A l \in Labels, m \in Msgs : Excused(l, m) => Excused(l, m)'
  BY DEF Excused, FetchLatest
<1>6. Recorded'
  BY <1>3, <1>5, RecordedKept DEF SyncInv, storeVars
<1>7. Agreement'
  <2> SUFFICES ASSUME NEW l \in Labels \ refresh'.left, NEW m \in Msgs, InUse(l)' # {},
                      ~Excused(l, m)'
               PROVE  Agrees(l, m)'
    BY DEF Agreement
  <2>1. UNCHANGED <<mbox, objects, filled, content, log>>
    BY <1>3 DEF boxVars, storeVars, serverVars
  <2>2. InUse(l) # {} /\ Agrees(l, m)
    BY <1>3, <1>5, <2>1 DEF SyncInv, Agreement, InUse, Objects
  <2>3. NoneComing(l, m)
    <3> SUFFICES ASSUME NEW j \in Applied + 1 .. Len(log), j <= handed \/ j > filled[l].since,
                        log[j].msg = m
                 PROVE  FALSE
      BY DEF NoneComing, Moves
    <3>1. j \in Later(l)
      BY <1>2, <2>2 DEF Later
    <3>2. PICK reason : <<l, log[j].msg, reason>> \in excused'
      <4> DEFINE r == IF cursor = LostCursor THEN "skipped" ELSE "missed"
                 S(x) == {<<x, log[i].msg, r>> : i \in Later(x)}
      <4>1. excused' = excused \cup UNION {S(x) : x \in Labels}
        BY Zenon DEF FetchLatest
      <4>2. <<l, log[j].msg, r>> \in S(l)
        BY <3>1
      <4> HIDE DEF r, S
      <4> QED
        BY <4>1, <4>2
    <3> QED
      BY <3>2 DEF Excused
  <2> QED
    BY <1>3, <2>1, <2>2, <2>3, AgreesKept
<1> QED
  BY <1>1, <1>4, <1>6, <1>7 DEF SyncInv, Places

\* An event brings the next changes, in order.
LEMMA FetchNextStep == SyncInv /\ FetchNext => SyncInv'
<1> SUFFICES ASSUME SyncInv, FetchNext PROVE SyncInv'
  OBVIOUS
<1>1. /\ IInv' /\ AccountLogged' /\ RefreshPlaced' /\ BoxesPlaced'
  BY StoreKept, AccountKept, BoxesKept
  DEF FetchNext, SyncInv, Places, RefreshPlaced, boxVars, Ranging
<1>2. /\ log \in Seq(Change) /\ Len(log) \in Nat
      /\ todo = << >> /\ Len(todo) = 0 /\ Applied = handed /\ handed \in Nat
      /\ cursor = handed /\ cursor <= Len(log)
  BY LenProperties, EmptySeq
  DEF SyncInv, Places, AccountLogged, StreamPlaced, FetchNext, Ranging, Applied
<1>3. PICK to \in cursor .. Len(log) :
        todo' = SubSeq(log, cursor + 1, to) /\ cursor' = to /\ handed' = to
  BY DEF FetchNext
<1>4. UNCHANGED <<storeVars, serverVars, refresh, renewals, boxVars, excused>> /\ errors' = 0
  BY DEF FetchNext
<1>5. /\ todo' \in Seq(Change) /\ Len(todo') = to - cursor
      /\ \A k \in 1 .. Len(todo') : todo'[k] = log[cursor + k]
      /\ Applied' = Applied
  <2>1. \A i \in cursor + 1 .. to : log[i] \in Change
    <3>1. \A i \in cursor + 1 .. to : i \in 1 .. Len(log)
      BY <1>2, <1>3
    <3> QED
      BY <1>2, <3>1, ElementOfSeq
  <2>2. cursor + 1 \in Int /\ to \in Int
    BY <1>2, <1>3
  <2>3. /\ todo' \in Seq(Change)
        /\ Len(todo') = IF cursor + 1 <= to THEN to - (cursor + 1) + 1 ELSE 0
        /\ \A i \in 1 .. to - (cursor + 1) + 1 : todo'[i] = log[cursor + 1 + i - 1]
    BY <1>3, <2>1, <2>2, SubSeqProperties
  <2>4. Len(todo') = to - cursor
    BY <1>2, <1>3, <2>3
  <2>5. ASSUME NEW k \in 1 .. Len(todo') PROVE todo'[k] = log[cursor + k]
    <3>1. k \in 1 .. to - (cursor + 1) + 1 /\ cursor + 1 + k - 1 = cursor + k
      BY <1>2, <1>3, <2>4
    <3> QED
      BY <2>3, <3>1
  <2>6. Applied' = Applied
    BY <1>2, <1>3, <2>4 DEF Applied
  <2> QED
    BY <2>3, <2>4, <2>5, <2>6
<1>6. StreamPlaced'
  <2>1. UNCHANGED log
    BY <1>4 DEF serverVars
  <2>2. to \in 0 .. Len(log) /\ 0 \in 0 .. MaxErrors - 1 /\ Len(todo') <= to
    BY <1>2, <1>3, <1>5, MailSyncAssumption
  <2> QED
    BY <1>2, <1>3, <1>4, <1>5, <2>1, <2>2 DEF SyncInv, Places, StreamPlaced
<1>7. Recorded'
  BY <1>4, RecordedKept DEF SyncInv, storeVars, Excused
<1>8. Agreement'
  <2> SUFFICES ASSUME NEW l \in Labels \ refresh'.left, NEW m \in Msgs, InUse(l)' # {},
                      ~Excused(l, m)'
               PROVE  Agrees(l, m)'
    BY DEF Agreement
  <2>1. UNCHANGED <<mbox, objects, filled, content, log>>
    BY <1>4 DEF boxVars, storeVars, serverVars
  <2>2. Agrees(l, m)
    BY <1>4, <2>1 DEF SyncInv, Agreement, InUse, Objects, Excused
  <2>3. NoneComing(l, m)' => NoneComing(l, m)
    BY <1>2, <1>5, <2>1 DEF NoneComing, Moves
  <2> QED
    BY <1>4, <2>1, <2>2, <2>3, AgreesKept
<1> QED
  BY <1>1, <1>6, <1>7, <1>8 DEF SyncInv, Places

\* A refresh stands for the changes it skips: the mailboxes in the map will be
\* reset, and the others are excused.
LEMMA FetchRefreshStep == SyncInv /\ FetchRefresh => SyncInv'
<1> SUFFICES ASSUME SyncInv, FetchRefresh PROVE SyncInv'
  OBVIOUS
<1>1. /\ IInv' /\ AccountLogged' /\ BoxesPlaced'
  BY StoreKept, AccountKept, BoxesKept DEF FetchRefresh, SyncInv, Places
<1>2. /\ UNCHANGED <<storeVars, serverVars, todo, boxVars>>
      /\ cursor' = Len(log) /\ handed' = Len(log) /\ errors' = 0
      /\ refresh' = [stage |-> IF Mapped = {} THEN "records" ELSE "boxes", left |-> Mapped]
      /\ renewals < MaxRenewals /\ renewals' = renewals + 1
      /\ todo = << >> /\ refresh = NoRefresh
  BY DEF FetchRefresh, Ranging
<1>3. /\ UNCHANGED log /\ Len(log) \in Nat /\ Len(todo) = 0
      /\ Applied = handed /\ handed \in Nat
  BY <1>2, LenProperties, EmptySeq
  DEF serverVars, SyncInv, Places, AccountLogged, StreamPlaced, Applied
<1>4. StreamPlaced'
  <2>1. Len(log) \in 0 .. Len(log) /\ 0 \in 0 .. MaxErrors - 1
    BY <1>3, MailSyncAssumption
  <2> QED
    BY <1>2, <1>3, <2>1 DEF SyncInv, Places, StreamPlaced
<1>5. RefreshPlaced'
  <2>1. Mapped \in SUBSET Labels
    BY DEF Mapped
  <2> QED
    BY <1>2, <2>1, MailSyncAssumption DEF SyncInv, Places, RefreshPlaced, NoRefresh, boxVars
<1>6. \A l \in Labels, m \in Msgs : Excused(l, m) => Excused(l, m)'
  BY DEF Excused, FetchRefresh
<1>7. Recorded'
  BY <1>2, <1>6, RecordedKept DEF SyncInv, storeVars
<1>8. Agreement'
  <2> SUFFICES ASSUME NEW l \in Labels \ Mapped, NEW m \in Msgs, InUse(l)' # {}, ~Excused(l, m)'
               PROVE  Agrees(l, m)'
    BY <1>2 DEF Agreement
  <2>1. UNCHANGED <<mbox, objects, filled, content, log>>
    BY <1>2 DEF boxVars, storeVars, serverVars
  <2>2. InUse(l) # {} /\ Agrees(l, m)
    BY <1>2, <1>6, <2>1 DEF SyncInv, Agreement, InUse, Objects, NoRefresh
  <2>3. NoneComing(l, m)
    <3> SUFFICES ASSUME NEW j \in Applied + 1 .. Len(log), j <= handed \/ j > filled[l].since,
                        log[j].msg = m
                 PROVE  FALSE
      BY DEF NoneComing, Moves
    <3>1. j \in Later(l)
      BY <1>3, <2>2 DEF Later
    <3>2. <<l, log[j].msg, "unmapped">> \in excused'
      <4> DEFINE S(x) == {<<x, log[i].msg, "unmapped">> : i \in Later(x)}
      <4>1. excused' = excused \cup UNION {S(x) : x \in Labels \ Mapped}
        BY Zenon DEF FetchRefresh
      <4>2. <<l, log[j].msg, "unmapped">> \in S(l)
        BY <3>1
      <4> HIDE DEF S
      <4> QED
        BY <4>1, <4>2
    <3> QED
      BY <3>2 DEF Excused
  <2> QED
    BY <1>2, <2>1, <2>2, <2>3, AgreesKept
<1> QED
  BY <1>1, <1>4, <1>5, <1>7, <1>8 DEF SyncInv, Places

\* An error only costs the cursor.
LEMMA FetchErrorStep == SyncInv /\ FetchError => SyncInv'
<1> SUFFICES ASSUME SyncInv, FetchError PROVE SyncInv'
  OBVIOUS
<1>1. /\ IInv' /\ AccountLogged' /\ RefreshPlaced' /\ BoxesPlaced'
  BY StoreKept, AccountKept, BoxesKept DEF FetchError, SyncInv, Places, RefreshPlaced, boxVars
<1>2. UNCHANGED <<storeVars, serverVars, todo, refresh, handed, renewals, boxVars, excused>>
  BY DEF FetchError
<1>3. StreamPlaced'
  <2>1. errors' \in 0 .. MaxErrors - 1
    <3>1. errors \in Nat /\ MaxErrors \in Nat \ {0} /\ errors' = (errors + 1) % MaxErrors
      BY MailSyncAssumption DEF FetchError, SyncInv, Places, StreamPlaced
    <3> QED
      BY <3>1
  <2>2. cursor' = cursor \/ cursor' = LostCursor
    BY DEF FetchError
  <2>3. UNCHANGED <<log, todo, handed>>
    BY <1>2 DEF serverVars
  <2> QED
    BY <2>1, <2>2, <2>3 DEF SyncInv, Places, StreamPlaced, Unset, Applied
<1>4. Recorded'
  BY <1>2, RecordedKept DEF SyncInv, storeVars, Excused
<1>5. Agreement'
  <2> SUFFICES ASSUME NEW l \in Labels \ refresh'.left, NEW m \in Msgs, InUse(l)' # {},
                      ~Excused(l, m)'
               PROVE  Agrees(l, m)'
    BY DEF Agreement
  <2>1. UNCHANGED <<mbox, objects, filled, content, log>>
    BY <1>2 DEF boxVars, storeVars, serverVars
  <2>2. Agrees(l, m)
    BY <1>2, <2>1 DEF SyncInv, Agreement, InUse, Objects, Excused
  <2>3. NoneComing(l, m)' => NoneComing(l, m)
    BY <1>2, <2>1 DEF NoneComing, Moves, Applied
  <2> QED
    BY <1>2, <2>1, <2>2, <2>3, AgreesKept
<1> QED
  BY <1>1, <1>3, <1>4, <1>5 DEF SyncInv, Places

-----------------------------------------------------------------------------
(* What the calls of the event handlers do to the mailboxes.                *)

\* CreateMessage adds the message to the buckets of its labels.
LEMMA HoldsCreated ==
  ASSUME IInv, NEW m \in Msgs, NEW labels \in SUBSET Labels, CreateMessage(m, labels)
  PROVE  \A l \in Labels : \A x :
           Holds(content'[l], x) <=> Holds(content[l], x) \/ (x = m /\ l \in labels)
<1> SUFFICES ASSUME NEW l \in Labels
             PROVE  \A x : Holds(content'[l], x) <=>
                      Holds(content[l], x) \/ (x = m /\ l \in labels)
  OBVIOUS
<1>1. BucketOK(content[l], sequence[l])
  BY IInvRegrouped DEF Buckets
<1>2. CASE l \in labels
  <2>1. sequence[l] + 1 <= MaxUid /\ content'[l] = CreateIn(content[l], sequence[l], m)
    BY <1>2 DEF CreateMessage, Room
  <2> QED
    BY <1>1, <1>2, <2>1, CreateInBucket
<1>3. CASE l \notin labels
  BY <1>3 DEF CreateMessage
<1> QED
  BY <1>2, <1>3

\* UpdateMessage adds it to some buckets and takes it out of others.
LEMMA HoldsUpdated ==
  ASSUME IInv, NEW m \in Msgs, NEW upd \in Update, UpdateMessage(m, upd)
  PROVE  \A l \in Labels : \A x :
           Holds(content'[l], x) <=>
             /\ Holds(content[l], x) \/ (x = m /\ l \in AddedLabels(upd, record[m]))
             /\ ~(x = m /\ l \in RemovedLabels(upd, record[m]))
<1> DEFINE added == AddedLabels(upd, record[m])
           removed == RemovedLabels(upd, record[m])
<1> SUFFICES ASSUME NEW l \in Labels
             PROVE  \A x : Holds(content'[l], x) <=>
                      /\ Holds(content[l], x) \/ (x = m /\ l \in added)
                      /\ ~(x = m /\ l \in removed)
  OBVIOUS
<1> DEFINE grown == IF l \in added THEN CreateIn(content[l], sequence[l], m) ELSE content[l]
           after == IF l \in added THEN SequenceAfter(content[l], sequence[l], m) ELSE sequence[l]
<1>1. BucketOK(content[l], sequence[l])
  BY IInvRegrouped DEF Buckets
<1>2. /\ \A k \in added : Room(k, 1)
      /\ content'[l] = IF l \in removed THEN DeleteFrom(grown, m) ELSE grown
  BY DEF UpdateMessage
<1> HIDE DEF added, removed
<1>3. /\ BucketOK(grown, after)
      /\ \A x : Holds(grown, x) <=> Holds(content[l], x) \/ (x = m /\ l \in added)
  <2>1. CASE l \in added
    BY <1>1, <1>2, <2>1, CreateInBucket DEF Room
  <2>2. CASE l \notin added
    BY <1>1, <2>2
  <2> QED
    BY <2>1, <2>2
<1> HIDE DEF grown, after
<1>4. CASE l \in removed
  <2>1. content'[l] = DeleteFrom(grown, m)
    BY <1>2, <1>4
  <2> QED
    BY <1>3, <1>4, <2>1, DeleteFromBucket
<1>5. CASE l \notin removed
  BY <1>2, <1>3, <1>5
<1> QED
  BY <1>4, <1>5

\* DeleteMessage takes it out of the buckets that its record names.
LEMMA HoldsDeleted ==
  ASSUME IInv, NEW m \in Msgs, DeleteMessage(m)
  PROVE  \A l \in Labels : \A x :
           Holds(content'[l], x) <=> Holds(content[l], x) /\ ~(x = m /\ l \in record[m])
<1> SUFFICES ASSUME NEW l \in Labels
             PROVE  \A x : Holds(content'[l], x) <=>
                      Holds(content[l], x) /\ ~(x = m /\ l \in record[m])
  OBVIOUS
<1>1. BucketOK(content[l], sequence[l])
  BY IInvRegrouped DEF Buckets
<1>2. CASE l \in record[m]
  <2>1. content'[l] = DeleteFrom(content[l], m)
    BY <1>2 DEF DeleteMessage
  <2> QED
    BY <1>1, <1>2, <2>1, DeleteFromBucket
<1>3. CASE l \notin record[m]
  BY <1>3 DEF DeleteMessage
<1> QED
  BY <1>2, <1>3

\* An update event asks for the labels that came and went, or for the difference
\* to the record's when it carries the new labels only.
LEMMA LabelUpdateIs ==
  ASSUME NEW item \in Change, NEW form \in EventForms, NEW current
  PROVE  LET upd == LabelUpdate(item, form)
         IN  /\ upd \in Update
             /\ form # "labels" => /\ AddedLabels(upd, current) = item.new \ item.old
                                   /\ RemovedLabels(upd, current) = item.old \ item.new
             /\ form = "labels" => /\ AddedLabels(upd, current) = item.new \ current
                                   /\ RemovedLabels(upd, current) = current \ item.new
<1> DEFINE upd == LabelUpdate(item, form)
<1>1. item.new \in SUBSET Labels /\ item.old \in SUBSET Labels
  BY DEF Change
<1>2. item.new # Nil /\ item.new \ item.old # Nil /\ item.old \ item.new # Nil
  BY <1>1, MailSyncAssumption
<1>3. upd \in Update
  BY <1>1 DEF LabelUpdate, Update, OptionalLabels
<1>4. form \in {"labels", "delta", "both"}
  BY MailSyncAssumption
<1>5. CASE form = "labels"
  <2>1. upd.added = Nil /\ upd.labels = item.new
    BY <1>5 DEF LabelUpdate
  <2>2. ~HasDelta(upd)
    BY <2>1 DEF HasDelta
  <2> QED
    BY <1>2, <1>3, <1>5, <2>1, <2>2 DEF AddedLabels, RemovedLabels
<1>6. CASE form # "labels"
  <2>1. upd.added = item.new \ item.old /\ upd.removed = item.old \ item.new
    BY <1>4, <1>6 DEF LabelUpdate
  <2>2. HasDelta(upd)
    BY <1>2, <2>1 DEF HasDelta
  <2> QED
    BY <1>3, <1>6, <2>1, <2>2 DEF AddedLabels, RemovedLabels
<1> QED
  BY <1>5, <1>6

-----------------------------------------------------------------------------
(* An item of an event.                                                     *)

\* The next item is the change that follows those applied.
LEMMA NextItem ==
  ASSUME Places, ApplyItem
  PROVE  /\ Head(todo) = log[Applied + 1] /\ Head(todo) \in Change
         /\ Applied \in Nat /\ Applied + 1 <= handed /\ handed \in Nat
         /\ Applied + 1 \in 1 .. Len(log) /\ Len(log) \in Nat
         /\ Applied' = Applied + 1
         /\ todo' \in Seq(Change) /\ Len(todo') <= handed
         /\ \A k \in 1 .. Len(todo') : todo'[k] = log[Applied' + k]
<1>1. /\ todo \in Seq(Change) /\ todo # << >> /\ todo' = Tail(todo) /\ handed' = handed
      /\ handed \in 0 .. Len(log) /\ Len(log) \in Nat /\ Len(todo) <= handed
      /\ \A k \in 1 .. Len(todo) : todo[k] = log[Applied + k]
  BY LenProperties DEF ApplyItem, Places, StreamPlaced, AccountLogged
<1>2. Len(todo) \in Nat \ {0} /\ Head(todo) \in Change
  BY <1>1, EmptySeq, HeadTailProperties
<1>3. /\ todo' \in Seq(Change) /\ Len(todo') = Len(todo) - 1
      /\ \A k \in 1 .. Len(todo') : todo'[k] = todo[k + 1]
  BY <1>1, HeadTailProperties
<1>4. Head(todo) = log[Applied + 1]
  <2>1. 1 \in 1 .. Len(todo) /\ Head(todo) = todo[1]
    BY <1>1, <1>2
  <2> QED
    BY <1>1, <2>1
<1>5. /\ Applied \in Nat /\ Applied + 1 <= handed /\ handed \in Nat
      /\ Applied + 1 \in 1 .. Len(log) /\ Applied' = Applied + 1 /\ Len(todo') <= handed
  BY <1>1, <1>2, <1>3 DEF Applied
<1>6. ASSUME NEW k \in 1 .. Len(todo') PROVE todo'[k] = log[Applied' + k]
  <2>1. k + 1 \in 1 .. Len(todo) /\ Applied + (k + 1) = Applied' + k
    BY <1>2, <1>3, <1>5
  <2> QED
    BY <1>1, <1>3, <2>1
<1> QED
  BY <1>1, <1>2, <1>3, <1>4, <1>5, <1>6

\* What applying an item does to its message in a mailbox, unless it is excused:
\* it sets the message right, or the item does not move the message and it stays.
Handled(l, item) ==
  \/ Holds(content'[l], item.msg) <=> l \in item.new
  \/ /\ l \in item.old <=> l \in item.new
     /\ Holds(content'[l], item.msg) <=> Holds(content[l], item.msg)

\* The effect of a store call on behalf of an item.
ItemEffect(item) ==
  /\ IInv'
  /\ \A l \in Labels : \A x : x # item.msg =>
       (Holds(content'[l], x) <=> Holds(content[l], x))
  /\ \A l \in Labels : ~Excused(l, item.msg)' => Handled(l, item)
  /\ Recorded'

\* An excuse names the mailbox and the message.
LEMMA ExcusedBy ==
  ASSUME NEW l, NEW m, NEW reason, <<l, m, reason>> \in excused'
  PROVE  Excused(l, m)'
BY DEF Excused

\* A create event.
LEMMA CreateEffect ==
  ASSUME Places, Recorded, NEW item \in Change, item.kind = "create", item.old = {},
         CreateMessage(item.msg, item.new), UNCHANGED excused
  PROVE  ItemEffect(item)
<1>1. item.msg \in Msgs /\ item.new \in SUBSET Labels /\ IInv
  BY DEF Change, Places
<1>2. IInv'
  BY <1>1, NextStep DEF Next, Places
<1>3. \A l \in Labels : \A x : Holds(content'[l], x) <=>
        Holds(content[l], x) \/ (x = item.msg /\ l \in item.new)
  BY <1>1, HoldsCreated
<1>4. \A l, x : Excused(l, x)' <=> Excused(l, x)
  BY DEF Excused
<1>5. DOMAIN record' = DOMAIN record \cup {item.msg}
  BY DEF CreateMessage, Put
<1>6. Recorded'
  BY <1>3, <1>4, <1>5 DEF Recorded
<1> QED
  BY <1>2, <1>3, <1>6 DEF ItemEffect, Handled

\* An update event that finds its record.
LEMMA UpdateEffect ==
  ASSUME Places, Recorded, NEW item \in Change, item.kind = "update", NEW form \in EventForms,
         UpdateMessage(item.msg, LabelUpdate(item, form)),
         excused' = excused \cup {<<l, item.msg, "misfiled">> : l \in Misfiled(item, form)}
  PROVE  ItemEffect(item)
<1> DEFINE m == item.msg
           upd == LabelUpdate(item, form)
           added == AddedLabels(upd, record[m])
           removed == RemovedLabels(upd, record[m])
<1>1. m \in Msgs /\ item.new \in SUBSET Labels /\ upd \in Update /\ m \in DOMAIN record
  BY LabelUpdateIs DEF Change, UpdateMessage
<1>2. IInv'
  BY <1>1, NextStep DEF Next, Places
<1>3. \A l \in Labels : \A x : Holds(content'[l], x) <=>
        /\ Holds(content[l], x) \/ (x = m /\ l \in added)
        /\ ~(x = m /\ l \in removed)
  BY <1>1, HoldsUpdated DEF Places
<1>4. \A l, x : Excused(l, x) => Excused(l, x)'
  BY DEF Excused
<1>5. DOMAIN record' = DOMAIN record
  BY <1>1 DEF UpdateMessage, Put
<1>6. Recorded'
  BY <1>1, <1>3, <1>4, <1>5 DEF Recorded
<1>7. ASSUME NEW l \in Labels, ~Excused(l, m)' PROVE Handled(l, item)
  <2>1. CASE form # "labels"
    <3>1. added = item.new \ item.old /\ removed = item.old \ item.new
      BY <2>1, LabelUpdateIs
    <3> QED
      BY <1>3, <3>1 DEF Handled
  <2>2. CASE form = "labels"
    <3>1. added = item.new \ record[m] /\ removed = record[m] \ item.new
      BY <2>2, LabelUpdateIs
    <3>2. l \notin Misfiled(item, form)
      <4>1. l \in Misfiled(item, form) => <<l, m, "misfiled">> \in excused'
        OBVIOUS
      <4> QED
        BY <1>7, <4>1, ExcusedBy
    <3>3. Holds(content[l], m) <=> l \in record[m]
      BY <1>1, <2>2, <3>2 DEF Misfiled
    <3> QED
      BY <1>3, <3>1, <3>3 DEF Handled
  <2> QED
    BY <2>1, <2>2
<1> QED
  BY <1>2, <1>3, <1>6, <1>7 DEF ItemEffect

\* A delete event that finds its record.
LEMMA DeleteEffect ==
  ASSUME Places, Recorded, NEW item \in Change, item.kind = "delete", item.new = {},
         DeleteMessage(item.msg),
         excused' = excused \cup {<<l, item.msg, "misfiled">> : l \in Misfiled(item, "none")}
  PROVE  ItemEffect(item)
<1> DEFINE m == item.msg
<1>1. m \in Msgs /\ m \in DOMAIN record
  BY DEF Change, DeleteMessage
<1>2. IInv'
  BY <1>1, NextStep DEF Next, Places
<1>3. \A l \in Labels : \A x : Holds(content'[l], x) <=>
        Holds(content[l], x) /\ ~(x = m /\ l \in record[m])
  BY <1>1, HoldsDeleted DEF Places
<1>4. \A l, x : Excused(l, x) => Excused(l, x)'
  BY DEF Excused
<1>5. ASSUME NEW l \in Labels, ~Excused(l, m)' PROVE ~Holds(content'[l], m)
  <2>1. l \notin Misfiled(item, "none")
    <3>1. l \in Misfiled(item, "none") => <<l, m, "misfiled">> \in excused'
      OBVIOUS
    <3> QED
      BY <1>5, <3>1, ExcusedBy
  <2>2. Holds(content[l], m) => l \in record[m]
    BY <1>1, <2>1 DEF Misfiled
  <2> QED
    BY <1>3, <2>2
<1>6. DOMAIN record' = DOMAIN record \ {m}
  BY DEF DeleteMessage
<1>7. Recorded'
  BY <1>3, <1>4, <1>5, <1>6 DEF Recorded
<1> QED
  BY <1>2, <1>3, <1>5, <1>7 DEF ItemEffect, Handled

\* An update or delete event without a record.
LEMMA UnrecordedEffect ==
  ASSUME Places, Recorded, NEW item \in Change, item.msg \notin DOMAIN record,
         UNCHANGED storeVars,
         \A l \in Labels, m \in Msgs : Excused(l, m) => Excused(l, m)',
         \A l \in item.new : Excused(l, item.msg)'
  PROVE  ItemEffect(item)
<1>1. item.msg \in Msgs
  BY DEF Change
<1>2. IInv' /\ Recorded' /\ content' = content
  BY StoreKept, RecordedKept DEF Places, storeVars
<1>3. ASSUME NEW l \in Labels, ~Excused(l, item.msg)' PROVE ~Holds(content'[l], item.msg)
  BY <1>1, <1>2, <1>3 DEF Recorded
<1> QED
  BY <1>2, <1>3 DEF ItemEffect, Handled

\* Whatever the item is, and whichever form it comes in.
LEMMA ItemApplied ==
  ASSUME Places, Recorded, ApplyItem, NEW item, item = Head(todo)
  PROVE  /\ ItemEffect(item)
         /\ \A l \in Labels, m \in Msgs : Excused(l, m) => Excused(l, m)'
<1>1. /\ item \in Change /\ Applied + 1 \in 1 .. Len(log) /\ item = log[Applied + 1]
      /\ item.kind = "create" => item.old = {}
      /\ item.kind = "delete" => item.new = {}
  BY NextItem DEF Places, AccountLogged
<1>2. \/ item.kind = "create" /\ CreateMessage(item.msg, item.new) /\ UNCHANGED excused
      \/ /\ item.kind = "update"
         /\ \E form \in EventForms :
              /\ UpdateMessage(item.msg, LabelUpdate(item, form))
              /\ excused' = excused \cup
                   {<<l, item.msg, "misfiled">> : l \in Misfiled(item, form)}
      \/ /\ item.kind = "update" /\ item.msg \notin DOMAIN record /\ UNCHANGED storeVars
         /\ excused' = excused \cup {<<l, item.msg, "dropped">> : l \in item.new}
      \/ /\ item.kind = "delete" /\ DeleteMessage(item.msg)
         /\ excused' = excused \cup
              {<<l, item.msg, "misfiled">> : l \in Misfiled(item, "none")}
      \/ /\ item.kind = "delete" /\ item.msg \notin DOMAIN record
         /\ UNCHANGED <<storeVars, excused>>
  BY DEF ApplyItem
<1>3. excused \subseteq excused'
  BY <1>2
<1>4. \A l \in Labels, m \in Msgs : Excused(l, m) => Excused(l, m)'
  BY <1>3 DEF Excused
<1>5. ItemEffect(item)
  <2>1. CASE item.kind = "create" /\ CreateMessage(item.msg, item.new) /\ UNCHANGED excused
    BY <1>1, <2>1, CreateEffect
  <2>2. ASSUME item.kind = "update", NEW form \in EventForms,
               UpdateMessage(item.msg, LabelUpdate(item, form)),
               excused' = excused \cup
                 {<<l, item.msg, "misfiled">> : l \in Misfiled(item, form)}
        PROVE  ItemEffect(item)
    BY <1>1, <2>2, UpdateEffect
  <2>3. CASE /\ item.kind = "update" /\ item.msg \notin DOMAIN record /\ UNCHANGED storeVars
             /\ excused' = excused \cup {<<l, item.msg, "dropped">> : l \in item.new}
    <3>1. \A l \in item.new : <<l, item.msg, "dropped">> \in excused'
      BY <2>3
    <3>2. \A l \in item.new : Excused(l, item.msg)'
      BY <3>1, ExcusedBy
    <3> QED
      BY <1>1, <1>4, <2>3, <3>2, UnrecordedEffect
  <2>4. CASE /\ item.kind = "delete" /\ DeleteMessage(item.msg)
             /\ excused' = excused \cup
                  {<<l, item.msg, "misfiled">> : l \in Misfiled(item, "none")}
    BY <1>1, <2>4, DeleteEffect
  <2>5. CASE /\ item.kind = "delete" /\ item.msg \notin DOMAIN record
             /\ UNCHANGED <<storeVars, excused>>
    BY <1>1, <1>4, <2>5, UnrecordedEffect
  <2> QED
    BY <1>2, <2>1, <2>2, <2>3, <2>4, <2>5
<1> QED
  BY <1>4, <1>5

\* Applying an item leaves everything in its place.
LEMMA ApplyItemPlaces == Places /\ Recorded /\ ApplyItem => Places'
<1> SUFFICES ASSUME Places, Recorded, ApplyItem PROVE Places'
  OBVIOUS
<1>1. IInv'
  <2>1. PICK item : item = Head(todo)
    OBVIOUS
  <2> QED
    BY <2>1, ItemApplied DEF ItemEffect
<1>2. UNCHANGED <<serverVars, cursor, errors, refresh, handed, renewals, objects, mbox, log>>
  BY DEF ApplyItem, serverVars
<1>3. AccountLogged' /\ RefreshPlaced'
  BY <1>2, AccountKept DEF Places, RefreshPlaced
<1>4. StreamPlaced'
  BY <1>2, NextItem DEF Places, StreamPlaced
<1>5. BoxesPlaced'
  <2> DEFINE f == [l \in Labels |-> [filled[l] EXCEPT !.since = Least(@, Applied + 1)]]
  <2>1. Applied + 1 \in Nat
    BY NextItem
  <2>2. \A l \in Labels : /\ filled[l] \in [by : 0 .. MaxRenewals, since : Nat]
                          /\ filled[l].since <= Len(log)
    BY DEF Places, BoxesPlaced
  <2>3. \A l \in Labels : /\ f[l] \in [by : 0 .. MaxRenewals, since : Nat]
                          /\ f[l].since <= filled[l].since
    BY <2>1, <2>2 DEF Least
  <2>4. Len(log) \in Nat
    BY NextItem
  <2>5. /\ f \in [Labels -> [by : 0 .. MaxRenewals, since : Nat]]
        /\ \A l \in Labels : f[l].since <= Len(log)
    BY <2>2, <2>3, <2>4
  <2>6. filled' = f
    BY DEF ApplyItem
  <2> HIDE DEF f
  <2>7. \A l : \A b : Answered(l, b)' <=> Answered(l, b)
    BY <1>2, ListedKept DEF Answered
  <2>8. ASSUME NEW l \in Labels, NEW g \in 1 .. MaxRenewals, mbox[l][g].state = "storing"
        PROVE  Answered(l, mbox[l][g])'
    <3>1. PICK b : b = mbox[l][g]
      OBVIOUS
    <3>2. Answered(l, b)'
      BY <2>7, <2>8, <3>1 DEF Places, BoxesPlaced
    <3> QED
      BY <1>2, <3>1, <3>2 DEF Answered
  <2> QED
    BY <1>2, <2>5, <2>6, <2>8 DEF Places, BoxesPlaced
<1> QED
  BY <1>1, <1>3, <1>4, <1>5 DEF Places

\* The item was coming, and with it its message is set right; its changes are all
\* that may still come.
LEMMA ApplyItemStep == SyncInv /\ ApplyItem => SyncInv'
<1> SUFFICES ASSUME SyncInv, ApplyItem PROVE SyncInv'
  OBVIOUS
<1> DEFINE i == Applied + 1
<1>0. PICK item : item = Head(todo)
  OBVIOUS
<1>1. Places /\ Recorded /\ Places' /\ Recorded' /\ ItemEffect(item)
  BY <1>0, ApplyItemPlaces, ItemApplied DEF SyncInv, ItemEffect
<1>2. /\ item = log[i] /\ item \in Change
      /\ Applied \in Nat /\ Applied' = i /\ i <= handed /\ handed \in Nat
      /\ i \in 1 .. Len(log) /\ Len(log) \in Nat
  BY <1>0, <1>1, NextItem
<1>3. \A l \in Labels, m \in Msgs : Excused(l, m) => Excused(l, m)'
  BY <1>0, <1>1, ItemApplied
<1>4. /\ UNCHANGED <<serverVars, log, handed, refresh, objects, mbox>>
      /\ filled' = [l \in Labels |-> [filled[l] EXCEPT !.since = Least(@, i)]]
  BY DEF ApplyItem, serverVars
<1>5. Agreement'
  <2> SUFFICES ASSUME NEW l \in Labels \ refresh'.left, NEW m \in Msgs, InUse(l)' # {},
                      ~Excused(l, m)'
               PROVE  Agrees(l, m)'
    BY DEF Agreement
  <2>1. Agrees(l, m)
    BY <1>3, <1>4 DEF SyncInv, Agreement, InUse, Objects
  <2>2. /\ filled'[l].by = filled[l].by /\ filled[l].since \in Nat
        /\ filled'[l].since \in Nat /\ filled'[l].since <= i
        /\ filled'[l].since <= filled[l].since
    <3>1. filled[l] \in [by : 0 .. MaxRenewals, since : Nat]
      BY <1>1 DEF Places, BoxesPlaced
    <3> QED
      BY <1>2, <1>4, <3>1 DEF Least
  <2>3. NoneComing(l, m)' => Quiet(l, m, i)
    <3> SUFFICES ASSUME NoneComing(l, m)', NEW j \in i + 1 .. Len(log) PROVE ~Moves(l, m, j)
      BY DEF Quiet
    <3>1. j > filled'[l].since
      BY <1>2, <2>2
    <3>2. ~Moves(l, m, j)'
      BY <1>2, <1>4, <3>1 DEF NoneComing
    <3> QED
      BY <1>4, <3>2 DEF Moves
  <2>4. NoneComing(l, m)' /\ ~Moves(l, m, i) => NoneComing(l, m)
    <3>1. \A j \in i .. Len(log) : j = i \/ j \in i + 1 .. Len(log)
      BY <1>2
    <3> QED
      BY <2>3, <3>1 DEF Quiet, NoneComing
  <2>5. CASE m # item.msg
    <3>1. Holds(content'[l], m) <=> Holds(content[l], m)
      BY <1>1, <2>5 DEF ItemEffect
    <3>2. ~Moves(l, m, i)
      BY <1>2, <2>5 DEF Moves
    <3> QED
      BY <1>4, <2>1, <2>2, <2>4, <3>1, <3>2, AgreesKept
  <2>6. CASE m = item.msg /\ (Holds(content'[l], m) <=> l \in item.new)
    <3>1. m \in ListedAt(l, i) <=> l \in item.new
      BY <1>1, <1>2, <2>6, ListedByChange DEF Places
    <3>2. NoneComing(l, m)' => (m \in InLabel(l) <=> l \in item.new)
      BY <1>1, <1>2, <2>3, <3>1, QuietSince DEF Places
    <3>3. InLabel(l)' = InLabel(l)
      BY <1>4, ListedKept
    <3>4. filled'[l].by \in InUse(l)'
      BY <1>4, <2>1, <2>2 DEF Agrees, InUse, Objects
    <3> QED
      BY <2>6, <3>2, <3>3, <3>4 DEF Agrees
  <2>7. CASE /\ m = item.msg
             /\ l \in item.old <=> l \in item.new
             /\ Holds(content'[l], m) <=> Holds(content[l], m)
    <3>1. ~Moves(l, m, i)
      BY <1>2, <2>7 DEF Moves
    <3> QED
      BY <1>4, <2>1, <2>2, <2>4, <2>7, <3>1, AgreesKept
  <2>8. m = item.msg => Handled(l, item)
    BY <1>1 DEF ItemEffect
  <2> QED
    BY <2>5, <2>6, <2>7, <2>8 DEF Handled
<1> QED
  BY <1>1, <1>5 DEF SyncInv

-----------------------------------------------------------------------------
(* Steps of a refresh.                                                      *)

\* An object that has not been used is one.
LEMMA ClosedIsBox == Closed \in Box
<1>1. Empty \in [{} -> SUBSET Labels]
  BY DEF Empty
<1>2. Empty \in Pages
  BY <1>1 DEF Pages
<1> QED
  BY <1>2 DEF Closed, Box

\* What objects are there is a matter of types.
LEMMA ObjectTypes ==
  ASSUME Places
  PROVE  /\ objects \in 1 .. MaxRenewals /\ Objects \subseteq 1 .. MaxRenewals
         /\ \A l \in Labels : /\ InUse(l) \subseteq 1 .. MaxRenewals
                              /\ mbox[l] \in [1 .. MaxRenewals -> Box]
                              /\ filled[l] \in [by : 0 .. MaxRenewals, since : Nat]
BY MailSyncAssumption DEF Places, RefreshPlaced, BoxesPlaced, Objects, InUse

\* One object of l becomes b: what is placed stays placed.
LEMMA BoxesPlacedWith ==
  ASSUME Places, NEW l \in Labels, NEW g \in 1 .. MaxRenewals, NEW b \in Box,
         UNCHANGED <<serverVars, objects>>,
         mbox' = [mbox EXCEPT ![l] = [mbox[l] EXCEPT ![g] = b]],
         b.state = "storing" => Answered(l, b),
         g > objects => b.state = "closed",
         \A k \in Labels \ {l} : filled'[k] = filled[k],
         filled' \in [Labels -> [by : 0 .. MaxRenewals, since : Nat]],
         filled'[l].since <= Len(log)
  PROVE  /\ BoxesPlaced'
         /\ mbox'[l][g] = b
         /\ \A h \in 1 .. MaxRenewals \ {g} : mbox'[l][h] = mbox[l][h]
         /\ \A k \in Labels \ {l} : mbox'[k] = mbox[k]
<1>1. mbox \in [Labels -> [1 .. MaxRenewals -> Box]]
  BY DEF Places, BoxesPlaced
<1>2. /\ mbox' \in [Labels -> [1 .. MaxRenewals -> Box]]
      /\ mbox'[l][g] = b
      /\ \A h \in 1 .. MaxRenewals \ {g} : mbox'[l][h] = mbox[l][h]
      /\ \A k \in Labels \ {l} : mbox'[k] = mbox[k]
  BY <1>1
<1>3. UNCHANGED log
  BY DEF serverVars
<1>4. \A x : \A y : Answered(x, y)' <=> Answered(x, y)
  BY <1>3, ListedKept DEF Answered
<1>5. ASSUME NEW k \in Labels, NEW h \in 1 .. MaxRenewals
      PROVE  /\ mbox'[k][h].state = "storing" => Answered(k, mbox[k][h])'
             /\ h > objects => mbox'[k][h].state = "closed"
  <2>1. PICK c : c = mbox'[k][h]
    OBVIOUS
  <2>2. c = (IF k = l /\ h = g THEN b ELSE mbox[k][h])
    BY <1>2, <2>1
  <2>3. /\ c.state = "storing" => Answered(k, c)
        /\ h > objects => c.state = "closed"
    <3>1. CASE k = l /\ h = g
      BY <2>2, <3>1
    <3>2. CASE ~(k = l /\ h = g)
      BY <2>2, <3>2 DEF Places, BoxesPlaced
    <3> QED
      BY <3>1, <3>2
  <2>4. c.state = "storing" => Answered(k, c)'
    BY <1>4, <2>3
  <2> QED
    BY <2>1, <2>3, <2>4 DEF Answered
<1>6. \A k \in Labels : filled'[k].since <= Len(log)
  BY DEF Places, BoxesPlaced
<1> QED
  BY <1>2, <1>3, <1>5, <1>6 DEF BoxesPlaced

\* The bucket and the object in the map are reset; whoever else uses the mailbox
\* is excused.
LEMMA ResetBoxStep ==
  ASSUME SyncInv, NEW l \in Labels, ResetBox(l)
  PROVE  SyncInv'
<1>1. /\ Reset(l) /\ refresh.stage = "boxes" /\ l \in refresh.left
      /\ mbox' = [mbox EXCEPT ![l][objects] = Closed]
      /\ filled' = [filled EXCEPT ![l] = Unfilled]
      /\ excused' = excused \cup Emptied(l, objects)
      /\ UNCHANGED <<serverVars, cursor, errors, todo, handed, renewals, objects>>
  BY DEF ResetBox
<1>2. Places /\ objects \in 1 .. MaxRenewals /\ log' = log
  BY <1>1, ObjectTypes DEF SyncInv, serverVars
<1>3. IInv' /\ AccountLogged'
  BY <1>1, NextStep, AccountKept DEF Next, SyncInv, Places
<1>4. StreamPlaced'
  BY <1>1, <1>2 DEF Places, StreamPlaced, Applied
<1>5. refresh'.left = refresh.left \ {l} /\ RefreshPlaced'
  <2>1. refresh' = [stage |-> IF refresh.left = {l} THEN "records" ELSE "boxes",
                    left |-> refresh.left \ {l}]
    BY DEF ResetBox
  <2> QED
    BY <1>1, <1>2, <2>1 DEF Places, RefreshPlaced
<1>6. /\ BoxesPlaced'
      /\ mbox'[l][objects] = Closed
      /\ \A h \in 1 .. MaxRenewals \ {objects} : mbox'[l][h] = mbox[l][h]
      /\ \A k \in Labels \ {l} : mbox'[k] = mbox[k]
  <2>1. filled \in [Labels -> [by : 0 .. MaxRenewals, since : Nat]] /\ Len(log) \in Nat
    BY <1>2, LenProperties DEF Places, BoxesPlaced, AccountLogged
  <2>2. Unfilled \in [by : 0 .. MaxRenewals, since : Nat] /\ Unfilled.since <= Len(log)
    BY <2>1, MailSyncAssumption DEF Unfilled
  <2>3. /\ filled' \in [Labels -> [by : 0 .. MaxRenewals, since : Nat]]
        /\ filled'[l].since <= Len(log)
        /\ \A k \in Labels \ {l} : filled'[k] = filled[k]
    BY <1>1, <2>1, <2>2
  <2>4. mbox' = [mbox EXCEPT ![l] = [mbox[l] EXCEPT ![objects] = Closed]]
    BY <1>1
  <2>5. Closed.state = "closed"
    BY DEF Closed
  <2>6. PICK g : g = objects
    OBVIOUS
  <2>7. PICK b : b = Closed
    OBVIOUS
  <2>8. /\ g \in 1 .. MaxRenewals /\ ~(g > objects) /\ b \in Box
        /\ mbox' = [mbox EXCEPT ![l] = [mbox[l] EXCEPT ![g] = b]]
    BY <1>2, <2>4, <2>6, <2>7, ClosedIsBox, MailSyncAssumption
  <2>9. /\ BoxesPlaced'
        /\ mbox'[l][g] = b
        /\ \A h \in 1 .. MaxRenewals \ {g} : mbox'[l][h] = mbox[l][h]
        /\ \A k \in Labels \ {l} : mbox'[k] = mbox[k]
    <3>1. UNCHANGED <<serverVars, objects>> /\ Places
      BY <1>1, <1>2
    <3>2. (b.state = "storing" => Answered(l, b)) /\ (g > objects => b.state = "closed")
      BY <2>5, <2>7, <2>8
    <3> QED
      BY <2>3, <2>8, <3>1, <3>2, BoxesPlacedWith
  <2> QED
    BY <2>6, <2>7, <2>9
<1>7. \A k, m : Excused(k, m) => Excused(k, m)'
  BY <1>1 DEF Excused
<1>8. /\ record' = record
      /\ \A k \in Labels \ {l} : content'[k] = content[k]
      /\ \A m : ~Holds(content'[l], m)
  <2>1. DOMAIN content = Labels
    BY <1>2, IInvRegrouped DEF Places, Buckets
  <2>2. content' = [content EXCEPT ![l] = Empty] /\ record' = record
    BY <1>1 DEF Reset
  <2>3. content'[l] = Empty /\ \A k \in Labels \ {l} : content'[k] = content[k]
    BY <2>1, <2>2
  <2>4. \A m : ~Holds(Empty, m)
    BY DEF Holds, Empty
  <2> QED
    BY <2>2, <2>3, <2>4
<1>9. Recorded'
  BY <1>7, <1>8 DEF SyncInv, Recorded
<1>10. Agreement'
  <2> SUFFICES ASSUME NEW k \in Labels \ refresh'.left, NEW m \in Msgs, InUse(k)' # {},
                      ~Excused(k, m)'
               PROVE  Agrees(k, m)'
    BY DEF Agreement
  <2>1. CASE k # l
    <3>1. mbox'[k] = mbox[k] /\ filled'[k] = filled[k] /\ content'[k] = content[k]
      BY <1>1, <1>6, <1>8, <2>1
    <3>2. Agrees(k, m)
      BY <1>1, <1>5, <1>7, <2>1, <3>1 DEF SyncInv, Agreement, InUse, Objects
    <3>3. NoneComing(k, m)' => NoneComing(k, m)
      BY <1>1, <1>2, <3>1 DEF NoneComing, Moves, Applied
    <3> QED
      BY <1>1, <3>1, <3>2, <3>3, AgreesKept
  <2>2. CASE k = l
    <3>1. PICK g \in Objects : mbox'[l][g].state \notin {"closed", "absent"}
      BY <1>1, <2>2 DEF InUse, Objects
    <3>2. g # objects
      BY <1>6, <3>1 DEF Closed
    <3>3. g \in InUse(l) \ {objects}
      BY <1>2, <1>6, <3>1, <3>2, ObjectTypes DEF InUse
    <3>4. <<l, m, "emptied">> \in excused'
      BY <1>1, <3>3 DEF Emptied
    <3> QED
      BY <2>2, <3>4, ExcusedBy
  <2> QED
    BY <2>1, <2>2
<1> QED
  BY <1>3, <1>4, <1>5, <1>6, <1>9, <1>10 DEF SyncInv, Places

\* The records go, and the entries that lose theirs are excused.
LEMMA ResetRecordsStep == SyncInv /\ ResetRecords => SyncInv'
<1> SUFFICES ASSUME SyncInv, ResetRecords PROVE SyncInv'
  OBVIOUS
<1> DEFINE Held(l) == {x \in Msgs : Holds(content[l], x)}
           Lost(l) == {<<l, m, "unrecorded">> : m \in Held(l)}
<1>1. /\ UNCHANGED <<serverVars, cursor, errors, todo, handed, renewals, boxVars>>
      /\ refresh.stage = "records"
      /\ refresh' = [refresh EXCEPT !.stage = "map"]
      /\ excused' = excused \cup UNION {Lost(l) : l \in Labels}
      /\ ResetMessages \/ UNCHANGED storeVars
  BY Zenon DEF ResetRecords
<1>2. /\ UNCHANGED <<log, mbox, filled, objects>>
      /\ content' = content
  BY <1>1 DEF serverVars, boxVars, ResetMessages, storeVars
<1>3. IInv' /\ AccountLogged' /\ BoxesPlaced'
  BY <1>1, NextStep, StoreKept, AccountKept, BoxesKept DEF Next, SyncInv, Places
<1>4. StreamPlaced'
  BY <1>1, <1>2 DEF SyncInv, Places, StreamPlaced, Applied
<1>5. RefreshPlaced' /\ refresh'.left = refresh.left
  BY <1>1, <1>2 DEF SyncInv, Places, RefreshPlaced
<1>6. \A l, m : Excused(l, m) => Excused(l, m)'
  BY <1>1 DEF Excused
<1>7. ASSUME NEW l \in Labels, NEW m \in Msgs, Holds(content'[l], m)
      PROVE  Excused(l, m)'
  <2>1. <<l, m, "unrecorded">> \in Lost(l)
    BY <1>2, <1>7
  <2> HIDE DEF Lost
  <2>2. <<l, m, "unrecorded">> \in excused'
    BY <1>1, <2>1
  <2> QED
    BY <2>2, ExcusedBy
<1>8. Recorded'
  BY <1>7 DEF Recorded
<1>9. Agreement'
  <2> SUFFICES ASSUME NEW l \in Labels \ refresh'.left, NEW m \in Msgs, InUse(l)' # {},
                      ~Excused(l, m)'
               PROVE  Agrees(l, m)'
    BY DEF Agreement
  <2>1. Agrees(l, m)
    BY <1>2, <1>5, <1>6 DEF SyncInv, Agreement, InUse, Objects
  <2>2. NoneComing(l, m)' => NoneComing(l, m)
    BY <1>1, <1>2 DEF NoneComing, Moves, Applied
  <2> QED
    BY <1>1, <1>2, <2>1, <2>2, AgreesKept
<1> QED
  BY <1>3, <1>4, <1>5, <1>8, <1>9 DEF SyncInv, Places

\* The map gets new objects, or lacks some; those in use stay in use.
LEMMA RenewBoxesStep == SyncInv /\ RenewBoxes => SyncInv'
<1> SUFFICES ASSUME SyncInv, RenewBoxes PROVE SyncInv'
  OBVIOUS
<1>1. /\ UNCHANGED <<storeVars, serverVars, cursor, errors, todo, handed, renewals, filled,
                     excused>>
      /\ refresh.stage = "map" /\ refresh' = NoRefresh /\ objects' = objects + 1
  BY DEF RenewBoxes
<1>2. UNCHANGED <<log, content, record>> /\ Places
  BY <1>1 DEF serverVars, storeVars, SyncInv
<1>3. IInv' /\ AccountLogged'
  BY <1>1, <1>2, StoreKept, AccountKept DEF Places
<1>4. StreamPlaced'
  BY <1>1, <1>2 DEF Places, StreamPlaced, Applied
<1>5. RefreshPlaced' /\ refresh.left = {} /\ refresh'.left = {}
  BY <1>1, <1>2, MailSyncAssumption DEF Places, RefreshPlaced, NoRefresh
<1>6. objects \in Nat /\ objects + 1 <= MaxRenewals /\ MaxRenewals \in Nat
  BY <1>1, <1>2, MailSyncAssumption DEF Places, RefreshPlaced
<1>7. PICK made \in SUBSET Labels :
        mbox' = [l \in Labels |-> [mbox[l] EXCEPT ![objects + 1].state =
                   IF l \in made THEN "closed" ELSE "absent"]]
  BY DEF RenewBoxes
<1>8. ASSUME NEW l \in Labels
      PROVE  /\ mbox'[l] \in [1 .. MaxRenewals -> Box]
             /\ mbox'[l][objects + 1].state \in {"closed", "absent"}
             /\ \A g \in 1 .. MaxRenewals : g # objects + 1 => mbox'[l][g] = mbox[l][g]
  <2>1. PICK st \in {"closed", "absent"} : mbox'[l] = [mbox[l] EXCEPT ![objects + 1].state = st]
    BY <1>7
  <2>2. mbox[l] \in [1 .. MaxRenewals -> Box] /\ objects + 1 \in 1 .. MaxRenewals
    BY <1>2, <1>6 DEF Places, BoxesPlaced
  <2>3. [mbox[l][objects + 1] EXCEPT !.state = st] \in Box
    BY <2>2 DEF Box
  <2>4. mbox'[l] = [mbox[l] EXCEPT ![objects + 1] = [mbox[l][objects + 1] EXCEPT !.state = st]]
    BY <2>1
  <2>5. [mbox[l][objects + 1] EXCEPT !.state = st].state = st
    BY <2>2 DEF Box
  <2>6. PICK b \in Box : b = [mbox[l][objects + 1] EXCEPT !.state = st]
    BY <2>3
  <2>7. mbox'[l] = [mbox[l] EXCEPT ![objects + 1] = b] /\ b.state = st
    BY <2>4, <2>5, <2>6
  <2> QED
    BY <2>2, <2>7
<1>9. BoxesPlaced'
  <2>1. \A l : \A b : Answered(l, b)' <=> Answered(l, b)
    BY <1>1, <1>2, ListedKept DEF Answered
  <2>2. ASSUME NEW l \in Labels, NEW g \in 1 .. MaxRenewals
        PROVE  /\ (mbox[l][g].state = "storing" => Answered(l, mbox[l][g]))'
               /\ (g > objects => mbox[l][g].state = "closed")'
    <3>1. CASE g = objects + 1
      BY <1>1, <1>6, <1>8, <3>1
    <3>2. CASE g # objects + 1
      <4>1. PICK b : b = mbox[l][g] /\ b = mbox'[l][g]
        BY <1>8, <3>2
      <4>2. b.state = "storing" => Answered(l, b)'
        BY <1>2, <2>1, <4>1 DEF Places, BoxesPlaced
      <4>3. (mbox[l][g].state = "storing" => Answered(l, mbox[l][g]))'
        BY <4>1, <4>2 DEF Answered
      <4>4. g > objects' => b.state = "closed"
        <5>1. g > objects' => g > objects
          BY <1>1, <1>6
        <5> QED
          BY <1>2, <4>1, <5>1 DEF Places, BoxesPlaced
      <4> QED
        BY <4>1, <4>3, <4>4
    <3> QED
      BY <3>1, <3>2
  <2>3. mbox' \in [Labels -> [1 .. MaxRenewals -> Box]]
    BY <1>7, <1>8
  <2>4. /\ filled' \in [Labels -> [by : 0 .. MaxRenewals, since : Nat]]
        /\ \A l \in Labels : filled'[l].since <= Len(log')
    BY <1>1, <1>2 DEF Places, BoxesPlaced
  <2> QED
    BY <2>2, <2>3, <2>4 DEF BoxesPlaced
<1>10. ASSUME NEW l \in Labels
       PROVE  InUse(l)' = InUse(l) /\ \A g \in InUse(l) : mbox'[l][g] = mbox[l][g]
  <2>1. \A g : g \in Objects' <=> g \in Objects \/ g = objects + 1
    BY <1>1, <1>6 DEF Objects
  <2>2. \A g \in Objects : g \in 1 .. MaxRenewals /\ g # objects + 1
    BY <1>6 DEF Objects
  <2> QED
    BY <1>8, <2>1, <2>2 DEF InUse
<1>11. Recorded'
  BY <1>1, <1>2, RecordedKept DEF SyncInv, Excused
<1>12. Agreement'
  <2> SUFFICES ASSUME NEW l \in Labels, NEW m \in Msgs, InUse(l)' # {}, ~Excused(l, m)'
               PROVE  Agrees(l, m)'
    BY DEF Agreement
  <2>1. Agrees(l, m)
    BY <1>1, <1>5, <1>10 DEF SyncInv, Agreement, Excused
  <2>2. NoneComing(l, m)' => NoneComing(l, m)
    BY <1>1, <1>2 DEF NoneComing, Moves, Applied
  <2>3. filled[l].by \in InUse(l)' /\ mbox'[l][filled[l].by] = mbox[l][filled[l].by]
    BY <1>10, <2>1 DEF Agrees
  <2> QED
    BY <1>1, <1>2, <2>1, <2>2, <2>3, AgreesStill
<1> QED
  BY <1>3, <1>4, <1>5, <1>9, <1>11, <1>12 DEF SyncInv, Places

-----------------------------------------------------------------------------
(* Steps of a listing.                                                      *)

\* A change of the account, all together.
LEMMA ServerStepKeeps == SyncInv /\ ServerStep => SyncInv'
<1> SUFFICES ASSUME SyncInv, ServerStep PROVE SyncInv'
  OBVIOUS
<1>1. UNCHANGED <<content, record, excused>>
  BY DEF ServerStep, storeVars
<1>2. Recorded'
  BY <1>1, RecordedKept DEF SyncInv, Excused
<1> QED
  BY <1>2, ServerPlaces, ServerAgrees DEF SyncInv

\* What a step does to one mailbox does not matter to the others.
LEMMA ElsewhereAgrees ==
  ASSUME SyncInv, NEW l \in Labels, NEW k \in Labels \ {l}, NEW m \in Msgs,
         UNCHANGED <<serverVars, streamVars, objects>>,
         mbox'[k] = mbox[k], filled'[k] = filled[k],
         Holds(content'[k], m) <=> Holds(content[k], m),
         Excused(k, m) => Excused(k, m)',
         k \notin refresh.left, InUse(k)' # {}, ~Excused(k, m)'
  PROVE  Agrees(k, m)'
<1>1. Agrees(k, m)
  BY DEF SyncInv, Agreement, InUse, Objects
<1>2. NoneComing(k, m)' => NoneComing(k, m)
  BY DEF NoneComing, Moves, Applied, serverVars, streamVars
<1> QED
  BY <1>1, <1>2, AgreesKept

\* The stream and the refresh stay where they are.
LEMMA StreamKept ==
  ASSUME Places, UNCHANGED <<serverVars, streamVars, renewals, objects>>
  PROVE  AccountLogged' /\ StreamPlaced' /\ RefreshPlaced'
<1>1. UNCHANGED <<log, cursor, errors, todo, refresh, handed>>
  BY DEF serverVars, streamVars
<1> QED
  BY <1>1, AccountKept DEF Places, StreamPlaced, RefreshPlaced, Applied

\* The first use of an object starts from an empty bucket, and with it all
\* excuses end.
LEMMA OpenStep ==
  ASSUME SyncInv, NEW l \in Labels, NEW g \in Objects, Open(l, g)
  PROVE  SyncInv'
<1>1. /\ Reset(l) /\ mbox[l][g].state = "closed"
      /\ mbox' = [mbox EXCEPT ![l][g].state = "asking"]
      /\ filled' = [filled EXCEPT ![l] = [by |-> g, since |-> Len(log)]]
      /\ excused' = {e \in excused : e[1] # l}
      /\ UNCHANGED <<serverVars, streamVars, renewals, objects>>
  BY DEF Open
<1>2. Places /\ g \in 1 .. MaxRenewals /\ g \in Nat /\ Len(log) \in Nat
  BY ObjectTypes, LenProperties DEF SyncInv, Places, AccountLogged
<1>3. IInv' /\ AccountLogged' /\ StreamPlaced' /\ RefreshPlaced'
  BY <1>1, <1>2, NextStep, StreamKept DEF Next, Places
<1>4. PICK b : b = [mbox[l][g] EXCEPT !.state = "asking"]
  OBVIOUS
<1>5. b \in Box /\ b.state = "asking"
  <2>1. mbox[l][g] \in Box
    BY <1>2, ObjectTypes
  <2> QED
    BY <1>4, <2>1 DEF Box
<1>6. /\ filled' \in [Labels -> [by : 0 .. MaxRenewals, since : Nat]]
      /\ filled'[l] = [by |-> g, since |-> Len(log)]
      /\ \A k \in Labels \ {l} : filled'[k] = filled[k]
  <2>1. filled \in [Labels -> [by : 0 .. MaxRenewals, since : Nat]]
    BY <1>2 DEF Places, BoxesPlaced
  <2>2. [by |-> g, since |-> Len(log)] \in [by : 0 .. MaxRenewals, since : Nat]
    BY <1>2, MailSyncAssumption
  <2> QED
    BY <1>1, <2>1, <2>2
<1>7. /\ BoxesPlaced'
      /\ mbox'[l][g] = b
      /\ \A k \in Labels \ {l} : mbox'[k] = mbox[k]
  <2>1. mbox' = [mbox EXCEPT ![l] = [mbox[l] EXCEPT ![g] = b]]
    BY <1>1, <1>4
  <2>2. UNCHANGED <<serverVars, objects>> /\ filled'[l].since <= Len(log)
    BY <1>1, <1>2, <1>6
  <2>3. ~(g > objects)
    BY <1>2, MailSyncAssumption DEF Objects, Places, RefreshPlaced
  <2>4. (b.state = "storing" => Answered(l, b)) /\ (g > objects => b.state = "closed")
    BY <1>5, <2>3
  <2> QED
    BY <1>2, <1>5, <1>6, <2>1, <2>2, <2>4, BoxesPlacedWith
<1>8. \A k \in Labels \ {l} : \A m : Excused(k, m)' <=> Excused(k, m)
  BY <1>1 DEF Excused
<1>9. /\ record' = record
      /\ \A k \in Labels \ {l} : content'[k] = content[k]
      /\ \A m : ~Holds(content'[l], m)
  <2>1. DOMAIN content = Labels
    BY <1>2, IInvRegrouped DEF Places, Buckets
  <2>2. content' = [content EXCEPT ![l] = Empty] /\ record' = record
    BY <1>1 DEF Reset
  <2>3. content'[l] = Empty /\ \A k \in Labels \ {l} : content'[k] = content[k]
    BY <2>1, <2>2
  <2>4. \A m : ~Holds(Empty, m)
    BY DEF Holds, Empty
  <2> QED
    BY <2>2, <2>3, <2>4
<1>10. Recorded'
  BY <1>8, <1>9 DEF SyncInv, Recorded
<1>11. Agreement'
  <2> SUFFICES ASSUME NEW k \in Labels \ refresh'.left, NEW m \in Msgs, InUse(k)' # {},
                      ~Excused(k, m)'
               PROVE  Agrees(k, m)'
    BY DEF Agreement
  <2>1. CASE k # l
    <3>1. refresh' = refresh
      BY <1>1 DEF streamVars
    <3> QED
      BY <1>1, <1>6, <1>7, <1>8, <1>9, <2>1, <3>1, ElsewhereAgrees
  <2>2. CASE k = l
    <3>1. filled'[l].by \in InUse(l)' /\ mbox'[l][filled'[l].by] = b
      BY <1>1, <1>5, <1>6, <1>7 DEF InUse, Objects
    <3>2. Unlisted(l, b, m)'
      BY <1>5 DEF Unlisted
    <3>3. Unlisted(l, mbox[l][filled[l].by], m)'
      BY <3>1, <3>2 DEF Unlisted
    <3> QED
      BY <1>9, <2>2, <3>1, <3>3 DEF Agrees
  <2> QED
    BY <2>1, <2>2
<1> QED
  BY <1>3, <1>7, <1>10, <1>11 DEF SyncInv, Places

\* An answer lists what the account has now, from the offset on; messages that
\* have slipped below it are excused.
LEMMA AskPageStep ==
  ASSUME SyncInv, NEW l \in Labels, NEW g \in Objects, AskPage(l, g)
  PROVE  SyncInv'
<1> DEFINE S == InLabel(l)
           o == mbox[l][g].offset
           page == [m \in Slice(S, o, PageSize) |-> server[m]]
<1>1. /\ mbox[l][g].state = "asking"
      /\ mbox' = [mbox EXCEPT ![l][g].state = "storing", ![l][g].total = Cardinality(S),
                              ![l][g].page = page, ![l][g].at = Len(log)]
      /\ excused' = excused \cup
           {<<l, m, "shifted">> : m \in {x \in Slice(S, 0, o) :
              filled[l].by = g /\ ~Holds(content[l], x) /\ ~Coming(l, x)}}
      /\ UNCHANGED <<storeVars, serverVars, streamVars, renewals, objects, filled>>
  BY Zenon DEF AskPage
<1>2. /\ Places /\ g \in 1 .. MaxRenewals /\ g \in Nat /\ Len(log) \in Nat
      /\ mbox[l][g] \in Box /\ o \in Nat
      /\ UNCHANGED <<content, record, log, handed, todo, refresh>>
  <2>1. mbox[l][g] \in Box /\ g \in 1 .. MaxRenewals
    BY ObjectTypes DEF SyncInv
  <2>2. o \in Nat /\ g \in Nat /\ Places /\ Len(log) \in Nat
    BY <2>1, LenProperties DEF SyncInv, Places, AccountLogged, Box
  <2>3. UNCHANGED <<content, record, log, handed, todo, refresh>>
    BY <1>1 DEF storeVars, serverVars, streamVars
  <2> QED
    BY <2>1, <2>2, <2>3
<1>3. IInv' /\ AccountLogged' /\ StreamPlaced' /\ RefreshPlaced'
  BY <1>1, <1>2, StoreKept, StreamKept DEF Places
<1>4. S = ListedAt(l, Len(log)) /\ S \in SUBSET Msgs /\ S \in SUBSET Nat /\ IsFiniteSet(S)
  BY <1>2, LabelListed DEF Places
<1>5. PICK b : b = [mbox[l][g] EXCEPT !.state = "storing", !.total = Cardinality(S),
                                      !.page = page, !.at = Len(log)]
  OBVIOUS
<1>6. /\ b \in Box /\ b.state = "storing" /\ b.offset = o /\ b.at = Len(log)
      /\ Answered(l, b)
  <2>1. Slice(S, o, PageSize) \in SUBSET S
    BY <1>2, <1>4, SliceSmall, BoundsAssumption
  <2>2. \A m \in Slice(S, o, PageSize) : server[m] \in SUBSET Labels /\ l \in server[m]
    BY <1>2, <2>1 DEF InLabel, Places, AccountLogged, IsPartialFn
  <2>3. page \in Pages
    <3>1. page \in [Slice(S, o, PageSize) -> SUBSET Labels] /\ Slice(S, o, PageSize) \in SUBSET Msgs
      BY <1>4, <2>1, <2>2
    <3> HIDE DEF page
    <3> QED
      BY <3>1 DEF Pages
  <2>4. Cardinality(S) \in Nat
    BY <1>4, FS_CardinalityType
  <2>5. DOMAIN page = Slice(S, o, PageSize) /\ \A m \in DOMAIN page : l \in page[m]
    BY <2>2
  <2> HIDE DEF page, S
  <2>6. /\ b.state = "storing" /\ b.offset = o /\ b.at = Len(log)
        /\ b.page = page /\ b.total = Cardinality(S)
    BY <1>2, <1>5 DEF Box
  <2>7. b \in Box
    BY <1>2, <1>5, <2>3, <2>4 DEF Box
  <2> QED
    BY <1>2, <1>4, <2>5, <2>6, <2>7 DEF Answered
<1> HIDE DEF page
<1>7. /\ BoxesPlaced'
      /\ mbox'[l][g] = b
      /\ \A h \in 1 .. MaxRenewals \ {g} : mbox'[l][h] = mbox[l][h]
      /\ \A k \in Labels \ {l} : mbox'[k] = mbox[k]
  <2>1. mbox' = [mbox EXCEPT ![l] = [mbox[l] EXCEPT ![g] = b]]
    BY <1>1, <1>5
  <2>2. filled' \in [Labels -> [by : 0 .. MaxRenewals, since : Nat]] /\ filled'[l].since <= Len(log)
    BY <1>1, <1>2 DEF Places, BoxesPlaced
  <2>3. ~(g > objects)
    BY <1>2, MailSyncAssumption DEF Objects, Places, RefreshPlaced
  <2>4. (b.state = "storing" => Answered(l, b)) /\ (g > objects => b.state = "closed")
    BY <1>6, <2>3
  <2>5. UNCHANGED <<serverVars, objects>> /\ \A k \in Labels \ {l} : filled'[k] = filled[k]
    BY <1>1
  <2> QED
    BY <1>2, <1>6, <2>1, <2>2, <2>4, <2>5, BoxesPlacedWith
<1>8. \A k, m : Excused(k, m) => Excused(k, m)'
  BY <1>1 DEF Excused
<1>9. Recorded'
  BY <1>2, <1>8, RecordedKept DEF SyncInv
<1>10. ASSUME NEW m \in Msgs, InUse(l)' # {}, ~Excused(l, m)', l \notin refresh.left
       PROVE  Agrees(l, m)'
  <2>1. Agrees(l, m)
    <3>1. g \in InUse(l)
      BY <1>1 DEF InUse
    <3> QED
      BY <1>8, <1>10, <3>1 DEF SyncInv, Agreement
  <2>2. NoneComing(l, m)' => NoneComing(l, m)
    BY <1>1, <1>2 DEF NoneComing, Moves, Applied
  <2>3. filled[l].by \in 1 .. MaxRenewals
    BY <1>2, <2>1, ObjectTypes DEF Agrees
  <2>4. filled[l].by \in InUse(l)'
    BY <1>1, <1>6, <1>7, <2>1, <2>3 DEF Agrees, InUse, Objects
  <2>5. CASE filled[l].by # g
    BY <1>1, <1>2, <1>7, <2>1, <2>2, <2>3, <2>4, <2>5, AgreesStill
  <2>6. CASE filled[l].by = g
    <3>1. InLabel(l)' = S
      BY <1>1, ListedKept
    <3>2. ASSUME NoneComing(l, m), m \in S, ~Holds(content[l], m)
          PROVE  Unlisted(l, b, m)
      <4>1. ~Coming(l, m)
        BY <3>2 DEF Coming, NoneComing, Moves
      <4>2. m \notin Slice(S, 0, o)
        <5>1. m \in Slice(S, 0, o) => <<l, m, "shifted">> \in excused'
          BY <1>1, <2>6, <3>2, <4>1
        <5> QED
          BY <1>10, <5>1, ExcusedBy
      <4>3. Rank(S, m) > o
        <5>1. Rank(S, m) \in 1 .. Cardinality(S) /\ Cardinality(S) \in Nat
          BY <1>4, <3>2, RankGrows, FS_CardinalityType
        <5>2. m \in Slice(S, 0, o) <=> Rank(S, m) > 0 /\ Rank(S, m) <= 0 + o
          BY <1>2, <1>4, <3>2, SliceSmall
        <5> QED
          BY <1>2, <4>2, <5>1, <5>2
      <4> QED
        BY <1>4, <1>6, <3>2, <4>3 DEF Unlisted
    <3>3. Unlisted(l, b, m) => Unlisted(l, b, m)'
      BY <1>1, UnlistedKept
    <3>4. Unlisted(l, b, m)' => Unlisted(l, mbox[l][filled[l].by], m)'
      BY <1>1, <1>7, <2>6 DEF Unlisted
    <3> QED
      BY <1>1, <1>2, <2>1, <2>2, <2>4, <3>1, <3>2, <3>3, <3>4 DEF Agrees
  <2> QED
    BY <2>5, <2>6
<1>11. Agreement'
  <2> SUFFICES ASSUME NEW k \in Labels \ refresh'.left, NEW m \in Msgs, InUse(k)' # {},
                      ~Excused(k, m)'
               PROVE  Agrees(k, m)'
    BY DEF Agreement
  <2>1. CASE k # l
    BY <1>1, <1>2, <1>7, <1>8, <2>1, ElsewhereAgrees
  <2>2. CASE k = l
    BY <1>2, <1>10, <2>2
  <2> QED
    BY <2>1, <2>2
<1> QED
  BY <1>3, <1>7, <1>9, <1>11 DEF SyncInv, Places

\* A listing that fails leaves its mailbox half filled: whoever else uses it is
\* excused.
LEMMA AskFailsStep ==
  ASSUME SyncInv, NEW l \in Labels, NEW g \in Objects, AskFails(l, g)
  PROVE  SyncInv'
<1>1. /\ mbox[l][g].state = "asking"
      /\ mbox' = [mbox EXCEPT ![l][g] = Closed]
      /\ IF filled[l].by = g
           THEN filled' = [filled EXCEPT ![l] = Unfilled] /\ excused' = excused \cup Emptied(l, g)
           ELSE UNCHANGED <<filled, excused>>
      /\ UNCHANGED <<storeVars, serverVars, streamVars, renewals, objects>>
  BY DEF AskFails
<1>2. /\ Places /\ g \in 1 .. MaxRenewals /\ Len(log) \in Nat
      /\ UNCHANGED <<content, record, log, handed, todo, refresh>>
  BY <1>1, ObjectTypes, LenProperties
  DEF SyncInv, Places, AccountLogged, storeVars, serverVars, streamVars
<1>3. IInv' /\ AccountLogged' /\ StreamPlaced' /\ RefreshPlaced'
  BY <1>1, <1>2, StoreKept, StreamKept DEF Places
<1>4. /\ filled' \in [Labels -> [by : 0 .. MaxRenewals, since : Nat]]
      /\ filled'[l].since <= Len(log)
      /\ \A k \in Labels \ {l} : filled'[k] = filled[k]
  <2>1. filled \in [Labels -> [by : 0 .. MaxRenewals, since : Nat]] /\ filled[l].since <= Len(log)
    BY <1>2 DEF Places, BoxesPlaced
  <2>2. Unfilled \in [by : 0 .. MaxRenewals, since : Nat] /\ Unfilled.since <= Len(log)
    BY <1>2, MailSyncAssumption DEF Unfilled
  <2> QED
    BY <1>1, <2>1, <2>2
<1>5. /\ BoxesPlaced'
      /\ mbox'[l][g] = Closed
      /\ \A h \in 1 .. MaxRenewals \ {g} : mbox'[l][h] = mbox[l][h]
      /\ \A k \in Labels \ {l} : mbox'[k] = mbox[k]
  <2>1. PICK b : b = Closed
    OBVIOUS
  <2>2. /\ mbox' = [mbox EXCEPT ![l] = [mbox[l] EXCEPT ![g] = b]]
        /\ b \in Box /\ b.state = "closed"
        /\ UNCHANGED <<serverVars, objects>>
    <3>1. Closed.state = "closed"
      BY DEF Closed
    <3> QED
      BY <1>1, <2>1, <3>1, ClosedIsBox
  <2>3. (b.state = "storing" => Answered(l, b)) /\ (g > objects => b.state = "closed")
    BY <2>2
  <2> QED
    BY <1>2, <1>4, <2>1, <2>2, <2>3, BoxesPlacedWith
<1>6. \A k, m : Excused(k, m) => Excused(k, m)'
  BY <1>1 DEF Excused
<1>7. Recorded'
  BY <1>2, <1>6, RecordedKept DEF SyncInv
<1>8. ASSUME NEW m \in Msgs, InUse(l)' # {}, ~Excused(l, m)', l \notin refresh.left
      PROVE  Agrees(l, m)'
  <2>1. PICK h \in InUse(l) : h # g
    <3>1. PICK h \in Objects : mbox'[l][h].state \notin {"closed", "absent"}
      BY <1>1, <1>8 DEF InUse, Objects
    <3>2. h # g
      BY <1>5, <3>1 DEF Closed
    <3> QED
      BY <1>2, <1>5, <3>1, <3>2, ObjectTypes DEF InUse
  <2>2. filled[l].by # g
    <3>1. filled[l].by = g => <<l, m, "emptied">> \in excused'
      BY <1>1, <2>1 DEF Emptied
    <3> QED
      BY <1>8, <3>1, ExcusedBy
  <2>3. Agrees(l, m) /\ filled' = filled
    BY <1>1, <1>6, <1>8, <2>1, <2>2 DEF SyncInv, Agreement
  <2>4. filled[l].by \in 1 .. MaxRenewals
    BY <1>2, <2>3, ObjectTypes DEF Agrees
  <2>5. NoneComing(l, m)' => NoneComing(l, m)
    BY <1>1, <1>2, <2>3 DEF NoneComing, Moves, Applied
  <2>6. filled[l].by \in InUse(l)'
    BY <1>1, <1>5, <2>2, <2>3, <2>4 DEF Agrees, InUse, Objects
  <2> QED
    BY <1>1, <1>2, <1>5, <2>2, <2>3, <2>4, <2>5, <2>6, AgreesStill
<1>9. Agreement'
  <2> SUFFICES ASSUME NEW k \in Labels \ refresh'.left, NEW m \in Msgs, InUse(k)' # {},
                      ~Excused(k, m)'
               PROVE  Agrees(k, m)'
    BY DEF Agreement
  <2>1. CASE k # l
    BY <1>1, <1>2, <1>4, <1>5, <1>6, <2>1, ElsewhereAgrees
  <2>2. CASE k = l
    BY <1>2, <1>8, <2>2
  <2> QED
    BY <2>1, <2>2
<1> QED
  BY <1>3, <1>5, <1>7, <1>9 DEF SyncInv, Places

\* Storing a page is a call of Sync with a page the account may list, and adds
\* its messages to the mailbox and to the records.
LEMMA PageStored ==
  ASSUME Places, NEW l \in Labels, NEW g \in Objects, StorePage(l, g), NEW b, b = mbox[l][g]
  PROVE  /\ SyncPage(l)
         /\ \A x : Holds(content'[l], x) <=> Holds(content[l], x) \/ x \in DOMAIN b.page
         /\ \A k \in Labels \ {l} : content'[k] = content[k]
         /\ DOMAIN record' = DOMAIN record \cup DOMAIN b.page
<1> DEFINE S == DOMAIN b.page
           new == NewIn(content[l], S)
           k == Cardinality(new)
           L == ListedAt(l, b.at)
<1>1. /\ b.state = "storing"
      /\ Sync(l, b.page, k, InOrder(new))
  <2>1. InOrder(new) = [i \in 1 .. k |-> CHOOSE m \in new : Slice(new, i - 1, 1) = {m}]
    BY DEF InOrder
  <2> QED
    BY <2>1 DEF StorePage
<1>2. b \in Box /\ Answered(l, b) /\ b.offset \in Nat /\ b.at \in 0 .. Len(log)
  <2>1. g \in 1 .. MaxRenewals /\ b \in Box
    BY ObjectTypes
  <2>2. Answered(l, b)
    BY <1>1, <2>1 DEF Places, BoxesPlaced
  <2>3. Len(log) \in Nat
    BY LenProperties DEF Places, AccountLogged
  <2> QED
    BY <2>1, <2>2, <2>3 DEF Box, Answered
<1>3. L \in SUBSET Msgs /\ L \in SUBSET Nat /\ IsFiniteSet(L)
  BY <1>2, ListedFinite DEF Places
<1>4. S \in SUBSET L /\ IsFiniteSet(S) /\ Cardinality(S) <= PageSize /\ Cardinality(S) \in Nat
  <2>1. S = Slice(L, b.offset, PageSize)
    BY <1>2 DEF Answered
  <2> HIDE DEF S, L
  <2> QED
    BY <1>2, <1>3, <2>1, SliceSmall, BoundsAssumption, FS_CardinalityType
<1>5. new \in SUBSET S /\ IsFiniteSet(new) /\ k \in 0 .. PageSize
  <2>1. new \in SUBSET S
    BY DEF NewIn
  <2>2. IsFiniteSet(new) /\ k <= Cardinality(S) /\ k \in Nat
    BY <1>4, <2>1, FS_Subset, FS_CardinalityType
  <2> QED
    BY <1>4, <2>1, <2>2, BoundsAssumption
<1>6. IsOrder(InOrder(new), k, new) /\ InOrder(new) \in [1 .. k -> new]
  <2>1. new \in SUBSET Nat
    BY <1>3, <1>4, <1>5
  <2> QED
    BY <1>5, <2>1, InOrderIsOrder DEF IsOrder
<1>7. b.page \in [S -> {M \in SUBSET Labels : l \in M}]
  <2>1. PICK T \in SUBSET Msgs : b.page \in [T -> SUBSET Labels]
    BY <1>2 DEF Box, Pages
  <2> QED
    BY <1>2, <2>1 DEF Answered
<1>8. S \in SUBSET Msgs
  BY <1>3, <1>4
<1>9. SyncPage(l)
  <2> HIDE DEF S, k
  <2> QED
    BY <1>1, <1>4, <1>5, <1>6, <1>7, <1>8 DEF SyncPage
<1>10. /\ content'[l] = AppendTo(content[l], sequence[l], k, InOrder(new))
       /\ \A x \in Labels \ {l} : content'[x] = content[x]
       /\ sequence[l] + k <= MaxUid /\ BucketOK(content[l], sequence[l])
  <2>1. DOMAIN content = Labels /\ BucketOK(content[l], sequence[l])
    BY IInvRegrouped DEF Places, Buckets
  <2> QED
    BY <1>1, <2>1 DEF Sync, Room
<1>11. \A x : Holds(content'[l], x) <=> Holds(content[l], x) \/ x \in S
  <2>1. k \in Nat
    BY <1>5, BoundsAssumption
  <2> HIDE DEF S, k
  <2> QED
    BY <1>6, <1>8, <1>10, <2>1, AppendToBucket
<1>12. DOMAIN record' = DOMAIN record \cup S
  BY <1>1 DEF Sync
<1> QED
  BY <1>9, <1>10, <1>11, <1>12

\* Unless excused as outdated, the messages of the page are still under the label
\* when nothing more is coming, and a listing that ends has listed them all.
LEMMA StorePageStep ==
  ASSUME SyncInv, NEW l \in Labels, NEW g \in Objects, StorePage(l, g)
  PROVE  SyncInv'
<1>1. PICK b : b = mbox[l][g]
  OBVIOUS
<1>2. PICK c : c = [Closed EXCEPT !.state = IF PastTotal(b) THEN "ready" ELSE "asking",
                                  !.offset = b.offset + PageSize]
  OBVIOUS
<1>3. /\ b.state = "storing"
      /\ mbox' = [mbox EXCEPT ![l][g] = c]
      /\ filled' = [filled EXCEPT ![l].since = Least(@, b.at)]
      /\ excused' = excused \cup {<<x, m, "outdated">> : x \in Labels, m \in Outdated(b)}
      /\ UNCHANGED <<serverVars, streamVars, renewals, objects>>
  BY <1>1, <1>2 DEF StorePage
<1>4. /\ Places /\ g \in 1 .. MaxRenewals /\ b \in Box /\ Answered(l, b)
      /\ b.at \in 0 .. Len(log) /\ b.at \in Nat /\ b.offset \in Nat
      /\ Len(log) \in Nat /\ PageSize \in Nat
  <2>1. g \in 1 .. MaxRenewals /\ b \in Box
    BY <1>1, ObjectTypes DEF SyncInv
  <2>2. Answered(l, b)
    BY <1>1, <1>3, <2>1 DEF SyncInv, Places, BoxesPlaced
  <2>3. Len(log) \in Nat /\ PageSize \in Nat
    BY LenProperties, BoundsAssumption DEF SyncInv, Places, AccountLogged
  <2> QED
    BY <2>1, <2>2, <2>3 DEF Box, Answered, SyncInv
<1>5. UNCHANGED <<log, handed, todo, refresh>>
  BY <1>3 DEF serverVars, streamVars
<1>6. /\ SyncPage(l)
      /\ \A x : Holds(content'[l], x) <=> Holds(content[l], x) \/ x \in DOMAIN b.page
      /\ \A k \in Labels \ {l} : content'[k] = content[k]
      /\ DOMAIN record' = DOMAIN record \cup DOMAIN b.page
  BY <1>1, <1>4, PageStored
<1>7. IInv' /\ AccountLogged' /\ StreamPlaced' /\ RefreshPlaced'
  BY <1>3, <1>4, <1>6, NextStep, StreamKept DEF Next, Places
<1>8. /\ filled' \in [Labels -> [by : 0 .. MaxRenewals, since : Nat]]
      /\ filled'[l].since <= Len(log) /\ filled'[l].since \in Nat
      /\ filled'[l].since <= b.at /\ filled'[l].since <= filled[l].since
      /\ filled[l].since \in Nat
      /\ filled'[l].by = filled[l].by
      /\ \A k \in Labels \ {l} : filled'[k] = filled[k]
  <2>1. filled \in [Labels -> [by : 0 .. MaxRenewals, since : Nat]] /\ filled[l].since <= Len(log)
    BY <1>4 DEF Places, BoxesPlaced
  <2>2. filled' = [filled EXCEPT ![l] = [filled[l] EXCEPT !.since = Least(filled[l].since, b.at)]]
    BY <1>3
  <2>3. /\ Least(filled[l].since, b.at) \in Nat
        /\ Least(filled[l].since, b.at) <= b.at
        /\ Least(filled[l].since, b.at) <= filled[l].since
    BY <1>4, <2>1 DEF Least
  <2>4. [filled[l] EXCEPT !.since = Least(filled[l].since, b.at)]
          \in [by : 0 .. MaxRenewals, since : Nat]
    BY <2>1, <2>3
  <2>5. /\ filled'[l] = [filled[l] EXCEPT !.since = Least(filled[l].since, b.at)]
        /\ filled'[l].since = Least(filled[l].since, b.at)
        /\ filled'[l].by = filled[l].by
    BY <2>1, <2>2
  <2>6. Least(filled[l].since, b.at) <= Len(log) /\ filled[l].since \in Nat
    BY <1>4, <2>1, <2>3
  <2>7. filled' \in [Labels -> [by : 0 .. MaxRenewals, since : Nat]]
    BY <2>1, <2>2, <2>4
  <2> QED
    BY <2>1, <2>2, <2>3, <2>5, <2>6, <2>7
<1>9. /\ c \in Box /\ c.state \in {"asking", "ready"}
      /\ c.state = "ready" <=> PastTotal(b)
  <2>1. Closed \in Box
    BY ClosedIsBox
  <2>2. b.offset + PageSize \in Nat
    BY <1>4
  <2> QED
    BY <1>2, <2>1, <2>2 DEF Box
<1>10. /\ BoxesPlaced'
       /\ mbox'[l][g] = c
       /\ \A h \in 1 .. MaxRenewals \ {g} : mbox'[l][h] = mbox[l][h]
       /\ \A k \in Labels \ {l} : mbox'[k] = mbox[k]
  <2>1. mbox' = [mbox EXCEPT ![l] = [mbox[l] EXCEPT ![g] = c]]
    BY <1>3
  <2>2. ~(g > objects)
    BY <1>4, MailSyncAssumption DEF Objects, Places, RefreshPlaced
  <2>3. (c.state = "storing" => Answered(l, c)) /\ (g > objects => c.state = "closed")
    BY <1>9, <2>2
  <2>4. UNCHANGED <<serverVars, objects>>
    BY <1>3
  <2> QED
    BY <1>4, <1>8, <1>9, <2>1, <2>3, <2>4, BoxesPlacedWith
<1>11. \A k, m : Excused(k, m) => Excused(k, m)'
  BY <1>3 DEF Excused
<1>12. Recorded'
  BY <1>6, <1>11 DEF SyncInv, Recorded
<1>13. ASSUME NEW m \in Msgs, ~Excused(l, m)', l \notin refresh.left
       PROVE  Agrees(l, m)'
  <2>1. Agrees(l, m)
    <3>1. g \in InUse(l)
      BY <1>1, <1>3 DEF InUse
    <3> QED
      BY <1>11, <1>13, <3>1 DEF SyncInv, Agreement
  <2>2. NoneComing(l, m)' => NoneComing(l, m)
    <3> SUFFICES ASSUME NoneComing(l, m)', NEW j \in Applied + 1 .. Len(log),
                        j <= handed \/ j > filled[l].since
                 PROVE  ~Moves(l, m, j)
      BY DEF NoneComing
    <3>1. Applied \in Int
      BY <1>4, LenProperties DEF Applied, Places, StreamPlaced
    <3>2. j <= handed \/ j > filled'[l].since
      BY <1>4, <1>8, <3>1
    <3> QED
      BY <1>5, <3>2 DEF NoneComing, Moves, Applied
  <2>3. filled[l].by \in 1 .. MaxRenewals
    BY <1>4, <2>1, ObjectTypes DEF Agrees
  <2>4. filled[l].by \in InUse(l)'
    BY <1>3, <1>9, <1>10, <2>1, <2>3 DEF Agrees, InUse, Objects
  <2>5. CASE m \in DOMAIN b.page
    <3>1. ASSUME NoneComing(l, m)' PROVE Quiet(l, m, b.at)
      <4> SUFFICES ASSUME NEW j \in b.at + 1 .. Len(log) PROVE ~Moves(l, m, j)
        BY DEF Quiet
      <4>1. Applied \in Int
        BY <1>4, LenProperties DEF Applied, Places, StreamPlaced
      <4>2. CASE j <= Applied
        <5>1. j \in b.at + 1 .. Applied
          BY <1>4, <4>1, <4>2
        <5>2. log[j].msg = m => <<l, m, "outdated">> \in excused'
          BY <1>3, <2>5, <5>1 DEF Outdated
        <5> QED
          BY <1>13, <5>2, ExcusedBy DEF Moves
      <4>3. CASE j > Applied
        <5>1. j \in Applied + 1 .. Len(log) /\ j > filled'[l].since
          BY <1>4, <1>8, <4>1, <4>3
        <5> QED
          BY <1>5, <3>1, <5>1 DEF NoneComing, Moves, Applied
      <4> QED
        BY <1>4, <4>1, <4>2, <4>3
    <3>2. m \in ListedAt(l, b.at)
      <4>1. Slice(ListedAt(l, b.at), b.offset, PageSize) \subseteq ListedAt(l, b.at)
        BY DEF Slice
      <4> QED
        BY <1>4, <2>5, <4>1 DEF Answered
    <3>3. NoneComing(l, m)' => m \in InLabel(l)
      BY <1>4, <3>1, <3>2, QuietSince DEF Places
    <3>4. InLabel(l)' = InLabel(l) /\ Holds(content'[l], m)
      BY <1>3, <1>6, <2>5, ListedKept
    <3> QED
      BY <1>8, <2>4, <3>3, <3>4 DEF Agrees
  <2>6. CASE m \notin DOMAIN b.page /\ filled[l].by # g
    BY <1>3, <1>6, <1>8, <1>10, <2>1, <2>2, <2>3, <2>4, <2>6, AgreesStill
  <2>7. CASE m \notin DOMAIN b.page /\ filled[l].by = g
    <3>1. ASSUME Unlisted(l, b, m) PROVE Unlisted(l, c, m)'
      <4> DEFINE L == ListedAt(l, b.at)
      <4>1. m \in L /\ Rank(L, m) > b.offset
        BY <1>3, <3>1 DEF Unlisted
      <4>2. L \in SUBSET Nat /\ IsFiniteSet(L)
        BY <1>4, ListedFinite DEF Places
      <4>3. Rank(L, m) \in 1 .. Cardinality(L) /\ Cardinality(L) \in Nat
        BY <4>1, <4>2, RankGrows, FS_CardinalityType
      <4>4. ~(Rank(L, m) <= b.offset + PageSize)
        <5>1. m \notin Slice(L, b.offset, PageSize)
          BY <1>4, <2>7 DEF Answered
        <5> QED
          BY <1>4, <4>1, <4>2, <5>1, SliceSmall
      <4>5. b.total = Cardinality(L)
        BY <1>4 DEF Answered
      <4> HIDE DEF L
      <4>6. ~PastTotal(b)
        BY <1>4, <4>3, <4>4, <4>5 DEF PastTotal
      <4> QED
        BY <1>9, <4>6 DEF Unlisted
    <3>2. Unlisted(l, c, m)' => Unlisted(l, mbox[l][filled[l].by], m)'
      BY <1>8, <1>10, <2>7 DEF Unlisted
    <3>3. InLabel(l)' = InLabel(l) /\ (Holds(content'[l], m) <=> Holds(content[l], m))
      BY <1>3, <1>6, <2>7, ListedKept
    <3> QED
      BY <1>1, <1>8, <2>1, <2>2, <2>4, <2>7, <3>1, <3>2, <3>3 DEF Agrees
  <2> QED
    BY <2>5, <2>6, <2>7
<1>14. Agreement'
  <2> SUFFICES ASSUME NEW k \in Labels \ refresh'.left, NEW m \in Msgs, InUse(k)' # {},
                      ~Excused(k, m)'
               PROVE  Agrees(k, m)'
    BY DEF Agreement
  <2>1. CASE k # l
    BY <1>3, <1>5, <1>6, <1>8, <1>10, <1>11, <2>1, ElsewhereAgrees
  <2>2. CASE k = l
    BY <1>5, <1>13, <2>2
  <2> QED
    BY <2>1, <2>2
<1> QED
  BY <1>7, <1>10, <1>12, <1>14 DEF SyncInv, Places

\* After a login no mailbox is in use, and nothing is left to apply.
LEMMA ReloginStep == SyncInv /\ Relogin => SyncInv'
<1> SUFFICES ASSUME SyncInv, Relogin PROVE SyncInv'
  OBVIOUS
<1>1. /\ renewals < MaxRenewals /\ renewals' = renewals + 1 /\ objects' = 1
      /\ mbox' = [l \in Labels |-> [g \in 1 .. MaxRenewals |-> Closed]]
      /\ todo' = << >> /\ refresh' = NoRefresh
      /\ (cursor' = NoCursor /\ errors' = 0) \/ UNCHANGED <<cursor, errors>>
      /\ filled' = [l \in Labels |-> Unfilled]
      /\ UNCHANGED <<storeVars, serverVars, handed, excused>>
  BY DEF Relogin
<1>2. /\ Places /\ UNCHANGED <<content, record, log>> /\ Len(log) \in Nat
      /\ renewals \in 1 .. MaxRenewals /\ MaxRenewals \in Nat
  BY <1>1, LenProperties, MailSyncAssumption
  DEF SyncInv, Places, AccountLogged, RefreshPlaced, storeVars, serverVars
<1>3. IInv' /\ AccountLogged'
  BY <1>1, <1>2, StoreKept, AccountKept DEF Places
<1>4. StreamPlaced'
  <2>1. << >> \in Seq(Change) /\ Len(<< >>) = 0
    BY EmptySeq
  <2>2. 0 \in 0 .. MaxErrors - 1
    BY MailSyncAssumption
  <2> QED
    BY <1>1, <1>2, <2>1, <2>2 DEF Places, StreamPlaced, Unset
<1>5. RefreshPlaced'
  BY <1>1, <1>2 DEF RefreshPlaced, NoRefresh
<1>6. \A l \in Labels, g \in 1 .. MaxRenewals : mbox'[l][g].state = "closed"
  BY <1>1 DEF Closed
<1>7. BoxesPlaced'
  <2>1. mbox' \in [Labels -> [1 .. MaxRenewals -> Box]]
    BY <1>1, ClosedIsBox
  <2>2. Unfilled \in [by : 0 .. MaxRenewals, since : Nat] /\ Unfilled.since <= Len(log')
    BY <1>2 DEF Unfilled
  <2> QED
    BY <1>1, <1>6, <2>1, <2>2 DEF BoxesPlaced
<1>8. Agreement'
  <2>1. \A g \in Objects' : g \in 1 .. MaxRenewals
    BY <1>1, <1>2 DEF Objects
  <2>2. \A l \in Labels : InUse(l)' = {}
    BY <1>6, <2>1 DEF InUse
  <2> QED
    BY <2>2 DEF Agreement
<1>9. Recorded'
  BY <1>1, <1>2, RecordedKept DEF SyncInv, Excused
<1> QED
  BY <1>3, <1>4, <1>5, <1>7, <1>8, <1>9 DEF SyncInv, Places

-----------------------------------------------------------------------------
(* Every step, and what follows.                                            *)

\* The first login has just created the buckets.
LEMMA SyncInitInv == SyncInit => SyncInv
<1> SUFFICES ASSUME SyncInit PROVE SyncInv
  OBVIOUS
<1>1. DOMAIN Empty = {} /\ \A m : ~Holds(Empty, m)
  BY DEF Empty, Holds
<1>2. IInv
  <2>1. BucketOK(Empty, 0)
    BY <1>1, EmptyIsPartialFn, BoundsAssumption DEF BucketOK
  <2>2. Buckets
    BY <2>1 DEF SyncInit, Buckets
  <2>3. NothingOutsideBuckets
    BY <1>1 DEF SyncInit, NothingOutsideBuckets
  <2>4. reply.created = Empty /\ reply.deleted = Empty
    BY DEF SyncInit
  <2>5. epoch \in [Labels -> 0 .. MaxEpoch]
    BY BoundsAssumption DEF SyncInit
  <2> QED
    BY <2>2, <2>3, <2>4, <2>5, EmptyIsPartialFn, IInvRegrouped DEF SyncInit, Others
<1>3. /\ << >> \in Seq(Change) /\ log = << >> /\ Len(log) = 0
      /\ todo = << >> /\ Len(todo) = 0
  BY EmptySeq DEF SyncInit
<1>4. AccountLogged
  <2>1. \A l \in Labels, i \in 0 .. Len(log) : ListedAt(l, i) = {}
    BY <1>3 DEF ListedAt
  <2>2. \A l \in Labels : InLabel(l) = {}
    BY <1>1 DEF SyncInit, InLabel
  <2>3. IsPartialFn(server, Msgs, SUBSET Labels)
    BY EmptyIsPartialFn DEF SyncInit
  <2> QED
    BY <1>3, <2>1, <2>2, <2>3, MailSyncAssumption DEF AccountLogged
<1>5. StreamPlaced
  <2>1. 0 \in 0 .. MaxErrors - 1
    BY MailSyncAssumption
  <2> QED
    BY <1>3, <2>1 DEF SyncInit, StreamPlaced, Unset
<1>6. RefreshPlaced
  BY MailSyncAssumption DEF SyncInit, RefreshPlaced, NoRefresh
<1>7. \A l \in Labels, g \in 1 .. MaxRenewals : mbox[l][g].state = "closed"
  BY DEF SyncInit, Closed
<1>8. BoxesPlaced
  <2>1. mbox \in [Labels -> [1 .. MaxRenewals -> Box]]
    BY ClosedIsBox DEF SyncInit
  <2>2. Unfilled \in [by : 0 .. MaxRenewals, since : Nat] /\ Unfilled.since = 0
    BY MailSyncAssumption DEF Unfilled
  <2> QED
    BY <1>3, <1>7, <2>1, <2>2 DEF SyncInit, BoxesPlaced
<1>9. Agreement
  <2>1. \A g \in Objects : g \in 1 .. MaxRenewals
    BY MailSyncAssumption DEF SyncInit, Objects
  <2> QED
    BY <1>7, <2>1 DEF Agreement, InUse
<1>10. Recorded
  BY <1>1 DEF SyncInit, Recorded
<1> QED
  BY <1>2, <1>4, <1>5, <1>6, <1>8, <1>9, <1>10 DEF SyncInv, Places

\* Nothing happens, nothing changes.
LEMMA SyncStutters == SyncInv /\ UNCHANGED syncVars => SyncInv'
<1> SUFFICES ASSUME SyncInv, UNCHANGED syncVars PROVE SyncInv'
  OBVIOUS
<1>1. /\ UNCHANGED <<storeVars, serverVars, streamVars, renewals, boxVars, excused>>
      /\ UNCHANGED <<content, record, log, handed, todo, refresh, objects, mbox, filled>>
  BY DEF syncVars, storeVars, serverVars, streamVars, boxVars
<1>2. Places'
  BY <1>1, StoreKept, StreamKept, BoxesKept DEF SyncInv, Places
<1>3. Recorded'
  BY <1>1, RecordedKept DEF SyncInv, Excused
<1>4. Agreement'
  <2> SUFFICES ASSUME NEW l \in Labels \ refresh'.left, NEW m \in Msgs, InUse(l)' # {},
                      ~Excused(l, m)'
               PROVE  Agrees(l, m)'
    BY DEF Agreement
  <2>1. Agrees(l, m)
    BY <1>1 DEF SyncInv, Agreement, InUse, Objects, Excused
  <2>2. NoneComing(l, m)' => NoneComing(l, m)
    BY <1>1 DEF NoneComing, Moves, Applied
  <2> QED
    BY <1>1, <2>1, <2>2, AgreesKept
<1> QED
  BY <1>2, <1>3, <1>4 DEF SyncInv

\* The invariant is inductive.
LEMMA SyncStep == SyncInv /\ [SyncNext]_syncVars => SyncInv'
<1> SUFFICES ASSUME SyncInv, [SyncNext]_syncVars PROVE SyncInv'
  OBVIOUS
<1>1. CASE ServerStep \/ FetchLatest \/ FetchNext \/ FetchRefresh \/ FetchError
  BY <1>1, ServerStepKeeps, FetchLatestStep, FetchNextStep, FetchRefreshStep, FetchErrorStep
<1>2. CASE ApplyItem
  BY <1>2, ApplyItemStep
<1>3. ASSUME NEW l \in Labels, ResetBox(l) PROVE SyncInv'
  BY <1>3, ResetBoxStep
<1>4. CASE ResetRecords \/ RenewBoxes
  BY <1>4, ResetRecordsStep, RenewBoxesStep
<1>5. ASSUME NEW l \in Labels, NEW g \in Objects,
             Open(l, g) \/ AskPage(l, g) \/ AskFails(l, g) \/ StorePage(l, g)
      PROVE  SyncInv'
  BY <1>5, OpenStep, AskPageStep, AskFailsStep, StorePageStep
<1>6. CASE Relogin \/ UNCHANGED syncVars
  BY <1>6, ReloginStep, SyncStutters
<1> QED
  BY <1>1, <1>2, <1>3, <1>4, <1>5, <1>6 DEF SyncNext

\* Whatever the interleaving of listings, events, refreshes and logins, a mailbox
\* differs from the account only over messages that a change still to come moves,
\* that its listing has not come to, or that are excused.
THEOREM SyncInvariant == SyncSpec => []SyncInv
BY SyncInitInv, SyncStep, PTL DEF SyncSpec

\* Every variable of the composition keeps its type.
THEOREM SyncTypes == SyncSpec => []SyncTypeOK
<1>1. SyncInv => SyncTypeOK
  <2> SUFFICES ASSUME Places PROVE SyncTypeOK
    BY DEF SyncInv
  <2>1. \A l \in Labels, g \in 1 .. MaxRenewals : mbox[l][g] \in Box
    BY ObjectTypes
  <2>2. handed <= Len(log)
    BY LenProperties DEF Places, AccountLogged, StreamPlaced
  <2> QED
    BY <2>1, <2>2
    DEF SyncTypeOK, Places, IInv, AccountLogged, StreamPlaced, RefreshPlaced, Box
<1> QED
  BY SyncInvariant, <1>1, PTL

\* Once the stream has caught up, a mailbox that is initialized holds exactly the
\* messages that the account has under its label, but for the excused ones.
THEOREM SyncConverges == SyncSpec => []Convergence
<1>1. SyncInv => Convergence
  <2> SUFFICES ASSUME SyncInv, CaughtUp, NEW l \in Labels, Settled(l),
                      NEW m \in Msgs, ~Excused(l, m)
               PROVE  Holds(content[l], m) <=> m \in InLabel(l)
    BY DEF Convergence
  <2>1. /\ log \in Seq(Change) /\ Len(log) \in Nat /\ Len(log) <= MaxLog
        /\ cursor = Len(log) /\ todo = << >> /\ refresh = NoRefresh
    BY LenProperties DEF CaughtUp, Ranging, SyncInv, Places, AccountLogged
  <2>2. handed = Len(log)
    BY <2>1, MailSyncAssumption DEF SyncInv, Places, StreamPlaced, Unset, NoCursor, LostCursor
  <2>3. Applied = Len(log)
    BY <2>1, <2>2, EmptySeq DEF Applied
  <2>4. NoneComing(l, m)
    BY <2>1, <2>3 DEF NoneComing
  <2>5. l \notin refresh.left
    BY <2>1 DEF NoRefresh
  <2>6. Agrees(l, m)
    BY <2>5 DEF SyncInv, Agreement, Settled
  <2>7. ~Unlisted(l, mbox[l][filled[l].by], m)
    BY <2>6 DEF Agrees, Settled, Unlisted
  <2> QED
    BY <2>4, <2>6, <2>7 DEF Agrees
<1> QED
  BY SyncInvariant, <1>1, PTL

\* What an initialized mailbox lists can be fetched, even in the middle of an
\* event, but for the excused messages.
THEOREM EntriesHaveRecords == SyncSpec => []EntryHasRecord
<1>1. SyncInv => EntryHasRecord
  BY DEF SyncInv, Recorded, EntryHasRecord
<1> QED
  BY SyncInvariant, <1>1, PTL

-----------------------------------------------------------------------------
(* The store within the composition.                                        *)

\* An item is applied by one call of the store, or by none.
LEMMA ItemCallsStore == Places /\ ApplyItem => [Next]_vars
<1> SUFFICES ASSUME Places, ApplyItem PROVE [Next]_vars
  OBVIOUS
<1>1. PICK item : item = Head(todo)
  OBVIOUS
<1>2. item \in Change /\ item.msg \in Msgs /\ item.new \in SUBSET Labels
  BY <1>1, NextItem DEF Change
<1>3. \/ CreateMessage(item.msg, item.new)
      \/ \E form \in EventForms : UpdateMessage(item.msg, LabelUpdate(item, form))
      \/ DeleteMessage(item.msg)
      \/ UNCHANGED storeVars
  BY <1>1 DEF ApplyItem
<1>4. CASE CreateMessage(item.msg, item.new) \/ DeleteMessage(item.msg)
  BY <1>2, <1>4 DEF Next
<1>5. ASSUME NEW form \in EventForms, UpdateMessage(item.msg, LabelUpdate(item, form))
      PROVE  Next
  <2>1. LabelUpdate(item, form) \in Update
    BY <1>2, LabelUpdateIs
  <2> QED
    BY <1>2, <1>5, <2>1 DEF Next
<1>6. CASE UNCHANGED storeVars
  BY <1>6 DEF storeVars, vars
<1> QED
  BY <1>3, <1>4, <1>5, <1>6

\* So is every other step.
LEMMA StepCallsStore == Places /\ [SyncNext]_syncVars => [Next]_vars
<1> SUFFICES ASSUME Places, [SyncNext]_syncVars PROVE [Next]_vars
  OBVIOUS
<1>1. UNCHANGED storeVars => UNCHANGED vars
  BY DEF storeVars, vars
<1>2. CASE ServerStep \/ FetchLatest \/ FetchNext \/ FetchRefresh \/ FetchError
  BY <1>1, <1>2 DEF ServerStep, FetchLatest, FetchNext, FetchRefresh, FetchError
<1>3. CASE ApplyItem
  BY <1>3, ItemCallsStore
<1>4. ASSUME NEW l \in Labels, ResetBox(l) PROVE Next
  BY <1>4 DEF ResetBox, Next
<1>5. CASE ResetRecords \/ RenewBoxes \/ Relogin \/ UNCHANGED syncVars
  BY <1>1, <1>5 DEF ResetRecords, RenewBoxes, Relogin, syncVars, Next
<1>6. ASSUME NEW l \in Labels, NEW g \in Objects, Open(l, g) \/ AskPage(l, g) \/ AskFails(l, g)
      PROVE  [Next]_vars
  BY <1>1, <1>6 DEF Open, AskPage, AskFails, Next
<1>7. ASSUME NEW l \in Labels, NEW g \in Objects, StorePage(l, g) PROVE Next
  <2>1. PICK b : b = mbox[l][g]
    OBVIOUS
  <2> QED
    BY <1>7, <2>1, PageStored DEF Next
<1> QED
  BY <1>2, <1>3, <1>4, <1>5, <1>6, <1>7 DEF SyncNext

\* The bridge changes the store only by the calls the store is proved for, with
\* arguments it is proved for: pages are as large as they may be and in the order
\* of the listing, updates have one of the two forms.
THEOREM SyncUsesStore == SyncSpec => [][Next]_vars
<1>1. SyncInv /\ [SyncNext]_syncVars => [Next]_vars
  BY StepCallsStore DEF SyncInv
<1> QED
  BY SyncInvariant, <1>1, PTL DEF SyncSpec

\* The UID contract of IMAP holds while mailboxes are listed, events applied and
\* refreshes made, a reset of a bucket being a change of UIDVALIDITY.
THEOREM SyncImplementsUidMailbox == SyncSpec => ImplementsUidMailbox
<1>1. SyncInit => Imap!Init
  BY BoundsAssumption DEF SyncInit, Imap!Init, Empty
<1>2. SyncInv => IInv
  BY DEF SyncInv, Places
<1>3. IInv /\ [Next]_vars => IInv' /\ UidContract
  BY NextStep
<1> QED
  BY <1>1, <1>2, <1>3, ContractIsImap, SyncInvariant, SyncUsesStore, PTL
  DEF SyncSpec, ImplementsUidMailbox, Imap!Spec

\* A client can follow a mailbox by the numbers the event handlers pass on.
THEOREM SyncIsFollowable == SyncSpec => RepliesFollowable
<1>1. Followable =>
        \A l \in Labels :
          /\ (/\ l \in DOMAIN reply'.created \ DOMAIN reply'.deleted
              /\ sequence'[l] # sequence[l])
             => reply'.created[l] = Cardinality(DOMAIN content'[l])
          /\ (/\ l \in DOMAIN reply'.deleted \ DOMAIN reply'.created
              /\ content'[l] # content[l])
             => DOMAIN content'[l] =
                  {u \in DOMAIN content[l] : SeqNum(content[l], u) # reply'.deleted[l]}
  BY DEF Followable, Announced, Expunged
<1>2. SyncInv => IInv
  BY DEF SyncInv, Places
<1> QED
  BY <1>1, <1>2, NextFollowable, SyncInvariant, SyncUsesStore, PTL DEF RepliesFollowable
=============================================================================
