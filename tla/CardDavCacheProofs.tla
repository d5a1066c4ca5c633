------------------------- MODULE CardDavCacheProofs -------------------------
(***************************************************************************)
(* Proofs about CardDavCache, for any contacts, requests and length of the *)
(* log, and any changes lost: total and the cache agree with the address   *)
(* book but for what stale and miscounted name.                            *)
(*                                                                         *)
(* The operators of this module take the log as a parameter, so that what  *)
(* is known of it can be stated of the log before a step and after it.     *)
(***************************************************************************)
EXTENDS CardDavCache, FiniteSetTheorems, SequenceTheorems, TLAPS

Kinds == {"create", "update", "delete"}

ChangeType == [kind : Kinds, contact : Contacts]

Logs == Seq(ChangeType)

\* Version v of contact c is the newest that the first k changes of l made, or
\* a newer one.
Newest(l, c, v, k) ==
  /\ v \in DOMAIN l /\ l[v].contact = c /\ l[v].kind # "delete"
  /\ \A i \in v + 1 .. k : l[i].contact # c

Of(l, kind, k) == {i \in DOMAIN l : l[i].kind = kind /\ i <= k}

\* CountAt, of any log.
Count(l, k) == Cardinality(Of(l, "create", k)) - Cardinality(Of(l, "delete", k))

Books == UNION {[S -> Nat] : S \in SUBSET Contacts}

Places == {"idle", "missed", "asking", "storing", "updating", "creating", "keeping",
           "dropping", "listing", "counting", "paging", "exporting"}

Operations == {"none", "get", "put", "delete", "list"}

RequestType ==
  [pc : Places, op : Operations,
   contact : Contacts \cup {NoContact}, version : Nat, at : Nat, listed : Books,
   page : Nat, found : Nat, expected : Nat]

\* The address book is what the log says.
BookOK ==
  /\ log \in Logs /\ Len(log) <= MaxLog
  /\ DOMAIN server \subseteq Contacts /\ server \in [DOMAIN server -> 1 .. Len(log)]
  /\ \A c \in DOMAIN server : Newest(log, c, server[c], Len(log))
  /\ \A c \in Contacts, v \in DOMAIN log : Newest(log, c, v, Len(log)) => c \in DOMAIN server
  /\ Cardinality(DOMAIN server) = Count(log, Len(log))

\* The cache is what the events applied have left, or newer.
HeldOK ==
  /\ applied \in 0 .. Len(log)
  /\ DOMAIN cache \subseteq Contacts /\ cache \in [DOMAIN cache -> 1 .. Len(log)]
  /\ \A c \in DOMAIN cache \ stale : Newest(log, c, cache[c], applied)
  /\ total \in Unknown .. Cardinality(Contacts) + applied
  /\ total # Unknown /\ ~miscounted => total = Count(log, applied)
  /\ stale \subseteq Contacts
  /\ miscounted \in BOOLEAN

\* A request knows what was true when it was answered.
AnswerOK(l, q) ==
  /\ q.at <= Len(l)
  /\ q.expected <= Cardinality(Contacts)
  /\ q.pc \in {"missed", "asking", "storing", "updating", "creating", "keeping",
               "dropping", "exporting"} => q.contact \in Contacts
  /\ q.pc \in {"storing", "keeping"} => Newest(l, q.contact, q.version, q.at)
  /\ q.pc \in {"counting", "paging", "exporting"} =>
       \A c \in DOMAIN q.listed : Newest(l, c, q.listed[c], q.at)
  /\ q.pc = "counting" => q.expected = Count(l, q.at)
  /\ q.pc = "exporting" => q.contact \in DOMAIN q.listed

AnswersOK ==
  /\ req \in [Requests -> RequestType]
  /\ \A r \in Requests : AnswerOK(log, req[r])

CacheInv == BookOK /\ HeldOK /\ AnswersOK

-----------------------------------------------------------------------------
(* The log.                                                                 *)

\* There are finitely many contacts, so that they can be counted.
LEMMA FiniteContacts == IsFiniteSet(Contacts) /\ Cardinality(Contacts) \in Nat
BY CardDavAssumption, FS_CardinalityType

\* The changes of one kind among the first k are finitely many.
LEMMA FiniteOf ==
  ASSUME NEW l \in Logs, NEW kind, NEW k
  PROVE  IsFiniteSet(Of(l, kind, k)) /\ Cardinality(Of(l, kind, k)) \in Nat
<1>1. Of(l, kind, k) \in SUBSET (1 .. Len(l)) /\ Len(l) \in Nat
  BY LenProperties DEF Of, Logs
<1>2. IsFiniteSet(1 .. Len(l))
  BY <1>1, FS_Interval
<1> QED
  BY <1>1, <1>2, FS_Subset, FS_CardinalityType

\* CountAt is Count over the log of the state.
LEMMA CountAtIsCount ==
  /\ \A k : CountAt(k) = Count(log, k)
  /\ \A k : CountAt(k)' = Count(log', k)
BY DEF CountAt, Changes, Count, Of

\* What the log of one more change says of the changes before it.
LEMMA LongerLog ==
  ASSUME NEW l \in Logs, NEW e \in ChangeType
  PROVE  LET m == Append(l, e) IN
         /\ m \in Logs /\ Len(m) = Len(l) + 1 /\ m[Len(l) + 1] = e
         /\ DOMAIN l = 1 .. Len(l) /\ DOMAIN m = 1 .. Len(l) + 1 /\ Len(l) \in Nat
         /\ \A i \in 1 .. Len(l) : m[i] = l[i]
BY AppendProperties, LenProperties DEF Logs

\* What was the newest version of a contact at k is so after a later change.
LEMMA NewestKept ==
  ASSUME NEW l \in Logs, NEW e \in ChangeType, NEW c, NEW v, NEW k \in 0 .. Len(l),
         Newest(l, c, v, k)
  PROVE  Newest(Append(l, e), c, v, k)
BY LongerLog DEF Newest

\* How many contacts there were at k does not depend on later changes.
LEMMA CountKept ==
  ASSUME NEW l \in Logs, NEW e \in ChangeType, NEW k \in 0 .. Len(l)
  PROVE  Count(Append(l, e), k) = Count(l, k)
<1>1. \A kind : Of(Append(l, e), kind, k) = Of(l, kind, k)
  BY LongerLog DEF Of
<1> QED
  BY <1>1 DEF Count

\* One change more counts one up, or down.
LEMMA CountNext ==
  ASSUME NEW l \in Logs, NEW k \in Nat, k < Len(l)
  PROVE  /\ Count(l, k) \in Int
         /\ l[k + 1].kind = "create" => Count(l, k + 1) = Count(l, k) + 1
         /\ l[k + 1].kind = "update" => Count(l, k + 1) = Count(l, k)
         /\ l[k + 1].kind = "delete" => Count(l, k + 1) = Count(l, k) - 1
<1>1. /\ Len(l) \in Nat /\ DOMAIN l = 1 .. Len(l)
      /\ k + 1 \in DOMAIN l /\ l[k + 1].kind \in Kinds
  <2>1. Len(l) \in Nat /\ DOMAIN l = 1 .. Len(l) /\ k + 1 \in 1 .. Len(l)
    BY LenProperties DEF Logs
  <2>2. l[k + 1] \in ChangeType
    BY <2>1, ElementOfSeq DEF Logs
  <2> QED
    BY <2>1, <2>2 DEF ChangeType
<1>2. ASSUME NEW kind
      PROVE  /\ l[k + 1].kind = kind =>
                  Cardinality(Of(l, kind, k + 1)) = Cardinality(Of(l, kind, k)) + 1
             /\ l[k + 1].kind # kind =>
                  Cardinality(Of(l, kind, k + 1)) = Cardinality(Of(l, kind, k))
  <2>1. l[k + 1].kind = kind =>
          Of(l, kind, k + 1) = Of(l, kind, k) \cup {k + 1} /\ k + 1 \notin Of(l, kind, k)
    BY <1>1 DEF Of
  <2>2. l[k + 1].kind # kind => Of(l, kind, k + 1) = Of(l, kind, k)
    BY <1>1 DEF Of
  <2> QED
    BY <2>1, <2>2, FiniteOf, FS_AddElement
<1>3. /\ Cardinality(Of(l, "create", k)) \in Nat /\ Cardinality(Of(l, "delete", k)) \in Nat
  BY FiniteOf
<1>4. CASE l[k + 1].kind = "create"
  <2>1. /\ Cardinality(Of(l, "create", k + 1)) = Cardinality(Of(l, "create", k)) + 1
        /\ Cardinality(Of(l, "delete", k + 1)) = Cardinality(Of(l, "delete", k))
    BY <1>2, <1>4
  <2> QED
    BY <1>3, <1>4, <2>1 DEF Count
<1>5. CASE l[k + 1].kind = "update"
  <2>1. /\ Cardinality(Of(l, "create", k + 1)) = Cardinality(Of(l, "create", k))
        /\ Cardinality(Of(l, "delete", k + 1)) = Cardinality(Of(l, "delete", k))
    BY <1>2, <1>5
  <2> QED
    BY <1>3, <1>5, <2>1 DEF Count
<1>6. CASE l[k + 1].kind = "delete"
  <2>1. /\ Cardinality(Of(l, "create", k + 1)) = Cardinality(Of(l, "create", k))
        /\ Cardinality(Of(l, "delete", k + 1)) = Cardinality(Of(l, "delete", k)) + 1
    BY <1>2, <1>6
  <2> QED
    BY <1>3, <1>6, <2>1 DEF Count
<1> QED
  BY <1>1, <1>4, <1>5, <1>6 DEF Kinds

-----------------------------------------------------------------------------
(* A change of the address book.                                            *)

\* A change is appended to the log.
LEMMA LogGrows ==
  ASSUME BookOK, NEW kind \in Kinds, NEW c \in Contacts, Change(kind, c)
  PROVE  /\ \E e \in ChangeType : log' = Append(log, e)
         /\ Len(log) \in Nat /\ Len(log') = Len(log) + 1 /\ Len(log') <= MaxLog
         /\ log' \in Logs /\ log'[Len(log) + 1] = [kind |-> kind, contact |-> c]
         /\ DOMAIN log = 1 .. Len(log) /\ DOMAIN log' = 1 .. Len(log) + 1
         /\ \A i \in 1 .. Len(log) : log'[i] = log[i]
<1>1. [kind |-> kind, contact |-> c] \in ChangeType
  BY DEF ChangeType
<1> QED
  BY <1>1, LongerLog, CardDavAssumption DEF BookOK, Change

\* What was known of the log is known of the longer one.
LEMMA KnownKept ==
  ASSUME NEW l \in Logs, NEW m, \E e \in ChangeType : m = Append(l, e)
  PROVE  /\ \A c, v, k : k \in 0 .. Len(l) /\ Newest(l, c, v, k) => Newest(m, c, v, k)
         /\ \A k \in 0 .. Len(l) : Count(m, k) = Count(l, k)
BY NewestKept, CountKept

\* A contact is created once, changed and deleted only while it is there.
MayHappen(kind, c) ==
  IF kind = "create" THEN \A k \in DOMAIN log : log[k].contact # c ELSE c \in DOMAIN server

\* A change that may happen keeps the address book and its log in agreement.
LEMMA BookChange ==
  ASSUME BookOK, NEW kind \in Kinds, NEW c \in Contacts, Change(kind, c), MayHappen(kind, c)
  PROVE  BookOK'
<1> DEFINE n == Len(log)
<1>1. /\ n \in Nat /\ Len(log') = n + 1 /\ Len(log') <= MaxLog /\ log \in Logs /\ log' \in Logs
      /\ log'[n + 1] = [kind |-> kind, contact |-> c]
      /\ DOMAIN log = 1 .. n /\ DOMAIN log' = 1 .. n + 1
      /\ \A i \in 1 .. n : log'[i] = log[i]
      /\ \E e \in ChangeType : log' = Append(log, e)
  BY LogGrows DEF BookOK
<1>2. /\ \A d, v : Newest(log, d, v, n) => Newest(log', d, v, n)
      /\ Count(log', n) = Count(log, n)
  <2>1. n \in 0 .. Len(log)
    BY <1>1
  <2> HIDE DEF n
  <2> QED
    BY <1>1, <2>1, KnownKept
<1>3. /\ DOMAIN server' = IF kind = "delete" THEN DOMAIN server \ {c} ELSE DOMAIN server \cup {c}
      /\ \A d \in DOMAIN server' : server'[d] = IF d = c THEN n + 1 ELSE server[d]
      /\ server' \in [DOMAIN server' -> 1 .. n + 1]
  BY <1>1 DEF BookOK, Change, Put, Without
<1>4. \A d \in DOMAIN server' : Newest(log', d, server'[d], n + 1)
  <2> SUFFICES ASSUME NEW d \in DOMAIN server' PROVE Newest(log', d, server'[d], n + 1)
    OBVIOUS
  <2>1. CASE d = c
    BY <1>1, <1>3, <2>1 DEF Newest
  <2>2. CASE d # c
    <3>1. d \in DOMAIN server /\ Newest(log, d, server[d], n) /\ server'[d] = server[d]
      BY <1>3, <2>2 DEF BookOK
    <3>2. Newest(log', d, server[d], n)
      BY <1>2, <3>1
    <3> QED
      BY <1>1, <2>2, <3>1, <3>2 DEF Newest
  <2> QED
    BY <2>1, <2>2
<1>5. \A d \in Contacts, v \in DOMAIN log' : Newest(log', d, v, n + 1) => d \in DOMAIN server'
  <2> SUFFICES ASSUME NEW d \in Contacts, NEW v \in DOMAIN log', Newest(log', d, v, n + 1),
                      d # c \/ kind = "delete"
               PROVE  d \in DOMAIN server'
    BY <1>3
  <2>1. v # n + 1 /\ v \in 1 .. n
    BY <1>1 DEF Newest
  <2>2. d # c
    BY <1>1, <2>1 DEF Newest
  <2>3. Newest(log, d, v, n)
    BY <1>1, <2>1 DEF Newest
  <2> QED
    BY <1>1, <1>3, <2>1, <2>2, <2>3 DEF BookOK
<1>6. Cardinality(DOMAIN server') = Count(log', n + 1)
  <2>1. IsFiniteSet(DOMAIN server) /\ Cardinality(DOMAIN server) \in Nat
    BY FiniteContacts, FS_Subset, FS_CardinalityType DEF BookOK
  <2>2. Count(log', n) = Cardinality(DOMAIN server)
    BY <1>2 DEF BookOK
  <2>3. /\ kind = "create" => Count(log', n + 1) = Cardinality(DOMAIN server) + 1
        /\ kind = "update" => Count(log', n + 1) = Cardinality(DOMAIN server)
        /\ kind = "delete" => Count(log', n + 1) = Cardinality(DOMAIN server) - 1
    <3>1. n < Len(log') /\ n \in Nat /\ log'[n + 1].kind = kind
      BY <1>1
    <3> HIDE DEF n
    <3> QED
      BY <1>1, <2>2, <3>1, CountNext
  <2>4. kind = "create" => c \notin DOMAIN server
    BY <1>1 DEF BookOK, MayHappen, Newest
  <2>5. kind # "create" => c \in DOMAIN server
    BY DEF MayHappen
  <2>6. CASE kind = "create"
    <3>1. DOMAIN server' = DOMAIN server \cup {c}
      BY <1>3, <2>6
    <3> QED
      BY <2>1, <2>3, <2>4, <2>6, <3>1, FS_AddElement
  <2>7. CASE kind = "update"
    <3>1. DOMAIN server' = DOMAIN server
      BY <1>3, <2>5, <2>7
    <3> QED
      BY <2>3, <2>7, <3>1
  <2>8. CASE kind = "delete"
    <3>1. DOMAIN server' = DOMAIN server \ {c}
      BY <1>3, <2>8
    <3> QED
      BY <2>1, <2>3, <2>5, <2>8, <3>1, FS_RemoveElement
  <2> QED
    BY <2>6, <2>7, <2>8 DEF Kinds
<1> QED
  BY <1>1, <1>3, <1>4, <1>5, <1>6 DEF BookOK

-----------------------------------------------------------------------------
(* What a step that does not touch the cache leaves as it was, and what the *)
(* requests that it is not about still know.                                *)

Grown == UNCHANGED log \/ \E e \in ChangeType : log' = Append(log, e)

\* A log that has grown tells the same of the past.
LEMMA GrownKeeps ==
  ASSUME BookOK, Grown
  PROVE  /\ Len(log) \in Nat /\ Len(log') \in Nat /\ Len(log) <= Len(log')
         /\ \A c, v, k : k \in 0 .. Len(log) /\ Newest(log, c, v, k) => Newest(log', c, v, k)
         /\ \A k \in 0 .. Len(log) : Count(log', k) = Count(log, k)
<1>1. log \in Logs /\ Len(log) \in Nat
  BY LenProperties DEF BookOK, Logs
<1>2. CASE UNCHANGED log
  BY <1>1, <1>2
<1>3. CASE \E e \in ChangeType : log' = Append(log, e)
  <2>1. Len(log') = Len(log) + 1
    BY <1>1, <1>3, LongerLog
  <2>2. /\ \A c, v, k : k \in 0 .. Len(log) /\ Newest(log, c, v, k) => Newest(log', c, v, k)
        /\ \A k \in 0 .. Len(log) : Count(log', k) = Count(log, k)
    BY <1>1, <1>3, KnownKept
  <2> QED
    BY <1>1, <2>1, <2>2
<1> QED
  BY <1>2, <1>3 DEF Grown

\* A step that leaves the server alone leaves the address book in order.
LEMMA BookKept == BookOK /\ UNCHANGED serverVars => BookOK'
BY DEF BookOK, serverVars

\* What the backend holds stays right while others change the address book.
LEMMA HeldKept ==
  ASSUME BookOK, HeldOK, Grown, UNCHANGED <<applied, cacheVars>>
  PROVE  HeldOK'
<1>1. applied \in 0 .. Len(log') /\ cache \in [DOMAIN cache -> 1 .. Len(log')]
  BY GrownKeeps DEF HeldOK
<1>2. \A c \in DOMAIN cache \ stale : Newest(log', c, cache[c], applied)
  BY GrownKeeps DEF HeldOK
<1>3. total # Unknown /\ ~miscounted => total = Count(log', applied)
  BY GrownKeeps DEF HeldOK
<1> QED
  BY <1>1, <1>2, <1>3 DEF HeldOK, cacheVars

\* An answer under way stays one of a moment between its question and now.
LEMMA AnswerKept ==
  ASSUME BookOK, Grown, NEW q \in RequestType, AnswerOK(log, q)
  PROVE  AnswerOK(log', q)
<1>1. q.at \in 0 .. Len(log) /\ q.at \in 0 .. Len(log')
  BY GrownKeeps DEF RequestType, AnswerOK
<1> QED
  BY <1>1, GrownKeeps DEF AnswerOK

\* A step of one request keeps the answers of the others.
LEMMA AnswersKept ==
  ASSUME BookOK, AnswersOK, Grown, NEW r \in Requests,
         req' = [req EXCEPT ![r] = req'[r]],
         req'[r] \in RequestType, AnswerOK(log', req'[r])
  PROVE  AnswersOK'
<1>1. req' \in [Requests -> RequestType]
  BY DEF AnswersOK
<1>2. \A s \in Requests : AnswerOK(log', req'[s])
  BY AnswerKept DEF AnswersOK
<1> QED
  BY <1>1, <1>2 DEF AnswersOK

\* An idle request knows nothing.
LEMMA IdleKnows ==
  ASSUME NEW l \in Logs
  PROVE  Idle \in RequestType /\ AnswerOK(l, Idle)
<1>1. Empty \in Books
  BY DEF Empty, Books
<1>2. Len(l) \in Nat
  BY LenProperties DEF Logs
<1> QED
  BY <1>1, <1>2, FiniteContacts DEF Idle, RequestType, Places, Operations, AnswerOK, NoContact

\* Requests that do not change the address book or the cache.
LEMMA OnlyRequest ==
  ASSUME CacheInv, UNCHANGED <<serverVars, applied, cacheVars>>, AnswersOK'
  PROVE  CacheInv'
BY BookKept, HeldKept DEF CacheInv, Grown, serverVars

\* A request that ends has no answer under way.
LEMMA FinishKeeps ==
  ASSUME BookOK, AnswersOK, Grown, NEW r \in Requests, log' \in Logs, Finish(r)
  PROVE  AnswersOK'
BY IdleKnows, AnswersKept DEF Finish, AnswersOK

-----------------------------------------------------------------------------
(* The steps that touch neither the address book nor the cache.            *)

\* The invariant holds when the backend starts: nothing is cached.
LEMMA InitCacheInv == Init => CacheInv
<1> SUFFICES ASSUME Init PROVE CacheInv
  OBVIOUS
<1>1. log \in Logs /\ Len(log) = 0 /\ DOMAIN log = 1 .. 0
  BY EmptySeq, LenProperties DEF Init, Logs
<1>2. Count(log, 0) = 0 /\ Cardinality(DOMAIN server) = 0
  <2>1. \A kind : Of(log, kind, 0) = {}
    BY <1>1 DEF Of
  <2> QED
    BY <2>1, FS_EmptySet DEF Init, Empty, Count
<1>3. BookOK
  BY <1>1, <1>2, CardDavAssumption DEF BookOK, Init, Empty
<1>4. HeldOK
  <2>1. applied \in 0 .. Len(log) /\ total \in Unknown .. Cardinality(Contacts) + applied
    BY <1>1, FiniteContacts DEF Init, Unknown
  <2>2. cache \in [DOMAIN cache -> 1 .. Len(log)] /\ DOMAIN cache = {}
    BY DEF Init, Empty
  <2> QED
    BY <2>1, <2>2 DEF HeldOK, Init
<1>5. AnswersOK
  BY <1>1, IdleKnows DEF AnswersOK, Init
<1> QED
  BY <1>3, <1>4, <1>5 DEF CacheInv

\* A request that has learnt nothing new yet.
LEMMA GotoKeeps ==
  ASSUME BookOK, AnswersOK, Grown, NEW r \in Requests,
         NEW pc \in {"asking", "updating", "creating", "paging"}, Goto(r, pc),
         pc # "paging" => req[r].contact \in Contacts,
         pc = "paging" => req[r].pc \in {"counting", "paging", "exporting"}
  PROVE  AnswersOK'
<1>1. req \in [Requests -> RequestType] /\ req[r] \in RequestType /\ AnswerOK(log, req[r])
  BY DEF AnswersOK
<1>2. req' = [req EXCEPT ![r] = req'[r]] /\ req'[r] = [req[r] EXCEPT !.pc = pc]
  BY <1>1 DEF Goto
<1>3. req'[r] \in RequestType
  BY <1>1, <1>2 DEF RequestType, Places
<1>4. AnswerOK(log, req'[r])
  BY <1>1, <1>2 DEF RequestType, AnswerOK
<1> QED
  BY <1>2, <1>3, <1>4, AnswerKept, AnswersKept

\* The lookup in the cache, which a GET or a PUT begins with.
LEMMA LookStep ==
  ASSUME CacheInv, NEW r \in Requests, NEW op \in {"get", "put"}, NEW c \in Contacts,
         Look(r, op, c)
  PROVE  CacheInv'
<1>1. PICK pc \in {"missed", "updating", "creating"} :
        req' = [req EXCEPT ![r] = [Idle EXCEPT !.pc = pc, !.op = op, !.contact = c]]
  BY DEF Look, AfterFound
<1>2. /\ req' = [req EXCEPT ![r] = req'[r]]
      /\ req'[r] = [Idle EXCEPT !.pc = pc, !.op = op, !.contact = c]
  BY <1>1 DEF CacheInv, AnswersOK
<1>3. Idle \in RequestType /\ AnswerOK(log, Idle)
  BY IdleKnows DEF CacheInv, BookOK
<1>4. req'[r] \in RequestType /\ AnswerOK(log, req'[r])
  BY <1>2, <1>3 DEF RequestType, Places, Operations, AnswerOK
<1> QED
  BY <1>2, <1>4, AnswersKept, OnlyRequest DEF CacheInv, Grown, Look, serverVars

\* A request for a contact that is not found ends, or goes on as a creation.
LEMMA NotFoundKeeps ==
  ASSUME CacheInv, NEW r \in Requests, req[r].contact \in Contacts, NotFound(r),
         UNCHANGED serverVars
  PROVE  AnswersOK'
BY FinishKeeps, GotoKeeps DEF CacheInv, BookOK, NotFound, Grown, serverVars

\* The second critical section of the lookup.
LEMMA DecideStep ==
  ASSUME CacheInv, NEW r \in Requests, Decide(r)
  PROVE  CacheInv'
<1>1. req[r].contact \in Contacts
  BY DEF CacheInv, AnswersOK, AnswerOK, Decide
<1>2. AnswersOK'
  BY <1>1, NotFoundKeeps, GotoKeeps DEF CacheInv, Decide, Grown, serverVars
<1> QED
  BY <1>2, OnlyRequest DEF Decide

\* The version that the server sends is the newest at the time.
LEMMA GetContactStep ==
  ASSUME CacheInv, NEW r \in Requests, GetContact(r)
  PROVE  CacheInv'
<1>1. req \in [Requests -> RequestType] /\ req[r] \in RequestType /\ AnswerOK(log, req[r])
  BY DEF CacheInv, AnswersOK
<1>2. req[r].contact \in Contacts
  BY <1>1 DEF AnswerOK, GetContact
<1>3. CASE NotFound(r)
  BY <1>2, <1>3, NotFoundKeeps, OnlyRequest DEF GetContact
<1>4. CASE /\ req[r].contact \in DOMAIN server
           /\ req' = [req EXCEPT ![r].pc = "storing", ![r].at = Len(log),
                                 ![r].version = server[req[r].contact]]
  <2>1. Len(log) \in Nat /\ server[req[r].contact] \in Nat
    BY <1>4, LenProperties DEF CacheInv, BookOK, Logs
  <2>2. /\ req' = [req EXCEPT ![r] = req'[r]]
        /\ req'[r] = [req[r] EXCEPT !.pc = "storing", !.at = Len(log),
                                    !.version = server[req[r].contact]]
    BY <1>1, <1>4
  <2>3. req'[r] \in RequestType
    BY <1>1, <2>1, <2>2 DEF RequestType, Places
  <2>4. Newest(log, req[r].contact, server[req[r].contact], Len(log))
    BY <1>4 DEF CacheInv, BookOK
  <2>5. AnswerOK(log, req'[r])
    BY <1>1, <1>2, <2>1, <2>2, <2>4 DEF RequestType, AnswerOK
  <2> QED
    BY <2>2, <2>3, <2>5, AnswersKept, OnlyRequest DEF CacheInv, Grown, GetContact, serverVars
<1> QED
  BY <1>3, <1>4 DEF GetContact

\* A listing begins.
LEMMA ListStep ==
  ASSUME CacheInv, NEW r \in Requests, List(r)
  PROVE  CacheInv'
<1>1. /\ req' = [req EXCEPT ![r] = req'[r]]
      /\ req'[r] = [Idle EXCEPT !.pc = "listing", !.op = "list"]
  BY DEF CacheInv, AnswersOK, List
<1>2. Idle \in RequestType /\ AnswerOK(log, Idle)
  BY IdleKnows DEF CacheInv, BookOK
<1>3. req'[r] \in RequestType /\ AnswerOK(log, req'[r])
  BY <1>1, <1>2 DEF RequestType, Places, Operations, AnswerOK
<1> QED
  BY <1>1, <1>3, AnswersKept, OnlyRequest DEF CacheInv, Grown, List, serverVars

\* The list is the address book at the time, and its length the count.
LEMMA ListContactsStep ==
  ASSUME CacheInv, NEW r \in Requests, ListContacts(r)
  PROVE  CacheInv'
<1>1. req \in [Requests -> RequestType] /\ req[r] \in RequestType /\ AnswerOK(log, req[r])
  BY DEF CacheInv, AnswersOK
<1>2. Len(log) \in Nat /\ server \in Books
  BY LenProperties DEF CacheInv, BookOK, Logs, Books
<1>3. Cardinality(DOMAIN server) \in Nat /\ Cardinality(DOMAIN server) <= Cardinality(Contacts)
  BY FiniteContacts, FS_Subset, FS_CardinalityType DEF CacheInv, BookOK
<1>4. /\ req' = [req EXCEPT ![r] = req'[r]]
      /\ req'[r] = [req[r] EXCEPT !.pc = "counting", !.at = Len(log), !.listed = server,
                                  !.expected = Cardinality(DOMAIN server)]
  BY <1>1 DEF ListContacts
<1>5. req'[r] \in RequestType
  BY <1>1, <1>2, <1>3, <1>4 DEF RequestType, Places
<1>6. AnswerOK(log, req'[r])
  BY <1>1, <1>2, <1>3, <1>4 DEF CacheInv, BookOK, RequestType, AnswerOK
<1> QED
  BY <1>4, <1>5, <1>6, AnswersKept, OnlyRequest
  DEF CacheInv, Grown, ListContacts, serverVars

\* A page of the export is answered.
LEMMA ExportStep ==
  ASSUME CacheInv, NEW r \in Requests, Export(r)
  PROVE  CacheInv'
<1>1. req \in [Requests -> RequestType] /\ req[r] \in RequestType /\ AnswerOK(log, req[r])
  BY DEF CacheInv, AnswersOK
<1>2. CASE Finish(r)
  BY <1>2, FinishKeeps, OnlyRequest DEF CacheInv, BookOK, Grown, Export, serverVars
<1>3. ASSUME NEW c \in DOMAIN server, NEW pc,
             pc = (IF c \in DOMAIN req[r].listed THEN "exporting" ELSE "paging"),
             req' = [req EXCEPT ![r].page = @ + 1, ![r].contact = c, ![r].pc = pc]
      PROVE  AnswersOK'
  <2>1. /\ req' = [req EXCEPT ![r] = req'[r]]
        /\ req'[r] = [req[r] EXCEPT !.page = @ + 1, !.contact = c, !.pc = pc]
    BY <1>1, <1>3
  <2>2. c \in Contacts
    BY DEF CacheInv, BookOK
  <2>3. req'[r] \in RequestType
    BY <1>1, <1>3, <2>1, <2>2 DEF RequestType, Places
  <2>4. AnswerOK(log, req'[r])
    BY <1>1, <1>3, <2>1, <2>2 DEF Export, RequestType, AnswerOK
  <2> QED
    BY <2>1, <2>3, <2>4, AnswersKept DEF CacheInv, Grown, Export, serverVars
<1> QED
  BY <1>2, <1>3, OnlyRequest DEF Export

\* A listing that fails ends there.
LEMMA ListFailsStep ==
  ASSUME CacheInv, NEW r \in Requests, ListFails(r)
  PROVE  CacheInv'
BY FinishKeeps, OnlyRequest DEF CacheInv, BookOK, Grown, ListFails, serverVars

-----------------------------------------------------------------------------
(* The steps that change the address book.                                  *)

\* A change of the address book makes the log grow, and nothing else of it.
LEMMA ChangeGrows ==
  ASSUME BookOK, NEW kind \in Kinds, NEW c \in Contacts, Change(kind, c), MayHappen(kind, c)
  PROVE  BookOK' /\ Grown /\ log' \in Logs
BY BookChange, LogGrows DEF Grown

\* The same of an addition, a modification and a removal.
LEMMA ThreeChanges ==
  ASSUME BookOK, NEW c \in Contacts, Add(c) \/ Modify(c) \/ Remove(c)
  PROVE  /\ BookOK' /\ Grown /\ log' \in Logs
         /\ Add(c) \/ Modify(c) => Newest(log', c, Len(log'), Len(log')) /\ Len(log') \in Nat
<1>1. CASE Add(c)
  <2>1. Change("create", c) /\ MayHappen("create", c)
    BY <1>1 DEF Add, MayHappen
  <2>2. "create" \in Kinds /\ "create" # "delete"
    BY DEF Kinds
  <2>3. BookOK' /\ Grown /\ log' \in Logs
    BY <2>1, <2>2, ChangeGrows
  <2>4. /\ Len(log) \in Nat /\ Len(log') = Len(log) + 1 /\ DOMAIN log' = 1 .. Len(log) + 1
        /\ log'[Len(log) + 1] = [kind |-> "create", contact |-> c]
    BY <2>1, <2>2, LogGrows
  <2>5. Newest(log', c, Len(log'), Len(log')) /\ Len(log') \in Nat
    BY <2>2, <2>4 DEF Newest
  <2> QED
    BY <2>3, <2>5
<1>2. CASE Modify(c)
  <2>1. Change("update", c) /\ MayHappen("update", c)
    BY <1>2 DEF Modify, MayHappen
  <2>2. "update" \in Kinds /\ "update" # "delete"
    BY DEF Kinds
  <2>3. BookOK' /\ Grown /\ log' \in Logs
    BY <2>1, <2>2, ChangeGrows
  <2>4. /\ Len(log) \in Nat /\ Len(log') = Len(log) + 1 /\ DOMAIN log' = 1 .. Len(log) + 1
        /\ log'[Len(log) + 1] = [kind |-> "update", contact |-> c]
    BY <2>1, <2>2, LogGrows
  <2>5. Newest(log', c, Len(log'), Len(log')) /\ Len(log') \in Nat
    BY <2>2, <2>4 DEF Newest
  <2> QED
    BY <2>3, <2>5
<1>3. CASE Remove(c)
  <2>1. Change("delete", c) /\ MayHappen("delete", c)
    BY <1>3 DEF Remove, MayHappen
  <2>2. ~Add(c) /\ ~Modify(c)
    BY <2>1 DEF Add, Modify, Change
  <2> QED
    BY <2>1, <2>2, ChangeGrows DEF Kinds
<1> QED
  BY <1>1, <1>2, <1>3

\* The address book is changed elsewhere.
LEMMA OtherClientStep == CacheInv /\ OtherClient => CacheInv'
<1> SUFFICES ASSUME CacheInv, NEW c \in Contacts, Add(c) \/ Modify(c) \/ Remove(c),
                    UNCHANGED <<applied, cacheVars, req>>
             PROVE  CacheInv'
  BY DEF OtherClient
<1>1. BookOK' /\ Grown
  BY ThreeChanges DEF CacheInv
<1>2. HeldOK'
  BY <1>1, HeldKept DEF CacheInv
<1>3. AnswersOK'
  BY <1>1, AnswerKept DEF CacheInv, AnswersOK
<1> QED
  BY <1>1, <1>2, <1>3 DEF CacheInv

\* What a request has written is the newest version.
LEMMA WriteStep ==
  ASSUME CacheInv, NEW r \in Requests, Write(r)
  PROVE  CacheInv'
<1>1. req \in [Requests -> RequestType] /\ req[r] \in RequestType /\ AnswerOK(log, req[r])
  BY DEF CacheInv, AnswersOK
<1>2. ASSUME NEW c \in Contacts, Add(c) \/ Modify(c), UNCHANGED <<applied, cacheVars>>,
             req' = [req EXCEPT ![r].pc = "keeping", ![r].at = Len(log'),
                                ![r].version = Len(log'), ![r].contact = c]
      PROVE  CacheInv'
  <2>1. BookOK' /\ Grown
    BY <1>2, ThreeChanges DEF CacheInv
  <2>2. Newest(log', c, Len(log'), Len(log')) /\ Len(log') \in Nat
    BY <1>2, ThreeChanges DEF CacheInv
  <2>3. /\ req' = [req EXCEPT ![r] = req'[r]]
        /\ req'[r] = [req[r] EXCEPT !.pc = "keeping", !.at = Len(log'),
                                    !.version = Len(log'), !.contact = c]
    BY <1>1, <1>2
  <2>4. req'[r] \in RequestType
    BY <1>1, <2>2, <2>3 DEF RequestType, Places
  <2>5. AnswerOK(log', req'[r])
    BY <1>1, <2>2, <2>3 DEF RequestType, AnswerOK
  <2>6. AnswersOK'
    BY <2>1, <2>3, <2>4, <2>5, AnswersKept DEF CacheInv
  <2> QED
    BY <1>2, <2>1, <2>6, HeldKept DEF CacheInv
<1>3. CASE /\ req[r].pc = "updating" /\ Modify(req[r].contact)
           /\ req' = [req EXCEPT ![r].pc = "keeping", ![r].at = Len(log'),
                                 ![r].version = Len(log')]
           /\ UNCHANGED <<applied, cacheVars>>
  <2>1. req[r].contact \in Contacts
    BY <1>1, <1>3 DEF AnswerOK
  <2>2. req' = [req EXCEPT ![r].pc = "keeping", ![r].at = Len(log'),
                           ![r].version = Len(log'), ![r].contact = req[r].contact]
    BY <1>1, <1>3 DEF RequestType
  <2> QED
    BY <1>2, <1>3, <2>1, <2>2
<1>4. CASE Finish(r) /\ UNCHANGED <<serverVars, applied, cacheVars>>
  BY <1>4, FinishKeeps, OnlyRequest DEF CacheInv, BookOK, Grown, serverVars
<1> QED
  BY <1>2, <1>3, <1>4 DEF Write

\* A DELETE changes the address book.
LEMMA DeleteStep ==
  ASSUME CacheInv, NEW r \in Requests, NEW c \in Contacts, Delete(r, c)
  PROVE  CacheInv'
<1>1. BookOK' /\ Grown /\ log' \in Logs
  BY ThreeChanges, BookKept DEF CacheInv, BookOK, Delete, Grown, serverVars
<1>2. /\ req' = [req EXCEPT ![r] = req'[r]]
      /\ req'[r] = [Idle EXCEPT !.pc = "dropping", !.op = "delete", !.contact = c]
  BY DEF CacheInv, AnswersOK, Delete
<1>3. Idle \in RequestType /\ AnswerOK(log', Idle)
  BY <1>1, IdleKnows
<1>4. req'[r] \in RequestType /\ AnswerOK(log', req'[r])
  BY <1>2, <1>3 DEF RequestType, Places, Operations, AnswerOK
<1> QED
  BY <1>1, <1>2, <1>4, AnswersKept, HeldKept DEF CacheInv, Delete

-----------------------------------------------------------------------------
(* The steps that change the cache.                                         *)

\* An event makes its contact as new as the events applied, and counts it.
LEMMA ApplyEventStep == CacheInv /\ ApplyEvent => CacheInv'
<1> SUFFICES ASSUME CacheInv, ApplyEvent PROVE CacheInv'
  OBVIOUS
<1> DEFINE k == applied + 1
           c == log[k].contact
<1>1. /\ applied \in Nat /\ applied < Len(log) /\ Len(log) \in Nat /\ log \in Logs
      /\ DOMAIN log = 1 .. Len(log) /\ applied' = k /\ k \in 1 .. Len(log)
  BY LenProperties DEF CacheInv, BookOK, HeldOK, Logs, ApplyEvent
<1>2. log[k] \in ChangeType /\ log[k].kind \in Kinds /\ c \in Contacts
  <2>1. log[k] \in ChangeType
    BY <1>1, ElementOfSeq DEF Logs
  <2> QED
    BY <2>1 DEF ChangeType
<1>3. /\ DOMAIN cache' = IF log[k].kind = "delete" THEN DOMAIN cache \ {c}
                                                    ELSE DOMAIN cache \cup {c}
      /\ \A d \in DOMAIN cache' : cache'[d] = IF d = c THEN k ELSE cache[d]
      /\ cache' \in [DOMAIN cache' -> 1 .. Len(log)] /\ DOMAIN cache' \subseteq Contacts
  BY <1>1, <1>2 DEF CacheInv, HeldOK, ApplyEvent, Put, Without
<1>4. \A d \in DOMAIN cache' \ stale' : Newest(log, d, cache'[d], k)
  <2> SUFFICES ASSUME NEW d \in DOMAIN cache' \ stale' PROVE Newest(log, d, cache'[d], k)
    OBVIOUS
  <2>1. CASE d = c
    BY <1>1, <1>3, <2>1 DEF Newest
  <2>2. CASE d # c
    <3>1. d \in DOMAIN cache \ stale /\ cache'[d] = cache[d]
      BY <1>3, <2>2 DEF ApplyEvent
    <3>2. Newest(log, d, cache[d], applied)
      BY <3>1 DEF CacheInv, HeldOK
    <3> QED
      BY <1>1, <2>2, <3>1, <3>2 DEF Newest
  <2> QED
    BY <2>1, <2>2
<1>5. /\ total' \in Unknown .. Cardinality(Contacts) + k
      /\ total' # Unknown /\ ~miscounted => total' = Count(log, k)
  <2>1. /\ Count(log, applied) \in Int
        /\ log[k].kind = "create" => Count(log, k) = Count(log, applied) + 1
        /\ log[k].kind = "update" => Count(log, k) = Count(log, applied)
        /\ log[k].kind = "delete" => Count(log, k) = Count(log, applied) - 1
    BY <1>1, CountNext
  <2>2. /\ total \in Unknown .. Cardinality(Contacts) + applied /\ Cardinality(Contacts) \in Nat
        /\ total # Unknown /\ ~miscounted => total = Count(log, applied)
    BY FiniteContacts DEF CacheInv, HeldOK
  <2>3. /\ total = Unknown => total' = total
        /\ total # Unknown /\ log[k].kind = "create" => total' = total + 1
        /\ total # Unknown /\ log[k].kind = "update" => total' = total
        /\ total # Unknown /\ log[k].kind = "delete" => total' = total - 1
    BY DEF ApplyEvent
  <2> QED
    BY <1>1, <1>2, <2>1, <2>2, <2>3 DEF Unknown, Kinds
<1>6. HeldOK'
  <2>1. UNCHANGED <<log, miscounted>> /\ stale' \subseteq Contacts
    BY DEF CacheInv, HeldOK, ApplyEvent, serverVars
  <2>2. applied' \in 0 .. Len(log)
    BY <1>1
  <2>3. miscounted \in BOOLEAN
    BY DEF CacheInv, HeldOK
  <2> HIDE DEF k, c
  <2> QED
    BY <1>1, <1>3, <1>4, <1>5, <2>1, <2>2, <2>3 DEF HeldOK
<1>7. BookOK' /\ AnswersOK'
  BY BookKept DEF CacheInv, AnswersOK, ApplyEvent, serverVars
<1> QED
  BY <1>6, <1>7 DEF CacheInv

\* Lost changes leave the cache as it was: what they make old is stale, and the
\* total is right only if they leave as many contacts as there were.
LEMMA LoseEventsStep == CacheInv /\ LoseEvents => CacheInv'
<1> SUFFICES ASSUME CacheInv, LoseEvents PROVE CacheInv'
  OBVIOUS
<1>1. /\ applied \in Nat /\ Len(log) \in Nat /\ Cardinality(Contacts) \in Nat
      /\ DOMAIN log = 1 .. Len(log) /\ applied' \in applied + 1 .. Len(log)
  BY FiniteContacts, LenProperties DEF CacheInv, BookOK, HeldOK, Logs, LoseEvents
<1>2. \A c \in DOMAIN cache' \ stale' : Newest(log, c, cache'[c], applied')
  <2> SUFFICES ASSUME NEW c \in DOMAIN cache \ stale'
               PROVE  Newest(log, c, cache[c], applied')
    BY DEF LoseEvents
  <2>1. /\ Newest(log, c, cache[c], applied) /\ cache[c] \in 1 .. Len(log)
        /\ \A k \in applied + 1 .. applied' : ~(log[k].contact = c /\ k > cache[c])
    BY DEF CacheInv, HeldOK, LoseEvents
  <2>2. ASSUME NEW i \in cache[c] + 1 .. applied' PROVE log[i].contact # c
    <3>1. i \in cache[c] + 1 .. applied \/ (i \in applied + 1 .. applied' /\ i > cache[c])
      BY <1>1, <2>1
    <3> QED
      BY <2>1, <3>1 DEF Newest
  <2> QED
    BY <2>1, <2>2 DEF Newest
<1>3. /\ total' \in Unknown .. Cardinality(Contacts) + applied'
      /\ miscounted' \in BOOLEAN /\ stale' \subseteq Contacts
  <2>1. total \in Unknown .. Cardinality(Contacts) + applied
    BY DEF CacheInv, HeldOK
  <2> QED
    BY <1>1, <2>1 DEF CacheInv, HeldOK, LoseEvents, Unknown
<1>4. total' # Unknown /\ ~miscounted' => total' = Count(log, applied')
  <2>1. ~miscounted' => ~miscounted /\ Count(log, applied') = Count(log, applied)
    BY CountAtIsCount DEF CacheInv, HeldOK, LoseEvents
  <2> QED
    BY <2>1 DEF CacheInv, HeldOK, LoseEvents
<1>5. HeldOK'
  BY <1>1, <1>2, <1>3, <1>4 DEF CacheInv, HeldOK, LoseEvents, serverVars
<1>6. BookOK' /\ AnswersOK'
  BY BookKept DEF CacheInv, AnswersOK, LoseEvents, serverVars
<1> QED
  BY <1>5, <1>6 DEF CacheInv

\* A refresh event empties the cache and forgets the total.
LEMMA RefreshStep == CacheInv /\ Refresh => CacheInv'
<1> SUFFICES ASSUME CacheInv, Refresh PROVE CacheInv'
  OBVIOUS
<1>1. applied' \in 0 .. Len(log) /\ Cardinality(Contacts) \in Nat
  BY FiniteContacts, LenProperties DEF CacheInv, BookOK, HeldOK, Logs, Refresh
<1>2. cache' \in [DOMAIN cache' -> 1 .. Len(log)] /\ DOMAIN cache' = {}
  BY DEF Refresh, Empty
<1>3. HeldOK'
  <2>1. total' \in Unknown .. Cardinality(Contacts) + applied'
    BY <1>1, LenProperties DEF CacheInv, BookOK, Logs, Refresh, Unknown
  <2> QED
    BY <1>1, <1>2, <2>1 DEF HeldOK, Refresh, serverVars
<1>4. BookOK' /\ AnswersOK'
  BY BookKept DEF CacheInv, AnswersOK, Refresh, serverVars
<1> QED
  BY <1>3, <1>4 DEF CacheInv

\* What was the newest at its time is so now, if no event about it came since.
LEMMA PutCacheKeeps ==
  ASSUME CacheInv, NEW c \in Contacts, NEW v, NEW at \in Nat, Newest(log, c, v, at),
         PutCache(c, v, at), UNCHANGED <<serverVars, applied>>
  PROVE  HeldOK'
<1>1. /\ applied \in Nat /\ Len(log) \in Nat /\ v \in 1 .. Len(log)
      /\ DOMAIN log = 1 .. Len(log)
  BY LenProperties DEF CacheInv, BookOK, HeldOK, Logs, Newest
<1>2. /\ DOMAIN cache' = DOMAIN cache \cup {c}
      /\ \A d \in DOMAIN cache' : cache'[d] = IF d = c THEN v ELSE cache[d]
      /\ cache' \in [DOMAIN cache' -> 1 .. Len(log)] /\ DOMAIN cache' \subseteq Contacts
  BY <1>1 DEF CacheInv, HeldOK, PutCache, Put
<1>3. \A d \in DOMAIN cache' \ stale' : Newest(log, d, cache'[d], applied)
  <2> SUFFICES ASSUME NEW d \in DOMAIN cache' \ stale' PROVE Newest(log, d, cache'[d], applied)
    OBVIOUS
  <2>1. CASE d = c
    <3>1. \A k \in at + 1 .. applied : log[k].contact # c
      BY <2>1 DEF PutCache
    <3>2. \A k \in v + 1 .. applied : k \in v + 1 .. at \/ k \in at + 1 .. applied
      BY <1>1
    <3> QED
      BY <1>2, <2>1, <3>1, <3>2 DEF Newest
  <2>2. CASE d # c
    <3>1. d \in DOMAIN cache \ stale /\ cache'[d] = cache[d]
      BY <1>2, <2>2 DEF PutCache
    <3> QED
      BY <3>1 DEF CacheInv, HeldOK
  <2> QED
    BY <2>1, <2>2
<1>4. stale' \subseteq Contacts
  BY DEF CacheInv, HeldOK, PutCache
<1> QED
  BY <1>2, <1>3, <1>4 DEF CacheInv, HeldOK, PutCache, serverVars

\* A contact that was answered is stored.
LEMMA StoreStep ==
  ASSUME CacheInv, NEW r \in Requests, Store(r) \/ Keep(r)
  PROVE  CacheInv'
<1>1. req[r] \in RequestType /\ AnswerOK(log, req[r])
  BY DEF CacheInv, AnswersOK
<1>2. req[r].pc \in {"storing", "keeping"} /\ PutCache(req[r].contact, req[r].version, req[r].at)
  BY DEF Store, Keep
<1>3. /\ req[r].contact \in Contacts /\ req[r].at \in Nat
      /\ Newest(log, req[r].contact, req[r].version, req[r].at)
  BY <1>1, <1>2 DEF RequestType, AnswerOK
<1>4. HeldOK'
  BY <1>2, <1>3, PutCacheKeeps DEF Store, Keep
<1>5. AnswersOK'
  <2>1. BookOK /\ AnswersOK /\ Grown /\ log' \in Logs
    BY DEF CacheInv, BookOK, Grown, Store, Keep, serverVars
  <2>2. Finish(r) \/ \E pc \in AfterFound : Goto(r, pc)
    BY DEF Store, Keep
  <2> QED
    BY <1>3, <2>1, <2>2, FinishKeeps, GotoKeeps DEF AfterFound
<1> QED
  BY <1>4, <1>5, BookKept DEF CacheInv, Store, Keep

\* The contacts of an exported page are stored.
LEMMA StoreExportedStep ==
  ASSUME CacheInv, NEW r \in Requests, StoreExported(r)
  PROVE  CacheInv'
<1> DEFINE c == req[r].contact
<1>1. /\ req \in [Requests -> RequestType] /\ req[r] \in RequestType /\ AnswerOK(log, req[r])
      /\ req[r].pc = "exporting"
  BY DEF CacheInv, AnswersOK, StoreExported
<1>2. c \in Contacts /\ req[r].at \in Nat /\ Newest(log, c, req[r].listed[c], req[r].at)
  BY <1>1 DEF RequestType, AnswerOK
<1>3. HeldOK'
  BY <1>2, PutCacheKeeps DEF StoreExported
<1>4. BookOK /\ AnswersOK /\ Grown /\ log' \in Logs /\ log' = log
  BY DEF CacheInv, BookOK, Grown, StoreExported, serverVars
<1>5. CASE Finish(r)
  BY <1>3, <1>4, <1>5, FinishKeeps, BookKept DEF CacheInv, StoreExported
<1>6. CASE req' = [req EXCEPT ![r].pc = "paging", ![r].found = @ + 1]
  <2>1. /\ req' = [req EXCEPT ![r] = req'[r]]
        /\ req'[r] = [req[r] EXCEPT !.pc = "paging", !.found = req[r].found + 1]
    BY <1>1, <1>6
  <2>2. req'[r] \in RequestType
    <3>1. req[r].found + 1 \in Nat /\ "paging" \in Places
      BY <1>1 DEF RequestType, Places
    <3> QED
      BY <1>1, <2>1, <3>1 DEF RequestType
  <2>3. AnswerOK(log, req'[r])
    BY <1>1, <2>1 DEF RequestType, AnswerOK
  <2> QED
    BY <1>3, <1>4, <2>1, <2>2, <2>3, AnswersKept, BookKept DEF CacheInv, StoreExported
<1> QED
  BY <1>5, <1>6 DEF StoreExported

\* A deleted contact leaves the cache.
LEMMA DropStep ==
  ASSUME CacheInv, NEW r \in Requests, Drop(r)
  PROVE  CacheInv'
<1>1. HeldOK'
  BY DEF CacheInv, HeldOK, Drop, Without, serverVars
<1>2. AnswersOK'
  BY FinishKeeps DEF CacheInv, BookOK, Grown, Drop, serverVars
<1> QED
  BY <1>1, <1>2, BookKept DEF CacheInv, Drop

\* The total of a listing is stored.
LEMMA SetTotalStep ==
  ASSUME CacheInv, NEW r \in Requests, SetTotal(r)
  PROVE  CacheInv'
<1>1. req[r] \in RequestType /\ AnswerOK(log, req[r]) /\ req[r].pc = "counting"
  BY DEF CacheInv, AnswersOK, SetTotal
<1>2. /\ total' = Count(log, req[r].at) /\ total' \in 0 .. Cardinality(Contacts)
      /\ miscounted' = (Count(log, req[r].at) # Count(log, applied))
  BY <1>1, FiniteContacts, CountAtIsCount DEF RequestType, AnswerOK, SetTotal
<1>3. applied \in Nat /\ Cardinality(Contacts) \in Nat
  BY FiniteContacts DEF CacheInv, HeldOK
<1>4. HeldOK'
  <2>1. total' \in Unknown .. Cardinality(Contacts) + applied
    BY <1>2, <1>3 DEF Unknown
  <2>2. miscounted' \in BOOLEAN /\ (~miscounted' => total' = Count(log, applied))
    BY <1>2
  <2> QED
    BY <2>1, <2>2 DEF CacheInv, HeldOK, SetTotal, serverVars
<1>5. AnswersOK'
  BY <1>1, GotoKeeps DEF CacheInv, Grown, SetTotal, serverVars
<1> QED
  BY <1>4, <1>5, BookKept DEF CacheInv, SetTotal

-----------------------------------------------------------------------------
(* The theorems.                                                            *)

\* Every step keeps the invariant.
LEMMA CacheStep == CacheInv /\ [Next]_vars => CacheInv'
<1> SUFFICES ASSUME CacheInv, [Next]_vars PROVE CacheInv'
  OBVIOUS
<1>1. ASSUME NEW r \in Requests, Serve(r) PROVE CacheInv'
  BY <1>1, LookStep, DeleteStep, DecideStep, GetContactStep, StoreStep, WriteStep, DropStep,
     ListStep, ListContactsStep, SetTotalStep, ExportStep, StoreExportedStep, ListFailsStep
  DEF Serve
<1>2. CASE UNCHANGED vars
  BY <1>2, BookKept, HeldKept DEF CacheInv, AnswersOK, Grown, vars, serverVars, cacheVars
<1> QED
  BY <1>1, <1>2, OtherClientStep, ApplyEventStep, LoseEventsStep, RefreshStep DEF Next

\* The inductive invariant of the address book, the cache and what the requests
\* under way know.
THEOREM CacheInvariant == Spec => []CacheInv
BY InitCacheInv, CacheStep, PTL DEF Spec

\* The types, and total between unknown and what fits.
THEOREM CacheTypeCorrect == Spec => []TypeOK
<1>1. CacheInv => TypeOK
  <2> SUFFICES ASSUME CacheInv PROVE TypeOK
    OBVIOUS
  <2>1. total \in Unknown .. Cardinality(Contacts) + MaxLog
    BY FiniteContacts, CardDavAssumption, LenProperties
    DEF CacheInv, BookOK, HeldOK, Logs, Unknown
  <2> QED
    BY <2>1 DEF CacheInv, BookOK, HeldOK, TypeOK
<1> QED
  BY <1>1, CacheInvariant, PTL

\* total is the number of contacts as of the last event, until a listing is
\* answered at another moment or a lost change has left another number.
THEOREM TotalIsExact == Spec => []TotalExact
<1>1. CacheInv => TotalExact
  BY CountAtIsCount DEF CacheInv, HeldOK, TotalExact
<1> QED
  BY <1>1, CacheInvariant, PTL

\* Once the events have caught up, what the cache holds is the newest, unless
\* it was stored after a newer event or a newer change was lost.
LEMMA CacheIsCurrent == CacheInv => CacheFresh
<1> SUFFICES ASSUME CacheInv, applied = Len(log), NEW c \in DOMAIN cache \ stale
             PROVE  c \in DOMAIN server /\ cache[c] = server[c]
  BY DEF CacheFresh
<1>1. Newest(log, c, cache[c], Len(log)) /\ cache[c] \in DOMAIN log /\ c \in Contacts
  BY DEF CacheInv, HeldOK, Newest
<1>2. c \in DOMAIN server /\ Newest(log, c, server[c], Len(log))
  BY <1>1 DEF CacheInv, BookOK
<1>3. Len(log) \in Nat /\ DOMAIN log = 1 .. Len(log)
  BY LenProperties DEF CacheInv, BookOK, Logs
<1> QED
  BY <1>1, <1>2, <1>3 DEF Newest

\* The same in every reachable state.
THEOREM CacheIsFresh == Spec => []CacheFresh
BY CacheIsCurrent, CacheInvariant, PTL

\* And then a cache that is taken for complete is the address book, also after
\* lost changes, as long as they left the number and the cached contacts right.
THEOREM CompleteCacheIsExact == Spec => []CompleteIsExact
<1>1. CacheInv => CompleteIsExact
  <2> SUFFICES ASSUME CacheInv, applied = Len(log), ~miscounted, stale = {}, CacheComplete
               PROVE  cache = server
    BY DEF CompleteIsExact
  <2>1. /\ DOMAIN cache \subseteq DOMAIN server
        /\ \A c \in DOMAIN cache : cache[c] = server[c]
    BY CacheIsCurrent DEF CacheFresh
  <2>2. Cardinality(DOMAIN cache) = Cardinality(DOMAIN server)
    BY DEF CacheInv, BookOK, HeldOK, CacheComplete, Unknown
  <2>3. IsFiniteSet(DOMAIN server)
    BY FiniteContacts, FS_Subset DEF CacheInv, BookOK
  <2>4. DOMAIN cache = DOMAIN server
    BY <2>1, <2>2, <2>3, FS_Subset
  <2> QED
    BY <2>1, <2>4 DEF CacheInv, BookOK, HeldOK
<1> QED
  BY <1>1, CacheInvariant, PTL
=============================================================================
