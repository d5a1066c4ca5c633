---------------------------- MODULE CardDavCache ----------------------------
(***************************************************************************)
(* The contact cache of the CardDAV backend, carddav/carddav.go.           *)
(*                                                                         *)
(* Requests read and fill the cache, events change it, and total decides   *)
(* whether the cache is complete, that is, whether a contact it does not   *)
(* hold exists at all.  Each critical section is short: a request looks,   *)
(* asks the API and stores what it got in separate steps, and events are   *)
(* handled in between.                                                     *)
(*                                                                         *)
(* A contact is a version: the position in log of the change that made it. *)
(***************************************************************************)
EXTENDS Integers, Sequences, FiniteSets

CONSTANTS
  Contacts,  \* contact IDs the server may give out
  Requests,  \* requests being served at the same time
  MaxLog     \* bound on the changes of the address book

ASSUME CardDavAssumption == Contacts \subseteq Nat /\ IsFiniteSet(Contacts) /\ MaxLog \in Nat

VARIABLES
  server,     \* the address book: contact -> version
  log,        \* its changes, in order
  applied,    \* up to where the event handler has heard of them
  cache,      \* backend.cache
  total,      \* backend.total, or Unknown
  req,        \* [Requests -> where the request is]
  stale,      \* history: contacts cached from before an event, or a lost change
  miscounted  \* history: total set from an answer of another moment, or changes
              \* lost that it does not count

serverVars == <<server, log>>
cacheVars == <<cache, total, stale, miscounted>>
vars == <<serverVars, applied, cacheVars, req>>

Unknown == -1
NoContact == -1

Empty == [c \in {} |-> 0]
Put(f, c, v) == [d \in DOMAIN f \cup {c} |-> IF d = c THEN v ELSE f[d]]
Without(f, c) == [d \in DOMAIN f \ {c} |-> f[d]]

\* cacheComplete
CacheComplete == total >= 0 /\ Cardinality(DOMAIN cache) = total

\* A request: contact is the one it is about, version and listed what it was
\* told, at the position in log of the answer; page, found and expected belong
\* to a listing.
Idle == [pc |-> "idle", op |-> "none", contact |-> NoContact, version |-> 0,
         at |-> 0, listed |-> Empty, page |-> 0, found |-> 0, expected |-> 0]

Goto(r, pc) == req' = [req EXCEPT ![r].pc = pc]
Finish(r) == req' = [req EXCEPT ![r] = Idle]

-----------------------------------------------------------------------------
(* The server.                                                              *)

Changes(kind) == {k \in DOMAIN log : log[k].kind = kind}

\* How many contacts there were after k changes.
CountAt(k) ==
  Cardinality({i \in Changes("create") : i <= k})
    - Cardinality({i \in Changes("delete") : i <= k})

Change(kind, c) ==
  /\ Len(log) < MaxLog
  /\ log' = Append(log, [kind |-> kind, contact |-> c])
  /\ server' = IF kind = "delete" THEN Without(server, c) ELSE Put(server, c, Len(log) + 1)

Add(c) == (\A k \in DOMAIN log : log[k].contact # c) /\ Change("create", c)
Modify(c) == c \in DOMAIN server /\ Change("update", c)
Remove(c) == c \in DOMAIN server /\ Change("delete", c)

\* Another client of the account, or a request of ours whose answer is lost.
OtherClient ==
  /\ \E c \in Contacts : Add(c) \/ Modify(c) \/ Remove(c)
  /\ UNCHANGED <<applied, cacheVars, req>>

-----------------------------------------------------------------------------
(* Events: backend.receiveEvents, under the lock.                           *)

\* Mutants: updates are not handled; an unknown total is counted down.
ApplyEventNoUpdate ==
  /\ applied < Len(log)
  /\ applied' = applied + 1
  /\ LET e == log[applied + 1] IN
       /\ cache' = CASE e.kind = "create" -> Put(cache, e.contact, applied + 1)
                     [] e.kind = "update" -> cache
                     [] e.kind = "delete" -> Without(cache, e.contact)
       /\ total' = IF total = Unknown THEN total
                   ELSE CASE e.kind = "create" -> total + 1
                          [] e.kind = "update" -> total
                          [] e.kind = "delete" -> total - 1
       /\ stale' = stale \ {e.contact}
  /\ UNCHANGED <<serverVars, miscounted, req>>

ApplyEventUnchecked ==
  /\ applied < Len(log)
  /\ applied' = applied + 1
  /\ LET e == log[applied + 1] IN
       /\ cache' = IF e.kind = "delete" THEN Without(cache, e.contact)
                   ELSE Put(cache, e.contact, applied + 1)
       /\ total' = CASE e.kind = "create" -> total + 1
                     [] e.kind = "update" -> total
                     [] e.kind = "delete" -> total - 1
       /\ stale' = stale \ {e.contact}
  /\ UNCHANGED <<serverVars, miscounted, req>>

\* One contact of an event; the event carries the contact.
ApplyEvent ==
  /\ applied < Len(log)
  /\ applied' = applied + 1
  /\ LET e == log[applied + 1] IN
       /\ cache' = IF e.kind = "delete" THEN Without(cache, e.contact)
                   ELSE Put(cache, e.contact, applied + 1)
       /\ total' = IF total = Unknown THEN total
                   ELSE CASE e.kind = "create" -> total + 1
                          [] e.kind = "update" -> total
                          [] e.kind = "delete" -> total - 1
       /\ stale' = stale \ {e.contact}
  /\ UNCHANGED <<serverVars, miscounted, req>>

\* Changes that no event brings: the receiver starts at the latest event when the
\* bridge starts, and again after three errors in a row.
LoseEvents ==
  /\ applied' \in applied + 1 .. Len(log)
  /\ stale' = stale \cup {c \in DOMAIN cache :
                 \E k \in applied + 1 .. applied' : log[k].contact = c /\ k > cache[c]}
  /\ miscounted' = (miscounted \/ CountAt(applied') # CountAt(applied))
  /\ UNCHANGED <<serverVars, cache, total, req>>

\* A refresh event: the contacts it carries, if any, are not looked at.
Refresh ==
  /\ applied' \in applied .. Len(log)
  /\ cache' = Empty
  /\ total' = Unknown
  /\ stale' = {}
  /\ miscounted' = FALSE
  /\ UNCHANGED <<serverVars, req>>

-----------------------------------------------------------------------------
(* GetAddressObject, and PutAddressObject, which begins with it.            *)

\* putCache of a version learnt at position at.
PutCache(c, version, at) ==
  /\ cache' = Put(cache, c, version)
  /\ stale' = IF \E k \in at + 1 .. applied : log[k].contact = c
                THEN stale \cup {c} ELSE stale \ {c}
  /\ UNCHANGED <<total, miscounted>>

\* What a Put does with the contact it found; it creates another one if
\* toAddressObject fails.
AfterFound == {"updating", "creating"}

\* getCache.  A Get that finds the contact is answered and changes nothing.
Look(r, op, c) ==
  /\ req[r].pc = "idle"
  /\ c \in DOMAIN cache => op = "put"
  /\ \E pc \in IF c \in DOMAIN cache THEN AfterFound ELSE {"missed"} :
       req' = [req EXCEPT ![r] = [Idle EXCEPT !.pc = pc, !.op = op, !.contact = c]]
  /\ UNCHANGED <<serverVars, applied, cacheVars>>

\* Not found, or any other error: a Put creates the contact instead.
NotFound(r) ==
  IF req[r].op = "put" THEN Goto(r, "creating") ELSE Finish(r)

\* cacheComplete, in a critical section of its own.
Decide(r) ==
  /\ req[r].pc = "missed"
  /\ IF CacheComplete THEN NotFound(r) ELSE Goto(r, "asking")
  /\ UNCHANGED <<serverVars, applied, cacheVars>>

\* GetContact is answered, or fails, or knows no such contact.
GetContact(r) ==
  /\ req[r].pc = "asking"
  /\ \/ /\ req[r].contact \in DOMAIN server
        /\ req' = [req EXCEPT ![r].pc = "storing", ![r].at = Len(log),
                              ![r].version = server[req[r].contact]]
     \/ NotFound(r)
  /\ UNCHANGED <<serverVars, applied, cacheVars>>

Store(r) ==
  /\ req[r].pc = "storing"
  /\ PutCache(req[r].contact, req[r].version, req[r].at)
  /\ IF req[r].op = "put" THEN \E pc \in AfterFound : Goto(r, pc) ELSE Finish(r)
  /\ UNCHANGED <<serverVars, applied>>

\* UpdateContact or CreateContacts, which gives the contact a new ID; or an
\* error, and the request ends.
Write(r) ==
  \/ /\ \/ req[r].pc = "updating" /\ Modify(req[r].contact)
           /\ req' = [req EXCEPT ![r].pc = "keeping", ![r].at = Len(log'),
                                 ![r].version = Len(log')]
        \/ \E c \in Contacts :
             /\ req[r].pc = "creating" /\ Add(c)
             /\ req' = [req EXCEPT ![r].pc = "keeping", ![r].at = Len(log'),
                                   ![r].version = Len(log'), ![r].contact = c]
     /\ UNCHANGED <<applied, cacheVars>>
  \/ /\ req[r].pc \in {"updating", "creating"}
     /\ Finish(r)
     /\ UNCHANGED <<serverVars, applied, cacheVars>>

\* Mutant: a new contact is counted by the request as well as by its event.
KeepCounts(r) ==
  /\ req[r].pc = "keeping"
  /\ cache' = Put(cache, req[r].contact, req[r].version)
  /\ total' = IF total >= 0 /\ req[r].contact \notin DOMAIN cache THEN total + 1 ELSE total
  /\ Finish(r)
  /\ UNCHANGED <<serverVars, applied, stale, miscounted>>

\* putCache of what was written; total is left to the event.
Keep(r) ==
  /\ req[r].pc = "keeping"
  /\ PutCache(req[r].contact, req[r].version, req[r].at)
  /\ Finish(r)
  /\ UNCHANGED <<serverVars, applied>>

-----------------------------------------------------------------------------
(* DeleteAddressObject.                                                     *)

\* DeleteContacts: done, or refused for this contact, which may exist; both go
\* on to the cache.
Delete(r, c) ==
  /\ req[r].pc = "idle"
  /\ Remove(c) \/ UNCHANGED serverVars
  /\ req' = [req EXCEPT ![r] = [Idle EXCEPT !.pc = "dropping", !.op = "delete", !.contact = c]]
  /\ UNCHANGED <<applied, cacheVars>>

\* Mutant: a deleted contact is counted by the request as well as by its event.
DropCounts(r) ==
  /\ req[r].pc = "dropping"
  /\ cache' = Without(cache, req[r].contact)
  /\ total' = IF total > 0 THEN total - 1 ELSE total
  /\ stale' = stale \ {req[r].contact}
  /\ Finish(r)
  /\ UNCHANGED <<serverVars, applied, miscounted>>

\* deleteCache; total is left to the event.
Drop(r) ==
  /\ req[r].pc = "dropping"
  /\ cache' = Without(cache, req[r].contact)
  /\ stale' = stale \ {req[r].contact}
  /\ Finish(r)
  /\ UNCHANGED <<serverVars, applied, total, miscounted>>

-----------------------------------------------------------------------------
(* ListAddressObjects, when the cache is not complete.                      *)

List(r) ==
  /\ req[r].pc = "idle"
  /\ ~CacheComplete
  /\ req' = [req EXCEPT ![r] = [Idle EXCEPT !.pc = "listing", !.op = "list"]]
  /\ UNCHANGED <<serverVars, applied, cacheVars>>

\* ListContacts, taken to answer with all contacts: there is no paging.
ListContacts(r) ==
  /\ req[r].pc = "listing"
  /\ req' = [req EXCEPT ![r].pc = "counting", ![r].at = Len(log), ![r].listed = server,
                        ![r].expected = Cardinality(DOMAIN server)]
  /\ UNCHANGED <<serverVars, applied, cacheVars>>

\* b.total = total
SetTotal(r) ==
  /\ req[r].pc = "counting"
  /\ total' = req[r].expected
  /\ miscounted' = (CountAt(req[r].at) # CountAt(applied))
  /\ Goto(r, "paging")
  /\ UNCHANGED <<serverVars, applied, cache, stale>>

\* ListContactsExport, in pages of one contact in ID order.  A contact that
\* was not in the list is passed over.
Export(r) ==
  LET page == {c \in DOMAIN server :
                 Cardinality({d \in DOMAIN server : d < c}) = req[r].page}
  IN
  /\ req[r].pc = "paging"
  /\ \/ page = {} /\ Finish(r)
     \/ \E c \in page :
          IF c \notin DOMAIN req[r].listed /\ req[r].found >= req[r].expected
            THEN Finish(r)
            ELSE req' = [req EXCEPT ![r].page = @ + 1, ![r].contact = c,
                   ![r].pc = IF c \in DOMAIN req[r].listed THEN "exporting" ELSE "paging"]
  /\ UNCHANGED <<serverVars, applied, cacheVars>>

\* putCache of the listed contact; the listing ends when it has enough.
StoreExported(r) ==
  LET c == req[r].contact IN
  /\ req[r].pc = "exporting"
  /\ PutCache(c, req[r].listed[c], req[r].at)
  /\ IF req[r].found + 1 >= req[r].expected
       THEN Finish(r)
       ELSE req' = [req EXCEPT ![r].pc = "paging", ![r].found = @ + 1]
  /\ UNCHANGED <<serverVars, applied>>

\* ListContacts or ListContactsExport fails.
ListFails(r) ==
  /\ req[r].pc \in {"listing", "paging"}
  /\ Finish(r)
  /\ UNCHANGED <<serverVars, applied, cacheVars>>

-----------------------------------------------------------------------------
\* An address book that is not empty at the start is what Refresh leads to.
Init ==
  /\ server = Empty
  /\ log = << >>
  /\ applied = 0
  /\ cache = Empty
  /\ total = Unknown
  /\ req = [r \in Requests |-> Idle]
  /\ stale = {}
  /\ miscounted = FALSE

Serve(r) ==
  \/ \E c \in Contacts : Look(r, "get", c) \/ Look(r, "put", c) \/ Delete(r, c)
  \/ Decide(r) \/ GetContact(r) \/ Store(r) \/ Write(r) \/ Keep(r) \/ Drop(r)
  \/ List(r) \/ ListContacts(r) \/ SetTotal(r) \/ Export(r) \/ StoreExported(r) \/ ListFails(r)

Next ==
  \/ OtherClient
  \/ ApplyEvent \/ LoseEvents \/ Refresh
  \/ \E r \in Requests : Serve(r)

Spec == Init /\ [][Next]_vars

-----------------------------------------------------------------------------
(* Properties.                                                             *)

\* Types; total never falls below the value that means unknown.
TypeOK ==
  /\ DOMAIN server \subseteq Contacts /\ server \in [DOMAIN server -> 1 .. Len(log)]
  /\ applied \in 0 .. Len(log)
  /\ DOMAIN cache \subseteq Contacts /\ cache \in [DOMAIN cache -> 1 .. Len(log)]
  /\ total \in Unknown .. Cardinality(Contacts) + MaxLog
  /\ stale \subseteq Contacts
  /\ miscounted \in BOOLEAN

\* total is the number of contacts as of the last event, whichever requests
\* created and deleted contacts in between: requests leave counting to the
\* events.  It is off until the next listing or refresh if a listing was answered
\* at another moment, or if more creations than deletions were lost, or fewer.
TotalExact == total # Unknown /\ ~miscounted => total = CountAt(applied)

\* When the events have caught up, a cached contact exists and is the newest
\* version, unless an answer older than an event was stored after it, or a change
\* newer than it was lost and no event has named the contact since.
CacheFresh ==
  applied = Len(log) =>
    \A c \in DOMAIN cache \ stale : c \in DOMAIN server /\ cache[c] = server[c]

\* Then a complete cache is the address book, lost changes or not: none is left
\* out of a listing, and a contact is Not Found that exists only if it was cached
\* after it was looked up.
CompleteIsExact ==
  applied = Len(log) /\ ~miscounted /\ stale = {} /\ CacheComplete => cache = server
=============================================================================
