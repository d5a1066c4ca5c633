# Hydroxide, modelled and checked

Hydroxide is a bridge: it speaks IMAP, SMTP and CardDAV to local clients and the
Proton API to the server. This directory holds TLA+ models of the parts of it
that keep state and run concurrently, the instances TLC checks, and the proofs
TLAPS checks.

    tlc -workers 2 -config MCMailStore.cfg MCMailStore    # one run
    tlapm MailStoreProofs.tla                             # the proofs of one module: every *Proofs.tla

`PROJECT.json` names, for every definition of a model, the lines it stands for,
and for every property the hazard of the code it is about.

## 1. The system

    IMAP sessions --+                      +-- imap/database (bolt file)
    SMTP sessions --+-- imap.user, mailbox +-- events.Receiver --+
    CardDAV reqs  --+-- carddav.backend -----------------------+-+-- protonmail.Client -- Proton API
    commands      --+-- auth.Manager, auth.json ---------------+
                        bridgeHealthMonitor <-- results of all requests

| Component | State it keeps | Operations | What is hard |
|---|---|---|---|
| Local message database, `imap/database` | message records; per label a bucket UID -> API ID with bolt's sequence counter | create, update, delete, sync of a page, resets, lookups | UIDs and sequence numbers that clients rely on; two sources of entries (listings and events) |
| Label changes, `protonmail/events.go` | none | `DiffLabelIDs`, `Patch` | two forms of one update, read by two functions |
| Event stream, `events/events.go` | per account a receiver goroutine, its channels, its cursor | register, poll, leave; fetch, send, wait | closing a channel others send on; ending while somebody joins; errors that drop the cursor |
| Mailbox synchronisation, `imap/mailbox.go`, `imap/user.go` | per mailbox: initialized; the database | list page by page; apply events; refresh | the two are ordered by nothing; a refresh resets in three steps |
| IMAP user life cycle, `imap/user.go`, `imap/backend.go` | database handle, mutexes, reference count; goroutines blocked in `Poll` or on `eventSent` | login, logout, search, NOOP | goroutines that outlive the logout, and a receiver that outlives its loop; locks held while waiting; signals offered without waiting |
| IMAP client operations, `imap/mailbox.go` | per mailbox: total, messages flagged `\Deleted` | status, fetch, flags, copy, move, expunge | numbers change before clients are told; server call first, local change by an event later, or never; a refresh tells the clients nothing |
| CardDAV backend, `carddav/carddav.go` | contact cache, `total` | get, list, put, delete; events | answers stored after the event that outdates them; counting twice; changes that no event brings |
| Credential store, `auth/auth.go` | `auth.json`; per client the cached session | load, refresh, password login, save; commands | single-use refresh tokens; read-change-write with no lock; two-step writes, and a password printed after them |
| API client, `protonmail/protonmail.go` | access token | requests with re-authentication | requests that fail together |
| SMTP backend, `smtp/smtp.go`; APPEND, `imap/message.go` | recipients of the session; a draft at the server | draft, attachments through two goroutines, body, keys, send | one step of several failing, and the client's retry; who reads the connection |
| Import, export | a batch being uploaded | upload through a pipe | a producer and a consumer that end early |
| Health monitor, `cmd/hydroxide/main.go` | failure counters, oldest login | observe, begin/end login, watchdog | when to give up the process, and when not to |
| API endpoints, cryptography, MIME, command line | none | conversions and I/O | not modelled, see section 7 |

Calls go down the picture, events come up: a receiver sends each event on the
channel of every registered backend, which handles it in a goroutine of its
own; IMAP's sends the resulting updates on to the sessions.

## 2. The modules

| Module | Models | Actions and code |
|---|---|---|
| `UidMailbox` | the abstract contract: under one UIDVALIDITY a UID names one message and is never given again | - |
| `MailStore` | `imap/database`, `DiffLabelIDs`, `Patch` | one action per exported method that writes; a bolt transaction is one step; an error is a guard, for a failed transaction changes nothing |
| `EventFeed` | what a subscriber relies on: it is told of the changes as if it asked the account alone | - |
| `EventStream` | `events.Manager`, `events.Receiver` | `Register` (`RegisterExisting`, `RegisterFirst`), `FetchOk`, `FetchError`, `LockChannels`, `Send`, `UnlockChannels`, `Tick`, `TakePoll`, `Forget`; `Unsubscribe` and `CloseChannel` are the two steps of the goroutine that waits for `done` |
| `MailSync` | `mailbox.init`, `mailbox.sync`, `mailbox.reset`, all branches of `user.receiveEvents`, the cursor; extends `MailStore`, whose actions it calls | `Open`, `AskPage`, `StorePage`, `AskFails` are the steps of one listing; `ApplyItem` is one message of an event; `ResetBox`, `ResetRecords`, `RenewBoxes` are a refresh; `FetchLatest`, `FetchNext`, `FetchRefresh`, `FetchError` the stream; `Relogin` |
| `ImapUser` | `backend.Login`, `getUser`, `newUser`, `user.Logout`, `user.poll`, the locks of `receiveEvents` and of SEARCH, the receiver as far as it serves one user | `Login`, `Enter`, `Join`, `Fetch`, `Open`, `OpenFails`; `Leave`, `LockToLeave`, `Exit`, `Close`; `Handle`, `Name`, `Flag`, `NotifyLater` are an event; `Refresh`, `LockToReset`, `Reset`, `ResetMessages`, `LockToRenew`, `RenewBoxes` a refresh; `Search`, `InitBox`, `ListBox`, `ListFails`, `Begin`, `Scan`, `Match`, `MatchFlags` a SEARCH; `Poll`, `Wait`, `Notify` a NOOP; `FetchOk`, `FetchError`, `Send`, `Tick`, `TakePoll`, `Forget` the receiver |
| `ImapView` | what clients see and do: `Status`, `ListMessages`, `UpdateMessagesFlags`, `CopyMessages`, `MoveMessages`, `Expunge`, the updates; extends `MailStore` | `Select`, `List`, `Fetch`, `Answer`, `Store` (`Flag`, `Unflag`), `CopyOrMove`, `Label`, `Unlabel`, `Expunge`, `Destroy`; `TakeEvent`, `LoseEvents`, `Publish`, `Deliver`; `StartRefresh`, `ResetBox`, `ResetRecords`, `RenewBoxes` |
| `SendMail` | `SendMail` and the session of `smtp/smtp.go`, `createMessage`, the requests both make | `Auth`, `Rcpt`, `Reset`, `Logout`, `Data`, `AppendMail`; `CreateDraft`, `NextPart`, `Uploaded`, `EndOfParts`, `UpdateDraft`, `LookUp`, `Send`, `Fail`; the goroutines `WriterEnds`, `CopierEnds`, `CopierStops`, `WriterBlocks` |
| `BridgeHealth` | `bridgeHealthMonitor`, its watchdog | one action per method; `TimePasses` is time, points in time are ages that saturate |
| `CardDavCache` | `carddav.backend` | a request is split at its critical sections and API calls: `Look`, `Decide`, `GetContact`, `Store`, `Write`, `Keep`, `Delete`, `Drop`, `List`, `ListContacts`, `SetTotal`, `Export`, `StoreExported`; `ApplyEvent` and `Refresh` are the event handler, `LoseEvents` what it never hears of |
| `AuthStore` | `auth.json`, `authenticate`, `EncryptAndSave`, `AuthRefresh`, `Unlock`, the call of `ReAuth` | `Load`, `ReAuth` begin an authentication, `Rotate`, `Refused`, `Keep`, `Unlock` are `authenticate`, `Read`, `Create`, `Write` the save; `AddAccount` is `auth`, `AuthImport` is `auth-import`, and `ShowPassword` what both do after the save; `Revoke` ends a session elsewhere, `Exit` and `SaveFails` a process anywhere |
| `MailStoreProofs`, `MailSyncProofs`, `EventStreamProofs`, `SendMailProofs`, `CardDavCacheProofs`, `AuthStoreProofs`, `ImapViewProofs` | theorems and proofs about the module each is named for, section 4 | - |
| `BridgeProofs` | the same about `ImapUser` and `BridgeHealth`: who is logged in, and who watches it | - |
| `MC*` | the instances | symmetry where the values are interchangeable |

The server is external everywhere: it is modelled by what the bridge relies on
(a log of changes, answers that are correct when given, requests that fail).
Definitions called mutants are variants with a plausible mistake; they show
that each property depends on the code it is about.

### MailStore

`record` is the messages bucket, of which only `LabelIDs` matters here;
`content[l]` and `sequence[l]` are the bucket of label `l` and its counter;
`boxes` and `hasRecords` say which buckets exist, since the code creates them
on demand and some methods fail without. `reply` keeps the sequence numbers the
last call returned; `epoch` is history and counts the resets of a bucket.
`SyncPage` is `Mailbox.Sync` as `mailbox.sync` calls it: any set of messages
of the label, in any order, with the bound `PageSize`.

### EventStream

A receiver holds its lock exactly while `pc = "sending"`. `late` marks a
registration that found the receiver in the map after its loop had ended: the
code leaves the map in a second critical section (`events.go:101`), and such a
registration is never served. That is a defect of the code, and the properties
say so by their exception.

`ImplementsFeed` maps the stream to `EventFeed`: `got` is what each subscriber was
told last, and `answer` the event that the receiver it joined has in hand. The abstract
module has no receivers, channels or locks. A first event may begin anywhere; each later one begins
where the last ended, unless it is an answer to `latest`, which carries no change and never
goes back.

### MailSync

Convergence is the reason for the two-sided life of the database: when events
have caught up, a mailbox that is initialized holds what the account has. The
code does not guarantee it, and the model says exactly when it fails: `excused`
collects the pairs of mailbox and message for which agreement is lost, with the reason.

| reason | what happened |
|---|---|
| missed | the change came after the listing began and before the first cursor (`imap/user.go:118` asks for `latest`) |
| skipped | the cursor was dropped after repeated errors and the next request started at `latest`. The comment at `events/events.go:37-38` counts on the mailboxes' own sync to catch up, but an initialized mailbox is never listed again |
| dropped | an update of a message that has no record; it is logged and dropped |
| misfiled | the record disagrees with the buckets, so a comparison with it, or a deletion by it, misses an entry |
| shifted | pages are cut by offset, and a message slipped below it between two pages |
| outdated | a page answered before an event is stored after the event |
| unrecorded | a refresh deletes the records after the mailboxes are usable again: what a mailbox has listed in between is there without a record |
| emptied | one object of a mailbox resets the bucket, or fails half way through it, while another object counts it as filled |
| unmapped | a refresh whose `initMailboxes` failed has left the mailbox out of the map, and the next refresh passes it over, while a session goes on using an older object |

The last three are the refresh event. It resets every mailbox of the map, then the
records, then makes a new map, in three critical sections. A session keeps the
object it has selected, so there are two objects of one mailbox afterwards, each with
its mutex and its `initialized`, over one bucket. `filled` is history and says
whose listing reset the bucket last; `renewals` counts logins and refreshes,
which both make new objects, and bounds them together. Each of these reasons but the
last is needed: without it, the instance of `mail_sync_pages` or `mail_sync` has a counterexample.
`unmapped` takes two refreshes, one more than those instances allow; an instance with three renewals
reaches it, and there it is needed, too. `SyncConverges` (section 4) has it for any number of refreshes.

Everything else is guaranteed, whatever the interleaving. Reopening a mailbox
clears its reasons, since the listing starts from nothing.

### ImapUser

A login holds the backend's mutex until it ends, whatever it waits for. The
model has the mutexes of the backend (`be`), of a user (`ul`) and of one mailbox (`ml`), the lock of
the database file, and bolt's rule that a write transaction that has to map the file anew waits for all
readers and keeps new ones out (`writer`: `Grow`, `Commit`). Sessions write as well as the events
goroutine: a SEARCH begins with `mailbox.init`, which lists the mailbox under its mutex if the object is not
initialized, and whether it is is left open. A refresh is the code's sequence of critical sections: the
mailbox's mutex inside the user's for the reset, no mutex for the records, the user's for the new map.

`Stuck` names the ways in which the code can stop: a nil dereference after a logout (`crashed`), a file
that is never closed (`FileNeverFree`: a failed login leaves it open, or two names of one account share it),
and a SEARCH that waits for the writer that waits for it (`SearchNeverDone`: for its second transaction,
for the mailbox's mutex, which a listing or a refresh holds while it writes, or for the user's, which a
refresh holds). `Deaf` is the login whose `Register` found a receiver in the map after its loop had
ended, the `late` of `EventStream`: its user is sent no event, and its NOOPs never return.
`CommandsEnd` says that nothing but `Stuck` stops a login, a logout or a search, `PollReturns` that
nothing but `Stuck` and `Deaf` stops a NOOP. Each of these disjuncts is needed: without it the instance of
`imap_user` has a counterexample.

### ImapView

`view[s].list` is the mailbox as the client knows it: for each sequence number
the message it has fetched there, or `Unknown`. `Taken` is how a client takes an
update. `follows` is history and becomes false exactly at the moments
`ViewFollows` names as exceptions: SELECT answers a total that is not that of
the bucket; an update counts from before a listing, or the bucket had the message already (or had it no more),
which `sound` marks; a FETCH is answered with numbers whose update is still on its
way; a refresh resets the bucket; the mailbox is listed through another object; or a failed `initMailboxes` leaves it
out of the map, so that no update is made for it.

An event has any of the three forms of `LabelUpdates`: added and removed labels, the new set, or both. By
label set the difference is taken with the record, which a listing of another mailbox may have overwritten: the
update then changes nothing, and a later one may announce a message with the position it has had all along. `LoseEvents`
is the receiver's cursor at `latest`, as in `MailSync`. A refresh is `StartRefresh` (the changes so far are in no
event), `ResetBox` for each mailbox in the map, `ResetRecords`, and `RenewBoxes`, after which sessions go on with the objects
they have: `current` numbers the maps, and `Boxes` are pairs of a label and such a number.
`meant` is history: what a client has flagged in a mailbox and not taken back;
`DestroyedAsMeant` judges EXPUNGE by it. A client names messages by UID or by the
number it believes in (`Named`, `WithUid`). In `cmd[s]`, `refused` is history as well:
messages of a MOVE that the server refused alone, an answer the code does not read, and those
that somebody else takes from the destination meanwhile (`TakenAway`).

### SendMail

A mail is a record: whom its header names, whether it has a Bcc field, whether its
sender has a key, and the kinds of its parts. Every request may fail, and one that is
done may lose its answer; a client that is told of an error sends the mail
again. `upload` holds the two goroutines of an attachment: the writer, which
encrypts what it reads from the client's connection into a pipe, and the copier,
which fills the form of the request. When the request fails the copier stops, and
the writer reads on until it next writes: `OneReader` has that exception.

### BridgeHealth

`isRecoverableBridgeError` is modelled by what it does to classes of errors and
paths. `failures` is history: the ages of the failures since the last success,
against which `RestartJustified` judges the monitor's counters.

### CardDavCache

A contact is a version, the position in `log` of the change that made it. The
export pages hold one contact, the smallest page that shows the effect of
paging. The event feed loses changes, as in `MailSync`: those between the registration and the receiver's first
`latest`, and those between three errors and the next one (`LoseEvents`). `stale` collects cached contacts that were stored
from an answer older than an event already handled, or of which a newer change was lost; `miscounted` says that `total`
was set from an answer of another moment, or that changes were lost that it does not count. A stale contact stays so until
an event or a new answer names it, `miscounted` until the next listing or refresh. An API answer that refuses a
deletion drops the contact from the cache like one that does it: `deleteCache` comes before `resp.Err()`. Requests never change `total`; the
TODOs at `carddav.go:342` and `367` suggest they should, and the mutants
`KeepCounts` and `DropCounts` show that they must not as long as events do.
Two further races end in a wrong answer and not in a wrong cache: the lookup and
`cacheComplete` are two critical sections, and `PutAddressObject` creates a
contact after any error of the lookup, one of `toAddressObject` included. The
model has both steps; no property judges the answers.

### AuthStore

Clients belong to any processes: a running bridge, a second one, a command such
as `auth-verify`. A crash of a process with several clients is several `Exit`s.
Threads are the authentications in progress, so two threads of one client are
two requests answered 401 together. A token is a number; `valid` is what the
server accepts. `spoilt`, `replaced` and `stranded` are history and name the
only ways in which the file, its password and a client's token go wrong:

- `spoilt`: the answer of a refresh was lost; or a refresh succeeded and an
  error or the end of the process came before the save; or the session a thread
  is about to save was refreshed meanwhile by another thread, of the same client or
  of one that loaded the same token; or a save of another account came between reading
  and writing; or the session was ended elsewhere; or `auth-import -skip-verify` took
  an exported token that was used up or is shared;
- `replaced`: a client opened with an older bridge password has saved, which
  puts that password back; another save came in between; or a command has saved its entry and not
  printed the password, because it is about to or because its process has ended (`ShowPassword` is a step
  after `Write`);
- `stranded`: another client had loaded the same token and used it up first, the
  answer was lost, or the session was ended elsewhere.

After `os.Create` and before the write the file is empty, and `readCachedAuths`
refuses an empty file. If the process ends there, no login and no command
works, `hydroxide auth` included, until the file is removed by hand.

A client also has the access token its requests share. `do` clears it, re-authenticates,
and repeats the request; a request built without it is not retried. After one
refresh that failed nothing sets it again: `shut` names the clients of which that
is so, and `ClientAuthorized` says that no other is left without one.

## 3. The runs

| Run | Instance | Shows |
|---|---|---|
| `mail_store` | 2 labels, 2 messages, UIDs to 3, 1 reset, pages of 2 | `OneUidPerMessage`, the inductive `IInv`, `RepliesFollowable`, the refinement `ImplementsUidMailbox` |
| `uid_validity` (violation) | the same | with the constant UIDVALIDITY of `Status` the refinement fails: a reset takes UIDNEXT back |
| `event_stream` | 2 subscribers, 2 receivers, 2 events | no send on a closed channel, one receiver, the refinement `ImplementsFeed`; polls and departures end |
| `imap_user` | 2 connections, 2 names, 1 poller, 1 signal | logins, logouts, searches and NOOPs end unless the process is stuck or, for a NOOP, the user deaf; no session outlives its user |
| `imap_view` | 2 labels of which 1 is selected, 2 messages, 1 client and flags by another, 2 changes or 1 change and a refresh | numbers a client can rely on, what EXPUNGE destroys, what a MOVE may lose |
| `send_mail` | 1 SMTP and 1 IMAP connection, 6 mails, 2 addresses, 2 drafts | accepted mail is whole, goes to whom it names, once; one reader of the connection |
| `mail_sync` | 2 labels, 1 message, 3 changes, updates by label set and by difference, cursor dropped after 1 error | `Convergence` across mailboxes |
| `mail_sync_pages` | 1 label, 2 messages in pages of 1, 3 changes, a login or a refresh | `Convergence`, `EntryHasRecord` under paging, failures, a second login, a refresh |
| `bridge_health` | 2 logins, threshold 3, ages 2 and 3 | the watchdog restarts when it has to and only then |
| `stall_is_real` (violation) | 2 logins, threshold 2 | short overlapping logins are reported as a stall |
| `carddav_cache` | 2 contacts, 2 requests, 3 changes, any of which may be lost | cache and total agree with the address book |
| `auth_store` | 2 accounts, 2 clients, 2 threads, 3 tokens | saved sessions and passwords keep working |

Why the bounds are enough to be of interest. Two of a kind is where
interleavings begin: two labels for a move, two messages for a position and for
a page boundary, two threads for a race, two receivers for a restart of the
stream, two accounts for a lost update. Three UIDs are one more than there are
messages, so UIDs outlive messages; one reset is enough to reuse one; three let
two objects of a mailbox reset each other's bucket after a refresh. Three changes are a creation, a move and a deletion of one message, or two messages and one
change between. Three tokens are an account and two refreshes of it that overlap,
or two commands and a refresh; the proofs have any number. `MaxErrors`, `FailureThreshold`, ages and page sizes
stand for larger constants of the code; the code compares them and does
nothing else with them. The mails of `send_mail` are one of each
shape that takes another branch: a text in two forms with two attachments, no
recipient but the envelope's, a Bcc field, a foreign sender, a part that cannot be read, no
text; two drafts are a mail and its retry, or the mail after it. In `imap_view` one client
has a view, and another connection flags: a second view would multiply the
states without a new relation between a view and the bucket, since what a second connection does to it, listing
through another object, the client does itself after a refresh; two changes are an
event under way and one behind it, or a change and a refresh, which counts as one.
At the login the mailbox holds no message, both, or the second, so that one with a
smaller ID may come after it (`AtLogin`). In `imap_user` one goroutine
blocked in `Poll` is enough to be taken or left; that there may be more changes when the next one is taken, not whether. Every bound is a constant: `MaxUid`, `MaxEpoch`,
`PageSize`, `MaxReceivers`, `MaxHead`, `MaxPollers`, `MaxNotifiers`, `MaxLog`,
`MaxRenewals`, `MaxErrors`, `MaxChanges`, `MaxRefresh`, `MaxDrafts`, `MaxToken`. Where a bound may
stop the model rather than the system, deadlock is not checked.

Fairness, used by three runs only:

- `EventStream!FairSpec`: every request ends in an answer or an error (the HTTP
  client of `main.go` has a timeout), sends and timers fire, consumers handle
  what they are sent. Strong fairness of `TakePoll` and `Unsubscribe`: Go's
  select chooses at random among ready cases, and its mutex, in starvation
  mode, hands over to the waiter.
- `ImapUser!FairSpec`: goroutines run on, requests end, and the API answers again
  and again (`SF(FetchOk)`). The last is needed: an event request that fails signals nobody,
  so a NOOP hangs as long as the API does not answer. The assumption sets aside the comment at
  `main.go:54`, which says that timeouts keep a dead circuit from pinning a session: they end the request, not the NOOP, and
  `PollReturns` says nothing of an API that stays down.
  Mutexes and channels serve those who wait in turn, hence strong fairness of what a session has begun (`Progress`) and
  of the handling of an event (`Consumption`); the receiver goes on with the ticker, whether or not it takes a poll. Nobody has to log in or out, or to search.
- `BridgeHealth!HealthFairSpec`: time passes and the watchdog's ticker fires. Nobody has
  to log in or out and no request has to be made.

Findings. `uid_validity`: `imap/mailbox.go:91` announces a constant UIDVALIDITY
while a listing recreates the bucket and with it its counter; the TODO at line 113
says not to. The counterexample ends at the reset, where UIDNEXT falls back from 2 to 1 under the same UIDVALIDITY: what the bucket
stores next gets a UID that named another message. `stall_is_real`: `oldestIMAPOpAt` is the beginning of a period
with some login in progress, not of the oldest login, so that logins overlapping
for 75 seconds restart a healthy bridge.

## 4. The proofs

### MailStoreProofs

For any sets of labels and messages and any bounds, from `BoundsAssumption` only.

- `StoreInvariant`: `Spec => []IInv`. `IInv` is `TypeOK`, `OneUidPerMessage`,
  `UidsIssued` and `NothingOutsideBuckets`. `OneUidPerMessage` alone is not inductive: a new
  entry gets the counter's next value, and only `UidsIssued` says that no entry
  holds that UID already. `NothingOutsideBuckets` is what keeps an entry from surviving
  where a bucket is created anew.
- `NoDuplicateEntries`: `Spec => []OneUidPerMessage`, from it.
- `StoreImplementsUidMailbox`: `Spec => ImplementsUidMailbox`. UIDVALIDITY is mapped to
  `epoch`, UIDNEXT to the counter plus one, the UIDs to the entries.
- `RepliesAreFollowable`: `Spec => RepliesFollowable`, a property of steps: the sequence numbers a
  call returns are those a client needs to follow its list from the mailbox before to
  the mailbox after. A creation is announced as the new last position, which is true
  because the counter is above every UID (`CreatedIsLast`); a deletion as a position of the
  mailbox before it (`DeletedWasThere`); an update that creates and deletes in one call is each of them in
  its own label.
- `EventsKeepIndexExact`: `EventSpec => []IndexExact`. Steps of the event handlers alone
  keep the buckets an exact index of the records' labels: `DiffLabelIDs` and
  `Patch` agree in either form of an update. It needs two assumptions on the
  steps, which `EventStep` states: an update that carries both forms carries
  the same change in both, and a creation does not drop labels of a known message.

Layout: one lemma per operation on a bucket (`CreateInBucket`,
`DeleteFromBucket`, `AppendToBucket`: the bucket stays well formed and its UIDs
keep the contract), one per action (`...Step`: invariant and contract
together), and `NextStep` to combine them. The invariant is proved in the form
`Buckets /\ Others`, bucket by bucket; `IInvRegrouped` shows it is the same.

### MailSyncProofs

For any sets of labels and messages, page sizes, failures and bounds, from `MailSyncAssumption`
and `BoundsAssumption`; it extends `MailStoreProofs`.

- `SyncInvariant`: `SyncSpec => []SyncInv`, which is `Places /\ Agreement /\ Recorded`.
  - `Convergence` speaks of the moments when nothing is under way, and says nothing of
    how one gets there. `Places` says where everything under way stands in the account's log: the
    labels of a message are those of its last change (`AccountLogged`), what is to be applied
    is the end of the log as far as it was handed on (`StreamPlaced`), a page to be stored is the slice of what was
    listed at one position (`BoxesPlaced`), and a refresh has an object to spare (`RefreshPlaced`).
  - `Agreement` is `Convergence` for every moment: a mailbox in use may differ from the account
    over a message that is not excused only if a change still to come moves it
    (`NoneComing`), or if the listing that fills the mailbox has not come to it
    (`Unlisted`). Whose listing that is has to be known, since two objects share one bucket:
    `filled`. A page that ends a listing ends the second excuse, and that is where a page that is too short
    or shifted would break the invariant: ranks in the listed set tell which messages are left.
  - `Recorded` drops from `EntryHasRecord` that the mailbox is settled: an event is applied by the record
    it finds, so the entries of a mailbox being listed need theirs too.
- From it: `SyncTypes` (`SyncTypeOK`), `SyncConverges` (`Convergence`), `EntriesHaveRecords` (`EntryHasRecord`).
- `SyncUsesStore`: `SyncSpec => [][Next]_vars`, where `Next` is that of `MailStore`. Every step
  of the bridge is one call of the database or none, and its arguments are among those `MailStore` allows.
  What is proved of the database alone holds therefore of the database in use:
  `SyncImplementsUidMailbox` (`ImplementsUidMailbox`) and `SyncIsFollowable` (`RepliesFollowable`).

Both assumptions are on constants: bounds are numbers, messages are
numbered, and `Nil` is no set of labels, since an update tells a nil slice from an empty one.

Layout: slices of a set of numbers; the log; what a step leaves alone; then the steps of the server, of
the stream, of a refresh and of a listing. `ItemApplied` puts the branches of an event handler together,
and `PageStored` what `Sync` does with a page.

### EventStreamProofs

For any subscribers, receivers and events, from `EventStreamAssumption`.

- `StreamInvariant`: `Spec => []StreamInv`. That nobody sends on a closed channel is not
  inductive: one needs that what a receiver has yet to send to is registered with it
  (`UnsentOK`), that it is empty unless the lock is held, since `Unsubscribe`
  takes the lock, and that a receiver's channels are those registered
  with it, each once (`ChannelsOK`), since the goroutine that leaves takes out one
  only. `HomeOK` is the converse: who is registered has a channel with the receiver it
  joined. `CurrentOK` ties the map to the receiver that runs.
- From it: `TypeCorrect`, `NeverSendsOnClosed` (`NoSendOnClosed`), `ReceiversExclude`
  (`OneReceiver`), `PunctualAreServed` (`ServedUnlessLate`).
- `StreamImplementsFeed`: `Spec => ImplementsFeed`. It has an invariant of its
  own, `GapOK`: the cursor, the event in hand and the last one each subscriber was
  sent keep step. Whoever has still to be sent the event in hand has had all before it,
  whoever is not in that list has had it, and a subscriber that has had nothing may start
  anywhere. That the list names each subscriber once, which `ChannelsOK` gives,
  is what keeps a second send of one event out; that no answer is newer than the
  account (`EventsOK`) is what keeps `latest` from going back. A send tells one subscriber
  (`Told`) and leaves the others; every other step is at most a fetch (`FeedAsks`).

Layout: `RemovedChannels` is about the removal from a slice; `QuietStep` covers the steps
that register nobody; then one lemma per action, and the same again for `GapOK`.

### SendMailProofs

For any connections, mails and addresses, from `SendMailAssumption`.

- `SendInvariant`: `Spec => []SendInv`. That accepted mail is whole is decided at the draft
  (`DraftsOK`: the draft a job works on has the parts the job has passed, and no other
  job writes it) and long before it is accepted (`SentOnce`: what the server has sent is a draft that is no
  longer changed). `JobsOK` says how far a job is, `SessionsOK` that a job's envelope is that
  of its session, `UploadsOK` how the two goroutines of an attachment belong to a job.
- From it: `SendTypeCorrect` (`TypeOK`), `AcceptedMailIsWhole` (`AcceptedIsWhole`),
  `OnlyNamedReceive` (`OnlyNamed`), `TwiceOnlyUnanswered` (`TwiceOnlyIfUnanswered`),
  `ConnectionHasOneReader` (`OneReader`).

### BridgeProofs

About `ImapUser`, for any sessions, names and bounds, from `ImapUserAssumption`, which says among others
that the sessions are finite: the reference count is a number of sessions.

- `UserInvariant`: `Spec => []UserInv`. That every session that is logged in has a registered user that counts it, whose
  file is open and whose events goroutine runs (`SessionsServed`) needs that the count of a user is the number of its
  sessions (`Counted`), since the user goes when the count is 0; that a user somebody uses is
  the one `getUser` finds by the name (`UserAlive`), since a login joins what it finds; and that whoever
  changes the count holds the mutex (`MutexesHeld`, which covers the mailbox's mutex and the waiting writer as well).
  That a receiver sends events to this goroutine is no part of it, and is false of a `Deaf` user.
- From it: `UserTypeCorrect` (`TypeOK`), `SessionsAreServed` (`SessionsServed`), `MutexesAreHeld`.

About `BridgeHealth`, for any logins, thresholds and timeouts, from `BridgeHealthAssumption`.

- `HealthInvariant`: `HealthSpec => []HealthInv`. `FailuresCounted` says that the count and the
  time of the first failure are those of the history; `LoginsCovered` that the
  number of logins is exact and no login is older than the clock. The second needs the
  first half to be inductive: the clock starts when the count is 0, which must
  mean that nobody is in.
- From it: `NoLoginHidden` (`LoginsCovered`) and `RestartsAreJustified` (`RestartJustified`).

### CardDavCacheProofs

For any contacts, requests and length of the log, from `CardDavAssumption`.

- `CacheInvariant`: `Spec => []CacheInv`. It is `BookOK` (the log and the versions in it),
  `HeldOK` (what the backend holds is what the part of the log that was handled or lost leaves, but for `stale` and
  `miscounted`) and `AnswersOK` (an answer under way in a request is of a moment between that
  request's question and now). A request stores what it was answered in an earlier step,
  so `CacheFresh` alone is not inductive: `AnswersOK` carries the answer across the events
  that come between. A lost change takes `applied` forward without touching cache or total, so the two exceptions have to be exactly
  what it leaves behind: the cached contacts it makes older, and a count that differs.
- From it: `CacheTypeCorrect` (`TypeOK`), `TotalIsExact` (`TotalExact`), `CacheIsFresh` (`CacheFresh`),
  `CompleteCacheIsExact` (`CompleteIsExact`).

### AuthStoreProofs

For any accounts, clients, threads and tokens, from `AuthStoreAssumption`.

- `AuthInvariant`: `Spec => []AuthInv`. One part for each place a token or a password can
  be: the file (`SavedCurrent`), a client (`ClientsCurrent`), a thread with an answer
  (`AnswersFresh`), a thread that is about to save (`SavesCurrent`), the password that was
  printed, or is about to be (`PrintedCurrent`). `TokensOwned` says that no token is of two accounts, without
  which a refresh of one would spoil another.
- From it: `AuthTypeCorrect` (`TypeOK`), `EmptyFileIsASave` (`EmptyOnlyWhileSaving`), `SavedTokensWork`
  (`SavedTokenWorks`), `PrintedPasswordsOpen` (`PrintedPasswordOpens`), `ClientTokensWork`
  (`ClientTokenWorks`), `ClientsAreAuthorized` (`ClientAuthorized`).
- The proof found the exceptions incomplete. A refresh overtakes every thread that is going to
  save the token it uses up, those of another client that loaded the same token
  included (`ToSave`); the model had marked the threads of one client only. The run
  did not show it, for it takes a fifth token. `SavedTokenWorks` holds as corrected.

Layout: one lemma per action for the shape of the state, then lemmas that say what an action does
to each part of it, then one step lemma per invariant, which use nothing but those.

### ImapViewProofs

For any connections, mailboxes and messages, from `ImapViewAssumption` and
`BoundsAssumption`; it extends `MailStoreProofs`, whose lemmas say what a call of the database does
to a bucket. The assumption says that messages are numbered and finite in number, and that
`Nil` is no set of labels, since an update distinguishes a nil slice from an empty one.

- `ViewInvariant`: `ViewSpec => []ViewInv`. `ViewFollows` speaks of a client that has taken all updates, so it is not
  inductive. `Follows` says that the updates on their way, taken one by one, lead a
  client that follows from what it knows to the bucket (`Led`). A bucket is made a
  list for this (`ListOf`), to which a creation appends (`ListCreated`) and from which a deletion takes
  one entry (`ListDeleted`). An update that is not `sound` may lead nowhere: a client that takes it loses step unless it
  changes nothing. Nothing is asked of the events that are still to come, so it makes no difference which of them are lost, or that a
  record disagrees with the bucket.
  `InStep` says for whom updates are made at all: what a client that follows has selected is in the
  map, and it knows no message before the listing. `Refreshed` numbers the mailbox objects apart, so that a listing through one does not
  count for a client of another.
- `ClientsFollow` (`ViewFollows`), from it.
- `DestroyedWasMeant` (`DestroyedAsMeant`): it rests on the former, for a client that names a
  message by number names what it means only when it is in step (`NamedInStep`). `Flagged` carries
  the intention from the flag to the copy of the set that EXPUNGE destroys, per mailbox object, and a refresh does not clear
  the set of the old one.
- `MovesNeverLose` (`MoveNeverLoses`), from `Moved`: between the two requests of a MOVE what is about to
  leave its mailbox is in the other. The proof found an exception missing, a second connection
  whose own MOVE takes the message from the destination between the two requests; the run
  could not show it with one client. `TakenAway` is the exception now.

Layout: rank in a finite set of numbers; lists and updates; the account; then one lemma per
action. `Handled` is what an event handler does to the mailboxes, whichever of its branches it takes, and
`OwnStep` says that a command under way is ended by nobody else, which the two properties of steps need.

## 5. What is only model-checked

Liveness only: `PollTaken` and `LeavingEnds` of `EventStream`, `CommandsEnd` and `PollReturns` of
`ImapUser`, `StuckLoginRestarts` and `FailingApiRestarts` of `BridgeHealth`. Fairness is
defined by ENABLED, which is out of the provers' reach.

Every other property of a passing run is a theorem of section 4. The type invariants of
`EventStream` and `BridgeHealth` are proved and in no run, and so is `IndexExact`.

The theorems are about the models, for every value of the constants; what the models leave
out of the code is in section 7. The bounds (`MaxUid`, `MaxLog`, `MaxToken`, ...) are
constants of the proofs like any other: nothing is assumed of them but that they are numbers, some of them
not 0.

## 6. What is left

- Answers of the CardDAV backend: a contact that is cached between the two critical
  sections of `GetAddressObject` is answered with Not Found although it exists, and a PUT then creates
  it again. The model has the steps; no property judges the answers.
- A run of `ImapView` with two views of one mailbox. The theorems hold for any number of them; the
  run, which has one, shows the exceptions that two take by the objects of two maps.
- Liveness as theorems.

## 7. What is not modelled, and why

- Cryptography (OpenPGP, SRP, key derivation), MIME structure, vCards, request
  building: pure conversions with no state, out of TLC's reach or without
  an interleaving.
- Flags other than labels and `\Deleted`, message bodies and headers in the database;
  the criteria of a SEARCH and the items of a FETCH.
- That `do` repeats a request that is answered 401 or 429 without a bound.
- The unlocked `sessions` map of `auth.Manager` and the `handlers` map of
  CardDAV: data races of the Go program, outside what its code decides.
- In the runs, a second refresh in one login, and one after a second login: `MaxRenewals`, `MaxRefresh`. The proofs have any number.
- In `ImapUser`, which mailbox a lock is of and whether an object is initialized: there is one mailbox, and a SEARCH may find it
  either way, which leaves out nothing that a SEARCH may wait for.
- The Importer (`protonmail/import.go`): one producer, one consumer, one pipe, as in
  an upload of `SendMail`; and export, which keeps no state.
- `hydroxide imap` alone runs no watchdog; `BridgeHealth` models `serve`.
- Creating, deleting and renaming mailboxes, which the code does not implement.
