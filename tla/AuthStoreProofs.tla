--------------------------- MODULE AuthStoreProofs ---------------------------
(***************************************************************************)
(* Proofs about AuthStore, for any accounts, clients, authentications and  *)
(* number of tokens: what is saved in auth.json and what a client holds go *)
(* on working, but for what the history variables name.                    *)
(***************************************************************************)
EXTENDS AuthStore, TLAPS

Places == {"idle", "refreshing", "answered", "unlocking", "reading", "creating", "writing",
           "printing"}

\* Where a thread has what it is going to save.
Saving == {"unlocking", "reading", "creating", "writing"}

EntryTo(n) == [token : 0 .. n, key : 0 .. n, password : BOOLEAN]

FileTo(n) == UNION {[S -> EntryTo(n)] : S \in SUBSET Users}

ClientTo(n) ==
  [user : Users \cup {Nobody}, auth : EntryTo(n), live : BOOLEAN, access : BOOLEAN]

ThreadTo(n) ==
  [pc : Places, user : Users \cup {Nobody}, client : Clients \cup {Nothing}, answer : 0 .. n,
   entry : EntryTo(n), read : FileTo(n), rotated : BOOLEAN, overtaken : BOOLEAN,
   raced : BOOLEAN]

\* Everything holds only tokens that the server has issued.
Typed ==
  /\ issued \in 0 .. MaxToken /\ valid \subseteq 1 .. issued
  /\ file \in FileTo(issued)
  /\ client \in [Clients -> ClientTo(issued)]
  /\ thread \in [Threads -> ThreadTo(issued)]

\* A thread works for one account, with a client of that account or none.
ThreadsShaped ==
  \A t \in Threads :
    /\ thread[t].pc = "printing" => thread[t].client = Nothing /\ ~thread[t].rotated
    /\ thread[t].pc = "idle" =>
         thread[t].user = Nobody /\ thread[t].client = Nothing /\ ~thread[t].rotated
    /\ thread[t].pc # "idle" => thread[t].user \in Users
    /\ thread[t].pc \in {"refreshing", "answered", "unlocking"} => thread[t].client \in Clients
    /\ thread[t].client \in Clients =>
         thread[t].pc # "idle" /\ client[thread[t].client].user = thread[t].user

\* A client that is not registered yet belongs to the thread that logs it in.
ClientsShaped ==
  /\ \A c \in Clients : client[c].live => client[c].user \in Users
  /\ \A s, t \in Threads :
       thread[s].client \in Clients /\ thread[s].client = thread[t].client
         /\ ~client[thread[s].client].live => s = t

Shaped == Typed /\ ThreadsShaped /\ ClientsShaped

\* A client without an access token is being re-authenticated; one that is about to
\* be registered has its access token.
Authorized ==
  \A c \in Clients :
    /\ client[c].live /\ ~client[c].access /\ c \notin shut =>
         \E t \in Threads : thread[t].client = c /\ thread[t].pc \in {"refreshing", "answered"}
    /\ \A t \in Threads :
         thread[t].client = c /\ thread[t].pc \in Saving /\ ~client[c].live => client[c].access

\* A token outside the answers on their way.
Held(k) ==
  \/ \E u \in DOMAIN file : file[u].token = k
  \/ \E c \in Clients : client[c].auth.token = k
  \/ \E t \in Threads : \/ thread[t].entry.token = k
                        \/ \E u \in DOMAIN thread[t].read : thread[t].read[u].token = k

\* An answer that nobody has kept yet works, unless the session was ended elsewhere,
\* and nobody else has its token.
AnswersFresh ==
  \A t \in Threads : thread[t].pc = "answered" =>
    /\ thread[t].answer # 0 /\ (thread[t].answer \in valid \/ thread[t].overtaken)
    /\ ~Held(thread[t].answer)
    /\ \A s \in Threads \ {t} :
         thread[s].pc = "answered" => thread[s].answer # thread[t].answer

\* The token of a client works or its successor is on its way, once the client has
\* kept one.
ClientsCurrent ==
  \A c \in Clients \ stranded :
    client[c].live \/ (\E t \in Threads : thread[t].client = c /\ thread[t].pc \in Saving) =>
      \/ client[c].auth.token \in valid
      \/ \E t \in Threads : thread[t].client = c /\ thread[t].pc = "answered"

\* What a thread is going to save.
SavesCurrent ==
  \A t \in Threads :
    /\ thread[t].pc \in Saving /\ ~thread[t].overtaken => ToSave(t) \in valid
    /\ thread[t].pc \in {"creating", "writing"} /\ ~thread[t].raced => thread[t].read = file

\* A token of the account u, wherever it is.
Holds(u, k) ==
  \/ u \in DOMAIN file /\ file[u].token = k
  \/ \E c \in Clients : client[c].user = u /\ client[c].auth.token = k
  \/ \E t \in Threads : \/ thread[t].user = u /\ k \in {thread[t].entry.token, thread[t].answer}
                        \/ u \in DOMAIN thread[t].read /\ thread[t].read[u].token = k

\* No token of one account is ever another's.
TokensOwned ==
  \A u, v \in Users, k \in 1 .. issued : Holds(u, k) /\ Holds(v, k) => u = v

\* Somebody has been told a password for the account, or is about to be.
Told(u) ==
  u \in DOMAIN printed \/ \E t \in Threads : thread[t].pc = "printing" /\ thread[t].user = u

\* The saved token works, or the thread that has used it up is under way.
SavedCurrent ==
  \A u : Told(u) /\ u \notin spoilt =>
    /\ u \in DOMAIN file
    /\ file[u].token \in valid \/ \E t \in Threads : thread[t].user = u /\ thread[t].rotated

\* The printed password is the one of the entry, and so is one that is about to be
\* printed, unless another save has come in between.
PrintedCurrent ==
  /\ \A u \in DOMAIN printed \ replaced : u \in DOMAIN file /\ file[u].key = printed[u]
  /\ \A t \in Threads : thread[t].pc = "printing" /\ ~thread[t].raced =>
       /\ thread[t].user \in DOMAIN file
       /\ file[thread[t].user].key = thread[t].entry.key

AuthInv ==
  /\ Shaped /\ truncated \in BOOLEAN
  /\ EmptyOnlyWhileSaving /\ Authorized /\ AnswersFresh /\ ClientsCurrent
  /\ SavesCurrent /\ TokensOwned /\ SavedCurrent /\ PrintedCurrent

-----------------------------------------------------------------------------
(* The shape of the state.                                                  *)

\* What was of a type stays so when a token has been issued.
LEMMA MoreTokens ==
  ASSUME NEW m \in Int, NEW n \in Int, m <= n
  PROVE  /\ EntryTo(m) \subseteq EntryTo(n) /\ FileTo(m) \subseteq FileTo(n)
         /\ ClientTo(m) \subseteq ClientTo(n) /\ ThreadTo(m) \subseteq ThreadTo(n)
<1>1. 0 .. m \subseteq 0 .. n
  OBVIOUS
<1>2. EntryTo(m) \subseteq EntryTo(n)
  BY <1>1 DEF EntryTo
<1>3. FileTo(m) \subseteq FileTo(n)
  BY <1>2 DEF FileTo
<1>4. ClientTo(m) \subseteq ClientTo(n)
  BY <1>2 DEF ClientTo
<1>5. ThreadTo(m) \subseteq ThreadTo(n)
  BY <1>1, <1>2, <1>3 DEF ThreadTo
<1> QED
  BY <1>2, <1>3, <1>4, <1>5

\* A thread at rest, no client and an empty file are of their types.
LEMMA IdleTyped ==
  ASSUME NEW n \in Nat
  PROVE  /\ NoEntry \in EntryTo(n) /\ Idle \in ThreadTo(n) /\ NoClient \in ClientTo(n)
         /\ [u \in {} |-> NoEntry] \in FileTo(n)
<1>1. NoEntry \in EntryTo(n)
  BY DEF NoEntry, EntryTo
<1>2. [u \in {} |-> NoEntry] \in FileTo(n)
  BY DEF FileTo
<1>3. NoClient \in ClientTo(n)
  BY <1>1 DEF NoClient, ClientTo
<1>4. Idle \in ThreadTo(n)
  BY <1>1, <1>2 DEF Idle, ThreadTo, Places
<1> QED
  BY <1>1, <1>2, <1>3, <1>4

\* The shape of the initial state.
LEMMA InitShaped == Init => Shaped
<1> SUFFICES ASSUME Init PROVE Shaped
  OBVIOUS
<1>1. Typed
  BY IdleTyped, AuthAssumption DEF Init, Typed
<1>2. ThreadsShaped /\ ClientsShaped
  BY AuthAssumption DEF Init, ThreadsShaped, ClientsShaped, Idle, NoClient
<1> QED
  BY <1>1, <1>2 DEF Shaped

\* What a thread at rest knows.
LEMMA IdleFields ==
  /\ Idle.pc = "idle" /\ Idle.user = Nobody /\ Idle.client = Nothing /\ Idle.entry = NoEntry
  /\ Idle.rotated = FALSE /\ Idle.overtaken = FALSE /\ Idle.raced = FALSE
  /\ Nothing \notin Clients /\ Nobody \notin Users
BY AuthAssumption DEF Idle

\* A thread ends, with the client it logs in if that is not registered yet.
LEMMA EndShaped ==
  ASSUME Shaped, Typed', NEW t \in Threads, thread'[t] = Idle,
         \A s \in Threads \ {t} :
           /\ thread'[s].pc = thread[s].pc /\ thread'[s].rotated = thread[s].rotated
           /\ thread'[s].user = thread[s].user /\ thread'[s].client = thread[s].client,
         \A c \in Clients :
           \/ /\ c = thread[t].client /\ ~client[c].live /\ client'[c] = NoClient
           \/ /\ client'[c].user = client[c].user /\ (client[c].live => client'[c].live)
              /\ client'[c].live # client[c].live => c = thread[t].client
  PROVE  Shaped'
<1>1. \A s \in Threads \ {t} : thread[s].client \in Clients =>
        /\ client'[thread[s].client].user = client[thread[s].client].user
        /\ client[thread[s].client].live => client'[thread[s].client].live
  BY DEF Shaped, ClientsShaped
<1>2. ThreadsShaped'
  BY <1>1, IdleFields DEF Shaped, ThreadsShaped
<1>3. ClientsShaped'
  <2>1. \A c \in Clients : client'[c].live => client'[c].user \in Users
    BY DEF Shaped, ClientsShaped, ThreadsShaped, NoClient
  <2>2. ASSUME NEW r \in Threads, NEW s \in Threads, thread'[r].client \in Clients,
               thread'[r].client = thread'[s].client, ~client'[thread'[r].client].live
        PROVE  r = s
    BY <1>1, <2>2, IdleFields DEF Shaped, ClientsShaped
  <2> QED
    BY <2>1, <2>2 DEF ClientsShaped
<1> QED
  BY <1>2, <1>3 DEF Shaped

\* A thread fails: the state keeps its shape.
LEMMA FailShaped ==
  ASSUME Shaped, NEW t \in Threads, Fail(t), UNCHANGED <<issued, valid, file>>
  PROVE  Shaped'
<1>1. /\ \A s \in Threads : thread'[s] = IF s = t THEN Idle ELSE thread[s]
      /\ \A c \in Clients : client'[c] = IF c = thread[t].client /\ ~client[c].live
                                           THEN NoClient ELSE client[c]
  BY DEF Shaped, Typed, Fail
<1>2. Typed'
  BY <1>1, IdleTyped DEF Shaped, Typed, Fail
<1> QED
  BY <1>1, <1>2, EndShaped

\* A step of a thread that is under way and stays so.
LEMMA MoveShaped ==
  ASSUME Shaped, Typed', NEW t \in Threads,
         \A s \in Threads : /\ thread'[s].user = thread[s].user
                            /\ thread'[s].client = thread[s].client,
         \A s \in Threads \ {t} : /\ thread'[s].pc = thread[s].pc
                                  /\ thread'[s].rotated = thread[s].rotated,
         thread[t].pc # "idle", thread'[t].pc # "idle",
         thread'[t].pc = "printing" => thread[t].client = Nothing /\ ~thread'[t].rotated,
         thread'[t].pc \in {"answered", "unlocking"} => thread[t].client \in Clients,
         thread'[t].pc # "refreshing",
         \A c \in Clients : /\ client'[c].user = client[c].user
                            /\ client'[c].live = client[c].live
  PROVE  Shaped'
<1>1. ThreadsShaped'
  BY DEF Shaped, ThreadsShaped
<1>2. ClientsShaped'
  BY DEF Shaped, ClientsShaped
<1> QED
  BY <1>1, <1>2 DEF Shaped

\* A command starts to save an entry with tokens issued by now.
LEMMA BeginShaped ==
  ASSUME Shaped, NEW t \in Threads, NEW u \in Users, thread[t] = Idle,
         issued' = issued + 1, issued' <= MaxToken, valid' \subseteq 1 .. issued',
         UNCHANGED <<file, client>>,
         NEW began \in ThreadTo(issued'), thread' = [thread EXCEPT ![t] = began],
         began.pc = "reading", began.user = u, began.client = Nothing
  PROVE  Shaped'
<1>1. issued \in Nat /\ issued' \in Nat /\ issued <= issued' /\ MaxToken \in Nat
  BY AuthAssumption DEF Shaped, Typed
<1>2. /\ \A s \in Threads \ {t} : thread'[s] = thread[s]
      /\ thread'[t].pc = "reading" /\ thread'[t].user = u /\ thread'[t].client = Nothing
  BY DEF Shaped, Typed, Idle
<1>3. Typed'
  <2>1. thread \in [Threads -> ThreadTo(issued')]
    BY <1>1, MoreTokens DEF Shaped, Typed
  <2>2. thread' \in [Threads -> ThreadTo(issued')]
    BY <2>1
  <2>3. file \in FileTo(issued') /\ client \in [Clients -> ClientTo(issued')]
    BY <1>1, MoreTokens DEF Shaped, Typed
  <2> QED
    BY <1>1, <2>2, <2>3 DEF Typed
<1>4. ThreadsShaped' /\ ClientsShaped'
  BY <1>2, IdleFields DEF Shaped, ThreadsShaped, ClientsShaped
<1> QED
  BY <1>3, <1>4 DEF Shaped

\* The start of hydroxide auth: the state keeps its shape.
LEMMA AddAccountShaped ==
  ASSUME Shaped, NEW t \in Threads, NEW u \in Users, AddAccount(t, u)
  PROVE  Shaped'
<1> DEFINE entry == [token |-> issued', key |-> issued', password |-> TRUE]
<1>1. /\ thread[t] = Idle /\ issued' = issued + 1 /\ issued' <= MaxToken
      /\ valid' = valid \cup {issued'} /\ UNCHANGED <<file, client>>
  BY AuthAssumption DEF Shaped, Typed, AddAccount, fileVars
<1>2. issued \in Nat /\ issued' \in Nat /\ valid \subseteq 1 .. issued
  BY <1>1 DEF Shaped, Typed
<1>3. valid' \subseteq 1 .. issued'
  BY <1>1, <1>2
<1>4. entry \in EntryTo(issued')
  BY <1>2 DEF EntryTo
<1> DEFINE began == [Idle EXCEPT !.pc = "reading", !.user = u, !.entry = entry]
<1>5. thread' = [thread EXCEPT ![t] = began]
  BY DEF AddAccount
<1> HIDE DEF entry
<1>6. Idle \in ThreadTo(issued')
  BY <1>2, IdleTyped
<1>7. /\ began \in ThreadTo(issued')
      /\ began.pc = "reading" /\ began.user = u /\ began.client = Nothing
  BY <1>4, <1>6, IdleFields DEF ThreadTo, Places
<1> HIDE DEF began
<1> QED
  BY <1>1, <1>3, <1>5, <1>7, BeginShaped

\* The start of auth-import: the state keeps its shape.
LEMMA AuthImportShaped ==
  ASSUME Shaped, NEW t \in Threads, NEW u \in Users, NEW password \in BOOLEAN,
         AuthImport(t, u, password)
  PROVE  Shaped'
<1>1. PICK token \in {issued'} \cup {file[v].token : v \in {u} \cap DOMAIN file} :
        /\ valid' \in {valid} \cup (IF token = issued' THEN {valid \cup {issued'}} ELSE {})
        /\ thread' = [thread EXCEPT ![t] = [Idle EXCEPT
             !.pc = "reading", !.user = u, !.overtaken = token \notin valid',
             !.entry = [token |-> token, key |-> issued', password |-> password]]]
  BY DEF AuthImport
<1> DEFINE entry == [token |-> token, key |-> issued', password |-> password]
<1>2. /\ thread[t] = Idle /\ issued' = issued + 1 /\ issued' <= MaxToken
      /\ UNCHANGED <<file, client>>
  BY AuthAssumption DEF Shaped, Typed, AuthImport, fileVars
<1>3. issued \in Nat /\ issued' \in Nat /\ valid \subseteq 1 .. issued /\ issued <= issued'
  BY <1>2 DEF Shaped, Typed
<1>4. valid' \subseteq 1 .. issued'
  BY <1>1, <1>2, <1>3
<1>5. token \in 0 .. issued'
  <2>1. \A v \in DOMAIN file : file[v].token \in 0 .. issued
    BY DEF Shaped, Typed, FileTo, EntryTo
  <2> QED
    BY <1>1, <1>3, <2>1
<1>6. entry \in EntryTo(issued')
  BY <1>3, <1>5 DEF EntryTo
<1> DEFINE began == [Idle EXCEPT !.pc = "reading", !.user = u,
                                 !.overtaken = token \notin valid', !.entry = entry]
<1>7. thread' = [thread EXCEPT ![t] = began]
  BY <1>1
<1> HIDE DEF entry
<1>8. Idle \in ThreadTo(issued')
  BY <1>3, IdleTyped
<1>9. began \in ThreadTo(issued')
  <2>1. (token \notin valid') \in BOOLEAN
    OBVIOUS
  <2> QED
    BY <1>6, <1>8, <2>1 DEF ThreadTo, Places
<1>10. began.pc = "reading" /\ began.user = u /\ began.client = Nothing
  BY <1>8, IdleFields DEF ThreadTo
<1> HIDE DEF began
<1> QED
  BY <1>2, <1>4, <1>7, <1>9, <1>10, BeginShaped

\* A client is loaded: the state keeps its shape.
LEMMA LoadShaped ==
  ASSUME Shaped, NEW t \in Threads, NEW c \in Clients, NEW u \in Users, Load(t, c, u)
  PROVE  Shaped'
<1>1. /\ thread[t] = Idle /\ client[c] = NoClient /\ UNCHANGED <<issued, valid, file>>
      /\ issued \in Nat /\ file[u] \in EntryTo(issued)
  BY AuthAssumption DEF Load, serverVars, fileVars, Shaped, Typed, FileTo
<1> DEFINE fresh == [user |-> u, auth |-> file[u], live |-> FALSE, access |-> FALSE]
           started == [Idle EXCEPT !.pc = "refreshing", !.user = u, !.client = c]
<1>2. fresh \in ClientTo(issued) /\ fresh.user = u /\ fresh.live = FALSE
  BY <1>1 DEF ClientTo
<1>3. /\ started \in ThreadTo(issued) /\ started.pc = "refreshing"
      /\ started.user = u /\ started.client = c
  <2>1. Idle \in ThreadTo(issued)
    BY <1>1, IdleTyped
  <2> QED
    BY <2>1 DEF ThreadTo, Places
<1>4. client' = [client EXCEPT ![c] = fresh] /\ thread' = [thread EXCEPT ![t] = started]
  BY DEF Load
<1> HIDE DEF fresh, started
<1>5. Typed'
  BY <1>1, <1>2, <1>3, <1>4 DEF Shaped, Typed
<1>6. /\ \A s \in Threads : thread'[s] = IF s = t THEN started ELSE thread[s]
      /\ \A d \in Clients : client'[d] = IF d = c THEN fresh ELSE client[d]
  BY <1>4 DEF Shaped, Typed
<1>7. \A s \in Threads : thread[s].client # c
  BY <1>1, AuthAssumption DEF Shaped, ThreadsShaped, NoClient
<1>8. ThreadsShaped' /\ ClientsShaped'
  BY <1>1, <1>2, <1>3, <1>6, <1>7, IdleFields DEF Shaped, ThreadsShaped, ClientsShaped
<1> QED
  BY <1>5, <1>8 DEF Shaped

\* A thread begins to refresh: the state keeps its shape.
LEMMA ReAuthShaped ==
  ASSUME Shaped, NEW t \in Threads, NEW c \in Clients, ReAuth(t, c)
  PROVE  Shaped'
<1>1. /\ thread[t] = Idle /\ client[c].live /\ UNCHANGED <<issued, valid, file>>
      /\ issued \in Nat /\ client[c].user \in Users
  BY AuthAssumption DEF ReAuth, serverVars, fileVars, Shaped, Typed, ClientsShaped
<1> DEFINE started == [Idle EXCEPT !.pc = "refreshing", !.user = client[c].user, !.client = c]
<1>2. /\ started \in ThreadTo(issued) /\ started.pc = "refreshing"
      /\ started.user = client[c].user /\ started.client = c
  <2>1. Idle \in ThreadTo(issued)
    BY <1>1, IdleTyped
  <2> QED
    BY <1>1, <2>1 DEF ThreadTo, Places
<1>3. /\ client' = [client EXCEPT ![c] = [client[c] EXCEPT !.access = FALSE]]
      /\ thread' = [thread EXCEPT ![t] = started]
  BY DEF ReAuth
<1> HIDE DEF started
<1>4. Typed'
  <2>1. client[c] \in ClientTo(issued)
    BY DEF Shaped, Typed
  <2>2. [client[c] EXCEPT !.access = FALSE] \in ClientTo(issued)
    BY <2>1 DEF ClientTo
  <2> QED
    BY <1>1, <1>2, <1>3, <2>2 DEF Shaped, Typed
<1>5. /\ \A s \in Threads : thread'[s] = IF s = t THEN started ELSE thread[s]
      /\ \A d \in Clients : client'[d].user = client[d].user /\ client'[d].live = client[d].live
  BY <1>3 DEF Shaped, Typed, ClientTo
<1>6. ThreadsShaped' /\ ClientsShaped'
  BY <1>1, <1>2, <1>5, IdleFields DEF Shaped, ThreadsShaped, ClientsShaped
<1> QED
  BY <1>4, <1>6 DEF Shaped

\* A client takes its answer: the state keeps its shape.
LEMMA KeepShaped ==
  ASSUME Shaped, NEW t \in Threads, Keep(t)
  PROVE  Shaped'
<1> DEFINE c == thread[t].client
<1>1. /\ thread[t].pc = "answered" /\ c \in Clients /\ UNCHANGED <<issued, valid, file>>
      /\ thread[t] \in ThreadTo(issued) /\ client[c] \in ClientTo(issued)
  BY DEF Keep, serverVars, fileVars, Shaped, Typed, ThreadsShaped
<1>2. /\ client' = [client EXCEPT ![c] =
           [client[c] EXCEPT !.auth = [client[c].auth EXCEPT !.token = thread[t].answer],
                             !.access = TRUE]]
      /\ \A s \in Threads :
           \/ s = t /\ thread'[s] = [thread[s] EXCEPT !.pc = "unlocking"]
           \/ s # t /\ thread'[s] = thread[s]
           \/ s # t /\ thread'[s] = [thread[s] EXCEPT !.overtaken = thread[t].overtaken]
      /\ DOMAIN thread' = Threads /\ thread' = [s \in Threads |-> thread'[s]]
  BY <1>1 DEF Keep, ClientTo, EntryTo, Shaped, Typed
<1>3. [client[c] EXCEPT !.auth = [client[c].auth EXCEPT !.token = thread[t].answer],
                        !.access = TRUE] \in ClientTo(issued)
  BY <1>1 DEF ClientTo, ThreadTo, EntryTo
<1>4. \A s \in Threads :
        /\ thread'[s] \in ThreadTo(issued)
        /\ thread'[s].user = thread[s].user /\ thread'[s].client = thread[s].client
        /\ thread'[s].rotated = thread[s].rotated
        /\ thread'[s].pc = IF s = t THEN "unlocking" ELSE thread[s].pc
  <2>1. \A s \in Threads : thread[s] \in ThreadTo(issued)
    BY DEF Shaped, Typed
  <2> QED
    BY <1>2, <2>1 DEF ThreadTo, Places
<1>5. Typed'
  <2>1. thread' \in [Threads -> ThreadTo(issued)]
    BY <1>2, <1>4
  <2> QED
    BY <1>1, <1>2, <1>3, <2>1 DEF Shaped, Typed
<1>6. \A d \in Clients : client'[d].user = client[d].user /\ client'[d].live = client[d].live
  BY <1>1, <1>2 DEF Shaped, Typed, ClientTo
<1> QED
  BY <1>1, <1>4, <1>5, <1>6, MoveShaped

\* A refresh is answered or its answer lost: the state keeps its shape.
LEMMA RotateShaped ==
  ASSUME Shaped, NEW t \in Threads, Rotate(t)
  PROVE  Shaped'
<1> DEFINE c == thread[t].client
           token == client[c].auth.token
           others == Overtaken(token)
<1>1. /\ thread[t].pc = "refreshing" /\ issued' = issued + 1 /\ issued < MaxToken
      /\ valid' = (valid \ {token}) \cup {issued'} /\ UNCHANGED file
  BY DEF Rotate, fileVars
<1>2. /\ issued \in Nat /\ issued' \in Nat /\ issued' <= MaxToken /\ issued <= issued'
      /\ valid' \subseteq 1 .. issued' /\ c \in Clients
  <2>1. issued \in Nat /\ MaxToken \in Nat /\ valid \subseteq 1 .. issued
    BY AuthAssumption DEF Shaped, Typed
  <2>2. c \in Clients
    BY <1>1 DEF Shaped, ThreadsShaped
  <2>3. issued' = issued + 1 /\ issued < MaxToken /\ valid' \subseteq valid \cup {issued'}
    BY <1>1
  <2>4. valid' \subseteq 1 .. issued'
    BY <2>1, <2>3
  <2> QED
    BY <2>1, <2>2, <2>3, <2>4
<1>3. /\ file' \in FileTo(issued') /\ client \in [Clients -> ClientTo(issued')]
      /\ thread \in [Threads -> ThreadTo(issued')] /\ NoClient \in ClientTo(issued')
      /\ Idle \in ThreadTo(issued')
  BY <1>1, <1>2, MoreTokens, IdleTyped DEF Shaped, Typed
<1>4. /\ others \in [Threads -> ThreadTo(issued')]
      /\ \A s \in Threads :
           /\ others[s].pc = thread[s].pc /\ others[s].rotated = thread[s].rotated
           /\ others[s].user = thread[s].user /\ others[s].client = thread[s].client
  <2>1. \A s \in Threads : (thread[s].overtaken \/ ToSave(s) = token) \in BOOLEAN
    OBVIOUS
  <2> QED
    BY <1>3, <2>1 DEF ThreadTo, Overtaken
<1> HIDE DEF others
<1>5. CASE /\ thread' = [others EXCEPT ![t].pc = "answered", ![t].answer = issued',
                                       ![t].rotated = TRUE]
           /\ UNCHANGED client
  <2>1. /\ \A s \in Threads \ {t} : thread'[s] = others[s]
        /\ thread'[t] = [others[t] EXCEPT !.pc = "answered", !.answer = issued',
                                          !.rotated = TRUE]
    BY <1>4, <1>5
  <2>2. thread'[t] \in ThreadTo(issued')
    <3>1. others[t] \in ThreadTo(issued') /\ issued' \in 0 .. issued'
      BY <1>2, <1>4
    <3> QED
      BY <2>1, <3>1 DEF ThreadTo, Places
  <2>3. thread' \in [Threads -> ThreadTo(issued')]
    BY <1>4, <1>5, <2>1, <2>2
  <2>4. Typed'
    BY <1>2, <1>3, <1>5, <2>3 DEF Typed
  <2>5. /\ thread'[t].pc = "answered" /\ thread'[t].user = thread[t].user
        /\ thread'[t].client = thread[t].client
    BY <1>4, <2>1 DEF ThreadTo
  <2>6. /\ \A s \in Threads : /\ thread'[s].user = thread[s].user
                              /\ thread'[s].client = thread[s].client
        /\ \A s \in Threads \ {t} : /\ thread'[s].pc = thread[s].pc
                                    /\ thread'[s].rotated = thread[s].rotated
    BY <1>4, <2>1, <2>5
  <2> QED
    BY <1>1, <1>2, <1>5, <2>4, <2>5, <2>6, MoveShaped
<1>6. CASE /\ thread' = [others EXCEPT ![t] = Idle]
           /\ client' = IF client[c].live THEN client ELSE [client EXCEPT ![c] = NoClient]
  <2>1. /\ \A s \in Threads \ {t} : thread'[s] = others[s]
        /\ thread'[t] = Idle
        /\ thread' \in [Threads -> ThreadTo(issued')]
    BY <1>3, <1>4, <1>6
  <2>2. /\ client' \in [Clients -> ClientTo(issued')]
        /\ \A d \in Clients : client'[d] = IF d = c /\ ~client[d].live
                                              THEN NoClient ELSE client[d]
    BY <1>3, <1>6
  <2>3. Typed'
    BY <1>2, <1>3, <2>1, <2>2 DEF Typed
  <2> QED
    BY <1>4, <2>1, <2>2, <2>3, EndShaped
<1>7. \/ /\ thread' = [others EXCEPT ![t].pc = "answered", ![t].answer = issued',
                                       ![t].rotated = TRUE]
         /\ UNCHANGED client
      \/ /\ thread' = [others EXCEPT ![t] = Idle]
         /\ client' = IF client[c].live THEN client ELSE [client EXCEPT ![c] = NoClient]
  BY DEF Rotate, others
<1> QED
  BY <1>5, <1>6, <1>7

\* A refresh is refused: the state keeps its shape.
LEMMA RefusedShaped ==
  ASSUME Shaped, NEW t \in Threads, Refused(t)
  PROVE  Shaped'
<1>1. thread[t].pc = "refreshing" /\ UNCHANGED file
  BY DEF Refused, fileVars
<1>2. CASE Fail(t) /\ UNCHANGED serverVars
  BY <1>1, <1>2, FailShaped DEF serverVars
<1>3. CASE /\ issued < MaxToken /\ issued' = issued + 1 /\ valid' = valid \cup {issued'}
           /\ thread' = [thread EXCEPT ![t].pc = "answered", ![t].answer = issued']
           /\ UNCHANGED client
  <2>1. /\ issued \in Nat /\ issued' \in Nat /\ issued' <= MaxToken /\ issued <= issued'
        /\ valid' \subseteq 1 .. issued' /\ thread[t].client \in Clients
    BY <1>1, <1>3, AuthAssumption DEF Shaped, Typed, ThreadsShaped
  <2>2. /\ file \in FileTo(issued') /\ client \in [Clients -> ClientTo(issued')]
        /\ thread \in [Threads -> ThreadTo(issued')]
    BY <2>1, MoreTokens DEF Shaped, Typed
  <2>3. /\ \A s \in Threads \ {t} : thread'[s] = thread[s]
        /\ thread'[t] = [thread[t] EXCEPT !.pc = "answered", !.answer = issued']
    BY <1>3, <2>2
  <2>4. thread'[t] \in ThreadTo(issued')
    <3>1. thread[t] \in ThreadTo(issued') /\ issued' \in 0 .. issued'
      BY <2>1, <2>2
    <3> QED
      BY <2>3, <3>1 DEF ThreadTo, Places
  <2>5. thread' \in [Threads -> ThreadTo(issued')]
    BY <1>3, <2>2, <2>4
  <2>6. Typed'
    BY <1>1, <1>3, <2>1, <2>2, <2>5 DEF Typed
  <2>7. /\ thread'[t].pc = "answered" /\ thread'[t].user = thread[t].user
        /\ thread'[t].client = thread[t].client
    BY <2>2, <2>3 DEF ThreadTo
  <2> QED
    BY <1>1, <1>3, <2>1, <2>3, <2>6, <2>7, MoveShaped
<1> QED
  BY <1>2, <1>3 DEF Refused

\* The keys are unlocked: the state keeps its shape.
LEMMA UnlockShaped ==
  ASSUME Shaped, NEW t \in Threads, Unlock(t)
  PROVE  Shaped'
<1>1. /\ thread[t].pc = "unlocking" /\ UNCHANGED <<issued, valid, file>>
      /\ thread[t].client \in Clients
  BY DEF Unlock, serverVars, fileVars, Shaped, ThreadsShaped
<1>2. CASE Fail(t)
  BY <1>1, <1>2, FailShaped
<1>3. CASE /\ thread' = [thread EXCEPT ![t].pc = "reading",
                                       ![t].entry = client[thread[t].client].auth]
           /\ UNCHANGED client
  <2>1. /\ thread' = [thread EXCEPT ![t] = thread'[t]]
        /\ thread'[t] = [thread[t] EXCEPT !.pc = "reading",
                                          !.entry = client[thread[t].client].auth]
    BY <1>3 DEF Shaped, Typed
  <2>2. thread'[t] \in ThreadTo(issued)
    <3>1. thread[t] \in ThreadTo(issued) /\ client[thread[t].client].auth \in EntryTo(issued)
      BY <1>1 DEF Shaped, Typed, ClientTo
    <3> QED
      BY <2>1, <3>1 DEF ThreadTo, Places
  <2>3. Typed'
    BY <1>1, <1>3, <2>1, <2>2 DEF Shaped, Typed
  <2>4. /\ \A s \in Threads \ {t} : thread'[s] = thread[s]
        /\ thread'[t].pc = "reading" /\ thread'[t].user = thread[t].user
        /\ thread'[t].client = thread[t].client
    BY <2>1 DEF Shaped, Typed, ThreadTo
  <2> QED
    BY <1>1, <1>3, <2>3, <2>4, MoveShaped
<1> QED
  BY <1>2, <1>3 DEF Unlock

\* The file is read: the state keeps its shape.
LEMMA ReadShaped ==
  ASSUME Shaped, NEW t \in Threads, Read(t)
  PROVE  Shaped'
<1>1. thread[t].pc = "reading" /\ UNCHANGED <<issued, valid, file>>
  BY DEF Read, serverVars, fileVars
<1>2. CASE Fail(t)
  BY <1>1, <1>2, FailShaped
<1>3. CASE /\ thread' = [thread EXCEPT ![t].pc = "creating", ![t].read = file]
           /\ UNCHANGED client
  <2>1. /\ thread' = [thread EXCEPT ![t] = thread'[t]]
        /\ thread'[t] = [thread[t] EXCEPT !.pc = "creating", !.read = file]
    BY <1>3 DEF Shaped, Typed
  <2>2. thread'[t] \in ThreadTo(issued)
    <3>1. thread[t] \in ThreadTo(issued) /\ file \in FileTo(issued)
      BY DEF Shaped, Typed
    <3> QED
      BY <2>1, <3>1 DEF ThreadTo, Places
  <2>3. Typed'
    BY <1>1, <1>3, <2>1, <2>2 DEF Shaped, Typed
  <2>4. /\ \A s \in Threads \ {t} : thread'[s] = thread[s]
        /\ thread'[t].pc = "creating" /\ thread'[t].user = thread[t].user
        /\ thread'[t].client = thread[t].client
    BY <2>1 DEF Shaped, Typed, ThreadTo
  <2> QED
    BY <1>1, <1>3, <2>3, <2>4, MoveShaped
<1> QED
  BY <1>2, <1>3 DEF Read

\* The file is emptied: the state keeps its shape.
LEMMA CreateShaped ==
  ASSUME Shaped, NEW t \in Threads, Create(t)
  PROVE  Shaped'
<1>1. /\ thread[t].pc = "creating" /\ UNCHANGED <<issued, valid, file, client>>
      /\ thread' = [thread EXCEPT ![t].pc = "writing"]
  BY DEF Create, serverVars
<1>2. thread' = [thread EXCEPT ![t] = [thread[t] EXCEPT !.pc = "writing"]]
  BY <1>1
<1>3. [thread[t] EXCEPT !.pc = "writing"] \in ThreadTo(issued)
  BY DEF Shaped, Typed, ThreadTo, Places
<1>4. Typed'
  BY <1>1, <1>2, <1>3 DEF Shaped, Typed
<1>5. /\ \A s \in Threads \ {t} : thread'[s] = thread[s]
      /\ thread'[t].pc = "writing" /\ thread'[t].user = thread[t].user
      /\ thread'[t].client = thread[t].client
  BY <1>1, <1>2 DEF Shaped, Typed, ThreadTo
<1> QED
  BY <1>1, <1>4, <1>5, MoveShaped

\* A save fails: the state keeps its shape.
LEMMA SaveFailsShaped ==
  ASSUME Shaped, NEW t \in Threads, SaveFails(t)
  PROVE  Shaped'
BY FailShaped DEF SaveFails, serverVars, fileVars

\* A command that has saved and not printed yet.
Saved(me) ==
  [Idle EXCEPT !.pc = "printing", !.user = me.user,
               !.entry = [NoEntry EXCEPT !.key = me.entry.key]]

\* What such a command knows.
LEMMA SavedFields ==
  ASSUME NEW n \in Nat, NEW me \in ThreadTo(n), me.user \in Users
  PROVE  /\ Saved(me) \in ThreadTo(n) /\ Saved(me).pc = "printing" /\ Saved(me).user = me.user
         /\ Saved(me).client = Nothing /\ ~Saved(me).rotated /\ ~Saved(me).raced
         /\ Saved(me).entry.token = 0 /\ Saved(me).entry.key = me.entry.key
         /\ Saved(me).answer = 0 /\ DOMAIN Saved(me).read = {}
<1>1. Idle \in ThreadTo(n) /\ NoEntry \in EntryTo(n) /\ me.entry.key \in 0 .. n
  BY IdleTyped DEF ThreadTo, EntryTo
<1>2. [NoEntry EXCEPT !.key = me.entry.key] \in EntryTo(n)
  BY <1>1 DEF EntryTo
<1> QED
  BY <1>1, <1>2 DEF Saved, ThreadTo, Places, Idle, NoEntry

\* The file is written: the state keeps its shape.
LEMMA WriteShaped ==
  ASSUME Shaped, NEW t \in Threads, Write(t)
  PROVE  Shaped'
<1> DEFINE me == thread[t]
<1>1. me.pc = "writing" /\ UNCHANGED <<issued, valid>> /\ file' = With(me.read, me.user, me.entry)
  BY DEF Write, serverVars
<1>2. client' = [c \in Clients |-> IF c = me.client THEN [client[c] EXCEPT !.live = TRUE]
                                                    ELSE client[c]]
  BY DEF Write
<1>3. /\ thread' = [s \in Threads |-> thread'[s]]
      /\ thread'[t] = IF me.client = Nothing THEN Saved(me) ELSE Idle
      /\ \A s \in Threads \ {t} : thread'[s] \in {thread[s], [thread[s] EXCEPT !.raced = TRUE]}
  BY DEF Write, Saved
<1>4. /\ issued \in Nat /\ me.user \in Users /\ me \in ThreadTo(issued)
      /\ me.read \in FileTo(issued) /\ me.entry \in EntryTo(issued)
  BY <1>1, AuthAssumption DEF Shaped, Typed, ThreadsShaped, ThreadTo
<1>5. file' \in FileTo(issued)
  BY <1>1, <1>4 DEF FileTo, With
<1>6. ASSUME NEW c \in Clients
      PROVE  /\ client'[c] \in ClientTo(issued) /\ client'[c].user = client[c].user
             /\ client[c].live => client'[c].live
             /\ client'[c].live # client[c].live => c = me.client
  <2>1. client[c] \in ClientTo(issued)
    BY DEF Shaped, Typed
  <2>2. client'[c] \in {client[c], [client[c] EXCEPT !.live = TRUE]}
        /\ (client'[c] # client[c] => c = me.client)
    BY <1>2
  <2>3. CASE client'[c] = client[c]
    BY <2>1, <2>3
  <2>4. CASE client'[c] = [client[c] EXCEPT !.live = TRUE] /\ c = me.client
    <3>1. client'[c] \in ClientTo(issued)
      BY <2>1, <2>4 DEF ClientTo
    <3>2. client'[c].user = client[c].user /\ client'[c].live
      BY <2>1, <2>4 DEF ClientTo
    <3> QED
      BY <2>4, <3>1, <3>2
  <2> QED
    BY <2>2, <2>3, <2>4
<1>7. client' \in [Clients -> ClientTo(issued)]
  BY <1>2, <1>6
<1>8. ASSUME NEW s \in Threads \ {t}
      PROVE  /\ thread'[s] \in ThreadTo(issued)
             /\ thread'[s].pc = thread[s].pc /\ thread'[s].rotated = thread[s].rotated
             /\ thread'[s].user = thread[s].user /\ thread'[s].client = thread[s].client
  <2>1. thread[s] \in ThreadTo(issued)
    BY DEF Shaped, Typed
  <2>2. CASE thread'[s] = thread[s]
    BY <2>1, <2>2
  <2>3. CASE thread'[s] = [thread[s] EXCEPT !.raced = TRUE]
    <3>1. thread'[s] \in ThreadTo(issued)
      BY <2>1, <2>3 DEF ThreadTo
    <3> QED
      BY <2>1, <2>3, <3>1 DEF ThreadTo
  <2> QED
    BY <1>3, <2>2, <2>3
<1>9. thread'[t] \in ThreadTo(issued)
  BY <1>3, <1>4, IdleTyped, SavedFields
<1>10. thread' \in [Threads -> ThreadTo(issued)]
  BY <1>3, <1>8, <1>9
<1>11. Typed'
  BY <1>1, <1>5, <1>7, <1>10 DEF Shaped, Typed
<1>12. CASE me.client = Nothing
  <2>1. /\ thread'[t].pc = "printing" /\ ~thread'[t].rotated
        /\ thread'[t].user = me.user /\ thread'[t].client = me.client
    BY <1>3, <1>4, <1>12, SavedFields
  <2>2. \A s \in Threads : /\ thread'[s].user = thread[s].user
                           /\ thread'[s].client = thread[s].client
    BY <1>8, <2>1
  <2>3. \A c \in Clients : client'[c].user = client[c].user /\ client'[c].live = client[c].live
    BY <1>6, <1>12, IdleFields
  <2>4. me.pc # "idle" /\ thread'[t].pc # "idle" /\ thread'[t].pc # "refreshing"
        /\ thread'[t].pc \notin {"answered", "unlocking"}
    BY <1>1, <2>1
  <2> QED
    BY <1>8, <1>11, <1>12, <2>1, <2>2, <2>3, <2>4, MoveShaped
<1>13. CASE me.client # Nothing
  <2>1. thread'[t] = Idle
    BY <1>3, <1>13
  <2> QED
    BY <1>6, <1>8, <1>11, <2>1, EndShaped
<1> QED
  BY <1>12, <1>13

\* A password is printed: the state keeps its shape.
LEMMA ShowShaped ==
  ASSUME Shaped, NEW t \in Threads, ShowPassword(t)
  PROVE  Shaped'
<1>1. /\ UNCHANGED <<issued, valid, file, client>> /\ thread' = [thread EXCEPT ![t] = Idle]
  BY DEF ShowPassword, serverVars
<1>2. Typed'
  BY <1>1, IdleTyped DEF Shaped, Typed
<1> QED
  BY <1>1, <1>2, EndShaped DEF Shaped, Typed

\* A process ends: the state keeps its shape.
LEMMA ExitShaped ==
  ASSUME Shaped, NEW c \in Clients, Exit(c)
  PROVE  Shaped'
<1>1. /\ UNCHANGED <<issued, valid, file>> /\ client' = [client EXCEPT ![c] = NoClient]
      /\ thread' = [t \in Threads |-> IF t \in {s \in Threads : thread[s].client = c}
                                         THEN Idle ELSE thread[t]]
  BY DEF Exit, serverVars, fileVars
<1>2. issued \in Nat /\ NoClient \in ClientTo(issued) /\ Idle \in ThreadTo(issued)
  BY AuthAssumption, IdleTyped DEF Shaped, Typed
<1>3. /\ \A d \in Clients : client'[d] = IF d = c THEN NoClient ELSE client[d]
      /\ \A t \in Threads : thread'[t] = IF thread[t].client = c THEN Idle ELSE thread[t]
  BY <1>1 DEF Shaped, Typed
<1>4. Typed'
  <2>1. client' \in [Clients -> ClientTo(issued)]
    BY <1>1, <1>2 DEF Shaped, Typed
  <2>2. thread' \in [Threads -> ThreadTo(issued)]
    BY <1>1, <1>2 DEF Shaped, Typed
  <2> QED
    BY <1>1, <2>1, <2>2 DEF Shaped, Typed
<1>5. ThreadsShaped'
  BY <1>3, IdleFields DEF Shaped, ThreadsShaped
<1>6. ClientsShaped'
  BY <1>3, IdleFields DEF Shaped, ClientsShaped, NoClient
<1> QED
  BY <1>4, <1>5, <1>6 DEF Shaped

\* A session is ended elsewhere: the state keeps its shape.
LEMMA RevokeShaped ==
  ASSUME Shaped, NEW token, Revoke(token)
  PROVE  Shaped'
<1>1. /\ valid' \subseteq valid /\ UNCHANGED <<issued, file, client>>
      /\ thread' = Overtaken(token)
  BY DEF Revoke, fileVars
<1>2. /\ thread' \in [Threads -> ThreadTo(issued)]
      /\ \A s \in Threads :
           /\ thread'[s].pc = thread[s].pc /\ thread'[s].rotated = thread[s].rotated
           /\ thread'[s].user = thread[s].user /\ thread'[s].client = thread[s].client
  <2>1. \A s \in Threads : (thread[s].overtaken \/ ToSave(s) = token) \in BOOLEAN
    OBVIOUS
  <2>2. thread' = [s \in Threads |-> [thread[s] EXCEPT !.overtaken = @ \/ ToSave(s) = token]]
    BY <1>1 DEF Overtaken
  <2>3. ASSUME NEW s \in Threads
        PROVE  /\ thread'[s] \in ThreadTo(issued)
               /\ thread'[s].pc = thread[s].pc /\ thread'[s].rotated = thread[s].rotated
               /\ thread'[s].user = thread[s].user /\ thread'[s].client = thread[s].client
    <3>1. /\ thread[s] \in ThreadTo(issued)
          /\ thread'[s] = [thread[s] EXCEPT !.overtaken = @ \/ ToSave(s) = token]
      BY <2>2 DEF Shaped, Typed
    <3>2. thread'[s] \in ThreadTo(issued)
      BY <2>1, <3>1 DEF ThreadTo
    <3> QED
      BY <3>1, <3>2 DEF ThreadTo
  <2> QED
    BY <2>2, <2>3
<1>3. Typed'
  BY <1>1, <1>2 DEF Shaped, Typed
<1> QED
  BY <1>1, <1>2, <1>3 DEF Shaped, ThreadsShaped, ClientsShaped

\* Every step keeps the shape of the state.
LEMMA StepShaped ==
  ASSUME Shaped, [Next]_vars
  PROVE  Shaped'
<1>1. CASE UNCHANGED vars
  BY <1>1 DEF vars, serverVars, fileVars, Shaped, Typed, ThreadsShaped, ClientsShaped
<1>2. ASSUME NEW t \in Threads, Authenticate(t) PROVE Shaped'
  BY <1>2, AddAccountShaped, AuthImportShaped, LoadShaped, ReAuthShaped, RotateShaped,
     RefusedShaped, KeepShaped, UnlockShaped, ReadShaped, CreateShaped, WriteShaped,
     ShowShaped, SaveFailsShaped DEF Authenticate
<1>3. CASE \E c \in Clients : Exit(c)
  BY <1>3, ExitShaped
<1>4. CASE \E token \in 1 .. MaxToken : Revoke(token)
  BY <1>4, RevokeShaped
<1> QED
  BY <1>1, <1>2, <1>3, <1>4 DEF Next

-----------------------------------------------------------------------------
(* What each action does, field by field.                                   *)

\* The thread s is not taken a step further.
Rests(s) ==
  /\ thread'[s].pc = thread[s].pc /\ thread'[s].user = thread[s].user
  /\ thread'[s].client = thread[s].client /\ thread'[s].answer = thread[s].answer
  /\ thread'[s].entry = thread[s].entry /\ thread'[s].read = thread[s].read
  /\ thread'[s].rotated = thread[s].rotated

\* What the thread t carries along from step to step.
Carries(t) ==
  /\ thread'[t].user = thread[t].user /\ thread'[t].client = thread[t].client
  /\ thread'[t].answer = thread[t].answer /\ thread'[t].rotated = thread[t].rotated

\* A command has a new session, or an exported one, to save.
Begins(t, u) ==
  /\ thread[t] = Idle /\ issued' = issued + 1
  /\ valid \subseteq valid' /\ valid' \subseteq valid \cup {issued'}
  /\ \A s \in Threads \ {t} : thread'[s] = thread[s]
  /\ thread'[t].pc = "reading" /\ thread'[t].user = u /\ thread'[t].client = Nothing
  /\ thread'[t].answer = 0 /\ DOMAIN thread'[t].read = {} /\ ~thread'[t].rotated
  /\ \/ thread'[t].entry.token = issued'
     \/ u \in DOMAIN file /\ thread'[t].entry.token = file[u].token
  /\ ~thread'[t].overtaken => thread'[t].entry.token \in valid'
  /\ UNCHANGED <<file, truncated, printed, client, spoilt, replaced, stranded, shut,
                 interrupted>>

\* hydroxide auth and auth-import begin with a token and without a client.
LEMMA BeginEffect ==
  ASSUME Shaped, NEW t \in Threads, NEW u \in Users,
         AddAccount(t, u) \/ \E password \in BOOLEAN : AuthImport(t, u, password)
  PROVE  Begins(t, u)
<1>1. CASE AddAccount(t, u)
  <2>1. /\ thread[t] = Idle /\ issued' = issued + 1 /\ valid' = valid \cup {issued'}
        /\ UNCHANGED <<file, truncated, printed, client, spoilt, replaced, stranded, shut,
                       interrupted>>
    BY <1>1 DEF AddAccount, fileVars, history
  <2>2. /\ \A s \in Threads \ {t} : thread'[s] = thread[s]
        /\ thread'[t] = [Idle EXCEPT !.pc = "reading", !.user = u,
             !.entry = [token |-> issued', key |-> issued', password |-> TRUE]]
    BY <1>1 DEF AddAccount, Shaped, Typed
  <2>3. /\ thread'[t].pc = "reading" /\ thread'[t].user = u /\ thread'[t].client = Nothing
        /\ thread'[t].answer = 0 /\ DOMAIN thread'[t].read = {} /\ ~thread'[t].rotated
        /\ thread'[t].entry.token = issued'
    BY <2>2 DEF Idle
  <2> QED
    BY <2>1, <2>2, <2>3 DEF Begins
<1>2. ASSUME NEW password \in BOOLEAN, AuthImport(t, u, password)
      PROVE  Begins(t, u)
  <2>1. PICK token \in {issued'} \cup {file[v].token : v \in {u} \cap DOMAIN file} :
          /\ valid' \in {valid} \cup (IF token = issued' THEN {valid \cup {issued'}} ELSE {})
          /\ thread' = [thread EXCEPT ![t] = [Idle EXCEPT
               !.pc = "reading", !.user = u, !.overtaken = token \notin valid',
               !.entry = [token |-> token, key |-> issued', password |-> password]]]
    BY <1>2 DEF AuthImport
  <2>2. /\ thread[t] = Idle /\ issued' = issued + 1
        /\ UNCHANGED <<file, truncated, printed, client, spoilt, replaced, stranded, shut,
                       interrupted>>
    BY <1>2 DEF AuthImport, fileVars, history
  <2>3. /\ \A s \in Threads \ {t} : thread'[s] = thread[s]
        /\ thread'[t] = [Idle EXCEPT
             !.pc = "reading", !.user = u, !.overtaken = token \notin valid',
             !.entry = [token |-> token, key |-> issued', password |-> password]]
    BY <2>1 DEF Shaped, Typed
  <2>4. /\ thread'[t].pc = "reading" /\ thread'[t].user = u /\ thread'[t].client = Nothing
        /\ thread'[t].answer = 0 /\ DOMAIN thread'[t].read = {} /\ ~thread'[t].rotated
        /\ thread'[t].entry.token = token
    BY <2>3 DEF Idle
  <2>5. thread'[t].overtaken = (token \notin valid')
    BY <2>3 DEF Idle
  <2>6. valid \subseteq valid' /\ valid' \subseteq valid \cup {issued'}
    BY <2>1
  <2>7. token = issued' \/ (u \in DOMAIN file /\ token = file[u].token)
    BY <2>1
  <2> QED
    BY <2>2, <2>3, <2>4, <2>5, <2>6, <2>7 DEF Begins
<1> QED
  BY <1>1, <1>2

\* A client is loaded with what the file has, by a thread that refreshes it.
LEMMA LoadEffect ==
  ASSUME Shaped, NEW t \in Threads, NEW c \in Clients, NEW u \in Users, Load(t, c, u)
  PROVE  /\ thread[t] = Idle /\ client[c] = NoClient /\ u \in DOMAIN file
         /\ \A s \in Threads : thread[s].client # c
         /\ \A s \in Threads \ {t} : thread'[s] = thread[s]
         /\ thread'[t].pc = "refreshing" /\ thread'[t].user = u /\ thread'[t].client = c
         /\ thread'[t].entry = NoEntry /\ thread'[t].answer = 0
         /\ DOMAIN thread'[t].read = {} /\ ~thread'[t].rotated
         /\ \A d \in Clients \ {c} : client'[d] = client[d]
         /\ client'[c].user = u /\ client'[c].auth = file[u]
         /\ ~client'[c].live /\ ~client'[c].access
         /\ UNCHANGED <<issued, valid, file, truncated, printed, spoilt, replaced, stranded,
                        shut, interrupted>>
<1>1. /\ thread[t] = Idle /\ client[c] = NoClient /\ u \in DOMAIN file
      /\ UNCHANGED <<issued, valid, file, truncated, printed, spoilt, replaced, stranded,
                     shut, interrupted>>
  BY DEF Load, serverVars, fileVars, history
<1>2. /\ \A s \in Threads \ {t} : thread'[s] = thread[s]
      /\ thread'[t] = [Idle EXCEPT !.pc = "refreshing", !.user = u, !.client = c]
      /\ \A d \in Clients \ {c} : client'[d] = client[d]
      /\ client'[c] = [user |-> u, auth |-> file[u], live |-> FALSE, access |-> FALSE]
  BY DEF Load, Shaped, Typed
<1>3. /\ thread'[t].pc = "refreshing" /\ thread'[t].user = u /\ thread'[t].client = c
      /\ thread'[t].entry = NoEntry /\ thread'[t].answer = 0
      /\ DOMAIN thread'[t].read = {} /\ ~thread'[t].rotated
  BY <1>2 DEF Idle
<1>4. \A s \in Threads : thread[s].client # c
  BY <1>1, AuthAssumption DEF Shaped, ThreadsShaped, NoClient
<1> QED
  BY <1>1, <1>2, <1>3, <1>4

\* A thread refreshes the session of a client in use.
LEMMA ReAuthEffect ==
  ASSUME Shaped, NEW t \in Threads, NEW c \in Clients, ReAuth(t, c)
  PROVE  /\ thread[t] = Idle /\ client[c].live
         /\ \A s \in Threads \ {t} : thread'[s] = thread[s]
         /\ thread'[t].pc = "refreshing" /\ thread'[t].user = client[c].user
         /\ thread'[t].client = c
         /\ thread'[t].entry = NoEntry /\ thread'[t].answer = 0
         /\ DOMAIN thread'[t].read = {} /\ ~thread'[t].rotated
         /\ \A d \in Clients \ {c} : client'[d] = client[d]
         /\ client'[c].user = client[c].user /\ client'[c].auth = client[c].auth
         /\ client'[c].live
         /\ UNCHANGED <<issued, valid, file, truncated, printed, spoilt, replaced, stranded,
                        shut, interrupted>>
<1>1. /\ thread[t] = Idle /\ client[c].live
      /\ UNCHANGED <<issued, valid, file, truncated, printed, spoilt, replaced, stranded,
                     shut, interrupted>>
  BY DEF ReAuth, serverVars, fileVars, history
<1>2. /\ \A s \in Threads \ {t} : thread'[s] = thread[s]
      /\ thread'[t] = [Idle EXCEPT !.pc = "refreshing", !.user = client[c].user, !.client = c]
      /\ \A d \in Clients \ {c} : client'[d] = client[d]
      /\ client'[c] = [client[c] EXCEPT !.access = FALSE]
  BY DEF ReAuth, Shaped, Typed
<1>3. /\ thread'[t].pc = "refreshing" /\ thread'[t].user = client[c].user
      /\ thread'[t].client = c /\ thread'[t].entry = NoEntry /\ thread'[t].answer = 0
      /\ DOMAIN thread'[t].read = {} /\ ~thread'[t].rotated
  BY <1>2 DEF Idle
<1>4. /\ client'[c].user = client[c].user /\ client'[c].auth = client[c].auth
      /\ client'[c].live
  BY <1>1, <1>2 DEF Shaped, Typed, ClientTo
<1> QED
  BY <1>1, <1>2, <1>3, <1>4

\* An answer arrives, after the token of the client has been used up, if it worked.
LEMMA RotateEffect ==
  ASSUME Shaped, NEW t \in Threads, Rotate(t)
  PROVE  LET c == thread[t].client
             token == client[c].auth.token
         IN
         /\ thread[t].pc = "refreshing" /\ c \in Clients
         /\ token \in valid /\ issued' = issued + 1 /\ valid' = (valid \ {token}) \cup {issued'}
         /\ \A s \in Threads \ {t} :
              Rests(s) /\ thread'[s].raced = thread[s].raced
                       /\ thread'[s].overtaken = (thread[s].overtaken \/ ToSave(s) = token)
         /\ \A d \in Clients \ {c} : client[d].auth.token = token => d \in stranded'
         /\ stranded \subseteq stranded'
         /\ \/ /\ thread'[t].pc = "answered" /\ thread'[t].answer = issued'
               /\ thread'[t].user = thread[t].user /\ thread'[t].client = c
               /\ thread'[t].entry = thread[t].entry /\ thread'[t].read = thread[t].read
               /\ thread'[t].rotated
               /\ UNCHANGED <<client, spoilt, shut>>
            \/ /\ thread'[t] = Idle
               /\ \A d \in Clients \ {c} : client'[d] = client[d]
               /\ client'[c] = IF client[c].live THEN client[c] ELSE NoClient
               /\ spoilt' = spoilt \cup {thread[t].user}
               /\ client[c].live => c \in stranded' /\ c \in shut'
               /\ shut \subseteq shut'
         /\ UNCHANGED <<file, truncated, printed, replaced, interrupted>>
<1> DEFINE c == thread[t].client
           token == client[c].auth.token
           others == Overtaken(token)
           sharing == {d \in Clients \ {c} : client[d].auth.token = token}
<1>1. /\ thread[t].pc = "refreshing" /\ c \in Clients
      /\ token \in valid /\ issued' = issued + 1 /\ valid' = (valid \ {token}) \cup {issued'}
      /\ UNCHANGED <<file, truncated, printed, replaced, interrupted>>
  BY DEF Rotate, fileVars, Shaped, ThreadsShaped
<1>2. \/ /\ thread' = [others EXCEPT ![t].pc = "answered", ![t].answer = issued',
                                      ![t].rotated = TRUE]
         /\ stranded' = stranded \cup sharing
         /\ UNCHANGED <<client, spoilt, shut>>
      \/ /\ thread' = [others EXCEPT ![t] = Idle]
         /\ client' = IF client[c].live THEN client ELSE [client EXCEPT ![c] = NoClient]
         /\ spoilt' = spoilt \cup {thread[t].user}
         /\ stranded' = stranded \cup sharing \cup (IF client[c].live THEN {c} ELSE {})
         /\ shut' = IF client[c].live THEN shut \cup {c} ELSE shut
  BY DEF Rotate
<1>3. /\ DOMAIN others = Threads
      /\ \A s \in Threads :
           /\ others[s].pc = thread[s].pc /\ others[s].user = thread[s].user
           /\ others[s].client = thread[s].client /\ others[s].answer = thread[s].answer
           /\ others[s].entry = thread[s].entry /\ others[s].read = thread[s].read
           /\ others[s].rotated = thread[s].rotated /\ others[s].raced = thread[s].raced
           /\ others[s].overtaken = (thread[s].overtaken \/ ToSave(s) = token)
           /\ DOMAIN others[s] = DOMAIN thread[s]
  BY DEF Shaped, Typed, ThreadTo, Overtaken
<1>4. /\ \A s \in Threads \ {t} : thread'[s] = others[s]
      /\ \/ thread'[t] = [others[t] EXCEPT !.pc = "answered", !.answer = issued', !.rotated = TRUE]
         \/ thread'[t] = Idle
  <2> HIDE DEF others
  <2> QED
    BY <1>2, <1>3
<1>5. \A s \in Threads \ {t} :
        Rests(s) /\ thread'[s].raced = thread[s].raced
                 /\ thread'[s].overtaken = (thread[s].overtaken \/ ToSave(s) = token)
  <2> HIDE DEF others
  <2> QED
    BY <1>3, <1>4 DEF Rests
<1>6. (\A d \in sharing : d \in stranded') /\ stranded \subseteq stranded'
  BY <1>2
<1>7. CASE /\ thread' = [others EXCEPT ![t].pc = "answered", ![t].answer = issued',
                                       ![t].rotated = TRUE]
           /\ UNCHANGED <<client, spoilt, shut>>
  <2>1. /\ thread'[t].pc = "answered" /\ thread'[t].answer = issued'
        /\ thread'[t].user = thread[t].user /\ thread'[t].client = c
        /\ thread'[t].entry = thread[t].entry /\ thread'[t].read = thread[t].read
        /\ thread'[t].rotated
    <3>1. thread[t] \in ThreadTo(issued)
      BY DEF Shaped, Typed
    <3>2. {"pc", "answer", "rotated", "user", "client", "entry", "read"} \subseteq DOMAIN others[t]
      BY <1>3, <3>1 DEF ThreadTo
    <3> HIDE DEF others
    <3>3. thread'[t] = [others[t] EXCEPT !.pc = "answered", !.answer = issued', !.rotated = TRUE]
      BY <1>3, <1>7
    <3> QED
      BY <1>3, <3>2, <3>3
  <2> QED
    BY <1>1, <1>5, <1>6, <1>7, <2>1
<1>8. CASE /\ thread' = [others EXCEPT ![t] = Idle]
           /\ client' = IF client[c].live THEN client ELSE [client EXCEPT ![c] = NoClient]
           /\ spoilt' = spoilt \cup {thread[t].user}
           /\ stranded' = stranded \cup sharing \cup (IF client[c].live THEN {c} ELSE {})
           /\ shut' = IF client[c].live THEN shut \cup {c} ELSE shut
  <2>1. thread'[t] = Idle
    BY <1>4, <1>8, <1>3
  <2>2. /\ \A d \in Clients \ {c} : client'[d] = client[d]
        /\ client'[c] = IF client[c].live THEN client[c] ELSE NoClient
    BY <1>1, <1>8 DEF Shaped, Typed
  <2>3. (client[c].live => c \in stranded' /\ c \in shut') /\ shut \subseteq shut'
    BY <1>8
  <2> QED
    BY <1>1, <1>5, <1>6, <1>8, <2>1, <2>2, <2>3
<1> QED
  BY <1>2, <1>7, <1>8

\* A call fails.
LEMMA FailEffect ==
  ASSUME Shaped, NEW t \in Threads, Fail(t)
  PROVE  /\ \A s \in Threads \ {t} : thread'[s] = thread[s]
         /\ thread'[t] = Idle
         /\ \A c \in Clients : client'[c] = IF c = thread[t].client /\ ~client[c].live
                                              THEN NoClient ELSE client[c]
         /\ spoilt' = IF thread[t].rotated THEN spoilt \cup {thread[t].user} ELSE spoilt
         /\ shut \subseteq shut'
         /\ thread[t].pc = "refreshing" /\ client[thread[t].client].live
              => thread[t].client \in shut'
         /\ interrupted' = (interrupted \/ (truncated /\ thread[t].pc = "writing"))
BY DEF Fail, Shaped, Typed

\* A refresh that is refused ends there, or in a login by password.
LEMMA RefusedEffect ==
  ASSUME Shaped, NEW t \in Threads, Refused(t)
  PROVE  /\ thread[t].pc = "refreshing"
         /\ UNCHANGED <<file, truncated, printed, replaced, stranded>>
         /\ \/ Fail(t) /\ UNCHANGED <<issued, valid>>
            \/ /\ issued' = issued + 1 /\ valid' = valid \cup {issued'}
               /\ client[thread[t].client].auth.token \notin valid
               /\ \A s \in Threads \ {t} : thread'[s] = thread[s]
               /\ thread'[t].pc = "answered" /\ thread'[t].answer = issued'
               /\ thread'[t].user = thread[t].user /\ thread'[t].client = thread[t].client
               /\ thread'[t].entry = thread[t].entry /\ thread'[t].read = thread[t].read
               /\ thread'[t].rotated = thread[t].rotated
               /\ UNCHANGED <<client, spoilt, shut, interrupted>>
<1>1. /\ thread[t].pc = "refreshing"
      /\ UNCHANGED <<file, truncated, printed, replaced, stranded>>
  BY DEF Refused, fileVars
<1>2. CASE Fail(t) /\ UNCHANGED serverVars
  BY <1>1, <1>2 DEF serverVars
<1>3. CASE /\ issued' = issued + 1 /\ valid' = valid \cup {issued'}
           /\ client[thread[t].client].auth.token \notin valid
           /\ thread' = [thread EXCEPT ![t].pc = "answered", ![t].answer = issued']
           /\ UNCHANGED <<client, spoilt, shut, interrupted>>
  <2>1. /\ \A s \in Threads \ {t} : thread'[s] = thread[s]
        /\ thread'[t] = [thread[t] EXCEPT !.pc = "answered", !.answer = issued']
        /\ thread[t] \in ThreadTo(issued)
    BY <1>3 DEF Shaped, Typed
  <2>2. /\ thread'[t].pc = "answered" /\ thread'[t].answer = issued'
        /\ thread'[t].user = thread[t].user /\ thread'[t].client = thread[t].client
        /\ thread'[t].entry = thread[t].entry /\ thread'[t].read = thread[t].read
        /\ thread'[t].rotated = thread[t].rotated
    BY <2>1 DEF ThreadTo
  <2> QED
    BY <1>1, <1>3, <2>1, <2>2
<1> QED
  BY <1>2, <1>3 DEF Refused

\* The answer becomes the session of the client, and what others will save of it.
LEMMA KeepEffect ==
  ASSUME Shaped, NEW t \in Threads, Keep(t)
  PROVE  LET c == thread[t].client IN
         /\ thread[t].pc = "answered" /\ c \in Clients
         /\ \A s \in Threads \ {t} :
              /\ Rests(s) /\ thread'[s].raced = thread[s].raced
              /\ thread[s].client = c /\ thread[s].pc = "unlocking" =>
                   thread'[s].overtaken = thread[t].overtaken
              /\ ~(thread[s].client = c /\ thread[s].pc = "unlocking") =>
                   thread'[s].overtaken = thread[s].overtaken
         /\ thread'[t].pc = "unlocking" /\ thread'[t].overtaken = thread[t].overtaken
         /\ Carries(t)
         /\ thread'[t].entry = thread[t].entry /\ thread'[t].read = thread[t].read
         /\ \A d \in Clients \ {c} : client'[d] = client[d]
         /\ client'[c].user = client[c].user /\ client'[c].live = client[c].live
         /\ client'[c].auth.token = thread[t].answer /\ client'[c].access
         /\ stranded \ {c} \subseteq stranded' /\ thread[t].overtaken => c \in stranded'
         /\ shut' = shut \ {c}
         /\ UNCHANGED <<issued, valid, file, truncated, printed, spoilt, replaced, interrupted>>
<1> DEFINE c == thread[t].client
<1>1. /\ thread[t].pc = "answered" /\ c \in Clients
      /\ stranded \ {c} \subseteq stranded' /\ (thread[t].overtaken => c \in stranded')
      /\ shut' = shut \ {c}
      /\ UNCHANGED <<issued, valid, file, truncated, printed, spoilt, replaced, interrupted>>
  BY DEF Keep, serverVars, fileVars, Shaped, ThreadsShaped
<1>2. /\ \A s \in Threads \ {t} :
           thread'[s] = IF thread[s].client = c /\ thread[s].pc = "unlocking"
                          THEN [thread[s] EXCEPT !.overtaken = thread[t].overtaken]
                          ELSE thread[s]
      /\ thread'[t] = [thread[t] EXCEPT !.pc = "unlocking"]
      /\ \A s \in Threads : thread[s] \in ThreadTo(issued)
  BY DEF Keep, Shaped, Typed
<1>3. /\ \A d \in Clients \ {c} : client'[d] = client[d]
      /\ client'[c] = [client[c] EXCEPT
           !.auth = [client[c].auth EXCEPT !.token = thread[t].answer], !.access = TRUE]
  BY <1>1 DEF Keep, Shaped, Typed, ClientTo, EntryTo
<1>4. /\ thread'[t].pc = "unlocking" /\ thread'[t].overtaken = thread[t].overtaken
      /\ Carries(t) /\ thread'[t].entry = thread[t].entry /\ thread'[t].read = thread[t].read
  BY <1>2 DEF ThreadTo, Carries
<1>5. /\ client'[c].user = client[c].user /\ client'[c].live = client[c].live
      /\ client'[c].auth.token = thread[t].answer /\ client'[c].access
  BY <1>1, <1>3 DEF Shaped, Typed, ClientTo, EntryTo
<1>6. ASSUME NEW s \in Threads \ {t}
      PROVE  /\ Rests(s) /\ thread'[s].raced = thread[s].raced
             /\ thread[s].client = c /\ thread[s].pc = "unlocking" =>
                  thread'[s].overtaken = thread[t].overtaken
             /\ ~(thread[s].client = c /\ thread[s].pc = "unlocking") =>
                  thread'[s].overtaken = thread[s].overtaken
  <2>1. CASE thread[s].client = c /\ thread[s].pc = "unlocking"
    <3>1. /\ thread'[s] = [thread[s] EXCEPT !.overtaken = thread[t].overtaken]
          /\ thread[s] \in ThreadTo(issued)
      BY <1>2, <2>1
    <3> QED
      BY <2>1, <3>1 DEF ThreadTo, Rests
  <2>2. CASE ~(thread[s].client = c /\ thread[s].pc = "unlocking")
    BY <1>2, <2>2 DEF ThreadTo, Rests
  <2> QED
    BY <2>1, <2>2
<1> QED
  BY <1>1, <1>3, <1>4, <1>5, <1>6

\* The keys are unlocked, and the session of the client is what will be saved.
LEMMA UnlockEffect ==
  ASSUME Shaped, NEW t \in Threads, Unlock(t)
  PROVE  LET c == thread[t].client IN
         /\ thread[t].pc = "unlocking" /\ c \in Clients
         /\ UNCHANGED <<issued, valid, file, truncated, printed, replaced, stranded>>
         /\ \/ Fail(t)
            \/ /\ \A s \in Threads \ {t} : thread'[s] = thread[s]
               /\ thread'[t].pc = "reading" /\ thread'[t].entry = client[c].auth
               /\ thread'[t].overtaken = thread[t].overtaken
               /\ Carries(t) /\ thread'[t].read = thread[t].read
               /\ UNCHANGED <<client, spoilt, shut, interrupted>>
<1> DEFINE c == thread[t].client
<1>1. /\ thread[t].pc = "unlocking" /\ c \in Clients
      /\ UNCHANGED <<issued, valid, file, truncated, printed, replaced, stranded>>
  BY DEF Unlock, serverVars, fileVars, Shaped, ThreadsShaped
<1>2. ASSUME thread' = [thread EXCEPT ![t].pc = "reading", ![t].entry = client[c].auth]
      PROVE  /\ \A s \in Threads \ {t} : thread'[s] = thread[s]
             /\ thread'[t].pc = "reading" /\ thread'[t].entry = client[c].auth
             /\ thread'[t].overtaken = thread[t].overtaken
             /\ Carries(t) /\ thread'[t].read = thread[t].read
  BY <1>2 DEF Shaped, Typed, ThreadTo, Carries
<1> QED
  BY <1>1, <1>2 DEF Unlock

\* The file is read before it is written.
LEMMA ReadEffect ==
  ASSUME Shaped, NEW t \in Threads, Read(t)
  PROVE  /\ thread[t].pc = "reading"
         /\ UNCHANGED <<issued, valid, file, truncated, printed, replaced, stranded>>
         /\ \/ Fail(t)
            \/ /\ \A s \in Threads \ {t} : thread'[s] = thread[s]
               /\ thread'[t].pc = "creating" /\ thread'[t].read = file
               /\ thread'[t].overtaken = thread[t].overtaken
               /\ Carries(t) /\ thread'[t].entry = thread[t].entry
               /\ UNCHANGED <<client, spoilt, shut, interrupted>>
<1>1. /\ thread[t].pc = "reading"
      /\ UNCHANGED <<issued, valid, file, truncated, printed, replaced, stranded>>
  BY DEF Read, serverVars, fileVars
<1>2. ASSUME thread' = [thread EXCEPT ![t].pc = "creating", ![t].read = file]
      PROVE  /\ \A s \in Threads \ {t} : thread'[s] = thread[s]
             /\ thread'[t].pc = "creating" /\ thread'[t].read = file
             /\ thread'[t].overtaken = thread[t].overtaken
             /\ Carries(t) /\ thread'[t].entry = thread[t].entry
  BY <1>2 DEF Shaped, Typed, ThreadTo, Carries
<1> QED
  BY <1>1, <1>2 DEF Read

\* The file is empty from here until the write.
LEMMA CreateEffect ==
  ASSUME Shaped, NEW t \in Threads, Create(t)
  PROVE  /\ thread[t].pc = "creating" /\ truncated'
         /\ \A s \in Threads \ {t} : thread'[s] = thread[s]
         /\ thread'[t].pc = "writing" /\ Carries(t)
         /\ thread'[t].entry = thread[t].entry /\ thread'[t].read = thread[t].read
         /\ thread'[t].overtaken = thread[t].overtaken /\ thread'[t].raced = thread[t].raced
         /\ UNCHANGED <<issued, valid, file, printed, client, spoilt, replaced, stranded, shut,
                        interrupted>>
<1>1. /\ thread[t].pc = "creating" /\ truncated'
      /\ UNCHANGED <<issued, valid, file, printed, client, spoilt, replaced, stranded, shut,
                     interrupted>>
  BY DEF Create, serverVars, history
<1>2. /\ \A s \in Threads \ {t} : thread'[s] = thread[s]
      /\ thread'[t] = [thread[t] EXCEPT !.pc = "writing"]
      /\ thread[t] \in ThreadTo(issued)
  BY DEF Create, Shaped, Typed
<1>3. /\ thread'[t].pc = "writing" /\ Carries(t)
      /\ thread'[t].entry = thread[t].entry /\ thread'[t].read = thread[t].read
      /\ thread'[t].overtaken = thread[t].overtaken /\ thread'[t].raced = thread[t].raced
  BY <1>2 DEF ThreadTo, Carries
<1> QED
  BY <1>1, <1>2, <1>3

\* The file as the thread has read it, with its own entry: what was saved in between
\* is lost.
Lost(t) ==
  IF thread[t].raced
    THEN {u \in DOMAIN file \ {thread[t].user} :
            u \notin DOMAIN thread[t].read \/ thread[t].read[u] # file[u]}
    ELSE {}

\* What was read is written, with one entry changed.
LEMMA WriteEffect ==
  ASSUME Shaped, NEW t \in Threads, Write(t)
  PROVE  LET me == thread[t]
             unprinted == me.user \notin DOMAIN printed \/ printed[me.user] # me.entry.key
         IN
         /\ me.pc = "writing" /\ me.user \in Users /\ ~truncated' /\ ~interrupted'
         /\ file' = With(me.read, me.user, me.entry)
         /\ \A s \in Threads \ {t} :
              /\ Rests(s) /\ thread'[s].overtaken = thread[s].overtaken
              /\ thread[s].pc \in {"creating", "writing"} => thread'[s].raced
              /\ thread[s].pc = "printing" /\ ~thread'[s].raced =>
                   /\ thread[s].user \in DOMAIN file'
                   /\ file'[thread[s].user].key = thread[s].entry.key
         /\ thread'[t] = IF me.client = Nothing THEN Saved(me) ELSE Idle
         /\ \A c \in Clients :
              /\ client'[c].user = client[c].user /\ client'[c].auth = client[c].auth
              /\ client'[c].access = client[c].access
              /\ client'[c].live <=> (client[c].live \/ c = me.client)
         /\ spoilt' = (spoilt \ {me.user}) \cup Lost(t)
                        \cup (IF me.overtaken THEN {me.user} ELSE {})
         /\ replaced' = (replaced \ {me.user}) \cup Lost(t)
                          \cup (IF unprinted THEN {me.user} ELSE {})
         /\ UNCHANGED <<issued, valid, printed, stranded, shut>>
<1> DEFINE me == thread[t]
           unprinted == me.user \notin DOMAIN printed \/ printed[me.user] # me.entry.key
<1>1. /\ me.pc = "writing" /\ me.user \in Users /\ ~truncated' /\ ~interrupted'
      /\ file' = With(me.read, me.user, me.entry)
      /\ UNCHANGED <<issued, valid, printed, stranded, shut>>
  BY DEF Write, serverVars, Shaped, ThreadsShaped
<1>2. /\ spoilt' = (spoilt \ {me.user}) \cup Lost(t)
                     \cup (IF me.overtaken THEN {me.user} ELSE {})
      /\ replaced' = (replaced \ {me.user}) \cup Lost(t)
                       \cup (IF unprinted THEN {me.user} ELSE {})
  BY DEF Write, Lost
<1>3. /\ client' = [c \in Clients |-> IF c = me.client THEN [client[c] EXCEPT !.live = TRUE]
                                                      ELSE client[c]]
      /\ thread'[t] = IF me.client = Nothing THEN Saved(me) ELSE Idle
      /\ \A s \in Threads \ {t} :
           thread'[s] =
             IF \/ thread[s].pc \in {"creating", "writing"}
                \/ /\ thread[s].pc = "printing"
                   /\ \/ thread[s].user \notin DOMAIN file'
                      \/ file'[thread[s].user].key # thread[s].entry.key
               THEN [thread[s] EXCEPT !.raced = TRUE] ELSE thread[s]
  BY DEF Write, Saved
<1>4. \A s \in Threads \ {t} :
        /\ Rests(s) /\ thread'[s].overtaken = thread[s].overtaken
        /\ thread[s].pc \in {"creating", "writing"} => thread'[s].raced
        /\ thread[s].pc = "printing" /\ ~thread'[s].raced =>
             /\ thread[s].user \in DOMAIN file'
             /\ file'[thread[s].user].key = thread[s].entry.key
  <2> DEFINE Overlaps(s) ==
               \/ thread[s].pc \in {"creating", "writing"}
               \/ /\ thread[s].pc = "printing"
                  /\ \/ thread[s].user \notin DOMAIN file'
                     \/ file'[thread[s].user].key # thread[s].entry.key
  <2>1. ASSUME NEW s \in Threads \ {t}
        PROVE  Rests(s) /\ thread'[s].overtaken = thread[s].overtaken
                 /\ (Overlaps(s) => thread'[s].raced)
    <3>1. thread[s] \in ThreadTo(issued)
      BY DEF Shaped, Typed
    <3>2. thread'[s] = IF Overlaps(s) THEN [thread[s] EXCEPT !.raced = TRUE] ELSE thread[s]
      BY <1>3
    <3> HIDE DEF Overlaps
    <3>3. CASE Overlaps(s)
      <4>1. thread'[s] = [thread[s] EXCEPT !.raced = TRUE]
        BY <3>2, <3>3
      <4> QED
        BY <3>1, <4>1 DEF ThreadTo, Rests
    <3>4. CASE ~Overlaps(s)
      BY <3>2, <3>4 DEF Rests
    <3> QED
      BY <3>3, <3>4
  <2> QED
    BY <2>1
<1>5. \A c \in Clients :
        /\ client'[c].user = client[c].user /\ client'[c].auth = client[c].auth
        /\ client'[c].access = client[c].access
        /\ client'[c].live <=> (client[c].live \/ c = me.client)
  BY <1>3 DEF Shaped, Typed, ClientTo
<1> QED
  BY <1>1, <1>2, <1>3, <1>4, <1>5

\* The command prints what it has saved.
LEMMA ShowEffect ==
  ASSUME Shaped, NEW t \in Threads, ShowPassword(t)
  PROVE  LET u == thread[t].user IN
         /\ thread[t].pc = "printing" /\ u \in Users /\ thread'[t] = Idle
         /\ \A s \in Threads \ {t} : thread'[s] = thread[s]
         /\ printed' = With(printed, u, thread[t].entry.key)
         /\ replaced' = IF thread[t].raced THEN replaced \cup {u} ELSE replaced \ {u}
         /\ UNCHANGED <<issued, valid, file, truncated, client, spoilt, stranded, shut,
                        interrupted>>
BY DEF ShowPassword, serverVars, Shaped, Typed, ThreadsShaped

\* The client goes, and its threads with it, wherever they were.
LEMMA ExitEffect ==
  ASSUME Shaped, NEW c \in Clients, Exit(c)
  PROVE  /\ client'[c] = NoClient /\ \A d \in Clients \ {c} : client'[d] = client[d]
         /\ \A t \in Threads : IF thread[t].client = c THEN thread'[t] = Idle
                                                       ELSE thread'[t] = thread[t]
         /\ \A t \in Threads : thread[t].client = c /\ thread[t].rotated
                                  => thread[t].user \in spoilt'
         /\ spoilt \subseteq spoilt'
         /\ interrupted' =
              (interrupted \/ (truncated /\ \E t \in Threads :
                                  thread[t].client = c /\ thread[t].pc = "writing"))
         /\ stranded' = stranded \ {c} /\ shut' = shut \ {c}
         /\ UNCHANGED <<issued, valid, file, truncated, printed, replaced>>
<1> DEFINE gone == {t \in Threads : thread[t].client = c}
<1>1. /\ client' = [client EXCEPT ![c] = NoClient]
      /\ thread' = [t \in Threads |-> IF t \in gone THEN Idle ELSE thread[t]]
      /\ spoilt' = spoilt \cup {thread[t].user : t \in {s \in gone : thread[s].rotated}}
      /\ interrupted' =
           (interrupted \/ (truncated /\ \E t \in gone : thread[t].pc = "writing"))
      /\ stranded' = stranded \ {c} /\ shut' = shut \ {c}
      /\ UNCHANGED <<issued, valid, file, truncated, printed, replaced>>
  BY DEF Exit, serverVars, fileVars
<1>2. client'[c] = NoClient /\ \A d \in Clients \ {c} : client'[d] = client[d]
  BY <1>1 DEF Shaped, Typed
<1>3. \A t \in Threads : IF thread[t].client = c THEN thread'[t] = Idle
                                                ELSE thread'[t] = thread[t]
  BY <1>1
<1>4. /\ \A t \in Threads : thread[t].client = c /\ thread[t].rotated
                               => thread[t].user \in spoilt'
      /\ spoilt \subseteq spoilt'
  BY <1>1
<1> QED
  BY <1>1, <1>2, <1>3, <1>4

\* A session is ended elsewhere.
LEMMA RevokeEffect ==
  ASSUME Shaped, NEW token, Revoke(token)
  PROVE  /\ token \in valid /\ valid' = valid \ {token}
         /\ \A s \in Threads :
              /\ Rests(s) /\ thread'[s].raced = thread[s].raced
              /\ thread'[s].overtaken = (thread[s].overtaken \/ ToSave(s) = token)
         /\ \A u \in DOMAIN file : file[u].token = token => u \in spoilt'
         /\ \A c \in Clients : client[c].auth.token = token => c \in stranded'
         /\ spoilt \subseteq spoilt' /\ stranded \subseteq stranded'
         /\ UNCHANGED <<issued, file, truncated, printed, client, replaced, shut,
                        interrupted>>
<1>1. /\ token \in valid /\ valid' = valid \ {token} /\ thread' = Overtaken(token)
      /\ \A u \in DOMAIN file : file[u].token = token => u \in spoilt'
      /\ \A c \in Clients : client[c].auth.token = token => c \in stranded'
      /\ spoilt \subseteq spoilt' /\ stranded \subseteq stranded'
      /\ UNCHANGED <<issued, file, truncated, printed, client, replaced, shut, interrupted>>
  BY DEF Revoke, fileVars
<1>2. \A s \in Threads :
        /\ Rests(s) /\ thread'[s].raced = thread[s].raced
        /\ thread'[s].overtaken = (thread[s].overtaken \/ ToSave(s) = token)
  BY <1>1 DEF Overtaken, Shaped, Typed, ThreadTo, Rests
<1> QED
  BY <1>1, <1>2

-----------------------------------------------------------------------------
(* The invariants, one after the other.                                     *)

\* A step of a thread that does not write, and does not touch the file.
LEMMA EmptyKept ==
  ASSUME EmptyOnlyWhileSaving, NEW t \in Threads, thread[t].pc # "writing",
         \A s \in Threads \ {t} : thread'[s] = thread[s],
         UNCHANGED <<truncated, interrupted>>
  PROVE  EmptyOnlyWhileSaving'
BY DEF EmptyOnlyWhileSaving

\* A thread fails, and says so if it was writing.
LEMMA EmptyFail ==
  ASSUME Shaped, EmptyOnlyWhileSaving, NEW t \in Threads, Fail(t), truncated' = truncated
  PROVE  EmptyOnlyWhileSaving'
<1>1. /\ interrupted' = (interrupted \/ (truncated /\ thread[t].pc = "writing"))
      /\ \A s \in Threads \ {t} : thread'[s] = thread[s]
  BY FailEffect
<1> QED
  BY <1>1 DEF EmptyOnlyWhileSaving

\* The file is empty only during a save, or after one that ended too early.
LEMMA StepEmptyOnlyWhileSaving ==
  ASSUME Shaped, EmptyOnlyWhileSaving, [Next]_vars
  PROVE  EmptyOnlyWhileSaving'
<1>1. CASE UNCHANGED vars
  BY <1>1 DEF vars, serverVars, fileVars, history, EmptyOnlyWhileSaving
<1>2. ASSUME NEW t \in Threads, NEW u \in Users,
             AddAccount(t, u) \/ \E password \in BOOLEAN : AuthImport(t, u, password)
      PROVE  EmptyOnlyWhileSaving'
  BY <1>2, BeginEffect, IdleFields DEF Begins, EmptyOnlyWhileSaving
<1>3. ASSUME NEW t \in Threads, NEW c \in Clients, NEW u \in Users, Load(t, c, u)
      PROVE  EmptyOnlyWhileSaving'
  <2>1. /\ thread[t] = Idle /\ UNCHANGED <<truncated, interrupted>>
        /\ \A s \in Threads \ {t} : thread'[s] = thread[s]
    BY <1>3, LoadEffect
  <2> QED
    BY <2>1, EmptyKept, IdleFields
<1>4. ASSUME NEW t \in Threads, NEW c \in Clients, ReAuth(t, c) PROVE EmptyOnlyWhileSaving'
  <2>1. /\ thread[t] = Idle /\ UNCHANGED <<truncated, interrupted>>
        /\ \A s \in Threads \ {t} : thread'[s] = thread[s]
    BY <1>4, ReAuthEffect
  <2> QED
    BY <2>1, EmptyKept, IdleFields
<1>5. ASSUME NEW t \in Threads, Rotate(t) PROVE EmptyOnlyWhileSaving'
  BY <1>5, RotateEffect DEF Rests, EmptyOnlyWhileSaving
<1>6. ASSUME NEW t \in Threads, Refused(t) PROVE EmptyOnlyWhileSaving'
  <2>1. /\ thread[t].pc = "refreshing" /\ truncated' = truncated
        /\ \/ Fail(t)
           \/ interrupted' = interrupted /\ \A s \in Threads \ {t} : thread'[s] = thread[s]
    BY <1>6, RefusedEffect
  <2> QED
    BY <2>1, EmptyKept, EmptyFail
<1>7. ASSUME NEW t \in Threads, Keep(t) PROVE EmptyOnlyWhileSaving'
  <2>1. /\ thread[t].pc = "answered" /\ UNCHANGED <<truncated, interrupted>>
        /\ \A s \in Threads \ {t} : thread'[s].pc = thread[s].pc
    BY <1>7, KeepEffect DEF Rests
  <2> QED
    BY <2>1 DEF EmptyOnlyWhileSaving
<1>8. ASSUME NEW t \in Threads, Unlock(t) PROVE EmptyOnlyWhileSaving'
  <2>1. /\ thread[t].pc = "unlocking" /\ truncated' = truncated
        /\ \/ Fail(t)
           \/ interrupted' = interrupted /\ \A s \in Threads \ {t} : thread'[s] = thread[s]
    BY <1>8, UnlockEffect
  <2> QED
    BY <2>1, EmptyKept, EmptyFail
<1>9. ASSUME NEW t \in Threads, Read(t) PROVE EmptyOnlyWhileSaving'
  <2>1. /\ thread[t].pc = "reading" /\ truncated' = truncated
        /\ \/ Fail(t)
           \/ interrupted' = interrupted /\ \A s \in Threads \ {t} : thread'[s] = thread[s]
    BY <1>9, ReadEffect
  <2> QED
    BY <2>1, EmptyKept, EmptyFail
<1>10. ASSUME NEW t \in Threads, Create(t) PROVE EmptyOnlyWhileSaving'
  BY <1>10, CreateEffect DEF EmptyOnlyWhileSaving
<1>11. ASSUME NEW t \in Threads, Write(t) PROVE EmptyOnlyWhileSaving'
  BY <1>11, WriteEffect DEF EmptyOnlyWhileSaving
<1>12. ASSUME NEW t \in Threads, SaveFails(t) PROVE EmptyOnlyWhileSaving'
  BY <1>12, EmptyFail DEF SaveFails, fileVars
<1>13. ASSUME NEW c \in Clients, Exit(c) PROVE EmptyOnlyWhileSaving'
  BY <1>13, ExitEffect DEF EmptyOnlyWhileSaving
<1>14. ASSUME NEW token, Revoke(token) PROVE EmptyOnlyWhileSaving'
  BY <1>14, RevokeEffect DEF EmptyOnlyWhileSaving, Rests
<1>15. ASSUME NEW t \in Threads, ShowPassword(t) PROVE EmptyOnlyWhileSaving'
  BY <1>15, ShowEffect DEF EmptyOnlyWhileSaving
<1> QED
  BY <1>1, <1>2, <1>3, <1>4, <1>5, <1>6, <1>7, <1>8, <1>9,
     <1>10, <1>11, <1>12, <1>13, <1>14, <1>15
  DEF Next, Authenticate

\* An access token is missing only while one is being asked for.
LEMMA StepAuthorized ==
  ASSUME Shaped, Authorized, [Next]_vars
  PROVE  Authorized'
<1>1. CASE UNCHANGED vars
  BY <1>1 DEF vars, serverVars, fileVars, history, Authorized, Saving
<1>2. ASSUME NEW t \in Threads, NEW u \in Users,
             AddAccount(t, u) \/ \E password \in BOOLEAN : AuthImport(t, u, password)
      PROVE  Authorized'
  BY <1>2, IdleFields, AuthAssumption, BeginEffect DEF Begins, Authorized, Saving
<1>3. ASSUME NEW t \in Threads, NEW c \in Clients, NEW u \in Users, Load(t, c, u)
      PROVE  Authorized'
  BY <1>3, IdleFields, AuthAssumption, LoadEffect, IdleFields
  DEF Authorized, Saving, Shaped, ThreadsShaped, ClientsShaped, NoClient, Carries
<1>4. ASSUME NEW t \in Threads, NEW c \in Clients, ReAuth(t, c) PROVE Authorized'
  BY <1>4, IdleFields, AuthAssumption, ReAuthEffect, IdleFields
  DEF Authorized, Saving, Shaped, ThreadsShaped, ClientsShaped, NoClient, Carries
<1>5. ASSUME NEW t \in Threads, Rotate(t) PROVE Authorized'
  BY <1>5, IdleFields, AuthAssumption, RotateEffect
  DEF Rests, Authorized, Saving, Shaped, ThreadsShaped, ClientsShaped, NoClient, Carries
<1>6. ASSUME NEW t \in Threads, Refused(t) PROVE Authorized'
  BY <1>6, IdleFields, AuthAssumption, RefusedEffect, FailEffect
  DEF Authorized, Saving, Shaped, ThreadsShaped, ClientsShaped, NoClient, Carries
<1>7. ASSUME NEW t \in Threads, Keep(t) PROVE Authorized'
  BY <1>7, IdleFields, AuthAssumption, KeepEffect
  DEF Rests, Authorized, Saving, Shaped, ThreadsShaped, ClientsShaped, NoClient, Carries
<1>8. ASSUME NEW t \in Threads, Unlock(t) PROVE Authorized'
  BY <1>8, IdleFields, AuthAssumption, UnlockEffect, FailEffect
  DEF Authorized, Saving, Shaped, ThreadsShaped, ClientsShaped, NoClient, Carries
<1>9. ASSUME NEW t \in Threads, Read(t) PROVE Authorized'
  <2>1. thread[t].pc = "reading" /\ UNCHANGED stranded
    BY <1>9, ReadEffect
  <2>2. CASE Fail(t)
    BY <2>1, <2>2, IdleFields, AuthAssumption, FailEffect
    DEF Authorized, Saving, Shaped, ThreadsShaped, ClientsShaped, NoClient
  <2>3. CASE ~Fail(t)
    BY <1>9, <2>3, ReadEffect DEF Authorized, Saving, Carries
  <2> QED
    BY <2>2, <2>3
<1>10. ASSUME NEW t \in Threads, Create(t) PROVE Authorized'
  BY <1>10, IdleFields, AuthAssumption, CreateEffect DEF Authorized, Saving, Carries
<1>11. ASSUME NEW t \in Threads, Write(t) PROVE Authorized'
  <2>1. /\ thread[t].pc = "writing" /\ shut' = shut
        /\ thread'[t].pc \notin Saving /\ thread'[t].pc # "refreshing"
        /\ \A s \in Threads \ {t} : thread'[s].pc = thread[s].pc
                                     /\ thread'[s].client = thread[s].client
        /\ \A c \in Clients : /\ client'[c].access = client[c].access
                              /\ client[c].live => client'[c].live
                              /\ client'[c].live /\ ~client[c].live => c = thread[t].client
    BY <1>11, WriteEffect, SavedFields, AuthAssumption, IdleFields
    DEF Rests, Saving, Shaped, Typed
  <2>2. ASSUME NEW c \in Clients, client'[c].live, ~client'[c].access, c \notin shut'
        PROVE  \E s \in Threads : thread'[s].client = c
                                  /\ thread'[s].pc \in {"refreshing", "answered"}
    <3>1. client[c].live
      BY <2>1, <2>2 DEF Authorized, Saving
    <3> QED
      BY <2>1, <2>2, <3>1 DEF Authorized
  <2>3. ASSUME NEW c \in Clients, NEW s \in Threads, thread'[s].client = c,
               thread'[s].pc \in Saving, ~client'[c].live
        PROVE  client'[c].access
    BY <2>1, <2>3, IdleFields DEF Authorized
  <2> QED
    BY <2>2, <2>3 DEF Authorized
<1>12. ASSUME NEW t \in Threads, SaveFails(t) PROVE Authorized'
  BY <1>12, IdleFields, AuthAssumption, FailEffect
  DEF SaveFails, serverVars, fileVars, Authorized, Saving, Shaped, ThreadsShaped, ClientsShaped,
      NoClient, Carries
<1>13. ASSUME NEW c \in Clients, Exit(c) PROVE Authorized'
  BY <1>13, IdleFields, AuthAssumption, ExitEffect
  DEF Authorized, Saving, Shaped, ThreadsShaped, ClientsShaped, NoClient, Carries
<1>14. ASSUME NEW token, Revoke(token) PROVE Authorized'
  BY <1>14, IdleFields, AuthAssumption, RevokeEffect DEF Authorized, Saving, Rests
<1>15. ASSUME NEW t \in Threads, ShowPassword(t) PROVE Authorized'
  BY <1>15, IdleFields, AuthAssumption, ShowEffect DEF Authorized, Saving
<1> QED
  BY <1>1, <1>2, <1>3, <1>4, <1>5, <1>6, <1>7, <1>8, <1>9,
     <1>10, <1>11, <1>12, <1>13, <1>14, <1>15
  DEF Next, Authenticate

\* A token that anybody holds has been issued.
LEMMA HeldIssued == ASSUME Shaped, NEW k, Held(k) PROVE k \in 0 .. issued
<1>1. \A u \in DOMAIN file : file[u].token \in 0 .. issued
  BY DEF Shaped, Typed, FileTo, EntryTo
<1>2. \A c \in Clients : client[c].auth.token \in 0 .. issued
  BY DEF Shaped, Typed, ClientTo, EntryTo
<1>3. \A t \in Threads : thread[t].entry.token \in 0 .. issued
  BY DEF Shaped, Typed, ThreadTo, EntryTo
<1>4. \A t \in Threads : \A u \in DOMAIN thread[t].read :
        thread[t].read[u].token \in 0 .. issued
  BY DEF Shaped, Typed, ThreadTo, FileTo, EntryTo
<1> QED
  BY <1>1, <1>2, <1>3, <1>4 DEF Held

\* A step that nobody gets an answer in: the tokens move, and only those that were
\* already held.
LEMMA AnswersStay ==
  ASSUME Shaped, AnswersFresh, \A k \in 1 .. issued : Held(k)' => Held(k),
         valid \subseteq valid',
         \A t \in Threads : thread'[t].pc = "answered" =>
           /\ thread[t].pc = "answered" /\ thread'[t].answer = thread[t].answer
           /\ thread'[t].overtaken = thread[t].overtaken
  PROVE  AnswersFresh'
<1>1. \A t \in Threads : thread[t].answer # 0 => thread[t].answer \in 1 .. issued
  BY DEF Shaped, Typed, ThreadTo
<1> QED
  BY <1>1 DEF AnswersFresh

\* An error moves no token.
LEMMA FailHolds ==
  ASSUME Shaped, NEW t \in Threads, Fail(t), UNCHANGED <<issued, valid, file>>
  PROVE  \A k \in 1 .. issued : Held(k)' => Held(k)
<1>1. \A k \in 1 .. issued : k # 0
  BY DEF Shaped, Typed
<1> QED
  BY <1>1, FailEffect DEF Held, Idle, NoEntry, NoClient

\* No answer is lost to another.
LEMMA StepAnswersFresh ==
  ASSUME Shaped, AnswersFresh, [Next]_vars
  PROVE  AnswersFresh'
<1>0. /\ issued \in Nat /\ 0 \notin 1 .. issued /\ \A k \in valid : k \in 1 .. issued
      /\ \A s \in Threads : thread[s].answer # 0 => thread[s].answer \in 1 .. issued
  BY AuthAssumption DEF Shaped, Typed, ThreadTo
<1>1. CASE UNCHANGED vars
  <2>1. \A k : Held(k)' <=> Held(k)
    BY <1>1 DEF vars, serverVars, fileVars, Held
  <2> QED
    BY <1>1, <2>1 DEF vars, serverVars, AnswersFresh
<1>2. ASSUME NEW t \in Threads, NEW u \in Users,
             AddAccount(t, u) \/ \E password \in BOOLEAN : AuthImport(t, u, password)
      PROVE  AnswersFresh'
  <2>1. \A k \in 1 .. issued : Held(k)' => Held(k)
    BY <1>2, <1>0, BeginEffect DEF Held, Begins, Idle, NoEntry
  <2> QED
    BY <1>2, <2>1, AnswersStay, IdleFields, BeginEffect DEF Begins
<1>3. ASSUME NEW t \in Threads, NEW c \in Clients, NEW u \in Users, Load(t, c, u)
      PROVE  AnswersFresh'
  <2>1. \A k \in 1 .. issued : Held(k)' => Held(k)
    BY <1>3, <1>0, LoadEffect DEF Held, NoEntry, NoClient
  <2> QED
    BY <1>3, <2>1, AnswersStay, IdleFields, LoadEffect
<1>4. ASSUME NEW t \in Threads, NEW c \in Clients, ReAuth(t, c) PROVE AnswersFresh'
  <2>1. \A k \in 1 .. issued : Held(k)' => Held(k)
    BY <1>4, <1>0, ReAuthEffect DEF Held, NoEntry
  <2> QED
    BY <1>4, <2>1, AnswersStay, IdleFields, ReAuthEffect
<1>5. ASSUME NEW t \in Threads, Rotate(t) PROVE AnswersFresh'
  <2> DEFINE token == client[thread[t].client].auth.token
  <2>1. \A k \in 1 .. issued' : Held(k)' => Held(k)
    <3>1. \A c \in Clients : client'[c].auth = client[c].auth \/ client'[c].auth.token = 0
      BY <1>5, RotateEffect DEF NoClient, NoEntry
    <3>2. \A s \in Threads :
            \/ thread'[s].entry = thread[s].entry /\ thread'[s].read = thread[s].read
            \/ thread'[s].entry.token = 0 /\ DOMAIN thread'[s].read = {}
      BY <1>5, RotateEffect DEF Rests, Idle, NoEntry
    <3>3. file' = file /\ issued' # 0
      BY <1>0, <1>5, RotateEffect
    <3> QED
      BY <1>0, <3>1, <3>2, <3>3 DEF Held
  <2>2. Held(token) /\ issued' \notin valid /\ ~Held(issued') /\ issued' \in valid'
    <3>1. Held(token)
      BY <1>5, RotateEffect DEF Held
    <3>2. issued' = issued + 1 /\ issued' \in valid'
      BY <1>5, RotateEffect
    <3>3. \A k : Held(k) => k \in 0 .. issued
      BY HeldIssued
    <3> QED
      BY <1>0, <3>1, <3>2, <3>3
  <2>3. \A s \in Threads \ {t} :
          /\ thread'[s].pc = thread[s].pc /\ thread'[s].answer = thread[s].answer
          /\ thread[s].overtaken => thread'[s].overtaken
    BY <1>5, RotateEffect DEF Rests
  <2>4. thread'[t].pc = "answered" => thread'[t].answer = issued'
    BY <1>5, RotateEffect, IdleFields
  <2>5. valid \ {token} \subseteq valid'
    BY <1>5, RotateEffect
  <2> HIDE DEF token
  <2>6. \A s \in Threads : thread[s].answer # issued' /\ issued' # 0
    BY <1>0, <1>5, RotateEffect DEF Shaped, Typed, ThreadTo
  <2>7. \A s \in Threads : thread[s].answer # 0 => thread[s].answer \in 1 .. issued'
    BY <1>0, <1>5, RotateEffect
  <2>8. ASSUME NEW s \in Threads, thread'[s].pc = "answered"
        PROVE  /\ thread'[s].answer # 0
               /\ thread'[s].answer \in valid' \/ thread'[s].overtaken
               /\ ~Held(thread[s].answer)'
    <3>1. CASE s = t
      <4>1. thread'[s].answer = issued' /\ issued' \in 1 .. issued'
        BY <1>0, <1>5, <2>4, <2>8, <3>1, RotateEffect
      <4> QED
        BY <2>1, <2>2, <2>6, <4>1
    <3>2. CASE s # t
      <4>1. /\ thread[s].pc = "answered" /\ thread'[s].answer = thread[s].answer
            /\ thread[s].overtaken => thread'[s].overtaken
        BY <2>3, <2>8, <3>2
      <4>2. /\ thread[s].answer # 0 /\ (thread[s].answer \in valid \/ thread[s].overtaken)
            /\ ~Held(thread[s].answer) /\ thread[s].answer \in 1 .. issued'
        BY <2>7, <4>1 DEF AnswersFresh
      <4>3. ~Held(thread'[s].answer)
        BY <4>1, <4>2
      <4> QED
        BY <2>1, <2>2, <2>5, <4>1, <4>2, <4>3
    <3> QED
      BY <3>1, <3>2
  <2>9. \A r, s \in Threads : r # s /\ thread'[r].pc = "answered" /\ thread'[s].pc = "answered"
          => thread'[r].answer # thread'[s].answer
    <3>1. ASSUME NEW r \in Threads, NEW s \in Threads, r # s, r # t,
                 thread'[r].pc = "answered", thread'[s].pc = "answered"
          PROVE  thread'[r].answer # thread'[s].answer
      <4>1. thread[r].pc = "answered" /\ thread'[r].answer = thread[r].answer
        BY <2>3, <3>1
      <4>2. CASE s = t
        BY <2>4, <2>6, <3>1, <4>1, <4>2
      <4>3. CASE s # t
        BY <2>3, <3>1, <4>1, <4>3 DEF AnswersFresh
      <4> QED
        BY <4>2, <4>3
    <3> QED
      BY <3>1
  <2> QED
    BY <2>8, <2>9 DEF AnswersFresh
<1>6. ASSUME NEW t \in Threads, Refused(t) PROVE AnswersFresh'
  <2>1. CASE Fail(t) /\ UNCHANGED <<issued, valid>>
    BY <1>6, <2>1, FailHolds, FailEffect, RefusedEffect, AnswersStay, IdleFields
  <2>2. CASE ~(Fail(t) /\ UNCHANGED <<issued, valid>>)
    <3>1. \A k \in 1 .. issued' : Held(k)' => Held(k)
      BY <1>6, <2>2, RefusedEffect DEF Held
    <3>2. issued' \notin valid /\ ~Held(issued') /\ issued' \in valid' /\ valid \subseteq valid'
      BY <1>6, <2>2, <1>0, HeldIssued, RefusedEffect
    <3>3. /\ \A s \in Threads \ {t} : thread'[s] = thread[s]
          /\ thread'[t].pc = "answered" /\ thread'[t].answer = issued'
      BY <1>6, <2>2, RefusedEffect
    <3>4. \A s \in Threads : /\ thread[s].answer # issued' /\ issued' # 0
                             /\ thread[s].answer # 0 => thread[s].answer \in 1 .. issued'
      BY <1>0, <1>6, <2>2, RefusedEffect DEF Shaped, Typed, ThreadTo
    <3>5. issued' \in 1 .. issued'
      BY <1>0, <1>6, <2>2, RefusedEffect
    <3>6. ASSUME NEW s \in Threads, thread'[s].pc = "answered"
          PROVE  /\ thread'[s].answer # 0
                 /\ thread'[s].answer \in valid' \/ thread'[s].overtaken
                 /\ ~Held(thread[s].answer)'
      <4>1. CASE s = t
        BY <3>1, <3>2, <3>3, <3>4, <3>5, <4>1
      <4>2. CASE s # t
        BY <3>1, <3>2, <3>3, <3>4, <3>6, <4>2 DEF AnswersFresh
      <4> QED
        BY <4>1, <4>2
    <3>7. \A r, q \in Threads :
            r # q /\ thread'[r].pc = "answered" /\ thread'[q].pc = "answered"
            => thread'[r].answer # thread'[q].answer
      BY <3>3, <3>4 DEF AnswersFresh
    <3> QED
      BY <3>6, <3>7 DEF AnswersFresh
  <2> QED
    BY <2>1, <2>2
<1>7. ASSUME NEW t \in Threads, Keep(t) PROVE AnswersFresh'
  <2>1. \A k \in 1 .. issued : k # thread[t].answer /\ Held(k)' => Held(k)
    BY <1>7, KeepEffect DEF Held, Carries, Rests
  <2>2. /\ \A s \in Threads \ {t} :
             /\ thread'[s].pc = thread[s].pc /\ thread'[s].answer = thread[s].answer
             /\ thread[s].pc = "answered" => thread'[s].overtaken = thread[s].overtaken
        /\ thread[t].pc = "answered" /\ thread'[t].pc = "unlocking" /\ valid' = valid
    BY <1>7, KeepEffect DEF Rests
  <2> QED
    BY <1>0, <2>1, <2>2 DEF AnswersFresh
<1>8. ASSUME NEW t \in Threads, Unlock(t) PROVE AnswersFresh'
  <2>1. UNCHANGED <<issued, valid, file>>
    BY <1>8, UnlockEffect
  <2>2. CASE Fail(t)
    BY <2>1, <2>2, FailHolds, FailEffect, AnswersStay, IdleFields
  <2>3. CASE ~Fail(t)
    <3>1. \A k \in 1 .. issued : Held(k)' => Held(k)
      BY <1>8, <2>3, UnlockEffect DEF Held, Carries
    <3> QED
      BY <1>8, <2>3, <3>1, UnlockEffect, AnswersStay
  <2> QED
    BY <2>2, <2>3
<1>9. ASSUME NEW t \in Threads, Read(t) PROVE AnswersFresh'
  <2>1. UNCHANGED <<issued, valid, file>>
    BY <1>9, ReadEffect
  <2>2. CASE Fail(t)
    BY <2>1, <2>2, FailHolds, FailEffect, AnswersStay, IdleFields
  <2>3. CASE ~Fail(t)
    <3>1. \A k \in 1 .. issued : Held(k)' => Held(k)
      BY <1>9, <2>3, ReadEffect DEF Held, Carries
    <3> QED
      BY <1>9, <2>3, <3>1, ReadEffect, AnswersStay
  <2> QED
    BY <2>2, <2>3
<1>10. ASSUME NEW t \in Threads, Create(t) PROVE AnswersFresh'
  <2>1. \A k \in 1 .. issued : Held(k)' => Held(k)
    BY <1>10, <1>0, CreateEffect DEF Held, Carries
  <2> QED
    BY <1>10, <2>1, AnswersStay, IdleFields, CreateEffect
<1>11. ASSUME NEW t \in Threads, Write(t) PROVE AnswersFresh'
  <2>1. \A k \in 1 .. issued : Held(k)' => Held(k)
    <3>1. \A u \in DOMAIN file' :
            \/ file'[u] = thread[t].entry
            \/ u \in DOMAIN thread[t].read /\ file'[u] = thread[t].read[u]
      <4>1. file' = With(thread[t].read, thread[t].user, thread[t].entry)
        BY <1>11, WriteEffect
      <4> QED
        BY <4>1 DEF With
    <3>2. \A c \in Clients : client'[c].auth = client[c].auth
      BY <1>11, WriteEffect
    <3>3. \A s \in Threads :
            \/ thread'[s].entry = thread[s].entry /\ thread'[s].read = thread[s].read
            \/ thread'[s].entry.token = 0 /\ DOMAIN thread'[s].read = {}
      BY <1>0, <1>11, WriteEffect, SavedFields DEF Rests, Idle, NoEntry, Shaped, Typed
    <3> QED
      BY <1>0, <3>1, <3>2, <3>3 DEF Held
  <2>2. thread'[t].pc \in {"idle", "printing"}
    BY <1>0, <1>11, WriteEffect, IdleFields, SavedFields DEF Shaped, Typed
  <2> QED
    BY <1>11, <2>1, <2>2, AnswersStay, WriteEffect DEF Rests
<1>12. ASSUME NEW t \in Threads, SaveFails(t) PROVE AnswersFresh'
  BY <1>12, FailHolds, FailEffect, AnswersStay, IdleFields DEF SaveFails, serverVars, fileVars
<1>13. ASSUME NEW c \in Clients, Exit(c) PROVE AnswersFresh'
  <2>1. \A k \in 1 .. issued : Held(k)' => Held(k)
    BY <1>13, <1>0, ExitEffect DEF Held, Idle, NoEntry, NoClient
  <2> QED
    BY <1>13, <2>1, AnswersStay, IdleFields, ExitEffect
<1>14. ASSUME NEW token, Revoke(token) PROVE AnswersFresh'
  <2>1. \A k : Held(k)' <=> Held(k)
    BY <1>14, RevokeEffect DEF Held, Rests
  <2>2. \A s \in Threads :
          /\ thread'[s].pc = thread[s].pc /\ thread'[s].answer = thread[s].answer
          /\ thread[s].overtaken => thread'[s].overtaken
          /\ thread[s].pc = "answered" /\ thread[s].answer \in valid =>
               thread[s].answer \in valid' \/ thread'[s].overtaken
    BY <1>14, RevokeEffect DEF Rests, ToSave
  <2> QED
    BY <2>1, <2>2 DEF AnswersFresh
<1>15. ASSUME NEW t \in Threads, ShowPassword(t) PROVE AnswersFresh'
  <2>1. \A k \in 1 .. issued : Held(k)' => Held(k)
    BY <1>15, <1>0, ShowEffect DEF Held, Idle, NoEntry
  <2> QED
    BY <1>15, <2>1, AnswersStay, IdleFields, ShowEffect
<1> QED
  BY <1>1, <1>2, <1>3, <1>4, <1>5, <1>6, <1>7, <1>8, <1>9,
     <1>10, <1>11, <1>12, <1>13, <1>14, <1>15
  DEF Next, Authenticate

\* A client whose authentication fails before the answer is as good as before.
LEMMA FailCurrent ==
  ASSUME Shaped, ClientsCurrent, NEW t \in Threads, Fail(t), thread[t].pc # "answered",
         UNCHANGED <<valid, stranded>>
  PROVE  ClientsCurrent'
BY FailEffect, IdleFields DEF ClientsCurrent, Saving, Shaped, ClientsShaped, NoClient

\* A client in use keeps up with its own refreshes.
LEMMA StepClientsCurrent ==
  ASSUME Shaped, AnswersFresh, ClientsCurrent, [Next]_vars
  PROVE  ClientsCurrent'
<1>1. CASE UNCHANGED vars
  BY <1>1 DEF vars, serverVars, history, ClientsCurrent, Saving
<1>2. ASSUME NEW t \in Threads, NEW u \in Users,
             AddAccount(t, u) \/ \E password \in BOOLEAN : AuthImport(t, u, password)
      PROVE  ClientsCurrent'
  BY <1>2, BeginEffect, IdleFields DEF Begins, ClientsCurrent, Saving
<1>3. ASSUME NEW t \in Threads, NEW c \in Clients, NEW u \in Users, Load(t, c, u)
      PROVE  ClientsCurrent'
  BY <1>3, LoadEffect, IdleFields DEF ClientsCurrent, Saving
<1>4. ASSUME NEW t \in Threads, NEW c \in Clients, ReAuth(t, c) PROVE ClientsCurrent'
  BY <1>4, ReAuthEffect, IdleFields DEF ClientsCurrent, Saving
<1>5. ASSUME NEW t \in Threads, Rotate(t) PROVE ClientsCurrent'
  <2> DEFINE c == thread[t].client
             token == client[c].auth.token
  <2>1. /\ thread[t].pc = "refreshing" /\ c \in Clients /\ valid \ {token} \subseteq valid'
        /\ stranded \subseteq stranded'
        /\ \A d \in Clients \ {c} : client[d].auth.token = token => d \in stranded'
        /\ \A s \in Threads \ {t} : /\ thread'[s].pc = thread[s].pc
                                    /\ thread'[s].client = thread[s].client
    BY <1>5, RotateEffect DEF Rests
  <2>2. CASE thread'[t].pc = "answered"
    <3>1. thread'[t].client = c /\ client' = client
      BY <1>5, <2>2, RotateEffect, IdleFields
    <3> QED
      BY <2>1, <2>2, <3>1 DEF ClientsCurrent, Saving
  <2>3. CASE thread'[t].pc # "answered"
    <3>1. /\ thread'[t] = Idle
          /\ \A d \in Clients \ {c} : client'[d] = client[d]
          /\ client'[c] = IF client[c].live THEN client[c] ELSE NoClient
          /\ client[c].live => c \in stranded'
      BY <1>5, <2>3, RotateEffect
    <3>2. ASSUME ~client[c].live
          PROVE  ~client'[c].live /\ \A s \in Threads : thread'[s].client # c
      BY <2>1, <3>1, <3>2, IdleFields DEF Shaped, ClientsShaped, NoClient
    <3> QED
      BY <2>1, <3>1, <3>2, IdleFields DEF ClientsCurrent, Saving
  <2> QED
    BY <2>2, <2>3
<1>6. ASSUME NEW t \in Threads, Refused(t) PROVE ClientsCurrent'
  <2>1. CASE Fail(t) /\ UNCHANGED <<issued, valid>>
    BY <1>6, <2>1, FailCurrent, RefusedEffect
  <2>2. CASE ~(Fail(t) /\ UNCHANGED <<issued, valid>>)
    BY <1>6, <2>2, RefusedEffect DEF ClientsCurrent, Saving
  <2> QED
    BY <2>1, <2>2
<1>7. ASSUME NEW t \in Threads, Keep(t) PROVE ClientsCurrent'
  <2> DEFINE c == thread[t].client
  <2>1. /\ thread[t].pc = "answered" /\ thread'[t].client = c /\ c \in Clients
        /\ \A s \in Threads \ {t} : /\ thread'[s].pc = thread[s].pc
                                    /\ thread'[s].client = thread[s].client
        /\ \A d \in Clients \ {c} : client'[d] = client[d]
        /\ client'[c].auth.token = thread[t].answer
        /\ stranded \ {c} \subseteq stranded' /\ valid' = valid
        /\ thread[t].overtaken => c \in stranded'
    <3> USE KeepEffect
    <3>1. /\ thread[t].pc = "answered" /\ c \in Clients /\ Carries(t) /\ valid' = valid
          /\ \A s \in Threads \ {t} : Rests(s)
      BY <1>7
    <3>2. /\ \A d \in Clients \ {c} : client'[d] = client[d]
          /\ client'[c].auth.token = thread[t].answer
      BY <1>7
    <3>3. stranded \ {c} \subseteq stranded' /\ (thread[t].overtaken => c \in stranded')
      BY <1>7 DEF Keep
    <3> QED
      BY <3>1, <3>2, <3>3 DEF Carries, Rests
  <2>2. thread[t].answer \in valid \/ c \in stranded'
    BY <2>1 DEF AnswersFresh
  <2>3. ASSUME NEW d \in Clients \ {c}, d \notin stranded',
               client'[d].live \/ \E s \in Threads : thread'[s].client = d
                                                     /\ thread'[s].pc \in Saving
        PROVE  \/ client'[d].auth.token \in valid'
               \/ \E s \in Threads : thread'[s].client = d /\ thread'[s].pc = "answered"
    <3>1. \A s \in Threads : thread[s].client = d => s # t
      BY <2>3
    <3>2. client[d].live \/ \E s \in Threads : thread[s].client = d /\ thread[s].pc \in Saving
      BY <2>1, <2>3
    <3> QED
      BY <2>1, <2>3, <3>1, <3>2 DEF ClientsCurrent
  <2> QED
    BY <2>1, <2>2, <2>3 DEF ClientsCurrent
<1>8. ASSUME NEW t \in Threads, Unlock(t) PROVE ClientsCurrent'
  <2>1. CASE Fail(t)
    BY <1>8, <2>1, FailCurrent, UnlockEffect
  <2>2. CASE ~Fail(t)
    BY <1>8, <2>2, UnlockEffect DEF Carries, ClientsCurrent, Saving
  <2> QED
    BY <2>1, <2>2
<1>9. ASSUME NEW t \in Threads, Read(t) PROVE ClientsCurrent'
  <2>1. CASE Fail(t)
    BY <1>9, <2>1, FailCurrent, ReadEffect
  <2>2. CASE ~Fail(t)
    BY <1>9, <2>2, ReadEffect DEF Carries, ClientsCurrent, Saving
  <2> QED
    BY <2>1, <2>2
<1>10. ASSUME NEW t \in Threads, Create(t) PROVE ClientsCurrent'
  BY <1>10, CreateEffect DEF Carries, ClientsCurrent, Saving
<1>11. ASSUME NEW t \in Threads, Write(t) PROVE ClientsCurrent'
  <2>1. /\ thread[t].pc = "writing" /\ thread'[t].pc \notin Saving \cup {"answered"}
        /\ UNCHANGED <<valid, stranded>>
        /\ \A s \in Threads \ {t} : /\ thread'[s].pc = thread[s].pc
                                    /\ thread'[s].client = thread[s].client
        /\ \A c \in Clients : /\ client'[c].auth = client[c].auth
                              /\ client'[c].live => client[c].live \/ c = thread[t].client
    BY <1>11, WriteEffect, SavedFields, AuthAssumption, IdleFields
    DEF Rests, Saving, Shaped, Typed
  <2> QED
    BY <2>1, IdleFields DEF ClientsCurrent, Saving
<1>12. ASSUME NEW t \in Threads, SaveFails(t) PROVE ClientsCurrent'
  BY <1>12, FailCurrent DEF SaveFails, serverVars, Saving
<1>13. ASSUME NEW c \in Clients, Exit(c) PROVE ClientsCurrent'
  BY <1>13, ExitEffect, IdleFields DEF NoClient, ClientsCurrent, Saving
<1>14. ASSUME NEW token, Revoke(token) PROVE ClientsCurrent'
  BY <1>14, RevokeEffect, IdleFields DEF ClientsCurrent, Saving, Rests
<1>15. ASSUME NEW t \in Threads, ShowPassword(t) PROVE ClientsCurrent'
  BY <1>15, ShowEffect, IdleFields DEF ClientsCurrent, Saving
<1> QED
  BY <1>1, <1>2, <1>3, <1>4, <1>5, <1>6, <1>7, <1>8, <1>9,
     <1>10, <1>11, <1>12, <1>13, <1>14, <1>15
  DEF Next, Authenticate

\* A failure of one thread leaves the saves of the others as they are.
LEMMA FailSaves ==
  ASSUME Shaped, SavesCurrent, NEW t \in Threads, Fail(t), UNCHANGED <<valid, file>>
  PROVE  SavesCurrent'
<1>1. \A s \in Threads \ {t} : thread[s].pc = "unlocking" =>
        client'[thread[s].client] = client[thread[s].client]
  BY FailEffect DEF Shaped, ThreadsShaped, ClientsShaped
<1> QED
  BY <1>1, FailEffect, IdleFields DEF SavesCurrent, Saving, ToSave

\* What a thread is going to save is not out of date unnoticed.
LEMMA StepSavesCurrent ==
  ASSUME Shaped, AnswersFresh, SavesCurrent, [Next]_vars
  PROVE  SavesCurrent'
<1>1. CASE UNCHANGED vars
  BY <1>1 DEF vars, serverVars, fileVars, SavesCurrent, Saving, ToSave
<1>2. ASSUME NEW t \in Threads, NEW u \in Users,
             AddAccount(t, u) \/ \E password \in BOOLEAN : AuthImport(t, u, password)
      PROVE  SavesCurrent'
  BY <1>2, BeginEffect DEF Begins, SavesCurrent, Saving, ToSave
<1>3. ASSUME NEW t \in Threads, NEW c \in Clients, NEW u \in Users, Load(t, c, u)
      PROVE  SavesCurrent'
  <2>1. \A s \in Threads : thread[s].pc = "unlocking" =>
          client'[thread[s].client] = client[thread[s].client]
    BY <1>3, LoadEffect DEF Shaped, ThreadsShaped
  <2> QED
    BY <1>3, <2>1, LoadEffect DEF SavesCurrent, Saving, ToSave
<1>4. ASSUME NEW t \in Threads, NEW c \in Clients, ReAuth(t, c) PROVE SavesCurrent'
  <2>1. \A d \in Clients : client'[d].auth = client[d].auth
    BY <1>4, ReAuthEffect
  <2>2. \A s \in Threads : thread[s].pc = "unlocking" => thread[s].client \in Clients
    BY DEF Shaped, ThreadsShaped
  <2> QED
    BY <1>4, <2>1, <2>2, ReAuthEffect DEF SavesCurrent, Saving, ToSave
<1>5. ASSUME NEW t \in Threads, Rotate(t) PROVE SavesCurrent'
  <2> DEFINE c == thread[t].client
             token == client[c].auth.token
  <2>1. /\ thread[t].pc = "refreshing" /\ c \in Clients /\ valid \ {token} \subseteq valid'
        /\ \A s \in Threads \ {t} : /\ Rests(s) /\ thread'[s].raced = thread[s].raced
                                    /\ ~thread'[s].overtaken =>
                                         ~thread[s].overtaken /\ ToSave(s) # token
        /\ file' = file /\ thread'[t].pc \in {"answered", "idle"}
        /\ \A d \in Clients : client'[d] = IF d = c /\ ~client[d].live /\ thread'[t] = Idle
                                             THEN NoClient ELSE client[d]
    BY <1>5, RotateEffect, IdleFields
  <2>2. \A s \in Threads \ {t} : thread[s].pc = "unlocking" =>
          client'[thread[s].client] = client[thread[s].client]
    BY <2>1 DEF Shaped, ThreadsShaped, ClientsShaped
  <2> HIDE DEF token
  <2>3. \A s \in Threads \ {t} : thread[s].pc \in Saving => ToSave(s)' = ToSave(s)
    BY <2>1, <2>2 DEF Rests, ToSave
  <2> QED
    BY <2>1, <2>3 DEF SavesCurrent, Saving, Rests
<1>6. ASSUME NEW t \in Threads, Refused(t) PROVE SavesCurrent'
  <2>1. CASE Fail(t) /\ UNCHANGED <<issued, valid>>
    BY <1>6, <2>1, FailSaves, RefusedEffect
  <2>2. CASE ~(Fail(t) /\ UNCHANGED <<issued, valid>>)
    BY <1>6, <2>2, RefusedEffect DEF SavesCurrent, Saving, ToSave
  <2> QED
    BY <2>1, <2>2
<1>7. ASSUME NEW t \in Threads, Keep(t) PROVE SavesCurrent'
  <2> DEFINE c == thread[t].client
  <2>1. /\ thread[t].answer \in valid \/ thread[t].overtaken
        /\ UNCHANGED <<valid, file>> /\ client'[c].auth.token = thread[t].answer
        /\ thread'[t].pc = "unlocking" /\ thread'[t].client = c
        /\ thread'[t].overtaken = thread[t].overtaken
    BY <1>7, KeepEffect DEF AnswersFresh, Carries
  <2>2. ASSUME NEW s \in Threads \ {t}, thread'[s].pc \in Saving, ~thread'[s].overtaken
        PROVE  ToSave(s)' \in valid'
    <3>1. Rests(s)
      BY <1>7, KeepEffect
    <3>2. CASE thread[s].client = c /\ thread[s].pc = "unlocking"
      <4>1. ~thread[t].overtaken
        BY <1>7, <2>2, <3>2, KeepEffect
      <4> QED
        BY <2>1, <3>1, <3>2, <4>1 DEF ToSave, Rests
    <3>3. CASE ~(thread[s].client = c /\ thread[s].pc = "unlocking")
      <4>1. ~thread[s].overtaken
        BY <1>7, <2>2, <3>3, KeepEffect
      <4>2. thread[s].pc = "unlocking" =>
              client'[thread[s].client] = client[thread[s].client]
        BY <1>7, <3>3, KeepEffect DEF Shaped, ThreadsShaped
      <4> QED
        BY <2>1, <2>2, <3>1, <4>1, <4>2 DEF SavesCurrent, Saving, ToSave, Rests
    <3> QED
      BY <3>2, <3>3
  <2>3. ASSUME thread'[t].pc \in Saving, ~thread'[t].overtaken PROVE ToSave(t)' \in valid'
    BY <2>1, <2>3 DEF ToSave
  <2>4. \A s \in Threads : thread'[s].pc \in {"creating", "writing"} /\ ~thread'[s].raced =>
          thread'[s].read = file'
    BY <1>7, <2>1, KeepEffect DEF Rests, SavesCurrent
  <2> QED
    BY <2>2, <2>3, <2>4 DEF SavesCurrent
<1>8. ASSUME NEW t \in Threads, Unlock(t) PROVE SavesCurrent'
  <2>1. CASE Fail(t)
    BY <1>8, <2>1, FailSaves, UnlockEffect
  <2>2. CASE ~Fail(t)
    BY <1>8, <2>2, UnlockEffect DEF Carries, SavesCurrent, Saving, ToSave
  <2> QED
    BY <2>1, <2>2
<1>9. ASSUME NEW t \in Threads, Read(t) PROVE SavesCurrent'
  <2>1. CASE Fail(t)
    BY <1>9, <2>1, FailSaves, ReadEffect
  <2>2. CASE ~Fail(t)
    BY <1>9, <2>2, ReadEffect DEF Carries, SavesCurrent, Saving, ToSave
  <2> QED
    BY <2>1, <2>2
<1>10. ASSUME NEW t \in Threads, Create(t) PROVE SavesCurrent'
  BY <1>10, CreateEffect DEF Carries, SavesCurrent, Saving, ToSave
<1>11. ASSUME NEW t \in Threads, Write(t) PROVE SavesCurrent'
  <2>1. /\ thread[t].pc = "writing" /\ thread'[t].pc \notin Saving /\ valid' = valid
        /\ \A s \in Threads \ {t} : /\ Rests(s) /\ thread'[s].overtaken = thread[s].overtaken
                                    /\ thread[s].pc \in {"creating", "writing"} => thread'[s].raced
        /\ \A c \in Clients : client'[c].auth = client[c].auth
    BY <1>11, WriteEffect, SavedFields, AuthAssumption, IdleFields DEF Saving, Shaped, Typed
  <2>2. \A s \in Threads : thread[s].pc = "unlocking" => thread[s].client \in Clients
    BY DEF Shaped, ThreadsShaped
  <2>3. \A s \in Threads \ {t} : thread[s].pc \in Saving => ToSave(s)' = ToSave(s)
    BY <2>1, <2>2 DEF Rests, ToSave
  <2> QED
    BY <2>1, <2>3, IdleFields DEF SavesCurrent, Saving, Rests
<1>12. ASSUME NEW t \in Threads, SaveFails(t) PROVE SavesCurrent'
  BY <1>12, FailSaves DEF SaveFails, serverVars, fileVars, Saving
<1>13. ASSUME NEW c \in Clients, Exit(c) PROVE SavesCurrent'
  <2>1. \A s \in Threads : thread[s].client # c => thread'[s] = thread[s]
    BY <1>13, ExitEffect
  <2>2. \A s \in Threads : thread[s].client # c /\ thread[s].pc = "unlocking" =>
          client'[thread[s].client] = client[thread[s].client]
    BY <1>13, ExitEffect DEF Shaped, ThreadsShaped
  <2>3. \A s \in Threads : thread[s].client = c => thread'[s].pc = "idle"
    BY <1>13, ExitEffect, IdleFields
  <2>4. UNCHANGED <<valid, file>>
    BY <1>13, ExitEffect
  <2> QED
    BY <2>1, <2>2, <2>3, <2>4 DEF SavesCurrent, Saving, ToSave
<1>14. ASSUME NEW token, Revoke(token) PROVE SavesCurrent'
  <2>1. /\ valid' = valid \ {token} /\ UNCHANGED <<file, client>>
        /\ \A s \in Threads :
             /\ Rests(s) /\ thread'[s].raced = thread[s].raced
             /\ ~thread'[s].overtaken => ~thread[s].overtaken /\ ToSave(s) # token
    BY <1>14, RevokeEffect
  <2>2. \A s \in Threads : ToSave(s)' = ToSave(s)
    BY <2>1 DEF ToSave, Rests
  <2> QED
    BY <2>1, <2>2 DEF SavesCurrent, Rests
<1>15. ASSUME NEW t \in Threads, ShowPassword(t) PROVE SavesCurrent'
  BY <1>15, ShowEffect, IdleFields DEF SavesCurrent, Saving, ToSave
<1> QED
  BY <1>1, <1>2, <1>3, <1>4, <1>5, <1>6, <1>7, <1>8, <1>9,
     <1>10, <1>11, <1>12, <1>13, <1>14, <1>15
  DEF Next, Authenticate

\* A token that is held for an account has been issued.
LEMMA HoldsIssued == ASSUME Shaped, NEW u, NEW k, Holds(u, k) PROVE k \in 0 .. issued
<1>1. u \in DOMAIN file => file[u].token \in 0 .. issued
  BY DEF Shaped, Typed, FileTo, EntryTo
<1>2. \A c \in Clients : client[c].auth.token \in 0 .. issued
  BY DEF Shaped, Typed, ClientTo, EntryTo
<1>3. \A t \in Threads : thread[t].entry.token \in 0 .. issued /\ thread[t].answer \in 0 .. issued
  BY DEF Shaped, Typed, ThreadTo, EntryTo
<1>4. \A t \in Threads : u \in DOMAIN thread[t].read => thread[t].read[u].token \in 0 .. issued
  BY DEF Shaped, Typed, ThreadTo, FileTo, EntryTo
<1> QED
  BY <1>1, <1>2, <1>3, <1>4 DEF Holds

\* A step that moves tokens within their accounts, and gives at most one new one to
\* the account w.
LEMMA OwnersKept ==
  ASSUME Shaped, TokensOwned, NEW w, issued' = issued \/ issued' = issued + 1,
         \A u \in Users, k \in 1 .. issued' :
           Holds(u, k)' => Holds(u, k) \/ (k = issued + 1 /\ u = w)
  PROVE  TokensOwned'
<1>1. issued \in Nat
  BY AuthAssumption DEF Shaped, Typed
<1>2. \A u, k : Holds(u, k) => k \in 0 .. issued
  BY HoldsIssued
<1>3. ASSUME NEW u \in Users, NEW v \in Users, NEW k \in 1 .. issued',
             Holds(u, k)', Holds(v, k)'
      PROVE  u = v
  <2>1. CASE k = issued + 1
    BY <1>1, <1>2, <1>3, <2>1
  <2>2. CASE k # issued + 1
    BY <1>1, <1>3, <2>2 DEF TokensOwned
  <2> QED
    BY <2>1, <2>2
<1> QED
  BY <1>3 DEF TokensOwned

\* A failure gives no token to anybody.
LEMMA FailOwners ==
  ASSUME Shaped, TokensOwned, NEW t \in Threads, Fail(t), UNCHANGED <<issued, file>>
  PROVE  TokensOwned'
<1>1. issued \in Nat
  BY AuthAssumption DEF Shaped, Typed
<1>2. \A v \in Users, k \in 1 .. issued' : Holds(v, k)' => Holds(v, k)
  BY <1>1, FailEffect DEF Holds, Idle, NoEntry, NoClient
<1> QED
  BY <1>2, OwnersKept

\* Every token stays with its account.
LEMMA StepTokensOwned ==
  ASSUME Shaped, TokensOwned, [Next]_vars
  PROVE  TokensOwned'
<1>0. issued \in Nat
  BY AuthAssumption DEF Shaped, Typed
<1>1. CASE UNCHANGED vars
  <2>1. \A v, k : Holds(v, k)' <=> Holds(v, k)
    BY <1>1 DEF vars, serverVars, fileVars, Holds
  <2> QED
    BY <1>1, <2>1 DEF vars, serverVars, TokensOwned
<1>2. ASSUME NEW t \in Threads, NEW u \in Users,
             AddAccount(t, u) \/ \E password \in BOOLEAN : AuthImport(t, u, password)
      PROVE  TokensOwned'
  <2>1. Begins(t, u)
    BY <1>2, BeginEffect
  <2>2. \A v \in Users, k \in 1 .. issued' :
          Holds(v, k)' => Holds(v, k) \/ (k = issued + 1 /\ v = u)
    BY <2>1, <1>0 DEF Holds, Begins
  <2>3. issued' = issued + 1
    BY <2>1 DEF Begins
  <2> QED
    BY <2>2, <2>3, OwnersKept
<1>3. ASSUME NEW t \in Threads, NEW c \in Clients, NEW u \in Users, Load(t, c, u)
      PROVE  TokensOwned'
  <2>1. \A v \in Users, k \in 1 .. issued' : Holds(v, k)' => Holds(v, k)
    BY <1>3, <1>0, LoadEffect DEF Holds, NoEntry
  <2>2. issued' = issued
    BY <1>3, LoadEffect
  <2> QED
    BY <2>1, <2>2, OwnersKept
<1>4. ASSUME NEW t \in Threads, NEW c \in Clients, ReAuth(t, c) PROVE TokensOwned'
  <2>1. \A v \in Users, k \in 1 .. issued' : Holds(v, k)' => Holds(v, k)
    BY <1>4, <1>0, ReAuthEffect DEF Holds, NoEntry
  <2>2. issued' = issued
    BY <1>4, ReAuthEffect
  <2> QED
    BY <2>1, <2>2, OwnersKept
<1>5. ASSUME NEW t \in Threads, Rotate(t) PROVE TokensOwned'
  <2>1. \A s \in Threads \ {t} : Rests(s)
    BY <1>5, RotateEffect
  <2>2. \/ /\ thread'[t].user = thread[t].user /\ thread'[t].entry = thread[t].entry
           /\ thread'[t].read = thread[t].read /\ thread'[t].answer = issued + 1
        \/ /\ thread'[t].entry.token = 0 /\ thread'[t].answer = 0 /\ DOMAIN thread'[t].read = {}
    BY <1>5, RotateEffect DEF Idle, NoEntry
  <2>3. \A c \in Clients : client'[c] = client[c] \/ client'[c].auth.token = 0
    BY <1>5, RotateEffect DEF NoClient, NoEntry
  <2>4. issued' = issued + 1 /\ file' = file
    BY <1>5, RotateEffect
  <2>5. \A v \in Users, k \in 1 .. issued' :
          Holds(v, k)' => Holds(v, k) \/ (k = issued + 1 /\ v = thread[t].user)
    BY <1>0, <2>1, <2>2, <2>3, <2>4 DEF Holds, Rests
  <2> QED
    BY <2>4, <2>5, OwnersKept
<1>6. ASSUME NEW t \in Threads, Refused(t) PROVE TokensOwned'
  <2>1. CASE Fail(t) /\ UNCHANGED <<issued, valid>>
    BY <1>6, <2>1, FailOwners, RefusedEffect
  <2>2. CASE ~(Fail(t) /\ UNCHANGED <<issued, valid>>)
    <3>1. \A v \in Users, k \in 1 .. issued' :
            Holds(v, k)' => Holds(v, k) \/ (k = issued + 1 /\ v = thread[t].user)
      BY <1>6, <2>2, RefusedEffect DEF Holds
    <3>2. issued' = issued + 1
      BY <1>6, <2>2, RefusedEffect
    <3> QED
      BY <3>1, <3>2, OwnersKept
  <2> QED
    BY <2>1, <2>2
<1>7. ASSUME NEW t \in Threads, Keep(t) PROVE TokensOwned'
  <2>1. client[thread[t].client].user = thread[t].user /\ thread[t].client \in Clients
    BY <1>7, KeepEffect DEF Shaped, ThreadsShaped
  <2>2. \A v \in Users, k \in 1 .. issued' : Holds(v, k)' => Holds(v, k)
    BY <1>7, <2>1, KeepEffect DEF Holds, Carries, Rests
  <2>3. issued' = issued
    BY <1>7, KeepEffect
  <2> QED
    BY <2>2, <2>3, OwnersKept
<1>8. ASSUME NEW t \in Threads, Unlock(t) PROVE TokensOwned'
  <2>1. CASE Fail(t)
    BY <1>8, <2>1, FailOwners, UnlockEffect
  <2>2. CASE ~Fail(t)
    <3>1. client[thread[t].client].user = thread[t].user /\ thread[t].client \in Clients
      BY <1>8, UnlockEffect DEF Shaped, ThreadsShaped
    <3>2. \A v \in Users, k \in 1 .. issued' : Holds(v, k)' => Holds(v, k)
      BY <1>8, <2>2, <3>1, UnlockEffect DEF Holds, Carries
    <3>3. issued' = issued
      BY <1>8, UnlockEffect
    <3> QED
      BY <3>2, <3>3, OwnersKept
  <2> QED
    BY <2>1, <2>2
<1>9. ASSUME NEW t \in Threads, Read(t) PROVE TokensOwned'
  <2>1. CASE Fail(t)
    BY <1>9, <2>1, FailOwners, ReadEffect
  <2>2. CASE ~Fail(t)
    <3>1. \A v \in Users, k \in 1 .. issued' : Holds(v, k)' => Holds(v, k)
      BY <1>9, <2>2, ReadEffect DEF Holds, Carries
    <3>2. issued' = issued
      BY <1>9, ReadEffect
    <3> QED
      BY <3>1, <3>2, OwnersKept
  <2> QED
    BY <2>1, <2>2
<1>10. ASSUME NEW t \in Threads, Create(t) PROVE TokensOwned'
  <2>1. \A v \in Users, k \in 1 .. issued' : Holds(v, k)' => Holds(v, k)
    BY <1>10, <1>0, CreateEffect DEF Holds, Carries
  <2>2. issued' = issued
    BY <1>10, CreateEffect
  <2> QED
    BY <2>1, <2>2, OwnersKept
<1>11. ASSUME NEW t \in Threads, Write(t) PROVE TokensOwned'
  <2>1. file' = With(thread[t].read, thread[t].user, thread[t].entry)
    BY <1>11, WriteEffect
  <2>2. \A v \in DOMAIN file' :
          \/ v = thread[t].user /\ file'[v] = thread[t].entry
          \/ v \in DOMAIN thread[t].read /\ file'[v] = thread[t].read[v]
    BY <2>1 DEF With
  <2>3. \A c \in Clients : client'[c].user = client[c].user /\ client'[c].auth = client[c].auth
    BY <1>11, WriteEffect
  <2>4. \A s \in Threads \ {t} : Rests(s)
    BY <1>11, WriteEffect
  <2>5. thread'[t].entry.token = 0 /\ thread'[t].answer = 0 /\ DOMAIN thread'[t].read = {}
    BY <1>0, <1>11, WriteEffect, SavedFields DEF Idle, NoEntry, Shaped, Typed
  <2>6. \A v \in Users, k \in 1 .. issued' : Holds(v, k)' => Holds(v, k)
    BY <2>2, <2>3, <2>4, <2>5 DEF Holds, Rests
  <2>7. issued' = issued
    BY <1>11, WriteEffect
  <2> QED
    BY <2>6, <2>7, OwnersKept
<1>12. ASSUME NEW t \in Threads, SaveFails(t) PROVE TokensOwned'
  BY <1>12, FailOwners DEF SaveFails, serverVars, fileVars
<1>13. ASSUME NEW c \in Clients, Exit(c) PROVE TokensOwned'
  <2>1. \A v \in Users, k \in 1 .. issued' : Holds(v, k)' => Holds(v, k)
    BY <1>13, <1>0, ExitEffect DEF Holds, Idle, NoEntry, NoClient
  <2>2. issued' = issued
    BY <1>13, ExitEffect
  <2> QED
    BY <2>1, <2>2, OwnersKept
<1>14. ASSUME NEW token, Revoke(token) PROVE TokensOwned'
  <2>1. UNCHANGED <<issued, file, client>> /\ \A s \in Threads : Rests(s)
    BY <1>14, RevokeEffect
  <2>2. \A v, k : Holds(v, k)' <=> Holds(v, k)
    BY <2>1 DEF Holds, Rests
  <2> QED
    BY <2>1, <2>2 DEF TokensOwned
<1>15. ASSUME NEW t \in Threads, ShowPassword(t) PROVE TokensOwned'
  <2>1. \A v \in Users, k \in 1 .. issued' : Holds(v, k)' => Holds(v, k)
    BY <1>15, <1>0, ShowEffect DEF Holds, Idle, NoEntry
  <2>2. issued' = issued
    BY <1>15, ShowEffect
  <2> QED
    BY <2>1, <2>2, OwnersKept
<1> QED
  BY <1>1, <1>2, <1>3, <1>4, <1>5, <1>6, <1>7, <1>8, <1>9,
     <1>10, <1>11, <1>12, <1>13, <1>14, <1>15
  DEF Next, Authenticate

\* A failure leaves the file as it is.
LEMMA FailSaved ==
  ASSUME Shaped, SavedCurrent, NEW t \in Threads, Fail(t), UNCHANGED <<valid, file, printed>>
  PROVE  SavedCurrent'
BY FailEffect, IdleFields DEF SavedCurrent, Told

\* What the thread has read of another account is the file, unless it is lost.
LEMMA ReadUnlessLost ==
  ASSUME SavesCurrent, NEW t \in Threads, thread[t].pc = "writing",
         NEW u \in DOMAIN file, u # thread[t].user, u \notin Lost(t)
  PROVE  u \in DOMAIN thread[t].read /\ thread[t].read[u] = file[u]
BY DEF SavesCurrent, Lost

\* The saved token follows every refresh.
LEMMA StepSavedCurrent ==
  ASSUME Shaped, SavesCurrent, TokensOwned, SavedCurrent, [Next]_vars
  PROVE  SavedCurrent'
<1>1. CASE UNCHANGED vars
  BY <1>1 DEF vars, serverVars, fileVars, history, SavedCurrent, Told
<1>2. ASSUME NEW t \in Threads, NEW u \in Users,
             AddAccount(t, u) \/ \E password \in BOOLEAN : AuthImport(t, u, password)
      PROVE  SavedCurrent'
  BY <1>2, BeginEffect, IdleFields DEF Begins, SavedCurrent, Told
<1>3. ASSUME NEW t \in Threads, NEW c \in Clients, NEW u \in Users, Load(t, c, u)
      PROVE  SavedCurrent'
  BY <1>3, LoadEffect, IdleFields DEF SavedCurrent, Told
<1>4. ASSUME NEW t \in Threads, NEW c \in Clients, ReAuth(t, c) PROVE SavedCurrent'
  BY <1>4, ReAuthEffect, IdleFields DEF SavedCurrent, Told
<1>5. ASSUME NEW t \in Threads, Rotate(t) PROVE SavedCurrent'
  <2> DEFINE w == thread[t].user
             token == client[thread[t].client].auth.token
  <2>1. /\ thread[t].client \in Clients /\ client[thread[t].client].user = w /\ w \in Users
        /\ token \in 1 .. issued /\ DOMAIN file \subseteq Users
    BY <1>5, RotateEffect DEF Shaped, Typed, ThreadsShaped, FileTo
  <2>2. ASSUME NEW u \in DOMAIN file, file[u].token = token PROVE u = w
    <3>1. Holds(u, token) /\ Holds(w, token)
      BY <2>1, <2>2 DEF Holds
    <3> QED
      BY <2>1, <3>1 DEF TokensOwned
  <2>3. valid \ {token} \subseteq valid' /\ UNCHANGED <<file, printed>>
    BY <1>5, RotateEffect
  <2>4. \A s \in Threads \ {t} : /\ thread'[s].user = thread[s].user
                                /\ thread'[s].rotated = thread[s].rotated
                                /\ thread'[s].pc = thread[s].pc
    BY <1>5, RotateEffect DEF Rests
  <2>5. \/ thread'[t].user = w /\ thread'[t].rotated /\ spoilt' = spoilt
        \/ w \in spoilt' /\ spoilt \subseteq spoilt'
    BY <1>5, RotateEffect
  <2>7. thread'[t].pc # "printing"
    BY <1>5, RotateEffect, IdleFields
  <2> HIDE DEF token, w
  <2>6. ASSUME NEW u, Told(u)', u \notin spoilt'
        PROVE  /\ u \in DOMAIN file'
               /\ \/ file'[u].token \in valid'
                  \/ \E s \in Threads : thread'[s].user = u /\ thread'[s].rotated
    <3>1. Told(u) /\ u \notin spoilt
      BY <2>3, <2>4, <2>5, <2>6, <2>7 DEF Told
    <3>2. CASE u = w
      <4>1. u \in DOMAIN file' /\ thread'[t].user = w /\ thread'[t].rotated
        BY <2>3, <2>5, <2>6, <3>1, <3>2 DEF SavedCurrent
      <4> QED
        BY <3>2, <4>1
    <3>3. CASE u # w
      <4>1. \A s \in Threads : thread[s].user = u => s # t
        BY <3>3 DEF w
      <4> QED
        BY <2>2, <2>3, <2>4, <3>1, <3>3, <4>1 DEF SavedCurrent, Told
    <3> QED
      BY <3>2, <3>3
  <2> QED
    BY <2>6 DEF SavedCurrent, Told
<1>6. ASSUME NEW t \in Threads, Refused(t) PROVE SavedCurrent'
  <2>1. CASE Fail(t) /\ UNCHANGED <<issued, valid>>
    BY <1>6, <2>1, FailSaved, RefusedEffect
  <2>2. CASE ~(Fail(t) /\ UNCHANGED <<issued, valid>>)
    BY <1>6, <2>2, RefusedEffect DEF SavedCurrent, Told
  <2> QED
    BY <2>1, <2>2
<1>7. ASSUME NEW t \in Threads, Keep(t) PROVE SavedCurrent'
  BY <1>7, KeepEffect DEF Carries, Rests, SavedCurrent, Told
<1>8. ASSUME NEW t \in Threads, Unlock(t) PROVE SavedCurrent'
  <2>1. CASE Fail(t)
    BY <1>8, <2>1, FailSaved, UnlockEffect
  <2>2. CASE ~Fail(t)
    BY <1>8, <2>2, UnlockEffect DEF Carries, Rests, SavedCurrent, Told
  <2> QED
    BY <2>1, <2>2
<1>9. ASSUME NEW t \in Threads, Read(t) PROVE SavedCurrent'
  <2>1. CASE Fail(t)
    BY <1>9, <2>1, FailSaved, ReadEffect
  <2>2. CASE ~Fail(t)
    BY <1>9, <2>2, ReadEffect DEF Carries, Rests, SavedCurrent, Told
  <2> QED
    BY <2>1, <2>2
<1>10. ASSUME NEW t \in Threads, Create(t) PROVE SavedCurrent'
  BY <1>10, CreateEffect DEF Carries, Rests, SavedCurrent, Told
<1>11. ASSUME NEW t \in Threads, Write(t) PROVE SavedCurrent'
  <2> DEFINE me == thread[t]
  <2>1. /\ me.pc = "writing" /\ file' = With(me.read, me.user, me.entry) /\ valid' = valid
        /\ printed' = printed /\ (thread'[t].pc = "printing" => thread'[t].user = me.user)
        /\ \A s \in Threads \ {t} : Rests(s)
        /\ spoilt' = (spoilt \ {me.user}) \cup Lost(t) \cup (IF me.overtaken THEN {me.user} ELSE {})
    BY <1>11, WriteEffect, SavedFields, IdleFields, AuthAssumption DEF Shaped, Typed
  <2>2. /\ DOMAIN file' = DOMAIN me.read \cup {me.user} /\ file'[me.user] = me.entry
        /\ \A u \in DOMAIN me.read \ {me.user} : file'[u] = me.read[u]
    BY <2>1 DEF With
  <2>3. ~me.overtaken => me.entry.token \in valid
    BY <2>1 DEF SavesCurrent, Saving, ToSave
  <2>4. ASSUME NEW u \in DOMAIN file \ {me.user}, u \notin spoilt'
        PROVE  u \in DOMAIN file' /\ file'[u] = file[u]
    BY <2>1, <2>2, <2>4, ReadUnlessLost
  <2>5. ASSUME NEW u, Told(u)', u \notin spoilt'
        PROVE  /\ u \in DOMAIN file'
               /\ \/ file'[u].token \in valid'
                  \/ \E s \in Threads : thread'[s].user = u /\ thread'[s].rotated
    <3>1. CASE u = me.user
      BY <2>1, <2>2, <2>3, <2>5, <3>1
    <3>2. CASE u # me.user
      <4>1. Told(u) /\ u \notin spoilt
        BY <2>1, <2>5, <3>2 DEF Told, Rests
      <4>2. \A s \in Threads : thread[s].user = u =>
              thread'[s].user = u /\ thread'[s].rotated = thread[s].rotated
        BY <2>1, <3>2 DEF Rests
      <4>3. u \in DOMAIN file
        BY <4>1 DEF SavedCurrent, Told
      <4>4. u \in DOMAIN file' /\ file'[u] = file[u]
        BY <2>4, <2>5, <3>2, <4>3
      <4> QED
        BY <2>1, <4>1, <4>2, <4>4 DEF SavedCurrent, Told
    <3> QED
      BY <3>1, <3>2
  <2> QED
    BY <2>5 DEF SavedCurrent, Told
<1>12. ASSUME NEW t \in Threads, SaveFails(t) PROVE SavedCurrent'
  BY <1>12, FailSaved DEF SaveFails, serverVars, fileVars
<1>13. ASSUME NEW c \in Clients, Exit(c) PROVE SavedCurrent'
  BY <1>13, ExitEffect, IdleFields DEF SavedCurrent, Told
<1>14. ASSUME NEW token, Revoke(token) PROVE SavedCurrent'
  BY <1>14, RevokeEffect DEF SavedCurrent, Told, Rests
<1>15. ASSUME NEW t \in Threads, ShowPassword(t) PROVE SavedCurrent'
  <2>1. /\ DOMAIN printed' = DOMAIN printed \cup {thread[t].user} /\ thread'[t] = Idle
        /\ thread[t].pc = "printing" /\ ~thread[t].rotated
        /\ \A s \in Threads \ {t} : thread'[s] = thread[s]
        /\ UNCHANGED <<file, valid, spoilt>>
    BY <1>15, ShowEffect DEF With, Shaped, ThreadsShaped
  <2>2. \A u : Told(u)' => Told(u)
    BY <2>1, IdleFields DEF Told
  <2> QED
    BY <2>1, <2>2 DEF SavedCurrent
<1> QED
  BY <1>1, <1>2, <1>3, <1>4, <1>5, <1>6, <1>7, <1>8, <1>9,
     <1>10, <1>11, <1>12, <1>13, <1>14, <1>15
  DEF Next, Authenticate

\* The entry keeps the printed password.
LEMMA StepPrintedCurrent ==
  ASSUME Shaped, SavesCurrent, PrintedCurrent, [Next]_vars
  PROVE  PrintedCurrent'
<1>1. CASE UNCHANGED vars
  BY <1>1 DEF vars, serverVars, fileVars, history, PrintedCurrent
<1>2. ASSUME NEW t \in Threads, NEW u \in Users,
             AddAccount(t, u) \/ \E password \in BOOLEAN : AuthImport(t, u, password)
      PROVE  PrintedCurrent'
  BY <1>2, BeginEffect, IdleFields DEF Begins, PrintedCurrent
<1>3. ASSUME NEW t \in Threads, NEW c \in Clients, NEW u \in Users, Load(t, c, u)
      PROVE  PrintedCurrent'
  BY <1>3, LoadEffect, IdleFields DEF PrintedCurrent
<1>4. ASSUME NEW t \in Threads, NEW c \in Clients, ReAuth(t, c) PROVE PrintedCurrent'
  BY <1>4, ReAuthEffect, IdleFields DEF PrintedCurrent
<1>5. ASSUME NEW t \in Threads, Rotate(t) PROVE PrintedCurrent'
  BY <1>5, RotateEffect, IdleFields DEF PrintedCurrent, Rests
<1>6. ASSUME NEW t \in Threads, Refused(t) PROVE PrintedCurrent'
  BY <1>6, RefusedEffect, FailEffect, IdleFields DEF PrintedCurrent
<1>7. ASSUME NEW t \in Threads, Keep(t) PROVE PrintedCurrent'
  BY <1>7, KeepEffect DEF Carries, PrintedCurrent, Rests
<1>8. ASSUME NEW t \in Threads, Unlock(t) PROVE PrintedCurrent'
  BY <1>8, UnlockEffect, FailEffect, IdleFields DEF PrintedCurrent
<1>9. ASSUME NEW t \in Threads, Read(t) PROVE PrintedCurrent'
  BY <1>9, ReadEffect, FailEffect, IdleFields DEF PrintedCurrent
<1>10. ASSUME NEW t \in Threads, Create(t) PROVE PrintedCurrent'
  BY <1>10, CreateEffect DEF Carries, PrintedCurrent
<1>11. ASSUME NEW t \in Threads, Write(t) PROVE PrintedCurrent'
  <2> DEFINE me == thread[t]
  <2>1. /\ me.pc = "writing" /\ file' = With(me.read, me.user, me.entry)
        /\ printed' = printed
        /\ replaced' = (replaced \ {me.user}) \cup Lost(t) \cup
             (IF me.user \notin DOMAIN printed \/ printed[me.user] # me.entry.key
                THEN {me.user} ELSE {})
    BY <1>11, WriteEffect
  <2>2. /\ DOMAIN file' = DOMAIN me.read \cup {me.user} /\ file'[me.user] = me.entry
        /\ \A u \in DOMAIN me.read \ {me.user} : file'[u] = me.read[u]
    BY <2>1 DEF With
  <2>4. ASSUME NEW u \in DOMAIN printed' \ replaced'
        PROVE  u \in DOMAIN file' /\ file'[u].key = printed'[u]
    <3>1. CASE u = me.user
      BY <2>1, <2>2, <2>4, <3>1
    <3>2. CASE u # me.user
      <4>1. u \in DOMAIN printed \ replaced /\ u \notin Lost(t)
        BY <2>1, <2>4, <3>2
      <4>2. u \in DOMAIN file /\ file[u].key = printed[u]
        BY <4>1 DEF PrintedCurrent
      <4>3. u \in DOMAIN me.read /\ me.read[u] = file[u]
        BY <2>1, <3>2, <4>1, <4>2, ReadUnlessLost
      <4> QED
        BY <2>1, <2>2, <3>2, <4>1, <4>2, <4>3
    <3> QED
      BY <3>1, <3>2
  <2>5. ASSUME NEW s \in Threads, thread'[s].pc = "printing", ~thread'[s].raced
        PROVE  /\ thread'[s].user \in DOMAIN file'
               /\ file'[thread'[s].user].key = thread'[s].entry.key
    <3>1. CASE s = t
      BY <1>11, <2>1, <2>2, <2>5, <3>1, WriteEffect, SavedFields, IdleFields, AuthAssumption
      DEF Shaped, Typed
    <3>2. CASE s # t
      BY <1>11, <2>5, <3>2, WriteEffect DEF Rests
    <3> QED
      BY <3>1, <3>2
  <2> QED
    BY <2>4, <2>5 DEF PrintedCurrent
<1>12. ASSUME NEW t \in Threads, SaveFails(t) PROVE PrintedCurrent'
  BY <1>12, FailEffect, IdleFields DEF SaveFails, fileVars, PrintedCurrent
<1>13. ASSUME NEW c \in Clients, Exit(c) PROVE PrintedCurrent'
  BY <1>13, ExitEffect, IdleFields DEF PrintedCurrent
<1>14. ASSUME NEW token, Revoke(token) PROVE PrintedCurrent'
  BY <1>14, RevokeEffect DEF PrintedCurrent, Rests
<1>15. ASSUME NEW t \in Threads, ShowPassword(t) PROVE PrintedCurrent'
  <2> DEFINE w == thread[t].user
  <2>1. /\ DOMAIN printed' = DOMAIN printed \cup {w} /\ printed'[w] = thread[t].entry.key
        /\ \A u \in DOMAIN printed \ {w} : printed'[u] = printed[u]
        /\ thread[t].pc = "printing" /\ thread'[t] = Idle /\ file' = file
        /\ \A s \in Threads \ {t} : thread'[s] = thread[s]
        /\ replaced' = IF thread[t].raced THEN replaced \cup {w} ELSE replaced \ {w}
    BY <1>15, ShowEffect DEF With
  <2> HIDE DEF w
  <2>2. ~thread[t].raced => w \in DOMAIN file /\ file[w].key = thread[t].entry.key
    BY <2>1 DEF PrintedCurrent, w
  <2>3. ASSUME NEW u \in DOMAIN printed' \ replaced'
        PROVE  u \in DOMAIN file' /\ file'[u].key = printed'[u]
    BY <2>1, <2>2, <2>3 DEF PrintedCurrent
  <2> QED
    BY <2>1, <2>3, IdleFields DEF PrintedCurrent
<1> QED
  BY <1>1, <1>2, <1>3, <1>4, <1>5, <1>6, <1>7, <1>8, <1>9,
     <1>10, <1>11, <1>12, <1>13, <1>14, <1>15
  DEF Next, Authenticate

-----------------------------------------------------------------------------
(* The theorems.                                                            *)

\* The invariant holds of an empty file and no client.
LEMMA InitAuth == Init => AuthInv
<1> SUFFICES ASSUME Init PROVE AuthInv
  OBVIOUS
<1>1. Shaped
  BY InitShaped
<1>2. /\ \A t \in Threads : thread[t] = Idle
      /\ \A c \in Clients : client[c] = NoClient
      /\ DOMAIN file = {} /\ DOMAIN printed = {} /\ ~truncated /\ issued = 0
  BY DEF Init
<1>3. EmptyOnlyWhileSaving /\ Authorized /\ AnswersFresh /\ ClientsCurrent /\ SavesCurrent
  BY <1>2, IdleFields
  DEF EmptyOnlyWhileSaving, Authorized, Saving, AnswersFresh, ClientsCurrent, SavesCurrent,
      NoClient
<1>4. TokensOwned /\ SavedCurrent /\ PrintedCurrent
  BY <1>2, IdleFields DEF TokensOwned, SavedCurrent, Told, PrintedCurrent
<1>5. truncated \in BOOLEAN
  BY DEF Init
<1> QED
  BY <1>1, <1>3, <1>4, <1>5 DEF AuthInv

\* That the file is empty stays a truth value.
LEMMA StepTruncated ==
  ASSUME truncated \in BOOLEAN, [Next]_vars
  PROVE  truncated' \in BOOLEAN
<1>1. ASSUME NEW t \in Threads, Create(t) \/ Write(t) PROVE truncated' \in BOOLEAN
  BY <1>1 DEF Create, Write
<1>2. CASE UNCHANGED vars
  BY <1>2 DEF vars, fileVars
<1>3. ASSUME NEW t \in Threads, Authenticate(t), ~(Create(t) \/ Write(t))
      PROVE  UNCHANGED truncated
  BY <1>3 DEF Authenticate, AddAccount, AuthImport, Load, ReAuth, Rotate, Refused, Keep, Unlock,
              Read, SaveFails, ShowPassword, fileVars
<1>4. CASE (\E c \in Clients : Exit(c)) \/ (\E token \in 1 .. MaxToken : Revoke(token))
  BY <1>4 DEF Exit, Revoke, fileVars
<1> QED
  BY <1>1, <1>2, <1>3, <1>4 DEF Next

\* Every step keeps the invariant.
LEMMA StepAuth == AuthInv /\ [Next]_vars => AuthInv'
BY StepShaped, StepTruncated, StepEmptyOnlyWhileSaving, StepAuthorized, StepAnswersFresh,
   StepClientsCurrent,
   StepSavesCurrent, StepTokensOwned, StepSavedCurrent, StepPrintedCurrent
DEF AuthInv

\* In every reachable state of any number of processes and threads, the file, the
\* clients and the threads agree as AuthInv says.
THEOREM AuthInvariant == Spec => []AuthInv
BY InitAuth, StepAuth, PTL DEF Spec

\* Every entry, client and thread holds only tokens that the server has issued.
THEOREM AuthTypeCorrect == Spec => []TypeOK
<1>1. AuthInv => TypeOK
  <2> SUFFICES ASSUME Shaped, truncated \in BOOLEAN PROVE TypeOK
    BY DEF AuthInv
  <2>1. issued \in 0 .. MaxToken /\ valid \subseteq 1 .. issued /\ MaxToken \in Nat
    BY AuthAssumption DEF Shaped, Typed
  <2>2. EntryTo(issued) \subseteq Entries
    BY <2>1 DEF EntryTo, Entries
  <2>3. DOMAIN file \subseteq Users /\ \A u \in DOMAIN file : file[u] \in EntryTo(issued)
    BY DEF Shaped, Typed, FileTo
  <2>4. \A c \in Clients : /\ client[c].auth \in EntryTo(issued)
                          /\ client[c].user \in Users \cup {Nobody}
    BY DEF Shaped, Typed, ClientTo
  <2>5. \A t \in Threads : thread[t].entry \in EntryTo(issued) /\ thread[t].answer \in 0 .. issued
    BY DEF Shaped, Typed, ThreadTo
  <2> QED
    BY <2>1, <2>2, <2>3, <2>4, <2>5 DEF TypeOK
<1> QED
  BY <1>1, AuthInvariant, PTL

\* auth.json is empty only while someone writes it, or after a save that ended too
\* early.
THEOREM EmptyFileIsASave == Spec => []EmptyOnlyWhileSaving
<1>1. AuthInv => EmptyOnlyWhileSaving
  BY DEF AuthInv
<1> QED
  BY <1>1, AuthInvariant, PTL

\* Between saves auth.json holds for every account a token that the server accepts,
\* but for the accounts that an error or a race has spoilt: a refresh always ends
\* with the new token in the file.
THEOREM SavedTokensWork == Spec => []SavedTokenWorks
<1>1. AuthInv => SavedTokenWorks
  BY DEF AuthInv, SavedCurrent, Told, SavedTokenWorks, Working
<1> QED
  BY <1>1, AuthInvariant, PTL

\* The bridge password that was printed last opens the entry, wherever processes end,
\* unless a client with an older one or another save has replaced it, or a command has
\* saved a new entry without having printed its password.
THEOREM PrintedPasswordsOpen == Spec => []PrintedPasswordOpens
<1>1. AuthInv => PrintedPasswordOpens
  BY DEF AuthInv, PrintedCurrent, PrintedPasswordOpens
<1> QED
  BY <1>1, AuthInvariant, PTL

\* A client in use that nobody is re-authenticating has a token that works, unless
\* somebody else has used it up.
THEOREM ClientTokensWork == Spec => []ClientTokenWorks
<1>1. AuthInv => ClientTokenWorks
  <2> SUFFICES ASSUME Shaped, ClientsCurrent, NEW c \in Clients \ stranded,
                      client[c].live, ~Working(client[c].user)
               PROVE  client[c].auth.token \in valid
    BY DEF AuthInv, ClientTokenWorks
  <2>1. \A t \in Threads : thread[t].client # c
    BY DEF Shaped, ThreadsShaped, Working
  <2> QED
    BY <2>1 DEF ClientsCurrent
<1> QED
  BY <1>1, AuthInvariant, PTL

\* A client in use has an access token, is being re-authenticated, or has been told
\* that the last attempt failed.
THEOREM ClientsAreAuthorized == Spec => []ClientAuthorized
<1>1. AuthInv => ClientAuthorized
  BY DEF AuthInv, Authorized, ClientAuthorized
<1> QED
  BY <1>1, AuthInvariant, PTL
=============================================================================
