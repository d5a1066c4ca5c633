----------------------------- MODULE AuthStore -----------------------------
(***************************************************************************)
(* The sessions kept in auth.json: auth/auth.go, with AuthRefresh and the  *)
(* re-authentication of protonmail/.                                       *)
(*                                                                         *)
(* A refresh token works once: the server answers with the next one.  The  *)
(* file therefore has to follow every refresh, although it is read,        *)
(* changed and written as a whole by every client and command, with no     *)
(* lock, and written in two steps.                                         *)
(*                                                                         *)
(* A client is one protonmail.Client of one process, with its cachedAuth.  *)
(* A thread is a call that authenticates it: Manager.Auth, Verify or the   *)
(* ReAuth of a request; or a command that adds an account to the file.     *)
(***************************************************************************)
EXTENDS Integers

CONSTANTS
  Users,      \* accounts
  Clients,    \* clients of all processes
  Threads,    \* authentications at the same time
  MaxToken    \* bound on the refresh tokens the server issues

\* No account, no client.
Nobody == "nobody"
Nothing == "nothing"

ASSUME AuthAssumption == MaxToken \in Nat /\ Nobody \notin Users /\ Nothing \notin Clients

VARIABLES
  issued,     \* refresh tokens issued so far; they are 1 .. issued
  valid,      \* those the server still accepts
  file,       \* auth.json: user -> entry
  truncated,  \* is auth.json empty, since os.Create?
  client,     \* [Clients -> user, entry, whether it is in use, and whether it
              \*             has an access token]
  thread,     \* [Threads -> where the authentication is]
  printed,    \* history: user -> the bridge password last printed
  spoilt,     \* history: users whose saved token was lost or overtaken
  replaced,   \* history: users whose entry has another password than the printed one
  stranded,   \* history: clients whose token was used up by someone else
  shut,       \* history: clients whose last refresh or login failed
  interrupted \* history: did a save end before it wrote?

serverVars == <<issued, valid>>
fileVars == <<file, truncated, printed>>
history == <<spoilt, replaced, stranded, shut, interrupted>>
vars == <<serverVars, fileVars, client, thread, history>>

\* CachedAuth, encrypted with a bridge password: the refresh token, the
\* password, and whether the login password may be used again.
NoEntry == [token |-> 0, key |-> 0, password |-> FALSE]
NoClient == [user |-> Nobody, auth |-> NoEntry, live |-> FALSE, access |-> FALSE]

\* answer is the token the server sent; entry and read belong to the save.
\* rotated: a refresh used up the saved token; overtaken: the one to be saved has
\* been used up or revoked since; raced: another save came in between.
Idle == [pc |-> "idle", user |-> Nobody, client |-> Nothing, answer |-> 0,
         entry |-> NoEntry, read |-> [u \in {} |-> NoEntry],
         rotated |-> FALSE, overtaken |-> FALSE, raced |-> FALSE]

Working(u) == \E t \in Threads : thread[t].user = u

\* The token that a thread will save: the answer it got, the token of its client or
\* the one it has encoded.
ToSave(t) ==
  CASE thread[t].pc = "answered" -> thread[t].answer
    [] thread[t].pc = "unlocking" -> client[thread[t].client].auth.token
    [] OTHER -> thread[t].entry.token

\* The threads, once those that were to save the token know that it is gone.
Overtaken(token) == [s \in Threads |-> [thread[s] EXCEPT !.overtaken = @ \/ ToSave(s) = token]]

\* Mutant: the entry is saved under no name.
WithNobody(f, u, e) == [v \in DOMAIN f \cup {Nobody} |-> IF v = Nobody THEN e ELSE f[v]]

With(f, u, e) == [v \in DOMAIN f \cup {u} |-> IF v = u THEN e ELSE f[v]]

-----------------------------------------------------------------------------
(* The ends of a thread.                                                    *)

\* An error: the caller gets it.  The client of a login is not registered.
Fail(t) ==
  /\ thread' = [thread EXCEPT ![t] = Idle]
  /\ client' = [c \in Clients |->
       IF c = thread[t].client /\ ~client[c].live THEN NoClient ELSE client[c]]
  /\ spoilt' = IF thread[t].rotated THEN spoilt \cup {thread[t].user} ELSE spoilt
  /\ shut' = IF thread[t].pc # "refreshing" THEN shut
             ELSE shut \cup {c \in {thread[t].client} : client[c].live}
  /\ interrupted' = (interrupted \/ (truncated /\ thread[t].pc = "writing"))

\* The process ends, whatever it is doing.
Exit(c) ==
  LET gone == {t \in Threads : thread[t].client = c} IN
  /\ client[c] # NoClient
  /\ client' = [client EXCEPT ![c] = NoClient]
  /\ thread' = [t \in Threads |-> IF t \in gone THEN Idle ELSE thread[t]]
  /\ spoilt' = spoilt \cup {thread[t].user : t \in {s \in gone : thread[s].rotated}}
  /\ interrupted' = (interrupted \/ (truncated /\ \E t \in gone : thread[t].pc = "writing"))
  /\ stranded' = stranded \ {c} /\ shut' = shut \ {c}
  /\ UNCHANGED <<serverVars, fileVars, replaced>>

-----------------------------------------------------------------------------
(* The beginnings.                                                          *)

\* hydroxide auth: a new session, and a bridge password of its own, which the
\* model numbers alike.
AddAccount(t, u) ==
  /\ thread[t] = Idle
  /\ issued < MaxToken
  /\ issued' = issued + 1
  /\ valid' = valid \cup {issued'}
  /\ thread' = [thread EXCEPT ![t] = [Idle EXCEPT
       !.pc = "reading", !.user = u,
       !.entry = [token |-> issued', key |-> issued', password |-> TRUE]]]
  /\ UNCHANGED <<fileVars, client, history>>

\* auth-import of what auth-export wrote.  Verified, the session is refreshed
\* first; otherwise the token is the one of the entry, or used up since.
AuthImport(t, u, password) ==
  /\ thread[t] = Idle
  /\ issued < MaxToken
  /\ issued' = issued + 1
  /\ \E token \in {issued'} \cup {file[v].token : v \in {u} \cap DOMAIN file} :
       /\ valid' \in {valid} \cup (IF token = issued' THEN {valid \cup {issued'}} ELSE {})
       /\ thread' = [thread EXCEPT ![t] = [Idle EXCEPT
            !.pc = "reading", !.user = u, !.overtaken = token \notin valid',
            !.entry = [token |-> token, key |-> issued', password |-> password]]]
  /\ UNCHANGED <<fileVars, client, history>>

\* LoadCachedAuth with the password that opens the entry: Manager.Auth of a
\* user without a session, and Verify.
Load(t, c, u) ==
  /\ thread[t] = Idle /\ client[c] = NoClient
  /\ ~truncated /\ u \in DOMAIN file
  /\ client' = [client EXCEPT ![c] = [user |-> u, auth |-> file[u],
                                          live |-> FALSE, access |-> FALSE]]
  /\ thread' = [thread EXCEPT ![t] = [Idle EXCEPT !.pc = "refreshing", !.user = u, !.client = c]]
  /\ UNCHANGED <<serverVars, fileVars, history>>

\* The server ends a session, or another machine that has imported what
\* auth-export wrote uses it, at any moment.
Revoke(token) ==
  /\ token \in valid
  /\ valid' = valid \ {token}
  /\ thread' = Overtaken(token)
  /\ spoilt' = spoilt \cup {u \in DOMAIN file : file[u].token = token}
  /\ stranded' = stranded \cup {c \in Clients : client[c].auth.token = token}
  /\ UNCHANGED <<issued, fileVars, client, replaced, shut, interrupted>>

\* A request with an access token is answered 401: do clears the token of the
\* client and re-authenticates.  Requests that were sent together do so
\* together, or one after the other.
ReAuth(t, c) ==
  /\ thread[t] = Idle /\ client[c].live
  /\ client' = [client EXCEPT ![c].access = FALSE]
  /\ thread' = [thread EXCEPT ![t] = [Idle EXCEPT
       !.pc = "refreshing", !.user = client[c].user, !.client = c]]
  /\ UNCHANGED <<serverVars, fileVars, history>>

-----------------------------------------------------------------------------
(* authenticate.                                                            *)

\* The server uses up the token of AuthRefresh and sends the next, unless the
\* answer is lost.
Rotate(t) ==
  LET c == thread[t].client
      token == client[c].auth.token
  IN
  /\ thread[t].pc = "refreshing"
  /\ token \in valid /\ issued < MaxToken
  /\ issued' = issued + 1
  /\ valid' = (valid \ {token}) \cup {issued'}
  /\ LET others == Overtaken(token)
         sharing == {d \in Clients \ {c} : client[d].auth.token = token}
     IN \/ /\ thread' = [others EXCEPT ![t].pc = "answered", ![t].answer = issued',
                                       ![t].rotated = TRUE]
           /\ stranded' = stranded \cup sharing
           /\ UNCHANGED <<client, spoilt, shut>>
        \/ /\ thread' = [others EXCEPT ![t] = Idle]
           /\ client' = IF client[c].live THEN client ELSE [client EXCEPT ![c] = NoClient]
           /\ spoilt' = spoilt \cup {thread[t].user}
           /\ stranded' = stranded \cup sharing \cup (IF client[c].live THEN {c} ELSE {})
           /\ shut' = IF client[c].live THEN shut \cup {c} ELSE shut
  /\ UNCHANGED <<fileVars, replaced, interrupted>>

\* The token is refused: log in with the password, if that is allowed; or any
\* error on the way.
Refused(t) ==
  /\ thread[t].pc = "refreshing"
  /\ LET auth == client[thread[t].client].auth IN
       \/ /\ auth.token \notin valid /\ auth.password /\ issued < MaxToken
          /\ issued' = issued + 1
          /\ valid' = valid \cup {issued'}
          /\ thread' = [thread EXCEPT ![t].pc = "answered", ![t].answer = issued']
          /\ UNCHANGED <<client, spoilt, shut, interrupted>>
       \/ Fail(t) /\ UNCHANGED serverVars
  /\ UNCHANGED <<fileVars, replaced, stranded>>

\* Mutant: the closure keeps the answer to itself.
KeepLocally(t) ==
  /\ thread[t].pc = "answered"
  /\ thread' = [thread EXCEPT ![t].pc = "unlocking"]
  /\ UNCHANGED <<serverVars, fileVars, client, history>>

\* cachedAuth.Auth = *auth, and Unlock begins with the new access token.  What
\* others are going to save of the same client is the new token too.
Keep(t) ==
  LET c == thread[t].client IN
  /\ thread[t].pc = "answered"
  /\ client' = [client EXCEPT ![c].auth.token = thread[t].answer, ![c].access = TRUE]
  /\ thread' = [s \in Threads |->
       IF s = t THEN [thread[s] EXCEPT !.pc = "unlocking"]
       ELSE IF thread[s].client = c /\ thread[s].pc = "unlocking"
              THEN [thread[s] EXCEPT !.overtaken = thread[t].overtaken] ELSE thread[s]]
  /\ stranded' = IF thread[t].overtaken THEN stranded \cup {c} ELSE stranded \ {c}
  /\ shut' = shut \ {c}
  /\ UNCHANGED <<serverVars, fileVars, spoilt, replaced, interrupted>>

\* Mutant: what was refreshed is not saved.
UnlockUnsaved(t) ==
  /\ thread[t].pc = "unlocking"
  /\ client' = [client EXCEPT ![thread[t].client].live = TRUE]
  /\ thread' = [thread EXCEPT ![t] = Idle]
  /\ UNCHANGED <<serverVars, fileVars, history>>

\* Unlock asks the server for the keys and may fail.  Then EncryptAndSave
\* encodes what cachedAuth holds by now.
Unlock(t) ==
  /\ thread[t].pc = "unlocking"
  /\ \/ /\ thread' = [thread EXCEPT ![t].pc = "reading",
                                    ![t].entry = client[thread[t].client].auth]
        /\ UNCHANGED <<client, spoilt, shut, interrupted>>
     \/ Fail(t)
  /\ UNCHANGED <<serverVars, fileVars, replaced, stranded>>

-----------------------------------------------------------------------------
(* EncryptAndSave.                                                          *)

\* Mutants: the file is emptied before it is read; an entry replaces the file.
ReadEmptied(t) ==
  /\ thread[t].pc = "reading"
  /\ truncated' = TRUE
  /\ Fail(t)
  /\ UNCHANGED <<serverVars, file, printed, replaced, stranded>>

ReadNothing(t) ==
  /\ thread[t].pc = "reading"
  /\ thread' = [thread EXCEPT ![t].pc = "creating"]
  /\ UNCHANGED <<serverVars, fileVars, client, history>>

\* readCachedAuths: an empty file is an error.
Read(t) ==
  /\ thread[t].pc = "reading"
  /\ IF truncated
       THEN Fail(t)
       ELSE /\ thread' = [thread EXCEPT ![t].pc = "creating", ![t].read = file]
            /\ UNCHANGED <<client, spoilt, shut, interrupted>>
  /\ UNCHANGED <<serverVars, fileVars, replaced, stranded>>

\* os.Create empties the file.
Create(t) ==
  /\ thread[t].pc = "creating"
  /\ truncated' = TRUE
  /\ thread' = [thread EXCEPT ![t].pc = "writing"]
  /\ UNCHANGED <<serverVars, file, printed, client, history>>

\* Encode writes the whole file at once.  A login registers its client; a command
\* has its password yet to print.
Write(t) ==
  LET me == thread[t]
      lost == IF me.raced THEN {u \in DOMAIN file \ {me.user} :
                                  u \notin DOMAIN me.read \/ me.read[u] # file[u]}
                          ELSE {}
      command == me.client = Nothing
      unprinted == me.user \notin DOMAIN printed \/ printed[me.user] # me.entry.key
      Other(u, key) == u \notin DOMAIN file' \/ file'[u].key # key
  IN
  /\ me.pc = "writing"
  /\ file' = With(me.read, me.user, me.entry)
  /\ truncated' = FALSE
  /\ client' = [c \in Clients |-> IF c = me.client THEN [client[c] EXCEPT !.live = TRUE]
                                                  ELSE client[c]]
  /\ thread' = [s \in Threads |->
       IF s = t
         THEN IF command THEN [Idle EXCEPT !.pc = "printing", !.user = me.user,
                                           !.entry = [NoEntry EXCEPT !.key = me.entry.key]]
                         ELSE Idle
       ELSE IF \/ thread[s].pc \in {"creating", "writing"}
               \/ thread[s].pc = "printing" /\ Other(thread[s].user, thread[s].entry.key)
              THEN [thread[s] EXCEPT !.raced = TRUE] ELSE thread[s]]
  /\ spoilt' = (spoilt \ {me.user}) \cup lost \cup (IF me.overtaken THEN {me.user} ELSE {})
  /\ replaced' = (replaced \ {me.user}) \cup lost \cup (IF unprinted THEN {me.user} ELSE {})
  /\ interrupted' = FALSE
  /\ UNCHANGED <<serverVars, printed, stranded, shut>>

\* The command prints the password of the entry it has saved.
ShowPassword(t) ==
  LET u == thread[t].user IN
  /\ thread[t].pc = "printing"
  /\ printed' = With(printed, u, thread[t].entry.key)
  /\ replaced' = IF thread[t].raced THEN replaced \cup {u} ELSE replaced \ {u}
  /\ thread' = [thread EXCEPT ![t] = Idle]
  /\ UNCHANGED <<serverVars, file, truncated, client, spoilt, stranded, shut, interrupted>>

\* The disk is full, the process of a command ends, with its password saved but not
\* printed even, and the like.
SaveFails(t) ==
  /\ thread[t].pc \in {"reading", "creating", "writing", "printing"}
  /\ Fail(t)
  /\ UNCHANGED <<serverVars, fileVars, replaced, stranded>>

-----------------------------------------------------------------------------
Init ==
  /\ issued = 0 /\ valid = {}
  /\ file = [u \in {} |-> NoEntry] /\ truncated = FALSE
  /\ printed = [u \in {} |-> 0]
  /\ client = [c \in Clients |-> NoClient]
  /\ thread = [t \in Threads |-> Idle]
  /\ spoilt = {} /\ replaced = {} /\ stranded = {} /\ shut = {} /\ interrupted = FALSE

Authenticate(t) ==
  \/ \E u \in Users : AddAccount(t, u)
  \/ \E u \in Users, password \in BOOLEAN : AuthImport(t, u, password)
  \/ \E c \in Clients, u \in Users : Load(t, c, u)
  \/ \E c \in Clients : ReAuth(t, c)
  \/ Rotate(t) \/ Refused(t) \/ Keep(t) \/ Unlock(t)
  \/ Read(t) \/ Create(t) \/ Write(t) \/ ShowPassword(t) \/ SaveFails(t)

Next ==
  \/ \E t \in Threads : Authenticate(t)
  \/ \E c \in Clients : Exit(c)
  \/ \E token \in 1 .. MaxToken : Revoke(token)

Spec == Init /\ [][Next]_vars

-----------------------------------------------------------------------------
(* Properties.                                                             *)

Entries == [token : 0 .. MaxToken, key : 0 .. MaxToken, password : BOOLEAN]

\* Types; the server accepts only what it has issued, and so many sessions
\* belong to nobody that failed calls left behind.
TypeOK ==
  /\ issued \in 0 .. MaxToken /\ valid \subseteq 1 .. issued
  /\ DOMAIN file \subseteq Users /\ \A u \in DOMAIN file : file[u] \in Entries
  /\ truncated \in BOOLEAN
  /\ \A c \in Clients : client[c].auth \in Entries /\ client[c].user \in Users \cup {Nobody}
  /\ \A t \in Threads : thread[t].entry \in Entries /\ thread[t].answer \in 0 .. issued

\* Between saves, auth.json holds for every account a refresh token that the
\* server accepts.  The exceptions: an answer that was lost or never saved,
\* a save overtaken by a refresh of the same client, a save of another account
\* in between, and the import of an exported token that has been used up.
SavedTokenWorks ==
  \A u \in DOMAIN printed \ spoilt :
    ~truncated /\ ~Working(u) => u \in DOMAIN file /\ file[u].token \in valid

\* The bridge password printed last opens the account's entry.  The exceptions: a
\* client that logged in with an older one has saved, another save came in between,
\* and a command has saved its entry and not printed the password, be it that it
\* will or that its process ended before.
PrintedPasswordOpens ==
  \A u \in DOMAIN printed \ replaced :
    ~truncated => u \in DOMAIN file /\ file[u].key = printed[u]

\* A client that is in use holds a token that works, unless its answer was lost
\* or another client that had loaded the same token was faster.
ClientTokenWorks ==
  \A c \in Clients \ stranded :
    client[c].live /\ ~Working(client[c].user) => client[c].auth.token \in valid

\* A client in use that nobody is re-authenticating has an access token, unless
\* the last attempt failed: without one its requests are refused for good, since
\* do re-authenticates only a request that carried one.
ClientAuthorized ==
  \A c \in Clients \ shut :
    client[c].live /\ ~client[c].access => \E t \in Threads : thread[t].client = c

\* auth.json is empty only while someone writes it or after a save that ended
\* too early; from then on nobody can log in or add an account.
EmptyOnlyWhileSaving ==
  truncated => interrupted \/ \E t \in Threads : thread[t].pc = "writing"
=============================================================================
