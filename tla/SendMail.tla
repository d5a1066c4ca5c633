------------------------------ MODULE SendMail ------------------------------
(***************************************************************************)
(* A mail becomes a draft of the account, and is sent: SendMail and the    *)
(* SMTP session of smtp/smtp.go, createMessage of imap/message.go behind   *)
(* APPEND, and the requests of protonmail/ that both make.                 *)
(*                                                                         *)
(* The mail is read from the client's connection while it is uploaded, one *)
(* MIME part after the other.  Two goroutines and two pipes are between    *)
(* the connection and the request that uploads an attachment.  Every       *)
(* request may fail, or be done by a server whose answer is lost; there is *)
(* no cleanup, and a client that is told of an error sends the mail again. *)
(***************************************************************************)
EXTENDS Naturals, Sequences, FiniteSets

CONSTANTS
  Sessions,   \* SMTP connections
  Appends,    \* IMAP connections that APPEND to Drafts
  Mails,      \* mails their clients have, by name
  Addrs,      \* mail addresses
  Internal,   \* those with a public key
  Shape,      \* [Mails -> what the mail is: to, bcc, parts, sender]
  Nil,
  MaxDrafts   \* bound on the drafts created

\* to stands for To and Cc.  A part is an inline text of a type, an attachment,
\* an attachment without a name, or not a MIME part.
ASSUME SendMailAssumption ==
  /\ MaxDrafts \in Nat /\ Internal \subseteq Addrs /\ Sessions \cap Appends = {}
  /\ Shape \in [Mails -> [to : SUBSET Addrs, bcc : SUBSET Addrs, sender : BOOLEAN,
                          parts : Seq({"plain", "html", "file", "unnamed", "garbled"})]]

VARIABLES
  session,    \* [Sessions -> logged in, and allReceivers]
  envelope,   \* [Sessions -> the recipients the client gave since MAIL]
  job,        \* [Sessions \cup Appends -> the call of SendMail or createMessage]
  drafts,     \* the account's drafts, in order of creation
  upload,     \* <<draft, part>> -> the goroutines that upload it
  failed      \* uploads whose request has failed

clientVars == <<session, envelope>>
uploadVars == <<upload, failed>>
vars == <<clientVars, job, drafts, uploadVars>>

Callers == Sessions \cup Appends

\* part is the next part, body the part in the body buffer, keys those in
\* attachmentKeys, todo the recipients whose key is not looked up, plain and
\* encrypted the others; given is history, the envelope.
Idle == [at |-> "idle", mail |-> Nil, to |-> {}, given |-> {}, draft |-> 0, part |-> 0,
         body |-> 0, keys |-> {}, todo |-> {}, plain |-> {}, encrypted |-> {}]

NotSent == [x \in {} |-> 0]

Parts(p) == Shape[job[p].mail].parts

Go(p, changed) == job' = [job EXCEPT ![p] = changed]

At(p, step) == job[p].at = step

\* Data, or APPEND, returns; go-smtp then calls Reset.
Return(p) == Go(p, IF p \in Sessions THEN [Idle EXCEPT !.at = "returned"] ELSE Idle)

-----------------------------------------------------------------------------
(* The SMTP session.                                                        *)

\* authPlain: three requests, and the session is changed after the last.
Auth(s) ==
  /\ At(s, "idle") /\ ~session[s].in
  /\ session' = [session EXCEPT ![s].in = TRUE]
  /\ UNCHANGED <<envelope, job, drafts, uploadVars>>

Rcpt(s, a) ==
  /\ At(s, "idle") /\ session[s].in
  /\ session' = [session EXCEPT ![s].rcpt = @ \cup {a}]
  /\ envelope' = [envelope EXCEPT ![s] = @ \cup {a}]
  /\ UNCHANGED <<job, drafts, uploadVars>>

\* Mutant: the recipients are kept.
ResetKeeps(s) ==
  /\ job[s].at \in {"idle", "returned"}
  /\ envelope' = [envelope EXCEPT ![s] = {}]
  /\ Go(s, Idle)
  /\ UNCHANGED <<session, drafts, uploadVars>>

\* go-smtp: after DATA, and for RSET.
Reset(s) ==
  /\ job[s].at \in {"idle", "returned"}
  /\ session' = [session EXCEPT ![s].rcpt = {}]
  /\ envelope' = [envelope EXCEPT ![s] = {}]
  /\ Go(s, Idle)
  /\ UNCHANGED <<drafts, uploadVars>>

\* go-smtp: the connection ends.
Logout(s) ==
  /\ At(s, "idle")
  /\ session' = [session EXCEPT ![s] = [in |-> FALSE, rcpt |-> {}]]
  /\ envelope' = [envelope EXCEPT ![s] = {}]
  /\ UNCHANGED <<job, drafts, uploadVars>>

\* Mutant: the envelope counts only if no header names anyone.
RecipientsOfHeader(m, rcpt) ==
  LET mail == Shape[m] IN
  mail.to \cup (IF mail.to \cup mail.bcc = {} THEN rcpt ELSE mail.bcc)

\* bccFromRest: who is not named becomes Bcc, if the mail has no Bcc itself.
Recipients(m, rcpt) ==
  LET mail == Shape[m] IN mail.to \cup (IF mail.bcc = {} THEN rcpt \ mail.to ELSE mail.bcc)

\* The header is read.  No recipient, or no key for the sender: no draft.
Begin(p, m, to, given) ==
  Go(p, IF ~Shape[m].sender \/ to = {}
          THEN IF p \in Sessions THEN [Idle EXCEPT !.at = "returned"] ELSE Idle
          ELSE [Idle EXCEPT !.at = "drafting", !.mail = m, !.to = to, !.given = given])

\* A client sends a mail until it is accepted, one connection at a time.
Data(s, m) ==
  /\ At(s, "idle") /\ session[s].in /\ envelope[s] # {}
  /\ \A r \in Sessions : job[r].mail # m
  /\ \A d \in DOMAIN drafts : drafts[d].mail = m => drafts[d].answer # "ok"
  /\ Begin(s, m, Recipients(m, session[s].rcpt), envelope[s])
  /\ UNCHANGED <<clientVars, drafts, uploadVars>>

\* mailbox.CreateMessage of Drafts.
AppendMail(p, m) ==
  /\ At(p, "idle")
  /\ Begin(p, m, Shape[m].to \cup Shape[m].bcc, {})
  /\ UNCHANGED <<clientVars, drafts, uploadVars>>

-----------------------------------------------------------------------------
(* The draft and its parts.                                                 *)

Current(p) == <<job[p].draft, job[p].part>>

\* An error, of a request or of the connection.  The draft stays.
Fail(p) ==
  /\ job[p].at \in {"drafting", "parts", "uploading", "updating", "keys"}
  /\ Return(p)
  /\ failed' = IF At(p, "uploading") THEN failed \cup {Current(p)} ELSE failed
  /\ UNCHANGED <<clientVars, drafts, upload>>

\* CreateDraftMessage, with an empty body.
NewDraft(j) ==
  [mail |-> j.mail, body |-> 0, files |-> {}, sent |-> NotSent, given |-> j.given,
   answer |-> "none"]

\* The answer may be lost, here and below.
CreateDraft(p) ==
  /\ At(p, "drafting") /\ Len(drafts) < MaxDrafts
  /\ drafts' = Append(drafts, NewDraft(job[p]))
  /\ \/ Go(p, [job[p] EXCEPT !.at = "parts", !.draft = Len(drafts'), !.part = 1])
     \/ Return(p)
  /\ UNCHANGED <<clientVars, uploadVars>>

\* An attachment gets a key, and its goroutines begin; of the inline parts the
\* last HTML is the body, or else the first; what has no type or name is
\* skipped.
NextPart(p) ==
  LET i == job[p].part
      kind == Parts(p)[i]
      next == [job[p] EXCEPT !.part = i + 1]
  IN
  /\ At(p, "parts") /\ i <= Len(Parts(p)) /\ kind # "garbled"
  /\ IF kind = "file"
       THEN /\ Go(p, [job[p] EXCEPT !.at = "uploading"])
            /\ upload' = [u \in DOMAIN upload \cup {Current(p)} |->
                 IF u = Current(p) THEN [writer |-> "reads", copier |-> "copies"] ELSE upload[u]]
       ELSE /\ Go(p, IF kind = "html" \/ (kind = "plain" /\ job[p].body = 0)
                       THEN [next EXCEPT !.body = i] ELSE next)
            /\ UNCHANGED upload
  /\ UNCHANGED <<clientVars, drafts, failed>>

\* Mutant: a mail without a body is not refused.
EndOfPartsUnchecked(p) ==
  /\ At(p, "parts") /\ job[p].part = Len(Parts(p)) + 1
  /\ Go(p, [job[p] EXCEPT !.at = "updating"])
  /\ UNCHANGED <<clientVars, drafts, uploadVars>>

EndOfParts(p) ==
  /\ At(p, "parts") /\ job[p].part = Len(Parts(p)) + 1
  /\ job[p].body # 0
  /\ Go(p, [job[p] EXCEPT !.at = "updating"])
  /\ UNCHANGED <<clientVars, drafts, uploadVars>>

-----------------------------------------------------------------------------
(* The upload of an attachment.  The writer encrypts the part into a pipe,  *)
(* CreateAttachment copies the pipe into the form, another pipe, that is    *)
(* the body of the request.                                                 *)

Becomes(u, changed) ==
  /\ upload' = [upload EXCEPT ![u] = changed]
  /\ UNCHANGED <<clientVars, job, drafts, failed>>

\* The part ends, or the connection does; the pipe is closed.
WriterEnds(u) ==
  /\ upload[u].writer = "reads" /\ upload[u].copier = "copies"
  /\ \E end \in {"done", "broken"} : Becomes(u, [upload[u] EXCEPT !.writer = end])

CopierEnds(u) ==
  /\ upload[u].copier = "copies" /\ upload[u].writer \in {"done", "broken"}
  /\ Becomes(u, [upload[u] EXCEPT !.copier = upload[u].writer])

\* A request that has ended closes its body.  Nobody closes the writer's pipe:
\* it reads on until it writes, and never ends.
CopierStops(u) ==
  /\ u \in failed /\ upload[u].copier = "copies"
  /\ Becomes(u, [upload[u] EXCEPT !.copier = "stopped"])

WriterBlocks(u) ==
  /\ upload[u].copier = "stopped" /\ upload[u].writer = "reads"
  /\ Becomes(u, [upload[u] EXCEPT !.writer = "blocked"])

\* Mutant: an answer is taken before the form is complete.
UploadedEarly(p) ==
  /\ At(p, "uploading")
  /\ drafts' = [drafts EXCEPT ![job[p].draft].files = @ \cup {job[p].part}]
  /\ Go(p, [job[p] EXCEPT !.at = "parts", !.keys = @ \cup {job[p].part}, !.part = @ + 1])
  /\ UNCHANGED <<clientVars, uploadVars>>

\* The server has the whole form and adds the attachment.
Uploaded(p) ==
  /\ At(p, "uploading") /\ upload[Current(p)].copier = "done"
  /\ drafts' = [drafts EXCEPT ![job[p].draft].files = @ \cup {job[p].part}]
  /\ \/ /\ Go(p, [job[p] EXCEPT !.at = "parts", !.keys = @ \cup {job[p].part}, !.part = @ + 1])
        /\ UNCHANGED failed
     \/ Return(p) /\ failed' = failed \cup {Current(p)}
  /\ UNCHANGED <<clientVars, upload>>

-----------------------------------------------------------------------------
(* The body, and the mail is sent.                                          *)

\* UpdateDraftMessage.  createMessage ends here.
UpdateDraft(p) ==
  /\ At(p, "updating")
  /\ \E answer \in IF p \in Appends THEN {"kept", "none"} ELSE {"none"} :
       drafts' = [drafts EXCEPT ![job[p].draft].body = job[p].body,
                                ![job[p].draft].answer = answer]
  /\ \/ p \in Sessions /\ Go(p, [job[p] EXCEPT !.at = "keys", !.todo = job[p].to])
     \/ Return(p)
  /\ UNCHANGED <<clientVars, uploadVars>>

\* GetPublicKeys of a recipient.
LookUp(p, a) ==
  /\ At(p, "keys") /\ a \in job[p].todo
  /\ Go(p, IF a \in Internal
             THEN [job[p] EXCEPT !.todo = @ \ {a}, !.encrypted = @ \cup {a}]
             ELSE [job[p] EXCEPT !.todo = @ \ {a}, !.plain = @ \cup {a}])
  /\ UNCHANGED <<clientVars, drafts, uploadVars>>

\* A package set for each kind of recipients, if there are any: the body and
\* the keys of the attachments, in clear or encrypted for each.
Packages(j) ==
  [a \in j.plain \cup j.encrypted |->
     [clear |-> a \in j.plain, body |-> j.body, keys |-> j.keys]]

\* Mutant: an answer is taken for an error.
SendForgets(p) ==
  /\ At(p, "keys") /\ job[p].todo = {}
  /\ drafts' = [drafts EXCEPT ![job[p].draft].sent = Packages(job[p])]
  /\ Return(p)
  /\ UNCHANGED <<clientVars, uploadVars>>

\* SendMessage; answer is what the client is told.
Send(p) ==
  /\ At(p, "keys") /\ job[p].todo = {}
  /\ \E answer \in {"ok", "lost"} :
       drafts' = [drafts EXCEPT ![job[p].draft].sent = Packages(job[p]),
                                ![job[p].draft].answer = answer]
  /\ Return(p)
  /\ UNCHANGED <<clientVars, uploadVars>>

-----------------------------------------------------------------------------
Init ==
  /\ session = [s \in Sessions |-> [in |-> FALSE, rcpt |-> {}]]
  /\ envelope = [s \in Sessions |-> {}]
  /\ job = [p \in Callers |-> Idle]
  /\ drafts = << >> /\ upload = [u \in {} |-> 0] /\ failed = {}

Client ==
  \/ \E s \in Sessions :
       \/ Auth(s) \/ Reset(s) \/ Logout(s)
       \/ \E a \in Addrs : Rcpt(s, a)
       \/ \E m \in Mails : Data(s, m)
  \/ \E p \in Appends, m \in Mails : AppendMail(p, m)

\* All of createMessage, and the first half of SendMail.
Compose(p) ==
  CreateDraft(p) \/ NextPart(p) \/ EndOfParts(p) \/ Uploaded(p) \/ UpdateDraft(p) \/ Fail(p)

Dispatch(p) == (\E a \in Addrs : LookUp(p, a)) \/ Send(p)

Goroutine(u) == WriterEnds(u) \/ CopierEnds(u) \/ CopierStops(u) \/ WriterBlocks(u)

Next ==
  \/ Client
  \/ \E p \in Callers : Compose(p) \/ Dispatch(p)
  \/ \E u \in DOMAIN upload : Goroutine(u)

Spec == Init /\ [][Next]_vars

-----------------------------------------------------------------------------
(* Properties.                                                             *)

\* Types; a draft gets a body only from a mail that has one, and the keys kept
\* are those of attachments that the draft has.
TypeOK ==
  /\ \A p \in Callers : LET j == job[p] IN
       /\ j.at # "idle" /\ j.mail # Nil => j.mail \in Mails /\ j.to # {} /\ j.to \subseteq Addrs
       /\ j.at \in {"updating", "keys"} => j.body \in DOMAIN Parts(p)
       /\ j.keys # {} => j.keys \subseteq drafts[j.draft].files
  /\ \A s \in Sessions : session[s].rcpt \subseteq Addrs
  /\ \A u \in DOMAIN upload : /\ upload[u].writer \in {"reads", "done", "broken", "blocked"}
                              /\ upload[u].copier \in {"copies", "done", "broken", "stopped"}

\* A mail whose APPEND is answered OK is whole in its draft, and one whose DATA
\* is answered OK went out whole: to everybody its header names and, unless it
\* has a Bcc field, everybody the client gave; with the last HTML part as its
\* body, or else the first text; with the key of each attachment that has a
\* name; and encrypted exactly for those who have a key.
AcceptedIsWhole ==
  \A d \in {e \in DOMAIN drafts : drafts[e].answer \in {"kept", "ok"}} :
    LET mail == Shape[drafts[d].mail]
        sent == drafts[d].sent
        files == {i \in DOMAIN mail.parts : mail.parts[i] = "file"}
        Texts(kinds) == {i \in DOMAIN mail.parts : mail.parts[i] \in kinds}
        body == IF Texts({"html"}) # {}
                  THEN CHOOSE i \in Texts({"html"}) : \A k \in Texts({"html"}) : k <= i
                  ELSE CHOOSE i \in Texts({"plain"}) : \A k \in Texts({"plain"}) : i <= k
    IN
    /\ drafts[d].body = body /\ drafts[d].files = files
    /\ drafts[d].answer = "ok" =>
         /\ mail.to \cup mail.bcc \subseteq DOMAIN sent
         /\ mail.bcc = {} => drafts[d].given \subseteq DOMAIN sent
         /\ \A a \in DOMAIN sent :
              sent[a] = [clear |-> a \notin Internal, body |-> body, keys |-> files]

\* A mail goes to nobody whom neither its header nor the transaction it is
\* in names, say to a recipient of the mail before on the same connection.
OnlyNamed ==
  \A d \in DOMAIN drafts :
    LET mail == Shape[drafts[d].mail] IN
    DOMAIN drafts[d].sent \subseteq mail.to \cup mail.bcc \cup drafts[d].given

\* A client that sends a mail until DATA is answered OK sends it twice only if
\* an answer to SendMessage was lost.
TwiceOnlyIfUnanswered ==
  \A m \in Mails :
    Cardinality({d \in DOMAIN drafts : drafts[d].mail = m /\ drafts[d].sent # NotSent
                                       /\ drafts[d].answer # "lost"}) <= 1

\* The connection is read by the upload of the current part, or by the loop and
\* then by go-smtp, not by both; unless an upload has failed, whose writer may
\* read on, in the next mail even.
OneReader ==
  \A u \in DOMAIN upload :
    upload[u].writer = "reads" =>
      u \in failed \/ \E p \in Callers : At(p, "uploading") /\ Current(p) = u
=============================================================================
