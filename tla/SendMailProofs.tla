--------------------------- MODULE SendMailProofs ---------------------------
(***************************************************************************)
(* Proofs about SendMail, for any connections, mails and addresses: what   *)
(* is accepted went out whole and once, to those it names, and nobody else *)
(* reads the connection meanwhile.                                         *)
(***************************************************************************)
EXTENDS SendMail, FiniteSetTheorems, SequenceTheorems, TLAPS

\* A call that has its draft, and one that works at all.
Composing == {"parts", "uploading", "updating", "keys"}

Active == Composing \cup {"drafting"}

JobType ==
  [at : Active \cup {"idle", "returned"}, mail : Mails \cup {Nil}, to : SUBSET Addrs,
   given : SUBSET Addrs, draft : Nat, part : Nat, body : Nat, keys : SUBSET Nat,
   todo : SUBSET Addrs, plain : SUBSET Addrs, encrypted : SUBSET Addrs]

Package == [clear : BOOLEAN, body : Nat, keys : SUBSET Nat]

DraftType ==
  [mail : Mails, body : Nat, files : SUBSET Nat, sent : UNION {[S -> Package] : S \in SUBSET Addrs},
   given : SUBSET Addrs, answer : {"none", "kept", "ok", "lost"}]

Typed == job \in [Callers -> JobType] /\ drafts \in Seq(DraftType)

\* The session has the recipients of its transaction, and of no other.
SessionsOK ==
  /\ session \in [Sessions -> [in : BOOLEAN, rcpt : SUBSET Addrs]]
  /\ envelope \in [Sessions -> SUBSET Addrs]
  /\ \A s \in Sessions : session[s].rcpt = envelope[s]

\* Everybody the header names, with the envelope if there is no Bcc, and nobody else.
Named(j) ==
  LET mail == Shape[j.mail] IN
  /\ mail.to \cup mail.bcc \subseteq j.to
  /\ mail.bcc = {} => j.given \subseteq j.to
  /\ j.to \subseteq mail.to \cup mail.bcc \cup j.given

FilesOf(ps, n) == {k \in 1 .. n : ps[k] = "file"}

\* b is the body of the first n parts ps.
BodyOf(ps, n, b) ==
  \/ /\ b \in 1 .. n /\ ps[b] = "html"
     /\ \A k \in 1 .. n : ps[k] = "html" => k <= b
  \/ /\ \A k \in 1 .. n : ps[k] # "html"
     /\ b \in 1 .. n /\ ps[b] = "plain"
     /\ \A k \in 1 .. n : ps[k] = "plain" => b <= k
  \/ b = 0 /\ \A k \in 1 .. n : ps[k] \notin {"html", "plain"}

\* What the call j has read of the mail.
Composed(j) ==
  LET ps == Shape[j.mail].parts IN
  /\ j.part \in 1 .. Len(ps) + 1
  /\ BodyOf(ps, j.part - 1, j.body) /\ j.keys = FilesOf(ps, j.part - 1)
  /\ j.at = "uploading" => j.part <= Len(ps) /\ ps[j.part] = "file"
  /\ j.at \in {"updating", "keys"} => j.part = Len(ps) + 1 /\ j.body # 0

\* Whom the call j has found a key for.
Sorted(j) ==
  /\ IF j.at = "keys" THEN j.todo \cup j.plain \cup j.encrypted = j.to
                      ELSE j.plain = {} /\ j.encrypted = {}
  /\ j.plain \cap Internal = {} /\ j.encrypted \subseteq Internal

\* The draft e is as the call j has left it.
DraftOf(j, e) ==
  /\ e.mail = j.mail /\ e.given = j.given /\ e.files = j.keys
  /\ e.answer = "none" /\ e.sent = NotSent
  /\ j.at = "keys" => e.body = j.body

JobOK(j, ds) ==
  /\ j.at \notin Active => j.mail = Nil /\ j.keys = {}
  /\ j.at \in Active => j.mail \in Mails /\ j.to # {} /\ Named(j) /\ Sorted(j)
  /\ j.at = "drafting" => j.keys = {} /\ j.body = 0
  /\ j.at \in Composing => j.draft \in DOMAIN ds /\ DraftOf(j, ds[j.draft]) /\ Composed(j)

\* Each call has a draft of its own, and only those of sessions send it.
JobsOK ==
  /\ \A p \in Callers : JobOK(job[p], drafts) /\ (At(p, "keys") => p \in Sessions)
  /\ \A p, q \in Callers :
       job[p].at \in Composing /\ job[q].at \in Composing /\ job[p].draft = job[q].draft => p = q

\* The draft e is complete if its caller has been told so.
Whole(e) ==
  LET mail == Shape[e.mail]
      n == Len(mail.parts)
  IN
  /\ BodyOf(mail.parts, n, e.body) /\ e.body # 0 /\ e.files = FilesOf(mail.parts, n)
  /\ e.answer = "ok" =>
       /\ mail.to \cup mail.bcc \subseteq DOMAIN e.sent
       /\ mail.bcc = {} => e.given \subseteq DOMAIN e.sent
       /\ \A a \in DOMAIN e.sent :
            e.sent[a] = [clear |-> a \notin Internal, body |-> e.body, keys |-> e.files]

DraftOK(e) ==
  /\ e.sent # NotSent => e.answer \in {"ok", "lost"}
  /\ DOMAIN e.sent \subseteq Shape[e.mail].to \cup Shape[e.mail].bcc \cup e.given
  /\ e.answer \in {"kept", "ok"} => Whole(e)

DraftsOK == \A d \in DOMAIN drafts : DraftOK(drafts[d])

\* A mail is under way in one session at most, and in none after it was accepted.
SentOnce ==
  /\ \A r, s \in Sessions :
       job[r].at \in Active /\ job[s].at \in Active /\ job[r].mail = job[s].mail => r = s
  /\ \A d \in DOMAIN drafts : drafts[d].answer = "ok" =>
       /\ \A s \in Sessions : job[s].at \in Active => job[s].mail # drafts[d].mail
       /\ \A e \in DOMAIN drafts :
            drafts[e].answer = "ok" /\ drafts[e].mail = drafts[d].mail => e = d

\* The copier ends after the writer, unless its request has failed.
UploadsOK ==
  \A u \in DOMAIN upload :
    /\ upload[u] \in [writer : {"reads", "done", "broken", "blocked"},
                      copier : {"copies", "done", "broken", "stopped"}]
    /\ upload[u].copier = "done" => upload[u].writer # "reads"

SendInv ==
  /\ Typed /\ SessionsOK /\ JobsOK /\ DraftsOK /\ SentOnce /\ UploadsOK /\ OneReader

-----------------------------------------------------------------------------
(* The parts of a mail.                                                     *)

\* What a mail is made of.
LEMMA MailShape ==
  ASSUME NEW m \in Mails
  PROVE  /\ Shape[m].to \in SUBSET Addrs /\ Shape[m].bcc \in SUBSET Addrs
         /\ Shape[m].parts \in Seq({"plain", "html", "file", "unnamed", "garbled"})
         /\ Len(Shape[m].parts) \in Nat
BY SendMailAssumption

\* One part more, and the body is still the last HTML or else the first text.
LEMMA NextBody ==
  ASSUME NEW ps, NEW i \in Nat \ {0}, NEW b \in Nat, BodyOf(ps, i - 1, b)
  PROVE  BodyOf(ps, i, IF ps[i] = "html" \/ (ps[i] = "plain" /\ b = 0) THEN i ELSE b)
<1>1. \A k \in 1 .. i : k = i \/ k \in 1 .. i - 1
  OBVIOUS
<1>2. 1 .. i - 1 \subseteq 1 .. i /\ i \in 1 .. i /\ \A k \in 1 .. i : k <= i
  OBVIOUS
<1>3. CASE ps[i] = "html"
  BY <1>2, <1>3 DEF BodyOf
<1>4. CASE ps[i] = "plain" /\ b = 0
  BY <1>1, <1>2, <1>4 DEF BodyOf
<1>5. CASE ps[i] = "plain" /\ b # 0
  BY <1>1, <1>2, <1>5 DEF BodyOf
<1>6. CASE ps[i] \notin {"html", "plain"}
  BY <1>1, <1>2, <1>6 DEF BodyOf
<1> QED
  BY <1>3, <1>4, <1>5, <1>6

\* The attachments among the first i parts.
LEMMA NextFiles ==
  ASSUME NEW ps, NEW i \in Nat \ {0}
  PROVE  FilesOf(ps, i) = IF ps[i] = "file" THEN FilesOf(ps, i - 1) \cup {i}
                                          ELSE FilesOf(ps, i - 1)
<1>1. 1 .. i = (1 .. i - 1) \cup {i}
  OBVIOUS
<1> QED
  BY <1>1 DEF FilesOf

\* There is only one body.
LEMMA BodyUnique ==
  ASSUME NEW ps, NEW n \in Nat, NEW b \in Nat, BodyOf(ps, n, b), b # 0,
         NEW c \in Nat, BodyOf(ps, n, c), c # 0
  PROVE  b = c
BY DEF BodyOf

-----------------------------------------------------------------------------
(* A step of one call.                                                      *)

\* The call p goes on as j, and changes no draft but its own.
LEMMA CallStep ==
  ASSUME Typed, JobsOK, NEW p \in Callers, NEW j \in JobType, Go(p, j),
         drafts' \in Seq(DraftType), Len(drafts) <= Len(drafts'),
         \A d \in DOMAIN drafts :
           drafts'[d] = drafts[d] \/ (job[p].at \in Composing /\ d = job[p].draft),
         JobOK(j, drafts'), j.at = "keys" => p \in Sessions,
         j.at \in Composing =>
           \/ job[p].at \in Composing /\ j.draft = job[p].draft
           \/ j.draft \notin DOMAIN drafts
  PROVE  Typed' /\ JobsOK'
<1>1. /\ job' \in [Callers -> JobType] /\ job'[p] = j
      /\ \A q \in Callers \ {p} : job'[q] = job[q]
  BY DEF Typed, Go
<1>2. DOMAIN drafts \subseteq DOMAIN drafts'
  <2>1. /\ drafts \in Seq(DraftType) /\ Len(drafts) \in Nat /\ Len(drafts') \in Nat
        /\ DOMAIN drafts = 1 .. Len(drafts) /\ DOMAIN drafts' = 1 .. Len(drafts')
    BY DEF Typed
  <2> QED
    BY <2>1
<1>3. ASSUME NEW q \in Callers PROVE JobOK(job'[q], drafts') /\ (At(q, "keys")' => q \in Sessions)
  <2>1. CASE q = p
    BY <1>1, <2>1 DEF At
  <2>2. CASE q # p
    <3>1. job'[q] = job[q] /\ JobOK(job[q], drafts) /\ (At(q, "keys") => q \in Sessions)
      BY <1>1, <2>2 DEF JobsOK
    <3>2. job[q].at \in Composing => drafts'[job[q].draft] = drafts[job[q].draft]
      BY <2>2, <3>1 DEF JobsOK, JobOK
    <3> QED
      BY <1>2, <3>1, <3>2 DEF JobOK, At
  <2> QED
    BY <2>1, <2>2
<1>4. ASSUME NEW q \in Callers, NEW r \in Callers, job'[q].at \in Composing,
             job'[r].at \in Composing, job'[q].draft = job'[r].draft
      PROVE  q = r
  BY <1>1, <1>4 DEF JobsOK, JobOK
<1> QED
  BY <1>1, <1>3, <1>4 DEF Typed, JobsOK

\* A step that neither begins a mail nor has one accepted.
LEMMA OnceKept ==
  ASSUME Typed, SentOnce, NEW p \in Callers, NEW j, Go(p, j),
         p \in Sessions /\ j.at \in Active => job[p].at \in Active /\ j.mail = job[p].mail,
         \A d \in DOMAIN drafts' : drafts'[d].answer = "ok" =>
           d \in DOMAIN drafts /\ drafts[d].answer = "ok" /\ drafts'[d].mail = drafts[d].mail
  PROVE  SentOnce'
<1>1. job'[p] = j /\ \A q \in Callers \ {p} : job'[q] = job[q]
  BY DEF Typed, Go
<1> QED
  BY <1>1 DEF SentOnce, Callers

\* A step after which the loop reads the connection, and no upload of its own does.
LEMMA ReaderKept ==
  ASSUME Typed, OneReader, NEW p \in Callers, NEW j, Go(p, j), UNCHANGED upload,
         failed \subseteq failed', NEW u, u = Current(p),
         At(p, "uploading") => u \in failed' \/ upload[u].writer # "reads"
  PROVE  OneReader'
<1>1. \A q \in Callers \ {p} : job'[q] = job[q]
  BY DEF Typed, Go
<1>2. ASSUME NEW v \in DOMAIN upload, upload[v].writer = "reads", v \notin failed'
      PROVE  \E q \in Callers : job'[q].at = "uploading" /\ v = <<job'[q].draft, job'[q].part>>
  <2>1. PICK q \in Callers : At(q, "uploading") /\ v = Current(q)
    BY <1>2 DEF OneReader
  <2>2. q # p
    BY <1>2, <2>1
  <2> QED
    BY <1>1, <2>1, <2>2 DEF At, Current
<1> QED
  BY <1>2 DEF OneReader, At, Current

\* How a call ends.
Returned(p) == IF p \in Sessions THEN [Idle EXCEPT !.at = "returned"] ELSE Idle

\* A call that has returned knows no draft.
LEMMA ReturnedOK ==
  ASSUME NEW p
  PROVE  /\ Returned(p) \in JobType /\ Returned(p).at \notin Active
         /\ Returned(p).at \in {"idle", "returned"} /\ \A ds : JobOK(Returned(p), ds)
         /\ (Return(p) <=> Go(p, Returned(p)))
         /\ Idle \in JobType /\ Idle.at = "idle" /\ \A ds : JobOK(Idle, ds)
<1>1. Idle \in JobType
  BY DEF Idle, JobType, Active
<1>2. [Idle EXCEPT !.at = "returned"] \in JobType
  BY <1>1 DEF JobType
<1>3. /\ Idle.at = "idle" /\ Idle.mail = Nil /\ Idle.keys = {}
      /\ [Idle EXCEPT !.at = "returned"].at = "returned"
      /\ [Idle EXCEPT !.at = "returned"].mail = Nil /\ [Idle EXCEPT !.at = "returned"].keys = {}
  BY DEF Idle
<1>4. /\ Returned(p).mail = Nil /\ Returned(p).keys = {}
      /\ Returned(p).at \in {"idle", "returned"} /\ Returned(p) \in JobType
  BY <1>1, <1>2, <1>3 DEF Returned
<1>5. "idle" \notin Active /\ "returned" \notin Active /\ Composing \subseteq Active
      /\ "drafting" \in Active
  BY DEF Active, Composing
<1>6. \A ds : JobOK(Returned(p), ds) /\ JobOK(Idle, ds)
  BY <1>3, <1>4, <1>5 DEF JobOK
<1>7. Return(p) <=> Go(p, Returned(p))
  BY DEF Return, Returned
<1> QED
  BY <1>1, <1>3, <1>4, <1>5, <1>6, <1>7

\* A step of the call p that leaves the drafts and the uploads as they are, with
\* the mail it had.
LEMMA QuietStep ==
  ASSUME SendInv, NEW p \in Callers, NEW j \in JobType, Go(p, j),
         UNCHANGED <<drafts, upload>>, failed \subseteq failed',
         JobOK(j, drafts), j.at = "keys" => p \in Sessions,
         j.at \in Composing => job[p].at \in Composing /\ j.draft = job[p].draft,
         p \in Sessions /\ j.at \in Active => job[p].at \in Active /\ j.mail = job[p].mail,
         At(p, "uploading") => Current(p) \in failed'
  PROVE  Typed' /\ JobsOK' /\ DraftsOK' /\ SentOnce' /\ UploadsOK' /\ OneReader'
<1>1. Typed' /\ JobsOK'
  BY CallStep DEF SendInv, Typed
<1>2. SentOnce'
  BY OnceKept DEF SendInv
<1>3. OneReader'
  <2>1. Typed /\ OneReader /\ upload' = upload
    BY DEF SendInv
  <2> QED
    BY <2>1, ReaderKept
<1> QED
  BY <1>1, <1>2, <1>3 DEF SendInv, DraftsOK, UploadsOK

\* A step of the call p that changes its draft, or creates it, with the mail it had.
LEMMA DraftStep ==
  ASSUME SendInv, NEW p \in Callers, NEW j \in JobType, Go(p, j), UNCHANGED upload,
         drafts' \in Seq(DraftType), Len(drafts) <= Len(drafts'),
         \A d \in DOMAIN drafts :
           drafts'[d] = drafts[d] \/ (job[p].at \in Composing /\ d = job[p].draft),
         \A d \in DOMAIN drafts' :
           \/ d \in DOMAIN drafts /\ drafts'[d] = drafts[d]
           \/ DraftOK(drafts'[d]) /\ drafts'[d].answer # "ok",
         JobOK(j, drafts'), j.at = "keys" => p \in Sessions,
         j.at \in Composing =>
           \/ job[p].at \in Composing /\ j.draft = job[p].draft
           \/ j.draft \notin DOMAIN drafts,
         p \in Sessions /\ j.at \in Active => job[p].at \in Active /\ j.mail = job[p].mail,
         failed \subseteq failed', NEW u, u = Current(p),
         At(p, "uploading") => u \in failed' \/ upload[u].writer # "reads"
  PROVE  Typed' /\ JobsOK' /\ DraftsOK' /\ SentOnce' /\ UploadsOK' /\ OneReader'
<1>1. Typed' /\ JobsOK'
  BY CallStep DEF SendInv
<1>2. SentOnce'
  BY OnceKept DEF SendInv
<1>3. OneReader'
  BY ReaderKept DEF SendInv
<1> QED
  BY <1>1, <1>2, <1>3 DEF SendInv, DraftsOK, UploadsOK

-----------------------------------------------------------------------------
(* The client.                                                              *)

\* A client logs in.
LEMMA AuthInv ==
  ASSUME SendInv, NEW s \in Sessions, Auth(s)
  PROVE  SendInv'
<1>1. session' = [session EXCEPT ![s] = [session[s] EXCEPT !.in = TRUE]]
  BY DEF Auth
<1>2. SessionsOK'
  BY <1>1 DEF Auth, SendInv, SessionsOK
<1> QED
  BY <1>2 DEF Auth, uploadVars, SendInv, Typed, JobsOK, DraftsOK, SentOnce, UploadsOK, OneReader,
              At, Current

\* A client names a recipient of its transaction.
LEMMA RcptInv ==
  ASSUME SendInv, NEW s \in Sessions, NEW a \in Addrs, Rcpt(s, a)
  PROVE  SendInv'
<1>1. /\ session' = [session EXCEPT ![s] = [session[s] EXCEPT !.rcpt = session[s].rcpt \cup {a}]]
      /\ envelope' = [envelope EXCEPT ![s] = envelope[s] \cup {a}]
  BY DEF Rcpt
<1>2. SessionsOK'
  BY <1>1 DEF SendInv, SessionsOK
<1> QED
  BY <1>2 DEF Rcpt, uploadVars, SendInv, Typed, JobsOK, DraftsOK, SentOnce, UploadsOK, OneReader,
              At, Current

\* A client logs out.
LEMMA LogoutInv ==
  ASSUME SendInv, NEW s \in Sessions, Logout(s)
  PROVE  SendInv'
<1>1. SessionsOK'
  BY DEF Logout, SendInv, SessionsOK
<1> QED
  BY <1>1 DEF Logout, uploadVars, SendInv, Typed, JobsOK, DraftsOK, SentOnce, UploadsOK,
              OneReader, At, Current

\* A client resets its transaction.
LEMMA ResetInv ==
  ASSUME SendInv, NEW s \in Sessions, Reset(s)
  PROVE  SendInv'
<1>1. /\ session' = [session EXCEPT ![s] = [session[s] EXCEPT !.rcpt = {}]]
      /\ envelope' = [envelope EXCEPT ![s] = {}]
  BY DEF Reset
<1>2. SessionsOK'
  BY <1>1 DEF SendInv, SessionsOK
<1>3. /\ Go(s, Idle) /\ UNCHANGED <<drafts, upload, failed>>
      /\ ~At(s, "uploading") /\ s \in Callers
  BY DEF Reset, uploadVars, At, Callers
<1>4. "idle" \notin Composing /\ "idle" \notin Active
  BY DEF Composing, Active
<1>5. Typed' /\ JobsOK' /\ DraftsOK' /\ SentOnce' /\ UploadsOK' /\ OneReader'
  BY <1>3, <1>4, ReturnedOK, QuietStep
<1> QED
  BY <1>2, <1>5 DEF SendInv

\* The call p begins with the mail m, or is refused.
LEMMA BeginStep ==
  ASSUME SendInv, NEW p \in Callers, NEW m \in Mails, NEW to \in SUBSET Addrs,
         NEW given \in SUBSET Addrs, At(p, "idle"), Begin(p, m, to, given),
         UNCHANGED <<drafts, upload, failed>>,
         Named([Idle EXCEPT !.at = "drafting", !.mail = m, !.to = to, !.given = given]),
         p \in Sessions => /\ \A r \in Sessions : job[r].mail # m
                          /\ \A d \in DOMAIN drafts :
                               drafts[d].mail = m => drafts[d].answer # "ok"
  PROVE  Typed' /\ JobsOK' /\ DraftsOK' /\ SentOnce' /\ UploadsOK' /\ OneReader'
<1> DEFINE j == [Idle EXCEPT !.at = "drafting", !.mail = m, !.to = to, !.given = given]
<1>1. ~At(p, "uploading")
  BY DEF At
<1>2. "drafting" \notin Composing /\ Composing \subseteq Active /\ "drafting" \in Active
  BY DEF Composing, Active
<1>3. CASE ~Shape[m].sender \/ to = {}
  <2>1. Go(p, Returned(p))
    BY <1>3 DEF Begin, Returned
  <2> QED
    BY <1>1, <1>2, <2>1, ReturnedOK, QuietStep
<1>4. CASE Shape[m].sender /\ to # {}
  <2>1. Go(p, j)
    BY <1>4 DEF Begin
  <2>2. /\ j.at = "drafting" /\ j.mail = m /\ j.to = to /\ j.given = given /\ j.keys = {}
        /\ j.body = 0 /\ j.plain = {} /\ j.encrypted = {}
    BY DEF Idle
  <2>3. j \in JobType
    BY ReturnedOK, <1>2 DEF JobType
  <2> HIDE DEF j
  <2>4. JobOK(j, drafts)
    BY <1>2, <1>4, <2>2 DEF JobOK, Sorted, j
  <2>5. Typed' /\ JobsOK'
    BY <1>2, <2>1, <2>2, <2>3, <2>4, CallStep DEF SendInv, Typed
  <2>6. SentOnce'
    <3>1. job'[p] = j /\ \A q \in Callers \ {p} : job'[q] = job[q]
      BY <2>1 DEF Go, SendInv, Typed
    <3> QED
      BY <2>2, <3>1 DEF SendInv, SentOnce, Callers
  <2>7. OneReader'
    BY <1>1, <2>1, ReaderKept DEF SendInv
  <2> QED
    BY <2>5, <2>6, <2>7 DEF SendInv, DraftsOK, UploadsOK
<1> QED
  BY <1>3, <1>4

\* A client sends a mail through SMTP, for the first time or again.
LEMMA DataInv ==
  ASSUME SendInv, NEW s \in Sessions, NEW m \in Mails, Data(s, m)
  PROVE  SendInv'
<1> DEFINE to == Recipients(m, session[s].rcpt)
           j == [Idle EXCEPT !.at = "drafting", !.mail = m, !.to = to, !.given = envelope[s]]
<1>1. /\ At(s, "idle") /\ Begin(s, m, to, envelope[s]) /\ UNCHANGED <<drafts, upload, failed>>
      /\ \A r \in Sessions : job[r].mail # m
      /\ \A d \in DOMAIN drafts : drafts[d].mail = m => drafts[d].answer # "ok"
      /\ UNCHANGED <<session, envelope>> /\ s \in Callers
  BY DEF Data, uploadVars, clientVars, Callers
<1>2. envelope[s] \in SUBSET Addrs /\ session[s].rcpt = envelope[s]
  BY DEF SendInv, SessionsOK
<1>3. to \in SUBSET Addrs
  BY <1>2, MailShape DEF Recipients
<1>4. Named(j)
  <2>1. j.mail = m /\ j.to = to /\ j.given = envelope[s]
    BY DEF Idle
  <2> HIDE DEF j
  <2> QED
    BY <1>2, <2>1 DEF Named, Recipients
<1> HIDE DEF to
<1>5. Typed' /\ JobsOK' /\ DraftsOK' /\ SentOnce' /\ UploadsOK' /\ OneReader'
  BY <1>1, <1>2, <1>3, <1>4, BeginStep
<1>6. SessionsOK'
  BY <1>1 DEF SendInv, SessionsOK
<1> QED
  BY <1>5, <1>6 DEF SendInv

\* A client appends a mail to the drafts.
LEMMA AppendMailInv ==
  ASSUME SendInv, NEW p \in Appends, NEW m \in Mails, AppendMail(p, m)
  PROVE  SendInv'
<1> DEFINE to == Shape[m].to \cup Shape[m].bcc
           j == [Idle EXCEPT !.at = "drafting", !.mail = m, !.to = to, !.given = {}]
<1>1. /\ At(p, "idle") /\ Begin(p, m, to, {}) /\ UNCHANGED <<drafts, upload, failed>>
      /\ UNCHANGED <<session, envelope>> /\ p \in Callers /\ p \notin Sessions
  BY SendMailAssumption DEF AppendMail, uploadVars, clientVars, Callers
<1>2. to \in SUBSET Addrs
  BY MailShape
<1>3. Named(j)
  <2>1. j.mail = m /\ j.to = to /\ j.given = {}
    BY DEF Idle
  <2> HIDE DEF j
  <2> QED
    BY <2>1 DEF Named
<1> HIDE DEF to
<1>4. Typed' /\ JobsOK' /\ DraftsOK' /\ SentOnce' /\ UploadsOK' /\ OneReader'
  <2>1. {} \in SUBSET Addrs
    OBVIOUS
  <2> QED
    BY <1>1, <1>2, <1>3, <2>1, BeginStep
<1>5. SessionsOK'
  BY <1>1 DEF SendInv, SessionsOK
<1> QED
  BY <1>4, <1>5 DEF SendInv

-----------------------------------------------------------------------------
(* The call.                                                                *)

\* Where a call has a draft under way, and where it still composes it.
LEMMA Steps ==
  /\ "drafting" \in Active /\ "drafting" \notin Composing /\ Composing \subseteq Active
  /\ "parts" \in Composing /\ "uploading" \in Composing /\ "updating" \in Composing
  /\ "keys" \in Composing
BY DEF Active, Composing

\* What is known of a call that has its draft.
LEMMA OfCall ==
  ASSUME SendInv, NEW p \in Callers, job[p].at \in Composing
  PROVE  /\ job[p] \in JobType /\ JobOK(job[p], drafts)
         /\ drafts \in Seq(DraftType) /\ job[p].draft \in 1 .. Len(drafts)
         /\ drafts[job[p].draft] \in DraftType
         /\ job[p].mail \in Mails /\ job[p].to # {} /\ Named(job[p]) /\ Sorted(job[p])
         /\ DraftOf(job[p], drafts[job[p].draft]) /\ Composed(job[p])
<1>1. /\ job[p] \in JobType /\ JobOK(job[p], drafts) /\ drafts \in Seq(DraftType)
      /\ DOMAIN drafts = 1 .. Len(drafts)
  BY DEF SendInv, Typed, JobsOK
<1>2. /\ job[p].draft \in 1 .. Len(drafts) /\ job[p].mail \in Mails /\ job[p].to # {}
      /\ Named(job[p]) /\ Sorted(job[p])
      /\ DraftOf(job[p], drafts[job[p].draft]) /\ Composed(job[p])
  BY <1>1, Steps DEF JobOK
<1>3. drafts[job[p].draft] \in DraftType
  BY <1>1, <1>2, ElementOfSeq
<1> QED
  BY <1>1, <1>2, <1>3

\* A request or a part fails, and the call with it.
LEMMA FailInv ==
  ASSUME SendInv, NEW p \in Callers, Fail(p)
  PROVE  SendInv'
<1>1. /\ Go(p, Returned(p)) /\ UNCHANGED <<session, envelope, drafts, upload>>
      /\ failed \subseteq failed' /\ (At(p, "uploading") => Current(p) \in failed')
  BY ReturnedOK DEF Fail, clientVars
<1>2. Typed' /\ JobsOK' /\ DraftsOK' /\ SentOnce' /\ UploadsOK' /\ OneReader'
  BY <1>1, Steps, ReturnedOK, QuietStep
<1> QED
  BY <1>1, <1>2 DEF SendInv, SessionsOK

\* The draft is created, and known to this call only.
LEMMA CreateDraftInv ==
  ASSUME SendInv, NEW p \in Callers, CreateDraft(p)
  PROVE  SendInv'
<1> DEFINE e == NewDraft(job[p])
           n == Len(drafts) + 1
           j == [job[p] EXCEPT !.at = "parts", !.draft = Len(drafts'), !.part = 1]
<1>1. /\ job[p].at = "drafting" /\ drafts' = Append(drafts, e)
      /\ Go(p, j) \/ Go(p, Returned(p))
      /\ UNCHANGED <<session, envelope, upload, failed>>
  BY ReturnedOK DEF CreateDraft, At, clientVars, uploadVars
<1>2. /\ job[p] \in JobType /\ JobOK(job[p], drafts)
      /\ drafts \in Seq(DraftType) /\ Len(drafts) \in Nat /\ DOMAIN drafts = 1 .. Len(drafts)
  BY DEF SendInv, Typed, JobsOK
<1>3. /\ job[p].mail \in Mails /\ job[p].to # {} /\ Named(job[p]) /\ Sorted(job[p])
      /\ job[p].keys = {} /\ job[p].body = 0 /\ job[p].given \in SUBSET Addrs
  BY <1>1, <1>2, Steps DEF JobOK, JobType
<1>4. /\ e.mail = job[p].mail /\ e.body = 0 /\ e.files = {} /\ e.sent = NotSent
      /\ e.given = job[p].given /\ e.answer = "none"
  BY DEF NewDraft
<1>5. e \in DraftType
  <2>1. NotSent \in [{} -> Package] /\ {} \in SUBSET Addrs
    BY DEF NotSent
  <2>2. NotSent \in UNION {[S -> Package] : S \in SUBSET Addrs}
    BY <2>1
  <2> QED
    BY <1>3, <2>2 DEF NewDraft, DraftType
<1>6. DraftOK(e)
  BY <1>4 DEF DraftOK, NotSent
<1> HIDE DEF e
<1>7. /\ drafts' \in Seq(DraftType) /\ Len(drafts') = n /\ drafts'[n] = e
      /\ \A d \in 1 .. Len(drafts) : drafts'[d] = drafts[d]
      /\ DOMAIN drafts' = 1 .. n
  BY <1>1, <1>2, <1>5
<1>8. /\ \A d \in DOMAIN drafts : drafts'[d] = drafts[d]
      /\ \A d \in DOMAIN drafts' :
           \/ d \in DOMAIN drafts /\ drafts'[d] = drafts[d]
           \/ DraftOK(drafts'[d]) /\ drafts'[d].answer # "ok"
  <2>1. \A d \in DOMAIN drafts' : d \in DOMAIN drafts \/ d = n
    BY <1>2, <1>7
  <2> QED
    BY <1>2, <1>4, <1>6, <1>7, <2>1
<1>9. Len(drafts) <= Len(drafts') /\ ~At(p, "uploading") /\ failed \subseteq failed'
  BY <1>1, <1>2, <1>7 DEF At
<1>10. CASE Go(p, Returned(p))
  <2>1. Typed' /\ JobsOK' /\ DraftsOK' /\ SentOnce' /\ UploadsOK' /\ OneReader'
    BY <1>1, <1>7, <1>8, <1>9, <1>10, Steps, ReturnedOK, DraftStep
  <2> QED
    BY <1>1, <2>1 DEF SendInv, SessionsOK
<1>11. CASE Go(p, j)
  <2>1. j \in JobType
    <3>1. "parts" \in Active /\ Len(drafts') \in Nat /\ 1 \in Nat
      BY <1>2, <1>7, Steps
    <3> QED
      BY <1>2, <3>1 DEF JobType
  <2>2. /\ j.at = "parts" /\ j.draft = n /\ j.part = 1 /\ j.mail = job[p].mail
        /\ j.to = job[p].to /\ j.given = job[p].given /\ j.keys = {} /\ j.body = 0
        /\ j.plain = job[p].plain /\ j.encrypted = job[p].encrypted
    BY <1>2, <1>3, <1>7 DEF JobType
  <2> HIDE DEF j
  <2>3. Named(j) /\ Sorted(j)
    BY <1>1, <1>3, <2>2 DEF Named, Sorted
  <2>4. DraftOf(j, e)
    BY <1>4, <2>2 DEF DraftOf
  <2>5. Composed(j)
    <3>1. Len(Shape[j.mail].parts) \in Nat
      BY <1>3, <2>2, MailShape
    <3>2. 1 .. 0 = {} /\ 1 - 1 = 0
      OBVIOUS
    <3>3. BodyOf(Shape[j.mail].parts, 0, 0) /\ FilesOf(Shape[j.mail].parts, 0) = {}
      BY <3>2 DEF BodyOf, FilesOf
    <3> QED
      BY <2>2, <3>1, <3>2, <3>3 DEF Composed
  <2>6. JobOK(j, drafts')
    BY <1>2, <1>3, <1>7, <2>2, <2>3, <2>4, <2>5, Steps DEF JobOK
  <2>7. j.draft \notin DOMAIN drafts
    BY <1>2, <2>2
  <2>8. Typed' /\ JobsOK' /\ DraftsOK' /\ SentOnce' /\ UploadsOK' /\ OneReader'
    BY <1>1, <1>7, <1>8, <1>9, <1>11, <2>1, <2>2, <2>6, <2>7, Steps, DraftStep
  <2> QED
    BY <1>1, <2>8 DEF SendInv, SessionsOK
<1> QED
  BY <1>1, <1>10, <1>11

\* The next part is a body, an attachment to upload or one to be passed over.
LEMMA NextPartInv ==
  ASSUME SendInv, NEW p \in Callers, NextPart(p)
  PROVE  SendInv'
<1> DEFINE i == job[p].part
           ps == Parts(p)
           next == [job[p] EXCEPT !.part = i + 1]
           read == IF ps[i] = "html" \/ (ps[i] = "plain" /\ job[p].body = 0)
                     THEN [next EXCEPT !.body = i] ELSE next
           up == [job[p] EXCEPT !.at = "uploading"]
<1>1. /\ job[p].at = "parts" /\ i <= Len(ps) /\ ps[i] # "garbled"
      /\ UNCHANGED <<session, envelope, drafts, failed>>
      /\ ~At(p, "uploading") /\ failed \subseteq failed'
  BY DEF NextPart, At, clientVars
<1>2. /\ job[p] \in JobType /\ drafts \in Seq(DraftType) /\ job[p].draft \in DOMAIN drafts
      /\ job[p].mail \in Mails /\ job[p].to # {} /\ Named(job[p]) /\ Sorted(job[p])
      /\ DraftOf(job[p], drafts[job[p].draft]) /\ Composed(job[p])
  BY <1>1, Steps, OfCall DEF SendInv, JobsOK, JobOK
<1>3. /\ ps = Shape[job[p].mail].parts /\ Len(ps) \in Nat /\ i \in Nat \ {0} /\ i + 1 \in Nat
      /\ BodyOf(ps, i - 1, job[p].body) /\ job[p].keys = FilesOf(ps, i - 1)
      /\ job[p].body \in Nat
  BY <1>2, MailShape DEF Parts, Composed, JobType
<1>4. CASE ps[i] = "file"
  <2>1. /\ Go(p, up)
        /\ upload' = [u \in DOMAIN upload \cup {Current(p)} |->
             IF u = Current(p) THEN [writer |-> "reads", copier |-> "copies"] ELSE upload[u]]
    BY <1>4 DEF NextPart
  <2>2. up \in JobType
    BY <1>2, Steps DEF JobType
  <2>3. /\ up.at = "uploading" /\ up.draft = job[p].draft /\ up.part = i
        /\ up.mail = job[p].mail /\ up.to = job[p].to /\ up.given = job[p].given
        /\ up.keys = job[p].keys /\ up.body = job[p].body
        /\ up.plain = job[p].plain /\ up.encrypted = job[p].encrypted
    BY <1>2 DEF JobType
  <2> HIDE DEF up
  <2>4. Named(up) /\ Sorted(up) /\ DraftOf(up, drafts[up.draft])
    BY <1>1, <1>2, <2>3 DEF Named, Sorted, DraftOf
  <2>5. Composed(up)
    BY <1>1, <1>2, <1>3, <1>4, <2>3 DEF Composed
  <2>6. JobOK(up, drafts)
    BY <1>2, <2>3, <2>4, <2>5, Steps DEF JobOK
  <2>7. Typed' /\ JobsOK'
    BY <1>1, <1>2, <2>1, <2>2, <2>3, <2>6, Steps, CallStep DEF SendInv, Typed
  <2>8. SentOnce'
    BY <1>1, <2>1, <2>3, Steps, OnceKept DEF SendInv
  <2>9. UploadsOK'
    BY <2>1 DEF SendInv, UploadsOK
  <2>10. OneReader'
    <3>1. job'[p] = up /\ \A q \in Callers \ {p} : job'[q] = job[q]
      BY <2>1 DEF Go, SendInv, Typed
    <3>2. Current(p)' = Current(p) /\ At(p, "uploading")'
      BY <2>3, <3>1 DEF Current, At
    <3>3. ASSUME NEW u \in DOMAIN upload', upload'[u].writer = "reads", u \notin failed',
                 u # Current(p)
          PROVE  \E q \in Callers : At(q, "uploading")' /\ Current(q)' = u
      <4>1. PICK q \in Callers : At(q, "uploading") /\ Current(q) = u
        BY <1>1, <2>1, <3>3 DEF SendInv, OneReader
      <4> QED
        BY <1>1, <3>1, <4>1 DEF At, Current
    <3> QED
      BY <3>2, <3>3 DEF OneReader
  <2> QED
    BY <1>1, <2>7, <2>8, <2>9, <2>10 DEF SendInv, SessionsOK, DraftsOK
<1>5. CASE ps[i] # "file"
  <2>1. Go(p, read) /\ UNCHANGED upload
    BY <1>5 DEF NextPart
  <2> DEFINE b == IF ps[i] = "html" \/ (ps[i] = "plain" /\ job[p].body = 0)
                    THEN i ELSE job[p].body
  <2>2. read \in JobType
    BY <1>2, <1>3 DEF JobType
  <2>3. /\ read.at = "parts" /\ read.draft = job[p].draft /\ read.part = i + 1
        /\ read.mail = job[p].mail /\ read.to = job[p].to /\ read.given = job[p].given
        /\ read.keys = job[p].keys /\ read.body = b
        /\ read.plain = job[p].plain /\ read.encrypted = job[p].encrypted
    BY <1>1, <1>2 DEF JobType
  <2> HIDE DEF read
  <2>4. Named(read) /\ Sorted(read) /\ DraftOf(read, drafts[read.draft])
    BY <1>1, <1>2, <2>3 DEF Named, Sorted, DraftOf
  <2>5. Composed(read)
    <3>1. BodyOf(ps, i, b) /\ read.keys = FilesOf(ps, i)
      BY <1>3, <1>5, <2>3, NextBody, NextFiles
    <3>2. i + 1 \in 1 .. Len(ps) + 1 /\ i + 1 - 1 = i
      BY <1>1, <1>3
    <3> HIDE DEF b, ps
    <3> QED
      BY <1>3, <2>3, <3>1, <3>2 DEF Composed
  <2>6. JobOK(read, drafts)
    BY <1>2, <2>3, <2>4, <2>5, Steps DEF JobOK
  <2>7. Typed' /\ JobsOK' /\ DraftsOK' /\ SentOnce' /\ UploadsOK' /\ OneReader'
    BY <1>1, <2>1, <2>2, <2>3, <2>6, Steps, QuietStep
  <2> QED
    BY <1>1, <2>7 DEF SendInv, SessionsOK
<1> QED
  BY <1>4, <1>5

\* The mail has been read to its end.
LEMMA EndOfPartsInv ==
  ASSUME SendInv, NEW p \in Callers, EndOfParts(p)
  PROVE  SendInv'
<1> DEFINE j == [job[p] EXCEPT !.at = "updating"]
<1>1. /\ job[p].at = "parts" /\ job[p].part = Len(Parts(p)) + 1 /\ job[p].body # 0 /\ Go(p, j)
      /\ UNCHANGED <<session, envelope, drafts, upload, failed>>
      /\ ~At(p, "uploading") /\ failed \subseteq failed'
  BY DEF EndOfParts, At, clientVars, uploadVars
<1>2. /\ job[p] \in JobType /\ job[p].draft \in DOMAIN drafts
      /\ job[p].mail \in Mails /\ job[p].to # {} /\ Named(job[p]) /\ Sorted(job[p])
      /\ DraftOf(job[p], drafts[job[p].draft]) /\ Composed(job[p])
  BY <1>1, Steps, OfCall DEF SendInv, JobsOK, JobOK
<1>3. j \in JobType
  BY <1>2, Steps DEF JobType
<1>4. /\ j.at = "updating" /\ j.draft = job[p].draft /\ j.part = job[p].part
      /\ j.mail = job[p].mail /\ j.to = job[p].to /\ j.given = job[p].given
      /\ j.keys = job[p].keys /\ j.body = job[p].body
      /\ j.plain = job[p].plain /\ j.encrypted = job[p].encrypted
  BY <1>2 DEF JobType
<1> HIDE DEF j
<1>5. Named(j) /\ Sorted(j) /\ DraftOf(j, drafts[j.draft]) /\ Composed(j)
  BY <1>1, <1>2, <1>4 DEF Named, Sorted, DraftOf, Composed, Parts
<1>6. JobOK(j, drafts)
  BY <1>2, <1>4, <1>5, Steps DEF JobOK
<1>7. Typed' /\ JobsOK' /\ DraftsOK' /\ SentOnce' /\ UploadsOK' /\ OneReader'
  BY <1>1, <1>3, <1>4, <1>6, Steps, QuietStep
<1> QED
  BY <1>1, <1>7 DEF SendInv, SessionsOK

\* The keys of a recipient are asked for.
LEMMA LookUpInv ==
  ASSUME SendInv, NEW p \in Callers, NEW a \in Addrs, LookUp(p, a)
  PROVE  SendInv'
<1> DEFINE k == job[p]
           j == IF a \in Internal
                  THEN [k EXCEPT !.todo = k.todo \ {a}, !.encrypted = k.encrypted \cup {a}]
                  ELSE [k EXCEPT !.todo = k.todo \ {a}, !.plain = k.plain \cup {a}]
<1>1. /\ k.at = "keys" /\ a \in k.todo /\ Go(p, j)
      /\ UNCHANGED <<session, envelope, drafts, upload, failed>>
      /\ ~At(p, "uploading") /\ failed \subseteq failed'
  BY DEF LookUp, At, clientVars, uploadVars
<1>2. /\ k \in JobType /\ k.draft \in DOMAIN drafts
      /\ k.mail \in Mails /\ k.to # {} /\ Named(k) /\ Sorted(k)
      /\ DraftOf(k, drafts[k.draft]) /\ Composed(k) /\ p \in Sessions
  BY <1>1, Steps, OfCall DEF SendInv, JobsOK, JobOK, At
<1>3. j \in JobType
  BY <1>2 DEF JobType
<1>4. /\ j.at = "keys" /\ j.draft = k.draft /\ j.part = k.part
      /\ j.mail = k.mail /\ j.to = k.to /\ j.given = k.given
      /\ j.keys = k.keys /\ j.body = k.body /\ j.todo = k.todo \ {a}
      /\ j.plain = IF a \in Internal THEN k.plain ELSE k.plain \cup {a}
      /\ j.encrypted = IF a \in Internal THEN k.encrypted \cup {a} ELSE k.encrypted
  BY <1>1, <1>2 DEF JobType
<1> HIDE DEF j
<1>5. Sorted(j)
  BY <1>1, <1>2, <1>4 DEF Sorted
<1>6. Named(j) /\ DraftOf(j, drafts[j.draft]) /\ Composed(j)
  BY <1>1, <1>2, <1>4 DEF Named, DraftOf, Composed
<1>7. JobOK(j, drafts)
  BY <1>2, <1>4, <1>5, <1>6, Steps DEF JobOK
<1>8. Typed' /\ JobsOK' /\ DraftsOK' /\ SentOnce' /\ UploadsOK' /\ OneReader'
  BY <1>1, <1>2, <1>3, <1>4, <1>7, Steps, QuietStep
<1> QED
  BY <1>1, <1>8 DEF SendInv, SessionsOK

\* The draft of the call p becomes e.
LEMMA DraftChanged ==
  ASSUME SendInv, NEW p \in Callers, job[p].at \in Composing, NEW e \in DraftType,
         drafts' = [drafts EXCEPT ![job[p].draft] = e]
  PROVE  /\ drafts' \in Seq(DraftType) /\ Len(drafts) <= Len(drafts')
         /\ DOMAIN drafts' = DOMAIN drafts /\ job[p].draft \in DOMAIN drafts
         /\ drafts'[job[p].draft] = e
         /\ \A d \in DOMAIN drafts : d # job[p].draft => drafts'[d] = drafts[d]
<1>1. /\ drafts \in Seq(DraftType) /\ job[p].draft \in 1 .. Len(drafts)
      /\ DOMAIN drafts = 1 .. Len(drafts)
  BY OfCall
<1>2. /\ drafts' \in Seq(DraftType) /\ Len(drafts') = Len(drafts)
  BY <1>1, ExceptSeq
<1> QED
  BY <1>1, <1>2

\* An attachment has been uploaded, and its key is kept.
LEMMA UploadedInv ==
  ASSUME SendInv, NEW p \in Callers, Uploaded(p)
  PROVE  SendInv'
<1> DEFINE k == job[p]
           old == drafts[k.draft]
           e == [old EXCEPT !.files = old.files \cup {k.part}]
           j == [k EXCEPT !.at = "parts", !.keys = k.keys \cup {k.part}, !.part = k.part + 1]
           u == Current(p)
<1>1. /\ k.at = "uploading" /\ upload[u].copier = "done"
      /\ drafts' = [drafts EXCEPT ![k.draft] = e]
      /\ (Go(p, j) /\ failed' = failed) \/ (Go(p, Returned(p)) /\ failed' = failed \cup {u})
      /\ UNCHANGED <<session, envelope, upload>>
  BY ReturnedOK DEF Uploaded, At, clientVars
<1>2. /\ k \in JobType /\ old \in DraftType /\ k.mail \in Mails /\ k.to # {}
      /\ Named(k) /\ Sorted(k) /\ DraftOf(k, old) /\ Composed(k)
  BY <1>1, Steps, OfCall
<1>3. k.part \in Nat \ {0} /\ k.part + 1 \in Nat /\ k.keys \in SUBSET Nat
  BY <1>2, MailShape DEF Composed, JobType
<1>4. /\ e \in DraftType
      /\ e.mail = old.mail /\ e.given = old.given /\ e.answer = old.answer /\ e.sent = old.sent
      /\ e.files = old.files \cup {k.part} /\ e.body = old.body
  BY <1>2, <1>3 DEF DraftType
<1>5. DraftOK(e) /\ e.answer # "ok"
  BY <1>2, <1>4 DEF DraftOf, DraftOK, NotSent
<1> HIDE DEF e
<1>6. /\ drafts' \in Seq(DraftType) /\ Len(drafts) <= Len(drafts')
      /\ DOMAIN drafts' = DOMAIN drafts /\ k.draft \in DOMAIN drafts /\ drafts'[k.draft] = e
      /\ \A d \in DOMAIN drafts : d # k.draft => drafts'[d] = drafts[d]
  BY <1>1, <1>4, Steps, DraftChanged
<1>7. upload[u].writer # "reads" \/ u \notin DOMAIN upload
  BY <1>1 DEF SendInv, UploadsOK
<1>8. CASE Go(p, Returned(p)) /\ failed' = failed \cup {u}
  <2>1. failed \subseteq failed' /\ u \in failed'
    BY <1>8
  <2>2. Typed' /\ JobsOK' /\ DraftsOK' /\ SentOnce' /\ UploadsOK' /\ OneReader'
    BY <1>1, <1>5, <1>6, <1>8, <2>1, Steps, ReturnedOK, DraftStep
  <2> QED
    BY <1>1, <2>2 DEF SendInv, SessionsOK
<1>9. CASE Go(p, j) /\ failed' = failed
  <2>1. j \in JobType
    <3>1. k.keys \cup {k.part} \in SUBSET Nat /\ "parts" \in Active
      BY <1>3, Steps
    <3> QED
      BY <1>2, <1>3, <3>1 DEF JobType
  <2>2. /\ j.at = "parts" /\ j.draft = k.draft /\ j.part = k.part + 1
        /\ j.mail = k.mail /\ j.to = k.to /\ j.given = k.given
        /\ j.keys = k.keys \cup {k.part} /\ j.body = k.body
        /\ j.plain = k.plain /\ j.encrypted = k.encrypted
    BY <1>2 DEF JobType
  <2> HIDE DEF j
  <2>3. Named(j) /\ Sorted(j) /\ DraftOf(j, e)
    BY <1>1, <1>2, <1>4, <2>2 DEF Named, Sorted, DraftOf
  <2>4. Composed(j)
    <3> DEFINE ps == Shape[k.mail].parts
    <3>1. /\ Len(ps) \in Nat /\ k.body \in Nat /\ k.part <= Len(ps) /\ ps[k.part] = "file"
          /\ BodyOf(ps, k.part - 1, k.body) /\ k.keys = FilesOf(ps, k.part - 1)
      BY <1>1, <1>2, MailShape DEF Composed, JobType
    <3>2. BodyOf(ps, k.part, k.body) /\ FilesOf(ps, k.part) = j.keys
      <4>1. k.part \in Nat \ {0} /\ ps[k.part] # "html" /\ ps[k.part] # "plain"
        BY <1>3, <3>1
      <4>2. BodyOf(ps, k.part, k.body)
        BY <3>1, <4>1, NextBody
      <4>3. FilesOf(ps, k.part) = FilesOf(ps, k.part - 1) \cup {k.part}
        BY <3>1, <4>1, NextFiles
      <4> QED
        BY <2>2, <3>1, <4>2, <4>3
    <3>3. j.part \in 1 .. Len(ps) + 1 /\ j.part - 1 = k.part
      BY <1>3, <2>2, <3>1
    <3> HIDE DEF ps
    <3>4. ps = Shape[j.mail].parts
      BY <2>2 DEF ps
    <3> QED
      BY <2>2, <3>2, <3>3, <3>4 DEF Composed
  <2>5. JobOK(j, drafts')
    BY <1>2, <1>6, <2>2, <2>3, <2>4, Steps DEF JobOK
  <2>6. OneReader'
    <3>1. job'[p] = j /\ \A q \in Callers \ {p} : job'[q] = job[q]
      BY <1>9 DEF Go, SendInv, Typed
    <3>2. ASSUME NEW v \in DOMAIN upload, upload[v].writer = "reads", v \notin failed
          PROVE  \E q \in Callers : At(q, "uploading")' /\ Current(q)' = v
      <4>1. PICK q \in Callers : At(q, "uploading") /\ Current(q) = v
        BY <3>2 DEF SendInv, OneReader
      <4>2. q # p
        BY <1>7, <3>2, <4>1
      <4> QED
        BY <3>1, <4>1, <4>2 DEF At, Current
    <3> QED
      BY <1>1, <1>9, <3>2 DEF OneReader
  <2>7. Typed' /\ JobsOK'
    BY <1>1, <1>6, <1>9, <2>1, <2>2, <2>5, Steps, CallStep DEF SendInv
  <2>8. SentOnce'
    BY <1>1, <1>5, <1>6, <1>9, <2>2, Steps, OnceKept DEF SendInv
  <2> QED
    BY <1>1, <1>5, <1>6, <2>6, <2>7, <2>8 DEF SendInv, SessionsOK, DraftsOK, UploadsOK
<1> QED
  BY <1>1, <1>8, <1>9

\* The draft gets its body.
LEMMA UpdateDraftInv ==
  ASSUME SendInv, NEW p \in Callers, UpdateDraft(p)
  PROVE  SendInv'
<1> DEFINE k == job[p]
           old == drafts[k.draft]
           j == [k EXCEPT !.at = "keys", !.todo = k.to]
<1>1. PICK answer \in {"kept", "none"} :
        drafts' = [drafts EXCEPT ![k.draft] = [old EXCEPT !.body = k.body, !.answer = answer]]
        /\ (p \in Sessions => answer = "none")
  <2>1. PICK answer \in IF p \in Appends THEN {"kept", "none"} ELSE {"none"} :
          drafts' = [drafts EXCEPT ![k.draft].body = k.body, ![k.draft].answer = answer]
    BY DEF UpdateDraft
  <2>2. answer \in {"kept", "none"} /\ (p \in Sessions => answer = "none")
    BY SendMailAssumption
  <2>3. drafts' = [drafts EXCEPT ![k.draft] = [old EXCEPT !.body = k.body, !.answer = answer]]
    BY <2>1
  <2> QED
    BY <2>2, <2>3
<1> DEFINE e == [old EXCEPT !.body = k.body, !.answer = answer]
<1>2. /\ k.at = "updating"
      /\ (p \in Sessions /\ Go(p, j)) \/ Go(p, Returned(p))
      /\ UNCHANGED <<session, envelope, upload, failed>>
      /\ ~At(p, "uploading") /\ failed \subseteq failed'
  BY ReturnedOK DEF UpdateDraft, At, clientVars, uploadVars
<1>3. /\ k \in JobType /\ old \in DraftType /\ k.mail \in Mails /\ k.to # {}
      /\ Named(k) /\ Sorted(k) /\ DraftOf(k, old) /\ Composed(k)
  BY <1>2, Steps, OfCall
<1>4. /\ e \in DraftType
      /\ e.mail = old.mail /\ e.given = old.given /\ e.answer = answer /\ e.sent = old.sent
      /\ e.files = old.files /\ e.body = k.body
  BY <1>3 DEF DraftType, JobType
<1>5. DraftOK(e) /\ e.answer # "ok"
  <2>1. Whole(e)
    <3> DEFINE ps == Shape[k.mail].parts
    <3>1. /\ Len(ps) \in Nat /\ k.part = Len(ps) + 1 /\ k.body # 0
          /\ BodyOf(ps, k.part - 1, k.body) /\ k.keys = FilesOf(ps, k.part - 1)
      BY <1>2, <1>3, MailShape DEF Composed
    <3>2. k.part - 1 = Len(ps)
      BY <3>1
    <3>3. e.mail = k.mail /\ e.files = k.keys
      BY <1>3, <1>4 DEF DraftOf
    <3> QED
      BY <1>4, <3>1, <3>2, <3>3 DEF Whole
  <2> QED
    BY <1>3, <1>4, <2>1 DEF DraftOf, DraftOK, NotSent
<1>6. drafts' = [drafts EXCEPT ![k.draft] = e]
  BY <1>1
<1> HIDE DEF e
<1>7. /\ drafts' \in Seq(DraftType) /\ Len(drafts) <= Len(drafts')
      /\ DOMAIN drafts' = DOMAIN drafts /\ k.draft \in DOMAIN drafts /\ drafts'[k.draft] = e
      /\ \A d \in DOMAIN drafts : d # k.draft => drafts'[d] = drafts[d]
  BY <1>2, <1>4, <1>6, Steps, DraftChanged
<1>8. CASE Go(p, Returned(p))
  <2>1. Typed' /\ JobsOK' /\ DraftsOK' /\ SentOnce' /\ UploadsOK' /\ OneReader'
    BY <1>2, <1>5, <1>7, <1>8, Steps, ReturnedOK, DraftStep
  <2> QED
    BY <1>2, <2>1 DEF SendInv, SessionsOK
<1>9. CASE p \in Sessions /\ Go(p, j)
  <2>1. j \in JobType
    BY <1>3, Steps DEF JobType
  <2>2. /\ j.at = "keys" /\ j.draft = k.draft /\ j.part = k.part
        /\ j.mail = k.mail /\ j.to = k.to /\ j.given = k.given /\ j.todo = k.to
        /\ j.keys = k.keys /\ j.body = k.body
        /\ j.plain = k.plain /\ j.encrypted = k.encrypted
    BY <1>3 DEF JobType
  <2> HIDE DEF j
  <2>3. Named(j) /\ Sorted(j)
    BY <1>2, <1>3, <2>2 DEF Named, Sorted
  <2>4. DraftOf(j, e)
    BY <1>1, <1>3, <1>4, <1>9, <2>2 DEF DraftOf
  <2>5. Composed(j)
    BY <1>2, <1>3, <2>2 DEF Composed
  <2>6. JobOK(j, drafts')
    BY <1>3, <1>7, <2>2, <2>3, <2>4, <2>5, Steps DEF JobOK
  <2>7. Typed' /\ JobsOK' /\ DraftsOK' /\ SentOnce' /\ UploadsOK' /\ OneReader'
    BY <1>2, <1>5, <1>7, <1>9, <2>1, <2>2, <2>6, Steps, DraftStep
  <2> QED
    BY <1>2, <2>7 DEF SendInv, SessionsOK
<1> QED
  BY <1>2, <1>8, <1>9

\* What a call sends when every key is looked up: to each it names, once, and
\* encrypted exactly for those who have a key.
LEMMA PackagesOf ==
  ASSUME NEW j \in JobType, j.at = "keys", j.todo = {}, Sorted(j)
  PROVE  /\ DOMAIN Packages(j) = j.to
         /\ Packages(j) \in UNION {[S -> Package] : S \in SUBSET Addrs}
         /\ \A a \in j.to :
              Packages(j)[a] = [clear |-> a \notin Internal, body |-> j.body, keys |-> j.keys]
<1>1. /\ j.plain \cup j.encrypted = j.to /\ j.to \in SUBSET Addrs /\ j.body \in Nat
      /\ j.keys \in SUBSET Nat
  BY DEF Sorted, JobType
<1>2. \A a \in j.to : (a \in j.plain) <=> (a \notin Internal)
  BY <1>1 DEF Sorted
<1>3. \A a \in j.to :
        [clear |-> a \in j.plain, body |-> j.body, keys |-> j.keys] \in Package
  BY <1>1 DEF Package
<1>4. Packages(j) \in [j.to -> Package]
  BY <1>1, <1>3 DEF Packages
<1>5. ASSUME NEW a \in j.to
      PROVE  Packages(j)[a] = [clear |-> a \notin Internal, body |-> j.body, keys |-> j.keys]
  <2>1. Packages(j)[a] = [clear |-> a \in j.plain, body |-> j.body, keys |-> j.keys]
    BY <1>1 DEF Packages
  <2>2. CASE a \in Internal
    BY <1>2, <2>1, <2>2
  <2>3. CASE a \notin Internal
    BY <1>2, <2>1, <2>3
  <2> QED
    BY <2>2, <2>3
<1> QED
  BY <1>1, <1>4, <1>5

\* The draft is sent, whether or not the answer comes through.
LEMMA SendsInv ==
  ASSUME SendInv, NEW p \in Callers, Send(p)
  PROVE  SendInv'
<1> DEFINE k == job[p]
           old == drafts[k.draft]
           sent == Packages(k)
           ps == Shape[k.mail].parts
<1>1. PICK answer \in {"ok", "lost"} :
        drafts' = [drafts EXCEPT ![k.draft] = [old EXCEPT !.sent = sent, !.answer = answer]]
  <2>1. PICK answer \in {"ok", "lost"} :
          drafts' = [drafts EXCEPT ![k.draft].sent = sent, ![k.draft].answer = answer]
    BY DEF Send
  <2> QED
    BY <2>1
<1> DEFINE e == [old EXCEPT !.sent = sent, !.answer = answer]
<1>2. /\ k.at = "keys" /\ k.todo = {} /\ Go(p, Returned(p)) /\ p \in Sessions
      /\ UNCHANGED <<session, envelope, upload, failed>>
      /\ ~At(p, "uploading") /\ failed \subseteq failed'
  BY ReturnedOK DEF Send, At, clientVars, uploadVars, SendInv, JobsOK
<1>3. /\ k \in JobType /\ old \in DraftType /\ k.mail \in Mails /\ k.to # {}
      /\ Named(k) /\ Sorted(k) /\ DraftOf(k, old) /\ Composed(k)
  BY <1>2, Steps, OfCall
<1>4. /\ DOMAIN sent = k.to /\ sent \in UNION {[S -> Package] : S \in SUBSET Addrs}
      /\ \A a \in k.to :
           sent[a] = [clear |-> a \notin Internal, body |-> k.body, keys |-> k.keys]
  BY <1>2, <1>3, PackagesOf
<1> HIDE DEF sent
<1>5. /\ e \in DraftType
      /\ e.mail = old.mail /\ e.given = old.given /\ e.answer = answer /\ e.sent = sent
      /\ e.files = old.files /\ e.body = old.body
  BY <1>3, <1>4 DEF DraftType
<1>6. drafts' = [drafts EXCEPT ![k.draft] = e]
  BY <1>1
<1> HIDE DEF e
<1>7. /\ e.mail = k.mail /\ e.given = k.given /\ e.files = k.keys /\ e.body = k.body
  BY <1>2, <1>3, <1>5 DEF DraftOf
<1>8. DraftOK(e)
  <2>1. Whole(e)
    <3>1. /\ Len(ps) \in Nat /\ k.part = Len(ps) + 1 /\ k.body # 0
          /\ BodyOf(ps, k.part - 1, k.body) /\ k.keys = FilesOf(ps, k.part - 1)
      BY <1>2, <1>3, MailShape DEF Composed
    <3>2. k.part - 1 = Len(ps)
      BY <3>1
    <3>3. BodyOf(ps, Len(ps), e.body) /\ e.body # 0 /\ e.files = FilesOf(ps, Len(ps))
      BY <1>7, <3>1, <3>2
    <3>4. /\ Shape[k.mail].to \cup Shape[k.mail].bcc \subseteq DOMAIN e.sent
          /\ Shape[k.mail].bcc = {} => e.given \subseteq DOMAIN e.sent
      BY <1>3, <1>4, <1>5, <1>7 DEF Named
    <3>5. \A a \in DOMAIN e.sent :
            e.sent[a] = [clear |-> a \notin Internal, body |-> e.body, keys |-> e.files]
      BY <1>4, <1>5, <1>7
    <3> QED
      BY <1>7, <3>3, <3>4, <3>5 DEF Whole
  <2>2. DOMAIN e.sent \subseteq Shape[e.mail].to \cup Shape[e.mail].bcc \cup e.given
    BY <1>3, <1>4, <1>5, <1>7 DEF Named
  <2> QED
    BY <1>5, <2>1, <2>2 DEF DraftOK
<1>9. /\ drafts' \in Seq(DraftType) /\ Len(drafts) <= Len(drafts')
      /\ DOMAIN drafts' = DOMAIN drafts /\ k.draft \in DOMAIN drafts /\ drafts'[k.draft] = e
      /\ \A d \in DOMAIN drafts : d # k.draft => drafts'[d] = drafts[d]
  BY <1>2, <1>5, <1>6, Steps, DraftChanged
<1>10. Typed' /\ JobsOK'
  BY <1>2, <1>9, Steps, ReturnedOK, CallStep DEF SendInv
<1>11. DraftsOK'
  BY <1>8, <1>9 DEF SendInv, DraftsOK
<1>12. SentOnce'
  <2>1. /\ job'[p] = Returned(p) /\ Returned(p).at \notin Active
        /\ \A q \in Callers \ {p} : job'[q] = job[q]
    BY <1>2, ReturnedOK DEF Go, SendInv, Typed
  <2>2. \A r, s \in Sessions :
          job'[r].at \in Active /\ job'[s].at \in Active /\ job'[r].mail = job'[s].mail => r = s
    BY <2>1 DEF SendInv, SentOnce, Callers
  <2>3. \A s \in Sessions : job'[s].at \in Active =>
          s # p /\ job'[s] = job[s] /\ job[s].at \in Active /\ job[s].mail # k.mail
    BY <1>2, <2>1, Steps DEF SendInv, SentOnce, Callers
  <2>4. \A d \in DOMAIN drafts : drafts[d].answer = "ok" => drafts[d].mail # k.mail
    BY <1>2, Steps DEF SendInv, SentOnce
  <2>5. ASSUME NEW d \in DOMAIN drafts', drafts'[d].answer = "ok"
        PROVE  /\ \A s \in Sessions : job'[s].at \in Active => job'[s].mail # drafts'[d].mail
               /\ \A c \in DOMAIN drafts' :
                    drafts'[c].answer = "ok" /\ drafts'[c].mail = drafts'[d].mail => c = d
    <3>1. CASE d = k.draft
      BY <1>7, <1>9, <2>3, <2>4, <3>1
    <3>2. CASE d # k.draft
      <4>1. drafts'[d] = drafts[d] /\ d \in DOMAIN drafts
        BY <1>9, <3>2
      <4>2. \A s \in Sessions : job'[s].at \in Active => job'[s].mail # drafts'[d].mail
        BY <2>3, <2>5, <4>1 DEF SendInv, SentOnce
      <4> QED
        BY <1>7, <1>9, <2>4, <2>5, <4>1, <4>2 DEF SendInv, SentOnce
    <3> QED
      BY <3>1, <3>2
  <2> QED
    BY <2>2, <2>5 DEF SentOnce
<1>13. OneReader'
  BY <1>2, ReaderKept DEF SendInv
<1> QED
  BY <1>2, <1>10, <1>11, <1>12, <1>13 DEF SendInv, SessionsOK, UploadsOK

-----------------------------------------------------------------------------
(* The goroutines.                                                          *)

\* No goroutine begins to read the connection, and a copier is done after its writer.
LEMMA GoroutineInv ==
  ASSUME SendInv, NEW u \in DOMAIN upload, Goroutine(u)
  PROVE  SendInv'
<1>1. PICK w \in {"reads", "done", "broken", "blocked"},
           c \in {"copies", "done", "broken", "stopped"} :
        /\ upload' = [upload EXCEPT ![u] = [writer |-> w, copier |-> c]]
        /\ w = "reads" => upload[u].writer = "reads"
        /\ c = "done" => w # "reads"
  <2>1. /\ upload[u] \in [writer : {"reads", "done", "broken", "blocked"},
                          copier : {"copies", "done", "broken", "stopped"}]
        /\ upload[u].copier = "done" => upload[u].writer # "reads"
    BY DEF SendInv, UploadsOK
  <2>2. CASE WriterEnds(u)
    <3>1. PICK end \in {"done", "broken"} :
            upload' = [upload EXCEPT ![u] = [upload[u] EXCEPT !.writer = end]]
      BY <2>2 DEF WriterEnds, Becomes
    <3>2. [upload[u] EXCEPT !.writer = end] = [writer |-> end, copier |-> upload[u].copier]
      BY <2>1
    <3> QED
      BY <2>1, <3>1, <3>2
  <2>3. CASE CopierEnds(u)
    <3>1. /\ upload' = [upload EXCEPT ![u] = [upload[u] EXCEPT !.copier = upload[u].writer]]
          /\ upload[u].writer \in {"done", "broken"}
      BY <2>3 DEF CopierEnds, Becomes
    <3>2. [upload[u] EXCEPT !.copier = upload[u].writer]
            = [writer |-> upload[u].writer, copier |-> upload[u].writer]
      BY <2>1
    <3> QED
      BY <2>1, <3>1, <3>2
  <2>4. CASE CopierStops(u)
    <3>1. upload' = [upload EXCEPT ![u] = [upload[u] EXCEPT !.copier = "stopped"]]
      BY <2>4 DEF CopierStops, Becomes
    <3>2. [upload[u] EXCEPT !.copier = "stopped"]
            = [writer |-> upload[u].writer, copier |-> "stopped"]
      BY <2>1
    <3> QED
      BY <2>1, <3>1, <3>2
  <2>5. CASE WriterBlocks(u)
    <3>1. upload' = [upload EXCEPT ![u] = [upload[u] EXCEPT !.writer = "blocked"]]
      BY <2>5 DEF WriterBlocks, Becomes
    <3>2. [upload[u] EXCEPT !.writer = "blocked"]
            = [writer |-> "blocked", copier |-> upload[u].copier]
      BY <2>1
    <3> QED
      BY <2>1, <3>1, <3>2
  <2> QED
    BY <2>2, <2>3, <2>4, <2>5 DEF Goroutine
<1>2. UNCHANGED <<session, envelope, job, drafts, failed>>
  BY DEF Goroutine, WriterEnds, CopierEnds, CopierStops, WriterBlocks, Becomes, clientVars
<1>3. /\ DOMAIN upload' = DOMAIN upload /\ upload'[u] = [writer |-> w, copier |-> c]
      /\ \A v \in DOMAIN upload : v # u => upload'[v] = upload[v]
  BY <1>1
<1>4. UploadsOK'
  BY <1>1, <1>3 DEF SendInv, UploadsOK
<1>5. OneReader'
  <2>1. \A v \in DOMAIN upload' : upload'[v].writer = "reads" => upload[v].writer = "reads"
    BY <1>1, <1>3
  <2> QED
    BY <1>2, <1>3, <2>1 DEF SendInv, OneReader, At, Current
<1> QED
  BY <1>2, <1>4, <1>5 DEF SendInv, Typed, SessionsOK, JobsOK, DraftsOK, SentOnce, At

-----------------------------------------------------------------------------
(* The invariant.                                                           *)

\* The invariant holds before any mail.
LEMMA InitSend == Init => SendInv
<1> SUFFICES ASSUME Init PROVE SendInv
  OBVIOUS
<1>1. \A p \in Callers : job[p] = Idle
  BY DEF Init
<1>2. Idle \in JobType /\ Idle.at = "idle" /\ (\A ds : JobOK(Idle, ds))
  BY ReturnedOK
<1>3. job \in [Callers -> JobType] /\ drafts = << >> /\ DOMAIN drafts = {}
      /\ drafts \in Seq(DraftType)
  BY <1>2 DEF Init
<1>4. SessionsOK
  BY DEF Init, SessionsOK
<1>5. DOMAIN upload = {}
  BY DEF Init
<1>6. "idle" \notin Composing /\ "idle" \notin Active
  BY DEF Composing, Active
<1>7. Typed /\ JobsOK
  BY <1>1, <1>2, <1>3, <1>6 DEF Typed, JobsOK, At
<1>8. SentOnce
  BY <1>1, <1>2, <1>3, <1>6 DEF SentOnce, Callers
<1> QED
  BY <1>3, <1>4, <1>5, <1>7, <1>8 DEF SendInv, DraftsOK, UploadsOK, OneReader

\* Every step keeps the invariant.
LEMMA StepSend == SendInv /\ [Next]_vars => SendInv'
<1> SUFFICES ASSUME SendInv, [Next]_vars PROVE SendInv'
  OBVIOUS
<1>1. CASE Client
  <2>1. CASE \E s \in Sessions :
               \/ Auth(s) \/ Reset(s) \/ Logout(s)
               \/ \E a \in Addrs : Rcpt(s, a)
               \/ \E m \in Mails : Data(s, m)
    BY <2>1, AuthInv, ResetInv, LogoutInv, RcptInv, DataInv
  <2>2. CASE \E p \in Appends, m \in Mails : AppendMail(p, m)
    BY <2>2, AppendMailInv
  <2> QED
    BY <1>1, <2>1, <2>2 DEF Client
<1>2. CASE \E p \in Callers : Compose(p) \/ Dispatch(p)
  <2>1. PICK p \in Callers : Compose(p) \/ Dispatch(p)
    BY <1>2
  <2>2. CASE Compose(p)
    BY <2>2, CreateDraftInv, NextPartInv, EndOfPartsInv, UploadedInv, UpdateDraftInv, FailInv
    DEF Compose
  <2>3. CASE Dispatch(p)
    BY <2>3, LookUpInv, SendsInv DEF Dispatch
  <2> QED
    BY <2>1, <2>2, <2>3
<1>3. CASE \E u \in DOMAIN upload : Goroutine(u)
  BY <1>3, GoroutineInv
<1>4. CASE UNCHANGED vars
  BY <1>4 DEF vars, clientVars, uploadVars, SendInv, Typed, SessionsOK, JobsOK, DraftsOK,
              SentOnce, UploadsOK, OneReader, At, Current
<1> QED
  BY <1>1, <1>2, <1>3, <1>4 DEF Next

\* The invariant: every call knows its own draft and nothing else does, a mail
\* is under way in one session and accepted in none before, a draft whose
\* client was told OK is whole.
THEOREM SendInvariant == Spec => []SendInv
<1> QED
  BY InitSend, StepSend, PTL DEF Spec

\* Types of the calls, the sessions and the uploads; a body is one of the
\* mail's parts, and the keys kept are of attachments the draft has.
THEOREM SendTypeCorrect == Spec => []TypeOK
<1>1. ASSUME SendInv PROVE TypeOK
  <2>1. ASSUME NEW p \in Callers
        PROVE  LET j == job[p] IN
               /\ j.at # "idle" /\ j.mail # Nil =>
                    j.mail \in Mails /\ j.to # {} /\ j.to \subseteq Addrs
               /\ j.at \in {"updating", "keys"} => j.body \in DOMAIN Parts(p)
               /\ j.keys # {} => j.keys \subseteq drafts[j.draft].files
    <3>1. job[p] \in JobType /\ JobOK(job[p], drafts)
      BY <1>1 DEF SendInv, Typed, JobsOK
    <3>2. CASE job[p].at \notin Active
      BY <3>1, <3>2, Steps DEF JobOK
    <3>3. CASE job[p].at = "drafting"
      BY <3>1, <3>3, Steps DEF JobOK, JobType
    <3>4. CASE job[p].at \in Composing
      <4>1. /\ job[p].mail \in Mails /\ job[p].to # {} /\ job[p].to \in SUBSET Addrs
            /\ DraftOf(job[p], drafts[job[p].draft]) /\ Composed(job[p])
        BY <1>1, <3>1, <3>4, OfCall DEF JobType
      <4>2. ASSUME job[p].at \in {"updating", "keys"} PROVE job[p].body \in DOMAIN Parts(p)
        <5> DEFINE ps == Shape[job[p].mail].parts
        <5>1. /\ Len(ps) \in Nat /\ job[p].part = Len(ps) + 1 /\ job[p].body # 0
              /\ BodyOf(ps, job[p].part - 1, job[p].body) /\ DOMAIN ps = 1 .. Len(ps)
          BY <4>1, <4>2, MailShape DEF Composed
        <5>2. job[p].part - 1 = Len(ps)
          BY <5>1
        <5>3. job[p].body \in 1 .. Len(ps)
          BY <5>1, <5>2 DEF BodyOf
        <5> QED
          BY <5>1, <5>3 DEF Parts
      <4> QED
        BY <4>1, <4>2 DEF DraftOf
    <3> QED
      BY <3>2, <3>3, <3>4 DEF Active
  <2>2. \A s \in Sessions : session[s].rcpt \subseteq Addrs
    BY <1>1 DEF SendInv, SessionsOK
  <2>3. \A u \in DOMAIN upload :
          /\ upload[u].writer \in {"reads", "done", "broken", "blocked"}
          /\ upload[u].copier \in {"copies", "done", "broken", "stopped"}
    BY <1>1 DEF SendInv, UploadsOK
  <2> QED
    BY <2>1, <2>2, <2>3 DEF TypeOK
<1> QED
  BY <1>1, SendInvariant, PTL

\* What a client was told is accepted is the whole mail, for those it is for,
\* encrypted exactly for those who have a key.
THEOREM AcceptedMailIsWhole == Spec => []AcceptedIsWhole
<1>1. ASSUME SendInv PROVE AcceptedIsWhole
  <2> SUFFICES ASSUME NEW d \in {e \in DOMAIN drafts : drafts[e].answer \in {"kept", "ok"}}
      PROVE  LET mail == Shape[drafts[d].mail]
                 sent == drafts[d].sent
                 files == {i \in DOMAIN mail.parts : mail.parts[i] = "file"}
                 Texts(kinds) == {i \in DOMAIN mail.parts : mail.parts[i] \in kinds}
                 body == IF Texts({"html"}) # {}
                           THEN CHOOSE i \in Texts({"html"}) : \A k \in Texts({"html"}) : k <= i
                           ELSE CHOOSE i \in Texts({"plain"}) : \A k \in Texts({"plain"}) : i <= k
             IN
             /\ drafts[d].body = body /\ drafts[d].files = files
             /\ drafts[d].answer = "ok" =>
                  /\ mail.to \cup mail.bcc \subseteq DOMAIN sent
                  /\ mail.bcc = {} => drafts[d].given \subseteq DOMAIN sent
                  /\ \A a \in DOMAIN sent :
                       sent[a] = [clear |-> a \notin Internal, body |-> body, keys |-> files]
    BY DEF AcceptedIsWhole
  <2> DEFINE e == drafts[d]
             ps == Shape[e.mail].parts
             n == Len(ps)
             files == {i \in DOMAIN ps : ps[i] = "file"}
             Texts(kinds) == {i \in DOMAIN ps : ps[i] \in kinds}
             Last(i) == \A k \in Texts({"html"}) : k <= i
             First(i) == \A k \in Texts({"plain"}) : i <= k
             body == IF Texts({"html"}) # {} THEN CHOOSE i \in Texts({"html"}) : Last(i)
                                            ELSE CHOOSE i \in Texts({"plain"}) : First(i)
  <2>1. /\ d \in DOMAIN drafts /\ e \in DraftType /\ Whole(e)
    <3>1. d \in DOMAIN drafts /\ drafts \in Seq(DraftType) /\ DOMAIN drafts = 1 .. Len(drafts)
      BY <1>1 DEF SendInv, Typed
    <3>2. e \in DraftType
      BY <3>1, ElementOfSeq
    <3> QED
      BY <1>1, <3>1, <3>2 DEF SendInv, DraftsOK, DraftOK
  <2>2. /\ e.mail \in Mails /\ e.body \in Nat /\ n \in Nat /\ DOMAIN ps = 1 .. n
    BY <2>1, MailShape DEF DraftType
  <2>3. BodyOf(ps, n, e.body) /\ e.body # 0 /\ e.files = FilesOf(ps, n)
    BY <2>1 DEF Whole
  <2>4. e.files = files
    BY <2>2, <2>3 DEF FilesOf
  <2>5. e.body = body
    <3>1. CASE Texts({"html"}) # {}
      <4>1. e.body \in Texts({"html"}) /\ Last(e.body)
        BY <2>2, <2>3, <3>1 DEF BodyOf
      <4>2. \A i \in Texts({"html"}) : Last(i) => i = e.body
        BY <2>2, <4>1
      <4> QED
        BY <3>1, <4>1, <4>2
    <3>2. CASE Texts({"html"}) = {}
      <4>1. e.body \in Texts({"plain"}) /\ First(e.body)
        BY <2>2, <2>3, <3>2 DEF BodyOf
      <4>2. \A i \in Texts({"plain"}) : First(i) => i = e.body
        BY <2>2, <4>1
      <4> QED
        BY <3>2, <4>1, <4>2
    <3> QED
      BY <3>1, <3>2
  <2>6. e.answer = "ok" =>
          /\ Shape[e.mail].to \cup Shape[e.mail].bcc \subseteq DOMAIN e.sent
          /\ Shape[e.mail].bcc = {} => e.given \subseteq DOMAIN e.sent
          /\ \A a \in DOMAIN e.sent :
               e.sent[a] = [clear |-> a \notin Internal, body |-> e.body, keys |-> e.files]
    BY <2>1 DEF Whole
  <2> HIDE DEF files, body
  <2>7. e.answer = "ok" =>
          /\ Shape[e.mail].to \cup Shape[e.mail].bcc \subseteq DOMAIN e.sent
          /\ Shape[e.mail].bcc = {} => e.given \subseteq DOMAIN e.sent
          /\ \A a \in DOMAIN e.sent :
               e.sent[a] = [clear |-> a \notin Internal, body |-> body, keys |-> files]
    BY <2>4, <2>5, <2>6
  <2> QED
    BY <2>4, <2>5, <2>7 DEF files, body
<1> QED
  BY <1>1, SendInvariant, PTL

\* Nobody gets a mail but those its header or its envelope names, although a
\* connection sends one mail after the other.
THEOREM OnlyNamedReceive == Spec => []OnlyNamed
<1>1. SendInv => OnlyNamed
  BY DEF SendInv, DraftsOK, DraftOK, OnlyNamed
<1> QED
  BY <1>1, SendInvariant, PTL

\* However often and on however many connections a client tries, a mail goes
\* out twice only if an answer was lost.
THEOREM TwiceOnlyUnanswered == Spec => []TwiceOnlyIfUnanswered
<1>1. ASSUME SendInv PROVE TwiceOnlyIfUnanswered
  <2> SUFFICES ASSUME NEW m \in Mails
      PROVE  Cardinality({d \in DOMAIN drafts : drafts[d].mail = m /\ drafts[d].sent # NotSent
                                                /\ drafts[d].answer # "lost"}) <= 1
    BY DEF TwiceOnlyIfUnanswered
  <2> DEFINE S == {d \in DOMAIN drafts : drafts[d].mail = m /\ drafts[d].sent # NotSent
                                         /\ drafts[d].answer # "lost"}
  <2>1. \A d \in S : d \in DOMAIN drafts /\ drafts[d].mail = m /\ drafts[d].answer = "ok"
    BY <1>1 DEF SendInv, DraftsOK, DraftOK
  <2>2. \A c, d \in S : c = d
    BY <1>1, <2>1 DEF SendInv, SentOnce
  <2> HIDE DEF S
  <2>3. Cardinality(S) <= 1
    <3>1. CASE S = {}
      <4>1. Cardinality(S) = 0
        BY <3>1, FS_EmptySet
      <4> QED
        BY <4>1
    <3>2. CASE S # {}
      <4>1. PICK d \in S : TRUE
        BY <3>2
      <4>2. S = {d}
        BY <2>2, <4>1
      <4>3. Cardinality(S) = 1
        BY <4>2, FS_Singleton
      <4> QED
        BY <4>3
    <3> QED
      BY <3>1, <3>2
  <2> QED
    BY <2>3 DEF S
<1> QED
  BY <1>1, SendInvariant, PTL

\* The connection has one reader, unless an upload has failed.
THEOREM ConnectionHasOneReader == Spec => []OneReader
<1>1. SendInv => OneReader
  BY DEF SendInv
<1> QED
  BY <1>1, SendInvariant, PTL
=============================================================================
