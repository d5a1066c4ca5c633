----------------------------- MODULE MCSendMail -----------------------------
(* Small instance of SendMail for TLC: see the README for the bounds.       *)
EXTENDS SendMail

\* A text in two forms with attachments; a mail to nobody but its envelope; one
\* with a Bcc field; a sender that the account does not have; a torn mail; one
\* without a text.
MCShape ==
  [letter  |-> [to |-> {"alice"}, bcc |-> {}, sender |-> TRUE,
                parts |-> <<"plain", "file", "html", "unnamed", "file">>],
   note    |-> [to |-> {}, bcc |-> {}, sender |-> TRUE, parts |-> <<"plain", "plain">>],
   hidden  |-> [to |-> {"alice"}, bcc |-> {"bob"}, sender |-> TRUE, parts |-> <<"html">>],
   foreign |-> [to |-> {"alice"}, bcc |-> {}, sender |-> FALSE, parts |-> <<"plain">>],
   torn    |-> [to |-> {"bob"}, bcc |-> {}, sender |-> TRUE, parts |-> <<"plain", "garbled">>],
   bare    |-> [to |-> {"bob"}, bcc |-> {}, sender |-> TRUE, parts |-> <<"unnamed">>]]

MCMails == DOMAIN MCShape

MCAddrs == {"alice", "bob"}

MCInternal == {"bob"}
=============================================================================
