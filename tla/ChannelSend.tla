----------------------------- MODULE ChannelSend -----------------------------
(***************************************************************************)
(* What the adapters' send, edit_message and delete_message do             *)
(* (telegram.rs, slack.rs, discord.rs, signal.rs, whatsapp.rs, email.rs,   *)
(* web.rs): the requests one call makes, in order, what each puts before   *)
(* the recipient, and what the caller is told. The caller (Delivery) sends *)
(* again what it is told was not sent.                                     *)
(*                                                                         *)
(* A text has no part, one, or two when it is longer than the platform     *)
(* takes at once. A file is its kind, or "empty" when its bytes are        *)
(* missing. An answer is the platform's choice.                            *)
(***************************************************************************)
EXTENDS Naturals, Sequences, SequencesExt

CONSTANTS CsMessages \* what is sent: [files, parts, account, user, direct]

ASSUME CsConstants ==
  CsMessages \subseteq [files : Seq(STRING), parts : 0..2, account : BOOLEAN, user : BOOLEAN, direct : BOOLEAN]

VARIABLES
  csPlat, csMsg,  \* the platform and the message
  csTodo,         \* requests still to be made
  csLoaded,       \* files Slack or WhatsApp has taken and not shown
  csShown,        \* what the recipient sees: parts of the text, numbers of files
  csMarkup, csThread, \* Telegram: parse_mode and thread id are part of the request
  csOut,          \* "none", "sent", "limited", "failed" (results), "error"
  csText,         \* the text shown: "old", "new" after an edit, "gone" after a delete
  csEdit          \* what the last edit or delete told: "none", "ok", "error"

csVars == <<csPlat, csMsg, csTodo, csLoaded, csShown, csMarkup, csThread, csOut, csText, csEdit>>

Platforms == {"telegram", "slack", "discord", "signal", "whatsapp", "email", "web"}

CsInit ==
  /\ csPlat = "none" /\ csMsg = <<>> /\ csTodo = <<>> /\ csLoaded = {} /\ csShown = {}
  /\ csMarkup = TRUE /\ csThread = TRUE /\ csOut = "none" /\ csText = "old" /\ csEdit = "none"

----------------------------------------------------------------------------
(* The requests of one send. "post" shows its part, "load" hands over one   *)
(* file, "finish" shows what was handed over, "follow" is best effort.      *)

Request(op, show) == [op |-> op, show |-> show]
FilesOf(m) == {<<"file", i>> : i \in DOMAIN m.files}
TextOf(m) == {<<"text", i>> : i \in 1..m.parts}
Readable(m) == \A i \in DOMAIN m.files : m.files[i] # "empty"

\* Albums are photos and videos, or audio, or documents.
AlbumKind(k) == IF k \in {"image", "video"} THEN "visual" ELSE k

\* A long caption goes in a message of its own after the files.
TelegramPlan(m) ==
  IF m.files # <<>> /\ m.parts = 2
  THEN <<Request("post", FilesOf(m)), Request("follow", TextOf(m))>>
  ELSE <<Request("post", FilesOf(m) \cup TextOf(m))>>

TelegramTakes(m) ==
  \A i, j \in DOMAIN m.files : AlbumKind(m.files[i]) = AlbumKind(m.files[j])

\* Files are uploaded one by one, then completed together with the text.
SlackPlan(m) ==
  IF m.files = <<>> THEN <<Request("post", TextOf(m))>>
  ELSE [i \in DOMAIN m.files |-> Request("load", {<<"file", i>>})] \o <<Request("finish", TextOf(m))>>

\* A long text without files is one message per part.
DiscordPlan(m) ==
  IF m.files = <<>> /\ m.parts = 2
  THEN [i \in 1..2 |-> Request("post", {<<"text", i>>})]
  ELSE <<Request("post", FilesOf(m) \cup TextOf(m))>>

SignalPlan(m) == <<Request("post", FilesOf(m) \cup TextOf(m))>>

\* Files need the account's number and no username.
SignalTakes(m) == m.files # <<>> => m.account /\ ~m.user

\* The one file is uploaded first; audio has no caption.
WhatsAppPlan(m) ==
  IF m.files = <<>> THEN <<Request("post", TextOf(m))>>
  ELSE <<Request("load", {}),
         Request("post", FilesOf(m) \cup (IF m.files[1] = "audio" THEN {} ELSE TextOf(m)))>>

WhatsAppTakes(m) == Len(m.files) <= 1

\* The body is the text; attachments are not looked at.
EmailPlan(m) == <<Request("post", TextOf(m))>>

\* The message is put into the recipient's queue.
WebPlan(m) == <<Request("post", FilesOf(m) \cup TextOf(m))>>

Plan(p, m) ==
  CASE p = "telegram" -> TelegramPlan(m) [] p = "slack" -> SlackPlan(m)
    [] p = "discord" -> DiscordPlan(m) [] p = "signal" -> SignalPlan(m)
    [] p = "whatsapp" -> WhatsAppPlan(m) [] p = "email" -> EmailPlan(m)
    [] OTHER -> WebPlan(m)

\* The checks before the first request; the adapter answers with an error.
Takes(p, m) ==
  CASE p = "telegram" -> Readable(m) /\ TelegramTakes(m)
    [] p = "signal" -> Readable(m) /\ SignalTakes(m)
    [] p = "whatsapp" -> Readable(m) /\ WhatsAppTakes(m)
    [] p = "discord" -> Readable(m)
    [] OTHER -> TRUE

CsBegin(p, m) ==
  /\ csPlat = "none"
  /\ csPlat' = p /\ csMsg' = m
  /\ csTodo' = IF Takes(p, m) THEN Plan(p, m) ELSE <<>>
  /\ csOut' = IF Takes(p, m) THEN "none" ELSE "error"
  /\ UNCHANGED <<csLoaded, csShown, csMarkup, csThread, csText, csEdit>>

----------------------------------------------------------------------------
(* The answers.                                                             *)

Req == Head(csTodo)
Asking(ops) == csOut = "none" /\ csTodo # <<>> /\ Req.op \in ops
same == <<csPlat, csMsg, csText, csEdit>>

\* The rest is not asked for; r is returned.
Return_(r) == csTodo' = <<>> /\ csOut' = r

\* Slack looks at a file's bytes when it is that file's turn.
Unreadable == csPlat = "slack" /\ \E x \in Req.show : x[1] = "file" /\ csMsg.files[x[2]] = "empty"

NoBytes ==
  /\ Asking({"load"}) /\ Unreadable
  /\ Return_("error")
  /\ UNCHANGED <<csLoaded, csShown, csMarkup, csThread, same>>

Accepted ==
  /\ Asking({"post", "load", "finish", "follow"}) /\ ~Unreadable
  /\ csLoaded' = IF Req.op = "load" THEN csLoaded \cup Req.show ELSE {}
  /\ csShown' = IF Req.op = "load" THEN csShown ELSE csShown \cup Req.show \cup csLoaded
  /\ csTodo' = Tail(csTodo)
  /\ csOut' = IF Len(csTodo) = 1 THEN "sent" ELSE "none"
  /\ csMarkup' = TRUE /\ csThread' = TRUE
  /\ UNCHANGED same

\* 429 and a refusal are results, not errors. (E-mail knows no such result; the web
\* queue takes everything.)
Refused(r) ==
  /\ Asking({"post", "finish"}) /\ csPlat \notin {"email", "web"}
  /\ Return_(r)
  /\ UNCHANGED <<csLoaded, csShown, csMarkup, csThread, same>>

\* The transport fails, before or after the platform has acted, or the answer cannot be
\* read.
Lost ==
  /\ Asking({"post", "finish"}) /\ csPlat # "web"
  /\ csShown' \in {csShown, csShown \cup Req.show \cup csLoaded}
  /\ Return_("error")
  /\ UNCHANGED <<csLoaded, csMarkup, csThread, same>>

\* Slack: the first upload that fails is a failure, a later one ends the uploads.
\* WhatsApp: it is an error.
UploadFails ==
  /\ Asking({"load"}) /\ ~Unreadable
  /\ IF csPlat = "slack" /\ csLoaded # {}
     THEN csTodo' = <<Last(csTodo)>> /\ UNCHANGED csOut
     ELSE Return_(IF csPlat = "slack" THEN "failed" ELSE "error")
  /\ UNCHANGED <<csLoaded, csShown, csMarkup, csThread, same>>

\* Telegram cannot parse the markup: once more without parse_mode.
NoMarkup ==
  /\ csPlat = "telegram" /\ Asking({"post", "follow"}) /\ csMarkup
  /\ csMarkup' = FALSE
  /\ UNCHANGED <<csTodo, csLoaded, csShown, csThread, csOut, same>>

\* The thread is unknown: once more without it, in direct chats.
NoThread ==
  /\ csPlat = "telegram" /\ Asking({"post", "follow"}) /\ csThread /\ csMsg.direct
  /\ csThread' = FALSE
  /\ UNCHANGED <<csTodo, csLoaded, csShown, csMarkup, csOut, same>>

\* The text after the files is not sent: the result of the files stands.
FollowFails ==
  /\ Asking({"follow"})
  /\ csShown' \in {csShown, csShown \cup Req.show}
  /\ Return_("sent")
  /\ UNCHANGED <<csLoaded, csMarkup, csThread, same>>

----------------------------------------------------------------------------
(* edit_message (stream_update and stream_end are edits), delete_message.    *)

sending == <<csPlat, csMsg, csTodo, csLoaded, csShown, csMarkup, csThread, csOut>>

\* A change of the message to the text t: made and told, or an error is told, and
\* nobody knows.
Change(p, t) ==
  /\ csPlat = p /\ csOut = "sent" /\ csText # "gone"
  /\ \/ csText' = t /\ csEdit' = "ok"
     \/ csText' \in {csText, t} /\ csEdit' = "error"
  /\ UNCHANGED sending

\* Seeded bug: every refusal of an edit passes for one that changes nothing.
TelegramEditAnything ==
  \/ Change("telegram", "new")
  \/ csPlat = "telegram" /\ csOut = "sent" /\ csEdit' = "ok" /\ UNCHANGED <<csText, sending>>

\* A refusal because the text is the same already is no error, so an edit whose answer
\* was lost can be made again.
TelegramEdit ==
  \/ Change("telegram", "new")
  \/ csPlat = "telegram" /\ csText = "new" /\ csEdit' = "ok" /\ UNCHANGED <<csText, sending>>

SlackEdit == Change("slack", "new")
DiscordEdit == Change("discord", "new")
TelegramDelete == Change("telegram", "gone")
SlackDelete == Change("slack", "gone")
DiscordDelete == Change("discord", "gone")

----------------------------------------------------------------------------

CsNext ==
  \/ \E p \in Platforms, m \in CsMessages : CsBegin(p, m)
  \/ Accepted \/ Refused("limited") \/ Refused("failed") \/ Lost \/ NoBytes \/ UploadFails
  \/ NoMarkup \/ NoThread \/ FollowFails
  \/ TelegramEdit \/ SlackEdit \/ DiscordEdit \/ TelegramDelete \/ SlackDelete \/ DiscordDelete

CsSpec == CsInit /\ [][CsNext]_csVars

\* What "sent" promises: everything but the files after one that Slack did not take,
\* the files of an e-mail, the text with a WhatsApp voice message and the text that
\* follows a Telegram album.
Promised ==
  LET files == CASE csPlat = "slack" -> {x \in FilesOf(csMsg) : x[2] = 1}
                 [] csPlat = "email" -> {}
                 [] OTHER -> FilesOf(csMsg)
      dropped == (csPlat = "whatsapp" /\ csMsg.files = <<"audio">>)
                   \/ (csPlat = "telegram" /\ csMsg.files # <<>> /\ csMsg.parts = 2)
  IN files \cup (IF dropped THEN {} ELSE TextOf(csMsg))

\* When a call is told "sent" the recipient sees what that promises, and when an edit
\* is told to be done the recipient sees the new text, however answers get lost,
\* uploads fail and requests are repeated without markup or thread.
ReportedIsShown ==
  /\ csOut = "sent" => Promised \subseteq csShown
  /\ csEdit = "ok" => csText # "old"

=============================================================================
