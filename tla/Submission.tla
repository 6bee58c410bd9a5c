----------------------------- MODULE Submission -----------------------------
(***************************************************************************)
(* Sending mail: the SMTP connections (smtp/mod.rs), behind the accept     *)
(* loop (net.rs), and what send_mail does with a message (tuta.rs): choose *)
(* the sender, upload the attachments, resolve the reply, create a draft   *)
(* and send it, each a request through the governor.                       *)
(*                                                                         *)
(* A connection waits for its send, so it makes one request at a time; its *)
(* client may tire of waiting and submit the mail again on another one.    *)
(* The data of a message is how many lines of it were kept.                *)
(***************************************************************************)
EXTENDS Governor, TLC

CONSTANTS
    Conns,              \* SMTP connections; the other callers are the rest of
                        \* the bridge (the syncer, IMAP), whose requests compete
    MAX_CONNECTIONS,    \* net.rs
    Addrs,              \* recipients
    MailIds,            \* the Message-IDs clients submit
    Kinds,              \* what they submit: the sender asked for (the account's
                        \* own, an alias of it, or a foreign one), with
                        \* attachments or not, a reply or not
    MaxLines,           \* bound: lines of one message
    MaxMessage,         \* SmtpLimits::max_message_bytes, in lines
    MaxSentIds,         \* SENT_ID_CACHE_MAX_ENTRIES
    PasswordSet,        \* a password_hash is configured
    MaxSends,           \* bound: messages submitted in a behaviour
    MaxThrottledSends,  \* bound: messages submitted in one with throttled answers;
                        \* to a send these are failed requests like any other
    MaxDialogues,       \* bound: connections not waiting for a send; they share nothing
    None

\* A connection: its dialogue, the message typed so far, and whether its client
\* is gone.
Connection ==
    [auth : {"none", "plain", "user", "pass"}, authed : BOOLEAN,
     state : {"init", "greeted", "mail", "rcpt", "data"}, to : SUBSET Addrs,
     inData : BOOLEAN, tooLarge : BOOLEAN, buf : Nat, typed : Nat, gone : BOOLEAN]

\* A message in the hands of send_mail.
Message ==
    [id : MailIds, attempt : Nat, reply : MailIds \cup {None},
     from : {"own", "alias", "foreign"}, attachments : BOOLEAN,
     lines : Nat, to : SUBSET Addrs, typed : Nat, envelope : SUBSET Addrs,
     sender : {None, "own", "alias"}, previous : Nat \cup {None}, draft : BOOLEAN]

ASSUME SubmissionConstants ==
    /\ Conns \subseteq Callers /\ MAX_CONNECTIONS \in Nat \ {0}
    /\ MaxLines \in Nat /\ MaxMessage \in Nat
    /\ MaxSentIds \in Nat \ {0} /\ MaxSends \in Nat /\ MaxThrottledSends \in Nat
    /\ MaxDialogues \in Nat \ {0}
    /\ Kinds \subseteq [from : {"own", "alias", "foreign"}, attachments : BOOLEAN,
                        replies : BOOLEAN]
    /\ PasswordSet \in BOOLEAN
    /\ None \notin Message \cup Connection

VARIABLES
    smtp,       \* smtp[c]: the connection's state, or None
    step,       \* step[c]: where the send of c is
    mail,       \* mail[c]: the message being sent
    sentIds,    \* sent_id_cache: submitted id, the id Tuta gave, fresh
    drafts,     \* Tuta: the attempts whose draft was created and not sent
    delivered,  \* Tuta: the mails that went out
    sends,      \* messages handed to send_mail
    okd,        \* ghost: the ids whose client read a 250
    lost        \* ghost: the attempts whose outcome the client was not told:
                \* it gave up waiting, or Tuta's answer to the send was lost

sub == <<smtp, step, mail, sentIds>>
tuta == <<drafts, delivered, lost>>
subVars == <<govVars, sub, tuta, sends, okd>>

\* A connection with nothing of a message.
Greeted(auth, authed) ==
    [auth |-> auth, authed |-> authed, state |-> "greeted", to |-> {},
     inData |-> FALSE, tooLarge |-> FALSE, buf |-> 0, typed |-> 0, gone |-> FALSE]

Init ==
    /\ GovInit
    /\ smtp = [c \in Conns |-> None]
    /\ step = [c \in Conns |-> "idle"]
    /\ mail = [c \in Conns |-> None]
    /\ sentIds = {} /\ drafts = {} /\ delivered = {}
    /\ sends = 0 /\ okd = {} /\ lost = {}

-----------------------------------------------------------------------------
(* The connection.  Lines that only earn an error reply change nothing.    *)

Set(c, s) == smtp' = [smtp EXCEPT ![c] = s]
Talking(c) == smtp[c] # None /\ step[c] = "idle"
Command(c) == Talking(c) /\ smtp[c].auth = "none" /\ ~smtp[c].inData
OnlySmtp == UNCHANGED <<govVars, step, mail, sentIds, tuta, sends, okd>>

\* The envelope part of a connection's state starts again.
Fresh(c) == Greeted(smtp[c].auth, smtp[c].authed)

\* accept_loop: a slot first, then the connection, whose slot goes back when
\* its handler ends.
SlotFree == Cardinality({d \in Conns : smtp[d] # None}) < MAX_CONNECTIONS

MaySubmit == sends < IF throttled > 0 THEN MaxThrottledSends ELSE MaxSends

Accept(c) ==
    /\ smtp[c] = None /\ step[c] = "idle"
    /\ SlotFree
    /\ Cardinality({d \in Conns : smtp[d] # None /\ step[d] = "idle"}) < MaxDialogues
    /\ MaySubmit
    /\ Set(c, [Greeted("none", ~PasswordSet) EXCEPT !.state = "init"])
    /\ OnlySmtp

\* EHLO, HELO, RSET
Reset(c) ==
    /\ Command(c) /\ smtp[c].state # "greeted"
    /\ Set(c, Fresh(c))
    /\ OnlySmtp

\* AUTH: an inline response, or the lines of PLAIN and LOGIN.  (Begun again
\* after it succeeded it changes nothing that lasts, and is left out.)
AuthInline(c, good) ==
    /\ Command(c)
    /\ Set(c, [smtp[c] EXCEPT !.authed = @ \/ good])
    /\ OnlySmtp

AuthBegin(c, wait) ==
    /\ Command(c) /\ ~smtp[c].authed
    /\ wait \in {"plain", "user"}
    /\ Set(c, [smtp[c] EXCEPT !.auth = wait])
    /\ OnlySmtp

AuthLine(c, good) ==
    /\ Talking(c)
    /\ \/ smtp[c].auth = "user" /\ Set(c, [smtp[c] EXCEPT !.auth = "pass"])
       \/ smtp[c].auth \in {"plain", "pass"}
          /\ Set(c, [smtp[c] EXCEPT !.auth = "none", !.authed = @ \/ good])
    /\ OnlySmtp

\* MAIL whose SIZE=, if any, is within the limit; it may come at any time and
\* forgets the recipients of an earlier one.
MailFrom(c) ==
    /\ Command(c) /\ smtp[c].authed
    /\ Set(c, [smtp[c] EXCEPT !.state = "mail", !.to = {}])
    /\ OnlySmtp

RcptTo(c, a) ==
    /\ Command(c) /\ smtp[c].authed /\ smtp[c].state \in {"mail", "rcpt"}
    /\ Set(c, [smtp[c] EXCEPT !.state = "rcpt", !.to = @ \cup {a}])
    /\ OnlySmtp

Data(c) ==
    /\ Command(c) /\ smtp[c].authed /\ smtp[c].state = "rcpt"
    /\ Set(c, [smtp[c] EXCEPT !.state = "data", !.inData = TRUE])
    /\ OnlySmtp

\* A line of the message: over the cap nothing more is kept.
DataLine(c) ==
    LET s == smtp[c] IN
    /\ Talking(c) /\ s.inData /\ s.typed < MaxLines
    /\ Set(c, IF s.tooLarge THEN [s EXCEPT !.typed = @ + 1]
              ELSE IF s.buf + 1 > MaxMessage
              THEN [s EXCEPT !.tooLarge = TRUE, !.buf = 0, !.typed = @ + 1]
              ELSE [s EXCEPT !.buf = @ + 1, !.typed = @ + 1])
    /\ OnlySmtp

\* The final dot of a message over the cap: 552, and the next one starts anew.
RejectTooLarge(c) ==
    /\ Talking(c) /\ smtp[c].inData /\ smtp[c].tooLarge
    /\ Set(c, Fresh(c))
    /\ OnlySmtp

HeadersOnly(headers, envelope) == headers

\* Envelope recipients the headers do not name become blind copies.
Recipients(headers, envelope) == headers \cup (envelope \ headers)

\* The final dot of any other: the message is parsed and handed to send_mail,
\* which first asks for the sender's mail group: that of the address in the
\* message, or at once the account's own.  A client submits a mail again while
\* it has no 250 for it and does not wait for one: on this connection after a
\* 451, or on another after it gave up on the first, whose send may still run.
Awaited == {mail[d].id : d \in {e \in Conns : mail[e] # None /\ ~smtp[e].gone}}

Submit(c) ==
    LET s == smtp[c] IN
    /\ Talking(c) /\ s.inData /\ ~s.tooLarge /\ MaySubmit
    /\ \E id \in MailIds \ (okd \cup Awaited), reply \in MailIds \cup {None},
          kind \in Kinds, headers \in SUBSET Addrs :
         /\ reply # id /\ kind.replies = (reply # None)
         /\ mail' = [mail EXCEPT ![c] =
               [id |-> id, attempt |-> sends + 1, reply |-> reply, from |-> kind.from,
                attachments |-> kind.attachments,
                lines |-> s.buf, to |-> Recipients(headers, s.to),
                typed |-> s.typed, envelope |-> s.to,
                sender |-> None, previous |-> None, draft |-> FALSE]]
         /\ step' = [step EXCEPT ![c] = IF kind.from = "own" THEN "resolveOwn" ELSE "resolve"]
    /\ sends' = sends + 1
    /\ Set(c, Fresh(c))
    /\ Ask(c)
    /\ UNCHANGED <<sentIds, tuta, okd>>

Quit(c) ==
    /\ Command(c)
    /\ Set(c, None)
    /\ OnlySmtp

\* read_line_capped ends the connection: a line over max_line_bytes, or the
\* client is gone.  While a message is being sent nothing is read, so the send
\* goes on.
LastLine(c) ==
    /\ Talking(c)
    /\ Set(c, None)
    /\ OnlySmtp

\* The client stops waiting for the answer to its message (the governor alone
\* may hold the requests for minutes) or its network is gone.  The handler
\* reads nothing meanwhile: it keeps its slot and goes on sending.
GiveUp(c) ==
    /\ step[c] # "idle" /\ ~smtp[c].gone
    /\ Set(c, [smtp[c] EXCEPT !.gone = TRUE])
    /\ lost' = lost \cup {mail[c].attempt}
    /\ UNCHANGED <<govVars, step, mail, sentIds, drafts, delivered, sends, okd>>

-----------------------------------------------------------------------------
(* send_mail_impl, one request at a time.                                  *)

\* The request after the one at hand: no attachments, no upload and no keys.
After(s, attachments) ==
    CASE s \in {"resolve", "resolveOwn"} -> IF attachments THEN "upload" ELSE "draft"
      [] s = "upload" -> "draft"
      [] s = "draft" -> IF attachments THEN "keys" ELSE "send"
      [] s = "keys" -> "send"

\* lookup_sent_message_id: a fresh entry for the id replied to.
Lookup(id) ==
    LET found == {e \in sentIds : e.id = id /\ e.fresh}
    IN IF found = {} THEN None ELSE (CHOOSE e \in found : TRUE).server

\* remember_sent_message_id: a full cache drops its oldest entry, unless the
\* id is there already; Tuta's ids grow with time.
Remembered(id, server) ==
    LET others == {e \in sentIds : e.id # id}
        oldest == {e \in sentIds : \A f \in sentIds : e.server <= f.server}
        full == others = sentIds /\ Cardinality(sentIds) >= MaxSentIds
    IN (IF full THEN others \ oldest ELSE others)
         \cup {[id |-> id, server |-> server, fresh |-> TRUE]}

\* The next request of c, for the message m as it now is.  What the mail
\* replies to is resolved just before the draft: a mail this bridge sent goes
\* by the id Tuta gave it, any other id here by none.  (An id the bridge minted
\* for IMAP is resolved by two reads that cannot fail the send: left out.)
Proceed(c, m, next) ==
    /\ mail' = [mail EXCEPT ![c] = IF next = "draft" THEN [m EXCEPT !.previous = Lookup(m.reply)]
                                                   ELSE m]
    /\ step' = [step EXCEPT ![c] = next]
    /\ req' = [req EXCEPT ![c] = "queued"]
    /\ UNCHANGED <<sleep, suspended, throttled, owed>>
    /\ throttles' = 0

\* resolve_sender, one lookup of a mail group at a time.  The address asked
\* for is one of the account's: it is the sender.
ResolveOk(c) ==
    LET m == mail[c] IN
    /\ step[c] = "resolve" /\ req[c] = "flying" /\ m.from = "alias"
    /\ Proceed(c, [m EXCEPT !.sender = m.from], After("resolve", m.attachments))
    /\ UNCHANGED <<smtp, sentIds, tuta, sends, okd>>

RefusedAnyhow(c) ==
    /\ step[c] = "resolve" /\ req[c] = "flying"
    /\ Proceed(c, mail[c], "resolveOwn")
    /\ UNCHANGED <<smtp, sentIds, tuta, sends, okd>>

\* NotFoundError, and no other: the account may not send as that address, and
\* its own is looked up instead.
ResolveRefused(c) ==
    /\ step[c] = "resolve" /\ req[c] = "flying" /\ mail[c].from = "foreign"
    /\ Proceed(c, mail[c], "resolveOwn")
    /\ UNCHANGED <<smtp, sentIds, tuta, sends, okd>>

\* The last lookup: the account's own address, whatever was asked for.
ResolveOwnOk(c) ==
    LET m == mail[c] IN
    /\ step[c] = "resolveOwn" /\ req[c] = "flying"
    /\ Proceed(c, [m EXCEPT !.sender = "own"], After("resolveOwn", m.attachments))
    /\ UNCHANGED <<smtp, sentIds, tuta, sends, okd>>

UploadOk(c) ==
    /\ step[c] \in {"upload", "keys"} /\ req[c] = "flying"
    /\ Proceed(c, mail[c], After(step[c], TRUE))
    /\ UNCHANGED <<smtp, sentIds, tuta, sends, okd>>

\* Tuta creates the draft, whether or not its answer arrives.
Drafted(c) == drafts' = drafts \cup {mail[c].attempt}

DraftOk(c) ==
    /\ step[c] = "draft" /\ req[c] = "flying"
    /\ Drafted(c)
    /\ Proceed(c, [mail[c] EXCEPT !.draft = TRUE], After("draft", mail[c].attachments))
    /\ UNCHANGED <<smtp, sentIds, delivered, lost, sends, okd>>

\* Tuta sends the draft and gives the mail an id of its own.
ServerId == Cardinality(delivered) + 1
Delivered(c) ==
    /\ delivered' = delivered \cup {[mail[c] EXCEPT !.draft = ServerId]}
    /\ drafts' = drafts \ {mail[c].attempt}

\* The send is over.  A client that is gone finds no answer: writing it fails,
\* or the next read ends the connection.
Over(c) ==
    /\ mail' = [mail EXCEPT ![c] = None]
    /\ step' = [step EXCEPT ![c] = "idle"]
    /\ smtp' = IF smtp[c].gone THEN [smtp EXCEPT ![c] = None] ELSE smtp

SendUnanswered(c) ==
    /\ step[c] = "send" /\ req[c] = "flying"
    /\ Delivered(c)
    /\ sentIds' = Remembered(mail[c].id, ServerId)
    /\ AnswerOk(c)
    /\ Over(c)
    /\ UNCHANGED <<lost, sends, okd>>

\* 250, to the client that still reads: the answer came, and the id Tuta gave
\* is remembered.
SendOk(c) ==
    /\ step[c] = "send" /\ req[c] = "flying"
    /\ Delivered(c)
    /\ sentIds' = Remembered(mail[c].id, ServerId)
    /\ AnswerOk(c)
    /\ okd' = IF smtp[c].gone THEN okd ELSE okd \cup {mail[c].id}
    /\ Over(c)
    /\ UNCHANGED <<lost, sends>>

ForgottenOk(c) ==
    /\ Over(c)
    /\ okd' = okd \cup {mail[c].id}
    /\ UNCHANGED <<sentIds, sends>>

\* 451: a request failed, was throttled, or its answer was lost after Tuta
\* had done what it asked.  What was done so far is left behind.
Stranded(c) ==
    /\ Over(c)
    /\ UNCHANGED <<sentIds, sends, okd>>

Throttled(c) ==
    /\ sends <= MaxThrottledSends
    /\ \E hint \in ServerDelays \cup {NoHint} : AnswerThrottled(c, hint)

SendFails(c) ==
    /\ step[c] # "idle"
    /\ AnswerFailed(c) \/ Throttled(c)
    /\ Stranded(c)
    /\ UNCHANGED tuta

AnswerLost(c) ==
    /\ step[c] \in {"draft", "send"}
    /\ AnswerFailed(c)
    /\ IF step[c] = "send" THEN Delivered(c) /\ lost' = lost \cup {mail[c].attempt}
       ELSE Drafted(c) /\ UNCHANGED <<delivered, lost>>
    /\ Stranded(c)

\* An entry of the cache grows older than SENT_ID_CACHE_TTL.
Expire(e) ==
    /\ e.fresh
    /\ sentIds' = (sentIds \ {e}) \cup {[e EXCEPT !.fresh = FALSE]}
    /\ UNCHANGED <<govVars, smtp, step, mail, tuta, sends, okd>>

-----------------------------------------------------------------------------
Requests(c) ==
    \/ ResolveOk(c) \/ ResolveRefused(c) \/ ResolveOwnOk(c)
    \/ UploadOk(c) \/ DraftOk(c) \/ SendOk(c)
    \/ SendFails(c) \/ AnswerLost(c)

Waiting(c) == (Acquire(c) \/ WaitOut(c)) /\ UNCHANGED <<sub, tuta, sends, okd>>

\* A request of the rest of the bridge.
OtherTraffic(c) ==
    /\ \/ req[c] = "none" /\ Ask(c)
       \/ AnswerOk(c) \/ AnswerFailed(c)
       \/ Throttled(c)
    /\ UNCHANGED <<sub, tuta, sends, okd>>

TimePasses == Tick /\ UNCHANGED <<sub, tuta, sends, okd>>

Next ==
    \/ \E c \in Conns :
          \/ Accept(c) \/ Reset(c) \/ MailFrom(c) \/ Data(c) \/ DataLine(c)
          \/ RejectTooLarge(c) \/ Submit(c) \/ Quit(c) \/ LastLine(c) \/ GiveUp(c)
          \/ \E good \in BOOLEAN : AuthInline(c, good) \/ AuthLine(c, good)
          \/ \E wait \in {"plain", "user"} : AuthBegin(c, wait)
          \/ \E a \in Addrs : RcptTo(c, a)
          \/ Requests(c)
    \/ \E c \in Callers : Waiting(c)
    \/ \E c \in Callers \ Conns : OtherTraffic(c)
    \/ TimePasses
    \/ \E e \in sentIds : Expire(e)

SubSpec == Init /\ [][Next]_subVars

-----------------------------------------------------------------------------
(* Properties.                                                             *)

\* The states of the connections, the sends and the governor.
SubTypeOK ==
    /\ GovTypeOK
    /\ \A c \in Conns :
          /\ smtp[c] = None \/
             /\ smtp[c] \in Connection /\ smtp[c].buf <= MaxMessage
             /\ smtp[c].inData => smtp[c].state = "data" /\ smtp[c].authed
          /\ step[c] \in {"idle", "resolve", "resolveOwn", "upload", "draft", "keys", "send"}
          /\ (step[c] = "idle") = (mail[c] = None)
          /\ (step[c] = "idle") = (req[c] = "none")
          /\ step[c] # "idle" => smtp[c] # None
    /\ Cardinality(sentIds) <= MaxSentIds /\ sends \in 0..MaxSends

\* What Tuta sends is the message the client typed, whole and nothing of an
\* earlier one, to every recipient whose RCPT was answered 250.
DeliveredAsSubmitted ==
    \A m \in delivered : m.lines = m.typed /\ m.envelope \subseteq m.to

\* A mail goes out as another address than the one asked for only when the
\* account may not use that one: a lookup that fails in any other way ends the
\* send and is not taken for a refusal (tuta.rs:576, resolve_sender).
NeverMisaddressed ==
    \A m \in delivered : m.sender = IF m.from = "alias" THEN "alias" ELSE "own"

\* A mail goes out twice only when the client was never told how the earlier
\* submission ended: it gave up waiting for the answer, or Tuta's answer to
\* SendDraftService was lost and it read a 451 (smtp/mod.rs:305).  No other
\* failure and no interleaving of connections doubles a mail.
DuplicatesOnlyFromLostAnswers ==
    \A m, n \in delivered :
        m.id = n.id /\ m # n /\ m.attempt <= n.attempt => m.attempt \in lost

\* 250 means Tuta has the mail; and a reply is threaded under a mail that was
\* delivered for the id it names.
AnsweredOkWasSent ==
    /\ \A id \in okd : \E m \in delivered : m.id = id
    /\ \A m \in delivered : m.previous # None =>
          \E n \in delivered : n.draft = m.previous /\ n.id = m.reply
=============================================================================
