-------------------------- MODULE SubmissionProofs --------------------------
(***************************************************************************)
(* Theorems about Submission and the Governor it extends, for every number *)
(* of connections and callers, and every permit, delay, cache and message  *)
(* limit.                                                                  *)
(***************************************************************************)
EXTENDS Submission, FiniteSetTheorems, TLAPS

(* The governor: what is owed is never more than what is suspended. *)
GovInv ==
    /\ req \in [Callers -> {"none", "queued", "waiting", "sleeping", "flying"}]
    /\ suspended \in Nat /\ throttles \in Nat /\ owed \in Nat
    /\ owed <= suspended

(* The maximum the backoff takes of two delays. *)
LEMMA MaxPair == ASSUME NEW a \in Int, NEW b \in Int
                 PROVE  Max({a, b}) = IF a >= b THEN a ELSE b
BY DEF Max

(* The minimum the backoff takes of two delays. *)
LEMMA MinPair == ASSUME NEW a \in Int, NEW b \in Int
                 PROVE  Min({a, b}) = IF a <= b THEN a ELSE b
BY DEF Min

(* Whatever the server suggests, the pause taken is a number. *)
LEMMA BackoffIsInt ==
    ASSUME NEW hint \in ServerDelays \union {NoHint}, throttles \in Nat
    PROVE  BackoffFor(hint) \in Int
<1> USE GovernorConstants
<1>1. CASE hint # NoHint
  <2>1. hint \in Int /\ MaxServerBackoff \in Int /\ BackoffBase \in Int
    BY <1>1
  <2>2. Min({hint, MaxServerBackoff}) \in Int
    BY <2>1, MinPair
  <2> QED BY <1>1, <2>1, <2>2, MaxPair DEF BackoffFor
<1>2. CASE hint = NoHint
  <2>1. Min({throttles, 5}) \in Nat
    BY MinPair
  <2>2. 2 ^ Min({throttles, 5}) \in Int
    BY <2>1
  <2>3. BackoffBase * 2 ^ Min({throttles, 5}) \in Int
    BY <2>2
  <2> QED BY <1>2, <2>3, MinPair DEF BackoffFor
<1> QED BY <1>1, <1>2

(* Every step is one that makes no request fly and leaves the pauses as they *)
(* are, or the end of a wait, a throttled answer, or a tick.                 *)
NoLaunch ==
    /\ UNCHANGED <<suspended, owed>> /\ throttles' \in {throttles, 0}
    /\ req' \in [Callers -> {"none", "queued", "waiting", "sleeping", "flying"}]
    /\ \A c \in Callers : req'[c] = "flying" => req[c] = "flying"

GovStep ==
    \/ NoLaunch
    \/ \E c \in Callers : WaitOut(c)
    \/ \E c \in Callers, hint \in ServerDelays \union {NoHint} : AnswerThrottled(c, hint)
    \/ Tick

(* A mail step is, to the governor, one of its own four kinds of step. *)
LEMMA NextIsGovStep == GovInv /\ [Next]_subVars => GovStep
<1> SUFFICES ASSUME GovInv, [Next]_subVars PROVE GovStep
  OBVIOUS
<1>1. CASE UNCHANGED govVars
  BY <1>1 DEF govVars, GovInv, GovStep, NoLaunch
<1>2. ASSUME NEW c \in Callers, Ask(c) \/ Acquire(c) PROVE GovStep
  BY <1>2 DEF Ask, Acquire, GovInv, GovStep, NoLaunch
<1>3. ASSUME NEW c \in Callers, AnswerOk(c) \/ AnswerFailed(c) PROVE GovStep
  BY <1>3 DEF AnswerOk, AnswerFailed, Release, GovInv, GovStep, NoLaunch
<1>4. ASSUME NEW c \in Callers, req' = [req EXCEPT ![c] = "queued"], throttles' = 0,
             UNCHANGED <<suspended, owed>>
      PROVE  GovStep
  BY <1>4 DEF GovInv, GovStep, NoLaunch
<1>5. ASSUME NEW c \in Conns,
             ResolveOk(c) \/ ResolveRefused(c) \/ ResolveOwnOk(c) \/ UploadOk(c) \/ DraftOk(c)
      PROVE  GovStep
  <2>1. \E m, next : Proceed(c, m, next)
    BY <1>5 DEF ResolveOk, ResolveRefused, ResolveOwnOk, UploadOk, DraftOk
  <2>2. c \in Callers
    BY SubmissionConstants
  <2> QED BY <1>4, <2>1, <2>2 DEF Proceed
<1>6. ASSUME NEW c \in Conns, SendOk(c) \/ SendFails(c) \/ AnswerLost(c) \/ Submit(c) PROVE GovStep
  <2>1. c \in Callers
    BY SubmissionConstants
  <2>2. CASE SendOk(c)
    BY <1>3, <2>1, <2>2 DEF SendOk
  <2>3. CASE SendFails(c)
    BY <1>3, <2>1, <2>3 DEF SendFails, Throttled, GovStep
  <2>4. CASE AnswerLost(c)
    BY <1>3, <2>1, <2>4 DEF AnswerLost
  <2>5. CASE Submit(c)
    BY <1>2, <2>1, <2>5 DEF Submit
  <2> QED BY <1>6, <2>2, <2>3, <2>4, <2>5
<1>7. ASSUME NEW c \in Callers, Waiting(c) PROVE GovStep
  BY <1>2, <1>7 DEF Waiting, GovStep
<1>8. ASSUME NEW c \in Callers, OtherTraffic(c) PROVE GovStep
  BY <1>2, <1>3, <1>8 DEF OtherTraffic, Throttled, GovStep
<1>9. CASE TimePasses
  BY <1>9 DEF TimePasses, GovStep
<1>10. ASSUME NEW e \in sentIds, Expire(e) PROVE GovStep
  BY <1>1, <1>10 DEF Expire
<1>11. ASSUME NEW c \in Conns,
              \/ Accept(c) \/ Reset(c) \/ MailFrom(c) \/ Data(c) \/ DataLine(c)
              \/ RejectTooLarge(c) \/ Quit(c) \/ LastLine(c)
              \/ \E good \in BOOLEAN : AuthInline(c, good) \/ AuthLine(c, good)
              \/ \E wait \in {"plain", "user"} : AuthBegin(c, wait)
              \/ \E a \in Addrs : RcptTo(c, a)
       PROVE  GovStep
  <2>1. OnlySmtp
    BY <1>11
    DEF Accept, Reset, MailFrom, Data, DataLine, RejectTooLarge, Quit, LastLine,
       AuthInline, AuthLine, AuthBegin, RcptTo
  <2> QED BY <1>1, <2>1 DEF OnlySmtp
<1>12. CASE UNCHANGED subVars
  BY <1>1, <1>12 DEF subVars
<1>13. ASSUME NEW c \in Conns, GiveUp(c) PROVE GovStep
  BY <1>1, <1>13 DEF GiveUp
<1> QED
  BY <1>5, <1>6, <1>7, <1>8, <1>9, <1>10, <1>11, <1>12, <1>13 DEF Next, Requests

(* Every step keeps the debt within the suspension. *)
LEMMA GovStepInv == GovInv /\ [Next]_subVars => GovInv'
<1> SUFFICES ASSUME GovInv, [Next]_subVars PROVE GovInv'
  OBVIOUS
<1>1. CASE NoLaunch
  BY <1>1 DEF NoLaunch, GovInv
<1>2. ASSUME NEW c \in Callers, WaitOut(c) PROVE GovInv'
  BY <1>2 DEF WaitOut, GovInv
<1>3. ASSUME NEW c \in Callers, NEW hint \in ServerDelays \union {NoHint}, AnswerThrottled(c, hint)
      PROVE  GovInv'
  <2>1. PICK b \in Int : b = BackoffFor(hint)
    BY BackoffIsInt DEF GovInv
  <2>2. suspended' = Max({suspended, b}) /\ owed' = Max({owed, b})
    BY <1>3, <2>1 DEF AnswerThrottled, SuspendFor
  <2>3. /\ suspended' = (IF suspended >= b THEN suspended ELSE b)
        /\ owed' = (IF owed >= b THEN owed ELSE b)
    BY <2>1, <2>2, MaxPair DEF GovInv
  <2>4. throttles' \in Nat
    BY <1>3 DEF AnswerThrottled, GovInv
  <2>5. req' \in [Callers -> {"none", "queued", "waiting", "sleeping", "flying"}]
    BY <1>3 DEF AnswerThrottled, Release, GovInv
  <2> QED BY <2>1, <2>3, <2>4, <2>5 DEF GovInv
<1>4. CASE Tick
  BY <1>4 DEF Tick, Less, GovInv
<1> QED BY <1>1, <1>2, <1>3, <1>4, NextIsGovStep DEF GovStep

(* The inductive invariant of the governor. *)
LEMMA GovInvariant == SubSpec => []GovInv
<1>1. Init => GovInv
  BY DEF Init, GovInit, GovInv
<1> QED BY <1>1, GovStepInv, PTL DEF SubSpec

(* No request of any caller goes out before every pause an earlier answer  *)
(* asked for is over: for any number of permits, delays and overlapping    *)
(* throttled answers, what is owed never exceeds the one suspension that   *)
(* wait_out_suspension reads (governed_client.rs).                         *)
THEOREM PausesAreHonoured == SubSpec => SuspensionHonoured
<1> DEFINE Honoured == \A c \in Callers : req[c] # "flying" /\ req'[c] = "flying" => owed = 0
<1>1. GovInv /\ [Next]_subVars => [Honoured]_govVars
  <2> SUFFICES ASSUME GovInv, [Next]_subVars PROVE Honoured
    OBVIOUS
  <2>1. CASE NoLaunch
    BY <2>1 DEF NoLaunch
  <2>2. ASSUME NEW d \in Callers, WaitOut(d) PROVE Honoured
    <3>1. CASE suspended > 0
      BY <2>2, <3>1 DEF WaitOut, GovInv
    <3>2. CASE ~(suspended > 0)
      BY <3>2 DEF GovInv
    <3> QED BY <3>1, <3>2
  <2>3. ASSUME NEW d \in Callers, NEW hint \in ServerDelays \union {NoHint}, AnswerThrottled(d, hint)
        PROVE  Honoured
    BY <2>3 DEF AnswerThrottled, Release, GovInv
  <2>4. CASE Tick
    BY <2>4 DEF Tick
  <2> QED BY <2>1, <2>2, <2>3, <2>4, NextIsGovStep DEF GovStep
<1> QED BY <1>1, GovInvariant, PTL DEF SubSpec, SuspensionHonoured
-----------------------------------------------------------------------------
(* The dialogue: what is kept of a message is what was typed, unless it is *)
(* too large.                                                              *)
Dialogue == {s \in Connection : ~s.tooLarge => s.buf = s.typed}

Steps == {"idle", "resolve", "resolveOwn", "upload", "draft", "keys", "send"}

SmtpInv ==
    /\ smtp \in [Conns -> {None} \union Dialogue] /\ step \in [Conns -> Steps]
    /\ sends \in Nat
    /\ \A c \in Conns : step[c] # "idle" => smtp[c] # None

(* A connection is told from no connection. *)
LEMMA NoneIsNoDialogue == None \notin Dialogue
BY SubmissionConstants DEF Dialogue, Connection

(* RSET leaves an empty buffer and nothing typed. *)
LEMMA FreshDialogue ==
    ASSUME NEW c \in Conns, smtp[c] \in Dialogue
    PROVE  Fresh(c) \in Dialogue
BY DEF Fresh, Greeted, Dialogue, Connection

(* A line that is kept, and the one that is too much. *)
LEMMA OverTheCap ==
    ASSUME NEW s \in Dialogue
    PROVE  [s EXCEPT !.tooLarge = TRUE, !.buf = 0, !.typed = @ + 1] \in Dialogue
<1> DEFINE k == s.typed + 1
<1>1. k \in Nat
  BY DEF Dialogue, Connection
<1> HIDE DEF k
<1>2. [s EXCEPT !.tooLarge = TRUE, !.buf = 0, !.typed = k] \in Dialogue
  BY <1>1 DEF Dialogue, Connection
<1> QED BY <1>2 DEF k

(* A line below the limit is kept in the buffer. *)
LEMMA LineKept ==
    ASSUME NEW s \in Dialogue, ~s.tooLarge
    PROVE  [s EXCEPT !.buf = @ + 1, !.typed = @ + 1] \in Dialogue
<1> DEFINE k == s.typed + 1
<1>1. k \in Nat /\ s.buf + 1 = k
  BY DEF Dialogue, Connection
<1> HIDE DEF k
<1>2. [s EXCEPT !.buf = k, !.typed = k] \in Dialogue
  BY <1>1 DEF Dialogue, Connection
<1> QED BY <1>1, <1>2 DEF k

(* Every step keeps the buffer in step with what was typed. *)
LEMMA SmtpStepInv == SmtpInv /\ [Next]_subVars => SmtpInv'
<1> SUFFICES ASSUME SmtpInv, [Next]_subVars PROVE SmtpInv'
  OBVIOUS
<1>n. sends' \in Nat
  <2>1. ASSUME NEW c \in Conns, Submit(c) PROVE sends' \in Nat
    BY <2>1 DEF Submit, SmtpInv
  <2>2. CASE UNCHANGED sends
    BY <2>2 DEF SmtpInv
  <2>3. CASE ~\E c \in Conns : Submit(c)
    <3>1. UNCHANGED sends
      BY <2>3
      DEF Next, Requests, Accept, Reset, MailFrom, Data, DataLine, RejectTooLarge, Quit, LastLine,
          GiveUp, AuthInline, AuthLine, AuthBegin, RcptTo, OnlySmtp, ResolveOk, ResolveRefused,
          ResolveOwnOk, UploadOk, DraftOk, SendOk, SendFails, AnswerLost, Stranded, Waiting,
          OtherTraffic, TimePasses, Expire, subVars
    <3> QED BY <2>2, <3>1
  <2> QED BY <2>1, <2>3
<1>s. ASSUME NEW c \in Conns, NEW s \in {None} \union Dialogue, Set(c, s), NEW t \in Steps,
             step' = [step EXCEPT ![c] = t], t = "idle" \/ s # None
      PROVE  SmtpInv'
  <2>1. /\ smtp'[c] = s /\ step'[c] = t
        /\ \A d \in Conns : d # c => smtp'[d] = smtp[d] /\ step'[d] = step[d]
    BY <1>s DEF SmtpInv, Set
  <2>2. smtp' \in [Conns -> {None} \union Dialogue] /\ step' \in [Conns -> Steps]
    BY <1>s DEF SmtpInv, Set
  <2> QED BY <1>n, <1>s, <2>1, <2>2 DEF SmtpInv
<1>t. ASSUME NEW c \in Conns, step[c] = "idle", NEW s \in {None} \union Dialogue, Set(c, s),
             UNCHANGED step
      PROVE  SmtpInv'
  <2>1. step' = [step EXCEPT ![c] = "idle"]
    BY <1>t DEF SmtpInv
  <2> QED BY <1>s, <1>t, <2>1 DEF Steps
<1>d. ASSUME NEW c \in Conns, smtp[c] # None PROVE smtp[c] \in Dialogue
  BY <1>d DEF SmtpInv
<1>1. ASSUME NEW c \in Conns, Accept(c) PROVE SmtpInv'
  <2>1. [Greeted("none", ~PasswordSet) EXCEPT !.state = "init"] \in Dialogue
    BY SubmissionConstants DEF Greeted, Dialogue, Connection
  <2> QED BY <1>t, <1>1, <2>1 DEF Accept, OnlySmtp
<1>2. ASSUME NEW c \in Conns, Reset(c) \/ RejectTooLarge(c) PROVE SmtpInv'
  <2>1. Set(c, Fresh(c)) /\ smtp[c] # None /\ step[c] = "idle" /\ UNCHANGED step
    BY <1>2 DEF Reset, RejectTooLarge, Command, Talking, OnlySmtp
  <2> QED BY <1>t, <1>d, <2>1, FreshDialogue
<1>14. ASSUME NEW c \in Conns, Submit(c) PROVE SmtpInv'
  <2>1. Set(c, Fresh(c)) /\ smtp[c] # None
    BY <1>14 DEF Submit, Talking
  <2>2. PICK t \in Steps : step' = [step EXCEPT ![c] = t]
    BY <1>14 DEF Submit, Steps
  <2>3. Fresh(c) \in Dialogue /\ None \notin Dialogue
    BY <1>d, <2>1, FreshDialogue, NoneIsNoDialogue
  <2> QED BY <1>s, <2>1, <2>2, <2>3
<1>3. ASSUME NEW c \in Conns, NEW good \in BOOLEAN, AuthInline(c, good) \/ AuthLine(c, good)
      PROVE  SmtpInv'
  <2>1. smtp[c] \in Dialogue /\ step[c] = "idle" /\ UNCHANGED step
    BY <1>d, <1>3 DEF AuthInline, AuthLine, Command, Talking, OnlySmtp
  <2>2. /\ [smtp[c] EXCEPT !.authed = @ \/ good] \in Dialogue
        /\ [smtp[c] EXCEPT !.auth = "pass"] \in Dialogue
        /\ [smtp[c] EXCEPT !.auth = "none", !.authed = @ \/ good] \in Dialogue
    BY <2>1 DEF Dialogue, Connection
  <2> QED BY <1>t, <1>3, <2>1, <2>2 DEF AuthInline, AuthLine
<1>4. ASSUME NEW c \in Conns, NEW wait \in {"plain", "user"}, AuthBegin(c, wait) PROVE SmtpInv'
  <2>1. smtp[c] \in Dialogue /\ step[c] = "idle" /\ UNCHANGED step
    BY <1>d, <1>4 DEF AuthBegin, Command, Talking, OnlySmtp
  <2>2. [smtp[c] EXCEPT !.auth = wait] \in Dialogue
    BY <2>1 DEF Dialogue, Connection
  <2> QED BY <1>t, <1>4, <2>1, <2>2 DEF AuthBegin
<1>5. ASSUME NEW c \in Conns, MailFrom(c) PROVE SmtpInv'
  <2>1. smtp[c] \in Dialogue /\ step[c] = "idle" /\ UNCHANGED step
    BY <1>d, <1>5 DEF MailFrom, Command, Talking, OnlySmtp
  <2>2. [smtp[c] EXCEPT !.state = "mail", !.to = {}] \in Dialogue
    BY <2>1 DEF Dialogue, Connection
  <2> QED BY <1>t, <1>5, <2>1, <2>2 DEF MailFrom
<1>6. ASSUME NEW c \in Conns, NEW a \in Addrs, RcptTo(c, a) PROVE SmtpInv'
  <2>1. smtp[c] \in Dialogue /\ step[c] = "idle" /\ UNCHANGED step
    BY <1>d, <1>6 DEF RcptTo, Command, Talking, OnlySmtp
  <2>2. [smtp[c] EXCEPT !.state = "rcpt", !.to = @ \cup {a}] \in Dialogue
    BY <2>1 DEF Dialogue, Connection
  <2> QED BY <1>t, <1>6, <2>1, <2>2 DEF RcptTo
<1>7. ASSUME NEW c \in Conns, Data(c) PROVE SmtpInv'
  <2>1. smtp[c] \in Dialogue /\ step[c] = "idle" /\ UNCHANGED step
    BY <1>d, <1>7 DEF Data, Command, Talking, OnlySmtp
  <2>2. [smtp[c] EXCEPT !.state = "data", !.inData = TRUE] \in Dialogue
    BY <2>1 DEF Dialogue, Connection
  <2> QED BY <1>t, <1>7, <2>1, <2>2 DEF Data
<1>8. ASSUME NEW c \in Conns, DataLine(c) PROVE SmtpInv'
  <2>1. smtp[c] \in Dialogue /\ step[c] = "idle" /\ UNCHANGED step
    BY <1>d, <1>8 DEF DataLine, Talking, OnlySmtp
  <2>2. smtp[c].tooLarge => [smtp[c] EXCEPT !.typed = @ + 1] \in Dialogue
    BY <2>1 DEF Dialogue, Connection
  <2>3. [smtp[c] EXCEPT !.tooLarge = TRUE, !.buf = 0, !.typed = @ + 1] \in Dialogue
    BY <2>1, OverTheCap
  <2>4. ~smtp[c].tooLarge => [smtp[c] EXCEPT !.buf = @ + 1, !.typed = @ + 1] \in Dialogue
    BY <2>1, LineKept
  <2> QED BY <1>t, <1>8, <2>1, <2>2, <2>3, <2>4 DEF DataLine
<1>9. ASSUME NEW c \in Conns, Quit(c) \/ LastLine(c) PROVE SmtpInv'
  BY <1>t, <1>9 DEF Quit, LastLine, Command, Talking, OnlySmtp
<1>10. CASE UNCHANGED <<smtp, step>>
  BY <1>n, <1>10 DEF SmtpInv
<1>11. ASSUME NEW c \in Conns, GiveUp(c) PROVE SmtpInv'
  <2>1. smtp[c] \in Dialogue /\ step[c] \in Steps
    BY <1>11 DEF GiveUp, SmtpInv
  <2>2. [smtp[c] EXCEPT !.gone = TRUE] \in Dialogue /\ None \notin Dialogue
    BY <2>1, NoneIsNoDialogue DEF Dialogue, Connection
  <2>3. step' = [step EXCEPT ![c] = step[c]]
    BY <1>11 DEF GiveUp, SmtpInv
  <2> QED BY <1>s, <1>11, <2>1, <2>2, <2>3 DEF GiveUp
<1>15. ASSUME NEW c \in Conns, Over(c) PROVE SmtpInv'
  <2>1. smtp' = [smtp EXCEPT ![c] = None] \/ smtp' = [smtp EXCEPT ![c] = smtp[c]]
    BY <1>15 DEF Over, SmtpInv
  <2>2. PICK s \in {None} \union Dialogue : Set(c, s)
    BY <2>1 DEF Set, SmtpInv
  <2> QED BY <1>s, <1>15, <2>2 DEF Over, Steps
<1>16. ASSUME NEW c \in Conns, NEW m, NEW t \in Steps, Proceed(c, m, t), step[c] # "idle",
              UNCHANGED smtp
       PROVE  SmtpInv'
  <2>1. smtp[c] # None /\ Set(c, smtp[c]) /\ smtp[c] \in Dialogue
    BY <1>16 DEF Set, SmtpInv
  <2> QED BY <1>s, <1>16, <2>1 DEF Proceed
<1>17. ASSUME NEW c \in Conns, Requests(c) PROVE SmtpInv'
  <2>1. CASE SendOk(c) \/ SendFails(c) \/ AnswerLost(c)
    BY <1>15, <2>1 DEF SendOk, SendFails, AnswerLost, Stranded
  <2>2. CASE ResolveOk(c) \/ ResolveRefused(c) \/ ResolveOwnOk(c) \/ UploadOk(c) \/ DraftOk(c)
    <3>1. /\ \E m : \E t \in Steps : Proceed(c, m, t)
          /\ step[c] # "idle" /\ UNCHANGED smtp
      BY <2>2 DEF ResolveOk, ResolveRefused, ResolveOwnOk, UploadOk, DraftOk, After, Steps
    <3> QED BY <1>16, <3>1
  <2> QED BY <1>17, <2>1, <2>2 DEF Requests
<1>12. CASE \/ \E c \in Callers : Waiting(c) \/ OtherTraffic(c)
            \/ TimePasses \/ (\E e \in sentIds : Expire(e)) \/ UNCHANGED subVars
  BY <1>10, <1>12 DEF Waiting, OtherTraffic, TimePasses, Expire, subVars, sub
<1> QED
  BY <1>1, <1>2, <1>3, <1>4, <1>5, <1>6, <1>7, <1>8, <1>9, <1>11, <1>12, <1>14, <1>17 DEF Next
-----------------------------------------------------------------------------
(* A delivery that a reply to id under the server's id s may be threaded to. *)
Known(s, id) == \E n \in delivered : n.draft = s /\ n.id = id

SenderOf(m) == IF m.from = "alias" THEN "alias" ELSE "own"

SendTypes ==
    /\ step \in [Conns -> Steps]
    /\ mail \in [Conns -> {None} \union Message]
    /\ IsFiniteSet(delivered) /\ okd \subseteq MailIds
    /\ sentIds \subseteq [id : MailIds, server : Nat, fresh : BOOLEAN]

(* Where the lookup of the sender stands, and what came of it. *)
Resolved(t, m) ==
    /\ t = "resolve" => m.from # "own"
    /\ t = "resolveOwn" => m.from # "alias"
    /\ t \in {"upload", "draft", "keys", "send"} => m.sender = SenderOf(m)

(* A message being sent is whole, goes to its whole envelope, and from its  *)
(* sender once that is resolved.                                            *)
InHand(c) ==
    step[c] # "idle" =>
        /\ mail[c] \in Message
        /\ mail[c].lines = mail[c].typed /\ mail[c].envelope \subseteq mail[c].to
        /\ Resolved(step[c], mail[c])
        /\ mail[c].previous # None => Known(mail[c].previous, mail[c].reply)

CacheInv == \A e \in sentIds : Known(e.server, e.id)

SendInv ==
    /\ SendTypes /\ (\A c \in Conns : InHand(c)) /\ CacheInv
    /\ DeliveredAsSubmitted /\ NeverMisaddressed /\ AnsweredOkWasSent

(* Nothing is sent, cached or in hand at the start. *)
LEMMA SendInitInv == Init => SmtpInv /\ SendInv
<1> SUFFICES ASSUME Init PROVE SmtpInv /\ SendInv
  OBVIOUS
<1> USE DEF Init
<1>1. SmtpInv
  BY DEF SmtpInv, Steps
<1>2. SendTypes
  BY FS_EmptySet DEF SendTypes, Steps
<1>3. \A c \in Conns : InHand(c)
  BY DEF InHand
<1>4. CacheInv
  BY DEF CacheInv
<1>5. DeliveredAsSubmitted /\ NeverMisaddressed /\ AnsweredOkWasSent
  BY DEF DeliveredAsSubmitted, NeverMisaddressed, AnsweredOkWasSent
<1> QED BY <1>1, <1>2, <1>3, <1>4, <1>5 DEF SendInv

(* Steps that touch no send. *)
LEMMA SendKept == SendInv /\ UNCHANGED <<step, mail, sentIds, delivered, okd>> => SendInv'
<1> SUFFICES ASSUME SendInv, UNCHANGED <<step, mail, sentIds, delivered, okd>> PROVE SendInv'
  OBVIOUS
<1> USE DEF SendInv
<1>1. SendTypes' /\ CacheInv'
  BY DEF SendTypes, CacheInv, Known
<1>2. \A c \in Conns : InHand(c)'
  BY DEF InHand, Known
<1>3. (DeliveredAsSubmitted /\ NeverMisaddressed /\ AnsweredOkWasSent)'
  BY DEF DeliveredAsSubmitted, NeverMisaddressed, AnsweredOkWasSent
<1> QED BY <1>1, <1>2, <1>3

(* Steps that change only the message of c, or finish it. *)
LEMMA MessageStep ==
    ASSUME NEW c \in Conns, SendInv, NEW m \in {None} \union Message, NEW next \in Steps,
           mail' = [mail EXCEPT ![c] = m], step' = [step EXCEPT ![c] = next],
           UNCHANGED <<sentIds, delivered, okd>>,
           next # "idle" =>
              /\ m \in Message
              /\ m.lines = m.typed /\ m.envelope \subseteq m.to
              /\ Resolved(next, m)
              /\ m.previous # None => Known(m.previous, m.reply)
    PROVE  SendInv'
<1>1. /\ mail'[c] = m /\ step'[c] = next
      /\ \A d \in Conns : d # c => mail'[d] = mail[d] /\ step'[d] = step[d]
  BY DEF SendInv, SendTypes
<1>2. SendTypes'
  BY DEF SendInv, SendTypes
<1>3. \A d \in Conns : InHand(d)'
  BY <1>1 DEF SendInv, InHand, Known, Resolved, SenderOf
<1>4. CacheInv'
  BY DEF SendInv, CacheInv, Known
<1>5. (DeliveredAsSubmitted /\ NeverMisaddressed /\ AnsweredOkWasSent)'
  BY DEF SendInv, DeliveredAsSubmitted, NeverMisaddressed, AnsweredOkWasSent
<1> QED BY <1>2, <1>3, <1>4, <1>5 DEF SendInv

(* An id the cache answers with belongs to a mail that was delivered. *)
LEMMA LookupFinds ==
    ASSUME NEW id, SendInv
    PROVE  Lookup(id) \in Nat \union {None} /\ (Lookup(id) # None => Known(Lookup(id), id))
<1> DEFINE found == {e \in sentIds : e.id = id /\ e.fresh}
<1>1. CASE found = {}
  BY <1>1 DEF Lookup
<1>2. CASE found # {}
  <2>1. (CHOOSE e \in found : TRUE) \in found
    BY <1>2
  <2>2. PICK e \in sentIds : e.id = id /\ Lookup(id) = e.server
    BY <1>2, <2>1 DEF Lookup
  <2> QED BY <2>2 DEF SendInv, SendTypes, CacheInv
<1> QED BY <1>1, <1>2

(* A request of c is answered: the next one is for the message m, with what *)
(* it replies to looked up before the draft.                                *)
LEMMA ProceedStep ==
    ASSUME NEW c \in Conns, SendInv, step[c] # "idle",
           NEW m \in Message, NEW next \in Steps,
           Proceed(c, m, next), UNCHANGED <<sentIds, delivered, okd>>,
           m.lines = mail[c].lines, m.typed = mail[c].typed,
           m.envelope = mail[c].envelope, m.to = mail[c].to, m.reply = mail[c].reply,
           m.previous = mail[c].previous, Resolved(next, m)
    PROVE  SendInv'
<1> DEFINE looked == [m EXCEPT !.previous = Lookup(m.reply)]
           new == IF next = "draft" THEN looked ELSE m
<1>1. mail' = [mail EXCEPT ![c] = new] /\ step' = [step EXCEPT ![c] = next]
  BY DEF Proceed
<1>2. /\ mail[c].lines = mail[c].typed /\ mail[c].envelope \subseteq mail[c].to
      /\ mail[c].previous # None => Known(mail[c].previous, mail[c].reply)
  BY DEF SendInv, InHand
<1>3. PICK k \in Nat \union {None} : k = Lookup(m.reply) /\ (k # None => Known(k, m.reply))
  BY LookupFinds
<1>4. /\ looked \in Message /\ looked.lines = m.lines
      /\ looked.typed = m.typed /\ looked.envelope = m.envelope /\ looked.to = m.to
      /\ looked.reply = m.reply /\ looked.sender = m.sender /\ looked.from = m.from
      /\ looked.previous = k
  BY <1>3 DEF Message
<1> HIDE DEF looked
<1>5. /\ new \in Message /\ new.lines = new.typed
      /\ new.envelope \subseteq new.to
      /\ new.previous # None => Known(new.previous, new.reply)
      /\ Resolved(next, new)
  BY <1>2, <1>3, <1>4 DEF Resolved, SenderOf
<1> HIDE DEF new
<1> QED BY <1>1, <1>5, MessageStep

(* Tuta sends the message of c: one more mail, of the id it was submitted    *)
(* with, under an id of Tuta's own.                                          *)
LEMMA DeliveryFacts ==
    ASSUME NEW c \in Conns, SendInv, step[c] = "send", Delivered(c)
    PROVE  /\ ServerId \in Nat
           /\ delivered \subseteq delivered' /\ IsFiniteSet(delivered')
           /\ \E n \in delivered' :
                 /\ delivered' = delivered \union {n}
                 /\ n.id = mail[c].id /\ n.attempt = mail[c].attempt /\ n.draft = ServerId
                 /\ n.lines = n.typed /\ n.envelope \subseteq n.to
                 /\ n.sender = SenderOf(n)
                 /\ n.previous = mail[c].previous /\ n.reply = mail[c].reply
<1> DEFINE n == [mail[c] EXCEPT !.draft = ServerId]
<1>1. IsFiniteSet(delivered)
  BY DEF SendInv, SendTypes
<1>2. ServerId \in Nat
  BY <1>1, FS_CardinalityType DEF ServerId
<1>3. delivered' = delivered \union {n}
  BY DEF Delivered
<1>4. IsFiniteSet(delivered')
  BY <1>1, <1>3, FS_AddElement
<1>5. /\ mail[c] \in Message
      /\ mail[c].lines = mail[c].typed /\ mail[c].envelope \subseteq mail[c].to
      /\ mail[c].sender = SenderOf(mail[c])
  BY DEF SendInv, InHand, Resolved
<1>6. /\ n.id = mail[c].id /\ n.attempt = mail[c].attempt /\ n.draft = ServerId /\ n.lines = mail[c].lines
      /\ n.typed = mail[c].typed /\ n.envelope = mail[c].envelope /\ n.to = mail[c].to
      /\ n.sender = mail[c].sender /\ n.from = mail[c].from
      /\ n.previous = mail[c].previous /\ n.reply = mail[c].reply
  BY <1>5 DEF Message
<1> HIDE DEF n
<1> QED BY <1>2, <1>3, <1>4, <1>5, <1>6 DEF SenderOf

(* What holds after a delivery, whether or not the client is told. *)
LEMMA DeliveryStep ==
    ASSUME NEW c \in Conns, SendInv, step[c] = "send", Delivered(c), Over(c),
           okd' \in {okd, okd \union {mail[c].id}},
           sentIds' \in {sentIds, Remembered(mail[c].id, ServerId)}
    PROVE  SendInv'
<1>1. PICK n \in delivered' :
          /\ delivered' = delivered \union {n}
          /\ n.id = mail[c].id /\ n.draft = ServerId
          /\ n.lines = n.typed /\ n.envelope \subseteq n.to /\ n.sender = SenderOf(n)
          /\ n.previous = mail[c].previous /\ n.reply = mail[c].reply
  BY DeliveryFacts
<1>2. ServerId \in Nat /\ IsFiniteSet(delivered')
  BY DeliveryFacts
<1>3. /\ mail[c] \in Message /\ mail[c].id \in MailIds
      /\ mail[c].previous # None => Known(mail[c].previous, mail[c].reply)
  BY DEF SendInv, InHand, Message
<1>4. /\ step'[c] = "idle"
      /\ \A d \in Conns : d # c => mail'[d] = mail[d] /\ step'[d] = step[d]
  BY DEF SendInv, SendTypes, Over
<1>5. \A k, id : Known(k, id) => Known(k, id)'
  BY <1>1 DEF Known
<1>6. sentIds' \subseteq sentIds \union {[id |-> mail[c].id, server |-> ServerId, fresh |-> TRUE]}
  BY DEF Remembered
<1>7. SendTypes'
  <2>1. okd' \subseteq MailIds
    BY <1>3 DEF SendInv, SendTypes
  <2>2. [id |-> mail[c].id, server |-> ServerId, fresh |-> TRUE]
          \in [id : MailIds, server : Nat, fresh : BOOLEAN]
    BY <1>2, <1>3
  <2>3. sentIds' \subseteq [id : MailIds, server : Nat, fresh : BOOLEAN]
    BY <1>6, <2>2 DEF SendInv, SendTypes
  <2>4. /\ mail' \in [Conns -> {None} \union Message]
        /\ step' \in [Conns -> Steps]
    BY DEF SendInv, SendTypes, Over, Steps
  <2> QED BY <1>2, <2>1, <2>3, <2>4 DEF SendTypes
<1>8. ASSUME NEW d \in Conns PROVE InHand(d)'
  <2>1. CASE d = c
    BY <1>4, <2>1 DEF InHand
  <2>2. CASE d # c
    <3>1. SUFFICES ASSUME step[d] # "idle" PROVE InHand(d)'
      BY <1>4, <2>2 DEF InHand
    <3>2. mail[d].previous # None => Known(mail[d].previous, mail[d].reply)'
      <4>1. PICK k, r : k = mail[d].previous /\ r = mail[d].reply
        OBVIOUS
      <4>2. mail'[d].previous = k /\ mail'[d].reply = r
        BY <1>4, <2>2, <4>1
      <4>3. k # None => Known(k, r)
        BY <3>1, <4>1 DEF SendInv, InHand
      <4> QED BY <1>5, <4>1, <4>2, <4>3 DEF Known
    <3> QED BY <1>4, <2>2, <3>1, <3>2 DEF SendInv, InHand, Resolved, SenderOf, Known
  <2> QED BY <2>1, <2>2
<1>9. CacheInv'
  <2>1. ASSUME NEW e \in sentIds' PROVE Known(e.server, e.id)'
    <3>1. CASE e \in sentIds
      BY <1>5, <3>1 DEF SendInv, CacheInv
    <3>2. CASE e = [id |-> mail[c].id, server |-> ServerId, fresh |-> TRUE]
      <4>1. n.draft = e.server /\ n.id = e.id
        BY <1>1, <3>2
      <4> QED BY <4>1 DEF Known
    <3> QED BY <1>6, <3>1, <3>2
  <2> QED BY <2>1 DEF CacheInv
<1>10. (DeliveredAsSubmitted /\ NeverMisaddressed)'
  BY <1>1 DEF SendInv, DeliveredAsSubmitted, NeverMisaddressed, SenderOf
<1>11. AnsweredOkWasSent'
  <2>1. \A id \in okd' : \E m \in delivered' : m.id = id
    BY <1>1 DEF SendInv, AnsweredOkWasSent
  <2>2. ASSUME NEW m \in delivered', m.previous # None
        PROVE  \E k \in delivered' : k.draft = m.previous /\ k.id = m.reply
    <3>1. CASE m \in delivered
      BY <1>1, <2>2, <3>1 DEF SendInv, AnsweredOkWasSent
    <3>2. CASE m = n
      BY <1>1, <1>3, <2>2, <3>2 DEF Known
    <3> QED BY <1>1, <3>1, <3>2
  <2> QED BY <2>1, <2>2 DEF AnsweredOkWasSent
<1> QED BY <1>7, <1>8, <1>9, <1>10, <1>11 DEF SendInv

(* Every step keeps the invariant of the sends. *)
LEMMA SendStepInv == SmtpInv /\ SendInv /\ [Next]_subVars => SendInv'
<1> SUFFICES ASSUME SmtpInv, SendInv, [Next]_subVars PROVE SendInv'
  OBVIOUS
<1>1. ASSUME NEW c \in Conns, Submit(c) PROVE SendInv'
  <2>1. smtp[c] \in Dialogue /\ ~smtp[c].tooLarge /\ step[c] = "idle"
    BY <1>1 DEF Submit, Talking, SmtpInv
  <2>2. PICK id \in MailIds, reply \in MailIds \cup {None}, kind \in Kinds,
             headers \in SUBSET Addrs :
          /\ mail' = [mail EXCEPT ![c] =
               [id |-> id, attempt |-> sends + 1, reply |-> reply, from |-> kind.from,
                attachments |-> kind.attachments,
                lines |-> smtp[c].buf, to |-> Recipients(headers, smtp[c].to),
                typed |-> smtp[c].typed, envelope |-> smtp[c].to,
                sender |-> None, previous |-> None, draft |-> FALSE]]
          /\ step' = [step EXCEPT ![c] = IF kind.from = "own" THEN "resolveOwn" ELSE "resolve"]
    BY <1>1 DEF Submit
  <2>3. PICK to \in SUBSET Addrs, env \in SUBSET Addrs, n \in Nat, k \in Nat :
          /\ to = Recipients(headers, smtp[c].to) /\ env = smtp[c].to
          /\ n = smtp[c].buf /\ n = smtp[c].typed /\ env \subseteq to /\ k = sends + 1
    <3>1. sends + 1 \in Nat
      BY DEF SmtpInv
    <3> QED BY <2>1, <3>1 DEF Dialogue, Connection, Recipients
  <2>4. PICK from \in {"own", "alias", "foreign"}, attachments \in BOOLEAN :
          from = kind.from /\ attachments = kind.attachments
    BY SubmissionConstants
  <2> DEFINE m == [id |-> id, attempt |-> k, reply |-> reply, from |-> from,
                   attachments |-> attachments,
                   lines |-> n, to |-> to, typed |-> n, envelope |-> env,
                   sender |-> None, previous |-> None, draft |-> FALSE]
             t == IF from = "own" THEN "resolveOwn" ELSE "resolve"
  <2>5. m \in Message /\ t \in Steps /\ Resolved(t, m)
    BY DEF Message, Steps, Resolved
  <2>6. mail' = [mail EXCEPT ![c] = m] /\ step' = [step EXCEPT ![c] = t]
    BY <2>2, <2>3, <2>4
  <2>7. UNCHANGED <<sentIds, delivered, okd>>
    BY <1>1 DEF Submit, tuta
  <2>8. m.lines = m.typed /\ m.envelope \subseteq m.to /\ m.previous = None
    BY <2>3
  <2> HIDE DEF m, t
  <2> QED BY <2>5, <2>6, <2>7, <2>8, MessageStep
<1>2. ASSUME NEW c \in Conns, ResolveOk(c) \/ ResolveOwnOk(c) PROVE SendInv'
  <2>1. /\ step[c] \in {"resolve", "resolveOwn"} /\ mail[c] \in Message
        /\ Resolved(step[c], mail[c]) /\ UNCHANGED <<sentIds, delivered, okd>>
    BY <1>2 DEF ResolveOk, ResolveOwnOk, SendInv, InHand, tuta
  <2>2. PICK sender \in {"own", "alias"}, next \in {"upload", "draft"} :
          /\ Proceed(c, [mail[c] EXCEPT !.sender = sender], next)
          /\ sender = SenderOf(mail[c])
    <3>1. CASE ResolveOk(c)
      BY <3>1 DEF ResolveOk, After, SenderOf
    <3>2. CASE ResolveOwnOk(c)
      BY <2>1, <3>2 DEF ResolveOwnOk, After, SenderOf, Resolved
    <3> QED BY <1>2, <3>1, <3>2
  <2> DEFINE m == [mail[c] EXCEPT !.sender = sender]
  <2>3. /\ m \in Message /\ m.lines = mail[c].lines
        /\ m.typed = mail[c].typed /\ m.envelope = mail[c].envelope /\ m.to = mail[c].to
        /\ m.reply = mail[c].reply /\ m.previous = mail[c].previous
        /\ m.from = mail[c].from /\ m.sender = sender
    BY <2>1 DEF Message
  <2>4. Proceed(c, m, next)
    BY <2>2
  <2> HIDE DEF m
  <2>5. Resolved(next, m) /\ next \in Steps
    BY <2>2, <2>3 DEF Resolved, SenderOf, Steps
  <2> QED BY <2>1, <2>3, <2>4, <2>5, ProceedStep
<1>3. ASSUME NEW c \in Conns, ResolveRefused(c) PROVE SendInv'
  <2>1. /\ step[c] = "resolve" /\ mail[c] \in Message /\ UNCHANGED <<sentIds, delivered, okd>>
        /\ Proceed(c, mail[c], "resolveOwn") /\ Resolved("resolveOwn", mail[c])
    BY <1>3 DEF ResolveRefused, SendInv, InHand, tuta, Resolved
  <2> QED BY <2>1, ProceedStep DEF Steps
<1>4. ASSUME NEW c \in Conns, UploadOk(c) PROVE SendInv'
  <2>1. /\ step[c] \in {"upload", "keys"} /\ mail[c] \in Message
        /\ mail[c].sender = SenderOf(mail[c])
        /\ UNCHANGED <<sentIds, delivered, okd>>
    BY <1>4 DEF UploadOk, SendInv, InHand, Resolved, tuta
  <2>2. PICK next \in {"draft", "send"} : Proceed(c, mail[c], next)
    BY <1>4, <2>1 DEF UploadOk, After
  <2>3. Resolved(next, mail[c]) /\ next \in Steps
    BY <2>1 DEF Resolved, Steps
  <2> QED BY <2>1, <2>2, <2>3, ProceedStep
<1>5. ASSUME NEW c \in Conns, DraftOk(c) PROVE SendInv'
  <2>1. /\ step[c] = "draft" /\ mail[c] \in Message /\ mail[c].sender = SenderOf(mail[c])
        /\ UNCHANGED <<sentIds, delivered, okd>>
    BY <1>5 DEF DraftOk, SendInv, InHand, Resolved
  <2> DEFINE m == [mail[c] EXCEPT !.draft = TRUE]
  <2>2. PICK next \in {"keys", "send"} : Proceed(c, m, next)
    BY <1>5 DEF DraftOk, After
  <2>3. /\ m \in Message /\ m.lines = mail[c].lines
        /\ m.typed = mail[c].typed /\ m.envelope = mail[c].envelope /\ m.to = mail[c].to
        /\ m.reply = mail[c].reply /\ m.previous = mail[c].previous
        /\ Resolved(next, m)
    BY <2>1 DEF Message, Resolved, SenderOf
  <2> HIDE DEF m
  <2> QED BY <2>1, <2>2, <2>3, ProceedStep DEF Steps
<1>6. ASSUME NEW c \in Conns, SendOk(c) PROVE SendInv'
  BY <1>6, DeliveryStep DEF SendOk
<1>7. ASSUME NEW c \in Conns, Stranded(c), UNCHANGED delivered PROVE SendInv'
  BY <1>7, MessageStep DEF Stranded, Over, Steps
<1>8. ASSUME NEW c \in Conns, SendFails(c) PROVE SendInv'
  BY <1>7, <1>8 DEF SendFails, tuta
<1>9. ASSUME NEW c \in Conns, AnswerLost(c) PROVE SendInv'
  <2>1. CASE step[c] = "send"
    BY <1>9, <2>1, DeliveryStep DEF AnswerLost, Stranded
  <2>2. CASE step[c] # "send"
    BY <1>7, <1>9, <2>2 DEF AnswerLost
  <2> QED BY <2>1, <2>2
<1>10. ASSUME NEW e \in sentIds, Expire(e) PROVE SendInv'
  <2>1. /\ sentIds' = (sentIds \ {e}) \union {[e EXCEPT !.fresh = FALSE]}
        /\ UNCHANGED <<step, mail, delivered, okd>>
    BY <1>10 DEF Expire, tuta
  <2>2. e \in [id : MailIds, server : Nat, fresh : BOOLEAN]
    BY DEF SendInv, SendTypes
  <2> DEFINE f == [e EXCEPT !.fresh = FALSE]
  <2>3. /\ f \in [id : MailIds, server : Nat, fresh : BOOLEAN]
        /\ f.id = e.id /\ f.server = e.server
        /\ sentIds' = (sentIds \ {e}) \union {f}
    BY <2>1, <2>2
  <2> HIDE DEF f
  <2>4. SendTypes'
    BY <2>1, <2>3 DEF SendInv, SendTypes
  <2>5. CacheInv'
    BY <2>1, <2>3 DEF SendInv, CacheInv, Known
  <2>6. \A c \in Conns : InHand(c)'
    BY <2>1 DEF SendInv, InHand, Known
  <2>7. (DeliveredAsSubmitted /\ NeverMisaddressed /\ AnsweredOkWasSent)'
    BY <2>1 DEF SendInv, DeliveredAsSubmitted, NeverMisaddressed, AnsweredOkWasSent
  <2> QED BY <2>4, <2>5, <2>6, <2>7 DEF SendInv
<1>11. ASSUME NEW c \in Conns,
              \/ Accept(c) \/ Reset(c) \/ MailFrom(c) \/ Data(c) \/ DataLine(c)
              \/ RejectTooLarge(c) \/ Quit(c) \/ LastLine(c) \/ GiveUp(c)
              \/ \E good \in BOOLEAN : AuthInline(c, good) \/ AuthLine(c, good)
              \/ \E wait \in {"plain", "user"} : AuthBegin(c, wait)
              \/ \E a \in Addrs : RcptTo(c, a)
       PROVE  SendInv'
  <2>1. OnlySmtp \/ GiveUp(c)
    BY <1>11
    DEF Accept, Reset, MailFrom, Data, DataLine, RejectTooLarge, Quit, LastLine,
       AuthInline, AuthLine, AuthBegin, RcptTo
  <2> QED BY <2>1, SendKept DEF OnlySmtp, GiveUp, tuta
<1>12. CASE \/ \E c \in Callers : Waiting(c) \/ OtherTraffic(c)
            \/ TimePasses \/ UNCHANGED subVars
  BY <1>12, SendKept DEF Waiting, OtherTraffic, TimePasses, subVars, sub, tuta
<1> QED
  BY <1>1, <1>2, <1>3, <1>4, <1>5, <1>6, <1>8, <1>9, <1>10, <1>11, <1>12 DEF Next, Requests

(* The inductive invariant of the sends. *)
LEMMA SendInvariant == SubSpec => [](SmtpInv /\ SendInv)
<1> QED BY SendInitInv, SmtpStepInv, SendStepInv, PTL DEF SubSpec
-----------------------------------------------------------------------------
(* The order of the submissions of one mail.  Of two that are in hand or    *)
(* delivered, the client was not told how the earlier one ended.            *)
Before(m, n) == m.id = n.id /\ m.attempt < n.attempt => m.attempt \in lost
Apart(m, n) == m.attempt # n.attempt /\ Before(m, n) /\ Before(n, m)

Sending == {c \in Conns : step[c] # "idle"}

OrderInv ==
    /\ \A c \in Sending :
          /\ mail[c].attempt <= sends
          /\ smtp[c].gone => mail[c].attempt \in lost
    /\ \A m \in delivered :
          /\ m.attempt \in Nat /\ m.attempt <= sends
          /\ m.id \in okd \/ m.attempt \in lost
    /\ \A m, n \in delivered : m # n => Apart(m, n)
    /\ \A c \in Sending : \A m \in delivered : Apart(m, mail[c])
    /\ \A c, d \in Sending : c # d => Apart(mail[c], mail[d])

(* Steps that submit and deliver nothing: what is in hand keeps its id and  *)
(* its number, or is dropped, and the client may learn less.                *)
LEMMA OrderKept ==
    ASSUME OrderInv, lost \subseteq lost', UNCHANGED <<delivered, okd, sends>>,
           Sending' \subseteq Sending,
           \A c \in Sending' :
              /\ mail'[c].id = mail[c].id /\ mail'[c].attempt = mail[c].attempt
              /\ smtp'[c].gone => smtp[c].gone \/ mail[c].attempt \in lost'
    PROVE  OrderInv'
<1>1. \A c \in Sending' :
          /\ mail'[c].attempt <= sends'
          /\ smtp'[c].gone => mail'[c].attempt \in lost'
  BY DEF OrderInv
<1>2. \A m \in delivered' :
          /\ m.attempt \in Nat /\ m.attempt <= sends'
          /\ m.id \in okd' \/ m.attempt \in lost'
  BY DEF OrderInv
<1>3. \A m, n \in delivered' : m # n => Apart(m, n)'
  BY DEF OrderInv, Apart, Before
<1>4. \A c \in Sending' : \A m \in delivered' : Apart(m, mail[c])'
  BY DEF OrderInv, Apart, Before
<1>5. \A c, d \in Sending' : c # d => Apart(mail[c], mail[d])'
  BY DEF OrderInv, Apart, Before
<1> QED BY <1>1, <1>2, <1>3, <1>4, <1>5 DEF OrderInv

(* A delivery: the mail in hand becomes a delivered one of the same number. *)
LEMMA OrderDelivered ==
    ASSUME NEW c \in Conns, SmtpInv, SendInv, OrderInv, step[c] = "send", Delivered(c), Over(c),
           lost \subseteq lost', okd \subseteq okd', UNCHANGED sends,
           mail[c].id \in okd' \/ mail[c].attempt \in lost'
    PROVE  OrderInv'
<1>1. PICK n : /\ delivered' = delivered \union {n}
               /\ n.id = mail[c].id /\ n.attempt = mail[c].attempt
  BY DeliveryFacts
<1>2. /\ Sending' = Sending \ {c} /\ c \in Sending
      /\ \A d \in Sending' : mail'[d] = mail[d] /\ smtp'[d] = smtp[d]
  BY DEF Over, Sending, SmtpInv, SendInv, SendTypes
<1>3. mail[c].attempt \in Nat /\ mail[c].attempt <= sends
  BY <1>2 DEF SendInv, InHand, Message, OrderInv, Sending
<1>4. \A d \in Sending' :
          /\ mail'[d].attempt <= sends'
          /\ smtp'[d].gone => mail'[d].attempt \in lost'
  BY <1>2 DEF OrderInv
<1>5. \A m \in delivered' :
          /\ m.attempt \in Nat /\ m.attempt <= sends'
          /\ m.id \in okd' \/ m.attempt \in lost'
  BY <1>1, <1>3 DEF OrderInv
<1>6. \A m \in delivered : Apart(m, n)' /\ Apart(n, m)'
  <2>1. \A m \in delivered : Apart(m, mail[c])
    BY <1>2 DEF OrderInv
  <2> QED BY <1>1, <2>1 DEF Apart, Before
<1>7. \A m, k \in delivered' : m # k => Apart(m, k)'
  <2>1. \A m, k \in delivered : m # k => Apart(m, k)'
    BY DEF OrderInv, Apart, Before
  <2> QED BY <1>1, <1>6, <2>1
<1>8. \A d \in Sending' : \A m \in delivered' : Apart(m, mail[d])'
  <2>1. \A d \in Sending' : \A m \in delivered : Apart(m, mail[d])'
    BY <1>2 DEF OrderInv, Apart, Before
  <2>2. \A d \in Sending' : Apart(mail[c], mail[d])
    BY <1>2 DEF OrderInv
  <2>3. \A d \in Sending' : Apart(n, mail[d])'
    BY <1>1, <1>2, <2>2 DEF Apart, Before
  <2> QED BY <1>1, <2>1, <2>3
<1>9. \A d, e \in Sending' : d # e => Apart(mail[d], mail[e])'
  BY <1>2 DEF OrderInv, Apart, Before
<1> QED BY <1>4, <1>5, <1>7, <1>8, <1>9 DEF OrderInv

(* A submission: a number of its own, above all the others; any earlier one *)
(* of the same mail ended without a word, or its client is gone.            *)
LEMMA OrderSubmitted ==
    ASSUME NEW c \in Conns, SmtpInv, SendInv, OrderInv, Submit(c)
    PROVE  OrderInv'
<1>a. PICK id \in MailIds \ (okd \cup Awaited), reply \in MailIds \cup {None},
           kind \in Kinds, headers \in SUBSET Addrs :
        /\ mail' = [mail EXCEPT ![c] =
             [id |-> id, attempt |-> sends + 1, reply |-> reply, from |-> kind.from,
              attachments |-> kind.attachments,
              lines |-> smtp[c].buf, to |-> Recipients(headers, smtp[c].to),
              typed |-> smtp[c].typed, envelope |-> smtp[c].to,
              sender |-> None, previous |-> None, draft |-> FALSE]]
        /\ step' = [step EXCEPT ![c] = IF kind.from = "own" THEN "resolveOwn" ELSE "resolve"]
  BY DEF Submit
<1> DEFINE m == [id |-> id, attempt |-> sends + 1, reply |-> reply, from |-> kind.from,
                 attachments |-> kind.attachments,
                 lines |-> smtp[c].buf, to |-> Recipients(headers, smtp[c].to),
                 typed |-> smtp[c].typed, envelope |-> smtp[c].to,
                 sender |-> None, previous |-> None, draft |-> FALSE]
           t == IF kind.from = "own" THEN "resolveOwn" ELSE "resolve"
<1>1. /\ mail' = [mail EXCEPT ![c] = m] /\ m.id = id /\ m.attempt = sends + 1
      /\ step' = [step EXCEPT ![c] = t] /\ t \in Steps /\ t # "idle"
  BY <1>a DEF Steps
<1> HIDE DEF m, t
<1>2. /\ step[c] = "idle" /\ sends \in Nat /\ sends' = sends + 1
      /\ UNCHANGED <<delivered, lost, okd>> /\ smtp' = [smtp EXCEPT ![c] = Fresh(c)]
  BY DEF Submit, Talking, SmtpInv, tuta, Set
<1>3. /\ c \notin Sending /\ Sending' = Sending \union {c} /\ mail'[c] = m
      /\ ~smtp'[c].gone
      /\ \A d \in Sending : mail'[d] = mail[d] /\ smtp'[d] = smtp[d]
  <2>1. smtp'[c] = Fresh(c) /\ mail'[c] = m /\ step'[c] = t
    BY <1>1, <1>2 DEF SmtpInv, SendInv, SendTypes
  <2>2. ~smtp'[c].gone
    BY <2>1 DEF Fresh, Greeted
  <2>3. \A d \in Conns \ {c} : mail'[d] = mail[d] /\ smtp'[d] = smtp[d] /\ step'[d] = step[d]
    BY <1>1, <1>2 DEF SmtpInv, SendInv, SendTypes
  <2> QED BY <1>1, <1>2, <2>1, <2>2, <2>3 DEF Sending
<1>4. \A d \in Sending : mail[d] \in Message /\ mail[d] # None /\ mail[d].attempt \in Nat
  <2>1. \A d \in Sending : mail[d] \in Message
    BY DEF SendInv, InHand, Sending
  <2> QED BY <2>1, SubmissionConstants DEF Message
<1>5. \A d \in Sending : mail[d].id = id => mail[d].attempt \in lost
  <2>1. \A d \in Sending : mail[d].id = id => smtp[d].gone
    BY <1>1, <1>4 DEF Awaited, Sending
  <2> QED BY <2>1 DEF OrderInv
<1>6. \A n \in delivered : n.id = id => n.attempt \in lost
  BY <1>1 DEF OrderInv
<1>7. \A d \in Sending' :
          /\ mail'[d].attempt <= sends'
          /\ smtp'[d].gone => mail'[d].attempt \in lost'
  BY <1>1, <1>2, <1>3, <1>4 DEF OrderInv
<1>8. \A n \in delivered' :
          /\ n.attempt \in Nat /\ n.attempt <= sends'
          /\ n.id \in okd' \/ n.attempt \in lost'
  BY <1>2 DEF OrderInv
<1>9. \A n, k \in delivered' : n # k => Apart(n, k)'
  BY <1>2 DEF OrderInv, Apart, Before
<1>10. \A d \in Sending' : \A n \in delivered' : Apart(n, mail[d])'
  <2>1. \A d \in Sending : \A n \in delivered' : Apart(n, mail[d])'
    BY <1>2, <1>3 DEF OrderInv, Apart, Before
  <2>2. \A n \in delivered' : Apart(n, mail[c])'
    BY <1>1, <1>2, <1>3, <1>6 DEF OrderInv, Apart, Before
  <2> QED BY <1>3, <2>1, <2>2
<1>11. \A d, e \in Sending' : d # e => Apart(mail[d], mail[e])'
  <2>1. \A d, e \in Sending : d # e => Apart(mail[d], mail[e])'
    BY <1>2, <1>3 DEF OrderInv, Apart, Before
  <2>2. \A d \in Sending : Apart(mail[d], mail[c])' /\ Apart(mail[c], mail[d])'
    BY <1>1, <1>2, <1>3, <1>4, <1>5 DEF OrderInv, Apart, Before
  <2> QED BY <1>3, <2>1, <2>2
<1> QED BY <1>7, <1>8, <1>9, <1>10, <1>11 DEF OrderInv

(* Every step keeps the submissions in order. *)
LEMMA OrderStepInv == SmtpInv /\ SendInv /\ OrderInv /\ [Next]_subVars => OrderInv'
<1> SUFFICES ASSUME SmtpInv, SendInv, OrderInv, [Next]_subVars PROVE OrderInv'
  OBVIOUS
<1>1. ASSUME NEW c \in Conns, NEW m, NEW t \in Steps, Proceed(c, m, t), step[c] # "idle",
             m.id = mail[c].id, m.attempt = mail[c].attempt, mail[c] \in Message,
             m \in Message, UNCHANGED <<smtp, delivered, lost, okd, sends>>
      PROVE  OrderInv'
  <2> DEFINE new == IF t = "draft" THEN [m EXCEPT !.previous = Lookup(m.reply)] ELSE m
  <2>1. mail' = [mail EXCEPT ![c] = new] /\ step' = [step EXCEPT ![c] = t]
    BY <1>1 DEF Proceed
  <2>2. new.id = mail[c].id /\ new.attempt = mail[c].attempt
    BY <1>1 DEF Message
  <2> HIDE DEF new
  <2>3. /\ Sending' \subseteq Sending
        /\ \A d \in Sending' : mail'[d].id = mail[d].id /\ mail'[d].attempt = mail[d].attempt
    BY <1>1, <2>1, <2>2 DEF Sending, SendInv, SendTypes
  <2> QED BY <1>1, <2>3, OrderKept
<1>2. ASSUME NEW c \in Conns, Requests(c) PROVE OrderInv'
  <2>1. step[c] # "idle" => mail[c] \in Message
    BY DEF SendInv, InHand
  <2>2. CASE ResolveOk(c) \/ ResolveOwnOk(c)
    <3>1. PICK sender \in {"own", "alias"}, t \in Steps :
            Proceed(c, [mail[c] EXCEPT !.sender = sender], t)
      BY <2>2 DEF ResolveOk, ResolveOwnOk, After, Steps
    <3> DEFINE m == [mail[c] EXCEPT !.sender = sender]
    <3>2. step[c] # "idle" /\ UNCHANGED <<smtp, delivered, lost, okd, sends>>
      BY <2>2 DEF ResolveOk, ResolveOwnOk, tuta
    <3>3. m \in Message /\ m.id = mail[c].id /\ m.attempt = mail[c].attempt
      BY <2>1, <3>2 DEF Message
    <3>4. Proceed(c, m, t)
      BY <3>1
    <3> HIDE DEF m
    <3> QED BY <1>1, <2>1, <3>2, <3>3, <3>4
  <2>3. CASE ResolveRefused(c) \/ UploadOk(c)
    <3>1. /\ \E t \in Steps : Proceed(c, mail[c], t)
          /\ step[c] # "idle" /\ UNCHANGED <<smtp, delivered, lost, okd, sends>>
      BY <2>3 DEF ResolveRefused, UploadOk, After, Steps, tuta
    <3> QED BY <1>1, <2>1, <3>1
  <2>4. CASE DraftOk(c)
    <3> DEFINE m == [mail[c] EXCEPT !.draft = TRUE]
    <3>1. /\ \E t \in Steps : Proceed(c, m, t)
          /\ step[c] # "idle" /\ UNCHANGED <<smtp, delivered, lost, okd, sends>>
      BY <2>4 DEF DraftOk, After, Steps
    <3>2. m \in Message /\ m.id = mail[c].id /\ m.attempt = mail[c].attempt
      BY <2>1, <3>1 DEF Message
    <3> HIDE DEF m
    <3> QED BY <1>1, <2>1, <3>1, <3>2
  <2>5. CASE SendOk(c)
    <3>1. /\ step[c] = "send" /\ Delivered(c) /\ Over(c) /\ UNCHANGED <<lost, sends>>
          /\ okd' = IF smtp[c].gone THEN okd ELSE okd \cup {mail[c].id}
      BY <2>5 DEF SendOk
    <3>2. smtp[c].gone => mail[c].attempt \in lost
      BY <3>1 DEF OrderInv, Sending
    <3> QED BY <3>1, <3>2, OrderDelivered
  <2>6. ASSUME Stranded(c), lost \subseteq lost', UNCHANGED delivered PROVE OrderInv'
    <3>1. /\ Sending' \subseteq Sending /\ UNCHANGED <<okd, sends>>
          /\ \A d \in Sending' : mail'[d] = mail[d] /\ smtp'[d] = smtp[d]
      BY <2>6 DEF Stranded, Over, Sending, SmtpInv, SendInv, SendTypes
    <3> QED BY <2>6, <3>1, OrderKept
  <2>7. CASE SendFails(c)
    BY <2>6, <2>7 DEF SendFails, tuta
  <2>8. CASE AnswerLost(c)
    <3>1. CASE step[c] = "send"
      BY <2>8, <3>1, OrderDelivered DEF AnswerLost, Stranded
    <3>2. CASE step[c] # "send"
      BY <2>6, <2>8, <3>2 DEF AnswerLost
    <3> QED BY <3>1, <3>2
  <2> QED BY <1>2, <2>2, <2>3, <2>4, <2>5, <2>7, <2>8 DEF Requests
<1>3. ASSUME NEW c \in Conns, GiveUp(c) PROVE OrderInv'
  <2>1. /\ smtp' = [smtp EXCEPT ![c] = [smtp[c] EXCEPT !.gone = TRUE]]
        /\ lost' = lost \union {mail[c].attempt}
        /\ UNCHANGED <<step, mail, delivered, okd, sends>>
    BY <1>3 DEF GiveUp, Set
  <2>2. \A d \in Sending' : smtp'[d].gone => smtp[d].gone \/ mail[d].attempt \in lost'
    BY <2>1 DEF SmtpInv, Sending
  <2> QED BY <2>1, <2>2, OrderKept DEF Sending
<1>4. ASSUME NEW c \in Conns,
             \/ Accept(c) \/ Reset(c) \/ MailFrom(c) \/ Data(c) \/ DataLine(c)
             \/ RejectTooLarge(c) \/ Quit(c) \/ LastLine(c)
             \/ \E good \in BOOLEAN : AuthInline(c, good) \/ AuthLine(c, good)
             \/ \E wait \in {"plain", "user"} : AuthBegin(c, wait)
             \/ \E a \in Addrs : RcptTo(c, a)
      PROVE  OrderInv'
  <2>1. OnlySmtp /\ step[c] = "idle" /\ \E s : Set(c, s)
    BY <1>4
    DEF Accept, Reset, MailFrom, Data, DataLine, RejectTooLarge, Quit, LastLine,
       AuthInline, AuthLine, AuthBegin, RcptTo, Command, Talking
  <2>2. Sending' = Sending /\ \A d \in Sending : smtp'[d] = smtp[d]
    BY <2>1 DEF OnlySmtp, Set, Sending, SmtpInv
  <2> QED BY <2>1, <2>2, OrderKept DEF OnlySmtp, tuta
<1>5. CASE UNCHANGED <<smtp, step, mail, delivered, lost, okd, sends>>
  BY <1>5, OrderKept DEF Sending
<1>6. CASE \/ \E c \in Callers : Waiting(c) \/ OtherTraffic(c)
           \/ TimePasses \/ (\E e \in sentIds : Expire(e)) \/ UNCHANGED subVars
  BY <1>5, <1>6 DEF Waiting, OtherTraffic, TimePasses, Expire, subVars, sub, tuta
<1> QED
  BY <1>2, <1>3, <1>4, <1>6, OrderSubmitted DEF Next

(* The inductive invariant with the order of the submissions. *)
LEMMA OrderInvariant == SubSpec => []OrderInv
<1>1. Init => OrderInv
  BY DEF Init, OrderInv, Sending
<1> QED BY <1>1, SendInvariant, OrderStepInv, PTL DEF SubSpec
-----------------------------------------------------------------------------
(* What Tuta sends is the whole message that was typed, to every accepted   *)
(* recipient, however the connections interleave and whatever they aborted  *)
(* before (smtp/mod.rs, send_mail_impl of tuta.rs).                         *)
THEOREM WholeMessagesGoOut == SubSpec => []DeliveredAsSubmitted
<1>1. SendInv => DeliveredAsSubmitted
  BY DEF SendInv
<1> QED BY <1>1, SendInvariant, PTL

(* A mail goes out under the address asked for whenever the account may use *)
(* it, whichever of the lookups fail on the way (resolve_sender).           *)
THEOREM SenderIsResolved == SubSpec => []NeverMisaddressed
<1>1. SendInv => NeverMisaddressed
  BY DEF SendInv
<1> QED BY <1>1, SendInvariant, PTL

(* 250 is the truth, and a reply hangs under a mail that went out for the   *)
(* id it names, whatever the cache has forgotten or overwritten             *)
(* (remember_sent_message_id, lookup_sent_message_id).                      *)
THEOREM OkMeansSent == SubSpec => []AnsweredOkWasSent
<1>1. SendInv => AnsweredOkWasSent
  BY DEF SendInv
<1> QED BY <1>1, SendInvariant, PTL

(* A mail that goes out again was submitted again by a client that was not  *)
(* told how the earlier submission ended: it gave up waiting, or Tuta's     *)
(* answer was lost.  No other failure, and no interleaving of any number of *)
(* connections and resubmissions, doubles it (smtp/mod.rs, send_mail_impl). *)
THEOREM DuplicatesAreLostAnswers == SubSpec => []DuplicatesOnlyFromLostAnswers
<1>1. OrderInv => DuplicatesOnlyFromLostAnswers
  <2> SUFFICES ASSUME OrderInv, NEW m \in delivered, NEW n \in delivered,
                      m.id = n.id, m # n, m.attempt <= n.attempt
               PROVE  m.attempt \in lost
    BY DEF DuplicatesOnlyFromLostAnswers
  <2>1. m.attempt \in Nat /\ n.attempt \in Nat /\ Apart(m, n)
    BY DEF OrderInv
  <2>2. m.attempt < n.attempt
    BY <2>1 DEF Apart
  <2> QED BY <2>1, <2>2 DEF Apart, Before
<1> QED BY <1>1, OrderInvariant, PTL
=============================================================================
