------------------------------- MODULE Bodies -------------------------------
(***************************************************************************)
(* The bodies of the mails of one folder: the prefetch loop (sync.rs), the *)
(* bounded cache of rendered messages (body_cache.rs), FETCH of a body by  *)
(* an IMAP connection (imap/session.rs), and deletion, over one directory  *)
(* of encrypted files (store.rs).                                          *)
(*                                                                         *)
(* A mail is a number; a later one was received later.  Every mail has     *)
(* attachments, so no body arrives inline with its event, and a rendered   *)
(* message is the sequence of the attachments it holds.  The mails are not *)
(* ones this bridge sent: the attachments of those may come from a cache   *)
(* kept by the send, which is left out.                                    *)
(***************************************************************************)
EXTENDS Integers, Sequences, SequencesExt, FiniteSets, FiniteSetsExt

CONSTANTS
    Mail, Size, MaxBytes,   \* Size[m]: length of the rendered mail
    File, Attached, ListOf,     \* Attached[m]: the attachments of m, each in a list
    Conn,
    Window,         \* body_prefetch_limit
    OldMail,        \* mails whose rows are in the database at the start
    None,
    MaxFails,       \* bound: requests and writes that fail
    MaxDeletes,     \* bound: mails deleted on the server
    MaxCrashes      \* bound: crashes or stops of the process

ASSUME BodiesAssumption ==
    /\ Mail \subseteq Nat \ {0} /\ IsFiniteSet(Mail) /\ OldMail \subseteq Mail
    /\ Attached \in [Mail -> Seq(File)] /\ ListOf \in [File -> Nat]
    /\ Size \in [Mail -> Nat] /\ MaxBytes \in Nat /\ Window \in Nat
    /\ {MaxFails, MaxDeletes, MaxCrashes} \subseteq Nat
    /\ \A m \in Mail : None # Attached[m]
    /\ None \notin Mail \cup [m : Mail, at : {"eml", "memory"}] \cup {"check", "answer"}

VARIABLES
    alive, gone,    \* mails on the server; deleted there
    rows, eml,      \* the database, and what each .eml.enc file holds, or None
    shown, loaded,  \* the folder of MailStore, and its body_loaded
    lru,            \* BodyCache: mails, the coldest first
    cooling,        \* body_fetch_cooldown
    changed,        \* the store has changed since prefetch_loop last woke
    deleting,       \* the DELETE event the handler applies, and how far
    told,           \* mails whose DELETE event has been applied
    pf, retry,      \* prefetch_loop, and its retry history
    conn,           \* per connection: the entry of the mail it fetches, how far it is
    fails, crashes,
    unwritten,      \* history: mails with a write_eml that failed
    overtaken,      \* history: mails deleted while their body was under way
    stuck,          \* history: mails whose delete_mail failed
    crowded         \* history: connections whose body left the cache before get looks again

server == <<alive, gone>>
disk == <<rows, eml>>
cache == <<lru, crowded>>
mem == <<shown, loaded, cache, cooling, changed>>
handler == <<deleting, told>>
prefetch == <<pf, retry>>
causes == <<unwritten, overtaken, stuck>>
bodyVars == <<server, disk, mem, handler, prefetch, conn, fails, crashes, causes>>

-----------------------------------------------------------------------------
(* BodyCache.                                                              *)

\* total_bytes of the entries, which are a map: what counts is whose they are.
TotalSize(mails) == MapThenSumSet(LAMBDA m : Size[m], mails)
Bytes(s) == TotalSize(Range(s))

Without(s, m) ==
    IF m \in Range(s) THEN RemoveAt(s, CHOOSE i \in DOMAIN s : s[i] = m) ELSE s
Cached(m) == m \in Range(lru)

EvictButNewest(s) ==
    LET fits == {k \in 1 .. Len(s) : Bytes(SubSeq(s, k, Len(s) - 1)) <= MaxBytes}
    IN  SubSeq(s, Min(fits \cup {Len(s)}), Len(s))

\* The coldest entries go until the rest fits; the newest always stays.
Evict(s) ==
    LET fits == {k \in 1 .. Len(s) : Bytes(SubSeq(s, k, Len(s))) <= MaxBytes}
    IN  SubSeq(s, Min(fits \cup {Len(s)}), Len(s))

Insert(m) == Evict(Append(Without(lru, m), m))
Touch(m) == Append(Without(lru, m), m)

\* insert, and the connections whose body it drives out between its insertion
\* and the second look of get (crowded, a history).
Keep(m) ==
    /\ lru' = Insert(m)
    /\ crowded' = {c \in Conn :
          /\ conn[c].at = "again"
          /\ c \in crowded \/ Cached(conn[c].m)
          /\ conn[c].m \notin Range(lru')}

-----------------------------------------------------------------------------
(* The backend and the directory.  A request for a mail that is gone       *)
(* always fails; others may, within the bound.                             *)

Fails(m) == \/ m \notin alive /\ fails' = fails
            \/ m \in alive /\ fails < MaxFails /\ fails' = fails + 1

\* The body itself is in a blob of its own, or with the draft.
LoadDetails(m) == m \in alive /\ UNCHANGED fails

\* The server's answers to the requests of load_attachments, one per list:
\* all that was asked for in some order, or, within the bound, anything.
Asked(m, l) == {f \in Range(Attached[m]) : ListOf[f] = l}
Lists(m) == {ListOf[f] : f \in Range(Attached[m])}
Answer == [m \in Mail |-> [Lists(m) -> SeqOf(File, 2)]]
Honest == [m \in Mail |-> {a \in Answer[m] : \A l \in Lists(m) :
                                IsInjective(a[l]) /\ Range(a[l]) = Asked(m, l)}]
ServerAnswers(m, answer) ==
    \/ answer \in Honest[m] /\ UNCHANGED fails
    \/ answer \notin Honest[m] /\ fails < MaxFails /\ fails' = fails + 1

OfOneList(l, answer) == \A f \in Range(answer[l]) : ListOf[f] = l
OnlyAsked(m, l, answer) == Range(answer[l]) \subseteq Asked(m, l)
NothingMissing(m, l, answer) == Asked(m, l) \subseteq Range(answer[l])

AcceptsAnything(m, answer) ==
    \A l \in Lists(m) :
        OfOneList(l, answer) /\ OnlyAsked(m, l, answer) /\ IsInjective(answer[l])

\* No file of another list, or of another mail, none twice and none missing;
\* a mail that names a file twice is refused before it is asked for.
Accepts(m, answer) ==
    /\ IsInjective(Attached[m])
    /\ \A l \in Lists(m) :
          /\ OfOneList(l, answer) /\ OnlyAsked(m, l, answer) /\ IsInjective(answer[l])
          /\ NothingMissing(m, l, answer)

\* In the order of the mail, each file by its id; Accepts has seen that none is
\* missing.
Assemble(m, answer) ==
    [i \in DOMAIN Attached[m] |->
        IF Attached[m][i] \in Range(answer[ListOf[Attached[m][i]]])
        THEN Attached[m][i] ELSE None]

\* write_eml renames a finished file into place, or fails.
OnDisk == {m \in Mail : eml[m] # None}
WriteEml(m, files) ==
    \/ eml' = [eml EXCEPT ![m] = files] /\ UNCHANGED <<fails, unwritten>>
    \/ /\ fails < MaxFails /\ fails' = fails + 1
       /\ unwritten' = unwritten \cup {m}
       /\ UNCHANGED eml

\* update_complete_mail.
Complete(m) ==
    /\ loaded' = loaded \cup ({m} \cap shown)
    /\ Keep(m)
    /\ UNCHANGED <<shown, cooling, changed>>

-----------------------------------------------------------------------------
(* Mails come and go.                                                      *)

\* The CREATE event: the row and the entry of the folder, without a body.
Arrive(m) ==
    /\ m \in alive \ shown /\ deleting = None
    /\ rows' = rows \cup {m} /\ shown' = shown \cup {m} /\ changed' = TRUE
    /\ UNCHANGED <<server, eml, loaded, cache, cooling, handler, prefetch, conn, fails, crashes,
                   causes>>

Expunge(m) ==
    /\ m \in alive \cap shown /\ Cardinality(gone) < MaxDeletes
    /\ alive' = alive \ {m} /\ gone' = gone \cup {m}
    /\ UNCHANGED <<disk, mem, handler, prefetch, conn, fails, crashes, causes>>

UnderWay(m) ==
    \/ pf.m = m /\ pf.at # "load"
    \/ \E c \in Conn : conn[c].m = m /\ conn[c].at \in {"write", "publish"}

\* delete_mail: the row, then the file, and nothing further when one of them
\* fails; then the entry in memory, all the same.  The event is applied again
\* if the process stops before the end of it.
DeleteFails(m) ==
    /\ fails < MaxFails /\ fails' = fails + 1
    /\ deleting' = [m |-> m, at |-> "memory"]
    /\ stuck' = stuck \cup {m}

DeleteRow(m) ==
    /\ m \in gone \ told /\ deleting = None
    /\ \/ /\ deleting' = [m |-> m, at |-> "eml"]
          /\ rows' = rows \ {m}
          /\ UNCHANGED <<fails, stuck>>
       \/ DeleteFails(m) /\ UNCHANGED rows
    /\ UNCHANGED <<server, eml, mem, told, prefetch, conn, crashes, unwritten, overtaken>>

Overtake(m) == overtaken' = IF UnderWay(m) THEN overtaken \cup {m} ELSE overtaken

DeleteEmlIfRow ==
    /\ deleting # None /\ deleting.at = "eml"
    /\ deleting' = [deleting EXCEPT !.at = "memory"]
    /\ eml' = IF deleting.m \in shown THEN [eml EXCEPT ![deleting.m] = None] ELSE eml
    /\ stuck' = stuck \ {deleting.m}
    /\ Overtake(deleting.m)
    /\ UNCHANGED <<server, rows, mem, told, prefetch, conn, fails, crashes, unwritten>>

DeleteEml ==
    /\ deleting # None /\ deleting.at = "eml"
    /\ \/ /\ deleting' = [deleting EXCEPT !.at = "memory"]
          /\ eml' = [eml EXCEPT ![deleting.m] = None]
          /\ stuck' = stuck \ {deleting.m}
          /\ UNCHANGED fails
       \/ deleting.m \in OnDisk /\ DeleteFails(deleting.m) /\ UNCHANGED eml
    /\ Overtake(deleting.m)
    /\ UNCHANGED <<server, rows, mem, told, prefetch, conn, crashes, unwritten>>

DeleteShown ==
    /\ deleting # None /\ deleting.at = "memory"
    /\ deleting' = None /\ told' = told \cup {deleting.m}
    /\ shown' = shown \ {deleting.m} /\ loaded' = loaded \ {deleting.m}
    /\ changed' = (changed \/ deleting.m \in shown)
    /\ UNCHANGED <<server, disk, cache, cooling, prefetch, conn, fails, crashes, causes>>

-----------------------------------------------------------------------------
(* prefetch_loop.  A retry is later, or due, or has been missed: it came   *)
(* due before the loop went to sleep.                                      *)

\* prefetch_window: the newest mails, as they are when the pass reads them.
InWindow(m) == m \in shown /\ (Window = 0 \/ Cardinality({n \in shown : n > m}) < Window)
PrefetchWindow == {m \in shown : InWindow(m)}

NoPass == [at |-> "start", m |-> None, todo |-> {}, files |-> << >>]
At(stage) == pf.at = stage
Goto(stage) == pf' = [pf EXCEPT !.at = stage]
NextMail == pf' = [at |-> "pass", m |-> None, todo |-> pf.todo, files |-> << >>]
Skip(next) == pf' = [pf EXCEPT !.todo = @ \ {next}]
SetRetry(m, r) == retry' = [retry EXCEPT ![m] = r]

AfterFailureForgotten(m) == SetRetry(m, "none")

\* A minute after the first failure, an hour after many or after one that no
\* second attempt can mend.
AfterFailure(m) == SetRetry(m, "later")

PassStart ==
    /\ At("start")
    /\ pf' = [at |-> "pass", m |-> None, files |-> << >>,
              todo |-> {[m |-> m, had |-> m \in loaded] : m \in PrefetchWindow}]
    /\ UNCHANGED <<server, disk, mem, handler, retry, conn, fails, crashes, causes>>

\* The newest first.  The body is there, or its next attempt is not due, or it
\* is loaded now.
Pick ==
    /\ At("pass")
    /\ \E next \in pf.todo :
          LET has == next.had \/ next.m \in OnDisk
          IN  /\ \A other \in pf.todo : other.m <= next.m
              /\ \/ has /\ SetRetry(next.m, "none") /\ Skip(next)
                 \/ ~has /\ retry[next.m] = "later" /\ UNCHANGED retry /\ Skip(next)
                 \/ /\ ~has /\ retry[next.m] # "later"
                    /\ pf' = [at |-> "load", m |-> next.m, todo |-> pf.todo \ {next},
                              files |-> << >>]
                    /\ UNCHANGED retry
    /\ UNCHANGED <<server, disk, mem, handler, conn, fails, crashes, causes>>

\* The mail is read again before it is asked for; it may have left.
Load ==
    /\ At("load")
    /\ \/ pf.m \notin shown /\ NextMail /\ UNCHANGED <<retry, fails>>
       \/ pf.m \in shown /\ LoadDetails(pf.m) /\ Goto("files") /\ UNCHANGED retry
       \/ pf.m \in shown /\ Fails(pf.m) /\ AfterFailure(pf.m) /\ NextMail
    /\ UNCHANGED <<server, disk, mem, handler, conn, crashes, causes>>

LoadFiles ==
    /\ At("files")
    /\ \/ \E answer \in Answer[pf.m] :
             /\ pf.m \in alive /\ ServerAnswers(pf.m, answer)
             /\ IF Accepts(pf.m, answer)
                THEN /\ pf' = [at |-> "write", m |-> pf.m, todo |-> pf.todo,
                               files |-> Assemble(pf.m, answer)]
                     /\ UNCHANGED retry
                ELSE AfterFailure(pf.m) /\ NextMail
       \/ Fails(pf.m) /\ AfterFailure(pf.m) /\ NextMail
    /\ UNCHANGED <<server, disk, mem, handler, conn, crashes, causes>>

Write ==
    /\ At("write")
    /\ WriteEml(pf.m, pf.files)
    /\ Goto("publish")
    /\ UNCHANGED <<server, rows, mem, handler, retry, conn, crashes, overtaken, stuck>>

Publish ==
    /\ At("publish")
    /\ Complete(pf.m)
    /\ SetRetry(pf.m, "none") /\ NextMail
    /\ UNCHANGED <<server, disk, handler, conn, fails, crashes, causes>>

\* next_attachment_retry: the loop sleeps until the first attempt that is
\* still in the future; one that is due already is not among them.
SleepFor == [m \in Mail |-> IF retry[m] = "due" THEN "missed" ELSE retry[m]]

PassEnd ==
    /\ At("pass") /\ pf.todo = {}
    /\ Goto("wait")
    /\ retry' = SleepFor
    /\ UNCHANGED <<server, disk, mem, handler, conn, fails, crashes, causes>>

RetryDue(m) ==
    /\ retry[m] = "later"
    /\ SetRetry(m, "due")
    /\ UNCHANGED <<server, disk, mem, handler, pf, conn, fails, crashes, causes>>

WakeOnChange ==
    /\ At("wait") /\ changed
    /\ changed' = FALSE /\ Goto("start")
    /\ UNCHANGED <<server, disk, shown, loaded, cache, cooling, handler, retry, conn, fails,
                   crashes, causes>>

WakeOnTimer ==
    /\ At("wait") /\ \E m \in Mail : retry[m] = "due"
    /\ Goto("start")
    /\ UNCHANGED <<server, disk, mem, handler, retry, conn, fails, crashes, causes>>

-----------------------------------------------------------------------------
(* FETCH of a body (cmd_fetch).  get_body is a look into the cache, a read *)
(* of the file and a second look; it runs twice, to see if the body is     *)
(* there and to answer.                                                    *)

InFetch(c, stage) == conn[c].at = stage
Step(c, stage) == conn' = [conn EXCEPT ![c] = [@ EXCEPT !.at = stage]]
FetchOf(m, has, stage, phase, files) ==
    [m |-> m, loaded |-> has, at |-> stage, phase |-> phase, files |-> files]
NoEntry == FetchOf(None, FALSE, "idle", None, << >>)

\* The session reads the folder; of its entries the one to be fetched next
\* matters.
Refresh(c, m) ==
    /\ InFetch(c, "idle") /\ m \in shown
    /\ conn' = [conn EXCEPT ![c] = FetchOf(m, m \in loaded, "idle", None, << >>)]
    /\ UNCHANGED <<server, disk, mem, handler, prefetch, fails, crashes, causes>>

Fetch(c) ==
    /\ InFetch(c, "idle") /\ conn[c].m # None
    /\ conn' = [conn EXCEPT ![c] = FetchOf(@.m, @.loaded, "look",
                                       IF @.loaded THEN "answer" ELSE "check", << >>)]
    /\ UNCHANGED <<server, disk, mem, handler, prefetch, fails, crashes, causes>>

ToAnswer(c) == conn' = [conn EXCEPT ![c] = FetchOf(@.m, TRUE, "look", "answer", << >>)]
Answered(c) == conn' = [conn EXCEPT ![c] = FetchOf(@.m, @.loaded, "idle", None, << >>)]

Found(c) ==
    \/ conn[c].phase = "check" /\ ToAnswer(c)
    \/ conn[c].phase = "answer" /\ Answered(c)

\* Not there: answered NO during a cooldown, else fetched; in the second run
\* it is answered with the headers and a stub.
Absent(c) ==
    \/ /\ conn[c].phase = "check"
       /\ IF conn[c].m \in cooling THEN Answered(c) ELSE Step(c, "load")
    \/ conn[c].phase = "answer" /\ Answered(c)

Look(c) ==
    /\ InFetch(c, "look")
    /\ \/ Cached(conn[c].m) /\ lru' = Touch(conn[c].m) /\ Found(c)
       \/ ~Cached(conn[c].m) /\ Step(c, "read") /\ UNCHANGED lru
    /\ UNCHANGED <<server, disk, shown, loaded, crowded, cooling, changed, handler, prefetch,
                   fails, crashes, causes>>

\* A file that cannot be read or decrypted is taken for one that is not there.
ReadEml(c) ==
    /\ InFetch(c, "read")
    /\ \/ conn[c].m \notin OnDisk /\ Absent(c) /\ UNCHANGED <<cache, fails>>
       \/ conn[c].m \in OnDisk /\ Keep(conn[c].m) /\ Step(c, "again") /\ UNCHANGED fails
       \/ /\ conn[c].m \in OnDisk /\ fails < MaxFails /\ fails' = fails + 1
          /\ Absent(c) /\ UNCHANGED cache
    /\ UNCHANGED <<server, disk, shown, loaded, cooling, changed, handler, prefetch, crashes,
                   causes>>

LookAgain(c) ==
    /\ InFetch(c, "again")
    /\ \/ Cached(conn[c].m) /\ lru' = Touch(conn[c].m) /\ Found(c)
       \/ ~Cached(conn[c].m) /\ Absent(c) /\ UNCHANGED lru
    /\ crowded' = crowded \ {c}
    /\ UNCHANGED <<server, disk, shown, loaded, cooling, changed, handler, prefetch, fails,
                   crashes, causes>>

\* A failure is answered NO and keeps the mail from being asked for again for
\* a while.
Unavailable(c) == cooling' = cooling \cup {conn[c].m} /\ Answered(c)

\* The body, then the attachments: nothing is kept between the two requests,
\* and the failure of either is answered alike.
FetchBody(c) ==
    /\ InFetch(c, "load")
    /\ \/ \E answer \in Answer[conn[c].m] :
             /\ conn[c].m \in alive /\ ServerAnswers(conn[c].m, answer)
             /\ IF Accepts(conn[c].m, answer)
                THEN /\ conn' = [conn EXCEPT ![c] = FetchOf(@.m, @.loaded, "write", @.phase,
                                                       Assemble(@.m, answer))]
                     /\ UNCHANGED cooling
                ELSE Unavailable(c)
       \/ Fails(conn[c].m) /\ Unavailable(c)
    /\ UNCHANGED <<server, disk, shown, loaded, cache, changed, handler, prefetch,
                   crashes, causes>>

PersistNothing(c) ==
    /\ InFetch(c, "write") /\ Step(c, "publish")
    /\ UNCHANGED <<server, disk, mem, handler, prefetch, fails, crashes, causes>>

PersistBody(c) ==
    /\ InFetch(c, "write")
    /\ WriteEml(conn[c].m, conn[c].files)
    /\ Step(c, "publish")
    /\ UNCHANGED <<server, rows, mem, handler, prefetch, crashes, overtaken, stuck>>

FetchComplete(c) ==
    /\ InFetch(c, "publish")
    /\ Complete(conn[c].m)
    /\ ToAnswer(c)
    /\ UNCHANGED <<server, disk, handler, prefetch, fails, crashes, causes>>

\* BODY_FETCH_COOLDOWN is over.
CooldownEnds(m) ==
    /\ m \in cooling
    /\ cooling' = cooling \ {m}
    /\ UNCHANGED <<server, disk, shown, loaded, cache, changed, handler, prefetch, conn, fails,
                   crashes, causes>>

-----------------------------------------------------------------------------
(* The process stops anywhere and starts again from the disk: the rows are *)
(* the folder, and a body is there if its file is (load_cached_folder).    *)

Opened ==
    /\ shown' = rows /\ loaded' = rows \cap OnDisk
    /\ lru' = << >> /\ crowded' = {} /\ cooling' = {} /\ changed' = FALSE
    /\ deleting' = None
    /\ pf' = NoPass /\ retry' = [m \in Mail |-> "none"]
    /\ conn' = [c \in Conn |-> NoEntry]

Restart ==
    /\ crashes < MaxCrashes /\ crashes' = crashes + 1
    /\ Opened
    /\ UNCHANGED <<server, disk, told, fails, causes>>

BodiesInit ==
    /\ alive = Mail /\ gone = {} /\ told = {} /\ deleting = None
    /\ rows = OldMail /\ eml = [m \in Mail |-> None]
    /\ shown = OldMail /\ loaded = {} /\ lru = << >> /\ cooling = {} /\ changed = FALSE
    /\ pf = NoPass /\ retry = [m \in Mail |-> "none"]
    /\ conn = [c \in Conn |-> NoEntry]
    /\ fails = 0 /\ crashes = 0
    /\ unwritten = {} /\ overtaken = {} /\ stuck = {} /\ crowded = {}

PrefetchStep ==
    PassStart \/ Pick \/ Load \/ LoadFiles \/ Write \/ Publish \/ PassEnd
    \/ WakeOnChange \/ WakeOnTimer

BodiesNext ==
    \/ \E m \in Mail :
          Arrive(m) \/ Expunge(m) \/ DeleteRow(m) \/ RetryDue(m) \/ CooldownEnds(m)
    \/ DeleteEml \/ DeleteShown \/ PrefetchStep \/ Restart
    \/ \E c \in Conn :
          \/ Fetch(c) \/ Look(c) \/ ReadEml(c) \/ LookAgain(c) \/ FetchBody(c)
          \/ PersistBody(c) \/ FetchComplete(c)
          \/ \E m \in Mail : Refresh(c, m)

\* The loop and the handler go on, and time passes.
BodiesFairness ==
    /\ WF_bodyVars(PrefetchStep)
    /\ \A m \in Mail : WF_bodyVars(RetryDue(m))

BodiesSpec == BodiesInit /\ [][BodiesNext]_bodyVars /\ BodiesFairness

-----------------------------------------------------------------------------
(* Properties.                                                             *)

\* A body that is marked loaded is one of the folder's, an entry is in the
\* cache once, and a connection that is fetching has a mail to fetch.
BodiesTypeOK ==
    /\ loaded \subseteq shown /\ shown \subseteq Mail
    /\ told \subseteq gone /\ rows \subseteq alive \cup gone
    /\ IsInjective(lru)
    /\ \A c \in Conn : conn[c].at # "idle" => conn[c].m # None /\ conn[c].phase # None

\* The cache holds more than its budget only when one body alone does
\* (BodyCache::insert).
CacheWithinBudget == Len(lru) > 1 => Bytes(lru) <= MaxBytes

\* Whatever a FETCH of a body saw in its snapshot, or fetched, was real: when
\* it answers OK with a stub all the same (cmd_fetch), either there was no file
\* it could read, for a mail that was deleted, whose file could not be written,
\* or whose file is there and was not readable; or the body it had just put
\* into the cache was driven out by another before its second look (get).  A
\* body too large for the cache is no cause: the newest always stays.
StubHasACause ==
    [][\A c \in Conn :
          conn[c].phase = "answer" /\ conn'[c].at = "idle" /\ crashes' = crashes =>
              /\ InFetch(c, "read") =>
                    \/ conn[c].m \in gone \cup unwritten
                    \/ conn[c].m \in OnDisk /\ fails' > fails
              /\ InFetch(c, "again") => Cached(conn[c].m) \/ c \in crowded]_bodyVars

\* "Only complete messages become final cache entries" (sync.rs, cmd_fetch): a
\* file holds every attachment of its mail, in order, whatever the server
\* answered.
OnlyWholeBodies == \A m \in OnDisk : eml[m] = Attached[m]

\* The file of a mail goes with the mail, a crash in the middle of delete_mail
\* included, unless its body was being fetched at that moment or a step of
\* delete_mail failed, which the handler only logs.
FileGoesWithItsMail == told \cap OnDisk \subseteq overtaken \cup stuck

\* A mail in the window does not stay without its body for good, failed
\* requests and restarts included, unless the body could not be written or
\* its retry came due before the loop went to sleep (next_attachment_retry):
\* nothing wakes the loop for that one until the store changes.
BodiesArrive ==
    \A m \in Mail :
        []<>(~InWindow(m) \/ m \in OnDisk \cup gone \cup unwritten \/ retry[m] = "missed")
=============================================================================
