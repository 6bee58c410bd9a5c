---------------------------- MODULE ImapSession -----------------------------
(***************************************************************************)
(* One IMAP connection on one mailbox: ImapSession                         *)
(* (crates/bridge/src/imap/session.rs) driven by run_connection_loop       *)
(* (crates/bridge/src/imap/mod.rs), while the syncer and the event handler *)
(* change the MailStore under it.                                          *)
(*                                                                         *)
(* The session answers from a snapshot of the folder, and the client names *)
(* its mails by their place in that snapshot (message numbers) or by UID.  *)
(* The client (external) is modelled by what the responses told it: view   *)
(* is the numbering it derives from EXISTS, EXPUNGE and FETCH responses.   *)
(***************************************************************************)
EXTENDS Naturals, FiniteSets, SequencesExt

CONSTANTS
    Mail,       \* the mails
    None,       \* no value
    InitMails,  \* the mails in the folder at the start
    InitUids,   \* the UIDs their rows may have
    InitNext,   \* the folder's next UID at the start
    MaxChanges  \* bound: changes of the folder that are not the session's

ASSUME SessionAssumption ==
    /\ IsFiniteSet(Mail)
    /\ None \notin Mail \cup Nat
    /\ InitMails \subseteq Mail
    /\ InitUids \subseteq Nat
    /\ InitNext \in Nat \ {0}
    /\ MaxChanges \in Nat

VARIABLES
    store,     \* MailStore: UID of every mail in the folder, None if not in it
    nextUid,   \* the folder's next UID
    leaving,   \* server: mails that left through the session, event to come
    dirty,     \* store_watch: there is a change the loop has not seen
    state,     \* session: state
    selected,  \* session: selected_folder is Some
    mails,     \* session: mails
    idle,      \* session: idle_tag is Some
    checking,  \* check_new_mail between its two reads, or None
    view,      \* client: the mail and UID of every number, None if unknown
    picked,    \* client: mails it flagged \Deleted since the last refresh
    borne,     \* history: every mail with every UID it had in the folder
    misfit,    \* history: a mail had a shared UID, or one not given out yet
    untold,    \* history: the numbering changed and the client was not told
    astray,    \* history: a mail left that the client did not pick
    changes    \* how many of MaxChanges have happened

folderVars == <<store, nextUid, leaving, dirty>>
loginVars == <<state, selected, idle>>
clientVars == <<view, picked>>
uidVars == <<borne, misfit>>
history == <<untold, astray>>
vars == <<folderVars, loginVars, mails, checking, clientVars, uidVars, history,
          changes>>

CachedMail == [mail : Mail, uid : Nat, deleted : BOOLEAN]

(* The session's and the client's state is of its type, and a session that *)
(* accepts FETCH, STORE, MOVE and EXPUNGE (state Selected) has a selected  *)
(* folder for them to act on.                                              *)
SessionTypeOK ==
    /\ store \in [Mail -> Nat \cup {None}]
    /\ nextUid \in Nat \ {0}
    /\ leaving \in SUBSET Mail
    /\ dirty \in BOOLEAN
    /\ state \in {"NotAuthenticated", "Authenticated", "Selected", "Logout"}
    /\ selected \in BOOLEAN
    /\ state = "Selected" => selected
    /\ mails \in Seq(CachedMail)
    /\ idle \in BOOLEAN
    /\ checking \in [seen : SUBSET Mail, expunges : SUBSET Nat] \cup {None}
    /\ view \in Seq([mail : Mail, uid : Nat] \cup {None})
    /\ picked \in SUBSET Mail
    /\ borne \in SUBSET [mail : Mail, uid : Nat]
    /\ misfit \in BOOLEAN
    /\ untold \in BOOLEAN
    /\ astray \in BOOLEAN
    /\ changes \in 0..MaxChanges

InStore == {m \in Mail : store[m] # None}
InSession == {mails[i].mail : i \in DOMAIN mails}

Bearing == {[mail |-> m, uid |-> store[m]] : m \in InStore}

(* Every UID is one mail's and was given out by the folder's counter. *)
Fit(pairs, next) ==
    /\ \A a \in pairs : a.uid < next
    /\ \A a, b \in pairs : a.uid = b.uid => a.mail = b.mail

(* The folder as load_cached_folder made it from the rows.  A mail that    *)
(* was moved here keeps the UID of the folder it came from in its row      *)
(* (upsert_mail_metadata), so two mails may share a UID and a UID may be   *)
(* one the counter has yet to give out.                                    *)
Init ==
    /\ store \in {[m \in Mail |-> IF m \in InitMails THEN u[m] ELSE None] :
                   u \in [InitMails -> InitUids]}
    /\ nextUid = InitNext
    /\ borne = Bearing
    /\ misfit = ~Fit(borne, nextUid)
    /\ leaving = {}
    /\ dirty = FALSE
    /\ state = "NotAuthenticated"
    /\ selected = FALSE
    /\ mails = <<>>
    /\ idle = FALSE
    /\ checking = None
    /\ view = <<>>
    /\ picked = {}
    /\ untold = FALSE
    /\ astray = FALSE
    /\ changes = 0
-----------------------------------------------------------------------------
(* The folder changes under the session (upsert_mail_in_folder,            *)
(* remove_mail_from_folder); every change is announced on the watch.       *)

(* A mail enters the folder, or its CREATE is applied again, with the UID  *)
(* uid in place of any it had.                                             *)
Enter(m, uid) ==
    /\ changes < MaxChanges
    /\ changes' = changes + 1
    /\ store' = [store EXCEPT ![m] = uid]
    /\ borne' = borne \cup {[mail |-> m, uid |-> uid]}
    /\ leaving' = leaving \ {m}
    /\ dirty' = TRUE
    /\ UNCHANGED <<loginVars, mails, checking, clientVars, history>>

(* The counter gives it a fresh UID. *)
Arrive(m) ==
    /\ Enter(m, nextUid)
    /\ nextUid' = nextUid + 1
    /\ UNCHANGED misfit

(* allocate_folder_uids fails: UID 0. *)
ArriveWithoutUid(m) ==
    /\ Enter(m, 0)
    /\ misfit' = TRUE
    /\ UNCHANGED nextUid

RemoveMail(m) ==
    /\ m \in InStore
    /\ store' = [store EXCEPT ![m] = None]
    /\ leaving' = leaving \ {m}
    /\ dirty' = TRUE
    /\ UNCHANGED <<nextUid, loginVars, mails, checking, clientVars, uidVars,
                   history>>

(* Another client takes a mail out of the folder. *)
Depart(m) ==
    /\ m \notin leaving
    /\ changes < MaxChanges
    /\ changes' = changes + 1
    /\ RemoveMail(m)

(* The event of the session's own MOVE or EXPUNGE reaches the store. *)
Follow(m) ==
    /\ m \in leaving
    /\ RemoveMail(m)
    /\ UNCHANGED changes
-----------------------------------------------------------------------------
(* Order by counting: the i-th smallest of a finite set of numbers is the  *)
(* one with i of them up to it; Without drops the positions S of a list    *)
(* and keeps the order of the others.                                      *)
Rank(S, n) == Cardinality({k \in S : k <= n})
Nth(S, i) == CHOOSE n \in S : Rank(S, n) = i
Ascending(S) == [i \in 1..Cardinality(S) |-> Nth(S, i)]
Descending(S) ==
    [i \in 1..Cardinality(S) |-> Nth(S, Cardinality(S) + 1 - i)]
Without(s, S) ==
    LET kept == DOMAIN s \ S
    IN  [i \in 1..Cardinality(kept) |-> s[Nth(kept, i)]]

(* The client's numbering, response by response. *)

OnExpunge(v, n) == IF n \in DOMAIN v THEN RemoveAt(v, n) ELSE v

Expunged(v, numbers) ==
    LET after[k \in 0..Len(numbers)] ==
            IF k = 0 THEN v ELSE OnExpunge(after[k - 1], numbers[k])
    IN  after[Len(numbers)]

OnExists(v, n) ==
    [i \in 1..n |-> IF i \in DOMAIN v THEN v[i] ELSE None]

(* The loop reads a command only when it is not idling and the previous    *)
(* command is answered.                                                    *)
Command == ~idle /\ checking = None /\ state # "Logout"

(* The client knows nothing of the folder (any more). *)
StartOver ==
    /\ picked' = {}
    /\ untold' = FALSE
    /\ astray' = FALSE
    /\ UNCHANGED uidVars

(* A new connection: a fresh session, a fresh watch receiver. *)
Reconnect ==
    /\ checking = None
    /\ dirty' = FALSE
    /\ state' = "NotAuthenticated"
    /\ selected' = FALSE
    /\ mails' = <<>>
    /\ idle' = FALSE
    /\ view' = <<>>
    /\ StartOver
    /\ UNCHANGED <<store, nextUid, leaving, checking, changes>>

(* LOGIN with the right password, in any state. *)
Login ==
    /\ Command
    /\ state' = "Authenticated"
    /\ UNCHANGED <<folderVars, selected, mails, idle, checking,
                   clientVars, uidVars, history, changes>>

(* AUTHENTICATE PLAIN and the line that answers its challenge, which the   *)
(* loop takes for nothing else (auth_tag): a valid one logs in.            *)
Authenticate ==
    /\ Command
    /\ state' = "Authenticated"
    /\ UNCHANGED <<folderVars, selected, mails, idle, checking, clientVars,
                   uidVars, history, changes>>

(* LOGOUT: the loop ends and the session is dropped. *)
Logout ==
    /\ Command
    /\ state' = "Logout"
    /\ dirty' = FALSE
    /\ selected' = FALSE
    /\ mails' = <<>>
    /\ view' = <<>>
    /\ StartOver
    /\ UNCHANGED <<store, nextUid, leaving, idle, checking, changes>>

(* CLOSE, in any state; unlike RFC 3501's it expunges nothing. *)
Close ==
    /\ Command
    /\ state' = "Authenticated"
    /\ selected' = FALSE
    /\ mails' = <<>>
    /\ view' = <<>>
    /\ StartOver
    /\ UNCHANGED <<folderVars, idle, checking, changes>>
-----------------------------------------------------------------------------
(* refresh_mails: the folder by ascending UID, no \Deleted flag kept.  The  *)
(* sort is stable: mails of one UID come in the order of the store's list, *)
(* which every listing of the folder makes anew.                           *)
RefreshMails ==
    {[i \in DOMAIN order |-> [mail |-> order[i], uid |-> store[order[i]],
                              deleted |-> FALSE]] :
        order \in {o \in SetToSeqs(InStore) :
                      \A i, j \in DOMAIN o :
                          i < j => store[o[i]] <= store[o[j]]}}

(* SELECT and EXAMINE of a folder that exists; the client starts over. *)
Select ==
    /\ Command
    /\ state # "NotAuthenticated"
    /\ state' = "Selected"
    /\ selected' = TRUE
    /\ mails' \in RefreshMails
    /\ view' = OnExists(<<>>, Cardinality(InStore))
    /\ StartOver
    /\ UNCHANGED <<folderVars, idle, checking, changes>>

(* What a FETCH response tells of a mail. *)
Shown(c) == [mail |-> c.mail, uid |-> c.uid]

(* FETCH or UID FETCH of the whole mailbox with UIDs. *)
Fetch ==
    /\ Command
    /\ state = "Selected"
    /\ view' = [i \in DOMAIN view |->
                   IF i \in DOMAIN mails THEN Shown(mails[i]) ELSE view[i]]
    /\ UNCHANGED <<folderVars, loginVars, mails, checking, picked, uidVars,
                   history, changes>>

(* IDLE is accepted in any state. *)
Idle ==
    /\ Command
    /\ idle' = TRUE
    /\ UNCHANGED <<folderVars, state, selected, mails, checking,
                   clientVars, uidVars, history, changes>>

Done ==
    /\ idle
    /\ checking = None
    /\ idle' = FALSE
    /\ UNCHANGED <<folderVars, state, selected, mails, checking,
                   clientVars, uidVars, history, changes>>
-----------------------------------------------------------------------------
CountsOnly ==
    LET expunges == {i \in DOMAIN mails : mails[i].mail \notin InStore}
    IN  /\ idle /\ checking = None /\ dirty
        /\ dirty' = FALSE
        /\ checking' = IF selected /\ Len(mails) # Cardinality(InStore)
                       THEN [seen |-> InStore, expunges |-> expunges]
                       ELSE None
        /\ UNCHANGED <<store, nextUid, leaving, loginVars, mails, clientVars,
                       uidVars, history, changes>>

(* store_watch.changed() in the idle select, and check_new_mail up to the  *)
(* second read of the store: the folder is compared with the session's     *)
(* list by element id, and the numbers of the departed mails are taken.    *)
WakeUp ==
    LET expunges == {i \in DOMAIN mails : mails[i].mail \notin InStore}
    IN  /\ idle /\ checking = None /\ dirty
        /\ dirty' = FALSE
        /\ checking' = IF selected /\ InSession # InStore
                       THEN [seen |-> InStore, expunges |-> expunges]
                       ELSE None
        /\ UNCHANGED <<store, nextUid, leaving, loginVars, mails, clientVars,
                       uidVars, history, changes>>

(* The changes of the numbering that no response reports: a mail departed  *)
(* between the two reads; a mail of the list has another UID now; a mail   *)
(* the session expunged from its list is still in the store; a mail that   *)
(* stays comes after one that was not before it.                           *)
Vanished == (InSession \cap checking.seen) \ InStore # {}
Renumbered ==
    \E i \in DOMAIN mails : store[mails[i].mail] \notin {None, mails[i].uid}
Revived == leaving \ InSession # {}
Shuffled(list) ==
    LET kept == DOMAIN mails \ checking.expunges
    IN  \E i, j \in DOMAIN list, k \in kept :
            /\ i < j
            /\ list[j].mail = mails[k].mail
            /\ \A l \in kept : l < k => mails[l].mail # list[i].mail

(* refresh_mails, the second read, and the responses: EXPUNGE of the       *)
(* numbers taken before, highest first, then EXISTS.  A new order of the   *)
(* mails that stay is excused in a folder with misfit UIDs alone.          *)
Report ==
    /\ checking # None
    /\ checking' = None
    /\ mails' \in RefreshMails
    /\ view' = OnExists(Expunged(view, Descending(checking.expunges)),
                        Cardinality(InStore))
    /\ untold' = (untold \/ Vanished \/ Renumbered \/ Revived
                         \/ (misfit /\ Shuffled(mails')))
    /\ picked' = {}
    /\ UNCHANGED <<folderVars, loginVars, uidVars, astray, changes>>
-----------------------------------------------------------------------------
(* What the client names in STORE and MOVE: messages it has fetched, by    *)
(* number or by UID.                                                       *)
Fetched == {i \in DOMAIN view : view[i] # None}
Names ==
    {n \in [byUid : {FALSE}, set : SUBSET Fetched]
           \cup [byUid : {TRUE}, set : SUBSET {view[i].uid : i \in Fetched}] :
        n.set # {}}

Named(names) ==
    {i \in Fetched : (IF names.byUid THEN view[i].uid ELSE i) \in names.set}
Meant(names) == {view[i].mail : i \in Named(names)}

NumbersOnly(names) == names.set \cap DOMAIN mails

(* resolve_sequence_set and seq_to_index: by UID the first mail that has   *)
(* it.                                                                     *)
Resolve(names) ==
    IF names.byUid
    THEN {i \in DOMAIN mails :
             /\ mails[i].uid \in names.set
             /\ \A j \in DOMAIN mails : j < i => mails[j].uid # mails[i].uid}
    ELSE names.set \cap DOMAIN mails

(* The UIDs that two mails have had in this folder. *)
Shared ==
    {u \in {a.uid : a \in borne} :
        \E a, b \in borne : a.uid = u /\ b.uid = u /\ a.mail # b.mail}

(* The mails a command may take: the ones the client meant, whatever its   *)
(* message numbers point at once the numbering changed untold, and any     *)
(* mail of a UID that was shared.                                          *)
Allowed(names) ==
    Meant(names) \cup
        {mails[i].mail : i \in {j \in Resolve(names) :
                                  IF names.byUid THEN mails[j].uid \in Shared
                                  ELSE untold}}

(* The mails whose flag the client may trust to be cleared. *)
Cleared(names) ==
    {view[i].mail : i \in {j \in Named(names) :
                             /\ ~untold
                             /\ names.byUid => view[j].uid \notin Shared}}

(* STORE and UID STORE of \Deleted: FLAGS and +FLAGS set it, -FLAGS clears *)
(* it.  Nothing reaches the server.                                        *)
Store(names, remove) ==
    /\ Command
    /\ state = "Selected"
    /\ mails' = [i \in DOMAIN mails |->
                    IF i \in Resolve(names)
                    THEN [mails[i] EXCEPT !.deleted = ~remove]
                    ELSE mails[i]]
    /\ picked' = IF remove THEN picked \ Cleared(names)
                 ELSE picked \cup Allowed(names)
    /\ UNCHANGED <<folderVars, loginVars, checking, view, uidVars, history,
                   changes>>

SameNumbers(S) == Ascending(S)

(* The EXPUNGE responses of cmd_expunge and cmd_move: from the front, each *)
(* number counted after the removals before it.                            *)
ExpungeNumbers(S) ==
    LET order == Ascending(S) IN [k \in DOMAIN order |-> order[k] - (k - 1)]

(* The server takes the mails at the positions S out of the folder; the    *)
(* session drops them from its list and says so.  When a request fails, an *)
(* earlier chunk may already be through, and the session keeps them all.   *)
TakeOut(S, allowed) ==
    LET out == {mails[i].mail : i \in S}
        Leave(through) ==
            /\ leaving' = leaving \cup (through \cap InStore)
            /\ astray' = (astray \/ through \ allowed # {})
    IN  \/ /\ Leave(out)
           /\ mails' = Without(mails, S)
           /\ view' = Expunged(view, ExpungeNumbers(S))
           /\ picked' = picked \ out
        \/ /\ \E through \in SUBSET out : Leave(through)
           /\ UNCHANGED <<mails, view, picked>>

(* EXPUNGE: every mail flagged \Deleted is trashed, or deleted for good in *)
(* Trash and Spam.                                                         *)
Expunge ==
    /\ Command
    /\ state = "Selected"
    /\ TakeOut({i \in DOMAIN mails : mails[i].deleted}, picked)
    /\ UNCHANGED <<store, nextUid, dirty, loginVars, checking, uidVars, untold,
                   changes>>

(* MOVE and UID MOVE to another folder. *)
MoveTo(names) ==
    /\ Command
    /\ state = "Selected"
    /\ TakeOut(Resolve(names), Allowed(names))
    /\ UNCHANGED <<store, nextUid, dirty, loginVars, checking, uidVars, untold,
                   changes>>
-----------------------------------------------------------------------------
Next ==
    \/ \E m \in Mail :
           Arrive(m) \/ ArriveWithoutUid(m) \/ Depart(m) \/ Follow(m)
    \/ Reconnect \/ Login \/ Authenticate \/ Logout \/ Close
    \/ Select \/ Fetch \/ Idle \/ Done \/ WakeUp \/ Report
    \/ \E names \in Names :
           \/ MoveTo(names)
           \/ \E remove \in BOOLEAN : Store(names, remove)
    \/ Expunge

Spec == Init /\ [][Next]_vars

(* The loop polls the watch while it idles and finishes the check it has   *)
(* begun; the event of a mail that left reaches the store in the end.      *)
FairSpec ==
    /\ Spec
    /\ WF_vars(WakeUp)
    /\ WF_vars(Report)
    /\ \A m \in Mail : WF_vars(Follow(m))
-----------------------------------------------------------------------------
NumbersMatch ==
    /\ Len(view) = Len(mails)
    /\ \A i \in DOMAIN view : view[i] \in {None, Shown(mails[i])}

(* A message number means the same mail to the client and to the session,  *)
(* after any sequence of commands and store updates reported while idling. *)
(* The exceptions: a mail departed between the two reads of                *)
(* check_new_mail, was given another UID, or came back before its move was *)
(* through; and, in a folder with misfit UIDs alone, a new mail sorted     *)
(* before an old one or mails of one UID changed places.                   *)
NumbersAgree == checking = None /\ ~untold => NumbersMatch

(* MOVE and EXPUNGE never take a mail the client did not pick, however the *)
(* list moved between the client's STORE and its EXPUNGE: by message       *)
(* number as long as the numbering did not change untold, by UID unless    *)
(* two mails had that very UID.                                            *)
OnlyPickedLeave == ~astray

(* A client that stays in IDLE on a folder is brought to what the store    *)
(* holds: no change announced while the loop was elsewhere, or during a    *)
(* check, is lost.                                                         *)
IdleCatchesUp ==
    <>[](idle /\ selected)
        => <>[](InSession = InStore /\ Len(view) = Cardinality(InStore))
=============================================================================
