------------------------------ MODULE MailSync ------------------------------
(***************************************************************************)
(* What keeps the two mail stores in line with the account: the syncer's   *)
(* startup and sync_folder (crates/bridge/src/sync.rs), the application of  *)
(* an event batch (crates/bridge/src/event_handler.rs), and the event bus  *)
(* under them (EventBus, whose every step a step of this module takes).    *)
(* Bodies that are fetched later are the subject of Bodies.                *)
(*                                                                         *)
(* The server (external) is the account: where every mail is and whether   *)
(* it is read.  A batch carries the events of one change: the MailSetEntry *)
(* it creates and deletes, the Mail event, or a MailSet event.             *)
(***************************************************************************)
EXTENDS EventBus, MailStores

CONSTANTS
    InitFolders,  \* the folders the account has at the start
    MaxFails      \* bound: requests that fail and entries that do not decode

Event == {"none", "update", "delete"}

BatchRecord ==
    [mail : Mail \cup {None}, new : BOOLEAN, create : Folder \cup {None},
     delete : Folder \cup {None}, event : Event, unread : BOOLEAN,
     folders : Folder \cup {None}]

(* Where a mail is on the server, and a call of sync_folder in flight. *)
Place == [folder : Folder, unread : BOOLEAN]
SyncCall == [folder : Folder, step : {"listed", "upserted", "pruned"},
             mails : FolderMails, gone : SUBSET Mail]

ASSUME SyncAssumption ==
    /\ Batch = BatchRecord
    /\ None \notin Place \cup SyncCall
    /\ InitFolders \subseteq Folder
    /\ InitFolders # {}
    /\ MaxFails \in Nat

VARIABLES
    srv,         \* server: where a mail is and whether it is unread
    srvFolders,  \* server: the folders
    rows,        \* disk: table mails
    nextUid,     \* disk: table sync_state, next_uid of a folder
    eml,         \* disk: mails with a .eml.enc file
    fts,         \* disk: mails in the full-text index
    fullDone,    \* disk: marker full_metadata_synced_v1
    ftsDone,     \* disk: marker body_fts_indexed_v1
    known,       \* memory: folder_list
    keys,        \* memory: folders that have an entry in the map
    mem,         \* memory: the mails of every folder
    boot,        \* run_syncer: where it is
    todo,        \* run_syncer: folders its current loop has not done
    allOk,       \* run_syncer: no folder of the full sync failed so far
    pc,          \* apply_batch: where it is
    pend,        \* apply_mail_set_entry_create: the entry about to be stored
    fall,        \* apply_batch: fallback_folders
    syn,         \* sync_folder: the call in flight, or None
    fails,       \* how many of MaxFails have happened
    issued,      \* history: UIDs allocated, <<folder, uid, mail>>
    refiled,     \* history: mails whose row changed folder and kept its UID
    missed,      \* history: failures that cost an update since a full sync
    owed         \* history: the start whose first full sync is incomplete, or 0

disk == <<rows, nextUid, eml, fts, fullDone, ftsDone>>
memory == <<known, keys, mem>>
syncer == <<boot, todo, allOk>>
handler == <<pc, pend, fall>>
history == <<issued, refiled, missed, owed>>

vars == <<busVars, srv, srvFolders, disk, memory, syncer, handler, syn,
          fails, history>>

(* What costs an update: a failed request for the folder list, a listing by *)
(* sync_folder or the mail of an UPDATE; the entry id of a DELETE that does *)
(* not decode; a replay that is cut off, by a stop or by a reconnect with a *)
(* cursor beyond it; and a stop while the row of a mail is in a folder the  *)
(* mail has left.                                                           *)
Failure == {"list", "sync", "update", "entry", "replay", "row"}

TypeOK ==
    /\ BusTypeOK
    /\ srv \in [Mail -> Place \cup {None}]
    /\ srvFolders \in SUBSET Folder
    /\ rows \in Rows
    /\ nextUid \in [Folder -> Nat]
    /\ eml \in SUBSET Mail
    /\ fts \in SUBSET Mail
    /\ fullDone \in BOOLEAN
    /\ ftsDone \in BOOLEAN
    /\ known \in SUBSET Folder
    /\ keys \in SUBSET Folder
    /\ mem \in [Folder -> FolderMails]
    /\ boot \in {"off", "folders", "load", "sync", "release", "backfill",
                 "prefetch"}
    /\ todo \in SUBSET Folder
    /\ allOk \in BOOLEAN
    /\ pc \in {"idle", "refresh", "create", "store", "delete", "mail",
               "fallback"}
    /\ pend \in Entry \cup {None}
    /\ fall \in SUBSET Folder
    /\ syn \in SyncCall \cup {None}
    /\ fails \in Nat
    /\ issued \in SUBSET (Folder \X Nat \X Mail)
    /\ refiled \in SUBSET Mail
    /\ missed \in SUBSET Failure
    /\ owed \in Nat

EmptyMem == [f \in Folder |-> NoMails]

(* The account as the first start finds it: mails anywhere, or nowhere. *)
Init ==
    /\ BusInit
    /\ srv \in [Mail -> [folder : InitFolders, unread : {TRUE}] \cup {None}]
    /\ srvFolders = InitFolders
    /\ rows = [m \in Mail |-> None]
    /\ nextUid = [f \in Folder |-> 1]
    /\ eml = {}
    /\ fts = {}
    /\ fullDone = FALSE
    /\ ftsDone = FALSE
    /\ known = {}
    /\ keys = {}
    /\ mem = EmptyMem
    /\ boot = "off"
    /\ todo = {}
    /\ allOk = TRUE
    /\ pc = "idle"
    /\ pend = None
    /\ fall = {}
    /\ syn = None
    /\ fails = 0
    /\ issued = {}
    /\ refiled = {}
    /\ missed = {}
    /\ owed = 0

(* A request fails. *)
Fail == fails < MaxFails /\ fails' = fails + 1
-----------------------------------------------------------------------------
(* The server: one change of the account, and the batch that tells it. *)

bridgeVars == <<disk, memory, syncer, handler, syn, fails, history>>

NoEvents ==
    [mail |-> None, new |-> FALSE, create |-> None, delete |-> None,
     event |-> "none", unread |-> FALSE, folders |-> None]

(* A mail arrives. *)
Deliver(m, f) ==
    /\ srv[m] = None
    /\ \A i \in 1 .. Len(log) : log[i].mail # m
    /\ f \in srvFolders
    /\ Emit([NoEvents EXCEPT !.mail = m, !.new = TRUE, !.create = f,
                             !.unread = TRUE])
    /\ srv' = [srv EXCEPT ![m] = [folder |-> f, unread |-> TRUE]]
    /\ UNCHANGED <<srvFolders, bridgeVars>>

Move(m, f) ==
    /\ srv[m] # None
    /\ f \in srvFolders \ {srv[m].folder}
    /\ Emit([NoEvents EXCEPT !.mail = m, !.create = f,
                             !.delete = srv[m].folder])
    /\ srv' = [srv EXCEPT ![m] = [@ EXCEPT !.folder = f]]
    /\ UNCHANGED <<srvFolders, bridgeVars>>

(* Read or unread: the event carries the mail as it is now. *)
Mark(m) ==
    /\ srv[m] # None
    /\ Emit([NoEvents EXCEPT !.mail = m, !.event = "update",
                             !.unread = ~srv[m].unread])
    /\ srv' = [srv EXCEPT ![m] = [@ EXCEPT !.unread = ~srv[m].unread]]
    /\ UNCHANGED <<srvFolders, bridgeVars>>

Purge(m) ==
    /\ srv[m] # None
    /\ Emit([NoEvents EXCEPT !.mail = m, !.delete = srv[m].folder,
                             !.event = "delete"])
    /\ srv' = [srv EXCEPT ![m] = None]
    /\ UNCHANGED <<srvFolders, bridgeVars>>

(* A folder is created once, and deleted when it holds no mail; an account *)
(* always has its system folders.                                          *)
AddFolder(f) ==
    /\ f \notin srvFolders
    /\ \A i \in 1 .. Len(log) : log[i].folders # f
    /\ Emit([NoEvents EXCEPT !.folders = f])
    /\ srvFolders' = srvFolders \cup {f}
    /\ UNCHANGED <<srv, bridgeVars>>

RemoveFolder(f) ==
    /\ f \in srvFolders
    /\ srvFolders # {f}
    /\ \A m \in Mail : srv[m] # None => srv[m].folder # f
    /\ Emit([NoEvents EXCEPT !.folders = f])
    /\ srvFolders' = srvFolders \ {f}
    /\ UNCHANGED <<srv, bridgeVars>>

Server ==
    \/ \E m \in Mail, f \in Folder : Deliver(m, f) \/ Move(m, f)
    \/ \E m \in Mail : Mark(m) \/ Purge(m)
    \/ \E f \in Folder : AddFolder(f) \/ RemoveFolder(f)
-----------------------------------------------------------------------------
(* sync_folder: a full listing of one folder, called by run_syncer in its  *)
(* full sync and by apply_batch as its fallback.                           *)

(* The folders the caller still has to sync: the loop of run_syncer, or    *)
(* the fallbacks of apply_batch that are in the folder list.               *)
Syncable ==
    IF boot = "sync" THEN todo
    ELSE IF pc = "fallback" THEN fall \cap known
    ELSE {}

(* The caller goes on to its next folder. *)
SyncReturns(f) ==
    IF boot = "sync" THEN todo' = todo \ {f} /\ UNCHANGED fall
    ELSE fall' = fall \ {f} /\ UNCHANGED todo

(* load_mail_ids_for_folder answers with the folder as it is now. *)
SyncList(f) ==
    /\ syn = None
    /\ f \in Syncable
    /\ syn' = [folder |-> f, step |-> "listed", gone |-> {},
               mails |-> [m \in Mail |->
                   IF srv[m] # None /\ srv[m].folder = f
                   THEN [uid |-> 0, unread |-> srv[m].unread, body |-> FALSE]
                   ELSE None]]
    /\ UNCHANGED <<busVars, srv, srvFolders, disk, memory, syncer, handler,
                   fails, history>>

(* The listing fails for good: the caller logs it and goes on. *)
SyncFails(f) ==
    /\ syn = None
    /\ f \in Syncable
    /\ Fail
    /\ SyncReturns(f)
    /\ allOk' = (allOk /\ boot # "sync")
    /\ missed' = missed \cup {"sync"}
    /\ UNCHANGED <<busVars, srv, srvFolders, disk, memory, boot, pc, pend,
                   syn, issued, refiled, owed>>

(* UIDs for the mails not in memory; the others keep the UID and the body  *)
(* they have there.  Then the rows are written.                            *)
SyncUpsert ==
    /\ syn # None
    /\ syn.step = "listed"
    /\ LET f == syn.folder
           new == {m \in Mail : syn.mails[m] # None /\ mem[f][m] = None}
       IN \E u \in AllocateFolderUids(nextUid[f], new) :
          LET updated ==
              [m \in Mail |->
                  IF syn.mails[m] = None THEN None
                  ELSE [uid |-> IF m \in new THEN u[m] ELSE mem[f][m].uid,
                        unread |-> syn.mails[m].unread,
                        body |-> m \notin new /\ mem[f][m].body]]
          IN /\ syn' = [syn EXCEPT !.step = "upserted", !.mails = updated]
             /\ rows' = UpsertMailMetadataBatch(rows, f, updated)
             /\ nextUid' = [nextUid EXCEPT ![f] = @ + Cardinality(new)]
             /\ issued' = issued \cup {<<f, u[m], m>> : m \in new}
             /\ refiled' = refiled \cup
                   {m \in Mail : /\ updated[m] # None
                                 /\ rows[m] # None
                                 /\ rows[m].folder # f}
    /\ UNCHANGED <<busVars, srv, srvFolders, eml, fts, fullDone, ftsDone,
                   memory, syncer, handler, fails, missed,
                   owed>>

(* delete_mails_not_in: the rows of the folder that were not listed go. *)
SyncPrune ==
    /\ syn # None
    /\ syn.step = "upserted"
    /\ LET gone == {m \in RowsOf(rows, syn.folder) : syn.mails[m] = None}
       IN /\ rows' = DeleteRows(rows, gone)
          /\ syn' = [syn EXCEPT !.step = "pruned", !.gone = gone]
    /\ UNCHANGED <<busVars, srv, srvFolders, nextUid, eml, fts, fullDone,
                   ftsDone, memory, syncer, handler, fails,
                   history>>

(* Their bodies and index entries go, and the folder is replaced. *)
SyncSet ==
    /\ syn # None
    /\ syn.step = "pruned"
    /\ eml' = eml \ syn.gone
    /\ fts' = fts \ syn.gone
    /\ mem' = [mem EXCEPT ![syn.folder] = syn.mails]
    /\ keys' = keys \cup {syn.folder}
    /\ syn' = None
    /\ SyncReturns(syn.folder)
    /\ UNCHANGED <<busVars, srv, srvFolders, rows, nextUid, fullDone, ftsDone,
                   known, boot, allOk, pc, pend, fails, history>>

SyncFolder ==
    \/ \E f \in Folder : SyncList(f) \/ SyncFails(f)
    \/ SyncUpsert
    \/ SyncPrune
    \/ SyncSet
-----------------------------------------------------------------------------
(* The start of the bridge and run_syncer. *)

BridgeStart(expired) ==
    /\ Start(expired)
    /\ boot' = "folders"
    /\ UNCHANGED <<srv, srvFolders, disk, memory, todo, allOk, handler, syn,
                   fails, history>>

(* The folder list; when it cannot be had the list is empty. *)
BootFolders ==
    /\ boot = "folders"
    /\ known' = srvFolders
    /\ boot' = "load"
    /\ todo' = srvFolders
    /\ UNCHANGED <<busVars, srv, srvFolders, disk, keys, mem, allOk, handler,
                   syn, fails, history>>

BootFoldersFails ==
    /\ boot = "folders"
    /\ Fail
    /\ boot' = "load"
    /\ missed' = missed \cup {"list"}
    /\ UNCHANGED <<busVars, srv, srvFolders, disk, memory, todo, allOk,
                   handler, syn, issued, refiled, owed>>

(* load_cached_folder, which also heals rows whose body is on disk. *)
BootLoad(f) ==
    /\ boot = "load"
    /\ f \in todo
    /\ todo' = todo \ {f}
    /\ mem' = [mem EXCEPT ![f] = CachedFolder(rows, eml, f)]
    /\ keys' = keys \cup {f}
    /\ rows' = [m \in Mail |->
                   IF m \in RowsOf(rows, f) \cap eml
                   THEN [rows[m] EXCEPT !.details = TRUE]
                   ELSE rows[m]]
    /\ UNCHANGED <<busVars, srv, srvFolders, nextUid, eml, fts, fullDone,
                   ftsDone, known, boot, allOk, handler, syn, fails,
                   history>>

(* do_full_sync: no cursor, or no full sync was ever completed. *)
DoFullSync == (diskCur = 0 \/ ~fullDone) /\ known # {}

BootDecide ==
    /\ boot = "load"
    /\ todo = {}
    /\ boot' = IF DoFullSync THEN "sync" ELSE "release"
    /\ todo' = IF DoFullSync THEN known ELSE {}
    /\ allOk' = TRUE
    /\ owed' = IF DoFullSync THEN 0 ELSE owed
    /\ UNCHANGED <<busVars, srv, srvFolders, disk, memory, handler, syn,
                   fails, issued, refiled, missed>>

(* Mutant of BootMark: the marker is set although a folder failed. *)
BootMarkAlways ==
    /\ boot = "sync"
    /\ todo = {}
    /\ syn = None
    /\ boot' = "release"
    /\ fullDone' = TRUE
    /\ missed' = IF allOk THEN {} ELSE missed
    /\ owed' = IF allOk \/ fullDone THEN 0 ELSE crashes + 1
    /\ UNCHANGED <<busVars, srv, srvFolders, rows, nextUid, eml, fts, ftsDone,
                   memory, todo, allOk, handler, syn, fails,
                   issued, refiled>>

(* The full sync is over: the marker is set if every folder was listed. *)
BootMark ==
    /\ boot = "sync"
    /\ todo = {}
    /\ syn = None
    /\ boot' = "release"
    /\ fullDone' = (fullDone \/ allOk)
    /\ missed' = IF allOk THEN {} ELSE missed
    /\ owed' = IF allOk \/ fullDone THEN 0 ELSE crashes + 1
    /\ UNCHANGED <<busVars, srv, srvFolders, rows, nextUid, eml, fts, ftsDone,
                   memory, todo, allOk, handler, syn, fails,
                   issued, refiled>>

(* startup_done; the backfill of the full-text index runs once per install. *)
BootRelease ==
    /\ boot = "release"
    /\ Release
    /\ LET backfill == ~ftsDone /\ known # {}
       IN /\ boot' = IF backfill THEN "backfill" ELSE "prefetch"
          /\ todo' = IF backfill THEN known ELSE {}
    /\ UNCHANGED <<srv, srvFolders, disk, memory, allOk, handler, syn,
                   fails, history>>

Backfill(f) ==
    /\ boot = "backfill"
    /\ f \in todo
    /\ todo' = todo \ {f}
    /\ fts' = fts \cup {m \in RowsOf(rows, f) \cap eml : rows[m].details}
    /\ UNCHANGED <<busVars, srv, srvFolders, rows, nextUid, eml, fullDone,
                   ftsDone, memory, boot, allOk, handler, syn, fails,
                   history>>

BackfillDone ==
    /\ boot = "backfill"
    /\ todo = {}
    /\ ftsDone' = TRUE
    /\ boot' = "prefetch"
    /\ UNCHANGED <<busVars, srv, srvFolders, rows, nextUid, eml, fts, fullDone,
                   memory, todo, allOk, handler, syn, fails,
                   history>>

Syncer ==
    \/ \E expired \in BOOLEAN : BridgeStart(expired)
    \/ BootFolders
    \/ BootFoldersFails
    \/ \E f \in Folder : BootLoad(f) \/ Backfill(f)
    \/ BootDecide
    \/ BootMark
    \/ BootRelease
    \/ BackfillDone

(* A row that says a mail is in a folder of which neither memory nor a      *)
(* listing under way has it: EntryDelete leaves it behind when the mail is  *)
(* in another folder and the CREATE of its batch did not move the row.      *)
RowIsStale(m) ==
    /\ ready
    /\ rows[m] # None
    /\ rows[m].folder \in known
    /\ mem[rows[m].folder][m] = None
    /\ syn # None => syn.folder # rows[m].folder \/ syn.mails[m] = None

(* A crash, or a stop: what is in memory is gone.  A batch that a reconnect *)
(* had the server send again may at that moment have taken the stores back  *)
(* to where it left them, with the cursor on disk beyond it: the batches in *)
(* between are not sent a third time.                                       *)
BridgeCrash ==
    /\ Crash
    /\ known' = {}
    /\ keys' = {}
    /\ mem' = EmptyMem
    /\ boot' = "off"
    /\ todo' = {}
    /\ allOk' = TRUE
    /\ pc' = "idle"
    /\ pend' = None
    /\ fall' = {}
    /\ syn' = None
    /\ missed' = missed
          \cup (IF cur # 0 /\ cur < diskCur THEN {"replay"} ELSE {})
          \cup (IF \E m \in Mail : RowIsStale(m) THEN {"row"} ELSE {})
    /\ UNCHANGED <<srv, srvFolders, disk, fails, issued, refiled, owed>>
-----------------------------------------------------------------------------
(* apply_batch: the event handler applies one batch. *)

(* Where apply_batch goes next: it skips the loops that have no event. *)
AtMail(b) == IF b.event # "none" THEN "mail" ELSE "fallback"
AtDelete(b) == IF b.delete # None THEN "delete" ELSE AtMail(b)
AtCreate(b) == IF b.create # None THEN "create" ELSE AtDelete(b)

HandlerTake ==
    /\ Take
    /\ pc' = IF log[cur'].folders # None THEN "refresh" ELSE AtCreate(log[cur'])
    /\ UNCHANGED <<srv, srvFolders, disk, memory, syncer, pend, fall, syn,
                   fails, history>>

(* refresh_folder_list: folders that are gone are pruned from memory, with *)
(* their rows and bodies; the index keeps their entries.                   *)
RefreshFolderList ==
    /\ pc = "refresh"
    /\ LET removed == keys \ srvFolders
           gone == UNION {RowsOf(rows, f) : f \in removed}
       IN /\ known' = srvFolders
          /\ keys' = keys \ removed
          /\ mem' = PruneUnknownFolders(mem, srvFolders)
          /\ rows' = DeleteRows(rows, gone)
          /\ eml' = eml \ gone
    /\ pc' = AtCreate(log[cur])
    /\ UNCHANGED <<busVars, srv, srvFolders, nextUid, fts, fullDone, ftsDone,
                   syncer, pend, fall, syn, fails, history>>

RefreshFails ==
    /\ pc = "refresh"
    /\ Fail
    /\ missed' = missed \cup {"list"}
    /\ pc' = AtCreate(log[cur])
    /\ UNCHANGED <<busVars, srv, srvFolders, disk, memory, syncer, pend, fall,
                   syn, issued, refiled, owed>>

(* apply_mail_set_entry_create, for a folder that is not in the list: it   *)
(* becomes a fallback, which apply_batch will not find in the list either. *)
CreateUnknown ==
    /\ pc = "create"
    /\ log[cur].create \notin known
    /\ fall' = fall \cup {log[cur].create}
    /\ pc' = AtDelete(log[cur])
    /\ UNCHANGED <<busVars, srv, srvFolders, disk, memory, syncer, pend, syn,
                   fails, history>>

(* Mutant of CreateFails: the failure is logged, and no fallback is set. *)
CreateFailsQuietly ==
    /\ pc = "create"
    /\ log[cur].create \in known
    /\ Fail
    /\ pc' = AtDelete(log[cur])
    /\ UNCHANGED <<busVars, srv, srvFolders, disk, memory, syncer, pend, fall,
                   syn, history>>

(* The entry does not decode or load_mail fails: a full sync will do it. *)
CreateFails ==
    /\ pc = "create"
    /\ log[cur].create \in known
    /\ Fail
    /\ fall' = fall \cup {log[cur].create}
    /\ pc' = AtDelete(log[cur])
    /\ UNCHANGED <<busVars, srv, srvFolders, disk, memory, syncer, pend, syn,
                   history>>

(* HIT: the mail is in some folder in memory, and is cloned from there. *)
CreateHit ==
    /\ pc = "create"
    /\ log[cur].create \in known
    /\ \E g \in FindMailAnywhere(mem, log[cur].mail) :
           pend' = mem[g][log[cur].mail]
    /\ pc' = "store"
    /\ UNCHANGED <<busVars, srv, srvFolders, disk, memory, syncer, fall, syn,
                   fails, history>>

(* HIT-FROM-BATCH: the Mail CREATE of the batch was decrypted inline.  If  *)
(* the body was there too and the mail has no attachment it is written     *)
(* now, before the mail has a row.                                         *)
CreateInline(body) ==
    /\ pc = "create"
    /\ log[cur].create \in known
    /\ log[cur].new
    /\ FindMailAnywhere(mem, log[cur].mail) = {}
    /\ pend' = [uid |-> 0, unread |-> log[cur].unread, body |-> body]
    /\ eml' = IF body THEN eml \cup {log[cur].mail} ELSE eml
    /\ rows' = IF body THEN MarkHasDetails(rows, log[cur].mail) ELSE rows
    /\ pc' = "store"
    /\ UNCHANGED <<busVars, srv, srvFolders, nextUid, fts, fullDone, ftsDone,
                   memory, syncer, fall, syn, fails, history>>

(* MISS: load_mail answers with the mail, or that there is none. *)
CreateMiss ==
    /\ pc = "create"
    /\ log[cur].create \in known
    /\ FindMailAnywhere(mem, log[cur].mail) = {}
    /\ IF srv[log[cur].mail] = None
       THEN pc' = AtDelete(log[cur]) /\ UNCHANGED pend
       ELSE /\ pc' = "store"
            /\ pend' = [uid |-> 0, unread |-> srv[log[cur].mail].unread,
                        body |-> FALSE]
    /\ UNCHANGED <<busVars, srv, srvFolders, disk, memory, syncer, fall, syn,
                   fails, history>>

(* assign_uid_and_upsert: a fresh UID, the row, the entry in memory. *)
AssignUidAndUpsert ==
    /\ pc = "store"
    /\ LET m == log[cur].mail
           f == log[cur].create
           e == [pend EXCEPT !.uid = nextUid[f]]
       IN /\ nextUid' = [nextUid EXCEPT ![f] = @ + 1]
          /\ rows' = UpsertMailMetadata(rows, m, MailToMetadata(f, e))
          /\ mem' = UpsertMailInFolder(mem, f, m, e)
          /\ keys' = keys \cup {f}
          /\ issued' = issued \cup {<<f, nextUid[f], m>>}
          /\ refiled' = IF rows[m] # None /\ rows[m].folder # f
                        THEN refiled \cup {m} ELSE refiled
    /\ pend' = None
    /\ pc' = AtDelete(log[cur])
    /\ UNCHANGED <<busVars, srv, srvFolders, eml, fts, fullDone, ftsDone,
                   known, syncer, fall, syn, fails, missed,
                   owed>>

(* Mutant of EntryDelete: the disk is cleaned without is_mail_anywhere. *)
EntryDeleteAlways ==
    /\ pc = "delete"
    /\ LET m == log[cur].mail
           f == log[cur].delete
           drop == IF f \in known THEN {m} ELSE {}
       IN /\ mem' = IF f \in known THEN RemoveMailFromFolder(mem, f, m) ELSE mem
          /\ rows' = DeleteRows(rows, drop)
          /\ eml' = eml \ drop
          /\ fts' = fts \ drop
    /\ pc' = AtMail(log[cur])
    /\ UNCHANGED <<busVars, srv, srvFolders, nextUid, fullDone, ftsDone,
                   known, keys, syncer, pend, fall, syn, fails,
                   history>>

(* apply_mail_set_entry_delete: the mail leaves the folder; when no folder *)
(* in memory has it any more it leaves the disk (delete_mail).  An unknown *)
(* folder is ignored.                                                      *)
EntryDelete ==
    /\ pc = "delete"
    /\ LET m == log[cur].mail
           f == log[cur].delete
           left == RemoveMailFromFolder(mem, f, m)
           drop == IF f \in known /\ FindMailAnywhere(left, m) = {}
                   THEN {m} ELSE {}
       IN /\ mem' = IF f \in known THEN left ELSE mem
          /\ rows' = DeleteRows(rows, drop)
          /\ eml' = eml \ drop
          /\ fts' = fts \ drop
    /\ pc' = AtMail(log[cur])
    /\ UNCHANGED <<busVars, srv, srvFolders, nextUid, fullDone, ftsDone,
                   known, keys, syncer, pend, fall, syn, fails,
                   history>>

(* The entry id does not decode: the event is dropped. *)
EntryDeleteFails ==
    /\ pc = "delete"
    /\ Fail
    /\ missed' = missed \cup {"entry"}
    /\ pc' = AtMail(log[cur])
    /\ UNCHANGED <<busVars, srv, srvFolders, disk, memory, syncer, pend, fall,
                   syn, issued, refiled, owed>>

(* apply_mail_event, UPDATE: the mail as decrypted inline or, failing      *)
(* that, as load_mail answers; a mail that is gone is deleted.             *)
Forget(m) ==
    /\ rows' = DeleteRows(rows, {m})
    /\ eml' = eml \ {m}
    /\ fts' = fts \ {m}
    /\ mem' = RemoveMailEverywhere(mem, m)

Refresh(m, unread) ==
    /\ rows' = RefreshMailFields(rows, m, unread)
    /\ mem' = RefreshMailInPlace(mem, m, unread)
    /\ UNCHANGED <<eml, fts>>

MailUpdate(inline) ==
    /\ pc = "mail"
    /\ log[cur].event = "update"
    /\ LET m == log[cur].mail
       IN IF inline THEN Refresh(m, log[cur].unread)
          ELSE IF srv[m] # None THEN Refresh(m, srv[m].unread)
          ELSE Forget(m)
    /\ pc' = "fallback"
    /\ UNCHANGED <<busVars, srv, srvFolders, nextUid, fullDone, ftsDone,
                   known, keys, syncer, pend, fall, syn, fails,
                   history>>

(* load_mail fails: the mail is deleted all the same. *)
MailUpdateFails ==
    /\ pc = "mail"
    /\ log[cur].event = "update"
    /\ Fail
    /\ Forget(log[cur].mail)
    /\ missed' = missed \cup {"update"}
    /\ pc' = "fallback"
    /\ UNCHANGED <<busVars, srv, srvFolders, nextUid, fullDone, ftsDone,
                   known, keys, syncer, pend, fall, syn, issued,
                   refiled, owed>>

(* apply_mail_event, DELETE. *)
MailDelete ==
    /\ pc = "mail"
    /\ log[cur].event = "delete"
    /\ Forget(log[cur].mail)
    /\ pc' = "fallback"
    /\ UNCHANGED <<busVars, srv, srvFolders, nextUid, fullDone, ftsDone,
                   known, keys, syncer, pend, fall, syn, fails,
                   history>>

(* Mutant of HandlerAdvance: it waits for every fallback, known or not. *)
HandlerWaits ==
    /\ pc = "fallback"
    /\ syn = None
    /\ fall = {}
    /\ Advance
    /\ pc' = "idle"
    /\ UNCHANGED <<srv, srvFolders, disk, memory, syncer, pend, fall, syn,
                   fails, history>>

(* Mutant of HandlerAdvance: it leaves the fallbacks to a later batch. *)
HandlerPostpones ==
    /\ pc = "fallback"
    /\ syn = None
    /\ Advance
    /\ pc' = "idle"
    /\ UNCHANGED <<srv, srvFolders, disk, memory, syncer, pend, fall, syn,
                   fails, history>>

(* apply_batch returns: every fallback in the folder list has been synced. *)
HandlerAdvance ==
    /\ pc = "fallback"
    /\ syn = None
    /\ Syncable = {}
    /\ Advance
    /\ pc' = "idle"
    /\ fall' = {}
    /\ UNCHANGED <<srv, srvFolders, disk, memory, syncer, pend, syn,
                   fails, history>>

Handler ==
    \/ HandlerTake
    \/ RefreshFolderList
    \/ RefreshFails
    \/ CreateUnknown
    \/ CreateFails
    \/ CreateHit
    \/ \E body \in BOOLEAN : CreateInline(body)
    \/ CreateMiss
    \/ AssignUidAndUpsert
    \/ EntryDelete
    \/ EntryDeleteFails
    \/ \E inline \in BOOLEAN : MailUpdate(inline)
    \/ MailUpdateFails
    \/ MailDelete
    \/ HandlerAdvance
-----------------------------------------------------------------------------
(* Steps of the bus that leave the stores alone. *)
Wire ==
    /\ Dial \/ Push \/ Unparsable \/ Drop \/ Terminate \/ Persist
    /\ UNCHANGED <<srv, srvFolders, bridgeVars>>

(* The last batch the handler has or will take from the channel. *)
LastReceived ==
    IF chan # << >> THEN chan[Len(chan)] ELSE IF cur # 0 THEN cur ELSE memCur

(* A connection.  When the channel still ends in a replay of batches that  *)
(* the cursor was past when the client dialed, the server goes on after    *)
(* the cursor: what lies in between is not sent again after the replay.    *)
WireConnect ==
    /\ Connect
    /\ missed' = IF asked > LastReceived THEN missed \cup {"replay"} ELSE missed
    /\ UNCHANGED <<srv, srvFolders, disk, memory, syncer, handler, syn, fails,
                   issued, refiled, owed>>

Next ==
    \/ Server
    \/ SyncFolder
    \/ Syncer
    \/ BridgeCrash
    \/ Handler
    \/ Wire
    \/ WireConnect

Spec == Init /\ [][Next]_vars

(* The tasks of a running bridge make progress. *)
FairSpec ==
    /\ Spec
    /\ WF_vars(SyncFolder)
    /\ WF_vars(Syncer)
    /\ WF_vars(Handler)
    /\ WF_vars(Dial /\ Wire)
    /\ WF_vars(WireConnect)
    /\ WF_vars(Push /\ Wire)
    /\ WF_vars(Persist /\ Wire)
-----------------------------------------------------------------------------
(* The bridge has nothing left to do: it is connected and has handled      *)
(* everything the server has sent.                                         *)
Settled ==
    /\ up
    /\ ready
    /\ ws = "on"
    /\ nextId = Len(log) + 1
    /\ chan = << >>
    /\ stage = "idle"

(* Memory shows every mail where it is, read or unread as it is. *)
MailsMirrored ==
    \A f \in Folder, m \in Mail :
        /\ (mem[f][m] # None) <=> (srv[m] # None /\ srv[m].folder = f)
        /\ mem[f][m] # None => mem[f][m].unread = srv[m].unread

(* A bridge that has settled shows the account, whatever crashes, restarts, *)
(* reconnects and replays it went through and whichever way (clone, inline, *)
(* load_mail, fallback listing) each event was applied, unless a batch never *)
(* reached it, a failed request cost an update, a replay was cut off or a   *)
(* stop left a row behind in a folder its mail had left.  A failed CREATE   *)
(* is no excuse: apply_batch falls back to a listing.                       *)
NoMailMissed ==
    Settled /\ lost = {} /\ missed = {} => known = srvFolders /\ MailsMirrored

(* The bridge does come to show the account, for good, once it stays up and *)
(* its client is not terminated: the first listing, the fallback listings   *)
(* and the batches are all gone through, a failed one is made up for by     *)
(* another, and only what NoMailMissed excepts is an excuse.                *)
EventuallyMirrors ==
    <>[](up /\ ws # "dead") =>
        <>[](lost = {} /\ missed = {} => known = srvFolders /\ MailsMirrored)

(* "Only set the marker if every folder synced, so a transient failure gets *)
(* retried on the next launch" (run_syncer): no start that has the folder   *)
(* list lets the handler go while an earlier start has left the first full  *)
(* sync incomplete.  (The one after a wiped cursor finds the marker of an   *)
(* earlier one set, whatever comes of it; a start whose folder list failed  *)
(* retries nothing, and leaves the marker unset for the next.)              *)
FailedSyncIsRetried ==
    boot = "release" /\ known # {} /\ owed # 0 => owed = crashes + 1

(* A UID of a folder is given to one mail only ("UIDs are never reused",    *)
(* allocate_folder_uids), and two mails of a folder in memory have two UIDs *)
(* unless one of them changed folders in the database.                      *)
UidsNotShared ==
    /\ \A a, b \in issued : a[1] = b[1] /\ a[2] = b[2] => a[3] = b[3]
    /\ \A f \in Folder : \A m, n \in Mail \ refiled :
          (m # n /\ mem[f][m] # None /\ mem[f][n] # None)
              => mem[f][m].uid # mem[f][n].uid

(* A move never costs the body of a mail: apply_batch takes the CREATE of   *)
(* the new folder before the DELETE of the old one, whether that CREATE was *)
(* a clone, inline or loaded, first seen or replayed, so the DELETE finds   *)
(* the mail elsewhere and leaves the disk alone.                            *)
MoveKeepsBody ==
    [][\A m \in eml \ eml' :
          (pc = "delete" /\ log[cur].create \in known /\ fall = {})
              => srv[m] = None]_vars

-----------------------------------------------------------------------------
(* "so the user never silently misses a mail" (event_handler.rs): a failed  *)
(* load_mail does not take a mail away.                                     *)
FailedLoadLosesNothing ==
    Settled /\ lost = {} /\ missed \subseteq {"update"} =>
        \A m \in Mail : srv[m] # None => mem[srv[m].folder][m] # None
=============================================================================
