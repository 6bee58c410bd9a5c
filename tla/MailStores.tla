----------------------------- MODULE MailStores -----------------------------
(***************************************************************************)
(* The two stores of the bridge as values and the operations on them:      *)
(*   - LocalStore (crates/bridge/src/store.rs), the encrypted database:    *)
(*     one metadata row per mail, the UID counter of every folder;         *)
(*   - MailStore (crates/bridge/src/sync.rs), the copy in memory that the  *)
(*     IMAP sessions read: the mails of every folder.                      *)
(* Of a mail's metadata the model keeps the read flag, the field that      *)
(* events update; subject and sender are refreshed together with it.       *)
(***************************************************************************)
EXTENDS Integers, FiniteSets

CONSTANTS
    Mail,    \* element ids of mails
    Folder,  \* ids of folders
    None     \* no folder, row or entry

ASSUME StoreAssumption ==
    /\ IsFiniteSet(Mail)
    /\ None \notin Mail \cup Folder

(* A row of the table "mails"; its key is the mail. *)
Row == [folder : Folder, uid : Nat, unread : BOOLEAN, details : BOOLEAN]

(* StoredMail: a mail of a folder in memory. *)
Entry == [uid : Nat, unread : BOOLEAN, body : BOOLEAN]

ASSUME NoneAssumption == None \notin Row \cup Entry

Rows == [Mail -> Row \cup {None}]
FolderMails == [Mail -> Entry \cup {None}]
-----------------------------------------------------------------------------
(* LocalStore. *)

(* mail_to_metadata: the row the handler and the syncer write. *)
MailToMetadata(f, e) ==
    [folder |-> f, uid |-> e.uid, unread |-> e.unread, details |-> FALSE]

(* upsert_mail_metadata: on conflict every column but the UID is replaced. *)
UpsertMailMetadata(rows, m, r) ==
    [rows EXCEPT ![m] = IF rows[m] = None THEN r
                        ELSE [r EXCEPT !.uid = rows[m].uid]]

(* upsert_mail_metadata_batch: the same for every mail of a listing, but   *)
(* a row keeps its has_details.                                            *)
UpsertMailMetadataBatch(rows, f, mails) ==
    [m \in Mail |->
        IF mails[m] = None THEN rows[m]
        ELSE IF rows[m] = None THEN MailToMetadata(f, mails[m])
        ELSE [MailToMetadata(f, mails[m]) EXCEPT !.uid = rows[m].uid,
                                                 !.details = rows[m].details]]

(* mark_has_details and refresh_mail_fields are UPDATEs: without a row     *)
(* they do nothing.                                                        *)
MarkHasDetails(rows, m) ==
    [rows EXCEPT ![m] = IF rows[m] = None THEN None
                        ELSE [rows[m] EXCEPT !.details = TRUE]]

RefreshMailFields(rows, m, unread) ==
    [rows EXCEPT ![m] = IF rows[m] = None THEN None
                        ELSE [rows[m] EXCEPT !.unread = unread]]

(* load_folder_metadata: the mails whose row is in the folder. *)
RowsOf(rows, f) == {m \in Mail : rows[m] # None /\ rows[m].folder = f}

(* DELETE FROM mails, for a set of mails. *)
DeleteRows(rows, gone) == [m \in Mail |-> IF m \in gone THEN None ELSE rows[m]]

(* Mutant of AllocateFolderUids: the counter is not advanced in the loop. *)
AllocateSameUid(next, new) == {[m \in new |-> next]}

(* allocate_folder_uids: the UIDs a folder whose counter is at next may    *)
(* give to new mails, consecutive and oldest first.  Dates are abstracted: *)
(* any order.                                                              *)
AllocateFolderUids(next, new) ==
    {u \in [new -> next .. (next + Cardinality(new) - 1)] :
        \A m, n \in new : u[m] = u[n] => m = n}
-----------------------------------------------------------------------------
(* MailStore. *)

NoMails == [m \in Mail |-> None]

(* find_mail_anywhere and is_mail_anywhere: the folders that hold a mail. *)
FindMailAnywhere(mem, m) == {f \in Folder : mem[f][m] # None}

UpsertMailInFolder(mem, f, m, e) == [mem EXCEPT ![f] = [@ EXCEPT ![m] = e]]

RemoveMailFromFolder(mem, f, m) == [mem EXCEPT ![f] = [@ EXCEPT ![m] = None]]

RemoveMailEverywhere(mem, m) == [f \in Folder |-> [mem[f] EXCEPT ![m] = None]]

(* refresh_mail_in_place: new metadata in every folder that holds it. *)
RefreshMailInPlace(mem, m, unread) ==
    [f \in Folder |->
        [mem[f] EXCEPT ![m] = IF mem[f][m] = None THEN None
                              ELSE [mem[f][m] EXCEPT !.unread = unread]]]

(* prune_unknown_folders: folders the server no longer has are dropped. *)
PruneUnknownFolders(mem, known) ==
    [f \in Folder |-> IF f \in known THEN mem[f] ELSE NoMails]

(* load_cached_folder: the folder as the rows and the .eml files show it. *)
CachedFolder(rows, eml, f) ==
    [m \in Mail |->
        IF m \in RowsOf(rows, f)
        THEN [uid |-> rows[m].uid, unread |-> rows[m].unread,
              body |-> m \in eml]
        ELSE None]
=============================================================================
