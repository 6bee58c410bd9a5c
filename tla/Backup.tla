------------------------------- MODULE Backup -------------------------------
(***************************************************************************)
(* The export of a mailbox to .eml files: export_eml (backup.rs), begun by *)
(* the command line (main.rs) or the desktop application (commands.rs),    *)
(* over the folders the server lists (folder_system.rs, tuta.rs), with any *)
(* request or write failing, a crash, and a second run over the first      *)
(* one's files.                                                            *)
(*                                                                         *)
(* Folders are numbered in the order of their ids.  A message is whole or  *)
(* partial: without its text, without its attachments, or cut off.         *)
(***************************************************************************)
EXTENDS Integers, Sequences, SequencesExt, FiniteSets

CONSTANTS
    Folder, Kind, Parent,   \* the mail sets of the account, as a forest
    Mail, Home, ListOf,     \* the folder of each mail, and the list it is stored in
    CachedMail,             \* mails whose .eml.enc file is there
    FolderLimit,            \* folders one request returns
    None,
    MaxFails, MaxCrashes, MaxRuns   \* bounds

VARIABLES
    at,             \* how far export_eml is
    folders, mails, \* what is left of the folders, and of the current one's mails
    cur, body,      \* the mail at hand, and what has been put together of it
    file,           \* the output: what is in the file of each mail, or None
    errors,         \* BackupStats::errors
    outcome,        \* what the last run returned
    fails, crashes, runs

todo == <<folders, mails>>
hand == <<cur, body>>
bounds == <<fails, crashes, runs>>
backupVars == <<at, todo, hand, file, errors, outcome, bounds>>

-----------------------------------------------------------------------------
(* The folders that are exported.                                          *)

\* load_folders_for_mailbox: one request, at most so many mail sets.
Loaded == {f \in Folder : Cardinality({g \in Folder : g < f}) < FolderLimit}

VisibleSystem(f) ==
    Kind[f] \in {"Inbox", "Sent", "Trash", "Archive", "Spam", "Draft", "Scheduled"}

\* FolderSystem::new: the roots of the two trees.
Root(f) == VisibleSystem(f) \/ (Kind[f] = "Custom" /\ Parent[f] = None)

\* The ancestors of a folder and itself, its root first.
PathTo[f \in Folder] ==
    IF Root(f) \/ Parent[f] = None THEN <<f>> ELSE Append(PathTo[Parent[f]], f)

\* indented_list: what hangs, through loaded folders, from a root.
InTree(f) == Range(PathTo[f]) \subseteq Loaded /\ Root(Head(PathTo[f]))

\* The system folders with a name in IMAP; Scheduled has none.
SystemImapName(f) == Kind[f] \in {"Inbox", "Sent", "Trash", "Archive", "Spam", "Draft"}

Listed == {f \in Folder : InTree(f) /\ (Kind[f] = "Custom" \/ SystemImapName(f))}

-----------------------------------------------------------------------------
Fail == fails < MaxFails /\ fails' = fails + 1

Return(result) ==
    /\ at' = "idle" /\ outcome' = result
    /\ folders' = {} /\ mails' = {} /\ cur' = None /\ body' = None

Begin ==
    /\ at = "idle" /\ runs < MaxRuns
    /\ runs' = runs + 1
    /\ at' = "list" /\ errors' = {} /\ outcome' = None
    /\ UNCHANGED <<todo, hand, file, fails, crashes>>

\* `tutabridge backup`: a session of its own, and the cache as it is; with
\* another key its files cannot be read.
RunBackup == Begin

\* The desktop application's: the running bridge's session and cache.
ExportMails == Begin

ListFolders ==
    /\ at = "list"
    /\ \/ /\ at' = "folders" /\ folders' = Listed
          /\ UNCHANGED <<mails, hand, outcome, fails>>
       \/ Fail /\ Return("failed")
    /\ UNCHANGED <<file, errors, crashes, runs>>

\* load_mail_ids_for_folder_impl: all entries of the folder, and the mails they
\* name, list by list; a list that cannot be loaded is left out.
MailsOf(f, left) == {m \in Mail : Home[m] = f /\ ListOf[m] \notin left}

OpenFolder(f) ==
    /\ at = "folders" /\ f \in folders
    /\ \/ /\ at' = "mails" /\ folders' = folders \ {f}
          /\ \/ mails' = MailsOf(f, {}) /\ UNCHANGED fails
             \/ Fail /\ \E l \in {ListOf[m] : m \in Mail} : mails' = MailsOf(f, {l})
          /\ UNCHANGED <<hand, outcome>>
       \/ Fail /\ Return("failed")
    /\ UNCHANGED <<file, errors, crashes, runs>>

\* A file of that name is there: the mail was exported before.
TakeMail(m) ==
    /\ at = "mails" /\ m \in mails
    /\ mails' = mails \ {m}
    /\ \/ file[m] # None /\ UNCHANGED <<at, hand>>
       \/ file[m] = None /\ at' = "read" /\ cur' = m /\ body' = "whole"
    /\ UNCHANGED <<folders, file, errors, outcome, bounds>>

ReadCached ==
    /\ at = "read"
    /\ \/ cur \in CachedMail /\ at' = "write" /\ UNCHANGED fails
       \/ cur \notin CachedMail /\ at' = "details" /\ UNCHANGED fails
       \/ cur \in CachedMail /\ Fail /\ at' = "details"
    /\ UNCHANGED <<todo, hand, file, errors, outcome, crashes, runs>>

\* load_mail_details(..).ok(): what went wrong is forgotten.
LoadDetails ==
    /\ at = "details"
    /\ at' = "files"
    /\ \/ UNCHANGED <<body, fails>>
       \/ Fail /\ body' = "partial"
    /\ UNCHANGED <<todo, cur, file, errors, outcome, crashes, runs>>

\* What went wrong is recorded, and the rest written.
LoadFiles ==
    /\ at = "files"
    /\ at' = "write"
    /\ \/ UNCHANGED <<body, errors, fails>>
       \/ Fail /\ body' = "partial" /\ errors' = errors \cup {cur}
    /\ UNCHANGED <<todo, cur, file, outcome, crashes, runs>>

\* write_private: the file is created, or emptied, and then filled.
WriteFile ==
    /\ at = "write"
    /\ at' = "mails" /\ cur' = None /\ body' = None
    /\ \/ file' = [file EXCEPT ![cur] = body] /\ UNCHANGED <<errors, fails>>
       \/ /\ Fail /\ errors' = errors \cup {cur}
          /\ \E left \in {None, "partial"} : file' = [file EXCEPT ![cur] = left]
    /\ UNCHANGED <<todo, outcome, crashes, runs>>

CloseFolder ==
    /\ at = "mails" /\ mails = {}
    /\ at' = "folders"
    /\ UNCHANGED <<todo, hand, file, errors, outcome, bounds>>

Finish ==
    /\ at = "folders" /\ folders = {}
    /\ Return("complete")
    /\ UNCHANGED <<file, errors, bounds>>

\* The process is stopped; a file it was writing is cut off.
Crash ==
    /\ at # "idle" /\ crashes < MaxCrashes
    /\ crashes' = crashes + 1
    /\ \/ at = "write" /\ file' = [file EXCEPT ![cur] = "partial"]
       \/ UNCHANGED file
    /\ Return("failed")
    /\ UNCHANGED <<errors, fails, runs>>

BackupInit ==
    /\ at = "idle" /\ folders = {} /\ mails = {} /\ cur = None /\ body = None
    /\ file = [m \in Mail |-> None] /\ errors = {} /\ outcome = None
    /\ fails = 0 /\ crashes = 0 /\ runs = 0

BackupNext ==
    \/ RunBackup \/ ExportMails \/ ListFolders
    \/ \E f \in Folder : OpenFolder(f)
    \/ \E m \in Mail : TakeMail(m)
    \/ ReadCached \/ LoadDetails \/ LoadFiles \/ WriteFile \/ CloseFolder \/ Finish \/ Crash

BackupSpec == BackupInit /\ [][BackupNext]_backupVars

-----------------------------------------------------------------------------
\* "A backup must be *complete* -- it exports every mail that exists on the
\* server" (backup.rs) and "Per-mail failures are collected in `errors`": after
\* a run that says it is complete, a mail has its whole file or is named among
\* the errors.
ExportIsComplete ==
    outcome = "complete" => \A m \in Mail : file[m] = "whole" \/ m \in errors
=============================================================================
