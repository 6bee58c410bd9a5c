# TutaBridge in TLA+

TutaBridge serves a Tuta mailbox to ordinary mail clients: it keeps a local copy
of the account in step with the server and answers IMAP and SMTP from it. This
directory models the parts of it where tasks, processes, a server and a disk have
to agree, checks the models with TLC and proves most of their safety properties
with TLAPS.
`PROJECT.json` lists the components, the lines each definition translates, the
runs, and the hazards of the code at their lines.

## The system

| component | state | operations | interacts with |
|---|---|---|---|
| event bus client (`crates/tuta/src/event_bus.rs`) | socket, `last_batch_ids`, back-off, timers | connect with the cursors, receive, ping, reconnect, stop for good on some close codes | server; bounded channel to the handler |
| event handler (`event_handler.rs`) | the batch in hand | apply a batch (MailSetEntry creates, deletes, Mail events, fallback listings), move the cursor | both stores, backend |
| syncer (`sync.rs`) | retry history | cached load, full listing, backfill of the text index, prefetch of bodies | both stores, backend, `startup_done` |
| `MailStore` (`sync.rs`) | folders and mails in memory, watch channels | upsert, remove, refresh, replace a folder | read by every IMAP session |
| `LocalStore` (`store.rs`) | SQLite tables, markers, one `.eml.enc` per body | upserts, UID allocation, deletion, cursor, text index | syncer, handler, sessions |
| body cache (`body_cache.rs`) | bounded LRU of rendered bodies | insert, read through to disk | sessions, syncer |
| IMAP session, loop and search (`imap/`) | a snapshot of the selected folder | commands, IDLE, report of changes, SEARCH | `MailStore`, cache, backend |
| SMTP server (`smtp/mod.rs`), sending (`tuta.rs`) | dialogue; sent-id cache | AUTH, envelope, DATA, draft, send | backend |
| request governor (`governed_client.rs`) | permits, suspension | every request | backend |
| session storage (`session_store/`), login (`tuta.rs`, `main.rs`) | saved session, what may be overwritten | load, save, delete, resume, prompt | keychain or `pass`, Tuta |
| bridge lifecycle (`bridge.rs`), desktop (`src-tauri/`) | handle, status, tasks, ports, updater | start, stop, code, status stream, update | everything |
| supervisor (`src/service.rs`, `src/service/`, `src/shutdown.rs`) | volume lock, worker group, status socket | run, wait for repair, back off, init, stop | worker process, other supervisors |
| backup (`backup.rs`) | files written | export, resume | backend, `LocalStore` |
| MCP, rendering, parsing, UTF-7, TLS, CLI arguments, tray | none or nearly | conversion and I/O | |

What is hard in it: several tasks change or read the same folders with an `await`
between reading and writing; the process may stop between any two steps; batches
are replayed; a request may fail, or succeed without its answer arriving; clients
name mails by numbers that change under them; processes that share an entry of a
password store, or a volume, are killed at any point; a user may never answer.

What makes each part correct:

* event bus: no cursor passes a batch that was not applied; every batch is applied
  in the end, silent sockets included;
* stores: once nothing is left to do, memory shows the account; a body is not lost
  by a move; a UID belongs to one mail; files are whole and go with their mails;
* sessions: a message number means the same mail on both sides; MOVE and EXPUNGE
  take what the client chose; an idling client sees every change;
* sending: what is delivered is what was submitted, to whom, from whom, and once
  unless the client was not told how it ended; nothing is sent during a suspension;
* session storage: what could not be read is not overwritten, what was refused is
  not presented again, what must be saved is;
* supervisor: one worker per volume, a stop ends it, a repair revives it;
* desktop: bridges do not overlap, every command returns once what it asks answers;
* backup: every mail is in it; search: nothing is hidden by what it does not know.

## Modules

**EventBus** is the abstract specification of delivery: batches are numbers,
applying one is a flag. Its actions are the server's `Emit`; `Start`,
`StartUnlisted` and `Crash` of the bridge; `Dial`, `Connect`, `Push`, `Unparsable`, `Drop`, `Terminate` of the
client; `Release`, `Take`, `Advance`, `Persist` of the handler. `lost` records the
batches no code path can still obtain (one that does not parse, or one dropped by
a connection made without a cursor), `covered` those a full listing makes
unnecessary. A start of a group without a cursor lists the mailbox only when no group
at all has one, or no listing was ever completed; `StartUnlisted` is the start that
does not. Two modules use it:

* **WsClient** is the client in detail. Several groups share one socket, one
  channel and one map of cursors; the published state, the back-off and its close
  hints, the heartbeat and the idle timeout are there. Time passes only on a
  silent socket. `ImplementsBus` is `BusSpec` under the mapping `Bus`, the view of
  one watched group (a back-off is a socket that is off, other groups' batches are
  left out of the channel).
* **MailSync** extends EventBus and **MailStores** (the two stores as operators on
  functions). It adds the account and its changes with the batch each produces,
  `run_syncer` and `sync_folder` in the steps their awaits make, and `apply_batch`
  event by event with every path of a CREATE (clone from memory, inline,
  `load_mail`, fallback). Its steps are conjunctions with steps of EventBus, which
  is how it inherits `NoGap`; what it adds is what the batches do to the stores.

**Bodies** takes one folder and follows the bodies MailSync does not: the prefetch
loop with its window and retry history, the LRU, a connection's FETCH from its
snapshot to its answer, the three steps of a deletion, and the `.eml.enc` files,
which may fail to be written, read or removed. A body is the sequence of attachments
it was rendered with.

**ImapSession** is one connection on one folder. The folder changes under it
(`Arrive`, `Depart`, `Follow`), the loop takes commands or, idling, the store's
watch (`WakeUp`, `Report`: the two reads of `check_new_mail`). `view` is the
numbering the client derives from the responses; it is what is compared with the
session's list. The folder starts as `load_cached_folder` makes it from the rows, with
any UIDs: a row keeps the UID of the folder its mail came from, so UIDs may coincide
or lie ahead of the counter, and a mail whose allocation fails has UID 0. `misfit`
records that this happened, `borne` which mail had which UID. `refresh_mails` sorts by
UID and leaves the order of equal ones to the store's list, so `RefreshMails` is the
set of lists it may give. **Search** has the parser and matcher of SEARCH on
tokens, with the message view and the text index it reads.

**Governor** has the permits, the shared suspension and the back-off; **Submission**
extends it with the SMTP dialogue and `send_mail`, one request at a time, so that
sends and the rest of the bridge's requests compete. A client may stop waiting while
its send is under way (`GiveUp`) and submit the mail again on another connection;
`resolve_sender` asks for the address of the message first and, after a refusal, for
the account's own.

**SessionLogin** has the stores of four kinds of processes (desktop, CLI, init,
service) over one entry in three installations (keychain, `pass`, container), and
their logins: load, resume, delete, prompt, second factor, save, stage and commit.

**Supervisor** has waiting, one-shot and init supervisors on one volume. The flock
is the set of open descriptors, which a worker inherits; the worker's group, its
helpers, the status socket and its owner lock are variables.

**Desktop** has the `BridgeHandle` behind its lock, the start in its steps (those of
its login that wait for the credential store or the server are `Elsewhere`), the
bridge's task, the status stream and the updater. **Backup** is one export after
another over the same output directory.

The theorems are in modules of their own, which extend the module they are about:
**EventBusProofs**, **MailSyncProofs**, **BodiesProofs**, **SubmissionProofs**,
**SessionLoginProofs**, **SupervisorProofs**, **DesktopProofs** and
**ImapSessionProofs**. The **MC**
modules are the instances.

Grain of atomicity: statements without an `await` between them are one step, and
so is a store operation, which holds its lock throughout. A mail is in one folder
at a time. A batch of MailSync carries the events of one change. Of the SQL statements
only the allocation of a UID (ImapSession) and the deletion of a row (Bodies) fail;
files fail in Bodies and Backup. A throttled answer arms the suspension in the step
that receives it, over the lock the code awaits in between. The type invariant of each module
is a definition beside its properties; those of EventBus, Bodies, SessionLogin,
Supervisor, Desktop and ImapSession are proved.

## Runs

Two workers; each run takes from seconds to about three minutes.

| run | bounds | shows |
|---|---|---|
| MCSyncFailures | 2 mails, 2 folders (both symmetric), 2 changes, an expired cursor, a crash, a failure anywhere, at most three of these changes, crashes and failures in one behaviour (`AtMostThree`) | `NoMailMissed`, `FailedSyncIsRetried`, `UidsNotShared`, `MoveKeepsBody` |
| MCSyncLive | 1 mail, a folder created or deleted, 2 changes, a lost connection, a failure, channel of 1 | `NoGap`, `EventuallyAccounted`, `EventuallyMirrors` |
| MCWsClient | 2 groups, 2 batches each, a lost connection, an unparsable batch, a crash, heartbeat 2 and idle timeout 3 ticks | `ImplementsBus`, `EventuallyApplied` |
| MCBodies | 2 mails, one of which alone is larger than the cache, window 1, one connection, a failure, a deletion, a crash | `CacheWithinBudget`, `FileGoesWithItsMail`, `OnlyWholeBodies`, `StubHasACause`, `BodiesArrive` |
| MCImapSession | 3 mails, one of them in the folder with a UID below the counter or ahead of it, 2 changes by others | `NumbersAgree`, `OnlyPickedLeave`, `IdleCatchesUp` |
| MCSubmission | 2 SMTP connections and another caller, 2 permits, 2 messages of up to 2 lines with a cap of 1, 2 sends (one after a throttle), one dialogue at a time beside a send, 2 throttles | `DeliveredAsSubmitted`, `NeverMisaddressed`, `DuplicatesOnlyFromLostAnswers`, `AnsweredOkWasSent`, `SuspensionHonoured` |
| MCSessionLogin | one process of each kind, 2 of them active at a time, 2 sessions (symmetric), 2 faults, all three installations | `NeverBlind`, `RejectedNotReadBack`, `PromptOnlyWithoutSession`, `RequiredMeansSaved`, `PreservingKeepsOld`; no deadlock |
| MCSupervisor | a waiting, a one-shot and an init supervisor, 2 of them started, 2 faults, an expired session | `ExclusiveVolume`, `SignalsOwnGroup`, `RejectedNotRetried`, `InitTruthful`, `StatusReachable`, `StopEnds`, `ServiceRecovers` |
| MCDesktop | 2 bridges, 2 commands beside auto-start | `OneBridgeAtATime`, `InstalledOnce`, `CommandsReturn`, `WindowCatchesUp` |

The bounds are the smallest at which the cases meet: two changes let one be
replayed or listed while the other is applied; one crash separates what is on disk
from what was in memory; two mails are needed to share a UID or to drive each other
out of the cache; a mail and two that arrive for a number to shift, for a UID to be
met again by the counter and for a new mail to sort before an old one; two groups for a cursor to be taken for another's; two messages for one to
inherit from the other or be submitted again; two throttles for a suspension to be
replaced by a shorter one; two supervisors or processes to meet on a lock or an
entry, and a second bridge to meet the ports of the first. Deadlock is checked
where something can always go on (SessionLogin); elsewhere a bounded environment
stops changing and the system rests.

Fairness is that of the runtime and nothing of the environment beyond its answers:

* the tasks of a bridge are polled and a connected server pushes (EventBus,
  MailSync, WsClient); `EventuallyAccounted` speaks of behaviours in which the
  bridge stays up and the server does not terminate the client. On a dead socket
  a write fails in the end, when TCP gives up (strong fairness of `PingFails`:
  between two pings it is not enabled);
* the idle select polls the watch, a check that began ends, and the event of a
  mail that left reaches the store (ImapSession);
* the prefetch loop goes on and retry times come (Bodies); nothing obliges a client
  to fetch;
* a supervisor's select and its timers make progress whatever the worker does, and
  the worker of a waiting service goes on when its helper returns (Supervisor); no
  helper is obliged to return, and nobody to repair the volume;
* the lock's waiters get it in order, the wait for a code ends by its timeout, a
  signalled task wakes, the stream ticks (Desktop). Nothing obliges the credential
  store (`pass show` and the keychain have no timeout) or the server to answer a
  start: `CommandsReturn` speaks of behaviours in which they do.

Properties with exceptions say which. `NumbersAgree` excepts the three changes no
response reports: a mail that vanishes between the two reads, one that has a new
UID, one the session moved away that comes back before its event; and, in folders
that have had a misfit UID and only there, a refresh that puts a mail before one it
did not precede. `OnlyPickedLeave` excepts message numbers after such a change and
UIDs that two mails have had. Neither exception can be left out: TLC then finds the
number or the mail that is wrong. `NoMailMissed` (and with it `EventuallyMirrors`)
excepts batches that were never received and what `missed` records: updates a failed
request cost, a replay cut off (by a stop while a batch behind the stored cursor is
being applied again, or by a reconnect with a cursor beyond what the channel ends in),
and a stop while a row is in a folder its mail has left (`RowIsStale`).
`UidsNotShared` excepts, in memory, mails that changed folders.
`FileGoesWithItsMail` excepts mails deleted while their body was under way and those
whose deletion failed; `StubHasACause` lists its causes: a mail that was deleted, a file
that was not written or is not readable, a body driven out before the second look;
`BodiesArrive` bodies that could not be written and retries that came due before
the loop slept. `FailedSyncIsRetried` is about the first full sync, and about starts
that have the folder list.

Three runs end in a violation, each of a sentence in the repository (`findings`):

* `FailedLoadLosesNothing`: an UPDATE whose `load_mail` fails removes the mail;
* `ExportIsComplete`: an export can report no error and lack a mail, or have a part
  of one in the place of the whole, which later exports then skip;
* `UnrecognisedHidesNothing`: `NOT` of an unrecognised criterion hides everything.

Seen while modelling and not made into runs of their own:

* a reconnect asks for what follows the cursor, and so has the server send again the
  batches that wait in the channel; the handler does not skip those at or below the
  cursor (`event_handler.rs:101`), and a stop after an older batch was applied again
  and before the newer ones were leaves the stores behind the cursor on disk, which
  no later start makes good;
* the same without a stop, when the connection is lost twice: the second URL is made
  with the cursor as it is (`event_bus.rs:432`) while the channel still holds the end
  of a replay, so the server goes on after the cursor and what lies in between is not
  applied after the replay of the older batches (1 mail, 2 folders, 3 changes, a
  channel of 1, two lost connections);
* the DELETE of a move removes the row only if the mail is nowhere in memory
  (`event_handler.rs:493`). When the CREATE of its batch failed, and memory has the
  mail in a third folder, the row stays in the folder the mail left; the fallback
  moves it, and a stop before the fallback shows the mail in the old folder after the
  restart, when the cursor is beyond it (1 mail, 3 folders, 3 changes, a failure, a
  crash);
* the row of a mail that moves keeps the UID of its old folder (`store.rs:240`), so
  after a restart two mails of a folder can have one UID, although `sync.rs:30`
  calls UIDs stable within the folder. A UID command then takes the first of them
  (`session.rs:924`), which may not be the one the client meant; and with a UID ahead
  of the counter a new mail sorts before an old one, of which the client is told only
  EXISTS;
* a group without a cursor while another has one is not listed (`sync.rs:455`), and a
  connection without its cursor gets nothing of the past: what it was sent while the
  bridge was down is lost to it;
* a start holds the bridge's lock while `pass` or the keychain waits for the user,
  without a timeout (`pass.rs:50`), and a stop waits behind it;
* a file that cannot be removed stays without a row (`event_handler.rs:508` logs it),
  and one that cannot be read is answered as a stub although the mail counts as loaded;
* a mail created in a folder the list does not have, because its refresh failed, is
  dropped (`event_handler.rs:255`, although 322 says it is discovered later);
* wiping an expired cursor leaves the marker of the full sync (`bridge.rs:339`), so
  an incomplete re-sync followed by one batch is not repeated;
* bodies that arrive inline are not put into the text index (`event_handler.rs:379`);
* the idle timeout is restarted by every turn of the select, the heartbeat's
  included (`event_bus.rs:337`), so it does not fire on a silent socket; a failing
  ping ends the connection instead;
* client connections of a bridge outlive its stop (`bridge.rs:483`);
* a replayed CREATE gives its mail a new UID; a refresh forgets `\Deleted`; a STORE
  of `\Seen` answers OK although the request failed (`session.rs:684`); a SEARCH of
  a sequence set that begins with `*`, or lies beyond the end, selects other mails
  than a FETCH of it;
* a start can overwrite the `Error` of a task that has already ended with `Running`
  (`bridge.rs:522`).

## Proofs

Each theorem holds for every value of the constants. The assumptions are named in
the modules and evaluated by TLC: bounds and sizes are numbers, the channel and the
permits are not of capacity zero, the account has a folder, and the value `None` is
none of the mails, records or marks it is told apart from. No property is inductive as it stands; each proof
module begins with the invariant that is, has one step per action and, under it, one
per conjunct the action can disturb, and ends with the temporal step. The larger
invariants were checked by TLC before they were proved.

**EventBusProofs**: `BusTypeCorrect` and `BusNoGap` (`NoGap`). Whether the cursor may
move to the batch in hand depends on what was in the channel before it. `BusInv` adds
that everything below the batch in hand is accounted for (`CurInv`); that everything
below a batch in the channel is accounted for, in hand, or earlier in the channel
(`ChanInv`); the same for what the connection sends next (`NextInv`); that a cursor in
a URL has nothing missing below it (`AskedInv`); and how the handler's stage, its batch
and the cursor relate (`StageInv`, `CoveredInv`). The interesting steps are `Connect`,
where a replay starts over below batches still in the channel, and `Take`, where the
head of the channel leaves and its successors lose a witness.

**MailSyncProofs**:

* `SyncSkipsNoBatch`: `NoGap` of the detailed bridge, from `BusNoGap` and the lemma
  that its steps are steps of EventBus or leave its variables alone.
* `NothingIsMissed` (`NoMailMissed`), in three parts that make up `MirrorInv`. What the
  log says (`LogInv`): whatever a batch said of a place, a mark or a folder and is no
  longer so, a later batch tells. In which order it comes (`OrderInv`): from the last
  batch whose effect the stores have (`Past`), through the channel, to what the
  connection sends next no batch is skipped, though some may come again. What the
  stores hold (`StoresRight`): every difference between the account and the folder
  list, the rows or memory is one that a batch after `Past`, or an event of the batch
  in hand that was not applied yet, will remove (`ComesIn`, `GoesOut`, `Turns`,
  `Relists`); which of the stores this may be said of depends on where the start is
  (`RowSure`, `MemSure`, `KnownSure`), and of a listing under way `SynRight` says the
  same. One lemma per action shows that a step removes a reason only together with its
  difference. Once nothing is left to send or to apply there are no reasons left.
* `UidsAreNotShared` (`UidsNotShared`): issued UIDs are below the folder's counter, and
  those of rows, of memory and of a listing in flight are issued ones (`UidInv`).
* `IncompleteSyncIsRetried` (`FailedSyncIsRetried`): how the marker, the sync that is
  owed and the syncer's place relate (`RetryInv`).
* `MovesKeepBodies` (`MoveKeepsBody`): when the handler comes to the DELETE of a move,
  the CREATE has left the mail in another folder or in the fallback, or the account has
  lost it (`MoveInv`, over `HandlerInv`: what the batch in hand says of its mail).

**BodiesProofs**: `CacheStaysBounded`, `FilesAreWhole`, `FilesGoWithMails`,
`StubsHaveCauses` and `BodiesTypeCorrect`. `Cache` has the entries once each, so that a
look leaves their sum alone whatever it is; `WholeFiles` says what is about to be
written is whole (an accepted answer names every attachment, `AcceptedIsWhole`); `Real`
that what is cached, marked loaded or about to be published has a file or a reason for
having none, and `BackedGrows` that no step takes this away; `Unlinked` that after the
file of a deleted mail was removed nobody is about to write it who was not at it before,
unless the removal failed. That a connection comes to its second look with its body in
the cache, or with `crowded` saying that it was driven out, is `SeenAgain`.

**SubmissionProofs**: `PausesAreHonoured` (`SuspensionHonoured`: what is owed is at most
the suspension, or a sleep that contains it), `WholeMessagesGoOut`
(`DeliveredAsSubmitted`), `SenderIsResolved` (`NeverMisaddressed`), `OkMeansSent`
(`AnsweredOkWasSent`) and `DuplicatesAreLostAnswers` (`DuplicatesOnlyFromLostAnswers`).
The invariant follows a message from the dialogue through each request of `send_mail`: a
send looks the account's own address up only if it was asked for or the other was
refused; and of one mail that was delivered, or is on its way, every submission but the
last is one whose end the client was not told.

**SessionLoginProofs**: `LoginTypeCorrect`, `RefusedStaysRefused`
(`RejectedNotReadBack`), `OutageCostsNoLogin` (`PromptOnlyWithoutSession`),
`SuccessIsSaved` (`RequiredMeansSaved`), `NothingIsOverwrittenBlindly` (`NeverBlind`)
and `OldSessionIsKept` (`PreservingKeepsOld`). The invariant says, for each process,
where its login is and what it carries (`Way`), what its right to write rests on
(`Knows`), what it keeps of a refusal (`Refused`) and of what is saved (`Saved`).

**SupervisorProofs**: `SupTypeCorrect`, `VolumeIsExclusive` (`ExclusiveVolume`: a living
worker has a descriptor of the lock, and all descriptors belong to one supervisor's
family), `GroupIsOwn` (`SignalsOwnGroup`), `RejectionIsRemembered`
(`RejectedNotRetried`), `InitIsTruthful` (`InitTruthful`), `SocketIsReachable`
(`StatusReachable`).

**DesktopProofs**: `DeskTypeCorrect`, `BridgesDoNotOverlap` (`OneBridgeAtATime`: the
status, the lock's holder and the one task that may still have the ports) and
`UpdateIsInstalledOnce` (`InstalledOnce`).

**ImapSessionProofs**: `SessionTypeSafe`, `MessageNumbersAgree` (`NumbersAgree`) and
`PickedOnly` (`OnlyPickedLeave`), for whatever UIDs the folder was loaded with.
`SessionInv` says that what the store, the list and the view show of a mail is a UID it
has had (`BearInv`), so that a UID not shared names one mail; that no mail is twice in
the list and a flagged one was picked (`ListInv`); that the numbers taken by the
first read of `check_new_mail` are those of mails that were gone (`CheckInv`); and, as
long as no UID was a misfit, that the list ascends strictly and a mail of the store that
is not in it came after all that are or left through the session (`OrderInv`). From the
last follows that without misfits nothing is shuffled (`NoShuffle`): this is why the
exception is needed in such folders alone. Whatever the UIDs, a refresh that shuffles
nothing keeps the places of the mails that stay (`KeptPlaces`): the one at a place is the
one with that many kept places up to its own (`Rank`, `Nth`). EXPUNGE responses, applied
one after the other by the client (`Expunged`, a recursive function), leave exactly the
mails that were not named (`Without`); `ExpungedSteps` gives the two equations of the
recursion, and the inductions are made from the least counterexample.

Properties corrected by the attempt to prove them. `FailedSyncIsRetried` had been stated
of every start and fails with two failed requests, when a start cannot get the folder
list. `NoMailMissed` had none of its three exceptions of `missed` that are no failed
requests: a stop in the middle of a replay, a second reconnect during one, and a stop
that leaves a row behind. Each needs more changes, connections or folders than the
run has, and TLC showed each on the instance the proof pointed to. With them `MirrorInv`
was checked by TLC on instances that have the cases (4.5 million states, and simulation)
before it was proved.

Only model-checked: the liveness properties, since fairness is out of the prover's
reach; `ImplementsBus` of WsClient, whose mapping selects the batches of one group from
the channel (what such a selection makes of an append or a tail would need an induction
over data). Search uses recursive operators for its parser, and Backup is there for its
violation, so nothing is proved about them.

## Not modelled

Encryption, most failing SQL statements, schema migration and reset; a session in a
desktop keychain under the waiting service, which a repair reaches only by a restart; rendering and
parsing of messages, UTF-7 and response texts, which are stateless conversions of
strings; `\Seen`, STATUS, LIST and APPEND of the IMAP session; partial reads of a
line; the attachment cache of mails to oneself; probing for ports; MCP, which only
reads; TLS and private files; argument parsing; tray and windows.

## What a next step would prove

`ImplementsBus`, with the channel of one group described by the positions of its batches
instead of by a selection. `MirrorInv` for a batch that carries the events of several
changes, which needs the order of the events inside a batch as `OrderInv` has that of
the batches.
