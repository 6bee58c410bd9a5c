--------------------------- MODULE MailSyncProofs ---------------------------
(***************************************************************************)
(* Theorems about MailSync, for every set of mails and folders and every   *)
(* number of changes, failures and crashes.                                *)
(***************************************************************************)
EXTENDS MailSync, EventBusProofs, FiniteSetTheorems

-----------------------------------------------------------------------------
(* The batches and the handler.                                            *)

(* A batch about a mail names it, and a move goes elsewhere. *)
Whole(b) ==
    /\ b.create # None \/ b.delete # None \/ b.event # "none" => b.mail # None
    /\ b.create # None => b.create # b.delete

(* Nothing is under way that the server has not emitted. *)
Emitted ==
    /\ cur <= Len(log)
    /\ \A k \in 1 .. Len(chan) : chan[k] <= Len(log)
    /\ up => nextId <= Len(log) + 1
    /\ asked <= Len(log) /\ memCur <= Len(log) /\ diskCur <= Len(log) /\ covered <= Len(log)

ServerInv ==
    /\ srv \in [Mail -> Place \cup {None}] /\ srvFolders \subseteq Folder
    /\ \A i \in 1 .. Len(log) : Whole(log[i])

(* Where apply_batch is, and what it has there. *)
HandlerInv ==
    /\ pc # "idle" => stage = "applying" /\ ready
    /\ pc \in {"create", "store"} => log[cur].create # None
    /\ pc = "delete" => log[cur].delete # None
    /\ pc = "mail" => log[cur].event # "none"
    /\ pc = "store" => pend \in Entry

(* The types of what holds UIDs. *)
StoreTypes ==
    /\ rows \in Rows /\ nextUid \in [Folder -> Nat]
    /\ mem \in [Folder -> FolderMails]
    /\ syn \in SyncCall \cup {None}
    /\ issued \subseteq Folder \X Nat \X Mail
    /\ known \subseteq Folder

(* Every UID in the database, in memory and in a listing under way is one   *)
(* that was issued to that mail, unless the mail changed folders in the     *)
(* database.                                                                *)
UidInv ==
    /\ \A a \in issued : a[2] < nextUid[a[1]]
    /\ \A a, b \in issued : a[1] = b[1] /\ a[2] = b[2] => a[3] = b[3]
    /\ \A m \in Mail \ refiled : rows[m] # None => <<rows[m].folder, rows[m].uid, m>> \in issued
    /\ \A f \in Folder, m \in Mail \ refiled :
          mem[f][m] # None => <<f, mem[f][m].uid, m>> \in issued
    /\ syn # None /\ syn.step # "listed" =>
          \A m \in Mail \ refiled :
              syn.mails[m] # None => <<syn.folder, syn.mails[m].uid, m>> \in issued

(* The marker is unset as long as the first full sync is incomplete. *)
RetryInv ==
    /\ owed # 0 => ~fullDone
    /\ boot \in {"off", "folders", "load", "sync", "release"} => ~ready
    /\ ~up => boot = "off"
    /\ boot = "sync" => owed = 0
    /\ FailedSyncIsRetried

(* A listing is under way for one caller only; and after the CREATE of a    *)
(* batch, taken without a fallback, the mail is in its folder or is gone.   *)
MoveInv ==
    /\ syn # None => boot = "sync" \/ pc = "fallback"
    /\ pc = "delete" /\ log[cur].create \in known /\ fall = {} =>
          mem[log[cur].create][log[cur].mail] # None \/ srv[log[cur].mail] = None

SyncInv ==
    /\ BusInv /\ Emitted /\ ServerInv /\ HandlerInv
    /\ StoreTypes /\ UidInv /\ RetryInv /\ MoveInv
-----------------------------------------------------------------------------
(* The bus: every step of MailSync is a step of EventBus, or none.         *)

(* The batches of the server: what they say of a mail, and where it is then. *)
LEMMA Batches ==
    ASSUME NEW m \in Mail, NEW u \in BOOLEAN, NEW f \in Folder, NEW g \in Folder
    PROVE  /\ [NoEvents EXCEPT !.mail = m, !.new = TRUE, !.create = f, !.unread = TRUE]
                \in {b \in Batch : Whole(b)}
           /\ f # g => [NoEvents EXCEPT !.mail = m, !.create = f, !.delete = g]
                \in {b \in Batch : Whole(b)}
           /\ [NoEvents EXCEPT !.mail = m, !.event = "update", !.unread = u]
                \in {b \in Batch : Whole(b)}
           /\ [NoEvents EXCEPT !.mail = m, !.delete = g, !.event = "delete"]
                \in {b \in Batch : Whole(b)}
           /\ [NoEvents EXCEPT !.folders = f] \in {b \in Batch : Whole(b)}
<1> USE StoreAssumption, SyncAssumption DEF NoEvents, BatchRecord, Event, Whole
<1>1. [NoEvents EXCEPT !.mail = m, !.new = TRUE, !.create = f, !.unread = TRUE]
        \in {b \in Batch : Whole(b)}
  OBVIOUS
<1>2. f # g => [NoEvents EXCEPT !.mail = m, !.create = f, !.delete = g]
                 \in {b \in Batch : Whole(b)}
  OBVIOUS
<1>3. [NoEvents EXCEPT !.mail = m, !.event = "update", !.unread = u]
        \in {b \in Batch : Whole(b)}
  OBVIOUS
<1>4. [NoEvents EXCEPT !.mail = m, !.delete = g, !.event = "delete"]
        \in {b \in Batch : Whole(b)}
  OBVIOUS
<1>5. [NoEvents EXCEPT !.folders = f] \in {b \in Batch : Whole(b)}
  OBVIOUS
<1> QED BY <1>1, <1>2, <1>3, <1>4, <1>5

(* A change of the account emits one batch, and keeps the account typed. *)
LEMMA ServerStep ==
    ASSUME ServerInv, Server
    PROVE  /\ \E b \in Batch : Emit(b) /\ Whole(b)
           /\ srv' \in [Mail -> Place \cup {None}] /\ srvFolders' \subseteq Folder
           /\ UNCHANGED bridgeVars
<1> USE SyncAssumption DEF ServerInv, Place
<1>1. ASSUME NEW m \in Mail, NEW f \in Folder, Deliver(m, f)
      PROVE  /\ \E b \in Batch : Emit(b) /\ Whole(b)
             /\ srv' \in [Mail -> Place \cup {None}] /\ srvFolders' \subseteq Folder
             /\ UNCHANGED bridgeVars
  BY <1>1, Batches DEF Deliver
<1>2. ASSUME NEW m \in Mail, srv[m] # None
      PROVE  srv[m] \in Place /\ srv[m].folder \in Folder /\ srv[m].unread \in BOOLEAN
             /\ \A f \in Folder : [srv[m] EXCEPT !.folder = f] \in Place
             /\ \A u \in BOOLEAN : [srv[m] EXCEPT !.unread = u] \in Place
  BY <1>2
<1>3. ASSUME NEW m \in Mail, NEW f \in Folder, Move(m, f)
      PROVE  /\ \E b \in Batch : Emit(b) /\ Whole(b)
             /\ srv' \in [Mail -> Place \cup {None}] /\ srvFolders' \subseteq Folder
             /\ UNCHANGED bridgeVars
  BY <1>2, <1>3, Batches DEF Move
<1>4. ASSUME NEW m \in Mail, Mark(m)
      PROVE  /\ \E b \in Batch : Emit(b) /\ Whole(b)
             /\ srv' \in [Mail -> Place \cup {None}] /\ srvFolders' \subseteq Folder
             /\ UNCHANGED bridgeVars
  <2>1. PICK u \in BOOLEAN : u = ~srv[m].unread
    OBVIOUS
  <2>2. PICK f \in Folder : TRUE
    BY <1>2, <1>4 DEF Mark
  <2> QED BY <1>2, <1>4, <2>1, <2>2, Batches DEF Mark
<1>5. ASSUME NEW m \in Mail, Purge(m)
      PROVE  /\ \E b \in Batch : Emit(b) /\ Whole(b)
             /\ srv' \in [Mail -> Place \cup {None}] /\ srvFolders' \subseteq Folder
             /\ UNCHANGED bridgeVars
  BY <1>2, <1>5, Batches DEF Purge
<1>6. ASSUME NEW f \in Folder, AddFolder(f) \/ RemoveFolder(f)
      PROVE  /\ \E b \in Batch : Emit(b) /\ Whole(b)
             /\ srv' \in [Mail -> Place \cup {None}] /\ srvFolders' \subseteq Folder
             /\ UNCHANGED bridgeVars
  <2>1. [NoEvents EXCEPT !.folders = f] \in {b \in Batch : Whole(b)}
    BY StoreAssumption DEF NoEvents, BatchRecord, Event, Whole
  <2> QED BY <1>6, <2>1 DEF AddFolder, RemoveFolder
<1> QED BY <1>1, <1>3, <1>4, <1>5, <1>6 DEF Server

(* Every other step leaves the account alone and takes at most one step of  *)
(* the bus.                                                                 *)
LEMMA BusSteps ==
    ASSUME ServerInv, [Next]_vars
    PROVE  [BusNext]_busVars
<1>1. CASE Server
  BY <1>1, ServerStep DEF BusNext
<1>2. CASE SyncFolder
  BY <1>2 DEF SyncFolder, SyncList, SyncFails, SyncUpsert, SyncPrune, SyncSet
<1>3. CASE Syncer
  BY <1>3
  DEF Syncer, BridgeStart, BootFolders, BootFoldersFails, BootLoad, Backfill,
      BootDecide,
     BootMark, BootRelease, BackfillDone, BusNext, BusStep
<1>4. CASE BridgeCrash
  BY <1>4 DEF BridgeCrash, BusNext, BusStep
<1>5. CASE Handler
  BY <1>5
  DEF Handler, HandlerTake, RefreshFolderList, RefreshFails, CreateUnknown,
      CreateFails,
     CreateHit, CreateInline, CreateMiss, AssignUidAndUpsert, EntryDelete, EntryDeleteFails,
     MailUpdate, MailUpdateFails, MailDelete, HandlerAdvance, BusNext, BusStep
<1>6. CASE Wire \/ WireConnect
  BY <1>6 DEF Wire, WireConnect, BusNext, BusStep
<1>7. CASE UNCHANGED vars
  BY <1>7 DEF vars
<1> QED BY <1>1, <1>2, <1>3, <1>4, <1>5, <1>6, <1>7 DEF Next

(* No step of the bus gets ahead of the server. *)
LEMMA EmittedStep == BusTypeOK /\ Emitted /\ [BusNext]_busVars => Emitted'
<1> SUFFICES ASSUME BusTypeOK, Emitted, [BusNext]_busVars PROVE Emitted'
  OBVIOUS
<1> USE DEF Emitted
<1>t. /\ Len(log) \in Nat /\ nextId \in Nat /\ cur \in Nat /\ asked \in Nat /\ memCur \in Nat
      /\ diskCur \in Nat /\ covered \in Nat /\ chan \in Seq(Nat \ {0})
  BY LenProperties DEF BusTypeOK
<1>1. ASSUME NEW b \in Batch, Emit(b) PROVE Emitted'
  <2>1. Len(log') = Len(log) + 1
    BY <1>1, AppendProperties DEF Emit, BusTypeOK
  <2> QED BY <1>1, <1>t, <2>1, LenProperties DEF Emit
<1>2. ASSUME NEW expired \in BOOLEAN, Start(expired) PROVE Emitted'
  BY <1>2, <1>t DEF Start
<1>3. CASE Release
  BY <1>3 DEF Release
<1>4. CASE Dial
  BY <1>4 DEF Dial
<1>5. CASE Connect
  BY <1>5, <1>t DEF Connect
<1>6. CASE Push
  <2>1. /\ Len(chan') = Len(chan) + 1 /\ Len(chan) \in Nat
        /\ \A k \in 1 .. Len(chan') : chan'[k] = IF k <= Len(chan) THEN chan[k] ELSE nextId
    BY <1>6, <1>t, AppendProperties, LenProperties DEF Push, BusTypeOK
  <2> QED BY <1>6, <1>t, <2>1 DEF Push
<1>7. CASE Unparsable
  BY <1>7, <1>t DEF Unparsable
<1>8. CASE Drop \/ Terminate
  BY <1>8 DEF Drop, Terminate
<1>9. CASE Take
  <2>1. /\ Head(chan) = chan[1] /\ Len(chan) \in Nat \ {0} /\ Len(Tail(chan)) = Len(chan) - 1
        /\ \A k \in 1 .. Len(Tail(chan)) : Tail(chan)[k] = chan[k + 1]
    BY <1>9, <1>t, HeadTailProperties, LenProperties, EmptySeq DEF Take
  <2> QED BY <1>9, <1>t, <2>1 DEF Take
<1>10. CASE Advance \/ Persist
  BY <1>10, <1>t DEF Advance, Persist
<1>11. CASE Crash
  <2>1. chan' = << >> /\ Len(chan') = 0
    BY <1>11, EmptySeq DEF Crash
  <2> QED BY <1>11, <1>t, <2>1 DEF Crash
<1>12. CASE UNCHANGED busVars
  BY <1>12 DEF busVars
<1>13. CASE StartUnlisted
  BY <1>13, <1>t DEF StartUnlisted
<1> QED BY <1>1, <1>2, <1>3, <1>4, <1>5, <1>6, <1>7, <1>8, <1>9, <1>10, <1>11, <1>12, <1>13
       DEF BusNext, BusStep

(* Only the server writes its log, one batch at a time. *)
LEMMA LogGrows ==
    ASSUME BusTypeOK, [BusNext]_busVars
    PROVE  /\ Len(log) \in Nat /\ Len(log') \in Nat /\ Len(log) <= Len(log')
           /\ \A i \in 1 .. Len(log) : log'[i] = log[i]
<1>1. ASSUME NEW b \in Batch, Emit(b)
      PROVE  Len(log') = Len(log) + 1 /\ \A i \in 1 .. Len(log) : log'[i] = log[i]
  BY <1>1, AppendProperties DEF Emit, BusTypeOK
<1>2. CASE BusStep \/ UNCHANGED busVars
  BY <1>2, LenProperties
  DEF BusStep, Start, StartUnlisted, Release, Dial, Connect, Push, Unparsable, Drop, Terminate,
      Take, Advance, Persist, Crash, busVars, BusTypeOK
<1> QED BY <1>1, <1>2, LenProperties DEF BusNext, BusTypeOK

(* Only the server changes the account. *)
LEMMA AccountKept ==
    ASSUME [Next]_vars, ~Server
    PROVE  UNCHANGED <<srv, srvFolders, log>>
<1>1. CASE SyncFolder
  BY <1>1
  DEF SyncFolder, SyncList, SyncFails, SyncUpsert, SyncPrune, SyncSet, busVars
<1>2. CASE Syncer
  BY <1>2
  DEF Syncer, BridgeStart, BootFolders, BootFoldersFails, BootLoad, Backfill, BootDecide,
      BootMark, BootRelease, BackfillDone, busVars, Start, Release
<1>3. CASE BridgeCrash
  BY <1>3 DEF BridgeCrash, Crash
<1>4. CASE Handler
  BY <1>4
  DEF Handler, HandlerTake, RefreshFolderList, RefreshFails, CreateUnknown, CreateFails,
      CreateHit, CreateInline, CreateMiss, AssignUidAndUpsert, EntryDelete,
      EntryDeleteFails, MailUpdate, MailUpdateFails, MailDelete, HandlerAdvance, busVars,
      Take, Advance
<1>5. CASE Wire \/ WireConnect
  BY <1>5 DEF Wire, WireConnect, Dial, Connect, Push, Unparsable, Drop, Terminate, Persist
<1>6. CASE UNCHANGED vars
  BY <1>6 DEF vars, busVars
<1> QED BY <1>1, <1>2, <1>3, <1>4, <1>5, <1>6 DEF Next

(* The account and its batches stay as they are described. *)
LEMMA ServerInvStep ==
    ASSUME BusTypeOK, ServerInv, [Next]_vars
    PROVE  ServerInv'
<1>1. CASE Server
  <2>1. PICK b \in Batch : Emit(b) /\ Whole(b)
    BY <1>1, ServerStep
  <2>2. log \in Seq(Batch) /\ log' = Append(log, b)
    BY <2>1 DEF BusTypeOK, Emit
  <2>3. ASSUME NEW i \in 1 .. Len(log') PROVE Whole(log'[i])
    BY <2>1, <2>2, AppendProperties, LenProperties DEF ServerInv
  <2> QED BY <1>1, <2>3, ServerStep DEF ServerInv
<1>2. CASE ~Server
  <2>1. UNCHANGED <<srv, srvFolders, log>>
    BY <1>2, AccountKept
  <2> QED BY <2>1 DEF ServerInv
<1> QED BY <1>1, <1>2

-----------------------------------------------------------------------------
(* The handler and the syncer. *)

(* The batch in hand is one of the server's. *)
LEMMA BatchInHand ==
    ASSUME BusInv, Emitted, ServerInv, stage = "applying"
    PROVE  /\ cur \in 1 .. Len(log) /\ log[cur] \in BatchRecord /\ Whole(log[cur])
<1>1. cur \in 1 .. Len(log)
  BY LenProperties DEF BusInv, BusTypeOK, StageInv, Emitted
<1>2. log[cur] \in BatchRecord
  BY <1>1, ElementOfSeq, SyncAssumption DEF BusInv, BusTypeOK
<1> QED BY <1>1, <1>2 DEF ServerInv

(* Where apply_batch goes has an event for it. *)
LEMMA WhereNext ==
    ASSUME NEW b \in BatchRecord
    PROVE  /\ AtMail(b) \in {"mail", "fallback"} /\ (AtMail(b) = "mail" => b.event # "none")
           /\ AtDelete(b) \in {"delete", "mail", "fallback"}
           /\ AtDelete(b) = "mail" => b.event # "none"
           /\ AtDelete(b) = "delete" => b.delete # None
           /\ AtCreate(b) \in {"create", "delete", "mail", "fallback"}
           /\ AtCreate(b) = "mail" => b.event # "none"
           /\ AtCreate(b) = "delete" => b.delete # None
           /\ AtCreate(b) = "create" => b.create # None
BY DEF AtMail, AtDelete, AtCreate

(* A step that leaves apply_batch where it is. *)
LEMMA HandlerKept ==
    ASSUME BusInv, Emitted, ServerInv, HandlerInv, [BusNext]_busVars,
           UNCHANGED <<pc, pend, stage, cur>>, ready => ready'
    PROVE  HandlerInv'
<1>1. CASE pc = "idle"
  BY <1>1 DEF HandlerInv
<1>2. CASE pc # "idle"
  <2>1. cur \in 1 .. Len(log) /\ stage = "applying"
    BY <1>2, BatchInHand DEF HandlerInv
  <2>2. log'[cur'] = log[cur]
    BY <2>1, LogGrows DEF BusInv
  <2> QED BY <2>2 DEF HandlerInv
<1> QED BY <1>1, <1>2

(* A step of apply_batch within a batch. *)
LEMMA HandlerMoves ==
    ASSUME BusInv, Emitted, ServerInv, HandlerInv, pc # "idle", UNCHANGED busVars,
           \/ pc' \in {AtCreate(log[cur]), AtDelete(log[cur]), AtMail(log[cur]), "fallback"}
           \/ pc' = "store" /\ pend' \in Entry /\ pc = "create"
    PROVE  HandlerInv'
<1>1. stage = "applying" /\ ready /\ UNCHANGED <<stage, ready, log, cur>>
  BY DEF HandlerInv, busVars
<1>2. log[cur] \in BatchRecord
  BY <1>1, BatchInHand
<1> QED BY <1>1, <1>2, WhereNext DEF HandlerInv

(* apply_batch stays where its batch has something for it. *)
LEMMA HandlerStep ==
    ASSUME BusInv, Emitted, ServerInv, HandlerInv, StoreTypes, [Next]_vars
    PROVE  HandlerInv'
<1>b. [BusNext]_busVars
  BY BusSteps
<1>e. ASSUME pc # "idle"
      PROVE  /\ cur \in 1 .. Len(log) /\ log[cur] \in BatchRecord /\ Whole(log[cur])
             /\ stage = "applying" /\ ready
  BY <1>e, BatchInHand DEF HandlerInv
<1>1. CASE Server
  BY <1>1, <1>b, HandlerKept, ServerStep DEF bridgeVars, handler, Emit
<1>2. CASE SyncFolder
  <2>1. UNCHANGED <<pc, pend, stage, cur, ready>>
    BY <1>2
    DEF SyncFolder, SyncList, SyncFails, SyncUpsert, SyncPrune, SyncSet, handler, busVars
  <2> QED BY <1>b, <2>1, HandlerKept
<1>3. CASE Syncer
  BY <1>3, <1>b, HandlerKept
  DEF Syncer, BridgeStart, BootFolders, BootFoldersFails, BootLoad, Backfill, BootDecide,
      BootMark, BootRelease, BackfillDone, busVars, handler, Start, Release
<1>4. CASE BridgeCrash
  BY <1>4 DEF BridgeCrash, HandlerInv
<1>5. CASE HandlerTake
  <2>1. Take /\ stage' = "applying" /\ UNCHANGED <<log, ready>> /\ ready
    BY <1>5 DEF HandlerTake, Take
  <2>2. Head(chan) = chan[1] /\ chan[1] \in 1 .. Len(log)
    BY <2>1, HeadTailProperties, LenProperties, EmptySeq, ElementOfSeq
    DEF Take, BusInv, BusTypeOK, Emitted
  <2>3. cur' \in 1 .. Len(log) /\ log[cur'] \in BatchRecord
    BY <2>1, <2>2, ElementOfSeq, SyncAssumption DEF Take, BusInv, BusTypeOK
  <2>4. pc' \in {"refresh", AtCreate(log[cur'])}
    BY <1>5 DEF HandlerTake
  <2> QED BY <2>1, <2>3, <2>4, WhereNext DEF HandlerInv
<1>6. CASE RefreshFolderList \/ RefreshFails
  BY <1>6, HandlerMoves DEF RefreshFolderList, RefreshFails
<1>7. CASE CreateUnknown \/ CreateFails
  BY <1>7, HandlerMoves DEF CreateUnknown, CreateFails
<1>8. CASE CreateHit
  <2>1. pc = "create" /\ UNCHANGED busVars /\ pc' = "store"
    BY <1>8 DEF CreateHit
  <2>2. log[cur].mail \in Mail
    BY <1>e, <2>1 DEF HandlerInv, Whole, BatchRecord
  <2>3. pend' \in Entry
    BY <1>8, <2>2 DEF CreateHit, FindMailAnywhere, StoreTypes, FolderMails
  <2> QED BY <2>1, <2>3, HandlerMoves
<1>9. ASSUME NEW body \in BOOLEAN, CreateInline(body) PROVE HandlerInv'
  <2>1. pc = "create" /\ UNCHANGED busVars /\ pc' = "store"
    BY <1>9 DEF CreateInline
  <2>2. log[cur].unread \in BOOLEAN
    BY <1>e, <2>1 DEF BatchRecord
  <2>3. pend' \in Entry
    BY <1>9, <2>2 DEF CreateInline, Entry
  <2> QED BY <2>1, <2>3, HandlerMoves
<1>10. CASE CreateMiss
  <2>1. pc = "create" /\ UNCHANGED busVars
    BY <1>10 DEF CreateMiss
  <2>2. log[cur].mail \in Mail
    BY <1>e, <2>1 DEF HandlerInv, Whole, BatchRecord
  <2>3. CASE srv[log[cur].mail] = None
    BY <1>10, <2>1, <2>3, HandlerMoves DEF CreateMiss
  <2>4. CASE srv[log[cur].mail] # None
    <3>1. srv[log[cur].mail].unread \in BOOLEAN
      BY <2>2, <2>4 DEF ServerInv, Place
    <3>2. PICK u \in BOOLEAN : u = srv[log[cur].mail].unread
      BY <3>1
    <3>3. pc' = "store" /\ pend' = [uid |-> 0, unread |-> u, body |-> FALSE]
      BY <1>10, <2>4, <3>2 DEF CreateMiss
    <3>4. pend' \in Entry
      BY <3>3 DEF Entry
    <3> QED BY <2>1, <3>3, <3>4, HandlerMoves
  <2> QED BY <2>3, <2>4
<1>11. CASE AssignUidAndUpsert
  BY <1>11, HandlerMoves DEF AssignUidAndUpsert
<1>12. CASE EntryDelete \/ EntryDeleteFails
  BY <1>12, HandlerMoves DEF EntryDelete, EntryDeleteFails
<1>13. CASE (\E inline \in BOOLEAN : MailUpdate(inline)) \/ MailUpdateFails \/ MailDelete
  BY <1>13, HandlerMoves DEF MailUpdate, MailUpdateFails, MailDelete
<1>14. CASE HandlerAdvance
  BY <1>14 DEF HandlerAdvance, HandlerInv
<1>15. CASE Wire \/ WireConnect
  <2>1. CASE Persist
    BY <1>15, <2>1, <1>e DEF Wire, WireConnect, bridgeVars, handler, Persist, HandlerInv
  <2> QED
    BY <1>15, <1>b, <2>1, HandlerKept
    DEF Wire, WireConnect, Dial, Connect, Push, Unparsable, Drop, Terminate, bridgeVars, handler
<1>16. CASE UNCHANGED vars
  BY <1>16, <1>b, HandlerKept DEF vars, handler, busVars
<1> QED
  BY <1>1, <1>2, <1>3, <1>4, <1>5, <1>6, <1>7, <1>8, <1>9, <1>10, <1>11, <1>12,
     <1>13, <1>14,
     <1>15, <1>16 DEF Next, Handler

(* The marker, the folder list and the handler wait for one another. *)
LEMMA RetryStep ==
    ASSUME HandlerInv, RetryInv, ServerInv, [Next]_vars
    PROVE  RetryInv'
<1> USE DEF RetryInv, FailedSyncIsRetried
<1>1. ASSUME UNCHANGED <<owed, fullDone, boot, up, ready, known, crashes>> PROVE RetryInv'
  BY <1>1
<1>2. CASE Server
  BY <1>1, <1>2, ServerStep DEF bridgeVars, history, disk, memory, syncer, Emit
<1>3. CASE SyncFolder
  BY <1>1, <1>3
  DEF SyncFolder, SyncList, SyncFails, SyncUpsert, SyncPrune, SyncSet, history, disk, memory,
      syncer, busVars
<1>4. ASSUME NEW expired \in BOOLEAN, BridgeStart(expired) PROVE RetryInv'
  BY <1>4 DEF BridgeStart, Start, history, disk, memory
<1>5. CASE BootFolders \/ BootFoldersFails
  BY <1>5 DEF BootFolders, BootFoldersFails, history, disk, memory, busVars
<1>6. ASSUME NEW f \in Folder, BootLoad(f) \/ Backfill(f) PROVE RetryInv'
  BY <1>1, <1>6 DEF BootLoad, Backfill, history, memory, busVars
<1>7. CASE BootDecide
  BY <1>7 DEF BootDecide, DoFullSync, disk, memory, busVars
<1>8. CASE BootMark
  BY <1>8 DEF BootMark, memory, busVars
<1>9. CASE BootRelease
  BY <1>9 DEF BootRelease, Release, history, disk, memory
<1>10. CASE BackfillDone
  BY <1>10 DEF BackfillDone, history, memory, busVars
<1>11. CASE BridgeCrash
  BY <1>11 DEF BridgeCrash, Crash, history, disk
<1>12. CASE RefreshFolderList
  BY <1>12 DEF RefreshFolderList, history, syncer, busVars, HandlerInv
<1>13. CASE Handler /\ ~RefreshFolderList
  BY <1>1, <1>13
  DEF Handler, HandlerTake, RefreshFails, CreateUnknown, CreateFails, CreateHit, CreateInline,
      CreateMiss, AssignUidAndUpsert, EntryDelete, EntryDeleteFails, MailUpdate,
      MailUpdateFails, MailDelete, HandlerAdvance, history, disk, memory, syncer, busVars,
      Take, Advance
<1>14. CASE Wire \/ WireConnect
  BY <1>1, <1>14
  DEF Wire, WireConnect, Dial, Connect, Push, Unparsable, Drop, Terminate, Persist, bridgeVars, history,
      disk, memory, syncer
<1>15. CASE UNCHANGED vars
  BY <1>1, <1>15 DEF vars, history, disk, memory, syncer, busVars
<1> QED
  BY <1>2, <1>3, <1>4, <1>5, <1>6, <1>7, <1>8, <1>9, <1>10, <1>11, <1>12, <1>13,
     <1>14, <1>15
  DEF Next, Syncer

-----------------------------------------------------------------------------
(* The stores: what an operation writes is a row or an entry of the same   *)
(* kind, and only an upsert gives out or moves a UID.                      *)

(* Every row left is the row of that mail before, UID and folder included. *)
KeepsRows(old, new) ==
    /\ new \in Rows
    /\ \A m \in Mail : new[m] # None =>
          old[m] # None /\ new[m].folder = old[m].folder /\ new[m].uid = old[m].uid

(* Every mail left in a folder has the UID it had there. *)
KeepsMem(old, new) ==
    /\ new \in [Folder -> FolderMails]
    /\ \A f \in Folder, m \in Mail : new[f][m] # None =>
          old[f][m] # None /\ new[f][m].uid = old[f][m].uid

(* A row keeps folder and UID when a flag of it is written. *)
LEMMA RowFlags ==
    ASSUME NEW r \in Row, NEW b \in BOOLEAN
    PROVE  /\ [r EXCEPT !.details = b] \in Row /\ [r EXCEPT !.unread = b] \in Row
           /\ [r EXCEPT !.details = b].folder = r.folder
           /\ [r EXCEPT !.details = b].uid = r.uid
           /\ [r EXCEPT !.unread = b].folder = r.folder
           /\ [r EXCEPT !.unread = b].uid = r.uid
BY DEF Row

(* The operations on the rows that are not upserts. *)
LEMMA RowsAreKept ==
    ASSUME NEW r \in Rows, NEW gone, NEW m, NEW b \in BOOLEAN, NEW heal
    PROVE  /\ KeepsRows(r, DeleteRows(r, gone))
           /\ KeepsRows(r, MarkHasDetails(r, m))
           /\ KeepsRows(r, RefreshMailFields(r, m, b))
           /\ KeepsRows(r, [n \in Mail |-> IF n \in heal /\ r[n] # None
                                           THEN [r[n] EXCEPT !.details = TRUE] ELSE r[n]])
<1>1. \A n \in Mail : r[n] # None => r[n] \in Row
  BY DEF Rows
<1>2. KeepsRows(r, DeleteRows(r, gone))
  BY <1>1 DEF KeepsRows, DeleteRows, Rows
<1>3. KeepsRows(r, MarkHasDetails(r, m))
  BY <1>1, RowFlags DEF KeepsRows, MarkHasDetails, Rows
<1>4. KeepsRows(r, RefreshMailFields(r, m, b))
  BY <1>1, RowFlags DEF KeepsRows, RefreshMailFields, Rows
<1>5. KeepsRows(r, [n \in Mail |-> IF n \in heal /\ r[n] # None
                                   THEN [r[n] EXCEPT !.details = TRUE] ELSE r[n]])
  BY <1>1, RowFlags DEF KeepsRows, Rows
<1> QED BY <1>2, <1>3, <1>4, <1>5

(* An entry keeps its UID when its flag is written. *)
LEMMA EntryFlag ==
    ASSUME NEW e \in Entry, NEW b \in BOOLEAN
    PROVE  [e EXCEPT !.unread = b] \in Entry /\ [e EXCEPT !.unread = b].uid = e.uid
BY DEF Entry

(* The operations on memory that are not upserts. *)
LEMMA MemIsKept ==
    ASSUME NEW a \in [Folder -> FolderMails], NEW f, NEW m, NEW b \in BOOLEAN, NEW s
    PROVE  /\ KeepsMem(a, RemoveMailFromFolder(a, f, m))
           /\ KeepsMem(a, RemoveMailEverywhere(a, m))
           /\ KeepsMem(a, RefreshMailInPlace(a, m, b))
           /\ KeepsMem(a, PruneUnknownFolders(a, s))
           /\ KeepsMem(a, EmptyMem)
<1>1. /\ \A g \in Folder : a[g] \in FolderMails
      /\ \A g \in Folder, n \in Mail : a[g][n] # None => a[g][n] \in Entry
  BY DEF FolderMails
<1>2. KeepsMem(a, RemoveMailFromFolder(a, f, m))
  <2>1. \A g \in Folder : [a[g] EXCEPT ![m] = None] \in FolderMails
    BY <1>1 DEF FolderMails
  <2> QED BY <1>1, <2>1 DEF KeepsMem, RemoveMailFromFolder, FolderMails
<1>3. KeepsMem(a, RemoveMailEverywhere(a, m))
  <2>1. \A g \in Folder : [a[g] EXCEPT ![m] = None] \in FolderMails
    BY <1>1 DEF FolderMails
  <2> QED BY <1>1, <2>1 DEF KeepsMem, RemoveMailEverywhere, FolderMails
<1>4. KeepsMem(a, RefreshMailInPlace(a, m, b))
  <2> DEFINE new(g) == [a[g] EXCEPT ![m] = IF a[g][m] = None THEN None
                                           ELSE [a[g][m] EXCEPT !.unread = b]]
  <2>1. ASSUME NEW g \in Folder
        PROVE  /\ new(g) \in FolderMails
               /\ \A n \in Mail : new(g)[n] # None => a[g][n] # None /\ new(g)[n].uid = a[g][n].uid
    BY <1>1, EntryFlag DEF FolderMails
  <2>2. RefreshMailInPlace(a, m, b) = [g \in Folder |-> new(g)]
    BY DEF RefreshMailInPlace
  <2> QED BY <2>1, <2>2 DEF KeepsMem
<1>5. NoMails \in FolderMails /\ \A n \in Mail : NoMails[n] = None
  BY DEF NoMails, FolderMails
<1>6. KeepsMem(a, PruneUnknownFolders(a, s))
  BY <1>1, <1>5 DEF KeepsMem, PruneUnknownFolders
<1>7. KeepsMem(a, EmptyMem)
  BY <1>5 DEF KeepsMem, EmptyMem
<1> QED BY <1>2, <1>3, <1>4, <1>6, <1>7

(* load_cached_folder gives the folder's rows, with their UIDs. *)
LEMMA CachedFolderIsOfRows ==
    ASSUME NEW r \in Rows, NEW files, NEW f \in Folder
    PROVE  /\ CachedFolder(r, files, f) \in FolderMails
           /\ \A m \in Mail : CachedFolder(r, files, f)[m] # None =>
                 /\ r[m] # None /\ r[m].folder = f
                 /\ CachedFolder(r, files, f)[m].uid = r[m].uid
<1>1. \A m \in Mail : r[m] # None => r[m] \in Row
  BY DEF Rows
<1>2. ASSUME NEW m \in RowsOf(r, f), NEW b \in BOOLEAN
      PROVE  [uid |-> r[m].uid, unread |-> r[m].unread, body |-> b] \in Entry
  BY <1>1, <1>2 DEF RowsOf, Row, Entry
<1>3. ASSUME NEW m \in RowsOf(r, f)
      PROVE  [uid |-> r[m].uid, unread |-> r[m].unread, body |-> m \in files] \in Entry
  <2>1. (m \in files) \in BOOLEAN
    OBVIOUS
  <2> QED BY <1>2, <2>1
<1> QED BY <1>3 DEF CachedFolder, FolderMails, RowsOf

-----------------------------------------------------------------------------
(* UIDs. *)

stores == <<rows, nextUid, mem, syn, issued, refiled>>

(* A step that gives out no UID: what it leaves in a store was in a store. *)
Quiet ==
    /\ UNCHANGED <<nextUid, issued, refiled>>
    /\ KeepsRows(rows, rows')
    /\ mem' \in [Folder -> FolderMails]
    /\ \A f \in Folder, m \in Mail : mem'[f][m] # None =>
          \/ mem[f][m] # None /\ mem'[f][m].uid = mem[f][m].uid
          \/ rows[m] # None /\ rows[m].folder = f /\ mem'[f][m].uid = rows[m].uid
          \/ /\ syn # None /\ syn.step = "pruned" /\ syn.folder = f
             /\ syn.mails[m] # None /\ mem'[f][m].uid = syn.mails[m].uid
    /\ syn' \in SyncCall \cup {None}
    /\ syn' # None /\ syn'.step # "listed" =>
          /\ syn # None /\ syn.step # "listed"
          /\ syn'.folder = syn.folder /\ syn'.mails = syn.mails
    /\ known' \subseteq Folder

(* A quiet step shares no UID. *)
LEMMA QuietKeepsUids ==
    ASSUME StoreTypes, UidInv, Quiet
    PROVE  StoreTypes' /\ UidInv'
<1>1. StoreTypes'
  BY DEF StoreTypes, Quiet, KeepsRows
<1>2. \A m \in (Mail \ refiled)' :
         rows'[m] # None => <<rows'[m].folder, rows'[m].uid, m>> \in issued'
  BY DEF Quiet, KeepsRows, UidInv
<1>3. ASSUME NEW f \in Folder, NEW m \in Mail \ refiled, mem'[f][m] # None
      PROVE  <<f, mem'[f][m].uid, m>> \in issued'
  BY <1>3 DEF Quiet, UidInv
<1>4. syn' # None /\ syn'.step # "listed" =>
          \A m \in Mail \ refiled' :
              syn'.mails[m] # None => <<syn'.folder, syn'.mails[m].uid, m>> \in issued'
  BY DEF Quiet, UidInv
<1> QED BY <1>1, <1>2, <1>3, <1>4 DEF Quiet, UidInv

(* Nothing but the folder list changes. *)
LEMMA StillIsQuiet ==
    ASSUME StoreTypes, UNCHANGED stores, known' \subseteq Folder
    PROVE  Quiet
BY DEF StoreTypes, Quiet, stores, KeepsRows

(* Rows and memory only lose, or have a flag written. *)
LEMMA LossIsQuiet ==
    ASSUME StoreTypes, UNCHANGED <<nextUid, issued, refiled, syn>>, KeepsRows(rows, rows'),
           KeepsMem(mem, mem'), known' \subseteq Folder
    PROVE  Quiet
BY DEF StoreTypes, Quiet, KeepsMem

(* The parts of a call of sync_folder. *)
LEMMA SyncCallTypes ==
    ASSUME NEW c \in SyncCall, NEW step \in {"listed", "upserted", "pruned"},
           NEW gone \in SUBSET Mail, NEW mails \in FolderMails
    PROVE  /\ c.folder \in Folder /\ c.mails \in FolderMails
           /\ c.step \in {"listed", "upserted", "pruned"}
           /\ [c EXCEPT !.step = step, !.gone = gone] \in SyncCall
           /\ [c EXCEPT !.step = step, !.gone = gone].folder = c.folder
           /\ [c EXCEPT !.step = step, !.gone = gone].mails = c.mails
           /\ [c EXCEPT !.step = step, !.mails = mails] \in SyncCall
           /\ [c EXCEPT !.step = step, !.mails = mails].folder = c.folder
           /\ [c EXCEPT !.step = step, !.mails = mails].mails = mails
           /\ [c EXCEPT !.step = step, !.mails = mails].step = step
BY DEF SyncCall

(* The steps of sync_folder but its upsert. *)
LEMMA SyncIsQuiet ==
    ASSUME ServerInv, StoreTypes, SyncFolder, ~SyncUpsert
    PROVE  Quiet
<1>r. KeepsRows(rows, rows) /\ KeepsMem(mem, mem)
  BY DEF StoreTypes, KeepsRows, KeepsMem
<1>1. ASSUME NEW f \in Folder, SyncList(f) PROVE Quiet
  <2> DEFINE listed == [m \in Mail |->
                   IF srv[m] # None /\ srv[m].folder = f
                   THEN [uid |-> 0, unread |-> srv[m].unread, body |-> FALSE]
                   ELSE None]
  <2>1. listed \in FolderMails
    <3>1. ASSUME NEW m \in Mail, srv[m] # None
          PROVE  [uid |-> 0, unread |-> srv[m].unread, body |-> FALSE] \in Entry
      <4>1. PICK u \in BOOLEAN : u = srv[m].unread
        BY <3>1 DEF ServerInv, Place
      <4> QED BY <4>1 DEF Entry
    <3> QED BY <3>1 DEF FolderMails
  <2>2. syn' = [folder |-> f, step |-> "listed", gone |-> {}, mails |-> listed]
    BY <1>1 DEF SyncList
  <2> HIDE DEF listed
  <2>3. syn' \in SyncCall /\ syn'.step = "listed"
    BY <2>1, <2>2 DEF SyncCall
  <2>4. UNCHANGED <<nextUid, issued, refiled, rows, mem, known>>
    BY <1>1 DEF SyncList, disk, memory, history
  <2> QED BY <1>r, <2>3, <2>4 DEF Quiet, StoreTypes
<1>2. ASSUME NEW f \in Folder, SyncFails(f) PROVE Quiet
  BY <1>2, StillIsQuiet DEF SyncFails, disk, memory, stores, StoreTypes
<1>3. CASE SyncPrune
  <2>1. PICK gone \in SUBSET Mail : /\ rows' = DeleteRows(rows, gone)
                                    /\ syn' = [syn EXCEPT !.step = "pruned", !.gone = gone]
    BY <1>3 DEF SyncPrune, RowsOf
  <2>2. /\ syn \in SyncCall /\ syn.step # "listed"
        /\ UNCHANGED <<nextUid, issued, refiled, mem, known>>
    BY <1>3 DEF SyncPrune, StoreTypes, memory, history
  <2>3. syn.mails \in FolderMails
    BY <2>2 DEF SyncCall
  <2>4. syn' \in SyncCall /\ syn'.folder = syn.folder /\ syn'.mails = syn.mails
    BY <2>1, <2>2 DEF SyncCall
  <2>5. KeepsRows(rows, rows')
    BY <2>1, RowsAreKept DEF StoreTypes
  <2> QED
    BY <1>r, <1>3, <2>2, <2>4, <2>5, SyncAssumption
    DEF Quiet, SyncPrune, StoreTypes
<1>4. CASE SyncSet
  <2>1. /\ syn \in SyncCall /\ syn # None /\ syn.step = "pruned" /\ syn' = None
        /\ mem' = [mem EXCEPT ![syn.folder] = syn.mails]
        /\ UNCHANGED <<nextUid, issued, refiled, rows, known>>
    BY <1>4 DEF SyncSet, StoreTypes, history
  <2>2. syn.folder \in Folder /\ syn.mails \in FolderMails
    BY <2>1 DEF SyncCall
  <2>3. mem' \in [Folder -> FolderMails]
    BY <2>1, <2>2 DEF StoreTypes
  <2>4. ASSUME NEW f \in Folder, NEW m \in Mail, mem'[f][m] # None
        PROVE  \/ mem[f][m] # None /\ mem'[f][m].uid = mem[f][m].uid
               \/ /\ syn # None /\ syn.step = "pruned" /\ syn.folder = f
                  /\ syn.mails[m] # None /\ mem'[f][m].uid = syn.mails[m].uid
    BY <2>1, <2>2, <2>4 DEF StoreTypes
  <2> QED BY <1>r, <2>1, <2>3, <2>4 DEF Quiet, StoreTypes
<1> QED BY <1>1, <1>2, <1>3, <1>4 DEF SyncFolder

(* The steps of run_syncer, a crash, and what only the bus does. *)
LEMMA BootIsQuiet ==
    ASSUME ServerInv, StoreTypes, Syncer \/ BridgeCrash \/ Server \/ Wire \/ WireConnect
               \/ UNCHANGED vars
    PROVE  Quiet
<1>1. ASSUME UNCHANGED <<disk, mem, syn, history, known>> PROVE Quiet
  BY <1>1, StillIsQuiet DEF disk, history, stores, StoreTypes
<1>2. CASE Server \/ Wire \/ UNCHANGED vars
  BY <1>1, <1>2, ServerStep DEF Wire, bridgeVars, vars, memory
<1>3. ASSUME NEW expired \in BOOLEAN, BridgeStart(expired) PROVE Quiet
  BY <1>1, <1>3 DEF BridgeStart, memory
<1>4. CASE BootFolders \/ BootFoldersFails
  BY <1>4, StillIsQuiet
  DEF BootFolders, BootFoldersFails, memory, disk, history, stores, StoreTypes, ServerInv
<1>5. ASSUME NEW f \in Folder, BootLoad(f) PROVE Quiet
  <2>1. /\ mem' = [mem EXCEPT ![f] = CachedFolder(rows, eml, f)]
        /\ UNCHANGED <<nextUid, issued, refiled, syn, known>>
    BY <1>5 DEF BootLoad, history
  <2>2. rows' = [m \in Mail |-> IF m \in RowsOf(rows, f) \cap eml /\ rows[m] # None
                                THEN [rows[m] EXCEPT !.details = TRUE] ELSE rows[m]]
    BY <1>5 DEF BootLoad, RowsOf
  <2>3. KeepsRows(rows, rows')
    BY <2>2, RowsAreKept DEF StoreTypes
  <2>4. mem' \in [Folder -> FolderMails]
    BY <2>1, CachedFolderIsOfRows DEF StoreTypes
  <2>5. ASSUME NEW g \in Folder, NEW m \in Mail, mem'[g][m] # None
        PROVE  \/ mem[g][m] # None /\ mem'[g][m].uid = mem[g][m].uid
               \/ rows[m] # None /\ rows[m].folder = g /\ mem'[g][m].uid = rows[m].uid
    BY <2>1, <2>5, CachedFolderIsOfRows DEF StoreTypes
  <2> QED BY <2>1, <2>3, <2>4, <2>5 DEF Quiet, StoreTypes
<1>6. ASSUME NEW f \in Folder, Backfill(f) PROVE Quiet
  BY <1>6, StillIsQuiet DEF Backfill, memory, history, stores, StoreTypes
<1>7. CASE BootDecide \/ BootMark \/ BootRelease \/ BackfillDone \/ WireConnect
  BY <1>7, StillIsQuiet
  DEF BootDecide, BootMark, BootRelease, BackfillDone, WireConnect, disk, memory, history,
      stores, StoreTypes
<1>8. CASE BridgeCrash
  <2>1. /\ mem' = EmptyMem /\ known' = {} /\ syn' = None
        /\ UNCHANGED <<rows, nextUid, issued, refiled>>
    BY <1>8 DEF BridgeCrash, disk, history
  <2>2. KeepsMem(mem, mem')
    BY <2>1, MemIsKept DEF StoreTypes
  <2> QED BY <2>1, <2>2 DEF Quiet, StoreTypes, KeepsRows, KeepsMem
<1> QED BY <1>2, <1>3, <1>4, <1>5, <1>6, <1>7, <1>8 DEF Syncer

(* The steps of apply_batch but its upsert. *)
LEMMA HandlerIsQuiet ==
    ASSUME BusInv, Emitted, ServerInv, HandlerInv, StoreTypes, Handler, ~AssignUidAndUpsert
    PROVE  Quiet
<1>e. ASSUME pc # "idle"
      PROVE  /\ log[cur] \in BatchRecord /\ log[cur].unread \in BOOLEAN
  BY <1>e, BatchInHand DEF HandlerInv, BatchRecord
<1>r. KeepsRows(rows, rows) /\ KeepsMem(mem, mem)
  BY DEF StoreTypes, KeepsRows, KeepsMem
<1>1. ASSUME UNCHANGED <<rows, nextUid, mem, syn, issued, refiled, known>> PROVE Quiet
  BY <1>1, StillIsQuiet DEF stores, StoreTypes
<1>2. CASE HandlerTake \/ RefreshFails \/ CreateUnknown \/ CreateFails
  BY <1>1, <1>2
  DEF HandlerTake, RefreshFails, CreateUnknown, CreateFails, disk, memory, history
<1>3. CASE CreateHit \/ CreateMiss \/ EntryDeleteFails \/ HandlerAdvance
  BY <1>1, <1>3
  DEF CreateHit, CreateMiss, EntryDeleteFails, HandlerAdvance, disk, memory, history
<1>4. CASE RefreshFolderList
  <2>1. PICK gone : /\ rows' = DeleteRows(rows, gone) /\ known' = srvFolders
                    /\ mem' = PruneUnknownFolders(mem, srvFolders)
                    /\ UNCHANGED <<nextUid, issued, refiled, syn>>
    BY <1>4 DEF RefreshFolderList, history
  <2> QED BY <2>1, LossIsQuiet, RowsAreKept, MemIsKept DEF StoreTypes, ServerInv
<1>5. ASSUME NEW body \in BOOLEAN, CreateInline(body) PROVE Quiet
  <2>1. /\ rows' = MarkHasDetails(rows, log[cur].mail) \/ rows' = rows
        /\ UNCHANGED <<nextUid, issued, refiled, syn, mem, known>>
    BY <1>5 DEF CreateInline, memory, history
  <2>2. KeepsRows(rows, rows')
    BY <1>r, <2>1, RowsAreKept DEF StoreTypes
  <2> QED BY <1>r, <2>1, <2>2, LossIsQuiet DEF StoreTypes
<1>6. CASE EntryDelete
  <2>1. PICK drop, f, m : /\ rows' = DeleteRows(rows, drop)
                          /\ mem' = RemoveMailFromFolder(mem, f, m) \/ mem' = mem
                          /\ UNCHANGED <<nextUid, issued, refiled, syn, known>>
    BY <1>6 DEF EntryDelete, history
  <2>2. KeepsRows(rows, rows') /\ KeepsMem(mem, mem')
    BY <1>r, <2>1, RowsAreKept, MemIsKept DEF StoreTypes
  <2> QED BY <2>1, <2>2, LossIsQuiet DEF StoreTypes
<1>7. ASSUME NEW m, Forget(m), UNCHANGED <<nextUid, issued, refiled, syn, known>> PROVE Quiet
  BY <1>7, LossIsQuiet, RowsAreKept, MemIsKept DEF StoreTypes, Forget
<1>8. ASSUME NEW m, NEW b \in BOOLEAN, Refresh(m, b),
             UNCHANGED <<nextUid, issued, refiled, syn, known>>
      PROVE  Quiet
  BY <1>8, LossIsQuiet, RowsAreKept, MemIsKept DEF StoreTypes, Refresh
<1>9. ASSUME NEW inline \in BOOLEAN, MailUpdate(inline) PROVE Quiet
  <2>1. pc = "mail" /\ UNCHANGED <<nextUid, issued, refiled, syn, known>>
    BY <1>9 DEF MailUpdate, history
  <2>2. log[cur].unread \in BOOLEAN /\ log[cur].mail \in Mail
    BY <1>e, <2>1, BatchInHand DEF HandlerInv, Whole, BatchRecord
  <2>3. \/ Refresh(log[cur].mail, log[cur].unread)
        \/ /\ srv[log[cur].mail] # None
           /\ Refresh(log[cur].mail, srv[log[cur].mail].unread)
        \/ Forget(log[cur].mail)
    BY <1>9 DEF MailUpdate
  <2>4. srv[log[cur].mail] # None => srv[log[cur].mail].unread \in BOOLEAN
    BY <2>2 DEF ServerInv, Place
  <2> QED BY <1>7, <1>8, <2>1, <2>2, <2>3, <2>4
<1>10. CASE MailUpdateFails \/ MailDelete
  BY <1>7, <1>10 DEF MailUpdateFails, MailDelete, history
<1> QED BY <1>2, <1>3, <1>4, <1>5, <1>6, <1>9, <1>10 DEF Handler

(* allocate_folder_uids gives every new mail a UID of its own, at or above  *)
(* the counter and below where the counter goes.                            *)
LEMMA Allocated ==
    ASSUME NEW next \in Nat, NEW new \in SUBSET Mail, NEW u \in AllocateFolderUids(next, new)
    PROVE  /\ Cardinality(new) \in Nat
           /\ \A m \in new : u[m] \in Nat /\ next <= u[m] /\ u[m] < next + Cardinality(new)
           /\ \A m, n \in new : u[m] = u[n] => m = n
<1>1. IsFiniteSet(new)
  BY StoreAssumption, FS_Subset
<1>2. Cardinality(new) \in Nat
  BY <1>1, FS_CardinalityType
<1> QED BY <1>2 DEF AllocateFolderUids

(* Issuing such UIDs and moving the counter past them leaves every UID of a *)
(* folder with one mail.                                                    *)
LEMMA IssuedOnce ==
    ASSUME StoreTypes, UidInv, NEW f \in Folder, NEW k \in Nat,
           NEW given \in SUBSET (Folder \X Nat \X Mail),
           \A a \in given : a[1] = f /\ nextUid[f] <= a[2] /\ a[2] < nextUid[f] + k,
           \A a, b \in given : a[2] = b[2] => a[3] = b[3],
           nextUid' = [nextUid EXCEPT ![f] = nextUid[f] + k],
           issued' = issued \cup given
    PROVE  /\ nextUid' \in [Folder -> Nat]
           /\ issued' \subseteq Folder \X Nat \X Mail
           /\ \A a \in issued' : a[2] < nextUid'[a[1]]
           /\ \A a, b \in issued' : a[1] = b[1] /\ a[2] = b[2] => a[3] = b[3]
<1>1. nextUid' \in [Folder -> Nat] /\ nextUid[f] \in Nat
  BY DEF StoreTypes
<1>2. \A a \in issued : a[1] \in Folder /\ a[2] \in Nat /\ a[2] < nextUid[a[1]]
  BY DEF StoreTypes, UidInv
<1>3. \A g \in Folder : nextUid'[g] = IF g = f THEN nextUid[f] + k ELSE nextUid[g]
  BY DEF StoreTypes
<1>4. \A a \in given : a[2] \in Nat
  OBVIOUS
<1>5. issued' \subseteq Folder \X Nat \X Mail
  BY DEF StoreTypes
<1>6. ASSUME NEW a \in issued' PROVE a[2] < nextUid'[a[1]]
  <2>1. CASE a \in issued
    <3>1. nextUid[a[1]] \in Nat
      BY <1>2, <2>1 DEF StoreTypes
    <3> QED BY <1>1, <1>2, <1>3, <2>1, <3>1
  <2>2. CASE a \in given
    BY <1>3, <2>2
  <2> QED BY <1>6, <2>1, <2>2
<1>7. ASSUME NEW a \in issued', NEW b \in issued', a[1] = b[1], a[2] = b[2] PROVE a[3] = b[3]
  BY <1>1, <1>2, <1>4, <1>7 DEF UidInv
<1> QED BY <1>1, <1>5, <1>6, <1>7

(* The rows a listing writes. *)
LEMMA BatchUpsertRows ==
    ASSUME NEW r \in Rows, NEW f \in Folder, NEW mails \in FolderMails
    PROVE  LET s == UpsertMailMetadataBatch(r, f, mails)
           IN  /\ s \in Rows
               /\ \A m \in Mail : s[m] # None =>
                     \/ mails[m] = None /\ s[m] = r[m]
                     \/ /\ mails[m] # None /\ s[m].folder = f
                        /\ s[m].uid = IF r[m] = None THEN mails[m].uid ELSE r[m].uid
<1> DEFINE s == UpsertMailMetadataBatch(r, f, mails)
<1>1. ASSUME NEW m \in Mail, mails[m] # None
      PROVE  /\ MailToMetadata(f, mails[m]) \in Row
             /\ MailToMetadata(f, mails[m]).folder = f
             /\ MailToMetadata(f, mails[m]).uid = mails[m].uid
  <2>1. mails[m] \in Entry
    BY <1>1 DEF FolderMails
  <2>2. PICK b \in BOOLEAN : b = mails[m].unread
    BY <2>1 DEF Entry
  <2> QED BY <2>1, <2>2 DEF MailToMetadata, Row, Entry
<1>2. ASSUME NEW t \in Row, NEW n \in Row
      PROVE  /\ [t EXCEPT !.uid = n.uid, !.details = n.details] \in Row
             /\ [t EXCEPT !.uid = n.uid, !.details = n.details].folder = t.folder
             /\ [t EXCEPT !.uid = n.uid, !.details = n.details].uid = n.uid
  BY <1>2 DEF Row
<1>3. \A m \in Mail : r[m] # None => r[m] \in Row
  BY DEF Rows
<1>4. \A m \in Mail : s[m] = IF mails[m] = None THEN r[m]
        ELSE IF r[m] = None THEN MailToMetadata(f, mails[m])
        ELSE [MailToMetadata(f, mails[m]) EXCEPT !.uid = r[m].uid, !.details = r[m].details]
  BY DEF UpsertMailMetadataBatch
<1>5. ASSUME NEW m \in Mail
      PROVE  /\ s[m] \in Row \cup {None}
             /\ s[m] # None =>
                     \/ mails[m] = None /\ s[m] = r[m]
                     \/ /\ mails[m] # None /\ s[m].folder = f
                        /\ s[m].uid = IF r[m] = None THEN mails[m].uid ELSE r[m].uid
  <2>1. CASE mails[m] = None
    BY <1>4, <2>1 DEF Rows
  <2>2. CASE mails[m] # None
    <3>1. CASE r[m] = None
      BY <1>1, <1>4, <2>2, <3>1
    <3>2. CASE r[m] # None
      <4>1. PICK t \in Row : t = MailToMetadata(f, mails[m]) /\ t.folder = f
        BY <1>1, <2>2
      <4>2. PICK n \in Row : n = r[m]
        BY <1>3, <3>2
      <4> HIDE DEF s
      <4>3. s[m] = [t EXCEPT !.uid = n.uid, !.details = n.details]
        BY <1>4, <2>2, <3>2, <4>1, <4>2
      <4>a. /\ [t EXCEPT !.uid = n.uid, !.details = n.details] \in Row
            /\ [t EXCEPT !.uid = n.uid, !.details = n.details].folder = t.folder
            /\ [t EXCEPT !.uid = n.uid, !.details = n.details].uid = n.uid
        BY <1>2
      <4>4. s[m] \in Row /\ s[m].folder = f /\ s[m].uid = r[m].uid
        BY <4>a, <4>1, <4>2, <4>3
      <4> QED BY <2>2, <3>2, <4>4
    <3> QED BY <3>1, <3>2
  <2> QED BY <2>1, <2>2
<1>6. s \in Rows
  BY <1>5 DEF UpsertMailMetadataBatch, Rows
<1> QED BY <1>5, <1>6

(* The row assign_uid_and_upsert writes. *)
LEMMA UpsertRow ==
    ASSUME NEW r \in Rows, NEW f \in Folder, NEW m \in Mail, NEW e \in Entry
    PROVE  LET s == UpsertMailMetadata(r, m, MailToMetadata(f, e))
           IN  /\ s \in Rows
               /\ \A n \in Mail \ {m} : s[n] = r[n]
               /\ s[m].folder = f
               /\ s[m].uid = IF r[m] = None THEN e.uid ELSE r[m].uid
<1>1. PICK b \in BOOLEAN : b = e.unread
  BY DEF Entry
<1>2. /\ MailToMetadata(f, e) \in Row /\ MailToMetadata(f, e).folder = f
      /\ MailToMetadata(f, e).uid = e.uid
  BY <1>1 DEF MailToMetadata, Row, Entry
<1>3. ASSUME NEW t \in Row, NEW n \in Row
      PROVE  /\ [t EXCEPT !.uid = n.uid] \in Row /\ [t EXCEPT !.uid = n.uid].folder = t.folder
             /\ [t EXCEPT !.uid = n.uid].uid = n.uid
  BY <1>3 DEF Row
<1>4. r[m] # None => r[m] \in Row
  BY DEF Rows
<1> DEFINE t == IF r[m] = None THEN MailToMetadata(f, e)
                ELSE [MailToMetadata(f, e) EXCEPT !.uid = r[m].uid]
<1>5. t \in Row /\ t.folder = f /\ t.uid = IF r[m] = None THEN e.uid ELSE r[m].uid
  BY <1>2, <1>3, <1>4
<1>6. UpsertMailMetadata(r, m, MailToMetadata(f, e)) = [r EXCEPT ![m] = t]
  BY DEF UpsertMailMetadata
<1> HIDE DEF t
<1> QED BY <1>5, <1>6 DEF Rows

(* The upsert of sync_folder issues UIDs and keeps the others. *)
LEMMA SyncUpsertKeepsUids ==
    ASSUME StoreTypes, UidInv, SyncUpsert
    PROVE  StoreTypes' /\ UidInv'
<1>1. syn \in SyncCall /\ syn.step = "listed" /\ syn # None
  BY DEF SyncUpsert, StoreTypes
<1> DEFINE f == syn.folder
           new == {m \in Mail : syn.mails[m] # None /\ mem[f][m] = None}
           updated(u) ==
              [m \in Mail |->
                  IF syn.mails[m] = None THEN None
                  ELSE [uid |-> IF m \in new THEN u[m] ELSE mem[f][m].uid,
                        unread |-> syn.mails[m].unread,
                        body |-> m \notin new /\ mem[f][m].body]]
<1>2. f \in Folder /\ new \in SUBSET Mail /\ syn.mails \in FolderMails
  BY <1>1 DEF SyncCall
<1>3. PICK u \in AllocateFolderUids(nextUid[f], new) :
          /\ syn' = [syn EXCEPT !.step = "upserted", !.mails = updated(u)]
          /\ rows' = UpsertMailMetadataBatch(rows, f, updated(u))
          /\ nextUid' = [nextUid EXCEPT ![f] = @ + Cardinality(new)]
          /\ issued' = issued \cup {<<f, u[m], m>> : m \in new}
          /\ refiled' = refiled \cup
                   {m \in Mail : /\ updated(u)[m] # None
                                 /\ rows[m] # None
                                 /\ rows[m].folder # f}
  BY DEF SyncUpsert
<1>4. mem' = mem /\ known' = known
  BY DEF SyncUpsert, memory
<1> DEFINE listing == updated(u)
<1>5. /\ Cardinality(new) \in Nat
      /\ \A m \in new : u[m] \in Nat /\ nextUid[f] <= u[m] /\ u[m] < nextUid[f] + Cardinality(new)
      /\ \A m, n \in new : u[m] = u[n] => m = n
  <2>1. nextUid[f] \in Nat
    BY <1>2 DEF StoreTypes
  <2> HIDE DEF new
  <2> QED BY <1>2, <2>1, Allocated
<1>6. ASSUME NEW m \in Mail, syn.mails[m] # None
      PROVE  /\ listing[m] \in Entry
             /\ listing[m].uid = IF m \in new THEN u[m] ELSE mem[f][m].uid
             /\ m \notin new => mem[f][m] # None
  <2>1. PICK b \in BOOLEAN : b = syn.mails[m].unread
    BY <1>2, <1>6 DEF FolderMails, Entry
  <2>2. m \notin new => mem[f][m] \in Entry /\ mem[f][m] # None
    BY <1>2, <1>6 DEF StoreTypes, FolderMails
  <2>3. PICK d \in BOOLEAN : d = (m \notin new /\ mem[f][m].body)
    <3>1. CASE m \in new
      BY <3>1
    <3>2. CASE m \notin new
      <4>1. mem[f][m].body \in BOOLEAN
        BY <2>2, <3>2 DEF Entry
      <4> QED BY <3>2, <4>1
    <3> QED BY <3>1, <3>2
  <2>4. PICK k \in Nat : k = IF m \in new THEN u[m] ELSE mem[f][m].uid
    BY <1>5, <2>2 DEF Entry
  <2>5. listing[m] = [uid |-> k, unread |-> b, body |-> d]
    BY <1>6, <2>1, <2>3, <2>4
  <2> HIDE DEF listing, new
  <2> QED BY <2>2, <2>4, <2>5 DEF Entry
<1>7. \A m \in Mail : syn.mails[m] = None => listing[m] = None
  OBVIOUS
<1>8. listing \in [Mail -> Entry \cup {None}]
  BY <1>6, <1>7
<1>9. /\ nextUid' \in [Folder -> Nat] /\ issued' \subseteq Folder \X Nat \X Mail
      /\ \A a \in issued' : a[2] < nextUid'[a[1]]
      /\ \A a, b \in issued' : a[1] = b[1] /\ a[2] = b[2] => a[3] = b[3]
  <2>1. nextUid' = [nextUid EXCEPT ![f] = nextUid[f] + Cardinality(new)]
    BY <1>2, <1>3 DEF StoreTypes
  <2> DEFINE given == {<<f, u[m], m>> : m \in new}
  <2>2. issued' = issued \cup given
    BY <1>3
  <2> HIDE DEF f, new
  <2>3. /\ given \in SUBSET (Folder \X Nat \X Mail)
        /\ \A a \in given : /\ a[1] = f /\ nextUid[f] <= a[2]
                            /\ a[2] < nextUid[f] + Cardinality(new)
        /\ \A a, b \in given : a[2] = b[2] => a[3] = b[3]
    BY <1>2, <1>5
  <2> HIDE DEF given
  <2> QED BY <1>2, <1>5, <2>1, <2>2, <2>3, IssuedOnce
<1>10. /\ syn' = [syn EXCEPT !.step = "upserted", !.mails = listing]
       /\ rows' = UpsertMailMetadataBatch(rows, f, listing)
       /\ refiled' = refiled \cup
             {m \in Mail : listing[m] # None /\ rows[m] # None /\ rows[m].folder # f}
       /\ issued' = issued \cup {<<f, u[m], m>> : m \in new}
  BY <1>3
<1>11. new = {m \in Mail : syn.mails[m] # None /\ mem[f][m] = None}
  OBVIOUS
<1> HIDE DEF listing, new
<1>12. listing \in FolderMails
  BY <1>8 DEF FolderMails
<1>13. syn' \in SyncCall /\ syn'.folder = f /\ syn'.mails = listing
  <2>1. "upserted" \in {"listed", "upserted", "pruned"} /\ {} \in SUBSET Mail
    OBVIOUS
  <2> QED BY <1>1, <1>10, <1>12 DEF SyncCall
<1> HIDE DEF f
<1>14. /\ rows' \in Rows
       /\ \A m \in Mail : rows'[m] # None =>
             \/ listing[m] = None /\ rows'[m] = rows[m]
             \/ /\ listing[m] # None /\ rows'[m].folder = f
                /\ rows'[m].uid = IF rows[m] = None THEN listing[m].uid ELSE rows[m].uid
  BY <1>2, <1>10, <1>12, BatchUpsertRows DEF StoreTypes
<1>15. ASSUME NEW m \in Mail \ refiled', listing[m] # None
       PROVE  <<f, listing[m].uid, m>> \in issued'
  <2>1. m \notin refiled /\ syn.mails[m] # None
    BY <1>7, <1>10, <1>15
  <2>2. CASE m \in new
    BY <1>6, <1>10, <2>1, <2>2
  <2>3. CASE m \notin new
    <3>1. mem[f][m] # None /\ listing[m].uid = mem[f][m].uid
      BY <1>6, <2>1, <2>3
    <3>2. <<f, mem[f][m].uid, m>> \in issued
      BY <1>2, <2>1, <3>1 DEF UidInv
    <3> QED BY <1>10, <3>1, <3>2
  <2> QED BY <2>2, <2>3
<1>16. ASSUME NEW m \in Mail \ refiled', rows'[m] # None
       PROVE  <<rows'[m].folder, rows'[m].uid, m>> \in issued'
  <2>1. m \notin refiled /\ (rows[m] # None => <<rows[m].folder, rows[m].uid, m>> \in issued')
    BY <1>10, <1>16 DEF UidInv
  <2>2. CASE listing[m] = None
    BY <1>14, <1>16, <2>1, <2>2
  <2>3. CASE listing[m] # None /\ rows[m] = None
    BY <1>14, <1>15, <1>16, <2>3
  <2>4. CASE listing[m] # None /\ rows[m] # None
    <3>1. rows[m].folder = f
      BY <1>10, <1>16, <2>4
    <3> QED BY <1>14, <1>16, <2>1, <2>4, <3>1
  <2> QED BY <2>2, <2>3, <2>4
<1>17. ASSUME NEW g \in Folder, NEW m \in Mail \ refiled', mem'[g][m] # None
       PROVE  <<g, mem'[g][m].uid, m>> \in issued'
  BY <1>4, <1>10, <1>17 DEF UidInv
<1>18. StoreTypes'
  BY <1>4, <1>9, <1>13, <1>14 DEF StoreTypes
<1>19. UidInv'
  BY <1>9, <1>13, <1>15, <1>16, <1>17 DEF UidInv
<1> QED BY <1>18, <1>19

(* So does assign_uid_and_upsert. *)
LEMMA AssignKeepsUids ==
    ASSUME BusInv, Emitted, ServerInv, HandlerInv, StoreTypes, UidInv, AssignUidAndUpsert
    PROVE  StoreTypes' /\ UidInv'
<1> DEFINE m == log[cur].mail
           f == log[cur].create
           e == [pend EXCEPT !.uid = nextUid[f]]
<1>1. /\ nextUid' = [nextUid EXCEPT ![f] = @ + 1]
      /\ rows' = UpsertMailMetadata(rows, m, MailToMetadata(f, e))
      /\ mem' = UpsertMailInFolder(mem, f, m, e)
      /\ issued' = issued \cup {<<f, nextUid[f], m>>}
      /\ refiled' = IF rows[m] # None /\ rows[m].folder # f
                    THEN refiled \cup {m} ELSE refiled
      /\ syn' = syn /\ known' = known
  BY DEF AssignUidAndUpsert
<1>2. m \in Mail /\ f \in Folder /\ pend \in Entry
  BY BatchInHand DEF AssignUidAndUpsert, HandlerInv, Whole, BatchRecord
<1>3. e \in Entry /\ e.uid = nextUid[f] /\ nextUid[f] \in Nat
  BY <1>2 DEF Entry, StoreTypes
<1> HIDE DEF m, f, e
<1> DEFINE given == {<<f, nextUid[f], m>>}
<1>4. /\ nextUid' \in [Folder -> Nat] /\ issued' \subseteq Folder \X Nat \X Mail
      /\ \A a \in issued' : a[2] < nextUid'[a[1]]
      /\ \A a, b \in issued' : a[1] = b[1] /\ a[2] = b[2] => a[3] = b[3]
  <2>1. nextUid' = [nextUid EXCEPT ![f] = nextUid[f] + 1]
    BY <1>1, <1>2 DEF StoreTypes
  <2>2. issued' = issued \cup given
    BY <1>1
  <2>3. /\ given \in SUBSET (Folder \X Nat \X Mail)
        /\ \A a \in given : a[1] = f /\ nextUid[f] <= a[2] /\ a[2] < nextUid[f] + 1
        /\ \A a, b \in given : a[2] = b[2] => a[3] = b[3]
    BY <1>2, <1>3
  <2> HIDE DEF given
  <2> QED BY <1>2, <2>1, <2>2, <2>3, IssuedOnce
<1>5. /\ rows' \in Rows
      /\ \A n \in Mail \ {m} : rows'[n] = rows[n]
      /\ rows'[m].folder = f
      /\ rows'[m].uid = IF rows[m] = None THEN e.uid ELSE rows[m].uid
  BY <1>1, <1>2, <1>3, UpsertRow DEF StoreTypes
<1>6. /\ mem' \in [Folder -> FolderMails]
      /\ \A g \in Folder, n \in Mail :
            mem'[g][n] = IF g = f /\ n = m THEN e ELSE mem[g][n]
  <2>1. [mem[f] EXCEPT ![m] = e] \in FolderMails
    BY <1>2, <1>3 DEF StoreTypes, FolderMails
  <2>2. mem' = [mem EXCEPT ![f] = [mem[f] EXCEPT ![m] = e]]
    BY <1>1, <1>2 DEF UpsertMailInFolder, StoreTypes
  <2> QED BY <1>2, <2>1, <2>2 DEF StoreTypes, FolderMails
<1>7. <<f, e.uid, m>> \in issued' /\ issued \subseteq issued' /\ refiled \subseteq refiled'
  BY <1>1, <1>3
<1>8. ASSUME NEW n \in Mail \ refiled', rows'[n] # None
      PROVE  <<rows'[n].folder, rows'[n].uid, n>> \in issued'
  <2>1. n \notin refiled /\ (rows[n] # None => <<rows[n].folder, rows[n].uid, n>> \in issued')
    BY <1>7, <1>8 DEF UidInv
  <2>2. CASE n # m
    BY <1>5, <1>8, <2>1, <2>2
  <2>3. CASE n = m /\ rows[m] = None
    BY <1>5, <1>7, <2>3
  <2>4. CASE n = m /\ rows[m] # None
    <3>1. rows[m].folder = f
      BY <1>1, <1>8, <2>4
    <3> QED BY <1>5, <2>1, <2>4, <3>1
  <2> QED BY <2>2, <2>3, <2>4
<1>9. ASSUME NEW g \in Folder, NEW n \in Mail \ refiled', mem'[g][n] # None
      PROVE  <<g, mem'[g][n].uid, n>> \in issued'
  BY <1>6, <1>7, <1>9 DEF UidInv
<1>10. StoreTypes'
  BY <1>1, <1>4, <1>5, <1>6 DEF StoreTypes
<1>11. UidInv'
  BY <1>1, <1>4, <1>7, <1>8, <1>9 DEF UidInv
<1> QED BY <1>10, <1>11

-----------------------------------------------------------------------------
(* Moves. *)

(* Nothing but the server makes a mail of an emitted batch come or go, and   *)
(* a mail that is gone does not come back.                                   *)
LEMMA GoneStaysGone ==
    ASSUME ServerInv, Server, NEW i \in 1 .. Len(log), NEW n \in Mail, n = log[i].mail,
           srv[n] = None
    PROVE  srv'[n] = None
<1>1. ASSUME NEW m \in Mail, NEW f \in Folder, Deliver(m, f) PROVE srv'[n] = None
  BY <1>1 DEF Deliver, ServerInv
<1>2. ASSUME NEW m \in Mail, NEW f \in Folder, Move(m, f) PROVE srv'[n] = None
  BY <1>2 DEF Move, ServerInv
<1>3. ASSUME NEW m \in Mail, Mark(m) \/ Purge(m) PROVE srv'[n] = None
  BY <1>3 DEF Mark, Purge, ServerInv
<1>4. ASSUME NEW f \in Folder, AddFolder(f) \/ RemoveFolder(f) PROVE srv'[n] = None
  BY <1>4 DEF AddFolder, RemoveFolder
<1> QED BY <1>1, <1>2, <1>3, <1>4 DEF Server

(* While apply_batch is at a DELETE no folder is being listed. *)
LEMMA NoListingAtDelete ==
    ASSUME HandlerInv, RetryInv, MoveInv, pc = "delete"
    PROVE  syn = None /\ Syncable = {} /\ boot \notin {"off", "folders", "load", "sync", "release"}
<1>1. boot \notin {"off", "folders", "load", "sync", "release"}
  BY DEF HandlerInv, RetryInv
<1> QED BY <1>1 DEF MoveInv, Syncable

(* Every step keeps what the DELETE of a move relies on. *)
LEMMA MoveStep ==
    ASSUME BusInv, Emitted, ServerInv, HandlerInv, StoreTypes, RetryInv, MoveInv, [Next]_vars
    PROVE  MoveInv'
<1>f. None \notin known /\ None \notin srvFolders
  BY StoreAssumption DEF StoreTypes, ServerInv
<1>e. ASSUME pc # "idle"
      PROVE  /\ cur \in 1 .. Len(log) /\ log[cur] \in BatchRecord /\ Whole(log[cur])
             /\ stage = "applying" /\ ready
  BY <1>e, BatchInHand DEF HandlerInv
<1>m. ASSUME pc \in {"create", "store", "delete"}
      PROVE  log[cur].mail \in Mail
  BY <1>e, <1>m DEF HandlerInv, Whole, BatchRecord
<1>0. ASSUME UNCHANGED <<syn, boot, pc, log, cur, known, fall, mem, srv>> PROVE MoveInv'
  BY <1>0 DEF MoveInv
<1>1. CASE Server
  <2>1. UNCHANGED <<syn, boot, pc, cur, known, fall, mem>>
    BY <1>1, ServerStep DEF bridgeVars, memory, syncer, handler, Emit
  <2>2. CASE pc # "delete"
    BY <2>1, <2>2 DEF MoveInv
  <2>3. CASE pc = "delete"
    <3>1. cur \in 1 .. Len(log) /\ log[cur].mail \in Mail
      BY <1>e, <1>m, <2>3
    <3>2. log'[cur'] = log[cur]
      BY <2>1, <3>1, LogGrows, BusSteps DEF BusInv
    <3>3. srv[log[cur].mail] = None => srv'[log[cur].mail] = None
      BY <1>1, <3>1, GoneStaysGone
    <3> QED BY <2>1, <3>2, <3>3 DEF MoveInv
  <2> QED BY <2>2, <2>3
<1>2. CASE SyncFolder
  <2>1. pc # "delete"
    BY <1>2, NoListingAtDelete
    DEF SyncFolder, SyncList, SyncFails, SyncUpsert, SyncPrune, SyncSet
  <2>2. UNCHANGED <<boot, pc>>
    BY <1>2
    DEF SyncFolder, SyncList, SyncFails, SyncUpsert, SyncPrune, SyncSet, syncer, handler
  <2>3. syn' # None => boot = "sync" \/ pc = "fallback"
    BY <1>2
    DEF SyncFolder, SyncList, SyncFails, SyncUpsert, SyncPrune, SyncSet, Syncable, MoveInv
  <2> QED BY <2>1, <2>2, <2>3 DEF MoveInv
<1>3. CASE Syncer
  <2> USE DEF memory, handler, busVars
  <2> DEFINE Fine == /\ UNCHANGED <<syn, pc, log, cur, fall, srv>>
                     /\ boot = "sync" /\ boot' # "sync" => syn = None
                     /\ boot \notin {"folders", "load"} => UNCHANGED <<known, mem>>
  <2>a. ASSUME NEW expired \in BOOLEAN, BridgeStart(expired) PROVE Fine
    BY <2>a DEF BridgeStart, Start, RetryInv
  <2>b. ASSUME BootFolders \/ BootFoldersFails PROVE Fine
    BY <2>b DEF BootFolders, BootFoldersFails
  <2>c. ASSUME NEW f \in Folder, BootLoad(f) PROVE Fine
    BY <2>c DEF BootLoad
  <2>d. ASSUME NEW f \in Folder, Backfill(f) PROVE Fine
    BY <2>d DEF Backfill
  <2>e. ASSUME BootDecide \/ BootMark PROVE Fine
    BY <2>e DEF BootDecide, BootMark
  <2>f. ASSUME BootRelease \/ BackfillDone PROVE Fine
    BY <2>f DEF BootRelease, Release, BackfillDone
  <2>1. Fine
    BY <1>3, <2>a, <2>b, <2>c, <2>d, <2>e, <2>f DEF Syncer
  <2> QED BY <2>1, NoListingAtDelete DEF MoveInv
<1>4. CASE BridgeCrash
  BY <1>4 DEF BridgeCrash, MoveInv
<1>5. ASSUME UNCHANGED <<syn, boot>>, pc # "fallback" \/ syn = None,
             pc' # "delete" \/ log'[cur'].create \notin known' \/ fall' # {}
      PROVE  MoveInv'
  BY <1>5 DEF MoveInv
<1>6. CASE HandlerTake
  <2>1. pc' = IF log[cur'].folders # None THEN "refresh" ELSE AtCreate(log[cur'])
    BY <1>6 DEF HandlerTake
  <2>2. UNCHANGED <<syn, boot, log, known>> /\ pc = "idle"
    BY <1>6, <1>e DEF HandlerTake, Take, syncer, memory
  <2>3. pc' = "delete" => log[cur'].create = None
    BY <2>1 DEF AtCreate
  <2> QED BY <1>5, <1>f, <2>2, <2>3
<1>7. CASE RefreshFolderList \/ RefreshFails
  <2>1. /\ pc = "refresh" /\ pc' = AtCreate(log[cur]) /\ UNCHANGED <<syn, boot, log, cur>>
        /\ known' \in {known, srvFolders}
    BY <1>7 DEF RefreshFolderList, RefreshFails, syncer, memory, busVars
  <2>2. pc' = "delete" => log[cur].create = None
    BY <2>1 DEF AtCreate
  <2> QED BY <1>5, <1>f, <2>1, <2>2
<1>8. CASE CreateUnknown \/ CreateFails
  <2>1. pc = "create" /\ fall' # {} /\ UNCHANGED <<syn, boot>>
    BY <1>8 DEF CreateUnknown, CreateFails, syncer
  <2> QED BY <1>5, <2>1
<1>9. CASE CreateHit \/ \E body \in BOOLEAN : CreateInline(body)
  <2>1. pc = "create" /\ pc' = "store" /\ UNCHANGED <<syn, boot>>
    BY <1>9 DEF CreateHit, CreateInline, syncer
  <2> QED BY <1>5, <2>1
<1>10. CASE CreateMiss
  <2>1. pc = "create" /\ UNCHANGED <<syn, boot, srv, log, cur>>
    BY <1>10 DEF CreateMiss, syncer, busVars
  <2>2. pc' = "store" \/ srv[log[cur].mail] = None
    BY <1>10 DEF CreateMiss
  <2> QED BY <1>5, <2>1, <2>2 DEF MoveInv
<1>11. CASE AssignUidAndUpsert
  <2> DEFINE m == log[cur].mail
             f == log[cur].create
             e == [pend EXCEPT !.uid = nextUid[f]]
  <2>1. /\ pc = "store" /\ UNCHANGED <<syn, boot, srv, log, cur>>
        /\ mem' = UpsertMailInFolder(mem, f, m, e)
    BY <1>11 DEF AssignUidAndUpsert, syncer, busVars
  <2>2. m \in Mail /\ f \in Folder /\ pend \in Entry
    BY <1>e, <1>m, <2>1 DEF HandlerInv, BatchRecord
  <2>3. e \in Entry
    BY <2>2 DEF Entry, StoreTypes
  <2>4. mem'[f][m] = e
    <3> HIDE DEF e
    <3> QED BY <2>1, <2>2 DEF UpsertMailInFolder, StoreTypes, FolderMails
  <2> HIDE DEF e
  <2>5. mem'[f][m] # None
    BY <2>3, <2>4, NoneAssumption
  <2> QED BY <2>1, <2>5 DEF MoveInv
<1>12. CASE EntryDelete \/ EntryDeleteFails
  <2>1. pc = "delete" /\ UNCHANGED <<syn, boot, log, cur>> /\ pc' = AtMail(log[cur])
    BY <1>12 DEF EntryDelete, EntryDeleteFails, syncer, busVars
  <2>2. pc' # "delete"
    BY <2>1 DEF AtMail
  <2> QED BY <1>5, <2>1, <2>2
<1>13. CASE (\E inline \in BOOLEAN : MailUpdate(inline)) \/ MailUpdateFails \/ MailDelete
  <2>1. pc = "mail" /\ UNCHANGED <<syn, boot>> /\ pc' = "fallback"
    BY <1>13 DEF MailUpdate, MailUpdateFails, MailDelete, syncer
  <2> QED BY <1>5, <2>1
<1>14. CASE HandlerAdvance
  BY <1>5, <1>14 DEF HandlerAdvance, syncer
<1>15. CASE Wire \/ WireConnect
  <2>1. CASE Persist
    <3>1. pc = "idle"
      BY <1>e, <2>1 DEF Persist
    <3> QED BY <1>5, <1>15, <3>1 DEF Wire, WireConnect, bridgeVars, handler, syncer
  <2>2. CASE ~Persist
    BY <1>0, <1>15, <2>2
    DEF Wire, WireConnect, Dial, Connect, Push, Unparsable, Drop, Terminate, bridgeVars, handler, memory, syncer
  <2> QED BY <2>1, <2>2
<1>16. CASE UNCHANGED vars
  BY <1>0, <1>16 DEF vars, handler, busVars, memory, syncer
<1> QED
  BY <1>1, <1>2, <1>3, <1>4, <1>6, <1>7, <1>8, <1>9, <1>10, <1>11, <1>12, <1>13, <1>14,
     <1>15, <1>16 DEF Next, Handler

-----------------------------------------------------------------------------
(* The invariant. *)

(* It holds at the start. *)
LEMMA SyncInitInv == Init => SyncInv
<1> SUFFICES ASSUME Init PROVE SyncInv
  OBVIOUS
<1>1. BusInv
  BY BusInitInv DEF Init
<1>2. Len(log) = 0 /\ Len(chan) = 0
  BY EmptySeq DEF Init, BusInit
<1>3. Emitted
  BY <1>2 DEF Init, BusInit, Emitted
<1>4. ServerInv
  <2>1. srv \in [Mail -> Place \cup {None}]
    BY SyncAssumption DEF Init, Place
  <2> QED BY <1>2, <2>1, SyncAssumption DEF Init, ServerInv
<1>5. HandlerInv /\ RetryInv /\ MoveInv
  BY DEF Init, BusInit, HandlerInv, RetryInv, MoveInv, FailedSyncIsRetried
<1>6. mem \in [Folder -> FolderMails] /\ \A f \in Folder, m \in Mail : mem[f][m] = None
  BY DEF Init, EmptyMem, NoMails, FolderMails
<1>7. rows \in Rows /\ \A m \in Mail : rows[m] = None
  BY DEF Init, Rows
<1>8. nextUid \in [Folder -> Nat]
  BY DEF Init
<1>9. StoreTypes /\ UidInv
  BY <1>6, <1>7, <1>8 DEF Init, StoreTypes, UidInv
<1> QED BY <1>1, <1>3, <1>4, <1>5, <1>9 DEF SyncInv

(* Every step keeps it. *)
LEMMA SyncStepInv == SyncInv /\ [Next]_vars => SyncInv'
<1> SUFFICES ASSUME SyncInv, [Next]_vars PROVE SyncInv'
  OBVIOUS
<1> USE DEF SyncInv
<1>1. [BusNext]_busVars
  BY BusSteps
<1>2. BusInv' /\ Emitted'
  BY <1>1, BusStepInv, EmittedStep DEF BusInv
<1>3. ServerInv'
  BY ServerInvStep DEF BusInv
<1>4. HandlerInv'
  BY HandlerStep
<1>5. RetryInv'
  BY RetryStep
<1>6. StoreTypes' /\ UidInv'
  <2>1. CASE SyncUpsert
    BY <2>1, SyncUpsertKeepsUids
  <2>2. CASE AssignUidAndUpsert
    BY <2>2, AssignKeepsUids
  <2>3. CASE ~SyncUpsert /\ ~AssignUidAndUpsert
    <3>1. Quiet
      BY <2>3, SyncIsQuiet, BootIsQuiet, HandlerIsQuiet DEF Next
    <3> QED BY <3>1, QuietKeepsUids
  <2> QED BY <2>1, <2>2, <2>3
<1>7. MoveInv'
  BY MoveStep
<1> QED BY <1>2, <1>3, <1>4, <1>5, <1>6, <1>7

(* Applying batches refines the event bus: whatever the syncer and          *)
(* apply_batch do to the stores, the bus under them sees a batch taken,     *)
(* applied and acknowledged, or nothing.                                    *)
LEMMA SyncRefinesBus == Spec => BusSpec
<1>1. Init => BusInit
  BY DEF Init
<1>2. SyncInv /\ [Next]_vars => [BusNext]_busVars
  BY BusSteps DEF SyncInv
<1> QED BY <1>1, <1>2, SyncInitInv, SyncStepInv, PTL DEF Spec, BusSpec

(* So no batch is skipped by the handler and the syncer together either. *)
THEOREM SyncSkipsNoBatch == Spec => []NoGap
BY SyncRefinesBus, BusNoGap, PTL

(* Whatever mixture of listings, clones, replays, cached loads and crashes  *)
(* filled a folder, a UID of it was given to one mail, and two mails of it  *)
(* in memory have two UIDs unless one was moved under a row that kept the   *)
(* UID of its old folder.                                                   *)
THEOREM UidsAreNotShared == Spec => []UidsNotShared
<1>1. SyncInv => UidsNotShared
  <2> SUFFICES ASSUME SyncInv PROVE UidsNotShared
    OBVIOUS
  <2>1. \A a, b \in issued : a[1] = b[1] /\ a[2] = b[2] => a[3] = b[3]
    BY DEF SyncInv, UidInv
  <2>2. ASSUME NEW f \in Folder, NEW m \in Mail \ refiled, NEW n \in Mail \ refiled,
               m # n, mem[f][m] # None, mem[f][n] # None
        PROVE  mem[f][m].uid # mem[f][n].uid
    <3>1. <<f, mem[f][m].uid, m>> \in issued /\ <<f, mem[f][n].uid, n>> \in issued
      BY <2>2 DEF SyncInv, UidInv
    <3> QED BY <2>1, <2>2, <3>1
  <2> QED BY <2>1, <2>2 DEF UidsNotShared
<1> QED BY <1>1, SyncInitInv, SyncStepInv, PTL DEF Spec

(* However many folders fail to list over however many starts, no start     *)
(* that has the folder list lets the handler go past a first full sync that *)
(* an earlier start left incomplete.                                        *)
THEOREM IncompleteSyncIsRetried == Spec => []FailedSyncIsRetried
<1>1. SyncInv => FailedSyncIsRetried
  BY DEF SyncInv, RetryInv
<1> QED BY <1>1, SyncInitInv, SyncStepInv, PTL DEF Spec

(* A move never costs the body of a mail, however often its batch is        *)
(* replayed and whatever crashed before: the DELETE of the old folder finds *)
(* the mail in the new one, or the mail is gone from the account.           *)
THEOREM MovesKeepBodies == Spec => MoveKeepsBody
<1> DEFINE Kept == \A m \in eml \ eml' :
                      (pc = "delete" /\ log[cur].create \in known /\ fall = {}) => srv[m] = None
<1>1. SyncInv /\ [Next]_vars => [Kept]_vars
  <2> SUFFICES ASSUME SyncInv, [Next]_vars, NEW m \in eml \ eml', pc = "delete",
                      log[cur].create \in known, fall = {}
               PROVE  srv[m] = None
    OBVIOUS
  <2> USE DEF SyncInv
  <2>1. syn = None /\ Syncable = {} /\ boot \notin {"off", "folders", "load", "sync", "release"}
    BY NoListingAtDelete
  <2>2. EntryDelete
    <3>1. eml' # eml /\ ~(eml \subseteq eml')
      OBVIOUS
    <3>2. ~Server /\ ~Wire /\ ~WireConnect /\ ~UNCHANGED vars
      BY <3>1, ServerStep DEF Wire, WireConnect, bridgeVars, disk, vars
    <3>3. ~SyncFolder
      BY <2>1 DEF SyncFolder, SyncList, SyncFails, SyncUpsert, SyncPrune, SyncSet
    <3>4. ~Syncer
      BY <3>1
      DEF Syncer, BridgeStart, BootFolders, BootFoldersFails, BootLoad, BootDecide, BootMark,
          BootRelease, Backfill, BackfillDone, disk
    <3>5. ~BridgeCrash
      BY <3>1 DEF BridgeCrash, disk
    <3>6. Handler
      BY <3>2, <3>3, <3>4, <3>5 DEF Next
    <3>7. stage = "applying"
      BY DEF HandlerInv
    <3> QED
      BY <3>1, <3>6, <3>7
      DEF Handler, HandlerTake, Take, RefreshFolderList, RefreshFails, CreateUnknown,
          CreateFails, CreateHit, CreateInline, CreateMiss, AssignUidAndUpsert,
          EntryDeleteFails, MailUpdate, MailUpdateFails, MailDelete, HandlerAdvance, disk
  <2>3. /\ log[cur].create \in Folder /\ log[cur].mail \in Mail
        /\ log[cur].create # log[cur].delete
    BY BatchInHand, StoreAssumption DEF HandlerInv, Whole, BatchRecord, StoreTypes
  <2> DEFINE n == log[cur].mail
             f == log[cur].create
             left == RemoveMailFromFolder(mem, log[cur].delete, n)
  <2>4. m = n /\ FindMailAnywhere(left, n) = {}
    BY <2>2 DEF EntryDelete
  <2>5. left[f][n] = mem[f][n]
    BY <2>3 DEF RemoveMailFromFolder, StoreTypes
  <2>6. left[f][n] = None
    BY <2>3, <2>4 DEF FindMailAnywhere
  <2> QED BY <2>4, <2>5, <2>6 DEF MoveInv
<1>2. Spec => [][Kept]_vars
  BY <1>1, SyncInitInv, SyncStepInv, PTL DEF Spec
<1> QED BY <1>2 DEF MoveKeepsBody

-----------------------------------------------------------------------------
(* What the batches say.                                                    *)

(* What a batch does to a mail, or to the folder list. *)
Creates(j, m, f) == log[j].mail = m /\ log[j].create = f
Deletes(j, m, f) == log[j].mail = m /\ log[j].delete = f
Marks(j, m) == log[j].mail = m /\ log[j].event = "update"
Lists(j, f) == log[j].folders = f

(* A batch after the k-th does it. *)
WillCreate(k, m, f) == \E j \in 1 .. Len(log) : j > k /\ Creates(j, m, f)
WillDelete(k, m, f) == \E j \in 1 .. Len(log) : j > k /\ Deletes(j, m, f)
WillMark(k, m) == \E j \in 1 .. Len(log) : j > k /\ Marks(j, m)
WillList(k, f) == \E j \in 1 .. Len(log) : j > k /\ Lists(j, f)

(* Where a mail is on the server; the folders and mails there ever were. *)
IsIn(m, f) == srv[m] # None /\ srv[m].folder = f
Ever(f) == f \in srvFolders \/ \E i \in 1 .. Len(log) : log[i].folders = f
Seen(m) == srv[m] # None \/ \E i \in 1 .. Len(log) : log[i].mail = m

(* Which events a batch has together. *)
Shape(b) ==
    /\ b.create # None => b.event = "none"
    /\ b.delete # None /\ b.create = None => b.event = "delete"
    /\ b.event = "update" => b.delete = None
    /\ b.new => b.create # None
    /\ b.folders # None => b.create = None /\ b.delete = None /\ b.event = "none"

(* Later batches tell what has become of what the k-th batch said. *)
PlacesTold(k) ==
    log[k].create # None =>
        /\ ~IsIn(log[k].mail, log[k].create) =>
              WillDelete(k, log[k].mail, log[k].create)
        /\ \A g \in Folder : IsIn(log[k].mail, g) /\ g # log[k].create =>
              WillCreate(k, log[k].mail, g)
MarksTold(k) ==
    /\ (log[k].new \/ log[k].event = "update") /\ srv[log[k].mail] # None =>
          srv[log[k].mail].unread = log[k].unread \/ WillMark(k, log[k].mail)
    /\ log[k].event = "delete" => srv[log[k].mail] = None
FoldersTold(k) ==
    /\ \A f \in Folder : f = log[k].create \/ f = log[k].delete =>
          Ever(f) /\ (f \in srvFolders => ~WillList(k, f))
    /\ log[k].folders # None =>
          \A m \in Mail : IsIn(m, log[k].folders) => WillCreate(k, m, log[k].folders)

LogInv ==
    /\ srvFolders # {}
    /\ \A m \in Mail : srv[m] # None => srv[m].folder \in srvFolders
    /\ \A k \in 1 .. Len(log) :
          Shape(log[k]) /\ PlacesTold(k) /\ MarksTold(k) /\ FoldersTold(k)

(* A change of the account, and the batch that tells it. *)
Told(b) ==
    /\ Emit(b) /\ b \in BatchRecord /\ Shape(b)
    /\ \A m \in Mail, f \in Folder :
          /\ IsIn(m, f) /\ ~IsIn(m, f)' => b.mail = m /\ b.delete = f
          /\ ~IsIn(m, f) /\ IsIn(m, f)' => b.mail = m /\ b.create = f
    /\ \A m \in Mail :
          /\ srv[m] # None /\ srv'[m] # None /\ srv'[m].unread # srv[m].unread =>
                b.mail = m /\ b.event = "update"
          /\ srv[m] = None /\ srv'[m] # None => ~Seen(m)
          /\ srv'[m] # None => srv'[m].folder \in srvFolders'
    /\ \A f \in Folder :
          /\ f \in srvFolders /\ f \notin srvFolders' => b.folders = f
          /\ f \notin srvFolders /\ f \in srvFolders' => b.folders = f /\ ~Ever(f)
          /\ b.folders = f => ~(f \in srvFolders /\ f \in srvFolders')
                              /\ \A m \in Mail : ~IsIn(m, f)'
          /\ b.create = f \/ b.delete = f => f \in srvFolders /\ f \in srvFolders'
          /\ b.create = f => IsIn(b.mail, f)'
    /\ b.new \/ b.event = "update" => srv'[b.mail] # None /\ srv'[b.mail].unread = b.unread
    /\ b.event = "delete" => srv'[b.mail] = None
    /\ srvFolders' # {}

(* Every change of the account is told by the batch it emits. *)
LEMMA ServerTells ==
    ASSUME BusTypeOK, ServerInv, LogInv, Server
    PROVE  \E b : Told(b)
<1> USE StoreAssumption, SyncAssumption DEF ServerInv
<1>p. ASSUME NEW m \in Mail, srv[m] # None
      PROVE  srv[m].folder \in srvFolders /\ srv[m].folder \in Folder
             /\ srv[m].unread \in BOOLEAN /\ srv[m] \in Place
  BY <1>p DEF LogInv, Place
<1>q. ASSUME NEW p \in Place, NEW f \in Folder, NEW u \in BOOLEAN
      PROVE  /\ [p EXCEPT !.folder = f] # None
             /\ [p EXCEPT !.folder = f].folder = f
             /\ [p EXCEPT !.folder = f].unread = p.unread
             /\ [p EXCEPT !.unread = u] # None
             /\ [p EXCEPT !.unread = u].folder = p.folder
             /\ [p EXCEPT !.unread = u].unread = u
  BY DEF Place
<1>r. ASSUME NEW f \in Folder PROVE [folder |-> f, unread |-> TRUE] # None
  <2>1. [folder |-> f, unread |-> TRUE] \in Place
    BY DEF Place
  <2> QED BY <2>1
<1>n. None \notin Mail /\ None \notin Folder
  OBVIOUS
<1>1. ASSUME NEW m \in Mail, NEW f \in Folder, Deliver(m, f) PROVE \E b : Told(b)
  <2> DEFINE b == [NoEvents EXCEPT !.mail = m, !.new = TRUE, !.create = f, !.unread = TRUE]
  <2>1. /\ b.mail = m /\ b.new = TRUE /\ b.create = f /\ b.delete = None
        /\ b.event = "none" /\ b.unread = TRUE /\ b.folders = None
    BY DEF NoEvents
  <2>2. b \in BatchRecord
    BY <2>1 DEF NoEvents, BatchRecord, Event
  <2>3. Shape(b)
    BY <1>n, <2>1 DEF Shape
  <2>4. /\ Emit(b) /\ f \in srvFolders /\ srvFolders' = srvFolders
        /\ srv' = [srv EXCEPT ![m] = [folder |-> f, unread |-> TRUE]]
        /\ srv[m] = None /\ ~Seen(m)
    BY <1>1 DEF Deliver, Seen
  <2> HIDE DEF b
  <2>6. srv'[m] # None /\ srv'[m].folder = f /\ srv'[m].unread = TRUE
    BY <1>r, <2>4
  <2>7. \A n \in Mail : n # m => srv'[n] = srv[n]
    BY <2>4
  <2>8. ASSUME NEW n \in Mail, NEW g \in Folder
        PROVE  /\ IsIn(n, g) /\ ~IsIn(n, g)' => b.mail = n /\ b.delete = g
               /\ ~IsIn(n, g) /\ IsIn(n, g)' => b.mail = n /\ b.create = g
    BY <2>1, <2>4, <2>6, <2>7 DEF IsIn
  <2>9. ASSUME NEW n \in Mail
        PROVE  /\ srv[n] # None /\ srv'[n] # None /\ srv'[n].unread # srv[n].unread =>
                     b.mail = n /\ b.event = "update"
               /\ srv[n] = None /\ srv'[n] # None => ~Seen(n)
               /\ srv'[n] # None => srv'[n].folder \in srvFolders'
    BY <1>p, <2>1, <2>4, <2>6, <2>7
  <2>10. ASSUME NEW g \in Folder, b.create = g \/ b.delete = g
         PROVE  g \in srvFolders /\ (b.create = g => IsIn(b.mail, g)')
    BY <1>n, <1>p, <2>1, <2>4, <2>6, <2>7, <2>10 DEF IsIn
  <2>11. b.new \/ b.event = "update" => srv'[b.mail] # None /\ srv'[b.mail].unread = b.unread
    BY <2>1, <2>6
  <2>12. /\ b.folders \notin Folder /\ b.event # "delete" /\ srvFolders' = srvFolders
         /\ srvFolders # {} /\ Emit(b)
    BY <1>n, <2>1, <2>4 DEF LogInv
  <2>5. Told(b)
    BY <2>2, <2>3, <2>8, <2>9, <2>10, <2>11, <2>12 DEF Told
  <2> QED BY <2>5
<1>2. ASSUME NEW m \in Mail, NEW f \in Folder, Move(m, f) PROVE \E b : Told(b)
  <2>0. PICK h : h = srv[m].folder
    OBVIOUS
  <2> DEFINE b == [NoEvents EXCEPT !.mail = m, !.create = f, !.delete = h]
  <2>1. /\ b.mail = m /\ b.new = FALSE /\ b.create = f /\ b.delete = h
        /\ b.event = "none" /\ b.unread = FALSE /\ b.folders = None
    BY DEF NoEvents
  <2>4. /\ Emit(b) /\ f \in srvFolders /\ srvFolders' = srvFolders /\ f # h /\ h = srv[m].folder
        /\ srv' = [srv EXCEPT ![m] = [srv[m] EXCEPT !.folder = f]]
        /\ srv[m] # None
    BY <1>2, <2>0 DEF Move
  <2>2. b \in BatchRecord
    BY <1>p, <2>1, <2>4 DEF NoEvents, BatchRecord, Event
  <2>3. Shape(b)
    BY <1>n, <2>1 DEF Shape
  <2> HIDE DEF b
  <2>6. /\ srv[m] \in Place /\ srv'[m] # None /\ srv'[m].folder = f
        /\ srv'[m].unread = srv[m].unread
    BY <1>p, <1>q, <2>4
  <2>7. \A n \in Mail : n # m => srv'[n] = srv[n]
    BY <2>4
  <2>8. ASSUME NEW n \in Mail, NEW g \in Folder
        PROVE  /\ IsIn(n, g) /\ ~IsIn(n, g)' => b.mail = n /\ b.delete = g
               /\ ~IsIn(n, g) /\ IsIn(n, g)' => b.mail = n /\ b.create = g
    BY <2>1, <2>4, <2>6, <2>7 DEF IsIn
  <2>9. ASSUME NEW n \in Mail
        PROVE  /\ srv[n] # None /\ srv'[n] # None /\ srv'[n].unread # srv[n].unread =>
                     b.mail = n /\ b.event = "update"
               /\ srv[n] = None /\ srv'[n] # None => ~Seen(n)
               /\ srv'[n] # None => srv'[n].folder \in srvFolders'
    BY <1>p, <2>4, <2>6, <2>7
  <2>10. ASSUME NEW g \in Folder, b.create = g \/ b.delete = g
         PROVE  g \in srvFolders /\ (b.create = g => IsIn(b.mail, g)')
    BY <1>p, <2>1, <2>4, <2>6, <2>10 DEF IsIn
  <2>5. Told(b)
    BY <1>n, <2>1, <2>2, <2>3, <2>4, <2>8, <2>9, <2>10 DEF Told, LogInv
  <2> QED BY <2>5
<1>3. ASSUME NEW m \in Mail, Mark(m) PROVE \E b : Told(b)
  <2>0. PICK u : u = ~srv[m].unread
    OBVIOUS
  <2> DEFINE b == [NoEvents EXCEPT !.mail = m, !.event = "update", !.unread = u]
  <2>1. /\ b.mail = m /\ b.new = FALSE /\ b.create = None /\ b.delete = None
        /\ b.event = "update" /\ b.unread = u /\ b.folders = None
    BY DEF NoEvents
  <2>4. /\ Emit(b) /\ srvFolders' = srvFolders
        /\ srv' = [srv EXCEPT ![m] = [srv[m] EXCEPT !.unread = u]]
        /\ srv[m] # None /\ u \in BOOLEAN
    BY <1>3, <2>0 DEF Mark
  <2>2. b \in BatchRecord
    BY <1>p, <2>1, <2>4 DEF NoEvents, BatchRecord, Event
  <2>3. Shape(b)
    BY <1>n, <2>1 DEF Shape
  <2> HIDE DEF b
  <2>6. /\ srv[m] \in Place /\ srv'[m] # None /\ srv'[m].folder = srv[m].folder
        /\ srv'[m].unread = u
    BY <1>p, <1>q, <2>4
  <2>7. \A n \in Mail : n # m => srv'[n] = srv[n]
    BY <2>4
  <2>8. ASSUME NEW n \in Mail, NEW g \in Folder
        PROVE  /\ IsIn(n, g) /\ ~IsIn(n, g)' => b.mail = n /\ b.delete = g
               /\ ~IsIn(n, g) /\ IsIn(n, g)' => b.mail = n /\ b.create = g
    BY <2>1, <2>4, <2>6, <2>7 DEF IsIn
  <2>9. ASSUME NEW n \in Mail
        PROVE  /\ srv[n] # None /\ srv'[n] # None /\ srv'[n].unread # srv[n].unread =>
                     b.mail = n /\ b.event = "update"
               /\ srv[n] = None /\ srv'[n] # None => ~Seen(n)
               /\ srv'[n] # None => srv'[n].folder \in srvFolders'
    BY <1>p, <2>1, <2>4, <2>6, <2>7
  <2>10. ASSUME NEW g \in Folder, b.create = g \/ b.delete = g
         PROVE  g \in srvFolders /\ (b.create = g => IsIn(b.mail, g)')
    BY <1>n, <1>p, <2>1, <2>4, <2>6, <2>7, <2>10 DEF IsIn
  <2>11. b.new \/ b.event = "update" => srv'[b.mail] # None /\ srv'[b.mail].unread = b.unread
    BY <2>1, <2>6
  <2>12. /\ b.folders \notin Folder /\ b.event # "delete" /\ srvFolders' = srvFolders
         /\ srvFolders # {} /\ Emit(b)
    BY <1>n, <2>1, <2>4 DEF LogInv
  <2>5. Told(b)
    BY <2>2, <2>3, <2>8, <2>9, <2>10, <2>11, <2>12 DEF Told
  <2> QED BY <2>5
<1>4. ASSUME NEW m \in Mail, Purge(m) PROVE \E b : Told(b)
  <2>0. PICK h : h = srv[m].folder
    OBVIOUS
  <2> DEFINE b == [NoEvents EXCEPT !.mail = m, !.delete = h, !.event = "delete"]
  <2>1. /\ b.mail = m /\ b.new = FALSE /\ b.create = None /\ b.delete = h
        /\ b.event = "delete" /\ b.unread = FALSE /\ b.folders = None
    BY DEF NoEvents
  <2>4. /\ Emit(b) /\ srvFolders' = srvFolders
        /\ srv' = [srv EXCEPT ![m] = None] /\ srv[m] # None /\ h = srv[m].folder
    BY <1>4, <2>0 DEF Purge
  <2>2. b \in BatchRecord
    BY <1>p, <2>1, <2>4 DEF NoEvents, BatchRecord, Event
  <2>3. Shape(b)
    BY <1>n, <2>1 DEF Shape
  <2> HIDE DEF b
  <2>7. srv'[m] = None /\ \A n \in Mail : n # m => srv'[n] = srv[n]
    BY <2>4
  <2>8. ASSUME NEW n \in Mail, NEW g \in Folder
        PROVE  /\ IsIn(n, g) /\ ~IsIn(n, g)' => b.mail = n /\ b.delete = g
               /\ ~IsIn(n, g) /\ IsIn(n, g)' => b.mail = n /\ b.create = g
    BY <2>1, <2>4, <2>7 DEF IsIn
  <2>9. ASSUME NEW n \in Mail
        PROVE  /\ srv[n] # None /\ srv'[n] # None /\ srv'[n].unread # srv[n].unread =>
                     b.mail = n /\ b.event = "update"
               /\ srv[n] = None /\ srv'[n] # None => ~Seen(n)
               /\ srv'[n] # None => srv'[n].folder \in srvFolders'
    BY <1>p, <2>1, <2>4, <2>7
  <2>10. ASSUME NEW g \in Folder, b.create = g \/ b.delete = g
         PROVE  g \in srvFolders /\ (b.create = g => IsIn(b.mail, g)')
    BY <1>n, <1>p, <2>1, <2>4, <2>7, <2>10 DEF IsIn
  <2>5. Told(b)
    BY <1>n, <2>1, <2>2, <2>3, <2>4, <2>7, <2>8, <2>9, <2>10 DEF Told, LogInv
  <2> QED BY <2>5
<1>5. ASSUME NEW f \in Folder, AddFolder(f) PROVE \E b : Told(b)
  <2> DEFINE b == [NoEvents EXCEPT !.folders = f]
  <2>1. /\ b.mail = None /\ b.new = FALSE /\ b.create = None /\ b.delete = None
        /\ b.event = "none" /\ b.unread = FALSE /\ b.folders = f
    BY DEF NoEvents
  <2>4. /\ Emit(b) /\ srvFolders' = srvFolders \cup {f} /\ srv' = srv
        /\ f \notin srvFolders /\ ~Ever(f)
    BY <1>5 DEF AddFolder, Ever
  <2>2. b \in BatchRecord
    BY <2>1 DEF NoEvents, BatchRecord, Event
  <2>3. Shape(b)
    BY <1>n, <2>1 DEF Shape
  <2> HIDE DEF b
  <2>5. Told(b)
    BY <1>n, <1>p, <2>1, <2>2, <2>3, <2>4 DEF Told, IsIn, LogInv
  <2> QED BY <2>5
<1>6. ASSUME NEW f \in Folder, RemoveFolder(f) PROVE \E b : Told(b)
  <2> DEFINE b == [NoEvents EXCEPT !.folders = f]
  <2>1. /\ b.mail = None /\ b.new = FALSE /\ b.create = None /\ b.delete = None
        /\ b.event = "none" /\ b.unread = FALSE /\ b.folders = f
    BY DEF NoEvents
  <2>4. /\ Emit(b) /\ srvFolders' = srvFolders \ {f} /\ srv' = srv
        /\ f \in srvFolders /\ srvFolders # {f}
        /\ \A m \in Mail : srv[m] # None => srv[m].folder # f
    BY <1>6 DEF RemoveFolder
  <2>2. b \in BatchRecord
    BY <2>1 DEF NoEvents, BatchRecord, Event
  <2>3. Shape(b)
    BY <1>n, <2>1 DEF Shape
  <2> HIDE DEF b
  <2>5. Told(b)
    BY <1>n, <1>p, <2>1, <2>2, <2>3, <2>4 DEF Told, IsIn, LogInv
  <2> QED BY <2>5
<1> QED BY <1>1, <1>2, <1>3, <1>4, <1>5, <1>6 DEF Server

(* What was going to be told still is, and the new batch is told to all. *)
LEMMA TellsMore ==
    ASSUME BusTypeOK, ServerInv, NEW b, Told(b)
    PROVE  /\ Len(log) \in Nat /\ Len(log') = Len(log) + 1
           /\ log'[Len(log) + 1] = b /\ \A i \in 1 .. Len(log) : log'[i] = log[i]
           /\ \A k \in Nat, m \in Mail, f \in Folder :
                 /\ WillCreate(k, m, f) => WillCreate(k, m, f)'
                 /\ WillDelete(k, m, f) => WillDelete(k, m, f)'
                 /\ k <= Len(log) /\ b.mail = m /\ b.create = f => WillCreate(k, m, f)'
                 /\ k <= Len(log) /\ b.mail = m /\ b.delete = f => WillDelete(k, m, f)'
           /\ \A k \in Nat, m \in Mail :
                 /\ WillMark(k, m) => WillMark(k, m)'
                 /\ k <= Len(log) /\ b.mail = m /\ b.event = "update" => WillMark(k, m)'
           /\ \A k \in Nat, f \in Folder :
                 /\ WillList(k, f) => WillList(k, f)'
                 /\ WillList(k, f)' => WillList(k, f) \/ b.folders = f
                 /\ k <= Len(log) /\ b.folders = f => WillList(k, f)'
                 /\ k > Len(log) => ~WillList(k, f)'
           /\ \A f \in Folder : Ever(f) => Ever(f)'
           /\ \A m \in Mail : Seen(m) => Seen(m)'
<1>1. /\ Len(log) \in Nat /\ Len(log') = Len(log) + 1
      /\ log'[Len(log) + 1] = b /\ \A i \in 1 .. Len(log) : log'[i] = log[i]
  BY SyncAssumption, AppendProperties, LenProperties DEF Told, Emit, BusTypeOK
<1>2. \A i \in 1 .. Len(log) : i \in 1 .. Len(log')
  BY <1>1
<1>3. Len(log) + 1 \in 1 .. Len(log')
  BY <1>1
<1>4. \A i \in 1 .. Len(log') : i \in 1 .. Len(log) \/ i = Len(log) + 1
  BY <1>1
<1>5. ASSUME NEW k \in Nat, NEW m \in Mail, NEW f \in Folder
      PROVE  /\ WillCreate(k, m, f) => WillCreate(k, m, f)'
             /\ WillDelete(k, m, f) => WillDelete(k, m, f)'
             /\ k <= Len(log) /\ b.mail = m /\ b.create = f => WillCreate(k, m, f)'
             /\ k <= Len(log) /\ b.mail = m /\ b.delete = f => WillDelete(k, m, f)'
  <2>1. k <= Len(log) => Len(log) + 1 > k
    BY <1>1
  <2> QED BY <1>1, <1>2, <1>3, <2>1 DEF WillCreate, WillDelete, Creates, Deletes
<1>6. ASSUME NEW k \in Nat, NEW m \in Mail
      PROVE  /\ WillMark(k, m) => WillMark(k, m)'
             /\ k <= Len(log) /\ b.mail = m /\ b.event = "update" => WillMark(k, m)'
  <2>1. k <= Len(log) => Len(log) + 1 > k
    BY <1>1
  <2> QED BY <1>1, <1>2, <1>3, <2>1 DEF WillMark, Marks
<1>7. ASSUME NEW k \in Nat, NEW f \in Folder
      PROVE  /\ WillList(k, f) => WillList(k, f)'
             /\ WillList(k, f)' => WillList(k, f) \/ b.folders = f
             /\ k <= Len(log) /\ b.folders = f => WillList(k, f)'
             /\ k > Len(log) => ~WillList(k, f)'
  <2>1. k <= Len(log) => Len(log) + 1 > k
    BY <1>1
  <2>2. k > Len(log) => \A i \in 1 .. Len(log') : ~(i > k)
    BY <1>1
  <2> QED BY <1>1, <1>2, <1>3, <1>4, <2>1, <2>2 DEF WillList, Lists
<1>8. ASSUME NEW f \in Folder PROVE Ever(f) => Ever(f)'
  BY <1>1, <1>2, <1>3 DEF Ever, Told
<1>9. ASSUME NEW m \in Mail PROVE Seen(m) => Seen(m)'
  <2>1. CASE srv[m] # None /\ srv'[m] = None
    <3>1. srv[m].folder \in Folder
      BY <2>1 DEF ServerInv, Place
    <3> QED BY <1>1, <1>3, <2>1, <3>1 DEF Told, IsIn, Seen
  <2> QED BY <1>1, <1>2, <2>1 DEF Seen
<1> QED BY <1>1, <1>5, <1>6, <1>7, <1>8, <1>9

(* The account keeps being told of. *)
LEMMA LogStep ==
    ASSUME BusTypeOK, ServerInv, LogInv, Server
    PROVE  LogInv'
<1>1. PICK b : Told(b)
  BY ServerTells
<1> USE StoreAssumption, SyncAssumption
<1>2. /\ Len(log) \in Nat /\ Len(log') = Len(log) + 1
      /\ log'[Len(log) + 1] = b /\ \A i \in 1 .. Len(log) : log'[i] = log[i]
  BY <1>1, TellsMore
<1>3. b \in BatchRecord /\ Shape(b)
  BY <1>1 DEF Told
<1>4. ASSUME NEW k \in 1 .. Len(log)
      PROVE  log[k] \in BatchRecord /\ k \in Nat /\ k <= Len(log) /\ Whole(log[k])
  BY <1>4, <1>2, ElementOfSeq DEF BusTypeOK, ServerInv
<1>5. ASSUME NEW k \in 1 .. Len(log)
      PROVE  Shape(log'[k]) /\ PlacesTold(k)' /\ MarksTold(k)' /\ FoldersTold(k)'
  <2>1. log[k] \in BatchRecord /\ k \in Nat /\ k <= Len(log) /\ Whole(log[k])
    BY <1>4
  <2>2. log'[k] = log[k]
    BY <1>2
  <2>3. Shape(log[k]) /\ PlacesTold(k) /\ MarksTold(k) /\ FoldersTold(k)
    BY DEF LogInv
  <2>4. PICK c : c = log[k]
    OBVIOUS
  <2>5. PlacesTold(k)'
    <3>1. ASSUME c.create # None
          PROVE  /\ ~IsIn(c.mail, c.create)' => WillDelete(k, c.mail, c.create)'
                 /\ \A g \in Folder : IsIn(c.mail, g)' /\ g # c.create =>
                       WillCreate(k, c.mail, g)'
      <4>1. c.mail \in Mail /\ c.create \in Folder
        BY <2>1, <2>4, <3>1 DEF BatchRecord, Whole
      <4>2. /\ ~IsIn(c.mail, c.create) => WillDelete(k, c.mail, c.create)
            /\ \A g \in Folder : IsIn(c.mail, g) /\ g # c.create =>
                  WillCreate(k, c.mail, g)
        BY <2>3, <2>4, <3>1 DEF PlacesTold
      <4> QED BY <1>1, <2>1, <4>1, <4>2, TellsMore DEF Told
    <3> QED BY <2>2, <2>4, <3>1 DEF PlacesTold
  <2>6. MarksTold(k)'
    <3>1. ASSUME c.new \/ c.event # "none" PROVE c.mail \in Mail /\ Seen(c.mail)
      BY <2>1, <2>3, <2>4, <3>1 DEF BatchRecord, Whole, Shape, Seen
    <3>2. ASSUME c.new \/ c.event = "update", srv'[c.mail] # None
          PROVE  srv'[c.mail].unread = c.unread \/ WillMark(k, c.mail)'
      <4>1. c.mail \in Mail /\ Seen(c.mail)
        BY <3>1, <3>2
      <4>2. srv[c.mail] # None
        BY <1>1, <3>2, <4>1 DEF Told
      <4>3. srv[c.mail].unread = c.unread \/ WillMark(k, c.mail)
        BY <2>3, <2>4, <3>2, <4>2 DEF MarksTold
      <4> QED BY <1>1, <2>1, <3>2, <4>1, <4>2, <4>3, TellsMore DEF Told
    <3>3. ASSUME c.event = "delete" PROVE srv'[c.mail] = None
      <4>1. srv[c.mail] = None
        BY <2>3, <2>4, <3>3 DEF MarksTold
      <4> QED BY <1>1, <3>1, <3>3, <4>1 DEF Told
    <3> QED BY <2>2, <2>4, <3>2, <3>3 DEF MarksTold
  <2>7. FoldersTold(k)'
    <3>1. ASSUME NEW f \in Folder, f = c.create \/ f = c.delete
          PROVE  Ever(f)' /\ (f \in srvFolders' => ~WillList(k, f)')
      <4>1. Ever(f) /\ (f \in srvFolders => ~WillList(k, f))
        BY <2>3, <2>4, <3>1 DEF FoldersTold
      <4> QED BY <1>1, <2>1, <4>1, TellsMore DEF Told
    <3>2. ASSUME c.folders # None, NEW m \in Mail, IsIn(m, c.folders)'
          PROVE  WillCreate(k, m, c.folders)'
      <4>1. c.folders \in Folder
        BY <2>1, <2>4, <3>2 DEF BatchRecord
      <4>2. IsIn(m, c.folders) => WillCreate(k, m, c.folders)
        BY <2>3, <2>4, <3>2 DEF FoldersTold
      <4> QED BY <1>1, <2>1, <3>2, <4>1, <4>2, TellsMore DEF Told
    <3> QED BY <2>2, <2>4, <3>1, <3>2 DEF FoldersTold
  <2> QED BY <2>2, <2>3, <2>5, <2>6, <2>7
<1>6. ASSUME NEW k, k = Len(log) + 1
      PROVE  Shape(log'[k]) /\ PlacesTold(k)' /\ MarksTold(k)' /\ FoldersTold(k)'
  <2>1. log'[k] = b /\ k \in Nat /\ k > Len(log)
    BY <1>2, <1>6
  <2>2. PlacesTold(k)'
    <3>1. b.create # None => b.create \in Folder
      BY <1>3 DEF BatchRecord
    <3>2. b.create # None => IsIn(b.mail, b.create)'
      BY <1>1, <3>1 DEF Told
    <3> QED BY <2>1, <3>2 DEF PlacesTold, IsIn
  <2>3. MarksTold(k)'
    BY <1>1, <2>1 DEF MarksTold, Told
  <2>4. FoldersTold(k)'
    <3>1. ASSUME NEW f \in Folder, f = b.create \/ f = b.delete
          PROVE  Ever(f)' /\ ~WillList(k, f)'
      BY <1>1, <2>1, <3>1, TellsMore DEF Told, Ever
    <3>2. b.folders # None => \A m \in Mail : ~IsIn(m, b.folders)'
      BY <1>1, <1>3 DEF Told, BatchRecord
    <3> QED BY <2>1, <3>1, <3>2 DEF FoldersTold
  <2> QED BY <1>3, <2>1, <2>2, <2>3, <2>4
<1>7. \A k \in 1 .. Len(log') : k \in 1 .. Len(log) \/ k = Len(log) + 1
  BY <1>2
<1>8. srvFolders' # {} /\ \A m \in Mail : srv'[m] # None => srv'[m].folder \in srvFolders'
  BY <1>1 DEF Told
<1> QED BY <1>5, <1>6, <1>7, <1>8 DEF LogInv

(* A step of the bridge changes nothing of this. *)
LEMMA StillTold ==
    ASSUME UNCHANGED <<log, srv, srvFolders>>
    PROVE  /\ \A k, m, f :
                 /\ WillCreate(k, m, f)' <=> WillCreate(k, m, f)
                 /\ WillDelete(k, m, f)' <=> WillDelete(k, m, f)
                 /\ IsIn(m, f)' <=> IsIn(m, f)
           /\ \A k, m : WillMark(k, m)' <=> WillMark(k, m)
           /\ \A k, f : WillList(k, f)' <=> WillList(k, f)
           /\ \A f : Ever(f)' <=> Ever(f)
           /\ \A m : Seen(m)' <=> Seen(m)
           /\ LogInv => LogInv'
<1>1. \A k, m, f :
         /\ WillCreate(k, m, f)' <=> WillCreate(k, m, f)
         /\ WillDelete(k, m, f)' <=> WillDelete(k, m, f)
         /\ IsIn(m, f)' <=> IsIn(m, f)
  BY DEF WillCreate, WillDelete, Creates, Deletes, IsIn
<1>2. \A k, m : WillMark(k, m)' <=> WillMark(k, m)
  BY DEF WillMark, Marks
<1>3. \A k, f : WillList(k, f)' <=> WillList(k, f)
  BY DEF WillList, Lists
<1>4. (\A f : Ever(f)' <=> Ever(f)) /\ \A m : Seen(m)' <=> Seen(m)
  BY DEF Ever, Seen
<1>5. ASSUME LogInv, NEW k \in 1 .. Len(log) PROVE PlacesTold(k)' /\ MarksTold(k)'
  BY <1>5 DEF LogInv, PlacesTold, MarksTold, WillCreate, WillDelete, WillMark,
              Creates, Deletes, Marks, IsIn
<1>6. ASSUME LogInv, NEW k \in 1 .. Len(log) PROVE FoldersTold(k)'
  BY <1>6 DEF LogInv, FoldersTold, WillCreate, WillList, Creates, Lists, IsIn, Ever
<1>7. LogInv => LogInv'
  BY <1>5, <1>6 DEF LogInv
<1> QED BY <1>1, <1>2, <1>3, <1>4, <1>7

(* Nothing has been told yet. *)
LEMMA LogInit == Init => LogInv
<1> SUFFICES ASSUME Init PROVE LogInv
  OBVIOUS
<1>1. Len(log) = 0 /\ srvFolders = InitFolders
  BY DEF Init, BusInit
<1>2. 1 .. Len(log) = {}
  BY <1>1
<1>3. ASSUME NEW m \in Mail, srv[m] # None PROVE srv[m].folder \in srvFolders
  BY <1>1, <1>3 DEF Init
<1> QED BY <1>1, <1>2, <1>3, SyncAssumption DEF LogInv

-----------------------------------------------------------------------------
(* The order of the batches.                                                *)

(* The batch in hand, or the last before it whose effect the stores have. *)
Past == IF cur # 0 THEN cur ELSE IF diskCur # 0 THEN diskCur ELSE covered

(* The last batch that the handler has or will take from the channel. *)
Latest == IF chan # << >> THEN chan[Len(chan)] ELSE Past

(* From the batch in hand through the channel to what the connection sends  *)
(* next, no batch is skipped; some may come again.                          *)
InOrder ==
    /\ chan # << >> => chan[1] <= Past + 1
    /\ \A p \in 1 .. Len(chan) : p > 1 => chan[p] <= chan[p - 1] + 1
    /\ nextId <= Latest + 1

OrderInv ==
    /\ up /\ stage # "applied" => memCur = diskCur
    /\ ~ready => stage = "idle"
    /\ up /\ ~ready =>
          /\ \A p \in 1 .. Len(chan) : chan[p] > memCur
          /\ nextId > memCur
          /\ ws = "dialing" => asked = memCur
    /\ up /\ lost = {} /\ (ready => missed = {}) => InOrder

(* The account of failures is closed only by the full sync of a start. *)
LEMMA MissedGrows ==
    ASSUME RetryInv, [Next]_vars, missed' = {}
    PROVE  \/ missed = {}
           \/ boot = "sync" /\ todo = {} /\ boot' = "release" /\ allOk
<1>1. CASE Server \/ Wire
  BY <1>1 DEF Server, Wire, Deliver, Move, Mark, Purge, AddFolder, RemoveFolder, bridgeVars,
              history
<1>2. CASE SyncFolder
  BY <1>2 DEF SyncFolder, SyncList, SyncFails, SyncUpsert, SyncPrune, SyncSet, history
<1>3. CASE Syncer
  BY <1>3
  DEF Syncer, BridgeStart, BootFolders, BootFoldersFails, BootLoad, Backfill, BootDecide,
      BootMark, BootRelease, BackfillDone, history
<1>4. CASE BridgeCrash \/ WireConnect
  BY <1>4 DEF BridgeCrash, WireConnect
<1>5. CASE Handler
  <2>1. CASE RefreshFails \/ EntryDeleteFails \/ MailUpdateFails
    BY <2>1 DEF RefreshFails, EntryDeleteFails, MailUpdateFails
  <2>2. CASE ~(RefreshFails \/ EntryDeleteFails \/ MailUpdateFails)
    <3>1. UNCHANGED missed
      BY <1>5, <2>2
      DEF Handler, HandlerTake, RefreshFolderList, CreateUnknown, CreateFails, CreateHit,
          CreateInline, CreateMiss, AssignUidAndUpsert, EntryDelete, MailUpdate, MailDelete,
          HandlerAdvance, history
    <3> QED BY <3>1
  <2> QED BY <2>1, <2>2
<1>6. CASE UNCHANGED vars
  BY <1>6 DEF vars, history
<1> QED BY <1>1, <1>2, <1>3, <1>4, <1>5, <1>6 DEF Next

(* The step of the bus that a step takes, with what it does to the history. *)
LEMMA BusKinds ==
    ASSUME ServerInv, [Next]_vars
    PROVE  \/ WireConnect
           \/ \E b \in Batch : Emit(b)
           \/ \E expired \in BOOLEAN : Start(expired)
           \/ Release \/ Dial \/ Push \/ Unparsable \/ Drop \/ Terminate \/ Take
           \/ Advance \/ Persist \/ Crash \/ UNCHANGED busVars
<1>1. CASE Server
  BY <1>1, ServerStep
<1>2. CASE SyncFolder
  BY <1>2 DEF SyncFolder, SyncList, SyncFails, SyncUpsert, SyncPrune, SyncSet
<1>3. CASE Syncer
  BY <1>3
  DEF Syncer, BridgeStart, BootFolders, BootFoldersFails, BootLoad, Backfill, BootDecide,
      BootMark, BootRelease, BackfillDone
<1>4. CASE BridgeCrash
  BY <1>4 DEF BridgeCrash
<1>5. CASE Handler
  BY <1>5
  DEF Handler, HandlerTake, RefreshFolderList, RefreshFails, CreateUnknown, CreateFails,
      CreateHit, CreateInline, CreateMiss, AssignUidAndUpsert, EntryDelete,
      EntryDeleteFails, MailUpdate, MailUpdateFails, MailDelete, HandlerAdvance
<1>6. CASE Wire
  BY <1>6 DEF Wire
<1>7. CASE UNCHANGED vars
  BY <1>7 DEF vars
<1> QED BY <1>1, <1>2, <1>3, <1>4, <1>5, <1>6, <1>7 DEF Next

(* A reconnect asks for no more than what follows the channel. *)
LEMMA ConnectOrder ==
    ASSUME SyncInv, OrderInv, WireConnect
    PROVE  OrderInv'
<1> USE DEF SyncInv, BusInv, BusTypeOK
<1>1. /\ UNCHANGED <<up, ready, asked, chan, stage, cur, memCur, diskCur, covered, log>>
      /\ up /\ ws = "dialing" /\ ws' = "on"
      /\ nextId' = IF asked = 0 THEN Len(log) + 1 ELSE asked + 1
      /\ lost' = IF asked = 0 THEN lost \cup (nextId .. Len(log)) ELSE lost
      /\ missed' = IF asked > LastReceived THEN missed \cup {"replay"} ELSE missed
  BY DEF WireConnect, Connect
<1>2. Len(log) \in Nat /\ Len(chan) \in Nat /\ (chan # << >> => Len(chan) > 0)
  BY LenProperties, EmptySeq
<1>3. ASSUME chan # << >> PROVE Len(chan) \in 1 .. Len(chan) /\ chan[Len(chan)] \in Nat
  BY <1>2, <1>3, ElementOfSeq
<1>4. LastReceived \in Nat /\ LastReceived <= Latest /\ Latest \in Nat
  <2>1. CASE chan # << >>
    BY <1>3, <2>1 DEF LastReceived, Latest
  <2>2. CASE chan = << >> /\ cur # 0
    BY <2>2 DEF LastReceived, Latest, Past
  <2>3. CASE chan = << >> /\ cur = 0
    <3>1. memCur = diskCur
      BY <1>1, <2>3 DEF OrderInv, StageInv
    <3> QED BY <2>3, <3>1 DEF LastReceived, Latest, Past
  <2> QED BY <2>1, <2>2, <2>3
<1>5. UNCHANGED <<Past, Latest>>
  BY <1>1 DEF Past, Latest
<1>6. ASSUME up', lost' = {}, ready' => missed' = {} PROVE InOrder'
  <2>1. lost = {} /\ (ready => missed = {})
    BY <1>1, <1>6
  <2>2. InOrder
    BY <1>1, <2>1 DEF OrderInv
  <2>3. nextId' <= Latest + 1
    <3>1. CASE asked = 0
      <4>1. nextId .. Len(log) = {}
        BY <1>1, <1>6, <3>1
      <4>2. nextId > Len(log)
        <5>1. nextId \in Nat
          OBVIOUS
        <5>2. nextId <= Len(log) => nextId \in nextId .. Len(log)
          BY <1>2, <5>1
        <5> QED BY <1>2, <4>1, <5>1, <5>2
      <4> QED BY <1>1, <1>2, <1>4, <2>2, <3>1, <4>2 DEF InOrder
    <3>2. CASE asked # 0 /\ ready
      BY <1>1, <1>4, <1>6, <3>2
    <3>3. CASE asked # 0 /\ ~ready
      <4>1. asked = memCur /\ stage = "idle" /\ cur = 0 /\ memCur = diskCur
        BY <1>1, <3>3 DEF OrderInv, StageInv
      <4>2. Latest >= memCur
        <5>1. CASE chan # << >>
          BY <1>1, <1>3, <3>3, <5>1 DEF OrderInv, Latest
        <5>2. CASE chan = << >>
          BY <3>3, <4>1, <5>2 DEF Latest, Past
        <5> QED BY <5>1, <5>2
      <4> QED BY <1>1, <1>4, <3>3, <4>1, <4>2
    <3> QED BY <3>1, <3>2, <3>3
  <2> QED BY <1>1, <1>5, <2>2, <2>3 DEF InOrder
<1>7. up' /\ ~ready' => nextId' > memCur'
  BY <1>1, <1>2 DEF OrderInv
<1> QED BY <1>1, <1>6, <1>7 DEF OrderInv

(* No step loses the order. *)
LEMMA OrderStep ==
    ASSUME SyncInv, OrderInv, [Next]_vars
    PROVE  OrderInv'
<1> USE DEF SyncInv, BusInv, BusTypeOK
<1>m. ready /\ missed' = {} => missed = {}
  BY MissedGrows DEF RetryInv
<1>l. Len(chan) \in Nat /\ (chan # << >> => Len(chan) > 0) /\ Len(log) \in Nat
  BY LenProperties, EmptySeq
<1>t. \A p \in 1 .. Len(chan) : chan[p] \in Nat
  BY ElementOfSeq
<1>p. Past \in Nat /\ Latest \in Nat
  <2>1. Past \in Nat
    BY DEF Past
  <2> QED BY <1>l, <1>t, <2>1 DEF Latest
<1>u. ASSUME UNCHANGED <<up, ready, chan, stage, cur, memCur, diskCur, covered, nextId>>,
             lost \subseteq lost', ws' = "dialing" => asked' = memCur \/ (UNCHANGED asked /\ ws = "dialing")
      PROVE  OrderInv'
  <2>1. UNCHANGED <<Past, Latest>>
    BY <1>u DEF Past, Latest
  <2>2. InOrder => InOrder'
    BY <1>u, <2>1 DEF InOrder
  <2>3. lost' = {} => lost = {}
    BY <1>u
  <2> QED BY <1>m, <1>u, <2>2, <2>3 DEF OrderInv
<1>1. CASE WireConnect
  BY <1>1, ConnectOrder
<1>2. ASSUME NEW b \in Batch, Emit(b) PROVE OrderInv'
  BY <1>2, <1>u DEF Emit
<1>3. CASE Dial \/ Drop \/ Terminate \/ UNCHANGED busVars
  <2>1. /\ UNCHANGED <<up, ready, chan, stage, cur, memCur, diskCur, covered, nextId, lost>>
        /\ ws' = "dialing" => asked' = memCur \/ (UNCHANGED asked /\ ws = "dialing")
    BY <1>3 DEF Dial, Drop, Terminate, busVars
  <2> QED BY <1>u, <2>1
<1>4. ASSUME NEW expired \in BOOLEAN, Start(expired) PROVE OrderInv'
  <2> DEFINE c == IF expired THEN 0 ELSE diskCur
  <2>1. /\ ~up /\ diskCur' = c /\ memCur' = c /\ c \in Nat
        /\ nextId' = (IF c = 0 THEN Len(log) + 1 ELSE c + 1)
        /\ covered' = (IF c = 0 THEN Len(log) ELSE covered)
        /\ UNCHANGED <<ready, ws, asked, chan, stage, cur>>
    BY <1>4 DEF Start
  <2> HIDE DEF c
  <2>2. chan = << >> /\ stage = "idle" /\ ws = "off" /\ ~ready /\ cur = 0
    BY <2>1 DEF StageInv, RetryInv
  <2>3. Past' = (IF c # 0 THEN c ELSE Len(log)) /\ Latest' = Past'
    BY <2>1, <2>2 DEF Past, Latest
  <2>4. 1 .. Len(chan') = {}
    BY <2>1, <2>2
  <2>5. nextId' > memCur' /\ nextId' <= Latest' + 1
    BY <1>l, <2>1, <2>3
  <2>6. InOrder'
    BY <2>1, <2>2, <2>4, <2>5 DEF InOrder
  <2> QED BY <2>1, <2>2, <2>4, <2>5, <2>6 DEF OrderInv
<1>5. CASE Release
  <2>1. UNCHANGED <<up, chan, stage, cur, memCur, diskCur, covered, nextId, lost>>
        /\ ~ready /\ ready'
    BY <1>5 DEF Release
  <2>2. UNCHANGED <<Past, Latest>>
    BY <2>1 DEF Past, Latest
  <2>3. InOrder => InOrder'
    BY <2>1, <2>2 DEF InOrder
  <2> QED BY <2>1, <2>3 DEF OrderInv
<1>6. CASE Push
  <2>1. /\ UNCHANGED <<up, ready, ws, asked, stage, cur, memCur, diskCur, covered, lost>>
        /\ chan' = Append(chan, nextId) /\ nextId' = nextId + 1
    BY <1>6 DEF Push
  <2>2. /\ Len(chan') = Len(chan) + 1 /\ chan'[Len(chan) + 1] = nextId
        /\ \A p \in 1 .. Len(chan) : chan'[p] = chan[p]
    BY <2>1, AppendProperties
  <2>3. \A p \in 1 .. Len(chan') : p \in 1 .. Len(chan) \/ p = Len(chan) + 1
    BY <1>l, <2>2
  <2>4. chan' # << >> /\ Past' = Past /\ Latest' = nextId
    BY <1>l, <2>1, <2>2, EmptySeq DEF Past, Latest
  <2>5. ASSUME InOrder PROVE InOrder'
    <3>1. chan'[1] <= Past + 1
      <4>1. CASE chan = << >>
        BY <2>2, <2>5, <4>1 DEF InOrder, Latest
      <4>2. CASE chan # << >>
        <5>1. 1 \in 1 .. Len(chan)
          BY <1>l, <4>2
        <5> QED BY <2>2, <2>5, <4>2, <5>1 DEF InOrder
      <4> QED BY <4>1, <4>2
    <3>2. ASSUME NEW p \in 1 .. Len(chan'), p > 1 PROVE chan'[p] <= chan'[p - 1] + 1
      <4>1. p - 1 \in 1 .. Len(chan) /\ chan'[p - 1] = chan[p - 1]
        BY <1>l, <2>2, <3>2
      <4>2. CASE p \in 1 .. Len(chan)
        BY <2>2, <2>5, <3>2, <4>1, <4>2 DEF InOrder
      <4>3. CASE p = Len(chan) + 1
        <5>1. p - 1 = Len(chan) /\ chan # << >>
          BY <1>l, <3>2, <4>3
        <5>2. Latest = chan[Len(chan)]
          BY <5>1 DEF Latest
        <5> QED BY <2>2, <2>5, <4>1, <4>3, <5>1, <5>2 DEF InOrder
      <4> QED BY <2>3, <4>2, <4>3
    <3>3. nextId' <= Latest' + 1
      BY <2>1, <2>4
    <3> QED BY <2>4, <3>1, <3>2, <3>3 DEF InOrder
  <2>6. up' /\ ~ready' => /\ \A p \in 1 .. Len(chan') : chan'[p] > memCur'
                         /\ nextId' > memCur'
    BY <2>1, <2>2, <2>3 DEF OrderInv
  <2> QED BY <1>m, <2>1, <2>5, <2>6 DEF OrderInv
<1>7. CASE Unparsable
  <2>1. /\ UNCHANGED <<up, ready, ws, asked, chan, stage, cur, memCur, diskCur, covered>>
        /\ nextId' = nextId + 1 /\ lost' # {}
    BY <1>7 DEF Unparsable
  <2> QED BY <2>1 DEF OrderInv
<1>8. CASE Take
  <2>1. /\ UNCHANGED <<up, ready, ws, asked, nextId, memCur, diskCur, covered, lost>>
        /\ ready /\ stage = "idle" /\ stage' = "applying"
        /\ chan # << >> /\ cur' = Head(chan) /\ chan' = Tail(chan)
    BY <1>8 DEF Take
  <2>2. /\ cur' = chan[1] /\ cur' \in Nat \ {0} /\ Len(chan') = Len(chan) - 1
        /\ \A p \in 1 .. Len(chan') : chan'[p] = chan[p + 1]
    BY <2>1, HeadTailProperties
  <2>3. Past' = chan[1] /\ cur = 0
    BY <2>1, <2>2 DEF Past, StageInv
  <2>4. Latest' = Latest
    <3>1. CASE Len(chan') = 0
      <4>1. chan' = << >> /\ Len(chan) = 1
        BY <1>l, <2>1, <2>2, <3>1, EmptySeq, HeadTailProperties
      <4> QED BY <2>1, <2>3, <4>1 DEF Latest
    <3>2. CASE Len(chan') # 0
      <4>1. Len(chan') \in 1 .. Len(chan') /\ chan' # << >>
        <5>1. Len(chan') \in Nat
          BY <1>l, <2>1, <2>2
        <5>2. chan' = << >> => Len(chan') = 0
          OBVIOUS
        <5> QED BY <3>2, <5>1, <5>2
      <4> QED BY <1>l, <2>1, <2>2, <4>1 DEF Latest
    <3> QED BY <3>1, <3>2
  <2>5. ASSUME InOrder PROVE InOrder'
    <3>1. chan' # << >> => chan'[1] <= Past' + 1
      <4>1. ASSUME chan' # << >> PROVE Len(chan') >= 1
        BY <1>l, <2>1, <2>2, <4>1, HeadTailProperties, EmptySeq
      <4>2. ASSUME chan' # << >> PROVE 2 \in 1 .. Len(chan) /\ chan'[1] = chan[2]
        BY <1>l, <2>2, <4>1, <4>2
      <4> QED BY <2>3, <2>5, <4>2 DEF InOrder
    <3>2. ASSUME NEW p \in 1 .. Len(chan'), p > 1 PROVE chan'[p] <= chan'[p - 1] + 1
      <4>1. /\ p + 1 \in 1 .. Len(chan) /\ p + 1 > 1 /\ (p + 1) - 1 = p
            /\ p - 1 \in 1 .. Len(chan') /\ (p - 1) + 1 = p
        BY <1>l, <2>2, <3>2
      <4>2. chan'[p] = chan[p + 1] /\ chan'[p - 1] = chan[p]
        BY <2>2, <4>1
      <4> QED BY <2>5, <4>1, <4>2 DEF InOrder
    <3> QED BY <2>1, <2>4, <2>5, <3>1, <3>2 DEF InOrder
  <2> QED BY <1>m, <2>1, <2>5 DEF OrderInv
<1>9. CASE Advance \/ Persist
  <2>1. /\ UNCHANGED <<up, ready, ws, asked, nextId, chan, covered, lost>> /\ cur # 0 /\ ready
        /\ stage # "idle"
    BY <1>9 DEF Advance, Persist, StageInv, OrderInv
  <2>2. UNCHANGED Past /\ (stage' # "applied" => memCur' = diskCur')
    BY <1>9 DEF Advance, Persist, StageInv, Past
  <2>3. UNCHANGED Latest
    BY <2>1, <2>2 DEF Latest
  <2>4. InOrder => InOrder'
    BY <2>1, <2>2, <2>3 DEF InOrder
  <2> QED BY <1>m, <2>1, <2>2, <2>4 DEF OrderInv
<1>10. CASE Crash
  <2>1. ~up' /\ ~ready' /\ stage' = "idle"
    BY <1>10 DEF Crash
  <2> QED BY <2>1 DEF OrderInv
<1> QED
  BY <1>1, <1>2, <1>3, <1>4, <1>5, <1>6, <1>7, <1>8, <1>9, <1>10, BusKinds

-----------------------------------------------------------------------------
(* The phases of a start.                                                   *)

PhaseInv ==
    /\ boot \in {"off", "folders", "load", "sync", "release", "backfill", "prefetch"}
    /\ (boot = "off") <=> ~up
    /\ ready <=> boot \in {"backfill", "prefetch"}
    /\ boot \in {"off", "folders"} => known = {} /\ todo = {}
    /\ boot \in {"load", "sync"} => todo \subseteq known
    /\ boot = "sync" => known # {} /\ (diskCur = 0 \/ ~fullDone) /\ (allOk \/ missed # {})
    /\ boot \notin {"off", "folders"} /\ known = {} => missed # {}
    /\ (stage = "applying") <=> (pc # "idle")
    /\ pc = "store" => log[cur].create \in known
    /\ pc = "refresh" => log[cur].folders # None

(* The syncer goes through its phases. *)
LEMMA PhaseStep ==
    ASSUME SyncInv, LogInv, OrderInv, PhaseInv, [Next]_vars
    PROVE  PhaseInv'
<1> USE DEF SyncInv
<1>b. [BusNext]_busVars
  BY BusSteps
<1>e. ASSUME pc # "idle" PROVE log'[cur] = log[cur] /\ ready /\ stage = "applying"
  BY <1>b, <1>e, BatchInHand, LogGrows DEF HandlerInv, BusInv
<1>t. /\ up \in BOOLEAN /\ ready \in BOOLEAN
      /\ stage \in {"idle", "applying", "applied"}
  BY DEF BusInv, BusTypeOK
<1>1. CASE Server
  <2>1. UNCHANGED <<up, ready, stage, cur, diskCur, boot, known, todo, fullDone, allOk,
                    missed, pc>>
    BY <1>1, ServerStep DEF Emit, bridgeVars, syncer, memory, disk, handler, history
  <2> QED BY <1>e, <2>1 DEF PhaseInv
<1>2. CASE SyncFolder
  <2>1. /\ UNCHANGED <<up, ready, stage, cur, diskCur, log, boot, known, fullDone, pc>>
        /\ todo' \subseteq todo /\ missed \subseteq missed'
        /\ allOk' = allOk \/ missed' # {}
    BY <1>2
    DEF SyncFolder, SyncList, SyncFails, SyncReturns, SyncUpsert, SyncPrune, SyncSet, busVars,
        disk, memory, syncer, handler, history
  <2> QED BY <2>1 DEF PhaseInv
<1>3. ASSUME NEW expired \in BOOLEAN, BridgeStart(expired) PROVE PhaseInv'
  BY <1>3, <1>t DEF BridgeStart, Start, PhaseInv, syncer, memory, handler, history
<1>4. CASE BootFolders \/ BootFoldersFails
  <2>1. /\ UNCHANGED <<up, ready, stage, cur, diskCur, log, pc>>
        /\ boot = "folders" /\ boot' = "load"
    BY <1>4 DEF BootFolders, BootFoldersFails, busVars, handler
  <2>2. CASE BootFolders
    <3>1. known' = srvFolders /\ todo' = srvFolders
      BY <2>2 DEF BootFolders
    <3> QED BY <2>1, <3>1 DEF PhaseInv, LogInv, HandlerInv
  <2>3. CASE BootFoldersFails
    <3>1. known' = known /\ todo' = todo /\ missed' # {}
      BY <2>3 DEF BootFoldersFails, memory
    <3> QED BY <2>1, <3>1 DEF PhaseInv
  <2> QED BY <1>4, <2>2, <2>3
<1>5. ASSUME NEW f \in Folder, BootLoad(f) \/ Backfill(f) PROVE PhaseInv'
  BY <1>5 DEF BootLoad, Backfill, PhaseInv, busVars, memory, handler, history
<1>6. CASE BootDecide
  BY <1>6 DEF BootDecide, DoFullSync, PhaseInv, busVars, memory, disk, handler
<1>7. CASE BootMark
  <2>1. /\ UNCHANGED <<up, ready, stage, cur, log, pc, known>>
        /\ boot = "sync" /\ boot' = "release"
    BY <1>7 DEF BootMark, busVars, memory, handler
  <2> QED BY <1>t, <2>1, SMTT(30) DEF PhaseInv
<1>8. CASE BootRelease
  BY <1>8 DEF BootRelease, Release, PhaseInv, memory, handler, history
<1>9. CASE BackfillDone
  BY <1>9 DEF BackfillDone, PhaseInv, busVars, memory, handler, history
<1>10. CASE BridgeCrash
  BY <1>10 DEF BridgeCrash, Crash, PhaseInv
<1>11. CASE HandlerTake
  <2>1. /\ UNCHANGED <<up, ready, diskCur, boot, known, todo, fullDone, allOk, missed>>
        /\ stage' = "applying"
        /\ pc' = IF log[cur'].folders # None THEN "refresh" ELSE AtCreate(log[cur'])
    BY <1>11 DEF HandlerTake, Take, syncer, memory, disk, history
  <2>3. UNCHANGED log
    BY <1>11 DEF HandlerTake, Take
  <2>2. pc' # "idle" /\ pc' # "store" /\ (pc' = "refresh" => log[cur'].folders # None)
    BY <2>1 DEF AtCreate, AtDelete, AtMail
  <2> QED BY <2>1, <2>2, <2>3 DEF PhaseInv
<1>12. CASE RefreshFolderList
  <2>1. /\ UNCHANGED <<up, ready, diskCur, boot, todo, fullDone, allOk, missed, stage>>
        /\ pc # "idle" /\ pc' = AtCreate(log[cur]) /\ known' = srvFolders
    BY <1>12 DEF RefreshFolderList, busVars, syncer, history
  <2>2. pc' # "idle" /\ pc' # "store" /\ pc' # "refresh"
    BY <2>1 DEF AtCreate, AtDelete, AtMail
  <2>3. boot \in {"backfill", "prefetch"}
    BY <1>e, <2>1 DEF PhaseInv
  <2> QED BY <2>1, <2>2, <2>3 DEF PhaseInv, LogInv
<1>13. CASE Handler /\ ~HandlerTake /\ ~RefreshFolderList /\ ~HandlerAdvance
  <2>1. /\ UNCHANGED <<up, ready, diskCur, boot, todo, fullDone, allOk, stage, known, log, cur>>
        /\ missed \subseteq missed' /\ pc # "idle"
    <3>1. CASE RefreshFails \/ EntryDeleteFails \/ MailUpdateFails
      BY <3>1 DEF RefreshFails, EntryDeleteFails, MailUpdateFails, busVars, syncer, disk, memory
    <3>2. CASE CreateUnknown \/ CreateFails \/ CreateHit \/ CreateMiss
               \/ \E body \in BOOLEAN : CreateInline(body)
      BY <3>2 DEF CreateUnknown, CreateFails, CreateHit, CreateMiss, CreateInline, busVars,
                  syncer, disk, memory, history
    <3>3. CASE AssignUidAndUpsert
      BY <3>3 DEF AssignUidAndUpsert, busVars, syncer
    <3>4. CASE EntryDelete \/ MailDelete \/ \E inline \in BOOLEAN : MailUpdate(inline)
      BY <3>4 DEF EntryDelete, MailDelete, MailUpdate, busVars, syncer, history
    <3> QED BY <1>13, <3>1, <3>2, <3>3, <3>4 DEF Handler
  <2>2. \/ pc' \in {AtCreate(log[cur]), AtDelete(log[cur]), AtMail(log[cur]), "fallback"}
        \/ pc' = "store" /\ log[cur].create \in known
    <3>1. CASE RefreshFails \/ EntryDeleteFails \/ MailUpdateFails
      BY <3>1 DEF RefreshFails, EntryDeleteFails, MailUpdateFails
    <3>2. CASE CreateUnknown \/ CreateFails \/ CreateHit \/ CreateMiss
               \/ \E body \in BOOLEAN : CreateInline(body)
      BY <3>2 DEF CreateUnknown, CreateFails, CreateHit, CreateMiss, CreateInline
    <3>3. CASE AssignUidAndUpsert
      BY <3>3 DEF AssignUidAndUpsert
    <3>4. CASE EntryDelete \/ MailDelete \/ \E inline \in BOOLEAN : MailUpdate(inline)
      BY <3>4 DEF EntryDelete, MailDelete, MailUpdate
    <3> QED BY <1>13, <3>1, <3>2, <3>3, <3>4 DEF Handler
  <2>3. pc' # "idle" /\ (pc' = "store" => log[cur].create \in known) /\ pc' # "refresh"
    BY <2>2 DEF AtCreate, AtDelete, AtMail
  <2> QED BY <2>1, <2>3 DEF PhaseInv
<1>14. CASE HandlerAdvance
  BY <1>14 DEF HandlerAdvance, Advance, PhaseInv, syncer, memory, disk, history
<1>15. CASE Wire
  <2>1. /\ UNCHANGED <<up, ready, boot, known, todo, fullDone, allOk, missed, pc, log>>
        /\ (stage' = "applying") <=> (stage = "applying")
        /\ Persist \/ UNCHANGED <<cur, diskCur>>
    BY <1>15 DEF Wire, Dial, Push, Unparsable, Drop, Terminate, Persist, bridgeVars, syncer,
                 memory, disk, handler, history
  <2>2. CASE Persist
    <3>1. ready /\ pc = "idle"
      BY <1>t, <2>2 DEF Persist, OrderInv, PhaseInv, BusInv, StageInv
    <3> QED BY <2>1, <3>1 DEF PhaseInv
  <2>3. CASE ~Persist
    BY <2>1, <2>3 DEF PhaseInv
  <2> QED BY <2>2, <2>3
<1>16. CASE WireConnect
  BY <1>16 DEF WireConnect, Connect, PhaseInv, syncer, memory, disk, handler
<1>17. CASE UNCHANGED vars
  BY <1>17 DEF vars, busVars, syncer, memory, disk, handler, history, PhaseInv
<1> QED
  BY <1>1, <1>2, <1>3, <1>4, <1>5, <1>6, <1>7, <1>8, <1>9, <1>10, <1>11, <1>12, <1>13,
     <1>14, <1>15, <1>16, <1>17
  DEF Next, Syncer, Handler

-----------------------------------------------------------------------------
(* What the stores hold.                                                    *)

RowIn(m, f) == rows[m] # None /\ rows[m].folder = f

(* The stores hold mails and folders that the account has, or once had.     *)
MemoryInv ==
    /\ \A f \in Folder, m \in Mail : mem[f][m] # None => f \in known /\ Seen(m)
    /\ \A f \in known : Ever(f)
    /\ \A f \in Folder, m \in Mail :
          RowIn(m, f) => /\ Ever(f) /\ Seen(m)
                         /\ known # {} /\ f \in srvFolders => f \in known

(* A listing shows its folder as it is, but for what later batches tell.    *)
SynRight ==
    syn # None =>
        /\ syn.folder \in known
        /\ \A m \in Mail :
              /\ syn.mails[m] # None =>
                    /\ Seen(m)
                    /\ ~IsIn(m, syn.folder) => WillDelete(Past, m, syn.folder)
                    /\ srv[m] # None /\ syn.mails[m].unread # srv[m].unread =>
                          WillMark(Past, m)
                    /\ syn.step # "listed" =>
                          RowIn(m, syn.folder) /\ rows[m].unread = syn.mails[m].unread
              /\ syn.mails[m] = None =>
                    /\ IsIn(m, syn.folder) => WillCreate(Past, m, syn.folder)
                    /\ syn.step = "pruned" => ~RowIn(m, syn.folder)

(* What the batch in hand, applied for the first time, has still to do.     *)
Forward == stage = "applying" /\ cur > memCur
CreateDue(m, f) ==
    Forward /\ Creates(cur, m, f) /\ (pc \in {"create", "store"} \/ f \in fall \cap known)
DeleteDue(m, f) == Forward /\ Deletes(cur, m, f) /\ pc \in {"create", "store", "delete"}
MarkDue(m) == Forward /\ Marks(cur, m) /\ pc = "mail"
ListDue(f) == Forward /\ Lists(cur, f) /\ pc = "refresh"

(* What a batch that is still to be applied will do. *)
ComesIn(m, f) == WillCreate(Past, m, f) \/ CreateDue(m, f)
GoesOut(m, f) == WillDelete(Past, m, f) \/ DeleteDue(m, f)
Turns(m) == WillMark(Past, m) \/ MarkDue(m)
Relists(f) == WillList(Past, f) \/ ListDue(f)

(* The stores show the account as it is, but for that. *)
MemOk(m, f) ==
    /\ mem[f][m] # None /\ f \in srvFolders /\ ~IsIn(m, f) => GoesOut(m, f)
    /\ mem[f][m] = None /\ IsIn(m, f) => ComesIn(m, f)
    /\ mem[f][m] # None /\ srv[m] # None /\ mem[f][m].unread # srv[m].unread => Turns(m)
RowOk(m, f) ==
    /\ RowIn(m, f) /\ f \in srvFolders /\ ~IsIn(m, f) => GoesOut(m, f) \/ RowIsStale(m)
    /\ ~RowIn(m, f) /\ IsIn(m, f) => ComesIn(m, f)
    /\ RowIn(m, f) /\ f \in srvFolders \cup known /\ srv[m] # None
          /\ rows[m].unread # srv[m].unread => Turns(m)
KnownOk(f) == ~(f \in known <=> f \in srvFolders) => Relists(f)
PendOk ==
    /\ srv[log[cur].mail] # None /\ pend.unread # srv[log[cur].mail].unread =>
          Turns(log[cur].mail)

(* When they do. *)
Cached == missed = {} /\ fullDone /\ diskCur # 0
Running == boot \in {"release", "backfill", "prefetch"} /\ missed = {}
KnownSure == (boot \in {"load", "sync"} /\ known # {}) \/ Running
RowSure(f) ==
    \/ boot \in {"off", "folders", "load"} /\ Cached
    \/ boot = "sync" /\ allOk /\ f \in known \ todo
    \/ Running
MemSure(f) ==
    \/ boot = "load" /\ Cached /\ f \in known \ todo
    \/ boot = "sync" /\ allOk /\ f \in known \ todo
    \/ Running

StoresRight ==
    lost = {} =>
        /\ KnownSure => \A f \in Folder : KnownOk(f)
        /\ \A f \in Folder : RowSure(f) => \A m \in Mail : RowOk(m, f)
        /\ \A f \in Folder : MemSure(f) => \A m \in Mail : MemOk(m, f)
        /\ pc = "store" /\ Running => PendOk

(* What holds of every state. *)
MirrorInv ==
    /\ SyncInv /\ LogInv /\ OrderInv /\ PhaseInv
    /\ MemoryInv /\ SynRight /\ StoresRight

-----------------------------------------------------------------------------
(* Lemmas about what is told.                                               *)

(* The k-th batch and what follows it. *)
LEMMA OfBatch ==
    ASSUME SyncInv, LogInv, NEW k \in 1 .. Len(log)
    PROVE  /\ log[k] \in BatchRecord /\ Whole(log[k]) /\ Shape(log[k])
           /\ PlacesTold(k) /\ MarksTold(k) /\ FoldersTold(k)
BY SyncAssumption, ElementOfSeq, LenProperties DEF SyncInv, BusInv, BusTypeOK, ServerInv, LogInv

(* A later start of the count sees no more. *)
LEMMA WillLess ==
    ASSUME NEW j \in Nat, NEW k \in Nat, j <= k, Len(log) \in Nat
    PROVE  /\ \A m, f : WillCreate(k, m, f) => WillCreate(j, m, f)
           /\ \A m, f : WillDelete(k, m, f) => WillDelete(j, m, f)
           /\ \A m : WillMark(k, m) => WillMark(j, m)
           /\ \A f : WillList(k, f) => WillList(j, f)
<1>1. \A i \in 1 .. Len(log) : i > k => i > j
  OBVIOUS
<1> QED BY <1>1 DEF WillCreate, WillDelete, WillMark, WillList

(* A mail that leaves a folder and is somewhere has come there. *)
LEMMA MovesOn ==
    ASSUME SyncInv, LogInv, NEW k \in 1 .. Len(log), NEW m \in Mail, NEW f \in Folder,
           NEW g \in Folder, Deletes(k, m, f), IsIn(m, g)
    PROVE  WillCreate(k, m, g) \/ (Creates(k, m, g) /\ g # f)
<1>1. /\ log[k] \in BatchRecord /\ Whole(log[k]) /\ Shape(log[k])
      /\ PlacesTold(k) /\ MarksTold(k)
  BY OfBatch
<1>2. log[k].mail = m /\ log[k].delete = f /\ f # None
  BY StoreAssumption DEF Deletes
<1>3. log[k].event # "delete"
  BY <1>1, <1>2 DEF MarksTold, IsIn
<1>4. log[k].create # None /\ log[k].create # f
  BY <1>1, <1>2, <1>3 DEF Shape, Whole
<1> QED BY <1>1, <1>2, <1>4 DEF PlacesTold, Creates

(* The same for a batch that is still to come. *)
LEMMA WillMoveOn ==
    ASSUME SyncInv, LogInv, NEW k \in Nat, NEW m \in Mail, NEW f \in Folder,
           NEW g \in Folder, WillDelete(k, m, f), IsIn(m, g)
    PROVE  WillCreate(k, m, g)
<1>1. PICK j \in 1 .. Len(log) : j > k /\ Deletes(j, m, f)
  BY DEF WillDelete
<1>2. WillCreate(j, m, g) \/ Creates(j, m, g)
  BY <1>1, MovesOn
<1>3. Len(log) \in Nat /\ j \in Nat /\ k <= j
  BY <1>1, LenProperties DEF SyncInv, BusInv, BusTypeOK
<1> QED BY <1>1, <1>2, <1>3, WillLess DEF WillCreate

(* The mails of a folder that is listed anew come in later. *)
LEMMA WillFill ==
    ASSUME SyncInv, LogInv, NEW k \in Nat, NEW m \in Mail, NEW f \in Folder,
           WillList(k, f), IsIn(m, f)
    PROVE  WillCreate(k, m, f)
<1>1. PICK j \in 1 .. Len(log) : j > k /\ Lists(j, f)
  BY DEF WillList
<1>2. FoldersTold(j) /\ log[j].folders = f /\ f # None
  BY <1>1, OfBatch, StoreAssumption DEF Lists
<1>3. WillCreate(j, m, f)
  BY <1>2 DEF FoldersTold
<1>4. Len(log) \in Nat /\ j \in Nat /\ k <= j
  BY <1>1, LenProperties DEF SyncInv, BusInv, BusTypeOK
<1> QED BY <1>3, <1>4, WillLess

(* No batch is ahead of the log. *)
LEMMA PastIs ==
    ASSUME SyncInv
    PROVE  Past \in Nat /\ Past <= Len(log) /\ Len(log) \in Nat
BY LenProperties DEF SyncInv, BusInv, BusTypeOK, Past, Emitted, CoveredInv

(* What the stores hold has its type. *)
LEMMA Typed ==
    ASSUME SyncInv, NEW m \in Mail, NEW f \in Folder
    PROVE  /\ rows[m] # None => rows[m] \in Row /\ rows[m].folder \in Folder
           /\ mem[f][m] # None => mem[f][m] \in Entry
           /\ srv[m] # None => srv[m].folder \in Folder /\ srv[m].unread \in BOOLEAN
           /\ syn # None => syn.folder \in Folder /\ syn \in SyncCall
           /\ syn # None /\ syn.mails[m] # None => syn.mails[m] \in Entry
BY DEF SyncInv, StoreTypes, Rows, Row, FolderMails, ServerInv, Place, SyncCall

(* A listing is under way in a full sync, or in the fallback of a batch. *)
LEMMA SynPhase ==
    ASSUME SyncInv, OrderInv, PhaseInv, syn # None
    PROVE  \/ boot = "sync" /\ pc = "idle" /\ ~ready /\ stage = "idle" /\ cur = 0
           \/ pc = "fallback" /\ ready /\ stage = "applying" /\ boot \in {"backfill", "prefetch"}
BY DEF SyncInv, MoveInv, PhaseInv, OrderInv, BusInv, StageInv, HandlerInv, BusTypeOK

(* A change of the account is told after all that is under way. *)
LEMMA ServerExcuses ==
    ASSUME MirrorInv, Server
    PROVE  \E b :
        /\ Told(b)
        /\ \A m \in Mail, f \in Folder :
              /\ WillCreate(Past, m, f) => WillCreate(Past, m, f)'
              /\ WillDelete(Past, m, f) => WillDelete(Past, m, f)'
              /\ b.mail = m /\ b.create = f => WillCreate(Past, m, f)'
              /\ b.mail = m /\ b.delete = f => WillDelete(Past, m, f)'
              /\ ComesIn(m, f) => ComesIn(m, f)'
              /\ GoesOut(m, f) => GoesOut(m, f)'
        /\ \A m \in Mail :
              /\ WillMark(Past, m) => WillMark(Past, m)'
              /\ b.mail = m /\ b.event = "update" => WillMark(Past, m)'
              /\ Turns(m) => Turns(m)'
              /\ Seen(m) => Seen(m)'
        /\ \A f \in Folder :
              /\ b.folders = f => WillList(Past, f)'
              /\ Relists(f) => Relists(f)'
              /\ Ever(f) => Ever(f)'
<1>i. SyncInv /\ LogInv /\ BusTypeOK /\ ServerInv
  BY DEF MirrorInv, SyncInv, BusInv
<1>1. PICK b : Told(b)
  BY <1>i, ServerTells
<1>2. /\ UNCHANGED <<stage, cur, memCur, diskCur, covered>>
      /\ UNCHANGED <<pc, fall, known>>
  <2>1. UNCHANGED bridgeVars
    BY <1>i, ServerStep
  <2> QED BY <1>1, <2>1 DEF Told, Emit, bridgeVars, handler, memory
<1>3. PICK k \in Nat : k = Past /\ k <= Len(log)
  BY <1>i, PastIs
<1>4. Past' = k
  BY <1>2, <1>3 DEF Past
<1>5. /\ Len(log) \in Nat /\ \A i \in 1 .. Len(log) : log'[i] = log[i]
      /\ \A m \in Mail, f \in Folder :
            /\ WillCreate(k, m, f) => WillCreate(k, m, f)'
            /\ WillDelete(k, m, f) => WillDelete(k, m, f)'
            /\ b.mail = m /\ b.create = f => WillCreate(k, m, f)'
            /\ b.mail = m /\ b.delete = f => WillDelete(k, m, f)'
      /\ \A m \in Mail :
            /\ WillMark(k, m) => WillMark(k, m)'
            /\ b.mail = m /\ b.event = "update" => WillMark(k, m)'
      /\ \A f \in Folder :
            /\ WillList(k, f) => WillList(k, f)'
            /\ b.folders = f => WillList(k, f)'
      /\ \A f \in Folder : Ever(f) => Ever(f)'
      /\ \A m \in Mail : Seen(m) => Seen(m)'
  BY <1>i, <1>1, <1>3, TellsMore
<1>6. /\ \A m, f : WillCreate(Past, m, f)' <=> WillCreate(k, m, f)'
      /\ \A m, f : WillDelete(Past, m, f)' <=> WillDelete(k, m, f)'
      /\ \A m : WillMark(Past, m)' <=> WillMark(k, m)'
      /\ \A f : WillList(Past, f)' <=> WillList(k, f)'
  BY <1>4 DEF WillCreate, WillDelete, WillMark, WillList
<1>7. stage = "applying" => log'[cur] = log[cur]
  BY <1>i, <1>5, BatchInHand DEF SyncInv
<1>8. /\ \A m, f : CreateDue(m, f) => CreateDue(m, f)'
      /\ \A m, f : DeleteDue(m, f) => DeleteDue(m, f)'
      /\ \A m : MarkDue(m) => MarkDue(m)'
      /\ \A f : ListDue(f) => ListDue(f)'
  BY <1>2, <1>7 DEF CreateDue, DeleteDue, MarkDue, ListDue, Forward, Creates, Deletes, Marks,
                    Lists
<1> HIDE DEF Past
<1> QED BY <1>1, <1>3, <1>5, <1>6, <1>8 DEF ComesIn, GoesOut, Turns, Relists

(* The stores still show the account, but for what is to be told. *)
LEMMA ServerKeeps ==
    ASSUME MirrorInv, Server
    PROVE  MemoryInv' /\ SynRight' /\ StoresRight'
<1> USE StoreAssumption
<1>i. SyncInv /\ LogInv /\ BusTypeOK /\ ServerInv /\ MemoryInv /\ SynRight /\ StoresRight
  BY DEF MirrorInv, SyncInv, BusInv
<1>1. PICK b :
        /\ Told(b)
        /\ \A m \in Mail, f \in Folder :
              /\ WillCreate(Past, m, f) => WillCreate(Past, m, f)'
              /\ WillDelete(Past, m, f) => WillDelete(Past, m, f)'
              /\ b.mail = m /\ b.create = f => WillCreate(Past, m, f)'
              /\ b.mail = m /\ b.delete = f => WillDelete(Past, m, f)'
              /\ ComesIn(m, f) => ComesIn(m, f)'
              /\ GoesOut(m, f) => GoesOut(m, f)'
        /\ \A m \in Mail :
              /\ WillMark(Past, m) => WillMark(Past, m)'
              /\ b.mail = m /\ b.event = "update" => WillMark(Past, m)'
              /\ Turns(m) => Turns(m)'
              /\ Seen(m) => Seen(m)'
        /\ \A f \in Folder :
              /\ b.folders = f => WillList(Past, f)'
              /\ Relists(f) => Relists(f)'
              /\ Ever(f) => Ever(f)'
  BY ServerExcuses
<1>2. /\ UNCHANGED <<ready, stage, cur, diskCur, lost, rows, fullDone, known, mem, boot, todo>>
      /\ UNCHANGED <<allOk, pc, pend, syn, missed>>
  <2>1. UNCHANGED bridgeVars
    BY <1>i, ServerStep
  <2> QED BY <1>1, <2>1 DEF Told, Emit, bridgeVars, handler, memory, disk, syncer, history
<1>3. ASSUME NEW m \in Mail, NEW f \in Folder
      PROVE  /\ IsIn(m, f) /\ ~IsIn(m, f)' => WillDelete(Past, m, f)'
             /\ ~IsIn(m, f) /\ IsIn(m, f)' => WillCreate(Past, m, f)'
             /\ Seen(m) /\ srv'[m] # None => srv[m] # None
             /\ Seen(m) /\ srv'[m] # None /\ srv'[m].unread # srv[m].unread =>
                   WillMark(Past, m)'
             /\ f \in srvFolders' /\ Ever(f) => f \in srvFolders
             /\ ~(f \in srvFolders <=> f \in srvFolders') => WillList(Past, f)'
             /\ RowIn(m, f)' <=> RowIn(m, f)
             /\ RowIsStale(m)' <=> RowIsStale(m)
  BY <1>1, <1>2 DEF Told, RowIn, RowIsStale
<1>4. ASSUME NEW m \in Mail, NEW f \in Folder, MemOk(m, f) PROVE MemOk(m, f)'
  <2>1. mem[f][m] # None => Seen(m) /\ Ever(f)
    BY <1>i DEF MemoryInv
  <2>2. UNCHANGED mem[f][m]
    BY <1>2
  <2>3. WillDelete(Past, m, f)' => GoesOut(m, f)'
    BY DEF GoesOut
  <2>4. WillCreate(Past, m, f)' => ComesIn(m, f)'
    BY DEF ComesIn
  <2>5. WillMark(Past, m)' => Turns(m)'
    BY DEF Turns
  <2> QED BY <1>1, <1>3, <1>4, <2>1, <2>2, <2>3, <2>4, <2>5 DEF MemOk
<1>5. ASSUME NEW m \in Mail, NEW f \in Folder, RowOk(m, f) PROVE RowOk(m, f)'
  <2>1. RowIn(m, f) => Seen(m) /\ Ever(f)
    BY <1>i DEF MemoryInv
  <2>2. UNCHANGED <<rows[m], known>>
    BY <1>2
  <2>3. WillDelete(Past, m, f)' => GoesOut(m, f)'
    BY DEF GoesOut
  <2>4. WillCreate(Past, m, f)' => ComesIn(m, f)'
    BY DEF ComesIn
  <2>5. WillMark(Past, m)' => Turns(m)'
    BY DEF Turns
  <2> QED BY <1>1, <1>3, <1>5, <2>1, <2>2, <2>3, <2>4, <2>5 DEF RowOk
<1>6. ASSUME NEW f \in Folder, KnownOk(f) PROVE KnownOk(f)'
  <2>1. WillList(Past, f)' => Relists(f)'
    BY DEF Relists
  <2>2. ~(f \in srvFolders <=> f \in srvFolders') => WillList(Past, f)'
    BY <1>1 DEF Told
  <2> QED BY <1>1, <1>2, <1>6, <2>1, <2>2 DEF KnownOk
<1>7. ASSUME pc = "store", PendOk PROVE PendOk'
  <2>1. log[cur] \in BatchRecord /\ cur \in 1 .. Len(log) /\ Whole(log[cur])
        /\ log[cur].create # None
    BY <1>7, <1>i, BatchInHand DEF SyncInv, HandlerInv
  <2>2. PICK m \in Mail : m = log[cur].mail
    BY <2>1 DEF Whole, BatchRecord
  <2>3. Seen(m)
    BY <2>1, <2>2 DEF Seen
  <2>4. log'[cur] = log[cur]
    BY <1>i, <1>1, <2>1, TellsMore
  <2>5. PICK n : n = cur
    OBVIOUS
  <2>6. log'[cur'].mail = m
    BY <1>2, <2>2, <2>4
  <2>7. WillMark(Past, m)' => Turns(m)'
    BY DEF Turns
  <2>8. srv'[m] # None /\ pend'.unread # srv'[m].unread => Turns(m)'
    BY <1>1, <1>2, <1>3, <1>7, <2>2, <2>3, <2>7 DEF PendOk, Told
  <2>9. Turns(m)' => Turns(log[cur].mail)'
    BY <2>6 DEF Turns, WillMark, MarkDue, Marks
  <2> QED BY <2>6, <2>8, <2>9 DEF PendOk
<1>8. StoresRight'
  <2>1. /\ (KnownSure' <=> KnownSure) /\ (Running' <=> Running)
        /\ \A f : RowSure(f)' <=> RowSure(f)
        /\ \A f : MemSure(f)' <=> MemSure(f)
    BY <1>2 DEF KnownSure, RowSure, MemSure, Running, Cached
  <2> QED BY <1>2, <1>4, <1>5, <1>6, <1>7, <1>i, <2>1 DEF StoresRight
<1>9. MemoryInv'
  <2>1. \A f \in known : f \in Folder
    BY <1>i DEF SyncInv, StoreTypes
  <2> QED BY <1>1, <1>2, <1>3, <1>i, <2>1 DEF MemoryInv
<1>10. SynRight'
  <2>1. CASE syn = None
    BY <1>2, <2>1 DEF SynRight
  <2>2. CASE syn # None
    <3>1. PICK f \in Folder : f = syn.folder
      BY <1>i, <2>2 DEF SyncInv, StoreTypes, SyncCall
    <3>2. /\ \A m : IsIn(m, syn.folder)' <=> IsIn(m, f)'
          /\ \A m : RowIn(m, syn.folder)' <=> RowIn(m, f)'
          /\ \A m : WillDelete(Past, m, syn.folder)' <=> WillDelete(Past, m, f)'
          /\ \A m : WillCreate(Past, m, syn.folder)' <=> WillCreate(Past, m, f)'
      BY <1>2, <3>1 DEF IsIn, RowIn, WillDelete, WillCreate, Creates, Deletes
    <3>3. ASSUME NEW m \in Mail, syn.mails[m] # None
          PROVE  /\ Seen(m)'
                 /\ ~IsIn(m, f)' => WillDelete(Past, m, f)'
                 /\ srv'[m] # None /\ syn'.mails[m].unread # srv'[m].unread =>
                       WillMark(Past, m)'
                 /\ syn'.step # "listed" =>
                       RowIn(m, f)' /\ rows'[m].unread = syn'.mails[m].unread
      BY <1>1, <1>2, <1>3, <1>i, <2>2, <3>1, <3>3 DEF SynRight
    <3>4. ASSUME NEW m \in Mail, syn.mails[m] = None
          PROVE  /\ IsIn(m, f)' => WillCreate(Past, m, f)'
                 /\ syn'.step = "pruned" => ~RowIn(m, f)'
      BY <1>1, <1>2, <1>3, <1>i, <2>2, <3>1, <3>4 DEF SynRight
    <3> QED BY <1>2, <1>i, <2>2, <3>2, <3>3, <3>4 DEF SynRight
  <2> QED BY <2>1, <2>2
<1> QED BY <1>8, <1>9, <1>10

-----------------------------------------------------------------------------
(* What the operations do to the rows and to memory.                        *)

(* A row that says what it said. *)
Says(old, new, m) ==
    /\ new[m] # None <=> old[m] # None
    /\ old[m] # None => new[m].folder = old[m].folder /\ new[m].unread = old[m].unread

(* The flags of a row are apart from each other. *)
LEMMA FlagsApart ==
    ASSUME NEW r \in Row, NEW b \in BOOLEAN
    PROVE  /\ [r EXCEPT !.details = b] # None /\ [r EXCEPT !.details = b].folder = r.folder
           /\ [r EXCEPT !.details = b].unread = r.unread
           /\ [r EXCEPT !.unread = b] # None /\ [r EXCEPT !.unread = b].folder = r.folder
           /\ [r EXCEPT !.unread = b].unread = b
<1>1. [r EXCEPT !.details = b] \in Row /\ [r EXCEPT !.unread = b] \in Row
  BY DEF Row
<1> QED BY <1>1, NoneAssumption DEF Row

(* A row that keeps its UID, or its UID and details, says what is written. *)
LEMMA KeptUid ==
    ASSUME NEW r \in Row, NEW n \in Row
    PROVE  /\ [r EXCEPT !.uid = n.uid] # None /\ [r EXCEPT !.uid = n.uid].folder = r.folder
           /\ [r EXCEPT !.uid = n.uid].unread = r.unread
           /\ [r EXCEPT !.uid = n.uid, !.details = n.details] # None
           /\ [r EXCEPT !.uid = n.uid, !.details = n.details].folder = r.folder
           /\ [r EXCEPT !.uid = n.uid, !.details = n.details].unread = r.unread
<1>1. /\ [r EXCEPT !.uid = n.uid] \in Row
      /\ [r EXCEPT !.uid = n.uid, !.details = n.details] \in Row
  BY DEF Row
<1> QED BY <1>1, NoneAssumption DEF Row

(* mark_has_details and refresh_mail_fields, row by row. *)
LEMMA RowsSay ==
    ASSUME NEW r \in Rows, NEW m \in Mail, NEW b \in BOOLEAN, NEW heal
    PROVE  /\ \A n \in Mail : Says(r, MarkHasDetails(r, m), n)
           /\ \A n \in Mail : Says(r, [i \in Mail |-> IF i \in heal /\ r[i] # None
                                  THEN [r[i] EXCEPT !.details = TRUE] ELSE r[i]], n)
           /\ \A n \in Mail : n # m => RefreshMailFields(r, m, b)[n] = r[n]
           /\ RefreshMailFields(r, m, b)[m] # None <=> r[m] # None
           /\ r[m] # None => /\ RefreshMailFields(r, m, b)[m].folder = r[m].folder
                             /\ RefreshMailFields(r, m, b)[m].unread = b
<1>1. \A n \in Mail : r[n] # None => r[n] \in Row
  BY DEF Rows
<1>2. \A n \in Mail : Says(r, MarkHasDetails(r, m), n)
  <2>1. \A n \in Mail : n # m => MarkHasDetails(r, m)[n] = r[n]
    BY DEF MarkHasDetails, Rows
  <2>2. MarkHasDetails(r, m)[m] = IF r[m] = None THEN None ELSE [r[m] EXCEPT !.details = TRUE]
    BY DEF MarkHasDetails, Rows
  <2>3. ASSUME r[m] # None
        PROVE  /\ [r[m] EXCEPT !.details = TRUE] # None
               /\ [r[m] EXCEPT !.details = TRUE].folder = r[m].folder
               /\ [r[m] EXCEPT !.details = TRUE].unread = r[m].unread
    BY <1>1, <2>3, FlagsApart
  <2> QED BY <2>1, <2>2, <2>3 DEF Says
<1>3. \A n \in Mail : Says(r, [i \in Mail |-> IF i \in heal /\ r[i] # None
                              THEN [r[i] EXCEPT !.details = TRUE] ELSE r[i]], n)
  BY <1>1, FlagsApart DEF Says
<1>4. \A n \in Mail : n # m => RefreshMailFields(r, m, b)[n] = r[n]
  BY DEF RefreshMailFields, Rows
<1>5. /\ RefreshMailFields(r, m, b)[m] # None <=> r[m] # None
      /\ r[m] # None => /\ RefreshMailFields(r, m, b)[m].folder = r[m].folder
                        /\ RefreshMailFields(r, m, b)[m].unread = b
  BY <1>1, FlagsApart DEF RefreshMailFields, Rows
<1> QED BY <1>2, <1>3, <1>4, <1>5

(* The row of an entry that is stored. *)
LEMMA MetadataSays ==
    ASSUME NEW f \in Folder, NEW e \in Entry
    PROVE  /\ MailToMetadata(f, e) \in Row
           /\ MailToMetadata(f, e).folder = f /\ MailToMetadata(f, e).unread = e.unread
<1>1. PICK b \in BOOLEAN : b = e.unread
  BY DEF Entry
<1> QED BY <1>1 DEF MailToMetadata, Row, Entry

(* upsert_mail_metadata: the row says what is written, the others stay. *)
LEMMA UpsertSays ==
    ASSUME NEW r \in Rows, NEW m \in Mail, NEW t \in Row
    PROVE  /\ \A n \in Mail : n # m => UpsertMailMetadata(r, m, t)[n] = r[n]
           /\ UpsertMailMetadata(r, m, t)[m] # None
           /\ UpsertMailMetadata(r, m, t)[m].folder = t.folder
           /\ UpsertMailMetadata(r, m, t)[m].unread = t.unread
<1>1. r[m] # None => r[m] \in Row
  BY DEF Rows
<1> QED BY <1>1, KeptUid, NoneAssumption DEF UpsertMailMetadata, Rows

(* upsert_mail_metadata_batch: the same for every mail of a listing. *)
LEMMA BatchUpsertSays ==
    ASSUME NEW r \in Rows, NEW f \in Folder, NEW mails \in FolderMails, NEW m \in Mail
    PROVE  LET s == UpsertMailMetadataBatch(r, f, mails)
           IN  /\ mails[m] = None => s[m] = r[m]
               /\ mails[m] # None =>
                     s[m] # None /\ s[m].folder = f /\ s[m].unread = mails[m].unread
<1> DEFINE s == UpsertMailMetadataBatch(r, f, mails)
<1>1. s[m] = IF mails[m] = None THEN r[m]
        ELSE IF r[m] = None THEN MailToMetadata(f, mails[m])
        ELSE [MailToMetadata(f, mails[m]) EXCEPT !.uid = r[m].uid, !.details = r[m].details]
  BY DEF UpsertMailMetadataBatch
<1> HIDE DEF s
<1>2. ASSUME mails[m] # None
      PROVE  s[m] # None /\ s[m].folder = f /\ s[m].unread = mails[m].unread
  <2>1. mails[m] \in Entry
    BY <1>2 DEF FolderMails
  <2>2. PICK t \in Row : t = MailToMetadata(f, mails[m]) /\ t.folder = f
                         /\ t.unread = mails[m].unread
    BY <2>1, MetadataSays
  <2>3. CASE r[m] = None
    BY <1>1, <1>2, <2>2, <2>3, NoneAssumption
  <2>4. CASE r[m] # None
    <3>1. PICK n \in Row : n = r[m]
      BY <2>4 DEF Rows
    <3>2. s[m] = [t EXCEPT !.uid = n.uid, !.details = n.details]
      BY <1>1, <1>2, <2>2, <2>4, <3>1
    <3>3. /\ [t EXCEPT !.uid = n.uid, !.details = n.details] # None
          /\ [t EXCEPT !.uid = n.uid, !.details = n.details].folder = t.folder
          /\ [t EXCEPT !.uid = n.uid, !.details = n.details].unread = t.unread
      BY KeptUid
    <3> QED BY <2>2, <3>2, <3>3
  <2> QED BY <2>3, <2>4
<1> QED BY <1>1, <1>2 DEF s

(* load_cached_folder: memory shows the rows of the folder. *)
LEMMA CachedSays ==
    ASSUME NEW r \in Rows, NEW files, NEW f \in Folder, NEW m \in Mail
    PROVE  /\ CachedFolder(r, files, f)[m] # None <=> r[m] # None /\ r[m].folder = f
           /\ CachedFolder(r, files, f)[m] # None =>
                 CachedFolder(r, files, f)[m].unread = r[m].unread
<1>1. CachedFolder(r, files, f)[m] =
        IF r[m] # None /\ r[m].folder = f
        THEN [uid |-> r[m].uid, unread |-> r[m].unread, body |-> m \in files]
        ELSE None
  BY DEF CachedFolder, RowsOf
<1>2. ASSUME r[m] # None
      PROVE  [uid |-> r[m].uid, unread |-> r[m].unread, body |-> m \in files] \in Entry
  <2>1. r[m].uid \in Nat /\ r[m].unread \in BOOLEAN
    BY <1>2 DEF Rows, Row
  <2>2. \A c \in BOOLEAN : [uid |-> r[m].uid, unread |-> r[m].unread, body |-> c] \in Entry
    BY <2>1 DEF Entry
  <2>3. (m \in files) \in BOOLEAN
    OBVIOUS
  <2> QED BY <2>2, <2>3
<1> QED BY <1>1, <1>2, NoneAssumption

(* The operations on memory, mail by mail. *)
LEMMA UpsertInMem ==
    ASSUME NEW a \in [Folder -> FolderMails], NEW f \in Folder, NEW m \in Mail, NEW e
    PROVE  \A g \in Folder, n \in Mail :
               UpsertMailInFolder(a, f, m, e)[g][n] = IF g = f /\ n = m THEN e ELSE a[g][n]
BY DEF UpsertMailInFolder, FolderMails

(* remove_mail_from_folder and remove_mail_everywhere, mail by mail. *)
LEMMA RemoveInMem ==
    ASSUME NEW a \in [Folder -> FolderMails], NEW f \in Folder, NEW m \in Mail
    PROVE  \A g \in Folder, n \in Mail :
               /\ RemoveMailFromFolder(a, f, m)[g][n] =
                     IF g = f /\ n = m THEN None ELSE a[g][n]
               /\ RemoveMailEverywhere(a, m)[g][n] = IF n = m THEN None ELSE a[g][n]
BY DEF RemoveMailFromFolder, RemoveMailEverywhere, FolderMails

(* prune_unknown_folders, mail by mail. *)
LEMMA PruneInMem ==
    ASSUME NEW a \in [Folder -> FolderMails], NEW s
    PROVE  \A g \in Folder, n \in Mail :
               PruneUnknownFolders(a, s)[g][n] = IF g \in s THEN a[g][n] ELSE None
BY DEF PruneUnknownFolders, NoMails

(* refresh_mail_in_place, mail by mail. *)
LEMMA RefreshInMem ==
    ASSUME NEW a \in [Folder -> FolderMails], NEW m \in Mail, NEW b \in BOOLEAN
    PROVE  \A g \in Folder :
               /\ \A n \in Mail : n # m => RefreshMailInPlace(a, m, b)[g][n] = a[g][n]
               /\ RefreshMailInPlace(a, m, b)[g][m] # None <=> a[g][m] # None
               /\ a[g][m] # None => RefreshMailInPlace(a, m, b)[g][m].unread = b
<1> SUFFICES ASSUME NEW g \in Folder
             PROVE  /\ \A n \in Mail : n # m => RefreshMailInPlace(a, m, b)[g][n] = a[g][n]
                    /\ RefreshMailInPlace(a, m, b)[g][m] # None <=> a[g][m] # None
                    /\ a[g][m] # None => RefreshMailInPlace(a, m, b)[g][m].unread = b
  OBVIOUS
<1>1. a[g] \in FolderMails
  OBVIOUS
<1>5. RefreshMailInPlace(a, m, b)[g] =
        [a[g] EXCEPT ![m] = IF a[g][m] = None THEN None ELSE [a[g][m] EXCEPT !.unread = b]]
  BY DEF RefreshMailInPlace
<1>6. \A n \in Mail : n # m => RefreshMailInPlace(a, m, b)[g][n] = a[g][n]
  BY <1>1, <1>5 DEF FolderMails
<1>7. a[g][m] # None => a[g][m] \in Entry
  BY <1>1 DEF FolderMails
<1>8. ASSUME NEW d \in Entry
      PROVE  [d EXCEPT !.unread = b] # None /\ [d EXCEPT !.unread = b].unread = b
  <2>1. [d EXCEPT !.unread = b] \in Entry
    BY DEF Entry
  <2> QED BY <2>1, NoneAssumption DEF Entry
<1>9. RefreshMailInPlace(a, m, b)[g][m] =
        IF a[g][m] = None THEN None ELSE [a[g][m] EXCEPT !.unread = b]
  BY <1>1, <1>5 DEF FolderMails
<1> QED BY <1>6, <1>7, <1>8, <1>9

(* sync_folder writes the row of every mail it has listed. *)
LEMMA UpsertDoes ==
    ASSUME SyncInv, SyncUpsert
    PROVE  /\ syn # None /\ syn' # None /\ syn'.folder = syn.folder /\ syn'.step = "upserted"
           /\ \A m \in Mail :
                 /\ syn.mails[m] = None => syn'.mails[m] = None /\ rows'[m] = rows[m]
                 /\ syn.mails[m] # None =>
                       /\ syn'.mails[m] # None /\ syn'.mails[m].unread = syn.mails[m].unread
                       /\ rows'[m] # None /\ rows'[m].folder = syn.folder
                       /\ rows'[m].unread = syn.mails[m].unread
<1>1. syn \in SyncCall /\ syn # None /\ syn.folder \in Folder /\ syn.mails \in FolderMails
      /\ rows \in Rows /\ mem \in [Folder -> FolderMails] /\ nextUid \in [Folder -> Nat]
  BY DEF SyncUpsert, SyncInv, StoreTypes, SyncCall
<1> DEFINE f == syn.folder
<1>2. f \in Folder /\ f = syn.folder
  BY <1>1
<1> DEFINE new == {m \in Mail : syn.mails[m] # None /\ mem[f][m] = None}
           updated(u) ==
              [m \in Mail |->
                  IF syn.mails[m] = None THEN None
                  ELSE [uid |-> IF m \in new THEN u[m] ELSE mem[f][m].uid,
                        unread |-> syn.mails[m].unread,
                        body |-> m \notin new /\ mem[f][m].body]]
<1>3. PICK u \in AllocateFolderUids(nextUid[f], new) :
          /\ syn' = [syn EXCEPT !.step = "upserted", !.mails = updated(u)]
          /\ rows' = UpsertMailMetadataBatch(rows, f, updated(u))
  BY DEF SyncUpsert
<1> HIDE DEF f
<1>4. \A m \in new : u[m] \in Nat
  <2>1. IsFiniteSet(new)
    BY StoreAssumption, FS_Subset
  <2>2. Cardinality(new) \in Nat /\ nextUid[f] \in Nat
    BY <1>1, <1>2, <2>1, FS_CardinalityType
  <2>3. u \in [new -> nextUid[f] .. (nextUid[f] + Cardinality(new) - 1)]
    BY DEF AllocateFolderUids
  <2> HIDE DEF new
  <2> QED BY <2>2, <2>3
<1>5. ASSUME NEW m \in Mail, syn.mails[m] # None
      PROVE  updated(u)[m] \in Entry /\ updated(u)[m].unread = syn.mails[m].unread
  <2>1. mem[f][m] # None => mem[f][m] \in Entry
    BY <1>1, <1>2 DEF FolderMails
  <2>2. PICK i \in Nat : i = IF m \in new THEN u[m] ELSE mem[f][m].uid
    BY <1>2, <1>4, <1>5, <2>1 DEF Entry
  <2>3. PICK b \in BOOLEAN : b = syn.mails[m].unread
    BY <1>1, <1>5 DEF FolderMails, Entry
  <2>4. (m \notin new /\ mem[f][m].body) \in BOOLEAN
    OBVIOUS
  <2>5. PICK c \in BOOLEAN : c = (m \notin new /\ mem[f][m].body)
    BY <2>4
  <2>6. updated(u)[m] = [uid |-> i, unread |-> b, body |-> c]
    BY <1>5, <2>2, <2>3, <2>5
  <2> HIDE DEF updated
  <2> QED BY <2>3, <2>6 DEF Entry
<1>6. \A m \in Mail : syn.mails[m] = None => updated(u)[m] = None
  OBVIOUS
<1>7. PICK l : l = updated(u)
  OBVIOUS
<1>8. l = [m \in Mail |-> l[m]]
  BY <1>7
<1> HIDE DEF updated, new
<1>9. l \in FolderMails
  <2>1. \A m \in Mail : l[m] \in Entry \cup {None}
    BY <1>5, <1>6, <1>7
  <2> QED BY <1>8, <2>1 DEF FolderMails
<1>10. syn' = [syn EXCEPT !.step = "upserted", !.mails = l]
       /\ rows' = UpsertMailMetadataBatch(rows, f, l)
  BY <1>3, <1>7
<1>11. syn' \in SyncCall /\ syn'.folder = syn.folder /\ syn'.step = "upserted" /\ syn'.mails = l
  BY <1>1, <1>9, <1>10 DEF SyncCall
<1>12. syn' # None
  BY <1>11, SyncAssumption
<1>13. ASSUME NEW m \in Mail
       PROVE  /\ syn.mails[m] = None => l[m] = None /\ rows'[m] = rows[m]
              /\ syn.mails[m] # None =>
                    /\ l[m] # None /\ l[m].unread = syn.mails[m].unread
                    /\ rows'[m] # None /\ rows'[m].folder = syn.folder
                    /\ rows'[m].unread = syn.mails[m].unread
  BY <1>1, <1>2, <1>5, <1>6, <1>7, <1>9, <1>10, BatchUpsertSays, NoneAssumption
<1> QED BY <1>1, <1>11, <1>12, <1>13

(* What the mail of a batch in hand is. *)
LEMMA MailInHand ==
    ASSUME SyncInv, LogInv, pc \in {"create", "store", "delete", "mail"}
    PROVE  /\ cur \in 1 .. Len(log) /\ log[cur] \in BatchRecord /\ Whole(log[cur])
           /\ log[cur].mail \in Mail /\ Seen(log[cur].mail)
           /\ Shape(log[cur]) /\ PlacesTold(cur) /\ MarksTold(cur) /\ FoldersTold(cur)
           /\ stage = "applying" /\ ready /\ cur \in Nat \ {0} /\ Past = cur
           /\ pc \in {"create", "store"} => log[cur].create \in Folder
           /\ pc = "delete" => log[cur].delete \in Folder
<1>1. stage = "applying" /\ ready /\ cur \in 1 .. Len(log) /\ log[cur] \in BatchRecord
      /\ Whole(log[cur])
  BY BatchInHand DEF SyncInv, HandlerInv
<1>2. log[cur].mail # None
  BY <1>1 DEF SyncInv, HandlerInv, Whole
<1>3. log[cur].mail \in Mail /\ Seen(log[cur].mail)
  BY <1>1, <1>2 DEF BatchRecord, Seen
<1>4. /\ pc \in {"create", "store"} => log[cur].create \in Folder
      /\ pc = "delete" => log[cur].delete \in Folder
  BY <1>1 DEF SyncInv, HandlerInv, BatchRecord
<1>5. cur \in Nat \ {0} /\ Past = cur
  BY <1>1 DEF Past
<1> QED BY <1>1, <1>3, <1>4, <1>5, OfBatch

(* A step that puts nothing unheard of into the stores. *)
LEMMA MemoryKept ==
    ASSUME SyncInv, MemoryInv, UNCHANGED <<log, srv, srvFolders, known>>,
           \A f \in Folder, m \in Mail : mem'[f][m] # None =>
               mem[f][m] # None \/ (f \in known /\ Seen(m)),
           \A m \in Mail : rows'[m] # None =>
               \/ rows[m] # None /\ rows'[m].folder = rows[m].folder
               \/ rows'[m].folder \in known /\ Seen(m)
    PROVE  MemoryInv'
<1>1. (\A f : Ever(f)' <=> Ever(f)) /\ \A m : Seen(m)' <=> Seen(m)
  BY StillTold
<1>2. ASSUME NEW f \in Folder, NEW m \in Mail, RowIn(m, f)'
      PROVE  RowIn(m, f) \/ (f \in known /\ Seen(m))
  BY <1>2 DEF RowIn
<1> QED BY <1>1, <1>2 DEF MemoryInv

(* The stores hold nothing unheard of. *)
LEMMA MemoryStep ==
    ASSUME MirrorInv, [Next]_vars, ~Server
    PROVE  MemoryInv'
<1>i. SyncInv /\ LogInv /\ OrderInv /\ PhaseInv /\ MemoryInv /\ SynRight
  BY DEF MirrorInv
<1>a. UNCHANGED <<log, srv, srvFolders>>
  BY AccountKept
<1>e. (\A f : Ever(f)' <=> Ever(f)) /\ \A m : Seen(m)' <=> Seen(m)
  BY <1>a, StillTold
<1>r. rows \in Rows /\ mem \in [Folder -> FolderMails]
  BY <1>i DEF SyncInv, StoreTypes
<1>1. ASSUME UNCHANGED <<known, mem, rows>> PROVE MemoryInv'
  BY <1>1, <1>a, <1>i, MemoryKept
<1>2. CASE SyncFolder
  <2>1. CASE \E f \in Folder : SyncList(f) \/ SyncFails(f)
    BY <1>1, <2>1 DEF SyncList, SyncFails, memory, disk
  <2>2. CASE SyncUpsert
    <3>1. UNCHANGED <<known, mem>>
      BY <2>2 DEF SyncUpsert, memory
    <3>2. ASSUME NEW m \in Mail, rows'[m] # None
          PROVE  \/ rows[m] # None /\ rows'[m].folder = rows[m].folder
                 \/ rows'[m].folder \in known /\ Seen(m)
      BY <1>i, <2>2, <3>2, UpsertDoes DEF SynRight
    <3> QED BY <1>a, <1>i, <3>1, <3>2, MemoryKept
  <2>3. CASE SyncPrune
    <3>1. UNCHANGED <<known, mem>> /\ \A m \in Mail : rows'[m] # None => rows'[m] = rows[m]
      BY <2>3 DEF SyncPrune, memory, DeleteRows
    <3> QED BY <1>a, <1>i, <3>1, MemoryKept
  <2>4. CASE SyncSet
    <3>1. UNCHANGED <<known, rows>> /\ syn # None /\ syn.folder \in known
          /\ mem' = [mem EXCEPT ![syn.folder] = syn.mails]
      BY <1>i, <2>4 DEF SyncSet, SynRight
    <3>2. ASSUME NEW f \in Folder, NEW m \in Mail, mem'[f][m] # None
          PROVE  mem[f][m] # None \/ (f \in known /\ Seen(m))
      BY <1>i, <1>r, <3>1, <3>2 DEF SynRight
    <3> QED BY <1>a, <1>i, <3>1, <3>2, MemoryKept
  <2> QED BY <1>2, <2>1, <2>2, <2>3, <2>4 DEF SyncFolder
<1>3. CASE BootFolders
  <2>1. UNCHANGED <<mem, rows>> /\ known' = srvFolders /\ known = {}
    BY <1>3, <1>i DEF BootFolders, disk, PhaseInv
  <2>2. UNCHANGED srvFolders
    BY <1>a
  <2> QED BY <1>e, <1>i, <2>1, <2>2 DEF MemoryInv, RowIn, Ever
<1>4. ASSUME NEW f \in Folder, BootLoad(f) PROVE MemoryInv'
  <2>1. /\ known' = known /\ f \in known
        /\ mem' = [mem EXCEPT ![f] = CachedFolder(rows, eml, f)]
        /\ rows' = [m \in Mail |-> IF m \in RowsOf(rows, f) \cap eml
                                   THEN [rows[m] EXCEPT !.details = TRUE] ELSE rows[m]]
    BY <1>4, <1>i DEF BootLoad, PhaseInv
  <2>2. ASSUME NEW m \in Mail, rows'[m] # None
        PROVE  rows[m] # None /\ rows'[m].folder = rows[m].folder
    <3>1. CASE m \in RowsOf(rows, f) \cap eml
      <4>1. rows[m] \in Row
        BY <1>r, <3>1 DEF RowsOf, Rows
      <4> QED BY <2>1, <3>1, <4>1, FlagsApart, NoneAssumption
    <3>2. CASE m \notin RowsOf(rows, f) \cap eml
      BY <2>1, <2>2, <3>2
    <3> QED BY <3>1, <3>2
  <2>3. ASSUME NEW g \in Folder, NEW m \in Mail, mem'[g][m] # None
        PROVE  mem[g][m] # None \/ (g \in known /\ Seen(m))
    <3>1. CASE g = f
      <4>1. RowIn(m, f)
        BY <1>r, <2>1, <2>3, <3>1, CachedSays DEF RowIn
      <4> QED BY <1>i, <2>1, <3>1, <4>1 DEF MemoryInv
    <3>2. CASE g # f
      BY <1>r, <2>1, <2>3, <3>2
    <3> QED BY <3>1, <3>2
  <2> QED BY <1>a, <1>i, <2>1, <2>2, <2>3, MemoryKept
<1>5. CASE Syncer /\ ~BootFolders /\ ~\E f \in Folder : BootLoad(f)
  BY <1>1, <1>5
  DEF Syncer, BridgeStart, BootFoldersFails, Backfill, BootDecide, BootMark, BootRelease,
      BackfillDone, memory, disk
<1>6. CASE BridgeCrash
  <2>1. known' = {} /\ mem' = EmptyMem /\ rows' = rows
    BY <1>6 DEF BridgeCrash, disk
  <2>2. \A f \in Folder, m \in Mail : mem'[f][m] = None
    BY <2>1 DEF EmptyMem, NoMails
  <2> QED BY <1>e, <1>i, <2>1, <2>2 DEF MemoryInv, RowIn
<1>7. CASE RefreshFolderList
  <2>1. /\ known' = srvFolders /\ mem' = PruneUnknownFolders(mem, srvFolders)
        /\ \A m \in Mail : rows'[m] # None => rows'[m] = rows[m]
    BY <1>7 DEF RefreshFolderList, DeleteRows
  <2>2. \A f \in Folder, m \in Mail : mem'[f][m] # None => f \in srvFolders /\ mem[f][m] # None
    BY <2>1 DEF PruneUnknownFolders, NoMails
  <2>3. UNCHANGED srvFolders
    BY <1>a
  <2> QED BY <1>e, <1>i, <2>1, <2>2, <2>3 DEF MemoryInv, RowIn, Ever
<1>8. ASSUME NEW body \in BOOLEAN, CreateInline(body) PROVE MemoryInv'
  <2>1. UNCHANGED <<known, mem>>
        /\ (rows' = rows \/ rows' = MarkHasDetails(rows, log[cur].mail)) /\ pc = "create"
    BY <1>8 DEF CreateInline, memory
  <2>2. log[cur].mail \in Mail
    BY <1>i, <2>1, MailInHand
  <2>3. \A m \in Mail : Says(rows, MarkHasDetails(rows, log[cur].mail), m)
    BY <1>r, <2>2, RowsSay
  <2>4. \A m \in Mail : rows'[m] # None => rows[m] # None /\ rows'[m].folder = rows[m].folder
    BY <2>1, <2>3 DEF Says
  <2> QED BY <1>a, <1>i, <2>1, <2>4, MemoryKept
<1>9. CASE AssignUidAndUpsert
  <2> DEFINE m == log[cur].mail
             f == log[cur].create
             e == [pend EXCEPT !.uid = nextUid[f]]
  <2>1. /\ known' = known /\ mem' = UpsertMailInFolder(mem, f, m, e)
        /\ rows' = UpsertMailMetadata(rows, m, MailToMetadata(f, e))
        /\ pc = "store"
    BY <1>9 DEF AssignUidAndUpsert
  <2>2. m \in Mail /\ f \in Folder /\ f \in known /\ Seen(m) /\ pend \in Entry
    BY <1>i, <2>1, MailInHand DEF PhaseInv, SyncInv, HandlerInv
  <2>3. e \in Entry
    BY <1>i, <2>2 DEF Entry, SyncInv, StoreTypes
  <2> HIDE DEF m, f, e
  <2>4. ASSUME NEW n \in Mail, rows'[n] # None
        PROVE  \/ rows[n] # None /\ rows'[n].folder = rows[n].folder
               \/ rows'[n].folder \in known /\ Seen(n)
    BY <1>r, <2>1, <2>2, <2>3, <2>4, MetadataSays, UpsertSays
  <2>5. ASSUME NEW g \in Folder, NEW n \in Mail, mem'[g][n] # None
        PROVE  mem[g][n] # None \/ (g \in known /\ Seen(n))
    BY <1>r, <2>1, <2>2, <2>5, UpsertInMem
  <2> QED BY <1>a, <1>i, <2>1, <2>4, <2>5, MemoryKept
<1>10. CASE EntryDelete
  <2>1. /\ known' = known /\ \A m \in Mail : rows'[m] # None => rows'[m] = rows[m]
        /\ mem' \in {mem, RemoveMailFromFolder(mem, log[cur].delete, log[cur].mail)}
        /\ pc = "delete"
    BY <1>10 DEF EntryDelete, DeleteRows
  <2>2. log[cur].mail \in Mail /\ log[cur].delete \in Folder
    BY <1>i, <2>1, MailInHand
  <2>3. \A f \in Folder, m \in Mail : mem'[f][m] # None => mem[f][m] # None
    BY <1>r, <2>1, <2>2, RemoveInMem
  <2> QED BY <1>a, <1>i, <2>1, <2>3, MemoryKept
<1>11. CASE MailUpdateFails \/ MailDelete \/ \E inline \in BOOLEAN : MailUpdate(inline)
  <2>1. /\ known' = known /\ pc = "mail"
        /\ Forget(log[cur].mail) \/ \E u \in BOOLEAN : Refresh(log[cur].mail, u)
    <3>1. pc = "mail" /\ known' = known
      BY <1>11 DEF MailUpdateFails, MailDelete, MailUpdate
    <3>2. log[cur].mail \in Mail /\ log[cur].unread \in BOOLEAN
      BY <1>i, <3>1, MailInHand DEF BatchRecord
    <3>3. srv[log[cur].mail] # None => srv[log[cur].mail].unread \in BOOLEAN
      BY <1>i, <3>2 DEF SyncInv, ServerInv, Place
    <3> QED BY <1>11, <3>1, <3>2, <3>3 DEF MailUpdateFails, MailDelete, MailUpdate
  <2>2. PICK m \in Mail : m = log[cur].mail
    BY <1>i, <2>1, MailInHand
  <2>3. CASE Forget(m)
    <3>1. \A n \in Mail : rows'[n] # None => rows'[n] = rows[n]
      BY <2>3 DEF Forget, DeleteRows
    <3>2. \A f \in Folder, n \in Mail : mem'[f][n] # None => mem[f][n] # None
      BY <1>r, <2>3, RemoveInMem DEF Forget
    <3> QED BY <1>a, <1>i, <2>1, <3>1, <3>2, MemoryKept
  <2>4. ASSUME NEW u \in BOOLEAN, Refresh(m, u) PROVE MemoryInv'
    <3>1. rows' = RefreshMailFields(rows, m, u) /\ mem' = RefreshMailInPlace(mem, m, u)
      BY <2>4 DEF Refresh
    <3>2. \A n \in Mail : rows'[n] # None => rows[n] # None /\ rows'[n].folder = rows[n].folder
      BY <1>r, <3>1, RowsSay
    <3>3. \A f \in Folder, n \in Mail : mem'[f][n] # None => mem[f][n] # None
      BY <1>r, <3>1, RefreshInMem
    <3> QED BY <1>a, <1>i, <2>1, <3>2, <3>3, MemoryKept
  <2> QED BY <2>1, <2>2, <2>3, <2>4
<1>12. CASE HandlerTake \/ RefreshFails \/ CreateUnknown \/ CreateFails \/ CreateHit
            \/ CreateMiss \/ EntryDeleteFails \/ HandlerAdvance
  BY <1>1, <1>12
  DEF HandlerTake, RefreshFails, CreateUnknown, CreateFails, CreateHit, CreateMiss,
      EntryDeleteFails, HandlerAdvance, memory, disk
<1>13. CASE Wire \/ WireConnect \/ UNCHANGED vars
  BY <1>1, <1>13 DEF Wire, WireConnect, vars, bridgeVars, memory, disk
<1> QED
  BY <1>2, <1>3, <1>4, <1>5, <1>6, <1>7, <1>8, <1>9, <1>10, <1>11, <1>12, <1>13
  DEF Next, Syncer, Handler

(* A step of the bridge that leaves the batch in hand the same. *)
LEMMA SameToCome ==
    ASSUME UNCHANGED <<log, srv, srvFolders>>, Past' = Past
    PROVE  /\ \A m, f :
                 /\ WillCreate(Past, m, f)' <=> WillCreate(Past, m, f)
                 /\ WillDelete(Past, m, f)' <=> WillDelete(Past, m, f)
           /\ \A m : WillMark(Past, m)' <=> WillMark(Past, m)
           /\ \A f : WillList(Past, f)' <=> WillList(Past, f)
<1> HIDE DEF Past
<1>1. \A m, f : WillCreate(Past, m, f)' <=> WillCreate(Past, m, f)
  BY DEF WillCreate, Creates
<1>2. \A m, f : WillDelete(Past, m, f)' <=> WillDelete(Past, m, f)
  BY DEF WillDelete, Deletes
<1>3. \A m : WillMark(Past, m)' <=> WillMark(Past, m)
  BY DEF WillMark, Marks
<1>4. \A f : WillList(Past, f)' <=> WillList(Past, f)
  BY DEF WillList, Lists
<1> QED BY <1>1, <1>2, <1>3, <1>4

(* A listing that goes on, or that is made. *)
LEMMA SynKept ==
    ASSUME SynRight, UNCHANGED <<log, srv, srvFolders>>,
           syn' = None \/ (syn' = syn /\ UNCHANGED <<rows, known>> /\ Past' = Past)
    PROVE  SynRight'
<1> HIDE DEF Past
<1>1. CASE syn' = None
  BY <1>1 DEF SynRight
<1>2. CASE syn' # None
  <2>1. syn # None /\ UNCHANGED <<syn, rows, known, Past>>
    BY <1>2
  <2>2. PICK f : f = syn.folder
    OBVIOUS
  <2>3. /\ \A m : IsIn(m, syn.folder)' <=> IsIn(m, syn.folder)
        /\ \A m : RowIn(m, syn.folder)' <=> RowIn(m, syn.folder)
        /\ \A m : WillDelete(Past, m, syn.folder)' <=> WillDelete(Past, m, syn.folder)
        /\ \A m : WillCreate(Past, m, syn.folder)' <=> WillCreate(Past, m, syn.folder)
        /\ \A m : WillMark(Past, m)' <=> WillMark(Past, m)
        /\ \A m : Seen(m)' <=> Seen(m)
    <3>1. (\A m : WillMark(Past, m)' <=> WillMark(Past, m)) /\ \A m : Seen(m)' <=> Seen(m)
      BY <2>1, SameToCome, StillTold
    <3>2. /\ \A m : IsIn(m, syn.folder)' <=> IsIn(m, syn.folder)
          /\ \A m : RowIn(m, syn.folder)' <=> RowIn(m, syn.folder)
      BY <2>1 DEF IsIn, RowIn
    <3>3. /\ \A m : WillDelete(Past, m, syn.folder)' <=> WillDelete(Past, m, syn.folder)
          /\ \A m : WillCreate(Past, m, syn.folder)' <=> WillCreate(Past, m, syn.folder)
      BY <2>1 DEF WillDelete, WillCreate, Deletes, Creates
    <3> QED BY <3>1, <3>2, <3>3
  <2> QED BY <2>1, <2>3 DEF SynRight
<1> QED BY <1>1, <1>2

(* A listing stays right. *)
LEMMA SynStep ==
    ASSUME MirrorInv, [Next]_vars, ~Server
    PROVE  SynRight'
<1>i. SyncInv /\ LogInv /\ OrderInv /\ PhaseInv /\ MemoryInv /\ SynRight
  BY DEF MirrorInv
<1>a. UNCHANGED <<log, srv, srvFolders>>
  BY AccountKept
<1>e. (\A m : Seen(m)' <=> Seen(m)) /\ \A m, f : IsIn(m, f)' <=> IsIn(m, f)
  BY <1>a, StillTold
<1>p. syn # None => \/ boot = "sync" /\ pc = "idle" /\ ~ready /\ stage = "idle" /\ cur = 0
                    \/ pc = "fallback" /\ ready /\ stage = "applying"
                       /\ boot \in {"backfill", "prefetch"}
  BY <1>i, SynPhase
<1>u. ASSUME UNCHANGED <<cur, diskCur, covered>> PROVE Past' = Past
  BY <1>u DEF Past
<1>1. ASSUME NEW f \in Folder, SyncList(f) PROVE SynRight'
  <2>1. /\ syn' = [folder |-> f, step |-> "listed", gone |-> {},
                   mails |-> [m \in Mail |->
                       IF srv[m] # None /\ srv[m].folder = f
                       THEN [uid |-> 0, unread |-> srv[m].unread, body |-> FALSE]
                       ELSE None]]
        /\ f \in Syncable /\ UNCHANGED <<known, srv>>
    BY <1>1 DEF SyncList, memory
  <2>2. f \in known
    BY <1>i, <2>1 DEF Syncable, PhaseInv
  <2>3. /\ syn'.folder = f /\ syn'.step = "listed"
        /\ \A m \in Mail : /\ syn'.mails[m] # None => IsIn(m, f) /\ syn'.mails[m].unread = srv[m].unread
                           /\ IsIn(m, f) => syn'.mails[m] # None
    <3>1. ASSUME NEW m \in Mail, IsIn(m, f)
          PROVE  [uid |-> 0, unread |-> srv[m].unread, body |-> FALSE] # None
      <4>1. srv[m].unread \in BOOLEAN
        BY <1>i, <3>1, Typed DEF IsIn
      <4>2. [uid |-> 0, unread |-> srv[m].unread, body |-> FALSE] \in Entry
        BY <4>1 DEF Entry
      <4> QED BY <4>2, NoneAssumption
    <3> QED BY <2>1, <3>1 DEF IsIn
  <2>4. \A m : IsIn(m, syn.folder)' <=> IsIn(m, f)
    BY <1>a, <2>3 DEF IsIn
  <2>5. \A m \in Mail : IsIn(m, f) => Seen(m)'
    BY <1>a DEF IsIn, Seen
  <2> QED BY <2>1, <2>2, <2>3, <2>4, <2>5 DEF SynRight
<1>2. CASE SyncUpsert
  <2>1. /\ syn # None /\ syn' # None /\ syn'.folder = syn.folder /\ syn'.step = "upserted"
        /\ \A m \in Mail :
              /\ syn.mails[m] = None => syn'.mails[m] = None /\ rows'[m] = rows[m]
              /\ syn.mails[m] # None =>
                    /\ syn'.mails[m] # None /\ syn'.mails[m].unread = syn.mails[m].unread
                    /\ rows'[m] # None /\ rows'[m].folder = syn.folder
                    /\ rows'[m].unread = syn.mails[m].unread
    BY <1>2, <1>i, UpsertDoes
  <2>2. UNCHANGED <<known, srv>> /\ Past' = Past
    BY <1>2, <1>u DEF SyncUpsert, memory, busVars
  <2>3. PICK f : f = syn.folder
    OBVIOUS
  <2>4. /\ \A m : IsIn(m, syn.folder)' <=> IsIn(m, f)
        /\ \A m : WillDelete(Past, m, syn.folder)' <=> WillDelete(Past, m, f)
        /\ \A m : WillCreate(Past, m, syn.folder)' <=> WillCreate(Past, m, f)
    BY <1>a, <2>1, <2>2, <2>3 DEF IsIn, WillDelete, WillCreate, Deletes, Creates
  <2>5. \A m : WillMark(Past, m)' <=> WillMark(Past, m)
    BY <1>a, <2>2, SameToCome
  <2>6. \A m \in Mail : syn.mails[m] # None => RowIn(m, syn.folder)'
    BY <2>1 DEF RowIn
  <2> QED BY <1>e, <1>i, <2>1, <2>2, <2>3, <2>4, <2>5, <2>6 DEF SynRight
<1>3. CASE SyncPrune
  <2>1. /\ syn # None /\ syn.step = "upserted" /\ UNCHANGED <<known, srv>>
        /\ rows' = DeleteRows(rows, {m \in RowsOf(rows, syn.folder) : syn.mails[m] = None})
    BY <1>3 DEF SyncPrune, memory
  <2>2. /\ syn'.folder = syn.folder /\ syn'.mails = syn.mails /\ syn'.step = "pruned"
    <3>1. syn \in SyncCall
      BY <1>i, <2>1 DEF SyncInv, StoreTypes
    <3> QED BY <1>3, <3>1 DEF SyncPrune, SyncCall
  <2>3. Past' = Past
    BY <1>3, <1>u DEF SyncPrune, busVars
  <2>4. PICK f : f = syn.folder
    OBVIOUS
  <2>5. /\ \A m : IsIn(m, syn.folder)' <=> IsIn(m, f)
        /\ \A m : WillDelete(Past, m, syn.folder)' <=> WillDelete(Past, m, f)
        /\ \A m : WillCreate(Past, m, syn.folder)' <=> WillCreate(Past, m, f)
    BY <1>a, <2>2, <2>3, <2>4 DEF IsIn, WillDelete, WillCreate, Deletes, Creates
  <2>6. \A m : WillMark(Past, m)' <=> WillMark(Past, m)
    BY <1>a, <2>3, SameToCome
  <2>7. \A m \in Mail :
           /\ syn.mails[m] # None => rows'[m] = rows[m] /\ (RowIn(m, f) => RowIn(m, syn.folder)')
           /\ syn.mails[m] = None => ~RowIn(m, syn.folder)'
    BY <2>1, <2>2, <2>4 DEF DeleteRows, RowsOf, RowIn
  <2> QED BY <1>e, <1>i, <2>1, <2>2, <2>4, <2>5, <2>6, <2>7 DEF SynRight
<1>4. CASE SyncSet \/ \E f \in Folder : SyncFails(f)
  <2>1. syn' = None
    BY <1>4 DEF SyncSet, SyncFails
  <2> QED BY <1>a, <1>i, <2>1, SynKept
<1>5. ASSUME syn = None, ~SyncFolder PROVE SynRight'
  <2>1. syn' = None
    <3>1. CASE Syncer
      BY <1>5, <3>1
      DEF Syncer, BridgeStart, BootFolders, BootFoldersFails, BootLoad, Backfill, BootDecide,
          BootMark, BootRelease, BackfillDone
    <3>2. CASE Handler
      BY <1>5, <3>2
      DEF Handler, HandlerTake, RefreshFolderList, RefreshFails, CreateUnknown, CreateFails,
          CreateHit, CreateInline, CreateMiss, AssignUidAndUpsert, EntryDelete,
          EntryDeleteFails, MailUpdate, MailUpdateFails, MailDelete, HandlerAdvance
    <3>3. CASE BridgeCrash \/ Wire \/ WireConnect \/ UNCHANGED vars
      BY <1>5, <3>3 DEF BridgeCrash, Wire, WireConnect, bridgeVars, vars
    <3> QED BY <1>5, <3>1, <3>2, <3>3 DEF Next
  <2> QED BY <1>a, <1>i, <2>1, SynKept
<1>6. ASSUME syn # None, ~SyncFolder PROVE SynRight'
  <2>1. CASE Syncer
    <3>1. (\E f \in Folder : Backfill(f)) \/ BackfillDone
      BY <1>6, <1>i, <1>p, <2>1
      DEF Syncer, BridgeStart, Start, BootFolders, BootFoldersFails, BootLoad, BootDecide,
          BootMark, BootRelease, PhaseInv
    <3>2. UNCHANGED <<syn, rows, known, cur, diskCur, covered>>
      BY <3>1 DEF Backfill, BackfillDone, memory, busVars
    <3> QED BY <1>a, <1>i, <1>u, <3>2, SynKept
  <2>2. CASE Handler
    BY <1>6, <1>p, <2>2
    DEF Handler, HandlerTake, Take, RefreshFolderList, RefreshFails, CreateUnknown, CreateFails,
        CreateHit, CreateInline, CreateMiss, AssignUidAndUpsert, EntryDelete,
        EntryDeleteFails, MailUpdate, MailUpdateFails, MailDelete, HandlerAdvance
  <2>3. CASE BridgeCrash
    BY <1>a, <1>i, <2>3, SynKept DEF BridgeCrash
  <2>4. CASE Wire \/ WireConnect \/ UNCHANGED vars
    <3>1. UNCHANGED <<syn, rows, known>>
      BY <2>4 DEF Wire, WireConnect, vars, bridgeVars, memory, disk
    <3>2. UNCHANGED <<cur, diskCur, covered>>
      BY <1>6, <1>p, <2>4
      DEF Wire, WireConnect, vars, busVars, Dial, Push, Unparsable, Drop, Terminate, Persist,
          Connect
    <3> QED BY <1>a, <1>i, <1>u, <3>1, <3>2, SynKept
  <2> QED BY <1>6, <2>1, <2>2, <2>3, <2>4 DEF Next
<1> QED BY <1>1, <1>2, <1>3, <1>4, <1>5, <1>6 DEF SyncFolder

-----------------------------------------------------------------------------
(* What a step leaves as it is.                                             *)

(* What was still to come is so, or has come. *)
ExcusesKept ==
    /\ \A m \in Mail, f \in Folder :
          (ComesIn(m, f) => ComesIn(m, f)') /\ (GoesOut(m, f) => GoesOut(m, f)')
    /\ \A m \in Mail : Turns(m) => Turns(m)'
    /\ \A f \in Folder : Relists(f) => Relists(f)'

DuesKept ==
    /\ \A m \in Mail, f \in Folder :
          (CreateDue(m, f) => CreateDue(m, f)') /\ (DeleteDue(m, f) => DeleteDue(m, f)')
    /\ \A m \in Mail : MarkDue(m) => MarkDue(m)'
    /\ \A f \in Folder : ListDue(f) => ListDue(f)'

(* While no batch is taken, only the batch in hand may excuse less. *)
LEMMA DuesExcuse ==
    ASSUME UNCHANGED <<log, srv, srvFolders>>, Past' = Past, DuesKept
    PROVE  ExcusesKept
BY SameToCome DEF ExcusesKept, DuesKept, ComesIn, GoesOut, Turns, Relists

(* What the stores have of a mail stays right where they keep it. *)
LEMMA OkKept ==
    ASSUME UNCHANGED <<log, srv, srvFolders>>, ExcusesKept, NEW m \in Mail, NEW f \in Folder
    PROVE  /\ MemOk(m, f) /\ mem'[f][m] = mem[f][m] => MemOk(m, f)'
           /\ RowOk(m, f) /\ Says(rows, rows', m) /\ UNCHANGED known
              /\ (RowIsStale(m) => RowIsStale(m)') => RowOk(m, f)'
           /\ KnownOk(f) /\ UNCHANGED known => KnownOk(f)'
<1>1. IsIn(m, f)' <=> IsIn(m, f)
  BY DEF IsIn
<1>2. /\ ComesIn(m, f) => ComesIn(m, f)'
      /\ GoesOut(m, f) => GoesOut(m, f)'
      /\ Turns(m) => Turns(m)'
      /\ Relists(f) => Relists(f)'
  BY DEF ExcusesKept
<1>3. MemOk(m, f) /\ mem'[f][m] = mem[f][m] => MemOk(m, f)'
  BY <1>1, <1>2 DEF MemOk
<1>4. Says(rows, rows', m) => (RowIn(m, f)' <=> RowIn(m, f))
                              /\ (RowIn(m, f) => rows'[m].unread = rows[m].unread)
  BY DEF Says, RowIn
<1>5. RowOk(m, f) /\ Says(rows, rows', m) /\ UNCHANGED known
      /\ (RowIsStale(m) => RowIsStale(m)') => RowOk(m, f)'
  BY <1>1, <1>2, <1>4 DEF RowOk
<1>6. KnownOk(f) /\ UNCHANGED known => KnownOk(f)'
  BY <1>2 DEF KnownOk
<1> QED BY <1>3, <1>5, <1>6

(* The entry that is about to be stored. *)
LEMMA PendKept ==
    ASSUME SyncInv, LogInv, UNCHANGED <<log, srv, srvFolders, pend, cur>>, ExcusesKept,
           pc = "store", PendOk
    PROVE  PendOk'
<1>1. PICK m \in Mail : m = log[cur].mail
  BY MailInHand
<1>2. Turns(m) => Turns(m)'
  BY DEF ExcusesKept
<1>3. Turns(log[cur].mail)' <=> Turns(m)'
  BY <1>1 DEF Turns, WillMark, MarkDue, Marks
<1> QED BY <1>1, <1>2, <1>3 DEF PendOk

(* A step that leaves the stores alone. *)
SuresKept ==
    /\ KnownSure' => KnownSure
    /\ \A f \in Folder : (RowSure(f)' => RowSure(f)) /\ (MemSure(f)' => MemSure(f))
    /\ pc' = "store" /\ Running' => pc = "store" /\ Running /\ UNCHANGED <<cur, pend>>

(* Then the stores are as right as they were. *)
LEMMA StoresKept ==
    ASSUME SyncInv, LogInv, StoresRight, UNCHANGED <<log, srv, srvFolders, mem, rows, known>>,
           ExcusesKept, SuresKept, lost' = {} => lost = {},
           \A m \in Mail : RowIsStale(m) => RowIsStale(m)'
    PROVE  StoresRight'
<1>1. SUFFICES ASSUME lost' = {}
               PROVE  /\ KnownSure' => \A f \in Folder : KnownOk(f)'
                      /\ \A f \in Folder : RowSure(f)' => \A m \in Mail : RowOk(m, f)'
                      /\ \A f \in Folder : MemSure(f)' => \A m \in Mail : MemOk(m, f)'
                      /\ pc' = "store" /\ Running' => PendOk'
  BY DEF StoresRight
<1>2. /\ KnownSure => \A f \in Folder : KnownOk(f)
      /\ \A f \in Folder : RowSure(f) => \A m \in Mail : RowOk(m, f)
      /\ \A f \in Folder : MemSure(f) => \A m \in Mail : MemOk(m, f)
      /\ pc = "store" /\ Running => PendOk
  BY <1>1 DEF StoresRight
<1>3. \A m : Says(rows, rows', m)
  BY DEF Says
<1>4. ASSUME NEW f \in Folder, NEW m \in Mail
      PROVE  (MemOk(m, f) => MemOk(m, f)') /\ (RowOk(m, f) => RowOk(m, f)')
             /\ (KnownOk(f) => KnownOk(f)')
  BY <1>3, OkKept
<1>5. ASSUME NEW f \in Folder PROVE KnownOk(f) => KnownOk(f)'
  BY DEF ExcusesKept, KnownOk
<1>6. ASSUME pc' = "store", Running' PROVE PendOk'
  BY <1>2, <1>6, PendKept DEF SuresKept
<1> QED BY <1>2, <1>4, <1>5, <1>6 DEF SuresKept

(* A step that cannot be vouched for: no store is said to be right. *)
LEMMA NothingSaid ==
    ASSUME missed' # {}, boot' \notin {"load", "sync"}
    PROVE  StoresRight'
BY DEF StoresRight, KnownSure, RowSure, MemSure, Running, Cached

(* What MirrorInv says, in parts. *)
LEMMA Parts ==
    ASSUME MirrorInv
    PROVE  /\ SyncInv /\ LogInv /\ OrderInv /\ PhaseInv /\ MemoryInv /\ SynRight /\ StoresRight
           /\ BusTypeOK /\ BusInv /\ StageInv
           /\ rows \in Rows /\ mem \in [Folder -> FolderMails] /\ known \subseteq Folder
           /\ Past \in Nat /\ Len(log) \in Nat
BY PastIs DEF MirrorInv, SyncInv, BusInv, StoreTypes

(* The bus, the socket and the backfill of the index leave the stores alone. *)
LEMMA WireKeeps ==
    ASSUME MirrorInv, Wire \/ WireConnect \/ UNCHANGED vars
    PROVE  StoresRight'
<1>a. UNCHANGED <<log, srv, srvFolders>>
  <2>1. CASE Wire \/ WireConnect
    BY <2>1 DEF Wire, WireConnect, Dial, Connect, Push, Unparsable, Drop, Terminate, Persist
  <2>2. CASE UNCHANGED vars
    BY <2>2 DEF vars, busVars
  <2> QED BY <2>1, <2>2
<1>1. UNCHANGED <<mem, rows, known, fullDone, boot, todo, allOk, pc, pend, fall, syn>>
  BY DEF Wire, WireConnect, vars, bridgeVars, memory, disk, syncer, handler
<1>2. /\ UNCHANGED <<ready, covered>> /\ (lost' = {} => lost = {})
      /\ missed' = {} => missed = {}
      /\ UNCHANGED <<stage, cur, memCur, diskCur>> \/ Persist
  <2>1. CASE Wire
    BY <2>1 DEF Wire, Dial, Push, Unparsable, Drop, Terminate, Persist, bridgeVars, history
  <2>2. CASE WireConnect
    BY <2>2 DEF WireConnect, Connect
  <2>3. CASE UNCHANGED vars
    BY <2>3 DEF vars, busVars, history
  <2> QED BY <2>1, <2>2, <2>3
<1>3. ASSUME Persist
      PROVE  /\ stage = "applied" /\ stage' = "idle" /\ ready /\ Past' = Past
             /\ boot \notin {"off", "folders", "load", "sync"}
  <2>1. /\ stage = "applied" /\ stage' = "idle" /\ cur' = 0 /\ diskCur' = cur /\ cur # 0
        /\ UNCHANGED covered
    BY <1>3, Parts DEF Persist, StageInv
  <2>2. ready
    BY <2>1, Parts DEF OrderInv
  <2>3. boot \in {"backfill", "prefetch"}
    BY <2>2, Parts DEF PhaseInv
  <2>4. Past' = Past
    BY <2>1 DEF Past
  <2> QED BY <2>1, <2>2, <2>3, <2>4
<1>4. Past' = Past
  BY <1>2, <1>3 DEF Past
<1>5. DuesKept
  BY <1>1, <1>2, <1>3, <1>a DEF DuesKept, CreateDue, DeleteDue, MarkDue, ListDue, Forward,
     Creates, Deletes, Marks, Lists
<1>6. ExcusesKept
  BY <1>4, <1>5, <1>a, DuesExcuse
<1>7. SuresKept
  <2>1. boot \in {"off", "folders", "load", "sync"} => UNCHANGED diskCur
    BY <1>2, <1>3
  <2>2. pc = "store" => UNCHANGED cur
    BY <1>2, <1>3, Parts DEF SyncInv, HandlerInv
  <2> QED BY <1>1, <1>2, <2>1, <2>2
    DEF SuresKept, KnownSure, RowSure, MemSure, Running, Cached
<1>8. \A m \in Mail : RowIsStale(m) => RowIsStale(m)'
  BY <1>1, <1>2 DEF RowIsStale
<1> QED BY <1>1, <1>2, <1>6, <1>7, <1>8, <1>a, Parts, StoresKept

(* BootRelease, Backfill and BackfillDone leave mails and rows alone. *)
LEMMA ReleaseKeeps ==
    ASSUME MirrorInv, BootRelease \/ BackfillDone \/ \E f \in Folder : Backfill(f)
    PROVE  StoresRight'
<1>1. /\ UNCHANGED <<log, srv, srvFolders, mem, rows, known, fullDone, pc, pend, fall, syn>>
      /\ UNCHANGED <<covered, lost, missed, stage, cur, memCur, diskCur>>
      /\ (ready => ready')
      /\ boot \in {"release", "backfill", "prefetch"} /\ boot' \in {"release", "backfill", "prefetch"}
  <2>1. CASE BootRelease
    BY <2>1 DEF BootRelease, Release, memory, disk, handler, history
  <2>2. CASE BackfillDone \/ \E f \in Folder : Backfill(f)
    BY <2>2 DEF BackfillDone, Backfill, busVars, memory, handler, history
  <2> QED BY <2>1, <2>2
<1>2. Past' = Past
  BY <1>1 DEF Past
<1>3. DuesKept
  BY <1>1 DEF DuesKept, CreateDue, DeleteDue, MarkDue, ListDue, Forward, Creates, Deletes, Marks,
     Lists
<1>4. ExcusesKept
  BY <1>1, <1>2, <1>3, DuesExcuse
<1>5. SuresKept
  BY <1>1 DEF SuresKept, KnownSure, RowSure, MemSure, Running, Cached
<1>6. \A m \in Mail : RowIsStale(m) => RowIsStale(m)'
  BY <1>1 DEF RowIsStale
<1> QED BY <1>1, <1>4, <1>5, <1>6, Parts, StoresKept

(* The handler takes a batch: the next one, or one that comes again. *)
LEMMA TakeKeeps ==
    ASSUME MirrorInv, HandlerTake
    PROVE  StoresRight'
<1>1. /\ UNCHANGED <<log, srv, srvFolders, mem, rows, known, fullDone, boot, todo, allOk, pend, fall>>
      /\ UNCHANGED <<syn, ready, covered, lost, missed, memCur, diskCur>>
      /\ ready /\ up /\ stage = "idle" /\ stage' = "applying" /\ chan # << >> /\ cur' = Head(chan)
      /\ pc' = IF log[cur'].folders # None THEN "refresh" ELSE AtCreate(log[cur'])
  BY DEF HandlerTake, Take, memory, disk, syncer, history
<1>2. boot \in {"backfill", "prefetch"} /\ cur = 0 /\ memCur = diskCur
  BY <1>1, Parts DEF PhaseInv, OrderInv, StageInv
<1>3. CASE missed # {}
  BY <1>1, <1>2, <1>3, NothingSaid
<1>4. CASE missed = {} /\ lost = {}
  <2>1. InOrder
    BY <1>1, <1>4, Parts DEF OrderInv
  <2>2. PICK c : c = cur'
    OBVIOUS
  <2>3. c \in 1 .. Len(log) /\ c = chan[1] /\ c <= Past + 1
    <3>1. Head(chan) = chan[1] /\ Len(chan) \in Nat \ {0}
      BY <1>1, Parts, HeadTailProperties, LenProperties, EmptySeq DEF BusTypeOK
    <3>2. chan[1] \in Nat \ {0} /\ chan[1] <= Len(log)
      BY <3>1, Parts, ElementOfSeq DEF BusTypeOK, SyncInv, Emitted
    <3> QED BY <1>1, <2>1, <2>2, <3>1, <3>2, Parts DEF InOrder
  <2>4. c \in Nat /\ c # 0 /\ Past' = c
    BY <2>2, <2>3, Parts DEF Past
  <2>5. Past = IF diskCur # 0 THEN diskCur ELSE covered
    BY <1>2 DEF Past
  <2>6. log[c] \in BatchRecord /\ Shape(log[c])
    BY <2>3, OfBatch, Parts
  <2>7. c = Past + 1 => c > memCur
    BY <1>2, <2>3, <2>4, <2>5, Parts DEF BusTypeOK
  <2>8. \A j \in 1 .. Len(log) : j > Past => j > c \/ (j = c /\ c > memCur)
    BY <2>3, <2>4, <2>7, Parts
  <2>9. ~Forward
    BY <1>1 DEF Forward
  <2>10. c > memCur => Forward'
    BY <1>1, <2>2 DEF Forward
  <2>11. /\ \A m \in Mail, f \in Folder : Creates(c, m, f) => pc' = "create"
         /\ \A m \in Mail, f \in Folder : Deletes(c, m, f) => pc' \in {"create", "delete"}
         /\ \A m \in Mail : Marks(c, m) => pc' = "mail"
         /\ \A f \in Folder : Lists(c, f) => pc' = "refresh"
    BY <1>1, <2>2, <2>6, StoreAssumption
    DEF Creates, Deletes, Marks, Lists, Shape, AtCreate, AtDelete, AtMail
  <2>12. ExcusesKept
    <3>1. ASSUME NEW m \in Mail, NEW f \in Folder, ComesIn(m, f) PROVE ComesIn(m, f)'
      <4>1. PICK j \in 1 .. Len(log) : j > Past /\ Creates(j, m, f)
        BY <2>9, <3>1 DEF ComesIn, CreateDue, WillCreate
      <4>2. CASE j > c
        BY <1>1, <2>4, <4>1, <4>2 DEF ComesIn, WillCreate, Creates
      <4>3. CASE j = c /\ c > memCur
        BY <1>1, <2>2, <2>10, <2>11, <4>1, <4>3 DEF ComesIn, CreateDue, Creates
      <4> QED BY <2>8, <4>1, <4>2, <4>3
    <3>2. ASSUME NEW m \in Mail, NEW f \in Folder, GoesOut(m, f) PROVE GoesOut(m, f)'
      <4>1. PICK j \in 1 .. Len(log) : j > Past /\ Deletes(j, m, f)
        BY <2>9, <3>2 DEF GoesOut, DeleteDue, WillDelete
      <4>2. CASE j > c
        BY <1>1, <2>4, <4>1, <4>2 DEF GoesOut, WillDelete, Deletes
      <4>3. CASE j = c /\ c > memCur
        BY <1>1, <2>2, <2>10, <2>11, <4>1, <4>3 DEF GoesOut, DeleteDue, Deletes
      <4> QED BY <2>8, <4>1, <4>2, <4>3
    <3>3. ASSUME NEW m \in Mail, Turns(m) PROVE Turns(m)'
      <4>1. PICK j \in 1 .. Len(log) : j > Past /\ Marks(j, m)
        BY <2>9, <3>3 DEF Turns, MarkDue, WillMark
      <4>2. CASE j > c
        BY <1>1, <2>4, <4>1, <4>2 DEF Turns, WillMark, Marks
      <4>3. CASE j = c /\ c > memCur
        BY <1>1, <2>2, <2>10, <2>11, <4>1, <4>3 DEF Turns, MarkDue, Marks
      <4> QED BY <2>8, <4>1, <4>2, <4>3
    <3>4. ASSUME NEW f \in Folder, Relists(f) PROVE Relists(f)'
      <4>1. PICK j \in 1 .. Len(log) : j > Past /\ Lists(j, f)
        BY <2>9, <3>4 DEF Relists, ListDue, WillList
      <4>2. CASE j > c
        BY <1>1, <2>4, <4>1, <4>2 DEF Relists, WillList, Lists
      <4>3. CASE j = c /\ c > memCur
        BY <1>1, <2>2, <2>10, <2>11, <4>1, <4>3 DEF Relists, ListDue, Lists
      <4> QED BY <2>8, <4>1, <4>2, <4>3
    <3> QED BY <3>1, <3>2, <3>3, <3>4 DEF ExcusesKept
  <2>13. pc' # "store"
    BY <1>1 DEF AtCreate, AtDelete, AtMail
  <2>14. SuresKept
    BY <1>1, <2>13 DEF SuresKept, KnownSure, RowSure, MemSure, Running, Cached
  <2>15. \A m \in Mail : RowIsStale(m) => RowIsStale(m)'
    BY <1>1 DEF RowIsStale
  <2> QED BY <1>1, <2>12, <2>14, <2>15, Parts, StoresKept
<1>5. CASE lost # {}
  BY <1>1, <1>5 DEF StoresRight
<1> QED BY <1>3, <1>4, <1>5

(* apply_batch returns with nothing left to do. *)
LEMMA AdvanceKeeps ==
    ASSUME MirrorInv, HandlerAdvance
    PROVE  StoresRight'
<1>1. /\ UNCHANGED <<log, srv, srvFolders, mem, rows, known, fullDone, boot, todo, allOk, pend>>
      /\ UNCHANGED <<syn, ready, covered, lost, missed, cur, diskCur>>
      /\ pc = "fallback" /\ pc' = "idle" /\ Syncable = {}
  BY DEF HandlerAdvance, Advance, memory, disk, syncer, history
<1>2. boot # "sync" /\ fall \cap known = {}
  <2>1. ready
    BY <1>1, Parts DEF SyncInv, HandlerInv
  <2>2. boot # "sync"
    BY <2>1, Parts DEF PhaseInv
  <2> QED BY <1>1, <2>2 DEF Syncable
<1>3. Past' = Past
  BY <1>1 DEF Past
<1>4. DuesKept
  BY <1>1, <1>2 DEF DuesKept, CreateDue, DeleteDue, MarkDue, ListDue
<1>5. ExcusesKept
  BY <1>1, <1>3, <1>4, DuesExcuse
<1>6. SuresKept
  BY <1>1 DEF SuresKept, KnownSure, RowSure, MemSure, Running, Cached
<1>7. \A m \in Mail : RowIsStale(m) => RowIsStale(m)'
  BY <1>1 DEF RowIsStale
<1> QED BY <1>1, <1>5, <1>6, <1>7, Parts, StoresKept

(* A failure of the handler costs the update it was about. *)
LEMMA FailureKeeps ==
    ASSUME MirrorInv, RefreshFails \/ EntryDeleteFails \/ MailUpdateFails
    PROVE  StoresRight'
<1>1. missed' # {} /\ boot' = boot /\ pc # "idle"
  BY DEF RefreshFails, EntryDeleteFails, MailUpdateFails, syncer
<1>2. boot \in {"backfill", "prefetch"}
  BY <1>1, Parts DEF PhaseInv, SyncInv, HandlerInv
<1> QED BY <1>1, <1>2, NothingSaid

(* The syncer. *)
LEMMA StartKeeps ==
    ASSUME MirrorInv, NEW expired \in BOOLEAN, BridgeStart(expired)
    PROVE  StoresRight'
<1>1. /\ UNCHANGED <<log, srv, srvFolders, mem, rows, known, fullDone, pc, pend, fall, missed>>
      /\ UNCHANGED <<syn, ready, lost, stage, cur>>
      /\ boot' = "folders" /\ ~up
      /\ diskCur' = 0 \/ (UNCHANGED <<diskCur, covered>> /\ memCur' = diskCur)
  BY DEF BridgeStart, Start, memory, disk, handler, history
<1>2. boot = "off" /\ ~ready /\ stage = "idle" /\ cur = 0 /\ pc = "idle"
  BY <1>1, Parts DEF PhaseInv, OrderInv, StageInv
<1>3. CASE diskCur' = 0
  BY <1>1, <1>2, <1>3 DEF StoresRight, KnownSure, RowSure, MemSure, Running, Cached
<1>4. CASE UNCHANGED <<diskCur, covered>>
  <2>1. Past' = Past
    BY <1>1, <1>4 DEF Past
  <2>2. DuesKept
    BY <1>1, <1>2 DEF DuesKept, CreateDue, DeleteDue, MarkDue, ListDue, Forward
  <2>3. ExcusesKept
    BY <1>1, <2>1, <2>2, DuesExcuse
  <2>4. SuresKept
    BY <1>1, <1>2, <1>4 DEF SuresKept, KnownSure, RowSure, MemSure, Running, Cached
  <2>5. \A m \in Mail : RowIsStale(m) => RowIsStale(m)'
    BY <1>2 DEF RowIsStale
  <2> QED BY <1>1, <2>3, <2>4, <2>5, Parts, StoresKept
<1> QED BY <1>1, <1>3, <1>4

(* load_folders has the folders as they are, or nothing is vouched for. *)
LEMMA ListKeeps ==
    ASSUME MirrorInv, BootFolders \/ BootFoldersFails
    PROVE  StoresRight'
<1>1. /\ UNCHANGED <<log, srv, srvFolders, mem, rows, fullDone, allOk, pc, pend, fall>>
      /\ UNCHANGED <<syn, ready, lost, stage, cur, memCur, diskCur, covered>>
      /\ boot' = "load" /\ boot = "folders"
  <2>1. CASE BootFolders
    BY <2>1 DEF BootFolders, busVars, disk, handler
  <2>2. CASE BootFoldersFails
    BY <2>2 DEF BootFoldersFails, busVars, disk, memory, handler
  <2> QED BY <2>1, <2>2
<1>2. ~ready /\ stage = "idle" /\ cur = 0 /\ pc = "idle" /\ known = {} /\ todo = {}
  BY <1>1, Parts DEF PhaseInv, OrderInv, StageInv
<1>3. CASE BootFoldersFails
  <2>1. missed' # {} /\ known' = {}
    BY <1>2, <1>3 DEF BootFoldersFails, memory
  <2> QED BY <1>1, <2>1 DEF StoresRight, KnownSure, RowSure, MemSure, Running, Cached
<1>4. CASE BootFolders
  <2>1. known' = srvFolders /\ todo' = srvFolders /\ missed' = missed
    BY <1>4 DEF BootFolders, history
  <2>2. Past' = Past
    BY <1>1 DEF Past
  <2>3. DuesKept
    BY <1>1, <1>2 DEF DuesKept, CreateDue, DeleteDue, MarkDue, ListDue, Forward
  <2>4. ExcusesKept
    BY <1>1, <2>2, <2>3, DuesExcuse
  <2>5. \A f \in Folder : KnownOk(f)'
    BY <1>1, <2>1 DEF KnownOk
  <2>6. ASSUME NEW m \in Mail, NEW f \in Folder, RowOk(m, f) PROVE RowOk(m, f)'
    <3>1. ~RowIsStale(m) /\ (RowIn(m, f)' <=> RowIn(m, f)) /\ (IsIn(m, f)' <=> IsIn(m, f))
      BY <1>1, <1>2 DEF RowIsStale, RowIn, IsIn
    <3> QED BY <1>1, <2>1, <2>4, <2>6, <3>1 DEF RowOk, ExcusesKept
  <2>7. \A f \in Folder : RowSure(f)' => RowSure(f)
    BY <1>1, <2>1 DEF RowSure, Cached, Running
  <2>8. \A f \in Folder : ~MemSure(f)'
    BY <1>1, <2>1 DEF MemSure, Cached, Running
  <2> QED BY <1>1, <1>2, <2>5, <2>6, <2>7, <2>8, Parts DEF StoresRight
<1> QED BY <1>3, <1>4

(* load_cached_folder shows the rows. *)
LEMMA LoadKeeps ==
    ASSUME MirrorInv, NEW f \in Folder, BootLoad(f)
    PROVE  StoresRight'
<1>1. /\ UNCHANGED <<log, srv, srvFolders, known, fullDone, allOk, pc, pend, fall, missed, boot>>
      /\ UNCHANGED <<syn, ready, lost, stage, cur, memCur, diskCur, covered>>
      /\ boot = "load" /\ todo' = todo \ {f} /\ f \in todo
      /\ mem' = [mem EXCEPT ![f] = CachedFolder(rows, eml, f)]
      /\ rows' = [m \in Mail |-> IF m \in RowsOf(rows, f) \cap eml
                                 THEN [rows[m] EXCEPT !.details = TRUE] ELSE rows[m]]
  BY DEF BootLoad, busVars, handler, history
<1>2. ~ready /\ stage = "idle" /\ cur = 0 /\ pc = "idle" /\ f \in known
  BY <1>1, Parts DEF PhaseInv, OrderInv, StageInv
<1>3. Past' = Past
  BY <1>1 DEF Past
<1>4. DuesKept
  BY <1>1, <1>2 DEF DuesKept, CreateDue, DeleteDue, MarkDue, ListDue, Forward
<1>5. ExcusesKept
  BY <1>1, <1>3, <1>4, DuesExcuse
<1>6. ASSUME NEW m \in Mail PROVE Says(rows, rows', m) /\ ~RowIsStale(m)
  <2>1. rows[m] # None => rows[m] \in Row
    BY Parts DEF Rows
  <2> QED BY <1>1, <1>2, <2>1, FlagsApart DEF Says, RowIsStale, RowsOf
<1>7. ASSUME NEW m \in Mail, NEW g \in Folder, RowOk(m, g) PROVE RowOk(m, g)'
  BY <1>1, <1>5, <1>6, <1>7, OkKept
<1>8. ASSUME NEW m \in Mail, NEW g \in Folder, g # f, MemOk(m, g) PROVE MemOk(m, g)'
  <2>1. mem'[g][m] = mem[g][m]
    BY <1>1, <1>8, Parts
  <2> QED BY <1>1, <1>5, <1>8, <2>1, OkKept
<1>9. ASSUME NEW m \in Mail, RowOk(m, f) PROVE MemOk(m, f)'
  <2>1. /\ mem'[f][m] # None <=> RowIn(m, f)
        /\ mem'[f][m] # None => mem'[f][m].unread = rows[m].unread
    <3>1. mem'[f] = CachedFolder(rows, eml, f)
      BY <1>1, Parts
    <3> QED BY <3>1, Parts, CachedSays DEF RowIn
  <2>2. /\ IsIn(m, f)' <=> IsIn(m, f)
        /\ ComesIn(m, f) => ComesIn(m, f)'
        /\ GoesOut(m, f) => GoesOut(m, f)'
        /\ Turns(m) => Turns(m)'
    BY <1>1, <1>5 DEF IsIn, ExcusesKept
  <2>3. UNCHANGED <<srv, srvFolders>>
    BY <1>1
  <2> QED BY <1>2, <1>6, <1>9, <2>1, <2>2, <2>3 DEF RowOk, MemOk
<1>10. \A g \in Folder : KnownOk(g) => KnownOk(g)'
  BY <1>1, <1>5 DEF ExcusesKept, KnownOk
<1>11. (KnownSure' => KnownSure) /\ \A g \in Folder : RowSure(g)' => RowSure(g)
  BY <1>1 DEF KnownSure, RowSure, Cached, Running
<1>12. \A g \in Folder : MemSure(g)' => (g # f /\ MemSure(g)) \/ (g = f /\ RowSure(f))
  BY <1>1 DEF MemSure, RowSure, Cached, Running
<1> QED BY <1>1, <1>2, <1>7, <1>8, <1>9, <1>10, <1>11, <1>12, Parts DEF StoresRight

(* A mail in a folder that is not in the list yet comes with a later batch. *)
LEMMA NotListedYet ==
    ASSUME MirrorInv, NEW m \in Mail, NEW f \in Folder, f \notin known, KnownOk(f), ~ListDue(f),
           IsIn(m, f)
    PROVE  WillCreate(Past, m, f)
<1>1. f \in srvFolders
  BY Parts DEF LogInv, IsIn
<1>2. WillList(Past, f)
  BY <1>1 DEF KnownOk, Relists
<1> QED BY <1>2, Parts, WillFill

(* A start that lets the handler go has read all of its folders. *)
LEMMA DecideKeeps ==
    ASSUME MirrorInv, BootDecide
    PROVE  StoresRight'
<1>1. /\ UNCHANGED <<log, srv, srvFolders, mem, rows, known, fullDone, pc, pend, fall, missed>>
      /\ UNCHANGED <<syn, ready, lost, stage, cur, memCur, diskCur, covered>>
      /\ boot = "load" /\ todo = {} /\ todo' = IF DoFullSync THEN known ELSE {}
      /\ boot' = IF DoFullSync THEN "sync" ELSE "release"
  BY DEF BootDecide, busVars, disk, memory, handler
<1>2. ~ready /\ stage = "idle" /\ cur = 0 /\ pc = "idle"
  BY <1>1, Parts DEF PhaseInv, OrderInv, StageInv
<1>3. Past' = Past
  BY <1>1 DEF Past
<1>4. DuesKept /\ \A f : ~ListDue(f)
  BY <1>1, <1>2 DEF DuesKept, CreateDue, DeleteDue, MarkDue, ListDue, Forward
<1>5. ExcusesKept
  BY <1>1, <1>3, <1>4, DuesExcuse
<1>6. \A f \in Folder : KnownOk(f) => KnownOk(f)'
  BY <1>1, <1>5 DEF ExcusesKept, KnownOk
<1>7. CASE DoFullSync
  <2>1. boot' = "sync" /\ todo' = known /\ known # {}
    BY <1>1, <1>7 DEF DoFullSync
  <2>2. \A f \in Folder : ~RowSure(f)' /\ ~MemSure(f)'
    BY <1>1, <2>1 DEF RowSure, MemSure, Cached, Running
  <2>3. KnownSure
    BY <1>1, <2>1 DEF KnownSure
  <2> QED BY <1>1, <1>2, <1>6, <2>2, <2>3, Parts DEF StoresRight
<1>8. CASE ~DoFullSync
  <2>1. SUFFICES ASSUME lost = {}, missed = {} PROVE StoresRight'
    BY <1>1, <1>8 DEF StoresRight, KnownSure, RowSure, MemSure, Cached, Running
  <2>2. known # {} /\ diskCur # 0 /\ fullDone
    BY <1>1, <1>8, <2>1, Parts DEF PhaseInv, DoFullSync
  <2>3. /\ \A f \in Folder : KnownOk(f)
        /\ \A f \in Folder, m \in Mail : RowOk(m, f)
        /\ \A f \in known, m \in Mail : MemOk(m, f)
    BY <1>1, <2>1, <2>2, Parts DEF StoresRight, KnownSure, RowSure, MemSure, Cached
  <2>4. ASSUME NEW f \in Folder, NEW m \in Mail PROVE MemOk(m, f)
    <3>1. CASE f \in known
      BY <2>3, <3>1
    <3>2. CASE f \notin known
      <4>1. mem[f][m] = None
        BY <3>2, Parts DEF MemoryInv
      <4>2. IsIn(m, f) => WillCreate(Past, m, f)
        BY <1>4, <2>3, <3>2, NotListedYet
      <4> QED BY <4>1, <4>2 DEF MemOk, ComesIn
    <3> QED BY <3>1, <3>2
  <2>5. ASSUME NEW f \in Folder, NEW m \in Mail PROVE MemOk(m, f)' /\ RowOk(m, f)'
    <3>1. Says(rows, rows', m) /\ ~RowIsStale(m)
      BY <1>1, <1>2 DEF Says, RowIsStale
    <3> QED BY <1>1, <1>5, <2>3, <2>4, <3>1, OkKept
  <2> QED BY <1>1, <1>2, <1>6, <2>3, <2>5 DEF StoresRight
<1> QED BY <1>7, <1>8

(* So has a full sync that listed every folder. *)
LEMMA MarkKeeps ==
    ASSUME MirrorInv, BootMark
    PROVE  StoresRight'
<1>1. /\ UNCHANGED <<log, srv, srvFolders, mem, rows, known, pc, pend, fall>>
      /\ UNCHANGED <<syn, ready, lost, stage, cur, memCur, diskCur, covered>>
      /\ boot = "sync" /\ todo = {} /\ boot' = "release"
      /\ missed' = IF allOk THEN {} ELSE missed
  BY DEF BootMark, busVars, memory, handler
<1>2. ~ready /\ stage = "idle" /\ cur = 0 /\ pc = "idle" /\ known # {} /\ (allOk \/ missed # {})
  BY <1>1, Parts DEF PhaseInv, OrderInv, StageInv
<1>3. Past' = Past
  BY <1>1 DEF Past
<1>4. DuesKept /\ \A f : ~ListDue(f)
  BY <1>1, <1>2 DEF DuesKept, CreateDue, DeleteDue, MarkDue, ListDue, Forward
<1>5. ExcusesKept
  BY <1>1, <1>3, <1>4, DuesExcuse
<1>6. CASE ~allOk
  <2>1. missed' # {}
    BY <1>1, <1>2, <1>6
  <2> QED BY <1>1, <2>1, NothingSaid
<1>7. CASE allOk /\ lost = {}
  <2>1. /\ \A f \in Folder : KnownOk(f)
        /\ \A f \in known, m \in Mail : RowOk(m, f)
        /\ \A f \in known, m \in Mail : MemOk(m, f)
    BY <1>1, <1>2, <1>7, Parts DEF StoresRight, KnownSure, RowSure, MemSure
  <2>2. ASSUME NEW f \in Folder, NEW m \in Mail PROVE MemOk(m, f) /\ RowOk(m, f)
    <3>1. CASE f \in known
      BY <2>1, <3>1
    <3>2. CASE f \notin known
      <4>1. mem[f][m] = None /\ (RowIn(m, f) => f \notin srvFolders)
        BY <1>2, <3>2, Parts DEF MemoryInv
      <4>2. IsIn(m, f) => WillCreate(Past, m, f)
        BY <1>4, <2>1, <3>2, NotListedYet
      <4> QED BY <3>2, <4>1, <4>2 DEF MemOk, RowOk, ComesIn
    <3> QED BY <3>1, <3>2
  <2>3. ASSUME NEW f \in Folder, NEW m \in Mail PROVE MemOk(m, f)' /\ RowOk(m, f)'
    <3>1. Says(rows, rows', m) /\ ~RowIsStale(m)
      BY <1>1, <1>2 DEF Says, RowIsStale
    <3> QED BY <1>1, <1>5, <2>2, <3>1, OkKept
  <2>4. \A f \in Folder : KnownOk(f)'
    BY <1>1, <1>5, <2>1 DEF ExcusesKept, KnownOk
  <2> QED BY <1>1, <1>2, <2>3, <2>4 DEF StoresRight
<1>8. CASE lost # {}
  BY <1>1, <1>8 DEF StoresRight
<1> QED BY <1>6, <1>7, <1>8

(* A stop leaves rows that the batches after the stored cursor put right. *)
LEMMA CrashKeeps ==
    ASSUME MirrorInv, BridgeCrash
    PROVE  StoresRight'
<1>1. /\ UNCHANGED <<log, srv, srvFolders, rows, fullDone, lost, diskCur, covered>>
      /\ boot' = "off" /\ pc' = "idle" /\ cur' = 0 /\ stage' = "idle" /\ known' = {} /\ ~ready'
      /\ up
  BY DEF BridgeCrash, Crash, disk
<1>2. SUFFICES ASSUME lost = {}, missed' = {}, fullDone, diskCur # 0,
                      NEW m \in Mail, NEW f \in Folder
               PROVE  RowOk(m, f)'
  BY <1>1 DEF StoresRight, KnownSure, RowSure, MemSure, Cached, Running
<1>3. missed = {} /\ ~(cur # 0 /\ cur < diskCur) /\ ~RowIsStale(m)
  BY <1>2 DEF BridgeCrash
<1>4. RowOk(m, f)
  <2>1. boot # "sync" /\ boot # "off"
    BY <1>1, <1>2, Parts DEF PhaseInv
  <2>2. boot \in {"folders", "load"} \/ boot \in {"release", "backfill", "prefetch"}
    BY <2>1, Parts DEF PhaseInv
  <2>3. RowSure(f)
    BY <1>2, <1>3, <2>2 DEF RowSure, Cached, Running
  <2> QED BY <1>2, <2>3, Parts DEF StoresRight
<1>5. PICK k \in Nat : k = diskCur /\ k # 0
  BY <1>2, Parts DEF BusTypeOK
<1>6. Past' = k /\ k <= Past
  BY <1>1, <1>3, <1>5, Parts DEF Past, BusTypeOK
<1>7. stage = "applying" => cur \in 1 .. Len(log) /\ memCur = k
  <2>1. stage = "applying" => cur \in 1 .. Len(log)
    BY Parts, BatchInHand DEF SyncInv
  <2> QED BY <1>1, <1>5, <2>1, Parts DEF OrderInv
<1>8. /\ ComesIn(m, f) => ComesIn(m, f)'
      /\ GoesOut(m, f) => GoesOut(m, f)'
      /\ Turns(m) => Turns(m)'
  <2>1. /\ WillCreate(Past, m, f) => WillCreate(k, m, f)
        /\ WillDelete(Past, m, f) => WillDelete(k, m, f)
        /\ WillMark(Past, m) => WillMark(k, m)
    BY <1>6, Parts, WillLess
  <2>2. /\ CreateDue(m, f) => WillCreate(k, m, f)
        /\ DeleteDue(m, f) => WillDelete(k, m, f)
        /\ MarkDue(m) => WillMark(k, m)
    BY <1>7 DEF CreateDue, DeleteDue, MarkDue, Forward, WillCreate, WillDelete, WillMark
  <2>3. /\ WillCreate(k, m, f) => WillCreate(Past, m, f)'
        /\ WillDelete(k, m, f) => WillDelete(Past, m, f)'
        /\ WillMark(k, m) => WillMark(Past, m)'
    BY <1>1, <1>6 DEF WillCreate, WillDelete, WillMark, Creates, Deletes, Marks
  <2> QED BY <2>1, <2>2, <2>3 DEF ComesIn, GoesOut, Turns
<1>9. (RowIn(m, f)' <=> RowIn(m, f)) /\ (IsIn(m, f)' <=> IsIn(m, f))
  BY <1>1 DEF RowIn, IsIn
<1> QED BY <1>1, <1>3, <1>4, <1>8, <1>9 DEF RowOk

(* sync_folder.  A listing that begins leaves the stores alone. *)
LEMMA SyncListKeeps ==
    ASSUME MirrorInv, NEW f \in Folder, SyncList(f)
    PROVE  StoresRight'
<1>1. /\ UNCHANGED <<log, srv, srvFolders, mem, rows, known, fullDone, pc, pend, fall, missed>>
      /\ UNCHANGED <<ready, lost, stage, cur, memCur, diskCur, covered, boot, todo, allOk>>
      /\ syn = None
  BY DEF SyncList, busVars, memory, disk, handler, syncer, history
<1>2. /\ syn'.folder = f
      /\ \A m \in Mail : syn'.mails[m] # None => IsIn(m, f)
  BY DEF SyncList, IsIn
<1>3. Past' = Past
  BY <1>1 DEF Past
<1>4. DuesKept
  BY <1>1 DEF DuesKept, CreateDue, DeleteDue, MarkDue, ListDue, Forward, Creates, Deletes, Marks,
     Lists
<1>5. ExcusesKept
  BY <1>1, <1>3, <1>4, DuesExcuse
<1>6. ASSUME NEW m \in Mail, NEW g \in Folder, RowOk(m, g) PROVE RowOk(m, g)'
  <2>1. Says(rows, rows', m)
    BY <1>1 DEF Says
  <2>2. CASE RowIsStale(m) => RowIsStale(m)'
    BY <1>1, <1>5, <1>6, <2>1, <2>2, OkKept
  <2>3. CASE RowIsStale(m) /\ ~RowIsStale(m)'
    <3>1. rows[m].folder = f /\ IsIn(m, f)
      BY <1>1, <1>2, <2>3 DEF RowIsStale
    <3>2. RowIn(m, g) => IsIn(m, g)
      BY <3>1 DEF RowIn
    <3>3. /\ RowIn(m, g)' <=> RowIn(m, g)
          /\ IsIn(m, g)' <=> IsIn(m, g)
      BY <1>1 DEF RowIn, IsIn
    <3> QED BY <1>1, <1>5, <1>6, <3>2, <3>3 DEF RowOk, ExcusesKept
  <2> QED BY <2>2, <2>3
<1>7. ASSUME NEW m \in Mail, NEW g \in Folder, MemOk(m, g) PROVE MemOk(m, g)'
  BY <1>1, <1>5, <1>7, OkKept
<1>8. \A g \in Folder : KnownOk(g) => KnownOk(g)'
  BY <1>1, <1>5 DEF ExcusesKept, KnownOk
<1>9. pc = "store" /\ PendOk => PendOk'
  BY <1>1, <1>5, Parts, PendKept
<1>10. SuresKept /\ (Running' <=> Running)
  BY <1>1 DEF SuresKept, KnownSure, RowSure, MemSure, Running, Cached
<1> QED BY <1>1, <1>6, <1>7, <1>8, <1>9, <1>10, Parts DEF StoresRight, SuresKept

(* A listing that fails is held against the full sync, or the batch. *)
LEMMA SyncFailsKeeps ==
    ASSUME MirrorInv, NEW f \in Folder, SyncFails(f)
    PROVE  StoresRight'
<1>1. /\ UNCHANGED <<log, srv, srvFolders, known, pc, lost, stage, cur, memCur, diskCur, covered>>
      /\ UNCHANGED boot /\ missed' # {} /\ f \in Syncable
      /\ allOk' = (allOk /\ boot # "sync")
  BY DEF SyncFails, busVars, memory
<1>2. CASE boot \notin {"load", "sync"}
  BY <1>1, <1>2, NothingSaid
<1>3. CASE boot \in {"load", "sync"}
  <2>1. Past' = Past
    BY <1>1 DEF Past
  <2>2. \A g : Relists(g) => Relists(g)'
    BY <1>1, <2>1, SameToCome DEF Relists, ListDue, Forward, Lists
  <2>3. \A g \in Folder : KnownOk(g) => KnownOk(g)'
    BY <1>1, <2>2 DEF KnownOk
  <2>4. \A g \in Folder : ~RowSure(g)' /\ ~MemSure(g)'
    BY <1>1, <1>3 DEF RowSure, MemSure, Cached, Running
  <2>5. (KnownSure' => KnownSure) /\ ~Running'
    BY <1>1, <1>3 DEF KnownSure, Running
  <2> QED BY <1>1, <2>3, <2>4, <2>5, Parts DEF StoresRight
<1> QED BY <1>2, <1>3

(* The steps of a listing change the stores, and nothing else. *)
SyncQuiet ==
    /\ UNCHANGED <<log, srv, srvFolders, known, fullDone, pc, pend, missed>>
    /\ UNCHANGED <<ready, lost, stage, cur, memCur, diskCur, covered, boot, allOk>>

(* The rows of the mails that were listed say what was listed. *)
LEMMA UpsertKeeps ==
    ASSUME MirrorInv, SyncUpsert
    PROVE  StoresRight'
<1>1. SyncQuiet /\ UNCHANGED <<mem, todo, fall>>
  BY DEF SyncQuiet, SyncUpsert, busVars, memory, handler, syncer
<1>a. UNCHANGED <<log, srv, srvFolders, known, pc, pend, cur, lost>>
  BY <1>1 DEF SyncQuiet
<1>2. /\ syn # None /\ syn' # None /\ syn'.folder = syn.folder /\ syn'.step = "upserted"
      /\ \A m \in Mail :
            /\ syn.mails[m] = None => syn'.mails[m] = None /\ rows'[m] = rows[m]
            /\ syn.mails[m] # None =>
                  /\ syn'.mails[m] # None /\ syn'.mails[m].unread = syn.mails[m].unread
                  /\ rows'[m] # None /\ rows'[m].folder = syn.folder
                  /\ rows'[m].unread = syn.mails[m].unread
  BY Parts, UpsertDoes
<1>3. Past' = Past
  BY <1>1 DEF Past, SyncQuiet
<1>4. DuesKept
  BY <1>1 DEF DuesKept, CreateDue, DeleteDue, MarkDue, ListDue, Forward, Creates, Deletes, Marks,
     Lists, SyncQuiet
<1>5. ExcusesKept
  BY <1>3, <1>4, <1>a, DuesExcuse
<1>6. ASSUME NEW m \in Mail, NEW g \in Folder, RowOk(m, g) PROVE RowOk(m, g)'
  <2>1. CASE syn.mails[m] = None
    <3>1. Says(rows, rows', m)
      BY <1>2, <2>1 DEF Says
    <3>2. RowIsStale(m) => RowIsStale(m)'
      BY <1>1, <1>2, <2>1 DEF RowIsStale, SyncQuiet
    <3> QED BY <1>5, <1>6, <1>a, <3>1, <3>2, OkKept
  <2>2. CASE syn.mails[m] # None
    <3>1. PICK f \in Folder : f = syn.folder
      BY <1>2, Parts DEF SyncInv, StoreTypes, SyncCall
    <3>2. /\ ~IsIn(m, f) => WillDelete(Past, m, f)
          /\ srv[m] # None /\ rows'[m].unread # srv[m].unread => WillMark(Past, m)
      BY <1>2, <2>2, <3>1, Parts DEF SynRight
    <3>3. /\ RowIn(m, g)' <=> g = f
          /\ IsIn(m, g)' <=> IsIn(m, g)
      BY <1>2, <1>a, <2>2, <3>1 DEF RowIn, IsIn
    <3>4. /\ WillCreate(Past, m, g) => ComesIn(m, g)'
          /\ WillDelete(Past, m, g) => GoesOut(m, g)'
          /\ WillMark(Past, m) => Turns(m)'
      BY <1>5 DEF ExcusesKept, ComesIn, GoesOut, Turns
    <3>5. g # f /\ IsIn(m, g) => WillCreate(Past, m, g)
      <4>1. ASSUME g # f, IsIn(m, g) PROVE WillCreate(Past, m, g)
        <5>1. WillDelete(Past, m, f)
          BY <3>2, <4>1 DEF IsIn
        <5> QED BY <4>1, <5>1, Parts, WillMoveOn
      <4> QED BY <4>1
    <3> QED BY <1>a, <3>2, <3>3, <3>4, <3>5 DEF RowOk
  <2> QED BY <2>1, <2>2
<1>7. ASSUME NEW m \in Mail, NEW g \in Folder, MemOk(m, g) PROVE MemOk(m, g)'
  BY <1>1, <1>5, <1>7, <1>a, OkKept
<1>8. \A g \in Folder : KnownOk(g) => KnownOk(g)'
  BY <1>5, <1>a DEF ExcusesKept, KnownOk
<1>9. pc = "store" /\ PendOk => PendOk'
  BY <1>5, <1>a, Parts, PendKept
<1>10. SuresKept /\ (Running' <=> Running)
  BY <1>1 DEF SuresKept, KnownSure, RowSure, MemSure, Running, Cached, SyncQuiet
<1> QED BY <1>6, <1>7, <1>8, <1>9, <1>10, <1>a, Parts DEF StoresRight, SuresKept

(* A row goes when its mail is not in the folder, or is still to come. *)
LEMMA PruneKeeps ==
    ASSUME MirrorInv, SyncPrune
    PROVE  StoresRight'
<1>1. SyncQuiet /\ UNCHANGED <<mem, todo, fall>>
  BY DEF SyncQuiet, SyncPrune, busVars, memory, handler, syncer, history
<1>a. UNCHANGED <<log, srv, srvFolders, known, pc, pend, cur, lost>>
  BY <1>1 DEF SyncQuiet
<1>2. /\ syn # None /\ syn \in SyncCall
      /\ rows' = DeleteRows(rows, {m \in RowsOf(rows, syn.folder) : syn.mails[m] = None})
  BY Parts DEF SyncPrune, SyncInv, StoreTypes
<1>3. syn'.folder = syn.folder /\ syn'.mails = syn.mails
  BY <1>2 DEF SyncPrune, SyncCall
<1>4. Past' = Past
  BY <1>1 DEF Past, SyncQuiet
<1>5. DuesKept
  BY <1>1 DEF DuesKept, CreateDue, DeleteDue, MarkDue, ListDue, Forward, Creates, Deletes, Marks,
     Lists, SyncQuiet
<1>e. ExcusesKept
  BY <1>4, <1>5, <1>a, DuesExcuse
<1>6. ASSUME NEW m \in Mail, NEW g \in Folder, RowOk(m, g) PROVE RowOk(m, g)'
  <2>1. CASE RowIn(m, syn.folder) /\ syn.mails[m] = None
    <3>1. PICK f \in Folder : f = syn.folder
      BY <1>2 DEF SyncCall
    <3>2. IsIn(m, f) => WillCreate(Past, m, f)
      BY <1>2, <2>1, <3>1, Parts DEF SynRight
    <3>3. /\ ~RowIn(m, g)' /\ (RowIn(m, g) => g = f)
          /\ IsIn(m, g)' <=> IsIn(m, g)
      BY <1>2, <1>a, <2>1, <3>1 DEF RowIn, IsIn, DeleteRows, RowsOf
    <3>4. WillCreate(Past, m, g) => ComesIn(m, g)'
      BY <1>e DEF ExcusesKept, ComesIn
    <3>5. ComesIn(m, g) => ComesIn(m, g)'
      BY <1>e DEF ExcusesKept
    <3> QED BY <1>6, <2>1, <3>1, <3>2, <3>3, <3>4, <3>5 DEF RowOk
  <2>2. CASE ~(RowIn(m, syn.folder) /\ syn.mails[m] = None)
    <3>1. rows'[m] = rows[m]
      BY <1>2, <2>2 DEF RowIn, DeleteRows, RowsOf
    <3>2. Says(rows, rows', m)
      BY <3>1 DEF Says
    <3>3. RowIsStale(m) => RowIsStale(m)'
      BY <1>1, <1>2, <1>3, <3>1 DEF RowIsStale, SyncQuiet
    <3> QED BY <1>6, <1>a, <1>e, <3>2, <3>3, OkKept
  <2> QED BY <2>1, <2>2
<1>7. ASSUME NEW m \in Mail, NEW g \in Folder, MemOk(m, g) PROVE MemOk(m, g)'
  BY <1>1, <1>7, <1>a, <1>e, OkKept
<1>8. \A g \in Folder : KnownOk(g) => KnownOk(g)'
  BY <1>a, <1>e DEF ExcusesKept, KnownOk
<1>9. pc = "store" /\ PendOk => PendOk'
  BY <1>a, <1>e, Parts, PendKept
<1>10. SuresKept /\ (Running' <=> Running)
  BY <1>1 DEF SuresKept, KnownSure, RowSure, MemSure, Running, Cached, SyncQuiet
<1> QED BY <1>6, <1>7, <1>8, <1>9, <1>10, <1>a, Parts DEF StoresRight, SuresKept

(* The folder is replaced by what was listed: it is vouched for again. *)
LEMMA SetKeeps ==
    ASSUME MirrorInv, SyncSet
    PROVE  StoresRight'
<1>1. SyncQuiet /\ UNCHANGED rows /\ syn # None /\ syn' = None /\ syn.step = "pruned"
      /\ mem' = [mem EXCEPT ![syn.folder] = syn.mails] /\ SyncReturns(syn.folder)
  BY DEF SyncQuiet, SyncSet, busVars, history
<1>2. PICK f \in Folder : f = syn.folder
  BY <1>1, Parts DEF SyncInv, StoreTypes, SyncCall
<1>a. UNCHANGED <<log, srv, srvFolders, known, pc, cur, lost>>
  BY <1>1 DEF SyncQuiet
<1>3. Past' = Past
  BY <1>1 DEF Past, SyncQuiet
<1>4. \A g \in Folder : g # f => (g \in todo <=> g \in todo') /\ (g \in fall <=> g \in fall')
  BY <1>1, <1>2 DEF SyncReturns
<1>p. pc # "store" /\ pc # "create"
  BY <1>1, Parts, SynPhase
<1>5. /\ \A m : WillMark(Past, m)' <=> WillMark(Past, m)
      /\ \A m, g : WillCreate(Past, m, g)' <=> WillCreate(Past, m, g)
      /\ \A m, g : WillDelete(Past, m, g)' <=> WillDelete(Past, m, g)
      /\ \A g : WillList(Past, g)' <=> WillList(Past, g)
  BY <1>3, <1>a, SameToCome
<1>6. /\ \A m \in Mail, g \in Folder : g # f => (CreateDue(m, g) => CreateDue(m, g)')
      /\ \A m, g : DeleteDue(m, g) => DeleteDue(m, g)'
      /\ \A m : MarkDue(m) => MarkDue(m)'
      /\ \A g : ListDue(g) => ListDue(g)'
  BY <1>1, <1>4 DEF CreateDue, DeleteDue, MarkDue, ListDue, Forward, Creates, Deletes, Marks, Lists,
     SyncQuiet
<1>7. ASSUME NEW m \in Mail
      PROVE  MemOk(m, f)' /\ RowOk(m, f)'
  <2>1. /\ mem'[f][m] = syn.mails[m]
        /\ RowIn(m, f)' <=> RowIn(m, f) /\ UNCHANGED rows[m]
        /\ IsIn(m, f)' <=> IsIn(m, f)
    BY <1>1, <1>2, <1>a, Parts DEF RowIn, IsIn
  <2>2. /\ syn.mails[m] # None =>
              /\ ~IsIn(m, f) => WillDelete(Past, m, f)
              /\ srv[m] # None /\ syn.mails[m].unread # srv[m].unread => WillMark(Past, m)
              /\ RowIn(m, f) /\ rows[m].unread = syn.mails[m].unread
        /\ syn.mails[m] = None =>
              /\ IsIn(m, f) => WillCreate(Past, m, f)
              /\ ~RowIn(m, f)
    BY <1>1, <1>2, Parts DEF SynRight
  <2>3. /\ WillCreate(Past, m, f) => ComesIn(m, f)'
        /\ WillDelete(Past, m, f) => GoesOut(m, f)'
        /\ WillMark(Past, m) => Turns(m)'
    BY <1>5 DEF ComesIn, GoesOut, Turns
  <2> QED BY <1>1, <1>a, <2>1, <2>2, <2>3 DEF MemOk, RowOk
<1>8. ASSUME NEW m \in Mail, NEW g \in Folder, g # f
      PROVE  (MemOk(m, g) => MemOk(m, g)') /\ (RowOk(m, g) => RowOk(m, g)')
  <2>1. /\ mem'[g][m] = mem[g][m] /\ UNCHANGED rows[m]
        /\ RowIn(m, g)' <=> RowIn(m, g)
        /\ IsIn(m, g)' <=> IsIn(m, g)
    BY <1>1, <1>2, <1>8, <1>a, Parts DEF RowIn, IsIn
  <2>2. /\ ComesIn(m, g) => ComesIn(m, g)'
        /\ GoesOut(m, g) => GoesOut(m, g)'
        /\ Turns(m) => Turns(m)'
    BY <1>5, <1>6, <1>8 DEF ComesIn, GoesOut, Turns
  <2>3. RowIn(m, g) /\ RowIsStale(m) => RowIsStale(m)'
    BY <1>1, <2>1 DEF RowIsStale, RowIn, SyncQuiet
  <2> QED BY <1>1, <1>a, <2>1, <2>2, <2>3 DEF MemOk, RowOk
<1>9. \A g \in Folder : KnownOk(g) => KnownOk(g)'
  BY <1>5, <1>6, <1>a DEF KnownOk, Relists
<1>10. /\ KnownSure' => KnownSure
       /\ \A g \in Folder : g # f => (RowSure(g)' => RowSure(g)) /\ (MemSure(g)' => MemSure(g))
  BY <1>1, <1>4 DEF KnownSure, RowSure, MemSure, Running, Cached, SyncQuiet
<1> QED BY <1>7, <1>8, <1>9, <1>10, <1>a, <1>p, Parts DEF StoresRight

(* A step of apply_batch changes the stores, and where it is. *)
HandlerQuiet ==
    /\ UNCHANGED <<log, srv, srvFolders, fullDone, boot, todo, allOk, missed, syn>>
    /\ UNCHANGED <<ready, lost, stage, cur, memCur, diskCur, covered>>

(* While nothing is missed, everything in the stores is to be vouched for. *)
LEMMA ApplyStep ==
    ASSUME MirrorInv, HandlerQuiet, pc \notin {"idle", "fallback"}
    PROVE  /\ ready /\ syn = None /\ Past' = Past /\ UNCHANGED <<log, srv, srvFolders>>
           /\ stage = "applying" /\ stage' = "applying" /\ ready' /\ syn' = None
           /\ StoresRight' \/ (lost = {} /\ missed = {} /\ known # {})
           /\ \A m \in Mail, f \in Folder :
                 /\ IsIn(m, f)' <=> IsIn(m, f)
                 /\ WillCreate(Past, m, f)' <=> WillCreate(Past, m, f)
                 /\ WillDelete(Past, m, f)' <=> WillDelete(Past, m, f)
           /\ \A m \in Mail : WillMark(Past, m)' <=> WillMark(Past, m)
           /\ \A f \in Folder : WillList(Past, f)' <=> WillList(Past, f)
<1>1. UNCHANGED <<log, srv, srvFolders>> /\ UNCHANGED <<boot, missed, stage, lost, syn, ready>>
  BY DEF HandlerQuiet
<1>p. Past' = Past
  BY DEF HandlerQuiet, Past
<1>2. ready /\ stage = "applying" /\ boot \in {"backfill", "prefetch"}
  BY Parts DEF PhaseInv, SyncInv, HandlerInv
<1>3. syn = None
  BY <1>2, Parts, SynPhase
<1>4. missed # {} => StoresRight'
  BY <1>1, <1>2, NothingSaid
<1>5. lost # {} => StoresRight'
  BY <1>1 DEF StoresRight
<1>6. missed = {} => known # {}
  BY <1>2, Parts DEF PhaseInv
<1>9. /\ \A m \in Mail, f \in Folder :
            /\ IsIn(m, f)' <=> IsIn(m, f)
            /\ WillCreate(Past, m, f)' <=> WillCreate(Past, m, f)
            /\ WillDelete(Past, m, f)' <=> WillDelete(Past, m, f)
      /\ \A m \in Mail : WillMark(Past, m)' <=> WillMark(Past, m)
      /\ \A f \in Folder : WillList(Past, f)' <=> WillList(Past, f)
  BY <1>1, <1>p, SameToCome DEF IsIn
<1>10. stage' = "applying" /\ ready' /\ syn' = None
  BY <1>1, <1>2, <1>3
<1>11. StoresRight' \/ (lost = {} /\ missed = {} /\ known # {})
  BY <1>4, <1>5, <1>6
<1> QED BY <1>1, <1>2, <1>3, <1>9, <1>10, <1>11, <1>p

(* What is vouched for while a batch is applied. *)
LEMMA ApplyingNow ==
    ASSUME MirrorInv, pc \notin {"idle", "fallback"}, lost = {}, missed = {}
    PROVE  /\ \A f \in Folder : KnownOk(f)
           /\ \A m \in Mail, f \in Folder : RowOk(m, f) /\ MemOk(m, f)
           /\ pc = "store" => PendOk
<1>1. ready
  BY Parts DEF SyncInv, HandlerInv
<1>2. boot \in {"backfill", "prefetch"}
  BY <1>1, Parts DEF PhaseInv
<1> QED BY <1>2, Parts DEF StoresRight, KnownSure, RowSure, MemSure, Running

(* What has to be shown of a step of apply_batch. *)
LEMMA ApplyingThen ==
    ASSUME \A f \in Folder : KnownOk(f)',
           \A m \in Mail, f \in Folder : RowOk(m, f)' /\ MemOk(m, f)',
           pc' = "store" => PendOk'
    PROVE  StoresRight'
BY DEF StoresRight

(* refresh_folder_list has the folders as they are. *)
LEMMA RefreshKeeps ==
    ASSUME MirrorInv, RefreshFolderList
    PROVE  StoresRight'
<1>1. /\ HandlerQuiet /\ pc = "refresh" /\ known' = srvFolders
      /\ mem' = PruneUnknownFolders(mem, srvFolders)
      /\ rows' = DeleteRows(rows, UNION {RowsOf(rows, f) : f \in keys \ srvFolders})
      /\ pc' = AtCreate(log[cur])
  BY DEF RefreshFolderList, HandlerQuiet, busVars, syncer, history
<1>2. SUFFICES ASSUME lost = {}, missed = {} PROVE StoresRight'
  BY <1>1, ApplyStep
<1>3. \A m \in Mail, f \in Folder : RowOk(m, f) /\ MemOk(m, f)
  BY <1>1, <1>2, ApplyingNow
<1>4. /\ ready /\ syn = None /\ UNCHANGED <<srv, srvFolders>> /\ ready' /\ syn' = None
      /\ \A m \in Mail, f \in Folder :
            /\ IsIn(m, f)' <=> IsIn(m, f)
            /\ WillCreate(Past, m, f) => ComesIn(m, f)'
            /\ WillDelete(Past, m, f) => GoesOut(m, f)'
      /\ \A m \in Mail : WillMark(Past, m) => Turns(m)'
  BY <1>1, ApplyStep DEF ComesIn, GoesOut, Turns, HandlerQuiet
<1>5. cur \in 1 .. Len(log) /\ log[cur].folders # None
  BY <1>1, Parts, BatchInHand DEF PhaseInv, SyncInv, HandlerInv
<1>6. log[cur].create = None /\ log[cur].delete = None /\ log[cur].event = "none"
  BY <1>5, Parts, OfBatch DEF Shape
<1>7. /\ \A m \in Mail, f \in Folder :
            /\ ComesIn(m, f) => WillCreate(Past, m, f)
            /\ GoesOut(m, f) => WillDelete(Past, m, f)
      /\ \A m \in Mail : Turns(m) => WillMark(Past, m)
  BY <1>6, StoreAssumption
  DEF ComesIn, GoesOut, Turns, CreateDue, DeleteDue, MarkDue, Creates, Deletes, Marks
<1>8. pc' = "fallback"
  BY <1>1, <1>6 DEF AtCreate, AtDelete, AtMail
<1>9. ASSUME NEW m \in Mail, NEW f \in Folder PROVE MemOk(m, f)' /\ RowOk(m, f)'
  <2>1. mem'[f][m] = IF f \in srvFolders THEN mem[f][m] ELSE None
    BY <1>1, Parts, PruneInMem
  <2>2. /\ RowIn(m, f)' => RowIn(m, f) /\ rows'[m] = rows[m]
        /\ f \in srvFolders /\ RowIn(m, f) => RowIn(m, f)'
    BY <1>1 DEF RowIn, DeleteRows, RowsOf
  <2>3. IsIn(m, f) => f \in srvFolders
    BY Parts DEF LogInv, IsIn
  <2>4. /\ ComesIn(m, f) => ComesIn(m, f)'
        /\ GoesOut(m, f) => GoesOut(m, f)'
        /\ Turns(m) => Turns(m)'
        /\ IsIn(m, f)' <=> IsIn(m, f)
    BY <1>4, <1>7
  <2>5. MemOk(m, f) /\ RowOk(m, f)
    BY <1>3
  <2>6. MemOk(m, f)'
    BY <1>4, <2>1, <2>3, <2>4, <2>5 DEF MemOk
  <2>7. f \in srvFolders /\ RowIn(m, f) /\ RowIsStale(m) => RowIsStale(m)'
    BY <1>1, <1>4, <2>1, <2>2 DEF RowIsStale, RowIn
  <2>8. RowOk(m, f)'
    BY <1>1, <1>4, <2>2, <2>3, <2>4, <2>5, <2>7 DEF RowOk
  <2> QED BY <2>6, <2>8
<1>10. \A f \in Folder : KnownOk(f)'
  BY <1>1, <1>4 DEF KnownOk
<1> QED BY <1>8, <1>9, <1>10, ApplyingThen

(* The CREATE of a batch is on its way to the stores, is left to a listing, *)
(* or is out of date.                                                       *)
LEMMA CreateKeeps ==
    ASSUME MirrorInv, HandlerQuiet, pc = "create", UNCHANGED <<mem, known>>, fall \subseteq fall',
           \A m \in Mail : Says(rows, rows', m),
           pc' = "store" \/ pc' = AtDelete(log[cur]),
           lost = {} /\ missed = {} =>
              /\ \/ pc' = "store"
                 \/ log[cur].create \in fall' \cap known
                 \/ ~IsIn(log[cur].mail, log[cur].create)
              /\ pc' = "store" /\ srv[log[cur].mail] # None
                 /\ pend'.unread # srv[log[cur].mail].unread => WillMark(Past, log[cur].mail)
    PROVE  StoresRight'
<1>1. SUFFICES ASSUME lost = {}, missed = {} PROVE StoresRight'
  BY ApplyStep
<1>2. /\ ready /\ syn = None /\ UNCHANGED <<log, srv, srvFolders>> /\ ready' /\ syn' = None
      /\ stage = "applying" /\ stage' = "applying" /\ UNCHANGED <<cur, memCur>>
  BY ApplyStep DEF HandlerQuiet
<1>3. cur \in 1 .. Len(log) /\ log[cur] \in BatchRecord
  BY Parts, MailInHand
<1>4. PICK n \in Mail : n = log[cur].mail
  BY Parts, MailInHand
<1>5. PICK d \in Folder : d = log[cur].create
  BY Parts, MailInHand
<1>6. Forward' <=> Forward
  BY <1>2 DEF Forward
<1>7. ASSUME NEW m \in Mail, NEW f \in Folder
      PROVE  /\ ComesIn(m, f) => ComesIn(m, f)' \/ ~IsIn(m, f)
             /\ GoesOut(m, f) => GoesOut(m, f)'
             /\ Turns(m) => Turns(m)'
             /\ Relists(f) => Relists(f)'
  <2>1. /\ WillCreate(Past, m, f) => ComesIn(m, f)'
        /\ WillDelete(Past, m, f) => GoesOut(m, f)'
        /\ WillMark(Past, m) => Turns(m)'
        /\ WillList(Past, f) => Relists(f)'
    BY ApplyStep DEF ComesIn, GoesOut, Turns, Relists
  <2>2. CreateDue(m, f) => CreateDue(m, f)' \/ ~IsIn(m, f)
    BY <1>1, <1>2, <1>4, <1>5, <1>6 DEF CreateDue, Creates
  <2>3. DeleteDue(m, f) => DeleteDue(m, f)'
    BY <1>2, <1>6, StoreAssumption DEF DeleteDue, Deletes, AtDelete
  <2> QED BY <2>1, <2>2, <2>3 DEF ComesIn, GoesOut, Turns, Relists, MarkDue, ListDue
<1>8. ASSUME NEW m \in Mail, NEW f \in Folder PROVE MemOk(m, f)' /\ RowOk(m, f)'
  <2>1. MemOk(m, f) /\ RowOk(m, f)
    BY <1>1, ApplyingNow
  <2>2. /\ mem'[f][m] = mem[f][m]
        /\ IsIn(m, f)' <=> IsIn(m, f)
        /\ RowIn(m, f)' <=> RowIn(m, f)
        /\ RowIn(m, f) => rows'[m].unread = rows[m].unread
    BY <1>2 DEF Says, RowIn, IsIn
  <2>3. RowIsStale(m) => RowIsStale(m)'
    <3>1. Says(rows, rows', m)
      OBVIOUS
    <3> QED BY <1>2, <3>1 DEF RowIsStale, Says
  <2>4. MemOk(m, f)'
    BY <1>2, <1>7, <2>1, <2>2 DEF MemOk
  <2>5. RowOk(m, f)'
    BY <1>2, <1>7, <2>1, <2>2, <2>3 DEF RowOk
  <2> QED BY <2>4, <2>5
<1>9. ASSUME NEW f \in Folder PROVE KnownOk(f)'
  <2>1. KnownOk(f)
    BY <1>1, ApplyingNow
  <2>2. Relists(f) => Relists(f)'
    <3>1. WillList(Past, f) => Relists(f)'
      BY ApplyStep DEF Relists
    <3> QED BY <3>1 DEF Relists, ListDue
  <2> QED BY <1>2, <2>1, <2>2 DEF KnownOk
<1>10. ASSUME pc' = "store" PROVE PendOk'
  <2>1. srv[n] # None /\ pend'.unread # srv[n].unread => Turns(n)'
    BY <1>1, <1>4, <1>10, ApplyStep DEF Turns
  <2>2. Turns(log[cur].mail)' <=> Turns(n)'
    BY <1>2, <1>4 DEF Turns, WillMark, MarkDue, Marks
  <2> QED BY <1>2, <1>4, <2>1, <2>2 DEF PendOk
<1> QED BY <1>8, <1>9, <1>10, ApplyingThen

(* A folder that is not in the list: nothing is in it any more. *)
LEMMA UnknownKeeps ==
    ASSUME MirrorInv, CreateUnknown
    PROVE  StoresRight'
<1>1. /\ HandlerQuiet /\ pc = "create" /\ UNCHANGED <<mem, known, rows>> /\ fall \subseteq fall'
      /\ pc' = AtDelete(log[cur]) /\ log[cur].create \notin known
  BY DEF CreateUnknown, HandlerQuiet, busVars, disk, memory, syncer, history
<1>2. PICK d \in Folder : d = log[cur].create
  BY <1>1, Parts, MailInHand
<1>3. ASSUME lost = {}, missed = {}, IsIn(log[cur].mail, d) PROVE FALSE
  <2>1. Past = cur /\ FoldersTold(cur) /\ log[cur].mail \in Mail
    BY <1>1, Parts, MailInHand
  <2>2. d \in srvFolders
    BY <1>3, <2>1, Parts DEF LogInv, IsIn
  <2>3. WillList(Past, d)
    BY <1>1, <1>2, <1>3, <2>2, ApplyingNow DEF KnownOk, Relists, ListDue
  <2> QED BY <1>2, <2>1, <2>2, <2>3 DEF FoldersTold
<1>4. \A m \in Mail : Says(rows, rows', m)
  BY <1>1 DEF Says
<1>5. pc' # "store"
  BY <1>1 DEF AtDelete, AtMail
<1> QED BY <1>1, <1>2, <1>3, <1>4, <1>5, CreateKeeps

(* A failure is left to a listing. *)
LEMMA CreateFailsKeeps ==
    ASSUME MirrorInv, CreateFails
    PROVE  StoresRight'
<1>1. /\ HandlerQuiet /\ pc = "create" /\ UNCHANGED <<mem, known, rows>> /\ fall \subseteq fall'
      /\ pc' = AtDelete(log[cur]) /\ log[cur].create \in fall' \cap known
  BY DEF CreateFails, HandlerQuiet, busVars, disk, memory, syncer, history
<1>4. \A m \in Mail : Says(rows, rows', m)
  BY <1>1 DEF Says
<1>5. pc' # "store"
  BY <1>1 DEF AtDelete, AtMail
<1> QED BY <1>1, <1>4, <1>5, CreateKeeps

(* A clone is as right as what it is a clone of. *)
LEMMA HitKeeps ==
    ASSUME MirrorInv, CreateHit
    PROVE  StoresRight'
<1>1. /\ HandlerQuiet /\ pc = "create" /\ UNCHANGED <<mem, known, rows, fall>>
      /\ pc' = "store"
  BY DEF CreateHit, HandlerQuiet, busVars, disk, memory, syncer, history
<1>2. PICK n \in Mail : n = log[cur].mail
  BY <1>1, Parts, MailInHand
<1>3. PICK g \in Folder : mem[g][n] # None /\ pend' = mem[g][n]
  BY <1>2 DEF CreateHit, FindMailAnywhere
<1>4. ASSUME lost = {}, missed = {}, srv[n] # None, pend'.unread # srv[n].unread
      PROVE  WillMark(Past, n)
  BY <1>1, <1>3, <1>4, ApplyingNow DEF MemOk, Turns, MarkDue
<1>5. \A m \in Mail : Says(rows, rows', m)
  BY <1>1 DEF Says
<1> QED BY <1>1, <1>2, <1>4, <1>5, CreateKeeps

(* The mail of the batch is as the batch says. *)
LEMMA InlineKeeps ==
    ASSUME MirrorInv, NEW body \in BOOLEAN, CreateInline(body)
    PROVE  StoresRight'
<1>1. /\ HandlerQuiet /\ pc = "create" /\ UNCHANGED <<mem, known, fall>>
      /\ pc' = "store" /\ log[cur].new
      /\ pend' = [uid |-> 0, unread |-> log[cur].unread, body |-> body]
      /\ rows' = rows \/ rows' = MarkHasDetails(rows, log[cur].mail)
  BY DEF CreateInline, HandlerQuiet, busVars, memory, syncer, history
<1>2. PICK n \in Mail : n = log[cur].mail
  BY <1>1, Parts, MailInHand
<1>3. Past = cur /\ MarksTold(cur)
  BY <1>1, Parts, MailInHand
<1>4. ASSUME srv[n] # None, pend'.unread # srv[n].unread
      PROVE  WillMark(Past, n)
  BY <1>1, <1>2, <1>3, <1>4 DEF MarksTold
<1>5. \A m \in Mail : Says(rows, rows', m)
  BY <1>1, <1>2, Parts, RowsSay DEF Says
<1> QED BY <1>1, <1>2, <1>4, <1>5, CreateKeeps

(* The mail that is loaded is as the server has it; or there is none. *)
LEMMA MissKeeps ==
    ASSUME MirrorInv, CreateMiss
    PROVE  StoresRight'
<1>1. /\ HandlerQuiet /\ pc = "create" /\ UNCHANGED <<mem, known, rows, fall>>
      /\ \/ srv[log[cur].mail] = None /\ pc' = AtDelete(log[cur])
         \/ /\ pc' = "store"
            /\ pend' = [uid |-> 0, unread |-> srv[log[cur].mail].unread, body |-> FALSE]
  BY DEF CreateMiss, HandlerQuiet, busVars, disk, memory, syncer, history
<1>2. AtDelete(log[cur]) # "store"
  BY DEF AtDelete, AtMail
<1>3. \A m \in Mail : Says(rows, rows', m)
  BY <1>1 DEF Says
<1>4. CASE pc' = "store"
  <2>1. pend'.unread = srv[log[cur].mail].unread
    BY <1>1, <1>2, <1>4
  <2> QED BY <1>1, <1>3, <1>4, <2>1, CreateKeeps
<1>5. CASE pc' # "store"
  <2>1. ~IsIn(log[cur].mail, log[cur].create)
    BY <1>1, <1>5 DEF IsIn
  <2> QED BY <1>1, <1>3, <1>5, <2>1, CreateKeeps
<1> QED BY <1>4, <1>5

(* What is stored is what the batch says, but for what later ones tell. *)
LEMMA AssignKeeps ==
    ASSUME MirrorInv, AssignUidAndUpsert
    PROVE  StoresRight'
<1>1. /\ HandlerQuiet /\ pc = "store" /\ UNCHANGED <<known, fall>> /\ pc' = AtDelete(log[cur])
  BY DEF AssignUidAndUpsert, HandlerQuiet, busVars, syncer, history
<1>2. SUFFICES ASSUME lost = {}, missed = {} PROVE StoresRight'
  BY <1>1, ApplyStep
<1>3. PICK n \in Mail : n = log[cur].mail
  BY <1>1, Parts, MailInHand
<1>4. PICK d \in Folder : d = log[cur].create
  BY <1>1, Parts, MailInHand
<1>5. pend \in Entry /\ nextUid[d] \in Nat /\ Past = cur /\ PlacesTold(cur) /\ d # None
  BY <1>1, Parts, MailInHand, StoreAssumption DEF SyncInv, HandlerInv, StoreTypes
<1>6. PICK e \in Entry : e = [pend EXCEPT !.uid = nextUid[d]] /\ e.unread = pend.unread
  <2>1. \A p \in Entry, u \in Nat :
           [p EXCEPT !.uid = u] \in Entry /\ [p EXCEPT !.uid = u].unread = p.unread
    BY DEF Entry
  <2> QED BY <1>5, <2>1
<1>7. /\ mem' = UpsertMailInFolder(mem, d, n, e)
      /\ rows' = UpsertMailMetadata(rows, n, MailToMetadata(d, e))
  BY <1>3, <1>4, <1>6 DEF AssignUidAndUpsert
<1>8. \A g \in Folder, m \in Mail : mem'[g][m] = IF g = d /\ m = n THEN e ELSE mem[g][m]
  BY <1>7, Parts, UpsertInMem
<1>9. /\ \A m \in Mail : m # n => rows'[m] = rows[m]
      /\ rows'[n] # None /\ rows'[n].folder = d /\ rows'[n].unread = pend.unread
  <2>1. PICK t \in Row : t = MailToMetadata(d, e) /\ t.folder = d /\ t.unread = e.unread
    BY MetadataSays
  <2> QED BY <1>6, <1>7, <2>1, Parts, UpsertSays
<1>10. /\ ~IsIn(n, d) => WillDelete(Past, n, d)
       /\ \A g \in Folder : g # d /\ IsIn(n, g) => WillCreate(Past, n, g)
       /\ srv[n] # None /\ pend.unread # srv[n].unread => WillMark(Past, n)
  <2>1. srv[n] # None /\ pend.unread # srv[n].unread => WillMark(Past, n)
    BY <1>1, <1>2, <1>3, ApplyingNow DEF PendOk, Turns, MarkDue
  <2> QED BY <1>3, <1>4, <1>5, <2>1 DEF PlacesTold
<1>11. /\ ready /\ syn = None /\ UNCHANGED <<log, srv, srvFolders>> /\ ready' /\ syn' = None
       /\ stage = "applying" /\ stage' = "applying" /\ UNCHANGED <<cur, memCur>>
  BY <1>1, ApplyStep DEF HandlerQuiet
<1>12. ASSUME NEW m \in Mail, NEW f \in Folder
       PROVE  /\ WillCreate(Past, m, f) => ComesIn(m, f)'
              /\ WillDelete(Past, m, f) => GoesOut(m, f)'
              /\ WillMark(Past, m) => Turns(m)'
              /\ WillList(Past, f) => Relists(f)'
  BY <1>1, ApplyStep DEF ComesIn, GoesOut, Turns, Relists
<1>13. ASSUME NEW m \in Mail, NEW f \in Folder
       PROVE  /\ m # n \/ f # d => (ComesIn(m, f) => ComesIn(m, f)')
              /\ GoesOut(m, f) => GoesOut(m, f)'
              /\ Turns(m) => Turns(m)'
  <2>1. DeleteDue(m, f) => DeleteDue(m, f)'
    BY <1>1, <1>11, StoreAssumption DEF DeleteDue, Deletes, AtDelete, Forward
  <2>2. CreateDue(m, f) => m = n /\ f = d
    BY <1>3, <1>4 DEF CreateDue, Creates
  <2> QED BY <1>1, <1>12, <2>1, <2>2 DEF ComesIn, GoesOut, Turns, MarkDue
<1>14. ASSUME NEW m \in Mail, NEW f \in Folder PROVE MemOk(m, f)' /\ RowOk(m, f)'
  <2>1. MemOk(m, f) /\ RowOk(m, f)
    BY <1>1, <1>2, ApplyingNow
  <2>2. IsIn(m, f)' <=> IsIn(m, f)
    BY <1>11 DEF IsIn
  <2>3. CASE m = n /\ f = d
    <3>1. mem'[f][m] = e /\ e # None /\ RowIn(m, f)' /\ rows'[m].unread = pend.unread
      BY <1>8, <1>9, <2>3, NoneAssumption DEF RowIn
    <3>2. /\ ~IsIn(m, f) => GoesOut(m, f)'
          /\ srv[m] # None /\ pend.unread # srv[m].unread => Turns(m)'
      BY <1>10, <1>12, <2>3
    <3> QED BY <1>6, <1>11, <2>2, <3>1, <3>2 DEF MemOk, RowOk
  <2>4. CASE m # n
    <3>1. mem'[f][m] = mem[f][m] /\ rows'[m] = rows[m]
      BY <1>8, <1>9, <2>4
    <3>2. RowIn(m, f)' <=> RowIn(m, f)
      BY <3>1 DEF RowIn
    <3>3. RowIn(m, f) /\ RowIsStale(m) => RowIsStale(m)'
      BY <1>1, <1>11, <3>1 DEF RowIsStale, RowIn
    <3> QED BY <1>1, <1>11, <1>13, <2>1, <2>2, <2>4, <3>1, <3>2, <3>3 DEF MemOk, RowOk
  <2>5. CASE m = n /\ f # d
    <3>1. mem'[f][m] = mem[f][m] /\ ~RowIn(m, f)'
      BY <1>8, <1>9, <2>5 DEF RowIn
    <3>2. IsIn(m, f) => ComesIn(m, f)'
      BY <1>10, <1>12, <2>5
    <3> QED BY <1>1, <1>11, <1>13, <2>1, <2>2, <2>5, <3>1, <3>2 DEF MemOk, RowOk
  <2> QED BY <2>3, <2>4, <2>5
<1>15. ASSUME NEW f \in Folder PROVE KnownOk(f)'
  <2>1. Relists(f) => Relists(f)'
    <3>1. WillList(Past, f) => Relists(f)'
      BY <1>1, ApplyStep DEF Relists
    <3> QED BY <1>1, <3>1 DEF Relists, ListDue
  <2> QED BY <1>1, <1>2, <1>11, <2>1, ApplyingNow DEF KnownOk
<1>16. pc' # "store"
  BY <1>1 DEF AtDelete, AtMail
<1> QED BY <1>14, <1>15, <1>16, ApplyingThen

(* A mail that leaves a folder is not there, or comes back with a later     *)
(* batch; its row leaves with it, or is known to be stale.                  *)
LEMMA DeleteKeeps ==
    ASSUME MirrorInv, EntryDelete
    PROVE  StoresRight'
<1>1. /\ HandlerQuiet /\ pc = "delete" /\ UNCHANGED <<known, fall>> /\ pc' = AtMail(log[cur])
  BY DEF EntryDelete, HandlerQuiet, busVars, syncer, history
<1>2. SUFFICES ASSUME lost = {}, missed = {}, known # {} PROVE StoresRight'
  BY <1>1, ApplyStep
<1>3. PICK n \in Mail : n = log[cur].mail
  BY <1>1, Parts, MailInHand
<1>4. PICK d \in Folder : d = log[cur].delete
  BY <1>1, Parts, MailInHand
<1>5. cur \in 1 .. Len(log) /\ Past = cur /\ Deletes(cur, n, d)
  BY <1>1, <1>3, <1>4, Parts, MailInHand DEF Deletes
<1>6. \A g \in Folder, m \in Mail :
          mem'[g][m] = IF d \in known /\ g = d /\ m = n THEN None ELSE mem[g][m]
  <2>1. mem' = IF d \in known THEN RemoveMailFromFolder(mem, d, n) ELSE mem
    BY <1>3, <1>4 DEF EntryDelete
  <2> QED BY <2>1, Parts, RemoveInMem
<1>7. /\ \A m \in Mail : m # n => rows'[m] = rows[m]
      /\ \/ rows'[n] = rows[n]
         \/ rows'[n] = None /\ d \in known /\ \A g \in Folder : mem'[g][n] = None
  <2> DEFINE left == RemoveMailFromFolder(mem, d, n)
             drop == IF d \in known /\ FindMailAnywhere(left, n) = {} THEN {n} ELSE {}
  <2>1. rows' = DeleteRows(rows, drop) /\ mem' = IF d \in known THEN left ELSE mem
    BY <1>3, <1>4 DEF EntryDelete
  <2> HIDE DEF left
  <2> QED BY <2>1 DEF DeleteRows, FindMailAnywhere
<1>8. /\ ready /\ syn = None /\ UNCHANGED <<log, srv, srvFolders>> /\ ready' /\ syn' = None
      /\ stage = "applying" /\ stage' = "applying" /\ UNCHANGED <<cur, memCur>>
  BY <1>1, ApplyStep DEF HandlerQuiet
<1>9. ASSUME NEW m \in Mail, NEW f \in Folder
      PROVE  /\ WillCreate(Past, m, f) => ComesIn(m, f)'
             /\ WillDelete(Past, m, f) => GoesOut(m, f)'
             /\ WillMark(Past, m) => Turns(m)'
             /\ WillList(Past, f) => Relists(f)'
  BY <1>1, ApplyStep DEF ComesIn, GoesOut, Turns, Relists
<1>10. ASSUME NEW m \in Mail, NEW f \in Folder
       PROVE  /\ ComesIn(m, f) => ComesIn(m, f)'
              /\ m # n \/ f # d => (GoesOut(m, f) => GoesOut(m, f)')
              /\ Turns(m) => Turns(m)'
              /\ IsIn(m, f)' <=> IsIn(m, f)
  <2>1. CreateDue(m, f) => CreateDue(m, f)'
    BY <1>1, <1>8 DEF CreateDue, Creates, Forward
  <2>2. DeleteDue(m, f) => m = n /\ f = d
    BY <1>3, <1>4 DEF DeleteDue, Deletes
  <2>3. IsIn(m, f)' <=> IsIn(m, f)
    BY <1>8 DEF IsIn
  <2> QED BY <1>1, <1>9, <2>1, <2>2, <2>3 DEF ComesIn, GoesOut, Turns, MarkDue
<1>11. ASSUME NEW m \in Mail, rows'[m] = rows[m], RowIsStale(m)
       PROVE  RowIsStale(m)'
  <2>1. rows[m].folder \in Folder
    BY <1>11, Parts, Typed DEF RowIsStale
  <2> QED BY <1>1, <1>6, <1>8, <1>11, <2>1 DEF RowIsStale
<1>12. MemOk(n, d)' /\ (IsIn(n, d) /\ d \in known => ComesIn(n, d)')
  <2>1. CASE d \in known
    <3>1. IsIn(n, d) => WillCreate(Past, n, d)
      BY <1>5, Parts, MovesOn
    <3>2. mem'[d][n] = None
      BY <1>6, <2>1
    <3> QED BY <1>9, <1>10, <3>1, <3>2 DEF MemOk
  <2>2. CASE d \notin known
    <3>1. mem[d][n] = None
      BY <2>2, Parts DEF MemoryInv
    <3>2. mem'[d][n] = None
      BY <1>6, <2>2, <3>1
    <3>3. IsIn(n, d) => ComesIn(n, d)'
      BY <1>1, <1>2, <1>10, <3>1, ApplyingNow DEF MemOk
    <3> QED BY <1>10, <2>2, <3>2, <3>3 DEF MemOk
  <2> QED BY <2>1, <2>2
<1>13. ASSUME NEW m \in Mail, NEW f \in Folder PROVE MemOk(m, f)'
  <2>1. CASE m = n /\ f = d
    BY <1>12, <2>1
  <2>2. CASE m # n \/ f # d
    <3>1. MemOk(m, f) /\ mem'[f][m] = mem[f][m]
      BY <1>1, <1>2, <1>6, <2>2, ApplyingNow
    <3> QED BY <1>8, <1>10, <2>2, <3>1 DEF MemOk
  <2> QED BY <2>1, <2>2
<1>14. ASSUME NEW m \in Mail, NEW f \in Folder PROVE RowOk(m, f)'
  <2>1. RowOk(m, f)
    BY <1>1, <1>2, ApplyingNow
  <2>2. CASE rows'[m] = rows[m] /\ (m # n \/ f # d)
    <3>1. RowIn(m, f)' <=> RowIn(m, f)
      BY <2>2 DEF RowIn
    <3> QED BY <1>1, <1>8, <1>10, <1>11, <2>1, <2>2, <3>1 DEF RowOk
  <2>3. CASE rows'[m] = rows[m] /\ m = n /\ f = d /\ d \in known
    <3>1. RowIn(m, f)' <=> RowIn(m, f)
      BY <2>3 DEF RowIn
    <3>2. RowIn(m, f)' => RowIsStale(m)'
      BY <1>1, <1>6, <1>8, <2>3 DEF RowIsStale, RowIn
    <3> QED BY <1>1, <1>8, <1>10, <1>12, <2>1, <2>3, <3>1, <3>2 DEF RowOk
  <2>4. CASE rows'[m] = rows[m] /\ m = n /\ f = d /\ d \notin known
    <3>1. RowIn(m, f)' <=> RowIn(m, f)
      BY <2>4 DEF RowIn
    <3>2. RowIn(m, f) => f \notin srvFolders
      BY <1>2, <2>4, Parts DEF MemoryInv
    <3> QED BY <1>1, <1>8, <1>10, <2>1, <2>4, <3>1, <3>2 DEF RowOk
  <2>5. CASE m = n /\ rows'[n] = None /\ mem'[f][n] = None
    <3>1. ~RowIn(m, f)'
      BY <2>5 DEF RowIn
    <3>2. IsIn(m, f)' => ComesIn(m, f)'
      BY <1>13, <2>5 DEF MemOk
    <3> QED BY <3>1, <3>2 DEF RowOk
  <2> QED BY <1>7, <2>2, <2>3, <2>4, <2>5
<1>15. ASSUME NEW f \in Folder PROVE KnownOk(f)'
  <2>1. Relists(f) => Relists(f)'
    <3>1. WillList(Past, f) => Relists(f)'
      BY <1>1, ApplyStep DEF Relists
    <3> QED BY <1>1, <3>1 DEF Relists, ListDue
  <2> QED BY <1>1, <1>2, <1>8, <2>1, ApplyingNow DEF KnownOk
<1>16. pc' # "store"
  BY <1>1 DEF AtMail
<1> QED BY <1>13, <1>14, <1>15, <1>16, ApplyingThen

(* A mail is as its event says, but for what later batches tell, or as the  *)
(* server has it; a mail that is forgotten is nowhere.                      *)
LEMMA MailKeeps ==
    ASSUME MirrorInv, MailDelete \/ \E inline \in BOOLEAN : MailUpdate(inline)
    PROVE  StoresRight'
<1>1. HandlerQuiet /\ pc = "mail" /\ UNCHANGED <<known, fall>> /\ pc' = "fallback"
  BY DEF MailDelete, MailUpdate, HandlerQuiet, busVars, syncer, history
<1>2. SUFFICES ASSUME lost = {}, missed = {} PROVE StoresRight'
  BY <1>1, ApplyStep
<1>3. PICK n \in Mail : n = log[cur].mail
  BY <1>1, Parts, MailInHand
<1>4. /\ Past = cur /\ MarksTold(cur) /\ log[cur].create = None /\ log[cur].unread \in BOOLEAN
  <2>1. log[cur] \in BatchRecord /\ Shape(log[cur]) /\ Past = cur /\ MarksTold(cur)
    BY <1>1, Parts, MailInHand
  <2>2. log[cur].event \in {"update", "delete"}
    BY DEF MailDelete, MailUpdate
  <2> QED BY <2>1, <2>2 DEF Shape, BatchRecord
<1>5. \/ srv[n] = None /\ Forget(n)
      \/ \E u \in BOOLEAN :
            /\ Refresh(n, u)
            /\ srv[n] # None /\ u # srv[n].unread => WillMark(Past, n)
  <2>1. CASE MailDelete
    BY <1>3, <1>4, <2>1 DEF MailDelete, MarksTold
  <2>2. ASSUME NEW inline \in BOOLEAN, MailUpdate(inline)
        PROVE  \/ srv[n] = None /\ Forget(n)
               \/ \E u \in BOOLEAN :
                     /\ Refresh(n, u)
                     /\ srv[n] # None /\ u # srv[n].unread => WillMark(Past, n)
    <3>1. \/ inline /\ Refresh(n, log[cur].unread)
          \/ srv[n] # None /\ Refresh(n, srv[n].unread)
          \/ srv[n] = None /\ Forget(n)
      BY <1>3, <2>2 DEF MailUpdate
    <3>2. srv[n] # None => srv[n].unread \in BOOLEAN
      BY Parts DEF SyncInv, ServerInv, Place
    <3>3. srv[n] # None /\ log[cur].unread # srv[n].unread => WillMark(Past, n)
      BY <1>3, <1>4, <2>2 DEF MailUpdate, MarksTold
    <3> QED BY <1>4, <3>1, <3>2, <3>3
  <2> QED BY <2>1, <2>2
<1>6. /\ ready /\ syn = None /\ UNCHANGED <<log, srv, srvFolders>> /\ ready' /\ syn' = None
      /\ stage = "applying" /\ stage' = "applying" /\ UNCHANGED <<cur, memCur>>
  BY <1>1, ApplyStep DEF HandlerQuiet
<1>7. ASSUME NEW m \in Mail, NEW f \in Folder
      PROVE  /\ ComesIn(m, f) => ComesIn(m, f)'
             /\ GoesOut(m, f) => GoesOut(m, f)'
             /\ m # n => (Turns(m) => Turns(m)')
             /\ WillMark(Past, m) => Turns(m)'
             /\ Relists(f) => Relists(f)'
             /\ IsIn(m, f)' <=> IsIn(m, f)
  <2>1. /\ WillCreate(Past, m, f) => ComesIn(m, f)'
        /\ WillDelete(Past, m, f) => GoesOut(m, f)'
        /\ WillMark(Past, m) => Turns(m)'
        /\ WillList(Past, f) => Relists(f)'
    BY <1>1, ApplyStep DEF ComesIn, GoesOut, Turns, Relists
  <2>2. ~CreateDue(m, f) /\ ~DeleteDue(m, f) /\ ~ListDue(f) /\ (MarkDue(m) => m = n)
    BY <1>1, <1>3, <1>4, StoreAssumption DEF CreateDue, DeleteDue, ListDue, MarkDue, Creates, Marks
  <2>3. IsIn(m, f)' <=> IsIn(m, f)
    BY <1>6 DEF IsIn
  <2> QED BY <2>1, <2>2, <2>3 DEF ComesIn, GoesOut, Turns, Relists
<1>8. ASSUME NEW m \in Mail, NEW f \in Folder, m # n PROVE MemOk(m, f)' /\ RowOk(m, f)'
  <2>1. MemOk(m, f) /\ RowOk(m, f)
    BY <1>1, <1>2, ApplyingNow
  <2>2. rows'[m] = rows[m] /\ \A g \in Folder : mem'[g][m] = mem[g][m]
    <3>1. CASE Forget(n)
      <4>1. rows'[m] = rows[m]
        BY <1>8, <3>1 DEF Forget, DeleteRows
      <4>2. \A g \in Folder : mem'[g][m] = mem[g][m]
        BY <1>8, <3>1, Parts, RemoveInMem DEF Forget
      <4> QED BY <4>1, <4>2
    <3>2. ASSUME NEW u \in BOOLEAN, Refresh(n, u)
          PROVE  rows'[m] = rows[m] /\ \A g \in Folder : mem'[g][m] = mem[g][m]
      <4>1. rows'[m] = rows[m]
        BY <1>8, <3>2, Parts, RowsSay DEF Refresh
      <4>2. \A g \in Folder : mem'[g][m] = mem[g][m]
        BY <1>8, <3>2, Parts, RefreshInMem DEF Refresh
      <4> QED BY <4>1, <4>2
    <3> QED BY <1>5, <3>1, <3>2
  <2>3. RowIn(m, f)' <=> RowIn(m, f)
    BY <2>2 DEF RowIn
  <2>4. RowIn(m, f) /\ RowIsStale(m) => RowIsStale(m)'
    BY <1>1, <1>6, <2>2 DEF RowIsStale, RowIn
  <2> QED BY <1>1, <1>6, <1>7, <1>8, <2>1, <2>2, <2>3, <2>4 DEF MemOk, RowOk
<1>9. ASSUME NEW f \in Folder PROVE MemOk(n, f)' /\ RowOk(n, f)'
  <2>1. CASE srv[n] = None /\ Forget(n)
    <3>1. rows'[n] = None /\ mem'[f][n] = None
      BY <2>1, Parts, RemoveInMem DEF Forget, DeleteRows
    <3>2. ~IsIn(n, f)' /\ ~RowIn(n, f)'
      BY <1>6, <2>1, <3>1 DEF IsIn, RowIn
    <3> QED BY <3>1, <3>2 DEF MemOk, RowOk
  <2>2. ASSUME NEW u \in BOOLEAN, Refresh(n, u),
               srv[n] # None /\ u # srv[n].unread => WillMark(Past, n)
        PROVE  MemOk(n, f)' /\ RowOk(n, f)'
    <3>1. MemOk(n, f) /\ RowOk(n, f)
      BY <1>1, <1>2, ApplyingNow
    <3>2. /\ rows'[n] # None <=> rows[n] # None
          /\ rows[n] # None => rows'[n].folder = rows[n].folder /\ rows'[n].unread = u
      BY <2>2, Parts, RowsSay DEF Refresh
    <3>3. \A g \in Folder :
             /\ mem'[g][n] # None <=> mem[g][n] # None
             /\ mem[g][n] # None => mem'[g][n].unread = u
      BY <2>2, Parts, RefreshInMem DEF Refresh
    <3>4. RowIn(n, f)' <=> RowIn(n, f)
      BY <3>2 DEF RowIn
    <3>5. RowIn(n, f) /\ RowIsStale(n) => RowIsStale(n)'
      BY <1>1, <1>6, <3>2, <3>3 DEF RowIsStale, RowIn
    <3>6. srv'[n] # None /\ u # srv'[n].unread => Turns(n)'
      BY <1>6, <1>7, <2>2
    <3>7. MemOk(n, f)'
      BY <1>6, <1>7, <3>1, <3>3, <3>6 DEF MemOk
    <3>8. RowIn(n, f)' => rows'[n].unread = u
      BY <3>2, <3>4 DEF RowIn
    <3> QED BY <1>1, <1>6, <1>7, <3>1, <3>4, <3>5, <3>6, <3>7, <3>8 DEF RowOk
  <2> QED BY <1>5, <2>1, <2>2
<1>10. ASSUME NEW f \in Folder PROVE KnownOk(f)'
  <2>1. Relists(f) => Relists(f)'
    <3>1. WillList(Past, f) => Relists(f)'
      BY <1>1, ApplyStep DEF Relists
    <3> QED BY <1>1, <3>1 DEF Relists, ListDue
  <2> QED BY <1>1, <1>2, <1>6, <2>1, ApplyingNow DEF KnownOk
<1> QED BY <1>1, <1>8, <1>9, <1>10, ApplyingThen

-----------------------------------------------------------------------------
(* The invariant.                                                           *)

(* The first start finds stores that promise nothing. *)
LEMMA MirrorInit == Init => MirrorInv
<1> SUFFICES ASSUME Init PROVE MirrorInv
  OBVIOUS
<1>1. SyncInv /\ LogInv
  BY SyncInitInv, LogInit
<1>2. /\ ~up /\ ~ready /\ stage = "idle" /\ cur = 0 /\ chan = << >>
      /\ boot = "off" /\ pc = "idle" /\ known = {} /\ todo = {} /\ syn = None
      /\ fullDone = FALSE
      /\ \A m \in Mail : rows[m] = None /\ \A f \in Folder : mem[f][m] = None
  BY DEF Init, BusInit, EmptyMem, NoMails
<1>3. OrderInv /\ PhaseInv
  BY <1>2 DEF OrderInv, PhaseInv
<1>4. MemoryInv /\ SynRight
  BY <1>2 DEF MemoryInv, SynRight, RowIn
<1>5. StoresRight
  BY <1>2 DEF StoresRight, KnownSure, RowSure, MemSure, Cached, Running
<1> QED BY <1>1, <1>3, <1>4, <1>5 DEF MirrorInv

(* Every step but a change of the account leaves the stores right. *)
LEMMA StoresStep ==
    ASSUME MirrorInv, [Next]_vars, ~Server
    PROVE  StoresRight'
<1>1. CASE SyncFolder
  BY <1>1, SyncListKeeps, SyncFailsKeeps, UpsertKeeps, PruneKeeps, SetKeeps DEF SyncFolder
<1>2. CASE Syncer
  BY <1>2, StartKeeps, ListKeeps, LoadKeeps, DecideKeeps, MarkKeeps, ReleaseKeeps DEF Syncer
<1>3. CASE Handler
  <2>1. CASE HandlerTake \/ HandlerAdvance \/ RefreshFolderList
    BY <2>1, TakeKeeps, AdvanceKeeps, RefreshKeeps
  <2>2. CASE RefreshFails \/ EntryDeleteFails \/ MailUpdateFails
    BY <2>2, FailureKeeps
  <2>3. CASE CreateUnknown \/ CreateFails \/ CreateHit \/ CreateMiss
    BY <2>3, UnknownKeeps, CreateFailsKeeps, HitKeeps, MissKeeps
  <2>4. CASE (\E body \in BOOLEAN : CreateInline(body)) \/ AssignUidAndUpsert
    BY <2>4, InlineKeeps, AssignKeeps
  <2>5. CASE EntryDelete
    BY <2>5, DeleteKeeps
  <2>6. CASE MailDelete \/ \E inline \in BOOLEAN : MailUpdate(inline)
    BY <2>6, MailKeeps
  <2> QED BY <1>3, <2>1, <2>2, <2>3, <2>4, <2>5, <2>6 DEF Handler
<1>4. CASE BridgeCrash
  BY <1>4, CrashKeeps
<1>5. CASE Wire \/ WireConnect \/ UNCHANGED vars
  BY <1>5, WireKeeps
<1> QED BY <1>1, <1>2, <1>3, <1>4, <1>5 DEF Next

(* Every step keeps the invariant. *)
LEMMA MirrorStep ==
    ASSUME MirrorInv, [Next]_vars
    PROVE  MirrorInv'
<1>1. SyncInv'
  BY Parts, SyncStepInv
<1>2. LogInv'
  <2>1. CASE Server
    BY <2>1, Parts, LogStep DEF SyncInv
  <2>2. CASE ~Server
    BY <2>2, Parts, AccountKept, StillTold
  <2> QED BY <2>1, <2>2
<1>3. OrderInv' /\ PhaseInv'
  BY Parts, OrderStep, PhaseStep
<1>4. CASE Server
  BY <1>1, <1>2, <1>3, <1>4, ServerKeeps DEF MirrorInv
<1>5. CASE ~Server
  <2>1. MemoryInv' /\ SynRight'
    BY <1>5, MemoryStep, SynStep
  <2>2. StoresRight'
    BY <1>5, StoresStep
  <2> QED BY <1>1, <1>2, <1>3, <2>1, <2>2 DEF MirrorInv
<1> QED BY <1>4, <1>5

(* Nothing is still to come of a log that is applied to its end. *)
LEMMA AllTold ==
    ASSUME MirrorInv, Settled, lost = {}, missed = {}
    PROVE  /\ \A m \in Mail, f \in Folder : ~ComesIn(m, f) /\ ~GoesOut(m, f)
           /\ \A m \in Mail : ~Turns(m)
           /\ \A f \in Folder : ~Relists(f)
<1>1. stage = "idle" /\ chan = << >> /\ nextId = Len(log) + 1 /\ up
  BY DEF Settled
<1>2. InOrder
  BY <1>1, Parts DEF OrderInv
<1>3. Past >= Len(log)
  BY <1>1, <1>2, Parts DEF InOrder, Latest
<1>4. \A j \in 1 .. Len(log) : ~(j > Past)
  BY <1>3, Parts
<1>5. ~Forward
  BY <1>1 DEF Forward
<1> QED BY <1>4, <1>5
  DEF ComesIn, GoesOut, Turns, Relists, WillCreate, WillDelete, WillMark, WillList, CreateDue,
      DeleteDue, MarkDue, ListDue

(* A bridge that has settled has applied all that excuses a difference. *)
LEMMA MirrorsAll == MirrorInv => NoMailMissed
<1> SUFFICES ASSUME MirrorInv, Settled, lost = {}, missed = {}
             PROVE  known = srvFolders /\ MailsMirrored
  BY DEF NoMailMissed
<1>1. boot \in {"backfill", "prefetch"}
  BY Parts DEF Settled, PhaseInv
<1>2. /\ \A f \in Folder : KnownOk(f)
      /\ \A m \in Mail, f \in Folder : MemOk(m, f)
  BY <1>1, Parts DEF StoresRight, KnownSure, MemSure, Running
<1>3. known = srvFolders
  <2>1. known \subseteq Folder /\ srvFolders \subseteq Folder
    BY Parts DEF SyncInv, ServerInv
  <2>2. \A f \in Folder : f \in known <=> f \in srvFolders
    BY <1>2, AllTold DEF KnownOk
  <2> QED BY <2>1, <2>2
<1>4. ASSUME NEW f \in Folder, NEW m \in Mail
      PROVE  /\ (mem[f][m] # None) <=> IsIn(m, f)
             /\ mem[f][m] # None => mem[f][m].unread = srv[m].unread
  <2>1. mem[f][m] # None => f \in srvFolders
    BY <1>3, Parts DEF MemoryInv
  <2>2. (mem[f][m] # None) <=> IsIn(m, f)
    BY <1>2, <2>1, AllTold DEF MemOk
  <2>3. mem[f][m] # None => mem[f][m].unread = srv[m].unread
    BY <1>2, <2>2, AllTold DEF MemOk, IsIn
  <2> QED BY <2>2, <2>3
<1> QED BY <1>3, <1>4 DEF MailsMirrored, IsIn

(* A bridge that has settled shows the account as it is (apply_batch,       *)
(* run_syncer and sync_folder together): for every number of mails, folders *)
(* and batches, through every crash, reconnect and replay.                  *)
THEOREM NothingIsMissed == Spec => []NoMailMissed
<1>1. Init => MirrorInv
  BY MirrorInit
<1>2. MirrorInv /\ [Next]_vars => MirrorInv'
  BY MirrorStep
<1> QED BY <1>1, <1>2, MirrorsAll, PTL DEF Spec
=============================================================================
