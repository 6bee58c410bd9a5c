---------------------------- MODULE DesktopProofs ----------------------------
(***************************************************************************)
(* Theorems about Desktop, for every number of bridges and commands.       *)
(***************************************************************************)
EXTENDS Desktop, FiniteSetTheorems, TLAPS

(* OneBridgeAtATime is not inductive: whether a start may go on is decided  *)
(* by the status, which the task of the earlier bridge writes without the   *)
(* lock.  The invariant says what a status that lets a start through means  *)
(* for the tasks, and who owns the ports.                                   *)

Bound == Elsewhere \union {"code"}
Holding == Bound \union {"bind", "announce", "wait"}
Starting(p) == pc[p] \in Bound \union {"bind"}
Live(b) == task[b] \in {"up", "down", "closed"}

BridgeTypes ==
    /\ pc \in [Procs -> {"idle", "lock", "clear", "stop"} \union Holding]
    /\ spawned \in 0..MaxBridges
    /\ task \in [Bridges -> {"none", "up", "down", "closed", "over"}]
    /\ status \in {"Stopped", "Starting", "Running", "Error"}
    /\ ports \in 0..Other
    /\ clients \subseteq 1..spawned

HandleTypes == handle \in [{"tx", "task", "backend", "started"} -> 0..MaxBridges]

(* The lock is held by the one whose command is between taking and giving it. *)
LockInv ==
    /\ lock \in Procs \union {Nobody}
    /\ \A p \in Procs : lock = p <=> pc[p] \in Holding

(* Only the latest bridge may be alive, and not under a status that lets *)
(* another start through.                                                *)
TaskInv ==
    /\ \A b \in Bridges : Live(b) => b = spawned
    /\ status \in {"Stopped", "Error"} => \A b \in Bridges : ~Live(b)

(* A start that has not spawned yet is alone. *)
StartInv ==
    \A p \in Procs : Starting(p) =>
        /\ status = "Starting" /\ spawned < MaxBridges
        /\ \A b \in Bridges : ~Live(b)

(* The listeners are those of a bridge before its teardown, or of a start. *)
PortsInv ==
    \/ ports \in {0, Other}
    \/ ports = spawned /\ spawned \in Bridges /\ task[spawned] \in {"up", "down"}
    \/ ports = spawned + 1 /\ \E p \in Procs : pc[p] \in Bound

BridgeInv == BridgeTypes /\ HandleTypes /\ LockInv /\ TaskInv /\ StartInv /\ PortsInv

UpdateTypes ==
    /\ updater \in [Installers -> {"sleep", "ended", "idle", "found", "acquire", "ask",
                                   "download"}]
    /\ installing \in BOOLEAN /\ installed \in BOOLEAN

(* An installer past its check of INSTALLED has the guard. *)
Guarded(i) == updater[i] \in {"ask", "download"}

(* One installer has the guard, and none once the package is there. *)
UpdateInv ==
    /\ UpdateTypes
    /\ installing <=> \E i \in Installers : Guarded(i)
    /\ \A i, j \in Installers : Guarded(i) /\ Guarded(j) => i = j
    /\ installed => \A i \in Installers : ~Guarded(i)
    /\ installs = IF installed THEN 1 ELSE 0

-----------------------------------------------------------------------------
(* The processes of the application, and the lock free of all of them. *)
LEMMA ProcsFacts == /\ "auto" \in Procs /\ "window" \in Procs /\ Nobody \notin Procs
                    /\ \A p \in Procs : p = "auto" \/ p = "window"
BY DEF Procs, Nobody

(* The application starts in the invariant. *)
LEMMA DeskInitInv == Init => BridgeInv /\ UpdateInv
<1> SUFFICES ASSUME Init PROVE BridgeInv /\ UpdateInv
  OBVIOUS
<1> USE DesktopConstants DEF Init
<1>1. pc \in [Procs -> {"idle", "lock"}]
  BY DEF Procs
<1>2. updater \in [Installers -> {"sleep", "ended", "idle"}]
  BY DEF Installers
<1>3. HandleTypes
  BY DEF NoHandle, HandleTypes
<1>4. BridgeTypes
  <2>1. ports \in 0..Other /\ clients \subseteq 1..spawned
    BY DEF Other
  <2>2. task \in [Bridges -> {"none", "up", "down", "closed", "over"}]
    OBVIOUS
  <2>3. pc \in [Procs -> {"idle", "lock", "clear", "stop"} \union Holding]
    BY <1>1
  <2>4. spawned \in 0..MaxBridges
    OBVIOUS
  <2> QED BY <2>1, <2>2, <2>3, <2>4 DEF BridgeTypes
<1>5. LockInv /\ StartInv
  BY <1>1, ProcsFacts DEF LockInv, StartInv, Starting, Holding, Bound, Elsewhere
<1>6. TaskInv /\ PortsInv
  BY DEF TaskInv, PortsInv, Bound, Elsewhere, Live
<1>7. UpdateInv
  BY <1>2 DEF UpdateInv, UpdateTypes, Guarded
<1> QED BY <1>3, <1>4, <1>5, <1>6, <1>7 DEF BridgeInv

(* The updater: every step is one of its actions or leaves it alone. *)
LEMMA UpdateStep == UpdateInv /\ [Next]_deskVars => UpdateInv'
<1> SUFFICES ASSUME UpdateInv, [Next]_deskVars PROVE UpdateInv'
  OBVIOUS
<1> USE DEF UpdateInv, UpdateTypes, Guarded
<1>1. CASE UNCHANGED updateVars
  BY <1>1 DEF updateVars
<1>2. CASE SaveSettings
  BY <1>2 DEF SaveSettings
<1>3. CASE LoopChecks \/ LoopFound
  BY <1>3 DEF LoopChecks, LoopFound, UpdaterAt, Installers
<1>4. CASE InstallUpdate
  BY <1>4 DEF InstallUpdate, UpdaterAt, Installers
<1>5. ASSUME NEW i \in Installers, AcquireInstall(i) PROVE UpdateInv'
  <2>1. CASE \E l \in {"sleep", "idle", "ended"} : UpdaterAt(i, l) /\ UNCHANGED installing
    BY <1>5, <2>1 DEF AcquireInstall, UpdaterAt
  <2>2. CASE UpdaterAt(i, "ask") /\ installing' = TRUE /\ ~installing /\ ~installed
    BY <1>5, <2>2 DEF AcquireInstall, UpdaterAt
  <2> QED BY <1>5, <2>1, <2>2 DEF AcquireInstall, Home, Automatic
<1>6. ASSUME NEW i \in Installers, GiveUp(i) PROVE UpdateInv'
  BY <1>6 DEF GiveUp, UpdaterAt, Home
<1>7. ASSUME NEW i \in Installers, Download(i) PROVE UpdateInv'
  BY <1>7 DEF Download, UpdaterAt
<1>8. ASSUME NEW i \in Installers, Install(i) PROVE UpdateInv'
  <2>1. ~installed /\ installs = 0 /\ \A j \in Installers : j # i => ~Guarded(j)
    BY <1>8 DEF Install
  <2>2. installs' = 1 /\ installed' = TRUE /\ installing' = FALSE
    BY <1>8, <2>1 DEF Install
  <2>3. /\ updater' \in [Installers -> {"sleep", "ended", "idle", "found", "acquire",
                                        "ask", "download"}]
        /\ \A j \in Installers : updater'[j] = updater[j] \/ updater'[j] \in {"ended", "idle"}
        /\ updater'[i] \in {"ended", "idle"}
    BY <1>8 DEF Install, UpdaterAt
  <2>4. \A j \in Installers : ~Guarded(j)'
    BY <2>1, <2>3
  <2> QED BY <2>2, <2>3, <2>4
<1>9. CASE UNCHANGED deskVars
  BY <1>1, <1>9 DEF deskVars
<1>10. CASE \/ StartBridge \/ SubmitTotp \/ StopBridge \/ Stop \/ Stopped \/ Snapshot
  BY <1>1, <1>10 DEF StartBridge, SubmitTotp, StopBridge, Stop, Stopped, Snapshot
<1>11. ASSUME NEW p \in Procs, Start(p) \/ StartSteps(p) \/ Answers(p) PROVE UpdateInv'
  BY <1>1, <1>11
  DEF Start, StartSteps, Bind, AwaitCode, Announce, Clear, Answers, LoadSession, Resume,
      DeleteSession, LogIn, Confirm, SaveSession, Spawn, Passes, OnTo, StartFailed
<1>12. ASSUME NEW b \in Bridges, TaskWakes(b) \/ TaskSteps(b) \/ Client(b) PROVE UpdateInv'
  BY <1>1, <1>12 DEF TaskWakes, TaskSteps, TearDown, TaskEnds, OnlyTask, Client
<1> QED
  BY <1>2, <1>3, <1>4, <1>5, <1>6, <1>7, <1>8, <1>9, <1>10, <1>11, <1>12 DEF Next

(* The bridge: the steps of the updater leave it alone. *)
LEMMA BridgeKept == BridgeInv /\ UNCHANGED bridgeVars => BridgeInv'
<1> SUFFICES ASSUME BridgeInv, UNCHANGED bridgeVars PROVE BridgeInv'
  OBVIOUS
<1> USE DEF BridgeInv, bridgeVars
<1>1. (BridgeTypes /\ HandleTypes)'
  BY DEF BridgeTypes, HandleTypes
<1>2. (LockInv /\ TaskInv)'
  BY DEF LockInv, TaskInv, Live
<1>3. (StartInv /\ PortsInv)'
  BY DEF StartInv, PortsInv, Starting, Bound, Elsewhere, Live
<1> QED BY <1>1, <1>2, <1>3

(* A start that has the lock is alone with it. *)
LEMMA OneStart ==
    ASSUME NEW p \in Procs, NEW q \in Procs, LockInv, pc[p] \in Holding, pc[q] \in Holding
    PROVE  p = q
BY DEF LockInv

(* A start that fails leaves no bridge behind. *)
LEMMA StartFailedStep ==
    ASSUME NEW p \in Procs, BridgeInv, Starting(p), StartFailed(p)
    PROVE  BridgeInv'
<1> USE DesktopConstants
<1>1. /\ pc' = [pc EXCEPT ![p] = "clear"] /\ lock' = Nobody /\ status' = "Error"
      /\ ports' = (IF ports = spawned + 1 THEN 0 ELSE ports)
      /\ UNCHANGED <<handle, spawned, task, clients>>
  BY DEF StartFailed, Goto, NewBridge
<1>2. \A q \in Procs : q # p => pc[q] \notin Holding /\ pc'[q] = pc[q]
  BY <1>1, OneStart DEF BridgeInv, BridgeTypes, Starting, Holding, Bound, Elsewhere
<1>3. (BridgeTypes /\ HandleTypes)'
  BY <1>1 DEF BridgeInv, BridgeTypes, HandleTypes, Other
<1>4. pc'[p] = "clear"
  BY <1>1 DEF BridgeInv, BridgeTypes
<1>5. LockInv'
  BY <1>1, <1>2, <1>4, ProcsFacts DEF LockInv, Holding, Bound, Elsewhere
<1>6. \A b \in Bridges : ~Live(b)
  BY DEF BridgeInv, StartInv
<1>7. TaskInv' /\ StartInv'
  BY <1>1, <1>2, <1>4, <1>6 DEF TaskInv, StartInv, Live, Starting, Holding, Bound, Elsewhere
<1>8. PortsInv'
  BY <1>1, <1>6 DEF BridgeInv, PortsInv, Bound, Elsewhere, Live
<1> QED BY <1>3, <1>5, <1>7, <1>8 DEF BridgeInv

(* Every step of the application keeps one bridge at a time. *)
LEMMA BridgeStep == BridgeInv /\ [Next]_deskVars => BridgeInv'
<1> SUFFICES ASSUME BridgeInv, [Next]_deskVars PROVE BridgeInv'
  OBVIOUS
<1> USE DesktopConstants
<1>w. "window" \in Procs
  BY ProcsFacts
<1>1. CASE StartBridge \/ StopBridge
  <2>1. /\ pc["window"] = "idle" /\ pc' \in {[pc EXCEPT !["window"] = "lock"], [pc EXCEPT !["window"] = "stop"]}
        /\ UNCHANGED <<status, lock, handle, spawned, task, ports, clients>>
    BY <1>1 DEF StartBridge, StopBridge, Goto
  <2>2. \A q \in Procs : pc'[q] = pc[q] \/ (q = "window" /\ pc'[q] \in {"lock", "stop"} /\ pc[q] = "idle")
    BY <2>1 DEF BridgeInv, BridgeTypes
  <2>3. (BridgeTypes /\ HandleTypes)'
    BY <2>1, <1>w DEF BridgeInv, BridgeTypes, HandleTypes
  <2>4. (LockInv /\ TaskInv)'
    BY <2>1, <2>2 DEF BridgeInv, LockInv, TaskInv, Live, Holding, Bound, Elsewhere
  <2>5. (StartInv /\ PortsInv)'
    BY <2>1, <2>2 DEF BridgeInv, StartInv, PortsInv, Live, Starting, Bound, Elsewhere
  <2> QED BY <2>3, <2>4, <2>5 DEF BridgeInv
<1>2. CASE SubmitTotp \/ Snapshot
  <2>1. UNCHANGED <<status, lock, pc, handle, spawned, task, ports, clients>>
    BY <1>2 DEF SubmitTotp, Snapshot
  <2>2. (BridgeTypes /\ HandleTypes)'
    BY <2>1 DEF BridgeInv, BridgeTypes, HandleTypes
  <2>3. (LockInv /\ TaskInv)'
    BY <2>1 DEF BridgeInv, LockInv, TaskInv, Live
  <2>4. (StartInv /\ PortsInv)'
    BY <2>1 DEF BridgeInv, StartInv, PortsInv, Starting, Bound, Elsewhere, Live
  <2> QED BY <2>2, <2>3, <2>4 DEF BridgeInv
<1>3. CASE Stop
  <2>1. /\ pc["window"] = "stop" /\ lock = Nobody /\ lock' = "window"
        /\ pc' = [pc EXCEPT !["window"] = "wait"]
        /\ UNCHANGED <<status, spawned, task, ports, clients>>
    BY <1>3 DEF Stop, Goto
  <2>2. \A q \in Procs : pc[q] \notin Holding
                         /\ pc'[q] = IF q = "window" THEN "wait" ELSE pc[q]
    BY <2>1, ProcsFacts DEF BridgeInv, BridgeTypes, LockInv
  <2>3. BridgeTypes'
    BY <2>1, <1>w DEF BridgeInv, BridgeTypes, Holding, Bound, Elsewhere
  <2>4. HandleTypes'
    BY <1>3 DEF Stop, BridgeInv, HandleTypes
  <2>5. LockInv'
    BY <2>1, <2>2, ProcsFacts DEF LockInv, Holding, Bound, Elsewhere
  <2>6. TaskInv'
    BY <2>1 DEF BridgeInv, TaskInv, Live
  <2>7. (StartInv /\ PortsInv)'
    BY <2>1, <2>2 DEF BridgeInv, StartInv, PortsInv, Starting, Live, Holding, Bound, Elsewhere
  <2> QED BY <2>3, <2>4, <2>5, <2>6, <2>7 DEF BridgeInv
<1>4. CASE Stopped
  <2>1. /\ pc["window"] = "wait" /\ lock' = Nobody
        /\ pc' = [pc EXCEPT !["window"] = "idle"] /\ handle' = NoHandle
        /\ UNCHANGED <<status, spawned, task, ports, clients>>
    BY <1>4 DEF Stopped, Goto
  <2>2. \A q \in Procs : pc'[q] \notin Holding
                         /\ pc'[q] = IF q = "window" THEN "idle" ELSE pc[q]
    BY <2>1, <1>w, OneStart DEF BridgeInv, BridgeTypes, Holding, Bound, Elsewhere
  <2>3. BridgeTypes'
    BY <2>1, <1>w DEF BridgeInv, BridgeTypes
  <2>4. HandleTypes'
    BY <2>1 DEF NoHandle, HandleTypes
  <2>5. LockInv'
    BY <2>1, <2>2, ProcsFacts DEF LockInv
  <2>6. TaskInv'
    BY <2>1 DEF BridgeInv, TaskInv, Live
  <2>7. (StartInv /\ PortsInv)'
    BY <2>1, <2>2 DEF BridgeInv, StartInv, PortsInv, Starting, Live, Holding, Bound, Elsewhere
  <2> QED BY <2>3, <2>4, <2>5, <2>6, <2>7 DEF BridgeInv
<1>5. ASSUME NEW p \in Procs, Start(p) PROVE BridgeInv'
  <2>1. /\ pc[p] = "lock" /\ lock = Nobody
        /\ UNCHANGED <<handle, spawned, task, ports, clients>>
    BY <1>5 DEF Start
  <2>2. \A q \in Procs : pc[q] \notin Holding
    BY <2>1, ProcsFacts DEF BridgeInv, LockInv
  <2>3. CASE pc' = [pc EXCEPT ![p] = "clear"] /\ UNCHANGED <<status, lock>>
    <3>1. \A q \in Procs : pc'[q] = IF q = p THEN "clear" ELSE pc[q]
      BY <2>3 DEF BridgeInv, BridgeTypes
    <3>2. (BridgeTypes /\ HandleTypes)'
      BY <2>1, <2>3 DEF BridgeInv, BridgeTypes, HandleTypes
    <3>3. (LockInv /\ TaskInv)'
      BY <2>1, <2>2, <2>3, <3>1 DEF BridgeInv, LockInv, TaskInv, Live, Holding, Bound, Elsewhere
    <3>4. (StartInv /\ PortsInv)'
      BY <2>1, <2>2, <2>3, <3>1
      DEF BridgeInv, StartInv, PortsInv, Starting, Live, Holding, Bound, Elsewhere
    <3> QED BY <3>2, <3>3, <3>4 DEF BridgeInv
  <2>4. CASE /\ status \in {"Stopped", "Error"} /\ spawned # MaxBridges
             /\ status' = "Starting" /\ lock' = p /\ pc' = [pc EXCEPT ![p] = "bind"]
    <3>1. \A q \in Procs : pc'[q] = IF q = p THEN "bind" ELSE pc[q]
      BY <2>4 DEF BridgeInv, BridgeTypes
    <3>2. \A b \in Bridges : ~Live(b)
      BY <2>4 DEF BridgeInv, TaskInv
    <3>3. (BridgeTypes /\ HandleTypes)'
      BY <2>1, <2>4 DEF BridgeInv, BridgeTypes, HandleTypes, Holding, Bound, Elsewhere
    <3>4. LockInv'
      BY <2>1, <2>2, <2>4, <3>1 DEF LockInv, Holding, Bound, Elsewhere
    <3>5. (TaskInv /\ StartInv)'
      <4>1. spawned < MaxBridges
        BY <2>4 DEF BridgeInv, BridgeTypes
      <4> QED
        BY <2>1, <2>2, <2>4, <3>1, <3>2, <4>1
        DEF TaskInv, StartInv, Starting, Live, Holding, Bound, Elsewhere
    <3>6. PortsInv'
      BY <2>1, <2>2, <3>1 DEF BridgeInv, PortsInv, Holding, Bound, Elsewhere
    <3> QED BY <3>3, <3>4, <3>5, <3>6 DEF BridgeInv
  <2> QED BY <1>5, <2>3, <2>4 DEF Start, Goto, BridgeInv, BridgeTypes
<1>6. ASSUME NEW p \in Procs, Starting(p), NEW l \in Bound, OnTo(p, l),
             \/ UNCHANGED ports /\ pc[p] # "bind"
             \/ ports' = NewBridge
      PROVE  BridgeInv'
  <2>1. pc' = [pc EXCEPT ![p] = l] /\ UNCHANGED <<status, lock, handle, spawned, task, clients>>
    BY <1>6 DEF OnTo, Goto
  <2>2. \A q \in Procs : pc'[q] = IF q = p THEN l ELSE pc[q]
    BY <2>1 DEF BridgeInv, BridgeTypes
  <2>3. spawned < MaxBridges /\ spawned \in Nat
    BY <1>6 DEF BridgeInv, StartInv, BridgeTypes
  <2>4. BridgeTypes'
    BY <1>6, <2>1, <2>3 DEF BridgeInv, BridgeTypes, Holding, Bound, Elsewhere, NewBridge, Other
  <2>5. (HandleTypes /\ LockInv)'
    BY <1>6, <2>1, <2>2 DEF BridgeInv, HandleTypes, LockInv, Holding, Bound, Elsewhere, Starting
  <2>6. (TaskInv /\ StartInv)'
    BY <1>6, <2>1, <2>2 DEF BridgeInv, TaskInv, StartInv, Starting, Bound, Elsewhere, Live
  <2>7. PortsInv'
    BY <1>6, <2>1, <2>2 DEF BridgeInv, PortsInv, Starting, Bound, Elsewhere, NewBridge
  <2> QED BY <2>4, <2>5, <2>6, <2>7 DEF BridgeInv
<1>a. ASSUME NEW p \in Procs, pc[p] \in Bound,
             StartFailed(p) \/ \E l \in Bound : Passes(p, l)
      PROVE  BridgeInv'
  BY <1>6, <1>a, StartFailedStep DEF Passes, Starting, Bound, Elsewhere
<1>7. ASSUME NEW p \in Procs, Bind(p) PROVE BridgeInv'
  BY <1>6, <1>7, StartFailedStep DEF Bind, Starting, Bound, Elsewhere
<1>b. ASSUME NEW p \in Procs,
             \/ LoadSession(p) \/ Resume(p) \/ DeleteSession(p) \/ LogIn(p) \/ AwaitCode(p)
             \/ Confirm(p) \/ SaveSession(p)
      PROVE  BridgeInv'
  <2>1. pc[p] \in Bound /\ (StartFailed(p) \/ \E l \in Bound : Passes(p, l))
    BY <1>b DEF LoadSession, Resume, DeleteSession, LogIn, AwaitCode, Confirm, SaveSession,
       Bound, Elsewhere
  <2> QED BY <1>a, <2>1
<1>8. ASSUME NEW p \in Procs, Spawn(p) PROVE BridgeInv'
  <2>1. Starting(p)
    BY <1>8 DEF Spawn, Starting, Bound, Elsewhere
  <2>2. CASE StartFailed(p)
    BY <2>1, <2>2, StartFailedStep
  <2>3. CASE ~StartFailed(p)
    <3>1. /\ spawned' = spawned + 1
          /\ handle' = [tx |-> spawned + 1, task |-> spawned + 1, backend |-> spawned + 1,
                        started |-> spawned + 1]
          /\ task' = [task EXCEPT ![spawned + 1] = "up"]
          /\ pc' = [pc EXCEPT ![p] = "announce"]
          /\ UNCHANGED <<status, lock, ports, clients>>
      BY <1>8, <2>3 DEF Spawn, Goto, NewBridge
    <3>2. /\ spawned \in Nat /\ spawned < MaxBridges /\ status = "Starting"
          /\ \A b \in Bridges : ~Live(b)
      BY <2>1 DEF BridgeInv, StartInv, BridgeTypes
    <3>3. spawned + 1 \in Bridges
      BY <3>2 DEF Bridges
    <3>4. \A q \in Procs : /\ q # p => pc[q] \notin Holding
                           /\ pc'[q] = IF q = p THEN "announce" ELSE pc[q]
      BY <2>1, <3>1, OneStart DEF BridgeInv, BridgeTypes, Starting, Holding, Bound, Elsewhere
    <3>5. HandleTypes'
      BY <3>1, <3>2 DEF HandleTypes
    <3>6. \A b \in Bridges : task'[b] = IF b = spawned + 1 THEN "up" ELSE task[b]
      BY <3>1 DEF BridgeInv, BridgeTypes
    <3>7. BridgeTypes'
      <4>1. clients' \subseteq 1..spawned'
        BY <3>1, <3>2 DEF BridgeInv, BridgeTypes
      <4>2. task' \in [Bridges -> {"none", "up", "down", "closed", "over"}]
        BY <3>1 DEF BridgeInv, BridgeTypes
      <4>3. pc' \in [Procs -> {"idle", "lock", "clear", "stop"} \union Holding]
        BY <3>1 DEF BridgeInv, BridgeTypes, Holding, Bound, Elsewhere
      <4> QED BY <3>1, <3>2, <4>1, <4>2, <4>3 DEF BridgeInv, BridgeTypes
    <3>8. LockInv'
      BY <2>1, <3>1, <3>4 DEF BridgeInv, LockInv, Holding, Bound, Elsewhere, Starting
    <3>9. TaskInv' /\ StartInv'
      BY <3>1, <3>2, <3>4, <3>6 DEF TaskInv, StartInv, Starting, Live, Holding, Bound, Elsewhere
    <3>10. PortsInv'
      BY <3>1, <3>2, <3>3, <3>6 DEF BridgeInv, PortsInv, Bound, Elsewhere, Live
    <3> QED BY <3>5, <3>7, <3>8, <3>9, <3>10 DEF BridgeInv
  <2> QED BY <2>2, <2>3
<1>9. ASSUME NEW p \in Procs, Announce(p) PROVE BridgeInv'
  <2>1. /\ pc[p] = "announce" /\ status' = "Running" /\ lock' = Nobody
        /\ pc' = [pc EXCEPT ![p] = "clear"]
        /\ UNCHANGED <<handle, spawned, task, ports, clients>>
    BY <1>9 DEF Announce, Goto
  <2>2. \A q \in Procs : /\ pc'[q] \notin Holding
                         /\ pc'[q] = IF q = p THEN "clear" ELSE pc[q]
    BY <2>1, OneStart DEF BridgeInv, BridgeTypes, Holding, Bound, Elsewhere
  <2>3. (BridgeTypes /\ HandleTypes)'
    BY <2>1 DEF BridgeInv, BridgeTypes, HandleTypes
  <2>4. LockInv'
    BY <2>1, <2>2, ProcsFacts DEF LockInv
  <2>5. (TaskInv /\ StartInv /\ PortsInv)'
    BY <2>1, <2>2 DEF BridgeInv, TaskInv, StartInv, PortsInv, Starting, Live, Holding, Bound,
       Elsewhere
  <2> QED BY <2>3, <2>4, <2>5 DEF BridgeInv
<1>10. ASSUME NEW p \in Procs, Clear(p) PROVE BridgeInv'
  <2>1. /\ pc[p] = "clear" /\ pc' = [pc EXCEPT ![p] = "idle"]
        /\ UNCHANGED <<status, lock, handle, spawned, task, ports, clients>>
    BY <1>10 DEF Clear, Goto
  <2>2. \A q \in Procs : pc'[q] = IF q = p THEN "idle" ELSE pc[q]
    BY <2>1 DEF BridgeInv, BridgeTypes
  <2>3. (BridgeTypes /\ HandleTypes)'
    BY <2>1 DEF BridgeInv, BridgeTypes, HandleTypes
  <2>4. LockInv'
    BY <2>1, <2>2 DEF BridgeInv, LockInv, Holding, Bound, Elsewhere
  <2>5. (TaskInv /\ StartInv /\ PortsInv)'
    BY <2>1, <2>2 DEF BridgeInv, TaskInv, StartInv, PortsInv, Starting, Bound, Elsewhere, Live
  <2> QED BY <2>3, <2>4, <2>5 DEF BridgeInv
<1>11. ASSUME NEW b \in Bridges, TaskWakes(b) \/ TearDown(b) \/ TaskEnds(b) PROVE BridgeInv'
  <2>1. /\ Live(b)
        /\ UNCHANGED <<lock, pc, handle, spawned, clients>>
    BY <1>11 DEF TaskWakes, TearDown, TaskEnds, OnlyTask, Live
  <2>2. b = spawned /\ \A p \in Procs : ~Starting(p)
    BY <2>1 DEF BridgeInv, TaskInv, StartInv
  <2>3. BridgeTypes'
    <3>1. task' \in [Bridges -> {"none", "up", "down", "closed", "over"}]
      BY <1>11 DEF BridgeInv, BridgeTypes, TaskWakes, TearDown, TaskEnds
    <3>2. status' \in {"Stopped", "Starting", "Running", "Error"}
      BY <1>11 DEF BridgeInv, BridgeTypes, TaskWakes, TearDown, TaskEnds
    <3>3. ports' \in 0..Other
      BY <1>11 DEF BridgeInv, BridgeTypes, TaskWakes, TearDown, TaskEnds, Other
    <3> QED BY <2>1, <3>1, <3>2, <3>3 DEF BridgeInv, BridgeTypes
  <2>4. (HandleTypes /\ LockInv)'
    BY <2>1 DEF BridgeInv, HandleTypes, LockInv
  <2>5. StartInv'
    BY <2>1, <2>2 DEF StartInv, Starting, Bound, Elsewhere
  <2>6. \A c \in Bridges : c # b => task'[c] = task[c]
    BY <1>11 DEF BridgeInv, BridgeTypes, TaskWakes, TearDown, TaskEnds
  <2>7. TaskInv'
    <3>1. \A c \in Bridges : Live(c)' => c = spawned
      BY <2>2, <2>6 DEF BridgeInv, TaskInv, Live
    <3>2. CASE TaskWakes(b) \/ TearDown(b)
      BY <2>1, <3>1, <3>2 DEF BridgeInv, TaskInv, TaskWakes, TearDown, Live
    <3>3. CASE TaskEnds(b)
      <4>1. task'[b] = "over"
        BY <3>3 DEF TaskEnds, BridgeInv, BridgeTypes
      <4> QED BY <2>1, <2>2, <3>1, <4>1 DEF TaskInv, Live
    <3> QED BY <1>11, <3>2, <3>3
  <2>8. PortsInv'
    <3>1. ports \in {0, Other} \/ ports = b
      BY <2>2 DEF BridgeInv, PortsInv, Starting, Bound, Elsewhere
    <3>2. CASE TaskWakes(b)
      <4>1. task'[b] = "down" /\ UNCHANGED ports
        BY <3>2 DEF TaskWakes, BridgeInv, BridgeTypes
      <4> QED BY <2>1, <2>2, <3>1, <4>1 DEF PortsInv, Bound, Elsewhere
    <3>3. CASE TearDown(b) \/ TaskEnds(b)
      <4>1. ports' \in {0, Other}
        BY <3>1, <3>3 DEF TearDown, TaskEnds
      <4> QED BY <4>1 DEF PortsInv, Bound, Elsewhere
    <3> QED BY <1>11, <3>2, <3>3
  <2> QED BY <2>3, <2>4, <2>5, <2>7, <2>8 DEF BridgeInv
<1>12. ASSUME NEW b \in Bridges, Client(b) PROVE BridgeInv'
  <2>1. UNCHANGED <<status, lock, pc, handle, spawned, task, ports>>
    BY <1>12 DEF Client
  <2>2. clients' \subseteq 1..spawned
    <3>1. task[b] = "up" => b = spawned
      BY DEF BridgeInv, TaskInv, Live
    <3>2. task[b] = "up" => b \in 1..spawned
      BY <3>1 DEF BridgeInv, BridgeTypes, Bridges
    <3>3. clients \subseteq 1..spawned
      BY DEF BridgeInv, BridgeTypes
    <3> QED BY <1>12, <3>2, <3>3 DEF Client
  <2>3. (BridgeTypes /\ HandleTypes)'
    BY <2>1, <2>2 DEF BridgeInv, BridgeTypes, HandleTypes
  <2>4. (LockInv /\ TaskInv)'
    BY <2>1 DEF BridgeInv, LockInv, TaskInv, Live
  <2>5. (StartInv /\ PortsInv)'
    BY <2>1 DEF BridgeInv, StartInv, PortsInv, Starting, Bound, Elsewhere, Live
  <2> QED BY <2>3, <2>4, <2>5 DEF BridgeInv
<1>13. CASE \/ SaveSettings \/ LoopChecks \/ LoopFound \/ InstallUpdate
            \/ \E i \in Installers : AcquireInstall(i) \/ Download(i) \/ GiveUp(i) \/ Install(i)
  BY <1>13, BridgeKept DEF SaveSettings, LoopChecks, LoopFound, InstallUpdate,
     AcquireInstall, Download, GiveUp, Install, OnlyUpdate
<1>14. CASE UNCHANGED deskVars
  BY <1>14, BridgeKept DEF deskVars
<1> QED
  BY <1>1, <1>2, <1>3, <1>4, <1>5, <1>7, <1>b, <1>8, <1>9, <1>10, <1>11, <1>12, <1>13, <1>14
  DEF Next, StartSteps, Answers, TaskSteps
-----------------------------------------------------------------------------
(* The inductive invariant of the desktop application. *)
LEMMA DeskInvariant == DeskSpec => [](BridgeInv /\ UpdateInv)
<1> QED BY DeskInitInv, BridgeStep, UpdateStep, PTL DEF DeskSpec

(* Handle, tasks, lock and guard of the application are in states the code *)
(* has, and the lock is held exactly between a command's taking and giving *)
(* it (bridge.rs, update.rs).                                              *)
THEOREM DeskTypeCorrect == DeskSpec => []DeskTypeOK
<1>1. BridgeInv /\ UpdateInv => DeskTypeOK
  BY
  DEF BridgeInv, BridgeTypes, HandleTypes, LockInv, Holding, Bound, Elsewhere, UpdateInv, Guarded,
      DeskTypeOK
<1> QED BY <1>1, DeskInvariant, PTL

(* Whatever ends a bridge (a stop, a server that fails, before or after its *)
(* start is announced), a later start finds its ports released, and there   *)
(* are never two bridges on the local store, for any number of restarts     *)
(* (bridge.rs:483).                                                         *)
THEOREM BridgesDoNotOverlap == DeskSpec => []OneBridgeAtATime
<1>1. BridgeInv => OneBridgeAtATime
  <2> SUFFICES ASSUME BridgeInv PROVE OneBridgeAtATime
    OBVIOUS
  <2>1. ASSUME NEW p \in Procs, pc[p] = "bind" PROVE ports \in {0, Other}
    <3>1. \A b \in Bridges : ~Live(b)
      BY <2>1 DEF BridgeInv, StartInv, Starting, Bound, Elsewhere
    <3>2. \A q \in Procs : pc[q] \notin Bound
      BY <2>1, OneStart DEF BridgeInv, Holding, Bound, Elsewhere
    <3> QED BY <3>1, <3>2 DEF BridgeInv, PortsInv, Bound, Elsewhere, Live
  <2>2. {b \in Bridges : task[b] \in {"up", "down"}} \subseteq {spawned}
    BY DEF BridgeInv, TaskInv, Live
  <2>3. Cardinality({b \in Bridges : task[b] \in {"up", "down"}}) <= 1
    <3>1. IsFiniteSet({spawned}) /\ Cardinality({spawned}) = 1
      BY FS_Singleton
    <3> QED BY <2>2, <3>1, FS_Subset
  <2> QED BY <2>1, <2>3 DEF OneBridgeAtATime
<1> QED BY <1>1, DeskInvariant, PTL

(* However often the loop and the button meet, a package is installed once *)
(* (InstallGuard and INSTALLED of update.rs).                              *)
THEOREM UpdateIsInstalledOnce == DeskSpec => []InstalledOnce
<1>1. UpdateInv => InstalledOnce
  BY DEF UpdateInv, UpdateTypes, InstalledOnce
<1> QED BY <1>1, DeskInvariant, PTL
=============================================================================
