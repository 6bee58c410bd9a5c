------------------------------- MODULE Desktop -------------------------------
(***************************************************************************)
(* The desktop application: the BridgeHandle (bridge.rs) that its commands *)
(* share under one lock (commands.rs, src-tauri/main.rs), the task each    *)
(* start spawns, the status stream to the window, and the updater          *)
(* (update.rs).                                                            *)
(*                                                                         *)
(* The window runs one start or stop at a time; auto_start runs beside it. *)
(* A bridge is the number of its spawn.                                    *)
(***************************************************************************)
EXTENDS Naturals, FiniteSets

CONSTANTS
    MaxBridges,     \* bound: bridges spawned in a behaviour
    MaxCommands     \* bound: starts, stops and installs the user asks for

ASSUME DesktopConstants == MaxBridges \in Nat \ {0} /\ MaxCommands \in Nat

Procs == {"auto", "window"}
Bridges == 1..MaxBridges
Installers == {"loop", "button"}
Nobody == "nobody"
Other == MaxBridges + 1     \* another application, as the owner of the ports

VARIABLES
    status,     \* BridgeHandle::status
    lock,       \* who holds the BridgeState mutex
    pc,         \* pc[p]: where auto_start, and the command of the window, are
    handle,     \* the handle's fields, each the bridge it belongs to, or 0
    spawned,    \* bridges spawned
    task,       \* task[b]: the bridge task: none, up, down, closed, over
    signalled,  \* bridges whose shutdown_tx was used
    failed,     \* bridges whose IMAP or SMTP server ended by itself
    ports,      \* the bridge whose listeners hold the ports, 0 or Other
    clients,    \* bridges with a client connection that is served
    totp,       \* TotpState: a sender is there
    code,       \* a code is in the channel
    shown,      \* the status the window shows
    pulse,      \* stats_dirty has been sent and not received
    autoUpdate, \* the auto_update setting on disk
    bundle,     \* who may replace the application: managed, locked, writable
    updater,    \* updater[i]: where the update loop, and the button, are
    installing, \* INSTALLING
    installed,  \* INSTALLED is set
    installs,   \* ghost: packages installed
    commands    \* what the user has asked for so far

bridgeVars == <<status, lock, pc, handle, spawned, task, signalled, failed, ports, clients,
                totp, code, shown, pulse>>
updateVars == <<autoUpdate, bundle, updater, installing, installed, installs>>
deskVars == <<bridgeVars, updateVars, commands>>

\* self_updating: not the package of a Linux distribution.
SelfUpdating == bundle # "managed"

\* Without a password: never on Windows, elsewhere where the directory can be
\* written.
BundleWritable == bundle = "writable"

NoHandle == [tx |-> 0, task |-> 0, backend |-> 0, started |-> 0]

\* auto_start goes on to start only with an account and a saved session.
Init ==
    /\ status = "Stopped" /\ lock = Nobody
    /\ pc \in {[p \in Procs |-> "idle"], [auto |-> "lock", window |-> "idle"]}
    /\ handle = NoHandle /\ spawned = 0
    /\ task = [b \in Bridges |-> "none"] /\ signalled = {} /\ failed = {}
    /\ ports \in {0, Other} /\ clients = {}
    /\ totp = FALSE /\ code = FALSE /\ shown = "Stopped" /\ pulse = FALSE
    /\ autoUpdate \in BOOLEAN /\ bundle \in {"managed", "locked", "writable"}
    /\ updater = [loop |-> IF SelfUpdating THEN "sleep" ELSE "ended", button |-> "idle"]
    /\ installing = FALSE /\ installed = FALSE /\ installs = 0
    /\ commands = 0

Goto(p, l) == pc' = [pc EXCEPT ![p] = l]
Ask == commands < MaxCommands /\ commands' = commands + 1
NewBridge == spawned + 1

-----------------------------------------------------------------------------
(* BridgeHandle::start, called with the lock held.                         *)

\* start_bridge: the sender for a code, then the lock.
StartBridge ==
    /\ pc["window"] = "idle" /\ spawned < MaxBridges /\ Ask
    /\ totp' = TRUE /\ code' = FALSE
    /\ Goto("window", "lock")
    /\ UNCHANGED <<status, lock, handle, spawned, task, signalled, failed, ports, clients,
                   shown, pulse, updateVars>>

\* Refused unless the bridge is stopped or failed (or the bound is reached).
Start(p) ==
    /\ pc[p] = "lock" /\ lock = Nobody
    /\ IF status \in {"Running", "Starting"} \/ spawned = MaxBridges
       THEN Goto(p, "clear") /\ UNCHANGED <<status, lock>>
       ELSE status' = "Starting" /\ lock' = p /\ Goto(p, "bind")
    /\ UNCHANGED <<handle, spawned, task, signalled, failed, ports, clients, totp, code,
                   shown, pulse, updateVars, commands>>

\* start_failed: the listeners are dropped with the call.
StartFailed(p) ==
    /\ status' = "Error" /\ lock' = Nobody /\ Goto(p, "clear")
    /\ ports' = IF ports = NewBridge THEN 0 ELSE ports
    /\ UNCHANGED <<handle, spawned, task, signalled, failed, clients, totp, code, shown, pulse,
                   updateVars, commands>>

OnTo(p, l) ==
    /\ Goto(p, l)
    /\ UNCHANGED <<status, lock, handle, spawned, task, signalled, failed, clients, totp, code,
                   shown, pulse, updateVars, commands>>

\* The ports, before the login; invalid or taken ones end the start.
Bind(p) ==
    /\ pc[p] = "bind"
    /\ \/ ports = 0 /\ ports' = NewBridge /\ OnTo(p, "load")
       \/ StartFailed(p)

\* login_with_2fa waits for the credential store (pass or the keychain) to
\* load, delete and save the session, and for Tuta to answer: none of these
\* waits has a timeout here.
Elsewhere == {"load", "resume", "delete", "password", "confirm", "save", "spawn"}

Passes(p, l) == OnTo(p, l) /\ UNCHANGED ports

LoadSession(p) == pc[p] = "load" /\ (Passes(p, "resume") \/ StartFailed(p))

\* The saved session is accepted, or rejected and then deleted, or there is
\* none; only the window's start may have a password.
Resume(p) ==
    /\ pc[p] = "resume"
    /\ \/ Passes(p, "spawn") \/ Passes(p, "delete") \/ StartFailed(p)
       \/ p = "window" /\ Passes(p, "password")

DeleteSession(p) ==
    /\ pc[p] = "delete"
    /\ (p = "window" /\ Passes(p, "password")) \/ StartFailed(p)

\* A password login, for which the window may be asked for a code.
LogIn(p) ==
    /\ pc[p] = "password"
    /\ Passes(p, "save") \/ Passes(p, "code") \/ StartFailed(p)

AwaitOnlyCode(p) ==
    /\ pc[p] = "code" /\ code
    /\ Passes(p, "confirm") \/ StartFailed(p)

\* The callback gives up after two minutes, or takes the code.
AwaitCode(p) ==
    /\ pc[p] = "code"
    /\ (code /\ Passes(p, "confirm")) \/ StartFailed(p)

SubmitTotp ==
    /\ totp /\ ~code /\ pc["window"] = "code"
    /\ code' = TRUE
    /\ UNCHANGED <<status, lock, pc, handle, spawned, task, signalled, failed, ports, clients,
                   totp, shown, pulse, updateVars, commands>>

\* The code is right or wrong.
Confirm(p) == pc[p] = "confirm" /\ (Passes(p, "save") \/ StartFailed(p))

\* A session that cannot be saved is kept in memory, with a warning.
SaveSession(p) == pc[p] = "save" /\ Passes(p, "spawn")

\* The storage key, the local store and the user id, or a failed start; then
\* the fields of the handle and the task.
Spawn(p) ==
    /\ pc[p] = "spawn"
    /\ \/ /\ spawned' = NewBridge
          /\ handle' = [tx |-> NewBridge, task |-> NewBridge, backend |-> NewBridge,
                         started |-> NewBridge]
          /\ task' = [task EXCEPT ![NewBridge] = "up"]
          /\ pulse' = TRUE
          /\ Goto(p, "announce")
          /\ UNCHANGED <<status, lock, signalled, failed, ports, clients, totp, code, shown,
                         updateVars, commands>>
       \/ StartFailed(p)

\* The task is there; the status says so.
Announce(p) ==
    /\ pc[p] = "announce"
    /\ status' = "Running" /\ lock' = Nobody /\ pulse' = TRUE
    /\ Goto(p, "clear")
    /\ UNCHANGED <<handle, spawned, task, signalled, failed, ports, clients, totp, code, shown,
                   updateVars, commands>>

\* start_bridge takes its sender back.
Clear(p) ==
    /\ pc[p] = "clear"
    /\ totp' = IF p = "window" THEN FALSE ELSE totp
    /\ code' = IF p = "window" THEN FALSE ELSE code
    /\ Goto(p, "idle")
    /\ UNCHANGED <<status, lock, handle, spawned, task, signalled, failed, ports, clients,
                   shown, pulse, updateVars, commands>>

-----------------------------------------------------------------------------
(* The bridge task, and stop.                                              *)

OnlyTask == UNCHANGED <<lock, pc, handle, spawned, signalled, totp, code, shown, pulse,
                        updateVars, commands>>

\* The select: the shutdown signal, or a server that ended.
TaskWakes(b) ==
    /\ task[b] = "up"
    /\ \/ b \in signalled /\ UNCHANGED failed
       \/ failed' = failed \cup {b}
    /\ task' = [task EXCEPT ![b] = "down"]
    /\ UNCHANGED <<status, ports, clients>> /\ OnlyTask

ReportFirst(b) ==
    /\ task[b] = "down"
    /\ status' = IF b \in failed THEN "Error" ELSE "Stopped"
    /\ task' = [task EXCEPT ![b] = "closed"]
    /\ UNCHANGED <<failed, ports, clients>> /\ OnlyTask

\* Every task is aborted and awaited, which releases the ports.  The tasks of
\* the accepted connections are not among them.
TearDown(b) ==
    /\ task[b] = "down"
    /\ ports' = IF ports = b THEN 0 ELSE ports
    /\ task' = [task EXCEPT ![b] = "closed"]
    /\ UNCHANGED <<status, failed, clients>> /\ OnlyTask

\* The last thing the task does; no pulse goes with it.
TaskEnds(b) ==
    /\ task[b] = "closed"
    /\ status' = IF b \in failed THEN "Error" ELSE "Stopped"
    /\ ports' = IF ports = b THEN 0 ELSE ports
    /\ task' = [task EXCEPT ![b] = "over"]
    /\ UNCHANGED <<failed, clients>> /\ OnlyTask

StopBridge ==
    /\ pc["window"] = "idle" /\ Ask
    /\ Goto("window", "stop")
    /\ UNCHANGED <<status, lock, handle, spawned, task, signalled, failed, ports, clients,
                   totp, code, shown, pulse, updateVars>>

Stop ==
    /\ pc["window"] = "stop" /\ lock = Nobody
    /\ lock' = "window"
    /\ signalled' = signalled \cup ({handle.tx} \ {0})
    /\ handle' = [handle EXCEPT !.tx = 0]
    /\ Goto("window", "wait")
    /\ UNCHANGED <<status, spawned, task, failed, ports, clients, totp, code, shown, pulse,
                   updateVars, commands>>

\* The task is awaited with the lock held.
Stopped ==
    /\ pc["window"] = "wait"
    /\ handle.task # 0 => task[handle.task] = "over"
    /\ handle' = NoHandle
    /\ lock' = Nobody /\ pulse' = TRUE
    /\ Goto("window", "idle")
    /\ UNCHANGED <<status, spawned, task, signalled, failed, ports, clients, totp, code, shown,
                   updateVars, commands>>

-----------------------------------------------------------------------------
(* The window and the world.                                               *)

SnapshotOnPulse ==
    /\ lock = Nobody /\ pulse
    /\ shown' = status /\ pulse' = FALSE
    /\ UNCHANGED <<status, lock, pc, handle, spawned, task, signalled, failed, ports, clients,
                   totp, code, updateVars, commands>>

\* emit_snapshot, on a pulse and on every tick.
Snapshot ==
    /\ lock = Nobody /\ (pulse \/ shown # status)
    /\ shown' = status /\ pulse' = FALSE
    /\ UNCHANGED <<status, lock, pc, handle, spawned, task, signalled, failed, ports, clients,
                   totp, code, updateVars, commands>>

\* A mail client connects, and goes when it likes.
Client(b) ==
    /\ \/ task[b] = "up" /\ clients' = clients \cup {b}
       \/ clients' = clients \ {b}
    /\ clients' # clients
    /\ UNCHANGED <<status, lock, pc, handle, spawned, task, signalled, failed, ports, totp,
                   code, shown, pulse, updateVars, commands>>

-----------------------------------------------------------------------------
(* The updater.  A setting is read from disk each time it is asked.        *)

Automatic(i) == i = "loop"
Home(i) == IF i = "loop" THEN "sleep" ELSE "idle"
UpdaterAt(i, l) == updater' = [updater EXCEPT ![i] = l]
OnlyUpdate == UNCHANGED <<bridgeVars, bundle>>

\* enabled_by_config; a configuration that cannot be read disables updates until
\* the next turn, which is no step.
AutoUpdateEnabled == autoUpdate

CheckFinds == ~installed /\ SelfUpdating

\* save_settings
SaveSettings ==
    /\ Ask /\ autoUpdate' = ~autoUpdate
    /\ UNCHANGED <<updater, installing, installed, installs>> /\ OnlyUpdate

\* A turn of the loop: look only while the setting allows it.  Whether there is
\* a new version is the world's choice.
LoopChecks ==
    /\ updater["loop"] = "sleep"
    /\ \/ installed /\ UpdaterAt("loop", "ended")
       \/ CheckFinds /\ AutoUpdateEnabled /\ UpdaterAt("loop", "found")
    /\ UNCHANGED <<autoUpdate, installing, installed, installs, commands>> /\ OnlyUpdate

LoopFound ==
    /\ updater["loop"] = "found"
    /\ IF AutoUpdateEnabled /\ BundleWritable
       THEN UpdaterAt("loop", "acquire") ELSE UpdaterAt("loop", "sleep")
    /\ UNCHANGED <<autoUpdate, installing, installed, installs, commands>> /\ OnlyUpdate

InstallUpdate ==
    /\ updater["button"] = "idle" /\ Ask
    /\ UpdaterAt("button", "acquire")
    /\ UNCHANGED <<autoUpdate, installing, installed, installs>> /\ OnlyUpdate

AcquireUnchecked(i) ==
    /\ updater[i] = "acquire"
    /\ IF installing \/ ~SelfUpdating THEN UpdaterAt(i, Home(i)) /\ UNCHANGED installing
       ELSE UpdaterAt(i, "ask") /\ installing' = TRUE
    /\ UNCHANGED <<autoUpdate, installed, installs, commands>> /\ OnlyUpdate

\* InstallGuard::acquire; then what another install may have done meanwhile.
AcquireInstall(i) ==
    /\ updater[i] = "acquire"
    /\ CASE ~SelfUpdating \/ installing -> UpdaterAt(i, Home(i)) /\ UNCHANGED installing
         [] SelfUpdating /\ ~installing /\ installed ->
              UpdaterAt(i, IF i = "loop" THEN "ended" ELSE "idle") /\ UNCHANGED installing
         [] SelfUpdating /\ ~installing /\ ~installed /\ Automatic(i) /\ ~AutoUpdateEnabled ->
              UpdaterAt(i, Home(i)) /\ UNCHANGED installing
         [] OTHER -> UpdaterAt(i, "ask") /\ installing' = TRUE
    /\ UNCHANGED <<autoUpdate, installed, installs, commands>> /\ OnlyUpdate

\* No update, an error, or a setting turned off while it was in flight: the
\* guard goes.
GiveUp(i) ==
    /\ updater[i] \in {"ask", "download"}
    /\ UpdaterAt(i, Home(i)) /\ installing' = FALSE
    /\ UNCHANGED <<autoUpdate, installed, installs, commands>> /\ OnlyUpdate

Download(i) ==
    /\ updater[i] = "ask" /\ (Automatic(i) => AutoUpdateEnabled)
    /\ UpdaterAt(i, "download")
    /\ UNCHANGED <<autoUpdate, installing, installed, installs, commands>> /\ OnlyUpdate

Install(i) ==
    /\ updater[i] = "download" /\ (Automatic(i) => AutoUpdateEnabled /\ BundleWritable)
    /\ installs' = installs + 1
    /\ installed' = TRUE /\ installing' = FALSE
    /\ UpdaterAt(i, IF i = "loop" THEN "ended" ELSE "idle")
    /\ UNCHANGED <<autoUpdate, commands>> /\ OnlyUpdate

-----------------------------------------------------------------------------
StartSteps(p) == Bind(p) \/ AwaitCode(p) \/ Announce(p) \/ Clear(p)

\* The answers of the credential store and of Tuta.
Answers(p) ==
    \/ LoadSession(p) \/ Resume(p) \/ DeleteSession(p) \/ LogIn(p) \/ Confirm(p)
    \/ SaveSession(p) \/ Spawn(p)

TaskSteps(b) == TearDown(b) \/ TaskEnds(b)

Next ==
    \/ StartBridge \/ SubmitTotp \/ StopBridge \/ Stop \/ Stopped \/ Snapshot
    \/ \E p \in Procs : Start(p) \/ StartSteps(p) \/ Answers(p)
    \/ \E b \in Bridges : TaskWakes(b) \/ TaskSteps(b) \/ Client(b)
    \/ SaveSettings \/ LoopChecks \/ LoopFound \/ InstallUpdate
    \/ \E i \in Installers : AcquireInstall(i) \/ Download(i) \/ GiveUp(i) \/ Install(i)

\* The runtime goes on with every task that can: a caller of the lock gets it
\* (tokio serves the waiters in order), the wait for a code ends by its timeout,
\* a signalled task wakes, and the status stream ticks.  Nothing makes the
\* credential store or Tuta answer a start.
Fairness ==
    /\ WF_deskVars(Start("auto") \/ StartSteps("auto"))
    /\ WF_deskVars(Start("window") \/ StartSteps("window") \/ Stop \/ Stopped)
    /\ WF_deskVars(\E b \in Bridges : TaskSteps(b) \/ (b \in signalled /\ TaskWakes(b)))
    /\ WF_deskVars(Snapshot)

DeskSpec == Init /\ [][Next]_deskVars /\ Fairness

-----------------------------------------------------------------------------
(* Properties.                                                             *)

\* The handle, the tasks and the lock are in states the code has.
DeskTypeOK ==
    /\ status \in {"Stopped", "Starting", "Running", "Error"}
    /\ lock \in Procs \cup {Nobody}
    /\ \A p \in Procs : lock = p <=> pc[p] \in Elsewhere \cup {"bind", "code", "announce", "wait"}
    /\ handle \in [{"tx", "task", "backend", "started"} -> 0..MaxBridges]
    /\ ports \in 0..Other /\ clients \subseteq 1..spawned
    /\ installing <=> \E i \in Installers : updater[i] \in {"ask", "download"}

\* A start that binds never meets the listeners of an earlier bridge, and two
\* bridges never run on the one local store: whatever ended the earlier one,
\* its ports were released before the status let a start through
\* (bridge.rs:483, "so ports are released before a subsequent start rebinds").
OneBridgeAtATime ==
    /\ \A p \in Procs : pc[p] = "bind" => ports \in {0, Other}
    /\ Cardinality({b \in Bridges : task[b] \in {"up", "down"}}) <= 1

\* A new version is installed once, however the loop and the button meet
\* (update.rs:98).
InstalledOnce == installs <= 1

\* Every command returns, and gives the lock back that the status reads need,
\* if the credential store and Tuta answer every start in the end: neither the
\* code the user never enters, nor the lock, nor a bridge that is torn down
\* holds a command up.
CommandsReturn ==
    (\A p \in Procs : []<>(pc[p] \notin Elsewhere))
        => \A p \in Procs : pc[p] # "idle" ~> pc[p] = "idle"

\* The window ends up showing the status, also when the task reported it by
\* itself with no pulse (src-tauri/main.rs:149, bridge.rs:513).
WindowCatchesUp ==
    \A s \in {"Stopped", "Running", "Error"} : <>[](status = s) => <>[](shown = s)
=============================================================================
