------------------------------ MODULE Supervisor ------------------------------
(***************************************************************************)
(* The Unix service: supervisors that share one data volume (src/service.rs *)
(* and src/service/, src/shutdown.rs), each with at most one worker process *)
(* (container_worker in src/main.rs) in a process group of its own.         *)
(*                                                                         *)
(* The volume lock is an flock: it belongs to an open file description, of  *)
(* which the supervisor and, by inheritance, its worker hold descriptors.   *)
(* The password store helpers a worker starts (pass, gpg) hold none.        *)
(*                                                                         *)
(* A supervisor may be stopped by a signal (`stop`) or killed; the timers   *)
(* (3 s for init's lock, 5 s of grace, the retry delays) expire at any time.*)
(***************************************************************************)
EXTENDS Naturals, FiniteSets

CONSTANTS
    Waiting,      \* `run --wait`: retries for ever
    Oneshot,      \* `run` in a container: one attempt
    Inits,        \* `init`
    None,
    MaxBackoff,   \* policy.rs MAX_BACKOFF, in units of POLL_DELAY
    MaxActive,    \* bound: supervisors that are started
    MaxFaults,    \* bound: failed requests, signals to a worker, killed supervisors
    MaxExpiries   \* bound: saved sessions the server stops accepting

Proc == Waiting \union Oneshot \union Inits

ASSUME SupAssumption ==
    /\ Waiting \intersect Oneshot = {}
    /\ (Waiting \union Oneshot) \intersect Inits = {}
    /\ None \notin Proc
    /\ None \notin {"ok", "failed", "killed"} /\ None \notin Nat
    /\ None \notin Nat \X Nat
    /\ None \notin {"Rejected", "Version"} \X ({None} \union (Nat \X Nat))
    /\ MaxBackoff \in Nat \ {0} /\ MaxActive \in Nat /\ MaxFaults \in Nat /\ MaxExpiries \in Nat

VARIABLES
    pc,         \* where the supervisor is
    stop,       \* the watch channel of shutdown.rs
    quit,       \* `stopped` of worker()
    exit,       \* how the supervisor ended
    held,       \* descriptors of the volume lock: <<process, who>>
    runtime,    \* holder of owner.lock
    sock,       \* who bound the health.sock that is in the runtime directory
    status,     \* what the status socket says
    blocked,    \* a rejection and the fingerprint it was made with
    seen,       \* the fingerprint read before the current attempt
    backoff,
    worker,     \* phase of the group's leader
    helper,     \* a pass or gpg call of the worker is running
    agent,      \* an adopted daemon has ended and not been reaped
    code,       \* exit code of the worker, None when a signal ended it
    config, session,        \* the volume: is it configured, which session has it
    configAt, entryAt,      \* how often either file was written
    tooOld,     \* the server refuses this version
    faults, expiries,
    rejected,   \* history: fingerprints with which the server refused p
    saved       \* history: inits whose worker stored session and configuration

volume == <<config, session, configAt, entryAt>>
bounds == <<faults, expiries>>
vars == <<pc, stop, quit, exit, held, runtime, sock, status, blocked, seen,
          backoff, worker, helper, agent, code, config, session, configAt,
          entryAt, tooOld, faults, expiries, rejected, saved>>

\* The process group of p as its supervisor sees it.
group == <<worker, helper, agent, code>>
\* What only the supervisor's loop changes.
loop == <<quit, exit, runtime, sock, blocked, seen, backoff>>

States == {"Configuration", "Session", "Storage", "Rejected", "Version",
           "Occupied", "Starting", "Network", "Failed", "Stopping",
           "Initialization"}

Alive == {"boot", "store", "login", "serving", "signin", "storing"}

Fingerprints == {None} \union (Nat \X Nat)

SupTypeOK ==
    /\ pc \in [Proc -> {"off", "top", "acquire", "watch", "term", "reap", "sleep",
                        "close", "unlock", "ended"}]
    /\ stop \in [Proc -> BOOLEAN] /\ quit \in [Proc -> BOOLEAN]
    /\ exit \in [Proc -> {None, "ok", "failed", "killed"}]
    /\ held \subseteq (Proc \X {"supervisor", "worker"})
    /\ runtime \in Proc \union {None} /\ sock \in Proc \union {None}
    /\ status \in [Proc -> [state : States, ready : BOOLEAN]]
    /\ blocked \in [Proc -> {None} \union ({"Rejected", "Version"} \X Fingerprints)]
    /\ seen \in [Proc -> Fingerprints]
    /\ backoff \in [Proc -> 1..MaxBackoff]
    /\ worker \in [Proc -> Alive \union {"none", "zombie"}]
    /\ helper \in [Proc -> BOOLEAN] /\ agent \in [Proc -> BOOLEAN]
    /\ code \in [Proc -> {None, 0, 10, 11, 12, 13, 14, 17, 18, 20}]
    /\ config \in BOOLEAN /\ session \in {"none", "bad", "good"}
    /\ configAt \in Nat /\ entryAt \in Nat /\ tooOld \in BOOLEAN
    /\ faults \in 0..MaxFaults /\ expiries \in 0..MaxExpiries
    /\ rejected \in [Proc -> SUBSET Fingerprints] /\ saved \subseteq Inits

\* Status::waiting: neither ports nor certificate nor password.
WaitingStatus(s) == [state |-> s, ready |-> FALSE]

SupInit ==
    /\ \E active \in SUBSET Proc :
          /\ Cardinality(active) = MaxActive
          /\ pc = [p \in Proc |-> IF p \in active THEN "off" ELSE "ended"]
    /\ stop = [p \in Proc |-> FALSE] /\ quit = [p \in Proc |-> FALSE]
    /\ exit = [p \in Proc |-> None]
    /\ held = {} /\ runtime = None /\ sock = None
    /\ status = [p \in Proc |-> WaitingStatus("Starting")]
    /\ blocked = [p \in Proc |-> None]
    /\ seen = [p \in Proc |-> None]
    /\ backoff = [p \in Proc |-> 1]
    /\ worker = [p \in Proc |-> "none"]
    /\ helper = [p \in Proc |-> FALSE] /\ agent = [p \in Proc |-> FALSE]
    /\ code = [p \in Proc |-> None]
    /\ \/ config = FALSE /\ session = "none"
       \/ config = TRUE /\ session \in {"none", "bad", "good"}
    /\ configAt = 0 /\ entryAt = 0
    /\ tooOld = FALSE
    /\ faults = 0 /\ expiries = 0
    /\ rejected = [p \in Proc |-> {}] /\ saved = {}

-----------------------------------------------------------------------------
(* What is read under the lock. *)

\* Lock::at succeeds: no process has a descriptor of the locked file.
VolumeFree == held = {}

\* Lock::inherited: the worker of p holds its supervisor's lock.
Inherited(p) == {<<p, "supervisor">>, <<p, "worker">>}

\* session_fingerprint(): nothing without a configuration, else the modification
\* of the configuration and of the encrypted entry.  This is the container, with
\* PASSWORD_STORE_DIR set and the session in pass; elsewhere the entry is not
\* looked at, and a session repaired in a desktop keychain needs a restart.
SessionFingerprint == IF config THEN <<configAt, entryAt>> ELSE None

\* configure_status(): ports, address and certificate of the configuration.
ConfigureStatus == [state |-> "Starting", ready |-> config]

-----------------------------------------------------------------------------
(* The pure decisions of policy.rs. *)

\* State::from_code, with the exit code of a worker a signal ended replaced as
\* worker() does (unwrap_or).
FromCode(c, init) ==
    CASE c = 10 -> "Configuration" [] c = 11 -> "Session" [] c = 12 -> "Storage"
      [] c = 13 -> "Rejected" [] c = 14 -> "Version" [] c = 17 -> "Network"
      [] c = 20 \/ (c = None /\ init) -> "Initialization"
      [] OTHER -> "Failed"

\* Mutant: a rejected session is tried again at every poll.
OnlyVersionAwaits(b, current) == b # None /\ b[1] = "Version"

AwaitsRepair(b, current) ==
    /\ b # None
    /\ b[1] = "Version" \/ (b[1] = "Rejected" /\ b[2] = current)

\* The backoff of the next attempt (retry_delay).
NextBackoff(state, b) ==
    IF state \in {"Failed", "Network"}
    THEN IF 2 * b > MaxBackoff THEN MaxBackoff ELSE 2 * b
    ELSE 1

Fault == faults < MaxFaults /\ faults' = faults + 1 /\ UNCHANGED expiries
Running(p) == pc[p] \notin {"off", "ended"}

-----------------------------------------------------------------------------
(* shutdown.rs and the life of a supervisor. *)

\* Mutant: the socket is replaced without owner.lock.
LaunchUnlocked(p) ==
    /\ pc[p] = "off"
    /\ pc' = [pc EXCEPT ![p] = "top"]
    /\ IF p \in Inits THEN UNCHANGED <<runtime, sock>> ELSE runtime' = p /\ sock' = p
    /\ UNCHANGED <<stop, quit, exit, held, status, blocked, seen, backoff, group,
                   volume, tooOld, bounds, rejected, saved>>

\* StatusServer::start: owner.lock, then the abandoned socket is removed and a
\* new one bound. An init has no status server.
Launch(p) ==
    /\ pc[p] = "off"
    /\ IF p \in Inits
       THEN pc' = [pc EXCEPT ![p] = "top"] /\ UNCHANGED <<exit, runtime, sock>>
       ELSE IF runtime = None
       THEN /\ pc' = [pc EXCEPT ![p] = "top"]
            /\ runtime' = p /\ sock' = p
            /\ UNCHANGED exit
       ELSE /\ pc' = [pc EXCEPT ![p] = "ended"]
            /\ exit' = [exit EXCEPT ![p] = "failed"]
            /\ UNCHANGED <<runtime, sock>>
    /\ UNCHANGED <<stop, quit, held, status, blocked, seen, backoff, group, volume,
                   tooOld, bounds, rejected, saved>>

\* controlled(): a signal arrives, the future is not dropped (supervised).
Signal(p) ==
    /\ Running(p) /\ ~stop[p]
    /\ stop' = [stop EXCEPT ![p] = TRUE]
    /\ UNCHANGED <<pc, held, status, loop, group, volume, tooOld, bounds, rejected,
                   saved>>

\* supervise() returns r; `server` and every guard are dropped on the way.
Return(p, r) ==
    /\ exit' = [exit EXCEPT ![p] = r]
    /\ pc' = [pc EXCEPT ![p] = IF p \in Inits THEN "ended" ELSE "close"]

\* Drop of StatusServer: first drop() itself, which removes the socket file ...
CloseSocket(p) ==
    /\ pc[p] = "close"
    /\ sock' = None
    /\ pc' = [pc EXCEPT ![p] = "unlock"]
    /\ UNCHANGED <<stop, quit, exit, held, runtime, status, blocked, seen, backoff,
                   group, volume, tooOld, bounds, rejected, saved>>

\* ... then its fields, owner.lock among them.
CloseRuntime(p) ==
    /\ pc[p] = "unlock"
    /\ runtime' = None
    /\ pc' = [pc EXCEPT ![p] = "ended"]
    /\ UNCHANGED <<stop, quit, exit, held, sock, status, blocked, seen, backoff,
                   group, volume, tooOld, bounds, rejected, saved>>

\* SIGKILL of the supervisor: its descriptors close, the socket file and the
\* worker stay. Nobody reaps for it any more; the system's init process does.
Kill(p) ==
    /\ Running(p) /\ Fault
    /\ pc' = [pc EXCEPT ![p] = "ended"]
    /\ exit' = [exit EXCEPT ![p] = "killed"]
    /\ held' = held \ {<<p, "supervisor">>}
    /\ runtime' = IF runtime = p THEN None ELSE runtime
    /\ worker' = [worker EXCEPT ![p] = IF @ = "zombie" THEN "none" ELSE @]
    /\ UNCHANGED <<stop, quit, sock, status, blocked, seen, backoff, helper, agent,
                   code, volume, tooOld, rejected, saved>>

-----------------------------------------------------------------------------
(* The loop of supervise(). *)

\* The end of an attempt: the status says why the service waits, a supervisor
\* that does not wait fails.
Outcome(p, result) ==
    /\ status' = [status EXCEPT ![p] = WaitingStatus(result)]
    /\ backoff' = [backoff EXCEPT ![p] = NextBackoff(result, @)]
    /\ IF p \in Waiting
       THEN pc' = [pc EXCEPT ![p] = "sleep"] /\ UNCHANGED exit
       ELSE Return(p, "failed")

Top(p) ==
    /\ pc[p] = "top"
    /\ IF stop[p]
       THEN Return(p, IF p \in Inits THEN "failed" ELSE "ok")
       ELSE pc' = [pc EXCEPT ![p] = "acquire"] /\ UNCHANGED exit
    /\ agent' = [agent EXCEPT ![p] = FALSE]
    /\ UNCHANGED <<stop, quit, held, runtime, sock, status, blocked, seen, backoff,
                   worker, helper, code, volume, tooOld, bounds, rejected, saved>>

\* acquire_for_init gives no lock: it is taken (an init tries again until its
\* deadline), the supervisor is stopped meanwhile, or the file cannot be opened.
AcquireFails(p) ==
    /\ pc[p] = "acquire"
    /\ \/ /\ stop[p] /\ p \in Inits
          /\ Return(p, "failed") /\ UNCHANGED <<status, backoff, bounds>>
       \/ /\ ~(stop[p] /\ p \in Inits)
          /\ \/ (stop[p] \/ ~VolumeFree) /\ Outcome(p, "Occupied") /\ UNCHANGED bounds
             \/ Fault /\ Outcome(p, "Storage")
    /\ UNCHANGED <<stop, quit, held, runtime, sock, blocked, seen, group, volume,
                   tooOld, rejected, saved>>

\* The lock is ours, but a rejection with this very fingerprint stands; or the
\* worker cannot be prepared or launched. The guard is dropped in both cases.
AcquireIdle(p) ==
    /\ pc[p] = "acquire" /\ VolumeFree /\ ~stop[p]
    /\ IF AwaitsRepair(blocked[p], SessionFingerprint)
       THEN Outcome(p, blocked[p][1]) /\ UNCHANGED bounds
       ELSE Fault /\ Outcome(p, IF p \in Inits THEN "Initialization" ELSE "Failed")
    /\ UNCHANGED <<stop, quit, held, runtime, sock, blocked, seen, group, volume,
                   tooOld, rejected, saved>>

\* Mutant: the lock's descriptor keeps CLOEXEC in the child.
SpawnWithoutLock(p) ==
    /\ pc[p] = "acquire" /\ VolumeFree /\ ~stop[p]
    /\ ~AwaitsRepair(blocked[p], SessionFingerprint)
    /\ held' = {<<p, "supervisor">>}
    /\ seen' = [seen EXCEPT ![p] = SessionFingerprint]
    /\ status' = [status EXCEPT ![p] = ConfigureStatus]
    /\ worker' = [worker EXCEPT ![p] = "boot"]
    /\ pc' = [pc EXCEPT ![p] = "watch"]
    /\ UNCHANGED <<stop, quit, exit, runtime, sock, blocked, backoff, helper, agent,
                   code, volume, tooOld, bounds, rejected, saved>>

\* The lock is ours and a worker is spawned that inherits it.
AcquireSpawn(p) ==
    /\ pc[p] = "acquire" /\ VolumeFree /\ ~stop[p]
    /\ ~AwaitsRepair(blocked[p], SessionFingerprint)
    /\ held' = Inherited(p)
    /\ seen' = [seen EXCEPT ![p] = SessionFingerprint]
    /\ status' = [status EXCEPT ![p] = ConfigureStatus]
    /\ worker' = [worker EXCEPT ![p] = "boot"]
    /\ pc' = [pc EXCEPT ![p] = "watch"]
    /\ UNCHANGED <<stop, quit, exit, runtime, sock, blocked, backoff, helper, agent,
                   code, volume, tooOld, bounds, rejected, saved>>

\* Mutant: the leader is reaped with the adopted daemons.
ReapEverything(p) ==
    /\ pc[p] = "watch" /\ (agent[p] \/ worker[p] = "zombie")
    /\ agent' = [agent EXCEPT ![p] = FALSE]
    /\ worker' = [worker EXCEPT ![p] = IF @ = "zombie" THEN "none" ELSE @]
    /\ UNCHANGED <<pc, stop, held, status, loop, helper, code, volume, tooOld,
                   bounds, rejected, saved>>

\* The interval of worker(): reap_agents(Some(pid)) takes adopted daemons and
\* leaves the leader, whose PID reserves the group; the status is read again.
ReapAgents(p) ==
    /\ pc[p] = "watch" /\ agent[p]
    /\ agent' = [agent EXCEPT ![p] = FALSE]
    /\ status' = [status EXCEPT ![p] = ConfigureStatus]
    /\ UNCHANGED <<pc, stop, held, loop, worker, helper, code, volume, tooOld,
                   bounds, rejected, saved>>

\* The select of worker() ends, by the leader's exit or by a stop, and
\* terminate_group sends SIGTERM to the group.
Terminate(p) ==
    /\ pc[p] = "watch"
    /\ \/ worker[p] \notin Alive /\ quit' = [quit EXCEPT ![p] = FALSE]
       \/ stop[p] /\ quit' = [quit EXCEPT ![p] = TRUE]
    /\ pc' = [pc EXCEPT ![p] = "term"]
    /\ UNCHANGED <<stop, exit, held, runtime, sock, status, blocked, seen, backoff,
                   group, volume, tooOld, bounds, rejected, saved>>

\* Mutant: no SIGKILL, the leader's exit is awaited.
KillPatiently(p) ==
    /\ pc[p] = "term" /\ worker[p] \notin Alive
    /\ helper' = [helper EXCEPT ![p] = FALSE]
    /\ held' = held \ {<<p, "worker">>}
    /\ pc' = [pc EXCEPT ![p] = "reap"]
    /\ UNCHANGED <<stop, status, loop, worker, agent, code, volume, tooOld, bounds,
                   rejected, saved>>

\* The leader has exited or the grace period is over: SIGKILL to the group.
KillGroup(p) ==
    /\ pc[p] = "term"
    /\ IF worker[p] \in Alive
       THEN /\ worker' = [worker EXCEPT ![p] = "zombie"]
            /\ code' = [code EXCEPT ![p] = None]
       ELSE UNCHANGED <<worker, code>>
    /\ helper' = [helper EXCEPT ![p] = FALSE]
    /\ held' = held \ {<<p, "worker">>}
    /\ pc' = [pc EXCEPT ![p] = "reap"]
    /\ UNCHANGED <<stop, status, loop, agent, volume, tooOld, bounds, rejected, saved>>

\* Mutant: a stopped attempt counts as done whatever it has done.
JudgeStopped(p) ==
    /\ IF quit[p] \/ code[p] = 0
       THEN Return(p, "ok") /\ UNCHANGED <<status, backoff>>
       ELSE Outcome(p, FromCode(code[p], p \in Inits))
    /\ UNCHANGED blocked

\* What worker() makes of the exit code and supervise() of that: a stopped attempt
\* is over, unless it is an init that has succeeded; a rejection is remembered.
Judge(p) ==
    LET result == FromCode(code[p], p \in Inits)
    IN
    \/ /\ quit[p] /\ ~(p \in Inits /\ code[p] = 0)
       /\ Return(p, IF p \in Inits THEN "failed" ELSE "ok")
       /\ UNCHANGED <<status, backoff, blocked>>
    \/ /\ ~quit[p] \/ p \in Inits
       /\ code[p] = 0
       /\ Return(p, "ok")
       /\ UNCHANGED <<status, backoff, blocked>>
    \/ /\ ~quit[p] /\ code[p] # 0
       /\ Outcome(p, result)
       /\ blocked' = IF result \in {"Rejected", "Version"}
                     THEN [blocked EXCEPT ![p] = <<result, seen[p]>>]
                     ELSE blocked

\* The leader and the rest of its group are waited for, the result is judged and
\* the volume lock is dropped last.
Reap(p) ==
    /\ pc[p] = "reap" /\ ~helper[p]
    /\ worker' = [worker EXCEPT ![p] = "none"]
    /\ agent' = [agent EXCEPT ![p] = FALSE]
    /\ held' = held \ {<<p, "supervisor">>}
    /\ Judge(p)
    /\ quit' = [quit EXCEPT ![p] = FALSE] /\ seen' = [seen EXCEPT ![p] = None]
    /\ code' = [code EXCEPT ![p] = None]
    /\ UNCHANGED <<stop, runtime, sock, helper, volume, tooOld, bounds, rejected,
                   saved>>

\* Mutant: the wait ends with a stop only.
SleepUntilStopped(p) ==
    /\ pc[p] = "sleep" /\ stop[p]
    /\ status' = [status EXCEPT ![p] = WaitingStatus("Stopping")]
    /\ Return(p, "ok")
    /\ UNCHANGED <<stop, quit, held, runtime, sock, blocked, seen, backoff, group,
                   volume, tooOld, bounds, rejected, saved>>

\* The wait between two attempts.
Sleep(p) ==
    /\ pc[p] = "sleep"
    /\ \/ /\ stop[p]
          /\ status' = [status EXCEPT ![p] = WaitingStatus("Stopping")]
          /\ Return(p, "ok")
       \/ pc' = [pc EXCEPT ![p] = "top"] /\ UNCHANGED <<status, exit>>
    /\ agent' = [agent EXCEPT ![p] = FALSE]
    /\ UNCHANGED <<stop, quit, held, runtime, sock, blocked, seen, backoff, worker,
                   helper, code, volume, tooOld, bounds, rejected, saved>>

-----------------------------------------------------------------------------
(* The worker: container_worker() of main.rs. *)

\* The leader ends; the kernel closes its descriptors. A worker whose supervisor
\* is gone is reaped by the system.
Exits(p, c) ==
    /\ worker' = [worker EXCEPT ![p] = IF pc[p] = "ended" THEN "none" ELSE "zombie"]
    /\ code' = [code EXCEPT ![p] = c]
    /\ held' = held \ {<<p, "worker">>}

\* bootstrap(): the storage check, or for an init the creation of the store.
Boot(p) ==
    /\ worker[p] = "boot"
    /\ \/ /\ p \in Inits
          /\ worker' = [worker EXCEPT ![p] = "signin"]
          /\ UNCHANGED <<held, code, helper, bounds>>
       \/ /\ p \notin Inits /\ ~config
          /\ Exits(p, 10) /\ UNCHANGED <<helper, bounds>>
       \/ Fault /\ Exits(p, 12) /\ UNCHANGED helper
       \/ /\ p \notin Inits /\ config
          /\ worker' = [worker EXCEPT ![p] = "store"]
          /\ helper' = [helper EXCEPT ![p] = TRUE]
          /\ UNCHANGED <<held, code, bounds>>
    /\ UNCHANGED <<pc, stop, status, loop, agent, volume, tooOld, rejected, saved>>

\* load_persisted(): the helper returns, with an entry, without, or in error.
LoadPersisted(p) ==
    /\ worker[p] = "store" /\ helper[p]
    /\ helper' = [helper EXCEPT ![p] = FALSE]
    /\ agent' = [agent EXCEPT ![p] = TRUE]
    /\ \/ session = "none" /\ Exits(p, 11) /\ UNCHANGED bounds
       \/ Fault /\ Exits(p, 12)
       \/ /\ session # "none"
          /\ worker' = [worker EXCEPT ![p] = "login"]
          /\ UNCHANGED <<held, code, bounds>>
    /\ UNCHANGED <<pc, stop, status, loop, volume, tooOld, rejected, saved>>

\* login_with_persistence() with the saved session, and what its error becomes.
Login(p) ==
    /\ worker[p] = "login"
    /\ \/ Fault /\ Exits(p, 17) /\ UNCHANGED rejected
       \/ tooOld /\ Exits(p, 14) /\ UNCHANGED <<bounds, rejected>>
       \/ /\ ~tooOld /\ session = "bad"
          /\ Exits(p, 13)
          /\ rejected' = [rejected EXCEPT ![p] = @ \union {SessionFingerprint}]
          /\ UNCHANGED bounds
       \/ /\ ~tooOld /\ session = "good"
          /\ worker' = [worker EXCEPT ![p] = "serving"]
          /\ UNCHANGED <<held, code, bounds, rejected>>
    /\ UNCHANGED <<pc, stop, status, loop, helper, agent, volume, tooOld, saved>>

\* serve_bridge() under shutdown::run: a server ends in error, or SIGTERM (of
\* terminate_group, or of somebody else) ends it in order.
Serve(p) ==
    /\ worker[p] = "serving"
    /\ \/ Fault /\ \E c \in {0, 18} : Exits(p, c)
       \/ pc[p] = "term" /\ Exits(p, 0) /\ UNCHANGED bounds
    /\ UNCHANGED <<pc, stop, status, loop, helper, agent, volume, tooOld, rejected,
                   saved>>

\* initialize(): the user signs in and the session is stored ...
SignIn(p) ==
    /\ worker[p] = "signin"
    /\ \/ /\ Fault /\ Exits(p, 20)
          /\ UNCHANGED <<session, entryAt>>
       \/ /\ worker' = [worker EXCEPT ![p] = "storing"]
          /\ session' = "good"
          /\ entryAt' = entryAt + 1
          /\ UNCHANGED <<held, code, bounds>>
    /\ UNCHANGED <<pc, stop, status, loop, helper, agent, config, configAt, tooOld,
                   rejected, saved>>

\* ... then the password, the certificate and the configuration.
StoreConfig(p) ==
    /\ worker[p] = "storing"
    /\ \/ Fault /\ Exits(p, 20) /\ UNCHANGED <<config, configAt, saved>>
       \/ /\ config' = TRUE
          /\ configAt' = configAt + 1
          /\ saved' = saved \union {p}
          /\ Exits(p, 0) /\ UNCHANGED bounds
    /\ UNCHANGED <<pc, stop, status, loop, helper, agent, session, entryAt, tooOld, rejected>>

\* A signal ends the leader where no handler is installed: SIGTERM of the
\* supervisor before serve_bridge(), or a crash. Its helper lives on.
Dies(p) ==
    /\ worker[p] \in Alive
    /\ \/ pc[p] = "term" /\ worker[p] # "serving" /\ UNCHANGED bounds
       \/ Fault
    /\ Exits(p, None)
    /\ UNCHANGED <<pc, stop, status, loop, helper, agent, volume, tooOld, rejected,
                   saved>>

\* A helper whose worker is gone may end by itself.
HelperEnds(p) ==
    /\ helper[p] /\ worker[p] \notin Alive
    /\ helper' = [helper EXCEPT ![p] = FALSE]
    /\ UNCHANGED <<pc, stop, held, status, loop, worker, agent, code, volume, tooOld,
                   bounds, rejected, saved>>

-----------------------------------------------------------------------------
(* The server and the user. *)

\* The server stops accepting the saved session, or this version.
Expire ==
    /\ expiries < MaxExpiries
    /\ expiries' = expiries + 1
    /\ \/ session = "good" /\ session' = "bad" /\ UNCHANGED tooOld
       \/ ~tooOld /\ tooOld' = TRUE /\ UNCHANGED session
    /\ UNCHANGED <<pc, stop, held, status, loop, group, config, configAt, entryAt,
                   faults, rejected, saved>>

Supervise(p) ==
    \/ Top(p) \/ AcquireFails(p) \/ AcquireIdle(p) \/ AcquireSpawn(p)
    \/ ReapAgents(p) \/ Terminate(p) \/ KillGroup(p) \/ Reap(p) \/ Sleep(p)
    \/ CloseSocket(p) \/ CloseRuntime(p)

Work(p) ==
    \/ Boot(p) \/ LoadPersisted(p) \/ Login(p) \/ Serve(p) \/ SignIn(p)
    \/ StoreConfig(p) \/ Dies(p)

SupNext ==
    \/ \E p \in Proc : Launch(p) \/ Signal(p) \/ Kill(p) \/ Supervise(p) \/ Work(p)
                       \/ HelperEnds(p)
    \/ Expire

SupSpec == SupInit /\ [][SupNext]_vars

\* A supervisor that runs is polled and its timers expire, whatever its worker
\* does. The worker of a waiting service goes on, as far as its helper returns.
SupFairSpec ==
    /\ SupSpec
    /\ \A p \in Proc : WF_vars(Supervise(p))
    /\ \A p \in Waiting : WF_vars(Boot(p) \/ LoadPersisted(p) \/ Login(p))

-----------------------------------------------------------------------------
(* Properties. *)

\* One worker at a time uses the volume, even when supervisors are killed and
\* leave a worker behind; and what a worker has started (pass, gpg) never works on
\* the volume after its lock is free, unless its supervisor was killed
\* (service.rs: the group is killed and reaped "before releasing that lock").
ExclusiveVolume ==
    /\ \A p, q \in Proc : worker[p] \in Alive /\ worker[q] \in Alive => p = q
    /\ \A p \in Proc : helper[p] /\ exit[p] # "killed"
                          => <<p, "supervisor">> \in held

\* As long as the supervisor may still signal the group, its leader is not reaped,
\* so that the number it signals is its own group and not a later one
\* (terminate_group, reap_agents).
SignalsOwnGroup ==
    \A p \in Proc : pc[p] \in {"watch", "term"} => worker[p] # "none"

\* A session the server has refused is not presented again until the volume has
\* changed, and a version it has refused never (awaits_repair).
RejectedNotRetried ==
    \A p \in Proc : worker[p] = "login" =>
        /\ SessionFingerprint \notin rejected[p]
        /\ blocked[p] # None => blocked[p][1] # "Version"

\* `init` ends well only when its worker has stored session and configuration, a
\* stop that arrives while it does notwithstanding.
InitTruthful == \A p \in Inits : exit[p] = "ok" => p \in saved

\* The socket in the runtime directory is that of the service which runs: neither
\* an abandoned one nor one that another supervisor removed or replaced.
StatusReachable ==
    \A p \in Waiting \union Oneshot :
        pc[p] \notin {"off", "unlock", "ended"} => sock = p

\* A supervisor told to stop ends, even when its worker ignores SIGTERM or waits
\* for a helper that never returns.
StopEnds == \A p \in Proc : stop[p] ~> (pc[p] = "ended")

\* health::check() of the runtime directory: the status may be probed
\* (probe_target), and both servers answer (probe).
ProbeTarget(st) == st.state = "Starting" /\ st.ready
BothAnswer == \E p \in Proc : worker[p] = "serving"
Healthy ==
    /\ sock # None /\ pc[sock] # "ended"
    /\ ProbeTarget(status[sock])
    /\ BothAnswer

\* A waiting service is healthy in the end, and stays so, once the volume holds a
\* configuration and a session the server accepts and nobody else uses it; what
\* was wrong before, and when the repair came, does not matter.  It is said of the
\* container, where the fingerprint has the entry of pass.
ServiceRecovers ==
    \A p \in Waiting :
        <>[](/\ config /\ session = "good" /\ ~tooOld
             /\ Running(p) /\ ~stop[p]
             /\ \A q \in Proc \ {p} : ~Running(q) /\ worker[q] = "none")
            => <>[](sock = p /\ Healthy)

=============================================================================
