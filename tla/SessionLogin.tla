---------------------------- MODULE SessionLogin ----------------------------
(***************************************************************************)
(* The saved Tuta session and the logins that read, replace and delete it: *)
(* session_store (mod.rs, pass.rs, keyring.rs, codec.rs), the login of     *)
(* tuta.rs and its callers in the CLI (main.rs) and the desktop            *)
(* application.                                                            *)
(*                                                                         *)
(* A process holds one SessionStore; its clones share one mutex that is    *)
(* held during the I/O, so each store operation is one step.  Processes    *)
(* share the entry of the keychain or password store, which none of them   *)
(* locks.  A session is an opaque value: what codec.rs decodes is either   *)
(* one, or an entry whose bytes are not a session ("invalid").             *)
(***************************************************************************)
EXTENDS Naturals, FiniteSets

CONSTANTS
    Desktop,        \* desktop processes: one store for the process's life
    Interactive,    \* tutabridge, tutabridge backup
    Initializing,   \* tutabridge init
    Services,       \* tutabridge run --non-interactive, the container worker
    Setups,         \* the installations considered, a subset of SetupNames
    Sessions,       \* the sessions Tuta may hand out
    MaxPolls,       \* the 30 polls of a second factor
    MaxFaults,      \* bound: failures of the backend, crashes, expiries
    MaxActive,      \* bound: processes logged in or logging in at a time
    None

SetupNames == {"keyring", "pass", "container"}
Procs == Desktop \cup Interactive \cup Initializing \cup Services

\* What an entry, a cache or a read may be instead of a session.
Marks == {"absent", "invalid", "damaged", "unavailable", "failed", "unloaded", "never"}

ASSUME LoginConstants ==
    /\ Setups \subseteq SetupNames
    /\ IsFiniteSet(Sessions) /\ Sessions # {}
    /\ MaxPolls \in Nat \ {0} /\ MaxActive \in Nat \ {0} /\ MaxFaults \in Nat
    /\ None \notin Sessions \cup Marks /\ Sessions \cap Marks = {}

VARIABLES
    setup,      \* the installation: keychain, pass, or pass in the container
    entry,      \* the saved entry
    backend,    \* "ok", "locked" (keychain unavailable) or "failing"
    valid,      \* the sessions Tuta accepts
    issued,     \* the sessions Tuta has handed out
    store,      \* store[p]: the cache, the right to write, the warning
    pc, pw,     \* the login of p: where it is, whether it has a password
    tok,        \* the session p resumes or has just been given
    polls,      \* polls of the second factor made
    staged,     \* what write_preserving has encrypted beside the entry
    inspecting, \* desktop processes with a has_saved_session under way
    faults,     \* faults that have happened
    seen,       \* ghost: what p last learned of the entry from the backend
    rejected    \* ghost: the sessions Tuta has refused to p's store

disk == <<setup, entry, backend, staged>>
server == <<valid, issued>>
login == <<pc, pw, tok, polls>>
ghosts == <<seen, rejected>>
loginVars == <<disk, server, store, login, inspecting, faults, ghosts>>

Persistence == {"writable", "unreadable", "replaceInvalid", "volatile"}
Failures == {"invalid", "unavailable", "failed"}
Container == setup = "container"

NewStore == [cache |-> "unloaded", persistence |-> "writable", warning |-> FALSE]

Init ==
    /\ setup \in Setups
    /\ entry \in {"absent", "invalid"} \cup Sessions
    /\ backend = "ok"
    /\ issued = {entry} \cap Sessions /\ valid = issued
    /\ store = [p \in Procs |-> NewStore]
    /\ pc = [p \in Procs |-> "idle"]
    /\ pw = [p \in Procs |-> FALSE]
    /\ tok = [p \in Procs |-> None]
    /\ polls = [p \in Procs |-> 0]
    /\ staged = None
    /\ inspecting = {}
    /\ faults = 0
    /\ seen = [p \in Procs |-> "never"]
    /\ rejected = [p \in Procs |-> {}]

Fault == faults < MaxFaults /\ faults' = faults + 1

-----------------------------------------------------------------------------
(* The policies.                                                           *)

\* PersistencePolicy as login_session, the container and the desktop choose it.
Policy(p) ==
    IF Container THEN "preserve"
    ELSE IF p \in Desktop \cup Interactive THEN "allowVolatile" ELSE "required"

\* LoginMode::may_prompt
MayPrompt(p) == p \in Interactive \cup Initializing

-----------------------------------------------------------------------------
(* The backends.                                                           *)

\* keyring.rs: only NoEntry means absence; bytes that are not UTF-8 are an
\* entry that does not decode; a locked or missing service is "unavailable",
\* anything else "failed".
KeyringRead ==
    IF backend = "locked" THEN "unavailable"
    ELSE IF backend = "failing" THEN "failed"
    ELSE IF entry = "absent" THEN None ELSE entry

\* pass.rs: a missing file is absence, even where gpg would fail; the exit
\* status of `pass show` cannot tell a missing key from a damaged file.
PassRead ==
    IF entry = "absent" THEN None
    ELSE IF backend # "ok" \/ entry = "damaged" THEN "failed" ELSE entry

BackendRead == IF setup = "keyring" THEN KeyringRead ELSE PassRead

\* What the read tells the store: a session, None, or a failure.
Decoded == BackendRead

\* The entry a write of session t leaves, and whether it is reported as
\* saved.  A `pass insert` that fails may have begun to overwrite the file;
\* one that has written it and fails afterwards (a commit of the password
\* store's repository) is left out.
WriteResults(t) ==
    {[entry |-> t, ok |-> TRUE], [entry |-> entry, ok |-> FALSE]}
    \cup IF setup = "keyring" THEN {}
         ELSE {[entry |-> "damaged", ok |-> FALSE]}

\* A delete that succeeds leaves no entry; one that fails leaves it alone.
DeleteResults ==
    {[entry |-> "absent", ok |-> TRUE], [entry |-> entry, ok |-> FALSE]}

-----------------------------------------------------------------------------
(* The store's operations: the new state s, the result r, and whether the  *)
(* backend was read.                                                       *)

\* State::load
Load(s) ==
    IF s.cache # "unloaded" THEN [s |-> s, r |-> s.cache, read |-> FALSE]
    ELSE IF Decoded \in Failures
    THEN [s |-> [s EXCEPT !.persistence = "unreadable", !.warning = TRUE],
          r |-> Decoded, read |-> TRUE]
    ELSE [s |-> [cache |-> Decoded, persistence |-> "writable", warning |-> FALSE],
          r |-> Decoded, read |-> TRUE]

\* State::load_for_password: an invalid entry may be replaced after the login;
\* an unavailable keychain may be left alone for a session in memory only.
LoadForPassword(s, allowVolatile) ==
    LET l == Load(s) IN
    CASE l.r = "invalid" ->
           [l EXCEPT !.s = [@ EXCEPT !.persistence = "replaceInvalid"], !.r = None]
      [] l.r = "unavailable" /\ allowVolatile ->
           [l EXCEPT !.s = [@ EXCEPT !.persistence = "volatile", !.cache = None], !.r = None]
      [] OTHER -> l

\* SessionStore::load_persisted
LoadPersisted(s, password) ==
    LET l == IF password THEN LoadForPassword(s, FALSE) ELSE Load(s)
    IN IF l.r \notin Failures
          /\ \/ l.s.persistence = "volatile"
             \/ l.r \in Sessions /\ l.s.warning
       THEN [l EXCEPT !.r = "failed"] ELSE l

\* State::save_with_policy, up to the write itself.
SaveAllowed(s) == s.persistence # "unreadable"
SaveUnlessVolatile(s) == s.persistence # "volatile"
SaveWrites(s) == s.persistence \in {"writable", "replaceInvalid"}
Cached(s, t) ==
    [s EXCEPT !.cache = t,
              !.persistence = IF s.persistence = "volatile" THEN @ ELSE "writable"]

\* State::delete: whether the entry is touched, and the tombstone.
DeleteAllowed(s) == s.persistence \notin {"unreadable", "replaceInvalid"}
DeleteWrites(s) == s.persistence = "writable"
Uncached(s) == IF DeleteAllowed(s) THEN [s EXCEPT !.cache = "unloaded"] ELSE s
Tombstone(s) == IF DeleteAllowed(s) THEN [s EXCEPT !.cache = None] ELSE s

\* What p knows of the entry once it has run the load l.
Learned(p, l) == IF l.read THEN [seen EXCEPT ![p] = Decoded] ELSE seen

-----------------------------------------------------------------------------
(* The login.  An error of the first attempt of the CLI, made without a    *)
(* password, decides whether it asks for one.                              *)

\* The match of login_session on the first attempt's error.
AfterError(p, error) ==
    IF p \in Desktop \/ pw[p] \/ ~MayPrompt(p) THEN "failed" ELSE
    CASE error = "rejected" \/ error = "invalid" -> "prompt"
      [] error = "unavailable" -> IF Policy(p) = "allowVolatile" THEN "prompt" ELSE "failed"
      [] error = "failed" -> "failed"
      [] OTHER -> "recheck"

Goto(p, where) == pc' = [pc EXCEPT ![p] = where]
Give(p, t) == tok' = [tok EXCEPT ![p] = t]

\* One login at a time holds the container's volume lock.
MayStart(p) ==
    LET active == {q \in Procs : pc[q] # "idle"} IN
    /\ pc[p] = "idle"
    /\ Cardinality(active) < MaxActive
    /\ Container => p \notin Desktop \cup Interactive /\ active = {}

\* A CLI process starts with a store of its own; the desktop keeps the one of
\* its BridgeHandle, and start_bridge has the password the user typed, if any.
Begin(p) ==
    /\ MayStart(p)
    /\ \E password \in IF p \in Desktop THEN BOOLEAN ELSE {FALSE} :
          pw' = [pw EXCEPT ![p] = password]
    /\ Goto(p, IF p \in Services THEN "gate" ELSE "load")
    /\ UNCHANGED <<disk, server, store, tok, polls, inspecting, faults, ghosts>>

\* auto_start: the desktop resumes by itself when there is a session.
AutoStart(p) ==
    LET l == Load(store[p]) IN
    /\ p \in Desktop /\ MayStart(p)
    /\ store' = [store EXCEPT ![p] = l.s]
    /\ seen' = Learned(p, l)
    /\ IF l.r \in Sessions THEN Goto(p, "load") ELSE UNCHANGED pc
    /\ UNCHANGED <<disk, server, pw, tok, polls, inspecting, faults, rejected>>

\* A service needs a saved session before it tries anything.
Gate(p) ==
    LET l == LoadPersisted(store[p], FALSE) IN
    /\ pc[p] = "gate"
    /\ store' = [store EXCEPT ![p] = l.s]
    /\ seen' = Learned(p, l)
    /\ Goto(p, IF l.r \in Sessions THEN "load" ELSE "failed")
    /\ UNCHANGED <<disk, server, pw, tok, polls, inspecting, faults, rejected>>

\* login_with_persistence up to the first request.
LoadSession(p) ==
    LET l == IF Policy(p) # "allowVolatile" THEN LoadPersisted(store[p], pw[p])
             ELSE IF pw[p] THEN LoadForPassword(store[p], TRUE) ELSE Load(store[p])
    IN
    /\ pc[p] = "load"
    /\ store' = [store EXCEPT ![p] = l.s]
    /\ seen' = Learned(p, l)
    /\ Give(p, IF l.r \in Sessions THEN l.r ELSE None)
    /\ Goto(p, IF l.r \in Sessions THEN "resume"
               ELSE IF l.r \in Failures THEN AfterError(p, l.r)
               ELSE IF pw[p] THEN "authenticate" ELSE AfterError(p, "nopassword"))
    /\ UNCHANGED <<disk, server, pw, polls, inspecting, faults, rejected>>

\* sdk.login of the saved session, and classify_resume_failure.  A refusal of
\* this client version and an outage say nothing of the session.
Resumed(p) ==
    /\ pc[p] = "resume" /\ tok[p] \in valid
    /\ Goto(p, "done")
    /\ UNCHANGED <<disk, server, store, pw, tok, polls, inspecting, faults, ghosts>>

ResumeInvalid(p) ==
    /\ pc[p] = "resume" /\ tok[p] \notin valid
    /\ rejected' = [rejected EXCEPT ![p] = @ \cup {tok[p]}]
    /\ Goto(p, IF Policy(p) # "preserve" THEN "delete"
               ELSE IF pw[p] THEN "authenticate" ELSE AfterError(p, "rejected"))
    /\ UNCHANGED <<disk, server, store, pw, tok, polls, inspecting, faults, seen>>

ResumeKept(p) ==
    /\ pc[p] = "resume"
    /\ Fault
    /\ Goto(p, AfterError(p, "kept"))
    /\ UNCHANGED <<disk, server, store, pw, tok, polls, inspecting, ghosts>>

\* The refused session is forgotten; a failure to do so is only logged.
DeleteStale(p) ==
    /\ pc[p] = "delete"
    /\ IF DeleteWrites(store[p])
       THEN \E d \in DeleteResults :
              /\ store' = [store EXCEPT ![p] = [Tombstone(@) EXCEPT !.warning = ~d.ok]]
              /\ entry' = d.entry
              /\ seen' = IF d.ok THEN [seen EXCEPT ![p] = None] ELSE seen
              /\ IF d.ok THEN UNCHANGED faults ELSE Fault
       ELSE /\ store' = [store EXCEPT ![p] = Tombstone(@)]
            /\ UNCHANGED <<entry, seen, faults>>
    /\ Goto(p, IF pw[p] THEN "authenticate" ELSE AfterError(p, "nopassword"))
    /\ UNCHANGED <<setup, backend, staged, server, pw, tok, polls, inspecting, rejected>>

AlwaysPrompt(p) ==
    /\ pc[p] = "recheck"
    /\ Goto(p, "prompt")
    /\ UNCHANGED <<disk, server, store, pw, tok, polls, inspecting, faults, ghosts>>

\* `Err(e) if store.load().await?.is_some()`: a session that was kept is no
\* reason to ask for a password.
Recheck(p) ==
    LET l == Load(store[p]) IN
    /\ pc[p] = "recheck"
    /\ store' = [store EXCEPT ![p] = l.s]
    /\ seen' = Learned(p, l)
    /\ Goto(p, IF l.r = None THEN "prompt" ELSE "failed")
    /\ UNCHANGED <<disk, server, pw, tok, polls, inspecting, faults, rejected>>

\* The password prompt, and the second attempt.
Prompt(p) ==
    /\ pc[p] = "prompt"
    /\ pw' = [pw EXCEPT ![p] = TRUE]
    /\ \E where \in {"load", "failed"} : Goto(p, where)
    /\ UNCHANGED <<disk, server, store, tok, polls, inspecting, faults, ghosts>>

\* initiate_session: refused, or a new session, with or without a TOTP
\* challenge (an account with another second factor fails like a refusal).
Authenticate(p) ==
    /\ pc[p] = "authenticate"
    /\ \/ /\ \E t \in Sessions \ issued :
               issued' = issued \cup {t} /\ valid' = valid \cup {t} /\ Give(p, t)
          /\ \E where \in {"poll", "login"} : Goto(p, where)
       \/ Goto(p, "failed") /\ UNCHANGED <<tok, server>>
    /\ polls' = [polls EXCEPT ![p] = 0]
    /\ UNCHANGED <<disk, store, pw, inspecting, faults, ghosts>>

\* The code is checked, then is_second_factor_pending is asked once a second.
PollSecondFactor(p) ==
    /\ pc[p] = "poll"
    /\ \/ Goto(p, "login") /\ UNCHANGED polls
       \/ Goto(p, "failed") /\ UNCHANGED polls
       \/ /\ polls' = [polls EXCEPT ![p] = @ + 1]
          /\ Goto(p, IF polls[p] + 1 = MaxPolls THEN "failed" ELSE "poll")
    /\ UNCHANGED <<disk, server, store, pw, tok, inspecting, faults, ghosts>>

LoginFresh(p) ==
    /\ pc[p] = "login"
    /\ \/ tok[p] \in valid /\ Goto(p, "save")
       \/ Goto(p, "failed")
    /\ UNCHANGED <<disk, server, store, pw, tok, polls, inspecting, faults, ghosts>>

AcceptUnsaved(p, saved) == "done"

\* accept_session_save: only the desktop and the interactive CLI go on with a
\* session they could not save.
Accepted(p, saved) == IF saved \/ Policy(p) = "allowVolatile" THEN "done" ELSE "failed"

\* SessionStore::save
Save(p) ==
    /\ pc[p] = "save" /\ Policy(p) # "preserve"
    /\ IF SaveWrites(store[p])
       THEN \E w \in WriteResults(tok[p]) :
              /\ entry' = w.entry
              /\ seen' = IF w.ok THEN [seen EXCEPT ![p] = tok[p]] ELSE seen
              /\ store' = [store EXCEPT ![p] = [Cached(@, tok[p]) EXCEPT !.warning = ~w.ok]]
              /\ IF w.ok THEN UNCHANGED faults ELSE Fault
              /\ Goto(p, Accepted(p, w.ok))
       ELSE /\ store' = [store EXCEPT ![p] = IF SaveAllowed(@) THEN Cached(@, tok[p]) ELSE @]
            /\ Goto(p, Accepted(p, FALSE))
            /\ UNCHANGED <<entry, seen, faults>>
    /\ UNCHANGED <<setup, backend, staged, server, pw, tok, polls, inspecting, rejected>>

\* write_preserving: encrypt beside the entry, sweeping what an interrupted
\* run left; the ciphertext may be one that cannot be read back.
Stage(p) ==
    /\ pc[p] = "save" /\ Policy(p) = "preserve"
    /\ IF SaveWrites(store[p])
       THEN \/ staged' = tok[p] /\ UNCHANGED faults /\ Goto(p, "commit")
            \/ staged' = "damaged" /\ Fault /\ Goto(p, "commit")
       ELSE UNCHANGED <<staged, faults>> /\ Goto(p, "failed")
    /\ store' = [store EXCEPT ![p] = IF SaveAllowed(@) THEN Cached(@, tok[p]) ELSE @]
    /\ UNCHANGED <<setup, entry, backend, server, pw, tok, polls, inspecting, ghosts>>

Unverified(p) == TRUE

\* The read-back verification of the staged ciphertext.
Verified(p) == staged = tok[p] /\ backend = "ok"

\* Verified, synced and renamed over the entry: the commit point.  What fails
\* after it (the directory's sync, the Git history) is only logged.
Commit(p) ==
    /\ pc[p] = "commit"
    /\ IF Verified(p)
       THEN /\ entry' = staged
            /\ seen' = [seen EXCEPT ![p] = tok[p]]
       ELSE UNCHANGED <<entry, seen>>
    /\ store' = [store EXCEPT ![p] = [@ EXCEPT !.warning = ~Verified(p)]]
    /\ staged' = None
    /\ Goto(p, Accepted(p, Verified(p)))
    /\ UNCHANGED <<setup, backend, server, pw, tok, polls, inspecting, faults, rejected>>

\* The bridge runs until it is stopped, or the login has failed.  The desktop
\* keeps its store; a CLI process ends.
Ended(p) ==
    /\ pw' = [pw EXCEPT ![p] = FALSE]
    /\ tok' = [tok EXCEPT ![p] = None]
    /\ polls' = [polls EXCEPT ![p] = 0]
    /\ Goto(p, "idle")

Forgotten(p) ==
    /\ store' = [store EXCEPT ![p] = NewStore]
    /\ seen' = [seen EXCEPT ![p] = "never"]
    /\ rejected' = [rejected EXCEPT ![p] = {}]

End(p) ==
    /\ pc[p] \in {"done", "failed"}
    /\ Ended(p)
    /\ IF p \in Desktop THEN UNCHANGED <<store, ghosts>> ELSE Forgotten(p)
    /\ UNCHANGED <<disk, server, inspecting, faults>>

\* The process dies; a plain `pass insert` it was running may leave half a file.
Crash(p) ==
    /\ pc[p] \notin {"idle"} /\ Fault
    /\ Ended(p) /\ Forgotten(p)
    /\ inspecting' = inspecting \ {p}
    /\ IF pc[p] = "save" /\ Policy(p) # "preserve" /\ setup = "pass" /\ SaveWrites(store[p])
       THEN entry' \in {entry, "damaged"} ELSE UNCHANGED entry
    /\ UNCHANGED <<setup, backend, staged, server>>

-----------------------------------------------------------------------------
(* has_saved_session: it takes a clone of the store under the bridge lock, *)
(* which a login holds, and inspects it afterwards without the lock.       *)

AskSaved(p) ==
    /\ p \in Desktop \ inspecting /\ pc[p] \in {"idle", "done"} /\ ~Container
    /\ inspecting' = inspecting \cup {p}
    /\ UNCHANGED <<disk, server, store, login, faults, ghosts>>

\* State::inspect runs State::load, with its effects.
Inspect(p) ==
    LET l == Load(store[p]) IN
    /\ p \in inspecting
    /\ inspecting' = inspecting \ {p}
    /\ store' = [store EXCEPT ![p] = l.s]
    /\ seen' = Learned(p, l)
    /\ UNCHANGED <<disk, server, login, faults, rejected>>

-----------------------------------------------------------------------------
(* The environment: the keychain locks and unlocks, gpg fails and recovers,*)
(* Tuta ends a session.                                                    *)

BackendChanges ==
    /\ \/ backend = "ok" /\ Fault
          /\ backend' \in IF setup = "keyring" THEN {"locked", "failing"} ELSE {"failing"}
       \/ backend # "ok" /\ backend' = "ok" /\ UNCHANGED faults
    /\ UNCHANGED <<setup, entry, staged, server, store, login, inspecting, ghosts>>

SessionEnds(t) ==
    /\ t \in valid /\ Fault
    /\ valid' = valid \ {t}
    /\ UNCHANGED <<disk, issued, store, login, inspecting, ghosts>>

Next ==
    \/ \E p \in Procs :
          \/ Begin(p) \/ AutoStart(p) \/ Gate(p) \/ LoadSession(p)
          \/ Resumed(p) \/ ResumeInvalid(p) \/ ResumeKept(p)
          \/ DeleteStale(p) \/ Recheck(p) \/ Prompt(p)
          \/ Authenticate(p) \/ PollSecondFactor(p) \/ LoginFresh(p)
          \/ Save(p) \/ Stage(p) \/ Commit(p) \/ End(p) \/ Crash(p)
          \/ AskSaved(p) \/ Inspect(p)
    \/ BackendChanges
    \/ \E t \in Sessions : SessionEnds(t)

LoginSpec == Init /\ [][Next]_loginVars

-----------------------------------------------------------------------------
(* Properties.                                                             *)

Entries == {"absent", "invalid", "damaged"} \cup Sessions

\* The states of the entry, the stores and the logins.
LoginTypeOK ==
    /\ setup \in Setups
    /\ entry \in Entries
    /\ backend \in {"ok", "locked", "failing"}
    /\ valid \subseteq Sessions /\ issued \subseteq Sessions
    /\ store \in [Procs -> [cache : {"unloaded", None} \cup Sessions,
                            persistence : Persistence, warning : BOOLEAN]]
    /\ pc \in [Procs -> {"idle", "gate", "load", "resume", "delete", "recheck",
                         "prompt", "authenticate", "poll", "login", "save",
                         "commit", "done", "failed"}]
    /\ pw \in [Procs -> BOOLEAN]
    /\ tok \in [Procs -> {None} \cup Sessions]
    /\ polls \in [Procs -> 0..MaxPolls]
    /\ staged \in {None, "damaged"} \cup Sessions
    /\ inspecting \subseteq Desktop
    /\ faults \in 0..MaxFaults
    /\ \A p \in Procs : pc[p] \in {"resume", "login", "save", "commit"} => tok[p] # None

\* "A failed read is never permission to overwrite or delete an entry": a
\* process changes the entry only when its last read of the backend
\* succeeded, and one that read bytes it could not decode removes them only
\* after it has authenticated a session of its own.
NeverBlind ==
    [][\A p \in Procs :
         entry' # entry /\ pc[p] \in {"delete", "save", "commit"} /\ pc'[p] # pc[p] =>
            /\ seen[p] \notin {"never", "unavailable", "failed"}
            /\ seen[p] = "invalid" /\ entry' = "absent" => store[p].cache \in Sessions]_loginVars

\* In the container a saved session, rejected or not, is replaced only by
\* another one that was authenticated and read back: no failure, refusal or
\* crash leaves the volume without a session.
PreservingKeepsOld ==
    [][Container /\ entry \in Sessions =>
         /\ entry' \in Sessions
         /\ entry' # entry => \E p \in Procs : pc[p] = "commit" /\ tok[p] = entry']_loginVars

\* A session Tuta has refused is not read back and presented again by the
\* same store, even when its deletion failed (outside the container, where
\* the supervisor waits for a new session instead).
RejectedNotReadBack ==
    \A p \in Procs : pc[p] = "resume" /\ ~Container => tok[p] \notin rejected[p]

\* The CLI asks for a password only when there is no session it could resume:
\* an outage or a refused client version never costs the user a login.
PromptOnlyWithoutSession ==
    \A p \in Procs : pc[p] = "prompt" => store[p].cache \notin Sessions \ rejected[p]

\* Where persistence is required, a login that succeeded is one whose session
\* the process has itself read from or written to the entry.
RequiredMeansSaved ==
    \A p \in Procs :
        pc[p] = "done" /\ Policy(p) # "allowVolatile" => seen[p] = tok[p]
=============================================================================
