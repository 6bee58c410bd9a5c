------------------------- MODULE SessionLoginProofs -------------------------
(***************************************************************************)
(* Theorems about SessionLogin, for every set of processes and sessions,   *)
(* every installation and every number of faults.                          *)
(***************************************************************************)
EXTENDS SessionLogin, TLAPS

(* The properties speak of a login at one point of its way; the invariant   *)
(* follows the store and the login of each process from its start.          *)

(* Every session that is saved was handed out, and only pass, which writes  *)
(* in place, leaves half an entry.                                          *)
Disk ==
    /\ entry \in Sessions => entry \in issued
    /\ setup = "keyring" => entry # "damaged"

(* Where a login is, and what it carries there. *)
Way(p) ==
    /\ pc[p] = "poll" => polls[p] < MaxPolls
    /\ pc[p] \in {"resume", "delete", "commit"}
          => tok[p] \in Sessions /\ store[p].cache = tok[p]
    /\ pc[p] \in {"poll", "login", "save"} => tok[p] \in Sessions
    /\ pc[p] \in {"recheck", "prompt"} => p \notin Desktop
    /\ pc[p] = "delete" => ~Container
    /\ pc[p] = "commit" => Container
    /\ Container /\ p \in Desktop \cup Interactive => pc[p] = "idle"

(* What the right to write rests on. *)
Knows(p) ==
    /\ store[p].cache \in Sessions => store[p].persistence \in {"writable", "volatile"}
    /\ store[p].persistence = "writable" /\ store[p].cache # "unloaded"
          => seen[p] \in {None, "invalid"} \cup Sessions
    /\ store[p].persistence = "replaceInvalid" => seen[p] = "invalid"
    /\ pc[p] \notin {"idle", "gate", "load"}
          => store[p].cache # "unloaded" \/ store[p].persistence # "writable"
    /\ pc[p] = "commit" => store[p].persistence = "writable"

(* What the store and the login keep of a refusal. *)
Refused(p) ==
    /\ rejected[p] \subseteq issued
    /\ tok[p] \in Sessions => tok[p] \in issued
    /\ store[p].cache \in Sessions => store[p].cache \in issued
    /\ rejected[p] # {} => store[p].cache # "unloaded"
    /\ ~Container /\ pc[p] # "delete" => store[p].cache \notin rejected[p]
    /\ pc[p] \in {"poll", "login", "save"} => tok[p] \notin rejected[p]
    /\ pc[p] = "prompt" => store[p].cache \notin Sessions \ rejected[p]

(* Where persistence is required, what is cached is what is saved. *)
Saved(p) ==
    /\ p \notin Desktop /\ Policy(p) # "allowVolatile" /\ pc[p] \notin {"commit", "failed"}
       /\ store[p].cache \in Sessions => seen[p] = store[p].cache
    /\ pc[p] = "done" /\ Policy(p) # "allowVolatile" => seen[p] = tok[p]

LoginInv ==
    /\ LoginTypeOK /\ Disk
    /\ \A p \in Procs : Way(p) /\ Knows(p) /\ Refused(p) /\ Saved(p)
-----------------------------------------------------------------------------
(* The reads. *)

Stores == [cache : {"unloaded", None} \cup Sessions,
           persistence : Persistence, warning : BOOLEAN]
Places == {"idle", "gate", "load", "resume", "delete", "recheck", "prompt",
           "authenticate", "poll", "login", "save", "commit", "done", "failed"}

(* A read gives a session, nothing, or a failure. *)
LEMMA DecodedType ==
    ASSUME LoginTypeOK, Disk
    PROVE  /\ Decoded \in Failures \cup {None} \cup Sessions
           /\ Decoded \in Sessions => Decoded = entry
BY LoginConstants DEF Decoded, BackendRead, KeyringRead, PassRead, LoginTypeOK, Disk,
   Entries, Failures, SetupNames, Marks

(* What a load l does to the store s, whichever of the three it is: a store *)
(* that has a cache answers from it, and one that reads is left with the    *)
(* entry, unreadable, or with what a login with a password may do.          *)
Loaded(s, l) ==
    /\ l.s \in Stores /\ l.read \in BOOLEAN
    /\ l.r \in Failures \cup {None} \cup Sessions
    /\ l.r \in Sessions => l.s.cache = l.r
    /\ l.r \in {"invalid", "unavailable"} => l.s.cache = "unloaded"
    /\ s.cache # "unloaded" => l.s = s /\ ~l.read
    /\ s.cache = "unloaded" => l.read
    /\ l.read =>
         \/ /\ l.s.cache = "unloaded"
            /\ \/ l.s.persistence = "unreadable"
               \/ l.s.persistence = "replaceInvalid" /\ Decoded = "invalid"
         \/ l.s.cache = None /\ l.s.persistence = "volatile"
         \/ /\ l.s.cache = Decoded /\ Decoded \in {None} \cup Sessions
            /\ l.s.persistence = "writable"

(* State::load is such a load; one that finds nothing caches that. *)
LEMMA LoadIsLoaded ==
    ASSUME LoginTypeOK, Disk, NEW s \in Stores
    PROVE  /\ Loaded(s, Load(s))
           /\ Load(s).r = None => Load(s).s.cache = None
           /\ Load(s).r \in Failures => Load(s).s.cache = "unloaded" /\ Decoded = Load(s).r
<1> USE LoginConstants DEF Marks
<1> DEFINE d == Decoded
<1>1. d \in Failures \cup {None} \cup Sessions
  BY DecodedType
<1>2. CASE s.cache # "unloaded"
  <2>1. Load(s) = [s |-> s, r |-> s.cache, read |-> FALSE]
    BY <1>2 DEF Load
  <2> QED BY <1>2, <2>1 DEF Loaded, Stores, Failures
<1>3. CASE s.cache = "unloaded" /\ d \in Failures
  <2> DEFINE t == [s EXCEPT !.persistence = "unreadable", !.warning = TRUE]
  <2>1. Load(s) = [s |-> t, r |-> d, read |-> TRUE]
    BY <1>3 DEF Load
  <2>2. t \in Stores /\ t.cache = "unloaded" /\ t.persistence = "unreadable"
    BY <1>3 DEF Stores, Persistence
  <2> HIDE DEF t, d
  <2> QED BY <1>3, <2>1, <2>2 DEF Loaded, Failures, d
<1>4. CASE s.cache = "unloaded" /\ d \notin Failures
  <2> DEFINE t == [cache |-> d, persistence |-> "writable", warning |-> FALSE]
  <2>1. Load(s) = [s |-> t, r |-> d, read |-> TRUE]
    BY <1>4 DEF Load
  <2>2. t \in Stores /\ t.cache = d /\ t.persistence = "writable"
    BY <1>1, <1>4 DEF Stores, Persistence, Failures
  <2> HIDE DEF t
  <2> QED BY <1>1, <1>4, <2>1, <2>2 DEF Loaded, Failures
<1> QED BY <1>2, <1>3, <1>4

(* So is State::load_for_password. *)
LEMMA LoadForPasswordIsLoaded ==
    ASSUME LoginTypeOK, Disk, NEW s \in Stores, NEW allow \in BOOLEAN
    PROVE  Loaded(s, LoadForPassword(s, allow))
<1> USE LoginConstants DEF Marks
<1> DEFINE l == Load(s)
           t == l.s
<1>1. /\ Loaded(s, l)
      /\ l.r \in Failures => t.cache = "unloaded" /\ Decoded = l.r
      /\ l.r = None => t.cache = None
  BY LoadIsLoaded
<1>2. l = [s |-> t, r |-> l.r, read |-> l.read]
  BY DEF Load
<1>3. t \in Stores
  BY <1>1 DEF Loaded
<1> HIDE DEF l, t
<1>4. LoadForPassword(s, allow) =
        CASE l.r = "invalid" ->
               [l EXCEPT !.s = [l.s EXCEPT !.persistence = "replaceInvalid"], !.r = None]
          [] l.r = "unavailable" /\ allow ->
               [l EXCEPT !.s = [l.s EXCEPT !.persistence = "volatile", !.cache = None],
                         !.r = None]
          [] OTHER -> l
  BY DEF LoadForPassword, l
<1>5. CASE l.r = "invalid"
  <2> DEFINE u == [t EXCEPT !.persistence = "replaceInvalid"]
  <2>1. u \in Stores /\ u.cache = t.cache /\ u.persistence = "replaceInvalid"
    BY <1>3 DEF Stores, Persistence
  <2>2. LoadForPassword(s, allow) = [s |-> u, r |-> None, read |-> l.read]
    BY <1>2, <1>3, <1>4, <1>5 DEF t
  <2> HIDE DEF u
  <2>3. t.cache = "unloaded" /\ Decoded = "invalid" /\ l.read \in BOOLEAN
    BY <1>1, <1>5 DEF Loaded, Failures
  <2>4. l.read /\ s.cache = "unloaded"
    BY <1>1, <2>3, <1>5 DEF Loaded, Failures, t
  <2> QED BY <2>1, <2>2, <2>3, <2>4 DEF Loaded, Failures
<1>6. CASE l.r = "unavailable" /\ allow
  <2> DEFINE u == [t EXCEPT !.persistence = "volatile", !.cache = None]
  <2>1. u \in Stores /\ u.cache = None /\ u.persistence = "volatile"
    BY <1>3 DEF Stores, Persistence
  <2>2. LoadForPassword(s, allow) = [s |-> u, r |-> None, read |-> l.read]
    BY <1>2, <1>3, <1>4, <1>6 DEF t
  <2> HIDE DEF u
  <2>3. t.cache = "unloaded" /\ Decoded = "unavailable" /\ l.read \in BOOLEAN
    BY <1>1, <1>6 DEF Loaded, Failures
  <2>4. l.read /\ s.cache = "unloaded"
    BY <1>1, <2>3, <1>6 DEF Loaded, Failures, t
  <2> QED BY <2>1, <2>2, <2>3, <2>4 DEF Loaded, Failures
<1>7. CASE l.r # "invalid" /\ ~(l.r = "unavailable" /\ allow)
  BY <1>1, <1>4, <1>7
<1> QED BY <1>5, <1>6, <1>7

(* And so is SessionStore::load_persisted. *)
LEMMA LoadPersistedIsLoaded ==
    ASSUME LoginTypeOK, Disk, NEW s \in Stores, NEW password \in BOOLEAN
    PROVE  Loaded(s, LoadPersisted(s, password))
<1> USE LoginConstants DEF Marks
<1> DEFINE l == IF password THEN LoadForPassword(s, FALSE) ELSE Load(s)
<1>1. Loaded(s, l)
  BY LoadIsLoaded, LoadForPasswordIsLoaded
<1>2. l = [s |-> l.s, r |-> l.r, read |-> l.read]
  BY DEF LoadForPassword, Load
<1>3. LoadPersisted(s, password) \in {l, [s |-> l.s, r |-> "failed", read |-> l.read]}
  BY <1>2 DEF LoadPersisted
<1> HIDE DEF l
<1> QED BY <1>1, <1>3 DEF Loaded, Failures

-----------------------------------------------------------------------------
(* The steps. *)

Step(p) ==
    \/ Begin(p) \/ AutoStart(p) \/ Gate(p) \/ LoadSession(p)
    \/ Resumed(p) \/ ResumeInvalid(p) \/ ResumeKept(p)
    \/ DeleteStale(p) \/ Recheck(p) \/ Prompt(p)
    \/ Authenticate(p) \/ PollSecondFactor(p) \/ LoginFresh(p)
    \/ Save(p) \/ Stage(p) \/ Commit(p) \/ End(p) \/ Crash(p)
    \/ AskSaved(p) \/ Inspect(p)

(* What AfterError decides. *)
LEMMA AfterErrorFacts ==
    ASSUME NEW p, NEW e
    PROVE  /\ AfterError(p, e) \in {"failed", "prompt", "recheck"}
           /\ AfterError(p, e) # "failed" => p \notin Desktop
           /\ AfterError(p, e) = "prompt" => e \in {"rejected", "invalid", "unavailable"}
BY DEF AfterError

(* A step of p changes nothing of the store and the login of another process. *)
Untouched(q) ==
    /\ store'[q] = store[q] /\ pc'[q] = pc[q] /\ pw'[q] = pw[q] /\ tok'[q] = tok[q]
    /\ polls'[q] = polls[q] /\ seen'[q] = seen[q] /\ rejected'[q] = rejected[q]

(* The types of what belongs to a process. *)
Typed ==
    /\ store \in [Procs -> Stores] /\ pc \in [Procs -> Places] /\ pw \in [Procs -> BOOLEAN]
    /\ tok \in [Procs -> {None} \cup Sessions] /\ polls \in [Procs -> 0..MaxPolls]
    /\ seen = [q \in Procs |-> seen[q]] /\ rejected = [q \in Procs |-> rejected[q]]

(* A step of p leaves the store and the login of q alone. *)
LEMMA OthersUntouched ==
    ASSUME NEW p \in Procs, Typed, Step(p), NEW q \in Procs, q # p
    PROVE  Untouched(q) /\ setup' = setup
<1> USE DEF Untouched, Typed, Goto, Give, disk, server, login, ghosts
<1>1. CASE Begin(p)
  BY <1>1 DEF Begin
<1>2. CASE AutoStart(p)
  BY <1>2 DEF AutoStart, Learned
<1>3. CASE Gate(p)
  BY <1>3 DEF Gate, Learned
<1>4. CASE LoadSession(p)
  BY <1>4 DEF LoadSession, Learned
<1>5. CASE Resumed(p)
  BY <1>5 DEF Resumed
<1>6. CASE ResumeInvalid(p)
  BY <1>6 DEF ResumeInvalid
<1>7. CASE ResumeKept(p)
  BY <1>7 DEF ResumeKept
<1>8. CASE DeleteStale(p)
  BY <1>8 DEF DeleteStale
<1>9. CASE Recheck(p)
  BY <1>9 DEF Recheck, Learned
<1>10. CASE Prompt(p)
  BY <1>10 DEF Prompt
<1>11. CASE Authenticate(p)
  BY <1>11 DEF Authenticate
<1>12. CASE PollSecondFactor(p)
  BY <1>12 DEF PollSecondFactor
<1>13. CASE LoginFresh(p)
  BY <1>13 DEF LoginFresh
<1>14. CASE Save(p)
  BY <1>14 DEF Save
<1>15. CASE Stage(p)
  BY <1>15 DEF Stage
<1>16. CASE Commit(p)
  BY <1>16 DEF Commit
<1>17. CASE End(p)
  BY <1>17 DEF End, Ended, Forgotten
<1>18. CASE Crash(p)
  BY <1>18 DEF Crash, Ended, Forgotten
<1>19. CASE AskSaved(p)
  BY <1>19 DEF AskSaved
<1>20. CASE Inspect(p)
  BY <1>20 DEF Inspect, Learned
<1> QED
  BY <1>1, <1>2, <1>3, <1>4, <1>5, <1>6, <1>7, <1>8, <1>9, <1>10, <1>11, <1>12,
     <1>13, <1>14,
     <1>15, <1>16, <1>17, <1>18, <1>19, <1>20 DEF Step

(* The steps that begin with a load: what it is and where the login goes. *)
Loading(p) ==
    \E l :
      /\ Loaded(store[p], l)
      /\ store' = [store EXCEPT ![p] = l.s]
      /\ seen' = [seen EXCEPT ![p] = IF l.read THEN Decoded ELSE seen[p]]
      /\ UNCHANGED <<disk, server, pw, polls, faults, rejected>>
      /\ inspecting' \subseteq inspecting
      /\ \/ /\ UNCHANGED <<pc, tok>> /\ p \in Desktop
            /\ pc[p] = "idle" \/ p \in inspecting
         \/ /\ pc[p] = "idle" /\ p \in Desktop /\ ~Container
            /\ pc' = [pc EXCEPT ![p] = "load"] /\ UNCHANGED tok
         \/ /\ pc[p] = "gate" /\ UNCHANGED tok
            /\ \E where \in {"load", "failed"} : pc' = [pc EXCEPT ![p] = where]
         \/ /\ pc[p] = "load" /\ l.r \in Sessions
            /\ pc' = [pc EXCEPT ![p] = "resume"] /\ tok' = [tok EXCEPT ![p] = l.r]
         \/ /\ pc[p] = "load" /\ l.r \notin Sessions
            /\ \E where \in {"failed", "prompt", "recheck", "authenticate"} :
                 /\ pc' = [pc EXCEPT ![p] = where]
                 /\ where \in {"prompt", "recheck"} => p \notin Desktop
                 /\ where = "prompt" => l.s.cache = "unloaded"
            /\ tok' = [tok EXCEPT ![p] = None]
         \/ /\ pc[p] = "recheck" /\ UNCHANGED tok
            /\ \/ pc' = [pc EXCEPT ![p] = "prompt"] /\ l.s.cache = None
               \/ pc' = [pc EXCEPT ![p] = "failed"]

(* The five steps that load are such steps. *)
LEMMA LoadingSteps ==
    ASSUME NEW p \in Procs, LoginTypeOK, Typed, Disk,
           AutoStart(p) \/ Gate(p) \/ LoadSession(p) \/ Recheck(p) \/ Inspect(p)
    PROVE  Loading(p)
<1> USE LoginConstants DEF Marks
<1>s. store[p] \in Stores /\ pw[p] \in BOOLEAN /\ inspecting \subseteq Desktop
  BY DEF Typed, LoginTypeOK
<1>l. ASSUME NEW l, Loaded(store[p], l), seen' = Learned(p, l)
      PROVE  seen' = [seen EXCEPT ![p] = IF l.read THEN Decoded ELSE seen[p]]
  BY <1>l DEF Learned, Loaded, Typed
<1>1. CASE AutoStart(p)
  <2> DEFINE l == Load(store[p])
  <2>1. Loaded(store[p], l)
    BY <1>s, LoadIsLoaded
  <2>2. /\ store' = [store EXCEPT ![p] = l.s] /\ seen' = Learned(p, l)
        /\ UNCHANGED <<disk, server, pw, polls, faults, rejected, tok, inspecting>>
        /\ pc[p] = "idle" /\ p \in Desktop /\ ~Container
        /\ pc' = [pc EXCEPT ![p] = "load"] \/ UNCHANGED pc
    BY <1>1 DEF AutoStart, MayStart, Goto
  <2> HIDE DEF l
  <2> QED BY <1>l, <2>1, <2>2 DEF Loading
<1>2. CASE Gate(p)
  <2> DEFINE l == LoadPersisted(store[p], FALSE)
  <2>1. Loaded(store[p], l)
    BY <1>s, LoadPersistedIsLoaded
  <2>2. /\ store' = [store EXCEPT ![p] = l.s] /\ seen' = Learned(p, l)
        /\ UNCHANGED <<disk, server, pw, polls, faults, rejected, tok, inspecting>>
        /\ pc[p] = "gate" /\ \E where \in {"load", "failed"} : pc' = [pc EXCEPT ![p] = where]
    BY <1>2 DEF Gate, Goto
  <2> HIDE DEF l
  <2> QED BY <1>l, <2>1, <2>2 DEF Loading
<1>3. CASE LoadSession(p)
  <2> DEFINE l == IF Policy(p) # "allowVolatile" THEN LoadPersisted(store[p], pw[p])
                  ELSE IF pw[p] THEN LoadForPassword(store[p], TRUE) ELSE Load(store[p])
  <2>1. Loaded(store[p], l)
    BY <1>s, LoadIsLoaded, LoadForPasswordIsLoaded, LoadPersistedIsLoaded
  <2>2. /\ store' = [store EXCEPT ![p] = l.s] /\ seen' = Learned(p, l)
        /\ UNCHANGED <<disk, server, pw, polls, faults, rejected, inspecting>>
        /\ pc[p] = "load"
        /\ tok' = [tok EXCEPT ![p] = IF l.r \in Sessions THEN l.r ELSE None]
        /\ pc' = [pc EXCEPT ![p] =
               IF l.r \in Sessions THEN "resume"
               ELSE IF l.r \in Failures THEN AfterError(p, l.r)
               ELSE IF pw[p] THEN "authenticate" ELSE AfterError(p, "nopassword")]
    BY <1>3 DEF LoadSession, Goto, Give
  <2> HIDE DEF l
  <2>3. CASE l.r \in Sessions
    BY <1>l, <2>1, <2>2, <2>3 DEF Loading
  <2>4. CASE l.r \notin Sessions
    <3> DEFINE where == IF l.r \in Failures THEN AfterError(p, l.r)
                        ELSE IF pw[p] THEN "authenticate" ELSE AfterError(p, "nopassword")
    <3>1. /\ where \in {"failed", "prompt", "recheck", "authenticate"}
          /\ where \in {"prompt", "recheck"} => p \notin Desktop
          /\ where = "prompt" => l.r \in {"invalid", "unavailable"}
      BY AfterErrorFacts DEF Failures
    <3>2. where = "prompt" => l.s.cache = "unloaded"
      BY <2>1, <3>1 DEF Loaded
    <3>3. pc' = [pc EXCEPT ![p] = where] /\ tok' = [tok EXCEPT ![p] = None]
      BY <2>2, <2>4
    <3> HIDE DEF where
    <3> QED BY <1>l, <2>1, <2>2, <2>4, <3>1, <3>2, <3>3 DEF Loading
  <2> QED BY <2>3, <2>4
<1>4. CASE Recheck(p)
  <2> DEFINE l == Load(store[p])
  <2>1. Loaded(store[p], l) /\ (l.r = None => l.s.cache = None)
    BY <1>s, LoadIsLoaded
  <2>2. /\ store' = [store EXCEPT ![p] = l.s] /\ seen' = Learned(p, l)
        /\ UNCHANGED <<disk, server, pw, polls, faults, rejected, tok, inspecting>>
        /\ pc[p] = "recheck"
        /\ pc' = [pc EXCEPT ![p] = IF l.r = None THEN "prompt" ELSE "failed"]
    BY <1>4 DEF Recheck, Goto
  <2> HIDE DEF l
  <2> QED BY <1>l, <2>1, <2>2 DEF Loading
<1>5. CASE Inspect(p)
  <2> DEFINE l == Load(store[p])
  <2>1. Loaded(store[p], l)
    BY <1>s, LoadIsLoaded
  <2>2. /\ store' = [store EXCEPT ![p] = l.s] /\ seen' = Learned(p, l)
        /\ UNCHANGED <<disk, server, pw, polls, faults, rejected, tok, pc>>
        /\ inspecting' \subseteq inspecting /\ p \in Desktop /\ p \in inspecting
    BY <1>5, <1>s DEF Inspect, login
  <2> HIDE DEF l
  <2> QED BY <1>l, <2>1, <2>2 DEF Loading
<1> QED BY <1>1, <1>2, <1>3, <1>4, <1>5

(* What a save leaves, whichever way it ends. *)
LEMMA SaveFacts ==
    ASSUME NEW p \in Procs, Typed, Save(p)
    PROVE  /\ pc[p] = "save" /\ ~Container
           /\ UNCHANGED <<setup, issued, valid, staged, tok, pw, polls, rejected>>
           /\ \E st \in Stores, ok \in BOOLEAN :
                /\ store' = [store EXCEPT ![p] = st]
                /\ pc' = [pc EXCEPT ![p] = Accepted(p, ok)]
                /\ seen' = [seen EXCEPT ![p] = IF ok THEN tok[p] ELSE seen[p]]
                /\ \/ st = store[p] /\ store[p].persistence = "unreadable" /\ ~ok
                   \/ /\ st.cache = tok[p] /\ st.persistence = "volatile" /\ ~ok
                      /\ store[p].persistence = "volatile"
                   \/ /\ st.cache = tok[p] /\ st.persistence = "writable"
                      /\ store[p].persistence \in {"writable", "replaceInvalid"}
           /\ \/ entry' = entry
              \/ /\ store[p].persistence \in {"writable", "replaceInvalid"}
                 /\ entry' = tok[p] \/ (setup # "keyring" /\ entry' = "damaged")
<1>1. /\ pc[p] = "save" /\ ~Container
      /\ UNCHANGED <<setup, issued, valid, staged, tok, pw, polls, rejected>>
  BY DEF Save, Policy, server
<1>2. store[p] \in Stores /\ tok[p] \in {None} \cup Sessions
  BY DEF Typed
<1>w. ASSUME NEW st \in Stores, NEW t \in {None} \cup Sessions
      PROVE  /\ Cached(st, t) \in Stores /\ Cached(st, t).cache = t
             /\ Cached(st, t).persistence =
                  IF st.persistence = "volatile" THEN "volatile" ELSE "writable"
  BY DEF Cached, Stores, Persistence
<1>x. ASSUME NEW st \in Stores, NEW b \in BOOLEAN
      PROVE  /\ [st EXCEPT !.warning = b] \in Stores
             /\ [st EXCEPT !.warning = b].cache = st.cache
             /\ [st EXCEPT !.warning = b].persistence = st.persistence
  BY DEF Stores
<1>3. CASE SaveWrites(store[p])
  <2>1. PICK w \in WriteResults(tok[p]) :
           /\ entry' = w.entry
           /\ seen' = IF w.ok THEN [seen EXCEPT ![p] = tok[p]] ELSE seen
           /\ store' = [store EXCEPT ![p] = [Cached(store[p], tok[p]) EXCEPT !.warning = ~w.ok]]
           /\ pc' = [pc EXCEPT ![p] = Accepted(p, w.ok)]
    BY <1>3 DEF Save, Goto
  <2>2. /\ w.ok \in BOOLEAN
        /\ w.entry \in {tok[p], entry} \/ (w.entry = "damaged" /\ setup # "keyring")
    <3>1. \/ w = [entry |-> tok[p], ok |-> TRUE]
          \/ w = [entry |-> entry, ok |-> FALSE]
          \/ w = [entry |-> "damaged", ok |-> FALSE] /\ setup # "keyring"
      BY DEF WriteResults
    <3>2. CASE w = [entry |-> tok[p], ok |-> TRUE]
      BY <3>2
    <3>3. CASE w = [entry |-> entry, ok |-> FALSE]
      BY <3>3
    <3>4. CASE w = [entry |-> "damaged", ok |-> FALSE] /\ setup # "keyring"
      BY <3>4
    <3> QED BY <3>1, <3>2, <3>3, <3>4
  <2> DEFINE c == Cached(store[p], tok[p])
             st == [c EXCEPT !.warning = ~w.ok]
  <2>3. c \in Stores /\ c.cache = tok[p] /\ c.persistence = "writable"
    BY <1>2, <1>3, <1>w DEF SaveWrites
  <2>4. store[p].persistence \in {"writable", "replaceInvalid"}
    BY <1>3 DEF SaveWrites
  <2> HIDE DEF c
  <2>5. st \in Stores /\ st.cache = tok[p] /\ st.persistence = "writable"
    BY <1>x, <2>2, <2>3
  <2>6. store' = [store EXCEPT ![p] = st]
    BY <2>1 DEF c
  <2>7. seen' = [seen EXCEPT ![p] = IF w.ok THEN tok[p] ELSE seen[p]]
    BY <2>1, <2>2 DEF Typed
  <2> HIDE DEF st
  <2>8. \E t \in Stores, ok \in BOOLEAN :
          /\ store' = [store EXCEPT ![p] = t]
          /\ pc' = [pc EXCEPT ![p] = Accepted(p, ok)]
          /\ seen' = [seen EXCEPT ![p] = IF ok THEN tok[p] ELSE seen[p]]
          /\ t.cache = tok[p] /\ t.persistence = "writable"
    BY <2>1, <2>2, <2>5, <2>6, <2>7
  <2> QED BY <1>1, <2>1, <2>2, <2>4, <2>8
<1>4. CASE ~SaveWrites(store[p])
  <2> DEFINE st == IF SaveAllowed(store[p]) THEN Cached(store[p], tok[p]) ELSE store[p]
  <2>1. /\ store' = [store EXCEPT ![p] = st] /\ UNCHANGED <<entry, seen>>
        /\ pc' = [pc EXCEPT ![p] = Accepted(p, FALSE)]
    BY <1>4 DEF Save, Goto
  <2>2. store[p].persistence \in {"volatile", "unreadable"}
    BY <1>2, <1>4 DEF SaveWrites, Stores, Persistence
  <2>3. /\ st \in Stores
        /\ \/ st = store[p] /\ store[p].persistence = "unreadable"
           \/ /\ st.cache = tok[p] /\ st.persistence = "volatile"
              /\ store[p].persistence = "volatile"
    BY <1>2, <1>w, <2>2 DEF SaveAllowed
  <2>4. seen' = [seen EXCEPT ![p] = seen[p]]
    BY <2>1 DEF Typed
  <2> HIDE DEF st
  <2> QED BY <1>1, <2>1, <2>3, <2>4
<1> QED BY <1>3, <1>4

(* The staged save of the container. *)
LEMMA StageFacts ==
    ASSUME NEW p \in Procs, Typed, Stage(p)
    PROVE  /\ pc[p] = "save" /\ Container
           /\ UNCHANGED <<setup, entry, issued, valid, tok, pw, polls, seen, rejected>>
           /\ \E st \in Stores :
                /\ store' = [store EXCEPT ![p] = st]
                /\ \/ st = store[p] /\ store[p].persistence = "unreadable"
                      /\ pc' = [pc EXCEPT ![p] = "failed"]
                   \/ /\ st.cache = tok[p] /\ st.persistence = "volatile"
                      /\ store[p].persistence = "volatile"
                      /\ pc' = [pc EXCEPT ![p] = "failed"]
                   \/ /\ st.cache = tok[p] /\ st.persistence = "writable"
                      /\ store[p].persistence \in {"writable", "replaceInvalid"}
                      /\ pc' = [pc EXCEPT ![p] = "commit"]
<1>1. /\ pc[p] = "save" /\ Container
      /\ UNCHANGED <<setup, entry, issued, valid, tok, pw, polls, seen, rejected>>
  BY DEF Stage, Policy, server, ghosts
<1>2. store[p] \in Stores /\ tok[p] \in {None} \cup Sessions
  BY DEF Typed
<1> DEFINE c == Cached(store[p], tok[p])
           st == IF SaveAllowed(store[p]) THEN c ELSE store[p]
<1>3. /\ c \in Stores /\ c.cache = tok[p]
      /\ c.persistence = IF store[p].persistence = "volatile" THEN "volatile" ELSE "writable"
  BY <1>2 DEF Cached, Stores, Persistence
<1>4. store' = [store EXCEPT ![p] = st]
  BY DEF Stage
<1>5. pc' = [pc EXCEPT ![p] = IF SaveWrites(store[p]) THEN "commit" ELSE "failed"]
  BY DEF Stage, Goto
<1> HIDE DEF c
<1>6. /\ st \in Stores
      /\ \/ st = store[p] /\ store[p].persistence = "unreadable" /\ ~SaveWrites(store[p])
         \/ /\ st.cache = tok[p] /\ st.persistence = "volatile"
            /\ store[p].persistence = "volatile" /\ ~SaveWrites(store[p])
         \/ /\ st.cache = tok[p] /\ st.persistence = "writable"
            /\ store[p].persistence \in {"writable", "replaceInvalid"} /\ SaveWrites(store[p])
  BY <1>2, <1>3 DEF SaveAllowed, SaveWrites, Stores, Persistence
<1> HIDE DEF st
<1> QED BY <1>1, <1>4, <1>5, <1>6

(* The deletion of a refused session always leaves the tombstone. *)
LEMMA DeleteFacts ==
    ASSUME NEW p \in Procs, Typed, Way(p), Knows(p), DeleteStale(p)
    PROVE  /\ pc[p] = "delete" /\ store[p].persistence \in {"writable", "volatile"}
           /\ UNCHANGED <<setup, issued, valid, staged, tok, pw, polls, rejected>>
           /\ \E st \in Stores :
                /\ store' = [store EXCEPT ![p] = st] /\ st.cache = None
                /\ st.persistence = store[p].persistence
           /\ \E now \in {seen[p], None} : seen' = [seen EXCEPT ![p] = now]
           /\ \E where \in {"authenticate", "failed", "recheck"} :
                /\ pc' = [pc EXCEPT ![p] = where]
                /\ where = "recheck" => p \notin Desktop
           /\ \/ entry' = entry
              \/ store[p].persistence = "writable" /\ entry' = "absent"
<1>1. /\ pc[p] = "delete"
      /\ UNCHANGED <<setup, issued, valid, staged, tok, pw, polls, rejected>>
  BY DEF DeleteStale, server
<1>2. store[p] \in Stores /\ tok[p] \in {None} \cup Sessions
  BY DEF Typed
<1>3. store[p].persistence \in {"writable", "volatile"}
  BY <1>1 DEF Way, Knows
<1> DEFINE c == Tombstone(store[p])
<1>4. c \in Stores /\ c.cache = None /\ c.persistence = store[p].persistence
  BY <1>2, <1>3 DEF Tombstone, DeleteAllowed, Stores
<1>x. ASSUME NEW st \in Stores, NEW b \in BOOLEAN
      PROVE  /\ [st EXCEPT !.warning = b] \in Stores
             /\ [st EXCEPT !.warning = b].cache = st.cache
             /\ [st EXCEPT !.warning = b].persistence = st.persistence
  BY DEF Stores
<1>5. \E where \in {"authenticate", "failed", "recheck"} :
         /\ pc' = [pc EXCEPT ![p] = where]
         /\ where = "recheck" => p \notin Desktop
  BY AfterErrorFacts DEF DeleteStale, Goto
<1>6. CASE DeleteWrites(store[p])
  <2>1. PICK d \in DeleteResults :
          /\ store' = [store EXCEPT ![p] = [c EXCEPT !.warning = ~d.ok]]
          /\ entry' = d.entry
          /\ seen' = IF d.ok THEN [seen EXCEPT ![p] = None] ELSE seen
    BY <1>6 DEF DeleteStale
  <2>2. d.ok \in BOOLEAN /\ d.entry \in {"absent", entry}
    <3>1. CASE d = [entry |-> "absent", ok |-> TRUE]
      BY <3>1
    <3>2. CASE d = [entry |-> entry, ok |-> FALSE]
      BY <3>2
    <3> QED BY <3>1, <3>2 DEF DeleteResults
  <2> HIDE DEF c
  <2> DEFINE st == [c EXCEPT !.warning = ~d.ok]
  <2>3. st \in Stores /\ st.cache = None /\ st.persistence = store[p].persistence
    BY <1>x, <1>4, <2>2
  <2>4. \E now \in {seen[p], None} : seen' = [seen EXCEPT ![p] = now]
    <3>1. CASE d.ok
      BY <2>1, <3>1
    <3>2. CASE ~d.ok
      BY <2>1, <3>2 DEF Typed
    <3> QED BY <3>1, <3>2
  <2>5. store' = [store EXCEPT ![p] = st] /\ store[p].persistence = "writable"
    BY <1>6, <2>1 DEF DeleteWrites
  <2> HIDE DEF st
  <2> QED BY <1>1, <1>3, <1>5, <2>1, <2>2, <2>3, <2>4, <2>5
<1>7. CASE ~DeleteWrites(store[p])
  <2>1. store' = [store EXCEPT ![p] = c] /\ UNCHANGED <<entry, seen>>
    BY <1>7 DEF DeleteStale
  <2>2. seen' = [seen EXCEPT ![p] = seen[p]]
    BY <2>1 DEF Typed
  <2> HIDE DEF c
  <2> QED BY <1>1, <1>3, <1>4, <1>5, <2>1, <2>2
<1> QED BY <1>6, <1>7

(* The commit changes the entry only to the session it verified. *)
LEMMA CommitFacts ==
    ASSUME NEW p \in Procs, Typed, Commit(p)
    PROVE  /\ pc[p] = "commit"
           /\ UNCHANGED <<setup, issued, valid, tok, pw, polls, rejected>>
           /\ \E st \in Stores :
                /\ store' = [store EXCEPT ![p] = st] /\ st.cache = store[p].cache
                /\ st.persistence = store[p].persistence
           /\ pc' = [pc EXCEPT ![p] = Accepted(p, Verified(p))]
           /\ seen' = [seen EXCEPT ![p] = IF Verified(p) THEN tok[p] ELSE seen[p]]
           /\ entry' = IF Verified(p) THEN tok[p] ELSE entry
<1>x. ASSUME NEW st \in Stores, NEW b \in BOOLEAN
      PROVE  /\ [st EXCEPT !.warning = b] \in Stores
             /\ [st EXCEPT !.warning = b].cache = st.cache
             /\ [st EXCEPT !.warning = b].persistence = st.persistence
  BY DEF Stores
<1> DEFINE st == [store[p] EXCEPT !.warning = ~Verified(p)]
<1>1. store' = [store EXCEPT ![p] = st]
  BY DEF Commit
<1>2. store[p] \in Stores /\ (~Verified(p)) \in BOOLEAN
  BY DEF Typed
<1>3. st \in Stores /\ st.cache = store[p].cache /\ st.persistence = store[p].persistence
  BY <1>2, <1>x
<1> HIDE DEF st
<1>4. /\ pc[p] = "commit" /\ UNCHANGED <<setup, issued, valid, tok, pw, polls, rejected>>
      /\ pc' = [pc EXCEPT ![p] = Accepted(p, Verified(p))]
      /\ entry' = IF Verified(p) THEN tok[p] ELSE entry
  BY DEF Commit, Goto, server, Verified
<1>5. seen' = [seen EXCEPT ![p] = IF Verified(p) THEN tok[p] ELSE seen[p]]
  BY DEF Commit, Typed
<1> QED BY <1>1, <1>3, <1>4, <1>5

(* A step of p loads, or is one of the others. *)
LEMMA StepKinds ==
    ASSUME NEW p \in Procs, LoginTypeOK, Typed, Disk, Step(p)
    PROVE  \/ Loading(p)
           \/ Begin(p) \/ Resumed(p) \/ ResumeInvalid(p) \/ ResumeKept(p) \/ DeleteStale(p)
           \/ Prompt(p)
           \/ Authenticate(p) \/ PollSecondFactor(p) \/ LoginFresh(p) \/ Save(p) \/ Stage(p)
           \/ Commit(p) \/ End(p) \/ Crash(p) \/ AskSaved(p)
BY LoadingSteps DEF Step

(* A step of p leaves a saved session that was handed out. *)
LEMMA DiskStep ==
    ASSUME NEW p \in Procs, LoginTypeOK, Typed, Disk, Way(p), Knows(p), Refused(p), Step(p)
    PROVE  Disk' /\ entry' \in Entries /\ staged' \in {None, "damaged"} \cup Sessions
<1> USE LoginConstants DEF Disk, Way, Refused, Marks, Entries, LoginTypeOK, Goto, Give, disk,
        server, login, ghosts
<1>0. CASE Loading(p)
  BY <1>0 DEF Loading
<1>1. CASE Begin(p)
  BY <1>1 DEF Begin, MayStart
<1>2. CASE Resumed(p)
  BY <1>2 DEF Resumed
<1>3. CASE ResumeInvalid(p)
  BY <1>3, AfterErrorFacts DEF ResumeInvalid, Policy
<1>4. CASE ResumeKept(p)
  BY <1>4, AfterErrorFacts DEF ResumeKept
<1>5. CASE DeleteStale(p)
  BY <1>5, DeleteFacts
<1>6. CASE Prompt(p)
  BY <1>6 DEF Prompt
<1>7. CASE Authenticate(p)
  BY <1>7 DEF Authenticate
<1>8. CASE PollSecondFactor(p)
  BY <1>8 DEF PollSecondFactor
<1>9. CASE LoginFresh(p)
  BY <1>9 DEF LoginFresh
<1>10. CASE Save(p)
  BY <1>10, SaveFacts DEF Accepted, Policy
<1>11. CASE Stage(p)
  BY <1>11 DEF Stage, SaveWrites, SaveAllowed, Cached, Policy
<1>12. CASE Commit(p)
  BY <1>12 DEF Commit, Verified, Accepted, Policy
<1>13. CASE End(p)
  BY <1>13 DEF End, Ended, Forgotten, NewStore
<1>14. CASE Crash(p)
  BY <1>14 DEF Crash, Ended, Forgotten, NewStore
<1>15. CASE AskSaved(p)
  BY <1>15 DEF AskSaved
<1> QED
  BY <1>0, <1>1, <1>2, <1>3, <1>4, <1>5, <1>6, <1>7, <1>8, <1>9, <1>10, <1>11,
     <1>12, <1>13,
     <1>14, <1>15, StepKinds

(* A step of p keeps its login on its way. *)
LEMMA WayStep ==
    ASSUME NEW p \in Procs, LoginTypeOK, Typed, Disk, Way(p), Knows(p), Step(p)
    PROVE  Way(p)'
<1> USE LoginConstants DEF Way, Knows, Marks, Typed, Stores, Places, Goto, Give,
        Container, disk, server, login, ghosts
<1>0. CASE Loading(p)
  BY <1>0 DEF Loading, Loaded
<1>1. CASE Begin(p)
  BY <1>1 DEF Begin, MayStart
<1>2. CASE Resumed(p)
  BY <1>2 DEF Resumed
<1>3. CASE ResumeInvalid(p)
  BY <1>3, AfterErrorFacts DEF ResumeInvalid, Policy
<1>4. CASE ResumeKept(p)
  BY <1>4, AfterErrorFacts DEF ResumeKept
<1>5. CASE DeleteStale(p)
  BY <1>5, DeleteFacts
<1>6. CASE Prompt(p)
  BY <1>6 DEF Prompt
<1>7. CASE Authenticate(p)
  BY <1>7 DEF Authenticate
<1>8. CASE PollSecondFactor(p)
  BY <1>8 DEF PollSecondFactor
<1>9. CASE LoginFresh(p)
  BY <1>9 DEF LoginFresh
<1>10. CASE Save(p)
  BY <1>10, SaveFacts DEF Accepted, Policy
<1>11. CASE Stage(p)
  BY <1>11, StageFacts
<1>12. CASE Commit(p)
  BY <1>12 DEF Commit, Verified, Accepted, Policy
<1>13. CASE End(p)
  BY <1>13 DEF End, Ended, Forgotten, NewStore
<1>14. CASE Crash(p)
  BY <1>14 DEF Crash, Ended, Forgotten, NewStore
<1>15. CASE AskSaved(p)
  BY <1>15 DEF AskSaved
<1> QED
  BY <1>0, <1>1, <1>2, <1>3, <1>4, <1>5, <1>6, <1>7, <1>8, <1>9, <1>10, <1>11,
     <1>12, <1>13,
     <1>14, <1>15, StepKinds

(* A step of p gives it the right to write only with a successful read. *)
LEMMA KnowsStep ==
    ASSUME NEW p \in Procs, LoginTypeOK, Typed, Disk, Way(p), Knows(p), Step(p)
    PROVE  Knows(p)'
<1> USE LoginConstants DEF Knows, Way, Marks, Typed, Stores, Places, Goto, Give,
        Container, disk, server, login, ghosts
<1>0. CASE Loading(p)
  BY <1>0 DEF Loading, Loaded
<1>1. CASE Begin(p)
  BY <1>1 DEF Begin, MayStart
<1>2. CASE Resumed(p)
  BY <1>2 DEF Resumed
<1>3. CASE ResumeInvalid(p)
  BY <1>3, AfterErrorFacts DEF ResumeInvalid, Policy
<1>4. CASE ResumeKept(p)
  BY <1>4, AfterErrorFacts DEF ResumeKept
<1>5. CASE DeleteStale(p)
  BY <1>5, DeleteFacts
<1>6. CASE Prompt(p)
  BY <1>6 DEF Prompt
<1>7. CASE Authenticate(p)
  BY <1>7 DEF Authenticate
<1>8. CASE PollSecondFactor(p)
  BY <1>8 DEF PollSecondFactor
<1>9. CASE LoginFresh(p)
  BY <1>9 DEF LoginFresh
<1>10. CASE Save(p)
  BY <1>10, SaveFacts DEF Accepted, Policy
<1>11. CASE Stage(p)
  BY <1>11, StageFacts
<1>12. CASE Commit(p)
  BY <1>12 DEF Commit, Verified, Accepted, Policy
<1>13. CASE End(p)
  BY <1>13 DEF End, Ended, Forgotten, NewStore
<1>14. CASE Crash(p)
  BY <1>14 DEF Crash, Ended, Forgotten, NewStore
<1>15. CASE AskSaved(p)
  BY <1>15 DEF AskSaved
<1> QED
  BY <1>0, <1>1, <1>2, <1>3, <1>4, <1>5, <1>6, <1>7, <1>8, <1>9, <1>10, <1>11,
     <1>12, <1>13,
     <1>14, <1>15, StepKinds

(* A step of p keeps what was refused out of its cache. *)
LEMMA RefusedStep ==
    ASSUME NEW p \in Procs, LoginTypeOK, Typed, Disk, Way(p), Knows(p), Refused(p), Step(p)
    PROVE  Refused(p)'
<1> USE LoginConstants DEF Refused, Knows, Way, Marks, Typed, Stores, Places, Goto, Give,
        Container, disk, server, login, ghosts
<1>0. CASE Loading(p)
  BY <1>0, DecodedType DEF Loading, Loaded, Disk
<1>1. CASE Begin(p)
  BY <1>1 DEF Begin, MayStart
<1>2. CASE Resumed(p)
  BY <1>2 DEF Resumed
<1>3. CASE ResumeInvalid(p)
  BY <1>3, AfterErrorFacts DEF ResumeInvalid, Policy
<1>4. CASE ResumeKept(p)
  BY <1>4, AfterErrorFacts DEF ResumeKept
<1>5. CASE DeleteStale(p)
  <2>1. PICK st \in Stores : store' = [store EXCEPT ![p] = st] /\ st.cache = None
    BY <1>5, DeleteFacts
  <2>2. /\ UNCHANGED <<setup, issued, tok, rejected>>
        /\ \E where \in {"authenticate", "failed", "recheck"} : pc' = [pc EXCEPT ![p] = where]
    BY <1>5, DeleteFacts
  <2>3. None \notin rejected[p]
    BY LoginConstants DEF LoginTypeOK
  <2> QED BY <2>1, <2>2, <2>3
<1>6. CASE Prompt(p)
  BY <1>6 DEF Prompt
<1>7. CASE Authenticate(p)
  BY <1>7 DEF Authenticate
<1>8. CASE PollSecondFactor(p)
  BY <1>8 DEF PollSecondFactor
<1>9. CASE LoginFresh(p)
  BY <1>9 DEF LoginFresh
<1>10. CASE Save(p)
  BY <1>10, SaveFacts DEF Accepted, Policy
<1>11. CASE Stage(p)
  BY <1>11, StageFacts
<1>12. CASE Commit(p)
  BY <1>12 DEF Commit, Verified, Accepted, Policy
<1>13. CASE End(p)
  BY <1>13 DEF End, Ended, Forgotten, NewStore
<1>14. CASE Crash(p)
  BY <1>14 DEF Crash, Ended, Forgotten, NewStore
<1>15. CASE AskSaved(p)
  BY <1>15 DEF AskSaved
<1> QED
  BY <1>0, <1>1, <1>2, <1>3, <1>4, <1>5, <1>6, <1>7, <1>8, <1>9, <1>10, <1>11,
     <1>12, <1>13,
     <1>14, <1>15, StepKinds

(* A step of p keeps what is cached saved, where that is required. *)
LEMMA SavedStep ==
    ASSUME NEW p \in Procs, LoginTypeOK, Typed, Disk, Way(p), Knows(p), Saved(p), Step(p)
    PROVE  Saved(p)'
<1> USE LoginConstants DEF Saved, Knows, Way, Marks, Typed, Stores, Places, Goto, Give,
        Container, Policy, disk, server, login, ghosts
<1>0. CASE Loading(p)
  BY <1>0 DEF Loading, Loaded
<1>1. CASE Begin(p)
  BY <1>1 DEF Begin, MayStart
<1>2. CASE Resumed(p)
  BY <1>2 DEF Resumed
<1>3. CASE ResumeInvalid(p)
  BY <1>3, AfterErrorFacts DEF ResumeInvalid, Policy
<1>4. CASE ResumeKept(p)
  BY <1>4, AfterErrorFacts DEF ResumeKept
<1>5. CASE DeleteStale(p)
  BY <1>5, DeleteFacts
<1>6. CASE Prompt(p)
  BY <1>6 DEF Prompt
<1>7. CASE Authenticate(p)
  BY <1>7 DEF Authenticate
<1>8. CASE PollSecondFactor(p)
  BY <1>8 DEF PollSecondFactor
<1>9. CASE LoginFresh(p)
  BY <1>9 DEF LoginFresh
<1>10. CASE Save(p)
  BY <1>10, SaveFacts DEF Accepted, Policy
<1>11. CASE Stage(p)
  BY <1>11, StageFacts
<1>12. CASE Commit(p)
  BY <1>12, CommitFacts DEF Accepted
<1>13. CASE End(p)
  BY <1>13 DEF End, Ended, Forgotten, NewStore
<1>14. CASE Crash(p)
  BY <1>14 DEF Crash, Ended, Forgotten, NewStore
<1>15. CASE AskSaved(p)
  BY <1>15 DEF AskSaved
<1> QED
  BY <1>0, <1>1, <1>2, <1>3, <1>4, <1>5, <1>6, <1>7, <1>8, <1>9, <1>10, <1>11,
     <1>12, <1>13,
     <1>14, <1>15, StepKinds

(* What the steps of a process leave of the sessions and the bounds. *)
Kept ==
    /\ valid' \subseteq Sessions /\ issued' \subseteq Sessions /\ issued \subseteq issued'
    /\ backend' \in {"ok", "locked", "failing"} /\ inspecting' \subseteq Desktop
    /\ faults' \in 0..MaxFaults

(* A step of p keeps the types. *)
LEMMA TypeStep ==
    ASSUME NEW p \in Procs, LoginTypeOK, Typed, Disk, Way(p), Knows(p), Step(p)
    PROVE  Typed' /\ Kept
<1> USE LoginConstants
    DEF Typed, Places, LoginTypeOK, Way, Fault, Goto, Give, disk, server, login, ghosts
<1>n. NewStore \in Stores
  BY DEF NewStore, Stores, Persistence
<1>0. CASE Loading(p)
  <2>1. store' \in [Procs -> Stores]
    BY <1>0 DEF Loading, Loaded
  <2>2. pc' \in [Procs -> Places] /\ pw' \in [Procs -> BOOLEAN]
    BY <1>0 DEF Loading, Loaded
  <2>3. tok' \in [Procs -> {None} \cup Sessions] /\ polls' \in [Procs -> 0..MaxPolls]
    BY <1>0 DEF Loading, Loaded
  <2>4. seen' = [q \in Procs |-> seen'[q]] /\ rejected' = [q \in Procs |-> rejected'[q]]
    BY <1>0 DEF Loading, Loaded
  <2>5. Kept
    BY <1>0 DEF Loading, Loaded, Kept
  <2> QED BY <2>1, <2>2, <2>3, <2>4, <2>5
<1>1. CASE Begin(p)
  BY <1>1 DEF Begin, Kept
<1>2. CASE Resumed(p)
  BY <1>2 DEF Resumed, Kept
<1>3. CASE ResumeInvalid(p)
  <2>1. store' \in [Procs -> Stores]
    BY <1>3, AfterErrorFacts DEF ResumeInvalid
  <2>2. pc' \in [Procs -> Places] /\ pw' \in [Procs -> BOOLEAN]
    BY <1>3, AfterErrorFacts DEF ResumeInvalid
  <2>3. tok' \in [Procs -> {None} \cup Sessions] /\ polls' \in [Procs -> 0..MaxPolls]
    BY <1>3, AfterErrorFacts DEF ResumeInvalid
  <2>4. seen' = [q \in Procs |-> seen'[q]] /\ rejected' = [q \in Procs |-> rejected'[q]]
    <3>1. rejected' = [rejected EXCEPT ![p] = rejected[p] \cup {tok[p]}] /\ seen' = seen
      BY <1>3 DEF ResumeInvalid
    <3> QED BY <3>1
  <2>5. Kept
    BY <1>3, AfterErrorFacts DEF ResumeInvalid, Kept
  <2> QED BY <2>1, <2>2, <2>3, <2>4, <2>5
<1>4. CASE ResumeKept(p)
  BY <1>4, AfterErrorFacts DEF ResumeKept, Kept
<1>5. CASE DeleteStale(p)
  <2>1. store' \in [Procs -> Stores]
    BY <1>5, DeleteFacts
  <2>2. pc' \in [Procs -> Places] /\ pw' \in [Procs -> BOOLEAN]
    BY <1>5, DeleteFacts DEF DeleteStale
  <2>3. tok' \in [Procs -> {None} \cup Sessions] /\ polls' \in [Procs -> 0..MaxPolls]
    BY <1>5, DeleteFacts DEF DeleteStale
  <2>4. seen' = [q \in Procs |-> seen'[q]] /\ rejected' = [q \in Procs |-> rejected'[q]]
    BY <1>5, DeleteFacts DEF DeleteStale
  <2>5. Kept
    BY <1>5, DeleteFacts DEF DeleteStale, Kept
  <2> QED BY <2>1, <2>2, <2>3, <2>4, <2>5
<1>6. CASE Prompt(p)
  BY <1>6 DEF Prompt, Kept
<1>7. CASE Authenticate(p)
  <2>1. store' \in [Procs -> Stores]
    BY <1>7 DEF Authenticate
  <2>2. pc' \in [Procs -> Places] /\ pw' \in [Procs -> BOOLEAN]
    BY <1>7 DEF Authenticate
  <2>3. tok' \in [Procs -> {None} \cup Sessions] /\ polls' \in [Procs -> 0..MaxPolls]
    BY <1>7 DEF Authenticate
  <2>4. seen' = [q \in Procs |-> seen'[q]] /\ rejected' = [q \in Procs |-> rejected'[q]]
    BY <1>7 DEF Authenticate
  <2>5. Kept
    BY <1>7 DEF Authenticate, Kept
  <2> QED BY <2>1, <2>2, <2>3, <2>4, <2>5
<1>8. CASE PollSecondFactor(p)
  BY <1>8 DEF PollSecondFactor, Kept
<1>9. CASE LoginFresh(p)
  BY <1>9 DEF LoginFresh, Kept
<1>10. CASE Save(p)
  <2>1. store' \in [Procs -> Stores]
    <3>1. \E st \in Stores : store' = [store EXCEPT ![p] = st]
      BY <1>10, SaveFacts
    <3> QED BY <3>1
  <2>2. pc' \in [Procs -> Places] /\ pw' \in [Procs -> BOOLEAN]
    BY <1>10, SaveFacts DEF Save, Accepted
  <2>3. tok' \in [Procs -> {None} \cup Sessions] /\ polls' \in [Procs -> 0..MaxPolls]
    BY <1>10, SaveFacts DEF Save, Accepted
  <2>4. seen' = [q \in Procs |-> seen'[q]] /\ rejected' = [q \in Procs |-> rejected'[q]]
    BY <1>10, SaveFacts DEF Save, Accepted
  <2>5. Kept
    BY <1>10, SaveFacts DEF Save, Accepted, Kept
  <2> QED BY <2>1, <2>2, <2>3, <2>4, <2>5
<1>11. CASE Stage(p)
  <2>1. store' \in [Procs -> Stores]
    BY <1>11, StageFacts
  <2>2. pc' \in [Procs -> Places] /\ pw' \in [Procs -> BOOLEAN]
    BY <1>11, StageFacts DEF Stage
  <2>3. tok' \in [Procs -> {None} \cup Sessions] /\ polls' \in [Procs -> 0..MaxPolls]
    BY <1>11, StageFacts DEF Stage
  <2>4. seen' = [q \in Procs |-> seen'[q]] /\ rejected' = [q \in Procs |-> rejected'[q]]
    BY <1>11, StageFacts DEF Stage
  <2>5. Kept
    BY <1>11, StageFacts DEF Stage, Kept
  <2> QED BY <2>1, <2>2, <2>3, <2>4, <2>5
<1>12. CASE Commit(p)
  <2>1. store' \in [Procs -> Stores]
    <3>1. \E st \in Stores : store' = [store EXCEPT ![p] = st]
      BY <1>12, CommitFacts
    <3> QED BY <3>1
  <2>2. pc' \in [Procs -> Places] /\ pw' \in [Procs -> BOOLEAN]
    BY <1>12, CommitFacts DEF Commit, Accepted
  <2>3. tok' \in [Procs -> {None} \cup Sessions] /\ polls' \in [Procs -> 0..MaxPolls]
    BY <1>12, CommitFacts DEF Commit, Accepted
  <2>4. seen' = [q \in Procs |-> seen'[q]] /\ rejected' = [q \in Procs |-> rejected'[q]]
    BY <1>12, CommitFacts DEF Commit, Accepted
  <2>5. Kept
    BY <1>12, CommitFacts DEF Commit, Accepted, Kept
  <2> QED BY <2>1, <2>2, <2>3, <2>4, <2>5
<1>13. CASE End(p)
  <2>1. store' \in [Procs -> Stores]
    BY <1>13, <1>n DEF End, Forgotten
  <2>2. pc' \in [Procs -> Places] /\ pw' \in [Procs -> BOOLEAN]
    BY <1>13 DEF End, Ended, Forgotten, NewStore
  <2>3. tok' \in [Procs -> {None} \cup Sessions] /\ polls' \in [Procs -> 0..MaxPolls]
    BY <1>13 DEF End, Ended, Forgotten, NewStore
  <2>4. seen' = [q \in Procs |-> seen'[q]] /\ rejected' = [q \in Procs |-> rejected'[q]]
    BY <1>13 DEF End, Ended, Forgotten, NewStore
  <2>5. Kept
    BY <1>13 DEF End, Ended, Forgotten, NewStore, Kept
  <2> QED BY <2>1, <2>2, <2>3, <2>4, <2>5
<1>14. CASE Crash(p)
  <2>1. store' \in [Procs -> Stores]
    BY <1>14, <1>n DEF Crash, Forgotten
  <2>2. pc' \in [Procs -> Places] /\ pw' \in [Procs -> BOOLEAN]
    BY <1>14 DEF Crash, Ended, Forgotten, NewStore
  <2>3. tok' \in [Procs -> {None} \cup Sessions] /\ polls' \in [Procs -> 0..MaxPolls]
    BY <1>14 DEF Crash, Ended, Forgotten, NewStore
  <2>4. seen' = [q \in Procs |-> seen'[q]] /\ rejected' = [q \in Procs |-> rejected'[q]]
    BY <1>14 DEF Crash, Ended, Forgotten, NewStore
  <2>5. Kept
    BY <1>14 DEF Crash, Ended, Forgotten, NewStore, Kept
  <2> QED BY <2>1, <2>2, <2>3, <2>4, <2>5
<1>15. CASE AskSaved(p)
  BY <1>15 DEF AskSaved, Kept
<1> QED
  BY <1>0, <1>1, <1>2, <1>3, <1>4, <1>5, <1>6, <1>7, <1>8, <1>9, <1>10, <1>11,
     <1>12, <1>13,
     <1>14, <1>15, StepKinds

-----------------------------------------------------------------------------
(* The invariant. *)

Inv == LoginInv /\ Typed

(* The initial states are in the inductive invariant. *)
LEMMA LoginInit == Init => Inv
<1> SUFFICES ASSUME Init PROVE Inv
  OBVIOUS
<1> USE LoginConstants DEF Init, NewStore, Marks
<1>1. Typed
  BY DEF Typed, Stores, Persistence, Places
<1>2. LoginTypeOK
  BY <1>1 DEF LoginTypeOK, Typed, Stores, Places, Entries
<1>3. Disk
  BY DEF Disk
<1>4. ASSUME NEW p \in Procs PROVE Way(p) /\ Knows(p) /\ Refused(p) /\ Saved(p)
  BY DEF Way, Knows, Refused, Saved
<1> QED BY <1>1, <1>2, <1>3, <1>4 DEF Inv, LoginInv

(* A step that is not p's leaves what the invariant says of p. *)
LEMMA OthersKept ==
    ASSUME NEW q \in Procs, Untouched(q), setup' = setup, issued \subseteq issued',
           Way(q), Knows(q), Refused(q), Saved(q)
    PROVE  (Way(q) /\ Knows(q) /\ Refused(q) /\ Saved(q))'
<1>1. Policy(q)' = Policy(q) /\ Container' = Container
  BY DEF Policy, Container
<1>2. Way(q)'
  BY <1>1 DEF Untouched, Way
<1>3. Knows(q)'
  BY DEF Untouched, Knows
<1>4. Refused(q)'
  BY <1>1 DEF Untouched, Refused
<1>5. Saved(q)'
  BY <1>1 DEF Untouched, Saved
<1> QED BY <1>2, <1>3, <1>4, <1>5

(* The keychain, gpg and Tuta change nothing of a process. *)
LEMMA OutsideStep ==
    ASSUME Inv, BackendChanges \/ (\E t \in Sessions : SessionEnds(t)) \/ UNCHANGED loginVars
    PROVE  Inv'
<1>1. /\ UNCHANGED <<setup, entry, issued, store, pc, pw, tok, polls, staged, inspecting,
                     seen, rejected>>
      /\ valid' \subseteq valid
      /\ backend' \in {"ok", "locked", "failing"} \/ backend' = backend
      /\ faults' \in 0..MaxFaults
  BY LoginConstants
  DEF BackendChanges, SessionEnds, loginVars, disk, server, login, ghosts, Fault, Inv,
      LoginInv, LoginTypeOK
<1>2. LoginTypeOK' /\ Typed' /\ Disk'
  BY <1>1 DEF Inv, LoginInv, LoginTypeOK, Typed, Disk
<1>3. ASSUME NEW q \in Procs PROVE (Way(q) /\ Knows(q) /\ Refused(q) /\ Saved(q))'
  BY <1>1, OthersKept DEF Untouched, Inv, LoginInv
<1> QED BY <1>2, <1>3 DEF Inv, LoginInv

(* Every step of a process keeps the inductive invariant. *)
LEMMA ProcessStep ==
    ASSUME Inv, NEW p \in Procs, Step(p)
    PROVE  Inv'
<1> USE DEF Inv, LoginInv
<1>1. Typed' /\ Kept
  BY TypeStep
<1>2. Disk' /\ entry' \in Entries /\ staged' \in {None, "damaged"} \cup Sessions
  BY DiskStep
<1>3. Way(p)' /\ Knows(p)' /\ Refused(p)' /\ Saved(p)'
  BY WayStep, KnowsStep, RefusedStep, SavedStep
<1>4. setup' = setup
  BY DEF Step, Begin, AutoStart, Gate, LoadSession, Resumed, ResumeInvalid, ResumeKept,
     DeleteStale, Recheck, Prompt, Authenticate, PollSecondFactor, LoginFresh, Save, Stage,
     Commit, End, Crash, AskSaved, Inspect, disk
<1>5. ASSUME NEW q \in Procs, q # p PROVE (Way(q) /\ Knows(q) /\ Refused(q) /\ Saved(q))'
  BY <1>1, <1>4, <1>5, OthersUntouched, OthersKept DEF Kept
<1>6. ASSUME NEW q \in Procs PROVE (Way(q) /\ Knows(q) /\ Refused(q) /\ Saved(q))'
  BY <1>3, <1>5
<1>7. LoginTypeOK'
  <2>1. setup' \in Setups
    BY <1>4 DEF LoginTypeOK
  <2>2. \A q \in Procs : pc'[q] \in {"resume", "login", "save", "commit"} => tok'[q] # None
    BY <1>6, LoginConstants DEF Way
  <2> QED BY <1>1, <1>2, <2>1, <2>2 DEF Kept, Typed, LoginTypeOK, Stores, Places
<1> QED BY <1>1, <1>2, <1>6, <1>7

(* Every step keeps the inductive invariant. *)
LEMMA LoginStep == Inv /\ [Next]_loginVars => Inv'
<1> SUFFICES ASSUME Inv, [Next]_loginVars PROVE Inv'
  OBVIOUS
<1> QED BY ProcessStep, OutsideStep DEF Next, Step

(* The inductive invariant of the logins. *)
LEMMA LoginInvariant == LoginSpec => []Inv
BY LoginInit, LoginStep, PTL DEF LoginSpec

(* The entry, the stores and the logins are always in the states the code   *)
(* gives them.                                                              *)
THEOREM LoginTypeCorrect == LoginSpec => []LoginTypeOK
<1>1. Inv => LoginTypeOK
  BY DEF Inv, LoginInv
<1> QED BY <1>1, LoginInvariant, PTL

(* Outside the container a session Tuta has refused is not presented again  *)
(* by the same store, even where its deletion failed: the tombstone of      *)
(* State::delete keeps it from being read back.                             *)
THEOREM RefusedStaysRefused == LoginSpec => []RejectedNotReadBack
<1>1. Inv => RejectedNotReadBack
  BY DEF Inv, LoginInv, RejectedNotReadBack, Way, Refused
<1> QED BY <1>1, LoginInvariant, PTL

(* The CLI asks for a password only when no session is left to resume       *)
(* (login_session of main.rs).                                              *)
THEOREM OutageCostsNoLogin == LoginSpec => []PromptOnlyWithoutSession
<1>1. Inv => PromptOnlyWithoutSession
  BY DEF Inv, LoginInv, PromptOnlyWithoutSession, Refused
<1> QED BY <1>1, LoginInvariant, PTL

(* Where persistence is required a login that succeeded has read or written *)
(* its session in the saved entry (accept_session_save).                    *)
THEOREM SuccessIsSaved == LoginSpec => []RequiredMeansSaved
<1>1. Inv => RequiredMeansSaved
  BY DEF Inv, LoginInv, RequiredMeansSaved, Saved
<1> QED BY <1>1, LoginInvariant, PTL

(* Who changes the entry. *)
LEMMA EntryChanges ==
    ASSUME NEW p \in Procs, Step(p), entry' # entry
    PROVE  \/ DeleteStale(p) \/ Save(p) \/ Commit(p)
           \/ /\ Crash(p) /\ entry' = "damaged" /\ pc[p] = "save"
              /\ setup = "pass" /\ SaveWrites(store[p])
<1>1. CASE Crash(p)
  BY <1>1 DEF Crash
<1>2. CASE DeleteStale(p) \/ Save(p) \/ Commit(p)
  BY <1>2
<1> QED
  BY <1>1, <1>2
  DEF Step, Begin, AutoStart, Gate, LoadSession, Resumed, ResumeInvalid, ResumeKept, Recheck,
      Prompt, Authenticate, PollSecondFactor, LoginFresh, Stage, End, AskSaved, Inspect, disk

(* The two action properties, of one step. *)
NotBlind(p) ==
    entry' # entry /\ pc[p] \in {"delete", "save", "commit"} /\ pc'[p] # pc[p] =>
       /\ seen[p] \notin {"never", "unavailable", "failed"}
       /\ seen[p] = "invalid" /\ entry' = "absent" => store[p].cache \in Sessions

KeepsOld ==
    Container /\ entry \in Sessions =>
       /\ entry' \in Sessions
       /\ entry' # entry => \E p \in Procs : pc[p] = "commit" /\ tok[p] = entry'

(* No step overwrites or deletes an entry blindly. *)
LEMMA StepNotBlind ==
    ASSUME Inv, [Next]_loginVars, NEW p \in Procs
    PROVE  NotBlind(p)
<1> SUFFICES ASSUME entry' # entry, pc[p] \in {"delete", "save", "commit"}, pc'[p] # pc[p]
             PROVE  /\ seen[p] \notin {"never", "unavailable", "failed"}
                    /\ seen[p] = "invalid" /\ entry' = "absent" => store[p].cache \in Sessions
  BY DEF NotBlind
<1> USE LoginConstants DEF Marks
<1>1. Way(p) /\ Knows(p) /\ Typed
  BY DEF Inv, LoginInv
<1>2. Step(p)
  <2>1. PICK q \in Procs : Step(q)
    BY DEF Next, Step, BackendChanges, SessionEnds, loginVars, disk
  <2> QED BY <1>1, <2>1, OthersUntouched DEF Untouched
<1>3. CASE DeleteStale(p)
  BY <1>1, <1>3, DeleteFacts DEF Way, Knows
<1>4. CASE Save(p)
  <2>1. /\ store[p].persistence \in {"writable", "replaceInvalid"} /\ pc[p] = "save"
        /\ entry' # "absent"
    BY <1>1, <1>4, SaveFacts DEF Way
  <2> QED BY <1>1, <2>1 DEF Knows
<1>5. CASE Commit(p)
  BY <1>1, <1>5, CommitFacts DEF Way, Knows
<1>6. CASE entry' = "damaged" /\ pc[p] = "save" /\ SaveWrites(store[p])
  BY <1>1, <1>6 DEF Knows, SaveWrites
<1> QED BY <1>2, <1>3, <1>4, <1>5, <1>6, EntryChanges

(* No step of the container loses the saved session. *)
LEMMA StepKeepsOld == Inv /\ [Next]_loginVars => KeepsOld
<1> SUFFICES ASSUME Inv, [Next]_loginVars, Container, entry' # entry, entry \in Sessions
             PROVE  entry' \in Sessions /\ \E p \in Procs : pc[p] = "commit" /\ tok[p] = entry'
  BY DEF KeepsOld
<1>1. PICK p \in Procs : Step(p)
  BY DEF Next, Step, BackendChanges, SessionEnds, loginVars, disk
<1>2. Way(p) /\ Knows(p) /\ Typed
  BY DEF Inv, LoginInv
<1>3. Commit(p)
  BY <1>1, <1>2, EntryChanges, SaveFacts, DeleteFacts DEF Way, Container
<1> QED BY <1>2, <1>3, CommitFacts DEF Way

(* "A failed read is never permission to overwrite or delete an entry": who *)
(* changes the entry has read it, and removes bytes it could not decode     *)
(* only with a session of its own (session_store/mod.rs).                   *)
THEOREM NothingIsOverwrittenBlindly == LoginSpec => NeverBlind
<1>1. Inv /\ [Next]_loginVars => [\A p \in Procs : NotBlind(p)]_loginVars
  BY StepNotBlind
<1>2. LoginSpec => [][\A p \in Procs : NotBlind(p)]_loginVars
  BY <1>1, LoginInvariant, PTL DEF LoginSpec
<1> QED BY <1>2 DEF NeverBlind, NotBlind

(* In the container a saved session is replaced only by another one that    *)
(* was authenticated, staged and read back (write_preserving of pass.rs).   *)
THEOREM OldSessionIsKept == LoginSpec => PreservingKeepsOld
<1>1. Inv /\ [Next]_loginVars => [KeepsOld]_loginVars
  BY StepKeepsOld
<1>2. LoginSpec => [][KeepsOld]_loginVars
  BY <1>1, LoginInvariant, PTL DEF LoginSpec
<1> QED BY <1>2 DEF PreservingKeepsOld, KeepsOld
=============================================================================
