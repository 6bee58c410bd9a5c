-------------------------- MODULE SupervisorProofs --------------------------
(***************************************************************************)
(* Theorems about Supervisor, for every set of supervisors and every bound.*)
(***************************************************************************)
EXTENDS Supervisor, TLAPS

(* ExclusiveVolume speaks of workers, and a worker is spawned when nobody   *)
(* holds a descriptor of the lock: the invariant ties every worker, helper  *)
(* and supervisor at work to its descriptor, and all descriptors to one     *)
(* supervisor.  What the others speak of is added process by process.       *)

(* The supervisor has the group in hand. *)
Attends(p) == pc[p] \in {"watch", "term", "reap"}

(* The descriptors are those of one supervisor and its worker. *)
OneHolder ==
    \A p, q \in Proc, w, v \in {"supervisor", "worker"} :
        <<p, w>> \in held /\ <<q, v>> \in held => p = q

(* The group of p has a descriptor as long as it works, a supervisor that is *)
(* not killed outlives it, and keeps its leader until it signals no more.    *)
Group(p) ==
    /\ worker[p] \in Alive => <<p, "worker">> \in held
    /\ Attends(p) => <<p, "supervisor">> \in held
    /\ exit[p] = "killed" => pc[p] = "ended"
    /\ worker[p] \in Alive \/ helper[p]
          => pc[p] \in {"watch", "term"} \/ exit[p] = "killed"
    /\ pc[p] \in {"watch", "term"} => worker[p] # "none"

(* The phases of an init and those of a service. *)
Phase(p) ==
    /\ worker[p] \in {"store", "login"} => p \notin Inits /\ config
    /\ worker[p] = "serving" => p \notin Inits
    /\ worker[p] \in {"signin", "storing"} => p \in Inits

(* The volume has not changed since the fingerprint of this attempt. *)
Seen(p) == p \notin Inits /\ Attends(p) => seen[p] = SessionFingerprint

(* A refused fingerprint was the volume's, and the numbers in it only grow. *)
Past(p) ==
    \A f \in rejected[p] :
        /\ p \notin Inits /\ config
        /\ f \in Nat \X Nat /\ f[1] <= configAt /\ f[2] <= entryAt

(* The refusal is on its way to the supervisor, or the supervisor has it. *)
Remembered(p) ==
    \/ Attends(p) /\ worker[p] = "zombie" /\ code[p] = 13
    \/ blocked[p] # None /\ blocked[p] = <<"Rejected", SessionFingerprint>>
    \/ blocked[p] # None /\ blocked[p][1] = "Version"
    \/ pc[p] \in {"close", "unlock", "ended"}

Memory(p) == SessionFingerprint \in rejected[p] => Remembered(p)

(* From its start to the login a worker has nothing that was refused. *)
Fresh(p) ==
    p \notin Inits /\ worker[p] \in {"boot", "store", "login"} =>
        /\ SessionFingerprint \notin rejected[p]
        /\ blocked[p] # None => blocked[p][1] # "Version"

(* An init is done, and its worker says so, when the volume is configured. *)
Told(p) ==
    /\ p \in Inits /\ (exit[p] = "ok" \/ code[p] = 0) => p \in saved
    /\ pc[p] = "sleep" => p \in Waiting
    /\ pc[p] \in {"close", "unlock"} => p \notin Inits

(* A service that runs holds owner.lock and has bound the socket. *)
Reachable(p) ==
    p \notin Inits =>
        /\ Running(p) => runtime = p
        /\ pc[p] \notin {"off", "unlock", "ended"} => sock = p

SupInv ==
    /\ SupTypeOK
    /\ OneHolder
    /\ \A p \in Proc : Group(p) /\ Phase(p) /\ Seen(p) /\ Past(p) /\ Memory(p)
                       /\ Fresh(p) /\ Told(p) /\ Reachable(p)
-----------------------------------------------------------------------------
(* The types, part by part. *)

PcOK == pc \in [Proc -> {"off", "top", "acquire", "watch", "term", "reap", "sleep",
                         "close", "unlock", "ended"}]
ExitOK == exit \in [Proc -> {None, "ok", "failed", "killed"}]
StatusOK == status \in [Proc -> [state : States, ready : BOOLEAN]]
BlockedOK == blocked \in [Proc -> {None} \union ({"Rejected", "Version"} \X Fingerprints)]
BackoffOK == backoff \in [Proc -> 1..MaxBackoff]
GroupOK ==
    /\ worker \in [Proc -> Alive \union {"none", "zombie"}]
    /\ code \in [Proc -> {None, 0, 10, 11, 12, 13, 14, 17, 18, 20}]
    /\ held \subseteq (Proc \X {"supervisor", "worker"})
BoundsOK == faults \in 0..MaxFaults /\ expiries \in 0..MaxExpiries

(* What SupTypeOK says of the state that two or more kinds of step change. *)
SharedOK == PcOK /\ ExitOK /\ StatusOK /\ BlockedOK /\ BackoffOK /\ GroupOK /\ BoundsOK

(* The parts follow from the whole. *)
LEMMA SupTypeParts == SupTypeOK => SharedOK
BY
DEF SupTypeOK, SharedOK, PcOK, ExitOK, StatusOK, BlockedOK, BackoffOK, GroupOK,
    BoundsOK

-----------------------------------------------------------------------------
(* The steps several actions share. *)

(* Counting a fault keeps the bounds typed. *)
LEMMA FaultType == SharedOK /\ Fault => BoundsOK'
BY SupAssumption DEF SharedOK, BoundsOK, Fault

(* Leaving the bounds alone keeps them typed. *)
LEMMA SameBoundsType == SharedOK /\ UNCHANGED bounds => BoundsOK'
BY DEF SharedOK, BoundsOK, bounds

(* A worker that ends, and one that goes on to its next phase. *)
LEMMA ExitsType ==
    ASSUME NEW p \in Proc, NEW c \in {None, 0, 10, 11, 12, 13, 14, 17, 18, 20},
           SharedOK, Exits(p, c)
    PROVE  GroupOK'
<1> USE DEF SharedOK, GroupOK, Exits
<1>1. worker' \in [Proc -> Alive \union {"none", "zombie"}]
  OBVIOUS
<1>2. code' \in [Proc -> {None, 0, 10, 11, 12, 13, 14, 17, 18, 20}]
  OBVIOUS
<1>3. held' \subseteq (Proc \X {"supervisor", "worker"})
  OBVIOUS
<1> QED BY <1>1, <1>2, <1>3

(* A worker that moves to its next phase keeps its type. *)
LEMMA NextPhaseType ==
    ASSUME NEW p \in Proc, NEW w \in Alive,
           SharedOK, worker' = [worker EXCEPT ![p] = w], UNCHANGED <<held, code>>
    PROVE  GroupOK'
BY DEF SharedOK, GroupOK

(* supervise() returns, or an attempt ends with a reason. *)
LEMMA ReturnType ==
    ASSUME NEW p \in Proc, NEW r \in {"ok", "failed"}, SharedOK, Return(p, r)
    PROVE  PcOK' /\ ExitOK'
<1> USE DEF SharedOK, PcOK, ExitOK, Return
<1>1. PcOK'
  OBVIOUS
<1>2. ExitOK'
  OBVIOUS
<1> QED BY <1>1, <1>2

(* Waiting after an outcome keeps the state of the supervisor typed. *)
LEMMA OutcomeType ==
    ASSUME NEW p \in Proc, NEW r \in States, SharedOK, Outcome(p, r)
    PROVE  PcOK' /\ ExitOK' /\ StatusOK' /\ BackoffOK'
<1>1. StatusOK'
  BY DEF SharedOK, StatusOK, Outcome, WaitingStatus
<1>2. NextBackoff(r, backoff[p]) \in 1..MaxBackoff
  <2>1. backoff[p] \in 1..MaxBackoff
    BY DEF SharedOK, BackoffOK
  <2> QED BY <2>1, SupAssumption DEF NextBackoff
<1>3. BackoffOK'
  BY <1>2 DEF SharedOK, BackoffOK, Outcome
<1>4. CASE p \in Waiting
  BY <1>1, <1>3, <1>4 DEF SharedOK, PcOK, ExitOK, Outcome
<1>5. CASE p \notin Waiting
  <2>1. Return(p, "failed")
    BY <1>5 DEF Outcome
  <2> QED BY <1>1, <1>3, <2>1, ReturnType
<1> QED BY <1>4, <1>5

(* Judging the exit code of a worker keeps the types. *)
LEMMA JudgeType ==
    ASSUME NEW p \in Proc, SupTypeOK, Judge(p)
    PROVE  PcOK' /\ ExitOK' /\ StatusOK' /\ BackoffOK' /\ BlockedOK'
<1> DEFINE result == FromCode(code[p], p \in Inits)
<1>1. result \in States
  BY DEF FromCode, States
<1>2. SharedOK
  BY SupTypeParts
<1> HIDE DEF result
<1>3. CASE /\ \E r \in {"ok", "failed"} : Return(p, r)
           /\ UNCHANGED <<status, backoff, blocked>>
  BY <1>2, <1>3, ReturnType DEF SharedOK, StatusOK, BackoffOK, BlockedOK
<1>4. CASE /\ Outcome(p, result)
           /\ blocked' = IF result \in {"Rejected", "Version"}
                         THEN [blocked EXCEPT ![p] = <<result, seen[p]>>]
                         ELSE blocked
  <2>1. seen[p] \in Fingerprints
    BY DEF SupTypeOK
  <2>2. BlockedOK'
    BY <1>2, <1>4, <2>1 DEF SharedOK, BlockedOK
  <2> QED BY <1>1, <1>2, <1>4, <2>2, OutcomeType
<1> QED BY <1>3, <1>4 DEF Judge, result
-----------------------------------------------------------------------------
(* The initial state has its type. *)
LEMMA SupInitTypeOK == SupInit => SupTypeOK
<1> SUFFICES ASSUME SupInit PROVE SupTypeOK
  OBVIOUS
<1> USE SupAssumption DEF SupInit
<1>1. PcOK /\ ExitOK
  BY DEF PcOK, ExitOK
<1>2. StatusOK /\ BackoffOK
  BY DEF StatusOK, BackoffOK, WaitingStatus, States
<1>3. GroupOK /\ BoundsOK
  BY DEF GroupOK, BoundsOK
<1>4. /\ BlockedOK
      /\ seen \in [Proc -> Fingerprints]
      /\ rejected \in [Proc -> SUBSET Fingerprints]
  BY DEF BlockedOK, Fingerprints
<1>5. /\ stop \in [Proc -> BOOLEAN] /\ quit \in [Proc -> BOOLEAN]
      /\ helper \in [Proc -> BOOLEAN] /\ agent \in [Proc -> BOOLEAN]
  OBVIOUS
<1>6. /\ runtime \in Proc \union {None} /\ sock \in Proc \union {None}
      /\ config \in BOOLEAN /\ session \in {"none", "bad", "good"}
      /\ configAt \in Nat /\ entryAt \in Nat /\ tooOld \in BOOLEAN
      /\ saved \subseteq Inits
  OBVIOUS
<1> QED
  BY <1>1, <1>2, <1>3, <1>4, <1>5, <1>6
  DEF SupTypeOK, PcOK, ExitOK, StatusOK, BlockedOK, BackoffOK, GroupOK, BoundsOK

(* Every step keeps the type. *)
LEMMA SupStepTypeOK ==
    SupTypeOK /\ (\A p \in Proc : Phase(p)) /\ [SupNext]_vars => SupTypeOK'
<1> SUFFICES ASSUME SupTypeOK, \A p \in Proc : Phase(p), [SupNext]_vars PROVE SupTypeOK'
  OBVIOUS
<1> DEFINE Parts == PcOK' /\ ExitOK' /\ StatusOK' /\ BlockedOK' /\ BackoffOK'
                    /\ GroupOK' /\ BoundsOK'
           Own == /\ stop' \in [Proc -> BOOLEAN] /\ quit' \in [Proc -> BOOLEAN]
                  /\ helper' \in [Proc -> BOOLEAN] /\ agent' \in [Proc -> BOOLEAN]
                  /\ runtime' \in Proc \union {None} /\ sock' \in Proc \union {None}
                  /\ seen' \in [Proc -> Fingerprints]
                  /\ config' \in BOOLEAN /\ session' \in {"none", "bad", "good"}
                  /\ configAt' \in Nat /\ entryAt' \in Nat /\ tooOld' \in BOOLEAN
                  /\ rejected' \in [Proc -> SUBSET Fingerprints] /\ saved' \subseteq Inits
<1>s. SharedOK
  BY SupTypeParts
<1>q. SUFFICES Parts /\ Own
  BY DEF SupTypeOK, PcOK, ExitOK, StatusOK, BlockedOK, BackoffOK, GroupOK, BoundsOK
<1>k1. UNCHANGED pc => PcOK'
  BY <1>s DEF SharedOK, PcOK
<1>k2. UNCHANGED exit => ExitOK'
  BY <1>s DEF SharedOK, ExitOK
<1>k3. UNCHANGED status => StatusOK'
  BY <1>s DEF SharedOK, StatusOK
<1>k4. UNCHANGED blocked => BlockedOK'
  BY <1>s DEF SharedOK, BlockedOK
<1>k5. UNCHANGED backoff => BackoffOK'
  BY <1>s DEF SharedOK, BackoffOK
<1>k6. UNCHANGED <<worker, code, held>> => GroupOK'
  BY <1>s DEF SharedOK, GroupOK
<1>k7. UNCHANGED bounds => BoundsOK'
  BY <1>s, SameBoundsType
<1>1. ASSUME NEW p \in Proc, Launch(p) PROVE Parts /\ Own
  <2>1. PcOK'
    BY <1>s, <1>1 DEF SharedOK, PcOK, Launch
  <2>2. ExitOK'
    BY <1>s, <1>1 DEF SharedOK, ExitOK, Launch
  <2>3. Parts
    BY <1>1, <2>1, <2>2, <1>k3, <1>k4, <1>k5, <1>k6, <1>k7 DEF Launch, group
  <2>4. runtime' \in Proc \union {None} /\ sock' \in Proc \union {None}
    BY <1>1 DEF Launch, SupTypeOK
  <2>5. Own
    BY <1>1, <2>4 DEF Launch, SupTypeOK, group, volume
  <2> QED BY <2>3, <2>5
<1>2. ASSUME NEW p \in Proc, Signal(p) PROVE Parts /\ Own
  <2>1. Parts
    BY <1>2, <1>k1, <1>k2, <1>k3, <1>k4, <1>k5, <1>k6, <1>k7 DEF Signal, loop, group
  <2>2. Own
    BY <1>2 DEF Signal, SupTypeOK, loop, group, volume
  <2> QED BY <2>1, <2>2
<1>3. ASSUME NEW p \in Proc, Kill(p) PROVE Parts /\ Own
  <2>1. PcOK' /\ ExitOK'
    BY <1>s, <1>3 DEF SharedOK, PcOK, ExitOK, Kill
  <2>2. GroupOK'
    BY <1>s, <1>3 DEF SharedOK, GroupOK, Kill
  <2>3. Parts
    BY <1>s, <1>3, <2>1, <2>2, <1>k3, <1>k4, <1>k5, FaultType DEF Kill
  <2>4. Own
    BY <1>3 DEF Kill, SupTypeOK, volume
  <2> QED BY <2>3, <2>4
<1>4. ASSUME NEW p \in Proc, Top(p) PROVE Parts /\ Own
  <2>1. PcOK' /\ ExitOK'
    <3>1. CASE stop[p]
      <4>1. \E r \in {"ok", "failed"} : Return(p, r)
        BY <1>4, <3>1 DEF Top
      <4> QED BY <1>s, <4>1, ReturnType
    <3>2. CASE ~stop[p]
      BY <1>s, <1>4, <3>2 DEF SharedOK, PcOK, ExitOK, Top
    <3> QED BY <3>1, <3>2
  <2>2. Parts
    BY <1>4, <2>1, <1>k3, <1>k4, <1>k5, <1>k6, <1>k7 DEF Top
  <2>3. Own
    BY <1>4 DEF Top, SupTypeOK, volume
  <2> QED BY <2>2, <2>3
<1>5. ASSUME NEW p \in Proc, AcquireFails(p) \/ AcquireIdle(p) PROVE Parts /\ Own
  <2>1. BoundsOK'
    BY <1>s, <1>5, <1>k7, FaultType DEF AcquireFails, AcquireIdle
  <2>2. PcOK' /\ ExitOK' /\ StatusOK' /\ BackoffOK'
    <3>1. CASE Return(p, "failed") /\ UNCHANGED <<status, backoff>>
      BY <1>s, <3>1, <1>k3, <1>k5, ReturnType
    <3>2. CASE \E r \in States : Outcome(p, r)
      BY <1>s, <3>2, OutcomeType
    <3>3. CASE AcquireFails(p)
      BY <3>1, <3>2, <3>3 DEF AcquireFails, States
    <3>4. CASE AcquireIdle(p)
      <4>1. AwaitsRepair(blocked[p], SessionFingerprint) => blocked[p][1] \in States
        BY DEF AwaitsRepair, States
      <4> QED BY <3>2, <3>4, <4>1 DEF AcquireIdle, States
    <3> QED BY <1>5, <3>3, <3>4
  <2>3. Parts
    BY <1>5, <2>1, <2>2, <1>k4, <1>k6 DEF AcquireFails, AcquireIdle, group
  <2>4. Own
    BY <1>5 DEF AcquireFails, AcquireIdle, SupTypeOK, group, volume
  <2> QED BY <2>3, <2>4
<1>6. ASSUME NEW p \in Proc, AcquireSpawn(p) PROVE Parts /\ Own
  <2>1. PcOK'
    BY <1>s, <1>6 DEF SharedOK, PcOK, AcquireSpawn
  <2>2. GroupOK'
    BY <1>s, <1>6 DEF SharedOK, GroupOK, AcquireSpawn, Inherited, Alive
  <2>3. StatusOK'
    BY <1>s, <1>6
    DEF SharedOK, StatusOK, AcquireSpawn, ConfigureStatus, States, SupTypeOK
  <2>4. Parts
    BY <1>6, <2>1, <2>2, <2>3, <1>k2, <1>k4, <1>k5, <1>k7 DEF AcquireSpawn
  <2>5. seen' \in [Proc -> Fingerprints]
    BY <1>6 DEF AcquireSpawn, SupTypeOK, SessionFingerprint, Fingerprints
  <2>6. Own
    BY <1>6, <2>5 DEF AcquireSpawn, SupTypeOK, volume
  <2> QED BY <2>4, <2>6
<1>7. ASSUME NEW p \in Proc, ReapAgents(p) PROVE Parts /\ Own
  <2>1. StatusOK'
    BY <1>s, <1>7 DEF SharedOK, StatusOK, ReapAgents, ConfigureStatus, States, SupTypeOK
  <2>2. Parts
    BY <1>7, <2>1, <1>k1, <1>k2, <1>k4, <1>k5, <1>k6, <1>k7 DEF ReapAgents, loop
  <2>3. Own
    BY <1>7 DEF ReapAgents, SupTypeOK, loop, volume
  <2> QED BY <2>2, <2>3
<1>8. ASSUME NEW p \in Proc, Terminate(p) PROVE Parts /\ Own
  <2>1. PcOK'
    BY <1>s, <1>8 DEF SharedOK, PcOK, Terminate
  <2>2. Parts
    BY <1>8, <2>1, <1>k2, <1>k3, <1>k4, <1>k5, <1>k6, <1>k7 DEF Terminate, group
  <2>3. quit' \in [Proc -> BOOLEAN]
    BY <1>8 DEF Terminate, SupTypeOK
  <2>4. Own
    BY <1>8, <2>3 DEF Terminate, SupTypeOK, group, volume
  <2> QED BY <2>2, <2>4
<1>9. ASSUME NEW p \in Proc, KillGroup(p) PROVE Parts /\ Own
  <2>1. PcOK'
    BY <1>s, <1>9 DEF SharedOK, PcOK, KillGroup
  <2>2. worker' \in [Proc -> Alive \union {"none", "zombie"}]
    BY <1>s, <1>9 DEF SharedOK, GroupOK, KillGroup
  <2>3. code' \in [Proc -> {None, 0, 10, 11, 12, 13, 14, 17, 18, 20}]
    BY <1>s, <1>9 DEF SharedOK, GroupOK, KillGroup
  <2>4. GroupOK'
    BY <1>s, <1>9, <2>2, <2>3 DEF SharedOK, GroupOK, KillGroup
  <2>5. Parts
    BY <1>9, <2>1, <2>4, <1>k2, <1>k3, <1>k4, <1>k5, <1>k7 DEF KillGroup, loop
  <2>6. Own
    BY <1>9 DEF KillGroup, SupTypeOK, loop, volume
  <2> QED BY <2>5, <2>6
<1>10. ASSUME NEW p \in Proc, Reap(p) PROVE Parts /\ Own
  <2>1. GroupOK'
    BY <1>s, <1>10 DEF SharedOK, GroupOK, Reap
  <2>2. Parts
    BY <1>10, <2>1, <1>k7, JudgeType DEF Reap
  <2>3. seen' \in [Proc -> Fingerprints]
    BY <1>10 DEF Reap, SupTypeOK, Fingerprints
  <2>4. Own
    BY <1>10, <2>3 DEF Reap, SupTypeOK, volume
  <2> QED BY <2>2, <2>4
<1>11. ASSUME NEW p \in Proc, Sleep(p) PROVE Parts /\ Own
  <2>1. PcOK' /\ ExitOK' /\ StatusOK'
    <3>1. CASE /\ status' = [status EXCEPT ![p] = WaitingStatus("Stopping")]
               /\ Return(p, "ok")
      BY <1>s, <3>1, ReturnType DEF SharedOK, StatusOK, WaitingStatus, States
    <3>2. CASE pc' = [pc EXCEPT ![p] = "top"] /\ UNCHANGED <<status, exit>>
      BY <1>s, <3>2, <1>k2, <1>k3 DEF SharedOK, PcOK
    <3> QED BY <1>11, <3>1, <3>2 DEF Sleep
  <2>2. Parts
    BY <1>11, <2>1, <1>k4, <1>k5, <1>k6, <1>k7 DEF Sleep
  <2>3. Own
    BY <1>11 DEF Sleep, SupTypeOK, volume
  <2> QED BY <2>2, <2>3
<1>12. ASSUME NEW p \in Proc, CloseSocket(p) \/ CloseRuntime(p) PROVE Parts /\ Own
  <2>1. PcOK'
    BY <1>s, <1>12 DEF SharedOK, PcOK, CloseSocket, CloseRuntime
  <2>2. Parts
    BY <1>12, <2>1, <1>k2, <1>k3, <1>k4, <1>k5, <1>k6, <1>k7
    DEF CloseSocket, CloseRuntime, group
  <2>3. Own
    BY <1>12 DEF CloseSocket, CloseRuntime, SupTypeOK, group, volume
  <2> QED BY <2>2, <2>3
<1>13. ASSUME NEW p \in Proc, Boot(p) PROVE Parts /\ Own
  <2>1. GroupOK'
    BY <1>s, <1>13, ExitsType, NextPhaseType DEF Boot, Alive
  <2>2. BoundsOK'
    BY <1>s, <1>13, <1>k7, FaultType DEF Boot
  <2>3. Parts
    BY <1>13, <2>1, <2>2, <1>k1, <1>k2, <1>k3, <1>k4, <1>k5 DEF Boot, loop
  <2>4. helper' \in [Proc -> BOOLEAN]
    BY <1>13 DEF Boot, SupTypeOK
  <2>5. Own
    BY <1>13, <2>4 DEF Boot, SupTypeOK, loop, volume
  <2> QED BY <2>3, <2>5
<1>14. ASSUME NEW p \in Proc, LoadPersisted(p) PROVE Parts /\ Own
  <2>1. GroupOK'
    BY <1>s, <1>14, ExitsType, NextPhaseType DEF LoadPersisted, Alive
  <2>2. BoundsOK'
    BY <1>s, <1>14, <1>k7, FaultType DEF LoadPersisted
  <2>3. Parts
    BY <1>14, <2>1, <2>2, <1>k1, <1>k2, <1>k3, <1>k4, <1>k5 DEF LoadPersisted, loop
  <2>4. Own
    BY <1>14 DEF LoadPersisted, SupTypeOK, loop, volume
  <2> QED BY <2>3, <2>4
<1>15. ASSUME NEW p \in Proc, Login(p) PROVE Parts /\ Own
  <2>1. GroupOK'
    BY <1>s, <1>15, ExitsType, NextPhaseType DEF Login, Alive
  <2>2. BoundsOK'
    BY <1>s, <1>15, <1>k7, FaultType DEF Login
  <2>3. Parts
    BY <1>15, <2>1, <2>2, <1>k1, <1>k2, <1>k3, <1>k4, <1>k5 DEF Login, loop
  <2>4. SessionFingerprint \in Fingerprints
    BY DEF SupTypeOK, SessionFingerprint, Fingerprints
  <2>5. rejected' \in [Proc -> SUBSET Fingerprints]
    BY <1>15, <2>4 DEF Login, SupTypeOK
  <2>6. Own
    BY <1>15, <2>5 DEF Login, SupTypeOK, loop, volume
  <2> QED BY <2>3, <2>6
<1>16. ASSUME NEW p \in Proc, Serve(p) PROVE Parts /\ Own
  <2>1. GroupOK'
    BY <1>s, <1>16, ExitsType DEF Serve
  <2>2. BoundsOK'
    BY <1>s, <1>16, <1>k7, FaultType DEF Serve
  <2>3. Parts
    BY <1>16, <2>1, <2>2, <1>k1, <1>k2, <1>k3, <1>k4, <1>k5 DEF Serve, loop
  <2>4. Own
    BY <1>16 DEF Serve, SupTypeOK, loop, volume
  <2> QED BY <2>3, <2>4
<1>17. ASSUME NEW p \in Proc, SignIn(p) PROVE Parts /\ Own
  <2>1. GroupOK'
    BY <1>s, <1>17, ExitsType, NextPhaseType DEF SignIn, Alive
  <2>2. BoundsOK'
    BY <1>s, <1>17, <1>k7, FaultType DEF SignIn
  <2>3. Parts
    BY <1>17, <2>1, <2>2, <1>k1, <1>k2, <1>k3, <1>k4, <1>k5 DEF SignIn, loop
  <2>4. session' \in {"none", "bad", "good"} /\ entryAt' \in Nat
    BY <1>17 DEF SignIn, SupTypeOK
  <2>5. Own
    BY <1>17, <2>4 DEF SignIn, SupTypeOK, loop
  <2> QED BY <2>3, <2>5
<1>18. ASSUME NEW p \in Proc, StoreConfig(p) PROVE Parts /\ Own
  <2>1. GroupOK'
    BY <1>s, <1>18, ExitsType DEF StoreConfig
  <2>2. BoundsOK'
    BY <1>s, <1>18, <1>k7, FaultType DEF StoreConfig
  <2>3. Parts
    BY <1>18, <2>1, <2>2, <1>k1, <1>k2, <1>k3, <1>k4, <1>k5 DEF StoreConfig, loop
  <2>4. config' \in BOOLEAN
    <3>1. config' = TRUE \/ config' = config
      BY <1>18 DEF StoreConfig
    <3> QED BY <3>1, Zenon DEF SupTypeOK
  <2>7. configAt' \in Nat
    BY <1>18 DEF StoreConfig, SupTypeOK
  <2>5. saved' \subseteq Inits
    BY <1>18 DEF StoreConfig, SupTypeOK, Phase
  <2>6. Own
    BY <1>18, <2>4, <2>5, <2>7 DEF StoreConfig, SupTypeOK, loop
  <2> QED BY <2>3, <2>6
<1>19. ASSUME NEW p \in Proc, Dies(p) PROVE Parts /\ Own
  <2>1. GroupOK'
    BY <1>s, <1>19, ExitsType DEF Dies
  <2>2. BoundsOK'
    BY <1>s, <1>19, <1>k7, FaultType DEF Dies
  <2>3. Parts
    BY <1>19, <2>1, <2>2, <1>k1, <1>k2, <1>k3, <1>k4, <1>k5 DEF Dies, loop
  <2>4. Own
    BY <1>19 DEF Dies, SupTypeOK, loop, volume
  <2> QED BY <2>3, <2>4
<1>20. ASSUME NEW p \in Proc, HelperEnds(p) PROVE Parts /\ Own
  <2>1. Parts
    BY <1>20, <1>k1, <1>k2, <1>k3, <1>k4, <1>k5, <1>k6, <1>k7 DEF HelperEnds, loop
  <2>2. Own
    BY <1>20 DEF HelperEnds, SupTypeOK, loop, volume
  <2> QED BY <2>1, <2>2
<1>21. CASE Expire
  <2>1. BoundsOK'
    BY <1>s, <1>21, SupAssumption DEF SharedOK, BoundsOK, Expire
  <2>2. Parts
    BY <1>21, <2>1, <1>k1, <1>k2, <1>k3, <1>k4, <1>k5, <1>k6 DEF Expire, loop, group
  <2>3. session' \in {"none", "bad", "good"} /\ tooOld' \in BOOLEAN
    BY <1>21 DEF Expire, SupTypeOK
  <2>4. Own
    BY <1>21, <2>3 DEF Expire, SupTypeOK, loop, group
  <2> QED BY <2>2, <2>4
<1>22. CASE UNCHANGED vars
  <2>1. Parts
    BY <1>22, <1>k1, <1>k2, <1>k3, <1>k4, <1>k5, <1>k6, <1>k7 DEF vars, bounds
  <2>2. Own
    BY <1>22 DEF vars, SupTypeOK
  <2> QED BY <2>1, <2>2
<1> HIDE DEF Parts, Own
<1> QED
  BY <1>1, <1>2, <1>3, <1>4, <1>5, <1>6, <1>7, <1>8, <1>9, <1>10, <1>11, <1>12,
     <1>13, <1>14, <1>15, <1>16, <1>17, <1>18, <1>19, <1>20, <1>21, <1>22
  DEF SupNext, Supervise, Work
-----------------------------------------------------------------------------
Step(p) == Launch(p) \/ Signal(p) \/ Kill(p) \/ Supervise(p) \/ Work(p) \/ HelperEnds(p)

(* What a step of p leaves alone of another process q. *)
Untouched(q) ==
    /\ pc'[q] = pc[q] /\ exit'[q] = exit[q]
    /\ worker'[q] = worker[q] /\ helper'[q] = helper[q] /\ code'[q] = code[q]
    /\ seen'[q] = seen[q] /\ blocked'[q] = blocked[q] /\ rejected'[q] = rejected[q]
    /\ \A w \in {"supervisor", "worker"} : <<q, w>> \in held' <=> <<q, w>> \in held

(* A step of p leaves everything another process has as it is. *)
LEMMA OthersUntouched ==
    ASSUME NEW p \in Proc, NEW q \in Proc, p # q, SupTypeOK, Step(p)
    PROVE  Untouched(q)
<1> USE DEF Untouched, SupTypeOK
<1>1. CASE Launch(p)
  BY <1>1 DEF Launch, group
<1>2. CASE Signal(p)
  BY <1>2 DEF Signal, group, loop
<1>3. CASE Kill(p)
  BY <1>3 DEF Kill
<1>4. CASE Top(p)
  BY <1>4 DEF Top, Return
<1>5. CASE AcquireFails(p)
  BY <1>5 DEF AcquireFails, Return, Outcome, group
<1>6. CASE AcquireIdle(p)
  BY <1>6 DEF AcquireIdle, Return, Outcome, group
<1>7. CASE AcquireSpawn(p)
  BY <1>7 DEF AcquireSpawn, Inherited, VolumeFree
<1>8. CASE ReapAgents(p)
  BY <1>8 DEF ReapAgents, loop
<1>9. CASE Terminate(p)
  BY <1>9 DEF Terminate, group
<1>10. CASE KillGroup(p)
  BY <1>10 DEF KillGroup, loop
<1>11. CASE Reap(p)
  BY <1>11 DEF Reap, Return, Outcome, Judge
<1>12. CASE Sleep(p)
  BY <1>12 DEF Sleep, Return
<1>13. CASE CloseSocket(p)
  BY <1>13 DEF CloseSocket, group
<1>14. CASE CloseRuntime(p)
  BY <1>14 DEF CloseRuntime, group
<1>15. CASE Boot(p)
  BY <1>15 DEF Boot, Exits, loop
<1>16. CASE LoadPersisted(p)
  BY <1>16 DEF LoadPersisted, Exits, loop
<1>17. CASE Login(p)
  BY <1>17 DEF Login, Exits, loop
<1>18. CASE Serve(p)
  BY <1>18 DEF Serve, Exits, loop
<1>19. CASE SignIn(p)
  BY <1>19 DEF SignIn, Exits, loop
<1>20. CASE StoreConfig(p)
  BY <1>20 DEF StoreConfig, Exits, loop
<1>21. CASE Dies(p)
  BY <1>21 DEF Dies, Exits, loop
<1>22. CASE HelperEnds(p)
  BY <1>22 DEF HelperEnds, loop
<1> QED
  BY <1>1, <1>2, <1>3, <1>4, <1>5, <1>6, <1>7, <1>8, <1>9, <1>10, <1>11, <1>12,
     <1>13, <1>14, <1>15, <1>16, <1>17, <1>18, <1>19, <1>20, <1>21, <1>22
  DEF Step, Supervise, Work

(* Each part of the invariant, for the process that takes the step. *)
LEMMA GroupStep ==
    ASSUME NEW p \in Proc, SupTypeOK, Group(p), Step(p)
    PROVE  Group(p)'
<1> USE SupAssumption DEF Group, Attends, SupTypeOK, Alive
<1>1. CASE Launch(p)
  BY <1>1 DEF Launch, group
<1>2. CASE Signal(p)
  BY <1>2 DEF Signal, Running, group, loop
<1>3. CASE Kill(p)
  BY <1>3 DEF Kill, Running
<1>4. CASE Top(p)
  BY <1>4 DEF Top, Return
<1>5. CASE AcquireFails(p)
  BY <1>5 DEF AcquireFails, Return, Outcome, group
<1>6. CASE AcquireIdle(p)
  BY <1>6 DEF AcquireIdle, Return, Outcome, group
<1>7. CASE AcquireSpawn(p)
  BY <1>7 DEF AcquireSpawn, Inherited, VolumeFree
<1>8. CASE ReapAgents(p)
  BY <1>8 DEF ReapAgents, loop
<1>9. CASE Terminate(p)
  BY <1>9 DEF Terminate, group
<1>10. CASE KillGroup(p)
  BY <1>10 DEF KillGroup, loop
<1>11. CASE Reap(p)
  BY <1>11 DEF Reap, Return, Outcome, Judge
<1>12. CASE Sleep(p)
  BY <1>12 DEF Sleep, Return
<1>13. CASE CloseSocket(p)
  BY <1>13 DEF CloseSocket, group
<1>14. CASE CloseRuntime(p)
  BY <1>14 DEF CloseRuntime, group
<1>15. CASE Boot(p)
  BY <1>15 DEF Boot, Exits, loop
<1>16. CASE LoadPersisted(p)
  BY <1>16 DEF LoadPersisted, Exits, loop
<1>17. CASE Login(p)
  BY <1>17 DEF Login, Exits, loop
<1>18. CASE Serve(p)
  BY <1>18 DEF Serve, Exits, loop
<1>19. CASE SignIn(p)
  BY <1>19 DEF SignIn, Exits, loop
<1>20. CASE StoreConfig(p)
  BY <1>20 DEF StoreConfig, Exits, loop
<1>21. CASE Dies(p)
  BY <1>21 DEF Dies, Exits, loop
<1>22. CASE HelperEnds(p)
  BY <1>22 DEF HelperEnds, loop
<1> QED
  BY <1>1, <1>2, <1>3, <1>4, <1>5, <1>6, <1>7, <1>8, <1>9, <1>10, <1>11, <1>12,
     <1>13, <1>14, <1>15, <1>16, <1>17, <1>18, <1>19, <1>20, <1>21, <1>22
  DEF Step, Supervise, Work

(* A step of p keeps its worker in the phases of its kind. *)
LEMMA PhaseStep ==
    ASSUME NEW p \in Proc, SupTypeOK, Phase(p), Step(p)
    PROVE  Phase(p)'
<1> USE SupAssumption DEF Phase, SupTypeOK, Alive
<1>1. CASE Launch(p)
  BY <1>1 DEF Launch, group, volume
<1>2. CASE Signal(p)
  BY <1>2 DEF Signal, Running, group, loop, volume
<1>3. CASE Kill(p)
  BY <1>3 DEF Kill, Running, volume
<1>4. CASE Top(p)
  BY <1>4 DEF Top, Return, volume
<1>5. CASE AcquireFails(p)
  BY <1>5 DEF AcquireFails, Return, Outcome, group, volume
<1>6. CASE AcquireIdle(p)
  BY <1>6 DEF AcquireIdle, Return, Outcome, group, volume
<1>7. CASE AcquireSpawn(p)
  BY <1>7 DEF AcquireSpawn, Inherited, VolumeFree, volume
<1>8. CASE ReapAgents(p)
  BY <1>8 DEF ReapAgents, loop, volume
<1>9. CASE Terminate(p)
  BY <1>9 DEF Terminate, group, volume
<1>10. CASE KillGroup(p)
  BY <1>10 DEF KillGroup, loop, volume
<1>11. CASE Reap(p)
  BY <1>11 DEF Reap, Return, Outcome, Judge, volume
<1>12. CASE Sleep(p)
  BY <1>12 DEF Sleep, Return, volume
<1>13. CASE CloseSocket(p)
  BY <1>13 DEF CloseSocket, group, volume
<1>14. CASE CloseRuntime(p)
  BY <1>14 DEF CloseRuntime, group, volume
<1>15. CASE Boot(p)
  BY <1>15 DEF Boot, Exits, loop, volume
<1>16. CASE LoadPersisted(p)
  BY <1>16 DEF LoadPersisted, Exits, loop, volume
<1>17. CASE Login(p)
  BY <1>17 DEF Login, Exits, loop, volume
<1>18. CASE Serve(p)
  BY <1>18 DEF Serve, Exits, loop, volume
<1>19. CASE SignIn(p)
  BY <1>19 DEF SignIn, Exits, loop
<1>20. CASE StoreConfig(p)
  BY <1>20 DEF StoreConfig, Exits, loop
<1>21. CASE Dies(p)
  BY <1>21 DEF Dies, Exits, loop, volume
<1>22. CASE HelperEnds(p)
  BY <1>22 DEF HelperEnds, loop, volume
<1> QED
  BY <1>1, <1>2, <1>3, <1>4, <1>5, <1>6, <1>7, <1>8, <1>9, <1>10, <1>11, <1>12,
     <1>13, <1>14, <1>15, <1>16, <1>17, <1>18, <1>19, <1>20, <1>21, <1>22
  DEF Step, Supervise, Work

(* Only an init that signs in or stores changes the fingerprint. *)
LEMMA VolumeKept ==
    ASSUME NEW p \in Proc, Step(p), ~SignIn(p), ~StoreConfig(p)
    PROVE  /\ UNCHANGED <<config, configAt, entryAt>>
           /\ SessionFingerprint' = SessionFingerprint
<1>1. UNCHANGED <<config, configAt, entryAt>>
  BY
  DEF Step, Supervise, Work, volume, Launch, Signal, Kill, Top, AcquireFails,
      AcquireIdle, AcquireSpawn, ReapAgents, Terminate, KillGroup, Reap, Sleep,
      CloseSocket, CloseRuntime, Boot, LoadPersisted, Login, Serve, Dies, HelperEnds
<1> QED BY <1>1 DEF SessionFingerprint

(* A step of p keeps its fingerprint that of the volume. *)
LEMMA SeenStep ==
    ASSUME NEW p \in Proc, SupTypeOK, Seen(p), Phase(p), Step(p)
    PROVE  Seen(p)'
<1>v. CASE SignIn(p) \/ StoreConfig(p)
  BY <1>v DEF SignIn, StoreConfig, Phase, Seen
<1> SUFFICES ASSUME ~SignIn(p), ~StoreConfig(p) PROVE Seen(p)'
  BY <1>v
<1>f. SessionFingerprint' = SessionFingerprint
  BY VolumeKept
<1> USE <1>f DEF Seen, Attends, SupTypeOK
<1>1. CASE Launch(p)
  BY <1>1 DEF Launch, group
<1>2. CASE Signal(p)
  BY <1>2 DEF Signal, Running, group, loop
<1>3. CASE Kill(p)
  BY <1>3 DEF Kill, Running
<1>4. CASE Top(p)
  BY <1>4 DEF Top, Return
<1>5. CASE AcquireFails(p)
  BY <1>5 DEF AcquireFails, Return, Outcome, group
<1>6. CASE AcquireIdle(p)
  BY <1>6 DEF AcquireIdle, Return, Outcome, group
<1>7. CASE AcquireSpawn(p)
  BY <1>7 DEF AcquireSpawn, Inherited, VolumeFree
<1>8. CASE ReapAgents(p)
  BY <1>8 DEF ReapAgents, loop
<1>9. CASE Terminate(p)
  BY <1>9 DEF Terminate, group
<1>10. CASE KillGroup(p)
  BY <1>10 DEF KillGroup, loop
<1>11. CASE Reap(p)
  BY <1>11 DEF Reap, Return, Outcome, Judge
<1>12. CASE Sleep(p)
  BY <1>12 DEF Sleep, Return
<1>13. CASE CloseSocket(p)
  BY <1>13 DEF CloseSocket, group
<1>14. CASE CloseRuntime(p)
  BY <1>14 DEF CloseRuntime, group
<1>15. CASE Boot(p)
  BY <1>15 DEF Boot, loop
<1>16. CASE LoadPersisted(p)
  BY <1>16 DEF LoadPersisted, loop
<1>17. CASE Login(p)
  BY <1>17 DEF Login, loop
<1>18. CASE Serve(p)
  BY <1>18 DEF Serve, loop
<1>19. CASE Dies(p)
  BY <1>19 DEF Dies, loop
<1>20. CASE HelperEnds(p)
  BY <1>20 DEF HelperEnds, loop
<1> QED
  BY <1>1, <1>2, <1>3, <1>4, <1>5, <1>6, <1>7, <1>8, <1>9, <1>10, <1>11, <1>12,
     <1>13, <1>14, <1>15, <1>16, <1>17, <1>18, <1>19, <1>20
  DEF Step, Supervise, Work

(* A step of p keeps the refusal remembered, and a fresh worker fresh. *)
LEMMA MemoryStep ==
    ASSUME NEW p \in Proc, SupTypeOK, Group(p), Phase(p), Seen(p), Past(p), Memory(p),
           Fresh(p), Step(p)
    PROVE  Memory(p)' /\ Fresh(p)'
<1>v. CASE SignIn(p) \/ StoreConfig(p)
  <2>1. p \in Inits /\ rejected' = rejected
    BY <1>v DEF SignIn, StoreConfig, Phase
  <2>2. rejected[p] = {}
    BY <2>1 DEF Past
  <2> QED BY <2>1, <2>2 DEF Memory, Fresh
<1> SUFFICES ASSUME ~SignIn(p), ~StoreConfig(p) PROVE Memory(p)' /\ Fresh(p)'
  BY <1>v
<1>f. SessionFingerprint' = SessionFingerprint
  BY VolumeKept
<1>c. SessionFingerprint \in rejected[p] => p \notin Inits
  BY DEF Past
<1> USE <1>f, <1>c, SupAssumption DEF Memory, Remembered, Fresh, Attends, SupTypeOK
<1>1. CASE Launch(p)
  BY <1>1 DEF Launch, group
<1>2. CASE Signal(p)
  BY <1>2 DEF Signal, Running, group, loop
<1>3. CASE Kill(p)
  BY <1>3 DEF Kill, Running
<1>4. CASE Top(p)
  BY <1>4 DEF Top, Return
<1>5. CASE AcquireFails(p)
  BY <1>5 DEF AcquireFails, Return, Outcome, group
<1>6. CASE AcquireIdle(p)
  BY <1>6 DEF AcquireIdle, Return, Outcome, group
<1>7. CASE AcquireSpawn(p)
  BY <1>7 DEF AcquireSpawn, Inherited, VolumeFree, AwaitsRepair
<1>8. CASE ReapAgents(p)
  BY <1>8 DEF ReapAgents, loop
<1>9. CASE Terminate(p)
  BY <1>9 DEF Terminate, group, Alive
<1>10. CASE KillGroup(p)
  BY <1>10 DEF KillGroup, loop, Alive
<1>11. CASE Reap(p)
  <2>1. worker'[p] = "none" /\ rejected' = rejected
    BY <1>11 DEF Reap
  <2>2. Fresh(p)'
    BY <2>1
  <2>3. ASSUME SessionFingerprint \in rejected[p] PROVE Remembered(p)'
    <3>1. CASE \E r : Return(p, r)
      <4>1. pc'[p] = "close"
        BY <3>1, <2>3 DEF Return
      <4> QED BY <4>1
    <3>2. CASE /\ Outcome(p, FromCode(code[p], p \in Inits))
               /\ blocked' = IF FromCode(code[p], p \in Inits) \in {"Rejected", "Version"}
                             THEN [blocked EXCEPT ![p] = <<FromCode(code[p], p \in Inits), seen[p]>>]
                             ELSE blocked
      <4>1. seen[p] = SessionFingerprint
        BY <1>11, <2>3 DEF Seen, Reap
      <4>2. CASE FromCode(code[p], p \in Inits) = "Rejected"
        <5>1. blocked'[p] = <<"Rejected", SessionFingerprint>>
          BY <3>2, <4>1, <4>2
        <5>2. SessionFingerprint \in {None} \union (Nat \X Nat)
          BY <4>1 DEF Fingerprints
        <5> QED BY <5>1, <5>2
      <4>3. CASE FromCode(code[p], p \in Inits) = "Version"
        <5>1. blocked'[p] = <<"Version", SessionFingerprint>>
          BY <3>2, <4>1, <4>3
        <5>2. SessionFingerprint \in {None} \union (Nat \X Nat)
          BY <4>1 DEF Fingerprints
        <5> QED BY <5>1, <5>2
      <4>4. CASE FromCode(code[p], p \in Inits) \notin {"Rejected", "Version"}
        <5>1. code[p] # 13
          BY <4>4 DEF FromCode
        <5>2. blocked' = blocked
          BY <3>2, <4>4
        <5>3. pc[p] = "reap"
          BY <1>11 DEF Reap
        <5> QED BY <2>3, <5>1, <5>2, <5>3
      <4> QED BY <4>2, <4>3, <4>4
    <3> QED BY <1>11, <3>1, <3>2 DEF Reap, Judge
  <2> QED BY <2>1, <2>2, <2>3
<1>12. CASE Sleep(p)
  BY <1>12 DEF Sleep, Return
<1>13. CASE CloseSocket(p)
  BY <1>13 DEF CloseSocket, group
<1>14. CASE CloseRuntime(p)
  BY <1>14 DEF CloseRuntime, group
<1>15. CASE Boot(p)
  BY <1>15 DEF Boot, Exits, loop, Alive
<1>16. CASE LoadPersisted(p)
  BY <1>16 DEF LoadPersisted, Exits, loop
<1>17. CASE Login(p)
  BY <1>17 DEF Login, Exits, loop, Group, Phase
<1>18. CASE Serve(p)
  BY <1>18 DEF Serve, Exits, loop
<1>19. CASE Dies(p)
  BY <1>19 DEF Dies, Exits, loop, Alive
<1>20. CASE HelperEnds(p)
  BY <1>20 DEF HelperEnds, loop
<1> QED
  BY <1>1, <1>2, <1>3, <1>4, <1>5, <1>6, <1>7, <1>8, <1>9, <1>10, <1>11, <1>12,
     <1>13, <1>14, <1>15, <1>16, <1>17, <1>18, <1>19, <1>20
  DEF Step, Supervise, Work

(* A step of p reports a success only once the volume is configured. *)
LEMMA ToldStep ==
    ASSUME NEW p \in Proc, SupTypeOK, Phase(p), Told(p), Step(p)
    PROVE  Told(p)'
<1> USE SupAssumption DEF Told, SupTypeOK
<1>1. CASE Launch(p)
  BY <1>1 DEF Launch, group
<1>2. CASE Signal(p)
  BY <1>2 DEF Signal, group, loop
<1>3. CASE Kill(p)
  BY <1>3 DEF Kill
<1>4. CASE Top(p)
  BY <1>4 DEF Top, Return
<1>5. CASE AcquireFails(p)
  BY <1>5 DEF AcquireFails, Return, Outcome, group
<1>6. CASE AcquireIdle(p)
  BY <1>6 DEF AcquireIdle, Return, Outcome, group
<1>7. CASE AcquireSpawn(p)
  BY <1>7 DEF AcquireSpawn, Inherited, VolumeFree
<1>8. CASE ReapAgents(p)
  BY <1>8 DEF ReapAgents, loop
<1>9. CASE Terminate(p)
  BY <1>9 DEF Terminate, group
<1>10. CASE KillGroup(p)
  BY <1>10 DEF KillGroup, loop
<1>11. CASE Reap(p)
  BY <1>11 DEF Reap, Return, Outcome, Judge
<1>12. CASE Sleep(p)
  BY <1>12 DEF Sleep, Return
<1>13. CASE CloseSocket(p)
  BY <1>13 DEF CloseSocket, group
<1>14. CASE CloseRuntime(p)
  BY <1>14 DEF CloseRuntime, group
<1>15. CASE Boot(p)
  BY <1>15 DEF Boot, Exits, loop
<1>16. CASE LoadPersisted(p)
  BY <1>16 DEF LoadPersisted, Exits, loop
<1>17. CASE Login(p)
  BY <1>17 DEF Login, Exits, loop
<1>18. CASE Serve(p)
  BY <1>18 DEF Serve, Exits, loop, Phase
<1>19. CASE SignIn(p)
  BY <1>19 DEF SignIn, Exits, loop
<1>20. CASE StoreConfig(p)
  BY <1>20 DEF StoreConfig, Exits, loop
<1>21. CASE Dies(p)
  BY <1>21 DEF Dies, Exits, loop
<1>22. CASE HelperEnds(p)
  BY <1>22 DEF HelperEnds, loop
<1> QED
  BY <1>1, <1>2, <1>3, <1>4, <1>5, <1>6, <1>7, <1>8, <1>9, <1>10, <1>11, <1>12,
     <1>13, <1>14, <1>15, <1>16, <1>17, <1>18, <1>19, <1>20, <1>21, <1>22
  DEF Step, Supervise, Work

(* The volume is never unconfigured, and its numbers never fall. *)
LEMMA VolumeGrows ==
    ASSUME SupTypeOK, [SupNext]_vars
    PROVE  /\ config => config'
           /\ configAt <= configAt' /\ entryAt <= entryAt'
           /\ configAt' \in Nat /\ entryAt' \in Nat
<1>1. CASE UNCHANGED <<config, configAt, entryAt>>
  BY <1>1 DEF SupTypeOK
<1>2. ASSUME NEW p \in Proc, SignIn(p) \/ StoreConfig(p)
      PROVE  /\ config => config'
             /\ configAt <= configAt' /\ entryAt <= entryAt'
             /\ configAt' \in Nat /\ entryAt' \in Nat
  BY <1>2 DEF SignIn, StoreConfig, SupTypeOK
<1>3. ASSUME NEW p \in Proc, Step(p), ~SignIn(p), ~StoreConfig(p)
      PROVE  UNCHANGED <<config, configAt, entryAt>>
  BY <1>3, VolumeKept
<1>4. CASE Expire \/ UNCHANGED vars
  BY <1>1, <1>4 DEF Expire, vars
<1> QED BY <1>1, <1>2, <1>3, <1>4 DEF SupNext, Step

(* The numbers of a refused fingerprint only fall behind the volume's. *)
LEMMA PastStep ==
    ASSUME NEW p \in Proc, SupTypeOK, [SupNext]_vars, Past(p), Phase(p),
           \/ rejected'[p] = rejected[p]
           \/ Login(p)
    PROVE  Past(p)'
<1>1. ASSUME NEW f \in rejected[p]
      PROVE  /\ p \notin Inits /\ config'
             /\ f \in Nat \X Nat /\ f[1] <= configAt' /\ f[2] <= entryAt'
  BY VolumeGrows DEF Past, SupTypeOK
<1>2. CASE rejected'[p] = rejected[p]
  BY <1>1, <1>2 DEF Past
<1>3. CASE Login(p)
  <2>1. /\ p \notin Inits /\ config
        /\ UNCHANGED <<config, configAt, entryAt>>
    BY <1>3 DEF Login, Phase, volume
  <2>2. SessionFingerprint = <<configAt, entryAt>>
    BY <2>1 DEF SessionFingerprint
  <2>3. \A f \in rejected'[p] : f \in rejected[p] \/ f = <<configAt, entryAt>>
    BY <1>3, <2>2 DEF Login, SupTypeOK
  <2> QED BY <1>1, <2>1, <2>3 DEF Past, SupTypeOK
<1> QED BY <1>2, <1>3

(* Only a login is refused. *)
LEMMA RefusalsByLogin ==
    ASSUME NEW p \in Proc, Step(p), ~Login(p)
    PROVE  UNCHANGED rejected
BY
DEF Step, Supervise, Work, Launch, Signal, Kill, Top, AcquireFails, AcquireIdle,
    AcquireSpawn, ReapAgents, Terminate, KillGroup, Reap, Sleep, CloseSocket,
    CloseRuntime, Boot, LoadPersisted, Serve, SignIn, StoreConfig, Dies, HelperEnds

(* A new owner of the lock comes only when nobody has a descriptor. *)
LEMMA HeldStep ==
    ASSUME NEW p \in Proc, SupTypeOK, OneHolder, Step(p)
    PROVE  OneHolder'
<1>1. CASE AcquireSpawn(p)
  BY <1>1 DEF AcquireSpawn, Inherited, OneHolder
<1>2. CASE held' \subseteq held
  BY <1>2 DEF OneHolder
<1>3. CASE ~AcquireSpawn(p)
  <2>1. held' \subseteq held
    BY <1>3
    DEF Step, Supervise, Work, Exits, Launch, Signal, Kill, Top, AcquireFails,
        AcquireIdle, ReapAgents, Terminate, KillGroup, Reap, Sleep, CloseSocket,
        CloseRuntime, Boot, LoadPersisted, Login, Serve, SignIn, StoreConfig, Dies,
        HelperEnds
  <2> QED BY <1>2, <2>1
<1> QED BY <1>1, <1>3

(* The fingerprint changes under a worker alone: nobody else is at work. *)
LEMMA AloneOnTheVolume ==
    ASSUME NEW p \in Proc, NEW q \in Proc, p # q, OneHolder, Group(p), Group(q),
           worker[p] \in Alive
    PROVE  ~Attends(q) /\ worker[q] \notin Alive
BY DEF OneHolder, Group

(* The parts of the invariant for the other processes. *)
LEMMA OtherKept ==
    ASSUME NEW p \in Proc, NEW q \in Proc, p # q, SupInv, Step(p)
    PROVE  Group(q)' /\ Phase(q)' /\ Seen(q)' /\ Memory(q)' /\ Fresh(q)'
<1>1. Untouched(q)
  BY OthersUntouched DEF SupInv
<1>2. Group(q)'
  BY <1>1 DEF SupInv, Group, Untouched, Attends
<1>3. Phase(q)'
  <2>1. [SupNext]_vars
    BY DEF SupNext, Step
  <2> QED BY <1>1, <2>1, VolumeGrows DEF SupInv, Phase, Untouched
<1>4. CASE ~SignIn(p) /\ ~StoreConfig(p)
  <2>1. SessionFingerprint' = SessionFingerprint
    BY <1>4, VolumeKept
  <2> QED BY <1>1, <1>2, <1>3, <2>1
          DEF SupInv, Seen, Memory, Remembered, Fresh, Untouched, Attends
<1>5. CASE SignIn(p) \/ StoreConfig(p)
  <2>1. worker[p] \in Alive
    BY <1>5 DEF SignIn, StoreConfig, Alive
  <2>2. ~Attends(q) /\ worker[q] \notin Alive
    BY <2>1, AloneOnTheVolume DEF SupInv
  <2>3. Seen(q)' /\ Fresh(q)'
    BY <1>1, <2>2 DEF Seen, Fresh, Untouched, Attends, Alive
  <2>4. Memory(q)'
    <3>1. SUFFICES ASSUME SessionFingerprint' \in rejected[q] PROVE Remembered(q)'
      BY <1>1 DEF Memory, Untouched
    <3>2. CASE SessionFingerprint' = SessionFingerprint
      BY <1>1, <3>1, <3>2 DEF SupInv, Memory, Remembered, Untouched, Attends
    <3>3. CASE SessionFingerprint' # SessionFingerprint
      <4>1. SessionFingerprint' \in Nat \X Nat /\ SessionFingerprint' # None
        BY <3>1, SupAssumption DEF SupInv, Past
      <4>2. /\ SessionFingerprint' = <<configAt', entryAt'>>
            /\ configAt' <= configAt /\ entryAt' <= entryAt /\ config
        BY <3>1, <4>1 DEF SupInv, Past, SessionFingerprint
      <4>3. configAt' = configAt /\ entryAt' = entryAt
        <5>1. configAt \in Nat /\ entryAt \in Nat
          BY DEF SupInv, SupTypeOK
        <5>2. /\ configAt' = configAt \/ configAt' = configAt + 1
              /\ entryAt' = entryAt \/ entryAt' = entryAt + 1
          BY <1>5 DEF SignIn, StoreConfig
        <5> QED BY <4>2, <5>1, <5>2
      <4> QED BY <3>3, <4>2, <4>3 DEF SessionFingerprint
    <3> QED BY <3>2, <3>3
  <2> QED BY <1>2, <1>3, <2>3, <2>4
<1> QED BY <1>4, <1>5

(* owner.lock changes hands only when the service that had it is over. *)
LEMMA ReachableStep ==
    ASSUME NEW p \in Proc, SupTypeOK, \A r \in Proc : Reachable(r), Told(p), Step(p),
           NEW q \in Proc
    PROVE  Reachable(q)'
<1>n. None \notin Proc
  BY SupAssumption
<1>o. p # q => pc'[q] = pc[q]
  BY OthersUntouched DEF Untouched
<1>p. /\ p \notin Inits /\ Running(p) => runtime = p
      /\ p \notin Inits /\ pc[p] \notin {"off", "unlock", "ended"} => sock = p
  BY DEF Reachable
<1>r. /\ q \notin Inits /\ Running(q) => runtime = q
      /\ q \notin Inits /\ pc[q] \notin {"off", "unlock", "ended"} => sock = q
  BY DEF Reachable
<1>1. CASE Launch(p)
  BY <1>n, <1>o, <1>r, <1>1 DEF Launch, Reachable, Running, SupTypeOK
<1>2. CASE Kill(p)
  BY <1>n, <1>o, <1>r, <1>2 DEF Kill, Reachable, Running, SupTypeOK
<1>3. CASE CloseSocket(p) \/ CloseRuntime(p)
  BY <1>o, <1>p, <1>r, <1>3
  DEF CloseSocket, CloseRuntime, Reachable, Running, SupTypeOK, Told
<1>4. CASE ~Launch(p) /\ ~Kill(p) /\ ~CloseSocket(p) /\ ~CloseRuntime(p)
  <2>1. UNCHANGED <<runtime, sock>>
    BY <1>4
    DEF Step, Supervise, Work, loop, Signal, Top, AcquireFails, AcquireIdle,
        AcquireSpawn, ReapAgents, Terminate, KillGroup, Reap, Sleep, Boot,
        LoadPersisted, Login, Serve, SignIn, StoreConfig, Dies, HelperEnds
  <2>2. Running(p) \/ pc' = pc
    BY <1>4
    DEF Step, Supervise, Work, Running, Top, AcquireFails, AcquireIdle,
        AcquireSpawn, ReapAgents, Terminate, KillGroup, Reap, Sleep, Boot,
        LoadPersisted, Login, Serve, SignIn, StoreConfig, Dies, HelperEnds, Signal
  <2>3. pc[p] \notin {"unlock", "ended"} \/ pc' = pc
    BY <1>4
    DEF Step, Supervise, Work, Running, Top, AcquireFails, AcquireIdle,
        AcquireSpawn, ReapAgents, Terminate, KillGroup, Reap, Sleep, Boot,
        LoadPersisted, Login, Serve, SignIn, StoreConfig, Dies, HelperEnds, Signal
  <2> QED BY <1>o, <1>r, <2>1, <2>2, <2>3 DEF Reachable, Running
<1> QED BY <1>1, <1>2, <1>3, <1>4

(* An init that stored its configuration stays recorded. *)
LEMMA SavedGrows ==
    ASSUME NEW p \in Proc, Step(p)
    PROVE  saved \subseteq saved'
BY
DEF Step, Supervise, Work, Launch, Signal, Kill, Top, AcquireFails, AcquireIdle,
    AcquireSpawn, ReapAgents, Terminate, KillGroup, Reap, Sleep, CloseSocket,
    CloseRuntime, Boot, LoadPersisted, Login, Serve, SignIn, StoreConfig, Dies,
    HelperEnds

(* The initial state is in the inductive invariant. *)
LEMMA SupInitInv == SupInit => SupInv
<1> SUFFICES ASSUME SupInit PROVE SupInv
  OBVIOUS
<1>1. SupTypeOK
  BY SupInitTypeOK
<1>2. OneHolder
  BY DEF SupInit, OneHolder
<1>3. ASSUME NEW p \in Proc
      PROVE  /\ Group(p) /\ Phase(p) /\ Seen(p) /\ Past(p)
             /\ Memory(p) /\ Fresh(p) /\ Told(p) /\ Reachable(p)
  <2>1. /\ worker[p] = "none" /\ ~helper[p] /\ rejected[p] = {} /\ code[p] = None
        /\ exit[p] = None /\ pc[p] \in {"off", "ended"}
    BY <1>3 DEF SupInit
  <2>2. ~Attends(p)
    BY <2>1 DEF Attends
  <2>3. Group(p) /\ Phase(p)
    BY <2>1, <2>2, SupAssumption DEF Group, Phase, Alive
  <2>4. Seen(p) /\ Past(p) /\ Memory(p) /\ Fresh(p)
    BY <2>1, <2>2 DEF Seen, Past, Memory, Fresh
  <2>5. Told(p) /\ Reachable(p)
    BY <2>1, SupAssumption DEF Told, Reachable, Running
  <2> QED BY <2>3, <2>4, <2>5
<1> QED BY <1>1, <1>2, <1>3 DEF SupInv

(* Every step keeps the inductive invariant. *)
LEMMA SupStepInv == SupInv /\ [SupNext]_vars => SupInv'
<1> SUFFICES ASSUME SupInv, [SupNext]_vars PROVE SupInv'
  OBVIOUS
<1>t. SupTypeOK'
  BY SupStepTypeOK DEF SupInv
<1>1. ASSUME NEW p \in Proc, Step(p) PROVE SupInv'
  <2>1. OneHolder'
    BY <1>1, HeldStep DEF SupInv
  <2>2. ASSUME NEW q \in Proc
        PROVE  (Group(q) /\ Phase(q) /\ Seen(q) /\ Memory(q) /\ Fresh(q) /\ Told(q))'
    <3>1. CASE q = p
      BY <1>1, <3>1, GroupStep, PhaseStep, SeenStep, MemoryStep, ToldStep DEF SupInv
    <3>2. CASE q # p
      <4>1. (Group(q) /\ Phase(q) /\ Seen(q) /\ Memory(q) /\ Fresh(q))'
        BY <1>1, <3>2, OtherKept
      <4>2. Told(q)'
        BY <1>1, <3>2, OthersUntouched, SavedGrows DEF SupInv, Told, Untouched
      <4> QED BY <4>1, <4>2
    <3> QED BY <3>1, <3>2
  <2>3. ASSUME NEW q \in Proc PROVE Past(q)'
    <3>1. CASE q # p
      BY <1>1, <3>1, OthersUntouched, PastStep DEF SupInv, Untouched
    <3>2. CASE q = p
      BY <1>1, <3>2, RefusalsByLogin, PastStep DEF SupInv
    <3> QED BY <3>1, <3>2
  <2>4. ASSUME NEW q \in Proc PROVE Reachable(q)'
    BY <1>1, ReachableStep DEF SupInv
  <2> QED BY <1>t, <2>1, <2>2, <2>3, <2>4 DEF SupInv
<1>2. CASE Expire \/ UNCHANGED vars
  <2>1. UNCHANGED <<pc, exit, held, runtime, sock, blocked, seen, worker, helper, code,
                    config, configAt, entryAt, rejected, saved>>
    BY <1>2 DEF Expire, vars, loop, group
  <2>2. SessionFingerprint' = SessionFingerprint
    BY <2>1 DEF SessionFingerprint
  <2>3. OneHolder'
    BY <2>1 DEF SupInv, OneHolder
  <2>4. ASSUME NEW q \in Proc
        PROVE  (/\ Group(q) /\ Phase(q) /\ Seen(q) /\ Past(q)
                /\ Memory(q) /\ Fresh(q) /\ Told(q) /\ Reachable(q))'
    <3>1. (Group(q) /\ Phase(q))'
      BY <2>1 DEF SupInv, Group, Phase, Attends
    <3>2. (Seen(q) /\ Past(q))'
      BY <2>1, <2>2 DEF SupInv, Seen, Past, Attends
    <3>3. (Memory(q) /\ Fresh(q))'
      BY <2>1, <2>2 DEF SupInv, Memory, Remembered, Fresh, Attends
    <3>4. (Told(q) /\ Reachable(q))'
      BY <2>1 DEF SupInv, Told, Reachable, Running
    <3> QED BY <3>1, <3>2, <3>3, <3>4
  <2> QED BY <1>t, <2>3, <2>4 DEF SupInv
<1> QED BY <1>1, <1>2 DEF SupNext, Step

(* The inductive invariant of the supervisor. *)
LEMMA SupInvariant == SupSpec => []SupInv
<1> QED BY SupInitInv, SupStepInv, PTL DEF SupSpec
-----------------------------------------------------------------------------
(* Every state of the service has the declared types, whatever supervisors *)
(* share the volume, are stopped or are killed: exit codes, fingerprints,  *)
(* rejections and backoff of service.rs and policy.rs stay in range.       *)
THEOREM SupTypeCorrect == SupSpec => []SupTypeOK
<1>1. SupInv => SupTypeOK
  BY DEF SupInv
<1> QED BY <1>1, SupInvariant, PTL

(* However many supervisors share the volume and whichever of them are     *)
(* killed, at most one worker uses it, and a helper whose supervisor lives *)
(* has the lock over it (service.rs, Lock::inherited, terminate_group).    *)
THEOREM VolumeIsExclusive == SupSpec => []ExclusiveVolume
<1>1. SupInv => ExclusiveVolume
  <2> SUFFICES ASSUME SupInv PROVE ExclusiveVolume
    OBVIOUS
  <2>1. ASSUME NEW p \in Proc, NEW q \in Proc, worker[p] \in Alive, worker[q] \in Alive
        PROVE  p = q
    BY <2>1 DEF SupInv, OneHolder, Group
  <2>2. ASSUME NEW p \in Proc, helper[p], exit[p] # "killed"
        PROVE  <<p, "supervisor">> \in held
    BY <2>2 DEF SupInv, Group, Attends
  <2> QED BY <2>1, <2>2 DEF ExclusiveVolume
<1> QED BY <1>1, SupInvariant, PTL

(* A supervisor never signals a group whose leader it has reaped, so never *)
(* a later process that got the number (terminate_group, reap_agents).     *)
THEOREM GroupIsOwn == SupSpec => []SignalsOwnGroup
<1>1. SupInv => SignalsOwnGroup
  BY DEF SupInv, SignalsOwnGroup, Group
<1> QED BY <1>1, SupInvariant, PTL

(* No supervisor, however often it retries, presents a session the server  *)
(* has refused to it while the volume is unchanged, or a refused version   *)
(* (awaits_repair of policy.rs).                                           *)
THEOREM RejectionIsRemembered == SupSpec => []RejectedNotRetried
<1>1. SupInv => RejectedNotRetried
  BY DEF SupInv, RejectedNotRetried, Fresh, Phase
<1> QED BY <1>1, SupInvariant, PTL

(* `init` never reports success without a stored session and configuration, *)
(* whenever the stop arrives (worker() of service.rs).                      *)
THEOREM InitIsTruthful == SupSpec => []InitTruthful
<1>1. SupInv => InitTruthful
  BY DEF SupInv, InitTruthful, Told, Proc
<1> QED BY <1>1, SupInvariant, PTL

(* The socket of a running service is never removed or replaced by another *)
(* supervisor, in whatever order they start, stop and are killed           *)
(* (StatusServer::start and its Drop).                                     *)
THEOREM SocketIsReachable == SupSpec => []StatusReachable
<1>1. SupInv => StatusReachable
  BY SupAssumption DEF SupInv, StatusReachable, Reachable, Proc
<1> QED BY <1>1, SupInvariant, PTL
=============================================================================
