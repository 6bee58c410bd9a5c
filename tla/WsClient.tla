------------------------------ MODULE WsClient ------------------------------
(***************************************************************************)
(* EventBusClient::run (crates/tuta/src/event_bus.rs) in detail: several   *)
(* groups, each with a cursor of its own, over one socket and one channel; *)
(* the published state, the backoff, the heartbeat and the idle timeout.   *)
(* Seen through any one group this is EventBus: see Bus below.             *)
(*                                                                         *)
(* A batch is the pair of its group and its number there.  Time matters    *)
(* only on a socket that has gone silent; on a live one frames keep coming *)
(* (the answers to the pings at least).                                    *)
(***************************************************************************)
EXTENDS Integers, Sequences, FiniteSets, FiniteSetsExt

CONSTANTS
    Groups,
    Watched,        \* the group the refinement looks through
    ChanCap,        \* capacity of the channel
    Heartbeat,      \* HEARTBEAT_INTERVAL, in ticks
    IdleTimeout,    \* IDLE_TIMEOUT, in ticks
    MaxBatches,     \* bound: batches of one group
    MaxCuts,        \* bound: connections lost
    MaxBad,         \* bound: batches of one group that do not parse
    MaxCrashes      \* bound: crashes or stops of the process

ASSUME WsAssumption ==
    /\ Watched \in Groups
    /\ {ChanCap, Heartbeat, IdleTimeout} \subseteq Nat \ {0}
    /\ {MaxBatches, MaxCuts, MaxBad, MaxCrashes} \subseteq Nat

VARIABLES
    emitted,    \* emitted[g]: batches the server has emitted for g
    up, ready,  \* the process runs; the syncer has released the handler
    ws,         \* off, dialing, on, backoff, dead
    wsState,    \* the published WsState
    attempts,   \* failed_attempts
    hint,       \* close_hint: what the close frame asked for
    asked,      \* asked[g]: the cursor for g in the URL, 0 when it has none
    nextId,     \* nextId[g]: what the server pushes next
    chan,       \* the channel to the handler
    stage, cur, \* the handler and the batch it works on
    mem, disk,  \* last_batch_ids and event_bus_state, per group
    marker,     \* on disk: a full listing of the mailbox was completed once
    applied, covered, lost,     \* histories, per group
    cuts, bad, crashes,
    silentFor,  \* ticks since a frame came; Live on a socket that works
    waited,     \* ticks since the select loop last turned
    beat        \* ticks since the heartbeat last fired

clock == <<silentFor, waited, beat>>
shared == <<up, ready, ws, wsState, attempts, hint, cuts, crashes>>
perGroup == <<emitted, asked, nextId, mem, disk, applied, covered, lost, bad>>
handler == <<stage, cur>>
wsVars == <<shared, perGroup, chan, handler, clock, marker>>

Live == 0 - 1
NoBatch == <<Watched, 0>>
NoHint == "none"
NoneOf(v) == [g \in Groups |-> v]

Init ==
    /\ emitted = NoneOf(0) /\ asked = NoneOf(0) /\ nextId = NoneOf(1)
    /\ mem = NoneOf(0) /\ disk = NoneOf(0)
    /\ applied = NoneOf({}) /\ covered = NoneOf(0) /\ lost = NoneOf({}) /\ bad = NoneOf(0)
    /\ up = FALSE /\ ready = FALSE /\ ws = "off" /\ wsState = "Stopped"
    /\ attempts = 0 /\ hint = NoHint /\ cuts = 0 /\ crashes = 0
    /\ chan = << >> /\ stage = "idle" /\ cur = NoBatch
    /\ silentFor = Live /\ waited = 0 /\ beat = 0 /\ marker = FALSE

\* The server has a batch for a group.
Emit(g) ==
    /\ emitted[g] < MaxBatches
    /\ emitted' = [emitted EXCEPT ![g] = @ + 1]
    /\ UNCHANGED <<shared, asked, nextId, mem, disk, applied, covered, lost, bad, chan, handler,
                   clock, marker>>

\* The bridge starts: the cursors on disk become last_batch_ids.  The syncer
\* lists the whole mailbox when no group at all has a cursor, or no listing was
\* ever completed; that covers what a group without a cursor was sent so far.
Listing == (\A g \in Groups : disk[g] = 0) \/ ~marker

Start ==
    /\ ~up
    /\ up' = TRUE
    /\ mem' = disk
    /\ covered' = [g \in Groups |-> IF disk[g] = 0 /\ Listing THEN emitted[g] ELSE covered[g]]
    /\ nextId' = [g \in Groups |-> IF disk[g] = 0 THEN covered'[g] + 1 ELSE disk[g] + 1]
    /\ UNCHANGED <<ready, ws, wsState, attempts, hint, cuts, crashes, emitted, asked, disk,
                   applied, lost, bad, chan, handler, clock, marker>>

\* The syncer is done, and the marker set if every folder could be listed.
Release ==
    /\ up /\ ~ready
    /\ ready' = TRUE
    /\ marker' \in {marker, TRUE}
    /\ UNCHANGED <<up, ws, wsState, attempts, hint, cuts, crashes, perGroup, chan, handler,
                   clock>>

-----------------------------------------------------------------------------
(* run.                                                                    *)

AskAlike == [g \in Groups |-> Max({mem[h] : h \in Groups})]

\* build_path: every group that has a cursor is in the URL with its own.
AskAfter == mem

Dial ==
    /\ up /\ ws = "off"
    /\ ws' = "dialing" /\ wsState' = "Connecting"
    /\ asked' = AskAfter
    /\ UNCHANGED <<up, ready, attempts, hint, cuts, crashes, emitted, nextId, mem, disk, applied,
                   covered, lost, bad, chan, handler, clock, marker>>

\* The server replays, group by group, what follows the cursor it was given;
\* for a group without one it starts from now.
Connect ==
    /\ ws = "dialing"
    /\ ws' = "on" /\ wsState' = "Connected" /\ attempts' = 0 /\ hint' = NoHint
    /\ nextId' = [g \in Groups |-> IF asked[g] = 0 THEN emitted[g] + 1 ELSE asked[g] + 1]
    /\ lost' = [g \in Groups |->
                  IF asked[g] = 0 THEN lost[g] \cup (nextId[g] .. emitted[g]) ELSE lost[g]]
    /\ UNCHANGED <<up, ready, cuts, crashes, emitted, asked, mem, disk, applied, covered, bad,
                   chan, handler, clock, marker>>

\* A frame arrives: it parses and goes to the channel, which may be full.
Push(g) ==
    /\ ws = "on" /\ silentFor = Live /\ nextId[g] <= emitted[g]
    /\ Len(chan) < ChanCap
    /\ chan' = Append(chan, <<g, nextId[g]>>)
    /\ nextId' = [nextId EXCEPT ![g] = @ + 1]
    /\ UNCHANGED <<shared, emitted, asked, mem, disk, applied, covered, lost, bad, handler,
                   clock, marker>>

\* parse_message refuses it, and the batch is skipped.
Unparsable(g) ==
    /\ ws = "on" /\ silentFor = Live /\ nextId[g] <= emitted[g]
    /\ bad[g] < MaxBad
    /\ bad' = [bad EXCEPT ![g] = @ + 1]
    /\ lost' = [lost EXCEPT ![g] = @ \cup {nextId[g]}]
    /\ nextId' = [nextId EXCEPT ![g] = @ + 1]
    /\ UNCHANGED <<shared, emitted, asked, mem, disk, applied, covered, chan, handler,
                   clock, marker>>

\* reconnect_interval: a close frame that asks for a delay gets it, any other
\* loss waits longer with every failed attempt in a row.
Interval ==
    CASE hint # NoHint -> hint
      [] hint = NoHint /\ attempts <= 1 -> "small"
      [] hint = NoHint /\ attempts = 2 -> "medium"
      [] OTHER -> "large"

Lose(h) ==
    /\ cuts < MaxCuts /\ cuts' = cuts + 1
    /\ ws' = "backoff" /\ wsState' = "Reconnecting"
    /\ attempts' = IF attempts = 3 THEN 3 ELSE attempts + 1
    /\ hint' = h
    /\ silentFor' = Live /\ waited' = 0 /\ beat' = 0
    /\ UNCHANGED <<up, ready, crashes, perGroup, chan, handler, marker>>

ConnectFails == ws = "dialing" /\ Lose(NoHint)

\* What close_action makes of a close frame that is not final: a delay, or
\* for an expired session none, which is treated as any other loss.
CloseHints == {NoHint, "small", "large"}

\* The stream ends, a frame is an error, or a close frame comes; a silent
\* socket is given up only by the idle timeout.
Disconnect ==
    /\ ws = "on"
    /\ IF silentFor = Live THEN \E h \in CloseHints : Lose(h)
                           ELSE waited = IdleTimeout /\ Lose(NoHint)

\* A close frame with an authentication code ends run for good.
Terminate ==
    /\ ws = "on" /\ silentFor = Live
    /\ cuts < MaxCuts /\ cuts' = cuts + 1
    /\ ws' = "dead" /\ wsState' = "Stopped"
    /\ UNCHANGED <<up, ready, attempts, hint, crashes, perGroup, chan, handler, clock, marker>>

\* sleep_backoff ends.
BackedOff ==
    /\ ws = "backoff"
    /\ ws' = "off"
    /\ UNCHANGED <<up, ready, wsState, attempts, hint, cuts, crashes, perGroup, chan, handler,
                   clock, marker>>

\* The peer, or the network, is gone without a word.
GoSilent ==
    /\ ws = "on" /\ silentFor = Live /\ cuts < MaxCuts
    /\ silentFor' = 0 /\ waited' = 0
    /\ beat' \in 0 .. Heartbeat - 1
    /\ UNCHANGED <<shared, perGroup, chan, handler, marker>>

\* Time on a silent socket; the select has turned by the time either is due.
Tick ==
    /\ ws = "on" /\ silentFor # Live /\ waited < IdleTimeout /\ beat < Heartbeat
    /\ silentFor' = Min({silentFor + 1, IdleTimeout + 1})
    /\ waited' = waited + 1 /\ beat' = beat + 1
    /\ UNCHANGED <<shared, perGroup, chan, handler, marker>>

\* The heartbeat is due: the ping is written, into buffers at least, and the
\* select starts over with a new idle timeout; or the write fails.
Ping ==
    /\ ws = "on" /\ silentFor # Live /\ beat = Heartbeat
    /\ beat' = 0 /\ waited' = 0
    /\ UNCHANGED <<silentFor, shared, perGroup, chan, handler, marker>>

PingFailureIgnored ==
    /\ ws = "on" /\ silentFor # Live /\ beat = Heartbeat
    /\ beat' = 0 /\ waited' = 0
    /\ UNCHANGED <<silentFor, shared, perGroup, chan, handler, marker>>

PingFails ==
    /\ ws = "on" /\ silentFor # Live /\ beat = Heartbeat
    /\ Lose(NoHint)

-----------------------------------------------------------------------------
(* The handler, and the end of the process.                                *)

Take ==
    /\ ready /\ stage = "idle" /\ chan # << >>
    /\ stage' = "applying" /\ cur' = Head(chan) /\ chan' = Tail(chan)
    /\ UNCHANGED <<shared, perGroup, clock, marker>>

\* apply_batch has returned; the cursor of the batch's group moves.
Advanced == [mem EXCEPT ![cur[1]] = cur[2]]

Advance ==
    /\ stage = "applying"
    /\ stage' = "applied"
    /\ mem' = Advanced
    /\ applied' = [applied EXCEPT ![cur[1]] = @ \cup {cur[2]}]
    /\ UNCHANGED <<shared, emitted, asked, nextId, disk, covered, lost, bad, chan, cur,
                   clock, marker>>

Persist ==
    /\ stage = "applied"
    /\ stage' = "idle" /\ cur' = NoBatch
    /\ disk' = [disk EXCEPT ![cur[1]] = cur[2]]
    /\ UNCHANGED <<shared, emitted, asked, nextId, mem, applied, covered, lost, bad, chan,
                   clock, marker>>

Crash ==
    /\ up /\ crashes < MaxCrashes
    /\ crashes' = crashes + 1
    /\ up' = FALSE /\ ready' = FALSE /\ ws' = "off" /\ wsState' = "Stopped"
    /\ attempts' = 0 /\ hint' = NoHint
    /\ asked' = NoneOf(0) /\ mem' = NoneOf(0) /\ nextId' = NoneOf(1)
    /\ chan' = << >> /\ stage' = "idle" /\ cur' = NoBatch
    /\ silentFor' = Live /\ waited' = 0 /\ beat' = 0
    /\ UNCHANGED <<cuts, emitted, disk, applied, covered, lost, bad, marker>>

Next ==
    \/ \E g \in Groups : Emit(g) \/ Push(g) \/ Unparsable(g)
    \/ Start \/ Release \/ Dial \/ Connect \/ ConnectFails \/ Disconnect \/ Terminate
    \/ BackedOff \/ GoSilent \/ Tick \/ Ping \/ PingFails
    \/ Take \/ Advance \/ Persist \/ Crash

\* The client, the server and the handler go on; on a socket whose peer is
\* gone a write fails in the end, when TCP gives up.
Fairness ==
    /\ WF_wsVars(Release) /\ WF_wsVars(Dial) /\ WF_wsVars(Connect) /\ WF_wsVars(BackedOff)
    /\ \A g \in Groups : WF_wsVars(Push(g))
    /\ WF_wsVars(Tick \/ Ping) /\ SF_wsVars(PingFails)
    /\ WF_wsVars(Take) /\ WF_wsVars(Advance) /\ WF_wsVars(Persist)

WsSpec == Init /\ [][Next]_wsVars /\ Fairness

-----------------------------------------------------------------------------
(* Properties.                                                             *)

\* One group's view of the client.
OfWatched(b) == b[1] = Watched
Numbers(s) == [i \in DOMAIN s |-> s[i][2]]

Bus == INSTANCE EventBus WITH
    Batch <- {0},
    MaxDrops <- MaxCuts + MaxBad,
    MayExpire <- FALSE,
    log <- [i \in 1 .. emitted[Watched] |-> 0],
    ws <- IF ws = "backoff" THEN "off" ELSE ws,
    asked <- asked[Watched],
    nextId <- nextId[Watched],
    chan <- Numbers(SelectSeq(chan, OfWatched)),
    stage <- IF OfWatched(cur) THEN stage ELSE "idle",
    cur <- IF OfWatched(cur) THEN cur[2] ELSE 0,
    memCur <- mem[Watched],
    diskCur <- disk[Watched],
    applied <- applied[Watched],
    covered <- covered[Watched],
    lost <- lost[Watched],
    drops <- cuts + bad[Watched]

\* What an observer of the state is told agrees with what run is doing, and
\* the timers stay within their periods.
WsTypeOK ==
    /\ wsState = CASE ws = "on" -> "Connected"
                   [] ws = "dialing" -> "Connecting"
                   [] ws = "backoff" -> "Reconnecting"
                   [] ws = "dead" -> "Stopped"
                   [] ws = "off" -> IF cuts = 0 \/ attempts = 0 THEN "Stopped" ELSE "Reconnecting"
    /\ waited \in 0 .. IdleTimeout /\ beat \in 0 .. Heartbeat
    /\ Interval \in {"small", "medium", "large"}
    /\ Len(chan) <= ChanCap
    /\ \A g \in Groups : mem[g] <= emitted[g] /\ disk[g] <= emitted[g] /\ nextId[g] <= emitted[g] + 1

\* Seen through any one of its groups, the client with its one socket, one
\* channel and one map of cursors does what EventBus allows: no group's
\* cursor, replay or queue is disturbed by another's (event_bus.rs:409), but
\* for one thing.  The cursor of another group keeps a start from listing the
\* mailbox (sync.rs:455), and what a group without one was sent meanwhile is
\* lost: EventBus!StartUnlisted.
ImplementsBus == Bus!BusSpec

\* Every batch of a group is applied in the end, or never was sent to us, if
\* the bridge stays up: lost, silent and reconnected sockets included.
EventuallyApplied == Bus!EventuallyAccounted
=============================================================================
