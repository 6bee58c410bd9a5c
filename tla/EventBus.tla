------------------------------ MODULE EventBus ------------------------------
(***************************************************************************)
(* The realtime event bus, from the server's batches to the persisted      *)
(* cursor: the WebSocket client (crates/tuta/src/event_bus.rs), the bounded *)
(* channel to the event handler and the handler's cursor bookkeeping       *)
(* (crates/bridge/src/event_handler.rs), the cursor's table in LocalStore  *)
(* and what Bridge::start does with it (crates/bridge/src/bridge.rs).      *)
(*                                                                         *)
(* Batches are numbered in the order the server emits them; the number     *)
(* stands for the batch id, and 0 for a cursor that does not exist.  What  *)
(* applying a batch does to the mail stores is the subject of MailSync,    *)
(* which refines this module; here a batch is only applied or not.         *)
(***************************************************************************)
EXTENDS Integers, Sequences, FiniteSets

CONSTANTS
    Batch,       \* what a batch may say (opaque here)
    ChanCap,     \* capacity of the mpsc channel to the handler (64 in bridge.rs)
    MaxBatches,  \* bound: batches the server emits
    MaxDrops,    \* bound: connections lost and batches that do not parse
    MaxCrashes,  \* bound: crashes or stops of the process
    MayExpire    \* the cursor may age past the replay window between two starts

ASSUME BusAssumption ==
    /\ ChanCap \in Nat \ {0}
    /\ MaxBatches \in Nat
    /\ MaxDrops \in Nat
    /\ MaxCrashes \in Nat
    /\ MayExpire \in BOOLEAN

VARIABLES
    log,      \* server: the batches emitted so far
    up,       \* the bridge process runs
    ready,    \* startup_done: the syncer has finished replacing folders
    ws,       \* the socket: "off", "dialing", "on"; "dead" when run() has ended
    asked,    \* the cursor in the URL of this connection
    nextId,   \* the batch the server pushes next on this connection
    chan,     \* the mpsc channel: ids of batches received, not yet taken
    stage,    \* the handler: "idle", "applying" a batch, or has "applied" it
    cur,      \* the batch the handler is processing, 0 when it waits
    memCur,   \* last_batch_ids, in memory
    diskCur,  \* event_bus_state, on disk
    applied,  \* history: batches applied to the end at least once
    covered,  \* history: batches up to here predate a cursorless start
    lost,     \* history: batches the client never received
    drops,    \* how many of MaxDrops have happened
    crashes   \* how many of MaxCrashes have happened

busVars == <<log, up, ready, ws, asked, nextId, chan, stage, cur, memCur,
             diskCur, applied, covered, lost, drops, crashes>>

BusTypeOK ==
    /\ log \in Seq(Batch)
    /\ up \in BOOLEAN
    /\ ready \in BOOLEAN
    /\ ws \in {"off", "dialing", "on", "dead"}
    /\ asked \in Nat
    /\ nextId \in Nat \ {0}
    /\ chan \in Seq(Nat \ {0})
    /\ stage \in {"idle", "applying", "applied"}
    /\ cur \in Nat
    /\ memCur \in Nat
    /\ diskCur \in Nat
    /\ applied \in SUBSET Nat
    /\ covered \in Nat
    /\ lost \in SUBSET (Nat \ {0})
    /\ drops \in Nat
    /\ crashes \in Nat

BusInit ==
    /\ log = << >>
    /\ up = FALSE
    /\ ready = FALSE
    /\ ws = "off"
    /\ asked = 0
    /\ nextId = 1
    /\ chan = << >>
    /\ stage = "idle"
    /\ cur = 0
    /\ memCur = 0
    /\ diskCur = 0
    /\ applied = {}
    /\ covered = 0
    /\ lost = {}
    /\ drops = 0
    /\ crashes = 0
-----------------------------------------------------------------------------
(* The server appends a batch for every change of the account. *)
Emit(b) ==
    /\ Len(log) < MaxBatches
    /\ log' = Append(log, b)
    /\ UNCHANGED <<up, ready, ws, asked, nextId, chan, stage, cur, memCur,
                   diskCur, applied, covered, lost, drops, crashes>>

(* Bridge::start: a cursor older than the server's replay window (expired) *)
(* is wiped; what is left hydrates last_batch_ids.  A start without any    *)
(* cursor relies on the full listing the syncer then makes, so the batches *)
(* emitted before it are covered by that listing.                          *)
Start(expired) ==
    /\ expired => MayExpire
    /\ ~up
    /\ LET c == IF expired THEN 0 ELSE diskCur IN
       /\ diskCur' = c
       /\ memCur' = c
       /\ nextId' = IF c = 0 THEN Len(log) + 1 ELSE c + 1
       /\ covered' = IF c = 0 THEN Len(log) ELSE covered
    /\ up' = TRUE
    /\ UNCHANGED <<log, ready, ws, asked, chan, stage, cur, applied, lost,
                   drops, crashes>>

(* Bridge::start without a cursor for this group when another group has    *)
(* one: run_syncer makes a full listing only when it finds no cursor at    *)
(* all, or none was ever completed.  Nothing covers what this group was    *)
(* sent since the last one.                                                *)
StartUnlisted ==
    /\ ~up
    /\ diskCur = 0
    /\ memCur' = 0
    /\ nextId' = covered + 1
    /\ up' = TRUE
    /\ UNCHANGED <<log, ready, ws, asked, chan, stage, cur, diskCur, applied,
                   covered, lost, drops, crashes>>

(* run_syncer has loaded the cache and done its full sync, when it does    *)
(* one: startup_done lets the handler go.                                  *)
Release ==
    /\ up
    /\ ~ready
    /\ ready' = TRUE
    /\ UNCHANGED <<log, up, ws, asked, nextId, chan, stage, cur, memCur,
                   diskCur, applied, covered, lost, drops, crashes>>

(* run: build_ws_url puts the in-memory cursor, if there is one, in the    *)
(* URL of the connection it is about to open.                              *)
Dial ==
    /\ up
    /\ ws = "off"
    /\ ws' = "dialing"
    /\ asked' = memCur
    /\ UNCHANGED <<log, up, ready, nextId, chan, stage, cur, memCur, diskCur,
                   applied, covered, lost, drops, crashes>>

(* run: connect_async succeeds.  The server replays what follows the       *)
(* cursor it was given; given none it starts from now, and what earlier    *)
(* connections had not delivered is never sent.                            *)
Connect ==
    /\ up
    /\ ws = "dialing"
    /\ ws' = "on"
    /\ nextId' = IF asked = 0 THEN Len(log) + 1 ELSE asked + 1
    /\ lost' = IF asked = 0 THEN lost \cup (nextId .. Len(log)) ELSE lost
    /\ UNCHANGED <<log, up, ready, asked, chan, stage, cur, memCur, diskCur,
                   applied, covered, drops, crashes>>

(* run: a text frame that parses goes to the channel; a full channel       *)
(* blocks the read loop.                                                   *)
Push ==
    /\ up
    /\ ws = "on"
    /\ nextId <= Len(log)
    /\ Len(chan) < ChanCap
    /\ chan' = Append(chan, nextId)
    /\ nextId' = nextId + 1
    /\ UNCHANGED <<log, up, ready, ws, asked, stage, cur, memCur, diskCur,
                   applied, covered, lost, drops, crashes>>

(* run: a text frame that does not parse is logged and skipped. *)
Unparsable ==
    /\ up
    /\ ws = "on"
    /\ nextId <= Len(log)
    /\ drops < MaxDrops
    /\ drops' = drops + 1
    /\ nextId' = nextId + 1
    /\ lost' = lost \cup {nextId}
    /\ UNCHANGED <<log, up, ready, ws, asked, chan, stage, cur, memCur,
                   diskCur, applied, covered, crashes>>

(* run: the connection fails, or its read loop ends (stream end, frame     *)
(* error, failed ping, idle timeout, close frame); the client backs off    *)
(* and dials again.                                                        *)
Drop ==
    /\ up
    /\ ws \in {"dialing", "on"}
    /\ drops < MaxDrops
    /\ drops' = drops + 1
    /\ ws' = "off"
    /\ UNCHANGED <<log, up, ready, asked, nextId, chan, stage, cur, memCur,
                   diskCur, applied, covered, lost, crashes>>

(* run: a close frame whose code close_action maps to Terminate ends the   *)
(* client; nothing restarts it but the next start of the bridge.           *)
Terminate ==
    /\ up
    /\ ws = "on"
    /\ drops < MaxDrops
    /\ drops' = drops + 1
    /\ ws' = "dead"
    /\ UNCHANGED <<log, up, ready, asked, nextId, chan, stage, cur, memCur,
                   diskCur, applied, covered, lost, crashes>>

(* Mutant of Take: the cursors move before apply_batch, not after it. *)
TakeAndAcknowledge ==
    /\ up
    /\ ready
    /\ stage = "idle"
    /\ chan # << >>
    /\ stage' = "applying"
    /\ cur' = Head(chan)
    /\ chan' = Tail(chan)
    /\ memCur' = Head(chan)
    /\ diskCur' = Head(chan)
    /\ UNCHANGED <<log, up, ready, ws, asked, nextId, applied, covered, lost,
                   drops, crashes>>

(* run_event_handler: once released, take the next message and apply it. *)
Take ==
    /\ up
    /\ ready
    /\ stage = "idle"
    /\ chan # << >>
    /\ stage' = "applying"
    /\ cur' = Head(chan)
    /\ chan' = Tail(chan)
    /\ UNCHANGED <<log, up, ready, ws, asked, nextId, memCur, diskCur,
                   applied, covered, lost, drops, crashes>>

(* process: apply_batch has returned; the in-memory cursor moves. *)
Advance ==
    /\ stage = "applying"
    /\ stage' = "applied"
    /\ applied' = applied \cup {cur}
    /\ memCur' = cur
    /\ UNCHANGED <<log, up, ready, ws, asked, nextId, chan, cur, diskCur,
                   covered, lost, drops, crashes>>

(* process: set_event_bus_batch_id, and back to the channel. *)
Persist ==
    /\ stage = "applied"
    /\ stage' = "idle"
    /\ diskCur' = cur
    /\ cur' = 0
    /\ UNCHANGED <<log, up, ready, ws, asked, nextId, chan, memCur, applied,
                   covered, lost, drops, crashes>>

(* The process dies, or Bridge::stop aborts its tasks: memory is gone. *)
Crash ==
    /\ up
    /\ crashes < MaxCrashes
    /\ crashes' = crashes + 1
    /\ up' = FALSE
    /\ ready' = FALSE
    /\ ws' = "off"
    /\ asked' = 0
    /\ chan' = << >>
    /\ stage' = "idle"
    /\ cur' = 0
    /\ memCur' = 0
    /\ nextId' = 1
    /\ UNCHANGED <<log, diskCur, applied, covered, lost, drops>>

(* Everything the bus does on its own; the server emits. *)
BusStep ==
    \/ \E expired \in BOOLEAN : Start(expired)
    \/ StartUnlisted
    \/ Release
    \/ Dial
    \/ Connect
    \/ Push
    \/ Unparsable
    \/ Drop
    \/ Terminate
    \/ Take
    \/ Advance
    \/ Persist
    \/ Crash

BusNext == (\E b \in Batch : Emit(b)) \/ BusStep

BusSpec == BusInit /\ [][BusNext]_busVars

(* The tasks of a running bridge make progress: the client keeps dialing   *)
(* (a finite number of connections fail), the server answers and pushes,   *)
(* the syncer ends and the handler drains its channel.                     *)
BusFairness ==
    /\ WF_busVars(Release)
    /\ WF_busVars(Dial)
    /\ WF_busVars(Connect)
    /\ WF_busVars(Push)
    /\ WF_busVars(Take)
    /\ WF_busVars(Advance)
    /\ WF_busVars(Persist)

FairBusSpec == BusSpec /\ BusFairness
-----------------------------------------------------------------------------
(* The batches whose effect the bridge has, or is known never to get. *)
Accounted == applied \cup lost \cup (1 .. covered)

(* No batch is skipped: both cursors, and every batch ever applied, have   *)
(* behind them only batches that were applied, predate a full listing or   *)
(* never reached the client.  process moves the cursors after apply_batch, *)
(* in channel order, and a reconnect replays from the in-memory cursor     *)
(* while the channel may still hold batches beyond it.                     *)
NoGap ==
    /\ \A j \in 1 .. memCur : j \in Accounted
    /\ \A j \in 1 .. diskCur : j \in Accounted
    /\ \A i \in applied : \A j \in 1 .. i : j \in Accounted

(* Every batch the server emits is in the end accounted for, if the bridge *)
(* stays up and its client is not terminated: reconnects, replays and the  *)
(* bounded channel do not starve a batch.                                  *)
EventuallyAccounted ==
    <>[](up /\ ws # "dead") =>
        \A i \in 1 .. MaxBatches : (Len(log) >= i) ~> (i \in Accounted)
=============================================================================
