--------------------------- MODULE EventBusProofs ---------------------------
(***************************************************************************)
(* Theorems about EventBus, for every capacity of the channel and every    *)
(* number of batches, lost connections and crashes.                        *)
(***************************************************************************)
EXTENDS EventBus, SequenceTheorems, TLAPS

(* NoGap is not inductive: it speaks of the cursors, and a cursor moves to *)
(* whatever the handler took from the channel.  The invariant adds what is *)
(* behind the batch in hand, behind every batch in the channel, behind the *)
(* next push and behind the cursor of the connection being opened.         *)

(* A batch is accounted for, or in the handler's hands. *)
InHand(j) == j \in Accounted \/ j = cur

StageInv ==
    /\ (stage = "idle") <=> (cur = 0)
    /\ stage = "applied" => cur = memCur /\ cur \in applied
    /\ up \/ (stage = "idle" /\ chan = << >> /\ ws = "off")

CoveredInv == covered <= Len(log)

CurInv == stage = "applying" => \A j \in 1 .. (cur - 1) : j \in Accounted

ChanInv ==
    \A k \in 1 .. Len(chan) : \A j \in 1 .. (chan[k] - 1) :
        InHand(j) \/ \E l \in 1 .. (k - 1) : chan[l] = j

NextInv ==
    up => \A j \in 1 .. (nextId - 1) :
              InHand(j) \/ \E l \in 1 .. Len(chan) : chan[l] = j

AskedInv ==
    ws = "dialing" /\ asked # 0 => \A j \in 1 .. asked : j \in Accounted

BusInv ==
    /\ BusTypeOK
    /\ StageInv
    /\ CoveredInv
    /\ NoGap
    /\ CurInv
    /\ ChanInv
    /\ NextInv
    /\ AskedInv
-----------------------------------------------------------------------------
(* The initial state has its type. *)
LEMMA BusInitTypeOK == BusInit => BusTypeOK
<1> SUFFICES ASSUME BusInit PROVE BusTypeOK
  OBVIOUS
<1>1. log \in Seq(Batch)
  BY EmptySeq DEF BusInit
<1>2. chan \in Seq(Nat \ {0})
  BY EmptySeq DEF BusInit
<1>3. /\ nextId \in Nat \ {0}
      /\ asked \in Nat
      /\ cur \in Nat
      /\ memCur \in Nat
      /\ diskCur \in Nat
      /\ covered \in Nat
      /\ drops \in Nat
      /\ crashes \in Nat
  BY DEF BusInit
<1>4. applied \in SUBSET Nat /\ lost \in SUBSET (Nat \ {0})
  BY DEF BusInit
<1>5. up \in BOOLEAN /\ ready \in BOOLEAN
  BY DEF BusInit
<1>6. /\ ws \in {"off", "dialing", "on", "dead"}
      /\ stage \in {"idle", "applying", "applied"}
  BY DEF BusInit
<1> QED BY <1>1, <1>2, <1>3, <1>4, <1>5, <1>6 DEF BusTypeOK

(* Every step keeps the type. *)
LEMMA BusStepTypeOK == BusTypeOK /\ [BusNext]_busVars => BusTypeOK'
<1> SUFFICES ASSUME BusTypeOK, [BusNext]_busVars PROVE BusTypeOK'
  OBVIOUS
<1> USE BusAssumption DEF BusTypeOK
<1>1. ASSUME NEW b \in Batch, Emit(b) PROVE BusTypeOK'
  BY <1>1 DEF Emit
<1>2. ASSUME NEW expired \in BOOLEAN, Start(expired) PROVE BusTypeOK'
  BY <1>2 DEF Start
<1>14. CASE StartUnlisted
  BY <1>14 DEF StartUnlisted
<1>3. CASE Release \/ Dial
  BY <1>3 DEF Release, Dial
<1>4. CASE Connect
  <2>1. nextId .. Len(log) \subseteq Nat \ {0}
    OBVIOUS
  <2>2. lost' \in SUBSET (Nat \ {0})
    BY <1>4, <2>1 DEF Connect
  <2>3. nextId' \in Nat \ {0}
    BY <1>4 DEF Connect
  <2> QED BY <1>4, <2>2, <2>3 DEF Connect
<1>5. CASE Push
  BY <1>5 DEF Push
<1>6. CASE Unparsable
  BY <1>6 DEF Unparsable
<1>7. CASE Drop
  BY <1>7 DEF Drop
<1>8. CASE Terminate
  BY <1>8 DEF Terminate
<1>9. CASE Take
  BY <1>9, HeadTailProperties DEF Take
<1>10. CASE Advance
  BY <1>10 DEF Advance
<1>11. CASE Persist
  BY <1>11 DEF Persist
<1>12. CASE Crash
  <2>1. chan' \in Seq(Nat \ {0})
    BY <1>12, EmptySeq DEF Crash
  <2>2. up' \in BOOLEAN /\ ready' \in BOOLEAN
    BY <1>12 DEF Crash
  <2>3. /\ ws' \in {"off", "dialing", "on", "dead"}
        /\ stage' \in {"idle", "applying", "applied"}
    BY <1>12 DEF Crash
  <2> QED BY <1>12, <2>1, <2>2, <2>3 DEF Crash
<1>13. CASE UNCHANGED busVars
  BY <1>13 DEF busVars
<1> QED
  BY <1>1, <1>2, <1>3, <1>4, <1>5, <1>6, <1>7, <1>8, <1>9, <1>10, <1>11,
     <1>12, <1>13, <1>14 DEF BusNext, BusStep

(* Every state of the bus has the declared types: batches are numbered from *)
(* 1, and the cursors, the channel and the histories of event_bus.rs and   *)
(* event_handler.rs stay in range.                                         *)
THEOREM BusTypeCorrect == BusSpec => []BusTypeOK
<1> QED BY BusInitTypeOK, BusStepTypeOK, PTL DEF BusSpec
-----------------------------------------------------------------------------
(* The initial state is in the inductive invariant. *)
LEMMA BusInitInv == BusInit => BusInv
<1> SUFFICES ASSUME BusInit PROVE BusInv
  OBVIOUS
<1>1. BusTypeOK
  BY BusInitTypeOK
<1>2. Len(chan) = 0 /\ Len(log) = 0
  BY EmptySeq DEF BusInit
<1>3. StageInv /\ CoveredInv
  BY <1>2 DEF BusInit, StageInv, CoveredInv
<1>4. NoGap
  BY DEF BusInit, NoGap
<1>5. CurInv /\ NextInv /\ AskedInv
  BY DEF BusInit, CurInv, NextInv, AskedInv
<1>6. ChanInv
  BY <1>2 DEF ChanInv
<1> QED BY <1>1, <1>3, <1>4, <1>5, <1>6 DEF BusInv

(* Every step keeps the inductive invariant. *)
LEMMA BusStepInv == BusInv /\ [BusNext]_busVars => BusInv'
<1> SUFFICES ASSUME BusInv, [BusNext]_busVars PROVE BusInv'
  OBVIOUS
<1> USE DEF BusInv, BusTypeOK
<1>t. BusTypeOK'
  BY BusStepTypeOK
<1> HIDE DEF BusTypeOK
<1>1. ASSUME NEW b \in Batch, Emit(b) PROVE BusInv'
  <2>1. UNCHANGED <<up, ws, asked, nextId, chan, stage, cur, memCur, diskCur,
                    applied, covered, lost>>
    BY <1>1 DEF Emit
  <2>2. CoveredInv'
    BY <1>1 DEF Emit, CoveredInv, BusTypeOK
  <2>3. StageInv' /\ NoGap' /\ CurInv' /\ ChanInv' /\ NextInv' /\ AskedInv'
    BY <2>1 DEF StageInv, NoGap, CurInv, ChanInv, NextInv, AskedInv,
                InHand, Accounted
  <2> QED BY <1>t, <2>2, <2>3
<1>2. ASSUME NEW expired \in BOOLEAN, Start(expired) PROVE BusInv'
  <2> DEFINE c == IF expired THEN 0 ELSE diskCur
  <2>1. /\ ~up /\ up'
        /\ diskCur' = c /\ memCur' = c
        /\ nextId' = IF c = 0 THEN Len(log) + 1 ELSE c + 1
        /\ covered' = IF c = 0 THEN Len(log) ELSE covered
        /\ UNCHANGED <<log, ws, asked, chan, stage, cur, applied, lost>>
    BY <1>2 DEF Start
  <2>2. chan = << >> /\ stage = "idle" /\ ws = "off" /\ cur = 0
    BY <2>1 DEF StageInv
  <2>3. Len(chan) = 0
    BY <2>2, EmptySeq
  <2>4. \A j : j \in Accounted => j \in Accounted'
    BY <2>1 DEF Accounted, CoveredInv, BusTypeOK
  <2>5. \A j \in 1 .. c : j \in Accounted
    BY DEF NoGap, BusTypeOK
  <2>6. \A j \in 1 .. nextId' - 1 : j \in Accounted'
    <3>1. CASE c = 0
      BY <2>1, <3>1 DEF Accounted, BusTypeOK
    <3>2. CASE c # 0
      BY <2>1, <2>4, <2>5, <3>2 DEF BusTypeOK
    <3> QED BY <3>1, <3>2
  <2>7. StageInv' /\ CoveredInv'
    BY <2>1, <2>2 DEF StageInv, CoveredInv, BusTypeOK
  <2>8. NoGap'
    BY <2>1, <2>4, <2>5 DEF NoGap
  <2>9. CurInv' /\ ChanInv' /\ AskedInv'
    BY <2>1, <2>2, <2>3 DEF CurInv, ChanInv, AskedInv
  <2>10. NextInv'
    BY <2>6 DEF NextInv, InHand
  <2> QED BY <1>t, <2>7, <2>8, <2>9, <2>10
<1>14. CASE StartUnlisted
  <2>1. /\ ~up /\ up' /\ diskCur = 0 /\ memCur' = 0 /\ nextId' = covered + 1
        /\ UNCHANGED <<log, ws, asked, chan, stage, cur, diskCur, applied, covered, lost>>
    BY <1>14 DEF StartUnlisted
  <2>2. chan = << >> /\ stage = "idle" /\ ws = "off" /\ cur = 0
    BY <2>1 DEF StageInv
  <2>3. Len(chan) = 0
    BY <2>2, EmptySeq
  <2>4. \A j : j \in Accounted <=> j \in Accounted'
    BY <2>1 DEF Accounted
  <2>5. \A j \in 1 .. nextId' - 1 : j \in Accounted'
    BY <2>1 DEF Accounted, BusTypeOK
  <2>6. StageInv' /\ CoveredInv'
    BY <2>1, <2>2 DEF StageInv, CoveredInv
  <2>7. NoGap'
    BY <2>1, <2>4 DEF NoGap
  <2>8. CurInv' /\ ChanInv' /\ AskedInv'
    BY <2>1, <2>2, <2>3 DEF CurInv, ChanInv, AskedInv
  <2>9. NextInv'
    BY <2>5 DEF NextInv, InHand
  <2> QED BY <1>t, <2>6, <2>7, <2>8, <2>9
<1>3. CASE Release
  <2>1. UNCHANGED <<log, up, ws, asked, nextId, chan, stage, cur, memCur,
                    diskCur, applied, covered, lost>>
    BY <1>3 DEF Release
  <2>2. /\ StageInv' /\ CoveredInv' /\ NoGap' /\ CurInv' /\ ChanInv'
        /\ NextInv' /\ AskedInv'
    BY <2>1 DEF StageInv, CoveredInv, NoGap, CurInv, ChanInv, NextInv,
                AskedInv, InHand, Accounted
  <2> QED BY <1>t, <2>2
<1>4. CASE Dial
  <2>1. /\ up /\ ws' = "dialing" /\ asked' = memCur
        /\ UNCHANGED <<log, up, nextId, chan, stage, cur, memCur, diskCur,
                       applied, covered, lost>>
    BY <1>4 DEF Dial
  <2>2. StageInv' /\ CoveredInv' /\ NoGap' /\ CurInv' /\ ChanInv' /\ NextInv'
    BY <2>1 DEF StageInv, CoveredInv, NoGap, CurInv, ChanInv, NextInv,
                InHand, Accounted
  <2>3. AskedInv'
    BY <2>1 DEF AskedInv, NoGap, Accounted
  <2> QED BY <1>t, <2>2, <2>3
<1>5. CASE Connect
  <2>1. /\ up /\ ws = "dialing" /\ ws' = "on"
        /\ nextId' = IF asked = 0 THEN Len(log) + 1 ELSE asked + 1
        /\ lost' = IF asked = 0 THEN lost \cup (nextId .. Len(log)) ELSE lost
        /\ UNCHANGED <<log, up, asked, chan, stage, cur, memCur, diskCur,
                       applied, covered>>
    BY <1>5 DEF Connect
  <2>2. \A j : j \in Accounted => j \in Accounted'
    BY <2>1 DEF Accounted
  <2>3. StageInv' /\ CoveredInv' /\ AskedInv'
    BY <2>1 DEF StageInv, CoveredInv, AskedInv
  <2>4. NoGap' /\ CurInv'
    BY <2>1, <2>2 DEF NoGap, CurInv
  <2>5. ChanInv'
    BY <2>1, <2>2 DEF ChanInv, InHand
  <2>6. NextInv'
    <3>1. CASE asked = 0
      <4>1. \A j \in 1 .. (nextId' - 1) : j < nextId \/ j \in lost'
        BY <2>1, <3>1 DEF BusTypeOK
      <4> QED BY <2>1, <2>2, <4>1 DEF NextInv, InHand, Accounted, BusTypeOK
    <3>2. CASE asked # 0
      BY <2>1, <2>2, <3>2 DEF NextInv, AskedInv, InHand, BusTypeOK
    <3> QED BY <3>1, <3>2
  <2> QED BY <1>t, <2>3, <2>4, <2>5, <2>6
<1>6. CASE Push
  <2>1. /\ up /\ ws = "on"
        /\ chan' = Append(chan, nextId)
        /\ nextId' = nextId + 1
        /\ UNCHANGED <<log, up, ws, asked, stage, cur, memCur, diskCur,
                       applied, covered, lost>>
    BY <1>6 DEF Push
  <2>2. /\ Len(chan') = Len(chan) + 1
        /\ chan'[Len(chan) + 1] = nextId
        /\ \A k \in 1 .. Len(chan) : chan'[k] = chan[k]
    BY <2>1 DEF BusTypeOK
  <2>3. Len(chan) \in Nat
    BY DEF BusTypeOK
  <2>4. StageInv' /\ CoveredInv' /\ NoGap' /\ CurInv' /\ AskedInv'
    BY <2>1 DEF StageInv, CoveredInv, NoGap, CurInv, AskedInv, Accounted
  <2>5. ChanInv'
    <3> SUFFICES ASSUME NEW k \in 1 .. Len(chan'),
                        NEW j \in 1 .. (chan'[k] - 1)
                 PROVE  InHand(j)' \/ \E l \in 1 .. (k - 1) : chan'[l] = j
      BY DEF ChanInv
    <3>1. InHand(j) <=> InHand(j)'
      BY <2>1 DEF InHand, Accounted
    <3>2. CASE k \in 1 .. Len(chan)
      <4>1. InHand(j) \/ \E l \in 1 .. (k - 1) : chan[l] = j
        BY <2>2, <3>2 DEF ChanInv
      <4> QED BY <2>2, <2>3, <3>1, <3>2, <4>1
    <3>3. CASE k = Len(chan) + 1
      <4>1. InHand(j) \/ \E l \in 1 .. Len(chan) : chan[l] = j
        BY <2>1, <2>2, <3>3 DEF NextInv
      <4> QED BY <2>2, <2>3, <3>1, <3>3, <4>1
    <3> QED BY <2>2, <2>3, <3>2, <3>3
  <2>6. NextInv'
    <3> SUFFICES ASSUME NEW j \in 1 .. (nextId' - 1)
                 PROVE  InHand(j)' \/ \E l \in 1 .. Len(chan') : chan'[l] = j
      BY DEF NextInv
    <3>1. InHand(j) <=> InHand(j)'
      BY <2>1 DEF InHand, Accounted
    <3>2. CASE j = nextId
      BY <2>2, <2>3, <3>2
    <3>3. CASE j \in 1 .. (nextId - 1)
      <4>1. InHand(j) \/ \E l \in 1 .. Len(chan) : chan[l] = j
        BY <2>1, <3>3 DEF NextInv
      <4> QED BY <2>2, <2>3, <3>1, <4>1
    <3> QED BY <2>1, <3>2, <3>3 DEF BusTypeOK
  <2> QED BY <1>t, <2>4, <2>5, <2>6
<1>7. CASE Unparsable
  <2>1. /\ up
        /\ nextId' = nextId + 1
        /\ lost' = lost \cup {nextId}
        /\ UNCHANGED <<log, up, ws, asked, chan, stage, cur, memCur, diskCur,
                       applied, covered>>
    BY <1>7 DEF Unparsable
  <2>2. \A j : j \in Accounted => j \in Accounted'
    BY <2>1 DEF Accounted
  <2>3. StageInv' /\ CoveredInv'
    BY <2>1 DEF StageInv, CoveredInv
  <2>4. NoGap' /\ CurInv' /\ AskedInv'
    BY <2>1, <2>2 DEF NoGap, CurInv, AskedInv
  <2>5. ChanInv'
    BY <2>1, <2>2 DEF ChanInv, InHand
  <2>6. NextInv'
    <3>1. nextId \in Accounted'
      BY <2>1 DEF Accounted
    <3>2. \A j \in 1 .. (nextId' - 1) : j = nextId \/ j \in 1 .. (nextId - 1)
      BY <2>1 DEF BusTypeOK
    <3> QED BY <2>1, <2>2, <3>1, <3>2 DEF NextInv, InHand
  <2> QED BY <1>t, <2>3, <2>4, <2>5, <2>6
<1>8. CASE Drop \/ Terminate
  <2>1. /\ up /\ ws' \in {"off", "dead"}
        /\ UNCHANGED <<log, up, asked, nextId, chan, stage, cur, memCur,
                       diskCur, applied, covered, lost>>
    BY <1>8 DEF Drop, Terminate
  <2>2. StageInv' /\ CoveredInv' /\ NoGap' /\ CurInv' /\ ChanInv' /\ NextInv'
    BY <2>1 DEF StageInv, CoveredInv, NoGap, CurInv, ChanInv, NextInv,
                InHand, Accounted
  <2>3. AskedInv'
    BY <2>1 DEF AskedInv
  <2> QED BY <1>t, <2>2, <2>3
<1>9. CASE Take
  <2>1. /\ up /\ stage = "idle" /\ stage' = "applying" /\ chan # << >>
        /\ cur' = Head(chan) /\ chan' = Tail(chan)
        /\ UNCHANGED <<log, up, ws, asked, nextId, memCur, diskCur, applied,
                       covered, lost>>
    BY <1>9 DEF Take
  <2>2. /\ Len(chan) \in Nat \ {0}
        /\ cur' = chan[1]
        /\ cur' \in Nat \ {0}
        /\ Len(chan') = Len(chan) - 1
        /\ \A k \in 1 .. Len(chan') : chan'[k] = chan[k + 1]
    BY <2>1, HeadTailProperties, EmptySeq DEF BusTypeOK
  <2>3. cur = 0
    BY <2>1 DEF StageInv
  <2>4. \A j : j \in Accounted <=> j \in Accounted'
    BY <2>1 DEF Accounted
  <2>5. StageInv' /\ CoveredInv' /\ NoGap' /\ AskedInv'
    BY <2>1, <2>2, <2>4 DEF StageInv, CoveredInv, NoGap, AskedInv
  <2>6. CurInv'
    BY <2>2, <2>3, <2>4 DEF CurInv, ChanInv, InHand
  <2>7. ChanInv'
    <3> SUFFICES ASSUME NEW k \in 1 .. Len(chan'),
                        NEW j \in 1 .. (chan'[k] - 1)
                 PROVE  InHand(j)' \/ \E l \in 1 .. (k - 1) : chan'[l] = j
      BY DEF ChanInv
    <3>1. InHand(j) \/ \E l \in 1 .. k : chan[l] = j
      BY <2>2 DEF ChanInv
    <3>2. CASE InHand(j)
      BY <2>3, <2>4, <3>2 DEF InHand
    <3>3. ASSUME NEW l \in 1 .. k, chan[l] = j
          PROVE  InHand(j)' \/ \E i \in 1 .. (k - 1) : chan'[i] = j
      <4>1. CASE l = 1
        BY <2>2, <3>3, <4>1 DEF InHand
      <4>2. CASE l # 1
        <5>1. l - 1 \in 1 .. (k - 1) /\ chan'[l - 1] = j
          BY <2>2, <3>3, <4>2
        <5> QED BY <5>1
      <4> QED BY <4>1, <4>2
    <3> QED BY <3>1, <3>2, <3>3
  <2>8. NextInv'
    <3> SUFFICES ASSUME NEW j \in 1 .. (nextId' - 1)
                 PROVE  InHand(j)' \/ \E l \in 1 .. Len(chan') : chan'[l] = j
      BY DEF NextInv
    <3>1. InHand(j) \/ \E l \in 1 .. Len(chan) : chan[l] = j
      BY <2>1 DEF NextInv
    <3>2. CASE InHand(j)
      BY <2>3, <2>4, <3>2 DEF InHand
    <3>3. ASSUME NEW l \in 1 .. Len(chan), chan[l] = j
          PROVE  InHand(j)' \/ \E i \in 1 .. Len(chan') : chan'[i] = j
      <4>1. CASE l = 1
        BY <2>2, <3>3, <4>1 DEF InHand
      <4>2. CASE l # 1
        <5>1. l - 1 \in 1 .. Len(chan') /\ chan'[l - 1] = j
          BY <2>2, <3>3, <4>2
        <5> QED BY <5>1
      <4> QED BY <4>1, <4>2
    <3> QED BY <3>1, <3>2, <3>3
  <2> QED BY <1>t, <2>5, <2>6, <2>7, <2>8
<1>10. CASE Advance
  <2>1. /\ stage = "applying" /\ stage' = "applied"
        /\ applied' = applied \cup {cur}
        /\ memCur' = cur
        /\ UNCHANGED <<log, up, ws, asked, nextId, chan, cur, diskCur,
                       covered, lost>>
    BY <1>10 DEF Advance
  <2>2. \A j : j \in Accounted => j \in Accounted'
    BY <2>1 DEF Accounted
  <2>3. \A j \in 1 .. cur : j \in Accounted'
    <3>1. cur \in Accounted'
      BY <2>1 DEF Accounted
    <3>2. \A j \in 1 .. cur : j = cur \/ j \in 1 .. (cur - 1)
      BY DEF BusTypeOK
    <3> QED BY <2>1, <2>2, <3>1, <3>2 DEF CurInv
  <2>4. StageInv' /\ CoveredInv' /\ CurInv'
    BY <2>1 DEF StageInv, CoveredInv, CurInv
  <2>5. NoGap'
    BY <2>1, <2>2, <2>3 DEF NoGap
  <2>6. AskedInv'
    BY <2>1, <2>2 DEF AskedInv
  <2>7. ChanInv' /\ NextInv'
    BY <2>1, <2>2 DEF ChanInv, NextInv, InHand
  <2> QED BY <1>t, <2>4, <2>5, <2>6, <2>7
<1>11. CASE Persist
  <2>1. /\ stage = "applied" /\ stage' = "idle"
        /\ diskCur' = cur /\ cur' = 0
        /\ UNCHANGED <<log, up, ws, asked, nextId, chan, memCur, applied,
                       covered, lost>>
    BY <1>11 DEF Persist
  <2>2. \A j : j \in Accounted <=> j \in Accounted'
    BY <2>1 DEF Accounted
  <2>3. cur \in Accounted /\ cur = memCur
    BY <2>1 DEF StageInv, Accounted
  <2>4. StageInv' /\ CoveredInv' /\ CurInv'
    BY <2>1 DEF StageInv, CoveredInv, CurInv
  <2>5. NoGap' /\ AskedInv'
    BY <2>1, <2>2, <2>3 DEF NoGap, AskedInv
  <2>6. ChanInv' /\ NextInv'
    BY <2>1, <2>2, <2>3 DEF ChanInv, NextInv, InHand
  <2> QED BY <1>t, <2>4, <2>5, <2>6
<1>12. CASE Crash
  <2>1. /\ ~up' /\ ws' = "off" /\ chan' = << >> /\ stage' = "idle"
        /\ cur' = 0 /\ memCur' = 0
        /\ UNCHANGED <<log, diskCur, applied, covered, lost>>
    BY <1>12 DEF Crash
  <2>2. Len(chan') = 0
    BY <2>1, EmptySeq
  <2>3. \A j : j \in Accounted <=> j \in Accounted'
    BY <2>1 DEF Accounted
  <2>4. StageInv' /\ CoveredInv' /\ CurInv' /\ NextInv' /\ AskedInv'
    BY <2>1 DEF StageInv, CoveredInv, CurInv, NextInv, AskedInv
  <2>5. NoGap'
    BY <2>1, <2>3 DEF NoGap
  <2>6. ChanInv'
    BY <2>2 DEF ChanInv
  <2> QED BY <1>t, <2>4, <2>5, <2>6
<1>13. CASE UNCHANGED busVars
  <2>1. UNCHANGED <<log, up, ws, asked, nextId, chan, stage, cur, memCur,
                    diskCur, applied, covered, lost>>
    BY <1>13 DEF busVars
  <2>2. /\ StageInv' /\ CoveredInv' /\ NoGap' /\ CurInv' /\ ChanInv'
        /\ NextInv' /\ AskedInv'
    BY <2>1 DEF StageInv, CoveredInv, NoGap, CurInv, ChanInv, NextInv,
                AskedInv, InHand, Accounted
  <2> QED BY <1>t, <2>2
<1> QED
  BY <1>1, <1>2, <1>3, <1>4, <1>5, <1>6, <1>7, <1>8, <1>9, <1>10, <1>11,
     <1>12, <1>13, <1>14 DEF BusNext, BusStep

(* No batch is skipped, for any capacity of the channel and any number of   *)
(* batches, reconnects and crashes: behind the cursors of process and       *)
(* behind every applied batch there are only batches applied, listed at a   *)
(* start without a cursor, or never received.                               *)
THEOREM BusNoGap == BusSpec => []NoGap
<1>1. BusInv => NoGap
  BY DEF BusInv
<1> QED BY BusInitInv, BusStepInv, <1>1, PTL DEF BusSpec
=============================================================================
