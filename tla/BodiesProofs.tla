---------------------------- MODULE BodiesProofs ----------------------------
(***************************************************************************)
(* Theorems about Bodies, for every set of mails, their sizes and          *)
(* attachments, every number of connections, and every number of failures, *)
(* deletions and crashes.                                                  *)
(***************************************************************************)
EXTENDS Bodies, SequenceTheorems, WellFoundedInduction, TLAPS

-----------------------------------------------------------------------------
(* The cache.  What is said of it here does not depend on what TotalSize   *)
(* computes.                                                               *)

(* A set of numbers has a least element, so Evict has a place to begin.     *)
LEMMA LeastNumber ==
    ASSUME NEW S, S \subseteq Nat, S # {}
    PROVE  Min(S) \in S
<1> DEFINE R == {ss \in Nat \X Nat : ss[1] < ss[2]}
<1>1. IsWellFoundedOn(R, Nat)
    BY NatLessThanWellFounded, Zenon DEF OpToRel
<1>2. \A a, b \in Nat : a < b => <<a, b>> \in R
    OBVIOUS
<1> HIDE DEF R
<1>3. \E x \in S : \A y \in S : <<y, x>> \notin R
    BY <1>1, WFMin
<1>4. \E x \in S : \A y \in S : x <= y
    <2>1. PICK x \in S : \A y \in S : <<y, x>> \notin R
        BY <1>3
    <2>2. ASSUME NEW y \in S
          PROVE  ~(y < x)
        BY <1>2, <2>1
    <2>3. \A y \in S : x <= y
        BY <2>2
    <2> QED
        BY <2>3
<1> QED
    BY <1>4 DEF Min

(* A sequence of different mails, and the one without its i-th. *)
LEMMA OneRemoved ==
    ASSUME NEW s \in Seq(Mail), IsInjective(s), NEW i \in 1 .. Len(s),
           NEW r \in Seq(Mail), Len(r) = Len(s) - 1,
           \A j \in 1 .. i - 1 : r[j] = s[j],
           \A j \in i .. Len(s) - 1 : r[j] = s[j + 1]
    PROVE  IsInjective(r) /\ Range(r) = Range(s) \ {s[i]}
<1>1. DOMAIN r = 1 .. Len(s) - 1 /\ DOMAIN s = 1 .. Len(s) /\ Len(s) \in Nat
    OBVIOUS
<1>2. \A j, k \in 1 .. Len(s) : s[j] = s[k] => j = k
    BY <1>1 DEF IsInjective
<1>3. ASSUME NEW j \in 1 .. Len(s) - 1, NEW k \in 1 .. Len(s) - 1, r[j] = r[k]
      PROVE  j = k
    BY <1>1, <1>2, <1>3
<1>4. IsInjective(r)
    BY <1>1, <1>3 DEF IsInjective
<1>5. ASSUME NEW j \in 1 .. Len(s) - 1
      PROVE  \E k \in 1 .. Len(s) : s[k] = r[j] /\ k # i
    BY <1>1, <1>5
<1>6. ASSUME NEW k \in 1 .. Len(s), k # i
      PROVE  \E j \in 1 .. Len(s) - 1 : r[j] = s[k]
    <2>1. CASE k < i
        BY <1>1, <1>6, <2>1
    <2>2. CASE k > i
        <3>1. k - 1 \in i .. Len(s) - 1 /\ (k - 1) + 1 = k /\ k - 1 \in 1 .. Len(s) - 1
            BY <1>1, <1>6, <2>2
        <3>2. r[k - 1] = s[k]
            BY <3>1
        <3> QED
            BY <3>1, <3>2
    <2> QED
        BY <1>1, <1>6, <2>1, <2>2
<1>7. Range(r) = {r[j] : j \in 1 .. Len(s) - 1} /\ Range(s) = {s[j] : j \in 1 .. Len(s)}
    BY <1>1 DEF Range
<1>8. Range(r) \subseteq Range(s) \ {s[i]}
    BY <1>2, <1>5, <1>7
<1>9. Range(s) \ {s[i]} \subseteq Range(r)
    BY <1>6, <1>7
<1> QED
    BY <1>4, <1>8, <1>9

(* An entry that is taken out is in the cache once, and only it goes. *)
LEMMA WithoutProperties ==
    ASSUME NEW s \in Seq(Mail), IsInjective(s), NEW m \in Mail
    PROVE  /\ Without(s, m) \in Seq(Mail) /\ IsInjective(Without(s, m))
           /\ Range(Without(s, m)) = Range(s) \ {m}
           /\ m \in Range(s) => Len(Without(s, m)) = Len(s) - 1
<1>1. CASE m \notin Range(s)
    BY <1>1 DEF Without
<1>2. CASE m \in Range(s)
    <2> DEFINE i == CHOOSE k \in DOMAIN s : s[k] = m
               t == SubSeq(s, 1, i - 1)
               u == SubSeq(s, i + 1, Len(s))
               r == t \o u
    <2>1. i \in 1 .. Len(s) /\ s[i] = m
        BY <1>2 DEF Range
    <2>2. Without(s, m) = r
        BY <1>2 DEF Without, RemoveAt
    <2> HIDE DEF i
    <2>3. /\ t \in Seq(Mail) /\ Len(t) = i - 1
          /\ \A j \in 1 .. i - 1 : t[j] = s[j]
        BY <2>1
    <2>4. /\ u \in Seq(Mail) /\ Len(u) = Len(s) - i
          /\ \A j \in 1 .. Len(s) - i : u[j] = s[i + j]
        BY <2>1
    <2> HIDE DEF t, u
    <2>5. /\ r \in Seq(Mail) /\ Len(r) = Len(t) + Len(u)
          /\ \A j \in 1 .. Len(t) : r[j] = t[j]
          /\ \A j \in Len(t) + 1 .. Len(t) + Len(u) : r[j] = u[j - Len(t)]
        BY <2>3, <2>4
    <2> HIDE DEF r
    <2>6. Len(r) = Len(s) - 1 /\ \A j \in 1 .. i - 1 : r[j] = s[j]
        BY <2>1, <2>3, <2>4, <2>5
    <2>7. ASSUME NEW j \in i .. Len(s) - 1
          PROVE  r[j] = s[j + 1]
        <3>1. /\ j \in Len(t) + 1 .. Len(t) + Len(u)
              /\ j - Len(t) \in 1 .. Len(s) - i /\ i + (j - Len(t)) = j + 1
            BY <2>1, <2>3, <2>4, <2>7
        <3> QED
            BY <2>4, <2>5, <3>1
    <2>8. IsInjective(r) /\ Range(r) = Range(s) \ {m}
        BY <2>1, <2>5, <2>6, <2>7, OneRemoved
    <2> QED
        BY <2>2, <2>5, <2>6, <2>8
<1> QED
    BY <1>1, <1>2

(* A look moves an entry to the end, and changes nothing else. *)
LEMMA TouchProperties ==
    ASSUME NEW m \in Mail, lru \in Seq(Mail), IsInjective(lru)
    PROVE  /\ Touch(m) \in Seq(Mail) /\ IsInjective(Touch(m))
           /\ Touch(m) # << >> /\ Range(Touch(m)) = Range(lru) \cup {m}
           /\ m \in Range(lru) => Len(Touch(m)) = Len(lru)
<1> DEFINE s == Without(lru, m)
<1>1. s \in Seq(Mail) /\ IsInjective(s) /\ Range(s) = Range(lru) \ {m}
    BY WithoutProperties
<1>a. m \in Range(lru) => Len(s) = Len(lru) - 1
    BY WithoutProperties
<1> HIDE DEF s
<1>2. /\ Append(s, m) \in Seq(Mail) /\ Len(Append(s, m)) = Len(s) + 1
      /\ Append(s, m) # << >>
      /\ \A i \in 1 .. Len(s) : Append(s, m)[i] = s[i]
      /\ Append(s, m)[Len(s) + 1] = m
    BY <1>1, AppendProperties
<1>3. DOMAIN s = 1 .. Len(s) /\ Len(s) \in Nat
    BY <1>1
<1>4. Range(Append(s, m)) = Range(s) \cup {m}
    BY <1>1, <1>2, <1>3 DEF Range
<1>5. IsInjective(Append(s, m))
    <2> DEFINE t == Append(s, m)
    <2>1. \A k \in 1 .. Len(s) : t[k] # m
        BY <1>1, <1>2, <1>3 DEF Range
    <2>2. \A j, k \in 1 .. Len(s) : t[j] = t[k] => j = k
        BY <1>1, <1>2, <1>3 DEF IsInjective
    <2>3. t[Len(s) + 1] = m /\ DOMAIN t = 1 .. Len(s) + 1
        BY <1>2
    <2> HIDE DEF t
    <2>4. \A j \in 1 .. Len(s) + 1 : j \in 1 .. Len(s) \/ j = Len(s) + 1
        BY <1>3
    <2>5. \A j, k \in 1 .. Len(s) + 1 : t[j] = t[k] => j = k
        BY <2>1, <2>2, <2>3, <2>4
    <2>6. IsInjective(t)
        BY <2>3, <2>5 DEF IsInjective
    <2> QED
        BY <2>6 DEF t
<1>6. m \in Range(lru) => Len(Append(s, m)) = Len(lru)
    BY <1>a, <1>2, <1>3
<1> QED
    BY <1>1, <1>2, <1>4, <1>5, <1>6 DEF Touch, s

LEMMA TouchedLast ==
    ASSUME NEW m \in Mail, lru \in Seq(Mail), IsInjective(lru)
    PROVE  Touch(m)[Len(Touch(m))] = m
<1>1. Without(lru, m) \in Seq(Mail)
    BY WithoutProperties
<1> QED
    BY <1>1, AppendProperties DEF Touch

(* A sequence of different mails, and its end. *)
LEMMA EndOfSequence ==
    ASSUME NEW s \in Seq(Mail), IsInjective(s), NEW from \in 1 .. Len(s),
           NEW t \in Seq(Mail), Len(t) = Len(s) - from + 1,
           \A i \in 1 .. Len(t) : t[i] = s[from + i - 1]
    PROVE  IsInjective(t) /\ Range(t) \subseteq Range(s)
<1>1. DOMAIN t = 1 .. Len(t) /\ DOMAIN s = 1 .. Len(s) /\ Len(s) \in Nat
    OBVIOUS
<1>2. \A i \in 1 .. Len(t) : from + i - 1 \in 1 .. Len(s)
    BY <1>1
<1>3. IsInjective(t)
    <2> SUFFICES ASSUME NEW i \in 1 .. Len(t), NEW j \in 1 .. Len(t), t[i] = t[j]
                 PROVE  i = j
        BY <1>1 DEF IsInjective
    <2>1. s[from + i - 1] = s[from + j - 1]
        OBVIOUS
    <2>2. from + i - 1 = from + j - 1
        BY <1>1, <1>2, <2>1 DEF IsInjective
    <2> QED
        BY <1>1, <2>2
<1>4. Range(t) \subseteq Range(s)
    BY <1>1, <1>2 DEF Range
<1> QED
    BY <1>3, <1>4

(* What an insertion leaves fits, or is the one entry that was inserted,   *)
(* which always stays.                                                     *)
LEMMA InsertProperties ==
    ASSUME NEW m \in Mail, lru \in Seq(Mail), IsInjective(lru)
    PROVE  /\ Insert(m) \in Seq(Mail) /\ IsInjective(Insert(m))
           /\ Range(Insert(m)) \subseteq Range(lru) \cup {m} /\ m \in Range(Insert(m))
           /\ Len(Insert(m)) > 1 => Bytes(Insert(m)) <= MaxBytes
<1> DEFINE s == Touch(m)
           fits == {k \in 1 .. Len(s) : Bytes(SubSeq(s, k, Len(s))) <= MaxBytes}
           from == Min(fits \cup {Len(s)})
           t == SubSeq(s, from, Len(s))
<1>1. /\ s \in Seq(Mail) /\ IsInjective(s) /\ s # << >>
      /\ Range(s) = Range(lru) \cup {m} /\ s[Len(s)] = m
    BY TouchProperties, TouchedLast
<1>2. Insert(m) = t
    BY DEF Insert, Touch, Evict
<1> HIDE DEF s
<1>3. Len(s) \in Nat /\ Len(s) > 0
    BY <1>1
<1>a. fits \subseteq 1 .. Len(s)
    BY Zenon
<1>b. \A k \in fits : Bytes(SubSeq(s, k, Len(s))) <= MaxBytes
    BY Zenon
<1> HIDE DEF fits
<1>4. from \in fits \cup {Len(s)}
    <2> DEFINE S == fits \cup {Len(s)}
    <2>1. S \subseteq Nat
        <3>1. \A k \in 1 .. Len(s) : k \in Nat
            OBVIOUS
        <3> QED
            BY <1>3, <1>a, <3>1, Zenon
    <2>2. S # {}
        BY Zenon
    <2> HIDE DEF S
    <2>3. Min(S) \in S
        BY <2>1, <2>2, LeastNumber
    <2> QED
        BY <2>3 DEF S
<1> HIDE DEF from
<1>5. from \in 1 .. Len(s)
    BY <1>3, <1>4, <1>a
<1>6. from = Len(s) \/ Bytes(t) <= MaxBytes
    BY <1>4, <1>b, Zenon
<1>7. /\ t \in Seq(Mail) /\ Len(t) = Len(s) - from + 1
      /\ \A i \in 1 .. Len(t) : t[i] = s[from + i - 1]
    BY <1>1, <1>3, <1>5
<1> HIDE DEF t
<1>8. IsInjective(t) /\ Range(t) \subseteq Range(s)
    BY <1>1, <1>5, <1>7, EndOfSequence
<1>9. Len(t) > 1 => Bytes(t) <= MaxBytes
    <2>1. Len(t) > 1 => from # Len(s)
        BY <1>3, <1>5, <1>7
    <2> QED
        BY <1>6, <2>1
<1>10. m \in Range(t)
    <2>1. Len(t) \in 1 .. Len(t) /\ from + Len(t) - 1 = Len(s) /\ DOMAIN t = 1 .. Len(t)
        BY <1>3, <1>5, <1>7
    <2>2. t[Len(t)] = m
        BY <1>1, <1>7, <2>1
    <2> QED
        BY <2>1, <2>2 DEF Range
<1> QED
    BY <1>1, <1>2, <1>7, <1>8, <1>9, <1>10

-----------------------------------------------------------------------------
(* The shape of the state. *)

Entry == [m : Mail, had : BOOLEAN]
Pass == [at : {"start", "pass", "load", "files", "write", "publish", "wait"},
         m : Mail \cup {None}, todo : SUBSET Entry, files : Seq(File)]
Fetching == [m : Mail \cup {None}, loaded : BOOLEAN,
             at : {"idle", "look", "read", "again", "load", "write", "publish"},
             phase : {None, "check", "answer"}, files : Seq(File)]

Folder ==
    /\ alive \cap gone = {} /\ alive \cup gone = Mail /\ told \subseteq gone
    /\ rows \subseteq Mail /\ shown \subseteq Mail /\ loaded \subseteq shown
    /\ deleting \in {None} \cup [m : Mail, at : {"eml", "memory"}]
    /\ deleting # None => deleting.m \in gone
    /\ eml \in [Mail -> {None} \cup Seq(File)]

Cache == lru \in Seq(Mail) /\ IsInjective(lru) /\ CacheWithinBudget

Loop ==
    /\ pf \in Pass
    /\ pf.at \in {"load", "files", "write", "publish"} => pf.m \in Mail

Fetches(c) ==
    /\ conn[c] \in Fetching
    /\ conn[c].at # "idle" => conn[c].m \in Mail /\ conn[c].phase \in {"check", "answer"}

Connections == conn \in [Conn -> Fetching] /\ \A c \in Conn : Fetches(c)

(* An answer that is accepted names every attachment, so the body made of   *)
(* it is the whole one.                                                     *)
LEMMA AcceptedIsWhole ==
    ASSUME NEW m \in Mail, NEW answer \in Answer[m], Accepts(m, answer)
    PROVE  Assemble(m, answer) = Attached[m]
<1>1. Attached[m] \in Seq(File)
    BY BodiesAssumption
<1>2. ASSUME NEW i \in DOMAIN Attached[m]
      PROVE  Attached[m][i] \in Range(answer[ListOf[Attached[m][i]]])
    <2> DEFINE f == Attached[m][i]
    <2>1. f \in Range(Attached[m])
        BY DEF Range
    <2>2. ListOf[f] \in Lists(m) /\ f \in Asked(m, ListOf[f])
        BY <2>1 DEF Lists, Asked
    <2>3. Asked(m, ListOf[f]) \subseteq Range(answer[ListOf[f]])
        BY <2>2 DEF Accepts, NothingMissing
    <2> QED
        BY <2>2, <2>3
<1>3. Assemble(m, answer) = [i \in DOMAIN Attached[m] |-> Attached[m][i]]
    BY <1>2 DEF Assemble
<1> QED
    BY <1>1, <1>3

LEMMA FolderStep ==
    ASSUME Folder, Loop, Connections, BodiesNext
    PROVE  Folder'
<1> USE DEF Folder
<1>1. ASSUME NEW m \in Mail, Arrive(m)
      PROVE  Folder'
    BY <1>1 DEF Arrive, server, handler
<1>2. ASSUME NEW m \in Mail, Expunge(m)
      PROVE  Folder'
    BY <1>2 DEF Expunge, disk, mem, handler
<1>3. ASSUME NEW m \in Mail, DeleteRow(m)
      PROVE  Folder'
    BY <1>3 DEF DeleteRow, DeleteFails, server, mem
<1>4. CASE DeleteEml
    BY <1>4 DEF DeleteEml, DeleteFails, server, mem
<1>5. CASE DeleteShown
    BY <1>5 DEF DeleteShown, server, disk
<1>6. CASE Restart
    BY <1>6 DEF Restart, Opened, server, disk
<1>7. CASE Write
    <2>1. pf.m \in Mail /\ pf.files \in Seq(File)
        BY <1>7 DEF Write, At, Loop, Pass
    <2> QED
        BY <1>7, <2>1 DEF Write, WriteEml, server, mem, handler
<1>8. CASE Publish
    BY <1>8 DEF Publish, Complete, server, disk, handler
<1>9. ASSUME NEW c \in Conn, PersistBody(c)
      PROVE  Folder'
    <2>1. conn[c].m \in Mail /\ conn[c].files \in Seq(File)
        BY <1>9 DEF PersistBody, InFetch, Connections, Fetches, Fetching
    <2> QED
        BY <1>9, <2>1 DEF PersistBody, WriteEml, server, mem, handler
<1>10. ASSUME NEW c \in Conn, FetchComplete(c)
       PROVE  Folder'
    BY <1>10 DEF FetchComplete, Complete, server, disk, handler
<1>11. ASSUME UNCHANGED <<server, disk, shown, loaded, handler>>
       PROVE  Folder'
    BY <1>11 DEF server, disk, handler
<1>12. CASE PassStart \/ Pick \/ Load \/ LoadFiles \/ PassEnd \/ WakeOnChange \/ WakeOnTimer
    BY <1>11, <1>12
    DEF PassStart, Pick, Load, LoadFiles, PassEnd, WakeOnChange, WakeOnTimer, mem
<1>13. ASSUME NEW m \in Mail, RetryDue(m) \/ CooldownEnds(m)
       PROVE  Folder'
    BY <1>11, <1>13 DEF RetryDue, CooldownEnds, mem
<1>14. ASSUME NEW c \in Conn,
              Fetch(c) \/ Look(c) \/ ReadEml(c) \/ LookAgain(c) \/ FetchBody(c)
              \/ \E m \in Mail : Refresh(c, m)
       PROVE  Folder'
    BY <1>11, <1>14 DEF Fetch, Look, ReadEml, LookAgain, FetchBody, Refresh, mem
<1> QED
    BY <1>1, <1>2, <1>3, <1>4, <1>5, <1>6, <1>7, <1>8, <1>9, <1>10, <1>12, <1>13, <1>14
       DEF BodiesNext, PrefetchStep

LEMMA LoopStep ==
    ASSUME Folder, Loop, BodiesNext
    PROVE  Loop'
<1> USE DEF Loop, Pass, At
<1>1. CASE PassStart
    <2>1. \A m \in Mail : (m \in loaded) \in BOOLEAN
        OBVIOUS
    <2>2. {[m |-> m, had |-> m \in loaded] : m \in PrefetchWindow} \subseteq Entry
        <3> SUFFICES ASSUME NEW m \in PrefetchWindow
                     PROVE  [m |-> m, had |-> m \in loaded] \in Entry
            OBVIOUS
        <3>1. m \in Mail
            BY DEF PrefetchWindow, Folder
        <3> QED
            BY <2>1, <3>1 DEF Entry
    <2> QED
        BY <1>1, <2>2 DEF PassStart
<1>2. CASE Pick
    <2>1. PICK next \in pf.todo :
                 \/ Skip(next)
                 \/ pf' = [at |-> "load", m |-> next.m, todo |-> pf.todo \ {next},
                           files |-> << >>]
        BY <1>2 DEF Pick
    <2>2. next.m \in Mail /\ At("pass")
        BY <1>2 DEF Pick, Entry
    <2>3. CASE Skip(next)
        BY <2>2, <2>3 DEF Skip
    <2>4. CASE pf' = [at |-> "load", m |-> next.m, todo |-> pf.todo \ {next}, files |-> << >>]
        BY <2>2, <2>4
    <2> QED
        BY <2>1, <2>3, <2>4
<1>3. CASE Load
    <2>1. CASE NextMail
        BY <2>1 DEF NextMail
    <2>2. CASE Goto("files")
        BY <1>3, <2>2 DEF Load, Goto
    <2> QED
        BY <1>3, <2>1, <2>2 DEF Load
<1>4. CASE LoadFiles
    <2>1. pf.m \in Mail /\ Attached[pf.m] \in Seq(File)
        BY <1>4, BodiesAssumption DEF LoadFiles
    <2>2. CASE NextMail
        BY <2>2 DEF NextMail
    <2>3. ASSUME NEW answer \in Answer[pf.m], Accepts(pf.m, answer),
                 pf' = [at |-> "write", m |-> pf.m, todo |-> pf.todo,
                        files |-> Assemble(pf.m, answer)]
          PROVE  Loop'
        <3>1. Assemble(pf.m, answer) = Attached[pf.m]
            BY <2>1, <2>3, AcceptedIsWhole
        <3> QED
            BY <2>1, <2>3, <3>1
    <2> QED
        BY <1>4, <2>2, <2>3 DEF LoadFiles
<1>5. CASE Write
    BY <1>5 DEF Write, Goto
<1>6. CASE Publish
    BY <1>6 DEF Publish, NextMail
<1>7. CASE PassEnd
    BY <1>7 DEF PassEnd, Goto
<1>8. CASE WakeOnChange
    BY <1>8 DEF WakeOnChange, Goto
<1>9. CASE WakeOnTimer
    BY <1>9 DEF WakeOnTimer, Goto
<1>10. CASE Restart
    BY <1>10 DEF Restart, Opened, NoPass
<1>11. ASSUME UNCHANGED pf
       PROVE  Loop'
    BY <1>11
<1>12. ASSUME NEW m \in Mail, Arrive(m) \/ Expunge(m) \/ DeleteRow(m) \/ RetryDue(m)
                              \/ CooldownEnds(m)
       PROVE  Loop'
    BY <1>11, <1>12 DEF Arrive, Expunge, DeleteRow, RetryDue, CooldownEnds, prefetch
<1>13. CASE DeleteEml \/ DeleteShown
    BY <1>11, <1>13 DEF DeleteEml, DeleteShown, prefetch
<1>14. ASSUME NEW c \in Conn,
              Fetch(c) \/ Look(c) \/ ReadEml(c) \/ LookAgain(c) \/ FetchBody(c)
              \/ PersistBody(c) \/ FetchComplete(c) \/ \E m \in Mail : Refresh(c, m)
       PROVE  Loop'
    BY <1>11, <1>14
    DEF Fetch, Look, ReadEml, LookAgain, FetchBody, PersistBody, FetchComplete,
       Refresh, prefetch
<1> QED
    BY <1>1, <1>2, <1>3, <1>4, <1>5, <1>6, <1>7, <1>8, <1>9, <1>10, <1>12, <1>13, <1>14
       DEF BodiesNext, PrefetchStep

(* A connection's step moves it alone. *)
LEMMA ConnMoves ==
    ASSUME Connections, NEW c \in Conn, NEW new, conn' = [conn EXCEPT ![c] = new],
           new \in Fetching,
           new.at # "idle" => new.m \in Mail /\ new.phase \in {"check", "answer"}
    PROVE  Connections'
<1>1. conn'[c] = new /\ \A d \in Conn \ {c} : conn'[d] = conn[d]
    BY DEF Connections
<1>2. conn' \in [Conn -> Fetching]
    BY DEF Connections
<1>3. \A d \in Conn : Fetches(d)'
    BY <1>1 DEF Connections, Fetches
<1> QED
    BY <1>2, <1>3 DEF Connections

LEMMA ConnectionsStep ==
    ASSUME Folder, Loop, Connections, BodiesNext
    PROVE  Connections'
<1>1. ASSUME NEW c \in Conn, NEW stage, Step(c, stage), ~InFetch(c, "idle"),
             stage \in {"look", "read", "again", "load", "write", "publish"}
      PROVE  Connections'
    <2> DEFINE new == [conn[c] EXCEPT !.at = stage]
    <2>1. conn[c] \in Fetching /\ conn[c].m \in Mail /\ conn[c].phase \in {"check", "answer"}
        BY <1>1 DEF Connections, Fetches, InFetch
    <2>2. new \in Fetching /\ new.m \in Mail /\ new.phase \in {"check", "answer"}
        BY <1>1, <2>1 DEF Fetching
    <2>3. conn' = [conn EXCEPT ![c] = new]
        BY <1>1 DEF Step
    <2> HIDE DEF new
    <2> QED
        BY <2>2, <2>3, ConnMoves
<1>2. ASSUME NEW c \in Conn, ToAnswer(c), ~InFetch(c, "idle")
      PROVE  Connections'
    <2> DEFINE new == FetchOf(conn[c].m, TRUE, "look", "answer", << >>)
    <2>1. conn[c] \in Fetching /\ conn[c].m \in Mail
        BY <1>2 DEF Connections, Fetches, InFetch
    <2>2. new \in Fetching /\ new.m \in Mail /\ new.phase \in {"check", "answer"}
        BY <1>2, <2>1 DEF Fetching, FetchOf
    <2>3. conn' = [conn EXCEPT ![c] = new]
        BY <1>2 DEF ToAnswer
    <2> HIDE DEF new
    <2> QED
        BY <2>2, <2>3, ConnMoves
<1>3. ASSUME NEW c \in Conn, Answered(c)
      PROVE  Connections'
    <2> DEFINE new == FetchOf(conn[c].m, conn[c].loaded, "idle", None, << >>)
    <2>1. conn[c] \in Fetching
        BY <1>3 DEF Connections, Fetches
    <2>2. new \in Fetching /\ new.at = "idle"
        BY <1>3, <2>1 DEF Fetching, FetchOf
    <2>3. conn' = [conn EXCEPT ![c] = new]
        BY <1>3 DEF Answered
    <2> HIDE DEF new
    <2> QED
        BY <2>2, <2>3, ConnMoves
<1>4. ASSUME NEW c \in Conn, Fetch(c)
      PROVE  Connections'
    <2> DEFINE new == FetchOf(conn[c].m, conn[c].loaded, "look",
                              IF conn[c].loaded THEN "answer" ELSE "check", << >>)
    <2>1. conn[c] \in Fetching /\ conn[c].m \in Mail
        BY <1>4 DEF Connections, Fetches, Fetch, Fetching
    <2>2. new \in Fetching /\ new.m \in Mail /\ new.phase \in {"check", "answer"}
        BY <2>1 DEF Fetching, FetchOf
    <2>3. conn' = [conn EXCEPT ![c] = new]
        BY <1>4 DEF Fetch
    <2> HIDE DEF new
    <2> QED
        BY <2>2, <2>3, ConnMoves
<1>5. ASSUME NEW c \in Conn, NEW m \in Mail, Refresh(c, m)
      PROVE  Connections'
    <2> DEFINE new == FetchOf(m, m \in loaded, "idle", None, << >>)
    <2>1. (m \in loaded) \in BOOLEAN
        OBVIOUS
    <2>2. new \in Fetching /\ new.at = "idle"
        BY <2>1 DEF Fetching, FetchOf
    <2>3. conn' = [conn EXCEPT ![c] = new]
        BY <1>5 DEF Refresh
    <2> HIDE DEF new
    <2> QED
        BY <2>2, <2>3, ConnMoves
<1>6. ASSUME NEW c \in Conn, Look(c) \/ ReadEml(c) \/ LookAgain(c)
      PROVE  Connections'
    BY <1>1, <1>2, <1>3, <1>6 DEF Look, ReadEml, LookAgain, Found, Absent, InFetch
<1>7. ASSUME NEW c \in Conn, FetchBody(c)
      PROVE  Connections'
    <2>1. CASE Unavailable(c)
        BY <1>3, <2>1 DEF Unavailable
    <2>2. ASSUME NEW answer \in Answer[conn[c].m], Accepts(conn[c].m, answer),
                 conn' = [conn EXCEPT ![c] = FetchOf(conn[c].m, conn[c].loaded, "write",
                                              conn[c].phase, Assemble(conn[c].m, answer))]
          PROVE  Connections'
        <3> DEFINE new == FetchOf(conn[c].m, conn[c].loaded, "write", conn[c].phase,
                                  Assemble(conn[c].m, answer))
        <3>1. /\ conn[c] \in Fetching /\ conn[c].m \in Mail
              /\ conn[c].phase \in {"check", "answer"}
            BY <1>7 DEF Connections, Fetches, FetchBody, InFetch
        <3>2. Assemble(conn[c].m, answer) \in Seq(File)
            <4>1. Assemble(conn[c].m, answer) = Attached[conn[c].m]
                BY <2>2, <3>1, AcceptedIsWhole
            <4> QED
                BY <3>1, <4>1, BodiesAssumption
        <3>3. new \in Fetching /\ new.m \in Mail /\ new.phase \in {"check", "answer"}
            BY <3>1, <3>2 DEF Fetching, FetchOf
        <3>4. conn' = [conn EXCEPT ![c] = new]
            BY <2>2
        <3> HIDE DEF new
        <3> QED
            BY <3>3, <3>4, ConnMoves
    <2> QED
        BY <1>7, <2>1, <2>2 DEF FetchBody
<1>8. ASSUME NEW c \in Conn, PersistBody(c) \/ FetchComplete(c)
      PROVE  Connections'
    BY <1>1, <1>2, <1>8 DEF PersistBody, FetchComplete, InFetch
<1>9. CASE Restart
    <2>1. NoEntry \in Fetching /\ NoEntry.at = "idle"
        BY DEF NoEntry, FetchOf, Fetching
    <2> QED
        BY <1>9, <2>1 DEF Restart, Opened, Connections, Fetches
<1>10. ASSUME UNCHANGED conn
       PROVE  Connections'
    BY <1>10 DEF Connections, Fetches
<1>11. ASSUME NEW m \in Mail, Arrive(m) \/ Expunge(m) \/ DeleteRow(m) \/ RetryDue(m)
                              \/ CooldownEnds(m)
       PROVE  Connections'
    BY <1>10, <1>11 DEF Arrive, Expunge, DeleteRow, RetryDue, CooldownEnds
<1>12. CASE DeleteEml \/ DeleteShown \/ PrefetchStep
    BY <1>10, <1>12
    DEF DeleteEml, DeleteShown, PrefetchStep, PassStart, Pick, Load, LoadFiles,
       Write, Publish, PassEnd, WakeOnChange, WakeOnTimer
<1> QED
    BY <1>4, <1>5, <1>6, <1>7, <1>8, <1>9, <1>11, <1>12 DEF BodiesNext

LEMMA CacheStep ==
    ASSUME Folder, Loop, Connections, Cache, BodiesNext
    PROVE  Cache'
<1>1. ASSUME NEW m \in Mail, Cached(m), lru' = Touch(m)
      PROVE  Cache'
    <2>1. /\ lru' \in Seq(Mail) /\ IsInjective(lru')
          /\ Range(lru') = Range(lru) /\ Len(lru') = Len(lru)
        BY <1>1, TouchProperties DEF Cache, Cached
    <2> QED
        BY <2>1 DEF Cache, CacheWithinBudget, Bytes
<1>2. ASSUME NEW m \in Mail, lru' = Insert(m)
      PROVE  Cache'
    BY <1>2, InsertProperties DEF Cache, CacheWithinBudget, Bytes
<1>3. ASSUME UNCHANGED lru
      PROVE  Cache'
    BY <1>3 DEF Cache, CacheWithinBudget, Bytes
<1>4. CASE Publish
    BY <1>2, <1>4 DEF Publish, At, Complete, Keep, Loop
<1>5. ASSUME NEW c \in Conn, FetchComplete(c)
      PROVE  Cache'
    BY <1>2, <1>5 DEF FetchComplete, InFetch, Complete, Keep, Connections, Fetches
<1>6. ASSUME NEW c \in Conn, Look(c) \/ ReadEml(c) \/ LookAgain(c)
      PROVE  Cache'
    <2>1. conn[c].m \in Mail
        BY <1>6 DEF Look, ReadEml, LookAgain, InFetch, Connections, Fetches
    <2> QED
        BY <1>1, <1>2, <1>3, <1>6, <2>1 DEF Look, ReadEml, LookAgain, Keep, cache
<1>7. CASE Restart
    BY <1>7 DEF Restart, Opened, Cache, CacheWithinBudget, IsInjective
<1>8. ASSUME NEW m \in Mail, Arrive(m) \/ Expunge(m) \/ DeleteRow(m) \/ RetryDue(m)
                             \/ CooldownEnds(m)
      PROVE  Cache'
    BY <1>3, <1>8 DEF Arrive, Expunge, DeleteRow, RetryDue, CooldownEnds, mem, cache
<1>9. CASE DeleteEml \/ DeleteShown
    BY <1>3, <1>9 DEF DeleteEml, DeleteShown, mem, cache
<1>10. CASE PassStart \/ Pick \/ Load \/ LoadFiles \/ Write \/ PassEnd \/ WakeOnChange
            \/ WakeOnTimer
    BY <1>3, <1>10 DEF PassStart, Pick, Load, LoadFiles, Write, PassEnd, WakeOnChange,
       WakeOnTimer, mem, cache
<1>11. ASSUME NEW c \in Conn, Fetch(c) \/ FetchBody(c) \/ PersistBody(c)
                              \/ \E m \in Mail : Refresh(c, m)
       PROVE  Cache'
    BY <1>3, <1>11 DEF Fetch, FetchBody, PersistBody, Refresh, mem, cache
<1> QED
    BY <1>4, <1>5, <1>6, <1>7, <1>8, <1>9, <1>10, <1>11 DEF BodiesNext, PrefetchStep

-----------------------------------------------------------------------------
(* The bodies. *)

(* What is about to be written is whole, as what was written is. *)
WholeFiles ==
    /\ OnlyWholeBodies
    /\ pf.at = "write" => pf.files = Attached[pf.m]
    /\ \A c \in Conn : conn[c].at = "write" => conn[c].files = Attached[conn[c].m]

(* A body that is in the cache, marked loaded or about to be published has  *)
(* a file, or a reason for having none.                                     *)
Backed == OnDisk \cup gone \cup unwritten

RealFetch(c) ==
    conn[c].at = "publish" \/ conn[c].loaded \/ (conn[c].at # "idle" /\ conn[c].phase = "answer")
        => conn[c].m \in Backed

Real ==
    /\ loaded \subseteq Backed /\ Range(lru) \subseteq Backed
    /\ pf.at = "publish" => pf.m \in Backed
    /\ \A c \in Conn : RealFetch(c)

(* Once the file of a deleted mail was removed, nobody is about to write it *)
(* again who was not at it before.                                          *)
Past(m) ==
    \/ m \in told
    \/ deleting # None /\ deleting.at = "memory" /\ deleting.m = m

Unlinked ==
    \A m \in Mail : Past(m) /\ m \notin overtaken \cup stuck =>
        /\ eml[m] = None
        /\ pf.at \in {"files", "write", "publish"} => pf.m # m
        /\ \A c \in Conn : conn[c].at \in {"write", "publish"} => conn[c].m # m

(* A body read from its file is in the cache for the second look, or was    *)
(* driven out.                                                              *)
SeenAgain == \A c \in Conn : conn[c].at = "again" => Cached(conn[c].m) \/ c \in crowded

BodiesInv ==
    /\ crashes \in Nat /\ fails \in Nat
    /\ Folder /\ Loop /\ Connections /\ Cache /\ WholeFiles /\ Real /\ Unlinked /\ SeenAgain

Typed == Folder /\ Loop /\ Connections /\ Cache

(* What the steps of a connection leave of it. *)
LEMMA FetchMoves ==
    ASSUME Connections, NEW c \in Conn
    PROVE  /\ \A stage : Step(c, stage) =>
                  /\ \A d \in Conn \ {c} : conn'[d] = conn[d]
                  /\ conn'[c].at = stage /\ conn'[c].m = conn[c].m
                  /\ conn'[c].loaded = conn[c].loaded /\ conn'[c].phase = conn[c].phase
                  /\ conn'[c].files = conn[c].files
           /\ ToAnswer(c) =>
                  /\ \A d \in Conn \ {c} : conn'[d] = conn[d]
                  /\ conn'[c].at = "look" /\ conn'[c].m = conn[c].m
           /\ Answered(c) =>
                  /\ \A d \in Conn \ {c} : conn'[d] = conn[d]
                  /\ conn'[c].at = "idle" /\ conn'[c].m = conn[c].m
                  /\ conn'[c].loaded = conn[c].loaded
<1>1. conn \in [Conn -> Fetching] /\ conn[c] \in Fetching
    BY DEF Connections
<1>2. ASSUME NEW stage, Step(c, stage)
      PROVE  /\ \A d \in Conn \ {c} : conn'[d] = conn[d]
             /\ conn'[c].at = stage /\ conn'[c].m = conn[c].m
             /\ conn'[c].loaded = conn[c].loaded /\ conn'[c].phase = conn[c].phase
             /\ conn'[c].files = conn[c].files
    <2>1. conn'[c] = [conn[c] EXCEPT !.at = stage] /\ \A d \in Conn \ {c} : conn'[d] = conn[d]
        BY <1>1, <1>2 DEF Step
    <2> QED
        BY <1>1, <2>1 DEF Fetching
<1>3. ToAnswer(c) => /\ \A d \in Conn \ {c} : conn'[d] = conn[d]
                     /\ conn'[c].at = "look" /\ conn'[c].m = conn[c].m
    BY <1>1 DEF ToAnswer, FetchOf
<1>4. Answered(c) => /\ \A d \in Conn \ {c} : conn'[d] = conn[d]
                     /\ conn'[c].at = "idle" /\ conn'[c].m = conn[c].m
                     /\ conn'[c].loaded = conn[c].loaded
    BY <1>1 DEF Answered, FetchOf
<1> QED
    BY <1>2, <1>3, <1>4

(* A file appears whole, or is that of a mail that is gone. *)
LEMMA WholeStep ==
    ASSUME Typed, WholeFiles, BodiesNext
    PROVE  WholeFiles'
<1> USE DEF Typed
<1>1. ASSUME UNCHANGED <<eml, pf>>, NEW c \in Conn,
             \A d \in Conn \ {c} : conn'[d] = conn[d],
             conn'[c].at = "write" => conn'[c].files = Attached[conn'[c].m]
      PROVE  WholeFiles'
    BY <1>1 DEF WholeFiles, OnlyWholeBodies, OnDisk
<1>2. ASSUME UNCHANGED <<eml, conn>>, pf'.at = "write" => pf'.files = Attached[pf'.m]
      PROVE  WholeFiles'
    BY <1>2 DEF WholeFiles, OnlyWholeBodies, OnDisk
<1>3. ASSUME NEW m \in Mail, NEW files, WriteEml(m, files), files = Attached[m]
      PROVE  OnlyWholeBodies'
    BY <1>3 DEF WriteEml, Folder, WholeFiles, OnlyWholeBodies, OnDisk
<1>4. ASSUME NEW m \in Mail, Arrive(m) \/ Expunge(m) \/ DeleteRow(m) \/ RetryDue(m)
                             \/ CooldownEnds(m)
      PROVE  WholeFiles'
    BY <1>2, <1>4
    DEF Arrive, Expunge, DeleteRow, RetryDue, CooldownEnds, disk, prefetch,
       WholeFiles
<1>5. CASE DeleteEml
    BY <1>5 DEF DeleteEml, Folder, prefetch, WholeFiles, OnlyWholeBodies, OnDisk
<1>6. CASE DeleteShown
    BY <1>2, <1>6 DEF DeleteShown, disk, prefetch, WholeFiles
<1>7. CASE PassStart \/ Pick \/ Load \/ PassEnd \/ WakeOnChange \/ WakeOnTimer \/ Publish
    <2>1. UNCHANGED <<eml, conn>>
        BY <1>7
        DEF PassStart, Pick, Load, PassEnd, WakeOnChange, WakeOnTimer, Publish, disk
    <2>2. pf'.at # "write"
        BY <1>7
        DEF PassStart, Pick, Load, PassEnd, WakeOnChange, WakeOnTimer, Publish,
            Skip,
           NextMail, Goto, At, Loop, Pass
    <2> QED
        BY <1>2, <2>1, <2>2
<1>8. CASE LoadFiles
    <2>1. UNCHANGED <<eml, conn>> /\ pf.m \in Mail
        BY <1>8 DEF LoadFiles, At, Loop, disk
    <2>2. CASE NextMail
        BY <1>2, <2>1, <2>2 DEF NextMail
    <2>3. ASSUME NEW answer \in Answer[pf.m], Accepts(pf.m, answer),
                 pf' = [at |-> "write", m |-> pf.m, todo |-> pf.todo,
                        files |-> Assemble(pf.m, answer)]
          PROVE  WholeFiles'
        BY <1>2, <2>1, <2>3, AcceptedIsWhole
    <2> QED
        BY <1>8, <2>2, <2>3 DEF LoadFiles
<1>9. CASE Write
    <2>1. OnlyWholeBodies'
        BY <1>3, <1>9 DEF Write, At, Loop, WholeFiles
    <2>2. pf'.at = "publish" /\ UNCHANGED conn
        BY <1>9 DEF Write, Goto, Loop, Pass
    <2> QED
        BY <2>1, <2>2 DEF WholeFiles
<1>10. ASSUME NEW c \in Conn, Fetch(c) \/ \E m \in Mail : Refresh(c, m)
       PROVE  WholeFiles'
    BY <1>1, <1>10 DEF Fetch, Refresh, FetchOf, Connections, WholeFiles, disk, prefetch
<1>11. ASSUME NEW c \in Conn, Look(c) \/ ReadEml(c) \/ LookAgain(c) \/ FetchComplete(c)
       PROVE  WholeFiles'
    <2>1. UNCHANGED <<eml, pf>>
        BY <1>11 DEF Look, ReadEml, LookAgain, FetchComplete, disk, prefetch
    <2>2. \/ ToAnswer(c) \/ Answered(c)
          \/ \E stage \in {"read", "again", "load"} : Step(c, stage)
        BY <1>11 DEF Look, ReadEml, LookAgain, FetchComplete, Found, Absent
    <2> QED
        BY <1>1, <2>1, <2>2, FetchMoves
<1>12. ASSUME NEW c \in Conn, FetchBody(c)
       PROVE  WholeFiles'
    <2>1. UNCHANGED <<eml, pf>> /\ conn[c].m \in Mail
        BY <1>12 DEF FetchBody, InFetch, Connections, Fetches, disk, prefetch
    <2>2. CASE Unavailable(c)
        BY <1>1, <2>1, <2>2, FetchMoves DEF Unavailable
    <2>3. ASSUME NEW answer \in Answer[conn[c].m], Accepts(conn[c].m, answer),
                 conn' = [conn EXCEPT ![c] = FetchOf(conn[c].m, conn[c].loaded, "write",
                                              conn[c].phase, Assemble(conn[c].m, answer))]
          PROVE  WholeFiles'
        <3>1. Assemble(conn[c].m, answer) = Attached[conn[c].m]
            BY <2>1, <2>3, AcceptedIsWhole
        <3>2. /\ \A d \in Conn \ {c} : conn'[d] = conn[d]
              /\ conn'[c].files = Attached[conn[c].m] /\ conn'[c].m = conn[c].m
            BY <2>3, <3>1 DEF FetchOf, Connections
        <3> QED
            BY <1>1, <2>1, <3>2
    <2> QED
        BY <1>12, <2>2, <2>3 DEF FetchBody
<1>13. ASSUME NEW c \in Conn, PersistBody(c)
       PROVE  WholeFiles'
    <2>1. OnlyWholeBodies'
        BY <1>3, <1>13 DEF PersistBody, InFetch, Connections, Fetches, WholeFiles
    <2>2. /\ UNCHANGED pf /\ conn'[c].at = "publish"
          /\ \A d \in Conn \ {c} : conn'[d] = conn[d]
        BY <1>13, FetchMoves DEF PersistBody, prefetch
    <2> QED
        BY <2>1, <2>2 DEF WholeFiles
<1>14. CASE Restart
    <2>1. UNCHANGED eml /\ pf'.at = "start" /\ \A c \in Conn : conn'[c].at = "idle"
        BY <1>14 DEF Restart, Opened, NoPass, NoEntry, FetchOf, disk
    <2> QED
        BY <2>1 DEF WholeFiles, OnlyWholeBodies, OnDisk
<1> QED
    BY <1>4, <1>5, <1>6, <1>7, <1>8, <1>9, <1>10, <1>11, <1>12, <1>13, <1>14
       DEF BodiesNext, PrefetchStep

(* What has a file, or a reason for having none, keeps it. *)
LEMMA BackedGrows ==
    ASSUME Typed, WholeFiles, BodiesNext
    PROVE  Backed \subseteq Backed'
<1> USE DEF Typed
<1>1. ASSUME UNCHANGED eml, gone \subseteq gone', unwritten \subseteq unwritten'
      PROVE  Backed \subseteq Backed'
    BY <1>1 DEF Backed, OnDisk
<1>2. ASSUME NEW m \in Mail, NEW files, WriteEml(m, files), files = Attached[m], UNCHANGED gone
      PROVE  Backed \subseteq Backed' /\ m \in Backed'
    BY <1>2, BodiesAssumption DEF WriteEml, Folder, Backed, OnDisk
<1>3. CASE DeleteEml
    BY <1>3 DEF DeleteEml, DeleteFails, Folder, Backed, OnDisk, server
<1>4. CASE Write
    BY <1>2, <1>4 DEF Write, At, Loop, WholeFiles, server
<1>5. ASSUME NEW c \in Conn, PersistBody(c)
      PROVE  Backed \subseteq Backed'
    BY <1>2, <1>5 DEF PersistBody, InFetch, Connections, Fetches, WholeFiles, server
<1>6. ASSUME NEW m \in Mail, Arrive(m) \/ Expunge(m) \/ DeleteRow(m) \/ RetryDue(m)
                             \/ CooldownEnds(m)
      PROVE  Backed \subseteq Backed'
    BY <1>1, <1>6
    DEF Arrive, Expunge, DeleteRow, RetryDue, CooldownEnds, disk, server, causes
<1>7. CASE DeleteShown \/ Restart
    BY <1>1, <1>7 DEF DeleteShown, Restart, disk, server, causes
<1>8. CASE PassStart \/ Pick \/ Load \/ LoadFiles \/ PassEnd \/ WakeOnChange \/ WakeOnTimer
           \/ Publish
    BY <1>1, <1>8
    DEF PassStart, Pick, Load, LoadFiles, PassEnd, WakeOnChange, WakeOnTimer,
       Publish, disk, server, causes
<1>9. ASSUME NEW c \in Conn,
             Fetch(c) \/ Look(c) \/ ReadEml(c) \/ LookAgain(c) \/ FetchBody(c)
             \/ FetchComplete(c) \/ \E m \in Mail : Refresh(c, m)
      PROVE  Backed \subseteq Backed'
    BY <1>1, <1>9
    DEF Fetch, Look, ReadEml, LookAgain, FetchBody, FetchComplete, Refresh, disk,
       server, causes
<1> QED
    BY <1>3, <1>4, <1>5, <1>6, <1>7, <1>8, <1>9 DEF BodiesNext, PrefetchStep

LEMMA RealStep ==
    ASSUME Typed, WholeFiles, Real, BodiesNext
    PROVE  Real'
<1> USE DEF Typed
<1>1. Backed \subseteq Backed'
    BY BackedGrows
<1>2. ASSUME NEW c \in Conn, conn'[c] = conn[c]
      PROVE  RealFetch(c)'
    BY <1>1, <1>2 DEF Real, RealFetch
<1>3. ASSUME NEW c \in Conn, \A d \in Conn \ {c} : conn'[d] = conn[d], RealFetch(c)'
      PROVE  \A d \in Conn : RealFetch(d)'
    BY <1>2, <1>3
<1>4. ASSUME NEW m \in Mail, m \in Backed, Complete(m)
      PROVE  loaded' \subseteq Backed' /\ Range(lru') \subseteq Backed'
    BY <1>1, <1>4, InsertProperties DEF Complete, Keep, Cache, Real
<1>5. ASSUME NEW m \in Mail, NEW files, WriteEml(m, files), files = Attached[m], UNCHANGED gone
      PROVE  m \in Backed'
    BY <1>5, BodiesAssumption DEF WriteEml, Folder, Backed, OnDisk
<1>6. ASSUME UNCHANGED <<pf, conn>>, loaded' \subseteq loaded, UNCHANGED lru
      PROVE  Real'
    BY <1>1, <1>2, <1>6 DEF Real
<1>7. ASSUME UNCHANGED <<loaded, lru, conn>>, pf'.at = "publish" => pf'.m \in Backed'
      PROVE  Real'
    BY <1>1, <1>2, <1>7 DEF Real
<1>8. ASSUME UNCHANGED <<loaded, pf>>, Range(lru') \subseteq Backed',
             \A c \in Conn : RealFetch(c)'
      PROVE  Real'
    BY <1>1, <1>8 DEF Real
<1>9. ASSUME NEW m \in Mail, Arrive(m) \/ Expunge(m) \/ DeleteRow(m) \/ RetryDue(m)
                             \/ CooldownEnds(m)
      PROVE  Real'
    BY <1>6, <1>9 DEF Arrive, Expunge, DeleteRow, RetryDue, CooldownEnds, mem, cache, prefetch
<1>10. CASE DeleteEml \/ DeleteShown
    BY <1>6, <1>10 DEF DeleteEml, DeleteShown, mem, cache, prefetch
<1>11. CASE PassStart \/ Pick \/ Load \/ LoadFiles \/ PassEnd \/ WakeOnChange \/ WakeOnTimer
    <2>1. UNCHANGED <<loaded, lru, conn>>
        BY <1>11
        DEF PassStart, Pick, Load, LoadFiles, PassEnd, WakeOnChange, WakeOnTimer,
            mem, cache
    <2>2. pf'.at # "publish"
        BY <1>11
        DEF PassStart, Pick, Load, LoadFiles, PassEnd, WakeOnChange, WakeOnTimer,
            Skip,
           NextMail, Goto, At, Loop, Pass
    <2> QED
        BY <1>7, <2>1, <2>2
<1>12. CASE Write
    <2>1. pf.m \in Backed' /\ pf'.m = pf.m
        BY <1>5, <1>12 DEF Write, At, Goto, Loop, Pass, WholeFiles, server
    <2> QED
        BY <1>7, <1>12, <2>1 DEF Write, mem, cache
<1>13. CASE Publish
    <2>1. loaded' \subseteq Backed' /\ Range(lru') \subseteq Backed'
        BY <1>4, <1>13 DEF Publish, At, Loop, Real
    <2>2. pf'.at = "pass" /\ UNCHANGED conn
        BY <1>13 DEF Publish, NextMail
    <2> QED
        BY <1>2, <2>1, <2>2 DEF Real
<1>14. ASSUME NEW c \in Conn, NEW m \in Mail, Refresh(c, m)
       PROVE  Real'
    <2>1. /\ conn'[c].at = "idle" /\ conn'[c].m = m /\ conn'[c].loaded = (m \in loaded)
          /\ \A d \in Conn \ {c} : conn'[d] = conn[d]
        BY <1>14 DEF Refresh, FetchOf, Connections
    <2>2. RealFetch(c)'
        BY <1>1, <2>1 DEF RealFetch, Real
    <2>3. UNCHANGED <<loaded, lru, pf>>
        BY <1>14 DEF Refresh, mem, cache, prefetch
    <2> QED
        BY <1>1, <1>3, <1>8, <2>1, <2>2, <2>3 DEF Real
<1>15. ASSUME NEW c \in Conn, Fetch(c)
       PROVE  Real'
    <2>1. /\ conn'[c].at = "look" /\ conn'[c].m = conn[c].m
          /\ conn'[c].loaded = conn[c].loaded
          /\ conn'[c].phase = "answer" => conn[c].loaded
          /\ \A d \in Conn \ {c} : conn'[d] = conn[d]
        BY <1>15 DEF Fetch, FetchOf, Connections
    <2>2. RealFetch(c)'
        BY <1>1, <2>1 DEF RealFetch, Real
    <2>3. UNCHANGED <<loaded, lru, pf>>
        BY <1>15 DEF Fetch, mem, cache, prefetch
    <2> QED
        BY <1>1, <1>3, <1>8, <2>1, <2>2, <2>3 DEF Real
<1>16. ASSUME NEW c \in Conn, Look(c) \/ ReadEml(c) \/ LookAgain(c)
       PROVE  Real'
    <2>1. conn[c].m \in Mail /\ ~InFetch(c, "idle") /\ UNCHANGED <<loaded, pf>>
        BY <1>16 DEF Look, ReadEml, LookAgain, InFetch, Connections, Fetches, prefetch
    <2>2. \/ Cached(conn[c].m) /\ lru' = Touch(conn[c].m)
          \/ conn[c].m \in OnDisk /\ lru' = Insert(conn[c].m)
          \/ UNCHANGED lru
        BY <1>16 DEF Look, ReadEml, LookAgain, Keep, cache
    <2>3. Range(lru') \subseteq Range(lru) \cup {conn[c].m}
        BY <2>1, <2>2, TouchProperties, InsertProperties DEF Cache
    <2>4. Range(lru') \subseteq Backed'
        BY <1>1, <2>2, <2>3 DEF Real, Cached, Backed
    <2>5. \/ ToAnswer(c) /\ Cached(conn[c].m)
          \/ Answered(c)
          \/ \E stage \in {"read", "again", "load"} : Step(c, stage)
        BY <1>16 DEF Look, ReadEml, LookAgain, Found, Absent
    <2>6. Cached(conn[c].m) => conn[c].m \in Backed'
        BY <1>1 DEF Real, Cached
    <2>7. \A d \in Conn : RealFetch(d)'
        <3>1. CASE ToAnswer(c) /\ Cached(conn[c].m)
            BY <1>3, <2>6, <3>1, FetchMoves DEF RealFetch
        <3>2. CASE Answered(c)
            BY <1>1, <1>3, <3>2, FetchMoves DEF RealFetch, Real
        <3>3. ASSUME NEW stage \in {"read", "again", "load"}, Step(c, stage)
              PROVE  \A d \in Conn : RealFetch(d)'
            BY <1>1, <1>3, <2>1, <3>3, FetchMoves DEF RealFetch, Real, InFetch
        <3> QED
            BY <2>5, <3>1, <3>2, <3>3
    <2> QED
        BY <1>8, <2>1, <2>4, <2>7
<1>17. ASSUME NEW c \in Conn, FetchBody(c)
       PROVE  Real'
    <2>1. UNCHANGED <<loaded, lru, pf>> /\ ~InFetch(c, "idle")
        BY <1>17 DEF FetchBody, InFetch, cache, prefetch
    <2>2. CASE Unavailable(c)
        <3>1. \A d \in Conn : RealFetch(d)'
            BY <1>1, <1>3, <2>2, FetchMoves DEF RealFetch, Real, Unavailable
        <3> QED
            BY <1>1, <1>8, <2>1, <3>1 DEF Real
    <2>3. ASSUME NEW files, conn' = [conn EXCEPT ![c] = FetchOf(conn[c].m, conn[c].loaded,
                                                          "write", conn[c].phase, files)]
          PROVE  Real'
        <3>1. /\ \A d \in Conn \ {c} : conn'[d] = conn[d]
              /\ conn'[c].at = "write" /\ conn'[c].m = conn[c].m
              /\ conn'[c].loaded = conn[c].loaded /\ conn'[c].phase = conn[c].phase
            BY <2>3 DEF FetchOf, Connections
        <3>2. \A d \in Conn : RealFetch(d)'
            BY <1>1, <1>3, <2>1, <3>1 DEF RealFetch, Real, InFetch
        <3> QED
            BY <1>1, <1>8, <2>1, <3>2 DEF Real
    <2> QED
        BY <1>17, <2>2, <2>3 DEF FetchBody
<1>18. ASSUME NEW c \in Conn, PersistBody(c)
       PROVE  Real'
    <2>1. conn[c].m \in Backed' /\ UNCHANGED <<loaded, lru, pf>>
        BY <1>5, <1>18
        DEF PersistBody, InFetch, Connections, Fetches, WholeFiles, server, mem, cache,
           prefetch
    <2>2. \A d \in Conn : RealFetch(d)'
        BY <1>3, <1>18, <2>1, FetchMoves DEF PersistBody, RealFetch
    <2> QED
        BY <1>1, <1>8, <2>1, <2>2 DEF Real
<1>19. ASSUME NEW c \in Conn, FetchComplete(c)
       PROVE  Real'
    <2>1. conn[c].m \in Mail /\ conn[c].m \in Backed /\ UNCHANGED pf
        BY <1>19
        DEF FetchComplete, InFetch, Connections, Fetches, Real, RealFetch, prefetch
    <2>2. loaded' \subseteq Backed' /\ Range(lru') \subseteq Backed'
        BY <1>4, <1>19, <2>1 DEF FetchComplete
    <2>3. \A d \in Conn : RealFetch(d)'
        BY <1>1, <1>3, <1>19, <2>1, FetchMoves DEF FetchComplete, RealFetch
    <2> QED
        BY <1>1, <2>1, <2>2, <2>3 DEF Real
<1>20. CASE Restart
    <2>1. /\ loaded' \subseteq OnDisk /\ lru' = << >> /\ pf'.at = "start"
          /\ \A c \in Conn : conn'[c] = NoEntry
        BY <1>20 DEF Restart, Opened, NoPass
    <2>2. Range(lru') = {}
        BY <2>1 DEF Range
    <2>3. \A c \in Conn : RealFetch(c)'
        BY <2>1 DEF RealFetch, NoEntry, FetchOf
    <2> QED
        BY <1>1, <2>1, <2>2, <2>3 DEF Real, Backed
<1> QED
    BY <1>9, <1>10, <1>11, <1>12, <1>13, <1>14, <1>15, <1>16, <1>17, <1>18, <1>19, <1>20
       DEF BodiesNext, PrefetchStep

(* Nobody takes up a mail that is gone from the server. *)
LEMMA UnlinkedStep ==
    ASSUME Typed, Unlinked, BodiesNext
    PROVE  Unlinked'
<1> USE DEF Typed
<1> DEFINE Loads(p) == p.at \in {"files", "write", "publish"}
           Writes(p) == p.at \in {"write", "publish"}
<1>1. \A m \in Mail : Past(m) => m \in gone /\ m \notin alive
    BY DEF Past, Folder
<1>2. ASSUME UNCHANGED <<told, overtaken, stuck>>, deleting' = deleting \/ deleting' = None,
             \A m \in Mail : eml'[m] = eml[m] \/ m \in alive,
             Loads(pf') => (Loads(pf) /\ pf'.m = pf.m) \/ pf'.m \in alive,
             \A c \in Conn : Writes(conn'[c]) =>
                 (Writes(conn[c]) /\ conn'[c].m = conn[c].m) \/ conn'[c].m \in alive
      PROVE  Unlinked'
    BY <1>1, <1>2 DEF Unlinked, Past
<1>3. ASSUME NEW m \in Mail, DeleteRow(m)
      PROVE  Unlinked'
    <2>1. UNCHANGED <<told, overtaken, eml, pf, conn>>
        BY <1>3 DEF DeleteRow, prefetch
    <2>2. CASE UNCHANGED stuck /\ deleting' = [m |-> m, at |-> "eml"]
        BY <2>1, <2>2 DEF Unlinked, Past
    <2>3. CASE DeleteFails(m)
        BY <2>1, <2>3 DEF DeleteFails, Unlinked, Past
    <2> QED
        BY <1>3, <2>2, <2>3 DEF DeleteRow
<1>4. CASE DeleteEml
    <2>1. deleting.m \in Mail /\ deleting # None
        BY <1>4 DEF DeleteEml, Folder
    <2>2. \A m \in Mail : Past(m)' => Past(m) \/ m = deleting.m
        BY <1>4, <2>1 DEF DeleteEml, DeleteFails, Past, Folder
    <2>3. UNCHANGED <<pf, conn>> /\ overtaken \subseteq overtaken'
        BY <1>4 DEF DeleteEml, Overtake, prefetch
    <2>4. \A m \in Mail : m # deleting.m =>
              eml'[m] = eml[m] /\ (m \in stuck => m \in stuck')
        BY <1>4, <2>1 DEF DeleteEml, DeleteFails, Folder
    <2>5. deleting.m \in stuck' \/ eml'[deleting.m] = None
        BY <1>4, <2>1 DEF DeleteEml, DeleteFails, Folder
    <2>6. deleting.m \notin overtaken' =>
              /\ Loads(pf) => pf.m # deleting.m
              /\ \A c \in Conn : Writes(conn[c]) => conn[c].m # deleting.m
        BY <1>4 DEF DeleteEml, Overtake, UnderWay
    <2> QED
        BY <2>2, <2>3, <2>4, <2>5, <2>6 DEF Unlinked
<1>5. CASE DeleteShown
    <2>1. \A m \in Mail : Past(m)' => Past(m)
        BY <1>5 DEF DeleteShown, Past
    <2> QED
        BY <1>5, <2>1 DEF DeleteShown, Unlinked, disk, prefetch, causes
<1>6. CASE Restart
    <2>1. /\ UNCHANGED <<told, overtaken, stuck, eml>> /\ deleting' = None
          /\ ~Loads(pf') /\ \A c \in Conn : ~Writes(conn'[c])
        BY <1>6 DEF Restart, Opened, disk, causes, NoPass, NoEntry, FetchOf
    <2> QED
        BY <1>2, <2>1
<1>7. ASSUME NEW m \in Mail, Arrive(m) \/ Expunge(m) \/ RetryDue(m) \/ CooldownEnds(m)
      PROVE  Unlinked'
    BY <1>7 DEF Arrive, Expunge, RetryDue, CooldownEnds, Unlinked, Past, disk, handler,
       prefetch, causes
<1>8. CASE PassStart \/ Pick \/ PassEnd \/ WakeOnChange \/ WakeOnTimer \/ Publish
    <2>1. UNCHANGED <<told, overtaken, stuck, deleting, eml, conn>>
        BY <1>8
        DEF PassStart, Pick, PassEnd, WakeOnChange, WakeOnTimer, Publish, handler,
           causes, disk
    <2>2. ~Loads(pf')
        BY <1>8 DEF PassStart, Pick, PassEnd, WakeOnChange, WakeOnTimer, Publish, Skip,
           NextMail, Goto, At, Loop, Pass
    <2> QED
        BY <1>2, <2>1, <2>2
<1>9. CASE Load
    <2>1. UNCHANGED <<told, overtaken, stuck, deleting, eml, conn>>
        BY <1>9 DEF Load, handler, causes, disk
    <2>2. Loads(pf') => pf'.m \in alive
        BY <1>9 DEF Load, LoadDetails, NextMail, Goto, Loop, Pass
    <2> QED
        BY <1>2, <2>1, <2>2
<1>10. CASE LoadFiles
    <2>1. UNCHANGED <<told, overtaken, stuck, deleting, eml, conn>>
        BY <1>10 DEF LoadFiles, handler, causes, disk
    <2>2. Loads(pf') => pf'.m \in alive
        BY <1>10 DEF LoadFiles, NextMail
    <2> QED
        BY <1>2, <2>1, <2>2
<1>11. ASSUME NEW m \in Mail, NEW files, WriteEml(m, files), Past(m) => m \in overtaken \cup stuck,
              UNCHANGED <<told, overtaken, stuck, deleting>>,
              Loads(pf') => Loads(pf) /\ pf'.m = pf.m,
              \A c \in Conn : Writes(conn'[c]) => Writes(conn[c]) /\ conn'[c].m = conn[c].m
       PROVE  Unlinked'
    <2>1. \A n \in Mail \ {m} : eml'[n] = eml[n]
        BY <1>11 DEF WriteEml, Folder
    <2> QED
        BY <1>11, <2>1 DEF Unlinked, Past
<1>12. CASE Write
    <2>1. pf.m \in Mail /\ Loads(pf) /\ pf'.m = pf.m
        BY <1>12 DEF Write, At, Goto, Loop, Pass
    <2>2. Past(pf.m) => pf.m \in overtaken \cup stuck
        BY <2>1 DEF Unlinked
    <2>3. UNCHANGED <<told, overtaken, stuck, deleting, conn>> /\ WriteEml(pf.m, pf.files)
        BY <1>12 DEF Write, handler
    <2> QED
        BY <1>11, <2>1, <2>2, <2>3
<1>13. ASSUME NEW c \in Conn, UNCHANGED <<told, overtaken, stuck, deleting, eml, pf>>,
              \A d \in Conn \ {c} : conn'[d] = conn[d],
              Writes(conn'[c]) => conn'[c].m \in alive
       PROVE  Unlinked'
    BY <1>2, <1>13
<1>14. ASSUME NEW c \in Conn, Fetch(c) \/ \E m \in Mail : Refresh(c, m)
       PROVE  Unlinked'
    <2>1. UNCHANGED <<told, overtaken, stuck, deleting, eml, pf>>
        BY <1>14 DEF Fetch, Refresh, handler, causes, disk, prefetch
    <2>2. ~Writes(conn'[c]) /\ \A d \in Conn \ {c} : conn'[d] = conn[d]
        BY <1>14 DEF Fetch, Refresh, FetchOf, Connections
    <2> QED
        BY <1>13, <2>1, <2>2
<1>15. ASSUME NEW c \in Conn, Look(c) \/ ReadEml(c) \/ LookAgain(c) \/ FetchComplete(c)
       PROVE  Unlinked'
    <2>1. UNCHANGED <<told, overtaken, stuck, deleting, eml, pf>>
        BY <1>15
        DEF Look, ReadEml, LookAgain, FetchComplete, handler, causes, disk, prefetch
    <2>2. \/ ToAnswer(c) \/ Answered(c)
          \/ \E stage \in {"read", "again", "load"} : Step(c, stage)
        BY <1>15 DEF Look, ReadEml, LookAgain, FetchComplete, Found, Absent
    <2>3. ~Writes(conn'[c]) /\ \A d \in Conn \ {c} : conn'[d] = conn[d]
        BY <2>2, FetchMoves
    <2> QED
        BY <1>13, <2>1, <2>3
<1>16. ASSUME NEW c \in Conn, FetchBody(c)
       PROVE  Unlinked'
    <2>1. UNCHANGED <<told, overtaken, stuck, deleting, eml, pf>>
        BY <1>16 DEF FetchBody, handler, causes, disk, prefetch
    <2>2. CASE Unavailable(c)
        BY <1>13, <2>1, <2>2, FetchMoves DEF Unavailable
    <2>3. ASSUME NEW files, conn[c].m \in alive,
                 conn' = [conn EXCEPT ![c] = FetchOf(conn[c].m, conn[c].loaded, "write",
                                                     conn[c].phase, files)]
          PROVE  Unlinked'
        <3>1. conn'[c].m = conn[c].m /\ \A d \in Conn \ {c} : conn'[d] = conn[d]
            BY <2>3 DEF FetchOf, Connections
        <3> QED
            BY <1>13, <2>1, <2>3, <3>1
    <2> QED
        BY <1>16, <2>2, <2>3 DEF FetchBody
<1>17. ASSUME NEW c \in Conn, PersistBody(c)
       PROVE  Unlinked'
    <2>1. conn[c].m \in Mail /\ Writes(conn[c])
        BY <1>17 DEF PersistBody, InFetch, Connections, Fetches
    <2>2. Past(conn[c].m) => conn[c].m \in overtaken \cup stuck
        BY <2>1 DEF Unlinked
    <2>3. /\ UNCHANGED <<told, overtaken, stuck, deleting, pf>>
          /\ WriteEml(conn[c].m, conn[c].files) /\ Step(c, "publish")
        BY <1>17 DEF PersistBody, handler, prefetch
    <2>4. conn'[c].m = conn[c].m /\ \A d \in Conn \ {c} : conn'[d] = conn[d]
        BY <2>3, FetchMoves
    <2> QED
        BY <1>11, <2>1, <2>2, <2>3, <2>4
<1> QED
    BY <1>3, <1>4, <1>5, <1>6, <1>7, <1>8, <1>9, <1>10, <1>12, <1>14, <1>15, <1>16,
       <1>17
       DEF BodiesNext, PrefetchStep

(* Every insertion that drives a body out says so. *)
LEMMA SeenAgainStep ==
    ASSUME Typed, SeenAgain, BodiesNext
    PROVE  SeenAgain'
<1> USE DEF Typed
<1>1. ASSUME UNCHANGED <<lru, crowded>>,
             \A c \in Conn : conn'[c].at = "again" => conn'[c] = conn[c]
      PROVE  SeenAgain'
    BY <1>1 DEF SeenAgain, Cached
<1>2. ASSUME NEW m \in Mail, Keep(m), NEW c \in Conn, conn'[c] = conn[c], conn[c].at = "again"
      PROVE  (Cached(conn[c].m) \/ c \in crowded)'
    BY <1>2 DEF Keep, SeenAgain, Cached
<1>3. CASE Publish
    <2>1. pf.m \in Mail /\ Keep(pf.m) /\ UNCHANGED conn
        BY <1>3 DEF Publish, At, Complete, Loop
    <2> QED
        BY <1>2, <2>1 DEF SeenAgain
<1>4. ASSUME NEW c \in Conn, FetchComplete(c)
      PROVE  SeenAgain'
    <2>1. conn[c].m \in Mail /\ Keep(conn[c].m) /\ ToAnswer(c)
        BY <1>4 DEF FetchComplete, InFetch, Complete, Connections, Fetches
    <2>2. conn'[c].at = "look" /\ \A d \in Conn \ {c} : conn'[d] = conn[d]
        BY <2>1, FetchMoves
    <2> QED
        BY <1>2, <2>1, <2>2 DEF SeenAgain
<1>5. ASSUME NEW c \in Conn, Look(c) \/ LookAgain(c)
      PROVE  SeenAgain'
    <2>1. conn[c].m \in Mail
        BY <1>5 DEF Look, LookAgain, InFetch, Connections, Fetches
    <2>2. Range(lru') = Range(lru)
        BY <1>5, <2>1, TouchProperties DEF Look, LookAgain, Cache, Cached
    <2>3. /\ \A d \in Conn \ {c} : conn'[d] = conn[d]
          /\ conn'[c].at # "again"
        BY <1>5, FetchMoves DEF Look, LookAgain, Found, Absent
    <2>4. \A d \in Conn \ {c} : d \in crowded => d \in crowded'
        BY <1>5 DEF Look, LookAgain
    <2> QED
        BY <2>2, <2>3, <2>4 DEF SeenAgain, Cached
<1>6. ASSUME NEW c \in Conn, ReadEml(c)
      PROVE  SeenAgain'
    <2>1. conn[c].m \in Mail
        BY <1>6 DEF ReadEml, InFetch, Connections, Fetches
    <2>2. CASE Keep(conn[c].m) /\ Step(c, "again")
        <3>1. conn'[c].m = conn[c].m /\ \A d \in Conn \ {c} : conn'[d] = conn[d]
            BY <2>2, FetchMoves
        <3>2. conn[c].m \in Range(lru')
            BY <2>1, <2>2, InsertProperties DEF Keep, Cache
        <3> QED
            BY <1>2, <2>1, <2>2, <3>1, <3>2 DEF SeenAgain, Cached
    <2>3. CASE Absent(c) /\ UNCHANGED cache
        <3>1. \A d \in Conn \ {c} : conn'[d] = conn[d]
            BY <2>3, FetchMoves DEF Absent
        <3>2. conn'[c].at # "again"
            BY <2>3, FetchMoves DEF Absent
        <3> QED
            BY <1>1, <2>3, <3>1, <3>2 DEF cache
    <2> QED
        BY <1>6, <2>2, <2>3 DEF ReadEml
<1>7. CASE Restart
    BY <1>7 DEF Restart, Opened, NoEntry, FetchOf, SeenAgain
<1>8. ASSUME NEW m \in Mail, Arrive(m) \/ Expunge(m) \/ DeleteRow(m) \/ RetryDue(m)
                             \/ CooldownEnds(m)
      PROVE  SeenAgain'
    BY <1>1, <1>8 DEF Arrive, Expunge, DeleteRow, RetryDue, CooldownEnds, mem, cache
<1>9. CASE DeleteEml \/ DeleteShown
    BY <1>1, <1>9 DEF DeleteEml, DeleteShown, mem, cache
<1>10. CASE PassStart \/ Pick \/ Load \/ LoadFiles \/ Write \/ PassEnd \/ WakeOnChange
            \/ WakeOnTimer
    BY <1>1, <1>10 DEF PassStart, Pick, Load, LoadFiles, Write, PassEnd, WakeOnChange,
       WakeOnTimer, mem, cache
<1>11. ASSUME NEW c \in Conn, Fetch(c) \/ FetchBody(c) \/ PersistBody(c)
                              \/ \E m \in Mail : Refresh(c, m)
       PROVE  SeenAgain'
    <2>1. UNCHANGED <<lru, crowded>>
        BY <1>11 DEF Fetch, FetchBody, PersistBody, Refresh, mem, cache
    <2>2. conn'[c].at # "again" /\ \A d \in Conn \ {c} : conn'[d] = conn[d]
        BY <1>11, FetchMoves DEF Fetch, FetchBody, PersistBody, Refresh, Unavailable, FetchOf,
           Connections
    <2> QED
        BY <1>1, <2>1, <2>2
<1> QED
    BY <1>3, <1>4, <1>5, <1>6, <1>7, <1>8, <1>9, <1>10, <1>11 DEF BodiesNext, PrefetchStep

-----------------------------------------------------------------------------
(* A connection moves by its own steps, or when the process stops. *)
LEMMA CrashesCounted ==
    ASSUME BodiesNext
    PROVE  \/ Restart /\ crashes' = crashes + 1
           \/ UNCHANGED <<conn, crashes>>
           \/ /\ UNCHANGED crashes
              /\ \E c \in Conn :
                    \/ Fetch(c) \/ Look(c) \/ ReadEml(c) \/ LookAgain(c) \/ FetchBody(c)
                    \/ PersistBody(c) \/ FetchComplete(c) \/ \E m \in Mail : Refresh(c, m)
<1>1. ASSUME NEW m \in Mail, Arrive(m) \/ Expunge(m) \/ DeleteRow(m) \/ RetryDue(m)
                             \/ CooldownEnds(m)
      PROVE  UNCHANGED <<conn, crashes>>
    BY <1>1 DEF Arrive, Expunge, DeleteRow, RetryDue, CooldownEnds
<1>2. ASSUME DeleteEml \/ DeleteShown \/ PrefetchStep
      PROVE  UNCHANGED <<conn, crashes>>
    BY <1>2
    DEF DeleteEml, DeleteShown, PrefetchStep, PassStart, Pick, Load, LoadFiles,
        Write,
       Publish, PassEnd, WakeOnChange, WakeOnTimer
<1>3. ASSUME Restart
      PROVE  crashes' = crashes + 1
    BY <1>3 DEF Restart
<1>4. ASSUME NEW c \in Conn,
             \/ Fetch(c) \/ Look(c) \/ ReadEml(c) \/ LookAgain(c) \/ FetchBody(c)
             \/ PersistBody(c) \/ FetchComplete(c) \/ \E m \in Mail : Refresh(c, m)
      PROVE  UNCHANGED crashes
    BY <1>4
    DEF Fetch, Look, ReadEml, LookAgain, FetchBody, PersistBody, FetchComplete,
        Refresh
<1> QED
    BY <1>1, <1>2, <1>3, <1>4 DEF BodiesNext

(* Failures are counted. *)
LEMMA FailsCounted ==
    ASSUME BodiesNext
    PROVE  fails' = fails \/ fails' = fails + 1
<1>1. ASSUME NEW m \in Mail, Arrive(m) \/ Expunge(m) \/ DeleteRow(m) \/ RetryDue(m)
                             \/ CooldownEnds(m)
      PROVE  fails' = fails \/ fails' = fails + 1
    BY <1>1 DEF Arrive, Expunge, DeleteRow, DeleteFails, RetryDue, CooldownEnds
<1>2. ASSUME DeleteEml \/ DeleteShown \/ PrefetchStep \/ Restart
      PROVE  fails' = fails \/ fails' = fails + 1
    BY <1>2
    DEF DeleteEml, DeleteFails, DeleteShown, PrefetchStep, PassStart, Pick, Load, LoadDetails,
        LoadFiles, ServerAnswers, Fails, Write, WriteEml, Publish, PassEnd, WakeOnChange,
        WakeOnTimer, Restart
<1>3. ASSUME NEW c \in Conn,
             \/ Fetch(c) \/ Look(c) \/ ReadEml(c) \/ LookAgain(c) \/ FetchBody(c)
             \/ PersistBody(c) \/ FetchComplete(c) \/ \E m \in Mail : Refresh(c, m)
      PROVE  fails' = fails \/ fails' = fails + 1
    BY <1>3
    DEF Fetch, Look, ReadEml, LookAgain, FetchBody, ServerAnswers, Fails, PersistBody, WriteEml,
        FetchComplete, Refresh
<1> QED
    BY <1>1, <1>2, <1>3 DEF BodiesNext

LEMMA BodiesInitInv == BodiesInit => BodiesInv
<1> SUFFICES ASSUME BodiesInit
             PROVE  BodiesInv
    OBVIOUS
<1>1. Folder
    BY BodiesAssumption DEF BodiesInit, Folder
<1>2. Loop
    BY DEF BodiesInit, NoPass, Loop, Pass
<1>3. NoEntry \in Fetching /\ NoEntry.at = "idle" /\ NoEntry.loaded = FALSE
    BY DEF NoEntry, FetchOf, Fetching
<1>4. Connections
    BY <1>3 DEF BodiesInit, Connections, Fetches
<1>5. Cache
    BY DEF BodiesInit, Cache, CacheWithinBudget, IsInjective
<1>6. OnDisk = {} /\ pf.at = "start" /\ \A c \in Conn : conn[c].at = "idle" /\ ~conn[c].loaded
    BY <1>3 DEF BodiesInit, OnDisk, NoPass
<1>7. Range(lru) = {} /\ loaded = {}
    BY DEF BodiesInit, Range
<1>8. WholeFiles
    BY <1>6 DEF WholeFiles, OnlyWholeBodies
<1>9. Real
    BY <1>6, <1>7 DEF Real, RealFetch
<1>10. Unlinked /\ SeenAgain
    BY <1>6 DEF BodiesInit, Unlinked, Past, SeenAgain
<1> QED
    BY <1>1, <1>2, <1>4, <1>5, <1>8, <1>9, <1>10 DEF BodiesInit, BodiesInv

LEMMA BodiesNextInv == BodiesInv /\ [BodiesNext]_bodyVars => BodiesInv'
<1> SUFFICES ASSUME BodiesInv, [BodiesNext]_bodyVars
             PROVE  BodiesInv'
    OBVIOUS
<1>1. CASE BodiesNext
    <2>1. crashes' \in Nat /\ fails' \in Nat
        BY <1>1, CrashesCounted, FailsCounted DEF BodiesInv
    <2> QED
        BY <1>1, <2>1, FolderStep, LoopStep, ConnectionsStep, CacheStep, WholeStep,
           RealStep, UnlinkedStep, SeenAgainStep DEF BodiesInv, Typed
<1>2. CASE UNCHANGED bodyVars
    <2>1. UNCHANGED <<alive, gone, rows, eml, shown, loaded, lru, deleting, told, pf, conn,
                      unwritten, overtaken, stuck, crowded, crashes, fails>>
        BY <1>2 DEF bodyVars, server, disk, mem, cache, handler, prefetch, causes
    <2>2. Folder' /\ Loop' /\ Connections' /\ Cache'
        BY <2>1
        DEF BodiesInv, Folder, Loop, Connections, Fetches, Cache, CacheWithinBudget,
            Bytes
    <2>3. WholeFiles' /\ Unlinked' /\ SeenAgain'
        BY <2>1
        DEF BodiesInv, WholeFiles, OnlyWholeBodies, OnDisk, Unlinked, Past, SeenAgain, Cached
    <2>4. Real'
        BY <2>1 DEF BodiesInv, Real, RealFetch, Backed, OnDisk
    <2> QED
        BY <2>1, <2>2, <2>3, <2>4 DEF BodiesInv
<1> QED
    BY <1>1, <1>2

LEMMA BodiesInvariant == BodiesSpec => []BodiesInv
    BY BodiesInitInv, BodiesNextInv, PTL DEF BodiesSpec

(* The type invariant of Bodies: what is marked loaded is in the folder,    *)
(* what is in the cache is in it once, a FETCH has a mail.                  *)
THEOREM BodiesTypeCorrect == BodiesSpec => []BodiesTypeOK
<1>1. BodiesInv => BodiesTypeOK
    <2> SUFFICES ASSUME BodiesInv
                 PROVE  BodiesTypeOK
        OBVIOUS
    <2>1. ASSUME NEW c \in Conn, conn[c].at # "idle"
          PROVE  conn[c].m # None /\ conn[c].phase # None
        BY <2>1, BodiesAssumption DEF BodiesInv, Connections, Fetches
    <2> QED
        BY <2>1 DEF BodiesInv, BodiesTypeOK, Folder, Cache
<1> QED
    BY <1>1, BodiesInvariant, PTL

(* BodyCache::insert keeps the cache within its budget, one body that is    *)
(* too large for it excepted, whatever sizes the bodies have.               *)
THEOREM CacheStaysBounded == BodiesSpec => []CacheWithinBudget
<1>1. BodiesInv => CacheWithinBudget
    BY DEF BodiesInv, Cache
<1> QED
    BY <1>1, BodiesInvariant, PTL

(* No incomplete message becomes a file, whatever the server answers to     *)
(* load_attachments and wherever the process stops.                         *)
THEOREM FilesAreWhole == BodiesSpec => []OnlyWholeBodies
<1>1. BodiesInv => OnlyWholeBodies
    BY DEF BodiesInv, WholeFiles
<1> QED
    BY <1>1, BodiesInvariant, PTL

(* delete_mail leaves no file behind, unless the body was under way when it *)
(* removed it or a step of it failed, for any number of connections and     *)
(* crashes.                                                                 *)
THEOREM FilesGoWithMails == BodiesSpec => []FileGoesWithItsMail
<1>1. BodiesInv => FileGoesWithItsMail
    BY DEF BodiesInv, Unlinked, Past, FileGoesWithItsMail, OnDisk
<1> QED
    BY <1>1, BodiesInvariant, PTL

(* cmd_fetch answers a FETCH with a stub only if the mail was deleted, its  *)
(* file could not be written or read, or its body was driven out of the     *)
(* cache between get's insertion and its second look, whatever the sizes.   *)
THEOREM StubsHaveCauses == BodiesSpec => StubHasACause
<1> DEFINE Caused == \A c \in Conn :
              conn[c].phase = "answer" /\ conn'[c].at = "idle" /\ crashes' = crashes =>
                  /\ InFetch(c, "read") =>
                        \/ conn[c].m \in gone \cup unwritten
                        \/ conn[c].m \in OnDisk /\ fails' > fails
                  /\ InFetch(c, "again") => Cached(conn[c].m) \/ c \in crowded
<1>1. ASSUME BodiesInv, BodiesNext
      PROVE  Caused
    <2>a. \A c \in Conn : InFetch(c, "again") => Cached(conn[c].m) \/ c \in crowded
        BY <1>1 DEF BodiesInv, SeenAgain, InFetch
    <2> SUFFICES ASSUME NEW c \in Conn, InFetch(c, "read"), conn[c].phase = "answer",
                        conn'[c].at = "idle", crashes' = crashes
                 PROVE  \/ conn[c].m \in gone \cup unwritten
                        \/ conn[c].m \in OnDisk /\ fails' > fails
        BY <2>a
    <2>1. conn'[c] # conn[c]
        BY DEF InFetch
    <2>2. ASSUME NEW d \in Conn, d # c, \/ Fetch(d) \/ Look(d) \/ ReadEml(d) \/ LookAgain(d)
                                        \/ FetchBody(d) \/ PersistBody(d) \/ FetchComplete(d)
                                        \/ \E m \in Mail : Refresh(d, m)
          PROVE  FALSE
        <3>1. \E new : conn' = [conn EXCEPT ![d] = new]
            BY <2>2, Zenon DEF Fetch, Look, ReadEml, LookAgain, FetchBody, PersistBody,
               FetchComplete, Refresh, Found, Absent, Step, ToAnswer, Answered, Unavailable
        <3> QED
            BY <1>1, <2>1, <2>2, <3>1 DEF BodiesInv, Connections
    <2>3. ~(crashes' = crashes + 1)
        BY <1>1 DEF BodiesInv
    <2>4. \E d \in Conn :
             \/ Fetch(d) \/ Look(d) \/ ReadEml(d) \/ LookAgain(d) \/ FetchBody(d)
             \/ PersistBody(d) \/ FetchComplete(d) \/ \E m \in Mail : Refresh(d, m)
        BY <1>1, <2>1, <2>3, CrashesCounted
    <2>5. \/ Fetch(c) \/ Look(c) \/ ReadEml(c) \/ LookAgain(c) \/ FetchBody(c)
          \/ PersistBody(c) \/ FetchComplete(c) \/ \E m \in Mail : Refresh(c, m)
        BY <2>2, <2>4
    <2>6. ReadEml(c)
        BY <2>5
        DEF Fetch, Look, LookAgain, FetchBody, PersistBody, FetchComplete, Refresh,
            InFetch
    <2>7. conn[c].m \in Backed
        BY <1>1 DEF BodiesInv, Real, RealFetch, InFetch
    <2>8. ~Step(c, "again")
        BY <1>1, FetchMoves DEF BodiesInv
    <2>9. fails \in Nat
        BY <1>1 DEF BodiesInv
    <2> QED
        BY <2>6, <2>7, <2>8, <2>9 DEF ReadEml, Backed
<1>2. BodiesInv /\ [BodiesNext]_bodyVars => [Caused]_bodyVars
    BY <1>1
<1>3. BodiesSpec => [][Caused]_bodyVars
    BY <1>2, BodiesInvariant, PTL DEF BodiesSpec
<1> QED
    BY <1>3 DEF StubHasACause
=============================================================================
