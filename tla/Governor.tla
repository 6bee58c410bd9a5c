------------------------------- MODULE Governor -------------------------------
(***************************************************************************)
(* The outbound rate governor (governed_client.rs): every request to Tuta  *)
(* takes one of a few permits, waits out a suspension while holding it,    *)
(* and fires.  A 429 or 503 is returned to its caller and suspends all     *)
(* traffic.  Time is discrete: a suspension and a sleep are the ticks they *)
(* still last.                                                             *)
(***************************************************************************)
EXTENDS Naturals, FiniteSets, FiniteSetsExt

CONSTANTS
    Callers,            \* who makes requests, one at a time each
    MAX_IN_FLIGHT,      \* the permits
    BackoffBase,        \* DEFAULT_BACKOFF_BASE, in ticks
    MaxDefaultBackoff,  \* MAX_DEFAULT_BACKOFF
    MaxServerBackoff,   \* MAX_SERVER_BACKOFF
    ServerDelays,       \* what a retry-after header may say, in ticks
    MaxThrottles,       \* bound: throttled answers in a behaviour
    NoHint              \* an answer without a usable header

ASSUME GovernorConstants ==
    /\ MAX_IN_FLIGHT \in Nat \ {0}
    /\ BackoffBase \in Nat \ {0}
    /\ MaxDefaultBackoff \in Nat /\ MaxServerBackoff \in Nat
    /\ BackoffBase <= MaxDefaultBackoff /\ BackoffBase <= MaxServerBackoff
    /\ ServerDelays \subseteq Nat /\ MaxThrottles \in Nat /\ NoHint \notin Nat

VARIABLES
    req,        \* req[c]: the request of c: none, queued, waiting, sleeping, flying
    sleep,      \* sleep[c]: what is left of its sleep
    suspended,  \* what is left of the suspension
    throttles,  \* consecutive throttles without a hint from the server
    throttled,  \* throttled answers so far
    owed        \* ghost: what is left of the longest pause any answer asked for

govVars == <<req, sleep, suspended, throttles, throttled, owed>>

GovInit ==
    /\ req = [c \in Callers |-> "none"]
    /\ sleep = [c \in Callers |-> 0]
    /\ suspended = 0 /\ throttles = 0 /\ throttled = 0 /\ owed = 0

Permits == {c \in Callers : req[c] \in {"waiting", "sleeping", "flying"}}

\* request_binary is called, and gets a permit when one is free.
Ask(c) ==
    /\ req' = [req EXCEPT ![c] = "queued"]
    /\ UNCHANGED <<sleep, suspended, throttles, throttled, owed>>

Acquire(c) ==
    /\ req[c] = "queued" /\ Cardinality(Permits) < MAX_IN_FLIGHT
    /\ req' = [req EXCEPT ![c] = "waiting"]
    /\ UNCHANGED <<sleep, suspended, throttles, throttled, owed>>

\* wait_out_suspension: look again after every sleep, since another request
\* may have extended the suspension; then fire.
WaitOut(c) ==
    /\ req[c] = "waiting" \/ (req[c] = "sleeping" /\ sleep[c] = 0)
    /\ IF suspended > 0
       THEN req' = [req EXCEPT ![c] = "sleeping"] /\ sleep' = [sleep EXCEPT ![c] = suspended]
       ELSE req' = [req EXCEPT ![c] = "flying"] /\ UNCHANGED sleep
    /\ UNCHANGED <<suspended, throttles, throttled, owed>>

\* backoff_for: the server's delay within bounds, or an escalating guess.
BackoffFor(hint) ==
    IF hint # NoHint
    THEN Max({BackoffBase, Min({hint, MaxServerBackoff})})
    ELSE Min({BackoffBase * 2 ^ Min({throttles, 5}), MaxDefaultBackoff})

SuspendAnew(backoff) == backoff

\* suspend_for: the longer of the two deadlines wins.
SuspendFor(backoff) == Max({suspended, backoff})

\* An answer: the permit is released as request_binary returns.
Release(c) == req' = [req EXCEPT ![c] = "none"] /\ UNCHANGED sleep

AnswerOk(c) ==
    /\ req[c] = "flying"
    /\ Release(c)
    /\ throttles' = 0
    /\ UNCHANGED <<suspended, throttled, owed>>

\* A network error, or a status that is neither 2xx nor a throttle.
AnswerFailed(c) ==
    /\ req[c] = "flying"
    /\ Release(c)
    /\ UNCHANGED <<suspended, throttles, throttled, owed>>

\* 429 or 503.  The suspension is armed, and the permit given back, before the
\* answer is returned.  The lock awaited in between is only ever held to read or
\* to write the deadline, so the answer counts as received when it is armed.
AnswerThrottled(c, hint) ==
    /\ req[c] = "flying" /\ throttled < MaxThrottles
    /\ Release(c)
    /\ throttled' = throttled + 1
    /\ suspended' = SuspendFor(BackoffFor(hint))
    /\ throttles' = IF hint # NoHint THEN 0 ELSE throttles + 1
    /\ owed' = Max({owed, BackoffFor(hint)})

Less(n) == IF n = 0 THEN 0 ELSE n - 1

\* Time passes.
Tick ==
    /\ suspended > 0 \/ \E c \in Callers : sleep[c] > 0
    /\ suspended' = Less(suspended) /\ owed' = Less(owed)
    /\ sleep' = [c \in Callers |-> Less(sleep[c])]
    /\ UNCHANGED <<req, throttles, throttled>>

GovTypeOK ==
    /\ req \in [Callers -> {"none", "queued", "waiting", "sleeping", "flying"}]
    /\ sleep \in [Callers -> 0..Max({MaxServerBackoff, MaxDefaultBackoff})]
    /\ suspended \in 0..Max({MaxServerBackoff, MaxDefaultBackoff})
    /\ throttles \in 0..MaxThrottles /\ throttled \in 0..MaxThrottles

\* No request goes out before every pause an earlier answer asked for is
\* over, however the answers and the sleeps of the waiting requests overlap
\* (governed_client.rs:72, 96).
SuspensionHonoured ==
    [][\A c \in Callers : req[c] # "flying" /\ req'[c] = "flying" => owed = 0]_govVars
=============================================================================
