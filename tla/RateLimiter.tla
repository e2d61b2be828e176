---------------------------- MODULE RateLimiter ----------------------------
(***************************************************************************)
(* The per-stream token buckets of src/fanout/mod.rs, as the consumer task *)
(* of a node uses them: one check per NATS message, all under one mutex.   *)
(*                                                                         *)
(* Time is counted in ticks, One ticks to the second, and tokens in units  *)
(* of 1/One: a tick refills rps units and a message costs One of them, so  *)
(* the fractions the code keeps in an f64 are whole numbers here.          *)
(***************************************************************************)
EXTENDS Integers

CONSTANTS
    Streams,        \* stream names
    DefaultRps,     \* stream_rate_limit_rps, 0 for none
    DefaultBurst,   \* stream_rate_limit_burst, 0 for twice the rate
    Overrides,      \* parsed stream_rate_overrides: stream -> [rps, burst]
    One,            \* ticks in a second
    MaxTime         \* bound on the clock

ASSUME RateAssumption ==
    /\ DefaultRps \in Nat /\ DefaultBurst \in Nat /\ One \in Nat \ {0} /\ MaxTime \in Nat
    /\ DOMAIN Overrides \subseteq Streams
    /\ \A s \in DOMAIN Overrides : Overrides[s].rps \in Nat /\ Overrides[s].burst \in Nat

VARIABLES
    now,                \* Instant::now(), in ticks
    made,               \* streams with a bucket: created by their first message
    tokens, last,       \* tokens[s], last[s]: the bucket and its last_refill
    \* history: one window of time for each stream, and its latest decisions
    winStart, winCount, \* where the window begins and what it has let through
    lastPass, lastDrop  \* when a message was let through and when one was dropped

buckets == <<made, tokens, last>>
history == <<winStart, winCount, lastPass, lastDrop>>
rateVars == <<now, made, tokens, last, winStart, winCount, lastPass, lastDrop>>

Never == -1

\* StreamRateLimiter::new: a burst of 0 stands for twice the rate, at least 1.
EffBurst(rps, burst) ==
    IF burst # 0 THEN burst ELSE IF rps = 0 THEN 1 ELSE 2 * rps

\* What check uses for a stream.
Rps(s) == IF s \in DOMAIN Overrides THEN Overrides[s].rps ELSE DefaultRps
Burst(s) == IF s \in DOMAIN Overrides
            THEN EffBurst(Overrides[s].rps, Overrides[s].burst)
            ELSE EffBurst(DefaultRps, DefaultBurst)
Cap(s) == Burst(s) * One

\* build_rate_limiter: without any rate the consumer has no limiter.
IsDisabled ==
    DefaultRps = 0 /\ \A s \in DOMAIN Overrides : Overrides[s].rps = 0

Limited(s) == ~IsDisabled /\ Rps(s) # 0

RateTypeOK ==
    /\ now \in Nat /\ made \subseteq Streams
    /\ tokens \in [Streams -> Nat] /\ last \in [Streams -> Nat]
    /\ winStart \in [Streams -> Nat] /\ winCount \in [Streams -> Nat]
    /\ lastPass \in [Streams -> Nat \cup {Never}]
    /\ lastDrop \in [Streams -> Nat \cup {Never}]

RateInit ==
    /\ now = 0
    /\ made = {}
    /\ tokens = [s \in Streams |-> 0] /\ last = [s \in Streams |-> 0]
    /\ winStart = [s \in Streams |-> 0] /\ winCount = [s \in Streams |-> 0]
    /\ lastPass = [s \in Streams |-> Never] /\ lastDrop = [s \in Streams |-> Never]

-----------------------------------------------------------------------------
(* BucketState *)

Least(a, b) == IF a <= b THEN a ELSE b

RefillUncapped(s) == tokens[s] + (now - last[s]) * Rps(s)

\* try_consume adds what the time since last_refill is worth, up to the burst.
Refill(s) == Least(tokens[s] + (now - last[s]) * Rps(s), Cap(s))

\* A bucket starts full.
Available(s) == IF s \in made THEN Refill(s) ELSE Cap(s)

Passes(s) == ~Limited(s) \/ Available(s) >= One

KeepOnlyIfPassed(s) == IF Available(s) >= One THEN Available(s) - One ELSE tokens[s]

\* A message that does not pass leaves what was refilled.
LeftOver(s) == IF Available(s) >= One THEN Available(s) - One ELSE Available(s)

\* check, on a stream with a limit.
CheckBucket(s) ==
    /\ Limited(s)
    /\ made' = made \cup {s}
    /\ tokens' = [tokens EXCEPT ![s] = LeftOver(s)]
    /\ last' = [last EXCEPT ![s] = now]
    /\ IF Passes(s)
       THEN /\ winCount' = [winCount EXCEPT ![s] = @ + 1]
            /\ lastPass' = [lastPass EXCEPT ![s] = now]
            /\ UNCHANGED lastDrop
       ELSE /\ lastDrop' = [lastDrop EXCEPT ![s] = now]
            /\ UNCHANGED <<winCount, lastPass>>
    /\ UNCHANGED <<now, winStart>>

\* check, on a stream without one: the map is not touched.
CheckFree(s) == ~Limited(s) /\ UNCHANGED rateVars

Tick == now < MaxTime /\ now' = now + 1 /\ UNCHANGED <<buckets, history>>

\* Another window to count in begins.
OpenWindow(s) ==
    /\ winStart' = [winStart EXCEPT ![s] = now]
    /\ winCount' = [winCount EXCEPT ![s] = 0]
    /\ UNCHANGED <<now, buckets, lastPass, lastDrop>>

\* Another process, with no bucket: its windows begin with it.
FreshLimiter ==
    /\ made' = {}
    /\ winStart' = [s \in Streams |-> now]
    /\ winCount' = [s \in Streams |-> 0]
    /\ lastPass' = [s \in Streams |-> Never]
    /\ lastDrop' = [s \in Streams |-> Never]
    /\ UNCHANGED <<now, tokens, last>>

RateNext ==
    \/ Tick \/ FreshLimiter
    \/ \E s \in Streams : CheckBucket(s) \/ CheckFree(s) \/ OpenWindow(s)

RateSpec == RateInit /\ [][RateNext]_rateVars

-----------------------------------------------------------------------------
(* Properties *)

\* In no window of time, wherever it begins, do more messages of a stream pass
\* than its burst and what its rate is worth over the window: refused messages,
\* idle time and the creation of the bucket never add up to more (check).
WithinRate ==
    \A s \in Streams : Limited(s) =>
        winCount[s] * One <= Cap(s) + (now - winStart[s]) * Rps(s)

\* A message is dropped only if one passed less than 1/rps before: a stream
\* that keeps to its rate loses nothing, and one that is flooded still gets its
\* rate through, since refused messages do not use up the refill (try_consume).
QuietPasses ==
    \A s \in Streams : Limited(s) /\ lastDrop[s] # Never =>
        /\ lastPass[s] # Never
        /\ lastPass[s] <= lastDrop[s] =>
             (lastDrop[s] - lastPass[s]) * Rps(s) < One

\* The inductive invariant: what a bucket holds is at least what its last pass
\* is worth by now, and at most what the window has not used.
BucketOK(s) ==
    /\ last[s] <= now /\ winStart[s] <= now
    /\ s \notin made => winCount[s] = 0 /\ lastDrop[s] = Never
    /\ s \in made =>
        /\ tokens[s] <= Cap(s)
        /\ lastPass[s] # Never /\ lastPass[s] <= last[s] /\ lastDrop[s] <= last[s]
        /\ (last[s] - lastPass[s]) * Rps(s) <= tokens[s]
        /\ last[s] < winStart[s] => winCount[s] = 0
        /\ last[s] >= winStart[s] =>
             winCount[s] * One + tokens[s] <= Cap(s) + (last[s] - winStart[s]) * Rps(s)

RateInv ==
    /\ RateTypeOK
    /\ \A s \in Streams : Limited(s) => BucketOK(s)
    /\ WithinRate /\ QuietPasses
=============================================================================
