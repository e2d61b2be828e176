-------------------------- MODULE RateLimiterProofs --------------------------
(***************************************************************************)
(* Proofs about RateLimiter, for every rate, burst, set of overrides and   *)
(* resolution of the clock.                                                *)
(***************************************************************************)
EXTENDS RateLimiter, TLAPS

-----------------------------------------------------------------------------
(* Arithmetic *)

\* What a span of time is worth adds up.
LEMMA SpanAdds ==
    ASSUME NEW a \in Int, NEW b \in Int, NEW c \in Int, NEW r \in Nat, a <= b, b <= c
    PROVE  /\ (b - a) * r \in Nat /\ (c - b) * r \in Nat
           /\ (c - a) * r = (c - b) * r + (b - a) * r
  <1>1. (b - a) * r \in Nat /\ (c - b) * r \in Nat
    OBVIOUS
  <1>2. (c - a) * r = (c - b) * r + (b - a) * r
    OBVIOUS
  <1> QED
    BY <1>1, <1>2

\* The cost of one more message.
LEMMA OneMore ==
    ASSUME NEW n \in Nat, NEW one \in Nat
    PROVE  (n + 1) * one = n * one + one /\ n * one \in Nat
  OBVIOUS

\* The rate of a stream with a limit is positive, and its burst lets through
\* at least one message.
LEMMA LimitedTypes ==
    ASSUME NEW s \in Streams, Limited(s)
    PROVE  Rps(s) \in Nat \ {0} /\ Cap(s) \in Nat /\ Cap(s) >= One /\ One \in Nat \ {0}
  <1>1. Rps(s) \in Nat \ {0} /\ One \in Nat \ {0}
    BY RateAssumption DEF Limited, Rps
  <1>2. Burst(s) \in Nat \ {0}
    BY RateAssumption, <1>1 DEF Burst, EffBurst, Rps
  <1>3. ASSUME NEW b \in Nat \ {0}, NEW one \in Nat \ {0}
        PROVE  b * one \in Nat /\ b * one >= one
    BY <1>3
  <1> QED
    BY <1>1, <1>2, <1>3 DEF Cap

-----------------------------------------------------------------------------
(* Steps *)

\* The bound on a window follows from what is said of the bucket.
LEMMA WindowBound ==
    ASSUME RateTypeOK, NEW s \in Streams, Limited(s), BucketOK(s)
    PROVE  winCount[s] * One <= Cap(s) + (now - winStart[s]) * Rps(s)
  <1>0. /\ winCount[s] \in Nat /\ tokens[s] \in Nat /\ last[s] \in Nat
        /\ winStart[s] \in Nat /\ now \in Nat
    BY DEF RateTypeOK
  <1>1. /\ Rps(s) \in Nat /\ Cap(s) \in Nat /\ One \in Nat
        /\ winCount[s] * One \in Nat
    BY <1>0, LimitedTypes, OneMore
  <1>2. (now - winStart[s]) * Rps(s) \in Nat
    BY <1>0, <1>1, SpanAdds DEF BucketOK
  <1>3. CASE winCount[s] = 0
    <2>1. 0 * One = 0
      BY <1>1
    <2> QED
      BY <1>1, <1>2, <1>3, <2>1
  <1>4. CASE winCount[s] # 0
    <2>1. /\ last[s] >= winStart[s] /\ last[s] <= now
          /\ winCount[s] * One + tokens[s] <= Cap(s) + (last[s] - winStart[s]) * Rps(s)
      BY <1>0, <1>4 DEF BucketOK
    <2>2. /\ (last[s] - winStart[s]) * Rps(s) \in Nat /\ (now - last[s]) * Rps(s) \in Nat
          /\ (now - winStart[s]) * Rps(s)
               = (now - last[s]) * Rps(s) + (last[s] - winStart[s]) * Rps(s)
      BY <1>0, <1>1, <2>1, SpanAdds
    <2> QED
      BY <1>0, <1>1, <2>1, <2>2
  <1> QED
    BY <1>3, <1>4

\* What try_consume finds in the bucket.
LEMMA AvailableBounds ==
    ASSUME RateTypeOK, NEW s \in Streams, Limited(s), BucketOK(s)
    PROVE  /\ Available(s) \in Nat /\ Available(s) <= Cap(s)
           /\ s \in made =>
                /\ (now - last[s]) * Rps(s) \in Nat
                /\ Available(s) <= tokens[s] + (now - last[s]) * Rps(s)
                /\ Available(s) < Cap(s) =>
                     Available(s) = tokens[s] + (now - last[s]) * Rps(s)
           /\ s \notin made => Available(s) = Cap(s)
  <1>0. tokens[s] \in Nat /\ last[s] \in Nat /\ now \in Nat /\ last[s] <= now
    BY DEF RateTypeOK, BucketOK
  <1>1. Rps(s) \in Nat /\ Cap(s) \in Nat
    BY LimitedTypes
  <1>2. (now - last[s]) * Rps(s) \in Nat
    BY <1>0, <1>1, SpanAdds
  <1> QED
    BY <1>0, <1>1, <1>2 DEF Available, Refill, Least

\* RateInv without WithinRate, which follows from the rest of it.
BucketInv ==
    RateTypeOK /\ QuietPasses /\ \A s \in Streams : Limited(s) => BucketOK(s)

\* check on a stream: its bucket stays consistent, and a message is refused
\* only when one passed less than 1/rps before.
LEMMA CheckedBucket ==
    ASSUME BucketInv, NEW s \in Streams, CheckBucket(s)
    PROVE  /\ RateTypeOK' /\ BucketOK(s)'
           /\ lastDrop'[s] # Never => lastPass'[s] # Never
           /\ lastDrop'[s] # Never /\ lastPass'[s] <= lastDrop'[s] =>
                (lastDrop'[s] - lastPass'[s]) * Rps(s) < One
  <1> DEFINE r == Rps(s)
             avail == Available(s)
  <1>0. RateTypeOK /\ Limited(s) /\ BucketOK(s)
    BY DEF BucketInv, CheckBucket
  <1>1. /\ r \in Nat \ {0} /\ Cap(s) \in Nat /\ Cap(s) >= One /\ One \in Nat \ {0}
    BY <1>0, LimitedTypes
  <1>2. /\ avail \in Nat /\ avail <= Cap(s)
        /\ s \in made =>
             /\ (now - last[s]) * r \in Nat
             /\ avail <= tokens[s] + (now - last[s]) * r
             /\ avail < Cap(s) => avail = tokens[s] + (now - last[s]) * r
        /\ s \notin made => avail = Cap(s)
    BY <1>0, AvailableBounds
  <1>3. /\ now \in Nat /\ tokens[s] \in Nat /\ last[s] \in Nat /\ winStart[s] \in Nat
        /\ winCount[s] \in Nat /\ lastPass[s] \in Int /\ lastDrop[s] \in Int
        /\ last[s] <= now /\ winStart[s] <= now
    BY <1>0 DEF RateTypeOK, BucketOK, Never
  <1>4. /\ made' = made \cup {s} /\ last'[s] = now /\ now' = now
        /\ winStart' = winStart /\ tokens'[s] = LeftOver(s)
    BY <1>0 DEF CheckBucket, RateTypeOK
  <1>5. (now - now) * r = 0 /\ (now - winStart[s]) * r \in Nat
    <2>1. now - now = 0 /\ 0 * r = 0
      BY <1>1, <1>3
    <2> QED
      BY <1>1, <1>3, <2>1, SpanAdds
  <1>6. /\ (winCount[s] + 1) * One = winCount[s] * One + One
        /\ winCount[s] * One \in Nat /\ 0 * One = 0
    BY <1>1, <1>3, OneMore
  <1>7. s \in made /\ last[s] >= winStart[s] =>
            (now - winStart[s]) * r = (now - last[s]) * r + (last[s] - winStart[s]) * r
            /\ (last[s] - winStart[s]) * r \in Nat
    BY <1>1, <1>3, SpanAdds
  <1>8. CASE Passes(s)
    <2>1. avail >= One /\ LeftOver(s) = avail - One
      BY <1>0, <1>8 DEF Passes, LeftOver
    <2>2. /\ winCount' = [winCount EXCEPT ![s] = @ + 1]
          /\ lastPass' = [lastPass EXCEPT ![s] = now] /\ lastDrop' = lastDrop
      BY <1>8 DEF CheckBucket
    <2>3. RateTypeOK'
      <3>1. LeftOver(s) \in Nat
        BY <1>1, <1>2, <2>1
      <3> QED
        BY <1>0, <1>3, <2>2, <3>1 DEF RateTypeOK, CheckBucket, Never
    <2>4. winCount'[s] = winCount[s] + 1 /\ lastPass'[s] = now /\ lastDrop'[s] = lastDrop[s]
      BY <1>0, <2>2 DEF RateTypeOK
    <2>5. lastDrop[s] <= now
      BY <1>0, <1>3 DEF BucketOK, Never
    <2>6. (winCount[s] + 1) * One + (avail - One) <= Cap(s) + (now - winStart[s]) * r
      <3>1. CASE winCount[s] = 0
        BY <1>1, <1>2, <1>5, <1>6, <3>1
      <3>2. CASE winCount[s] # 0
        <4>1. /\ s \in made /\ last[s] >= winStart[s]
              /\ winCount[s] * One + tokens[s] <= Cap(s) + (last[s] - winStart[s]) * r
          BY <1>0, <1>3, <3>2 DEF BucketOK
        <4> QED
          BY <1>1, <1>2, <1>3, <1>6, <1>7, <4>1
      <3> QED
        BY <3>1, <3>2
    <2>7. BucketOK(s)'
      <3>1. Cap(s)' = Cap(s) /\ Rps(s)' = Rps(s)
        BY DEF Cap, Rps
      <3>2. tokens'[s] = avail - One /\ avail - One \in Nat /\ avail - One <= Cap(s)
        BY <1>1, <1>2, <1>4, <2>1
      <3>3. lastPass'[s] # Never /\ lastPass'[s] <= last'[s] /\ lastDrop'[s] <= last'[s]
        BY <1>3, <1>4, <2>4, <2>5 DEF Never
      <3>4. (last'[s] - lastPass'[s]) * r <= tokens'[s]
        BY <1>4, <1>5, <2>4, <3>2
      <3>5. winCount'[s] * One + tokens'[s] <= Cap(s) + (last'[s] - winStart'[s]) * r
        BY <1>4, <2>4, <2>6, <3>2
      <3> QED
        BY <1>3, <1>4, <3>1, <3>2, <3>3, <3>4, <3>5 DEF BucketOK
    <2>8. lastDrop'[s] # Never /\ lastPass'[s] <= lastDrop'[s] =>
              (lastDrop'[s] - lastPass'[s]) * r < One
      <3>1. lastPass'[s] <= lastDrop'[s] => lastDrop'[s] - lastPass'[s] = now - now
        BY <1>3, <2>4, <2>5
      <3> QED
        BY <1>1, <1>5, <3>1
    <2> QED
      BY <1>3, <2>3, <2>4, <2>7, <2>8 DEF Never
  <1>9. CASE ~Passes(s)
    <2>1. avail < One /\ LeftOver(s) = avail
      BY <1>0, <1>1, <1>2, <1>9 DEF Passes, LeftOver
    <2>2. /\ winCount' = winCount /\ lastPass' = lastPass
          /\ lastDrop' = [lastDrop EXCEPT ![s] = now]
      BY <1>9 DEF CheckBucket
    <2>3. s \in made /\ avail = tokens[s] + (now - last[s]) * r
      BY <1>1, <1>2, <2>1
    <2>4. RateTypeOK'
      BY <1>0, <1>2, <1>3, <2>1, <2>2 DEF RateTypeOK, CheckBucket, Never
    <2>5. lastDrop'[s] = now
      BY <1>0, <2>2 DEF RateTypeOK
    <2>6. /\ lastPass[s] # Never /\ lastPass[s] <= last[s]
          /\ (last[s] - lastPass[s]) * r <= tokens[s]
      BY <1>0, <2>3 DEF BucketOK
    <2>7. (now - lastPass[s]) * r <= avail
      <3>1. /\ (now - lastPass[s]) * r = (now - last[s]) * r + (last[s] - lastPass[s]) * r
            /\ (last[s] - lastPass[s]) * r \in Nat /\ (now - last[s]) * r \in Nat
        BY <1>1, <1>3, <2>6, SpanAdds
      <3> QED
        BY <1>3, <2>3, <2>6, <3>1
    <2>8. winCount[s] * One + avail <= Cap(s) + (now - winStart[s]) * r
      <3>1. CASE winCount[s] = 0
        BY <1>1, <1>2, <1>5, <1>6, <3>1
      <3>2. CASE winCount[s] # 0
        <4>1. /\ last[s] >= winStart[s]
              /\ winCount[s] * One + tokens[s] <= Cap(s) + (last[s] - winStart[s]) * r
          BY <1>0, <1>3, <2>3, <3>2 DEF BucketOK
        <4> QED
          BY <1>1, <1>2, <1>3, <1>6, <1>7, <2>3, <4>1
      <3> QED
        BY <3>1, <3>2
    <2>9. BucketOK(s)'
      <3>1. Cap(s)' = Cap(s) /\ Rps(s)' = Rps(s)
        BY DEF Cap, Rps
      <3>2. lastPass'[s] # Never /\ lastPass'[s] <= last'[s] /\ lastDrop'[s] <= last'[s]
        BY <1>3, <1>4, <2>2, <2>5, <2>6
      <3>3. (last'[s] - lastPass'[s]) * r <= tokens'[s]
        BY <1>4, <2>1, <2>2, <2>7
      <3>4. winCount'[s] * One + tokens'[s] <= Cap(s) + (last'[s] - winStart'[s]) * r
        BY <1>4, <2>1, <2>2, <2>8
      <3> QED
        BY <1>2, <1>3, <1>4, <2>1, <3>1, <3>2, <3>3, <3>4 DEF BucketOK
    <2>10. (lastDrop'[s] - lastPass'[s]) * r < One
      <3>1. (now - lastPass[s]) * r \in Nat
        BY <1>1, <1>3, <2>6, SpanAdds
      <3> QED
        BY <1>1, <1>2, <2>1, <2>2, <2>5, <2>7, <3>1
    <2> QED
      BY <2>2, <2>4, <2>6, <2>9, <2>10
  <1> QED
    BY <1>8, <1>9

\* A check touches one bucket.
LEMMA CheckBucketInv ==
    ASSUME BucketInv, NEW s \in Streams, CheckBucket(s) PROVE BucketInv'
  <1>1. ASSUME NEW t \in Streams, t # s
        PROVE  /\ tokens'[t] = tokens[t] /\ last'[t] = last[t] /\ (t \in made' <=> t \in made)
               /\ winStart'[t] = winStart[t] /\ winCount'[t] = winCount[t]
               /\ lastPass'[t] = lastPass[t] /\ lastDrop'[t] = lastDrop[t] /\ now' = now
    BY <1>1 DEF CheckBucket, BucketInv, RateTypeOK
  <1>2. ASSUME NEW t \in Streams, Limited(t) PROVE BucketOK(t)'
    <2>1. CASE t = s
      BY <2>1, CheckedBucket
    <2>2. CASE t # s
      BY <1>1, <1>2, <2>2 DEF BucketInv, BucketOK
    <2> QED
      BY <2>1, <2>2
  <1>3. ASSUME NEW t \in Streams, Limited(t), lastDrop'[t] # Never
        PROVE  /\ lastPass'[t] # Never
               /\ lastPass'[t] <= lastDrop'[t] =>
                    (lastDrop'[t] - lastPass'[t]) * Rps(t) < One
    <2>1. CASE t = s
      BY <1>3, <2>1, CheckedBucket
    <2>2. CASE t # s
      BY <1>1, <1>3, <2>2 DEF BucketInv, QuietPasses
    <2> QED
      BY <2>1, <2>2
  <1> QED
    BY <1>2, <1>3, CheckedBucket DEF BucketInv, QuietPasses

\* A window that opens now has let nothing through, and every bucket that was
\* touched now is within its burst.
LEMMA OpenWindowInv ==
    ASSUME BucketInv, NEW s \in Streams, OpenWindow(s) PROVE BucketInv'
  <1> USE DEF OpenWindow, buckets
  <1>1. RateTypeOK'
    BY DEF BucketInv, RateTypeOK
  <1>2. QuietPasses'
    BY DEF BucketInv, QuietPasses
  <1>3. ASSUME NEW t \in Streams, Limited(t) PROVE BucketOK(t)'
    <2>0. /\ BucketOK(t) /\ last[t] \in Nat /\ now \in Nat /\ winCount[t] \in Nat
          /\ tokens[t] \in Nat /\ Rps(t) \in Nat /\ Cap(t) \in Nat /\ One \in Nat
      BY <1>3, LimitedTypes DEF BucketInv, RateTypeOK
    <2>1. CASE t # s
      <3>1. winStart'[t] = winStart[t] /\ winCount'[t] = winCount[t]
        BY <2>1 DEF BucketInv, RateTypeOK
      <3> QED
        BY <2>0, <3>1 DEF BucketOK
    <2>2. CASE t = s
      <3>1. winStart'[t] = now /\ winCount'[t] = 0
        BY <2>2 DEF BucketInv, RateTypeOK
      <3>2. t \in made => 0 * One + tokens[t] <= Cap(t) + (now - now) * Rps(t)
        <4>1. 0 * One = 0 /\ now - now = 0 /\ 0 * Rps(t) = 0
          BY <2>0
        <4> QED
          BY <2>0, <4>1 DEF BucketOK
      <3>3. last[t] >= now => last[t] = now
        BY <2>0 DEF BucketOK
      <3>4. now' = now /\ tokens' = tokens /\ last' = last /\ made' = made
            /\ lastPass' = lastPass /\ lastDrop' = lastDrop /\ now <= now
        BY <2>0
      <3>5. t \in made /\ last[t] >= winStart'[t] =>
                winCount'[t] * One + tokens[t] <= Cap(t) + (last[t] - winStart'[t]) * Rps(t)
        BY <3>1, <3>2, <3>3
      <3> QED
        BY <2>0, <3>1, <3>4, <3>5, Zenon DEF BucketOK
    <2> QED
      BY <2>1, <2>2
  <1> QED
    BY <1>1, <1>2, <1>3 DEF BucketInv

-----------------------------------------------------------------------------
(* Theorems *)

\* The buckets' invariant holds in every reachable state: for any rate, burst
\* and clock, a bucket accounts for what passed and for what was refused.
THEOREM RateInvariance == RateSpec => []RateInv
  <1>1. RateInit => BucketInv
    <2> SUFFICES ASSUME RateInit PROVE BucketInv
      OBVIOUS
    <2>1. RateTypeOK
      BY DEF RateInit, RateTypeOK
    <2>2. ASSUME NEW s \in Streams PROVE BucketOK(s)
      <3>1. /\ last[s] = 0 /\ winStart[s] = 0 /\ now = 0 /\ s \notin made
            /\ winCount[s] = 0 /\ lastDrop[s] = Never
        BY DEF RateInit
      <3>2. 0 <= 0
        OBVIOUS
      <3> QED
        BY <3>1, <3>2, Zenon DEF BucketOK
    <2>3. QuietPasses
      BY DEF RateInit, QuietPasses
    <2> QED
      BY <2>1, <2>2, <2>3 DEF BucketInv
  <1>2. BucketInv /\ [RateNext]_rateVars => BucketInv'
    <2> SUFFICES ASSUME BucketInv, [RateNext]_rateVars PROVE BucketInv'
      OBVIOUS
    <2>1. CASE Tick
      <3>1. RateTypeOK' /\ QuietPasses'
        BY <2>1 DEF Tick, buckets, history, BucketInv, RateTypeOK, QuietPasses
      <3>2. ASSUME NEW s \in Streams, Limited(s) PROVE BucketOK(s)'
        BY <2>1, <3>2 DEF Tick, buckets, history, BucketInv, RateTypeOK, BucketOK
      <3> QED
        BY <3>1, <3>2 DEF BucketInv
    <2>2. CASE FreshLimiter
      BY <2>2 DEF FreshLimiter, BucketInv, RateTypeOK, BucketOK, QuietPasses, Never
    <2>3. CASE UNCHANGED rateVars
      BY <2>3 DEF rateVars, BucketInv, RateTypeOK, BucketOK, QuietPasses
    <2> QED
      BY <2>1, <2>2, <2>3, CheckBucketInv, OpenWindowInv DEF RateNext, CheckFree
  <1>3. BucketInv => RateInv
    BY WindowBound DEF BucketInv, RateInv, WithinRate
  <1> QED
    BY <1>1, <1>2, <1>3, PTL DEF RateSpec

\* No window of time lets through more than the burst and the rate allow.
THEOREM RateKept == RateSpec => []WithinRate
  <1>1. RateInv => WithinRate
    BY DEF RateInv
  <1> QED
    BY <1>1, RateInvariance, PTL

\* A stream that keeps to its rate loses nothing.
THEOREM QuietStreamPasses == RateSpec => []QuietPasses
  <1>1. RateInv => QuietPasses
    BY DEF RateInv
  <1> QED
    BY <1>1, RateInvariance, PTL
=============================================================================
