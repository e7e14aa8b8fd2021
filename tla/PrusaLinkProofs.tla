-------------------------- MODULE PrusaLinkProofs ---------------------------
(***************************************************************************)
(* Proofs about PrusaLink, for every admitted interval, cap, bound of      *)
(* staleness and latency.  PollInv is the inductive invariant; SpacingInv  *)
(* is a second one, of the records that a source appends.                  *)
(***************************************************************************)
EXTENDS PrusaLink, TLAPS

\* What __init__ fixes: an accepted configuration, without which no worker runs.
ConfigInv ==
    /\ Accepted(config.offer)
    /\ phase # "none" => Enabled(config.offer)

\* The silence of a worker that nobody has told to stop, phase by phase.
QuietInv == Alive /\ ~stop =>
    CASE phase = "loop" -> quiet <= MaxRetry
      [] phase = "wait" -> quiet + wait <= MaxRetry
      [] OTHER -> quiet <= MaxRetry + latency

\* The age of the shown data follows the age that snapshots report, one
\* request behind.
AgeInv ==
    /\ goodAge # None => dataAge # None /\ dataAge <= goodAge + MaxLatency
    /\ sourceState = "healthy" => goodAge # None /\ lastGood

PollInv == TypeOK /\ ConfigInv /\ QuietInv /\ AgeInv
-----------------------------------------------------------------------------
\* The powers of the backoff are numbers, and none is zero.
LEMMA PowerPositive ==
    ASSUME NEW n \in 0..MaxExponent
    PROVE  2 ^ n \in Nat \ {0}
<1>. DEFINE Power(k) == 2 ^ k \in Nat \ {0}
<1>1. /\ Power(0) /\ Power(1) /\ Power(2) /\ Power(3) /\ Power(4) /\ Power(5)
      /\ Power(6) /\ Power(7) /\ Power(8) /\ Power(9) /\ Power(10)
    OBVIOUS
<1>2. n \in {0, 1, 2, 3, 4, 5, 6, 7, 8, 9, 10}
    BY DEF MaxExponent
<1>3. Power(n)
    <2>. HIDE DEF Power
    <2>. QED  BY <1>1, <1>2, Zenon
<1>. QED  BY <1>3

\* The delay before the next attempt never exceeds the cap, however many
\* attempts in a row have failed (retry_delay_seconds).
LEMMA RetryBounded ==
    ASSUME NEW o \in Offers, Accepted(o), Enabled(o),
           NEW n \in 0..(MaxExponent + 1)
    PROVE  RetryDelay(o, n) \in 0..MaxRetry
<1>1. o.interval \in 0..MaxRetry /\ MaxRetry \in Nat
    BY PollConstants DEF Accepted
<1>2. CASE n = 0
    BY <1>1, <1>2 DEF RetryDelay
<1>3. CASE n # 0
    <2>1. SmallerOf(n - 1, MaxExponent) \in 0..MaxExponent
        BY <1>3 DEF SmallerOf, MaxExponent
    <2>2. 2 ^ SmallerOf(n - 1, MaxExponent) \in Nat
        BY <2>1, PowerPositive
    <2>3. PICK power \in Nat : power = 2 ^ SmallerOf(n - 1, MaxExponent)
        BY <2>2
    <2>4. RetryDelay(o, n) = SmallerOf(MaxRetry, o.interval * power)
        BY <1>3, <2>3 DEF RetryDelay
    <2>5. o.interval * power \in Nat
        BY <1>1
    <2>6. SmallerOf(MaxRetry, o.interval * power) \in 0..MaxRetry
        BY <1>1, <2>5 DEF SmallerOf
    <2>. QED  BY <2>4, <2>6
<1>. QED  BY <1>2, <1>3

\* An age grows by one, up to its bound.
LEMMA OlderBounds ==
    ASSUME NEW age \in (0..AgeBound) \union {None}
    PROVE  /\ Older(age) \in (0..AgeBound) \union {None}
           /\ Older(age) = None <=> age = None
           /\ age # None => \/ Older(age) = age + 1 /\ age + 1 <= AgeBound
                            \/ Older(age) = AgeBound /\ AgeBound <= age + 1
<1>1. AgeBound \in Nat
    BY PollConstants DEF AgeBound
<1>2. None \notin Nat
    BY PollConstants
<1>3. CASE age = None
    BY <1>3 DEF Older
<1>4. CASE age # None
    <2>1. age \in Nat /\ age <= AgeBound
        BY <1>1, <1>4
    <2>2. Older(age) = SmallerOf(age + 1, AgeBound)
        BY <1>4 DEF Older
    <2>. QED  BY <1>1, <1>2, <1>4, <2>1, <2>2 DEF SmallerOf
<1>. QED  BY <1>3, <1>4

\* What a poll makes of its request is a state of a failure, or healthy.
LEMMA StatesOfPolls ==
    /\ None \notin FailedStates \union {"healthy"}
    /\ \A r \in DOMAIN StateOf : StateOf[r] \in FailedStates \union {"healthy"}
<1>1. "healthy" \in {StateOf[r] : r \in DOMAIN StateOf}
    BY DEF StateOf
<1>. QED  BY <1>1, PollConstants DEF FailedStates

\* The bounds are numbers, and no age is their None.
LEMMA BoundsNat ==
    /\ MaxRetry \in Nat /\ MaxLatency \in Nat /\ MaxStale \in Nat
    /\ AgeBound \in Nat /\ AgeBound = MaxStale + MaxLatency + 1
    /\ QuietBound \in Nat /\ QuietBound = MaxRetry + MaxLatency + 1
    /\ None \notin Nat
    BY PollConstants DEF AgeBound, QuietBound

\* The initial states satisfy the inductive invariant.
LEMMA PollInit == Init => PollInv
<1>. SUFFICES ASSUME Init PROVE PollInv
    OBVIOUS
<1>1. TypeOK
    <2>1. config \in [offer : Offers, duration : Durations]
        BY DEF Init
    <2>2. failures \in 0..(MaxExponent + 1)
        BY DEF Init, MaxExponent
    <2>3. sourceState \in {"disabled", "configured"}
        BY DEF Init
    <2>4. 0 \in 0..MaxRetry /\ 0 \in 0..MaxLatency /\ 0 \in 0..QuietBound
          /\ 0 \in 0..MaxStarts
        BY BoundsNat, PollConstants
    <2>5. /\ phase = "none" /\ stop \in BOOLEAN /\ lastGood \in BOOLEAN /\ answer = None
          /\ goodAge = None /\ dataAge = None
        BY DEF Init
    <2>6. wait = 0 /\ latency = 0 /\ quiet = 0 /\ clock = 0 /\ records = 0 /\ starts = 0
        BY DEF Init
    <2>. QED  BY <2>1, <2>2, <2>3, <2>4, <2>5, <2>6 DEF TypeOK
<1>2. ConfigInv
    BY DEF Init, ConfigInv
<1>3. QuietInv /\ AgeInv
    BY DEF Init, QuietInv, AgeInv, Alive
<1>. QED  BY <1>1, <1>2, <1>3 DEF PollInv

\* Every step keeps the inductive invariant.
LEMMA PollNext == PollInv /\ [Next]_vars => PollInv'
<1>. SUFFICES ASSUME PollInv, [Next]_vars PROVE PollInv'
    OBVIOUS
<1>. USE DEF PollInv
<1>1. CASE Start
    <2>. USE <1>1 DEF Start, Starts
    <2>1. TypeOK'
        <3>1. 0 \in 0..(MaxExponent + 1) /\ starts + 1 \in 0..MaxStarts
            BY PollConstants DEF TypeOK, MaxExponent
        <3>2. /\ phase' = "loop" /\ stop' \in BOOLEAN /\ lastGood' \in BOOLEAN
              /\ answer' = None /\ sourceState' = "connecting"
            OBVIOUS
        <3>3. /\ failures' = 0 /\ wait' = 0 /\ latency' = 0 /\ quiet' = 0
              /\ clock' = 0 /\ records' = 0 /\ starts' = starts + 1
              /\ UNCHANGED <<config, goodAge, dataAge>>
            OBVIOUS
        <3>4. 0 \in 0..MaxRetry /\ 0 \in 0..MaxLatency /\ 0 \in 0..QuietBound /\ 0 \in Nat
            BY BoundsNat
        <3>. HIDE DEF Start, Starts
        <3>. QED  BY <3>1, <3>2, <3>3, <3>4 DEF TypeOK
    <2>2. ConfigInv'
        BY DEF ConfigInv
    <2>3. QuietInv'
        BY BoundsNat DEF QuietInv
    <2>4. AgeInv'
        BY DEF AgeInv
    <2>. QED  BY <2>1, <2>2, <2>3, <2>4
<1>2. CASE RequestStop
    <2>. USE <1>2 DEF RequestStop, worker, shown, history
    <2>1. TypeOK'
        BY DEF TypeOK
    <2>2. ConfigInv' /\ QuietInv' /\ AgeInv'
        BY DEF ConfigInv, QuietInv, AgeInv
    <2>. QED  BY <2>1, <2>2
<1>3. CASE Loop
    <2>. USE <1>3 DEF Loop, shown, history
    <2>1. TypeOK'
        BY BoundsNat DEF TypeOK
    <2>2. ConfigInv' /\ AgeInv'
        BY DEF ConfigInv, AgeInv
    <2>3. QuietInv'
        BY BoundsNat DEF QuietInv, Alive, TypeOK
    <2>. QED  BY <2>1, <2>2, <2>3
<1>4. CASE Answer
    <2>. USE <1>4 DEF Answer, shown, history
    <2>1. answer' \in FailedStates \union {"healthy"} /\ answer' # None
        BY StatesOfPolls
    <2>2. TypeOK'
        BY <2>1 DEF TypeOK
    <2>3. ConfigInv' /\ AgeInv'
        BY DEF ConfigInv, AgeInv
    <2>4. QuietInv'
        BY DEF QuietInv, Alive
    <2>. QED  BY <2>2, <2>3, <2>4
<1>5. CASE Record
    <2>. USE <1>5
    <2>. DEFINE inARow == IF answer = "healthy" THEN 0
                          ELSE SmallerOf(failures + 1, MaxExponent + 1)
    <2>1. answer \in FailedStates \union {"healthy"}
        BY DEF Record, TypeOK
    <2>2. inARow \in 0..(MaxExponent + 1)
        BY DEF TypeOK, SmallerOf, MaxExponent
    <2>3. RetryDelay(config.offer, inARow) \in 0..MaxRetry
        <3>1. config.offer \in Offers /\ Accepted(config.offer) /\ Enabled(config.offer)
            BY DEF TypeOK, ConfigInv, Record
        <3>. HIDE DEF inARow
        <3>. QED  BY <2>2, <3>1, RetryBounded
    <2>4. failures' = inARow /\ wait' = RetryDelay(config.offer, inARow)
        BY DEF Record
    <2>. HIDE DEF inARow
    <2>5. latency \in 0..MaxLatency /\ MaxLatency <= AgeBound
        BY BoundsNat DEF TypeOK
    <2>6. TypeOK'
        BY <2>1, <2>2, <2>3, <2>4, <2>5, BoundsNat DEF Record, TypeOK, KeepsSample
    <2>7. ConfigInv'
        BY DEF ConfigInv, Record
    <2>8. QuietInv'
        BY <2>3, <2>4, BoundsNat DEF QuietInv, Record
    <2>9. AgeInv'
        <3>1. CASE answer = "healthy"
            <4>1. goodAge' = 0 /\ dataAge' = latency /\ lastGood'
                BY <3>1 DEF Record, KeepsSample
            <4>. QED  BY <2>5, <4>1, BoundsNat DEF AgeInv
        <3>2. CASE answer # "healthy"
            <4>1. goodAge' = goodAge /\ dataAge' = dataAge /\ sourceState' # "healthy"
                BY <3>2 DEF Record, KeepsSample
            <4>. QED  BY <4>1 DEF AgeInv
        <3>. QED  BY <3>1, <3>2
    <2>. QED  BY <2>6, <2>7, <2>8, <2>9
<1>6. CASE InternalError
    <2>. USE <1>6 DEF InternalError
    <2>1. TypeOK'
        <3>1. quiet' \in 0..QuietBound /\ records' \in Nat /\ latency' \in 0..MaxLatency
            BY BoundsNat DEF TypeOK
        <3>2. /\ answer' = None /\ phase' = "ended" /\ lastGood' \in BOOLEAN
              /\ sourceState' = "internal_error"
            OBVIOUS
        <3>3. UNCHANGED <<config, stop, failures, wait, goodAge, dataAge, clock, starts>>
            OBVIOUS
        <3>. HIDE DEF InternalError
        <3>. QED  BY <3>1, <3>2, <3>3 DEF TypeOK
    <2>2. ConfigInv' /\ AgeInv'
        BY DEF ConfigInv, AgeInv
    <2>3. QuietInv'
        BY DEF QuietInv, Alive
    <2>. QED  BY <2>1, <2>2, <2>3
<1>7. CASE Wake
    <2>. USE <1>7 DEF Wake, shown, history
    <2>1. TypeOK'
        BY BoundsNat DEF TypeOK
    <2>2. ConfigInv' /\ AgeInv'
        BY DEF ConfigInv, AgeInv
    <2>3. QuietInv'
        BY BoundsNat DEF QuietInv, Alive, TypeOK
    <2>. QED  BY <2>1, <2>2, <2>3
<1>8. CASE Tick
    <2>. USE <1>8
    <2>1. goodAge \in (0..AgeBound) \union {None} /\ dataAge \in (0..AgeBound) \union {None}
        BY DEF TypeOK
    <2>2. goodAge' = Older(goodAge) /\ dataAge' = Older(dataAge)
        BY DEF Tick
    <2>3. TypeOK'
        <3>1. goodAge' \in (0..AgeBound) \union {None} /\ dataAge' \in (0..AgeBound) \union {None}
            BY <2>1, <2>2, OlderBounds
        <3>2. quiet' \in 0..QuietBound
            BY BoundsNat DEF Tick, TypeOK, SmallerOf
        <3>3. latency' \in 0..MaxLatency /\ wait' \in 0..MaxRetry /\ clock' \in Nat
            BY BoundsNat DEF Tick, TypeOK
        <3>. QED  BY <3>1, <3>2, <3>3 DEF Tick, TypeOK
    <2>4. ConfigInv'
        BY DEF ConfigInv, Tick
    <2>5. QuietInv'
        <3>1. quiet' \in {quiet, quiet + 1, QuietBound} /\ quiet' <= quiet + 1
            BY BoundsNat DEF Tick, TypeOK, SmallerOf
        <3>. QED  BY <3>1, BoundsNat DEF QuietInv, Alive, Tick, TypeOK
    <2>6. AgeInv'
        <3>1. goodAge' # None => dataAge' # None /\ dataAge' <= goodAge' + MaxLatency
            <4>. SUFFICES ASSUME goodAge' # None
                          PROVE  dataAge' # None /\ dataAge' <= goodAge' + MaxLatency
                OBVIOUS
            <4>1. goodAge # None /\ dataAge # None /\ dataAge <= goodAge + MaxLatency
                BY <2>1, <2>2, OlderBounds DEF AgeInv
            <4>2. \/ goodAge' = goodAge + 1 /\ goodAge + 1 <= AgeBound
                  \/ goodAge' = AgeBound /\ AgeBound <= goodAge + 1
                BY <2>1, <2>2, <4>1, OlderBounds
            <4>3. \/ dataAge' = dataAge + 1 /\ dataAge + 1 <= AgeBound
                  \/ dataAge' = AgeBound /\ AgeBound <= dataAge + 1
                BY <2>1, <2>2, <4>1, OlderBounds
            <4>4. goodAge \in Nat /\ dataAge \in Nat /\ dataAge' # None
                BY <2>1, <2>2, <4>1, BoundsNat, OlderBounds
            <4>. QED  BY <4>1, <4>2, <4>3, <4>4, BoundsNat
        <3>2. sourceState' = "healthy" => goodAge' # None /\ lastGood'
            BY <2>1, <2>2, OlderBounds DEF AgeInv, Tick
        <3>. QED  BY <3>1, <3>2 DEF AgeInv
    <2>. QED  BY <2>3, <2>4, <2>5, <2>6
<1>9. CASE UNCHANGED vars
    <2>. USE <1>9 DEF vars, worker, shown, history
    <2>1. TypeOK'
        BY DEF TypeOK
    <2>2. ConfigInv' /\ QuietInv' /\ AgeInv'
        BY DEF ConfigInv, QuietInv, AgeInv, Alive
    <2>. QED  BY <2>1, <2>2
<1>. QED  BY <1>1, <1>2, <1>3, <1>4, <1>5, <1>6, <1>7, <1>8, <1>9 DEF Next, Work
-----------------------------------------------------------------------------
\* Every state of the source satisfies the inductive invariant.
LEMMA PollAlways == Spec => []PollInv
<1>. QED  BY PollInit, PollNext, PTL DEF Spec

\* A source is never silent for longer than the cap of its backoff and one
\* request, for every interval, cap and number of failures (_run, poll_once,
\* retry_delay_seconds).
THEOREM SilenceIsBounded == Spec => []PollerInv
<1>1. PollInv => PollerInv
    <2>. SUFFICES ASSUME PollInv, Alive, ~stop
                  PROVE  quiet <= MaxRetry + MaxLatency
        BY DEF PollInv, PollerInv, SilenceBounded
    <2>1. quiet \in Nat /\ wait \in Nat /\ latency \in Nat /\ latency <= MaxLatency
        BY BoundsNat DEF PollInv, TypeOK
    <2>. QED  BY <2>1, BoundsNat DEF PollInv, QuietInv
<1>. QED  BY <1>1, PollAlways, PTL

\* A snapshot that says fresh shows data that is not older than
\* stale_after_seconds and one request; one that says healthy says fresh and
\* means the attempt recorded last (poll_once, snapshot).
THEOREM FreshIsRecentThm == Spec => []FreshIsRecent
<1>1. PollInv => FreshIsRecent
    <2>. SUFFICES ASSUME PollInv PROVE FreshIsRecent
        OBVIOUS
    <2>1. StaleAfter(config.offer) \in Nat
        <3>1. config.offer.interval \in Nat /\ MinStale \in Nat /\ MaxStale \in Nat
            BY PollConstants DEF PollInv, TypeOK
        <3>. QED  BY <3>1 DEF StaleAfter, SmallerOf, LargerOf
    <2>2. Freshness = "fresh" =>
              dataAge # None /\ dataAge <= StaleAfter(config.offer) + MaxLatency
        <3>. SUFFICES ASSUME Freshness = "fresh"
                      PROVE  dataAge # None /\ dataAge <= StaleAfter(config.offer) + MaxLatency
            OBVIOUS
        <3>1. goodAge # None /\ ~(goodAge > StaleAfter(config.offer))
            BY DEF Freshness
        <3>2. dataAge # None /\ dataAge <= goodAge + MaxLatency
            BY <3>1 DEF PollInv, AgeInv
        <3>3. goodAge \in Nat /\ dataAge \in Nat
            BY <3>1, <3>2, BoundsNat DEF PollInv, TypeOK
        <3>. QED  BY <2>1, <3>1, <3>2, <3>3, BoundsNat
    <2>3. ShownState = "healthy" => Freshness = "fresh" /\ lastGood
        BY DEF ShownState, Freshness, PollInv, AgeInv
    <2>. QED  BY <2>2, <2>3 DEF FreshIsRecent
<1>. QED  BY <1>1, PollAlways, PTL

-----------------------------------------------------------------------------
\* An attempt is recorded one interval after the one before it at the
\* earliest, on the clock that the stop of the owner holds at the duration and
\* the allowance; the delay that is still due counts as well.
SpacingInv ==
    /\ clock <= config.duration + Boundary
    /\ phase = "none" => records = 0
    /\ records * config.offer.interval <= clock + config.offer.interval
    /\ phase \in {"loop", "request", "answered"} =>
          records * config.offer.interval <= clock
    /\ phase = "wait" => records * config.offer.interval <= clock + wait

\* No delay is shorter than the interval, however many attempts in a row have
\* failed (retry_delay_seconds).
LEMMA RetryNotEarlier ==
    ASSUME NEW o \in Offers, Accepted(o), Enabled(o),
           NEW n \in 0..(MaxExponent + 1)
    PROVE  o.interval <= RetryDelay(o, n)
<1>1. o.interval \in Nat /\ MaxRetry \in Nat /\ o.interval <= MaxRetry
    BY PollConstants DEF Accepted
<1>2. CASE n = 0
    BY <1>1, <1>2 DEF RetryDelay
<1>3. CASE n # 0
    <2>1. SmallerOf(n - 1, MaxExponent) \in 0..MaxExponent
        BY <1>3 DEF SmallerOf, MaxExponent
    <2>2. PICK power \in Nat \ {0} : power = 2 ^ SmallerOf(n - 1, MaxExponent)
        BY <2>1, PowerPositive
    <2>3. RetryDelay(o, n) = SmallerOf(MaxRetry, o.interval * power)
        BY <1>3, <2>2 DEF RetryDelay
    <2>4. o.interval * power \in Nat /\ o.interval <= o.interval * power
        BY <1>1
    <2>. QED  BY <1>1, <2>3, <2>4 DEF SmallerOf
<1>. QED  BY <1>2, <1>3

\* The rounded-up quotient, multiplied again, reaches what was divided.
LEMMA CeilDivReaches ==
    ASSUME NEW a \in Nat, NEW b \in Nat \ {0}
    PROVE  CeilDiv(a, b) \in Nat /\ a <= CeilDiv(a, b) * b
<1>. DEFINE q == (a + b - 1) \div b
            r == (a + b - 1) % b
<1>1. a + b - 1 \in Nat
    OBVIOUS
<1>2. q \in Nat /\ r \in 0..(b - 1) /\ a + b - 1 = b * q + r
    BY <1>1
<1>3. CeilDiv(a, b) = q
    BY DEF CeilDiv
<1>. HIDE DEF q, r
<1>4. b * q = q * b /\ b * q \in Nat
    BY <1>2
<1>. QED  BY <1>2, <1>3, <1>4

\* The initial states keep the spacing.
LEMMA SpacingInit == Init => SpacingInv
<1>. SUFFICES ASSUME Init PROVE SpacingInv
    OBVIOUS
<1>1. /\ clock = 0 /\ records = 0 /\ phase = "none"
      /\ config.offer \in Offers /\ config.duration \in Durations
    BY DEF Init
<1>2. config.duration \in Nat /\ Boundary \in Nat /\ config.offer.interval \in Nat
    BY <1>1, PollConstants
<1>. QED  BY <1>1, <1>2 DEF SpacingInv

\* Every step keeps the spacing of the records.
LEMMA SpacingNext == PollInv /\ SpacingInv /\ [Next]_vars => SpacingInv'
<1>. SUFFICES ASSUME PollInv, SpacingInv, [Next]_vars PROVE SpacingInv'
    OBVIOUS
<1>. DEFINE interval == config.offer.interval
<1>1. /\ config.offer \in Offers /\ config.duration \in Nat /\ Boundary \in Nat
      /\ interval \in Nat
    BY PollConstants DEF PollInv, TypeOK
<1>2. /\ clock \in Nat /\ records \in Nat /\ wait \in Nat
      /\ records * interval \in Nat /\ (records + 1) * interval = records * interval + interval
      /\ 0 * interval = 0
    BY <1>1, BoundsNat DEF PollInv, TypeOK
<1>3. config' = config
    BY DEF Next, Work, vars, worker, shown, history, Start, RequestStop, Loop,
           Answer, Record, InternalError, Wake, Tick
<1>4. CASE Start
    <2>1. phase' = "loop" /\ clock' = 0 /\ records' = 0
        BY <1>4 DEF Start
    <2>. QED  BY <1>1, <1>2, <1>3, <2>1 DEF SpacingInv
<1>5. CASE RequestStop \/ Loop \/ Answer \/ UNCHANGED vars
    <2>1. /\ UNCHANGED <<clock, records, wait>>
          /\ \/ phase' = phase
             \/ phase \in {"loop", "request", "answered"}
                /\ phase' \in {"request", "answered", "ended"}
        BY <1>5 DEF RequestStop, Loop, Answer, vars, worker, shown, history
    <2>. QED  BY <1>1, <1>2, <1>3, <2>1 DEF SpacingInv
<1>6. CASE Record
    <2>. DEFINE inARow == IF answer = "healthy" THEN 0
                          ELSE SmallerOf(failures + 1, MaxExponent + 1)
    <2>1. inARow \in 0..(MaxExponent + 1)
        BY DEF PollInv, TypeOK, SmallerOf, MaxExponent
    <2>2. /\ phase = "answered" /\ phase' = "wait"
          /\ wait' = RetryDelay(config.offer, inARow)
          /\ records' = records + 1 /\ clock' = clock
        BY <1>6 DEF Record
    <2>3. interval <= wait' /\ wait' \in Nat
        <3>1. Accepted(config.offer) /\ Enabled(config.offer)
            BY <2>2 DEF PollInv, ConfigInv
        <3>. HIDE DEF inARow
        <3>. QED  BY <1>1, <2>1, <2>2, <3>1, RetryNotEarlier, RetryBounded, BoundsNat
    <2>4. records * interval <= clock
        BY <2>2 DEF SpacingInv
    <2>5. records' * interval = records * interval + interval
        BY <1>2, <2>2
    <2>. HIDE DEF inARow
    <2>. QED  BY <1>1, <1>2, <1>3, <2>2, <2>3, <2>4, <2>5 DEF SpacingInv
<1>7. CASE InternalError
    <2>1. /\ phase \in {"request", "answered"} /\ phase' = "ended" /\ clock' = clock
          /\ records' = records \/ records' = records + 1
        BY <1>7 DEF InternalError
    <2>2. records * interval <= clock
        BY <2>1 DEF SpacingInv
    <2>3. records' * interval \in {records * interval, records * interval + interval}
        BY <1>2, <2>1
    <2>. QED  BY <1>1, <1>2, <1>3, <2>1, <2>2, <2>3 DEF SpacingInv
<1>8. CASE Wake
    <2>1. /\ phase = "wait" /\ UNCHANGED <<clock, records>>
          /\ \/ phase' = "ended"
             \/ phase' = "loop" /\ wait = 0
        BY <1>8 DEF Wake, history
    <2>. QED  BY <1>1, <1>2, <1>3, <2>1 DEF SpacingInv
<1>9. CASE Tick
    <2>1. phase' = phase /\ records' = records
        BY <1>9 DEF Tick
    <2>2. /\ clock' \in {clock, clock + 1}
          /\ clock' # clock => clock < config.duration + Boundary
          /\ phase = "wait" => clock' + wait' = clock + wait /\ wait' \in Nat
        BY <1>2, <1>9 DEF Tick, Alive
    <2>. QED  BY <1>1, <1>2, <1>3, <2>1, <2>2 DEF SpacingInv
<1>. QED  BY <1>4, <1>5, <1>6, <1>7, <1>8, <1>9 DEF Next, Work

\* A source that is told to stop within the duration of the capture and the
\* allowance for its boundary appends no more records than the capture's
\* recorder has reserved for it, for every interval, duration and backoff,
\* unless the reserve is at its cap (estimated_capture_records).
THEOREM HeadroomSuffices == Spec => []WithinHeadroom
<1>1. PollInv /\ SpacingInv => WithinHeadroom
    <2>. SUFFICES ASSUME PollInv, SpacingInv,
                         EstimatedRecords(config.offer, config.duration) < MaxReserved
                  PROVE  records <= EstimatedRecords(config.offer, config.duration)
        BY DEF WithinHeadroom
    <2>. DEFINE interval == config.offer.interval
                length == config.duration + Boundary
                parts == CeilDiv(length, interval)
    <2>1. /\ config.offer \in Offers /\ length \in Nat
          /\ records \in Nat /\ MaxReserved \in Nat /\ clock \in Nat
        <3>1. /\ config.offer \in Offers /\ config.duration \in Durations
              /\ records \in Nat /\ clock \in Nat
            BY DEF PollInv, TypeOK
        <3>2. config.duration \in Nat /\ Boundary \in Nat /\ MaxReserved \in Nat
            BY <3>1, PollConstants
        <3>. QED  BY <3>1, <3>2
    <2>2. CASE ~Enabled(config.offer)
        <3>1. records = 0
            BY <2>2 DEF PollInv, ConfigInv, SpacingInv
        <3>. QED  BY <2>2, <3>1 DEF EstimatedRecords
    <2>3. CASE Enabled(config.offer)
        <3>1. interval \in Nat \ {0}
            BY <2>1, <2>3, PollConstants DEF PollInv, ConfigInv, Accepted
        <3>2. parts \in Nat /\ length <= parts * interval
            BY <2>1, <3>1, CeilDivReaches
        <3>3. EstimatedRecords(config.offer, config.duration) =
                  SmallerOf(MaxReserved, parts + BoundaryRecords)
            BY <2>3 DEF EstimatedRecords
        <3>4. EstimatedRecords(config.offer, config.duration) = parts + 2
            <4>. HIDE DEF parts
            <4>. QED  BY <2>1, <3>2, <3>3 DEF SmallerOf, BoundaryRecords
        <3>5. records * interval <= length + interval
            <4>1. records * interval <= clock + interval /\ clock <= length
                BY DEF SpacingInv
            <4>. HIDE DEF length
            <4>. QED  BY <2>1, <3>1, <4>1
        <3>6. records <= parts + 1
            <4>. HIDE DEF parts, length, interval
            <4>. SUFFICES ASSUME records >= parts + 2 PROVE FALSE
                BY <2>1, <3>2
            <4>1. records * interval = (parts + 2) * interval + (records - (parts + 2)) * interval
                BY <2>1, <3>1, <3>2
            <4>2. (parts + 2) * interval = parts * interval + 2 * interval
                BY <3>1, <3>2
            <4>3. PICK extra \in Nat : extra = (records - (parts + 2)) * interval
                BY <2>1, <3>1, <3>2
            <4>4. PICK whole \in Nat : whole = parts * interval
                BY <3>1, <3>2
            <4>5. records * interval = whole + 2 * interval + extra
                BY <4>1, <4>2, <4>3, <4>4
            <4>. QED  BY <2>1, <3>1, <3>2, <3>5, <4>3, <4>4, <4>5
        <3>. HIDE DEF parts
        <3>. QED  BY <2>1, <3>2, <3>4, <3>6
    <2>. QED  BY <2>2, <2>3
<1>2. Spec => []SpacingInv
    <2>1. PollInv /\ SpacingInv /\ [Next]_vars => SpacingInv'
        BY SpacingNext
    <2>. QED  BY <2>1, SpacingInit, PollAlways, PTL DEF Spec
<1>. QED  BY <1>1, <1>2, PollAlways, PTL

\* The source does to its worker only what a Poller may do: it starts one that
\* is not alive, tells it to stop, and lets it end (start, request_stop, _run).
THEOREM PrusaLinkIsPoller ==
    Spec => Abstract!Init /\ [][Abstract!Next]_(Abstract!poller)
<1>1. Init => Abstract!Init
    BY DEF Init, Alive, Abstract!Init
<1>2. [Next]_vars => [Abstract!Next]_(Abstract!poller)
    <2>. SUFFICES ASSUME [Next]_vars PROVE [Abstract!Next]_(Abstract!poller)
        OBVIOUS
    <2>. USE DEF Abstract!poller, Alive
    <2>1. CASE Start
        BY <2>1 DEF Start, Starts, Abstract!Next, Abstract!Start
    <2>2. CASE RequestStop
        BY <2>2 DEF RequestStop, worker, Abstract!Next, Abstract!RequestStop
    <2>3. CASE Loop \/ InternalError \/ Wake
        BY <2>3 DEF Loop, InternalError, Wake, Abstract!Next, Abstract!Ends
    <2>4. CASE Answer \/ Record \/ Tick
        BY <2>4 DEF Answer, Record, Tick
    <2>5. CASE UNCHANGED vars
        BY <2>5 DEF vars, worker
    <2>. QED  BY <2>1, <2>2, <2>3, <2>4, <2>5 DEF Next, Work
<1>. QED  BY <1>1, <1>2, PTL DEF Spec
=============================================================================
