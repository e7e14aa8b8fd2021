----------------------------- MODULE PrusaLink ------------------------------
(***************************************************************************)
(* The optional printer source of a session: one worker polls one status   *)
(* endpoint, records every attempt and backs off after failures, while     *)
(* snapshots report how old the last good sample is.                       *)
(*                                                                         *)
(* Time is counted in ticks.  A request lasts at most MaxLatency of them;  *)
(* an append and the state change behind it take none.                     *)
(***************************************************************************)
EXTENDS Naturals

CONSTANTS
    Offers,         \* values of the command line: [url, key, interval]
    MinInterval, MaxInterval,  \* MIN_ and MAX_POLL_INTERVAL_SECONDS
    MaxRetry,       \* MAX_RETRY_INTERVAL_SECONDS
    MinStale, MaxStale,        \* bounds of stale_after_seconds
    Boundary,       \* CAPTURE_BOUNDARY_REQUEST_SECONDS
    MaxReserved,    \* MAX_CAPTURE_RESERVED_RECORDS
    Durations,      \* durations of a capture
    None,           \* no sample yet
    MaxLatency,     \* bound: ticks of a request
    MaxStarts       \* bound: starts of the source

\* What poll_once makes of a request: no response, 401 or 403, another status
\* that is not a success, a body that is no JSON, no usable status or an echo of
\* the key, a body beyond its limit, or a status sample.
StateOf ==
    [unreachable |-> "transport_error", unauthorized |-> "auth_error",
     http_error |-> "transport_error", unusable |-> "parse_error",
     too_large |-> "parse_error", sample |-> "healthy"]

ASSUME PollConstants ==
    /\ MinInterval \in Nat \ {0} /\ MaxInterval \in Nat /\ MaxRetry \in Nat
    /\ MinInterval <= MaxInterval /\ MaxInterval <= MaxRetry
    /\ MinStale \in Nat /\ MaxStale \in Nat /\ MinStale <= MaxStale
    /\ Boundary \in Nat /\ MaxReserved \in Nat /\ Durations \subseteq Nat
    /\ None \notin Nat /\ None \notin {StateOf[r] : r \in DOMAIN StateOf}
    /\ MaxLatency \in Nat /\ MaxStarts \in Nat
    /\ Offers \subseteq [url : {"none", "good", "bad"},
                         key : {"none", "good", "bad"}, interval : Nat]

\* LIVE_BOUNDARY_RECORDS of the estimate, and the exponent of the backoff.
BoundaryRecords == 2
MaxExponent == 10

SmallerOf(a, b) == IF a <= b THEN a ELSE b
LargerOf(a, b) == IF a <= b THEN b ELSE a
CeilDiv(a, b) == (a + b - 1) \div b
-----------------------------------------------------------------------------
(* The configuration, PrusaLinkConfig.                                     *)

Enabled(o) == o.url # "none"

\* from_values: without an address there may be no key; with one, everything
\* has to be in order.
Accepted(o) ==
    IF Enabled(o)
    THEN o.url = "good" /\ o.key = "good"
         /\ o.interval \in MinInterval..MaxInterval
    ELSE o.key = "none"

StaleAfter(o) == SmallerOf(MaxStale, LargerOf(MinStale, 3 * o.interval))

\* estimated_capture_records
EstimatedRecords(o, duration) ==
    IF Enabled(o)
    THEN SmallerOf(MaxReserved,
                   CeilDiv(duration + Boundary, o.interval) + BoundaryRecords)
    ELSE 0

\* Mutant: the first retry is made at once.
RetryEager(o, failures) ==
    IF failures = 1 THEN 0
    ELSE IF failures = 0 THEN o.interval
    ELSE SmallerOf(MaxRetry, o.interval * 2 ^ SmallerOf(failures - 1, MaxExponent))

\* Mutant: the delay doubles without end.
RetryUncapped(o, failures) ==
    IF failures = 0 THEN o.interval ELSE o.interval * 2 ^ SmallerOf(failures - 1, MaxExponent)

\* retry_delay_seconds
RetryDelay(o, failures) ==
    IF failures = 0
    THEN o.interval
    ELSE SmallerOf(MaxRetry, o.interval * 2 ^ SmallerOf(failures - 1, MaxExponent))
-----------------------------------------------------------------------------
VARIABLES
    config,      \* PrusaLinkConfig, and the duration of the owner's run
    phase,       \* the worker: "none", "loop", "request", "answered", "wait", "ended"
    stop,        \* _stop is set
    failures,    \* failures in a row, counted up to the exponent's bound
    wait,        \* what is left of the delay
    answer,      \* fields["source_state"] of the poll that has been answered
    sourceState, \* _state["source_state"]
    goodAge,     \* ticks since _last_good_monotonic_ns
    \* history
    latency,     \* ticks since the request began
    dataAge,     \* ticks since the request that brought _state["data"] began
    lastGood,    \* the last recorded poll was healthy
    quiet,       \* ticks since the last record, or the start
    clock,       \* ticks since the start
    records,     \* records appended since the start
    starts

worker == <<phase, failures, wait, answer, latency>>
shown == <<sourceState, goodAge>>
history == <<dataAge, lastGood, quiet, records>>
vars == <<config, worker, stop, shown, history, clock, starts>>

FailedStates == {StateOf[r] : r \in DOMAIN StateOf} \ {"healthy"}

AgeBound == MaxStale + MaxLatency + 1
QuietBound == MaxRetry + MaxLatency + 1
Older(age) == IF age = None THEN None ELSE SmallerOf(age + 1, AgeBound)

Init ==
    /\ config \in {[offer |-> o, duration |-> d] : o \in {x \in Offers : Accepted(x)},
                                                   d \in Durations}
    /\ phase = "none" /\ stop = FALSE /\ failures = 0 /\ wait = 0 /\ answer = None
    /\ sourceState = IF Enabled(config.offer) THEN "configured" ELSE "disabled"
    /\ goodAge = None
    /\ latency = 0 /\ dataAge = None /\ lastGood = FALSE /\ quiet = 0
    /\ clock = 0 /\ records = 0 /\ starts = 0

Alive == phase \notin {"none", "ended"}

\* Mutant: start() does not ask for a worker that is still alive.
StartsAnyway == Enabled(config.offer)

\* start() of a source whose worker is alive changes nothing.  Each source has
\* one caller of start(), so that no second one meets the thread between its
\* publication and its start.
Starts == Enabled(config.offer) /\ ~Alive

Start ==
    /\ starts < MaxStarts /\ Starts
    /\ stop' = FALSE /\ phase' = "loop" /\ sourceState' = "connecting"
    /\ failures' = 0 /\ wait' = 0 /\ answer' = None /\ latency' = 0
    /\ lastGood' = FALSE /\ quiet' = 0 /\ clock' = 0 /\ records' = 0
    /\ starts' = starts + 1
    /\ UNCHANGED <<config, goodAge, dataAge>>

RequestStop ==
    /\ starts > 0 /\ ~stop
    /\ stop' = TRUE
    /\ UNCHANGED <<config, worker, shown, history, clock, starts>>

\* The loop condition of _run.
Loop ==
    /\ phase = "loop"
    /\ phase' = IF stop THEN "ended" ELSE "request"
    /\ latency' = 0
    /\ UNCHANGED <<config, stop, failures, wait, answer, shown, history, clock, starts>>

\* poll_once has read the response, or has given up.
Answer ==
    /\ phase = "request"
    /\ phase' = "answered"
    /\ \E response \in DOMAIN StateOf : answer' = StateOf[response]
    /\ UNCHANGED <<config, stop, failures, wait, latency, shown, history, clock, starts>>

\* Mutant: every recorded attempt counts as a sample.
KeepsAge(healthy) == FALSE

\* A failed attempt leaves the last good sample and its age alone.
KeepsSample(healthy) == ~healthy

\* poll_once appends the record and shows the outcome; _run waits.
Record ==
    /\ phase = "answered"
    /\ LET healthy == answer = "healthy"
           inARow == IF healthy THEN 0 ELSE SmallerOf(failures + 1, MaxExponent + 1)
       IN  /\ sourceState' = answer
           /\ failures' = inARow
           /\ wait' = RetryDelay(config.offer, inARow)
           /\ goodAge' = IF KeepsSample(healthy) THEN goodAge ELSE 0
           /\ dataAge' = IF healthy THEN latency ELSE dataAge
           /\ lastGood' = healthy
    /\ phase' = "wait" /\ answer' = None /\ latency' = 0
    /\ quiet' = 0 /\ records' = records + 1
    /\ UNCHANGED <<config, stop, clock, starts>>

\* The recorder refuses the record, or poll_once raises something else:
\* _record_internal_error appends a record of it, if it can, and _run returns.
InternalError ==
    /\ phase \in {"request", "answered"}
    /\ phase' = "ended" /\ sourceState' = "internal_error"
    /\ answer' = None /\ latency' = 0 /\ lastGood' = FALSE
    /\ \/ UNCHANGED <<quiet, records>>
       \/ quiet' = 0 /\ records' = records + 1
    /\ UNCHANGED <<config, stop, failures, wait, goodAge, dataAge, clock, starts>>

\* Event.wait returns: the stop, or the end of the delay.
Wake ==
    /\ phase = "wait" /\ (stop \/ wait = 0)
    /\ phase' = IF stop THEN "ended" ELSE "loop"
    /\ wait' = 0
    /\ UNCHANGED <<config, stop, failures, answer, latency, shown, history, clock, starts>>

\* The owner of a capture tells the source to stop in time; a request ends
\* by its timeout, and a due wait is over.
Tick ==
    /\ phase \in {"none", "ended"} \/ stop \/ clock < config.duration + Boundary
    /\ \/ phase \in {"none", "ended"}
       \/ phase = "request" /\ latency < MaxLatency
       \/ phase = "wait" /\ wait > 0 /\ ~stop
    /\ latency' = IF phase = "request" THEN latency + 1 ELSE latency
    /\ wait' = IF phase = "wait" THEN wait - 1 ELSE wait
    /\ goodAge' = Older(goodAge) /\ dataAge' = Older(dataAge)
    /\ quiet' = IF Alive THEN SmallerOf(quiet + 1, QuietBound) ELSE quiet
    /\ clock' = IF Alive /\ ~stop THEN clock + 1 ELSE clock
    /\ UNCHANGED <<config, phase, stop, failures, answer, sourceState, lastGood,
                   records, starts>>

Work == Loop \/ Answer \/ Record \/ InternalError \/ Wake
Next == Start \/ RequestStop \/ Work \/ Tick

Spec == Init /\ [][Next]_vars

\* The threads are scheduled and time goes on.
FairSpec == Spec /\ WF_vars(Work) /\ WF_vars(Tick)
-----------------------------------------------------------------------------
(* snapshot()                                                              *)

Freshness ==
    IF goodAge = None THEN "unavailable"
    ELSE IF goodAge > StaleAfter(config.offer) THEN "stale" ELSE "fresh"

ShownState ==
    IF sourceState = "healthy" /\ Freshness = "stale" THEN "stale" ELSE sourceState
-----------------------------------------------------------------------------
TypeOK ==
    /\ config \in [offer : Offers, duration : Durations]
    /\ phase \in {"none", "loop", "request", "answered", "wait", "ended"}
    /\ stop \in BOOLEAN /\ lastGood \in BOOLEAN
    /\ failures \in 0..(MaxExponent + 1) /\ wait \in 0..MaxRetry
    /\ answer \in FailedStates \union {"healthy", None}
    /\ (answer # None) <=> (phase = "answered")
    /\ sourceState \in FailedStates \union
          {"disabled", "configured", "connecting", "healthy", "internal_error"}
    /\ goodAge \in (0..AgeBound) \union {None}
    /\ dataAge \in (0..AgeBound) \union {None}
    /\ latency \in 0..MaxLatency /\ quiet \in 0..QuietBound
    /\ clock \in Nat /\ records \in Nat /\ starts \in 0..MaxStarts

\* A worker that nobody has told to stop never stays silent for longer than
\* the cap of the backoff and one request: retry_delay_seconds, for any number
\* of failures in a row and any interval the configuration admits.
SilenceBounded == Alive /\ ~stop => quiet <= MaxRetry + MaxLatency

\* The type invariant of the source, and SilenceBounded.
PollerInv == TypeOK /\ SilenceBounded

\* A snapshot that says fresh shows data that the printer gave not longer ago
\* than stale_after_seconds and one request, whatever failed, ended or was
\* started again since; one that says healthy says fresh as well and means the
\* attempt recorded last (poll_once, snapshot).
FreshIsRecent ==
    /\ Freshness = "fresh" =>
          /\ dataAge # None
          /\ dataAge <= StaleAfter(config.offer) + MaxLatency
    /\ ShownState = "healthy" => Freshness = "fresh" /\ lastGood

\* A source that is told to stop within the duration of the capture and the
\* allowance for its boundary appends no more records than the capture's
\* recorder has reserved for it, failures and retries included, unless the
\* reserve is at its cap (estimated_capture_records).
WithinHeadroom ==
    LET reserved == EstimatedRecords(config.offer, config.duration)
    IN  reserved < MaxReserved => records <= reserved

\* The source does what the sessions that own it rely on: one worker that
\* ends once it has been told to (start, request_stop, _run).
Abstract == INSTANCE Poller WITH alive <- Alive, told <- stop
ImplementsPoller == Abstract!Spec
=============================================================================
