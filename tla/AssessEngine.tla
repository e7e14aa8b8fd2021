---------------------------- MODULE AssessEngine ----------------------------
(***************************************************************************)
(* Offline assessment (src/dragonsniff/assess): from the records of one    *)
(* evidence file and one declared check to a finding.  The package is pure *)
(* functions of bytes, so this module has operators only; Assessment.tla   *)
(* is the file they are applied to while it grows and loses records.       *)
(*                                                                         *)
(* ev is an evidence file that was loaded: a function from the sequence    *)
(* numbers present to the records.  A record carries what the engine looks *)
(* at: its kind, the monotonic time t, the run, the channel (endpoint of a *)
(* Dragon record, source_id of a PrusaLink one), the request id, whether   *)
(* it reports success without any error field, its payload and the instant *)
(* its observation began.  Times and durations are natural numbers of      *)
(* nanoseconds; truth is one of "true", "false" and "unknown".             *)
(***************************************************************************)
EXTENDS Integers, FiniteSets

CONSTANTS
    NoRun,         \* a run_id that is missing, empty or no string
    NoId,          \* a request_id that is neither an integer nor a string
    AnyChannel     \* a PrusaLink signal that names no source_id

TERMINAL_KINDS ==
    {"capture_run_completed", "capture_run_cancelled", "capture_run_failed"}
DRAGON_COMPLETIONS == {"http_response", "http_error"}

Least(S) == CHOOSE s \in S : \A r \in S : s <= r
Lesser(i, j) == IF i <= j THEN i ELSE j

-----------------------------------------------------------------------------
(* evidence.py: the run that the file is about, and what is missing.       *)

Starts(ev) == {s \in DOMAIN ev : ev[s].kind = "capture_run_started"}

Terminals(ev, started) ==
    {s \in DOMAIN ev : ev[s].kind \in TERMINAL_KINDS /\ s > started}

\* Mutant: the last terminal record of the file closes the run.
ClosingLast(ends) == CHOOSE s \in ends : \A r \in ends : r <= s

Closing(ends) == Least(ends)

\* Sequence numbers of the run's first and terminal record; 0 is none.
Run(ev) ==
    IF Starts(ev) = {}
    THEN [problem |-> "run_missing", started |-> 0, terminal |-> 0]
    ELSE LET started  == Least(Starts(ev))
             ends     == Terminals(ev, started)
             terminal == IF ends = {} THEN 0 ELSE Closing(ends)
         IN IF \E s \in Starts(ev) \ {started} : terminal = 0 \/ s < terminal
            THEN [problem |-> "run_ambiguous", started |-> 0, terminal |-> 0]
            ELSE [problem |->
                    IF terminal # 0
                       /\ \/ ev[started].run = NoRun
                          \/ ev[terminal].run # ev[started].run
                          \/ ev[terminal].t < ev[started].t
                    THEN "run_invalid" ELSE "none",
                  started |-> started, terminal |-> terminal]

\* The part of the file up to sequence n.  The engine never looks further:
\* _run_records stops at the terminal record, and so do the gaps it asks for.
Slice(ev, n) == [s \in {r \in DOMAIN ev : r <= n} |-> ev[s]]

missing_between(ev, low, high) == \E s \in low .. high : s \notin DOMAIN ev

\* The records of the run, inside both its sequence and its time horizon.
RunRecords(ev, started, terminal) ==
    {s \in DOMAIN ev : /\ started <= s /\ s <= terminal
                       /\ ev[started].t <= ev[s].t
                       /\ ev[s].t <= ev[terminal].t
                       /\ ev[s].run = ev[started].run}

-----------------------------------------------------------------------------
(* Values.  A JSON value is a type and, where it matters, an integer.      *)

NoValue == [type |-> "none", v |-> 0]

IsNumber(x) == x.type = "number"
Usable(x) == x.type \in {"number", "bool", "text"}

Extract(payload, signal) ==
    IF ~Usable(payload.value) THEN NoValue
    ELSE IF ~signal.relative THEN payload.value
    ELSE IF IsNumber(payload.value) /\ IsNumber(payload.reference)
    THEN [type |-> "number", v |-> payload.value.v - payload.reference.v]
    ELSE NoValue

Truth3(b) == IF b THEN "true" ELSE "false"

Truth(attempt, predicate) ==
    LET x == attempt.value
        e == predicate.value
    IN CASE ~attempt.valid -> "unknown"
         [] attempt.valid /\ predicate.op = "between" ->
              IF IsNumber(x)
              THEN Truth3(predicate.low <= x.v /\ x.v <= predicate.high)
              ELSE "unknown"
         [] attempt.valid /\ predicate.op \in {"eq", "ne"} ->
              IF x.type = e.type
              THEN Truth3((predicate.op = "eq") <=> (x.v = e.v))
              ELSE "unknown"
         [] attempt.valid /\ predicate.op \in {"lt", "le", "gt", "ge"} ->
              IF IsNumber(x)
              THEN Truth3(CASE predicate.op = "lt" -> x.v < e.v
                            [] predicate.op = "le" -> x.v <= e.v
                            [] predicate.op = "gt" -> x.v > e.v
                            [] predicate.op = "ge" -> x.v >= e.v)
              ELSE "unknown"

Combine(first, second) == IF first = second THEN first ELSE "unknown"

-----------------------------------------------------------------------------
(* Observation attempts: an interval [start, end] that contains the        *)
(* unknown instant of the sample, and the value if the sample is usable.   *)

PointAttempt(ev, s) ==
    [start |-> ev[s].t, end |-> ev[s].t, first |-> s, last |-> s,
     value |-> NoValue, valid |-> FALSE]

PairedAttempt(ev, req, done, signal) ==
    LET ordered == done > req /\ ev[done].t >= ev[req].t
        value   == IF /\ ordered
                      /\ ev[done].kind = "http_response"
                      /\ ev[done].healthy
                   THEN Extract(ev[done].payload, signal) ELSE NoValue
    IN [start |-> IF ordered THEN ev[req].t ELSE Lesser(ev[req].t, ev[done].t),
        end   |-> IF ordered THEN ev[done].t ELSE Lesser(ev[req].t, ev[done].t),
        first |-> req, last |-> done,
        value |-> value, valid |-> value # NoValue]

\* Requests and completions are joined by request_id; what is unidentified,
\* unpaired or duplicated is an attempt without a value, each record its own.
DragonAttempts(ev, mine, signal) ==
    LET here    == {s \in mine : /\ ev[s].channel = signal.channel
                                 /\ ev[s].kind \in DRAGON_COMPLETIONS \cup {"http_request"}}
        opened(i) == {s \in here : ev[s].id = i /\ ev[s].kind = "http_request"}
        closed(i) == {s \in here : ev[s].id = i /\ ev[s].kind \in DRAGON_COMPLETIONS}
        paired  == {i \in {ev[s].id : s \in here} \ {NoId} :
                      Cardinality(opened(i)) = 1 /\ Cardinality(closed(i)) = 1}
    IN {PointAttempt(ev, s) : s \in {r \in here : ev[r].id \notin paired}}
       \cup {PairedAttempt(ev, Least(opened(i)), Least(closed(i)), signal) : i \in paired}

ObservationAttempt(ev, s, signal) ==
    LET value == IF ev[s].healthy THEN Extract(ev[s].payload, signal) ELSE NoValue
    IN IF ev[s].observed < 0 \/ ev[s].observed > ev[s].t
       THEN PointAttempt(ev, s)
       ELSE [start |-> ev[s].observed, end |-> ev[s].t, first |-> s, last |-> s,
             value |-> value, valid |-> value # NoValue]

\* Only PrusaLinkSource writes records of this kind, with the source "prusalink".
PrusalinkAttempts(ev, mine, signal) ==
    {ObservationAttempt(ev, s, signal) :
        s \in {r \in mine : /\ ev[r].kind = "source_observation"
                            /\ signal.channel \in {AnyChannel, ev[r].channel}}}

attempts_for(ev, mine, signal) ==
    IF signal.source = "dragon" THEN DragonAttempts(ev, mine, signal)
    ELSE PrusalinkAttempts(ev, mine, signal)

\* Attempts are ordered by their first record; no two share one.
Later(atts, a) == {b \in atts : b.first > a.first}
Following(atts, a) ==
    CHOOSE b \in Later(atts, a) : \A c \in Later(atts, a) : b.first <= c.first

-----------------------------------------------------------------------------
(* The timeline.                                                           *)

holdable(ev, atts, a, hold, terminal) ==
    /\ hold > 0 /\ a.valid
    /\ IF Later(atts, a) = {}
       THEN ~missing_between(ev, a.first, terminal)
       ELSE LET next == Following(atts, a)
            IN next.start >= a.end /\ ~missing_between(ev, a.first, next.last)

\* Mutant: a value is held from the end of its interval.
HeldUntilFromEnd(a, hold, horizon) == Lesser(a.end + hold, horizon)

\* A value may have been sampled as early as the start of its interval.
HeldUntil(a, hold, horizon) == Lesser(a.start + hold, horizon)

Pieces(ev, atts, predicate, hold, horizon, terminal) ==
    LET held     == {a \in atts : holdable(ev, atts, a, hold, terminal)}
        \* The next attempt's own interval: the held value or the new one.
        during(a) ==
          LET n == Following(atts, a)
          IN [from |-> n.start, to |-> Lesser(n.end, HeldUntil(a, hold, horizon)),
              truth |-> Combine(Truth(a, predicate), Truth(n, predicate))]
        after(a) ==
          [from |-> a.end,
           to |-> Lesser(IF Later(atts, a) = {} THEN horizon ELSE Following(atts, a).start,
                         HeldUntil(a, hold, horizon)),
           truth |-> Truth(a, predicate)]
    IN {p \in {during(a) : a \in {b \in held : Later(atts, b) # {}}}
              \cup {after(a) : a \in held} : p.to > p.from}

\* Where pieces overlap an instant is true (false) only if all of them say so.
\* An instant x stands for the time from x to x + 1.
Integrate(pieces, low, high, truth) ==
    {x \in low .. high - 1 :
        LET covering == {p \in pieces : p.from <= x /\ x < p.to}
        IN covering # {} /\ \A p \in covering : p.truth = truth}

-----------------------------------------------------------------------------
(* Findings.                                                               *)

\* No window: nothing is decided and no instant is known.
Undecided(problem) ==
    [result |-> "INCONCLUSIVE", reasons |-> {problem}, start |-> 0, end |-> 0,
     known |-> [true |-> {}, false |-> {}], attempts |-> {}]

HoldsVerdict(violations, trueTime, falseTime, unknown, window) ==
    IF violations # {} THEN "FAIL"
    ELSE IF falseTime = 0 /\ unknown = 0 /\ trueTime = window THEN "PASS"
    ELSE "INCONCLUSIVE"

\* The fraction of the window in band is compared as integers.
BandVerdict(trueTime, falseTime, window, min) ==
    IF trueTime * min.den >= min.num * window THEN "PASS"
    ELSE IF (window - falseTime) * min.den < min.num * window THEN "FAIL"
    ELSE "INCONCLUSIVE"

\* Mutant: only the records of the run itself have to be complete.
IncompleteRunOnly(ev, started, terminal) == missing_between(ev, started, terminal)

\* A gap anywhere before the terminal record may hide a duplicate request or
\* another run marker, so it takes every conclusion away.
Incomplete(ev, started, terminal) == missing_between(ev, 1, terminal)

Judge(ev, started, terminal, low, high, hold, signal, check) ==
    LET horizon    == ev[terminal].t
        incomplete == Incomplete(ev, started, terminal)
        atts       == attempts_for(ev, RunRecords(ev, started, terminal), signal)
        truth(a)   == IF incomplete THEN "unknown" ELSE Truth(a, check.predicate)
        pieces     == IF incomplete THEN {}
                      ELSE Pieces(ev, atts, check.predicate, hold, horizon, terminal)
        trueTime   == Integrate(pieces, low, high, "true")
        falseTime  == Integrate(pieces, low, high, "false")
        unknown    == (high - low) - Cardinality(trueTime) - Cardinality(falseTime)
        near       == {a \in atts : a.end >= low /\ a.start <= high}
        inside(a)  == a.start >= low /\ a.end <= high
        violations == {a \in near : truth(a) = "false" /\ inside(a)}
        edge       == {a \in near : truth(a) = "false" /\ ~inside(a)}
        unusable   == {a \in near : truth(a) = "unknown" /\ ~incomplete}
        result     == IF check.kind = "holds_throughout"
                      THEN HoldsVerdict(violations, Cardinality(trueTime),
                                        Cardinality(falseTime), unknown, high - low)
                      ELSE BandVerdict(Cardinality(trueTime), Cardinality(falseTime),
                                       high - low, check.min_fraction)
        because(b, reason) == IF b THEN {reason} ELSE {}
    IN [result  |-> result,
        reasons |-> IF result # "INCONCLUSIVE" THEN {}
                    ELSE because(hold = 0, "no_hold_declared")
                         \cup because(unknown > 0, "coverage_incomplete")
                         \cup because(near = {}, "no_observations")
                         \cup because(unusable # {}, "invalid_observations")
                         \cup because(incomplete, "sequence_gap")
                         \cup because(high > horizon, "evidence_ended")
                         \cup because(edge # {}, "violation_at_window_edge")
                         \cup because(check.kind = "holds_throughout" /\ falseTime # {},
                                      "held_violation"),
        start |-> low, end |-> high,
        known |-> [true |-> trueTime, false |-> falseTime],
        attempts |-> {[attempt |-> a, truth |-> truth(a)] : a \in atts}]

evaluate(ev, hold, signal, check) ==
    LET run  == Run(ev)
        low  == ev[run.started].t + check.start
        high == IF check.end = 0 THEN ev[run.terminal].t
                ELSE ev[run.started].t + check.end
    IN IF run.problem # "none" THEN Undecided(run.problem)
       ELSE IF run.terminal = 0 THEN Undecided("run_not_terminated")
       ELSE IF high <= low THEN Undecided("window_empty")
       ELSE Judge(Slice(ev, run.terminal), run.started, run.terminal, low, high,
                  hold, signal, check)
=============================================================================
