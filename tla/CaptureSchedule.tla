-------------------------- MODULE CaptureSchedule --------------------------
(***************************************************************************)
(* The sampling loop of a Thermal capture: CaptureRunner._run on its       *)
(* monotonic clock, against the estimate that the capture was admitted     *)
(* with.  Times are whole ticks since the loop began.  A fetch, a wait and *)
(* the code between them may take any number of ticks up to a bound.       *)
(***************************************************************************)
EXTENDS Integers

CONSTANTS
    Durations,   \* duration_seconds of the captures considered
    Intervals,   \* state_interval_seconds and health_interval_seconds
    MaxLatency,  \* bound: ticks a fetch takes
    MaxLate      \* bound: ticks a wait takes too long

ASSUME ScheduleConstants ==
    /\ Durations \subseteq Nat \ {0}
    /\ Intervals \subseteq Nat \ {0}
    /\ MaxLatency \in Nat /\ MaxLate \in Nat

VARIABLES
    config,      \* CaptureConfig
    phase,       \* where the thread is
    time,        \* time.monotonic()
    now,         \* the local of that name
    nextState, nextHealth,
    cancelled,   \* _cancel is set
    states,      \* state samples taken
    healths,     \* health samples taken
    infos,       \* device information samples taken
    records,     \* records appended
    outcome,     \* _state["state"]
    \* history
    stateTimes,  \* when the last two scheduled state samples began
    healthTimes  \* the same for health

schedule == <<nextState, nextHealth>>
counts == <<states, healths, infos, records>>
history == <<stateTimes, healthTimes>>
vars == <<config, phase, time, now, schedule, cancelled, counts, outcome, history>>

Configs == [duration: Durations, state: Intervals, health: Intervals]

\* math.ceil(a / b)
Ceil(a, b) == (a + b - 1) \div b

\* Mutant: the samples are counted as if none were taken late.
EstimatedTight ==
    (Ceil(config.duration, config.state) + 1
     + Ceil(config.duration, config.health) + 1 + 2) * 2 + 2

EstimatedRecords ==
    (Ceil(config.duration, config.state) + 2
     + Ceil(config.duration, config.health) + 2 + 2) * 2 + 4

SampleRecords == 2  \* the request and its response or error

\* The capture_run_started record has been appended.
Init ==
    /\ config \in Configs
    /\ phase = "begin" /\ time = 0 /\ now = 0
    /\ nextState = 0 /\ nextHealth = 0 /\ cancelled = FALSE
    /\ states = 0 /\ healths = 0 /\ infos = 0 /\ records = 1
    /\ outcome = "running"
    /\ stateTimes = <<-1, -1>> /\ healthTimes = <<-1, -1>>

\* CaptureRunner._sample: two records, and the time that the fetch takes.
Sample == records' = records + SampleRecords

Takes == \E d \in 0..MaxLatency : time' = time + d

\* The information sample at the start; the clock of the loop starts after it.
SampleInfo ==
    /\ phase = "begin"
    /\ Sample
    /\ infos' = infos + 1
    /\ phase' = "head"
    /\ UNCHANGED <<config, time, now, schedule, cancelled, states, healths,
                   outcome, stateTimes, healthTimes>>

LoopHead ==
    /\ phase = "head"
    /\ now' = time
    /\ phase' = IF cancelled THEN "finish"
                ELSE IF time >= config.duration THEN "endState"
                ELSE IF time >= nextState THEN "state"
                ELSE "between"
    /\ UNCHANGED <<config, time, schedule, cancelled, counts, outcome, history>>

\* Mutant: the schedule does not skip what it missed.
NextAlways(next, interval) == next + interval

\* The next sample on the grid, or one interval from now if that is past.
NextOnGrid(next, interval) ==
    IF next + interval <= now THEN now + interval ELSE next + interval

SampleState ==
    /\ phase = "state"
    /\ Sample
    /\ Takes
    /\ states' = states + 1
    /\ stateTimes' = <<stateTimes[2], time>>
    /\ nextState' = NextOnGrid(nextState, config.state)
    /\ phase' = "between"
    /\ UNCHANGED <<config, now, nextHealth, cancelled, healths, infos, outcome,
                   healthTimes>>

\* The clock is read again before the health sample is due or not.
Between ==
    /\ phase = "between"
    /\ now' = time
    /\ phase' = IF time >= nextHealth /\ ~cancelled THEN "health" ELSE "wait"
    /\ UNCHANGED <<config, time, schedule, cancelled, counts, outcome, history>>

SampleHealth ==
    /\ phase = "health"
    /\ Sample
    /\ Takes
    /\ healths' = healths + 1
    /\ healthTimes' = <<healthTimes[2], time>>
    /\ nextHealth' = NextOnGrid(nextHealth, config.health)
    /\ phase' = "wait"
    /\ UNCHANGED <<config, now, nextState, cancelled, states, infos, outcome,
                   stateTimes>>

Earliest == {config.duration, nextState, nextHealth}

\* Mutant: the wait has no timeout.
WaitForCancel ==
    /\ phase = "wait" /\ cancelled
    /\ phase' = "head"
    /\ UNCHANGED <<config, time, now, schedule, cancelled, counts, outcome, history>>

\* _cancel.wait: until the earliest of the three times, or the cancel.
Wait ==
    /\ phase = "wait"
    /\ \E wake \in Earliest, d \in 0..MaxLate :
          /\ \A t \in Earliest : wake <= t
          /\ time' = (IF wake > time /\ ~cancelled THEN wake ELSE time) + d
    /\ phase' = "head"
    /\ UNCHANGED <<config, now, schedule, cancelled, counts, outcome, history>>

\* The three samples at the duration boundary.
EndState ==
    /\ phase = "endState"
    /\ Sample
    /\ states' = states + 1
    /\ phase' = "endHealth"
    /\ UNCHANGED <<config, time, now, schedule, cancelled, healths, infos,
                   outcome, stateTimes, healthTimes>>

EndHealth ==
    /\ phase = "endHealth"
    /\ Sample
    /\ healths' = healths + 1
    /\ phase' = "endInfo"
    /\ UNCHANGED <<config, time, now, schedule, cancelled, states, infos,
                   outcome, stateTimes, healthTimes>>

EndInfo ==
    /\ phase = "endInfo"
    /\ Sample
    /\ infos' = infos + 1
    /\ phase' = "finish"
    /\ UNCHANGED <<config, time, now, schedule, cancelled, states, healths,
                   outcome, stateTimes, healthTimes>>

\* Mutant: an exception leaves the loop and nothing else.
SampleFailsQuietly ==
    /\ phase \in {"begin", "state", "health", "endState", "endHealth", "endInfo"}
    /\ phase' = "finish"
    /\ UNCHANGED <<config, time, now, schedule, cancelled, counts, outcome, history>>

\* An exception leaves the loop: the sample has appended one record or none,
\* and capture_internal_failure is appended, unless that fails too.
SampleFails ==
    /\ phase \in {"begin", "state", "health", "endState", "endHealth", "endInfo"}
    /\ \E n \in 0..2 : records' = records + n
    /\ outcome' = IF cancelled THEN "cancelled" ELSE "failed"
    /\ phase' = "finish"
    /\ UNCHANGED <<config, time, now, schedule, cancelled, states, healths,
                   infos, history>>

\* CaptureRunner._complete: the terminal record, or a failure if the recorder
\* refuses it.
Complete ==
    /\ phase = "finish"
    /\ \/ /\ outcome' = IF cancelled THEN "cancelled"
                        ELSE IF outcome = "running" THEN "completed"
                        ELSE outcome
          /\ records' = records + 1
       \/ /\ outcome' = "failed"
          /\ UNCHANGED records
    /\ phase' = "done"
    /\ UNCHANGED <<config, time, now, schedule, cancelled, states, healths,
                   infos, history>>

\* CaptureRunner.stop sets the event at any time of the run.
Cancel ==
    /\ phase # "done" /\ ~cancelled
    /\ cancelled' = TRUE
    /\ UNCHANGED <<config, phase, time, now, schedule, counts, outcome, history>>

Run ==
    \/ SampleInfo \/ LoopHead \/ SampleState \/ Between \/ SampleHealth \/ Wait
    \/ EndState \/ EndHealth \/ EndInfo \/ SampleFails \/ Complete

Next == Run \/ Cancel

Spec == Init /\ [][Next]_vars
\* The thread runs; fetches and waits have timeouts.
FairSpec == Spec /\ WF_vars(Run)
-----------------------------------------------------------------------------
Phases == {"begin", "head", "state", "between", "health", "wait", "endState",
           "endHealth", "endInfo", "finish", "done"}

\* Every variable keeps its type.
TypeOK ==
    /\ config \in Configs /\ phase \in Phases
    /\ time \in Nat /\ now \in Nat
    /\ nextState \in Nat /\ nextHealth \in Nat /\ cancelled \in BOOLEAN
    /\ states \in Nat /\ healths \in Nat /\ infos \in Nat /\ records \in Nat
    /\ outcome \in {"running", "completed", "cancelled", "failed"}
    /\ stateTimes \in Int \X Int /\ healthTimes \in Int \X Int

\* "A completed nominal run must not silently discard its own evidence":
\* however late fetches and waits are, and wherever the run is cancelled or
\* fails, it never appends more records than its recorder was sized for.
RecordsWithinEstimate == records <= EstimatedRecords

\* "Advances the schedule instead of issuing a burst of catch-up requests":
\* of three scheduled samples in a row, the last begins more than an interval
\* after the first, however slow the device was in between.
NoBurst ==
    /\ phase = "state" /\ stateTimes[1] >= 0 =>
          time > stateTimes[1] + config.state
    /\ phase = "health" /\ healthTimes[1] >= 0 =>
          time > healthTimes[1] + config.health

\* "completed reached its normal boundary": a run that ends as completed lasted
\* its duration and took every sample of its end, whatever failed or was
\* cancelled on the way; only a run that was told to stop ends as cancelled.
OutcomeTruthful ==
    /\ outcome = "completed" =>
          /\ time >= config.duration
          /\ infos = 2 /\ healths > 0 /\ states > 0
    /\ outcome = "cancelled" => cancelled

\* Every capture comes to an end.
Terminates == <>(phase = "done")

-----------------------------------------------------------------------------
(* The inductive invariant behind RecordsWithinEstimate and NoBurst.       *)

Looping == {"head", "state", "between", "health", "wait"}
StateCeil == Ceil(config.duration, config.state)
HealthCeil == Ceil(config.duration, config.health)

\* What the thread has just read of the clock.
Clock ==
    /\ now <= time
    /\ phase = "state" => now = time /\ nextState <= now /\ now < config.duration
    /\ phase = "health" => now = time /\ nextHealth <= now

\* n samples have been scheduled: the next one lies n intervals after the
\* start, and an interval after the last but one.
Grid(n, next, interval, times) ==
    /\ n * interval <= next
    /\ times[2] >= 0 => next > times[2]
    /\ times[1] >= 0 => next > times[1] + interval

Grids ==
    phase \in Looping \union {"begin", "endState"} =>
        /\ Grid(states, nextState, config.state, stateTimes)
        /\ Grid(healths, nextHealth, config.health, healthTimes)
        /\ healths > 0 => healths * config.health <= time + config.health

\* A health sample may begin after the duration, a state sample may not.
Counts ==
    /\ states <= StateCeil + (IF phase \in {"endHealth", "endInfo", "finish", "done"}
                              THEN 1 ELSE 0)
    /\ healths <= HealthCeil + (IF phase \in {"state", "between", "health"} THEN 0
                                ELSE IF phase \in {"endInfo", "finish", "done"} THEN 2
                                ELSE 1)
    /\ infos <= 2 /\ (phase = "begin" => infos = 0 /\ healths = 0)
    /\ phase \in Looping \union {"endState", "endHealth", "endInfo"} => infos = 1

Recorded ==
    records <= 1 + 2 * (states + healths + infos)
                 + (IF phase = "finish" THEN 2 ELSE IF phase = "done" THEN 3 ELSE 0)

\* Both schedules keep to their grids, and every record is a sample's or one
\* of the four that a run may add.
ScheduleInv == TypeOK /\ Clock /\ Grids /\ Counts /\ Recorded

\* What a run that is about to be completed has behind it.
Ended ==
    /\ time >= config.duration
    /\ states > 0 /\ healths > 0 /\ infos = 2

\* The inductive invariant behind OutcomeTruthful, next to ScheduleInv.
OutcomeInv ==
    /\ phase \notin {"finish", "done"} => outcome = "running"
    /\ phase \in {"endState", "endHealth", "endInfo"} => time >= config.duration
    /\ phase \in {"endHealth", "endInfo"} => states > 0
    /\ phase = "endInfo" => healths > 0
    /\ phase = "finish" /\ outcome = "running" /\ ~cancelled => Ended
    /\ phase = "finish" => outcome # "completed"
    /\ OutcomeTruthful
=============================================================================
