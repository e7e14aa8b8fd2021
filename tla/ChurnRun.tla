------------------------------ MODULE ChurnRun ------------------------------
(***************************************************************************)
(* One run of the SSE churn exercise, from the return of start() on: the   *)
(* thread of the run, the stream worker of every cycle, the requests that  *)
(* stop the run and the watcher that waits for its end.                    *)
(*                                                                         *)
(* Bounds on time are choices: a wait with a deadline may end by it at any *)
(* moment.  Health samples keep what the settlement reads of them.         *)
(***************************************************************************)
EXTENDS Naturals, FiniteSets

CONSTANTS
    Cycles,       \* config.cycles
    MaxEvents,    \* config.max_events
    Checkpoints,  \* length of the settlement schedule
    Samples,      \* health samples: a client count, if any, and a heap or none
    MaxFaults,    \* bound: cleanups that time out and recorders that break
    Stoppers,     \* handler threads that call stop()
    Runner,       \* the thread of the run
    Watcher,      \* the thread that polls wait_finished and snapshot
    None

\* Values of summary["outcome"].
Outcomes == {"connecting", "connected", "unavailable", "transport_failure",
             "cleanup_timeout", "controller_failure", "cancelled", "remote_eof",
             "disconnected"}
\* Values of the state of a run that has ended.
Terminal == {"completed", "cancelled", "failed"}

ASSUME ChurnConstants ==
    /\ Cycles \in Nat \ {0} /\ MaxEvents \in Nat \ {0} /\ Checkpoints \in Nat \ {0}
    /\ MaxFaults \in Nat
    /\ \A s \in Samples : s.clients \in Nat \union {None} /\ s.heap \in BOOLEAN
    /\ None \notin Nat \union Outcomes \union Terminal
    /\ Runner # Watcher /\ {Runner, Watcher} \intersect Stoppers = {}

Cycle == 1..Cycles
Threads == Stoppers \union {Runner, Watcher}

VARIABLES
    \* ChurnRunner
    state,         \* _state["state"]
    cycle,         \* _state["current_cycle"]
    failure,       \* _state["failure"] is set
    baseline,      \* settlement["baseline_sse_clients"]
    latest,        \* _state["latest_health"]
    settlement,    \* settlement["state"]
    taken,         \* settlement["samples"]: how many
    cancel, interrupt, finished, \* the events that are set
    streamThread,  \* _stream_thread, by its cycle
    pending,       \* _pending_terminal
    claimed,       \* _terminal_recorded
    \* cycles
    outcome,       \* summary["outcome"]
    judged,        \* the outcome churn_cycle_finished has recorded
    events, opened, bound, \* what the callbacks of the stream have noted
    \* stream workers
    at, stopSet, reason, crashed,
    shut,          \* streams whose socket close_stream has shut down
    response,      \* the stream the client has registered
    \* threads
    pc,
    ok,            \* no exception so far: outcome, then proposed_terminal
    fault,         \* cleanup_failure of the cycle is not None
    seen,          \* stream_stop a request has read
    recorder,      \* what the persistent recorder of the run does with records
    \* bound and history
    faults,
    terminals,     \* terminal records written
    trailing,      \* a record came behind the terminal one
    remote         \* streams the device has ended

settling == <<baseline, latest, settlement, taken>>
ending == <<finished, pending, claimed>>
summaries == <<outcome, judged, events, opened, bound>>
worker == <<at, reason, crashed, remote>>
record == <<recorder, terminals, trailing, faults>>
vars == <<state, cycle, failure, settling, cancel, interrupt, ending,
          streamThread, summaries, worker, stopSet, shut, response, pc, ok,
          fault, seen, record>>

Alive(c) == at[c] \notin {"none", "ended"}
\* ConnectionBudget.active, once the run samples no more health.
Holding == {c \in Cycle : at[c] \in {"connecting", "register", "reading", "waiting"}}

Init ==
    /\ state = "running" /\ cycle = 0 /\ failure = FALSE
    /\ baseline = None /\ latest = [clients |-> None, heap |-> FALSE]
    /\ settlement = "not_started" /\ taken = 0
    /\ cancel = FALSE /\ interrupt = FALSE /\ finished = FALSE
    /\ streamThread = None /\ pending = None /\ claimed = FALSE
    /\ outcome = [c \in Cycle |-> "connecting"] /\ judged = [c \in Cycle |-> None]
    /\ events = [c \in Cycle |-> 0] /\ opened = {} /\ bound = {}
    /\ at = [c \in Cycle |-> "none"] /\ stopSet = {} /\ crashed = {}
    /\ reason = [c \in Cycle |-> "none"] /\ shut = {} /\ response = None
    /\ pc = [t \in Threads |-> IF t = Runner THEN "before" ELSE "idle"]
    /\ ok = TRUE /\ fault = FALSE /\ seen = [s \in Stoppers |-> None]
    /\ recorder = "open"
    /\ terminals = 0 /\ faults = 0 /\ trailing = FALSE /\ remote = {}

Goto(t, label) == pc' = [pc EXCEPT ![t] = label]

\* A record is taken, or refused, and then all are.
Append == recorder = "open" /\ UNCHANGED record

Refuse ==
    /\ \/ /\ recorder = "open" /\ faults < MaxFaults
          /\ faults' = faults + 1 /\ recorder' = "failed"
       \/ recorder # "open" /\ UNCHANGED <<recorder, faults>>
    /\ trailing' = (trailing \/ recorder = "closed")
    /\ UNCHANGED terminals

\* _persist_failure
Fail == recorder' = IF recorder = "open" THEN "failed" ELSE recorder

\* Mutant: a stream is not shut down.
CloseNothing == UNCHANGED shut

\* close_stream
CloseStream == shut' = IF response = None THEN shut ELSE shut \union {response}
-----------------------------------------------------------------------------
(* Stream workers.                                                         *)

StreamEnds(c, why) ==
    /\ at' = [at EXCEPT ![c] = "closing"]
    /\ reason' = [reason EXCEPT ![c] = why]

\* An exception: after a stop it is the end of the stream, else an error.
StreamFails(c) ==
    \/ c \in stopSet /\ StreamEnds(c, "stopped") /\ UNCHANGED <<outcome, record>>
    \/ /\ c \notin stopSet /\ Append
       /\ outcome' = [outcome EXCEPT ![c] = "transport_failure"]
       /\ StreamEnds(c, "error")
    \/ c \notin stopSet /\ Refuse /\ StreamEnds(c, "error") /\ UNCHANGED outcome

WorkerOnly == UNCHANGED <<state, cycle, failure, settling, cancel, interrupt,
                          ending, streamThread, judged, shut, pc, ok, fault, seen>>

Dial(c) ==
    /\ at[c] = "dialing"
    /\ \/ Append /\ at' = [at EXCEPT ![c] = "connecting"] /\ UNCHANGED crashed
       \/ Refuse /\ at' = [at EXCEPT ![c] = "ended"] /\ crashed' = crashed \union {c}
    /\ WorkerOnly
    /\ UNCHANGED <<outcome, events, opened, bound, reason, remote, stopSet, response>>

\* The response is there: a stop seen now closes it.
Answered(c) ==
    /\ at[c] = "connecting"
    /\ IF c \in stopSet THEN StreamEnds(c, "stopped")
       ELSE at' = [at EXCEPT ![c] = "register"] /\ UNCHANGED reason
    /\ WorkerOnly
    /\ UNCHANGED <<summaries, crashed, remote, stopSet, response, record>>

Rejected(c) ==
    /\ at[c] = "connecting"
    /\ \/ Append /\ outcome' = [outcome EXCEPT ![c] = "unavailable"]
       \/ Refuse /\ UNCHANGED outcome
    /\ StreamEnds(c, "unavailable")
    /\ WorkerOnly
    /\ UNCHANGED <<events, opened, bound, crashed, remote, stopSet, response>>

Unreachable(c) ==
    /\ at[c] = "connecting" /\ StreamFails(c)
    /\ WorkerOnly
    /\ UNCHANGED <<events, opened, bound, crashed, remote, stopSet, response>>

\* The response is registered, then sse_open and on_state("open").
Open(c) ==
    /\ at[c] = "register"
    /\ response' = c
    /\ \/ /\ Append
          /\ outcome' = [outcome EXCEPT ![c] = "connected"]
          /\ opened' = opened \union {c}
          /\ at' = [at EXCEPT ![c] = "reading"] /\ UNCHANGED reason
       \/ Refuse /\ StreamEnds(c, "error") /\ UNCHANGED <<outcome, opened>>
    /\ WorkerOnly
    /\ UNCHANGED <<events, bound, crashed, remote, stopSet>>

\* The head of the loop of _iter_sse, before it blocks in readline.
ReadOn(c) ==
    /\ at[c] = "reading"
    /\ IF c \in stopSet THEN StreamEnds(c, "stopped")
       ELSE at' = [at EXCEPT ![c] = "waiting"] /\ UNCHANGED reason
    /\ WorkerOnly
    /\ UNCHANGED <<summaries, crashed, remote, stopSet, response, record>>

\* An event arrives; at the bound, on_event stops the stream.
Event(c) ==
    /\ at[c] = "waiting"
    /\ \/ /\ c \in stopSet /\ StreamEnds(c, "stopped")
          /\ UNCHANGED <<events, bound, stopSet, record>>
       \/ /\ c \notin stopSet /\ Append
          /\ events' = [events EXCEPT ![c] = @ + 1]
          /\ LET full == IF events[c] + 1 >= MaxEvents THEN {c} ELSE {} IN
             bound' = bound \union full /\ stopSet' = stopSet \union full
          /\ at' = [at EXCEPT ![c] = "reading"] /\ UNCHANGED reason
       \/ /\ c \notin stopSet /\ Refuse /\ StreamEnds(c, "error")
          /\ UNCHANGED <<events, bound, stopSet>>
    /\ WorkerOnly
    /\ UNCHANGED <<outcome, opened, crashed, remote, response>>

EndOfStream(c) ==
    StreamEnds(c, IF c \in stopSet THEN "stopped" ELSE "end_of_stream")

\* The device ends the stream, or close_stream has shut the socket down.
DeviceEnds(c) ==
    /\ at[c] = "waiting" /\ c \notin shut /\ EndOfStream(c)
    /\ remote' = remote \union {c}
    /\ WorkerOnly
    /\ UNCHANGED <<summaries, crashed, stopSet, response, record>>

ShutEnds(c) ==
    /\ at[c] = "waiting" /\ c \in shut /\ EndOfStream(c)
    /\ WorkerOnly
    /\ UNCHANGED <<summaries, crashed, remote, stopSet, response, record>>

ReadFails(c) ==
    /\ at[c] = "waiting" /\ StreamFails(c)
    /\ WorkerOnly
    /\ UNCHANGED <<events, opened, bound, crashed, remote, stopSet, response>>

\* The finally of stream_events, sse_closed and the end of the worker.
Closed(c) ==
    /\ at[c] = "closing"
    /\ response' = None
    /\ at' = [at EXCEPT ![c] = "ended"]
    /\ \/ Append /\ UNCHANGED crashed
       \/ Refuse /\ crashed' = crashed \union {c}
    /\ WorkerOnly
    /\ UNCHANGED <<outcome, events, opened, bound, reason, remote, stopSet>>

Worker(c) ==
    \/ Dial(c) \/ Answered(c) \/ Rejected(c) \/ Unreachable(c) \/ Open(c)
    \/ ReadOn(c) \/ Event(c) \/ DeviceEnds(c)
    \/ ShutEnds(c) \/ ReadFails(c) \/ Closed(c)
-----------------------------------------------------------------------------
(* The thread of the run.                                                  *)

RunnerOnly == UNCHANGED <<cancel, interrupt, finished, claimed, events, opened,
                          bound, worker, response, seen>>

\* A sample of health, kept in latest, and the label it leads to; when its
\* record is refused, the exception leads to another.
Sample(next, handler) ==
    \/ Append /\ latest' \in Samples /\ Goto(Runner, next)
    \/ Refuse /\ UNCHANGED latest /\ Goto(Runner, handler)

SampleBefore ==
    /\ pc[Runner] = "before"
    /\ Sample("head", "except")
    /\ baseline' = latest'.clients
    /\ RunnerOnly
    /\ UNCHANGED <<state, cycle, failure, settlement, taken, streamThread, pending,
                   outcome, judged, stopSet, shut, ok, fault>>

\* A cycle begins, unless the run is cancelled.
CycleStarts ==
    /\ pc[Runner] = "head"
    /\ IF cancel
       THEN Goto(Runner, "after") /\ UNCHANGED <<cycle, at, streamThread, record>>
       ELSE /\ cycle' = cycle + 1
            /\ \/ /\ Append
                  /\ at' = [at EXCEPT ![cycle'] = "dialing"]
                  /\ streamThread' = cycle' /\ Goto(Runner, "opening")
               \/ Refuse /\ Goto(Runner, "except") /\ UNCHANGED <<at, streamThread>>
    /\ UNCHANGED <<state, failure, settling, cancel, interrupt, ending, summaries,
                   reason, crashed, remote, stopSet, shut, response, ok, fault, seen>>

\* The wait for the stream ends by itself ...
Opening ==
    /\ pc[Runner] = "opening"
    /\ cycle \in opened \/ ~Alive(cycle) \/ cancel
    /\ Goto(Runner, "opened")
    /\ RunnerOnly
    /\ UNCHANGED <<state, cycle, failure, settling, streamThread, pending, outcome,
                   judged, stopSet, shut, ok, fault, record>>

\* ... or by its deadline: the stream is stopped and closed.
OpeningTimesOut ==
    /\ pc[Runner] = "opening"
    /\ cycle \notin opened /\ Alive(cycle) /\ ~cancel
    /\ stopSet' = stopSet \union {cycle} /\ CloseStream
    /\ Goto(Runner, "opened")
    /\ RunnerOnly
    /\ UNCHANGED <<state, cycle, failure, settling, streamThread, pending, outcome,
                   judged, ok, fault, record>>

SampleOpen ==
    /\ pc[Runner] = "opened"
    /\ IF cycle \in opened /\ ~cancel THEN Sample("observing", "except")
       ELSE Goto(Runner, "observing") /\ UNCHANGED <<latest, record>>
    /\ RunnerOnly
    /\ UNCHANGED <<state, cycle, failure, baseline, settlement, taken, streamThread,
                   pending, outcome, judged, stopSet, shut, ok, fault>>

\* The observation ends, at the latest by its duration.  An open stream that is
\* not done, or was ended here, is disconnected on purpose.
Observed ==
    /\ pc[Runner] = "observing"
    /\ IF cycle \in opened /\ (cancel \/ cycle \in bound \/ Alive(cycle))
       THEN \/ Append /\ Goto(Runner, "disconnect")
            \/ Refuse /\ Goto(Runner, "except")
       ELSE Goto(Runner, "disconnect") /\ UNCHANGED record
    /\ RunnerOnly
    /\ UNCHANGED <<state, cycle, failure, settling, streamThread, pending, outcome,
                   judged, stopSet, shut, ok, fault>>

\* Mutant: the stream is closed before it is told to stop.
DisconnectCloses ==
    /\ \/ /\ pc[Runner] = "disconnect" /\ Goto(Runner, "close")
          /\ CloseStream /\ UNCHANGED stopSet
       \/ /\ pc[Runner] = "close" /\ Goto(Runner, "join")
          /\ stopSet' = stopSet \union {cycle} /\ UNCHANGED shut
    /\ RunnerOnly
    /\ UNCHANGED <<state, cycle, failure, settling, streamThread, pending, outcome,
                   judged, ok, fault, record>>

\* The stream is told to stop, and then closed.
Disconnect ==
    /\ \/ /\ pc[Runner] = "disconnect" /\ Goto(Runner, "close")
          /\ stopSet' = stopSet \union {cycle} /\ UNCHANGED shut
       \/ /\ pc[Runner] = "close" /\ Goto(Runner, "join")
          /\ CloseStream /\ UNCHANGED stopSet
    /\ RunnerOnly
    /\ UNCHANGED <<state, cycle, failure, settling, streamThread, pending, outcome,
                   judged, ok, fault, record>>

\* Mutant: the bound of the join is taken for the end of the worker.
JoinForgets ==
    /\ pc[Runner] = "join"
    /\ fault' = (cycle \in crashed)
    /\ outcome' = IF fault' THEN [outcome EXCEPT ![cycle] = "controller_failure"]
                  ELSE outcome
    /\ Goto(Runner, "sample")
    /\ RunnerOnly
    /\ UNCHANGED <<state, cycle, failure, settling, streamThread, pending, judged,
                   stopSet, shut, ok, record>>

\* The join ends with the worker, or by its bound.
Join ==
    /\ pc[Runner] = "join"
    /\ \/ /\ Alive(cycle) /\ faults < MaxFaults /\ faults' = faults + 1
          /\ recorder = "open" /\ UNCHANGED <<recorder, terminals, trailing>>
          /\ outcome' = [outcome EXCEPT ![cycle] = "cleanup_timeout"]
          /\ fault' = TRUE /\ Goto(Runner, "sample")
       \/ /\ Alive(cycle) /\ Refuse
          /\ Goto(Runner, "except") /\ UNCHANGED <<outcome, fault>>
       \/ /\ ~Alive(cycle)
          /\ fault' = (cycle \in crashed)
          /\ outcome' = IF fault' THEN [outcome EXCEPT ![cycle] = "controller_failure"]
                        ELSE outcome
          /\ Goto(Runner, "sample") /\ UNCHANGED record
    /\ RunnerOnly
    /\ UNCHANGED <<state, cycle, failure, settling, streamThread, pending, judged,
                   stopSet, shut, ok>>

SampleDisconnect ==
    /\ pc[Runner] = "sample"
    /\ IF ~cancel /\ ~fault THEN Sample("judge", "except")
       ELSE Goto(Runner, "judge") /\ UNCHANGED <<latest, record>>
    /\ RunnerOnly
    /\ UNCHANGED <<state, cycle, failure, baseline, settlement, taken, streamThread,
                   pending, outcome, judged, stopSet, shut, ok, fault>>

Verdict(c) ==
    IF outcome[c] # "connected" THEN outcome[c]
    ELSE IF cancel THEN "cancelled"
    ELSE IF reason[c] = "end_of_stream" /\ c \notin crashed THEN "remote_eof"
    ELSE "disconnected"

\* What _run_cycle and its callbacks have noted of an ended stream goes with
\* them; a worker that is still alive keeps its own.
Forget(c) ==
    IF Alive(c) THEN UNCHANGED <<events, opened, bound, reason, remote, crashed, stopSet, shut>>
    ELSE /\ events' = [events EXCEPT ![c] = 0] /\ reason' = [reason EXCEPT ![c] = "none"]
         /\ opened' = opened \ {c} /\ bound' = bound \ {c} /\ remote' = remote \ {c}
         /\ crashed' = crashed \ {c} /\ stopSet' = stopSet \ {c} /\ shut' = shut \ {c}

\* The summary of the cycle is completed, and its record written.
CycleFinishes ==
    /\ pc[Runner] = "judge"
    /\ Forget(cycle)
    /\ outcome' = [outcome EXCEPT ![cycle] = Verdict(cycle)]
    /\ streamThread' = IF Alive(cycle) THEN streamThread ELSE None
    /\ \/ /\ Append /\ judged' = [judged EXCEPT ![cycle] = Verdict(cycle)]
          /\ Goto(Runner, IF fault THEN "except" ELSE "delay")
       \/ Refuse /\ Goto(Runner, "except") /\ UNCHANGED judged
    /\ UNCHANGED <<state, cycle, failure, settling, cancel, interrupt, ending, at,
                   response, ok, fault, seen>>

Delay ==
    /\ pc[Runner] = "delay"
    /\ Goto(Runner, IF cancel \/ cycle = Cycles THEN "after" ELSE "head")
    /\ RunnerOnly
    /\ UNCHANGED <<state, cycle, failure, settling, streamThread, pending, outcome,
                   judged, stopSet, shut, ok, fault, record>>

SampleAfter ==
    /\ pc[Runner] = "after"
    /\ IF cancel THEN Goto(Runner, "final") /\ UNCHANGED <<latest, record>>
       ELSE Sample("final", "except")
    /\ RunnerOnly
    /\ UNCHANGED <<state, cycle, failure, baseline, settlement, taken, streamThread,
                   pending, outcome, judged, stopSet, shut, ok, fault>>

\* The run fails: its failure is recorded, or the recorder failed.
Except ==
    /\ pc[Runner] = "except"
    /\ failure' = TRUE /\ ok' = FALSE
    /\ Append \/ Refuse
    /\ Goto(Runner, "final")
    /\ RunnerOnly
    /\ UNCHANGED <<state, cycle, settling, streamThread, pending, outcome, judged,
                   stopSet, shut, fault>>

\* _cancel_active_stream; Settle may come before the worker has ended, when the
\* join reaches its bound.
CancelActiveStream ==
    /\ pc[Runner] = "final"
    /\ stopSet' = stopSet \union ({streamThread} \ {None}) /\ CloseStream
    /\ Goto(Runner, "settle")
    /\ RunnerOnly
    /\ UNCHANGED <<state, cycle, failure, settling, streamThread, pending, outcome,
                   judged, ok, fault, record>>
-----------------------------------------------------------------------------
(* Settlement and the end of the run.                                      *)

\* Mutant: any client count has recovered.
RecoveredAny(sample) == sample.clients # None

Recovered(sample) ==
    /\ baseline # None /\ sample.clients # None
    /\ sample.clients <= baseline

SettleOnly ==
    /\ RunnerOnly
    /\ UNCHANGED <<cycle, baseline, streamThread, outcome, judged, stopSet, shut, fault>>

\* _finish_settlement: what the settlement is, and its record.
Settled(what) ==
    /\ settlement' = what
    /\ \/ Append /\ Goto(Runner, "decide")
       \/ Refuse /\ Goto(Runner, "unsettled")

SettlementNeeded ==
    /\ baseline # None \/ latest.heap
    /\ ~Recovered(latest)

\* A failed run settles nothing; otherwise the latest health may decide at once.
Settle ==
    /\ pc[Runner] = "settle"
    /\ \/ /\ ~ok /\ ~cancel /\ Goto(Runner, "decide") /\ UNCHANGED <<settlement, record>>
       \/ /\ ok \/ cancel
          /\ ~SettlementNeeded
          /\ Settled(IF Recovered(latest) THEN "recovered" ELSE "not_applicable")
    /\ SettleOnly
    /\ UNCHANGED <<state, failure, latest, taken, pending, ok>>

SettlementStarts ==
    /\ pc[Runner] = "settle"
    /\ ok \/ cancel
    /\ SettlementNeeded
    /\ state' = "settling" /\ settlement' = "settling"
    /\ \/ Append /\ Goto(Runner, "checkpoint")
       \/ Refuse /\ Goto(Runner, "unsettled")
    /\ SettleOnly
    /\ UNCHANGED <<failure, latest, taken, pending, ok>>

\* The wait for a checkpoint is interrupted, or the checkpoint samples health.
Interrupted ==
    /\ pc[Runner] = "checkpoint" /\ interrupt
    /\ Settled("interrupted")
    /\ SettleOnly
    /\ UNCHANGED <<state, failure, latest, taken, pending, ok>>

Checkpoint ==
    /\ pc[Runner] = "checkpoint" /\ ~interrupt
    /\ \/ Append /\ latest' \in Samples /\ taken' = taken + 1 /\ Goto(Runner, "compare")
       \/ Refuse /\ Goto(Runner, "unsettled") /\ UNCHANGED <<latest, taken>>
    /\ SettleOnly
    /\ UNCHANGED <<state, failure, settlement, pending, ok>>

Compare ==
    /\ pc[Runner] = "compare"
    /\ \/ baseline = None /\ Settled("not_applicable")
       \/ baseline # None /\ Recovered(latest) /\ Settled("recovered")
       \/ /\ baseline # None /\ ~Recovered(latest) /\ taken = Checkpoints
          /\ Settled("timed_out")
       \/ /\ baseline # None /\ ~Recovered(latest) /\ taken < Checkpoints
          /\ Goto(Runner, "checkpoint") /\ UNCHANGED <<settlement, record>>
    /\ SettleOnly
    /\ UNCHANGED <<state, failure, latest, taken, pending, ok>>

\* An exception of the settlement fails the run.
Unsettled ==
    /\ pc[Runner] = "unsettled"
    /\ ok' = FALSE /\ failure' = TRUE
    /\ Fail /\ UNCHANGED <<terminals, trailing, faults>>
    /\ Goto(Runner, "decide")
    /\ SettleOnly
    /\ UNCHANGED <<state, latest, settlement, taken, pending>>

\* Mutant: an exception does not fail the run.
DecideOnCancel ==
    /\ pc[Runner] = "decide"
    /\ pending' = IF cancel THEN "cancelled" ELSE "completed"
    /\ state' = "stopping"
    /\ Goto(Runner, "finish")
    /\ SettleOnly
    /\ UNCHANGED <<failure, latest, settlement, taken, ok, record>>

Decide ==
    /\ pc[Runner] = "decide"
    /\ pending' = IF cancel THEN "cancelled" ELSE IF ok THEN "completed" ELSE "failed"
    /\ state' = "stopping"
    /\ Goto(Runner, "finish")
    /\ SettleOnly
    /\ UNCHANGED <<failure, latest, settlement, taken, ok, record>>

\* Mutant: the stream worker is not waited for.
CompleteEarly(t) == pending # None /\ (t = Runner \/ pc[Runner] = "dead")

\* The guards of _finish_if_complete.
Complete(t) ==
    /\ pending # None
    /\ t = Runner \/ pc[Runner] = "dead"
    /\ streamThread = None \/ ~Alive(streamThread)
    /\ Holding = {}

\* _finish_if_complete under the lock: the first to find the run complete ends
\* it, and writes the terminal record; everybody else finds it ended, or not.
FinishIfComplete(t, next) ==
    IF state \in Terminal
    THEN /\ finished' = TRUE /\ Goto(t, next)
         /\ UNCHANGED <<state, streamThread, claimed>>
    ELSE IF Complete(t)
    THEN /\ state' = pending /\ streamThread' = None /\ claimed' = TRUE
         /\ IF claimed THEN finished' = TRUE /\ Goto(t, next)
            ELSE Goto(t, "record") /\ UNCHANGED finished
    ELSE Goto(t, next) /\ UNCHANGED <<state, streamThread, claimed, finished>>

FinishOnly == UNCHANGED <<cycle, settling, cancel, interrupt, pending, summaries,
                          worker, stopSet, shut, response, ok, fault, seen>>

Rest(t) == IF t = Runner THEN "dead" ELSE IF t = Watcher THEN "idle" ELSE "done"

Finish(t) ==
    /\ pc[t] = "finish"
    /\ FinishIfComplete(t, Rest(t))
    /\ FinishOnly /\ UNCHANGED <<failure, record>>

\* The terminal record, outside the lock; refused, it fails the run.
RecordTerminal(t) ==
    /\ pc[t] = "record"
    /\ \/ /\ recorder = "open" /\ recorder' = "closed"
          /\ terminals' = terminals + 1 /\ UNCHANGED <<trailing, faults>>
          /\ UNCHANGED <<state, failure>>
       \/ Refuse /\ state' = "failed" /\ failure' = TRUE
    /\ finished' = TRUE
    /\ Goto(t, Rest(t))
    /\ FinishOnly /\ UNCHANGED <<claimed, streamThread>>

Run ==
    \/ SampleBefore \/ CycleStarts \/ Opening \/ OpeningTimesOut
    \/ SampleOpen \/ Observed \/ Disconnect \/ Join \/ SampleDisconnect
    \/ CycleFinishes \/ Delay \/ SampleAfter \/ Except \/ CancelActiveStream
    \/ Settle \/ SettlementStarts \/ Interrupted \/ Checkpoint \/ Compare
    \/ Unsettled \/ Decide \/ Finish(Runner) \/ RecordTerminal(Runner)
-----------------------------------------------------------------------------
(* Requests and the watcher.                                               *)

StopOnly == UNCHANGED <<cycle, failure, settling, ending, streamThread, summaries,
                        worker, response, ok, fault, record>>

\* stop(): the state and the stream of the moment, under the lock ...
StopReads(s) ==
    /\ pc[s] = "idle"
    /\ IF state \in Terminal
       THEN Goto(s, "done") /\ UNCHANGED <<state, seen>>
       ELSE /\ state' = "stopping"
            /\ seen' = [seen EXCEPT ![s] = streamThread]
            /\ Goto(s, IF state = "settling" THEN "interrupt" ELSE "cancel")
    /\ StopOnly /\ UNCHANGED <<cancel, interrupt, stopSet, shut>>

\* ... and then what they call for, without it.
StopTells(s) ==
    /\ \/ /\ pc[s] = "interrupt" /\ interrupt' = TRUE /\ Goto(s, "cancel")
          /\ UNCHANGED <<cancel, stopSet, shut, seen>>
       \/ /\ pc[s] = "cancel" /\ cancel' = TRUE /\ Goto(s, "close")
          /\ UNCHANGED <<interrupt, stopSet, shut, seen>>
       \/ /\ pc[s] = "close"
          /\ stopSet' = stopSet \union ({seen[s]} \ {None}) /\ CloseStream
          /\ seen' = [seen EXCEPT ![s] = None] /\ Goto(s, "finish")
          /\ UNCHANGED <<cancel, interrupt>>
    /\ StopOnly /\ UNCHANGED state

\* wait_finished and snapshot look whether the run is complete.
Watch ==
    /\ pc[Watcher] = "idle"
    /\ FinishIfComplete(Watcher, "idle")
    /\ FinishOnly /\ UNCHANGED <<failure, record>>

Request(s) == StopReads(s) \/ StopTells(s) \/ Finish(s) \/ RecordTerminal(s)

Next ==
    \/ Run
    \/ \E c \in Cycle : Worker(c)
    \/ \E s \in Stoppers : Request(s)
    \/ Watch \/ RecordTerminal(Watcher)

Spec == Init /\ [][Next]_vars

\* Threads go on; a connection attempt and a wait end by their time limits.  A
\* silent device is not obliged to send anything on an open stream.
Fairness ==
    /\ WF_vars(Run)
    /\ WF_vars(Watch \/ RecordTerminal(Watcher))
    /\ \A s \in Stoppers : WF_vars(Finish(s) \/ RecordTerminal(s) \/ StopTells(s))
    /\ \A c \in Cycle :
          WF_vars(Dial(c) \/ Answered(c) \/ Rejected(c) \/ Unreachable(c) \/ Open(c)
                  \/ ReadOn(c) \/ ShutEnds(c) \/ Closed(c))

FairSpec == Spec /\ Fairness
-----------------------------------------------------------------------------
(* Properties.                                                             *)

\* Every variable has its type.
TypeOK ==
    /\ state \in Terminal \union {"running", "settling", "stopping"}
    /\ cycle \in 0..Cycles /\ failure \in BOOLEAN
    /\ baseline \in {s.clients : s \in Samples} \union {None}
    /\ latest.heap \in BOOLEAN
    /\ settlement \in {"not_started", "settling", "recovered", "not_applicable",
                       "interrupted", "timed_out"}
    /\ taken \in 0..Checkpoints
    /\ {cancel, interrupt, finished, claimed, ok, fault, trailing} \subseteq BOOLEAN
    /\ streamThread \in Cycle \union {None} /\ response \in Cycle \union {None}
    /\ pending \in Terminal \union {None}
    /\ events \in [Cycle -> 0..MaxEvents]
    /\ UNION {opened, bound, stopSet, shut, crashed, remote} \subseteq Cycle
    /\ outcome \in [Cycle -> Outcomes] /\ judged \in [Cycle -> Outcomes \union {None}]
    /\ at \in [Cycle -> {"none", "dialing", "connecting", "register", "reading",
                         "waiting", "closing", "ended"}]
    /\ seen \in [Stoppers -> Cycle \union {None}]
    /\ recorder \in {"open", "closed", "failed"}
    /\ terminals \in Nat /\ faults \in Nat

\* The state of a run is terminal only when every stream worker has ended, and
\* with it its permit is back, and the settlement is over or has failed the run; its thread
\* has nothing left but the terminal record (docs/churn-runner.md, "Cancellation
\* and cleanup").
TerminalMeansClean ==
    state \in Terminal =>
       /\ \A c \in Cycle : ~Alive(c)
       /\ settlement = "settling" => failure
       /\ pc[Runner] \in {"record", "dead"}

\* One terminal record at most, and no record behind it, of whatever thread.
TerminalRecordLast == terminals <= 1 /\ ~trailing

\* The types, a terminal run is clean, and its record is the last one
\* (_finish_if_complete).
RunInv == TypeOK /\ TerminalMeansClean /\ TerminalRecordLast

\* The verdict is earned: a completed run has judged every cycle, none of them by
\* a failed cleanup, and has settled; a cancelled one was told to stop; a failed
\* one keeps its failure.
VerdictEarned ==
    /\ state = "completed" =>
          /\ \A c \in Cycle :
                judged[c] \notin {None, "cleanup_timeout", "controller_failure"}
          /\ settlement \notin {"not_started", "settling"}
    /\ state = "cancelled" => cancel
    /\ state = "failed" => failure

\* What the record of a cycle says stays what the run shows of it, unless the
\* cleanup of the cycle has timed out, when its worker may still report.
JudgementStands ==
    \A c \in Cycle :
       judged[c] \notin {None, "cleanup_timeout"} => outcome[c] = judged[c]

\* The settlement says what has been seen: an interruption was asked for, a
\* recovery is a count that is back at the baseline, and a timeout has taken all
\* its samples and seen no recovery.
SettlementTruthful ==
    /\ settlement = "interrupted" => interrupt
    /\ settlement = "recovered" =>
          /\ baseline # None /\ latest.clients # None
          /\ latest.clients <= baseline
    /\ settlement = "timed_out" =>
          /\ taken = Checkpoints /\ baseline # None
          /\ latest.clients # None => latest.clients > baseline

\* As long as nobody asks the run to stop, only a stream that the device has
\* ended counts as ended by the device: the run tells a stream to stop before it
\* shuts its socket down.
OwnCloseIsNotRemote ==
    ~cancel => \A c \in Cycle : reason[c] = "end_of_stream" => c \in remote

\* A run ends, stopped or not, and its watcher is told so.
RunEnds == <>[](finished /\ state \in Terminal)
=============================================================================
