--------------------------- MODULE ChurnRunProofs ---------------------------
(***************************************************************************)
(* Proofs about ChurnRun, for any number of cycles, events, checkpoints,   *)
(* stop requests and faults.  ChurnInv is the inductive invariant; each of *)
(* its parts is kept by every step in a lemma of its own.                  *)
(***************************************************************************)
EXTENDS ChurnRun, TLAPS

\* Places of the run's thread: outside a cycle, in one, in the settlement, and
\* after its verdict.
BeforeCycle == {"before", "head", "delay", "after"}
InCycle == {"opening", "opened", "observing", "disconnect", "close", "join",
            "sample", "judge"}
Settles == {"settle", "checkpoint", "compare", "unsettled", "decide"}
Ended == {"finish", "record", "dead"}

\* Values of latest_health, of the end of a stream, and what a stream may be
\* while its cycle has not been judged.
Health == Samples \union {[clients |-> None, heap |-> FALSE]}
Reasons == {"none", "stopped", "error", "unavailable", "end_of_stream"}
Untouched == {"connecting", "connected", "unavailable", "transport_failure"}
Streaming == {"reading", "waiting", "closing"}

\* Where the threads are, and the types of what they share.
Control ==
    /\ pc \in [Threads -> BeforeCycle \union InCycle \union {"except", "final"}
                  \union Settles \union Ended
                  \union {"idle", "interrupt", "cancel", "done"}]
    /\ pc[Runner] \in BeforeCycle \union InCycle \union {"except", "final"}
                  \union Settles \union Ended
    /\ pc[Watcher] \in {"idle", "record"}
    /\ \A s \in Stoppers :
          pc[s] \in {"idle", "interrupt", "cancel", "close", "finish", "record", "done"}
    /\ \A s \in Stoppers : pc[s] = "close" => cancel
    /\ reason \in [Cycle -> Reasons] /\ latest \in Health

\* Who ends the run, and what the recorder has taken of it.
Ending ==
    /\ claimed <=> state \in Terminal
    /\ state \in Terminal => /\ pc[Runner] \in {"record", "dead"}
                             /\ \A c \in Cycle : ~Alive(c)
                             /\ state = pending \/ (state = "failed" /\ failure)
                             /\ pending \in Terminal
    /\ pending \in Terminal => pc[Runner] \in Ended
    /\ \A t \in Threads :
          pc[t] = "record" => claimed /\ terminals = 0 /\ recorder # "closed"
    /\ \A t, u \in Threads : pc[t] = "record" /\ pc[u] = "record" => t = u
    /\ recorder = "closed" => claimed
    /\ terminals = IF recorder = "closed" THEN 1 ELSE 0
    /\ ~trailing

\* The stream of the cycle that is under way is the only one.
Streams ==
    /\ \A c \in Cycle : Alive(c) => streamThread = c
    /\ \A c \in Cycle : c > cycle =>
          at[c] = "none" /\ judged[c] = None /\ outcome[c] = "connecting"
    /\ pc[Runner] \in InCycle =>
          cycle \in Cycle /\ streamThread = cycle /\ judged[cycle] = None
    /\ pc[Runner] \in BeforeCycle => \A c \in Cycle : ~Alive(c)
    /\ pc[Runner] = "before" => cycle = 0 /\ latest.clients = None
    /\ pc[Runner] = "head" => cycle < Cycles
    /\ pc[Runner] = "delay" => cycle \in Cycle
    /\ pc[Runner] \in {"close", "join", "sample", "judge"} => cycle \in stopSet
    /\ response # None => at[response] \in Streaming

\* What a stream has been told, and what it reports.
Telling ==
    /\ ~cancel => shut \subseteq stopSet
    /\ \A c \in Cycle : c \notin stopSet => events[c] < MaxEvents
    /\ OwnCloseIsNotRemote

\* A cycle whose cleanup has not failed has no worker left when it is judged;
\* one that has may still open or be refused, once.
Judging ==
    /\ pc[Runner] \in InCycle \ {"sample", "judge"} => outcome[cycle] \in Untouched
    /\ pc[Runner] \in {"sample", "judge"} =>
          /\ ~fault => ~Alive(cycle) /\ outcome[cycle] \in Untouched
          /\ Alive(cycle) =>
                outcome[cycle] = "cleanup_timeout" \/ at[cycle] \in Streaming
    /\ \A c \in Cycle : judged[c] \notin {None, "cleanup_timeout"} =>
          /\ outcome[c] = judged[c]
          /\ Alive(c) => c \in stopSet /\ at[c] \in Streaming

\* The cycle c has been judged, and its cleanup has not failed.
Good(c) == judged[c] \notin {None, "cleanup_timeout", "controller_failure"}

\* What the verdict of the run rests on.
Progress ==
    /\ ~ok => failure
    /\ ok /\ pc[Runner] # "except" =>
          \A c \in Cycle : c < cycle \/ (c = cycle /\ pc[Runner] \notin InCycle) => Good(c)
    /\ pc[Runner] \in {"after", "final"} \union Settles /\ ok /\ ~cancel => cycle = Cycles
    /\ pending = "completed" =>
          /\ \A c \in Cycle : Good(c)
          /\ settlement \notin {"not_started", "settling"}
    /\ pending = "cancelled" => cancel
    /\ pending = "failed" => failure

\* How far the settlement is.
Settlement ==
    /\ pc[Runner] \in BeforeCycle \union InCycle \union {"except", "final", "settle"} =>
          settlement = "not_started" /\ taken = 0
    /\ pc[Runner] \in {"checkpoint", "compare"} => settlement = "settling"
    /\ pc[Runner] = "checkpoint" => taken < Checkpoints
    /\ pc[Runner] = "decide" /\ ok => settlement \notin {"not_started", "settling"}
    /\ settlement = "settling" => pc[Runner] \in {"checkpoint", "compare", "unsettled"} \/ failure
    /\ settlement \notin {"not_started", "settling"} =>
          pc[Runner] \in {"unsettled", "decide"} \union Ended
    /\ SettlementTruthful
-----------------------------------------------------------------------------
\* TypeOK, taken apart: the run and its flags, its cycles and
\* their streams, and its records.
RunTypes ==
    /\ state \in Terminal \union {"running", "settling", "stopping"}
    /\ cycle \in 0..Cycles
    /\ baseline \in {s.clients : s \in Samples} \union {None}
    /\ settlement \in {"not_started", "settling", "recovered", "not_applicable",
                       "interrupted", "timed_out"}
    /\ taken \in 0..Checkpoints
    /\ streamThread \in Cycle \union {None} /\ response \in Cycle \union {None}
    /\ pending \in Terminal \union {None}

FlagTypes ==
    /\ failure \in BOOLEAN /\ latest.heap \in BOOLEAN
    /\ cancel \in BOOLEAN /\ interrupt \in BOOLEAN /\ finished \in BOOLEAN
    /\ claimed \in BOOLEAN /\ ok \in BOOLEAN /\ fault \in BOOLEAN

CycleTypes ==
    /\ events \in [Cycle -> 0..MaxEvents]
    /\ outcome \in [Cycle -> Outcomes] /\ judged \in [Cycle -> Outcomes \union {None}]
    /\ at \in [Cycle -> {"none", "dialing", "connecting", "register", "reading",
                         "waiting", "closing", "ended"}]
    /\ seen \in [Stoppers -> Cycle \union {None}]

SetTypes ==
    /\ opened \subseteq Cycle /\ bound \subseteq Cycle /\ stopSet \subseteq Cycle
    /\ shut \subseteq Cycle /\ crashed \subseteq Cycle /\ remote \subseteq Cycle

RecordTypes ==
    /\ recorder \in {"open", "closed", "failed"} /\ trailing \in BOOLEAN
    /\ terminals \in Nat /\ faults \in Nat

Typed == RunTypes /\ FlagTypes /\ CycleTypes /\ SetTypes /\ RecordTypes

\* It says the same.
LEMMA TypedIs == TypeOK <=> Typed
<1>1. {cancel, interrupt, finished, claimed, ok, fault, trailing} \subseteq BOOLEAN
      <=> /\ cancel \in BOOLEAN /\ interrupt \in BOOLEAN /\ finished \in BOOLEAN
          /\ claimed \in BOOLEAN /\ ok \in BOOLEAN /\ fault \in BOOLEAN /\ trailing \in BOOLEAN
  BY Zenon
<1>2. UNION {opened, bound, stopSet, shut, crashed, remote} \subseteq Cycle
      <=> /\ opened \subseteq Cycle /\ bound \subseteq Cycle /\ stopSet \subseteq Cycle
          /\ shut \subseteq Cycle /\ crashed \subseteq Cycle /\ remote \subseteq Cycle
  BY SMT
<1>. QED  BY <1>1, <1>2 DEF TypeOK, Typed, RunTypes, FlagTypes, CycleTypes,
          SetTypes, RecordTypes

\* What a sample of health holds.
LEMMA HealthHas ==
    ASSUME NEW h \in Health
    PROVE  h.heap \in BOOLEAN /\ h.clients \in Nat \union {None}
<1>1. CASE h \in Samples
  BY <1>1, ChurnConstants
<1>2. CASE h = [clients |-> None, heap |-> FALSE]
  <2>1. h.heap = FALSE /\ h.clients = None
    BY <1>2
  <2>. QED  BY <2>1
<1>. QED  BY <1>1, <1>2 DEF Health

\* A record that is taken or refused leaves no terminal one, and comes behind
\* the terminal one only when there is one.
LEMMA Recorded ==
    ASSUME Append \/ Refuse \/ UNCHANGED record, Typed
    PROVE  /\ terminals' = terminals /\ (recorder' = "closed" <=> recorder = "closed")
           /\ ~trailing /\ recorder # "closed" => ~trailing'
           /\ trailing' \in BOOLEAN /\ faults' \in Nat /\ terminals' \in Nat
           /\ recorder' \in {"open", "closed", "failed"}
<1>1. CASE Append \/ UNCHANGED record
  BY <1>1 DEF Append, record, Typed, RecordTypes
<1>2. CASE Refuse
  BY <1>2 DEF Refuse, Typed, RecordTypes
<1>. QED  BY <1>1, <1>2

\* A sample of health leads on, or its record is refused.
LEMMA SampleEffect ==
    ASSUME NEW next, NEW handler, Sample(next, handler), latest \in Health
    PROVE  /\ Append \/ Refuse
           /\ latest' \in Health
           /\ \/ pc' = [pc EXCEPT ![Runner] = next]
              \/ pc' = [pc EXCEPT ![Runner] = handler] /\ latest' = latest
BY DEF Sample, Goto, Health

\* The step of a stream worker.
LEMMA WorkerEffect ==
    ASSUME Typed, Control, NEW c \in Cycle, Worker(c)
    PROVE  /\ WorkerOnly
           /\ Append \/ Refuse \/ UNCHANGED record
           /\ Alive(c) /\ at'[c] # "none"
           /\ \A d \in Cycle : d # c =>
                 /\ at'[d] = at[d] /\ outcome'[d] = outcome[d]
                 /\ reason'[d] = reason[d] /\ events'[d] = events[d]
           /\ outcome'[c] # outcome[c] => /\ outcome'[c] \in Untouched
                                          /\ at'[c] \in Streaming
                                          /\ ~(c \in stopSet /\ at[c] \in Streaming)
           /\ at[c] \in Streaming => at'[c] \in Streaming \union {"ended"}
           /\ \/ response' = None /\ at'[c] = "ended"
              \/ response' = c /\ at'[c] \in Streaming
              \/ response' = response /\ (at[c] \in Streaming => at'[c] \in Streaming)
           /\ stopSet \subseteq stopSet' /\ stopSet' \subseteq stopSet \union {c}
           /\ remote \subseteq remote' /\ remote' \subseteq Cycle
           /\ (c \notin stopSet => events[c] < MaxEvents)
                 => (c \notin stopSet' => events'[c] < MaxEvents)
           /\ opened' \subseteq opened \union {c} /\ bound' \subseteq bound \union {c}
           /\ crashed' \subseteq crashed \union {c}
           /\ at' \in [Cycle -> {"none", "dialing", "connecting", "register", "reading",
                               "waiting", "closing", "ended"}]
           /\ outcome' \in [Cycle -> Outcomes] /\ reason' \in [Cycle -> Reasons]
           /\ (c \notin stopSet => events[c] < MaxEvents) => events' \in [Cycle -> 0..MaxEvents]
           /\ reason'[c] = "end_of_stream" =>
                 reason[c] = "end_of_stream" \/ c \in remote' \/ c \in shut \ stopSet
<1>. USE DEF WorkerOnly, settling, ending, StreamEnds, Streaming, Untouched, Alive,
             Reasons, Outcomes
<1>0. /\ at \in [Cycle -> {"none", "dialing", "connecting", "register", "reading",
                           "waiting", "closing", "ended"}]
      /\ outcome \in [Cycle -> Outcomes] /\ events \in [Cycle -> 0..MaxEvents]
      /\ reason \in [Cycle -> Reasons] /\ stopSet \subseteq Cycle /\ remote \subseteq Cycle
  BY DEF Typed, CycleTypes, SetTypes, Control
<1>1. CASE Dial(c)
  BY <1>0, <1>1 DEF Dial
<1>2. CASE Answered(c)
  BY <1>0, <1>2 DEF Answered, summaries
<1>3. CASE Rejected(c)
  BY <1>0, <1>3 DEF Rejected
<1>4. CASE Unreachable(c)
  BY <1>0, <1>4 DEF Unreachable, StreamFails
<1>5. CASE Open(c)
  BY <1>0, <1>5 DEF Open
<1>6. CASE ReadOn(c)
  BY <1>0, <1>6 DEF ReadOn, summaries
<1>7. CASE Event(c)
  BY <1>0, <1>7, ChurnConstants DEF Event
<1>8. CASE DeviceEnds(c) \/ ShutEnds(c)
  BY <1>0, <1>8 DEF DeviceEnds, ShutEnds, EndOfStream, summaries
<1>9. CASE ReadFails(c)
  BY <1>0, <1>9 DEF ReadFails, StreamFails
<1>10. CASE Closed(c)
  BY <1>0, <1>10 DEF Closed
<1>. QED
  BY <1>1, <1>2, <1>3, <1>4, <1>5, <1>6, <1>7, <1>8, <1>9, <1>10 DEF Worker

\* The step that may end the run.
LEMMA FinishEffect ==
    ASSUME Typed, Control, NEW t \in Threads, Finish(t) \/ (t = Watcher /\ Watch)
    PROVE  /\ FinishOnly /\ UNCHANGED <<failure, record>>
           /\ pc[t] = IF t = Watcher THEN "idle" ELSE "finish"
           /\ \/ /\ pc' = [pc EXCEPT ![t] = "record"]
                 /\ state \notin Terminal /\ ~claimed /\ claimed' = TRUE
                 /\ state' = pending /\ pending \in Terminal /\ streamThread' = None
                 /\ t = Runner \/ pc[Runner] = "dead"
                 /\ streamThread = None \/ ~Alive(streamThread)
              \/ /\ pc' = [pc EXCEPT ![t] = Rest(t)]
                 /\ UNCHANGED <<state, streamThread, claimed>>
              \/ /\ pc' = [pc EXCEPT ![t] = Rest(t)]
                 /\ state \notin Terminal /\ claimed /\ claimed' = TRUE
                 /\ state' = pending /\ pending \in Terminal
                 /\ streamThread' = None
           /\ finished' \in BOOLEAN
<1>1. /\ FinishIfComplete(t, Rest(t))
      /\ FinishOnly /\ UNCHANGED <<failure, record>>
      /\ pc[t] = IF t = Watcher THEN "idle" ELSE "finish"
  BY ChurnConstants DEF Finish, Watch, Rest, Control, Threads
<1>2. finished' \in BOOLEAN /\ pending \in Terminal \union {None}
  BY <1>1 DEF FinishIfComplete, Typed, RunTypes, FlagTypes
<1>3. CASE state \in Terminal
  BY <1>1, <1>2, <1>3 DEF FinishIfComplete, Goto
<1>4. CASE state \notin Terminal /\ ~Complete(t)
  BY <1>1, <1>2, <1>4 DEF FinishIfComplete, Goto
<1>5. CASE state \notin Terminal /\ Complete(t)
  <2>1. /\ pending \in Terminal /\ (t = Runner \/ pc[Runner] = "dead")
        /\ streamThread = None \/ ~Alive(streamThread)
    BY <1>2, <1>5 DEF Complete
  <2>2. state' = pending /\ streamThread' = None /\ claimed' = TRUE
    BY <1>1, <1>5 DEF FinishIfComplete
  <2>3. CASE claimed
    BY <1>1, <1>2, <1>5, <2>1, <2>2, <2>3 DEF FinishIfComplete, Goto
  <2>4. CASE ~claimed
    BY <1>1, <1>2, <1>5, <2>1, <2>2, <2>4 DEF FinishIfComplete, Goto
  <2>. QED  BY <2>3, <2>4
<1>. QED  BY <1>3, <1>4, <1>5

-----------------------------------------------------------------------------
\* Every step keeps the types of the run.
LEMMA RunTypesKept ==
    ASSUME Typed, Control, Streams, Settlement, [Next]_vars
    PROVE  RunTypes'
<1>. USE ChurnConstants DEF BeforeCycle, InCycle, Settles, Ended, Goto, Threads
<1>1. CASE SampleBefore
  BY <1>1, SampleEffect, Recorded
  DEF RunTypes, Typed, Control, Settlement, Streams, Health, Terminal, SampleBefore,
      RunnerOnly, worker
<1>2. CASE CycleStarts
  <2>1. CASE cancel
    BY <1>2, <2>1 DEF CycleStarts, settling, ending, RunTypes, Typed
  <2>2. CASE ~cancel
    <3>1. cycle \in 0..Cycles /\ cycle < Cycles /\ cycle' = cycle + 1
      BY <1>2, <2>2 DEF CycleStarts, Typed, RunTypes, Streams
    <3>2. cycle' \in 0..Cycles /\ cycle' \in Cycle
      BY <3>1 DEF Cycle
    <3>3. UNCHANGED <<state, settling, ending, response>>
          /\ (streamThread' = cycle' \/ streamThread' = streamThread)
      BY <1>2, <2>2 DEF CycleStarts
    <3>. QED  BY <3>2, <3>3 DEF settling, ending, RunTypes, Typed
  <2>. QED  BY <2>1, <2>2
<1>3. CASE Opening
  BY <1>3
  DEF RunTypes, Typed, Control, Settlement, Streams, Health, Terminal, Opening,
      record, RunnerOnly, worker, settling
<1>4. CASE OpeningTimesOut
  BY <1>4
  DEF RunTypes, Typed, Control, Settlement, Streams, Health, Terminal,
      OpeningTimesOut, record, RunnerOnly, worker, settling, CloseStream
<1>5. CASE SampleOpen
  BY <1>5, SampleEffect, Recorded
  DEF RunTypes, Typed, Control, Settlement, Streams, Health, Terminal, SampleOpen,
      RunnerOnly, worker
<1>6. CASE Observed
  BY <1>6, Recorded
  DEF RunTypes, Typed, Control, Settlement, Streams, Health, Terminal, Observed,
      RunnerOnly, worker, settling
<1>7. CASE Disconnect
  BY <1>7
  DEF RunTypes, Typed, Control, Settlement, Streams, Health, Terminal, Disconnect,
      record, RunnerOnly, worker, settling, CloseStream
<1>8. CASE Join
  BY <1>8, Recorded
  DEF RunTypes, Typed, Control, Settlement, Streams, Health, Terminal, Join,
      RunnerOnly, worker, settling
<1>9. CASE SampleDisconnect
  BY <1>9, SampleEffect, Recorded
  DEF RunTypes, Typed, Control, Settlement, Streams, Health, Terminal,
      SampleDisconnect, RunnerOnly, worker
<1>10. CASE CycleFinishes
  BY <1>10, Recorded
  DEF RunTypes, Typed, Control, Settlement, Streams, Health, Terminal,
      CycleFinishes, settling, ending, Forget, Verdict
<1>11. CASE Delay
  BY <1>11
  DEF RunTypes, Typed, Control, Settlement, Streams, Health, Terminal, Delay,
      record, RunnerOnly, worker, settling
<1>12. CASE SampleAfter
  BY <1>12, SampleEffect, Recorded
  DEF RunTypes, Typed, Control, Settlement, Streams, Health, Terminal, SampleAfter,
      RunnerOnly, worker
<1>13. CASE Except
  BY <1>13, Recorded
  DEF RunTypes, Typed, Control, Settlement, Streams, Health, Terminal, Except,
      RunnerOnly, worker, settling
<1>14. CASE CancelActiveStream
  BY <1>14
  DEF RunTypes, Typed, Control, Settlement, Streams, Health, Terminal,
      CancelActiveStream, record, RunnerOnly, worker, settling, CloseStream
<1>15. CASE Settle
  BY <1>15, Recorded
  DEF RunTypes, Typed, Control, Settlement, Streams, Health, Terminal, Settle,
      SettleOnly, RunnerOnly, worker, Settled, SettlementNeeded, Recovered
<1>16. CASE SettlementStarts
  BY <1>16, Recorded
  DEF RunTypes, Typed, Control, Settlement, Streams, Health, Terminal,
      SettlementStarts, SettleOnly, RunnerOnly, worker, SettlementNeeded
<1>17. CASE Interrupted
  BY <1>17, Recorded
  DEF RunTypes, Typed, Control, Settlement, Streams, Health, Terminal, Interrupted,
      SettleOnly, RunnerOnly, worker, Settled
<1>18. CASE Checkpoint
  BY <1>18, Recorded
  DEF RunTypes, Typed, Control, Settlement, Streams, Health, Terminal, Checkpoint,
      SettleOnly, RunnerOnly, worker
<1>19. CASE Compare
  BY <1>19, Recorded
  DEF RunTypes, Typed, Control, Settlement, Streams, Health, Terminal, Compare,
      SettleOnly, RunnerOnly, worker, Settled, Recovered
<1>20. CASE Unsettled
  BY <1>20
  DEF RunTypes, Typed, Control, Settlement, Streams, Health, Terminal, Unsettled,
      SettleOnly, RunnerOnly, worker, Fail
<1>21. CASE Decide
  BY <1>21
  DEF RunTypes, Typed, Control, Settlement, Streams, Health, Terminal, Decide,
      record, SettleOnly, RunnerOnly, worker
<1>22. ASSUME NEW t \in Threads, Finish(t) \/ (t = Watcher /\ Watch)
      PROVE  RunTypes'
  <2>1. /\ FinishOnly
        /\ state' = state \/ (state' = pending /\ pending \in Terminal)
        /\ streamThread' = streamThread \/ streamThread' = None
    BY <1>22, FinishEffect
  <2>. QED  BY <2>1 DEF FinishOnly, settling, RunTypes, Typed
<1>23. ASSUME NEW t \in Threads, RecordTerminal(t)
      PROVE  RunTypes'
  BY <1>23
  DEF RunTypes, Typed, Control, Settlement, Streams, Health, Terminal,
      RecordTerminal, FinishOnly, settling, summaries, worker, Refuse, Rest
<1>24. ASSUME NEW s \in Stoppers, StopReads(s)
      PROVE  RunTypes'
  BY <1>24
  DEF RunTypes, Typed, Control, Settlement, Streams, Health, Terminal, StopReads,
      StopOnly, record, settling, ending, summaries, worker
<1>25. ASSUME NEW s \in Stoppers, StopTells(s)
      PROVE  RunTypes'
  BY <1>25
  DEF RunTypes, Typed, Control, Settlement, Streams, Health, Terminal, StopTells,
      StopOnly, record, settling, ending, summaries, worker, CloseStream
<1>26. ASSUME NEW c \in Cycle, Worker(c)
      PROVE  RunTypes'
  BY <1>26, WorkerEffect, Recorded
  DEF RunTypes, Typed, Control, Settlement, Streams, Health, Terminal, WorkerOnly,
      settling, ending
<1>27. CASE UNCHANGED vars
  BY <1>27
  DEF RunTypes, Typed, Control, Settlement, Streams, Health, Terminal, vars,
      settling, ending, summaries, worker, record
<1>. QED
  BY <1>1, <1>2, <1>3, <1>4, <1>5, <1>6, <1>7, <1>8, <1>9, <1>10, <1>11, <1>12,
      <1>13, <1>14, <1>15, <1>16, <1>17, <1>18, <1>19, <1>20, <1>21, <1>22, <1>23,
      <1>24, <1>25, <1>26, <1>27
  DEF Next, Run, Request

\* Every step keeps the types of the flags of the run.
LEMMA FlagTypesKept ==
    ASSUME Typed, Control, [Next]_vars
    PROVE  FlagTypes'
<1>. USE ChurnConstants DEF BeforeCycle, InCycle, Settles, Ended, Goto, Threads
<1>1. CASE SampleBefore
  <2>1. latest' \in Health
    BY <1>1 DEF SampleBefore, Sample, Control, Health
  <2>2. latest'.heap \in BOOLEAN
    BY <2>1, HealthHas
  <2>. QED  BY <1>1, <2>2 DEF SampleBefore, RunnerOnly, FlagTypes, Typed
<1>2. CASE CycleStarts
  BY <1>2, Recorded
  DEF FlagTypes, Typed, Control, Health, CycleStarts, settling, ending, summaries
<1>3. CASE Opening
  BY <1>3
  DEF FlagTypes, Typed, Control, Health, Opening, record, RunnerOnly, worker, settling
<1>4. CASE OpeningTimesOut
  BY <1>4
  DEF FlagTypes, Typed, Control, Health, OpeningTimesOut, record, RunnerOnly,
      worker, settling, CloseStream
<1>5. CASE SampleOpen
  <2>1. latest' \in Health
    BY <1>5 DEF SampleOpen, Sample, Control, Health
  <2>2. latest'.heap \in BOOLEAN
    BY <2>1, HealthHas
  <2>. QED  BY <1>5, <2>2 DEF SampleOpen, RunnerOnly, FlagTypes, Typed
<1>6. CASE Observed
  BY <1>6, Recorded
  DEF FlagTypes, Typed, Control, Health, Observed, RunnerOnly, worker, settling
<1>7. CASE Disconnect
  BY <1>7
  DEF FlagTypes, Typed, Control, Health, Disconnect, record, RunnerOnly, worker,
      settling, CloseStream
<1>8. CASE Join
  <2>1. /\ UNCHANGED <<failure, latest, cancel, interrupt, finished, claimed, ok>>
        /\ fault' = TRUE \/ fault' = fault \/ fault' = (cycle \in crashed)
    BY <1>8 DEF Join, RunnerOnly, settling
  <2>2. fault' \in BOOLEAN
    <3>1. CASE fault' = (cycle \in crashed)
      <4>1. (cycle \in crashed) \in BOOLEAN
        OBVIOUS
      <4>. QED  BY <3>1, <4>1, Zenon
    <3>. QED  BY <2>1, <3>1 DEF Typed, FlagTypes
  <2>. QED  BY <2>1, <2>2 DEF Typed, FlagTypes
<1>9. CASE SampleDisconnect
  <2>1. latest' \in Health
    BY <1>9 DEF SampleDisconnect, Sample, Control, Health
  <2>2. latest'.heap \in BOOLEAN
    BY <2>1, HealthHas
  <2>. QED  BY <1>9, <2>2 DEF SampleDisconnect, RunnerOnly, FlagTypes, Typed
<1>10. CASE CycleFinishes
  BY <1>10, Recorded
  DEF FlagTypes, Typed, Control, Health, CycleFinishes, settling, ending, Forget,
      Verdict
<1>11. CASE Delay
  BY <1>11
  DEF FlagTypes, Typed, Control, Health, Delay, record, RunnerOnly, worker, settling
<1>12. CASE SampleAfter
  <2>1. latest' \in Health
    BY <1>12 DEF SampleAfter, Sample, Control, Health
  <2>2. latest'.heap \in BOOLEAN
    BY <2>1, HealthHas
  <2>. QED  BY <1>12, <2>2 DEF SampleAfter, RunnerOnly, FlagTypes, Typed
<1>13. CASE Except
  BY <1>13, Recorded
  DEF FlagTypes, Typed, Control, Health, Except, RunnerOnly, worker, settling
<1>14. CASE CancelActiveStream
  BY <1>14
  DEF FlagTypes, Typed, Control, Health, CancelActiveStream, record, RunnerOnly,
      worker, settling, CloseStream
<1>15. CASE Settle
  BY <1>15, Recorded
  DEF FlagTypes, Typed, Control, Health, Settle, SettleOnly, RunnerOnly, worker,
      Settled, SettlementNeeded, Recovered
<1>16. CASE SettlementStarts
  BY <1>16, Recorded
  DEF FlagTypes, Typed, Control, Health, SettlementStarts, SettleOnly, RunnerOnly,
      worker, SettlementNeeded
<1>17. CASE Interrupted
  BY <1>17, Recorded
  DEF FlagTypes, Typed, Control, Health, Interrupted, SettleOnly, RunnerOnly,
      worker, Settled
<1>18. CASE Checkpoint
  BY <1>18, Recorded
  DEF FlagTypes, Typed, Control, Health, Checkpoint, SettleOnly, RunnerOnly, worker
<1>19. CASE Compare
  BY <1>19, Recorded
  DEF FlagTypes, Typed, Control, Health, Compare, SettleOnly, RunnerOnly, worker,
      Settled, Recovered
<1>20. CASE Unsettled
  BY <1>20
  DEF FlagTypes, Typed, Control, Health, Unsettled, SettleOnly, RunnerOnly, worker, Fail
<1>21. CASE Decide
  BY <1>21
  DEF FlagTypes, Typed, Control, Health, Decide, record, SettleOnly, RunnerOnly, worker
<1>22. ASSUME NEW t \in Threads, Finish(t) \/ (t = Watcher /\ Watch)
      PROVE  FlagTypes'
  BY <1>22, FinishEffect
  DEF FlagTypes, Typed, Control, Health, FinishOnly, record, settling, summaries,
      worker, Rest
<1>23. ASSUME NEW t \in Threads, RecordTerminal(t)
      PROVE  FlagTypes'
  BY <1>23
  DEF FlagTypes, Typed, Control, Health, RecordTerminal, FinishOnly, settling,
      summaries, worker, Refuse, Rest
<1>24. ASSUME NEW s \in Stoppers, StopReads(s)
      PROVE  FlagTypes'
  BY <1>24
  DEF FlagTypes, Typed, Control, Health, StopReads, StopOnly, record, settling,
      ending, summaries, worker
<1>25. ASSUME NEW s \in Stoppers, StopTells(s)
      PROVE  FlagTypes'
  BY <1>25
  DEF FlagTypes, Typed, Control, Health, StopTells, StopOnly, record, settling,
      ending, summaries, worker, CloseStream
<1>26. ASSUME NEW c \in Cycle, Worker(c)
      PROVE  FlagTypes'
  BY <1>26, WorkerEffect, Recorded
  DEF FlagTypes, Typed, Control, Health, WorkerOnly, settling, ending
<1>27. CASE UNCHANGED vars
  BY <1>27
  DEF FlagTypes, Typed, Control, Health, vars, settling, ending, summaries, worker,
      record
<1>. QED
  BY <1>1, <1>2, <1>3, <1>4, <1>5, <1>6, <1>7, <1>8, <1>9, <1>10, <1>11, <1>12,
      <1>13, <1>14, <1>15, <1>16, <1>17, <1>18, <1>19, <1>20, <1>21, <1>22, <1>23,
      <1>24, <1>25, <1>26, <1>27
  DEF Next, Run, Request

\* Every step keeps the types of its cycles.
LEMMA CycleTypesKept ==
    ASSUME Typed, Control, Streams, Telling, [Next]_vars
    PROVE  CycleTypes'
<1>. USE ChurnConstants DEF BeforeCycle, InCycle, Settles, Ended, Goto, Threads
<1>1. CASE SampleBefore
  BY <1>1, SampleEffect, Recorded
  DEF CycleTypes, Typed, RunTypes, Control, Outcomes, Telling, SampleBefore,
      RunnerOnly, worker
<1>2. CASE CycleStarts
  BY <1>2, Recorded
  DEF CycleTypes, Typed, RunTypes, Control, Outcomes, Telling, CycleStarts,
      settling, ending, summaries
<1>3. CASE Opening
  BY <1>3
  DEF CycleTypes, Typed, RunTypes, Control, Outcomes, Telling, Opening, record,
      RunnerOnly, worker, settling
<1>4. CASE OpeningTimesOut
  BY <1>4
  DEF CycleTypes, Typed, RunTypes, Control, Outcomes, Telling, OpeningTimesOut,
      record, RunnerOnly, worker, settling, CloseStream
<1>5. CASE SampleOpen
  BY <1>5, SampleEffect, Recorded
  DEF CycleTypes, Typed, RunTypes, Control, Outcomes, Telling, SampleOpen,
      RunnerOnly, worker
<1>6. CASE Observed
  BY <1>6, Recorded
  DEF CycleTypes, Typed, RunTypes, Control, Outcomes, Telling, Observed, RunnerOnly,
      worker, settling
<1>7. CASE Disconnect
  BY <1>7
  DEF CycleTypes, Typed, RunTypes, Control, Outcomes, Telling, Disconnect, record,
      RunnerOnly, worker, settling, CloseStream
<1>8. CASE Join
  BY <1>8, Recorded
  DEF CycleTypes, Typed, RunTypes, Control, Outcomes, Telling, Join, RunnerOnly,
      worker, settling
<1>9. CASE SampleDisconnect
  BY <1>9, SampleEffect, Recorded
  DEF CycleTypes, Typed, RunTypes, Control, Outcomes, Telling, SampleDisconnect,
      RunnerOnly, worker
<1>10. CASE CycleFinishes
  <2>1. /\ UNCHANGED <<at, seen>>
        /\ judged' = judged \/ judged' = [judged EXCEPT ![cycle] = Verdict(cycle)]
        /\ outcome' = [outcome EXCEPT ![cycle] = Verdict(cycle)]
        /\ events' = events \/ events' = [events EXCEPT ![cycle] = 0]
        /\ cycle \in Cycle
    BY <1>10 DEF CycleFinishes, Forget, Streams
  <2>2. Verdict(cycle) \in Outcomes
    BY <2>1 DEF Verdict, Typed, CycleTypes, Outcomes
  <2>3. 0 \in 0..MaxEvents
    OBVIOUS
  <2>. HIDE DEF Verdict
  <2>. QED  BY <2>1, <2>2, <2>3 DEF CycleTypes, Typed
<1>11. CASE Delay
  BY <1>11
  DEF CycleTypes, Typed, RunTypes, Control, Outcomes, Telling, Delay, record,
      RunnerOnly, worker, settling
<1>12. CASE SampleAfter
  BY <1>12, SampleEffect, Recorded
  DEF CycleTypes, Typed, RunTypes, Control, Outcomes, Telling, SampleAfter,
      RunnerOnly, worker
<1>13. CASE Except
  BY <1>13, Recorded
  DEF CycleTypes, Typed, RunTypes, Control, Outcomes, Telling, Except, RunnerOnly,
      worker, settling
<1>14. CASE CancelActiveStream
  BY <1>14
  DEF CycleTypes, Typed, RunTypes, Control, Outcomes, Telling, CancelActiveStream,
      record, RunnerOnly, worker, settling, CloseStream
<1>15. CASE Settle
  BY <1>15, Recorded
  DEF CycleTypes, Typed, RunTypes, Control, Outcomes, Telling, Settle, SettleOnly,
      RunnerOnly, worker, Settled, SettlementNeeded, Recovered
<1>16. CASE SettlementStarts
  BY <1>16, Recorded
  DEF CycleTypes, Typed, RunTypes, Control, Outcomes, Telling, SettlementStarts,
      SettleOnly, RunnerOnly, worker, SettlementNeeded
<1>17. CASE Interrupted
  BY <1>17, Recorded
  DEF CycleTypes, Typed, RunTypes, Control, Outcomes, Telling, Interrupted,
      SettleOnly, RunnerOnly, worker, Settled
<1>18. CASE Checkpoint
  BY <1>18, Recorded
  DEF CycleTypes, Typed, RunTypes, Control, Outcomes, Telling, Checkpoint,
      SettleOnly, RunnerOnly, worker
<1>19. CASE Compare
  BY <1>19, Recorded
  DEF CycleTypes, Typed, RunTypes, Control, Outcomes, Telling, Compare, SettleOnly,
      RunnerOnly, worker, Settled, Recovered
<1>20. CASE Unsettled
  BY <1>20
  DEF CycleTypes, Typed, RunTypes, Control, Outcomes, Telling, Unsettled,
      SettleOnly, RunnerOnly, worker, Fail
<1>21. CASE Decide
  BY <1>21
  DEF CycleTypes, Typed, RunTypes, Control, Outcomes, Telling, Decide, record,
      SettleOnly, RunnerOnly, worker
<1>22. ASSUME NEW t \in Threads, Finish(t) \/ (t = Watcher /\ Watch)
      PROVE  CycleTypes'
  BY <1>22, FinishEffect
  DEF CycleTypes, Typed, RunTypes, Control, Outcomes, Telling, FinishOnly, record,
      settling, summaries, worker, Rest
<1>23. ASSUME NEW t \in Threads, RecordTerminal(t)
      PROVE  CycleTypes'
  BY <1>23
  DEF CycleTypes, Typed, RunTypes, Control, Outcomes, Telling, RecordTerminal,
      FinishOnly, settling, summaries, worker, Refuse, Rest
<1>24. ASSUME NEW s \in Stoppers, StopReads(s)
      PROVE  CycleTypes'
  BY <1>24
  DEF CycleTypes, Typed, RunTypes, Control, Outcomes, Telling, StopReads, StopOnly,
      record, settling, ending, summaries, worker
<1>25. ASSUME NEW s \in Stoppers, StopTells(s)
      PROVE  CycleTypes'
  BY <1>25
  DEF CycleTypes, Typed, RunTypes, Control, Outcomes, Telling, StopTells, StopOnly,
      record, settling, ending, summaries, worker, CloseStream
<1>26. ASSUME NEW c \in Cycle, Worker(c)
      PROVE  CycleTypes'
  <2>1. UNCHANGED <<judged, seen>>
    BY <1>26, WorkerEffect DEF WorkerOnly
  <2>2. events' \in [Cycle -> 0..MaxEvents]
    BY <1>26, WorkerEffect DEF Telling
  <2>3. /\ outcome' \in [Cycle -> Outcomes]
        /\ at' \in [Cycle -> {"none", "dialing", "connecting", "register", "reading",
                            "waiting", "closing", "ended"}]
    BY <1>26, WorkerEffect
  <2>. QED  BY <2>1, <2>2, <2>3 DEF CycleTypes, Typed
<1>27. CASE UNCHANGED vars
  BY <1>27
  DEF CycleTypes, Typed, RunTypes, Control, Outcomes, Telling, vars, settling,
      ending, summaries, worker, record
<1>. QED
  BY <1>1, <1>2, <1>3, <1>4, <1>5, <1>6, <1>7, <1>8, <1>9, <1>10, <1>11, <1>12,
      <1>13, <1>14, <1>15, <1>16, <1>17, <1>18, <1>19, <1>20, <1>21, <1>22, <1>23,
      <1>24, <1>25, <1>26, <1>27
  DEF Next, Run, Request

\* Every step keeps the streams those of its cycles.
LEMMA SetTypesKept ==
    ASSUME Typed, Control, Streams, [Next]_vars
    PROVE  SetTypes'
<1>. USE ChurnConstants DEF BeforeCycle, InCycle, Settles, Ended, Goto, Threads
<1>1. CASE SampleBefore
  BY <1>1, SampleEffect, Recorded
  DEF SetTypes, Typed, RunTypes, CycleTypes, Control, Streams, SampleBefore,
      RunnerOnly, worker
<1>2. CASE CycleStarts
  BY <1>2, Recorded
  DEF SetTypes, Typed, RunTypes, CycleTypes, Control, Streams, CycleStarts,
      settling, ending, summaries
<1>3. CASE Opening
  BY <1>3
  DEF SetTypes, Typed, RunTypes, CycleTypes, Control, Streams, Opening, record,
      RunnerOnly, worker, settling
<1>4. CASE OpeningTimesOut
  BY <1>4
  DEF SetTypes, Typed, RunTypes, CycleTypes, Control, Streams, OpeningTimesOut,
      record, RunnerOnly, worker, settling, CloseStream
<1>5. CASE SampleOpen
  BY <1>5, SampleEffect, Recorded
  DEF SetTypes, Typed, RunTypes, CycleTypes, Control, Streams, SampleOpen,
      RunnerOnly, worker
<1>6. CASE Observed
  BY <1>6, Recorded
  DEF SetTypes, Typed, RunTypes, CycleTypes, Control, Streams, Observed, RunnerOnly,
      worker, settling
<1>7. CASE Disconnect
  BY <1>7
  DEF SetTypes, Typed, RunTypes, CycleTypes, Control, Streams, Disconnect, record,
      RunnerOnly, worker, settling, CloseStream
<1>8. CASE Join
  BY <1>8, Recorded
  DEF SetTypes, Typed, RunTypes, CycleTypes, Control, Streams, Join, RunnerOnly,
      worker, settling
<1>9. CASE SampleDisconnect
  BY <1>9, SampleEffect, Recorded
  DEF SetTypes, Typed, RunTypes, CycleTypes, Control, Streams, SampleDisconnect,
      RunnerOnly, worker
<1>10. CASE CycleFinishes
  BY <1>10, Recorded
  DEF SetTypes, Typed, RunTypes, CycleTypes, Control, Streams, CycleFinishes,
      settling, ending, Forget, Verdict
<1>11. CASE Delay
  BY <1>11
  DEF SetTypes, Typed, RunTypes, CycleTypes, Control, Streams, Delay, record,
      RunnerOnly, worker, settling
<1>12. CASE SampleAfter
  BY <1>12, SampleEffect, Recorded
  DEF SetTypes, Typed, RunTypes, CycleTypes, Control, Streams, SampleAfter,
      RunnerOnly, worker
<1>13. CASE Except
  BY <1>13, Recorded
  DEF SetTypes, Typed, RunTypes, CycleTypes, Control, Streams, Except, RunnerOnly,
      worker, settling
<1>14. CASE CancelActiveStream
  BY <1>14
  DEF SetTypes, Typed, RunTypes, CycleTypes, Control, Streams, CancelActiveStream,
      record, RunnerOnly, worker, settling, CloseStream
<1>15. CASE Settle
  BY <1>15, Recorded
  DEF SetTypes, Typed, RunTypes, CycleTypes, Control, Streams, Settle, SettleOnly,
      RunnerOnly, worker, Settled, SettlementNeeded, Recovered
<1>16. CASE SettlementStarts
  BY <1>16, Recorded
  DEF SetTypes, Typed, RunTypes, CycleTypes, Control, Streams, SettlementStarts,
      SettleOnly, RunnerOnly, worker, SettlementNeeded
<1>17. CASE Interrupted
  BY <1>17, Recorded
  DEF SetTypes, Typed, RunTypes, CycleTypes, Control, Streams, Interrupted,
      SettleOnly, RunnerOnly, worker, Settled
<1>18. CASE Checkpoint
  BY <1>18, Recorded
  DEF SetTypes, Typed, RunTypes, CycleTypes, Control, Streams, Checkpoint,
      SettleOnly, RunnerOnly, worker
<1>19. CASE Compare
  BY <1>19, Recorded
  DEF SetTypes, Typed, RunTypes, CycleTypes, Control, Streams, Compare, SettleOnly,
      RunnerOnly, worker, Settled, Recovered
<1>20. CASE Unsettled
  BY <1>20
  DEF SetTypes, Typed, RunTypes, CycleTypes, Control, Streams, Unsettled,
      SettleOnly, RunnerOnly, worker, Fail
<1>21. CASE Decide
  BY <1>21
  DEF SetTypes, Typed, RunTypes, CycleTypes, Control, Streams, Decide, record,
      SettleOnly, RunnerOnly, worker
<1>22. ASSUME NEW t \in Threads, Finish(t) \/ (t = Watcher /\ Watch)
      PROVE  SetTypes'
  BY <1>22, FinishEffect
  DEF SetTypes, Typed, RunTypes, CycleTypes, Control, Streams, FinishOnly, record,
      settling, summaries, worker, Rest
<1>23. ASSUME NEW t \in Threads, RecordTerminal(t)
      PROVE  SetTypes'
  BY <1>23
  DEF SetTypes, Typed, RunTypes, CycleTypes, Control, Streams, RecordTerminal,
      FinishOnly, settling, summaries, worker, Refuse, Rest
<1>24. ASSUME NEW s \in Stoppers, StopReads(s)
      PROVE  SetTypes'
  BY <1>24
  DEF SetTypes, Typed, RunTypes, CycleTypes, Control, Streams, StopReads, StopOnly,
      record, settling, ending, summaries, worker
<1>25. ASSUME NEW s \in Stoppers, StopTells(s)
      PROVE  SetTypes'
  BY <1>25
  DEF SetTypes, Typed, RunTypes, CycleTypes, Control, Streams, StopTells, StopOnly,
      record, settling, ending, summaries, worker, CloseStream
<1>26. ASSUME NEW c \in Cycle, Worker(c)
      PROVE  SetTypes'
  <2>1. /\ stopSet' \subseteq stopSet \union {c} /\ remote' \subseteq Cycle
        /\ opened' \subseteq opened \union {c} /\ bound' \subseteq bound \union {c}
        /\ crashed' \subseteq crashed \union {c} /\ shut' = shut
    BY <1>26, WorkerEffect DEF WorkerOnly
  <2>. QED  BY <1>26, <2>1 DEF SetTypes, Typed
<1>27. CASE UNCHANGED vars
  BY <1>27
  DEF SetTypes, Typed, RunTypes, CycleTypes, Control, Streams, vars, settling,
      ending, summaries, worker, record
<1>. QED
  BY <1>1, <1>2, <1>3, <1>4, <1>5, <1>6, <1>7, <1>8, <1>9, <1>10, <1>11, <1>12,
      <1>13, <1>14, <1>15, <1>16, <1>17, <1>18, <1>19, <1>20, <1>21, <1>22, <1>23,
      <1>24, <1>25, <1>26, <1>27
  DEF Next, Run, Request

\* Every step keeps the types of its records.
LEMMA RecordTypesKept ==
    ASSUME Typed, Control, [Next]_vars
    PROVE  RecordTypes'
<1>. USE ChurnConstants DEF BeforeCycle, InCycle, Settles, Ended, Goto, Threads
<1>1. CASE SampleBefore
  <2>1. Append \/ Refuse \/ UNCHANGED record
    BY <1>1 DEF SampleBefore, Sample, record
  <2>. QED  BY <2>1, Recorded DEF RecordTypes
<1>2. CASE CycleStarts
  BY <1>2, Recorded
  DEF RecordTypes, Typed, CycleStarts, settling, ending, summaries
<1>3. CASE Opening
  BY <1>3
  DEF RecordTypes, Typed, Opening, record, RunnerOnly, worker, settling
<1>4. CASE OpeningTimesOut
  BY <1>4
  DEF RecordTypes, Typed, OpeningTimesOut, record, RunnerOnly, worker, settling,
      CloseStream
<1>5. CASE SampleOpen
  <2>1. Append \/ Refuse \/ UNCHANGED record
    BY <1>5 DEF SampleOpen, Sample, record
  <2>. QED  BY <2>1, Recorded DEF RecordTypes
<1>6. CASE Observed
  BY <1>6, Recorded
  DEF RecordTypes, Typed, Observed, RunnerOnly, worker, settling
<1>7. CASE Disconnect
  BY <1>7
  DEF RecordTypes, Typed, Disconnect, record, RunnerOnly, worker, settling, CloseStream
<1>8. CASE Join
  BY <1>8, Recorded
  DEF RecordTypes, Typed, Join, RunnerOnly, worker, settling
<1>9. CASE SampleDisconnect
  <2>1. Append \/ Refuse \/ UNCHANGED record
    BY <1>9 DEF SampleDisconnect, Sample, record
  <2>. QED  BY <2>1, Recorded DEF RecordTypes
<1>10. CASE CycleFinishes
  BY <1>10, Recorded
  DEF RecordTypes, Typed, CycleFinishes, settling, ending, Forget, Verdict
<1>11. CASE Delay
  BY <1>11
  DEF RecordTypes, Typed, Delay, record, RunnerOnly, worker, settling
<1>12. CASE SampleAfter
  <2>1. Append \/ Refuse \/ UNCHANGED record
    BY <1>12 DEF SampleAfter, Sample, record
  <2>. QED  BY <2>1, Recorded DEF RecordTypes
<1>13. CASE Except
  BY <1>13, Recorded
  DEF RecordTypes, Typed, Except, RunnerOnly, worker, settling
<1>14. CASE CancelActiveStream
  BY <1>14
  DEF RecordTypes, Typed, CancelActiveStream, record, RunnerOnly, worker, settling,
      CloseStream
<1>15. CASE Settle
  BY <1>15, Recorded
  DEF RecordTypes, Typed, Settle, SettleOnly, RunnerOnly, worker, Settled,
      SettlementNeeded, Recovered
<1>16. CASE SettlementStarts
  BY <1>16, Recorded
  DEF RecordTypes, Typed, SettlementStarts, SettleOnly, RunnerOnly, worker,
      SettlementNeeded
<1>17. CASE Interrupted
  BY <1>17, Recorded
  DEF RecordTypes, Typed, Interrupted, SettleOnly, RunnerOnly, worker, Settled
<1>18. CASE Checkpoint
  BY <1>18, Recorded
  DEF RecordTypes, Typed, Checkpoint, SettleOnly, RunnerOnly, worker
<1>19. CASE Compare
  BY <1>19, Recorded
  DEF RecordTypes, Typed, Compare, SettleOnly, RunnerOnly, worker, Settled, Recovered
<1>20. CASE Unsettled
  BY <1>20
  DEF RecordTypes, Typed, Unsettled, SettleOnly, RunnerOnly, worker, Fail
<1>21. CASE Decide
  BY <1>21
  DEF RecordTypes, Typed, Decide, record, SettleOnly, RunnerOnly, worker
<1>22. ASSUME NEW t \in Threads, Finish(t) \/ (t = Watcher /\ Watch)
      PROVE  RecordTypes'
  BY <1>22, FinishEffect
  DEF RecordTypes, Typed, FinishOnly, record, settling, summaries, worker, Rest
<1>23. ASSUME NEW t \in Threads, RecordTerminal(t)
      PROVE  RecordTypes'
  <2>1. CASE Refuse
    BY <2>1, Recorded DEF RecordTypes
  <2>. QED  BY <1>23, <2>1 DEF RecordTerminal, RecordTypes, Typed
<1>24. ASSUME NEW s \in Stoppers, StopReads(s)
      PROVE  RecordTypes'
  BY <1>24
  DEF RecordTypes, Typed, StopReads, StopOnly, record, settling, ending, summaries,
      worker
<1>25. ASSUME NEW s \in Stoppers, StopTells(s)
      PROVE  RecordTypes'
  BY <1>25
  DEF RecordTypes, Typed, StopTells, StopOnly, record, settling, ending, summaries,
      worker, CloseStream
<1>26. ASSUME NEW c \in Cycle, Worker(c)
      PROVE  RecordTypes'
  BY <1>26, WorkerEffect, Recorded
  DEF RecordTypes, Typed, WorkerOnly, settling, ending
<1>27. CASE UNCHANGED vars
  BY <1>27
  DEF RecordTypes, Typed, vars, settling, ending, summaries, worker, record
<1>. QED
  BY <1>1, <1>2, <1>3, <1>4, <1>5, <1>6, <1>7, <1>8, <1>9, <1>10, <1>11, <1>12,
      <1>13, <1>14, <1>15, <1>16, <1>17, <1>18, <1>19, <1>20, <1>21, <1>22, <1>23,
      <1>24, <1>25, <1>26, <1>27
  DEF Next, Run, Request

\* Every step leads a thread to a place of its own program, and keeps the types
\* of the stream's end and of the health last seen.
LEMMA ControlKept ==
    ASSUME Typed, Control, [Next]_vars
    PROVE  Control'
<1>. USE ChurnConstants DEF BeforeCycle, InCycle, Settles, Ended, Goto, Threads
<1>1. CASE SampleBefore
  BY <1>1, SampleEffect, Recorded
  DEF Control, Typed, SampleBefore, RunnerOnly, worker
<1>2. CASE CycleStarts
  BY <1>2, Recorded
  DEF Control, Typed, CycleStarts, settling, ending, summaries
<1>3. CASE Opening
  BY <1>3
  DEF Control, Typed, Opening, record, RunnerOnly, worker, settling
<1>4. CASE OpeningTimesOut
  BY <1>4
  DEF Control, Typed, OpeningTimesOut, record, RunnerOnly, worker, settling, CloseStream
<1>5. CASE SampleOpen
  BY <1>5, SampleEffect, Recorded
  DEF Control, Typed, SampleOpen, RunnerOnly, worker
<1>6. CASE Observed
  BY <1>6, Recorded
  DEF Control, Typed, Observed, RunnerOnly, worker, settling
<1>7. CASE Disconnect
  BY <1>7
  DEF Control, Typed, Disconnect, record, RunnerOnly, worker, settling, CloseStream
<1>8. CASE Join
  BY <1>8, Recorded
  DEF Control, Typed, Join, RunnerOnly, worker, settling
<1>9. CASE SampleDisconnect
  BY <1>9, SampleEffect, Recorded
  DEF Control, Typed, SampleDisconnect, RunnerOnly, worker
<1>10. CASE CycleFinishes
  <2>1. pc' = [pc EXCEPT ![Runner] = "except"] \/ pc' = [pc EXCEPT ![Runner] = "delay"]
    BY <1>10 DEF CycleFinishes
  <2>2. /\ UNCHANGED <<latest, cancel>>
        /\ reason' = reason \/ reason' = [reason EXCEPT ![cycle] = "none"]
    BY <1>10 DEF CycleFinishes, Forget, settling
  <2>3. reason' \in [Cycle -> Reasons]
    BY <2>2 DEF Control, Reasons
  <2>. QED  BY <1>10, <2>1, <2>2, <2>3 DEF Control
<1>11. CASE Delay
  BY <1>11
  DEF Control, Typed, Delay, record, RunnerOnly, worker, settling
<1>12. CASE SampleAfter
  BY <1>12, SampleEffect, Recorded
  DEF Control, Typed, SampleAfter, RunnerOnly, worker
<1>13. CASE Except
  BY <1>13, Recorded
  DEF Control, Typed, Except, RunnerOnly, worker, settling
<1>14. CASE CancelActiveStream
  BY <1>14
  DEF Control, Typed, CancelActiveStream, record, RunnerOnly, worker, settling,
      CloseStream
<1>15. CASE Settle
  BY <1>15, Recorded
  DEF Control, Typed, Settle, SettleOnly, RunnerOnly, worker, Settled,
      SettlementNeeded, Recovered
<1>16. CASE SettlementStarts
  BY <1>16, Recorded
  DEF Control, Typed, SettlementStarts, SettleOnly, RunnerOnly, worker, SettlementNeeded
<1>17. CASE Interrupted
  BY <1>17, Recorded
  DEF Control, Typed, Interrupted, SettleOnly, RunnerOnly, worker, Settled
<1>18. CASE Checkpoint
  <2>1. latest' \in Health /\ UNCHANGED <<reason, cancel>>
    BY <1>18 DEF Checkpoint, SettleOnly, RunnerOnly, worker, Control, Health
  <2>2. \/ pc' = [pc EXCEPT ![Runner] = "compare"] \/ pc' = [pc EXCEPT ![Runner] = "unsettled"]
    BY <1>18 DEF Checkpoint
  <2>. QED  BY <2>1, <2>2 DEF Control
<1>19. CASE Compare
  BY <1>19, Recorded
  DEF Control, Typed, Compare, SettleOnly, RunnerOnly, worker, Settled, Recovered
<1>20. CASE Unsettled
  BY <1>20
  DEF Control, Typed, Unsettled, SettleOnly, RunnerOnly, worker, Fail
<1>21. CASE Decide
  BY <1>21
  DEF Control, Typed, Decide, record, SettleOnly, RunnerOnly, worker
<1>22. ASSUME NEW t \in Threads, Finish(t) \/ (t = Watcher /\ Watch)
      PROVE  Control'
  <2>1. UNCHANGED <<reason, cancel, latest>>
    BY <1>22, FinishEffect DEF FinishOnly, settling, worker
  <2>2. pc' = [pc EXCEPT ![t] = "record"] \/ pc' = [pc EXCEPT ![t] = Rest(t)]
    BY <1>22, FinishEffect
  <2>3. t = Runner \/ t = Watcher \/ (t \in Stoppers /\ t # Runner /\ t # Watcher)
    BY <1>22
  <2>. QED  BY <2>1, <2>2, <2>3 DEF Control, Rest
<1>23. ASSUME NEW t \in Threads, RecordTerminal(t)
      PROVE  Control'
  BY <1>23
  DEF Control, Typed, RecordTerminal, FinishOnly, settling, summaries, worker,
      Refuse, Rest
<1>24. ASSUME NEW s \in Stoppers, StopReads(s)
      PROVE  Control'
  BY <1>24
  DEF Control, Typed, StopReads, StopOnly, record, settling, ending, summaries, worker
<1>25. ASSUME NEW s \in Stoppers, StopTells(s)
      PROVE  Control'
  BY <1>25
  DEF Control, Typed, StopTells, StopOnly, record, settling, ending, summaries,
      worker, CloseStream
<1>26. ASSUME NEW c \in Cycle, Worker(c)
      PROVE  Control'
  BY <1>26, WorkerEffect, Recorded
  DEF Control, Typed, WorkerOnly, settling, ending
<1>27. CASE UNCHANGED vars
  BY <1>27
  DEF Control, Typed, vars, settling, ending, summaries, worker, record
<1>. QED
  BY <1>1, <1>2, <1>3, <1>4, <1>5, <1>6, <1>7, <1>8, <1>9, <1>10, <1>11, <1>12,
      <1>13, <1>14, <1>15, <1>16, <1>17, <1>18, <1>19, <1>20, <1>21, <1>22, <1>23,
      <1>24, <1>25, <1>26, <1>27
  DEF Next, Run, Request

\* Every step keeps the end of the run to the one thread that has claimed it.
LEMMA EndingKept ==
    ASSUME Typed, Control, Streams, Settlement, Ending, [Next]_vars
    PROVE  Ending'
<1>. USE ChurnConstants DEF BeforeCycle, InCycle, Settles, Ended, Goto, Threads
<1>1. CASE SampleBefore
  BY <1>1, SampleEffect, Recorded
  DEF Ending, Typed, RunTypes,
     CycleTypes, SetTypes, RecordTypes, RunTypes, CycleTypes,
      SetTypes, RecordTypes, Control, Alive, Terminal, SampleBefore, RunnerOnly, worker
<1>2. CASE CycleStarts
  BY <1>2, Recorded
  DEF Ending, Typed, RunTypes,
     CycleTypes, SetTypes, RecordTypes, RunTypes, CycleTypes,
      SetTypes, RecordTypes, Control, Alive, Terminal, CycleStarts, settling,
      ending, summaries
<1>3. CASE Opening
  BY <1>3
  DEF Ending, Typed, RunTypes,
     CycleTypes, SetTypes, RecordTypes, RunTypes, CycleTypes,
      SetTypes, RecordTypes, Control, Alive, Terminal, Opening, record, RunnerOnly,
      worker, settling
<1>4. CASE OpeningTimesOut
  BY <1>4
  DEF Ending, Typed, RunTypes,
     CycleTypes, SetTypes, RecordTypes, RunTypes, CycleTypes,
      SetTypes, RecordTypes, Control, Alive, Terminal, OpeningTimesOut, record,
      RunnerOnly, worker, settling, CloseStream
<1>5. CASE SampleOpen
  BY <1>5, SampleEffect, Recorded
  DEF Ending, Typed, RunTypes,
     CycleTypes, SetTypes, RecordTypes, RunTypes, CycleTypes,
      SetTypes, RecordTypes, Control, Alive, Terminal, SampleOpen, RunnerOnly, worker
<1>6. CASE Observed
  BY <1>6, Recorded
  DEF Ending, Typed, RunTypes,
     CycleTypes, SetTypes, RecordTypes, RunTypes, CycleTypes,
      SetTypes, RecordTypes, Control, Alive, Terminal, Observed, RunnerOnly, worker,
      settling
<1>7. CASE Disconnect
  BY <1>7
  DEF Ending, Typed, RunTypes,
     CycleTypes, SetTypes, RecordTypes, RunTypes, CycleTypes,
      SetTypes, RecordTypes, Control, Alive, Terminal, Disconnect, record,
      RunnerOnly, worker, settling, CloseStream
<1>8. CASE Join
  BY <1>8, Recorded
  DEF Ending, Typed, RunTypes,
     CycleTypes, SetTypes, RecordTypes, RunTypes, CycleTypes,
      SetTypes, RecordTypes, Control, Alive, Terminal, Join, RunnerOnly, worker,
      settling
<1>9. CASE SampleDisconnect
  BY <1>9, SampleEffect, Recorded
  DEF Ending, Typed, RunTypes,
     CycleTypes, SetTypes, RecordTypes, RunTypes, CycleTypes,
      SetTypes, RecordTypes, Control, Alive, Terminal, SampleDisconnect, RunnerOnly,
      worker
<1>10. CASE CycleFinishes
  BY <1>10, Recorded
  DEF Ending, Typed, RunTypes,
     CycleTypes, SetTypes, RecordTypes, RunTypes, CycleTypes,
      SetTypes, RecordTypes, Control, Alive, Terminal, CycleFinishes, settling,
      ending, Forget, Verdict
<1>11. CASE Delay
  BY <1>11
  DEF Ending, Typed, RunTypes,
     CycleTypes, SetTypes, RecordTypes, RunTypes, CycleTypes,
      SetTypes, RecordTypes, Control, Alive, Terminal, Delay, record, RunnerOnly,
      worker, settling
<1>12. CASE SampleAfter
  BY <1>12, SampleEffect, Recorded
  DEF Ending, Typed, RunTypes,
     CycleTypes, SetTypes, RecordTypes, RunTypes, CycleTypes,
      SetTypes, RecordTypes, Control, Alive, Terminal, SampleAfter, RunnerOnly, worker
<1>13. CASE Except
  BY <1>13, Recorded
  DEF Ending, Typed, RunTypes,
     CycleTypes, SetTypes, RecordTypes, RunTypes, CycleTypes,
      SetTypes, RecordTypes, Control, Alive, Terminal, Except, RunnerOnly, worker,
      settling
<1>14. CASE CancelActiveStream
  BY <1>14
  DEF Ending, Typed, RunTypes,
     CycleTypes, SetTypes, RecordTypes, RunTypes, CycleTypes,
      SetTypes, RecordTypes, Control, Alive, Terminal, CancelActiveStream, record,
      RunnerOnly, worker, settling, CloseStream
<1>15. CASE Settle
  BY <1>15, Recorded
  DEF Ending, Typed, RunTypes,
     CycleTypes, SetTypes, RecordTypes, RunTypes, CycleTypes,
      SetTypes, RecordTypes, Control, Alive, Terminal, Settle, SettleOnly,
      RunnerOnly, worker, Settled, SettlementNeeded, Recovered
<1>16. CASE SettlementStarts
  BY <1>16, Recorded
  DEF Ending, Typed, RunTypes,
     CycleTypes, SetTypes, RecordTypes, RunTypes, CycleTypes,
      SetTypes, RecordTypes, Control, Alive, Terminal, SettlementStarts, SettleOnly,
      RunnerOnly, worker, SettlementNeeded
<1>17. CASE Interrupted
  BY <1>17, Recorded
  DEF Ending, Typed, RunTypes,
     CycleTypes, SetTypes, RecordTypes, RunTypes, CycleTypes,
      SetTypes, RecordTypes, Control, Alive, Terminal, Interrupted, SettleOnly,
      RunnerOnly, worker, Settled
<1>18. CASE Checkpoint
  BY <1>18, Recorded
  DEF Ending, Typed, RunTypes,
     CycleTypes, SetTypes, RecordTypes, RunTypes, CycleTypes,
      SetTypes, RecordTypes, Control, Alive, Terminal, Checkpoint, SettleOnly,
      RunnerOnly, worker
<1>19. CASE Compare
  BY <1>19, Recorded
  DEF Ending, Typed, RunTypes,
     CycleTypes, SetTypes, RecordTypes, RunTypes, CycleTypes,
      SetTypes, RecordTypes, Control, Alive, Terminal, Compare, SettleOnly,
      RunnerOnly, worker, Settled, Recovered
<1>20. CASE Unsettled
  BY <1>20
  DEF Ending, Typed, RunTypes,
     CycleTypes, SetTypes, RecordTypes, RunTypes, CycleTypes,
      SetTypes, RecordTypes, Control, Alive, Terminal, Unsettled, SettleOnly,
      RunnerOnly, worker, Fail
<1>21. CASE Decide
  BY <1>21
  DEF Ending, Typed, RunTypes,
     CycleTypes, SetTypes, RecordTypes, RunTypes, CycleTypes,
      SetTypes, RecordTypes, Control, Alive, Terminal, Decide, record, SettleOnly,
      RunnerOnly, worker
<1>22. ASSUME NEW t \in Threads, Finish(t) \/ (t = Watcher /\ Watch)
      PROVE  Ending'
  <2>1. /\ UNCHANGED <<failure, record, pending, at, cycle, settlement>>
        /\ pc[t] = IF t = Watcher THEN "idle" ELSE "finish"
    BY <1>22, FinishEffect DEF FinishOnly, settling, worker
  <2>2. CASE /\ pc' = [pc EXCEPT ![t] = Rest(t)]
             /\ UNCHANGED <<state, streamThread, claimed>>
    <3>1. \A u \in Threads : pc'[u] = "record" => pc[u] = "record"
      BY <2>2 DEF Rest, Control
    <3>2. pc[Runner] \in {"record", "dead"} => pc'[Runner] \in {"record", "dead"}
      BY <2>1, <2>2 DEF Rest, Control
    <3>3. pc[Runner] \in Ended => pc'[Runner] \in Ended
      BY <2>1, <2>2 DEF Rest, Control
    <3>. QED  BY <2>1, <2>2, <3>1, <3>2, <3>3 DEF Ending, Alive, record
  <2>3. CASE state \notin Terminal /\ claimed
    BY <2>3 DEF Ending
  <2>4. CASE /\ pc' = [pc EXCEPT ![t] = "record"]
             /\ state \notin Terminal /\ ~claimed /\ claimed' = TRUE
             /\ state' = pending /\ pending \in Terminal /\ streamThread' = None
             /\ t = Runner \/ pc[Runner] = "dead"
             /\ streamThread = None \/ ~Alive(streamThread)
    <3>1. \A c \in Cycle : ~Alive(c)
      BY <2>4 DEF Streams, Cycle
    <3>2. pc'[Runner] \in {"record", "dead"}
      BY <2>4 DEF Control
    <3>3. \A u \in Threads : pc'[u] = "record" => u = t
      BY <2>4 DEF Control, Ending
    <3>4. recorder # "closed" /\ terminals = 0
      BY <2>4 DEF Ending, Typed, RecordTypes
    <3>. QED  BY <2>1, <2>4, <3>1, <3>2, <3>3, <3>4 DEF Ending, Alive, record
  <2>. QED  BY <1>22, <2>2, <2>3, <2>4, FinishEffect
<1>23. ASSUME NEW t \in Threads, RecordTerminal(t)
      PROVE  Ending'
  BY <1>23
  DEF Ending, Typed, RunTypes,
     CycleTypes, SetTypes, RecordTypes, RunTypes, CycleTypes,
      SetTypes, RecordTypes, Control, Alive, Terminal, RecordTerminal, FinishOnly,
      settling, summaries, worker, Refuse, Rest
<1>24. ASSUME NEW s \in Stoppers, StopReads(s)
      PROVE  Ending'
  BY <1>24
  DEF Ending, Typed, RunTypes,
     CycleTypes, SetTypes, RecordTypes, RunTypes, CycleTypes,
      SetTypes, RecordTypes, Control, Alive, Terminal, StopReads, StopOnly, record,
      settling, ending, summaries, worker
<1>25. ASSUME NEW s \in Stoppers, StopTells(s)
      PROVE  Ending'
  BY <1>25
  DEF Ending, Typed, RunTypes,
     CycleTypes, SetTypes, RecordTypes, RunTypes, CycleTypes,
      SetTypes, RecordTypes, Control, Alive, Terminal, StopTells, StopOnly, record,
      settling, ending, summaries, worker, CloseStream
<1>26. ASSUME NEW c \in Cycle, Worker(c)
      PROVE  Ending'
  BY <1>26, WorkerEffect, Recorded
  DEF Ending, Typed, RunTypes,
     CycleTypes, SetTypes, RecordTypes, RunTypes, CycleTypes,
      SetTypes, RecordTypes, Control, Alive, Terminal, WorkerOnly, settling, ending
<1>27. CASE UNCHANGED vars
  BY <1>27
  DEF Ending, Typed, RunTypes,
     CycleTypes, SetTypes, RecordTypes, RunTypes, CycleTypes,
      SetTypes, RecordTypes, Control, Alive, Terminal, vars, settling, ending,
      summaries, worker, record
<1>. QED
  BY <1>1, <1>2, <1>3, <1>4, <1>5, <1>6, <1>7, <1>8, <1>9, <1>10, <1>11, <1>12,
      <1>13, <1>14, <1>15, <1>16, <1>17, <1>18, <1>19, <1>20, <1>21, <1>22, <1>23,
      <1>24, <1>25, <1>26, <1>27
  DEF Next, Run, Request

\* Every step keeps the stream of the running cycle the only one.
LEMMA StreamsKept ==
    ASSUME Typed, Control, Ending, Judging, Streams, [Next]_vars
    PROVE  Streams'
<1>. USE ChurnConstants DEF BeforeCycle, InCycle, Settles, Ended, Goto, Threads
<1>1. CASE SampleBefore
  BY <1>1, SampleEffect, Recorded
  DEF Streams, Typed, RunTypes, CycleTypes,
      SetTypes, RecordTypes, Control, Alive, SampleBefore, RunnerOnly, worker
<1>2. CASE CycleStarts
  <2>0. /\ pc[Runner] = "head" /\ \A c \in Cycle : ~Alive(c)
        /\ cycle \in 0..Cycles /\ cycle < Cycles /\ pc' = [pc EXCEPT ![Runner] = pc'[Runner]]
        /\ UNCHANGED <<judged, outcome, response, stopSet, latest>>
    BY <1>2 DEF CycleStarts, Streams, Typed, RunTypes, Control, summaries, settling
  <2>1. CASE cancel
    <3>1. pc'[Runner] = "after" /\ UNCHANGED <<cycle, at, streamThread>>
      BY <1>2, <2>1 DEF CycleStarts, Control
    <3>. QED  BY <2>0, <3>1 DEF Streams, Alive
  <2>2. CASE ~cancel
    <3>1. cycle' = cycle + 1 /\ cycle' \in Cycle /\ cycle + 1 > cycle
      BY <1>2, <2>0, <2>2 DEF CycleStarts, Cycle
    <3>2. at[cycle'] = "none" /\ judged[cycle'] = None /\ outcome[cycle'] = "connecting"
          /\ \A c \in Cycle : c > cycle' => c > cycle /\ c # cycle'
      BY <2>0, <3>1 DEF Streams, Cycle
    <3>3. response = None
      BY <2>0 DEF Streams, Alive, Streaming, Typed, RunTypes
    <3>4. CASE /\ at' = [at EXCEPT ![cycle'] = "dialing"]
               /\ streamThread' = cycle' /\ pc'[Runner] = "opening"
      <4>1. \A c \in Cycle : c # cycle' => at'[c] = at[c]
        BY <3>4 DEF Typed, CycleTypes
      <4>. QED  BY <2>0, <3>1, <3>2, <3>3, <3>4, <4>1 DEF Streams, Alive
    <3>5. CASE pc'[Runner] = "except" /\ UNCHANGED <<at, streamThread>>
      BY <2>0, <3>1, <3>2, <3>3, <3>5 DEF Streams, Alive
    <3>. QED  BY <1>2, <2>2, <3>4, <3>5 DEF CycleStarts, Control
  <2>. QED  BY <2>1, <2>2
<1>3. CASE Opening
  BY <1>3
  DEF Streams, Typed, RunTypes, CycleTypes,
      SetTypes, RecordTypes, Control, Alive, Opening, record, RunnerOnly, worker,
      settling
<1>4. CASE OpeningTimesOut
  BY <1>4
  DEF Streams, Typed, RunTypes, CycleTypes,
      SetTypes, RecordTypes, Control, Alive, OpeningTimesOut, record, RunnerOnly,
      worker, settling, CloseStream
<1>5. CASE SampleOpen
  BY <1>5, SampleEffect, Recorded
  DEF Streams, Typed, RunTypes, CycleTypes,
      SetTypes, RecordTypes, Control, Alive, SampleOpen, RunnerOnly, worker
<1>6. CASE Observed
  BY <1>6, Recorded
  DEF Streams, Typed, RunTypes, CycleTypes,
      SetTypes, RecordTypes, Control, Alive, Observed, RunnerOnly, worker, settling
<1>7. CASE Disconnect
  BY <1>7
  DEF Streams, Typed, RunTypes, CycleTypes,
      SetTypes, RecordTypes, Control, Alive, Disconnect, record, RunnerOnly, worker,
      settling, CloseStream
<1>8. CASE Join
  BY <1>8, Recorded
  DEF Streams, Typed, RunTypes, CycleTypes,
      SetTypes, RecordTypes, Control, Alive, Join, RunnerOnly, worker, settling
<1>9. CASE SampleDisconnect
  BY <1>9, SampleEffect, Recorded
  DEF Streams, Typed, RunTypes, CycleTypes,
      SetTypes, RecordTypes, Control, Alive, SampleDisconnect, RunnerOnly, worker
<1>10. CASE CycleFinishes
  <2>1. /\ pc[Runner] = "judge" /\ cycle \in Cycle /\ streamThread = cycle
        /\ UNCHANGED <<cycle, at, response, latest>>
        /\ streamThread' = IF Alive(cycle) THEN streamThread ELSE None
        /\ pc' = [pc EXCEPT ![Runner] = pc'[Runner]]
        /\ pc'[Runner] \in {"except", "delay"}
        /\ pc'[Runner] = "delay" => ~Alive(cycle)
        /\ \A c \in Cycle : c # cycle => outcome'[c] = outcome[c] /\ judged'[c] = judged[c]
    BY <1>10 DEF CycleFinishes, Streams, Judging, Control, settling, Typed, CycleTypes
  <2>2. \A c \in Cycle : c > cycle => c # cycle
    BY <2>1 DEF Cycle
  <2>3. \A c \in Cycle : Alive(c) => c = cycle
    BY <2>1 DEF Streams
  <2>. QED  BY <2>1, <2>2, <2>3 DEF Streams, Alive
<1>11. CASE Delay
  BY <1>11
  DEF Streams, Typed, RunTypes, CycleTypes,
      SetTypes, RecordTypes, Control, Alive, Delay, record, RunnerOnly, worker, settling
<1>12. CASE SampleAfter
  BY <1>12, SampleEffect, Recorded
  DEF Streams, Typed, RunTypes, CycleTypes,
      SetTypes, RecordTypes, Control, Alive, SampleAfter, RunnerOnly, worker
<1>13. CASE Except
  BY <1>13, Recorded
  DEF Streams, Typed, RunTypes, CycleTypes,
      SetTypes, RecordTypes, Control, Alive, Except, RunnerOnly, worker, settling
<1>14. CASE CancelActiveStream
  BY <1>14
  DEF Streams, Typed, RunTypes, CycleTypes,
      SetTypes, RecordTypes, Control, Alive, CancelActiveStream, record, RunnerOnly,
      worker, settling, CloseStream
<1>15. CASE Settle
  BY <1>15, Recorded
  DEF Streams, Typed, RunTypes, CycleTypes,
      SetTypes, RecordTypes, Control, Alive, Settle, SettleOnly, RunnerOnly, worker,
      Settled, SettlementNeeded, Recovered
<1>16. CASE SettlementStarts
  BY <1>16, Recorded
  DEF Streams, Typed, RunTypes, CycleTypes,
      SetTypes, RecordTypes, Control, Alive, SettlementStarts, SettleOnly,
      RunnerOnly, worker, SettlementNeeded
<1>17. CASE Interrupted
  BY <1>17, Recorded
  DEF Streams, Typed, RunTypes, CycleTypes,
      SetTypes, RecordTypes, Control, Alive, Interrupted, SettleOnly, RunnerOnly,
      worker, Settled
<1>18. CASE Checkpoint
  BY <1>18, Recorded
  DEF Streams, Typed, RunTypes, CycleTypes,
      SetTypes, RecordTypes, Control, Alive, Checkpoint, SettleOnly, RunnerOnly, worker
<1>19. CASE Compare
  BY <1>19, Recorded
  DEF Streams, Typed, RunTypes, CycleTypes,
      SetTypes, RecordTypes, Control, Alive, Compare, SettleOnly, RunnerOnly,
      worker, Settled, Recovered
<1>20. CASE Unsettled
  BY <1>20
  DEF Streams, Typed, RunTypes, CycleTypes,
      SetTypes, RecordTypes, Control, Alive, Unsettled, SettleOnly, RunnerOnly,
      worker, Fail
<1>21. CASE Decide
  BY <1>21
  DEF Streams, Typed, RunTypes, CycleTypes,
      SetTypes, RecordTypes, Control, Alive, Decide, record, SettleOnly, RunnerOnly,
      worker
<1>22. ASSUME NEW t \in Threads, Finish(t) \/ (t = Watcher /\ Watch)
      PROVE  Streams'
  <2>0. /\ FinishOnly
        /\ \/ pc' = [pc EXCEPT ![t] = "record"]
           \/ pc' = [pc EXCEPT ![t] = Rest(t)]
    BY <1>22, FinishEffect
  <2>3. UNCHANGED <<cycle, at, judged, outcome, response, latest, stopSet>>
    BY <2>0 DEF FinishOnly, settling, summaries, worker
  <2>4. /\ t # Runner => pc'[Runner] = pc[Runner]
        /\ t = Runner => pc'[Runner] \in {"record", "dead"}
    BY <2>0 DEF Control, Rest
  <2>1. /\ UNCHANGED <<cycle, at, judged, outcome, response, latest, stopSet>>
        /\ t # Runner => pc'[Runner] = pc[Runner]
        /\ t = Runner => pc'[Runner] \in {"record", "dead"}
    BY <2>3, <2>4
  <2>2. /\ streamThread' # streamThread => \A c \in Cycle : ~Alive(c)
        /\ streamThread' # streamThread => pc'[Runner] \notin InCycle
    <3>1. CASE claimed
      BY <1>22, <3>1, FinishEffect DEF Ending, Control
    <3>2. CASE ~claimed
      BY <1>22, <2>1, <3>2, FinishEffect DEF Streams
    <3>. QED  BY <3>1, <3>2
  <2>. QED  BY <2>1, <2>2 DEF Streams, Alive
<1>23. ASSUME NEW t \in Threads, RecordTerminal(t)
      PROVE  Streams'
  BY <1>23
  DEF Streams, Typed, RunTypes, CycleTypes,
      SetTypes, RecordTypes, Control, Alive, RecordTerminal, FinishOnly, settling,
      summaries, worker, Refuse, Rest
<1>24. ASSUME NEW s \in Stoppers, StopReads(s)
      PROVE  Streams'
  BY <1>24
  DEF Streams, Typed, RunTypes, CycleTypes,
      SetTypes, RecordTypes, Control, Alive, StopReads, StopOnly, record, settling,
      ending, summaries, worker
<1>25. ASSUME NEW s \in Stoppers, StopTells(s)
      PROVE  Streams'
  BY <1>25
  DEF Streams, Typed, RunTypes, CycleTypes,
      SetTypes, RecordTypes, Control, Alive, StopTells, StopOnly, record, settling,
      ending, summaries, worker, CloseStream
<1>26. ASSUME NEW c \in Cycle, Worker(c)
      PROVE  Streams'
  BY <1>26, WorkerEffect, Recorded
  DEF Streams, Typed, RunTypes, CycleTypes,
      SetTypes, RecordTypes, Control, Alive, WorkerOnly, settling, ending
<1>27. CASE UNCHANGED vars
  BY <1>27
  DEF Streams, Typed, RunTypes, CycleTypes,
      SetTypes, RecordTypes, Control, Alive, vars, settling, ending, summaries,
      worker, record
<1>. QED
  BY <1>1, <1>2, <1>3, <1>4, <1>5, <1>6, <1>7, <1>8, <1>9, <1>10, <1>11, <1>12,
      <1>13, <1>14, <1>15, <1>16, <1>17, <1>18, <1>19, <1>20, <1>21, <1>22, <1>23,
      <1>24, <1>25, <1>26, <1>27
  DEF Next, Run, Request

\* Every step tells a stream to stop before it shuts the socket down.
LEMMA TellingKept ==
    ASSUME Typed, Control, Streams, Telling, [Next]_vars
    PROVE  Telling'
<1>. USE ChurnConstants DEF BeforeCycle, InCycle, Settles, Ended, Goto, Threads
<1>1. CASE SampleBefore
  BY <1>1, SampleEffect, Recorded
  DEF Telling, Typed, RunTypes, CycleTypes,
      SetTypes, RecordTypes, Control, Streams, Alive, Streaming,
      OwnCloseIsNotRemote, SampleBefore, RunnerOnly, worker
<1>2. CASE CycleStarts
  BY <1>2, Recorded
  DEF Telling, Typed, RunTypes, CycleTypes,
      SetTypes, RecordTypes, Control, Streams, Alive, Streaming,
      OwnCloseIsNotRemote, CycleStarts, settling, ending, summaries
<1>3. CASE Opening
  BY <1>3
  DEF Telling, Typed, RunTypes, CycleTypes,
      SetTypes, RecordTypes, Control, Streams, Alive, Streaming,
      OwnCloseIsNotRemote, Opening, record, RunnerOnly, worker, settling
<1>4. CASE OpeningTimesOut
  BY <1>4
  DEF Telling, Typed, RunTypes, CycleTypes,
      SetTypes, RecordTypes, Control, Streams, Alive, Streaming,
      OwnCloseIsNotRemote, OpeningTimesOut, record, RunnerOnly, worker, settling,
      CloseStream
<1>5. CASE SampleOpen
  BY <1>5, SampleEffect, Recorded
  DEF Telling, Typed, RunTypes, CycleTypes,
      SetTypes, RecordTypes, Control, Streams, Alive, Streaming,
      OwnCloseIsNotRemote, SampleOpen, RunnerOnly, worker
<1>6. CASE Observed
  BY <1>6, Recorded
  DEF Telling, Typed, RunTypes, CycleTypes,
      SetTypes, RecordTypes, Control, Streams, Alive, Streaming,
      OwnCloseIsNotRemote, Observed, RunnerOnly, worker, settling
<1>7. CASE Disconnect
  BY <1>7
  DEF Telling, Typed, RunTypes, CycleTypes,
      SetTypes, RecordTypes, Control, Streams, Alive, Streaming,
      OwnCloseIsNotRemote, Disconnect, record, RunnerOnly, worker, settling,
      CloseStream
<1>8. CASE Join
  BY <1>8, Recorded
  DEF Telling, Typed, RunTypes, CycleTypes,
      SetTypes, RecordTypes, Control, Streams, Alive, Streaming,
      OwnCloseIsNotRemote, Join, RunnerOnly, worker, settling
<1>9. CASE SampleDisconnect
  BY <1>9, SampleEffect, Recorded
  DEF Telling, Typed, RunTypes, CycleTypes,
      SetTypes, RecordTypes, Control, Streams, Alive, Streaming,
      OwnCloseIsNotRemote, SampleDisconnect, RunnerOnly, worker
<1>10. CASE CycleFinishes
  BY <1>10, Recorded
  DEF Telling, Typed, RunTypes, CycleTypes,
      SetTypes, RecordTypes, Control, Streams, Alive, Streaming,
      OwnCloseIsNotRemote, CycleFinishes, settling, ending, Forget, Verdict
<1>11. CASE Delay
  BY <1>11
  DEF Telling, Typed, RunTypes, CycleTypes,
      SetTypes, RecordTypes, Control, Streams, Alive, Streaming,
      OwnCloseIsNotRemote, Delay, record, RunnerOnly, worker, settling
<1>12. CASE SampleAfter
  BY <1>12, SampleEffect, Recorded
  DEF Telling, Typed, RunTypes, CycleTypes,
      SetTypes, RecordTypes, Control, Streams, Alive, Streaming,
      OwnCloseIsNotRemote, SampleAfter, RunnerOnly, worker
<1>13. CASE Except
  BY <1>13, Recorded
  DEF Telling, Typed, RunTypes, CycleTypes,
      SetTypes, RecordTypes, Control, Streams, Alive, Streaming,
      OwnCloseIsNotRemote, Except, RunnerOnly, worker, settling
<1>14. CASE CancelActiveStream
  BY <1>14
  DEF Telling, Typed, RunTypes, CycleTypes,
      SetTypes, RecordTypes, Control, Streams, Alive, Streaming,
      OwnCloseIsNotRemote, CancelActiveStream, record, RunnerOnly, worker, settling,
      CloseStream
<1>15. CASE Settle
  BY <1>15, Recorded
  DEF Telling, Typed, RunTypes, CycleTypes,
      SetTypes, RecordTypes, Control, Streams, Alive, Streaming,
      OwnCloseIsNotRemote, Settle, SettleOnly, RunnerOnly, worker, Settled,
      SettlementNeeded, Recovered
<1>16. CASE SettlementStarts
  BY <1>16, Recorded
  DEF Telling, Typed, RunTypes, CycleTypes,
      SetTypes, RecordTypes, Control, Streams, Alive, Streaming,
      OwnCloseIsNotRemote, SettlementStarts, SettleOnly, RunnerOnly, worker,
      SettlementNeeded
<1>17. CASE Interrupted
  BY <1>17, Recorded
  DEF Telling, Typed, RunTypes, CycleTypes,
      SetTypes, RecordTypes, Control, Streams, Alive, Streaming,
      OwnCloseIsNotRemote, Interrupted, SettleOnly, RunnerOnly, worker, Settled
<1>18. CASE Checkpoint
  BY <1>18, Recorded
  DEF Telling, Typed, RunTypes, CycleTypes,
      SetTypes, RecordTypes, Control, Streams, Alive, Streaming,
      OwnCloseIsNotRemote, Checkpoint, SettleOnly, RunnerOnly, worker
<1>19. CASE Compare
  BY <1>19, Recorded
  DEF Telling, Typed, RunTypes, CycleTypes,
      SetTypes, RecordTypes, Control, Streams, Alive, Streaming,
      OwnCloseIsNotRemote, Compare, SettleOnly, RunnerOnly, worker, Settled,
      Recovered
<1>20. CASE Unsettled
  BY <1>20
  DEF Telling, Typed, RunTypes, CycleTypes,
      SetTypes, RecordTypes, Control, Streams, Alive, Streaming,
      OwnCloseIsNotRemote, Unsettled, SettleOnly, RunnerOnly, worker, Fail
<1>21. CASE Decide
  BY <1>21
  DEF Telling, Typed, RunTypes, CycleTypes,
      SetTypes, RecordTypes, Control, Streams, Alive, Streaming,
      OwnCloseIsNotRemote, Decide, record, SettleOnly, RunnerOnly, worker
<1>22. ASSUME NEW t \in Threads, Finish(t) \/ (t = Watcher /\ Watch)
      PROVE  Telling'
  BY <1>22, FinishEffect
  DEF Telling, Typed, RunTypes, CycleTypes,
      SetTypes, RecordTypes, Control, Streams, Alive, Streaming,
      OwnCloseIsNotRemote, FinishOnly, record, settling, summaries, worker, Rest
<1>23. ASSUME NEW t \in Threads, RecordTerminal(t)
      PROVE  Telling'
  BY <1>23
  DEF Telling, Typed, RunTypes, CycleTypes,
      SetTypes, RecordTypes, Control, Streams, Alive, Streaming,
      OwnCloseIsNotRemote, RecordTerminal, FinishOnly, settling, summaries, worker,
      Refuse, Rest
<1>24. ASSUME NEW s \in Stoppers, StopReads(s)
      PROVE  Telling'
  BY <1>24
  DEF Telling, Typed, RunTypes, CycleTypes,
      SetTypes, RecordTypes, Control, Streams, Alive, Streaming,
      OwnCloseIsNotRemote, StopReads, StopOnly, record, settling, ending, summaries,
      worker
<1>25. ASSUME NEW s \in Stoppers, StopTells(s)
      PROVE  Telling'
  BY <1>25
  DEF Telling, Typed, RunTypes, CycleTypes,
      SetTypes, RecordTypes, Control, Streams, Alive, Streaming,
      OwnCloseIsNotRemote, StopTells, StopOnly, record, settling, ending, summaries,
      worker, CloseStream
<1>26. ASSUME NEW c \in Cycle, Worker(c)
      PROVE  Telling'
  BY <1>26, WorkerEffect, Recorded
  DEF Telling, Typed, RunTypes, CycleTypes,
      SetTypes, RecordTypes, Control, Streams, Alive, Streaming,
      OwnCloseIsNotRemote, WorkerOnly, settling, ending
<1>27. CASE UNCHANGED vars
  BY <1>27
  DEF Telling, Typed, RunTypes, CycleTypes,
      SetTypes, RecordTypes, Control, Streams, Alive, Streaming,
      OwnCloseIsNotRemote, vars, settling, ending, summaries, worker, record
<1>. QED
  BY <1>1, <1>2, <1>3, <1>4, <1>5, <1>6, <1>7, <1>8, <1>9, <1>10, <1>11, <1>12,
      <1>13, <1>14, <1>15, <1>16, <1>17, <1>18, <1>19, <1>20, <1>21, <1>22, <1>23,
      <1>24, <1>25, <1>26, <1>27
  DEF Next, Run, Request

\* Every step keeps what the record of a cycle has said.
LEMMA JudgingKept ==
    ASSUME Typed, Control, Streams, Judging, [Next]_vars
    PROVE  Judging'
<1>. USE ChurnConstants DEF BeforeCycle, InCycle, Settles, Ended, Goto, Threads
<1>1. CASE SampleBefore
  BY <1>1, SampleEffect, Recorded
  DEF Judging, Typed, RunTypes, CycleTypes,
      SetTypes, RecordTypes, Control, Alive, SampleBefore, RunnerOnly, worker
<1>2. CASE CycleStarts
  <2>0. /\ pc[Runner] = "head" /\ \A c \in Cycle : ~Alive(c)
        /\ cycle \in 0..Cycles /\ cycle < Cycles /\ pc' = [pc EXCEPT ![Runner] = pc'[Runner]]
        /\ UNCHANGED <<judged, outcome, stopSet>>
    BY <1>2 DEF CycleStarts, Streams, Typed, RunTypes, Control, summaries
  <2>1. CASE pc'[Runner] \in {"after", "except"} /\ UNCHANGED at
    BY <2>0, <2>1 DEF Judging, Alive
  <2>2. CASE /\ pc'[Runner] = "opening" /\ cycle' = cycle + 1
             /\ at' = [at EXCEPT ![cycle'] = "dialing"]
    <3>1. cycle' \in Cycle /\ cycle + 1 > cycle
      BY <2>0, <2>2 DEF Cycle
    <3>2. judged[cycle'] = None /\ outcome[cycle'] = "connecting"
      BY <2>0, <2>2, <3>1 DEF Streams
    <3>3. \A c \in Cycle : c # cycle' => at'[c] = at[c]
      BY <2>2 DEF Typed, CycleTypes
    <3>. QED  BY <2>0, <2>2, <3>2, <3>3 DEF Judging, Alive, Untouched
  <2>. QED  BY <1>2, <2>1, <2>2 DEF CycleStarts, Control
<1>3. CASE Opening
  BY <1>3
  DEF Judging, Typed, RunTypes, CycleTypes,
      SetTypes, RecordTypes, Control, Alive, Opening, record, RunnerOnly, worker,
      settling
<1>4. CASE OpeningTimesOut
  BY <1>4
  DEF Judging, Typed, RunTypes, CycleTypes,
      SetTypes, RecordTypes, Control, Alive, OpeningTimesOut, record, RunnerOnly,
      worker, settling, CloseStream
<1>5. CASE SampleOpen
  BY <1>5, SampleEffect, Recorded
  DEF Judging, Typed, RunTypes, CycleTypes,
      SetTypes, RecordTypes, Control, Alive, SampleOpen, RunnerOnly, worker
<1>6. CASE Observed
  BY <1>6, Recorded
  DEF Judging, Typed, RunTypes, CycleTypes,
      SetTypes, RecordTypes, Control, Alive, Observed, RunnerOnly, worker, settling
<1>7. CASE Disconnect
  BY <1>7
  DEF Judging, Typed, RunTypes, CycleTypes,
      SetTypes, RecordTypes, Control, Alive, Disconnect, record, RunnerOnly, worker,
      settling, CloseStream
<1>8. CASE Join
  <2>1. /\ pc[Runner] = "join" /\ cycle \in Cycle /\ judged[cycle] = None
        /\ cycle \in stopSet /\ UNCHANGED <<cycle, at, judged, stopSet>>
        /\ pc' = [pc EXCEPT ![Runner] = pc'[Runner]]
        /\ outcome[cycle] \in Untouched
    BY <1>8 DEF Join, Streams, Judging, RunnerOnly, worker, Control
  <2>2. \A c \in Cycle : c # cycle => outcome'[c] = outcome[c]
    BY <1>8, <2>1 DEF Join, Typed, CycleTypes
  <2>3. pc'[Runner] \in {"sample", "except"}
    BY <1>8 DEF Join, Control
  <2>4. pc'[Runner] = "sample" =>
           /\ ~fault' => ~Alive(cycle) /\ outcome'[cycle] \in Untouched
           /\ Alive(cycle) => outcome'[cycle] = "cleanup_timeout"
    BY <1>8, <2>1 DEF Join, Typed, CycleTypes, Control
  <2>. QED  BY <2>1, <2>2, <2>3, <2>4 DEF Judging, Alive
<1>9. CASE SampleDisconnect
  BY <1>9, SampleEffect, Recorded
  DEF Judging, Typed, RunTypes, CycleTypes,
      SetTypes, RecordTypes, Control, Alive, SampleDisconnect, RunnerOnly, worker
<1>10. CASE CycleFinishes
  <2>1. /\ pc[Runner] = "judge" /\ cycle \in Cycle /\ cycle \in stopSet
        /\ UNCHANGED <<cycle, at>>
        /\ pc' = [pc EXCEPT ![Runner] = pc'[Runner]]
        /\ pc'[Runner] \in {"except", "delay"}
        /\ judged[cycle] = None
    BY <1>10 DEF CycleFinishes, Streams, Control
  <2>2. /\ outcome' = [outcome EXCEPT ![cycle] = Verdict(cycle)]
        /\ judged' = judged \/ judged' = [judged EXCEPT ![cycle] = Verdict(cycle)]
    BY <1>10 DEF CycleFinishes
  <2>3. \A c \in Cycle : c # cycle => outcome'[c] = outcome[c] /\ judged'[c] = judged[c]
    BY <2>2 DEF Typed, CycleTypes
  <2>4. /\ outcome'[cycle] = Verdict(cycle)
        /\ judged'[cycle] = None \/ judged'[cycle] = Verdict(cycle)
    BY <2>1, <2>2 DEF Typed, CycleTypes
  <2>5. \A c \in Cycle : Alive(c) /\ c \in stopSet => c \in stopSet'
    BY <1>10, <2>1 DEF CycleFinishes, Forget, Streams
  <2>6. Verdict(cycle) # "cleanup_timeout" => (Alive(cycle) => at[cycle] \in Streaming)
    BY <2>1 DEF Verdict, Judging
  <2>. HIDE DEF Verdict
  <2>7. \A c \in Cycle : judged'[c] \notin {None, "cleanup_timeout"} =>
           /\ outcome'[c] = judged'[c]
           /\ Alive(c) => c \in stopSet' /\ at[c] \in Streaming
    <3>. TAKE c \in Cycle
    <3>1. CASE c = cycle
      BY <2>1, <2>4, <2>5, <2>6, <3>1
    <3>2. CASE c # cycle
      BY <2>3, <2>5, <3>2 DEF Judging
    <3>. QED  BY <3>1, <3>2
  <2>. QED  BY <2>1, <2>7 DEF Judging, Alive
<1>11. CASE Delay
  BY <1>11
  DEF Judging, Typed, RunTypes, CycleTypes,
      SetTypes, RecordTypes, Control, Alive, Delay, record, RunnerOnly, worker, settling
<1>12. CASE SampleAfter
  BY <1>12, SampleEffect, Recorded
  DEF Judging, Typed, RunTypes, CycleTypes,
      SetTypes, RecordTypes, Control, Alive, SampleAfter, RunnerOnly, worker
<1>13. CASE Except
  BY <1>13, Recorded
  DEF Judging, Typed, RunTypes, CycleTypes,
      SetTypes, RecordTypes, Control, Alive, Except, RunnerOnly, worker, settling
<1>14. CASE CancelActiveStream
  BY <1>14
  DEF Judging, Typed, RunTypes, CycleTypes,
      SetTypes, RecordTypes, Control, Alive, CancelActiveStream, record, RunnerOnly,
      worker, settling, CloseStream
<1>15. CASE Settle
  BY <1>15, Recorded
  DEF Judging, Typed, RunTypes, CycleTypes,
      SetTypes, RecordTypes, Control, Alive, Settle, SettleOnly, RunnerOnly, worker,
      Settled, SettlementNeeded, Recovered
<1>16. CASE SettlementStarts
  BY <1>16, Recorded
  DEF Judging, Typed, RunTypes, CycleTypes,
      SetTypes, RecordTypes, Control, Alive, SettlementStarts, SettleOnly,
      RunnerOnly, worker, SettlementNeeded
<1>17. CASE Interrupted
  BY <1>17, Recorded
  DEF Judging, Typed, RunTypes, CycleTypes,
      SetTypes, RecordTypes, Control, Alive, Interrupted, SettleOnly, RunnerOnly,
      worker, Settled
<1>18. CASE Checkpoint
  BY <1>18, Recorded
  DEF Judging, Typed, RunTypes, CycleTypes,
      SetTypes, RecordTypes, Control, Alive, Checkpoint, SettleOnly, RunnerOnly, worker
<1>19. CASE Compare
  BY <1>19, Recorded
  DEF Judging, Typed, RunTypes, CycleTypes,
      SetTypes, RecordTypes, Control, Alive, Compare, SettleOnly, RunnerOnly,
      worker, Settled, Recovered
<1>20. CASE Unsettled
  BY <1>20
  DEF Judging, Typed, RunTypes, CycleTypes,
      SetTypes, RecordTypes, Control, Alive, Unsettled, SettleOnly, RunnerOnly,
      worker, Fail
<1>21. CASE Decide
  BY <1>21
  DEF Judging, Typed, RunTypes, CycleTypes,
      SetTypes, RecordTypes, Control, Alive, Decide, record, SettleOnly, RunnerOnly,
      worker
<1>22. ASSUME NEW t \in Threads, Finish(t) \/ (t = Watcher /\ Watch)
      PROVE  Judging'
  <2>1. FinishOnly
    BY <1>22, FinishEffect
  <2>2. UNCHANGED <<cycle, at, judged, outcome, stopSet, fault>>
    BY <2>1 DEF FinishOnly, summaries, worker
  <2>3. \/ pc' = [pc EXCEPT ![t] = "record"]
        \/ pc' = [pc EXCEPT ![t] = Rest(t)]
    BY <1>22, FinishEffect
  <2>4. /\ t # Runner => pc'[Runner] = pc[Runner]
        /\ t = Runner => pc'[Runner] \in {"record", "dead"}
    BY <2>3 DEF Control, Rest
  <2>. QED  BY <2>2, <2>4 DEF Judging, Alive
<1>23. ASSUME NEW t \in Threads, RecordTerminal(t)
      PROVE  Judging'
  BY <1>23
  DEF Judging, Typed, RunTypes, CycleTypes,
      SetTypes, RecordTypes, Control, Alive, RecordTerminal, FinishOnly, settling,
      summaries, worker, Refuse, Rest
<1>24. ASSUME NEW s \in Stoppers, StopReads(s)
      PROVE  Judging'
  BY <1>24
  DEF Judging, Typed, RunTypes, CycleTypes,
      SetTypes, RecordTypes, Control, Alive, StopReads, StopOnly, record, settling,
      ending, summaries, worker
<1>25. ASSUME NEW s \in Stoppers, StopTells(s)
      PROVE  Judging'
  BY <1>25
  DEF Judging, Typed, RunTypes, CycleTypes,
      SetTypes, RecordTypes, Control, Alive, StopTells, StopOnly, record, settling,
      ending, summaries, worker, CloseStream
<1>26. ASSUME NEW c \in Cycle, Worker(c)
      PROVE  Judging'
  <2>1. /\ UNCHANGED <<cycle, judged, fault, pc>>
        /\ \A d \in Cycle : d # c => at'[d] = at[d] /\ outcome'[d] = outcome[d]
        /\ outcome'[c] # outcome[c] => /\ outcome'[c] \in Untouched
                                       /\ at'[c] \in Streaming
                                       /\ ~(c \in stopSet /\ at[c] \in Streaming)
        /\ at[c] \in Streaming => at'[c] \in Streaming \union {"ended"}
        /\ stopSet \subseteq stopSet' /\ Alive(c)
    BY <1>26, WorkerEffect DEF WorkerOnly
  <2>2. pc[Runner] \in InCycle => cycle \in Cycle
    BY DEF Streams
  <2>. QED  BY <1>26, <2>1, <2>2 DEF Judging, Alive
<1>27. CASE UNCHANGED vars
  BY <1>27
  DEF Judging, Typed, RunTypes, CycleTypes,
      SetTypes, RecordTypes, Control, Alive, vars, settling, ending, summaries,
      worker, record
<1>. QED
  BY <1>1, <1>2, <1>3, <1>4, <1>5, <1>6, <1>7, <1>8, <1>9, <1>10, <1>11, <1>12,
      <1>13, <1>14, <1>15, <1>16, <1>17, <1>18, <1>19, <1>20, <1>21, <1>22, <1>23,
      <1>24, <1>25, <1>26, <1>27
  DEF Next, Run, Request

\* Every step keeps what the verdict rests on.
LEMMA ProgressKept ==
    ASSUME Typed, Control, Streams, Judging, Settlement, Ending, Progress, [Next]_vars
    PROVE  Progress'
<1>. USE ChurnConstants DEF BeforeCycle, InCycle, Settles, Ended, Goto, Threads
<1>1. CASE SampleBefore
  BY <1>1, SampleEffect, Recorded
  DEF Progress, Typed, RunTypes, CycleTypes,
      SetTypes, RecordTypes, Control, Good, SampleBefore, RunnerOnly, worker
<1>2. CASE CycleStarts
  <2>0. /\ pc[Runner] = "head" /\ cycle \in 0..Cycles /\ cycle < Cycles
        /\ pc' = [pc EXCEPT ![Runner] = pc'[Runner]]
        /\ UNCHANGED <<judged, ok, failure, cancel, pending, settlement>>
    BY <1>2 DEF CycleStarts, Streams, Typed, RunTypes, Control, settling, ending,
        summaries
  <2>1. CASE cancel /\ pc'[Runner] = "after" /\ UNCHANGED cycle
    BY <2>0, <2>1 DEF Progress, Good
  <2>2. CASE pc'[Runner] = "opening" /\ cycle' = cycle + 1
    <3>1. \A c \in Cycle : c < cycle' => c < cycle \/ c = cycle
      BY <2>0, <2>2 DEF Cycle
    <3>2. pending \notin {"completed", "cancelled", "failed"} \/ UNCHANGED <<pending, settlement>>
      BY <2>0
    <3>3. \A c \in Cycle : c = cycle' => ~(c < cycle')
      BY <2>0, <2>2
    <3>. QED  BY <2>0, <2>2, <3>1, <3>3 DEF Progress, Good
  <2>3. CASE pc'[Runner] = "except"
    BY <2>0, <2>3 DEF Progress, Good
  <2>. QED  BY <1>2, <2>1, <2>2, <2>3 DEF CycleStarts, Control
<1>3. CASE Opening
  BY <1>3
  DEF Progress, Typed, RunTypes, CycleTypes,
      SetTypes, RecordTypes, Control, Good, Opening, record, RunnerOnly, worker,
      settling
<1>4. CASE OpeningTimesOut
  BY <1>4
  DEF Progress, Typed, RunTypes, CycleTypes,
      SetTypes, RecordTypes, Control, Good, OpeningTimesOut, record, RunnerOnly,
      worker, settling, CloseStream
<1>5. CASE SampleOpen
  BY <1>5, SampleEffect, Recorded
  DEF Progress, Typed, RunTypes, CycleTypes,
      SetTypes, RecordTypes, Control, Good, SampleOpen, RunnerOnly, worker
<1>6. CASE Observed
  BY <1>6, Recorded
  DEF Progress, Typed, RunTypes, CycleTypes,
      SetTypes, RecordTypes, Control, Good, Observed, RunnerOnly, worker, settling
<1>7. CASE Disconnect
  BY <1>7
  DEF Progress, Typed, RunTypes, CycleTypes,
      SetTypes, RecordTypes, Control, Good, Disconnect, record, RunnerOnly, worker,
      settling, CloseStream
<1>8. CASE Join
  BY <1>8, Recorded
  DEF Progress, Typed, RunTypes, CycleTypes,
      SetTypes, RecordTypes, Control, Good, Join, RunnerOnly, worker, settling
<1>9. CASE SampleDisconnect
  BY <1>9, SampleEffect, Recorded
  DEF Progress, Typed, RunTypes, CycleTypes,
      SetTypes, RecordTypes, Control, Good, SampleDisconnect, RunnerOnly, worker
<1>10. CASE CycleFinishes
  <2>1. /\ pc[Runner] = "judge" /\ cycle \in Cycle
        /\ UNCHANGED <<cycle, ok, failure, cancel, pending, settlement>>
        /\ pc' = [pc EXCEPT ![Runner] = pc'[Runner]]
    BY <1>10 DEF CycleFinishes, Streams, Control, settling, ending
  <2>2. \/ pc'[Runner] = "except"
        \/ /\ pc'[Runner] = "delay" /\ ~fault
           /\ judged' = [judged EXCEPT ![cycle] = Verdict(cycle)]
    BY <1>10 DEF CycleFinishes, Control
  <2>3. \A c \in Cycle : c # cycle => judged'[c] = judged[c]
    BY <1>10 DEF CycleFinishes, Typed, CycleTypes
  <2>4. pending \notin Terminal
    BY <2>1 DEF Ending, Terminal
  <2>5. CASE pc'[Runner] = "except"
    BY <2>1, <2>4, <2>5 DEF Progress, Terminal
  <2>6. CASE /\ pc'[Runner] = "delay" /\ ~fault
             /\ judged' = [judged EXCEPT ![cycle] = Verdict(cycle)]
    <3>1. outcome[cycle] \in Untouched
      BY <2>1, <2>6 DEF Judging
    <3>2. Verdict(cycle) \notin {None, "cleanup_timeout", "controller_failure"}
      BY <3>1 DEF Verdict, Untouched, Outcomes
    <3>. HIDE DEF Verdict
    <3>3. Good(cycle)'
      BY <2>1, <2>6, <3>2 DEF Good, Typed, CycleTypes
    <3>4. \A c \in Cycle : c < cycle => c # cycle
      BY <2>1 DEF Cycle
    <3>5. \A c \in Cycle : c < cycle => (Good(c)' <=> Good(c))
      BY <2>3, <3>4 DEF Good
    <3>. QED  BY <2>1, <2>4, <2>6, <3>3, <3>5 DEF Progress, Terminal
  <2>. QED  BY <2>2, <2>5, <2>6
<1>11. CASE Delay
  BY <1>11
  DEF Progress, Typed, RunTypes, CycleTypes,
      SetTypes, RecordTypes, Control, Good, Delay, record, RunnerOnly, worker, settling
<1>12. CASE SampleAfter
  BY <1>12, SampleEffect, Recorded
  DEF Progress, Typed, RunTypes, CycleTypes,
      SetTypes, RecordTypes, Control, Good, SampleAfter, RunnerOnly, worker
<1>13. CASE Except
  BY <1>13, Recorded
  DEF Progress, Typed, RunTypes, CycleTypes,
      SetTypes, RecordTypes, Control, Good, Except, RunnerOnly, worker, settling
<1>14. CASE CancelActiveStream
  BY <1>14
  DEF Progress, Typed, RunTypes, CycleTypes,
      SetTypes, RecordTypes, Control, Good, CancelActiveStream, record, RunnerOnly,
      worker, settling, CloseStream
<1>15. CASE Settle
  BY <1>15, Recorded
  DEF Progress, Typed, RunTypes, CycleTypes,
      SetTypes, RecordTypes, Control, Good, Settle, SettleOnly, RunnerOnly, worker,
      Settled, SettlementNeeded, Recovered
<1>16. CASE SettlementStarts
  <2>1. /\ pc[Runner] = "settle" /\ pc'[Runner] \in {"checkpoint", "unsettled"}
        /\ UNCHANGED <<cycle, judged, ok, failure, cancel, pending>>
    BY <1>16 DEF SettlementStarts, SettleOnly, RunnerOnly, Control
  <2>2. pending \notin Terminal
    BY <2>1 DEF Ending, Terminal
  <2>. QED  BY <2>1, <2>2 DEF Progress, Good, Terminal
<1>17. CASE Interrupted
  BY <1>17, Recorded
  DEF Progress, Typed, RunTypes, CycleTypes,
      SetTypes, RecordTypes, Control, Good, Interrupted, SettleOnly, RunnerOnly,
      worker, Settled
<1>18. CASE Checkpoint
  BY <1>18, Recorded
  DEF Progress, Typed, RunTypes, CycleTypes,
      SetTypes, RecordTypes, Control, Good, Checkpoint, SettleOnly, RunnerOnly, worker
<1>19. CASE Compare
  BY <1>19, Recorded
  DEF Progress, Typed, RunTypes, CycleTypes,
      SetTypes, RecordTypes, Control, Good, Compare, SettleOnly, RunnerOnly, worker,
      Settled, Recovered
<1>20. CASE Unsettled
  BY <1>20
  DEF Progress, Typed, RunTypes, CycleTypes,
      SetTypes, RecordTypes, Control, Good, Unsettled, SettleOnly, RunnerOnly,
      worker, Fail
<1>21. CASE Decide
  <2>1. /\ pc[Runner] = "decide" /\ pc'[Runner] = "finish"
        /\ UNCHANGED <<cycle, judged, ok, failure, cancel, settlement>>
        /\ pending' = IF cancel THEN "cancelled" ELSE IF ok THEN "completed" ELSE "failed"
    BY <1>21 DEF Decide, SettleOnly, RunnerOnly, Control
  <2>2. ~cancel /\ ok => /\ \A c \in Cycle : Good(c)
                         /\ settlement \notin {"not_started", "settling"}
    <3>. SUFFICES ASSUME ~cancel, ok
                  PROVE  /\ \A c \in Cycle : Good(c)
                         /\ settlement \notin {"not_started", "settling"}
      OBVIOUS
    <3>1. cycle = Cycles
      BY <2>1 DEF Progress
    <3>2. \A c \in Cycle : c < cycle \/ c = cycle
      BY <3>1 DEF Cycle
    <3>. QED  BY <2>1, <3>2 DEF Progress, Settlement
  <2>3. pending' = "failed" => failure
    BY <2>1 DEF Progress
  <2>. QED  BY <2>1, <2>2, <2>3 DEF Progress, Good
<1>22. ASSUME NEW t \in Threads, Finish(t) \/ (t = Watcher /\ Watch)
      PROVE  Progress'
  <2>1. FinishOnly /\ UNCHANGED <<failure, record>>
    BY <1>22, FinishEffect
  <2>2. UNCHANGED <<cycle, judged, ok, failure, cancel, settlement, pending>>
    BY <2>1 DEF FinishOnly, settling, summaries
  <2>3. \/ pc' = [pc EXCEPT ![t] = "record"]
        \/ pc' = [pc EXCEPT ![t] = Rest(t)]
    BY <1>22, FinishEffect
  <2>4. t = Runner => pc[Runner] = "finish"
    BY <1>22, FinishEffect
  <2>5. /\ t # Runner => pc'[Runner] = pc[Runner]
        /\ t = Runner => pc'[Runner] \in {"record", "dead"}
    BY <2>3 DEF Control, Rest
  <2>. QED  BY <2>2, <2>4, <2>5 DEF Progress, Good
<1>23. ASSUME NEW t \in Threads, RecordTerminal(t)
      PROVE  Progress'
  BY <1>23
  DEF Progress, Typed, RunTypes, CycleTypes,
      SetTypes, RecordTypes, Control, Good, RecordTerminal, FinishOnly, settling,
      summaries, worker, Refuse, Rest
<1>24. ASSUME NEW s \in Stoppers, StopReads(s)
      PROVE  Progress'
  BY <1>24
  DEF Progress, Typed, RunTypes, CycleTypes,
      SetTypes, RecordTypes, Control, Good, StopReads, StopOnly, record, settling,
      ending, summaries, worker
<1>25. ASSUME NEW s \in Stoppers, StopTells(s)
      PROVE  Progress'
  BY <1>25
  DEF Progress, Typed, RunTypes, CycleTypes,
      SetTypes, RecordTypes, Control, Good, StopTells, StopOnly, record, settling,
      ending, summaries, worker, CloseStream
<1>26. ASSUME NEW c \in Cycle, Worker(c)
      PROVE  Progress'
  BY <1>26, WorkerEffect, Recorded
  DEF Progress, Typed, RunTypes, CycleTypes,
      SetTypes, RecordTypes, Control, Good, WorkerOnly, settling, ending
<1>27. CASE UNCHANGED vars
  BY <1>27
  DEF Progress, Typed, RunTypes, CycleTypes,
      SetTypes, RecordTypes, Control, Good, vars, settling, ending, summaries,
      worker, record
<1>. QED
  BY <1>1, <1>2, <1>3, <1>4, <1>5, <1>6, <1>7, <1>8, <1>9, <1>10, <1>11, <1>12,
      <1>13, <1>14, <1>15, <1>16, <1>17, <1>18, <1>19, <1>20, <1>21, <1>22, <1>23,
      <1>24, <1>25, <1>26, <1>27
  DEF Next, Run, Request

\* Every step keeps the settlement true to the samples.
LEMMA SettlementKept ==
    ASSUME Typed, Control, Settlement, [Next]_vars
    PROVE  Settlement'
<1>. USE ChurnConstants DEF BeforeCycle, InCycle, Settles, Ended, Goto, Threads
<1>1. CASE SampleBefore
  BY <1>1, SampleEffect, Recorded
  DEF Settlement, SettlementTruthful, Typed, RunTypes, CycleTypes,
      SetTypes, RecordTypes, Control, SampleBefore, RunnerOnly, worker
<1>2. CASE CycleStarts
  BY <1>2, Recorded
  DEF Settlement, SettlementTruthful, Typed, RunTypes, CycleTypes,
      SetTypes, RecordTypes, Control, CycleStarts, settling, ending, summaries
<1>3. CASE Opening
  BY <1>3
  DEF Settlement, SettlementTruthful, Typed, RunTypes, CycleTypes,
      SetTypes, RecordTypes, Control, Opening, record, RunnerOnly, worker, settling
<1>4. CASE OpeningTimesOut
  BY <1>4
  DEF Settlement, SettlementTruthful, Typed, RunTypes, CycleTypes,
      SetTypes, RecordTypes, Control, OpeningTimesOut, record, RunnerOnly, worker,
      settling, CloseStream
<1>5. CASE SampleOpen
  BY <1>5, SampleEffect, Recorded
  DEF Settlement, SettlementTruthful, Typed, RunTypes, CycleTypes,
      SetTypes, RecordTypes, Control, SampleOpen, RunnerOnly, worker
<1>6. CASE Observed
  BY <1>6, Recorded
  DEF Settlement, SettlementTruthful, Typed, RunTypes, CycleTypes,
      SetTypes, RecordTypes, Control, Observed, RunnerOnly, worker, settling
<1>7. CASE Disconnect
  BY <1>7
  DEF Settlement, SettlementTruthful, Typed, RunTypes, CycleTypes,
      SetTypes, RecordTypes, Control, Disconnect, record, RunnerOnly, worker,
      settling, CloseStream
<1>8. CASE Join
  BY <1>8, Recorded
  DEF Settlement, SettlementTruthful, Typed, RunTypes, CycleTypes,
      SetTypes, RecordTypes, Control, Join, RunnerOnly, worker, settling
<1>9. CASE SampleDisconnect
  BY <1>9, SampleEffect, Recorded
  DEF Settlement, SettlementTruthful, Typed, RunTypes, CycleTypes,
      SetTypes, RecordTypes, Control, SampleDisconnect, RunnerOnly, worker
<1>10. CASE CycleFinishes
  BY <1>10, Recorded
  DEF Settlement, SettlementTruthful, Typed, RunTypes, CycleTypes,
      SetTypes, RecordTypes, Control, CycleFinishes, settling, ending, Forget, Verdict
<1>11. CASE Delay
  BY <1>11
  DEF Settlement, SettlementTruthful, Typed, RunTypes, CycleTypes,
      SetTypes, RecordTypes, Control, Delay, record, RunnerOnly, worker, settling
<1>12. CASE SampleAfter
  BY <1>12, SampleEffect, Recorded
  DEF Settlement, SettlementTruthful, Typed, RunTypes, CycleTypes,
      SetTypes, RecordTypes, Control, SampleAfter, RunnerOnly, worker
<1>13. CASE Except
  BY <1>13, Recorded
  DEF Settlement, SettlementTruthful, Typed, RunTypes, CycleTypes,
      SetTypes, RecordTypes, Control, Except, RunnerOnly, worker, settling
<1>14. CASE CancelActiveStream
  BY <1>14
  DEF Settlement, SettlementTruthful, Typed, RunTypes, CycleTypes,
      SetTypes, RecordTypes, Control, CancelActiveStream, record, RunnerOnly,
      worker, settling, CloseStream
<1>15. CASE Settle
  BY <1>15, Recorded
  DEF Settlement, SettlementTruthful, Typed, RunTypes, CycleTypes,
      SetTypes, RecordTypes, Control, Settle, SettleOnly, RunnerOnly, worker,
      Settled, SettlementNeeded, Recovered
<1>16. CASE SettlementStarts
  BY <1>16, Recorded
  DEF Settlement, SettlementTruthful, Typed, RunTypes, CycleTypes,
      SetTypes, RecordTypes, Control, SettlementStarts, SettleOnly, RunnerOnly,
      worker, SettlementNeeded
<1>17. CASE Interrupted
  BY <1>17, Recorded
  DEF Settlement, SettlementTruthful, Typed, RunTypes, CycleTypes,
      SetTypes, RecordTypes, Control, Interrupted, SettleOnly, RunnerOnly, worker,
      Settled
<1>18. CASE Checkpoint
  BY <1>18, Recorded
  DEF Settlement, SettlementTruthful, Typed, RunTypes, CycleTypes,
      SetTypes, RecordTypes, Control, Checkpoint, SettleOnly, RunnerOnly, worker
<1>19. CASE Compare
  <2>1. /\ pc[Runner] = "compare" /\ settlement = "settling"
        /\ UNCHANGED <<baseline, latest, taken, interrupt, ok, failure>>
        /\ baseline \in Nat \union {None} /\ latest.clients \in Nat \union {None}
        /\ taken \in 0..Checkpoints
    BY <1>19, HealthHas
    DEF Compare, SettleOnly, RunnerOnly, Settlement, Control, Typed, RunTypes
  <2>2. CASE /\ baseline # None /\ ~Recovered(latest) /\ taken < Checkpoints
             /\ Goto(Runner, "checkpoint") /\ UNCHANGED settlement
    BY <2>1, <2>2 DEF Settlement, SettlementTruthful, Control
  <2>3. CASE \E what \in {"not_applicable", "recovered", "timed_out"} :
                 /\ settlement' = what
                 /\ what = "recovered" => Recovered(latest)
                 /\ what = "timed_out" => /\ taken = Checkpoints /\ baseline # None
                                           /\ ~Recovered(latest)
                 /\ Goto(Runner, "decide") \/ Goto(Runner, "unsettled")
    <3>1. SettlementTruthful'
      BY <2>1, <2>3 DEF SettlementTruthful, Recovered
    <3>. QED  BY <2>1, <2>3, <3>1 DEF Settlement, Control
  <2>4. \/ /\ baseline # None /\ ~Recovered(latest) /\ taken < Checkpoints
           /\ Goto(Runner, "checkpoint") /\ UNCHANGED settlement
        \/ baseline = None /\ Settled("not_applicable")
        \/ baseline # None /\ Recovered(latest) /\ Settled("recovered")
        \/ /\ baseline # None /\ ~Recovered(latest) /\ taken = Checkpoints
           /\ Settled("timed_out")
    BY <1>19 DEF Compare
  <2>5. \A what : Settled(what) =>
           /\ settlement' = what
           /\ Goto(Runner, "decide") \/ Goto(Runner, "unsettled")
    BY DEF Settled
  <2>. QED  BY <2>2, <2>3, <2>4, <2>5
<1>20. CASE Unsettled
  BY <1>20
  DEF Settlement, SettlementTruthful, Typed, RunTypes, CycleTypes,
      SetTypes, RecordTypes, Control, Unsettled, SettleOnly, RunnerOnly, worker, Fail
<1>21. CASE Decide
  BY <1>21
  DEF Settlement, SettlementTruthful, Typed, RunTypes, CycleTypes,
      SetTypes, RecordTypes, Control, Decide, record, SettleOnly, RunnerOnly, worker
<1>22. ASSUME NEW t \in Threads, Finish(t) \/ (t = Watcher /\ Watch)
      PROVE  Settlement'
  <2>1. FinishOnly /\ UNCHANGED <<failure, record>>
    BY <1>22, FinishEffect
  <2>2. UNCHANGED <<baseline, latest, settlement, taken, interrupt, ok, failure>>
    BY <2>1 DEF FinishOnly, settling
  <2>3. \/ pc' = [pc EXCEPT ![t] = "record"]
        \/ pc' = [pc EXCEPT ![t] = Rest(t)]
    BY <1>22, FinishEffect
  <2>4. t = Runner => pc[Runner] = "finish"
    BY <1>22, FinishEffect
  <2>5. /\ t # Runner => pc'[Runner] = pc[Runner]
        /\ t = Runner => pc'[Runner] \in {"record", "dead"}
    BY <2>3 DEF Control, Rest
  <2>. QED  BY <2>2, <2>4, <2>5 DEF Settlement, SettlementTruthful
<1>23. ASSUME NEW t \in Threads, RecordTerminal(t)
      PROVE  Settlement'
  BY <1>23
  DEF Settlement, SettlementTruthful, Typed, RunTypes, CycleTypes,
      SetTypes, RecordTypes, Control, RecordTerminal, FinishOnly, settling,
      summaries, worker, Refuse, Rest
<1>24. ASSUME NEW s \in Stoppers, StopReads(s)
      PROVE  Settlement'
  BY <1>24
  DEF Settlement, SettlementTruthful, Typed, RunTypes, CycleTypes,
      SetTypes, RecordTypes, Control, StopReads, StopOnly, record, settling, ending,
      summaries, worker
<1>25. ASSUME NEW s \in Stoppers, StopTells(s)
      PROVE  Settlement'
  BY <1>25
  DEF Settlement, SettlementTruthful, Typed, RunTypes, CycleTypes,
      SetTypes, RecordTypes, Control, StopTells, StopOnly, record, settling, ending,
      summaries, worker, CloseStream
<1>26. ASSUME NEW c \in Cycle, Worker(c)
      PROVE  Settlement'
  BY <1>26, WorkerEffect, Recorded
  DEF Settlement, SettlementTruthful, Typed, RunTypes, CycleTypes,
      SetTypes, RecordTypes, Control, WorkerOnly, settling, ending
<1>27. CASE UNCHANGED vars
  BY <1>27
  DEF Settlement, SettlementTruthful, Typed, RunTypes, CycleTypes,
      SetTypes, RecordTypes, Control, vars, settling, ending, summaries, worker, record
<1>. QED
  BY <1>1, <1>2, <1>3, <1>4, <1>5, <1>6, <1>7, <1>8, <1>9, <1>10, <1>11, <1>12,
      <1>13, <1>14, <1>15, <1>16, <1>17, <1>18, <1>19, <1>20, <1>21, <1>22, <1>23,
      <1>24, <1>25, <1>26, <1>27
  DEF Next, Run, Request

-----------------------------------------------------------------------------
ChurnInv ==
    Typed /\ Control /\ Ending /\ Streams /\ Telling /\ Judging /\ Progress /\ Settlement

\* A run that start() has just begun has touched no stream.
LEMMA InitHolds == Init => ChurnInv
<1>. SUFFICES ASSUME Init  PROVE  ChurnInv
  OBVIOUS
<1>. USE ChurnConstants DEF Init
<1>1. Typed
  <2>1. RunTypes
    BY DEF RunTypes
  <2>2. FlagTypes
    <3>1. latest.heap = FALSE
      BY SMT
    <3>. QED  BY <3>1 DEF FlagTypes
  <2>3. 0 \in 0..MaxEvents
    OBVIOUS
  <2>4. CycleTypes
    BY <2>3 DEF CycleTypes, Outcomes
  <2>5. SetTypes /\ RecordTypes
    BY DEF SetTypes, RecordTypes
  <2>. QED  BY <2>1, <2>2, <2>4, <2>5 DEF Typed
<1>2. Control
  BY DEF Control, Threads, BeforeCycle, Health, Reasons
<1>3. Ending
  <2>1. \A t \in Threads : pc[t] \in {"before", "idle"}
    BY DEF Threads
  <2>2. pending \notin Terminal
    OBVIOUS
  <2>3. state \notin Terminal /\ pc[Runner] = "before"
    BY DEF Terminal, Threads
  <2>. QED  BY <2>1, <2>2, <2>3 DEF Ending
<1>4. Streams
  BY DEF Streams, Alive, Cycle, InCycle, BeforeCycle, Threads
<1>5. Telling
  BY DEF Telling, OwnCloseIsNotRemote
<1>6. Judging
  BY DEF Judging, InCycle, Threads
<1>7. Progress
  <2>1. pc[Runner] = "before" /\ pending = None
    BY DEF Threads
  <2>2. \A c \in Cycle : ~(c < cycle) /\ c # cycle
    BY DEF Cycle
  <2>3. pending \notin Terminal
    OBVIOUS
  <2>. QED  BY <2>1, <2>2, <2>3 DEF Progress, Settles, Ended, InCycle, Terminal
<1>8. Settlement
  BY DEF Settlement, SettlementTruthful, BeforeCycle, Settles, Ended, Threads
<1>. QED  BY <1>1, <1>2, <1>3, <1>4, <1>5, <1>6, <1>7, <1>8 DEF ChurnInv

\* Every step of the run, of its streams and of the requests keeps the invariant.
LEMMA NextStep ==
    ASSUME ChurnInv, [Next]_vars
    PROVE  ChurnInv'
<1>. USE DEF ChurnInv
<1>1. Typed'
  <2>1. RunTypes' /\ FlagTypes' /\ CycleTypes' /\ SetTypes' /\ RecordTypes'
    BY RunTypesKept, FlagTypesKept, CycleTypesKept, SetTypesKept, RecordTypesKept
  <2>. QED  BY <2>1 DEF Typed
<1>2. Control' /\ Ending' /\ Streams' /\ Telling'
  BY ControlKept, EndingKept, StreamsKept, TellingKept
<1>3. Judging' /\ Progress' /\ Settlement'
  BY JudgingKept, ProgressKept, SettlementKept
<1>. QED  BY <1>1, <1>2, <1>3
-----------------------------------------------------------------------------
\* The invariant holds in every state of a run.
THEOREM ChurnInvariant == Spec => []ChurnInv
<1>1. Init => ChurnInv
  BY InitHolds
<1>2. ChurnInv /\ [Next]_vars => ChurnInv'
  BY NextStep
<1>. QED  BY <1>1, <1>2, PTL DEF Spec

\* A terminal run has no stream worker and no settlement under way, and its
\* terminal record is the only one and the last, whichever of its threads, its
\* stop requests and its watcher ends it (_finish_if_complete).
THEOREM RunIsClean == Spec => []RunInv
<1>1. ChurnInv => RunInv
  <2>. SUFFICES ASSUME ChurnInv  PROVE  RunInv
    OBVIOUS
  <2>1. TypeOK
    BY TypedIs DEF ChurnInv
  <2>2. TerminalMeansClean
    <3>. SUFFICES ASSUME state \in Terminal  PROVE  TerminalMeansClean
      BY DEF TerminalMeansClean
    <3>1. pc[Runner] \in {"record", "dead"} /\ \A c \in Cycle : ~Alive(c)
      BY DEF ChurnInv, Ending
    <3>2. settlement = "settling" => failure
      BY <3>1 DEF ChurnInv, Settlement
    <3>. QED  BY <3>1, <3>2 DEF TerminalMeansClean
  <2>3. TerminalRecordLast
    BY DEF ChurnInv, Ending, TerminalRecordLast
  <2>. QED  BY <2>1, <2>2, <2>3 DEF RunInv
<1>. QED  BY <1>1, ChurnInvariant, PTL

\* A completed run has judged all its cycles, none of them by a failed cleanup,
\* and has settled; a cancelled one was told to stop; a failed one keeps its
\* failure (_run, _finish_if_complete).
THEOREM VerdictIsEarned == Spec => []VerdictEarned
<1>1. ChurnInv => VerdictEarned
  <2>. SUFFICES ASSUME ChurnInv  PROVE  VerdictEarned
    OBVIOUS
  <2>1. state \in Terminal => state = pending \/ (state = "failed" /\ failure)
    BY DEF ChurnInv, Ending
  <2>2. state \in Terminal /\ state = pending => VerdictEarned
    BY DEF ChurnInv, Progress, Good, VerdictEarned, Terminal
  <2>3. state = "failed" /\ failure => VerdictEarned
    BY DEF VerdictEarned
  <2>. QED  BY <2>1, <2>2, <2>3 DEF VerdictEarned, Terminal
<1>. QED  BY <1>1, ChurnInvariant, PTL

\* What churn_cycle_finished has recorded of a cycle, its worker does not change
\* any more, unless the cleanup has timed out (_run_cycle).
THEOREM JudgementsStand == Spec => []JudgementStands
<1>1. ChurnInv => JudgementStands
  BY DEF ChurnInv, Judging, JudgementStands
<1>. QED  BY <1>1, ChurnInvariant, PTL

\* The settlement says what its samples have shown (_run_settlement).
THEOREM SettlementIsTruthful == Spec => []SettlementTruthful
<1>1. ChurnInv => SettlementTruthful
  BY DEF ChurnInv, Settlement
<1>. QED  BY <1>1, ChurnInvariant, PTL

\* Before anybody asks the run to stop, a stream that it has closed itself never
\* counts as ended by the device (_run_cycle, _run_stream).
THEOREM OwnCloseIsTold == Spec => []OwnCloseIsNotRemote
<1>1. ChurnInv => OwnCloseIsNotRemote
  BY DEF ChurnInv, Telling
<1>. QED  BY <1>1, ChurnInvariant, PTL

=============================================================================
