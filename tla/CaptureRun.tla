----------------------------- MODULE CaptureRun -----------------------------
(***************************************************************************)
(* The life of thermal captures, from the start to the reclaimed thread,   *)
(* and the annotations that operators add to them while they run, end, are *)
(* replaced by the next capture, or are recovered by a restart.            *)
(*                                                                         *)
(* A step is one critical section of a capture's lock, or one call that    *)
(* may block.  When to sample is the matter of CaptureSchedule, the inside *)
(* of the printer source that of PrusaLink (here it is a Poller), and the  *)
(* inside of an append that of EvidenceLog.                                *)
(***************************************************************************)
EXTENDS Naturals, Sequences, FiniteSets

CONSTANTS
    Requests,    \* handler threads of the local service
    Ids,         \* annotation_id
    Texts,       \* what else an annotation says: marker, note, operator, ...
    Annotations, \* the annotations examined: [id, run, text]
    None,        \* no capture, no annotation
    Idle,        \* no request
    Limit,       \* annotation_limit of a capture
    MaxRuns,     \* bound: captures
    Configs,     \* the services examined: has it a store, a printer source?
    MaxMishaps   \* bound: failures of storage, internal errors, crashes of
                 \* the service, and removals by retention

Runs == 1..MaxRuns

ASSUME CaptureConstants ==
    /\ Limit \in Nat /\ MaxRuns \in Nat /\ MaxMishaps \in Nat
    /\ Configs \subseteq [persistent : BOOLEAN, source : BOOLEAN]
    /\ None \notin Runs \union Texts \union Ids /\ Idle \notin Runs \union {None}
    /\ Annotations \subseteq [id : Ids, run : Runs, text : Texts]

VARIABLES
    config,      \* whether the service has a store and a printer source
    current,     \* _capture of the manager
    \* CaptureRunner
    state,       \* _state["state"]; "none" before the start, "gone" after a crash
    failure,     \* _state["failure"] is set
    cancel,      \* _cancel is set and the thread may still look at it
    finished,    \* _finished is set
    known,       \* _annotations: the text of every identifier
    pc, outcome, \* its thread, and the outcome of _run
    asked,       \* a thread that stops the capture is between lock and event
    \* its PrusaLinkSource, a Poller
    alive,
    \* SessionStore
    session,     \* status of the run's session, "memory" without a store,
                 \* "gone" when it is not retained any more
    evidence,    \* its annotations and its terminal record, in order
    \* requests
    request,     \* the capture that a handler with an annotation has read
    \* history and mishaps
    accepted,    \* retained annotations that were answered with their record
    lapsed,      \* runs of which a storage failure could not be stored
    mishaps

capture == <<state, failure, cancel, finished, pc, outcome, asked>>
stored == <<session, evidence, lapsed>>
vars == <<config, current, capture, known, alive, stored, request,
          accepted, mishaps>>

TERMINAL_STATES == {"completed", "cancelled", "failed"}

\* An annotation, and the terminal record, which has no annotation_id.
Note(id, text) == [id |-> id, text |-> text]
End(verdict) == [id |-> None, text |-> verdict]
IsNote(record) == record.id # None

\* Where the evidence of a run holds an annotation, and what it says there first.
Notes(r, id) == {i \in DOMAIN evidence[r] : IsNote(evidence[r][i]) /\ evidence[r][i].id = id}
Text(r, id) == evidence[r][CHOOSE i \in Notes(r, id) : \A j \in Notes(r, id) : i <= j].text

Init ==
    /\ config \in Configs
    /\ current = None
    /\ state = [r \in Runs |-> "none"] /\ failure = [r \in Runs |-> FALSE]
    /\ cancel = [r \in Runs |-> FALSE] /\ finished = [r \in Runs |-> FALSE]
    /\ known = [r \in Runs |-> [i \in Ids |-> None]]
    /\ pc = [r \in Runs |-> "none"] /\ outcome = [r \in Runs |-> "completed"]
    /\ asked = [r \in Runs |-> FALSE] /\ alive = [r \in Runs |-> FALSE]
    /\ session = [r \in Runs |-> "none"] /\ evidence = [r \in Runs |-> <<>>]
    /\ request = [q \in Requests |-> Idle]
    /\ accepted = {} /\ lapsed = {} /\ mishaps = 0

Goto(r, label) == pc' = [pc EXCEPT ![r] = label]
Become(r, s) == state' = [state EXCEPT ![r] = s]
Mishap == mishaps < MaxMishaps /\ mishaps' = mishaps + 1

\* The recorder refuses every record of a session that is not active.
Refused(r) == session[r] \in {"closed", "gone"}

\* fail(): the session is closed; or that fails as well, and the session
\* stays open for records that its numbering does not account for.
FailStored(r) ==
    /\ session' = [session EXCEPT ![r] = "closed"]
    /\ UNCHANGED lapsed
FailLost(r) ==
    /\ lapsed' = lapsed \union {r}
    /\ UNCHANGED session
FailStoredLate(r) ==
    /\ lapsed' = lapsed \union {r}
    /\ session' = [session EXCEPT ![r] = "closed"]
-----------------------------------------------------------------------------
(* The end of a capture, which snapshot and wait_finished look for too.    *)

ThreadAlive(r) == pc[r] \notin {"none", "dead"}

\* Mutant: the thread of the capture is not asked for.
ReclaimedEarly(r, self) == ~alive[r]

\* Only the thread of the capture holds its device connection.
Reclaimed(r, self) == (self \/ ~ThreadAlive(r)) /\ ~alive[r]

\* _finish_if_complete, in the capture's thread or in another.
FinishIfComplete(r, self) ==
    finished' = [finished EXCEPT ![r] =
        @ \/ (Reclaimed(r, self) /\ state[r] \in TERMINAL_STATES)]

\* snapshot, or the wait_finished of the watcher, of the capture.
Watch(r) ==
    /\ current = r
    /\ FinishIfComplete(r, FALSE)
    /\ UNCHANGED <<config, current, state, failure, cancel, pc, outcome,
                   asked, known, alive, stored, request, accepted, mishaps>>
-----------------------------------------------------------------------------
(* The operator starts and stops captures.                                 *)

\* SessionManager._start_capture asks for a snapshot of the one before, and
\* start() of the new one starts its thread and its source, if there is one.
Install(r) ==
    /\ state[r] = "none" /\ \A u \in Runs : u < r => state[u] # "none"
    /\ IF current = None THEN UNCHANGED finished
       ELSE state[current] \in TERMINAL_STATES /\ FinishIfComplete(current, FALSE)
    /\ current' = r
    /\ Become(r, "running") /\ Goto(r, "sampling")
    /\ alive' = [alive EXCEPT ![r] = config.source]
    /\ session' = [session EXCEPT ![r] = IF config.persistent THEN "active" ELSE "memory"]
    /\ UNCHANGED <<config, failure, cancel, outcome, asked, known, evidence, request, accepted, lapsed, mishaps>>

\* stop(), up to its lock: nothing becomes of a capture that has ended.
StopAsked(r) ==
    /\ current = r /\ state[r] \in {"running", "stopping"} /\ ~asked[r]
    /\ Become(r, "stopping")
    /\ asked' = [asked EXCEPT ![r] = TRUE]
    /\ UNCHANGED <<config, current, failure, cancel, finished, pc, outcome,
                   known, alive, stored, request, accepted, mishaps>>

\* ... and behind it: the capture may have ended meanwhile.  After its join,
\* or the timeout of that, stop() does what Watch does.
StopTold(r) ==
    /\ asked[r]
    /\ asked' = [asked EXCEPT ![r] = FALSE]
    /\ cancel' = [cancel EXCEPT ![r] = state[r] = "stopping"]
    /\ UNCHANGED <<config, current, state, failure, finished, pc, outcome,
                   known, alive, stored, request, accepted, mishaps>>
-----------------------------------------------------------------------------
(* The thread of a capture, _run and _complete.                            *)

Quietly == UNCHANGED <<config, current, asked, known, alive, request, accepted>>

\* The loop has ended: by the cancel, or by the duration, behind which the
\* samples of the boundary have been recorded.
LoopEnds(r) ==
    /\ pc[r] = "sampling"
    /\ \/ cancel[r] /\ outcome' = [outcome EXCEPT ![r] = "cancelled"]
       \/ ~Refused(r) /\ UNCHANGED outcome
    /\ Goto(r, "source")
    /\ UNCHANGED <<state, failure, cancel, finished, stored, mishaps>>
    /\ Quietly

\* A sample, in the loop or at the boundary, cannot be recorded or something
\* else is raised; the except clause appends a record of it, or calls fail()
\* once more when that is refused too.
SampleRaises(r) ==
    /\ pc[r] = "sampling"
    /\ \/ Refused(r) /\ UNCHANGED <<session, lapsed, mishaps>>
       \/ Mishap /\ UNCHANGED <<session, lapsed>>
       \/ /\ session[r] = "active" /\ Mishap
          /\ \/ FailStored(r)
             \/ FailLost(r)
             \/ FailStoredLate(r)
    /\ outcome' = [outcome EXCEPT ![r] = IF cancel[r] THEN "cancelled" ELSE "failed"]
    /\ failure' = [failure EXCEPT ![r] = TRUE]
    /\ Goto(r, "source")
    /\ UNCHANGED <<state, cancel, finished, evidence>>
    /\ Quietly

\* PrusaLinkSource.stop, up to its join.
SourceTold(r) ==
    /\ pc[r] = "source"
    /\ Goto(r, "join")
    /\ UNCHANGED <<state, failure, cancel, finished, outcome, stored, mishaps>>
    /\ Quietly

\* The source has ended, or the join has timed out; the terminal state is
\* published, and what stop() wanted in the meantime goes with it.
Complete(r) ==
    /\ pc[r] = "join"
    /\ Become(r, IF cancel[r] THEN "cancelled" ELSE outcome[r])
    /\ Goto(r, "terminal")
    /\ outcome' = [outcome EXCEPT ![r] = "completed"]
    /\ cancel' = [cancel EXCEPT ![r] = FALSE]
    /\ UNCHANGED <<failure, finished, stored, mishaps>>
    /\ Quietly

Ended(r) == [evidence EXCEPT ![r] = Append(@, End(state[r]))]

\* The terminal record closes a persistent session.
RecordTerminal(r) ==
    /\ pc[r] = "terminal" /\ ~Refused(r)
    /\ evidence' = Ended(r)
    /\ session' = IF config.persistent THEN [session EXCEPT ![r] = "closed"] ELSE session
    /\ Goto(r, "finish")
    /\ UNCHANGED <<state, failure, cancel, finished, outcome, lapsed, mishaps>>
    /\ Quietly

\* The append raises: refused, or not written, or written but not closed.
TerminalRaises(r) ==
    /\ pc[r] = "terminal"
    /\ \/ Refused(r) /\ UNCHANGED <<stored, mishaps>>
       \/ /\ session[r] = "active" /\ Mishap
          /\ evidence' \in {evidence, Ended(r)}
          /\ FailStored(r) \/ FailLost(r)
    /\ Goto(r, "refused")
    /\ UNCHANGED <<state, failure, cancel, finished, outcome>>
    /\ Quietly

\* Mutant: the state that was published stays.
FlipNothing(r) == UNCHANGED state

\* A capture without its terminal record has failed.
Flip(r) == Become(r, "failed")

\* The except clause of _complete, with fail() once more.
TerminalFails(r) ==
    /\ pc[r] = "refused"
    /\ Flip(r)
    /\ failure' = [failure EXCEPT ![r] = TRUE]
    /\ \/ session' = [session EXCEPT ![r] = IF @ = "active" THEN "closed" ELSE @]
       \/ r \in lapsed /\ UNCHANGED session
    /\ Goto(r, "finish")
    /\ UNCHANGED <<cancel, finished, outcome, evidence, lapsed, mishaps>>
    /\ Quietly

\* The finally clause of _complete; the thread ends.
Finish(r) ==
    /\ pc[r] = "finish"
    /\ FinishIfComplete(r, TRUE)
    /\ Goto(r, "dead")
    /\ UNCHANGED <<state, failure, cancel, outcome, stored, mishaps>>
    /\ Quietly

Run(r) ==
    \/ LoopEnds(r) \/ SampleRaises(r)
    \/ SourceTold(r) \/ Complete(r) \/ RecordTerminal(r) \/ TerminalRaises(r)
    \/ TerminalFails(r) \/ Finish(r)

\* Mutant: a capture that ends by itself leaves its source alone.
ToldByStop(r) == cancel[r]

\* request_stop has been called, by stop() or by the thread of the capture.
Told(r) == cancel[r] \/ pc[r] \in {"join", "terminal", "refused", "finish", "dead"}

\* The source, a Poller: its worker ends when told, or of an internal error.
Silent(r) ==
    /\ alive[r]
    /\ alive' = [alive EXCEPT ![r] = FALSE]
    /\ UNCHANGED <<config, current, capture, known, stored, request, accepted>>
SourceEndsTold(r) == Silent(r) /\ Told(r) /\ UNCHANGED mishaps
SourceFails(r) == Silent(r) /\ ~Told(r) /\ Mishap
-----------------------------------------------------------------------------
(* Annotations: SessionManager.add_capture_annotation.                     *)

\* The handler of an annotation has read current_capture(); the capture may
\* be replaced before it is used.  A run and its session name each other, so
\* that one name stands for run_id and capture_session_id.
Submit(q) ==
    /\ request[q] = Idle
    /\ request' = [request EXCEPT ![q] = current]
    /\ UNCHANGED <<config, current, capture, known, alive, stored, accepted, mishaps>>

Retained(r) == session[r] \in {"active", "closed"}

\* find_annotations: every match in the retained evidence of captures.
Matches(id) == UNION {{r} \X Notes(r, id) : r \in {u \in Runs : Retained(u)}}

\* Mutant: the evidence of a session that failed is not looked at.
DurableNever(r, id) == {}

\* find_annotation in the evidence of a session that takes no more records.
Durable(r, id) == IF session[r] = "closed" THEN Notes(r, id) ELSE {}

Same(text, a) == IF text = a.text THEN "existing" ELSE "conflict"

\* Mutant: annotations are taken until the capture has finished.
AcceptsLate(r) == ~finished[r]

Accepts(r) == state[r] = "running"

\* What a request will be told: without a capture in this process ...
Resolved(a) ==
    LET matches == Matches(a.id)
    IN  IF matches = {} THEN "not_recorded"
        ELSE IF \E m, n \in matches : m # n THEN "ambiguous"
        ELSE IF \E m \in matches : m[1] = a.run THEN Same(Text(a.run, a.id), a)
        ELSE "identity_mismatch"

\* ... and by record_annotation of the capture that the handler has read.
Recorded(a, r) ==
    IF a.run # r THEN "identity_mismatch"
    ELSE IF known[r][a.id] # None THEN Same(known[r][a.id], a)
    ELSE IF Durable(r, a.id) # {} THEN Same(Text(r, a.id), a)
    ELSE IF ~Accepts(r) THEN "not_running"
    ELSE IF Cardinality({i \in Ids : known[r][i] # None}) >= Limit THEN "limit"
    ELSE "new"

Verdict(a, at) == IF at = None THEN Resolved(a) ELSE Recorded(a, at)

Noted(a) == [evidence EXCEPT ![a.run] = Append(@, Note(a.id, a.text))]
Remembers(a) == known' = [known EXCEPT ![a.run][a.id] = a.text]

\* A run_id is made with its capture: what was sent when there was no capture
\* does not name one that has been started since.
Names(q, a) == request[q] = None => state[a.run] \in {"none", "gone"}

Answered(q, a) ==
    /\ request[q] # Idle /\ Names(q, a)
    /\ request' = [request EXCEPT ![q] = Idle]
    /\ UNCHANGED <<config, current, capture, alive>>

\* A refusal, or the record of an earlier request for the same annotation.
Answer(q, a) ==
    /\ Answered(q, a)
    /\ LET verdict == Verdict(a, request[q])
       IN  /\ verdict # "new"
           /\ accepted' = IF verdict = "existing" /\ session[a.run] # "gone"
                          THEN accepted \union {a} ELSE accepted
           /\ IF verdict = "existing" /\ request[q] # None
              THEN Remembers(a) ELSE UNCHANGED known
    /\ UNCHANGED <<stored, mishaps>>

\* A new annotation is recorded, under the lock of the capture.
Annotate(q, a) ==
    /\ Answered(q, a)
    /\ Verdict(a, request[q]) = "new" /\ ~Refused(a.run)
    /\ evidence' = Noted(a)
    /\ Remembers(a)
    /\ accepted' = accepted \union {a}
    /\ UNCHANGED <<session, lapsed, mishaps>>

\* The append raises: refused, or not written, or written and not synced.
AnnotateRaises(q, a) ==
    /\ Answered(q, a)
    /\ Verdict(a, request[q]) = "new"
    /\ \/ Refused(a.run) /\ UNCHANGED <<stored, mishaps>>
       \/ /\ session[a.run] = "active" /\ Mishap
          /\ evidence' \in {evidence, Noted(a)}
          /\ FailStored(a.run) \/ FailLost(a.run)
    /\ UNCHANGED <<known, accepted>>
-----------------------------------------------------------------------------
(* The service goes down, perhaps behind a write that nobody has heard of, *)
(* and comes up again: sessions that were active are recovered as closed.  *)

Pending(a) ==
    \E q \in Requests :
        request[q] # Idle /\ Verdict(a, request[q]) = "new" /\ session[a.run] = "active"

Unheard ==
    {evidence} \union {Noted(a) : a \in {b \in Annotations : Pending(b)}}
    \union {Ended(r) : r \in {u \in Runs : pc[u] = "terminal" /\ session[u] = "active"}}

Crash ==
    /\ Mishap
    /\ current' = None
    /\ state' = [r \in Runs |-> IF state[r] = "none" THEN "none" ELSE "gone"]
    /\ failure' = [r \in Runs |-> FALSE] /\ cancel' = [r \in Runs |-> FALSE]
    /\ finished' = [r \in Runs |-> FALSE] /\ outcome' = [r \in Runs |-> "completed"]
    /\ pc' = [r \in Runs |-> "none"] /\ asked' = [r \in Runs |-> FALSE]
    /\ known' = [r \in Runs |-> [i \in Ids |-> None]]
    /\ alive' = [r \in Runs |-> FALSE]
    /\ session' = [r \in Runs |-> CASE session[r] = "active" -> "closed"
                                     [] session[r] = "memory" -> "gone"
                                     [] OTHER -> session[r]]
    /\ \E left \in Unheard :
          evidence' = [r \in Runs |-> IF session'[r] = "gone" THEN <<>> ELSE left[r]]
    /\ request' = [q \in Requests |-> Idle]
    /\ accepted' = {a \in accepted : session'[a.run] # "gone"}
    /\ UNCHANGED <<config, lapsed>>

\* Retention removes a closed session, also that of the capture shown.
Evict(r) ==
    /\ session[r] = "closed" /\ Mishap
    /\ session' = [session EXCEPT ![r] = "gone"]
    /\ evidence' = [evidence EXCEPT ![r] = <<>>]
    /\ accepted' = {a \in accepted : a.run # r}
    /\ UNCHANGED <<config, current, capture, known, alive, request, lapsed>>
-----------------------------------------------------------------------------
Next ==
    \/ \E r \in Runs :
          \/ Install(r) \/ Run(r) \/ SourceEndsTold(r) \/ SourceFails(r) \/ Watch(r)
          \/ StopAsked(r) \/ StopTold(r) \/ Evict(r)
    \/ \E q \in Requests : Submit(q)
    \/ \E q \in Requests, a \in Annotations :
          Answer(q, a) \/ Annotate(q, a) \/ AnnotateRaises(q, a)
    \/ Crash

Spec == Init /\ [][Next]_vars

\* The threads of captures run, and their loops end at their deadlines; the
\* sources do what a Poller promises; the page polls the snapshot.
FairSpec ==
    /\ Spec
    /\ WF_vars(\E r \in Runs : Run(r))
    /\ WF_vars(\E r \in Runs : SourceEndsTold(r))
    /\ WF_vars(\E r \in Runs : Watch(r))
-----------------------------------------------------------------------------
TypeOK ==
    /\ config \in Configs
    /\ current \in Runs \union {None}
    /\ state \in [Runs -> TERMINAL_STATES \union {"none", "running", "stopping", "gone"}]
    /\ failure \in [Runs -> BOOLEAN] /\ cancel \in [Runs -> BOOLEAN]
    /\ finished \in [Runs -> BOOLEAN] /\ outcome \in [Runs -> TERMINAL_STATES]
    /\ known \in [Runs -> [Ids -> Texts \union {None}]]
    /\ pc \in [Runs -> {"none", "sampling", "source", "join", "terminal", "refused",
                        "finish", "dead"}]
    /\ asked \in [Runs -> BOOLEAN] /\ alive \in [Runs -> BOOLEAN]
    /\ session \in [Runs -> {"none", "memory", "active", "closed", "gone"}]
    /\ evidence \in [Runs -> Seq([id : Ids \union {None}, text : Texts \union TERMINAL_STATES])]
    /\ request \in [Requests -> Runs \union {None, Idle}]
    /\ accepted \subseteq Annotations
    /\ lapsed \subseteq Runs /\ mishaps \in 0..MaxMishaps

\* A capture that reports its cleanup complete has lost its thread and its
\* source, and one that shows anything but a failure has stored its terminal
\* record, the last one, with that verdict (_complete, _finish_if_complete).
FinishedIsClean ==
    \A r \in Runs : finished[r] =>
        /\ ~alive[r] /\ pc[r] = "dead" /\ state[r] \in TERMINAL_STATES
        /\ \/ state[r] = "failed" \/ session[r] = "gone"
           \/ evidence[r] # <<>> /\ evidence[r][Len(evidence[r])] = End(state[r])

\* At most one capture has a thread that samples the device.
OneSamples ==
    \A r \in Runs : pc[r] = "sampling" =>
        current = r /\ \A u \in Runs : pc[u] = "sampling" => u = r

\* The type invariant, FinishedIsClean and OneSamples.
CaptureInv == TypeOK /\ FinishedIsClean /\ OneSamples

\* The terminal state that a reader has seen changes only to failed, for want
\* of its terminal record, and never once the capture has finished; nor does
\* the evidence change then (_complete publishes before it records).
VerdictStands ==
    [][\A r \in Runs : state[r] \in TERMINAL_STATES /\ state'[r] # "gone" =>
          /\ \/ state'[r] = state[r]
             \/ state'[r] = "failed" /\ failure'[r] /\ ~finished[r]
          /\ finished[r] => finished'[r] /\ evidence'[r] \in {evidence[r], <<>>}]_vars

\* "Every accepted annotation is stored once": an annotation that was answered
\* with its record is in the evidence of its run with this content and no
\* second time, after any retries, refusals, failures of storage and crashes;
\* no annotation follows the terminal record, and no capture has more than its
\* limit (record_annotation, add_capture_annotation).
AnnotationStoredOnce ==
    \A r \in Runs \ lapsed : session[r] # "gone" =>
        /\ \A a \in accepted : a.run = r =>
              \E i \in Notes(r, a.id) : evidence[r][i] = Note(a.id, a.text)
        /\ \A id \in Ids : \A i, j \in Notes(r, id) : i = j
        /\ \A i, j \in DOMAIN evidence[r] :
              i < j /\ IsNote(evidence[r][j]) => IsNote(evidence[r][i])
        /\ Cardinality({i \in DOMAIN evidence[r] : IsNote(evidence[r][i])}) <= Limit

\* The protocol errors mean what docs/operator-annotations.md says: whoever is
\* told that a capture is not running, that its limit is reached or that
\* nothing was recorded has no annotation in the evidence of that run, and a
\* conflict is one with other content that is there; also when the capture was
\* replaced or the session failed or was recovered in between.
RefusalsHold ==
    \A q \in Requests, a \in Annotations :
      request[q] # Idle /\ Names(q, a) /\ a.run \notin lapsed =>
        LET verdict == Verdict(a, request[q])
        IN  /\ verdict \in {"not_running", "limit", "not_recorded"} =>
                  Notes(a.run, a.id) = {}
            /\ verdict = "conflict" /\ session[a.run] # "gone" =>
                  Notes(a.run, a.id) # {} /\ Text(a.run, a.id) # a.text
            /\ verdict = "ambiguous" =>
                  \E u \in Runs \ {a.run} : Notes(u, a.id) # {}

\* No capture stays the current one without finishing: it is stopped, fails
\* or comes to its end, and its cleanup is reported, so that the next mode can
\* start, unless the service crashes.
CaptureEnds == []<>(current = None \/ finished[current])
=============================================================================
