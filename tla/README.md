# Verification of DragonSniff

TLA+ models of [DragonSniff](../src/README.md), TLC configurations that check
them on small instances, and theorems about them that TLAPS checks for every
value of the constants.  DragonSniff is a local, read-only recorder for
Dragon-family devices: a threaded HTTP service that observes one device,
exercises its event stream, captures its thermal behaviour, and keeps the
evidence of all that on disk.  Paths below are relative to
`src/src/dragonsniff/`.

What can go wrong in such a program is rarely in one function.  Several threads
append to one evidence file while another finishes it, the process may die
between any two file operations, the device may be silent or slow or hang up,
and requests of a browser overlap.  The models are aimed at that.

## 1. Inventory

| Component | Source | State it keeps | Operations |
|---|---|---|---|
| Persistent session log | `recording.py`, `storage.py` | evidence file, metadata file, cached counters, live view, next sequence | `append`, `finish`, `fail`, checkpoint, recovery at start |
| Session catalogue and retention | `storage.py` | sessions listed, cached sizes, leases of downloads, bounds | create, append, finish, lease, `enforce_retention`, load |
| Device client and observer | `client.py`, `observer.py` | connection permits, the one open stream, generation, session and display state, worker and stream threads | `start`, `refresh`, `reconnect_events`, `stop_events`, `stop`, `snapshot` |
| Thermal capture | `capture.py` | run state, cancel event, two schedules, annotations by identifier | `start`, `stop`, `record_annotation`, the sampling thread |
| SSE churn | `churn.py` | run state, cycle, settlement window, results | `start`, `stop`, `wait_finished`, the runner thread |
| Session manager and HTTP service | `server.py` | which mode owns the device, resume target, watcher threads, request slots | start and stop of observation, churn and capture, annotation, resume, shutdown |
| Operator annotations | `annotations.py`, parts of `capture.py`, `server.py`, `storage.py` | annotations of a capture by identifier | validate, record, find, retry, conflict |
| PrusaLink observation | `prusalink.py` | source state, failures in a row, last good sample | `start`, `request_stop`, `poll_once`, `retry_delay_seconds`, `snapshot` |
| Assessment | `assess/` | none: a function of the evidence | profile, evidence gathering, engine, report |
| Browser interface | `web/` | a view of polled JSON | polling, rendering |
| Command line, targets | `__main__.py`, `target.py` | none | parsing, service start and shutdown |
| Release tooling | `scripts/` | none | outside the running program |

### How they interact

* Every mode (observation, churn, capture) writes through one *recorder*.  With
  a data directory the recorder is a `PersistentSessionRecorder`, whose
  `append` calls the store while it holds its own lock; `fail` is called without
  that lock from other threads.  A terminal record (`completed`, `cancelled`,
  `failed`) finishes the session.
* The store runs retention in a critical section of its own after every finish,
  after every download and at its start.
* The observer shares one `ConnectionBudget` of two permits between the fetches
  of its refresh worker and the one event stream.  Requests and workers run the
  same methods; a stream is told to stop by an `Event` and by shutting its socket
  from another thread.
* The session manager serialises the *starts* of modes by a transition lock, but
  the requests that refresh, reconnect or stop an observer call it directly.
  Starting churn or capture stops the observer first and a watcher thread
  resumes it afterwards.
* A capture and an observation own one printer source each, whose worker appends to
  the same recorder; a capture finishes only when that worker has ended.
* An annotation is taken by the capture that its request has read from the manager;
  without one, or when the session is closed, the store is searched for it.
* The assessment reads an evidence file that the service has finished, in another
  process.
* The browser polls snapshots; the snapshot of an observer is also what notices
  that a delayed stop has completed.

### Hard behaviours, and what correct means

| Component | Hard behaviour | Correct means |
|---|---|---|
| Persistent log | crash or I/O error between any two of write, fsync, checkpoint, rename; failure of the failure report; two threads and a finisher | an acknowledged record is durable for good; the evidence is numbered 1, 2, 3, ...; nothing follows a terminal record; recovery rebuilds the counters; a call returns |
| Retention | late, half and repeated passes; protected sessions above the bounds; cached sizes that lag | active and leased sessions keep their files; the oldest goes first; nothing goes that need not and all that must; a quiet store fits |
| Observer | overlapping reconnects, stops that time out, late reports of older streams, a silent device | one stream; a stopped session holds no permit; a stop reaches the stream; the display tells the truth about the newest stream |
| Capture | late fetches, stop during the boundary samples, failures, annotations that race the end | no burst, no more records than the recorder was sized for, a truthful outcome, an end; one record per annotation, before the terminal one |
| Churn | workers that outlive their cycle, settlement deadline, cancel, recorder that breaks | a verdict matches the cycles and the settlement and comes after every worker has ended; one terminal record, the last one; an end |
| Manager | start that fails after the observer was stopped; watcher against stop and shutdown | one owner of the device; observation comes back exactly when nobody asked otherwise |
| Annotations | a retry after a lost answer, after the run ended, failed, was replaced or was recovered | at most one record per identifier of a capture; a refusal means that there is none |
| PrusaLink | backoff, late answers, restarts, stale samples | silence and records in bounds, fresh means recent, a stopped source ends |
| Assessment | missing, duplicated, late and torn evidence | removing evidence never creates a finding; known time is known whenever the samples were taken; a closed run is closed |

The list of single hazards, each with the line where it bites and the properties
that cover it, is in `PROJECT.json` under `hazards`.

## 2. Modules

| Module | Models | Proofs | Instance |
|---|---|---|---|
| `EvidenceLog` | one persistent session: recorder, store operations, files, recovery | `EvidenceLogProofs` | `MCEvidenceLog` |
| `DurableLog` | what one session promises: the abstract log | | |
| `EvidenceLogRefinement` | the mapping by which `EvidenceLog` implements `DurableLog` | | `MCEvidenceLog` |
| `Retention` | the catalogue of sessions and its bounds | `BoundsProofs` | `MCRetention` |
| `ObserverSession` | one observer with its workers, streams and callers | `ObserverSessionProofs` | `MCObserverSession` |
| `CaptureSchedule` | the sampling loop of a capture on its clock | `BoundsProofs` | `MCCaptureSchedule` |
| `CaptureRun` | the life of captures, and their annotations | `CaptureRunProofs` | `MCCaptureRun` |
| `Poller` | what the owner of a printer source relies on | | |
| `PrusaLink` | the printer source on its clock; it implements `Poller` | `PrusaLinkProofs` | `MCPrusaLink` |
| `ChurnRun` | one churn run with its stream workers | `ChurnRunProofs` | `MCChurnRun` |
| `AssessEngine` | the assessment, as operators on an evidence file | `AssessmentProofs` | |
| `Assessment` | an evidence file that grows and loses records, and its report | `AssessmentProofs` | `MCAssessment` |
| `ModeManager` | which session owns the device: starts, stops, watchers, shutdown | `ModeManagerProofs` | `MCModeManager` |

In each component module the order is: constants and their assumption, state,
helpers, one action per system call or critical section, the specification, the
properties.  A definition whose comment begins with *Mutant* is a plausible
fault of the definition it stands before; `PROJECT.json` pairs it with the
property that the fault breaks.

### EvidenceLog

`dir`, `file`, `meta`, `tmp`, `partial` are what the session directory holds;
`synced` and `metaSync` what of it survives a crash.  A record is two units of
`file`, its body and its newline, so a torn write is a body alone.  `mem`,
`pending`, `evBytes` are the entries of the store's dictionaries; `next`, `live`,
`dropped` the fields of the recorder; `recLock` and `storeLock` the two locks.
`pc`, `op`, `kind` say where a thread is.

A thread goes through `Append1` (takes the recorder lock), `EnterAppend` (store
lock, refused when the session is not active), `WriteEvidence`, `SyncEvidence`,
`Commit` (counters, and every `Checkpoint` records a metadata write), and for a
terminal record `Finish`.  Metadata is written as `MetaTemp`, `MetaRename`,
`MetaFlush`.  `WriteFails`, `SyncFails`, `MetaFails`, `RetainFails` are OSErrors;
each leads to `fail()` with the recorder lock held, as the code does, and when
`fail()` fails too the error is only logged: from then on `lapsed` is true.
`Report` is `fail()` by a thread that does not hold the recorder lock.  `Crash`
keeps a prefix of the unsynced file and one of the two metadata values, and
`Load`, `CopyTail`, `Truncate`, `Reconcile`, `RecoveryDone` are the next start,
which may fail or crash itself.  `Retain` is the retention pass seen from one
session: it stays or goes; `Retention` says which.

### DurableLog and its refinement

`DurableLog` is the promise without files, locks and recovery: a sequence of
lines, the number of appends that have returned, and a status.  `Write` adds the
next line, `Acknowledge` returns its number, `Close`, `Evict` and `Lapse` end the
session, and `Lose` is the only thing a crash may do: take a line nobody was told
of.  `EvidenceLogRefinement` reads the status off the directory and the cached
metadata, the lines off the file (a torn tail is no line), and the
acknowledgements off the next sequence number.  An append may return after a
failure report of another thread has closed the session and retention has
evicted it: `Acknowledge` is possible then too.

### Retention

Sessions with a status, a directory and cached sizes, downloads with leases, and
`sweeps`, the retention passes that requests and runs have still to make: the code
releases the store lock between what makes a pass necessary and the pass.
`EnforceRetention` removes the candidates in one critical section, oldest first,
as the loop does: `Rounds` is the loop, `NextRound` one turn of it, and the bytes are
added up by `SumFunctionOnSet` of the community modules over `Bytes`, the sizes that
the store has cached.  `EnforceStops` stops in the middle of a directory;
`EnforceFails` before the first.  Invalid directories count towards the bounds
and are as old as their modification time.  `WriteFails` is an append or a write of
metadata that raises, and a crash may cut either (`CutWrite`): the evidence has grown
and the cached size has not, or a temporary file stays in the directory (`Stray`),
which nothing removes or counts.  A start that fails (`StartFails`) may leave such a file
too: the temporary one, or the tail that it cut off the evidence without noting so in the
metadata.  `uncounted` remembers to which sessions that happened.  A crash in a creation is `CreateFails` and then `Crash`; the other errors
of an append or a finish leave the disk as it is and are no step.

### ObserverSession

A step is one critical section, one access to a shared field, or one call that
can block.  Streams are named by their generation, and requests and refresh
workers are both *callers* of the same methods: `StopEvents`, `ReconnectEvents`,
`Stop`, `Refresh`, each cut where the code gives up the lock.  The stream thread
is `LeaseStream`, `Open`, `CheckStop`, `Register`, `Announce`, the reading loop,
`Failing` (the error that is shown before the finally clause), `Unregister` and
`Closed`.  `Device` is the environment: it sends lines, hangs up or is
silent.

### CaptureSchedule

Time is a number of ticks.  `LoopHead` and `Between` are the two places where
`_run` reads the clock; `SampleState` and `SampleHealth` take any time up to
`MaxLatency` and then advance their schedule by `NextOnGrid`; `Wait` ends at the
earliest of the three times, or later.  `EndState`, `EndHealth`, `EndInfo` are the
samples of the duration boundary, `SampleFails` an exception out of any sample,
`Cancel` the `stop()` of another thread, `Complete` the terminal record.
`EstimatedRecords` is the estimate the manager sizes the recorder with.

### ModeManager

`installed`, `generation`, `active`, `resume`, `resumeError` are the fields of
`SessionManager`, with the three sessions by kind and the resume target reduced
to whether there is one.  `transition` is the holder of the outer lock; a
critical section of the inner lock is one step.  Of a session there is only its
life in `state`: created, live, told to stop, ended.  A run that ends publishes
its state first (`RunEnds`) and has its terminal record afterwards
(`RunRecorded`); `WaitFinished` is what `wait_finished` makes of that, for a
churn run and for a capture.

A start is `Request`, `Enter` (the lock), `Check`, `Pause` and `Halt` and `Join`
(the observation in the way), `Create`, `InstallRun` or `InstallObservation`, and
`Watch`, the start of the watcher in a second section; `CreateFails` and
`InstallFails` are its exceptions.  A stop is `ReadSession`, which reads the session
under the lock, and `StopSession`, which uses it later.  A watcher is `Wake`,
`EnterWatcher` and one of `GiveUp`, `Resume`, `ResumeFails`, `ResumeDies`; it has the
number of its run.  `Shutdown` and the steps of `Main` are `shutdown()`, which stops
the three sessions one after the other under the outer lock.

What `ObserverSession` says about the inside of an observation is one step here,
`ObservationEnds`; that a stop always reaches the stream is assumed here and is
what the finding of `observer_stop` is about.

### CaptureRun

Several captures one after the other.  `state`, `failure`, `cancel`, `finished`,
`known` are the fields of each `CaptureRunner`; `pc` is its thread, for which the
whole loop is the one label `sampling`; `alive` is its printer source, a `Poller`.
`LoopEnds` and `SampleRaises` are the two ways out of the loop, `SourceTold` and
`Complete` the `finally` clause up to the publication of the terminal state,
`RecordTerminal`, `TerminalRaises` and `TerminalFails` the terminal record and what
comes of it when it cannot be stored, `Finish` the end of the thread.  `StopAsked`
and `StopTold` are `stop()` on both sides of the release of its lock; `Watch` is a
snapshot or the `wait_finished` of a watcher.

Of a session there is its status and the sequence of its annotations and terminal
record; `EvidenceLog` is the inside of the append that adds to it.  A failed append
closes the session (`FailStored`), or not when `fail()` fails too (`FailLost`, the run
is then `lapsed`).  `Submit` is a request that reads the current capture;
`Verdict` is what it would be told now: `Resolved` without a capture, by searching
the store (`Matches`), and `Recorded` by the capture it has read, also when another
one has been installed since.  `Answer`, `Annotate` and `AnnotateRaises` are the
answers.  `Names` keeps a request that was sent before a capture began from naming it:
a `run_id` is made with the capture (`capture.py:209`), and nobody can have sent it earlier.
`Crash` leaves what `Unheard` admits: also a record of which nobody has heard.

### Poller and PrusaLink

`PrusaLink` counts time in ticks.  The worker goes through `Loop`, `Answer`, `Record`
and `Wake`; `StateOf` is what a response counts as, `InternalError` the exception that
ends the worker, `Start` may come again once it has ended.  `Freshness` and
`ShownState` are what `snapshot()` makes of the state.  `dataAge`, `quiet` and `records`
are history: how old the shown data really is, for how long no record was
appended, and how many since the start.  `Poller` keeps of all that the worker and its stop
event.

### ChurnRun

A step is one critical section or one call that may block.  The thread of the run
goes through the cycles (`CycleStarts`, `Opening`, `Observed`, `Disconnect`, `Join`,
`CycleFinishes`) and the health samples between them, the settlement
(`SettlementStarts`, `Checkpoint`, `Compare`, `Interrupted`) and the end (`Decide`,
`Complete`, `FinishIfComplete`).  Each cycle has a stream worker with the steps of
`stream_events`, and `Device` choices: it answers, rejects, sends events, hangs up,
stays silent.  `CloseStream` shuts the socket that the client has registered, whose
ever it is.  A wait with a deadline may end by it at any moment.
`Decide` takes the outcome and publishes it at once: a `stop()` between the two
(`churn.py:314-315`) is as one after them, because nothing reads the cancel event or the
settlement interrupt any more.

### AssessEngine and Assessment

`AssessEngine` has operators only, as the package has pure functions: `Run` picks the
run, `attempts_for` the attempts to observe the signal, each with the interval in
which its instant lies, `Pieces` the time for which a value is held, `Integrate` the
instants at which all pieces agree, and `evaluate` the finding.  `Assessment` keeps a
file and its report: `Append` adds a line (any of the sensible ones, not only those of a
well-behaved recorder), `Tear` and `Trim` make and repair a torn tail, `Delete` takes a
record away.  Numbers of seconds are fractions, times whole nanoseconds.

## 3. What the runs check

### Runs that pass

**evidence_log** (`EvidenceLog.cfg`): two threads, three sequence numbers, a
checkpoint every two records, a live view of two, two I/O errors and two crashes.
Three records reach a checkpoint and pass it, two errors are what it takes to
fail in `fail()`, and two crashes let the second fall into the recovery from the
first.  `EvidenceInv` (no gap in the numbering, nothing behind the terminal record on disk or in
the live view, and while no append to an open session is under way the live view and the
cached counters account for the whole file), `AckedDurable`,
`RecoveredCounters`, `FailureRecorded` and the action property `ClosedImmutable` say
what a reader of the evidence relies on; `ImplementsDurableLog` that every step is a
step of `DurableLog` or none; `CallsEnd` that an append or a failure report returns in
spite of errors and that a service that went down recovers.

**retention** (`Retention.cfg`): three sessions against bounds of two sessions and
three units of storage, two downloads, two passes due at once, one error (of a write,
a creation, a removal, a listing, a reading or a start), one crash: 834,102 states.  Three sessions are the least with an oldest, a younger and a protected
one; the bounds are met exactly and exceeded.  `StoreInv` (protected sessions keep
their files, the catalogue lists nothing that is gone, a quiet store fits by its own
count and, where no write was cut, on the disk) and
`RemovesAsDocumented` (the oldest first, nothing that need not go, and enough: a pass
that runs to its end leaves a store that fits or one of protected sessions only).

**observer** (`Observer.cfg`): one operator with two refresh workers and two
generations, in two worlds.  Without overlap he waits for the first connection and for
each answer, the recorder is in memory or a persistent one that may refuse, and there is
a worker after the first: `SessionInv` (one stream; a stopped session holds no
connection), `StopClosesSocket`, `StopCompletes`.  With overlap a request meets the first
connection at every step of both, with a recorder in memory and no further worker:
`DisplaySettles` and `StopIsFinal` are kept by the generation guard and by the checks of
the session state in both worlds.

**capture_schedule** (`CaptureSchedule.cfg`): durations 1, 2, 4, 5 with all pairs of
intervals 1, 2, 3, 7: intervals that divide the duration, that do not, that equal
it and that exceed it; fetches of up to three ticks, so that samples of an
interval of one and two are missed, and late waits.  `RecordsWithinEstimate`, `NoBurst`,
`OutcomeTruthful`, `Terminates`.  Deadlock is not checked, because a run ends.

**capture_run** (`CaptureRun.cfg`): two captures, with store and source and with
neither; one request at a time; two contents for one identifier, a second identifier for
a limit of one, and the first identifier again in the second capture; one mishap, which
is a failing write with or without a failing `fail()`, an internal error, a crash or an
eviction.  `CaptureInv` (finished means clean and recorded; one capture samples),
`VerdictStands`, `AnnotationStoredOnce`, `RefusalsHold`, `CaptureEnds`.  Two mishaps have
not been examined to the end: the state space is beyond ten million.

**prusalink** (`PrusaLink.cfg`): every configuration of the command line with intervals
from 0 to 5 of which 1 to 4 are admitted, a retry cap of 5, so that the cap is met after
one to three doublings, a stale limit between 4 and 8, requests of up to two ticks, two
starts and captures of 2, 4 and 7 ticks.  `PollerInv` (never silent beyond the cap of the backoff), `FreshIsRecent`,
`WithinHeadroom`, and `ImplementsPoller`: every step is one of `Poller` or none, and a
worker that is told to stop ends.

**churn_run** (`ChurnRun.cfg`): two cycles, so that a worker of the first meets the second; one event per
cycle, two settlement samples, one `stop()`, the watcher, one fault of a recorder or a
cleanup.  Samples differ in whether the client count is missing, above or back at the
baseline.  `RunInv` (a terminal run has no worker, and its record is the last one),
`VerdictEarned`, `JudgementStands`, `SettlementTruthful`, `OwnCloseIsNotRemote`,
`RunEnds`.

**assessment** (`Assessment.cfg`): files of up to seven lines of two sources with late,
duplicated, unpaired and backdated records and markers of a second run, seven profiles
(two of them invalid: a fraction of zero, an order between texts)
with holds shorter and longer than the gaps and windows that cut the run, up to two
deletions and a torn tail.  `KnownWhateverTheInstants` compares with a definition of its own:
an instant is known only if all placements of the samples inside their intervals agree;
`DeletionNeverDecides`, `ClosedRunIsFinal`, `DecisionsAreGrounded`.

**mode_manager** (`ModeManager.cfg`): two handler threads and three requests of any
kind, one failure of storage, the shutdown at any time or never.  Three requests
are an observation, a run that pauses it, and a third that replaces the run, stops
it, or starts while the watcher waits; up to six sessions can exist.  The safety
part has also been run with four requests.  `ManagerInv` (one owner of the device, the
one shown, and a pending return has its watcher), `ShutdownReachesAll`, and under
fairness `Restored`.

### Runs that find a violation

Each is something the documents say and the code does not keep.

| Run | Says | Shows |
|---|---|---|
| `acked_never_lost` | an acknowledged record is in the evidence | a torn write and a `fail()` that fails too leave the session active: the next record is glued to the torn tail and is not a line |
| `observer_stop` | Stop closes the socket | a `stop_events` between the assignments of a reconnect forgets the stop event of the stream about to start |
| `mode_evidence` | a run is finished when its terminal evidence is complete | `wait_finished` of a churn run returns once the state is published; the observation is restored before the record is appended |

All need two failures in a row or two overlapping calls, which the test suite does not
produce.  The quotations are in `PROJECT.json` under `findings`.  The properties about
evidence hold under the condition `~lapsed`: until the one event that the code can only
log.  That condition is the content of the first finding, not a convenience of the
model.

### Observed while modelling

Behaviour that the models contain and that no run of its own shows:

* The gap in `reconnect_events` (`observer.py:125`) also admits two streams at once, and a
  stream of a session whose stop has completed: with overlap `SessionInv` is not kept.
* An HTTP error whose body cannot be read raises out of `fetch_json` (`client.py:248`) and ends
  the refresh worker: the endpoint stays `requesting`, the session does not become `observing`,
  and the first worker of a session then never connects the events.
* When a new stream begins while a join times out, the timeout may be reported under the
  generation of the new one or be dropped by its guard (`observer.py:188-190`).
* A stop during the first sample of the duration boundary is followed by the other two
  (`capture.py:410`), although `docs/thermal-capture.md:83` says "Stop prevents future
  samples"; the run still ends as cancelled.
* `stop()` of a churn run that has read no stream may shut down the stream of a cycle that
  began meanwhile (`churn.py:249-265`), and the cycle then counts as ended by the device
  (`docs/churn-runner.md:20` keeps the two apart); hence the `~cancel` of
  `OwnCloseIsNotRemote`.  It also sets the settlement interrupt before the cancel event, so
  that a run may end as completed with an interrupted settlement.
* A stop of a capture that sets its event behind `_complete` (`capture.py:297`) leaves the run
  as completed.
* After an append that raised, an annotation may be in the evidence although its request was
  answered with `invalid_request`; a retry finds it (`existing`).  After a newer capture was
  installed the retry is answered with `annotation_identity_mismatch` instead
  (`server.py:350`, `capture.py:308`).
* After an append that raised, or a write of metadata that left its temporary file, the store
  counts less for a session than its directory holds (`storage.py:227`, `storage.py:710`), until
  the next start or, for a temporary file, until the session goes; so it is with the tail that
  a start cuts off the evidence when it then fails to write the metadata (`storage.py:607`); `storage.py:506` says "Return
  exact application-owned bytes without walking a valid session."  A quiet store may then hold
  more than `retention_bytes`: `CatalogueBacked` and `StoreFits` are kept only with their
  conditions on `uncounted`.
* When the join of the printer source times out, a recorder in memory may get one more
  `source_observation` behind the terminal record; a persistent one refuses it.
* The assessment takes known time to be right only of attempts that do not overlap, which is all
  that a recorder that waits for its answers produces: `Sequential` in
  `KnownWhateverTheInstants`.

## 4. Fairness

* `EvidenceLog`: a thread that is inside a call, and a service that is starting,
  keep running (weak fairness of each thread's steps).  Nobody is obliged to
  append, to report a failure or to crash; errors and crashes are bounded.
* `ObserverSession`: threads inside a method run on; fetches, waits and joins have
  timeouts in the code, so they end.  The read of an open stream is *not* fair: a
  silent device may never send a line, which is why `StopCompletes` needs the
  socket to be shut.  The snapshot is fair because the page polls it, and a
  delayed stop completes only there.
* `CaptureSchedule`: the thread runs, its fetches and waits have timeouts.  `Cancel`
  is not fair.
* `CaptureRun`: the thread of a capture runs, and its loop ends at its deadline
  (`CaptureSchedule`); its source ends once told (`Poller`); the page polls, which matters when
  the join of the source has timed out.  No stop, request or failure is fair.
* `PrusaLink`: the worker runs and time goes on; a request ends by its timeout.  `Poller` asks for
  less: a worker that was told to stop ends.
* `ChurnRun`: the thread of the run, `stop()` and the watcher run on; a worker does too, except in
  the read of an open stream, which owes no event.
* `ModeManager`: handler threads, watchers and the shutdown run on, a lock that is
  free is taken by somebody, a run has a bounded duration and gets its record, and
  an observation told to stop ends.  No request is fair, and none is needed for
  `Restored`; requests are bounded (`MaxRequests`), so that a watcher cannot be
  kept from the lock by an endless line of starts, which Python's locks would
  not exclude.

## 5. What is proved

### EvidenceLogProofs

For any set of threads, any checkpoint interval and live view, any number of
records, faults and crashes:

* `LogInvariant`: `Spec => []LogInv`;
* `TypeCorrect`, `EvidenceContiguous`, `AckedRecordsDurable`: `TypeOK`,
  `Contiguous` and `AckedDurable` follow from it;
* `StatusInvariant`: `Spec => [](LogInv /\ StatusInv)`;
* `TerminalCloses`, `EvidenceIsWhole`, `CountersRecovered`, `FailuresRecorded`: what
  `EvidenceInv`, `RecoveredCounters` and `FailureRecorded` say follows from the two.  What
  the first two say of records and counters holds until a failure goes unrecorded;
  `CountersRecovered` has no such condition and is about the moment when a start has
  loaded the session, because between the write of a record and its end, or after a failed
  fsync, the counters are behind the file;
* `ClosedIsImmutable`: `Spec => ClosedImmutable`, an action property;
* `LogIsDurable`: `Spec => ImplementsDurableLog`, the refinement as the run checks it.

`AckedDurable` is not inductive by itself: a step of a thread in the middle of a
write says nothing about which record is acknowledged unless it is known who may
be in the middle of a write.  `LogInv` adds that.  `Control` ties the program
counters to what the phase of the service allows, `Locking` says that the locks
are held exactly by the threads that are inside the sections they guard,
`Working` what the holder of the store lock is about to write, and, until a failure
lapses, `Numbered` and `Extent` say that unit *i* of the file belongs to record
(*i* + 1) / 2 and how far the file is ahead of the acknowledged records at each
program point.  One lemma per action shows that it keeps `LogInv`.  The recovery
rests on `LastRecordEndExists`, that the position behind the last newline exists
in every file, by the least number principle of the library.

`LogInv` says nothing of statuses, counters and the live view.  `StatusInv` does, in
parts that each have one lemma over the effects of the actions:

* `Kept`, `Drafted` and `Settled` follow the metadata: there is none without a
  directory; what a thread is about to store is what `finish()` makes of the cached
  entry; a finished session has its entry on disk, durably.
* `FailureKept`: once an append has raised, *every* copy of the metadata says so, the
  cached one, the stored one, the durable one and the draft in the hands of a thread.
  One copy would not do, because a crash may bring back any of the last two.
* `Counted`: the counters of every copy are those of a durable prefix of the evidence,
  unless a whole record has come behind it since; `Shaped` and `Recovered` take that
  through the truncation and the scan of a recovery.
* `Tallied`: while the service serves an open session, the cached counters are those of the
  whole file, except for the record that an append has written and not yet counted.
* `Writing`, `Open`, `Sealed`, `TerminalLast` and `Mirrored` are about terminal records.
  A copy of the metadata that says *completed* or *cancelled* is true of the last line
  of a file that is durable to its end; an open session has no such copy and no such
  line, except for the append that is about to finish it.

The invariant was checked by TLC on the instance of the run before it was proved.

The refinement maps each step to one of `DurableLog` or none.  The recovery and the
writing of metadata are stutters as long as the status and the lines stay; a crash loses
at most the line that was not acknowledged, which is where `Extent` is needed; `Truncate`
removes half a line, which `LinesOf` does not count.

### ObserverSessionProofs

For any finite set of handler threads, and any numbers of refresh workers, generations,
endpoints and permits, with and without overlap:

* `SessionIsConsistent`: `Spec => []SessionIInv`;
* `ObserverIsSafe`, `StopTellsTheStream`, `DisplayIsSettled`: `SessionInv`,
  `StopClosesSocket` and `DisplaySettles` hold in every state;
* `StopStaysFinal`: `Spec => StopIsFinal`, an action property, which needs no invariant.

`DisplaySettles` holds also when requests overlap, and so does what it needs: `Path`,
where a caller can be in the method it runs, and `Generations`, that no stream of a
generation still to be made has begun and that there is room for those asked for.  A late
report of an older stream finds another generation and is not shown; the timeout of a join
shows an end state.

The rest is `Sequential`, about an operator who waits for each answer.  That there is one
stream says nothing about the step that starts the next one.  `OneLead` says that of the
requests and the first worker one at a time does something; hence `Views`, that what it has
read of the stream is still so when it uses it, the very thing that overlapping calls
break (`observer_stop`).  `Threads` follows, that the stream and the worker that run are
the ones the observer knows, and from it `Halting`: stop() is either on its way to the event
of the stream or each live stream has been told, and a session that says it stopped has
no live thread, hence no permit in use.  `LeadStep` is the common step of all methods,
`QuietStep` of those that leave threads and session alone; `StreamEffect` is what any step
of a stream thread does.  The invariant was checked by TLC on the instance of the run and on
one with two requests, three workers and three streams before it was proved.
`ObserverConstants` says that the numbers are numbers, that there is at least a permit, a
worker and a generation, and that `None` and the handlers are none of those.

### BoundsProofs

What bounds the storage: the records of one capture, and the sessions that are kept.

Of `CaptureSchedule`, for any durations, intervals and delays:

* `ScheduleInvariant`: `Spec => []ScheduleInv`;
* `RecordsBounded`: `Spec => []RecordsWithinEstimate`;
* `NeverABurst`: `Spec => []NoBurst`;
* `OutcomesTruthful`: `Spec => []OutcomeTruthful`, with `OutcomeInv` as a second
  invariant next to the first.

`ScheduleInv` says that after *n* samples of a schedule the next one lies at
least *n* intervals after the start (`Grids`); since a state sample begins before
the duration, *n* intervals fit below it, and `StepsBelow` turns that into
*n* < ceil(duration / interval).  The health schedule is looked at after the
state fetch, so one sample may begin after the duration: `Counts` gives it one
more.  `Recorded` adds up two records per sample and the four that a run adds.
The assumption `ScheduleConstants` is what `CaptureConfig` validates: positive
durations and intervals.

Of `Retention`, for any finite sets of sessions and downloads, any positive bounds, and
any number of due passes, errors and crashes:

* `StoreInvariant`: `StoreSpec => []StoreInd`;
* `StoreIsSound`: `StoreSpec => []StoreInv`;
* `RemovalsAsDocumented`: `StoreSpec => RemovesAsDocumented`.

`StoreInv` is not inductive: that a pass spares what a download reads rests on the
lease counter, that what is listed is stored on what a creation finds, and that a quiet
store fits on what the pass took the sessions for.  `StoreInd` adds `LeasesCounted`, the
leases of a session are as many as the downloads that read it, and `Backed`: a listed
session has its directory; unless a write to it was cut, its cached size is not below the
size of its evidence and no file that it does not count lies beside its metadata; nothing is stored for
a session never created.  TLC checked `StoreInd` on the instance of
the run before it was proved.  `QuietStoreFits` then needs no strengthening: an action
either leaves the store as it is, or protects a session, or leaves a pass due or stopped
(`NotQuiet`), or is a complete pass (`PassSuffices`), or cuts a write to a listed session,
which leaves the count of the store alone (`WriteFailsKeeps`).

The rest is about the pass.  `RoundOK` is the invariant of its loop: the removed are
older than those left and unleased, what was passed over is leased, the loop has taken one
candidate per round unless what is kept fits, and the last removal was due.
`RoundKeeps` is one round, `RoundsOK` all of them.  After as many rounds as there are
sessions either no candidate is left or the rest fits (`EvictionOK`); `RemovalOK` is what
holds of a pass wherever it stops, by an error or a crash too (`RemovalsOK`).  What a pass
adds up are cached sizes; that the disk holds no more, where no write was cut, is
`SumMonotone`, that a sum of sizes that are smaller one by one is not greater.

Both the loop and the sum are recursive functions, and the induction theorems of the
library take an operator.  `EveryNat` states induction about a *set* of natural numbers
instead, by the least number principle; `RoundsFollow` and `SumsExist` use it to show that
the functions exist that the definitions of `Rounds` and `SumFunctionOnSet` choose, and
`RoundsOK` and `SumMonotone` to go through their values.
`RetentionConstants` is what the constructor checks, positive bounds, and that the sets
are finite.

### PrusaLinkProofs

For any configurations offered, any bounds of the interval, the backoff and the
staleness that `PollConstants` admits, and any latency:

* `SilenceIsBounded`: `Spec => []PollerInv`;
* `FreshIsRecentThm`: `Spec => []FreshIsRecent`;
* `HeadroomSuffices`: `Spec => []WithinHeadroom`;
* `PrusaLinkIsPoller`: the initial states and steps of `PrusaLink` are those of `Poller`.

None of the three is inductive.  `PollInv` adds to `TypeOK` that a worker runs only
with an accepted configuration (`ConfigInv`); the silence phase by phase
(`QuietInv`): in the wait, what has passed and what is left of the delay together
stay below the cap, in a request only its own latency comes on top; and
(`AgeInv`) that the data is at most one request older than the age that a snapshot reports,
which needs both ages to stop growing at the same bound.  `RetryBounded` is the
lemma about `retry_delay_seconds`; the exponent is capped at ten, so that the
powers of two it uses are finitely many.  `SpacingInv` is the second invariant, for the
headroom: as the clock stands, every record but the first has a whole interval behind it, the
delay that is still due counted in, because no delay is shorter than the interval
(`RetryNotEarlier`); the clock stays within the duration and the allowance, and
`CeilDivReaches` turns that into the reserve.  `PollConstants` says that the
constants are numbers, that the bounds are ordered as the code's are (the longest
interval below the longest retry) and that `None` is neither a number nor a state of a poll.

### ModeManagerProofs

For any handler threads and any number of requests, faults and sessions:

* `ModeInvariant`: `Spec => []ModeInv`;
* `ManagerIsSafe`: `Spec => []ManagerInv`;
* `ShutdownIsComplete`: `Spec => []ShutdownReachesAll`.

That only one mode owns the device is not inductive: a start that is about to install its
session must still find the device free.  `Locks` ties the outer lock to the places that
are behind its acquisition, so that at most one start, watcher or shutdown step is there,
and `Checked` keeps what the start has verified on its way (no run in the way; the
observation told to stop, then ended).  It stays true because sessions only move
towards their end without the lock.  `Watchers` and `ReturnWatched` say that a resume
target has one watcher that has not given up, of the newest generation, `Down` how far
the shutdown has come: past a kind of session, none of that kind is live and not told.

### ChurnRunProofs

For any number of cycles, events per cycle, settlement checkpoints, stop requests and
faults, and any health samples:

* `ChurnInvariant`: `Spec => []ChurnInv`;
* `RunIsClean`, `VerdictIsEarned`, `JudgementsStand`, `SettlementIsTruthful`,
  `OwnCloseIsTold`: `RunInv`, `VerdictEarned`, `JudgementStands`, `SettlementTruthful` and
  `OwnCloseIsNotRemote` hold in every state.

`ChurnInv` has seven parts beside the types.  `Control` says where each thread can be;
`Ending` that one thread at most has claimed the terminal record, and only when the thread
of the run is over and no worker is alive; `Streams` that only the worker of the newest cycle can be alive, the one
that `_stream_thread` names, and that the next cycle does not begin before it has ended;
`Telling` that as long as nobody asks the run to stop, a socket is shut only when its stream
has been told to stop; `Judging` what a worker may still report when its cycle is judged;
`Progress` what of the verdict has been earned so far, cycle by cycle; `Settlement`
how far the settlement is.  The parts lean on each other: that a judgement stands
needs that a cycle without a failed cleanup has no worker left (`Judging`), which needs
that the worker is the one the run has joined (`Streams`).  One lemma per part goes
through all actions.  `ChurnConstants` says that cycles, events and checkpoints are
positive, as `ChurnConfig` validates, that a client count is a number or missing, and that
`None` is none of the values it stands beside.

### CaptureRunProofs

For any number of captures, handlers and mishaps, any annotations and any limit:

* `CaptureInvariant`: `Spec => []RunInv`;
* `CaptureIsClean`, `AcceptedIsStored`, `RefusalsAreTrue`: `CaptureInv`,
  `AnnotationStoredOnce` and `RefusalsHold` hold in every state;
* `VerdictsStand`: `Spec => VerdictStands`, an action property.

What is stored and what is refused are two sides of one fact, that a capture and its
evidence say the same of every annotation.  `Kept` states it run by run: what the capture
remembers is in the evidence (`Backed`), once (`Once`), and as long as the session takes
records, every note in the evidence is remembered (`Covered`).  The last is what a failed
append breaks, a note of which nobody was told; it also closes the session, and then
`record_annotation` looks into the evidence instead.  Where the failure could not be
stored either, the session stays open and the run is `lapsed`: nothing is claimed of it.
The limit is about the memory; that it bounds the evidence is an injection of the notes
into the identifiers remembered (`NotesAreRemembered`).  `Threads` ties the state of a capture to
the place of its thread and says that only the current one is running, `Sessions` follows
the session, and `Verdicts` says that there is nothing but notes before the terminal record and that a
thread which ends has left the verdict or a failure.  `EvidenceStep`, `RunStep`, `ClosedStays`
and `MemoryStep` are what any step does to one run; the invariant follows from them.  It was
checked by TLC on the instance of the run before it was proved.  `CaptureConstants`
says that `None` is no run, text or identifier, and that annotations are made of these.

### AssessmentProofs

For any evidence file, check, signal, hold and any lines a recorder may write:

* `DeletionIsMonotone`: whatever an assessment of a part of a file decides or knows, the
  assessment of the whole file decides and knows alike; `DeletionNeverDecidesThm` is the
  property of the run, from it;
* `ReadsOnlyTheSlice`: two files that agree up to the terminal record of the run have the
  same finding; `ClosedRunIsFinalThm` follows;
* `KnownForAllInstants`: `Spec => []KnownWhateverTheInstants`;
* `DecisionsAreGroundedThm`: `Spec => []DecisionsAreGrounded`.

The first argument goes through the functions in their order: the run of a part is that of the whole or
undecided (`Incomplete` refuses a run with missing records), so the part decides only
when nothing that the engine reads is missing.

The other two need that the report is that of the file (`FileInv`) and follow the known
instants back.  A known instant lies in pieces of one truth only (`KnownIsObserved`), and a
piece comes of a valid attempt, from the end of its interval to the start of the one that
follows or to the end of its hold (`PiecesAre`, `FollowingIs`).  Wherever in their
intervals the samples of attempts that do not overlap were taken, the last one before such an
instant is then the one of the piece (`LastPersists`), and its hold, rounded down to whole
nanoseconds, has not passed (`HoldRoundsDown`).  A finding that decides has known time
(`HoldsIsEarned`, `BandIsEarned`), hence an instant, hence an attempt (`JudgeIsGrounded`).
Attempts are well formed because every line has a time and every observation a duration
(`AttemptsAreOK`, `LinesAssumption`).

### Only model-checked

Liveness under fairness (`CallsEnd`, `StopCompletes`, `Terminates`, `Restored`,
`CaptureEnds`, `RunEnds`, the fairness of `Poller`), because the prover handles neither
fairness nor `ENABLED`.  Every invariant, action property and refinement that a passing
run checks is a theorem, `ImplementsPoller` without its fairness.

## 6. Not modelled, and the plan

Not modelled for good: the browser interface, the command
line, target parsing, the release tooling, the layout of exports and reports.  Inside the
modelled parts, JSON encoding, URL handling and the parsing of responses are
abstracted away; a record is what the next reader of it looks at.
Threads are not modelled below a critical section of the interpreter.  Of the
session manager, the text of the last return (`_last_automation_return`), the
targets and their validation are left out; of captures and churn runs the counters that
snapshots show, the boot identifiers and the validation of their configurations; of
annotations the validation of their fields.

Not modelled yet:

1. the request slots of `DragonSniffServer` (`server.py:1104-1172`): one semaphore around every
   request, which shares no state with the models; and the routes and header checks of the
   HTTP handler, which keep none;
2. the framing of the event stream (`client.py:475-489`) as a function;
3. an observation with a printer source, as `CaptureRun` has it for a capture.
