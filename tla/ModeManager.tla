---------------------------- MODULE ModeManager ----------------------------
(***************************************************************************)
(* The SessionManager of the local service: which session owns the device, *)
(* and how an observation that an automated run has paused comes back.     *)
(*                                                                         *)
(* Starts, watchers and the shutdown exclude each other by the transition  *)
(* lock; a critical section of the inner lock is one step.  Stop requests  *)
(* take neither for longer than a read.  Of a session only its life is     *)
(* modelled here; ObserverSession has the inside of an observation.        *)
(***************************************************************************)
EXTENDS Naturals, FiniteSets

CONSTANTS
    Requests,     \* handler threads
    Main,         \* the thread that shuts the service down
    None,         \* no session, no holder
    MaxRequests,  \* bound: requests of the operator
    MaxFaults     \* bound: failures of storage

\* A request starts one session, and its run's watcher another.
Sessions == 1..(2 * MaxRequests)
Runs == {"churn", "capture"}
Kinds == {"observation"} \union Runs

ASSUME ManagerConstants ==
    /\ MaxRequests \in Nat /\ MaxFaults \in Nat
    /\ Requests \intersect Sessions = {}
    /\ Main \notin Requests \union Sessions
    /\ None \notin Requests \union Sessions \union {Main}

VARIABLES
    \* SessionManager
    installed,    \* _observer, _churn and _capture, by kind
    generation,   \* _automation_generation
    active,       \* _active_automation
    resume,       \* _resume_target is not None
    resumeError,  \* _resume_error is not None
    shutdown,     \* _shutdown is set
    transition,   \* holder of _transition_lock
    \* sessions
    kind, state,
    recorded,     \* runs whose terminal record has been appended
    \* threads; the watcher of a run has the run's number
    pc, goal, mine,
    paused,       \* stopped_target of the request is not None
    gen,          \* generation a watcher was made for
    \* history and bounds
    lost,         \* a watcher died of a session it could not create
    requests, faults

manager == <<installed, generation, active, resume, resumeError>>
session == <<kind, state, recorded>>
thread == <<pc, goal, mine, paused, gen>>
bounds == <<requests, faults>>
vars == <<manager, shutdown, transition, session, thread, lost, bounds>>

Init ==
    /\ installed = [k \in Kinds |-> None]
    /\ generation = 0 /\ active = None /\ resume = FALSE /\ resumeError = FALSE
    /\ shutdown = FALSE /\ transition = None
    /\ kind = [s \in Sessions |-> "observation"]
    /\ state = [s \in Sessions |-> "none"] /\ recorded = {}
    /\ pc = [t \in Requests \union Sessions \union {Main} |->
                IF t \in Requests THEN "idle" ELSE "none"]
    /\ goal = [r \in Requests |-> "observation"]
    /\ mine = [r \in Requests |-> None]
    /\ paused = [r \in Requests |-> FALSE]
    /\ gen = [s \in Sessions |-> 0]
    /\ lost = FALSE /\ requests = 0 /\ faults = 0

Goto(t, label) == pc' = [pc EXCEPT ![t] = label]
Fault == faults < MaxFaults /\ faults' = faults + 1 /\ UNCHANGED requests

\* The session has threads that may talk to the device.
Using(s) == state[s] \in {"live", "stopping"}
Running(k) == installed[k] # None /\ Using(installed[k])

Fresh(s) == state[s] = "none" /\ \A u \in Sessions : state[u] = "none" => s <= u

\* stop() of a session: one that has ended stays ended.
Told(s) == [state EXCEPT ![s] = IF @ = "live" THEN "stopping" ELSE @]
-----------------------------------------------------------------------------
(* Sessions.                                                               *)

\* The workers of a stopping observation are gone and somebody has noticed.
ObservationEnds(s) ==
    /\ kind[s] = "observation" /\ state[s] = "stopping"
    /\ state' = [state EXCEPT ![s] = "ended"]
    /\ UNCHANGED <<manager, shutdown, transition, kind, recorded, thread, lost, bounds>>

\* The run publishes its terminal state ...
RunEnds(s) ==
    /\ kind[s] \in Runs /\ Using(s)
    /\ state' = [state EXCEPT ![s] = "ended"]
    /\ UNCHANGED <<manager, shutdown, transition, kind, recorded, thread, lost, bounds>>

\* ... and then appends its terminal record, or fails the recorder.
RunRecorded(s) ==
    /\ kind[s] \in Runs /\ state[s] = "ended" /\ s \notin recorded
    /\ recorded' = recorded \union {s}
    /\ UNCHANGED <<manager, shutdown, transition, kind, state, thread, lost, bounds>>

\* wait_finished: of a capture, its thread has come to its end; of a churn run,
\* the terminal state is enough.
WaitFinished(s) ==
    /\ state[s] = "ended"
    /\ kind[s] = "capture" => s \in recorded
-----------------------------------------------------------------------------
(* Requests that stop a session.                                           *)

ReadSession(r, k) ==
    /\ pc[r] = "idle" /\ requests < MaxRequests /\ installed[k] # None
    /\ mine' = [mine EXCEPT ![r] = installed[k]]
    /\ Goto(r, "stop")
    /\ requests' = requests + 1
    /\ UNCHANGED <<manager, shutdown, transition, session, goal, paused, gen,
                   lost, faults>>

StopSession(r) ==
    /\ pc[r] = "stop"
    /\ state' = Told(mine[r])
    /\ Goto(r, "idle")
    /\ UNCHANGED <<manager, shutdown, transition, kind, recorded, goal, mine,
                   paused, gen, lost, bounds>>
-----------------------------------------------------------------------------
(* Requests that start a session.                                          *)

Request(r, k) ==
    /\ pc[r] = "idle" /\ requests < MaxRequests
    /\ goal' = [goal EXCEPT ![r] = k]
    /\ Goto(r, "enter")
    /\ requests' = requests + 1
    /\ UNCHANGED <<manager, shutdown, transition, session, mine, paused, gen,
                   lost, faults>>

Enter(r) ==
    /\ pc[r] = "enter" /\ transition = None
    /\ transition' = r
    /\ Goto(r, "check")
    /\ UNCHANGED <<manager, shutdown, session, goal, mine, paused, gen, lost, bounds>>

\* The request is over, with an error or an answer.
Leave(r) ==
    /\ transition' = None
    /\ Goto(r, "idle")

\* No run goes on.
Admissible(r) == ~shutdown /\ ~Running("churn") /\ ~Running("capture")

Check(r) ==
    /\ pc[r] = "check"
    /\ \/ Admissible(r) /\ Goto(r, "pause") /\ UNCHANGED transition
       \/ ~Admissible(r) /\ Leave(r)
    /\ UNCHANGED <<manager, shutdown, session, goal, mine, paused, gen, lost, bounds>>

\* Is there an observation to be stopped first?
Pause(r) ==
    /\ pc[r] = "pause"
    /\ paused' = [paused EXCEPT ![r] = FALSE]
    /\ Goto(r, IF Running("observation") THEN "halt" ELSE "create")
    /\ UNCHANGED <<manager, shutdown, transition, session, goal, mine, gen, lost, bounds>>

Halt(r) ==
    /\ pc[r] = "halt"
    /\ state' = Told(installed["observation"])
    /\ Goto(r, "join")
    /\ UNCHANGED <<manager, shutdown, transition, kind, recorded, goal, mine,
                   paused, gen, lost, bounds>>

\* stop() returns True, or False after its timeout, or raises when the recorder
\* does not take the record of the stop.
Join(r) ==
    /\ pc[r] = "join"
    /\ \/ /\ ~Running("observation")
          /\ paused' = [paused EXCEPT ![r] = goal[r] \in Runs]
          /\ Goto(r, "create")
          /\ UNCHANGED <<transition, bounds>>
       \/ /\ Running("observation") /\ Leave(r)
          /\ UNCHANGED <<paused, bounds>>
       \/ /\ ~Running("observation") /\ Fault /\ Leave(r)
          /\ UNCHANGED paused
    /\ UNCHANGED <<manager, shutdown, session, goal, mine, gen, lost>>

Create(r) ==
    /\ pc[r] = "create"
    /\ \E s \in Sessions :
          /\ Fresh(s)
          /\ kind' = [kind EXCEPT ![s] = goal[r]]
          /\ state' = [state EXCEPT ![s] = "created"]
          /\ mine' = [mine EXCEPT ![r] = s]
    /\ Goto(r, "install")
    /\ UNCHANGED <<manager, shutdown, transition, recorded, goal, paused, gen,
                   lost, bounds>>

\* The recorder or the target's session cannot be created.
CreateFails(r) ==
    /\ pc[r] = "create"
    /\ Fault
    /\ Leave(r)
    /\ UNCHANGED <<manager, shutdown, session, goal, mine, paused, gen, lost>>

MayInstall(r) == pc[r] = "install" /\ ~shutdown

\* start() of the run and what the manager remembers of it, in one section.
InstallRun(r) ==
    /\ MayInstall(r) /\ goal[r] \in Runs
    /\ state' = [state EXCEPT ![mine[r]] = "live"]
    /\ installed' = [installed EXCEPT !["observation"] = None, ![goal[r]] = mine[r]]
    /\ generation' = generation + 1
    /\ active' = goal[r]
    /\ resume' = (paused[r] \/ resume)
    /\ resumeError' = FALSE /\ lost' = FALSE
    /\ IF resume' THEN Goto(r, "watch") /\ UNCHANGED transition ELSE Leave(r)
    /\ UNCHANGED <<shutdown, kind, recorded, goal, mine, paused, gen, bounds>>

InstallObservation(r) ==
    /\ MayInstall(r) /\ goal[r] = "observation"
    /\ state' = [state EXCEPT ![mine[r]] = "live"]
    /\ installed' = [installed EXCEPT !["observation"] = mine[r]]
    /\ generation' = generation + 1
    /\ active' = None /\ resume' = FALSE /\ resumeError' = FALSE /\ lost' = FALSE
    /\ Leave(r)
    /\ UNCHANGED <<shutdown, kind, recorded, goal, mine, paused, gen, bounds>>

\* The service is shutting down, or start() raises.
InstallFails(r) ==
    /\ pc[r] = "install"
    /\ \/ shutdown /\ UNCHANGED <<state, bounds>>
       \/ Fault /\ state' = [state EXCEPT ![mine[r]] = "failed"]
    /\ Leave(r)
    /\ UNCHANGED <<manager, shutdown, kind, recorded, goal, mine, paused, gen, lost>>

\* _watch_and_resume starts the watcher of the run.
Watch(r) ==
    /\ pc[r] = "watch"
    /\ pc' = [pc EXCEPT ![mine[r]] = "waiting", ![r] = "idle"]
    /\ gen' = [gen EXCEPT ![mine[r]] = generation]
    /\ transition' = None
    /\ UNCHANGED <<manager, shutdown, session, goal, mine, paused, lost, bounds>>
-----------------------------------------------------------------------------
(* Watchers: _resume_observation_after.                                    *)

\* Mutant: the watcher waits on until the service is going down as well.
WakeBoth(w) ==
    /\ pc[w] = "waiting"
    /\ shutdown /\ WaitFinished(w)
    /\ Goto(w, "enter")
    /\ UNCHANGED <<manager, shutdown, transition, session, goal, mine, paused,
                   gen, lost, bounds>>

Wake(w) ==
    /\ pc[w] = "waiting"
    /\ shutdown \/ WaitFinished(w)
    /\ Goto(w, "enter")
    /\ UNCHANGED <<manager, shutdown, transition, session, goal, mine, paused,
                   gen, lost, bounds>>

EnterWatcher(w) ==
    /\ pc[w] = "enter" /\ transition = None
    /\ transition' = w
    /\ Goto(w, "resume")
    /\ UNCHANGED <<manager, shutdown, session, goal, mine, paused, gen, lost, bounds>>

\* Mutant: a newer run is not noticed.
CurrentUnguarded(w) ==
    ~shutdown /\ installed[kind[w]] = w /\ installed["observation"] = None /\ resume

\* Nothing has replaced the run or taken back the return.
Current(w) ==
    /\ ~shutdown
    /\ generation = gen[w]
    /\ installed[kind[w]] = w
    /\ installed["observation"] = None
    /\ resume

Gone(w) ==
    /\ transition' = None
    /\ Goto(w, "dead")

GiveUp(w) ==
    /\ pc[w] = "resume" /\ ~Current(w)
    /\ Gone(w)
    /\ UNCHANGED <<manager, shutdown, session, goal, mine, paused, gen, lost, bounds>>

\* Creation, start and installation are one critical section.
Resume(w) ==
    /\ pc[w] = "resume" /\ Current(w)
    /\ \E s \in Sessions :
          /\ Fresh(s)
          /\ kind' = [kind EXCEPT ![s] = "observation"]
          /\ state' = [state EXCEPT ![s] = "live"]
          /\ installed' = [installed EXCEPT !["observation"] = s]
    /\ resume' = FALSE /\ active' = None /\ resumeError' = FALSE
    /\ Gone(w)
    /\ UNCHANGED <<generation, shutdown, recorded, goal, mine, paused, gen,
                   lost, bounds>>

\* start() raises: the error is kept for the snapshot.
ResumeFails(w) ==
    /\ pc[w] = "resume" /\ Current(w)
    /\ Fault
    /\ \E s \in Sessions :
          /\ Fresh(s)
          /\ kind' = [kind EXCEPT ![s] = "observation"]
          /\ state' = [state EXCEPT ![s] = "failed"]
    /\ resumeError' = TRUE
    /\ Gone(w)
    /\ UNCHANGED <<installed, generation, active, resume, shutdown, recorded,
                   goal, mine, paused, gen, lost>>

\* The session cannot be created: the exception ends the watcher.
ResumeDies(w) ==
    /\ pc[w] = "resume" /\ Current(w)
    /\ Fault
    /\ lost' = TRUE
    /\ Gone(w)
    /\ UNCHANGED <<manager, shutdown, session, goal, mine, paused, gen>>
-----------------------------------------------------------------------------
(* SessionManager.shutdown.                                                *)

Shutdown ==
    /\ pc[Main] = "none"
    /\ shutdown' = TRUE
    /\ Goto(Main, "enter")
    /\ UNCHANGED <<manager, transition, session, goal, mine, paused, gen, lost, bounds>>

ShutdownEnter ==
    /\ pc[Main] = "enter" /\ transition = None
    /\ transition' = Main
    /\ generation' = generation + 1 /\ active' = None /\ resume' = FALSE
    /\ Goto(Main, "observation")
    /\ UNCHANGED <<installed, resumeError, shutdown, session, goal, mine, paused,
                   gen, lost, bounds>>

\* Mutant: only the run that is still marked active is told to stop.
ShutdownStopsActive(k, next) ==
    /\ pc[Main] = k
    /\ state' = IF installed[k] = None \/ (k \in Runs /\ active # k)
                THEN state ELSE Told(installed[k])
    /\ Goto(Main, next)
    /\ transition' = IF next = "done" THEN None ELSE transition
    /\ UNCHANGED <<manager, shutdown, kind, recorded, goal, mine, paused, gen,
                   lost, bounds>>

\* One after the other, until the deadline.
ShutdownStops(k, next) ==
    /\ pc[Main] = k
    /\ state' = IF installed[k] = None THEN state ELSE Told(installed[k])
    /\ Goto(Main, next)
    /\ transition' = IF next = "done" THEN None ELSE transition
    /\ UNCHANGED <<manager, shutdown, kind, recorded, goal, mine, paused, gen,
                   lost, bounds>>

\* stop() of the observer raises: the shutdown goes no further.
ShutdownRaises ==
    /\ pc[Main] = "observation" /\ installed["observation"] # None
    /\ Fault
    /\ state' = Told(installed["observation"])
    /\ Goto(Main, "done")
    /\ transition' = None
    /\ UNCHANGED <<manager, shutdown, kind, recorded, goal, mine, paused, gen, lost>>
-----------------------------------------------------------------------------
Handle(r) ==
    \/ StopSession(r)
    \/ Enter(r) \/ Check(r) \/ Pause(r) \/ Halt(r) \/ Join(r)
    \/ Create(r) \/ CreateFails(r)
    \/ InstallRun(r) \/ InstallObservation(r) \/ InstallFails(r) \/ Watch(r)

Watcher(w) ==
    \/ Wake(w) \/ EnterWatcher(w)
    \/ GiveUp(w) \/ Resume(w) \/ ResumeFails(w) \/ ResumeDies(w)

ShutdownStep ==
    \/ ShutdownEnter
    \/ ShutdownStops("observation", "churn") \/ ShutdownRaises
    \/ ShutdownStops("churn", "capture")
    \/ ShutdownStops("capture", "done")

Ends(s) == ObservationEnds(s) \/ RunEnds(s) \/ RunRecorded(s)

\* The service is down, and every thread at its end.
Rest ==
    /\ pc[Main] = "done" /\ requests = MaxRequests
    /\ \A r \in Requests : pc[r] = "idle"
    /\ \A s \in Sessions : pc[s] \in {"none", "dead"} /\ ~Using(s)
    /\ UNCHANGED vars

Next ==
    \/ \E r \in Requests, k \in Kinds : Request(r, k) \/ ReadSession(r, k)
    \/ \E r \in Requests : Handle(r)
    \/ \E s \in Sessions : Watcher(s) \/ Ends(s)
    \/ Shutdown \/ ShutdownStep
    \/ Rest

Spec == Init /\ [][Next]_vars

\* Threads run; a run has a bounded duration and appends its last record, and
\* a stopping observation ends.  Nobody is obliged to ask for anything.
FairSpec ==
    /\ Spec
    /\ \A r \in Requests : WF_vars(Handle(r))
    /\ \A s \in Sessions : WF_vars(Watcher(s)) /\ WF_vars(Ends(s))
    /\ WF_vars(ShutdownStep)
-----------------------------------------------------------------------------
Labels == {"idle", "stop", "enter", "check", "pause", "halt", "join", "create",
           "install", "watch", "none", "waiting", "resume", "dead", "done"} \union Kinds
States == {"none", "created", "live", "stopping", "ended", "failed"}

\* Every variable keeps its type.
TypeOK ==
    /\ installed \in [Kinds -> Sessions \union {None}]
    /\ generation \in Nat /\ active \in Runs \union {None}
    /\ resume \in BOOLEAN /\ resumeError \in BOOLEAN /\ shutdown \in BOOLEAN
    /\ transition \in Requests \union Sessions \union {Main, None}
    /\ kind \in [Sessions -> Kinds] /\ state \in [Sessions -> States]
    /\ recorded \subseteq Sessions
    /\ pc \in [Requests \union Sessions \union {Main} -> Labels]
    /\ goal \in [Requests -> Kinds] /\ mine \in [Requests -> Sessions \union {None}]
    /\ paused \in [Requests -> BOOLEAN] /\ gen \in [Sessions -> Nat]
    /\ lost \in BOOLEAN /\ requests \in 0..MaxRequests /\ faults \in 0..MaxFaults

\* "Only one operating mode is active at a time": at most one session has
\* threads that may talk to the device, and it is the one a stop request and
\* the shutdown would reach.
OneMode ==
    \A s \in Sessions : Using(s) =>
        /\ installed[kind[s]] = s
        /\ \A u \in Sessions : Using(u) => u = s

\* What the snapshot and the export show is the session that owns the device:
\* an observation is shown only when no run goes on, a run only when it is the
\* installed one.
ModeShown ==
    /\ installed["observation"] # None => active = None
    /\ active # None => installed[active] # None
    /\ ~shutdown => \A k \in Runs :
          Running(k) => active = k /\ installed["observation"] = None

\* "Starting under the manager lock makes observer installation and worker
\* launch atomic with respect to shutdown": once the shutdown has gone through
\* the sessions, none is left that was not told to stop, and none starts.
ShutdownReachesAll ==
    pc[Main] = "done" => \A s \in Sessions : state[s] # "live"

\* A return that the snapshot calls pending is in somebody's hands: the watcher
\* made for the present generation, or the request about to start it; unless
\* an error is shown, the service goes down, or the watcher died without a word.
ReturnWatched ==
    resume /\ ~resumeError /\ ~lost /\ ~shutdown =>
        \/ \E w \in Sessions : pc[w] \in {"waiting", "enter", "resume"}
                               /\ gen[w] = generation
        \/ \E r \in Requests : pc[r] = "watch"

\* The type invariant; one session owns the device, it is the one shown, and a
\* pending return has its watcher (_start_churn, _watch_and_resume).
ManagerInv == TypeOK /\ OneMode /\ ModeShown /\ ReturnWatched

\* "Restores observation after completed, cancelled, or failed churn cleanup":
\* a paused observation comes back, or is given up by a start of the operator,
\* by the shutdown or with an error, and is not left pending.
Restored == resume ~> (~resume \/ resumeError \/ lost)
-----------------------------------------------------------------------------
\* wait_finished: "Wait until terminal evidence and local cleanup are
\* complete": the observation is not restored before the run has its record.
EvidenceFirst ==
    \A w \in Sessions : pc[w] = "resume" /\ Current(w) => w \in recorded
=============================================================================
