-------------------------- MODULE ObserverSession --------------------------
(***************************************************************************)
(* One live observation: an Observer, its refresh workers, the event       *)
(* streams of its DragonClient, and the request handlers of the local      *)
(* service, which call its methods without a lock of their own.            *)
(*                                                                         *)
(* A step is one critical section, one read or write of a shared field, or *)
(* one call that may block.  A refresh worker and a request run the same   *)
(* methods, so both are callers.  A stream is named by its generation.     *)
(* The PrusaLink source of an observer is not part of this module.         *)
(***************************************************************************)
EXTENDS Naturals, FiniteSets

CONSTANTS
    Requests,    \* handler threads of the local service
    None,        \* no stream, no worker
    Limit,       \* connection_limit of the ConnectionBudget
    Endpoints,   \* number of JSON endpoints a refresh fetches
    Overlaps,    \* whether requests overlap, the choices examined
    MaxWorkers,  \* bound: refresh workers
    MaxStreams   \* bound: generations

Workers == 1..MaxWorkers
Streams == 1..MaxStreams

ASSUME ObserverConstants ==
    /\ Limit \in Nat \ {0} /\ Endpoints \in Nat
    /\ MaxWorkers \in Nat \ {0} /\ MaxStreams \in Nat \ {0}
    /\ Overlaps \subseteq BOOLEAN
    /\ None \notin Workers \union Streams
    /\ IsFiniteSet(Requests) /\ Requests \intersect Workers = {}

VARIABLES
    \* Observer
    session,       \* _state["session_state"]
    display,       \* _state["sse"]["state"]
    generation,    \* _generation
    streamThread,  \* _stream_thread
    streamStop,    \* _stream_stop, the Event of that stream
    refreshThread, \* _refresh_thread
    sessionStop,   \* _session_stop is set
    \* DragonClient
    response,      \* the stream behind _stream_response and _stream_socket
    shut,          \* streams whose socket close_stream has shut down
    \* recorder
    log,           \* "memory", or of a persistent one whether it takes records
    \* stream threads
    at, stopSet, reason,
    \* callers: where they are, the method they run, what they read
    pc, job, seen, mine, left,
    \* requests overlap each other and the first connection; never changes
    overlap

observer == <<session, display, generation, streamThread, streamStop,
              refreshThread, sessionStop>>
client == <<response, shut>>
stream == <<at, stopSet, reason>>
caller == <<pc, job, seen, mine, left>>
vars == <<observer, client, log, stream, caller, overlap>>

Callers == Requests \union Workers
Methods == {"refresh", "reconnect_events", "stop_events", "stop", "snapshot"}
EndStates == {"stopped", "closed", "error", "unavailable"}

Stopping == session \in {"stopping", "stopped"}
\* A persistent recorder refuses records behind session_stopped or a failure.
Refused == log = "closed"

StreamAlive(g) == g # None /\ at[g] \notin {"none", "made", "ended"}
WorkerAlive(w) == w # None /\ pc[w] \notin {"none", "made", "dead"}

\* ConnectionBudget.active: a permit is held from the lease to its end.
Holding == {g \in Streams : at[g] \in {"opening", "opened", "register",
                                       "announce", "check", "reading"}}
Active == Cardinality(Holding) + Cardinality({w \in Workers : pc[w] = "fetching"})

\* Observer.start has returned when the first request can reach the observer:
\* the first refresh worker runs, and is to connect the events.
Init ==
    /\ overlap \in Overlaps
    /\ session = "starting" /\ display = "not_connected" /\ generation = 0
    /\ streamThread = None /\ streamStop = None /\ refreshThread = 1
    /\ sessionStop = FALSE /\ response = None /\ shut = {}
    \* Bound: of requests that overlap, an observer with a memory recorder.
    /\ log \in {"memory", "open"} /\ (overlap => log = "memory")
    /\ at = [g \in Streams |-> "none"] /\ stopSet = {}
    /\ reason = [g \in Streams |-> "error"]
    /\ pc = [c \in Callers |-> IF c \in Requests THEN "idle"
                               ELSE IF c = 1 THEN "head" ELSE "none"]
    /\ job = [c \in Callers |-> IF c = 1 THEN "reconnect_events" ELSE "none"]
    /\ seen = [c \in Callers |-> <<None, None>>]
    /\ mine = [c \in Callers |-> None]
    /\ left = [w \in Workers |-> Endpoints]

Goto(c, label) ==
    /\ pc' = [pc EXCEPT ![c] = label]
    /\ job' = IF label \in {"idle", "dead"} THEN [job EXCEPT ![c] = "none"] ELSE job
Rest(c) == IF c \in Requests THEN "idle" ELSE "dead"

Resting(c) == pc[c] \in {"idle", "none", "dead"}
-----------------------------------------------------------------------------
(* Requests.  Without overlap, one operator waits for the first connection *)
(* and for every answer.                                                   *)

Quiet ==
    /\ \A r \in Requests : pc[r] = "idle"
    /\ pc[1] = "dead"

\* A method that needs a worker or a generation finds one within the bounds;
\* of refresh workers that overlap requests, the first one is examined.
Room(method) ==
    /\ method = "refresh" => ~overlap /\
          Cardinality({r \in Requests : pc[r] = "refresh"})
             < Cardinality({w \in Workers : pc[w] = "none"})
    /\ method = "reconnect_events" =>
          generation + Cardinality({c \in Callers :
             ~Resting(c) /\ job[c] = "reconnect_events"}) < MaxStreams

Begin(r, method) ==
    /\ pc[r] = "idle"
    /\ overlap \/ Quiet
    /\ Room(method)
    /\ job' = [job EXCEPT ![r] = method]
    /\ pc' = [pc EXCEPT ![r] = CASE method = "refresh" -> "refresh"
                                 [] method = "stop" -> "stop"
                                 [] method = "snapshot" -> "finish"
                                 [] OTHER -> "read"]
    /\ UNCHANGED <<observer, client, log, stream, seen, mine, left>>
-----------------------------------------------------------------------------
(* Observer.refresh and _refresh_worker                                    *)

Refresh(r) ==
    /\ pc[r] = "refresh"
    /\ UNCHANGED <<client, log, stream, session, display, generation,
                   streamThread, streamStop, sessionStop, seen, left>>
    /\ \/ /\ Stopping \/ WorkerAlive(refreshThread)
          /\ Goto(r, "idle")
          /\ UNCHANGED <<refreshThread, mine>>
       \/ /\ ~Stopping /\ ~WorkerAlive(refreshThread)
          /\ \E w \in Workers :
                /\ pc[w] = "none" /\ \A v \in 1..(w - 1) : pc[v] # "none"
                /\ refreshThread' = w
                /\ mine' = [mine EXCEPT ![r] = w]
                /\ pc' = [pc EXCEPT ![r] = "launch", ![w] = "made"]
                /\ job' = [job EXCEPT ![w] = "refresh"]

LaunchWorker(r) ==
    /\ pc[r] = "launch"
    /\ pc' = [pc EXCEPT ![r] = "idle", ![mine[r]] = "head"]
    /\ job' = [job EXCEPT ![r] = "none"]
    /\ mine' = [mine EXCEPT ![r] = None]
    /\ UNCHANGED <<observer, client, log, stream, seen, left>>

\* The head of the loop over the endpoints, with the request record.
NextEndpoint(w) ==
    /\ pc[w] = "head"
    /\ Goto(w, IF left[w] = 0 THEN "observe"
               ELSE IF sessionStop \/ Refused THEN "dead"
               ELSE "budget")
    /\ UNCHANGED <<observer, client, log, stream, seen, mine, left>>

LeaseFetch(w) ==
    /\ pc[w] = "budget"
    /\ Active < Limit
    /\ Goto(w, "fetching")
    /\ UNCHANGED <<observer, client, log, stream, seen, mine, left>>

\* The answer, or the failure, of the device within the request timeout, or
\* no permit within the acquire timeout; either way it is recorded.  The error
\* of reading the body of an HTTP error ends the worker, as a refused record does.
Fetched(w) ==
    /\ pc[w] \in {"budget", "fetching"}
    /\ left' = [left EXCEPT ![w] = @ - 1]
    /\ \/ ~Refused /\ Goto(w, "head")
       \/ Refused /\ Goto(w, "dead")
       \/ pc[w] = "fetching" /\ Goto(w, "dead")
    /\ UNCHANGED <<observer, client, log, stream, seen, mine>>

\* Mutant: a refresh that ends late reopens a session that is stopping.
ObserveAnyway(w) ==
    /\ pc[w] = "observe"
    /\ session' = "observing"
    /\ Goto(w, IF job[w] = "reconnect_events" THEN "connect" ELSE "dead")
    /\ UNCHANGED <<display, generation, streamThread, streamStop, refreshThread,
                   sessionStop, client, log, stream, seen, mine, left>>

Observe(w) ==
    /\ pc[w] = "observe"
    /\ session' = IF Stopping THEN session ELSE "observing"
    /\ Goto(w, IF job[w] = "reconnect_events" THEN "connect" ELSE "dead")
    /\ UNCHANGED <<display, generation, streamThread, streamStop, refreshThread,
                   sessionStop, client, log, stream, seen, mine, left>>

Connect(w) ==
    /\ pc[w] = "connect"
    /\ Goto(w, IF sessionStop THEN "dead" ELSE "read")
    /\ UNCHANGED <<observer, client, log, stream, seen, mine, left>>
-----------------------------------------------------------------------------
(* Observer.stop_events                                                    *)

ReadStream(c) ==
    /\ pc[c] = "read"
    /\ seen' = [seen EXCEPT ![c] = <<streamThread, streamStop>>]
    /\ Goto(c, "alive")
    /\ UNCHANGED <<observer, client, log, stream, mine, left>>

CheckAlive(c) ==
    /\ pc[c] = "alive"
    /\ Goto(c, IF StreamAlive(seen[c][1]) /\ seen[c][2] # None
               THEN "signal" ELSE "forget")
    /\ UNCHANGED <<observer, client, log, stream, seen, mine, left>>

\* Mutant: the socket is closed, but the event is not set.
SignalNothing(c) ==
    /\ pc[c] = "signal"
    /\ Goto(c, "close")
    /\ UNCHANGED <<observer, client, log, stream, seen, mine, left>>

SignalStop(c) ==
    /\ pc[c] = "signal"
    /\ stopSet' = stopSet \union {seen[c][2]}
    /\ Goto(c, "close")
    /\ UNCHANGED <<observer, client, log, at, reason, seen, mine, left>>

\* Mutant: the event is set, but the socket is left open.
CloseNothing(c) ==
    /\ pc[c] = "close"
    /\ Goto(c, "join")
    /\ UNCHANGED <<observer, client, log, stream, seen, mine, left>>

\* DragonClient.close_stream
CloseStream(c) ==
    /\ pc[c] = "close"
    /\ shut' = shut \union ({response} \ {None})
    /\ Goto(c, "join")
    /\ UNCHANGED <<observer, response, log, stream, seen, mine, left>>

\* Mutant: a stream that would not stop in time is reconnected all the same.
ReturnsAnyway(c, stopped) ==
    Goto(c, CASE job[c] = "stop" -> "await"
              [] job[c] = "reconnect_events" -> "new"
              [] OTHER -> Rest(c))

Returns(c, stopped) ==
    Goto(c, CASE job[c] = "stop" -> "await"
              [] job[c] = "reconnect_events" /\ stopped -> "new"
              [] OTHER -> Rest(c))

JoinStream(c) ==
    /\ pc[c] = "join"
    /\ ~StreamAlive(seen[c][1])
    /\ Goto(c, "forget")
    /\ UNCHANGED <<observer, client, log, stream, seen, mine, left>>

ForgetStream(c) ==
    /\ pc[c] = "forget"
    /\ IF streamThread = seen[c][1]
       THEN streamThread' = None /\ streamStop' = None
       ELSE UNCHANGED <<streamThread, streamStop>>
    /\ Returns(c, TRUE)
    /\ seen' = [seen EXCEPT ![c] = <<None, None>>]
    /\ UNCHANGED <<session, display, generation, refreshThread, sessionStop,
                   client, log, stream, mine, left>>

\* The stream thread did not end in time, and the display says so; not if an
\* overlapping request has moved on from the generation that was read for it.
JoinTimeout(c) ==
    /\ pc[c] = "join"
    /\ StreamAlive(seen[c][1])
    /\ \/ /\ ~Refused
          /\ display' = "error" \/ (overlap /\ UNCHANGED display)
          /\ Returns(c, FALSE)
       \/ /\ Refused
          /\ Goto(c, Rest(c))
          /\ UNCHANGED display
    /\ seen' = [seen EXCEPT ![c] = <<None, None>>]
    /\ UNCHANGED <<session, generation, streamThread, streamStop, refreshThread,
                   sessionStop, client, log, stream, mine, left>>
-----------------------------------------------------------------------------
(* Observer.reconnect_events, once the old stream is stopped               *)

NewGeneration(c) ==
    /\ pc[c] = "new"
    /\ \/ /\ Stopping
          /\ Goto(c, Rest(c))
          /\ UNCHANGED <<generation, streamStop, display, mine>>
       \/ /\ ~Stopping
          /\ generation' = generation + 1
          /\ streamStop' = generation'
          /\ display' = "connecting"
          /\ mine' = [mine EXCEPT ![c] = generation']
          /\ Goto(c, "publish")
    /\ UNCHANGED <<session, streamThread, refreshThread, sessionStop, client,
                   log, stream, seen, left>>

PublishThread(c) ==
    /\ pc[c] = "publish"
    /\ streamThread' = mine[c]
    /\ at' = [at EXCEPT ![mine[c]] = "made"]
    /\ Goto(c, "start")
    /\ UNCHANGED <<session, display, generation, streamStop, refreshThread,
                   sessionStop, client, log, stopSet, reason, seen, mine,
                   left>>

StartThread(c) ==
    /\ pc[c] = "start"
    /\ at' = [at EXCEPT ![mine[c]] = "begin"]
    /\ Goto(c, Rest(c))
    /\ mine' = [mine EXCEPT ![c] = None]
    /\ UNCHANGED <<observer, client, log, stopSet, reason, seen, left>>
-----------------------------------------------------------------------------
(* Observer.stop and _finish_stop_if_complete, which snapshot calls too    *)

Stop(r) ==
    /\ pc[r] = "stop"
    /\ IF session = "stopped"
       THEN Goto(r, "idle") /\ UNCHANGED session
       ELSE Goto(r, "halt") /\ session' = "stopping"
    /\ UNCHANGED <<display, generation, streamThread, streamStop, refreshThread,
                   sessionStop, client, log, stream, seen, mine, left>>

Halt(r) ==
    /\ pc[r] = "halt"
    /\ sessionStop' = TRUE
    /\ Goto(r, "read")
    /\ UNCHANGED <<session, display, generation, streamThread, streamStop,
                   refreshThread, client, log, stream, seen, mine, left>>

\* The refresh worker ended, or the time of stop is up.
AwaitWorker(r) ==
    /\ pc[r] = "await"
    /\ Goto(r, "finish")
    /\ UNCHANGED <<observer, client, log, stream, seen, mine, left>>

Reclaimed ==
    /\ ~StreamAlive(streamThread) /\ ~WorkerAlive(refreshThread)
    /\ Active = 0

FinishStop(r) ==
    /\ pc[r] = "finish"
    /\ \/ /\ session # "stopping" \/ ~Reclaimed
          /\ Goto(r, "idle")
          /\ UNCHANGED <<session, display, streamThread, streamStop, refreshThread>>
       \/ /\ session = "stopping" /\ Reclaimed
          /\ session' = "stopped" /\ display' = "closed"
          /\ streamThread' = None /\ streamStop' = None /\ refreshThread' = None
          /\ Goto(r, "record")
    /\ UNCHANGED <<generation, sessionStop, client, log, stream, seen,
                   mine, left>>

RecordStop(r) ==
    /\ pc[r] = "record"
    /\ log' = IF log = "open" THEN "closed" ELSE log
    /\ Goto(r, "idle")
    /\ UNCHANGED <<observer, client, stream, seen, mine, left>>
-----------------------------------------------------------------------------
(* DragonClient.stream_events, in the thread of generation g               *)

Move(g, label) == at' = [at EXCEPT ![g] = label]

\* Mutant: the state of any generation is shown.
ShowAny(g, state) == display' = state

\* Observer._on_sse_state
Show(g, state) == display' = IF g = generation THEN state ELSE display

\* The permit is back; what is left depends on why the stream ends.
Leave(g, why) ==
    /\ reason' = [reason EXCEPT ![g] = why]
    /\ Move(g, IF why = "error" THEN "failing" ELSE "leaving")

\* Steps of the stream that touch nothing of the observer.
Private == UNCHANGED <<observer, client, log, stopSet, caller>>
Shown == UNCHANGED <<session, generation, streamThread, streamStop,
                     refreshThread, sessionStop, client, log, stopSet, caller>>

Connecting(g) ==
    /\ at[g] = "begin"
    /\ \/ ~Refused /\ Show(g, "connecting") /\ Move(g, "budget")
       \/ Refused /\ Move(g, "ended") /\ UNCHANGED display
    /\ UNCHANGED reason
    /\ Shown

\* A permit, or TimeoutError.
LeaseStream(g) ==
    /\ at[g] = "budget"
    /\ \/ Active < Limit /\ Move(g, "opening") /\ UNCHANGED reason
       \/ Leave(g, IF g \in stopSet THEN "stopped" ELSE "error")
    /\ Private

\* The device answers, refuses with a status, or fails.
Open(g) ==
    /\ at[g] = "opening"
    /\ \/ /\ Move(g, "opened") /\ UNCHANGED <<reason, display>>
       \/ /\ Leave(g, IF Refused THEN "error" ELSE "unavailable")
          /\ IF Refused THEN UNCHANGED display ELSE Show(g, "unavailable")
       \/ /\ Leave(g, IF g \in stopSet THEN "stopped" ELSE "error")
          /\ UNCHANGED display
    /\ Shown

CheckStop(g) ==
    /\ at[g] = "opened"
    /\ IF g \in stopSet THEN Leave(g, "stopped")
       ELSE Move(g, "register") /\ UNCHANGED reason
    /\ Private

Register(g) ==
    /\ at[g] = "register"
    /\ response' = g
    /\ Move(g, "announce")
    /\ UNCHANGED <<observer, shut, log, stopSet, reason, caller>>

Announce(g) ==
    /\ at[g] = "announce"
    /\ \/ ~Refused /\ Show(g, "open") /\ Move(g, "check") /\ UNCHANGED reason
       \/ Refused /\ Leave(g, "error") /\ UNCHANGED display
    /\ Shown

\* The head of the loop of _iter_sse.
ReadLine(g) ==
    /\ at[g] = "check"
    /\ IF g \in stopSet THEN Leave(g, "stopped")
       ELSE Move(g, "reading") /\ UNCHANGED reason
    /\ Private

\* The device sends a line.  An event that it completes is recorded, unless
\* the stream is to stop.
Event(g) ==
    /\ at[g] = "reading" /\ g \notin shut
    /\ \/ Move(g, "check") /\ UNCHANGED reason
       \/ g \in stopSet /\ Leave(g, "stopped")
       \/ g \notin stopSet /\ Refused /\ Leave(g, "error")
    /\ Private

\* The device closes the connection, or it breaks.
Hangup(g) ==
    /\ at[g] = "reading" /\ g \notin shut
    /\ \E why \in {"end_of_stream", "error"} :
          Leave(g, IF g \in stopSet THEN "stopped" ELSE why)
    /\ Private

\* The read of a socket that was shut down ends.
ReadShut(g) ==
    /\ at[g] = "reading" /\ g \in shut
    /\ \E why \in {"end_of_stream", "error"} :
          Leave(g, IF g \in stopSet THEN "stopped" ELSE why)
    /\ Private

\* The error of a stream that was not stopped is shown ...
Failing(g) ==
    /\ at[g] = "failing"
    /\ IF Refused THEN UNCHANGED display ELSE Show(g, "error")
    /\ Move(g, "leaving")
    /\ UNCHANGED reason
    /\ Shown

\* ... and the finally clause clears the registration.
Unregister(g) ==
    /\ at[g] = "leaving"
    /\ response' = None
    /\ Move(g, "closing")
    /\ UNCHANGED <<observer, shut, log, stopSet, reason, caller>>

Closed(g) ==
    /\ at[g] = "closing"
    /\ IF Refused THEN UNCHANGED display
       ELSE Show(g, IF reason[g] = "end_of_stream" THEN "closed" ELSE reason[g])
    /\ Move(g, "ended")
    /\ reason' = [reason EXCEPT ![g] = "error"]
    /\ Shown
-----------------------------------------------------------------------------
\* Storing a record failed: a failed session refuses every later one.
StorageFails ==
    /\ log = "open"
    /\ log' = "closed"
    /\ UNCHANGED <<observer, client, stream, caller>>

StopEvents(c) ==
    \/ ReadStream(c) \/ CheckAlive(c) \/ SignalStop(c) \/ CloseStream(c)
    \/ JoinStream(c) \/ JoinTimeout(c) \/ ForgetStream(c)
ReconnectEvents(c) == NewGeneration(c) \/ PublishThread(c) \/ StartThread(c)
Worker(w) ==
    \/ NextEndpoint(w) \/ LeaseFetch(w) \/ Fetched(w) \/ Observe(w)
    \/ Connect(w)
Request(r) ==
    \/ Refresh(r) \/ LaunchWorker(r) \/ Stop(r) \/ Halt(r) \/ AwaitWorker(r)
    \/ FinishStop(r) \/ RecordStop(r)

\* What a stream thread does by itself, within the timeouts of the client.
StreamThread(g) ==
    \/ Connecting(g) \/ LeaseStream(g) \/ Open(g) \/ CheckStop(g)
    \/ Register(g) \/ Announce(g) \/ ReadLine(g) \/ ReadShut(g)
    \/ Failing(g) \/ Unregister(g) \/ Closed(g)
Device(g) == Event(g) \/ Hangup(g)

CallerStep(c) ==
    \/ StopEvents(c) \/ ReconnectEvents(c)
    \/ c \in Workers /\ Worker(c)
    \/ c \in Requests /\ Request(c)

Next ==
    /\ \/ \E r \in Requests, method \in Methods : Begin(r, method)
       \/ \E c \in Callers : CallerStep(c)
       \/ \E g \in Streams : StreamThread(g) \/ Device(g)
       \/ StorageFails
    /\ UNCHANGED overlap

\* Threads run, and every wait inside them has a timeout, except the read of
\* an open stream: the device owes no event.  The page polls the snapshot.
Fairness ==
    /\ \A c \in Callers : WF_vars(CallerStep(c) /\ UNCHANGED overlap)
    /\ \A g \in Streams : WF_vars(StreamThread(g) /\ UNCHANGED overlap)
    /\ \A r \in Requests : SF_vars(Begin(r, "snapshot") /\ UNCHANGED overlap)

Spec == Init /\ [][Next]_vars
FairSpec == Spec /\ Fairness
-----------------------------------------------------------------------------
TypeOK ==
    /\ session \in {"starting", "observing", "stopping", "stopped"}
    /\ display \in EndStates \union {"not_connected", "connecting", "open"}
    /\ generation \in 0..MaxStreams
    /\ {streamThread, streamStop, response} \subseteq Streams \union {None}
    /\ refreshThread \in Workers \union {None}
    /\ sessionStop \in BOOLEAN /\ log \in {"memory", "open", "closed"}
    /\ shut \subseteq Streams /\ stopSet \subseteq Streams
    /\ left \in [Workers -> 0..Endpoints]
    /\ seen \in [Callers -> (Streams \union {None}) \X (Streams \union {None})]
    /\ Active <= Limit

OneStream == Cardinality(Holding) <= 1

StoppedReclaimed == session = "stopped" => Active = 0

\* The type invariant; and, of an operator who waits for each answer: at most
\* one stream has a connection permit, however long an old one takes to end
\* ("holds one Dragon SSE stream"), and a session that says it stopped holds
\* no connection to the device any more (_finish_stop_if_complete).
SessionInv == TypeOK /\ (~overlap => OneStream /\ StoppedReclaimed)

StopReachesAll ==
    sessionStop /\ (\A c \in Callers : Resting(c)) =>
        \A g \in Streams : StreamAlive(g) => g \in stopSet

\* "Explicit Stop or Reconnect closes the socket": once stop() has returned to
\* an operator who waits for each answer, no stream is left that nobody told
\* to stop.
StopClosesSocket == ~overlap => StopReachesAll

\* The same of requests that overlap, as the document states it.
StopAlwaysClosesSocket == StopReachesAll

\* When the newest stream has ended, what the page shows is an end state,
\* whatever older streams and late timeouts report after it, also when
\* requests overlap (_on_sse_state, stop_events).
DisplaySettles ==
    /\ ~Refused /\ generation > 0
    /\ at[generation] = "ended"
    => display \in EndStates

\* A stop is final: no worker that ends late reopens the session, also when
\* requests overlap (_refresh_worker).
StopIsFinal == [][Stopping => Stopping']_vars

\* A session that is stopping is stopped in the end, when the operator waits
\* for each answer, although the device stays silent (stop, snapshot).
StopCompletes == ~overlap /\ session = "stopping" ~> session = "stopped"
=============================================================================
