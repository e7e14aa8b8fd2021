------------------------ MODULE ObserverSessionProofs ------------------------
(***************************************************************************)
(* Proofs about ObserverSession, for any finite set of handler threads and *)
(* any numbers of workers, streams, endpoints and permits.                 *)
(*                                                                         *)
(* SessionIInv is the inductive invariant.  Its first part holds of any    *)
(* requests: where a caller can be in its method, and that generations are *)
(* made one by one.  Its second part, Sequential, is about an operator who *)
(* waits for each answer: one lead at a time does something, what it read  *)
(* of the stream is still so, and the threads that run are the ones the    *)
(* observer knows.                                                         *)
(***************************************************************************)
EXTENDS ObserverSession, FiniteSetTheorems, TLAPS

StopLabels == {"read", "alive", "signal", "close", "join", "forget"}
OpenLabels == {"new", "publish", "start"}
RequestLabels ==
    {"idle", "refresh", "launch", "stop", "halt", "await", "finish", "record"}
        \union StopLabels \union OpenLabels
WorkerLabels ==
    {"none", "made", "head", "budget", "fetching", "observe", "connect", "dead"}
        \union StopLabels \union OpenLabels
StreamLabels ==
    {"none", "made", "begin", "budget", "opening", "opened", "register", "announce",
     "check", "reading", "failing", "leaving", "closing", "ended"}
Reasons == {"stopped", "error", "unavailable", "end_of_stream"}

\* The types of the variables, those of the histories of the threads included.
Types ==
    /\ session \in {"starting", "observing", "stopping", "stopped"}
    /\ display \in EndStates \union {"not_connected", "connecting", "open"}
    /\ generation \in 0..MaxStreams
    /\ {streamThread, streamStop, response} \subseteq Streams \union {None}
    /\ refreshThread \in Workers \union {None}
    /\ sessionStop \in BOOLEAN /\ log \in {"memory", "open", "closed"}
    /\ shut \subseteq Streams /\ stopSet \subseteq Streams
    /\ at \in [Streams -> StreamLabels] /\ reason \in [Streams -> Reasons]
    /\ pc \in [Callers -> RequestLabels \union WorkerLabels]
    /\ job \in [Callers -> Methods \union {"none"}]
    /\ seen \in [Callers -> (Streams \union {None}) \X (Streams \union {None})]
    /\ mine \in [Callers -> Streams \union Workers \union {None}]
    /\ left \in [Workers -> 0..Endpoints]
    /\ overlap \in BOOLEAN

\* Where a caller can be in the method it runs.
Path(c) ==
    /\ job[c] = "none" <=> Resting(c)
    /\ c \in Requests => pc[c] \in RequestLabels
    /\ c \in Workers =>
          /\ pc[c] \in WorkerLabels /\ job[c] \in {"none", "refresh", "reconnect_events"}
          /\ pc[c] \in {"budget", "fetching"} => left[c] # 0
          /\ c = 1 => pc[c] # "none" /\ job[c] # "refresh"
          /\ c # 1 => job[c] # "reconnect_events"
    /\ pc[c] \in StopLabels => job[c] \in {"stop", "stop_events", "reconnect_events"}
    /\ pc[c] \in OpenLabels \union {"connect"} => job[c] = "reconnect_events"
    /\ pc[c] \in {"refresh", "launch", "made"} => job[c] = "refresh"
    /\ pc[c] \in {"stop", "halt"} => job[c] = "stop"
    /\ pc[c] \in {"publish", "start"} => mine[c] \in 1..generation
    /\ pc[c] \in {"refresh", "launch"} => ~overlap
    /\ pc[c] = "signal" => seen[c][2] # None

Paths == \A c \in Callers : Path(c)

\* The callers that have yet to make the generation they are to connect.
Pending == {c \in Callers : job[c] = "reconnect_events" /\ pc[c] \notin {"publish", "start"}}

\* Generations are made one by one, and there is room for those to come.
Generations ==
    /\ generation + Cardinality(Pending) <= MaxStreams
    /\ \A g \in Streams : g > generation => at[g] = "none"

\* The requests and the worker of the first connection.
Leads == Requests \union {1}

\* All of them but one rest.
Alone(c) == \A d \in Leads \ {c} : Resting(d)

\* One of them at a time does something.
OneLead == \A c \in Leads : Resting(c) \/ Alone(c)

\* The threads that run are the ones the observer knows.
Threads ==
    /\ \A w \in Workers : WorkerAlive(w) => w = refreshThread
    /\ \A g \in Streams : StreamAlive(g) => g = streamThread

\* What a caller read of the stream is still so.
View(c) ==
    /\ pc[c] \in StopLabels \ {"read"} => seen[c] = <<streamThread, streamStop>>
    /\ pc[c] = "forget" => ~StreamAlive(streamThread)
    /\ pc[c] \in {"new", "publish"} => streamThread = None
    /\ pc[c] = "start" => streamThread = mine[c]
    /\ pc[c] \in {"publish", "start"} => ~Stopping /\ streamStop = mine[c]
    /\ pc[c] = "launch" => /\ ~Stopping /\ mine[c] = refreshThread
                           /\ mine[c] \in Workers /\ pc[mine[c]] = "made"
    /\ pc[c] = "halt" => Stopping

Views ==
    /\ \A c \in Callers : View(c)
    /\ (\A c \in Callers : pc[c] # "publish") => streamStop = streamThread

\* What stop() has done, and what it leaves.
Halting ==
    /\ sessionStop => Stopping
    /\ sessionStop =>
          \/ \E r \in Requests : job[r] = "stop" /\ pc[r] \in {"read", "alive", "signal"}
          \/ \A g \in Streams : StreamAlive(g) => g \in stopSet
    /\ session = "stopped" =>
          /\ \A g \in Streams : ~StreamAlive(g)
          /\ \A w \in Workers : ~WorkerAlive(w)

Sequential == ~overlap => OneLead /\ Threads /\ Views /\ Halting

SessionIInv ==
    /\ Types /\ Paths /\ Generations /\ Active <= Limit /\ DisplaySettles
    /\ Sequential
-----------------------------------------------------------------------------
\* Workers and streams are numbered, requests are something else.
LEMMA Constants ==
    /\ None \notin Workers /\ None \notin Streams
    /\ 1 \in Workers /\ 1 \notin Requests /\ Workers \subseteq Nat /\ Streams \subseteq Nat
    /\ \A r \in Requests : r \notin Workers
    /\ IsFiniteSet(Workers) /\ IsFiniteSet(Streams) /\ IsFiniteSet(Callers)
    /\ MaxStreams \in Nat \ {0} /\ Streams = 1..MaxStreams /\ Endpoints \in Nat /\ Limit \in Nat \ {0}
<1>1. MaxStreams \in Nat \ {0} /\ MaxWorkers \in Nat \ {0}
    BY ObserverConstants
<1>2. IsFiniteSet(Workers) /\ IsFiniteSet(Streams)
    BY <1>1, FS_Interval DEF Workers, Streams
<1>3. IsFiniteSet(Callers)
    BY <1>2, ObserverConstants, FS_Union DEF Callers
<1>4. 1 \in Workers /\ Workers \subseteq Nat /\ Streams \subseteq Nat
    BY <1>1 DEF Workers, Streams
<1>. QED  BY <1>1, <1>2, <1>3, <1>4, ObserverConstants DEF Streams

\* The workers that hold a permit of the budget.
Fetching == {w \in Workers : pc[w] = "fetching"}

\* The permits in use are a number.
LEMMA ActiveIs ==
    /\ Active = Cardinality(Holding) + Cardinality(Fetching)
    /\ IsFiniteSet(Holding) /\ IsFiniteSet(Fetching)
    /\ Cardinality(Holding) \in Nat /\ Cardinality(Fetching) \in Nat
<1>1. Holding \subseteq Streams /\ Fetching \subseteq Workers
    BY DEF Holding, Fetching
<1>2. IsFiniteSet(Holding) /\ IsFiniteSet(Fetching)
    BY <1>1, Constants, FS_Subset
<1>. QED  BY <1>2, FS_CardinalityType DEF Active, Fetching

\* As many permits are in use after a step that takes none.
LEMMA PermitsKept ==
    ASSUME Active <= Limit, Holding' \subseteq Holding, Fetching' \subseteq Fetching
    PROVE  (Active <= Limit)'
<1>1. /\ Active' = Cardinality(Holding') + Cardinality(Fetching')
      /\ Cardinality(Holding') \in Nat /\ Cardinality(Fetching') \in Nat
    <2>1. Holding' \subseteq Streams /\ Fetching' \subseteq Workers
        BY ActiveIs DEF Holding, Fetching
    <2>2. IsFiniteSet(Holding') /\ IsFiniteSet(Fetching')
        BY <2>1, Constants, FS_Subset
    <2>. QED  BY <2>2, FS_CardinalityType DEF Active, Fetching
<1>2. Cardinality(Holding') <= Cardinality(Holding) /\ Cardinality(Fetching') <= Cardinality(Fetching)
    BY ActiveIs, FS_Subset
<1>. QED  BY <1>1, <1>2, ActiveIs, Constants

\* The limit holds after a step that takes one permit while one is left.
LEMMA PermitTaken ==
    ASSUME Active < Limit, NEW x,
           \/ Holding' \subseteq Holding \union {x} /\ Fetching' \subseteq Fetching
           \/ Holding' \subseteq Holding /\ Fetching' \subseteq Fetching \union {x}
    PROVE  (Active <= Limit)'
<1>1. /\ Active' = Cardinality(Holding') + Cardinality(Fetching')
      /\ Cardinality(Holding') \in Nat /\ Cardinality(Fetching') \in Nat
    <2>1. Holding' \subseteq Streams /\ Fetching' \subseteq Workers
        BY DEF Holding, Fetching
    <2>2. IsFiniteSet(Holding') /\ IsFiniteSet(Fetching')
        BY <2>1, Constants, FS_Subset
    <2>. QED  BY <2>2, FS_CardinalityType DEF Active, Fetching
<1>2. ASSUME NEW S, IsFiniteSet(S), NEW T, T \subseteq S \union {x}
      PROVE  Cardinality(T) <= Cardinality(S) + 1
    <2>0. /\ IsFiniteSet(S \union {x}) /\ Cardinality(S) \in Nat
          /\ Cardinality(S \union {x}) \in {Cardinality(S), Cardinality(S) + 1}
        BY <1>2, FS_AddElement, FS_CardinalityType
    <2>1. /\ IsFiniteSet(S \union {x})
          /\ Cardinality(S \union {x}) <= Cardinality(S) + 1
          /\ Cardinality(S \union {x}) \in Nat
        BY <2>0
    <2>2. Cardinality(T) <= Cardinality(S \union {x}) /\ Cardinality(T) \in Nat
        BY <1>2, <2>1, FS_Subset, FS_CardinalityType
    <2>. QED  BY <1>2, <2>1, <2>2, FS_CardinalityType
<1>3. CASE Holding' \subseteq Holding \union {x} /\ Fetching' \subseteq Fetching
    <2>1. Cardinality(Holding') <= Cardinality(Holding) + 1
        BY <1>2, <1>3, ActiveIs
    <2>2. Cardinality(Fetching') <= Cardinality(Fetching)
        BY <1>3, ActiveIs, FS_Subset
    <2>. QED  BY <1>1, <2>1, <2>2, ActiveIs, Constants
<1>4. CASE Holding' \subseteq Holding /\ Fetching' \subseteq Fetching \union {x}
    <2>1. Cardinality(Fetching') <= Cardinality(Fetching) + 1
        BY <1>2, <1>4, ActiveIs
    <2>2. Cardinality(Holding') <= Cardinality(Holding)
        BY <1>4, ActiveIs, FS_Subset
    <2>. QED  BY <1>1, <2>1, <2>2, ActiveIs, Constants
<1>. QED  BY <1>3, <1>4

\* There is room for the generations to come after a step that makes none and
\* lets no caller ask for one.
LEMMA RoomKept ==
    ASSUME Types, Generations, Pending' \subseteq Pending, generation' = generation,
           \A g \in Streams : g > generation /\ at[g] = "none" => at'[g] = "none"
    PROVE  Generations'
<1>1. IsFiniteSet(Pending)
    <2>1. Pending \subseteq Callers
        BY DEF Pending
    <2>. QED  BY <2>1, Constants, FS_Subset
<1>2. /\ Cardinality(Pending') <= Cardinality(Pending)
      /\ Cardinality(Pending') \in Nat /\ Cardinality(Pending) \in Nat
    BY <1>1, FS_Subset, FS_CardinalityType
<1>3. generation \in Nat
    BY Constants DEF Types
<1>. QED  BY <1>2, <1>3, Constants DEF Generations

\* Where the methods of a lead leave a caller.
LEMMA LeadOf ==
    ASSUME NEW c \in Callers, Path(c),
           pc[c] \in StopLabels \union OpenLabels \union {"connect"}
    PROVE  c \in Leads /\ ~Resting(c)
BY DEF Path, StopLabels, OpenLabels, Leads, Callers, Resting

\* While one lead does something, the other callers are in no method of a lead.
LEMMA AloneViews ==
    ASSUME Paths, NEW c \in Leads, Alone(c), NEW d \in Callers, d # c
    PROVE  pc[d] \notin StopLabels \union OpenLabels \union {"refresh", "launch", "halt"}
<1>1. Path(d)
    BY DEF Paths
<1>2. CASE d \in Leads
    BY <1>2 DEF Alone, Resting, StopLabels, OpenLabels
<1>3. CASE d \notin Leads
    BY <1>1, <1>3 DEF Path, Leads, Callers, StopLabels, OpenLabels, WorkerLabels
<1>. QED  BY <1>2, <1>3

\* A step of the only lead that does something keeps what the others know.
LEMMA LeadKeeps ==
    ASSUME Paths, NEW c \in Leads, Alone(c), View(c)',
           \A d \in Callers \ {c} :
              pc'[d] = pc[d] \/ (d \notin Leads /\ pc'[d] \in {"made", "head"})
    PROVE  OneLead' /\ \A d \in Callers : View(d)'
<1>1. OneLead'
    <2>1. ASSUME NEW d \in Leads, d # c PROVE Resting(d)'
        <3>1. d \in Callers /\ Resting(d)
            BY <2>1, Constants DEF Alone, Leads, Callers
        <3>2. pc'[d] = pc[d]
            BY <2>1, <3>1
        <3>. QED  BY <3>1, <3>2 DEF Resting
    <2>. QED  BY <2>1 DEF OneLead, Alone
<1>2. ASSUME NEW d \in Callers, d # c
      PROVE  View(d)'
    <2>1. pc'[d] \notin StopLabels \union OpenLabels \union {"refresh", "launch", "halt"}
        BY <1>2, AloneViews DEF StopLabels, OpenLabels
    <2>. QED  BY <2>1 DEF View, StopLabels, OpenLabels
<1>. QED  BY <1>1, <1>2
-----------------------------------------------------------------------------
(* The stream threads.                                                     *)

Displays == EndStates \union {"not_connected", "connecting", "open"}
Held == {"opening", "opened", "register", "announce", "check", "reading"}

\* What a step of the thread of stream g may do.
StreamEffect(g) ==
    /\ UNCHANGED <<session, generation, streamThread, streamStop, refreshThread,
                   sessionStop, shut, log, stopSet, caller>>
    /\ StreamAlive(g)
    /\ \A f \in Streams \ {g} : at'[f] = at[f]
    /\ at'[g] \notin {"none", "made"}
    /\ at' \in [Streams -> StreamLabels] /\ reason' \in [Streams -> Reasons]
    /\ response' \in Streams \union {None} /\ display' \in Displays
    /\ at'[g] \in Held => at[g] \in Held \/ Active < Limit
    /\ g # generation => display' = display
    /\ g = generation /\ at'[g] = "ended" /\ ~Refused => display' \in EndStates

\* Every action of a stream thread, and of the device, does that.
LEMMA StreamEffects ==
    ASSUME Types, NEW g \in Streams, StreamThread(g) \/ Device(g)
    PROVE  StreamEffect(g)
<1>. USE DEF Types, StreamEffect, StreamAlive, Held, Shown, Private, Move, Leave, Show,
             observer, client, stream, caller, StreamLabels, Reasons, Displays, EndStates
<1>0. g # None
    BY Constants
<1>1. CASE Connecting(g)
    BY <1>0, <1>1 DEF Connecting
<1>2. CASE LeaseStream(g)
    BY <1>0, <1>2 DEF LeaseStream
<1>3. CASE Open(g)
    BY <1>0, <1>3 DEF Open
<1>4. CASE CheckStop(g)
    BY <1>0, <1>4 DEF CheckStop
<1>5. CASE Register(g)
    BY <1>0, <1>5 DEF Register
<1>6. CASE Announce(g)
    BY <1>0, <1>6 DEF Announce
<1>7. CASE ReadLine(g)
    BY <1>0, <1>7 DEF ReadLine
<1>8. CASE ReadShut(g)
    BY <1>0, <1>8 DEF ReadShut
<1>9. CASE Unregister(g)
    BY <1>0, <1>9 DEF Unregister
<1>13. CASE Failing(g)
    BY <1>0, <1>13 DEF Failing
<1>10. CASE Closed(g)
    BY <1>0, <1>10 DEF Closed
<1>11. CASE Event(g)
    BY <1>0, <1>11 DEF Event
<1>12. CASE Hangup(g)
    BY <1>0, <1>12 DEF Hangup
<1>. QED  BY <1>1, <1>2, <1>3, <1>4, <1>5, <1>6, <1>7, <1>8, <1>9, <1>10, <1>11, <1>12,
             <1>13 DEF StreamThread, Device

\* The steps of the streams keep the invariant.
LEMMA StreamStep ==
    ASSUME SessionIInv, NEW g \in Streams, StreamThread(g) \/ Device(g), overlap' = overlap
    PROVE  SessionIInv'
<1>0. Types /\ Paths /\ Generations /\ Active <= Limit /\ DisplaySettles /\ Sequential
    BY DEF SessionIInv
<1>. USE DEF caller
<1>1. StreamEffect(g)
    BY <1>0, StreamEffects
<1>2. Types'
    BY <1>0, <1>1 DEF StreamEffect, Types, Displays
<1>3. Paths'
    BY <1>0, <1>1 DEF StreamEffect, Paths, Path, Resting
<1>4. Generations'
    <2>1. Pending' = Pending
        BY <1>1 DEF StreamEffect, Pending
    <2>2. at[g] # "none"
        BY <1>1 DEF StreamEffect, StreamAlive
    <2>. QED  BY <1>0, <1>1, <2>1, <2>2, RoomKept DEF StreamEffect
<1>5. (Active <= Limit)'
    <2>1. Fetching' = Fetching
        BY <1>1 DEF StreamEffect, Fetching
    <2>2. CASE at'[g] \in Held => at[g] \in Held
        <3>1. Holding' \subseteq Holding
            BY <1>1, <2>2 DEF StreamEffect, Holding, Held
        <3>. QED  BY <1>0, <2>1, <3>1, PermitsKept
    <2>3. CASE Active < Limit
        <3>1. Holding' \subseteq Holding \union {g}
            BY <1>1 DEF StreamEffect, Holding, Held
        <3>. QED  BY <2>1, <2>3, <3>1, PermitTaken
    <2>. QED  BY <1>1, <2>2, <2>3 DEF StreamEffect
<1>6. DisplaySettles'
    <2>1. CASE g = generation
        BY <1>1, <2>1 DEF StreamEffect, DisplaySettles, Refused
    <2>2. CASE g # generation
        <3>1. /\ display' = display /\ generation' = generation /\ log' = log
              /\ generation \in Streams => at'[generation] = at[generation]
            BY <1>1, <2>2 DEF StreamEffect
        <3>2. generation > 0 => generation \in Streams
            BY <1>0, Constants DEF Types
        <3>. QED  BY <1>0, <3>1, <3>2 DEF DisplaySettles, Refused
    <2>. QED  BY <2>1, <2>2
<1>7. Sequential'
    <2>. SUFFICES ASSUME ~overlap PROVE OneLead' /\ Threads' /\ Views' /\ Halting'
        BY DEF Sequential
    <2>0. OneLead /\ Threads /\ Views /\ Halting
        BY <1>0 DEF Sequential
    <2>1. \A f : StreamAlive(f)' /\ f \in Streams => StreamAlive(f)
        BY <1>1 DEF StreamEffect, StreamAlive
    <2>2. OneLead'
        BY <1>1, <2>0 DEF StreamEffect, OneLead, Alone, Resting
    <2>3. Threads'
        BY <1>1, <2>0, <2>1 DEF StreamEffect, Threads, WorkerAlive
    <2>4. Views'
        <3>1. ~StreamAlive(streamThread) => ~StreamAlive(streamThread)'
            <4>1. streamThread' = streamThread /\ streamThread \in Streams \union {None}
                BY <1>0, <1>1 DEF StreamEffect, Types
            <4>. QED  BY <2>1, <4>1 DEF StreamAlive
        <3>. QED  BY <1>1, <2>0, <3>1 DEF StreamEffect, Views, View, Stopping
    <2>5. Halting'
        BY <1>1, <2>0, <2>1 DEF StreamEffect, Halting, Stopping, WorkerAlive
    <2>. QED  BY <2>2, <2>3, <2>4, <2>5
<1>. QED  BY <1>2, <1>3, <1>4, <1>5, <1>6, <1>7 DEF SessionIInv
-----------------------------------------------------------------------------
(* The callers.                                                            *)

\* What most steps of a caller have in common.
CallerEffect(c) ==
    /\ generation' = generation /\ overlap' = overlap
    /\ log' = log \/ log' = "closed"
    /\ display' = display \/ display' \in EndStates
    /\ \/ at' = at
       \/ mine[c] \in 1..generation /\ \E l \in {"made", "begin"} : at' = [at EXCEPT ![mine[c]] = l]
    /\ \A d \in Callers \ {c} : /\ pc'[d] = pc[d] /\ job'[d] = job[d] /\ mine'[d] = mine[d]
                                /\ seen'[d] = seen[d]
                                /\ d \in Workers => left'[d] = left[d]
    /\ c \in Pending' => c \in Pending
    /\ c \in Fetching' => c \in Fetching \/ Active < Limit

\* Such a step keeps what holds whether requests overlap or not.
LEMMA GeneralKept ==
    ASSUME SessionIInv, NEW c \in Callers, CallerEffect(c), Types', Path(c)'
    PROVE  Paths' /\ Generations' /\ (Active <= Limit)' /\ DisplaySettles'
<1>0. Types /\ Paths /\ Generations /\ Active <= Limit /\ DisplaySettles
    BY DEF SessionIInv
<1>. USE DEF CallerEffect
<1>1. \A d \in Callers \ {c} : Path(d)'
    <2>. SUFFICES ASSUME NEW d \in Callers \ {c} PROVE Path(d)'
        OBVIOUS
    <2>1. /\ pc'[d] = pc[d] /\ job'[d] = job[d] /\ mine'[d] = mine[d] /\ seen'[d] = seen[d]
          /\ d \in Workers => left'[d] = left[d]
          /\ generation' = generation /\ overlap' = overlap /\ Path(d)
        BY <1>0 DEF Paths
    <2>. HIDE DEF CallerEffect
    <2>. QED  BY <2>1 DEF Path, Resting
<1>2. \A g \in Streams : g > generation /\ at[g] = "none" => at'[g] = "none"
    <2>1. CASE at' = at
        BY <2>1
    <2>2. CASE mine[c] \in 1..generation /\ \E l \in {"made", "begin"} : at' = [at EXCEPT ![mine[c]] = l]
        <3>1. /\ at \in [Streams -> StreamLabels] /\ generation \in Nat /\ Streams \subseteq Nat
              /\ \A g \in Streams : g > generation => g # mine[c]
            BY <1>0, <2>2, Constants DEF Types
        <3>. QED  BY <2>2, <3>1
    <2>. QED  BY <2>1, <2>2
<1>3. Pending' \subseteq Pending
    <2>1. \A d \in Callers \ {c} : d \in Pending' => d \in Pending
        BY DEF Pending
    <2>2. Pending' \subseteq Callers
        BY DEF Pending
    <2>. QED  BY <2>1, <2>2
<1>4. Generations'
    BY <1>0, <1>2, <1>3, RoomKept
<1>5. (Active <= Limit)'
    <2>1. Holding' \subseteq Holding
        <3>1. /\ at \in [Streams -> StreamLabels]
              /\ \/ at' = at
                 \/ \E l \in {"made", "begin"} : at' = [at EXCEPT ![mine[c]] = l]
            BY <1>0 DEF Types
        <3>2. \A g \in Streams : at'[g] \in {at[g], "made", "begin"}
            <4>. HIDE DEF CallerEffect
            <4>. QED  BY <3>1
        <3>. HIDE DEF CallerEffect
        <3>. QED  BY <3>2 DEF Holding
    <2>2. \A d \in Fetching' : d # c => d \in Fetching
        BY DEF Fetching, Callers
    <2>3. CASE c \in Fetching' => c \in Fetching
        <3>1. Fetching' \subseteq Fetching
            BY <2>2, <2>3
        <3>. QED  BY <1>0, <2>1, <3>1, PermitsKept
    <2>4. CASE Active < Limit
        <3>1. Fetching' \subseteq Fetching \union {c}
            BY <2>2
        <3>. QED  BY <2>1, <2>4, <3>1, PermitTaken
    <2>. QED  BY <2>3, <2>4
<1>6. DisplaySettles'
    <2>. SUFFICES ASSUME ~Refused', generation' > 0, at'[generation'] = "ended"
                  PROVE  display' \in EndStates
        BY DEF DisplaySettles
    <2>1. generation \in Streams /\ generation > 0 /\ generation' = generation
        BY <1>0, Constants DEF Types
    <2>2. ~Refused
        BY DEF Refused
    <2>3. at[generation] = "ended"
        <3>1. at \in [Streams -> StreamLabels] /\ at'[generation] = "ended"
            BY <1>0, <2>1 DEF Types
        <3>. QED  BY <2>1, <3>1
    <2>4. display \in EndStates
        BY <1>0, <2>1, <2>2, <2>3 DEF DisplaySettles
    <2>. QED  BY <2>4
<1>. QED  BY <1>1, <1>4, <1>5, <1>6 DEF Paths

\* A step of a worker on its way through the endpoints keeps what holds of
\* requests that do not overlap.
LEMMA WorkerKeeps ==
    ASSUME Types, Paths, OneLead, Threads, Views, Halting,
           NEW w \in Workers, pc[w] \in {"head", "budget", "fetching", "observe"},
           pc'[w] \in {"head", "budget", "fetching", "observe", "connect", "dead"},
           \A d \in Callers \ {w} : pc'[d] = pc[d] /\ job'[d] = job[d],
           UNCHANGED <<streamThread, streamStop, refreshThread, sessionStop, at, stopSet,
                       seen, mine>>,
           session' = session \/ (~Stopping /\ session' = "observing")
    PROVE  OneLead' /\ Threads' /\ Views' /\ Halting'
<1>0. w \in Callers /\ w \notin Requests /\ w # None
    BY Constants DEF Callers
<1>1. OneLead'
    BY <1>0, Constants DEF OneLead, Alone, Resting, Leads, Callers
<1>2. \A v : v \in Workers /\ WorkerAlive(v)' => WorkerAlive(v)
    BY <1>0 DEF WorkerAlive, Callers
<1>3. \A g : StreamAlive(g)' <=> StreamAlive(g)
    BY DEF StreamAlive
<1>4. Threads'
    BY <1>2, <1>3 DEF Threads
<1>5. Stopping' = Stopping /\ (session' = "stopped" => session = "stopped")
    BY DEF Stopping
<1>6. Views'
    <2>1. \A d \in Callers : d # w => View(d)'
        <3>. SUFFICES ASSUME NEW d \in Callers, d # w PROVE View(d)'
            OBVIOUS
        <3>1. View(d) /\ pc'[d] = pc[d]
            BY DEF Views
        <3>2. pc[d] = "launch" => pc'[mine[d]] = "made"
            BY <1>0, <3>1 DEF View, Callers
        <3>. QED  BY <1>3, <1>5, <3>1, <3>2 DEF View
    <2>2. View(w)'
        BY <1>0 DEF View, StopLabels
    <2>3. (\A c \in Callers : pc'[c] # "publish") => \A c \in Callers : pc[c] # "publish"
        BY <1>0
    <2>. QED  BY <2>1, <2>2, <2>3 DEF Views
<1>7. Halting'
    <2>1. \A r \in Requests : pc'[r] = pc[r] /\ job'[r] = job[r]
        BY <1>0 DEF Callers
    <2>. QED  BY <1>2, <1>3, <1>5, <2>1 DEF Halting
<1>. QED  BY <1>1, <1>4, <1>6, <1>7
\* A worker on its way through the endpoints keeps the invariant.
LEMMA WorkerStep ==
    ASSUME SessionIInv, NEW w \in Workers, overlap' = overlap,
           NextEndpoint(w) \/ LeaseFetch(w) \/ Fetched(w) \/ Observe(w)
    PROVE  SessionIInv'
<1>0. Types /\ Paths /\ Sequential /\ Path(w) /\ w \in Callers /\ w \notin Requests
    BY Constants DEF SessionIInv, Paths, Callers
<1>. USE DEF Goto, caller, observer, client, stream
<1>1. /\ UNCHANGED <<display, generation, streamThread, streamStop, refreshThread,
                     sessionStop, response, shut, log, at, stopSet, reason, seen, mine>>
      /\ session' = session \/ (~Stopping /\ session' = "observing")
    BY DEF NextEndpoint, LeaseFetch, Fetched, Observe
<1>2. /\ pc[w] \in {"head", "budget", "fetching", "observe"}
      /\ \E l \in {"head", "budget", "fetching", "observe", "connect", "dead"} :
            /\ pc' = [pc EXCEPT ![w] = l]
            /\ job' = IF l = "dead" THEN [job EXCEPT ![w] = "none"] ELSE job
            /\ l = "budget" => left[w] # 0 /\ left' = left
            /\ l = "fetching" => Active < Limit /\ pc[w] = "budget" /\ left' = left
            /\ l = "connect" => job[w] = "reconnect_events"
    <2>1. CASE NextEndpoint(w)
        BY <2>1 DEF NextEndpoint
    <2>2. CASE LeaseFetch(w)
        BY <2>2 DEF LeaseFetch
    <2>3. CASE Fetched(w)
        BY <2>3 DEF Fetched
    <2>4. CASE Observe(w)
        BY <2>4 DEF Observe
    <2>. QED  BY <2>1, <2>2, <2>3, <2>4
<1>3. left' = left \/ (left[w] # 0 /\ left' = [left EXCEPT ![w] = @ - 1])
    BY <1>0 DEF NextEndpoint, LeaseFetch, Fetched, Observe, Path
<1>4. PICK l \in {"head", "budget", "fetching", "observe", "connect", "dead"} :
            /\ pc' = [pc EXCEPT ![w] = l]
            /\ job' = IF l = "dead" THEN [job EXCEPT ![w] = "none"] ELSE job
            /\ l = "budget" => left[w] # 0 /\ left' = left
            /\ l = "fetching" => Active < Limit /\ pc[w] = "budget" /\ left' = left
            /\ l = "connect" => job[w] = "reconnect_events"
    BY <1>2
<1>5. /\ pc'[w] = l /\ \A d \in Callers \ {w} : pc'[d] = pc[d]
      /\ job'[w] = IF l = "dead" THEN "none" ELSE job[w]
      /\ \A d \in Callers \ {w} : job'[d] = job[d]
      /\ left'[w] = left[w] \/ l \notin {"budget", "fetching"}
    BY <1>0, <1>4 DEF Types
<1>6. Types'
    <2>1. left' \in [Workers -> 0..Endpoints]
        BY <1>0, <1>3, Constants DEF Types
    <2>2. /\ pc' \in [Callers -> RequestLabels \union WorkerLabels]
          /\ job' \in [Callers -> Methods \union {"none"}]
        BY <1>0, <1>4 DEF Types, WorkerLabels
    <2>3. session' \in {"starting", "observing", "stopping", "stopped"}
        BY <1>0, <1>1 DEF Types
    <2>. QED  BY <1>0, <1>1, <2>1, <2>2, <2>3 DEF Types
<1>7. Path(w)'
    BY <1>0, <1>1, <1>2, <1>4, <1>5 DEF Path, Resting, WorkerLabels, StopLabels, OpenLabels
<1>8. CallerEffect(w)
    <2>1. w \in Pending' => w \in Pending
        BY <1>0, <1>2, <1>5 DEF Pending
    <2>2. w \in Fetching' => w \in Fetching \/ Active < Limit
        BY <1>4, <1>5 DEF Fetching
    <2>3. \A d \in Callers \ {w} : d \in Workers => left'[d] = left[d]
        BY <1>0, <1>3 DEF Types
    <2>. QED  BY <1>1, <1>5, <2>1, <2>2, <2>3 DEF CallerEffect
<1>9. Paths' /\ Generations' /\ (Active <= Limit)' /\ DisplaySettles'
    BY <1>0, <1>6, <1>7, <1>8, GeneralKept
<1>10. Sequential'
    <2>. SUFFICES ASSUME ~overlap PROVE OneLead' /\ Threads' /\ Views' /\ Halting'
        BY DEF Sequential
    <2>1. OneLead /\ Threads /\ Views /\ Halting
        BY <1>0 DEF Sequential
    <2>. QED  BY <1>0, <1>1, <1>2, <1>5, <2>1, WorkerKeeps
<1>. QED  BY <1>6, <1>9, <1>10 DEF SessionIInv
-----------------------------------------------------------------------------
(* The methods of the observer.                                            *)

\* A lead that does something is alone, and its step keeps the invariant when
\* it keeps what it knows, the threads and what stop() has done.
LEMMA LeadStep ==
    ASSUME SessionIInv, NEW c \in Leads, ~Resting(c), CallerEffect(c), Types', Path(c)',
           ~overlap /\ Alone(c) =>
              /\ View(c)' /\ Threads' /\ Halting'
              /\ pc'[c] # "publish" => streamStop' = streamThread'
    PROVE  SessionIInv'
<1>0. Paths /\ Sequential /\ c \in Callers
    BY Constants DEF SessionIInv, Leads, Callers
<1>1. Paths' /\ Generations' /\ (Active <= Limit)' /\ DisplaySettles'
    BY <1>0, GeneralKept
<1>2. Sequential'
    <2>. SUFFICES ASSUME ~overlap PROVE OneLead' /\ Threads' /\ Views' /\ Halting'
        BY DEF Sequential, CallerEffect
    <2>1. Alone(c)
        BY <1>0 DEF Sequential, OneLead
    <2>2. \A d \in Callers \ {c} : pc'[d] = pc[d]
        BY DEF CallerEffect
    <2>3. /\ View(c)' /\ Threads' /\ Halting'
          /\ pc'[c] # "publish" => streamStop' = streamThread'
        BY <2>1
    <2>4. OneLead' /\ \A d \in Callers : View(d)'
        BY <1>0, <2>1, <2>2, <2>3, LeadKeeps
    <2>. QED  BY <1>0, <2>3, <2>4 DEF Views
<1>. QED  BY <1>1, <1>2 DEF SessionIInv

\* A caller goes where the code sends it, and at its end runs no method.
LEMMA Gone ==
    ASSUME Types, NEW c \in Callers, NEW l \in RequestLabels \union WorkerLabels, Goto(c, l)
    PROVE  /\ pc' \in [Callers -> RequestLabels \union WorkerLabels]
           /\ job' \in [Callers -> Methods \union {"none"}]
           /\ pc'[c] = l
           /\ job'[c] = IF l \in {"idle", "dead"} THEN "none" ELSE job[c]
           /\ \A d \in Callers \ {c} : pc'[d] = pc[d] /\ job'[d] = job[d]
BY DEF Types, Goto

\* What the steps of a method do that leave the threads and the session alone.
QuietEffect(c) ==
    /\ UNCHANGED <<session, generation, streamThread, streamStop, refreshThread,
                   sessionStop, response, at, reason, mine, left, overlap>>
    /\ display' = display \/ display' = "error"
    /\ log' = log \/ (log = "open" /\ log' = "closed")
    /\ shut' \subseteq Streams /\ stopSet' \subseteq Streams /\ stopSet \subseteq stopSet'
    /\ seen' \in [Callers -> (Streams \union {None}) \X (Streams \union {None})]
    /\ \A d \in Callers \ {c} : seen'[d] = seen[d]
    /\ pc[c] \notin {"none", "made", "publish", "start", "launch", "idle", "dead"}
    /\ \E l \in (RequestLabels \union WorkerLabels) \ {"none", "made", "publish", "start"} :
          Goto(c, l)

\* Where the method goes from a place that such a step may leave.
QuietPath(c) ==
    /\ c \in Requests => pc'[c] \in RequestLabels
    /\ c \in Workers => pc'[c] \in WorkerLabels \ {"budget", "fetching"}
    /\ pc'[c] \in StopLabels => job[c] \in {"stop", "stop_events", "reconnect_events"}
    /\ pc'[c] \in OpenLabels => job[c] = "reconnect_events"
    /\ pc'[c] \notin {"refresh", "launch", "stop", "halt", "connect"}
    /\ pc'[c] = "signal" => seen'[c][2] # None

\* Such a place is one where the method can be.
LEMMA QuietPaths ==
    ASSUME Types, NEW c \in Leads, Path(c), QuietPath(c),
           NEW l \in (RequestLabels \union WorkerLabels) \ {"none", "made", "publish", "start"},
           Goto(c, l), pc[c] \notin {"none", "made", "publish", "start", "launch", "idle", "dead"}
    PROVE  Path(c)'
<1>0. c \in Callers
    BY Constants DEF Leads, Callers
<1>1. /\ pc'[c] = l
      /\ job'[c] = IF l \in {"idle", "dead"} THEN "none" ELSE job[c]
    BY <1>0, Gone
<1>2. /\ job'[c] = "none" <=> Resting(c)'
      /\ job'[c] \in {job[c], "none"} /\ job[c] # "none"
      /\ pc'[c] \in StopLabels \union OpenLabels => job'[c] = job[c]
    BY <1>1 DEF Path, Resting, StopLabels, OpenLabels
<1>3. c \in Workers =>
         /\ pc'[c] \in WorkerLabels /\ job'[c] \in {"none", "refresh", "reconnect_events"}
         /\ pc'[c] \notin {"budget", "fetching", "none"}
         /\ c = 1 => job'[c] # "refresh"
         /\ c # 1 => job'[c] # "reconnect_events"
    BY <1>1, <1>2 DEF Path, QuietPath
<1>4. /\ c \in Requests => pc'[c] \in RequestLabels
      /\ pc'[c] \in StopLabels => job'[c] \in {"stop", "stop_events", "reconnect_events"}
      /\ pc'[c] \in OpenLabels => job'[c] = "reconnect_events"
      /\ pc'[c] \notin {"refresh", "launch", "stop", "halt", "connect", "made", "publish", "start"}
      /\ pc'[c] = "signal" => seen'[c][2] # None
    BY <1>1, <1>2 DEF QuietPath
<1>. QED  BY <1>2, <1>3, <1>4 DEF Path

\* Such a step keeps the invariant when the method knows what it has read, and
\* when stop() goes on until each live stream is told to stop.
LEMMA QuietStep ==
    ASSUME SessionIInv, NEW c \in Leads, QuietEffect(c), QuietPath(c),
           ~overlap /\ Alone(c) =>
              /\ View(c)'
              /\ job[c] = "stop" /\ pc[c] \in {"read", "alive", "signal"} =>
                    \/ pc'[c] \in {"read", "alive", "signal"}
                    \/ \A g \in Streams : StreamAlive(g) => g \in stopSet'
    PROVE  SessionIInv'
<1>0. Types /\ Paths /\ Sequential /\ Path(c) /\ c \in Callers
    BY Constants DEF SessionIInv, Paths, Leads, Callers
<1>1. PICK l \in (RequestLabels \union WorkerLabels) \ {"none", "made", "publish", "start"} :
         Goto(c, l)
    BY DEF QuietEffect
<1>2. /\ pc' \in [Callers -> RequestLabels \union WorkerLabels]
      /\ job' \in [Callers -> Methods \union {"none"}]
      /\ pc'[c] = l
      /\ job'[c] = IF l \in {"idle", "dead"} THEN "none" ELSE job[c]
      /\ \A d \in Callers \ {c} : pc'[d] = pc[d] /\ job'[d] = job[d]
    BY <1>0, <1>1, Gone
<1>3. /\ UNCHANGED <<session, generation, streamThread, streamStop, refreshThread,
                     sessionStop, response, at, reason, mine, left, overlap>>
      /\ display' = display \/ display' = "error"
      /\ log' = log \/ (log = "open" /\ log' = "closed")
      /\ shut' \subseteq Streams /\ stopSet' \subseteq Streams /\ stopSet \subseteq stopSet'
      /\ seen' \in [Callers -> (Streams \union {None}) \X (Streams \union {None})]
      /\ \A d \in Callers \ {c} : seen'[d] = seen[d]
      /\ pc[c] \notin {"none", "made", "publish", "start", "launch", "idle", "dead"}
    BY DEF QuietEffect
<1>4. Types'
    BY <1>0, <1>2, <1>3 DEF Types, EndStates
<1>5. Path(c)'
    BY <1>0, <1>1, <1>3, QuietPaths
<1>6. CallerEffect(c)
    <2>1. c \in Pending' => c \in Pending
        BY <1>0, <1>2, <1>3 DEF Pending
    <2>2. c \in Fetching' => c \in Fetching
        BY <1>2, Constants DEF Fetching, QuietPath
    <2>. QED  BY <1>2, <1>3, <2>1, <2>2 DEF CallerEffect, EndStates
<1>7. ASSUME ~overlap, Alone(c)
      PROVE  View(c)' /\ Threads' /\ Halting' /\ (pc'[c] # "publish" => streamStop' = streamThread')
    <2>0. Threads /\ Views /\ Halting
        BY <1>0, <1>7 DEF Sequential
    <2>1. \A w : w \in Workers /\ WorkerAlive(w)' => WorkerAlive(w)
        BY <1>2, <1>3 DEF WorkerAlive, Callers
    <2>2. \A g : StreamAlive(g)' <=> StreamAlive(g)
        BY <1>3 DEF StreamAlive
    <2>3. Threads'
        BY <1>3, <2>0, <2>1, <2>2 DEF Threads
    <2>4. streamStop' = streamThread'
        <3>1. \A d \in Callers : pc[d] # "publish"
            BY <1>0, <1>3, <1>7, AloneViews DEF OpenLabels
        <3>. QED  BY <1>3, <2>0, <3>1 DEF Views
    <2>5. Halting'
        <3>1. Stopping' = Stopping
            BY <1>3 DEF Stopping
        <3>2. ASSUME sessionStop,
                     NEW r \in Requests, job[r] = "stop", pc[r] \in {"read", "alive", "signal"}
              PROVE  \/ job'[r] = "stop" /\ pc'[r] \in {"read", "alive", "signal"}
                     \/ \A g \in Streams : StreamAlive(g) => g \in stopSet'
            <4>1. r = c
                BY <1>7, <3>2 DEF Alone, Leads, Resting
            <4>. QED  BY <1>2, <1>7, <3>2, <4>1
        <3>3. sessionStop =>
                 \/ \E r \in Requests : job'[r] = "stop" /\ pc'[r] \in {"read", "alive", "signal"}
                 \/ \A g \in Streams : StreamAlive(g) => g \in stopSet'
            <4>. SUFFICES ASSUME sessionStop
                          PROVE  \/ \E r \in Requests : job'[r] = "stop" /\ pc'[r] \in {"read", "alive", "signal"}
                                 \/ \A g \in Streams : StreamAlive(g) => g \in stopSet'
                OBVIOUS
            <4>1. CASE \E r \in Requests : job[r] = "stop" /\ pc[r] \in {"read", "alive", "signal"}
                BY <3>2, <4>1
            <4>2. CASE \A g \in Streams : StreamAlive(g) => g \in stopSet
                BY <1>3, <4>2
            <4>. QED  BY <2>0, <4>1, <4>2 DEF Halting
        <3>. QED  BY <1>3, <2>0, <2>1, <2>2, <3>1, <3>3 DEF Halting
    <2>. QED  BY <1>7, <2>3, <2>4, <2>5
<1>. QED  BY <1>3, <1>4, <1>5, <1>6, <1>7, LeadStep DEF Resting
\* While a lead is alone, the threads are the ones of the observer, and stop()
\* has told them unless the lead is about to.
LEMMA AloneKnows ==
    ASSUME SessionIInv, NEW c \in Leads, ~overlap, Alone(c), pc[c] # "publish"
    PROVE  /\ View(c) /\ streamStop = streamThread
           /\ \A g \in Streams : StreamAlive(g) => g = streamThread
           /\ sessionStop => \/ job[c] = "stop" /\ pc[c] \in {"read", "alive", "signal"}
                             \/ \A g \in Streams : StreamAlive(g) => g \in stopSet
<1>0. Paths /\ Threads /\ Views /\ Halting /\ c \in Callers
    BY Constants DEF SessionIInv, Sequential, Leads, Callers
<1>1. \A d \in Callers : pc[d] # "publish"
    BY <1>0, AloneViews DEF OpenLabels
<1>2. \A r \in Requests : pc[r] \in {"read", "alive", "signal"} => r = c
    BY DEF Alone, Leads, Resting
<1>. QED  BY <1>0, <1>1, <1>2 DEF Views, Threads, Halting

\* The steps of stop_events() up to the join keep the invariant.
LEMMA StopEventsStep ==
    ASSUME SessionIInv, NEW c \in Callers, overlap' = overlap,
           \/ ReadStream(c) \/ CheckAlive(c) \/ SignalStop(c) \/ CloseStream(c)
           \/ JoinStream(c) \/ JoinTimeout(c)
    PROVE  SessionIInv'
<1>0. Types /\ Paths /\ Path(c)
    BY DEF SessionIInv, Paths
<1>1. pc[c] \in StopLabels /\ pc[c] # "publish"
    BY DEF ReadStream, CheckAlive, SignalStop, CloseStream, JoinStream, JoinTimeout, StopLabels
<1>2. c \in Leads /\ ~Resting(c)
    BY <1>0, <1>1, LeadOf
<1>3. job[c] \in {"stop", "stop_events", "reconnect_events"} /\ (c \in Workers => job[c] = "reconnect_events")
    BY <1>0, <1>1 DEF Path
<1>4. c \in Requests \/ c \in Workers
    BY DEF Callers
<1>. USE DEF observer, client, stream
<1>5. CASE ReadStream(c)
    <2>0. pc[c] = "read" /\ Goto(c, "alive") /\ seen' = [seen EXCEPT ![c] = <<streamThread, streamStop>>]
          /\ UNCHANGED <<observer, client, log, stream, mine, left>>
        BY <1>5 DEF ReadStream
    <2>1. pc'[c] = "alive" /\ seen'[c] = <<streamThread, streamStop>>
        BY <1>0, <2>0, Gone DEF Types, RequestLabels, StopLabels
    <2>2. QuietEffect(c)
        <3>1. seen' \in [Callers -> (Streams \union {None}) \X (Streams \union {None})]
            BY <1>0, <2>0 DEF Types
        <3>. QED  BY <1>0, <2>0, <3>1 DEF QuietEffect, Types, RequestLabels, StopLabels
    <2>3. QuietPath(c)
        BY <1>3, <2>1 DEF QuietPath, RequestLabels, WorkerLabels, StopLabels, OpenLabels
    <2>4. View(c)'
        BY <2>0, <2>1 DEF View
    <2>. QED  BY <1>2, <2>1, <2>2, <2>3, <2>4, QuietStep
<1>6. CASE CheckAlive(c)
    <2>. DEFINE to == IF StreamAlive(seen[c][1]) /\ seen[c][2] # None THEN "signal" ELSE "forget"
    <2>0. pc[c] = "alive" /\ Goto(c, to) /\ UNCHANGED <<observer, client, log, stream, seen, mine, left>>
        BY <1>6 DEF CheckAlive
    <2>1. to \in {"signal", "forget"} /\ (to = "signal" => seen[c][2] # None)
        OBVIOUS
    <2>2. pc'[c] = to
        BY <1>0, <2>0, <2>1, Gone DEF RequestLabels, StopLabels
    <2>3. QuietEffect(c)
        <3>. HIDE DEF to
        <3>. QED  BY <1>0, <2>0, <2>1 DEF QuietEffect, Types, RequestLabels, StopLabels
    <2>4. QuietPath(c)
        <3>. HIDE DEF to
        <3>. QED  BY <1>3, <2>0, <2>1, <2>2 DEF QuietPath, RequestLabels, WorkerLabels, StopLabels, OpenLabels
    <2>5. ASSUME ~overlap, Alone(c)
          PROVE  View(c)' /\ (to = "signal" \/ \A g \in Streams : ~StreamAlive(g))
        <3>1. /\ View(c) /\ streamStop = streamThread
              /\ \A g \in Streams : StreamAlive(g) => g = streamThread
            BY <1>1, <1>2, <2>5, AloneKnows
        <3>2. seen[c] = <<streamThread, streamStop>>
            BY <2>0, <3>1 DEF View, StopLabels
        <3>3. to = "signal" \/ ~StreamAlive(streamThread)
            BY <3>1, <3>2 DEF StreamAlive
        <3>4. View(c)'
            BY <2>0, <2>1, <2>2, <3>2, <3>3 DEF View, StreamAlive
        <3>. QED  BY <3>1, <3>3, <3>4
    <2>6. ASSUME ~overlap, Alone(c)
          PROVE  View(c)' /\ (pc'[c] \in {"read", "alive", "signal"} \/ \A g \in Streams : StreamAlive(g) => g \in stopSet')
        BY <2>2, <2>5, <2>6
    <2>. QED  BY <1>2, <2>3, <2>4, <2>6, QuietStep
<1>7. CASE SignalStop(c)
    <2>0. pc[c] = "signal" /\ Goto(c, "close") /\ stopSet' = stopSet \union {seen[c][2]}
          /\ UNCHANGED <<observer, client, log, at, reason, seen, mine, left>>
        BY <1>7 DEF SignalStop
    <2>1. pc'[c] = "close"
        BY <1>0, <2>0, Gone DEF RequestLabels, StopLabels
    <2>2. QuietEffect(c)
        <3>1. seen[c][2] \in Streams
            BY <1>0, <2>0 DEF Types, Path
        <3>. QED  BY <1>0, <2>0, <3>1 DEF QuietEffect, Types, RequestLabels, StopLabels
    <2>3. QuietPath(c)
        BY <1>3, <1>4, <2>1 DEF QuietPath, RequestLabels, WorkerLabels, StopLabels, OpenLabels
    <2>4. ASSUME ~overlap, Alone(c)
          PROVE  View(c)' /\ \A g \in Streams : StreamAlive(g) => g \in stopSet'
        <3>1. /\ View(c) /\ streamStop = streamThread
              /\ \A g \in Streams : StreamAlive(g) => g = streamThread
            BY <1>1, <1>2, <2>4, AloneKnows
        <3>2. seen[c] = <<streamThread, streamStop>>
            BY <2>0, <3>1 DEF View, StopLabels
        <3>3. View(c)'
            BY <2>0, <2>1, <3>2 DEF View
        <3>. QED  BY <2>0, <3>1, <3>2, <3>3
    <2>. QED  BY <1>2, <2>2, <2>3, <2>4, QuietStep
<1>8. CASE CloseStream(c)
    <2>0. pc[c] = "close" /\ Goto(c, "join") /\ shut' = shut \union ({response} \ {None})
          /\ UNCHANGED <<observer, response, log, stream, seen, mine, left>>
        BY <1>8 DEF CloseStream
    <2>1. pc'[c] = "join"
        BY <1>0, <2>0, Gone DEF RequestLabels, StopLabels
    <2>2. QuietEffect(c)
        BY <1>0, <2>0 DEF QuietEffect, Types, RequestLabels, StopLabels
    <2>3. QuietPath(c)
        BY <1>3, <1>4, <2>1 DEF QuietPath, RequestLabels, WorkerLabels, StopLabels, OpenLabels
    <2>4. ASSUME ~overlap, Alone(c) PROVE View(c)'
        <3>1. View(c)
            BY <1>1, <1>2, <2>4, AloneKnows
        <3>. QED  BY <2>0, <2>1, <3>1 DEF View, StopLabels
    <2>. QED  BY <1>2, <2>0, <2>2, <2>3, <2>4, QuietStep
<1>9. CASE JoinStream(c)
    <2>0. pc[c] = "join" /\ Goto(c, "forget") /\ ~StreamAlive(seen[c][1])
          /\ UNCHANGED <<observer, client, log, stream, seen, mine, left>>
        BY <1>9 DEF JoinStream
    <2>1. pc'[c] = "forget"
        BY <1>0, <2>0, Gone DEF RequestLabels, StopLabels
    <2>2. QuietEffect(c)
        BY <1>0, <2>0 DEF QuietEffect, Types, RequestLabels, StopLabels
    <2>3. QuietPath(c)
        BY <1>3, <1>4, <2>1 DEF QuietPath, RequestLabels, WorkerLabels, StopLabels, OpenLabels
    <2>4. ASSUME ~overlap, Alone(c) PROVE View(c)'
        <3>1. View(c)
            BY <1>1, <1>2, <2>4, AloneKnows
        <3>2. seen[c] = <<streamThread, streamStop>>
            BY <2>0, <3>1 DEF View, StopLabels
        <3>. QED  BY <2>0, <2>1, <3>2 DEF View, StreamAlive
    <2>. QED  BY <1>2, <2>0, <2>2, <2>3, <2>4, QuietStep
<1>10. CASE JoinTimeout(c)
    <2>0. /\ pc[c] = "join" /\ (display' = display \/ display' = "error")
          /\ seen' = [seen EXCEPT ![c] = <<None, None>>]
          /\ UNCHANGED <<session, generation, streamThread, streamStop, refreshThread,
                         sessionStop, client, log, stream, mine, left>>
          /\ Returns(c, FALSE) \/ Goto(c, Rest(c))
        BY <1>10 DEF JoinTimeout
    <2>1. PICK l \in {"await", "idle", "dead"} :
             /\ Goto(c, l) /\ (l = "await" => job[c] = "stop")
             /\ l = "idle" <=> l # "await" /\ c \in Requests
        BY <2>0 DEF Returns, Rest
    <2>2. pc'[c] = l
        BY <1>0, <2>1, Gone DEF RequestLabels, WorkerLabels
    <2>3. QuietEffect(c)
        <3>1. seen' \in [Callers -> (Streams \union {None}) \X (Streams \union {None})]
            BY <1>0, <2>0 DEF Types
        <3>2. \A d \in Callers \ {c} : seen'[d] = seen[d]
            BY <1>0, <2>0 DEF Types
        <3>. QED  BY <1>0, <2>0, <2>1, <3>1, <3>2 DEF QuietEffect, Types, RequestLabels, WorkerLabels
    <2>4. QuietPath(c)
        <3>1. c \in Requests => c \notin Workers
            BY Constants
        <3>. QED  BY <1>3, <1>4, <2>1, <2>2, <3>1 DEF QuietPath, RequestLabels, WorkerLabels, StopLabels, OpenLabels
    <2>5. View(c)'
        BY <2>2 DEF View, StopLabels
    <2>. QED  BY <1>2, <2>0, <2>3, <2>4, <2>5, QuietStep
<1>. QED  BY <1>5, <1>6, <1>7, <1>8, <1>9, <1>10
\* A step that ends a method, or goes on with it, and changes nothing else,
\* keeps the invariant; so does the record of the stop.
LEMMA PlainStep ==
    ASSUME SessionIInv, NEW c \in Leads, NEW l \in {"idle", "dead", "read", "finish"}, Goto(c, l),
           UNCHANGED <<observer, client, stream, seen, mine, left, overlap>>,
           log' = log \/ (log = "open" /\ log' = "closed"),
           pc[c] \in {"connect", "refresh", "new", "stop", "await", "finish", "record"},
           l = "read" => pc[c] = "connect", l = "finish" => c \in Requests,
           l = "idle" => c \in Requests, l = "dead" => c \in Workers
    PROVE  SessionIInv'
<1>0. Types /\ Path(c) /\ c \in Callers
    BY Constants DEF SessionIInv, Paths, Leads, Callers
<1>1. pc'[c] = l
    BY <1>0, Gone DEF RequestLabels, WorkerLabels, StopLabels
<1>2. QuietEffect(c)
    BY <1>0 DEF QuietEffect, Types, RequestLabels, WorkerLabels, StopLabels, observer, client, stream
<1>3. QuietPath(c)
    <2>1. l = "read" => job[c] = "reconnect_events"
        BY <1>0 DEF Path
    <2>2. c \in Requests => c \notin Workers
        BY Constants
    <2>. QED  BY <1>1, <2>1, <2>2
              DEF QuietPath, RequestLabels, WorkerLabels, StopLabels, OpenLabels
<1>4. View(c)'
    BY <1>1 DEF View, StopLabels
<1>. QED  BY <1>2, <1>3, <1>4, QuietStep

\* The first worker connects the events, unless the session stops.
LEMMA ConnectStep ==
    ASSUME SessionIInv, NEW w \in Workers, Connect(w), overlap' = overlap
    PROVE  SessionIInv'
<1>1. w \in Leads
    <2>1. w \in Callers /\ Path(w)
        BY DEF SessionIInv, Paths, Callers
    <2>. QED  BY <2>1, LeadOf DEF Connect
<1>2. PICK l \in {"dead", "read"} : Goto(w, l)
    BY DEF Connect
<1>. QED  BY <1>1, <1>2, PlainStep DEF Connect

\* stop() waits for the worker, and records that the session stopped.
LEMMA WaitStep ==
    ASSUME SessionIInv, NEW r \in Requests, AwaitWorker(r) \/ RecordStop(r), overlap' = overlap
    PROVE  SessionIInv'
<1>1. r \in Leads
    BY DEF Leads
<1>2. CASE AwaitWorker(r)
    BY <1>1, <1>2, PlainStep DEF AwaitWorker
<1>3. CASE RecordStop(r)
    BY <1>1, <1>3, PlainStep DEF RecordStop
<1>. QED  BY <1>2, <1>3
\* The end of stop_events() keeps the invariant.
LEMMA ForgetStep ==
    ASSUME SessionIInv, NEW c \in Callers, ForgetStream(c), overlap' = overlap
    PROVE  SessionIInv'
<1>0. Types /\ Paths /\ Path(c) /\ pc[c] = "forget"
    BY DEF SessionIInv, Paths, ForgetStream
<1>1. c \in Leads /\ ~Resting(c) /\ pc[c] \in StopLabels
    BY <1>0, LeadOf DEF StopLabels
<1>2. /\ UNCHANGED <<session, display, generation, refreshThread, sessionStop, response, shut,
                     log, at, stopSet, reason, mine, left>>
      /\ IF streamThread = seen[c][1]
         THEN streamThread' = None /\ streamStop' = None
         ELSE UNCHANGED <<streamThread, streamStop>>
      /\ seen' = [seen EXCEPT ![c] = <<None, None>>]
    BY DEF ForgetStream, client, stream
<1>3. PICK l \in {"await", "new", "idle", "dead"} :
         /\ Goto(c, l) /\ (l = "await" => job[c] = "stop") /\ (l = "new" => job[c] = "reconnect_events")
         /\ l = "idle" => c \in Requests
         /\ l = "dead" => c \notin Requests
    BY DEF ForgetStream, Returns, Rest
<1>4. /\ pc' \in [Callers -> RequestLabels \union WorkerLabels]
      /\ job' \in [Callers -> Methods \union {"none"}]
      /\ pc'[c] = l
      /\ \A d \in Callers \ {c} : pc'[d] = pc[d] /\ job'[d] = job[d]
      /\ l \in {"await", "new"} => job'[c] = job[c]
    BY <1>0, <1>3, Gone DEF RequestLabels, WorkerLabels, OpenLabels
<1>5. Path(c)'
    <2>1. c \in Requests => c \notin Workers
        BY Constants
    <2>2. c \in Workers => job[c] # "stop"
        BY <1>0 DEF Path
    <2>3. QuietPath(c)
        BY <1>3, <1>4, <2>1, <2>2 DEF QuietPath, RequestLabels, WorkerLabels, StopLabels, OpenLabels, Callers
    <2>. QED  BY <1>0, <1>1, <1>3, <2>3, QuietPaths DEF RequestLabels, WorkerLabels, OpenLabels
<1>6. Types'
    <2>1. seen' \in [Callers -> (Streams \union {None}) \X (Streams \union {None})]
        BY <1>0, <1>2 DEF Types
    <2>2. {streamThread', streamStop'} \subseteq Streams \union {None}
        BY <1>0, <1>2 DEF Types
    <2>. QED  BY <1>0, <1>2, <1>4, <2>1, <2>2 DEF Types
<1>7. CallerEffect(c)
    <2>1. c \in Pending' => c \in Pending
        BY <1>0, <1>4, <1>3, <1>5 DEF Pending, Path, Resting
    <2>2. c \notin Fetching'
        BY <1>4 DEF Fetching
    <2>3. \A d \in Callers \ {c} : seen'[d] = seen[d]
        BY <1>0, <1>2 DEF Types
    <2>. QED  BY <1>2, <1>4, <2>1, <2>2, <2>3 DEF CallerEffect
<1>8. ASSUME ~overlap, Alone(c)
      PROVE  View(c)' /\ Threads' /\ Halting' /\ streamStop' = streamThread'
    <2>0. Threads /\ Halting
        BY <1>8 DEF SessionIInv, Sequential
    <2>1. View(c) /\ \A g \in Streams : StreamAlive(g) => g = streamThread
        BY <1>0, <1>1, <1>8, AloneKnows
    <2>2. streamThread' = None /\ streamStop' = None
        BY <1>0, <1>2, <2>1 DEF View, StopLabels
    <2>3. \A g \in Streams : ~StreamAlive(g)'
        BY <1>0, <1>2, <2>1 DEF View, StreamAlive
    <2>4. \A w : w \in Workers /\ WorkerAlive(w)' => WorkerAlive(w)
        BY <1>0, <1>4 DEF WorkerAlive, Callers
    <2>5. View(c)'
        BY <1>4, <2>2 DEF View, StopLabels
    <2>6. Threads'
        BY <1>2, <2>0, <2>3, <2>4 DEF Threads
    <2>7. Halting'
        BY <1>2, <2>0, <2>3, <2>4 DEF Halting, Stopping
    <2>. QED  BY <2>2, <2>5, <2>6, <2>7
<1>. QED  BY <1>1, <1>5, <1>6, <1>7, <1>8, LeadStep

\* The thread of the new stream is the one the observer knows, and its start
\* comes before any stop.
LEMMA ThreadStep ==
    ASSUME SessionIInv, NEW c \in Callers, PublishThread(c) \/ StartThread(c), overlap' = overlap
    PROVE  SessionIInv'
<1>0. Types /\ Paths /\ Path(c) /\ pc[c] \in {"publish", "start"}
    BY DEF SessionIInv, Paths, PublishThread, StartThread
<1>1. c \in Leads /\ ~Resting(c)
    BY <1>0, LeadOf DEF OpenLabels
<1>2. UNCHANGED <<session, display, generation, streamStop, refreshThread, sessionStop,
                  response, shut, log, stopSet, reason, seen, left>>
    BY DEF PublishThread, StartThread, observer, client
<1>3. mine[c] \in 1..generation /\ mine[c] \in Streams /\ mine[c] # None
    BY <1>0, Constants DEF Path, Types
<1>4. CASE PublishThread(c)
    <2>1. /\ streamThread' = mine[c] /\ at' = [at EXCEPT ![mine[c]] = "made"]
          /\ Goto(c, "start") /\ mine' = mine /\ pc[c] = "publish"
        BY <1>4 DEF PublishThread
    <2>2. /\ pc' \in [Callers -> RequestLabels \union WorkerLabels]
          /\ job' \in [Callers -> Methods \union {"none"}]
          /\ pc'[c] = "start" /\ job'[c] = job[c]
          /\ \A d \in Callers \ {c} : pc'[d] = pc[d] /\ job'[d] = job[d]
        BY <1>0, <2>1, Gone DEF RequestLabels, OpenLabels
    <2>3. Types'
        BY <1>0, <1>2, <1>3, <2>1, <2>2 DEF Types, StreamLabels
    <2>4. Path(c)'
        BY <1>0, <1>2, <2>1, <2>2 DEF Path, Resting, RequestLabels, WorkerLabels, OpenLabels, StopLabels
    <2>5. CallerEffect(c)
        BY <1>2, <1>3, <2>1, <2>2 DEF CallerEffect, Pending, Fetching
    <2>6. ASSUME ~overlap, Alone(c)
          PROVE  View(c)' /\ Threads' /\ Halting' /\ streamStop' = streamThread'
        <3>0. Threads /\ Halting /\ View(c)
            BY <2>6 DEF SessionIInv, Sequential, Views
        <3>1. streamThread = None /\ ~Stopping /\ streamStop = mine[c]
            BY <2>1, <3>0 DEF View
        <3>2. \A g : g \in Streams => ~StreamAlive(g)'
            BY <1>0, <2>1, <3>0, <3>1 DEF Threads, StreamAlive, Types
        <3>3. \A w : w \in Workers /\ WorkerAlive(w)' => WorkerAlive(w)
            BY <2>1, <2>2 DEF WorkerAlive, Callers
        <3>4. View(c)'
            BY <1>2, <2>1, <2>2, <3>1 DEF View, Stopping, StopLabels
        <3>5. Threads'
            BY <1>2, <3>0, <3>2, <3>3 DEF Threads
        <3>6. Halting'
            BY <1>2, <3>0, <3>1 DEF Halting, Stopping
        <3>. QED  BY <1>2, <2>1, <3>1, <3>4, <3>5, <3>6
    <2>. QED  BY <1>1, <2>3, <2>4, <2>5, <2>6, LeadStep
<1>5. CASE StartThread(c)
    <2>1. /\ streamThread' = streamThread /\ at' = [at EXCEPT ![mine[c]] = "begin"]
          /\ Goto(c, Rest(c)) /\ mine' = [mine EXCEPT ![c] = None] /\ pc[c] = "start"
        BY <1>5 DEF StartThread, observer
    <2>2. PICK l \in {"idle", "dead"} : Goto(c, l) /\ (l = "idle" <=> c \in Requests)
        BY <2>1 DEF Rest
    <2>3. /\ pc' \in [Callers -> RequestLabels \union WorkerLabels]
          /\ job' \in [Callers -> Methods \union {"none"}]
          /\ pc'[c] = l /\ job'[c] = "none"
          /\ \A d \in Callers \ {c} : pc'[d] = pc[d] /\ job'[d] = job[d]
        BY <1>0, <2>2, Gone DEF RequestLabels, WorkerLabels
    <2>4. Types'
        <3>1. mine' \in [Callers -> Streams \union Workers \union {None}]
            BY <1>0, <2>1 DEF Types
        <3>. QED  BY <1>0, <1>2, <1>3, <2>1, <2>3, <3>1 DEF Types, StreamLabels
    <2>5. Path(c)'
        <3>1. c \in Requests => c \notin Workers
            BY Constants
        <3>. QED  BY <1>0, <2>2, <2>3, <3>1 DEF Path, Resting, RequestLabels, WorkerLabels, OpenLabels, StopLabels
    <2>6. CallerEffect(c)
        <3>1. \A d \in Callers \ {c} : mine'[d] = mine[d]
            BY <1>0, <2>1 DEF Types
        <3>. QED  BY <1>2, <1>3, <2>1, <2>3, <3>1 DEF CallerEffect, Pending, Fetching
    <2>7. ASSUME ~overlap, Alone(c)
          PROVE  View(c)' /\ Threads' /\ Halting' /\ streamStop' = streamThread'
        <3>0. Threads /\ Halting /\ View(c)
            BY <2>7 DEF SessionIInv, Sequential, Views
        <3>1. streamThread = mine[c] /\ ~Stopping /\ streamStop = mine[c]
            BY <2>1, <3>0 DEF View
        <3>2. \A g : g \in Streams /\ StreamAlive(g)' => g = streamThread
            BY <1>0, <2>1, <3>0, <3>1 DEF Threads, StreamAlive, Types
        <3>3. \A w : w \in Workers /\ WorkerAlive(w)' => WorkerAlive(w)
            BY <2>1, <2>3 DEF WorkerAlive, Callers
        <3>4. View(c)'
            BY <2>3 DEF View, StopLabels
        <3>5. Threads'
            BY <1>2, <2>1, <3>0, <3>2, <3>3 DEF Threads
        <3>6. Halting'
            BY <1>2, <3>0, <3>1 DEF Halting, Stopping
        <3>. QED  BY <1>2, <2>1, <3>1, <3>4, <3>5, <3>6
    <2>. QED  BY <1>1, <2>4, <2>5, <2>6, <2>7, LeadStep
<1>. QED  BY <1>4, <1>5
\* stop() announces itself and sets the stop event of the session.
LEMMA HaltStep ==
    ASSUME SessionIInv, NEW r \in Requests, Stop(r) \/ Halt(r), overlap' = overlap
    PROVE  SessionIInv'
<1>0. /\ Types /\ Paths /\ Path(r) /\ pc[r] \in {"stop", "halt"}
      /\ r \in Callers /\ r \in Leads /\ r \notin Workers /\ ~Resting(r)
    BY Constants DEF SessionIInv, Paths, Stop, Halt, Callers, Leads, Resting
<1>1. UNCHANGED <<display, generation, streamThread, streamStop, refreshThread,
                  client, log, stream, seen, mine, left>>
    BY DEF Stop, Halt, observer
<1>2. ASSUME NEW l \in {"halt", "read"}, Goto(r, l),
             session' \in {"stopping", session}, sessionStop' \in BOOLEAN,
             sessionStop' => sessionStop \/ (pc[r] = "halt" /\ l = "read"),
             l = "halt" => Stopping', l = "read" => (Stopping => Stopping')
      PROVE  SessionIInv'
    <2>1. /\ pc' \in [Callers -> RequestLabels \union WorkerLabels]
          /\ job' \in [Callers -> Methods \union {"none"}]
          /\ pc'[r] = l /\ job'[r] = job[r] /\ job[r] = "stop"
          /\ \A d \in Callers \ {r} : pc'[d] = pc[d] /\ job'[d] = job[d]
        BY <1>0, <1>2, Gone DEF RequestLabels, StopLabels, Path
    <2>2. Types'
        BY <1>0, <1>1, <1>2, <2>1 DEF Types, client, stream
    <2>3. Path(r)'
        BY <1>0, <1>2, <2>1 DEF Path, Resting, RequestLabels, StopLabels, OpenLabels
    <2>4. CallerEffect(r)
        BY <1>1, <1>2, <2>1 DEF CallerEffect, Pending, Fetching, stream
    <2>5. ASSUME ~overlap, Alone(r)
          PROVE  View(r)' /\ Threads' /\ Halting' /\ streamStop' = streamThread'
        <3>0. Threads /\ Halting /\ View(r)
            BY <1>0, <2>5 DEF SessionIInv, Sequential, Views
        <3>1. /\ streamStop = streamThread
              /\ sessionStop => \A g \in Streams : StreamAlive(g) => g \in stopSet
            BY <1>0, <2>5, AloneKnows
        <3>2. View(r)'
            BY <1>2, <2>1 DEF View, StopLabels
        <3>3. \A w : w \in Workers /\ WorkerAlive(w)' => WorkerAlive(w)
            BY <1>0, <2>1 DEF WorkerAlive, Callers
        <3>4. \A g : StreamAlive(g)' <=> StreamAlive(g)
            BY <1>1 DEF StreamAlive, stream
        <3>5. Threads'
            BY <1>1, <3>0, <3>3, <3>4 DEF Threads
        <3>6. Stopping => Stopping'
            BY <1>2 DEF Stopping
        <3>7. sessionStop' => Stopping'
            BY <1>2, <3>0, <3>6 DEF Halting, View
        <3>8. session' = "stopped" => session = "stopped"
            BY <1>2
        <3>9. sessionStop' =>
                 \/ \E d \in Requests : job'[d] = "stop" /\ pc'[d] \in {"read", "alive", "signal"}
                 \/ \A g \in Streams : StreamAlive(g) => g \in stopSet
            BY <1>2, <2>1, <3>1
        <3>10. stopSet' = stopSet
            BY <1>1 DEF stream
        <3>11. Halting'
            BY <3>0, <3>3, <3>4, <3>7, <3>8, <3>9, <3>10 DEF Halting
        <3>. QED  BY <1>1, <3>1, <3>2, <3>5, <3>11
    <2>. QED  BY <1>0, <2>2, <2>3, <2>4, <2>5, LeadStep
<1>3. CASE Stop(r)
    <2>1. CASE session = "stopped"
        BY <1>0, <1>3, <2>1, PlainStep DEF Stop, observer
    <2>2. CASE session # "stopped"
        <3>1. sessionStop \in BOOLEAN
            BY <1>0 DEF Types
        <3>2. /\ Goto(r, "halt") /\ session' = "stopping" /\ sessionStop' = sessionStop
            BY <1>3, <2>2 DEF Stop
        <3>3. Stopping'
            BY <3>2 DEF Stopping
        <3>. QED  BY <1>2, <3>1, <3>2, <3>3
    <2>. QED  BY <2>1, <2>2
<1>4. CASE Halt(r)
    BY <1>2, <1>4 DEF Halt, Stopping
<1>. QED  BY <1>3, <1>4

\* A session that is stopping is stopped when its threads have ended.
LEMMA FinishStep ==
    ASSUME SessionIInv, NEW r \in Requests, FinishStop(r), overlap' = overlap
    PROVE  SessionIInv'
<1>0. /\ Types /\ Paths /\ Path(r) /\ pc[r] = "finish"
      /\ r \in Callers /\ r \in Leads /\ r \notin Workers /\ ~Resting(r)
    BY Constants DEF SessionIInv, Paths, FinishStop, Callers, Leads, Resting
<1>1. UNCHANGED <<generation, sessionStop, client, log, stream, seen, mine, left>>
    BY DEF FinishStop
<1>2. CASE /\ session # "stopping" \/ ~Reclaimed
           /\ Goto(r, "idle")
           /\ UNCHANGED <<session, display, streamThread, streamStop, refreshThread>>
    BY <1>0, <1>1, <1>2, PlainStep DEF observer
<1>3. CASE /\ session = "stopping" /\ Reclaimed
           /\ session' = "stopped" /\ display' = "closed"
           /\ streamThread' = None /\ streamStop' = None /\ refreshThread' = None
           /\ Goto(r, "record")
    <2>1. /\ pc' \in [Callers -> RequestLabels \union WorkerLabels]
          /\ job' \in [Callers -> Methods \union {"none"}]
          /\ pc'[r] = "record" /\ job'[r] = job[r]
          /\ \A d \in Callers \ {r} : pc'[d] = pc[d] /\ job'[d] = job[d]
        BY <1>0, <1>3, Gone DEF RequestLabels
    <2>2. Types'
        BY <1>0, <1>1, <1>3, <2>1 DEF Types, client, stream, EndStates
    <2>3. Path(r)'
        BY <1>0, <2>1 DEF Path, Resting, RequestLabels, StopLabels, OpenLabels
    <2>4. CallerEffect(r)
        BY <1>0, <1>1, <1>3, <2>1 DEF CallerEffect, Pending, Fetching, stream, EndStates
    <2>5. ASSUME ~overlap, Alone(r)
          PROVE  View(r)' /\ Threads' /\ Halting' /\ streamStop' = streamThread'
        <3>0. Threads /\ Halting
            BY <2>5 DEF SessionIInv, Sequential
        <3>1. \A w \in Workers : ~WorkerAlive(w)
            BY <1>3, <3>0 DEF Threads, Reclaimed
        <3>2. \A g \in Streams : ~StreamAlive(g)
            BY <1>3, <3>0 DEF Threads, Reclaimed
        <3>3. \A w \in Workers : ~WorkerAlive(w)'
            BY <1>0, <2>1, <3>1 DEF WorkerAlive, Callers
        <3>4. \A g \in Streams : ~StreamAlive(g)'
            BY <1>1, <3>2 DEF StreamAlive, stream
        <3>5. View(r)'
            BY <2>1 DEF View, StopLabels
        <3>6. Threads' /\ Halting'
            BY <1>3, <3>3, <3>4 DEF Threads, Halting, Stopping
        <3>. QED  BY <1>3, <3>5, <3>6
    <2>. QED  BY <1>0, <2>2, <2>3, <2>4, <2>5, LeadStep
<1>. QED  BY <1>2, <1>3 DEF FinishStop
\* A new generation is one more, it had room, and its caller waits no longer.
LEMMA GenerationStep ==
    ASSUME SessionIInv, NEW c \in Callers, NewGeneration(c), overlap' = overlap
    PROVE  SessionIInv'
<1>0. /\ Types /\ Paths /\ Path(c) /\ Generations /\ Active <= Limit /\ pc[c] = "new"
      /\ generation \in Nat /\ MaxStreams \in Nat
    BY Constants DEF SessionIInv, Types, Paths, NewGeneration
<1>1. c \in Leads /\ ~Resting(c) /\ (c \in Requests => c \notin Workers)
    BY <1>0, LeadOf, Constants DEF OpenLabels
<1>2. UNCHANGED <<session, streamThread, refreshThread, sessionStop, client, log, stream, seen, left>>
    BY DEF NewGeneration
<1>3. CASE Goto(c, Rest(c)) /\ UNCHANGED <<generation, streamStop, display, mine>>
    <2>1. PICK l \in {"idle", "dead"} :
             Goto(c, l) /\ (l = "idle" => c \in Requests) /\ (l = "dead" => c \in Workers)
        BY <1>3 DEF Rest, Callers
    <2>. QED  BY <1>0, <1>1, <1>2, <1>3, <2>1, PlainStep DEF observer
<1>4. CASE /\ ~Stopping /\ generation' = generation + 1 /\ streamStop' = generation'
           /\ display' = "connecting" /\ mine' = [mine EXCEPT ![c] = generation']
           /\ Goto(c, "publish")
    <2>1. /\ pc' \in [Callers -> RequestLabels \union WorkerLabels]
          /\ job' \in [Callers -> Methods \union {"none"}]
          /\ pc'[c] = "publish" /\ job'[c] = job[c] /\ job[c] = "reconnect_events"
          /\ \A d \in Callers \ {c} : pc'[d] = pc[d] /\ job'[d] = job[d]
        BY <1>0, <1>4, Gone DEF RequestLabels, OpenLabels, Path
    <2>2. Generations' /\ generation' \in Streams
        <3>1. IsFiniteSet(Pending) /\ Cardinality(Pending) \in Nat /\ c \in Pending
            <4>1. Pending \subseteq Callers /\ c \in Pending
                BY <1>0, <2>1 DEF Pending
            <4>. QED  BY <4>1, Constants, FS_Subset, FS_CardinalityType
        <3>2. Pending' \subseteq Pending \ {c}
            BY <2>1 DEF Pending
        <3>3. /\ IsFiniteSet(Pending \ {c}) /\ Cardinality(Pending \ {c}) = Cardinality(Pending) - 1
            BY <3>1, FS_RemoveElement
        <3>4. Cardinality(Pending') <= Cardinality(Pending) - 1 /\ Cardinality(Pending') \in Nat
            BY <3>2, <3>3, FS_Subset, FS_CardinalityType
        <3>5. generation + Cardinality(Pending) <= MaxStreams
            BY <1>0 DEF Generations
        <3>6. generation' + Cardinality(Pending') <= MaxStreams
            BY <1>0, <1>4, <3>1, <3>4, <3>5
        <3>7. \A g \in Streams : g > generation' => at'[g] = "none"
            <4>1. at' = at /\ \A g \in Streams : g > generation' => g > generation
                BY <1>0, <1>2, <1>4, Constants DEF stream
            <4>. QED  BY <1>0, <4>1 DEF Generations
        <3>8. generation' \in Streams
            BY <1>0, <1>4, <3>4, <3>6, Constants
        <3>. QED  BY <3>6, <3>7, <3>8 DEF Generations
    <2>3. Types'
        <3>1. mine' \in [Callers -> Streams \union Workers \union {None}]
            BY <1>0, <1>4, <2>2 DEF Types
        <3>2. generation' \in 0..MaxStreams /\ streamStop' \in Streams
            BY <1>4, <2>2, Constants
        <3>. QED  BY <1>0, <1>2, <1>4, <2>1, <3>1, <3>2 DEF Types, client, stream
    <2>4. Paths'
        <3>1. ASSUME NEW d \in Callers \ {c} PROVE Path(d)'
            <4>1. /\ Path(d) /\ pc'[d] = pc[d] /\ job'[d] = job[d] /\ mine'[d] = mine[d]
                  /\ seen' = seen /\ left' = left
                  /\ mine[d] \in 1..generation => mine[d] \in 1..generation'
                BY <1>0, <1>2, <1>4, <2>1 DEF Paths, Types
            <4>. QED  BY <4>1 DEF Path, Resting
        <3>2. Path(c)'
            <4>1. mine'[c] \in 1..generation'
                BY <1>0, <1>4, <2>2, Constants DEF Types
            <4>. QED  BY <1>0, <2>1, <4>1 DEF Path, Resting, RequestLabels, WorkerLabels, OpenLabels, StopLabels
        <3>. QED  BY <3>1, <3>2 DEF Paths
    <2>5. (Active <= Limit)'
        <3>1. Holding' = Holding /\ Fetching' \subseteq Fetching
            BY <1>2, <2>1 DEF Holding, Fetching, stream, Callers
        <3>. QED  BY <1>0, <3>1, PermitsKept
    <2>6. DisplaySettles'
        <3>1. at[generation'] = "none"
            BY <1>0, <1>4, <2>2 DEF Generations
        <3>. QED  BY <1>2, <3>1 DEF DisplaySettles, stream
    <2>7. Sequential'
        <3>. SUFFICES ASSUME ~overlap PROVE OneLead' /\ Threads' /\ Views' /\ Halting'
            BY DEF Sequential
        <3>0. Threads /\ Halting /\ Views /\ View(c) /\ Alone(c)
            BY <1>1 DEF SessionIInv, Sequential, OneLead, Views
        <3>1. Stopping' = Stopping /\ streamThread' = None
            BY <1>0, <1>2, <3>0 DEF Stopping, View
        <3>2. View(c)'
            BY <1>0, <1>4, <2>1, <3>1 DEF View, StopLabels, Types
        <3>3. OneLead' /\ \A d \in Callers : View(d)'
            BY <1>0, <1>1, <2>1, <3>0, <3>2, LeadKeeps
        <3>4. Views'
            BY <2>1, <3>3 DEF Views
        <3>5. \A w : w \in Workers /\ WorkerAlive(w)' => WorkerAlive(w)
            BY <1>0, <2>1 DEF WorkerAlive, Callers
        <3>6. \A g : StreamAlive(g)' <=> StreamAlive(g)
            BY <1>2 DEF StreamAlive, stream
        <3>7. Threads'
            BY <1>2, <3>0, <3>5, <3>6 DEF Threads
        <3>8. Halting'
            BY <1>2, <1>4, <3>0, <3>1 DEF Halting, Stopping
        <3>. QED  BY <3>3, <3>4, <3>7, <3>8
    <2>. QED  BY <2>2, <2>3, <2>4, <2>5, <2>6, <2>7 DEF SessionIInv
<1>. QED  BY <1>3, <1>4 DEF NewGeneration

\* The refresh worker that is made is the one the observer knows, and its
\* start comes before any stop.
LEMMA RefreshStep ==
    ASSUME SessionIInv, NEW r \in Requests, Refresh(r), overlap' = overlap
    PROVE  SessionIInv'
<1>0. /\ Types /\ Paths /\ Path(r) /\ Generations /\ Active <= Limit /\ pc[r] = "refresh"
      /\ r \in Callers /\ r \in Leads /\ r \notin Workers /\ ~Resting(r) /\ DisplaySettles
    BY Constants DEF SessionIInv, Paths, Refresh, Callers, Leads, Resting
<1>1. UNCHANGED <<client, log, stream, session, display, generation, streamThread, streamStop,
                  sessionStop, seen, left>>
    BY DEF Refresh
<1>2. CASE Goto(r, "idle") /\ UNCHANGED <<refreshThread, mine>>
    BY <1>0, <1>1, <1>2, PlainStep DEF observer
<1>3. ASSUME ~Stopping, ~WorkerAlive(refreshThread),
             NEW w \in Workers, pc[w] = "none", refreshThread' = w, mine' = [mine EXCEPT ![r] = w],
             pc' = [pc EXCEPT ![r] = "launch", ![w] = "made"], job' = [job EXCEPT ![w] = "refresh"]
      PROVE  SessionIInv'
    <2>0. w \in Callers /\ w # r /\ Path(w) /\ w # 1 /\ w \notin Requests
        BY <1>0, <1>3, Constants DEF Callers, Paths, Path
    <2>1. /\ pc'[r] = "launch" /\ pc'[w] = "made" /\ job'[r] = job[r] /\ job'[w] = "refresh"
          /\ mine'[r] = w /\ mine'[w] = mine[w]
          /\ \A d \in Callers \ {r, w} : pc'[d] = pc[d] /\ job'[d] = job[d] /\ mine'[d] = mine[d]
        BY <1>0, <1>3, <2>0 DEF Types
    <2>2. Types'
        <3>1. /\ pc' \in [Callers -> RequestLabels \union WorkerLabels]
              /\ job' \in [Callers -> Methods \union {"none"}]
              /\ mine' \in [Callers -> Streams \union Workers \union {None}]
            BY <1>0, <1>3, <2>0 DEF Types, RequestLabels, WorkerLabels, Methods
        <3>. QED  BY <1>0, <1>1, <1>3, <3>1 DEF Types, client, stream
    <2>3. Paths'
        <3>1. ASSUME NEW d \in Callers \ {r, w} PROVE Path(d)'
            BY <1>0, <1>1, <2>1 DEF Paths, Path, Resting
        <3>2. Path(r)'
            BY <1>0, <2>1 DEF Path, Resting, RequestLabels, StopLabels, OpenLabels
        <3>3. Path(w)'
            BY <2>0, <2>1 DEF Path, Resting, WorkerLabels, StopLabels, OpenLabels
        <3>. QED  BY <3>1, <3>2, <3>3 DEF Paths
    <2>4. Generations'
        <3>1. Pending' \subseteq Pending
            BY <1>0, <2>1 DEF Pending, Path
        <3>. QED  BY <1>0, <1>1, <3>1, RoomKept DEF stream
    <2>5. (Active <= Limit)'
        <3>1. Holding' = Holding /\ Fetching' \subseteq Fetching
            BY <1>0, <1>1, <2>1 DEF Holding, Fetching, stream, Callers
        <3>. QED  BY <1>0, <3>1, PermitsKept
    <2>6. DisplaySettles'
        BY <1>0, <1>1 DEF DisplaySettles, Refused, stream
    <2>7. Sequential'
        <3>. SUFFICES ASSUME ~overlap PROVE OneLead' /\ Threads' /\ Views' /\ Halting'
            BY DEF Sequential
        <3>0. Threads /\ Halting /\ Views /\ Alone(r)
            BY <1>0 DEF SessionIInv, Sequential, OneLead
        <3>1. Stopping' = Stopping
            BY <1>1 DEF Stopping
        <3>2. View(r)'
            BY <1>3, <2>1, <3>1 DEF View, StopLabels
        <3>3. OneLead' /\ \A d \in Callers : View(d)'
            <4>1. \A d \in Callers \ {r} : pc'[d] = pc[d] \/ (d \notin Leads /\ pc'[d] \in {"made", "head"})
                BY <2>0, <2>1 DEF Leads
            <4>. QED  BY <1>0, <3>0, <3>2, <4>1, LeadKeeps
        <3>4. Views'
            <4>1. streamStop = streamThread
                BY <1>0, <3>0, AloneKnows
            <4>. QED  BY <1>1, <3>3, <4>1 DEF Views
        <3>5. \A v : v \in Workers /\ WorkerAlive(v)' => WorkerAlive(v)
            BY <1>0, <2>1 DEF WorkerAlive, Callers
        <3>6. \A g : StreamAlive(g)' <=> StreamAlive(g)
            BY <1>1 DEF StreamAlive, stream
        <3>7. Threads'
            BY <1>1, <1>3, <3>0, <3>5, <3>6 DEF Threads
        <3>8. Halting'
            BY <1>1, <1>3, <3>0, <3>1 DEF Halting, Stopping
        <3>. QED  BY <3>3, <3>4, <3>7, <3>8
    <2>. QED  BY <2>2, <2>3, <2>4, <2>5, <2>6, <2>7 DEF SessionIInv
<1>. QED  BY <1>2, <1>3 DEF Refresh

\* The refresh worker starts before the next request begins.
LEMMA LaunchStep ==
    ASSUME SessionIInv, NEW r \in Requests, LaunchWorker(r), overlap' = overlap
    PROVE  SessionIInv'
<1>0. /\ Types /\ Paths /\ Path(r) /\ Generations /\ Active <= Limit /\ pc[r] = "launch"
      /\ r \in Callers /\ r \in Leads /\ r \notin Workers /\ ~Resting(r) /\ DisplaySettles
      /\ Sequential
    BY Constants DEF SessionIInv, Paths, LaunchWorker, Callers, Leads, Resting
<1>1. /\ UNCHANGED <<observer, client, log, stream, seen, left>>
      /\ pc' = [pc EXCEPT ![r] = "idle", ![mine[r]] = "head"]
      /\ job' = [job EXCEPT ![r] = "none"] /\ mine' = [mine EXCEPT ![r] = None]
    BY DEF LaunchWorker
<1>2. ~overlap /\ Threads /\ Halting /\ Views /\ Alone(r) /\ View(r)
    BY <1>0 DEF Path, Sequential, OneLead, Views
<1>3. PICK w \in Workers : w = mine[r] /\ w = refreshThread /\ pc[w] = "made" /\ ~Stopping
    BY <1>0, <1>2 DEF View
<1>4. w \in Callers /\ w # r /\ Path(w) /\ job[w] = "refresh" /\ w # 1 /\ w \notin Requests
    BY <1>0, <1>3, Constants DEF Callers, Paths, Path
<1>5. pc' = [pc EXCEPT ![r] = "idle", ![w] = "head"]
    BY <1>1, <1>3
<1>6. /\ pc'[r] = "idle" /\ pc'[w] = "head" /\ job'[r] = "none" /\ job'[w] = "refresh"
      /\ \A d \in Callers \ {r, w} : pc'[d] = pc[d] /\ job'[d] = job[d] /\ mine'[d] = mine[d]
    BY <1>0, <1>1, <1>4, <1>5 DEF Types
<1>7. Types'
    <2>1. /\ pc' \in [Callers -> RequestLabels \union WorkerLabels]
          /\ job' \in [Callers -> Methods \union {"none"}]
          /\ mine' \in [Callers -> Streams \union Workers \union {None}]
        BY <1>0, <1>1, <1>4, <1>5 DEF Types, RequestLabels, WorkerLabels
    <2>. QED  BY <1>0, <1>1, <2>1 DEF Types, observer, client, stream
<1>8. Paths'
    <2>1. ASSUME NEW d \in Callers \ {r, w} PROVE Path(d)'
        <3>1. /\ Path(d) /\ pc'[d] = pc[d] /\ job'[d] = job[d] /\ mine'[d] = mine[d]
              /\ seen' = seen /\ left' = left /\ generation' = generation
            BY <1>0, <1>1, <1>6 DEF Paths, observer
        <3>. QED  BY <3>1 DEF Path, Resting
    <2>2. Path(r)'
        BY <1>0, <1>6 DEF Path, Resting, RequestLabels, StopLabels, OpenLabels
    <2>3. Path(w)'
        BY <1>3, <1>4, <1>6 DEF Path, Resting, WorkerLabels, StopLabels, OpenLabels
    <2>. QED  BY <2>1, <2>2, <2>3 DEF Paths
<1>9. Generations'
    <2>1. Pending' \subseteq Pending
        BY <1>0, <1>6 DEF Pending
    <2>. QED  BY <1>0, <1>1, <2>1, RoomKept DEF stream, observer
<1>10. (Active <= Limit)'
    <2>1. Holding' = Holding /\ Fetching' \subseteq Fetching
        BY <1>0, <1>1, <1>6 DEF Holding, Fetching, stream, Callers
    <2>. QED  BY <1>0, <2>1, PermitsKept
<1>11. DisplaySettles'
    BY <1>0, <1>1 DEF DisplaySettles, Refused, stream, observer
<1>12. Sequential'
    <2>1. Stopping' = Stopping
        BY <1>1 DEF Stopping, observer
    <2>2. View(r)'
        BY <1>6 DEF View, StopLabels
    <2>3. OneLead' /\ \A d \in Callers : View(d)'
        <3>1. \A d \in Callers \ {r} : pc'[d] = pc[d] \/ (d \notin Leads /\ pc'[d] \in {"made", "head"})
            BY <1>4, <1>6 DEF Leads
        <3>. QED  BY <1>0, <1>2, <2>2, <3>1, LeadKeeps
    <2>4. Views'
        <3>1. streamStop = streamThread
            BY <1>0, <1>2, AloneKnows
        <3>. QED  BY <1>1, <2>3, <3>1 DEF Views, observer
    <2>5. \A v : v \in Workers /\ WorkerAlive(v)' => WorkerAlive(v) \/ v = w
        BY <1>0, <1>6 DEF WorkerAlive, Callers
    <2>6. \A g : StreamAlive(g)' <=> StreamAlive(g)
        BY <1>1 DEF StreamAlive, stream
    <2>7. Threads'
        BY <1>1, <1>2, <1>3, <2>5, <2>6 DEF Threads, observer
    <2>8. Halting'
        BY <1>1, <1>2, <1>3, <2>1 DEF Halting, Stopping, observer
    <2>. QED  BY <2>3, <2>4, <2>7, <2>8 DEF Sequential
<1>. QED  BY <1>7, <1>8, <1>9, <1>10, <1>11, <1>12 DEF SessionIInv
\* A request begins while no other lead does anything, or overlaps them.
LEMMA BeginStep ==
    ASSUME SessionIInv, NEW r \in Requests, NEW method \in Methods, Begin(r, method),
           overlap' = overlap
    PROVE  SessionIInv'
<1>0. /\ Types /\ Paths /\ Path(r) /\ Generations /\ Active <= Limit /\ pc[r] = "idle"
      /\ r \in Callers /\ r \in Leads /\ r \notin Workers /\ DisplaySettles /\ Room(method)
    BY Constants DEF SessionIInv, Paths, Begin, Callers, Leads
<1>1. PICK l \in {"refresh", "stop", "finish", "read"} :
         /\ pc' = [pc EXCEPT ![r] = l] /\ job' = [job EXCEPT ![r] = method]
         /\ l = "refresh" <=> method = "refresh"
         /\ l = "stop" <=> method = "stop"
         /\ l = "finish" <=> method = "snapshot"
    BY DEF Begin
<1>2. UNCHANGED <<observer, client, log, stream, seen, mine, left>>
    BY DEF Begin
<1>3. /\ pc'[r] = l /\ job'[r] = method
      /\ \A d \in Callers \ {r} : pc'[d] = pc[d] /\ job'[d] = job[d]
    BY <1>0, <1>1 DEF Types
<1>4. Types'
    <2>1. /\ pc' \in [Callers -> RequestLabels \union WorkerLabels]
          /\ job' \in [Callers -> Methods \union {"none"}]
        BY <1>0, <1>1 DEF Types, RequestLabels, StopLabels
    <2>. QED  BY <1>0, <1>2, <2>1 DEF Types, observer, client, stream
<1>5. Paths'
    <2>1. ASSUME NEW d \in Callers \ {r} PROVE Path(d)'
        <3>1. /\ Path(d) /\ pc'[d] = pc[d] /\ job'[d] = job[d] /\ mine' = mine
              /\ seen' = seen /\ left' = left /\ generation' = generation
            BY <1>0, <1>2, <1>3 DEF Paths, observer
        <3>. QED  BY <3>1 DEF Path, Resting
    <2>2. Path(r)'
        <3>1. l = "refresh" => ~overlap
            BY <1>0, <1>1 DEF Room
        <3>2. l = "read" => method \in {"stop_events", "reconnect_events"}
            BY <1>1 DEF Methods
        <3>3. method # "none"
            BY DEF Methods
        <3>. QED  BY <1>0, <1>1, <1>3, <3>1, <3>2, <3>3
                  DEF Path, Resting, RequestLabels, StopLabels, OpenLabels
    <2>. QED  BY <2>1, <2>2 DEF Paths
<1>6. Generations'
    <2>0. /\ \A g \in Streams : g > generation /\ at[g] = "none" => at'[g] = "none"
          /\ generation' = generation
        BY <1>2 DEF stream, observer
    <2>1. CASE method # "reconnect_events"
        <3>1. Pending' \subseteq Pending
            BY <1>3, <2>1 DEF Pending
        <3>. QED  BY <1>0, <2>0, <3>1, RoomKept
    <2>2. CASE method = "reconnect_events"
        <3>. DEFINE asking == {c \in Callers : ~Resting(c) /\ job[c] = "reconnect_events"}
        <3>1. /\ IsFiniteSet(asking) /\ Cardinality(asking) \in Nat
              /\ generation + Cardinality(asking) < MaxStreams
            <4>1. asking \subseteq Callers
                OBVIOUS
            <4>2. generation + Cardinality(asking) < MaxStreams
                BY <1>0, <2>2 DEF Room
            <4>. QED  BY <4>1, <4>2, Constants, FS_Subset, FS_CardinalityType
        <3>2. Pending \subseteq asking
            BY <1>0 DEF Pending, Paths, Path
        <3>3. Pending' \subseteq asking \union {r}
            BY <1>3, <3>2 DEF Pending
        <3>. HIDE DEF asking
        <3>4. /\ IsFiniteSet(asking \union {r})
              /\ Cardinality(asking \union {r}) \in {Cardinality(asking), Cardinality(asking) + 1}
            BY <3>1, FS_AddElement
        <3>5. Cardinality(Pending') <= Cardinality(asking \union {r}) /\ Cardinality(Pending') \in Nat
            BY <3>3, <3>4, FS_Subset, FS_CardinalityType
        <3>6. generation \in Nat
            BY <1>0, Constants DEF Types
        <3>7. generation' + Cardinality(Pending') <= MaxStreams
            BY <2>0, <3>1, <3>4, <3>5, <3>6, Constants
        <3>. QED  BY <1>0, <2>0, <3>7 DEF Generations
    <2>. QED  BY <2>1, <2>2
<1>7. (Active <= Limit)'
    <2>1. Holding' = Holding /\ Fetching' \subseteq Fetching
        BY <1>0, <1>2, <1>3 DEF Holding, Fetching, stream, Callers
    <2>. QED  BY <1>0, <2>1, PermitsKept
<1>8. DisplaySettles'
    BY <1>0, <1>2 DEF DisplaySettles, Refused, stream, observer
<1>9. Sequential'
    <2>. SUFFICES ASSUME ~overlap PROVE OneLead' /\ Threads' /\ Views' /\ Halting'
        BY DEF Sequential
    <2>0. Threads /\ Halting /\ Views
        BY DEF SessionIInv, Sequential
    <2>1. Alone(r) /\ \A d \in Requests : pc[d] = "idle"
        BY DEF Begin, Quiet, Alone, Leads, Resting
    <2>2. View(r)'
        BY <1>3 DEF View, StopLabels
    <2>3. OneLead' /\ \A d \in Callers : View(d)'
        BY <1>0, <1>3, <2>1, <2>2, LeadKeeps
    <2>4. Views'
        <3>1. streamStop = streamThread
            BY <1>0, <2>1, AloneKnows
        <3>. QED  BY <1>2, <2>3, <3>1 DEF Views, observer
    <2>5. \A v : v \in Workers /\ WorkerAlive(v)' => WorkerAlive(v)
        BY <1>0, <1>3 DEF WorkerAlive, Callers
    <2>6. \A g : StreamAlive(g)' <=> StreamAlive(g)
        BY <1>2 DEF StreamAlive, stream
    <2>7. Threads'
        BY <1>2, <2>0, <2>5, <2>6 DEF Threads, observer
    <2>8. Halting'
        <3>1. sessionStop => \A g \in Streams : StreamAlive(g) => g \in stopSet
            BY <2>0, <2>1 DEF Halting
        <3>. QED  BY <1>2, <2>0, <2>5, <2>6, <3>1 DEF Halting, Stopping, observer, stream
    <2>. QED  BY <2>3, <2>4, <2>7, <2>8
<1>. QED  BY <1>4, <1>5, <1>6, <1>7, <1>8, <1>9 DEF SessionIInv

\* A record that cannot be stored, and a step that changes nothing, keep it.
LEMMA StillStep ==
    ASSUME SessionIInv, overlap' = overlap,
           UNCHANGED <<observer, client, stream, caller>>, log' = log \/ log' = "closed"
    PROVE  SessionIInv'
<1>. USE DEF observer, client, stream, caller, SessionIInv
<1>1. Types'
    BY DEF Types
<1>2. Paths'
    BY DEF Paths, Path, Resting
<1>3. Generations'
    BY DEF Generations, Pending
<1>4. (Active <= Limit)'
    <2>1. Holding' = Holding /\ Fetching' = Fetching
        BY DEF Holding, Fetching
    <2>. QED  BY <2>1, PermitsKept
<1>5. DisplaySettles'
    BY DEF DisplaySettles, Refused
<1>6. Sequential'
    <2>1. \A g : StreamAlive(g)' <=> StreamAlive(g)
        BY DEF StreamAlive
    <2>2. \A w : WorkerAlive(w)' <=> WorkerAlive(w)
        BY DEF WorkerAlive
    <2>3. Stopping' = Stopping
        BY DEF Stopping
    <2>. HIDE DEF SessionIInv
    <2>. SUFFICES ASSUME ~overlap PROVE OneLead' /\ Threads' /\ Views' /\ Halting'
        BY DEF Sequential
    <2>4. OneLead /\ Threads /\ Views /\ Halting
        BY DEF SessionIInv, Sequential
    <2>5. OneLead'
        BY <2>4 DEF OneLead, Alone, Resting
    <2>6. Threads'
        BY <2>1, <2>2, <2>4 DEF Threads
    <2>7. Views'
        BY <2>1, <2>3, <2>4 DEF Views, View
    <2>8. Halting'
        BY <2>1, <2>2, <2>3, <2>4 DEF Halting
    <2>. QED  BY <2>5, <2>6, <2>7, <2>8
<1>. QED  BY <1>1, <1>2, <1>3, <1>4, <1>5, <1>6
-----------------------------------------------------------------------------
\* The observer that start() leaves satisfies the invariant.
LEMMA SessionInit == Init => SessionIInv
<1>. SUFFICES ASSUME Init PROVE SessionIInv
    OBVIOUS
<1>0. /\ session = "starting" /\ display = "not_connected" /\ generation = 0
      /\ streamThread = None /\ streamStop = None /\ refreshThread = 1
      /\ sessionStop = FALSE /\ response = None /\ shut = {}
      /\ log \in {"memory", "open"} /\ overlap \in BOOLEAN
      /\ at = [g \in Streams |-> "none"] /\ stopSet = {}
      /\ reason = [g \in Streams |-> "error"]
      /\ pc = [c \in Callers |-> IF c \in Requests THEN "idle"
                                 ELSE IF c = 1 THEN "head" ELSE "none"]
      /\ job = [c \in Callers |-> IF c = 1 THEN "reconnect_events" ELSE "none"]
      /\ seen = [c \in Callers |-> <<None, None>>]
      /\ mine = [c \in Callers |-> None]
      /\ left = [w \in Workers |-> Endpoints]
    BY ObserverConstants DEF Init
<1>1. /\ pc[1] = "head" /\ job[1] = "reconnect_events" /\ 1 \in Callers
      /\ \A c \in Callers : c # 1 => /\ job[c] = "none"
                                     /\ c \in Requests => pc[c] = "idle"
                                     /\ c \notin Requests => pc[c] = "none"
    BY <1>0, Constants DEF Callers
<1>2. Types
    <2>1. /\ pc \in [Callers -> RequestLabels \union WorkerLabels]
          /\ job \in [Callers -> Methods \union {"none"}]
        BY <1>0 DEF RequestLabels, WorkerLabels, Methods
    <2>2. /\ at \in [Streams -> StreamLabels] /\ reason \in [Streams -> Reasons]
          /\ left \in [Workers -> 0..Endpoints]
        BY <1>0, Constants DEF StreamLabels, Reasons
    <2>3. generation \in 0..MaxStreams /\ refreshThread \in Workers
        BY <1>0, Constants
    <2>. QED  BY <1>0, <2>1, <2>2, <2>3 DEF Types
<1>3. Paths
    <2>1. Path(1)
        BY <1>1, Constants DEF Path, Resting, WorkerLabels, StopLabels, OpenLabels
    <2>2. \A c \in Callers : c # 1 => Path(c)
        <3>1. \A c \in Callers : c \in Requests <=> c \notin Workers
            BY Constants DEF Callers
        <3>. QED  BY <1>1, <3>1 DEF Path, Resting, RequestLabels, WorkerLabels, StopLabels, OpenLabels
    <2>. QED  BY <2>1, <2>2 DEF Paths
<1>4. Generations
    <2>1. Pending = {1}
        BY <1>1 DEF Pending
    <2>2. Cardinality(Pending) = 1
        BY <2>1, FS_Singleton
    <2>. QED  BY <1>0, <2>2, Constants DEF Generations
<1>5. Active <= Limit
    <2>1. Holding = {} /\ Fetching = {}
        BY <1>0, <1>1, Constants DEF Holding, Fetching, Callers
    <2>2. Cardinality(Holding) = 0 /\ Cardinality(Fetching) = 0
        BY <2>1, FS_EmptySet
    <2>. QED  BY <2>2, ActiveIs, Constants
<1>6. DisplaySettles
    BY <1>0 DEF DisplaySettles
<1>7. Sequential
    <2>1. OneLead
        <3>1. \A d \in Leads : d # 1 => Resting(d)
            BY <1>1 DEF Leads, Resting, Callers
        <3>. QED  BY <3>1 DEF OneLead, Alone
    <2>2. \A g \in Streams : ~StreamAlive(g)
        BY <1>0 DEF StreamAlive
    <2>3. Threads
        <3>1. \A w \in Workers : WorkerAlive(w) => w = 1
            BY <1>1, Constants DEF WorkerAlive, Callers
        <3>. QED  BY <1>0, <2>2, <3>1 DEF Threads
    <2>4. Views
        <3>1. \A c \in Callers : pc[c] \in {"head", "idle", "none"}
            BY <1>1
        <3>. QED  BY <1>0, <3>1 DEF Views, View, StopLabels
    <2>5. Halting
        BY <1>0 DEF Halting
    <2>. QED  BY <2>1, <2>3, <2>4, <2>5 DEF Sequential
<1>. QED  BY <1>2, <1>3, <1>4, <1>5, <1>6, <1>7 DEF SessionIInv

\* Every step keeps the invariant.
LEMMA SessionNext == SessionIInv /\ [Next]_vars => SessionIInv'
<1>. SUFFICES ASSUME SessionIInv, [Next]_vars PROVE SessionIInv'
    OBVIOUS
<1>1. CASE UNCHANGED vars
    BY <1>1, StillStep DEF vars
<1>2. CASE Next
    <2>0. overlap' = overlap
        BY <1>2 DEF Next
    <2>1. ASSUME NEW r \in Requests, NEW method \in Methods, Begin(r, method) PROVE SessionIInv'
        BY <2>0, <2>1, BeginStep
    <2>2. ASSUME NEW c \in Callers, CallerStep(c) PROVE SessionIInv'
        <3>1. CASE StopEvents(c)
            BY <2>0, <3>1, StopEventsStep, ForgetStep DEF StopEvents
        <3>2. CASE ReconnectEvents(c)
            BY <2>0, <3>2, GenerationStep, ThreadStep DEF ReconnectEvents
        <3>3. CASE c \in Workers /\ Worker(c)
            BY <2>0, <3>3, WorkerStep, ConnectStep DEF Worker
        <3>4. CASE c \in Requests /\ Request(c)
            BY <2>0, <3>4, RefreshStep, LaunchStep, HaltStep, WaitStep, FinishStep DEF Request
        <3>. QED  BY <2>2, <3>1, <3>2, <3>3, <3>4 DEF CallerStep
    <2>3. ASSUME NEW g \in Streams, StreamThread(g) \/ Device(g) PROVE SessionIInv'
        BY <2>0, <2>3, StreamStep
    <2>4. CASE StorageFails
        BY <2>0, <2>4, StillStep DEF StorageFails, caller
    <2>. QED  BY <1>2, <2>1, <2>2, <2>3, <2>4 DEF Next
<1>. QED  BY <1>1, <1>2

\* The inductive invariant holds of every behaviour.
THEOREM SessionIsConsistent == Spec => []SessionIInv
BY SessionInit, SessionNext, PTL DEF Spec

\* The permits of the budget are never more than the limit; and, of an operator
\* who waits for each answer, one stream at most holds one, and a session that
\* says it stopped holds none (_connect_worker, stop, _finish_stop_if_complete).
THEOREM ObserverIsSafe == Spec => []SessionInv
<1>1. SessionIInv => SessionInv
    <2>. SUFFICES ASSUME SessionIInv PROVE SessionInv
        OBVIOUS
    <2>0. Types /\ Active <= Limit /\ Sequential
        BY DEF SessionIInv
    <2>1. TypeOK
        BY <2>0 DEF Types, TypeOK
    <2>2. ASSUME ~overlap PROVE OneStream
        <3>1. \A g \in Holding : g = streamThread
            BY <2>0, <2>2, Constants DEF Sequential, Threads, Holding, StreamAlive
        <3>2. Holding \subseteq {streamThread}
            BY <3>1
        <3>3. Cardinality(Holding) <= Cardinality({streamThread})
            BY <3>2, FS_Singleton, FS_Subset
        <3>4. Cardinality({streamThread}) = 1
            BY FS_Singleton
        <3>. QED  BY <3>3, <3>4 DEF OneStream
    <2>3. ASSUME ~overlap PROVE StoppedReclaimed
        <3>. SUFFICES ASSUME session = "stopped" PROVE Active = 0
            BY DEF StoppedReclaimed
        <3>1. Holding = {}
            BY <2>0, <2>3, Constants DEF Sequential, Halting, Holding, StreamAlive
        <3>2. Fetching = {}
            BY <2>0, <2>3, Constants DEF Sequential, Halting, Fetching, WorkerAlive
        <3>. QED  BY <3>1, <3>2, ActiveIs, FS_EmptySet
    <2>. QED  BY <2>1, <2>2, <2>3 DEF SessionInv
<1>. QED  BY <1>1, SessionIsConsistent, PTL

\* Once stop() has returned to an operator who waits for each answer, every
\* live stream has been told to stop (stop, stop_events).
THEOREM StopTellsTheStream == Spec => []StopClosesSocket
<1>1. SessionIInv => StopClosesSocket
    <2>. SUFFICES ASSUME SessionIInv, ~overlap, sessionStop, \A c \in Callers : Resting(c)
                  PROVE  \A g \in Streams : StreamAlive(g) => g \in stopSet
        BY DEF StopClosesSocket, StopReachesAll
    <2>1. Halting
        BY DEF SessionIInv, Sequential
    <2>2. \A r \in Requests : pc[r] \notin {"read", "alive", "signal"}
        BY DEF Callers, Resting
    <2>. QED  BY <2>1, <2>2 DEF Halting
<1>. QED  BY <1>1, SessionIsConsistent, PTL

\* When the newest stream has ended, the page shows an end state, also when
\* requests overlap (_on_sse_state, stop_events).
THEOREM DisplayIsSettled == Spec => []DisplaySettles
BY SessionIsConsistent, PTL DEF SessionIInv

\* No step takes a stop back, also when requests overlap (_refresh_worker).
THEOREM StopStaysFinal == Spec => StopIsFinal
<1>1. [Next]_vars => [Stopping => Stopping']_vars
    <2>. SUFFICES ASSUME Next, Stopping PROVE Stopping'
        BY DEF vars
    <2>1. session' = session => Stopping'
        BY DEF Stopping
    <2>2. session' \in {"stopping", "stopped"} => Stopping'
        BY DEF Stopping
    <2>. HIDE DEF Stopping
    <2>. USE DEF observer, client, stream, caller, Private, Shown
    <2>3. ASSUME NEW r \in Requests, NEW method \in Methods, Begin(r, method) PROVE Stopping'
        BY <2>1, <2>3 DEF Begin
    <2>4. ASSUME NEW c \in Callers, CallerStep(c) PROVE Stopping'
        <3>1. CASE StopEvents(c)
            BY <2>1, <3>1 DEF StopEvents, ReadStream, CheckAlive, SignalStop, CloseStream,
                              JoinStream, JoinTimeout, ForgetStream
        <3>2. CASE ReconnectEvents(c)
            BY <2>1, <3>2 DEF ReconnectEvents, NewGeneration, PublishThread, StartThread
        <3>3. CASE Worker(c)
            BY <2>1, <3>3 DEF Worker, NextEndpoint, LeaseFetch, Fetched, Observe, Connect
        <3>4. CASE Request(c)
            BY <2>1, <2>2, <3>4 DEF Request, Refresh, LaunchWorker, Stop, Halt, AwaitWorker,
                                    FinishStop, RecordStop
        <3>. QED  BY <2>4, <3>1, <3>2, <3>3, <3>4 DEF CallerStep
    <2>5. ASSUME NEW g \in Streams, StreamThread(g) PROVE Stopping'
        BY <2>1, <2>5 DEF StreamThread, Connecting, LeaseStream, Open, CheckStop, Register,
                          Announce, ReadLine, ReadShut, Failing, Unregister, Closed
    <2>6. ASSUME NEW g \in Streams, Device(g) PROVE Stopping'
        BY <2>1, <2>6 DEF Device, Event, Hangup
    <2>7. CASE StorageFails
        BY <2>1, <2>7 DEF StorageFails
    <2>. QED  BY <2>3, <2>4, <2>5, <2>6, <2>7 DEF Next
<1>. QED  BY <1>1, PTL DEF Spec, StopIsFinal
=============================================================================
