------------------------- MODULE ModeManagerProofs -------------------------
(***************************************************************************)
(* Proofs about ModeManager, for any handler threads and any number of     *)
(* requests and faults.  ModeInv is the inductive invariant.               *)
(***************************************************************************)
EXTENDS ModeManager, TLAPS

\* Where a thread is while it holds the transition lock.
Starting == {"check", "pause", "halt", "join", "create", "install", "watch"}

\* The transition lock is held by the thread that is behind its acquisition,
\* and by no other (_transition_lock).
Locks ==
    /\ \A r \in Requests : /\ pc[r] \in {"idle", "stop", "enter"} \union Starting
                           /\ transition = r <=> pc[r] \in Starting
    /\ \A w \in Sessions : /\ pc[w] \in {"none", "waiting", "enter", "resume", "dead"}
                           /\ transition = w <=> pc[w] = "resume"
    /\ pc[Main] \in {"none", "enter", "done"} \union Kinds
    /\ transition = Main <=> pc[Main] \in Kinds
    /\ shutdown <=> pc[Main] # "none"

\* What a start has made sure of, as far as it has come.
Checked ==
    \A r \in Requests :
        /\ pc[r] \in {"pause", "halt", "join", "create", "install"} =>
              ~Running("churn") /\ ~Running("capture")
        /\ pc[r] = "halt" => installed["observation"] # None
        /\ pc[r] \in {"create", "install"} => ~Running("observation")
        /\ pc[r] \in {"stop", "install", "watch"} => mine[r] \in Sessions
        /\ pc[r] = "install" => state[mine[r]] = "created" /\ kind[mine[r]] = goal[r]

\* Installed sessions are of their kind and have been started; a session that
\* uses the device is installed, and beside a run no observation is.
Installed ==
    /\ \A k \in Kinds : installed[k] # None =>
          /\ kind[installed[k]] = k
          /\ state[installed[k]] \in {"live", "stopping", "ended"}
    /\ OneMode
    /\ \A k \in Runs : Running(k) => installed["observation"] = None

\* The run that the present generation began with is the one to wait for.
Begun(s) ==
    /\ kind[s] \in Runs /\ installed[kind[s]] = s
    /\ installed["observation"] = None
    /\ \A k \in Kinds : Running(k) => installed[k] = s

Waiting(w) == pc[w] \in {"waiting", "enter", "resume"}

\* Of the watchers, at most one is of the present generation.
Watchers ==
    /\ \A w \in Sessions : gen[w] <= generation
    /\ \A w \in Sessions : Waiting(w) /\ gen[w] = generation => Begun(w)
    /\ \A w \in Sessions : pc[w] \in {"enter", "resume"} => shutdown \/ state[w] = "ended"
    /\ \A v, w \in Sessions :
          Waiting(v) /\ Waiting(w) /\ gen[v] = generation /\ gen[w] = generation => v = w
    /\ \A r \in Requests : pc[r] = "watch" =>
          Begun(mine[r]) /\ \A w \in Sessions : gen[w] < generation

\* How far the shutdown has come with telling the sessions to stop.
Down ==
    /\ pc[Main] \in {"churn", "capture", "done"} =>
          \A s \in Sessions : kind[s] = "observation" => state[s] # "live"
    /\ pc[Main] \in {"capture", "done"} =>
          \A s \in Sessions : kind[s] = "churn" => state[s] # "live"
    /\ pc[Main] = "done" =>
          \A s \in Sessions : kind[s] = "capture" => state[s] # "live"

ModeInv ==
    /\ TypeOK /\ Locks /\ Checked /\ Installed /\ Watchers /\ Down
    /\ ModeShown /\ ReturnWatched
-----------------------------------------------------------------------------
\* Handlers, sessions and the main thread are different things.
LEMMA Distinct ==
    /\ \A r \in Requests : r \notin Sessions /\ r # Main /\ r # None
    /\ \A s \in Sessions : s # Main /\ s # None
    /\ Main # None
    BY ManagerConstants

\* The kinds of session, one by one.
LEMMA KindsAre == Kinds = {"observation", "churn", "capture"} /\ Runs = {"churn", "capture"}
    BY DEF Kinds, Runs

\* What a session does by itself keeps the invariant.
LEMMA SessionSteps ==
    ASSUME ModeInv, NEW s \in Sessions, Ends(s)
    PROVE  ModeInv'
<1>. USE DEF Ends, ObservationEnds, RunEnds, RunRecorded, manager, thread, bounds
<1>0. /\ TypeOK /\ Locks /\ Checked /\ Installed /\ Watchers /\ Down
      /\ ModeShown /\ ReturnWatched
    BY DEF ModeInv
<1>1. TypeOK'
    BY <1>0, Distinct, KindsAre DEF TypeOK, Fault, Labels, States
<1>2. Locks'
    BY <1>0, Distinct, KindsAre DEF Locks, Starting, Using, TypeOK
<1>3. Checked'
    BY <1>0, Distinct, KindsAre DEF Checked, Locks, Starting, Running, Using, Installed, OneMode, TypeOK
<1>4. Installed'
    BY <1>0, Distinct, KindsAre DEF Installed, OneMode, Checked, Locks, Starting, Running, Using, TypeOK
<1>5. Watchers'
    BY <1>0, Distinct, KindsAre DEF Watchers, Waiting, Begun, Installed, Locks, Starting, Running, Using, TypeOK
<1>6. Down'
    BY <1>0, Distinct, KindsAre DEF Down, Installed, OneMode, Locks, Starting, Using, TypeOK
<1>7. ModeShown'
    BY <1>0, Distinct, KindsAre DEF ModeShown, Installed, OneMode, Checked, Locks, Starting, Running, Using, TypeOK
<1>8. ReturnWatched'
    BY <1>0, Distinct, KindsAre DEF ReturnWatched, Locks, Starting, TypeOK
<1>. QED  BY <1>1, <1>2, <1>3, <1>4, <1>5, <1>6, <1>7, <1>8 DEF ModeInv

\* A stop request that reads the session keeps the invariant.
LEMMA ReadSessionStep ==
    ASSUME ModeInv, NEW r \in Requests, NEW k \in Kinds, ReadSession(r, k)
    PROVE  ModeInv'
<1>. USE DEF ReadSession, Goto, manager, session
<1>0. /\ TypeOK /\ Locks /\ Checked /\ Installed /\ Watchers /\ Down
      /\ ModeShown /\ ReturnWatched
    BY DEF ModeInv
<1>1. TypeOK'
  <2>1. installed' \in [Kinds -> Sessions \union {None}]
    BY <1>0, Distinct, ManagerConstants DEF TypeOK, Fault, Kinds, Runs, Checked
  <2>2. generation' \in Nat
    BY <1>0, Distinct, ManagerConstants DEF TypeOK, Fault, Kinds
  <2>3. active' \in Runs \union {None}
    BY <1>0, Distinct, ManagerConstants DEF TypeOK, Fault, Kinds
  <2>4. /\ resume' \in BOOLEAN /\ resumeError' \in BOOLEAN
        /\ lost' \in BOOLEAN /\ shutdown' \in BOOLEAN
    BY <1>0, Distinct, ManagerConstants DEF TypeOK, Fault, Kinds
  <2>5. /\ kind' \in [Sessions -> Kinds] /\ state' \in [Sessions -> States]
        /\ recorded' \subseteq Sessions
    BY <1>0, Distinct, ManagerConstants DEF TypeOK, Fault, States, Kinds
  <2>6. /\ transition' \in Requests \union Sessions \union {Main, None}
        /\ pc' \in [Requests \union Sessions \union {Main} -> Labels]
    BY <1>0, Distinct, ManagerConstants DEF TypeOK, Fault, Labels, Kinds
  <2>7. /\ goal' \in [Requests -> Kinds] /\ gen' \in [Sessions -> Nat]
        /\ mine' \in [Requests -> Sessions \union {None}]
    BY <1>0, Distinct, ManagerConstants DEF TypeOK, Fault, Kinds
  <2>8. paused' \in [Requests -> BOOLEAN]
    BY <1>0, Distinct, ManagerConstants DEF TypeOK, Fault, Kinds
  <2>9. /\ requests' \in 0..MaxRequests /\ faults' \in 0..MaxFaults
    BY <1>0, Distinct, ManagerConstants DEF TypeOK, Fault, Kinds
  <2>. QED  BY <2>1, <2>2, <2>3, <2>4, <2>5, <2>6, <2>7, <2>8, <2>9 DEF TypeOK
<1>2. Locks'
    BY <1>0, Distinct, KindsAre DEF Locks, Starting, Using, TypeOK
<1>3. Checked'
    BY <1>0, Distinct, KindsAre DEF Checked, Locks, Starting, Running, Using, Installed, OneMode, TypeOK
<1>4. Installed'
    BY <1>0, Distinct, KindsAre DEF Installed, OneMode, Checked, Locks, Starting, Running, Using, TypeOK
<1>5. Watchers'
    BY <1>0, Distinct, KindsAre DEF Watchers, Waiting, Begun, Installed, Locks, Starting, Running, Using, TypeOK
<1>6. Down'
    BY <1>0, Distinct, KindsAre DEF Down, Installed, OneMode, Locks, Starting, Using, TypeOK
<1>7. ModeShown'
    BY <1>0, Distinct, KindsAre DEF ModeShown, Installed, OneMode, Checked, Locks, Starting, Running, Using, TypeOK
<1>8. ReturnWatched'
    BY <1>0, Distinct, KindsAre DEF ReturnWatched, Locks, Starting, TypeOK
<1>. QED  BY <1>1, <1>2, <1>3, <1>4, <1>5, <1>6, <1>7, <1>8 DEF ModeInv

\* A stop request keeps the invariant.
LEMMA StopSessionStep ==
    ASSUME ModeInv, NEW r \in Requests, StopSession(r)
    PROVE  ModeInv'
<1>. USE DEF StopSession, Told, Goto, manager, bounds
<1>0. /\ TypeOK /\ Locks /\ Checked /\ Installed /\ Watchers /\ Down
      /\ ModeShown /\ ReturnWatched
    BY DEF ModeInv
<1>1. TypeOK'
    BY <1>0, Distinct, KindsAre DEF TypeOK, Fault, Labels, States
<1>2. Locks'
    BY <1>0, Distinct, KindsAre DEF Locks, Starting, Using, TypeOK
<1>3. Checked'
    BY <1>0, Distinct, KindsAre DEF Checked, Locks, Starting, Running, Using, Installed, OneMode, TypeOK
<1>4. Installed'
    BY <1>0, Distinct, KindsAre DEF Installed, OneMode, Checked, Locks, Starting, Running, Using, TypeOK
<1>5. Watchers'
    BY <1>0, Distinct, KindsAre DEF Watchers, Waiting, Begun, Installed, Locks, Starting, Running, Using, TypeOK
<1>6. Down'
    BY <1>0, Distinct, KindsAre DEF Down, Installed, OneMode, Locks, Starting, Using, TypeOK
<1>7. ModeShown'
    BY <1>0, Distinct, KindsAre DEF ModeShown, Installed, OneMode, Checked, Locks, Starting, Running, Using, TypeOK
<1>8. ReturnWatched'
    BY <1>0, Distinct, KindsAre DEF ReturnWatched, Locks, Starting, TypeOK
<1>. QED  BY <1>1, <1>2, <1>3, <1>4, <1>5, <1>6, <1>7, <1>8 DEF ModeInv

\* The request of a start keeps the invariant.
LEMMA RequestStep ==
    ASSUME ModeInv, NEW r \in Requests, NEW k \in Kinds, Request(r, k)
    PROVE  ModeInv'
<1>. USE DEF Request, Goto, manager, session
<1>0. /\ TypeOK /\ Locks /\ Checked /\ Installed /\ Watchers /\ Down
      /\ ModeShown /\ ReturnWatched
    BY DEF ModeInv
<1>1. TypeOK'
  <2>1. installed' \in [Kinds -> Sessions \union {None}]
    BY <1>0, Distinct, ManagerConstants DEF TypeOK, Fault, Kinds, Runs, Checked
  <2>2. generation' \in Nat
    BY <1>0, Distinct, ManagerConstants DEF TypeOK, Fault, Kinds
  <2>3. active' \in Runs \union {None}
    BY <1>0, Distinct, ManagerConstants DEF TypeOK, Fault, Kinds
  <2>4. /\ resume' \in BOOLEAN /\ resumeError' \in BOOLEAN
        /\ lost' \in BOOLEAN /\ shutdown' \in BOOLEAN
    BY <1>0, Distinct, ManagerConstants DEF TypeOK, Fault, Kinds
  <2>5. /\ kind' \in [Sessions -> Kinds] /\ state' \in [Sessions -> States]
        /\ recorded' \subseteq Sessions
    BY <1>0, Distinct, ManagerConstants DEF TypeOK, Fault, States, Kinds
  <2>6. /\ transition' \in Requests \union Sessions \union {Main, None}
        /\ pc' \in [Requests \union Sessions \union {Main} -> Labels]
    BY <1>0, Distinct, ManagerConstants DEF TypeOK, Fault, Labels, Kinds
  <2>7. /\ goal' \in [Requests -> Kinds] /\ gen' \in [Sessions -> Nat]
        /\ mine' \in [Requests -> Sessions \union {None}]
    BY <1>0, Distinct, ManagerConstants DEF TypeOK, Fault, Kinds
  <2>8. paused' \in [Requests -> BOOLEAN]
    BY <1>0, Distinct, ManagerConstants DEF TypeOK, Fault, Kinds
  <2>9. /\ requests' \in 0..MaxRequests /\ faults' \in 0..MaxFaults
    BY <1>0, Distinct, ManagerConstants DEF TypeOK, Fault, Kinds
  <2>. QED  BY <2>1, <2>2, <2>3, <2>4, <2>5, <2>6, <2>7, <2>8, <2>9 DEF TypeOK
<1>2. Locks'
    BY <1>0, Distinct, KindsAre DEF Locks, Starting, Using, TypeOK
<1>3. Checked'
    BY <1>0, Distinct, KindsAre DEF Checked, Locks, Starting, Running, Using, Installed, OneMode, TypeOK
<1>4. Installed'
    BY <1>0, Distinct, KindsAre DEF Installed, OneMode, Checked, Locks, Starting, Running, Using, TypeOK
<1>5. Watchers'
    BY <1>0, Distinct, KindsAre DEF Watchers, Waiting, Begun, Installed, Locks, Starting, Running, Using, TypeOK
<1>6. Down'
    BY <1>0, Distinct, KindsAre DEF Down, Installed, OneMode, Locks, Starting, Using, TypeOK
<1>7. ModeShown'
    BY <1>0, Distinct, KindsAre DEF ModeShown, Installed, OneMode, Checked, Locks, Starting, Running, Using, TypeOK
<1>8. ReturnWatched'
    BY <1>0, Distinct, KindsAre DEF ReturnWatched, Locks, Starting, TypeOK
<1>. QED  BY <1>1, <1>2, <1>3, <1>4, <1>5, <1>6, <1>7, <1>8 DEF ModeInv

\* A start that takes the transition lock keeps the invariant.
LEMMA EnterStep ==
    ASSUME ModeInv, NEW r \in Requests, Enter(r)
    PROVE  ModeInv'
<1>. USE DEF Enter, Goto, manager, session, bounds
<1>0. /\ TypeOK /\ Locks /\ Checked /\ Installed /\ Watchers /\ Down
      /\ ModeShown /\ ReturnWatched
    BY DEF ModeInv
<1>1. TypeOK'
    BY <1>0, Distinct, KindsAre DEF TypeOK, Fault, Labels, States
<1>2. Locks'
    BY <1>0, Distinct, KindsAre DEF Locks, Starting, Using, TypeOK
<1>3. Checked'
    BY <1>0, Distinct, KindsAre DEF Checked, Locks, Starting, Running, Using, Installed, OneMode, TypeOK
<1>4. Installed'
    BY <1>0, Distinct, KindsAre DEF Installed, OneMode, Checked, Locks, Starting, Running, Using, TypeOK
<1>5. Watchers'
    BY <1>0, Distinct, KindsAre DEF Watchers, Waiting, Begun, Installed, Locks, Starting, Running, Using, TypeOK
<1>6. Down'
    BY <1>0, Distinct, KindsAre DEF Down, Installed, OneMode, Locks, Starting, Using, TypeOK
<1>7. ModeShown'
    BY <1>0, Distinct, KindsAre DEF ModeShown, Installed, OneMode, Checked, Locks, Starting, Running, Using, TypeOK
<1>8. ReturnWatched'
    BY <1>0, Distinct, KindsAre DEF ReturnWatched, Locks, Starting, TypeOK
<1>. QED  BY <1>1, <1>2, <1>3, <1>4, <1>5, <1>6, <1>7, <1>8 DEF ModeInv

\* A start that asks for running sessions keeps the invariant.
LEMMA CheckStep ==
    ASSUME ModeInv, NEW r \in Requests, Check(r)
    PROVE  ModeInv'
<1>. USE DEF Check, Admissible, Leave, Goto, manager, session, bounds
<1>0. /\ TypeOK /\ Locks /\ Checked /\ Installed /\ Watchers /\ Down
      /\ ModeShown /\ ReturnWatched
    BY DEF ModeInv
<1>1. TypeOK'
    BY <1>0, Distinct, KindsAre DEF TypeOK, Fault, Labels, States
<1>2. Locks'
    BY <1>0, Distinct, KindsAre DEF Locks, Starting, Using, TypeOK
<1>3. Checked'
    BY <1>0, Distinct, KindsAre DEF Checked, Locks, Starting, Running, Using, Installed, OneMode, TypeOK
<1>4. Installed'
    BY <1>0, Distinct, KindsAre DEF Installed, OneMode, Checked, Locks, Starting, Running, Using, TypeOK
<1>5. Watchers'
    BY <1>0, Distinct, KindsAre DEF Watchers, Waiting, Begun, Installed, Locks, Starting, Running, Using, TypeOK
<1>6. Down'
    BY <1>0, Distinct, KindsAre DEF Down, Installed, OneMode, Locks, Starting, Using, TypeOK
<1>7. ModeShown'
    BY <1>0, Distinct, KindsAre DEF ModeShown, Installed, OneMode, Checked, Locks, Starting, Running, Using, TypeOK
<1>8. ReturnWatched'
    BY <1>0, Distinct, KindsAre DEF ReturnWatched, Locks, Starting, TypeOK
<1>. QED  BY <1>1, <1>2, <1>3, <1>4, <1>5, <1>6, <1>7, <1>8 DEF ModeInv

\* A start that looks for an observation keeps the invariant.
LEMMA PauseStep ==
    ASSUME ModeInv, NEW r \in Requests, Pause(r)
    PROVE  ModeInv'
<1>. USE DEF Pause, Goto, manager, session, bounds
<1>0. /\ TypeOK /\ Locks /\ Checked /\ Installed /\ Watchers /\ Down
      /\ ModeShown /\ ReturnWatched
    BY DEF ModeInv
<1>1. TypeOK'
    BY <1>0, Distinct, KindsAre DEF TypeOK, Fault, Labels, States
<1>2. Locks'
    BY <1>0, Distinct, KindsAre DEF Locks, Starting, Using, TypeOK
<1>3. Checked'
    BY <1>0, Distinct, KindsAre DEF Checked, Locks, Starting, Running, Using, Installed, OneMode, TypeOK
<1>4. Installed'
    BY <1>0, Distinct, KindsAre DEF Installed, OneMode, Checked, Locks, Starting, Running, Using, TypeOK
<1>5. Watchers'
    BY <1>0, Distinct, KindsAre DEF Watchers, Waiting, Begun, Installed, Locks, Starting, Running, Using, TypeOK
<1>6. Down'
    BY <1>0, Distinct, KindsAre DEF Down, Installed, OneMode, Locks, Starting, Using, TypeOK
<1>7. ModeShown'
    BY <1>0, Distinct, KindsAre DEF ModeShown, Installed, OneMode, Checked, Locks, Starting, Running, Using, TypeOK
<1>8. ReturnWatched'
    BY <1>0, Distinct, KindsAre DEF ReturnWatched, Locks, Starting, TypeOK
<1>. QED  BY <1>1, <1>2, <1>3, <1>4, <1>5, <1>6, <1>7, <1>8 DEF ModeInv

\* A start that stops the observation keeps the invariant.
LEMMA HaltStep ==
    ASSUME ModeInv, NEW r \in Requests, Halt(r)
    PROVE  ModeInv'
<1>. USE DEF Halt, Told, Goto, manager, bounds
<1>0. /\ TypeOK /\ Locks /\ Checked /\ Installed /\ Watchers /\ Down
      /\ ModeShown /\ ReturnWatched
    BY DEF ModeInv
<1>1. TypeOK'
    BY <1>0, Distinct, KindsAre DEF TypeOK, Fault, Labels, States
<1>2. Locks'
    BY <1>0, Distinct, KindsAre DEF Locks, Starting, Using, TypeOK
<1>3. Checked'
    BY <1>0, Distinct, KindsAre DEF Checked, Locks, Starting, Running, Using, Installed, OneMode, TypeOK
<1>4. Installed'
    BY <1>0, Distinct, KindsAre DEF Installed, OneMode, Checked, Locks, Starting, Running, Using, TypeOK
<1>5. Watchers'
    BY <1>0, Distinct, KindsAre DEF Watchers, Waiting, Begun, Installed, Locks, Starting, Running, Using, TypeOK
<1>6. Down'
    BY <1>0, Distinct, KindsAre DEF Down, Installed, OneMode, Locks, Starting, Using, TypeOK
<1>7. ModeShown'
    BY <1>0, Distinct, KindsAre DEF ModeShown, Installed, OneMode, Checked, Locks, Starting, Running, Using, TypeOK
<1>8. ReturnWatched'
    BY <1>0, Distinct, KindsAre DEF ReturnWatched, Locks, Starting, TypeOK
<1>. QED  BY <1>1, <1>2, <1>3, <1>4, <1>5, <1>6, <1>7, <1>8 DEF ModeInv

\* A start that has waited for the observation keeps the invariant.
LEMMA JoinStep ==
    ASSUME ModeInv, NEW r \in Requests, Join(r)
    PROVE  ModeInv'
<1>. USE DEF Join, Leave, Fault, Goto, manager, session, bounds
<1>0. /\ TypeOK /\ Locks /\ Checked /\ Installed /\ Watchers /\ Down
      /\ ModeShown /\ ReturnWatched
    BY DEF ModeInv
<1>1. TypeOK'
  <2>1. installed' \in [Kinds -> Sessions \union {None}]
    BY <1>0, Distinct, ManagerConstants DEF TypeOK, Fault, Kinds, Runs, Checked
  <2>2. generation' \in Nat
    BY <1>0, Distinct, ManagerConstants DEF TypeOK, Fault, Kinds
  <2>3. active' \in Runs \union {None}
    BY <1>0, Distinct, ManagerConstants DEF TypeOK, Fault, Kinds
  <2>4. /\ resume' \in BOOLEAN /\ resumeError' \in BOOLEAN
        /\ lost' \in BOOLEAN /\ shutdown' \in BOOLEAN
    BY <1>0, Distinct, ManagerConstants DEF TypeOK, Fault, Kinds
  <2>5. /\ kind' \in [Sessions -> Kinds] /\ state' \in [Sessions -> States]
        /\ recorded' \subseteq Sessions
    BY <1>0, Distinct, ManagerConstants DEF TypeOK, Fault, States, Kinds
  <2>6. /\ transition' \in Requests \union Sessions \union {Main, None}
        /\ pc' \in [Requests \union Sessions \union {Main} -> Labels]
    BY <1>0, Distinct, ManagerConstants DEF TypeOK, Fault, Labels, Kinds
  <2>7. /\ goal' \in [Requests -> Kinds] /\ gen' \in [Sessions -> Nat]
        /\ mine' \in [Requests -> Sessions \union {None}]
    BY <1>0, Distinct, ManagerConstants DEF TypeOK, Fault, Kinds
  <2>8. paused' \in [Requests -> BOOLEAN]
    <3>. DEFINE b == goal[r] \in Runs
    <3>1. paused' = paused \/ paused' = [paused EXCEPT ![r] = b]
      OBVIOUS
    <3>2. b \in BOOLEAN
      OBVIOUS
    <3>. HIDE DEF b
    <3>. QED  BY <1>0, <3>1, <3>2 DEF TypeOK
  <2>9. /\ requests' \in 0..MaxRequests /\ faults' \in 0..MaxFaults
    BY <1>0, Distinct, ManagerConstants DEF TypeOK, Fault, Kinds
  <2>. QED  BY <2>1, <2>2, <2>3, <2>4, <2>5, <2>6, <2>7, <2>8, <2>9 DEF TypeOK
<1>2. Locks'
    BY <1>0, Distinct, KindsAre DEF Locks, Starting, Using, TypeOK
<1>3. Checked'
    BY <1>0, Distinct, KindsAre DEF Checked, Locks, Starting, Running, Using, Installed, OneMode, TypeOK
<1>4. Installed'
    BY <1>0, Distinct, KindsAre DEF Installed, OneMode, Checked, Locks, Starting, Running, Using, TypeOK
<1>5. Watchers'
    BY <1>0, Distinct, KindsAre DEF Watchers, Waiting, Begun, Installed, Locks, Starting, Running, Using, TypeOK
<1>6. Down'
    BY <1>0, Distinct, KindsAre DEF Down, Installed, OneMode, Locks, Starting, Using, TypeOK
<1>7. ModeShown'
    BY <1>0, Distinct, KindsAre DEF ModeShown, Installed, OneMode, Checked, Locks, Starting, Running, Using, TypeOK
<1>8. ReturnWatched'
    BY <1>0, Distinct, KindsAre DEF ReturnWatched, Locks, Starting, TypeOK
<1>. QED  BY <1>1, <1>2, <1>3, <1>4, <1>5, <1>6, <1>7, <1>8 DEF ModeInv

\* A start that creates its session keeps the invariant.
LEMMA CreateStep ==
    ASSUME ModeInv, NEW r \in Requests, Create(r) \/ CreateFails(r)
    PROVE  ModeInv'
<1>. USE DEF Create, CreateFails, Fresh, Leave, Fault, Goto, manager, session, bounds
<1>0. /\ TypeOK /\ Locks /\ Checked /\ Installed /\ Watchers /\ Down
      /\ ModeShown /\ ReturnWatched
    BY DEF ModeInv
<1>1. TypeOK'
  <2>1. installed' \in [Kinds -> Sessions \union {None}]
    BY <1>0, Distinct, ManagerConstants DEF TypeOK, Fault, Kinds, Runs, Checked
  <2>2. generation' \in Nat
    BY <1>0, Distinct, ManagerConstants DEF TypeOK, Fault, Kinds
  <2>3. active' \in Runs \union {None}
    BY <1>0, Distinct, ManagerConstants DEF TypeOK, Fault, Kinds
  <2>4. /\ resume' \in BOOLEAN /\ resumeError' \in BOOLEAN
        /\ lost' \in BOOLEAN /\ shutdown' \in BOOLEAN
    BY <1>0, Distinct, ManagerConstants DEF TypeOK, Fault, Kinds
  <2>5. /\ kind' \in [Sessions -> Kinds] /\ state' \in [Sessions -> States]
        /\ recorded' \subseteq Sessions
    BY <1>0, Distinct, ManagerConstants DEF TypeOK, Fault, States, Kinds
  <2>6. /\ transition' \in Requests \union Sessions \union {Main, None}
        /\ pc' \in [Requests \union Sessions \union {Main} -> Labels]
    BY <1>0, Distinct, ManagerConstants DEF TypeOK, Fault, Labels, Kinds
  <2>7. /\ goal' \in [Requests -> Kinds] /\ gen' \in [Sessions -> Nat]
        /\ mine' \in [Requests -> Sessions \union {None}]
    BY <1>0, Distinct, ManagerConstants DEF TypeOK, Fault, Kinds
  <2>8. paused' \in [Requests -> BOOLEAN]
    BY <1>0, Distinct, ManagerConstants DEF TypeOK, Fault, Kinds
  <2>9. /\ requests' \in 0..MaxRequests /\ faults' \in 0..MaxFaults
    BY <1>0, Distinct, ManagerConstants DEF TypeOK, Fault, Kinds
  <2>. QED  BY <2>1, <2>2, <2>3, <2>4, <2>5, <2>6, <2>7, <2>8, <2>9 DEF TypeOK
<1>2. Locks'
    BY <1>0, Distinct, KindsAre DEF Locks, Starting, Using, TypeOK
<1>3. Checked'
    BY <1>0, Distinct, KindsAre DEF Checked, Locks, Starting, Running, Using, Installed, OneMode, TypeOK
<1>4. Installed'
    BY <1>0, Distinct, KindsAre DEF Installed, OneMode, Checked, Locks, Starting, Running, Using, TypeOK
<1>5. Watchers'
    BY <1>0, Distinct, KindsAre DEF Watchers, Waiting, Begun, Installed, Locks, Starting, Running, Using, TypeOK
<1>6. Down'
    BY <1>0, Distinct, KindsAre DEF Down, Installed, OneMode, Locks, Starting, Using, TypeOK
<1>7. ModeShown'
    BY <1>0, Distinct, KindsAre DEF ModeShown, Installed, OneMode, Checked, Locks, Starting, Running, Using, TypeOK
<1>8. ReturnWatched'
    BY <1>0, Distinct, KindsAre DEF ReturnWatched, Locks, Starting, TypeOK
<1>. QED  BY <1>1, <1>2, <1>3, <1>4, <1>5, <1>6, <1>7, <1>8 DEF ModeInv

\* The installation of a run keeps the invariant.
LEMMA InstallRunStep ==
    ASSUME ModeInv, NEW r \in Requests, InstallRun(r)
    PROVE  ModeInv'
<1>. USE DEF InstallRun, MayInstall, Leave, Goto, bounds
<1>0. /\ TypeOK /\ Locks /\ Checked /\ Installed /\ Watchers /\ Down
      /\ ModeShown /\ ReturnWatched
    BY DEF ModeInv
<1>1. TypeOK'
  <2>1. installed' \in [Kinds -> Sessions \union {None}]
    BY <1>0, Distinct, ManagerConstants DEF TypeOK, Fault, Kinds, Runs, Checked
  <2>2. generation' \in Nat
    BY <1>0, Distinct, ManagerConstants DEF TypeOK, Fault, Kinds
  <2>3. active' \in Runs \union {None}
    BY <1>0, Distinct, ManagerConstants DEF TypeOK, Fault, Kinds
  <2>4. /\ resume' \in BOOLEAN /\ resumeError' \in BOOLEAN
        /\ lost' \in BOOLEAN /\ shutdown' \in BOOLEAN
    BY <1>0, Distinct, ManagerConstants DEF TypeOK, Fault, Kinds
  <2>5. /\ kind' \in [Sessions -> Kinds] /\ state' \in [Sessions -> States]
        /\ recorded' \subseteq Sessions
    BY <1>0, Distinct, ManagerConstants DEF TypeOK, Fault, States, Kinds
  <2>6. /\ transition' \in Requests \union Sessions \union {Main, None}
        /\ pc' \in [Requests \union Sessions \union {Main} -> Labels]
    BY <1>0, Distinct, ManagerConstants DEF TypeOK, Fault, Labels, Kinds
  <2>7. /\ goal' \in [Requests -> Kinds] /\ gen' \in [Sessions -> Nat]
        /\ mine' \in [Requests -> Sessions \union {None}]
    BY <1>0, Distinct, ManagerConstants DEF TypeOK, Fault, Kinds
  <2>8. paused' \in [Requests -> BOOLEAN]
    BY <1>0, Distinct, ManagerConstants DEF TypeOK, Fault, Kinds
  <2>9. /\ requests' \in 0..MaxRequests /\ faults' \in 0..MaxFaults
    BY <1>0, Distinct, ManagerConstants DEF TypeOK, Fault, Kinds
  <2>. QED  BY <2>1, <2>2, <2>3, <2>4, <2>5, <2>6, <2>7, <2>8, <2>9 DEF TypeOK
<1>2. Locks'
    BY <1>0, Distinct, KindsAre DEF Locks, Starting, Using, TypeOK
<1>3. Checked'
    BY <1>0, Distinct, KindsAre DEF Checked, Locks, Starting, Running, Using, Installed, OneMode, TypeOK
<1>4. Installed'
    BY <1>0, Distinct, KindsAre DEF Installed, OneMode, Checked, Locks, Starting, Running, Using, TypeOK
<1>5. Watchers'
  <2>1. \A w \in Sessions : gen'[w] <= generation'
    BY <1>0, Distinct, KindsAre, ManagerConstants DEF Watchers, Waiting, Begun, Installed, OneMode, Checked, Locks, Starting, Running, Using, TypeOK
  <2>2. \A w \in Sessions : Waiting(w)' /\ gen'[w] = generation' => Begun(w)'
    BY <1>0, Distinct, KindsAre, ManagerConstants DEF Watchers, Waiting, Begun, Installed, OneMode, Checked, Locks, Starting, Running, Using, TypeOK
  <2>3. \A w \in Sessions : pc'[w] \in {"enter", "resume"} => shutdown' \/ state'[w] = "ended"
    BY <1>0, Distinct, KindsAre, ManagerConstants DEF Watchers, Waiting, Begun, Installed, OneMode, Checked, Locks, Starting, Running, Using, TypeOK
  <2>4. \A v, w \in Sessions :
          Waiting(v)' /\ Waiting(w)' /\ gen'[v] = generation' /\ gen'[w] = generation' => v = w
    BY <1>0, Distinct, KindsAre, ManagerConstants DEF Watchers, Waiting, Begun, Installed, OneMode, Checked, Locks, Starting, Running, Using, TypeOK
  <2>5. \A q \in Requests : pc[q]' = "watch" => Begun(mine[q])'
    BY <1>0, Distinct, KindsAre, ManagerConstants DEF Watchers, Waiting, Begun, Installed, OneMode, Checked, Locks, Starting, Running, Using, TypeOK
  <2>6. \A q \in Requests : pc[q]' = "watch" => \A w \in Sessions : gen'[w] < generation'
    BY <1>0, Distinct, KindsAre, ManagerConstants DEF Watchers, Waiting, Begun, Installed, OneMode, Checked, Locks, Starting, Running, Using, TypeOK
  <2>. QED  BY <2>1, <2>2, <2>3, <2>4, <2>5, <2>6 DEF Watchers
<1>6. Down'
    BY <1>0, Distinct, KindsAre DEF Down, Installed, OneMode, Locks, Starting, Using, TypeOK
<1>7. ModeShown'
    BY <1>0, Distinct, KindsAre DEF ModeShown, Installed, OneMode, Checked, Locks, Starting, Running, Using, TypeOK
<1>8. ReturnWatched'
    BY <1>0, Distinct, KindsAre DEF ReturnWatched, Locks, Starting, TypeOK
<1>. QED  BY <1>1, <1>2, <1>3, <1>4, <1>5, <1>6, <1>7, <1>8 DEF ModeInv

\* The installation of an observation keeps the invariant.
LEMMA InstallObservationStep ==
    ASSUME ModeInv, NEW r \in Requests, InstallObservation(r)
    PROVE  ModeInv'
<1>. USE DEF InstallObservation, MayInstall, Leave, Goto, bounds
<1>0. /\ TypeOK /\ Locks /\ Checked /\ Installed /\ Watchers /\ Down
      /\ ModeShown /\ ReturnWatched
    BY DEF ModeInv
<1>1. TypeOK'
  <2>1. installed' \in [Kinds -> Sessions \union {None}]
    BY <1>0, Distinct, ManagerConstants DEF TypeOK, Fault, Kinds, Runs, Checked
  <2>2. generation' \in Nat
    BY <1>0, Distinct, ManagerConstants DEF TypeOK, Fault, Kinds
  <2>3. active' \in Runs \union {None}
    BY <1>0, Distinct, ManagerConstants DEF TypeOK, Fault, Kinds
  <2>4. /\ resume' \in BOOLEAN /\ resumeError' \in BOOLEAN
        /\ lost' \in BOOLEAN /\ shutdown' \in BOOLEAN
    BY <1>0, Distinct, ManagerConstants DEF TypeOK, Fault, Kinds
  <2>5. /\ kind' \in [Sessions -> Kinds] /\ state' \in [Sessions -> States]
        /\ recorded' \subseteq Sessions
    BY <1>0, Distinct, ManagerConstants DEF TypeOK, Fault, States, Kinds
  <2>6. /\ transition' \in Requests \union Sessions \union {Main, None}
        /\ pc' \in [Requests \union Sessions \union {Main} -> Labels]
    BY <1>0, Distinct, ManagerConstants DEF TypeOK, Fault, Labels, Kinds
  <2>7. /\ goal' \in [Requests -> Kinds] /\ gen' \in [Sessions -> Nat]
        /\ mine' \in [Requests -> Sessions \union {None}]
    BY <1>0, Distinct, ManagerConstants DEF TypeOK, Fault, Kinds
  <2>8. paused' \in [Requests -> BOOLEAN]
    BY <1>0, Distinct, ManagerConstants DEF TypeOK, Fault, Kinds
  <2>9. /\ requests' \in 0..MaxRequests /\ faults' \in 0..MaxFaults
    BY <1>0, Distinct, ManagerConstants DEF TypeOK, Fault, Kinds
  <2>. QED  BY <2>1, <2>2, <2>3, <2>4, <2>5, <2>6, <2>7, <2>8, <2>9 DEF TypeOK
<1>2. Locks'
    BY <1>0, Distinct, KindsAre DEF Locks, Starting, Using, TypeOK
<1>3. Checked'
    BY <1>0, Distinct, KindsAre DEF Checked, Locks, Starting, Running, Using, Installed, OneMode, TypeOK
<1>4. Installed'
    BY <1>0, Distinct, KindsAre DEF Installed, OneMode, Checked, Locks, Starting, Running, Using, TypeOK
<1>5. Watchers'
  <2>1. \A w \in Sessions : gen'[w] <= generation'
    BY <1>0, Distinct, KindsAre, ManagerConstants DEF Watchers, Waiting, Begun, Installed, OneMode, Checked, Locks, Starting, Running, Using, TypeOK
  <2>2. \A w \in Sessions : Waiting(w)' /\ gen'[w] = generation' => Begun(w)'
    BY <1>0, Distinct, KindsAre, ManagerConstants DEF Watchers, Waiting, Begun, Installed, OneMode, Checked, Locks, Starting, Running, Using, TypeOK
  <2>3. \A w \in Sessions : pc'[w] \in {"enter", "resume"} => shutdown' \/ state'[w] = "ended"
    BY <1>0, Distinct, KindsAre, ManagerConstants DEF Watchers, Waiting, Begun, Installed, OneMode, Checked, Locks, Starting, Running, Using, TypeOK
  <2>4. \A v, w \in Sessions :
          Waiting(v)' /\ Waiting(w)' /\ gen'[v] = generation' /\ gen'[w] = generation' => v = w
    BY <1>0, Distinct, KindsAre, ManagerConstants DEF Watchers, Waiting, Begun, Installed, OneMode, Checked, Locks, Starting, Running, Using, TypeOK
  <2>5. \A q \in Requests : pc[q]' = "watch" => Begun(mine[q])'
    BY <1>0, Distinct, KindsAre, ManagerConstants DEF Watchers, Waiting, Begun, Installed, OneMode, Checked, Locks, Starting, Running, Using, TypeOK
  <2>6. \A q \in Requests : pc[q]' = "watch" => \A w \in Sessions : gen'[w] < generation'
    BY <1>0, Distinct, KindsAre, ManagerConstants DEF Watchers, Waiting, Begun, Installed, OneMode, Checked, Locks, Starting, Running, Using, TypeOK
  <2>. QED  BY <2>1, <2>2, <2>3, <2>4, <2>5, <2>6 DEF Watchers
<1>6. Down'
    BY <1>0, Distinct, KindsAre DEF Down, Installed, OneMode, Locks, Starting, Using, TypeOK
<1>7. ModeShown'
    BY <1>0, Distinct, KindsAre DEF ModeShown, Installed, OneMode, Checked, Locks, Starting, Running, Using, TypeOK
<1>8. ReturnWatched'
    BY <1>0, Distinct, KindsAre DEF ReturnWatched, Locks, Starting, TypeOK
<1>. QED  BY <1>1, <1>2, <1>3, <1>4, <1>5, <1>6, <1>7, <1>8 DEF ModeInv

\* An installation that fails keeps the invariant.
LEMMA InstallFailsStep ==
    ASSUME ModeInv, NEW r \in Requests, InstallFails(r)
    PROVE  ModeInv'
<1>. USE DEF InstallFails, Leave, Fault, Goto, manager, bounds
<1>0. /\ TypeOK /\ Locks /\ Checked /\ Installed /\ Watchers /\ Down
      /\ ModeShown /\ ReturnWatched
    BY DEF ModeInv
<1>1. TypeOK'
  <2>1. installed' \in [Kinds -> Sessions \union {None}]
    BY <1>0, Distinct, ManagerConstants DEF TypeOK, Fault, Kinds, Runs, Checked
  <2>2. generation' \in Nat
    BY <1>0, Distinct, ManagerConstants DEF TypeOK, Fault, Kinds
  <2>3. active' \in Runs \union {None}
    BY <1>0, Distinct, ManagerConstants DEF TypeOK, Fault, Kinds
  <2>4. /\ resume' \in BOOLEAN /\ resumeError' \in BOOLEAN
        /\ lost' \in BOOLEAN /\ shutdown' \in BOOLEAN
    BY <1>0, Distinct, ManagerConstants DEF TypeOK, Fault, Kinds
  <2>5. /\ kind' \in [Sessions -> Kinds] /\ state' \in [Sessions -> States]
        /\ recorded' \subseteq Sessions
    BY <1>0, Distinct, ManagerConstants DEF TypeOK, Fault, States, Kinds
  <2>6. /\ transition' \in Requests \union Sessions \union {Main, None}
        /\ pc' \in [Requests \union Sessions \union {Main} -> Labels]
    BY <1>0, Distinct, ManagerConstants DEF TypeOK, Fault, Labels, Kinds
  <2>7. /\ goal' \in [Requests -> Kinds] /\ gen' \in [Sessions -> Nat]
        /\ mine' \in [Requests -> Sessions \union {None}]
    BY <1>0, Distinct, ManagerConstants DEF TypeOK, Fault, Kinds
  <2>8. paused' \in [Requests -> BOOLEAN]
    BY <1>0, Distinct, ManagerConstants DEF TypeOK, Fault, Kinds
  <2>9. /\ requests' \in 0..MaxRequests /\ faults' \in 0..MaxFaults
    BY <1>0, Distinct, ManagerConstants DEF TypeOK, Fault, Kinds
  <2>. QED  BY <2>1, <2>2, <2>3, <2>4, <2>5, <2>6, <2>7, <2>8, <2>9 DEF TypeOK
<1>2. Locks'
    BY <1>0, Distinct, KindsAre DEF Locks, Starting, Using, TypeOK
<1>3. Checked'
    BY <1>0, Distinct, KindsAre DEF Checked, Locks, Starting, Running, Using, Installed, OneMode, TypeOK
<1>4. Installed'
    BY <1>0, Distinct, KindsAre DEF Installed, OneMode, Checked, Locks, Starting, Running, Using, TypeOK
<1>5. Watchers'
  <2>1. \A w \in Sessions : gen'[w] <= generation'
    BY <1>0, Distinct, KindsAre, ManagerConstants DEF Watchers, Waiting, Begun, Installed, OneMode, Checked, Locks, Starting, Running, Using, TypeOK
  <2>2. \A w \in Sessions : Waiting(w)' /\ gen'[w] = generation' => Begun(w)'
    BY <1>0, Distinct, KindsAre, ManagerConstants DEF Watchers, Waiting, Begun, Installed, OneMode, Checked, Locks, Starting, Running, Using, TypeOK
  <2>3. \A w \in Sessions : pc'[w] \in {"enter", "resume"} => shutdown' \/ state'[w] = "ended"
    BY <1>0, Distinct, KindsAre, ManagerConstants DEF Watchers, Waiting, Begun, Installed, OneMode, Checked, Locks, Starting, Running, Using, TypeOK
  <2>4. \A v, w \in Sessions :
          Waiting(v)' /\ Waiting(w)' /\ gen'[v] = generation' /\ gen'[w] = generation' => v = w
    BY <1>0, Distinct, KindsAre, ManagerConstants DEF Watchers, Waiting, Begun, Installed, OneMode, Checked, Locks, Starting, Running, Using, TypeOK
  <2>5. \A q \in Requests : pc[q]' = "watch" => Begun(mine[q])'
    BY <1>0, Distinct, KindsAre, ManagerConstants DEF Watchers, Waiting, Begun, Installed, OneMode, Checked, Locks, Starting, Running, Using, TypeOK
  <2>6. \A q \in Requests : pc[q]' = "watch" => \A w \in Sessions : gen'[w] < generation'
    BY <1>0, Distinct, KindsAre, ManagerConstants DEF Watchers, Waiting, Begun, Installed, OneMode, Checked, Locks, Starting, Running, Using, TypeOK
  <2>. QED  BY <2>1, <2>2, <2>3, <2>4, <2>5, <2>6 DEF Watchers
<1>6. Down'
    BY <1>0, Distinct, KindsAre DEF Down, Installed, OneMode, Locks, Starting, Using, TypeOK
<1>7. ModeShown'
    BY <1>0, Distinct, KindsAre DEF ModeShown, Installed, OneMode, Checked, Locks, Starting, Running, Using, TypeOK
<1>8. ReturnWatched'
    BY <1>0, Distinct, KindsAre DEF ReturnWatched, Locks, Starting, TypeOK
<1>. QED  BY <1>1, <1>2, <1>3, <1>4, <1>5, <1>6, <1>7, <1>8 DEF ModeInv

\* The start of a watcher keeps the invariant.
LEMMA WatchStep ==
    ASSUME ModeInv, NEW r \in Requests, Watch(r)
    PROVE  ModeInv'
<1>. USE DEF Watch, manager, session, bounds
<1>0. /\ TypeOK /\ Locks /\ Checked /\ Installed /\ Watchers /\ Down
      /\ ModeShown /\ ReturnWatched
    BY DEF ModeInv
<1>1. TypeOK'
    BY <1>0, Distinct, KindsAre DEF TypeOK, Fault, Labels, States
<1>2. Locks'
    BY <1>0, Distinct, KindsAre DEF Locks, Starting, Using, TypeOK
<1>3. Checked'
    BY <1>0, Distinct, KindsAre DEF Checked, Locks, Starting, Running, Using, Installed, OneMode, TypeOK
<1>4. Installed'
    BY <1>0, Distinct, KindsAre DEF Installed, OneMode, Checked, Locks, Starting, Running, Using, TypeOK
<1>5. Watchers'
    BY <1>0, Distinct, KindsAre DEF Watchers, Waiting, Begun, Installed, Locks, Starting, Running, Using, TypeOK
<1>6. Down'
    BY <1>0, Distinct, KindsAre DEF Down, Installed, OneMode, Locks, Starting, Using, TypeOK
<1>7. ModeShown'
    BY <1>0, Distinct, KindsAre DEF ModeShown, Installed, OneMode, Checked, Locks, Starting, Running, Using, TypeOK
<1>8. ReturnWatched'
  <2>1. mine[r] \in Sessions /\ mine[r] # r
    BY <1>0, Distinct DEF Checked
  <2>2. pc'[mine[r]] = "waiting" /\ gen'[mine[r]] = generation'
    BY <1>0, <2>1 DEF TypeOK
  <2>. QED  BY <2>1, <2>2 DEF ReturnWatched
<1>. QED  BY <1>1, <1>2, <1>3, <1>4, <1>5, <1>6, <1>7, <1>8 DEF ModeInv

\* A watcher that wakes and waits for the lock keeps the invariant.
LEMMA WakeStep ==
    ASSUME ModeInv, NEW w \in Sessions, Wake(w) \/ EnterWatcher(w)
    PROVE  ModeInv'
<1>. USE DEF Wake, EnterWatcher, WaitFinished, Goto, manager, session, bounds
<1>0. /\ TypeOK /\ Locks /\ Checked /\ Installed /\ Watchers /\ Down
      /\ ModeShown /\ ReturnWatched
    BY DEF ModeInv
<1>1. TypeOK'
    BY <1>0, Distinct, KindsAre DEF TypeOK, Fault, Labels, States
<1>2. Locks'
    BY <1>0, Distinct, KindsAre DEF Locks, Starting, Using, TypeOK
<1>3. Checked'
    BY <1>0, Distinct, KindsAre DEF Checked, Locks, Starting, Running, Using, Installed, OneMode, TypeOK
<1>4. Installed'
    BY <1>0, Distinct, KindsAre DEF Installed, OneMode, Checked, Locks, Starting, Running, Using, TypeOK
<1>5. Watchers'
    BY <1>0, Distinct, KindsAre DEF Watchers, Waiting, Begun, Installed, Locks, Starting, Running, Using, TypeOK
<1>6. Down'
    BY <1>0, Distinct, KindsAre DEF Down, Installed, OneMode, Locks, Starting, Using, TypeOK
<1>7. ModeShown'
    BY <1>0, Distinct, KindsAre DEF ModeShown, Installed, OneMode, Checked, Locks, Starting, Running, Using, TypeOK
<1>8. ReturnWatched'
    BY <1>0, Distinct, KindsAre DEF ReturnWatched, Locks, Starting, TypeOK
<1>. QED  BY <1>1, <1>2, <1>3, <1>4, <1>5, <1>6, <1>7, <1>8 DEF ModeInv

\* A watcher that has nothing to restore keeps the invariant.
LEMMA GiveUpStep ==
    ASSUME ModeInv, NEW w \in Sessions, GiveUp(w)
    PROVE  ModeInv'
<1>. USE DEF GiveUp, Current, Gone, Goto, manager, session, bounds
<1>0. /\ TypeOK /\ Locks /\ Checked /\ Installed /\ Watchers /\ Down
      /\ ModeShown /\ ReturnWatched
    BY DEF ModeInv
<1>1. TypeOK'
    BY <1>0, Distinct, KindsAre DEF TypeOK, Fault, Labels, States
<1>2. Locks'
    BY <1>0, Distinct, KindsAre DEF Locks, Starting, Using, TypeOK
<1>3. Checked'
    BY <1>0, Distinct, KindsAre DEF Checked, Locks, Starting, Running, Using, Installed, OneMode, TypeOK
<1>4. Installed'
    BY <1>0, Distinct, KindsAre DEF Installed, OneMode, Checked, Locks, Starting, Running, Using, TypeOK
<1>5. Watchers'
    BY <1>0, Distinct, KindsAre DEF Watchers, Waiting, Begun, Installed, Locks, Starting, Running, Using, TypeOK
<1>6. Down'
    BY <1>0, Distinct, KindsAre DEF Down, Installed, OneMode, Locks, Starting, Using, TypeOK
<1>7. ModeShown'
    BY <1>0, Distinct, KindsAre DEF ModeShown, Installed, OneMode, Checked, Locks, Starting, Running, Using, TypeOK
<1>8. ReturnWatched'
  <2>1. ASSUME gen[w] = generation, resume, ~shutdown
        PROVE  FALSE
    BY <1>0, <2>1 DEF Watchers, Waiting, Begun
  <2>2. \A v \in Sessions : v # w => pc'[v] = pc[v]
    BY <1>0 DEF TypeOK
  <2>3. \A q \in Requests : pc'[q] = pc[q]
    BY <1>0, Distinct DEF TypeOK
  <2>4. CASE resume' /\ ~resumeError' /\ ~lost' /\ ~shutdown'
    <3>1. resume /\ ~resumeError /\ ~lost /\ ~shutdown
      BY <2>4
    <3>2. gen[w] # generation
      BY <2>1, <3>1
    <3>3. CASE \E v \in Sessions : pc[v] \in {"waiting", "enter", "resume"}
                                    /\ gen[v] = generation
      <4>1. PICK v \in Sessions : pc[v] \in {"waiting", "enter", "resume"} /\ gen[v] = generation
        BY <3>3
      <4>2. pc'[v] = pc[v] /\ gen'[v] = generation'
        BY <4>1, <3>2, <2>2
      <4>. QED  BY <4>1, <4>2 DEF ReturnWatched
    <3>4. CASE \E q \in Requests : pc[q] = "watch"
      BY <3>4, <2>3 DEF ReturnWatched
    <3>. QED  BY <1>0, <3>1, <3>3, <3>4 DEF ReturnWatched
  <2>. QED  BY <2>4 DEF ReturnWatched
<1>. QED  BY <1>1, <1>2, <1>3, <1>4, <1>5, <1>6, <1>7, <1>8 DEF ModeInv

\* The restored observation keeps the invariant.
LEMMA ResumeStep ==
    ASSUME ModeInv, NEW w \in Sessions, Resume(w)
    PROVE  ModeInv'
<1>. USE DEF Resume, Current, Fresh, Gone, Goto, bounds
<1>0. /\ TypeOK /\ Locks /\ Checked /\ Installed /\ Watchers /\ Down
      /\ ModeShown /\ ReturnWatched
    BY DEF ModeInv
<1>1. TypeOK'
  <2>1. installed' \in [Kinds -> Sessions \union {None}]
    BY <1>0, Distinct, ManagerConstants DEF TypeOK, Fault, Kinds, Runs, Checked
  <2>2. generation' \in Nat
    BY <1>0, Distinct, ManagerConstants DEF TypeOK, Fault, Kinds
  <2>3. active' \in Runs \union {None}
    BY <1>0, Distinct, ManagerConstants DEF TypeOK, Fault, Kinds
  <2>4. /\ resume' \in BOOLEAN /\ resumeError' \in BOOLEAN
        /\ lost' \in BOOLEAN /\ shutdown' \in BOOLEAN
    BY <1>0, Distinct, ManagerConstants DEF TypeOK, Fault, Kinds
  <2>5. /\ kind' \in [Sessions -> Kinds] /\ state' \in [Sessions -> States]
        /\ recorded' \subseteq Sessions
    BY <1>0, Distinct, ManagerConstants DEF TypeOK, Fault, States, Kinds
  <2>6. /\ transition' \in Requests \union Sessions \union {Main, None}
        /\ pc' \in [Requests \union Sessions \union {Main} -> Labels]
    BY <1>0, Distinct, ManagerConstants DEF TypeOK, Fault, Labels, Kinds
  <2>7. /\ goal' \in [Requests -> Kinds] /\ gen' \in [Sessions -> Nat]
        /\ mine' \in [Requests -> Sessions \union {None}]
    BY <1>0, Distinct, ManagerConstants DEF TypeOK, Fault, Kinds
  <2>8. paused' \in [Requests -> BOOLEAN]
    BY <1>0, Distinct, ManagerConstants DEF TypeOK, Fault, Kinds
  <2>9. /\ requests' \in 0..MaxRequests /\ faults' \in 0..MaxFaults
    BY <1>0, Distinct, ManagerConstants DEF TypeOK, Fault, Kinds
  <2>. QED  BY <2>1, <2>2, <2>3, <2>4, <2>5, <2>6, <2>7, <2>8, <2>9 DEF TypeOK
<1>2. Locks'
    BY <1>0, Distinct, KindsAre DEF Locks, Starting, Using, TypeOK
<1>3. Checked'
    BY <1>0, Distinct, KindsAre DEF Checked, Locks, Starting, Running, Using, Installed, OneMode, TypeOK
<1>4. Installed'
  <2>1. /\ kind[w] \in Runs /\ \A k \in Kinds : Running(k) => installed[k] = w
        /\ state[w] = "ended"
    BY <1>0 DEF Watchers, Waiting, Begun
  <2>2. \A k \in Kinds : ~Running(k)
    BY <2>1 DEF Running, Using
  <2>3. \A s \in Sessions : ~Using(s)
    BY <1>0, <2>2, Distinct DEF Installed, OneMode, Running, TypeOK
  <2>4. PICK s \in Sessions : /\ Fresh(s)
                              /\ kind' = [kind EXCEPT ![s] = "observation"]
                              /\ state' = [state EXCEPT ![s] = "live"]
                              /\ installed' = [installed EXCEPT !["observation"] = s]
    OBVIOUS
  <2>5. /\ \A k \in Kinds : installed[k] # s
        /\ \A u \in Sessions : u # s => state'[u] = state[u] /\ kind'[u] = kind[u]
        /\ state'[s] = "live" /\ kind'[s] = "observation"
        /\ installed'["observation"] = s
        /\ \A k \in Runs : installed'[k] = installed[k]
    BY <1>0, <2>4, KindsAre, Distinct DEF Installed, Fresh, TypeOK, States
  <2>6. \A k \in Kinds : installed'[k] # None =>
           kind'[installed'[k]] = k /\ state'[installed'[k]] \in {"live", "stopping", "ended"}
    BY <1>0, <2>5, KindsAre DEF Installed, TypeOK
  <2>7. OneMode'
    BY <2>3, <2>5 DEF OneMode, Using
  <2>8. \A k \in Runs : ~Running(k)'
    BY <1>0, <2>2, <2>3, <2>5, KindsAre DEF Running, Using, TypeOK
  <2>. QED  BY <2>6, <2>7, <2>8 DEF Installed
<1>5. Watchers'
    BY <1>0, Distinct, KindsAre DEF Watchers, Waiting, Begun, Installed, Locks, Starting, Running, Using, TypeOK
<1>6. Down'
    BY <1>0, Distinct, KindsAre DEF Down, Installed, OneMode, Locks, Starting, Using, TypeOK
<1>7. ModeShown'
  <2>1. /\ kind[w] \in Runs /\ \A k \in Kinds : Running(k) => installed[k] = w
        /\ state[w] = "ended"
    BY <1>0 DEF Watchers, Waiting, Begun
  <2>2. \A k \in Kinds : ~Running(k)
    BY <2>1 DEF Running, Using
  <2>3. \A s \in Sessions : ~Using(s)
    BY <1>0, <2>2, Distinct DEF Installed, OneMode, Running, TypeOK
  <2>4. PICK s \in Sessions : /\ Fresh(s)
                              /\ kind' = [kind EXCEPT ![s] = "observation"]
                              /\ state' = [state EXCEPT ![s] = "live"]
                              /\ installed' = [installed EXCEPT !["observation"] = s]
    OBVIOUS
  <2>5. /\ \A k \in Kinds : installed[k] # s
        /\ \A u \in Sessions : u # s => state'[u] = state[u] /\ kind'[u] = kind[u]
        /\ state'[s] = "live" /\ kind'[s] = "observation"
        /\ installed'["observation"] = s
        /\ \A k \in Runs : installed'[k] = installed[k]
    BY <1>0, <2>4, KindsAre, Distinct DEF Installed, Fresh, TypeOK, States
  <2>6. active' = None
    OBVIOUS
  <2>7. \A k \in Runs : ~Running(k)'
    BY <1>0, <2>2, <2>3, <2>5, KindsAre DEF Running, Using, TypeOK
  <2>. QED  BY <2>6, <2>7 DEF ModeShown
<1>8. ReturnWatched'
    BY <1>0, Distinct, KindsAre DEF ReturnWatched, Locks, Starting, TypeOK
<1>. QED  BY <1>1, <1>2, <1>3, <1>4, <1>5, <1>6, <1>7, <1>8 DEF ModeInv

\* A restoration that fails keeps the invariant.
LEMMA ResumeFailsStep ==
    ASSUME ModeInv, NEW w \in Sessions, ResumeFails(w) \/ ResumeDies(w)
    PROVE  ModeInv'
<1>. USE DEF ResumeFails, ResumeDies, Current, Fresh, Fault, Gone, Goto, manager, session
<1>0. /\ TypeOK /\ Locks /\ Checked /\ Installed /\ Watchers /\ Down
      /\ ModeShown /\ ReturnWatched
    BY DEF ModeInv
<1>1. TypeOK'
  <2>1. installed' \in [Kinds -> Sessions \union {None}]
    BY <1>0, Distinct, ManagerConstants DEF TypeOK, Fault, Kinds, Runs, Checked
  <2>2. generation' \in Nat
    BY <1>0, Distinct, ManagerConstants DEF TypeOK, Fault, Kinds
  <2>3. active' \in Runs \union {None}
    BY <1>0, Distinct, ManagerConstants DEF TypeOK, Fault, Kinds
  <2>4. /\ resume' \in BOOLEAN /\ resumeError' \in BOOLEAN
        /\ lost' \in BOOLEAN /\ shutdown' \in BOOLEAN
    BY <1>0, Distinct, ManagerConstants DEF TypeOK, Fault, Kinds
  <2>5. /\ kind' \in [Sessions -> Kinds] /\ state' \in [Sessions -> States]
        /\ recorded' \subseteq Sessions
    BY <1>0, Distinct, ManagerConstants DEF TypeOK, Fault, States, Kinds
  <2>6. /\ transition' \in Requests \union Sessions \union {Main, None}
        /\ pc' \in [Requests \union Sessions \union {Main} -> Labels]
    BY <1>0, Distinct, ManagerConstants DEF TypeOK, Fault, Labels, Kinds
  <2>7. /\ goal' \in [Requests -> Kinds] /\ gen' \in [Sessions -> Nat]
        /\ mine' \in [Requests -> Sessions \union {None}]
    BY <1>0, Distinct, ManagerConstants DEF TypeOK, Fault, Kinds
  <2>8. paused' \in [Requests -> BOOLEAN]
    BY <1>0, Distinct, ManagerConstants DEF TypeOK, Fault, Kinds
  <2>9. /\ requests' \in 0..MaxRequests /\ faults' \in 0..MaxFaults
    BY <1>0, Distinct, ManagerConstants DEF TypeOK, Fault, Kinds
  <2>. QED  BY <2>1, <2>2, <2>3, <2>4, <2>5, <2>6, <2>7, <2>8, <2>9 DEF TypeOK
<1>2. Locks'
    BY <1>0, Distinct, KindsAre DEF Locks, Starting, Using, TypeOK
<1>3. Checked'
    BY <1>0, Distinct, KindsAre DEF Checked, Locks, Starting, Running, Using, Installed, OneMode, TypeOK
<1>4. Installed'
    BY <1>0, Distinct, KindsAre DEF Installed, OneMode, Checked, Locks, Starting, Running, Using, TypeOK
<1>5. Watchers'
    BY <1>0, Distinct, KindsAre DEF Watchers, Waiting, Begun, Installed, Locks, Starting, Running, Using, TypeOK
<1>6. Down'
    BY <1>0, Distinct, KindsAre DEF Down, Installed, OneMode, Locks, Starting, Using, TypeOK
<1>7. ModeShown'
    BY <1>0, Distinct, KindsAre DEF ModeShown, Installed, OneMode, Checked, Locks, Starting, Running, Using, TypeOK
<1>8. ReturnWatched'
    BY <1>0, Distinct, KindsAre DEF ReturnWatched, Locks, Starting, TypeOK
<1>. QED  BY <1>1, <1>2, <1>3, <1>4, <1>5, <1>6, <1>7, <1>8 DEF ModeInv

\* The start of the shutdown keeps the invariant.
LEMMA ShutdownStartStep ==
    ASSUME ModeInv, Shutdown \/ ShutdownEnter
    PROVE  ModeInv'
<1>. USE DEF Shutdown, ShutdownEnter, Goto, manager, session, bounds
<1>0. /\ TypeOK /\ Locks /\ Checked /\ Installed /\ Watchers /\ Down
      /\ ModeShown /\ ReturnWatched
    BY DEF ModeInv
<1>1. TypeOK'
  <2>1. installed' \in [Kinds -> Sessions \union {None}]
    BY <1>0, Distinct, ManagerConstants DEF TypeOK, Fault, Kinds, Runs, Checked
  <2>2. generation' \in Nat
    BY <1>0, Distinct, ManagerConstants DEF TypeOK, Fault, Kinds
  <2>3. active' \in Runs \union {None}
    BY <1>0, Distinct, ManagerConstants DEF TypeOK, Fault, Kinds
  <2>4. /\ resume' \in BOOLEAN /\ resumeError' \in BOOLEAN
        /\ lost' \in BOOLEAN /\ shutdown' \in BOOLEAN
    BY <1>0, Distinct, ManagerConstants DEF TypeOK, Fault, Kinds
  <2>5. /\ kind' \in [Sessions -> Kinds] /\ state' \in [Sessions -> States]
        /\ recorded' \subseteq Sessions
    BY <1>0, Distinct, ManagerConstants DEF TypeOK, Fault, States, Kinds
  <2>6. /\ transition' \in Requests \union Sessions \union {Main, None}
        /\ pc' \in [Requests \union Sessions \union {Main} -> Labels]
    BY <1>0, Distinct, ManagerConstants DEF TypeOK, Fault, Labels, Kinds
  <2>7. /\ goal' \in [Requests -> Kinds] /\ gen' \in [Sessions -> Nat]
        /\ mine' \in [Requests -> Sessions \union {None}]
    BY <1>0, Distinct, ManagerConstants DEF TypeOK, Fault, Kinds
  <2>8. paused' \in [Requests -> BOOLEAN]
    BY <1>0, Distinct, ManagerConstants DEF TypeOK, Fault, Kinds
  <2>9. /\ requests' \in 0..MaxRequests /\ faults' \in 0..MaxFaults
    BY <1>0, Distinct, ManagerConstants DEF TypeOK, Fault, Kinds
  <2>. QED  BY <2>1, <2>2, <2>3, <2>4, <2>5, <2>6, <2>7, <2>8, <2>9 DEF TypeOK
<1>2. Locks'
    BY <1>0, Distinct, KindsAre DEF Locks, Starting, Using, TypeOK
<1>3. Checked'
    BY <1>0, Distinct, KindsAre DEF Checked, Locks, Starting, Running, Using, Installed, OneMode, TypeOK
<1>4. Installed'
    BY <1>0, Distinct, KindsAre DEF Installed, OneMode, Checked, Locks, Starting, Running, Using, TypeOK
<1>5. Watchers'
    BY <1>0, Distinct, KindsAre DEF Watchers, Waiting, Begun, Installed, Locks, Starting, Running, Using, TypeOK
<1>6. Down'
    BY <1>0, Distinct, KindsAre DEF Down, Installed, OneMode, Locks, Starting, Using, TypeOK
<1>7. ModeShown'
    BY <1>0, Distinct, KindsAre DEF ModeShown, Installed, OneMode, Checked, Locks, Starting, Running, Using, TypeOK
<1>8. ReturnWatched'
    BY <1>0, Distinct, KindsAre DEF ReturnWatched, Locks, Starting, TypeOK
<1>. QED  BY <1>1, <1>2, <1>3, <1>4, <1>5, <1>6, <1>7, <1>8 DEF ModeInv

\* The shutdown that tells a session to stop keeps the invariant.
LEMMA ShutdownStopsStep ==
    ASSUME ModeInv, NEW k \in Kinds, NEW next \in {"churn", "capture", "done"},
           <<k, next>> \in {<<"observation", "churn">>, <<"churn", "capture">>,
                            <<"capture", "done">>}, ShutdownStops(k, next)
    PROVE  ModeInv'
<1>. USE DEF ShutdownStops, Told, Goto, manager, bounds
<1>0. /\ TypeOK /\ Locks /\ Checked /\ Installed /\ Watchers /\ Down
      /\ ModeShown /\ ReturnWatched
    BY DEF ModeInv
<1>1. TypeOK'
    BY <1>0, Distinct, KindsAre DEF TypeOK, Fault, Labels, States
<1>2. Locks'
    BY <1>0, Distinct, KindsAre DEF Locks, Starting, Using, TypeOK
<1>3. Checked'
    BY <1>0, Distinct, KindsAre DEF Checked, Locks, Starting, Running, Using, Installed, OneMode, TypeOK
<1>4. Installed'
    BY <1>0, Distinct, KindsAre DEF Installed, OneMode, Checked, Locks, Starting, Running, Using, TypeOK
<1>5. Watchers'
    BY <1>0, Distinct, KindsAre DEF Watchers, Waiting, Begun, Installed, Locks, Starting, Running, Using, TypeOK
<1>6. Down'
    BY <1>0, Distinct, KindsAre DEF Down, Installed, OneMode, Locks, Starting, Using, TypeOK
<1>7. ModeShown'
    BY <1>0, Distinct, KindsAre DEF ModeShown, Installed, OneMode, Checked, Locks, Starting, Running, Using, TypeOK
<1>8. ReturnWatched'
    BY <1>0, Distinct, KindsAre DEF ReturnWatched, Locks, Starting, TypeOK
<1>. QED  BY <1>1, <1>2, <1>3, <1>4, <1>5, <1>6, <1>7, <1>8 DEF ModeInv

\* The shutdown that an error ends keeps the invariant.
LEMMA ShutdownRaisesStep ==
    ASSUME ModeInv, ShutdownRaises
    PROVE  ModeInv'
<1>. USE DEF ShutdownRaises, Told, Fault, Goto, manager
<1>0. /\ TypeOK /\ Locks /\ Checked /\ Installed /\ Watchers /\ Down
      /\ ModeShown /\ ReturnWatched
    BY DEF ModeInv
<1>1. TypeOK'
  <2>1. installed' \in [Kinds -> Sessions \union {None}]
    BY <1>0, Distinct, ManagerConstants DEF TypeOK, Fault, Kinds, Runs, Checked
  <2>2. generation' \in Nat
    BY <1>0, Distinct, ManagerConstants DEF TypeOK, Fault, Kinds
  <2>3. active' \in Runs \union {None}
    BY <1>0, Distinct, ManagerConstants DEF TypeOK, Fault, Kinds
  <2>4. /\ resume' \in BOOLEAN /\ resumeError' \in BOOLEAN
        /\ lost' \in BOOLEAN /\ shutdown' \in BOOLEAN
    BY <1>0, Distinct, ManagerConstants DEF TypeOK, Fault, Kinds
  <2>5. /\ kind' \in [Sessions -> Kinds] /\ state' \in [Sessions -> States]
        /\ recorded' \subseteq Sessions
    BY <1>0, Distinct, ManagerConstants DEF TypeOK, Fault, States, Kinds
  <2>6. /\ transition' \in Requests \union Sessions \union {Main, None}
        /\ pc' \in [Requests \union Sessions \union {Main} -> Labels]
    BY <1>0, Distinct, ManagerConstants DEF TypeOK, Fault, Labels, Kinds
  <2>7. /\ goal' \in [Requests -> Kinds] /\ gen' \in [Sessions -> Nat]
        /\ mine' \in [Requests -> Sessions \union {None}]
    BY <1>0, Distinct, ManagerConstants DEF TypeOK, Fault, Kinds
  <2>8. paused' \in [Requests -> BOOLEAN]
    BY <1>0, Distinct, ManagerConstants DEF TypeOK, Fault, Kinds
  <2>9. /\ requests' \in 0..MaxRequests /\ faults' \in 0..MaxFaults
    BY <1>0, Distinct, ManagerConstants DEF TypeOK, Fault, Kinds
  <2>. QED  BY <2>1, <2>2, <2>3, <2>4, <2>5, <2>6, <2>7, <2>8, <2>9 DEF TypeOK
<1>2. Locks'
    BY <1>0, Distinct, KindsAre DEF Locks, Starting, Using, TypeOK
<1>3. Checked'
    BY <1>0, Distinct, KindsAre DEF Checked, Locks, Starting, Running, Using, Installed, OneMode, TypeOK
<1>4. Installed'
    BY <1>0, Distinct, KindsAre DEF Installed, OneMode, Checked, Locks, Starting, Running, Using, TypeOK
<1>5. Watchers'
    BY <1>0, Distinct, KindsAre DEF Watchers, Waiting, Begun, Installed, Locks, Starting, Running, Using, TypeOK
<1>6. Down'
  <2>1. installed["observation"] \in Sessions
    BY <1>0, KindsAre DEF TypeOK
  <2>2. \A k \in Runs : ~Running(k)
    BY <1>0 DEF Installed
  <2>3. \A s \in Sessions : kind[s] \in Runs => ~Using(s)
    BY <1>0, <2>2, Distinct DEF Installed, OneMode, Running
  <2>4. \A s \in Sessions : state[s] = "live" => s = installed["observation"]
    BY <1>0, <2>3, KindsAre DEF Installed, OneMode, Using, TypeOK
  <2>5. \A s \in Sessions : state'[s] # "live"
    BY <1>0, <2>1, <2>4 DEF TypeOK
  <2>. QED  BY <2>5 DEF Down
<1>7. ModeShown'
    BY <1>0, Distinct, KindsAre DEF ModeShown, Installed, OneMode, Checked, Locks, Starting, Running, Using, TypeOK
<1>8. ReturnWatched'
    BY <1>0, Distinct, KindsAre DEF ReturnWatched, Locks, Starting, TypeOK
<1>. QED  BY <1>1, <1>2, <1>3, <1>4, <1>5, <1>6, <1>7, <1>8 DEF ModeInv

\* Before any request nobody owns the device and nobody holds the lock.
LEMMA InitHolds ==
    ASSUME Init
    PROVE  ModeInv
<1>. USE DEF Init
<1>1. TypeOK
  <2>1. installed \in [Kinds -> Sessions \union {None}] /\ mine \in [Requests -> Sessions \union {None}]
    OBVIOUS
  <2>2. /\ goal \in [Requests -> Kinds] /\ kind \in [Sessions -> Kinds]
        /\ state \in [Sessions -> States] /\ recorded \subseteq Sessions
    BY KindsAre DEF States
  <2>3. pc \in [Requests \union Sessions \union {Main} -> Labels]
    BY DEF Labels
  <2>4. paused \in [Requests -> BOOLEAN] /\ gen \in [Sessions -> Nat]
    OBVIOUS
  <2>5. requests \in 0..MaxRequests /\ faults \in 0..MaxFaults
    BY ManagerConstants
  <2>. QED  BY <2>1, <2>2, <2>3, <2>4, <2>5 DEF TypeOK
<1>2. Locks /\ Checked
    BY <1>1, ManagerConstants, Distinct, KindsAre DEF Locks, Checked, Starting, TypeOK
<1>3. Installed /\ Watchers /\ Down
    BY <1>1, Distinct, KindsAre
    DEF Installed, OneMode, Watchers, Waiting, Down, Running, Using, TypeOK
<1>4. ModeShown /\ ReturnWatched
    BY Distinct, KindsAre DEF ModeShown, ReturnWatched, Running
<1>. QED  BY <1>1, <1>2, <1>3, <1>4 DEF ModeInv

\* A step in which nothing happens keeps the invariant.
LEMMA StutterStep ==
    ASSUME ModeInv, UNCHANGED vars
    PROVE  ModeInv'
<1>. USE DEF ModeInv, vars, manager, session, thread, bounds
<1>1. TypeOK' /\ Locks' /\ Checked' /\ Down'
    BY DEF TypeOK, Locks, Checked, Down, Running, Using
<1>2. Installed' /\ Watchers'
    BY DEF Installed, OneMode, Watchers, Begun, Waiting, Running, Using
<1>3. ModeShown' /\ ReturnWatched'
    BY DEF ModeShown, ReturnWatched, Running, Using
<1>. QED  BY <1>1, <1>2, <1>3

\* Every step of the manager keeps the invariant.
LEMMA NextStep ==
    ASSUME ModeInv, [Next]_vars
    PROVE  ModeInv'
<1>1. CASE \E r \in Requests, k \in Kinds : Request(r, k) \/ ReadSession(r, k)
    BY <1>1, RequestStep, ReadSessionStep
<1>2. CASE \E r \in Requests : Handle(r)
    BY <1>2, StopSessionStep, EnterStep, CheckStep, PauseStep, HaltStep, JoinStep,
       CreateStep, InstallRunStep, InstallObservationStep, InstallFailsStep, WatchStep
    DEF Handle
<1>3. CASE \E s \in Sessions : Watcher(s) \/ Ends(s)
    BY <1>3, WakeStep, GiveUpStep, ResumeStep, ResumeFailsStep, SessionSteps DEF Watcher
<1>4. CASE Shutdown \/ ShutdownStep
    BY <1>4, KindsAre, ShutdownStartStep, ShutdownStopsStep, ShutdownRaisesStep
    DEF ShutdownStep
<1>5. CASE Rest \/ UNCHANGED vars
    BY <1>5, StutterStep DEF Rest
<1>. QED  BY <1>1, <1>2, <1>3, <1>4, <1>5 DEF Next
-----------------------------------------------------------------------------
\* The invariant holds in every state of the manager.
THEOREM ModeInvariant == Spec => []ModeInv
<1>1. Init => ModeInv
    BY InitHolds
<1>2. ModeInv /\ [Next]_vars => ModeInv'
    BY NextStep
<1>. QED  BY <1>1, <1>2, PTL DEF Spec

\* "Only one operating mode is active at a time", the mode shown is the one that
\* owns the device, and a pending return has its watcher, whatever requests,
\* watchers and the shutdown do to each other (_start_churn, _start_capture,
\* _resume_observation_after).
THEOREM ManagerIsSafe == Spec => []ManagerInv
<1>1. ModeInv => ManagerInv
    BY DEF ModeInv, Installed, ManagerInv
<1>. QED  BY <1>1, ModeInvariant, PTL

\* Installation is atomic with respect to the shutdown: when that has gone
\* through the sessions, none talks to the device without having been told to
\* stop (SessionManager.shutdown, _start_observation).
THEOREM ShutdownIsComplete == Spec => []ShutdownReachesAll
<1>1. ModeInv => ShutdownReachesAll
    BY KindsAre DEF ModeInv, Down, ShutdownReachesAll, TypeOK
<1>. QED  BY <1>1, ModeInvariant, PTL

=============================================================================
