-------------------------- MODULE CaptureRunProofs --------------------------
(***************************************************************************)
(* Proofs about CaptureRun, for any handlers, annotations, limit and       *)
(* number of captures and mishaps.  RunInv is the inductive invariant.     *)
(***************************************************************************)
EXTENDS CaptureRun, FiniteSetTheorems, TLAPS

-----------------------------------------------------------------------------
(* The evidence of one run as a sequence: what an append does to it.       *)

Record == [id : Ids \union {None}, text : Texts \union TERMINAL_STATES]
Notable(s) == {i \in DOMAIN s : IsNote(s[i])}
Remembered(k) == {id \in Ids : k[id] # None}

\* No identifier twice, no note behind a terminal record, nothing but notes.
Once(s) == \A i, j \in Notable(s) : s[i].id = s[j].id => i = j
Ordered(s) == \A i, j \in DOMAIN s : i < j /\ IsNote(s[j]) => IsNote(s[i])
Plain(s) == \A i \in DOMAIN s : IsNote(s[i])

\* What the capture remembers is in the evidence, and the other way round.
Backed(s, k) == \A id \in Ids : k[id] # None => \E i \in DOMAIN s : s[i] = Note(id, k[id])
Covered(s, k) == \A i \in Notable(s) : k[s[i].id] # None

\* The number of notes is the cardinality of a finite set.
LEMMA NotesAreFinite ==
    ASSUME NEW s \in Seq(Record)
    PROVE  IsFiniteSet(Notable(s)) /\ Cardinality(Notable(s)) \in Nat
<1>1. IsFiniteSet(1..Len(s))
  BY FS_Interval
<1>2. Notable(s) \in SUBSET (1..Len(s))
  BY DEF Notable
<1>3. IsFiniteSet(Notable(s))
  BY <1>1, <1>2, FS_Subset
<1>. QED  BY <1>3, FS_CardinalityType

\* What a capture remembers is finite when it is backed by its evidence, and
\* its notes are no more when they are all remembered.
LEMMA NotesAreRemembered ==
    ASSUME NEW s \in Seq(Record), NEW k \in [Ids -> Texts \union {None}],
           None \notin Ids, Once(s), Backed(s, k), Covered(s, k)
    PROVE  /\ Cardinality(Remembered(k)) \in Nat
           /\ Cardinality(Notable(s)) <= Cardinality(Remembered(k))
<1>. DEFINE where == [id \in Remembered(k) |-> CHOOSE i \in DOMAIN s : s[i] = Note(id, k[id])]
            named == [i \in Notable(s) |-> s[i].id]
<1>1. IsFiniteSet(DOMAIN s)
  BY FS_Interval
<1>2. \A id \in Remembered(k) : where[id] \in DOMAIN s /\ s[where[id]] = Note(id, k[id])
  BY DEF Backed, Remembered
<1>3. where \in [Remembered(k) -> DOMAIN s]
  BY <1>2
<1>4. \A id1, id2 \in Remembered(k) : where[id1] = where[id2] => id1 = id2
  BY <1>2 DEF Note
<1>5. where \in Injection(Remembered(k), DOMAIN s)
  BY <1>3, <1>4 DEF Injection, IsInjective
<1>6. IsFiniteSet(Remembered(k))
  BY <1>1, <1>5, FS_Injection
<1>7. \A i \in Notable(s) : s[i].id \in Remembered(k)
  <2>1. \A i \in Notable(s) : i \in DOMAIN s /\ IsNote(s[i]) /\ s[i] \in Record
    BY DEF Notable
  <2>2. \A i \in Notable(s) : s[i].id \in Ids
    BY <2>1 DEF Record, IsNote
  <2>. QED  BY <2>2 DEF Covered, Remembered
<1>8. named \in Injection(Notable(s), Remembered(k))
  BY <1>7 DEF Injection, IsInjective, Once
<1>. QED  BY <1>6, <1>8, FS_Injection, FS_CardinalityType

\* A terminal record adds no note.
LEMMA EndAdded ==
    ASSUME NEW s \in Seq(Record), NEW verdict \in TERMINAL_STATES
    PROVE  /\ Append(s, End(verdict)) \in Seq(Record)
           /\ DOMAIN Append(s, End(verdict)) = 1..(Len(s) + 1)
           /\ Append(s, End(verdict))[Len(s) + 1] = End(verdict)
           /\ \A i \in DOMAIN s : Append(s, End(verdict))[i] = s[i]
           /\ Notable(Append(s, End(verdict))) = Notable(s)
<1>. DEFINE t == Append(s, End(verdict))
<1>1. End(verdict) \in Record /\ ~IsNote(End(verdict))
  BY DEF End, Record, IsNote
<1>2. /\ t \in Seq(Record) /\ DOMAIN t = 1..(Len(s) + 1) /\ t[Len(s) + 1] = End(verdict)
      /\ \A i \in DOMAIN s : t[i] = s[i]
  BY <1>1
<1>. HIDE DEF t
<1>3. Notable(t) = Notable(s)
  BY <1>1, <1>2 DEF Notable
<1>. QED  BY <1>2, <1>3 DEF t

\* A new note of a capture that remembers every note it has.
LEMMA NoteAdded ==
    ASSUME NEW s \in Seq(Record), NEW id \in Ids, NEW text \in Texts, None \notin Ids
    PROVE  /\ Append(s, Note(id, text)) \in Seq(Record)
           /\ DOMAIN Append(s, Note(id, text)) = 1..(Len(s) + 1)
           /\ Append(s, Note(id, text))[Len(s) + 1] = Note(id, text)
           /\ \A i \in DOMAIN s : Append(s, Note(id, text))[i] = s[i]
           /\ Notable(Append(s, Note(id, text))) = Notable(s) \union {Len(s) + 1}
           /\ Len(s) + 1 \notin Notable(s)
<1>. DEFINE t == Append(s, Note(id, text))
<1>1. Note(id, text) \in Record /\ IsNote(Note(id, text))
  BY DEF Note, Record, IsNote
<1>2. /\ t \in Seq(Record) /\ DOMAIN t = 1..(Len(s) + 1) /\ t[Len(s) + 1] = Note(id, text)
      /\ \A i \in DOMAIN s : t[i] = s[i]
  BY <1>1
<1>. HIDE DEF t
<1>3. Notable(t) = Notable(s) \union {Len(s) + 1}
  BY <1>1, <1>2 DEF Notable
<1>4. Len(s) + 1 \notin Notable(s)
  BY DEF Notable
<1>. QED  BY <1>2, <1>3, <1>4 DEF t
-----------------------------------------------------------------------------
(* The inductive invariant.                                                *)

Live(r) == state[r] \in {"running", "stopping"}

\* Where the thread of a capture is, and what its state says of it: only the
\* current capture is running, and one that has ended stays so.
Threads ==
    \A r \in Runs :
        /\ Live(r) <=> pc[r] \in {"sampling", "source", "join"}
        /\ Live(r) => current = r
        /\ state[r] \in TERMINAL_STATES =>
              pc[r] \in {"terminal", "refused", "finish", "dead"}
        /\ state[r] \in {"none", "gone"} => pc[r] = "none" /\ ~alive[r]
        /\ finished[r] => pc[r] = "dead" /\ ~alive[r]
        /\ current = None => state[r] \in {"none", "gone"}

\* The session of a capture, from its start to its removal.
Sessions ==
    \A r \in Runs :
        /\ state[r] = "none" <=> session[r] = "none"
        /\ state[r] = "gone" => session[r] \in {"closed", "gone"}

\* The evidence has nothing but notes until the terminal record, which is
\* there with the verdict, or the capture has failed, when its thread ends.
Verdicts ==
    \A r \in Runs :
        /\ session[r] \in {"none", "gone"} => evidence[r] = <<>>
        /\ Live(r) \/ pc[r] = "terminal" => Plain(evidence[r])
        /\ Ordered(evidence[r])
        /\ pc[r] \in {"finish", "dead"} =>
              \/ state[r] = "failed" \/ session[r] = "gone"
              \/ evidence[r] # <<>> /\ evidence[r][Len(evidence[r])] = End(state[r])

\* What the capture remembers is in its evidence once, and as long as it takes
\* records it remembers all of them.
Kept(r) ==
    /\ Once(evidence[r]) /\ Backed(evidence[r], known[r])
    /\ session[r] \in {"none", "memory", "active"} => Covered(evidence[r], known[r])
    /\ Cardinality(Notable(evidence[r])) <= Limit
    /\ \A a \in accepted : a.run = r =>
          \E i \in DOMAIN evidence[r] : evidence[r][i] = Note(a.id, a.text)

Records == \A r \in Runs \ lapsed : session[r] # "gone" => Kept(r)

RunInv == TypeOK /\ Threads /\ Sessions /\ Verdicts /\ Records

\* The types of what the captures are, and of what is kept of them.
RunTypes ==
    /\ config \in Configs /\ current \in Runs \union {None}
    /\ state \in [Runs -> TERMINAL_STATES \union {"none", "running", "stopping", "gone"}]
    /\ failure \in [Runs -> BOOLEAN] /\ cancel \in [Runs -> BOOLEAN]
    /\ finished \in [Runs -> BOOLEAN] /\ outcome \in [Runs -> TERMINAL_STATES]
    /\ pc \in [Runs -> {"none", "sampling", "source", "join", "terminal", "refused",
                        "finish", "dead"}]
    /\ asked \in [Runs -> BOOLEAN] /\ alive \in [Runs -> BOOLEAN]

StoreTypes ==
    /\ known \in [Runs -> [Ids -> Texts \union {None}]]
    /\ session \in [Runs -> {"none", "memory", "active", "closed", "gone"}]
    /\ evidence \in [Runs -> Seq(Record)]
    /\ request \in [Requests -> Runs \union {None, Idle}]
    /\ accepted \subseteq Annotations /\ lapsed \subseteq Runs
    /\ mishaps \in 0..MaxMishaps

\* The type invariant, by what the proofs need together.
LEMMA TypedIs == TypeOK <=> RunTypes /\ StoreTypes
BY DEF TypeOK, RunTypes, StoreTypes, Record

\* The fields of an annotation.
LEMMA AnnotationHas ==
    ASSUME NEW a \in Annotations
    PROVE  a.id \in Ids /\ a.run \in Runs /\ a.text \in Texts
BY CaptureConstants

\* An identifier and the content of an annotation are never None.
LEMMA NoneIsNeither == None \notin Ids /\ None \notin Texts /\ None \notin Runs
BY CaptureConstants

\* An annotation is new only to the capture it names, while that is running
\* and remembers no such annotation (record_annotation).
LEMMA NewIs ==
    ASSUME StoreTypes, NEW q \in Requests, NEW a \in Annotations,
           request[q] # Idle, Verdict(a, request[q]) = "new"
    PROVE  /\ request[q] = a.run /\ state[a.run] = "running"
           /\ known[a.run][a.id] = None /\ Durable(a.run, a.id) = {}
           /\ ~(Cardinality(Remembered(known[a.run])) >= Limit)
<1>1. \A text : Same(text, a) # "new"
  BY DEF Same
<1>2. Resolved(a) # "new"
  BY <1>1 DEF Resolved
<1>3. request[q] \in Runs /\ Recorded(a, request[q]) = "new"
  BY <1>2 DEF Verdict, StoreTypes
<1>. QED  BY <1>1, <1>3 DEF Recorded, Accepts, Remembered

\* A capture that is about to record its terminal state has one.
LEMMA EndTyped ==
    ASSUME RunTypes, Threads, NEW r \in Runs, pc[r] \in {"terminal", "refused", "finish", "dead"}
    PROVE  state[r] \in TERMINAL_STATES
BY DEF RunTypes, Threads, Live

\* What a crash may find of a run: what was there, or with the terminal record
\* or the annotation that was being written.
LEMMA LeftIs ==
    ASSUME RunTypes, StoreTypes, Threads, NEW left \in Unheard
    PROVE  /\ left \in [Runs -> Seq(Record)]
           /\ \A r \in Runs :
                \/ left[r] = evidence[r]
                \/ /\ pc[r] = "terminal" /\ session[r] = "active"
                   /\ state[r] \in TERMINAL_STATES
                   /\ left[r] = Append(evidence[r], End(state[r]))
                \/ \E a \in Annotations :
                      /\ a.run = r /\ Pending(a)
                      /\ left[r] = Append(evidence[r], Note(a.id, a.text))
<1>1. CASE left = evidence
  BY <1>1 DEF StoreTypes
<1>2. ASSUME NEW a \in Annotations, Pending(a), left = Noted(a)
      PROVE  /\ left \in [Runs -> Seq(Record)]
             /\ left[a.run] = Append(evidence[a.run], Note(a.id, a.text))
             /\ \A r \in Runs : r # a.run => left[r] = evidence[r]
  <2>1. Note(a.id, a.text) \in Record /\ a.run \in Runs
    BY AnnotationHas DEF Note, Record
  <2>. QED  BY <1>2, <2>1 DEF Noted, StoreTypes
<1>3. ASSUME NEW u \in Runs, pc[u] = "terminal", session[u] = "active", left = Ended(u)
      PROVE  /\ left \in [Runs -> Seq(Record)] /\ state[u] \in TERMINAL_STATES
             /\ left[u] = Append(evidence[u], End(state[u]))
             /\ \A r \in Runs : r # u => left[r] = evidence[r]
  <2>1. state[u] \in TERMINAL_STATES
    BY <1>3, EndTyped
  <2>2. End(state[u]) \in Record
    BY <2>1 DEF End, Record
  <2>. QED  BY <1>3, <2>1, <2>2 DEF Ended, StoreTypes
<1>4. \/ left = evidence
      \/ \E a \in Annotations : Pending(a) /\ left = Noted(a)
      \/ \E u \in Runs : pc[u] = "terminal" /\ session[u] = "active" /\ left = Ended(u)
  BY DEF Unheard
<1>. QED  BY <1>1, <1>2, <1>3, <1>4, AnnotationHas

-----------------------------------------------------------------------------
(* Every step keeps the invariant.                                         *)

\* The types of the captures are kept.
LEMMA RunTypesKept ==
    ASSUME RunTypes, [Next]_vars
    PROVE  RunTypes'
<1>. USE DEF RunTypes, TERMINAL_STATES, capture, stored, Goto, Become, Quietly
<1>1. ASSUME NEW r \in Runs, Install(r)
      PROVE  RunTypes'
  <2>1. config.source \in BOOLEAN
    BY CaptureConstants
  <2>2. finished' \in [Runs -> BOOLEAN]
    BY <1>1 DEF Install, FinishIfComplete
  <2>3. alive' \in [Runs -> BOOLEAN]
    BY <1>1, <2>1 DEF Install
  <2>. QED  BY <1>1, <2>2, <2>3 DEF Install
<1>2. ASSUME NEW r \in Runs, Watch(r)
      PROVE  RunTypes'
  BY <1>2 DEF Watch, FinishIfComplete, Reclaimed
<1>3. ASSUME NEW r \in Runs, StopAsked(r)
      PROVE  RunTypes'
  BY <1>3 DEF StopAsked
<1>4. ASSUME NEW r \in Runs, StopTold(r)
      PROVE  RunTypes'
  BY <1>4 DEF StopTold
<1>5. ASSUME NEW r \in Runs, LoopEnds(r)
      PROVE  RunTypes'
  BY <1>5 DEF LoopEnds
<1>6. ASSUME NEW r \in Runs, SampleRaises(r)
      PROVE  RunTypes'
  BY <1>6 DEF SampleRaises
<1>7. ASSUME NEW r \in Runs, SourceTold(r)
      PROVE  RunTypes'
  BY <1>7 DEF SourceTold
<1>8. ASSUME NEW r \in Runs, Complete(r)
      PROVE  RunTypes'
  BY <1>8 DEF Complete
<1>9. ASSUME NEW r \in Runs, RecordTerminal(r)
      PROVE  RunTypes'
  BY <1>9 DEF RecordTerminal
<1>10. ASSUME NEW r \in Runs, TerminalRaises(r)
       PROVE  RunTypes'
  BY <1>10 DEF TerminalRaises
<1>11. ASSUME NEW r \in Runs, TerminalFails(r)
       PROVE  RunTypes'
  BY <1>11 DEF TerminalFails, Flip
<1>12. ASSUME NEW r \in Runs, Finish(r)
       PROVE  RunTypes'
  BY <1>12 DEF Finish, FinishIfComplete, Reclaimed
<1>13. ASSUME NEW r \in Runs, SourceEndsTold(r) \/ SourceFails(r)
       PROVE  RunTypes'
  BY <1>13 DEF SourceEndsTold, SourceFails, Silent
<1>14. ASSUME NEW r \in Runs, Evict(r)
       PROVE  RunTypes'
  BY <1>14 DEF Evict
<1>15. ASSUME NEW q \in Requests, Submit(q)
       PROVE  RunTypes'
  BY <1>15 DEF Submit
<1>16. ASSUME NEW q \in Requests, NEW a \in Annotations,
              Answer(q, a) \/ Annotate(q, a) \/ AnnotateRaises(q, a)
       PROVE  RunTypes'
  BY <1>16 DEF Answer, Annotate, AnnotateRaises, Answered
<1>17. CASE Crash
  BY <1>17 DEF Crash
<1>18. CASE UNCHANGED vars
  BY <1>18 DEF vars
<1>. QED
  BY <1>1, <1>2, <1>3, <1>4, <1>5, <1>6, <1>7, <1>8, <1>9, <1>10, <1>11, <1>12,
     <1>13, <1>14, <1>15, <1>16, <1>17, <1>18
  DEF Next, Run

\* The session of a run is recorded as failed, or the failure is lost.
LEMMA FailTyped ==
    ASSUME StoreTypes, NEW r \in Runs, FailStored(r) \/ FailLost(r) \/ FailStoredLate(r)
    PROVE  /\ session' \in [Runs -> {"none", "memory", "active", "closed", "gone"}]
           /\ lapsed' \subseteq Runs
BY DEF StoreTypes, FailStored, FailLost, FailStoredLate

\* The evidence of a run with its terminal record, or with a new note.
LEMMA AppendTyped ==
    ASSUME RunTypes, StoreTypes, Threads
    PROVE  /\ \A r \in Runs : pc[r] = "terminal" => Ended(r) \in [Runs -> Seq(Record)]
           /\ \A a \in Annotations : Noted(a) \in [Runs -> Seq(Record)]
<1>1. ASSUME NEW r \in Runs, pc[r] = "terminal"
      PROVE  Ended(r) \in [Runs -> Seq(Record)]
  <2>1. End(state[r]) \in Record
    BY <1>1, EndTyped DEF End, Record
  <2>. QED  BY <2>1 DEF Ended, StoreTypes
<1>2. ASSUME NEW a \in Annotations
      PROVE  Noted(a) \in [Runs -> Seq(Record)]
  <2>1. Note(a.id, a.text) \in Record /\ a.run \in Runs
    BY AnnotationHas DEF Note, Record
  <2>. QED  BY <2>1 DEF Noted, StoreTypes
<1>. QED  BY <1>1, <1>2

\* The types of the sessions, the evidence and the annotations are kept.
LEMMA StoreTypesKept ==
    ASSUME RunTypes, StoreTypes, Threads, [Next]_vars
    PROVE  StoreTypes'
<1>. USE CaptureConstants DEF stored, Goto, Become, Quietly, Mishap
<1>0. \A a \in Annotations : a.run \in Runs /\ a.id \in Ids /\ a.text \in Texts
  BY AnnotationHas
<1>1. ASSUME NEW r \in Runs, Install(r)
      PROVE  StoreTypes'
  BY <1>1 DEF Install, StoreTypes
<1>2. ASSUME NEW r \in Runs,
             \/ Watch(r) \/ StopAsked(r) \/ StopTold(r) \/ LoopEnds(r) \/ SourceTold(r)
             \/ Complete(r) \/ Finish(r) \/ SourceEndsTold(r)
      PROVE  StoreTypes'
  <2>1. UNCHANGED <<known, stored, request, accepted, mishaps>>
    BY <1>2 DEF Watch, StopAsked, StopTold, LoopEnds, SourceTold, Complete, Finish,
                SourceEndsTold, Silent
  <2>. QED  BY <2>1 DEF StoreTypes
<1>3. ASSUME NEW r \in Runs, SampleRaises(r)
      PROVE  StoreTypes'
  <2>1. /\ session' \in [Runs -> {"none", "memory", "active", "closed", "gone"}]
        /\ lapsed' \subseteq Runs
    BY <1>3, FailTyped DEF SampleRaises, StoreTypes
  <2>2. UNCHANGED <<known, evidence, request, accepted>> /\ mishaps' \in 0..MaxMishaps
    BY <1>3 DEF SampleRaises, StoreTypes
  <2>. QED  BY <2>1, <2>2 DEF StoreTypes
<1>4. ASSUME NEW r \in Runs, RecordTerminal(r)
      PROVE  StoreTypes'
  <2>1. evidence' \in [Runs -> Seq(Record)]
    BY <1>4, AppendTyped DEF RecordTerminal
  <2>. QED  BY <1>4, <2>1 DEF RecordTerminal, StoreTypes
<1>5. ASSUME NEW r \in Runs, TerminalRaises(r)
      PROVE  StoreTypes'
  <2>1. evidence' \in [Runs -> Seq(Record)]
    BY <1>5, AppendTyped DEF TerminalRaises, StoreTypes
  <2>2. /\ session' \in [Runs -> {"none", "memory", "active", "closed", "gone"}]
        /\ lapsed' \subseteq Runs
    BY <1>5, FailTyped DEF TerminalRaises, StoreTypes
  <2>3. UNCHANGED <<known, request, accepted>> /\ mishaps' \in 0..MaxMishaps
    BY <1>5 DEF TerminalRaises, StoreTypes
  <2>. QED  BY <2>1, <2>2, <2>3 DEF StoreTypes
<1>6. ASSUME NEW r \in Runs, TerminalFails(r)
      PROVE  StoreTypes'
  BY <1>6 DEF TerminalFails, StoreTypes
<1>7. ASSUME NEW r \in Runs, SourceFails(r)
      PROVE  StoreTypes'
  BY <1>7 DEF SourceFails, Silent, StoreTypes
<1>8. ASSUME NEW r \in Runs, Evict(r)
      PROVE  StoreTypes'
  BY <1>8 DEF Evict, StoreTypes
<1>9. ASSUME NEW q \in Requests, Submit(q)
      PROVE  StoreTypes'
  BY <1>9 DEF Submit, StoreTypes, RunTypes
<1>10. ASSUME NEW q \in Requests, NEW a \in Annotations, Answer(q, a)
       PROVE  StoreTypes'
  <2>1. accepted' \subseteq Annotations
    BY <1>10 DEF Answer, StoreTypes
  <2>2. known' \in [Runs -> [Ids -> Texts \union {None}]]
    <3>1. known' = known \/ Remembers(a)
      BY <1>10 DEF Answer
    <3>2. CASE Remembers(a)
      BY <1>0, <3>2 DEF Remembers, StoreTypes
    <3>. QED  BY <3>1, <3>2 DEF StoreTypes
  <2>3. /\ UNCHANGED <<session, evidence, lapsed, mishaps>>
        /\ request' \in [Requests -> Runs \union {None, Idle}]
    BY <1>10 DEF Answer, Answered, StoreTypes
  <2>. QED  BY <2>1, <2>2, <2>3 DEF StoreTypes
<1>11. ASSUME NEW q \in Requests, NEW a \in Annotations, Annotate(q, a)
       PROVE  StoreTypes'
  <2>1. evidence' \in [Runs -> Seq(Record)]
    BY <1>11, AppendTyped DEF Annotate
  <2>. QED  BY <1>0, <1>11, <2>1 DEF Annotate, Answered, Remembers, StoreTypes
<1>12. ASSUME NEW q \in Requests, NEW a \in Annotations, AnnotateRaises(q, a)
       PROVE  StoreTypes'
  <2>1. evidence' \in [Runs -> Seq(Record)]
    BY <1>12, AppendTyped DEF AnnotateRaises, StoreTypes
  <2>2. /\ session' \in [Runs -> {"none", "memory", "active", "closed", "gone"}]
        /\ lapsed' \subseteq Runs
    BY <1>0, <1>12, FailTyped DEF AnnotateRaises, StoreTypes
  <2>3. /\ UNCHANGED <<known, accepted>> /\ mishaps' \in 0..MaxMishaps
        /\ request' \in [Requests -> Runs \union {None, Idle}]
    BY <1>12 DEF AnnotateRaises, Answered, StoreTypes
  <2>. QED  BY <2>1, <2>2, <2>3 DEF StoreTypes
<1>13. CASE Crash
  <2>1. PICK left \in Unheard :
           evidence' = [r \in Runs |-> IF session'[r] = "gone" THEN <<>> ELSE left[r]]
    BY <1>13 DEF Crash
  <2>2. evidence' \in [Runs -> Seq(Record)]
    BY <2>1, LeftIs
  <2>3. session' \in [Runs -> {"none", "memory", "active", "closed", "gone"}]
    BY <1>13 DEF Crash, StoreTypes
  <2>4. /\ known' \in [Runs -> [Ids -> Texts \union {None}]]
        /\ request' \in [Requests -> Runs \union {None, Idle}]
        /\ accepted' \subseteq Annotations /\ lapsed' \subseteq Runs
        /\ mishaps' \in 0..MaxMishaps
    BY <1>13 DEF Crash, StoreTypes
  <2>. QED  BY <2>2, <2>3, <2>4 DEF StoreTypes
<1>14. CASE UNCHANGED vars
  BY <1>14 DEF vars, StoreTypes
<1>. QED
  BY <1>1, <1>2, <1>3, <1>4, <1>5, <1>6, <1>7, <1>8, <1>9, <1>10, <1>11, <1>12,
     <1>13, <1>14
  DEF Next, Run

\* The threads and the states of the captures stay together.
LEMMA ThreadsKept ==
    ASSUME RunTypes, Threads, [Next]_vars
    PROVE  Threads'
<1>. USE DEF TERMINAL_STATES, capture, stored, Goto, Become, Quietly
<1>1. ASSUME NEW r \in Runs, Install(r)
      PROVE  Threads'
  <2>1. /\ state[r] = "none" /\ current' = r
        /\ current = None \/ state[current] \in TERMINAL_STATES
        /\ state' = [state EXCEPT ![r] = "running"]
        /\ pc' = [pc EXCEPT ![r] = "sampling"]
        /\ \A u \in Runs : u # r => alive'[u] = alive[u]
    BY <1>1 DEF Install, RunTypes
  <2>2. \A u \in Runs : ~Live(u)
    BY <2>1 DEF Threads, Live, RunTypes
  <2>3. \A u \in Runs : finished'[u] =>
           u # r /\ (finished[u] \/ (pc[u] \in {"none", "dead"} /\ ~alive[u]
                                      /\ state[u] \in TERMINAL_STATES))
    <3>1. CASE current = None
      BY <1>1, <2>1, <3>1 DEF Install, Threads
    <3>2. CASE current # None
      <4>1. /\ FinishIfComplete(current, FALSE)
            /\ current \in Runs /\ state[current] \in TERMINAL_STATES
        BY <1>1, <3>2 DEF Install, RunTypes
      <4>2. current # r /\ ~finished[r]
        BY <2>1, <4>1 DEF Threads
      <4>. QED  BY <4>1, <4>2 DEF FinishIfComplete, Reclaimed, ThreadAlive, RunTypes
    <3>. QED  BY <3>1, <3>2
  <2>4. \A u \in Runs : finished'[u] => u # r /\ pc[u] = "dead" /\ ~alive[u]
    BY <2>3 DEF Threads
  <2>5. current' # None
    BY <2>1, NoneIsNeither
  <2>. QED  BY <2>1, <2>2, <2>4, <2>5 DEF Threads, Live, RunTypes
<1>2. ASSUME NEW r \in Runs, Watch(r)
      PROVE  Threads'
  <2>1. /\ UNCHANGED <<current, state, pc, alive>>
        /\ \A u \in Runs : finished'[u] =>
              finished[u] \/ (pc[u] \in {"none", "dead"} /\ ~alive[u]
                              /\ state[u] \in TERMINAL_STATES)
    BY <1>2 DEF Watch, FinishIfComplete, Reclaimed, ThreadAlive, RunTypes
  <2>2. \A u \in Runs : finished'[u] => pc[u] = "dead" /\ ~alive[u]
    BY <2>1 DEF Threads
  <2>. QED  BY <2>1, <2>2 DEF Threads, Live
<1>3. ASSUME NEW r \in Runs, StopAsked(r)
      PROVE  Threads'
  BY <1>3 DEF StopAsked, Threads, Live, RunTypes
<1>4. ASSUME NEW r \in Runs, LoopEnds(r) \/ SampleRaises(r) \/ SourceTold(r)
      PROVE  Threads'
  <2>1. /\ UNCHANGED <<current, state, alive, finished>>
        /\ pc[r] \in {"sampling", "source"}
        /\ \/ pc' = [pc EXCEPT ![r] = "source"]
           \/ pc' = [pc EXCEPT ![r] = "join"]
    BY <1>4 DEF LoopEnds, SampleRaises, SourceTold
  <2>. QED  BY <2>1 DEF Threads, Live, RunTypes
<1>5. ASSUME NEW r \in Runs, Complete(r)
      PROVE  Threads'
  <2>1. /\ UNCHANGED <<current, alive, finished>>
        /\ pc[r] = "join" /\ pc' = [pc EXCEPT ![r] = "terminal"]
        /\ \E verdict \in TERMINAL_STATES : state' = [state EXCEPT ![r] = verdict]
    BY <1>5 DEF Complete, RunTypes
  <2>. QED  BY <2>1 DEF Threads, Live, RunTypes
<1>6. ASSUME NEW r \in Runs, RecordTerminal(r) \/ TerminalRaises(r)
      PROVE  Threads'
  <2>1. /\ UNCHANGED <<current, state, alive, finished>>
        /\ pc[r] = "terminal"
        /\ \/ pc' = [pc EXCEPT ![r] = "finish"]
           \/ pc' = [pc EXCEPT ![r] = "refused"]
    BY <1>6 DEF RecordTerminal, TerminalRaises
  <2>. QED  BY <2>1 DEF Threads, Live, RunTypes
<1>7. ASSUME NEW r \in Runs, TerminalFails(r)
      PROVE  Threads'
  <2>1. /\ UNCHANGED <<current, alive, finished>>
        /\ pc[r] = "refused" /\ pc' = [pc EXCEPT ![r] = "finish"]
        /\ state' = [state EXCEPT ![r] = "failed"]
    BY <1>7 DEF TerminalFails, Flip
  <2>. QED  BY <2>1 DEF Threads, Live, RunTypes
<1>8. ASSUME NEW r \in Runs, Finish(r)
      PROVE  Threads'
  <2>1. /\ UNCHANGED <<current, state, alive>>
        /\ pc[r] = "finish" /\ pc' = [pc EXCEPT ![r] = "dead"]
        /\ \A u \in Runs : finished'[u] => finished[u] \/ (u = r /\ ~alive[u])
    BY <1>8 DEF Finish, FinishIfComplete, Reclaimed, RunTypes
  <2>. QED  BY <2>1 DEF Threads, Live, RunTypes
<1>9. ASSUME NEW r \in Runs, SourceEndsTold(r) \/ SourceFails(r)
      PROVE  Threads'
  <2>1. UNCHANGED <<current, state, pc, finished>> /\ alive' = [alive EXCEPT ![r] = FALSE]
    BY <1>9 DEF SourceEndsTold, SourceFails, Silent
  <2>. QED  BY <2>1 DEF Threads, Live, RunTypes
<1>10. CASE Crash
  <2>1. /\ current' = None
        /\ \A u \in Runs : /\ state'[u] \in {"none", "gone"} /\ pc'[u] = "none"
                           /\ ~alive'[u] /\ ~finished'[u]
    BY <1>10 DEF Crash
  <2>. QED  BY <2>1 DEF Threads, Live
<1>11. ASSUME UNCHANGED <<current, state, pc, alive, finished>>
       PROVE  Threads'
  BY <1>11 DEF Threads, Live
<1>12. ASSUME NEW r \in Runs, StopTold(r) \/ Evict(r)
       PROVE  Threads'
  BY <1>11, <1>12 DEF StopTold, Evict
<1>13. ASSUME NEW q \in Requests, NEW a \in Annotations,
              Answer(q, a) \/ Annotate(q, a) \/ AnnotateRaises(q, a)
       PROVE  Threads'
  BY <1>11, <1>13 DEF Answer, Annotate, AnnotateRaises, Answered
<1>14. ASSUME NEW q \in Requests, Submit(q)
       PROVE  Threads'
  BY <1>11, <1>14 DEF Submit
<1>15. CASE UNCHANGED vars
  BY <1>11, <1>15 DEF vars
<1>. QED
  BY <1>1, <1>2, <1>3, <1>4, <1>5, <1>6, <1>7, <1>8, <1>9, <1>10, <1>12, <1>13,
     <1>14, <1>15
  DEF Next, Run

\* A failure that is recorded closes the session, or leaves it as it was.
LEMMA FailEffect ==
    ASSUME StoreTypes, NEW r \in Runs, FailStored(r) \/ FailLost(r) \/ FailStoredLate(r)
    PROVE  /\ session' = session \/ session' = [session EXCEPT ![r] = "closed"]
           /\ lapsed \subseteq lapsed'
BY DEF FailStored, FailLost, FailStoredLate

\* The sessions follow their captures.
LEMMA SessionsKept ==
    ASSUME RunTypes, StoreTypes, Threads, Sessions, [Next]_vars
    PROVE  Sessions'
<1>. USE DEF TERMINAL_STATES, capture, stored, Goto, Become, Quietly
<1>0. ASSUME NEW r \in Runs, state' = state,
             session[r] \in {"memory", "active"},
             session' = session \/ session' = [session EXCEPT ![r] = "closed"]
      PROVE  Sessions'
  BY <1>0 DEF Sessions, StoreTypes
<1>1. ASSUME NEW r \in Runs, Install(r)
      PROVE  Sessions'
  BY <1>1 DEF Install, Sessions, RunTypes, StoreTypes
<1>2. ASSUME NEW r \in Runs, StopAsked(r) \/ Complete(r) \/ TerminalFails(r)
      PROVE  Sessions'
  <2>1. state[r] \notin {"none", "gone"}
    BY <1>2 DEF StopAsked, Complete, TerminalFails, Threads
  <2>2. /\ \E s \in TERMINAL_STATES \union {"stopping"} : state' = [state EXCEPT ![r] = s]
        /\ session' = session \/ session' = [session EXCEPT ![r] = session'[r]]
        /\ session[r] # "none" => session'[r] # "none"
    BY <1>2 DEF StopAsked, Complete, TerminalFails, Flip, RunTypes, StoreTypes
  <2>. QED  BY <2>1, <2>2 DEF Sessions, RunTypes, StoreTypes
<1>3. ASSUME NEW r \in Runs,
             \/ Watch(r) \/ StopTold(r) \/ LoopEnds(r) \/ SourceTold(r) \/ Finish(r)
             \/ SourceEndsTold(r) \/ SourceFails(r)
      PROVE  Sessions'
  <2>1. UNCHANGED <<state, session>>
    BY <1>3 DEF Watch, StopTold, LoopEnds, SourceTold, Finish, SourceEndsTold, SourceFails,
                Silent
  <2>. QED  BY <2>1 DEF Sessions
<1>4. ASSUME NEW r \in Runs, SampleRaises(r) \/ TerminalRaises(r)
      PROVE  Sessions'
  <2>1. state' = state /\ (session' = session \/ session[r] = "active")
    BY <1>4 DEF SampleRaises, TerminalRaises
  <2>2. CASE session' = session
    BY <2>1, <2>2 DEF Sessions
  <2>3. CASE session' # session
    <3>1. session' = [session EXCEPT ![r] = "closed"]
      BY <1>4, <2>3, FailEffect DEF SampleRaises, TerminalRaises
    <3>. QED  BY <1>0, <2>1, <2>3, <3>1
  <2>. QED  BY <2>2, <2>3
<1>5. ASSUME NEW r \in Runs, RecordTerminal(r)
      PROVE  Sessions'
  <2>1. /\ state' = state /\ state[r] # "none" /\ ~Refused(r)
        /\ session' = session \/ session' = [session EXCEPT ![r] = "closed"]
    BY <1>5 DEF RecordTerminal, Threads
  <2>2. session[r] \in {"memory", "active"}
    BY <2>1 DEF Refused, Sessions, StoreTypes
  <2>. QED  BY <1>0, <2>1, <2>2
<1>6. ASSUME NEW r \in Runs, Evict(r)
      PROVE  Sessions'
  BY <1>6 DEF Evict, Sessions, StoreTypes
<1>7. ASSUME NEW q \in Requests, NEW a \in Annotations,
             Answer(q, a) \/ Annotate(q, a) \/ AnnotateRaises(q, a)
      PROVE  Sessions'
  <2>1. state' = state /\ a.run \in Runs /\ (session' = session \/ session[a.run] = "active")
    BY <1>7, AnnotationHas DEF Answer, Annotate, AnnotateRaises, Answered
  <2>2. CASE session' = session
    BY <2>1, <2>2 DEF Sessions
  <2>3. CASE session' # session
    <3>1. session' = [session EXCEPT ![a.run] = "closed"]
      BY <1>7, <2>1, <2>3, FailEffect DEF Answer, Annotate, AnnotateRaises
    <3>. QED  BY <1>0, <2>1, <2>3, <3>1
  <2>. QED  BY <2>2, <2>3
<1>8. CASE Crash
  BY <1>8 DEF Crash, Sessions, RunTypes, StoreTypes
<1>9. ASSUME NEW q \in Requests, Submit(q)
      PROVE  Sessions'
  BY <1>9 DEF Submit, Sessions
<1>10. CASE UNCHANGED vars
  BY <1>10 DEF vars, Sessions
<1>. QED
  BY <1>1, <1>2, <1>3, <1>4, <1>5, <1>6, <1>7, <1>8, <1>9, <1>10 DEF Next, Run

\* A new note behind notes, and a terminal record behind anything.
LEMMA OrderKept ==
    ASSUME NEW s \in Seq(Record)
    PROVE  /\ Plain(s) => Ordered(s)
           /\ \A id \in Ids, text \in Texts : Plain(s) => Plain(Append(s, Note(id, text)))
           /\ \A verdict \in TERMINAL_STATES :
                 Ordered(s) => Ordered(Append(s, End(verdict)))
<1>1. Plain(s) => Ordered(s)
  BY DEF Plain, Ordered
<1>2. ASSUME NEW id \in Ids, NEW text \in Texts, Plain(s)
      PROVE  Plain(Append(s, Note(id, text)))
  <2>. DEFINE t == Append(s, Note(id, text))
  <2>1. /\ DOMAIN t = 1..(Len(s) + 1) /\ t[Len(s) + 1] = Note(id, text)
        /\ \A i \in DOMAIN s : t[i] = s[i]
    BY NoneIsNeither, NoteAdded
  <2>2. IsNote(Note(id, text))
    BY NoneIsNeither DEF Note, IsNote
  <2>. HIDE DEF t
  <2>3. Plain(t)
    BY <1>2, <2>1, <2>2 DEF Plain
  <2>. QED  BY <2>3 DEF t
<1>3. ASSUME NEW verdict \in TERMINAL_STATES, Ordered(s)
      PROVE  Ordered(Append(s, End(verdict)))
  <2>. DEFINE t == Append(s, End(verdict))
  <2>1. /\ DOMAIN t = 1..(Len(s) + 1) /\ t[Len(s) + 1] = End(verdict)
        /\ \A i \in DOMAIN s : t[i] = s[i]
    BY EndAdded
  <2>2. ~IsNote(End(verdict))
    BY DEF End, IsNote
  <2>. HIDE DEF t
  <2>3. Ordered(t)
    BY <1>3, <2>1, <2>2 DEF Ordered
  <2>. QED  BY <2>3 DEF t
<1>. QED  BY <1>1, <1>2, <1>3

\* What the evidence of a run becomes: it is emptied when its session goes, and
\* gets its terminal record, or a note of a capture that is running.
LEMMA EvidenceStep ==
    ASSUME RunTypes, StoreTypes, Threads, Sessions, [Next]_vars, NEW r \in Runs
    PROVE  \/ evidence'[r] = evidence[r]
           \/ evidence'[r] = <<>> /\ session'[r] = "gone"
           \/ /\ pc[r] = "terminal" /\ pc'[r] \in {"finish", "refused", "none"}
              /\ state[r] \in TERMINAL_STATES /\ state'[r] \in {state[r], "gone"}
              /\ session'[r] \notin {"none", "gone"}
              /\ evidence'[r] = Append(evidence[r], End(state[r]))
           \/ \E a \in Annotations, q \in Requests :
                /\ a.run = r /\ request[q] # Idle /\ Verdict(a, request[q]) = "new"
                /\ session[r] \in {"memory", "active"} /\ session'[r] \notin {"none", "gone"}
                /\ evidence'[r] = Append(evidence[r], Note(a.id, a.text))
                /\ state'[r] \in {"running", "gone"} /\ pc'[r] \in {pc[r], "none"}
<1>. USE DEF stored, Goto, Become, Quietly
<1>1. ASSUME NEW u \in Runs, RecordTerminal(u)
      PROVE  \/ evidence'[r] = evidence[r]
             \/ /\ pc[r] = "terminal" /\ pc'[r] = "finish"
                /\ state[r] \in TERMINAL_STATES /\ state'[r] = state[r]
                /\ session'[r] \notin {"none", "gone"}
                /\ evidence'[r] = Append(evidence[r], End(state[r]))
  <2>1. state[u] \in TERMINAL_STATES /\ session[u] # "none"
    BY <1>1, EndTyped DEF RecordTerminal, Sessions, TERMINAL_STATES
  <2>. QED  BY <1>1, <2>1 DEF RecordTerminal, Ended, Refused, RunTypes, StoreTypes
<1>2. ASSUME NEW u \in Runs, TerminalRaises(u)
      PROVE  \/ evidence'[r] = evidence[r]
             \/ /\ pc[r] = "terminal" /\ pc'[r] = "refused"
                /\ state[r] \in TERMINAL_STATES /\ state'[r] = state[r]
                /\ session'[r] \notin {"none", "gone"}
                /\ evidence'[r] = Append(evidence[r], End(state[r]))
  <2>1. state[u] \in TERMINAL_STATES
    BY <1>2, EndTyped DEF TerminalRaises
  <2>2. evidence' = evidence \/ (session[u] = "active" /\ evidence' = Ended(u))
    BY <1>2 DEF TerminalRaises
  <2>3. session[u] = "active" => session'[u] \in {"active", "closed"}
    BY <1>2, FailEffect DEF TerminalRaises, StoreTypes
  <2>. QED  BY <1>2, <2>1, <2>2, <2>3 DEF TerminalRaises, Ended, RunTypes, StoreTypes
<1>3. ASSUME NEW q \in Requests, NEW a \in Annotations, Annotate(q, a) \/ AnnotateRaises(q, a)
      PROVE  \/ evidence'[r] = evidence[r]
             \/ /\ a.run = r /\ request[q] # Idle /\ Verdict(a, request[q]) = "new"
                /\ session[r] \in {"memory", "active"} /\ session'[r] \notin {"none", "gone"}
                /\ evidence'[r] = Append(evidence[r], Note(a.id, a.text))
                /\ state'[r] = "running" /\ pc'[r] = pc[r]
  <2>1. /\ request[q] # Idle /\ Verdict(a, request[q]) = "new" /\ UNCHANGED <<state, pc>>
        /\ evidence' = evidence \/ evidence' = Noted(a)
    BY <1>3 DEF Annotate, AnnotateRaises, Answered, capture
  <2>2. a.run \in Runs /\ state[a.run] = "running" /\ session[a.run] # "none"
    BY <2>1, AnnotationHas, NewIs DEF Sessions
  <2>3. evidence' # evidence =>
           session[a.run] \in {"memory", "active"} /\ session'[a.run] \notin {"none", "gone"}
    <3>1. CASE Annotate(q, a)
      BY <2>2, <3>1 DEF Annotate, Refused, StoreTypes
    <3>2. CASE AnnotateRaises(q, a)
      BY <2>2, <3>2, FailEffect DEF AnnotateRaises, StoreTypes
    <3>. QED  BY <1>3, <3>1, <3>2
  <2>. QED  BY <2>1, <2>2, <2>3 DEF Noted, StoreTypes
<1>4. CASE Crash
  <2>1. PICK left \in Unheard :
           evidence' = [u \in Runs |-> IF session'[u] = "gone" THEN <<>> ELSE left[u]]
    BY <1>4 DEF Crash
  <2>2. CASE session'[r] = "gone"
    BY <2>1, <2>2
  <2>3. CASE session'[r] # "gone"
    <3>1. evidence'[r] = left[r] /\ pc'[r] = "none"
      BY <1>4, <2>1, <2>3 DEF Crash
    <3>2. CASE /\ pc[r] = "terminal" /\ session[r] = "active"
               /\ state[r] \in TERMINAL_STATES
               /\ left[r] = Append(evidence[r], End(state[r]))
      <4>1. state'[r] = "gone" /\ session'[r] = "closed"
        BY <1>4, <3>2 DEF Crash, TERMINAL_STATES
      <4>. QED  BY <3>1, <3>2, <4>1
    <3>3. ASSUME NEW a \in Annotations, a.run = r, Pending(a),
                 left[r] = Append(evidence[r], Note(a.id, a.text))
          PROVE  \E q \in Requests :
                    /\ request[q] # Idle /\ Verdict(a, request[q]) = "new"
                    /\ session[r] \in {"memory", "active"} /\ session'[r] \notin {"none", "gone"}
                    /\ state'[r] \in {"running", "gone"}
      <4>1. PICK q \in Requests :
               request[q] # Idle /\ Verdict(a, request[q]) = "new" /\ session[a.run] = "active"
        BY <3>3 DEF Pending
      <4>2. state[r] = "running"
        BY <3>3, <4>1, NewIs
      <4>3. state'[r] = "gone" /\ session'[r] = "closed"
        BY <1>4, <3>3, <4>1, <4>2 DEF Crash
      <4>. QED  BY <3>3, <4>1, <4>3
    <3>. QED  BY <3>1, <3>2, <3>3, LeftIs
  <2>. QED  BY <2>2, <2>3
<1>5. ASSUME NEW u \in Runs, Evict(u)
      PROVE  evidence'[r] = evidence[r] \/ (evidence'[r] = <<>> /\ session'[r] = "gone")
  BY <1>5 DEF Evict, StoreTypes
<1>6. ASSUME NEW u \in Runs,
             \/ Install(u) \/ Watch(u) \/ StopAsked(u) \/ StopTold(u) \/ LoopEnds(u)
             \/ SampleRaises(u) \/ SourceTold(u) \/ Complete(u) \/ TerminalFails(u)
             \/ Finish(u) \/ SourceEndsTold(u) \/ SourceFails(u)
      PROVE  evidence' = evidence
  BY <1>6 DEF Install, Watch, StopAsked, StopTold, LoopEnds, SampleRaises, SourceTold,
              Complete, TerminalFails, Finish, SourceEndsTold, SourceFails, Silent
<1>7. ASSUME NEW q \in Requests, NEW a \in Annotations, Submit(q) \/ Answer(q, a)
      PROVE  evidence' = evidence
  BY <1>7 DEF Submit, Answer, Answered
<1>8. ASSUME NEW q \in Requests, Submit(q)
      PROVE  evidence' = evidence
  BY <1>8 DEF Submit
<1>9. CASE UNCHANGED vars
  BY <1>9 DEF vars
<1>. QED
  BY <1>1, <1>2, <1>3, <1>4, <1>5, <1>6, <1>7, <1>8, <1>9 DEF Next, Run

\* What else a step does to a run: a session goes with its evidence, a capture
\* starts without any, and only one that failed ends without its verdict.
LEMMA RunStep ==
    ASSUME RunTypes, StoreTypes, Threads, Sessions, [Next]_vars, NEW r \in Runs
    PROVE  /\ session'[r] \in {"none", "gone"} =>
                 session'[r] = session[r] \/ evidence'[r] = <<>>
           /\ session[r] = "gone" => session'[r] = "gone"
           /\ Live(r)' \/ pc'[r] = "terminal" =>
                 Live(r) \/ pc[r] = "terminal" \/ session[r] = "none"
           /\ pc'[r] \in {"finish", "dead"} =>
                 \/ state'[r] = "failed"
                 \/ pc[r] \in {"finish", "dead"} /\ state'[r] = state[r]
                 \/ evidence'[r] = Append(evidence[r], End(state'[r]))
<1>. USE DEF stored, capture, Goto, Become, Quietly, Live
<1>. DEFINE Steps ==
       /\ session'[r] \in {"none", "gone"} => session'[r] = session[r] \/ evidence'[r] = <<>>
       /\ session[r] = "gone" => session'[r] = "gone"
       /\ state'[r] \in {"running", "stopping"} \/ pc'[r] = "terminal" =>
             state[r] \in {"running", "stopping"} \/ pc[r] = "terminal" \/ session[r] = "none"
       /\ pc'[r] \in {"finish", "dead"} =>
             \/ state'[r] = "failed"
             \/ pc[r] \in {"finish", "dead"} /\ state'[r] = state[r]
             \/ evidence'[r] = Append(evidence[r], End(state'[r]))
<1>0. ASSUME UNCHANGED <<state, pc>>,
             session'[r] \in {session[r], "closed"}, session[r] = "gone" => session'[r] = "gone"
      PROVE  Steps
  BY <1>0
<1>1. ASSUME NEW u \in Runs, Install(u)
      PROVE  Steps
  <2>1. state[u] = "none" /\ session[u] = "none" /\ evidence' = evidence
    BY <1>1 DEF Install, Sessions
  <2>. QED  BY <1>1, <2>1 DEF Install, RunTypes, StoreTypes
<1>2. ASSUME NEW u \in Runs,
             \/ Watch(u) \/ StopTold(u) \/ SourceEndsTold(u) \/ SourceFails(u)
      PROVE  Steps
  BY <1>0, <1>2 DEF Watch, StopTold, SourceEndsTold, SourceFails, Silent
<1>3. ASSUME NEW u \in Runs, StopAsked(u)
      PROVE  Steps
  <2>1. state[u] \in {"running", "stopping"} /\ pc' = pc
        /\ state' = [state EXCEPT ![u] = "stopping"] /\ session' = session
    BY <1>3 DEF StopAsked
  <2>2. pc[u] \notin {"finish", "dead"}
    BY <2>1 DEF Threads
  <2>. QED  BY <2>1, <2>2 DEF RunTypes
<1>4. ASSUME NEW u \in Runs, LoopEnds(u) \/ SourceTold(u) \/ SampleRaises(u)
      PROVE  Steps
  <2>1. /\ pc[u] \in {"sampling", "source"} /\ state' = state
        /\ pc' = [pc EXCEPT ![u] = "source"] \/ pc' = [pc EXCEPT ![u] = "join"]
    BY <1>4 DEF LoopEnds, SourceTold, SampleRaises
  <2>2. \/ session' = session
        \/ session[u] = "active" /\ session' = [session EXCEPT ![u] = "closed"]
    BY <1>4, FailEffect DEF LoopEnds, SourceTold, SampleRaises
  <2>. QED  BY <2>1, <2>2 DEF RunTypes, StoreTypes
<1>5. ASSUME NEW u \in Runs, Complete(u)
      PROVE  Steps
  <2>1. /\ pc[u] = "join" /\ pc' = [pc EXCEPT ![u] = "terminal"] /\ session' = session
        /\ \A v \in Runs : v # u => state'[v] = state[v]
    BY <1>5 DEF Complete, RunTypes
  <2>2. state[u] \in {"running", "stopping"}
    BY <2>1 DEF Threads
  <2>. QED  BY <2>1, <2>2 DEF RunTypes
<1>6. ASSUME NEW u \in Runs, RecordTerminal(u)
      PROVE  Steps
  <2>1. /\ state' = state /\ evidence' = [evidence EXCEPT ![u] = Append(@, End(state[u]))]
        /\ session' = session \/ session' = [session EXCEPT ![u] = "closed"]
        /\ session[u] # "gone" /\ pc' = [pc EXCEPT ![u] = "finish"]
    BY <1>6 DEF RecordTerminal, Ended, Refused
  <2>. QED  BY <2>1 DEF RunTypes, StoreTypes
<1>7. ASSUME NEW u \in Runs, TerminalRaises(u)
      PROVE  Steps
  <2>1. state' = state /\ pc' = [pc EXCEPT ![u] = "refused"]
    BY <1>7 DEF TerminalRaises
  <2>2. \/ session' = session
        \/ session[u] = "active" /\ session' = [session EXCEPT ![u] = "closed"]
    BY <1>7, FailEffect DEF TerminalRaises
  <2>. QED  BY <2>1, <2>2 DEF RunTypes, StoreTypes
<1>8. ASSUME NEW u \in Runs, TerminalFails(u)
      PROVE  Steps
  BY <1>8 DEF TerminalFails, Flip, RunTypes, StoreTypes
<1>9. ASSUME NEW u \in Runs, Finish(u)
      PROVE  Steps
  BY <1>9 DEF Finish, RunTypes, StoreTypes
<1>10. ASSUME NEW u \in Runs, Evict(u)
       PROVE  Steps
  BY <1>10 DEF Evict, StoreTypes
<1>11. ASSUME NEW q \in Requests, NEW a \in Annotations,
              Answer(q, a) \/ Annotate(q, a) \/ AnnotateRaises(q, a)
       PROVE  Steps
  <2>1. UNCHANGED <<state, pc>> /\ a.run \in Runs
    BY <1>11, AnnotationHas DEF Answer, Annotate, AnnotateRaises, Answered
  <2>2. \/ session' = session
        \/ session[a.run] = "active" /\ session' = [session EXCEPT ![a.run] = "closed"]
    BY <1>11, <2>1, FailEffect DEF Answer, Annotate, AnnotateRaises
  <2>. QED  BY <1>0, <2>1, <2>2 DEF StoreTypes
<1>12. ASSUME NEW q \in Requests, Submit(q)
       PROVE  Steps
  BY <1>0, <1>12 DEF Submit
<1>13. CASE Crash
  <2>1. /\ pc'[r] = "none" /\ state'[r] \in {"none", "gone"}
        /\ session'[r] = CASE session[r] = "active" -> "closed"
                           [] session[r] = "memory" -> "gone"
                           [] OTHER -> session[r]
        /\ session'[r] = "gone" => evidence'[r] = <<>>
    BY <1>13 DEF Crash
  <2>. QED  BY <2>1
<1>14. CASE UNCHANGED vars
  BY <1>0, <1>14 DEF vars
<1>. QED
  BY <1>1, <1>2, <1>3, <1>4, <1>5, <1>6, <1>7, <1>8, <1>9, <1>10, <1>11, <1>12,
     <1>13, <1>14
  DEF Next, Run

\* Notes come before the terminal record, and a thread that ends leaves one.
LEMMA VerdictsKept ==
    ASSUME RunTypes, StoreTypes, Threads, Sessions, Verdicts, [Next]_vars
    PROVE  Verdicts'
<1>. SUFFICES ASSUME NEW r \in Runs
              PROVE  /\ session'[r] \in {"none", "gone"} => evidence'[r] = <<>>
                     /\ Live(r)' \/ pc'[r] = "terminal" => Plain(evidence'[r])
                     /\ Ordered(evidence'[r])
                     /\ pc'[r] \in {"finish", "dead"} =>
                           \/ state'[r] = "failed" \/ session'[r] = "gone"
                           \/ /\ evidence'[r] # <<>>
                              /\ evidence'[r][Len(evidence'[r])] = End(state'[r])
  BY DEF Verdicts
<1>. DEFINE Signed(s, verdict) == s # <<>> /\ s[Len(s)] = End(verdict)
<1>1. evidence[r] \in Seq(Record)
  BY DEF StoreTypes
<1>2. /\ session[r] \in {"none", "gone"} => evidence[r] = <<>>
      /\ Live(r) \/ pc[r] = "terminal" => Plain(evidence[r])
      /\ Ordered(evidence[r])
      /\ pc[r] \in {"finish", "dead"} =>
            state[r] = "failed" \/ session[r] = "gone" \/ Signed(evidence[r], state[r])
  BY DEF Verdicts
<1>3. Plain(<<>>) /\ Ordered(<<>>)
  BY DEF Plain, Ordered
<1>4. \A verdict : Signed(Append(evidence[r], End(verdict)), verdict)
  BY <1>1
<1>. HIDE DEF Signed
<1>5. CASE evidence'[r] = evidence[r]
  <2>1. /\ session'[r] \in {"none", "gone"} => evidence'[r] = <<>>
        /\ Live(r)' \/ pc'[r] = "terminal" => Plain(evidence'[r])
        /\ Ordered(evidence'[r])
    BY <1>2, <1>3, <1>5, RunStep
  <2>2. pc'[r] \in {"finish", "dead"} =>
           state'[r] = "failed" \/ session'[r] = "gone" \/ Signed(evidence'[r], state'[r])
    BY <1>2, <1>4, <1>5, RunStep
  <2>. QED  BY <2>1, <2>2 DEF Signed
<1>6. CASE evidence'[r] = <<>> /\ session'[r] = "gone"
  BY <1>3, <1>6
<1>7. CASE /\ pc[r] = "terminal" /\ pc'[r] \in {"finish", "refused", "none"}
           /\ state[r] \in TERMINAL_STATES /\ state'[r] \in {state[r], "gone"}
           /\ session'[r] \notin {"none", "gone"}
           /\ evidence'[r] = Append(evidence[r], End(state[r]))
  <2>1. ~Live(r)' /\ pc'[r] # "terminal"
    BY <1>7 DEF Live, TERMINAL_STATES
  <2>2. Ordered(evidence'[r])
    BY <1>1, <1>2, <1>7, OrderKept
  <2>3. Signed(evidence'[r], state[r])
    BY <1>4, <1>7
  <2>4. pc'[r] \in {"finish", "dead"} => state'[r] = state[r]
    BY <1>7, ThreadsKept DEF Threads
  <2>. QED  BY <1>7, <2>1, <2>2, <2>3, <2>4 DEF Signed
<1>8. ASSUME NEW a \in Annotations, NEW q \in Requests,
             a.run = r, request[q] # Idle, Verdict(a, request[q]) = "new",
             session'[r] \notin {"none", "gone"},
             evidence'[r] = Append(evidence[r], Note(a.id, a.text)),
             pc'[r] \in {pc[r], "none"}
      PROVE  /\ session'[r] \notin {"none", "gone"} /\ Plain(evidence'[r])
             /\ Ordered(evidence'[r]) /\ pc'[r] \notin {"finish", "dead"}
  <2>1. Live(r) /\ a.id \in Ids /\ a.text \in Texts
    BY <1>8, NewIs, AnnotationHas DEF Live
  <2>2. Plain(evidence'[r])
    BY <1>1, <1>2, <1>8, <2>1, OrderKept
  <2>3. Ordered(evidence'[r])
    BY <2>2 DEF Plain, Ordered
  <2>4. pc[r] \notin {"finish", "dead"}
    BY <2>1 DEF Threads
  <2>. QED  BY <1>8, <2>2, <2>3, <2>4
<1>. QED  BY <1>5, <1>6, <1>7, <1>8, EvidenceStep

\* A note that is new to a capture which remembers all its notes is the only
\* one with its identifier, and within the limit.
LEMMA NewNote ==
    ASSUME NEW s \in Seq(Record), NEW k \in [Ids -> Texts \union {None}],
           Once(s), Backed(s, k), Covered(s, k),
           NEW id \in Ids, NEW text \in Texts, k[id] = None,
           ~(Cardinality(Remembered(k)) >= Limit)
    PROVE  /\ Once(Append(s, Note(id, text)))
           /\ Cardinality(Notable(Append(s, Note(id, text)))) <= Limit
           /\ Backed(Append(s, Note(id, text)), k)
           /\ Backed(Append(s, Note(id, text)), [k EXCEPT ![id] = text])
           /\ Covered(Append(s, Note(id, text)), [k EXCEPT ![id] = text])
<1>. DEFINE t == Append(s, Note(id, text))
            l == [k EXCEPT ![id] = text]
<1>1. /\ t \in Seq(Record) /\ DOMAIN t = 1..(Len(s) + 1) /\ t[Len(s) + 1] = Note(id, text)
      /\ \A i \in DOMAIN s : t[i] = s[i]
      /\ Notable(t) = Notable(s) \union {Len(s) + 1} /\ Len(s) + 1 \notin Notable(s)
  BY NoneIsNeither, NoteAdded
<1>2. Note(id, text).id = id
  BY DEF Note
<1>3. \A i \in Notable(s) : i \in DOMAIN s /\ s[i].id # id /\ s[i].id \in Ids
  <2>1. \A i \in Notable(s) : i \in DOMAIN s /\ IsNote(s[i]) /\ s[i] \in Record
    BY DEF Notable
  <2>. QED  BY <2>1 DEF Covered, Record, IsNote
<1>4. l \in [Ids -> Texts \union {None}] /\ l[id] = text /\ text # None
      /\ \A other \in Ids : other # id => l[other] = k[other]
  BY NoneIsNeither
<1>. HIDE DEF t, l
<1>5. Once(t)
  BY <1>1, <1>2, <1>3 DEF Once
<1>6. Cardinality(Notable(t)) <= Limit
  <2>1. /\ Cardinality(Remembered(k)) \in Nat /\ Limit \in Nat
        /\ Cardinality(Notable(s)) <= Cardinality(Remembered(k))
        /\ IsFiniteSet(Notable(s)) /\ Cardinality(Notable(s)) \in Nat
    BY NoneIsNeither, NotesAreRemembered, NotesAreFinite, CaptureConstants
  <2>2. Cardinality(Notable(t)) = Cardinality(Notable(s)) + 1
    BY <1>1, <2>1, FS_AddElement
  <2>. QED  BY <2>1, <2>2
<1>7. \A i \in DOMAIN s : i \in DOMAIN t
  BY <1>1
<1>8. Backed(t, k)
  BY <1>1, <1>7 DEF Backed
<1>9. Backed(t, l)
  <2>1. Len(s) + 1 \in DOMAIN t
    BY <1>1
  <2>2. ASSUME NEW other \in Ids, l[other] # None
        PROVE  \E i \in DOMAIN t : t[i] = Note(other, l[other])
    BY <1>1, <1>4, <1>8, <2>1, <2>2 DEF Backed
  <2>. QED  BY <2>2 DEF Backed
<1>10. Covered(t, l)
  BY <1>1, <1>2, <1>3, <1>4 DEF Covered
<1>. QED  BY <1>5, <1>6, <1>8, <1>9, <1>10 DEF t, l

\* A terminal record changes nothing of that.
LEMMA NewEnd ==
    ASSUME NEW s \in Seq(Record), NEW verdict \in TERMINAL_STATES
    PROVE  /\ Once(s) => Once(Append(s, End(verdict)))
           /\ Notable(Append(s, End(verdict))) = Notable(s)
           /\ \A k : Backed(s, k) => Backed(Append(s, End(verdict)), k)
           /\ \A k : Covered(s, k) => Covered(Append(s, End(verdict)), k)
<1>. DEFINE t == Append(s, End(verdict))
<1>1. /\ DOMAIN t = 1..(Len(s) + 1) /\ \A i \in DOMAIN s : t[i] = s[i]
      /\ Notable(t) = Notable(s)
  BY EndAdded
<1>2. DOMAIN s \subseteq DOMAIN t /\ Notable(s) \subseteq DOMAIN s
  BY <1>1 DEF Notable
<1>. HIDE DEF t
<1>3. Once(s) => Once(t)
  BY <1>1, <1>2 DEF Once
<1>4. \A k : Backed(s, k) => Backed(t, k)
  BY <1>1, <1>2 DEF Backed
<1>5. \A k : Covered(s, k) => Covered(t, k)
  BY <1>1, <1>2 DEF Covered
<1>. QED  BY <1>1, <1>3, <1>4, <1>5 DEF t

\* A session that takes no more records takes none ever after, and a failure
\* that was lost is not forgotten.
LEMMA ClosedStays ==
    ASSUME StoreTypes, Sessions, [Next]_vars
    PROVE  /\ lapsed \subseteq lapsed'
           /\ \A r \in Runs : session[r] \in {"closed", "gone"} =>
                                 session'[r] \in {"closed", "gone"}
<1>. USE DEF stored, capture, Goto, Become, Quietly
<1>. DEFINE Goal == /\ lapsed \subseteq lapsed'
                    /\ \A r \in Runs : session[r] \in {"closed", "gone"} =>
                                          session'[r] \in {"closed", "gone"}
<1>1. ASSUME lapsed \subseteq lapsed', NEW u \in Runs,
             \/ session' = session
             \/ session' = [session EXCEPT ![u] = "closed"]
             \/ session' = [session EXCEPT ![u] = "gone"]
      PROVE  Goal
  BY <1>1 DEF StoreTypes
<1>2. ASSUME NEW u \in Runs, Install(u)
      PROVE  Goal
  BY <1>2 DEF Install, Sessions, StoreTypes
<1>3. ASSUME NEW u \in Runs,
             \/ Watch(u) \/ StopAsked(u) \/ StopTold(u) \/ LoopEnds(u) \/ SourceTold(u)
             \/ Complete(u) \/ Finish(u) \/ SourceEndsTold(u) \/ SourceFails(u)
             \/ RecordTerminal(u) \/ Evict(u)
      PROVE  Goal
  BY <1>1, <1>3 DEF Watch, StopAsked, StopTold, LoopEnds, SourceTold, Complete, Finish,
       SourceEndsTold, SourceFails, Silent, RecordTerminal, Evict
<1>4. ASSUME NEW u \in Runs, SampleRaises(u) \/ TerminalRaises(u)
      PROVE  Goal
  BY <1>1, <1>4, FailEffect DEF SampleRaises, TerminalRaises
<1>5. ASSUME NEW u \in Runs, TerminalFails(u)
      PROVE  Goal
  BY <1>5 DEF TerminalFails, StoreTypes
<1>6. ASSUME NEW q \in Requests, NEW a \in Annotations,
             Answer(q, a) \/ Annotate(q, a) \/ AnnotateRaises(q, a)
      PROVE  Goal
  BY <1>1, <1>6, FailEffect, AnnotationHas DEF Answer, Annotate, AnnotateRaises
<1>7. ASSUME NEW q \in Requests, Submit(q)
      PROVE  Goal
  BY <1>7 DEF Submit
<1>8. CASE Crash
  BY <1>8 DEF Crash
<1>9. CASE UNCHANGED vars
  BY <1>9 DEF vars
<1>. QED
  BY <1>2, <1>3, <1>4, <1>5, <1>6, <1>7, <1>8, <1>9 DEF Next, Run

\* What a run remembers and what was accepted change with an answer, and with
\* a crash; a note that is in the evidence and was not answered has closed the
\* session, or its failure was lost.
LEMMA MemoryStep ==
    ASSUME RunTypes, StoreTypes, Threads, Sessions, [Next]_vars, NEW r \in Runs
    PROVE  \/ /\ \/ known'[r] = known[r]
                 \/ /\ known'[r] = [i \in Ids |-> None]
                    /\ session'[r] \notin {"memory", "active"}
              /\ \A a \in accepted' : a.run = r => a \in accepted
              /\ evidence'[r] # evidence[r] /\ state[r] = "running" =>
                    session'[r] \in {"closed", "gone"} \/ r \in lapsed'
           \/ \E q \in Requests, a \in Annotations :
                 a.run = r /\ (Answer(q, a) \/ Annotate(q, a))
<1>. USE DEF stored, capture, Goto, Become, Quietly
<1>. DEFINE Unheeded ==
              /\ known'[r] = known[r]
              /\ \A a \in accepted' : a.run = r => a \in accepted
              /\ evidence'[r] # evidence[r] /\ state[r] = "running" =>
                    session'[r] \in {"closed", "gone"} \/ r \in lapsed'
<1>1. ASSUME NEW u \in Runs,
             \/ Install(u) \/ Watch(u) \/ StopAsked(u) \/ StopTold(u) \/ LoopEnds(u)
             \/ SampleRaises(u) \/ SourceTold(u) \/ Complete(u) \/ TerminalFails(u)
             \/ Finish(u) \/ SourceEndsTold(u) \/ SourceFails(u)
      PROVE  Unheeded
  BY <1>1 DEF Install, Watch, StopAsked, StopTold, LoopEnds, SampleRaises, SourceTold,
              Complete, TerminalFails, Finish, SourceEndsTold, SourceFails, Silent
<1>2. ASSUME NEW u \in Runs, RecordTerminal(u) \/ TerminalRaises(u)
      PROVE  Unheeded
  <2>1. /\ UNCHANGED <<known, accepted>> /\ pc[u] = "terminal"
        /\ evidence' = evidence \/ evidence' = Ended(u)
    BY <1>2 DEF RecordTerminal, TerminalRaises
  <2>2. state[u] # "running"
    BY <2>1, EndTyped DEF TERMINAL_STATES
  <2>. QED  BY <2>1, <2>2 DEF Ended, StoreTypes
<1>3. ASSUME NEW u \in Runs, Evict(u)
      PROVE  Unheeded
  BY <1>3 DEF Evict, StoreTypes
<1>4. ASSUME NEW q \in Requests, NEW a \in Annotations, AnnotateRaises(q, a)
      PROVE  Unheeded
  <2>1. UNCHANGED <<known, accepted>> /\ a.run \in Runs
    BY <1>4, AnnotationHas DEF AnnotateRaises
  <2>2. evidence' # evidence =>
           evidence' = Noted(a) /\ (FailStored(a.run) \/ FailLost(a.run))
    BY <1>4 DEF AnnotateRaises
  <2>3. FailStored(a.run) \/ FailLost(a.run) =>
           session'[a.run] = "closed" \/ a.run \in lapsed'
    BY <2>1 DEF FailStored, FailLost, StoreTypes
  <2>. QED  BY <2>1, <2>2, <2>3 DEF Noted, StoreTypes
<1>5. ASSUME NEW q \in Requests, NEW a \in Annotations, Answer(q, a) \/ Annotate(q, a),
             a.run # r
      PROVE  Unheeded
  <2>1. evidence'[r] = evidence[r]
    BY <1>5 DEF Answer, Annotate, Noted, StoreTypes
  <2>2. known'[r] = known[r]
    BY <1>5 DEF Answer, Annotate, Remembers, StoreTypes
  <2>3. accepted' \subseteq accepted \union {a}
    BY <1>5 DEF Answer, Annotate
  <2>. QED  BY <1>5, <2>1, <2>2, <2>3
<1>6. ASSUME NEW q \in Requests, Submit(q)
      PROVE  Unheeded
  BY <1>6 DEF Submit
<1>7. CASE Crash
  <2>1. known'[r] = [i \in Ids |-> None] /\ accepted' \subseteq accepted
    BY <1>7 DEF Crash
  <2>2. session'[r] \notin {"memory", "active"}
    BY <1>7 DEF Crash
  <2>3. state[r] = "running" => session'[r] \in {"closed", "gone"}
    BY <1>7 DEF Crash, Sessions, StoreTypes
  <2>. QED  BY <2>1, <2>2, <2>3
<1>8. CASE UNCHANGED vars
  BY <1>8 DEF vars
<1>. QED
  BY <1>1, <1>2, <1>3, <1>4, <1>5, <1>6, <1>7, <1>8 DEF Next, Run

-----------------------------------------------------------------------------
(* What a request is told, by the evidence.                                *)

\* The positions of an annotation, by what the sequences say of them.
LEMMA NotesAre ==
    ASSUME StoreTypes, NEW r \in Runs, NEW id \in Ids
    PROVE  /\ \A i \in Notes(r, id) : /\ i \in Notable(evidence[r])
                                      /\ i \in DOMAIN evidence[r]
                                      /\ evidence[r][i] = Note(id, evidence[r][i].text)
           /\ \A i \in Notable(evidence[r]) : evidence[r][i].id = id => i \in Notes(r, id)
           /\ \A i \in DOMAIN evidence[r] :
                 (\E text : evidence[r][i] = Note(id, text)) => i \in Notes(r, id)
<1>1. id # None
  BY NoneIsNeither
<1>2. \A i \in DOMAIN evidence[r] : evidence[r][i] \in Record
  BY DEF StoreTypes
<1>3. \A i \in DOMAIN evidence[r] :
         evidence[r][i].id = id => evidence[r][i] = Note(id, evidence[r][i].text)
  BY <1>2 DEF Record, Note
<1>4. \A text : Note(id, text).id = id
  BY DEF Note
<1>. QED  BY <1>1, <1>3, <1>4 DEF Notes, Notable, IsNote

\* The text of an annotation that is in the evidence once (find_annotation).
LEMMA TextIs ==
    ASSUME StoreTypes, NEW r \in Runs, NEW id \in Ids, Once(evidence[r]),
           NEW i \in Notes(r, id)
    PROVE  Text(r, id) = evidence[r][i].text /\ \A j \in Notes(r, id) : j = i
<1>1. \A j \in Notes(r, id) : j = i
  <2>1. ASSUME NEW j \in Notes(r, id)
        PROVE  j = i
    <3>1. i \in Notable(evidence[r]) /\ j \in Notable(evidence[r])
      BY NotesAre
    <3>2. evidence[r][i].id = id /\ evidence[r][j].id = id
      BY DEF Notes
    <3>. QED  BY <3>1, <3>2 DEF Once
  <2>. QED  BY <2>1
<1>2. i \in Nat
  BY NotesAre DEF StoreTypes
<1>3. (CHOOSE j \in Notes(r, id) : \A k \in Notes(r, id) : j <= k) = i
  <2>1. \A k \in Notes(r, id) : i <= k
    BY <1>1, <1>2
  <2>2. (CHOOSE j \in Notes(r, id) : \A k \in Notes(r, id) : j <= k) \in Notes(r, id)
    BY <2>1
  <2>. QED  BY <1>1, <2>2
<1>. QED  BY <1>1, <1>3 DEF Text

\* What a capture remembers of an annotation is what its evidence says.
LEMMA KnownIs ==
    ASSUME StoreTypes, NEW r \in Runs, NEW id \in Ids, Kept(r), known[r][id] # None
    PROVE  Notes(r, id) # {} /\ Text(r, id) = known[r][id]
<1>1. PICK i \in DOMAIN evidence[r] : evidence[r][i] = Note(id, known[r][id])
  BY DEF Kept, Backed
<1>2. i \in Notes(r, id)
  BY <1>1, NotesAre
<1>3. Text(r, id) = evidence[r][i].text
  BY <1>2, TextIs DEF Kept
<1>. QED  BY <1>1, <1>2, <1>3 DEF Note

\* A match of an annotation is a position in retained evidence.
LEMMA MatchIs ==
    ASSUME NEW id \in Ids, NEW m \in Matches(id)
    PROVE  m[1] \in Runs /\ Retained(m[1]) /\ m[2] \in Notes(m[1], id) /\ m = <<m[1], m[2]>>
<1>1. PICK u \in Runs : Retained(u) /\ m \in {u} \X Notes(u, id)
  BY DEF Matches
<1>. QED  BY <1>1

\* What a request is told of the evidence of its run, unless that is gone.
LEMMA ToldIs ==
    ASSUME StoreTypes, NEW q \in Requests, NEW a \in Annotations, Kept(a.run),
           request[q] # Idle
    PROVE  /\ Verdict(a, request[q]) = "existing" =>
                 Notes(a.run, a.id) # {} /\ Text(a.run, a.id) = a.text
           /\ Verdict(a, request[q]) = "conflict" =>
                 Notes(a.run, a.id) # {} /\ Text(a.run, a.id) # a.text
<1>1. a.run \in Runs /\ a.id \in Ids
  BY AnnotationHas
<1>2. \A text : /\ Same(text, a) = "existing" => text = a.text
                /\ Same(text, a) = "conflict" => text # a.text
  BY DEF Same
<1>3. CASE request[q] = None
  <2>1. Verdict(a, request[q]) = Resolved(a)
    BY <1>3 DEF Verdict
  <2>2. Resolved(a) \in {"existing", "conflict"} =>
           /\ Resolved(a) = Same(Text(a.run, a.id), a)
           /\ \E m \in Matches(a.id) : m[1] = a.run
    BY DEF Resolved
  <2>3. ASSUME NEW m \in Matches(a.id), m[1] = a.run
        PROVE  Notes(a.run, a.id) # {}
    BY <1>1, <2>3, MatchIs
  <2>. QED  BY <1>2, <2>1, <2>2, <2>3
<1>4. CASE request[q] # None
  <2>1. request[q] \in Runs /\ Verdict(a, request[q]) = Recorded(a, request[q])
    BY <1>4 DEF Verdict, StoreTypes
  <2>2. Recorded(a, request[q]) \in {"existing", "conflict"} =>
           /\ request[q] = a.run
           /\ \/ /\ known[a.run][a.id] # None
                 /\ Recorded(a, request[q]) = Same(known[a.run][a.id], a)
              \/ /\ Notes(a.run, a.id) # {}
                 /\ Recorded(a, request[q]) = Same(Text(a.run, a.id), a)
    BY DEF Recorded, Durable
  <2>3. known[a.run][a.id] # None =>
           Notes(a.run, a.id) # {} /\ Text(a.run, a.id) = known[a.run][a.id]
    BY <1>1, KnownIs
  <2>. QED  BY <1>2, <2>1, <2>2, <2>3
<1>. QED  BY <1>3, <1>4

\* An annotation is in the evidence with the text that is found first.
LEMMA NoteOf ==
    ASSUME StoreTypes, NEW r \in Runs, NEW id \in Ids, Once(evidence[r]), Notes(r, id) # {}
    PROVE  \E i \in DOMAIN evidence[r] : evidence[r][i] = Note(id, Text(r, id))
<1>1. PICK i \in Notes(r, id) : TRUE
  OBVIOUS
<1>. QED  BY <1>1, NotesAre, TextIs

-----------------------------------------------------------------------------
(* Every annotation is stored once.                                        *)

\* A run that nobody answers keeps its records: its evidence stays, or gets
\* its terminal record or a note that nobody has heard of.
LEMMA UnheededKept ==
    ASSUME RunTypes, StoreTypes, Threads, Sessions, Verdicts, [Next]_vars,
           NEW r \in Runs, Kept(r), session'[r] # "gone", r \notin lapsed',
           \/ known'[r] = known[r]
           \/ known'[r] = [i \in Ids |-> None] /\ session'[r] \notin {"memory", "active"},
           \A a \in accepted' : a.run = r => a \in accepted,
           evidence'[r] # evidence[r] /\ state[r] = "running" => session'[r] = "closed"
    PROVE  Kept(r)'
<1>. DEFINE s == evidence[r]
            t == evidence'[r]
            k == known[r]
<1>1. s \in Seq(Record) /\ k \in [Ids -> Texts \union {None}]
  BY DEF StoreTypes
<1>2. /\ Once(s) /\ Backed(s, k) /\ Cardinality(Notable(s)) <= Limit
      /\ session[r] \in {"none", "memory", "active"} => Covered(s, k)
      /\ \A a \in accepted : a.run = r => \E i \in DOMAIN s : s[i] = Note(a.id, a.text)
  BY DEF Kept
<1>3. session'[r] \in {"none", "memory", "active"} =>
         session[r] \in {"none", "memory", "active"}
  BY ClosedStays DEF StoreTypes
<1>4. /\ session'[r] = "none" => t = <<>>
      /\ session'[r] \in {"none", "closed", "memory", "active"}
  <2>1. Verdicts' /\ StoreTypes'
    BY VerdictsKept, StoreTypesKept
  <2>. QED  BY <2>1 DEF Verdicts, StoreTypes
<1>5. ASSUME Once(t), Backed(t, k), Cardinality(Notable(t)) <= Limit,
             session'[r] \in {"memory", "active"} => Covered(t, k),
             \A i \in DOMAIN s : i \in DOMAIN t /\ t[i] = s[i]
      PROVE  Kept(r)'
  <2>1. Backed(t, known'[r])
    BY <1>5 DEF Backed
  <2>2. session'[r] \in {"none", "memory", "active"} => Covered(t, known'[r])
    BY <1>4, <1>5 DEF Covered, Notable
  <2>3. \A a \in accepted' : a.run = r => \E i \in DOMAIN t : t[i] = Note(a.id, a.text)
    BY <1>2, <1>5
  <2>. QED  BY <1>5, <2>1, <2>2, <2>3 DEF Kept
<1>6. CASE t = s
  BY <1>2, <1>3, <1>5, <1>6
<1>7. CASE state[r] \in TERMINAL_STATES /\ t = Append(s, End(state[r]))
  <2>1. /\ Once(t) /\ Notable(t) = Notable(s) /\ Backed(t, k)
        /\ Covered(s, k) => Covered(t, k)
        /\ \A i \in DOMAIN s : i \in DOMAIN t /\ t[i] = s[i]
    BY <1>1, <1>2, <1>7, NewEnd, EndAdded
  <2>. QED  BY <1>2, <1>3, <1>5, <2>1
<1>8. ASSUME NEW a \in Annotations, NEW q \in Requests,
             a.run = r, request[q] # Idle, Verdict(a, request[q]) = "new",
             session[r] \in {"memory", "active"}, t = Append(s, Note(a.id, a.text))
      PROVE  Kept(r)'
  <2>1. /\ state[r] = "running" /\ k[a.id] = None /\ a.id \in Ids /\ a.text \in Texts
        /\ ~(Cardinality(Remembered(k)) >= Limit) /\ Covered(s, k)
    BY <1>2, <1>8, NewIs, AnnotationHas
  <2>2. /\ Once(t) /\ Cardinality(Notable(t)) <= Limit /\ Backed(t, k)
        /\ \A i \in DOMAIN s : i \in DOMAIN t /\ t[i] = s[i]
    <3>. HIDE DEF s, t, k
    <3>1. /\ Once(Append(s, Note(a.id, a.text))) /\ Backed(Append(s, Note(a.id, a.text)), k)
          /\ Cardinality(Notable(Append(s, Note(a.id, a.text)))) <= Limit
      BY <1>1, <1>2, <2>1, NewNote
    <3>2. \A i \in DOMAIN s : i \in DOMAIN t /\ t[i] = s[i]
      BY <1>1, <1>8, <2>1, NoteAdded, NoneIsNeither
    <3>. QED  BY <1>8, <3>1, <3>2
  <2>3. t # s
    BY <1>1, <1>8, <2>1, NoteAdded, NoneIsNeither
  <2>. QED  BY <1>5, <2>1, <2>2, <2>3
<1>. QED  BY <1>6, <1>7, <1>8, EvidenceStep

\* Whoever is answered with a record finds it in the evidence.
LEMMA AnswerKept ==
    ASSUME StoreTypes, NEW q \in Requests, NEW a \in Annotations, Answer(q, a),
           Kept(a.run), session[a.run] # "gone"
    PROVE  Kept(a.run)'
<1>1. a.run \in Runs /\ a.id \in Ids /\ a.text \in Texts /\ a.text # None
  BY AnnotationHas, NoneIsNeither
<1>2. /\ UNCHANGED <<evidence, session>> /\ request[q] # Idle
      /\ accepted' = accepted \/ (accepted' = accepted \union {a}
                                  /\ Verdict(a, request[q]) = "existing")
      /\ known' = known \/ (Remembers(a) /\ Verdict(a, request[q]) = "existing")
  BY DEF Answer, Answered, stored
<1>3. Verdict(a, request[q]) = "existing" =>
         \E i \in DOMAIN evidence[a.run] : evidence[a.run][i] = Note(a.id, a.text)
  <2>1. Once(evidence[a.run])
    BY DEF Kept
  <2>. QED  BY <1>1, <1>2, <2>1, ToldIs, NoteOf
<1>4. \A b \in accepted' : b.run = a.run =>
         \E i \in DOMAIN evidence[a.run] : evidence[a.run][i] = Note(b.id, b.text)
  BY <1>2, <1>3 DEF Kept
<1>5. \/ known'[a.run] = known[a.run]
      \/ /\ known'[a.run] = [known[a.run] EXCEPT ![a.id] = a.text]
         /\ Verdict(a, request[q]) = "existing"
  BY <1>1, <1>2 DEF Remembers, StoreTypes
<1>6. known[a.run] \in [Ids -> Texts \union {None}]
  BY <1>1 DEF StoreTypes
<1>7. Backed(evidence[a.run], known'[a.run])
  BY <1>1, <1>3, <1>5, <1>6 DEF Kept, Backed
<1>8. Covered(evidence[a.run], known[a.run]) => Covered(evidence[a.run], known'[a.run])
  <2>1. \A i \in Notable(evidence[a.run]) : evidence[a.run][i].id \in Ids
    <3>1. \A i \in DOMAIN evidence[a.run] : evidence[a.run][i] \in Record
      BY <1>1 DEF StoreTypes
    <3>. QED  BY <3>1 DEF Notable, Record, IsNote
  <2>. QED  BY <1>1, <1>5, <1>6, <2>1 DEF Covered
<1>. QED  BY <1>2, <1>4, <1>7, <1>8 DEF Kept

\* A new annotation is stored, remembered and accepted.
LEMMA AnnotateKept ==
    ASSUME StoreTypes, Sessions, NEW q \in Requests, NEW a \in Annotations, Annotate(q, a),
           Kept(a.run)
    PROVE  Kept(a.run)'
<1>. DEFINE s == evidence[a.run]
            t == evidence'[a.run]
            k == known[a.run]
            l == known'[a.run]
<1>1. a.run \in Runs /\ a.id \in Ids /\ a.text \in Texts
  BY AnnotationHas
<1>2. s \in Seq(Record) /\ k \in [Ids -> Texts \union {None}]
  BY <1>1 DEF StoreTypes
<1>3. /\ t = Append(s, Note(a.id, a.text)) /\ l = [k EXCEPT ![a.id] = a.text]
      /\ accepted' = accepted \union {a} /\ session' = session
  BY <1>1 DEF Annotate, Noted, Remembers, StoreTypes
<1>4. /\ state[a.run] = "running" /\ k[a.id] = None /\ ~Refused(a.run)
      /\ ~(Cardinality(Remembered(k)) >= Limit)
  BY NewIs DEF Annotate, Answered
<1>5. session[a.run] \in {"memory", "active"}
  BY <1>1, <1>4 DEF Refused, Sessions, StoreTypes
<1>6. Once(s) /\ Backed(s, k) /\ Covered(s, k)
  BY <1>5 DEF Kept
<1>7. Once(t) /\ Cardinality(Notable(t)) <= Limit /\ Backed(t, l) /\ Covered(t, l)
  <2>. HIDE DEF s, t, k, l
  <2>1. /\ Once(Append(s, Note(a.id, a.text)))
        /\ Cardinality(Notable(Append(s, Note(a.id, a.text)))) <= Limit
        /\ Backed(Append(s, Note(a.id, a.text)), [k EXCEPT ![a.id] = a.text])
        /\ Covered(Append(s, Note(a.id, a.text)), [k EXCEPT ![a.id] = a.text])
    BY <1>1, <1>2, <1>4, <1>6, NewNote
  <2>. QED  BY <1>3, <2>1
<1>8. \A i \in DOMAIN s : i \in DOMAIN t /\ t[i] = s[i]
  BY <1>1, <1>2, <1>3, NoteAdded, NoneIsNeither
<1>9. \E i \in DOMAIN t : t[i] = Note(a.id, a.text)
  BY <1>1, <1>2, <1>3, NoteAdded, NoneIsNeither
<1>10. \A b \in accepted' : b.run = a.run => \E i \in DOMAIN t : t[i] = Note(b.id, b.text)
  BY <1>3, <1>8, <1>9 DEF Kept
<1>. QED  BY <1>7, <1>10 DEF Kept

\* Every step keeps the records of every run.
LEMMA RecordsKept ==
    ASSUME RunTypes, StoreTypes, Threads, Sessions, Verdicts, Records, [Next]_vars
    PROVE  Records'
<1>. SUFFICES ASSUME NEW r \in Runs, r \notin lapsed', session'[r] # "gone"
              PROVE  Kept(r)'
  BY DEF Records
<1>1. r \notin lapsed /\ session[r] # "gone"
  BY ClosedStays, RunStep
<1>2. Kept(r)
  BY <1>1 DEF Records
<1>3. ASSUME NEW q \in Requests, NEW a \in Annotations, a.run = r,
             Answer(q, a) \/ Annotate(q, a)
      PROVE  Kept(r)'
  BY <1>1, <1>2, <1>3, AnswerKept, AnnotateKept
<1>4. CASE /\ \/ known'[r] = known[r]
              \/ /\ known'[r] = [i \in Ids |-> None]
                 /\ session'[r] \notin {"memory", "active"}
           /\ \A a \in accepted' : a.run = r => a \in accepted
           /\ evidence'[r] # evidence[r] /\ state[r] = "running" =>
                 session'[r] \in {"closed", "gone"} \/ r \in lapsed'
  BY <1>2, <1>4, UnheededKept
<1>. QED  BY <1>3, <1>4, MemoryStep

\* The terminal state of a run and its end change with TerminalFails only.
LEMMA ShownStep ==
    ASSUME RunTypes, Threads, [Next]_vars,
           NEW r \in Runs, state[r] \in TERMINAL_STATES, state'[r] # "gone"
    PROVE  /\ \/ state'[r] = state[r]
              \/ state'[r] = "failed" /\ failure'[r] /\ ~finished[r]
           /\ finished[r] => finished'[r]
<1>. USE DEF stored, capture, Goto, Become, Quietly
<1>. DEFINE Stays == /\ \/ state'[r] = state[r]
                        \/ state'[r] = "failed" /\ failure'[r] /\ ~finished[r]
                     /\ finished[r] => finished'[r]
<1>0. state[r] \notin {"none", "running", "stopping", "gone"}
  BY DEF TERMINAL_STATES
<1>1. ASSUME NEW u \in Runs, Install(u)
      PROVE  Stays
  <2>1. state'[r] = state[r]
    BY <1>0, <1>1 DEF Install, RunTypes
  <2>2. finished' = finished \/ (current \in Runs /\ FinishIfComplete(current, FALSE))
    BY <1>1 DEF Install, RunTypes
  <2>. QED  BY <2>1, <2>2 DEF FinishIfComplete, RunTypes
<1>2. ASSUME NEW u \in Runs, Watch(u) \/ Finish(u)
      PROVE  Stays
  BY <1>2 DEF Watch, Finish, FinishIfComplete, RunTypes
<1>3. ASSUME NEW u \in Runs, StopAsked(u) \/ Complete(u)
      PROVE  Stays
  <2>1. state[u] \in {"running", "stopping"} /\ finished' = finished
    BY <1>3 DEF StopAsked, Complete, Threads, Live
  <2>. QED  BY <1>0, <1>3, <2>1 DEF StopAsked, Complete, RunTypes
<1>4. ASSUME NEW u \in Runs, TerminalFails(u)
      PROVE  Stays
  <2>1. ~finished[u]
    BY <1>4 DEF TerminalFails, Threads
  <2>. QED  BY <1>4, <2>1 DEF TerminalFails, Flip, RunTypes
<1>5. ASSUME NEW u \in Runs,
             \/ StopTold(u) \/ LoopEnds(u) \/ SampleRaises(u) \/ SourceTold(u)
             \/ RecordTerminal(u) \/ TerminalRaises(u) \/ SourceEndsTold(u)
             \/ SourceFails(u) \/ Evict(u)
      PROVE  Stays
  BY <1>5 DEF StopTold, LoopEnds, SampleRaises, SourceTold, RecordTerminal, TerminalRaises,
              SourceEndsTold, SourceFails, Silent, Evict
<1>6. ASSUME NEW q \in Requests, NEW a \in Annotations,
             Answer(q, a) \/ Annotate(q, a) \/ AnnotateRaises(q, a)
      PROVE  Stays
  BY <1>6 DEF Answer, Annotate, AnnotateRaises, Answered
<1>7. ASSUME NEW q \in Requests, Submit(q)
      PROVE  Stays
  BY <1>7 DEF Submit
<1>8. CASE Crash
  BY <1>0, <1>8 DEF Crash
<1>9. CASE UNCHANGED vars
  BY <1>9 DEF vars
<1>. QED
  BY <1>1, <1>2, <1>3, <1>4, <1>5, <1>6, <1>7, <1>8, <1>9 DEF Next, Run

-----------------------------------------------------------------------------
(* The theorems.                                                           *)

\* No capture has started, and there is no evidence.
LEMMA InitHolds == Init => RunInv
<1>. SUFFICES ASSUME Init PROVE RunInv
  OBVIOUS
<1>1. TypeOK
  <2>1. evidence \in [Runs -> Seq(Record)]
    BY DEF Init
  <2>. QED  BY <2>1, CaptureConstants DEF Init, TypeOK, TERMINAL_STATES, Record
<1>2. Threads /\ Sessions
  BY DEF Init, Threads, Sessions, Live, TERMINAL_STATES
<1>3. Verdicts
  BY DEF Init, Verdicts, Live, Plain, Ordered
<1>4. ASSUME NEW r \in Runs
      PROVE  Kept(r)
  <2>1. evidence[r] = <<>> /\ known[r] = [i \in Ids |-> None] /\ accepted = {}
    BY DEF Init
  <2>2. Notable(<<>>) = {}
    BY DEF Notable
  <2>3. Cardinality(Notable(<<>>)) <= Limit
    BY <2>2, FS_EmptySet, CaptureConstants
  <2>4. Once(<<>>) /\ Covered(<<>>, known[r])
    BY <2>2 DEF Once, Covered
  <2>5. Backed(<<>>, known[r])
    BY <2>1 DEF Backed
  <2>. QED  BY <2>1, <2>3, <2>4, <2>5 DEF Kept
<1>. QED  BY <1>1, <1>2, <1>3, <1>4 DEF RunInv, Records

\* Every step keeps the invariant.
LEMMA NextStep == RunInv /\ [Next]_vars => RunInv'
<1>. SUFFICES ASSUME RunInv, [Next]_vars PROVE RunInv'
  OBVIOUS
<1>1. RunTypes /\ StoreTypes /\ Threads /\ Sessions /\ Verdicts /\ Records
  BY TypedIs DEF RunInv
<1>2. TypeOK'
  <2>1. RunTypes' /\ StoreTypes'
    BY <1>1, RunTypesKept, StoreTypesKept
  <2>. QED  BY <2>1 DEF TypeOK, RunTypes, StoreTypes, Record
<1>3. Threads' /\ Sessions' /\ Verdicts' /\ Records'
  BY <1>1, ThreadsKept, SessionsKept, VerdictsKept, RecordsKept
<1>. QED  BY <1>2, <1>3 DEF RunInv

\* The inductive invariant of a capture's life: where its thread is, what its
\* session has become, where its verdict is recorded, and that its memory of
\* annotations and its evidence say the same (capture.py).
THEOREM CaptureInvariant == Spec => []RunInv
<1>1. Init => RunInv
  BY InitHolds
<1>2. RunInv /\ [Next]_vars => RunInv'
  BY NextStep
<1>. QED  BY <1>1, <1>2, PTL DEF Spec

\* A finished capture has lost its thread and its source and has its verdict in
\* its evidence, and one capture at most samples the device
\* (_finish_if_complete, _start_capture).
THEOREM CaptureIsClean == Spec => []CaptureInv
<1>1. RunInv => CaptureInv
  <2>. SUFFICES ASSUME RunInv PROVE CaptureInv
    OBVIOUS
  <2>1. TypeOK /\ Threads /\ Verdicts /\ RunTypes
    BY TypedIs DEF RunInv
  <2>2. ASSUME NEW r \in Runs, finished[r]
        PROVE  /\ ~alive[r] /\ pc[r] = "dead" /\ state[r] \in TERMINAL_STATES
               /\ \/ state[r] = "failed" \/ session[r] = "gone"
                  \/ evidence[r] # <<>> /\ evidence[r][Len(evidence[r])] = End(state[r])
    <3>1. ~alive[r] /\ pc[r] = "dead"
      BY <2>1, <2>2 DEF Threads
    <3>2. state[r] \in TERMINAL_STATES
      BY <2>1, <3>1, EndTyped
    <3>. QED  BY <2>1, <3>1, <3>2 DEF Verdicts
  <2>3. OneSamples
    BY <2>1 DEF OneSamples, Threads
  <2>. QED  BY <2>1, <2>2, <2>3 DEF CaptureInv, FinishedIsClean
<1>. QED  BY <1>1, CaptureInvariant, PTL

\* Every annotation that was accepted is in the evidence of its run, once, in
\* front of the terminal record and within the limit, whatever was retried,
\* refused, lost or restarted (record_annotation).
THEOREM AcceptedIsStored == Spec => []AnnotationStoredOnce
<1>1. RunInv => AnnotationStoredOnce
  <2>. SUFFICES ASSUME RunInv, NEW r \in Runs \ lapsed, session[r] # "gone"
                PROVE  /\ \A a \in accepted : a.run = r =>
                             \E i \in Notes(r, a.id) : evidence[r][i] = Note(a.id, a.text)
                       /\ \A id \in Ids : \A i, j \in Notes(r, id) : i = j
                       /\ \A i, j \in DOMAIN evidence[r] :
                             i < j /\ IsNote(evidence[r][j]) => IsNote(evidence[r][i])
                       /\ Cardinality({i \in DOMAIN evidence[r] : IsNote(evidence[r][i])}) <= Limit
    BY DEF AnnotationStoredOnce
  <2>1. StoreTypes /\ Kept(r) /\ Ordered(evidence[r])
    BY TypedIs DEF RunInv, Records, Verdicts
  <2>2. ASSUME NEW a \in accepted, a.run = r
        PROVE  \E i \in Notes(r, a.id) : evidence[r][i] = Note(a.id, a.text)
    <3>1. a.id \in Ids
      BY <2>1, AnnotationHas DEF StoreTypes
    <3>2. PICK i \in DOMAIN evidence[r] : evidence[r][i] = Note(a.id, a.text)
      BY <2>1, <2>2 DEF Kept
    <3>. QED  BY <2>1, <3>1, <3>2, NotesAre
  <2>3. ASSUME NEW id \in Ids, NEW i \in Notes(r, id), NEW j \in Notes(r, id)
        PROVE  i = j
    BY <2>1, TextIs DEF Kept
  <2>. QED  BY <2>1, <2>2, <2>3 DEF Ordered, Kept, Notable
<1>. QED  BY <1>1, CaptureInvariant, PTL

\* What a request is told of an annotation is true of the evidence, also when
\* its capture was replaced, failed or was recovered in between
\* (add_capture_annotation, record_annotation).
THEOREM RefusalsAreTrue == Spec => []RefusalsHold
<1>1. RunInv => RefusalsHold
  <2>. SUFFICES ASSUME RunInv, NEW q \in Requests, NEW a \in Annotations,
                       request[q] # Idle, Names(q, a), a.run \notin lapsed
                PROVE  /\ Verdict(a, request[q]) \in {"not_running", "limit", "not_recorded"} =>
                             Notes(a.run, a.id) = {}
                       /\ Verdict(a, request[q]) = "conflict" /\ session[a.run] # "gone" =>
                             Notes(a.run, a.id) # {} /\ Text(a.run, a.id) # a.text
                       /\ Verdict(a, request[q]) = "ambiguous" =>
                             \E u \in Runs \ {a.run} : Notes(u, a.id) # {}
    BY Zenon DEF RefusalsHold
  <2>. DEFINE r == a.run
              verdict == Verdict(a, request[q])
  <2>0. r \in Runs /\ a.id \in Ids
    BY AnnotationHas
  <2>1. /\ StoreTypes /\ Sessions
        /\ session[r] # "gone" => Kept(r)
        /\ session[r] \in {"none", "gone"} => evidence[r] = <<>>
    BY <2>0, TypedIs DEF RunInv, Records, Verdicts
  <2>2. evidence[r] = <<>> => Notes(r, a.id) = {}
    BY DEF Notes
  <2>3. \A text : Same(text, a) \in {"existing", "conflict"}
    BY DEF Same
  <2>4. verdict \in {"not_running", "limit"} => Notes(r, a.id) = {}
    <3>. SUFFICES ASSUME verdict \in {"not_running", "limit"} PROVE Notes(r, a.id) = {}
      OBVIOUS
    <3>1. /\ verdict = Recorded(a, request[q]) /\ known[r][a.id] = None
          /\ Durable(r, a.id) = {}
      BY <2>1, <2>3 DEF Verdict, Resolved, Recorded, StoreTypes
    <3>2. CASE session[r] = "closed"
      BY <3>1, <3>2 DEF Durable
    <3>3. CASE session[r] \in {"none", "gone"}
      BY <2>1, <2>2, <3>3
    <3>4. CASE session[r] \in {"memory", "active"}
      <4>1. Covered(evidence[r], known[r])
        BY <2>1, <3>4 DEF Kept
      <4>2. \A i \in Notes(r, a.id) : i \in Notable(evidence[r]) /\ evidence[r][i].id = a.id
        BY <2>0, <2>1, NotesAre DEF Notes
      <4>. QED  BY <3>1, <4>1, <4>2 DEF Covered
    <3>. QED  BY <2>0, <2>1, <3>2, <3>3, <3>4 DEF StoreTypes
  <2>5. verdict = "not_recorded" => Notes(r, a.id) = {}
    <3>. SUFFICES ASSUME verdict = "not_recorded" PROVE Notes(r, a.id) = {}
      OBVIOUS
    <3>1. request[q] = None
      BY <2>3 DEF Verdict, Recorded
    <3>2. Matches(a.id) = {}
      BY <2>3, <3>1 DEF Verdict, Resolved
    <3>3. session[r] \in {"none", "closed", "gone"}
      BY <2>0, <2>1, <3>1 DEF Names, Sessions
    <3>4. CASE session[r] = "closed"
      <4>1. \A i \in Notes(r, a.id) : <<r, i>> \in Matches(a.id)
        BY <2>0, <3>4 DEF Matches, Retained
      <4>. QED  BY <3>2, <4>1
    <3>. QED  BY <2>1, <2>2, <3>3, <3>4
  <2>6. verdict = "conflict" /\ session[r] # "gone" =>
           Notes(r, a.id) # {} /\ Text(r, a.id) # a.text
    BY <2>1, ToldIs
  <2>7. verdict = "ambiguous" => \E u \in Runs \ {r} : Notes(u, a.id) # {}
    <3>. SUFFICES ASSUME verdict = "ambiguous" PROVE \E u \in Runs \ {r} : Notes(u, a.id) # {}
      OBVIOUS
    <3>1. Resolved(a) = "ambiguous"
      BY <2>3 DEF Verdict, Recorded
    <3>2. PICK m \in Matches(a.id), n \in Matches(a.id) : m # n
      BY <2>3, <3>1 DEF Resolved
    <3>3. /\ m[1] \in Runs /\ Retained(m[1]) /\ m[2] \in Notes(m[1], a.id) /\ m = <<m[1], m[2]>>
          /\ n[1] \in Runs /\ Retained(n[1]) /\ n[2] \in Notes(n[1], a.id) /\ n = <<n[1], n[2]>>
      BY <2>0, MatchIs
    <3>4. CASE m[1] = r /\ n[1] = r
      <4>1. Kept(r)
        BY <2>1, <3>3, <3>4 DEF Retained
      <4>2. m[2] = n[2]
        BY <2>0, <2>1, <3>3, <3>4, <4>1, TextIs DEF Kept
      <4>. QED  BY <3>2, <3>3, <3>4, <4>2
    <3>. QED  BY <3>3, <3>4
  <2>. QED  BY <2>4, <2>5, <2>6, <2>7
<1>. QED  BY <1>1, CaptureInvariant, PTL

\* A verdict that was shown changes only to failed, and a finished capture and
\* its evidence do not change any more, until the session is removed
\* (_complete, _finish_if_complete).
THEOREM VerdictsStand == Spec => VerdictStands
<1>. DEFINE Stands(r) ==
       state[r] \in TERMINAL_STATES /\ state'[r] # "gone" =>
          /\ \/ state'[r] = state[r]
             \/ state'[r] = "failed" /\ failure'[r] /\ ~finished[r]
          /\ finished[r] => finished'[r] /\ evidence'[r] \in {evidence[r], <<>>}
<1>1. ASSUME RunInv, [Next]_vars, NEW r \in Runs
      PROVE  Stands(r)
  <2>. SUFFICES ASSUME state[r] \in TERMINAL_STATES, state'[r] # "gone"
                PROVE  /\ \/ state'[r] = state[r]
                          \/ state'[r] = "failed" /\ failure'[r] /\ ~finished[r]
                       /\ finished[r] =>
                             finished'[r] /\ evidence'[r] \in {evidence[r], <<>>}
    OBVIOUS
  <2>1. RunTypes /\ StoreTypes /\ Threads /\ Sessions
    BY <1>1, TypedIs DEF RunInv
  <2>2. state[r] \notin {"none", "running", "stopping", "gone"}
    BY DEF TERMINAL_STATES
  <2>3. finished[r] => evidence'[r] \in {evidence[r], <<>>}
    <3>1. finished[r] => pc[r] # "terminal"
      BY <2>1 DEF Threads
    <3>2. ASSUME NEW a \in Annotations, NEW q \in Requests, a.run = r,
                 request[q] # Idle, Verdict(a, request[q]) = "new"
          PROVE  FALSE
      BY <2>1, <2>2, <3>2, NewIs
    <3>. QED  BY <1>1, <2>1, <3>1, <3>2, EvidenceStep
  <2>4. /\ \/ state'[r] = state[r]
           \/ state'[r] = "failed" /\ failure'[r] /\ ~finished[r]
        /\ finished[r] => finished'[r]
    BY <1>1, <2>1, ShownStep
  <2>. QED  BY <2>3, <2>4
<1>2. RunInv /\ [Next]_vars => [\A r \in Runs : Stands(r)]_vars
  BY <1>1
<1>. QED  BY <1>2, CaptureInvariant, PTL DEF Spec, VerdictStands
=============================================================================
