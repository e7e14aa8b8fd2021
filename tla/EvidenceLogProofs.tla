------------------------- MODULE EvidenceLogProofs -------------------------
(***************************************************************************)
(* Proofs about EvidenceLog, for every set of threads and every bound.     *)
(*                                                                         *)
(* The first part shows that LogInv is an inductive invariant: one lemma   *)
(* per action, then the theorems on the numbering and the durability of    *)
(* the evidence.  The second part adds StatusInv, what is known of the     *)
(* metadata, the counters and the live view: one lemma per conjunct, over  *)
(* the effects of the actions.  The third part maps every step to one of   *)
(* DurableLog.                                                             *)
(***************************************************************************)
EXTENDS EvidenceLogRefinement, FunctionTheorems, SequenceTheorems,
        FiniteSetTheorems, NaturalsInduction, WellFoundedInduction, TLAPS

\* _last_complete_record_end finds a position in every file: either 0 or just
\* after a newline, with no newline behind it.
LEMMA LastRecordEndExists ==
    ASSUME NEW f \in Seq(Unit)
    PROVE  /\ LastRecordEnd(f) \in 0..Len(f)
           /\ \A i \in (LastRecordEnd(f) + 1)..Len(f) : f[i].part = 1
           /\ LastRecordEnd(f) # 0 => f[LastRecordEnd(f)].part = 2
<1> DEFINE Less == OpToRel(<, Nat)
           Tails == {n \in 0..Len(f) : \A i \in (n + 1)..Len(f) : f[i].part = 1}
<1>0. \A m, n \in Nat : m < n => <<m, n>> \in Less
  BY DEF OpToRel
<1>1. Len(f) \in Tails
  OBVIOUS
<1>2. PICK n \in Tails : \A m \in Tails : ~(<<m, n>> \in Less)
  <2>1. Tails \subseteq Nat /\ Tails # {}
    BY <1>1
  <2>2. QED
    BY <2>1, NatLessThanWellFounded, WFMin
<1>3. n \in 0..Len(f) /\ \A m \in Tails : ~(m < n)
  <2>1. Tails \subseteq Nat /\ n \in 0..Len(f)
    OBVIOUS
  <2> HIDE DEF Less, Tails
  <2>2. QED
    BY <1>0, <1>2, <2>1
<1>4. n # 0 => f[n].part = 2
  <2> SUFFICES ASSUME n # 0, f[n].part # 2 PROVE FALSE
    OBVIOUS
  <2>1. f[n] \in Unit
    BY <1>3
  <2>2. f[n].part = 1
    BY <2>1 DEF Unit
  <2>3. n - 1 \in Tails
    BY <2>2, <1>3
  <2> HIDE DEF Tails
  <2>4. QED
    BY <2>3, <1>3
<1>5. QED
  BY <1>4, <1>3 DEF LastRecordEnd

\* finish() turns metadata into metadata of a session that is not active.
LEMMA FinishedMeta ==
    ASSUME NEW m \in Meta, NEW t \in Threads, ThreadType,
           op[t] = "finish" => kind[t] \in TERMINAL_RECORDS
    PROVE  Finished(m, t) \in Meta /\ Finished(m, t).status # "active"
BY DEF Finished, Meta, Statuses, TERMINAL_RECORDS

\* Counting an appended record keeps metadata metadata, and its status.
LEMMA CountedMeta ==
    ASSUME NEW m \in Meta
    PROVE  /\ [m EXCEPT !.records = @ + 1, !.bytes = @ + RecordBytes] \in Meta
           /\ [m EXCEPT !.records = @ + 1, !.bytes = @ + RecordBytes].status
                 = m.status
<1>1. \A a, b \in Nat : /\ [m EXCEPT !.records = a, !.bytes = b] \in Meta
                        /\ [m EXCEPT !.records = a, !.bytes = b].status = m.status
  BY DEF Meta
<1>2. m.records + 1 \in Nat /\ m.bytes + RecordBytes \in Nat
  BY DEF Meta, RecordBytes
<1>3. QED
  BY <1>1, <1>2

\* The count of complete records that _scan_evidence returns is a number.
LEMMA ScanRecordsType ==
    ASSUME NEW f \in Seq(Unit)
    PROVE  ScanRecords(f) \in Nat
<1> DEFINE Ends == {i \in 1..Len(f) : f[i].part = 2}
<1>1. IsFiniteSet(1..Len(f)) /\ Ends \in SUBSET (1..Len(f))
  BY FS_Interval
<1>2. IsFiniteSet(Ends)
  <2> HIDE DEF Ends
  <2> QED BY <1>1, FS_Subset
<1>3. QED
  BY <1>2, FS_CardinalityType DEF ScanRecords

\* Startup turns metadata into metadata of a session that is not active.
LEMMA ReconciledMeta ==
    ASSUME NEW m \in Meta, NEW rescan \in BOOLEAN, DiskType
    PROVE  Reconciled(m, rescan) \in Meta /\ Reconciled(m, rescan).status # "active"
<1>1. ScanRecords(file) \in Nat /\ Len(file) \in Nat
  BY ScanRecordsType DEF DiskType
<1>2. QED
  BY <1>1 DEF Reconciled, Meta, Statuses, TERMINAL_RECORDS

\* The invariant is kept by create_recorder registering the session.
LEMMA CreateStep ==
    ASSUME LogInv, Create
    PROVE  LogInv'
<1> USE LogConstants DEF Create, Goto, disk, store, recorder, history, bounds,
   Procs, NewMeta
<1>0. TypeOK /\ Control /\ Locking /\ Working /\ (~lapsed => Numbered /\ Extent)
  BY DEF LogInv
<1>1. TypeOK'
  <2> USE <1>0 DEF TypeOK, DiskType, StoreType, RecorderType, ThreadType,
     HistoryType
  <2>1. DiskType'
    BY DEF Control, Locking, Working, StoreLabels, BootLabels, MetaLabels,
       Unit, Kinds, TERMINAL_RECORDS
  <2>2. StoreType'
    BY DEF Control, Locking, Working, StoreLabels, BootLabels, MetaLabels,
       Meta, Statuses, Kinds, TERMINAL_RECORDS, Active
  <2>3. RecorderType'
    BY DEF Control
  <2>4. ThreadType'
    BY DEF Control, Labels, Ops, Kinds
  <2>5. HistoryType'
    OBVIOUS
  <2>6. QED
    BY <2>1, <2>2, <2>3, <2>4, <2>5
<1>2. Control'
  BY <1>0 DEF TypeOK, DiskType, StoreType, RecorderType, ThreadType,
     HistoryType, Control, Locking, StoreLabels, BootLabels, MetaLabels
<1>3. Locking'
  BY <1>0 DEF TypeOK, DiskType, StoreType, RecorderType, ThreadType,
     HistoryType, Control, Locking, StoreLabels, BootLabels, MetaLabels
<1>4. Working'
  BY <1>0 DEF TypeOK, DiskType, StoreType, RecorderType, ThreadType,
     HistoryType, Control, Locking, Working, StoreLabels, BootLabels,
     MetaLabels, Meta, Statuses, Kinds, TERMINAL_RECORDS, Active
<1>5. ~lapsed' => Numbered'
  BY <1>0 DEF Numbered
<1>6. ~lapsed' => Extent'
  BY <1>0 DEF TypeOK, DiskType, StoreType, RecorderType, ThreadType,
     HistoryType, Control, Locking, Working, Extent, Acked, StoreLabels,
     BootLabels, MetaLabels, Active
<1>7. QED
  BY <1>1, <1>2, <1>3, <1>4, <1>5, <1>6 DEF LogInv

\* The invariant is kept by a failed create_recorder.
LEMMA CreateFailsStep ==
    ASSUME LogInv, CreateFails
    PROVE  LogInv'
<1> USE LogConstants DEF CreateFails, Goto, disk, store, recorder, history,
   bounds, Procs, Fault
<1>0. TypeOK /\ Control /\ Locking /\ Working /\ (~lapsed => Numbered /\ Extent)
  BY DEF LogInv
<1>1. TypeOK'
  <2> USE <1>0 DEF TypeOK, DiskType, StoreType, RecorderType, ThreadType,
     HistoryType
  <2>1. DiskType'
    BY DEF Control, Locking, Working, StoreLabels, BootLabels, MetaLabels,
       Unit, Kinds, TERMINAL_RECORDS
  <2>2. StoreType'
    BY DEF Control, Locking, Working, StoreLabels, BootLabels, MetaLabels,
       Meta, Statuses, Kinds, TERMINAL_RECORDS, Active
  <2>3. RecorderType'
    BY DEF Control
  <2>4. ThreadType'
    BY DEF Control, Labels, Ops, Kinds
  <2>5. HistoryType'
    OBVIOUS
  <2>6. QED
    BY <2>1, <2>2, <2>3, <2>4, <2>5
<1>2. Control'
  BY <1>0 DEF TypeOK, DiskType, StoreType, RecorderType, ThreadType,
     HistoryType, Control, Locking, StoreLabels, BootLabels, MetaLabels
<1>3. Locking'
  BY <1>0 DEF TypeOK, DiskType, StoreType, RecorderType, ThreadType,
     HistoryType, Control, Locking, StoreLabels, BootLabels, MetaLabels
<1>4. Working'
  BY <1>0 DEF TypeOK, DiskType, StoreType, RecorderType, ThreadType,
     HistoryType, Control, Locking, Working, StoreLabels, BootLabels,
     MetaLabels, Meta, Statuses, Kinds, TERMINAL_RECORDS, Active
<1>5. ~lapsed' => Numbered'
  BY <1>0 DEF Numbered
<1>6. ~lapsed' => Extent'
  BY <1>0 DEF TypeOK, DiskType, StoreType, RecorderType, ThreadType,
     HistoryType, Control, Locking, Working, Extent, Acked, StoreLabels,
     BootLabels, MetaLabels, Active
<1>7. QED
  BY <1>1, <1>2, <1>3, <1>4, <1>5, <1>6 DEF LogInv

\* The invariant is kept by SessionRecorder.append taking its lock.
LEMMA Append1Step ==
    ASSUME LogInv, NEW t \in Threads, NEW k \in RecordKinds, Append1(t, k)
    PROVE  LogInv'
<1> USE LogConstants DEF Append1, Goto, disk, store, recorder, history,
   bounds, Procs
<1>0. TypeOK /\ Control /\ Locking /\ Working /\ (~lapsed => Numbered /\ Extent)
  BY DEF LogInv
<1>1. TypeOK'
  <2> USE <1>0 DEF TypeOK, DiskType, StoreType, RecorderType, ThreadType,
     HistoryType
  <2>1. DiskType'
    BY DEF Control, Locking, Working, StoreLabels, BootLabels, MetaLabels,
       Unit, Kinds, TERMINAL_RECORDS
  <2>2. StoreType'
    BY DEF Control, Locking, Working, StoreLabels, BootLabels, MetaLabels,
       Meta, Statuses, Kinds, TERMINAL_RECORDS, Active
  <2>3. RecorderType'
    BY DEF Control
  <2>4. ThreadType'
    BY DEF Control, Labels, Ops, Kinds
  <2>5. HistoryType'
    OBVIOUS
  <2>6. QED
    BY <2>1, <2>2, <2>3, <2>4, <2>5
<1>2. Control'
  BY <1>0 DEF TypeOK, DiskType, StoreType, RecorderType, ThreadType,
     HistoryType, Control, Locking, StoreLabels, BootLabels, MetaLabels
<1>3. Locking'
  BY <1>0 DEF TypeOK, DiskType, StoreType, RecorderType, ThreadType,
     HistoryType, Control, Locking, StoreLabels, BootLabels, MetaLabels
<1>4. Working'
  BY <1>0 DEF TypeOK, DiskType, StoreType, RecorderType, ThreadType,
     HistoryType, Control, Locking, Working, StoreLabels, BootLabels,
     MetaLabels, Meta, Statuses, Kinds, TERMINAL_RECORDS, Active
<1>5. ~lapsed' => Numbered'
  BY <1>0 DEF Numbered
<1>6. ~lapsed' => Extent'
  BY <1>0 DEF TypeOK, DiskType, StoreType, RecorderType, ThreadType,
     HistoryType, Control, Locking, Working, Extent, Acked, StoreLabels,
     BootLabels, MetaLabels, Active
<1>7. QED
  BY <1>1, <1>2, <1>3, <1>4, <1>5, <1>6 DEF LogInv

\* The invariant is kept by store.append taking the store lock.
LEMMA EnterAppendStep ==
    ASSUME LogInv, NEW t \in Threads, EnterAppend(t)
    PROVE  LogInv'
<1> USE LogConstants DEF EnterAppend, Goto, disk, store, recorder, history,
   bounds, Procs, RaiseOSError
<1>0. TypeOK /\ Control /\ Locking /\ Working /\ (~lapsed => Numbered /\ Extent)
  BY DEF LogInv
<1>1. TypeOK'
  <2> USE <1>0 DEF TypeOK, DiskType, StoreType, RecorderType, ThreadType,
     HistoryType
  <2>1. DiskType'
    BY DEF Control, Locking, Working, StoreLabels, BootLabels, MetaLabels,
       Unit, Kinds, TERMINAL_RECORDS
  <2>2. StoreType'
    BY DEF Control, Locking, Working, StoreLabels, BootLabels, MetaLabels,
       Meta, Statuses, Kinds, TERMINAL_RECORDS, Active
  <2>3. RecorderType'
    BY DEF Control
  <2>4. ThreadType'
    BY DEF Control, Labels, Ops, Kinds
  <2>5. HistoryType'
    OBVIOUS
  <2>6. QED
    BY <2>1, <2>2, <2>3, <2>4, <2>5
<1>2. Control'
  BY <1>0 DEF TypeOK, DiskType, StoreType, RecorderType, ThreadType,
     HistoryType, Control, Locking, StoreLabels, BootLabels, MetaLabels
<1>3. Locking'
  BY <1>0 DEF TypeOK, DiskType, StoreType, RecorderType, ThreadType,
     HistoryType, Control, Locking, StoreLabels, BootLabels, MetaLabels
<1>4. Working'
  BY <1>0, SMTT(30) DEF TypeOK, DiskType, StoreType, RecorderType, ThreadType,
     HistoryType, Control, Locking, Working, StoreLabels, BootLabels,
     MetaLabels, Meta, Statuses, Kinds, TERMINAL_RECORDS, Active
<1>5. ~lapsed' => Numbered'
  BY <1>0 DEF Numbered
<1>6. ~lapsed' => Extent'
  BY <1>0, SMTT(30) DEF TypeOK, DiskType, StoreType, RecorderType, ThreadType,
     HistoryType, Control, Locking, Working, Extent, Acked, StoreLabels,
     BootLabels, MetaLabels, Active
<1>7. QED
  BY <1>1, <1>2, <1>3, <1>4, <1>5, <1>6 DEF LogInv

\* The invariant is kept by the write of a record.
LEMMA WriteEvidenceStep ==
    ASSUME LogInv, NEW t \in Threads, WriteEvidence(t)
    PROVE  LogInv'
<1> USE LogConstants DEF WriteEvidence, Goto, disk, store, recorder, history,
   bounds, Procs, Body, End
<1>0. TypeOK /\ Control /\ Locking /\ Working /\ (~lapsed => Numbered /\ Extent)
  BY DEF LogInv
<1>1. TypeOK'
  <2> USE <1>0 DEF TypeOK, DiskType, StoreType, RecorderType, ThreadType,
     HistoryType
  <2>1. DiskType'
    BY DEF Control, Locking, Working, StoreLabels, BootLabels, MetaLabels,
       Unit, Kinds, TERMINAL_RECORDS
  <2>2. StoreType'
    BY DEF Control, Locking, Working, StoreLabels, BootLabels, MetaLabels,
       Meta, Statuses, Kinds, TERMINAL_RECORDS, Active
  <2>3. RecorderType'
    BY DEF Control
  <2>4. ThreadType'
    BY DEF Control, Labels, Ops, Kinds
  <2>5. HistoryType'
    OBVIOUS
  <2>6. QED
    BY <2>1, <2>2, <2>3, <2>4, <2>5
<1>2. Control'
  BY <1>0 DEF TypeOK, DiskType, StoreType, RecorderType, ThreadType,
     HistoryType, Control, Locking, StoreLabels, BootLabels, MetaLabels
<1>3. Locking'
  BY <1>0 DEF TypeOK, DiskType, StoreType, RecorderType, ThreadType,
     HistoryType, Control, Locking, StoreLabels, BootLabels, MetaLabels
<1>4. Working'
  <2>1. UNCHANGED <<dir, mem, meta, tmp, op, next>>
    OBVIOUS
  <2>2. QED
    BY <1>0, <2>1 DEF TypeOK, DiskType, StoreType, RecorderType, ThreadType,
       HistoryType, Control, Locking, StoreLabels, BootLabels, MetaLabels,
       Working, Active
<1>5. ~lapsed' => Numbered'
  <2>1. Len(file) = Acked \/ lapsed
    BY <1>0 DEF TypeOK, DiskType, StoreType, RecorderType, ThreadType,
       HistoryType, Control, Locking, StoreLabels, BootLabels, MetaLabels,
       Working, Active, Extent, Acked
  <2>2. /\ Len(file') = Len(file) + 2
        /\ \A i \in 1..Len(file) : file'[i] = file[i]
        /\ file'[Len(file) + 1] = Body(next, kind[t])
        /\ file'[Len(file) + 2] = End(next, kind[t])
    BY <1>0 DEF TypeOK, DiskType
  <2>3. QED
    BY <1>0, <2>1, <2>2 DEF Numbered, Acked, TypeOK, DiskType, RecorderType
<1>6. ~lapsed' => Extent'
  BY <1>0, SMTT(30) DEF TypeOK, DiskType, StoreType, RecorderType, ThreadType,
     HistoryType, Control, Locking, Working, Extent, Acked, StoreLabels,
     BootLabels, MetaLabels, Active
<1>7. QED
  BY <1>1, <1>2, <1>3, <1>4, <1>5, <1>6 DEF LogInv

\* The invariant is kept by a failed or short write.
LEMMA WriteFailsStep ==
    ASSUME LogInv, NEW t \in Threads, WriteFails(t)
    PROVE  LogInv'
<1> USE LogConstants DEF WriteFails, Goto, disk, store, recorder, history,
   bounds, Procs, RaiseOSError, Fault, Body
<1>0. TypeOK /\ Control /\ Locking /\ Working /\ (~lapsed => Numbered /\ Extent)
  BY DEF LogInv
<1>s. /\ op[t] = "append" /\ pc[t] \in {"write", "sync"}
      /\ op' = [op EXCEPT ![t] = "fail"] /\ pc' = [pc EXCEPT ![t] = "finish"]
      /\ storeLock = t /\ storeLock' = None
      /\ UNCHANGED <<dir, synced, meta, metaSync, tmp, partial, mem, pending>>
      /\ UNCHANGED <<evBytes, draft, recorder, kind, history, crashes>>
      /\ faults' = faults + 1
      /\ pc[t] = "write"
      /\ file' \in {file, Append(file, Body(next, kind[t]))}
  BY <1>0 DEF Control, Locking, StoreLabels
<1> HIDE DEF WriteFails, RaiseOSError, Fault
<1> USE <1>s
<1>1. TypeOK'
  <2> USE <1>0 DEF TypeOK, DiskType, StoreType, RecorderType, ThreadType,
     HistoryType
  <2>1. DiskType'
    <3>1. Body(next, kind[t]) \in Unit
      BY DEF Unit
    <3>2. Append(file, Body(next, kind[t])) \in Seq(Unit)
      BY <3>1
    <3> HIDE DEF Body
    <3>3. file' \in Seq(Unit)
      BY <3>2
    <3>4. QED
      BY <3>3
  <2>2. StoreType'
    BY DEF Control, Locking, Working, StoreLabels, BootLabels, MetaLabels,
       Meta, Statuses, Kinds, TERMINAL_RECORDS, Active
  <2>3. RecorderType'
    BY DEF Control
  <2>4. ThreadType'
    BY DEF Control, Labels, Ops, Kinds
  <2>5. HistoryType'
    OBVIOUS
  <2>6. QED
    BY <2>1, <2>2, <2>3, <2>4, <2>5
<1>2. Control'
  BY <1>0 DEF TypeOK, DiskType, StoreType, RecorderType, ThreadType,
     HistoryType, Control, Locking, StoreLabels, BootLabels, MetaLabels
<1>3. Locking'
  BY <1>0 DEF TypeOK, DiskType, StoreType, RecorderType, ThreadType,
     HistoryType, Control, Locking, StoreLabels, BootLabels, MetaLabels
<1>4. Working'
  BY <1>0 DEF TypeOK, DiskType, StoreType, RecorderType, ThreadType,
     HistoryType, Control, Locking, Working, StoreLabels, BootLabels,
     MetaLabels, Meta, Statuses, Kinds, TERMINAL_RECORDS, Active
<1>5. ~lapsed' => Numbered'
  <2>1. Len(file) = Acked \/ lapsed
    BY <1>0 DEF TypeOK, DiskType, StoreType, RecorderType, ThreadType,
       HistoryType, Control, Locking, StoreLabels, BootLabels, MetaLabels,
       Working, Active, Extent, Acked
  <2>2. CASE file' = file
    BY <1>0, <2>2 DEF Numbered
  <2>3. CASE file' = Append(file, Body(next, kind[t]))
    <3>1. /\ Len(file') = Len(file) + 1
          /\ \A i \in 1..Len(file) : file'[i] = file[i]
          /\ file'[Len(file) + 1] = Body(next, kind[t])
      BY <1>0, <2>3 DEF TypeOK, DiskType
    <3>2. lapsed \/ Len(file) + 1 = 2 * next - 2 + 1
      <4>1. next \in Nat
        BY <1>0 DEF TypeOK, RecorderType
      <4>2. CASE Len(file) = Acked
        BY <4>1, <4>2 DEF Acked
      <4>3. QED
        BY <2>1, <4>2
    <3>3. Body(next, kind[t]).seq = next /\ Body(next, kind[t]).part = 1
      BY DEF Body
    <3> HIDE DEF Body
    <3>4. lapsed' \/ ~lapsed
      BY <1>0 DEF TypeOK, HistoryType
    <3>5. ASSUME ~lapsed', NEW i \in 1..Len(file')
          PROVE  i = 2 * file'[i].seq - 2 + file'[i].part
      <4>1. CASE i \in 1..Len(file)
        BY <1>0, <3>1, <3>4, <3>5, <4>1 DEF Numbered
      <4>2. CASE i = Len(file) + 1
        BY <3>1, <3>2, <3>3, <3>4, <3>5, <4>2
      <4>3. QED
        BY <3>1, <3>5, <4>1, <4>2, <1>0 DEF TypeOK, DiskType
    <3>6. QED
      BY <3>5 DEF Numbered
  <2>4. QED
    BY <2>2, <2>3
<1>6. ~lapsed' => Extent'
  BY <1>0 DEF TypeOK, DiskType, StoreType, RecorderType, ThreadType,
     HistoryType, Control, Locking, Working, Extent, Acked, StoreLabels,
     BootLabels, MetaLabels, Active
<1>7. QED
  BY <1>1, <1>2, <1>3, <1>4, <1>5, <1>6 DEF LogInv

\* The invariant is kept by the flush of a record.
LEMMA SyncEvidenceStep ==
    ASSUME LogInv, NEW t \in Threads, SyncEvidence(t)
    PROVE  LogInv'
<1> USE LogConstants DEF SyncEvidence, Goto, disk, store, recorder, history,
   bounds, Procs, AppendReturns, RecordBytes
<1>0. TypeOK /\ Control /\ Locking /\ Working /\ (~lapsed => Numbered /\ Extent)
  BY DEF LogInv
<1>m. mem \in Meta /\ mem' \in Meta /\ mem'.status = "active" /\ mem' # NoMeta
  <2>1. mem \in Meta /\ mem.status = "active"
    BY <1>0 DEF TypeOK, StoreType, Working, Active, Procs
  <2>2. QED
    BY <2>1, CountedMeta
<1>s. /\ pc[t] = "sync" /\ synced' = Len(file) /\ evBytes' = Len(file)
      /\ UNCHANGED <<dir, file, meta, metaSync, tmp, partial>>
      /\ UNCHANGED <<recorder, kind, history, bounds>>
      /\ pending' \in {pending, pending + 1}
      /\ \/ /\ UNCHANGED <<storeLock, op>> /\ draft' = mem'
            /\ pc' = [pc EXCEPT ![t] = "temp"]
         \/ /\ storeLock' = None /\ draft' = draft /\ kind[t] \in TERMINAL_RECORDS
            /\ op' = [op EXCEPT ![t] = "finish"] /\ pc' = [pc EXCEPT ![t] = "finish"]
         \/ /\ storeLock' = None /\ draft' = draft /\ op' = op
            /\ pc' = [pc EXCEPT ![t] = "commit"]
  OBVIOUS
<1> HIDE DEF SyncEvidence, AppendReturns
<1> USE <1>m, <1>s
<1>1. TypeOK'
  <2> USE <1>0 DEF TypeOK, DiskType, StoreType, RecorderType, ThreadType,
     HistoryType
  <2>1. DiskType'
    BY DEF Control, Locking, Working, StoreLabels, BootLabels, MetaLabels,
       Unit, Kinds, TERMINAL_RECORDS
  <2>2. StoreType'
    BY DEF Control, Locking, Working, StoreLabels, BootLabels, MetaLabels,
       Meta, Statuses, Kinds, TERMINAL_RECORDS, Active
  <2>3. RecorderType'
    BY DEF Control
  <2>4. ThreadType'
    BY DEF Control, Labels, Ops, Kinds
  <2>5. HistoryType'
    OBVIOUS
  <2>6. QED
    BY <2>1, <2>2, <2>3, <2>4, <2>5
<1>2. Control'
  BY <1>0 DEF TypeOK, DiskType, StoreType, RecorderType, ThreadType,
     HistoryType, Control, Locking, StoreLabels, BootLabels, MetaLabels
<1>3. Locking'
  BY <1>0 DEF TypeOK, DiskType, StoreType, RecorderType, ThreadType,
     HistoryType, Control, Locking, StoreLabels, BootLabels, MetaLabels
<1>4. Working'
  BY <1>0 DEF TypeOK, DiskType, StoreType, RecorderType, ThreadType,
     HistoryType, Control, Locking, Working, StoreLabels, BootLabels,
     MetaLabels, Meta, Statuses, Kinds, TERMINAL_RECORDS, Active
<1>5. ~lapsed' => Numbered'
  BY <1>0 DEF Numbered
<1>6. ~lapsed' => Extent'
  BY <1>0 DEF TypeOK, DiskType, StoreType, RecorderType, ThreadType,
     HistoryType, Control, Locking, Working, Extent, Acked, StoreLabels,
     BootLabels, MetaLabels, Active
<1>7. QED
  BY <1>1, <1>2, <1>3, <1>4, <1>5, <1>6 DEF LogInv

\* The invariant is kept by a failed flush.
LEMMA SyncFailsStep ==
    ASSUME LogInv, NEW t \in Threads, SyncFails(t)
    PROVE  LogInv'
<1> USE LogConstants DEF SyncFails, Goto, disk, store, recorder, history,
   bounds, Procs, RaiseOSError, Fault
<1>0. TypeOK /\ Control /\ Locking /\ Working /\ (~lapsed => Numbered /\ Extent)
  BY DEF LogInv
<1>s. /\ op[t] = "append" /\ pc[t] \in {"write", "sync"}
      /\ op' = [op EXCEPT ![t] = "fail"] /\ pc' = [pc EXCEPT ![t] = "finish"]
      /\ storeLock = t /\ storeLock' = None
      /\ UNCHANGED <<dir, synced, meta, metaSync, tmp, partial, mem, pending>>
      /\ UNCHANGED <<evBytes, draft, recorder, kind, history, crashes>>
      /\ faults' = faults + 1
      /\ file' = file
  BY <1>0 DEF Control, Locking, StoreLabels
<1> HIDE DEF SyncFails, RaiseOSError, Fault
<1> USE <1>s
<1>1. TypeOK'
  <2> USE <1>0 DEF TypeOK, DiskType, StoreType, RecorderType, ThreadType,
     HistoryType
  <2>1. DiskType'
    BY DEF Control, Locking, Working, StoreLabels, BootLabels, MetaLabels,
       Unit, Kinds, TERMINAL_RECORDS
  <2>2. StoreType'
    BY DEF Control, Locking, Working, StoreLabels, BootLabels, MetaLabels,
       Meta, Statuses, Kinds, TERMINAL_RECORDS, Active
  <2>3. RecorderType'
    BY DEF Control
  <2>4. ThreadType'
    BY DEF Control, Labels, Ops, Kinds
  <2>5. HistoryType'
    OBVIOUS
  <2>6. QED
    BY <2>1, <2>2, <2>3, <2>4, <2>5
<1>2. Control'
  BY <1>0 DEF TypeOK, DiskType, StoreType, RecorderType, ThreadType,
     HistoryType, Control, Locking, StoreLabels, BootLabels, MetaLabels
<1>3. Locking'
  BY <1>0 DEF TypeOK, DiskType, StoreType, RecorderType, ThreadType,
     HistoryType, Control, Locking, StoreLabels, BootLabels, MetaLabels
<1>4. Working'
  BY <1>0 DEF TypeOK, DiskType, StoreType, RecorderType, ThreadType,
     HistoryType, Control, Locking, Working, StoreLabels, BootLabels,
     MetaLabels, Meta, Statuses, Kinds, TERMINAL_RECORDS, Active
<1>5. ~lapsed' => Numbered'
  BY <1>0 DEF Numbered
<1>6. ~lapsed' => Extent'
  BY <1>0 DEF TypeOK, DiskType, StoreType, RecorderType, ThreadType,
     HistoryType, Control, Locking, Working, Extent, Acked, StoreLabels,
     BootLabels, MetaLabels, Active
<1>7. QED
  BY <1>1, <1>2, <1>3, <1>4, <1>5, <1>6 DEF LogInv

\* The invariant is kept by making a record visible.
LEMMA CommitStep ==
    ASSUME LogInv, NEW t \in Threads, Commit(t)
    PROVE  LogInv'
<1> USE LogConstants DEF Commit, Goto, disk, store, recorder, history, bounds,
   Procs
<1>0. TypeOK /\ Control /\ Locking /\ Working /\ (~lapsed => Numbered /\ Extent)
  BY DEF LogInv
<1>1. TypeOK'
  <2> USE <1>0 DEF TypeOK, DiskType, StoreType, RecorderType, ThreadType,
     HistoryType
  <2>1. DiskType'
    BY DEF Control, Locking, Working, StoreLabels, BootLabels, MetaLabels,
       Unit, Kinds, TERMINAL_RECORDS
  <2>2. StoreType'
    BY DEF Control, Locking, Working, StoreLabels, BootLabels, MetaLabels,
       Meta, Statuses, Kinds, TERMINAL_RECORDS, Active
  <2>3. RecorderType'
    <3>1. Len(live) = LiveMax => Tail(live) \in Seq(Nat)
      BY EmptySeq, HeadTailProperties
    <3>2. live' \in Seq(Nat)
      <4>1. CASE Len(live) = LiveMax
        <5>1. live' = Append(Tail(live), next) /\ next \in Nat /\ Tail(live) \in Seq(Nat)
          BY <3>1, <4>1
        <5>2. QED
          BY <5>1
      <4>2. CASE Len(live) # LiveMax
        <5>1. live' = Append(live, next) /\ next \in Nat /\ live \in Seq(Nat)
          BY <4>2
        <5>2. QED
          BY <5>1
      <4>3. QED
        BY <4>1, <4>2
    <3>3. QED
      BY <3>2 DEF Control
  <2>4. ThreadType'
    BY DEF Control, Labels, Ops, Kinds
  <2>5. HistoryType'
    OBVIOUS
  <2>6. QED
    BY <2>1, <2>2, <2>3, <2>4, <2>5
<1>2. Control'
  BY <1>0 DEF TypeOK, DiskType, StoreType, RecorderType, ThreadType,
     HistoryType, Control, Locking, StoreLabels, BootLabels, MetaLabels
<1>3. Locking'
  BY <1>0 DEF TypeOK, DiskType, StoreType, RecorderType, ThreadType,
     HistoryType, Control, Locking, StoreLabels, BootLabels, MetaLabels
<1>4. Working'
  BY <1>0 DEF TypeOK, DiskType, StoreType, RecorderType, ThreadType,
     HistoryType, Control, Locking, Working, StoreLabels, BootLabels,
     MetaLabels, Meta, Statuses, Kinds, TERMINAL_RECORDS, Active
<1>5. ~lapsed' => Numbered'
  BY <1>0 DEF Numbered
<1>6. ~lapsed' => Extent'
  <2>1. /\ next' = next + 1 /\ recLock' = None /\ recLock = t
        /\ UNCHANGED <<dir, file, synced, mem, op, lapsed>>
        /\ pc' = [pc EXCEPT ![t] = "idle"]
    BY <1>0 DEF TypeOK, DiskType, StoreType, RecorderType, ThreadType,
       HistoryType, Control, Locking, StoreLabels, BootLabels, MetaLabels
  <2>2. \A u \in Threads : pc'[u] # "idle" => op'[u] = "report"
    BY <1>0, <2>1 DEF TypeOK, DiskType, StoreType, RecorderType, ThreadType,
       HistoryType, Control, Locking, StoreLabels, BootLabels, MetaLabels
  <2>3. \A u \in Threads : pc'[u] \notin {"begin", "write", "sync"}
    BY <1>0, <2>1, <2>2 DEF TypeOK, DiskType, StoreType, RecorderType,
       ThreadType, HistoryType, Control, Locking, StoreLabels, BootLabels,
       MetaLabels
  <2>4. ~lapsed /\ dir => synced = Acked + 2
    BY <1>0 DEF TypeOK, DiskType, StoreType, RecorderType, ThreadType,
       HistoryType, Control, Locking, StoreLabels, BootLabels, MetaLabels,
       Working, Active, Extent, Acked
  <2> HIDE DEF Commit
  <2> SUFFICES ASSUME ~lapsed PROVE Extent'
    BY <2>1
  <2>5. next \in Nat /\ Len(file) \in Nat /\ synced \in Nat
    BY <1>0 DEF TypeOK, DiskType, RecorderType
  <2>6. synced <= Len(file) /\ Len(file) <= Acked + 2 /\ (Active => dir)
    BY <1>0 DEF Extent, Working
  <2>7. Acked' = Acked + 2 /\ Acked \in Nat /\ Active' = Active
    BY <2>1, <2>5, <1>0 DEF Acked, Active, TypeOK, RecorderType
  <2>8. ~dir \/ (synced = Acked' /\ Len(file) = Acked')
    BY <2>4, <2>5, <2>6, <2>7
  <2> HIDE DEF Acked, Active
  <2>9. Active' => Len(file') = Acked'
    BY <2>1, <2>6, <2>7, <2>8
  <2>10. /\ synced' <= Len(file')
         /\ Len(file') <= Acked' + 2
         /\ dir' => Acked' <= synced'
    BY <2>1, <2>5, <2>6, <2>7, <2>8
  <2>11. ASSUME NEW u \in Threads
         PROVE  /\ ~(Active' /\ pc'[u] \in {"begin", "write"})
                /\ pc'[u] # "sync"
                /\ ~(pc'[u] \in MetaLabels \union {"finish", "retain", "commit"}
                     /\ op'[u] \in {"append", "finish"})
    BY <2>2, <2>3 DEF MetaLabels
  <2>12. QED
    BY <2>9, <2>10, <2>11 DEF Extent
<1>7. QED
  BY <1>1, <1>2, <1>3, <1>4, <1>5, <1>6 DEF LogInv

\* The invariant is kept by a runner's call of recorder.fail().
LEMMA ReportStep ==
    ASSUME LogInv, NEW t \in Threads, Report(t)
    PROVE  LogInv'
<1> USE LogConstants DEF Report, Goto, disk, store, recorder, history, bounds,
   Procs
<1>0. TypeOK /\ Control /\ Locking /\ Working /\ (~lapsed => Numbered /\ Extent)
  BY DEF LogInv
<1>1. TypeOK'
  <2> USE <1>0 DEF TypeOK, DiskType, StoreType, RecorderType, ThreadType,
     HistoryType
  <2>1. DiskType'
    BY DEF Control, Locking, Working, StoreLabels, BootLabels, MetaLabels,
       Unit, Kinds, TERMINAL_RECORDS
  <2>2. StoreType'
    BY DEF Control, Locking, Working, StoreLabels, BootLabels, MetaLabels,
       Meta, Statuses, Kinds, TERMINAL_RECORDS, Active
  <2>3. RecorderType'
    BY DEF Control
  <2>4. ThreadType'
    BY DEF Control, Labels, Ops, Kinds
  <2>5. HistoryType'
    OBVIOUS
  <2>6. QED
    BY <2>1, <2>2, <2>3, <2>4, <2>5
<1>2. Control'
  BY <1>0 DEF TypeOK, DiskType, StoreType, RecorderType, ThreadType,
     HistoryType, Control, Locking, StoreLabels, BootLabels, MetaLabels
<1>3. Locking'
  BY <1>0 DEF TypeOK, DiskType, StoreType, RecorderType, ThreadType,
     HistoryType, Control, Locking, StoreLabels, BootLabels, MetaLabels
<1>4. Working'
  BY <1>0 DEF TypeOK, DiskType, StoreType, RecorderType, ThreadType,
     HistoryType, Control, Locking, Working, StoreLabels, BootLabels,
     MetaLabels, Meta, Statuses, Kinds, TERMINAL_RECORDS, Active
<1>5. ~lapsed' => Numbered'
  BY <1>0 DEF Numbered
<1>6. ~lapsed' => Extent'
  BY <1>0 DEF TypeOK, DiskType, StoreType, RecorderType, ThreadType,
     HistoryType, Control, Locking, Working, Extent, Acked, StoreLabels,
     BootLabels, MetaLabels, Active
<1>7. QED
  BY <1>1, <1>2, <1>3, <1>4, <1>5, <1>6 DEF LogInv

\* The invariant is kept by store.finish taking the store lock.
LEMMA FinishStep ==
    ASSUME LogInv, NEW t \in Threads, Finish(t)
    PROVE  LogInv'
<1> USE LogConstants DEF Finish, Goto, disk, store, recorder, history, bounds,
   Procs, Finished, RaiseOSError
<1>0. TypeOK /\ Control /\ Locking /\ Working /\ (~lapsed => Numbered /\ Extent)
  BY DEF LogInv
<1>m. mem # NoMeta => Finished(mem, t) \in Meta /\ Finished(mem, t).status # "active"
  <2>1. mem # NoMeta => mem \in Meta
    BY <1>0 DEF TypeOK, StoreType
  <2>2. op[t] = "finish" => kind[t] \in TERMINAL_RECORDS
    BY <1>0 DEF Control
  <2> HIDE DEF Finish, Finished
  <2>3. QED
    BY <1>0, <2>1, <2>2, FinishedMeta DEF TypeOK
<1>s. /\ pc[t] = "finish" /\ storeLock = None
      /\ UNCHANGED <<disk, mem, pending, evBytes, bounds>>
      /\ \/ mem = NoMeta /\ RaiseOSError(t) /\ UNCHANGED <<draft, storeLock>>
         \/ /\ mem # NoMeta /\ draft' = Finished(mem, t) /\ storeLock' = t
            /\ pc' = [pc EXCEPT ![t] = "temp"]
            /\ UNCHANGED <<recorder, op, kind, history>>
         \/ /\ mem # NoMeta /\ pc' = [pc EXCEPT ![t] = "retain"]
            /\ Finished(mem, t) = mem
            /\ UNCHANGED <<draft, storeLock, recorder, op, kind, history>>
  OBVIOUS
<1> HIDE DEF Finish, Finished
<1>u. pc[t] = "finish" /\ UNCHANGED <<disk, mem, pending, evBytes, bounds>>
  BY <1>s
<1>1. TypeOK'
  <2> USE <1>0 DEF TypeOK, DiskType, StoreType, RecorderType, ThreadType,
     HistoryType
  <2>1. DiskType'
    BY <1>u
  <2>2. StoreType'
    BY <1>s, <1>m
  <2>3. RecorderType'
    BY <1>s
  <2>4. ThreadType'
    BY <1>s DEF Labels, Ops
  <2>5. HistoryType'
    BY <1>s
  <2>6. QED
    BY <2>1, <2>2, <2>3, <2>4, <2>5
<1>2. Control'
  <2>1. CASE mem = NoMeta /\ RaiseOSError(t) /\ UNCHANGED <<draft, storeLock>>
    BY <1>0, <1>s, <2>1 DEF TypeOK, DiskType, StoreType, RecorderType,
       ThreadType, HistoryType, Control, Locking, StoreLabels, BootLabels,
       MetaLabels
  <2>2. CASE /\ mem # NoMeta /\ draft' = Finished(mem, t) /\ storeLock' = t
             /\ pc' = [pc EXCEPT ![t] = "temp"]
             /\ UNCHANGED <<recorder, op, kind, history>>
    BY <1>0, <1>u, <1>m, <2>2 DEF TypeOK, DiskType, StoreType, RecorderType,
       ThreadType, HistoryType, Control, Locking, StoreLabels, BootLabels,
       MetaLabels
  <2>3. CASE /\ mem # NoMeta /\ pc' = [pc EXCEPT ![t] = "retain"]
             /\ Finished(mem, t) = mem
             /\ UNCHANGED <<draft, storeLock, recorder, op, kind, history>>
    BY <1>0, <1>u, <1>m, <2>3 DEF TypeOK, DiskType, StoreType, RecorderType,
       ThreadType, HistoryType, Control, Locking, StoreLabels, BootLabels,
       MetaLabels
  <2>4. QED
    BY <2>1, <2>2, <2>3, <1>s
<1>3. Locking'
  <2>1. CASE mem = NoMeta /\ RaiseOSError(t) /\ UNCHANGED <<draft, storeLock>>
    BY <1>0, <1>s, <2>1 DEF TypeOK, DiskType, StoreType, RecorderType,
       ThreadType, HistoryType, Control, Locking, StoreLabels, BootLabels,
       MetaLabels
  <2>2. CASE /\ mem # NoMeta /\ draft' = Finished(mem, t) /\ storeLock' = t
             /\ pc' = [pc EXCEPT ![t] = "temp"]
             /\ UNCHANGED <<recorder, op, kind, history>>
    <3>1. \A q \in Procs : pc[q] \notin StoreLabels \union BootLabels
      BY <1>0, <1>s DEF Locking, TypeOK, StoreType
    <3>2. pc[Main] = "serving" /\ t # Main
      BY <1>0, <1>u DEF Control
    <3>3. pc'[t] = "temp" /\ \A q \in Procs : q # t => pc'[q] = pc[q]
      BY <1>0, <2>2 DEF TypeOK, ThreadType
    <3>4. QED
      BY <1>0, <1>u, <2>2, <3>1, <3>2, <3>3
         DEF Locking, StoreLabels, MetaLabels, BootLabels
  <2>3. CASE /\ mem # NoMeta /\ pc' = [pc EXCEPT ![t] = "retain"]
             /\ Finished(mem, t) = mem
             /\ UNCHANGED <<draft, storeLock, recorder, op, kind, history>>
    BY <1>0, <1>u, <1>m, <2>3 DEF TypeOK, DiskType, StoreType, RecorderType,
       ThreadType, HistoryType, Control, Locking, StoreLabels, BootLabels,
       MetaLabels
  <2>4. QED
    BY <2>1, <2>2, <2>3, <1>s
<1>4. Working'
  <2>1. CASE mem = NoMeta /\ RaiseOSError(t) /\ UNCHANGED <<draft, storeLock>>
    BY <1>0, <1>s, <2>1 DEF TypeOK, DiskType, StoreType, RecorderType,
       ThreadType, HistoryType, Control, Locking, StoreLabels, BootLabels,
       MetaLabels, Working, Active
  <2>2. CASE /\ mem # NoMeta /\ draft' = Finished(mem, t) /\ storeLock' = t
             /\ pc' = [pc EXCEPT ![t] = "temp"]
             /\ UNCHANGED <<recorder, op, kind, history>>
    <3>1. \A q \in Procs : pc[q] \notin StoreLabels \union BootLabels
      BY <1>0, <1>s DEF Locking, TypeOK, StoreType
    <3>2. pc[Main] = "serving" /\ t # Main
      BY <1>0, <1>u DEF Control
    <3>3. pc'[t] = "temp" /\ \A q \in Procs : q # t => pc'[q] = pc[q]
      BY <1>0, <2>2 DEF TypeOK, ThreadType
    <3>4. Active' = Active /\ draft' \in Meta /\ draft'.status # "active"
      BY <1>u, <1>m, <2>2 DEF Active
    <3>5. QED
      BY <1>0, <1>u, <2>2, <3>1, <3>2, <3>3, <3>4
         DEF Working, StoreLabels, MetaLabels, BootLabels
  <2>3. CASE /\ mem # NoMeta /\ pc' = [pc EXCEPT ![t] = "retain"]
             /\ Finished(mem, t) = mem
             /\ UNCHANGED <<draft, storeLock, recorder, op, kind, history>>
    <3>1. \A q \in Procs : pc[q] \notin StoreLabels \union BootLabels
      BY <1>0, <1>s DEF Locking, TypeOK, StoreType
    <3>2. pc[Main] = "serving" /\ t # Main
      BY <1>0, <1>u DEF Control
    <3>3. pc'[t] = "retain" /\ \A q \in Procs : q # t => pc'[q] = pc[q]
      BY <1>0, <2>3 DEF TypeOK, ThreadType
    <3>4. ~Active' /\ ~Active
      BY <1>u, <1>m, <2>3 DEF Active
    <3>5. QED
      BY <1>0, <1>u, <2>3, <3>1, <3>2, <3>3, <3>4
         DEF Working, StoreLabels, MetaLabels, BootLabels
  <2>4. QED
    BY <2>1, <2>2, <2>3, <1>s
<1>5. ~lapsed' => Numbered'
  BY <1>0, <1>s DEF Numbered
<1>6. ~lapsed' => Extent'
  <2>1. CASE mem = NoMeta /\ RaiseOSError(t) /\ UNCHANGED <<draft, storeLock>>
    BY <1>0, <1>s, <2>1 DEF TypeOK, DiskType, StoreType, RecorderType,
       ThreadType, HistoryType, Control, Locking, StoreLabels, BootLabels,
       MetaLabels, Working, Active, Extent, Acked
  <2>2. CASE /\ mem # NoMeta /\ draft' = Finished(mem, t) /\ storeLock' = t
             /\ pc' = [pc EXCEPT ![t] = "temp"]
             /\ UNCHANGED <<recorder, op, kind, history>>
    BY <1>0, <1>u, <1>m, <2>2 DEF TypeOK, DiskType, StoreType, RecorderType,
       ThreadType, HistoryType, Control, Locking, StoreLabels, BootLabels,
       MetaLabels, Working, Active, Extent, Acked
  <2>3. CASE /\ mem # NoMeta /\ pc' = [pc EXCEPT ![t] = "retain"]
             /\ Finished(mem, t) = mem
             /\ UNCHANGED <<draft, storeLock, recorder, op, kind, history>>
    <3>1. /\ Acked' = Acked /\ Active' = Active
          /\ UNCHANGED <<dir, file, synced, op, recLock>>
      BY <1>u, <2>3 DEF Acked, Active
    <3>2. \A q \in Procs : pc'[q] = pc[q] \/ (q = t /\ pc[q] = "finish" /\ pc'[q] = "retain")
      BY <1>0, <1>u, <2>3 DEF TypeOK, ThreadType
    <3>3. lapsed' = lapsed /\ t # Main
      BY <2>3
    <3>4. QED
      BY <1>0, <3>1, <3>2, <3>3 DEF Extent, MetaLabels
  <2>4. QED
    BY <2>1, <2>2, <2>3, <1>s
<1>7. QED
  BY <1>1, <1>2, <1>3, <1>4, <1>5, <1>6 DEF LogInv

\* The invariant is kept by writing the temporary metadata file.
LEMMA MetaTempStep ==
    ASSUME LogInv, NEW p \in Procs, MetaTemp(p)
    PROVE  LogInv'
<1> USE LogConstants DEF MetaTemp, Goto, disk, store, recorder, history,
   bounds, Procs
<1>0. TypeOK /\ Control /\ Locking /\ Working /\ (~lapsed => Numbered /\ Extent)
  BY DEF LogInv
<1>1. TypeOK'
  <2> USE <1>0 DEF TypeOK, DiskType, StoreType, RecorderType, ThreadType,
     HistoryType
  <2>1. DiskType'
    BY DEF Control, Locking, Working, StoreLabels, BootLabels, MetaLabels,
       Unit, Kinds, TERMINAL_RECORDS
  <2>2. StoreType'
    BY DEF Control, Locking, Working, StoreLabels, BootLabels, MetaLabels,
       Meta, Statuses, Kinds, TERMINAL_RECORDS, Active
  <2>3. RecorderType'
    BY DEF Control
  <2>4. ThreadType'
    BY DEF Control, Labels, Ops, Kinds
  <2>5. HistoryType'
    OBVIOUS
  <2>6. QED
    BY <2>1, <2>2, <2>3, <2>4, <2>5
<1>2. Control'
  BY <1>0 DEF TypeOK, DiskType, StoreType, RecorderType, ThreadType,
     HistoryType, Control, Locking, StoreLabels, BootLabels, MetaLabels
<1>3. Locking'
  BY <1>0 DEF TypeOK, DiskType, StoreType, RecorderType, ThreadType,
     HistoryType, Control, Locking, StoreLabels, BootLabels, MetaLabels
<1>4. Working'
  BY <1>0 DEF TypeOK, DiskType, StoreType, RecorderType, ThreadType,
     HistoryType, Control, Locking, Working, StoreLabels, BootLabels,
     MetaLabels, Meta, Statuses, Kinds, TERMINAL_RECORDS, Active
<1>5. ~lapsed' => Numbered'
  BY <1>0 DEF Numbered
<1>6. ~lapsed' => Extent'
  BY <1>0 DEF TypeOK, DiskType, StoreType, RecorderType, ThreadType,
     HistoryType, Control, Locking, Working, Extent, Acked, StoreLabels,
     BootLabels, MetaLabels, Active
<1>7. QED
  BY <1>1, <1>2, <1>3, <1>4, <1>5, <1>6 DEF LogInv

\* The invariant is kept by renaming it over metadata.json.
LEMMA MetaRenameStep ==
    ASSUME LogInv, NEW p \in Procs, MetaRename(p)
    PROVE  LogInv'
<1> USE LogConstants DEF MetaRename, Goto, disk, store, recorder, history,
   bounds, Procs
<1>0. TypeOK /\ Control /\ Locking /\ Working /\ (~lapsed => Numbered /\ Extent)
  BY DEF LogInv
<1>1. TypeOK'
  <2> USE <1>0 DEF TypeOK, DiskType, StoreType, RecorderType, ThreadType,
     HistoryType
  <2>1. DiskType'
    BY DEF Control, Locking, Working, StoreLabels, BootLabels, MetaLabels,
       Unit, Kinds, TERMINAL_RECORDS
  <2>2. StoreType'
    BY DEF Control, Locking, Working, StoreLabels, BootLabels, MetaLabels,
       Meta, Statuses, Kinds, TERMINAL_RECORDS, Active
  <2>3. RecorderType'
    BY DEF Control
  <2>4. ThreadType'
    BY DEF Control, Labels, Ops, Kinds
  <2>5. HistoryType'
    OBVIOUS
  <2>6. QED
    BY <2>1, <2>2, <2>3, <2>4, <2>5
<1>2. Control'
  BY <1>0 DEF TypeOK, DiskType, StoreType, RecorderType, ThreadType,
     HistoryType, Control, Locking, StoreLabels, BootLabels, MetaLabels
<1>3. Locking'
  BY <1>0 DEF TypeOK, DiskType, StoreType, RecorderType, ThreadType,
     HistoryType, Control, Locking, StoreLabels, BootLabels, MetaLabels
<1>4. Working'
  BY <1>0 DEF TypeOK, DiskType, StoreType, RecorderType, ThreadType,
     HistoryType, Control, Locking, Working, StoreLabels, BootLabels,
     MetaLabels, Meta, Statuses, Kinds, TERMINAL_RECORDS, Active
<1>5. ~lapsed' => Numbered'
  BY <1>0 DEF Numbered
<1>6. ~lapsed' => Extent'
  BY <1>0 DEF TypeOK, DiskType, StoreType, RecorderType, ThreadType,
     HistoryType, Control, Locking, Working, Extent, Acked, StoreLabels,
     BootLabels, MetaLabels, Active
<1>7. QED
  BY <1>1, <1>2, <1>3, <1>4, <1>5, <1>6 DEF LogInv

\* The invariant is kept by flushing the rename.
LEMMA MetaFlushStep ==
    ASSUME LogInv, NEW p \in Procs, MetaFlush(p)
    PROVE  LogInv'
<1> USE LogConstants DEF MetaFlush, Goto, disk, store, recorder, history,
   bounds, Procs, AppendReturns
<1>0. TypeOK /\ Control /\ Locking /\ Working /\ (~lapsed => Numbered /\ Extent)
  BY DEF LogInv
<1>1. TypeOK'
  <2> USE <1>0 DEF TypeOK, DiskType, StoreType, RecorderType, ThreadType,
     HistoryType
  <2>1. DiskType'
    BY DEF Control, Locking, Working, StoreLabels, BootLabels, MetaLabels,
       Unit, Kinds, TERMINAL_RECORDS
  <2>2. StoreType'
    BY DEF Control, Locking, Working, StoreLabels, BootLabels, MetaLabels,
       Meta, Statuses, Kinds, TERMINAL_RECORDS, Active
  <2>3. RecorderType'
    BY DEF Control
  <2>4. ThreadType'
    <3>1. pc' \in [Procs -> Labels] /\ op' \in [Procs -> Ops]
      BY DEF Labels, Ops
    <3>2. QED
      BY <3>1
  <2>5. HistoryType'
    OBVIOUS
  <2>6. QED
    BY <2>1, <2>2, <2>3, <2>4, <2>5
<1>2. Control'
  BY <1>0 DEF TypeOK, DiskType, StoreType, RecorderType, ThreadType,
     HistoryType, Control, Locking, StoreLabels, BootLabels, MetaLabels
<1>3. Locking'
  BY <1>0 DEF TypeOK, DiskType, StoreType, RecorderType, ThreadType,
     HistoryType, Control, Locking, StoreLabels, BootLabels, MetaLabels
<1>4. Working'
  <2>1. CASE op[p] = "append"
    BY <1>0, <2>1 DEF TypeOK, DiskType, StoreType, RecorderType, ThreadType,
       HistoryType, Control, Locking, StoreLabels, BootLabels, MetaLabels,
       Working, Active
  <2>2. CASE op[p] \in {"finish", "fail", "report"}
    BY <1>0, <2>2 DEF TypeOK, DiskType, StoreType, RecorderType, ThreadType,
       HistoryType, Control, Locking, StoreLabels, BootLabels, MetaLabels,
       Working, Active
  <2>3. CASE op[p] = "create"
    BY <1>0, <2>3 DEF TypeOK, DiskType, StoreType, RecorderType, ThreadType,
       HistoryType, Control, Locking, StoreLabels, BootLabels, MetaLabels,
       Working, Active
  <2>4. CASE op[p] = "recover"
    BY <1>0, <2>4 DEF TypeOK, DiskType, StoreType, RecorderType, ThreadType,
       HistoryType, Control, Locking, StoreLabels, BootLabels, MetaLabels,
       Working, Active
  <2>5. QED
    BY <2>1, <2>2, <2>3, <2>4
<1>5. ~lapsed' => Numbered'
  BY <1>0 DEF Numbered
<1>6. ~lapsed' => Extent'
  <2>1. CASE op[p] = "append"
    BY <1>0, <2>1 DEF TypeOK, DiskType, StoreType, RecorderType, ThreadType,
       HistoryType, Control, Locking, StoreLabels, BootLabels, MetaLabels,
       Working, Active, Extent, Acked
  <2>2. CASE op[p] \in {"finish", "fail", "report"}
    BY <1>0, <2>2 DEF TypeOK, DiskType, StoreType, RecorderType, ThreadType,
       HistoryType, Control, Locking, StoreLabels, BootLabels, MetaLabels,
       Working, Active, Extent, Acked
  <2>3. CASE op[p] = "create"
    BY <1>0, <2>3 DEF TypeOK, DiskType, StoreType, RecorderType, ThreadType,
       HistoryType, Control, Locking, StoreLabels, BootLabels, MetaLabels,
       Working, Active, Extent, Acked
  <2>4. CASE op[p] = "recover"
    BY <1>0, <2>4 DEF TypeOK, DiskType, StoreType, RecorderType, ThreadType,
       HistoryType, Control, Locking, StoreLabels, BootLabels, MetaLabels,
       Working, Active, Extent, Acked
  <2>5. QED
    BY <2>1, <2>2, <2>3, <2>4
<1>7. QED
  BY <1>1, <1>2, <1>3, <1>4, <1>5, <1>6 DEF LogInv

\* The invariant is kept by a failed metadata write.
LEMMA MetaFailsStep ==
    ASSUME LogInv, NEW t \in Threads, MetaFails(t)
    PROVE  LogInv'
<1> USE LogConstants DEF MetaFails, Goto, disk, store, recorder, history,
   bounds, Procs, Fault, RaiseOSError, TmpAfterFailure
<1>0. TypeOK /\ Control /\ Locking /\ Working /\ (~lapsed => Numbered /\ Extent)
  BY DEF LogInv
<1>1. TypeOK'
  <2> USE <1>0 DEF TypeOK, DiskType, StoreType, RecorderType, ThreadType,
     HistoryType
  <2>1. DiskType'
    BY DEF Control, Locking, Working, StoreLabels, BootLabels, MetaLabels,
       Unit, Kinds, TERMINAL_RECORDS
  <2>2. StoreType'
    BY DEF Control, Locking, Working, StoreLabels, BootLabels, MetaLabels,
       Meta, Statuses, Kinds, TERMINAL_RECORDS, Active
  <2>3. RecorderType'
    BY DEF Control
  <2>4. ThreadType'
    <3> HIDE DEF Fault, TmpAfterFailure
    <3>1. pc' \in [Procs -> Labels] /\ op' \in [Procs -> Ops]
      BY DEF Labels, Ops
    <3>2. QED
      BY <3>1
  <2>5. HistoryType'
    <3>1. raised' \in BOOLEAN /\ lapsed' \in BOOLEAN
      OBVIOUS
    <3>2. faults' \in Nat /\ crashes' \in Nat
      OBVIOUS
    <3>3. QED
      BY <3>1, <3>2
  <2>6. QED
    BY <2>1, <2>2, <2>3, <2>4, <2>5
<1>2. Control'
  BY <1>0 DEF TypeOK, DiskType, StoreType, RecorderType, ThreadType,
     HistoryType, Control, Locking, StoreLabels, BootLabels, MetaLabels
<1>3. Locking'
  <2>1. /\ storeLock' = None /\ storeLock = t
        /\ \/ op' = [op EXCEPT ![t] = "fail"] /\ pc' = [pc EXCEPT ![t] = "finish"]
              /\ recLock' = recLock /\ op[t] \in {"append", "finish"}
           \/ op' = op /\ pc' = [pc EXCEPT ![t] = "idle"] /\ recLock' = None
              /\ op[t] = "fail"
           \/ op' = op /\ pc' = [pc EXCEPT ![t] = "idle"] /\ recLock' = recLock
              /\ op[t] = "report"
    BY <1>0 DEF TypeOK, DiskType, StoreType, RecorderType, ThreadType,
       HistoryType, Control, Locking, StoreLabels, BootLabels, MetaLabels
  <2>2. pc[t] \in MetaLabels
    OBVIOUS
  <2> HIDE DEF MetaFails, RaiseOSError, TmpAfterFailure, Fault
  <2>3. \A q \in Procs : pc'[q] \notin StoreLabels \union BootLabels
    BY <1>0, <2>1, <2>2 DEF TypeOK, DiskType, StoreType, RecorderType,
       ThreadType, HistoryType, Control, Locking, StoreLabels, BootLabels,
       MetaLabels
  <2>4. ASSUME NEW u \in Threads
        PROVE  recLock' = u <=> pc'[u] # "idle" /\ op'[u] # "report"
    BY <1>0, <2>1, <2>2 DEF TypeOK, DiskType, StoreType, RecorderType,
       ThreadType, HistoryType, Control, Locking, StoreLabels, BootLabels,
       MetaLabels
  <2>5. QED
    BY <2>3, <2>4 DEF Locking
<1>4. Working'
  <2>0. t # Main /\ t \in Procs /\ storeLock = t
    BY <1>0 DEF Locking, StoreLabels
  <2>1. /\ \/ pc' = [pc EXCEPT ![t] = "finish"]
           \/ pc' = [pc EXCEPT ![t] = "idle"]
        /\ UNCHANGED <<file, synced, next, mem, draft, dir>>
    OBVIOUS
  <2>2. op'[Main] = op[Main]
    BY <1>0, <2>0, <2>1 DEF ThreadType, TypeOK
  <2> HIDE DEF MetaFails, RaiseOSError, TmpAfterFailure, Fault
  <2>3. /\ pc'[Main] = pc[Main] /\ pc'[t] # "retain"
        /\ \A q \in Procs : q # t => pc'[q] = pc[q]
    BY <1>0, <2>0, <2>1 DEF ThreadType, TypeOK
  <2>4. \A q \in Procs : pc'[q] \notin StoreLabels \union BootLabels
    BY <1>0, <2>0, <2>1, <2>3 DEF Locking, ThreadType, TypeOK, StoreLabels, BootLabels, MetaLabels
  <2>5. Active' <=> Active
    BY <2>1 DEF Active
  <2>. QED
    <3>1. \A q \in Procs :
             pc'[q] \notin {"write", "sync", "rename"} \union MetaLabels \union BootLabels
      BY <2>4 DEF StoreLabels, MetaLabels
    <3>2. Main \in Procs
      OBVIOUS
    <3>3. pc[Main] \notin MetaLabels
      BY <2>3, <3>1, <3>2
    <3> HIDE DEF MetaLabels, BootLabels, Procs
    <3>. QED
      BY <1>0, <2>1, <2>2, <2>3, <2>5, <3>1, <3>3 DEF Working
<1>5. ~lapsed' => Numbered'
  BY <1>0 DEF Numbered
<1>6. ~lapsed' => Extent'
  BY <1>0 DEF TypeOK, DiskType, StoreType, RecorderType, ThreadType,
     HistoryType, Control, Locking, Working, Extent, Acked, StoreLabels,
     BootLabels, MetaLabels, Active
<1>7. QED
  BY <1>1, <1>2, <1>3, <1>4, <1>5, <1>6 DEF LogInv

\* The invariant is kept by undoing create_recorder.
LEMMA CreateUndoneStep ==
    ASSUME LogInv, CreateUndone
    PROVE  LogInv'
<1> USE LogConstants DEF CreateUndone, Goto, disk, store, recorder, history,
   bounds, Procs, Fault, TmpAfterFailure
<1>0. TypeOK /\ Control /\ Locking /\ Working /\ (~lapsed => Numbered /\ Extent)
  BY DEF LogInv
<1>1. TypeOK'
  <2> USE <1>0 DEF TypeOK, DiskType, StoreType, RecorderType, ThreadType,
     HistoryType
  <2>1. DiskType'
    <3>1. dir' \in BOOLEAN
      OBVIOUS
    <3>2. file' \in Seq(Unit) /\ synced' \in Nat
      BY EmptySeq
    <3>3. meta' \in Meta \union {NoMeta} /\ metaSync' \in Meta \union {NoMeta}
      OBVIOUS
    <3>4. tmp' \in Nat /\ partial' \in Nat
      BY DEF Control, Working, MetaLabels
    <3>5. QED
      BY <3>1, <3>2, <3>3, <3>4
  <2>2. StoreType'
    BY DEF Control, Locking, Working, StoreLabels, BootLabels, MetaLabels,
       Meta, Statuses, Kinds, TERMINAL_RECORDS, Active
  <2>3. RecorderType'
    BY DEF Control
  <2>4. ThreadType'
    BY DEF Control, Labels, Ops, Kinds
  <2>5. HistoryType'
    OBVIOUS
  <2>6. QED
    BY <2>1, <2>2, <2>3, <2>4, <2>5
<1>2. Control'
  BY <1>0 DEF TypeOK, DiskType, StoreType, RecorderType, ThreadType,
     HistoryType, Control, Locking, StoreLabels, BootLabels, MetaLabels
<1>3. Locking'
  BY <1>0 DEF TypeOK, DiskType, StoreType, RecorderType, ThreadType,
     HistoryType, Control, Locking, StoreLabels, BootLabels, MetaLabels
<1>4. Working'
  BY <1>0 DEF TypeOK, DiskType, StoreType, RecorderType, ThreadType,
     HistoryType, Control, Locking, Working, StoreLabels, BootLabels,
     MetaLabels, Meta, Statuses, Kinds, TERMINAL_RECORDS, Active
<1>5. ~lapsed' => Numbered'
  BY <1>0 DEF Numbered
<1>6. ~lapsed' => Extent'
  BY <1>0 DEF TypeOK, DiskType, StoreType, RecorderType, ThreadType,
     HistoryType, Control, Locking, Working, Extent, Acked, StoreLabels,
     BootLabels, MetaLabels, Active
<1>7. QED
  BY <1>1, <1>2, <1>3, <1>4, <1>5, <1>6 DEF LogInv

\* The invariant is kept by a retention pass after finish().
LEMMA RetainStep ==
    ASSUME LogInv, NEW t \in Threads, Retain(t)
    PROVE  LogInv'
<1> USE LogConstants DEF Retain, Goto, disk, store, recorder, history, bounds,
   Procs, KeepOrEvict, RemoveDirectory, FinishReturns
<1>0. TypeOK /\ Control /\ Locking /\ Working /\ (~lapsed => Numbered /\ Extent)
  BY DEF LogInv
<1>1. TypeOK'
  <2> USE <1>0 DEF TypeOK, DiskType, StoreType, RecorderType, ThreadType,
     HistoryType
  <2>1. DiskType'
    <3>1. dir' \in BOOLEAN
      OBVIOUS
    <3>2. file' \in Seq(Unit) /\ synced' \in Nat
      <4>1. <<>> \in Seq(Unit) /\ 0 \in Nat
        OBVIOUS
      <4>2. (file' = <<>> /\ synced' = 0) \/ UNCHANGED <<file, synced>>
        OBVIOUS
      <4>3. QED
        BY <4>1, <4>2
    <3>3. meta' \in Meta \union {NoMeta} /\ metaSync' \in Meta \union {NoMeta}
      OBVIOUS
    <3>4. tmp' \in Nat /\ partial' \in Nat
      BY DEF Control, Working, MetaLabels
    <3>5. QED
      BY <3>1, <3>2, <3>3, <3>4
  <2>2. StoreType'
    BY DEF Control, Locking, Working, StoreLabels, BootLabels, MetaLabels,
       Meta, Statuses, Kinds, TERMINAL_RECORDS, Active
  <2>3. RecorderType'
    BY DEF Control
  <2>4. ThreadType'
    BY DEF Control, Labels, Ops, Kinds
  <2>5. HistoryType'
    OBVIOUS
  <2>6. QED
    BY <2>1, <2>2, <2>3, <2>4, <2>5
<1>2. Control'
  BY <1>0 DEF TypeOK, DiskType, StoreType, RecorderType, ThreadType,
     HistoryType, Control, Locking, StoreLabels, BootLabels, MetaLabels
<1>3. Locking'
  BY <1>0 DEF TypeOK, DiskType, StoreType, RecorderType, ThreadType,
     HistoryType, Control, Locking, StoreLabels, BootLabels, MetaLabels
<1>4. Working'
  <2>1. CASE RemoveDirectory /\ mem' = NoMeta
    BY <1>0, <2>1 DEF TypeOK, DiskType, StoreType, RecorderType, ThreadType,
       HistoryType, Control, Locking, StoreLabels, BootLabels, MetaLabels,
       Working, Active
  <2>2. CASE UNCHANGED <<disk, mem, pending, evBytes>>
    BY <1>0, <2>2 DEF TypeOK, DiskType, StoreType, RecorderType, ThreadType,
       HistoryType, Control, Locking, StoreLabels, BootLabels, MetaLabels,
       Working, Active
  <2>3. QED
    BY <2>1, <2>2
<1>5. ~lapsed' => Numbered'
  BY <1>0 DEF Numbered
<1>6. ~lapsed' => Extent'
  <2>1. CASE RemoveDirectory /\ mem' = NoMeta
    BY <1>0, <2>1 DEF TypeOK, DiskType, StoreType, RecorderType, ThreadType,
       HistoryType, Control, Locking, StoreLabels, BootLabels, MetaLabels,
       Working, Active, Extent, Acked
  <2>2. CASE UNCHANGED <<disk, mem, pending, evBytes>>
    BY <1>0, <2>2 DEF TypeOK, DiskType, StoreType, RecorderType, ThreadType,
       HistoryType, Control, Locking, StoreLabels, BootLabels, MetaLabels,
       Working, Active, Extent, Acked
  <2>3. QED
    BY <2>1, <2>2
<1>7. QED
  BY <1>1, <1>2, <1>3, <1>4, <1>5, <1>6 DEF LogInv

\* The invariant is kept by a failed retention pass.
LEMMA RetainFailsStep ==
    ASSUME LogInv, NEW t \in Threads, RetainFails(t)
    PROVE  LogInv'
<1> USE LogConstants DEF RetainFails, Goto, disk, store, recorder, history,
   bounds, Procs, KeepOrEvict, RemoveDirectory, RaiseOSError, Fault
<1>0. TypeOK /\ Control /\ Locking /\ Working /\ (~lapsed => Numbered /\ Extent)
  BY DEF LogInv
<1>1. TypeOK'
  <2> USE <1>0 DEF TypeOK, DiskType, StoreType, RecorderType, ThreadType,
     HistoryType
  <2>1. DiskType'
    <3>1. dir' \in BOOLEAN
      OBVIOUS
    <3>2. file' \in Seq(Unit) /\ synced' \in Nat
      <4>1. <<>> \in Seq(Unit) /\ 0 \in Nat
        OBVIOUS
      <4>2. (file' = <<>> /\ synced' = 0) \/ UNCHANGED <<file, synced>>
        OBVIOUS
      <4>3. QED
        BY <4>1, <4>2
    <3>3. meta' \in Meta \union {NoMeta} /\ metaSync' \in Meta \union {NoMeta}
      OBVIOUS
    <3>4. tmp' \in Nat /\ partial' \in Nat
      BY DEF Control, Working, MetaLabels
    <3>5. QED
      BY <3>1, <3>2, <3>3, <3>4
  <2>2. StoreType'
    BY DEF Control, Locking, Working, StoreLabels, BootLabels, MetaLabels,
       Meta, Statuses, Kinds, TERMINAL_RECORDS, Active
  <2>3. RecorderType'
    BY DEF Control
  <2>4. ThreadType'
    BY DEF Control, Labels, Ops, Kinds
  <2>5. HistoryType'
    <3>1. raised' \in BOOLEAN /\ lapsed' \in BOOLEAN
      OBVIOUS
    <3>2. faults' \in Nat /\ crashes' \in Nat
      OBVIOUS
    <3>3. QED
      BY <3>1, <3>2
  <2>6. QED
    BY <2>1, <2>2, <2>3, <2>4, <2>5
<1>2. Control'
  BY <1>0 DEF TypeOK, DiskType, StoreType, RecorderType, ThreadType,
     HistoryType, Control, Locking, StoreLabels, BootLabels, MetaLabels
<1>3. Locking'
  BY <1>0 DEF TypeOK, DiskType, StoreType, RecorderType, ThreadType,
     HistoryType, Control, Locking, StoreLabels, BootLabels, MetaLabels
<1>4. Working'
  <2>1. /\ \A q \in Procs : pc[q] \notin StoreLabels \union BootLabels
        /\ pc[Main] = "serving" /\ pc[t] = "retain"
    BY <1>0 DEF Control, Locking
  <2>2. /\ \/ op' = [op EXCEPT ![t] = "fail"] /\ pc' = [pc EXCEPT ![t] = "finish"]
           \/ op' = op /\ pc' = [pc EXCEPT ![t] = "idle"]
        /\ \/ dir' = FALSE /\ mem' = NoMeta /\ ~Active
           \/ UNCHANGED <<dir, mem>>
    OBVIOUS
  <2>3. Active' => Active /\ dir'
    BY <1>0, <2>2 DEF Working, Active
  <2> HIDE DEF RetainFails, KeepOrEvict, RemoveDirectory, RaiseOSError, Fault
  <2>4. /\ pc'[Main] = "serving"
        /\ \A q \in Procs : \/ pc'[q] \in {"finish", "idle"}
                             \/ pc'[q] = pc[q]
    BY <1>0, <2>1, <2>2 DEF TypeOK, ThreadType
  <2>5. QED
    BY <1>0, <2>1, <2>3, <2>4 DEF Working, StoreLabels, BootLabels, MetaLabels
<1>5. ~lapsed' => Numbered'
  BY <1>0 DEF Numbered
<1>6. ~lapsed' => Extent'
  <2>1. CASE RemoveDirectory /\ mem' = NoMeta
    BY <1>0, <2>1 DEF TypeOK, DiskType, StoreType, RecorderType, ThreadType,
       HistoryType, Control, Locking, StoreLabels, BootLabels, MetaLabels,
       Working, Active, Extent, Acked
  <2>2. CASE UNCHANGED <<disk, mem, pending, evBytes>>
    BY <1>0, <2>2 DEF TypeOK, DiskType, StoreType, RecorderType, ThreadType,
       HistoryType, Control, Locking, StoreLabels, BootLabels, MetaLabels,
       Working, Active, Extent, Acked
  <2>3. QED
    BY <2>1, <2>2
<1>7. QED
  BY <1>1, <1>2, <1>3, <1>4, <1>5, <1>6 DEF LogInv

\* The invariant is kept by a crash.
LEMMA CrashStep ==
    ASSUME LogInv, Crash
    PROVE  LogInv'
<1> USE LogConstants DEF Crash, Goto, disk, store, recorder, history, bounds,
   Procs, ProcessEnds
<1>0. TypeOK /\ Control /\ Locking /\ Working /\ (~lapsed => Numbered /\ Extent)
  BY DEF LogInv
<1>1. TypeOK'
  <2> USE <1>0 DEF TypeOK, DiskType, StoreType, RecorderType, ThreadType,
     HistoryType
  <2>1. DiskType'
    <3>1. PICK n \in synced..Len(file) : file' = SubSeq(file, 1, n) /\ synced' = n
      OBVIOUS
    <3>2. file' \in Seq(Unit) /\ synced' \in Nat
      BY <3>1
    <3>3. QED
      BY <3>2
  <2>2. StoreType'
    BY DEF Control, Locking, Working, StoreLabels, BootLabels, MetaLabels,
       Meta, Statuses, Kinds, TERMINAL_RECORDS, Active
  <2>3. RecorderType'
    BY DEF Control
  <2>4. ThreadType'
    BY DEF Control, Labels, Ops, Kinds
  <2>5. HistoryType'
    OBVIOUS
  <2>6. QED
    BY <2>1, <2>2, <2>3, <2>4, <2>5
<1>2. Control'
  BY <1>0 DEF TypeOK, DiskType, StoreType, RecorderType, ThreadType,
     HistoryType, Control, Locking, StoreLabels, BootLabels, MetaLabels
<1>3. Locking'
  BY <1>0 DEF TypeOK, DiskType, StoreType, RecorderType, ThreadType,
     HistoryType, Control, Locking, StoreLabels, BootLabels, MetaLabels
<1>4. Working'
  BY <1>0 DEF TypeOK, DiskType, StoreType, RecorderType, ThreadType,
     HistoryType, Control, Locking, Working, StoreLabels, BootLabels,
     MetaLabels, Meta, Statuses, Kinds, TERMINAL_RECORDS, Active
<1>5. ~lapsed' => Numbered'
  BY <1>0 DEF Numbered
<1>6. ~lapsed' => Extent'
  BY <1>0 DEF TypeOK, DiskType, StoreType, RecorderType, ThreadType,
     HistoryType, Control, Locking, Working, Extent, Acked, StoreLabels,
     BootLabels, MetaLabels, Active
<1>7. QED
  BY <1>1, <1>2, <1>3, <1>4, <1>5, <1>6 DEF LogInv

\* The invariant is kept by a start that cannot read the metadata.
LEMMA LoadInvalidStep ==
    ASSUME LogInv, LoadInvalid
    PROVE  LogInv'
<1> USE LogConstants DEF LoadInvalid, Goto, disk, store, recorder, history,
   bounds, Procs, Fault
<1>0. TypeOK /\ Control /\ Locking /\ Working /\ (~lapsed => Numbered /\ Extent)
  BY DEF LogInv
<1>1. TypeOK'
  <2> USE <1>0 DEF TypeOK, DiskType, StoreType, RecorderType, ThreadType,
     HistoryType
  <2>1. DiskType'
    BY DEF Control, Locking, Working, StoreLabels, BootLabels, MetaLabels,
       Unit, Kinds, TERMINAL_RECORDS
  <2>2. StoreType'
    BY DEF Control, Locking, Working, StoreLabels, BootLabels, MetaLabels,
       Meta, Statuses, Kinds, TERMINAL_RECORDS, Active
  <2>3. RecorderType'
    BY DEF Control
  <2>4. ThreadType'
    BY DEF Control, Labels, Ops, Kinds
  <2>5. HistoryType'
    OBVIOUS
  <2>6. QED
    BY <2>1, <2>2, <2>3, <2>4, <2>5
<1>2. Control'
  BY <1>0 DEF TypeOK, DiskType, StoreType, RecorderType, ThreadType,
     HistoryType, Control, Locking, StoreLabels, BootLabels, MetaLabels
<1>3. Locking'
  BY <1>0 DEF TypeOK, DiskType, StoreType, RecorderType, ThreadType,
     HistoryType, Control, Locking, StoreLabels, BootLabels, MetaLabels
<1>4. Working'
  BY <1>0 DEF TypeOK, DiskType, StoreType, RecorderType, ThreadType,
     HistoryType, Control, Locking, Working, StoreLabels, BootLabels,
     MetaLabels, Meta, Statuses, Kinds, TERMINAL_RECORDS, Active
<1>5. ~lapsed' => Numbered'
  BY <1>0 DEF Numbered
<1>6. ~lapsed' => Extent'
  BY <1>0 DEF TypeOK, DiskType, StoreType, RecorderType, ThreadType,
     HistoryType, Control, Locking, Working, Extent, Acked, StoreLabels,
     BootLabels, MetaLabels, Active
<1>7. QED
  BY <1>1, <1>2, <1>3, <1>4, <1>5, <1>6 DEF LogInv

\* The invariant is kept by a start that reads the metadata.
LEMMA LoadStep ==
    ASSUME LogInv, Load
    PROVE  LogInv'
<1> USE LogConstants DEF Load, Goto, disk, store, recorder, history, bounds,
   Procs, Torn
<1>0. TypeOK /\ Control /\ Locking /\ Working /\ (~lapsed => Numbered /\ Extent)
  BY DEF LogInv
<1>1. TypeOK'
  <2> USE <1>0 DEF TypeOK, DiskType, StoreType, RecorderType, ThreadType,
     HistoryType
  <2>1. DiskType'
    BY DEF Control, Locking, Working, StoreLabels, BootLabels, MetaLabels,
       Unit, Kinds, TERMINAL_RECORDS
  <2>2. StoreType'
    BY DEF Control, Locking, Working, StoreLabels, BootLabels, MetaLabels,
       Meta, Statuses, Kinds, TERMINAL_RECORDS, Active
  <2>3. RecorderType'
    BY DEF Control
  <2>4. ThreadType'
    BY DEF Control, Labels, Ops, Kinds
  <2>5. HistoryType'
    OBVIOUS
  <2>6. QED
    BY <2>1, <2>2, <2>3, <2>4, <2>5
<1>2. Control'
  BY <1>0 DEF TypeOK, DiskType, StoreType, RecorderType, ThreadType,
     HistoryType, Control, Locking, StoreLabels, BootLabels, MetaLabels
<1>3. Locking'
  BY <1>0 DEF TypeOK, DiskType, StoreType, RecorderType, ThreadType,
     HistoryType, Control, Locking, StoreLabels, BootLabels, MetaLabels
<1>4. Working'
  BY <1>0 DEF TypeOK, DiskType, StoreType, RecorderType, ThreadType,
     HistoryType, Control, Locking, Working, StoreLabels, BootLabels,
     MetaLabels, Meta, Statuses, Kinds, TERMINAL_RECORDS, Active
<1>5. ~lapsed' => Numbered'
  BY <1>0 DEF Numbered
<1>6. ~lapsed' => Extent'
  BY <1>0 DEF TypeOK, DiskType, StoreType, RecorderType, ThreadType,
     HistoryType, Control, Locking, Working, Extent, Acked, StoreLabels,
     BootLabels, MetaLabels, Active
<1>7. QED
  BY <1>1, <1>2, <1>3, <1>4, <1>5, <1>6 DEF LogInv

\* The invariant is kept by copying a torn tail.
LEMMA CopyTailStep ==
    ASSUME LogInv, CopyTail
    PROVE  LogInv'
<1> USE LogConstants DEF CopyTail, Goto, disk, store, recorder, history,
   bounds, Procs
<1>0. TypeOK /\ Control /\ Locking /\ Working /\ (~lapsed => Numbered /\ Extent)
  BY DEF LogInv
<1>1. TypeOK'
  <2> USE <1>0 DEF TypeOK, DiskType, StoreType, RecorderType, ThreadType,
     HistoryType
  <2>1. DiskType'
    <3>1. LastRecordEnd(file) \in 0..Len(file)
      BY LastRecordEndExists
    <3>2. QED
      BY <3>1
  <2>2. StoreType'
    BY DEF Control, Locking, Working, StoreLabels, BootLabels, MetaLabels,
       Meta, Statuses, Kinds, TERMINAL_RECORDS, Active
  <2>3. RecorderType'
    BY DEF Control
  <2>4. ThreadType'
    BY DEF Control, Labels, Ops, Kinds
  <2>5. HistoryType'
    OBVIOUS
  <2>6. QED
    BY <2>1, <2>2, <2>3, <2>4, <2>5
<1>2. Control'
  BY <1>0 DEF TypeOK, DiskType, StoreType, RecorderType, ThreadType,
     HistoryType, Control, Locking, StoreLabels, BootLabels, MetaLabels
<1>3. Locking'
  BY <1>0 DEF TypeOK, DiskType, StoreType, RecorderType, ThreadType,
     HistoryType, Control, Locking, StoreLabels, BootLabels, MetaLabels
<1>4. Working'
  BY <1>0 DEF TypeOK, DiskType, StoreType, RecorderType, ThreadType,
     HistoryType, Control, Locking, Working, StoreLabels, BootLabels,
     MetaLabels, Meta, Statuses, Kinds, TERMINAL_RECORDS, Active
<1>5. ~lapsed' => Numbered'
  BY <1>0 DEF Numbered
<1>6. ~lapsed' => Extent'
  BY <1>0 DEF TypeOK, DiskType, StoreType, RecorderType, ThreadType,
     HistoryType, Control, Locking, Working, Extent, Acked, StoreLabels,
     BootLabels, MetaLabels, Active
<1>7. QED
  BY <1>1, <1>2, <1>3, <1>4, <1>5, <1>6 DEF LogInv

\* The invariant is kept by cutting a torn tail off.
LEMMA TruncateStep ==
    ASSUME LogInv, Truncate
    PROVE  LogInv'
<1> USE LogConstants DEF Truncate, Goto, disk, store, recorder, history,
   bounds, Procs
<1>0. TypeOK /\ Control /\ Locking /\ Working /\ (~lapsed => Numbered /\ Extent)
  BY DEF LogInv
<1>1. TypeOK'
  <2> USE <1>0 DEF TypeOK, DiskType, StoreType, RecorderType, ThreadType,
     HistoryType
  <2>1. DiskType'
    <3>1. LastRecordEnd(file) \in 0..Len(file)
      BY LastRecordEndExists
    <3>2. file' \in Seq(Unit) /\ synced' \in Nat
      BY <3>1, SMTT(30)
    <3>3. QED
      BY <3>2
  <2>2. StoreType'
    BY DEF Control, Locking, Working, StoreLabels, BootLabels, MetaLabels,
       Meta, Statuses, Kinds, TERMINAL_RECORDS, Active
  <2>3. RecorderType'
    BY SMTT(30) DEF Control
  <2>4. ThreadType'
    BY DEF Control, Labels, Ops, Kinds
  <2>5. HistoryType'
    OBVIOUS
  <2>6. QED
    BY <2>1, <2>2, <2>3, <2>4, <2>5
<1>2. Control'
  BY <1>0 DEF TypeOK, DiskType, StoreType, RecorderType, ThreadType,
     HistoryType, Control, Locking, StoreLabels, BootLabels, MetaLabels
<1>3. Locking'
  BY <1>0 DEF TypeOK, DiskType, StoreType, RecorderType, ThreadType,
     HistoryType, Control, Locking, StoreLabels, BootLabels, MetaLabels
<1>4. Working'
  <2>1. /\ pc[Main] = "truncate" /\ UNCHANGED <<dir, mem, tmp, op>>
        /\ pc' = [pc EXCEPT ![Main] = "rescan"]
        /\ draft' = [draft EXCEPT !.recovered = partial]
    OBVIOUS
  <2> HIDE DEF Truncate
  <2>2. draft' \in Meta
    BY <1>0, <2>1 DEF TypeOK, DiskType, Working, BootLabels, Meta
  <2>3. pc'[Main] = "rescan" /\ \A u \in Threads : pc'[u] = "idle"
    BY <1>0, <2>1, SMTT(30) DEF Control, TypeOK, ThreadType
  <2>4. QED
    BY <1>0, <2>1, <2>2, <2>3 DEF Working, Active, MetaLabels, BootLabels
<1>5. ~lapsed' => Numbered'
  <2>1. LastRecordEnd(file) \in 0..Len(file)
    BY <1>0, LastRecordEndExists DEF TypeOK, DiskType
  <2>2. /\ Len(file') = LastRecordEnd(file)
        /\ \A i \in 1..Len(file') : file'[i] = file[i]
    BY <1>0, <2>1 DEF TypeOK, DiskType
  <2>3. QED
    BY <1>0, <2>1, <2>2, SMTT(30) DEF Numbered, TypeOK, DiskType
<1>6. ~lapsed' => Extent'
  <2> SUFFICES ASSUME ~lapsed PROVE Extent'
    OBVIOUS
  <2>1. /\ LastRecordEnd(file) \in 0..Len(file)
        /\ \A i \in (LastRecordEnd(file) + 1)..Len(file) : file[i].part = 1
    BY <1>0, LastRecordEndExists DEF TypeOK, DiskType
  <2>2. Len(file') = LastRecordEnd(file) /\ synced' = LastRecordEnd(file)
    BY <1>0, <2>1 DEF TypeOK, DiskType
  <2>3. Acked \in Nat /\ (dir => Acked <= Len(file))
    BY <1>0, SMTT(30) DEF TypeOK, RecorderType, DiskType, Extent, Acked
  <2>4. ASSUME dir PROVE Acked <= LastRecordEnd(file)
    <3> SUFFICES ASSUME LastRecordEnd(file) < Acked PROVE FALSE
      BY <2>1, <2>3
    <3>1. Acked \in (LastRecordEnd(file) + 1)..Len(file) /\ Acked \in 1..Len(file)
      BY <2>1, <2>3, <2>4
    <3>2. file[Acked] \in Unit /\ Acked = 2 * file[Acked].seq - 2 + file[Acked].part
      BY <1>0, <3>1, SMTT(30) DEF Numbered, TypeOK, DiskType
    <3>3. file[Acked].part = 1 /\ file[Acked].seq \in Nat
      BY <2>1, <3>1, <3>2 DEF Unit
    <3>4. PICK q \in Nat, n \in Nat : 2 * (n - 1) = 2 * q - 2 + 1
      BY <3>2, <3>3, <1>0 DEF Acked, TypeOK, RecorderType
    <3>5. QED
      BY <3>4
  <2>5. \A t \in Threads : pc'[t] = "idle"
    BY <1>0 DEF TypeOK, DiskType, StoreType, RecorderType, ThreadType,
       HistoryType, Control, Locking, StoreLabels, BootLabels, MetaLabels
  <2>6. Acked' = Acked /\ dir' = dir /\ pc'[Main] # "serving"
    BY <1>0 DEF Acked, TypeOK, ThreadType
  <2>7. Acked' \in Nat /\ Len(file) <= Acked + 2 /\ Len(file) \in Nat
    BY <1>0, <2>3, <2>6 DEF Extent, TypeOK, DiskType
  <2> HIDE DEF Truncate, Acked
  <2>8. QED
    BY <2>1, <2>2, <2>3, <2>4, <2>5, <2>6, <2>7 DEF Extent, MetaLabels
<1>7. QED
  BY <1>1, <1>2, <1>3, <1>4, <1>5, <1>6 DEF LogInv

\* The invariant is kept by recounting the evidence.
LEMMA ReconcileStep ==
    ASSUME LogInv, Reconcile
    PROVE  LogInv'
<1> USE LogConstants DEF Reconcile, Goto, disk, store, recorder, history,
   bounds, Procs, Reconciled
<1>0. TypeOK /\ Control /\ Locking /\ Working /\ (~lapsed => Numbered /\ Extent)
  BY DEF LogInv
<1>r. PICK r \in BOOLEAN : r = (pc[Main] = "rescan")
  OBVIOUS
<1> HIDE DEF Reconciled
<1>m. Reconciled(draft, r) \in Meta /\ Reconciled(draft, r).status # "active"
  BY <1>0, ReconciledMeta DEF TypeOK, DiskType, StoreType, RecorderType,
     ThreadType, HistoryType, Control, Locking, StoreLabels, BootLabels,
     MetaLabels, Working, Active
<1>s. /\ pc[Main] \in {"scan", "rescan"}
      /\ mem' = Reconciled(draft, r) /\ draft' = mem' /\ pending' = 0
      /\ evBytes' = Len(file)
      /\ UNCHANGED <<disk, recorder, op, kind, history, bounds>>
      /\ \/ pc' = [pc EXCEPT ![Main] = "temp"] /\ storeLock' = storeLock
         \/ pc' = [pc EXCEPT ![Main] = "retain"] /\ storeLock' = None
  BY <1>r
<1> HIDE DEF Reconcile
<1> USE <1>m, <1>s
<1>1. TypeOK'
  <2> USE <1>0 DEF TypeOK, DiskType, StoreType, RecorderType, ThreadType,
     HistoryType
  <2>1. DiskType'
    BY DEF Control, Locking, Working, StoreLabels, BootLabels, MetaLabels,
       Unit, Kinds, TERMINAL_RECORDS
  <2>2. StoreType'
    BY DEF Control, Locking, Working, StoreLabels, BootLabels, MetaLabels,
       Meta, Statuses, Kinds, TERMINAL_RECORDS, Active
  <2>3. RecorderType'
    BY DEF Control
  <2>4. ThreadType'
    BY DEF Control, Labels, Ops, Kinds
  <2>5. HistoryType'
    OBVIOUS
  <2>6. QED
    BY <2>1, <2>2, <2>3, <2>4, <2>5
<1>2. Control'
  BY <1>0 DEF TypeOK, DiskType, StoreType, RecorderType, ThreadType,
     HistoryType, Control, Locking, StoreLabels, BootLabels, MetaLabels
<1>3. Locking'
  BY <1>0 DEF TypeOK, DiskType, StoreType, RecorderType, ThreadType,
     HistoryType, Control, Locking, StoreLabels, BootLabels, MetaLabels
<1>4. Working'
  BY <1>0 DEF TypeOK, DiskType, StoreType, RecorderType, ThreadType,
     HistoryType, Control, Locking, Working, StoreLabels, BootLabels,
     MetaLabels, Meta, Statuses, Kinds, TERMINAL_RECORDS, Active
<1>5. ~lapsed' => Numbered'
  BY <1>0 DEF Numbered
<1>6. ~lapsed' => Extent'
  BY <1>0 DEF TypeOK, DiskType, StoreType, RecorderType, ThreadType,
     HistoryType, Control, Locking, Working, Extent, Acked, StoreLabels,
     BootLabels, MetaLabels, Active
<1>7. QED
  BY <1>1, <1>2, <1>3, <1>4, <1>5, <1>6 DEF LogInv

\* The invariant is kept by the end of a start.
LEMMA RecoveryDoneStep ==
    ASSUME LogInv, RecoveryDone
    PROVE  LogInv'
<1> USE LogConstants DEF RecoveryDone, Goto, disk, store, recorder, history,
   bounds, Procs, KeepOrEvict, RemoveDirectory
<1>0. TypeOK /\ Control /\ Locking /\ Working /\ (~lapsed => Numbered /\ Extent)
  BY DEF LogInv
<1>1. TypeOK'
  <2> USE <1>0 DEF TypeOK, DiskType, StoreType, RecorderType, ThreadType,
     HistoryType
  <2>1. DiskType'
    <3>1. dir' \in BOOLEAN
      OBVIOUS
    <3>2. file' \in Seq(Unit) /\ synced' \in Nat
      <4>1. <<>> \in Seq(Unit) /\ 0 \in Nat
        OBVIOUS
      <4>2. (file' = <<>> /\ synced' = 0) \/ UNCHANGED <<file, synced>>
        OBVIOUS
      <4>3. QED
        BY <4>1, <4>2
    <3>3. meta' \in Meta \union {NoMeta} /\ metaSync' \in Meta \union {NoMeta}
      OBVIOUS
    <3>4. tmp' \in Nat /\ partial' \in Nat
      BY DEF Control, Working, MetaLabels
    <3>5. QED
      BY <3>1, <3>2, <3>3, <3>4
  <2>2. StoreType'
    BY DEF Control, Locking, Working, StoreLabels, BootLabels, MetaLabels,
       Meta, Statuses, Kinds, TERMINAL_RECORDS, Active
  <2>3. RecorderType'
    BY DEF Control
  <2>4. ThreadType'
    BY DEF Control, Labels, Ops, Kinds
  <2>5. HistoryType'
    OBVIOUS
  <2>6. QED
    BY <2>1, <2>2, <2>3, <2>4, <2>5
<1>2. Control'
  BY <1>0 DEF TypeOK, DiskType, StoreType, RecorderType, ThreadType,
     HistoryType, Control, Locking, StoreLabels, BootLabels, MetaLabels
<1>3. Locking'
  BY <1>0 DEF TypeOK, DiskType, StoreType, RecorderType, ThreadType,
     HistoryType, Control, Locking, StoreLabels, BootLabels, MetaLabels
<1>4. Working'
  BY <1>0 DEF TypeOK, DiskType, StoreType, RecorderType, ThreadType,
     HistoryType, Control, Locking, Working, StoreLabels, BootLabels,
     MetaLabels, Meta, Statuses, Kinds, TERMINAL_RECORDS, Active
<1>5. ~lapsed' => Numbered'
  BY <1>0 DEF Numbered
<1>6. ~lapsed' => Extent'
  BY <1>0 DEF TypeOK, DiskType, StoreType, RecorderType, ThreadType,
     HistoryType, Control, Locking, Working, Extent, Acked, StoreLabels,
     BootLabels, MetaLabels, Active
<1>7. QED
  BY <1>1, <1>2, <1>3, <1>4, <1>5, <1>6 DEF LogInv

\* The invariant is kept by a failed start.
LEMMA RecoveryFailsStep ==
    ASSUME LogInv, RecoveryFails
    PROVE  LogInv'
<1> USE LogConstants DEF RecoveryFails, Goto, disk, store, recorder, history,
   bounds, Procs, ProcessEnds, Fault, TmpAfterFailure, RemoveDirectory
<1>0. TypeOK /\ Control /\ Locking /\ Working /\ (~lapsed => Numbered /\ Extent)
  BY DEF LogInv
<1>1. TypeOK'
  <2> USE <1>0 DEF TypeOK, DiskType, StoreType, RecorderType, ThreadType,
     HistoryType
  <2>1. DiskType'
    <3>1. dir' \in BOOLEAN
      OBVIOUS
    <3>2. file' \in Seq(Unit) /\ synced' \in Nat
      <4>1. <<>> \in Seq(Unit) /\ 0 \in Nat
        OBVIOUS
      <4>2. (file' = <<>> /\ synced' = 0) \/ UNCHANGED <<file, synced>>
        OBVIOUS
      <4>3. QED
        BY <4>1, <4>2
    <3>3. meta' \in Meta \union {NoMeta} /\ metaSync' \in Meta \union {NoMeta}
      OBVIOUS
    <3>4. tmp' \in Nat /\ partial' \in Nat
      BY DEF Control, Working, MetaLabels
    <3>5. QED
      BY <3>1, <3>2, <3>3, <3>4
  <2>2. StoreType'
    BY DEF Control, Locking, Working, StoreLabels, BootLabels, MetaLabels,
       Meta, Statuses, Kinds, TERMINAL_RECORDS, Active
  <2>3. RecorderType'
    BY DEF Control
  <2>4. ThreadType'
    BY DEF Control, Labels, Ops, Kinds
  <2>5. HistoryType'
    OBVIOUS
  <2>6. QED
    BY <2>1, <2>2, <2>3, <2>4, <2>5
<1>2. Control'
  BY <1>0 DEF TypeOK, DiskType, StoreType, RecorderType, ThreadType,
     HistoryType, Control, Locking, StoreLabels, BootLabels, MetaLabels
<1>3. Locking'
  BY <1>0 DEF TypeOK, DiskType, StoreType, RecorderType, ThreadType,
     HistoryType, Control, Locking, StoreLabels, BootLabels, MetaLabels
<1>4. Working'
  BY <1>0 DEF TypeOK, DiskType, StoreType, RecorderType, ThreadType,
     HistoryType, Control, Locking, Working, StoreLabels, BootLabels,
     MetaLabels, Meta, Statuses, Kinds, TERMINAL_RECORDS, Active
<1>5. ~lapsed' => Numbered'
  BY <1>0 DEF Numbered
<1>6. ~lapsed' => Extent'
  BY <1>0 DEF TypeOK, DiskType, StoreType, RecorderType, ThreadType,
     HistoryType, Control, Locking, Working, Extent, Acked, StoreLabels,
     BootLabels, MetaLabels, Active
<1>7. QED
  BY <1>1, <1>2, <1>3, <1>4, <1>5, <1>6 DEF LogInv

\* A store without the session satisfies the invariant.
LEMMA LogInvInit ==
    ASSUME Init
    PROVE  LogInv
<1> USE LogConstants DEF Init, Procs
<1>1. TypeOK
  <2>1. <<>> \in Seq(Unit) /\ <<>> \in Seq(Nat)
    OBVIOUS
  <2>2. file = <<>> /\ live = <<>>
    OBVIOUS
  <2>3. DiskType
    BY <2>1, <2>2 DEF DiskType
  <2>4. StoreType
    BY DEF StoreType
  <2>5. RecorderType
    BY <2>1, <2>2 DEF RecorderType
  <2>6. ThreadType
    BY DEF ThreadType, Labels, Ops, Kinds
  <2>7. HistoryType
    BY DEF HistoryType
  <2>8. QED
    BY <2>3, <2>4, <2>5, <2>6, <2>7 DEF TypeOK
<1>2. Control /\ Locking
  BY DEF Control, Locking, StoreLabels, BootLabels, MetaLabels
<1>3. Working
  BY DEF Working, Active, MetaLabels, BootLabels
<1>4. Numbered /\ Extent
  BY DEF Numbered, Extent, Acked, Active, MetaLabels
<1>5. QED
  BY <1>1, <1>2, <1>3, <1>4 DEF LogInv

\* A step that changes nothing keeps the invariant.
LEMMA LogInvStutter ==
    ASSUME LogInv, UNCHANGED vars
    PROVE  LogInv'
<1> USE DEF vars, disk, store, recorder, thread, history, bounds
<1>1. TypeOK' /\ Control' /\ Locking'
  BY DEF LogInv, TypeOK, DiskType, StoreType, RecorderType, ThreadType,
         HistoryType, Control, Locking
<1>2. Working' /\ (~lapsed' => Numbered' /\ Extent')
  BY DEF LogInv, Working, Active, Numbered, Extent, Acked
<1>3. QED
  BY <1>1, <1>2 DEF LogInv

\* Every step of every thread, of the start and of the recovery keeps the
\* invariant.
LEMMA LogInvNext ==
    ASSUME LogInv, [Next]_vars
    PROVE  LogInv'
<1>1. CASE Create \/ CreateFails \/ CreateUndone
  BY <1>1, CreateStep, CreateFailsStep, CreateUndoneStep
<1>2. CASE \E t \in Threads, k \in RecordKinds : Append1(t, k)
  BY <1>2, Append1Step
<1>3. ASSUME NEW t \in Threads, Report(t) \/ ThreadStep(t)
      PROVE  LogInv'
  BY <1>3, ReportStep, EnterAppendStep, WriteEvidenceStep, WriteFailsStep,
     SyncEvidenceStep, SyncFailsStep, CommitStep, FinishStep, MetaFailsStep,
     RetainStep, RetainFailsStep DEF ThreadStep
<1>4. ASSUME NEW p \in Procs, WriteMetadata(p)
      PROVE  LogInv'
  BY <1>4, MetaTempStep, MetaRenameStep, MetaFlushStep DEF WriteMetadata
<1>5. CASE Recovery
  BY <1>5, LoadInvalidStep, LoadStep, CopyTailStep, TruncateStep,
     ReconcileStep, RecoveryDoneStep, RecoveryFailsStep DEF Recovery
<1>6. CASE Crash
  BY <1>6, CrashStep
<1>7. CASE Closed \/ UNCHANGED vars
  BY <1>7, LogInvStutter DEF Closed
<1>8. QED
  BY <1>1, <1>2, <1>3, <1>4, <1>5, <1>6, <1>7 DEF Next

\* The recorder, the store and the files agree at every step of every thread,
\* for any number of threads, records, I/O errors and crashes.
THEOREM LogInvariant == Spec => []LogInv
<1>1. Init => LogInv
  BY LogInvInit
<1>2. LogInv /\ [Next]_vars => LogInv'
  BY LogInvNext
<1>3. QED
  BY <1>1, <1>2, PTL DEF Spec

\* No step of the recorder, the store or the recovery leaves its type.
THEOREM TypeCorrect == Spec => []TypeOK
<1>1. LogInv => TypeOK
  BY DEF LogInv
<1>2. QED
  BY <1>1, LogInvariant, PTL

\* The lines of evidence.jsonl are numbered 1, 2, 3, ... as SessionRecorder
\* handed the numbers out, and at most one of them is not acknowledged.
THEOREM EvidenceContiguous == Spec => []Contiguous
<1>1. LogInv => Contiguous
  <2> SUFFICES ASSUME LogInv, ~lapsed PROVE Numbered /\ Len(file) <= 2 * next
    BY DEF Contiguous
  <2>1. Numbered /\ Len(file) <= Acked + 2 /\ next \in Nat /\ Len(file) \in Nat
    BY DEF LogInv, Extent, TypeOK, RecorderType, DiskType
  <2>2. QED
    BY <2>1 DEF Acked
<1>2. QED
  BY <1>1, LogInvariant, PTL

\* A record that append() returned is a whole line of the flushed part of the
\* evidence, whatever fails or crashes afterwards, until retention evicts it.
THEOREM AckedRecordsDurable == Spec => []AckedDurable
<1>1. LogInv => AckedDurable
  <2> SUFFICES ASSUME LogInv, ~lapsed, dir, NEW s \in 1..(next - 1)
               PROVE  IntactIn(file, synced, s)
    BY DEF AckedDurable
  <2>1. /\ next \in Nat /\ synced \in Nat /\ Len(file) \in Nat
        /\ file \in Seq(Unit) /\ synced <= Len(file)
        /\ 2 * (next - 1) <= synced /\ Numbered
    BY DEF LogInv, Extent, Acked, TypeOK, RecorderType, DiskType
  <2>2. s \in Nat /\ s >= 1 /\ 2 * s <= synced
    BY <2>1
  <2>3. \A i \in 1..Len(file) : /\ file[i].seq \in Nat /\ file[i].part \in {1, 2}
                                /\ i = 2 * file[i].seq - 2 + file[i].part
    <3>1. \A i \in 1..Len(file) : file[i] \in Unit
      BY <2>1
    <3>2. QED
      BY <3>1, <2>1 DEF Unit, Numbered
  <2>4. file[2 * s].seq = s /\ file[2 * s].part = 2
    <3>1. 2 * s \in 1..Len(file)
      BY <2>1, <2>2
    <3>2. QED
      BY <2>2, <2>3, <3>1
  <2>5. file[2 * s - 1].seq = s /\ file[2 * s - 1].part = 1
    <3>1. 2 * s - 1 \in 1..Len(file)
      BY <2>1, <2>2
    <3>2. QED
      BY <2>2, <2>3, <3>1
  <2>6. s # 1 => file[2 * s - 2].part = 2
    <3> SUFFICES ASSUME s # 1 PROVE file[2 * s - 2].part = 2
      OBVIOUS
    <3>1. 2 * s - 2 \in 1..Len(file)
      BY <2>1, <2>2
    <3>2. PICK q \in Nat, p \in {1, 2} :
             /\ file[2 * s - 2].seq = q /\ file[2 * s - 2].part = p
             /\ 2 * s - 2 = 2 * q - 2 + p
      BY <2>3, <3>1
    <3>3. p = 2
      BY <2>2, <3>2
    <3>4. QED
      BY <3>2, <3>3
  <2>7. /\ 2 * s - 1 \in 1..synced /\ 2 * s - 1 < synced
        /\ (2 * s - 1) + 1 = 2 * s /\ (2 * s - 1) - 1 = 2 * s - 2
        /\ 2 * s - 1 # 1 => s # 1
    BY <2>1, <2>2
  <2>8. QED
    BY <2>4, <2>5, <2>6, <2>7 DEF IntactIn
<1>2. QED
  BY <1>1, LogInvariant, PTL

-----------------------------------------------------------------------------
(* The metadata, the counters and the live view.                           *)

\* Metadata that tells of a storage failure.
Noted(m) == m # NoMeta /\ m.failure /\ m.status # "active"

\* The directory is there as long as the store knows the session.
Kept ==
    /\ ~dir => file = <<>> /\ synced = 0 /\ meta = NoMeta /\ metaSync = NoMeta
    /\ mem # NoMeta => dir
    /\ pc[Main] = "serving" /\ mem = NoMeta => ~dir
    /\ pc[Main] = "start" => ~dir /\ ~raised /\ ~lapsed
    /\ pc[Main] \in MetaLabels /\ op[Main] = "create" => Active /\ ~raised /\ ~lapsed
    /\ pc[Main] \in BootLabels => mem = NoMeta /\ dir
    /\ pc[Main] \in {"down", "retain", "recovered"} \union BootLabels => synced = Len(file)
    /\ pc[Main] \in MetaLabels /\ op[Main] = "recover" => synced = Len(file) /\ dir

\* What a thread is about to store as the metadata.
Drafted ==
    /\ \A p \in Procs : pc[p] = "metasync" => meta = draft
    /\ \A t \in Threads :
          /\ pc[t] \in MetaLabels /\ op[t] = "append" => Active /\ draft = mem
          /\ pc[t] \in MetaLabels /\ op[t] # "append" =>
                /\ draft.records = mem.records /\ draft.bytes = mem.bytes
                /\ draft.status = IF mem.status # "active" THEN mem.status
                                  ELSE IF op[t] = "finish" THEN kind[t] ELSE "failed"
                /\ mem.failure \/ op[t] # "finish" => draft.failure

\* The stored metadata of a finished session.
Settled ==
    /\ \A t \in Threads : pc[t] = "retain" /\ op[t] = "fail" /\ mem # NoMeta => mem.failure
    /\ pc[Main] = "serving" /\ mem # NoMeta /\ ~Active =>
          /\ metaSync = mem
          /\ meta # NoMeta /\ meta.status # "active"
          /\ mem.failure => meta.failure

\* Once an append has raised, every copy of the metadata tells why.
FailureKept ==
    raised /\ ~lapsed /\ dir =>
        /\ Noted(meta) /\ Noted(metaSync)
        /\ mem # NoMeta => Noted(mem)
        /\ \A p \in Procs : pc[p] \in MetaLabels \union BootLabels => Noted(draft)

\* The counters of m are those of the first n units of the evidence f, unless a
\* record has been completed there since.
CountsIn(m, f, n) ==
    /\ m.bytes <= n
    /\ (\A i \in (m.bytes + 1)..n : f[i].part = 1) =>
          /\ m.records = ScanRecords(SubSeq(f, 1, m.bytes))
          /\ m.bytes # 0 => f[m.bytes].part = 2

\* So they are in every copy of the metadata.
Counted ==
    /\ mem # NoMeta => CountsIn(mem, file, synced)
    /\ meta # NoMeta => CountsIn(meta, file, synced)
    /\ metaSync # NoMeta => CountsIn(metaSync, file, synced)
    /\ \A p \in Procs : pc[p] \in MetaLabels \union BootLabels => CountsIn(draft, file, synced)

\* How the evidence ends.
Shaped ==
    /\ synced <= Len(file)
    /\ \A t \in Threads : pc[t] = "sync" =>
          /\ Len(file) >= synced + 2
          /\ file[Len(file)].part = 2 /\ file[Len(file) - 1].part = 1
    /\ pc[Main] \in {"copy", "truncate"} => Torn(file)
    /\ pc[Main] \in {"scan", "rescan"} => ~Torn(file)

\* What the recovery knows of the session it loads.
Recovered ==
    /\ pc[Main] = "scan" => draft = meta
    /\ pc[Main] \in MetaLabels /\ op[Main] = "recover" => draft = mem
    /\ pc[Main] \in {"retain", "recovered"} /\ mem # NoMeta => meta = mem
    /\ (pc[Main] \in {"retain", "recovered"}
          \/ (pc[Main] \in MetaLabels /\ op[Main] = "recover")) /\ mem # NoMeta =>
          /\ mem.status # "active" /\ ~Torn(file)
          /\ mem.records = ScanRecords(file) /\ mem.bytes = Len(file)

\* None of the first n units of f belongs to a terminal line.
PlainIn(f, n) == \A i \in 1..n : i <= Len(f) => f[i].kind \notin TERMINAL_RECORDS

\* m is not the metadata of a session that was completed or cancelled.
Unsealed(m) == m # NoMeta => m.status \notin {"completed", "cancelled"}

\* If m says that the session was completed or cancelled, so does the last line
\* of f, and all of f is durable.
SealedIn(m, f, n) ==
    m # NoMeta /\ m.status \in {"completed", "cancelled"} =>
        /\ n = Len(f) /\ f # <<>>
        /\ f[Len(f)] = End(f[Len(f)].seq, m.status)

\* The line that an append has written.
Writing ==
    \A t \in Threads :
        /\ ~lapsed /\ dir /\ op[t] \in {"append", "finish"}
               /\ pc[t] \in MetaLabels \union {"sync", "finish", "retain", "commit"} =>
              /\ file[Acked + 1].kind = kind[t]
              /\ file[Acked + 2] = End(next, kind[t])
        /\ pc[t] = "commit" /\ op[t] = "append" => kind[t] \notin TERMINAL_RECORDS
        /\ pc[t] = "commit" /\ op[t] = "finish" => ~Active

\* A session that is open has no terminal line and no sealed metadata but those
\* of the append that is under way.
Open ==
    ~lapsed /\ Active =>
        /\ pc[Main] = "serving" /\ recLock = None =>
              PlainIn(file, Len(file)) /\ Unsealed(meta) /\ Unsealed(metaSync)
        /\ \A t \in Threads : pc[t] # "idle" /\ op[t] = "append" =>
              PlainIn(file, Acked) /\ Unsealed(meta) /\ Unsealed(metaSync)
        /\ pc[Main] # "serving" => Unsealed(meta) /\ Unsealed(metaSync)

\* Whatever copy of the metadata a crash brings back, its seal is true.
Sealed ==
    ~lapsed =>
        /\ SealedIn(mem, file, synced)
        /\ SealedIn(meta, file, synced) /\ SealedIn(metaSync, file, synced)
        /\ \A p \in Procs : pc[p] \in MetaLabels \union BootLabels =>
              SealedIn(draft, file, synced)

\* Nothing follows the line that ends a session.
TerminalLast ==
    ~lapsed =>
        \A i \in 1..Len(file) : file[i].kind \in TERMINAL_RECORDS => i + 2 > Len(file)

\* The live view has every record that has been appended.
Mirrored ==
    pc[Main] \in {"start", "serving"} \/ (pc[Main] \in MetaLabels /\ op[Main] = "create") =>
        /\ Len(live) + dropped = next - 1
        /\ \A i \in 1..Len(live) : live[i] = dropped + i
\* The counters of the store are those of n records.
CountIs(n) == mem.records = n /\ mem.bytes = RecordBytes * n

\* SessionStore.append counts a record once it is durable, before the recorder
\* shows it.
Tallied ==
    /\ pc[Main] \in MetaLabels /\ op[Main] = "create" => CountIs(0)
    /\ ~lapsed /\ Active /\ pc[Main] = "serving" =>
        /\ recLock = None => CountIs(next - 1)
        /\ \A t \in Threads :
              /\ pc[t] \in {"begin", "write", "sync"} => CountIs(next - 1)
              /\ pc[t] \in MetaLabels \union {"commit"} /\ op[t] = "append" =>
                    CountIs(next)

\* What finish() makes of the metadata.
LEMMA FinishedIs ==
    ASSUME NEW m \in Meta, NEW t \in Threads
    PROVE  /\ Finished(m, t).records = m.records /\ Finished(m, t).bytes = m.bytes
           /\ Finished(m, t).status =
                 IF m.status # "active" THEN m.status
                 ELSE IF op[t] = "finish" THEN kind[t] ELSE "failed"
           /\ Finished(m, t).failure <=> m.failure \/ op[t] # "finish"
BY DEF Finished, Meta

\* An append that cannot write or flush its record goes on to fail().
LEMMA AppendFailsEffect ==
    ASSUME LogInv, NEW t \in Threads, WriteFails(t) \/ SyncFails(t)
    PROVE  /\ pc[t] \in {"write", "sync"} /\ op[t] = "append" /\ storeLock = t
           /\ pc' = [pc EXCEPT ![t] = "finish"] /\ op' = [op EXCEPT ![t] = "fail"]
           /\ \A p \in Procs : pc'[p] \notin StoreLabels \union BootLabels
           /\ \/ file' = file
              \/ pc[t] = "write" /\ file' = Append(file, Body(next, kind[t]))
           /\ dir' = dir /\ synced' = synced /\ meta' = meta /\ metaSync' = metaSync
           /\ mem' = mem /\ draft' = draft /\ kind' = kind /\ recLock' = recLock
           /\ next' = next /\ live' = live /\ dropped' = dropped
           /\ raised' = raised /\ lapsed' = lapsed
<1>1. /\ pc[t] \in {"write", "sync"} /\ op[t] = "append" /\ storeLock = t
      /\ RaiseOSError(t) /\ UNCHANGED <<dir, synced, meta, metaSync, mem, draft>>
      /\ \/ file' = file
         \/ pc[t] = "write" /\ file' = Append(file, Body(next, kind[t]))
  BY DEF WriteFails, SyncFails, disk, LogInv, Control, Locking, StoreLabels, Procs
<1>2. pc' = [pc EXCEPT ![t] = "finish"] /\ op' = [op EXCEPT ![t] = "fail"]
  BY <1>1 DEF RaiseOSError, Goto
<1>3. \A p \in Procs : pc'[p] \notin StoreLabels \union BootLabels
  BY <1>1, <1>2, LogConstants
  DEF LogInv, Locking, TypeOK, ThreadType, Procs, StoreLabels, MetaLabels, BootLabels
<1>. QED  BY <1>1, <1>2, <1>3 DEF RaiseOSError, history

\* A record that has been flushed is counted, and the thread goes on to the
\* metadata or back to SessionRecorder.append.
LEMMA SyncEffect ==
    ASSUME LogInv, NEW t \in Threads, SyncEvidence(t)
    PROVE  /\ pc[t] = "sync" /\ op[t] = "append" /\ storeLock = t /\ dir
           /\ mem # NoMeta /\ mem.status = "active" /\ mem \in Meta
           /\ mem' # NoMeta /\ mem'.status = "active" /\ mem' \in Meta
           /\ mem'.records = mem.records + 1 /\ mem'.bytes = mem.bytes + 2
           /\ mem'.failure = mem.failure
           /\ synced' = Len(file)
           /\ \/ pc' = [pc EXCEPT ![t] = "temp"] /\ op' = op /\ draft' = mem'
              \/ /\ pc' = [pc EXCEPT ![t] = "finish"] /\ kind[t] \in TERMINAL_RECORDS
                 /\ op' = [op EXCEPT ![t] = "finish"] /\ draft' = draft
              \/ /\ pc' = [pc EXCEPT ![t] = "commit"] /\ kind[t] \notin TERMINAL_RECORDS
                 /\ op' = op /\ draft' = draft
           /\ dir' = dir /\ file' = file /\ meta' = meta /\ metaSync' = metaSync
           /\ kind' = kind /\ recLock' = recLock
           /\ next' = next /\ live' = live /\ dropped' = dropped
           /\ raised' = raised /\ lapsed' = lapsed
<1>0. /\ pc[t] = "sync" /\ op[t] = "append" /\ storeLock = t /\ dir
      /\ mem # NoMeta /\ mem.status = "active" /\ mem \in Meta
  BY DEF SyncEvidence, LogInv, Control, Locking, Working, StoreLabels, Procs, Active,
         TypeOK, StoreType
<1>1. /\ mem' # NoMeta /\ mem'.status = "active" /\ mem' \in Meta
  BY <1>0, CountedMeta, LogConstants DEF SyncEvidence
<1>2. mem' = [mem EXCEPT !.records = mem.records + 1, !.bytes = mem.bytes + 2]
  BY DEF SyncEvidence, RecordBytes
<1>3. /\ mem'.records = mem.records + 1 /\ mem'.bytes = mem.bytes + 2
      /\ mem'.failure = mem.failure
  BY <1>0, <1>2 DEF Meta
<1>4. /\ synced' = Len(file)
      /\ \/ pc' = [pc EXCEPT ![t] = "temp"] /\ op' = op /\ draft' = mem'
         \/ AppendReturns(t) /\ draft' = draft
      /\ UNCHANGED <<dir, file, meta, metaSync, recorder, kind, history>>
  BY DEF SyncEvidence, Goto
<1>. QED  BY <1>0, <1>1, <1>3, <1>4 DEF AppendReturns, Goto, recorder, history

\* An error in store.append() or store.finish() leads to fail(), one in fail()
\* ends the append and is not noted, one in a runner's fail() is logged.
LEMMA RaiseEffect ==
    ASSUME NEW t \in Threads, RaiseOSError(t), ThreadType
    PROVE  /\ \A p \in Procs : p # t => pc'[p] = pc[p] /\ op'[p] = op[p]
           /\ pc'[t] \in {"idle", "finish"}
           /\ pc'[t] = "finish" => /\ op[t] \in {"append", "finish"} /\ op'[t] = "fail"
                                  /\ recLock' = recLock /\ UNCHANGED history
           /\ pc'[t] = "idle" /\ op[t] = "fail" => lapsed' /\ recLock' = None
           /\ pc'[t] = "idle" /\ op[t] # "fail" =>
                 op[t] = "report" /\ recLock' = recLock /\ UNCHANGED history
           /\ kind' = kind /\ next' = next /\ live' = live /\ dropped' = dropped
BY DEF RaiseOSError, Goto, ThreadType, Procs

\* finish() finds the session gone, has metadata to write, or has not.
LEMMA FinishEffect ==
    ASSUME LogInv, NEW t \in Threads, Finish(t)
    PROVE  /\ pc[t] = "finish" /\ op[t] \in {"finish", "fail", "report"}
           /\ storeLock = None /\ pc[Main] = "serving"
           /\ \A p \in Procs : p # t => pc'[p] = pc[p] /\ op'[p] = op[p]
           /\ \A p \in Procs : pc[p] \notin StoreLabels \union BootLabels
           /\ pc'[t] \in {"idle", "finish", "temp", "retain"}
           /\ pc'[t] \in {"idle", "finish"} => mem = NoMeta /\ draft' = draft
           /\ pc'[t] = "finish" => op'[t] = "fail"
           /\ pc'[t] # "idle" => recLock' = recLock /\ UNCHANGED history
           /\ pc'[t] = "idle" /\ op[t] = "fail" => lapsed' /\ recLock' = None
           /\ pc'[t] = "idle" /\ op[t] # "fail" => recLock' = recLock /\ UNCHANGED history
           /\ pc'[t] \in {"temp", "retain"} => mem # NoMeta /\ op'[t] = op[t]
           /\ pc'[t] = "temp" =>
                 /\ draft' # NoMeta /\ draft' \in Meta
                 /\ draft'.records = mem.records /\ draft'.bytes = mem.bytes
                 /\ draft'.status = IF mem.status # "active" THEN mem.status
                                    ELSE IF op[t] = "finish" THEN kind[t] ELSE "failed"
                 /\ draft'.status # "active"
                 /\ mem.failure \/ op[t] # "finish" => draft'.failure
           /\ pc'[t] = "retain" =>
                 /\ mem.status # "active" /\ draft' = draft
                 /\ op[t] # "finish" => mem.failure
           /\ dir' = dir /\ file' = file /\ synced' = synced /\ meta' = meta
           /\ metaSync' = metaSync /\ mem' = mem /\ kind' = kind
           /\ next' = next /\ live' = live /\ dropped' = dropped
<1>1. /\ pc[t] = "finish" /\ op[t] \in {"finish", "fail", "report"}
      /\ storeLock = None /\ pc[Main] = "serving"
      /\ op[t] = "finish" => kind[t] \in TERMINAL_RECORDS
      /\ mem \in Meta \union {NoMeta} /\ ThreadType
  BY DEF Finish, LogInv, Control, TypeOK, StoreType
<1>2. mem # NoMeta =>
         /\ Finished(mem, t) \in Meta /\ Finished(mem, t) # NoMeta
         /\ Finished(mem, t).records = mem.records /\ Finished(mem, t).bytes = mem.bytes
         /\ Finished(mem, t).status =
               IF mem.status # "active" THEN mem.status
               ELSE IF op[t] = "finish" THEN kind[t] ELSE "failed"
         /\ Finished(mem, t).status # "active"
         /\ Finished(mem, t).failure <=> mem.failure \/ op[t] # "finish"
  BY <1>1, FinishedIs, FinishedMeta, LogConstants
<1>6. \A p \in Procs : pc[p] \notin StoreLabels \union BootLabels
  BY <1>1, LogConstants DEF LogInv, Locking, Procs
<1>3. CASE mem = NoMeta
  <2>1. RaiseOSError(t) /\ UNCHANGED <<disk, mem, draft>>
    BY <1>3 DEF Finish
  <2>. QED  BY <1>1, <1>3, <1>6, <2>1, RaiseEffect DEF disk
<1>4. CASE mem # NoMeta /\ (Finished(mem, t) # mem \/ pending > 0)
  BY <1>1, <1>2, <1>4, <1>6 DEF Finish, Goto, disk, recorder, history, ThreadType, Procs
<1>5. CASE mem # NoMeta /\ ~(Finished(mem, t) # mem \/ pending > 0)
  BY <1>1, <1>2, <1>5, <1>6 DEF Finish, Goto, disk, recorder, history, ThreadType, Procs
<1>. QED  BY <1>3, <1>4, <1>5

\* A metadata write that fails.
LEMMA MetaFailsEffect ==
    ASSUME LogInv, NEW t \in Threads, MetaFails(t)
    PROVE  /\ pc[t] \in MetaLabels /\ storeLock = t /\ storeLock' = None
           /\ pc[Main] = "serving" /\ op[t] \in {"append", "finish", "fail", "report"}
           /\ \A p \in Procs : p # t => pc'[p] = pc[p] /\ op'[p] = op[p]
           /\ \A p \in Procs : pc'[p] \notin StoreLabels \union BootLabels
           /\ pc'[t] \in {"idle", "finish"}
           /\ pc'[t] = "finish" => /\ op[t] \in {"append", "finish"} /\ op'[t] = "fail"
                                  /\ recLock' = recLock /\ UNCHANGED history
           /\ pc'[t] = "idle" /\ op[t] = "fail" => lapsed' /\ recLock' = None
           /\ pc'[t] = "idle" /\ op[t] # "fail" =>
                 op[t] = "report" /\ recLock' = recLock /\ UNCHANGED history
           /\ dir' = dir /\ file' = file /\ synced' = synced /\ meta' = meta
           /\ metaSync' = metaSync /\ mem' = mem /\ kind' = kind /\ draft' = draft
           /\ next' = next /\ live' = live /\ dropped' = dropped
<1>1. /\ pc[t] \in MetaLabels /\ storeLock = t /\ storeLock' = None
      /\ pc[Main] = "serving" /\ op[t] \in {"append", "finish", "fail", "report"}
      /\ RaiseOSError(t) /\ ThreadType
      /\ UNCHANGED <<dir, file, synced, meta, metaSync, mem, draft>>
  BY LogConstants DEF MetaFails, LogInv, Control, Locking, StoreLabels, MetaLabels,
     TypeOK, Procs
<1>2. \A p \in Procs : p # t => pc[p] \notin StoreLabels \union BootLabels
  BY <1>1, LogConstants DEF LogInv, Locking, Procs
<1>3. /\ \A p \in Procs : p # t => pc'[p] = pc[p]
      /\ pc'[t] \in {"idle", "finish"}
  BY <1>1, RaiseEffect
<1>4. \A p \in Procs : pc'[p] \notin StoreLabels \union BootLabels
  BY <1>2, <1>3 DEF StoreLabels, MetaLabels, BootLabels
<1>. QED  BY <1>1, <1>4, RaiseEffect

\* What is left of the session by a pass of retention.
LEMMA RetainEffect ==
    ASSUME LogInv, NEW t \in Threads, Retain(t) \/ RetainFails(t)
    PROVE  /\ pc[t] = "retain" /\ op[t] \in {"finish", "fail", "report"}
           /\ storeLock = None /\ pc[Main] = "serving" /\ ~Active
           /\ \A p \in Procs : p # t => pc'[p] = pc[p] /\ op'[p] = op[p]
           /\ \A p \in Procs : pc'[p] \notin StoreLabels \union BootLabels
           /\ pc'[t] \in {"idle", "finish", "commit"}
           /\ pc'[t] = "finish" => op[t] = "finish" /\ op'[t] = "fail"
           /\ pc'[t] = "commit" => op[t] = "finish" /\ op'[t] = "finish"
           /\ pc'[t] # "idle" => recLock' = recLock /\ UNCHANGED history
           /\ pc'[t] = "idle" => op[t] \in {"fail", "report"}
           /\ pc'[t] = "idle" /\ op[t] = "fail" => recLock' = None /\ (lapsed => lapsed')
           /\ pc'[t] = "idle" /\ op[t] # "fail" => recLock' = recLock /\ UNCHANGED history
           /\ \/ /\ dir /\ ~dir' /\ file' = <<>> /\ synced' = 0
                 /\ meta' = NoMeta /\ metaSync' = NoMeta /\ mem' = NoMeta
              \/ UNCHANGED <<dir, file, synced, meta, metaSync, mem>>
           /\ kind' = kind /\ draft' = draft
           /\ next' = next /\ live' = live /\ dropped' = dropped
<1>1. /\ pc[t] = "retain" /\ op[t] \in {"finish", "fail", "report"}
      /\ storeLock = None /\ pc[Main] = "serving" /\ ~Active /\ draft' = draft
      /\ ThreadType /\ KeepOrEvict
      /\ FinishReturns(t) \/ RaiseOSError(t)
  BY DEF Retain, RetainFails, LogInv, Control, Working, Procs, TypeOK
<1>2. \/ /\ dir /\ ~dir' /\ file' = <<>> /\ synced' = 0
         /\ meta' = NoMeta /\ metaSync' = NoMeta /\ mem' = NoMeta
      \/ UNCHANGED <<dir, file, synced, meta, metaSync, mem>>
  BY <1>1 DEF KeepOrEvict, RemoveDirectory, disk
<1>5. \A p \in Procs : pc[p] \notin StoreLabels \union BootLabels
  BY <1>1, LogConstants DEF LogInv, Locking, Procs
<1>3. CASE RaiseOSError(t)
  BY <1>1, <1>2, <1>3, <1>5, RaiseEffect DEF StoreLabels, MetaLabels, BootLabels
<1>4. CASE FinishReturns(t)
  BY <1>1, <1>2, <1>4, <1>5
  DEF FinishReturns, Goto, history, ThreadType, Procs, StoreLabels, MetaLabels, BootLabels
<1>. QED  BY <1>1, <1>3, <1>4

\* The torn tail goes, and nothing else.
LEMMA TruncateEffect ==
    ASSUME LogInv, Truncate
    PROVE  /\ pc[Main] = "truncate" /\ pc' = [pc EXCEPT ![Main] = "rescan"]
           /\ LastRecordEnd(file) \in 0..Len(file)
           /\ \A i \in (LastRecordEnd(file) + 1)..Len(file) : file[i].part = 1
           /\ LastRecordEnd(file) # 0 => file[LastRecordEnd(file)].part = 2
           /\ file' = SubSeq(file, 1, LastRecordEnd(file)) /\ file' \in Seq(Unit)
           /\ Len(file') = LastRecordEnd(file) /\ synced' = LastRecordEnd(file)
           /\ \A i \in 1..LastRecordEnd(file) : file'[i] = file[i]
           /\ draft \in Meta /\ draft' # NoMeta
           /\ draft'.records = draft.records /\ draft'.bytes = draft.bytes
           /\ draft'.status = draft.status /\ draft'.failure = draft.failure
           /\ dir' = dir /\ meta' = meta /\ metaSync' = metaSync /\ mem' = mem
           /\ op' = op /\ kind' = kind /\ recLock' = recLock
           /\ next' = next /\ live' = live /\ dropped' = dropped
           /\ raised' = raised /\ lapsed' = lapsed
<1>1. /\ pc[Main] = "truncate" /\ pc' = [pc EXCEPT ![Main] = "rescan"]
      /\ file \in Seq(Unit) /\ draft \in Meta /\ partial \in Nat
      /\ file' = SubSeq(file, 1, LastRecordEnd(file)) /\ synced' = LastRecordEnd(file)
      /\ draft' = [draft EXCEPT !.recovered = partial]
      /\ UNCHANGED <<dir, meta, metaSync, mem, op, kind, recorder, history>>
  BY DEF Truncate, Goto, LogInv, Working, BootLabels, Procs, TypeOK, DiskType
<1>2. /\ LastRecordEnd(file) \in 0..Len(file)
      /\ \A i \in (LastRecordEnd(file) + 1)..Len(file) : file[i].part = 1
      /\ LastRecordEnd(file) # 0 => file[LastRecordEnd(file)].part = 2
  BY <1>1, LastRecordEndExists
<1>3. /\ Len(file') = LastRecordEnd(file) /\ file' \in Seq(Unit)
      /\ \A i \in 1..LastRecordEnd(file) : file'[i] = file[i]
  BY <1>1, <1>2
<1>4. draft' \in Meta /\ draft' # NoMeta
  BY <1>1, LogConstants DEF Meta
<1>5. /\ draft'.records = draft.records /\ draft'.bytes = draft.bytes
      /\ draft'.status = draft.status /\ draft'.failure = draft.failure
  BY <1>1 DEF Meta
<1>. QED  BY <1>1, <1>2, <1>3, <1>4, <1>5 DEF recorder, history

\* A loaded session gets counters and a status, and is written if they are new.
LEMMA ReconcileEffect ==
    ASSUME LogInv, Reconcile
    PROVE  /\ pc[Main] \in {"scan", "rescan"} /\ draft \in Meta
           /\ mem' \in Meta /\ mem' # NoMeta /\ draft' = mem'
           /\ mem'.status = IF draft.status = "active" THEN "interrupted" ELSE draft.status
           /\ mem'.failure = draft.failure
           /\ \/ mem'.records = ScanRecords(file) /\ mem'.bytes = Len(file)
              \/ /\ mem'.records = draft.records /\ mem'.bytes = draft.bytes
                 /\ draft.bytes = Len(file)
           /\ \/ pc' = [pc EXCEPT ![Main] = "temp"]
              \/ pc' = [pc EXCEPT ![Main] = "retain"] /\ pc[Main] = "scan" /\ mem' = draft
           /\ dir' = dir /\ file' = file /\ synced' = synced
           /\ meta' = meta /\ metaSync' = metaSync
           /\ op' = op /\ kind' = kind /\ recLock' = recLock
           /\ next' = next /\ live' = live /\ dropped' = dropped
           /\ raised' = raised /\ lapsed' = lapsed
<1>1. PICK r \in BOOLEAN : r = (pc[Main] = "rescan")
  OBVIOUS
<1>2. draft \in Meta /\ DiskType /\ pc[Main] \in {"scan", "rescan"}
  BY DEF Reconcile, LogInv, Working, BootLabels, TypeOK, Procs
<1>3. ScanRecords(file) \in Nat /\ Len(file) \in Nat
  BY <1>2, ScanRecordsType DEF DiskType
<1>4. Reconciled(draft, r) \in Meta /\ Reconciled(draft, r) # NoMeta
  BY <1>2, ReconciledMeta, LogConstants
<1>5. LET m == Reconciled(draft, r)
      IN  /\ m.status = IF draft.status = "active" THEN "interrupted" ELSE draft.status
          /\ m.failure = draft.failure
          /\ \/ m.records = ScanRecords(file) /\ m.bytes = Len(file)
             \/ m.records = draft.records /\ m.bytes = draft.bytes /\ draft.bytes = Len(file)
  BY <1>2, <1>3 DEF Reconciled, Meta
<1>6. /\ mem' = Reconciled(draft, r) /\ draft' = mem'
      /\ \/ pc' = [pc EXCEPT ![Main] = "temp"]
         \/ pc' = [pc EXCEPT ![Main] = "retain"] /\ pc[Main] = "scan" /\ mem' = draft
      /\ UNCHANGED <<dir, file, synced, meta, metaSync, op, kind, recorder, history>>
  BY <1>1, <1>2 DEF Reconcile, Goto, disk
<1>. QED  BY <1>2, <1>4, <1>5, <1>6 DEF recorder, history

\* What a crash, or an error of the recovery, leaves.
LEMMA DownEffect ==
    ASSUME LogInv, RecoveryFails \/ Crash
    PROVE  /\ pc' = [p \in Procs |-> IF p = Main THEN "down" ELSE "idle"]
           /\ \A p \in Procs : pc'[p] \notin StoreLabels \union BootLabels
           /\ op' = [p \in Procs |-> "none"] /\ kind' = [t \in Threads |-> "sample"]
           /\ mem' = NoMeta /\ recLock' = None /\ next' = next
           /\ raised' = raised /\ lapsed' = lapsed
           /\ \/ /\ Crash /\ dir' = dir
                 /\ synced' \in synced..Len(file) /\ file' = SubSeq(file, 1, synced')
                 /\ Len(file') = synced' /\ \A i \in 1..synced' : file'[i] = file[i]
                 /\ meta' \in {meta, metaSync} /\ metaSync' = meta'
              \/ /\ RecoveryFails /\ op[Main] = "recover"
                 /\ pc[Main] \in BootLabels \union MetaLabels \union {"retain"}
                 /\ UNCHANGED <<dir, file, synced, meta, metaSync>>
              \/ /\ RecoveryFails /\ pc[Main] = "retain" /\ dir /\ ~dir' /\ file' = <<>>
                 /\ synced' = 0 /\ meta' = NoMeta /\ metaSync' = NoMeta
<1>1. CASE Crash
  <2>1. /\ synced' \in synced..Len(file) /\ file' = SubSeq(file, 1, synced')
        /\ file \in Seq(Unit) /\ synced \in Nat
    BY <1>1 DEF Crash, LogInv, TypeOK, DiskType
  <2>2. PICK n \in 0..Len(file) : synced' = n
    BY <2>1
  <2>3. Len(file') = n /\ \A i \in 1..n : file'[i] = file[i]
    BY <2>1, <2>2
  <2>. QED
    BY <1>1, <2>1, <2>2, <2>3
    DEF Crash, ProcessEnds, history, StoreLabels, MetaLabels, BootLabels
<1>2. CASE RecoveryFails
  BY <1>2 DEF RecoveryFails, ProcessEnds, RemoveDirectory, history, StoreLabels,
              MetaLabels, BootLabels
<1>. QED  BY <1>1, <1>2


\* Counters depend on nothing else of the metadata.
LEMMA CountsOfEqual ==
    ASSUME NEW m, NEW k, NEW f, NEW n, CountsIn(m, f, n),
           k.records = m.records, k.bytes = m.bytes
    PROVE  CountsIn(k, f, n)
BY DEF CountsIn

\* They stay right while the evidence grows, and where it is cut off behind
\* what was durable.
LEMMA CountsExtend ==
    ASSUME NEW m \in Meta, NEW f \in Seq(Unit), NEW g \in Seq(Unit),
           NEW n \in Nat, NEW k \in Nat, n <= k, n <= Len(f), k <= Len(g),
           \A i \in 1..n : g[i] = f[i], CountsIn(m, f, n)
    PROVE  CountsIn(m, g, k)
<1>1. m.bytes \in Nat /\ m.bytes <= n
  BY DEF CountsIn, Meta
<1>2. SubSeq(g, 1, m.bytes) = SubSeq(f, 1, m.bytes)
  BY <1>1
<1>. SUFFICES ASSUME \A i \in (m.bytes + 1)..k : g[i].part = 1
              PROVE  /\ m.records = ScanRecords(SubSeq(g, 1, m.bytes))
                     /\ m.bytes # 0 => g[m.bytes].part = 2
  BY <1>1 DEF CountsIn
<1>3. \A i \in (m.bytes + 1)..n : f[i].part = 1
  BY <1>1
<1>4. /\ m.records = ScanRecords(SubSeq(f, 1, m.bytes))
      /\ m.bytes # 0 => f[m.bytes].part = 2
  BY <1>3 DEF CountsIn
<1>5. m.bytes # 0 => g[m.bytes] = f[m.bytes]
  BY <1>1
<1>. QED  BY <1>2, <1>4, <1>5

\* Cutting off the torn tail does not touch what has been counted.
LEMMA CountsTruncate ==
    ASSUME NEW m \in Meta, NEW f \in Seq(Unit), NEW g \in Seq(Unit), NEW e \in 0..Len(f),
           \A i \in (e + 1)..Len(f) : f[i].part = 1,
           e = Len(g), \A i \in 1..e : g[i] = f[i], CountsIn(m, f, Len(f))
    PROVE  CountsIn(m, g, e)
<1>1. m.bytes \in Nat /\ m.bytes <= Len(f)
  BY DEF CountsIn, Meta
<1>2. m.bytes <= e
  <2>. SUFFICES ASSUME m.bytes > e PROVE FALSE
    BY <1>1
  <2>1. \A i \in (m.bytes + 1)..Len(f) : f[i].part = 1
    BY <1>1
  <2>2. f[m.bytes].part = 2
    BY <1>1, <2>1 DEF CountsIn
  <2>3. f[m.bytes].part = 1
    BY <1>1
  <2>. QED  BY <2>2, <2>3
<1>3. SubSeq(g, 1, m.bytes) = SubSeq(f, 1, m.bytes)
  BY <1>1, <1>2
<1>. SUFFICES ASSUME \A i \in (m.bytes + 1)..e : g[i].part = 1
              PROVE  /\ m.records = ScanRecords(SubSeq(g, 1, m.bytes))
                     /\ m.bytes # 0 => g[m.bytes].part = 2
  BY <1>2 DEF CountsIn
<1>4. \A i \in (m.bytes + 1)..Len(f) : f[i].part = 1
  <2>. TAKE i \in (m.bytes + 1)..Len(f)
  <2>1. CASE i <= e
    BY <1>1, <2>1
  <2>2. CASE i > e
    BY <1>1, <2>2
  <2>. QED  BY <1>1, <2>1, <2>2
<1>5. /\ m.records = ScanRecords(SubSeq(f, 1, m.bytes))
      /\ m.bytes # 0 => f[m.bytes].part = 2
  BY <1>4 DEF CountsIn
<1>6. m.bytes # 0 => g[m.bytes] = f[m.bytes]
  BY <1>1, <1>2
<1>. QED  BY <1>3, <1>5, <1>6

\* An empty evidence file has no complete record to scan.
LEMMA ScanEmpty == ScanRecords(<<>>) = 0
<1>1. {i \in 1..Len(<<>>) : <<>>[i].part = 2} = {}
  OBVIOUS
<1>. QED  BY <1>1, FS_EmptySet DEF ScanRecords

\* One more record at the end of the evidence is one more to scan.
LEMMA ScanOneMore ==
    ASSUME NEW f \in Seq(Unit), Len(f) >= 2, f[Len(f)].part = 2, f[Len(f) - 1].part = 1
    PROVE  ScanRecords(f) = ScanRecords(SubSeq(f, 1, Len(f) - 2)) + 1
<1>. DEFINE n == Len(f) - 2
            g == SubSeq(f, 1, n)
            A == {i \in 1..Len(g) : g[i].part = 2}
            B == {i \in 1..Len(f) : f[i].part = 2}
<1>0. n \in Nat /\ n <= Len(f) /\ Len(f) = n + 2
  OBVIOUS
<1>1. n \in Nat /\ Len(f) = n + 2 /\ Len(g) = n /\ \A i \in 1..n : g[i] = f[i]
  <2>. HIDE DEF n
  <2>. QED  BY <1>0
<1>2. f[n + 2].part = 2 /\ f[n + 1].part = 1
  BY <1>1
<1>. HIDE DEF n, g
<1>3. B = A \union {n + 2}
  <2>1. \A i \in 1..(n + 2) : i \in 1..n \/ i = n + 1 \/ i = n + 2
    BY <1>1
  <2>. QED  BY <1>1, <1>2, <2>1
<1>4. n + 2 \notin A
  BY <1>1
<1>5. IsFiniteSet(A)
  <2>1. IsFiniteSet(1..Len(g)) /\ A \in SUBSET (1..Len(g))
    BY <1>1, FS_Interval
  <2>. HIDE DEF A
  <2>. QED  BY <2>1, FS_Subset
<1>6. Cardinality(A \union {n + 2}) = Cardinality(A) + 1
  <2>. HIDE DEF A
  <2>. QED  BY <1>4, <1>5, FS_AddElement
<1>. QED  BY <1>3, <1>6 DEF ScanRecords, n, g

\* Counting the record that has just been flushed keeps the counters right.
LEMMA CountsSync ==
    ASSUME NEW m \in Meta, NEW k \in Meta, NEW f \in Seq(Unit), NEW n \in Nat,
           CountsIn(m, f, n), Len(f) >= n + 2,
           f[Len(f)].part = 2, f[Len(f) - 1].part = 1,
           k.records = m.records + 1, k.bytes = m.bytes + 2
    PROVE  CountsIn(k, f, Len(f))
<1>1. m.bytes \in Nat /\ m.bytes <= n /\ Len(f) \in Nat
  BY DEF CountsIn, Meta
<1>2. k.bytes <= Len(f)
  BY <1>1
<1>. SUFFICES ASSUME \A i \in (k.bytes + 1)..Len(f) : f[i].part = 1
              PROVE  /\ k.records = ScanRecords(SubSeq(f, 1, k.bytes))
                     /\ k.bytes # 0 => f[k.bytes].part = 2
  BY <1>2 DEF CountsIn
<1>3. k.bytes = Len(f)
  BY <1>1, <1>2
<1>4. m.bytes = n /\ n = Len(f) - 2
  BY <1>1, <1>3
<1>5. m.records = ScanRecords(SubSeq(f, 1, Len(f) - 2))
  BY <1>1, <1>4 DEF CountsIn
<1>6. SubSeq(f, 1, Len(f)) = f
  OBVIOUS
<1>7. ScanRecords(f) = ScanRecords(SubSeq(f, 1, Len(f) - 2)) + 1
  BY <1>1, ScanOneMore
<1>. QED  BY <1>3, <1>5, <1>6, <1>7

\* Counting the whole file makes them right; right counters that speak of the
\* whole file are its count.
LEMMA CountsWhole ==
    ASSUME NEW m \in Meta, NEW f \in Seq(Unit), ~Torn(f), m.bytes = Len(f)
    PROVE  CountsIn(m, f, Len(f)) <=> m.records = ScanRecords(f)
<1>1. SubSeq(f, 1, Len(f)) = f /\ Len(f) \in Nat
  OBVIOUS
<1>2. m.bytes # 0 => f[m.bytes].part = 2
  <2>. SUFFICES ASSUME Len(f) # 0 PROVE f[Len(f)].part = 2
    OBVIOUS
  <2>1. f # <<>> /\ f[Len(f)] \in Unit
    OBVIOUS
  <2>. QED  BY <2>1 DEF Torn, Unit
<1>3. \A i \in (m.bytes + 1)..Len(f) : f[i].part = 1
  BY <1>1
<1>4. SubSeq(f, 1, m.bytes) = f /\ m.bytes <= Len(f)
  BY <1>1
<1>. QED  BY <1>2, <1>3, <1>4 DEF CountsIn

\* Every step of the recorder, the store and the recovery keeps the directory
\* for as long as the store knows the session.
LEMMA KeptKept ==
    ASSUME LogInv, Kept, [Next]_vars
    PROVE  Kept'
<1>. USE LogConstants DEF disk, store, recorder, history, bounds, Procs, Goto
<1>0. TypeOK /\ Control /\ Locking /\ Working /\ (~lapsed => Numbered /\ Extent)
  BY DEF LogInv
<1>1. CASE Create
  <2>1. NewMeta \in Meta
    BY DEF NewMeta, Meta, Statuses
  <2>2. mem' # NoMeta /\ mem'.status = "active"
    BY <1>1, <2>1, LogConstants DEF Create, NewMeta
  <2>. QED
    BY <1>0, <1>1, <2>2 DEF Kept, Create,
         Control, Locking, Working, Active, StoreLabels, BootLabels, MetaLabels,
         TypeOK, DiskType, StoreType, RecorderType, ThreadType, HistoryType
<1>2. CASE CreateFails
  BY <1>0, <1>2 DEF Kept,
         CreateFails, Fault,
         Control, Locking, Working, Active, StoreLabels, BootLabels, MetaLabels,
         TypeOK, DiskType, StoreType, RecorderType, ThreadType, HistoryType
<1>3. CASE CreateUndone
  BY <1>0, <1>3 DEF Kept,
         CreateUndone, Fault, TmpAfterFailure,
         Control, Locking, Working, Active, StoreLabels, BootLabels, MetaLabels,
         TypeOK, DiskType, StoreType, RecorderType, ThreadType, HistoryType
<1>4. ASSUME NEW t \in Threads, NEW k \in RecordKinds, Append1(t, k)
      PROVE  Kept'
  BY <1>0, <1>4 DEF Kept,
         Append1,
         Control, Locking, Working, Active, StoreLabels, BootLabels, MetaLabels,
         TypeOK, DiskType, StoreType, RecorderType, ThreadType, HistoryType
<1>5. ASSUME NEW t \in Threads, Report(t)
      PROVE  Kept'
  BY <1>0, <1>5 DEF Kept,
         Report,
         Control, Locking, Working, Active, StoreLabels, BootLabels, MetaLabels,
         TypeOK, DiskType, StoreType, RecorderType, ThreadType, HistoryType
<1>6. ASSUME NEW t \in Threads, EnterAppend(t)
      PROVE  Kept'
  BY <1>0, <1>6 DEF Kept,
         EnterAppend, RaiseOSError,
         Control, Locking, Working, Active, StoreLabels, BootLabels, MetaLabels,
         TypeOK, DiskType, StoreType, RecorderType, ThreadType, HistoryType
<1>7. ASSUME NEW t \in Threads, WriteEvidence(t)
      PROVE  Kept'
  BY <1>0, <1>7 DEF Kept,
         WriteEvidence, Body, End,
         Control, Locking, Working, Active, StoreLabels, BootLabels, MetaLabels,
         TypeOK, DiskType, StoreType, RecorderType, ThreadType, HistoryType
<1>8. ASSUME NEW t \in Threads, WriteFails(t)
      PROVE  Kept'
  BY <1>0, <1>8, AppendFailsEffect DEF Kept,
         Control, Locking, Working, Active, StoreLabels, BootLabels, MetaLabels,
         TypeOK, DiskType, StoreType, RecorderType, ThreadType, HistoryType
<1>9. ASSUME NEW t \in Threads, SyncEvidence(t)
      PROVE  Kept'
  BY <1>0, <1>9, SyncEffect DEF Kept,
         Control, Locking, Working, Active, StoreLabels, BootLabels, MetaLabels,
         TypeOK, DiskType, StoreType, RecorderType, ThreadType, HistoryType
<1>10. ASSUME NEW t \in Threads, SyncFails(t)
      PROVE  Kept'
  BY <1>0, <1>10, AppendFailsEffect DEF Kept,
         Control, Locking, Working, Active, StoreLabels, BootLabels, MetaLabels,
         TypeOK, DiskType, StoreType, RecorderType, ThreadType, HistoryType
<1>11. ASSUME NEW t \in Threads, Commit(t)
      PROVE  Kept'
  BY <1>0, <1>11 DEF Kept,
         Commit,
         Control, Locking, Working, Active, StoreLabels, BootLabels, MetaLabels,
         TypeOK, DiskType, StoreType, RecorderType, ThreadType, HistoryType
<1>12. ASSUME NEW t \in Threads, Finish(t)
      PROVE  Kept'
  BY <1>0, <1>12, FinishEffect DEF Kept,
         history,
         Control, Locking, Working, Active, StoreLabels, BootLabels, MetaLabels,
         TypeOK, DiskType, StoreType, RecorderType, ThreadType, HistoryType
<1>13. ASSUME NEW t \in Threads, MetaFails(t)
      PROVE  Kept'
  BY <1>0, <1>13, MetaFailsEffect DEF Kept,
         history,
         Control, Locking, Working, Active, StoreLabels, BootLabels, MetaLabels,
         TypeOK, DiskType, StoreType, RecorderType, ThreadType, HistoryType
<1>14. ASSUME NEW t \in Threads, Retain(t)
      PROVE  Kept'
  BY <1>0, <1>14, RetainEffect DEF Kept,
         history,
         Control, Locking, Working, Active, StoreLabels, BootLabels, MetaLabels,
         TypeOK, DiskType, StoreType, RecorderType, ThreadType, HistoryType
<1>15. ASSUME NEW t \in Threads, RetainFails(t)
      PROVE  Kept'
  BY <1>0, <1>15, RetainEffect DEF Kept,
         history,
         Control, Locking, Working, Active, StoreLabels, BootLabels, MetaLabels,
         TypeOK, DiskType, StoreType, RecorderType, ThreadType, HistoryType
<1>16. ASSUME NEW p \in Procs, MetaTemp(p)
      PROVE  Kept'
  BY <1>0, <1>16 DEF Kept,
         MetaTemp,
         Control, Locking, Working, Active, StoreLabels, BootLabels, MetaLabels,
         TypeOK, DiskType, StoreType, RecorderType, ThreadType, HistoryType
<1>17. ASSUME NEW p \in Procs, MetaRename(p)
      PROVE  Kept'
  <2>1. /\ pc[p] = "rename" /\ meta' = draft /\ pc' = [pc EXCEPT ![p] = "metasync"]
        /\ UNCHANGED <<dir, file, synced, mem, metaSync, op, raised, lapsed>>
    BY <1>17 DEF MetaRename
  <2>2. dir
    BY <1>0, <2>1 DEF Kept, Working, Control, Active, MetaLabels
  <2>. QED
    BY <1>0, <2>1, <2>2 DEF Kept, Active, MetaLabels, BootLabels, TypeOK, ThreadType
<1>18. ASSUME NEW p \in Procs, MetaFlush(p)
      PROVE  Kept'
  BY <1>0, <1>18 DEF Kept,
         MetaFlush, AppendReturns,
         Control, Locking, Working, Active, StoreLabels, BootLabels, MetaLabels,
         TypeOK, DiskType, StoreType, RecorderType, ThreadType, HistoryType
<1>19. CASE LoadInvalid
  BY <1>0, <1>19 DEF Kept,
         LoadInvalid, Fault,
         Control, Locking, Working, Active, StoreLabels, BootLabels, MetaLabels,
         TypeOK, DiskType, StoreType, RecorderType, ThreadType, HistoryType
<1>20. CASE Load
  BY <1>0, <1>20 DEF Kept,
         Load, Torn,
         Control, Locking, Working, Active, StoreLabels, BootLabels, MetaLabels,
         TypeOK, DiskType, StoreType, RecorderType, ThreadType, HistoryType
<1>21. CASE CopyTail
  BY <1>0, <1>21 DEF Kept,
         CopyTail,
         Control, Locking, Working, Active, StoreLabels, BootLabels, MetaLabels,
         TypeOK, DiskType, StoreType, RecorderType, ThreadType, HistoryType
<1>22. CASE Truncate
  BY <1>0, <1>22, TruncateEffect DEF Kept,
         Control, Locking, Working, Active, StoreLabels, BootLabels, MetaLabels,
         TypeOK, DiskType, StoreType, RecorderType, ThreadType, HistoryType
<1>23. CASE Reconcile
  BY <1>0, <1>23, ReconcileEffect DEF Kept,
         Control, Locking, Working, Active, StoreLabels, BootLabels, MetaLabels,
         TypeOK, DiskType, StoreType, RecorderType, ThreadType, HistoryType
<1>24. CASE RecoveryDone
  BY <1>0, <1>24 DEF Kept,
         RecoveryDone, KeepOrEvict, RemoveDirectory,
         Control, Locking, Working, Active, StoreLabels, BootLabels, MetaLabels,
         TypeOK, DiskType, StoreType, RecorderType, ThreadType, HistoryType
<1>25. CASE RecoveryFails
  BY <1>0, <1>25, DownEffect DEF Kept,
         Control, Locking, Working, Active, StoreLabels, BootLabels, MetaLabels,
         TypeOK, DiskType, StoreType, RecorderType, ThreadType, HistoryType
<1>26. CASE Crash
  BY <1>0, <1>26, DownEffect DEF Kept,
         Control, Locking, Working, Active, StoreLabels, BootLabels, MetaLabels,
         TypeOK, DiskType, StoreType, RecorderType, ThreadType, HistoryType
<1>27. CASE Closed \/ UNCHANGED vars
  BY <1>0, <1>27 DEF Kept,
         Closed, vars, thread,
         Control, Locking, Working, Active, StoreLabels, BootLabels, MetaLabels,
         TypeOK, DiskType, StoreType, RecorderType, ThreadType, HistoryType
<1>. QED
  BY <1>1, <1>2, <1>3, <1>4, <1>5, <1>6, <1>7, <1>8, <1>9, <1>10, <1>11, <1>12, <1>13, <1>14, <1>15, <1>16, <1>17, <1>18, <1>19, <1>20, <1>21, <1>22, <1>23, <1>24, <1>25, <1>26, <1>27
  DEF Next, ThreadStep, WriteMetadata, Recovery

\* Every step keeps to the metadata that finish() or a checkpoint has drawn up
\* under the store lock until _write_metadata_locked has stored it.
LEMMA DraftedKept ==
    ASSUME LogInv, Kept, Drafted, [Next]_vars
    PROVE  Drafted'
<1>. USE LogConstants DEF disk, store, recorder, history, bounds, Procs, Goto
<1>0. TypeOK /\ Control /\ Locking /\ Working /\ (~lapsed => Numbered /\ Extent)
  BY DEF LogInv
<1>1. CASE Create
  BY <1>0, <1>1 DEF Drafted,
         Create, NewMeta,
         Control, Locking, Working, Active, StoreLabels, BootLabels, MetaLabels,
         TypeOK, DiskType, StoreType, RecorderType, ThreadType, HistoryType
<1>2. CASE CreateFails
  BY <1>0, <1>2 DEF Drafted,
         CreateFails, Fault,
         Control, Locking, Working, Active, StoreLabels, BootLabels, MetaLabels,
         TypeOK, DiskType, StoreType, RecorderType, ThreadType, HistoryType
<1>3. CASE CreateUndone
  BY <1>0, <1>3 DEF Drafted,
         CreateUndone, Fault, TmpAfterFailure,
         Control, Locking, Working, Active, StoreLabels, BootLabels, MetaLabels,
         TypeOK, DiskType, StoreType, RecorderType, ThreadType, HistoryType
<1>4. ASSUME NEW t \in Threads, NEW k \in RecordKinds, Append1(t, k)
      PROVE  Drafted'
  BY <1>0, <1>4 DEF Drafted,
         Append1,
         Control, Locking, Working, Active, StoreLabels, BootLabels, MetaLabels,
         TypeOK, DiskType, StoreType, RecorderType, ThreadType, HistoryType
<1>5. ASSUME NEW t \in Threads, Report(t)
      PROVE  Drafted'
  BY <1>0, <1>5 DEF Drafted,
         Report,
         Control, Locking, Working, Active, StoreLabels, BootLabels, MetaLabels,
         TypeOK, DiskType, StoreType, RecorderType, ThreadType, HistoryType
<1>6. ASSUME NEW t \in Threads, EnterAppend(t)
      PROVE  Drafted'
  BY <1>0, <1>6 DEF Drafted,
         EnterAppend, RaiseOSError,
         Control, Locking, Working, Active, StoreLabels, BootLabels, MetaLabels,
         TypeOK, DiskType, StoreType, RecorderType, ThreadType, HistoryType
<1>7. ASSUME NEW t \in Threads, WriteEvidence(t)
      PROVE  Drafted'
  BY <1>0, <1>7 DEF Drafted,
         WriteEvidence, Body, End,
         Control, Locking, Working, Active, StoreLabels, BootLabels, MetaLabels,
         TypeOK, DiskType, StoreType, RecorderType, ThreadType, HistoryType
<1>8. ASSUME NEW t \in Threads, WriteFails(t)
      PROVE  Drafted'
  BY <1>0, <1>8, AppendFailsEffect DEF Drafted,
         Control, Locking, Working, Active, StoreLabels, BootLabels, MetaLabels,
         TypeOK, DiskType, StoreType, RecorderType, ThreadType, HistoryType
<1>9. ASSUME NEW t \in Threads, SyncEvidence(t)
      PROVE  Drafted'
  BY <1>0, <1>9, SyncEffect DEF Drafted,
         Control, Locking, Working, Active, StoreLabels, BootLabels, MetaLabels,
         TypeOK, DiskType, StoreType, RecorderType, ThreadType, HistoryType
<1>10. ASSUME NEW t \in Threads, SyncFails(t)
      PROVE  Drafted'
  BY <1>0, <1>10, AppendFailsEffect DEF Drafted,
         Control, Locking, Working, Active, StoreLabels, BootLabels, MetaLabels,
         TypeOK, DiskType, StoreType, RecorderType, ThreadType, HistoryType
<1>11. ASSUME NEW t \in Threads, Commit(t)
      PROVE  Drafted'
  BY <1>0, <1>11 DEF Drafted,
         Commit,
         Control, Locking, Working, Active, StoreLabels, BootLabels, MetaLabels,
         TypeOK, DiskType, StoreType, RecorderType, ThreadType, HistoryType
<1>12. ASSUME NEW t \in Threads, Finish(t)
      PROVE  Drafted'
  <2>1. \A p \in Procs : pc'[p] \in MetaLabels => p = t /\ pc'[t] = "temp"
    BY <1>12, FinishEffect DEF StoreLabels, MetaLabels, BootLabels
  <2>. QED
    BY <1>12, FinishEffect, <2>1 DEF Drafted, MetaLabels
<1>13. ASSUME NEW t \in Threads, MetaFails(t)
      PROVE  Drafted'
  BY <1>0, <1>13, MetaFailsEffect DEF Drafted,
         history,
         Control, Locking, Working, Active, StoreLabels, BootLabels, MetaLabels,
         TypeOK, DiskType, StoreType, RecorderType, ThreadType, HistoryType
<1>14. ASSUME NEW t \in Threads, Retain(t)
      PROVE  Drafted'
  BY <1>0, <1>14, RetainEffect DEF Drafted,
         history,
         Control, Locking, Working, Active, StoreLabels, BootLabels, MetaLabels,
         TypeOK, DiskType, StoreType, RecorderType, ThreadType, HistoryType
<1>15. ASSUME NEW t \in Threads, RetainFails(t)
      PROVE  Drafted'
  BY <1>0, <1>15, RetainEffect DEF Drafted,
         history,
         Control, Locking, Working, Active, StoreLabels, BootLabels, MetaLabels,
         TypeOK, DiskType, StoreType, RecorderType, ThreadType, HistoryType
<1>16. ASSUME NEW p \in Procs, MetaTemp(p)
      PROVE  Drafted'
  BY <1>0, <1>16 DEF Drafted,
         MetaTemp,
         Control, Locking, Working, Active, StoreLabels, BootLabels, MetaLabels,
         TypeOK, DiskType, StoreType, RecorderType, ThreadType, HistoryType
<1>17. ASSUME NEW p \in Procs, MetaRename(p)
      PROVE  Drafted'
  BY <1>0, <1>17 DEF Drafted,
         MetaRename,
         Control, Locking, Working, Active, StoreLabels, BootLabels, MetaLabels,
         TypeOK, DiskType, StoreType, RecorderType, ThreadType, HistoryType
<1>18. ASSUME NEW p \in Procs, MetaFlush(p)
      PROVE  Drafted'
  BY <1>0, <1>18 DEF Drafted,
         MetaFlush, AppendReturns,
         Control, Locking, Working, Active, StoreLabels, BootLabels, MetaLabels,
         TypeOK, DiskType, StoreType, RecorderType, ThreadType, HistoryType
<1>19. CASE LoadInvalid
  BY <1>0, <1>19 DEF Drafted,
         LoadInvalid, Fault,
         Control, Locking, Working, Active, StoreLabels, BootLabels, MetaLabels,
         TypeOK, DiskType, StoreType, RecorderType, ThreadType, HistoryType
<1>20. CASE Load
  BY <1>0, <1>20 DEF Drafted,
         Load, Torn,
         Control, Locking, Working, Active, StoreLabels, BootLabels, MetaLabels,
         TypeOK, DiskType, StoreType, RecorderType, ThreadType, HistoryType
<1>21. CASE CopyTail
  BY <1>0, <1>21 DEF Drafted,
         CopyTail,
         Control, Locking, Working, Active, StoreLabels, BootLabels, MetaLabels,
         TypeOK, DiskType, StoreType, RecorderType, ThreadType, HistoryType
<1>22. CASE Truncate
  BY <1>0, <1>22, TruncateEffect DEF Drafted,
         Control, Locking, Working, Active, StoreLabels, BootLabels, MetaLabels,
         TypeOK, DiskType, StoreType, RecorderType, ThreadType, HistoryType
<1>23. CASE Reconcile
  BY <1>0, <1>23, ReconcileEffect DEF Drafted,
         Control, Locking, Working, Active, StoreLabels, BootLabels, MetaLabels,
         TypeOK, DiskType, StoreType, RecorderType, ThreadType, HistoryType
<1>24. CASE RecoveryDone
  BY <1>0, <1>24 DEF Drafted,
         RecoveryDone, KeepOrEvict, RemoveDirectory,
         Control, Locking, Working, Active, StoreLabels, BootLabels, MetaLabels,
         TypeOK, DiskType, StoreType, RecorderType, ThreadType, HistoryType
<1>25. CASE RecoveryFails
  BY <1>0, <1>25, DownEffect DEF Drafted,
         Control, Locking, Working, Active, StoreLabels, BootLabels, MetaLabels,
         TypeOK, DiskType, StoreType, RecorderType, ThreadType, HistoryType
<1>26. CASE Crash
  BY <1>0, <1>26, DownEffect DEF Drafted,
         Control, Locking, Working, Active, StoreLabels, BootLabels, MetaLabels,
         TypeOK, DiskType, StoreType, RecorderType, ThreadType, HistoryType
<1>27. CASE Closed \/ UNCHANGED vars
  BY <1>0, <1>27 DEF Drafted,
         Closed, vars, thread,
         Control, Locking, Working, Active, StoreLabels, BootLabels, MetaLabels,
         TypeOK, DiskType, StoreType, RecorderType, ThreadType, HistoryType
<1>. QED
  BY <1>1, <1>2, <1>3, <1>4, <1>5, <1>6, <1>7, <1>8, <1>9, <1>10, <1>11, <1>12, <1>13, <1>14, <1>15, <1>16, <1>17, <1>18, <1>19, <1>20, <1>21, <1>22, <1>23, <1>24, <1>25, <1>26, <1>27
  DEF Next, ThreadStep, WriteMetadata, Recovery

\* Every step after finish() keeps what the store has written of a finished
\* session the same as what it holds in _metadata.
LEMMA SettledKept ==
    ASSUME LogInv, Kept, Drafted, Settled, [Next]_vars
    PROVE  Settled'
<1>. USE LogConstants DEF disk, store, recorder, history, bounds, Procs, Goto
<1>0. TypeOK /\ Control /\ Locking /\ Working /\ (~lapsed => Numbered /\ Extent)
  BY DEF LogInv
<1>1. CASE Create
  BY <1>0, <1>1 DEF Settled, Drafted, Kept,
         Create, NewMeta,
         Control, Locking, Working, Active, StoreLabels, BootLabels, MetaLabels,
         TypeOK, DiskType, StoreType, RecorderType, ThreadType, HistoryType
<1>2. CASE CreateFails
  BY <1>0, <1>2 DEF Settled, Drafted, Kept,
         CreateFails, Fault,
         Control, Locking, Working, Active, StoreLabels, BootLabels, MetaLabels,
         TypeOK, DiskType, StoreType, RecorderType, ThreadType, HistoryType
<1>3. CASE CreateUndone
  BY <1>0, <1>3 DEF Settled, Drafted, Kept,
         CreateUndone, Fault, TmpAfterFailure,
         Control, Locking, Working, Active, StoreLabels, BootLabels, MetaLabels,
         TypeOK, DiskType, StoreType, RecorderType, ThreadType, HistoryType
<1>4. ASSUME NEW t \in Threads, NEW k \in RecordKinds, Append1(t, k)
      PROVE  Settled'
  BY <1>0, <1>4 DEF Settled, Drafted, Kept,
         Append1,
         Control, Locking, Working, Active, StoreLabels, BootLabels, MetaLabels,
         TypeOK, DiskType, StoreType, RecorderType, ThreadType, HistoryType
<1>5. ASSUME NEW t \in Threads, Report(t)
      PROVE  Settled'
  BY <1>0, <1>5 DEF Settled, Drafted, Kept,
         Report,
         Control, Locking, Working, Active, StoreLabels, BootLabels, MetaLabels,
         TypeOK, DiskType, StoreType, RecorderType, ThreadType, HistoryType
<1>6. ASSUME NEW t \in Threads, EnterAppend(t)
      PROVE  Settled'
  BY <1>0, <1>6 DEF Settled, Drafted, Kept,
         EnterAppend, RaiseOSError,
         Control, Locking, Working, Active, StoreLabels, BootLabels, MetaLabels,
         TypeOK, DiskType, StoreType, RecorderType, ThreadType, HistoryType
<1>7. ASSUME NEW t \in Threads, WriteEvidence(t)
      PROVE  Settled'
  BY <1>0, <1>7 DEF Settled, Drafted, Kept,
         WriteEvidence, Body, End,
         Control, Locking, Working, Active, StoreLabels, BootLabels, MetaLabels,
         TypeOK, DiskType, StoreType, RecorderType, ThreadType, HistoryType
<1>8. ASSUME NEW t \in Threads, WriteFails(t)
      PROVE  Settled'
  BY <1>0, <1>8, AppendFailsEffect DEF Settled, Drafted, Kept,
         Control, Locking, Working, Active, StoreLabels, BootLabels, MetaLabels,
         TypeOK, DiskType, StoreType, RecorderType, ThreadType, HistoryType
<1>9. ASSUME NEW t \in Threads, SyncEvidence(t)
      PROVE  Settled'
  BY <1>0, <1>9, SyncEffect DEF Settled, Drafted, Kept,
         Control, Locking, Working, Active, StoreLabels, BootLabels, MetaLabels,
         TypeOK, DiskType, StoreType, RecorderType, ThreadType, HistoryType
<1>10. ASSUME NEW t \in Threads, SyncFails(t)
      PROVE  Settled'
  BY <1>0, <1>10, AppendFailsEffect DEF Settled, Drafted, Kept,
         Control, Locking, Working, Active, StoreLabels, BootLabels, MetaLabels,
         TypeOK, DiskType, StoreType, RecorderType, ThreadType, HistoryType
<1>11. ASSUME NEW t \in Threads, Commit(t)
      PROVE  Settled'
  BY <1>0, <1>11 DEF Settled, Drafted, Kept,
         Commit,
         Control, Locking, Working, Active, StoreLabels, BootLabels, MetaLabels,
         TypeOK, DiskType, StoreType, RecorderType, ThreadType, HistoryType
<1>12. ASSUME NEW t \in Threads, Finish(t)
      PROVE  Settled'
  BY <1>0, <1>12, FinishEffect DEF Settled, Drafted, Kept,
         history,
         Control, Locking, Working, Active, StoreLabels, BootLabels, MetaLabels,
         TypeOK, DiskType, StoreType, RecorderType, ThreadType, HistoryType
<1>13. ASSUME NEW t \in Threads, MetaFails(t)
      PROVE  Settled'
  <2>1. \A u \in Threads : pc'[u] = "retain" => pc[u] = "retain" /\ op'[u] = op[u] /\ u # t
    BY <1>0, <1>13, MetaFailsEffect
  <2>2. pc[Main] = "serving"
    BY <1>13, MetaFailsEffect
  <2>. QED
    BY <1>13, MetaFailsEffect, <2>1, <2>2 DEF Settled, Active
<1>14. ASSUME NEW t \in Threads, Retain(t)
      PROVE  Settled'
  <2>1. \A u \in Threads : pc'[u] = "retain" => pc[u] = "retain" /\ op'[u] = op[u] /\ u # t
    BY <1>0, <1>14, RetainEffect
  <2>2. pc[Main] = "serving"
    BY <1>14, RetainEffect
  <2>. QED
    BY <1>14, RetainEffect, <2>1, <2>2 DEF Settled, Active
<1>15. ASSUME NEW t \in Threads, RetainFails(t)
      PROVE  Settled'
  <2>1. \A u \in Threads : pc'[u] = "retain" => pc[u] = "retain" /\ op'[u] = op[u] /\ u # t
    BY <1>0, <1>15, RetainEffect
  <2>2. pc[Main] = "serving"
    BY <1>15, RetainEffect
  <2>. QED
    BY <1>15, RetainEffect, <2>1, <2>2 DEF Settled, Active
<1>16. ASSUME NEW p \in Procs, MetaTemp(p)
      PROVE  Settled'
  BY <1>0, <1>16 DEF Settled, Drafted, Kept,
         MetaTemp,
         Control, Locking, Working, Active, StoreLabels, BootLabels, MetaLabels,
         TypeOK, DiskType, StoreType, RecorderType, ThreadType, HistoryType
<1>17. ASSUME NEW p \in Procs, MetaRename(p)
      PROVE  Settled'
  BY <1>0, <1>17 DEF Settled, Drafted, Kept,
         MetaRename,
         Control, Locking, Working, Active, StoreLabels, BootLabels, MetaLabels,
         TypeOK, DiskType, StoreType, RecorderType, ThreadType, HistoryType
<1>18. ASSUME NEW p \in Procs, MetaFlush(p)
      PROVE  Settled'
  BY <1>0, <1>18 DEF Settled, Drafted, Kept,
         MetaFlush, AppendReturns,
         Control, Locking, Working, Active, StoreLabels, BootLabels, MetaLabels,
         TypeOK, DiskType, StoreType, RecorderType, ThreadType, HistoryType
<1>19. CASE LoadInvalid
  BY <1>0, <1>19 DEF Settled, Drafted, Kept,
         LoadInvalid, Fault,
         Control, Locking, Working, Active, StoreLabels, BootLabels, MetaLabels,
         TypeOK, DiskType, StoreType, RecorderType, ThreadType, HistoryType
<1>20. CASE Load
  BY <1>0, <1>20 DEF Settled, Drafted, Kept,
         Load, Torn,
         Control, Locking, Working, Active, StoreLabels, BootLabels, MetaLabels,
         TypeOK, DiskType, StoreType, RecorderType, ThreadType, HistoryType
<1>21. CASE CopyTail
  BY <1>0, <1>21 DEF Settled, Drafted, Kept,
         CopyTail,
         Control, Locking, Working, Active, StoreLabels, BootLabels, MetaLabels,
         TypeOK, DiskType, StoreType, RecorderType, ThreadType, HistoryType
<1>22. CASE Truncate
  BY <1>0, <1>22, TruncateEffect DEF Settled, Drafted, Kept,
         Control, Locking, Working, Active, StoreLabels, BootLabels, MetaLabels,
         TypeOK, DiskType, StoreType, RecorderType, ThreadType, HistoryType
<1>23. CASE Reconcile
  BY <1>0, <1>23, ReconcileEffect DEF Settled, Control, Active, BootLabels, MetaLabels,
         TypeOK, ThreadType
<1>24. CASE RecoveryDone
  BY <1>0, <1>24 DEF Settled, Drafted, Kept,
         RecoveryDone, KeepOrEvict, RemoveDirectory,
         Control, Locking, Working, Active, StoreLabels, BootLabels, MetaLabels,
         TypeOK, DiskType, StoreType, RecorderType, ThreadType, HistoryType
<1>25. CASE RecoveryFails
  BY <1>0, <1>25, DownEffect DEF Settled, Drafted, Kept,
         Control, Locking, Working, Active, StoreLabels, BootLabels, MetaLabels,
         TypeOK, DiskType, StoreType, RecorderType, ThreadType, HistoryType
<1>26. CASE Crash
  BY <1>0, <1>26, DownEffect DEF Settled, Drafted, Kept,
         Control, Locking, Working, Active, StoreLabels, BootLabels, MetaLabels,
         TypeOK, DiskType, StoreType, RecorderType, ThreadType, HistoryType
<1>27. CASE Closed \/ UNCHANGED vars
  BY <1>0, <1>27 DEF Settled, Drafted, Kept,
         Closed, vars, thread,
         Control, Locking, Working, Active, StoreLabels, BootLabels, MetaLabels,
         TypeOK, DiskType, StoreType, RecorderType, ThreadType, HistoryType
<1>. QED
  BY <1>1, <1>2, <1>3, <1>4, <1>5, <1>6, <1>7, <1>8, <1>9, <1>10, <1>11, <1>12, <1>13, <1>14, <1>15, <1>16, <1>17, <1>18, <1>19, <1>20, <1>21, <1>22, <1>23, <1>24, <1>25, <1>26, <1>27
  DEF Next, ThreadStep, WriteMetadata, Recovery

\* Once append() has raised and fail() has been stored, no step of finish(), of a
\* checkpoint, of a crash or of the recovery takes the failure back.
LEMMA FailureKeptKept ==
    ASSUME LogInv, Kept, Drafted, Settled, FailureKept, [Next]_vars
    PROVE  FailureKept'
<1>. USE LogConstants DEF disk, store, recorder, history, bounds, Procs, Goto
<1>0. TypeOK /\ Control /\ Locking /\ Working /\ (~lapsed => Numbered /\ Extent)
  BY DEF LogInv
<1>1. CASE Create
  BY <1>0, <1>1 DEF FailureKept, Noted, Kept, Settled, Drafted,
         Create, NewMeta,
         Control, Locking, Working, Active, StoreLabels, BootLabels, MetaLabels,
         TypeOK, DiskType, StoreType, RecorderType, ThreadType, HistoryType
<1>2. CASE CreateFails
  BY <1>0, <1>2 DEF FailureKept, Noted, Kept, Settled, Drafted,
         CreateFails, Fault,
         Control, Locking, Working, Active, StoreLabels, BootLabels, MetaLabels,
         TypeOK, DiskType, StoreType, RecorderType, ThreadType, HistoryType
<1>3. CASE CreateUndone
  BY <1>0, <1>3 DEF FailureKept, Noted, Kept, Settled, Drafted,
         CreateUndone, Fault, TmpAfterFailure,
         Control, Locking, Working, Active, StoreLabels, BootLabels, MetaLabels,
         TypeOK, DiskType, StoreType, RecorderType, ThreadType, HistoryType
<1>4. ASSUME NEW t \in Threads, NEW k \in RecordKinds, Append1(t, k)
      PROVE  FailureKept'
  BY <1>0, <1>4 DEF FailureKept, Noted, Kept, Settled, Drafted,
         Append1,
         Control, Locking, Working, Active, StoreLabels, BootLabels, MetaLabels,
         TypeOK, DiskType, StoreType, RecorderType, ThreadType, HistoryType
<1>5. ASSUME NEW t \in Threads, Report(t)
      PROVE  FailureKept'
  BY <1>0, <1>5 DEF FailureKept, Noted, Kept, Settled, Drafted,
         Report,
         Control, Locking, Working, Active, StoreLabels, BootLabels, MetaLabels,
         TypeOK, DiskType, StoreType, RecorderType, ThreadType, HistoryType
<1>6. ASSUME NEW t \in Threads, EnterAppend(t)
      PROVE  FailureKept'
  <2>1. /\ UNCHANGED <<dir, meta, metaSync, mem, draft>>
        /\ raised' /\ ~lapsed' => raised /\ ~lapsed
    BY <1>6 DEF EnterAppend, RaiseOSError
  <2>2. pc' = [pc EXCEPT ![t] = pc'[t]] /\ pc'[t] \in {"write", "idle", "finish"}
    BY <1>0, <1>6 DEF EnterAppend, RaiseOSError, TypeOK, ThreadType
  <2>3. \A p \in Procs :
           pc'[p] \in MetaLabels \union BootLabels => pc[p] \in MetaLabels \union BootLabels
    BY <1>0, <2>2 DEF TypeOK, ThreadType, MetaLabels, BootLabels
  <2>. QED  BY <2>1, <2>3 DEF FailureKept
<1>7. ASSUME NEW t \in Threads, WriteEvidence(t)
      PROVE  FailureKept'
  BY <1>0, <1>7 DEF FailureKept, Noted, Kept, Settled, Drafted,
         WriteEvidence, Body, End,
         Control, Locking, Working, Active, StoreLabels, BootLabels, MetaLabels,
         TypeOK, DiskType, StoreType, RecorderType, ThreadType, HistoryType
<1>8. ASSUME NEW t \in Threads, WriteFails(t)
      PROVE  FailureKept'
  BY <1>0, <1>8, AppendFailsEffect DEF FailureKept, Noted, Kept, Settled, Drafted,
         Control, Locking, Working, Active, StoreLabels, BootLabels, MetaLabels,
         TypeOK, DiskType, StoreType, RecorderType, ThreadType, HistoryType
<1>9. ASSUME NEW t \in Threads, SyncEvidence(t)
      PROVE  FailureKept'
  BY <1>0, <1>9, SyncEffect DEF FailureKept, Noted, Kept, Settled, Drafted,
         Control, Locking, Working, Active, StoreLabels, BootLabels, MetaLabels,
         TypeOK, DiskType, StoreType, RecorderType, ThreadType, HistoryType
<1>10. ASSUME NEW t \in Threads, SyncFails(t)
      PROVE  FailureKept'
  BY <1>0, <1>10, AppendFailsEffect DEF FailureKept, Noted, Kept, Settled, Drafted,
         Control, Locking, Working, Active, StoreLabels, BootLabels, MetaLabels,
         TypeOK, DiskType, StoreType, RecorderType, ThreadType, HistoryType
<1>11. ASSUME NEW t \in Threads, Commit(t)
      PROVE  FailureKept'
  BY <1>0, <1>11 DEF FailureKept, Noted, Kept, Settled, Drafted,
         Commit,
         Control, Locking, Working, Active, StoreLabels, BootLabels, MetaLabels,
         TypeOK, DiskType, StoreType, RecorderType, ThreadType, HistoryType
<1>12. ASSUME NEW t \in Threads, Finish(t)
      PROVE  FailureKept'
  <2>1. raised' /\ ~lapsed' => raised /\ ~lapsed
    BY <1>0, <1>12, FinishEffect DEF history
  <2>2. \A p \in Procs : pc'[p] \in MetaLabels \union BootLabels => p = t /\ pc'[t] = "temp"
    BY <1>12, FinishEffect DEF StoreLabels, MetaLabels, BootLabels
  <2>. QED
    BY <1>12, FinishEffect, <2>1, <2>2 DEF FailureKept, Noted
<1>13. ASSUME NEW t \in Threads, MetaFails(t)
      PROVE  FailureKept'
  <2>1. raised' /\ ~lapsed' => raised /\ ~lapsed
    BY <1>0, <1>13, MetaFailsEffect DEF history
  <2>2. \A p \in Procs : pc'[p] \notin MetaLabels \union BootLabels
    BY <1>0, <1>13, MetaFailsEffect DEF StoreLabels
  <2>. QED
    BY <1>13, MetaFailsEffect, <2>1, <2>2 DEF FailureKept, Noted
<1>14. ASSUME NEW t \in Threads, Retain(t)
      PROVE  FailureKept'
  <2>1. \A p \in Procs : pc'[p] \notin MetaLabels \union BootLabels
    BY <1>0, <1>14, RetainEffect DEF StoreLabels
  <2>2. CASE ~dir'
    BY <2>2 DEF FailureKept
  <2>3. CASE dir' /\ raised' = raised /\ lapsed' = lapsed
    BY <1>14, <2>1, <2>3, RetainEffect DEF FailureKept, Noted
  <2>4. CASE dir' /\ op[t] = "fail"
    <3>1. dir /\ mem # NoMeta /\ mem.failure /\ mem.status # "active"
      BY <1>14, <2>4, RetainEffect DEF Kept, Settled, Active
    <3>2. Noted(mem) /\ Noted(meta) /\ Noted(metaSync)
      BY <1>14, <3>1, RetainEffect DEF Settled, Noted, Active
    <3>. QED  BY <1>14, <2>1, <2>4, <3>2, RetainEffect DEF FailureKept, Noted
  <2>. QED  BY <1>14, <2>2, <2>3, <2>4, RetainEffect DEF history
<1>15. ASSUME NEW t \in Threads, RetainFails(t)
      PROVE  FailureKept'
  <2>1. \A p \in Procs : pc'[p] \notin MetaLabels \union BootLabels
    BY <1>0, <1>15, RetainEffect DEF StoreLabels
  <2>2. CASE ~dir'
    BY <2>2 DEF FailureKept
  <2>3. CASE dir' /\ raised' = raised /\ lapsed' = lapsed
    BY <1>15, <2>1, <2>3, RetainEffect DEF FailureKept, Noted
  <2>4. CASE dir' /\ op[t] = "fail"
    <3>1. dir /\ mem # NoMeta /\ mem.failure /\ mem.status # "active"
      BY <1>15, <2>4, RetainEffect DEF Kept, Settled, Active
    <3>2. Noted(mem) /\ Noted(meta) /\ Noted(metaSync)
      BY <1>15, <3>1, RetainEffect DEF Settled, Noted, Active
    <3>. QED  BY <1>15, <2>1, <2>4, <3>2, RetainEffect DEF FailureKept, Noted
  <2>. QED  BY <1>15, <2>2, <2>3, <2>4, RetainEffect DEF history
<1>16. ASSUME NEW p \in Procs, MetaTemp(p)
      PROVE  FailureKept'
  BY <1>0, <1>16 DEF FailureKept, Noted, Kept, Settled, Drafted,
         MetaTemp,
         Control, Locking, Working, Active, StoreLabels, BootLabels, MetaLabels,
         TypeOK, DiskType, StoreType, RecorderType, ThreadType, HistoryType
<1>17. ASSUME NEW p \in Procs, MetaRename(p)
      PROVE  FailureKept'
  BY <1>0, <1>17 DEF FailureKept, Noted, Kept, Settled, Drafted,
         MetaRename,
         Control, Locking, Working, Active, StoreLabels, BootLabels, MetaLabels,
         TypeOK, DiskType, StoreType, RecorderType, ThreadType, HistoryType
<1>18. ASSUME NEW p \in Procs, MetaFlush(p)
      PROVE  FailureKept'
  BY <1>0, <1>18 DEF FailureKept, Noted, Kept, Settled, Drafted,
         MetaFlush, AppendReturns,
         Control, Locking, Working, Active, StoreLabels, BootLabels, MetaLabels,
         TypeOK, DiskType, StoreType, RecorderType, ThreadType, HistoryType
<1>19. CASE LoadInvalid
  BY <1>0, <1>19 DEF FailureKept, Noted, Kept, Settled, Drafted,
         LoadInvalid, Fault,
         Control, Locking, Working, Active, StoreLabels, BootLabels, MetaLabels,
         TypeOK, DiskType, StoreType, RecorderType, ThreadType, HistoryType
<1>20. CASE Load
  BY <1>0, <1>20 DEF FailureKept, Noted, Kept, Settled, Drafted,
         Load, Torn,
         Control, Locking, Working, Active, StoreLabels, BootLabels, MetaLabels,
         TypeOK, DiskType, StoreType, RecorderType, ThreadType, HistoryType
<1>21. CASE CopyTail
  BY <1>0, <1>21 DEF FailureKept, Noted, Kept, Settled, Drafted,
         CopyTail,
         Control, Locking, Working, Active, StoreLabels, BootLabels, MetaLabels,
         TypeOK, DiskType, StoreType, RecorderType, ThreadType, HistoryType
<1>22. CASE Truncate
  BY <1>0, <1>22, TruncateEffect DEF FailureKept, Noted, Kept, Control, StoreLabels,
         BootLabels, MetaLabels
<1>23. CASE Reconcile
  BY <1>0, <1>23, ReconcileEffect DEF FailureKept, Noted, Kept, Settled, Drafted,
         Control, Locking, Working, Active, StoreLabels, BootLabels, MetaLabels,
         TypeOK, DiskType, StoreType, RecorderType, ThreadType, HistoryType
<1>24. CASE RecoveryDone
  <2>1. /\ UNCHANGED <<draft, raised, lapsed>> /\ pc' = [pc EXCEPT ![Main] = "recovered"]
        /\ dir' => UNCHANGED <<dir, meta, metaSync, mem>>
    BY <1>24 DEF RecoveryDone, KeepOrEvict, RemoveDirectory
  <2>2. \A p \in Procs :
           pc'[p] \in MetaLabels \union BootLabels => pc[p] \in MetaLabels \union BootLabels
    BY <1>0, <2>1 DEF TypeOK, ThreadType, MetaLabels, BootLabels
  <2>. QED  BY <2>1, <2>2 DEF FailureKept
<1>25. CASE RecoveryFails \/ Crash
  <2>1. /\ UNCHANGED <<raised, lapsed>> /\ mem' = NoMeta
        /\ \A p \in Procs : pc'[p] \in {"down", "idle"}
    BY <1>25, DownEffect
  <2>2. dir' => dir /\ meta' \in {meta, metaSync} /\ metaSync' \in {meta, metaSync}
    BY <1>25, DownEffect
  <2>. QED  BY <2>1, <2>2 DEF FailureKept, Noted, MetaLabels, BootLabels
<1>27. CASE Closed \/ UNCHANGED vars
  BY <1>27 DEF FailureKept, Noted, Closed, vars, thread
<1>. QED
  BY <1>1, <1>2, <1>3, <1>4, <1>5, <1>6, <1>7, <1>8, <1>9, <1>10, <1>11, <1>12, <1>13, <1>14, <1>15, <1>16, <1>17, <1>18, <1>19, <1>20, <1>21, <1>22, <1>23, <1>24, <1>25, <1>27
  DEF Next, ThreadStep, WriteMetadata, Recovery

\* Every step keeps how evidence.jsonl ends: two whole units before a flush, a
\* torn tail while it is copied and cut off, none while the counters are taken.
LEMMA ShapedKept ==
    ASSUME LogInv, Kept, Shaped, [Next]_vars
    PROVE  Shaped'
<1>. USE LogConstants DEF disk, store, recorder, history, bounds, Procs, Goto
<1>0. TypeOK /\ Control /\ Locking /\ Working /\ (~lapsed => Numbered /\ Extent)
  BY DEF LogInv
<1>1. CASE Create
  BY <1>0, <1>1 DEF Shaped, Kept,
         Create, NewMeta,
         Control, Locking, Working, Active, StoreLabels, BootLabels, MetaLabels,
         TypeOK, DiskType, StoreType, RecorderType, ThreadType, HistoryType
<1>2. CASE CreateFails
  BY <1>0, <1>2 DEF Shaped, Kept,
         CreateFails, Fault,
         Control, Locking, Working, Active, StoreLabels, BootLabels, MetaLabels,
         TypeOK, DiskType, StoreType, RecorderType, ThreadType, HistoryType
<1>3. CASE CreateUndone
  BY <1>0, <1>3 DEF Shaped, Kept,
         CreateUndone, Fault, TmpAfterFailure,
         Control, Locking, Working, Active, StoreLabels, BootLabels, MetaLabels,
         TypeOK, DiskType, StoreType, RecorderType, ThreadType, HistoryType
<1>4. ASSUME NEW t \in Threads, NEW k \in RecordKinds, Append1(t, k)
      PROVE  Shaped'
  BY <1>0, <1>4 DEF Shaped, Kept,
         Append1,
         Control, Locking, Working, Active, StoreLabels, BootLabels, MetaLabels,
         TypeOK, DiskType, StoreType, RecorderType, ThreadType, HistoryType
<1>5. ASSUME NEW t \in Threads, Report(t)
      PROVE  Shaped'
  BY <1>0, <1>5 DEF Shaped, Kept,
         Report,
         Control, Locking, Working, Active, StoreLabels, BootLabels, MetaLabels,
         TypeOK, DiskType, StoreType, RecorderType, ThreadType, HistoryType
<1>6. ASSUME NEW t \in Threads, EnterAppend(t)
      PROVE  Shaped'
  BY <1>0, <1>6 DEF Shaped, Kept,
         EnterAppend, RaiseOSError,
         Control, Locking, Working, Active, StoreLabels, BootLabels, MetaLabels,
         TypeOK, DiskType, StoreType, RecorderType, ThreadType, HistoryType
<1>7. ASSUME NEW t \in Threads, WriteEvidence(t)
      PROVE  Shaped'
  <2>1. file \in Seq(Unit) /\ synced \in Nat /\ synced <= Len(file)
        /\ \A p \in Procs : p # t => pc[p] \notin StoreLabels \union BootLabels
    BY <1>0, <1>7 DEF WriteEvidence, Locking, StoreLabels, TypeOK, DiskType, Shaped
  <2>2. /\ Len(file') = Len(file) + 2
        /\ file'[Len(file) + 1].part = 1 /\ file'[Len(file) + 2].part = 2
    BY <1>7, <2>1 DEF WriteEvidence, Body, End
  <2>3. /\ pc' = [pc EXCEPT ![t] = "sync"] /\ synced' = synced
    BY <1>7 DEF WriteEvidence
  <2>. QED
    BY <1>0, <2>1, <2>2, <2>3 DEF Shaped, TypeOK, ThreadType, StoreLabels, BootLabels
<1>8. ASSUME NEW t \in Threads, WriteFails(t)
      PROVE  Shaped'
  BY <1>0, <1>8, AppendFailsEffect DEF Shaped, Kept,
         Control, Locking, Working, Active, StoreLabels, BootLabels, MetaLabels,
         TypeOK, DiskType, StoreType, RecorderType, ThreadType, HistoryType
<1>9. ASSUME NEW t \in Threads, SyncEvidence(t)
      PROVE  Shaped'
  <2>1. \A u \in Threads : pc'[u] # "sync"
    BY <1>0, <1>9, SyncEffect DEF Locking, StoreLabels, TypeOK, ThreadType
  <2>2. pc'[Main] = pc[Main] /\ pc[Main] = "serving"
    BY <1>0, <1>9, SyncEffect DEF Control, TypeOK, ThreadType
  <2>. QED
    BY <1>0, <1>9, <2>1, <2>2, SyncEffect DEF Shaped, TypeOK, DiskType
<1>10. ASSUME NEW t \in Threads, SyncFails(t)
      PROVE  Shaped'
  BY <1>0, <1>10, AppendFailsEffect DEF Shaped, Kept,
         Control, Locking, Working, Active, StoreLabels, BootLabels, MetaLabels,
         TypeOK, DiskType, StoreType, RecorderType, ThreadType, HistoryType
<1>11. ASSUME NEW t \in Threads, Commit(t)
      PROVE  Shaped'
  BY <1>0, <1>11 DEF Shaped, Kept,
         Commit,
         Control, Locking, Working, Active, StoreLabels, BootLabels, MetaLabels,
         TypeOK, DiskType, StoreType, RecorderType, ThreadType, HistoryType
<1>12. ASSUME NEW t \in Threads, Finish(t)
      PROVE  Shaped'
  BY <1>0, <1>12, FinishEffect DEF Shaped, Kept,
         history,
         Control, Locking, Working, Active, StoreLabels, BootLabels, MetaLabels,
         TypeOK, DiskType, StoreType, RecorderType, ThreadType, HistoryType
<1>13. ASSUME NEW t \in Threads, MetaFails(t)
      PROVE  Shaped'
  BY <1>0, <1>13, MetaFailsEffect DEF Shaped, Kept,
         history,
         Control, Locking, Working, Active, StoreLabels, BootLabels, MetaLabels,
         TypeOK, DiskType, StoreType, RecorderType, ThreadType, HistoryType
<1>14. ASSUME NEW t \in Threads, Retain(t)
      PROVE  Shaped'
  BY <1>0, <1>14, RetainEffect DEF Shaped, Kept,
         history,
         Control, Locking, Working, Active, StoreLabels, BootLabels, MetaLabels,
         TypeOK, DiskType, StoreType, RecorderType, ThreadType, HistoryType
<1>15. ASSUME NEW t \in Threads, RetainFails(t)
      PROVE  Shaped'
  BY <1>0, <1>15, RetainEffect DEF Shaped, Kept,
         history,
         Control, Locking, Working, Active, StoreLabels, BootLabels, MetaLabels,
         TypeOK, DiskType, StoreType, RecorderType, ThreadType, HistoryType
<1>16. ASSUME NEW p \in Procs, MetaTemp(p)
      PROVE  Shaped'
  BY <1>0, <1>16 DEF Shaped, Kept,
         MetaTemp,
         Control, Locking, Working, Active, StoreLabels, BootLabels, MetaLabels,
         TypeOK, DiskType, StoreType, RecorderType, ThreadType, HistoryType
<1>17. ASSUME NEW p \in Procs, MetaRename(p)
      PROVE  Shaped'
  BY <1>0, <1>17 DEF Shaped, Kept,
         MetaRename,
         Control, Locking, Working, Active, StoreLabels, BootLabels, MetaLabels,
         TypeOK, DiskType, StoreType, RecorderType, ThreadType, HistoryType
<1>18. ASSUME NEW p \in Procs, MetaFlush(p)
      PROVE  Shaped'
  BY <1>0, <1>18 DEF Shaped, Kept,
         MetaFlush, AppendReturns,
         Control, Locking, Working, Active, StoreLabels, BootLabels, MetaLabels,
         TypeOK, DiskType, StoreType, RecorderType, ThreadType, HistoryType
<1>19. CASE LoadInvalid
  BY <1>0, <1>19 DEF Shaped, Kept,
         LoadInvalid, Fault,
         Control, Locking, Working, Active, StoreLabels, BootLabels, MetaLabels,
         TypeOK, DiskType, StoreType, RecorderType, ThreadType, HistoryType
<1>20. CASE Load
  BY <1>0, <1>20 DEF Shaped, Kept,
         Load, Torn,
         Control, Locking, Working, Active, StoreLabels, BootLabels, MetaLabels,
         TypeOK, DiskType, StoreType, RecorderType, ThreadType, HistoryType
<1>21. CASE CopyTail
  BY <1>0, <1>21 DEF Shaped, Kept,
         CopyTail,
         Control, Locking, Working, Active, StoreLabels, BootLabels, MetaLabels,
         TypeOK, DiskType, StoreType, RecorderType, ThreadType, HistoryType
<1>22. CASE Truncate
  <2>1. /\ Len(file') = LastRecordEnd(file) /\ synced' = LastRecordEnd(file)
        /\ file' \in Seq(Unit) /\ LastRecordEnd(file) \in 0..Len(file)
        /\ \A i \in 1..LastRecordEnd(file) : file'[i] = file[i]
        /\ LastRecordEnd(file) # 0 => file[LastRecordEnd(file)].part = 2
    BY <1>22, TruncateEffect
  <2>2. ~Torn(file')
    <3>1. file' # <<>> => LastRecordEnd(file) # 0
      BY <2>1
    <3>. QED  BY <2>1, <3>1 DEF Torn
  <2>3. pc'[Main] = "rescan" /\ \A u \in Threads : pc'[u] # "sync"
    BY <1>0, <1>22, TruncateEffect DEF Control, TypeOK, ThreadType
  <2>. QED
    BY <2>1, <2>2, <2>3 DEF Shaped
<1>23. CASE Reconcile
  BY <1>0, <1>23, ReconcileEffect DEF Shaped, Kept,
         Control, Locking, Working, Active, StoreLabels, BootLabels, MetaLabels,
         TypeOK, DiskType, StoreType, RecorderType, ThreadType, HistoryType
<1>24. CASE RecoveryDone
  BY <1>0, <1>24 DEF Shaped, Kept,
         RecoveryDone, KeepOrEvict, RemoveDirectory,
         Control, Locking, Working, Active, StoreLabels, BootLabels, MetaLabels,
         TypeOK, DiskType, StoreType, RecorderType, ThreadType, HistoryType
<1>25. CASE RecoveryFails
  BY <1>0, <1>25, DownEffect DEF Shaped, Kept,
         Control, Locking, Working, Active, StoreLabels, BootLabels, MetaLabels,
         TypeOK, DiskType, StoreType, RecorderType, ThreadType, HistoryType
<1>26. CASE Crash
  BY <1>0, <1>26, DownEffect DEF Shaped, Kept,
         Control, Locking, Working, Active, StoreLabels, BootLabels, MetaLabels,
         TypeOK, DiskType, StoreType, RecorderType, ThreadType, HistoryType
<1>27. CASE Closed \/ UNCHANGED vars
  BY <1>0, <1>27 DEF Shaped, Kept,
         Closed, vars, thread,
         Control, Locking, Working, Active, StoreLabels, BootLabels, MetaLabels,
         TypeOK, DiskType, StoreType, RecorderType, ThreadType, HistoryType
<1>. QED
  BY <1>1, <1>2, <1>3, <1>4, <1>5, <1>6, <1>7, <1>8, <1>9, <1>10, <1>11, <1>12, <1>13, <1>14, <1>15, <1>16, <1>17, <1>18, <1>19, <1>20, <1>21, <1>22, <1>23, <1>24, <1>25, <1>26, <1>27
  DEF Next, ThreadStep, WriteMetadata, Recovery

\* Every step keeps the counters of every copy of the metadata those of a prefix
\* of the evidence, or leaves a record behind them that the scan will find.
LEMMA CountedKept ==
    ASSUME LogInv, Kept, Drafted, Settled, Shaped, Counted, [Next]_vars
    PROVE  Counted'
<1>. USE LogConstants DEF disk, store, recorder, history, bounds, Procs, Goto
<1>0. TypeOK /\ Control /\ Locking /\ Working /\ (~lapsed => Numbered /\ Extent)
  BY DEF LogInv
<1>1. CASE Create
  <2>1. NewMeta \in Meta /\ NewMeta.bytes = 0 /\ NewMeta.records = 0
    BY DEF NewMeta, Meta, Statuses
  <2>2. CountsIn(NewMeta, <<>>, 0)
    <3>1. <<>> \in Seq(Unit) /\ Len(<<>>) = 0 /\ ~Torn(<<>>)
      BY DEF Torn
    <3>2. CountsIn(NewMeta, <<>>, Len(<<>>))
      BY <2>1, <3>1, ScanEmpty, CountsWhole
    <3>. QED  BY <3>1, <3>2
  <2>3. file = <<>> /\ synced = 0
    BY <1>0, <1>1 DEF Create, Working
  <2>4. CountsIn(mem', file', synced') /\ CountsIn(draft', file', synced')
    BY <1>1, <2>2, <2>3 DEF Create
  <2>. QED
    BY <1>1, <2>4 DEF Counted, Create
<1>2. CASE CreateFails
  BY <1>0, <1>2 DEF Counted, Kept, Drafted,
         CreateFails, Fault,
         Control, Locking, Working, Active, StoreLabels, BootLabels, MetaLabels,
         TypeOK, DiskType, StoreType, RecorderType, ThreadType, HistoryType
<1>3. CASE CreateUndone
  BY <1>0, <1>3 DEF Counted, Kept, Drafted,
         CreateUndone, Fault, TmpAfterFailure,
         Control, Locking, Working, Active, StoreLabels, BootLabels, MetaLabels,
         TypeOK, DiskType, StoreType, RecorderType, ThreadType, HistoryType
<1>4. ASSUME NEW t \in Threads, NEW k \in RecordKinds, Append1(t, k)
      PROVE  Counted'
  BY <1>0, <1>4 DEF Counted, Kept, Drafted,
         Append1,
         Control, Locking, Working, Active, StoreLabels, BootLabels, MetaLabels,
         TypeOK, DiskType, StoreType, RecorderType, ThreadType, HistoryType
<1>5. ASSUME NEW t \in Threads, Report(t)
      PROVE  Counted'
  BY <1>0, <1>5 DEF Counted, Kept, Drafted,
         Report,
         Control, Locking, Working, Active, StoreLabels, BootLabels, MetaLabels,
         TypeOK, DiskType, StoreType, RecorderType, ThreadType, HistoryType
<1>6. ASSUME NEW t \in Threads, EnterAppend(t)
      PROVE  Counted'
  BY <1>0, <1>6 DEF Counted, Kept, Drafted,
         EnterAppend, RaiseOSError,
         Control, Locking, Working, Active, StoreLabels, BootLabels, MetaLabels,
         TypeOK, DiskType, StoreType, RecorderType, ThreadType, HistoryType
<1>7. ASSUME NEW t \in Threads, WriteEvidence(t)
      PROVE  Counted'
  <2>1. /\ file \in Seq(Unit) /\ synced \in Nat /\ synced <= Len(file)
        /\ kind[t] \in Kinds /\ next \in Nat
        /\ {mem, meta, metaSync} \subseteq Meta \union {NoMeta}
    BY <1>0 DEF TypeOK, DiskType, StoreType, RecorderType, ThreadType, Shaped
  <2>2. /\ file' \in Seq(Unit) /\ Len(file') = Len(file) + 2
        /\ \A i \in 1..synced : file'[i] = file[i]
    BY <1>7, <2>1 DEF WriteEvidence, Body, End, Unit
  <2>3. \A m \in Meta : CountsIn(m, file, synced) => CountsIn(m, file', synced)
    BY <2>1, <2>2, CountsExtend
  <2>4. \A p \in Procs : pc'[p] \notin MetaLabels \union BootLabels
    BY <1>0, <1>7 DEF WriteEvidence, Locking, StoreLabels, MetaLabels, BootLabels, TypeOK,
                    ThreadType
  <2>. QED
    BY <1>7, <2>1, <2>3, <2>4 DEF Counted, WriteEvidence
<1>8. ASSUME NEW t \in Threads, WriteFails(t)
      PROVE  Counted'
  <2>1. /\ file \in Seq(Unit) /\ synced \in Nat /\ synced <= Len(file)
        /\ kind[t] \in Kinds /\ next \in Nat
        /\ {mem, meta, metaSync} \subseteq Meta \union {NoMeta}
    BY <1>0 DEF TypeOK, DiskType, StoreType, RecorderType, ThreadType, Shaped
  <2>2. /\ file' \in Seq(Unit) /\ Len(file') >= Len(file)
        /\ \A i \in 1..synced : file'[i] = file[i]
    <3>1. CASE file' = file
      BY <2>1, <3>1
    <3>2. CASE file' = Append(file, Body(next, kind[t]))
      BY <2>1, <3>2 DEF Body, Unit
    <3>. QED  BY <1>8, <3>1, <3>2, AppendFailsEffect
  <2>3. \A m \in Meta : CountsIn(m, file, synced) => CountsIn(m, file', synced)
    BY <2>1, <2>2, CountsExtend
  <2>. QED
    BY <1>8, <2>1, <2>3, AppendFailsEffect DEF Counted, StoreLabels
<1>9. ASSUME NEW t \in Threads, SyncEvidence(t)
      PROVE  Counted'
  <2>1. /\ file \in Seq(Unit) /\ synced \in Nat /\ synced <= Len(file)
        /\ {mem, meta, metaSync} \subseteq Meta \union {NoMeta}
    BY <1>0 DEF TypeOK, DiskType, StoreType, Shaped
  <2>2. \A m \in Meta : CountsIn(m, file, synced) => CountsIn(m, file, Len(file))
    BY <2>1, CountsExtend
  <2>3. CountsIn(mem', file, Len(file))
    <3>1. CountsIn(mem, file, synced)
      BY <1>9, SyncEffect DEF Counted
    <3>2. Len(file) >= synced + 2 /\ file[Len(file)].part = 2 /\ file[Len(file) - 1].part = 1
      BY <1>9, SyncEffect DEF Shaped
    <3>. QED  BY <1>9, <2>1, <3>1, <3>2, SyncEffect, CountsSync
  <2>4. \A p \in Procs : pc'[p] \in MetaLabels \union BootLabels => draft' = mem'
    <3>1. \A p \in Procs : p # t => pc[p] \notin StoreLabels \union BootLabels
      BY <1>0, <1>9, SyncEffect DEF Locking
    <3>. QED
      BY <1>0, <1>9, <3>1, SyncEffect
      DEF StoreLabels, MetaLabels, BootLabels, TypeOK, ThreadType
  <2>. QED
    BY <1>9, <2>1, <2>2, <2>3, <2>4, SyncEffect DEF Counted
<1>10. ASSUME NEW t \in Threads, SyncFails(t)
      PROVE  Counted'
  <2>1. /\ file \in Seq(Unit) /\ synced \in Nat /\ synced <= Len(file)
        /\ kind[t] \in Kinds /\ next \in Nat
        /\ {mem, meta, metaSync} \subseteq Meta \union {NoMeta}
    BY <1>0 DEF TypeOK, DiskType, StoreType, RecorderType, ThreadType, Shaped
  <2>2. /\ file' \in Seq(Unit) /\ Len(file') >= Len(file)
        /\ \A i \in 1..synced : file'[i] = file[i]
    <3>1. CASE file' = file
      BY <2>1, <3>1
    <3>2. CASE file' = Append(file, Body(next, kind[t]))
      BY <2>1, <3>2 DEF Body, Unit
    <3>. QED  BY <1>10, <3>1, <3>2, AppendFailsEffect
  <2>3. \A m \in Meta : CountsIn(m, file, synced) => CountsIn(m, file', synced)
    BY <2>1, <2>2, CountsExtend
  <2>. QED
    BY <1>10, <2>1, <2>3, AppendFailsEffect DEF Counted, StoreLabels
<1>11. ASSUME NEW t \in Threads, Commit(t)
      PROVE  Counted'
  BY <1>0, <1>11 DEF Counted, Kept, Drafted,
         Commit,
         Control, Locking, Working, Active, StoreLabels, BootLabels, MetaLabels,
         TypeOK, DiskType, StoreType, RecorderType, ThreadType, HistoryType
<1>12. ASSUME NEW t \in Threads, Finish(t)
      PROVE  Counted'
  <2>1. pc'[t] = "temp" => CountsIn(draft', file, synced)
    BY <1>12, FinishEffect, CountsOfEqual DEF Counted
  <2>2. \A p \in Procs : pc'[p] \in MetaLabels \union BootLabels => p = t /\ pc'[t] = "temp"
    BY <1>12, FinishEffect DEF StoreLabels, MetaLabels, BootLabels
  <2>. QED
    BY <1>12, <2>1, <2>2, FinishEffect DEF Counted
<1>13. ASSUME NEW t \in Threads, MetaFails(t)
      PROVE  Counted'
  BY <1>13, MetaFailsEffect DEF Counted, StoreLabels
<1>14. ASSUME NEW t \in Threads, Retain(t)
      PROVE  Counted'
  BY <1>14, RetainEffect DEF Counted, StoreLabels
<1>15. ASSUME NEW t \in Threads, RetainFails(t)
      PROVE  Counted'
  BY <1>15, RetainEffect DEF Counted, StoreLabels
<1>16. ASSUME NEW p \in Procs, MetaTemp(p)
      PROVE  Counted'
  BY <1>0, <1>16 DEF Counted, Kept, Drafted,
         MetaTemp,
         Control, Locking, Working, Active, StoreLabels, BootLabels, MetaLabels,
         TypeOK, DiskType, StoreType, RecorderType, ThreadType, HistoryType
<1>17. ASSUME NEW p \in Procs, MetaRename(p)
      PROVE  Counted'
  BY <1>0, <1>17 DEF Counted, Kept, Drafted,
         MetaRename,
         Control, Locking, Working, Active, StoreLabels, BootLabels, MetaLabels,
         TypeOK, DiskType, StoreType, RecorderType, ThreadType, HistoryType
<1>18. ASSUME NEW p \in Procs, MetaFlush(p)
      PROVE  Counted'
  BY <1>0, <1>18 DEF Counted, Kept, Drafted,
         MetaFlush, AppendReturns,
         Control, Locking, Working, Active, StoreLabels, BootLabels, MetaLabels,
         TypeOK, DiskType, StoreType, RecorderType, ThreadType, HistoryType
<1>19. CASE LoadInvalid
  BY <1>0, <1>19 DEF Counted, Kept, Drafted,
         LoadInvalid, Fault,
         Control, Locking, Working, Active, StoreLabels, BootLabels, MetaLabels,
         TypeOK, DiskType, StoreType, RecorderType, ThreadType, HistoryType
<1>20. CASE Load
  BY <1>0, <1>20 DEF Counted, Kept, Drafted,
         Load, Torn,
         Control, Locking, Working, Active, StoreLabels, BootLabels, MetaLabels,
         TypeOK, DiskType, StoreType, RecorderType, ThreadType, HistoryType
<1>21. CASE CopyTail
  BY <1>0, <1>21 DEF Counted, Kept, Drafted,
         CopyTail,
         Control, Locking, Working, Active, StoreLabels, BootLabels, MetaLabels,
         TypeOK, DiskType, StoreType, RecorderType, ThreadType, HistoryType
<1>22. CASE Truncate
  <2>. DEFINE e == LastRecordEnd(file)
  <2>1. /\ file \in Seq(Unit) /\ synced = Len(file) /\ mem = NoMeta
        /\ {meta, metaSync, draft} \subseteq Meta \union {NoMeta}
        /\ CountsIn(draft, file, Len(file))
    BY <1>0, <1>22, TruncateEffect DEF TypeOK, DiskType, StoreType, Kept, BootLabels, Counted
  <2>2. /\ e \in 0..Len(file) /\ \A i \in (e + 1)..Len(file) : file[i].part = 1
        /\ file' \in Seq(Unit) /\ Len(file') = e /\ \A i \in 1..e : file'[i] = file[i]
        /\ synced' = e
    BY <1>22, TruncateEffect
  <2>. HIDE DEF e
  <2>3. \A m \in Meta : CountsIn(m, file, Len(file)) => CountsIn(m, file', synced')
    BY <2>1, <2>2, CountsTruncate
  <2>4. CountsIn(draft', file', synced')
    BY <1>22, <2>1, <2>3, TruncateEffect, CountsOfEqual
  <2>. QED
    BY <1>22, <2>1, <2>3, <2>4, TruncateEffect DEF Counted
<1>23. CASE Reconcile
  <2>1. /\ file \in Seq(Unit) /\ synced = Len(file) /\ ~Torn(file)
        /\ CountsIn(draft, file, Len(file))
    BY <1>0, <1>23, ReconcileEffect DEF TypeOK, DiskType, Kept, BootLabels, Counted, Shaped
  <2>2. CountsIn(mem', file, Len(file))
    BY <1>23, <2>1, ReconcileEffect, CountsWhole, CountsOfEqual
  <2>. QED
    BY <1>23, <2>1, <2>2, ReconcileEffect DEF Counted
<1>24. CASE RecoveryDone
  <2>1. /\ pc' = [pc EXCEPT ![Main] = "recovered"] /\ KeepOrEvict
        /\ \A p \in Procs : pc'[p] \notin MetaLabels \union BootLabels
    BY <1>0, <1>24 DEF RecoveryDone, Control, MetaLabels, BootLabels, TypeOK, ThreadType
  <2>. QED
    BY <2>1 DEF Counted, KeepOrEvict, RemoveDirectory
<1>25. CASE RecoveryFails
  BY <1>25, DownEffect DEF Counted, StoreLabels, RecoveryFails, RemoveDirectory
<1>26. CASE Crash
  <2>1. /\ file \in Seq(Unit) /\ synced \in Nat /\ synced <= Len(file)
        /\ {meta, metaSync} \subseteq Meta \union {NoMeta}
    BY <1>0 DEF TypeOK, DiskType, Shaped
  <2>2. PICK n \in synced..Len(file) : file' = SubSeq(file, 1, n) /\ synced' = n
    BY <1>26 DEF Crash
  <2>3. /\ n \in Nat /\ file' \in Seq(Unit) /\ Len(file') = n
        /\ \A i \in 1..synced : file'[i] = file[i]
    BY <2>1, <2>2
  <2>4. \A m \in Meta : CountsIn(m, file, synced) => CountsIn(m, file', synced')
    <3>1. synced <= n /\ n <= Len(file') /\ synced <= Len(file) /\ synced' = n
      BY <2>1, <2>2, <2>3
    <3>. QED  BY <2>1, <2>3, <3>1, CountsExtend
  <2>5. /\ mem' = NoMeta /\ meta' \in {meta, metaSync} /\ metaSync' = meta'
        /\ \A p \in Procs : pc'[p] \notin MetaLabels \union BootLabels
    BY <1>26, DownEffect DEF Crash, ProcessEnds, StoreLabels
  <2>. QED
    BY <2>1, <2>4, <2>5 DEF Counted
<1>27. CASE Closed \/ UNCHANGED vars
  BY <1>27 DEF Counted, Closed, vars, thread
<1>. QED
  BY <1>1, <1>2, <1>3, <1>4, <1>5, <1>6, <1>7, <1>8, <1>9, <1>10, <1>11, <1>12, <1>13, <1>14, <1>15, <1>16, <1>17, <1>18, <1>19, <1>20, <1>21, <1>22, <1>23, <1>24, <1>25, <1>26, <1>27
  DEF Next, ThreadStep, WriteMetadata, Recovery

\* Every step of _load_and_recover_locked keeps the counters it has taken from
\* the evidence, and what it has stored of them.
LEMMA RecoveredKept ==
    ASSUME LogInv, Kept, Drafted, Settled, Shaped, Counted, Recovered, [Next]_vars
    PROVE  Recovered'
<1>. USE LogConstants DEF disk, store, recorder, history, bounds, Procs, Goto
<1>0. TypeOK /\ Control /\ Locking /\ Working /\ (~lapsed => Numbered /\ Extent)
  BY DEF LogInv
<1>1. CASE Create
  BY <1>0, <1>1 DEF Recovered, Kept, Drafted,
         Create, NewMeta,
         Control, Locking, Working, Active, StoreLabels, BootLabels, MetaLabels,
         TypeOK, DiskType, StoreType, RecorderType, ThreadType, HistoryType
<1>2. CASE CreateFails
  BY <1>0, <1>2 DEF Recovered, Kept, Drafted,
         CreateFails, Fault,
         Control, Locking, Working, Active, StoreLabels, BootLabels, MetaLabels,
         TypeOK, DiskType, StoreType, RecorderType, ThreadType, HistoryType
<1>3. CASE CreateUndone
  BY <1>0, <1>3 DEF Recovered, Kept, Drafted,
         CreateUndone, Fault, TmpAfterFailure,
         Control, Locking, Working, Active, StoreLabels, BootLabels, MetaLabels,
         TypeOK, DiskType, StoreType, RecorderType, ThreadType, HistoryType
<1>4. ASSUME NEW t \in Threads, NEW k \in RecordKinds, Append1(t, k)
      PROVE  Recovered'
  BY <1>0, <1>4 DEF Recovered, Kept, Drafted,
         Append1,
         Control, Locking, Working, Active, StoreLabels, BootLabels, MetaLabels,
         TypeOK, DiskType, StoreType, RecorderType, ThreadType, HistoryType
<1>5. ASSUME NEW t \in Threads, Report(t)
      PROVE  Recovered'
  BY <1>0, <1>5 DEF Recovered, Kept, Drafted,
         Report,
         Control, Locking, Working, Active, StoreLabels, BootLabels, MetaLabels,
         TypeOK, DiskType, StoreType, RecorderType, ThreadType, HistoryType
<1>6. ASSUME NEW t \in Threads, EnterAppend(t)
      PROVE  Recovered'
  BY <1>0, <1>6 DEF Recovered, Kept, Drafted,
         EnterAppend, RaiseOSError,
         Control, Locking, Working, Active, StoreLabels, BootLabels, MetaLabels,
         TypeOK, DiskType, StoreType, RecorderType, ThreadType, HistoryType
<1>7. ASSUME NEW t \in Threads, WriteEvidence(t)
      PROVE  Recovered'
  BY <1>0, <1>7 DEF Recovered, Kept, Drafted,
         WriteEvidence, Body, End,
         Control, Locking, Working, Active, StoreLabels, BootLabels, MetaLabels,
         TypeOK, DiskType, StoreType, RecorderType, ThreadType, HistoryType
<1>8. ASSUME NEW t \in Threads, WriteFails(t)
      PROVE  Recovered'
  BY <1>0, <1>8, AppendFailsEffect DEF Recovered, Kept, Drafted,
         Control, Locking, Working, Active, StoreLabels, BootLabels, MetaLabels,
         TypeOK, DiskType, StoreType, RecorderType, ThreadType, HistoryType
<1>9. ASSUME NEW t \in Threads, SyncEvidence(t)
      PROVE  Recovered'
  BY <1>0, <1>9, SyncEffect DEF Recovered, Kept, Drafted,
         Control, Locking, Working, Active, StoreLabels, BootLabels, MetaLabels,
         TypeOK, DiskType, StoreType, RecorderType, ThreadType, HistoryType
<1>10. ASSUME NEW t \in Threads, SyncFails(t)
      PROVE  Recovered'
  BY <1>0, <1>10, AppendFailsEffect DEF Recovered, Kept, Drafted,
         Control, Locking, Working, Active, StoreLabels, BootLabels, MetaLabels,
         TypeOK, DiskType, StoreType, RecorderType, ThreadType, HistoryType
<1>11. ASSUME NEW t \in Threads, Commit(t)
      PROVE  Recovered'
  BY <1>0, <1>11 DEF Recovered, Kept, Drafted,
         Commit,
         Control, Locking, Working, Active, StoreLabels, BootLabels, MetaLabels,
         TypeOK, DiskType, StoreType, RecorderType, ThreadType, HistoryType
<1>12. ASSUME NEW t \in Threads, Finish(t)
      PROVE  Recovered'
  BY <1>0, <1>12, FinishEffect DEF Recovered, Kept, Drafted,
         history,
         Control, Locking, Working, Active, StoreLabels, BootLabels, MetaLabels,
         TypeOK, DiskType, StoreType, RecorderType, ThreadType, HistoryType
<1>13. ASSUME NEW t \in Threads, MetaFails(t)
      PROVE  Recovered'
  BY <1>0, <1>13, MetaFailsEffect DEF Recovered, Kept, Drafted,
         history,
         Control, Locking, Working, Active, StoreLabels, BootLabels, MetaLabels,
         TypeOK, DiskType, StoreType, RecorderType, ThreadType, HistoryType
<1>14. ASSUME NEW t \in Threads, Retain(t)
      PROVE  Recovered'
  BY <1>0, <1>14, RetainEffect DEF Recovered, Kept, Drafted,
         history,
         Control, Locking, Working, Active, StoreLabels, BootLabels, MetaLabels,
         TypeOK, DiskType, StoreType, RecorderType, ThreadType, HistoryType
<1>15. ASSUME NEW t \in Threads, RetainFails(t)
      PROVE  Recovered'
  BY <1>0, <1>15, RetainEffect DEF Recovered, Kept, Drafted,
         history,
         Control, Locking, Working, Active, StoreLabels, BootLabels, MetaLabels,
         TypeOK, DiskType, StoreType, RecorderType, ThreadType, HistoryType
<1>16. ASSUME NEW p \in Procs, MetaTemp(p)
      PROVE  Recovered'
  BY <1>0, <1>16 DEF Recovered, Kept, Drafted,
         MetaTemp,
         Control, Locking, Working, Active, StoreLabels, BootLabels, MetaLabels,
         TypeOK, DiskType, StoreType, RecorderType, ThreadType, HistoryType
<1>17. ASSUME NEW p \in Procs, MetaRename(p)
      PROVE  Recovered'
  BY <1>0, <1>17 DEF Recovered, Kept, Drafted,
         MetaRename,
         Control, Locking, Working, Active, StoreLabels, BootLabels, MetaLabels,
         TypeOK, DiskType, StoreType, RecorderType, ThreadType, HistoryType
<1>18. ASSUME NEW p \in Procs, MetaFlush(p)
      PROVE  Recovered'
  BY <1>0, <1>18 DEF Recovered, Kept, Drafted,
         MetaFlush, AppendReturns,
         Control, Locking, Working, Active, StoreLabels, BootLabels, MetaLabels,
         TypeOK, DiskType, StoreType, RecorderType, ThreadType, HistoryType
<1>19. CASE LoadInvalid
  BY <1>0, <1>19 DEF Recovered, Kept, Drafted,
         LoadInvalid, Fault,
         Control, Locking, Working, Active, StoreLabels, BootLabels, MetaLabels,
         TypeOK, DiskType, StoreType, RecorderType, ThreadType, HistoryType
<1>20. CASE Load
  BY <1>0, <1>20 DEF Recovered, Kept, Drafted,
         Load, Torn,
         Control, Locking, Working, Active, StoreLabels, BootLabels, MetaLabels,
         TypeOK, DiskType, StoreType, RecorderType, ThreadType, HistoryType
<1>21. CASE CopyTail
  BY <1>0, <1>21 DEF Recovered, Kept, Drafted,
         CopyTail,
         Control, Locking, Working, Active, StoreLabels, BootLabels, MetaLabels,
         TypeOK, DiskType, StoreType, RecorderType, ThreadType, HistoryType
<1>22. CASE Truncate
  BY <1>0, <1>22, TruncateEffect DEF Recovered, Kept, Drafted,
         Control, Locking, Working, Active, StoreLabels, BootLabels, MetaLabels,
         TypeOK, DiskType, StoreType, RecorderType, ThreadType, HistoryType
<1>23. CASE Reconcile
  <2>1. /\ file \in Seq(Unit) /\ synced = Len(file) /\ ~Torn(file)
        /\ CountsIn(draft, file, Len(file))
    BY <1>0, <1>23, ReconcileEffect DEF TypeOK, DiskType, Kept, BootLabels, Counted, Shaped
  <2>2. mem'.records = ScanRecords(file) /\ mem'.bytes = Len(file) /\ mem'.status # "active"
    BY <1>23, <2>1, ReconcileEffect, CountsWhole
  <2>. QED
    BY <1>0, <1>23, <2>1, <2>2, ReconcileEffect
    DEF Recovered, MetaLabels, TypeOK, ThreadType, Procs
<1>24. CASE RecoveryDone
  BY <1>0, <1>24 DEF Recovered, Kept, Drafted,
         RecoveryDone, KeepOrEvict, RemoveDirectory,
         Control, Locking, Working, Active, StoreLabels, BootLabels, MetaLabels,
         TypeOK, DiskType, StoreType, RecorderType, ThreadType, HistoryType
<1>25. CASE RecoveryFails
  BY <1>0, <1>25, DownEffect DEF Recovered, Kept, Drafted,
         Control, Locking, Working, Active, StoreLabels, BootLabels, MetaLabels,
         TypeOK, DiskType, StoreType, RecorderType, ThreadType, HistoryType
<1>26. CASE Crash
  BY <1>0, <1>26, DownEffect DEF Recovered, Kept, Drafted,
         Control, Locking, Working, Active, StoreLabels, BootLabels, MetaLabels,
         TypeOK, DiskType, StoreType, RecorderType, ThreadType, HistoryType
<1>27. CASE Closed \/ UNCHANGED vars
  BY <1>0, <1>27 DEF Recovered, Kept, Drafted,
         Closed, vars, thread,
         Control, Locking, Working, Active, StoreLabels, BootLabels, MetaLabels,
         TypeOK, DiskType, StoreType, RecorderType, ThreadType, HistoryType
<1>. QED
  BY <1>1, <1>2, <1>3, <1>4, <1>5, <1>6, <1>7, <1>8, <1>9, <1>10, <1>11, <1>12, <1>13, <1>14, <1>15, <1>16, <1>17, <1>18, <1>19, <1>20, <1>21, <1>22, <1>23, <1>24, <1>25, <1>26, <1>27
  DEF Next, ThreadStep, WriteMetadata, Recovery

\* Every step keeps the line an append has written until the append returns.
LEMMA WritingKept ==
    ASSUME LogInv, Kept, Drafted, Writing, [Next]_vars
    PROVE  Writing'
<1>. USE LogConstants DEF disk, store, recorder, history, bounds, Procs, Goto
<1>0. TypeOK /\ Control /\ Locking /\ Working /\ (~lapsed => Numbered /\ Extent)
  BY DEF LogInv
<1>1. CASE Create
  BY <1>0, <1>1 DEF Writing, Extent, Acked,
         Create, NewMeta,
         Control, Locking, Working, Active, StoreLabels, BootLabels, MetaLabels,
         TypeOK, DiskType, StoreType, RecorderType, ThreadType, HistoryType
<1>2. CASE CreateFails
  BY <1>0, <1>2 DEF Writing, Extent, Acked,
         CreateFails, Fault,
         Control, Locking, Working, Active, StoreLabels, BootLabels, MetaLabels,
         TypeOK, DiskType, StoreType, RecorderType, ThreadType, HistoryType
<1>3. CASE CreateUndone
  BY <1>0, <1>3 DEF Writing, Extent, Acked,
         CreateUndone, Fault, TmpAfterFailure,
         Control, Locking, Working, Active, StoreLabels, BootLabels, MetaLabels,
         TypeOK, DiskType, StoreType, RecorderType, ThreadType, HistoryType
<1>4. ASSUME NEW t \in Threads, NEW k \in RecordKinds, Append1(t, k)
      PROVE  Writing'
  BY <1>0, <1>4 DEF Writing, Extent, Acked,
         Append1,
         Control, Locking, Working, Active, StoreLabels, BootLabels, MetaLabels,
         TypeOK, DiskType, StoreType, RecorderType, ThreadType, HistoryType
<1>5. ASSUME NEW t \in Threads, Report(t)
      PROVE  Writing'
  BY <1>0, <1>5 DEF Writing, Extent, Acked,
         Report,
         Control, Locking, Working, Active, StoreLabels, BootLabels, MetaLabels,
         TypeOK, DiskType, StoreType, RecorderType, ThreadType, HistoryType
<1>6. ASSUME NEW t \in Threads, EnterAppend(t)
      PROVE  Writing'
  BY <1>0, <1>6 DEF Writing, Extent, Acked,
         EnterAppend, RaiseOSError,
         Control, Locking, Working, Active, StoreLabels, BootLabels, MetaLabels,
         TypeOK, DiskType, StoreType, RecorderType, ThreadType, HistoryType
<1>7. ASSUME NEW t \in Threads, WriteEvidence(t)
      PROVE  Writing'
  <2>0. /\ pc[t] = "write" /\ op[t] = "append" /\ t # Main /\ ThreadType
        /\ file \in Seq(Unit) /\ next \in Nat \ {0}
    BY <1>0, <1>7 DEF WriteEvidence, Control, StoreLabels, TypeOK, DiskType, RecorderType
  <2>1. /\ file' = file \o <<Body(next, kind[t]), End(next, kind[t])>>
        /\ pc' = [pc EXCEPT ![t] = "sync"] /\ UNCHANGED <<dir, op, kind, next, lapsed>>
    BY <1>7 DEF WriteEvidence
  <2>2. ~lapsed /\ dir => Len(file) = Acked
    <3>1. t \in Procs /\ Active
      BY <1>0, <2>0 DEF Working, Procs
    <3>. QED  BY <1>0, <2>0, <3>1 DEF Extent
  <2>3. ~lapsed /\ dir => file'[Acked + 1] = Body(next, kind[t])
                          /\ file'[Acked + 2] = End(next, kind[t])
    <3>1. Acked \in Nat /\ file \in Seq(Unit)
      BY <2>0 DEF Acked
    <3>2. Body(next, kind[t]) \in Unit /\ End(next, kind[t]) \in Unit
      BY <2>0, <1>0 DEF Body, End, Unit, TypeOK, ThreadType
    <3>. DEFINE body == Body(next, kind[t])
                end  == End(next, kind[t])
    <3>3. body \in Unit /\ end \in Unit /\ file' = file \o <<body, end>>
      BY <2>1, <3>2
    <3>. HIDE DEF body, end
    <3>4. file'[Len(file) + 1] = body /\ file'[Len(file) + 2] = end
      BY <3>1, <3>3
    <3>5. ~lapsed /\ dir => file'[Acked + 1] = body /\ file'[Acked + 2] = end
      BY <2>2, <3>4
    <3>. QED  BY <3>5 DEF body, end
  <2>4. \A u \in Threads : u # t /\ pc[u] # "idle" => op[u] = "report"
    BY <1>0, <2>0 DEF Locking
  <2>5. \A u \in Threads : u # t =>
           pc'[u] = pc[u] /\ (pc[u] = "idle" \/ op'[u] = "report")
    BY <2>0, <2>1, <2>4 DEF ThreadType
  <2>6. pc'[t] = "sync"
    BY <2>0, <2>1 DEF ThreadType
  <2>7. /\ Acked' = Acked /\ kind' = kind /\ dir' = dir /\ lapsed' = lapsed
        /\ End(next, kind[t])' = End(next, kind[t])
        /\ Body(next, kind[t]).kind = kind[t]
    BY <2>1 DEF Acked, Body, End
  <2>8. ASSUME ~lapsed', dir'
        PROVE  /\ file'[Acked' + 1].kind = kind'[t]
               /\ file'[Acked' + 2] = End(next, kind[t])'
    BY <2>3, <2>7, <2>8
  <2>. QED  BY <2>5, <2>6, <2>8 DEF Writing, MetaLabels
<1>8. ASSUME NEW t \in Threads, WriteFails(t)
      PROVE  Writing'
  <2>1. \A u \in Threads : u # t /\ pc[u] # "idle" => op[u] = "report"
    BY <1>0, <1>8, AppendFailsEffect DEF Locking
  <2>2. \A u \in Threads : pc'[u] # "idle" => op'[u] \in {"fail", "report"}
    BY <1>0, <1>8, <2>1, AppendFailsEffect DEF TypeOK, ThreadType
  <2>3. \A u \in Threads : pc'[u] \in MetaLabels \union {"sync", "finish", "retain", "commit"}
                            => pc'[u] # "idle"
    BY DEF MetaLabels
  <2>. QED
    BY <2>2, <2>3 DEF Writing
<1>9. ASSUME NEW t \in Threads, SyncEvidence(t)
      PROVE  Writing'
  BY <1>0, <1>9, SyncEffect DEF Writing, Extent, Acked,
         Control, Locking, Working, Active, StoreLabels, BootLabels, MetaLabels,
         TypeOK, DiskType, StoreType, RecorderType, ThreadType, HistoryType
<1>10. ASSUME NEW t \in Threads, SyncFails(t)
      PROVE  Writing'
  <2>1. \A u \in Threads : u # t /\ pc[u] # "idle" => op[u] = "report"
    BY <1>0, <1>10, AppendFailsEffect DEF Locking
  <2>2. \A u \in Threads : pc'[u] # "idle" => op'[u] \in {"fail", "report"}
    BY <1>0, <1>10, <2>1, AppendFailsEffect DEF TypeOK, ThreadType
  <2>3. \A u \in Threads : pc'[u] \in MetaLabels \union {"sync", "finish", "retain", "commit"}
                            => pc'[u] # "idle"
    BY DEF MetaLabels
  <2>. QED
    BY <2>2, <2>3 DEF Writing
<1>11. ASSUME NEW t \in Threads, Commit(t)
      PROVE  Writing'
  BY <1>0, <1>11 DEF Writing, Extent, Acked,
         Commit,
         Control, Locking, Working, Active, StoreLabels, BootLabels, MetaLabels,
         TypeOK, DiskType, StoreType, RecorderType, ThreadType, HistoryType
<1>12. ASSUME NEW t \in Threads, Finish(t)
      PROVE  Writing'
  <2>1. \A u \in Threads :
          op'[u] \in {"append", "finish"}
          /\ pc'[u] \in MetaLabels \union {"sync", "finish", "retain", "commit"} =>
             /\ op'[u] = op[u]
             /\ pc[u] \in MetaLabels \union {"sync", "finish", "retain", "commit"}
    BY <1>12, FinishEffect DEF MetaLabels, Procs
  <2>2. \A u \in Threads : pc'[u] = "commit" => pc[u] = "commit" /\ op'[u] = op[u]
    BY <1>12, FinishEffect DEF Procs
  <2>3. ~lapsed' => ~lapsed
    BY <1>12, <1>0, FinishEffect DEF history, Control
  <2>. QED
    BY <1>12, <2>1, <2>2, <2>3, FinishEffect DEF Writing, Active, Acked
<1>13. ASSUME NEW t \in Threads, MetaFails(t)
      PROVE  Writing'
  <2>1. \A u \in Threads :
          op'[u] \in {"append", "finish"}
          /\ pc'[u] \in MetaLabels \union {"sync", "finish", "retain", "commit"} =>
             /\ op'[u] = op[u]
             /\ pc[u] \in MetaLabels \union {"sync", "finish", "retain", "commit"}
    BY <1>13, MetaFailsEffect DEF MetaLabels, Procs
  <2>2. \A u \in Threads : pc'[u] = "commit" => pc[u] = "commit" /\ op'[u] = op[u]
    BY <1>13, MetaFailsEffect DEF Procs
  <2>3. ~lapsed' => ~lapsed
    BY <1>13, <1>0, MetaFailsEffect DEF history, Control
  <2>. QED
    BY <1>13, <2>1, <2>2, <2>3, MetaFailsEffect DEF Writing, Active, Acked
<1>14. ASSUME NEW t \in Threads, Retain(t)
      PROVE  Writing'
  BY <1>0, <1>14, RetainEffect, SMTT(30) DEF Writing, Extent, Acked,
         history,
         Control, Locking, Working, Active, StoreLabels, BootLabels, MetaLabels,
         TypeOK, DiskType, StoreType, RecorderType, ThreadType, HistoryType
<1>15. ASSUME NEW t \in Threads, RetainFails(t)
      PROVE  Writing'
  <2>1. /\ pc[t] = "retain" /\ (lapsed => lapsed')
        /\ \A u \in Threads : u # t => pc'[u] = pc[u] /\ op'[u] = op[u]
        /\ UNCHANGED <<file, dir>> \/ ~dir'
        /\ UNCHANGED <<next, kind, mem>> \/ mem' = NoMeta
    BY <1>0, <1>15, RetainEffect DEF TypeOK, HistoryType
  <2>2. UNCHANGED <<next, kind>> /\ ~(mem' # NoMeta /\ mem'.status = "active")
    BY <1>15, RetainEffect DEF Active
  <2>3. pc'[t] = "idle" \/ op'[t] = "fail"
    BY <1>0, <1>15 DEF RetainFails, RaiseOSError, TypeOK, ThreadType
  <2>. QED  BY <1>0, <2>1, <2>2, <2>3 DEF Writing, Acked, Active, MetaLabels
<1>16. ASSUME NEW p \in Procs, MetaTemp(p)
      PROVE  Writing'
  BY <1>0, <1>16 DEF Writing, Extent, Acked,
         MetaTemp,
         Control, Locking, Working, Active, StoreLabels, BootLabels, MetaLabels,
         TypeOK, DiskType, StoreType, RecorderType, ThreadType, HistoryType
<1>17. ASSUME NEW p \in Procs, MetaRename(p)
      PROVE  Writing'
  BY <1>0, <1>17 DEF Writing, Extent, Acked,
         MetaRename,
         Control, Locking, Working, Active, StoreLabels, BootLabels, MetaLabels,
         TypeOK, DiskType, StoreType, RecorderType, ThreadType, HistoryType
<1>18. ASSUME NEW p \in Procs, MetaFlush(p)
      PROVE  Writing'
  BY <1>0, <1>18 DEF Writing, Extent, Acked,
         MetaFlush, AppendReturns,
         Control, Locking, Working, Active, StoreLabels, BootLabels, MetaLabels,
         TypeOK, DiskType, StoreType, RecorderType, ThreadType, HistoryType
<1>19. CASE LoadInvalid
  BY <1>0, <1>19 DEF Writing, Extent, Acked,
         LoadInvalid, Fault,
         Control, Locking, Working, Active, StoreLabels, BootLabels, MetaLabels,
         TypeOK, DiskType, StoreType, RecorderType, ThreadType, HistoryType
<1>20. CASE Load
  BY <1>0, <1>20 DEF Writing, Extent, Acked,
         Load, Torn,
         Control, Locking, Working, Active, StoreLabels, BootLabels, MetaLabels,
         TypeOK, DiskType, StoreType, RecorderType, ThreadType, HistoryType
<1>21. CASE CopyTail
  BY <1>0, <1>21 DEF Writing, Extent, Acked,
         CopyTail,
         Control, Locking, Working, Active, StoreLabels, BootLabels, MetaLabels,
         TypeOK, DiskType, StoreType, RecorderType, ThreadType, HistoryType
<1>22. CASE Truncate
  BY <1>0, <1>22, TruncateEffect DEF Writing, Extent, Acked,
         Control, Locking, Working, Active, StoreLabels, BootLabels, MetaLabels,
         TypeOK, DiskType, StoreType, RecorderType, ThreadType, HistoryType
<1>23. CASE Reconcile
  BY <1>0, <1>23, ReconcileEffect DEF Writing, Extent, Acked,
         Control, Locking, Working, Active, StoreLabels, BootLabels, MetaLabels,
         TypeOK, DiskType, StoreType, RecorderType, ThreadType, HistoryType
<1>24. CASE RecoveryDone
  BY <1>0, <1>24 DEF Writing, Extent, Acked,
         RecoveryDone, KeepOrEvict, RemoveDirectory,
         Control, Locking, Working, Active, StoreLabels, BootLabels, MetaLabels,
         TypeOK, DiskType, StoreType, RecorderType, ThreadType, HistoryType
<1>25. CASE RecoveryFails
  BY <1>0, <1>25, DownEffect DEF Writing, Extent, Acked,
         Control, Locking, Working, Active, StoreLabels, BootLabels, MetaLabels,
         TypeOK, DiskType, StoreType, RecorderType, ThreadType, HistoryType
<1>26. CASE Crash
  BY <1>0, <1>26, DownEffect DEF Writing, Extent, Acked,
         Control, Locking, Working, Active, StoreLabels, BootLabels, MetaLabels,
         TypeOK, DiskType, StoreType, RecorderType, ThreadType, HistoryType
<1>27. CASE Closed \/ UNCHANGED vars
  BY <1>27 DEF Writing, Active, Acked, Closed, vars, thread
<1>. QED
  BY <1>1, <1>2, <1>3, <1>4, <1>5, <1>6, <1>7, <1>8, <1>9, <1>10, <1>11, <1>12, <1>13, <1>14, <1>15, <1>16, <1>17, <1>18, <1>19, <1>20, <1>21, <1>22, <1>23, <1>24, <1>25, <1>26, <1>27
  DEF Next, ThreadStep, WriteMetadata, Recovery

\* Every step keeps a session that is open free of terminal lines and of
\* metadata that says completed or cancelled.
LEMMA OpenKept ==
    ASSUME LogInv, Kept, Drafted, Shaped, Sealed, Writing, Open, [Next]_vars
    PROVE  Open'
<1>. USE LogConstants DEF disk, store, recorder, history, bounds, Procs, Goto
<1>0. TypeOK /\ Control /\ Locking /\ Working /\ (~lapsed => Numbered /\ Extent)
  BY DEF LogInv
<1>1. CASE Create
  <2>1. meta' = NoMeta /\ metaSync' = NoMeta /\ pc'[Main] = "temp"
    BY <1>0, <1>1 DEF Create, Kept, TypeOK, ThreadType
  <2>2. \A u \in Threads : pc'[u] = "idle"
    BY <1>0, <1>1 DEF Create, Control, TypeOK, ThreadType
  <2>. QED
    BY <2>1, <2>2 DEF Open, Unsealed
<1>2. CASE CreateFails
  BY <1>0, <1>2 DEF Open, Kept, Drafted, Unsealed, Writing, Extent, Acked,
         CreateFails, Fault,
         Control, Locking, Working, Active, StoreLabels, BootLabels, MetaLabels,
         TypeOK, DiskType, StoreType, RecorderType, ThreadType, HistoryType
<1>3. CASE CreateUndone
  BY <1>0, <1>3 DEF Open, Kept, Drafted, Unsealed, Writing, Extent, Acked,
         CreateUndone, Fault, TmpAfterFailure,
         Control, Locking, Working, Active, StoreLabels, BootLabels, MetaLabels,
         TypeOK, DiskType, StoreType, RecorderType, ThreadType, HistoryType
<1>4. ASSUME NEW t \in Threads, NEW k \in RecordKinds, Append1(t, k)
      PROVE  Open'
  <2>1. /\ pc[t] = "idle" /\ recLock = None /\ pc[Main] = "serving" /\ op'[t] = "append"
        /\ pc' = [pc EXCEPT ![t] = pc'[t]] /\ op' = [op EXCEPT ![t] = op'[t]]
        /\ next' = next /\ recLock' = t /\ t # Main
        /\ UNCHANGED <<mem, meta, metaSync, file, lapsed>>
    BY <1>0, <1>4 DEF Append1, Control, TypeOK, ThreadType
  <2>2. Len(file) = 2 * (next - 1) \/ lapsed \/ ~Active
    BY <1>0, <2>1 DEF Extent, Acked, Active
  <2>. QED  BY <1>0, <2>1, <2>2 DEF Open, Active, PlainIn, Unsealed, Acked, TypeOK,
            ThreadType, RecorderType, DiskType, Control
<1>5. ASSUME NEW t \in Threads, Report(t)
      PROVE  Open'
  BY <1>0, <1>5 DEF Open, Kept, Drafted, Unsealed, Writing, Extent, Acked,
         Report,
         Control, Locking, Working, Active, StoreLabels, BootLabels, MetaLabels,
         TypeOK, DiskType, StoreType, RecorderType, ThreadType, HistoryType
<1>6. ASSUME NEW t \in Threads, EnterAppend(t)
      PROVE  Open'
  BY <1>0, <1>6 DEF Open, Kept, Drafted, Unsealed, Writing, Extent, Acked,
         EnterAppend, RaiseOSError,
         Control, Locking, Working, Active, StoreLabels, BootLabels, MetaLabels,
         TypeOK, DiskType, StoreType, RecorderType, ThreadType, HistoryType
<1>7. ASSUME NEW t \in Threads, WriteEvidence(t)
      PROVE  Open'
  <2>1. /\ Active /\ op[t] = "append" /\ recLock = t /\ pc[Main] = "serving"
        /\ UNCHANGED <<mem, meta, metaSync, op, recLock, next, lapsed>>
        /\ pc' = [pc EXCEPT ![t] = "sync"]
        /\ file \in Seq(Unit) /\ next \in Nat
    BY <1>0, <1>7 DEF WriteEvidence, Working, Control, Locking, TypeOK, DiskType, RecorderType
  <2>2. \A i \in 1..Len(file) : file'[i] = file[i]
    BY <1>7, <2>1 DEF WriteEvidence
  <2>3. \A u \in Threads : pc'[u] # "idle" /\ op'[u] = "append" => u = t
    BY <1>0, <2>1 DEF Locking, TypeOK, ThreadType
  <2>4. CASE ~lapsed
    <3>1. Len(file) = Acked /\ Acked' = Acked
      BY <1>0, <1>7, <2>1, <2>4 DEF Extent, WriteEvidence, Acked
    <3>2. PlainIn(file, Acked) /\ Unsealed(meta) /\ Unsealed(metaSync)
      BY <1>7, <2>1, <2>4 DEF Open, WriteEvidence
    <3>3. PlainIn(file', Acked')
      BY <2>2, <3>1, <3>2 DEF PlainIn
    <3>4. pc'[Main] = "serving"
      BY <1>0, <2>1 DEF TypeOK, ThreadType
    <3>. QED  BY <2>1, <2>3, <3>2, <3>3, <3>4 DEF Open, Unsealed
  <2>5. CASE lapsed
    BY <2>1, <2>5 DEF Open
  <2>. QED  BY <2>4, <2>5
<1>8. ASSUME NEW t \in Threads, WriteFails(t)
      PROVE  Open'
  <2>1. recLock' = t /\ \A u \in Threads : u # t /\ pc[u] # "idle" => op[u] = "report"
    BY <1>0, <1>8, AppendFailsEffect DEF Locking
  <2>2. \A u \in Threads : pc'[u] # "idle" => op'[u] # "append"
    BY <1>0, <1>8, <2>1, AppendFailsEffect DEF TypeOK, ThreadType
  <2>3. pc'[Main] = "serving"
    BY <1>0, <1>8, AppendFailsEffect DEF Control, TypeOK, ThreadType
  <2>. QED
    BY <2>1, <2>2, <2>3 DEF Open
<1>9. ASSUME NEW t \in Threads, SyncEvidence(t)
      PROVE  Open'
  BY <1>0, <1>9, SyncEffect DEF Open, Kept, Drafted, Unsealed, Writing, Extent, Acked,
         Control, Locking, Working, Active, StoreLabels, BootLabels, MetaLabels,
         TypeOK, DiskType, StoreType, RecorderType, ThreadType, HistoryType
<1>10. ASSUME NEW t \in Threads, SyncFails(t)
      PROVE  Open'
  <2>1. recLock' = t /\ \A u \in Threads : u # t /\ pc[u] # "idle" => op[u] = "report"
    BY <1>0, <1>10, AppendFailsEffect DEF Locking
  <2>2. \A u \in Threads : pc'[u] # "idle" => op'[u] # "append"
    BY <1>0, <1>10, <2>1, AppendFailsEffect DEF TypeOK, ThreadType
  <2>3. pc'[Main] = "serving"
    BY <1>0, <1>10, AppendFailsEffect DEF Control, TypeOK, ThreadType
  <2>. QED
    BY <2>1, <2>2, <2>3 DEF Open
<1>11. ASSUME NEW t \in Threads, Commit(t)
      PROVE  Open'
  <2>1. /\ pc[t] = "commit" /\ pc[Main] = "serving" /\ recLock = t /\ next' = next + 1
        /\ op[t] \in {"append", "finish"} /\ pc' = [pc EXCEPT ![t] = "idle"]
        /\ UNCHANGED <<dir, file, synced, mem, meta, metaSync, op, kind, lapsed>>
        /\ file \in Seq(Unit) /\ synced \in Nat /\ next \in Nat \ {0}
    BY <1>0, <1>11 DEF Commit, Control, Locking, TypeOK, DiskType, RecorderType
  <2>2. \A u \in Threads : pc'[u] # "idle" => op'[u] = "report"
    BY <1>0, <2>1 DEF Locking, TypeOK, ThreadType
  <2>3. ASSUME ~lapsed, Active
        PROVE  PlainIn(file, Len(file)) /\ Unsealed(meta) /\ Unsealed(metaSync)
    <3>1. op[t] = "append" /\ dir /\ kind[t] \notin TERMINAL_RECORDS
      BY <1>0, <2>1, <2>3 DEF Writing, Kept, Active
    <3>2. Len(file) = Acked + 2
      BY <1>0, <2>1, <2>3, <3>1 DEF Extent, Acked
    <3>3. PlainIn(file, Acked) /\ Unsealed(meta) /\ Unsealed(metaSync)
      BY <2>1, <2>3, <3>1 DEF Open
    <3>4. file[Acked + 1].kind = kind[t] /\ file[Acked + 2].kind = kind[t]
      <4>1. file[Acked + 1].kind = kind[t] /\ file[Acked + 2] = End(next, kind[t])
        BY <2>1, <2>3, <3>1 DEF Writing
      <4>. QED  BY <4>1 DEF End
    <3>5. PlainIn(file, Len(file))
      <4>1. Acked \in Nat
        BY <2>1 DEF Acked
      <4>2. \A i \in 1..Len(file) : i \in 1..Acked \/ i = Acked + 1 \/ i = Acked + 2
        BY <3>2, <4>1
      <4>. QED  BY <3>1, <3>2, <3>3, <3>4, <4>1, <4>2 DEF PlainIn
    <3>. QED  BY <3>3, <3>5
  <2>4. pc'[Main] = "serving"
    BY <1>0, <2>1 DEF TypeOK, ThreadType
  <2>. QED
    BY <2>1, <2>2, <2>3, <2>4 DEF Open, Active, Unsealed
<1>12. ASSUME NEW t \in Threads, Finish(t)
      PROVE  Open'
  <2>1. \A u \in Threads : pc'[u] # "idle" /\ op'[u] = "append" =>
          pc[u] # "idle" /\ op[u] = "append"
    BY <1>12, FinishEffect DEF Procs, MetaLabels
  <2>2. ~lapsed' => ~lapsed /\ recLock' = recLock
    BY <1>12, <1>0, FinishEffect DEF history, Control
  <2>3. pc[Main] = "serving" /\ pc'[Main] = "serving"
    BY <1>12, FinishEffect DEF Procs
  <2>. QED
    BY <1>12, <2>1, <2>2, <2>3, FinishEffect DEF Open, Active, Acked, Unsealed
<1>13. ASSUME NEW t \in Threads, MetaFails(t)
      PROVE  Open'
  <2>1. \A u \in Threads : pc'[u] # "idle" /\ op'[u] = "append" =>
          pc[u] # "idle" /\ op[u] = "append"
    BY <1>13, MetaFailsEffect DEF Procs, MetaLabels
  <2>2. ~lapsed' => ~lapsed /\ recLock' = recLock
    BY <1>13, <1>0, MetaFailsEffect DEF history, Control
  <2>3. pc[Main] = "serving" /\ pc'[Main] = "serving"
    BY <1>13, MetaFailsEffect DEF Procs
  <2>. QED
    BY <1>13, <2>1, <2>2, <2>3, MetaFailsEffect DEF Open, Active, Acked, Unsealed
<1>14. ASSUME NEW t \in Threads, Retain(t)
      PROVE  Open'
  BY <1>0, <1>14, RetainEffect DEF Open, Kept, Drafted, Unsealed, Writing, Extent, Acked,
         history,
         Control, Locking, Working, Active, StoreLabels, BootLabels, MetaLabels,
         TypeOK, DiskType, StoreType, RecorderType, ThreadType, HistoryType
<1>15. ASSUME NEW t \in Threads, RetainFails(t)
      PROVE  Open'
  BY <1>0, <1>15, RetainEffect DEF Open, Kept, Drafted, Unsealed, Writing, Extent, Acked,
         history,
         Control, Locking, Working, Active, StoreLabels, BootLabels, MetaLabels,
         TypeOK, DiskType, StoreType, RecorderType, ThreadType, HistoryType
<1>16. ASSUME NEW p \in Procs, MetaTemp(p)
      PROVE  Open'
  BY <1>0, <1>16 DEF Open, Kept, Drafted, Unsealed, Writing, Extent, Acked,
         MetaTemp,
         Control, Locking, Working, Active, StoreLabels, BootLabels, MetaLabels,
         TypeOK, DiskType, StoreType, RecorderType, ThreadType, HistoryType
<1>17. ASSUME NEW p \in Procs, MetaRename(p)
      PROVE  Open'
  <2>1. /\ pc[p] = "rename" /\ meta' = draft /\ pc' = [pc EXCEPT ![p] = "metasync"]
        /\ UNCHANGED <<file, mem, metaSync, op, recLock, next, lapsed>>
    BY <1>17 DEF MetaRename
  <2>2. CASE p = Main
    <3>1. /\ pc'[Main] = "metasync" /\ op[Main] \in {"create", "recover"}
          /\ \A u \in Threads : pc'[u] = "idle"
      BY <1>0, <2>1, <2>2 DEF Control, MetaLabels, TypeOK, ThreadType
    <3>2. CASE op[Main] = "recover"
      <4>1. ~Active
        BY <1>0, <2>1, <2>2, <3>2 DEF Working, MetaLabels
      <4>. QED  BY <2>1, <4>1 DEF Open, Active
    <3>3. CASE op[Main] = "create"
      <4>1. file = <<>> /\ ~lapsed
        BY <1>0, <2>1, <2>2, <3>3 DEF Working, Kept, MetaLabels
      <4>2. Unsealed(draft)
        BY <2>1, <2>2, <4>1 DEF Sealed, SealedIn, Unsealed, MetaLabels
      <4>. QED  BY <2>1, <2>2, <3>1, <4>2 DEF Open, Active, Unsealed, MetaLabels
    <3>. QED  BY <3>1, <3>2, <3>3
  <2>3. CASE p \in Threads
    <3>1. /\ pc[Main] = "serving" /\ pc'[Main] = "serving"
          /\ op[p] \in {"append", "finish", "fail", "report"}
          /\ \A u \in Threads : pc'[u] # "idle" /\ op'[u] = "append" =>
                pc[u] # "idle" /\ op[u] = "append"
      BY <1>0, <2>1, <2>3 DEF Control, MetaLabels, TypeOK, ThreadType
    <3>2. CASE op[p] \in {"append", "report"}
      <4>1. Active => Unsealed(draft)
        BY <2>1, <2>3, <3>2 DEF Drafted, Unsealed, Active, MetaLabels
      <4>. QED  BY <2>1, <3>1, <4>1 DEF Open, Active, Acked, Unsealed
    <3>3. CASE op[p] \in {"finish", "fail"}
      <4>1. recLock = p /\ recLock # None
        BY <1>0, <2>1, <2>3, <3>3 DEF Locking
      <4>2. \A u \in Threads : ~(pc[u] # "idle" /\ op[u] = "append")
        BY <1>0, <2>1, <2>3, <3>3, <4>1 DEF Locking
      <4>. QED  BY <2>1, <3>1, <4>1, <4>2 DEF Open
    <3>. QED  BY <3>1, <3>2, <3>3
  <2>. QED  BY <2>2, <2>3
<1>18. ASSUME NEW p \in Procs, MetaFlush(p)
      PROVE  Open'
  <2>1. /\ pc[p] = "metasync" /\ metaSync' = meta /\ meta = draft
        /\ UNCHANGED <<file, meta, recLock, next, lapsed>>
    BY <1>18 DEF MetaFlush, Drafted
  <2>2. CASE p = Main
    <3>1. \A u \in Threads : pc'[u] = "idle"
      BY <1>0, <1>18, <2>1, <2>2 DEF MetaFlush, AppendReturns, Control, MetaLabels, TypeOK, ThreadType
    <3>2. CASE op[Main] = "recover"
      <4>1. ~Active /\ mem' = mem
        BY <1>0, <1>18, <2>1, <2>2, <3>2 DEF MetaFlush, Working, MetaLabels
      <4>. QED  BY <4>1 DEF Open, Active
    <3>3. CASE op[Main] = "create"
      <4>1. file = <<>> /\ ~lapsed
        BY <1>0, <2>1, <2>2, <3>3 DEF Working, Kept, MetaLabels
      <4>2. Unsealed(draft)
        BY <2>1, <2>2, <4>1 DEF Sealed, SealedIn, Unsealed, MetaLabels
      <4>. QED  BY <2>1, <3>1, <4>1, <4>2 DEF Open, Unsealed, PlainIn
    <3>. QED  BY <1>0, <2>1, <2>2, <3>2, <3>3 DEF Control, MetaLabels
  <2>3. CASE p \in Threads /\ op[p] # "append"
    <3>1. mem' = draft /\ draft.status # "active"
      BY <1>0, <1>18, <2>1, <2>3 DEF MetaFlush, Working, Control, MetaLabels
    <3>. QED  BY <3>1 DEF Open, Active
  <2>4. CASE p \in Threads /\ op[p] = "append"
    <3>1. /\ mem' = mem /\ Active /\ draft = mem /\ pc[Main] = "serving"
          /\ recLock = p
      BY <1>0, <1>18, <2>1, <2>4 DEF MetaFlush, Drafted, Control, MetaLabels, Locking
    <3>2. /\ pc'[Main] = "serving"
          /\ \A u \in Threads : pc'[u] # "idle" /\ op'[u] = "append" =>
                pc[u] # "idle" /\ op[u] = "append"
      BY <1>0, <1>18, <2>1, <2>4, <3>1 DEF MetaFlush, AppendReturns, TypeOK, ThreadType
    <3>. QED  BY <2>1, <3>1, <3>2 DEF Open, Active, Acked, Unsealed
  <2>. QED  BY <2>2, <2>3, <2>4
<1>19. CASE LoadInvalid
  BY <1>0, <1>19 DEF Open, Kept, Drafted, Unsealed, Writing, Extent, Acked,
         LoadInvalid, Fault,
         Control, Locking, Working, Active, StoreLabels, BootLabels, MetaLabels,
         TypeOK, DiskType, StoreType, RecorderType, ThreadType, HistoryType
<1>20. CASE Load
  BY <1>0, <1>20 DEF Open, Kept, Drafted, Unsealed, Writing, Extent, Acked,
         Load, Torn,
         Control, Locking, Working, Active, StoreLabels, BootLabels, MetaLabels,
         TypeOK, DiskType, StoreType, RecorderType, ThreadType, HistoryType
<1>21. CASE CopyTail
  BY <1>0, <1>21 DEF Open, Kept, Drafted, Unsealed, Writing, Extent, Acked,
         CopyTail,
         Control, Locking, Working, Active, StoreLabels, BootLabels, MetaLabels,
         TypeOK, DiskType, StoreType, RecorderType, ThreadType, HistoryType
<1>22. CASE Truncate
  BY <1>0, <1>22, TruncateEffect DEF Open, Kept, Drafted, Unsealed, Writing, Extent, Acked,
         Control, Locking, Working, Active, StoreLabels, BootLabels, MetaLabels,
         TypeOK, DiskType, StoreType, RecorderType, ThreadType, HistoryType
<1>23. CASE Reconcile
  BY <1>0, <1>23, ReconcileEffect DEF Open, Kept, Drafted, Unsealed, Writing, Extent, Acked,
         Control, Locking, Working, Active, StoreLabels, BootLabels, MetaLabels,
         TypeOK, DiskType, StoreType, RecorderType, ThreadType, HistoryType
<1>24. CASE RecoveryDone
  BY <1>0, <1>24 DEF Open, Kept, Drafted, Unsealed, Writing, Extent, Acked,
         RecoveryDone, KeepOrEvict, RemoveDirectory,
         Control, Locking, Working, Active, StoreLabels, BootLabels, MetaLabels,
         TypeOK, DiskType, StoreType, RecorderType, ThreadType, HistoryType
<1>25. CASE RecoveryFails
  BY <1>0, <1>25, DownEffect DEF Open, Kept, Drafted, Unsealed, Writing, Extent, Acked,
         Control, Locking, Working, Active, StoreLabels, BootLabels, MetaLabels,
         TypeOK, DiskType, StoreType, RecorderType, ThreadType, HistoryType
<1>26. CASE Crash
  BY <1>0, <1>26, DownEffect DEF Open, Kept, Drafted, Unsealed, Writing, Extent, Acked,
         Control, Locking, Working, Active, StoreLabels, BootLabels, MetaLabels,
         TypeOK, DiskType, StoreType, RecorderType, ThreadType, HistoryType
<1>27. CASE Closed \/ UNCHANGED vars
  BY <1>0, <1>27 DEF Open, Kept, Drafted, Unsealed, Writing, Extent, Acked,
         Closed, vars, thread,
         Control, Locking, Working, Active, StoreLabels, BootLabels, MetaLabels,
         TypeOK, DiskType, StoreType, RecorderType, ThreadType, HistoryType
<1>. QED
  BY <1>1, <1>2, <1>3, <1>4, <1>5, <1>6, <1>7, <1>8, <1>9, <1>10, <1>11, <1>12, <1>13, <1>14, <1>15, <1>16, <1>17, <1>18, <1>19, <1>20, <1>21, <1>22, <1>23, <1>24, <1>25, <1>26, <1>27
  DEF Next, ThreadStep, WriteMetadata, Recovery

\* Every step keeps the last line of the evidence for as long as a copy of the
\* metadata says that the session was completed or cancelled.
LEMMA SealedKept ==
    ASSUME LogInv, Kept, Drafted, Shaped, Writing, Open, Sealed, [Next]_vars
    PROVE  Sealed'
<1>. USE LogConstants DEF disk, store, recorder, history, bounds, Procs, Goto
<1>0. TypeOK /\ Control /\ Locking /\ Working /\ (~lapsed => Numbered /\ Extent)
  BY DEF LogInv
<1>1. CASE Create
  <2>1. /\ mem' = NewMeta /\ draft' = NewMeta /\ NewMeta.status = "active"
        /\ UNCHANGED <<file, synced, meta, metaSync, lapsed>>
    BY <1>1 DEF Create, NewMeta
  <2>. QED
    BY <2>1 DEF Sealed, SealedIn
<1>2. CASE CreateFails
  BY <1>0, <1>2 DEF Sealed, Kept, Drafted, Open, Unsealed,
         CreateFails, Fault,
         Control, Locking, Working, Active, StoreLabels, BootLabels, MetaLabels,
         TypeOK, DiskType, StoreType, RecorderType, ThreadType, HistoryType
<1>3. CASE CreateUndone
  <2>1. /\ mem' = NoMeta /\ pc' = [pc EXCEPT ![Main] = "aborted"] /\ pc[Main] # "serving"
        /\ UNCHANGED <<file, synced, lapsed>>
        /\ \/ meta' = NoMeta /\ metaSync' = NoMeta
           \/ UNCHANGED <<meta, metaSync>>
    BY <1>3 DEF CreateUndone, MetaLabels
  <2>2. \A p \in Procs : pc'[p] \notin MetaLabels \union BootLabels
    BY <1>0, <2>1 DEF Control, MetaLabels, BootLabels, TypeOK, ThreadType
  <2>. QED
    BY <2>1, <2>2 DEF Sealed, SealedIn
<1>4. ASSUME NEW t \in Threads, NEW k \in RecordKinds, Append1(t, k)
      PROVE  Sealed'
  BY <1>0, <1>4 DEF Sealed, Kept, Drafted, Open, Unsealed,
         Append1,
         Control, Locking, Working, Active, StoreLabels, BootLabels, MetaLabels,
         TypeOK, DiskType, StoreType, RecorderType, ThreadType, HistoryType
<1>5. ASSUME NEW t \in Threads, Report(t)
      PROVE  Sealed'
  BY <1>0, <1>5 DEF Sealed, Kept, Drafted, Open, Unsealed,
         Report,
         Control, Locking, Working, Active, StoreLabels, BootLabels, MetaLabels,
         TypeOK, DiskType, StoreType, RecorderType, ThreadType, HistoryType
<1>6. ASSUME NEW t \in Threads, EnterAppend(t)
      PROVE  Sealed'
  BY <1>0, <1>6 DEF Sealed, Kept, Drafted, Open, Unsealed,
         EnterAppend, RaiseOSError,
         Control, Locking, Working, Active, StoreLabels, BootLabels, MetaLabels,
         TypeOK, DiskType, StoreType, RecorderType, ThreadType, HistoryType
<1>7. ASSUME NEW t \in Threads, WriteEvidence(t)
      PROVE  Sealed'
  <2>1. /\ Active /\ pc[t] = "write" /\ op[t] = "append"
        /\ UNCHANGED <<mem, meta, metaSync, synced, lapsed>>
        /\ pc' = [pc EXCEPT ![t] = "sync"]
    BY <1>0, <1>7 DEF WriteEvidence, Working, Control
  <2>2. ~lapsed => Unsealed(meta) /\ Unsealed(metaSync)
    BY <2>1 DEF Open
  <2>3. \A p \in Procs : pc'[p] \notin MetaLabels \union BootLabels
    BY <1>0, <2>1 DEF Locking, StoreLabels, MetaLabels, BootLabels, TypeOK, ThreadType
  <2>. QED
    BY <2>1, <2>2, <2>3 DEF Sealed, SealedIn, Unsealed, Active
<1>8. ASSUME NEW t \in Threads, WriteFails(t)
      PROVE  Sealed'
  <2>1. /\ Active /\ pc[t] # "idle" /\ op[t] = "append"
    BY <1>0, <1>8, AppendFailsEffect DEF Working
  <2>2. ~lapsed => Unsealed(meta) /\ Unsealed(metaSync)
    BY <2>1 DEF Open
  <2>. QED
    BY <1>8, <2>1, <2>2, AppendFailsEffect DEF Sealed, SealedIn, Unsealed, Active, StoreLabels
<1>9. ASSUME NEW t \in Threads, SyncEvidence(t)
      PROVE  Sealed'
  <2>1. ~lapsed => Unsealed(meta) /\ Unsealed(metaSync)
    BY <1>9, SyncEffect DEF Open, Active
  <2>2. \A p \in Procs : pc'[p] \in MetaLabels \union BootLabels => draft' = mem'
    <3>1. \A p \in Procs : p # t => pc[p] \notin StoreLabels \union BootLabels
      BY <1>0, <1>9, SyncEffect DEF Locking
    <3>. QED
      BY <1>0, <1>9, <3>1, SyncEffect
      DEF StoreLabels, MetaLabels, BootLabels, TypeOK, ThreadType
  <2>. QED
    BY <1>9, <2>1, <2>2, SyncEffect DEF Sealed, SealedIn, Unsealed
<1>10. ASSUME NEW t \in Threads, SyncFails(t)
      PROVE  Sealed'
  <2>1. /\ Active /\ pc[t] # "idle" /\ op[t] = "append"
    BY <1>0, <1>10, AppendFailsEffect DEF Working
  <2>2. ~lapsed => Unsealed(meta) /\ Unsealed(metaSync)
    BY <2>1 DEF Open
  <2>. QED
    BY <1>10, <2>1, <2>2, AppendFailsEffect DEF Sealed, SealedIn, Unsealed, Active, StoreLabels
<1>11. ASSUME NEW t \in Threads, Commit(t)
      PROVE  Sealed'
  BY <1>0, <1>11 DEF Sealed, Kept, Drafted, Open, Unsealed,
         Commit,
         Control, Locking, Working, Active, StoreLabels, BootLabels, MetaLabels,
         TypeOK, DiskType, StoreType, RecorderType, ThreadType, HistoryType
<1>12. ASSUME NEW t \in Threads, Finish(t)
      PROVE  Sealed'
  <2>1. \A p \in Procs : pc'[p] \in MetaLabels \union BootLabels => p = t /\ pc'[t] = "temp"
    BY <1>12, FinishEffect DEF StoreLabels, MetaLabels, BootLabels
  <2>2. ASSUME pc'[t] = "temp", ~lapsed
        PROVE  SealedIn(draft', file, synced)
    <3>1. CASE mem.status # "active"
      BY <1>12, <2>2, <3>1, FinishEffect DEF Sealed, SealedIn
    <3>2. CASE mem.status = "active" /\ op[t] = "finish"
      <4>1. dir /\ pc[t] = "finish" /\ draft'.status = kind[t]
        BY <1>12, <2>2, <3>2, FinishEffect DEF Kept
      <4>2. synced = Acked + 2 /\ Len(file) = Acked + 2
        <5>1. synced = Acked + 2 /\ synced <= Len(file) /\ Len(file) <= Acked + 2
          BY <1>0, <2>2, <3>2, <4>1 DEF Extent
        <5>. QED  BY <1>0, <5>1 DEF TypeOK, DiskType
      <4>3. file[Acked + 2] = End(next, kind[t])
        BY <2>2, <3>2, <4>1 DEF Writing
      <4>4. file # <<>> /\ file[Len(file)].seq = next
        <5>1. Acked \in Nat /\ Len(file) # 0
          BY <1>0, <4>2 DEF Acked, TypeOK, RecorderType
        <5>. QED  BY <4>2, <4>3, <5>1 DEF End
      <4>. QED  BY <4>1, <4>2, <4>3, <4>4 DEF SealedIn
    <3>3. CASE mem.status = "active" /\ op[t] # "finish"
      BY <1>12, <2>2, <3>3, FinishEffect DEF SealedIn
    <3>. QED  BY <3>1, <3>2, <3>3
  <2>3. ~lapsed' => ~lapsed
    BY <1>12, <1>0, FinishEffect DEF history, Control
  <2>. QED
    BY <1>12, <2>1, <2>2, <2>3, FinishEffect DEF Sealed
<1>13. ASSUME NEW t \in Threads, MetaFails(t)
      PROVE  Sealed'
  <2>1. ~lapsed' => ~lapsed
    BY <1>13, <1>0, MetaFailsEffect DEF history, Control
  <2>. QED
    BY <1>13, <2>1, MetaFailsEffect DEF Sealed, StoreLabels
<1>14. ASSUME NEW t \in Threads, Retain(t)
      PROVE  Sealed'
  <2>1. ~lapsed' => ~lapsed
    BY <1>14, <1>0, RetainEffect DEF history, Control
  <2>. QED
    BY <1>14, <2>1, RetainEffect DEF Sealed, SealedIn, StoreLabels
<1>15. ASSUME NEW t \in Threads, RetainFails(t)
      PROVE  Sealed'
  <2>1. ~lapsed' => ~lapsed
    BY <1>15, <1>0, RetainEffect DEF history, Control
  <2>. QED
    BY <1>15, <2>1, RetainEffect DEF Sealed, SealedIn, StoreLabels
<1>16. ASSUME NEW p \in Procs, MetaTemp(p)
      PROVE  Sealed'
  BY <1>0, <1>16 DEF Sealed, Kept, Drafted, Open, Unsealed,
         MetaTemp,
         Control, Locking, Working, Active, StoreLabels, BootLabels, MetaLabels,
         TypeOK, DiskType, StoreType, RecorderType, ThreadType, HistoryType
<1>17. ASSUME NEW p \in Procs, MetaRename(p)
      PROVE  Sealed'
  BY <1>0, <1>17 DEF Sealed, Kept, Drafted, Open, Unsealed,
         MetaRename,
         Control, Locking, Working, Active, StoreLabels, BootLabels, MetaLabels,
         TypeOK, DiskType, StoreType, RecorderType, ThreadType, HistoryType
<1>18. ASSUME NEW p \in Procs, MetaFlush(p)
      PROVE  Sealed'
  BY <1>0, <1>18 DEF Sealed, Kept, Drafted, Open, Unsealed,
         MetaFlush, AppendReturns,
         Control, Locking, Working, Active, StoreLabels, BootLabels, MetaLabels,
         TypeOK, DiskType, StoreType, RecorderType, ThreadType, HistoryType
<1>19. CASE LoadInvalid
  BY <1>0, <1>19 DEF Sealed, Kept, Drafted, Open, Unsealed,
         LoadInvalid, Fault,
         Control, Locking, Working, Active, StoreLabels, BootLabels, MetaLabels,
         TypeOK, DiskType, StoreType, RecorderType, ThreadType, HistoryType
<1>20. CASE Load
  BY <1>0, <1>20 DEF Sealed, Kept, Drafted, Open, Unsealed,
         Load, Torn,
         Control, Locking, Working, Active, StoreLabels, BootLabels, MetaLabels,
         TypeOK, DiskType, StoreType, RecorderType, ThreadType, HistoryType
<1>21. CASE CopyTail
  BY <1>0, <1>21 DEF Sealed, Kept, Drafted, Open, Unsealed,
         CopyTail,
         Control, Locking, Working, Active, StoreLabels, BootLabels, MetaLabels,
         TypeOK, DiskType, StoreType, RecorderType, ThreadType, HistoryType
<1>22. CASE Truncate
  <2>1. Torn(file) /\ mem = NoMeta
    BY <1>22, TruncateEffect DEF Shaped, Kept, BootLabels
  <2>2. \A m : SealedIn(m, file, synced) => Unsealed(m)
    BY <2>1 DEF SealedIn, Unsealed, Torn, End
  <2>3. ~lapsed => Unsealed(meta) /\ Unsealed(metaSync) /\ Unsealed(draft)
    BY <1>22, <2>2, TruncateEffect DEF Sealed, BootLabels
  <2>4. draft # NoMeta
    BY <1>22, TruncateEffect, LogConstants
  <2>. QED
    BY <1>22, <2>1, <2>3, <2>4, TruncateEffect DEF Sealed, SealedIn, Unsealed
<1>23. CASE Reconcile
  <2>1. ~lapsed => SealedIn(draft, file, synced) /\ draft # NoMeta
    BY <1>23, ReconcileEffect, LogConstants DEF Sealed, BootLabels
  <2>2. ~lapsed => SealedIn(mem', file, synced)
    BY <1>23, <2>1, ReconcileEffect DEF SealedIn
  <2>. QED
    BY <1>23, <2>2, ReconcileEffect DEF Sealed
<1>24. CASE RecoveryDone
  <2>1. /\ KeepOrEvict /\ lapsed' = lapsed
        /\ \A p \in Procs : pc'[p] \notin MetaLabels \union BootLabels
    BY <1>0, <1>24 DEF RecoveryDone, Control, MetaLabels, BootLabels, TypeOK, ThreadType
  <2>. QED
    BY <2>1 DEF Sealed, SealedIn, KeepOrEvict, RemoveDirectory
<1>25. CASE RecoveryFails
  BY <1>25, DownEffect DEF Sealed, SealedIn, StoreLabels, RecoveryFails, RemoveDirectory
<1>26. CASE Crash
  <2>1. PICK n \in synced..Len(file) : file' = SubSeq(file, 1, n) /\ synced' = n
    BY <1>26 DEF Crash
  <2>2. file \in Seq(Unit) /\ synced \in Nat /\ synced <= Len(file)
    BY <1>0 DEF TypeOK, DiskType, Shaped
  <2>3. synced = Len(file) => file' = file /\ synced' = synced
    BY <2>1, <2>2
  <2>4. \A m : SealedIn(m, file, synced) => SealedIn(m, file', synced')
    BY <2>3 DEF SealedIn
  <2>5. /\ mem' = NoMeta /\ meta' \in {meta, metaSync} /\ metaSync' = meta'
        /\ lapsed' = lapsed /\ \A p \in Procs : pc'[p] \notin MetaLabels \union BootLabels
    BY <1>26, DownEffect DEF Crash, ProcessEnds, StoreLabels
  <2>. QED
    BY <2>4, <2>5 DEF Sealed, SealedIn
<1>27. CASE Closed \/ UNCHANGED vars
  BY <1>0, <1>27 DEF Sealed, Kept, Drafted, Open, Unsealed,
         Closed, vars, thread,
         Control, Locking, Working, Active, StoreLabels, BootLabels, MetaLabels,
         TypeOK, DiskType, StoreType, RecorderType, ThreadType, HistoryType
<1>. QED
  BY <1>1, <1>2, <1>3, <1>4, <1>5, <1>6, <1>7, <1>8, <1>9, <1>10, <1>11, <1>12, <1>13, <1>14, <1>15, <1>16, <1>17, <1>18, <1>19, <1>20, <1>21, <1>22, <1>23, <1>24, <1>25, <1>26, <1>27
  DEF Next, ThreadStep, WriteMetadata, Recovery

\* No step writes a line behind the terminal one.
LEMMA TerminalLastKept ==
    ASSUME LogInv, Open, Shaped, TerminalLast, [Next]_vars
    PROVE  TerminalLast'
<1>. USE LogConstants DEF disk, store, recorder, history, bounds, Procs, Goto
<1>0. TypeOK /\ Control /\ Locking /\ Working /\ (~lapsed => Numbered /\ Extent)
  BY DEF LogInv
<1>1. CASE Create
  BY <1>0, <1>1 DEF TerminalLast, Open,
         Create, NewMeta,
         Control, Locking, Working, Active, StoreLabels, BootLabels, MetaLabels,
         TypeOK, DiskType, StoreType, RecorderType, ThreadType, HistoryType
<1>2. CASE CreateFails
  BY <1>0, <1>2 DEF TerminalLast, Open,
         CreateFails, Fault,
         Control, Locking, Working, Active, StoreLabels, BootLabels, MetaLabels,
         TypeOK, DiskType, StoreType, RecorderType, ThreadType, HistoryType
<1>3. CASE CreateUndone
  BY <1>0, <1>3 DEF TerminalLast, Open,
         CreateUndone, Fault, TmpAfterFailure,
         Control, Locking, Working, Active, StoreLabels, BootLabels, MetaLabels,
         TypeOK, DiskType, StoreType, RecorderType, ThreadType, HistoryType
<1>4. ASSUME NEW t \in Threads, NEW k \in RecordKinds, Append1(t, k)
      PROVE  TerminalLast'
  BY <1>0, <1>4 DEF TerminalLast, Open,
         Append1,
         Control, Locking, Working, Active, StoreLabels, BootLabels, MetaLabels,
         TypeOK, DiskType, StoreType, RecorderType, ThreadType, HistoryType
<1>5. ASSUME NEW t \in Threads, Report(t)
      PROVE  TerminalLast'
  BY <1>0, <1>5 DEF TerminalLast, Open,
         Report,
         Control, Locking, Working, Active, StoreLabels, BootLabels, MetaLabels,
         TypeOK, DiskType, StoreType, RecorderType, ThreadType, HistoryType
<1>6. ASSUME NEW t \in Threads, EnterAppend(t)
      PROVE  TerminalLast'
  BY <1>0, <1>6 DEF TerminalLast, Open,
         EnterAppend, RaiseOSError,
         Control, Locking, Working, Active, StoreLabels, BootLabels, MetaLabels,
         TypeOK, DiskType, StoreType, RecorderType, ThreadType, HistoryType
<1>7. ASSUME NEW t \in Threads, WriteEvidence(t)
      PROVE  TerminalLast'
  <2>1. /\ Active /\ op[t] = "append" /\ lapsed' = lapsed
        /\ file \in Seq(Unit) /\ next \in Nat
    BY <1>0, <1>7 DEF WriteEvidence, Working, Control, TypeOK, DiskType, RecorderType
  <2>2. Len(file') = Len(file) + 2 /\ \A i \in 1..Len(file) : file'[i] = file[i]
    BY <1>7, <2>1 DEF WriteEvidence
  <2>3. CASE ~lapsed
    <3>1. PlainIn(file, Acked) /\ Len(file) = Acked
      BY <1>0, <1>7, <2>1, <2>3 DEF Open, Extent, WriteEvidence
    <3>. QED  BY <2>1, <2>2, <3>1 DEF TerminalLast, PlainIn
  <2>4. CASE lapsed
    BY <2>1, <2>4 DEF TerminalLast
  <2>. QED  BY <2>3, <2>4
<1>8. ASSUME NEW t \in Threads, WriteFails(t)
      PROVE  TerminalLast'
  <2>1. file \in Seq(Unit) /\ next \in Nat
    BY <1>0 DEF TypeOK, DiskType, RecorderType
  <2>2. CASE file' = file
    BY <1>8, <2>2, AppendFailsEffect DEF TerminalLast
  <2>3. CASE pc[t] = "write" /\ file' = Append(file, Body(next, kind[t])) /\ ~lapsed
    <3>1. PlainIn(file, Acked) /\ Len(file) = Acked
      BY <1>0, <1>8, <2>3, AppendFailsEffect DEF Open, Extent, Working
    <3>2. Len(file') = Len(file) + 1 /\ \A i \in 1..Len(file) : file'[i] = file[i]
      BY <2>1, <2>3
    <3>. QED  BY <2>1, <3>1, <3>2 DEF TerminalLast, PlainIn
  <2>4. CASE lapsed
    BY <1>8, <2>4, AppendFailsEffect DEF TerminalLast
  <2>. QED  BY <1>8, <2>2, <2>3, <2>4, AppendFailsEffect
<1>9. ASSUME NEW t \in Threads, SyncEvidence(t)
      PROVE  TerminalLast'
  BY <1>0, <1>9, SyncEffect DEF TerminalLast, Open,
         Control, Locking, Working, Active, StoreLabels, BootLabels, MetaLabels,
         TypeOK, DiskType, StoreType, RecorderType, ThreadType, HistoryType
<1>10. ASSUME NEW t \in Threads, SyncFails(t)
      PROVE  TerminalLast'
  <2>1. file \in Seq(Unit) /\ next \in Nat
    BY <1>0 DEF TypeOK, DiskType, RecorderType
  <2>2. CASE file' = file
    BY <1>10, <2>2, AppendFailsEffect DEF TerminalLast
  <2>3. CASE pc[t] = "write" /\ file' = Append(file, Body(next, kind[t])) /\ ~lapsed
    <3>1. PlainIn(file, Acked) /\ Len(file) = Acked
      BY <1>0, <1>10, <2>3, AppendFailsEffect DEF Open, Extent, Working
    <3>2. Len(file') = Len(file) + 1 /\ \A i \in 1..Len(file) : file'[i] = file[i]
      BY <2>1, <2>3
    <3>. QED  BY <2>1, <3>1, <3>2 DEF TerminalLast, PlainIn
  <2>4. CASE lapsed
    BY <1>10, <2>4, AppendFailsEffect DEF TerminalLast
  <2>. QED  BY <1>10, <2>2, <2>3, <2>4, AppendFailsEffect
<1>11. ASSUME NEW t \in Threads, Commit(t)
      PROVE  TerminalLast'
  BY <1>0, <1>11 DEF TerminalLast, Open,
         Commit,
         Control, Locking, Working, Active, StoreLabels, BootLabels, MetaLabels,
         TypeOK, DiskType, StoreType, RecorderType, ThreadType, HistoryType
<1>12. ASSUME NEW t \in Threads, Finish(t)
      PROVE  TerminalLast'
  BY <1>0, <1>12, FinishEffect DEF TerminalLast, Open,
         history,
         Control, Locking, Working, Active, StoreLabels, BootLabels, MetaLabels,
         TypeOK, DiskType, StoreType, RecorderType, ThreadType, HistoryType
<1>13. ASSUME NEW t \in Threads, MetaFails(t)
      PROVE  TerminalLast'
  BY <1>0, <1>13, MetaFailsEffect DEF TerminalLast, Open,
         history,
         Control, Locking, Working, Active, StoreLabels, BootLabels, MetaLabels,
         TypeOK, DiskType, StoreType, RecorderType, ThreadType, HistoryType
<1>14. ASSUME NEW t \in Threads, Retain(t)
      PROVE  TerminalLast'
  BY <1>0, <1>14, RetainEffect DEF TerminalLast, Open,
         history,
         Control, Locking, Working, Active, StoreLabels, BootLabels, MetaLabels,
         TypeOK, DiskType, StoreType, RecorderType, ThreadType, HistoryType
<1>15. ASSUME NEW t \in Threads, RetainFails(t)
      PROVE  TerminalLast'
  BY <1>0, <1>15, RetainEffect DEF TerminalLast, history, TypeOK, ThreadType, HistoryType
<1>16. ASSUME NEW p \in Procs, MetaTemp(p)
      PROVE  TerminalLast'
  BY <1>0, <1>16 DEF TerminalLast, Open,
         MetaTemp,
         Control, Locking, Working, Active, StoreLabels, BootLabels, MetaLabels,
         TypeOK, DiskType, StoreType, RecorderType, ThreadType, HistoryType
<1>17. ASSUME NEW p \in Procs, MetaRename(p)
      PROVE  TerminalLast'
  BY <1>0, <1>17 DEF TerminalLast, Open,
         MetaRename,
         Control, Locking, Working, Active, StoreLabels, BootLabels, MetaLabels,
         TypeOK, DiskType, StoreType, RecorderType, ThreadType, HistoryType
<1>18. ASSUME NEW p \in Procs, MetaFlush(p)
      PROVE  TerminalLast'
  BY <1>0, <1>18 DEF TerminalLast, Open,
         MetaFlush, AppendReturns,
         Control, Locking, Working, Active, StoreLabels, BootLabels, MetaLabels,
         TypeOK, DiskType, StoreType, RecorderType, ThreadType, HistoryType
<1>19. CASE LoadInvalid
  BY <1>0, <1>19 DEF TerminalLast, Open,
         LoadInvalid, Fault,
         Control, Locking, Working, Active, StoreLabels, BootLabels, MetaLabels,
         TypeOK, DiskType, StoreType, RecorderType, ThreadType, HistoryType
<1>20. CASE Load
  BY <1>0, <1>20 DEF TerminalLast, Open,
         Load, Torn,
         Control, Locking, Working, Active, StoreLabels, BootLabels, MetaLabels,
         TypeOK, DiskType, StoreType, RecorderType, ThreadType, HistoryType
<1>21. CASE CopyTail
  BY <1>0, <1>21 DEF TerminalLast, Open,
         CopyTail,
         Control, Locking, Working, Active, StoreLabels, BootLabels, MetaLabels,
         TypeOK, DiskType, StoreType, RecorderType, ThreadType, HistoryType
<1>22. CASE Truncate
  <2>1. LastRecordEnd(file) \in 0..Len(file) /\ Len(file') = LastRecordEnd(file)
        /\ \A i \in 1..LastRecordEnd(file) : file'[i] = file[i]
        /\ lapsed' = lapsed /\ Len(file) \in Nat
    BY <1>0, <1>22, TruncateEffect DEF TypeOK, DiskType
  <2>. QED
    BY <2>1 DEF TerminalLast
<1>23. CASE Reconcile
  BY <1>0, <1>23, ReconcileEffect DEF TerminalLast, Open,
         Control, Locking, Working, Active, StoreLabels, BootLabels, MetaLabels,
         TypeOK, DiskType, StoreType, RecorderType, ThreadType, HistoryType
<1>24. CASE RecoveryDone
  BY <1>0, <1>24 DEF TerminalLast, Open,
         RecoveryDone, KeepOrEvict, RemoveDirectory,
         Control, Locking, Working, Active, StoreLabels, BootLabels, MetaLabels,
         TypeOK, DiskType, StoreType, RecorderType, ThreadType, HistoryType
<1>25. CASE RecoveryFails
  BY <1>0, <1>25, DownEffect DEF TerminalLast, Open,
         Control, Locking, Working, Active, StoreLabels, BootLabels, MetaLabels,
         TypeOK, DiskType, StoreType, RecorderType, ThreadType, HistoryType
<1>26. CASE Crash
  BY <1>0, <1>26, DownEffect DEF TerminalLast, Open,
         Control, Locking, Working, Active, StoreLabels, BootLabels, MetaLabels,
         TypeOK, DiskType, StoreType, RecorderType, ThreadType, HistoryType
<1>27. CASE Closed \/ UNCHANGED vars
  BY <1>0, <1>27 DEF TerminalLast, Open,
         Closed, vars, thread,
         Control, Locking, Working, Active, StoreLabels, BootLabels, MetaLabels,
         TypeOK, DiskType, StoreType, RecorderType, ThreadType, HistoryType
<1>. QED
  BY <1>1, <1>2, <1>3, <1>4, <1>5, <1>6, <1>7, <1>8, <1>9, <1>10, <1>11, <1>12, <1>13, <1>14, <1>15, <1>16, <1>17, <1>18, <1>19, <1>20, <1>21, <1>22, <1>23, <1>24, <1>25, <1>26, <1>27
  DEF Next, ThreadStep, WriteMetadata, Recovery

\* Every step keeps the live view and its count of dropped records together equal
\* to what append() has returned.
LEMMA MirroredKept ==
    ASSUME LogInv, Kept, Mirrored, [Next]_vars
    PROVE  Mirrored'
<1>. USE LogConstants DEF disk, store, recorder, history, bounds, Procs, Goto
<1>0. TypeOK /\ Control /\ Locking /\ Working /\ (~lapsed => Numbered /\ Extent)
  BY DEF LogInv
<1>1. CASE Create
  BY <1>0, <1>1 DEF Mirrored,
         Create, NewMeta,
         Control, Locking, Working, Active, StoreLabels, BootLabels, MetaLabels,
         TypeOK, DiskType, StoreType, RecorderType, ThreadType, HistoryType
<1>2. CASE CreateFails
  BY <1>0, <1>2 DEF Mirrored,
         CreateFails, Fault,
         Control, Locking, Working, Active, StoreLabels, BootLabels, MetaLabels,
         TypeOK, DiskType, StoreType, RecorderType, ThreadType, HistoryType
<1>3. CASE CreateUndone
  BY <1>0, <1>3 DEF Mirrored,
         CreateUndone, Fault, TmpAfterFailure,
         Control, Locking, Working, Active, StoreLabels, BootLabels, MetaLabels,
         TypeOK, DiskType, StoreType, RecorderType, ThreadType, HistoryType
<1>4. ASSUME NEW t \in Threads, NEW k \in RecordKinds, Append1(t, k)
      PROVE  Mirrored'
  BY <1>0, <1>4 DEF Mirrored,
         Append1,
         Control, Locking, Working, Active, StoreLabels, BootLabels, MetaLabels,
         TypeOK, DiskType, StoreType, RecorderType, ThreadType, HistoryType
<1>5. ASSUME NEW t \in Threads, Report(t)
      PROVE  Mirrored'
  BY <1>0, <1>5 DEF Mirrored,
         Report,
         Control, Locking, Working, Active, StoreLabels, BootLabels, MetaLabels,
         TypeOK, DiskType, StoreType, RecorderType, ThreadType, HistoryType
<1>6. ASSUME NEW t \in Threads, EnterAppend(t)
      PROVE  Mirrored'
  BY <1>0, <1>6 DEF Mirrored,
         EnterAppend, RaiseOSError,
         Control, Locking, Working, Active, StoreLabels, BootLabels, MetaLabels,
         TypeOK, DiskType, StoreType, RecorderType, ThreadType, HistoryType
<1>7. ASSUME NEW t \in Threads, WriteEvidence(t)
      PROVE  Mirrored'
  BY <1>0, <1>7 DEF Mirrored,
         WriteEvidence, Body, End,
         Control, Locking, Working, Active, StoreLabels, BootLabels, MetaLabels,
         TypeOK, DiskType, StoreType, RecorderType, ThreadType, HistoryType
<1>8. ASSUME NEW t \in Threads, WriteFails(t)
      PROVE  Mirrored'
  BY <1>0, <1>8, AppendFailsEffect DEF Mirrored,
         Control, Locking, Working, Active, StoreLabels, BootLabels, MetaLabels,
         TypeOK, DiskType, StoreType, RecorderType, ThreadType, HistoryType
<1>9. ASSUME NEW t \in Threads, SyncEvidence(t)
      PROVE  Mirrored'
  BY <1>0, <1>9, SyncEffect DEF Mirrored,
         Control, Locking, Working, Active, StoreLabels, BootLabels, MetaLabels,
         TypeOK, DiskType, StoreType, RecorderType, ThreadType, HistoryType
<1>10. ASSUME NEW t \in Threads, SyncFails(t)
      PROVE  Mirrored'
  BY <1>0, <1>10, AppendFailsEffect DEF Mirrored,
         Control, Locking, Working, Active, StoreLabels, BootLabels, MetaLabels,
         TypeOK, DiskType, StoreType, RecorderType, ThreadType, HistoryType
<1>11. ASSUME NEW t \in Threads, Commit(t)
      PROVE  Mirrored'
  <2>1. /\ pc[Main] = "serving" /\ pc'[Main] = "serving" /\ next' = next + 1
        /\ next \in Nat \ {0} /\ live \in Seq(Nat) /\ dropped \in Nat /\ LiveMax \in Nat \ {0}
        /\ \/ /\ Len(live) = LiveMax /\ live' = Append(Tail(live), next)
              /\ dropped' = dropped + 1
           \/ live' = Append(live, next) /\ dropped' = dropped
    BY <1>0, <1>11 DEF Commit, Control, TypeOK, RecorderType, ThreadType
  <2>2. Len(live) + dropped = next - 1 /\ \A i \in 1..Len(live) : live[i] = dropped + i
    BY <2>1 DEF Mirrored
  <2>3. CASE live' = Append(live, next) /\ dropped' = dropped
    BY <2>1, <2>2, <2>3 DEF Mirrored
  <2>4. CASE Len(live) = LiveMax /\ live' = Append(Tail(live), next) /\ dropped' = dropped + 1
    <3>1. /\ Tail(live) \in Seq(Nat) /\ Len(Tail(live)) = Len(live) - 1
          /\ \A i \in 1..(Len(live) - 1) : Tail(live)[i] = live[i + 1]
      BY <2>1, <2>4
    <3>. DEFINE rest == Tail(live)
    <3>2. /\ rest \in Seq(Nat) /\ Len(rest) = Len(live) - 1
          /\ \A i \in 1..(Len(live) - 1) : rest[i] = live[i + 1]
          /\ live' = Append(rest, next)
      BY <2>4, <3>1
    <3>. HIDE DEF rest
    <3>3. Len(live') = Len(live)
      BY <2>1, <3>2
    <3>4. \A i \in 1..(Len(live) - 1) : live'[i] = dropped' + i
      BY <2>1, <2>2, <2>4, <3>2
    <3>5. live'[Len(live)] = dropped' + Len(live)
      <4>1. Len(live) \in Nat /\ Len(live) + dropped = next - 1
        BY <2>1, <2>2
      <4>2. live'[Len(live)] = next
        BY <2>1, <3>2, <4>1
      <4>3. next \in Nat /\ dropped \in Nat /\ dropped' = dropped + 1
        BY <2>1, <2>4
      <4>4. dropped' + Len(live) = next
        BY <4>1, <4>3
      <4>. QED  BY <4>2, <4>4
    <3>6. \A i \in 1..Len(live') : live'[i] = dropped' + i
      BY <2>1, <3>3, <3>4, <3>5
    <3>7. Len(live') + dropped' = next' - 1
      <4>1. Len(live) \in Nat /\ dropped \in Nat /\ next \in Nat
        BY <2>1
      <4>2. Len(live) + dropped = next - 1 /\ dropped' = dropped + 1 /\ next' = next + 1
        BY <2>1, <2>2, <2>4
      <4>. QED  BY <4>1, <4>2, <3>3
    <3>. QED  BY <3>6, <3>7 DEF Mirrored
  <2>. QED  BY <2>1, <2>3, <2>4
<1>12. ASSUME NEW t \in Threads, Finish(t)
      PROVE  Mirrored'
  <2>1. pc[Main] = "serving" /\ next' = next /\ live' = live /\ dropped' = dropped
    BY <1>12, FinishEffect
  <2>. QED
    BY <2>1 DEF Mirrored
<1>13. ASSUME NEW t \in Threads, MetaFails(t)
      PROVE  Mirrored'
  <2>1. pc[Main] = "serving" /\ next' = next /\ live' = live /\ dropped' = dropped
    BY <1>13, MetaFailsEffect
  <2>. QED
    BY <2>1 DEF Mirrored
<1>14. ASSUME NEW t \in Threads, Retain(t)
      PROVE  Mirrored'
  <2>1. pc[Main] = "serving" /\ next' = next /\ live' = live /\ dropped' = dropped
    BY <1>14, RetainEffect
  <2>. QED
    BY <2>1 DEF Mirrored
<1>15. ASSUME NEW t \in Threads, RetainFails(t)
      PROVE  Mirrored'
  <2>1. pc[Main] = "serving" /\ next' = next /\ live' = live /\ dropped' = dropped
    BY <1>15, RetainEffect
  <2>. QED
    BY <2>1 DEF Mirrored
<1>16. ASSUME NEW p \in Procs, MetaTemp(p)
      PROVE  Mirrored'
  BY <1>0, <1>16 DEF Mirrored,
         MetaTemp,
         Control, Locking, Working, Active, StoreLabels, BootLabels, MetaLabels,
         TypeOK, DiskType, StoreType, RecorderType, ThreadType, HistoryType
<1>17. ASSUME NEW p \in Procs, MetaRename(p)
      PROVE  Mirrored'
  BY <1>0, <1>17 DEF Mirrored,
         MetaRename,
         Control, Locking, Working, Active, StoreLabels, BootLabels, MetaLabels,
         TypeOK, DiskType, StoreType, RecorderType, ThreadType, HistoryType
<1>18. ASSUME NEW p \in Procs, MetaFlush(p)
      PROVE  Mirrored'
  BY <1>0, <1>18 DEF Mirrored,
         MetaFlush, AppendReturns,
         Control, Locking, Working, Active, StoreLabels, BootLabels, MetaLabels,
         TypeOK, DiskType, StoreType, RecorderType, ThreadType, HistoryType
<1>19. CASE LoadInvalid
  BY <1>0, <1>19 DEF Mirrored,
         LoadInvalid, Fault,
         Control, Locking, Working, Active, StoreLabels, BootLabels, MetaLabels,
         TypeOK, DiskType, StoreType, RecorderType, ThreadType, HistoryType
<1>20. CASE Load
  BY <1>0, <1>20 DEF Mirrored,
         Load, Torn,
         Control, Locking, Working, Active, StoreLabels, BootLabels, MetaLabels,
         TypeOK, DiskType, StoreType, RecorderType, ThreadType, HistoryType
<1>21. CASE CopyTail
  BY <1>0, <1>21 DEF Mirrored,
         CopyTail,
         Control, Locking, Working, Active, StoreLabels, BootLabels, MetaLabels,
         TypeOK, DiskType, StoreType, RecorderType, ThreadType, HistoryType
<1>22. CASE Truncate
  BY <1>0, <1>22, TruncateEffect DEF Mirrored,
         Control, Locking, Working, Active, StoreLabels, BootLabels, MetaLabels,
         TypeOK, DiskType, StoreType, RecorderType, ThreadType, HistoryType
<1>23. CASE Reconcile
  BY <1>0, <1>23, ReconcileEffect DEF Mirrored,
         Control, Locking, Working, Active, StoreLabels, BootLabels, MetaLabels,
         TypeOK, DiskType, StoreType, RecorderType, ThreadType, HistoryType
<1>24. CASE RecoveryDone
  BY <1>0, <1>24 DEF Mirrored,
         RecoveryDone, KeepOrEvict, RemoveDirectory,
         Control, Locking, Working, Active, StoreLabels, BootLabels, MetaLabels,
         TypeOK, DiskType, StoreType, RecorderType, ThreadType, HistoryType
<1>25. CASE RecoveryFails
  BY <1>0, <1>25, DownEffect DEF Mirrored,
         Control, Locking, Working, Active, StoreLabels, BootLabels, MetaLabels,
         TypeOK, DiskType, StoreType, RecorderType, ThreadType, HistoryType
<1>26. CASE Crash
  BY <1>0, <1>26, DownEffect DEF Mirrored,
         Control, Locking, Working, Active, StoreLabels, BootLabels, MetaLabels,
         TypeOK, DiskType, StoreType, RecorderType, ThreadType, HistoryType
<1>27. CASE Closed \/ UNCHANGED vars
  BY <1>0, <1>27 DEF Mirrored,
         Closed, vars, thread,
         Control, Locking, Working, Active, StoreLabels, BootLabels, MetaLabels,
         TypeOK, DiskType, StoreType, RecorderType, ThreadType, HistoryType
<1>. QED
  BY <1>1, <1>2, <1>3, <1>4, <1>5, <1>6, <1>7, <1>8, <1>9, <1>10, <1>11, <1>12, <1>13, <1>14, <1>15, <1>16, <1>17, <1>18, <1>19, <1>20, <1>21, <1>22, <1>23, <1>24, <1>25, <1>26, <1>27
  DEF Next, ThreadStep, WriteMetadata, Recovery

\* Every step keeps the counters of the store at the records that are durable.
LEMMA TalliedKept ==
    ASSUME LogInv, Kept, Drafted, Writing, Tallied, [Next]_vars
    PROVE  Tallied'
<1>. USE LogConstants DEF disk, store, recorder, history, bounds, Procs, Goto
<1>0. TypeOK /\ Control /\ Locking /\ Working /\ (~lapsed => Numbered /\ Extent)
  BY DEF LogInv
<1>1. CASE Create
  BY <1>0, <1>1 DEF Tallied, CountIs, Drafted, Writing,
         Create, NewMeta, RecordBytes,
         Control, Locking, Working, Active, StoreLabels, BootLabels, MetaLabels,
         TypeOK, DiskType, StoreType, RecorderType, ThreadType, HistoryType
<1>2. CASE CreateFails
  BY <1>0, <1>2 DEF Tallied, CountIs, Drafted, Writing,
         CreateFails, Fault,
         Control, Locking, Working, Active, StoreLabels, BootLabels, MetaLabels,
         TypeOK, DiskType, StoreType, RecorderType, ThreadType, HistoryType
<1>3. CASE CreateUndone
  BY <1>0, <1>3 DEF Tallied, CountIs, Drafted, Writing,
         CreateUndone, Fault, TmpAfterFailure,
         Control, Locking, Working, Active, StoreLabels, BootLabels, MetaLabels,
         TypeOK, DiskType, StoreType, RecorderType, ThreadType, HistoryType
<1>4. ASSUME NEW t \in Threads, NEW k \in RecordKinds, Append1(t, k)
      PROVE  Tallied'
  BY <1>0, <1>4 DEF Tallied, CountIs, Drafted, Writing,
         Append1,
         Control, Locking, Working, Active, StoreLabels, BootLabels, MetaLabels,
         TypeOK, DiskType, StoreType, RecorderType, ThreadType, HistoryType
<1>5. ASSUME NEW t \in Threads, Report(t)
      PROVE  Tallied'
  BY <1>0, <1>5 DEF Tallied, CountIs, Drafted, Writing,
         Report,
         Control, Locking, Working, Active, StoreLabels, BootLabels, MetaLabels,
         TypeOK, DiskType, StoreType, RecorderType, ThreadType, HistoryType
<1>6. ASSUME NEW t \in Threads, EnterAppend(t)
      PROVE  Tallied'
  BY <1>0, <1>6 DEF Tallied, CountIs, Drafted, Writing,
         EnterAppend, RaiseOSError,
         Control, Locking, Working, Active, StoreLabels, BootLabels, MetaLabels,
         TypeOK, DiskType, StoreType, RecorderType, ThreadType, HistoryType
<1>7. ASSUME NEW t \in Threads, WriteEvidence(t)
      PROVE  Tallied'
  BY <1>0, <1>7 DEF Tallied, CountIs, Drafted, Writing,
         WriteEvidence, Body, End,
         Control, Locking, Working, Active, StoreLabels, BootLabels, MetaLabels,
         TypeOK, DiskType, StoreType, RecorderType, ThreadType, HistoryType
<1>8. ASSUME NEW t \in Threads, WriteFails(t)
      PROVE  Tallied'
  <2>1. /\ pc[t] \in {"write", "sync"} /\ op[t] = "append" /\ t \in Procs
        /\ pc' = [pc EXCEPT ![t] = "finish"] /\ op' = [op EXCEPT ![t] = "fail"]
        /\ mem' = mem /\ next' = next /\ lapsed' = lapsed /\ recLock' = recLock
    BY <1>8, AppendFailsEffect
  <2>2. recLock' # None /\ pc[Main] = "serving"
    BY <1>0, <2>1 DEF Locking, Control
  <2>3. /\ \A p \in Procs : p # t => pc'[p] = pc[p] /\ op'[p] = op[p]
        /\ pc'[t] = "finish"
    BY <1>0, <2>1 DEF TypeOK, ThreadType
  <2>4. Active' <=> Active
    BY <2>1 DEF Active
  <2>. HIDE DEF Procs
  <2>5. Main \in Procs /\ Main # t /\ Threads \subseteq Procs
    BY DEF Procs
  <2>. QED  BY <2>1, <2>2, <2>3, <2>4, <2>5 DEF Tallied, CountIs, MetaLabels
<1>9. ASSUME NEW t \in Threads, SyncEvidence(t)
      PROVE  Tallied'
  <2>1. /\ pc[t] = "sync" /\ op[t] = "append" /\ storeLock = t /\ t \in Procs
        /\ mem # NoMeta /\ mem.status = "active" /\ mem \in Meta
        /\ mem'.records = mem.records + 1 /\ mem'.bytes = mem.bytes + 2
        /\ \A p \in Procs : p # t => pc'[p] = pc[p] /\ op'[p] = op[p]
        /\ pc'[t] \in {"temp", "finish", "commit"}
        /\ next' = next /\ lapsed' = lapsed /\ recLock' = recLock
    BY <1>0, <1>9, SyncEffect DEF TypeOK, ThreadType
  <2>2. recLock = t /\ pc[Main] = "serving" /\ Active
    BY <1>0, <2>1 DEF Locking, Control, Active
  <2>3. next \in Nat /\ mem.records \in Nat /\ mem.bytes \in Nat
    BY <1>0, <2>1 DEF TypeOK, RecorderType, Meta
  <2>4. ~lapsed => CountIs(next - 1)
    BY <2>1, <2>2 DEF Tallied
  <2>5. ~lapsed => mem'.records = next /\ mem'.bytes = RecordBytes * next
    BY <2>1, <2>3, <2>4 DEF CountIs, RecordBytes
  <2>6. \A u \in Threads : u # t =>
           /\ pc'[u] \notin {"begin", "write", "sync"}
           /\ ~(pc'[u] \in MetaLabels \union {"commit"} /\ op'[u] = "append")
    BY <1>0, <2>1, <2>2 DEF Locking, Control, MetaLabels
  <2>7. pc'[Main] = "serving" /\ recLock' # None
    BY <2>1, <2>2
  <2>. QED  BY <2>1, <2>5, <2>6, <2>7 DEF Tallied, CountIs, MetaLabels
<1>10. ASSUME NEW t \in Threads, SyncFails(t)
      PROVE  Tallied'
  <2>1. /\ pc[t] \in {"write", "sync"} /\ op[t] = "append" /\ t \in Procs
        /\ pc' = [pc EXCEPT ![t] = "finish"] /\ op' = [op EXCEPT ![t] = "fail"]
        /\ mem' = mem /\ next' = next /\ lapsed' = lapsed /\ recLock' = recLock
    BY <1>10, AppendFailsEffect
  <2>2. recLock' # None /\ pc[Main] = "serving"
    BY <1>0, <2>1 DEF Locking, Control
  <2>3. /\ \A p \in Procs : p # t => pc'[p] = pc[p] /\ op'[p] = op[p]
        /\ pc'[t] = "finish"
    BY <1>0, <2>1 DEF TypeOK, ThreadType
  <2>4. Active' <=> Active
    BY <2>1 DEF Active
  <2>. HIDE DEF Procs
  <2>5. Main \in Procs /\ Main # t /\ Threads \subseteq Procs
    BY DEF Procs
  <2>. QED  BY <2>1, <2>2, <2>3, <2>4, <2>5 DEF Tallied, CountIs, MetaLabels
<1>11. ASSUME NEW t \in Threads, Commit(t)
      PROVE  Tallied'
  BY <1>0, <1>11 DEF Tallied, CountIs, Drafted, Writing,
         Commit,
         Control, Locking, Working, Active, StoreLabels, BootLabels, MetaLabels,
         TypeOK, DiskType, StoreType, RecorderType, ThreadType, HistoryType
<1>12. ASSUME NEW t \in Threads, Finish(t)
      PROVE  Tallied'
  <2>1. /\ pc[t] = "finish" /\ op[t] \in {"finish", "fail", "report"}
        /\ pc[Main] = "serving" /\ t \in Procs
        /\ \A p \in Procs : p # t => pc'[p] = pc[p] /\ op'[p] = op[p]
        /\ pc'[t] \in {"idle", "finish", "temp", "retain"}
        /\ pc'[t] = "temp" => op'[t] = op[t]
        /\ mem' = mem /\ next' = next
    BY <1>12, FinishEffect
  <2>2. mem = NoMeta \/ (recLock' = recLock /\ UNCHANGED history)
    BY <1>12, FinishEffect
  <2>3. Active' => Active /\ mem # NoMeta
    BY <2>1 DEF Active
  <2>4. pc'[Main] = "serving" /\ Main # t
    BY <2>1
  <2>. HIDE DEF Procs
  <2>5. Threads \subseteq Procs
    BY DEF Procs
  <2>. QED  BY <2>1, <2>2, <2>3, <2>4, <2>5 DEF Tallied, CountIs, MetaLabels
<1>13. ASSUME NEW t \in Threads, MetaFails(t)
      PROVE  Tallied'
  BY <1>0, <1>13, MetaFailsEffect, SMTT(30) DEF Tallied, CountIs, Drafted, Writing,
         history,
         Control, Locking, Working, Active, StoreLabels, BootLabels, MetaLabels,
         TypeOK, DiskType, StoreType, RecorderType, ThreadType, HistoryType
<1>14. ASSUME NEW t \in Threads, Retain(t)
      PROVE  Tallied'
  BY <1>0, <1>14, RetainEffect DEF Tallied, CountIs, Drafted, Writing,
         history,
         Control, Locking, Working, Active, StoreLabels, BootLabels, MetaLabels,
         TypeOK, DiskType, StoreType, RecorderType, ThreadType, HistoryType
<1>15. ASSUME NEW t \in Threads, RetainFails(t)
      PROVE  Tallied'
  BY <1>0, <1>15, RetainEffect DEF Tallied, CountIs, Drafted, Writing,
         history,
         Control, Locking, Working, Active, StoreLabels, BootLabels, MetaLabels,
         TypeOK, DiskType, StoreType, RecorderType, ThreadType, HistoryType
<1>16. ASSUME NEW p \in Procs, MetaTemp(p)
      PROVE  Tallied'
  BY <1>0, <1>16 DEF Tallied, CountIs, Drafted, Writing,
         MetaTemp,
         Control, Locking, Working, Active, StoreLabels, BootLabels, MetaLabels,
         TypeOK, DiskType, StoreType, RecorderType, ThreadType, HistoryType
<1>17. ASSUME NEW p \in Procs, MetaRename(p)
      PROVE  Tallied'
  BY <1>0, <1>17 DEF Tallied, CountIs, Drafted, Writing,
         MetaRename,
         Control, Locking, Working, Active, StoreLabels, BootLabels, MetaLabels,
         TypeOK, DiskType, StoreType, RecorderType, ThreadType, HistoryType
<1>18. ASSUME NEW p \in Procs, MetaFlush(p)
      PROVE  Tallied'
  BY <1>0, <1>18 DEF Tallied, CountIs, Drafted, Writing,
         MetaFlush, AppendReturns,
         Control, Locking, Working, Active, StoreLabels, BootLabels, MetaLabels,
         TypeOK, DiskType, StoreType, RecorderType, ThreadType, HistoryType
<1>19. CASE LoadInvalid
  BY <1>0, <1>19 DEF Tallied, CountIs, Drafted, Writing,
         LoadInvalid, Fault,
         Control, Locking, Working, Active, StoreLabels, BootLabels, MetaLabels,
         TypeOK, DiskType, StoreType, RecorderType, ThreadType, HistoryType
<1>20. CASE Load
  BY <1>0, <1>20 DEF Tallied, CountIs, Drafted, Writing,
         Load, Torn,
         Control, Locking, Working, Active, StoreLabels, BootLabels, MetaLabels,
         TypeOK, DiskType, StoreType, RecorderType, ThreadType, HistoryType
<1>21. CASE CopyTail
  BY <1>0, <1>21 DEF Tallied, CountIs, Drafted, Writing,
         CopyTail,
         Control, Locking, Working, Active, StoreLabels, BootLabels, MetaLabels,
         TypeOK, DiskType, StoreType, RecorderType, ThreadType, HistoryType
<1>22. CASE Truncate
  BY <1>0, <1>22, TruncateEffect DEF Tallied, CountIs, Drafted, Writing,
         Control, Locking, Working, Active, StoreLabels, BootLabels, MetaLabels,
         TypeOK, DiskType, StoreType, RecorderType, ThreadType, HistoryType
<1>23. CASE Reconcile
  BY <1>0, <1>23, ReconcileEffect DEF Tallied, CountIs, Drafted, Writing,
         Control, Locking, Working, Active, StoreLabels, BootLabels, MetaLabels,
         TypeOK, DiskType, StoreType, RecorderType, ThreadType, HistoryType
<1>24. CASE RecoveryDone
  BY <1>0, <1>24 DEF Tallied, CountIs, Drafted, Writing,
         RecoveryDone, KeepOrEvict, RemoveDirectory,
         Control, Locking, Working, Active, StoreLabels, BootLabels, MetaLabels,
         TypeOK, DiskType, StoreType, RecorderType, ThreadType, HistoryType
<1>25. CASE RecoveryFails
  BY <1>0, <1>25, DownEffect DEF Tallied, CountIs, Drafted, Writing,
         Control, Locking, Working, Active, StoreLabels, BootLabels, MetaLabels,
         TypeOK, DiskType, StoreType, RecorderType, ThreadType, HistoryType
<1>26. CASE Crash
  BY <1>0, <1>26, DownEffect DEF Tallied, CountIs, Drafted, Writing,
         Control, Locking, Working, Active, StoreLabels, BootLabels, MetaLabels,
         TypeOK, DiskType, StoreType, RecorderType, ThreadType, HistoryType
<1>27. CASE Closed \/ UNCHANGED vars
  BY <1>0, <1>27 DEF Tallied, CountIs, Drafted, Writing,
         Closed, vars, thread,
         Control, Locking, Working, Active, StoreLabels, BootLabels, MetaLabels,
         TypeOK, DiskType, StoreType, RecorderType, ThreadType, HistoryType
<1>. QED
  BY <1>1, <1>2, <1>3, <1>4, <1>5, <1>6, <1>7, <1>8, <1>9, <1>10, <1>11, <1>12, <1>13, <1>14, <1>15, <1>16, <1>17, <1>18, <1>19, <1>20, <1>21, <1>22, <1>23, <1>24, <1>25, <1>26, <1>27
  DEF Next, ThreadStep, WriteMetadata, Recovery
-----------------------------------------------------------------------------
\* What is known of the metadata, the evidence and the live view at every step,
\* beyond LogInv.
StatusInv ==
    /\ Kept /\ Drafted /\ Settled /\ FailureKept
    /\ Shaped /\ Counted /\ Recovered
    /\ Writing /\ Open /\ Sealed /\ TerminalLast /\ Mirrored /\ Tallied

\* It holds before create_recorder has made anything.
LEMMA StatusInvInit == Init => StatusInv
<1>. SUFFICES ASSUME Init PROVE StatusInv
  OBVIOUS
<1>. USE LogConstants DEF Init, Procs, MetaLabels, BootLabels, Active
<1>1. Kept
  BY DEF Kept
<1>2. Drafted /\ Settled /\ FailureKept
  BY DEF Drafted, Settled, FailureKept
<1>3. Shaped
  BY DEF Shaped, Torn
<1>4. Counted /\ Recovered
  BY DEF Counted, Recovered
<1>5. Writing /\ Open /\ Sealed
  BY DEF Writing, Open, Sealed, SealedIn
<1>6. TerminalLast /\ Mirrored /\ Tallied
  BY DEF TerminalLast, Mirrored, Tallied
<1>. QED  BY <1>1, <1>2, <1>3, <1>4, <1>5, <1>6 DEF StatusInv

\* No step of the recorder, the store, a crash or the recovery breaks it.
LEMMA StatusInvNext == LogInv /\ StatusInv /\ [Next]_vars => StatusInv'
<1>. SUFFICES ASSUME LogInv, StatusInv, [Next]_vars PROVE StatusInv'
  OBVIOUS
<1>1. /\ Kept /\ Drafted /\ Settled /\ FailureKept
      /\ Shaped /\ Counted /\ Recovered
      /\ Writing /\ Open /\ Sealed /\ TerminalLast /\ Mirrored /\ Tallied
  BY DEF StatusInv
<1>2. Kept' /\ Drafted' /\ Settled' /\ FailureKept'
  BY <1>1, KeptKept, DraftedKept, SettledKept, FailureKeptKept
<1>3. Shaped' /\ Counted' /\ Recovered'
  BY <1>1, ShapedKept, CountedKept, RecoveredKept
<1>4. Writing' /\ Open' /\ Sealed'
  BY <1>1, WritingKept, OpenKept, SealedKept
<1>5. TerminalLast' /\ Mirrored' /\ Tallied'
  BY <1>1, TerminalLastKept, MirroredKept, TalliedKept
<1>. QED  BY <1>2, <1>3, <1>4, <1>5 DEF StatusInv

\* In every reachable state of one session, whatever fails or crashes, both
\* invariants hold.
THEOREM StatusInvariant == Spec => [](LogInv /\ StatusInv)
<1>1. Init => StatusInv
  BY StatusInvInit
<1>2. LogInv /\ StatusInv /\ [Next]_vars => StatusInv'
  BY StatusInvNext
<1>. QED  BY <1>1, <1>2, LogInvariant, PTL DEF Spec

\* An evidence file of n numbered lines has n line ends, which is what
\* _scan_evidence_locked counts.
LEMMA ScanNumbered ==
    ASSUME file \in Seq(Unit), Numbered, NEW n \in Nat, Len(file) = 2 * n
    PROVE  ScanRecords(file) = n
<1>. DEFINE ends == {i \in 1..Len(file) : file[i].part = 2}
            F == [s \in 1..n |-> 2 * s]
<1>1. \A i \in 1..Len(file) : /\ file[i].seq \in Nat /\ file[i].part \in {1, 2}
                              /\ i = 2 * file[i].seq - 2 + file[i].part
  <2>1. \A i \in 1..Len(file) : file[i] \in Unit
    OBVIOUS
  <2>. QED  BY <2>1 DEF Unit, Numbered
<1>2. \A s \in 1..n : 2 * s \in ends
  <2>. TAKE s \in 1..n
  <2>1. 2 * s \in 1..Len(file)
    OBVIOUS
  <2>2. file[2 * s].part = 2
    BY <1>1, <2>1
  <2>. QED  BY <2>1, <2>2
<1>3. \A i \in ends : \E s \in 1..n : i = 2 * s
  <2>. TAKE i \in ends
  <2>1. i \in 1..Len(file) /\ i = 2 * file[i].seq /\ file[i].seq \in Nat
    BY <1>1
  <2>. QED  BY <2>1
<1>4. F \in [1..n -> ends]
  BY <1>2
<1>5. \A a, b \in 1..n : F[a] = F[b] => a = b
  OBVIOUS
<1>6. \A i \in ends : \E s \in 1..n : F[s] = i
  BY <1>3
<1>. HIDE DEF ends, F
<1>7. ExistsBijection(1..n, ends)
  <2>1. F \in Bijection(1..n, ends)
    BY <1>4, <1>5, <1>6, Fun_IsBij
  <2>. QED  BY <2>1 DEF ExistsBijection
<1>8. Cardinality(ends) = n
  BY <1>7, FS_CountingElements
<1>. QED  BY <1>8 DEF ScanRecords, ends

\* README.md: "Terminal records close a session": until a failure that could not
\* be recorded, nothing follows one in evidence.jsonl or in the live view, and a
\* session is stored as completed or cancelled only by its own terminal record
\* (SessionRecorder.append, SessionStore.append and finish).
THEOREM TerminalCloses == Spec => []TerminalClosesLog
<1>1. ASSUME LogInv, StatusInv, ~lapsed, dir, pc[Main] = "serving",
             NEW i \in 1..Len(live),
             file[RecordBytes * live[i]].kind \in TERMINAL_RECORDS
      PROVE  i = Len(live)
  <2>1. /\ Len(live) + dropped = next - 1 /\ live[i] = dropped + i
        /\ live \in Seq(Nat) /\ dropped \in Nat /\ next \in Nat \ {0}
    BY <1>1 DEF StatusInv, Mirrored, LogInv, TypeOK, RecorderType
  <2>2. /\ Len(file) \in Nat /\ synced \in Nat
        /\ 2 * (next - 1) <= synced /\ synced <= Len(file)
    BY <1>1 DEF LogInv, TypeOK, DiskType, Extent, Acked
  <2>3. 2 * live[i] \in 1..Len(file)
    BY <2>1, <2>2
  <2>4. 2 * live[i] + 2 > Len(file)
    BY <1>1, <2>3 DEF StatusInv, TerminalLast, RecordBytes
  <2>. QED  BY <2>1, <2>2, <2>4
<1>2. LogInv /\ StatusInv => TerminalClosesLog
  BY <1>1 DEF StatusInv, TerminalClosesLog, TerminalLast, Sealed, SealedIn
<1>. QED  BY <1>2, StatusInvariant, PTL

\* The type, the numbering and the end of the evidence, and its agreement with
\* the live view and the counters while no append is under way
\* (SessionRecorder.append, SessionStore.append and the recovery).
THEOREM EvidenceIsWhole == Spec => []EvidenceInv
<1>1. LogInv /\ StatusInv => LiveMirrorsEvidence
  <2>. SUFFICES ASSUME LogInv, StatusInv, ~lapsed, Active, pc[Main] = "serving",
                       recLock = None
                PROVE  /\ Len(live) + dropped = ScanRecords(file)
                       /\ \A i \in 1..Len(live) : live[i] = dropped + i
                       /\ mem.records = ScanRecords(file) /\ mem.bytes = Len(file)
    BY DEF LiveMirrorsEvidence
  <2>1. Len(file) = 2 * (next - 1) /\ Numbered /\ file \in Seq(Unit) /\ next - 1 \in Nat
    BY DEF LogInv, Extent, Acked, TypeOK, DiskType, RecorderType
  <2>2. ScanRecords(file) = next - 1
    BY <2>1, ScanNumbered
  <2>3. mem.records = next - 1 /\ mem.bytes = 2 * (next - 1)
    BY DEF StatusInv, Tallied, CountIs, RecordBytes
  <2>. QED  BY <2>1, <2>2, <2>3 DEF StatusInv, Mirrored
<1>2. LogInv => TypeOK
  BY DEF LogInv
<1>. QED  BY <1>1, <1>2, StatusInvariant, EvidenceContiguous, TerminalCloses, PTL
          DEF EvidenceInv

\* After a start, a session that _recover_sessions has loaded is not active, its
\* evidence ends with a newline, and its counters, in memory and in
\* metadata.json, are those of the evidence that is there.
THEOREM CountersRecovered == Spec => []RecoveredCounters
<1>1. LogInv /\ StatusInv => RecoveredCounters
  BY DEF StatusInv, Recovered, RecoveredCounters, LogInv, Control, MetaLabels
<1>. QED  BY <1>1, StatusInvariant, PTL

\* When append() has raised for a storage error, the stored metadata of the
\* session says so, and no later step, crash or recovery makes it say less.
THEOREM FailuresRecorded == Spec => []FailureRecorded
<1>1. LogInv /\ StatusInv => FailureRecorded
  BY DEF StatusInv, FailureKept, Noted, FailureRecorded
<1>. QED  BY <1>1, StatusInvariant, PTL
-----------------------------------------------------------------------------
(* EvidenceLog implements DurableLog.                                      *)

\* A file with no unit holds no line.
LEMMA LinesEmpty == LinesOf(<<>>) = <<>>
<1>1. Len(<<>>) \div 2 = 0
  BY Z3
<1>. QED  BY <1>1 DEF LinesOf

\* LinesOf depends on no more of a file than its whole records.
LEMMA LinesAre ==
    ASSUME NEW f \in Seq(Unit), NEW g \in Seq(Unit), NEW n \in Nat,
           Len(f) \in {2 * n, 2 * n + 1}, Len(g) \in {2 * n, 2 * n + 1},
           \A i \in 1..(2 * n) : g[i] = f[i]
    PROVE  LinesOf(g) = LinesOf(f) /\ Len(LinesOf(f)) = n
<1>1. Len(f) \div 2 = n /\ Len(g) \div 2 = n
  OBVIOUS
<1>2. \A i \in 1..n : LineAt(g, i) = LineAt(f, i)
  <2>. TAKE i \in 1..n
  <2>1. 2 * i \in 1..(2 * n)
    OBVIOUS
  <2>. QED  BY <2>1 DEF LineAt
<1>3. LinesOf(g) = [i \in 1..n |-> LineAt(g, i)] /\ LinesOf(f) = [i \in 1..n |-> LineAt(f, i)]
  BY <1>1 DEF LinesOf
<1>. QED  BY <1>2, <1>3

\* A whole record more is a line more.
LEMMA LinesAppend ==
    ASSUME NEW f \in Seq(Unit), NEW n \in Nat, Len(f) = 2 * n,
           NEW s \in Nat, NEW k \in Kinds
    PROVE  LinesOf(f \o <<Body(s, k), End(s, k)>>)
              = Append(LinesOf(f), [seq |-> s, kind |-> k, whole |-> TRUE])
<1>. DEFINE g == f \o <<Body(s, k), End(s, k)>>
            line == [seq |-> s, kind |-> k, whole |-> TRUE]
<1>1. Body(s, k) \in Unit /\ End(s, k) \in Unit
  BY DEF Body, End, Unit
<1>2. /\ g \in Seq(Unit) /\ Len(g) = 2 * n + 2
      /\ \A i \in 1..(2 * n) : g[i] = f[i]
      /\ g[2 * n + 2] = End(s, k)
  BY <1>1
<1>. HIDE DEF g
<1>3. Len(f) \div 2 = n /\ Len(g) \div 2 = n + 1
  BY <1>2
<1>4. \A i \in 1..n : LineAt(g, i) = LineAt(f, i)
  <2>. TAKE i \in 1..n
  <2>1. 2 * i \in 1..(2 * n)
    OBVIOUS
  <2>. QED  BY <1>2, <2>1 DEF LineAt
<1>5. LineAt(g, n + 1) = line
  <2>1. 2 * (n + 1) = 2 * n + 2
    OBVIOUS
  <2>2. g[2 * (n + 1)] = [seq |-> s, kind |-> k, part |-> 2]
    BY <1>2, <2>1 DEF End
  <2>3. /\ g[2 * (n + 1)].seq = s /\ g[2 * (n + 1)].kind = k
        /\ (g[2 * (n + 1)].part = 2) = TRUE
    BY <2>2
  <2>. QED  BY <2>3, Zenon DEF LineAt
<1>6. LinesOf(g) = [i \in 1..(n + 1) |-> LineAt(g, i)]
  BY <1>3 DEF LinesOf
<1>7. LinesOf(f) = [i \in 1..n |-> LineAt(f, i)]
  BY <1>3 DEF LinesOf
<1>. HIDE DEF line
<1>8. Append(LinesOf(f), line) = [i \in 1..(n + 1) |-> IF i = n + 1 THEN line ELSE LineAt(f, i)]
  BY <1>7
<1>9. \A i \in 1..(n + 1) : LineAt(g, i) = IF i = n + 1 THEN line ELSE LineAt(f, i)
  BY <1>4, <1>5
<1>. QED  BY <1>6, <1>8, <1>9 DEF g, line

\* What a crash leaves of the lines.
LEMMA LinesCut ==
    ASSUME NEW f \in Seq(Unit), NEW n \in Nat, NEW c \in Nat,
           2 * n <= c, c <= 2 * n + 1, c <= Len(f), Len(f) <= 2 * n + 2
    PROVE  LinesOf(SubSeq(f, 1, c)) = SubSeq(LinesOf(f), 1, n)
<1>. DEFINE g == SubSeq(f, 1, c)
            q == Len(f) \div 2
<1>1. Len(g) = c /\ \A i \in 1..c : g[i] = f[i]
  OBVIOUS
<1>2. c \div 2 = n /\ q \in Nat /\ n <= q
  OBVIOUS
<1>. HIDE DEF g, q
<1>3. \A i \in 1..n : LineAt(g, i) = LineAt(f, i)
  <2>. TAKE i \in 1..n
  <2>1. 2 * i \in 1..c
    OBVIOUS
  <2>. QED  BY <1>1, <2>1 DEF LineAt
<1>4. LinesOf(g) = [i \in 1..n |-> LineAt(g, i)]
  BY <1>1, <1>2 DEF LinesOf
<1>5. LinesOf(f) = [i \in 1..q |-> LineAt(f, i)]
  BY DEF LinesOf, q
<1>6. SubSeq(LinesOf(f), 1, n) = [i \in 1..n |-> LineAt(f, i)]
  BY <1>2, <1>5
<1>. QED  BY <1>3, <1>4, <1>6 DEF g

\* A torn tail holds no line: cutting it off leaves the lines as they are.
LEMMA LinesTorn ==
    ASSUME file \in Seq(Unit), Numbered, Torn(file), NEW e \in 0..Len(file),
           e # 0 => file[e].part = 2,
           \A i \in (e + 1)..Len(file) : file[i].part = 1
    PROVE  LinesOf(SubSeq(file, 1, e)) = LinesOf(file)
<1>1. \A i \in 1..Len(file) : /\ file[i].seq \in Nat /\ file[i].part \in {1, 2}
                              /\ i = 2 * file[i].seq - 2 + file[i].part
  <2>1. \A i \in 1..Len(file) : file[i] \in Unit
    OBVIOUS
  <2>. QED  BY <2>1 DEF Unit, Numbered
<1>2. PICK n \in Nat : Len(file) = 2 * n + 1
  <2>1. Len(file) \in 1..Len(file) /\ file[Len(file)].part = 1
    BY DEF Torn
  <2>2. Len(file) = 2 * (file[Len(file)].seq - 1) + 1 /\ file[Len(file)].seq - 1 \in Nat
    BY <1>1, <2>1
  <2>. QED  BY <2>2
<1>3. e = 2 * n
  <2>1. e # Len(file)
    BY <1>2 DEF Torn
  <2>2. 2 * n # 0 => file[2 * n].part = 2
    <3>. SUFFICES ASSUME 2 * n # 0 PROVE file[2 * n].part = 2
      OBVIOUS
    <3>1. 2 * n \in 1..Len(file)
      BY <1>2
    <3>2. \A k, q \in Nat, p \in {1, 2} : 2 * k = 2 * q - 2 + p => p = 2
      OBVIOUS
    <3>. QED  BY <1>1, <3>1, <3>2
  <2>3. ~(e < 2 * n)
    <3>. SUFFICES ASSUME e < 2 * n PROVE FALSE
      OBVIOUS
    <3>1. 2 * n \in (e + 1)..Len(file) /\ 2 * n # 0
      BY <1>2
    <3>2. file[2 * n].part = 1
      BY <3>1
    <3>. QED  BY <2>2, <3>1, <3>2
  <2>. QED  BY <1>2, <2>1, <2>3
<1>4. /\ SubSeq(file, 1, e) \in Seq(Unit) /\ Len(SubSeq(file, 1, e)) = 2 * n
      /\ \A i \in 1..(2 * n) : SubSeq(file, 1, e)[i] = file[i]
  BY <1>2, <1>3
<1>. QED  BY <1>2, <1>4, LinesAre

\* A step of the promised log, or none.
AbstractStep == [Abstract!Next]_(Abstract!vars)

\* Only an error inside fail() ends the promise, and only of a running session.
LEMMA LapseAt ==
    ASSUME LogInv, [Next]_vars
    PROVE  lapsed' = lapsed \/ (lapsed' /\ pc[Main] = "serving")
<1>. USE DEF history, thread
<1>1. \A t \in Threads : pc[t] # "idle" => pc[Main] = "serving"
  BY DEF LogInv, Control
<1>2. \A t \in Threads :
         RaiseOSError(t) \/ FinishReturns(t) => lapsed' = lapsed \/ lapsed'
  BY DEF RaiseOSError, FinishReturns
<1>3. ASSUME NEW t \in Threads, Report(t) \/ ThreadStep(t)
      PROVE  lapsed' = lapsed \/ (lapsed' /\ pc[Main] = "serving")
  <2>1. CASE lapsed' = lapsed
    BY <2>1
  <2>2. CASE pc[t] # "idle" /\ lapsed'
    BY <1>1, <2>2
  <2>3. (pc[t] # "idle" /\ (RaiseOSError(t) \/ FinishReturns(t))) \/ lapsed' = lapsed
    BY <1>3 DEF Report, ThreadStep, EnterAppend, WriteEvidence, WriteFails,
       SyncEvidence, SyncFails, Commit, Finish, MetaFails, Retain, RetainFails, MetaLabels
  <2>. QED  BY <1>2, <2>1, <2>2, <2>3
<1>4. CASE \E t \in Threads, k \in RecordKinds : Append1(t, k)
  BY <1>4 DEF Append1
<1>5. CASE \E p \in Procs : WriteMetadata(p)
  BY <1>5 DEF WriteMetadata, MetaTemp, MetaRename, MetaFlush
<1>6. CASE Create \/ CreateFails \/ CreateUndone
  BY <1>6 DEF Create, CreateFails, CreateUndone
<1>7. CASE Recovery \/ Crash
  BY <1>7 DEF Recovery, LoadInvalid, Load, CopyTail, Truncate, Reconcile,
     RecoveryDone, RecoveryFails, Crash, ProcessEnds
<1>8. CASE Closed \/ UNCHANGED vars
  BY <1>8 DEF Closed, vars
<1>. QED  BY <1>3, <1>4, <1>5, <1>6, <1>7, <1>8 DEF Next

\* After that nothing is promised.
LEMMA LapsedStep ==
    ASSUME LogInv, [Next]_vars, lapsed \/ lapsed'
    PROVE  AbstractStep
<1>1. lapsed' = lapsed \/ (lapsed' /\ pc[Main] = "serving")
  BY LapseAt
<1>2. lapsed \in BOOLEAN
  BY DEF LogInv, TypeOK, HistoryType
<1>3. CASE lapsed
  <2>1. lapsed'
    BY <1>1, <1>3
  <2>. QED
    BY <1>3, <2>1 DEF AbstractStep, Abstract!vars, statusBar, logBar, ackedBar
<1>4. CASE ~lapsed /\ lapsed' /\ pc[Main] = "serving"
  <2>1. /\ statusBar \in {"open", "closed", "gone"} /\ statusBar' = "lapsed"
        /\ logBar' = <<>> /\ ackedBar' = 0
    BY <1>4 DEF statusBar, logBar, ackedBar
  <2>2. Abstract!Lapse
    BY <2>1 DEF Abstract!Lapse
  <2>. QED  BY <2>2 DEF AbstractStep, Abstract!Next
<1>. QED  BY <1>1, <1>2, <1>3, <1>4

\* A step that keeps the lines, their count and what the session is, is none.
LEMMA QuietStep ==
    ASSUME ~lapsed, ~lapsed', dir' = dir, next' = next, Active' <=> Active,
           pc[Main] # "start", pc'[Main] # "start", LinesOf(file') = LinesOf(file)
    PROVE  AbstractStep
BY DEF AbstractStep, Abstract!vars, statusBar, logBar, ackedBar

\* Retention evicts a closed session.
LEMMA EvictStep ==
    ASSUME ~lapsed, ~lapsed', dir, ~Active, pc[Main] # "start", pc'[Main] # "start",
           ~dir', file' = <<>>, next' = next
    PROVE  AbstractStep
<1>1. LinesOf(file') = <<>>
  BY LinesEmpty
<1>2. Abstract!Evict
  BY <1>1 DEF Abstract!Evict, statusBar, logBar, ackedBar
<1>. QED  BY <1>2 DEF AbstractStep, Abstract!Next

\* A session is created, or its creation fails.
LEMMA CreationSteps ==
    ASSUME LogInv, StatusInv, ~lapsed, ~lapsed', Create \/ CreateFails \/ CreateUndone
    PROVE  AbstractStep
<1>0. /\ file = <<>> /\ next = 1 /\ file' = file /\ next' = next
      /\ NewMeta.status = "active" /\ NewMeta \in Meta
  BY DEF LogInv, Working, Create, CreateFails, CreateUndone, recorder, NewMeta, Meta, Statuses
<1>1. logBar = <<>> /\ logBar' = <<>> /\ ackedBar = 0 /\ ackedBar' = 0
  BY <1>0, LinesEmpty DEF logBar, ackedBar
<1>2. ThreadType /\ Main \in Procs
  BY DEF LogInv, TypeOK, Procs
<1>3. CASE Create
  <2>1. statusBar = "new" /\ statusBar' = "open"
    BY <1>0, <1>2, <1>3, LogConstants DEF Create, statusBar, Active, Goto, ThreadType
  <2>2. Abstract!Create
    BY <1>1, <2>1 DEF Abstract!Create
  <2>. QED  BY <2>2 DEF AbstractStep, Abstract!Next
<1>4. CASE CreateFails \/ CreateUndone
  <2>1. /\ pc[Main] = "start" \/ (dir /\ Active /\ pc[Main] # "start")
        /\ ~Active' /\ pc'[Main] = "aborted"
    BY <1>2, <1>4 DEF CreateFails, CreateUndone, Active, Goto, ThreadType, LogInv,
       Working, StatusInv, Kept, store, MetaLabels
  <2>2. statusBar \in {"new", "open"} /\ statusBar' \in {"closed", "gone"}
    BY <2>1 DEF statusBar
  <2>3. Abstract!Abandon
    BY <1>1, <2>2 DEF Abstract!Abandon
  <2>. QED  BY <2>3 DEF AbstractStep, Abstract!Next
<1>. QED  BY <1>3, <1>4

\* The write of a record is the one step that adds a line, and only to an open
\* session whose lines are all acknowledged.
LEMMA WriteStep ==
    ASSUME LogInv, StatusInv, ~lapsed, ~lapsed', NEW t \in Threads, WriteEvidence(t)
    PROVE  AbstractStep
<1>0. /\ pc[t] = "write" /\ op[t] = "append" /\ Active /\ dir /\ pc[Main] = "serving"
      /\ file \in Seq(Unit) /\ Len(file) = 2 * (next - 1) /\ next - 1 \in Nat /\ next \in Nat
      /\ kind[t] \in Kinds /\ ThreadType
  BY DEF WriteEvidence, LogInv, Control, Working, Extent, Acked, TypeOK, DiskType,
     RecorderType, ThreadType, StoreLabels, Procs
<1>1. /\ file' = file \o <<Body(next, kind[t]), End(next, kind[t])>>
      /\ dir' = dir /\ mem' = mem /\ next' = next /\ pc'[Main] = "serving"
  BY <1>0, LogConstants
  DEF WriteEvidence, store, recorder, Goto, ThreadType, Procs
<1>2. /\ statusBar = "open" /\ statusBar' = "open" /\ ackedBar = next - 1
      /\ ackedBar' = next - 1
  BY <1>0, <1>1 DEF statusBar, ackedBar, Active
<1>3. /\ logBar = LinesOf(file) /\ Len(LinesOf(file)) = next - 1
      /\ logBar' = Append(LinesOf(file), Abstract!Line(next, kind[t]))
  <2>1. Len(LinesOf(file)) = next - 1
    BY <1>0, LinesAre
  <2>2. LinesOf(file') = Append(LinesOf(file), [seq |-> next, kind |-> kind[t], whole |-> TRUE])
    BY <1>0, <1>1, LinesAppend
  <2>. QED  BY <2>1, <2>2 DEF logBar, Abstract!Line
<1>4. LinesOf(file) # <<>> =>
         LinesOf(file)[Len(LinesOf(file))].kind \notin TERMINAL_RECORDS
  <2>. SUFFICES ASSUME LinesOf(file) # <<>>
                PROVE  LinesOf(file)[next - 1].kind \notin TERMINAL_RECORDS
    BY <1>3
  <2>1. next - 1 \in 1..(next - 1)
    <3>1. next - 1 # 0
      BY <1>3 DEF LinesOf
    <3>. QED  BY <1>0, <3>1
  <2>2. LinesOf(file)[next - 1] = LineAt(file, next - 1)
    <3>1. Len(file) \div 2 = next - 1
      BY <1>0
    <3>. QED  BY <2>1, <3>1 DEF LinesOf
  <2>3. PlainIn(file, Acked)
    BY <1>0 DEF StatusInv, Open
  <2>4. 2 * (next - 1) \in 1..Acked /\ 2 * (next - 1) <= Len(file)
    BY <1>0, <2>1 DEF Acked
  <2>. QED  BY <2>2, <2>3, <2>4 DEF PlainIn, LineAt
<1>5. Abstract!Write(kind[t])
  <2>1. (next - 1) + 1 = next
    BY <1>0
  <2>. QED  BY <1>2, <1>3, <1>4, <2>1 DEF Abstract!Write
<1>. QED  BY <1>0, <1>5 DEF AbstractStep, Abstract!Next

\* A write that stops part way leaves a torn tail, which is no line.
LEMMA AppendFailsStep ==
    ASSUME LogInv, StatusInv, ~lapsed, ~lapsed', NEW t \in Threads,
           WriteFails(t) \/ SyncFails(t)
    PROVE  AbstractStep
<1>1. /\ pc[t] \in {"write", "sync"} /\ pc[Main] = "serving" /\ pc'[Main] = "serving"
      /\ dir' = dir /\ mem' = mem /\ next' = next
      /\ file' = file \/ (pc[t] = "write" /\ file' = Append(file, Body(next, kind[t])))
  <2>1. pc[t] \in {"write", "sync"} /\ pc[Main] = "serving"
    BY AppendFailsEffect DEF LogInv, Control
  <2>. QED
    BY <2>1, AppendFailsEffect, LogConstants DEF LogInv, TypeOK, ThreadType, Procs
<1>2. LinesOf(file') = LinesOf(file)
  <2>1. CASE file' = file
    BY <2>1
  <2>2. CASE pc[t] = "write" /\ file' = Append(file, Body(next, kind[t]))
    <3>1. /\ file \in Seq(Unit) /\ next - 1 \in Nat /\ next \in Nat /\ kind[t] \in Kinds
          /\ Len(file) = 2 * (next - 1)
      BY <2>2 DEF LogInv, Working, Extent, Acked, TypeOK, DiskType, RecorderType,
         ThreadType, Procs
    <3>2. Body(next, kind[t]) \in Unit
      BY <3>1 DEF Body, Unit
    <3>3. /\ file' \in Seq(Unit) /\ Len(file') = 2 * (next - 1) + 1
          /\ \A i \in 1..(2 * (next - 1)) : file'[i] = file[i]
      BY <2>2, <3>1, <3>2
    <3>. HIDE <2>2
    <3>. QED  BY <3>1, <3>3, LinesAre
  <2>. QED  BY <1>1, <2>1, <2>2
<1>. QED  BY <1>1, <1>2, QuietStep DEF Active

\* A flush is not seen from outside, nor is the way to a call or its return.
LEMMA CallStep ==
    ASSUME LogInv, StatusInv, ~lapsed, ~lapsed', NEW t \in Threads,
           \/ \E k \in RecordKinds : Append1(t, k)
           \/ Report(t) \/ EnterAppend(t) \/ SyncEvidence(t) \/ Finish(t) \/ MetaFails(t)
    PROVE  AbstractStep
<1>0. ThreadType /\ t \in Procs /\ Main \in Procs /\ t # Main
  BY LogConstants DEF LogInv, TypeOK, Procs
<1>. SUFFICES /\ dir' = dir /\ file' = file /\ next' = next /\ (Active' <=> Active)
              /\ pc[Main] = "serving" /\ pc'[Main] = "serving"
  BY QuietStep
<1>1. CASE (\E k \in RecordKinds : Append1(t, k)) \/ Report(t)
  BY <1>0, <1>1 DEF Append1, Report, disk, store, recorder, Goto, ThreadType, Active
<1>2. CASE EnterAppend(t)
  <2>1. pc[Main] = "serving" /\ UNCHANGED <<disk, mem>> /\ next' = next
    BY <1>2 DEF EnterAppend, LogInv, Control, recorder, RaiseOSError
  <2>2. pc'[Main] = pc[Main]
    BY <1>0, <1>2 DEF EnterAppend, RaiseOSError, Goto, ThreadType
  <2>. QED  BY <2>1, <2>2 DEF disk, Active
<1>3. CASE SyncEvidence(t)
  <2>1. pc[Main] = "serving"
    BY <1>3 DEF SyncEvidence, LogInv, Control
  <2>. QED  BY <1>0, <1>3, <2>1, SyncEffect DEF Active, ThreadType
<1>4. CASE Finish(t)
  BY <1>0, <1>4, FinishEffect DEF Active
<1>5. CASE MetaFails(t)
  BY <1>0, <1>5, MetaFailsEffect DEF Active
<1>. QED  BY <1>1, <1>2, <1>3, <1>4, <1>5

\* append() returns the number of the line that it has written.
LEMMA CommitStepRefines ==
    ASSUME LogInv, StatusInv, ~lapsed, ~lapsed', NEW t \in Threads, Commit(t)
    PROVE  AbstractStep
<1>0. /\ pc[t] = "commit" /\ pc[Main] = "serving" /\ op[t] \in {"append", "finish"}
      /\ dir \in BOOLEAN /\ file \in Seq(Unit) /\ synced \in Nat
      /\ next \in Nat /\ next - 1 \in Nat
      /\ ThreadType /\ t \in Procs /\ Main \in Procs /\ t # Main
  <2>1. TypeOK /\ pc[t] = "commit" /\ pc[Main] = "serving" /\ op[t] \in {"append", "finish"}
    BY DEF Commit, LogInv, Control, Procs
  <2>2. next \in Nat /\ next - 1 \in Nat
    BY <2>1 DEF TypeOK, RecorderType
  <2>. QED  BY <2>1, <2>2, LogConstants DEF TypeOK, DiskType, Procs
<1>1. /\ next' = next + 1 /\ dir' = dir /\ file' = file /\ mem' = mem
      /\ pc'[Main] = "serving"
  BY <1>0 DEF Commit, disk, store, Goto, ThreadType
<1>2. UNCHANGED <<statusBar, logBar>> /\ ackedBar = next - 1 /\ ackedBar' = (next + 1) - 1
  BY <1>0, <1>1 DEF statusBar, logBar, ackedBar, Active
<1>3. dir => Len(LinesOf(file)) = next
  <2>. SUFFICES ASSUME dir PROVE Len(LinesOf(file)) = next
    OBVIOUS
  <2>1. synced = Acked + 2 /\ synced <= Len(file) /\ Len(file) <= Acked + 2
    BY <1>0 DEF LogInv, Extent
  <2>2. Len(file) = 2 * next
    BY <1>0, <2>1 DEF Acked
  <2>. QED  BY <1>0, <2>2, LinesAre
<1>4. Len(logBar) = ackedBar + 1 \/ statusBar = "gone"
  BY <1>0, <1>2, <1>3 DEF statusBar, logBar
<1>5. Abstract!Acknowledge
  BY <1>0, <1>2, <1>4 DEF Abstract!Acknowledge
<1>. QED  BY <1>5 DEF AbstractStep, Abstract!Next

\* Retention after a terminal record or a failure evicts the session or leaves
\* it as it is.
LEMMA RetainSteps ==
    ASSUME LogInv, StatusInv, ~lapsed, ~lapsed', NEW t \in Threads,
           Retain(t) \/ RetainFails(t)
    PROVE  AbstractStep
<1>1. pc[Main] = "serving" /\ pc'[Main] = "serving" /\ ~Active /\ next' = next
  BY RetainEffect, LogConstants DEF Procs
<1>2. CASE /\ dir /\ ~dir' /\ file' = <<>> /\ mem' = NoMeta
  BY <1>1, <1>2, EvictStep
<1>3. CASE UNCHANGED <<dir, file, mem>>
  BY <1>1, <1>3, QuietStep DEF Active
<1>. QED  BY <1>2, <1>3, RetainEffect

\* The flush of finished metadata closes the session.
LEMMA MetadataStep ==
    ASSUME LogInv, StatusInv, ~lapsed, ~lapsed', NEW p \in Procs, WriteMetadata(p)
    PROVE  AbstractStep
<1>0. /\ pc[p] \in MetaLabels /\ ThreadType /\ Main \in Procs
      /\ dir' = dir /\ file' = file /\ next' = next
      /\ pc[Main] # "start"
  BY LogConstants DEF WriteMetadata, MetaTemp, MetaRename, MetaFlush, MetaLabels, LogInv,
     TypeOK, Control, recorder, Procs
<1>1. pc'[Main] # "start"
  BY <1>0 DEF WriteMetadata, MetaTemp, MetaRename, MetaFlush, AppendReturns, Goto, ThreadType
<1>2. CASE MetaTemp(p) \/ MetaRename(p)
  BY <1>0, <1>1, <1>2, QuietStep DEF MetaTemp, MetaRename, store, Active
<1>3. CASE MetaFlush(p) /\ mem' = mem
  BY <1>0, <1>1, <1>3, QuietStep DEF Active
<1>4. CASE MetaFlush(p) /\ mem' # mem
  <2>1. op[p] \in {"finish", "fail", "report"} /\ mem' = draft
    BY <1>4 DEF MetaFlush
  <2>2. draft.status # "active" /\ (Active => dir)
    BY <1>0, <2>1 DEF LogInv, Working
  <2>3. CASE ~Active
    BY <1>0, <1>1, <2>1, <2>2, <2>3, QuietStep DEF Active
  <2>4. CASE Active
    <3>1. statusBar = "open" /\ statusBar' = "closed" /\ UNCHANGED <<logBar, ackedBar>>
      BY <1>0, <1>1, <2>1, <2>2, <2>4 DEF statusBar, logBar, ackedBar, Active
    <3>2. Abstract!Close
      BY <3>1 DEF Abstract!Close
    <3>. QED  BY <3>2 DEF AbstractStep, Abstract!Next
  <2>. QED  BY <2>3, <2>4
<1>. QED  BY <1>2, <1>3, <1>4 DEF WriteMetadata

\* The recovery changes no line, and may evict the session.
LEMMA RecoverySteps ==
    ASSUME LogInv, StatusInv, ~lapsed, ~lapsed', Recovery
    PROVE  AbstractStep
<1>0. /\ ThreadType /\ Main \in Procs /\ file \in Seq(Unit)
      /\ pc[Main] \in {"down", "retain"} \union BootLabels \union MetaLabels
      /\ pc[Main] # "start" /\ next' = next
  BY DEF LogInv, TypeOK, DiskType, Procs, Recovery, LoadInvalid, Load, CopyTail, Truncate,
     Reconcile, RecoveryDone, RecoveryFails, ProcessEnds, BootLabels, MetaLabels, recorder
<1>1. CASE LoadInvalid \/ Load \/ CopyTail
  <2>1. UNCHANGED <<dir, file, mem>> /\ pc'[Main] # "start"
    BY <1>0, <1>1 DEF LoadInvalid, Load, CopyTail, disk, store, Goto, ThreadType
  <2>. QED  BY <1>0, <2>1, QuietStep DEF Active
<1>2. CASE Truncate
  <2>1. /\ UNCHANGED <<dir, mem>> /\ pc'[Main] = "rescan"
        /\ LastRecordEnd(file) \in 0..Len(file)
        /\ LastRecordEnd(file) # 0 => file[LastRecordEnd(file)].part = 2
        /\ \A i \in (LastRecordEnd(file) + 1)..Len(file) : file[i].part = 1
        /\ file' = SubSeq(file, 1, LastRecordEnd(file))
    BY <1>0, <1>2, TruncateEffect DEF ThreadType
  <2>2. Torn(file) /\ Numbered
    BY <1>2 DEF Truncate, StatusInv, Shaped, LogInv
  <2>3. LinesOf(file') = LinesOf(file)
    BY <1>0, <2>1, <2>2, LinesTorn
  <2>. QED  BY <1>0, <2>1, <2>3, QuietStep DEF Active
<1>3. CASE Reconcile
  <2>1. ~Active /\ ~Active' /\ UNCHANGED <<dir, file>>
    BY <1>3, ReconcileEffect DEF StatusInv, Kept, BootLabels, Active
  <2>2. pc'[Main] # "start"
    BY <1>0, <1>3, ReconcileEffect DEF ThreadType
  <2>. QED  BY <1>0, <2>1, <2>2, QuietStep
<1>4. CASE RecoveryDone
  <2>1. pc'[Main] = "recovered" /\ ~Active /\ KeepOrEvict
    BY <1>0, <1>4 DEF RecoveryDone, Goto, ThreadType, LogInv, Working
  <2>2. CASE RemoveDirectory
    BY <1>0, <2>1, <2>2, EvictStep DEF RemoveDirectory
  <2>3. CASE UNCHANGED <<disk, mem>>
    BY <1>0, <2>1, <2>3, QuietStep DEF disk, Active
  <2>. QED  BY <2>1, <2>2, <2>3 DEF KeepOrEvict
<1>5. CASE RecoveryFails
  <2>1. /\ pc'[Main] = "down" /\ mem' = NoMeta /\ op[Main] = "recover"
        /\ pc[Main] \in BootLabels \union MetaLabels \union {"retain"}
        /\ \/ UNCHANGED <<dir, file>>
           \/ RemoveDirectory
    BY <1>0, <1>5 DEF RecoveryFails, ProcessEnds
  <2>2. ~Active /\ ~Active'
    BY <1>0, <2>1 DEF StatusInv, Kept, LogInv, Working, Active, BootLabels
  <2>3. CASE RemoveDirectory
    BY <1>0, <2>1, <2>2, <2>3, EvictStep DEF RemoveDirectory
  <2>4. CASE UNCHANGED <<dir, file>>
    BY <1>0, <2>1, <2>2, <2>4, QuietStep
  <2>. QED  BY <2>1, <2>3, <2>4
<1>. QED  BY <1>1, <1>2, <1>3, <1>4, <1>5 DEF Recovery

\* A crash takes at most the one line that nobody was told of.
LEMMA CrashSteps ==
    ASSUME LogInv, StatusInv, ~lapsed, ~lapsed', Crash
    PROVE  AbstractStep
<1>0. /\ file \in Seq(Unit) /\ synced \in Nat /\ next \in Nat /\ next - 1 \in Nat
      /\ synced <= Len(file) /\ Len(file) <= 2 * (next - 1) + 2 /\ dir \in BOOLEAN
      /\ dir => 2 * (next - 1) <= synced
  BY DEF LogInv, TypeOK, DiskType, RecorderType, Extent, Acked
<1>1. /\ pc'[Main] = "down" /\ mem' = NoMeta /\ dir' = dir /\ next' = next
      /\ pc[Main] # "down"
  BY DEF Crash, ProcessEnds, Procs
<1>2. PICK c \in synced..Len(file) : file' = SubSeq(file, 1, c)
  BY DEF Crash
<1>3. CASE ~dir
  <2>1. file = <<>>
    BY <1>3 DEF StatusInv, Kept
  <2>2. file' = <<>>
    BY <1>0, <1>2, <2>1
  <2>3. logBar = <<>> /\ logBar' = <<>> /\ UNCHANGED ackedBar /\ statusBar' = "gone"
    BY <1>1, <1>3, <2>1, <2>2, LinesEmpty DEF logBar, ackedBar, statusBar
  <2>4. CASE pc[Main] = "start"
    <3>1. statusBar = "new" /\ ackedBar = 0
      BY <2>4 DEF statusBar, ackedBar, LogInv, Working
    <3>2. Abstract!Abandon
      BY <2>3, <3>1 DEF Abstract!Abandon
    <3>. QED  BY <3>2 DEF AbstractStep, Abstract!Next
  <2>5. CASE pc[Main] # "start"
    <3>1. statusBar = "gone"
      BY <1>3, <2>5 DEF statusBar
    <3>. QED  BY <2>3, <3>1 DEF AbstractStep, Abstract!vars
  <2>. QED  BY <2>4, <2>5
<1>4. CASE dir
  <2>1. pc[Main] # "start"
    BY <1>4 DEF StatusInv, Kept
  <2>2. /\ statusBar \in {"open", "closed"} /\ statusBar' = "closed"
        /\ ackedBar = next - 1 /\ ackedBar' = next - 1
        /\ logBar = LinesOf(file) /\ logBar' = LinesOf(file')
    BY <1>1, <1>4, <2>1 DEF statusBar, ackedBar, logBar, Active
  <2>3. CASE c = Len(file)
    <3>1. file' = file
      BY <1>0, <1>2, <2>3
    <3>2. statusBar = "closed" \/ Abstract!Close
      BY <2>2, <3>1 DEF Abstract!Close
    <3>. QED  BY <2>2, <3>1, <3>2 DEF AbstractStep, Abstract!Next, Abstract!vars
  <2>4. CASE c # Len(file)
    <3>1. c \in Nat /\ 2 * (next - 1) <= c /\ c <= 2 * (next - 1) + 1 /\ c <= Len(file)
      BY <1>0, <1>4, <2>4
    <3>2. LinesOf(file') = SubSeq(LinesOf(file), 1, next - 1)
      BY <1>0, <1>2, <3>1, LinesCut
    <3>3. Abstract!Lose
      BY <2>2, <3>2 DEF Abstract!Lose
    <3>. QED  BY <3>3 DEF AbstractStep, Abstract!Next
  <2>. QED  BY <2>3, <2>4
<1>. QED  BY <1>0, <1>3, <1>4

\* Every step of the recorder, the store and the recovery is one of the
\* promised log, or none.
LEMMA StepRefines == LogInv /\ StatusInv /\ [Next]_vars => AbstractStep
<1>. SUFFICES ASSUME LogInv, StatusInv, [Next]_vars, ~lapsed, ~lapsed' PROVE AbstractStep
  BY LapsedStep
<1>1. CASE Create \/ CreateFails \/ CreateUndone
  BY <1>1, CreationSteps
<1>2. ASSUME NEW t \in Threads, NEW k \in RecordKinds, Append1(t, k) PROVE AbstractStep
  BY <1>2, CallStep
<1>3. ASSUME NEW t \in Threads, Report(t) \/ ThreadStep(t) PROVE AbstractStep
  BY <1>3, CallStep, WriteStep, AppendFailsStep, CommitStepRefines, RetainSteps
  DEF ThreadStep
<1>4. ASSUME NEW p \in Procs, WriteMetadata(p) PROVE AbstractStep
  BY <1>4, MetadataStep
<1>5. CASE Recovery
  BY <1>5, RecoverySteps
<1>6. CASE Crash
  BY <1>6, CrashSteps
<1>7. CASE Closed \/ UNCHANGED vars
  BY <1>7 DEF Closed, vars, disk, store, recorder, thread, history, AbstractStep,
     Abstract!vars, statusBar, logBar, ackedBar, Active
<1>. QED  BY <1>1, <1>2, <1>3, <1>4, <1>5, <1>6, <1>7 DEF Next

\* The recorder, the store and their recovery implement the log that module
\* DurableLog promises: numbered lines, at most one not acknowledged, and none
\* that append() returned lost while the session is kept.
THEOREM LogIsDurable == Spec => ImplementsDurableLog
<1>1. Init => Abstract!Init
  <2>. SUFFICES ASSUME Init PROVE Abstract!Init
    OBVIOUS
  <2>1. statusBar = "new" /\ logBar = <<>> /\ ackedBar = 0
    BY LinesEmpty, LogConstants DEF Init, statusBar, logBar, ackedBar, Procs
  <2>. QED  BY <2>1 DEF Abstract!Init
<1>2. LogInv /\ StatusInv /\ [Next]_vars => [Abstract!Next]_(Abstract!vars)
  BY StepRefines DEF AbstractStep
<1>. QED
  BY <1>1, <1>2, StatusInvariant, PTL DEF Spec, ImplementsDurableLog, Abstract!Spec

\* A finished session is immutable while the store has it: neither a late
\* append nor a late failure report changes its evidence or its status.
THEOREM ClosedIsImmutable == Spec => ClosedImmutable
<1>. DEFINE A == mem # NoMeta /\ mem.status # "active" /\ mem' # NoMeta =>
                    file' = file /\ mem'.status = mem.status
<1>1. LogInv /\ StatusInv /\ [Next]_vars => A
  <2>. SUFFICES ASSUME LogInv, StatusInv, [Next]_vars, mem # NoMeta,
                       mem.status # "active", mem' # NoMeta
                PROVE  file' = file /\ mem'.status = mem.status
    OBVIOUS
  <2>0. /\ pc[Main] \notin {"start", "down"} \union BootLabels
        /\ \A t \in Threads : pc[t] \notin {"write", "sync"}
    BY DEF LogInv, Working, StatusInv, Kept, Active, Procs
  <2>1. CASE Create \/ CreateFails \/ CreateUndone \/ Crash \/ RecoveryFails
    BY <2>0, <2>1 DEF Create, CreateFails, CreateUndone, Crash, RecoveryFails, ProcessEnds
  <2>2. CASE LoadInvalid \/ Load \/ CopyTail \/ Truncate \/ Reconcile
    BY <2>0, <2>2 DEF LoadInvalid, Load, CopyTail, Truncate, Reconcile, BootLabels
  <2>3. CASE RecoveryDone
    BY <2>3 DEF RecoveryDone, KeepOrEvict, disk
  <2>4. ASSUME NEW t \in Threads, NEW k \in RecordKinds, Append1(t, k)
        PROVE  file' = file /\ mem'.status = mem.status
    BY <2>4 DEF Append1, disk, store
  <2>5. ASSUME NEW t \in Threads, Report(t) \/ ThreadStep(t)
        PROVE  file' = file /\ mem'.status = mem.status
    BY <2>0, <2>5 DEF Report, ThreadStep, EnterAppend, WriteEvidence, WriteFails,
       SyncEvidence, SyncFails, Commit, Finish, MetaFails, Retain, RetainFails,
       KeepOrEvict, disk, store
  <2>6. ASSUME NEW p \in Procs, WriteMetadata(p)
        PROVE  file' = file /\ mem'.status = mem.status
    <3>1. file' = file /\ (mem' = mem \/ (mem' = draft /\ pc[p] = "metasync"
                                          /\ op[p] \in {"finish", "fail", "report"}))
      BY <2>6 DEF WriteMetadata, MetaTemp, MetaRename, MetaFlush, store
    <3>2. CASE mem' = draft /\ pc[p] = "metasync" /\ op[p] \in {"finish", "fail", "report"}
      <4>1. p \in Threads
        BY <3>2 DEF LogInv, Control, MetaLabels, Procs
      <4>. QED  BY <3>1, <3>2, <4>1 DEF StatusInv, Drafted, MetaLabels
    <3>. QED  BY <3>1, <3>2
  <2>7. CASE Closed \/ UNCHANGED vars
    BY <2>7 DEF Closed, vars, disk, store
  <2>. QED  BY <2>1, <2>2, <2>3, <2>4, <2>5, <2>6, <2>7 DEF Next, Recovery
<1>. QED  BY <1>1, StatusInvariant, PTL DEF Spec, ClosedImmutable

=============================================================================
