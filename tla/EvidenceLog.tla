---------------------------- MODULE EvidenceLog ----------------------------
(***************************************************************************)
(* One persistent session of DragonSniff: the PersistentSessionRecorder    *)
(* that threads append to, the SessionStore operations it calls, the files *)
(* those operations leave on disk, and the recovery a restart performs.    *)
(*                                                                         *)
(* Every step is one system call or one critical section of the code, so a *)
(* crash or an I/O error can fall between any two of them.  A record takes *)
(* two units of evidence.jsonl: its body and its end, which holds the      *)
(* newline; a torn write leaves the body alone.                            *)
(***************************************************************************)
EXTENDS Naturals, Sequences, FiniteSets

CONSTANTS
    Threads,      \* threads that share the recorder
    Main,         \* the thread that creates the session or starts the store
    None,         \* no holder of a lock
    NoMeta,       \* no metadata: an absent file or an absent dictionary entry
    RecordKinds,  \* the kinds of record the threads append
    Checkpoint,   \* METADATA_CHECKPOINT_RECORDS
    LiveMax,      \* max_records of the recorder
    MaxRecords,   \* bound: sequence numbers handed out
    MaxFaults,    \* bound: I/O errors
    MaxCrashes    \* bound: crashes of the process

TERMINAL_RECORDS == {"completed", "cancelled", "failed"}
Statuses == {"active", "interrupted"} \union TERMINAL_RECORDS
Kinds == {"sample"} \union TERMINAL_RECORDS
Meta == [status: Statuses, records: Nat, bytes: Nat, failure: BOOLEAN,
         recovered: Nat]

ASSUME LogConstants ==
    /\ Main \notin Threads
    /\ None \notin Threads \union {Main}
    /\ NoMeta \notin Meta
    /\ RecordKinds \subseteq Kinds
    /\ Checkpoint \in Nat \ {0}
    /\ LiveMax \in Nat \ {0}
    /\ MaxRecords \in Nat
    /\ MaxFaults \in Nat
    /\ MaxCrashes \in Nat

VARIABLES
    \* the session directory
    dir,        \* it exists
    file,       \* evidence.jsonl, as a sequence of units
    synced,     \* how many of the units an fsync has made durable
    meta,       \* metadata.json
    metaSync,   \* the metadata.json a crash may bring back
    tmp,        \* metadata.*.tmp files left in the directory
    partial,    \* size of evidence.partial
    \* SessionStore
    mem,        \* _metadata[session_id]
    pending,    \* _pending_checkpoints[session_id]
    evBytes,    \* _evidence_file_bytes[session_id]
    draft,      \* the metadata value the holder of the store lock is writing
    storeLock,  \* SessionStore._lock
    \* PersistentSessionRecorder; next outlives a crash as a record of what
    \* was acknowledged, since no recorder exists after a restart
    next,       \* _next_sequence
    live,       \* _records
    dropped,    \* _dropped
    recLock,    \* SessionRecorder._lock
    \* threads
    pc, op, kind,
    \* what happened so far
    raised,     \* an append raised RuntimeError for a storage error
    lapsed,     \* "could not persist failed session status" was logged
    faults, crashes

disk == <<dir, file, synced, meta, metaSync, tmp, partial>>
store == <<mem, pending, evBytes, draft, storeLock>>
recorder == <<next, live, dropped, recLock>>
thread == <<pc, op, kind>>
history == <<raised, lapsed>>
bounds == <<faults, crashes>>
vars == <<disk, store, recorder, thread, history, bounds>>

Procs == Threads \union {Main}
MetaLabels == {"temp", "rename", "metasync"}
StoreLabels == {"write", "sync"} \union MetaLabels
BootLabels == {"copy", "truncate", "scan", "rescan"}
Unit == [seq: Nat, kind: Kinds, part: {1, 2}]
RecordBytes == 2
-----------------------------------------------------------------------------
(* The evidence file.                                                      *)

Body(s, k) == [seq |-> s, kind |-> k, part |-> 1]
End(s, k) == [seq |-> s, kind |-> k, part |-> 2]

\* The file does not end with a newline.
Torn(f) == f # <<>> /\ f[Len(f)].part = 1

\* Mutant: a whole record is cut off with the torn one.
LastRecordEndShort(f) ==
    LET ends == {i \in 1..Len(f) : f[i].part = 2}
    IN  CHOOSE n \in 0..Len(f) : n = Cardinality(ends)

\* Position just after the last newline, 0 when there is none.
LastRecordEnd(f) ==
    CHOOSE n \in 0..Len(f) :
        /\ n # 0 => f[n].part = 2
        /\ \A i \in (n + 1)..Len(f) : f[i].part = 1

ScanRecords(f) == Cardinality({i \in 1..Len(f) : f[i].part = 2})

\* Record s is a line of its own among the first n units of f.
IntactIn(f, n, s) ==
    \E i \in 1..n :
        /\ i < n
        /\ f[i].seq = s /\ f[i].part = 1
        /\ f[i + 1].seq = s /\ f[i + 1].part = 2
        /\ i # 1 => f[i - 1].part = 2
-----------------------------------------------------------------------------
NewMeta == [status |-> "active", records |-> 0, bytes |-> 0,
            failure |-> FALSE, recovered |-> 0]

\* Mutant: the status of the session is not looked at.
ActiveAlways == mem # NoMeta

Active == mem # NoMeta /\ mem.status = "active"

Init ==
    /\ dir = FALSE /\ file = <<>> /\ synced = 0
    /\ meta = NoMeta /\ metaSync = NoMeta /\ tmp = 0 /\ partial = 0
    /\ mem = NoMeta /\ pending = 0 /\ evBytes = 0 /\ draft = NoMeta
    /\ storeLock = None
    /\ next = 1 /\ live = <<>> /\ dropped = 0 /\ recLock = None
    /\ pc = [p \in Procs |-> IF p = Main THEN "start" ELSE "idle"]
    /\ op = [p \in Procs |-> "none"]
    /\ kind = [t \in Threads |-> "sample"]
    /\ raised = FALSE /\ lapsed = FALSE
    /\ faults = 0 /\ crashes = 0

Fault == faults < MaxFaults /\ faults' = faults + 1 /\ UNCHANGED crashes

Goto(p, label) == pc' = [pc EXCEPT ![p] = label]

\* An OSError inside the try of _before_record_visible calls fail(), with the
\* recorder lock still held; one inside fail() is logged and the append raises
\* RuntimeError; one inside a fail() a runner asked for is logged there.
RaiseOSError(t) ==
    /\ UNCHANGED <<kind, next, live, dropped>>
    /\ \/ /\ op[t] \in {"append", "finish"}
          /\ op' = [op EXCEPT ![t] = "fail"]
          /\ Goto(t, "finish")
          /\ UNCHANGED <<recLock, history>>
       \/ /\ op[t] = "fail"
          /\ Goto(t, "idle")
          /\ recLock' = None
          /\ raised' = TRUE /\ lapsed' = TRUE
          /\ UNCHANGED op
       \/ /\ op[t] = "report"
          /\ Goto(t, "idle")
          /\ UNCHANGED <<op, recLock, history>>

\* finish() returns to its caller.
FinishReturns(t) ==
    /\ UNCHANGED <<op, kind, next, live, dropped, lapsed>>
    /\ \/ /\ op[t] = "finish"
          /\ Goto(t, "commit")
          /\ UNCHANGED <<recLock, raised>>
       \/ /\ op[t] = "fail"
          /\ Goto(t, "idle")
          /\ recLock' = None
          /\ raised' = TRUE
       \/ /\ op[t] = "report"
          /\ Goto(t, "idle")
          /\ UNCHANGED <<recLock, raised>>

\* Nothing of the process survives; the service is down.
ProcessEnds ==
    /\ mem' = NoMeta /\ pending' = 0 /\ evBytes' = 0 /\ draft' = NoMeta
    /\ storeLock' = None /\ recLock' = None
    /\ live' = <<>> /\ dropped' = 0
    /\ pc' = [p \in Procs |-> IF p = Main THEN "down" ELSE "idle"]
    /\ op' = [p \in Procs |-> "none"]
    /\ kind' = [t \in Threads |-> "sample"]
    /\ UNCHANGED <<next, history>>
-----------------------------------------------------------------------------
(* SessionStore.create_recorder                                            *)

\* The directory and an empty evidence file exist and are durable; the
\* session is registered and its first metadata is about to be written.
Create ==
    /\ pc[Main] = "start"
    /\ storeLock = None
    /\ storeLock' = Main
    /\ dir' = TRUE
    /\ mem' = NewMeta /\ draft' = NewMeta /\ pending' = 0 /\ evBytes' = 0
    /\ op' = [op EXCEPT ![Main] = "create"]
    /\ Goto(Main, "temp")
    /\ UNCHANGED <<file, synced, meta, metaSync, tmp, partial, recorder, kind,
                   history, bounds>>

\* An error before the registration leaves whatever was made so far.
CreateFails ==
    /\ pc[Main] = "start"
    /\ Fault
    /\ dir' \in BOOLEAN
    /\ Goto(Main, "aborted")
    /\ UNCHANGED <<file, synced, meta, metaSync, tmp, partial, store, recorder,
                   op, kind, history>>
-----------------------------------------------------------------------------
(* SessionRecorder.append and SessionStore.append                          *)

\* The recorder lock is taken and the record gets the next sequence number.
Append1(t, k) ==
    /\ pc[Main] = "serving" /\ pc[t] = "idle"
    /\ next <= MaxRecords
    /\ recLock = None
    /\ recLock' = t
    /\ kind' = [kind EXCEPT ![t] = k]
    /\ op' = [op EXCEPT ![t] = "append"]
    /\ Goto(t, "begin")
    /\ UNCHANGED <<disk, store, next, live, dropped, history, bounds>>

\* Under the store lock: an active session goes on to the write, a finished
\* one is refused with RuntimeError, an evicted one with FileNotFoundError.
EnterAppend(t) ==
    /\ pc[t] = "begin"
    /\ storeLock = None
    /\ UNCHANGED <<disk, mem, pending, evBytes, draft, bounds>>
    /\ \/ /\ Active
          /\ storeLock' = t
          /\ Goto(t, "write")
          /\ UNCHANGED <<recorder, op, kind, history>>
       \/ /\ mem # NoMeta /\ ~Active
          /\ recLock' = None
          /\ Goto(t, "idle")
          /\ UNCHANGED <<storeLock, next, live, dropped, op, kind, history>>
       \/ /\ mem = NoMeta
          /\ RaiseOSError(t)
          /\ UNCHANGED storeLock

WriteEvidence(t) ==
    /\ pc[t] = "write"
    /\ file' = file \o <<Body(next, kind[t]), End(next, kind[t])>>
    /\ Goto(t, "sync")
    /\ UNCHANGED <<dir, synced, meta, metaSync, tmp, partial, store, recorder,
                   op, kind, history, bounds>>

\* The open fails, or the write stops after a part of the record.
WriteFails(t) ==
    /\ pc[t] = "write"
    /\ Fault
    /\ file' \in {file, Append(file, Body(next, kind[t]))}
    /\ storeLock' = None
    /\ RaiseOSError(t)
    /\ UNCHANGED <<dir, synced, meta, metaSync, tmp, partial, mem, pending,
                   evBytes, draft>>

\* Mutant: a terminal record does not finish the session.
AppendReturnsOpen(t) == Goto(t, "commit") /\ UNCHANGED op

\* store.append() returns: a terminal record goes on to store.finish().
AppendReturns(t) ==
    IF kind[t] \in TERMINAL_RECORDS
    THEN /\ op' = [op EXCEPT ![t] = "finish"]
         /\ Goto(t, "finish")
    ELSE /\ Goto(t, "commit")
         /\ UNCHANGED op

SyncEvidence(t) ==
    /\ pc[t] = "sync"
    /\ synced' = Len(file)
    /\ evBytes' = Len(file)
    /\ mem' = [mem EXCEPT !.records = @ + 1, !.bytes = @ + RecordBytes]
    /\ IF pending + 1 >= Checkpoint
       THEN /\ draft' = mem'
            /\ Goto(t, "temp")
            /\ UNCHANGED <<pending, storeLock, op>>
       ELSE /\ pending' = pending + 1
            /\ storeLock' = None
            /\ AppendReturns(t)
            /\ UNCHANGED draft
    /\ UNCHANGED <<dir, file, meta, metaSync, tmp, partial, recorder, kind,
                   history, bounds>>

\* Mutant: the error path leaves the store lock taken.
SyncFailsLocked(t) ==
    /\ pc[t] = "sync"
    /\ Fault
    /\ RaiseOSError(t)
    /\ UNCHANGED <<disk, store>>

\* Mutant: the record counts as stored although its flush has failed.
SyncFailsIgnored(t) ==
    /\ pc[t] = "sync"
    /\ Fault
    /\ storeLock' = None
    /\ AppendReturns(t)
    /\ UNCHANGED <<disk, mem, pending, evBytes, draft, recorder, kind, history>>

SyncFails(t) ==
    /\ pc[t] = "sync"
    /\ Fault
    /\ storeLock' = None
    /\ RaiseOSError(t)
    /\ UNCHANGED <<disk, mem, pending, evBytes, draft>>

\* The record becomes visible in the bounded live view and append returns it.
Commit(t) ==
    /\ pc[t] = "commit"
    /\ next' = next + 1
    /\ IF Len(live) = LiveMax
       THEN /\ live' = Append(Tail(live), next)
            /\ dropped' = dropped + 1
       ELSE /\ live' = Append(live, next)
            /\ UNCHANGED dropped
    /\ recLock' = None
    /\ Goto(t, "idle")
    /\ UNCHANGED <<disk, store, op, kind, history, bounds>>
-----------------------------------------------------------------------------
(* SessionStore.finish, from a terminal record, from the error handler of  *)
(* an append, or from a runner that calls recorder.fail() (Report).        *)

\* PersistentSessionRecorder.fail(), which takes no recorder lock.
Report(t) ==
    /\ pc[Main] = "serving" /\ pc[t] = "idle"
    /\ op' = [op EXCEPT ![t] = "report"]
    /\ Goto(t, "finish")
    /\ UNCHANGED <<disk, store, recorder, kind, history, bounds>>

\* Mutant: a failure after the terminal transition is forgotten.
FinishedClean(m, t) ==
    IF m.status # "active" THEN m
    ELSE [m EXCEPT !.status = IF op[t] = "finish" THEN kind[t] ELSE "failed",
                   !.failure = op[t] # "finish"]

Finished(m, t) ==
    [m EXCEPT
        !.status = IF @ # "active" THEN @
                   ELSE IF op[t] = "finish" THEN kind[t] ELSE "failed",
        !.failure = @ \/ op[t] # "finish"]

Finish(t) ==
    /\ pc[t] = "finish"
    /\ storeLock = None
    /\ UNCHANGED <<disk, mem, pending, evBytes, bounds>>
    /\ \/ /\ mem = NoMeta
          /\ RaiseOSError(t)
          /\ UNCHANGED <<draft, storeLock>>
       \/ /\ mem # NoMeta
          /\ Finished(mem, t) # mem \/ pending > 0
          /\ draft' = Finished(mem, t)
          /\ storeLock' = t
          /\ Goto(t, "temp")
          /\ UNCHANGED <<recorder, op, kind, history>>
       \/ /\ mem # NoMeta
          /\ ~(Finished(mem, t) # mem \/ pending > 0)
          /\ Goto(t, "retain")
          /\ UNCHANGED <<draft, storeLock, recorder, op, kind, history>>
-----------------------------------------------------------------------------
(* SessionStore._write_metadata_locked: temporary file, rename, flush.     *)

MetaTemp(p) ==
    /\ pc[p] = "temp"
    /\ tmp' = tmp + 1
    /\ Goto(p, "rename")
    /\ UNCHANGED <<dir, file, synced, meta, metaSync, partial, store, recorder,
                   op, kind, history, bounds>>

MetaRename(p) ==
    /\ pc[p] = "rename"
    /\ meta' = draft
    /\ tmp' = tmp - 1
    /\ Goto(p, "metasync")
    /\ UNCHANGED <<dir, file, synced, metaSync, partial, store, recorder, op,
                   kind, history, bounds>>

\* The new metadata is durable and the caller goes on.
MetaFlush(p) ==
    /\ pc[p] = "metasync"
    /\ metaSync' = meta
    /\ storeLock' = None
    /\ \/ /\ op[p] = "append"
          /\ pending' = 0
          /\ AppendReturns(p)
          /\ UNCHANGED mem
       \/ /\ op[p] \in {"finish", "fail", "report"}
          /\ mem' = draft
          /\ pending' = 0
          /\ Goto(p, "retain")
          /\ UNCHANGED op
       \/ /\ op[p] = "create"
          /\ Goto(p, "serving")
          /\ UNCHANGED <<mem, pending, op>>
       \/ /\ op[p] = "recover"
          /\ Goto(p, "retain")
          /\ UNCHANGED <<mem, pending, op>>
    /\ UNCHANGED <<dir, file, synced, meta, tmp, partial, evBytes, draft,
                   recorder, kind, history, bounds>>

\* One of the three calls fails; the temporary file is removed, unless that
\* fails too.
TmpAfterFailure(p) ==
    IF pc[p] = "temp" THEN {tmp, tmp + 1}
    ELSE IF pc[p] = "rename" THEN {tmp - 1, tmp}
    ELSE {tmp}

MetaFails(t) ==
    /\ pc[t] \in MetaLabels
    /\ Fault
    /\ tmp' \in TmpAfterFailure(t)
    /\ storeLock' = None
    /\ RaiseOSError(t)
    /\ UNCHANGED <<dir, file, synced, meta, metaSync, partial, mem, pending,
                   evBytes, draft>>

\* A session whose first metadata cannot be written is forgotten, and its
\* directory is removed if it can be.
CreateUndone ==
    /\ pc[Main] \in MetaLabels /\ op[Main] = "create"
    /\ Fault
    /\ \/ dir' = FALSE /\ meta' = NoMeta /\ metaSync' = NoMeta /\ tmp' = 0
       \/ tmp' \in TmpAfterFailure(Main) /\ UNCHANGED <<dir, meta, metaSync>>
    /\ mem' = NoMeta /\ pending' = 0 /\ evBytes' = 0
    /\ storeLock' = None
    /\ Goto(Main, "aborted")
    /\ UNCHANGED <<file, synced, partial, draft, recorder, op, kind, history>>
-----------------------------------------------------------------------------
(* SessionStore.enforce_retention, as far as this session can tell: it may *)
(* evict the session unless it is active.  Which sessions it evicts, and   *)
(* removals that stop half way, are the subject of module Retention.       *)

RemoveDirectory ==
    /\ dir /\ ~Active
    /\ dir' = FALSE /\ file' = <<>> /\ synced' = 0
    /\ meta' = NoMeta /\ metaSync' = NoMeta /\ tmp' = 0 /\ partial' = 0

KeepOrEvict ==
    \/ RemoveDirectory /\ mem' = NoMeta /\ pending' = 0 /\ evBytes' = 0
    \/ UNCHANGED <<disk, mem, pending, evBytes>>

Retain(t) ==
    /\ pc[t] = "retain"
    /\ storeLock = None
    /\ KeepOrEvict
    /\ FinishReturns(t)
    /\ UNCHANGED <<draft, storeLock, bounds>>

\* The directory listing or the flush after a removal fails.
RetainFails(t) ==
    /\ pc[t] = "retain"
    /\ storeLock = None
    /\ Fault
    /\ KeepOrEvict
    /\ RaiseOSError(t)
    /\ UNCHANGED <<draft, storeLock>>
-----------------------------------------------------------------------------
(* A crash, and SessionStore._load_and_recover_locked at the next start.   *)

Crash ==
    /\ pc[Main] # "down"
    /\ crashes < MaxCrashes
    /\ crashes' = crashes + 1
    /\ ProcessEnds
    /\ \E n \in synced..Len(file) :
          file' = SubSeq(file, 1, n) /\ synced' = n
    /\ meta' \in {meta, metaSync} /\ metaSync' = meta'
    /\ UNCHANGED <<dir, tmp, partial, faults>>

\* Metadata that is missing or cannot be read makes the session invalid: it
\* is not loaded, only accounted for.
LoadInvalid ==
    /\ pc[Main] = "down"
    /\ \/ (~dir \/ meta = NoMeta) /\ UNCHANGED bounds
       \/ dir /\ meta # NoMeta /\ Fault
    /\ op' = [op EXCEPT ![Main] = "recover"]
    /\ Goto(Main, "retain")
    /\ UNCHANGED <<disk, store, recorder, kind, history>>

Load ==
    /\ pc[Main] = "down"
    /\ dir /\ meta # NoMeta
    /\ storeLock' = Main
    /\ draft' = meta
    /\ op' = [op EXCEPT ![Main] = "recover"]
    /\ Goto(Main, IF Torn(file) THEN "copy" ELSE "scan")
    /\ UNCHANGED <<disk, mem, pending, evBytes, recorder, kind, history, bounds>>

\* The torn tail is copied to evidence.partial ...
CopyTail ==
    /\ pc[Main] = "copy"
    /\ partial' = Len(file) - LastRecordEnd(file)
    /\ Goto(Main, "truncate")
    /\ UNCHANGED <<dir, file, synced, meta, metaSync, tmp, store, recorder, op,
                   kind, history, bounds>>

\* ... and then cut off, so that the evidence ends with a newline again.
Truncate ==
    /\ pc[Main] = "truncate"
    /\ file' = SubSeq(file, 1, LastRecordEnd(file))
    /\ synced' = LastRecordEnd(file)
    /\ draft' = [draft EXCEPT !.recovered = partial]
    /\ Goto(Main, "rescan")
    /\ UNCHANGED <<dir, meta, metaSync, tmp, partial, mem, pending, evBytes,
                   storeLock, recorder, op, kind, history, bounds>>

\* Mutant: only a session found active is counted again.
ReconciledActive(m, rescan) ==
    IF m.status # "active" THEN m
    ELSE [m EXCEPT !.records = ScanRecords(file), !.bytes = Len(file),
                   !.status = "interrupted"]

Reconciled(m, rescan) ==
    LET stale == m.status = "active" \/ rescan \/ Len(file) # m.bytes
    IN  [m EXCEPT
            !.records = IF stale THEN ScanRecords(file) ELSE @,
            !.bytes = IF stale THEN Len(file) ELSE @,
            !.status = IF @ = "active" THEN "interrupted" ELSE @]

Reconcile ==
    /\ pc[Main] \in {"scan", "rescan"}
    /\ LET rescan == pc[Main] = "rescan"
           new == Reconciled(draft, rescan)
       IN  /\ mem' = new
           /\ draft' = new
           /\ IF rescan \/ new # draft
              THEN Goto(Main, "temp") /\ UNCHANGED storeLock
              ELSE Goto(Main, "retain") /\ storeLock' = None
    /\ evBytes' = Len(file)
    /\ pending' = 0
    /\ UNCHANGED <<disk, recorder, op, kind, history, bounds>>

\* The start ends with a pass of enforce_retention.
RecoveryDone ==
    /\ pc[Main] = "retain"
    /\ KeepOrEvict
    /\ Goto(Main, "recovered")
    /\ UNCHANGED <<draft, storeLock, recorder, op, kind, history, bounds>>

\* An I/O error anywhere in the recovery ends the start of the service.
RecoveryFails ==
    /\ pc[Main] \in BootLabels \union MetaLabels \union {"retain"}
    /\ op[Main] = "recover"
    /\ Fault
    /\ ProcessEnds
    /\ \/ tmp' \in TmpAfterFailure(Main)
          /\ UNCHANGED <<dir, file, synced, meta, metaSync, partial>>
       \/ pc[Main] = "retain" /\ RemoveDirectory

\* A recovered session has no recorder and does not change any more; a
\* creation that failed made no session.
Closed ==
    /\ pc[Main] \in {"recovered", "aborted"}
    /\ UNCHANGED vars
-----------------------------------------------------------------------------
ThreadStep(t) ==
    \/ EnterAppend(t) \/ WriteEvidence(t) \/ WriteFails(t)
    \/ SyncEvidence(t) \/ SyncFails(t) \/ Commit(t)
    \/ Finish(t) \/ MetaFails(t) \/ Retain(t) \/ RetainFails(t)

WriteMetadata(p) == MetaTemp(p) \/ MetaRename(p) \/ MetaFlush(p)

Recovery ==
    \/ LoadInvalid \/ Load \/ CopyTail \/ Truncate \/ Reconcile
    \/ RecoveryDone \/ RecoveryFails

Next ==
    \/ Create \/ CreateFails \/ CreateUndone
    \/ \E t \in Threads, k \in RecordKinds : Append1(t, k)
    \/ \E t \in Threads : Report(t) \/ ThreadStep(t)
    \/ \E p \in Procs : WriteMetadata(p)
    \/ Recovery
    \/ Crash
    \/ Closed

\* A thread inside a call and a starting service keep running; nobody is
\* obliged to append, to report a failure or to crash.
Fairness ==
    /\ \A t \in Threads : WF_vars(ThreadStep(t))
    /\ \A p \in Procs : WF_vars(WriteMetadata(p))
    /\ WF_vars(Recovery)

Spec == Init /\ [][Next]_vars
FairSpec == Spec /\ Fairness
-----------------------------------------------------------------------------
(* Correctness.                                                            *)

Labels == {"start", "aborted", "serving", "down", "idle", "begin", "write",
           "sync", "commit", "finish", "temp", "rename", "metasync", "retain",
           "recovered", "copy", "truncate", "scan", "rescan"}
Ops == {"none", "create", "append", "finish", "fail", "report", "recover"}

DiskType ==
    /\ dir \in BOOLEAN /\ file \in Seq(Unit) /\ synced \in Nat
    /\ meta \in Meta \union {NoMeta} /\ metaSync \in Meta \union {NoMeta}
    /\ tmp \in Nat /\ partial \in Nat

StoreType ==
    /\ mem \in Meta \union {NoMeta} /\ draft \in Meta \union {NoMeta}
    /\ pending \in Nat /\ evBytes \in Nat
    /\ storeLock \in Procs \union {None}

RecorderType ==
    /\ next \in Nat \ {0} /\ dropped \in Nat /\ live \in Seq(Nat)
    /\ recLock \in Threads \union {None}

ThreadType ==
    /\ pc \in [Procs -> Labels] /\ op \in [Procs -> Ops]
    /\ kind \in [Threads -> Kinds]

HistoryType ==
    /\ raised \in BOOLEAN /\ lapsed \in BOOLEAN
    /\ faults \in Nat /\ crashes \in Nat

\* Every variable of the session keeps its type.
TypeOK == DiskType /\ StoreType /\ RecorderType /\ ThreadType /\ HistoryType

\* "Complete records are flushed before the live view reports them": a record
\* that append() returned is a whole line in the durable part of the evidence,
\* before and after any crash and recovery, until retention evicts the session.
AckedDurable ==
    ~lapsed /\ dir =>
        \A s \in 1..(next - 1) : IntactIn(file, synced, s)

Numbered == \A i \in 1..Len(file) : i = 2 * file[i].seq - 2 + file[i].part

\* The lines of the evidence are numbered 1, 2, 3, ... without a gap, a
\* repetition or a line glued to a torn one, and at most one record is there
\* that no append() has returned.
Contiguous ==
    ~lapsed =>
        /\ Numbered
        /\ Len(file) <= 2 * next

\* Until a failure goes unrecorded, nothing follows a terminal record, in the
\* evidence or in the live view, and a session is stored as completed or
\* cancelled only when its last line is the terminal record that says so.
TerminalClosesLog ==
    ~lapsed =>
        /\ \A i \in 1..Len(file) :
              file[i].kind \in TERMINAL_RECORDS => i + 2 > Len(file)
        /\ dir /\ pc[Main] = "serving" =>
              \A i \in 1..Len(live) :
                  file[RecordBytes * live[i]].kind \in TERMINAL_RECORDS =>
                      i = Len(live)
        /\ meta # NoMeta /\ meta.status \in {"completed", "cancelled"} =>
              file # <<>> /\ file[Len(file)] =
                  End(file[Len(file)].seq, meta.status)

\* "Derives authoritative counters from the retained evidence": a session
\* that a start has loaded is not active, its evidence ends with a newline and
\* its stored counters are those of the evidence, whatever failed before.
RecoveredCounters ==
    pc[Main] = "recovered" /\ mem # NoMeta =>
        /\ mem.status # "active"
        /\ ~Torn(file)
        /\ mem.records = ScanRecords(file)
        /\ mem.bytes = Len(file)
        /\ meta = mem

\* When append() has raised for a storage error, the stored metadata says so,
\* durably, unless writing that failed as well.
FailureRecorded ==
    raised /\ ~lapsed /\ dir =>
        metaSync # NoMeta /\ metaSync.failure /\ metaSync.status # "active"

\* While a session is open and no append runs, the live view with its count of
\* dropped records and the counters of the store account for every line of the
\* evidence: nothing is on disk that the recorder or the store does not know of.
LiveMirrorsEvidence ==
    ~lapsed /\ Active /\ pc[Main] = "serving" /\ recLock = None =>
        /\ Len(live) + dropped = ScanRecords(file)
        /\ \A i \in 1..Len(live) : live[i] = dropped + i
        /\ mem.records = ScanRecords(file) /\ mem.bytes = Len(file)

\* The type invariant, and what the evidence of a session is at any time: its
\* lines are numbered without a gap, nothing follows a terminal record but its
\* own status, and the live view and the counters miss nothing that is on disk.
EvidenceInv == TypeOK /\ Contiguous /\ TerminalClosesLog /\ LiveMirrorsEvidence

\* A finished session is immutable while the store has it: neither a late
\* append nor a late failure report changes its evidence or its status.
ClosedImmutable ==
    [][mem # NoMeta /\ mem.status # "active" /\ mem' # NoMeta =>
          file' = file /\ mem'.status = mem.status]_vars

CallsReturn == \A t \in Threads : pc[t] # "idle" ~> pc[t] = "idle"

Recovers == pc[Main] = "down" ~> pc[Main] = "recovered"

\* Every append and every failure report comes to an end, in spite of storage
\* errors; and a service that went down recovers, however often it crashes on
\* the way (the recorder and store locks, and _recover_sessions).
CallsEnd == CallsReturn /\ Recovers
-----------------------------------------------------------------------------
(* The inductive invariant behind AckedDurable and Contiguous.             *)

\* Where a thread is determines which call it is in.
Control ==
    /\ \A t \in Threads :
          /\ pc[t] \in {"idle", "begin", "commit", "finish", "retain"}
                \union StoreLabels
          /\ pc[t] # "idle" => pc[Main] = "serving"
          /\ pc[t] \in {"begin", "write", "sync"} => op[t] = "append"
          /\ pc[t] \in {"finish", "retain"} =>
                op[t] \in {"finish", "fail", "report"}
          /\ pc[t] \in MetaLabels =>
                op[t] \in {"append", "finish", "fail", "report"}
          /\ pc[t] = "commit" => op[t] \in {"append", "finish"}
          /\ pc[t] # "idle" /\ op[t] = "finish" => kind[t] \in TERMINAL_RECORDS
    /\ pc[Main] \in {"start", "aborted", "serving", "down", "retain",
                     "recovered"} \union MetaLabels \union BootLabels
    /\ pc[Main] \in MetaLabels => op[Main] \in {"create", "recover"}
    /\ pc[Main] \in BootLabels => op[Main] = "recover"

\* Both locks exclude: whoever is inside a critical section is the holder.
Locking ==
    /\ \A p \in Procs :
          pc[p] \in StoreLabels \union BootLabels => storeLock = p
    /\ \A t \in Threads :
          recLock = t <=> pc[t] # "idle" /\ op[t] # "report"

\* What the holder of the store lock may rely on.
Working ==
    /\ \A p \in Procs :
          /\ pc[p] \in {"write", "sync"} => Active
          /\ pc[p] \in MetaLabels \union BootLabels => draft \in Meta
          /\ pc[p] = "rename" => tmp > 0
          /\ pc[p] \in MetaLabels /\ op[p] \in {"finish", "fail", "report"} =>
                draft.status # "active"
          /\ pc[p] \in MetaLabels /\ op[p] \in {"append", "finish", "fail",
                                               "report"} => mem # NoMeta
          /\ pc[p] = "retain" => ~Active
    /\ Active => dir
    /\ pc[Main] = "start" \/ (pc[Main] \in MetaLabels /\ op[Main] = "create") =>
          file = <<>> /\ synced = 0 /\ next = 1
    /\ pc[Main] \in MetaLabels /\ op[Main] = "recover" => ~Active
    /\ pc[Main] \in {"start", "down"} => mem = NoMeta

Acked == 2 * (next - 1)

\* How much of the evidence is there, at each point of an append.
Extent ==
    /\ synced <= Len(file)
    /\ Len(file) <= Acked + 2
    /\ dir => Acked <= synced
    /\ Active /\ pc[Main] = "serving" /\ recLock = None => Len(file) = Acked
    /\ \A t \in Threads :
          /\ Active /\ pc[t] \in {"begin", "write"} => Len(file) = Acked
          /\ pc[t] = "sync" => Len(file) = Acked + 2
          /\ dir /\ pc[t] \in MetaLabels \union {"finish", "retain", "commit"}
                 /\ op[t] \in {"append", "finish"} => synced = Acked + 2

\* The evidence is what the recorder believes it to be, at every step of
\* every thread, and after every crash, until a failure goes unrecorded.
LogInv == TypeOK /\ Control /\ Locking /\ Working /\ (~lapsed => Numbered /\ Extent)
-----------------------------------------------------------------------------
(* What the documents say without the condition ~lapsed, and what the code *)
(* does not keep once an append and the fail() after it have both failed.  *)

\* README.md: "Complete records are flushed before the live view reports
\* them": a record that append() returned is a line of its own.
AckedNeverLost ==
    dir => \A s \in 1..(next - 1) : IntactIn(file, synced, s)
=============================================================================
