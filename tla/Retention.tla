----------------------------- MODULE Retention -----------------------------
(***************************************************************************)
(* The catalogue of a SessionStore: the sessions it creates, fills,        *)
(* finishes, leases to downloads, finds again at a start and evicts when   *)
(* the store is over one of its two bounds.                                *)
(*                                                                         *)
(* An action is one critical section of SessionStore._lock.  A pass of     *)
(* enforce_retention runs in a critical section of its own, after the one  *)
(* that made it necessary; `sweeps` counts the threads that are between    *)
(* the two.  What happens inside one session is the subject of EvidenceLog.*)
(***************************************************************************)
EXTENDS Naturals, FiniteSets, Functions

CONSTANTS
    Sessions,     \* session identifiers
    Downloads,    \* requests that may download evidence
    None,         \* a request that downloads nothing
    MaxBytes,     \* retention_bytes
    MaxSessions,  \* retention_sessions
    SessionBytes, \* bound: bytes of the evidence of one session
    MaxSweeps,    \* bound: retention passes due at the same time
    MaxFaults,    \* bound: I/O errors
    MaxCrashes    \* bound: crashes of the process

ASSUME RetentionConstants ==
    /\ None \notin Sessions
    /\ IsFiniteSet(Sessions) /\ IsFiniteSet(Downloads)
    /\ MaxBytes \in Nat \ {0} /\ MaxSessions \in Nat \ {0}
    /\ SessionBytes \in Nat /\ MaxSweeps \in Nat \ {0}
    /\ MaxFaults \in Nat /\ MaxCrashes \in Nat

VARIABLES
    \* the data directory
    present,   \* the sessions that have a directory
    files,     \* which files the directory of a session holds
    evidence,  \* bytes of evidence.jsonl, and of what a recovery has cut off it
    created,   \* created_at, 0 for a session not created yet
    \* SessionStore
    status,    \* _metadata[s].status; "none" for a session it does not list
    cached,    \* _evidence_file_bytes[s]
    leases,    \* _download_leases[s]
    \* processes
    up,        \* the service runs
    reading,   \* the session each download reads
    sweeps,    \* calls of enforce_retention that are due
    \* history and bounds
    stopped,   \* a directory was left over since the last complete pass
    uncounted, \* sessions of which a write was cut since they were last loaded
    clock, faults, crashes

disk == <<present, files, evidence, created>>
store == <<status, cached, leases>>
process == <<up, reading, sweeps>>
storeVars == <<disk, store, process, stopped, uncounted, clock, faults, crashes>>

Files == {"evidence", "metadata"}
\* A file that no metadata counts: the metadata.*.tmp of a write that was cut, or
\* the evidence.partial of a recovery that was.  Nothing removes it but the removal
\* of the session.
Stray == "stray"
\* A metadata file is one unit of storage, whatever it says.
MetadataBytes == 1

StoreInit ==
    /\ present = {} /\ files = [s \in Sessions |-> {}]
    /\ evidence = [s \in Sessions |-> 0]
    /\ created = [s \in Sessions |-> 0]
    /\ status = [s \in Sessions |-> "none"]
    /\ cached = [s \in Sessions |-> 0] /\ leases = [s \in Sessions |-> 0]
    /\ up = TRUE /\ reading = [d \in Downloads |-> None] /\ sweeps = 0
    /\ stopped = FALSE /\ uncounted = {} /\ clock = 0 /\ faults = 0 /\ crashes = 0

Fault == faults < MaxFaults /\ faults' = faults + 1 /\ UNCHANGED crashes
Works == UNCHANGED <<faults, crashes>>

Listed(s) == status[s] # "none"
DirectorySize ==
    [s \in Sessions |->
        evidence[s] + (IF "metadata" \in files[s] THEN MetadataBytes ELSE 0)
                    + (IF Stray \in files[s] THEN MetadataBytes ELSE 0)]
-----------------------------------------------------------------------------
(* create_recorder, append and finish, as far as retention can tell.       *)

Create(s) ==
    /\ up /\ created[s] = 0
    /\ clock' = clock + 1
    /\ created' = [created EXCEPT ![s] = clock']
    /\ present' = present \union {s}
    /\ files' = [files EXCEPT ![s] = Files]
    /\ status' = [status EXCEPT ![s] = "active"]
    /\ Works
    /\ UNCHANGED <<evidence, cached, leases, process, stopped, uncounted>>

\* What a creation may leave: metadata.json comes of the temporary file.
PartlyCreated ==
    {left \in SUBSET (Files \union {Stray}) : ~({"metadata", Stray} \subseteq left)}

\* A creation that fails removes the directory again, if it can.
CreateFails(s) ==
    /\ up /\ created[s] = 0
    /\ Fault
    /\ clock' = clock + 1
    /\ created' = [created EXCEPT ![s] = clock']
    /\ \/ UNCHANGED <<present, files, stopped>>
       \/ /\ present' = present \union {s}
          /\ \E left \in PartlyCreated : files' = [files EXCEPT ![s] = left]
          /\ stopped' = TRUE
    /\ UNCHANGED <<evidence, store, process, uncounted>>

Append(s) ==
    /\ up /\ status[s] = "active"
    /\ evidence[s] < SessionBytes
    /\ evidence' = [evidence EXCEPT ![s] = @ + 1]
    /\ cached' = [cached EXCEPT ![s] = evidence'[s]]
    /\ Works
    /\ UNCHANGED <<present, files, created, status, leases, process, stopped,
                   uncounted, clock>>

\* A write to a listed session is cut: the evidence has grown and the cached
\* size has not, or the temporary file of its metadata stays behind.
CutWrite(s) ==
    /\ \/ /\ status[s] = "active" /\ evidence[s] < SessionBytes
          /\ evidence' = [evidence EXCEPT ![s] = @ + 1]
          /\ UNCHANGED files
       \/ /\ Listed(s)
          /\ files' = [files EXCEPT ![s] = @ \union {Stray}]
          /\ UNCHANGED evidence
    /\ uncounted' = uncounted \union {s}
    /\ UNCHANGED <<present, created>>

\* append or finish raises OSError; a failure that leaves no trace on the disk
\* changes nothing here.  The failure report is a Finish of its own.
WriteFails(s) ==
    /\ up /\ Fault /\ CutWrite(s)
    /\ UNCHANGED <<store, process, stopped, clock>>

Finish(s) ==
    /\ up /\ status[s] = "active"
    /\ sweeps < MaxSweeps
    /\ status' = [status EXCEPT ![s] = "closed"]
    /\ sweeps' = sweeps + 1
    /\ Works
    /\ UNCHANGED <<disk, cached, leases, up, reading, stopped, uncounted, clock>>
-----------------------------------------------------------------------------
(* lease_evidence                                                          *)

Lease(d, s) ==
    /\ up /\ reading[d] = None
    /\ Listed(s) /\ "evidence" \in files[s]
    /\ reading' = [reading EXCEPT ![d] = s]
    /\ leases' = [leases EXCEPT ![s] = @ + 1]
    /\ Works
    /\ UNCHANGED <<disk, status, cached, up, sweeps, stopped, uncounted, clock>>

\* Mutant: the first download to end drops the lease of all.
ReleaseAll(d) ==
    /\ reading[d] # None
    /\ sweeps < MaxSweeps
    /\ leases' = [leases EXCEPT ![reading[d]] = 0]
    /\ reading' = [reading EXCEPT ![d] = None]
    /\ sweeps' = sweeps + 1
    /\ Works
    /\ UNCHANGED <<disk, status, cached, up, stopped, uncounted, clock>>

Release(d) ==
    /\ reading[d] # None
    /\ sweeps < MaxSweeps
    /\ leases' = [leases EXCEPT ![reading[d]] = @ - 1]
    /\ reading' = [reading EXCEPT ![d] = None]
    /\ sweeps' = sweeps + 1
    /\ Works
    /\ UNCHANGED <<disk, status, cached, up, stopped, uncounted, clock>>
-----------------------------------------------------------------------------
(* enforce_retention                                                       *)

\* A directory the store does not list is an invalid session: it counts too.
Objects == {s \in Sessions : Listed(s)} \union present

Bytes ==
    [s \in Sessions |->
        IF Listed(s) THEN cached[s] + MetadataBytes ELSE DirectorySize[s]]

\* Mutant: every session is as old as its directory's last change.
OrdersTouched == [Sessions -> 0..(clock + 1)]

\* A listed session is as old as its created_at says, an invalid one as its
\* directory's modification time, which may be anything.
Orders ==
    {order \in [Sessions -> 0..(clock + 1)] :
        \A s \in Sessions : /\ Listed(s) => order[s] = created[s]
                            /\ s \notin Objects => order[s] = 0}

Fits(kept) ==
    /\ SumFunctionOnSet(Bytes, kept) <= MaxBytes
    /\ Cardinality(kept) <= MaxSessions

Candidates == {s \in Objects : status[s] # "active"}

Oldest(some, order) ==
    CHOOSE s \in some : \A r \in some : order[s] <= order[r]

\* One round of the loop over the candidates: the oldest of those that are left
\* is removed, unless it is leased or what is kept fits already.
NextRound(was, order) ==
    LET next == Oldest(was.left, order)
    IN  IF was.left = {} \/ Fits(Objects \ was.gone) THEN was
        ELSE [left |-> was.left \ {next},
              gone |-> IF leases[next] > 0 THEN was.gone
                       ELSE was.gone \union {next}]

\* The loop: which candidates are left, and which are gone, after n rounds.
Rounds(order) ==
    LET round[n \in 0..Cardinality(Sessions)] ==
          IF n = 0 THEN [left |-> Candidates, gone |-> {}]
          ELSE NextRound(round[n - 1], order)
    IN  round

Evicted(order) == Rounds(order)[Cardinality(Sessions)].gone

Drop(gone) ==
    /\ present' = present \ gone
    /\ files' = [s \in Sessions |-> IF s \in gone THEN {} ELSE files[s]]
    /\ evidence' = [s \in Sessions |-> IF s \in gone THEN 0 ELSE evidence[s]]
    /\ status' = [s \in Sessions |-> IF s \in gone THEN "none" ELSE status[s]]
    /\ cached' = [s \in Sessions |-> IF s \in gone THEN 0 ELSE cached[s]]

EnforceRetention ==
    /\ up /\ sweeps > 0
    /\ \E order \in Orders : Drop(Evicted(order))
    /\ sweeps' = sweeps - 1
    /\ stopped' = FALSE
    /\ Works
    /\ UNCHANGED <<created, leases, up, reading, uncounted, clock>>

\* The removal of `half` stops half way, after the removal of `gone`; its
\* directory may have lost any of its files.
HalfRemoved(gone, half) ==
    /\ present' = present \ gone
    /\ \E left \in SUBSET files[half] :
          /\ files' = [s \in Sessions |-> IF s \in gone THEN {}
                                          ELSE IF s = half THEN left
                                          ELSE files[s]]
          /\ evidence' = [s \in Sessions |->
                            IF s \in gone \/ (s = half /\ "evidence" \notin left)
                            THEN 0 ELSE evidence[s]]
    /\ UNCHANGED created

\* The sessions removed before some round of a pass, with the one it removes.
Removals ==
    UNION {{<<Rounds(order)[n - 1].gone, s>> :
               s \in Rounds(order)[n].gone \ Rounds(order)[n - 1].gone} :
           n \in 1..Cardinality(Sessions), order \in Orders}

\* shutil.rmtree raises: the pass is over, the session stays in the catalogue.
EnforceStops ==
    /\ up /\ sweeps > 0
    /\ Fault
    /\ \E removal \in Removals :
          LET gone == removal[1]
          IN  /\ HalfRemoved(gone, removal[2])
              /\ status' = [s \in Sessions |->
                              IF s \in gone THEN "none" ELSE status[s]]
              /\ cached' = [s \in Sessions |->
                              IF s \in gone THEN 0 ELSE cached[s]]
    /\ sweeps' = sweeps - 1
    /\ stopped' = TRUE
    /\ UNCHANGED <<leases, up, reading, uncounted, clock>>

\* The directory listing fails: the pass raises before it removes anything.
EnforceFails ==
    /\ up /\ sweeps > 0
    /\ Fault
    /\ sweeps' = sweeps - 1
    /\ stopped' = TRUE
    /\ UNCHANGED <<disk, store, up, reading, uncounted, clock>>
-----------------------------------------------------------------------------
(* A crash, in or out of a pass or a write, and the next start.  A crash in *)
(* a creation leaves what CreateFails leaves.                              *)

Crash ==
    /\ up
    /\ crashes < MaxCrashes /\ crashes' = crashes + 1
    /\ \/ UNCHANGED <<disk, uncounted>>
       \/ /\ sweeps > 0
          /\ \E removal \in Removals : HalfRemoved(removal[1], removal[2])
          /\ UNCHANGED uncounted
       \/ \E s \in Sessions : CutWrite(s)
    /\ up' = FALSE /\ sweeps' = 0
    /\ status' = [s \in Sessions |-> "none"]
    /\ cached' = [s \in Sessions |-> 0] /\ leases' = [s \in Sessions |-> 0]
    /\ reading' = [d \in Downloads |-> None]
    /\ UNCHANGED <<stopped, clock, faults>>

\* The start raises, or is cut, in the recovery of a session: its metadata has not
\* been replaced, or does not count the tail that was cut off its evidence.
StartFails(s) ==
    /\ ~up /\ Fault
    /\ s \in present /\ "metadata" \in files[s] /\ Stray \notin files[s]
    /\ files' = [files EXCEPT ![s] = @ \union {Stray}]
    /\ \/ UNCHANGED evidence
       \/ /\ s \in uncounted /\ evidence[s] > 0
          /\ evidence' = [evidence EXCEPT ![s] = @ - 1]
    /\ uncounted' = uncounted \union {s}
    /\ UNCHANGED <<present, created, store, process, stopped, clock>>

\* Every session whose metadata can be read is listed, as closed; the others
\* are invalid.  The constructor ends with a retention pass.
Start ==
    /\ ~up
    /\ \E unreadable \in SUBSET present :
          /\ IF unreadable = {} THEN Works ELSE Fault
          /\ LET loaded == {s \in present \ unreadable : "metadata" \in files[s]}
             IN  /\ status' = [s \in Sessions |->
                                 IF s \in loaded THEN "closed" ELSE "none"]
                 /\ cached' = [s \in Sessions |->
                                 IF s \in loaded THEN evidence[s] ELSE 0]
    \* The sizes are taken anew, but no other file is looked for.
    /\ uncounted' = {s \in uncounted : Stray \in files[s]}
    /\ up' = TRUE /\ sweeps' = 1
    /\ UNCHANGED <<disk, leases, reading, stopped, clock>>
-----------------------------------------------------------------------------
StoreNext ==
    \/ \E s \in Sessions : \/ Create(s) \/ CreateFails(s)
                           \/ Append(s) \/ WriteFails(s) \/ Finish(s)
                           \/ StartFails(s)
    \/ \E d \in Downloads : Release(d) \/ \E s \in Sessions : Lease(d, s)
    \/ EnforceRetention \/ EnforceStops \/ EnforceFails
    \/ Crash \/ Start

StoreSpec == StoreInit /\ [][StoreNext]_storeVars
-----------------------------------------------------------------------------
\* Every variable of the catalogue keeps its type.
StoreTypeOK ==
    /\ present \subseteq Sessions
    /\ files \in [Sessions -> SUBSET (Files \union {Stray})]
    /\ evidence \in [Sessions -> 0..SessionBytes]
    /\ created \in [Sessions -> Nat]
    /\ status \in [Sessions -> {"none", "active", "closed"}]
    /\ cached \in [Sessions -> 0..SessionBytes]
    /\ leases \in [Sessions -> 0..Cardinality(Downloads)]
    /\ up \in BOOLEAN /\ reading \in [Downloads -> Sessions \union {None}]
    /\ sweeps \in Nat /\ stopped \in BOOLEAN /\ uncounted \subseteq Sessions
    /\ clock \in Nat /\ faults \in Nat /\ crashes \in Nat

\* "Active and currently downloading sessions are protected from retention":
\* whatever the other requests and runs do, an active session and a session
\* some download reads have both of their files.
ProtectedStored ==
    /\ \A s \in Sessions : status[s] = "active" => s \in present /\ Files \subseteq files[s]
    /\ \A d \in Downloads :
          reading[d] # None => reading[d] \in present /\ "evidence" \in files[reading[d]]

\* The history lists no session whose directory is gone, and what it believes
\* a session to occupy is less than what the directory holds only after a write
\* to that session was cut.
CatalogueBacked ==
    \A s \in Sessions : Listed(s) =>
        /\ s \in present
        /\ s \notin uncounted => Bytes[s] >= DirectorySize[s]

\* The data directory is within both bounds, by the bytes it really holds.
StoreFits ==
    /\ SumFunctionOnSet(DirectorySize, present) <= MaxBytes
    /\ Cardinality(present) <= MaxSessions

\* By its own count the store is within both bounds; and the data directory is
\* so too, unless a write to a session that it holds was cut.
WithinBounds ==
    /\ Fits(Objects)
    /\ present \intersect uncounted = {} => StoreFits

\* When nothing is protected, no pass is due and the last one ran to its end,
\* the store is within both bounds, whichever sessions are listed.
QuietStoreFits ==
    /\ up /\ sweeps = 0 /\ ~stopped
    /\ \A s \in Sessions : status[s] # "active" /\ leases[s] = 0
    => WithinBounds

\* The type invariant, and what holds whichever requests, passes and crashes
\* fall together: protected sessions keep their files, the history lists nothing
\* that is gone, and a quiet store fits (lease_evidence, enforce_retention).
StoreInv == StoreTypeOK /\ ProtectedStored /\ CatalogueBacked /\ QuietStoreFits

\* "Oldest finished sessions removed first": of two closed sessions that no
\* download reads, a pass never removes the younger and keeps the older.
OldestFirst ==
    [][up /\ up' => \A old, young \in Sessions :
          /\ status[old] = "closed" /\ status[young] = "closed"
          /\ created[old] < created[young]
          /\ \A d \in Downloads : reading[d] # old
          /\ young \notin present'
          => old \notin present']_storeVars

\* A pass removes nothing from a store within its bounds, and never a session
\* that the removal of the older ones had made unnecessary.
OnlyWhenOver ==
    [][up /\ up' /\ present \ present' # {} =>
          \E last \in present \ present' :
             LET kept == present' \union {last}
             IN  \/ SumFunctionOnSet(Bytes, kept) > MaxBytes
                 \/ Cardinality(kept) > MaxSessions]_storeVars

\* A pass that runs to its end goes on until the store fits or there is nothing
\* left but active sessions and sessions that downloads read.
EnoughRemoved ==
    [][up /\ up' /\ sweeps' < sweeps /\ ~stopped' =>
          \/ WithinBounds'
          \/ \A s \in present' : status'[s] = "active" \/ leases'[s] # 0]_storeVars

\* What a pass removes: the oldest first, nothing that need not go, and enough.
RemovesAsDocumented == OldestFirst /\ OnlyWhenOver /\ EnoughRemoved
=============================================================================
