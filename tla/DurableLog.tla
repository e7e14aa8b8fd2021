---------------------------- MODULE DurableLog ----------------------------
(***************************************************************************)
(* What one persistent session promises whoever appends to it and whoever  *)
(* reads its evidence later: lines numbered from 1, at most one of them    *)
(* not acknowledged, and no acknowledged one lost while the session is     *)
(* kept.  EvidenceLog implements it, step by step, through errors, crashes *)
(* and recoveries; the promise ends only when a failure of the storage     *)
(* could not be stored either.                                             *)
(***************************************************************************)
EXTENDS Naturals, Sequences

CONSTANTS
    Kinds,     \* kinds of record
    Terminal   \* those that end a session

VARIABLES
    status,  \* new, open, closed, gone (evicted or never made), or lapsed
    log,     \* the complete lines of the evidence
    acked    \* how many appends have returned

vars == <<status, log, acked>>

Init == status = "new" /\ log = <<>> /\ acked = 0

Line(s, k) == [seq |-> s, kind |-> k, whole |-> TRUE]

Create == status = "new" /\ status' = "open" /\ UNCHANGED <<log, acked>>

\* A session whose creation fails has no lines, and perhaps a directory.
Abandon ==
    /\ status \in {"new", "open"} /\ log = <<>> /\ acked = 0
    /\ status' \in {"closed", "gone"}
    /\ UNCHANGED <<log, acked>>

Write(k) ==
    /\ status = "open" /\ Len(log) = acked
    /\ log # <<>> => log[Len(log)].kind \notin Terminal
    /\ log' = Append(log, Line(acked + 1, k))
    /\ UNCHANGED <<status, acked>>

\* The append returns its number; by then another thread may have closed the
\* session, and retention may have evicted it.
Acknowledge ==
    /\ Len(log) = acked + 1 \/ status = "gone"
    /\ acked' = acked + 1
    /\ UNCHANGED <<status, log>>

Close == status = "open" /\ status' = "closed" /\ UNCHANGED <<log, acked>>

\* A crash takes a line that nobody was told of, and closes the session.
Lose ==
    /\ status \in {"open", "closed"}
    /\ status' = "closed"
    /\ log' = SubSeq(log, 1, acked)
    /\ UNCHANGED acked

Evict ==
    /\ status = "closed"
    /\ status' = "gone" /\ log' = <<>>
    /\ UNCHANGED acked

\* An append failed, and so did the note of its failure: nothing is promised
\* from here on.
Lapse ==
    /\ status \in {"open", "closed", "gone"}
    /\ status' = "lapsed" /\ log' = <<>> /\ acked' = 0

Next ==
    \/ Create \/ Abandon
    \/ \E k \in Kinds : Write(k)
    \/ Acknowledge \/ Close \/ Lose \/ Evict \/ Lapse

Spec == Init /\ [][Next]_vars
=============================================================================
