----------------------- MODULE EvidenceLogRefinement -----------------------
(* EvidenceLog implements DurableLog.                                      *)
EXTENDS EvidenceLog

statusBar ==
    IF lapsed THEN "lapsed"
    ELSE IF pc[Main] = "start" THEN "new"
    ELSE IF ~dir THEN "gone"
    ELSE IF Active THEN "open"
    ELSE "closed"

\* A line is two units of the file; a torn tail is no line.
LineAt(f, i) == [seq |-> f[2 * i].seq, kind |-> f[2 * i].kind,
                 whole |-> f[2 * i].part = 2]
LinesOf(f) == [i \in 1..(Len(f) \div 2) |-> LineAt(f, i)]

logBar == IF lapsed THEN <<>> ELSE LinesOf(file)

ackedBar == IF lapsed THEN 0 ELSE next - 1

Abstract == INSTANCE DurableLog
                WITH Terminal <- TERMINAL_RECORDS,
                     status <- statusBar, log <- logBar, acked <- ackedBar

\* Every behaviour of the recorder, the store and their recovery is one of the
\* promised log: whatever errors and crashes fall between the file operations,
\* a reader finds lines 1, 2, 3, ... with all that was acknowledged.
ImplementsDurableLog == Abstract!Spec
=============================================================================
