----------------------------- MODULE Assessment -----------------------------
(***************************************************************************)
(* One assessment repeated while its evidence changes.  The evidence file  *)
(* grows by the lines a recorder writes, may end in a torn line, and may   *)
(* lose any record afterwards; after every change the report is generated  *)
(* again from the file and a fixed profile.                                *)
(*                                                                         *)
(* The module states what docs/assess.md promises of that report: deleting *)
(* evidence never moves a finding toward PASS, records behind the end of   *)
(* the run change nothing, and an instant counts as known only when every  *)
(* possible time of the samples agrees.                                    *)
(***************************************************************************)
EXTENDS AssessEngine

CONSTANTS
    Lines,         \* the lines a recorder may write, per signal source; each
                   \* has its sequence number
    Profiles,      \* profiles as written in TOML, valid or not
    NsPerSecond,   \* 1_000_000_000
    MaxHoldSeconds,\* MAX_HOLD_S
    MaxLost        \* bound: records deleted in a behaviour

ASSUME NsAssumption == NsPerSecond \in Nat \ {0}
ASSUME HoldAssumption == MaxHoldSeconds \in Nat
ASSUME LinesAssumption ==
    \A source \in DOMAIN Lines : \A line \in Lines[source] :
        line.seq \in Nat \ {0} /\ line.t \in Nat /\ line.observed \in Int
ASSUME ProfilesAssumption ==
    \A p \in Profiles :
        /\ p.signal.source \in DOMAIN Lines
        /\ \A x \in {p.hold, p.min_fraction, p.window.start, p.window.end} :
              x.num \in Int /\ x.den \in Nat \ {0}

VARIABLES
    profile,       \* the profile of this assessment
    file,          \* records of the evidence file, by sequence number
    written,       \* sequence number of the last line written
    torn,          \* the file ends in an incomplete line
    report         \* what assess() returned for them

vars == <<profile, file, written, torn, report>>

-----------------------------------------------------------------------------
(* profile.py.  A number of seconds is a fraction [num, den].              *)

AtLeast(x, y) == x.num * y.den >= y.num * x.den
Seconds(n) == [num |-> n, den |-> 1]

SecondsToNs(seconds, ceiling) ==
    LET scaled == seconds.num * NsPerSecond
    IN (scaled \div seconds.den)
       + (IF ceiling /\ scaled % seconds.den # 0 THEN 1 ELSE 0)

\* An end offset of zero stands for one that was left out.
WindowAccepted(w) ==
    /\ w.start.num >= 0
    /\ w.end.num = 0 \/ ~AtLeast(w.start, w.end)

OPERATORS == {"eq", "ne", "lt", "le", "gt", "ge", "between"}
SOURCES == {"dragon", "prusalink"}
CHECK_KINDS == {"holds_throughout", "time_in_band"}

PredicateAccepted(predicate) ==
    /\ predicate.op \in OPERATORS
    /\ predicate.op = "between" => predicate.low <= predicate.high
    /\ predicate.op \in {"eq", "ne"} => Usable(predicate.value)
    /\ predicate.op \in {"lt", "le", "gt", "ge"} => IsNumber(predicate.value)

\* Mutant: a criterion of zero is accepted.
FractionAcceptedZero(p) == p.num >= 0 /\ AtLeast(Seconds(1), p)

FractionAccepted(p) == p.num > 0 /\ AtLeast(Seconds(1), p)

SignalAccepted(signal) ==
    /\ signal.source \in SOURCES
    /\ signal.source = "dragon" => signal.channel # AnyChannel

ProfileAccepted(p) ==
    /\ p.kind \in CHECK_KINDS
    /\ p.hold.num >= 0 /\ AtLeast(Seconds(MaxHoldSeconds), p.hold)
    /\ SignalAccepted(p.signal)
    /\ WindowAccepted(p.window)
    /\ PredicateAccepted(p.predicate)
    /\ p.kind = "time_in_band" =>
          p.predicate.op = "between" /\ FractionAccepted(p.min_fraction)

LoadedCheck(p) ==
    [kind |-> p.kind, predicate |-> p.predicate, min_fraction |-> p.min_fraction,
     start |-> SecondsToNs(p.window.start, FALSE),
     end   |-> SecondsToNs(p.window.end, TRUE)]

LoadedHold(p) == SecondsToNs(p.hold, FALSE)

-----------------------------------------------------------------------------
(* assess(): load both inputs, evaluate the check, or refuse.              *)

Refused == [result |-> "REFUSED", reasons |-> {}, start |-> 0, end |-> 0,
            known |-> [true |-> {}, false |-> {}], attempts |-> {}]

EvidenceAccepted(ev, incomplete) == DOMAIN ev # {} /\ ~incomplete

Assess(ev, incomplete, p) ==
    IF ProfileAccepted(p) /\ EvidenceAccepted(ev, incomplete)
    THEN evaluate(ev, LoadedHold(p), p.signal, LoadedCheck(p))
    ELSE Refused

Init ==
    /\ profile \in Profiles
    /\ file = [s \in {} |-> 0]
    /\ written = 0
    /\ torn = FALSE
    /\ report = Assess(file, torn, profile)

\* The recorder writes its next line: _EvidenceLog numbers them without gaps.
Append ==
    \E line \in Lines[profile.signal.source] :
        /\ ~torn
        /\ line.seq = written + 1
        /\ file' = [s \in DOMAIN file \cup {line.seq} |->
                      IF s = line.seq THEN line ELSE file[s]]
        /\ written' = line.seq
        /\ report' = Assess(file', torn, profile)
        /\ UNCHANGED <<profile, torn>>

\* A line is left incomplete at the end of the file.
Tear ==
    /\ ~torn
    /\ torn' = TRUE
    /\ report' = Assess(file, torn', profile)
    /\ UNCHANGED <<profile, file, written>>

\* The torn tail is cut off, as recovery does.
Trim ==
    /\ torn
    /\ torn' = FALSE
    /\ report' = Assess(file, torn', profile)
    /\ UNCHANGED <<profile, file, written>>

\* A record disappears; the others keep their sequence numbers.
Delete ==
    \E s \in DOMAIN file :
        /\ written - Cardinality(DOMAIN file) < MaxLost
        /\ file' = [r \in DOMAIN file \ {s} |-> file[r]]
        /\ report' = Assess(file', torn, profile)
        /\ UNCHANGED <<profile, written, torn>>

Next == Append \/ Tear \/ Trim \/ Delete

Spec == Init /\ [][Next]_vars

-----------------------------------------------------------------------------
(* Properties.                                                             *)

\* Deleting evidence never moves a finding toward PASS and never proves a
\* violation: what the reduced file decides the full file decided alike, and
\* no instant becomes known (docs/assess.md, the epistemic invariant).
Lost == DOMAIN file' # DOMAIN file /\ DOMAIN file' \subseteq DOMAIN file
DeletionNeverDecides ==
    [][Lost =>
        /\ report'.result \in {"PASS", "FAIL"} => report.result = report'.result
        /\ report'.known.true \subseteq report.known.true
        /\ report'.known.false \subseteq report.known.false]_vars

\* Once the run is closed by its terminal record, later lines -- further run
\* markers, duplicates of a request id, records with earlier times -- leave the
\* finding as it is.
Grown == DOMAIN file \subseteq DOMAIN file' /\ DOMAIN file # DOMAIN file'
Closed == Run(file).terminal # 0 /\ Run(file).problem \in {"none", "run_invalid"}
ClosedRunIsFinal == [][Grown /\ Closed => report' = report]_vars

\* The attempts in order, each begun when the one before it had ended: the only
\* evidence a recorder that waits for its answers can produce.
Sequential(atts) ==
    \A a \in atts : \A b \in Later(atts, a) : b.start >= a.end

\* Every assignment of an instant to every sample, inside its interval.
Instants(atts) ==
    {at \in [atts -> UNION {a.start .. a.end : a \in atts}] :
        \A a \in atts : a.start <= at[a] /\ at[a] <= a.end}

\* At instant x the last sample is a, and until x + 1 its value persists: the
\* declared hold, a fraction of seconds, has not passed.
Persists(at, a, x, hold) ==
    /\ at[a] <= x
    /\ (x + 1 - at[a]) * hold.den <= hold.num * NsPerSecond
    /\ \A b \in DOMAIN at \ {a} :
          at[b] <= x => at[b] < at[a] \/ (at[b] = at[a] /\ b.first < a.first)

\* An instant counts as true (false) only if, whenever in their intervals the
\* samples were really taken, the last one before it was true (false) and is
\* within the declared hold.
KnownWhateverTheInstants ==
    LET judged == report.attempts
        atts   == {j.attempt : j \in judged}
    IN Sequential(atts) =>
         \A truth \in {"true", "false"} :
           \A x \in report.known[truth], at \in Instants(atts) :
             \E j \in judged : /\ j.truth = truth
                               /\ Persists(at, j.attempt, x, profile.hold)

\* A finding that decides nothing says why, and one that passes rests on an
\* observation that satisfied the check: no criterion is met by silence.
DecisionsAreGrounded ==
    /\ report.result = "INCONCLUSIVE" => report.reasons # {}
    /\ report.result = "PASS" =>
         \E j \in report.attempts : j.attempt.valid /\ j.truth = "true"
    /\ report.result = "FAIL" =>
         \E j \in report.attempts : j.attempt.valid /\ j.truth = "false"
=============================================================================
