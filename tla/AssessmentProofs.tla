-------------------------- MODULE AssessmentProofs --------------------------
(***************************************************************************)
(* The epistemic invariant of docs/assess.md for every evidence file,      *)
(* every profile and any number of deleted records.                        *)
(*                                                                         *)
(* The argument is the completeness gate.  A finding that knows anything   *)
(* was drawn from a file without a gap up to the run's terminal record;    *)
(* the fuller file has the same records up to there, hence the same run    *)
(* and the same slice, and evaluate() reads nothing else.                  *)
(*                                                                         *)
(* What is known is known whenever the samples were taken: a known instant *)
(* lies in a piece of an attempt, whose sample is the last one before it   *)
(* wherever it lies; and what is decided rests on such an instant.         *)
(***************************************************************************)
EXTENDS Assessment, FiniteSetTheorems, WellFoundedInduction, TLAPS

\* A non-empty set of natural numbers has a least element, the one Least picks.
LEMMA LeastExists ==
    ASSUME NEW S \in SUBSET Nat, S # {}
    PROVE  /\ Least(S) \in S
           /\ \A r \in S : Least(S) <= r
<1> DEFINE less == OpToRel(<, Nat)
<1>1. IsWellFoundedOn(less, Nat)
    BY NatLessThanWellFounded
<1>2. \A m, n \in Nat : m < n => <<m, n>> \in less
    BY DEF OpToRel
<1> HIDE DEF less
<1>3. PICK x \in S : \A y \in S : ~ (<<y, x>> \in less)
    BY <1>1, WFMin
<1>4. \A y \in S : x <= y
    <2> SUFFICES ASSUME NEW y \in S PROVE x <= y
        OBVIOUS
    <2>1. x \in Nat /\ y \in Nat
        OBVIOUS
    <2>2. ~(y < x)
        BY <1>2, <1>3, <2>1
    <2>. QED  BY <2>1, <2>2
<1>. QED  BY <1>4 DEF Least

\* Two sets with the same members below a bound that is in one of them have the
\* same least element.
LEMMA LeastAgrees ==
    ASSUME NEW S \in SUBSET Nat, NEW R \in SUBSET Nat, NEW n \in Nat,
           R \subseteq S, R # {}, Least(R) <= n,
           \A s \in S : s <= n => s \in R
    PROVE  Least(S) = Least(R)
<1>1. Least(R) \in R /\ \A r \in R : Least(R) <= r
    BY LeastExists
<1>2. Least(S) \in S /\ \A s \in S : Least(S) <= s
    BY <1>1, LeastExists
<1>3. Least(S) <= Least(R)
    BY <1>1, <1>2
<1>4. Least(S) \in Nat /\ Least(R) \in Nat
    BY <1>1, <1>2
<1>5. Least(S) <= n
    BY <1>3, <1>4
<1>6. Least(R) <= Least(S)
    BY <1>1, <1>2, <1>5
<1>. QED  BY <1>3, <1>4, <1>6

Sequences(ev) == DOMAIN ev \subseteq Nat \ {0}

\* big holds every record of small, and the same records up to n.
Extends(big, small, n) ==
    /\ Sequences(big) /\ Sequences(small)
    /\ DOMAIN small \subseteq DOMAIN big
    /\ \A s \in DOMAIN small : big[s] = small[s]
    /\ \A s \in DOMAIN big : s <= n => s \in DOMAIN small

\* What Run finds, when it finds a terminal record.
LEMMA RunFinds ==
    ASSUME NEW ev, Sequences(ev), Run(ev).terminal # 0
    PROVE  /\ Starts(ev) # {}
           /\ Run(ev).started = Least(Starts(ev))
           /\ Run(ev).started \in DOMAIN ev
           /\ Terminals(ev, Run(ev).started) # {}
           /\ Run(ev).terminal = Least(Terminals(ev, Run(ev).started))
           /\ Run(ev).terminal \in DOMAIN ev
           /\ Run(ev).terminal > Run(ev).started
           /\ \A s \in Starts(ev) \ {Run(ev).started} : ~(s < Run(ev).terminal)
<1> DEFINE started == Least(Starts(ev))
           ends    == Terminals(ev, started)
<1>1. Starts(ev) # {}
    BY DEF Run
<1>2. Starts(ev) \in SUBSET Nat
    BY DEF Sequences, Starts
<1>3. started \in Starts(ev)
    BY <1>1, <1>2, LeastExists
<1>4. started \in DOMAIN ev
    BY <1>3 DEF Starts
<1>5. ends \in SUBSET Nat
    BY DEF Sequences, Terminals
<1>6. ends # {} /\ Run(ev).started = started /\ Run(ev).terminal = Least(ends)
      /\ \A s \in Starts(ev) \ {started} : ~(s < Least(ends))
    BY <1>1 DEF Run, Closing
<1>7. Least(ends) \in ends
    BY <1>5, <1>6, LeastExists
<1>8. Least(ends) \in DOMAIN ev /\ Least(ends) > started
    BY <1>7 DEF Terminals
<1>. QED  BY <1>1, <1>4, <1>6, <1>8

\* The converse: the run of a file whose starts and terminals are known.
LEMMA RunIs ==
    ASSUME NEW ev, NEW started \in Nat \ {0}, NEW terminal \in Nat \ {0},
           Starts(ev) # {}, started = Least(Starts(ev)),
           Terminals(ev, started) # {}, terminal = Least(Terminals(ev, started)),
           \A s \in Starts(ev) \ {started} : ~(s < terminal)
    PROVE  Run(ev) = [problem |->
                        IF \/ ev[started].run = NoRun
                           \/ ev[terminal].run # ev[started].run
                           \/ ev[terminal].t < ev[started].t
                        THEN "run_invalid" ELSE "none",
                      started |-> started, terminal |-> terminal]
BY DEF Run, Closing

\* A file and one that extends it behind the terminal record have the same run.
LEMMA SameRun ==
    ASSUME NEW big, NEW small, Run(small).terminal # 0,
           Extends(big, small, Run(small).terminal)
    PROVE  Run(big) = Run(small)
<1> DEFINE n == Run(small).terminal
           s0 == Run(small).started
<1>1. Sequences(small) /\ Sequences(big)
    BY DEF Extends
<1>2. /\ Starts(small) # {} /\ s0 = Least(Starts(small)) /\ s0 \in DOMAIN small
      /\ Terminals(small, s0) # {} /\ n = Least(Terminals(small, s0))
      /\ n \in DOMAIN small /\ n > s0
      /\ \A s \in Starts(small) \ {s0} : ~(s < n)
    BY <1>1, RunFinds
<1>3. n \in Nat \ {0} /\ s0 \in Nat \ {0}
    BY <1>1, <1>2 DEF Sequences
<1> HIDE DEF n, s0
<1>4. /\ DOMAIN small \subseteq DOMAIN big
      /\ \A s \in DOMAIN small : big[s] = small[s]
      /\ \A s \in DOMAIN big : s <= n => s \in DOMAIN small
    BY DEF Extends, n
<1>5. /\ Starts(small) \subseteq Starts(big)
      /\ \A s \in Starts(big) : s <= n => s \in Starts(small)
    BY <1>4 DEF Starts
<1>6. /\ Terminals(small, s0) \subseteq Terminals(big, s0)
      /\ \A s \in Terminals(big, s0) : s <= n => s \in Terminals(small, s0)
    BY <1>4 DEF Terminals
<1>7. /\ Starts(small) \in SUBSET Nat /\ Starts(big) \in SUBSET Nat
      /\ Terminals(small, s0) \in SUBSET Nat /\ Terminals(big, s0) \in SUBSET Nat
    BY <1>1 DEF Sequences, Starts, Terminals
<1>8. Least(Starts(big)) = s0
    <2>1. Least(Starts(small)) <= n
        BY <1>2, <1>3
    <2>. QED  BY <1>2, <1>3, <1>5, <1>7, <2>1, LeastAgrees
<1>9. Least(Terminals(big, s0)) = n
    <2>1. Least(Terminals(small, s0)) <= n
        BY <1>2, <1>3
    <2>. QED  BY <1>2, <1>3, <1>6, <1>7, <2>1, LeastAgrees
<1>10. \A s \in Starts(big) \ {s0} : ~(s < n)
    <2> SUFFICES ASSUME NEW s \in Starts(big) \ {s0}, s < n PROVE FALSE
        OBVIOUS
    <2>1. s \in Nat /\ s <= n
        BY <1>3, <1>7
    <2>. QED  BY <1>2, <1>5, <2>1
<1>11. big[s0] = small[s0] /\ big[n] = small[n]
    BY <1>2, <1>4
<1> DEFINE found(ev) ==
        [problem |-> IF \/ ev[s0].run = NoRun
                        \/ ev[n].run # ev[s0].run
                        \/ ev[n].t < ev[s0].t
                     THEN "run_invalid" ELSE "none",
         started |-> s0, terminal |-> n]
<1>12. Run(small) = found(small)
    BY <1>2, <1>3, RunIs
<1>13. Starts(big) # {} /\ Terminals(big, s0) # {}
    BY <1>2, <1>5, <1>6
<1>14. Run(big) = found(big)
    BY <1>3, <1>8, <1>9, <1>10, <1>13, RunIs
<1>. QED  BY <1>11, <1>12, <1>14

\* Such files do not differ in the part that is assessed.
LEMMA SameSlice ==
    ASSUME NEW big, NEW small, NEW n, Extends(big, small, n)
    PROVE  Slice(big, n) = Slice(small, n)
BY DEF Extends, Slice

\* evaluate() reads nothing behind the terminal record.
THEOREM ReadsOnlyTheSlice ==
    ASSUME NEW big, NEW small, NEW hold, NEW signal, NEW check,
           Run(small).terminal # 0,
           Extends(big, small, Run(small).terminal)
    PROVE  evaluate(big, hold, signal, check) = evaluate(small, hold, signal, check)
<1>1. Run(big) = Run(small)
    BY SameRun
<1>2. Slice(big, Run(small).terminal) = Slice(small, Run(small).terminal)
    BY SameSlice
<1>3. /\ Run(small).started \in DOMAIN small
      /\ Run(small).terminal \in DOMAIN small
    BY RunFinds DEF Extends
<1>4. /\ big[Run(small).started] = small[Run(small).started]
      /\ big[Run(small).terminal] = small[Run(small).terminal]
    BY <1>3 DEF Extends
<1>. QED  BY <1>1, <1>2, <1>4 DEF evaluate

-----------------------------------------------------------------------------
(* The completeness gate.                                                  *)

Known(finding) == finding.known.true \cup finding.known.false

\* With a gap before the terminal record nothing is known and nothing decided.
LEMMA GapDecidesNothing ==
    ASSUME NEW ev, NEW started, NEW terminal, NEW low \in Int, NEW high \in Int,
           low < high, NEW hold, NEW signal, NEW check,
           check.kind # "holds_throughout" =>
             /\ check.min_fraction.num \in Int /\ check.min_fraction.den \in Int
             /\ 0 < check.min_fraction.num
             /\ check.min_fraction.num <= check.min_fraction.den,
           missing_between(ev, 1, terminal)
    PROVE  LET f == Judge(ev, started, terminal, low, high, hold, signal, check)
           IN f.result = "INCONCLUSIVE" /\ f.known = [true |-> {}, false |-> {}]
<1> DEFINE f == Judge(ev, started, terminal, low, high, hold, signal, check)
           w == high - low
<1>1. Incomplete(ev, started, terminal)
    BY DEF Incomplete
<1>2. /\ Integrate({}, low, high, "true") = {}
      /\ Integrate({}, low, high, "false") = {}
    BY DEF Integrate
<1>3. Cardinality({}) = 0
    BY FS_EmptySet
<1>4. w \in Int /\ w > 0
    OBVIOUS
<1> HIDE DEF w
<1>5. w - 0 - 0 # 0
    BY <1>4
<1>6. HoldsVerdict({}, 0, 0, w - 0 - 0, w) = "INCONCLUSIVE"
    BY <1>5 DEF HoldsVerdict
<1>7. check.kind # "holds_throughout" =>
        BandVerdict(0, 0, w, check.min_fraction) = "INCONCLUSIVE"
    <2> SUFFICES ASSUME check.kind # "holds_throughout"
                 PROVE  BandVerdict(0, 0, w, check.min_fraction) = "INCONCLUSIVE"
        OBVIOUS
    <2> DEFINE num == check.min_fraction.num
               den == check.min_fraction.den
    <2>1. num \in Int /\ den \in Int /\ 0 < num /\ num <= den
        OBVIOUS
    <2> HIDE DEF num, den
    <2>2. num * w > 0
        BY <1>4, <2>1
    <2>3. w * den >= num * w
        BY <1>4, <2>1
    <2>4. 0 * den = 0 /\ num * w \in Int /\ w * den \in Int /\ w - 0 = w
        BY <1>4, <2>1
    <2>5. ~(0 * den >= num * w) /\ ~((w - 0) * den < num * w)
        BY <2>2, <2>3, <2>4
    <2>. QED  BY <2>5 DEF BandVerdict, num, den
<1>8. f.known = [true |-> {}, false |-> {}]
    BY <1>1, <1>2 DEF Judge
<1>9. f.result = IF check.kind = "holds_throughout"
                 THEN HoldsVerdict({}, 0, 0, w - 0 - 0, w)
                 ELSE BandVerdict(0, 0, w, check.min_fraction)
    BY <1>1, <1>2, <1>3 DEF Judge, w
<1>. QED  BY <1>6, <1>7, <1>8, <1>9

\* A file and what is left of it: the other records are gone, none is changed.
Remains(big, small) ==
    /\ Sequences(big) /\ Sequences(small)
    /\ DOMAIN small \subseteq DOMAIN big
    /\ \A s \in DOMAIN small : big[s] = small[s]

CheckOK(check) ==
    /\ check.start \in Int /\ check.end \in Int
    /\ check.kind # "holds_throughout" =>
         /\ check.min_fraction.num \in Int /\ check.min_fraction.den \in Int
         /\ 0 < check.min_fraction.num
         /\ check.min_fraction.num <= check.min_fraction.den

\* The epistemic invariant for two files: what the remains decide or know, the
\* whole file decided and knew.
Weaker(g, f) ==
    /\ g.result \in {"PASS", "FAIL"} => f.result = g.result
    /\ g.known.true \subseteq f.known.true
    /\ g.known.false \subseteq f.known.false

\* A finding without a result or known time is below every other.
LEMMA UndecidedIsWeakest ==
    ASSUME NEW g, NEW f, g.result = "INCONCLUSIVE",
           g.known = [true |-> {}, false |-> {}]
    PROVE  Weaker(g, f)
BY DEF Weaker

\* Deleting records from a file never lets its assessment decide more or know
\* more, for every file, profile and set of deleted records (engine.evaluate).
THEOREM DeletionIsMonotone ==
    ASSUME NEW big, NEW small, NEW hold, NEW signal, NEW check,
           Remains(big, small), CheckOK(check),
           \A s \in DOMAIN small : small[s].t \in Int
    PROVE  Weaker(evaluate(small, hold, signal, check),
                  evaluate(big, hold, signal, check))
<1> DEFINE g    == evaluate(small, hold, signal, check)
           run  == Run(small)
           n    == run.terminal
           low  == small[run.started].t + check.start
           high == IF check.end = 0 THEN small[n].t
                   ELSE small[run.started].t + check.end
<1>1. CASE run.problem # "none" \/ n = 0 \/ high <= low
    <2>1. \E problem : g = Undecided(problem)
        BY <1>1 DEF evaluate
    <2>2. g.result = "INCONCLUSIVE" /\ g.known = [true |-> {}, false |-> {}]
        BY <2>1 DEF Undecided
    <2>. QED  BY <2>2, UndecidedIsWeakest
<1>2. CASE ~(run.problem # "none" \/ n = 0 \/ high <= low)
    <2>1. run.started \in DOMAIN small /\ n \in DOMAIN small
        BY <1>2, RunFinds DEF Remains
    <2>2. low \in Int /\ high \in Int /\ low < high
        <3>1. small[run.started].t \in Int /\ small[n].t \in Int
            BY <2>1
        <3>2. check.start \in Int /\ check.end \in Int
            BY DEF CheckOK
        <3>. QED  BY <1>2, <3>1, <3>2
    <2>3. g = Judge(Slice(small, n), run.started, n, low, high, hold, signal, check)
        BY <1>2 DEF evaluate
    <2>4. n \in Nat /\ Sequences(small) /\ Sequences(big)
        BY <2>1 DEF Remains, Sequences
    <2> HIDE DEF low, high, g, n
    <2>5. CASE missing_between(Slice(small, n), 1, n)
        <3>1. g.result = "INCONCLUSIVE" /\ g.known = [true |-> {}, false |-> {}]
            BY <2>2, <2>3, <2>5, GapDecidesNothing DEF CheckOK
        <3>. QED  BY <3>1, UndecidedIsWeakest DEF g
    <2>6. CASE ~missing_between(Slice(small, n), 1, n)
        <3>1. \A s \in 1 .. n : s \in DOMAIN small
            BY <2>6 DEF missing_between, Slice
        <3>2. \A s \in DOMAIN big : s <= n => s \in 1 .. n
            BY <2>4 DEF Sequences
        <3>3. Extends(big, small, n)
            BY <3>1, <3>2 DEF Extends, Remains
        <3>4. evaluate(big, hold, signal, check) = g
            BY <1>2, <3>3, ReadsOnlyTheSlice DEF g, n
        <3>. QED  BY <3>4 DEF Weaker, g
    <2>. QED  BY <2>5, <2>6
<1>. QED  BY <1>1, <1>2

-----------------------------------------------------------------------------
(* The same for every step of the module Assessment.                       *)

FileInv ==
    /\ profile \in Profiles
    /\ written \in Nat
    /\ torn \in BOOLEAN
    /\ DOMAIN file \subseteq 1 .. written
    /\ \A s \in DOMAIN file : file[s].t \in Nat /\ file[s].observed \in Int
    /\ report = Assess(file, torn, profile)

\* The files of the module are files the loader accepts: numbered within what was
\* written, and the report is the assessment of the present one.
THEOREM FileInvariant == Spec => []FileInv
<1>1. Init => FileInv
    <2> SUFFICES ASSUME Init PROVE FileInv
        OBVIOUS
    <2>1. DOMAIN file = {} /\ written \in Nat
        BY DEF Init
    <2>2. torn \in BOOLEAN /\ profile \in Profiles
        BY DEF Init
    <2>3. report = Assess(file, torn, profile)
        BY DEF Init
    <2>. QED  BY <2>1, <2>2, <2>3 DEF FileInv
<1>2. FileInv /\ [Next]_vars => FileInv'
    <2> SUFFICES ASSUME FileInv, [Next]_vars PROVE FileInv'
        OBVIOUS
    <2> USE DEF FileInv
    <2>1. CASE Append
        <3>1. PICK line \in Lines[profile.signal.source] :
                /\ line.seq = written + 1
                /\ file' = [s \in DOMAIN file \cup {line.seq} |->
                              IF s = line.seq THEN line ELSE file[s]]
                /\ written' = line.seq
                /\ report' = Assess(file', torn, profile)
                /\ UNCHANGED <<profile, torn>>
            BY <2>1 DEF Append
        <3>2. line.seq \in Nat \ {0} /\ line.t \in Nat /\ line.observed \in Int
            BY <3>1, LinesAssumption, ProfilesAssumption
        <3>3. DOMAIN file' \subseteq 1 .. written'
            BY <3>1, <3>2
        <3>4. \A s \in DOMAIN file' : file'[s].t \in Nat /\ file'[s].observed \in Int
            BY <3>1, <3>2
        <3>. QED  BY <3>1, <3>2, <3>3, <3>4
    <2>2. CASE Tear
        BY <2>2 DEF Tear
    <2>3. CASE Trim
        BY <2>3 DEF Trim
    <2>4. CASE Delete
        BY <2>4 DEF Delete
    <2>5. CASE UNCHANGED vars
        BY <2>5 DEF vars
    <2>. QED  BY <2>1, <2>2, <2>3, <2>4, <2>5 DEF Next
<1>. QED  BY <1>1, <1>2, PTL DEF Spec

\* The checks of an accepted profile have the integers that the engine needs.
LEMMA LoadedCheckOK ==
    ASSUME NEW p \in Profiles, ProfileAccepted(p)
    PROVE  CheckOK(LoadedCheck(p))
<1>1. /\ p.window.start.num \in Int /\ p.window.start.den \in Nat \ {0}
      /\ p.window.end.num \in Int /\ p.window.end.den \in Nat \ {0}
      /\ p.min_fraction.num \in Int /\ p.min_fraction.den \in Nat \ {0}
    BY ProfilesAssumption
<1>2. \A x, d \in Int : d > 0 => x \div d \in Int
    OBVIOUS
<1>3. \A x : x.num \in Int /\ x.den \in Nat \ {0} =>
        SecondsToNs(x, FALSE) \in Int /\ SecondsToNs(x, TRUE) \in Int
    <2> SUFFICES ASSUME NEW x, x.num \in Int, x.den \in Nat \ {0}
                 PROVE  SecondsToNs(x, FALSE) \in Int /\ SecondsToNs(x, TRUE) \in Int
        OBVIOUS
    <2>1. x.num * NsPerSecond \in Int
        BY NsAssumption
    <2>2. (x.num * NsPerSecond) \div x.den \in Int
        BY <1>2, <2>1
    <2>. QED  BY <2>2 DEF SecondsToNs
<1>4. p.kind # "holds_throughout" =>
        0 < p.min_fraction.num /\ p.min_fraction.num <= p.min_fraction.den
    BY <1>1 DEF ProfileAccepted, CHECK_KINDS, FractionAccepted, AtLeast, Seconds
<1>5. /\ SecondsToNs(p.window.start, FALSE) \in Int
      /\ SecondsToNs(p.window.end, TRUE) \in Int
    BY <1>1, <1>3
<1> DEFINE check == LoadedCheck(p)
<1>6. /\ check.kind = p.kind /\ check.min_fraction = p.min_fraction
      /\ check.start = SecondsToNs(p.window.start, FALSE)
      /\ check.end = SecondsToNs(p.window.end, TRUE)
    BY DEF LoadedCheck
<1> HIDE DEF check
<1>7. /\ p.min_fraction.num \in Int /\ p.min_fraction.den \in Int
      /\ p.kind # "holds_throughout" =>
           0 < p.min_fraction.num /\ p.min_fraction.num <= p.min_fraction.den
    BY <1>1, <1>4
<1>8. CheckOK(check)
    BY <1>5, <1>6, <1>7, Zenon DEF CheckOK
<1>. QED  BY <1>8 DEF check

\* The result of a refused assessment decides nothing.
LEMMA RefusedIsWeakest ==
    ASSUME NEW f
    PROVE  Weaker(Refused, f)
BY DEF Refused, Weaker

\* Every step that loses a record leaves the report undecided or as it was
\* (docs/assess.md, the epistemic invariant).
THEOREM DeletionNeverDecidesThm == Spec => DeletionNeverDecides
<1>1. FileInv /\ FileInv' /\ [Next]_vars =>
        [Lost => /\ report'.result \in {"PASS", "FAIL"} => report.result = report'.result
                 /\ report'.known.true \subseteq report.known.true
                 /\ report'.known.false \subseteq report.known.false]_vars
    <2> SUFFICES ASSUME FileInv, FileInv', Next, Lost
                 PROVE  Weaker(report', report)
        BY DEF Weaker, Lost, vars
    <2>1. ~Append
        <3> SUFFICES ASSUME Append PROVE FALSE
            OBVIOUS
        <3>1. PICK line \in Lines[profile.signal.source] :
                file' = [s \in DOMAIN file \cup {line.seq} |->
                           IF s = line.seq THEN line ELSE file[s]]
            BY DEF Append
        <3>2. DOMAIN file \subseteq DOMAIN file'
            BY <3>1
        <3>. QED  BY <3>2 DEF Lost
    <2>2. ~Tear /\ ~Trim
        BY DEF Lost, Tear, Trim
    <2>3. Delete
        BY <2>1, <2>2 DEF Next
    <2>4. /\ UNCHANGED <<profile, torn>>
          /\ Remains(file, file')
        <3>1. PICK s \in DOMAIN file : file' = [r \in DOMAIN file \ {s} |-> file[r]]
            BY <2>3 DEF Delete
        <3>2. DOMAIN file \subseteq Nat \ {0}
            BY DEF FileInv
        <3>3. UNCHANGED <<profile, torn>>
            BY <2>3 DEF Delete
        <3>. QED  BY <3>1, <3>2, <3>3 DEF Remains, Sequences
    <2>5. report = Assess(file, torn, profile) /\ report' = Assess(file', torn, profile)
        BY <2>4 DEF FileInv
    <2>6. CASE ProfileAccepted(profile) /\ EvidenceAccepted(file', torn)
        <3>1. DOMAIN file' # {} /\ ~torn
            BY <2>6 DEF EvidenceAccepted
        <3>2. EvidenceAccepted(file, torn)
            BY <3>1 DEF EvidenceAccepted, Lost
        <3>3. CheckOK(LoadedCheck(profile))
            BY <2>6, LoadedCheckOK DEF FileInv
        <3>4. \A s \in DOMAIN file' : file'[s].t \in Int
            BY DEF FileInv
        <3>5. Weaker(evaluate(file', LoadedHold(profile), profile.signal, LoadedCheck(profile)),
                     evaluate(file, LoadedHold(profile), profile.signal, LoadedCheck(profile)))
            BY <2>4, <3>3, <3>4, DeletionIsMonotone
        <3>. QED  BY <2>5, <2>6, <3>2, <3>5 DEF Assess
    <2>7. CASE ~(ProfileAccepted(profile) /\ EvidenceAccepted(file', torn))
        BY <2>5, <2>7, RefusedIsWeakest DEF Assess
    <2>. QED  BY <2>6, <2>7
<1>. QED  BY <1>1, FileInvariant, PTL DEF Spec, DeletionNeverDecides

\* Lines behind the terminal record of the run do not change the report.
THEOREM ClosedRunIsFinalThm == Spec => ClosedRunIsFinal
<1>1. FileInv /\ FileInv' /\ [Next]_vars =>
        [Grown /\ Closed => report' = report]_vars
    <2> SUFFICES ASSUME FileInv, FileInv', Next, Grown, Closed
                 PROVE  report' = report
        BY DEF Grown, vars
    <2>1. Append
        BY DEF Next, Grown, Tear, Trim, Delete
    <2>2. PICK line \in Lines[profile.signal.source] :
            /\ ~torn
            /\ line.seq = written + 1
            /\ file' = [s \in DOMAIN file \cup {line.seq} |->
                          IF s = line.seq THEN line ELSE file[s]]
            /\ UNCHANGED <<profile, torn>>
        BY <2>1 DEF Append
    <2> DEFINE n == Run(file).terminal
    <2>3. Sequences(file) /\ Sequences(file')
        BY DEF FileInv, Sequences
    <2>4. n # 0 /\ n \in DOMAIN file
        BY <2>3, RunFinds DEF Closed
    <2>5. n \in 1 .. written /\ written \in Nat
        BY <2>4 DEF FileInv
    <2> HIDE DEF n
    <2>6. \A s \in DOMAIN file' : s <= n => s \in DOMAIN file
        BY <2>2, <2>5
    <2>7. /\ DOMAIN file \subseteq DOMAIN file'
          /\ \A s \in DOMAIN file : file'[s] = file[s]
        <3>1. \A s \in DOMAIN file : s # line.seq
            BY <2>2 DEF FileInv
        <3>. QED  BY <2>2, <3>1
    <2>8. Extends(file', file, n)
        BY <2>3, <2>6, <2>7 DEF Extends
    <2>9. evaluate(file', LoadedHold(profile), profile.signal, LoadedCheck(profile))
          = evaluate(file, LoadedHold(profile), profile.signal, LoadedCheck(profile))
        BY <2>4, <2>8, ReadsOnlyTheSlice DEF n
    <2>10. EvidenceAccepted(file, torn) /\ EvidenceAccepted(file', torn)
        BY <2>2, <2>4, <2>7 DEF EvidenceAccepted
    <2>11. report = Assess(file, torn, profile) /\ report' = Assess(file', torn, profile)
        BY <2>2 DEF FileInv
    <2>. QED  BY <2>9, <2>10, <2>11 DEF Assess
<1>. QED  BY <1>1, FileInvariant, PTL DEF Spec, ClosedRunIsFinal
-----------------------------------------------------------------------------
(* What a known instant rests on.                                          *)

\* Intervals in the right order, and no two attempts begun by one record.
AttemptsOK(atts) ==
    /\ \A a \in atts : /\ a.first \in Nat /\ a.start \in Int /\ a.end \in Int
                       /\ a.start <= a.end
    /\ \A a, b \in atts : a.first = b.first => a = b

\* A file of which the engine can compare the times.
Timed(ev) ==
    /\ Sequences(ev) /\ IsFiniteSet(DOMAIN ev)
    /\ \A s \in DOMAIN ev : ev[s].t \in Int /\ ev[s].observed \in Int

\* The one member of a set of one sequence number.
LEMMA LeastOfOne ==
    ASSUME NEW S \in SUBSET Nat, IsFiniteSet(S), Cardinality(S) = 1
    PROVE  Least(S) \in S
<1>1. S # {}
    BY FS_EmptySet
<1>. QED  BY <1>1, LeastExists

\* Each observation of a PrusaLink source is an attempt of its own
\* (observations.py).
LEMMA PrusalinkAttemptsOK ==
    ASSUME NEW ev, Timed(ev), NEW mine \in SUBSET DOMAIN ev, NEW signal
    PROVE  AttemptsOK(PrusalinkAttempts(ev, mine, signal))
<1>1. \A s \in mine : s \in Nat /\ ev[s].t \in Int /\ ev[s].observed \in Int
    BY DEF Timed, Sequences
<1>2. \A s \in mine :
        LET a == ObservationAttempt(ev, s, signal)
        IN  /\ a.first = s /\ a.start \in Int /\ a.end \in Int /\ a.start <= a.end
    <2> SUFFICES ASSUME NEW s \in mine
                 PROVE  LET a == ObservationAttempt(ev, s, signal)
                        IN  /\ a.first = s /\ a.start \in Int /\ a.end \in Int
                            /\ a.start <= a.end
        OBVIOUS
    <2>1. CASE ev[s].observed < 0 \/ ev[s].observed > ev[s].t
        BY <1>1, <2>1 DEF ObservationAttempt, PointAttempt
    <2>2. CASE ~(ev[s].observed < 0 \/ ev[s].observed > ev[s].t)
        <3>1. ev[s].observed <= ev[s].t
            BY <1>1, <2>2
        <3>. QED  BY <1>1, <2>2, <3>1 DEF ObservationAttempt
    <2>. QED  BY <2>1, <2>2
<1>3. \A a \in PrusalinkAttempts(ev, mine, signal) :
        \E s \in mine : a = ObservationAttempt(ev, s, signal)
    BY DEF PrusalinkAttempts
<1>. QED  BY <1>1, <1>2, <1>3 DEF AttemptsOK

\* Requests and completions are paired by an id that both alone carry, so no
\* record begins two attempts (observations.py).
LEMMA DragonAttemptsOK ==
    ASSUME NEW ev, Timed(ev), NEW mine \in SUBSET DOMAIN ev, NEW signal
    PROVE  AttemptsOK(DragonAttempts(ev, mine, signal))
<1> DEFINE here == {s \in mine : /\ ev[s].channel = signal.channel
                                 /\ ev[s].kind \in DRAGON_COMPLETIONS \cup {"http_request"}}
           opened(i) == {s \in here : ev[s].id = i /\ ev[s].kind = "http_request"}
           closed(i) == {s \in here : ev[s].id = i /\ ev[s].kind \in DRAGON_COMPLETIONS}
           paired == {i \in {ev[s].id : s \in here} \ {NoId} :
                        Cardinality(opened(i)) = 1 /\ Cardinality(closed(i)) = 1}
           atts == DragonAttempts(ev, mine, signal)
<1>1. \A a \in atts : \/ \E s \in here : ev[s].id \notin paired /\ a = PointAttempt(ev, s)
                      \/ \E i \in paired :
                           a = PairedAttempt(ev, Least(opened(i)), Least(closed(i)), signal)
    BY DEF DragonAttempts
<1>2. \A s \in here : s \in Nat /\ ev[s].t \in Int
    BY DEF Timed, Sequences
<1>3. \A i \in paired : Least(opened(i)) \in opened(i) /\ Least(closed(i)) \in closed(i)
    <2> SUFFICES ASSUME NEW i \in paired
                 PROVE  Least(opened(i)) \in opened(i) /\ Least(closed(i)) \in closed(i)
        OBVIOUS
    <2>1. opened(i) \subseteq DOMAIN ev /\ closed(i) \subseteq DOMAIN ev
        OBVIOUS
    <2>2. /\ IsFiniteSet(opened(i)) /\ IsFiniteSet(closed(i))
          /\ opened(i) \in SUBSET Nat /\ closed(i) \in SUBSET Nat
        BY <2>1, FS_Subset DEF Timed, Sequences
    <2>3. Cardinality(opened(i)) = 1 /\ Cardinality(closed(i)) = 1
        OBVIOUS
    <2> HIDE DEF opened, closed
    <2>. QED  BY <2>2, <2>3, LeastOfOne
<1>4. \A i \in paired : /\ Least(opened(i)) \in here /\ ev[Least(opened(i))].id = i
                        /\ Least(closed(i)) \in here
    BY <1>3
<1> DEFINE pair(i) == PairedAttempt(ev, Least(opened(i)), Least(closed(i)), signal)
<1>5. \A s \in here : LET a == PointAttempt(ev, s)
                      IN  /\ a.first = s /\ a.start \in Int /\ a.end \in Int
                          /\ a.start <= a.end
    BY <1>2 DEF PointAttempt
<1>6. \A r, d \in here : LET a == PairedAttempt(ev, r, d, signal)
                         IN  /\ a.first = r /\ a.start \in Int /\ a.end \in Int
                             /\ a.start <= a.end
    <2> HIDE DEF here
    <2> SUFFICES ASSUME NEW r \in here, NEW d \in here
                 PROVE  LET a == PairedAttempt(ev, r, d, signal)
                        IN  /\ a.first = r /\ a.start \in Int /\ a.end \in Int
                            /\ a.start <= a.end
        OBVIOUS
    <2>1. ev[r].t \in Int /\ ev[d].t \in Int
        BY <1>2
    <2>2. Lesser(ev[r].t, ev[d].t) \in Int
        BY <2>1 DEF Lesser
    <2>3. CASE d > r /\ ev[d].t >= ev[r].t
        BY <2>1, <2>3 DEF PairedAttempt
    <2>4. CASE ~(d > r /\ ev[d].t >= ev[r].t)
        BY <2>2, <2>4 DEF PairedAttempt
    <2>. QED  BY <2>3, <2>4
<1>7. \A a \in atts : \E s \in here : /\ a.first = s /\ a.start \in Int /\ a.end \in Int
                                      /\ a.start <= a.end
    <2> HIDE DEF here, paired, opened, closed, atts
    <2>. QED  BY <1>1, <1>4, <1>5, <1>6
<1>8. ASSUME NEW a \in atts, NEW b \in atts, a.first = b.first
      PROVE  a = b
    <2> HIDE DEF here, paired, opened, closed, atts
    <2>1. CASE \E s \in here : ev[s].id \notin paired /\ a = PointAttempt(ev, s)
        BY <1>1, <1>4, <1>5, <1>6, <1>8, <2>1
    <2>2. CASE \E i \in paired : a = pair(i)
        BY <1>1, <1>4, <1>5, <1>6, <1>8, <2>2
    <2>. QED  BY <1>1, <1>8, <2>1, <2>2
<1>9. \A a \in atts : a.first \in Nat
    BY <1>2, <1>7
<1> HIDE DEF here, paired, opened, closed, atts
<1>10. AttemptsOK(atts)
    BY <1>7, <1>8, <1>9 DEF AttemptsOK
<1>. QED  BY <1>10 DEF atts

\* The attempts of both kinds of source.
LEMMA AttemptsAreOK ==
    ASSUME NEW ev, Timed(ev), NEW mine \in SUBSET DOMAIN ev, NEW signal
    PROVE  AttemptsOK(attempts_for(ev, mine, signal))
BY PrusalinkAttemptsOK, DragonAttemptsOK DEF attempts_for

\* The attempt that follows another is the first of the later ones.
LEMMA FollowingIs ==
    ASSUME NEW atts, AttemptsOK(atts), NEW a \in atts, Later(atts, a) # {}
    PROVE  /\ Following(atts, a) \in Later(atts, a)
           /\ \A c \in Later(atts, a) : Following(atts, a).first <= c.first
<1> DEFINE firsts == {c.first : c \in Later(atts, a)}
<1>1. firsts \in SUBSET Nat /\ firsts # {}
    BY DEF AttemptsOK, Later
<1>2. Least(firsts) \in firsts /\ \A r \in firsts : Least(firsts) <= r
    BY <1>1, LeastExists
<1>3. PICK b \in Later(atts, a) : b.first = Least(firsts)
    BY <1>2
<1>4. \A c \in Later(atts, a) : b.first <= c.first
    BY <1>2, <1>3
<1>. QED  BY <1>4 DEF Following

\* Piece p is the interval of the attempt that follows the held attempt a.
During(atts, predicate, hold, horizon, a, p) ==
    /\ Later(atts, a) # {}
    /\ p.from = Following(atts, a).start
    /\ p.to = Lesser(Following(atts, a).end, HeldUntil(a, hold, horizon))
    /\ p.truth = Combine(Truth(a, predicate), Truth(Following(atts, a), predicate))

\* Piece p is the time behind the held attempt a.
Behind(atts, predicate, hold, horizon, a, p) ==
    /\ p.from = a.end
    /\ p.to = Lesser(IF Later(atts, a) = {} THEN horizon ELSE Following(atts, a).start,
                     HeldUntil(a, hold, horizon))
    /\ p.truth = Truth(a, predicate)

\* Every piece of the timeline comes from a held attempt (engine._pieces).
LEMMA PiecesAre ==
    ASSUME NEW ev, NEW atts, NEW predicate, NEW hold, NEW horizon, NEW terminal,
           NEW p \in Pieces(ev, atts, predicate, hold, horizon, terminal)
    PROVE  \E a \in atts :
             /\ holdable(ev, atts, a, hold, terminal)
             /\ \/ During(atts, predicate, hold, horizon, a, p)
                \/ Behind(atts, predicate, hold, horizon, a, p)
BY DEF Pieces, During, Behind

\* A value persists over the instant after x if no later attempt can have been
\* made by then and its own was made, at the earliest, a hold before.
LEMMA LastPersists ==
    ASSUME NEW atts, AttemptsOK(atts), Sequential(atts),
           NEW at \in Instants(atts), NEW n \in atts, NEW x \in Int,
           NEW declared, declared.num \in Int, declared.den \in Nat \ {0},
           NEW hold \in Int, hold * declared.den <= declared.num * NsPerSecond,
           at[n] <= x, x + 1 <= at[n] + hold,
           \A b \in Later(atts, n) : x < at[b]
    PROVE  Persists(at, n, x, declared)
<1>1. /\ DOMAIN at = atts
      /\ \A a \in atts : /\ a.start \in Int /\ a.end \in Int
                         /\ at[a] \in Int /\ a.start <= at[a] /\ at[a] <= a.end
    <2>1. /\ at \in [atts -> UNION {a.start .. a.end : a \in atts}]
          /\ \A a \in atts : a.start <= at[a] /\ at[a] <= a.end
        BY DEF Instants
    <2>2. \A a \in atts : a.start \in Int /\ a.end \in Int
        BY DEF AttemptsOK
    <2>3. \A a \in atts : at[a] \in Int
        <3> SUFFICES ASSUME NEW a \in atts PROVE at[a] \in Int
            OBVIOUS
        <3>1. PICK b \in atts : at[a] \in b.start .. b.end
            BY <2>1
        <3>. QED  BY <2>2, <3>1
    <2>. QED  BY <2>1, <2>2, <2>3
<1>2. (x + 1 - at[n]) * declared.den <= declared.num * NsPerSecond
    <2>1. PICK d \in Nat \ {0} : d = declared.den
        OBVIOUS
    <2>2. PICK k \in Int : k = x + 1 - at[n]
        BY <1>1
    <2>3. k <= hold
        BY <1>1, <2>2
    <2>4. k * d <= hold * d
        BY <2>3
    <2>5. declared.num * NsPerSecond \in Int
        BY NsAssumption
    <2>6. k * d \in Int /\ hold * d \in Int
        OBVIOUS
    <2>. QED  BY <2>1, <2>2, <2>4, <2>5, <2>6
<1>3. ASSUME NEW b \in DOMAIN at \ {n}, at[b] <= x
      PROVE  at[b] < at[n] \/ (at[b] = at[n] /\ b.first < n.first)
    <2>1. b \in atts /\ at[b] \in Int /\ at[n] \in Int
        BY <1>1, <1>3
    <2>2. b \notin Later(atts, n)
        BY <1>3, <2>1
    <2>3. b.first \in Nat /\ n.first \in Nat /\ b.first # n.first
        BY <1>3, <2>1 DEF AttemptsOK
    <2>4. b.first < n.first
        BY <2>1, <2>2, <2>3 DEF Later
    <2>5. n \in Later(atts, b)
        BY <2>3, <2>4 DEF Later
    <2>6. n.start >= b.end
        BY <2>1, <2>5 DEF Sequential
    <2>7. at[b] <= b.end /\ n.start <= at[n] /\ b.end \in Int /\ n.start \in Int
        BY <1>1, <2>1
    <2>8. at[b] <= at[n]
        BY <2>1, <2>6, <2>7
    <2>9. at[b] < at[n] \/ at[b] = at[n]
        BY <2>1, <2>8
    <2>. QED  BY <2>4, <2>9
<1>. QED  BY <1>2, <1>3 DEF Persists

\* An instant in a piece of the timeline has the truth of an attempt whose value
\* persists then, whenever in their intervals the samples were taken.
LEMMA PiecePersists ==
    ASSUME NEW ev, NEW atts, NEW predicate, NEW hold \in Int, NEW horizon \in Int,
           NEW terminal, AttemptsOK(atts), Sequential(atts),
           NEW at \in Instants(atts), NEW x \in Int,
           NEW declared, declared.num \in Int, declared.den \in Nat \ {0},
           hold * declared.den <= declared.num * NsPerSecond,
           NEW p \in Pieces(ev, atts, predicate, hold, horizon, terminal),
           p.from <= x, x < p.to, p.truth \in {"true", "false"}
    PROVE  \E a \in atts : Truth(a, predicate) = p.truth /\ Persists(at, a, x, declared)
<1>1. \A a \in atts : /\ a.start \in Int /\ a.end \in Int /\ a.first \in Nat
                      /\ a.start <= a.end
    BY DEF AttemptsOK
<1>2. \A a \in atts : at[a] \in Int /\ a.start <= at[a] /\ at[a] <= a.end
    <2>1. /\ at \in [atts -> UNION {a.start .. a.end : a \in atts}]
          /\ \A a \in atts : a.start <= at[a] /\ at[a] <= a.end
        BY DEF Instants
    <2> SUFFICES ASSUME NEW a \in atts PROVE at[a] \in Int
        BY <2>1
    <2>2. PICK b \in atts : at[a] \in b.start .. b.end
        BY <2>1
    <2>. QED  BY <1>1, <2>2
<1>3. PICK a \in atts :
        /\ holdable(ev, atts, a, hold, terminal)
        /\ \/ During(atts, predicate, hold, horizon, a, p)
           \/ Behind(atts, predicate, hold, horizon, a, p)
    BY PiecesAre
<1> DEFINE n == Following(atts, a)
<1>4. a.start + hold \in Int /\ HeldUntil(a, hold, horizon) \in Int
      /\ HeldUntil(a, hold, horizon) <= a.start + hold
    BY <1>1 DEF HeldUntil, Lesser
<1>5. Later(atts, a) # {} =>
        /\ n \in atts /\ n.start >= a.end
        /\ n \in Later(atts, a)
        /\ \A b \in Later(atts, a) : b = n \/ b \in Later(atts, n)
        /\ \A b \in Later(atts, n) : b \in atts /\ b.start >= n.end
    <2> SUFFICES ASSUME Later(atts, a) # {}
                 PROVE  /\ n \in atts /\ n.start >= a.end
                        /\ n \in Later(atts, a)
                        /\ \A b \in Later(atts, a) : b = n \/ b \in Later(atts, n)
                        /\ \A b \in Later(atts, n) : b \in atts /\ b.start >= n.end
        OBVIOUS
    <2>1. n \in Later(atts, a) /\ \A c \in Later(atts, a) : n.first <= c.first
        BY FollowingIs
    <2>2. n \in atts /\ n.start >= a.end
        BY <1>3, <2>1 DEF holdable, Later
    <2> HIDE DEF n
    <2>3. ASSUME NEW b \in Later(atts, a) PROVE b = n \/ b \in Later(atts, n)
        <3>1. b \in atts /\ n.first <= b.first
            BY <2>1 DEF Later
        <3>2. b.first = n.first => b = n
            BY <2>2, <3>1 DEF AttemptsOK
        <3>. QED  BY <1>1, <2>2, <3>1, <3>2 DEF Later
    <2>4. \A b \in Later(atts, n) : b \in atts /\ b.start >= n.end
        BY <2>2 DEF Later, Sequential
    <2>. QED  BY <2>1, <2>2, <2>3, <2>4
<1> HIDE DEF n
<1>6. CASE Behind(atts, predicate, hold, horizon, a, p)
    <2>0. /\ p.from = a.end
          /\ p.to = Lesser(IF Later(atts, a) = {} THEN horizon ELSE n.start,
                           HeldUntil(a, hold, horizon))
          /\ p.truth = Truth(a, predicate)
        BY <1>6 DEF Behind, n
    <2>1. /\ p.to <= HeldUntil(a, hold, horizon)
          /\ Later(atts, a) # {} => p.to <= n.start
        <3>1. Later(atts, a) # {} => n.start \in Int
            BY <1>1, <1>5
        <3>. QED  BY <1>4, <2>0, <3>1 DEF Lesser
    <2>2. at[a] <= x /\ x + 1 <= at[a] + hold
        <3>1. p.to \in Int
            BY <1>1, <1>4, <1>5, <2>0 DEF Lesser
        <3>2. x < a.start + hold
            BY <1>4, <2>1, <3>1
        <3>. QED  BY <1>1, <1>2, <2>0, <3>2
    <2>3. ASSUME NEW b \in Later(atts, a) PROVE x < at[b]
        <3>1. n \in atts /\ b \in atts /\ (b = n \/ b.start >= n.end)
            BY <1>5, <2>3 DEF Later
        <3>2. n.start \in Int /\ n.end \in Int /\ n.start <= n.end
              /\ b.start \in Int /\ at[b] \in Int /\ b.start <= at[b]
            BY <1>1, <1>2, <3>1
        <3>3. p.to \in Int /\ x < n.start
            BY <1>1, <1>4, <2>0, <2>1, <2>3, <3>2 DEF Lesser
        <3>. QED  BY <3>1, <3>2, <3>3
    <2>4. Persists(at, a, x, declared)
        BY <2>2, <2>3, LastPersists
    <2>. QED  BY <2>0, <2>4
<1>7. CASE During(atts, predicate, hold, horizon, a, p)
    <2>0. /\ Later(atts, a) # {}
          /\ p.from = n.start
          /\ p.to = Lesser(n.end, HeldUntil(a, hold, horizon))
          /\ p.truth = Combine(Truth(a, predicate), Truth(n, predicate))
        BY <1>7 DEF During, n
    <2>1. Truth(a, predicate) = p.truth /\ Truth(n, predicate) = p.truth
        BY <2>0 DEF Combine
    <2>2. /\ n \in atts /\ n.start \in Int /\ n.end \in Int /\ n.start >= a.end
          /\ at[n] \in Int /\ n.start <= at[n]
        BY <1>1, <1>2, <1>5, <2>0
    <2>3. x < n.end /\ x < a.start + hold
        <3>1. p.to <= n.end /\ p.to <= HeldUntil(a, hold, horizon) /\ p.to \in Int
            BY <1>4, <2>0, <2>2 DEF Lesser
        <3>. QED  BY <1>4, <2>2, <3>1
    <2>4. ASSUME NEW b \in Later(atts, n) PROVE x < at[b]
        <3>1. b \in atts /\ b.start >= n.end
            BY <1>5, <2>0, <2>4
        <3>2. b.start \in Int /\ at[b] \in Int /\ b.start <= at[b]
            BY <1>1, <1>2, <3>1
        <3>. QED  BY <2>2, <2>3, <3>1, <3>2
    <2>5. CASE at[n] <= x
        <3>1. x + 1 <= at[n] + hold
            BY <1>1, <2>2, <2>3
        <3>2. Persists(at, n, x, declared)
            BY <2>2, <2>4, <2>5, <3>1, LastPersists
        <3>. QED  BY <2>1, <2>2, <3>2
    <2>6. CASE x < at[n]
        <3>1. at[a] <= x /\ x + 1 <= at[a] + hold
            BY <1>1, <1>2, <2>0, <2>2, <2>3
        <3>2. \A b \in Later(atts, a) : x < at[b]
            BY <1>5, <2>0, <2>4, <2>6
        <3>3. Persists(at, a, x, declared)
            BY <3>1, <3>2, LastPersists
        <3>. QED  BY <2>1, <3>3
    <2>. QED  BY <2>2, <2>5, <2>6
<1>. QED  BY <1>3, <1>6, <1>7

\* The hold of an accepted profile is rounded down.
LEMMA HoldRoundsDown ==
    ASSUME NEW p \in Profiles
    PROVE  /\ p.hold.num \in Int /\ p.hold.den \in Nat \ {0}
           /\ LoadedHold(p) \in Int
           /\ LoadedHold(p) * p.hold.den <= p.hold.num * NsPerSecond
<1>1. p.hold.num \in Int /\ p.hold.den \in Nat \ {0}
    BY ProfilesAssumption
<1>2. PICK scaled \in Int : scaled = p.hold.num * NsPerSecond
    BY <1>1, NsAssumption
<1>3. PICK d \in Nat \ {0} : d = p.hold.den
    BY <1>1
<1>4. PICK q \in Int : q = scaled \div d
    OBVIOUS
<1>5. PICK r \in 0..(d - 1) : r = scaled % d
    OBVIOUS
<1>6. scaled = d * q + r
    BY <1>4, <1>5
<1>7. d * q = q * d /\ q * d \in Int
    OBVIOUS
<1>8. q * d <= scaled
    BY <1>6, <1>7
<1>9. LoadedHold(p) = q
    BY <1>2, <1>3, <1>4 DEF LoadedHold, SecondsToNs
<1>. QED  BY <1>1, <1>2, <1>3, <1>8, <1>9

\* What evaluate() finds, for every file, profile and moment of the samples.
LEMMA FindingPersists ==
    ASSUME NEW ev, Timed(ev), NEW p \in Profiles, NEW check, CheckOK(check)
    PROVE  LET f     == evaluate(ev, LoadedHold(p), p.signal, check)
               atts  == {j.attempt : j \in f.attempts}
           IN Sequential(atts) =>
                \A truth \in {"true", "false"} :
                  \A x \in f.known[truth], at \in Instants(atts) :
                    \E j \in f.attempts : /\ j.truth = truth
                                          /\ Persists(at, j.attempt, x, p.hold)
<1> DEFINE hold == LoadedHold(p)
           f    == evaluate(ev, hold, p.signal, check)
           run  == Run(ev)
           n    == run.terminal
           low  == ev[run.started].t + check.start
           high == IF check.end = 0 THEN ev[n].t ELSE ev[run.started].t + check.end
<1>1. CASE run.problem # "none" \/ n = 0 \/ high <= low
    <2>1. \E problem : f = Undecided(problem)
        BY <1>1 DEF evaluate
    <2>2. f.known = [true |-> {}, false |-> {}]
        BY <2>1 DEF Undecided
    <2> HIDE DEF f
    <2>3. \A truth \in {"true", "false"} : f.known[truth] = {}
        BY <2>2
    <2>. QED  BY <2>3 DEF f
<1>2. CASE ~(run.problem # "none" \/ n = 0 \/ high <= low)
    <2> DEFINE part == Slice(ev, n)
               mine == RunRecords(part, run.started, n)
               atts == attempts_for(part, mine, p.signal)
               gap  == Incomplete(part, run.started, n)
               truth(a) == IF gap THEN "unknown" ELSE Truth(a, check.predicate)
               horizon == part[n].t
               pieces == IF gap THEN {}
                         ELSE Pieces(part, atts, check.predicate, hold, horizon, n)
    <2>1. f = Judge(part, run.started, n, low, high, hold, p.signal, check)
        BY <1>2 DEF evaluate
    <2>2. /\ f.attempts = {[attempt |-> a, truth |-> truth(a)] : a \in atts}
          /\ f.known = [true |-> Integrate(pieces, low, high, "true"),
                        false |-> Integrate(pieces, low, high, "false")]
        <3> HIDE DEF part, low, high, hold, run, n, f
        <3>. QED  BY <2>1 DEF Judge
    <2>3. run.started \in DOMAIN ev /\ n \in DOMAIN ev
        BY <1>2, RunFinds DEF Timed
    <2>4. n \in Nat /\ low \in Int /\ high \in Int /\ horizon \in Int
        <3>1. ev[run.started].t \in Int /\ ev[n].t \in Int /\ n \in Nat
            BY <2>3 DEF Timed, Sequences
        <3>2. part[n].t = ev[n].t
            BY <2>3, <3>1 DEF Slice
        <3>. QED  BY <3>1, <3>2 DEF CheckOK
    <2>5. Timed(part) /\ mine \in SUBSET DOMAIN part
        <3>1. DOMAIN part \subseteq DOMAIN ev /\ \A s \in DOMAIN part : part[s] = ev[s]
            BY DEF Slice
        <3>2. mine \in SUBSET DOMAIN part
            BY DEF RunRecords
        <3> HIDE DEF part, mine
        <3>. QED  BY <3>1, <3>2, FS_Subset DEF Timed, Sequences
    <2>6. AttemptsOK(atts)
        BY <2>5, AttemptsAreOK
    <2> HIDE DEF f, low, high, part, mine, atts, horizon, n, run, hold, pieces, gap
    <2>7. {j.attempt : j \in f.attempts} = atts
        <3> HIDE DEF truth
        <3>1. \A a \in atts : \E j \in f.attempts : j.attempt = a
            <4> SUFFICES ASSUME NEW a \in atts PROVE \E j \in f.attempts : j.attempt = a
                OBVIOUS
            <4>1. [attempt |-> a, truth |-> truth(a)] \in f.attempts
                BY <2>2
            <4>2. [attempt |-> a, truth |-> truth(a)].attempt = a
                OBVIOUS
            <4>. QED  BY <4>1, <4>2
        <3>2. \A j \in f.attempts : j.attempt \in atts
            BY <2>2
        <3>. QED  BY <3>1, <3>2
    <2>8. ASSUME Sequential(atts), NEW value \in {"true", "false"},
                 NEW x \in f.known[value], NEW at \in Instants(atts)
          PROVE  \E j \in f.attempts : j.truth = value /\ Persists(at, j.attempt, x, p.hold)
        <3>1. x \in Integrate(pieces, low, high, value)
            BY <2>2, <2>8
        <3>2. PICK piece \in pieces :
                x \in Int /\ piece.from <= x /\ x < piece.to /\ piece.truth = value
            <4>1. x \in low .. (high - 1)
                BY <3>1 DEF Integrate
            <4>2. \E piece \in pieces : piece.from <= x /\ x < piece.to /\ piece.truth = value
                BY <3>1 DEF Integrate
            <4>. QED  BY <2>4, <4>1, <4>2
        <3>3. ~gap /\ piece \in Pieces(part, atts, check.predicate, hold, horizon, n)
            BY <3>2 DEF pieces
        <3>4. /\ p.hold.num \in Int /\ p.hold.den \in Nat \ {0} /\ hold \in Int
              /\ hold * p.hold.den <= p.hold.num * NsPerSecond
            BY HoldRoundsDown DEF hold
        <3>5. PICK a \in atts : /\ Truth(a, check.predicate) = value
                                /\ Persists(at, a, x, p.hold)
            BY <2>4, <2>6, <2>8, <3>2, <3>3, <3>4, PiecePersists
        <3>6. truth(a) = value
            BY <3>3, <3>5
        <3> HIDE DEF truth
        <3>7. [attempt |-> a, truth |-> truth(a)] \in f.attempts
            BY <2>2
        <3>. QED  BY <3>5, <3>6, <3>7
    <2>. QED  BY <2>7, <2>8 DEF f, hold
<1>. QED  BY <1>1, <1>2

-----------------------------------------------------------------------------
(* What a decision rests on.                                               *)

\* The known instants of a window are finitely many, none is known both ways,
\* and together they are no more than the window is long.
LEMMA KnownTimes ==
    ASSUME NEW pieces, NEW low \in Int, NEW high \in Int, low < high
    PROVE  LET trueTime  == Integrate(pieces, low, high, "true")
               falseTime == Integrate(pieces, low, high, "false")
           IN  /\ Cardinality(trueTime) \in Nat /\ Cardinality(falseTime) \in Nat
               /\ Cardinality(trueTime) + Cardinality(falseTime) <= high - low
               /\ Cardinality(trueTime) = 0 <=> trueTime = {}
               /\ Cardinality(falseTime) = 0 <=> falseTime = {}
<1> DEFINE trueTime  == Integrate(pieces, low, high, "true")
           falseTime == Integrate(pieces, low, high, "false")
           window    == low .. (high - 1)
<1>1. trueTime \subseteq window /\ falseTime \subseteq window
    BY DEF Integrate
<1>2. trueTime \cap falseTime = {}
    BY DEF Integrate
<1>3. IsFiniteSet(window) /\ Cardinality(window) = high - low
    <2>1. high - 1 \in Int /\ ~(low > high - 1) /\ (high - 1) - low + 1 = high - low
        OBVIOUS
    <2>. QED  BY <2>1, FS_Interval
<1> HIDE DEF trueTime, falseTime, window
<1>4. IsFiniteSet(trueTime) /\ IsFiniteSet(falseTime)
    BY <1>1, <1>3, FS_Subset
<1>5. /\ Cardinality(trueTime) \in Nat /\ Cardinality(falseTime) \in Nat
      /\ Cardinality(trueTime) = 0 <=> trueTime = {}
      /\ Cardinality(falseTime) = 0 <=> falseTime = {}
    BY <1>4, FS_CardinalityType, FS_EmptySet
<1>6. Cardinality(trueTime \cup falseTime) = Cardinality(trueTime) + Cardinality(falseTime)
    <2>1. Cardinality(trueTime \cap falseTime) = 0
        BY <1>2, FS_EmptySet
    <2>2. Cardinality(trueTime \cup falseTime)
          = Cardinality(trueTime) + Cardinality(falseTime) - Cardinality(trueTime \cap falseTime)
        BY <1>4, FS_Union
    <2>. QED  BY <1>5, <2>1, <2>2
<1>7. Cardinality(trueTime \cup falseTime) <= Cardinality(window)
    BY <1>1, <1>3, FS_Subset
<1>. QED  BY <1>3, <1>5, <1>6, <1>7 DEF trueTime, falseTime

\* A known truth comes from an attempt with a usable value.
LEMMA KnownIsObserved ==
    ASSUME NEW ev, NEW atts, AttemptsOK(atts), NEW predicate, NEW hold, NEW horizon,
           NEW terminal, NEW low, NEW high, NEW truth \in {"true", "false"},
           Integrate(Pieces(ev, atts, predicate, hold, horizon, terminal),
                     low, high, truth) # {}
    PROVE  \E a \in atts : a.valid /\ Truth(a, predicate) = truth
<1>1. PICK p \in Pieces(ev, atts, predicate, hold, horizon, terminal) : p.truth = truth
    BY DEF Integrate
<1>2. PICK a \in atts :
        /\ holdable(ev, atts, a, hold, terminal)
        /\ \/ During(atts, predicate, hold, horizon, a, p)
           \/ Behind(atts, predicate, hold, horizon, a, p)
    BY PiecesAre
<1>3. Truth(a, predicate) = truth
    BY <1>1, <1>2 DEF During, Behind, Combine
<1>4. a.valid
    BY <1>2 DEF holdable
<1>. QED  BY <1>3, <1>4

\* Without a usable value there is no truth.
LEMMA InvalidIsUnknown ==
    ASSUME NEW a, NEW predicate, ~a.valid
    PROVE  Truth(a, predicate) = "unknown"
BY DEF Truth

\* A verdict over the whole window has unknown or false time if it decides
\* nothing, true time if it passes and a violation if it fails.
LEMMA HoldsIsEarned ==
    ASSUME NEW violations, NEW trueTime \in Nat, NEW falseTime \in Nat,
           NEW window \in Nat \ {0}, NEW unknown,
           unknown = window - trueTime - falseTime, trueTime + falseTime <= window,
           NEW holds, holds = HoldsVerdict(violations, trueTime, falseTime, unknown, window)
    PROVE  /\ holds = "INCONCLUSIVE" => unknown > 0 \/ falseTime > 0
           /\ holds = "PASS" => trueTime > 0
           /\ holds = "FAIL" => violations # {}
<1>1. unknown \in Nat
    OBVIOUS
<1>. QED  BY <1>1 DEF HoldsVerdict

\* A verdict over a fraction of the window has unknown time if it decides
\* nothing, true time if it passes and false time if it fails.
LEMMA BandIsEarned ==
    ASSUME NEW trueTime \in Nat, NEW falseTime \in Nat,
           NEW window \in Nat \ {0}, NEW unknown,
           unknown = window - trueTime - falseTime, trueTime + falseTime <= window,
           NEW min, min.num \in Int, min.den \in Int, 0 < min.num, min.num <= min.den,
           NEW band, band = BandVerdict(trueTime, falseTime, window, min)
    PROVE  /\ band = "INCONCLUSIVE" => unknown > 0
           /\ band = "PASS" => trueTime > 0
           /\ band = "FAIL" => falseTime > 0
<1>1. unknown \in Nat
    OBVIOUS
<1>2. PICK num \in Nat \ {0} : num = min.num
    OBVIOUS
<1>3. PICK den \in Nat \ {0} : den = min.den /\ num <= den
    BY <1>2
<1>4. band = IF trueTime * den >= num * window THEN "PASS"
             ELSE IF (window - falseTime) * den < num * window THEN "FAIL"
             ELSE "INCONCLUSIVE"
    BY <1>2, <1>3 DEF BandVerdict
<1>5. num * window > 0 /\ num * window <= window * den
    BY <1>2, <1>3
<1>6. CASE trueTime * den >= num * window
    <2>1. trueTime = 0 => trueTime * den = 0
        OBVIOUS
    <2>2. trueTime > 0
        BY <1>5, <1>6, <2>1
    <2>. QED  BY <1>4, <1>6, <2>2
<1>7. CASE ~(trueTime * den >= num * window) /\ (window - falseTime) * den < num * window
    <2>1. falseTime = 0 => (window - falseTime) * den = window * den
        OBVIOUS
    <2>2. falseTime > 0
        BY <1>5, <1>7, <2>1
    <2>. QED  BY <1>4, <1>7, <2>2
<1>8. CASE ~(trueTime * den >= num * window) /\ ~((window - falseTime) * den < num * window)
    <2>1. unknown = 0 => window - falseTime = trueTime
        OBVIOUS
    <2>2. unknown # 0
        BY <1>8, <2>1
    <2>. QED  BY <1>1, <1>4, <1>8, <2>2
<1>. QED  BY <1>6, <1>7, <1>8

\* What DecisionsAreGrounded says of a finding.
Grounded(f) ==
    /\ f.result = "INCONCLUSIVE" => f.reasons # {}
    /\ f.result = "PASS" => \E j \in f.attempts : j.attempt.valid /\ j.truth = "true"
    /\ f.result = "FAIL" => \E j \in f.attempts : j.attempt.valid /\ j.truth = "false"

\* A judged window with known time is grounded in an attempt, one without says
\* what is missing.
LEMMA JudgeIsGrounded ==
    ASSUME NEW ev, NEW started, NEW terminal, NEW low \in Int, NEW high \in Int,
           low < high, NEW hold, NEW signal, NEW check,
           check.kind # "holds_throughout" =>
             /\ check.min_fraction.num \in Int /\ check.min_fraction.den \in Int
             /\ 0 < check.min_fraction.num
             /\ check.min_fraction.num <= check.min_fraction.den,
           AttemptsOK(attempts_for(ev, RunRecords(ev, started, terminal), signal))
    PROVE  Grounded(Judge(ev, started, terminal, low, high, hold, signal, check))
<1> DEFINE horizon    == ev[terminal].t
           incomplete == Incomplete(ev, started, terminal)
           atts       == attempts_for(ev, RunRecords(ev, started, terminal), signal)
           truth(a)   == IF incomplete THEN "unknown" ELSE Truth(a, check.predicate)
           pieces     == IF incomplete THEN {}
                         ELSE Pieces(ev, atts, check.predicate, hold, horizon, terminal)
           trueTime   == Integrate(pieces, low, high, "true")
           falseTime  == Integrate(pieces, low, high, "false")
           unknown    == (high - low) - Cardinality(trueTime) - Cardinality(falseTime)
           near       == {a \in atts : a.end >= low /\ a.start <= high}
           inside(a)  == a.start >= low /\ a.end <= high
           violations == {a \in near : truth(a) = "false" /\ inside(a)}
           holds      == HoldsVerdict(violations, Cardinality(trueTime),
                                      Cardinality(falseTime), unknown, high - low)
           band       == BandVerdict(Cardinality(trueTime), Cardinality(falseTime),
                                     high - low, check.min_fraction)
           f          == Judge(ev, started, terminal, low, high, hold, signal, check)
<1>1. /\ f.result = IF check.kind = "holds_throughout" THEN holds ELSE band
      /\ f.attempts = {[attempt |-> a, truth |-> truth(a)] : a \in atts}
    BY DEF Judge
<1>2. f.result = "INCONCLUSIVE" =>
        /\ unknown > 0 => "coverage_incomplete" \in f.reasons
        /\ check.kind = "holds_throughout" /\ falseTime # {} => "held_violation" \in f.reasons
    BY DEF Judge
<1>3. \A a \in violations : a \in atts /\ truth(a) = "false"
    OBVIOUS
<1>4. \A a \in atts : truth(a) # "unknown" => a.valid
    BY InvalidIsUnknown
<1>5. ASSUME NEW value \in {"true", "false"}, Integrate(pieces, low, high, value) # {}
      PROVE  \E a \in atts : a.valid /\ truth(a) = value
    <2>1. ~incomplete
        BY <1>5 DEF Integrate
    <2>2. pieces = Pieces(ev, atts, check.predicate, hold, horizon, terminal)
        BY <2>1
    <2>3. \E a \in atts : a.valid /\ Truth(a, check.predicate) = value
        <3> HIDE DEF incomplete, atts, pieces, horizon
        <3>1. AttemptsOK(atts)
            BY DEF atts
        <3>. QED  BY <1>5, <2>2, <3>1, KnownIsObserved
    <2>. QED  BY <2>1, <2>3
<1>6. /\ Cardinality(trueTime) \in Nat /\ Cardinality(falseTime) \in Nat
      /\ Cardinality(trueTime) + Cardinality(falseTime) <= high - low
      /\ Cardinality(trueTime) = 0 <=> trueTime = {}
      /\ Cardinality(falseTime) = 0 <=> falseTime = {}
    <2> HIDE DEF pieces
    <2>. QED  BY KnownTimes
<1> DEFINE lengthTrue == Cardinality(trueTime)
           lengthFalse == Cardinality(falseTime)
           window == high - low
<1>7. /\ window \in Nat \ {0} /\ unknown = window - lengthTrue - lengthFalse
      /\ lengthTrue \in Nat /\ lengthFalse \in Nat /\ lengthTrue + lengthFalse <= window
      /\ lengthTrue > 0 => trueTime # {}
      /\ lengthFalse > 0 => falseTime # {}
    BY <1>6
<1>8. /\ holds = "INCONCLUSIVE" => unknown > 0 \/ falseTime # {}
      /\ holds = "PASS" => trueTime # {}
      /\ holds = "FAIL" => violations # {}
    <2>1. holds = HoldsVerdict(violations, lengthTrue, lengthFalse, unknown, window)
        OBVIOUS
    <2> HIDE DEF trueTime, falseTime, violations, window, lengthTrue, lengthFalse,
                 unknown, holds
    <2>2. /\ holds = "INCONCLUSIVE" => unknown > 0 \/ lengthFalse > 0
          /\ holds = "PASS" => lengthTrue > 0
          /\ holds = "FAIL" => violations # {}
        BY <1>7, <2>1, HoldsIsEarned
    <2>. QED  BY <1>7, <2>2
<1>9. check.kind # "holds_throughout" =>
        /\ band = "INCONCLUSIVE" => unknown > 0
        /\ band = "PASS" => trueTime # {}
        /\ band = "FAIL" => falseTime # {}
    <2> SUFFICES ASSUME check.kind # "holds_throughout"
                 PROVE  /\ band = "INCONCLUSIVE" => unknown > 0
                        /\ band = "PASS" => trueTime # {}
                        /\ band = "FAIL" => falseTime # {}
        OBVIOUS
    <2> DEFINE min == check.min_fraction
    <2>1. min.num \in Int /\ min.den \in Int /\ 0 < min.num /\ min.num <= min.den
        OBVIOUS
    <2>2. band = BandVerdict(lengthTrue, lengthFalse, window, min)
        OBVIOUS
    <2> HIDE DEF trueTime, falseTime, window, lengthTrue, lengthFalse, unknown, band, min
    <2>3. /\ band = "INCONCLUSIVE" => unknown > 0
          /\ band = "PASS" => lengthTrue > 0
          /\ band = "FAIL" => lengthFalse > 0
        BY <1>7, <2>1, <2>2, BandIsEarned
    <2>. QED  BY <1>7, <2>3
<1> HIDE DEF f, incomplete, atts, truth, pieces, trueTime, falseTime, unknown,
             violations, holds, band
<1>10. \A a \in atts : [attempt |-> a, truth |-> truth(a)] \in f.attempts
    BY <1>1
<1>11. ASSUME NEW value \in {"true", "false"},
              \E a \in atts : a.valid /\ truth(a) = value
       PROVE  \E j \in f.attempts : j.attempt.valid /\ j.truth = value
    <2>1. PICK a \in atts : a.valid /\ truth(a) = value
        BY <1>11
    <2> DEFINE j == [attempt |-> a, truth |-> truth(a)]
    <2>2. j.attempt = a /\ j.truth = value /\ j \in f.attempts
        BY <1>10, <2>1
    <2> HIDE DEF j
    <2>. QED  BY <2>1, <2>2
<1>12. f.result = "INCONCLUSIVE" => f.reasons # {}
    BY <1>1, <1>2, <1>8, <1>9
<1>13. f.result = "PASS" => \E j \in f.attempts : j.attempt.valid /\ j.truth = "true"
    <2>1. f.result = "PASS" => trueTime # {}
        BY <1>1, <1>8, <1>9
    <2>2. trueTime # {} => \E a \in atts : a.valid /\ truth(a) = "true"
        BY <1>5 DEF trueTime
    <2>. QED  BY <1>11, <2>1, <2>2
<1>14. f.result = "FAIL" => \E j \in f.attempts : j.attempt.valid /\ j.truth = "false"
    <2>1. f.result = "FAIL" => falseTime # {} \/ violations # {}
        BY <1>1, <1>8, <1>9
    <2>2. falseTime # {} => \E a \in atts : a.valid /\ truth(a) = "false"
        BY <1>5 DEF falseTime
    <2>3. violations # {} => \E a \in atts : a.valid /\ truth(a) = "false"
        BY <1>3, <1>4
    <2>. QED  BY <1>11, <2>1, <2>2, <2>3
<1>. QED  BY <1>12, <1>13, <1>14 DEF Grounded, f

\* What evaluate() finds, for every file and profile.
LEMMA FindingIsGrounded ==
    ASSUME NEW ev, Timed(ev), NEW hold, NEW signal, NEW check, CheckOK(check)
    PROVE  Grounded(evaluate(ev, hold, signal, check))
<1> DEFINE f    == evaluate(ev, hold, signal, check)
           run  == Run(ev)
           n    == run.terminal
           low  == ev[run.started].t + check.start
           high == IF check.end = 0 THEN ev[n].t ELSE ev[run.started].t + check.end
<1>1. CASE run.problem # "none" \/ n = 0 \/ high <= low
    <2>1. \E problem : f = Undecided(problem)
        BY <1>1 DEF evaluate
    <2> HIDE DEF f
    <2>2. f.result = "INCONCLUSIVE" /\ f.reasons # {}
        BY <2>1 DEF Undecided
    <2>. QED  BY <2>2 DEF Grounded, f
<1>2. CASE ~(run.problem # "none" \/ n = 0 \/ high <= low)
    <2> DEFINE part == Slice(ev, n)
    <2>1. f = Judge(part, run.started, n, low, high, hold, signal, check)
        BY <1>2 DEF evaluate
    <2>2. run.started \in DOMAIN ev /\ n \in DOMAIN ev
        BY <1>2, RunFinds DEF Timed
    <2>3. low \in Int /\ high \in Int /\ low < high
        <3>1. low \in Int /\ high \in Int
            <4>1. ev[run.started].t \in Int /\ ev[n].t \in Int
                BY <2>2 DEF Timed
            <4>. QED  BY <4>1 DEF CheckOK
        <3>. QED  BY <1>2, <3>1
    <2>4. AttemptsOK(attempts_for(part, RunRecords(part, run.started, n), signal))
        <3>1. DOMAIN part \subseteq DOMAIN ev /\ \A s \in DOMAIN part : part[s] = ev[s]
            BY DEF Slice
        <3>2. RunRecords(part, run.started, n) \in SUBSET DOMAIN part
            BY DEF RunRecords
        <3> HIDE DEF part
        <3>3. Timed(part)
            BY <3>1, FS_Subset DEF Timed, Sequences
        <3>. QED  BY <3>2, <3>3, AttemptsAreOK
    <2> HIDE DEF f, part, run, n, low, high
    <2>5. Grounded(f)
        BY <2>1, <2>3, <2>4, JudgeIsGrounded DEF CheckOK
    <2>. QED  BY <2>5 DEF f
<1>. QED  BY <1>1, <1>2

\* A file of the module is one whose times the engine can compare.
LEMMA FileIsTimed ==
    ASSUME FileInv
    PROVE  Timed(file)
<1>1. IsFiniteSet(1 .. written) /\ DOMAIN file \subseteq 1 .. written
    BY FS_Interval DEF FileInv
<1>2. IsFiniteSet(DOMAIN file)
    BY <1>1, FS_Subset
<1>. QED  BY <1>2 DEF FileInv, Timed, Sequences

\* An instant counts as true (false) only if, whenever in their intervals the
\* samples of a recorder that waits for its answers were taken, the last one
\* before it was true (false) and is within the declared hold (engine.evaluate).
THEOREM KnownForAllInstants == Spec => []KnownWhateverTheInstants
<1>1. FileInv => KnownWhateverTheInstants
    <2> SUFFICES ASSUME FileInv PROVE KnownWhateverTheInstants
        OBVIOUS
    <2>1. report = Assess(file, torn, profile) /\ profile \in Profiles
        BY DEF FileInv
    <2>2. CASE ProfileAccepted(profile) /\ EvidenceAccepted(file, torn)
        <3>1. report = evaluate(file, LoadedHold(profile), profile.signal, LoadedCheck(profile))
            BY <2>1, <2>2 DEF Assess
        <3>2. CheckOK(LoadedCheck(profile)) /\ Timed(file)
            BY <2>1, <2>2, LoadedCheckOK, FileIsTimed
        <3>. QED  BY <2>1, <3>1, <3>2, FindingPersists DEF KnownWhateverTheInstants
    <2>3. CASE ~(ProfileAccepted(profile) /\ EvidenceAccepted(file, torn))
        <3>1. report.known = [true |-> {}, false |-> {}]
            BY <2>1, <2>3 DEF Assess, Refused
        <3>2. \A truth \in {"true", "false"} : report.known[truth] = {}
            BY <3>1
        <3>. QED  BY <3>2 DEF KnownWhateverTheInstants
    <2>. QED  BY <2>2, <2>3
<1>. QED  BY <1>1, FileInvariant, PTL

\* A finding that decides nothing says why, and one that passes or fails rests on
\* an observation that satisfied or violated the check (engine.evaluate).
THEOREM DecisionsAreGroundedThm == Spec => []DecisionsAreGrounded
<1>1. FileInv => DecisionsAreGrounded
    <2> SUFFICES ASSUME FileInv PROVE Grounded(report)
        BY DEF Grounded, DecisionsAreGrounded
    <2>1. report = Assess(file, torn, profile) /\ profile \in Profiles
        BY DEF FileInv
    <2>2. CASE ProfileAccepted(profile) /\ EvidenceAccepted(file, torn)
        <3>1. report = evaluate(file, LoadedHold(profile), profile.signal, LoadedCheck(profile))
            BY <2>1, <2>2 DEF Assess
        <3>2. CheckOK(LoadedCheck(profile)) /\ Timed(file)
            BY <2>1, <2>2, LoadedCheckOK, FileIsTimed
        <3>. QED  BY <3>1, <3>2, FindingIsGrounded
    <2>3. CASE ~(ProfileAccepted(profile) /\ EvidenceAccepted(file, torn))
        BY <2>1, <2>3 DEF Assess, Refused, Grounded
    <2>. QED  BY <2>2, <2>3
<1>. QED  BY <1>1, FileInvariant, PTL
=============================================================================
