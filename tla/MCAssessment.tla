---------------------------- MODULE MCAssessment ----------------------------
(***************************************************************************)
(* Files of up to seven lines about one run or two, and seven profiles.    *)
(* A second lasts two nanoseconds here, so that fractions of it round.     *)
(***************************************************************************)
EXTENDS Assessment

CONSTANTS RunA, RunB, E1, E2, R1, R2

Number(n) == [type |-> "number", v |-> n]
Text(n) == [type |-> "text", v |-> n]
Payload(x) == [value |-> x, reference |-> Number(1)]

\* Good satisfies the predicates below, Bad violates them, Odd has a wrong type.
Good == Payload(Number(2))
Bad  == Payload(Number(7))
Odd  == Payload(Text(0))

Line(s, kind, t, run, channel, id, healthy, payload, observed) ==
    [seq |-> s, kind |-> kind, t |-> t, run |-> run, channel |-> channel,
     id |-> id, healthy |-> healthy, payload |-> payload, observed |-> observed]

Started(s, t, run)  == Line(s, "capture_run_started", t, run, E1, NoId, TRUE, Odd, 0)
Terminal(s, t, run) == Line(s, "capture_run_completed", t, run, E1, NoId, TRUE, Odd, 0)
Request(s, t, id)   == Line(s, "http_request", t, RunA, E1, id, TRUE, Odd, 0)
Other(s, t)         == Line(s, "http_request", t, RunA, E2, R1, TRUE, Odd, 0)
Response(s, t, id, p) == Line(s, "http_response", t, RunA, E1, id, TRUE, p, 0)
Error(s, t, id)     == Line(s, "http_error", t, RunA, E1, id, FALSE, Odd, 0)
Sample(s, t, observed, healthy, p) ==
    Line(s, "source_observation", t, RunA, E1, NoId, healthy, p, observed)

DragonLines ==
    {Started(1, 0, RunA), Other(1, 0),
     Request(2, 0, R1), Started(2, 0, RunA),
     Response(3, 2, R1, Good), Response(3, 2, R1, Bad), Response(3, 4, R1, Good),
     Request(3, 1, R2),
     Request(4, 4, R2), Request(4, 3, R2), Error(4, 4, R1), Response(4, 4, R1, Good),
     Terminal(4, 5, RunA),
     Response(5, 6, R2, Good), Response(5, 5, R2, Bad), Response(5, 6, R1, Good),
     Response(5, 6, R2, Odd),
     Terminal(6, 8, RunA), Terminal(6, 6, RunB), Response(6, 6, R2, Good),
     Started(7, 8, RunB), Terminal(7, 8, RunA), Response(7, 5, R2, Bad)}

PrusalinkLines ==
    {Started(1, 0, RunA), Terminal(1, 0, RunA),
     Sample(2, 1, 0, TRUE, Good), Sample(2, 1, 1, TRUE, Bad), Started(2, 1, RunB),
     Sample(3, 4, 2, TRUE, Good), Sample(3, 3, 3, TRUE, Bad), Sample(3, 3, 2, FALSE, Good),
     Sample(3, 3, 4, TRUE, Good),
     Sample(4, 6, 5, TRUE, Good), Sample(4, 6, 4, TRUE, Bad), Sample(4, 2, -1, TRUE, Good), Sample(4, 2, 2, TRUE, Bad),
     Terminal(4, 5, RunA),
     Terminal(5, 8, RunA), Terminal(5, 6, RunA), Started(5, 7, RunA),
     Terminal(6, 9, RunA), Sample(6, 5, 4, TRUE, Bad)}

MCLines == [source \in {"dragon", "prusalink"} |->
              IF source = "dragon" THEN DragonLines ELSE PrusalinkLines]

Sec(n, d) == [num |-> n, den |-> d]
Whole == [start |-> Sec(0, 1), end |-> Sec(0, 1)]
Middle == [start |-> Sec(3, 4), end |-> Sec(9, 4)]
Early == [start |-> Sec(0, 1), end |-> Sec(2, 1)]
AtMost5 == [op |-> "le", value |-> Number(5)]
Band == [op |-> "between", low |-> 0, high |-> 5]
BandOfOffset == [op |-> "between", low |-> 0, high |-> 1]

Profile(source, channel, relative, hold, kind, window, predicate, min) ==
    [signal |-> [source |-> source, channel |-> channel, relative |-> relative],
     hold |-> hold, kind |-> kind, window |-> window, predicate |-> predicate,
     min_fraction |-> min]

MCProfiles ==
    {Profile("dragon", E1, FALSE, Sec(5, 2), "holds_throughout", Middle, AtMost5, Sec(1, 1)),
     Profile("dragon", E1, TRUE, Sec(7, 4), "time_in_band", Whole, BandOfOffset, Sec(1, 3)),
     Profile("dragon", E1, FALSE, Sec(0, 1), "time_in_band", Whole, Band, Sec(0, 1)),
     Profile("prusalink", AnyChannel, FALSE, Sec(7, 4), "holds_throughout", Early, AtMost5, Sec(1, 1)),
     Profile("prusalink", E1, FALSE, Sec(9, 4), "time_in_band", Middle, Band, Sec(1, 2)),
     Profile("prusalink", AnyChannel, FALSE, Sec(3, 1), "holds_throughout", Middle,
             [op |-> "ne", value |-> Number(7)], Sec(1, 1)),
     Profile("dragon", E1, FALSE, Sec(5, 2), "holds_throughout", Early,
             [op |-> "lt", value |-> Text(5)], Sec(1, 1))}
=============================================================================
