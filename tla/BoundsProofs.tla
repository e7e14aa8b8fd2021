---------------------------- MODULE BoundsProofs ----------------------------
(***************************************************************************)
(* Proofs about what bounds the storage of DragonSniff: the records that a *)
(* capture appends (CaptureSchedule), for every set of durations and       *)
(* intervals and every delay, and the sessions and bytes that the store    *)
(* keeps (Retention), for every set of sessions and downloads and all      *)
(* bounds.  The first part is about CaptureSchedule, the second about      *)
(* Retention; each ends with the theorems on its specification.            *)
(***************************************************************************)
EXTENDS CaptureSchedule, Retention, FiniteSetTheorems, WellFoundedInduction,
        TLAPS

\* Arithmetic of math.ceil(a / b): that many steps of b cover a.
LEMMA CeilBounds ==
    ASSUME NEW a \in Nat \ {0}, NEW b \in Nat \ {0}
    PROVE  Ceil(a, b) \in Nat /\ a <= Ceil(a, b) * b
<1> DEFINE c == a + b - 1
           q == c \div b
<1>1. c \in Nat /\ b \in Nat \ {0}
    OBVIOUS
<1>2. q \in Nat /\ c = b * q + (c % b) /\ c % b \in 0..(b - 1)
    BY <1>1
<1>3. c < b * q + b
    BY <1>1, <1>2
<1>. QED  BY <1>2, <1>3 DEF Ceil

\* Fewer than Ceil(a, b) steps of b fit below a.
LEMMA StepsBelow ==
    ASSUME NEW n \in Nat, NEW a \in Nat \ {0}, NEW b \in Nat \ {0}, n * b < a
    PROVE  n < Ceil(a, b)
<1>1. Ceil(a, b) \in Nat /\ n * b < Ceil(a, b) * b
    <2>1. \A x, y, z \in Int : x < y /\ y <= z => x < z
        OBVIOUS
    <2>2. n * b \in Int /\ \A k \in Nat : k * b \in Int
        OBVIOUS
    <2>. QED  BY <2>1, <2>2, CeilBounds
<1>2. \A k \in Nat : k <= n => k * b <= n * b
    OBVIOUS
<1>3. ~(Ceil(a, b) <= n)
    <2>1. \A x, y \in Int : x < y => ~(y <= x)
        OBVIOUS
    <2>2. n * b \in Int /\ \A k \in Nat : k * b \in Int
        OBVIOUS
    <2>. QED  BY <1>1, <1>2, <2>1, <2>2
<1>. QED  BY <1>1, <1>3

\* One step more of a product.
LEMMA OneMore ==
    ASSUME NEW n \in Nat, NEW b \in Nat \ {0}
    PROVE  /\ n * b \in Nat
           /\ (n + 1) * b = n * b + b
OBVIOUS

\* A sample that is due, taken at time, leaves its schedule on the grid.
LEMMA ScheduledOnGrid ==
    ASSUME NEW n \in Nat, NEW i \in Nat \ {0}, NEW next \in Nat,
           NEW times \in Int \X Int, TypeOK,
           now = time, next <= now, Grid(n, next, i, times)
    PROVE  /\ NextOnGrid(next, i) \in Nat
           /\ Grid(n + 1, NextOnGrid(next, i), i, <<times[2], time>>)
<1>1. time \in Nat /\ now \in Nat
    BY DEF TypeOK
<1>2. NextOnGrid(next, i) \in Nat /\ NextOnGrid(next, i) > time
      /\ NextOnGrid(next, i) >= next + i
    BY <1>1 DEF NextOnGrid
<1>3. (n + 1) * i <= NextOnGrid(next, i)
    <2> DEFINE p == n * i
    <2>1. p \in Nat /\ (n + 1) * i = p + i
        BY OneMore
    <2>2. p <= next
        BY DEF Grid
    <2> HIDE DEF p
    <2>. QED  BY <1>2, <2>1, <2>2
<1>4. times[2] \in Int /\ (times[2] >= 0 => next > times[2])
    BY DEF Grid
<1>5. <<times[2], time>>[1] = times[2] /\ <<times[2], time>>[2] = time
    OBVIOUS
<1>6. times[2] >= 0 => NextOnGrid(next, i) > times[2] + i
    BY <1>2, <1>4
<1>. QED  BY <1>2, <1>3, <1>5, <1>6 DEF Grid

\* The constants and the types of a configuration.
LEMMA ConfigType ==
    ASSUME TypeOK
    PROVE  /\ config.duration \in Nat \ {0}
           /\ config.state \in Nat \ {0}
           /\ config.health \in Nat \ {0}
           /\ StateCeil \in Nat /\ HealthCeil \in Nat
<1>1. config \in Configs
    BY DEF TypeOK
<1>2. /\ config.duration \in Nat \ {0}
      /\ config.state \in Nat \ {0}
      /\ config.health \in Nat \ {0}
    BY <1>1, ScheduleConstants DEF Configs
<1>. QED  BY <1>2, CeilBounds DEF StateCeil, HealthCeil
-----------------------------------------------------------------------------
\* The invariant holds when the loop begins.
LEMMA InitStep ==
    ASSUME Init
    PROVE  ScheduleInv
<1>1. TypeOK
    <2>1. <<-1, -1>> \in Int \X Int
        OBVIOUS
    <2>. QED  BY <2>1 DEF Init, TypeOK, Phases
<1>2. Clock /\ Recorded
    BY DEF Init, Clock, Recorded
<1>3. Grids
    BY <1>1, ConfigType DEF Init, Grids, Grid, Looping
<1>4. Counts
    BY <1>1, ConfigType DEF Init, Counts, Looping
<1>. QED  BY <1>1, <1>2, <1>3, <1>4 DEF ScheduleInv

\* The invariant is kept by the information sample of the start.
LEMMA SampleInfoStep ==
    ASSUME ScheduleInv, SampleInfo
    PROVE  ScheduleInv'
<1> USE DEF SampleInfo, Sample, SampleRecords, schedule
<1>0. TypeOK /\ Clock /\ Grids /\ Counts /\ Recorded
    BY DEF ScheduleInv
<1>1. TypeOK'
    BY <1>0 DEF TypeOK, Phases
<1>2. Clock'
    BY <1>0 DEF Clock
<1>3. Grids'
    BY <1>0 DEF Grids, Grid, Looping
<1>4. Counts'
    BY <1>0, ConfigType DEF Counts, Looping, StateCeil, HealthCeil
<1>5. Recorded'
    BY <1>0 DEF Recorded, TypeOK
<1>. QED  BY <1>1, <1>2, <1>3, <1>4, <1>5 DEF ScheduleInv

\* The invariant is kept by the head of the loop: a run that goes on has not
\* reached its duration, so it has not taken every health sample.
LEMMA HeadStep ==
    ASSUME ScheduleInv, LoopHead
    PROVE  ScheduleInv'
<1>0. TypeOK /\ Clock /\ Grids /\ Counts /\ Recorded
    BY DEF ScheduleInv
<1>a. /\ phase = "head" /\ now' = time
      /\ phase' \in {"finish", "endState", "state", "between"}
      /\ phase' \in {"state", "between"} => ~(time >= config.duration)
      /\ phase' = "state" => time >= nextState
    <2> DEFINE long == time >= config.duration
    <2>1. /\ phase' = IF cancelled THEN "finish"
                      ELSE IF long THEN "endState"
                      ELSE IF time >= nextState THEN "state"
                      ELSE "between"
          /\ phase = "head" /\ now' = time
        BY DEF LoopHead
    <2> HIDE DEF long
    <2>2. phase' \in {"state", "between"} => ~long
        BY <2>1
    <2>3. /\ phase' \in {"finish", "endState", "state", "between"}
          /\ phase' = "state" => time >= nextState
        BY <2>1
    <2>. QED  BY <2>1, <2>2, <2>3 DEF long
<1>b. phase' \in {"state", "between"} => time < config.duration
    BY <1>0, <1>a, ConfigType DEF TypeOK
<1>c. /\ UNCHANGED <<config, time, nextState, nextHealth, cancelled, states>>
      /\ UNCHANGED <<healths, infos, records, outcome>>
      /\ UNCHANGED <<stateTimes, healthTimes>>
    BY DEF LoopHead, schedule, counts, history
<1>1. TypeOK'
    BY <1>0, <1>a, <1>c DEF TypeOK, Phases
<1>2. Clock'
    BY <1>0, <1>a, <1>b, <1>c DEF Clock, TypeOK
<1>3. Grids'
    BY <1>0, <1>a, <1>c DEF Grids, Grid, Looping
<1>4. Counts'
    <2>1. phase' \in {"state", "between"} => healths <= HealthCeil
        <3> SUFFICES ASSUME time < config.duration, healths > 0
                     PROVE  healths <= HealthCeil
            BY <1>0, <1>b, ConfigType DEF TypeOK
        <3>1. healths * config.health <= time + config.health
            BY <1>0, <1>a DEF Grids, Looping
        <3>2. healths - 1 \in Nat /\ healths = (healths - 1) + 1
            BY <1>0 DEF TypeOK
        <3>3. /\ (healths - 1) * config.health \in Nat
              /\ healths * config.health
                    = (healths - 1) * config.health + config.health
            BY <3>2, OneMore, ConfigType, <1>0
        <3>4. (healths - 1) * config.health < config.duration
            <4> DEFINE p == (healths - 1) * config.health
                       q == healths * config.health
            <4>1. p \in Nat /\ q = p + config.health /\ q <= time + config.health
                BY <3>1, <3>3
            <4>2. time \in Nat /\ config.health \in Nat /\ config.duration \in Nat
                BY <1>0, ConfigType DEF TypeOK
            <4> HIDE DEF p, q
            <4>3. p < config.duration
                BY <4>1, <4>2
            <4>. QED  BY <4>3 DEF p
        <3>5. healths - 1 < HealthCeil
            BY <3>2, <3>4, StepsBelow, ConfigType, <1>0 DEF HealthCeil
        <3>. QED  BY <3>5, <1>0, ConfigType DEF TypeOK
    <2>2. StateCeil' = StateCeil /\ HealthCeil' = HealthCeil
        BY <1>c DEF StateCeil, HealthCeil
    <2>. QED  BY <2>1, <2>2, <1>0, <1>a, <1>c, ConfigType DEF Counts, Looping, TypeOK
<1>5. Recorded'
    BY <1>0, <1>a, <1>c DEF Recorded, TypeOK
<1>. QED  BY <1>1, <1>2, <1>3, <1>4, <1>5 DEF ScheduleInv

\* The invariant is kept by a scheduled state sample.
LEMMA SampleStateStep ==
    ASSUME ScheduleInv, SampleState
    PROVE  ScheduleInv'
<1> USE DEF SampleState, Sample, SampleRecords, schedule, Takes
<1>0. TypeOK /\ Clock /\ Grids /\ Counts /\ Recorded
    BY DEF ScheduleInv
<1>1. /\ now = time /\ nextState <= now /\ now < config.duration
      /\ Grid(states, nextState, config.state, stateTimes)
    BY <1>0 DEF Clock, Grids, Looping
<1>2. /\ NextOnGrid(nextState, config.state) \in Nat
      /\ Grid(states + 1, NextOnGrid(nextState, config.state), config.state,
              <<stateTimes[2], time>>)
    BY <1>0, <1>1, ScheduledOnGrid, ConfigType DEF TypeOK
<1>3. time' \in Nat /\ time <= time'
    BY <1>0, ScheduleConstants DEF TypeOK
<1>4. TypeOK'
    BY <1>0, <1>2, <1>3 DEF TypeOK, Phases
<1>5. Clock'
    BY <1>0, <1>1, <1>3 DEF Clock, TypeOK
<1>6. Grids'
    <2>1. Grid(states, nextState, config.state, stateTimes)'
        BY <1>2 DEF Grid
    <2>2. Grid(healths, nextHealth, config.health, healthTimes)'
        BY <1>0 DEF Grids, Looping, Grid
    <2>3. healths > 0 => healths * config.health <= time' + config.health
        <3> DEFINE p == healths * config.health
        <3>1. p \in Int /\ config.health \in Int /\ time \in Int
            BY <1>0, ConfigType DEF TypeOK
        <3>2. healths > 0 => p <= time + config.health
            BY <1>0 DEF Grids, Looping
        <3> HIDE DEF p
        <3>3. healths > 0 => p <= time' + config.health
            BY <3>1, <3>2, <1>3
        <3>. QED  BY <3>3 DEF p
    <2>. QED  BY <2>1, <2>2, <2>3 DEF Grids, Looping
<1>7. Counts'
    <2>1. states * config.state < config.duration
        <3> DEFINE p == states * config.state
        <3>1. p \in Int /\ p <= nextState
            BY <1>1, <1>0, ConfigType, OneMore DEF Grid, TypeOK
        <3> HIDE DEF p
        <3>2. p < config.duration
            BY <3>1, <1>1, <1>0, ConfigType DEF TypeOK
        <3>. QED  BY <3>2 DEF p
    <2>2. states < StateCeil
        BY <2>1, <1>0, StepsBelow, ConfigType DEF StateCeil, TypeOK
    <2>3. StateCeil' = StateCeil /\ HealthCeil' = HealthCeil
        BY DEF StateCeil, HealthCeil
    <2>. QED  BY <2>2, <2>3, <1>0, ConfigType DEF Counts, Looping, TypeOK
<1>8. Recorded'
    BY <1>0 DEF Recorded, TypeOK
<1>. QED  BY <1>4, <1>5, <1>6, <1>7, <1>8 DEF ScheduleInv
\* The invariant is kept when the clock is read again before the health sample.
LEMMA BetweenStep ==
    ASSUME ScheduleInv, Between
    PROVE  ScheduleInv'
<1> USE DEF Between, schedule, counts, history
<1>0. TypeOK /\ Clock /\ Grids /\ Counts /\ Recorded
    BY DEF ScheduleInv
<1>1. TypeOK'
    BY <1>0 DEF TypeOK, Phases
<1>2. Clock'
    BY <1>0 DEF Clock, TypeOK
<1>3. Grids'
    BY <1>0 DEF Grids, Grid, Looping
<1>4. Counts'
    <2>1. StateCeil' = StateCeil /\ HealthCeil' = HealthCeil
        BY DEF StateCeil, HealthCeil
    <2>. QED  BY <2>1, <1>0, ConfigType DEF Counts, Looping, TypeOK
<1>5. Recorded'
    BY <1>0 DEF Recorded, TypeOK
<1>. QED  BY <1>1, <1>2, <1>3, <1>4, <1>5 DEF ScheduleInv

\* The invariant is kept by a scheduled health sample, which may begin after
\* the duration.
LEMMA SampleHealthStep ==
    ASSUME ScheduleInv, SampleHealth
    PROVE  ScheduleInv'
<1> USE DEF SampleHealth, Sample, SampleRecords, schedule, Takes
<1>0. TypeOK /\ Clock /\ Grids /\ Counts /\ Recorded
    BY DEF ScheduleInv
<1>1. /\ now = time /\ nextHealth <= now
      /\ Grid(healths, nextHealth, config.health, healthTimes)
    BY <1>0 DEF Clock, Grids, Looping
<1>2. /\ NextOnGrid(nextHealth, config.health) \in Nat
      /\ Grid(healths + 1, NextOnGrid(nextHealth, config.health), config.health,
              <<healthTimes[2], time>>)
    BY <1>0, <1>1, ScheduledOnGrid, ConfigType DEF TypeOK
<1>3. time' \in Nat /\ time <= time'
    BY <1>0, ScheduleConstants DEF TypeOK
<1>4. TypeOK'
    BY <1>0, <1>2, <1>3 DEF TypeOK, Phases
<1>5. Clock'
    BY <1>0, <1>1, <1>3 DEF Clock, TypeOK
<1>6. Grids'
    <2>1. Grid(states, nextState, config.state, stateTimes)'
        BY <1>0 DEF Grids, Looping, Grid
    <2>2. Grid(healths, nextHealth, config.health, healthTimes)'
        BY <1>2 DEF Grid
    <2>3. (healths + 1) * config.health <= time' + config.health
        <3> DEFINE p == healths * config.health
        <3>1. /\ p \in Int /\ config.health \in Int /\ time \in Int
              /\ (healths + 1) * config.health = p + config.health
            BY <1>0, ConfigType, OneMore DEF TypeOK
        <3>2. p <= nextHealth /\ nextHealth <= time /\ nextHealth \in Int
            BY <1>0, <1>1 DEF Grid, TypeOK
        <3> HIDE DEF p
        <3>. QED  BY <3>1, <3>2, <1>3
    <2>. QED  BY <2>1, <2>2, <2>3 DEF Grids, Looping
<1>7. Counts'
    <2>1. StateCeil' = StateCeil /\ HealthCeil' = HealthCeil
        BY DEF StateCeil, HealthCeil
    <2>. QED  BY <2>1, <1>0, ConfigType DEF Counts, Looping, TypeOK
<1>8. Recorded'
    BY <1>0 DEF Recorded, TypeOK
<1>. QED  BY <1>4, <1>5, <1>6, <1>7, <1>8 DEF ScheduleInv

\* The invariant is kept by the wait: time only goes on.
LEMMA WaitStep ==
    ASSUME ScheduleInv, Wait
    PROVE  ScheduleInv'
<1> USE DEF schedule, counts, history
<1>0. TypeOK /\ Clock /\ Grids /\ Counts /\ Recorded
    BY DEF ScheduleInv
<1>1. time' \in Nat /\ time <= time'
    <2>1. Earliest \subseteq Nat
        BY <1>0, ConfigType DEF Earliest, TypeOK
    <2>2. PICK wake \in Earliest, d \in 0..MaxLate :
             time' = (IF wake > time /\ ~cancelled THEN wake ELSE time) + d
        BY DEF Wait
    <2>3. wake \in Nat /\ d \in Nat /\ time \in Nat
        BY <2>1, <1>0, ScheduleConstants DEF TypeOK
    <2>. QED  BY <2>2, <2>3
<1>2. /\ phase = "wait" /\ phase' = "head"
      /\ UNCHANGED <<config, now, nextState, nextHealth, cancelled>>
      /\ UNCHANGED <<states, healths, infos, records, outcome>>
      /\ UNCHANGED <<stateTimes, healthTimes>>
    BY DEF Wait
<1>3. TypeOK'
    BY <1>0, <1>1, <1>2 DEF TypeOK, Phases
<1>4. Clock'
    BY <1>0, <1>1, <1>2 DEF Clock, TypeOK
<1>5. Grids'
    <2>1. /\ Grid(states, nextState, config.state, stateTimes)'
          /\ Grid(healths, nextHealth, config.health, healthTimes)'
        BY <1>0, <1>2 DEF Grids, Looping, Grid
    <2>2. healths > 0 => healths * config.health <= time' + config.health
        <3> DEFINE p == healths * config.health
        <3>1. p \in Int /\ config.health \in Int /\ time \in Int
            BY <1>0, ConfigType DEF TypeOK
        <3>2. healths > 0 => p <= time + config.health
            BY <1>0, <1>2 DEF Grids, Looping
        <3> HIDE DEF p
        <3>3. healths > 0 => p <= time' + config.health
            BY <3>1, <3>2, <1>1
        <3>. QED  BY <3>3 DEF p
    <2>. QED  BY <2>1, <2>2, <1>2 DEF Grids, Looping
<1>6. Counts'
    <2>1. StateCeil' = StateCeil /\ HealthCeil' = HealthCeil
        BY <1>2 DEF StateCeil, HealthCeil
    <2>. QED  BY <2>1, <1>0, <1>2, ConfigType DEF Counts, Looping, TypeOK
<1>7. Recorded'
    BY <1>0, <1>2 DEF Recorded, TypeOK
<1>. QED  BY <1>3, <1>4, <1>5, <1>6, <1>7 DEF ScheduleInv

\* The invariant is kept by the three samples of the end.  The state sample
\* is one more than the grid allows for; the health sample the second.
LEMMA EndStep ==
    ASSUME ScheduleInv, EndState \/ EndHealth \/ EndInfo
    PROVE  ScheduleInv'
<1> USE DEF Sample, SampleRecords, schedule
<1>0. TypeOK /\ Clock /\ Grids /\ Counts /\ Recorded
    BY DEF ScheduleInv
<1>1. CASE EndState
    <2> USE <1>1 DEF EndState
    <2>1. TypeOK'
        BY <1>0 DEF TypeOK, Phases
    <2>2. Clock' /\ Grids'
        BY <1>0 DEF Clock, Grids, Looping
    <2>3. StateCeil' = StateCeil /\ HealthCeil' = HealthCeil
        BY DEF StateCeil, HealthCeil
    <2>4. Counts'
        BY <2>3, <1>0, ConfigType DEF Counts, Looping, TypeOK
    <2>5. Recorded'
        BY <1>0 DEF Recorded, TypeOK
    <2>. QED  BY <2>1, <2>2, <2>4, <2>5 DEF ScheduleInv
<1>2. CASE EndHealth
    <2> USE <1>2 DEF EndHealth
    <2>1. TypeOK'
        BY <1>0 DEF TypeOK, Phases
    <2>2. Clock' /\ Grids'
        BY <1>0 DEF Clock, Grids, Looping
    <2>3. StateCeil' = StateCeil /\ HealthCeil' = HealthCeil
        BY DEF StateCeil, HealthCeil
    <2>4. Counts'
        BY <2>3, <1>0, ConfigType DEF Counts, Looping, TypeOK
    <2>5. Recorded'
        BY <1>0 DEF Recorded, TypeOK
    <2>. QED  BY <2>1, <2>2, <2>4, <2>5 DEF ScheduleInv
<1>3. CASE EndInfo
    <2> USE <1>3 DEF EndInfo
    <2>1. TypeOK'
        BY <1>0 DEF TypeOK, Phases
    <2>2. Clock' /\ Grids'
        BY <1>0 DEF Clock, Grids, Looping
    <2>3. StateCeil' = StateCeil /\ HealthCeil' = HealthCeil
        BY DEF StateCeil, HealthCeil
    <2>4. Counts'
        BY <2>3, <1>0, ConfigType DEF Counts, Looping, TypeOK
    <2>5. Recorded'
        BY <1>0 DEF Recorded, TypeOK
    <2>. QED  BY <2>1, <2>2, <2>4, <2>5 DEF ScheduleInv
<1>. QED  BY <1>1, <1>2, <1>3

\* The invariant is kept when a sample raises, and by the terminal record.
LEMMA FinishStep ==
    ASSUME ScheduleInv, SampleFails \/ Complete
    PROVE  ScheduleInv'
<1> USE DEF schedule, counts, history
<1>0. TypeOK /\ Clock /\ Grids /\ Counts /\ Recorded
    BY DEF ScheduleInv
<1>1. StateCeil' = StateCeil /\ HealthCeil' = HealthCeil
    BY DEF SampleFails, Complete, StateCeil, HealthCeil
<1>2. CASE SampleFails
    <2> USE <1>2 DEF SampleFails
    <2>1. TypeOK'
        BY <1>0 DEF TypeOK, Phases
    <2>2. Clock' /\ Grids'
        BY <1>0 DEF Clock, Grids, Looping
    <2>3. Counts'
        BY <1>1, <1>0, ConfigType DEF Counts, Looping, TypeOK
    <2>4. Recorded'
        BY <1>0 DEF Recorded, TypeOK
    <2>. QED  BY <2>1, <2>2, <2>3, <2>4 DEF ScheduleInv
<1>3. CASE Complete
    <2> USE <1>3 DEF Complete
    <2>1. TypeOK'
        BY <1>0 DEF TypeOK, Phases
    <2>2. Clock' /\ Grids'
        BY <1>0 DEF Clock, Grids, Looping
    <2>3. Counts'
        BY <1>1, <1>0, ConfigType DEF Counts, Looping, TypeOK
    <2>4. Recorded'
        BY <1>0 DEF Recorded, TypeOK
    <2>. QED  BY <2>1, <2>2, <2>3, <2>4 DEF ScheduleInv
<1>. QED  BY <1>2, <1>3

\* The invariant is kept by stop() and by steps that change nothing.
LEMMA CancelStep ==
    ASSUME ScheduleInv, Cancel \/ UNCHANGED vars
    PROVE  ScheduleInv'
<1> USE DEF Cancel, vars, schedule, counts, history
<1>0. TypeOK /\ Clock /\ Grids /\ Counts /\ Recorded
    BY DEF ScheduleInv
<1>1. TypeOK'
    BY <1>0 DEF TypeOK
<1>2. Clock' /\ Grids'
    BY <1>0 DEF Clock, Grids, Grid, Looping
<1>3. Counts' /\ Recorded'
    BY <1>0 DEF Counts, Recorded, Looping, StateCeil, HealthCeil
<1>. QED  BY <1>1, <1>2, <1>3 DEF ScheduleInv
-----------------------------------------------------------------------------
\* Both schedules keep to their grids and every record is accounted for,
\* whatever the durations, intervals and delays.
THEOREM ScheduleInvariant == Spec => []ScheduleInv
<1>1. Init => ScheduleInv
    BY InitStep
<1>2. ScheduleInv /\ [Next]_vars => ScheduleInv'
    BY SampleInfoStep, HeadStep, SampleStateStep, BetweenStep, SampleHealthStep,
       WaitStep, EndStep, FinishStep, CancelStep DEF Next, Run
<1>. QED  BY <1>1, <1>2, PTL DEF Spec

\* A capture never outgrows the limits that CaptureRunner.start sized its
\* recorder with.
THEOREM RecordsBounded == Spec => []RecordsWithinEstimate
<1>1. ScheduleInv => RecordsWithinEstimate
    <2> SUFFICES ASSUME ScheduleInv PROVE RecordsWithinEstimate
        OBVIOUS
    <2>1. /\ states <= StateCeil + 1 /\ healths <= HealthCeil + 2 /\ infos <= 2
          /\ records <= 1 + 2 * (states + healths + infos) + 3
        BY ConfigType DEF ScheduleInv, Counts, Recorded, TypeOK
    <2>2. EstimatedRecords = (StateCeil + 2 + HealthCeil + 2 + 2) * 2 + 4
        BY DEF EstimatedRecords, StateCeil, HealthCeil
    <2>3. /\ StateCeil \in Nat /\ HealthCeil \in Nat
          /\ states \in Nat /\ healths \in Nat /\ infos \in Nat /\ records \in Nat
        BY ConfigType DEF ScheduleInv, TypeOK
    <2>. QED  BY <2>1, <2>2, <2>3 DEF RecordsWithinEstimate
<1>. QED  BY <1>1, ScheduleInvariant, PTL

\* The loop never catches up by a burst of samples.
THEOREM NeverABurst == Spec => []NoBurst
<1>1. ScheduleInv => NoBurst
    <2> SUFFICES ASSUME ScheduleInv PROVE NoBurst
        OBVIOUS
    <2>1. /\ time \in Nat /\ nextState \in Nat /\ nextHealth \in Nat
          /\ config.state \in Nat /\ config.health \in Nat
          /\ stateTimes[1] \in Int /\ healthTimes[1] \in Int
        BY ConfigType DEF ScheduleInv, TypeOK
    <2>2. phase = "state" => /\ nextState <= time
                             /\ stateTimes[1] >= 0 =>
                                   nextState > stateTimes[1] + config.state
        BY DEF ScheduleInv, Clock, Grids, Grid, Looping
    <2>3. phase = "health" => /\ nextHealth <= time
                              /\ healthTimes[1] >= 0 =>
                                    nextHealth > healthTimes[1] + config.health
        BY DEF ScheduleInv, Clock, Grids, Grid, Looping
    <2>. QED  BY <2>1, <2>2, <2>3 DEF NoBurst
<1>. QED  BY <1>1, ScheduleInvariant, PTL
\* A run that ends as completed has lasted its duration and taken the samples
\* of its end; one that ends as cancelled was told to stop.
THEOREM OutcomesTruthful == Spec => []OutcomeTruthful
<1>1. Init => OutcomeInv
    BY DEF Init, OutcomeInv, OutcomeTruthful
<1>2. ScheduleInv /\ OutcomeInv /\ [Next]_vars => OutcomeInv'
    <2> SUFFICES ASSUME ScheduleInv, OutcomeInv, [Next]_vars
                 PROVE  OutcomeInv'
        OBVIOUS
    <2> USE DEF OutcomeInv, OutcomeTruthful, Ended, schedule, counts, history
    <2>0. TypeOK /\ Counts /\ config.duration \in Nat
        BY ConfigType DEF ScheduleInv
    <2>1. CASE SampleInfo \/ SampleState \/ Between \/ SampleHealth \/ Wait
        BY <2>0, <2>1 DEF SampleInfo, SampleState, Between, SampleHealth, Wait
    <2>2. CASE LoopHead
        BY <2>0, <2>2 DEF LoopHead
    <2>3. CASE EndState \/ EndHealth
        BY <2>0, <2>3 DEF EndState, EndHealth, TypeOK
    <2>4. CASE EndInfo
        BY <2>0, <2>4 DEF EndInfo, Counts, TypeOK
    <2>5. CASE SampleFails
        BY <2>0, <2>5 DEF SampleFails
    <2>6. CASE Complete
        BY <2>0, <2>6 DEF Complete, TypeOK
    <2>7. CASE Cancel \/ UNCHANGED vars
        BY <2>0, <2>7 DEF Cancel, vars
    <2>. QED  BY <2>1, <2>2, <2>3, <2>4, <2>5, <2>6, <2>7 DEF Next, Run
<1>3. OutcomeInv => OutcomeTruthful
    BY DEF OutcomeInv
<1>. QED  BY <1>1, <1>2, <1>3, ScheduleInvariant, PTL DEF Spec

-----------------------------------------------------------------------------
(* Induction.                                                              *)

\* A set of natural numbers that holds 0 and every successor of a member holds
\* them all: the principle every induction over the rounds of a pass and over the
\* sessions of a sum goes by.
LEMMA EveryNat ==
    ASSUME NEW G \in SUBSET Nat, 0 \in G, \A n \in G : n + 1 \in G
    PROVE  G = Nat
<1> DEFINE less == OpToRel(<, Nat)
           bad == Nat \ G
<1>1. IsWellFoundedOn(less, Nat)
    BY NatLessThanWellFounded
<1>2. \A m, n \in Nat : m < n => <<m, n>> \in less
    BY DEF OpToRel
<1> HIDE DEF less
<1> SUFFICES ASSUME bad # {} PROVE FALSE
    OBVIOUS
<1>3. PICK x \in bad : \A y \in bad : ~ (<<y, x>> \in less)
    BY <1>1, WFMin
<1>4. x \in Nat /\ x # 0 /\ x - 1 \in Nat /\ x - 1 < x
    BY <1>3
<1>5. x - 1 \in G
    BY <1>2, <1>3, <1>4
<1>6. (x - 1) + 1 \in G
    BY <1>5
<1>. QED  BY <1>3, <1>4, <1>6

-----------------------------------------------------------------------------
(* Sums over a finite set, as SumFunctionOnSet computes them.               *)

Picked(T) == CHOOSE x \in T : TRUE

\* it computes the sum of f over each set of Ts, as the definition of the
\* community modules does.
SumsBy(f, Ts, it) ==
    it = [T \in Ts |-> IF T = {} THEN 0 ELSE f[Picked(T)] + it[T \ {Picked(T)}]]

\* The subsets of S that have n elements or fewer.
UpTo(S, n) == {T \in SUBSET S : Cardinality(T) <= n}

\* What a sum takes first is in the set, and the rest is smaller by one.
LEMMA PickedOne ==
    ASSUME NEW S, IsFiniteSet(S), NEW T \in SUBSET S
    PROVE  /\ IsFiniteSet(T) /\ Cardinality(T) \in Nat
           /\ Cardinality(T) <= Cardinality(S)
           /\ Cardinality(T) = 0 <=> T = {}
           /\ T # {} => /\ Picked(T) \in T
                        /\ T \ {Picked(T)} \in SUBSET S
                        /\ Cardinality(T \ {Picked(T)}) = Cardinality(T) - 1
<1>1. IsFiniteSet(T) /\ Cardinality(T) <= Cardinality(S)
    BY FS_Subset
<1>2. Cardinality(T) \in Nat
    BY <1>1, FS_CardinalityType
<1>3. Cardinality(T) = 0 <=> T = {}
    BY <1>1, FS_EmptySet
<1>4. T # {} => Picked(T) \in T
    BY DEF Picked
<1>5. T # {} => Cardinality(T \ {Picked(T)}) = Cardinality(T) - 1
    BY <1>1, <1>4, FS_RemoveElement
<1>. QED  BY <1>1, <1>2, <1>3, <1>4, <1>5

\* The function a sum is defined by exists.
LEMMA SumsExist ==
    ASSUME NEW D, NEW S \in SUBSET D, IsFiniteSet(S), NEW f \in [D -> Nat]
    PROVE  \E it : SumsBy(f, SUBSET S, it)
<1> DEFINE Has(n, it) == it \in [UpTo(S, n) -> Nat] /\ SumsBy(f, UpTo(S, n), it)
           G == {n \in Nat : \E it : Has(n, it)}
<1>1. 0 \in G
    <2> DEFINE it == [T \in UpTo(S, 0) |-> 0]
    <2>1. \A T \in UpTo(S, 0) : T = {}
        <3> SUFFICES ASSUME NEW T \in SUBSET S, Cardinality(T) <= 0 PROVE T = {}
            BY DEF UpTo
        <3>1. Cardinality(T) \in Nat /\ (Cardinality(T) = 0 <=> T = {})
            BY PickedOne
        <3>. QED  BY <3>1
    <2>2. SumsBy(f, UpTo(S, 0), it)
        BY <2>1 DEF SumsBy
    <2>. QED  BY <2>2
<1>2. ASSUME NEW n \in G PROVE n + 1 \in G
    <2>1. PICK old : Has(n, old)
        OBVIOUS
    <2> DEFINE it == [T \in UpTo(S, n + 1) |->
                        IF T = {} THEN 0 ELSE f[Picked(T)] + old[T \ {Picked(T)}]]
    <2>2. \A T \in UpTo(S, n + 1) :
             T # {} => T \ {Picked(T)} \in UpTo(S, n) /\ f[Picked(T)] \in Nat
        <3> SUFFICES ASSUME NEW T \in SUBSET S, Cardinality(T) <= n + 1, T # {}
                     PROVE  T \ {Picked(T)} \in UpTo(S, n) /\ f[Picked(T)] \in Nat
            BY DEF UpTo
        <3>. QED  BY PickedOne DEF UpTo
    <2>3. old \in [UpTo(S, n) -> Nat]
        BY <2>1
    <2>4. it \in [UpTo(S, n + 1) -> Nat]
        BY <2>2, <2>3
    <2>5. \A T \in UpTo(S, n) : T \in UpTo(S, n + 1)
        <3> SUFFICES ASSUME NEW T \in SUBSET S, Cardinality(T) <= n
                     PROVE  Cardinality(T) <= n + 1
            BY DEF UpTo
        <3>1. Cardinality(T) \in Nat
            BY PickedOne
        <3>. QED  BY <3>1
    <2>6. \A T \in UpTo(S, n) : it[T] = old[T]
        BY <2>1, <2>5 DEF SumsBy
    <2>7. SumsBy(f, UpTo(S, n + 1), it)
        BY <2>2, <2>6 DEF SumsBy
    <2>8. Has(n + 1, it)
        BY <2>4, <2>7
    <2> HIDE DEF Has, it
    <2>. QED  BY <2>8
<1> HIDE DEF Has
<1>3. G = Nat
    BY <1>1, <1>2, EveryNat
<1>4. Cardinality(S) \in Nat
    BY FS_CardinalityType
<1>5. UpTo(S, Cardinality(S)) = SUBSET S
    BY PickedOne DEF UpTo
<1>6. \E it : Has(Cardinality(S), it)
    BY <1>3, <1>4
<1>. QED  BY <1>5, <1>6 DEF Has

\* So the sum is the value of a function that keeps to the definition.
LEMMA SumIs ==
    ASSUME NEW D, NEW S \in SUBSET D, IsFiniteSet(S), NEW f \in [D -> Nat]
    PROVE  \E it : SumsBy(f, SUBSET S, it) /\ SumFunctionOnSet(f, S) = it[S]
<1>1. PICK it : SumsBy(f, SUBSET S, it)
    BY SumsExist
<1> DEFINE chosen == CHOOSE sums : SumsBy(f, SUBSET S, sums)
<1>2. SumFunctionOnSet(f, S) = chosen[S]
    BY DEF SumsBy, Picked, SumFunctionOnSet, FoldFunctionOnSet, MapThenFoldSet
<1>3. SumsBy(f, SUBSET S, chosen)
    BY <1>1
<1>. QED  BY <1>2, <1>3

\* A sum of sizes is a size, and the sum of sizes that are smaller one by one is
\* not greater.
LEMMA SumMonotone ==
    ASSUME NEW D, NEW S \in SUBSET D, IsFiniteSet(S),
           NEW f \in [D -> Nat], NEW g \in [D -> Nat],
           \A s \in S : f[s] <= g[s]
    PROVE  /\ SumFunctionOnSet(f, S) \in Nat /\ SumFunctionOnSet(g, S) \in Nat
           /\ SumFunctionOnSet(f, S) <= SumFunctionOnSet(g, S)
<1>1. PICK if : SumsBy(f, SUBSET S, if) /\ SumFunctionOnSet(f, S) = if[S]
    BY SumIs
<1>2. PICK ig : SumsBy(g, SUBSET S, ig) /\ SumFunctionOnSet(g, S) = ig[S]
    BY SumIs
<1> DEFINE Holds(T) == if[T] \in Nat /\ ig[T] \in Nat /\ if[T] <= ig[T]
           G == {n \in Nat : \A T \in UpTo(S, n) : Holds(T)}
<1>3. ASSUME NEW T \in SUBSET S
      PROVE  /\ if[T] = IF T = {} THEN 0 ELSE f[Picked(T)] + if[T \ {Picked(T)}]
             /\ ig[T] = IF T = {} THEN 0 ELSE g[Picked(T)] + ig[T \ {Picked(T)}]
    BY <1>1, <1>2 DEF SumsBy
<1>4. Holds({})
    <2>1. if[{}] = 0 /\ ig[{}] = 0
        BY <1>3
    <2>. QED  BY <2>1
<1>5. 0 \in G
    <2> SUFFICES ASSUME NEW T \in SUBSET S, Cardinality(T) <= 0 PROVE Holds(T)
        BY DEF UpTo
    <2>1. Cardinality(T) \in Nat /\ (Cardinality(T) = 0 <=> T = {})
        BY PickedOne
    <2>2. T = {}
        BY <2>1
    <2>. QED  BY <2>2, <1>4
<1>6. ASSUME NEW n \in G PROVE n + 1 \in G
    <2> SUFFICES ASSUME NEW T \in SUBSET S, Cardinality(T) <= n + 1, T # {}
                 PROVE  Holds(T)
        <3> HIDE DEF Holds
        <3>. QED  BY <1>4 DEF UpTo
    <2> DEFINE rest == T \ {Picked(T)}
    <2>1. Picked(T) \in S /\ rest \in UpTo(S, n)
        BY PickedOne DEF UpTo
    <2>2. Holds(rest)
        BY <2>1
    <2>3. f[Picked(T)] \in Nat /\ g[Picked(T)] \in Nat
          /\ f[Picked(T)] <= g[Picked(T)]
        BY <2>1
    <2>4. if[T] = f[Picked(T)] + if[rest] /\ ig[T] = g[Picked(T)] + ig[rest]
        BY <1>3
    <2>. QED  BY <2>2, <2>3, <2>4
<1> HIDE DEF Holds
<1>7. G = Nat
    BY <1>5, <1>6, EveryNat
<1>8. Cardinality(S) \in Nat /\ S \in UpTo(S, Cardinality(S))
    BY FS_CardinalityType, PickedOne DEF UpTo
<1>9. Holds(S)
    BY <1>7, <1>8
<1>. QED  BY <1>1, <1>2, <1>9 DEF Holds

\* Nothing occupies nothing.
LEMMA SumEmpty ==
    ASSUME NEW D, NEW f \in [D -> Nat]
    PROVE  SumFunctionOnSet(f, {}) = 0
<1>1. IsFiniteSet({}) /\ {} \in SUBSET D
    BY FS_EmptySet
<1>2. PICK it : SumsBy(f, SUBSET {}, it) /\ SumFunctionOnSet(f, {}) = it[{}]
    BY <1>1, SumIs
<1>3. {} \in SUBSET {}
    OBVIOUS
<1>. QED  BY <1>2, <1>3 DEF SumsBy

-----------------------------------------------------------------------------
(* The rounds of a retention pass.                                          *)

\* Every finite set of sessions that is not empty has an oldest one.
LEMMA OldestExists ==
    ASSUME NEW some \in SUBSET Sessions, some # {},
           NEW order \in [Sessions -> Nat]
    PROVE  /\ Oldest(some, order) \in some
           /\ \A r \in some : order[Oldest(some, order)] <= order[r]
<1> DEFINE less == OpToRel(<, Nat)
           ages == {order[s] : s \in some}
<1>1. IsWellFoundedOn(less, Nat)
    BY NatLessThanWellFounded
<1>2. \A m, n \in Nat : m < n => <<m, n>> \in less
    BY DEF OpToRel
<1> HIDE DEF less
<1>3. ages \in SUBSET Nat /\ ages # {}
    OBVIOUS
<1>4. PICK x \in ages : \A y \in ages : ~ (<<y, x>> \in less)
    BY <1>1, <1>3, WFMin
<1>5. PICK s \in some : order[s] = x
    OBVIOUS
<1>6. \A r \in some : order[s] <= order[r]
    <2> SUFFICES ASSUME NEW r \in some PROVE order[s] <= order[r]
        OBVIOUS
    <2>1. order[r] \in ages /\ order[r] \in Nat /\ order[s] \in Nat
        OBVIOUS
    <2>2. ~(order[r] < order[s])
        BY <1>2, <1>4, <1>5, <2>1
    <2>. QED  BY <2>1, <2>2
<1>. QED  BY <1>6 DEF Oldest

\* The rounds of a pass follow one another from the candidates on.
LEMMA RoundsFollow ==
    ASSUME NEW order
    PROVE  /\ Cardinality(Sessions) \in Nat
           /\ Rounds(order)[0] = [left |-> Candidates, gone |-> {}]
           /\ \A n \in 1..Cardinality(Sessions) :
                 Rounds(order)[n] = NextRound(Rounds(order)[n - 1], order)
<1> DEFINE N == Cardinality(Sessions)
           first == [left |-> Candidates, gone |-> {}]
           Has(n, it) == it = [k \in 0..n |-> IF k = 0 THEN first
                                              ELSE NextRound(it[k - 1], order)]
           G == {n \in Nat : \E it : Has(n, it)}
<1>1. N \in Nat
    BY FS_CardinalityType, RetentionConstants
<1> HIDE DEF N, first
<1>2. 0 \in G
    <2>1. Has(0, [k \in 0..0 |-> first])
        OBVIOUS
    <2> HIDE DEF Has
    <2>. QED  BY <2>1
<1>3. ASSUME NEW n \in G PROVE n + 1 \in G
    <2>1. PICK old : Has(n, old)
        OBVIOUS
    <2> DEFINE it == [k \in 0..(n + 1) |-> IF k = n + 1 THEN NextRound(old[n], order)
                                           ELSE old[k]]
    <2>2. \A k \in 0..n : it[k] = old[k]
        OBVIOUS
    <2>3. \A k \in 0..(n + 1) :
             it[k] = IF k = 0 THEN first ELSE NextRound(it[k - 1], order)
        <3> SUFFICES ASSUME NEW k \in 0..(n + 1)
                     PROVE  it[k] = IF k = 0 THEN first ELSE NextRound(it[k - 1], order)
            OBVIOUS
        <3>1. CASE k = n + 1
            BY <3>1, <2>2
        <3>2. CASE k \in 0..n
            <4>1. it[k] = old[k] /\ (k # 0 => k - 1 \in 0..n)
                BY <3>2
            <4>2. old[k] = IF k = 0 THEN first ELSE NextRound(old[k - 1], order)
                BY <2>1, <3>2
            <4>. QED  BY <4>1, <4>2, <2>2
        <3>. QED  BY <3>1, <3>2
    <2>4. Has(n + 1, it)
        BY <2>3
    <2> HIDE DEF Has, it
    <2>. QED  BY <2>4
<1>4. G = Nat
    <2> HIDE DEF Has
    <2>. QED  BY <1>2, <1>3, EveryNat
<1>5. PICK it : Has(N, it)
    <2> HIDE DEF Has
    <2>. QED  BY <1>1, <1>4
<1>6. Has(N, Rounds(order))
    BY <1>5 DEF Rounds, N, first
<1>7. \A k \in 0..N : Rounds(order)[k] = IF k = 0 THEN first
                         ELSE NextRound(Rounds(order)[k - 1], order)
    BY <1>6
<1>8. 0 \in 0..N /\ \A n \in 1..N : n \in 0..N /\ n # 0
    BY <1>1
<1>9. Rounds(order)[0] = first
      /\ \A n \in 1..N : Rounds(order)[n] = NextRound(Rounds(order)[n - 1], order)
    BY <1>7, <1>8
<1>. QED  BY <1>1, <1>9 DEF N, first

\* What every round of a pass keeps to: it takes the oldest first, passes over
\* the leased ones, stops where the rest fits, and its last removal was due.
RoundOK(order, n, r) ==
    /\ r.left \subseteq Candidates /\ r.gone \subseteq Candidates \ r.left
    /\ \A s \in r.gone : leases[s] = 0
    /\ \A s \in Candidates \ (r.left \union r.gone) : leases[s] > 0
    /\ \A s \in Candidates \ r.left : \A t \in r.left : order[s] <= order[t]
    /\ \/ r.left = {} \/ Fits(Objects \ r.gone)
       \/ Cardinality(r.left) = Cardinality(Candidates) - n
    /\ r.gone # {} =>
          \E last \in r.gone : ~Fits(Objects \ (r.gone \ {last}))

\* The candidates of a pass are finite in number.
LEMMA CandidatesFinite ==
    ASSUME StoreTypeOK
    PROVE  /\ Candidates \subseteq Objects /\ Objects \subseteq Sessions
           /\ \A T \in SUBSET Sessions : /\ IsFiniteSet(T)
                                         /\ Cardinality(T) \in Nat
                                         /\ Cardinality(T) <= Cardinality(Sessions)
                                         /\ Cardinality(T) = 0 <=> T = {}
<1>1. Candidates \subseteq Objects /\ Objects \subseteq Sessions
    BY DEF Candidates, Objects, StoreTypeOK
<1>. QED  BY <1>1, PickedOne, RetentionConstants

\* One round keeps to it.
LEMMA RoundKeeps ==
    ASSUME StoreTypeOK, NEW order \in [Sessions -> Nat], NEW n \in Nat,
           NEW was, RoundOK(order, n, was)
    PROVE  RoundOK(order, n + 1, NextRound(was, order))
<1>1. CASE was.left = {} \/ Fits(Objects \ was.gone)
    <2>1. NextRound(was, order) = was
        BY <1>1 DEF NextRound
    <2>2. RoundOK(order, n + 1, was)
        <3> HIDE DEF Fits
        <3>. QED  BY <1>1 DEF RoundOK
    <2>. QED  BY <2>1, <2>2
<1>2. CASE ~(was.left = {} \/ Fits(Objects \ was.gone))
    <2> DEFINE next == Oldest(was.left, order)
               left == was.left \ {next}
               gone == IF leases[next] > 0 THEN was.gone ELSE was.gone \union {next}
    <2>1. NextRound(was, order).left = left /\ NextRound(was, order).gone = gone
        BY <1>2 DEF NextRound
    <2>2. was.left \in SUBSET Sessions /\ was.left \subseteq Candidates
        BY CandidatesFinite DEF RoundOK
    <2>3. next \in was.left /\ \A t \in was.left : order[next] <= order[t]
        BY <1>2, <2>2, OldestExists
    <2>4. next \notin was.gone /\ next \in Candidates /\ next \in Sessions
        BY <2>2, <2>3 DEF RoundOK
    <2>5. leases[next] \in Nat
        BY <2>4 DEF StoreTypeOK
    <2>6. Cardinality(left) = Cardinality(was.left) - 1
        <3>1. IsFiniteSet(was.left)
            BY <2>2, CandidatesFinite
        <3>. QED  BY <2>3, <3>1, FS_RemoveElement
    <2>7. Cardinality(was.left) \in Nat /\ Cardinality(Candidates) \in Nat
        BY <2>2, CandidatesFinite
    <2>8. Cardinality(was.left) = Cardinality(Candidates) - n
        BY <1>2 DEF RoundOK
    <2> HIDE DEF next
    <2>a. left \subseteq Candidates /\ gone \subseteq Candidates \ left
        BY <2>2, <2>3, <2>4 DEF RoundOK
    <2>b. \A s \in gone : leases[s] = 0
        BY <2>5 DEF RoundOK
    <2>c. \A s \in Candidates \ (left \union gone) : leases[s] > 0
        BY DEF RoundOK
    <2>d. \A s \in Candidates \ left : \A t \in left : order[s] <= order[t]
        BY <2>3 DEF RoundOK
    <2>e. Cardinality(left) = Cardinality(Candidates) - (n + 1)
        BY <2>6, <2>7, <2>8
    <2>f. gone # {} => \E last \in gone : ~Fits(Objects \ (gone \ {last}))
        <3>1. CASE leases[next] > 0
            BY <3>1 DEF RoundOK
        <3>2. CASE ~(leases[next] > 0)
            <4>1. gone \ {next} = was.gone /\ next \in gone
                BY <3>2, <2>4
            <4> HIDE DEF gone
            <4>2. ~Fits(Objects \ (gone \ {next}))
                BY <4>1, <1>2
            <4>. QED  BY <4>1, <4>2
        <3>. QED  BY <3>1, <3>2
    <2> HIDE DEF left, gone
    <2>. QED  BY <2>1, <2>a, <2>b, <2>c, <2>d, <2>e, <2>f DEF RoundOK
<1>. QED  BY <1>1, <1>2

\* So all of them do.
LEMMA RoundsOK ==
    ASSUME StoreTypeOK, NEW order \in [Sessions -> Nat]
    PROVE  \A n \in 0..Cardinality(Sessions) : RoundOK(order, n, Rounds(order)[n])
<1> DEFINE N == Cardinality(Sessions)
           G == {n \in Nat : n <= N => RoundOK(order, n, Rounds(order)[n])}
<1>1. N \in Nat
    BY RoundsFollow
<1>2. 0 \in G
    <2> DEFINE r == [left |-> Candidates, gone |-> {}]
    <2>1. Cardinality(Candidates) \in Nat
        BY CandidatesFinite
    <2>2. RoundOK(order, 0, r)
        BY <2>1 DEF RoundOK
    <2>. QED  BY <2>2, RoundsFollow
<1>3. ASSUME NEW n \in G PROVE n + 1 \in G
    <2> SUFFICES ASSUME n + 1 <= N
                 PROVE  RoundOK(order, n + 1, Rounds(order)[n + 1])
        OBVIOUS
    <2>1. n \in Nat /\ n + 1 \in 1..N /\ (n + 1) - 1 = n
        BY <1>1
    <2>2. RoundOK(order, n, Rounds(order)[n])
        BY <1>1
    <2>3. Rounds(order)[n + 1] = NextRound(Rounds(order)[n], order)
        BY <2>1, RoundsFollow
    <2>. QED  BY <2>1, <2>2, <2>3, RoundKeeps
<1>4. G = Nat
    BY <1>2, <1>3, EveryNat
<1>. QED  BY <1>1, <1>4

\* What a pass may remove, however far it came: sessions that are finished or
\* invalid and that nobody reads, no session but after the older ones, and
\* nothing while the rest fits (enforce_retention).
RemovalOK(order, gone) ==
    /\ gone \subseteq Candidates
    /\ \A s \in gone : leases[s] = 0
    /\ \A young \in gone : \A old \in Candidates :
          leases[old] = 0 /\ order[old] < order[young] => old \in gone
    /\ gone # {} => \E last \in gone : ~Fits(Objects \ (gone \ {last}))

\* What is gone after a round may be removed: the older ones went before.
LEMMA RemovalFromRound ==
    ASSUME StoreTypeOK, NEW order \in [Sessions -> Nat],
           NEW n, NEW r, RoundOK(order, n, r)
    PROVE  RemovalOK(order, r.gone)
<1>1. ASSUME NEW young \in r.gone, NEW old \in Candidates,
             leases[old] = 0, order[old] < order[young]
      PROVE  old \in r.gone
    <2>1. old \in Sessions /\ young \in Sessions /\ young \in Candidates \ r.left
        BY CandidatesFinite DEF RoundOK
    <2>2. ~(order[young] <= order[old]) /\ ~(leases[old] > 0)
        BY <1>1, <2>1
    <2>3. old \notin r.left
        BY <2>1, <2>2 DEF RoundOK
    <2>. QED  BY <2>2, <2>3 DEF RoundOK
<1>. QED  BY <1>1 DEF RoundOK, RemovalOK

\* The orders of a pass are orders by natural numbers.
LEMMA OrdersNat ==
    ASSUME StoreTypeOK, NEW order \in Orders
    PROVE  /\ order \in [Sessions -> Nat]
           /\ \A s \in Sessions : Listed(s) => order[s] = created[s]
BY DEF Orders, StoreTypeOK

\* A complete pass: what it keeps fits, or is active or read by a download.
LEMMA EvictionOK ==
    ASSUME StoreTypeOK, NEW order \in Orders
    PROVE  /\ RemovalOK(order, Evicted(order))
           /\ \/ Fits(Objects \ Evicted(order))
              \/ \A s \in Objects \ Evicted(order) :
                    status[s] = "active" \/ leases[s] > 0
<1> DEFINE N == Cardinality(Sessions)
           r == Rounds(order)[N]
<1>1. order \in [Sessions -> Nat]
    BY OrdersNat
<1>2. N \in Nat
    BY RoundsFollow
<1>3. RoundOK(order, N, r)
    BY <1>1, <1>2, RoundsOK
<1> HIDE DEF N, r
<1>4. RemovalOK(order, r.gone)
    BY <1>1, <1>3, RemovalFromRound
<1>5. Fits(Objects \ r.gone) \/ r.left = {}
    <2>1. r.left \in SUBSET Sessions /\ Candidates \in SUBSET Sessions
        BY <1>3, CandidatesFinite DEF RoundOK
    <2>2. /\ Cardinality(r.left) \in Nat /\ (Cardinality(r.left) = 0 <=> r.left = {})
          /\ Cardinality(Candidates) \in Nat /\ Cardinality(Candidates) <= N
        BY <2>1, CandidatesFinite DEF N
    <2>3. Cardinality(r.left) = Cardinality(Candidates) - N => r.left = {}
        BY <1>2, <2>2
    <2>. QED  BY <1>3, <2>3 DEF RoundOK
<1>6. r.left = {} => \A s \in Objects \ r.gone : status[s] = "active" \/ leases[s] > 0
    BY <1>3 DEF RoundOK, Candidates
<1>. QED  BY <1>4, <1>5, <1>6 DEF Evicted, N, r

\* A pass that stops, by an error or by a crash: what it removed, and the
\* session whose removal it left unfinished.
LEMMA RemovalsOK ==
    ASSUME StoreTypeOK, NEW removal \in Removals
    PROVE  \E order \in Orders :
              /\ RemovalOK(order, removal[1])
              /\ removal[2] \in Candidates \ removal[1]
              /\ leases[removal[2]] = 0
<1> DEFINE N == Cardinality(Sessions)
<1>1. PICK order \in Orders, n \in 1..N :
         removal \in {<<Rounds(order)[n - 1].gone, s>> :
                         s \in Rounds(order)[n].gone \ Rounds(order)[n - 1].gone}
    BY DEF Removals
<1>2. order \in [Sessions -> Nat] /\ N \in Nat
    BY OrdersNat, RoundsFollow
<1>3. n \in 0..N /\ n - 1 \in 0..N
    BY <1>2
<1>4. RoundOK(order, n, Rounds(order)[n]) /\ RoundOK(order, n - 1, Rounds(order)[n - 1])
    BY <1>2, <1>3, RoundsOK
<1>5. RemovalOK(order, Rounds(order)[n - 1].gone)
    BY <1>2, <1>4, RemovalFromRound
<1>6. \A s \in Rounds(order)[n].gone : s \in Candidates /\ leases[s] = 0
    BY <1>4 DEF RoundOK
<1>. QED  BY <1>1, <1>5, <1>6

-----------------------------------------------------------------------------
(* The inductive invariant.                                                 *)

Readers(s) == {d \in Downloads : reading[d] = s}

\* A session has as many leases as downloads that read it (lease_evidence).
LeasesCounted == \A s \in Sessions : leases[s] = Cardinality(Readers(s))

\* A listed session has its directory; without a write that was cut the size it is
\* taken to have is not less than the size of its evidence, and no file that it does
\* not count lies beside its metadata; nothing is stored for one never created.
Backed ==
    \A s \in Sessions :
       /\ Listed(s) => s \in present /\ (s \notin uncounted => evidence[s] <= cached[s])
       /\ {"metadata", Stray} \subseteq files[s] => s \in uncounted
       /\ created[s] = 0 => s \notin present /\ evidence[s] = 0

StoreInd == StoreTypeOK /\ LeasesCounted /\ Backed /\ ProtectedStored /\ QuietStoreFits

\* What the leases say of the downloads.
LEMMA LeaseFacts ==
    ASSUME StoreTypeOK, LeasesCounted, NEW s \in Sessions
    PROVE  /\ \A d \in Downloads : reading[d] = s => leases[s] > 0
           /\ (\A d \in Downloads : reading[d] # s) => leases[s] = 0
           /\ IsFiniteSet(Readers(s)) /\ Readers(s) \subseteq Downloads
<1>1. Readers(s) \in SUBSET Downloads /\ leases[s] = Cardinality(Readers(s))
    BY DEF Readers, LeasesCounted
<1>2. /\ Cardinality(Readers(s)) \in Nat
      /\ Cardinality(Readers(s)) = 0 <=> Readers(s) = {}
      /\ IsFiniteSet(Readers(s))
    BY <1>1, PickedOne, RetentionConstants
<1>3. ASSUME NEW d \in Downloads, reading[d] = s PROVE leases[s] > 0
    <2>1. Readers(s) # {}
        BY <1>3 DEF Readers
    <2>. QED  BY <1>1, <1>2, <2>1
<1>4. ASSUME \A d \in Downloads : reading[d] # s PROVE leases[s] = 0
    <2>1. Readers(s) = {}
        BY <1>4 DEF Readers
    <2>. QED  BY <1>1, <1>2, <2>1
<1>. QED  BY <1>1, <1>2, <1>3, <1>4

\* A session that a pass may remove is neither active nor read by a download.
LEMMA RemovedUnprotected ==
    ASSUME StoreInd, NEW s \in Candidates, leases[s] = 0
    PROVE  s \in Sessions /\ status[s] # "active" /\ \A d \in Downloads : reading[d] # s
<1>1. StoreTypeOK /\ LeasesCounted
    BY DEF StoreInd
<1>2. s \in Sessions /\ status[s] # "active"
    BY <1>1, CandidatesFinite DEF Candidates
<1>3. ASSUME NEW d \in Downloads, reading[d] = s PROVE FALSE
    <2>1. leases[s] > 0
        BY <1>1, <1>2, <1>3, LeaseFacts
    <2>. QED  BY <2>1
<1>. QED  BY <1>2, <1>3

\* Sizes are sizes, no session is taken for smaller than its directory, and what
\* counts towards the bounds is what has a directory (_storage_objects_locked).
LEMMA Sizes ==
    ASSUME StoreTypeOK, Backed
    PROVE  /\ Bytes \in [Sessions -> Nat] /\ DirectorySize \in [Sessions -> Nat]
           /\ \A s \in Sessions \ uncounted : DirectorySize[s] <= Bytes[s]
           /\ Objects = present
<1>1. \A s \in Sessions : evidence[s] \in Nat /\ cached[s] \in Nat
    BY RetentionConstants DEF StoreTypeOK
<1>2. DirectorySize \in [Sessions -> Nat]
    BY <1>1 DEF DirectorySize, MetadataBytes
<1>3. Bytes \in [Sessions -> Nat]
    BY <1>1, <1>2 DEF Bytes, MetadataBytes
<1>4. \A s \in Sessions \ uncounted : DirectorySize[s] <= Bytes[s]
    <2> SUFFICES ASSUME NEW s \in Sessions \ uncounted
                 PROVE  DirectorySize[s] <= Bytes[s]
        OBVIOUS
    <2>1. CASE Listed(s)
        <3>1. /\ evidence[s] <= cached[s] /\ Bytes[s] = cached[s] + 1
              /\ ~("metadata" \in files[s] /\ Stray \in files[s])
            BY <2>1 DEF Bytes, MetadataBytes, Backed
        <3>2. DirectorySize[s] \in {evidence[s], evidence[s] + 1}
            BY <1>1, <3>1 DEF DirectorySize, MetadataBytes
        <3>. QED  BY <1>1, <3>1, <3>2
    <2>2. CASE ~Listed(s)
        <3>1. Bytes[s] = DirectorySize[s] /\ DirectorySize[s] \in Nat
            BY <1>2, <2>2 DEF Bytes
        <3>. QED  BY <3>1
    <2>. QED  BY <2>1, <2>2
<1>5. Objects = present
    BY DEF Objects, Backed, StoreTypeOK
<1>. QED  BY <1>2, <1>3, <1>4, <1>5

\* The leases count the downloads as long as neither changes.
LEMMA LeasesStay ==
    ASSUME LeasesCounted, UNCHANGED <<leases, reading>>
    PROVE  LeasesCounted'
BY DEF LeasesCounted, Readers

\* A quiet store that nothing happens to stays one that fits.
LEMMA QuietStays ==
    ASSUME QuietStoreFits,
           UNCHANGED <<present, files, evidence, status, cached, leases>>,
           UNCHANGED <<up, sweeps, stopped, uncounted>>
    PROVE  QuietStoreFits'
BY DEF QuietStoreFits, WithinBounds, StoreFits, Fits, Objects, Bytes, Listed,
       DirectorySize

\* A store with a pass due, with something protected or after a pass that
\* stopped is not quiet.
LEMMA NotQuiet ==
    ASSUME \/ ~up' \/ sweeps' # 0 \/ stopped'
           \/ \E s \in Sessions : status'[s] = "active" \/ leases'[s] # 0
    PROVE  QuietStoreFits'
<1>1. CASE ~up' \/ sweeps' # 0 \/ stopped'
    BY <1>1 DEF QuietStoreFits
<1>2. CASE \E s \in Sessions : status'[s] = "active" \/ leases'[s] # 0
    BY <1>2 DEF QuietStoreFits
<1>. QED  BY <1>1, <1>2

\* What a write that is cut leaves behind (append, _write_metadata_locked).
LEMMA CutEffect ==
    ASSUME StoreTypeOK, NEW s \in Sessions, CutWrite(s)
    PROVE  /\ files' \in [Sessions -> SUBSET (Files \union {Stray})]
           /\ evidence' \in [Sessions -> 0..SessionBytes]
           /\ \A t \in Sessions : files[t] \subseteq files'[t]
           /\ \A t \in Sessions \ {s} : files'[t] = files[t] /\ evidence'[t] = evidence[t]
           /\ Listed(s)
<1>1. CASE /\ status[s] = "active" /\ evidence[s] < SessionBytes
           /\ evidence' = [evidence EXCEPT ![s] = @ + 1]
           /\ UNCHANGED files
    <2>1. evidence[s] + 1 \in 0..SessionBytes
        BY <1>1, RetentionConstants DEF StoreTypeOK
    <2>. QED  BY <1>1, <2>1 DEF StoreTypeOK, Listed
<1>2. CASE /\ Listed(s)
           /\ files' = [files EXCEPT ![s] = @ \union {Stray}]
           /\ UNCHANGED evidence
    BY <1>2 DEF StoreTypeOK
<1>. QED  BY <1>1, <1>2 DEF CutWrite

\* A new session is active and has both files (create_recorder).
LEMMA CreateKeeps ==
    ASSUME StoreInd, NEW s \in Sessions, Create(s)
    PROVE  StoreInd'
<1>1. /\ created[s] = 0 /\ clock' = clock + 1
      /\ created' = [created EXCEPT ![s] = clock']
      /\ present' = present \union {s} /\ files' = [files EXCEPT ![s] = Files]
      /\ status' = [status EXCEPT ![s] = "active"]
      /\ UNCHANGED <<evidence, cached, leases, up, reading, sweeps, stopped>>
      /\ UNCHANGED <<uncounted, faults, crashes>>
    BY DEF Create, Works, process
<1> USE DEF StoreInd
<1>2. StoreTypeOK'
    BY <1>1 DEF StoreTypeOK
<1>3. LeasesCounted'
    BY <1>1, LeasesStay
<1>4. Backed'
    BY <1>1, RetentionConstants DEF StoreTypeOK, Backed, Listed, Files, Stray
<1>5. ProtectedStored'
    BY <1>1 DEF ProtectedStored, StoreTypeOK, Files
<1>6. QuietStoreFits'
    <2>1. status'[s] = "active"
        BY <1>1 DEF StoreTypeOK
    <2>. QED  BY <2>1, NotQuiet
<1>. QED  BY <1>2, <1>3, <1>4, <1>5, <1>6

\* A creation that fails lists nothing, whatever directory it leaves behind
\* (create_recorder).
LEMMA CreateFailsKeeps ==
    ASSUME StoreInd, NEW s \in Sessions, CreateFails(s)
    PROVE  StoreInd'
<1>1. /\ created[s] = 0 /\ clock' = clock + 1
      /\ created' = [created EXCEPT ![s] = clock']
      /\ UNCHANGED <<evidence, status, cached, leases, up, reading, sweeps>>
      /\ faults' = faults + 1 /\ UNCHANGED <<uncounted, crashes>>
    BY DEF CreateFails, Fault, process, store
<1>2. \/ UNCHANGED <<present, files, stopped>>
      \/ /\ present' = present \union {s}
         /\ \E left \in PartlyCreated : files' = [files EXCEPT ![s] = left]
         /\ stopped' = TRUE
    BY DEF CreateFails
<1> USE DEF StoreInd
<1>3. s \notin present /\ ~Listed(s) /\ \A d \in Downloads : reading[d] # s
    BY <1>1, RetentionConstants DEF Backed, ProtectedStored, StoreTypeOK
<1>4. StoreTypeOK'
    <2>1. present' \subseteq Sessions /\ stopped' \in BOOLEAN
        BY <1>2 DEF StoreTypeOK
    <2>2. files' \in [Sessions -> SUBSET (Files \union {Stray})]
        BY <1>2 DEF StoreTypeOK, PartlyCreated
    <2>3. created' \in [Sessions -> Nat] /\ clock' \in Nat /\ faults' \in Nat
        BY <1>1 DEF StoreTypeOK
    <2>4. /\ evidence' \in [Sessions -> 0..SessionBytes]
          /\ status' \in [Sessions -> {"none", "active", "closed"}]
          /\ cached' \in [Sessions -> 0..SessionBytes]
          /\ leases' \in [Sessions -> 0..Cardinality(Downloads)]
          /\ up' \in BOOLEAN /\ reading' \in [Downloads -> Sessions \union {None}]
          /\ sweeps' \in Nat /\ crashes' \in Nat /\ uncounted' \subseteq Sessions
        BY <1>1 DEF StoreTypeOK
    <2>. QED  BY <2>1, <2>2, <2>3, <2>4 DEF StoreTypeOK
<1>5. LeasesCounted'
    BY <1>1, LeasesStay
<1>6. Backed'
    BY <1>1, <1>2, <1>3 DEF StoreTypeOK, Backed, Listed, PartlyCreated
<1>7. ProtectedStored'
    BY <1>1, <1>2, <1>3 DEF ProtectedStored, StoreTypeOK, Files, Listed
<1>8. QuietStoreFits'
    BY <1>1, <1>2, QuietStays, NotQuiet
<1>. QED  BY <1>4, <1>5, <1>6, <1>7, <1>8

\* A record grows the evidence of an active session and its cached size alike
\* (append).
LEMMA AppendKeeps ==
    ASSUME StoreInd, NEW s \in Sessions, Append(s)
    PROVE  StoreInd'
<1>1. /\ status[s] = "active" /\ evidence[s] < SessionBytes
      /\ evidence' = [evidence EXCEPT ![s] = @ + 1]
      /\ cached' = [cached EXCEPT ![s] = evidence'[s]]
      /\ UNCHANGED <<present, files, created, status, leases, up, reading, sweeps>>
      /\ UNCHANGED <<stopped, uncounted, clock, faults, crashes>>
    BY DEF Append, Works, process
<1> USE DEF StoreInd
<1>2. evidence[s] + 1 \in 0..SessionBytes
    BY <1>1, RetentionConstants DEF StoreTypeOK
<1>3. StoreTypeOK'
    BY <1>1, <1>2 DEF StoreTypeOK
<1>4. LeasesCounted'
    BY <1>1, LeasesStay
<1>5. Backed'
    BY <1>1, <1>2 DEF StoreTypeOK, Backed, Listed
<1>6. ProtectedStored'
    BY <1>1 DEF ProtectedStored
<1>7. QuietStoreFits'
    BY <1>1, NotQuiet
<1>. QED  BY <1>3, <1>4, <1>5, <1>6, <1>7

\* A write that is cut takes no file away and leaves the count of the store alone
\* (append, finish).
LEMMA WriteFailsKeeps ==
    ASSUME StoreInd, NEW s \in Sessions, WriteFails(s)
    PROVE  StoreInd'
<1>1. /\ faults' = faults + 1 /\ uncounted' = uncounted \union {s}
      /\ UNCHANGED <<present, created, status, cached, leases, up, reading, sweeps>>
      /\ UNCHANGED <<stopped, clock, crashes>>
    BY DEF WriteFails, CutWrite, Fault, store, process
<1> USE DEF StoreInd
<1>2. CutWrite(s)
    BY DEF WriteFails
<1>3. /\ files' \in [Sessions -> SUBSET (Files \union {Stray})]
      /\ evidence' \in [Sessions -> 0..SessionBytes]
      /\ \A t \in Sessions : files[t] \subseteq files'[t]
      /\ \A t \in Sessions \ {s} : files'[t] = files[t] /\ evidence'[t] = evidence[t]
      /\ Listed(s)
    BY <1>2, CutEffect
<1>4. StoreTypeOK'
    <2>1. faults' \in Nat /\ uncounted' \subseteq Sessions
        BY <1>1 DEF StoreTypeOK
    <2>. QED  BY <1>1, <1>3, <2>1 DEF StoreTypeOK
<1>5. LeasesCounted'
    BY <1>1, LeasesStay
<1>6. s \in present /\ created[s] # 0
    BY <1>3 DEF Backed
<1>7. Backed'
    BY <1>1, <1>3, <1>6 DEF Backed, Listed
<1>8. ProtectedStored'
    BY <1>1, <1>3 DEF ProtectedStored, StoreTypeOK
<1>9. QuietStoreFits'
    <2>1. CASE status[s] = "active"
        BY <1>1, <2>1, NotQuiet
    <2>2. CASE UNCHANGED evidence
        <3>1. Objects' = Objects
            BY <1>1 DEF Objects, Listed
        <3>2. Bytes' = Bytes
            <4>1. \A t \in Sessions : Listed(t)' = Listed(t)
                BY <1>1 DEF Listed
            <4>2. \A t \in Sessions : ~Listed(t) => DirectorySize'[t] = DirectorySize[t]
                BY <1>3, <2>2 DEF DirectorySize
            <4>. QED  BY <1>1, <4>1, <4>2 DEF Bytes
        <3>3. (up /\ sweeps = 0 /\ ~stopped
               /\ \A t \in Sessions : status[t] # "active" /\ leases[t] = 0)
              => Fits(Objects)
            BY DEF QuietStoreFits, WithinBounds
        <3>4. Fits(Objects)' = Fits(Objects)
            BY <3>1, <3>2 DEF Fits
        <3>. QED  BY <1>1, <1>6, <3>3, <3>4 DEF QuietStoreFits, WithinBounds
    <2>. QED  BY <1>2, <2>1, <2>2 DEF CutWrite
<1>. QED  BY <1>4, <1>5, <1>7, <1>8, <1>9

\* A session that ends is no longer protected, but a pass is due (finish).
LEMMA FinishKeeps ==
    ASSUME StoreInd, NEW s \in Sessions, Finish(s)
    PROVE  StoreInd'
<1>1. /\ status[s] = "active"
      /\ status' = [status EXCEPT ![s] = "closed"] /\ sweeps' = sweeps + 1
      /\ UNCHANGED <<present, files, evidence, created, cached, leases, up, reading>>
      /\ UNCHANGED <<stopped, uncounted, clock, faults, crashes>>
    BY DEF Finish, Works, disk
<1> USE DEF StoreInd
<1>2. StoreTypeOK'
    BY <1>1 DEF StoreTypeOK
<1>3. LeasesCounted'
    BY <1>1, LeasesStay
<1>4. Backed'
    BY <1>1 DEF StoreTypeOK, Backed, Listed
<1>5. ProtectedStored'
    BY <1>1 DEF ProtectedStored, StoreTypeOK
<1>6. QuietStoreFits'
    <2>1. sweeps' # 0
        BY <1>1 DEF StoreTypeOK
    <2>. QED  BY <2>1, NotQuiet
<1>. QED  BY <1>2, <1>3, <1>4, <1>5, <1>6

\* A download that begins finds the evidence and adds itself to the leases
\* (lease_evidence).
LEMMA LeaseKeeps ==
    ASSUME StoreInd, NEW d \in Downloads, NEW s \in Sessions, Lease(d, s)
    PROVE  StoreInd'
<1>1. /\ reading[d] = None /\ Listed(s) /\ "evidence" \in files[s]
      /\ reading' = [reading EXCEPT ![d] = s]
      /\ leases' = [leases EXCEPT ![s] = @ + 1]
      /\ UNCHANGED <<present, files, evidence, created, status, cached, up, sweeps>>
      /\ UNCHANGED <<stopped, uncounted, clock, faults, crashes>>
    BY DEF Lease, Works, disk
<1> USE DEF StoreInd
<1>2. /\ Readers(s)' = Readers(s) \union {d} /\ d \notin Readers(s)
      /\ \A t \in Sessions \ {s} : Readers(t)' = Readers(t)
    BY <1>1, RetentionConstants DEF Readers, StoreTypeOK
<1>3. /\ IsFiniteSet(Readers(s)) /\ leases[s] = Cardinality(Readers(s))
      /\ Readers(s) \subseteq Downloads
    BY LeaseFacts DEF LeasesCounted
<1>4. Cardinality(Readers(s)') = leases[s] + 1
    <2>1. Cardinality(Readers(s) \union {d}) = Cardinality(Readers(s)) + 1
        BY <1>2, <1>3, FS_AddElement
    <2>. QED  BY <1>2, <1>3, <2>1
<1>5. Cardinality(Readers(s)') <= Cardinality(Downloads)
      /\ Cardinality(Downloads) \in Nat
    BY <1>2, <1>3, FS_Subset, FS_CardinalityType, RetentionConstants
<1>6. leases[s] \in Nat /\ leases[s] + 1 \in 0..Cardinality(Downloads)
    BY <1>4, <1>5 DEF StoreTypeOK
<1>7. StoreTypeOK'
    BY <1>1, <1>6 DEF StoreTypeOK
<1>8. LeasesCounted'
    BY <1>1, <1>2, <1>4 DEF LeasesCounted, StoreTypeOK
<1>9. Backed'
    BY <1>1 DEF Backed, Listed
<1>10. ProtectedStored'
    BY <1>1 DEF ProtectedStored, StoreTypeOK, Backed
<1>11. QuietStoreFits'
    <2>1. leases'[s] # 0
        BY <1>1, <1>6 DEF StoreTypeOK
    <2>. QED  BY <2>1, NotQuiet
<1>. QED  BY <1>7, <1>8, <1>9, <1>10, <1>11

\* A download that ends takes only its own lease away (lease_evidence).
LEMMA ReleaseKeeps ==
    ASSUME StoreInd, NEW d \in Downloads, Release(d)
    PROVE  StoreInd'
<1> DEFINE s == reading[d]
<1>1. /\ s # None
      /\ reading' = [reading EXCEPT ![d] = None]
      /\ leases' = [leases EXCEPT ![s] = @ - 1] /\ sweeps' = sweeps + 1
      /\ UNCHANGED <<present, files, evidence, created, status, cached, up>>
      /\ UNCHANGED <<stopped, uncounted, clock, faults, crashes>>
    BY DEF Release, Works, disk
<1> USE DEF StoreInd
<1>2. s \in Sessions
    BY <1>1 DEF StoreTypeOK
<1>3. /\ Readers(s) = {e \in Downloads : reading[e] = s} /\ d \in Readers(s)
      /\ {e \in Downloads : reading'[e] = s} = Readers(s) \ {d}
      /\ \A t \in Sessions \ {s} : Readers(t)' = Readers(t)
    BY <1>1, <1>2, RetentionConstants DEF Readers, StoreTypeOK
<1>4. IsFiniteSet(Readers(s)) /\ leases[s] = Cardinality(Readers(s)) /\ leases[s] > 0
    BY <1>2, LeaseFacts DEF LeasesCounted
<1>5. Cardinality(Readers(s) \ {d}) = leases[s] - 1
    BY <1>3, <1>4, FS_RemoveElement
<1>6. leases[s] - 1 \in 0..Cardinality(Downloads)
    <2>1. leases[s] \in 0..Cardinality(Downloads)
        BY <1>2 DEF StoreTypeOK
    <2>2. Cardinality(Downloads) \in Nat
        BY FS_CardinalityType, RetentionConstants
    <2>. QED  BY <2>1, <2>2, <1>4
<1>7. StoreTypeOK'
    BY <1>1, <1>2, <1>6 DEF StoreTypeOK
<1>8. LeasesCounted'
    <2> SUFFICES ASSUME NEW t \in Sessions
                 PROVE  leases'[t] = Cardinality({e \in Downloads : reading'[e] = t})
        BY DEF LeasesCounted, Readers
    <2>1. CASE t = s
        <3>1. leases'[t] = leases[s] - 1
            BY <1>1, <1>2, <2>1 DEF StoreTypeOK
        <3>2. {e \in Downloads : reading'[e] = t} = Readers(s) \ {d}
            BY <1>3, <2>1
        <3>. QED  BY <3>1, <3>2, <1>5
    <2>2. CASE t # s
        BY <1>1, <1>3, <2>2 DEF LeasesCounted, Readers, StoreTypeOK
    <2>. QED  BY <2>1, <2>2
<1>9. Backed'
    BY <1>1 DEF Backed, Listed
<1>10. ProtectedStored'
    BY <1>1 DEF ProtectedStored, StoreTypeOK
<1>11. QuietStoreFits'
    <2>1. sweeps' # 0
        BY <1>1 DEF StoreTypeOK
    <2>. QED  BY <2>1, NotQuiet
<1>. QED  BY <1>7, <1>8, <1>9, <1>10, <1>11

\* What a removal leaves as it was: every session but those it removes.
LEMMA DropEffect ==
    ASSUME StoreTypeOK, NEW gone \in SUBSET Sessions, Drop(gone)
    PROVE  /\ present' = present \ gone
           /\ files' \in [Sessions -> SUBSET (Files \union {Stray})]
           /\ evidence' \in [Sessions -> 0..SessionBytes]
           /\ status' \in [Sessions -> {"none", "active", "closed"}]
           /\ cached' \in [Sessions -> 0..SessionBytes]
           /\ \A s \in gone : ~Listed(s)' /\ evidence'[s] = 0 /\ files'[s] = {}
           /\ \A s \in Sessions \ gone :
                 /\ files'[s] = files[s] /\ evidence'[s] = evidence[s]
                 /\ status'[s] = status[s] /\ cached'[s] = cached[s]
<1>1. 0 \in 0..SessionBytes
    BY RetentionConstants
<1>2. files' \in [Sessions -> SUBSET (Files \union {Stray})]
      /\ evidence' \in [Sessions -> 0..SessionBytes]
    BY <1>1 DEF Drop, StoreTypeOK
<1>3. status' \in [Sessions -> {"none", "active", "closed"}]
      /\ cached' \in [Sessions -> 0..SessionBytes]
    BY <1>1 DEF Drop, StoreTypeOK
<1>4. \A s \in gone : status'[s] = "none" /\ evidence'[s] = 0 /\ files'[s] = {}
    BY DEF Drop
<1>5. \A s \in Sessions \ gone :
         /\ files'[s] = files[s] /\ evidence'[s] = evidence[s]
         /\ status'[s] = status[s] /\ cached'[s] = cached[s]
    BY DEF Drop
<1>6. present' = present \ gone
    BY DEF Drop
<1>. QED  BY <1>2, <1>3, <1>4, <1>5, <1>6 DEF Listed

\* A removal that stops half way leaves every session as it was but those it
\* removed and the one it was at, whose directory has lost some of its files.
LEMMA HalfEffect ==
    ASSUME StoreTypeOK, NEW gone \in SUBSET Sessions, NEW half,
           HalfRemoved(gone, half)
    PROVE  /\ present' = present \ gone /\ UNCHANGED created
           /\ files' \in [Sessions -> SUBSET (Files \union {Stray})]
           /\ evidence' \in [Sessions -> 0..SessionBytes]
           /\ \A s \in Sessions : files'[s] \subseteq files[s]
           /\ \A s \in Sessions : evidence'[s] = 0 \/ evidence'[s] = evidence[s]
           /\ \A s \in Sessions \ (gone \union {half}) :
                 files'[s] = files[s] /\ evidence'[s] = evidence[s]
<1>1. PICK left \in SUBSET files[half] :
          /\ files' = [s \in Sessions |-> IF s \in gone THEN {}
                                          ELSE IF s = half THEN left
                                          ELSE files[s]]
          /\ evidence' = [s \in Sessions |->
                            IF s \in gone \/ (s = half /\ "evidence" \notin left)
                            THEN 0 ELSE evidence[s]]
    BY DEF HalfRemoved
<1>2. 0 \in 0..SessionBytes
    BY RetentionConstants
<1>3. files' \in [Sessions -> SUBSET (Files \union {Stray})]
    BY <1>1 DEF StoreTypeOK
<1>4. evidence' \in [Sessions -> 0..SessionBytes]
    BY <1>1, <1>2 DEF StoreTypeOK
<1>5. /\ \A s \in Sessions : files'[s] \subseteq files[s]
      /\ \A s \in Sessions : evidence'[s] = 0 \/ evidence'[s] = evidence[s]
    BY <1>1
<1>6. \A s \in Sessions \ (gone \union {half}) :
         files'[s] = files[s] /\ evidence'[s] = evidence[s]
    BY <1>1
<1>7. present' = present \ gone /\ UNCHANGED created
    BY DEF HalfRemoved
<1>. QED  BY <1>3, <1>4, <1>5, <1>6, <1>7

\* What the passes of a step may remove are no protected sessions.
LEMMA RemovalSpares ==
    ASSUME StoreInd, NEW order, NEW gone, RemovalOK(order, gone)
    PROVE  /\ gone \in SUBSET Sessions /\ gone \subseteq Objects
           /\ \A s \in gone : status[s] # "active" /\ \A d \in Downloads : reading[d] # s
<1>1. gone \subseteq Candidates /\ \A s \in gone : leases[s] = 0
    BY DEF RemovalOK
<1>2. Candidates \subseteq Objects /\ Objects \subseteq Sessions
    BY CandidatesFinite DEF StoreInd
<1>. QED  BY <1>1, <1>2, RemovedUnprotected

\* The bounds a complete pass establishes: what it kept is what it added up, and
\* without a write that was cut the disk holds no more.
LEMMA PassFits ==
    ASSUME StoreTypeOK, Backed, StoreTypeOK', Backed', NEW gone \in SUBSET Sessions,
           present' = present \ gone, Fits(Objects \ gone), UNCHANGED uncounted,
           \A s \in Sessions \ gone :
              /\ files'[s] = files[s] /\ evidence'[s] = evidence[s]
              /\ status'[s] = status[s] /\ cached'[s] = cached[s]
    PROVE  WithinBounds'
<1>1. /\ Bytes \in [Sessions -> Nat] /\ DirectorySize \in [Sessions -> Nat]
      /\ \A s \in Sessions \ uncounted : DirectorySize[s] <= Bytes[s]
      /\ Objects = present
    BY Sizes
<1>2. Objects \ gone = present' /\ present' \in SUBSET Sessions
    BY <1>1 DEF StoreTypeOK
<1>3. Objects' = present'
    BY DEF Objects, Backed, StoreTypeOK
<1>4. DirectorySize' \in [Sessions -> Nat] /\ Bytes' \in [Sessions -> Nat]
    <2>1. \A s \in Sessions : evidence'[s] \in Nat /\ cached'[s] \in Nat
        BY RetentionConstants DEF StoreTypeOK
    <2>2. DirectorySize' \in [Sessions -> Nat]
        BY <2>1 DEF DirectorySize, MetadataBytes
    <2>. QED  BY <2>1, <2>2 DEF Bytes, MetadataBytes
<1>5. \A s \in Sessions \ gone :
         DirectorySize'[s] = DirectorySize[s] /\ Bytes'[s] = Bytes[s]
    <2>1. \A s \in Sessions \ gone : DirectorySize'[s] = DirectorySize[s]
        BY DEF DirectorySize
    <2>. QED  BY <2>1 DEF Bytes, Listed
<1>6. PICK was, adds, holds : was = Bytes /\ adds = Bytes' /\ holds = DirectorySize'
    OBVIOUS
<1>7. IsFiniteSet(present') /\ Cardinality(present') <= MaxSessions
    BY <1>2, CandidatesFinite DEF Fits
<1>8. SumFunctionOnSet(was, present') <= MaxBytes
    BY <1>2, <1>6 DEF Fits
<1>9. /\ was \in [Sessions -> Nat] /\ adds \in [Sessions -> Nat]
      /\ holds \in [Sessions -> Nat]
    BY <1>1, <1>4, <1>6
<1>10. \A s \in present' : adds[s] <= was[s]
    BY <1>2, <1>5, <1>6, <1>9
<1>11. /\ SumFunctionOnSet(adds, present') \in Nat
       /\ SumFunctionOnSet(was, present') \in Nat
       /\ SumFunctionOnSet(adds, present') <= SumFunctionOnSet(was, present')
    BY <1>2, <1>7, <1>9, <1>10, SumMonotone
<1>12. SumFunctionOnSet(adds, present') <= MaxBytes
    BY <1>8, <1>11, RetentionConstants
<1>13. ASSUME present' \intersect uncounted' = {}
       PROVE  SumFunctionOnSet(holds, present') <= MaxBytes
    <2>1. \A s \in present' : holds[s] <= was[s]
        BY <1>1, <1>2, <1>5, <1>6, <1>13
    <2>2. /\ SumFunctionOnSet(holds, present') \in Nat
          /\ SumFunctionOnSet(holds, present') <= SumFunctionOnSet(was, present')
        BY <1>2, <1>7, <1>9, <2>1, SumMonotone
    <2>. QED  BY <1>8, <1>11, <2>2, RetentionConstants
<1>. QED  BY <1>3, <1>6, <1>7, <1>12, <1>13 DEF WithinBounds, StoreFits, Fits

\* A complete pass goes on until the store fits or all that is left is protected.
LEMMA PassSuffices ==
    ASSUME StoreInd, EnforceRetention, StoreTypeOK', Backed'
    PROVE  \/ WithinBounds'
           \/ /\ present' # {} /\ present' \subseteq Sessions
              /\ \A s \in present' : status'[s] = "active" \/ leases'[s] # 0
<1>1. PICK order \in Orders : Drop(Evicted(order))
    BY DEF EnforceRetention
<1>2. UNCHANGED <<leases, uncounted>>
    BY DEF EnforceRetention
<1> USE DEF StoreInd
<1> DEFINE gone == Evicted(order)
<1>3. /\ RemovalOK(order, gone)
      /\ \/ Fits(Objects \ gone)
         \/ \A s \in Objects \ gone : status[s] = "active" \/ leases[s] > 0
    BY EvictionOK
<1>4. gone \in SUBSET Sessions /\ Drop(gone)
    BY <1>1, <1>3, RemovalSpares
<1> HIDE DEF gone
<1>5. /\ present' = present \ gone
      /\ \A s \in Sessions \ gone :
            /\ files'[s] = files[s] /\ evidence'[s] = evidence[s]
            /\ status'[s] = status[s] /\ cached'[s] = cached[s]
    BY <1>4, DropEffect
<1>6. /\ Objects = present /\ present \subseteq Sessions
      /\ present' = Objects \ gone /\ present' \subseteq Sessions
    BY <1>5, Sizes DEF StoreTypeOK
<1>7. ASSUME Fits(Objects \ gone) PROVE WithinBounds'
    <2>1. StoreTypeOK /\ Backed
        OBVIOUS
    <2> HIDE DEF StoreInd
    <2>. QED  BY <1>2, <1>4, <1>5, <1>7, <2>1, PassFits
<1>8. Fits({})
    <2>1. SumFunctionOnSet(Bytes, {}) = 0
        BY Sizes, SumEmpty
    <2>. QED  BY <2>1, FS_EmptySet, RetentionConstants DEF Fits
<1>9. CASE \A s \in Objects \ gone : status[s] = "active" \/ leases[s] > 0
    <2>1. CASE present' = {}
        BY <1>6, <1>7, <1>8, <2>1
    <2>2. ASSUME NEW s \in present' PROVE status'[s] = "active" \/ leases'[s] # 0
        <3>1. s \in Objects \ gone /\ s \in Sessions
            BY <1>6
        <3>2. status[s] = "active" \/ leases[s] > 0
            BY <1>9, <3>1
        <3>3. status'[s] = status[s] /\ leases'[s] = leases[s]
            BY <1>2, <1>5, <3>1
        <3>. QED  BY <3>2, <3>3
    <2>. QED  BY <1>6, <2>1, <2>2
<1>. QED  BY <1>3, <1>7, <1>9

\* A complete pass removes no protected session and leaves a store that fits, if
\* nothing is protected (enforce_retention).
LEMMA EnforceRetentionKeeps ==
    ASSUME StoreInd, EnforceRetention
    PROVE  StoreInd'
<1>1. PICK order \in Orders : Drop(Evicted(order))
    BY DEF EnforceRetention
<1>2. /\ sweeps > 0 /\ sweeps' = sweeps - 1 /\ stopped' = FALSE
      /\ UNCHANGED <<created, leases, up, reading, uncounted, clock, faults, crashes>>
    BY DEF EnforceRetention, Works
<1> USE DEF StoreInd
<1> DEFINE gone == Evicted(order)
<1>3. RemovalOK(order, gone)
    BY EvictionOK
<1>4. /\ gone \in SUBSET Sessions
      /\ \A s \in gone : status[s] # "active" /\ \A d \in Downloads : reading[d] # s
    BY <1>3, RemovalSpares
<1>5. Drop(gone)
    BY <1>1
<1> HIDE DEF gone
<1>6. /\ present' = present \ gone
      /\ files' \in [Sessions -> SUBSET (Files \union {Stray})]
      /\ evidence' \in [Sessions -> 0..SessionBytes]
      /\ status' \in [Sessions -> {"none", "active", "closed"}]
      /\ cached' \in [Sessions -> 0..SessionBytes]
      /\ \A s \in gone : ~Listed(s)' /\ evidence'[s] = 0 /\ files'[s] = {}
      /\ \A s \in Sessions \ gone :
            /\ files'[s] = files[s] /\ evidence'[s] = evidence[s]
            /\ status'[s] = status[s] /\ cached'[s] = cached[s]
    BY <1>4, <1>5, DropEffect
<1>7. StoreTypeOK'
    <2>1. sweeps' \in Nat /\ stopped' \in BOOLEAN
        <3>1. sweeps \in Nat
            BY DEF StoreTypeOK
        <3>2. sweeps' \in Nat
            BY <1>2, <3>1
        <3>. QED  BY <1>2, <3>2
    <2>2. present' \subseteq Sessions
        BY <1>6 DEF StoreTypeOK
    <2>3. /\ created' \in [Sessions -> Nat]
          /\ leases' \in [Sessions -> 0..Cardinality(Downloads)]
          /\ up' \in BOOLEAN /\ reading' \in [Downloads -> Sessions \union {None}]
          /\ clock' \in Nat /\ faults' \in Nat /\ crashes' \in Nat
          /\ uncounted' \subseteq Sessions
        BY <1>2 DEF StoreTypeOK
    <2>. QED  BY <1>6, <2>1, <2>2, <2>3 DEF StoreTypeOK
<1>8. LeasesCounted'
    BY <1>2, LeasesStay
<1>9. Backed'
    <2> SUFFICES ASSUME NEW s \in Sessions
                 PROVE  /\ Listed(s)' =>
                              /\ s \in present'
                              /\ s \notin uncounted' => evidence'[s] <= cached'[s]
                        /\ {"metadata", Stray} \subseteq files'[s] => s \in uncounted'
                        /\ created'[s] = 0 => s \notin present' /\ evidence'[s] = 0
        BY DEF Backed, Listed
    <2>1. CASE s \in gone
        BY <2>1, <1>2, <1>6 DEF Backed
    <2>2. CASE s \notin gone
        BY <2>2, <1>2, <1>6 DEF Backed, Listed
    <2>. QED  BY <2>1, <2>2
<1>10. ProtectedStored'
    BY <1>2, <1>4, <1>6 DEF ProtectedStored, Listed, StoreTypeOK
<1>11. QuietStoreFits'
    <2>1. CASE WithinBounds'
        BY <2>1 DEF QuietStoreFits
    <2>2. CASE /\ present' # {} /\ present' \subseteq Sessions
               /\ \A s \in present' : status'[s] = "active" \/ leases'[s] # 0
        BY <2>2, NotQuiet
    <2>. QED  BY <1>7, <1>9, <2>1, <2>2, PassSuffices
<1>. QED  BY <1>7, <1>8, <1>9, <1>10, <1>11

\* A pass that shutil.rmtree stops has removed, in full or in part, unprotected
\* sessions only (enforce_retention).
LEMMA EnforceStopsKeeps ==
    ASSUME StoreInd, EnforceStops
    PROVE  StoreInd'
<1>1. PICK removal \in Removals :
         /\ HalfRemoved(removal[1], removal[2])
         /\ status' = [s \in Sessions |-> IF s \in removal[1] THEN "none" ELSE status[s]]
         /\ cached' = [s \in Sessions |-> IF s \in removal[1] THEN 0 ELSE cached[s]]
    BY DEF EnforceStops
<1>2. /\ sweeps > 0 /\ sweeps' = sweeps - 1 /\ stopped' = TRUE
      /\ UNCHANGED <<leases, up, reading, uncounted, clock, crashes>>
      /\ faults' = faults + 1
    BY DEF EnforceStops, Fault
<1> USE DEF StoreInd
<1> DEFINE gone == removal[1]
           half == removal[2]
<1>3. PICK order \in Orders : RemovalOK(order, gone) /\ half \in Candidates \ gone
                              /\ leases[half] = 0
    BY <1>1, RemovalsOK
<1>4. /\ gone \in SUBSET Sessions
      /\ \A s \in gone : status[s] # "active" /\ \A d \in Downloads : reading[d] # s
      /\ half \in Sessions /\ half \notin gone
      /\ status[half] # "active" /\ \A d \in Downloads : reading[d] # half
    BY <1>3, RemovalSpares, RemovedUnprotected
<1>5. /\ HalfRemoved(gone, half)
      /\ status' = [s \in Sessions |-> IF s \in gone THEN "none" ELSE status[s]]
      /\ cached' = [s \in Sessions |-> IF s \in gone THEN 0 ELSE cached[s]]
    BY <1>1
<1> HIDE DEF gone, half
<1>6. /\ present' = present \ gone /\ UNCHANGED created
      /\ files' \in [Sessions -> SUBSET (Files \union {Stray})]
      /\ evidence' \in [Sessions -> 0..SessionBytes]
      /\ \A s \in Sessions : files'[s] \subseteq files[s]
      /\ \A s \in Sessions : evidence'[s] = 0 \/ evidence'[s] = evidence[s]
      /\ \A s \in Sessions \ (gone \union {half}) :
            files'[s] = files[s] /\ evidence'[s] = evidence[s]
    <2>1. StoreTypeOK /\ gone \in SUBSET Sessions /\ HalfRemoved(gone, half)
        BY <1>4, <1>5
    <2> HIDE DEF StoreInd
    <2>. QED  BY <2>1, HalfEffect
<1>7. /\ status' \in [Sessions -> {"none", "active", "closed"}]
      /\ cached' \in [Sessions -> 0..SessionBytes]
    BY <1>5, RetentionConstants DEF StoreTypeOK
<1>8. StoreTypeOK'
    BY <1>2, <1>6, <1>7 DEF StoreTypeOK
<1>9. LeasesCounted'
    BY <1>2, LeasesStay
<1>10. Backed'
    <2> SUFFICES ASSUME NEW s \in Sessions
                 PROVE  /\ Listed(s)' =>
                              /\ s \in present'
                              /\ s \notin uncounted' => evidence'[s] <= cached'[s]
                        /\ {"metadata", Stray} \subseteq files'[s] => s \in uncounted'
                        /\ created'[s] = 0 => s \notin present' /\ evidence'[s] = 0
        BY DEF Backed, Listed
    <2>1. cached'[s] \in Nat /\ evidence[s] \in Nat
        BY <1>7, RetentionConstants DEF StoreTypeOK
    <2>2. CASE s \in gone
        BY <2>2, <1>2, <1>5, <1>6 DEF Backed, Listed
    <2>3. CASE s \notin gone
        <3>1. status'[s] = status[s] /\ cached'[s] = cached[s]
            BY <2>3, <1>5
        <3>. QED  BY <2>1, <2>3, <3>1, <1>2, <1>6 DEF Backed, Listed
    <2>. QED  BY <2>2, <2>3
<1>11. ProtectedStored'
    <2>1. ASSUME NEW s \in Sessions, status'[s] = "active"
          PROVE  s \in present' /\ Files \subseteq files'[s]
        <3>1. s \notin gone /\ status[s] = "active" /\ s # half
            BY <2>1, <1>4, <1>5
        <3>. QED  BY <3>1, <1>6 DEF ProtectedStored
    <2>2. ASSUME NEW d \in Downloads, reading'[d] # None
          PROVE  reading'[d] \in present' /\ "evidence" \in files'[reading'[d]]
        <3>1. reading'[d] = reading[d] /\ reading[d] \in Sessions
              /\ reading[d] \notin gone /\ reading[d] # half
            BY <2>2, <1>2, <1>4 DEF StoreTypeOK
        <3>. QED  BY <2>2, <3>1, <1>6 DEF ProtectedStored
    <2>. QED  BY <2>1, <2>2 DEF ProtectedStored
<1>12. QuietStoreFits'
    BY <1>2, NotQuiet
<1>. QED  BY <1>8, <1>9, <1>10, <1>11, <1>12

\* A pass that cannot list the directory has removed nothing
\* (_discover_invalid_sessions_locked).
LEMMA EnforceFailsKeeps ==
    ASSUME StoreInd, EnforceFails
    PROVE  StoreInd'
<1>1. /\ sweeps > 0 /\ sweeps' = sweeps - 1 /\ stopped' = TRUE /\ faults' = faults + 1
      /\ UNCHANGED <<present, files, evidence, created, status, cached, leases>>
      /\ UNCHANGED <<up, reading, uncounted, clock, crashes>>
    BY DEF EnforceFails, Fault, disk, store
<1> USE DEF StoreInd
<1>2. StoreTypeOK'
    BY <1>1 DEF StoreTypeOK
<1>3. LeasesCounted'
    BY <1>1, LeasesStay
<1>4. Backed' /\ ProtectedStored'
    BY <1>1 DEF Backed, Listed, ProtectedStored
<1>5. QuietStoreFits'
    BY <1>1, NotQuiet
<1>. QED  BY <1>2, <1>3, <1>4, <1>5

\* A crash leaves files, and no leases and nothing listed.
LEMMA CrashKeeps ==
    ASSUME StoreInd, Crash
    PROVE  StoreInd'
<1>1. /\ crashes' = crashes + 1 /\ up' = FALSE /\ sweeps' = 0
      /\ status' = [s \in Sessions |-> "none"]
      /\ cached' = [s \in Sessions |-> 0] /\ leases' = [s \in Sessions |-> 0]
      /\ reading' = [d \in Downloads |-> None]
      /\ UNCHANGED <<stopped, clock, faults>>
    BY DEF Crash
<1> USE DEF StoreInd
<1>2. /\ present' \subseteq present /\ UNCHANGED created
      /\ files' \in [Sessions -> SUBSET (Files \union {Stray})]
      /\ evidence' \in [Sessions -> 0..SessionBytes] /\ uncounted' \subseteq Sessions
      /\ \A s \in Sessions :
            /\ {"metadata", Stray} \subseteq files'[s] => s \in uncounted'
            /\ created[s] = 0 => evidence'[s] = 0
    <2>1. CASE UNCHANGED <<disk, uncounted>>
        BY <2>1 DEF disk, StoreTypeOK, Backed
    <2>2. CASE /\ \E removal \in Removals : HalfRemoved(removal[1], removal[2])
               /\ UNCHANGED uncounted
        <3>1. PICK removal \in Removals : HalfRemoved(removal[1], removal[2])
            BY <2>2
        <3>2. PICK order \in Orders : RemovalOK(order, removal[1])
            BY RemovalsOK
        <3>3. removal[1] \in SUBSET Sessions
            BY <3>2, RemovalSpares
        <3> DEFINE gone == removal[1]
                   half == removal[2]
        <3>4. gone \in SUBSET Sessions /\ HalfRemoved(gone, half)
            BY <3>1, <3>3
        <3> HIDE DEF gone, half
        <3>5. /\ present' = present \ gone /\ UNCHANGED created
              /\ files' \in [Sessions -> SUBSET (Files \union {Stray})]
              /\ evidence' \in [Sessions -> 0..SessionBytes]
              /\ \A s \in Sessions : files'[s] \subseteq files[s]
              /\ \A s \in Sessions : evidence'[s] = 0 \/ evidence'[s] = evidence[s]
            BY <3>4, HalfEffect
        <3>. QED  BY <2>2, <3>5 DEF Backed, StoreTypeOK
    <2>3. CASE \E s \in Sessions : CutWrite(s)
        <3>1. PICK s \in Sessions : CutWrite(s)
            BY <2>3
        <3>2. /\ uncounted' = uncounted \union {s} /\ UNCHANGED <<present, created>>
              /\ uncounted \subseteq Sessions
            BY <3>1 DEF CutWrite, StoreTypeOK
        <3>3. /\ files' \in [Sessions -> SUBSET (Files \union {Stray})]
              /\ evidence' \in [Sessions -> 0..SessionBytes]
              /\ \A t \in Sessions \ {s} :
                    files'[t] = files[t] /\ evidence'[t] = evidence[t]
              /\ Listed(s)
            BY <3>1, CutEffect
        <3>4. created[s] # 0
            BY <3>3 DEF Backed
        <3>. QED  BY <3>2, <3>3, <3>4 DEF Backed
    <2>. QED  BY <2>1, <2>2, <2>3 DEF Crash
<1>3. StoreTypeOK'
    <2>1. 0 \in 0..SessionBytes /\ 0 \in 0..Cardinality(Downloads)
        BY FS_CardinalityType, RetentionConstants
    <2>2. /\ status' \in [Sessions -> {"none", "active", "closed"}]
          /\ cached' \in [Sessions -> 0..SessionBytes]
          /\ leases' \in [Sessions -> 0..Cardinality(Downloads)]
          /\ reading' \in [Downloads -> Sessions \union {None}]
        BY <1>1, <2>1
    <2>3. /\ present' \subseteq Sessions /\ created' \in [Sessions -> Nat]
        BY <1>2 DEF StoreTypeOK
    <2>4. /\ up' \in BOOLEAN /\ stopped' \in BOOLEAN
          /\ clock' \in Nat /\ faults' \in Nat
        BY <1>1 DEF StoreTypeOK
    <2>5. sweeps' \in Nat /\ crashes' \in Nat
        <3>1. crashes \in Nat
            BY DEF StoreTypeOK
        <3>. QED  BY <1>1, <3>1
    <2>. QED  BY <1>2, <2>2, <2>3, <2>4, <2>5 DEF StoreTypeOK
<1>4. LeasesCounted'
    <2> SUFFICES ASSUME NEW s \in Sessions
                 PROVE  leases'[s] = Cardinality({d \in Downloads : reading'[d] = s})
        BY DEF LeasesCounted, Readers
    <2>1. {d \in Downloads : reading'[d] = s} = {}
        BY <1>1, RetentionConstants
    <2>. QED  BY <1>1, <2>1, FS_EmptySet
<1>5. Backed'
    BY <1>1, <1>2 DEF Backed, Listed
<1>6. ProtectedStored'
    BY <1>1 DEF ProtectedStored
<1>7. QuietStoreFits'
    BY <1>1, NotQuiet
<1>. QED  BY <1>3, <1>4, <1>5, <1>6, <1>7

\* A start that fails leaves a file that no metadata counts, and the service down
\* (_load_and_recover_locked).
LEMMA StartFailsKeeps ==
    ASSUME StoreInd, NEW s \in Sessions, StartFails(s)
    PROVE  StoreInd'
<1>1. /\ ~up /\ s \in present /\ faults' = faults + 1
      /\ files' = [files EXCEPT ![s] = @ \union {Stray}]
      /\ uncounted' = uncounted \union {s}
      /\ UNCHANGED <<present, created, status, cached, leases, up, reading, sweeps>>
      /\ UNCHANGED <<stopped, clock, crashes>>
    BY DEF StartFails, Fault, store, process
<1> USE DEF StoreInd
<1>2. evidence' \in [Sessions -> 0..SessionBytes]
    <2>1. CASE UNCHANGED evidence
        BY <2>1 DEF StoreTypeOK
    <2>2. CASE evidence[s] > 0 /\ evidence' = [evidence EXCEPT ![s] = @ - 1]
        <3>1. evidence[s] - 1 \in 0..SessionBytes
            BY <2>2, RetentionConstants DEF StoreTypeOK
        <3>. QED  BY <2>2, <3>1 DEF StoreTypeOK
    <2>. QED  BY <2>1, <2>2 DEF StartFails
<1>3. \A t \in Sessions \ {s} : evidence'[t] = evidence[t] /\ files'[t] = files[t]
    BY <1>1 DEF StartFails, StoreTypeOK
<1>4. StoreTypeOK'
    <2>1. files' \in [Sessions -> SUBSET (Files \union {Stray})]
        BY <1>1 DEF StoreTypeOK
    <2>2. faults' \in Nat /\ uncounted' \subseteq Sessions
        BY <1>1 DEF StoreTypeOK
    <2>. QED  BY <1>1, <1>2, <2>1, <2>2 DEF StoreTypeOK
<1>5. LeasesCounted'
    BY <1>1, LeasesStay
<1>6. Backed'
    <2>1. created[s] # 0
        BY <1>1 DEF Backed
    <2>. QED  BY <1>1, <1>3, <2>1 DEF Backed, Listed
<1>7. ProtectedStored'
    <2>1. \A t \in Sessions : files[t] \subseteq files'[t]
        BY <1>1 DEF StoreTypeOK
    <2>. QED  BY <1>1, <2>1 DEF ProtectedStored, StoreTypeOK
<1>8. QuietStoreFits'
    BY <1>1, NotQuiet
<1>. QED  BY <1>4, <1>5, <1>6, <1>7, <1>8

\* A start lists directories that it finds, with the size it finds, and has a pass
\* due (_load_and_recover_locked).
LEMMA StartKeeps ==
    ASSUME StoreInd, Start
    PROVE  StoreInd'
<1>1. PICK unreadable \in SUBSET present :
         LET loaded == {s \in present \ unreadable : "metadata" \in files[s]}
         IN  /\ status' = [s \in Sessions |->
                             IF s \in loaded THEN "closed" ELSE "none"]
             /\ cached' = [s \in Sessions |->
                             IF s \in loaded THEN evidence[s] ELSE 0]
    BY DEF Start
<1>2. /\ up' = TRUE /\ sweeps' = 1
      /\ UNCHANGED <<present, files, evidence, created, leases, reading>>
      /\ UNCHANGED <<stopped, clock, crashes>>
      /\ uncounted' = {s \in uncounted : Stray \in files[s]}
      /\ (faults' = faults \/ faults' = faults + 1)
    BY DEF Start, Works, Fault, disk
<1> USE DEF StoreInd
<1> DEFINE loaded == {s \in present \ unreadable : "metadata" \in files[s]}
<1>3. /\ status' = [s \in Sessions |-> IF s \in loaded THEN "closed" ELSE "none"]
      /\ cached' = [s \in Sessions |-> IF s \in loaded THEN evidence[s] ELSE 0]
      /\ loaded \subseteq present
    BY <1>1
<1> HIDE DEF loaded
<1>4. StoreTypeOK'
    BY <1>2, <1>3, RetentionConstants DEF StoreTypeOK
<1>5. LeasesCounted'
    BY <1>2, LeasesStay
<1>6. Backed'
    <2> SUFFICES ASSUME NEW s \in Sessions
                 PROVE  /\ Listed(s)' =>
                              /\ s \in present'
                              /\ s \notin uncounted' => evidence'[s] <= cached'[s]
                        /\ {"metadata", Stray} \subseteq files'[s] => s \in uncounted'
                        /\ created'[s] = 0 => s \notin present' /\ evidence'[s] = 0
        BY DEF Backed, Listed
    <2>1. evidence[s] \in Nat
        BY RetentionConstants DEF StoreTypeOK
    <2>. QED  BY <1>2, <1>3, <2>1 DEF Backed, Listed
<1>7. ProtectedStored'
    BY <1>2, <1>3 DEF ProtectedStored
<1>8. QuietStoreFits'
    BY <1>2, NotQuiet
<1>. QED  BY <1>4, <1>5, <1>6, <1>7, <1>8

\* An empty data directory fits.
LEMMA InitStoreInd ==
    ASSUME StoreInit
    PROVE  StoreInd
<1> USE DEF StoreInit
<1>1. StoreTypeOK
    <2>1. 0 \in 0..SessionBytes /\ 0 \in 0..Cardinality(Downloads)
        BY FS_CardinalityType, RetentionConstants
    <2>. QED  BY <2>1 DEF StoreTypeOK
<1>2. LeasesCounted
    <2> SUFFICES ASSUME NEW s \in Sessions
                 PROVE  leases[s] = Cardinality({d \in Downloads : reading[d] = s})
        BY DEF LeasesCounted, Readers
    <2>1. {d \in Downloads : reading[d] = s} = {}
        BY RetentionConstants
    <2>. QED  BY <2>1, FS_EmptySet
<1>3. Backed /\ ProtectedStored
    BY DEF Backed, Listed, ProtectedStored
<1>4. QuietStoreFits
    <2>1. 0 \in 0..SessionBytes /\ 0 \in Nat
        BY RetentionConstants
    <2>2. /\ DirectorySize \in [Sessions -> Nat] /\ Bytes \in [Sessions -> Nat]
          /\ Objects = {}
        BY Sizes, <1>1, <1>3
    <2>3. /\ SumFunctionOnSet(DirectorySize, {}) = 0 /\ SumFunctionOnSet(Bytes, {}) = 0
          /\ Cardinality({}) = 0
        BY <2>2, SumEmpty, FS_EmptySet
    <2>4. StoreFits /\ Fits(Objects)
        BY <2>2, <2>3, RetentionConstants DEF StoreFits, Fits
    <2>. QED  BY <2>4 DEF QuietStoreFits, WithinBounds
<1>. QED  BY <1>1, <1>2, <1>3, <1>4 DEF StoreInd

\* Every step keeps the inductive invariant.
LEMMA StepStoreInd ==
    ASSUME StoreInd, [StoreNext]_storeVars
    PROVE  StoreInd'
<1>1. ASSUME NEW s \in Sessions,
             \/ Create(s) \/ CreateFails(s) \/ Append(s) \/ WriteFails(s)
             \/ Finish(s) \/ StartFails(s)
      PROVE  StoreInd'
    BY <1>1, CreateKeeps, CreateFailsKeeps, AppendKeeps, WriteFailsKeeps, FinishKeeps,
       StartFailsKeeps
<1>2. ASSUME NEW d \in Downloads, Release(d) \/ \E s \in Sessions : Lease(d, s)
      PROVE  StoreInd'
    BY <1>2, LeaseKeeps, ReleaseKeeps
<1>3. ASSUME EnforceRetention \/ EnforceStops \/ EnforceFails PROVE StoreInd'
    BY <1>3, EnforceRetentionKeeps, EnforceStopsKeeps, EnforceFailsKeeps
<1>4. ASSUME Crash \/ Start PROVE StoreInd'
    BY <1>4, CrashKeeps, StartKeeps
<1>5. ASSUME UNCHANGED storeVars PROVE StoreInd'
    <2>1. /\ UNCHANGED <<present, files, evidence, created, status, cached, leases>>
          /\ UNCHANGED <<up, reading, sweeps, stopped, uncounted, clock>>
          /\ UNCHANGED <<faults, crashes>>
        BY <1>5 DEF storeVars, disk, store, process
    <2>2. StoreTypeOK'
        BY <2>1 DEF StoreInd, StoreTypeOK
    <2>3. LeasesCounted' /\ QuietStoreFits'
        BY <2>1, LeasesStay, QuietStays DEF StoreInd
    <2>4. Backed' /\ ProtectedStored'
        BY <2>1 DEF StoreInd, Backed, Listed, ProtectedStored
    <2>. QED  BY <2>2, <2>3, <2>4 DEF StoreInd
<1>. QED  BY <1>1, <1>2, <1>3, <1>4, <1>5 DEF StoreNext

\* The inductive invariant of the store holds in every state: leases count the
\* downloads, and what is listed is stored, at no less than its size.
THEOREM StoreInvariant == StoreSpec => []StoreInd
<1>1. StoreInit => StoreInd
    BY InitStoreInd
<1>2. StoreInd /\ [StoreNext]_storeVars => StoreInd'
    BY StepStoreInd
<1>. QED  BY <1>1, <1>2, PTL DEF StoreSpec

\* The inductive invariant implies the one that the run checks.
LEMMA IndStore ==
    ASSUME StoreInd
    PROVE  StoreInv
<1>1. StoreTypeOK /\ Backed
    BY DEF StoreInd
<1>2. ASSUME NEW s \in Sessions, Listed(s)
      PROVE  s \in present /\ (s \notin uncounted => Bytes[s] >= DirectorySize[s])
    <2>1. /\ Bytes[s] \in Nat /\ DirectorySize[s] \in Nat
          /\ s \notin uncounted => DirectorySize[s] <= Bytes[s]
        BY <1>1, Sizes
    <2>. QED  BY <1>1, <1>2, <2>1 DEF Backed
<1>. QED  BY <1>2 DEF StoreInd, StoreInv, CatalogueBacked

\* StoreInv: protected sessions keep their files, the history lists nothing that
\* is gone, and a quiet store fits its bounds (SessionStore).
THEOREM StoreIsSound == StoreSpec => []StoreInv
BY StoreInvariant, IndStore, PTL

-----------------------------------------------------------------------------
(* What a pass removes.                                                     *)

\* Only a retention pass takes a directory away while the service runs: what
\* went, with what it removed.
LEMMA OnlyPassesRemove ==
    ASSUME StoreInd, StoreNext, up, up', present \ present' # {}
    PROVE  \E order \in Orders, gone \in SUBSET Sessions :
              RemovalOK(order, gone) /\ present' = present \ gone
<1>1. ASSUME NEW s \in Sessions,
             \/ Create(s) \/ CreateFails(s) \/ Append(s) \/ WriteFails(s)
             \/ Finish(s) \/ StartFails(s)
      PROVE  FALSE
    BY <1>1 DEF Create, CreateFails, Append, WriteFails, CutWrite, Finish, StartFails,
               disk
<1>2. ASSUME NEW d \in Downloads, Release(d) \/ \E s \in Sessions : Lease(d, s)
      PROVE  FALSE
    BY <1>2 DEF Release, Lease, disk
<1>3. ~EnforceFails /\ ~Crash /\ ~Start
    BY DEF EnforceFails, Crash, Start, disk
<1>4. ASSUME EnforceRetention
      PROVE  \E order \in Orders, gone \in SUBSET Sessions :
                RemovalOK(order, gone) /\ present' = present \ gone
    <2>1. PICK order \in Orders : Drop(Evicted(order))
        BY <1>4 DEF EnforceRetention
    <2>2. RemovalOK(order, Evicted(order))
        BY EvictionOK DEF StoreInd
    <2>3. Evicted(order) \in SUBSET Sessions
        BY <2>2, RemovalSpares
    <2>4. present' = present \ Evicted(order)
        BY <2>1 DEF Drop
    <2>. QED  BY <2>2, <2>3, <2>4
<1>5. ASSUME EnforceStops
      PROVE  \E order \in Orders, gone \in SUBSET Sessions :
                RemovalOK(order, gone) /\ present' = present \ gone
    <2>1. PICK removal \in Removals : HalfRemoved(removal[1], removal[2])
        BY <1>5 DEF EnforceStops
    <2>2. PICK order \in Orders : RemovalOK(order, removal[1])
        BY RemovalsOK DEF StoreInd
    <2>3. removal[1] \in SUBSET Sessions
        BY <2>2, RemovalSpares
    <2>4. present' = present \ removal[1]
        BY <2>1 DEF HalfRemoved
    <2>. QED  BY <2>2, <2>3, <2>4
<1>. QED  BY <1>1, <1>2, <1>3, <1>4, <1>5 DEF StoreNext

\* OldestFirst, for one step.
LEMMA StepOldestFirst ==
    ASSUME StoreInd, StoreNext, up, up',
           NEW old \in Sessions, NEW young \in Sessions,
           status[old] = "closed", status[young] = "closed",
           created[old] < created[young],
           \A d \in Downloads : reading[d] # old,
           young \notin present'
    PROVE  old \notin present'
<1> USE DEF StoreInd
<1>1. Listed(old) /\ Listed(young) /\ old \in present /\ young \in present
    BY DEF Listed, Backed
<1>2. PICK order \in Orders, gone \in SUBSET Sessions :
         RemovalOK(order, gone) /\ present' = present \ gone
    BY <1>1, OnlyPassesRemove
<1>3. order[old] < order[young]
    BY <1>1, OrdersNat
<1>4. leases[old] = 0
    BY LeaseFacts
<1>5. old \in Candidates
    BY <1>1 DEF Candidates, Objects
<1>6. young \in gone
    BY <1>1, <1>2
<1>7. old \in gone
    BY <1>2, <1>3, <1>4, <1>5, <1>6 DEF RemovalOK
<1>. QED  BY <1>2, <1>7

\* OnlyWhenOver, for one step.
LEMMA StepOnlyWhenOver ==
    ASSUME StoreInd, StoreNext, up, up', present \ present' # {}
    PROVE  \E last \in present \ present' :
              LET kept == present' \union {last}
              IN  \/ SumFunctionOnSet(Bytes, kept) > MaxBytes
                  \/ Cardinality(kept) > MaxSessions
<1> USE DEF StoreInd
<1>1. PICK order \in Orders, gone \in SUBSET Sessions :
         RemovalOK(order, gone) /\ present' = present \ gone
    BY OnlyPassesRemove
<1>2. Objects = present /\ present \in SUBSET Sessions /\ gone \subseteq present
    BY <1>1, Sizes, RemovalSpares DEF StoreTypeOK
<1>3. gone # {} /\ gone = present \ present'
    BY <1>1, <1>2
<1>4. PICK last \in gone : ~Fits(Objects \ (gone \ {last}))
    BY <1>1, <1>3 DEF RemovalOK
<1>5. Objects \ (gone \ {last}) = present' \union {last}
    BY <1>1, <1>2
<1> DEFINE kept == present' \union {last}
<1>6. ~Fits(kept) /\ kept \in SUBSET Sessions
    BY <1>1, <1>2, <1>4, <1>5
<1> HIDE DEF kept
<1>7. IsFiniteSet(kept) /\ Cardinality(kept) \in Nat
    BY <1>6, CandidatesFinite
<1>8. SumFunctionOnSet(Bytes, kept) \in Nat
    <2>1. Bytes \in [Sessions -> Nat] /\ \A s \in kept : Bytes[s] <= Bytes[s]
        BY <1>6, Sizes
    <2>. QED  BY <1>6, <1>7, <2>1, SumMonotone
<1>9. SumFunctionOnSet(Bytes, kept) > MaxBytes \/ Cardinality(kept) > MaxSessions
    <2>1. ~(SumFunctionOnSet(Bytes, kept) <= MaxBytes) \/ ~(Cardinality(kept) <= MaxSessions)
        BY <1>6 DEF Fits
    <2>. QED  BY <2>1, <1>7, <1>8, RetentionConstants
<1>. QED  BY <1>3, <1>9 DEF kept

\* EnoughRemoved, for one step.
LEMMA StepEnoughRemoved ==
    ASSUME StoreInd, StoreNext, up, up', sweeps' < sweeps, ~stopped'
    PROVE  \/ WithinBounds'
           \/ \A s \in present' : status'[s] = "active" \/ leases'[s] # 0
<1>0. sweeps \in Nat /\ ~(sweeps < sweeps) /\ ~(sweeps + 1 < sweeps)
    BY DEF StoreInd, StoreTypeOK
<1>1. ASSUME NEW s \in Sessions,
             \/ Create(s) \/ CreateFails(s) \/ Append(s) \/ WriteFails(s)
             \/ Finish(s) \/ StartFails(s)
      PROVE  FALSE
    BY <1>0, <1>1
       DEF Create, CreateFails, Append, WriteFails, Finish, StartFails, process
<1>2. ASSUME NEW d \in Downloads, Release(d) \/ \E s \in Sessions : Lease(d, s)
      PROVE  FALSE
    BY <1>0, <1>2 DEF Release, Lease
<1>3. ~EnforceFails /\ ~EnforceStops /\ ~Crash /\ ~Start
    BY DEF EnforceFails, EnforceStops, Crash, Start
<1>4. EnforceRetention
    BY <1>1, <1>2, <1>3 DEF StoreNext
<1>5. StoreTypeOK' /\ Backed'
    BY <1>4, EnforceRetentionKeeps DEF StoreInd
<1>. QED  BY <1>4, <1>5, PassSuffices

\* RemovesAsDocumented: whatever requests and errors fall between the passes, they
\* remove the oldest first, nothing that need not go, and enough
\* (enforce_retention).
THEOREM RemovalsAsDocumented == StoreSpec => RemovesAsDocumented
<1> DEFINE Oldest1 ==
              up /\ up' => \A old, young \in Sessions :
                /\ status[old] = "closed" /\ status[young] = "closed"
                /\ created[old] < created[young]
                /\ \A d \in Downloads : reading[d] # old
                /\ young \notin present'
                => old \notin present'
           Over1 ==
              up /\ up' /\ present \ present' # {} =>
                \E last \in present \ present' :
                   LET kept == present' \union {last}
                   IN  \/ SumFunctionOnSet(Bytes, kept) > MaxBytes
                       \/ Cardinality(kept) > MaxSessions
           Enough1 ==
              up /\ up' /\ sweeps' < sweeps /\ ~stopped' =>
                \/ WithinBounds'
                \/ \A s \in present' : status'[s] = "active" \/ leases'[s] # 0
<1>1. StoreInd /\ [StoreNext]_storeVars => [Oldest1]_storeVars
    BY StepOldestFirst
<1>2. StoreInd /\ [StoreNext]_storeVars => [Over1]_storeVars
    BY StepOnlyWhenOver
<1>3. StoreSpec => [][Oldest1]_storeVars
    <2> HIDE DEF Oldest1
    <2>. QED  BY <1>1, StoreInvariant, PTL DEF StoreSpec
<1>4. StoreSpec => [][Over1]_storeVars
    <2> HIDE DEF Over1
    <2>. QED  BY <1>2, StoreInvariant, PTL DEF StoreSpec
<1>5. StoreInd /\ [StoreNext]_storeVars => [Enough1]_storeVars
    BY StepEnoughRemoved
<1>6. StoreSpec => [][Enough1]_storeVars
    <2> HIDE DEF Enough1
    <2>. QED  BY <1>5, StoreInvariant, PTL DEF StoreSpec
<1>. QED  BY <1>3, <1>4, <1>6, PTL
          DEF RemovesAsDocumented, OldestFirst, OnlyWhenOver, EnoughRemoved
=============================================================================
