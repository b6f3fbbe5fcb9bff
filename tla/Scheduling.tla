----------------------------- MODULE Scheduling -----------------------------
(***************************************************************************)
(* polyhedral/scheduling.cpp, scheduler::make_periodic_schedule: how the   *)
(* unbounded schedule found by isl is cut into a finite prelude and one    *)
(* period that the generated code repeats forever.                         *)
(*                                                                         *)
(* The schedule itself is isl's: each statement comes with its band (the   *)
(* child of the root sequence that it is under) and with its time there.   *)
(***************************************************************************)
EXTENDS AffineProgram, SequencesExt

Bands(p) == {p.stmts[n].band : n \in Statements(p)}
InfiniteBands(p) == {p.stmts[n].band : n \in {m \in Statements(p) : IsInfinite(p.stmts[m])}}
LastBand(p) == Max(Bands(p))

Periodic(p) == InfiniteBands(p) # {}

(* Mutated: wants all bands to be infinite                                 *)
FiniteBandExists(p) == Bands(p) \ InfiniteBands(p) # {}

(* "Schedule sequence contains infinite element that is not last."         *)
InfiniteBandNotLast(p) == InfiniteBands(p) \ {LastBand(p)} # {}

-----------------------------------------------------------------------------
(* analyze_access_schedules: what each access of the infinite band does    *)
(* along each progression of its statement; time_period is 0 where the     *)
(* code leaves the vector empty.                                           *)
AccessInfo(s, a, g) ==
  [array       |-> a.array,
   time_period |-> IF g.last = Infinite THEN s.rate * g.stride ELSE 0,
   data_offset |-> IF g.last = Infinite THEN a.mul * g.stride ELSE 0,
   first_time  |-> Time(s, g.first),
   last_time   |-> IF g.last = Infinite THEN Infinite ELSE Time(s, g.last)]

InfosOf(p, stmts) ==
  LET infosOf(s) ==
        LET accesses == s.reads \o s.writes
            pieces   == SetToSeq(s.domain)
        IN  FlattenSeq([n \in DOMAIN accesses |->
              [m \in DOMAIN pieces |-> AccessInfo(s, accesses[n], pieces[m])]])
  IN  FlattenSeq([n \in Statements(p) |->
        IF n \in stmts /\ p.stmts[n].band = LastBand(p) THEN infosOf(p.stmts[n]) ELSE <<>>])

(* Mutated: goes by the order in which statements are executed             *)
InfosAsScheduled(p) == InfosOf(p, Statements(p))

(* Inputs and outputs come first in the model, whatever the schedule.      *)
AccessInfos(p) ==
  LET io == {n \in Statements(p) : p.stmts[n].io}
  IN  InfosOf(p, io) \o InfosOf(p, Statements(p) \ io)

(* Mutated: one time too early                                             *)
OnsetTooEarly(info) ==
  IF info.time_period = 0
  THEN info.last_time + 1
  ELSE info.first_time - info.time_period

(* find_period_onset: the time after the last one of a finite access, or   *)
(* the earliest from which an infinite access repeats.                     *)
find_period_onset(info) ==
  IF info.time_period = 0
  THEN info.last_time + 1
  ELSE info.first_time - info.time_period + 1

(* find_periodic_tiling: the least common period, from the latest onset,   *)
(* then the options period_offset and period_scale.                        *)
find_periodic_tiling(infos, opt) ==
  LET size == FoldLeft(LAMBDA n, info :
                         IF info.time_period = 0 THEN n
                         ELSE lcm(n, info.time_period), 1, infos)
      offset == Max({0} \cup {find_period_onset(infos[n]) : n \in DOMAIN infos})
  IN  [offset |-> offset + opt.period_offset, size |-> size * opt.period_scale]

(* assign_inter_tile_access_offsets: by how much the accesses to an array  *)
(* move on from one period to the next.  0 also means "not yet assigned".  *)
Inconsistent == -1
InterTileOffset(tiling, infos, array) ==
  FoldLeft(LAMBDA period, info :
             LET offset == info.data_offset * (tiling.size \div info.time_period)
             IN  IF info.time_period = 0 \/ info.array # array THEN period
                 ELSE IF period = Inconsistent THEN Inconsistent
                 ELSE IF period = 0 THEN offset
                 ELSE IF period # offset THEN Inconsistent
                 ELSE period,
           0, infos)

-----------------------------------------------------------------------------
(* The prelude is what comes before the first period: every instance of    *)
(* the earlier bands, and those of the infinite one before the offset.     *)
InPeriods(p, tiling, e) ==
  /\ Periodic(p)
  /\ p.stmts[e[1]].band = LastBand(p)
  /\ Time(p.stmts[e[1]], e[2]) >= tiling.offset

InFirstPeriod(p, tiling, e) ==
  /\ InPeriods(p, tiling, e)
  /\ Time(p.stmts[e[1]], e[2]) < tiling.offset + tiling.size

(* Instances in the order of the schedule                                  *)
InOrder(p, instances) ==
  [n \in 1..Cardinality(instances) |->
     CHOOSE e \in instances :
       Cardinality({d \in instances : Key(p, d) < Key(p, e)}) = n - 1]

Prelude(p, tiling) ==
  InOrder(p, {e \in Instances(p) : ~InPeriods(p, tiling, e)})
Period(p, tiling) ==
  InOrder(p, {e \in Instances(p) : InFirstPeriod(p, tiling, e)})
=============================================================================
