-------------------------- MODULE Maintenance_proof --------------------------
(***************************************************************************)
(* That IsInMaintenanceWindow and NextMaintenanceWindow agree, for every    *)
(* spec, however long a day is and whenever the rounds of the plan come.    *)
(*                                                                          *)
(* The invariant remembers what a round has learned.  At its first question *)
(* no window was open, so one that is open later began later; and what      *)
(* begins after the second question is not before the opening it computed.  *)
(***************************************************************************)
EXTENDS Maintenance, TLAPS

\* Windows that a round cannot be blamed for: begun on an excluded date, or between
\* its questions.
Excused(w, day) == IsExcludedDate(day) \/ StartOn(w, day) \in slipped

\* Between the questions: what is open began this instant, or is excused.
RoundKnows ==
    (round = "closed" /\ ~IsExcludedDate(now.day)) =>
        \A w \in Enabled, day \in Int :
            Lasts(w, day, now) => Excused(w, day) \/ StartOn(w, day) = now

\* Asleep: what is open is excused, and nothing begins before the plan wakes.
SleepKnows ==
    (Asleep /\ spec.windows # {}) =>
        /\ ~IsExcludedDate(now.day) =>
             \A w \in Enabled, day \in Int : Lasts(w, day, now) => Excused(w, day)
        /\ \A w \in Enabled, day \in Int :
             (IsDayMatch(w, day) /\ ~IsExcludedDate(day) /\ ~Before(StartOn(w, day), now))
                => ~Before(StartOn(w, day), wake)

\* Asleep without windows: every date until the plan wakes is excluded.
SleepKnowsDates ==
    (Asleep /\ spec.windows = {}) =>
        \A day \in now.day..wake.day :
            IsExcludedDate(day) \/ (day = wake.day /\ wake.time = 0)

IInv == TypeOK /\ RoundKnows /\ SleepKnows /\ SleepKnowsDates /\ WakesToOpen

-----------------------------------------------------------------------------
(* Instants and windows.                                                     *)

LEMMA AfterType ==
    ASSUME NEW t \in Instant, NEW duration \in 0..DayLength
    PROVE  After(t, duration) \in Instant /\ After(t, duration).day \in {t.day, t.day + 1}
BY DayLengthAssumption DEF After, Instant, Time

\* One instant later: nothing lies between.
LEMMA TickOrder ==
    ASSUME NEW t \in Instant
    PROVE  LET u == After(t, 1) IN
           /\ u \in Instant /\ Before(t, u) /\ u.day \in {t.day, t.day + 1}
           /\ \A s \in [day : Int, time : Time] : Before(s, u) <=> (Before(s, t) \/ s = t)
<1> DEFINE u == After(t, 1)
<1>1. u \in Instant /\ u.day \in {t.day, t.day + 1}
  BY AfterType, DayLengthAssumption
<1>2. \/ t.time + 1 < DayLength /\ u.day = t.day /\ u.time = t.time + 1
      \/ t.time = DayLength - 1 /\ u.day = t.day + 1 /\ u.time = 0
  BY DayLengthAssumption DEF After, Instant, Time
<1>3. t.day \in Nat /\ t.time \in Time
  BY DEF Instant
<1>4. Before(t, u)
  BY <1>2, <1>3 DEF Before, Time
<1>5. ASSUME NEW s \in [day : Int, time : Time]
      PROVE  Before(s, u) <=> (Before(s, t) \/ s = t)
  <2>1. s.day \in Int /\ s.time \in Time /\ (s = t <=> s.day = t.day /\ s.time = t.time)
    BY DEF Instant
  <2> QED
    BY <1>2, <1>3, <2>1, DayLengthAssumption DEF Before, Time
<1> QED
  BY <1>1, <1>4, <1>5

LEMMA EnabledWindow ==
    ASSUME TypeOK, NEW w \in Enabled
    PROVE  w \in Window /\ w.start \in Time /\ w.end \in Time /\ spec.windows # {}
BY DEF TypeOK, MaintenanceSpec, Enabled, Window

LEMMA StartType ==
    ASSUME NEW w, w.start \in Time, NEW day \in Int
    PROVE  /\ StartOn(w, day) \in [day : Int, time : Time]
           /\ StartOn(w, day).day = day /\ StartOn(w, day).time = w.start
BY DEF StartOn

\* A window lasts on its day and, past midnight, on the next.
LEMMA LastsNearby ==
    ASSUME NEW w, w.start \in Time, w.end \in Time, NEW day \in Int, NEW t \in Instant,
           Lasts(w, day, t)
    PROVE  day \in {t.day - 1, t.day} /\ (day = t.day - 1 => w.end < w.start /\ t.time < w.end)
BY DEF Lasts, StartOn, End, Before, Instant, Time

\* isInWindow is true just while an occurrence of the window lasts.
LEMMA InWindowIsLasting ==
    ASSUME NEW w, w.start \in Time, w.end \in Time, NEW t \in Instant
    PROVE  IsInWindow(w, t) <=> \E day \in {t.day - 1, t.day} : Lasts(w, day, t)
<1>1. t.day \in Int /\ t.time \in Time
  BY DEF Instant
<1>2. Lasts(w, t.day, t) <=>
        IsDayMatch(w, t.day) /\ t.time >= w.start /\ (w.end < w.start \/ t.time < w.end)
  BY <1>1 DEF Lasts, StartOn, End, Before, Time
<1>3. Lasts(w, t.day - 1, t) <=>
        IsDayMatch(w, t.day - 1) /\ w.end < w.start /\ t.time < w.end
  BY <1>1 DEF Lasts, StartOn, End, Before, Time
<1> QED
  BY <1>1, <1>2, <1>3 DEF IsInWindow, Time

\* What lasts on a date that is not excluded makes the plan's window open.
LEMMA LastingIsOpen ==
    ASSUME TypeOK, NEW w \in Enabled, NEW day \in Int, NEW t \in Instant,
           Lasts(w, day, t), ~IsExcludedDate(t.day)
    PROVE  IsInMaintenanceWindow(t)
<1>1. day \in {t.day - 1, t.day}
  BY EnabledWindow, LastsNearby
<1>2. IsInWindow(w, t)
  BY <1>1, EnabledWindow, InWindowIsLasting
<1> QED
  BY <1>2 DEF IsInMaintenanceWindow

\* What NextMaintenanceWindow returns lies within a week, or a year without windows,
\* not before the question, and the plan finds it open unless it never opens.
LEMMA OpeningIsOpen ==
    ASSUME TypeOK, NEW t \in Instant, NEW s \in Openings(t)
    PROVE  /\ s \in Instant /\ ~Before(s, t)
           /\ spec.windows # {} => s.day =< t.day + 6
           /\ \/ IsInMaintenanceWindow(s)
              \/ \E w \in Enabled : w.start = w.end /\ w.start = s.time
<1>0. t.day \in Nat /\ t.time \in Time
  BY DEF Instant
<1>1. CASE spec.windows = {}
  <2>1. PICK day \in t.day..(t.day + 365) :
          ~IsExcludedDate(day) /\ s = [day |-> day, time |-> IF day = t.day THEN t.time ELSE 0]
    BY <1>1 DEF Openings, FreeDates
  <2>2. s \in Instant /\ s.day = day /\ (day = t.day => s.time = t.time)
    BY <1>0, <2>1, DayLengthAssumption DEF Instant, Time
  <2>3. ~Before(s, t)
    BY <1>0, <2>2 DEF Before, Time
  <2> QED
    BY <1>1, <2>1, <2>2, <2>3 DEF IsInMaintenanceWindow
<1>2. CASE spec.windows # {}
  <2>1. s \in Starts(t)
    BY <1>2 DEF Openings
  <2>2. PICK v \in Enabled, day \in t.day..(t.day + 6) : s = StartOn(v, day)
    BY <2>1 DEF Starts
  <2>3. s \in Instant /\ s.day = day
    BY <1>0, <2>2, EnabledWindow DEF StartOn, Instant
  <2>4. ~IsExcludedDate(s.day) /\ ~Before(s, t)
    BY <2>1 DEF Starts
  <2>5. PICK w \in Enabled : w.start = s.time /\ IsDayMatch(w, s.day)
    BY <2>1 DEF Starts
  <2>6. w.start \in Time /\ w.end \in Time
    BY EnabledWindow
  <2>7. w.start = w.end \/ IsInWindow(w, s)
    BY <2>5, <2>6 DEF IsInWindow, Time
  <2>8. IsInMaintenanceWindow(s) \/ (w.start = w.end /\ w.start = s.time)
    BY <2>4, <2>5, <2>7 DEF IsInMaintenanceWindow
  <2> QED
    BY <1>0, <1>2, <2>2, <2>3, <2>4, <2>8
<1> QED
  BY <1>1, <1>2

\* Every start of the next seven days is among the openings.
LEMMA StartIsOpening ==
    ASSUME TypeOK, NEW t \in Instant, NEW w \in Enabled, NEW day \in Int,
           day =< t.day + 6, IsDayMatch(w, day), ~IsExcludedDate(day),
           ~Before(StartOn(w, day), t)
    PROVE  StartOn(w, day) \in Openings(t)
<1>1. w.start \in Time /\ spec.windows # {} /\ t.day \in Nat
  BY EnabledWindow DEF Instant
<1>2. StartOn(w, day).day = day /\ StartOn(w, day).time = w.start
  BY <1>1, StartType
<1>3. day \in t.day..(t.day + 6)
  BY <1>1, <1>2 DEF Before
<1> QED
  BY <1>1, <1>2, <1>3 DEF Openings, Starts

-----------------------------------------------------------------------------
(* Every step keeps the invariant.                                           *)

LEMMA InitIInv == Init => IInv
<1> SUFFICES ASSUME Init PROVE IInv
  OBVIOUS
<1>1. Start \in Instant
  BY DayLengthAssumption DEF Start, Instant, Time
<1>2. TypeOK
  BY <1>1, SpecsAssumption DEF Init, TypeOK
<1>3. ~Before(Start, Start)
  BY DEF Before, Start
<1>4. ~Asleep
  BY <1>3 DEF Init, Asleep
<1> QED
  BY <1>2, <1>4 DEF Init, IInv, RoundKnows, SleepKnows, SleepKnowsDates, WakesToOpen

\* Steps that leave the spec alone leave what the windows and dates say.
LEMMA SpecKept ==
    ASSUME spec' = spec
    PROVE  /\ Enabled' = Enabled
           /\ \A w, day, t : /\ Lasts(w, day, t)' <=> Lasts(w, day, t)
                            /\ IsExcludedDate(day)' <=> IsExcludedDate(day)
           /\ \A t : IsInMaintenanceWindow(t)' <=> IsInMaintenanceWindow(t)
BY DEF Enabled, Lasts, IsExcludedDate, IsInMaintenanceWindow

LEMMA NotBeforeItself == ASSUME NEW t \in Instant PROVE ~Before(t, t)
BY DEF Before, Instant, Time

LEMMA CheckIInv == ASSUME IInv, Check PROVE IInv'
<1>1. /\ TypeOK /\ spec' = spec /\ now' = now /\ ticks' = ticks /\ slipped' = {}
      /\ round = "none" /\ now \in Instant
  BY DEF Check, IInv, TypeOK
<1>2. CASE IsInMaintenanceWindow(now)
  <2>1. wake' = now /\ found' = FALSE /\ round' = "none"
    BY <1>1, <1>2 DEF Check
  <2>2. TypeOK'
    BY <1>1, <2>1 DEF TypeOK
  <2>3. ~Asleep'
    BY <1>1, <2>1, NotBeforeItself DEF Asleep
  <2> QED
    BY <2>1, <2>2, <2>3 DEF IInv, RoundKnows, SleepKnows, SleepKnowsDates, WakesToOpen
<1>3. CASE ~IsInMaintenanceWindow(now)
  <2>1. wake' = wake /\ found' = found /\ round' = "closed"
    BY <1>1, <1>3 DEF Check
  <2>2. TypeOK'
    BY <1>1, <2>1 DEF TypeOK
  <2>3. ~Asleep'
    BY <2>1 DEF Asleep
  <2>4. RoundKnows'
    <3>1. ASSUME ~IsExcludedDate(now.day), NEW w \in Enabled, NEW day \in Int
          PROVE  ~Lasts(w, day, now)
      BY <1>1, <1>3, <3>1, LastingIsOpen
    <3> QED
      BY <1>1, <3>1, SpecKept DEF RoundKnows
  <2>5. WakesToOpen'
    BY <1>1, <2>1, SpecKept DEF IInv, WakesToOpen
  <2> QED
    BY <2>2, <2>3, <2>4, <2>5 DEF IInv, SleepKnows, SleepKnowsDates
<1> QED
  BY <1>2, <1>3

\* The opening is found: whatever begins now or later begins no earlier than that.
LEMMA SleepUntilOpeningIInv == ASSUME IInv, SleepUntilOpening PROVE IInv'
<1>1. /\ TypeOK /\ spec' = spec /\ now' = now /\ slipped' = slipped /\ ticks' = 0
      /\ round = "closed" /\ round' = "none" /\ found' = TRUE /\ now \in Instant
  BY DEF SleepUntilOpening, IInv, TypeOK
<1>2. wake' \in Openings(now) /\ \A u \in Openings(now) : ~Before(u, wake')
  BY DEF SleepUntilOpening, NextMaintenanceWindow
<1>3. /\ wake' \in Instant /\ ~Before(wake', now)
      /\ spec.windows # {} => wake'.day =< now.day + 6
      /\ \/ IsInMaintenanceWindow(wake')
         \/ \E w \in Enabled : w.start = w.end /\ w.start = wake'.time
  BY <1>1, <1>2, OpeningIsOpen
<1>4. TypeOK'
  BY <1>1, <1>3 DEF TypeOK
<1>5. RoundKnows'
  BY <1>1 DEF RoundKnows
<1>6. WakesToOpen'
  BY <1>1, <1>3, SpecKept DEF WakesToOpen, IsInMaintenanceWindow, IsExcludedDate, Enabled
<1>7. SleepKnows'
  <2> SUFFICES ASSUME Asleep', spec'.windows # {}
               PROVE  /\ ~IsExcludedDate(now.day)' =>
                           \A w \in Enabled', day \in Int :
                             Lasts(w, day, now') => Excused(w, day)'
                      /\ \A w \in Enabled', day \in Int :
                           (IsDayMatch(w, day) /\ ~IsExcludedDate(day)'
                              /\ ~Before(StartOn(w, day), now'))
                           => ~Before(StartOn(w, day), wake')
    BY DEF SleepKnows
  <2>1. Before(now, wake')
    BY <1>1 DEF Asleep
  <2>2. ASSUME ~IsExcludedDate(now.day), NEW w \in Enabled, NEW day \in Int,
               Lasts(w, day, now)
        PROVE  Excused(w, day)
    <3>1. CASE StartOn(w, day) = now /\ ~IsExcludedDate(day)
      <4>1. day =< now.day + 6 /\ IsDayMatch(w, day)
        BY <1>1, <2>2, EnabledWindow, LastsNearby DEF Lasts, Instant
      <4>2. now \in Openings(now)
        BY <1>1, <3>1, <4>1, NotBeforeItself, StartIsOpening
      <4> QED
        BY <1>2, <2>1, <4>2
    <3> QED
      BY <1>1, <2>2, <3>1 DEF IInv, RoundKnows, Excused
  <2>3. ASSUME NEW w \in Enabled, NEW day \in Int, IsDayMatch(w, day),
               ~IsExcludedDate(day), ~Before(StartOn(w, day), now)
        PROVE  ~Before(StartOn(w, day), wake')
    <3>1. CASE day =< now.day + 6
      BY <1>1, <1>2, <2>3, <3>1, StartIsOpening
    <3>2. CASE day > now.day + 6
      <4>1. wake'.day =< now.day + 6 /\ wake'.day \in Nat /\ now.day \in Nat
        BY <1>1, <1>3 DEF Instant
      <4>2. StartOn(w, day).day = day
        BY DEF StartOn
      <4> QED
        BY <3>2, <4>1, <4>2 DEF Before
    <3> QED
      BY <1>1, <3>1, <3>2 DEF Instant
  <2> QED
    BY <1>1, <2>2, <2>3 DEF Enabled, IsExcludedDate, Excused
<1>8. SleepKnowsDates'
  <2> SUFFICES ASSUME Before(now, wake'), spec.windows = {}, NEW day \in now.day..wake'.day
               PROVE  IsExcludedDate(day) \/ (day = wake'.day /\ wake'.time = 0)
    BY <1>1 DEF SleepKnowsDates, Asleep, IsExcludedDate
  <2>1. PICK free \in now.day..(now.day + 365) :
          /\ ~IsExcludedDate(free)
          /\ wake' = [day |-> free, time |-> IF free = now.day THEN now.time ELSE 0]
    BY <1>2 DEF Openings, FreeDates
  <2>2. now.day \in Nat /\ now.time \in Time /\ wake'.day = free
        /\ now = [day |-> now.day, time |-> now.time]
    BY <1>1, <2>1 DEF Instant
  <2>3. ASSUME day < free, ~IsExcludedDate(day) PROVE FALSE
    <3> DEFINE earlier == [day |-> day, time |-> IF day = now.day THEN now.time ELSE 0]
    <3>1. day \in now.day..(now.day + 365)
      BY <2>1, <2>2, <2>3
    <3>2. earlier \in Openings(now)
      BY <2>3, <3>1 DEF Openings, FreeDates
    <3>3. Before(earlier, wake')
      BY <2>1, <2>2, <2>3, <3>1 DEF Before
    <3> QED
      BY <1>2, <3>2, <3>3
  <2>4. free # now.day
    BY <1>1, <2>1, <2>2, NotBeforeItself
  <2>5. wake'.time = 0
    BY <2>1, <2>4
  <2> QED
    BY <2>1, <2>2, <2>3, <2>5
<1> QED
  BY <1>4, <1>5, <1>6, <1>7, <1>8 DEF IInv

\* Nothing begins in the next seven days, and the plan asks again within one.
LEMMA AskLaterIInv == ASSUME IInv, AskLater PROVE IInv'
<1>1. /\ TypeOK /\ spec' = spec /\ now' = now /\ slipped' = slipped /\ ticks' = 0
      /\ round = "closed" /\ round' = "none" /\ found' = FALSE /\ now \in Instant
      /\ wake' = After(now, RetryTime) /\ Openings(now) = {}
  BY DEF AskLater, IInv, TypeOK
<1>2. wake' \in Instant /\ wake'.day \in {now.day, now.day + 1} /\ now.day \in Nat
  BY <1>1, AfterType, RetryTimeAssumption, DayLengthAssumption DEF Instant
<1>3. TypeOK'
  BY <1>1, <1>2 DEF TypeOK
<1>4. RoundKnows' /\ WakesToOpen'
  BY <1>1 DEF RoundKnows, WakesToOpen
<1>5. ASSUME NEW w \in Enabled, NEW day \in Int, IsDayMatch(w, day),
             ~IsExcludedDate(day), ~Before(StartOn(w, day), now)
      PROVE  day > now.day + 6
  BY <1>1, <1>2, <1>5, StartIsOpening
<1>6. ASSUME ~IsExcludedDate(now.day), NEW w \in Enabled, NEW day \in Int,
             Lasts(w, day, now)
      PROVE  Excused(w, day)
  <2>1. CASE StartOn(w, day) = now /\ ~IsExcludedDate(day)
    <3>1. day =< now.day /\ IsDayMatch(w, day)
      BY <1>1, <1>2, <1>6, EnabledWindow, LastsNearby DEF Lasts
    <3> QED
      BY <1>1, <1>2, <1>5, <2>1, <3>1, NotBeforeItself
  <2> QED
    BY <1>1, <1>6, <2>1 DEF IInv, RoundKnows, Excused
<1>7. ASSUME NEW w \in Enabled, NEW day \in Int, IsDayMatch(w, day),
             ~IsExcludedDate(day), ~Before(StartOn(w, day), now)
      PROVE  ~Before(StartOn(w, day), wake')
  <2>1. day > now.day + 6 /\ StartOn(w, day).day = day
    BY <1>5, <1>7 DEF StartOn
  <2> QED
    BY <1>2, <2>1 DEF Before
<1>8. SleepKnows'
  BY <1>1, <1>6, <1>7 DEF SleepKnows, Enabled, IsExcludedDate, Excused
<1>9. SleepKnowsDates'
  <2> SUFFICES ASSUME spec.windows = {}, NEW day \in now.day..wake'.day
               PROVE  IsExcludedDate(day)
    BY <1>1 DEF SleepKnowsDates, IsExcludedDate
  <2>1. day \in now.day..(now.day + 365)
    BY <1>2
  <2>2. ASSUME ~IsExcludedDate(day) PROVE FALSE
    <3>1. [day |-> day, time |-> IF day = now.day THEN now.time ELSE 0] \in FreeDates(now)
      BY <2>1, <2>2 DEF FreeDates
    <3> QED
      BY <1>1, <3>1 DEF Openings
  <2> QED
    BY <2>2
<1> QED
  BY <1>3, <1>4, <1>8, <1>9 DEF IInv

\* What lasts one instant later lasts now, or begins then; and a date whose windows
\* still last is today or yesterday.
LEMMA LastsLater ==
    ASSUME TypeOK, NEW w \in Enabled, NEW day \in Int, Lasts(w, day, After(now, 1))
    PROVE  /\ Lasts(w, day, now) \/ StartOn(w, day) = After(now, 1)
           /\ After(now, 1).day # now.day /\ day \in {now.day - 1, now.day} => day = now.day
<1> DEFINE then == After(now, 1)
<1>1. now \in Instant /\ w.start \in Time /\ w.end \in Time
  BY EnabledWindow DEF TypeOK
<1>2. /\ then \in Instant /\ then.day \in {now.day, now.day + 1}
      /\ \A s \in [day : Int, time : Time] : Before(s, then) <=> (Before(s, now) \/ s = now)
      /\ Before(now, then)
  BY <1>1, TickOrder
<1>3. StartOn(w, day) \in [day : Int, time : Time]
  BY <1>1, StartType
<1>4. End(w, day) \in [day : Int, time : Time]
  BY <1>1 DEF End
<1> HIDE DEF then
<1>5. ~Before(StartOn(w, day), now) /\ StartOn(w, day) # now => ~Before(StartOn(w, day), then)
  BY <1>2, <1>3
<1>6. then.day \in Nat /\ then.time \in Time /\ now.day \in Nat /\ now.time \in Time
      /\ then = [day |-> then.day, time |-> then.time]
  BY <1>1, <1>2 DEF Instant
<1>7. Before(then, End(w, day)) => Before(now, End(w, day))
  BY <1>2, <1>4, <1>6 DEF Before, Time
<1>8. IsDayMatch(w, day) /\ ~Before(then, StartOn(w, day)) /\ Before(then, End(w, day))
  BY DEF Lasts, then
<1>9. Before(now, StartOn(w, day)) => StartOn(w, day) = then
  <2>1. StartOn(w, day).day \in Int /\ StartOn(w, day).time \in Time
        /\ StartOn(w, day) = [day |-> StartOn(w, day).day, time |-> StartOn(w, day).time]
    BY <1>3
  <2>2. \/ Before(StartOn(w, day), then) \/ StartOn(w, day) = then
    BY <1>6, <1>8, <2>1 DEF Before, Time
  <2>3. Before(now, StartOn(w, day)) => ~Before(StartOn(w, day), now) /\ StartOn(w, day) # now
    BY <1>6, <2>1 DEF Before, Time
  <2> QED
    BY <1>5, <2>2, <2>3
<1>10. Lasts(w, day, now) \/ StartOn(w, day) = then
  BY <1>7, <1>8, <1>9 DEF Lasts
<1>11. day \in {then.day - 1, then.day}
  BY <1>1, <1>2, LastsNearby DEF then
<1> QED
  BY <1>2, <1>6, <1>10, <1>11 DEF then

LEMMA TickIInv == ASSUME IInv, Tick PROVE IInv'
<1>1. /\ TypeOK /\ spec' = spec /\ slipped' = slipped /\ ticks' = ticks
      /\ round = "none" /\ round' = "none" /\ now' = After(now, 1)
      /\ now \in Instant /\ wake \in Instant
  BY DEF Tick, IInv, TypeOK
<1>2. /\ now' \in Instant /\ Before(now, now') /\ now'.day \in {now.day, now.day + 1}
      /\ \A s \in [day : Int, time : Time] : Before(s, now') <=> (Before(s, now) \/ s = now)
  BY <1>1, TickOrder
<1>3. RoundKnows'
  BY <1>1 DEF RoundKnows
<1>4. CASE ~Before(now, wake)
  <2>1. wake' = now' /\ found' = FALSE
    BY <1>4 DEF Tick
  <2>2. ~Asleep'
    BY <1>2, <2>1, NotBeforeItself DEF Asleep
  <2>3. TypeOK'
    BY <1>1, <1>2, <2>1 DEF TypeOK
  <2> QED
    BY <1>3, <2>1, <2>2, <2>3 DEF IInv, SleepKnows, SleepKnowsDates, WakesToOpen
<1>5. CASE Before(now, wake)
  <2>1. wake' = wake /\ found' = found /\ Asleep
    BY <1>1, <1>5 DEF Tick, Asleep
  <2>2. TypeOK'
    BY <1>1, <1>2, <2>1 DEF TypeOK
  <2>3. WakesToOpen'
    BY <1>1, <2>1 DEF IInv, WakesToOpen, IsInMaintenanceWindow, IsExcludedDate, Enabled
  <2>4. SleepKnows'
    <3> SUFFICES ASSUME Before(now', wake), spec.windows # {} PROVE SleepKnows'
      BY <1>1, <2>1 DEF SleepKnows, Asleep
    <3>1. ASSUME ~IsExcludedDate(now'.day), NEW w \in Enabled, NEW day \in Int,
                 Lasts(w, day, now')
          PROVE  Excused(w, day)
      <4>1. Lasts(w, day, now) \/ StartOn(w, day) = now'
        BY <1>1, <3>1, LastsLater
      <4>2. CASE Lasts(w, day, now) /\ ~IsExcludedDate(now.day)
        BY <2>1, <4>2 DEF IInv, SleepKnows
      <4>3. CASE Lasts(w, day, now) /\ IsExcludedDate(now.day)
        <5>1. day \in {now.day - 1, now.day} /\ now'.day # now.day
          BY <1>1, <3>1, <4>3, EnabledWindow, LastsNearby
        <5>2. day = now.day
          BY <1>1, <3>1, <5>1, LastsLater
        <5> QED
          BY <4>3, <5>2 DEF Excused
      <4>4. CASE StartOn(w, day) = now'
        <5>1. IsDayMatch(w, day)
          BY <3>1 DEF Lasts
        <5>2. ~Before(StartOn(w, day), now)
          BY <1>1, <1>2, <4>4 DEF Before, Instant, Time
        <5>3. IsExcludedDate(day) \/ ~Before(StartOn(w, day), wake)
          BY <2>1, <5>1, <5>2 DEF IInv, SleepKnows
        <5> QED
          BY <4>4, <5>3 DEF Excused
      <4> QED
        BY <4>1, <4>2, <4>3, <4>4
    <3>2. ASSUME NEW w \in Enabled, NEW day \in Int, IsDayMatch(w, day),
                 ~IsExcludedDate(day), ~Before(StartOn(w, day), now')
          PROVE  ~Before(StartOn(w, day), wake)
      <4>1. StartOn(w, day) \in [day : Int, time : Time]
        BY <1>1, EnabledWindow, StartType
      <4>2. ~Before(StartOn(w, day), now)
        BY <1>2, <3>2, <4>1
      <4> QED
        BY <2>1, <3>2, <4>2 DEF IInv, SleepKnows
    <3> QED
      BY <1>1, <2>1, <3>1, <3>2 DEF SleepKnows, Enabled, IsExcludedDate, Excused
  <2>5. SleepKnowsDates'
    <3>1. now.day \in Nat /\ now'.day \in Nat /\ wake.day \in Nat
      BY <1>1, <1>2 DEF Instant
    <3>2. now'.day..wake.day \subseteq now.day..wake.day
      BY <1>2, <3>1
    <3> QED
      BY <1>1, <2>1, <3>2 DEF IInv, SleepKnowsDates, IsExcludedDate
  <2> QED
    BY <1>3, <2>2, <2>3, <2>4, <2>5 DEF IInv
<1> QED
  BY <1>4, <1>5

LEMMA TickInRoundIInv == ASSUME IInv, TickInRound PROVE IInv'
<1>1. /\ TypeOK /\ spec' = spec /\ wake' = wake /\ found' = found
      /\ round = "closed" /\ round' = "closed" /\ now' = After(now, 1)
      /\ ticks' = ticks + 1 /\ now \in Instant
      /\ slipped' = IF IsInMaintenanceWindow(now) THEN slipped \cup {now} ELSE slipped
  BY DEF TickInRound, IInv, TypeOK
<1>2. now' \in Instant
  BY <1>1, TickOrder
<1>3. TypeOK'
  BY <1>1, <1>2 DEF TypeOK
<1>4. ~Asleep'
  BY <1>1 DEF Asleep
<1>5. WakesToOpen'
  BY <1>1 DEF IInv, WakesToOpen, IsInMaintenanceWindow, IsExcludedDate, Enabled
<1>6. ASSUME ~IsExcludedDate(now'.day), NEW w \in Enabled, NEW day \in Int,
             Lasts(w, day, now'), Lasts(w, day, now)
      PROVE  IsExcludedDate(day) \/ StartOn(w, day) \in slipped'
  <2>1. CASE IsExcludedDate(now.day)
    <3>1. day \in {now.day - 1, now.day} /\ now'.day # now.day
      BY <1>1, <1>6, <2>1, EnabledWindow, LastsNearby
    <3>2. day = now.day
      BY <1>1, <1>6, <3>1, LastsLater
    <3> QED
      BY <2>1, <3>2
  <2>2. CASE ~IsExcludedDate(now.day)
    <3>1. Excused(w, day) \/ StartOn(w, day) = now
      BY <1>1, <1>6, <2>2 DEF IInv, RoundKnows
    <3>2. IsInMaintenanceWindow(now)
      BY <1>1, <1>6, <2>2, LastingIsOpen
    <3> QED
      BY <1>1, <3>1, <3>2 DEF Excused
  <2> QED
    BY <2>1, <2>2
<1>7. RoundKnows'
  <2>1. ASSUME ~IsExcludedDate(now'.day), NEW w \in Enabled, NEW day \in Int,
               Lasts(w, day, now')
        PROVE  IsExcludedDate(day) \/ StartOn(w, day) \in slipped' \/ StartOn(w, day) = now'
    BY <1>1, <1>6, <2>1, LastsLater
  <2> QED
    BY <1>1, <2>1 DEF RoundKnows, Enabled, IsExcludedDate, Excused
<1> QED
  BY <1>3, <1>4, <1>5, <1>7 DEF IInv, SleepKnows, SleepKnowsDates

LEMMA NextIInv == IInv /\ [Next]_vars => IInv'
<1> SUFFICES ASSUME IInv, [Next]_vars PROVE IInv'
  OBVIOUS
<1>1. CASE UNCHANGED vars
  BY <1>1 DEF vars, IInv, TypeOK, RoundKnows, SleepKnows, SleepKnowsDates, WakesToOpen,
     Asleep, Enabled, IsExcludedDate, IsInMaintenanceWindow, Excused
<1> QED
  BY <1>1, CheckIInv, SleepUntilOpeningIInv, AskLaterIInv, TickIInv, TickInRoundIInv DEF Next

LEMMA AlwaysIInv == Spec => []IInv
BY InitIInv, NextIInv, PTL DEF Spec

-----------------------------------------------------------------------------
(* The theorems.                                                             *)

\* Every variable keeps its type: what NextMaintenanceWindow returns is an instant of
\* a day, for every spec.
THEOREM TypeCorrect == Spec => []TypeOK
<1>1. IInv => TypeOK
  BY DEF IInv
<1> QED
  BY <1>1, AlwaysIInv, PTL

\* isInWindow, which looks at the clock and two weekdays, says the same as the
\* occurrences of the windows as intervals of time, for every spec and instant.
THEOREM WindowsAsListed == Spec => []OpenAsListed
<1>1. TypeOK => OpenAsListed
  <2> SUFFICES ASSUME TypeOK, NEW w \in Enabled
               PROVE  IsInWindow(w, now) <=> \E day \in -1..now.day : Lasts(w, day, now)
    BY DEF OpenAsListed, IsInMaintenanceWindow
  <2>1. w.start \in Time /\ w.end \in Time /\ now \in Instant /\ now.day \in Nat
    BY EnabledWindow DEF TypeOK, Instant
  <2>2. IsInWindow(w, now) <=> \E day \in {now.day - 1, now.day} : Lasts(w, day, now)
    BY <2>1, InWindowIsLasting
  <2>3. ASSUME NEW day \in -1..now.day, Lasts(w, day, now)
        PROVE  day \in {now.day - 1, now.day}
    BY <2>1, <2>3, LastsNearby
  <2>4. {now.day - 1, now.day} \subseteq -1..now.day
    BY <2>1
  <2> QED
    BY <2>2, <2>3, <2>4
<1> QED
  BY <1>1, TypeCorrect, PTL

\* A plan that sleeps misses no opening, for every spec, whatever time a round takes
\* and whenever it is woken.
THEOREM NothingMissed == Spec => []NoOpeningMissed
<1>1. IInv => NoOpeningMissed
  <2> SUFFICES ASSUME IInv, Asleep, IsInMaintenanceWindow(now)
               PROVE  \E w \in Enabled, day \in {now.day - 1, now.day} :
                        Lasts(w, day, now) /\ Excused(w, day)
    BY DEF NoOpeningMissed, Excused
  <2>1. now \in Instant /\ wake \in Instant /\ now.day \in Nat /\ TypeOK
    BY DEF IInv, TypeOK, Instant
  <2>2. spec.windows # {}
    <3>1. ASSUME spec.windows = {} PROVE FALSE
      <4>1. Before(now, wake) /\ now.time \in Time /\ wake.time \in Time /\ wake.day \in Nat
        BY <2>1 DEF Asleep, Instant
      <4>2. now.day \in now.day..wake.day
        BY <2>1, <4>1 DEF Before
      <4>3. ~(now.day = wake.day /\ wake.time = 0)
        BY <2>1, <4>1 DEF Before, Time
      <4>4. IsExcludedDate(now.day)
        BY <3>1, <4>2, <4>3 DEF IInv, SleepKnowsDates
      <4> QED
        BY <4>4 DEF IsInMaintenanceWindow
    <3> QED
      BY <3>1
  <2>3. PICK w \in Enabled : IsInWindow(w, now)
    BY <2>2 DEF IsInMaintenanceWindow
  <2>4. PICK day \in {now.day - 1, now.day} : Lasts(w, day, now)
    BY <2>1, <2>3, EnabledWindow, InWindowIsLasting
  <2>5. Excused(w, day)
    BY <2>1, <2>2, <2>4 DEF IInv, SleepKnows, IsInMaintenanceWindow
  <2> QED
    BY <2>4, <2>5
<1> QED
  BY <1>1, AlwaysIInv, PTL

\* The instant a plan sleeps until is open, for every spec: NextMaintenanceWindow never
\* answers with a moment at which IsInMaintenanceWindow turns the plan away.
THEOREM WakesWhenOpen == Spec => []WakesToOpen
<1>1. IInv => WakesToOpen
  BY DEF IInv
<1> QED
  BY <1>1, AlwaysIInv, PTL
=============================================================================
