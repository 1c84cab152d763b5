----------------------------- MODULE Maintenance -----------------------------
(***************************************************************************)
(* Maintenance windows.                                                     *)
(*                                                                          *)
(* A round of a plan asks whether it is within a window and, if not, when   *)
(* the next one opens, and sleeps until then.  The two questions are        *)
(* answered by different functions, from different readings of the clock.   *)
(*                                                                          *)
(* Dates are days since a Sunday; a day has DayLength instants, in UTC.  An *)
(* instant is a minute or less: windows begin and end on some of them, and  *)
(* the clock shows those and the ones between.                              *)
(***************************************************************************)
EXTENDS Integers

CONSTANTS
    DayLength,   \* instants of a day
    Specs,       \* the maintenance specs of a plan; no windows and dates: as good as none
    RetryTime,   \* how long a plan sleeps when it finds no opening (15 minutes)
    RoundTime,   \* bound: how often the clock moves between the questions of a round
    LastDay      \* bound: the calendar ends here

Time == 0..(DayLength - 1)
Window == [days : SUBSET (0..6), start : Time, end : Time, disabled : BOOLEAN]
MaintenanceSpec == [windows : SUBSET Window, excluded : SUBSET Nat]

ASSUME DayLengthAssumption == DayLength \in Nat \ {0}
ASSUME SpecsAssumption == Specs \subseteq MaintenanceSpec
ASSUME RetryTimeAssumption == RetryTime \in 1..DayLength
ASSUME BoundsAssumption == RoundTime \in Nat /\ LastDay \in Nat

VARIABLES
    spec,     \* the MaintenanceSpec of the plan
    now,      \* the clock
    round,    \* "none", or "closed": between the two questions
    wake,     \* when the next round is due
    found,    \* whether the plan sleeps until an opening it has computed
    ticks,    \* how often the clock has moved since the first question
    slipped   \* history: open instants between the questions of the last round

vars == <<spec, now, round, wake, found, ticks, slipped>>

Instant == [day : Nat, time : Time]
Start == [day |-> 0, time |-> 0]

Init ==
    /\ spec \in Specs
    /\ now = Start /\ wake = Start
    /\ round = "none" /\ ticks = 0 /\ slipped = {}
    /\ found = FALSE

-----------------------------------------------------------------------------
Before(s, t) == s.day < t.day \/ (s.day = t.day /\ s.time < t.time)

\* duration =< DayLength.
After(t, duration) ==
    IF t.time + duration < DayLength
    THEN [day |-> t.day, time |-> t.time + duration]
    ELSE [day |-> t.day + 1, time |-> t.time + duration - DayLength]

IsExcludedDate(day) == day \in spec.excluded

Enabled == {w \in spec.windows : ~w.disabled}

\* No days, "Any" and "All" match every day.
IsDayMatch(w, day) == w.days = {} \/ day % 7 \in w.days

\* A window that spans midnight: the listed day owns the evening, the day before the
\* morning.
IsInWindow_ListedDay(w, t) ==
    IF w.end < w.start
    THEN (t.time >= w.start \/ t.time < w.end) /\ IsDayMatch(w, t.day)
    ELSE t.time >= w.start /\ t.time < w.end /\ IsDayMatch(w, t.day)
IsInWindow(w, t) ==
    IF w.end < w.start
    THEN \/ t.time >= w.start /\ IsDayMatch(w, t.day)
         \/ t.time < w.end /\ IsDayMatch(w, t.day - 1)
    ELSE t.time >= w.start /\ t.time < w.end /\ IsDayMatch(w, t.day)

IsInMaintenanceWindow(t) ==
    /\ ~IsExcludedDate(t.day)
    /\ spec.windows = {} \/ \E w \in Enabled : IsInWindow(w, t)

StartOn(w, day) == [day |-> day, time |-> w.start]

\* The openings of the seven days from t.
Starts_AnyDate(t) ==
    {s \in {StartOn(w, day) : w \in Enabled, day \in t.day..(t.day + 6)} :
        ~Before(s, t) /\ \E w \in Enabled : w.start = s.time /\ IsDayMatch(w, s.day)}
Starts(t) ==
    {s \in {StartOn(w, day) : w \in Enabled, day \in t.day..(t.day + 6)} :
        /\ ~IsExcludedDate(s.day) /\ ~Before(s, t)
        /\ \E w \in Enabled : w.start = s.time /\ IsDayMatch(w, s.day)}

\* Without windows: t itself, or the beginning of a free date within 366 days.
FreeDates_EndOfDate(t) ==
    {[day |-> day, time |-> IF day = t.day THEN t.time ELSE DayLength] :
        day \in {d \in t.day..(t.day + 365) : ~IsExcludedDate(d)}}
FreeDates(t) ==
    {[day |-> day, time |-> IF day = t.day THEN t.time ELSE 0] :
        day \in {d \in t.day..(t.day + 365) : ~IsExcludedDate(d)}}

Openings(t) == IF spec.windows = {} THEN FreeDates(t) ELSE Starts(t)

NextMaintenanceWindow_Any(t, s) == s \in Openings(t)
NextMaintenanceWindow(t, s) ==
    /\ s \in Openings(t)
    /\ \A u \in Openings(t) : ~Before(u, s)

-----------------------------------------------------------------------------
\* A round begins when it is due, or earlier or later: a PatchJob changes, or the
\* workers are busy.  Within a window it schedules, and the plan is woken by its jobs.
Check ==
    /\ round = "none"
    /\ IF IsInMaintenanceWindow(now)
       THEN wake' = now /\ found' = FALSE /\ UNCHANGED round
       ELSE round' = "closed" /\ UNCHANGED <<wake, found>>
    /\ slipped' = {}
    /\ UNCHANGED <<spec, now, ticks>>

\* The wait for an opening that is now or past is a second.
SleepUntilOpening ==
    /\ round = "closed"
    /\ \E s \in Openings(now) : NextMaintenanceWindow(now, s) /\ wake' = s
    /\ found' = TRUE /\ round' = "none" /\ ticks' = 0
    /\ UNCHANGED <<spec, now, slipped>>

AskLater ==
    /\ round = "closed"
    /\ Openings(now) = {}
    /\ wake' = After(now, RetryTime)
    /\ found' = FALSE /\ round' = "none" /\ ticks' = 0
    /\ UNCHANGED <<spec, now, slipped>>

\* While the plan is left alone; a plan that is due stays due.
Tick ==
    /\ round = "none"
    /\ now' = After(now, 1) /\ now'.day =< LastDay
    /\ IF Before(now, wake) THEN UNCHANGED <<wake, found>> ELSE wake' = now' /\ found' = FALSE
    /\ UNCHANGED <<spec, round, ticks, slipped>>

\* Between the two questions of a round.
TickInRound ==
    /\ round = "closed" /\ ticks < RoundTime
    /\ ticks' = ticks + 1
    /\ now' = After(now, 1) /\ now'.day =< LastDay
    /\ slipped' = IF IsInMaintenanceWindow(now) THEN slipped \cup {now} ELSE slipped
    /\ UNCHANGED <<spec, round, wake, found>>

Next == Check \/ SleepUntilOpening \/ AskLater \/ Tick \/ TickInRound

Spec == Init /\ [][Next]_vars

-----------------------------------------------------------------------------
(* Correctness.                                                              *)

\* The shape of every variable; every instant is one of a day.
TypeOK ==
    /\ spec \in MaintenanceSpec
    /\ now \in Instant /\ wake \in Instant /\ slipped \in SUBSET Instant
    /\ round \in {"none", "closed"}
    /\ found \in BOOLEAN /\ ticks \in Nat

\* A window of a listed day lasts from its start to the next time the clock shows its
\* end; one that starts when it ends never opens.
End(w, day) == [day |-> IF w.end < w.start THEN day + 1 ELSE day, time |-> w.end]
Lasts(w, day, t) ==
    IsDayMatch(w, day) /\ ~Before(t, StartOn(w, day)) /\ Before(t, End(w, day))

\* isInWindow, which looks at the clock and the two weekdays around midnight, says the
\* same as the occurrences of the windows as intervals of time: no evening or morning
\* is given to the wrong day, whatever the weekdays and excluded dates.
OpenAsListed ==
    IsInMaintenanceWindow(now) <=>
        /\ ~IsExcludedDate(now.day)
        /\ spec.windows = {} \/ \E w \in Enabled, day \in -1..now.day : Lasts(w, day, now)

Asleep == round = "none" /\ Before(now, wake)

\* A plan that sleeps misses no opening: while it sleeps no window is open, except one
\* that opened between the two readings of the clock and the morning of a window that
\* began on an excluded date (IsInMaintenanceWindow against NextMaintenanceWindow).
NoOpeningMissed ==
    (Asleep /\ IsInMaintenanceWindow(now)) =>
        \E w \in Enabled, day \in {now.day - 1, now.day} :
            /\ Lasts(w, day, now)
            /\ IsExcludedDate(day) \/ StartOn(w, day) \in slipped

\* The opening a plan sleeps until is one: when it wakes on time, it may schedule,
\* unless the window ends when it starts (NextMaintenanceWindow against
\* IsInMaintenanceWindow).
WakesToOpen ==
    found => \/ IsInMaintenanceWindow(wake)
             \/ \E w \in Enabled : w.start = w.end /\ w.start = wake.time
=============================================================================
