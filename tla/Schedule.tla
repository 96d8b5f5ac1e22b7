------------------------------- MODULE Schedule -------------------------------
(***************************************************************************)
(* The scheduled component updates (internal/update/schedule.go): the specs  *)
(* and their next slot, the loop that sleeps until a slot and starts the      *)
(* updates that are due, and the one job at a time it shares with the         *)
(* operator (Start, service.go).  What a job does to the files is Updater.   *)
(*                                                                          *)
(* Time is counted in ticks of a calendar that repeats after Year days;     *)
(* a day, a week, a month and the hour between two readings of the schedules *)
(* have fewer ticks than in life, in the same order of size.  All days are   *)
(* equally long: the zone is one whose clocks are never changed.             *)
(***************************************************************************)
EXTENDS Integers, Sequences, FiniteSets, FiniteSetsExt

CONSTANTS
    Order,              \* Schedulable, in its order
    DayLen, Week, Year, \* ticks in a day, days in a week and in a year
    MonthStarts,        \* the days of a year on which a month begins
    Grace, Gap, Reread, \* two minutes, three minutes, an hour
    Late,               \* ticks an iteration loses to late timers and slow checks
    Specs,              \* the schedules operators store, besides "off"
    Starts,             \* what is stored at the beginning
    None, Limited,
    MaxReleases, MaxOps, MaxFaults     \* bounds

Components == {Order[i] : i \in DOMAIN Order}
Off == [kind |-> "off"]

\* What ParseSchedule accepts; a day of the month every month has.
ScheduleSpec ==
    LET tod == 0 .. DayLen - 1
        shortest == Min({m - n : m, n \in MonthStarts \cup {Year}} \cap (1 .. Year))
    IN  [kind : {"daily"}, offset : tod] \cup [kind : {"weekly"}, weekday : 0 .. Week - 1, offset : tod]
            \cup [kind : {"monthly"}, day : 1 .. shortest, offset : tod]

ASSUME ScheduleAssumption ==
    /\ DayLen \in Nat \ {0} /\ Week \in Nat \ {0} /\ Year \in Nat \ {0} /\ (Year % Week) = 0
    /\ 0 \in MonthStarts /\ MonthStarts \subseteq 0 .. Year - 1
    /\ {Grace, Gap, Reread, Late, MaxReleases, MaxOps, MaxFaults} \subseteq Nat
    /\ Grace < Gap /\ Gap < Reread /\ Late < Grace /\ Grace + Reread <= DayLen
    /\ None \notin Components /\ {None, Limited} \cap Nat = {} /\ Starts \subseteq [Components -> Specs \cup {Off}]
    /\ Specs \subseteq ScheduleSpec

VARIABLES
    clock,              \* ticks since the beginning of the year
    spec,               \* the stored schedules
    due, look,          \* the loop: whose turn it is, and what it found for the first
    sleep,              \* the timer
    late,               \* ticks lost in this iteration
    latest, installed,  \* versions: the newest release, the one on disk (0: none)
    job,                \* the running job
    seen, owed,         \* history: the schedules at the last reading, and the slots met since
    raised, missed,     \* history: the timer was raised; slots the last reading passed over, and why
    ran,                \* history: components whose current slot was served
    ops, faults

loop == <<due, look, sleep, late>>
history == <<seen, owed, raised, missed, ran>>
vars == <<clock, spec, loop, latest, installed, job, history, ops, faults>>

Version == 0 .. MaxReleases
Horizon == Year * DayLen
Now == clock + Horizon          \* an instant with a past

Passing == [component : Components, paused : BOOLEAN, unread : BOOLEAN]

TypeOK ==
    /\ clock \in 0 .. Horizon - 1
    /\ spec \in [Components -> Specs \cup {Off}] /\ seen \in [Components -> Specs \cup {Off}]
    /\ due \in Seq(Components) /\ look \in [had : Version, tag : Version] \cup {None}
    /\ sleep \in 0 .. Reread /\ late \in 0 .. Late
    /\ latest \in [Components -> Version] /\ installed \in [Components -> Version]
    /\ job \in [component : Components, version : Version] \cup {None}
    /\ owed \subseteq Components /\ raised \in BOOLEAN /\ missed \subseteq Passing /\ ran \subseteq Components
    /\ ops \in 0 .. MaxOps /\ faults \in 0 .. MaxFaults

Init ==
    /\ clock = 0
    /\ spec \in Starts
    /\ due = <<>> /\ look = None /\ sleep = 0 /\ late = 0
    /\ latest = [c \in Components |-> 1] /\ installed = [c \in Components |-> 1]
    /\ job = None
    /\ seen = [c \in Components |-> Off] /\ owed = {} /\ raised = FALSE /\ missed = {} /\ ran = {}
    /\ ops = 0 /\ faults = 0

Fault == faults < MaxFaults /\ faults' = faults + 1

-------------------------------------------------------------------------------
(* The calendar and the next slot. *)

Midnight(t) == (t \div DayLen) * DayLen
DayOf(t) == t \div DayLen
Firsts == {y * Year + m : y \in 0 .. 3, m \in MonthStarts}
MonthStart(t) == DayLen * Max({f \in Firsts : f <= DayOf(t)})
NextMonth(t) == DayLen * Min({f \in Firsts : f > DayOf(t)})

\* Mutant: not strictly after.
PassedAlready(slot, now) == slot < now

Passed(slot, now) == slot <= now

\* ScheduleSpec.Next: the slot of today, this week or this month, or the one after,
\* an offset after its midnight: that time of day where clocks are not changed.
NextSlot(s, now) ==
    LET day == CASE s.kind = "daily"   -> Midnight(now)
                 [] s.kind = "weekly"  -> Midnight(now) + ((s.weekday - (DayOf(now) % Week) + Week) % Week) * DayLen
                 [] s.kind = "monthly" -> MonthStart(now) + (s.day - 1) * DayLen
        later == CASE s.kind = "daily"   -> day + DayLen
                   [] s.kind = "weekly"  -> day + Week * DayLen
                   [] s.kind = "monthly" -> NextMonth(now) + (s.day - 1) * DayLen
    IN  IF Passed(day + s.offset, now) THEN later + s.offset ELSE day + s.offset

\* What a spec says: the instants it names.
Fires(s, t) ==
    /\ s.kind # "off" /\ (t % DayLen) = s.offset
    /\ s.kind = "weekly" => (DayOf(t) % Week) = s.weekday
    /\ s.kind = "monthly" => DayOf(t) = MonthStart(t) \div DayLen + s.day - 1

-------------------------------------------------------------------------------
(* RunScheduler. *)

\* Mutant: no grace.
IsDueNow(s) == s.kind # "off" /\ NextSlot(s, Now) <= Now

\* A slot due within the grace still counts.
IsDue(s) == s.kind # "off" /\ NextSlot(s, Now - Grace) <= Now

\* Mutant: the timer is not raised after a run.
RaiseNever(some, wait) == FALSE

Raise(some, wait) == some /\ wait < Gap

\* The schedules are read, one that cannot be read as "off"; the components due
\* are collected, the timer is chosen.
LoopTop ==
    /\ due = <<>> /\ sleep = 0
    /\ \E lost \in SUBSET Components :
          LET read == [c \in Components |-> IF c \in lost THEN Off ELSE spec[c]]
              hit == {c \in Components : IsDue(read[c])}
              rest == {c \in Components : read[c].kind # "off"} \ hit
              wait == Min({Reread} \cup {NextSlot(read[c], Now - Grace) - Now : c \in rest})
          IN  /\ due' = SelectSeq(Order, LAMBDA c : c \in hit)
              /\ raised' = Raise(hit # {}, wait)
              /\ sleep' = IF raised' THEN Gap ELSE wait
              /\ missed' = {[component |-> c, paused |-> raised, unread |-> c \in lost] : c \in owed \ hit}
              /\ ran' = ran \cup hit
              /\ seen' = read
              /\ IF lost = {} THEN UNCHANGED faults ELSE Fault
    /\ owed' = {} /\ late' = 0
    /\ UNCHANGED <<clock, spec, look, latest, installed, job, ops>>

\* A binary that does not answer, or files without a label, are "unknown": no
\* release's version.
Installed(c) == {installed[c], 0}

\* GitHub's answer, or the cached one it confirms, Limited when the quota is
\* used up, None for an error; then the redirect of the release page is tried.
GetJSON(c) == {latest[c], Limited, None}
LatestByRedirect(c) == {latest[c], None}
Latest(c) == UNION {IF a = Limited THEN LatestByRedirect(c) ELSE {a} : a \in GetJSON(c)}

\* scheduledRun: the version on disk, then GitHub's latest ...
Look ==
    /\ due # <<>> /\ look = None
    /\ \E had \in Installed(Head(due)), tag \in Latest(Head(due)) :
          /\ IF tag = None THEN due' = Tail(due) /\ UNCHANGED look
                           ELSE look' = [had |-> had, tag |-> tag] /\ UNCHANGED due
          /\ IF tag # None /\ had = installed[Head(due)] THEN UNCHANGED faults ELSE Fault
    /\ UNCHANGED <<clock, spec, sleep, late, latest, installed, job, history, ops>>

\* Mutant: any version on disk will do.
CurrentIfAny(l) == l.had # 0

Current(l) == l.had # 0 /\ l.had = l.tag

\* ... and a job unless the two agree; with one running (ErrBusy) the slot is given up.
StartDue ==
    /\ look # None
    /\ job' = IF Current(look) \/ job # None THEN job ELSE [component |-> Head(due), version |-> look.tag]
    /\ due' = Tail(due) /\ look' = None
    /\ UNCHANGED <<clock, spec, sleep, late, latest, installed, history, ops, faults>>

-------------------------------------------------------------------------------
(* Jobs, operators, releases, time. *)

\* An update to a release, a bundled or uploaded one, or a rollback.
Start(c, v) ==
    /\ ops < MaxOps /\ ops' = ops + 1
    /\ v <= latest[c] /\ job = None
    /\ job' = [component |-> c, version |-> v]
    /\ UNCHANGED <<clock, spec, loop, latest, installed, history, faults>>

Succeed ==
    /\ job # None
    /\ installed' = [installed EXCEPT ![job.component] = job.version]
    /\ job' = None
    /\ UNCHANGED <<clock, spec, loop, latest, history, ops, faults>>

Fail ==
    /\ job # None /\ job' = None
    /\ Fault
    /\ UNCHANGED <<clock, spec, loop, latest, installed, history, ops>>

\* SetScheduleOf; the loop is not told.
SetScheduleOf(c, s) ==
    /\ ops < MaxOps /\ ops' = ops + 1
    /\ spec' = [spec EXCEPT ![c] = s]
    /\ owed' = owed \ {c} /\ ran' = ran \ {c}
    /\ UNCHANGED <<clock, loop, latest, installed, job, seen, raised, missed, faults>>

Release(c) ==
    /\ latest[c] < MaxReleases
    /\ latest' = [latest EXCEPT ![c] = @ + 1]
    /\ UNCHANGED <<clock, spec, loop, installed, job, history, ops, faults>>

\* The timer runs while the loop sleeps; a late timer and slow checks take
\* ticks of their own.
Tick ==
    /\ \/ due = <<>> /\ sleep > 0 /\ sleep' = sleep - 1 /\ UNCHANGED late
       \/ (due # <<>> \/ sleep = 0) /\ late < Late /\ late' = late + 1 /\ UNCHANGED sleep
    /\ clock' = (clock + 1) % Horizon
    /\ LET slots == {c \in Components : Fires(spec[c], Now + 1)}
       IN  owed' = owed \cup {c \in slots : seen[c] = spec[c]} /\ ran' = ran \ slots
    /\ UNCHANGED <<spec, due, look, latest, installed, job, seen, raised, missed, ops, faults>>

\* The process dies, and the job with it, before or after the swap.
Crash ==
    /\ Fault
    /\ due' = <<>> /\ look' = None /\ sleep' = 0 /\ late' = 0 /\ job' = None
    /\ seen' = [c \in Components |-> Off] /\ owed' = {} /\ raised' = FALSE /\ ran' = {}
    /\ \/ UNCHANGED installed
       \/ job # None /\ installed' = [installed EXCEPT ![job.component] = job.version]
    /\ UNCHANGED <<clock, spec, latest, missed, ops>>

Next ==
    \/ LoopTop \/ Look \/ StartDue \/ Succeed \/ Fail \/ Tick \/ Crash
    \/ \E c \in Components :
          \/ Release(c)
          \/ \E v \in Version \ {0} : Start(c, v)
          \/ \E s \in Specs \cup {Off} : SetScheduleOf(c, s)

Spec == Init /\ [][Next]_vars

\* Time passes, the loop is scheduled, and a job ends: its downloads have a
\* timeout of fifteen minutes.
FairSpec == Spec /\ WF_vars(Tick) /\ WF_vars(LoopTop) /\ WF_vars(Look) /\ WF_vars(StartDue) /\ WF_vars(Succeed)

-------------------------------------------------------------------------------
(* Properties. *)

\* ScheduleSpec.Next is "the first run strictly after now", for every kind of
\* spec, on month ends and at midnight too, in a zone whose clocks are never
\* changed.  (On a day that is longer or shorter Next is another time of day.)
NextIsFirst ==
    \A s \in Specs : LET n == NextSlot(s, Now)
                    IN  n > Now /\ Fires(s, n) /\ \A t \in Now + 1 .. n - 1 : ~Fires(s, t)

\* RunScheduler's "never fire the same slot twice": whatever the other
\* schedules and however late the timers, a process runs a component once per
\* slot.  (One restarted within the grace may serve the slot again.)
OncePerSlot == [][LoopTop => \A c \in ran : ~IsDue(spec[c])]_vars

\* "RunScheduler runs each component's scheduled update": a slot of a schedule
\* the loop knows is passed over only if it came during the three minutes the
\* loop holds still after a run, or if the schedule cannot be read when it is
\* due.  Late timers, slow checks, the hourly reading, other components' slots
\* and schedules that cannot be read never cost one.
OnlyPauseSkips == \A m \in missed : m.paused \/ m.unread

\* Every slot of s comes so soon after one of the schedules R (of the other of
\* two components) that the loop may hold still until its grace is over.
Crowded ==
    [s \in Specs, R \in SUBSET Specs |->
        \A t \in Horizon .. 2 * Horizon - 1 :
            Fires(s, t) => \E r \in R, j \in 1 .. Gap - Grace + 2 * Late : Fires(r, t - j)]

\* Every scheduled component is brought to the latest release in the end,
\* although a slot whose check fails, whose schedule cannot be read or that
\* meets a running job is given up; unless every slot of it is crowded out.
UpToDate ==
    <>[](\A c \in Components :
            \/ spec[c] = Off \/ installed[c] = latest[c]
            \/ Crowded[spec[c], {spec[d] : d \in Components \ {c}} \ {Off}])

===============================================================================
