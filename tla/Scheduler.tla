----------------------------- MODULE Scheduler -----------------------------
(***************************************************************************)
(* Timed jobs: the rows of cron_jobs (insertCronJob, deactivateCronJob,    *)
(* src/db.ts), the timers made from them (CronManager, src/cron.ts), the   *)
(* tools that schedule and cancel (src/tools/cron-tools.ts), and restarts, *)
(* after which the timers are made anew from the rows.                     *)
(*                                                                         *)
(* Abstracted: cronClock is the wall clock, which does not go back; timers *)
(* fire when they are due or later, in any order; what a firing sends is   *)
(* left out, it cannot fail or change a job.  A delay longer than          *)
(* TimeoutMax makes the timer fire at once, before the row is due:         *)
(* FiresOnce holds where all delays fit a timer, NotBeforeItsTime shows    *)
(* what happens otherwise.                                                 *)
(***************************************************************************)
EXTENDS Integers

CONSTANTS
  Jobs,
  Delays,       \* delays until the first firing
  Intervals,    \* intervals of recurring jobs
  Tags,
  TimeoutMax,   \* the longest delay of setTimeout and setInterval, 2^31 - 1 ms
  Horizon       \* bound on the clock

ASSUME SchedulerAssumption ==
  Delays \subseteq Nat /\ Intervals \subseteq Nat \ {0} /\ TimeoutMax \in Nat \ {0} /\ Horizon \in Nat

Once  == 0    \* the interval of a job that does not repeat
Never == -1   \* an interval that parseInterval does not understand

VARIABLES
  cronClock,
  up,           \* the server runs
  row,          \* per job: its row
  timer         \* per job: its entry in timers

cronVars == <<cronClock, up, row, timer>>

Repeats == Intervals \cup {Once, Never}

NoTimer == [kind |-> "none", due |-> 0]

CronTypeOK ==
  /\ cronClock \in 0..Horizon
  /\ up \in BOOLEAN
  /\ row \in [Jobs -> [active : {"none", "yes", "no"}, fireAt : Nat, interval : Repeats,
                       tag : Tags, firings : {"none", "once", "more"}]]
  /\ timer \in [Jobs -> [kind : {"none", "first", "interval"}, due : Nat]]

CronInit ==
  /\ cronClock = 0
  /\ up = TRUE
  /\ row \in [Jobs -> [active : {"none"}, fireAt : {0}, interval : {Once}, tag : Tags,
                       firings : {"none"}]]
  /\ timer = [j \in Jobs |-> NoTimer]

\* A delay that does not fit the timer is 1 ms.
TimerDelay(delay) == IF delay \in 1..TimeoutMax THEN delay ELSE 1

First(delay) == [kind |-> "first", due |-> cronClock + TimerDelay(delay)]

-----------------------------------------------------------------------------

\* Fault: a missed one-shot job is fired late, like a recurring one.
ScheduledLate(r) ==
  [row   |-> r,
   timer |-> IF r.interval = Never THEN NoTimer
             ELSE First(IF r.fireAt > cronClock THEN r.fireAt - cronClock ELSE 0)]

\* scheduleJob of an active row: the row and the timer it leaves.
Scheduled(r) ==
  LET delay == r.fireAt - cronClock
  IN  IF r.interval = Never THEN [row |-> r, timer |-> NoTimer]
      ELSE IF r.interval = Once /\ delay < 0
        THEN [row |-> [r EXCEPT !.active = "no"], timer |-> NoTimer]
      ELSE [row |-> r, timer |-> First(IF delay > 0 THEN delay ELSE 0)]

\* cron_schedule: the row is inserted and scheduled.
Schedule(j) ==
  /\ up /\ row[j].active = "none"
  /\ \E delay \in Delays, interval \in Repeats :
       LET s == Scheduled([row[j] EXCEPT !.active = "yes", !.fireAt = cronClock + delay,
                                         !.interval = interval])
       IN  /\ row' = [row EXCEPT ![j] = s.row]
           /\ timer' = [timer EXCEPT ![j] = s.timer]
  /\ UNCHANGED <<cronClock, up>>

\* fireJob, and the timer that follows: an interval after the first firing.
Fire(j) ==
  /\ up /\ timer[j].kind # "none" /\ timer[j].due <= cronClock
  /\ row' = [row EXCEPT ![j].firings = IF @ = "none" THEN "once" ELSE "more"]
  /\ timer' = [timer EXCEPT ![j] =
       IF row[j].interval = Once THEN NoTimer
       ELSE [kind |-> "interval", due |-> cronClock + TimerDelay(row[j].interval)]]
  /\ UNCHANGED <<cronClock, up>>

Cancelled(jobs) ==
  /\ row' = [j \in Jobs |-> IF j \in jobs THEN [row[j] EXCEPT !.active = "no"] ELSE row[j]]
  /\ timer' = [j \in Jobs |-> IF j \in jobs THEN NoTimer ELSE timer[j]]

\* cron_cancel, of one job or of the active ones with a tag.
Cancel ==
  /\ up
  /\ \/ \E j \in Jobs : row[j].active # "none" /\ Cancelled({j})
     \/ \E tag \in Tags : Cancelled({j \in Jobs : row[j].active = "yes" /\ row[j].tag = tag})
  /\ UNCHANGED <<cronClock, up>>

\* A crash, or the end of the server, which disposes of the timers; the next start is at
\* least a moment later.
Stop ==
  /\ up /\ up' = FALSE
  /\ cronClock < Horizon /\ cronClock' = cronClock + 1
  /\ timer' = [j \in Jobs |-> NoTimer]
  /\ UNCHANGED row

\* loadFromDb: every active job is scheduled again.
Start ==
  LET s == [j \in Jobs |->
        IF row[j].active = "yes" THEN Scheduled(row[j]) ELSE [row |-> row[j], timer |-> NoTimer]]
  IN  /\ ~up /\ up' = TRUE
      /\ row' = [j \in Jobs |-> s[j].row]
      /\ timer' = [j \in Jobs |-> s[j].timer]
      /\ UNCHANGED cronClock

Tick ==
  /\ cronClock < Horizon /\ cronClock' = cronClock + 1
  /\ UNCHANGED <<up, row, timer>>

CronNext ==
  \/ \E j \in Jobs : Schedule(j) \/ Fire(j)
  \/ Cancel
  \/ Stop
  \/ Start
  \/ Tick

CronSpec == CronInit /\ [][CronNext]_cronVars

-----------------------------------------------------------------------------

\* A firing that is new for the row.
Fires(j) == row'[j].firings # row[j].firings

\* Only an active job fires, and one that does not repeat fires once in its life: through
\* cancellations by number and by tag, late timers, and restarts, which make timers again
\* from rows that stay active after they have fired; provided that all delays fit a timer
\* (src/cron.ts:55-105, src/tools/cron-tools.ts:135-155).
FiresOnce ==
  [][\A j \in Jobs : Fires(j) =>
        /\ row[j].active = "yes"
        /\ row[j].interval = Once => row[j].firings = "none"]_cronVars

\* No job fires before the time its delay names (src/tools/cron-tools.ts:42).
NotBeforeItsTime ==
  [][\A j \in Jobs : Fires(j) => row[j].fireAt <= cronClock]_cronVars
=============================================================================
