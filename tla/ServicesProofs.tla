--------------------------- MODULE ServicesProofs ---------------------------
(***************************************************************************)
(* Proofs about what outlives the program: the rows of timed jobs          *)
(* (Scheduler), and the configuration file with what follows it in memory  *)
(* (Configuration).  And about all the services in one instance            *)
(* (MCServices), where each behaves as it does alone.                      *)
(***************************************************************************)
EXTENDS MCServices, SandboxProofs, PathProofs, TLAPS

-----------------------------------------------------------------------------
(* Scheduler: timed jobs.                                                  *)

RowRecord == [active : {"none", "yes", "no"}, fireAt : Nat, interval : Repeats,
              tag : Tags, firings : {"none", "once", "more"}]

TimerRecord == [kind : {"none", "first", "interval"}, due : Nat]

\* Every delay fits the timer.
DelaysFit == Delays \subseteq 0..TimeoutMax

\* A timer is that of an active job, set while the server runs.
Timed(r, t) == t.kind # "none" => up /\ r.active = "yes"

\* One that has fired and does not repeat has no timer; when the server is started again its
\* time is over.
Spent(r, t) ==
  /\ r.active = "none" => r.firings = "none"
  /\ r.interval = Once /\ r.firings # "none" =>
       /\ t.kind = "none"
       /\ r.active = "yes" => r.fireAt <= cronClock /\ (~up => r.fireAt < cronClock)

\* No timer is set for a time before that of the job, and none for longer than it can wait.
Punctual(r, t) ==
  /\ t.kind # "none" => r.fireAt <= t.due
  /\ r.active = "yes" => r.fireAt <= cronClock + TimeoutMax

CronInv ==
  /\ CronTypeOK
  /\ \A j \in Jobs : /\ Timed(row[j], timer[j])
                     /\ Spent(row[j], timer[j])
                     /\ Punctual(row[j], timer[j])

\* What the timer does with a delay.
LEMMA TimerDelays ==
  /\ \A delay \in Int : TimerDelay(delay) \in Nat \ {0}
  /\ \A delay \in 0..TimeoutMax : delay <= TimerDelay(delay)
BY SchedulerAssumption DEF TimerDelay

\* The types of rows and timers.
LEMMA CronTypes ==
  CronTypeOK <=> /\ cronClock \in 0..Horizon /\ up \in BOOLEAN
                 /\ row \in [Jobs -> RowRecord] /\ timer \in [Jobs -> TimerRecord]
BY DEF CronTypeOK, RowRecord, TimerRecord

\* No timer is a timer.
LEMMA NoTimerTyped == NoTimer \in TimerRecord /\ NoTimer.kind = "none"
BY DEF NoTimer, TimerRecord

\* A first timer, and its time.
LEMMA FirstTyped ==
  ASSUME cronClock \in Nat, NEW delay \in Int
  PROVE  /\ First(delay) \in TimerRecord /\ First(delay).kind = "first"
         /\ First(delay).due = cronClock + TimerDelay(delay)
BY TimerDelays DEF First, TimerRecord

\* What a row that is scheduled leaves: its times, tag and firings are its own, ...
LEMMA ScheduledTyped ==
  ASSUME cronClock \in Nat, NEW r \in RowRecord
  PROVE  /\ Scheduled(r).row \in RowRecord /\ Scheduled(r).timer \in TimerRecord
         /\ Scheduled(r).row.fireAt = r.fireAt /\ Scheduled(r).row.interval = r.interval
         /\ Scheduled(r).row.firings = r.firings /\ Scheduled(r).row.active \in {r.active, "no"}
<1> DEFINE delay == r.fireAt - cronClock
<1>1. delay \in Int /\ (IF delay > 0 THEN delay ELSE 0) \in Int
  BY DEF RowRecord
<1>2. [r EXCEPT !.active = "no"] \in RowRecord
  BY DEF RowRecord
<1>3. First(IF delay > 0 THEN delay ELSE 0) \in TimerRecord
  BY <1>1, FirstTyped
<1>4. CASE Scheduled(r) = [row |-> r, timer |-> NoTimer]
  BY <1>4, NoTimerTyped DEF RowRecord
<1>5. CASE Scheduled(r) = [row |-> [r EXCEPT !.active = "no"], timer |-> NoTimer]
  BY <1>2, <1>5, NoTimerTyped DEF RowRecord
<1>6. CASE Scheduled(r) = [row |-> r, timer |-> First(IF delay > 0 THEN delay ELSE 0)]
  BY <1>3, <1>6 DEF RowRecord
<1> QED
  BY <1>4, <1>5, <1>6 DEF Scheduled

\* ... it has no timer once its time is over and it does not repeat, or when its interval is
\* not understood, and it stays active when it has one, ...
LEMMA ScheduledTimer ==
  ASSUME cronClock \in Nat, NEW r \in RowRecord, Scheduled(r).timer.kind # "none"
  PROVE  /\ Scheduled(r).row.active = r.active
         /\ r.interval = Once => r.fireAt >= cronClock
<1> DEFINE delay == r.fireAt - cronClock
<1>1. ~(r.interval = Once /\ delay < 0) /\ r.interval # Never
  BY NoTimerTyped DEF Scheduled
<1>2. Scheduled(r) = [row |-> r, timer |-> First(IF delay > 0 THEN delay ELSE 0)]
  BY <1>1 DEF Scheduled
<1> QED
  BY <1>1, <1>2 DEF RowRecord

\* ... which is not before its time if the delay fits it.
LEMMA ScheduledPunctual ==
  ASSUME cronClock \in Nat, NEW r \in RowRecord, r.fireAt <= cronClock + TimeoutMax,
         Scheduled(r).timer.kind # "none"
  PROVE  r.fireAt <= Scheduled(r).timer.due
<1> DEFINE delay == r.fireAt - cronClock
           waits == IF delay > 0 THEN delay ELSE 0
<1>1. ~(r.interval = Once /\ delay < 0) /\ r.interval # Never
  BY NoTimerTyped DEF Scheduled
<1>2. Scheduled(r).timer = First(waits)
  BY <1>1 DEF Scheduled
<1>3. waits \in 0..TimeoutMax /\ r.fireAt <= cronClock + waits /\ r.fireAt \in Nat
  BY SchedulerAssumption DEF RowRecord
<1>4. First(waits).due = cronClock + TimerDelay(waits)
  BY <1>3, FirstTyped
<1>5. waits <= TimerDelay(waits) /\ TimerDelay(waits) \in Nat
  BY <1>3, TimerDelays
<1> HIDE DEF waits, delay
<1> QED
  BY <1>2, <1>3, <1>4, <1>5

\* Intervals are integers, those that mean something else included.
LEMMA RepeatsAreIntegers == \A x \in Repeats : x \in Int
<1>1. \A x \in Intervals : x \in Int
  BY SchedulerAssumption
<1>2. Once \in Int /\ Never \in Int
  BY DEF Once, Never
<1> QED
  BY <1>1, <1>2 DEF Repeats

\* The row that cron_schedule inserts.
LEMMA ScheduledRow ==
  ASSUME CronTypeOK, NEW k \in Jobs, Schedule(k)
  PROVE  \E r \in RowRecord :
           /\ r.active = "yes" /\ r.firings = row[k].firings
           /\ DelaysFit => r.fireAt <= cronClock + TimeoutMax
           /\ row' = [row EXCEPT ![k] = Scheduled(r).row]
           /\ timer' = [timer EXCEPT ![k] = Scheduled(r).timer]
<1>1. cronClock \in Nat /\ row[k] \in RowRecord /\ TimeoutMax \in Nat
  BY CronTypes, SchedulerAssumption
<1>2. PICK delay \in Delays, interval \in Repeats :
        LET s == Scheduled([row[k] EXCEPT !.active = "yes", !.fireAt = cronClock + delay,
                                          !.interval = interval])
        IN  row' = [row EXCEPT ![k] = s.row] /\ timer' = [timer EXCEPT ![k] = s.timer]
  BY DEF Schedule
<1> DEFINE r == [row[k] EXCEPT !.active = "yes", !.fireAt = cronClock + delay,
                               !.interval = interval]
<1>3. cronClock + delay \in Nat
  BY <1>1, SchedulerAssumption
<1>4. r \in RowRecord /\ r.active = "yes" /\ r.firings = row[k].firings
      /\ r.fireAt = cronClock + delay
  BY <1>1, <1>3 DEF RowRecord
<1>5. DelaysFit => cronClock + delay <= cronClock + TimeoutMax
  BY <1>1 DEF DelaysFit
<1>6. /\ row' = [row EXCEPT ![k] = Scheduled(r).row]
      /\ timer' = [timer EXCEPT ![k] = Scheduled(r).timer]
  BY <1>2
<1> HIDE DEF r
<1> QED
  BY <1>4, <1>5, <1>6

\* What a cancellation leaves.
LEMMA CancelledRow ==
  ASSUME CronTypeOK, Cancel, NEW j \in Jobs
  PROVE  \/ row'[j] = row[j] /\ timer'[j] = timer[j]
         \/ /\ row'[j] = [row[j] EXCEPT !.active = "no"] /\ timer'[j] = NoTimer
            /\ row'[j].active = "no" /\ timer'[j].kind = "none" /\ row[j].active # "none"
            /\ row'[j].firings = row[j].firings /\ row'[j].interval = row[j].interval
            /\ row'[j].fireAt = row[j].fireAt
<1>1. row[j] \in RowRecord
  BY CronTypes
<1>2. \A S : Cancelled(S) => IF j \in S
               THEN row'[j] = [row[j] EXCEPT !.active = "no"] /\ timer'[j] = NoTimer
               ELSE row'[j] = row[j] /\ timer'[j] = timer[j]
  BY DEF Cancelled
<1>3. PICK S : Cancelled(S) /\ (j \in S => row[j].active # "none")
  <2>1. CASE \E k \in Jobs : row[k].active # "none" /\ Cancelled({k})
    BY <2>1
  <2>2. CASE \E tag \in Tags :
               Cancelled({k \in Jobs : row[k].active = "yes" /\ row[k].tag = tag})
    <3>1. PICK tag \in Tags :
            Cancelled({k \in Jobs : row[k].active = "yes" /\ row[k].tag = tag})
      BY <2>2
    <3> QED
      BY <3>1
  <2> QED
    BY <2>1, <2>2 DEF Cancel
<1>4. CASE j \in S
  BY <1>1, <1>2, <1>3, <1>4, NoTimerTyped DEF RowRecord
<1> QED
  BY <1>2, <1>3, <1>4

\* Every step keeps the types.
LEMMA CronTypesKept ==
  ASSUME CronTypeOK, CronNext
  PROVE  CronTypeOK'
<1>1. /\ cronClock \in 0..Horizon /\ cronClock \in Nat /\ up \in BOOLEAN /\ Horizon \in Nat
      /\ row \in [Jobs -> RowRecord] /\ timer \in [Jobs -> TimerRecord]
  BY CronTypes, SchedulerAssumption
<1> DEFINE Goal == /\ cronClock' \in 0..Horizon /\ up' \in BOOLEAN
                   /\ row' \in [Jobs -> RowRecord] /\ timer' \in [Jobs -> TimerRecord]
<1> SUFFICES Goal
  BY DEF CronTypeOK, RowRecord, TimerRecord
<1>2. ASSUME NEW j \in Jobs, Schedule(j) PROVE Goal
  <2>1. PICK r \in RowRecord : /\ row' = [row EXCEPT ![j] = Scheduled(r).row]
                               /\ timer' = [timer EXCEPT ![j] = Scheduled(r).timer]
    BY <1>2, ScheduledRow
  <2>2. Scheduled(r).row \in RowRecord /\ Scheduled(r).timer \in TimerRecord
    BY <1>1, ScheduledTyped
  <2> QED
    BY <1>1, <1>2, <2>1, <2>2 DEF Schedule
<1>3. ASSUME NEW j \in Jobs, Fire(j) PROVE Goal
  <2>1. [row[j] EXCEPT !.firings = IF @ = "none" THEN "once" ELSE "more"] \in RowRecord
    BY <1>1 DEF RowRecord
  <2>2. row' = [row EXCEPT ![j] =
                  [row[j] EXCEPT !.firings = IF @ = "none" THEN "once" ELSE "more"]]
    BY <1>1, <1>3 DEF Fire
  <2>3. row[j].interval \in Int
    <3>1. row[j].interval \in Repeats
      BY <1>1 DEF RowRecord
    <3> QED
      BY <3>1, RepeatsAreIntegers
  <2>4. [kind |-> "interval", due |-> cronClock + TimerDelay(row[j].interval)] \in TimerRecord
    BY <1>1, <2>3, TimerDelays DEF TimerRecord
  <2> QED
    BY <1>1, <1>3, <2>1, <2>2, <2>4, NoTimerTyped DEF Fire
<1>4. CASE Cancel
  <2>1. PICK jobs : Cancelled(jobs)
    BY <1>4 DEF Cancel
  <2>2. \A j \in Jobs : [row[j] EXCEPT !.active = "no"] \in RowRecord
    BY <1>1 DEF RowRecord
  <2> QED
    BY <1>1, <1>4, <2>1, <2>2, NoTimerTyped DEF Cancel, Cancelled
<1>5. CASE Stop
  <2>1. cronClock' \in 0..Horizon
    BY <1>1, <1>5 DEF Stop
  <2> QED
    BY <1>1, <1>5, <2>1, NoTimerTyped DEF Stop
<1>6. CASE Start
  <2> DEFINE s == [j \in Jobs |-> IF row[j].active = "yes" THEN Scheduled(row[j])
                                  ELSE [row |-> row[j], timer |-> NoTimer]]
  <2>1. \A j \in Jobs : s[j].row \in RowRecord /\ s[j].timer \in TimerRecord
    BY <1>1, ScheduledTyped, NoTimerTyped
  <2>2. row' = [j \in Jobs |-> s[j].row] /\ timer' = [j \in Jobs |-> s[j].timer] /\ up' = TRUE
        /\ UNCHANGED cronClock
    BY <1>6 DEF Start
  <2> HIDE DEF s
  <2> QED
    BY <1>1, <2>1, <2>2
<1>7. CASE Tick
  BY <1>1, <1>7 DEF Tick
<1> QED
  BY <1>2, <1>3, <1>4, <1>5, <1>6, <1>7 DEF CronNext

\* At first nothing is scheduled.
LEMMA CronStarts == CronInit => CronInv
<1> SUFFICES ASSUME CronInit PROVE CronInv
  OBVIOUS
<1>1. CronTypeOK
  <2>1. row \in [Jobs -> RowRecord]
    BY DEF CronInit, RowRecord, Repeats
  <2>2. timer \in [Jobs -> TimerRecord]
    BY NoTimerTyped DEF CronInit
  <2>3. cronClock \in 0..Horizon /\ up \in BOOLEAN
    BY SchedulerAssumption DEF CronInit
  <2> QED
    BY <2>1, <2>2, <2>3, CronTypes
<1>2. \A j \in Jobs : /\ row[j].active = "none" /\ row[j].fireAt = 0 /\ row[j].firings = "none"
                      /\ timer[j].kind = "none"
  BY NoTimerTyped DEF CronInit
<1> QED
  BY <1>1, <1>2 DEF CronInv, Timed, Spent, Punctual

\* Every step leaves timers with nothing but active jobs ...
LEMMA TimedKept ==
  ASSUME CronTypeOK, CronNext, NEW j \in Jobs, Timed(row[j], timer[j])
  PROVE  Timed(row[j], timer[j])'
<1>1. /\ cronClock \in Nat /\ up \in BOOLEAN
      /\ row \in [Jobs -> RowRecord] /\ timer \in [Jobs -> TimerRecord]
  BY CronTypes, SchedulerAssumption
<1>2. ASSUME NEW k \in Jobs, Schedule(k) PROVE Timed(row[j], timer[j])'
  <2>1. PICK r \in RowRecord :
          /\ r.active = "yes"
          /\ row' = [row EXCEPT ![k] = Scheduled(r).row]
          /\ timer' = [timer EXCEPT ![k] = Scheduled(r).timer]
    BY <1>1, <1>2, ScheduledRow
  <2>2. CASE j = k
    BY <1>1, <1>2, <2>1, <2>2, ScheduledTimer DEF Timed, Schedule
  <2>3. CASE j # k
    BY <1>1, <1>2, <2>1, <2>3 DEF Timed, Schedule
  <2> QED
    BY <2>2, <2>3
<1>3. ASSUME NEW k \in Jobs, Fire(k) PROVE Timed(row[j], timer[j])'
  <2>1. row'[j].active = row[j].active /\ (timer[j].kind = "none" => timer'[j].kind = "none")
    BY <1>1, <1>3, NoTimerTyped DEF Fire, RowRecord
  <2> QED
    BY <1>1, <1>3, <2>1 DEF Fire, Timed
<1>4. CASE Cancel
  BY <1>1, <1>4, CancelledRow DEF Cancel, Timed
<1>5. CASE Stop
  BY <1>1, <1>5, NoTimerTyped DEF Stop, Timed
<1>6. CASE Start
  <2>1. CASE row[j].active = "yes"
    <3>1. row'[j] = Scheduled(row[j]).row /\ timer'[j] = Scheduled(row[j]).timer /\ up'
      BY <1>6, <2>1 DEF Start
    <3> QED
      BY <1>1, <2>1, <3>1, ScheduledTimer DEF Timed
  <2>2. CASE row[j].active # "yes"
    BY <1>1, <1>6, <2>2, NoTimerTyped DEF Start, Timed
  <2> QED
    BY <2>1, <2>2
<1>7. CASE Tick
  BY <1>1, <1>7 DEF Tick, Timed
<1> QED
  BY <1>2, <1>3, <1>4, <1>5, <1>6, <1>7 DEF CronNext

\* ... what has fired and does not repeat has no timer, and no time left ...
LEMMA SpentKept ==
  ASSUME CronInv, CronNext, NEW j \in Jobs
  PROVE  Spent(row[j], timer[j])'
<1>1. /\ cronClock \in Nat /\ up \in BOOLEAN /\ CronTypeOK
      /\ row \in [Jobs -> RowRecord] /\ timer \in [Jobs -> TimerRecord]
      /\ Spent(row[j], timer[j]) /\ Timed(row[j], timer[j]) /\ Punctual(row[j], timer[j])
      /\ row[j].fireAt \in Nat /\ timer[j].due \in Nat
  BY CronTypes, SchedulerAssumption DEF CronInv, RowRecord, TimerRecord
<1>2. ASSUME NEW k \in Jobs, Schedule(k) PROVE Spent(row[j], timer[j])'
  <2>1. PICK r \in RowRecord :
          /\ r.active = "yes" /\ r.firings = row[k].firings
          /\ row' = [row EXCEPT ![k] = Scheduled(r).row]
          /\ timer' = [timer EXCEPT ![k] = Scheduled(r).timer]
    BY <1>1, <1>2, ScheduledRow
  <2>2. CASE j = k
    <3>1. row'[j].firings = "none"
      BY <1>1, <1>2, <2>1, <2>2, ScheduledTyped DEF Schedule, Spent
    <3> QED
      BY <3>1 DEF Spent
  <2>3. CASE j # k
    BY <1>1, <1>2, <2>1, <2>3 DEF Spent, Schedule
  <2> QED
    BY <2>2, <2>3
<1>3. ASSUME NEW k \in Jobs, Fire(k) PROVE Spent(row[j], timer[j])'
  <2>1. CASE j = k
    <3>1. /\ up' /\ row[j].fireAt <= cronClock' /\ row[j].active = "yes"
      BY <1>1, <1>3, <2>1 DEF Fire, Timed, Punctual
    <3>2. /\ row'[j].active = "yes" /\ row'[j].fireAt = row[j].fireAt
          /\ row'[j].interval = row[j].interval
          /\ row[j].interval = Once => timer'[j].kind = "none"
      BY <1>1, <1>3, <2>1, <3>1, NoTimerTyped DEF Fire, RowRecord
    <3> QED
      BY <3>1, <3>2 DEF Spent
  <2>2. CASE j # k
    BY <1>1, <1>3, <2>2 DEF Fire, Spent
  <2> QED
    BY <2>1, <2>2
<1>4. CASE Cancel
  BY <1>1, <1>4, CancelledRow DEF Cancel, Spent
<1>5. CASE Stop
  BY <1>1, <1>5, NoTimerTyped DEF Stop, Spent
<1>6. CASE Start
  <2>1. CASE row[j].active = "yes"
    <3>1. /\ row'[j] = Scheduled(row[j]).row /\ timer'[j] = Scheduled(row[j]).timer
          /\ up' = TRUE /\ ~up /\ cronClock' = cronClock
      BY <1>6, <2>1 DEF Start
    <3>2. /\ row'[j].fireAt = row[j].fireAt /\ row'[j].interval = row[j].interval
          /\ row'[j].firings = row[j].firings /\ row'[j].active \in {"yes", "no"}
      BY <1>1, <2>1, <3>1, ScheduledTyped
    <3>3. row[j].interval = Once /\ row[j].firings # "none" =>
            row[j].fireAt < cronClock /\ timer'[j].kind = "none"
      BY <1>1, <2>1, <3>1, ScheduledTimer DEF Spent
    <3> QED
      BY <1>1, <3>1, <3>2, <3>3 DEF Spent
  <2>2. CASE row[j].active # "yes"
    BY <1>1, <1>6, <2>2, NoTimerTyped DEF Start, Spent
  <2> QED
    BY <2>1, <2>2
<1>7. CASE Tick
  BY <1>1, <1>7 DEF Tick, Spent
<1> QED
  BY <1>2, <1>3, <1>4, <1>5, <1>6, <1>7 DEF CronNext

\* ... and no timer comes before the job's time.
LEMMA PunctualKept ==
  ASSUME DelaysFit, CronInv, CronNext, NEW j \in Jobs
  PROVE  Punctual(row[j], timer[j])'
<1>1. /\ cronClock \in Nat /\ up \in BOOLEAN /\ CronTypeOK
      /\ row \in [Jobs -> RowRecord] /\ timer \in [Jobs -> TimerRecord]
      /\ Timed(row[j], timer[j]) /\ Punctual(row[j], timer[j])
      /\ row[j].fireAt \in Nat /\ timer[j].due \in Nat /\ TimeoutMax \in Nat
  BY CronTypes, SchedulerAssumption DEF CronInv, RowRecord, TimerRecord
<1>2. ASSUME NEW k \in Jobs, Schedule(k) PROVE Punctual(row[j], timer[j])'
  <2>1. PICK r \in RowRecord :
          /\ r.active = "yes" /\ r.fireAt <= cronClock + TimeoutMax
          /\ row' = [row EXCEPT ![k] = Scheduled(r).row]
          /\ timer' = [timer EXCEPT ![k] = Scheduled(r).timer]
    BY <1>1, <1>2, ScheduledRow
  <2>2. CASE j = k
    BY <1>1, <1>2, <2>1, <2>2, ScheduledTyped, ScheduledPunctual DEF Schedule, Punctual
  <2>3. CASE j # k
    BY <1>1, <1>2, <2>1, <2>3 DEF Punctual, Schedule
  <2> QED
    BY <2>2, <2>3
<1>3. ASSUME NEW k \in Jobs, Fire(k) PROVE Punctual(row[j], timer[j])'
  <2>1. CASE j = k
    <3>1. row[j].fireAt <= cronClock /\ cronClock' = cronClock
      BY <1>1, <1>3, <2>1 DEF Fire, Timed, Punctual
    <3>2. row'[j].fireAt = row[j].fireAt
      BY <1>1, <1>3, <2>1 DEF Fire, RowRecord
    <3>3. timer'[j].kind = "none" \/ cronClock <= timer'[j].due
      <4>1. TimerDelay(row[j].interval) \in Nat
        BY <1>1, RepeatsAreIntegers, TimerDelays DEF RowRecord
      <4>2. timer'[j] \in {NoTimer,
              [kind |-> "interval", due |-> cronClock + TimerDelay(row[j].interval)]}
        BY <1>1, <1>3, <2>1 DEF Fire
      <4> QED
        BY <1>1, <4>1, <4>2, NoTimerTyped
    <3>4. timer'[j].due \in Nat
      BY CronTypesKept DEF CronInv, CronTypeOK
    <3> QED
      BY <1>1, <3>1, <3>2, <3>3, <3>4 DEF Punctual
  <2>2. CASE j # k
    BY <1>1, <1>3, <2>2 DEF Fire, Punctual
  <2> QED
    BY <2>1, <2>2
<1>4. CASE Cancel
  BY <1>1, <1>4, CancelledRow DEF Cancel, Punctual
<1>5. CASE Stop
  BY <1>1, <1>5, NoTimerTyped DEF Stop, Punctual
<1>6. CASE Start
  <2>1. CASE row[j].active = "yes"
    <3>1. /\ row'[j] = Scheduled(row[j]).row /\ timer'[j] = Scheduled(row[j]).timer
          /\ cronClock' = cronClock
      BY <1>6, <2>1 DEF Start
    <3> QED
      BY <1>1, <2>1, <3>1, ScheduledTyped, ScheduledPunctual DEF Punctual
  <2>2. CASE row[j].active # "yes"
    BY <1>1, <1>6, <2>2, NoTimerTyped DEF Start, Punctual
  <2> QED
    BY <2>1, <2>2
<1>7. CASE Tick
  BY <1>1, <1>7 DEF Tick, Punctual
<1> QED
  BY <1>2, <1>3, <1>4, <1>5, <1>6, <1>7 DEF CronNext

\* The types hold throughout, and so does that timers are those of active jobs ...
LEMMA TimedInvariance == CronSpec => [](CronTypeOK /\ \A j \in Jobs : Timed(row[j], timer[j]))
<1> DEFINE I == CronTypeOK /\ \A j \in Jobs : Timed(row[j], timer[j])
<1>1. CronInit => I
  BY CronStarts DEF CronInv
<1>2. I /\ [CronNext]_cronVars => I'
  <2>1. CASE I /\ CronNext
    BY <2>1, CronTypesKept, TimedKept
  <2>2. CASE I /\ UNCHANGED cronVars
    BY <2>2 DEF cronVars, CronTypeOK, Timed
  <2> QED
    BY <2>1, <2>2
<1> QED
  BY <1>1, <1>2, PTL DEF CronSpec

\* ... and, where every delay fits the timer, the rest.
LEMMA CronInvariance ==
  ASSUME DelaysFit
  PROVE  CronSpec => []CronInv
<1>1. CronInit => CronInv
  BY CronStarts
<1>2. CronInv /\ [CronNext]_cronVars => CronInv'
  <2>1. CASE CronInv /\ CronNext
    BY <2>1, CronTypesKept, TimedKept, SpentKept, PunctualKept DEF CronInv
  <2>2. CASE CronInv /\ UNCHANGED cronVars
    BY <2>2 DEF cronVars, CronInv, CronTypeOK, Timed, Spent, Punctual
  <2> QED
    BY <2>1, <2>2
<1> QED
  BY <1>1, <1>2, PTL DEF CronSpec

\* Only a timer that is due makes a job fire.
LEMMA OnlyFireFires ==
  ASSUME CronTypeOK, [CronNext]_cronVars, NEW j \in Jobs, Fires(j)
  PROVE  timer[j].kind # "none" /\ timer[j].due <= cronClock
<1>1. cronClock \in Nat /\ row \in [Jobs -> RowRecord]
  BY CronTypes, SchedulerAssumption
<1>2. ASSUME NEW k \in Jobs, Schedule(k) PROVE ~Fires(j)
  <2>1. PICK r \in RowRecord : /\ r.firings = row[k].firings
                               /\ row' = [row EXCEPT ![k] = Scheduled(r).row]
    BY <1>2, ScheduledRow
  <2>2. Scheduled(r).row.firings = row[k].firings
    BY <1>1, <2>1, ScheduledTyped
  <2> QED
    BY <1>1, <2>1, <2>2 DEF Fires
<1>3. ASSUME NEW k \in Jobs, Fire(k)
      PROVE  timer[j].kind # "none" /\ timer[j].due <= cronClock
  BY <1>1, <1>3 DEF Fire, Fires
<1>4. CASE Cancel
  BY <1>4, CancelledRow DEF Fires
<1>5. CASE Stop \/ Tick \/ UNCHANGED cronVars
  BY <1>5 DEF Stop, Tick, cronVars, Fires
<1>6. CASE Start
  <2>1. \/ row'[j] = Scheduled(row[j]).row
        \/ row'[j] = row[j]
    BY <1>6 DEF Start
  <2> QED
    BY <1>1, <2>1, ScheduledTyped DEF Fires
<1> QED
  BY <1>2, <1>3, <1>4, <1>5, <1>6 DEF CronNext

\* The clock, the rows and the timers have their types.
THEOREM CronTypeCorrect == CronSpec => []CronTypeOK
BY TimedInvariance, PTL

\* However long the delays, a job that was cancelled, or found too late, does not fire.
THEOREM OnlyActiveFires ==
  CronSpec => [][\A j \in Jobs : Fires(j) => row[j].active = "yes"]_cronVars
<1>1. CronTypeOK /\ (\A j \in Jobs : Timed(row[j], timer[j])) /\ [CronNext]_cronVars
        => [\A j \in Jobs : Fires(j) => row[j].active = "yes"]_cronVars
  BY OnlyFireFires DEF Timed
<1> QED
  BY <1>1, TimedInvariance, PTL DEF CronSpec

\* Where every delay fits the timer, a job that does not repeat fires once, through any number
\* of restarts (src/cron.ts:55-105).  Longer delays fire early, and again after a restart.
THEOREM FiresOnceHolds ==
  ASSUME DelaysFit
  PROVE  CronSpec => FiresOnce
<1>1. CronInv /\ [CronNext]_cronVars =>
        [\A j \in Jobs : Fires(j) =>
           /\ row[j].active = "yes"
           /\ row[j].interval = Once => row[j].firings = "none"]_cronVars
  BY OnlyFireFires DEF CronInv, Timed, Spent
<1> QED
  BY <1>1, CronInvariance, PTL DEF CronSpec, FiresOnce

\* ... and none before its time (src/tools/cron-tools.ts:42).
THEOREM PunctualFirings ==
  ASSUME DelaysFit
  PROVE  CronSpec => NotBeforeItsTime
<1>1. CronInv /\ [CronNext]_cronVars =>
        [\A j \in Jobs : Fires(j) => row[j].fireAt <= cronClock]_cronVars
  <2>1. ASSUME CronInv, [CronNext]_cronVars, NEW j \in Jobs, Fires(j)
        PROVE  row[j].fireAt <= cronClock
    <3>1. timer[j].kind # "none" /\ timer[j].due <= cronClock /\ row[j].fireAt <= timer[j].due
      BY <2>1, OnlyFireFires DEF CronInv, Punctual
    <3>2. cronClock \in Int /\ timer[j].due \in Int /\ row[j].fireAt \in Int
      BY <2>1 DEF CronInv, CronTypeOK
    <3> QED
      BY <3>1, <3>2
  <2> QED
    BY <2>1
<1> QED
  BY <1>1, CronInvariance, PTL DEF CronSpec, NotBeforeItsTime

-----------------------------------------------------------------------------
(* Configuration.                                                          *)

SaverRecord ==
  [stage : {"idle", "looking", "looked", "checked", "renamed", "done", "failed"},
   config : Configs, seen : Nat, name : Profiles]

EnrollmentRecord ==
  [stage : {"idle", "preparing", "retiring", "persisting", "restoring"},
   base : Configs, next : Configs, count : Nat]

\* A configuration whose default profile is there.
Named(cfg) == cfg.default \in cfg.profiles

Defaults ==
  /\ Named(memory) /\ Named(enrollment.base) /\ Named(enrollment.next)
  /\ currentProfile \in memory.profiles
  /\ \A w \in Savers : Saving(w) => Named(saving[w].config)

\* The last to have replaced the file is the one that memory will follow.
Replaced ==
  /\ \A w \in Savers : saving[w].stage = "renamed" =>
       /\ saving[w].seen <= configFile.version
       /\ saving[w].seen = configFile.version => configFile.config = saving[w].config
  /\ "torn" \notin overlap =>
       \/ configFile.config = memory
       \/ \E w \in Savers : saving[w].stage = "renamed" /\ saving[w].seen = configFile.version

\* The settings are written by an enrollment, which no replacement of the runtime accompanies,
\* and which has retired the runtime before.
Turns ==
  /\ enrollment.next.profiles = enrollment.base.profiles
  /\ Saving("settings") => enrollment.stage \in {"persisting", "restoring"}
  /\ switch # NoSwitch /\ ~Waiting => enrollment.stage = "idle"
  /\ enrollment.stage \in {"persisting", "restoring"} => runtime = NoRuntime

\* An enrollment that no change of a provider overlaps: memory is its base until its
\* configuration is stored.
Undisturbed ==
  "enrollment" \notin overlap =>
    /\ Committing => \A q \in Providers : ~Saving(q)
    /\ enrollment.stage \in {"retiring", "restoring"} => memory = enrollment.base
    /\ enrollment.stage = "persisting" =>
         memory = IF saving["settings"].stage = "done" THEN enrollment.next ELSE enrollment.base
    /\ Saving("settings") =>
         saving["settings"].config =
           IF enrollment.stage = "persisting" THEN enrollment.next ELSE enrollment.base
    /\ \A q \in Providers : Saving(q) => saving[q].config.settings = memory.settings

\* The runtime has the settings, and so has the one that is to replace it.
Current ==
  overlap \intersect {"enrollment", "switch"} = {} =>
    /\ runtime \in {NoRuntime, <<memory.settings, memory.settings>>}
    /\ switch # NoSwitch /\ ~Waiting => switch = <<memory.settings, memory.settings>>
    /\ Waiting => \/ switch[1] = memory.settings
                  \/ enrollment.stage = "persisting" /\ saving["settings"].stage = "done"

\* One provider at a time is changed, from what is there.
Stored ==
  overlap \intersect {"enrollment", "providers"} = {} =>
    /\ kept \subseteq memory.profiles
    /\ \A q \in Providers : Saving(q) =>
         memory.profiles \ {saving[q].name} \subseteq saving[q].config.profiles
    /\ \A p, q \in Providers : Saving(p) /\ Saving(q) => p = q

ConfigInv ==
  ConfigTypeOK /\ Defaults /\ Replaced /\ Turns /\ Undisturbed /\ Current /\ Stored

\* The types, by name.
LEMMA ConfigTypes ==
  ASSUME ConfigTypeOK
  PROVE  /\ configFile.config \in Configs /\ configFile.version \in Nat
         /\ configFile = [config |-> configFile.config, version |-> configFile.version]
         /\ memory \in Configs /\ currentProfile \in Profiles
         /\ saving \in [Savers -> SaverRecord] /\ enrollment \in EnrollmentRecord
         /\ switch = NoSwitch \/ (switch[1] \in Roots /\ switch = <<switch[1], switch[2]>>)
         /\ switch # NoSwitch /\ ~Waiting => switch \in Roots \X Roots
         /\ runtime \in Runtimes /\ kept \subseteq Profiles
         /\ overlap \subseteq {"providers", "enrollment", "switch", "torn"}
         /\ \A w \in Savers : saving[w].config \in Configs /\ saving[w].name \in Profiles
         /\ "settings" \in Savers /\ "settings" \notin Providers
         /\ \A q \in Providers : q \in Savers /\ q # "settings"
<1>1. /\ configFile.config \in Configs /\ configFile.version \in Nat
      /\ configFile = [config |-> configFile.config, version |-> configFile.version]
  BY DEF ConfigTypeOK
<1>2. saving \in [Savers -> SaverRecord] /\ enrollment \in EnrollmentRecord
  BY DEF ConfigTypeOK, SaverRecord, EnrollmentRecord
<1>3. \/ switch = NoSwitch
      \/ \E x, y : switch = <<x, y>> /\ x \in Roots /\ (y \in Roots \/ y = "waiting")
  BY DEF ConfigTypeOK
<1>4. /\ switch = NoSwitch \/ (switch[1] \in Roots /\ switch = <<switch[1], switch[2]>>)
      /\ switch # NoSwitch /\ ~Waiting => switch \in Roots \X Roots
  BY <1>3 DEF Waiting
<1>5. \A w \in Savers : saving[w].config \in Configs /\ saving[w].name \in Profiles
  BY <1>2 DEF SaverRecord
<1>6. /\ "settings" \in Savers /\ "settings" \notin Providers
      /\ \A q \in Providers : q \in Savers /\ q # "settings"
  BY ConfigAssumption DEF Savers
<1> QED
  BY <1>1, <1>2, <1>4, <1>5, <1>6 DEF ConfigTypeOK

\* A configuration is its parts.
LEMMA ConfigParts ==
  ASSUME NEW cfg \in Configs
  PROVE  /\ cfg.profiles \in (SUBSET Profiles) \ {{}} /\ cfg.default \in Profiles
         /\ cfg.settings \in Roots
BY DEF Configs

\* The state of one saver changes.
LEMMA SaverMoves ==
  ASSUME ConfigTypeOK, NEW w \in Savers,
         NEW r \in SaverRecord, saving' = [saving EXCEPT ![w] = r]
  PROVE  /\ saving' \in [Savers -> SaverRecord]
         /\ saving'[w] = r /\ \A v \in Savers \ {w} : saving'[v] = saving[v]
BY ConfigTypes

\* What each step of a write leaves of it.
LEMMA LookEffect ==
  ASSUME ConfigTypeOK, NEW w \in Savers, Look(w)
  PROVE  /\ saving' \in [Savers -> SaverRecord]
         /\ \A v \in Savers \ {w} : saving'[v] = saving[v]
         /\ saving'[w].stage = "looked" /\ saving'[w].config = saving[w].config
         /\ saving'[w].name = saving[w].name
<1> DEFINE r == [saving[w] EXCEPT !.stage = "looked", !.seen = configFile.version]
<1>1. /\ saving \in [Savers -> SaverRecord] /\ saving[w] \in SaverRecord
      /\ configFile.version \in Nat /\ memory \in Configs /\ saving[w].config \in Configs
      /\ saving[w].config.default \in Profiles /\ memory.default \in Profiles
  BY ConfigTypes, ConfigParts
<1>2. r \in SaverRecord
  BY <1>1 DEF SaverRecord
<1>3. saving' = [saving EXCEPT ![w] = r]
  BY <1>1 DEF Look
<1>4. saving' \in [Savers -> SaverRecord] /\ saving'[w] = r
      /\ \A v \in Savers \ {w} : saving'[v] = saving[v]
  <2> HIDE DEF r
  <2> QED
    BY <1>2, <1>3, SaverMoves
<1> QED
  BY <1>1, <1>4 DEF SaverRecord

\* The comparison.
LEMMA CompareEffect ==
  ASSUME ConfigTypeOK, NEW w \in Savers, Compare(w)
  PROVE  /\ saving' \in [Savers -> SaverRecord]
         /\ \A v \in Savers \ {w} : saving'[v] = saving[v]
         /\ saving'[w].stage \in {"checked", "failed"} /\ saving'[w].config = saving[w].config
         /\ saving'[w].name = saving[w].name
<1> DEFINE r == [saving[w] EXCEPT
                   !.stage = IF configFile.version = saving[w].seen THEN "checked" ELSE "failed"]
<1>1. /\ saving \in [Savers -> SaverRecord] /\ saving[w] \in SaverRecord
      /\ configFile.version \in Nat /\ memory \in Configs /\ saving[w].config \in Configs
      /\ saving[w].config.default \in Profiles /\ memory.default \in Profiles
  BY ConfigTypes, ConfigParts
<1>2. r \in SaverRecord
  <2>1. \A stage \in {"checked", "failed"} : [saving[w] EXCEPT !.stage = stage] \in SaverRecord
    BY <1>1 DEF SaverRecord
  <2>2. r.stage \in {"checked", "failed"} /\ r = [saving[w] EXCEPT !.stage = r.stage]
    BY <1>1 DEF SaverRecord
  <2> HIDE DEF r
  <2> QED
    BY <2>1, <2>2
<1>3. saving' = [saving EXCEPT ![w] = r]
  BY <1>1 DEF Compare, SaveStep
<1>4. saving' \in [Savers -> SaverRecord] /\ saving'[w] = r
      /\ \A v \in Savers \ {w} : saving'[v] = saving[v]
  <2> HIDE DEF r
  <2> QED
    BY <1>2, <1>3, SaverMoves
<1> QED
  BY <1>1, <1>4 DEF SaverRecord

\* The rename.
LEMMA RenameEffect ==
  ASSUME ConfigTypeOK, NEW w \in Savers, RenameConfig(w)
  PROVE  /\ saving' \in [Savers -> SaverRecord]
         /\ \A v \in Savers \ {w} : saving'[v] = saving[v]
         /\ saving'[w].stage = "renamed" /\ saving'[w].config = saving[w].config
         /\ saving'[w].name = saving[w].name /\ saving'[w].seen = configFile.version + 1
<1> DEFINE r == [saving[w] EXCEPT !.stage = "renamed", !.seen = configFile.version + 1]
<1>1. /\ saving \in [Savers -> SaverRecord] /\ saving[w] \in SaverRecord
      /\ configFile.version \in Nat /\ memory \in Configs /\ saving[w].config \in Configs
      /\ saving[w].config.default \in Profiles /\ memory.default \in Profiles
  BY ConfigTypes, ConfigParts
<1>2. r \in SaverRecord
  <2>1. configFile.version + 1 \in Nat
    BY <1>1
  <2> QED
    BY <1>1, <2>1 DEF SaverRecord
<1>3. saving' = [saving EXCEPT ![w] = r]
  BY <1>1 DEF RenameConfig
<1>4. saving' \in [Savers -> SaverRecord] /\ saving'[w] = r
      /\ \A v \in Savers \ {w} : saving'[v] = saving[v]
  <2> HIDE DEF r
  <2> QED
    BY <1>2, <1>3, SaverMoves
<1> QED
  BY <1>1, <1>4 DEF SaverRecord

\* The publication in memory.
LEMMA PublishEffect ==
  ASSUME ConfigTypeOK, NEW w \in Savers, PublishConfig(w)
  PROVE  /\ saving' \in [Savers -> SaverRecord]
         /\ \A v \in Savers \ {w} : saving'[v] = saving[v]
         /\ saving'[w].stage = "done" /\ saving'[w].config = saving[w].config
<1> DEFINE r == [stage |-> "done", config |-> saving[w].config, seen |-> 0,
                 name |-> saving[w].config.default]
<1>1. /\ saving \in [Savers -> SaverRecord] /\ saving[w] \in SaverRecord
      /\ configFile.version \in Nat /\ memory \in Configs /\ saving[w].config \in Configs
      /\ saving[w].config.default \in Profiles /\ memory.default \in Profiles
  BY ConfigTypes, ConfigParts
<1>2. r \in SaverRecord
  BY <1>1 DEF SaverRecord
<1>3. saving' = [saving EXCEPT ![w] = r]
  BY <1>1 DEF PublishConfig, ConfigPublished, SaveEnded
<1>4. saving' \in [Savers -> SaverRecord] /\ saving'[w] = r
      /\ \A v \in Savers \ {w} : saving'[v] = saving[v]
  <2> HIDE DEF r
  <2> QED
    BY <1>2, <1>3, SaverMoves
<1> QED
  BY <1>1, <1>4 DEF SaverRecord

\* The failure.
LEMMA FailsEffect ==
  ASSUME ConfigTypeOK, NEW w \in Savers, SaveFails(w)
  PROVE  /\ saving' \in [Savers -> SaverRecord]
         /\ \A v \in Savers \ {w} : saving'[v] = saving[v]
         /\ saving'[w].stage = "failed"
<1> DEFINE r == [stage |-> "failed", config |-> memory, seen |-> 0, name |-> memory.default]
<1>1. /\ saving \in [Savers -> SaverRecord] /\ saving[w] \in SaverRecord
      /\ configFile.version \in Nat /\ memory \in Configs /\ saving[w].config \in Configs
      /\ saving[w].config.default \in Profiles /\ memory.default \in Profiles
  BY ConfigTypes, ConfigParts
<1>2. r \in SaverRecord
  BY <1>1 DEF SaverRecord
<1>3. saving' = [saving EXCEPT ![w] = r]
  BY <1>1 DEF SaveFails, SaveEnded
<1>4. saving' \in [Savers -> SaverRecord] /\ saving'[w] = r
      /\ \A v \in Savers \ {w} : saving'[v] = saving[v]
  <2> HIDE DEF r
  <2> QED
    BY <1>2, <1>3, SaverMoves
<1> QED
  BY <1>1, <1>4 DEF SaverRecord

\* A write that begins.
LEMMA SaveEffect ==
  ASSUME ConfigTypeOK, NEW w \in Savers, NEW cfg \in Configs, NEW name \in Profiles,
         Save(w, cfg, name)
  PROVE  /\ saving' \in [Savers -> SaverRecord]
         /\ \A v \in Savers \ {w} : saving'[v] = saving[v]
         /\ saving'[w].stage = "looking" /\ saving'[w].config = cfg /\ saving'[w].name = name
<1> DEFINE r == [stage |-> "looking", config |-> cfg, seen |-> 0, name |-> name]
<1>1. r \in SaverRecord
  BY DEF SaverRecord
<1>2. saving' = [saving EXCEPT ![w] = r]
  BY DEF Save
<1>3. r.stage = "looking" /\ r.config = cfg /\ r.name = name
  OBVIOUS
<1> HIDE DEF r
<1> QED
  BY <1>1, <1>2, <1>3, SaverMoves

\* A change of the providers that begins has memory's settings and default profile, and its
\* profiles but for the one that is changed.
LEMMA UpsertEffect ==
  ASSUME ConfigTypeOK, NEW p \in Profiles, NEW q \in Providers, UpsertProfile(q, p)
  PROVE  /\ saving' \in [Savers -> SaverRecord]
         /\ \A v \in Savers \ {q} : saving'[v] = saving[v]
         /\ saving[q].stage = "idle" /\ saving'[q].stage = "looking" /\ saving'[q].name = p
         /\ saving'[q].config.settings = memory.settings
         /\ saving'[q].config.default = memory.default
         /\ memory.profiles \ {p} \subseteq saving'[q].config.profiles
         /\ memory.default \in memory.profiles => memory.default \in saving'[q].config.profiles
<1> DEFINE cfg == [memory EXCEPT !.profiles = @ \union {p}]
<1>1. memory \in Configs /\ q \in Savers
  BY ConfigTypes
<1>2. /\ cfg \in Configs /\ cfg.settings = memory.settings /\ cfg.default = memory.default
      /\ cfg.profiles = memory.profiles \union {p}
  BY <1>1 DEF Configs
<1>3. Save(q, cfg, p) /\ saving[q].stage = "idle"
  BY DEF UpsertProfile, Begun
<1> HIDE DEF cfg
<1> QED
  BY <1>1, <1>2, <1>3, SaveEffect

\* A deletion leaves the default profile.
LEMMA DeleteEffect ==
  ASSUME ConfigTypeOK, Named(memory), NEW p \in Profiles, NEW q \in Providers,
         DeleteProfile(q, p)
  PROVE  /\ saving' \in [Savers -> SaverRecord]
         /\ \A v \in Savers \ {q} : saving'[v] = saving[v]
         /\ saving[q].stage = "idle" /\ saving'[q].stage = "looking" /\ saving'[q].name = p
         /\ saving'[q].config.settings = memory.settings
         /\ saving'[q].config.default = memory.default
         /\ memory.profiles \ {p} \subseteq saving'[q].config.profiles
         /\ memory.default \in saving'[q].config.profiles
<1> DEFINE cfg == [memory EXCEPT !.profiles = @ \ {p}]
<1>1. memory \in Configs /\ q \in Savers
  BY ConfigTypes
<1>2. p \in memory.profiles \ {memory.default, currentProfile}
  BY DEF DeleteProfile
<1>3. memory.default \in memory.profiles \ {p}
  BY <1>2 DEF Named
<1>4. /\ cfg \in Configs /\ cfg.settings = memory.settings /\ cfg.default = memory.default
      /\ cfg.profiles = memory.profiles \ {p}
  BY <1>1, <1>3 DEF Configs
<1>5. Save(q, cfg, p) /\ saving[q].stage = "idle"
  BY DEF DeleteProfile, Begun
<1> HIDE DEF cfg
<1> QED
  BY <1>1, <1>3, <1>4, <1>5, SaveEffect

\* The stage of the enrollment changes, its configurations stay.
LEMMA EnrollmentMoves ==
  ASSUME ConfigTypeOK,
         NEW stage \in {"idle", "preparing", "retiring", "persisting", "restoring"},
         Enrollment(stage)
  PROVE  /\ enrollment' \in EnrollmentRecord /\ enrollment'.stage = stage
         /\ enrollment'.base = enrollment.base /\ enrollment'.next = enrollment.next
<1>1. enrollment \in EnrollmentRecord
  BY ConfigTypes
<1> QED
  BY <1>1 DEF Enrollment, EnrollmentRecord

\* The enrollment, step by step: what it begins with, ...
LEMMA EnrollEffect ==
  ASSUME ConfigTypeOK, NEW r \in Roots, Enroll(r)
  PROVE  /\ enrollment' \in EnrollmentRecord /\ enrollment.stage = "idle"
         /\ enrollment'.stage = "preparing" /\ enrollment'.base = memory
         /\ enrollment'.next.profiles = memory.profiles
         /\ enrollment'.next.default = memory.default
<1> DEFINE cfg == [memory EXCEPT !.settings = r]
<1>1. memory \in Configs /\ enrollment \in EnrollmentRecord
  BY ConfigTypes
<1>2. cfg \in Configs /\ cfg.profiles = memory.profiles /\ cfg.default = memory.default
  BY <1>1 DEF Configs
<1>3. /\ enrollment' = [stage |-> "preparing", base |-> memory, count |-> enrollment.count + 1,
                        next |-> cfg]
      /\ enrollment.stage = "idle" /\ enrollment.count + 1 \in Nat
  BY <1>1 DEF Enroll, EnrollmentRecord
<1> HIDE DEF cfg
<1> QED
  BY <1>1, <1>2, <1>3 DEF EnrollmentRecord

\* ... how it goes on once it has prepared its candidate, ...
LEMMA PreparedEffect ==
  ASSUME ConfigTypeOK, EnrollmentPrepared
  PROVE  /\ enrollment' \in EnrollmentRecord /\ enrollment.stage = "preparing"
         /\ enrollment'.base = enrollment.base /\ enrollment'.next = enrollment.next
         /\ enrollment'.stage \in {"idle", "retiring"}
         /\ enrollment'.stage = "retiring" => memory = enrollment.base
         /\ overlap \subseteq overlap' /\ overlap' \subseteq overlap \union {"enrollment"}
         /\ (\E q \in Providers : Saving(q)) => "enrollment" \in overlap'
BY EnrollmentMoves DEF EnrollmentPrepared

\* ... retired the runtime, ...
LEMMA RetiredEffect ==
  ASSUME ConfigTypeOK, BaseRetired
  PROVE  /\ enrollment' \in EnrollmentRecord /\ enrollment.stage = "retiring"
         /\ enrollment'.base = enrollment.base /\ enrollment'.next = enrollment.next
         /\ saving' \in [Savers -> SaverRecord]
         /\ \A v \in Savers \ {"settings"} : saving'[v] = saving[v]
         /\ \/ /\ enrollment'.stage = "persisting" /\ saving'["settings"].stage = "looking"
               /\ saving'["settings"].config = enrollment.next
            \/ enrollment'.stage = "idle" /\ saving' = saving
<1>1. /\ "settings" \in Savers /\ currentProfile \in Profiles /\ enrollment.next \in Configs
      /\ saving \in [Savers -> SaverRecord] /\ enrollment.stage = "retiring"
  BY ConfigTypes DEF EnrollmentRecord, BaseRetired
<1>2. CASE Enrollment("persisting") /\ Save("settings", enrollment.next, currentProfile)
  BY <1>1, <1>2, EnrollmentMoves, SaveEffect
<1>3. CASE Enrollment("idle") /\ UNCHANGED saving
  BY <1>1, <1>3, EnrollmentMoves
<1> QED
  BY <1>2, <1>3 DEF BaseRetired

\* ... and tried to store its configuration, ...
LEMMA PersistedEffect ==
  ASSUME ConfigTypeOK, Persisted
  PROVE  /\ enrollment' \in EnrollmentRecord /\ enrollment.stage = "persisting"
         /\ enrollment'.base = enrollment.base /\ enrollment'.next = enrollment.next
         /\ saving' \in [Savers -> SaverRecord]
         /\ \A v \in Savers \ {"settings"} : saving'[v] = saving[v]
         /\ \/ /\ saving["settings"].stage = "done" /\ enrollment'.stage = "idle"
               /\ runtime' = <<enrollment.next.settings, enrollment.next.settings>>
               /\ overlap' = IF Waiting THEN overlap \union {"switch"} ELSE overlap
               /\ saving' = saving
            \/ /\ saving["settings"].stage = "failed" /\ enrollment'.stage = "restoring"
               /\ saving'["settings"].stage = "looking"
               /\ saving'["settings"].config = enrollment.base
               /\ UNCHANGED <<runtime, overlap>>
<1>1. /\ "settings" \in Savers /\ currentProfile \in Profiles /\ enrollment.base \in Configs
      /\ saving \in [Savers -> SaverRecord] /\ enrollment.stage = "persisting"
  BY ConfigTypes DEF EnrollmentRecord, Persisted
<1>2. CASE /\ saving["settings"].stage = "done" /\ Enrollment("idle")
           /\ runtime' = <<enrollment.next.settings, enrollment.next.settings>>
           /\ overlap' = IF Waiting THEN overlap \union {"switch"} ELSE overlap
           /\ UNCHANGED saving
  BY <1>1, <1>2, EnrollmentMoves
<1>3. CASE /\ saving["settings"].stage = "failed" /\ Enrollment("restoring")
           /\ Save("settings", enrollment.base, currentProfile)
           /\ UNCHANGED <<runtime, overlap>>
  BY <1>1, <1>3, EnrollmentMoves, SaveEffect
<1> QED
  BY <1>2, <1>3 DEF Persisted

\* ... or the one it began with.
LEMMA RecoveredEffect ==
  ASSUME ConfigTypeOK, EnrollmentRecovered
  PROVE  /\ enrollment' \in EnrollmentRecord /\ enrollment.stage = "restoring"
         /\ enrollment'.base = enrollment.base /\ enrollment'.next = enrollment.next
         /\ enrollment'.stage = "idle" /\ saving["settings"].stage \in {"done", "failed"}
         /\ \/ runtime' = runtime
            \/ runtime' = <<enrollment.base.settings, enrollment.base.settings>>
BY EnrollmentMoves DEF EnrollmentRecovered

\* Every configuration keeps its default profile, and the current one is there ...
LEMMA DefaultsKept ==
  ASSUME ConfigInv, ConfigNext
  PROVE  Defaults'
<1>1. /\ ConfigTypeOK /\ Defaults /\ Turns /\ Named(memory)
      /\ "settings" \in Savers /\ "settings" \notin Providers
      /\ \A q \in Providers : q \in Savers /\ q # "settings"
  BY ConfigTypes DEF ConfigInv, Defaults
<1>2. ASSUME NEW w \in Savers, Look(w) PROVE Defaults'
  BY <1>1, <1>2, ConfigTypes, LookEffect DEF Look, Defaults, Named, Saving, Savers
<1>3. ASSUME NEW w \in Savers, Compare(w) PROVE Defaults'
  BY <1>1, <1>3, ConfigTypes, CompareEffect DEF Compare, SaveStep, Defaults, Named, Saving,
       Savers
<1>4. ASSUME NEW w \in Savers, RenameConfig(w) PROVE Defaults'
  BY <1>1, <1>4, ConfigTypes, RenameEffect DEF RenameConfig, Defaults, Named, Saving, Savers
<1>5. ASSUME NEW w \in Savers, PublishConfig(w) PROVE Defaults'
  BY <1>1, <1>5, ConfigTypes, PublishEffect DEF PublishConfig, ConfigPublished, SaveEnded,
       Defaults, Named, Saving, Savers
<1>6. ASSUME NEW w \in Savers, SaveFails(w) PROVE Defaults'
  BY <1>1, <1>6, ConfigTypes, FailsEffect DEF SaveFails, SaveEnded, Defaults, Named, Saving,
       Savers
<1>7. ASSUME NEW p \in Profiles, SwitchProfile(p) PROVE Defaults'
  BY <1>1, <1>7, ConfigTypes DEF SwitchProfile, Defaults, Named, Saving, Savers
<1>8. ASSUME NEW p \in Profiles, NEW q \in Providers, UpsertProfile(q, p) PROVE Defaults'
  BY <1>1, <1>8, ConfigTypes, UpsertEffect DEF UpsertProfile, Begun, Defaults, Named, Saving,
       Savers
<1>9. ASSUME NEW p \in Profiles, NEW q \in Providers, DeleteProfile(q, p) PROVE Defaults'
  BY <1>1, <1>9, ConfigTypes, DeleteEffect DEF DeleteProfile, Begun, Defaults, Named, Saving,
       Savers
<1>10. ASSUME NEW r \in Roots, Enroll(r) PROVE Defaults'
  BY <1>1, <1>10, ConfigTypes, EnrollEffect DEF Enroll, Defaults, Named, Saving, Savers
<1>11. CASE RequestSwitch
  BY <1>1, <1>11, ConfigTypes DEF RequestSwitch, Defaults, Named, Saving, Savers
<1>12. CASE SwitchTurn
  BY <1>1, <1>12, ConfigTypes DEF SwitchTurn, Waiting, Defaults, Named, Saving, Savers
<1>13. CASE SwitchEnds
  BY <1>1, <1>13, ConfigTypes DEF SwitchEnds, Waiting, Defaults, Named, Saving, Savers
<1>14. CASE EnrollmentPrepared
  BY <1>1, <1>14, ConfigTypes, PreparedEffect DEF EnrollmentPrepared, Enrollment, Defaults,
       Named, Saving, Savers
<1>15. CASE BaseRetired
  BY <1>1, <1>15, ConfigTypes, RetiredEffect DEF BaseRetired, Enrollment, Defaults, Named,
       Saving, Savers
<1>16. CASE Persisted
  BY <1>1, <1>16, ConfigTypes, PersistedEffect DEF Persisted, Enrollment, Defaults, Named,
       Saving, Savers
<1>17. CASE EnrollmentRecovered
  BY <1>1, <1>17, ConfigTypes, RecoveredEffect DEF EnrollmentRecovered, Enrollment, Defaults,
       Named, Saving, Savers
<1> QED
  BY <1>2, <1>3, <1>4, <1>5, <1>6, <1>7, <1>8, <1>9, <1>10, <1>11, <1>12, <1>13, <1>14, <1>15,
       <1>16, <1>17 DEF ConfigNext

\* ... memory follows the last to replace the file ...
LEMMA ReplacedKept ==
  ASSUME ConfigInv, ConfigNext
  PROVE  Replaced'
<1>1. /\ ConfigTypeOK /\ Defaults /\ Turns /\ Named(memory) /\ Replaced
      /\ "settings" \in Savers /\ "settings" \notin Providers
      /\ \A q \in Providers : q \in Savers /\ q # "settings"
  BY ConfigTypes DEF ConfigInv, Defaults
<1>2. ASSUME NEW w \in Savers, Look(w) PROVE Replaced'
  BY <1>1, <1>2, ConfigTypes, LookEffect, ZenonT(60) DEF Look, Replaced, Saving
<1>3. ASSUME NEW w \in Savers, Compare(w) PROVE Replaced'
  BY <1>1, <1>3, ConfigTypes, CompareEffect DEF Compare, SaveStep, Replaced, Saving
<1>4. ASSUME NEW w \in Savers, RenameConfig(w) PROVE Replaced'
  <2>1. /\ saving'[w].stage = "renamed" /\ saving'[w].seen = configFile'.version
        /\ saving'[w].config = configFile'.config
        /\ configFile'.version = configFile.version + 1
        /\ \A v \in Savers \ {w} : saving'[v] = saving[v]
        /\ configFile.version \in Nat /\ \A v \in Savers : saving[v].seen \in Nat
    BY <1>1, <1>4, ConfigTypes, RenameEffect DEF RenameConfig, SaverRecord
  <2> QED
    BY <1>1, <2>1 DEF Replaced
<1>5. ASSUME NEW w \in Savers, PublishConfig(w) PROVE Replaced'
  BY <1>1, <1>5, ConfigTypes, PublishEffect DEF PublishConfig, ConfigPublished, SaveEnded,
       Replaced, Saving
<1>6. ASSUME NEW w \in Savers, SaveFails(w) PROVE Replaced'
  BY <1>1, <1>6, ConfigTypes, FailsEffect DEF SaveFails, SaveEnded, Replaced, Saving
<1>7. ASSUME NEW p \in Profiles, SwitchProfile(p) PROVE Replaced'
  BY <1>1, <1>7, ConfigTypes DEF SwitchProfile, Replaced, Saving
<1>8. ASSUME NEW p \in Profiles, NEW q \in Providers, UpsertProfile(q, p) PROVE Replaced'
  BY <1>1, <1>8, ConfigTypes, UpsertEffect DEF UpsertProfile, Begun, Replaced, Saving
<1>9. ASSUME NEW p \in Profiles, NEW q \in Providers, DeleteProfile(q, p) PROVE Replaced'
  BY <1>1, <1>9, ConfigTypes, DeleteEffect DEF DeleteProfile, Begun, Replaced, Saving
<1>10. ASSUME NEW r \in Roots, Enroll(r) PROVE Replaced'
  BY <1>1, <1>10, ConfigTypes, EnrollEffect DEF Enroll, Replaced, Saving
<1>11. CASE RequestSwitch
  BY <1>1, <1>11, ConfigTypes DEF RequestSwitch, Replaced, Saving
<1>12. CASE SwitchTurn
  BY <1>1, <1>12, ConfigTypes DEF SwitchTurn, Waiting, Replaced, Saving
<1>13. CASE SwitchEnds
  BY <1>1, <1>13, ConfigTypes DEF SwitchEnds, Waiting, Replaced, Saving
<1>14. CASE EnrollmentPrepared
  BY <1>1, <1>14, ConfigTypes, PreparedEffect DEF EnrollmentPrepared, Enrollment, Replaced,
       Saving
<1>15. CASE BaseRetired
  <2>1. /\ \A v \in Savers : saving'[v].stage = "renamed" =>
              saving[v].stage = "renamed" /\ saving'[v] = saving[v]
        /\ \A v \in Savers : saving[v].stage = "renamed" => saving'[v] = saving[v]
    BY <1>1, <1>15, RetiredEffect DEF Turns, Saving
  <2> QED
    BY <1>1, <1>15, <2>1 DEF BaseRetired, Replaced
<1>16. CASE Persisted
  BY <1>1, <1>16, ConfigTypes, PersistedEffect DEF Persisted, Enrollment, Replaced, Saving
<1>17. CASE EnrollmentRecovered
  BY <1>1, <1>17, ConfigTypes, RecoveredEffect DEF EnrollmentRecovered, Enrollment, Replaced,
       Saving
<1> QED
  BY <1>2, <1>3, <1>4, <1>5, <1>6, <1>7, <1>8, <1>9, <1>10, <1>11, <1>12, <1>13, <1>14, <1>15,
       <1>16, <1>17 DEF ConfigNext

\* ... enrollments and the other replacements of the runtime take turns ...
LEMMA TurnsKept ==
  ASSUME ConfigInv, ConfigNext
  PROVE  Turns'
<1>1. /\ ConfigTypeOK /\ Defaults /\ Turns /\ Named(memory)
      /\ "settings" \in Savers /\ "settings" \notin Providers
      /\ \A q \in Providers : q \in Savers /\ q # "settings"
  BY ConfigTypes DEF ConfigInv, Defaults
<1>2. ASSUME NEW w \in Savers, Look(w) PROVE Turns'
  BY <1>1, <1>2, LookEffect DEF Look, Turns, Saving, Waiting
<1>3. ASSUME NEW w \in Savers, Compare(w) PROVE Turns'
  BY <1>1, <1>3, CompareEffect DEF Compare, SaveStep, Turns, Saving, Waiting
<1>4. ASSUME NEW w \in Savers, RenameConfig(w) PROVE Turns'
  BY <1>1, <1>4, RenameEffect DEF RenameConfig, Turns, Saving, Waiting
<1>5. ASSUME NEW w \in Savers, PublishConfig(w) PROVE Turns'
  BY <1>1, <1>5, PublishEffect DEF PublishConfig, ConfigPublished, SaveEnded, Turns, Saving,
       Waiting
<1>6. ASSUME NEW w \in Savers, SaveFails(w) PROVE Turns'
  BY <1>1, <1>6, FailsEffect DEF SaveFails, SaveEnded, Turns, Saving, Waiting
<1>7. ASSUME NEW p \in Profiles, SwitchProfile(p) PROVE Turns'
  BY <1>1, <1>7 DEF SwitchProfile, Turns, Saving, Waiting
<1>8. ASSUME NEW p \in Profiles, NEW q \in Providers, UpsertProfile(q, p) PROVE Turns'
  BY <1>1, <1>8, UpsertEffect DEF UpsertProfile, Begun, Turns, Saving, Waiting
<1>9. ASSUME NEW p \in Profiles, NEW q \in Providers, DeleteProfile(q, p) PROVE Turns'
  BY <1>1, <1>9, DeleteEffect DEF DeleteProfile, Begun, Turns, Saving, Waiting
<1>10. ASSUME NEW r \in Roots, Enroll(r) PROVE Turns'
  BY <1>1, <1>10, EnrollEffect DEF Enroll, Turns, Saving, Waiting
<1>11. CASE RequestSwitch
  BY <1>1, <1>11 DEF RequestSwitch, Turns, Saving, Waiting
<1>12. CASE SwitchTurn
  BY <1>1, <1>12 DEF SwitchTurn, Waiting, Turns, Saving
<1>13. CASE SwitchEnds
  BY <1>1, <1>13 DEF SwitchEnds, Waiting, Turns, Saving
<1>14. CASE EnrollmentPrepared
  BY <1>1, <1>14, PreparedEffect DEF EnrollmentPrepared, Enrollment, Turns, Saving, Waiting
<1>15. CASE BaseRetired
  BY <1>1, <1>15, RetiredEffect DEF BaseRetired, Enrollment, Turns, Saving, Waiting
<1>16. CASE Persisted
  BY <1>1, <1>16, PersistedEffect DEF Persisted, Enrollment, Turns, Saving, Waiting
<1>17. CASE EnrollmentRecovered
  BY <1>1, <1>17, RecoveredEffect DEF EnrollmentRecovered, Enrollment, Turns, Saving, Waiting
<1> QED
  BY <1>2, <1>3, <1>4, <1>5, <1>6, <1>7, <1>8, <1>9, <1>10, <1>11, <1>12, <1>13, <1>14, <1>15,
       <1>16, <1>17 DEF ConfigNext

\* ... an enrollment that nobody disturbs finds what it left ...
LEMMA UndisturbedKept ==
  ASSUME ConfigInv, ConfigNext
  PROVE  Undisturbed'
<1>1. /\ ConfigTypeOK /\ Defaults /\ Turns /\ Named(memory) /\ Undisturbed
      /\ "settings" \in Savers /\ "settings" \notin Providers
      /\ \A q \in Providers : q \in Savers /\ q # "settings"
  BY ConfigTypes DEF ConfigInv, Defaults
<1>2. ASSUME NEW w \in Savers, Look(w) PROVE Undisturbed'
  <2>1. /\ \A v \in Savers : /\ (Saving(v)' <=> Saving(v))
                            /\ saving'[v].config = saving[v].config
                            /\ saving'[v].name = saving[v].name
        /\ \A v \in Savers : saving'[v].stage = "done" <=> saving[v].stage = "done"
        /\ UNCHANGED <<memory, enrollment, switch, runtime, kept, overlap>>
    <3>1. saving[w].stage = "looking"
      BY <1>2 DEF Look
    <3>2. \A v \in Savers \ {w} : saving'[v] = saving[v]
      BY <1>1, <1>2, LookEffect
    <3>3. /\ saving'[w].stage = "looked" /\ saving'[w].config = saving[w].config
          /\ saving'[w].name = saving[w].name
      BY <1>1, <1>2, LookEffect
    <3>4. UNCHANGED <<memory, enrollment, switch, runtime, kept, overlap>>
      BY <1>2 DEF Look
    <3> QED
      BY <3>1, <3>2, <3>3, <3>4 DEF Saving
  <2> QED
    BY <1>1, <2>1 DEF Undisturbed, Turns, Saving, Committing
<1>3. ASSUME NEW w \in Savers, Compare(w) PROVE Undisturbed'
  BY <1>1, <1>3, CompareEffect DEF Compare, SaveStep, Undisturbed, Turns, Saving, Committing
<1>4. ASSUME NEW w \in Savers, RenameConfig(w) PROVE Undisturbed'
  <2>1. /\ \A v \in Savers : /\ (Saving(v)' <=> Saving(v))
                            /\ saving'[v].config = saving[v].config
                            /\ saving'[v].name = saving[v].name
        /\ \A v \in Savers : saving'[v].stage = "done" <=> saving[v].stage = "done"
        /\ UNCHANGED <<memory, enrollment, switch, runtime, kept, overlap>>
    <3>1. saving[w].stage = "checked"
      BY <1>4 DEF RenameConfig
    <3>2. \A v \in Savers \ {w} : saving'[v] = saving[v]
      BY <1>1, <1>4, RenameEffect
    <3>3. /\ saving'[w].stage = "renamed" /\ saving'[w].config = saving[w].config
          /\ saving'[w].name = saving[w].name
      BY <1>1, <1>4, RenameEffect
    <3>4. UNCHANGED <<memory, enrollment, switch, runtime, kept, overlap>>
      BY <1>4 DEF RenameConfig
    <3> QED
      BY <3>1, <3>2, <3>3, <3>4 DEF Saving
  <2> QED
    BY <1>1, <2>1 DEF Undisturbed, Turns, Saving, Committing
<1>5. ASSUME NEW w \in Savers, PublishConfig(w) PROVE Undisturbed'
  <2>1. /\ memory' = saving[w].config /\ Saving(w) /\ saving[w].stage = "renamed"
        /\ saving'[w].stage = "done" /\ saving'[w].config = saving[w].config
        /\ \A v \in Savers \ {w} : saving'[v] = saving[v]
        /\ UNCHANGED <<enrollment, switch, runtime, overlap>>
        /\ kept' = IF w = "settings" THEN kept
                   ELSE IF saving[w].name \in saving[w].config.profiles
                     THEN kept \union {saving[w].name} ELSE kept \ {saving[w].name}
    BY <1>1, <1>5, PublishEffect DEF PublishConfig, ConfigPublished, Saving
  <2>2. CASE w = "settings"
    BY <1>1, <2>1, <2>2 DEF Undisturbed, Turns, Saving, Committing
  <2>3. CASE w # "settings"
    <3>1. w \in Providers
      BY <2>3 DEF Savers
    <3> QED
      BY <1>1, <2>1, <2>3, <3>1 DEF Undisturbed, Turns, Saving, Committing
  <2> QED
    BY <2>2, <2>3
<1>6. ASSUME NEW w \in Savers, SaveFails(w) PROVE Undisturbed'
  BY <1>1, <1>6, FailsEffect DEF SaveFails, SaveEnded, Undisturbed, Turns, Saving, Committing
<1>7. ASSUME NEW p \in Profiles, SwitchProfile(p) PROVE Undisturbed'
  BY <1>1, <1>7 DEF SwitchProfile, Undisturbed, Turns, Saving, Committing
<1>8. ASSUME NEW p \in Profiles, NEW q \in Providers, UpsertProfile(q, p) PROVE Undisturbed'
  BY <1>1, <1>8, UpsertEffect DEF UpsertProfile, Begun, Undisturbed, Turns, Saving, Committing
<1>9. ASSUME NEW p \in Profiles, NEW q \in Providers, DeleteProfile(q, p) PROVE Undisturbed'
  BY <1>1, <1>9, DeleteEffect DEF DeleteProfile, Begun, Undisturbed, Turns, Saving, Committing
<1>10. ASSUME NEW r \in Roots, Enroll(r) PROVE Undisturbed'
  BY <1>1, <1>10, EnrollEffect DEF Enroll, Undisturbed, Turns, Saving, Committing
<1>11. CASE RequestSwitch
  BY <1>1, <1>11 DEF RequestSwitch, Undisturbed, Turns, Saving, Committing
<1>12. CASE SwitchTurn
  BY <1>1, <1>12 DEF SwitchTurn, Waiting, Undisturbed, Turns, Saving, Committing
<1>13. CASE SwitchEnds
  BY <1>1, <1>13 DEF SwitchEnds, Waiting, Undisturbed, Turns, Saving, Committing
<1>14. CASE EnrollmentPrepared
  BY <1>1, <1>14, PreparedEffect DEF EnrollmentPrepared, Enrollment, Undisturbed, Turns,
       Saving, Committing
<1>15. CASE BaseRetired
  BY <1>1, <1>15, RetiredEffect DEF BaseRetired, Enrollment, Undisturbed, Turns, Saving,
       Committing
<1>16. CASE Persisted
  BY <1>1, <1>16, PersistedEffect DEF Persisted, Enrollment, Undisturbed, Turns, Saving,
       Committing
<1>17. CASE EnrollmentRecovered
  BY <1>1, <1>17, RecoveredEffect DEF EnrollmentRecovered, Enrollment, Undisturbed, Turns,
       Saving, Committing
<1> QED
  BY <1>2, <1>3, <1>4, <1>5, <1>6, <1>7, <1>8, <1>9, <1>10, <1>11, <1>12, <1>13, <1>14, <1>15,
       <1>16, <1>17 DEF ConfigNext

\* ... the runtime is that of the settings ...
LEMMA CurrentKept ==
  ASSUME ConfigInv, ConfigNext
  PROVE  Current'
<1>1. /\ ConfigTypeOK /\ Defaults /\ Turns /\ Named(memory) /\ Undisturbed /\ Current
      /\ "settings" \in Savers /\ "settings" \notin Providers
      /\ \A q \in Providers : q \in Savers /\ q # "settings"
  BY ConfigTypes DEF ConfigInv, Defaults
<1>2. ASSUME NEW w \in Savers, Look(w) PROVE Current'
  BY <1>1, <1>2, LookEffect DEF Look, Undisturbed, Current, Turns, Saving, Committing, Waiting
<1>3. ASSUME NEW w \in Savers, Compare(w) PROVE Current'
  BY <1>1, <1>3, CompareEffect DEF Compare, SaveStep, Undisturbed, Current, Turns, Saving,
       Committing, Waiting
<1>4. ASSUME NEW w \in Savers, RenameConfig(w) PROVE Current'
  BY <1>1, <1>4, RenameEffect DEF RenameConfig, Undisturbed, Current, Turns, Saving,
       Committing, Waiting
<1>5. ASSUME NEW w \in Savers, PublishConfig(w) PROVE Current'
  <2>1. /\ memory' = saving[w].config /\ Saving(w) /\ saving[w].stage = "renamed"
        /\ saving'[w].stage = "done" /\ saving'[w].config = saving[w].config
        /\ \A v \in Savers \ {w} : saving'[v] = saving[v]
        /\ UNCHANGED <<enrollment, switch, runtime, overlap>>
        /\ kept' = IF w = "settings" THEN kept
                   ELSE IF saving[w].name \in saving[w].config.profiles
                     THEN kept \union {saving[w].name} ELSE kept \ {saving[w].name}
    BY <1>1, <1>5, PublishEffect DEF PublishConfig, ConfigPublished, Saving
  <2>2. CASE w = "settings"
    BY <1>1, <2>1, <2>2 DEF Undisturbed, Current, Turns, Saving, Committing, Waiting
  <2>3. CASE w # "settings"
    <3>1. w \in Providers
      BY <2>3 DEF Savers
    <3>2. overlap \intersect {"enrollment", "switch"} = {} => memory'.settings = memory.settings
      BY <1>1, <2>1, <3>1 DEF Undisturbed
    <3> QED
      BY <1>1, <2>1, <2>3, <3>1, <3>2 DEF Current, Waiting
  <2> QED
    BY <2>2, <2>3
<1>6. ASSUME NEW w \in Savers, SaveFails(w) PROVE Current'
  BY <1>1, <1>6, FailsEffect DEF SaveFails, SaveEnded, Undisturbed, Current, Turns, Saving,
       Committing, Waiting
<1>7. ASSUME NEW p \in Profiles, SwitchProfile(p) PROVE Current'
  BY <1>1, <1>7 DEF SwitchProfile, Undisturbed, Current, Turns, Saving, Committing, Waiting
<1>8. ASSUME NEW p \in Profiles, NEW q \in Providers, UpsertProfile(q, p) PROVE Current'
  BY <1>1, <1>8, UpsertEffect DEF UpsertProfile, Begun, Undisturbed, Current, Turns, Saving,
       Committing, Waiting
<1>9. ASSUME NEW p \in Profiles, NEW q \in Providers, DeleteProfile(q, p) PROVE Current'
  BY <1>1, <1>9, DeleteEffect DEF DeleteProfile, Begun, Undisturbed, Current, Turns, Saving,
       Committing, Waiting
<1>10. ASSUME NEW r \in Roots, Enroll(r) PROVE Current'
  BY <1>1, <1>10, EnrollEffect DEF Enroll, Undisturbed, Current, Turns, Saving, Committing,
       Waiting
<1>11. CASE RequestSwitch
  BY <1>1, <1>11 DEF RequestSwitch, Undisturbed, Current, Turns, Saving, Committing, Waiting
<1>12. CASE SwitchTurn
  BY <1>1, <1>12 DEF SwitchTurn, Waiting, Undisturbed, Current, Turns, Saving, Committing
<1>13. CASE SwitchEnds
  BY <1>1, <1>13 DEF SwitchEnds, Waiting, Undisturbed, Current, Turns, Saving, Committing
<1>14. CASE EnrollmentPrepared
  BY <1>1, <1>14, PreparedEffect DEF EnrollmentPrepared, Enrollment, Undisturbed, Current,
       Turns, Saving, Committing, Waiting
<1>15. CASE BaseRetired
  BY <1>1, <1>15, RetiredEffect DEF BaseRetired, Enrollment, Undisturbed, Current, Turns,
       Saving, Committing, Waiting
<1>16. CASE Persisted
  BY <1>1, <1>16, PersistedEffect DEF Persisted, Enrollment, Undisturbed, Current, Turns,
       Saving, Committing, Waiting
<1>17. CASE EnrollmentRecovered
  BY <1>1, <1>17, RecoveredEffect DEF EnrollmentRecovered, Enrollment, Undisturbed, Current,
       Turns, Saving, Committing, Waiting
<1> QED
  BY <1>2, <1>3, <1>4, <1>5, <1>6, <1>7, <1>8, <1>9, <1>10, <1>11, <1>12, <1>13, <1>14, <1>15,
       <1>16, <1>17 DEF ConfigNext

\* ... and what was stored is there.
LEMMA StoredKept ==
  ASSUME ConfigInv, ConfigNext
  PROVE  Stored'
<1>1. /\ ConfigTypeOK /\ Defaults /\ Turns /\ Named(memory) /\ Undisturbed /\ Stored
      /\ "settings" \in Savers /\ "settings" \notin Providers
      /\ \A q \in Providers : q \in Savers /\ q # "settings"
  BY ConfigTypes DEF ConfigInv, Defaults
<1>2. ASSUME NEW w \in Savers, Look(w) PROVE Stored'
  <2>1. /\ \A v \in Savers : /\ (Saving(v)' <=> Saving(v))
                            /\ saving'[v].config = saving[v].config
                            /\ saving'[v].name = saving[v].name
        /\ \A v \in Savers : saving'[v].stage = "done" <=> saving[v].stage = "done"
        /\ UNCHANGED <<memory, enrollment, switch, runtime, kept, overlap>>
    <3>1. saving[w].stage = "looking"
      BY <1>2 DEF Look
    <3>2. \A v \in Savers \ {w} : saving'[v] = saving[v]
      BY <1>1, <1>2, LookEffect
    <3>3. /\ saving'[w].stage = "looked" /\ saving'[w].config = saving[w].config
          /\ saving'[w].name = saving[w].name
      BY <1>1, <1>2, LookEffect
    <3>4. UNCHANGED <<memory, enrollment, switch, runtime, kept, overlap>>
      BY <1>2 DEF Look
    <3> QED
      BY <3>1, <3>2, <3>3, <3>4 DEF Saving
  <2> QED
    BY <1>1, <2>1 DEF Stored, Turns, Saving, Committing
<1>3. ASSUME NEW w \in Savers, Compare(w) PROVE Stored'
  BY <1>1, <1>3, CompareEffect DEF Compare, SaveStep, Undisturbed, Stored, Turns, Saving,
       Committing
<1>4. ASSUME NEW w \in Savers, RenameConfig(w) PROVE Stored'
  <2>1. /\ \A v \in Savers : /\ (Saving(v)' <=> Saving(v))
                            /\ saving'[v].config = saving[v].config
                            /\ saving'[v].name = saving[v].name
        /\ \A v \in Savers : saving'[v].stage = "done" <=> saving[v].stage = "done"
        /\ UNCHANGED <<memory, enrollment, switch, runtime, kept, overlap>>
    <3>1. saving[w].stage = "checked"
      BY <1>4 DEF RenameConfig
    <3>2. \A v \in Savers \ {w} : saving'[v] = saving[v]
      BY <1>1, <1>4, RenameEffect
    <3>3. /\ saving'[w].stage = "renamed" /\ saving'[w].config = saving[w].config
          /\ saving'[w].name = saving[w].name
      BY <1>1, <1>4, RenameEffect
    <3>4. UNCHANGED <<memory, enrollment, switch, runtime, kept, overlap>>
      BY <1>4 DEF RenameConfig
    <3> QED
      BY <3>1, <3>2, <3>3, <3>4 DEF Saving
  <2> QED
    BY <1>1, <2>1 DEF Stored, Turns, Saving, Committing
<1>5. ASSUME NEW w \in Savers, PublishConfig(w) PROVE Stored'
  <2>1. /\ memory' = saving[w].config /\ Saving(w) /\ saving[w].stage = "renamed"
        /\ saving'[w].stage = "done" /\ saving'[w].config = saving[w].config
        /\ \A v \in Savers \ {w} : saving'[v] = saving[v]
        /\ UNCHANGED <<enrollment, switch, runtime, overlap>>
        /\ kept' = IF w = "settings" THEN kept
                   ELSE IF saving[w].name \in saving[w].config.profiles
                     THEN kept \union {saving[w].name} ELSE kept \ {saving[w].name}
    BY <1>1, <1>5, PublishEffect DEF PublishConfig, ConfigPublished, Saving
  <2>2. CASE w = "settings"
    <3>1. enrollment.stage \in {"persisting", "restoring"}
      BY <1>1, <2>1, <2>2 DEF Turns
    <3>2. "enrollment" \notin overlap =>
            memory'.profiles = memory.profiles /\ \A q \in Providers : ~Saving(q)
      BY <1>1, <2>1, <2>2, <3>1 DEF Undisturbed, Turns, Committing, Saving
    <3> QED
      BY <1>1, <2>1, <2>2, <3>2 DEF Stored, Saving
  <2>3. CASE w # "settings"
    <3>1. w \in Providers
      BY <2>3 DEF Savers
    <3>2. overlap \intersect {"enrollment", "providers"} = {} =>
            \A q \in Providers : ~Saving(q)'
      BY <1>1, <2>1, <3>1 DEF Stored, Saving
    <3>3. overlap \intersect {"enrollment", "providers"} = {} =>
            kept' \subseteq memory'.profiles
      BY <1>1, <2>1, <3>1 DEF Stored
    <3> QED
      BY <2>1, <3>2, <3>3 DEF Stored
  <2> QED
    BY <2>2, <2>3
<1>6. ASSUME NEW w \in Savers, SaveFails(w) PROVE Stored'
  BY <1>1, <1>6, FailsEffect DEF SaveFails, SaveEnded, Undisturbed, Stored, Turns, Saving,
       Committing
<1>7. ASSUME NEW p \in Profiles, SwitchProfile(p) PROVE Stored'
  BY <1>1, <1>7 DEF SwitchProfile, Undisturbed, Stored, Turns, Saving, Committing
<1>8. ASSUME NEW p \in Profiles, NEW q \in Providers, UpsertProfile(q, p) PROVE Stored'
  BY <1>1, <1>8, UpsertEffect DEF UpsertProfile, Begun, Undisturbed, Stored, Turns, Saving,
       Committing
<1>9. ASSUME NEW p \in Profiles, NEW q \in Providers, DeleteProfile(q, p) PROVE Stored'
  BY <1>1, <1>9, DeleteEffect DEF DeleteProfile, Begun, Undisturbed, Stored, Turns, Saving,
       Committing
<1>10. ASSUME NEW r \in Roots, Enroll(r) PROVE Stored'
  BY <1>1, <1>10, EnrollEffect DEF Enroll, Undisturbed, Stored, Turns, Saving, Committing
<1>11. CASE RequestSwitch
  BY <1>1, <1>11 DEF RequestSwitch, Undisturbed, Stored, Turns, Saving, Committing
<1>12. CASE SwitchTurn
  BY <1>1, <1>12 DEF SwitchTurn, Waiting, Undisturbed, Stored, Turns, Saving, Committing
<1>13. CASE SwitchEnds
  BY <1>1, <1>13 DEF SwitchEnds, Waiting, Undisturbed, Stored, Turns, Saving, Committing
<1>14. CASE EnrollmentPrepared
  BY <1>1, <1>14, PreparedEffect DEF EnrollmentPrepared, Enrollment, Undisturbed, Stored,
       Turns, Saving, Committing
<1>15. CASE BaseRetired
  BY <1>1, <1>15, RetiredEffect DEF BaseRetired, Enrollment, Undisturbed, Stored, Turns,
       Saving, Committing
<1>16. CASE Persisted
  BY <1>1, <1>16, PersistedEffect DEF Persisted, Enrollment, Undisturbed, Stored, Turns,
       Saving, Committing
<1>17. CASE EnrollmentRecovered
  BY <1>1, <1>17, RecoveredEffect DEF EnrollmentRecovered, Enrollment, Undisturbed, Stored,
       Turns, Saving, Committing
<1> QED
  BY <1>2, <1>3, <1>4, <1>5, <1>6, <1>7, <1>8, <1>9, <1>10, <1>11, <1>12, <1>13, <1>14, <1>15,
       <1>16, <1>17 DEF ConfigNext

\* Every step keeps the types.
LEMMA ConfigTypesKept ==
  ASSUME ConfigInv, ConfigNext
  PROVE  ConfigTypeOK'
<1> DEFINE Goal == /\ configFile' \in [config : Configs, version : Nat]
                   /\ memory' \in Configs /\ currentProfile' \in Profiles
                   /\ saving' \in [Savers -> SaverRecord] /\ enrollment' \in EnrollmentRecord
                   /\ switch' \in {NoSwitch} \union (Roots \X {"waiting"})
                                 \union (Roots \X Roots)
                   /\ runtime' \in Runtimes /\ kept' \subseteq Profiles
                   /\ overlap' \subseteq {"providers", "enrollment", "switch", "torn"}
<1> SUFFICES Goal
  BY DEF ConfigTypeOK, SaverRecord, EnrollmentRecord
<1>1. /\ ConfigTypeOK /\ Named(memory)
      /\ configFile \in [config : Configs, version : Nat] /\ memory \in Configs
      /\ currentProfile \in Profiles /\ enrollment \in EnrollmentRecord
      /\ saving \in [Savers -> SaverRecord] /\ memory.settings \in Roots
      /\ switch \in {NoSwitch} \union (Roots \X {"waiting"}) \union (Roots \X Roots)
      /\ runtime \in Runtimes /\ kept \subseteq Profiles
      /\ overlap \subseteq {"providers", "enrollment", "switch", "torn"}
      /\ \A w \in Savers : /\ saving[w].config \in Configs /\ saving[w].name \in Profiles
                           /\ saving[w].config.default \in Profiles
      /\ \A q \in Providers : q \in Savers
      /\ \A cfg \in {enrollment.next, enrollment.base} :
           cfg \in Configs /\ cfg.settings \in Roots
      /\ switch # NoSwitch /\ ~Waiting => switch \in Roots \X Roots
      /\ switch # NoSwitch => switch[1] \in Roots
  BY ConfigTypes, ConfigParts DEF ConfigInv, Defaults, ConfigTypeOK, EnrollmentRecord
<1>2. ASSUME NEW w \in Savers, Look(w) PROVE Goal
  BY <1>1, <1>2, LookEffect DEF Look, Runtimes, NoRuntime, NoSwitch
<1>3. ASSUME NEW w \in Savers, Compare(w) PROVE Goal
  BY <1>1, <1>3, CompareEffect DEF Compare, SaveStep, Runtimes, NoRuntime, NoSwitch
<1>4. ASSUME NEW w \in Savers, RenameConfig(w) PROVE Goal
  <2>1. configFile' \in [config : Configs, version : Nat]
    BY <1>1, <1>4 DEF RenameConfig
  <2> QED
    BY <1>1, <1>4, <2>1, RenameEffect DEF RenameConfig
<1>5. ASSUME NEW w \in Savers, PublishConfig(w) PROVE Goal
  <2>1. /\ memory' = saving[w].config /\ Saving(w) /\ saving[w].stage = "renamed"
        /\ saving'[w].stage = "done" /\ saving'[w].config = saving[w].config
        /\ \A v \in Savers \ {w} : saving'[v] = saving[v]
        /\ UNCHANGED <<enrollment, switch, runtime, overlap>>
        /\ kept' = IF w = "settings" THEN kept
                   ELSE IF saving[w].name \in saving[w].config.profiles
                     THEN kept \union {saving[w].name} ELSE kept \ {saving[w].name}
    BY <1>1, <1>5, PublishEffect DEF PublishConfig, ConfigPublished, Saving
  <2>2. saving' \in [Savers -> SaverRecord] /\ UNCHANGED configFile
    BY <1>1, <1>5, PublishEffect DEF PublishConfig, ConfigPublished
  <2>3. currentProfile' \in {currentProfile, saving[w].config.default}
    BY <1>5 DEF PublishConfig, ConfigPublished
  <2> QED
    BY <1>1, <2>1, <2>2, <2>3
<1>6. ASSUME NEW w \in Savers, SaveFails(w) PROVE Goal
  BY <1>1, <1>6, FailsEffect DEF SaveFails, SaveEnded, Runtimes, NoRuntime, NoSwitch
<1>7. ASSUME NEW p \in Profiles, SwitchProfile(p) PROVE Goal
  BY <1>1, <1>7 DEF SwitchProfile, Runtimes, NoRuntime, NoSwitch
<1>8. ASSUME NEW p \in Profiles, NEW q \in Providers, UpsertProfile(q, p) PROVE Goal
  BY <1>1, <1>8, UpsertEffect DEF UpsertProfile, Begun, Runtimes, NoRuntime, NoSwitch
<1>9. ASSUME NEW p \in Profiles, NEW q \in Providers, DeleteProfile(q, p) PROVE Goal
  BY <1>1, <1>9, DeleteEffect DEF DeleteProfile, Begun, Runtimes, NoRuntime, NoSwitch
<1>10. ASSUME NEW r \in Roots, Enroll(r) PROVE Goal
  BY <1>1, <1>10, EnrollEffect DEF Enroll, Runtimes, NoRuntime, NoSwitch
<1>11. CASE RequestSwitch
  BY <1>1, <1>11 DEF RequestSwitch, Runtimes, NoRuntime, NoSwitch
<1>12. CASE SwitchTurn
  BY <1>1, <1>12 DEF SwitchTurn, Waiting, Runtimes, NoRuntime, NoSwitch
<1>13. CASE SwitchEnds
  BY <1>1, <1>13 DEF SwitchEnds, Waiting, Runtimes, NoRuntime, NoSwitch
<1>14. CASE EnrollmentPrepared
  BY <1>1, <1>14, PreparedEffect DEF EnrollmentPrepared, Enrollment, Runtimes, NoRuntime,
       NoSwitch
<1>15. CASE BaseRetired
  BY <1>1, <1>15, RetiredEffect DEF BaseRetired, Enrollment, Runtimes, NoRuntime, NoSwitch
<1>16. CASE Persisted
  BY <1>1, <1>16, PersistedEffect DEF Persisted, Enrollment, Runtimes, NoRuntime, NoSwitch
<1>17. CASE EnrollmentRecovered
  BY <1>1, <1>17, RecoveredEffect DEF EnrollmentRecovered, Enrollment, Runtimes, NoRuntime,
       NoSwitch
<1> QED
  BY <1>2, <1>3, <1>4, <1>5, <1>6, <1>7, <1>8, <1>9, <1>10, <1>11, <1>12, <1>13, <1>14, <1>15,
       <1>16, <1>17 DEF ConfigNext

\* At first nothing is being written, and the file, memory and the runtime are the same.
LEMMA ConfigStarts == ConfigInit => ConfigInv
<1> SUFFICES ASSUME ConfigInit PROVE ConfigInv
  OBVIOUS
<1> DEFINE Initial(p, r) == [profiles |-> {p}, default |-> p, settings |-> r]
<1>1. PICK p \in Profiles, r \in Roots :
        /\ configFile = [config |-> Initial(p, r), version |-> 0]
        /\ memory = Initial(p, r) /\ currentProfile = p
        /\ saving = [w \in Savers |->
             [stage |-> "idle", config |-> Initial(p, r), seen |-> 0, name |-> p]]
        /\ enrollment = [stage |-> "idle", base |-> Initial(p, r), count |-> 0,
                         next |-> Initial(p, r)]
        /\ switch = NoSwitch /\ runtime = <<r, r>> /\ kept = {} /\ overlap = {}
  BY DEF ConfigInit
<1>2. /\ Initial(p, r) \in Configs /\ Initial(p, r).default = p /\ Initial(p, r).profiles = {p}
      /\ Initial(p, r).settings = r
  BY DEF Configs
<1>3. \A w \in Savers : ~Saving(w)
  BY <1>1 DEF Saving
<1>4. "settings" \in Savers /\ \A q \in Providers : q \in Savers
  BY DEF Savers
<1> HIDE DEF Initial
<1>5. ConfigTypeOK
  <2>1. [stage |-> "idle", config |-> Initial(p, r), seen |-> 0, name |-> p] \in SaverRecord
    BY <1>2 DEF SaverRecord
  <2>2. saving \in [Savers -> SaverRecord]
    BY <1>1, <2>1
  <2>3. enrollment \in EnrollmentRecord
    BY <1>1, <1>2 DEF EnrollmentRecord
  <2>4. configFile \in [config : Configs, version : Nat] /\ memory \in Configs
    BY <1>1, <1>2
  <2> QED
    BY <1>1, <2>2, <2>3, <2>4 DEF ConfigTypeOK, SaverRecord, EnrollmentRecord, Runtimes
<1>6. Defaults /\ Turns
  BY <1>1, <1>2, <1>3, <1>4 DEF Defaults, Named, Turns
<1>7. Replaced
  BY <1>1, <1>3 DEF Replaced, Saving
<1>8. Undisturbed /\ Stored
  BY <1>1, <1>3, <1>4 DEF Undisturbed, Stored, Committing
<1>9. Current
  BY <1>1, <1>2 DEF Current, Waiting
<1> QED
  BY <1>5, <1>6, <1>7, <1>8, <1>9 DEF ConfigInv

\* The invariant of the configuration.
LEMMA ConfigInvariance == ConfigSpec => []ConfigInv
<1>1. ConfigInit => ConfigInv
  BY ConfigStarts
<1>2. ConfigInv /\ [ConfigNext]_configVars => ConfigInv'
  <2>1. CASE ConfigInv /\ ConfigNext
    BY <2>1, ConfigTypesKept, DefaultsKept, ReplacedKept, TurnsKept, UndisturbedKept,
       CurrentKept, StoredKept DEF ConfigInv
  <2>2. CASE ConfigInv /\ UNCHANGED configVars
    BY <2>2
       DEF configVars, ConfigInv, ConfigTypeOK, Defaults, Replaced, Turns, Undisturbed, Current,
           Stored, Saving, Committing, Waiting
  <2> QED
    BY <2>1, <2>2
<1> QED
  BY <1>1, <1>2, PTL DEF ConfigSpec

\* The file, memory, the writes, the enrollment and the runtime have their types.
THEOREM ConfigTypeCorrect == ConfigSpec => []ConfigTypeOK
<1>1. ConfigInv => ConfigTypeOK
  BY DEF ConfigInv
<1> QED
  BY <1>1, ConfigInvariance, PTL

\* For any number of providers, profiles, settings and enrollments: when nobody changes the
\* configuration, memory is what the file holds, and the runtime is that of the settings
\* (saveConfig, executeSettingsEnrollment).
THEOREM ConfigurationAgreesHolds == ConfigSpec => []ConfigurationAgrees
<1>1. ConfigInv => ConfigurationAgrees
  BY DEF ConfigInv, ConfigurationAgrees, AtRest, Defaults, Replaced, Current, Stored, Saving
<1> QED
  BY <1>1, ConfigInvariance, PTL
-----------------------------------------------------------------------------
(* The services in one instance.                                           *)

Parts ==
  {"execution", "host", "reads", "writes", "watches", "journal", "scheduler", "config"}

LEMMA PartsStart ==
  ASSUME Init
  PROVE  /\ part \in Parts
         /\ ExecInit /\ HostInit /\ ReadInit /\ WriteInit /\ WatchInit /\ AclInit /\ CronInit
         /\ ConfigInit
  BY DEF Init, Parts

LEMMA PartsStep ==
  ASSUME [Next]_vars
  PROVE  /\ part' = part
         /\ [ExecNext]_execVars /\ [HostNext]_hostVars /\ [ReadNext]_readVars
         /\ [WriteNext]_writeVars /\ [WatchNext]_watchVars /\ [AclNext]_aclVars
         /\ [CronNext]_cronVars /\ [ConfigNext]_configVars
  BY DEF Next, vars

\* The services share no state: in one instance, each behaves as it does alone, so that
\* what is proved of a service alone holds of it beside the others (execution-runtime.ts,
\* sandbox-host.cpp, journal.h, path-policy.ts, wire.ts, cron.ts, config.ts).
THEOREM ServicesApart ==
  Spec => /\ ExecSpec /\ HostSpec /\ ReadSpec /\ WriteSpec /\ WatchSpec /\ AclSpec /\ CronSpec
          /\ ConfigSpec
  BY PartsStart, PartsStep, PTL
     DEF Spec, ExecSpec, HostSpec, ReadSpec, WriteSpec, WatchSpec, AclSpec, CronSpec, ConfigSpec

\* What the services promise, they promise beside one another: no process is unattended and
\* no completion untrue, a program runs where it was validated to, what a failed write left
\* is rolled back or an unsaved temporary file, watchers end, entries are accounted for, the
\* configuration agrees, nothing is begun behind a revocation, and a job whose delay fits a
\* timer fires once (execution-runtime.ts, sandbox-host.cpp, journal.h, path-policy.ts,
\* wire.ts, cron.ts, config.ts).
THEOREM ServicesKeepPromises ==
  Spec => /\ []NoProcessUnattended /\ []SupervisedRun /\ []CompletionTruthful
          /\ []RunsWhereValidated /\ NothingBehindRevocation /\ []ConservativeRollback
          /\ []WatchersEnd /\ []AceAccounted /\ []ConfigurationAgrees
          /\ (DelaysFit => FiresOnce)
<1>1. Spec => (DelaysFit => FiresOnce)
  <2> SUFFICES ASSUME DelaysFit PROVE Spec => FiresOnce
    OBVIOUS
  <2>1. CronSpec => FiresOnce
    BY FiresOnceHolds
  <2> QED
    BY <2>1, ServicesApart, PTL
<1> QED
  BY <1>1, ServicesApart, NoProcessUnattendedHolds, SupervisedRunHolds, CompletionTruthfulHolds,
     RunsWhereValidatedHolds, NothingBehindRevocationHolds, ConservativeRollbackHolds,
     WatchersEndHolds, AceAccountedHolds, ConfigurationAgreesHolds, PTL

\* The part that moves keeps the types of its variables, whatever the others start with
\* (execution-runtime.ts, sandbox-host.cpp, journal.h, path-policy.ts, wire.ts, cron.ts,
\* config.ts).
THEOREM ServicesTypeOKHolds == Spec => []ServicesTypeOK
<1> DEFINE Typed ==
      /\ ExecTypeOK /\ HostTypeOK /\ ReadTypeOK /\ WriteTypeOK /\ WatchTypeOK /\ AclTypeOK
      /\ CronTypeOK /\ ConfigTypeOK
<1>1. Spec => [](part \in Parts)
  <2>1. Init => part \in Parts
    BY PartsStart
  <2>2. part \in Parts /\ [Next]_vars => (part \in Parts)'
    BY PartsStep
  <2> QED
    BY <2>1, <2>2, PTL DEF Spec
<1>2. Spec => []Typed
  BY ServicesApart, ExecTypeCorrect, HostTypeCorrect, ReadTypeCorrect, WriteTypeCorrect,
     WatchTypeCorrect, AclTypeCorrect, CronTypeCorrect, ConfigTypeCorrect, PTL
<1>3. part \in Parts /\ Typed => ServicesTypeOK
  BY DEF Parts, ServicesTypeOK
<1> HIDE DEF Typed
<1> QED
  BY <1>1, <1>2, <1>3, PTL
=============================================================================
