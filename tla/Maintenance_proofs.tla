-------------------------- MODULE Maintenance_proofs --------------------------
(***************************************************************************)
(* The deletion of old webhook events is harmless: for any jobs, passes,   *)
(* failures and restarts, as long as rows are kept for the time in which   *)
(* Stripe may deliver their events.                                        *)
(***************************************************************************)
EXTENDS Maintenance, TLAPS

Ages == [age : Nat, row_age : Nat \cup {Never}, applied : Nat]

\* A row is no older than its event, as far as that matters; and as long as the
\* event may come, the handler has run once if and only if the row is there.
RowGuards ==
  /\ event \in Ages
  /\ event.applied <= 1
  /\ event.age <= Resend =>
       IF event.row_age = Never THEN event.applied = 0
       ELSE event.applied = 1 /\ event.row_age <= event.age

LEMMA TickGuards == ASSUME RowGuards, Tick PROVE RowGuards'
<1> DEFINE age1 == SmallerOf(event.age + 1, Resend + 1)
           row_age1 == IF event.row_age = Never THEN Never
                       ELSE SmallerOf(event.row_age + 1, Retention + 1)
<1>1. event' = [[event EXCEPT !.age = age1] EXCEPT !.row_age = row_age1]
  BY DEF Tick
<1>2. /\ event \in Ages /\ event.age \in Nat /\ event.row_age \in Nat \cup {Never}
      /\ Resend \in Nat /\ Retention \in Nat
  BY DaysAreNat DEF RowGuards, Ages
<1>3. age1 \in Nat /\ (age1 <= Resend => age1 = event.age + 1 /\ event.age <= Resend)
  BY <1>2 DEF SmallerOf
<1>4. /\ row_age1 \in Nat \cup {Never}
      /\ row_age1 = Never <=> event.row_age = Never
      /\ event.row_age # Never => row_age1 <= event.row_age + 1
  BY <1>2, NeverIsNoAge DEF SmallerOf
<1> HIDE DEF age1, row_age1
<1>5. [event EXCEPT !.age = age1] \in Ages
  BY <1>2, <1>3 DEF Ages
<1>6. /\ event' \in Ages
      /\ event'.age = age1 /\ event'.row_age = row_age1 /\ event'.applied = event.applied
  BY <1>1, <1>2, <1>4, <1>5 DEF Ages
<1>7. ASSUME age1 <= Resend
      PROVE  IF row_age1 = Never THEN event.applied = 0
             ELSE event.applied = 1 /\ row_age1 <= age1
  BY <1>2, <1>3, <1>4, <1>7 DEF RowGuards
<1> QED
  BY <1>6, <1>7 DEF RowGuards

\* A row that is old enough to be deleted belongs to an event that is too old to come.
LEMMA CleansUpGuards ==
  ASSUME RowGuards, Resend <= Retention, CleansUp
  PROVE  RowGuards'
<1>1. CASE event' = event
  BY <1>1 DEF RowGuards, Ages
<1>2. CASE /\ Old(event.row_age)
           /\ event' = [event EXCEPT !.row_age = Never]
  <2>1. /\ event.age \in Nat /\ event.row_age \in Nat /\ event.applied \in Nat
        /\ event.row_age > Retention
        /\ Resend \in Nat /\ Retention \in Nat
    BY <1>2, DaysAreNat DEF RowGuards, Ages, Old
  <2>2. event.age > Resend
    BY <2>1, NeverIsNoAge DEF RowGuards
  <2>3. /\ event' \in Ages
        /\ event'.age = event.age /\ event'.applied = event.applied
    BY <1>2 DEF RowGuards, Ages
  <2> QED
    BY <2>1, <2>2, <2>3 DEF RowGuards
<1> QED
  BY <1>1, <1>2 DEF CleansUp

LEMMA DeliveryGuards == ASSUME RowGuards, DeliverEvent PROVE RowGuards'
<1>1. event.applied = 0 /\ event.age \in Nat
  BY DEF RowGuards, DeliverEvent, Ages
<1>2. event' = [[event EXCEPT !.row_age = 0] EXCEPT !.applied = 1]
  BY <1>1 DEF DeliverEvent
<1>3. [event EXCEPT !.row_age = 0] \in Ages
  BY DEF RowGuards, Ages
<1>4. /\ event' \in Ages
      /\ event'.age = event.age /\ event'.row_age = 0 /\ event'.applied = 1
  BY <1>2, <1>3 DEF Ages
<1> QED
  BY <1>1, <1>4, NeverIsNoAge DEF RowGuards

LEMMA RowGuardsInit == MaintenanceInit => RowGuards
BY NeverIsNoAge DEF MaintenanceInit, NewEvent, RowGuards, Ages

LEMMA RowGuardsNext ==
  ASSUME RowGuards, Resend <= Retention, [MaintenanceNext]_allVars
  PROVE  RowGuards'
<1>1. CASE event' = event
  BY <1>1 DEF RowGuards, Ages
<1>2. CASE Tick
  BY <1>2, TickGuards
<1>3. CASE CleansUp
  BY <1>3, CleansUpGuards
<1>4. CASE Check \/ Reconciles \/ ReconciliationRaises \/ CleanupRaises \/ Wake
           \/ Crash \/ Reboot
  BY <1>4, <1>1
  DEF Check, Reconciles, ReconciliationRaises, CleanupRaises, Wake, Crash, Reboot,
      maintenanceVars
<1>5. CASE DeliverEvent
  BY <1>5, DeliveryGuards
<1>6. CASE EmitEvent
  <2>1. event' = NewEvent
    BY <1>6 DEF EmitEvent
  <2> QED
    BY <2>1, NeverIsNoAge DEF NewEvent, RowGuards, Ages
<1>7. CASE UNCHANGED allVars
  BY <1>7, <1>1 DEF allVars, maintenanceVars
<1> QED
  BY <1>2, <1>3, <1>4, <1>5, <1>6, <1>7 DEF MaintenanceNext, JobEnds

\* For every schedule of the jobs, failures and restarts: the handler of an event
\* runs once, since its row outlives the deliveries.
THEOREM AppliedOnce == Resend <= Retention /\ MaintenanceSpec => []AppliedOnceForGood
<1> SUFFICES ASSUME Resend <= Retention
             PROVE  MaintenanceSpec => []AppliedOnceForGood
  OBVIOUS
<1>1. RowGuards => AppliedOnceForGood
  BY DEF RowGuards, AppliedOnceForGood
<1> QED
  BY <1>1, RowGuardsInit, RowGuardsNext, PTL DEF MaintenanceSpec
-------------------------------------------------------------------------------
(***************************************************************************)
(* Types.  A job that reconciles the day before yesterday began before the *)
(* last midnight, and a pass is no longer than a day.                      *)
(***************************************************************************)
BegunBefore == /\ target \in {1, 2}
               /\ target = 2 => /\ pc = "running" /\ Job = "reconciliation"
                                /\ time_of_day < pass_age
               /\ pc \in {"sleeping", "down"} => pass_age = 0 /\ next = 1
               /\ pc = "down" => restarts < MaxRestarts

Typed == MaintenanceTypeOK /\ BegunBefore

LEMMA JobsTyped ==
  /\ DOMAIN Jobs = 1 .. Len(Jobs) /\ Len(Jobs) \in Nat \ {0}
  /\ \A i \in DOMAIN Jobs : Jobs[i] \in JobNames
  /\ MaxAge \in Nat /\ MaxPass <= MaxAge
BY JobsAreListed, TicksAreNat DEF JobNames, MaxAge

\* The loop goes on to a job or to sleep, whatever it did.
LEMMA AdvanceTyped ==
  ASSUME Typed, pc \notin {"sleeping", "down"}, Advance, UNCHANGED <<slept, restarts, time_of_day>>,
         age' \in [JobNames -> 0 .. MaxAge \cup {Never}], target' = 1
  PROVE  SchedulerTypeOK' /\ BegunBefore'
<1>1. CASE next < Len(Jobs)
  BY <1>1, JobsTyped DEF Typed, MaintenanceTypeOK, SchedulerTypeOK, BegunBefore, Advance, Pause
<1>2. CASE ~(next < Len(Jobs))
  BY <1>2, JobsTyped, TicksAreNat
  DEF Typed, MaintenanceTypeOK, SchedulerTypeOK, BegunBefore, Advance, Pause
<1> QED
  BY <1>1, <1>2

LEMMA TickTyped ==
  ASSUME Typed, MaxPass <= Day, Tick
  PROVE  SchedulerTypeOK' /\ BegunBefore' /\ time_of_day' \in 0 .. Day - 1 /\ open' \subseteq Past
<1>1. /\ TimePasses /\ UNCHANGED <<pc, next, restarts>>
      /\ time_of_day \in 0 .. Day - 1 /\ Day \in Nat \ {0} /\ MaxPass \in Nat
  BY DaysAreNat, TicksAreNat DEF Tick, TimePasses, Typed, MaintenanceTypeOK
<1>2. time_of_day' = IF time_of_day = Day - 1 THEN 0 ELSE time_of_day + 1
  BY <1>1 DEF Tick
<1>3. SchedulerTypeOK'
  <2>1. age' \in [JobNames -> 0 .. MaxAge \cup {Never}]
    <3>1. \A j \in JobNames : age[j] \in 0 .. MaxAge \cup {Never}
      BY DEF Typed, MaintenanceTypeOK, SchedulerTypeOK
    <3>2. \A j \in JobNames :
            (IF age[j] \in {Never, MaxAge} THEN age[j] ELSE age[j] + 1)
              \in 0 .. MaxAge \cup {Never}
      BY <3>1, JobsTyped
    <3> QED
      BY <3>2, <1>1 DEF TimePasses
  <2>2. pass_age' \in 0 .. MaxPass /\ slept' \in 0 .. Pause'
    <3>1. Pause' = Pause /\ Pause \in Nat
      BY <1>1, TicksAreNat DEF Pause
    <3> QED
      BY <1>1, <3>1, TicksAreNat DEF TimePasses, Typed, MaintenanceTypeOK, SchedulerTypeOK
  <2> QED
    BY <1>1, <2>1, <2>2 DEF Typed, MaintenanceTypeOK, SchedulerTypeOK
<1>4. BegunBefore'
  <2>1. /\ pass_age \in 0 .. MaxPass
        /\ pc = "running" => pass_age' = pass_age + 1 /\ pass_age < MaxPass
        /\ pc \in {"sleeping", "down"} => pass_age' = pass_age
    BY <1>1 DEF TimePasses, Typed, MaintenanceTypeOK, SchedulerTypeOK
  <2>2. Job' = Job
    BY <1>1 DEF Job
  <2>3. CASE time_of_day = Day - 1
    <3>1. target = 1
      BY <1>1, <2>1, <2>3 DEF Typed, BegunBefore
    <3>2. target' = IF Job = "reconciliation" /\ pc = "running" THEN 2 ELSE 1
      BY <1>2, <2>3, <3>1 DEF Tick
    <3> QED
      BY <1>1, <1>2, <2>1, <2>2, <2>3, <3>2 DEF Typed, BegunBefore
  <2>4. CASE time_of_day # Day - 1
    <3>1. target' = target
      BY <1>1, <1>2, <2>4 DEF Tick
    <3> QED
      BY <1>1, <1>2, <2>1, <2>2, <2>4, <3>1 DEF Typed, BegunBefore
  <2> QED
    BY <2>3, <2>4
<1>5. time_of_day' \in 0 .. Day - 1
  BY <1>1, <1>2
<1>6. open' \subseteq Past
  BY DEF Tick, Past, Typed, MaintenanceTypeOK
<1> QED
  BY <1>3, <1>4, <1>5, <1>6

LEMMA LoopTyped ==
  ASSUME Typed, Check \/ JobEnds \/ Wake \/ Crash \/ Reboot
  PROVE  /\ SchedulerTypeOK' /\ BegunBefore'
         /\ UNCHANGED time_of_day /\ open' \subseteq Past /\ failed' \in 0 .. MaxFailed
<1>1. CASE Check
  <2>1. CASE Due
    BY <1>1, <2>1, JobsTyped
    DEF Check, CheckJob, Typed, MaintenanceTypeOK, SchedulerTypeOK, BegunBefore, Pause
  <2>2. CASE ~Due
    BY <1>1, <2>2, AdvanceTyped
    DEF Check, CheckJob, Typed, MaintenanceTypeOK, SchedulerTypeOK
  <2> QED
    BY <1>1, <2>1, <2>2 DEF Check, Typed, MaintenanceTypeOK
<1>2. CASE JobEnds
  <2>1. /\ pc = "running" /\ Advance /\ UNCHANGED <<slept, restarts, time_of_day>>
        /\ age' \in {age, [age EXCEPT ![Job] = pass_age]}
        /\ open' \subseteq Past /\ failed' \in 0 .. MaxFailed
    BY <1>2, DaysAreNat
    DEF JobEnds, Reconciles, ReconciliationRaises, CleansUp, CleanupRaises, JobCompletes,
        JobRaises, maintenanceVars, Typed, MaintenanceTypeOK, Past
  <2>2. target' = 1
    BY <1>2, DaysAreNat
    DEF JobEnds, Reconciles, ReconciliationRaises, CleansUp, CleanupRaises,
        maintenanceVars, Typed, BegunBefore
  <2>3. age' \in [JobNames -> 0 .. MaxAge \cup {Never}]
    <3>1. age \in [JobNames -> 0 .. MaxAge \cup {Never}] /\ pass_age \in 0 .. MaxAge
      BY TicksAreNat DEF Typed, MaintenanceTypeOK, SchedulerTypeOK, MaxAge
    <3> QED
      BY <2>1, <3>1
  <2>4. pc \notin {"sleeping", "down"} /\ UNCHANGED <<slept, restarts>> /\ target' = 1
    BY <2>1, <2>2
  <2>5. SchedulerTypeOK' /\ BegunBefore'
    BY <2>1, <2>3, <2>4, AdvanceTyped
  <2> QED
    BY <2>1, <2>5
<1>3. CASE Wake
  BY <1>3, TicksAreNat
  DEF Wake, WakeUp, maintenanceVars, Typed, MaintenanceTypeOK, SchedulerTypeOK, BegunBefore,
      Pause
<1>4. CASE Crash
  BY <1>4, TicksAreNat, JobsTyped
  DEF Crash, ProcessEnds, Typed, MaintenanceTypeOK, SchedulerTypeOK, BegunBefore, Pause
<1>5. CASE Reboot
  BY <1>5, TicksAreNat
  DEF Reboot, Restart, maintenanceVars, Typed, MaintenanceTypeOK, SchedulerTypeOK,
      BegunBefore, Pause
<1> QED
  BY <1>1, <1>2, <1>3, <1>4, <1>5

EventTyped == event \in [age : 0 .. Resend + 1, row_age : 0 .. Retention + 1 \cup {Never},
                         applied : Nat]

LEMMA EventTypedNext == ASSUME EventTyped, MaintenanceNext PROVE EventTyped'
<1>1. /\ event.age \in 0 .. Resend + 1 /\ event.applied \in Nat
      /\ event.row_age \in 0 .. Retention + 1 \cup {Never}
      /\ Resend \in Nat /\ Retention \in Nat
  BY DaysAreNat DEF EventTyped
<1>2. CASE UNCHANGED event
  BY <1>2 DEF EventTyped
<1>3. CASE Tick
  <2> DEFINE age1 == SmallerOf(event.age + 1, Resend + 1)
             row_age1 == IF event.row_age = Never THEN Never
                         ELSE SmallerOf(event.row_age + 1, Retention + 1)
  <2>1. event' = [[event EXCEPT !.age = age1] EXCEPT !.row_age = row_age1]
    BY <1>3 DEF Tick
  <2>2. age1 \in 0 .. Resend + 1 /\ row_age1 \in 0 .. Retention + 1 \cup {Never}
    BY <1>1 DEF SmallerOf
  <2> HIDE DEF age1, row_age1
  <2>3. [event EXCEPT !.age = age1]
          \in [age : 0 .. Resend + 1, row_age : 0 .. Retention + 1 \cup {Never}, applied : Nat]
    BY <2>2 DEF EventTyped
  <2> QED
    BY <2>1, <2>2, <2>3 DEF EventTyped
<1>4. CASE event' = [event EXCEPT !.row_age = Never]
  BY <1>4 DEF EventTyped
<1>5. CASE DeliverEvent
  <2> DEFINE n == event.applied + 1
  <2>1. n \in Nat /\ event' = [[event EXCEPT !.row_age = 0] EXCEPT !.applied = n]
    BY <1>1, <1>5 DEF DeliverEvent
  <2> HIDE DEF n
  <2>2. [event EXCEPT !.row_age = 0]
          \in [age : 0 .. Resend + 1, row_age : 0 .. Retention + 1 \cup {Never}, applied : Nat]
    BY <1>1 DEF EventTyped
  <2> QED
    BY <1>1, <2>1, <2>2 DEF EventTyped
<1>6. CASE event' = NewEvent
  BY <1>1, <1>6 DEF EventTyped, NewEvent
<1> QED
  BY <1>2, <1>3, <1>4, <1>5, <1>6
  DEF MaintenanceNext, Check, JobEnds, Reconciles, ReconciliationRaises, CleansUp,
      CleanupRaises, Wake, Crash, Reboot, DeliverEvent, EmitEvent, maintenanceVars

LEMMA TypedInit == MaintenanceInit => Typed /\ EventTyped
BY JobsTyped, DaysAreNat, TicksAreNat
DEF MaintenanceInit, SchedulerInit, Typed, MaintenanceTypeOK, SchedulerTypeOK, BegunBefore,
    EventTyped, NewEvent, Past, Pause

LEMMA TypedNext ==
  ASSUME Typed, EventTyped, RowGuards, MaxPass <= Day, Resend <= Retention,
         [MaintenanceNext]_allVars
  PROVE  Typed' /\ EventTyped' /\ RowGuards'
<1>1. EventTyped' /\ RowGuards'
  <2>1. CASE UNCHANGED allVars
    BY <2>1 DEF allVars, maintenanceVars, EventTyped, RowGuards, Ages
  <2> QED
    BY <2>1, EventTypedNext, RowGuardsNext
<1>2. event' \in [age : 0 .. Resend + 1, row_age : 0 .. Retention + 1 \cup {Never},
                  applied : 0 .. 2]
  BY <1>1 DEF EventTyped, RowGuards
<1>3. CASE Tick
  <2>1. target' \in Past /\ failed' \in 0 .. MaxFailed
    BY <1>3, TickTyped DEF Tick, Typed, MaintenanceTypeOK, BegunBefore, Past
  <2> QED
    BY <1>1, <1>2, <1>3, <2>1, TickTyped DEF Typed, MaintenanceTypeOK
<1>4. CASE Check \/ JobEnds \/ Wake \/ Crash \/ Reboot
  BY <1>1, <1>2, <1>4, LoopTyped DEF Typed, MaintenanceTypeOK, BegunBefore, Past
<1>5. CASE DeliverEvent \/ EmitEvent \/ UNCHANGED allVars
  BY <1>1, <1>2, <1>5
  DEF DeliverEvent, EmitEvent, allVars, maintenanceVars, schedulerVars, Typed,
      MaintenanceTypeOK, SchedulerTypeOK, BegunBefore, Job, Pause
<1> QED
  BY <1>3, <1>4, <1>5 DEF MaintenanceNext

\* Every variable of the scheduler and of what its jobs do keeps its type, in
\* passes no longer than a day and with rows that outlive the redeliveries.
THEOREM MaintenanceTypeCorrect ==
  MaxPass <= Day /\ Resend <= Retention /\ MaintenanceSpec => []MaintenanceTypeOK
<1> SUFFICES ASSUME MaxPass <= Day, Resend <= Retention
             PROVE  MaintenanceSpec => []MaintenanceTypeOK
  OBVIOUS
<1>1. MaintenanceInit => Typed /\ EventTyped /\ RowGuards
  BY TypedInit, RowGuardsInit
<1>2. Typed /\ EventTyped /\ RowGuards /\ [MaintenanceNext]_allVars
        => (Typed /\ EventTyped /\ RowGuards)'
  BY TypedNext
<1>3. Typed => MaintenanceTypeOK
  BY DEF Typed
<1> QED
  BY <1>1, <1>2, <1>3, PTL DEF MaintenanceSpec
-------------------------------------------------------------------------------
(***************************************************************************)
(* No two days in a row.  The days that are open say how long no run of    *)
(* the daily job that succeeded has begun: Unreported.  The loop says how  *)
(* long that can be: Wait is an interval, and a period of the loop for the *)
(* pass under way and for each failed run, and for each restart a pass and *)
(* the time until it.                                                      *)
(***************************************************************************)
Daily == "reconciliation"

Period == MaxPass + SleepTicks + MaxLate

Cut == MaxPass + MaxDown

Spent(runs, cuts) == Period * runs + Cut * cuts

\* The daily job is still to be checked in this pass, or running; or the first
\* pass of a new process is to come.
Ahead == IF pc # "sleeping" /\ \E i \in next .. Len(Jobs) : Jobs[i] = Daily THEN 1 ELSE 0

Phase == IF pc \in {"sleeping", "down"} THEN MaxPass + slept ELSE pass_age

Wait == Interval - 1 + Spent(failed + Ahead, restarts) + Phase

\* It is n ticks or more that no such run has begun: the last began on a day that
\* is not over when it begins.
Unreported(n) == /\ 1 \in open => time_of_day < n
                 /\ {1, 2} \subseteq open => Day + time_of_day < n

LateInv == /\ NoTwoDaysSkipped
           /\ Unreported(Wait)
           /\ age[Daily] # Never /\ age[Daily] < MaxAge => Unreported(age[Daily])

\* An interval, the periods of all failures and of a run, all restarts, and the
\* pass of the next run are no more than two days and the tick before them.
DaysAreLong == Interval + Spent(MaxFailed + 1, MaxRestarts) + MaxPass <= 2 * Day + 1

LEMMA SpentAdds ==
  ASSUME NEW runs \in Nat, NEW cuts \in Nat
  PROVE  /\ Period \in Nat /\ Cut \in Nat /\ Spent(runs, cuts) \in Nat
         /\ Spent(runs + 1, cuts) = Spent(runs, cuts) + Period
         /\ Spent(runs, cuts + 1) = Spent(runs, cuts) + Cut
<1>1. Period \in Nat /\ Cut \in Nat
  BY TicksAreNat DEF Period, Cut
<1>2. Period * runs \in Nat /\ Cut * cuts \in Nat
  BY <1>1
<1>3. /\ Period * (runs + 1) = Period * runs + Period
      /\ Cut * (cuts + 1) = Cut * cuts + Cut
  BY <1>1
<1> QED
  BY <1>1, <1>2, <1>3 DEF Spent

LEMMA SpentGrows ==
  ASSUME NEW runs \in Nat, NEW cuts \in Nat, NEW more \in Nat, NEW again \in Nat,
         runs <= more, cuts <= again
  PROVE  Spent(runs, cuts) <= Spent(more, again)
<1>1. Period \in Nat /\ Cut \in Nat
  BY TicksAreNat DEF Period, Cut
<1>2. Period * runs <= Period * more /\ Cut * cuts <= Cut * again
  BY <1>1
<1>3. /\ Period * runs \in Nat /\ Cut * cuts \in Nat
      /\ Period * more \in Nat /\ Cut * again \in Nat
  BY <1>1
<1> QED
  BY <1>2, <1>3 DEF Spent

LEMMA WaitTyped ==
  ASSUME Typed
  PROVE  /\ Ahead \in {0, 1} /\ Phase \in Nat /\ failed \in Nat /\ restarts \in Nat
         /\ Interval \in Nat \ {0} /\ MaxPass \in Nat /\ pass_age \in 0 .. MaxPass
         /\ Spent(failed + Ahead, restarts) \in Nat
         /\ Wait \in Nat
         /\ time_of_day \in 0 .. Day - 1 /\ Day \in Nat \ {0}
<1>1. /\ Ahead \in {0, 1} /\ Phase \in Nat /\ failed \in Nat /\ restarts \in Nat
      /\ Interval \in Nat \ {0} /\ MaxPass \in Nat /\ pass_age \in 0 .. MaxPass
      /\ time_of_day \in 0 .. Day - 1 /\ Day \in Nat \ {0}
  BY TicksAreNat, DaysAreNat
  DEF Ahead, Phase, Pause, Typed, MaintenanceTypeOK, SchedulerTypeOK
<1>2. failed + Ahead \in Nat
  BY <1>1
<1>3. Spent(failed + Ahead, restarts) \in Nat
  BY <1>1, <1>2, SpentAdds
<1> QED
  BY <1>1, <1>3 DEF Wait

\* In a process that has ended the next pass is the first one, with every job.
LEMMA FirstPassAhead ==
  /\ \E i \in 1 .. Len(Jobs) : Jobs[i] = Daily
  /\ Typed /\ pc = "down" => Ahead = 1
<1>1. \E i \in 1 .. Len(Jobs) : Jobs[i] = Daily
  BY ReconciliationIsJob, JobsTyped DEF JobNames, Daily
<1> QED
  BY <1>1 DEF Ahead, Typed, BegunBefore

\* While time passes, Wait is within the two days.
LEMMA WaitEnds ==
  ASSUME Typed, DaysAreLong, TimePasses
  PROVE  Wait < 2 * Day
<1>1. /\ failed \in Nat /\ failed <= MaxFailed /\ restarts \in Nat /\ restarts <= MaxRestarts
      /\ MaxFailed \in Nat /\ MaxRestarts \in Nat /\ MaxFailed + 1 \in Nat
      /\ SleepTicks \in Nat /\ MaxLate \in Nat /\ MaxDown \in Nat
  BY TicksAreNat, DaysAreNat DEF Typed, MaintenanceTypeOK, SchedulerTypeOK
<1>2. /\ Spent(MaxFailed + 1, MaxRestarts) \in Nat
      /\ Interval + Spent(MaxFailed + 1, MaxRestarts) + MaxPass <= 2 * Day + 1
  BY <1>1, SpentAdds DEF DaysAreLong
<1>3. CASE pc = "sleeping"
  <2>1. Ahead = 0 /\ Phase < Period /\ Period \in Nat
    <3>1. slept \in Nat /\ slept < SleepTicks + MaxLate
      BY <1>1, <1>3 DEF TimePasses, Pause, Typed, MaintenanceTypeOK, SchedulerTypeOK
    <3> QED
      BY <1>1, <1>3, <3>1, TicksAreNat DEF Ahead, Phase, Period
  <2>2. Spent(failed + 1, restarts) = Spent(failed, restarts) + Period
    BY <1>1, SpentAdds
  <2>3. Spent(failed + 1, restarts) <= Spent(MaxFailed + 1, MaxRestarts)
    BY <1>1, SpentGrows
  <2>4. Spent(failed + Ahead, restarts) = Spent(failed, restarts)
    BY <1>1, <2>1
  <2>5. Wait = Interval - 1 + Spent(failed, restarts) + Phase
    BY <2>4 DEF Wait
  <2> QED
    BY <1>2, <2>1, <2>2, <2>3, <2>4, <2>5, WaitTyped
<1>4. CASE pc = "down"
  <2>1. Ahead = 1 /\ Phase < Cut /\ Cut \in Nat
    <3>1. slept \in Nat /\ slept < MaxDown
      BY <1>1, <1>4 DEF TimePasses, Pause, Typed, MaintenanceTypeOK, SchedulerTypeOK
    <3> QED
      BY <1>1, <1>4, <3>1, FirstPassAhead, TicksAreNat DEF Phase, Cut
  <2>2. Spent(failed + 1, restarts + 1) = Spent(failed + 1, restarts) + Cut
    BY <1>1, SpentAdds
  <2>3. Spent(failed + 1, restarts + 1) <= Spent(MaxFailed + 1, MaxRestarts)
    <3>1. restarts + 1 <= MaxRestarts /\ restarts + 1 \in Nat /\ failed + 1 \in Nat
      BY <1>1, <1>4 DEF Typed, BegunBefore
    <3> QED
      BY <1>1, <3>1, SpentGrows
  <2>4. Spent(failed + Ahead, restarts) = Spent(failed + 1, restarts)
    BY <2>1
  <2>5. Wait = Interval - 1 + Spent(failed + 1, restarts) + Phase
    BY <2>4 DEF Wait
  <2> QED
    BY <1>2, <2>1, <2>2, <2>3, <2>4, <2>5, WaitTyped
<1>5. CASE pc \notin {"sleeping", "down"}
  <2>1. Phase < MaxPass
    BY <1>5, WaitTyped DEF Phase, TimePasses
  <2>2. Spent(failed + Ahead, restarts) <= Spent(MaxFailed + 1, MaxRestarts)
    <3>1. failed + Ahead \in Nat /\ failed + Ahead <= MaxFailed + 1
      BY <1>1, WaitTyped
    <3> QED
      BY <1>1, <3>1, SpentGrows
  <2> QED
    BY <1>2, <2>1, <2>2, WaitTyped DEF Wait
<1> QED
  BY <1>3, <1>4, <1>5

\* A tick is a tick of both, and midnight moves the days.
LEMMA TickLate ==
  ASSUME Typed, Typed', DaysAreLong, LateInv, Tick
  PROVE  LateInv'
<1>1. /\ TimePasses /\ UNCHANGED <<pc, next, restarts, failed>>
      /\ time_of_day' = IF time_of_day = Day - 1 THEN 0 ELSE time_of_day + 1
  BY WaitTyped DEF Tick, TimePasses
<1>2. Wait' = Wait + 1
  <2>1. Ahead' = Ahead
    BY <1>1 DEF Ahead
  <2>2. Phase' = Phase + 1
    BY <1>1, TicksAreNat
    DEF TimePasses, Phase, Pause, Typed, MaintenanceTypeOK, SchedulerTypeOK
  <2>3. Spent(failed' + Ahead', restarts') = Spent(failed + Ahead, restarts)
    BY <1>1, <2>1
  <2> QED
    BY <2>2, <2>3, WaitTyped DEF Wait
<1>3. /\ 1 \in open' => 1 \in open \/ time_of_day' = 0
      /\ time_of_day # Day - 1 => open' = open
      /\ time_of_day = Day - 1 => \A d \in {1, 2} : d + 1 \in open' <=> d \in open
  BY <1>1, WaitTyped DEF Tick, Past
<1>4. ASSUME NEW n \in Nat, Unreported(n)
      PROVE  Unreported(n + 1)'
  BY <1>1, <1>3, <1>4, WaitTyped DEF Unreported
<1>5. NoTwoDaysSkipped'
  <2>1. SUFFICES ASSUME 2 \in open', 3 \in open' PROVE FALSE
    BY DEF NoTwoDaysSkipped
  <2>2. time_of_day = Day - 1 /\ {1, 2} \subseteq open
    BY <1>3, <2>1 DEF LateInv, NoTwoDaysSkipped
  <2>3. Day + time_of_day < Wait
    BY <2>2 DEF LateInv, Unreported
  <2>4. Wait < 2 * Day
    BY <1>1, WaitEnds
  <2> QED
    BY <2>2, <2>3, <2>4, WaitTyped
<1>6. ASSUME age'[Daily] # Never, age'[Daily] < MaxAge
      PROVE  Unreported(age[Daily])'
  <2>1. /\ age[Daily] \in 0 .. MaxAge \cup {Never} /\ MaxAge \in Nat
        /\ age'[Daily] = IF age[Daily] \in {Never, MaxAge} THEN age[Daily] ELSE age[Daily] + 1
    BY <1>1, JobsTyped, ReconciliationIsJob
    DEF TimePasses, Daily, Typed, MaintenanceTypeOK, SchedulerTypeOK
  <2>2. PICK n \in Nat : n = age[Daily] /\ n < MaxAge /\ age'[Daily] = n + 1
    BY <1>6, <2>1
  <2>3. Unreported(n)
    BY <2>2, NeverIsNoAge DEF LateInv
  <2>4. Unreported(n + 1)'
    BY <1>4, <2>3
  <2> QED
    BY <2>2, <2>4 DEF Unreported
<1>7. Unreported(Wait)'
  <2>1. PICK n \in Nat : n = Wait
    BY WaitTyped
  <2>2. Unreported(n + 1)'
    BY <1>4, <2>1 DEF LateInv
  <2> QED
    BY <1>2, <2>1, <2>2 DEF Unreported
<1> QED
  BY <1>5, <1>6, <1>7 DEF LateInv

\* Past the daily job it is not ahead any more; past another it is as before.
LEMMA AdvanceAhead ==
  ASSUME Typed, pc \notin {"sleeping", "down"}, Advance, UNCHANGED slept
  PROVE  /\ Ahead' = IF Job = Daily THEN 0 ELSE Ahead
         /\ Job = Daily => Ahead = 1
         /\ Phase' \in Nat /\ Phase = pass_age /\ Phase' >= pass_age
<1>1. /\ next \in 1 .. Len(Jobs) /\ Len(Jobs) \in Nat
      /\ \A i, j \in 1 .. Len(Jobs) : Jobs[i] = Jobs[j] => i = j
  BY JobsTyped, JobsAreListed DEF Typed, MaintenanceTypeOK, SchedulerTypeOK
<1>2. Job = Daily => Ahead = 1
  BY <1>1 DEF Job, Ahead
<1>3. /\ Phase' \in Nat /\ Phase = pass_age /\ Phase' >= pass_age
  <2>1. pass_age \in 0 .. MaxPass /\ MaxPass \in Nat /\ slept \in Nat
    BY TicksAreNat DEF Pause, Typed, MaintenanceTypeOK, SchedulerTypeOK
  <2>2. CASE next < Len(Jobs)
    BY <2>1, <2>2 DEF Phase, Advance
  <2>3. CASE ~(next < Len(Jobs))
    BY <2>1, <2>3 DEF Phase, Advance
  <2> QED
    BY <2>2, <2>3
<1>4. Ahead' = IF Job = Daily THEN 0 ELSE Ahead
  <2>1. CASE next < Len(Jobs)
    <3>1. pc' = "checking" /\ next' = next + 1
      BY <2>1 DEF Advance
    <3>2. (\E i \in next + 1 .. Len(Jobs) : Jobs[i] = Daily)
            <=> Job # Daily /\ \E i \in next .. Len(Jobs) : Jobs[i] = Daily
      BY <1>1, <2>1 DEF Job
    <3> QED
      BY <3>1, <3>2 DEF Ahead
  <2>2. CASE ~(next < Len(Jobs))
    <3>1. pc' = "sleeping" /\ next = Len(Jobs)
      BY <1>1, <2>2 DEF Advance
    <3>2. Ahead = IF Job = Daily THEN 1 ELSE 0
      BY <1>1, <3>1 DEF Ahead, Job
    <3> QED
      BY <3>1, <3>2 DEF Ahead
  <2> QED
    BY <2>1, <2>2
<1> QED
  BY <1>2, <1>3, <1>4

\* A step in which neither the days nor the daily job's last run change, and
\* after which Wait is no less.
LEMMA WaitsLate ==
  ASSUME Typed, LateInv, UNCHANGED <<open, time_of_day>>,
         age'[Daily] \in {age[Daily], Never}, Wait' \in Nat, Wait <= Wait'
  PROVE  LateInv'
<1>1. Unreported(Wait)'
  BY WaitTyped DEF LateInv, Unreported
<1> QED
  BY <1>1 DEF LateInv, NoTwoDaysSkipped, Unreported

LEMMA CheckLate ==
  ASSUME Typed, LateInv, Check
  PROVE  LateInv'
<1>1. UNCHANGED <<open, time_of_day, age, slept, restarts, failed>> /\ pc = "checking"
  BY DEF Check, CheckJob
<1>2. CASE Due
  <2>1. Wait' = Wait
    BY <1>1, <1>2 DEF Check, CheckJob, Wait, Ahead, Phase
  <2> QED
    BY <1>1, <2>1, WaitsLate, WaitTyped
<1>3. CASE ~Due /\ Job # Daily
  <2>1. Ahead' = Ahead /\ Phase' \in Nat /\ Phase <= Phase'
    BY <1>1, <1>3, AdvanceAhead, WaitTyped DEF Check, CheckJob
  <2>2. Wait' \in Nat /\ Wait <= Wait'
    BY <1>1, <2>1, WaitTyped DEF Wait
  <2> QED
    BY <1>1, <2>2, WaitsLate
<1>4. CASE ~Due /\ Job = Daily
  <2>1. Ahead' = 0 /\ Phase' \in Nat /\ pass_age <= Phase'
    BY <1>1, <1>4, AdvanceAhead, WaitTyped DEF Check, CheckJob
  <2>2. Wait' = Interval - 1 + Spent(failed, restarts) + Phase'
    <3>1. failed' + Ahead' = failed
      BY <1>1, <2>1, WaitTyped
    <3> QED
      BY <1>1, <3>1 DEF Wait
  <2>3. PICK n \in Nat : n = age[Daily] /\ n < Interval + pass_age
    BY <1>4, WaitTyped, JobsTyped, ReconciliationIsJob
    DEF Due, Daily, Typed, MaintenanceTypeOK, SchedulerTypeOK
  <2>4. n < MaxAge /\ n <= Wait' /\ Wait' \in Nat
    <3>1. Spent(failed, restarts) \in Nat
      BY WaitTyped, SpentAdds
    <3> QED
      BY <2>1, <2>2, <2>3, <3>1, WaitTyped DEF MaxAge
  <2>5. Unreported(n)
    BY <2>3, <2>4, NeverIsNoAge DEF LateInv
  <2>6. Unreported(Wait)'
    BY <1>1, <2>4, <2>5, WaitTyped DEF Unreported
  <2> QED
    BY <1>1, <2>6 DEF LateInv, NoTwoDaysSkipped, Unreported
<1> QED
  BY <1>2, <1>3, <1>4

LEMMA JobEndsLate ==
  ASSUME Typed, LateInv, JobEnds
  PROVE  LateInv'
<1>1. /\ pc = "running" /\ Advance
      /\ UNCHANGED <<slept, restarts, time_of_day>>
  BY DEF JobEnds, Reconciles, ReconciliationRaises, CleansUp, CleanupRaises, JobCompletes,
         JobRaises, maintenanceVars
<1>2. /\ Ahead' = IF Job = Daily THEN 0 ELSE Ahead
      /\ Job = Daily => Ahead = 1
      /\ Phase = pass_age /\ Phase' \in Nat /\ pass_age <= Phase'
  BY <1>1, AdvanceAhead, WaitTyped
<1>3. CASE CleansUp \/ CleanupRaises
  <2>1. /\ Job # Daily /\ UNCHANGED <<open, failed>>
        /\ age' \in {age, [age EXCEPT ![Job] = pass_age]}
    BY <1>3
    DEF CleansUp, CleanupRaises, JobCompletes, JobRaises, maintenanceVars, Daily
  <2>2. age'[Daily] = age[Daily]
    BY <2>1, ReconciliationIsJob DEF Daily, Typed, MaintenanceTypeOK, SchedulerTypeOK
  <2>3. Wait' \in Nat /\ Wait <= Wait'
    BY <1>1, <1>2, <2>1, WaitTyped DEF Wait
  <2> QED
    BY <1>1, <2>1, <2>2, <2>3, WaitsLate
<1>4. CASE ReconciliationRaises
  <2>1. Job = Daily /\ UNCHANGED <<open, age>> /\ failed' = failed + 1
    BY <1>4 DEF ReconciliationRaises, JobRaises, Daily
  <2>2. failed' + Ahead' = failed + Ahead
    BY <1>2, <2>1, WaitTyped
  <2>3. Wait' \in Nat /\ Wait <= Wait'
    BY <1>1, <1>2, <2>2, WaitTyped DEF Wait
  <2> QED
    BY <1>1, <2>1, <2>3, WaitsLate
<1>5. CASE Reconciles
  <2>1. /\ Job = Daily /\ open' = open \ {target} /\ failed' = 0
        /\ age' = [age EXCEPT ![Daily] = pass_age]
    BY <1>5 DEF Reconciles, JobCompletes, Daily
  <2>2. age'[Daily] = pass_age
    BY <2>1, ReconciliationIsJob DEF Daily, Typed, MaintenanceTypeOK, SchedulerTypeOK
  <2>3. /\ 1 \in open' => time_of_day' < pass_age
        /\ ~({1, 2} \subseteq open')
    BY <1>1, <2>1 DEF Typed, BegunBefore
  <2>4. Wait' \in Nat /\ pass_age <= Wait'
    <3>1. Spent(failed' + Ahead', restarts') = Spent(0, restarts)
      BY <1>1, <1>2, <2>1
    <3>2. Spent(0, restarts) \in Nat
      BY WaitTyped, SpentAdds
    <3> QED
      BY <1>2, <3>1, <3>2, WaitTyped DEF Wait
  <2> QED
    BY <1>1, <2>1, <2>2, <2>3, <2>4, WaitTyped DEF LateInv, NoTwoDaysSkipped, Unreported
<1> QED
  BY <1>3, <1>4, <1>5 DEF JobEnds

\* A new pass has a period to spare.
LEMMA WakeLate ==
  ASSUME Typed, LateInv, Wake
  PROVE  LateInv'
<1>1. /\ pc = "sleeping" /\ pc' = "checking" /\ next' = 1 /\ pass_age' = 0
      /\ UNCHANGED <<open, time_of_day, failed, restarts, age>>
  BY DEF Wake, WakeUp, maintenanceVars, Typed, BegunBefore
<1>2. Ahead = 0 /\ Phase <= Period
  BY <1>1, TicksAreNat
  DEF Ahead, Phase, Pause, Period, Typed, MaintenanceTypeOK, SchedulerTypeOK
<1>3. Ahead' = 1 /\ Phase' = 0
  BY <1>1, FirstPassAhead DEF Ahead, Phase
<1>4. /\ failed + Ahead = failed /\ failed' + Ahead' = failed + 1 /\ restarts' = restarts
  BY <1>1, <1>2, <1>3, WaitTyped
<1>5. /\ Wait = Interval - 1 + Spent(failed, restarts) + Phase
      /\ Wait' = Interval - 1 + Spent(failed + 1, restarts) + Phase'
  BY <1>4 DEF Wait
<1>6. /\ Spent(failed + 1, restarts) = Spent(failed, restarts) + Period
      /\ Spent(failed, restarts) \in Nat /\ Period \in Nat
  BY WaitTyped, SpentAdds
<1>7. Wait' \in Nat /\ Wait <= Wait'
  BY <1>2, <1>3, <1>5, <1>6, WaitTyped
<1> QED
  BY <1>1, <1>7, WaitsLate

\* A process that ends in a pass had a pass at most, and one that ends between
\* two had less than the period of the pass to come.
LEMMA CrashLate ==
  ASSUME Typed, LateInv, Crash
  PROVE  LateInv'
<1>1. /\ pc # "down" /\ pc' = "down" /\ next' = 1 /\ slept' = 0
      /\ UNCHANGED <<open, time_of_day, failed, restarts>>
      /\ age'[Daily] = Never
  BY ReconciliationIsJob DEF Crash, ProcessEnds, Daily
<1>2. Ahead' = 1 /\ Phase' = MaxPass
  BY <1>1, FirstPassAhead, WaitTyped DEF Ahead, Phase
<1>3. failed' + Ahead' = failed + 1 /\ restarts' = restarts
  BY <1>1, <1>2
<1>4. Wait' = Interval - 1 + Spent(failed + 1, restarts) + Phase'
  BY <1>3 DEF Wait
<1>5. /\ Spent(failed + 1, restarts) = Spent(failed, restarts) + Period
      /\ Spent(failed, restarts) \in Nat /\ Period \in Nat
  BY WaitTyped, SpentAdds
<1>6. Wait' \in Nat /\ Wait <= Wait'
  <2>1. CASE pc = "sleeping"
    <3>1. Ahead = 0 /\ Phase <= Period
      BY <2>1, TicksAreNat
      DEF Ahead, Phase, Pause, Period, Typed, MaintenanceTypeOK, SchedulerTypeOK
    <3>2. failed + Ahead = failed
      BY <3>1, WaitTyped
    <3>3. Wait = Interval - 1 + Spent(failed, restarts) + Phase
      BY <3>2 DEF Wait
    <3> QED
      BY <1>2, <1>4, <1>5, <3>1, <3>3, WaitTyped
  <2>2. CASE pc # "sleeping"
    <3>1. Phase <= MaxPass
      BY <1>1, <2>2, WaitTyped DEF Phase
    <3>2. failed + Ahead \in Nat /\ failed + 1 \in Nat /\ failed + Ahead <= failed + 1
      BY WaitTyped
    <3>3. Spent(failed + Ahead, restarts) <= Spent(failed + 1, restarts)
      BY <3>2, WaitTyped, SpentGrows
    <3> QED
      BY <1>2, <1>4, <1>5, <3>1, <3>3, WaitTyped DEF Wait
  <2> QED
    BY <2>1, <2>2
<1> QED
  BY <1>1, <1>6, WaitsLate

\* The restart has been waited for as long as it may take.
LEMMA RebootLate ==
  ASSUME Typed, LateInv, Reboot
  PROVE  LateInv'
<1>1. /\ pc = "down" /\ pc' = "checking" /\ next' = 1 /\ pass_age' = 0
      /\ UNCHANGED <<open, time_of_day, failed, age>> /\ restarts' = restarts + 1
  BY DEF Reboot, Restart, maintenanceVars, Typed, BegunBefore
<1>2. Ahead = 1 /\ Phase <= Cut
  BY <1>1, FirstPassAhead, TicksAreNat
  DEF Phase, Pause, Cut, Typed, MaintenanceTypeOK, SchedulerTypeOK
<1>3. Ahead' = 1 /\ Phase' = 0
  BY <1>1, FirstPassAhead DEF Ahead, Phase
<1>4. /\ failed + Ahead = failed + 1 /\ failed' + Ahead' = failed + 1
      /\ failed + 1 \in Nat
  BY <1>1, <1>2, <1>3, WaitTyped
<1>5. /\ Wait = Interval - 1 + Spent(failed + 1, restarts) + Phase
      /\ Wait' = Interval - 1 + Spent(failed + 1, restarts + 1) + Phase'
  BY <1>1, <1>4 DEF Wait
<1>6. /\ Spent(failed + 1, restarts + 1) = Spent(failed + 1, restarts) + Cut
      /\ Spent(failed + 1, restarts) \in Nat /\ Cut \in Nat
  BY <1>4, WaitTyped, SpentAdds
<1>7. Wait' \in Nat /\ Wait <= Wait'
  BY <1>2, <1>3, <1>5, <1>6, WaitTyped
<1> QED
  BY <1>1, <1>7, WaitsLate

\* As long as an interval, the failures in a row and the restarts take no more
\* than two days together, no two days in a row go without an attempt at their
\* report.
THEOREM DaysReported ==
  DaysAreLong /\ Resend <= Retention /\ MaintenanceSpec => []NoTwoDaysSkipped
<1> SUFFICES ASSUME DaysAreLong, Resend <= Retention
             PROVE  MaintenanceSpec => []NoTwoDaysSkipped
  OBVIOUS
<1>1. MaxPass <= Day
  <2>1. /\ {MaxFailed, MaxRestarts, MaxPass} \subseteq Nat
        /\ {Interval, Day, SleepTicks} \subseteq Nat \ {0}
        /\ Period \in Nat /\ MaxPass + 1 <= Period
    BY TicksAreNat, DaysAreNat DEF Period
  <2>2. Spent(MaxFailed + 1, MaxRestarts) = Spent(MaxFailed, MaxRestarts) + Period
    BY <2>1, SpentAdds
  <2>3. Spent(MaxFailed, MaxRestarts) \in Nat
    BY <2>1, SpentAdds
  <2> QED
    BY <2>1, <2>2, <2>3 DEF DaysAreLong
<1>2. MaintenanceInit => Typed /\ EventTyped /\ RowGuards /\ LateInv
  BY TypedInit, RowGuardsInit DEF MaintenanceInit, LateInv, NoTwoDaysSkipped, Unreported
<1>3. Typed /\ EventTyped /\ RowGuards /\ LateInv /\ [MaintenanceNext]_allVars
        => (Typed /\ EventTyped /\ RowGuards /\ LateInv)'
  <2> SUFFICES ASSUME Typed, EventTyped, RowGuards, LateInv, [MaintenanceNext]_allVars
               PROVE  (Typed /\ EventTyped /\ RowGuards /\ LateInv)'
    OBVIOUS
  <2>1. Typed' /\ EventTyped' /\ RowGuards'
    BY <1>1, TypedNext
  <2>2. CASE Tick
    BY <2>1, <2>2, TickLate
  <2>3. CASE Check \/ JobEnds \/ Wake \/ Crash \/ Reboot
    BY <2>1, <2>3, CheckLate, JobEndsLate, WakeLate, CrashLate, RebootLate
  <2>4. CASE DeliverEvent \/ EmitEvent \/ UNCHANGED allVars
    <3>1. /\ UNCHANGED <<schedulerVars, open, time_of_day, failed>>
      BY <2>4 DEF DeliverEvent, EmitEvent, allVars, maintenanceVars
    <3>2. Wait' = Wait
      BY <3>1 DEF Wait, Ahead, Phase, schedulerVars
    <3> QED
      BY <2>1, <3>1, <3>2, WaitTyped, WaitsLate DEF schedulerVars
  <2> QED
    BY <2>2, <2>3, <2>4 DEF MaintenanceNext
<1>4. LateInv => NoTwoDaysSkipped
  BY DEF LateInv
<1> QED
  BY <1>2, <1>3, <1>4, PTL DEF MaintenanceSpec
===============================================================================
