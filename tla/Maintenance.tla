----------------------------- MODULE Maintenance -----------------------------
(***************************************************************************)
(* What the scheduler is for: a report for each day, and webhook_events    *)
(* kept no longer than needed, while Stripe goes on delivering.            *)
(***************************************************************************)
EXTENDS Scheduler

CONSTANTS
  Day,         \* ticks in a day
  Retention,   \* WEBHOOK_RETENTION_DAYS, in ticks
  Resend,      \* how long Stripe may deliver an event, in ticks
  MaxFailed    \* bound: runs in a row of the daily job that raise

ASSUME DaysAreNat == /\ {Retention, Resend, MaxFailed} \subseteq Nat
                     /\ Day \in Nat \ {0}
ASSUME ReconciliationIsJob == "reconciliation" \in JobNames

VARIABLES
  time_of_day,
  open,      \* the last days, by how long ago, whose report nobody tried to make
  target,    \* the day that the running job reconciles, by how long ago
  failed,    \* how often in a row the daily job has raised
  event      \* one event of Stripe's and its row

maintenanceVars == <<time_of_day, open, target, failed, event>>

\* A day is reconciled when it is yesterday, or was so when the job began.
Past == 1 .. 3

(***************************************************************************)
(* age: ticks since Stripe made the event, at most one more than it may be *)
(* delivered; row_age: since its row was written, or Never; applied: how   *)
(* often its handler ran.                                                  *)
(***************************************************************************)
NewEvent == [age |-> 0, row_age |-> Never, applied |-> 0]

MaintenanceTypeOK ==
  /\ SchedulerTypeOK
  /\ time_of_day \in 0 .. Day - 1
  /\ open \subseteq Past
  /\ target \in Past
  /\ failed \in 0 .. MaxFailed
  /\ event \in [age : 0 .. Resend + 1, row_age : 0 .. Retention + 1 \cup {Never},
                applied : 0 .. 2]

MaintenanceInit == /\ SchedulerInit
                   /\ time_of_day \in 0 .. Day - 1
                   /\ open = {}
                   /\ target = 1 /\ failed = 0
                   /\ event = NewEvent

SmallerOf(m, n) == IF m < n THEN m ELSE n

\* At midnight today becomes yesterday, whose report is open.
Tick ==
  /\ TimePasses
  /\ time_of_day' = (time_of_day + 1) % Day
  /\ IF time_of_day' # 0 THEN UNCHANGED <<open, target>>
     ELSE /\ open' = {1} \cup {d \in Past : d - 1 \in open}
          /\ target' = IF Job = "reconciliation" /\ pc = "running"
                       THEN target + 1 ELSE 1
  /\ event' = [event EXCEPT
       !.age = SmallerOf(@ + 1, Resend + 1),
       !.row_age = IF @ = Never THEN Never ELSE SmallerOf(@ + 1, Retention + 1)]
  /\ UNCHANGED failed
-------------------------------------------------------------------------------
\* run_daily_reconciliation takes the day before the one it begins in.
Check == /\ CheckJob
         /\ target' = 1
         /\ UNCHANGED <<time_of_day, open, failed, event>>

\* The report is committed; or a ReconciliationError is logged, which loses the
\* report, and the job has run all the same.
Reconciles == /\ Job = "reconciliation" /\ JobCompletes
              /\ open' = open \ {target}
              /\ target' = 1 /\ failed' = 0
              /\ UNCHANGED <<time_of_day, event>>

\* Any other exception.
ReconciliationRaises == /\ Job = "reconciliation" /\ JobRaises
                        /\ failed < MaxFailed
                        /\ failed' = failed + 1
                        /\ target' = 1
                        /\ UNCHANGED <<time_of_day, open, event>>

\* Wrong: the retention not subtracted from the time.
Outdated(row_age) == row_age # Never /\ row_age > 0

Old(row_age) == row_age # Never /\ row_age > Retention

\* cleanup_old_webhook_events, whose rows are written as processed or not at
\* all, and cleanup_expired_idempotency_records, whose rows nobody writes.
CleansUp == /\ Job # "reconciliation" /\ JobCompletes
            /\ event' = IF Job = "cleanup_webhooks" /\ Old(event.row_age)
                        THEN [event EXCEPT !.row_age = Never] ELSE event
            /\ UNCHANGED <<time_of_day, open, target, failed>>

CleanupRaises == /\ Job # "reconciliation" /\ JobRaises
                 /\ UNCHANGED maintenanceVars

JobEnds == Reconciles \/ ReconciliationRaises \/ CleansUp \/ CleanupRaises

Wake == WakeUp /\ UNCHANGED maintenanceVars

Crash == /\ ProcessEnds
         /\ target' = 1
         /\ UNCHANGED <<time_of_day, open, failed, event>>

Reboot == Restart /\ UNCHANGED maintenanceVars
-------------------------------------------------------------------------------
\* process_webhook: the row decides whether the handler runs.
DeliverEvent == /\ pc # "down"
                /\ event.age <= Resend
                /\ event.row_age = Never
                /\ event' = [event EXCEPT !.row_age = 0, !.applied = @ + 1]
                /\ UNCHANGED <<schedulerVars, time_of_day, open, target, failed>>

\* One event is looked at after the other.
EmitEvent == /\ event.age > Resend
             /\ event' = NewEvent
             /\ UNCHANGED <<schedulerVars, time_of_day, open, target, failed>>

MaintenanceNext == \/ Tick \/ Check \/ JobEnds \/ Wake \/ Crash \/ Reboot
                   \/ DeliverEvent \/ EmitEvent

allVars == <<schedulerVars, maintenanceVars>>

\* Time passes, jobs end, the loop is a coroutine, and a process that ended is
\* started again.  No job need succeed.
MaintenanceSpec == /\ MaintenanceInit
                   /\ [][MaintenanceNext]_allVars
                   /\ WF_allVars(Tick)
                   /\ WF_allVars(Check \/ JobEnds \/ Wake \/ Reboot)
-------------------------------------------------------------------------------
\* No job is kept from running by the others, though they fail every time and
\* take their time.
EveryJobRuns ==
  \A i \in DOMAIN Jobs : []<>(pc = "running" /\ next = i)

\* The loop drifts past midnight, jobs delay each other, runs fail and processes
\* restart: a day may be passed over, but never two in a row.
NoTwoDaysSkipped == ~({2, 3} \subseteq open)

\* The row that makes a late delivery a repeat is there as long as Stripe may
\* deliver its event.
AppliedOnceForGood == event.applied <= 1
===============================================================================
