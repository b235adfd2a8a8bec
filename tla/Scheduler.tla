------------------------------ MODULE Scheduler ------------------------------
(***************************************************************************)
(* BackgroundScheduler: one loop over the registered jobs, one job at a    *)
(* time, a sleep, and again.  Time is relative, so that behaviours have no *)
(* end: age[j] is how long ago the pass began that last completed job j.   *)
(***************************************************************************)
EXTENDS Integers, Sequences

CONSTANTS
  Jobs,          \* the registered jobs, in order
  Interval,      \* interval_seconds, the same for all, in ticks
  SleepTicks,    \* what the loop sleeps
  MaxLate,       \* bound: ticks by which the loop wakes up late
  MaxPass,       \* bound: ticks that the jobs of one pass take
  MaxRestarts,   \* bound: restarts of the process
  MaxDown,       \* bound: ticks before it is started again
  Never          \* last_run is None

ASSUME JobsAreListed == /\ Jobs \in Seq(STRING) /\ Len(Jobs) \in Nat \ {0}
                        /\ \A i, j \in DOMAIN Jobs : Jobs[i] = Jobs[j] => i = j
ASSUME NeverIsNoAge == Never \notin Nat
ASSUME TicksAreNat == /\ {MaxLate, MaxPass, MaxRestarts, MaxDown} \subseteq Nat
                      /\ {Interval, SleepTicks} \subseteq Nat \ {0}

JobNames == {Jobs[i] : i \in DOMAIN Jobs}

\* No job's age matters beyond this.
MaxAge == Interval + MaxPass

VARIABLES
  pc,         \* "checking" the next job, "running" it, "sleeping" after the
              \* pass; or the process is "down"
  next,       \* the job's place in Jobs
  age,        \* JobNames -> now - last_run, or Never
  pass_age,   \* how long ago the pass took its now, 0 between passes
  slept,      \* ticks since the pass or the process ended, 0 in a pass
  restarts

schedulerVars == <<pc, next, age, pass_age, slept, restarts>>

\* How long the loop may rest.
Pause == IF pc = "down" THEN MaxDown ELSE SleepTicks + MaxLate

SchedulerTypeOK ==
  /\ pc \in {"checking", "running", "sleeping", "down"}
  /\ next \in DOMAIN Jobs
  /\ age \in [JobNames -> 0 .. MaxAge \cup {Never}]
  /\ pass_age \in 0 .. MaxPass
  /\ slept \in 0 .. Pause
  /\ restarts \in 0 .. MaxRestarts

SchedulerInit == /\ pc = "checking" /\ next = 1
                 /\ age = [j \in JobNames |-> Never]
                 /\ pass_age = 0 /\ slept = 0 /\ restarts = 0

Job == Jobs[next]

\* last_run against the pass's own now, not the time by then.
Due == age[Job] = Never \/ age[Job] - pass_age >= Interval

\* Time passes while a job waits or the loop rests, nowhere else.
TimePasses ==
  /\ \/ /\ pc = "running" /\ pass_age < MaxPass
        /\ pass_age' = pass_age + 1
        /\ UNCHANGED slept
     \/ /\ pc \in {"sleeping", "down"} /\ slept < Pause
        /\ slept' = slept + 1
        /\ UNCHANGED pass_age
  /\ age' = [j \in JobNames |->
       IF age[j] \in {Never, MaxAge} THEN age[j] ELSE age[j] + 1]
  /\ UNCHANGED <<pc, next, restarts>>

\* The loop goes on to the next job, or to sleep.
Advance == IF next < Len(Jobs)
           THEN pc' = "checking" /\ next' = next + 1 /\ UNCHANGED pass_age
           ELSE pc' = "sleeping" /\ next' = 1 /\ pass_age' = 0

CheckJob == /\ pc = "checking"
            /\ IF Due THEN pc' = "running" /\ UNCHANGED <<next, pass_age>> ELSE Advance
            /\ UNCHANGED <<age, slept, restarts>>

\* Wrong: last_run set whatever became of the job.
JobRaisesAsRun == /\ pc = "running"
                  /\ age' = [age EXCEPT ![Job] = pass_age]
                  /\ Advance
                  /\ UNCHANGED <<slept, restarts>>

\* Wrong: the exception caught outside the loop over the jobs.
JobRaisesOutOfPass == /\ pc = "running"
                      /\ pc' = "sleeping" /\ next' = 1 /\ pass_age' = 0
                      /\ UNCHANGED <<age, slept, restarts>>

\* Wrong: the time of the next run kept where last_run is read.
JobCompletesUntilNext == /\ pc = "running"
                         /\ age' = [age EXCEPT ![Job] = pass_age - Interval]
                         /\ Advance
                         /\ UNCHANGED <<slept, restarts>>

\* last_run becomes the pass's now.
JobCompletes == /\ pc = "running"
                /\ age' = [age EXCEPT ![Job] = pass_age]
                /\ Advance
                /\ UNCHANGED <<slept, restarts>>

\* The job is due again in the next pass.
JobRaises == /\ pc = "running"
             /\ Advance
             /\ UNCHANGED <<age, slept, restarts>>

WakeUp == /\ pc = "sleeping" /\ slept >= SleepTicks
          /\ pc' = "checking" /\ slept' = 0
          /\ UNCHANGED <<next, age, pass_age, restarts>>

\* The process ends, in a job too, and forgets when jobs ran.
ProcessEnds == /\ pc # "down" /\ restarts < MaxRestarts
               /\ pc' = "down" /\ next' = 1
               /\ age' = [j \in JobNames |-> Never]
               /\ pass_age' = 0 /\ slept' = 0
               /\ UNCHANGED restarts

\* Another one registers the jobs anew.
Restart == /\ pc = "down"
           /\ pc' = "checking" /\ slept' = 0
           /\ restarts' = restarts + 1
           /\ UNCHANGED <<next, age, pass_age>>
===============================================================================
