------------------------------- MODULE Warmup -------------------------------
(***************************************************************************)
(* The warm-up of one project's Telegram account: one BullMQ job per day,  *)
(* each of which sends a few messages and counts the day.  The record, the *)
(* project and the override are Redis keys read and written by separate    *)
(* awaited calls, by three actors: the queue's worker, an operator (the    *)
(* routes of the console), and the reconciliation at the API's start.      *)
(***************************************************************************)
EXTENDS Naturals, FiniteSets

CONSTANTS
  Days,          \* daysRequired
  Attempts,      \* attempts of a job
  MaxFailures,   \* failureCount at which the warm-up is declared failed
  MaxFaults,     \* bound: Telegram sessions that fail
  MaxEvents      \* bound: calls of the operator, and restarts of the API

ASSUME WarmupAssumption ==
  /\ Days \in Nat \ {0}
  /\ MaxFailures \in Nat \ {0}
  /\ Attempts \in Nat /\ Attempts >= MaxFailures
  /\ MaxFaults \in Nat /\ MaxEvents \in Nat

Actors == {"worker", "operator", "boot"}
Ticks  == 1..Days
Statuses == {"warming_up", "active", "warmup_failed"}
Record  == [days : 0..Days, status : Statuses, failures : 0..MaxFaults]
Project == [status : Statuses, remaining : 0..Days]
JobStates == {"none", "delayed", "waiting", "active", "completed", "failed"}

Fresh == [days |-> 0, status |-> "warming_up", failures |-> 0]

Call ==
  [copy  : Record,         \* the record as it was read, changed before it is saved
   tick  : 0..Days,        \* expectedTick; 0 when the operator triggers a tick
   next  : 1..(Days + 1),  \* the day at which a loop over the jobs is
   after : {"return", "throw", "clear"}]  \* what follows the two saves
NoCall == [copy |-> Fresh, tick |-> 0, next |-> 1, after |-> "return"]

VARIABLES
  record,     \* warmup:<project>
  project,    \* the two fields of project:<project> that syncProjectStatus sets
  override,   \* warmup:<project>:override
  job,        \* the state of each day's job in the queue
  tried,      \* attemptsMade of each job
  pc,         \* the awaited call each actor is at
  call,       \* the variables of each actor's call
  \* The rest is not in the code.
  today,      \* the jobs of the days up to this one are due
  faults, events,  \* how many sessions have failed, and events come
  triggers,        \* how many ticks the operator has triggered
  incidents   \* the kinds of mishap that have happened

queue  == <<job, tried>>
clock  == <<today, faults, events, triggers>>
vars   == <<record, project, override, queue, pc, call, clock, incidents>>

Incidents == {
  "stopped",   \* the operator paused the warm-up, or removed a job
  "promoted",  \* the operator ran a job before its day
  "forced",    \* the operator forced the project active
  "skipped",   \* a day's job returned because the day before was not done
  "revived",   \* and a day was counted after that
  "overlap",   \* two actors were between reading the record and syncing the project
  "crash"}     \* the API died in the middle of a call

TypeOK ==
  /\ record \in Record
  /\ project \in Project
  /\ override \in {"default", "paused", "force_active"}
  /\ job \in [Ticks -> JobStates]
  /\ tried \in [Ticks -> 0..Attempts]
  /\ pc \in [Actors -> {"idle", "read", "override", "send", "save", "sync", "clear",
                        "resume", "force", "reconcile", "plan", "schedule"}]
  /\ call \in [Actors -> Call]
  /\ today \in Ticks
  /\ faults \in 0..MaxFaults /\ events \in 0..MaxEvents /\ triggers \in 0..MaxEvents
  /\ incidents \subseteq Incidents

\* startWarmup has saved the record; the project was created warming up.
Init ==
  /\ record = Fresh
  /\ project = [status |-> "warming_up", remaining |-> Days]
  /\ override = "default"
  /\ job = [t \in Ticks |-> "none"]
  /\ tried = [t \in Ticks |-> 0]
  /\ pc = [a \in Actors |-> IF a = "boot" THEN "plan" ELSE "idle"]
  /\ call = [a \in Actors |-> NoCall]
  /\ today = 1
  /\ faults = 0 /\ events = 0 /\ triggers = 0
  /\ incidents = {}

Goto(a, label) == pc' = [pc EXCEPT ![a] = label]
Mark(kinds) == incidents' = incidents \cup kinds

\* Between its read of the record and its sync of the project.
Inside(a) == pc[a] \in {"override", "send", "save", "sync"}
Overlap(a) == IF \E b \in Actors \ {a} : Inside(b) THEN {"overlap"} ELSE {}

\* A job that is due, or will be, and has not had its last attempt.
Pending(t) == job[t] \in {"delayed", "waiting", "active"}

-----------------------------------------------------------------------------
(* The queue, a library.                                                    *)

\* Mutant of Settle: a job that throws is not tried again.
SettleAtOnce(t, threw) ==
  /\ job' = [job EXCEPT ![t] = IF threw THEN "failed" ELSE "completed"]
  /\ tried' = [tried EXCEPT ![t] = IF @ < Attempts THEN @ + 1 ELSE @]

\* The worker's handler returned or threw: done, to be tried again, or failed.
Settle(t, threw) ==
  /\ tried' = [tried EXCEPT ![t] = IF @ < Attempts THEN @ + 1 ELSE @]
  /\ job' = [job EXCEPT ![t] = IF ~threw THEN "completed"
                               ELSE IF tried[t] + 1 < Attempts THEN "waiting" ELSE "failed"]

\* The actor's call is over.
End(a, threw) ==
  /\ Goto(a, "idle")
  /\ call' = [call EXCEPT ![a] = NoCall]
  /\ IF a = "worker" THEN Settle(call[a].tick, threw) ELSE UNCHANGED queue

\* The worker, one job at a time, takes the first of the due jobs, or one that waits.
Take(t) ==
  /\ pc["worker"] = "idle"
  /\ \/ job[t] = "waiting"
     \/ t <= today /\ job[t] = "delayed" /\ \A u \in 1..(t - 1) : job[u] # "delayed"
  /\ job' = [job EXCEPT ![t] = "active"]
  /\ call' = [call EXCEPT !["worker"].tick = t]
  /\ Goto("worker", "read")
  /\ UNCHANGED <<record, project, override, tried, clock, incidents>>

\* removeOnComplete and removeOnFail: a finished job is forgotten in time.
Forget(t) ==
  /\ job[t] \in {"completed", "failed"}
  /\ job' = [job EXCEPT ![t] = "none"]
  /\ tried' = [tried EXCEPT ![t] = 0]
  /\ UNCHANGED <<record, project, override, pc, call, clock, incidents>>

DayPasses ==
  /\ today < Days
  /\ today' = today + 1
  /\ UNCHANGED <<record, project, override, queue, pc, call, faults, events, triggers, incidents>>

-----------------------------------------------------------------------------
(* executeWarmupTick.                                                       *)

ReadRecord(a) ==
  /\ pc[a] = "read"
  /\ call' = [call EXCEPT ![a].copy = record]
  /\ Goto(a, "override")
  /\ Mark(Overlap(a))
  /\ UNCHANGED <<record, project, override, queue, clock>>

\* forceProjectActive: the record with the warm-up declared over.
Forced == [days |-> Days, status |-> "active", failures |-> 0]

ToForce(a) ==
  /\ call' = [call EXCEPT ![a].copy = Forced, ![a].after = "clear"]
  /\ Goto(a, "save")
  /\ UNCHANGED queue

\* The job's turn has not come: the day before is not done.
TooSoon(c) == c.tick # 0 /\ c.copy.days + 1 < c.tick

\* Mutant of NothingToDo: a day that is done is done again.
NothingLeftToDo(c) ==
  \/ override = "paused"
  \/ c.copy.status = "active"
  \/ TooSoon(c)

\* The call returns, and its job is completed.
NothingToDo(c) ==
  \/ override = "paused"
  \/ c.copy.status = "active"
  \/ c.tick # 0 /\ c.copy.days >= c.tick
  \/ TooSoon(c)

ReadOverride(a) ==
  /\ pc[a] = "override"
  /\ IF override = "force_active" THEN ToForce(a)
     ELSE IF NothingToDo(call[a]) THEN End(a, FALSE)
     ELSE Goto(a, "send") /\ UNCHANGED <<call, queue>>
  /\ Mark(IF TooSoon(call[a]) THEN {"skipped"} ELSE {})
  /\ UNCHANGED <<record, project, override, clock>>

\* The day's messages went out.
Send(a) ==
  LET days == call[a].copy.days + 1
  IN /\ pc[a] = "send"
     /\ call' = [call EXCEPT
          ![a].copy = [days |-> days, failures |-> 0,
                       status |-> IF days >= Days THEN "active" ELSE "warming_up"]]
     /\ Goto(a, "save")
     /\ Mark(IF "skipped" \in incidents THEN {"revived"} ELSE {})
     /\ UNCHANGED <<record, project, override, queue, clock>>

\* Mutant of CountFailure: one more failure is needed than a job has attempts.
CountFailures(r) ==
  [r EXCEPT !.failures = @ + 1,
            !.status = IF r.failures >= Attempts THEN "warmup_failed" ELSE @]

CountFailure(r) ==
  [r EXCEPT !.failures = @ + 1,
            !.status = IF r.failures + 1 >= MaxFailures THEN "warmup_failed" ELSE @]

\* The session could not be opened, or one of the messages failed.
SendFails(a) ==
  /\ pc[a] = "send"
  /\ faults < MaxFaults
  /\ faults' = faults + 1
  /\ call' = [call EXCEPT ![a].copy = CountFailure(@), ![a].after = "throw"]
  /\ Goto(a, "save")
  /\ UNCHANGED <<record, project, override, queue, today, events, triggers, incidents>>

\* SET of the whole record, as it was read and then changed.
Save(a) ==
  /\ pc[a] = "save"
  /\ record' = call[a].copy
  /\ Goto(a, "sync")
  /\ UNCHANGED <<project, override, queue, call, clock, incidents>>

Shown(r) == [status |-> r.status, remaining |-> Days - r.days]

\* syncProjectStatus, and what follows it.
Sync(a) ==
  /\ pc[a] = "sync"
  /\ project' = Shown(call[a].copy)
  /\ IF call[a].after = "clear"
     THEN Goto(a, "clear") /\ UNCHANGED <<call, queue>>
     ELSE End(a, call[a].after = "throw")
  /\ UNCHANGED <<record, override, clock, incidents>>

\* removeProjectJobs, one job at a time: to remove the job in hand throws.
Clear(a) ==
  LET t == call[a].next
  IN /\ pc[a] = "clear"
     /\ IF t > Days THEN End(a, FALSE)
        ELSE IF job[t] = "active" THEN End(a, TRUE)
        ELSE /\ job' = [job EXCEPT ![t] = "none"]
             /\ tried' = [tried EXCEPT ![t] = 0]
             /\ call' = [call EXCEPT ![a].next = t + 1]
             /\ UNCHANGED pc
     /\ UNCHANGED <<record, project, override, clock, incidents>>

-----------------------------------------------------------------------------
(* Scheduling.                                                              *)

\* reconcileWarmups for the project; or setOverride, which has deleted the key.
Load(a) ==
  /\ pc[a] \in {"resume", "reconcile"}
  /\ IF pc[a] = "reconcile" /\ project.status = "active"
     THEN Goto(a, "idle") /\ UNCHANGED call
     ELSE Goto(a, "plan") /\ call' = [call EXCEPT ![a].copy = record]
  /\ UNCHANGED <<record, project, override, queue, clock, incidents>>

\* scheduleMissingJobs reads the override before its loop.
Plan(a) ==
  /\ pc[a] = "plan"
  /\ IF override # "default"
     THEN End(a, FALSE)
     ELSE /\ Goto(a, "schedule")
          /\ call' = [call EXCEPT ![a].next = call[a].copy.days + 1]
          /\ UNCHANGED queue
  /\ UNCHANGED <<record, project, override, clock, incidents>>

\* A job is added unless one with its id is known, in whatever state.
Schedule(a) ==
  LET t == call[a].next
  IN /\ pc[a] = "schedule"
     /\ IF t > Days THEN End(a, FALSE)
        ELSE /\ job' = [job EXCEPT ![t] = IF @ = "none" THEN "delayed" ELSE @]
             /\ call' = [call EXCEPT ![a].next = t + 1]
             /\ UNCHANGED <<pc, tried>>
     /\ UNCHANGED <<record, project, override, clock, incidents>>

-----------------------------------------------------------------------------
(* The operator.                                                            *)

Calls ==
  /\ pc["operator"] = "idle"
  /\ events < MaxEvents
  /\ events' = events + 1

\* triggerTick: no expected tick, so the next day counts whatever the date.
Trigger ==
  /\ Calls
  /\ Goto("operator", "read")
  /\ triggers' = triggers + 1
  /\ UNCHANGED <<record, project, override, queue, call, today, faults, incidents>>

Pause ==
  /\ Calls
  /\ override' = "paused"
  /\ Goto("operator", "clear")
  /\ Mark({"stopped"})
  /\ UNCHANGED <<record, project, queue, call, today, faults, triggers>>

Resume ==
  /\ Calls
  /\ override # "default"
  /\ override' = "default"
  /\ Goto("operator", "resume")
  /\ UNCHANGED <<record, project, queue, call, today, faults, triggers, incidents>>

ForceActive ==
  /\ Calls
  /\ override' = "force_active"
  /\ Goto("operator", "force")
  /\ Mark({"forced"})
  /\ UNCHANGED <<record, project, queue, call, today, faults, triggers>>

\* setOverride reads the record, and overwrites what it read.
ForceRecord ==
  /\ pc["operator"] = "force"
  /\ ToForce("operator")
  /\ Mark(Overlap("operator"))
  /\ UNCHANGED <<record, project, override, clock>>

\* manageJob.
Manage(t) ==
  /\ Calls
  /\ \/ /\ job[t] = "delayed"      \* promote
        /\ job' = [job EXCEPT ![t] = "waiting"]
        /\ Mark({"promoted"})
        /\ UNCHANGED tried
     \/ /\ job[t] = "failed"       \* retry
        /\ job' = [job EXCEPT ![t] = "waiting"]
        /\ UNCHANGED <<tried, incidents>>
     \/ /\ job[t] \notin {"none", "active"}   \* remove
        /\ job' = [job EXCEPT ![t] = "none"]
        /\ tried' = [tried EXCEPT ![t] = 0]
        /\ Mark({"stopped"})
  /\ UNCHANGED <<record, project, override, pc, call, today, faults, triggers>>

\* The API dies.  The queue hands the worker's job out again; the new process
\* reconciles.
Crash ==
  /\ events < MaxEvents
  /\ events' = events + 1
  /\ job' = [t \in Ticks |-> IF job[t] = "active" THEN "waiting" ELSE job[t]]
  /\ pc' = [a \in Actors |-> IF a = "boot" THEN "reconcile" ELSE "idle"]
  /\ Mark(IF \E a \in Actors : pc[a] # "idle" THEN {"crash"} ELSE {})
  /\ call' = [a \in Actors |-> NoCall]
  /\ UNCHANGED <<record, project, override, tried, today, faults, triggers>>

-----------------------------------------------------------------------------

Step(a) ==
  \/ ReadRecord(a) \/ ReadOverride(a) \/ Send(a) \/ Save(a) \/ Sync(a) \/ Clear(a)
  \/ Load(a) \/ Plan(a) \/ Schedule(a)

Next ==
  \/ \E a \in Actors : Step(a) \/ SendFails(a)
  \/ \E t \in Ticks : Take(t) \/ Forget(t) \/ Manage(t)
  \/ Trigger \/ Pause \/ Resume \/ ForceActive \/ ForceRecord
  \/ DayPasses \/ Crash

Spec == Init /\ [][Next]_vars

\* Awaited calls answer, the queue hands out what is due, and time passes.
FairSpec ==
  /\ Spec
  /\ \A a \in Actors : WF_vars(Step(a))
  /\ WF_vars(ForceRecord)
  /\ \A t \in Ticks : SF_vars(Take(t))
  /\ WF_vars(DayPasses)

-----------------------------------------------------------------------------
(* Properties.                                                              *)

Spoiled(kinds) == incidents \cap kinds # {}

\* A retried, stalled or rescheduled job never counts a day twice: unless the project
\* was forced active or a job promoted, no more days are completed than have come and the
\* operator has triggered (the expectedTick tests of executeWarmupTick).
NeverAheadOfCalendar ==
  ~Spoiled({"forced", "promoted"}) => record.days <= today + triggers

\* When no job is left to make progress and the account is not active, the record
\* says so: a job went through all its attempts and the warm-up is declared failed;
\* unless the operator took jobs away or forced the project active, two calls
\* overlapped, or a day was counted after the next day's job had been skipped.
StallIsVisible ==
  /\ \A a \in Actors : pc[a] = "idle"
  /\ ~\E t \in Ticks : Pending(t)
  /\ ~Spoiled({"stopped", "forced", "revived", "overlap"})
  => record.status \in {"active", "warmup_failed"}

\* Between calls the project shows the record's status and days, unless a crash came
\* between the two saves or two calls overlapped (syncProjectStatus).
ProjectFollowsRecord ==
  (\A a \in Actors : ~Inside(a)) /\ ~Spoiled({"crash", "overlap"}) =>
    project = Shown(record)

\* What an operator reads of the warm-up is so: the days, and the status with the project's.
RecordTruthful == NeverAheadOfCalendar /\ ProjectFollowsRecord

\* The warm-up outlives any failures short of a job's last attempt, and a restart of
\* the API: the account becomes active, with the same exceptions.
SurvivesRetries ==
  <>(\/ record.status = "active"
     \/ faults >= Attempts
     \/ Spoiled({"stopped", "forced", "revived", "overlap"}))
=============================================================================
