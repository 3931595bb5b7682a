--------------------------- MODULE FunctionRuns ----------------------------
(***************************************************************************)
(* One project function: its definition in Redis, the operators that save, *)
(* deploy and remove it, and its invocations, by RPC and by the scheduler. *)
(* Whoever changes the definition has read it before, an invocation before *)
(* it ran, and writes it back whole.                                       *)
(***************************************************************************)
EXTENDS Naturals, FiniteSets, FiniteSetsExt

CONSTANTS
  Callers,    \* requests in progress together
  Crons,      \* cron expressions, each as the minutes it matches
  Horizon,    \* minutes nextCronMatch looks ahead, 30 days in the code
  MaxMinute,  \* bound: minutes that pass
  MaxCalls,   \* bound: requests
  MaxFaults   \* bound: runs and calls that fail, and crashes

ASSUME FunctionsAssumption ==
  /\ "cron" \notin Callers
  /\ Crons \subseteq SUBSET Nat /\ Horizon \in Nat
  /\ MaxMinute \in Nat /\ MaxCalls \in Nat /\ MaxFaults \in Nat

TickTime == 0..(2 * MaxMinute + 1)  \* the clock counts half minutes, a tick of the scheduler
Minute(t) == t \div 2
Off == {}                           \* the schedule is disabled

Sources == 0..(MaxCalls + 1)        \* the save that wrote a source; 0 for none
Definition == [source   : Sources \ {0},
               deployed : Sources,            \* deployedSource
               cron     : Crons \cup {Off},
               next     : SUBSET Nat]         \* nextRunAt: no time or one
None == [source |-> 0, deployed |-> 0, cron |-> Off, next |-> {}]

Cron == "cron"  \* the invocation the scheduler has running
Procs == Callers \cup {Cron}

VARIABLES
  def,       \* project:<id>:functions, the field of the function, or None
  listed,    \* functions:projects has the project
  running,   \* runningSchedules has the function
  pc, local, \* where each request is, and the definition it has read or will write
  now, ticked,
  \* The rest is not in the code.
  edited,    \* what the last edit answered has made of source, deployed and cron
  started,   \* how often a due time was started, up to 2
  calls, faults,
  incidents

vars == <<def, listed, running, pc, local, now, ticked, edited, started,
          calls, faults, incidents>>

Incidents == {
  "edit_crossed",  \* an edit was in progress with another, or with a run
  "runs_crossed",  \* two runs were in progress together
  "beyond",        \* a next run lies beyond the horizon
  "cut",           \* the process died during a scheduled run, which was not saved
  "hung",          \* a worker of the scheduler ended and said nothing
  "unlisted"}      \* a removal took the project off the list after a save had put it on

TypeOK ==
  /\ def \in Definition \cup {None}
  /\ \A d \in {def} \cup {local[p] : p \in Procs} : Cardinality(d.next) <= 1
  /\ listed \in BOOLEAN /\ running \in BOOLEAN
  /\ pc \in [Procs -> {"idle", "save", "deploy", "count", "unlist", "run", "hung"}]
  /\ local \in [Procs -> Definition \cup {None}]
  /\ now \in TickTime /\ ticked \in BOOLEAN
  /\ edited \in [source : Sources, deployed : Sources, cron : Crons \cup {Off}]
  /\ started \in [TickTime -> 0..2]
  /\ calls \in 0..MaxCalls /\ faults \in 0..MaxFaults
  /\ incidents \subseteq Incidents
  /\ pc[Cron] \in {"idle", "run", "hung"} /\ (running <=> pc[Cron] # "idle")

Draft(d) == [source |-> d.source, deployed |-> d.deployed, cron |-> d.cron]

Goto(p, label) == pc' = [pc EXCEPT ![p] = label]
When(condition, kind) == IF condition THEN {kind} ELSE {}
Done(p) == Goto(p, "idle") /\ local' = [local EXCEPT ![p] = None]
Edits == {p \in Procs : pc[p] \in {"save", "deploy", "count", "unlist"}}
Runs == {p \in Procs : pc[p] = "run"}

\* nextCronMatch
NextMatch(cron, t) ==
  LET found == {m \in cron : Minute(t) < m /\ m <= Minute(t) + Horizon}
  IN IF found = {} THEN {} ELSE {2 * Min(found)}

Beyond(d) == When(d.cron # Off /\ d.next = {}, "beyond")

\* A function was saved and deployed; there may be none, once it is removed.
Init ==
  /\ def \in {[source |-> 1, deployed |-> 1, cron |-> c, next |-> NextMatch(c, 0)] : c \in Crons}
  /\ listed = TRUE /\ running = FALSE
  /\ pc = [p \in Procs |-> "idle"] /\ local = [p \in Procs |-> None]
  /\ now = 0 /\ ticked = FALSE
  /\ edited = Draft(def)
  /\ started = [t \in TickTime |-> 0]
  /\ calls = 0 /\ faults = 0
  /\ incidents = Beyond(def)

\* A request comes.
Arrive(p, edit) ==
  /\ pc[p] = "idle"
  /\ calls < MaxCalls
  /\ calls' = calls + 1
  /\ incidents' = incidents
       \cup When(Edits # {} \/ (edit /\ Runs # {}), "edit_crossed")
       \cup When(~edit /\ Runs # {}, "runs_crossed")

\* persistDefinition
Persist(d) == def' = d /\ listed' = TRUE

-----------------------------------------------------------------------------
(* save, deploy and remove                                                  *)

\* save reads what is there,
Save(p, cron) ==
  /\ Arrive(p, TRUE)
  /\ local' = [local EXCEPT ![p] = [def EXCEPT !.source = calls' + 1, !.cron = cron]]
  /\ Goto(p, "save")
  /\ UNCHANGED <<def, listed, running, now, ticked, edited, started, faults>>

\* Mutant of SavedDefinition: a draft that is saved is deployed with it.
SaveAndDeploy(p) ==
  [local[p] EXCEPT !.next = NextMatch(local[p].cron, now), !.deployed = local[p].source]

SavedDefinition(p) ==
  [local[p] EXCEPT !.next = NextMatch(local[p].cron, now)]

\* and writes the draft over it.
SaveWrites(p) ==
  /\ pc[p] = "save"
  /\ Persist(SavedDefinition(p))
  /\ edited' = [edited EXCEPT !.source = local[p].source, !.cron = local[p].cron]
  /\ incidents' = incidents \cup Beyond(def')
  /\ Done(p)
  /\ UNCHANGED <<running, now, ticked, started, calls, faults>>

\* deploy reads the draft,
Deploy(p) ==
  /\ Arrive(p, TRUE)
  /\ def # None
  /\ local' = [local EXCEPT ![p] = def]
  /\ Goto(p, "deploy")
  /\ UNCHANGED <<def, listed, running, now, ticked, edited, started, faults>>

DeployedDefinition(p) ==
  [local[p] EXCEPT !.deployed = local[p].source, !.next = NextMatch(local[p].cron, now)]

\* and writes it back, deployed.
DeployWrites(p) ==
  /\ pc[p] = "deploy"
  /\ Persist(DeployedDefinition(p))
  /\ edited' = [edited EXCEPT !.deployed = local[p].source]
  /\ incidents' = incidents \cup Beyond(def')
  /\ Done(p)
  /\ UNCHANGED <<running, now, ticked, started, calls, faults>>

\* remove: HDEL,
Remove(p) ==
  /\ Arrive(p, TRUE)
  /\ def # None
  /\ def' = None
  /\ edited' = Draft(None)
  /\ Goto(p, "count")
  /\ UNCHANGED <<listed, running, local, now, ticked, started, faults>>

\* HLEN,
Count(p) ==
  /\ pc[p] = "count"
  /\ Goto(p, IF def = None THEN "unlist" ELSE "idle")
  /\ UNCHANGED <<def, listed, running, local, now, ticked, edited, started, calls,
                 faults, incidents>>

\* and SREM when it was the last.
Unlist(p) ==
  /\ pc[p] = "unlist"
  /\ listed' = FALSE
  /\ incidents' = incidents \cup When(def # None, "unlisted")
  /\ Done(p)
  /\ UNCHANGED <<def, running, now, ticked, edited, started, calls, faults>>

-----------------------------------------------------------------------------
(* invoke                                                                   *)

\* invokeRpc or invokeWebhook: a deployed function is run as it was read.
Invoke(p) ==
  /\ Arrive(p, FALSE)
  /\ def.deployed # 0
  /\ local' = [local EXCEPT ![p] = def]
  /\ Goto(p, "run")
  /\ UNCHANGED <<def, listed, running, now, ticked, edited, started, faults>>

\* A time that is over, or a minute that matches if there is no time.
Due(d) == IF d.next = {} THEN Minute(now) \in d.cron ELSE \E t \in d.next : t <= now

MayStart == listed /\ ~running /\ def.cron # Off /\ def.deployed # 0 /\ Due(def)

\* The due time a run answers to.
DueTime(d) == IF d.next = {} THEN 2 * Minute(now) ELSE Min(d.next)

\* runDueSchedules; its reads of the projects and of the definitions are one step.
Tick ==
  /\ ~ticked
  /\ ticked' = TRUE
  /\ IF MayStart
     THEN /\ running' = TRUE
          /\ Goto(Cron, "run")
          /\ local' = [local EXCEPT ![Cron] = def]
          /\ started' = [started EXCEPT ![DueTime(def)] = IF @ = 2 THEN 2 ELSE @ + 1]
          /\ incidents' = incidents \cup When(Edits # {}, "edit_crossed")
                                    \cup When(Runs # {}, "runs_crossed")
     ELSE UNCHANGED <<running, pc, local, started, incidents>>
  /\ UNCHANGED <<def, listed, now, edited, calls, faults>>

\* What a run writes when it ends: the definition it was started with.
RunDefinition(p) ==
  IF p = Cron THEN [local[p] EXCEPT !.next = NextMatch(local[p].cron, now)] ELSE local[p]

\* Mutant of Release: a run that ends well does not give the function free.
KeepRunning(p) == UNCHANGED running

Release(p) == IF p = Cron THEN running' = FALSE ELSE UNCHANGED running

\* The worker has answered, or has timed out and the caller is told so.
Complete(p) ==
  /\ pc[p] = "run"
  /\ Persist(RunDefinition(p))
  /\ incidents' = incidents \cup Beyond(def')
  /\ Release(p)
  /\ Done(p)
  /\ UNCHANGED <<now, ticked, edited, started, calls, faults>>

Fault == faults < MaxFaults /\ faults' = faults + 1

\* Everything a process has in memory is gone.
Dies ==
  /\ pc' = [p \in Procs |-> "idle"] /\ local' = [p \in Procs |-> None]
  /\ running' = FALSE
  /\ ticked' = FALSE

\* A scheduled run fails: the error is saved, the promise of invoke rejects, and nothing
\* handles it.  Node ends the process.
ScheduledRunFails ==
  /\ Fault
  /\ pc[Cron] = "run"
  /\ Persist(RunDefinition(Cron))
  /\ Dies
  /\ incidents' = incidents \cup Beyond(def')
  /\ UNCHANGED <<now, edited, started, calls>>

\* A call of a request to Redis fails.
Fails(p) ==
  /\ Fault
  /\ p # Cron /\ pc[p] \notin {"idle", "hung"}
  /\ Done(p)
  /\ UNCHANGED <<def, listed, running, now, ticked, edited, started, calls, incidents>>

\* The worker exits with code 0 and has sent nothing: no one is told, and the timeout
\* has been cleared.
ExitsSilently(p) ==
  /\ Fault
  /\ pc[p] = "run"
  /\ Goto(p, "hung")
  /\ incidents' = incidents \cup When(p = Cron, "hung")
  /\ UNCHANGED <<def, listed, running, local, now, ticked, edited, started, calls>>

Crash ==
  /\ Fault
  /\ \E p \in Procs : pc[p] # "idle"
  /\ Dies
  /\ incidents' = incidents \cup When(pc[Cron] # "idle", "cut")
  /\ UNCHANGED <<def, listed, now, edited, started, calls>>

\* Half a minute passes, and the scheduler's timer may fire again; at the bound the clock
\* stands and the timer goes on.
Clock ==
  /\ now + 1 \in TickTime \/ ticked
  /\ now' = IF now + 1 \in TickTime THEN now + 1 ELSE now
  /\ ticked' = FALSE
  /\ UNCHANGED <<def, listed, running, pc, local, edited, started, calls, faults, incidents>>

Step(p) == SaveWrites(p) \/ DeployWrites(p) \/ Count(p) \/ Unlist(p)

Next ==
  \/ \E p \in Callers :
       \/ \E cron \in Crons \cup {Off} : Save(p, cron)
       \/ Deploy(p) \/ Remove(p) \/ Invoke(p) \/ Step(p) \/ Fails(p)
  \/ \E p \in Procs : Complete(p) \/ ExitsSilently(p)
  \/ Tick
  \/ ScheduledRunFails
  \/ Crash
  \/ Clock

Spec == Init /\ [][Next]_vars

\* Redis answers, runs end (the worker is stopped at its timeout) and the timer fires.
FairSpec ==
  /\ Spec
  /\ WF_vars(Tick)
  /\ WF_vars(Clock)
  /\ \A p \in Procs : WF_vars(Complete(p))
  /\ \A p \in Callers : WF_vars(Step(p))

-----------------------------------------------------------------------------
(* Properties.                                                              *)

Spoiled(kinds) == incidents \cap kinds # {}

\* The source, the deployed source and the schedule are those of the last edits, however
\* many runs have written the definition back since, unless an edit crossed a run or
\* another edit.
EditsStand == "edit_crossed" \in incidents \/ Draft(def) = edited

\* A due time is started once, unless runs crossed, a run was cut off or its end not
\* saved, or the next time lies beyond the horizon.
StartedOnce ==
  Spoiled({"runs_crossed", "cut", "beyond"}) \/ \A t \in TickTime : started[t] <= 1

\* Runs, which write the definition back, neither undo an edit nor start a due time again.
RunsKeepToSchedule == EditsStand /\ StartedOnce

Waits == def.cron # Off /\ def.deployed # 0 /\ \E t \in def.next : t <= now

\* A schedule that is due is run, removed or switched off in the end, unless its worker
\* ended in silence or its project was taken off the list.
ScheduleGoesOn == Waits ~> (~Waits \/ Spoiled({"hung", "unlisted"}))
=============================================================================
