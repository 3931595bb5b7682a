---------------------------- MODULE Warmup_proofs ----------------------------
(***************************************************************************)
(* What the warm-up's record and the project tell is so, for any number of *)
(* days, attempts, failures, calls of the operator and restarts.           *)
(***************************************************************************)
EXTENDS Warmup, TLAPS

-----------------------------------------------------------------------------
(* The inductive invariant.                                                 *)

\* A record that is not active has a day to go; failures are what has failed.
Sound(r) == r.failures <= faults /\ (r.status # "active" => r.days < Days)

Labels == {"idle", "read", "override", "send", "save", "sync", "clear",
           "resume", "force", "reconcile", "plan", "schedule"}

Places == [
  worker   |-> {"idle", "read", "override", "send", "save", "sync", "clear"},
  operator |-> {"idle", "read", "override", "send", "save", "sync", "clear",
                "resume", "force", "plan", "schedule"},
  boot     |-> {"idle", "reconcile", "plan", "schedule"}]

\* Where each actor can be, and what it has at hand there.
Shape ==
  /\ TypeOK
  /\ \A a \in Actors : pc[a] \in Places[a] /\ Sound(call[a].copy)
  /\ \A a \in Actors : pc[a] = "send" => call[a].copy.status # "active"
  /\ Sound(record)
  /\ pc["worker"] # "idle" => call["worker"].tick \in Ticks
  /\ call["operator"].tick = 0

\* Ticks are triggered by calls of the operator.
Counted == triggers <= events

\* The operator's tick that has been triggered and not yet counted in its copy.
Owed == IF pc["operator"] \in {"read", "override", "send"} THEN 1 ELSE 0

\* Jobs in hand are due; what has been counted, or is about to be, is a day of theirs or a tick
\* of the operator's.
Calendar ==
  ~Spoiled({"forced", "promoted"}) =>
    /\ override # "force_active" /\ pc["operator"] # "force"
    /\ \A t \in Ticks : job[t] \in {"waiting", "active", "failed"} => t <= today
    /\ pc["worker"] # "idle" => call["worker"].tick <= today
    /\ Owed <= triggers
    /\ record.days + Owed <= today + triggers
    /\ pc["operator"] \in {"override", "send"} => call["operator"].copy.days + 1 <= today + triggers
    /\ pc["operator"] \in {"save", "sync"} => call["operator"].copy.days <= today + triggers
    /\ pc["worker"] = "send" => call["worker"].copy.days + 1 <= today
    /\ pc["worker"] \in {"save", "sync"} => call["worker"].copy.days <= today

\* One actor at a time is between its read of the record and its sync of the project; until it
\* has saved the record the project shows it, and then the record is its copy.
InTurn ==
  ~Spoiled({"crash", "overlap"}) =>
    /\ \A a, b \in Actors : Inside(a) /\ Inside(b) => a = b
    /\ (\A a \in Actors : pc[a] # "sync") => project = Shown(record)
    /\ \A a \in Actors : pc[a] = "sync" => record = call[a].copy

\* A record is active when all its days are done, and failed after so many failures.
Judged(r) ==
  /\ r.status = "active" => r.days = Days
  /\ r.status = "warmup_failed" <=> r.failures >= MaxFailures

Calm == ~Spoiled({"stopped", "forced", "revived", "overlap"})

\* Where each actor is while nothing of the sort happened: it works on the record as it is, and
\* only the boot schedules.
AtHand(a) ==
  /\ pc[a] \notin {"clear", "resume", "force"} /\ call[a].after # "clear"
  /\ pc[a] \notin {"save", "sync"} => call[a].after = "return"
  /\ pc[a] \in {"override", "send", "sync"} => call[a].copy = record
  /\ pc[a] = "save" =>
       /\ Judged(call[a].copy)
       /\ call[a].after = "throw" =>
            call[a].copy.days = record.days /\ call[a].copy.failures = record.failures + 1
       /\ call[a].after = "return" =>
            call[a].copy.days = record.days + 1 /\ "skipped" \notin incidents
  /\ pc[a] \in {"plan", "schedule"} => a = "boot" /\ call[a].copy.days <= record.days

OnRecord ==
  /\ override = "default"
  /\ \A a \in Actors : AtHand(a)
  /\ \A a, b \in Actors : Inside(a) /\ Inside(b) => a = b
  /\ Judged(record)
  /\ project.status = "active" => record.status = "active"

\* The worker counts the day of its job, or a failure for the attempt.
OnTick ==
  /\ pc["worker"] = "send" => call["worker"].copy.days + 1 = call["worker"].tick
  /\ pc["worker"] \in {"save", "sync"} /\ call["worker"].after = "return" =>
       call["worker"].copy.days = call["worker"].tick
  /\ pc["worker"] \in {"save", "sync"} /\ call["worker"].after = "throw" =>
       /\ call["worker"].copy.days + 1 = call["worker"].tick
       /\ tried[call["worker"].tick] < call["worker"].copy.failures

\* What has become of the jobs of the days to go: the next one was tried as often as the record
\* has failures, and is over only with the last of them; a later one is over if it was skipped.
Tried ==
  \A t \in Ticks : t > record.days =>
    /\ t = record.days + 1 => tried[t] <= record.failures
    /\ t > record.days + 1 => tried[t] = 0 \/ "skipped" \in incidents
    /\ job[t] = "completed" => t > record.days + 1 /\ "skipped" \in incidents
    /\ job[t] = "failed" => t = record.days + 1 /\ record.status = "warmup_failed"

\* The boot's loop has still to come to t.
ToPlan(t) == \/ pc["boot"] \in {"reconcile", "plan"}
             \/ pc["boot"] = "schedule" /\ call["boot"].next <= t

\* Every day to go has a job, or will be given one, but for those named.
Covered ==
  \A t \in Ticks : t > record.days =>
    \/ Pending(t) \/ ToPlan(t)
    \/ t > record.days + 1 /\ "skipped" \in incidents
    \/ t = record.days + 1 /\ record.status = "warmup_failed"

Going == Calm => OnRecord /\ OnTick /\ Tried /\ Covered

IInv == Shape /\ Counted /\ Calendar /\ InTurn /\ Going

-----------------------------------------------------------------------------
(* It holds at the start.                                                   *)

LEMMA InitIInv == Init => IInv
<1> SUFFICES ASSUME Init PROVE IInv
  OBVIOUS
<1>1. Fresh \in Record /\ NoCall \in Call /\ Fresh.failures <= faults /\ Fresh.days < Days
  BY WarmupAssumption DEF Init, Fresh, NoCall, Record, Call, Statuses
<1>2. TypeOK
  BY <1>1, WarmupAssumption DEF Init, TypeOK, Project, Statuses, Ticks, JobStates, Actors, Incidents
<1>3. Shape
  BY <1>1, <1>2 DEF Init, Shape, Sound, NoCall, Fresh, Places, Actors
<1>4. Calendar
  BY WarmupAssumption DEF Init, Calendar, Owed, Actors, Fresh, Ticks
<1>5. InTurn
  BY WarmupAssumption DEF Init, InTurn, Inside, Actors, Fresh, Shown
<1>6. Going
  <2>1. OnRecord
    BY WarmupAssumption DEF Init, OnRecord, AtHand, Inside, Judged, Fresh, NoCall, Actors
  <2> QED
    BY <2>1, WarmupAssumption DEF Init, Going, OnTick, Tried, Covered, ToPlan, Ticks, Fresh, Actors
<1> QED
  BY <1>3, <1>4, <1>5, <1>6 DEF IInv, Counted, Init

-----------------------------------------------------------------------------
(* Every step keeps the types, and what the actors have at hand.            *)

LEMMA SettleTypes ==
  ASSUME TypeOK, NEW t \in Ticks, NEW threw \in BOOLEAN, Settle(t, threw)
  PROVE  job' \in [Ticks -> JobStates] /\ tried' \in [Ticks -> 0..Attempts]
<1>1. tried[t] \in 0..Attempts /\ Attempts \in Nat
  BY WarmupAssumption DEF TypeOK
<1> QED
  BY <1>1 DEF TypeOK, Settle, JobStates

LEMMA EndTypes ==
  ASSUME Shape, NEW a \in Actors, NEW threw \in BOOLEAN, pc[a] # "idle", End(a, threw)
  PROVE  /\ job' \in [Ticks -> JobStates] /\ tried' \in [Ticks -> 0..Attempts]
         /\ pc' = [pc EXCEPT ![a] = "idle"] /\ call' = [call EXCEPT ![a] = NoCall]
<1>1. CASE a = "worker"
  <2>1. Settle(call["worker"].tick, threw) /\ call["worker"].tick \in Ticks /\ TypeOK
    BY <1>1 DEF Shape, End
  <2> QED
    BY <1>1, <2>1, SettleTypes DEF End, Goto
<1>2. CASE a # "worker"
  BY <1>2 DEF Shape, TypeOK, End, Goto, queue
<1> QED
  BY <1>1, <1>2

\* It is enough that the actor's place and variables are right, and what is shared keeps its type.
LEMMA ShapeOf ==
  ASSUME Shape, NEW a \in Actors, NEW p \in Places[a], NEW c \in Call,
         pc' = [pc EXCEPT ![a] = p], call' = [call EXCEPT ![a] = c],
         record' \in Record, project' \in Project,
         override' \in {"default", "paused", "force_active"},
         job' \in [Ticks -> JobStates], tried' \in [Ticks -> 0..Attempts],
         today' \in Ticks, faults' \in faults..MaxFaults, events' \in 0..MaxEvents,
         triggers' \in 0..MaxEvents, incidents' \subseteq Incidents,
         Sound(record)',
         c.copy.failures <= faults', c.copy.status # "active" => c.copy.days < Days,
         p = "send" => c.copy.status # "active",
         a = "worker" /\ p # "idle" => c.tick \in Ticks,
         a = "operator" => c.tick = 0
  PROVE  Shape'
<1> USE WarmupAssumption
<1>1. /\ pc \in [Actors -> Labels]
      /\ call \in [Actors -> Call] /\ faults \in 0..MaxFaults
  BY DEF Shape, TypeOK, Labels
<1>2. /\ pc'[a] = p /\ \A b \in Actors \ {a} : pc'[b] = pc[b]
      /\ call'[a] = c /\ \A b \in Actors \ {a} : call'[b] = call[b]
  BY <1>1
<1>3. /\ pc' \in [Actors -> Labels]
      /\ call' \in [Actors -> Call]
  BY <1>1 DEF Places, Actors, Labels
<1>4. TypeOK'
  BY <1>1, <1>3 DEF TypeOK, Labels
<1>5. ASSUME NEW b \in Actors PROVE pc'[b] \in Places[b] /\ Sound(call[b].copy)'
  <2>1. CASE b = a
    BY <1>2, <2>1 DEF Sound
  <2>2. CASE b # a
    <3>1. call[b].copy \in Record /\ Sound(call[b].copy) /\ pc[b] \in Places[b]
      BY <1>1 DEF Shape, Call
    <3>2. call'[b].copy = call[b].copy /\ pc'[b] = pc[b]
      BY <1>2, <2>2
    <3> QED
      BY <1>1, <3>1, <3>2 DEF Sound, Record
  <2> QED
    BY <2>1, <2>2
<1>6. \A b \in Actors : pc'[b] = "send" => call'[b].copy.status # "active"
  BY <1>2 DEF Shape
<1>7. /\ pc'["worker"] # "idle" => call'["worker"].tick \in Ticks
      /\ call'["operator"].tick = 0
  BY <1>2 DEF Shape, Actors
<1> QED
  BY <1>4, <1>5, <1>6, <1>7 DEF Shape

\* What a call holds, field by field.
LEMMA CallFields ==
  ASSUME Shape, NEW a \in Actors
  PROVE  /\ call \in [Actors -> Call]
         /\ call[a] \in Call /\ call[a].copy \in Record
         /\ call[a].copy.days \in 0..Days /\ call[a].copy.failures \in 0..MaxFaults
         /\ call[a].copy.status \in Statuses
         /\ call[a].tick \in 0..Days /\ call[a].next \in 1..(Days + 1)
         /\ Sound(call[a].copy)
  BY DEF Shape, TypeOK, Call, Record

\* A call whose record and continuation are set at once.
LEMMA TwoFields ==
  ASSUME call \in [Actors -> Call], NEW a \in Actors, NEW r \in Record,
         NEW after \in {"return", "throw", "clear"}
  PROVE  [call EXCEPT ![a].copy = r, ![a].after = after]
           = [call EXCEPT ![a] = [copy |-> r, tick |-> call[a].tick, next |-> call[a].next,
                                  after |-> after]]
<1> DEFINE f == [call EXCEPT ![a].copy = r]
<1>1. f[a] = [copy |-> r, tick |-> call[a].tick, next |-> call[a].next, after |-> call[a].after]
  BY DEF Call
<1>2. [call EXCEPT ![a].copy = r, ![a].after = after] = [f EXCEPT ![a].after = after]
  OBVIOUS
<1>3. f \in [Actors -> Call] /\ \A b \in Actors \ {a} : f[b] = call[b]
  BY DEF Call
<1> HIDE DEF f
<1>4. [f EXCEPT ![a].after = after]
        = [f EXCEPT ![a] = [copy |-> r, tick |-> call[a].tick, next |-> call[a].next, after |-> after]]
  <2>1. [f[a] EXCEPT !.after = after]
          = [copy |-> r, tick |-> call[a].tick, next |-> call[a].next, after |-> after]
    BY <1>1
  <2>2. [f EXCEPT ![a].after = after] = [f EXCEPT ![a] = [f[a] EXCEPT !.after = after]]
    BY <1>3
  <2> QED
    BY <2>1, <2>2
<1>5. \A v \in Call : [f EXCEPT ![a] = v] = [call EXCEPT ![a] = v]
  BY <1>3
<1>6. [copy |-> r, tick |-> call[a].tick, next |-> call[a].next, after |-> after] \in Call
  BY DEF Call
<1> QED
  BY <1>2, <1>4, <1>5, <1>6

\* An actor that goes on with its record, or the one it has read.
LEMMA ShapeKept ==
  ASSUME Shape, NEW a \in Actors, NEW p \in Places[a] \ {"send"}, NEW c \in Call,
         pc[a] # "idle", pc' = [pc EXCEPT ![a] = p], call' = [call EXCEPT ![a] = c],
         c.copy \in {call[a].copy, record}, c.tick = call[a].tick,
         record' \in {record, call[a].copy}, project' \in Project,
         job' \in [Ticks -> JobStates], tried' \in [Ticks -> 0..Attempts],
         incidents' \subseteq Incidents, UNCHANGED <<override, clock>>
  PROVE  Shape'
<1>1. /\ record \in Record /\ call[a].copy \in Record
      /\ \A r \in {record, call[a].copy} : r.failures <= faults /\ (r.status # "active" => r.days < Days)
  BY CallFields DEF Shape, TypeOK, Sound
<1>2. /\ override \in {"default", "paused", "force_active"} /\ today \in Ticks
      /\ faults \in 0..MaxFaults /\ events \in 0..MaxEvents /\ triggers \in 0..MaxEvents
      /\ UNCHANGED <<override, today, faults, events, triggers>>
  BY DEF Shape, TypeOK, clock
<1>3. record' \in Record /\ Sound(record)'
  BY <1>1, <1>2 DEF Sound
<1>4. (a = "worker" => c.tick \in Ticks) /\ (a = "operator" => c.tick = 0)
  BY DEF Shape
<1>5. faults \in faults..MaxFaults
  BY <1>2, WarmupAssumption
<1> QED
  BY <1>1, <1>2, <1>3, <1>4, <1>5, ShapeOf

LEMMA ShapeStep ==
  ASSUME Shape, NEW a \in Actors, Step(a)
  PROVE  Shape'
<1> USE WarmupAssumption
<1>1. /\ record \in Record /\ project \in Project
      /\ override \in {"default", "paused", "force_active"}
      /\ job \in [Ticks -> JobStates] /\ tried \in [Ticks -> 0..Attempts]
      /\ today \in Ticks /\ faults \in 0..MaxFaults /\ events \in 0..MaxEvents
      /\ triggers \in 0..MaxEvents /\ incidents \subseteq Incidents
      /\ Sound(record) /\ faults \in faults..MaxFaults
  BY DEF Shape, TypeOK
<1>2. /\ call \in [Actors -> Call] /\ call[a] \in Call /\ call[a].copy \in Record
      /\ call[a].copy.days \in 0..Days /\ call[a].copy.failures \in 0..MaxFaults
      /\ call[a].copy.status \in Statuses
      /\ call[a].tick \in 0..Days /\ call[a].next \in 1..(Days + 1)
      /\ call[a].copy.failures <= faults
      /\ call[a].copy.status # "active" => call[a].copy.days < Days
      /\ pc[a] \in Places[a]
      /\ a = "worker" /\ pc[a] # "idle" => call[a].tick \in Ticks
      /\ a = "operator" => call[a].tick = 0
  BY CallFields DEF Shape, Sound
<1>3. /\ NoCall \in Call /\ NoCall.tick = 0
      /\ NoCall.copy.failures <= faults /\ NoCall.copy.days < Days
      /\ "idle" \in Places[a]
  BY <1>1 DEF NoCall, Call, Fresh, Record, Statuses, Places, Actors
<1>4. ASSUME NEW threw \in BOOLEAN, End(a, threw), pc[a] # "idle",
             record' \in Record, project' \in Project, Sound(record)', incidents' \subseteq Incidents,
             UNCHANGED <<override, clock>>
      PROVE  Shape'
  BY <1>1, <1>3, <1>4, EndTypes, ShapeOf DEF clock
<1>5. CASE ReadRecord(a)
  <2>1. [call[a] EXCEPT !.copy = record] \in Call
    BY <1>1, <1>2 DEF Call
  <2>2. "override" \in Places[a] \ {"send"} /\ pc[a] # "idle" /\ incidents' \subseteq Incidents
    BY <1>1, <1>2, <1>5 DEF ReadRecord, Places, Actors, Mark, Overlap, Incidents
  <2> DEFINE c == [call[a] EXCEPT !.copy = record]
  <2>3. /\ pc' = [pc EXCEPT ![a] = "override"] /\ call' = [call EXCEPT ![a] = c]
        /\ UNCHANGED <<record, project, override, job, tried, clock>>
    BY <1>2, <1>5 DEF ReadRecord, Goto, queue
  <2>4. c \in Call /\ c.copy = record /\ c.tick = call[a].tick
    BY <1>2, <2>1 DEF Call
  <2> HIDE DEF c
  <2> QED
    BY <1>1, <2>2, <2>3, <2>4, ShapeKept
<1>6. CASE ReadOverride(a)
  <2>1. incidents' \subseteq Incidents /\ a # "boot" /\ Sound(record)' /\ pc[a] # "idle"
    BY <1>1, <1>2, <1>6 DEF ReadOverride, Mark, Incidents, Places, Actors, Sound, clock
  <2>2. CASE ToForce(a)
    <3> DEFINE c == [copy |-> Forced, tick |-> call[a].tick, next |-> call[a].next, after |-> "clear"]
    <3>1. Forced \in Record /\ Forced.failures <= faults /\ Forced.status = "active"
      BY <1>1 DEF Forced, Record, Statuses
    <3>2. c \in Call /\ c.copy = Forced /\ c.tick = call[a].tick
      BY <1>2, <3>1 DEF Call
    <3>0. "save" \in Places[a]
      BY <2>1 DEF Places, Actors
    <3>3. call' = [call EXCEPT ![a] = c]
      BY <1>2, <2>2, <3>1, TwoFields DEF ToForce
    <3>4. /\ pc' = [pc EXCEPT ![a] = "save"]
          /\ UNCHANGED <<record, project, override, job, tried, today, faults, events, triggers>>
      BY <1>6, <2>2 DEF ReadOverride, ToForce, Goto, queue, clock
    <3> HIDE DEF c
    <3> QED
      BY <1>1, <1>2, <2>1, <3>0, <3>1, <3>2, <3>3, <3>4, ShapeOf
  <2>3. CASE End(a, FALSE)
    BY <1>1, <1>4, <1>6, <2>1, <2>3 DEF ReadOverride
  <2>4. CASE ~NothingToDo(call[a]) /\ Goto(a, "send") /\ UNCHANGED <<call, queue>>
    <3>1. call[a].copy.status # "active" /\ "send" \in Places[a]
      BY <2>1, <2>4 DEF NothingToDo, Places, Actors
    <3>2. call' = [call EXCEPT ![a] = call[a]]
      BY <1>2, <2>4
    <3>3. /\ pc' = [pc EXCEPT ![a] = "send"]
          /\ UNCHANGED <<record, project, override, job, tried, today, faults, events, triggers>>
      BY <1>6, <2>4 DEF ReadOverride, Goto, queue, clock
    <3>4. (a = "worker" => call[a].tick \in Ticks) /\ (a = "operator" => call[a].tick = 0)
      BY <1>2, <2>1
    <3> QED
      BY <1>1, <1>2, <2>1, <3>1, <3>2, <3>3, <3>4, ShapeOf
  <2> QED
    BY <1>6, <2>2, <2>3, <2>4 DEF ReadOverride
<1>7. CASE Send(a)
  <2> DEFINE days == call[a].copy.days + 1
             r == [days |-> days, failures |-> 0, status |-> IF days >= Days THEN "active" ELSE "warming_up"]
             c == [call[a] EXCEPT !.copy = r]
  <2>1. call[a].copy.days < Days
    BY <1>2, <1>7 DEF Send, Shape
  <2>2. r \in Record /\ r.failures <= faults /\ (r.status # "active" => r.days < Days)
    BY <1>1, <1>2, <2>1 DEF Record, Statuses
  <2>3. c \in Call /\ c.copy = r /\ c.tick = call[a].tick
    BY <1>2, <2>2 DEF Call
  <2>4. /\ call' = [call EXCEPT ![a] = c] /\ "save" \in Places[a]
        /\ incidents' \subseteq Incidents /\ Sound(record)'
    BY <1>1, <1>2, <1>7 DEF Send, Mark, Incidents, Places, Actors, Sound, clock
  <2>5. /\ pc' = [pc EXCEPT ![a] = "save"]
        /\ UNCHANGED <<record, project, override, job, tried, today, faults, events, triggers>>
    BY <1>7 DEF Send, Goto, queue, clock
  <2> HIDE DEF r
  <2>6. c.copy.failures <= faults' /\ (c.copy.status # "active" => c.copy.days < Days)
    BY <2>2, <2>3, <2>5
  <2>7. (a = "worker" => c.tick \in Ticks) /\ (a = "operator" => c.tick = 0)
    BY <1>2, <1>7, <2>3 DEF Send
  <2> HIDE DEF c
  <2> QED
    BY <1>1, <2>3, <2>4, <2>5, <2>6, <2>7, ShapeOf
<1>8. CASE Save(a)
  <2>1. call' = [call EXCEPT ![a] = call[a]] /\ "sync" \in Places[a] \ {"send"} /\ pc[a] # "idle"
    BY <1>2, <1>8 DEF Save, Places, Actors
  <2>2. /\ pc' = [pc EXCEPT ![a] = "sync"] /\ record' = call[a].copy
        /\ UNCHANGED <<project, override, job, tried, clock, incidents>>
    BY <1>8 DEF Save, Goto, queue
  <2> QED
    BY <1>1, <1>2, <2>1, <2>2, ShapeKept
<1>9. CASE Sync(a)
  <2>1. project' \in Project /\ Sound(record)'
    BY <1>1, <1>2, <1>9 DEF Sync, Shown, Project, Sound, clock
  <2>2. CASE UNCHANGED <<call, queue>> /\ Goto(a, "clear")
    <3>1. call' = [call EXCEPT ![a] = call[a]] /\ "clear" \in Places[a] \ {"send"} /\ pc[a] # "idle"
      BY <1>2, <1>9, <2>2 DEF Places, Actors, Sync
    <3>2. /\ pc' = [pc EXCEPT ![a] = "clear"]
          /\ UNCHANGED <<record, override, job, tried, clock, incidents>>
      BY <1>9, <2>2 DEF Sync, Goto, queue
    <3> QED
      BY <1>1, <1>2, <2>1, <3>1, <3>2, ShapeKept
  <2>3. CASE End(a, call[a].after = "throw")
    BY <1>1, <1>4, <1>9, <2>1, <2>3 DEF Sync
  <2> QED
    BY <1>9, <2>2, <2>3 DEF Sync
<1>10. CASE Clear(a)
  <2> DEFINE t == call[a].next
             c == [call[a] EXCEPT !.next = t + 1]
  <2>1. Sound(record)' /\ pc[a] # "idle"
    BY <1>1, <1>10 DEF Clear, Sound, clock
  <2>2. CASE End(a, FALSE)
    BY <1>1, <1>4, <1>10, <2>1, <2>2 DEF Clear
  <2>3. CASE End(a, TRUE)
    BY <1>1, <1>4, <1>10, <2>1, <2>3 DEF Clear
  <2>4. CASE /\ ~(t > Days)
             /\ job' = [job EXCEPT ![t] = "none"] /\ tried' = [tried EXCEPT ![t] = 0]
             /\ call' = [call EXCEPT ![a].next = t + 1] /\ UNCHANGED pc
    <3>1. t \in Ticks /\ c \in Call /\ c.copy = call[a].copy /\ c.tick = call[a].tick
      BY <1>2, <2>4 DEF Call, Ticks
    <3>2. /\ call' = [call EXCEPT ![a] = c] /\ pc' = [pc EXCEPT ![a] = "clear"]
          /\ job' \in [Ticks -> JobStates] /\ tried' \in [Ticks -> 0..Attempts]
      BY <1>1, <1>2, <1>10, <2>4, <3>1 DEF Clear, JobStates, Shape, TypeOK
    <3>3. /\ pc[a] # "idle" /\ "clear" \in Places[a] \ {"send"}
          /\ UNCHANGED <<record, project, override, clock, incidents>>
      BY <1>2, <1>10 DEF Clear
    <3> HIDE DEF c
    <3> QED
      BY <1>1, <3>1, <3>2, <3>3, ShapeKept
  <2> QED
    BY <1>10, <2>2, <2>3, <2>4 DEF Clear
<1>11. CASE Load(a)
  <2>1. Sound(record)' /\ a # "worker"
    BY <1>1, <1>2, <1>11 DEF Load, Sound, clock, Places
  <2>2. CASE Goto(a, "idle") /\ UNCHANGED call
    <3>1. call' = [call EXCEPT ![a] = call[a]] /\ pc[a] # "idle"
      BY <1>2, <1>11, <2>2 DEF Load
    <3>2. /\ pc' = [pc EXCEPT ![a] = "idle"]
          /\ UNCHANGED <<record, project, override, job, tried, clock, incidents>>
      BY <1>11, <2>2 DEF Load, Goto, queue
    <3> QED
      BY <1>1, <1>2, <1>3, <3>1, <3>2, ShapeKept
  <2>3. CASE Goto(a, "plan") /\ call' = [call EXCEPT ![a].copy = record]
    <3> DEFINE c == [call[a] EXCEPT !.copy = record]
    <3>1. c \in Call /\ c.copy = record /\ c.tick = call[a].tick /\ call' = [call EXCEPT ![a] = c]
      BY <1>1, <1>2, <2>3 DEF Call
    <3>2. "plan" \in Places[a] \ {"send"} /\ pc[a] # "idle"
      BY <1>11, <2>1 DEF Load, Places, Actors
    <3>3. /\ pc' = [pc EXCEPT ![a] = "plan"]
          /\ UNCHANGED <<record, project, override, job, tried, clock, incidents>>
      BY <1>11, <2>3 DEF Load, Goto, queue
    <3> HIDE DEF c
    <3> QED
      BY <1>1, <3>1, <3>2, <3>3, ShapeKept
  <2> QED
    BY <1>11, <2>2, <2>3 DEF Load
<1>12. CASE Plan(a)
  <2>1. Sound(record)' /\ a # "worker" /\ pc[a] # "idle"
    BY <1>1, <1>2, <1>12 DEF Plan, Sound, clock, Places
  <2>2. CASE End(a, FALSE)
    BY <1>1, <1>4, <1>12, <2>1, <2>2 DEF Plan
  <2>3. CASE Goto(a, "schedule") /\ call' = [call EXCEPT ![a].next = call[a].copy.days + 1] /\ UNCHANGED queue
    <3> DEFINE c == [call[a] EXCEPT !.next = call[a].copy.days + 1]
    <3>1. c \in Call /\ c.copy = call[a].copy /\ c.tick = call[a].tick /\ call' = [call EXCEPT ![a] = c]
      BY <1>1, <1>2, <2>3 DEF Call
    <3>2. "schedule" \in Places[a] \ {"send"}
      BY <2>1 DEF Places, Actors
    <3>3. /\ pc' = [pc EXCEPT ![a] = "schedule"]
          /\ UNCHANGED <<record, project, override, job, tried, clock, incidents>>
      BY <1>12, <2>3 DEF Plan, Goto, queue
    <3> HIDE DEF c
    <3> QED
      BY <1>1, <2>1, <3>1, <3>2, <3>3, ShapeKept
  <2> QED
    BY <1>12, <2>2, <2>3 DEF Plan
<1>13. CASE Schedule(a)
  <2> DEFINE t == call[a].next
             c == [call[a] EXCEPT !.next = t + 1]
  <2>1. Sound(record)' /\ pc[a] # "idle"
    BY <1>1, <1>13 DEF Schedule, Sound, clock
  <2>2. CASE End(a, FALSE)
    BY <1>1, <1>4, <1>13, <2>1, <2>2 DEF Schedule
  <2>3. CASE /\ ~(t > Days)
             /\ job' = [job EXCEPT ![t] = IF @ = "none" THEN "delayed" ELSE @]
             /\ call' = [call EXCEPT ![a].next = t + 1] /\ UNCHANGED <<pc, tried>>
    <3>1. t \in Ticks /\ c \in Call /\ c.copy = call[a].copy /\ c.tick = call[a].tick
      BY <1>2, <2>3 DEF Call, Ticks
    <3>2. /\ call' = [call EXCEPT ![a] = c] /\ pc' = [pc EXCEPT ![a] = "schedule"]
          /\ job' \in [Ticks -> JobStates]
      BY <1>1, <1>2, <1>13, <2>3, <3>1 DEF Schedule, JobStates, Shape, TypeOK
    <3>3. /\ pc[a] # "idle" /\ "schedule" \in Places[a] \ {"send"}
          /\ UNCHANGED <<record, project, override, tried, clock, incidents>>
      BY <1>2, <1>13, <2>3 DEF Schedule
    <3> HIDE DEF c
    <3> QED
      BY <1>1, <3>1, <3>2, <3>3, ShapeKept
  <2> QED
    BY <1>13, <2>2, <2>3 DEF Schedule
<1> QED
  BY <1>5, <1>6, <1>7, <1>8, <1>9, <1>10, <1>11, <1>12, <1>13 DEF Step

LEMMA FailureCounted ==
  ASSUME NEW r \in Record, r.failures < MaxFaults
  PROVE  /\ CountFailure(r) \in Record
         /\ CountFailure(r).days = r.days /\ CountFailure(r).failures = r.failures + 1
         /\ CountFailure(r).status \in {r.status, "warmup_failed"}
<1> DEFINE f == [r EXCEPT !.failures = r.failures + 1]
           status == IF r.failures + 1 >= MaxFailures THEN "warmup_failed" ELSE r.status
<1>1. /\ f = [days |-> r.days, failures |-> r.failures + 1, status |-> r.status]
      /\ r.failures + 1 \in 0..MaxFaults /\ status \in {r.status, "warmup_failed"}
  BY WarmupAssumption DEF Record
<1>2. CountFailure(r) = [f EXCEPT !.status = status]
  BY <1>1 DEF CountFailure
<1>3. CountFailure(r) = [days |-> r.days, failures |-> r.failures + 1, status |-> status]
  BY <1>1, <1>2
<1> QED
  BY <1>1, <1>3 DEF Record, Statuses

LEMMA ShapeSendFails ==
  ASSUME Shape, NEW a \in Actors, SendFails(a)
  PROVE  Shape'
<1> USE WarmupAssumption
<1> DEFINE r == CountFailure(call[a].copy)
           c == [copy |-> r, tick |-> call[a].tick, next |-> call[a].next, after |-> "throw"]
<1>1. /\ call[a].copy \in Record /\ call[a].copy.failures <= faults
      /\ call[a].copy.status # "active" => call[a].copy.days < Days
      /\ call \in [Actors -> Call] /\ call[a].copy.failures \in 0..MaxFaults
      /\ faults \in 0..MaxFaults /\ faults' = faults + 1 /\ faults < MaxFaults
      /\ pc[a] = "send" /\ pc[a] \in Places[a] /\ pc' = [pc EXCEPT ![a] = "save"]
      /\ UNCHANGED <<record, project, override, job, tried, today, events, triggers, incidents>>
  BY CallFields DEF SendFails, Shape, TypeOK, Sound, Goto, queue
<1>2. /\ r \in Record /\ r.failures <= faults' /\ (r.status # "active" => r.days < Days)
  <2>1. call[a].copy.status # "active"
    BY <1>1 DEF Shape
  <2> QED
    BY <1>1, <2>1, FailureCounted
<1>3. call' = [call EXCEPT ![a] = c]
  BY <1>1, <1>2, TwoFields DEF SendFails
<1>4. c \in Call /\ c.copy = r /\ c.tick = call[a].tick
  BY <1>1, <1>2 DEF Call
<1>5. Sound(record)' /\ "save" \in Places[a] /\ faults' \in faults..MaxFaults
  BY <1>1 DEF Shape, TypeOK, Record, Sound, Places, Actors
<1>6. (a = "worker" => c.tick \in Ticks) /\ (a = "operator" => c.tick = 0)
  BY <1>1, <1>4 DEF Shape
<1> HIDE DEF r, c
<1> QED
  BY <1>1, <1>2, <1>3, <1>4, <1>5, <1>6, ShapeOf DEF Shape, TypeOK

LEMMA ShapeQueue ==
  ASSUME Shape, NEW t \in Ticks, Take(t) \/ Forget(t) \/ Manage(t)
  PROVE  Shape'
<1> USE WarmupAssumption
<1>1. CASE Take(t)
  <2> DEFINE c == [call["worker"] EXCEPT !.tick = t]
  <2>1. /\ call \in [Actors -> Call] /\ call["worker"] \in Call
        /\ t \in 0..Days /\ Sound(call["worker"].copy)
    BY DEF Shape, TypeOK, Ticks, Actors
  <2>2. c \in Call /\ c.copy = call["worker"].copy /\ c.tick = t /\ call' = [call EXCEPT !["worker"] = c]
    BY <1>1, <2>1 DEF Call, Take
  <2>3. /\ pc' = [pc EXCEPT !["worker"] = "read"] /\ "read" \in Places["worker"]
        /\ job' \in [Ticks -> JobStates]
        /\ UNCHANGED <<record, project, override, tried, today, faults, events, triggers, incidents>>
    BY <1>1 DEF Take, Goto, clock, Places, Shape, TypeOK, JobStates
  <2>4. /\ c.copy.failures <= faults' /\ (c.copy.status # "active" => c.copy.days < Days)
        /\ Sound(record)' /\ faults' \in faults..MaxFaults
    BY <2>1, <2>2, <2>3 DEF Sound, Shape, TypeOK
  <2> HIDE DEF c
  <2> QED
    BY <2>2, <2>3, <2>4, ShapeOf DEF Actors, Shape, TypeOK
<1>2. CASE Forget(t)
  BY <1>2 DEF Forget, clock, Shape, TypeOK, JobStates, Sound
<1>3. CASE Manage(t)
  <2>1. /\ events' \in 0..MaxEvents
        /\ UNCHANGED <<record, project, override, pc, call, today, faults, triggers>>
    BY <1>3 DEF Manage, Calls, Shape, TypeOK
  <2>2. /\ job' \in {[job EXCEPT ![t] = "waiting"], [job EXCEPT ![t] = "none"]}
        /\ tried' \in {tried, [tried EXCEPT ![t] = 0]}
        /\ incidents' \in {incidents, incidents \cup {"promoted"}, incidents \cup {"stopped"}}
    BY <1>3 DEF Manage, Mark
  <2>3. /\ job' \in [Ticks -> JobStates] /\ tried' \in [Ticks -> 0..Attempts]
        /\ incidents' \subseteq Incidents
    BY <2>2 DEF Shape, TypeOK, JobStates, Incidents
  <2> QED
    BY <2>1, <2>3 DEF Shape, TypeOK, Sound
<1> QED
  BY <1>1, <1>2, <1>3

LEMMA ShapeOperator ==
  ASSUME Shape, Counted, Trigger \/ Pause \/ Resume \/ ForceActive \/ ForceRecord
  PROVE  Shape'
<1> USE WarmupAssumption
<1> DEFINE o == "operator"
<1>1. /\ o \in Actors /\ call \in [Actors -> Call] /\ call[o] \in Call /\ call[o].tick = 0
      /\ call[o].copy.failures <= faults /\ (call[o].copy.status # "active" => call[o].copy.days < Days)
      /\ {"read", "clear", "resume", "force", "save"} \subseteq Places[o]
  BY DEF Shape, TypeOK, Actors, Sound, Places
<1>2. ASSUME NEW p \in {"read", "clear", "resume", "force"}, Goto(o, p), Calls,
             override' \in {override, "default", "paused", "force_active"},
             triggers' \in {triggers, triggers + 1},
             incidents' \in {incidents, incidents \cup {"stopped"}, incidents \cup {"forced"}},
             UNCHANGED <<record, project, queue, call, today, faults>>
      PROVE  Shape'
  <2>1. events' \in 0..MaxEvents /\ triggers' \in 0..MaxEvents
    BY <1>2 DEF Calls, Counted, Shape, TypeOK
  <2>2. incidents' \subseteq Incidents /\ override' \in {"default", "paused", "force_active"}
    BY <1>2 DEF Shape, TypeOK, Incidents
  <2>3. /\ call' = [call EXCEPT ![o] = call[o]] /\ pc' = [pc EXCEPT ![o] = p]
        /\ Sound(record)' /\ faults' \in faults..MaxFaults
    BY <1>1, <1>2 DEF Goto, Shape, TypeOK, Sound
  <2>4. UNCHANGED <<record, project, job, tried, today, faults>>
    BY <1>2 DEF queue
  <2> QED
    BY <1>1, <2>1, <2>2, <2>3, <2>4, ShapeOf DEF Shape, TypeOK
<1>3. CASE ForceRecord
  <2> DEFINE c == [copy |-> Forced, tick |-> call[o].tick, next |-> call[o].next, after |-> "clear"]
  <2>1. Forced \in Record /\ Forced.failures <= faults /\ Forced.status = "active"
    BY DEF Forced, Record, Statuses, Shape, TypeOK
  <2>2. c \in Call /\ c.copy = Forced /\ c.tick = 0
    BY <1>1, <2>1 DEF Call
  <2>3. call' = [call EXCEPT ![o] = c]
    <3>1. call' = [call EXCEPT ![o].copy = Forced, ![o].after = "clear"]
      BY <1>3 DEF ForceRecord, ToForce
    <3> QED
      BY <1>1, <2>1, <3>1, TwoFields
  <2>4. /\ pc' = [pc EXCEPT ![o] = "save"] /\ incidents' \subseteq Incidents
        /\ UNCHANGED <<record, project, override, job, tried, today, faults, events, triggers>>
    <3>1. Overlap("operator") \subseteq {"overlap"}
      BY DEF Overlap
    <3> QED
      BY <1>3, <3>1 DEF ForceRecord, ToForce, Goto, queue, clock, Mark, Incidents, Shape, TypeOK
  <2>5. Sound(record)' /\ faults' \in faults..MaxFaults
    BY <2>4 DEF Shape, TypeOK, Sound
  <2> HIDE DEF c
  <2> QED
    BY <1>1, <2>1, <2>2, <2>3, <2>4, <2>5, ShapeOf DEF Shape, TypeOK
<1>4. CASE Trigger
  BY <1>2, <1>4 DEF Trigger, queue
<1>5. CASE Pause
  BY <1>2, <1>5 DEF Pause, queue, Mark
<1>6. CASE Resume
  BY <1>2, <1>6 DEF Resume, queue
<1>7. CASE ForceActive
  BY <1>2, <1>7 DEF ForceActive, queue, Mark
<1> QED
  BY <1>3, <1>4, <1>5, <1>6, <1>7

LEMMA ShapeCrash ==
  ASSUME Shape, Crash
  PROVE  Shape'
<1>1. NoCall \in Call /\ NoCall.tick = 0 /\ NoCall.copy = Fresh
  BY WarmupAssumption DEF NoCall, Call, Fresh, Record, Statuses
<1>2. TypeOK'
  BY <1>1, WarmupAssumption DEF Shape, TypeOK, Crash, Mark, Incidents, JobStates
<1>3. \A a \in Actors : pc'[a] \in Places[a] /\ pc'[a] \notin {"send"} /\ call'[a] = NoCall
  BY DEF Crash, Places, Actors
<1>4. Sound(Fresh)' /\ Sound(record)'
  BY WarmupAssumption DEF Fresh, Sound, Crash, Shape, TypeOK
<1> QED
  BY <1>1, <1>2, <1>3, <1>4 DEF Shape, Crash, Actors, Sound

LEMMA ShapeNext == Shape /\ Counted /\ [Next]_vars => Shape' /\ Counted'
<1> SUFFICES ASSUME Shape, Counted, [Next]_vars PROVE Shape' /\ Counted'
  OBVIOUS
<1>1. CASE UNCHANGED vars
  BY <1>1 DEF vars, queue, clock, Shape, Counted, TypeOK, Sound
<1>2. CASE DayPasses
  BY <1>2, WarmupAssumption DEF DayPasses, queue, Shape, Counted, TypeOK, Sound, Ticks
<1>3. CASE Crash
  BY <1>3, ShapeCrash DEF Crash, Counted, Shape, TypeOK
<1>4. CASE Trigger \/ Pause \/ Resume \/ ForceActive \/ ForceRecord
  <2>1. Counted'
    BY <1>4 DEF Trigger, Pause, Resume, ForceActive, ForceRecord, Calls, Counted, clock, Shape, TypeOK
  <2> QED
    BY <1>4, <2>1, ShapeOperator
<1>5. ASSUME NEW a \in Actors, Step(a) PROVE Counted'
  BY <1>5 DEF Step, ReadRecord, ReadOverride, Send, Save, Sync, Clear, Load, Plan, Schedule, Counted, clock
<1>6. ASSUME NEW a \in Actors, SendFails(a) PROVE Counted'
  BY <1>6 DEF SendFails, Counted
<1>7. ASSUME NEW t \in Ticks, Take(t) \/ Forget(t) \/ Manage(t) PROVE Counted'
  BY <1>7 DEF Take, Forget, Manage, Calls, Counted, clock, Shape, TypeOK
<1> QED
  BY <1>1, <1>2, <1>3, <1>4, <1>5, <1>6, <1>7, ShapeStep, ShapeSendFails, ShapeQueue DEF Next

-----------------------------------------------------------------------------
(* Every step keeps the calendar.                                           *)

\* What the calendar's steps need to know of the types.
LEMMA Plain ==
  ASSUME Shape
  PROVE  /\ today \in 1..Days /\ triggers \in Nat /\ Days \in Nat \ {0}
         /\ record.days \in Nat /\ record.days <= Days
         /\ pc \in [Actors -> Labels] /\ call \in [Actors -> Call]
         /\ job \in [Ticks -> JobStates] /\ tried \in [Ticks -> 0..Attempts]
         /\ \A a \in Actors : call[a].copy.days \in Nat /\ call[a].tick \in Nat
         /\ pc["worker"] \in Places["worker"] /\ pc["operator"] \in Places["operator"]
         /\ pc["boot"] \in Places["boot"]
         /\ pc["worker"] # "idle" => call["worker"].tick \in Ticks
         /\ call["operator"].tick = 0
<1>1. TypeOK
  BY DEF Shape
<1>2. /\ today \in 1..Days /\ triggers \in Nat /\ Days \in Nat \ {0}
      /\ record.days \in Nat /\ record.days <= Days
      /\ pc \in [Actors -> Labels] /\ call \in [Actors -> Call]
      /\ job \in [Ticks -> JobStates] /\ tried \in [Ticks -> 0..Attempts]
  BY <1>1, WarmupAssumption DEF TypeOK, Record, Ticks, Labels
<1>3. \A a \in Actors : call[a].copy.days \in Nat /\ call[a].tick \in Nat
  BY <1>2, WarmupAssumption DEF Call, Record
<1> QED
  BY <1>2, <1>3 DEF Shape, Actors

\* A call that ends leaves jobs that were due.
LEMMA EndsDue ==
  ASSUME Shape, NEW a \in Actors, NEW threw \in BOOLEAN, End(a, threw), pc[a] # "idle",
         \A t \in Ticks : job[t] \in {"waiting", "active", "failed"} => t <= today,
         pc["worker"] # "idle" => call["worker"].tick <= today
  PROVE  \A t \in Ticks : job'[t] \in {"waiting", "active", "failed"} => t <= today
<1>1. CASE a = "worker"
  <2>1. \A t \in Ticks : t # call["worker"].tick => job'[t] = job[t]
    BY <1>1, Plain DEF End, Settle
  <2> QED
    BY <1>1, <2>1
<1>2. CASE a # "worker"
  BY <1>2 DEF End, queue
<1> QED
  BY <1>1, <1>2

LEMMA CalendarStep ==
  ASSUME Shape, Calendar, NEW a \in Actors, Step(a)
  PROVE  Calendar'
<1> SUFFICES ASSUME ~Spoiled({"forced", "promoted"})'
             PROVE  Calendar'
  BY DEF Calendar
<1>1. ~Spoiled({"forced", "promoted"}) /\ UNCHANGED <<override, clock>>
  BY DEF Spoiled, Mark, Step, ReadRecord, ReadOverride, Send, Save, Sync, Clear, Load, Plan, Schedule
<1>2. /\ override # "force_active" /\ pc["operator"] # "force"
      /\ \A t \in Ticks : job[t] \in {"waiting", "active", "failed"} => t <= today
      /\ pc["worker"] # "idle" => call["worker"].tick <= today
      /\ Owed <= triggers
      /\ record.days + Owed <= today + triggers
      /\ pc["operator"] \in {"override", "send"} => call["operator"].copy.days + 1 <= today + triggers
      /\ pc["operator"] \in {"save", "sync"} => call["operator"].copy.days <= today + triggers
      /\ pc["worker"] = "send" => call["worker"].copy.days + 1 <= today
      /\ pc["worker"] \in {"save", "sync"} => call["worker"].copy.days <= today
  BY <1>1 DEF Calendar
<1>3. /\ \A b \in Actors \ {a} : pc'[b] = pc[b] /\ call'[b] = call[b]
      /\ a \in {"worker", "operator", "boot"}
      /\ today' = today /\ triggers' = triggers /\ override' = override
  BY <1>1, Plain DEF Step, ReadRecord, ReadOverride, ToForce, Send, Save, Sync, Clear, Load, Plan, Schedule,
                     End, Goto, Actors, clock
<1>4. ASSUME NEW threw \in BOOLEAN, End(a, threw), pc[a] # "idle", UNCHANGED record
      PROVE  Calendar'
  <2>1. \A t \in Ticks : job'[t] \in {"waiting", "active", "failed"} => t <= today'
    BY <1>2, <1>3, <1>4, EndsDue
  <2>2. pc'[a] = "idle"
    BY <1>4, Plain DEF End, Goto
  <2>3. Owed' \in Nat /\ Owed' <= Owed /\ Owed \in Nat
    BY <1>3, <2>2 DEF Owed, Actors
  <2> QED
    BY <1>2, <1>3, <1>4, <2>1, <2>2, <2>3, Plain DEF Calendar, Actors
<1>5. CASE ReadRecord(a)
  <2>1. /\ pc[a] = "read" /\ pc'[a] = "override" /\ UNCHANGED <<record, job>>
        /\ call'[a].copy = record /\ call'[a].tick = call[a].tick
    BY <1>5, Plain DEF ReadRecord, Goto, queue, Call
  <2>2. a # "boot"
    BY <2>1, Plain DEF Places
  <2> QED
    BY <1>2, <1>3, <2>1, <2>2, Plain DEF Calendar, Owed, Actors
<1>6. CASE ReadOverride(a)
  <2>1. pc[a] = "override" /\ UNCHANGED record /\ a # "boot"
    BY <1>6, Plain DEF ReadOverride, Places
  <2>2. CASE End(a, FALSE)
    BY <1>4, <2>1, <2>2
  <2>3. CASE ~NothingToDo(call[a]) /\ Goto(a, "send") /\ UNCHANGED <<call, queue>>
    <3>1. /\ pc'[a] = "send" /\ call'[a] = call[a] /\ job' = job
          /\ call[a].tick # 0 => call[a].copy.days < call[a].tick /\ call[a].copy.days + 1 >= call[a].tick
      BY <2>3, Plain DEF NothingToDo, TooSoon, Goto, queue
    <3>2. a = "worker" => call[a].copy.days + 1 <= today
      <4>1. call[a].copy.days \in Nat /\ call[a].tick \in Nat /\ today \in Nat
        BY Plain
      <4>2. a = "worker" => call[a].tick \in 1..Days /\ call[a].tick <= today
        BY <1>2, <2>1, Plain DEF Ticks
      <4>3. a = "worker" => call[a].copy.days < call[a].tick
        BY <3>1, <4>2
      <4> QED
        BY <4>1, <4>2, <4>3
    <3>3. CASE a = "worker"
      <4>1. pc'["operator"] = pc["operator"] /\ call'["operator"] = call["operator"] /\ Owed' = Owed
        BY <1>3, <3>3 DEF Owed, Actors
      <4> QED
        BY <1>2, <1>3, <2>1, <3>1, <3>2, <3>3, <4>1 DEF Calendar
    <3>4. CASE a = "operator"
      <4>1. pc'["worker"] = pc["worker"] /\ call'["worker"] = call["worker"] /\ Owed' = Owed
        BY <1>3, <2>1, <3>1, <3>4 DEF Owed, Actors
      <4> QED
        BY <1>2, <1>3, <2>1, <3>1, <3>4, <4>1 DEF Calendar
    <3> QED
      BY <1>3, <2>1, <3>3, <3>4
  <2> QED
    BY <1>2, <1>6, <2>2, <2>3 DEF ReadOverride
<1>7. CASE Send(a)
  <2>1. /\ pc[a] = "send" /\ pc'[a] = "save" /\ UNCHANGED <<record, job>>
        /\ call'[a].copy.days = call[a].copy.days + 1 /\ call'[a].tick = call[a].tick
    BY <1>7, Plain DEF Send, Goto, queue, Call
  <2>2. a # "boot"
    BY <2>1, Plain DEF Places
  <2> QED
    BY <1>2, <1>3, <2>1, <2>2, Plain DEF Calendar, Owed, Actors
<1>8. CASE Save(a)
  <2>1. /\ pc[a] = "save" /\ pc'[a] = "sync" /\ job' = job /\ record' = call[a].copy /\ call' = call
    BY <1>8, Plain DEF Save, Goto, queue
  <2>2. a # "boot"
    BY <2>1, Plain DEF Places
  <2> QED
    BY <1>2, <1>3, <2>1, <2>2, Plain DEF Calendar, Owed, Actors
<1>9. CASE Sync(a)
  <2>1. pc[a] = "sync" /\ UNCHANGED record /\ a # "boot"
    BY <1>9, Plain DEF Sync, Places
  <2>2. CASE UNCHANGED <<call, queue>> /\ Goto(a, "clear")
    <3>1. pc'[a] = "clear" /\ call' = call /\ job' = job
      BY <2>2, Plain DEF Goto, queue
    <3> QED
      BY <1>2, <1>3, <2>1, <3>1, Plain DEF Calendar, Owed, Actors
  <2>3. CASE End(a, call[a].after = "throw")
    BY <1>4, <2>1, <2>3
  <2> QED
    BY <1>9, <2>2, <2>3 DEF Sync
<1>10. CASE Clear(a)
  <2>1. pc[a] = "clear" /\ UNCHANGED record
    BY <1>10 DEF Clear
  <2>2. CASE End(a, FALSE) \/ End(a, TRUE)
    BY <1>4, <2>1, <2>2
  <2>3. CASE /\ job' = [job EXCEPT ![call[a].next] = "none"]
             /\ call' = [call EXCEPT ![a].next = call[a].next + 1] /\ UNCHANGED pc
    <3>1. \A t \in Ticks : job'[t] \in {"none", job[t]}
      BY <2>3, Plain
    <3>2. call'[a].tick = call[a].tick /\ call'[a].copy = call[a].copy
      BY <2>3, Plain DEF Call
    <3> QED
      BY <1>2, <1>3, <2>1, <2>3, <3>1, <3>2, Plain DEF Calendar, Owed, Actors
  <2> QED
    BY <1>10, <2>2, <2>3 DEF Clear
<1>11. CASE Load(a)
  <2>1. /\ pc[a] \in {"resume", "reconcile"} /\ pc'[a] \in {"idle", "plan"}
        /\ call'[a].tick = call[a].tick /\ UNCHANGED <<record, job>>
    BY <1>11, Plain DEF Load, Goto, queue, Call
  <2>2. a # "worker"
    BY <2>1, Plain DEF Places
  <2> QED
    BY <1>2, <1>3, <2>1, <2>2, Plain DEF Calendar, Owed, Actors
<1>12. CASE Plan(a)
  <2>1. pc[a] = "plan" /\ UNCHANGED record /\ a # "worker"
    BY <1>12, Plain DEF Plan, Places
  <2>2. CASE End(a, FALSE)
    BY <1>4, <2>1, <2>2
  <2>3. CASE Goto(a, "schedule") /\ UNCHANGED queue
    <3>1. pc'[a] = "schedule" /\ job' = job
      BY <2>3, Plain DEF Goto, queue
    <3> QED
      BY <1>2, <1>3, <2>1, <3>1, Plain DEF Calendar, Owed, Actors
  <2> QED
    BY <1>12, <2>2, <2>3 DEF Plan
<1>13. CASE Schedule(a)
  <2>1. pc[a] = "schedule" /\ UNCHANGED record /\ a # "worker"
    BY <1>13, Plain DEF Schedule, Places
  <2>2. CASE End(a, FALSE)
    BY <1>4, <2>1, <2>2
  <2>3. CASE /\ job' = [job EXCEPT ![call[a].next] = IF @ = "none" THEN "delayed" ELSE @]
             /\ UNCHANGED pc
    <3>1. \A t \in Ticks : job'[t] \in {"delayed", job[t]}
      BY <2>3, Plain
    <3> QED
      BY <1>2, <1>3, <2>1, <2>3, <3>1, Plain DEF Calendar, Owed, Actors
  <2> QED
    BY <1>13, <2>2, <2>3 DEF Schedule
<1> QED
  BY <1>5, <1>6, <1>7, <1>8, <1>9, <1>10, <1>11, <1>12, <1>13 DEF Step

LEMMA CalendarRest ==
  ASSUME Shape, Calendar, Counted,
         \/ \E a \in Actors : SendFails(a)
         \/ \E t \in Ticks : Take(t) \/ Forget(t) \/ Manage(t)
         \/ Trigger \/ Pause \/ Resume \/ ForceActive \/ ForceRecord
         \/ DayPasses \/ Crash
  PROVE  Calendar'
<1> SUFFICES ASSUME ~Spoiled({"forced", "promoted"})'
             PROVE  Calendar'
  BY DEF Calendar
<1>1. ~Spoiled({"forced", "promoted"})
  BY DEF Spoiled, Mark, SendFails, Take, Forget, Manage, Trigger, Pause, Resume, ForceActive,
         ForceRecord, DayPasses, Crash
<1>2. /\ override # "force_active" /\ pc["operator"] # "force"
      /\ \A t \in Ticks : job[t] \in {"waiting", "active", "failed"} => t <= today
      /\ pc["worker"] # "idle" => call["worker"].tick <= today
      /\ Owed <= triggers
      /\ record.days + Owed <= today + triggers
      /\ pc["operator"] \in {"override", "send"} => call["operator"].copy.days + 1 <= today + triggers
      /\ pc["operator"] \in {"save", "sync"} => call["operator"].copy.days <= today + triggers
      /\ pc["worker"] = "send" => call["worker"].copy.days + 1 <= today
      /\ pc["worker"] \in {"save", "sync"} => call["worker"].copy.days <= today
  BY <1>1 DEF Calendar
<1>3. ASSUME NEW a \in Actors, SendFails(a) PROVE Calendar'
  <2>1. call[a].copy \in Record /\ call[a].copy.failures < MaxFaults
    BY <1>3, CallFields, WarmupAssumption DEF SendFails, Sound, Shape, TypeOK
  <2>2. CountFailure(call[a].copy).days = call[a].copy.days
    BY <2>1, FailureCounted
  <2>3. /\ pc[a] = "send" /\ pc'[a] = "save" /\ a # "boot"
        /\ call'[a].copy.days = call[a].copy.days /\ call'[a].tick = call[a].tick
        /\ \A b \in Actors \ {a} : pc'[b] = pc[b] /\ call'[b] = call[b]
        /\ UNCHANGED <<record, override, job, today, triggers>>
    BY <1>3, <2>2, Plain DEF SendFails, Goto, queue, Call, Places
  <2> QED
    BY <1>2, <2>3, Plain DEF Calendar, Owed, Actors
<1>4. ASSUME NEW t \in Ticks, Take(t) PROVE Calendar'
  <2>1. /\ pc["worker"] = "idle" /\ pc'["worker"] = "read" /\ call'["worker"].tick = t
        /\ pc'["operator"] = pc["operator"] /\ call'["operator"] = call["operator"]
        /\ UNCHANGED <<record, override, today, triggers>>
        /\ job[t] = "waiting" \/ t <= today
        /\ job' = [job EXCEPT ![t] = "active"]
    BY <1>4, Plain DEF Take, Goto, clock, Actors, Call
  <2>2. t <= today
    BY <1>2, <2>1
  <2>3. \A u \in Ticks : job'[u] \in {"waiting", "active", "failed"} => u <= today
    BY <1>2, <2>1, <2>2, Plain
  <2> QED
    BY <1>2, <2>1, <2>2, <2>3, Plain DEF Calendar, Owed
<1>5. ASSUME NEW t \in Ticks, Forget(t) \/ Manage(t) PROVE Calendar'
  <2>1. UNCHANGED <<record, override, pc, call, today, triggers>>
    BY <1>5 DEF Forget, Manage, clock
  <2>2. \/ job' = [job EXCEPT ![t] = "none"]
        \/ job' = [job EXCEPT ![t] = "waiting"] /\ job[t] = "failed"
    BY <1>5 DEF Forget, Manage, Mark, Spoiled
  <2>3. \A u \in Ticks : job'[u] \in {"waiting", "active", "failed"} => u <= today
    BY <1>2, <2>2, Plain
  <2> QED
    BY <1>2, <2>1, <2>3 DEF Calendar, Owed
<1>6. CASE Trigger \/ Pause \/ Resume \/ ForceActive \/ ForceRecord
  <2>1. Trigger \/ Pause \/ Resume
    <3>1. ~ForceActive
      BY DEF ForceActive, Mark, Spoiled
    <3>2. ~ForceRecord
      BY <1>2 DEF ForceRecord
    <3> QED
      BY <1>6, <3>1, <3>2
  <2>2. /\ pc["operator"] = "idle" /\ pc'["worker"] = pc["worker"]
        /\ \/ pc'["operator"] = "read" /\ triggers' = triggers + 1
           \/ pc'["operator"] \in {"clear", "resume"} /\ triggers' = triggers
        /\ override' \in {override, "paused", "default"}
        /\ UNCHANGED <<record, job, call, today>>
    BY <2>1, Plain DEF Trigger, Pause, Resume, Calls, Goto, queue, Actors
  <2>3. override' # "force_active" /\ pc'["operator"] # "force"
    BY <1>2, <2>2
  <2>4. CASE pc'["operator"] = "read"
    <3>1. Owed = 0 /\ Owed' = 1 /\ triggers' = triggers + 1
      BY <2>2, <2>4 DEF Owed
    <3> QED
      BY <1>2, <2>2, <2>3, <2>4, <3>1, Plain DEF Calendar
  <2>5. CASE pc'["operator"] # "read"
    <3>1. Owed = 0 /\ Owed' = 0 /\ triggers' = triggers
      BY <2>2, <2>5 DEF Owed
    <3> QED
      BY <1>2, <2>2, <2>3, <2>5, <3>1, Plain DEF Calendar
  <2> QED
    BY <2>4, <2>5
<1>7. CASE DayPasses
  <2>1. today' = today + 1 /\ UNCHANGED <<record, override, job, pc, call, triggers>>
    BY <1>7 DEF DayPasses, queue
  <2>2. \A t \in Ticks : job[t] \in {"waiting", "active", "failed"} => t <= today'
    BY <1>2, <2>1, Plain DEF Ticks
  <2>3. Owed' = Owed /\ Owed \in Nat
    BY <2>1 DEF Owed
  <2>4. pc["worker"] # "idle" => call["worker"].tick <= today'
    BY <1>2, <2>1, Plain DEF Ticks
  <2>5. \A n \in Nat : n <= today + triggers => n <= today' + triggers
    BY <2>1, Plain
  <2>6. /\ pc["operator"] \in {"override", "send"} => call["operator"].copy.days + 1 <= today' + triggers
        /\ pc["operator"] \in {"save", "sync"} => call["operator"].copy.days <= today' + triggers
        /\ pc["worker"] = "send" => call["worker"].copy.days + 1 <= today'
        /\ pc["worker"] \in {"save", "sync"} => call["worker"].copy.days <= today'
    BY <1>2, <2>1, <2>5, Plain DEF Actors
  <2>7. record.days + Owed <= today' + triggers
    BY <1>2, <2>3, <2>5, Plain
  <2> QED
    BY <1>2, <2>1, <2>2, <2>3, <2>4, <2>6, <2>7 DEF Calendar
<1>8. CASE Crash
  <2>1. /\ pc'["operator"] = "idle" /\ pc'["worker"] = "idle"
        /\ UNCHANGED <<record, override, today, triggers>>
        /\ \A t \in Ticks : job'[t] = job[t] \/ (job'[t] = "waiting" /\ job[t] = "active")
    BY <1>8 DEF Crash, Actors
  <2> QED
    BY <1>2, <2>1, Plain DEF Calendar, Owed
<1> QED
  BY <1>3, <1>4, <1>5, <1>6, <1>7, <1>8

-----------------------------------------------------------------------------
(* Every step keeps the actors in turn.                                     *)

LEMMA InTurnStep ==
  ASSUME Shape, InTurn, NEW a \in Actors, Step(a) \/ SendFails(a)
  PROVE  InTurn'
<1> SUFFICES ASSUME ~Spoiled({"crash", "overlap"})'
             PROVE  InTurn'
  BY DEF InTurn
<1>1. ~Spoiled({"crash", "overlap"})
  BY DEF Spoiled, Mark, Step, ReadRecord, ReadOverride, Send, SendFails, Save, Sync, Clear, Load, Plan, Schedule
<1>2. /\ \A b, c \in Actors : Inside(b) /\ Inside(c) => b = c
      /\ (\A b \in Actors : pc[b] # "sync") => project = Shown(record)
      /\ \A b \in Actors : pc[b] = "sync" => record = call[b].copy
  BY <1>1 DEF InTurn
<1>3. \A b \in Actors \ {a} : pc'[b] = pc[b] /\ call'[b] = call[b]
  BY Plain DEF Step, ReadRecord, ReadOverride, ToForce, Send, SendFails, Save, Sync, Clear, Load, Plan,
               Schedule, End, Goto
<1>4. CASE ReadRecord(a)
  <2>1. /\ pc[a] = "read" /\ pc'[a] = "override" /\ UNCHANGED <<record, project>>
        /\ \A b \in Actors \ {a} : ~Inside(b)
    BY <1>4, Plain DEF ReadRecord, Goto, Mark, Overlap, Spoiled
  <2> QED
    BY <1>2, <1>3, <2>1 DEF InTurn, Inside, Shown
<1>5. CASE ReadOverride(a) \/ Send(a) \/ SendFails(a)
  <2>1. /\ pc[a] \in {"override", "send"} /\ pc'[a] \in {"idle", "send", "save"}
        /\ UNCHANGED <<record, project>>
    BY <1>5, Plain DEF ReadOverride, ToForce, Send, SendFails, End, Goto
  <2> QED
    BY <1>2, <1>3, <2>1 DEF InTurn, Inside, Shown
<1>6. CASE Save(a)
  <2>1. pc[a] = "save" /\ pc'[a] = "sync" /\ record' = call[a].copy /\ call' = call /\ project' = project
    BY <1>6, Plain DEF Save, Goto
  <2> QED
    BY <1>2, <1>3, <2>1 DEF InTurn, Inside, Shown
<1>7. CASE Sync(a)
  <2>1. /\ pc[a] = "sync" /\ pc'[a] \in {"idle", "clear"} /\ UNCHANGED record
        /\ project' = Shown(call[a].copy)
    BY <1>7, Plain DEF Sync, End, Goto
  <2>2. record = call[a].copy /\ project' = Shown(record')
    BY <1>2, <2>1 DEF Shown
  <2> QED
    BY <1>2, <1>3, <2>1, <2>2 DEF InTurn, Inside, Shown
<1>8. CASE Clear(a) \/ Load(a) \/ Plan(a) \/ Schedule(a)
  <2>1. /\ pc[a] \in {"clear", "resume", "reconcile", "plan", "schedule"}
        /\ pc'[a] \in {"clear", "idle", "plan", "schedule"} /\ UNCHANGED <<record, project>>
    BY <1>8, Plain DEF Clear, Load, Plan, Schedule, End, Goto
  <2> QED
    BY <1>2, <1>3, <2>1 DEF InTurn, Inside, Shown
<1> QED
  BY <1>4, <1>5, <1>6, <1>7, <1>8 DEF Step

LEMMA InTurnRest ==
  ASSUME Shape, InTurn,
         \/ \E t \in Ticks : Take(t) \/ Forget(t) \/ Manage(t)
         \/ Trigger \/ Pause \/ Resume \/ ForceActive \/ ForceRecord
         \/ DayPasses \/ Crash
  PROVE  InTurn'
<1> SUFFICES ASSUME ~Spoiled({"crash", "overlap"})'
             PROVE  InTurn'
  BY DEF InTurn
<1>1. ~Spoiled({"crash", "overlap"}) /\ UNCHANGED <<record, project>>
  BY DEF Spoiled, Mark, Take, Forget, Manage, Trigger, Pause, Resume, ForceActive, ForceRecord,
         ToForce, DayPasses, Crash
<1>2. /\ \A b, c \in Actors : Inside(b) /\ Inside(c) => b = c
      /\ (\A b \in Actors : pc[b] # "sync") => project = Shown(record)
      /\ \A b \in Actors : pc[b] = "sync" => record = call[b].copy
  BY <1>1 DEF InTurn
<1>3. CASE ForceRecord
  <2>1. /\ pc["operator"] = "force" /\ pc'["operator"] = "save"
        /\ \A b \in Actors \ {"operator"} : pc'[b] = pc[b] /\ call'[b] = call[b] /\ ~Inside(b)
    BY <1>3, Plain DEF ForceRecord, ToForce, Goto, Mark, Overlap, Spoiled, Actors
  <2> QED
    BY <1>1, <1>2, <2>1 DEF InTurn, Inside, Shown
<1>4. CASE Crash
  <2>1. (\A b \in Actors : pc[b] = "idle") /\ \A b \in Actors : pc'[b] \in {"idle", "reconcile"}
    BY <1>4 DEF Crash, Mark, Spoiled
  <2> QED
    BY <1>1, <1>2, <2>1 DEF InTurn, Inside, Shown
<1>5. CASE \/ \E t \in Ticks : Take(t) \/ Forget(t) \/ Manage(t)
           \/ Trigger \/ Pause \/ Resume \/ ForceActive \/ DayPasses
  <2>1. \A b \in Actors : \/ pc'[b] = pc[b] /\ call'[b] = call[b]
                          \/ pc[b] = "idle" /\ ~Inside(b)' /\ pc'[b] # "sync"
    BY <1>5, Plain DEF Take, Forget, Manage, Trigger, Pause, Resume, ForceActive, DayPasses, Calls,
                       Goto, Inside, Actors
  <2> QED
    BY <1>1, <1>2, <2>1 DEF InTurn, Inside, Shown
<1> QED
  BY <1>3, <1>4, <1>5

-----------------------------------------------------------------------------
(* Every step keeps what has become of the days to go.                      *)

\* The fields of the records that are compared.
LEMMA Counts ==
  ASSUME Shape
  PROVE  /\ record.days \in 0..Days /\ record.failures \in Nat /\ record.status \in Statuses
         /\ record.status # "active" => record.days < Days
         /\ Days \in Nat /\ MaxFailures \in Nat \ {0} /\ Attempts \in Nat /\ Attempts >= MaxFailures
         /\ \A a \in Actors :
              /\ call[a].copy \in Record
              /\ call[a].copy.days \in 0..Days /\ call[a].copy.failures \in Nat
              /\ call[a].copy.status # "active" => call[a].copy.days < Days
              /\ call[a].after \in {"return", "throw", "clear"}
              /\ call[a].next \in 1..(Days + 1)
         /\ \A t \in Ticks : tried[t] \in 0..Attempts /\ job[t] \in JobStates /\ t \in 1..Days
<1>1. TypeOK
  BY DEF Shape
<1>2. record \in Record /\ Sound(record) /\ \A a \in Actors : call[a] \in Call /\ Sound(call[a].copy)
  BY <1>1 DEF TypeOK, Shape
<1>3. \A r \in Record : r.days \in 0..Days /\ r.failures \in Nat /\ r.status \in Statuses
  BY WarmupAssumption DEF Record
<1>4. \A c \in Call : c.copy \in Record /\ c.next \in 1..(Days + 1) /\ c.after \in {"return", "throw", "clear"}
  BY DEF Call
<1>5. \A t \in Ticks : tried[t] \in 0..Attempts /\ job[t] \in JobStates /\ t \in 1..Days
  BY <1>1 DEF TypeOK, Ticks
<1> QED
  BY <1>2, <1>3, <1>4, <1>5, WarmupAssumption DEF Sound

\* A step of one actor that leaves the record: its own place is all there is to look at.
LEMMA OnRecordKept ==
  ASSUME OnRecord, NEW a \in Actors,
         \A b \in Actors \ {a} : pc'[b] = pc[b] /\ call'[b] = call[b],
         UNCHANGED <<record, override>>,
         project'.status = "active" => record.status = "active",
         AtHand(a)',
         Inside(a)' => Inside(a) \/ \A b \in Actors \ {a} : ~Inside(b),
         "skipped" \in incidents' => "skipped" \in incidents \/ Inside(a)
  PROVE  OnRecord'
<1>1. ASSUME NEW b \in Actors \ {a} PROVE AtHand(b)'
  <2>1. AtHand(b) /\ (Inside(b) => ~Inside(a))
    BY DEF OnRecord
  <2> QED
    BY <1>1, <2>1 DEF AtHand, Judged, Inside
<1>2. \A b, c \in Actors : Inside(b)' /\ Inside(c)' => b = c
  <2>1. \A b \in Actors \ {a} : Inside(b)' <=> Inside(b)
    BY DEF Inside
  <2> QED
    BY <2>1 DEF OnRecord
<1> QED
  BY <1>1, <1>2 DEF OnRecord, Judged

\* A step that leaves the record and the boot's loop, and touches no job of a day to go.
LEMMA JobsKept ==
  ASSUME Shape, Tried, Covered, UNCHANGED record,
         pc'["boot"] = pc["boot"], call'["boot"] = call["boot"],
         \A t \in Ticks : t > record.days => job'[t] = job[t] /\ tried'[t] = tried[t],
         "skipped" \in incidents => "skipped" \in incidents'
  PROVE  Tried' /\ Covered'
  BY DEF Tried, Covered, Pending, ToPlan

\* What a step of an actor leaves alone.
LEMMA OthersStay ==
  ASSUME Shape, NEW a \in Actors, Step(a) \/ SendFails(a)
  PROVE  /\ \A b \in Actors \ {a} : pc'[b] = pc[b] /\ call'[b] = call[b]
         /\ incidents \subseteq incidents' /\ override' = override
         /\ a \in {"worker", "operator", "boot"}
  BY Plain DEF Step, ReadRecord, ReadOverride, ToForce, Send, SendFails, Save, Sync, Clear, Load,
               Plan, Schedule, End, Goto, Mark, Actors

\* An actor between its read of the record and the save of it.
LEMMA GoingInside ==
  ASSUME Shape, Shape', Calm, Calm', Going, NEW a \in Actors,
         ReadRecord(a) \/ ReadOverride(a) \/ Send(a) \/ SendFails(a)
  PROVE  OnRecord' /\ OnTick' /\ Tried' /\ Covered'
<1> USE DEF Actors
<1>1. OnRecord /\ OnTick /\ Tried /\ Covered
  BY DEF Going
<1>2. /\ AtHand(a) /\ override = "default" /\ Judged(record)
      /\ project.status = "active" => record.status = "active"
      /\ \A b \in Actors : Inside(a) /\ Inside(b) => a = b
  BY <1>1 DEF OnRecord
<1>3. /\ \A b \in Actors \ {a} : pc'[b] = pc[b] /\ call'[b] = call[b]
      /\ incidents \subseteq incidents' /\ override' = override
  BY OthersStay DEF Step
<1>4. /\ UNCHANGED <<record, project>> /\ a # "boot"
      /\ pc'["boot"] = pc["boot"] /\ call'["boot"] = call["boot"]
  BY <1>3, Plain DEF ReadRecord, ReadOverride, Send, SendFails, Places
<1>5. ASSUME UNCHANGED queue PROVE Tried' /\ Covered'
  BY <1>1, <1>3, <1>4, <1>5, JobsKept DEF queue
<1>6. CASE ReadRecord(a)
  <2>1. /\ pc[a] = "read" /\ pc'[a] = "override" /\ incidents' = incidents /\ UNCHANGED queue
        /\ call'[a].copy = record /\ call'[a].after = call[a].after
        /\ \A b \in Actors \ {a} : ~Inside(b)
    BY <1>6, Plain DEF ReadRecord, Goto, Mark, Overlap, Spoiled, Calm, Call
  <2>2. AtHand(a)'
    BY <1>2, <1>4, <2>1 DEF AtHand
  <2>3. OnRecord'
    BY <1>1, <1>2, <1>3, <1>4, <2>1, <2>2, OnRecordKept
  <2>4. OnTick'
    BY <1>1, <1>3, <2>1 DEF OnTick, queue
  <2> QED
    BY <1>5, <2>1, <2>3, <2>4
<1>7. CASE ReadOverride(a)
  <2>1. pc[a] = "override" /\ call[a].copy = record /\ call[a].after = "return" /\ Inside(a)
    BY <1>2, <1>7 DEF ReadOverride, AtHand, Inside
  <2>2. CASE End(a, FALSE) /\ NothingToDo(call[a])
    <3>1. pc'[a] = "idle" /\ call'[a] = NoCall
      BY <2>2, Plain DEF End, Goto
    <3>2. AtHand(a)' /\ ~Inside(a)'
      BY <3>1 DEF AtHand, NoCall, Inside
    <3>3. OnRecord'
      BY <1>1, <1>2, <1>3, <1>4, <2>1, <3>2, OnRecordKept
    <3>4. CASE a # "worker"
      <4>1. UNCHANGED queue
        BY <2>2, <3>4 DEF End
      <4>2. OnTick'
        BY <1>1, <1>3, <3>4, <4>1 DEF OnTick, queue
      <4> QED
        BY <1>5, <3>3, <4>1, <4>2
    <3>5. CASE a = "worker"
      <4> DEFINE n == call["worker"].tick
      <4>1. /\ n \in Ticks /\ job'[n] = "completed"
            /\ \A t \in Ticks \ {n} : job'[t] = job[t] /\ tried'[t] = tried[t]
        BY <2>1, <2>2, <3>5, Plain DEF End, Settle
      <4>2. OnTick'
        BY <3>1, <3>5 DEF OnTick
      <4>3. \/ n <= record.days
            \/ n > record.days + 1 /\ "skipped" \in incidents'
        <5>1. CASE TooSoon(call[a])
          BY <1>7, <2>1, <3>5, <4>1, <5>1, Counts DEF TooSoon, ReadOverride, Mark, Ticks
        <5>2. CASE record.status = "active"
          BY <1>2, <4>1, <5>2, Counts DEF Judged, Ticks
        <5>3. CASE record.days >= n
          BY <5>3, <4>1, Counts DEF Ticks
        <5> QED
          BY <1>2, <2>1, <2>2, <3>5, <5>1, <5>2, <5>3 DEF NothingToDo
      <4>4. CASE n <= record.days
        <5>1. \A t \in Ticks : t > record.days => t # n
          BY <4>1, <4>4, Counts
        <5> QED
          BY <1>1, <1>3, <1>4, <3>3, <4>1, <4>2, <5>1, JobsKept
      <4>5. CASE n > record.days + 1 /\ "skipped" \in incidents'
        <5>1. Tried'
          BY <1>1, <1>3, <1>4, <4>1, <4>5, Counts DEF Tried
        <5>2. Covered'
          BY <1>1, <1>3, <1>4, <4>1, <4>5, Counts DEF Covered, Pending, ToPlan
        <5> QED
          BY <3>3, <4>2, <5>1, <5>2
      <4> QED
        BY <4>3, <4>4, <4>5
    <3> QED
      BY <3>4, <3>5
  <2>3. CASE ~NothingToDo(call[a]) /\ Goto(a, "send") /\ UNCHANGED <<call, queue>>
    <3>1. pc'[a] = "send" /\ call' = call /\ incidents' = incidents /\ Inside(a)
      BY <1>7, <2>1, <2>3, Plain DEF Goto, ReadOverride, Mark, NothingToDo, Inside
    <3>2. AtHand(a)'
      BY <1>4, <2>1, <3>1 DEF AtHand
    <3>3. OnRecord'
      BY <1>1, <1>2, <1>3, <1>4, <3>1, <3>2, OnRecordKept
    <3>4. a = "worker" => call["worker"].copy.days + 1 = call["worker"].tick
      <4>1. a = "worker" => call["worker"].tick \in 1..Days
        BY <2>1, Plain DEF Ticks
      <4> QED
        BY <2>3, <4>1, Counts DEF NothingToDo, TooSoon
    <3>5. OnTick'
      BY <1>1, <1>3, <2>3, <3>1, <3>4 DEF OnTick, queue
    <3> QED
      BY <1>5, <2>3, <3>3, <3>5
  <2> QED
    BY <1>2, <1>7, <2>2, <2>3 DEF ReadOverride
<1>8. CASE Send(a)
  <2>1. /\ pc[a] = "send" /\ pc'[a] = "save" /\ Inside(a) /\ UNCHANGED queue
        /\ call[a].copy = record /\ call[a].after = "return" /\ call[a].copy.status # "active"
    BY <1>2, <1>8, Plain DEF Send, Goto, AtHand, Inside, Shape
  <2>2. /\ call'[a].copy = [days |-> record.days + 1, failures |-> 0,
                            status |-> IF record.days + 1 >= Days THEN "active" ELSE "warming_up"]
        /\ call'[a].after = "return" /\ call'[a].tick = call[a].tick
    BY <1>8, <2>1, Plain DEF Send, Call
  <2>3. incidents' = incidents /\ "skipped" \notin incidents
    BY <1>8 DEF Send, Mark, Calm, Spoiled
  <2>4. Judged(call'[a].copy) /\ call'[a].copy.days = record.days + 1
    BY <2>1, <2>2, Counts DEF Judged
  <2>5. AtHand(a)'
    BY <1>4, <2>1, <2>2, <2>3, <2>4 DEF AtHand, Judged
  <2>6. OnRecord'
    BY <1>1, <1>2, <1>3, <1>4, <2>1, <2>3, <2>5, OnRecordKept
  <2>7. OnTick'
    BY <1>1, <1>3, <2>1, <2>2, <2>4 DEF OnTick, queue
  <2> QED
    BY <1>5, <2>1, <2>6, <2>7
<1>9. CASE SendFails(a)
  <2>1. /\ pc[a] = "send" /\ pc'[a] = "save" /\ Inside(a) /\ UNCHANGED <<queue, incidents>>
        /\ call[a].copy = record /\ record.status # "active"
    BY <1>2, <1>9, Plain DEF SendFails, Goto, AtHand, Inside, Shape
  <2>2. /\ call'[a].copy = CountFailure(record)
        /\ call'[a].after = "throw" /\ call'[a].tick = call[a].tick
    BY <1>9, <2>1, Plain DEF SendFails, Call
  <2>3. /\ CountFailure(record).days = record.days
        /\ CountFailure(record).failures = record.failures + 1
        /\ Judged(CountFailure(record))
    <3> DEFINE f == [record EXCEPT !.failures = record.failures + 1]
               status == IF record.failures + 1 >= MaxFailures THEN "warmup_failed" ELSE record.status
    <3>1. /\ record \in Record
          /\ f = [days |-> record.days, failures |-> record.failures + 1, status |-> record.status]
      BY DEF Shape, TypeOK, Record
    <3>2. CountFailure(record) = [f EXCEPT !.status = status]
      BY <3>1 DEF CountFailure
    <3>3. CountFailure(record)
            = [days |-> record.days, failures |-> record.failures + 1, status |-> status]
      BY <3>1, <3>2
    <3>4. (status = "warmup_failed" <=> record.failures + 1 >= MaxFailures) /\ status # "active"
      BY <1>2, <2>1, Counts DEF Judged
    <3> HIDE DEF status
    <3> QED
      BY <3>3, <3>4 DEF Judged
  <2>4. AtHand(a)'
    BY <1>4, <2>1, <2>2, <2>3 DEF AtHand, Judged
  <2>5. OnRecord'
    BY <1>1, <1>2, <1>3, <1>4, <2>1, <2>4, OnRecordKept
  <2>6. CASE a = "worker"
    <3>1. call["worker"].tick \in Ticks /\ record.days + 1 = call["worker"].tick
      BY <1>1, <2>1, <2>6, Plain DEF OnTick
    <3>2. tried[call["worker"].tick] <= record.failures
      BY <1>1, <3>1, Counts DEF Tried
    <3>3. tried[call["worker"].tick] < record.failures + 1
      BY <3>1, <3>2, Counts
    <3> QED
      BY <1>5, <2>1, <2>2, <2>3, <2>5, <2>6, <3>1, <3>3 DEF OnTick, queue
  <2>7. CASE a # "worker"
    <3>1. OnTick'
      BY <1>1, <1>3, <2>1, <2>7 DEF OnTick, queue
    <3> QED
      BY <1>5, <2>1, <2>5, <3>1
  <2> QED
    BY <2>6, <2>7
<1> QED
  BY <1>6, <1>7, <1>8, <1>9

\* The save of the record, the one step that changes it.
LEMMA GoingSave ==
  ASSUME Shape, Shape', Calm, Going, NEW a \in Actors, Save(a)
  PROVE  OnRecord' /\ OnTick' /\ Tried' /\ Covered'
<1> DEFINE r == call[a].copy
<1>1. OnRecord /\ OnTick /\ Tried /\ Covered
  BY DEF Going
<1>2. /\ pc[a] = "save" /\ pc'[a] = "sync" /\ record' = r /\ call' = call
      /\ UNCHANGED <<project, override, job, tried, incidents>>
      /\ \A b \in Actors \ {a} : pc'[b] = pc[b]
  BY Plain DEF Save, Goto, queue
<1>3. /\ Judged(record) /\ Judged(r) /\ AtHand(a)
      /\ project.status = "active" => record.status = "active"
      /\ \A b \in Actors \ {a} : ~Inside(b) /\ AtHand(b)
  BY <1>1, <1>2 DEF OnRecord, AtHand, Inside
<1>4. \/ r.days = record.days + 1 /\ "skipped" \notin incidents
      \/ r.days = record.days /\ r.failures = record.failures + 1
  BY <1>2, <1>3, Counts DEF AtHand
<1>5. /\ record.days <= r.days
      /\ record.status = "active" => r.status = "active"
  BY <1>3, <1>4, Counts DEF Judged
<1>6. OnRecord'
  <2>1. AtHand(a)'
    BY <1>2, <1>3 DEF AtHand
  <2>2. ASSUME NEW b \in Actors \ {a} PROVE AtHand(b)' /\ ~Inside(b)'
    BY <1>2, <1>3, <1>5, Counts DEF AtHand, Inside
  <2> QED
    BY <1>1, <1>2, <1>3, <1>5, <2>1, <2>2 DEF OnRecord, Judged
<1>7. OnTick'
  <2>1. pc'["worker"] = pc["worker"] \/ (pc["worker"] = "save" /\ pc'["worker"] = "sync")
    <3>1. "worker" \in Actors
      BY DEF Actors
    <3> QED
      BY <1>2, <3>1
  <2> QED
    BY <1>1, <1>2, <2>1 DEF OnTick
<1>8. CASE r.days = record.days + 1 /\ "skipped" \notin incidents
  <2>1. \A t \in Ticks : t > r.days =>
          /\ t > record.days + 1 /\ t # record.days + 1 /\ t > record.days
          /\ tried[t] = 0 /\ job[t] \notin {"completed", "failed"}
    BY <1>1, <1>8, Counts DEF Tried
  <2>2. Tried'
    BY <1>2, <1>8, <2>1, Counts DEF Tried
  <2>3. Covered'
    BY <1>1, <1>2, <1>8, <2>1 DEF Covered, Pending, ToPlan, Actors
  <2> QED
    BY <1>6, <1>7, <2>2, <2>3
<1>9. CASE r.days = record.days /\ r.failures = record.failures + 1
  <2>1. record.status = "warmup_failed" => r.status = "warmup_failed"
    BY <1>3, <1>9, Counts DEF Judged
  <2>2. \A t \in Ticks : t = record.days + 1 /\ tried[t] <= record.failures => tried[t] <= r.failures
    BY <1>9, Counts
  <2>3. Tried'
    BY <1>1, <1>2, <1>9, <2>1, <2>2 DEF Tried
  <2>4. Covered'
    BY <1>1, <1>2, <1>9, <2>1 DEF Covered, Pending, ToPlan, Actors
  <2> QED
    BY <1>6, <1>7, <2>3, <2>4
<1> QED
  BY <1>4, <1>8, <1>9

\* The sync of the project, after which the worker's job is completed or tried again.
LEMMA GoingSync ==
  ASSUME Shape, Shape', Calm, Going, NEW a \in Actors, Sync(a)
  PROVE  OnRecord' /\ OnTick' /\ Tried' /\ Covered'
<1> USE DEF Actors
<1>1. OnRecord /\ OnTick /\ Tried /\ Covered
  BY DEF Going
<1>2. /\ AtHand(a) /\ Judged(record) /\ pc[a] = "sync" /\ call[a].copy = record /\ Inside(a)
      /\ project' = Shown(record) /\ UNCHANGED <<record, override, incidents>>
      /\ End(a, call[a].after = "throw") /\ a # "boot"
  BY <1>1, Plain DEF OnRecord, AtHand, Inside, Sync, Places
<1>3. /\ \A b \in Actors \ {a} : pc'[b] = pc[b] /\ call'[b] = call[b]
      /\ pc'["boot"] = pc["boot"] /\ call'["boot"] = call["boot"]
      /\ pc'[a] = "idle" /\ call'[a] = NoCall
  BY <1>2, Plain DEF End, Goto
<1>4. AtHand(a)' /\ ~Inside(a)'
  BY <1>3 DEF AtHand, NoCall, Inside
<1>5. OnRecord'
  BY <1>1, <1>2, <1>3, <1>4, OnRecordKept DEF Shown
<1>6. CASE a # "worker"
  <2>1. UNCHANGED queue
    BY <1>2, <1>6 DEF End
  <2>2. OnTick'
    BY <1>1, <1>3, <1>6, <2>1 DEF OnTick, queue
  <2>3. Tried' /\ Covered'
    BY <1>1, <1>2, <1>3, <2>1, JobsKept DEF queue
  <2> QED
    BY <1>5, <2>2, <2>3
<1>7. CASE a = "worker"
  <2> DEFINE n == call["worker"].tick
             again == IF tried[n] < Attempts THEN tried[n] + 1 ELSE tried[n]
  <2>1. /\ n \in Ticks /\ Settle(n, call["worker"].after = "throw")
        /\ call["worker"].after \in {"return", "throw"}
    BY <1>2, <1>7, Plain, Counts DEF End, AtHand
  <2>2. /\ tried'[n] = again
        /\ job'[n] = IF call["worker"].after = "return" THEN "completed"
                     ELSE IF tried[n] + 1 < Attempts THEN "waiting" ELSE "failed"
        /\ \A t \in Ticks \ {n} : job'[t] = job[t] /\ tried'[t] = tried[t]
    BY <2>1, Plain DEF Settle
  <2>3. OnTick'
    BY <1>3, <1>7 DEF OnTick
  <2>4. CASE call["worker"].after = "return"
    <3>1. record.days = n
      BY <1>1, <1>2, <1>7, <2>4 DEF OnTick
    <3>2. \A t \in Ticks : t > record.days => t # n
      BY <2>1, <3>1, Counts
    <3>3. Tried' /\ Covered'
      BY <1>1, <1>2, <1>3, <2>2, <3>2, JobsKept
    <3> QED
      BY <1>5, <2>3, <3>3
  <2>5. CASE call["worker"].after = "throw"
    <3>1. record.days + 1 = n /\ tried[n] < record.failures
      BY <1>1, <1>2, <1>7, <2>5 DEF OnTick
    <3>2. tried'[n] <= record.failures
      BY <2>1, <2>2, <3>1, Counts
    <3>3. job'[n] = "waiting" \/ (job'[n] = "failed" /\ record.status = "warmup_failed")
      <4>1. CASE tried[n] + 1 < Attempts
        BY <2>2, <2>5, <4>1
      <4>2. CASE ~(tried[n] + 1 < Attempts)
        <5>1. record.failures >= MaxFailures
          <6>1. tried[n] \in Nat /\ record.failures \in Nat /\ MaxFailures \in Nat /\ Attempts \in Nat
            BY <2>1, Counts
          <6> QED
            BY <3>1, <4>2, <6>1, Counts
        <5> QED
          BY <1>2, <2>2, <2>5, <4>2, <5>1 DEF Judged
      <4> QED
        BY <4>1, <4>2
    <3>4. Tried'
      BY <1>1, <1>2, <2>1, <2>2, <3>1, <3>2, <3>3, Counts DEF Tried
    <3>5. Covered'
      BY <1>1, <1>2, <1>3, <2>1, <2>2, <3>1, <3>3, Counts DEF Covered, Pending, ToPlan
    <3> QED
      BY <1>5, <2>3, <3>4, <3>5
  <2> QED
    BY <2>1, <2>4, <2>5
<1> QED
  BY <1>6, <1>7

\* The scheduling of the missing jobs, which only the boot does.
LEMMA GoingSchedule ==
  ASSUME Shape, Shape', Calm, Going, NEW a \in Actors,
         Clear(a) \/ Load(a) \/ Plan(a) \/ Schedule(a)
  PROVE  OnRecord' /\ OnTick' /\ Tried' /\ Covered'
<1>1. OnRecord /\ OnTick /\ Tried /\ Covered
  BY DEF Going
<1>2. AtHand(a) /\ override = "default" /\ Judged(record)
      /\ (project.status = "active" => record.status = "active")
  BY <1>1 DEF OnRecord
<1>3. /\ a = "boot" /\ pc[a] \in {"reconcile", "plan", "schedule"} /\ call[a].after = "return"
      /\ ~Clear(a)
  BY <1>2, Plain DEF AtHand, Clear, Load, Plan, Schedule, Places, Actors
<1>4. /\ \A b \in Actors \ {a} : pc'[b] = pc[b] /\ call'[b] = call[b]
      /\ UNCHANGED <<record, project, override, incidents>>
      /\ pc'["worker"] = pc["worker"] /\ call'["worker"] = call["worker"]
  BY <1>3, OthersStay DEF Step, Clear, Load, Plan, Schedule, Actors
<1>5. CASE Load(a)
  <2>1. UNCHANGED <<job, tried>> /\ pc[a] = "reconcile"
    BY <1>3, <1>5 DEF Load, queue
  <2>2. \/ pc'[a] = "idle" /\ project.status = "active" /\ call' = call
        \/ pc'[a] = "plan" /\ call'[a].copy = record /\ call'[a].after = call[a].after
    BY <1>5, <2>1, Plain DEF Load, Goto, Call
  <2>3. AtHand(a)' /\ ~Inside(a)'
    BY <1>3, <1>4, <2>2, Counts DEF AtHand, Inside
  <2>4. OnRecord'
    BY <1>1, <1>2, <1>4, <2>3, OnRecordKept
  <2>5. OnTick' /\ Tried'
    BY <1>1, <1>4, <2>1 DEF OnTick, Tried
  <2>6. Covered'
    <3>1. CASE pc'[a] = "plan"
      BY <1>3, <3>1 DEF Covered, ToPlan
    <3>2. CASE project.status = "active"
      <4>1. \A t \in Ticks : ~(t > record'.days)
        BY <1>2, <1>4, <3>2, Counts DEF Judged
      <4> QED
        BY <4>1 DEF Covered
    <3> QED
      BY <2>2, <3>1, <3>2
  <2> QED
    BY <2>4, <2>5, <2>6
<1>6. CASE Plan(a)
  <2>1. /\ UNCHANGED <<job, tried>> /\ pc[a] = "plan" /\ pc'[a] = "schedule"
        /\ call'[a].next = call[a].copy.days + 1 /\ call'[a].copy = call[a].copy
        /\ call'[a].after = call[a].after
    BY <1>2, <1>6, Plain DEF Plan, Goto, queue, Call
  <2>2. AtHand(a)' /\ ~Inside(a)'
    BY <1>2, <1>3, <1>4, <2>1 DEF AtHand, Inside
  <2>3. OnRecord'
    BY <1>1, <1>2, <1>4, <2>2, OnRecordKept
  <2>4. OnTick' /\ Tried'
    BY <1>1, <1>4, <2>1 DEF OnTick, Tried
  <2>5. \A t \in Ticks : t > record.days => call'[a].next <= t
    BY <1>2, <1>3, <2>1, Counts DEF AtHand
  <2>6. Covered'
    BY <1>3, <1>4, <2>1, <2>5 DEF Covered, ToPlan
  <2> QED
    BY <2>3, <2>4, <2>6
<1>7. CASE Schedule(a)
  <2>0. PICK n \in 1..(Days + 1) : n = call[a].next
    BY Counts
  <2>1. pc[a] = "schedule" /\ n \in 1..(Days + 1) /\ n = call[a].next
    BY <1>7, <2>0 DEF Schedule
  <2>2. CASE n > Days /\ End(a, FALSE)
    <3>1. UNCHANGED <<job, tried>> /\ pc'[a] = "idle" /\ call'[a] = NoCall
      BY <1>3, <2>2, Plain DEF End, Goto, queue
    <3>2. AtHand(a)' /\ ~Inside(a)'
      BY <3>1 DEF AtHand, Inside, NoCall
    <3>3. OnRecord'
      BY <1>1, <1>2, <1>4, <3>2, OnRecordKept
    <3>4. OnTick' /\ Tried'
      BY <1>1, <1>4, <3>1 DEF OnTick, Tried
    <3>5. \A t \in Ticks : ~ToPlan(t)
      BY <1>3, <2>1, <2>2, Counts DEF ToPlan
    <3>6. Covered'
      BY <1>1, <1>4, <3>1, <3>5 DEF Covered, Pending
    <3> QED
      BY <3>3, <3>4, <3>6
  <2>3. CASE /\ ~(n > Days)
             /\ job' = [job EXCEPT ![n] = IF @ = "none" THEN "delayed" ELSE @]
             /\ call' = [call EXCEPT ![a].next = n + 1] /\ UNCHANGED <<pc, tried>>
    <3>1. /\ n \in Ticks /\ job'[n] = IF job[n] = "none" THEN "delayed" ELSE job[n]
          /\ \A t \in Ticks \ {n} : job'[t] = job[t]
      BY <2>1, <2>3, Plain, Counts DEF Ticks
    <3>2. /\ call'[a].next = n + 1 /\ call'[a].copy = call[a].copy /\ call'[a].after = call[a].after
      BY <2>3, Plain DEF Call
    <3>3. AtHand(a)' /\ ~Inside(a)'
      BY <1>2, <1>3, <1>4, <2>1, <2>3, <3>2 DEF AtHand, Inside
    <3>4. OnRecord'
      BY <1>1, <1>2, <1>4, <3>3, OnRecordKept
    <3>5. OnTick'
      BY <1>1, <1>4, <2>3 DEF OnTick
    <3>6. Tried'
      BY <1>1, <1>4, <2>3, <3>1 DEF Tried
    <3>7. ASSUME NEW t \in Ticks \ {n}, ToPlan(t) PROVE ToPlan(t)'
      <4>1. n <= t /\ n + 1 <= t
        BY <1>3, <2>1, <3>7, Counts DEF ToPlan
      <4> QED
        BY <1>3, <2>1, <2>3, <3>2, <4>1 DEF ToPlan
    <3>8. n > record.days =>
            \/ Pending(n)'
            \/ n > record.days + 1 /\ "skipped" \in incidents
            \/ n = record.days + 1 /\ record.status = "warmup_failed"
      <4>1. job[n] \in JobStates
        BY <3>1, Counts
      <4>2. Pending(n)' \/ job[n] \in {"completed", "failed"}
        BY <3>1, <4>1 DEF Pending, JobStates
      <4> QED
        BY <1>1, <3>1, <4>2 DEF Tried
    <3>9. \A t \in Ticks \ {n} : Pending(t)' = Pending(t)
      BY <3>1 DEF Pending
    <3>10. Covered'
      <4>1. ASSUME NEW t \in Ticks, t > record.days
            PROVE  \/ Pending(t)' \/ ToPlan(t)'
                   \/ t > record.days + 1 /\ "skipped" \in incidents
                   \/ t = record.days + 1 /\ record.status = "warmup_failed"
        <5>1. CASE t = n
          BY <3>8, <4>1, <5>1
        <5>2. CASE t # n
          BY <1>1, <3>7, <3>9, <4>1, <5>2 DEF Covered
        <5> QED
          BY <5>1, <5>2
      <4> QED
        BY <1>4, <4>1 DEF Covered
    <3> QED
      BY <3>4, <3>5, <3>6, <3>10
  <2> QED
    BY <1>7, <2>1, <2>2, <2>3 DEF Schedule
<1> QED
  BY <1>3, <1>5, <1>6, <1>7

\* The queue, the operator, the clock, and the restart of the API.
LEMMA GoingRest ==
  ASSUME Shape, Shape', Calm, Calm', Going,
         \/ \E t \in Ticks : Take(t) \/ Forget(t) \/ Manage(t)
         \/ Trigger \/ Pause \/ Resume \/ ForceActive \/ ForceRecord
         \/ DayPasses \/ Crash
  PROVE  OnRecord' /\ OnTick' /\ Tried' /\ Covered'
<1> USE DEF Actors
<1>1. OnRecord /\ OnTick /\ Tried /\ Covered
  BY DEF Going
<1>2. /\ override = "default" /\ Judged(record) /\ \A b \in Actors : AtHand(b)
      /\ (project.status = "active" => record.status = "active")
  BY <1>1 DEF OnRecord
<1>3. ASSUME NEW t \in Ticks, Take(t) PROVE OnRecord' /\ OnTick' /\ Tried' /\ Covered'
  <2>1. /\ pc["worker"] = "idle" /\ pc'["worker"] = "read" /\ call'["worker"].after = call["worker"].after
        /\ \A b \in Actors \ {"worker"} : pc'[b] = pc[b] /\ call'[b] = call[b]
        /\ UNCHANGED <<record, project, override, tried, incidents>>
        /\ job' = [job EXCEPT ![t] = "active"]
    BY <1>3, Plain DEF Take, Goto, Call
  <2>2. AtHand("worker")' /\ ~Inside("worker")'
    BY <1>2, <2>1 DEF AtHand, Inside
  <2>3. OnRecord'
    BY <1>1, <1>2, <2>1, <2>2, OnRecordKept
  <2>4. OnTick'
    BY <2>1 DEF OnTick
  <2>5. job'[t] = "active" /\ \A u \in Ticks \ {t} : job'[u] = job[u]
    BY <2>1, Plain
  <2>6. Tried'
    BY <1>1, <2>1, <2>5 DEF Tried
  <2>7. Covered'
    BY <1>1, <2>1, <2>5 DEF Covered, Pending, ToPlan
  <2> QED
    BY <2>3, <2>4, <2>6, <2>7
<1>4. ASSUME UNCHANGED <<record, project, override, pc, call>>,
             "skipped" \in incidents' <=> "skipped" \in incidents
      PROVE  OnRecord'
  BY <1>1, <1>4 DEF OnRecord, AtHand, Judged, Inside
<1>5. ASSUME NEW t \in Ticks, Forget(t) PROVE OnRecord' /\ OnTick' /\ Tried' /\ Covered'
  <2>1. /\ job[t] \in {"completed", "failed"} /\ job'[t] = "none" /\ tried'[t] = 0
        /\ \A u \in Ticks \ {t} : job'[u] = job[u] /\ tried'[u] = tried[u]
        /\ UNCHANGED <<record, project, override, pc, call, incidents>>
    BY <1>5, Plain DEF Forget
  <2>2. pc["worker"] # "idle" => tried'[call["worker"].tick] <= tried[call["worker"].tick]
                                 /\ tried'[call["worker"].tick] \in Nat
    BY <2>1, Plain, Counts
  <2>3. OnTick'
    BY <1>1, <2>1, <2>2, Plain, Counts DEF OnTick
  <2>4. Tried'
    BY <1>1, <2>1, Counts DEF Tried
  <2>5. t > record.days => \/ t > record.days + 1 /\ "skipped" \in incidents
                           \/ t = record.days + 1 /\ record.status = "warmup_failed"
    BY <1>1, <2>1 DEF Tried
  <2>6. Covered'
    BY <1>1, <2>1, <2>5 DEF Covered, Pending, ToPlan
  <2> QED
    BY <1>4, <2>1, <2>3, <2>4, <2>6
<1>6. ASSUME NEW t \in Ticks, Manage(t) PROVE OnRecord' /\ OnTick' /\ Tried' /\ Covered'
  <2>1. /\ job'[t] = "waiting" /\ \A u \in Ticks \ {t} : job'[u] = job[u]
        /\ UNCHANGED <<record, project, override, pc, call, tried>>
        /\ "skipped" \in incidents' <=> "skipped" \in incidents
    BY <1>6, Plain DEF Manage, Mark, Calm, Spoiled
  <2>2. OnTick'
    BY <1>1, <2>1 DEF OnTick
  <2>3. Tried' /\ Covered'
    BY <1>1, <2>1 DEF Tried, Covered, Pending, ToPlan
  <2> QED
    BY <1>4, <2>1, <2>2, <2>3
<1>7. CASE Trigger
  <2>1. /\ pc["operator"] = "idle" /\ pc'["operator"] = "read" /\ call' = call
        /\ \A b \in Actors \ {"operator"} : pc'[b] = pc[b]
        /\ UNCHANGED <<record, project, override, job, tried, incidents>>
    BY <1>7, Plain DEF Trigger, Calls, Goto, queue
  <2>2. AtHand("operator")' /\ ~Inside("operator")'
    BY <1>2, <2>1 DEF AtHand, Inside
  <2>3. OnRecord'
    BY <1>1, <1>2, <2>1, <2>2, OnRecordKept
  <2>4. OnTick'
    BY <1>1, <2>1 DEF OnTick
  <2>5. Tried' /\ Covered'
    BY <1>1, <2>1, JobsKept
  <2> QED
    BY <2>3, <2>4, <2>5
<1>8. ~Pause /\ ~Resume /\ ~ForceActive /\ ~ForceRecord
  <2>1. ~Pause /\ ~ForceActive
    BY DEF Pause, ForceActive, Mark, Calm, Spoiled
  <2>2. ~Resume /\ ~ForceRecord
    BY <1>2 DEF Resume, ForceRecord, AtHand
  <2> QED
    BY <2>1, <2>2
<1>9. CASE DayPasses
  <2>1. UNCHANGED <<record, project, override, job, tried, pc, call, incidents>>
    BY <1>9 DEF DayPasses, queue
  <2>2. OnTick'
    BY <1>1, <2>1 DEF OnTick
  <2>3. Tried' /\ Covered'
    BY <1>1, <2>1, JobsKept
  <2> QED
    BY <1>4, <2>1, <2>2, <2>3
<1>10. CASE Crash
  <2>1. /\ \A b \in Actors : pc'[b] \in {"idle", "reconcile"} /\ call'[b] = NoCall
        /\ pc'["boot"] = "reconcile" /\ pc'["worker"] = "idle"
        /\ UNCHANGED <<record, project, override, tried>>
        /\ incidents \subseteq incidents' /\ ("skipped" \in incidents' <=> "skipped" \in incidents)
        /\ \A t \in Ticks : job'[t] = job[t] \/ job'[t] = "waiting"
    BY <1>10 DEF Crash, Mark
  <2>2. OnRecord'
    <3>1. \A b \in Actors : AtHand(b)' /\ ~Inside(b)'
      BY <2>1 DEF AtHand, Inside, NoCall
    <3> QED
      BY <1>2, <2>1, <3>1 DEF OnRecord, Judged
  <2>3. OnTick'
    BY <2>1 DEF OnTick
  <2>4. Tried'
    BY <1>1, <2>1 DEF Tried
  <2>5. Covered'
    BY <2>1 DEF Covered, ToPlan
  <2> QED
    BY <2>2, <2>3, <2>4, <2>5
<1> QED
  BY <1>3, <1>5, <1>6, <1>7, <1>8, <1>9, <1>10

\* What has happened stays so: a quiet state comes of quiet states.
LEMMA CalmBefore == [Next]_vars /\ Calm' => Calm
<1> SUFFICES ASSUME [Next]_vars PROVE incidents \subseteq incidents'
  BY DEF Calm, Spoiled
<1>1. ASSUME NEW a \in Actors, Step(a) \/ SendFails(a) PROVE incidents \subseteq incidents'
  BY <1>1 DEF Step, ReadRecord, ReadOverride, Send, SendFails, Save, Sync, Clear, Load, Plan, Schedule, Mark
<1>2. ASSUME NEW t \in Ticks, Take(t) \/ Forget(t) \/ Manage(t) PROVE incidents \subseteq incidents'
  BY <1>2 DEF Take, Forget, Manage, Mark
<1>3. CASE Trigger \/ Pause \/ Resume \/ ForceActive \/ ForceRecord \/ DayPasses \/ Crash
  BY <1>3 DEF Trigger, Pause, Resume, ForceActive, ForceRecord, DayPasses, Crash, Mark
<1>4. CASE UNCHANGED vars
  BY <1>4 DEF vars
<1> QED
  BY <1>1, <1>2, <1>3, <1>4 DEF Next

LEMMA GoingNext == Shape /\ Shape' /\ Going /\ Next => Going'
<1> SUFFICES ASSUME Shape, Shape', Going, Next, Calm'
             PROVE  OnRecord' /\ OnTick' /\ Tried' /\ Covered'
  BY DEF Going
<1>1. Calm
  BY CalmBefore
<1>2. CASE \E a \in Actors : Step(a) \/ SendFails(a)
  <2>1. PICK a \in Actors : Step(a) \/ SendFails(a)
    BY <1>2
  <2>2. CASE ReadRecord(a) \/ ReadOverride(a) \/ Send(a) \/ SendFails(a)
    BY <1>1, <2>2, GoingInside
  <2>3. CASE Save(a)
    BY <1>1, <2>3, GoingSave
  <2>4. CASE Sync(a)
    BY <1>1, <2>4, GoingSync
  <2>5. CASE Clear(a) \/ Load(a) \/ Plan(a) \/ Schedule(a)
    BY <1>1, <2>5, GoingSchedule
  <2> QED
    BY <2>1, <2>2, <2>3, <2>4, <2>5 DEF Step
<1>3. CASE \/ \E t \in Ticks : Take(t) \/ Forget(t) \/ Manage(t)
           \/ Trigger \/ Pause \/ Resume \/ ForceActive \/ ForceRecord
           \/ DayPasses \/ Crash
  BY <1>1, <1>3, GoingRest
<1> QED
  BY <1>2, <1>3, Zenon DEF Next

LEMMA NextIInv == IInv /\ [Next]_vars => IInv'
<1> SUFFICES ASSUME IInv, [Next]_vars PROVE IInv'
  OBVIOUS
<1>1. Shape' /\ Counted'
  BY ShapeNext DEF IInv
<1>2. CASE UNCHANGED vars
  BY <1>1, <1>2 DEF vars, queue, clock, IInv, Calendar, Owed, InTurn, Inside, Shown, Spoiled,
                       Going, Calm, OnRecord, AtHand, Judged, OnTick, Tried, Covered, Pending, ToPlan
<1>3. CASE Next
  <2>1. Calendar' /\ InTurn'
    BY <1>3, CalendarStep, CalendarRest, InTurnStep, InTurnRest DEF IInv, Next
  <2> QED
    BY <1>1, <1>3, <2>1, GoingNext DEF IInv
<1> QED
  BY <1>2, <1>3

-----------------------------------------------------------------------------
(* The theorems.                                                            *)

\* Every variable keeps its type, for any number of days, attempts, failures and calls.
THEOREM TypeCorrect == Spec => []TypeOK
<1>1. IInv => TypeOK
  BY DEF IInv, Shape
<1> QED
  BY InitIInv, NextIInv, <1>1, PTL DEF Spec

\* A job that is retried, stalled or scheduled again never counts a day twice, and between
\* calls the project shows the record (executeWarmupTick, syncProjectStatus).
THEOREM RecordTellsTruth == Spec => []RecordTruthful
<1>1. ASSUME IInv PROVE RecordTruthful
  <2>1. NeverAheadOfCalendar
    <3>1. Shape
      BY <1>1 DEF IInv
    <3> QED
      BY <1>1, <3>1, Plain DEF IInv, Calendar, NeverAheadOfCalendar, Owed
  <2>2. ProjectFollowsRecord
    BY <1>1 DEF IInv, InTurn, ProjectFollowsRecord, Inside
  <2> QED
    BY <2>1, <2>2 DEF RecordTruthful
<1> QED
  BY InitIInv, NextIInv, <1>1, PTL DEF Spec

\* When no job is left to make progress and the account is not active, the record says so: for any
\* number of days, attempts, failures and restarts, with the exceptions the property names
\* (executeWarmupTick, scheduleMissingJobs, the queue's attempts).
THEOREM StallShows == Spec => []StallIsVisible
<1>1. ASSUME IInv PROVE StallIsVisible
  <2> SUFFICES ASSUME \A a \in Actors : pc[a] = "idle",
                      ~\E t \in Ticks : Pending(t), Calm,
                      record.status # "active"
               PROVE  record.status = "warmup_failed"
    BY DEF StallIsVisible, Calm
  <2>1. Covered /\ Shape
    BY <1>1 DEF IInv, Going
  <2> DEFINE t == record.days + 1
  <2>2. t \in Ticks /\ t > record.days
    BY <2>1, Counts DEF Ticks
  <2>3. ~ToPlan(t) /\ ~Pending(t) /\ ~(t > record.days + 1)
    BY <2>1, <2>2, Counts DEF ToPlan, Actors
  <2> QED
    BY <2>1, <2>2, <2>3 DEF Covered
<1> QED
  BY InitIInv, NextIInv, <1>1, PTL DEF Spec
=============================================================================
