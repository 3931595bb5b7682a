------------------------ MODULE FunctionRuns_proofs ------------------------
(***************************************************************************)
(* The runs of a function, which write its definition back whole, neither  *)
(* undo an edit nor start a due time twice: for any number of requests,    *)
(* any schedules, any horizon, and any number of failures.                 *)
(***************************************************************************)
EXTENDS FunctionRuns, FiniteSetTheorems, TLAPS

-----------------------------------------------------------------------------
(* The inductive invariant.                                                 *)

\* While no edit has crossed another, or a run: what an edit or a run has read is what is there.
EditsApart ==
  "edit_crossed" \notin incidents =>
    /\ Draft(def) = edited
    /\ \A p, q \in Edits : p = q
    /\ Edits = {} \/ Runs = {}
    /\ \A p \in Runs : Draft(local[p]) = Draft(def)
    /\ \A p \in Procs : pc[p] = "deploy" => Draft(local[p]) = Draft(def)
    /\ \A p \in Procs : pc[p] = "save" => local[p].deployed = def.deployed

\* The times that were started are over.
StartsAreOver == \A t \in TickTime : started[t] > 0 => t <= now

Unstarted(d) == \A t \in d.next \cap TickTime : started[t] = 0

\* What has a schedule has a next run.
Scheduled(d) == d.cron # Off => d.next # {}

Orderly == ~Spoiled({"runs_crossed", "cut", "beyond"})

\* A next run that is written, or that a run will write back, has not been started, unless the
\* scheduler's run of it is not over.
NextUnstarted ==
  Orderly =>
    /\ \A t \in TickTime : started[t] <= 1
    /\ pc[Cron] = "idle" => Unstarted(def)
    /\ Scheduled(def)
    /\ \A p \in Callers : pc[p] = "run" =>
         /\ pc[Cron] # "run"
         /\ pc[Cron] = "idle" => Unstarted(local[p])
         /\ Scheduled(local[p])

\* Who is about to write has something to write.
InHand == \A p \in Procs : pc[p] \in {"save", "deploy", "run"} => local[p] \in Definition

Shape == TypeOK /\ InHand

IInv == Shape /\ EditsApart /\ StartsAreOver /\ NextUnstarted

-----------------------------------------------------------------------------
(* The operators the definition is made with.                               *)

\* Min of a set of naturals is in it, and below the rest.
LEMMA MinIsLeast ==
  ASSUME NEW S \in SUBSET Nat, S # {}
  PROVE  Min(S) \in S /\ \A n \in S : Min(S) <= n
<1> DEFINE R == {ss \in Nat \X Nat : ss[1] < ss[2]}
<1>1. IsWellFoundedOn(R, Nat)
  BY NatLessThanWellFounded, Zenon DEF OpToRel
<1>2. \E m \in S : \A n \in S : ~(<<n, m>> \in R)
  BY <1>1, WFMin
<1>3. PICK m \in S : \A n \in S : ~(<<n, m>> \in R)
  BY <1>2
<1>4. ASSUME NEW n \in S PROVE m <= n
  <2>1. m \in Nat /\ n \in Nat
    OBVIOUS
  <2>2. ~(n < m)
    BY <1>3, <2>1
  <2> QED
    BY <2>1, <2>2
<1> QED
  BY <1>4 DEF Min

\* nextCronMatch finds one time or none, and it is to come.
LEMMA NextMatchIsToCome ==
  ASSUME NEW cron \in SUBSET Nat, NEW t \in Nat
  PROVE  /\ NextMatch(cron, t) \in SUBSET Nat
         /\ Cardinality(NextMatch(cron, t)) <= 1
         /\ \A n \in NextMatch(cron, t) : n > t
<1> DEFINE found == {m \in cron : Minute(t) < m /\ m <= Minute(t) + Horizon}
<1>1. CASE found = {}
  BY <1>1, FS_EmptySet DEF NextMatch
<1>2. CASE found # {}
  <2>1. Min(found) \in Nat /\ Minute(t) < Min(found)
    BY <1>2, MinIsLeast
  <2>2. 2 * Min(found) \in Nat /\ 2 * Min(found) > t
    BY <2>1 DEF Minute
  <2>3. NextMatch(cron, t) = {2 * Min(found)}
    BY <1>2 DEF NextMatch
  <2>4. Cardinality({2 * Min(found)}) = 1
    BY FS_Singleton, Zenon
  <2> HIDE DEF found
  <2> QED
    BY <2>2, <2>3, <2>4
<1> QED
  BY <1>1, <1>2, Zenon

-----------------------------------------------------------------------------
(* Types.                                                                   *)

Labels == {"idle", "save", "deploy", "count", "unlist", "run", "hung"}
Slot == Definition \cup {None}

\* What a definition, or the lack of one, is made of.
LEMMA SlotFields ==
  ASSUME NEW d \in Slot
  PROVE  /\ d.source \in Sources /\ d.deployed \in Sources
         /\ d.cron \in Crons \cup {Off} /\ d.cron \in SUBSET Nat
         /\ d.next \in SUBSET Nat
         /\ d = [source |-> d.source, deployed |-> d.deployed, cron |-> d.cron, next |-> d.next]
         /\ d # None => d \in Definition
         /\ d \in Definition => d.source # 0
<1> USE FunctionsAssumption
<1>1. 0 \in Sources
  BY DEF Sources
<1>2. CASE d = None
  BY <1>1, <1>2 DEF None, Off, Definition
<1>3. CASE d \in Definition
  BY <1>3 DEF Definition, Off
<1> QED
  BY <1>2, <1>3 DEF Slot

\* The state, variable by variable.
LEMMA Plain ==
  ASSUME Shape
  PROVE  /\ def \in Slot /\ Cardinality(def.next) <= 1
         /\ listed \in BOOLEAN /\ running \in BOOLEAN
         /\ pc \in [Procs -> Labels] /\ local \in [Procs -> Slot]
         /\ \A p \in Procs : Cardinality(local[p].next) <= 1
         /\ now \in TickTime /\ TickTime \subseteq Nat /\ ticked \in BOOLEAN
         /\ edited \in [source : Sources, deployed : Sources, cron : Crons \cup {Off}]
         /\ started \in [TickTime -> 0..2]
         /\ calls \in 0..MaxCalls /\ faults \in 0..MaxFaults
         /\ MaxCalls \in Nat /\ MaxFaults \in Nat /\ MaxMinute \in Nat
         /\ incidents \subseteq Incidents
         /\ Cron \in Procs /\ Callers \subseteq Procs /\ Cron \notin Callers
         /\ pc[Cron] \in {"idle", "run", "hung"} /\ (running <=> pc[Cron] # "idle")
  BY FunctionsAssumption DEF Shape, TypeOK, Slot, Labels, TickTime, Procs, Cron

\* It is enough that one request's place and definition are right, and what is shared.
LEMMA ShapeOf ==
  ASSUME Shape, NEW p \in Procs, NEW l \in Labels, NEW d \in Slot,
         pc' = [pc EXCEPT ![p] = l], local' = [local EXCEPT ![p] = d],
         Cardinality(d.next) <= 1,
         l \in {"save", "deploy", "run"} => d \in Definition,
         p = Cron => l \in {"idle", "run", "hung"},
         running' \in BOOLEAN, running' <=> pc'[Cron] # "idle",
         def' \in Slot, Cardinality(def'.next) <= 1,
         listed' \in BOOLEAN, now' \in TickTime, ticked' \in BOOLEAN,
         edited' \in [source : Sources, deployed : Sources, cron : Crons \cup {Off}],
         started' \in [TickTime -> 0..2],
         calls' \in 0..MaxCalls, faults' \in 0..MaxFaults, incidents' \subseteq Incidents
  PROVE  Shape'
<1>1. /\ pc' \in [Procs -> Labels] /\ local' \in [Procs -> Slot]
      /\ pc'[p] = l /\ local'[p] = d
      /\ \A q \in Procs \ {p} : pc'[q] = pc[q] /\ local'[q] = local[q]
  BY Plain
<1>2. \A c \in {def'} \cup {local'[q] : q \in Procs} : Cardinality(c.next) <= 1
  <2>1. \A q \in Procs : Cardinality(local'[q].next) <= 1
    BY <1>1, Plain
  <2> QED
    BY <2>1
<1>3. pc'[Cron] \in {"idle", "run", "hung"}
  BY <1>1, Plain
<1>4. TypeOK'
  BY <1>1, <1>2, <1>3 DEF TypeOK, Slot, Labels
<1>5. InHand'
  BY <1>1 DEF Shape, InHand
<1> QED
  BY <1>4, <1>5 DEF Shape

\* nextCronMatch of a definition that is written.
LEMMA NextOf ==
  ASSUME Shape, NEW p \in Procs
  PROVE  /\ NextMatch(local[p].cron, now) \in SUBSET Nat
         /\ Cardinality(NextMatch(local[p].cron, now)) <= 1
         /\ \A t \in NextMatch(local[p].cron, now) : t > now
<1>1. local[p].cron \in SUBSET Nat /\ now \in Nat
  BY Plain, SlotFields
<1> QED
  BY <1>1, NextMatchIsToCome

\* What is written keeps to what was read, field by field.
LEMMA Written ==
  ASSUME Shape, NEW p \in Procs, local[p] \in Definition
  PROVE  /\ SavedDefinition(p)
               = [source |-> local[p].source, deployed |-> local[p].deployed,
                  cron |-> local[p].cron, next |-> NextMatch(local[p].cron, now)]
         /\ DeployedDefinition(p)
               = [source |-> local[p].source, deployed |-> local[p].source,
                  cron |-> local[p].cron, next |-> NextMatch(local[p].cron, now)]
         /\ SavedDefinition(p) \in Definition
         /\ DeployedDefinition(p) \in Definition
<1> DEFINE d == local[p]
           n == NextMatch(d.cron, now)
           e == [d EXCEPT !.deployed = d.source]
<1>1. /\ d.cron \in SUBSET Nat /\ d.source \in Sources \ {0} /\ d.deployed \in Sources
      /\ d.cron \in Crons \cup {Off}
      /\ d = [source |-> d.source, deployed |-> d.deployed, cron |-> d.cron, next |-> d.next]
  BY SlotFields DEF Slot, Definition
<1>2. n \in SUBSET Nat
  BY NextOf
<1>3. SavedDefinition(p) = [d EXCEPT !.next = n]
  BY DEF SavedDefinition
<1>4. DeployedDefinition(p) = [e EXCEPT !.next = n]
  BY DEF DeployedDefinition
<1>5. e = [source |-> d.source, deployed |-> d.source, cron |-> d.cron, next |-> d.next]
  BY <1>1
<1> HIDE DEF n, e
<1>6. SavedDefinition(p)
        = [source |-> d.source, deployed |-> d.deployed, cron |-> d.cron, next |-> n]
  BY <1>1, <1>3
<1>7. DeployedDefinition(p)
        = [source |-> d.source, deployed |-> d.source, cron |-> d.cron, next |-> n]
  BY <1>4, <1>5
<1>8. SavedDefinition(p) \in Definition /\ DeployedDefinition(p) \in Definition
  BY <1>1, <1>2, <1>6, <1>7 DEF Definition
<1> QED
  BY <1>6, <1>7, <1>8 DEF n

\* What a new draft is.
LEMMA NewDraft ==
  ASSUME Shape, NEW p \in Procs, NEW cron \in Crons \cup {Off}, Save(p, cron)
  PROVE  /\ calls' \in 0..MaxCalls
         /\ local' = [local EXCEPT ![p] = local'[p]]
         /\ local'[p] = [source |-> calls' + 1, deployed |-> def.deployed, cron |-> cron,
                         next |-> def.next]
         /\ local'[p] \in Definition
<1> DEFINE e == [def EXCEPT !.source = calls' + 1]
           f == [e EXCEPT !.cron = cron]
<1>1. def \in Slot /\ calls \in 0..MaxCalls /\ MaxCalls \in Nat /\ local \in [Procs -> Slot]
  BY Plain
<1>2. /\ def = [source |-> def.source, deployed |-> def.deployed, cron |-> def.cron,
                next |-> def.next]
      /\ def.deployed \in Sources /\ def.next \in SUBSET Nat
  BY <1>1, SlotFields
<1>3. calls' \in 0..MaxCalls
  BY <1>1 DEF Save, Arrive
<1>4. local' = [local EXCEPT ![p] = f]
  BY DEF Save
<1>5. e = [source |-> calls' + 1, deployed |-> def.deployed, cron |-> def.cron, next |-> def.next]
  BY <1>2
<1> HIDE DEF e
<1>6. f = [source |-> calls' + 1, deployed |-> def.deployed, cron |-> cron, next |-> def.next]
  BY <1>5
<1> HIDE DEF f
<1>7. local'[p] = f /\ local' = [local EXCEPT ![p] = local'[p]]
  BY <1>1, <1>4
<1>8. calls' + 1 \in Sources \ {0}
  <2> DEFINE k == calls'
  <2>1. k \in 0..MaxCalls /\ MaxCalls \in Nat
    BY <1>1, <1>3
  <2> HIDE DEF k
  <2>2. k + 1 \in 0..(MaxCalls + 1) /\ k + 1 # 0
    BY <2>1
  <2> QED
    BY <2>2 DEF Sources, k
<1>9. f \in Definition
  BY <1>2, <1>6, <1>8 DEF Definition
<1> QED
  BY <1>3, <1>6, <1>7, <1>9

\* Mishaps are noted, and never forgotten.
LEMMA Noted ==
  ASSUME Shape, [Next]_vars
  PROVE  incidents \subseteq incidents' /\ incidents' \subseteq Incidents
<1>1. incidents \subseteq Incidents
  BY Plain
<1> USE DEF When, Incidents, Beyond, Arrive
<1>2. ASSUME NEW p \in Callers, Arrive(p, TRUE) \/ Arrive(p, FALSE)
      PROVE  incidents \subseteq incidents' /\ incidents' \subseteq Incidents
  BY <1>1, <1>2
<1>3. ASSUME NEW p \in Callers, \/ \E cron \in Crons \cup {Off} : Save(p, cron)
                                \/ Deploy(p) \/ Remove(p) \/ Invoke(p)
      PROVE  incidents \subseteq incidents' /\ incidents' \subseteq Incidents
  BY <1>2, <1>3, Zenon DEF Save, Deploy, Remove, Invoke
<1>4. ASSUME NEW p \in Callers, Step(p) \/ Fails(p)
      PROVE  incidents \subseteq incidents' /\ incidents' \subseteq Incidents
  BY <1>1, <1>4 DEF Step, SaveWrites, DeployWrites, Count, Unlist, Fails
<1>5. ASSUME NEW p \in Procs, Complete(p) \/ ExitsSilently(p)
      PROVE  incidents \subseteq incidents' /\ incidents' \subseteq Incidents
  BY <1>1, <1>5 DEF Complete, ExitsSilently
<1>6. ASSUME Tick \/ ScheduledRunFails \/ Crash \/ Clock \/ UNCHANGED vars
      PROVE  incidents \subseteq incidents' /\ incidents' \subseteq Incidents
  BY <1>1, <1>6 DEF Tick, ScheduledRunFails, Crash, Clock, vars
<1> QED
  BY <1>3, <1>4, <1>5, <1>6, Zenon DEF Next

LEMMA EditShape ==
  ASSUME Shape, [Next]_vars, NEW p \in Callers,
         \/ \E cron \in Crons \cup {Off} : Save(p, cron)
         \/ Deploy(p) \/ Remove(p) \/ Invoke(p) \/ Step(p) \/ Fails(p)
  PROVE  Shape'
<1> USE FunctionsAssumption DEF Labels, Goto, Done
<1>1. /\ def \in Slot /\ Cardinality(def.next) <= 1 /\ None \in Slot
      /\ Cardinality(None.next) <= 1 /\ 0 \in Sources
      /\ p \in Procs /\ p # Cron /\ local[p] \in Slot /\ Cardinality(local[p].next) <= 1
  BY Plain, FS_EmptySet DEF None, Slot, Sources
<1>2. incidents' \subseteq Incidents
  BY Noted
<1>3. pc[Cron] = pc'[Cron] => (running <=> pc'[Cron] # "idle")
  BY Plain
<1>4. \A l \in Labels : [pc EXCEPT ![p] = l][Cron] = pc[Cron]
  BY <1>1, Plain
<1>5. ASSUME NEW cron \in Crons \cup {Off}, Save(p, cron) PROVE Shape'
  <2> DEFINE d == local'[p]
  <2>1. /\ calls' \in 0..MaxCalls /\ d \in Definition /\ d.next = def.next
        /\ local' = [local EXCEPT ![p] = d]
    <3>1. /\ calls' \in 0..MaxCalls
          /\ local' = [local EXCEPT ![p] = local'[p]]
          /\ local'[p] = [source |-> calls' + 1, deployed |-> def.deployed, cron |-> cron,
                          next |-> def.next]
          /\ local'[p] \in Definition
      BY <1>1, <1>5, NewDraft
    <3> QED
      BY <3>1
  <2>2. pc' = [pc EXCEPT ![p] = "save"]
    BY <1>5 DEF Save
  <2> HIDE DEF d
  <2>3. d \in Slot /\ Cardinality(d.next) <= 1
    BY <1>1, <2>1 DEF Slot
  <2> QED
    BY <1>1, <1>2, <1>3, <1>4, <1>5, <2>1, <2>2, <2>3, ShapeOf, Plain DEF Save
<1>6. CASE Deploy(p)
  <2>1. calls' \in 0..MaxCalls
    BY <1>6, Plain DEF Deploy, Arrive
  <2>2. def \in Definition
    BY <1>1, <1>6 DEF Deploy, Slot
  <2> QED
    BY <1>1, <1>2, <1>3, <1>4, <1>6, <2>1, <2>2, ShapeOf, Plain DEF Deploy
<1>7. CASE Remove(p)
  <2>1. calls' \in 0..MaxCalls
    BY <1>7, Plain DEF Remove, Arrive
  <2>2. local' = [local EXCEPT ![p] = local[p]]
    BY <1>7, Plain DEF Remove
  <2>3. edited' \in [source : Sources, deployed : Sources, cron : Crons \cup {Off}]
    BY <1>1, <1>7 DEF Remove, Draft, None
  <2> QED
    BY <1>1, <1>2, <1>3, <1>4, <1>7, <2>1, <2>2, <2>3, ShapeOf, Plain DEF Remove
<1>8. CASE Invoke(p)
  <2>1. calls' \in 0..MaxCalls
    BY <1>8, Plain DEF Invoke, Arrive
  <2>2. def \in Definition
    BY <1>1, <1>8 DEF Invoke, Slot, None
  <2> QED
    BY <1>1, <1>2, <1>3, <1>4, <1>8, <2>1, <2>2, ShapeOf, Plain DEF Invoke
<1>9. CASE SaveWrites(p)
  <2>1. local[p] \in Definition
    BY <1>1, <1>9 DEF SaveWrites, Shape, InHand
  <2>2. def' \in Slot /\ Cardinality(def'.next) <= 1
    <3>1. def' = SavedDefinition(p)
      BY <1>9 DEF SaveWrites, Persist
    <3>2. Cardinality(NextMatch(local[p].cron, now)) <= 1
      BY <1>1, NextOf
    <3> QED
      BY <1>1, <2>1, <3>1, <3>2, Written DEF Slot
  <2>3. edited' \in [source : Sources, deployed : Sources, cron : Crons \cup {Off}]
    BY <1>1, <1>9, SlotFields, Plain DEF SaveWrites
  <2> QED
    BY <1>1, <1>2, <1>3, <1>4, <1>9, <2>2, <2>3, ShapeOf, Plain DEF SaveWrites, Persist
<1>10. CASE DeployWrites(p)
  <2>1. local[p] \in Definition
    BY <1>1, <1>10 DEF DeployWrites, Shape, InHand
  <2>2. def' \in Slot /\ Cardinality(def'.next) <= 1
    <3>1. def' = DeployedDefinition(p)
      BY <1>10 DEF DeployWrites, Persist
    <3>2. Cardinality(NextMatch(local[p].cron, now)) <= 1
      BY <1>1, NextOf
    <3> QED
      BY <1>1, <2>1, <3>1, <3>2, Written DEF Slot
  <2>3. edited' \in [source : Sources, deployed : Sources, cron : Crons \cup {Off}]
    BY <1>1, <1>10, SlotFields, Plain DEF DeployWrites
  <2> QED
    BY <1>1, <1>2, <1>3, <1>4, <1>10, <2>2, <2>3, ShapeOf, Plain DEF DeployWrites, Persist
<1>11. CASE Count(p)
  <2>1. local' = [local EXCEPT ![p] = local[p]]
    BY <1>11, Plain DEF Count
  <2> QED
    BY <1>1, <1>2, <1>3, <1>4, <1>11, <2>1, ShapeOf, Plain DEF Count
<1>12. CASE Unlist(p)
  BY <1>1, <1>2, <1>3, <1>4, <1>12, ShapeOf, Plain DEF Unlist
<1>13. CASE Fails(p)
  <2>1. faults' \in 0..MaxFaults
    BY <1>13, Plain DEF Fails, Fault
  <2> QED
    BY <1>1, <1>2, <1>3, <1>4, <1>13, <2>1, ShapeOf, Plain DEF Fails
<1> QED
  BY <1>5, <1>6, <1>7, <1>8, <1>9, <1>10, <1>11, <1>12, <1>13, Zenon DEF Step

\* What a run writes.
LEMMA RunWrites ==
  ASSUME Shape, NEW p \in Procs, pc[p] = "run"
  PROVE  /\ local[p] \in Definition
         /\ RunDefinition(p) \in Definition
         /\ Cardinality(RunDefinition(p).next) <= 1
         /\ Draft(RunDefinition(p)) = Draft(local[p])
         /\ p = Cron => \A t \in RunDefinition(p).next : t > now
         /\ p # Cron => RunDefinition(p) = local[p]
<1>1. local[p] \in Definition /\ Cardinality(local[p].next) <= 1
  BY Plain DEF Shape, InHand
<1>2. CASE p = Cron
  <2>1. RunDefinition(p) = SavedDefinition(p)
    BY <1>2 DEF RunDefinition, SavedDefinition
  <2>2. /\ RunDefinition(p) \in Definition
        /\ RunDefinition(p).next = NextMatch(local[p].cron, now)
        /\ Draft(RunDefinition(p)) = Draft(local[p])
    BY <1>1, <2>1, Written DEF Draft
  <2> QED
    BY <1>1, <1>2, <2>2, NextOf
<1>3. CASE p # Cron
  BY <1>1, <1>3 DEF RunDefinition
<1> QED
  BY <1>1, <1>2, <1>3

LEMMA DeathShape ==
  ASSUME Shape, Dies, def' \in Slot, Cardinality(def'.next) <= 1, listed' \in BOOLEAN,
         faults' \in 0..MaxFaults, incidents' \subseteq Incidents,
         UNCHANGED <<now, edited, started, calls>>
  PROVE  Shape'
<1>1. None \in Slot /\ Cardinality(None.next) <= 1
  BY FS_EmptySet DEF None, Slot
<1>2. /\ pc' \in [Procs -> Labels] /\ local' \in [Procs -> Slot]
      /\ \A q \in Procs : pc'[q] = "idle" /\ local'[q] = None
  BY <1>1 DEF Dies, Labels
<1>3. \A c \in {def'} \cup {local'[q] : q \in Procs} : Cardinality(c.next) <= 1
  BY <1>1, <1>2
<1>4. TypeOK'
  BY <1>2, <1>3, Plain DEF TypeOK, Slot, Labels, Dies
<1> QED
  BY <1>2, <1>4 DEF Shape, InHand

LEMMA RunShape ==
  ASSUME Shape, [Next]_vars,
         \/ \E p \in Procs : Complete(p) \/ ExitsSilently(p)
         \/ Tick \/ ScheduledRunFails \/ Crash \/ Clock \/ UNCHANGED vars
  PROVE  Shape'
<1> USE FunctionsAssumption DEF Labels, Goto, Done
<1>1. None \in Slot /\ Cardinality(None.next) <= 1
  BY FS_EmptySet DEF None, Slot
<1>2. incidents' \subseteq Incidents
  BY Noted
<1>3. ASSUME NEW p \in Procs, Complete(p) PROVE Shape'
  <2>1. pc[p] = "run" /\ pc' = [pc EXCEPT ![p] = "idle"]
    BY <1>3 DEF Complete
  <2>2. def' \in Slot /\ Cardinality(def'.next) <= 1
    BY <1>3, <2>1, RunWrites DEF Complete, Persist, Slot
  <2>3. running' \in BOOLEAN /\ (running' <=> pc'[Cron] # "idle")
    BY <1>3, <2>1, Plain DEF Complete, Release
  <2> QED
    BY <1>1, <1>2, <1>3, <2>2, <2>3, ShapeOf, Plain DEF Complete, Persist
<1>4. ASSUME NEW p \in Procs, ExitsSilently(p) PROVE Shape'
  <2>1. pc[p] = "run" /\ pc' = [pc EXCEPT ![p] = "hung"] /\ UNCHANGED running
    BY <1>4 DEF ExitsSilently
  <2>2. local' = [local EXCEPT ![p] = local[p]] /\ local[p] \in Slot
    BY <1>4, Plain DEF ExitsSilently
  <2>3. running' \in BOOLEAN /\ (running' <=> pc'[Cron] # "idle")
    BY <2>1, Plain
  <2>4. faults' \in 0..MaxFaults
    BY <1>4, Plain DEF ExitsSilently, Fault
  <2>5. Cardinality(local[p].next) <= 1 /\ "hung" \in Labels
    BY Plain
  <2>6. UNCHANGED <<def, listed, now, ticked, edited, started, calls>>
    BY <1>4 DEF ExitsSilently
  <2>7. /\ def' \in Slot /\ Cardinality(def'.next) <= 1
        /\ listed' \in BOOLEAN /\ now' \in TickTime /\ ticked' \in BOOLEAN
        /\ edited' \in [source : Sources, deployed : Sources, cron : Crons \cup {Off}]
        /\ started' \in [TickTime -> 0..2] /\ calls' \in 0..MaxCalls
    BY <2>6, Plain
  <2> HIDE DEF Labels
  <2> QED
    BY <1>2, <2>1, <2>2, <2>3, <2>4, <2>5, <2>7, ShapeOf
<1>5. CASE Tick
  <2>1. CASE MayStart
    <3>1. def \in Definition
      <4>1. def.deployed # 0 /\ def \in Slot
        BY <2>1, Plain DEF MayStart
      <4> QED
        BY <4>1 DEF Slot, None
    <3>2. /\ running' /\ running' \in BOOLEAN
          /\ pc' = [pc EXCEPT ![Cron] = "run"] /\ local' = [local EXCEPT ![Cron] = def]
          /\ started' = [started EXCEPT ![DueTime(def)] = IF @ = 2 THEN 2 ELSE @ + 1]
      BY <1>5, <2>1 DEF Tick
    <3>3. started' \in [TickTime -> 0..2]
      <4>1. started \in [TickTime -> 0..2]
        BY Plain
      <4>2. \A k \in 0..2 : (IF k = 2 THEN 2 ELSE k + 1) \in 0..2
        OBVIOUS
      <4> HIDE DEF Labels, Goto, Done
      <4> QED
        BY <3>2, <4>1, <4>2
    <3>4. ticked' \in BOOLEAN
      BY <1>5 DEF Tick
    <3>5. pc'[Cron] = "run"
      BY <3>2, Plain
    <3> QED
      BY <1>2, <1>5, <3>1, <3>2, <3>3, <3>4, <3>5, ShapeOf, Plain DEF Tick
  <2>2. CASE ~MayStart
    <3>1. UNCHANGED <<running, pc, local, started, incidents, def, listed, now, edited, calls, faults>>
      BY <1>5, <2>2 DEF Tick
    <3>2. ticked' \in BOOLEAN
      BY <1>5 DEF Tick
    <3> QED
      BY <3>1, <3>2 DEF Shape, TypeOK, InHand
  <2> QED
    BY <2>1, <2>2
<1>6. CASE ScheduledRunFails
  <2>1. def' \in Slot /\ Cardinality(def'.next) <= 1 /\ listed' \in BOOLEAN
    BY <1>6, RunWrites, Plain DEF ScheduledRunFails, Persist, Slot
  <2>2. faults' \in 0..MaxFaults
    BY <1>6, Plain DEF ScheduledRunFails, Fault
  <2> QED
    BY <1>2, <1>6, <2>1, <2>2, DeathShape DEF ScheduledRunFails
<1>7. CASE Crash
  <2>1. faults' \in 0..MaxFaults
    BY <1>7, Plain DEF Crash, Fault
  <2> QED
    BY <1>2, <1>7, <2>1, DeathShape, Plain DEF Crash
<1>8. CASE Clock
  <2>1. now' \in TickTime /\ ticked' \in BOOLEAN
    BY <1>8, Plain DEF Clock
  <2>2. UNCHANGED <<def, listed, running, pc, local, edited, started, calls, faults, incidents>>
    BY <1>8 DEF Clock
  <2> QED
    BY <2>1, <2>2 DEF Shape, TypeOK, InHand
<1>9. CASE UNCHANGED vars
  BY <1>9 DEF vars, Shape, TypeOK, InHand
<1> QED
  BY <1>3, <1>4, <1>5, <1>6, <1>7, <1>8, <1>9, Zenon

LEMMA NextShape == Shape /\ [Next]_vars => Shape'
  BY EditShape, RunShape, Zenon DEF Next

-----------------------------------------------------------------------------
(* Edits stand.                                                             *)

\* What a request, or the scheduler, that moves leaves of the others.
LEMMA Others ==
  ASSUME Shape, NEW p \in Procs, NEW l, NEW d,
         pc' = [pc EXCEPT ![p] = l], local' = [local EXCEPT ![p] = d]
  PROVE  /\ pc'[p] = l /\ local'[p] = d
         /\ \A q \in Procs : q # p => pc'[q] = pc[q] /\ local'[q] = local[q]
  BY Plain

LEMMA EditsApartEdit ==
  ASSUME Shape, EditsApart, [Next]_vars, NEW p \in Callers,
         \/ \E cron \in Crons \cup {Off} : Save(p, cron)
         \/ Deploy(p) \/ Remove(p) \/ Invoke(p) \/ Step(p) \/ Fails(p)
  PROVE  EditsApart'
<1> SUFFICES ASSUME "edit_crossed" \notin incidents' PROVE EditsApart'
  BY DEF EditsApart
<1> USE DEF Goto
<1>1. "edit_crossed" \notin incidents /\ p \in Procs
  BY Noted, Plain
<1>2. /\ Draft(def) = edited
      /\ \A q, r \in Edits : q = r
      /\ Edits = {} \/ Runs = {}
      /\ \A q \in Runs : Draft(local[q]) = Draft(def)
      /\ \A q \in Procs : pc[q] = "deploy" => Draft(local[q]) = Draft(def)
      /\ \A q \in Procs : pc[q] = "save" => local[q].deployed = def.deployed
  BY <1>1 DEF EditsApart
<1>3. Arrive(p, TRUE) => Edits = {} /\ Runs = {}
  BY DEF Arrive, When
<1>4. Arrive(p, FALSE) => Edits = {}
  BY DEF Arrive, When
\* The definition stays, the others keep their places.
<1>5. ASSUME UNCHANGED <<def, edited>>, \A q \in Procs \ {p} : pc'[q] = pc[q] /\ local'[q] = local[q],
             pc'[p] \in {"save", "deploy", "count", "unlist"} => Edits \subseteq {p} /\ Runs \subseteq {p},
             pc'[p] = "run" => Edits \subseteq {p},
             pc'[p] \in {"run", "deploy"} => Draft(local'[p]) = Draft(def),
             pc'[p] = "save" => local'[p].deployed = def.deployed
      PROVE  EditsApart'
  <2>1. Edits' \subseteq Edits \cup {p} /\ Runs' \subseteq Runs \cup {p}
    BY <1>5 DEF Edits, Runs
  <2>2. p \in Edits' <=> pc'[p] \in {"save", "deploy", "count", "unlist"}
    BY <1>1 DEF Edits
  <2>3. p \in Runs' <=> pc'[p] = "run"
    BY <1>1 DEF Runs
  <2>4. \A q, r \in Edits' : q = r
    BY <1>2, <1>5, <2>1, <2>2
  <2>5. Edits' = {} \/ Runs' = {}
    <3>1. CASE p \in Edits'
      BY <1>5, <2>1, <2>2, <2>3, <3>1
    <3>2. CASE p \in Runs'
      BY <1>5, <2>1, <2>2, <2>3, <3>2
    <3>3. CASE p \notin Edits' /\ p \notin Runs'
      BY <1>2, <2>1, <3>3
    <3> QED
      BY <3>1, <3>2, <3>3
  <2>6. \A q \in Runs' : Draft(local'[q]) = Draft(def)
    BY <1>2, <1>5, <2>1, <2>3 DEF Runs
  <2>7. \A q \in Procs : pc'[q] = "deploy" => Draft(local'[q]) = Draft(def)
    BY <1>2, <1>5
  <2>8. \A q \in Procs : pc'[q] = "save" => local'[q].deployed = def.deployed
    BY <1>2, <1>5
  <2>9. UNCHANGED <<def, edited>>
    BY <1>5
  <2> QED
    BY <1>2, <2>4, <2>5, <2>6, <2>7, <2>8, <2>9 DEF EditsApart, Draft
\* The definition is changed by the one edit there is, and nothing runs.
<1>6. ASSUME Draft(def') = edited', \A q \in Procs \ {p} : pc'[q] = pc[q] /\ local'[q] = local[q],
             Edits \subseteq {p}, Runs \subseteq {p}, pc'[p] \in {"idle", "count"}
      PROVE  EditsApart'
  <2>1. Edits' \subseteq {p} /\ Runs' = {}
    BY <1>6 DEF Edits, Runs
  <2>2. \A q \in Procs : pc'[q] \notin {"deploy", "save"}
    BY <1>6 DEF Edits
  <2> QED
    BY <1>6, <2>1, <2>2 DEF EditsApart
<1>7. ASSUME NEW cron \in Crons \cup {Off}, Save(p, cron) PROVE EditsApart'
  <2>1. local'[p].deployed = def.deployed /\ local' = [local EXCEPT ![p] = local'[p]]
    <3>1. /\ local' = [local EXCEPT ![p] = local'[p]]
          /\ local'[p] = [source |-> calls' + 1, deployed |-> def.deployed, cron |-> cron,
                          next |-> def.next]
      BY <1>1, <1>7, NewDraft
    <3> QED
      BY <3>1
  <2>2. pc'[p] = "save" /\ \A q \in Procs \ {p} : pc'[q] = pc[q] /\ local'[q] = local[q]
    BY <1>1, <1>7, <2>1, Plain DEF Save
  <2>3. Edits = {} /\ Runs = {} /\ UNCHANGED <<def, edited>>
    BY <1>3, <1>7 DEF Save
  <2> QED
    BY <1>5, <2>1, <2>2, <2>3
<1>8. CASE Deploy(p)
  <2>1. /\ pc'[p] = "deploy" /\ local'[p] = def
        /\ \A q \in Procs \ {p} : pc'[q] = pc[q] /\ local'[q] = local[q]
    BY <1>1, <1>8, Others DEF Deploy
  <2>2. Edits = {} /\ Runs = {} /\ UNCHANGED <<def, edited>>
    BY <1>3, <1>8 DEF Deploy
  <2> QED
    BY <1>5, <2>1, <2>2
<1>9. CASE Remove(p)
  <2>1. pc'[p] = "count" /\ \A q \in Procs \ {p} : pc'[q] = pc[q] /\ local'[q] = local[q]
    BY <1>1, <1>9, Plain DEF Remove
  <2>2. Edits = {} /\ Runs = {} /\ Draft(def') = edited'
    BY <1>3, <1>9 DEF Remove
  <2> QED
    BY <1>6, <2>1, <2>2
<1>10. CASE Invoke(p)
  <2>1. /\ pc'[p] = "run" /\ local'[p] = def
        /\ \A q \in Procs \ {p} : pc'[q] = pc[q] /\ local'[q] = local[q]
    BY <1>1, <1>10, Others DEF Invoke
  <2>2. Edits = {} /\ UNCHANGED <<def, edited>>
    BY <1>4, <1>10 DEF Invoke
  <2> QED
    BY <1>5, <2>1, <2>2
<1>11. pc[p] \in {"save", "deploy", "count", "unlist"} => Edits \subseteq {p} /\ Runs \subseteq {p}
  BY <1>1, <1>2 DEF Edits
<1>12. CASE SaveWrites(p)
  <2>1. pc[p] = "save" /\ pc'[p] = "idle" /\ \A q \in Procs \ {p} : pc'[q] = pc[q] /\ local'[q] = local[q]
    BY <1>1, <1>12, Plain DEF SaveWrites, Done
  <2>2. local[p] \in Definition /\ local[p].deployed = def.deployed
    BY <1>1, <1>2, <2>1 DEF Shape, InHand
  <2>3. def' = SavedDefinition(p)
    BY <1>12 DEF SaveWrites, Persist
  <2>4. Draft(def') = [source |-> local[p].source, deployed |-> def.deployed, cron |-> local[p].cron]
    BY <1>1, <2>2, <2>3, Written DEF Draft
  <2>5. edited' = [source |-> local[p].source, deployed |-> def.deployed, cron |-> local[p].cron]
    <3> DEFINE e == [edited EXCEPT !.source = local[p].source]
    <3>1. edited' = [e EXCEPT !.cron = local[p].cron]
      BY <1>12 DEF SaveWrites
    <3>2. edited = [source |-> def.source, deployed |-> def.deployed, cron |-> def.cron]
      BY <1>2 DEF Draft
    <3>3. e = [source |-> local[p].source, deployed |-> def.deployed, cron |-> def.cron]
      BY <3>2
    <3> HIDE DEF e
    <3> QED
      BY <3>1, <3>3
  <2> QED
    BY <1>6, <1>11, <2>1, <2>4, <2>5
<1>13. CASE DeployWrites(p)
  <2>1. pc[p] = "deploy" /\ pc'[p] = "idle" /\ \A q \in Procs \ {p} : pc'[q] = pc[q] /\ local'[q] = local[q]
    BY <1>1, <1>13, Plain DEF DeployWrites, Done
  <2>2. local[p] \in Definition /\ Draft(local[p]) = Draft(def)
    BY <1>1, <1>2, <2>1 DEF Shape, InHand
  <2>3. def' = DeployedDefinition(p)
    BY <1>13 DEF DeployWrites, Persist
  <2>4. Draft(def') = [source |-> local[p].source, deployed |-> local[p].source, cron |-> local[p].cron]
    BY <1>1, <2>2, <2>3, Written DEF Draft
  <2>5. edited = [source |-> local[p].source, deployed |-> local[p].deployed, cron |-> local[p].cron]
    BY <1>2, <2>2 DEF Draft
  <2>6. edited' = [source |-> local[p].source, deployed |-> local[p].source, cron |-> local[p].cron]
    BY <1>13, <2>5 DEF DeployWrites
  <2> QED
    BY <1>6, <1>11, <2>1, <2>4, <2>6
<1>14. CASE Count(p) \/ Unlist(p)
  <2>1. /\ pc[p] \in {"count", "unlist"} /\ pc'[p] \in {"idle", "unlist"}
        /\ \A q \in Procs \ {p} : pc'[q] = pc[q] /\ local'[q] = local[q]
    BY <1>1, <1>14, Plain DEF Count, Unlist, Done
  <2>2. UNCHANGED <<def, edited>>
    BY <1>14 DEF Count, Unlist
  <2> QED
    BY <1>5, <1>11, <2>1, <2>2
<1>15. CASE Fails(p)
  <2>1. pc'[p] = "idle" /\ \A q \in Procs \ {p} : pc'[q] = pc[q] /\ local'[q] = local[q]
    BY <1>1, <1>15, Plain DEF Fails, Done
  <2>2. UNCHANGED <<def, edited>>
    BY <1>15 DEF Fails
  <2> QED
    BY <1>5, <2>1, <2>2
<1> QED
  BY <1>7, <1>8, <1>9, <1>10, <1>12, <1>13, <1>14, <1>15, Zenon DEF Step

LEMMA EditsApartRun ==
  ASSUME Shape, EditsApart, [Next]_vars,
         \/ \E p \in Procs : Complete(p) \/ ExitsSilently(p)
         \/ Tick \/ ScheduledRunFails \/ Crash \/ Clock \/ UNCHANGED vars
  PROVE  EditsApart'
<1> SUFFICES ASSUME "edit_crossed" \notin incidents' PROVE EditsApart'
  BY DEF EditsApart
<1> USE DEF Goto
<1>1. "edit_crossed" \notin incidents
  BY Noted
<1>2. /\ Draft(def) = edited
      /\ \A q, r \in Edits : q = r
      /\ Edits = {} \/ Runs = {}
      /\ \A q \in Runs : Draft(local[q]) = Draft(def)
      /\ \A q \in Procs : pc[q] = "deploy" => Draft(local[q]) = Draft(def)
      /\ \A q \in Procs : pc[q] = "save" => local[q].deployed = def.deployed
  BY <1>1 DEF EditsApart
\* The definition may be written, with the same draft; who was not running does not edit.
<1>3. ASSUME Draft(def') = Draft(def), UNCHANGED edited, Edits = {} \/ UNCHANGED def,
             \A q \in Procs : \/ pc'[q] = pc[q] /\ local'[q] = local[q]
                             \/ pc'[q] \in {"idle", "hung"}
      PROVE  EditsApart'
  <2>1. Edits' \subseteq Edits /\ Runs' \subseteq Runs
    BY <1>3 DEF Edits, Runs
  <2>2. Draft(def)' = edited'
    BY <1>2, <1>3 DEF Draft
  <2>3. \A q \in Runs' : Draft(local[q])' = Draft(def)'
    BY <1>2, <1>3, <2>1 DEF Runs, Draft
  <2>4. \A q \in Procs : pc'[q] = "deploy" => Draft(local[q])' = Draft(def)'
    BY <1>2, <1>3 DEF Draft
  <2>5. \A q \in Procs : pc'[q] = "save" => local'[q].deployed = def'.deployed
    BY <1>2, <1>3 DEF Edits
  <2> QED
    BY <1>2, <2>1, <2>2, <2>3, <2>4, <2>5 DEF EditsApart
\* A run that ends writes what it has read.
<1>4. ASSUME NEW p \in Procs, pc[p] = "run", def' = RunDefinition(p)
      PROVE  Draft(def') = Draft(def) /\ Edits = {}
  <2>1. p \in Runs
    BY <1>4 DEF Runs
  <2> QED
    BY <1>2, <1>4, <2>1, RunWrites
<1>5. ASSUME NEW p \in Procs, Complete(p) PROVE EditsApart'
  <2>1. pc[p] = "run" /\ def' = RunDefinition(p) /\ UNCHANGED edited
    BY <1>5 DEF Complete, Persist
  <2>2. pc'[p] = "idle" /\ \A q \in Procs \ {p} : pc'[q] = pc[q] /\ local'[q] = local[q]
    BY <1>5, Plain DEF Complete, Done
  <2> QED
    BY <1>3, <1>4, <2>1, <2>2
<1>6. ASSUME NEW p \in Procs, ExitsSilently(p) PROVE EditsApart'
  <2>1. UNCHANGED <<def, edited, local>>
    BY <1>6 DEF ExitsSilently
  <2>2. pc'[p] = "hung" /\ \A q \in Procs \ {p} : pc'[q] = pc[q]
    BY <1>6, Plain DEF ExitsSilently
  <2> QED
    BY <1>3, <2>1, <2>2
<1>7. CASE Tick
  <2>1. CASE MayStart
    <3>1. UNCHANGED <<def, edited>> /\ Edits = {}
      BY <1>7, <2>1 DEF Tick, When
    <3>2. /\ pc'[Cron] = "run" /\ local'[Cron] = def /\ Cron \in Procs
          /\ \A q \in Procs \ {Cron} : pc'[q] = pc[q] /\ local'[q] = local[q]
      BY <1>7, <2>1, Plain DEF Tick
    <3>3. Edits' = {} /\ Runs' \subseteq Runs \cup {Cron}
      BY <3>1, <3>2 DEF Edits, Runs
    <3>4. ASSUME NEW q \in Runs' PROVE Draft(local[q])' = Draft(def)'
      <4>1. CASE q = Cron
        BY <3>1, <3>2, <4>1 DEF Draft
      <4>2. CASE q # Cron
        <5>1. q \in Runs /\ local'[q] = local[q]
          BY <3>2, <3>3, <4>2 DEF Runs
        <5> QED
          BY <1>2, <3>1, <5>1 DEF Draft
      <4> QED
        BY <4>1, <4>2
    <3>5. Draft(def)' = edited'
      BY <1>2, <3>1 DEF Draft
    <3>6. \A q \in Procs : pc'[q] \notin {"deploy", "save"}
      BY <3>3 DEF Edits
    <3> QED
      BY <3>3, <3>4, <3>5, <3>6 DEF EditsApart
  <2>2. CASE ~MayStart
    <3>1. UNCHANGED <<def, edited, pc, local>>
      BY <1>7, <2>2 DEF Tick
    <3> QED
      BY <1>3, <3>1
  <2> QED
    BY <2>1, <2>2
<1>8. CASE ScheduledRunFails
  <2>1. pc[Cron] = "run" /\ def' = RunDefinition(Cron) /\ UNCHANGED edited
    BY <1>8 DEF ScheduledRunFails, Persist
  <2>2. \A q \in Procs : pc'[q] = "idle"
    BY <1>8 DEF ScheduledRunFails, Dies
  <2>3. Cron \in Procs
    BY Plain
  <2> QED
    BY <1>3, <1>4, <2>1, <2>2, <2>3
<1>9. CASE Crash
  <2>1. UNCHANGED <<def, edited>> /\ \A q \in Procs : pc'[q] = "idle"
    BY <1>9 DEF Crash, Dies
  <2> QED
    BY <1>3, <2>1
<1>10. CASE Clock \/ UNCHANGED vars
  <2>1. UNCHANGED <<def, edited, pc, local>>
    BY <1>10 DEF Clock, vars
  <2> QED
    BY <1>3, <2>1
<1> QED
  BY <1>5, <1>6, <1>7, <1>8, <1>9, <1>10, Zenon

LEMMA NextEditsApart == Shape /\ EditsApart /\ [Next]_vars => EditsApart'
  BY EditsApartEdit, EditsApartRun, Zenon DEF Next

-----------------------------------------------------------------------------
(* A due time is started once.                                              *)

\* A next run that has just been worked out has not been started.
LEMMA NewIsUnstarted ==
  ASSUME Shape, StartsAreOver, NEW d, \A t \in d.next : t > now
  PROVE  Unstarted(d)
  BY Plain DEF StartsAreOver, Unstarted

\* What is written has a next run, or is noted to lie beyond the horizon.
LEMMA NewIsScheduled ==
  ASSUME NEW d, Beyond(d) \subseteq incidents', "beyond" \notin incidents'
  PROVE  Scheduled(d)
  BY DEF Beyond, When, Scheduled

\* The time a run answers to is over.
LEMMA DueTimeIsOver ==
  ASSUME Shape, Due(def)
  PROVE  /\ DueTime(def) \in Nat /\ DueTime(def) <= now
         /\ def.next # {} => DueTime(def) \in def.next
<1>1. now \in Nat /\ def.next \in SUBSET Nat
  BY Plain, SlotFields
<1>2. CASE def.next = {}
  BY <1>1, <1>2 DEF DueTime, Minute
<1>3. CASE def.next # {}
  <2>1. PICK t \in def.next : t <= now
    BY <1>3 DEF Due
  <2>2. Min(def.next) \in def.next /\ Min(def.next) <= t
    BY <1>1, <1>3, MinIsLeast
  <2>3. DueTime(def) = Min(def.next)
    BY <1>3 DEF DueTime
  <2> QED
    BY <1>1, <2>1, <2>2, <2>3
<1> QED
  BY <1>2, <1>3

LEMMA Started ==
  ASSUME Shape, StartsAreOver, Tick, MayStart
  PROVE  /\ StartsAreOver'
         /\ Unstarted(def) /\ def.next # {} /\ (\A t \in TickTime : started[t] <= 1) =>
              \A t \in TickTime : started'[t] <= 1
<1> DEFINE n == DueTime(def)
<1>1. n \in Nat /\ n <= now /\ (def.next # {} => n \in def.next)
  BY DueTimeIsOver DEF MayStart
<1> HIDE DEF n
<1>2. started \in [TickTime -> 0..2] /\ now \in Nat /\ TickTime \subseteq Nat
  BY Plain
<1>3. started' = [started EXCEPT ![n] = IF @ = 2 THEN 2 ELSE @ + 1] /\ now' = now
  BY DEF Tick, n
<1>4. /\ \A t \in TickTime : t # n => started'[t] = started[t]
      /\ n \in TickTime => started'[n] = IF started[n] = 2 THEN 2 ELSE started[n] + 1
  BY <1>2, <1>3
<1>5. StartsAreOver'
  BY <1>1, <1>2, <1>3, <1>4 DEF StartsAreOver
<1>6. ASSUME Unstarted(def), def.next # {}, \A t \in TickTime : started[t] <= 1, NEW t \in TickTime
      PROVE  started'[t] <= 1
  <2>1. CASE t = n
    <3>1. started[n] = 0
      BY <1>1, <1>6, <2>1 DEF Unstarted
    <3> QED
      BY <1>4, <2>1, <3>1
  <2>2. CASE t # n
    BY <1>4, <1>6, <2>2
  <2> QED
    BY <2>1, <2>2
<1> QED
  BY <1>5, <1>6

LEMMA NextStartsAreOver == Shape /\ StartsAreOver /\ [Next]_vars => StartsAreOver'
<1> SUFFICES ASSUME Shape, StartsAreOver, [Next]_vars PROVE StartsAreOver'
  OBVIOUS
<1>1. ASSUME UNCHANGED started, now' = now \/ now' = now + 1 PROVE StartsAreOver'
  <2>1. TickTime \subseteq Nat /\ now \in Nat /\ started \in [TickTime -> 0..2]
    BY Plain
  <2> QED
    BY <1>1, <2>1 DEF StartsAreOver
<1>2. CASE Tick
  <2>1. CASE MayStart
    BY <1>2, <2>1, Started
  <2>2. CASE ~MayStart
    BY <1>1, <1>2, <2>2 DEF Tick
  <2> QED
    BY <2>1, <2>2
<1>3. CASE Clock
  BY <1>1, <1>3 DEF Clock
<1>4. CASE \E p \in Callers :
             \/ \E cron \in Crons \cup {Off} : Save(p, cron)
             \/ Deploy(p) \/ Remove(p) \/ Invoke(p) \/ Step(p) \/ Fails(p)
  <2>1. UNCHANGED <<started, now>>
    BY <1>4 DEF Save, Deploy, Remove, Invoke, Step, SaveWrites, DeployWrites, Count, Unlist, Fails
  <2> QED
    BY <1>1, <2>1
<1>5. CASE \/ \E p \in Procs : Complete(p) \/ ExitsSilently(p)
           \/ ScheduledRunFails \/ Crash \/ UNCHANGED vars
  <2>1. UNCHANGED <<started, now>>
    BY <1>5 DEF Complete, ExitsSilently, ScheduledRunFails, Crash, vars
  <2> QED
    BY <1>1, <2>1
<1> QED
  BY <1>2, <1>3, <1>4, <1>5, Zenon DEF Next

LEMMA NextUnstartedEdit ==
  ASSUME Shape, StartsAreOver, NextUnstarted, [Next]_vars, NEW p \in Callers,
         \/ \E cron \in Crons \cup {Off} : Save(p, cron)
         \/ Deploy(p) \/ Remove(p) \/ Invoke(p) \/ Step(p) \/ Fails(p)
  PROVE  NextUnstarted'
<1> SUFFICES ASSUME Orderly' PROVE NextUnstarted'
  BY DEF NextUnstarted
<1> USE DEF Goto
<1>1. Orderly /\ p \in Procs /\ p # Cron /\ Cron \in Procs
  BY Noted, Plain DEF Orderly, Spoiled
<1>2. /\ \A t \in TickTime : started[t] <= 1
      /\ pc[Cron] = "idle" => Unstarted(def)
      /\ Scheduled(def)
      /\ \A q \in Callers : pc[q] = "run" =>
           /\ pc[Cron] # "run"
           /\ pc[Cron] = "idle" => Unstarted(local[q])
           /\ Scheduled(local[q])
  BY <1>1 DEF NextUnstarted
<1>3. ASSUME UNCHANGED started, \A q \in Procs \ {p} : pc'[q] = pc[q] /\ local'[q] = local[q],
             pc[Cron] = "idle" => Unstarted(def'), Scheduled(def'),
             pc'[p] = "run" => /\ pc[Cron] # "run"
                               /\ pc[Cron] = "idle" => Unstarted(local'[p])
                               /\ Scheduled(local'[p])
      PROVE  NextUnstarted'
  <2>1. pc'[Cron] = pc[Cron]
    BY <1>1, <1>3
  <2>2. ASSUME NEW q \in Callers, pc'[q] = "run"
        PROVE  /\ pc[Cron] # "run"
               /\ pc[Cron] = "idle" => Unstarted(local'[q])
               /\ Scheduled(local'[q])
    <3>1. CASE q = p
      BY <1>3, <2>2, <3>1
    <3>2. CASE q # p
      <4>1. q \in Procs \ {p}
        BY <3>2, Plain
      <4> QED
        BY <1>2, <1>3, <2>2, <4>1
    <3> QED
      BY <3>1, <3>2
  <2> QED
    BY <1>2, <1>3, <2>1, <2>2 DEF NextUnstarted, Unstarted, Scheduled
\* The definition stays, and p does not run.
<1>4. ASSUME UNCHANGED <<def, started>>, pc'[p] # "run",
             \A q \in Procs \ {p} : pc'[q] = pc[q] /\ local'[q] = local[q]
      PROVE  NextUnstarted'
  BY <1>2, <1>3, <1>4
<1>5. ASSUME NEW cron \in Crons \cup {Off}, Save(p, cron) PROVE NextUnstarted'
  <2>1. local' = [local EXCEPT ![p] = local'[p]]
    BY <1>1, <1>5, NewDraft
  <2>2. pc'[p] = "save" /\ \A q \in Procs \ {p} : pc'[q] = pc[q] /\ local'[q] = local[q]
    BY <1>1, <1>5, <2>1, Plain DEF Save
  <2>3. UNCHANGED <<def, started>>
    BY <1>5 DEF Save
  <2> QED
    BY <1>4, <2>2, <2>3
<1>6. CASE Deploy(p) \/ Count(p) \/ Unlist(p) \/ Fails(p)
  <2>1. pc'[p] # "run" /\ UNCHANGED <<def, started>>
    BY <1>1, <1>6, Plain DEF Deploy, Count, Unlist, Fails, Done
  <2>2. \A q \in Procs \ {p} : pc'[q] = pc[q] /\ local'[q] = local[q]
    BY <1>1, <1>6, Plain DEF Deploy, Count, Unlist, Fails, Done
  <2> QED
    BY <1>4, <2>1, <2>2
<1>7. CASE Remove(p)
  <2>1. pc'[p] = "count" /\ \A q \in Procs \ {p} : pc'[q] = pc[q] /\ local'[q] = local[q]
    BY <1>1, <1>7, Plain DEF Remove
  <2>2. def' = None /\ UNCHANGED started
    BY <1>7 DEF Remove
  <2>3. Unstarted(None) /\ Scheduled(None)
    BY DEF Unstarted, Scheduled, None
  <2> QED
    BY <1>3, <2>1, <2>2, <2>3
<1>8. CASE Invoke(p)
  <2>1. /\ pc'[p] = "run" /\ local'[p] = def
        /\ \A q \in Procs \ {p} : pc'[q] = pc[q] /\ local'[q] = local[q]
    BY <1>1, <1>8, Others DEF Invoke
  <2>2. UNCHANGED <<def, started>>
    BY <1>8 DEF Invoke
  <2>3. Runs = {}
    BY <1>8 DEF Invoke, Arrive, When, Orderly, Spoiled
  <2>4. pc[Cron] # "run"
    BY <1>1, <2>3 DEF Runs
  <2> QED
    BY <1>2, <1>3, <2>1, <2>2, <2>4
<1>9. CASE SaveWrites(p) \/ DeployWrites(p)
  <2>1. pc'[p] = "idle" /\ \A q \in Procs \ {p} : pc'[q] = pc[q] /\ local'[q] = local[q]
    BY <1>1, <1>9, Plain DEF SaveWrites, DeployWrites, Done
  <2>2. local[p] \in Definition
    BY <1>1, <1>9 DEF SaveWrites, DeployWrites, Shape, InHand
  <2>3. def' \in {SavedDefinition(p), DeployedDefinition(p)} /\ UNCHANGED started
    BY <1>9 DEF SaveWrites, DeployWrites, Persist
  <2>4. def'.next = NextMatch(local[p].cron, now)
    BY <1>1, <2>2, <2>3, Written
  <2>5. \A t \in def'.next : t > now
    BY <1>1, <2>4, NextOf
  <2>6. Beyond(def') \subseteq incidents'
    BY <1>9 DEF SaveWrites, DeployWrites
  <2>7. Unstarted(def') /\ Scheduled(def')
    BY <2>5, <2>6, NewIsUnstarted, NewIsScheduled DEF Orderly, Spoiled
  <2> QED
    BY <1>3, <2>1, <2>3, <2>7
<1> QED
  BY <1>5, <1>6, <1>7, <1>8, <1>9, Zenon DEF Step

LEMMA NextUnstartedRun ==
  ASSUME Shape, StartsAreOver, NextUnstarted, [Next]_vars,
         \/ \E p \in Procs : Complete(p) \/ ExitsSilently(p)
         \/ Tick \/ ScheduledRunFails \/ Crash \/ Clock \/ UNCHANGED vars
  PROVE  NextUnstarted'
<1> SUFFICES ASSUME Orderly' PROVE NextUnstarted'
  BY DEF NextUnstarted
<1> USE DEF Goto
<1>1. Orderly /\ Cron \in Procs /\ Callers \subseteq Procs /\ Cron \notin Callers
  BY Noted, Plain DEF Orderly, Spoiled
<1>2. /\ \A t \in TickTime : started[t] <= 1
      /\ pc[Cron] = "idle" => Unstarted(def)
      /\ Scheduled(def)
      /\ \A q \in Callers : pc[q] = "run" =>
           /\ pc[Cron] # "run"
           /\ pc[Cron] = "idle" => Unstarted(local[q])
           /\ Scheduled(local[q])
  BY <1>1 DEF NextUnstarted
\* No request starts to run, and no time is started.
<1>3. ASSUME UNCHANGED started,
             pc'[Cron] = "idle" => Unstarted(def'), Scheduled(def'),
             \A q \in Callers : pc'[q] = "run" => pc[q] = "run" /\ local'[q] = local[q],
             \/ pc'[Cron] = pc[Cron] \/ pc'[Cron] = "hung" \/ \A q \in Callers : pc'[q] # "run"
      PROVE  NextUnstarted'
  <2>1. ASSUME NEW q \in Callers, pc'[q] = "run"
        PROVE  /\ pc'[Cron] # "run"
               /\ pc'[Cron] = "idle" => Unstarted(local'[q])
               /\ Scheduled(local'[q])
    BY <1>2, <1>3, <2>1
  <2> QED
    BY <1>2, <1>3, <2>1 DEF NextUnstarted, Unstarted, Scheduled
<1>4. ASSUME NEW p \in Procs, pc[p] = "run", def' = RunDefinition(p), Beyond(def') \subseteq incidents'
      PROVE  Scheduled(def') /\ (p = Cron \/ pc[Cron] = "idle" => Unstarted(def'))
  <2>1. "beyond" \notin incidents'
    BY DEF Orderly, Spoiled
  <2>2. Scheduled(def')
    BY <1>4, <2>1, NewIsScheduled
  <2>3. CASE p = Cron
    BY <1>4, <2>2, <2>3, RunWrites, NewIsUnstarted
  <2>4. CASE p # Cron
    <3>1. p \in Callers /\ def' = local[p]
      BY <1>4, <2>4, RunWrites DEF Procs
    <3> QED
      BY <1>2, <1>4, <2>2, <2>4, <3>1
  <2> QED
    BY <2>3, <2>4
<1>5. ASSUME NEW p \in Procs, Complete(p) PROVE NextUnstarted'
  <2>1. /\ pc[p] = "run" /\ def' = RunDefinition(p) /\ Beyond(def') \subseteq incidents'
        /\ UNCHANGED started
    BY <1>5 DEF Complete, Persist
  <2>2. pc'[p] = "idle" /\ \A q \in Procs \ {p} : pc'[q] = pc[q] /\ local'[q] = local[q]
    BY <1>5, Plain DEF Complete, Done
  <2>3. Scheduled(def') /\ (p = Cron \/ pc[Cron] = "idle" => Unstarted(def'))
    BY <1>4, <2>1
  <2>4. CASE p = Cron
    <3>1. \A q \in Callers : pc'[q] # "run"
      BY <1>1, <1>2, <2>1, <2>2, <2>4
    <3> QED
      BY <1>3, <2>1, <2>3, <2>4, <3>1
  <2>5. CASE p # Cron
    <3>1. pc'[Cron] = pc[Cron] /\ \A q \in Callers : pc'[q] = "run" => pc[q] = "run" /\ local'[q] = local[q]
      BY <1>1, <2>2, <2>5
    <3> QED
      BY <1>3, <2>1, <2>3, <3>1
  <2> QED
    BY <2>4, <2>5
<1>6. ASSUME NEW p \in Procs, ExitsSilently(p) PROVE NextUnstarted'
  <2>1. UNCHANGED <<def, started, local>>
    BY <1>6 DEF ExitsSilently
  <2>2. pc'[p] = "hung" /\ \A q \in Procs \ {p} : pc'[q] = pc[q]
    BY <1>6, Plain DEF ExitsSilently
  <2>3. pc'[Cron] = pc[Cron] \/ pc'[Cron] = "hung"
    BY <1>1, <2>2
  <2>4. \A q \in Callers : pc'[q] = "run" => pc[q] = "run" /\ local'[q] = local[q]
    BY <1>1, <2>1, <2>2
  <2> QED
    BY <1>2, <1>3, <2>1, <2>3, <2>4
<1>7. CASE Tick
  <2>1. CASE MayStart
    <3>1. UNCHANGED def /\ Runs = {}
      BY <1>7, <2>1 DEF Tick, When, Orderly, Spoiled
    <3>2. pc'[Cron] = "run" /\ \A q \in Procs \ {Cron} : pc'[q] = pc[q]
      BY <1>7, <2>1, Plain DEF Tick
    <3>3. \A q \in Callers : pc'[q] # "run"
      BY <1>1, <3>1, <3>2 DEF Runs
    <3>4. pc[Cron] = "idle" /\ def.next # {}
      BY <1>2, <2>1, Plain DEF MayStart, Scheduled
    <3>5. \A t \in TickTime : started'[t] <= 1
      BY <1>2, <1>7, <2>1, <3>4, Started
    <3>6. Scheduled(def)'
      BY <1>2, <3>1 DEF Scheduled
    <3> QED
      BY <3>2, <3>3, <3>5, <3>6 DEF NextUnstarted
  <2>2. CASE ~MayStart
    <3>1. UNCHANGED <<def, started, pc, local>>
      BY <1>7, <2>2 DEF Tick
    <3> QED
      BY <1>2, <1>3, <3>1
  <2> QED
    BY <2>1, <2>2
<1>8. CASE ScheduledRunFails
  <2>1. /\ pc[Cron] = "run" /\ def' = RunDefinition(Cron) /\ Beyond(def') \subseteq incidents'
        /\ UNCHANGED started
    BY <1>8 DEF ScheduledRunFails, Persist
  <2>2. \A q \in Procs : pc'[q] = "idle"
    BY <1>8 DEF ScheduledRunFails, Dies
  <2>3. Scheduled(def') /\ Unstarted(def')
    BY <1>1, <1>4, <2>1
  <2>4. \A q \in Callers : pc'[q] # "run"
    BY <1>1, <2>2
  <2> QED
    BY <1>3, <2>1, <2>3, <2>4
<1>9. CASE Crash
  <2>1. UNCHANGED <<def, started>> /\ \A q \in Procs : pc'[q] = "idle"
    BY <1>9 DEF Crash, Dies
  <2>2. pc[Cron] = "idle"
    BY <1>9 DEF Crash, When, Orderly, Spoiled
  <2>3. \A q \in Callers : pc'[q] # "run"
    BY <1>1, <2>1
  <2> QED
    BY <1>2, <1>3, <2>1, <2>2, <2>3
<1>10. CASE Clock \/ UNCHANGED vars
  <2>1. UNCHANGED <<def, started, pc, local>>
    BY <1>10 DEF Clock, vars
  <2> QED
    BY <1>2, <1>3, <2>1
<1> QED
  BY <1>5, <1>6, <1>7, <1>8, <1>9, <1>10, Zenon

LEMMA NextNextUnstarted == Shape /\ StartsAreOver /\ NextUnstarted /\ [Next]_vars => NextUnstarted'
  BY NextUnstartedEdit, NextUnstartedRun, Zenon DEF Next

-----------------------------------------------------------------------------
(* It holds at the start, and in every step.                                *)

LEMMA InitIInv == Init => IInv
<1> SUFFICES ASSUME Init PROVE IInv
  OBVIOUS
<1> USE FunctionsAssumption
<1>1. PICK c \in Crons : def = [source |-> 1, deployed |-> 1, cron |-> c, next |-> NextMatch(c, 0)]
  BY DEF Init
<1>2. /\ NextMatch(c, 0) \in SUBSET Nat /\ Cardinality(NextMatch(c, 0)) <= 1
      /\ \A t \in NextMatch(c, 0) : t > 0
  BY NextMatchIsToCome
<1>3. def \in Definition /\ 1 \in Sources
  BY <1>1, <1>2 DEF Definition, Sources
<1>4. None \in Slot /\ Cardinality(None.next) <= 1
  BY FS_EmptySet DEF None, Slot
<1>5. /\ pc \in [Procs -> Labels] /\ local \in [Procs -> Slot]
      /\ \A p \in Procs : pc[p] = "idle" /\ local[p] = None
      /\ Cron \in Procs
  BY <1>4 DEF Init, Labels, Procs
<1>6. 0 \in TickTime /\ started \in [TickTime -> 0..2] /\ \A t \in TickTime : started[t] = 0
  BY DEF Init, TickTime
<1>7. edited \in [source : Sources, deployed : Sources, cron : Crons \cup {Off}]
  BY <1>1, <1>3 DEF Init, Draft
<1>8. incidents \subseteq Incidents
  BY DEF Init, Beyond, When, Incidents
<1>9. \A d \in {def} \cup {local[p] : p \in Procs} : Cardinality(d.next) <= 1
  BY <1>1, <1>2, <1>4, <1>5
<1>10. Shape
  <2>1. listed = TRUE /\ running = FALSE /\ ticked = FALSE
    BY DEF Init
  <2>2. /\ now \in TickTime /\ calls \in 0..MaxCalls /\ faults \in 0..MaxFaults
        /\ pc[Cron] = "idle"
    BY <1>5, <1>6 DEF Init
  <2>3. /\ listed \in BOOLEAN /\ running \in BOOLEAN /\ ticked \in BOOLEAN
        /\ now \in TickTime /\ calls \in 0..MaxCalls /\ faults \in 0..MaxFaults
        /\ pc[Cron] \in {"idle", "run", "hung"} /\ (running <=> pc[Cron] # "idle")
    BY <2>1, <2>2, Zenon
  <2>4. /\ pc \in [Procs -> {"idle", "save", "deploy", "count", "unlist", "run", "hung"}]
        /\ local \in [Procs -> Definition \cup {None}] /\ def \in Definition \cup {None}
    BY <1>3, <1>5 DEF Labels, Slot
  <2>5. TypeOK
    BY <1>6, <1>7, <1>8, <1>9, <2>3, <2>4 DEF TypeOK
  <2>6. InHand
    BY <1>5 DEF InHand
  <2> QED
    BY <2>5, <2>6 DEF Shape
<1>11. EditsApart
  BY <1>5 DEF Init, EditsApart, Edits, Runs
<1>12. StartsAreOver
  BY <1>6 DEF StartsAreOver
<1>13. NextUnstarted
  <2>1. Orderly => Scheduled(def)
    BY DEF Init, Orderly, Spoiled, Beyond, When, Scheduled
  <2>2. \A p \in Callers : pc[p] # "run"
    BY <1>5, Plain DEF Procs
  <2> QED
    BY <1>6, <2>1, <2>2 DEF NextUnstarted, Unstarted
<1> QED
  BY <1>10, <1>11, <1>12, <1>13 DEF IInv

LEMMA NextIInv == IInv /\ [Next]_vars => IInv'
  BY NextShape, NextEditsApart, NextStartsAreOver, NextNextUnstarted DEF IInv

-----------------------------------------------------------------------------
(* The theorems.                                                            *)

\* Every variable keeps its type, and a definition has one next run at most, for any number
\* of requests, any cron expressions and any horizon.
THEOREM TypeCorrect == Spec => []TypeOK
<1>1. IInv => TypeOK
  BY DEF IInv, Shape
<1> QED
  BY InitIInv, NextIInv, <1>1, PTL DEF Spec

\* Runs, which write the definition back whole, neither undo an edit nor start a due time
\* again, unless one of the named crossings happened (FunctionService's persistDefinition).
THEOREM RunsAreHarmless == Spec => []RunsKeepToSchedule
<1>1. ASSUME IInv PROVE RunsKeepToSchedule
  <2>1. EditsStand
    BY <1>1 DEF IInv, EditsApart, EditsStand
  <2>2. StartedOnce
    BY <1>1 DEF IInv, NextUnstarted, Orderly, StartedOnce
  <2> QED
    BY <2>1, <2>2 DEF RunsKeepToSchedule
<1> QED
  BY InitIInv, NextIInv, <1>1, PTL DEF Spec
=============================================================================
