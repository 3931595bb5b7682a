---------------------------- MODULE Feeds_proofs ----------------------------
(***************************************************************************)
(* What goes out, for any hooks, changes, clients and bounds: the          *)
(* deliveries of the webhooks and their dead letters, presence, and        *)
(* subscriptions, in this order.                                           *)
(***************************************************************************)
EXTENDS MCFeeds, Sequences, SequenceTheorems, FiniteSetTheorems, TLAPS

-----------------------------------------------------------------------------
(* Webhooks: what the variables hold.                                       *)

WorkerPlaces == {"idle", "config", "post", "list", "save", "log"}
OperatorPlaces == {"idle", "save", "log", "find", "add", "range", "exec", "list"}
Places == WorkerPlaces \cup OperatorPlaces

RedisTypes ==
  /\ configs \in Sends!Configs
  /\ letters \in Seq(Sends!Letter)
  /\ queued \in [Sends!Job -> Nat]
  /\ handling \in [Sends!Handler -> Nat] /\ trimming \in Nat
  /\ announced \subseteq Changes /\ adding \in [Changes -> SUBSET Hooks]
  /\ wanted \in [Hooks -> Sends!Setting \cup {Sends!Absent, Sends!Gone}]
  /\ sent \in [Hooks -> [good : Nat, bad : Nat]]
  /\ got \in [Sends!Delivery -> Nat]
  /\ now \in Nat /\ ops \in 0..MaxEdits
  /\ incidents \subseteq Sends!Incidents

ActorTypes ==
  /\ running \in Sends!Job \cup {Sends!NoJob}
  /\ pc \in [Sends!Actors -> Places]
  /\ pc["worker"] \in WorkerPlaces /\ pc["operator"] \in OperatorPlaces
  /\ copy \in [Sends!Actors -> Sends!Configs]
  /\ posted \in {"none", "good", "bad"}
  /\ asked \in {Sends!NoCall} \cup [what : {"create", "update", "delete", "replay"},
                                    hook : Hooks, on : BOOLEAN]
  /\ replaying.letter \in Sends!Letter \cup {Sends!NoLetter}
  /\ replaying.list \in Seq(Sends!Letter)
  /\ replaying = [letter |-> replaying.letter, list |-> replaying.list]

(* What an actor at an awaited call has in its hands.                       *)

AtWork ==
  /\ pc["worker"] # "idle" <=> running # Sends!NoJob
  /\ posted = "none" <=> pc["worker"] \in {"idle", "config", "post"}
  /\ pc["worker"] = "save" => copy["worker"][Sends!Hook] # Sends!Absent

OnCall ==
  /\ pc["operator"] \notin {"idle", "save"} => asked.what = "replay"
  /\ pc["operator"] = "save" =>
       /\ asked.what # "none"
       /\ asked.what = "create" => wanted[asked.hook] = Sends!Absent
       /\ asked.what # "create" => copy["operator"][asked.hook] # Sends!Absent
  /\ pc["operator"] \in {"find", "add", "range", "exec"} <=> replaying.letter # Sends!NoLetter

\* A hook that the operator has not made is nowhere.
Made(h) == wanted[h] # Sends!Absent
Unheard == \A h \in Hooks : ~Made(h) =>
  /\ configs[h] = Sends!Absent /\ \A a \in Sends!Actors : copy[a][h] = Sends!Absent
  /\ sent[h] = [good |-> 0, bad |-> 0]
Named(h) ==
  \/ \E c \in Changes : h \in adding[c]
  \/ \E j \in Sends!Job : queued[j] > 0 /\ j[1][1] = h
  \/ running # Sends!NoJob /\ Sends!Hook = h
  \/ \E x \in Sends!Handler : handling[x] > 0 /\ x[1][1] = h
  \/ \E i \in DOMAIN letters : letters[i].of[1] = h
  \/ \E i \in DOMAIN replaying.list : replaying.list[i].of[1] = h
  \/ replaying.letter # Sends!NoLetter /\ replaying.letter.of[1] = h
Newcomers == \A h \in Hooks : Named(h) => Made(h)

HooksShape == RedisTypes /\ ActorTypes

LEMMA WorkerGoes ==
  ASSUME ActorTypes, NEW l \in WorkerPlaces, Sends!Goto("worker", l)
  PROVE  /\ pc' \in [Sends!Actors -> Places]
         /\ pc'["worker"] = l /\ pc'["operator"] = pc["operator"]
  BY DEF ActorTypes, Sends!Goto, Sends!Actors, Places, WorkerPlaces

LEMMA OperatorGoes ==
  ASSUME ActorTypes, NEW l \in OperatorPlaces, Sends!Goto("operator", l)
  PROVE  /\ pc' \in [Sends!Actors -> Places]
         /\ pc'["operator"] = l /\ pc'["worker"] = pc["worker"]
  BY DEF ActorTypes, Sends!Goto, Sends!Actors, Places, OperatorPlaces

\* The job in progress, and the job it is tried again as.
LEMMA JobInHand ==
  ASSUME ActorTypes, running # Sends!NoJob
  PROVE  /\ running \in Sends!Job /\ running[1] \in Sends!Delivery /\ running[2] \in 1..Attempts
         /\ Sends!Hook \in Hooks /\ running = <<running[1], running[2]>>
         /\ running[2] > 1 => <<running[1], running[2] - 1>> \in Sends!Job
         /\ <<running[1], "config">> \in Sends!Handler
  BY FeedsAssumption DEF ActorTypes, Sends!Job, Sends!Delivery, Sends!Hook, Sends!Handler

LEMMA JobEnds ==
  ASSUME HooksShape, AtWork, pc["worker"] # "idle", NEW threw, Sends!Finish(threw)
  PROVE  /\ queued' \in [Sends!Job -> Nat] /\ handling' \in [Sends!Handler -> Nat]
         /\ running' = Sends!NoJob /\ posted' = "none"
         /\ pc' \in [Sends!Actors -> Places]
         /\ pc'["worker"] = "idle" /\ pc'["operator"] = pc["operator"]
<1>1. "idle" \in WorkerPlaces
  BY DEF WorkerPlaces
<1>2. running \in Sends!Job /\ (running[2] > 1 => <<running[1], running[2] - 1>> \in Sends!Job)
      /\ <<running[1], "config">> \in Sends!Handler
  BY JobInHand DEF HooksShape, AtWork
<1>3. queued \in [Sends!Job -> Nat] /\ handling \in [Sends!Handler -> Nat]
  BY DEF HooksShape, RedisTypes
<1>4. queued' \in [Sends!Job -> Nat]
  BY <1>2, <1>3 DEF Sends!Finish
<1>5. handling' \in [Sends!Handler -> Nat]
  BY <1>2, <1>3 DEF Sends!Finish
<1>6. Sends!Goto("worker", "idle") /\ running' = Sends!NoJob /\ posted' = "none"
  BY DEF Sends!Finish
<1> QED
  BY <1>1, <1>4, <1>5, <1>6, WorkerGoes DEF HooksShape


-----------------------------------------------------------------------------
(* Lists.                                                                   *)

LEMMA Removed ==
  ASSUME NEW T, NEW s \in Seq(T), NEW k \in 1..Len(s)
  PROVE  /\ Sends!RemoveAt(s, k) \in Seq(T) /\ Len(Sends!RemoveAt(s, k)) = Len(s) - 1
         /\ \A i \in 1..(Len(s) - 1) : Sends!RemoveAt(s, k)[i] = IF i < k THEN s[i] ELSE s[i + 1]
<1>1. SubSeq(s, 1, k - 1) \in Seq(T) /\ SubSeq(s, k + 1, Len(s)) \in Seq(T)
  OBVIOUS
<1>2. Len(SubSeq(s, 1, k - 1)) = k - 1 /\ Len(SubSeq(s, k + 1, Len(s))) = Len(s) - k
  OBVIOUS
<1>3. /\ \A i \in 1..(k - 1) : SubSeq(s, 1, k - 1)[i] = s[i]
      /\ \A i \in 1..(Len(s) - k) : SubSeq(s, k + 1, Len(s))[i] = s[i + k]
  OBVIOUS
<1> DEFINE a == SubSeq(s, 1, k - 1)
           b == SubSeq(s, k + 1, Len(s))
<1> HIDE DEF a, b
<1>4. a \in Seq(T) /\ b \in Seq(T) /\ Len(a) = k - 1 /\ Len(b) = Len(s) - k
  BY <1>1, <1>2 DEF a, b
<1>5. a \o b \in Seq(T) /\ Len(a \o b) = Len(s) - 1
  BY <1>4
<1>6. \A i \in 1..(Len(s) - 1) : (a \o b)[i] = IF i < k THEN a[i] ELSE b[i - k + 1]
  BY <1>4
<1>7. /\ \A i \in 1..(k - 1) : a[i] = s[i]
      /\ \A i \in 1..(Len(s) - k) : b[i] = s[i + k]
  BY <1>3 DEF a, b
<1>8. ASSUME NEW i \in 1..(Len(s) - 1)
      PROVE  (a \o b)[i] = IF i < k THEN s[i] ELSE s[i + 1]
  <2>1. CASE i < k
    <3>1. i \in 1..(k - 1)
      BY <2>1
    <3> QED
      BY <2>1, <3>1, <1>6, <1>7
  <2>2. CASE ~(i < k)
    <3>1. i - k + 1 \in 1..(Len(s) - k) /\ (i - k + 1) + k = i + 1
      BY <2>2
    <3> QED
      BY <2>2, <3>1, <1>6, <1>7
  <2> QED
    BY <2>1, <2>2
<1>9. Sends!RemoveAt(s, k) = a \o b
  BY DEF Sends!RemoveAt, a, b
<1> QED
  BY <1>5, <1>8, <1>9

LEMMA Reversed ==
  ASSUME NEW T, NEW s \in Seq(T)
  PROVE  /\ Sends!Reverse(s) \in Seq(T) /\ Len(Sends!Reverse(s)) = Len(s)
         /\ \A i \in 1..Len(s) : Sends!Reverse(s)[i] = s[Len(s) - i + 1]
  BY DEF Sends!Reverse

\* What a replay writes: letters of the list it read, none of them twice, without its own.
Apart(list) == \A i, j \in DOMAIN list : list[i].at = list[j].at => i = j
LEMMA WrittenBack ==
  ASSUME NEW list \in Seq(Sends!Letter), NEW l
  PROVE  LET w == Sends!Reverse(Sends!Without(list, l))
         IN /\ w \in Seq(Sends!Letter) /\ Len(w) = Len(Sends!Without(list, l))
            /\ \A i \in DOMAIN w : \E j \in DOMAIN list : w[i] = list[j]
            /\ Apart(list) => Apart(w) /\ \A i \in DOMAIN w : w[i] # l
<1> DEFINE o == Sends!Without(list, l)
           w == Sends!Reverse(o)
<1>1. CASE ~ \E i \in DOMAIN list : list[i] = l
  <2>1. o = list
    BY <1>1 DEF Sends!Without
  <2>2. w \in Seq(Sends!Letter) /\ Len(w) = Len(list) /\ \A i \in 1..Len(list) : w[i] = list[Len(list) - i + 1]
    BY <2>1, Reversed
  <2> HIDE DEF w
  <2>3. \A i \in DOMAIN w : Len(list) - i + 1 \in DOMAIN list /\ w[i] = list[Len(list) - i + 1]
    BY <2>2
  <2>4. ASSUME Apart(list), NEW i \in DOMAIN w, NEW j \in DOMAIN w, w[i].at = w[j].at
        PROVE  i = j
    <3>1. Len(list) - i + 1 = Len(list) - j + 1
      BY <2>3, <2>4 DEF Apart
    <3>2. i \in 1..Len(list) /\ j \in 1..Len(list) /\ Len(list) \in Nat
      BY <2>2, <2>4
    <3> QED
      BY <3>1, <3>2
  <2> QED
    BY <1>1, <2>1, <2>2, <2>3, <2>4 DEF Apart, w
<1>2. CASE \E i \in DOMAIN list : list[i] = l
  <2> DEFINE k == CHOOSE i \in DOMAIN list : list[i] = l
  <2>1. k \in DOMAIN list /\ list[k] = l
    BY <1>2
  <2>2. o = Sends!RemoveAt(list, k)
    BY <1>2 DEF Sends!Without
  <2> HIDE DEF k
  <2>3. o \in Seq(Sends!Letter) /\ Len(o) = Len(list) - 1
        /\ \A i \in 1..(Len(list) - 1) : o[i] = IF i < k THEN list[i] ELSE list[i + 1]
    BY <2>1, <2>2, Removed
  <2> HIDE DEF o
  <2>4. w \in Seq(Sends!Letter) /\ Len(w) = Len(o) /\ \A i \in 1..Len(o) : w[i] = o[Len(o) - i + 1]
    BY <2>3, Reversed
  <2> HIDE DEF w
  <2> DEFINE f(i) == IF Len(o) - i + 1 < k THEN Len(o) - i + 1 ELSE Len(o) - i + 2
  <2>5. ASSUME NEW i \in DOMAIN w PROVE f(i) \in DOMAIN list /\ f(i) # k /\ w[i] = list[f(i)]
    <3>1. i \in 1..Len(o) /\ Len(o) = Len(list) - 1 /\ Len(list) \in Nat /\ k \in 1..Len(list)
      BY <2>1, <2>3, <2>4
    <3>2. Len(o) - i + 1 \in 1..(Len(list) - 1) /\ w[i] = o[Len(o) - i + 1]
      BY <3>1, <2>4
    <3>3. f(i) \in 1..Len(list) /\ f(i) # k
      BY <3>1
    <3>4. o[Len(o) - i + 1] = list[f(i)]
      <4>1. o[Len(o) - i + 1] = IF Len(o) - i + 1 < k THEN list[Len(o) - i + 1] ELSE list[(Len(o) - i + 1) + 1]
        BY <3>2, <2>3
      <4>2. (Len(o) - i + 1) + 1 = Len(o) - i + 2
        BY <3>1
      <4> QED
        BY <4>1, <4>2
    <3> QED
      BY <3>2, <3>3, <3>4
  <2>6. \A i, j \in DOMAIN w : f(i) = f(j) => i = j
    BY <2>1, <2>3, <2>4
  <2> HIDE DEF f
  <2>7. ASSUME Apart(list), NEW i \in DOMAIN w, NEW j \in DOMAIN w, w[i].at = w[j].at
        PROVE  i = j
    BY <2>5, <2>6, <2>7 DEF Apart
  <2>8. ASSUME Apart(list), NEW i \in DOMAIN w PROVE w[i] # l
    BY <2>1, <2>5, <2>8 DEF Apart
  <2> QED
    BY <2>4, <2>5, <2>7, <2>8 DEF Apart, w, o
<1> QED
  BY <1>1, <1>2

LEMMA HookTypesHold ==
  ASSUME HooksShape, AtWork, OnCall, Sends!Next
  PROVE  HooksShape'
<1> USE FeedsAssumption
<1>1. ASSUME NEW c \in Changes, Sends!Announce(c) \/ \E h \in Hooks : Sends!Enqueue(c, h)
      PROVE  HooksShape'
  <2>1. CASE Sends!Announce(c)
    BY <2>1 DEF Sends!Announce, Sends!redis, Sends!worker, Sends!console, Sends!past, Sends!handlers,
                HooksShape, RedisTypes, ActorTypes
  <2>2. ASSUME NEW h \in Hooks, Sends!Enqueue(c, h) PROVE HooksShape'
    <3>1. <<<<h, c>>, Attempts>> \in Sends!Job
      BY DEF Sends!Job, Sends!Delivery
    <3>2. queued' \in [Sends!Job -> Nat] /\ adding' \in [Changes -> SUBSET Hooks]
      BY <2>2, <3>1 DEF Sends!Enqueue, HooksShape, RedisTypes
    <3> QED
      BY <2>2, <3>2 DEF Sends!Enqueue, Sends!worker, Sends!console, Sends!handlers,
                  HooksShape, RedisTypes, ActorTypes
  <2> QED
    BY <1>1, <2>1, <2>2
<1>2. ASSUME Sends!WorkerStep PROVE HooksShape'
  <2>1. ASSUME NEW j \in Sends!Job, Sends!Take(j) PROVE HooksShape'
    <3>1. queued' \in [Sends!Job -> Nat]
      BY <2>1 DEF Sends!Take, HooksShape, RedisTypes
    <3>2. pc' \in [Sends!Actors -> Places] /\ pc'["worker"] = "config" /\ pc'["operator"] = pc["operator"]
      BY <2>1, WorkerGoes DEF Sends!Take, WorkerPlaces, HooksShape
    <3> QED
      BY <2>1, <3>1, <3>2 DEF Sends!Take, Sends!handlers, Sends!console, Sends!emitters, Sends!past,
         WorkerPlaces, HooksShape, RedisTypes, ActorTypes
  <2>2. CASE Sends!GetConfig
    <3>1. CASE Sends!Finish(FALSE)
      BY <2>2, <3>1, JobEnds DEF Sends!GetConfig, Sends!console, Sends!emitters,
         WorkerPlaces, HooksShape, RedisTypes, ActorTypes
    <3>2. CASE Sends!Goto("worker", "post") /\ UNCHANGED <<queued, Sends!worker, handling>>
      <4>1. pc' \in [Sends!Actors -> Places] /\ pc'["worker"] = "post" /\ pc'["operator"] = pc["operator"]
        BY <3>2, WorkerGoes DEF WorkerPlaces, HooksShape
      <4> QED
        BY <2>2, <3>2, <4>1 DEF Sends!GetConfig, Sends!console, Sends!emitters, Sends!worker,
           WorkerPlaces, HooksShape, RedisTypes, ActorTypes
    <3> QED
      BY <2>2, <3>1, <3>2 DEF Sends!GetConfig
  <2>3. ASSUME NEW result \in {"good", "bad"}, Sends!Post(result) \/ Sends!PostLost
        PROVE HooksShape'
    <3>1. pc' \in [Sends!Actors -> Places] /\ pc'["worker"] = "list" /\ pc'["operator"] = pc["operator"]
      BY <2>3, WorkerGoes DEF Sends!Post, Sends!PostLost, WorkerPlaces, HooksShape
    <3>2. running[1] \in Sends!Delivery /\ Sends!Hook \in Hooks
      BY <2>3, JobInHand DEF Sends!Post, Sends!PostLost, HooksShape, AtWork
    <3>8. got \in [Sends!Delivery -> Nat]
      BY DEF HooksShape, RedisTypes
    <3>5. got' \in [Sends!Delivery -> Nat]
      <4>1. got' = got \/ got' = [got EXCEPT ![running[1]] = @ + 1]
        BY <2>3 DEF Sends!Post, Sends!PostLost
      <4> QED
        BY <4>1, <3>2, <3>8
    <3>6. sent \in [Hooks -> [good : Nat, bad : Nat]]
      BY DEF HooksShape, RedisTypes
    <3>7. /\ [sent[Sends!Hook] EXCEPT !.good = @ + 1] \in [good : Nat, bad : Nat]
          /\ [sent[Sends!Hook] EXCEPT !.bad = @ + 1] \in [good : Nat, bad : Nat]
      BY <3>2, <3>6
    <3>3. sent' \in [Hooks -> [good : Nat, bad : Nat]]
      BY <2>3, <3>2, <3>6, <3>7 DEF Sends!Post, Sends!PostLost
    <3>4. posted' \in {"good", "bad"} /\ incidents' \subseteq Sends!Incidents
      BY <2>3 DEF Sends!Post, Sends!PostLost, Sends!Mark, Sends!Incidents, HooksShape, RedisTypes
    <3> QED
      BY <2>3, <3>1, <3>3, <3>4, <3>5 DEF Sends!Post, Sends!PostLost, Sends!redis, Sends!handlers,
         Sends!console, Sends!emitters, WorkerPlaces, HooksShape, RedisTypes, ActorTypes
  <2>4. CASE Sends!WorkerLists
    <3>1. copy' \in [Sends!Actors -> Sends!Configs]
      BY <2>4 DEF Sends!WorkerLists, Sends!ListConfigs, Sends!ReadConfigs, HooksShape, RedisTypes, ActorTypes
    <3>2. pc' \in [Sends!Actors -> Places] /\ pc'["worker"] \in {"save", "log"}
          /\ pc'["operator"] = pc["operator"]
      BY <2>4, WorkerGoes DEF Sends!WorkerLists, Sends!ListConfigs, WorkerPlaces, HooksShape
    <3> QED
      BY <2>4, <3>1, <3>2 DEF Sends!WorkerLists, Sends!redis, Sends!worker, Sends!handlers,
         Sends!console, Sends!emitters, Sends!past, WorkerPlaces, HooksShape, RedisTypes, ActorTypes
  <2>5. CASE Sends!WorkerSaves
    <3>1. Sends!Hook \in Hooks /\ copy["worker"][Sends!Hook] \in Sends!Config
      BY <2>5, JobInHand DEF Sends!WorkerSaves, AtWork, HooksShape, ActorTypes, Sends!Configs, Sends!Actors
    <3>2. Sends!Counted(copy["worker"][Sends!Hook]) \in Sends!Config
      BY <3>1 DEF Sends!Counted, Sends!Config
    <3>3. pc' \in [Sends!Actors -> Places] /\ pc'["worker"] = "log" /\ pc'["operator"] = pc["operator"]
      BY <2>5, WorkerGoes DEF Sends!WorkerSaves, WorkerPlaces, HooksShape
    <3>4. configs' \in Sends!Configs /\ copy' \in [Sends!Actors -> Sends!Configs]
      BY <2>5, <3>1, <3>2 DEF Sends!WorkerSaves, Sends!SaveConfigs, Sends!Configs, Sends!NoConfigs,
         HooksShape, ActorTypes, Sends!Actors
    <3>5. incidents' \subseteq Sends!Incidents
      BY <2>5 DEF Sends!WorkerSaves, Sends!SaveConfigs, Sends!Mark, Sends!Incidents, HooksShape, RedisTypes
    <3> QED
      BY <2>5, <3>3, <3>4, <3>5 DEF Sends!WorkerSaves, Sends!worker, Sends!handlers,
         Sends!console, Sends!emitters, Sends!past, WorkerPlaces, HooksShape, RedisTypes, ActorTypes
  <2>6. CASE Sends!WorkerLogs
    BY <2>6, JobEnds DEF Sends!WorkerLogs, Sends!console, Sends!emitters, Sends!past,
         WorkerPlaces, HooksShape, RedisTypes, ActorTypes
  <2>7. CASE Sends!WorkerFault
    <3>1. copy' \in [Sends!Actors -> Sends!Configs] /\ incidents' \subseteq Sends!Incidents
      BY <2>7 DEF Sends!WorkerFault, Sends!Mark, Sends!Incidents, Sends!Configs, Sends!NoConfigs,
         HooksShape, RedisTypes, ActorTypes
    <3>2. CASE Sends!Finish(TRUE)
      <4>1. pc["worker"] # "idle"
        BY <2>7 DEF Sends!WorkerFault
      <4> QED
        BY <2>7, <3>1, <3>2, <4>1, JobEnds DEF Sends!WorkerFault, Sends!console, Sends!emitters, Sends!past,
           WorkerPlaces, HooksShape, RedisTypes, ActorTypes
    <3>3. CASE posted' = "bad" /\ Sends!Goto("worker", "list") /\ UNCHANGED <<queued, running, handling>>
      <4>1. pc' \in [Sends!Actors -> Places] /\ pc'["worker"] = "list" /\ pc'["operator"] = pc["operator"]
        BY <3>3, WorkerGoes DEF WorkerPlaces, HooksShape
      <4> QED
        BY <2>7, <3>1, <3>3, <4>1 DEF Sends!WorkerFault, Sends!console, Sends!emitters, Sends!past,
           WorkerPlaces, HooksShape, RedisTypes, ActorTypes
    <3> QED
      BY <2>7, <3>2, <3>3 DEF Sends!WorkerFault
  <2> QED
    BY <1>2, <2>1, <2>2, <2>3, <2>4, <2>5, <2>6, <2>7, Zenon DEF Sends!WorkerStep
<1>3. ASSUME NEW d \in Sends!Delivery, Sends!HandlerStep(d) PROVE HooksShape'
  <2>1. <<d, "config">> \in Sends!Handler /\ <<d, "push">> \in Sends!Handler
    BY DEF Sends!Handler
  <2>2. handling \in [Sends!Handler -> Nat] /\ letters \in Seq(Sends!Letter) /\ now \in Nat
    BY DEF HooksShape, RedisTypes
  <2>3. CASE Sends!HandlerGets(d)
    <3> DEFINE less == [handling EXCEPT ![<<d, "config">>] = @ - 1]
    <3>2. less \in [Sends!Handler -> Nat]
      BY <2>1, <2>2, <2>3 DEF Sends!HandlerGets
    <3>3. handling' = less \/ handling' = [less EXCEPT ![<<d, "push">>] = @ + 1]
      BY <2>3 DEF Sends!HandlerGets, Sends!End
    <3> HIDE DEF less
    <3>1. handling' \in [Sends!Handler -> Nat]
      BY <2>1, <3>2, <3>3
    <3> QED
      BY <2>3, <3>1 DEF Sends!HandlerGets, Sends!redis, Sends!worker, Sends!console, Sends!emitters,
         HooksShape, RedisTypes, ActorTypes
  <2>4. CASE Sends!HandlerPushes(d)
    <3>1. handling' \in [Sends!Handler -> Nat] /\ now' \in Nat
      BY <2>1, <2>2, <2>4 DEF Sends!HandlerPushes, Sends!End
    <3>2. [of |-> d, at |-> now'] \in Sends!Letter
      BY <3>1 DEF Sends!Letter
    <3>3. letters' \in Seq(Sends!Letter)
      BY <2>2, <2>4, <3>2 DEF Sends!HandlerPushes, Sends!Push
    <3>4. trimming' \in Nat
      BY <2>4 DEF Sends!HandlerPushes, HooksShape, RedisTypes
    <3> QED
      BY <2>4, <3>1, <3>3, <3>4 DEF Sends!HandlerPushes, Sends!worker, Sends!console, Sends!emitters, Sends!past,
         HooksShape, RedisTypes, ActorTypes
  <2>5. CASE Sends!HandlerFault(d)
    <3>3. PICK stage \in {"config", "push"} : handling[<<d, stage>>] > 0 /\ Sends!End(d, stage)
      BY <2>5 DEF Sends!HandlerFault
    <3>4. <<d, stage>> \in Sends!Handler /\ handling' = [handling EXCEPT ![<<d, stage>>] = @ - 1]
      BY <2>1, <3>3 DEF Sends!End
    <3>1. handling' \in [Sends!Handler -> Nat]
      BY <2>2, <3>3, <3>4
    <3>2. incidents' \subseteq Sends!Incidents
      BY <2>5 DEF Sends!HandlerFault, Sends!HandlerMishap, Sends!Mark, Sends!Incidents, HooksShape, RedisTypes
    <3> QED
      BY <2>5, <3>1, <3>2 DEF Sends!HandlerFault, Sends!HandlerMishap, Sends!redis, Sends!worker,
         Sends!console, Sends!emitters, HooksShape, RedisTypes, ActorTypes
  <2> QED
    BY <1>3, <2>3, <2>4, <2>5 DEF Sends!HandlerStep
<1>4. ASSUME Sends!TrimStep PROVE HooksShape'
  <2>1. CASE Sends!HandlerTrims
    <3>1. letters \in Seq(Sends!Letter) /\ Cap \in Nat
      BY DEF HooksShape, RedisTypes
    <3>2. letters' \in Seq(Sends!Letter)
      <4>1. Len(letters) > Cap => SubSeq(letters, 1, Cap) \in Seq(Sends!Letter)
        BY <3>1
      <4> QED
        BY <2>1, <3>1, <4>1 DEF Sends!HandlerTrims
    <3>3. trimming' \in Nat
      BY <2>1 DEF Sends!HandlerTrims, HooksShape, RedisTypes
    <3> QED
      BY <2>1, <3>2, <3>3 DEF Sends!HandlerTrims, Sends!worker, Sends!console, Sends!emitters,
         HooksShape, RedisTypes, ActorTypes
  <2>2. CASE Sends!TrimFault
    <3>1. incidents' \subseteq Sends!Incidents /\ trimming' \in Nat
      BY <2>2 DEF Sends!TrimFault, Sends!HandlerMishap, Sends!Mark, Sends!Incidents, HooksShape, RedisTypes
    <3> QED
      BY <2>2, <3>1 DEF Sends!TrimFault, Sends!HandlerMishap, Sends!redis, Sends!worker,
         Sends!console, Sends!emitters, HooksShape, RedisTypes, ActorTypes
  <2> QED
    BY <1>4, <2>1, <2>2 DEF Sends!TrimStep
<1>5. ASSUME NEW what \in {"create", "update", "delete"}, NEW h \in Hooks, NEW on \in BOOLEAN,
             Sends!Ask(what, h, on)
      PROVE  HooksShape'
  <2>1. pc' \in [Sends!Actors -> Places] /\ pc'["operator"] = "save" /\ pc'["worker"] = pc["worker"]
    BY <1>5, OperatorGoes DEF Sends!Ask, OperatorPlaces, HooksShape
  <2>2. copy' \in [Sends!Actors -> Sends!Configs]
    BY <1>5 DEF Sends!Ask, Sends!ReadConfigs, HooksShape, RedisTypes, ActorTypes
  <2>4. Sends!OperatorIdle /\ ops \in 0..MaxEdits
    BY <1>5 DEF Sends!Ask, HooksShape, RedisTypes
  <2>3. ops' \in 0..MaxEdits
    BY <2>4 DEF Sends!OperatorIdle
  <2> QED
    BY <1>5, <2>1, <2>2, <2>3 DEF Sends!Ask, Sends!redis, Sends!worker, Sends!handlers, Sends!emitters,
       Sends!past, OperatorPlaces, HooksShape, RedisTypes, ActorTypes
<1>6. ASSUME NEW i \in DOMAIN letters, Sends!Replay(i) PROVE HooksShape'
  <2>1. pc' \in [Sends!Actors -> Places] /\ pc'["operator"] = "find" /\ pc'["worker"] = pc["worker"]
    BY <1>6, OperatorGoes DEF Sends!Replay, OperatorPlaces, HooksShape
  <2>6. letters \in Seq(Sends!Letter) /\ i \in 1..Len(letters)
    BY DEF HooksShape, RedisTypes
  <2>2. letters[i] \in Sends!Letter /\ letters[i].of[1] \in Hooks
    <3>1. letters[i] \in Sends!Letter
      BY <2>6
    <3> QED
      BY <3>1 DEF Sends!Letter, Sends!Delivery
  <2>3. replaying' = [letter |-> letters[i], list |-> <<>>]
    BY <1>6 DEF Sends!Replay, Sends!NoReplay
  <2>4. ops' \in 0..MaxEdits
    BY <1>6 DEF Sends!Replay, Sends!OperatorIdle, HooksShape, RedisTypes
  <2>5. <<>> \in Seq(Sends!Letter)
    OBVIOUS
  <2>7. asked' \in [what : {"create", "update", "delete", "replay"}, hook : Hooks, on : BOOLEAN]
    BY <1>6, <2>2 DEF Sends!Replay
  <2>8. /\ replaying'.letter \in Sends!Letter /\ replaying'.list \in Seq(Sends!Letter)
        /\ replaying' = [letter |-> replaying'.letter, list |-> replaying'.list]
    BY <2>2, <2>3, <2>5
  <2> QED
    BY <1>6, <2>1, <2>4, <2>7, <2>8 DEF Sends!Replay, Sends!redis, Sends!worker, Sends!handlers,
       Sends!emitters, Sends!past, OperatorPlaces, HooksShape, RedisTypes, ActorTypes
<1>7. ASSUME Sends!OperatorStep PROVE HooksShape'
  <2>1. Sends!NoReplay.letter = Sends!NoLetter /\ Sends!NoReplay.list = <<>> /\ <<>> \in Seq(Sends!Letter)
        /\ Sends!NoReplay = [letter |-> Sends!NoReplay.letter, list |-> Sends!NoReplay.list]
    BY DEF Sends!NoReplay
  <2>2. CASE Sends!OperatorSaves
    <3> DEFINE h == asked.hook
               config == Sends!Edited(asked, copy["operator"][h])
    <3>1. asked.what \in {"create", "update", "delete", "replay"} /\ h \in Hooks /\ asked.on \in BOOLEAN
      BY <2>2 DEF Sends!OperatorSaves, OnCall, HooksShape, ActorTypes, Sends!NoCall
    <3>2. copy["operator"] \in Sends!Configs
      BY DEF HooksShape, ActorTypes, Sends!Actors
    <3>3. asked.what # "create" => copy["operator"][h] \in Sends!Config
      BY <2>2, <3>1, <3>2 DEF Sends!OperatorSaves, OnCall, Sends!Configs
    <3>4. ops \in 0..MaxEdits
      BY DEF HooksShape, RedisTypes
    <3>5. config \in Sends!Config \cup {Sends!Absent} /\ (asked.what = "create" => config \in Sends!Config)
          /\ (asked.what = "update" => config \in Sends!Config)
      BY <3>1, <3>3, <3>4 DEF Sends!Edited, Sends!Config, Sends!Fresh
    <3>6. pc' \in [Sends!Actors -> Places] /\ pc'["operator"] \in {"log", "idle"} /\ pc'["worker"] = pc["worker"]
      BY <2>2, OperatorGoes DEF Sends!OperatorSaves, OperatorPlaces, HooksShape
    <3>7. configs' = [copy["operator"] EXCEPT ![h] = config]
          /\ copy' = [copy EXCEPT !["operator"] = Sends!NoConfigs]
      BY <2>2 DEF Sends!OperatorSaves, Sends!SaveConfigs
    <3>8. configs' \in Sends!Configs
      BY <3>1, <3>2, <3>5, <3>7 DEF Sends!Configs
    <3>9. copy' \in [Sends!Actors -> Sends!Configs]
      BY <3>7 DEF Sends!NoConfigs, Sends!Configs, HooksShape, ActorTypes
    <3>10. incidents' \subseteq Sends!Incidents
      BY <2>2 DEF Sends!OperatorSaves, Sends!SaveConfigs, Sends!Mark, Sends!Incidents, HooksShape, RedisTypes
    <3>11. wanted' \in [Hooks -> Sends!Setting \cup {Sends!Absent, Sends!Gone}]
      <4>1. asked.what \in {"create", "update"} => [on |-> config.on, edit |-> ops] \in Sends!Setting
        BY <3>1, <3>4, <3>5 DEF Sends!Setting, Sends!Config
      <4>2. wanted \in [Hooks -> Sends!Setting \cup {Sends!Absent, Sends!Gone}]
        BY DEF HooksShape, RedisTypes
      <4>3. \/ wanted' = wanted \/ wanted' = [wanted EXCEPT ![h] = Sends!Gone]
            \/ asked.what \in {"create", "update"} /\ wanted' = [wanted EXCEPT ![h] = [on |-> config.on, edit |-> ops]]
        BY <2>2, <3>1 DEF Sends!OperatorSaves
      <4> QED
        BY <4>1, <4>2, <4>3, <3>1
    <3>12. asked' = asked \/ asked' = Sends!NoCall
      BY <2>2 DEF Sends!OperatorSaves
    <3> HIDE DEF h, config
    <3> QED
      BY <2>2, <3>6, <3>8, <3>9, <3>10, <3>11, <3>12 DEF Sends!OperatorSaves, Sends!worker, Sends!handlers,
         Sends!emitters, OperatorPlaces, HooksShape, RedisTypes, ActorTypes
  <2>3. CASE Sends!FindConfig
    <3>1. pc' \in [Sends!Actors -> Places] /\ pc'["operator"] \in {"idle", "add"} /\ pc'["worker"] = pc["worker"]
      BY <2>3, OperatorGoes DEF Sends!FindConfig, OperatorPlaces, HooksShape
    <3>2. \/ asked' = asked /\ replaying' = replaying
          \/ asked' = Sends!NoCall /\ replaying' = Sends!NoReplay
      BY <2>3 DEF Sends!FindConfig, Sends!console
    <3> QED
      BY <2>1, <2>3, <3>1, <3>2 DEF Sends!FindConfig, Sends!redis, Sends!worker, Sends!handlers,
         Sends!emitters, Sends!past, OperatorPlaces, HooksShape, RedisTypes, ActorTypes
  <2>4. CASE Sends!AddReplay
    <3>1. pc' \in [Sends!Actors -> Places] /\ pc'["operator"] = "range" /\ pc'["worker"] = pc["worker"]
      BY <2>4, OperatorGoes DEF Sends!AddReplay, OperatorPlaces, HooksShape
    <3>2. replaying.letter.of \in Sends!Delivery
      BY <2>4 DEF Sends!AddReplay, OnCall, HooksShape, ActorTypes, Sends!Letter
    <3>3. <<replaying.letter.of, 1>> \in Sends!Job
      BY <3>2 DEF Sends!Job
    <3>4. queued \in [Sends!Job -> Nat]
      BY DEF HooksShape, RedisTypes
    <3>5. queued' \in [Sends!Job -> Nat]
      BY <2>4, <3>3, <3>4 DEF Sends!AddReplay
    <3> QED
      BY <2>4, <3>1, <3>5 DEF Sends!AddReplay, Sends!worker, Sends!handlers, Sends!console,
         Sends!emitters, Sends!past, OperatorPlaces, HooksShape, RedisTypes, ActorTypes
  <2>5. CASE Sends!ReadLetters
    <3>1. pc' \in [Sends!Actors -> Places] /\ pc'["operator"] = "exec" /\ pc'["worker"] = pc["worker"]
      BY <2>5, OperatorGoes DEF Sends!ReadLetters, OperatorPlaces, HooksShape
    <3>2. replaying' = [letter |-> replaying.letter, list |-> letters]
      BY <2>5 DEF Sends!ReadLetters, HooksShape, ActorTypes
    <3> QED
      BY <2>5, <3>1, <3>2 DEF Sends!ReadLetters, Sends!redis, Sends!worker, Sends!handlers,
         Sends!emitters, Sends!past, OperatorPlaces, HooksShape, RedisTypes, ActorTypes
  <2>6. CASE Sends!WriteLetters
    <3>1. pc' \in [Sends!Actors -> Places] /\ pc'["operator"] = "list" /\ pc'["worker"] = pc["worker"]
      BY <2>6, OperatorGoes DEF Sends!WriteLetters, OperatorPlaces, HooksShape
    <3>2. letters' \in Seq(Sends!Letter)
      <4>1. replaying.list \in Seq(Sends!Letter)
        BY DEF HooksShape, ActorTypes
      <4> QED
        BY <2>6, <4>1, WrittenBack DEF Sends!WriteLetters
    <3>3. incidents' \subseteq Sends!Incidents
      BY <2>6 DEF Sends!WriteLetters, Sends!Mark, Sends!Incidents, HooksShape, RedisTypes
    <3>4. replaying' = Sends!NoReplay
      BY <2>6 DEF Sends!WriteLetters
    <3> QED
      BY <2>1, <2>6, <3>1, <3>2, <3>3, <3>4 DEF Sends!WriteLetters, Sends!worker, Sends!handlers,
         Sends!emitters, OperatorPlaces, HooksShape, RedisTypes, ActorTypes
  <2>7. CASE Sends!OperatorLists
    <3>1. copy' \in [Sends!Actors -> Sends!Configs]
      BY <2>7 DEF Sends!OperatorLists, Sends!ListConfigs, Sends!ReadConfigs, HooksShape, RedisTypes, ActorTypes
    <3>2. pc' \in [Sends!Actors -> Places] /\ pc'["operator"] \in {"save", "log"}
          /\ pc'["worker"] = pc["worker"]
      BY <2>7, OperatorGoes DEF Sends!OperatorLists, Sends!ListConfigs, OperatorPlaces, HooksShape
    <3> QED
      BY <2>7, <3>1, <3>2 DEF Sends!OperatorLists, Sends!redis, Sends!worker, Sends!handlers,
         Sends!console, Sends!emitters, Sends!past, OperatorPlaces, HooksShape, RedisTypes, ActorTypes
  <2>8. CASE Sends!OperatorLogs
    <3>1. pc' \in [Sends!Actors -> Places] /\ pc'["operator"] = "idle" /\ pc'["worker"] = pc["worker"]
      BY <2>8, OperatorGoes DEF Sends!OperatorLogs, OperatorPlaces, HooksShape
    <3> QED
      BY <2>8, <3>1 DEF Sends!OperatorLogs, Sends!redis, Sends!worker, Sends!handlers,
         Sends!emitters, Sends!past, OperatorPlaces, HooksShape, RedisTypes, ActorTypes
  <2>9. CASE Sends!OperatorFault
    <3>1. pc' \in [Sends!Actors -> Places] /\ pc'["operator"] = "idle" /\ pc'["worker"] = pc["worker"]
      BY <2>9, OperatorGoes DEF Sends!OperatorFault, OperatorPlaces, HooksShape
    <3>2. copy' \in [Sends!Actors -> Sends!Configs] /\ incidents' \subseteq Sends!Incidents
      BY <2>9 DEF Sends!OperatorFault, Sends!Mark, Sends!Incidents, Sends!NoConfigs, Sends!Configs,
         HooksShape, RedisTypes, ActorTypes
    <3> QED
      BY <2>1, <2>9, <3>1, <3>2 DEF Sends!OperatorFault, Sends!redis, Sends!worker, Sends!handlers,
         Sends!emitters, Sends!past, OperatorPlaces, HooksShape, RedisTypes, ActorTypes
  <2> QED
    BY <1>7, <2>2, <2>3, <2>4, <2>5, <2>6, <2>7, <2>8, <2>9, Zenon DEF Sends!OperatorStep
<1>8. ASSUME Sends!Crash PROVE HooksShape'
  <2>1. Sends!NoReplay.letter = Sends!NoLetter /\ Sends!NoReplay.list = <<>> /\ <<>> \in Seq(Sends!Letter)
        /\ Sends!NoReplay = [letter |-> Sends!NoReplay.letter, list |-> Sends!NoReplay.list]
    BY DEF Sends!NoReplay
  <2>2. pc' \in [Sends!Actors -> Places] /\ pc'["operator"] = "idle" /\ pc'["worker"] = "idle"
    BY <1>8 DEF Sends!Crash, Sends!Actors, Places, WorkerPlaces
  <2>3. copy' \in [Sends!Actors -> Sends!Configs] /\ adding' \in [Changes -> SUBSET Hooks]
        /\ handling' \in [Sends!Handler -> Nat] /\ incidents' \subseteq Sends!Incidents
    BY <1>8 DEF Sends!Crash, Sends!Mark, Sends!Incidents, Sends!NoConfigs, Sends!Configs, HooksShape, RedisTypes
  <2>4. queued \in [Sends!Job -> Nat] /\ running \in Sends!Job \cup {Sends!NoJob}
    BY DEF HooksShape, RedisTypes, ActorTypes
  <2>5. queued' \in [Sends!Job -> Nat]
    BY <1>8, <2>4 DEF Sends!Crash
  <2> QED
    BY <1>8, <2>1, <2>2, <2>3, <2>5 DEF Sends!Crash, WorkerPlaces, OperatorPlaces, HooksShape, RedisTypes, ActorTypes
<1> QED
  BY <1>1, <1>2, <1>3, <1>4, <1>5, <1>6, <1>7, <1>8, Zenon DEF Sends!Next

-----------------------------------------------------------------------------
(* Who writes what.                                                         *)

Posts  == Sends!PostLost \/ \E result \in {"good", "bad"} : Sends!Post(result)
Pushes == \E d \in Sends!Delivery : Sends!HandlerPushes(d)
Calls  == \/ \E what \in {"create", "update", "delete"}, h \in Hooks, on \in BOOLEAN : Sends!Ask(what, h, on)
          \/ \E i \in DOMAIN letters : Sends!Replay(i)
          \/ Sends!OperatorStep

Written ==
  /\ UNCHANGED configs \/ Sends!WorkerSaves \/ Sends!OperatorSaves
  /\ UNCHANGED wanted \/ Sends!OperatorSaves
  /\ UNCHANGED <<sent, got>> \/ Posts
  /\ UNCHANGED letters \/ Sends!HandlerTrims \/ Sends!WriteLetters \/ Pushes
  /\ UNCHANGED now \/ Pushes
  /\ UNCHANGED trimming \/ Sends!TrimStep \/ Sends!Crash \/ Pushes
  /\ \/ UNCHANGED <<running, posted>> /\ pc'["worker"] = pc["worker"] /\ copy'["worker"] = copy["worker"]
     \/ Sends!WorkerStep \/ Sends!Crash
  /\ \/ UNCHANGED <<asked, replaying>> /\ pc'["operator"] = pc["operator"] /\ copy'["operator"] = copy["operator"]
     \/ Calls \/ Sends!Crash
  /\ incidents \subseteq incidents'

LEMMA WhoWrites ==
  ASSUME HooksShape, Sends!Next
  PROVE  Written
<1> USE DEF Sends!redis, Sends!worker, Sends!handlers, Sends!console, Sends!emitters, Sends!past
<1>0. /\ "worker" \in Sends!Actors /\ "operator" \in Sends!Actors
      /\ DOMAIN pc = Sends!Actors /\ DOMAIN copy = Sends!Actors
      /\ pc = [a \in Sends!Actors |-> pc[a]] /\ copy = [a \in Sends!Actors |-> copy[a]]
  BY DEF HooksShape, ActorTypes, Sends!Actors
<1>1. ASSUME NEW c \in Changes, Sends!Announce(c) \/ \E h \in Hooks : Sends!Enqueue(c, h) PROVE Written
  BY <1>1 DEF Sends!Announce, Sends!Enqueue, Written
<1>2. ASSUME Sends!WorkerStep PROVE Written
  <2>1. ASSUME NEW j \in Sends!Job, Sends!Take(j) PROVE Written
    BY <1>0, <1>2, <2>1 DEF Sends!Take, Sends!Goto, Written
  <2>2. CASE Sends!GetConfig
    BY <1>0, <1>2, <2>2 DEF Sends!GetConfig, Sends!Finish, Sends!Goto, Written
  <2>3. CASE Posts
    BY <1>0, <1>2, <2>3 DEF Posts, Sends!Post, Sends!PostLost, Sends!Mark, Sends!Goto, Written
  <2>4. CASE Sends!WorkerLists
    BY <1>0, <1>2, <2>4 DEF Sends!WorkerLists, Sends!ListConfigs, Sends!ReadConfigs, Sends!Goto, Written
  <2>5. CASE Sends!WorkerSaves
    <3>1. incidents \subseteq incidents' /\ copy'["operator"] = copy["operator"] /\ pc'["operator"] = pc["operator"]
      BY <1>0, <2>5 DEF Sends!WorkerSaves, Sends!SaveConfigs, Sends!Mark, Sends!Goto
    <3> QED
      BY <1>2, <2>5, <3>1 DEF Sends!WorkerSaves, Written
  <2>6. CASE Sends!WorkerLogs
    BY <1>0, <1>2, <2>6 DEF Sends!WorkerLogs, Sends!Finish, Sends!Goto, Written
  <2>7. CASE Sends!WorkerFault
    <3>1. incidents \subseteq incidents' /\ copy'["operator"] = copy["operator"] /\ pc'["operator"] = pc["operator"]
      BY <1>0, <2>7 DEF Sends!WorkerFault, Sends!Finish, Sends!Mark, Sends!Goto
    <3> QED
      BY <1>2, <2>7, <3>1 DEF Sends!WorkerFault, Written
  <2> QED
    BY <1>2, <2>1, <2>2, <2>3, <2>4, <2>5, <2>6, <2>7, Zenon DEF Sends!WorkerStep, Posts
<1>3. ASSUME NEW d \in Sends!Delivery, Sends!HandlerStep(d) PROVE Written
  <2>1. CASE Sends!HandlerGets(d)
    BY <2>1 DEF Sends!HandlerGets, Written
  <2>2. CASE Sends!HandlerPushes(d)
    <3>1. Pushes
      BY <2>2 DEF Pushes
    <3> QED
      BY <2>2, <3>1 DEF Sends!HandlerPushes, Written
  <2>3. CASE Sends!HandlerFault(d)
    BY <2>3 DEF Sends!HandlerFault, Sends!HandlerMishap, Sends!Mark, Written
  <2> QED
    BY <1>3, <2>1, <2>2, <2>3 DEF Sends!HandlerStep
<1>4. ASSUME Sends!TrimStep PROVE Written
  BY <1>4 DEF Sends!TrimStep, Sends!HandlerTrims, Sends!TrimFault, Sends!HandlerMishap, Sends!Mark, Written
<1>5. ASSUME NEW what \in {"create", "update", "delete"}, NEW h \in Hooks, NEW on \in BOOLEAN,
             Sends!Ask(what, h, on)
      PROVE  Written
  <2>1. Calls
    BY <1>5 DEF Calls
  <2> QED
    BY <1>0, <1>5, <2>1 DEF Sends!Ask, Sends!OperatorIdle, Sends!ReadConfigs, Sends!Goto, Written
<1>6. ASSUME NEW i \in DOMAIN letters, Sends!Replay(i) PROVE Written
  <2>1. Calls
    BY <1>6 DEF Calls
  <2> QED
    BY <1>0, <1>6, <2>1 DEF Sends!Replay, Sends!OperatorIdle, Sends!Goto, Written
<1>7. ASSUME Sends!OperatorStep PROVE Written
  <2>0. Calls
    BY <1>7 DEF Calls
  <2>1. CASE Sends!OperatorSaves
    <3>1. incidents \subseteq incidents' /\ copy'["worker"] = copy["worker"] /\ pc'["worker"] = pc["worker"]
      BY <1>0, <2>1 DEF Sends!OperatorSaves, Sends!SaveConfigs, Sends!Mark, Sends!Goto
    <3> QED
      BY <2>0, <2>1, <3>1 DEF Sends!OperatorSaves, Written
  <2>2. CASE Sends!FindConfig \/ Sends!AddReplay \/ Sends!ReadLetters
    BY <1>0, <2>0, <2>2 DEF Sends!FindConfig, Sends!AddReplay, Sends!ReadLetters, Sends!Goto, Written
  <2>3. CASE Sends!WriteLetters
    BY <1>0, <2>0, <2>3 DEF Sends!WriteLetters, Sends!Mark, Sends!Goto, Written
  <2>4. CASE Sends!OperatorLists
    BY <1>0, <2>0, <2>4 DEF Sends!OperatorLists, Sends!ListConfigs, Sends!ReadConfigs, Sends!Goto, Written
  <2>5. CASE Sends!OperatorLogs \/ Sends!OperatorFault
    BY <1>0, <2>0, <2>5 DEF Sends!OperatorLogs, Sends!OperatorFault, Sends!Mark, Sends!Goto, Written
  <2> QED
    BY <1>7, <2>1, <2>2, <2>3, <2>4, <2>5, Zenon DEF Sends!OperatorStep
<1>8. ASSUME Sends!Crash PROVE Written
  BY <1>8 DEF Sends!Crash, Sends!Mark, Written
<1> QED
  BY <1>1, <1>2, <1>3, <1>4, <1>5, <1>6, <1>7, <1>8, Zenon DEF Sends!Next

LEMMA AtWorkHolds ==
  ASSUME HooksShape, AtWork, Sends!Next
  PROVE  AtWork'
<1>0. Written
  BY WhoWrites
<1>1. CASE UNCHANGED <<running, posted>> /\ pc'["worker"] = pc["worker"] /\ copy'["worker"] = copy["worker"]
  BY <1>1 DEF AtWork, Sends!Hook
<1>2. CASE Sends!Crash
  BY <1>2 DEF Sends!Crash, AtWork, Sends!Actors, Sends!NoJob
<1>3. CASE Sends!WorkerStep
  <2> USE DEF Sends!worker
  <2>0. \A threw : Sends!Finish(threw) /\ pc["worker"] # "idle" => AtWork'
    BY JobEnds DEF AtWork
  <2>1. ASSUME NEW j \in Sends!Job, Sends!Take(j) PROVE AtWork'
    <3>1. pc'["worker"] = "config" /\ running' = j /\ posted' = posted /\ pc["worker"] = "idle"
      BY <2>1, WorkerGoes DEF Sends!Take, HooksShape, WorkerPlaces
    <3>2. j # Sends!NoJob
      BY DEF Sends!Job, Sends!NoJob
    <3> QED
      BY <3>1, <3>2 DEF AtWork
  <2>2. CASE Sends!GetConfig
    <3>1. CASE Sends!Finish(FALSE)
      BY <2>0, <2>2, <3>1 DEF Sends!GetConfig
    <3>2. CASE Sends!Goto("worker", "post") /\ UNCHANGED Sends!worker
      <4>1. pc'["worker"] = "post" /\ pc["worker"] = "config"
        BY <2>2, <3>2, WorkerGoes DEF HooksShape, WorkerPlaces, Sends!GetConfig
      <4> QED
        BY <3>2, <4>1 DEF AtWork
    <3> QED
      BY <2>2, <3>1, <3>2 DEF Sends!GetConfig
  <2>3. CASE Posts
    <3>1. pc'["worker"] = "list" /\ pc["worker"] = "post" /\ posted' \in {"good", "bad"} /\ running' = running
      BY <2>3, WorkerGoes DEF Posts, Sends!Post, Sends!PostLost, HooksShape, WorkerPlaces
    <3> QED
      BY <3>1 DEF AtWork
  <2>4. CASE Sends!WorkerLists
    <3>1. pc["worker"] = "list" /\ UNCHANGED <<running, posted>>
      BY <2>4 DEF Sends!WorkerLists
    <3>2. CASE configs[Sends!Hook] = Sends!Absent
      BY <2>4, <3>1, <3>2, WorkerGoes DEF Sends!WorkerLists, Sends!ListConfigs, AtWork, HooksShape, WorkerPlaces
    <3>3. CASE configs[Sends!Hook] # Sends!Absent
      <4>1. pc'["worker"] = "save" /\ copy'["worker"] = configs
        BY <2>4, <3>3, WorkerGoes DEF Sends!WorkerLists, Sends!ListConfigs, Sends!ReadConfigs, HooksShape,
           ActorTypes, Sends!Actors, WorkerPlaces
      <4> QED
        BY <3>1, <3>3, <4>1 DEF AtWork, Sends!Hook
    <3> QED
      BY <3>2, <3>3
  <2>5. CASE Sends!WorkerSaves
    <3>1. pc'["worker"] = "log" /\ pc["worker"] = "save" /\ UNCHANGED <<running, posted>>
      BY <2>5, WorkerGoes DEF Sends!WorkerSaves, HooksShape, WorkerPlaces
    <3> QED
      BY <3>1 DEF AtWork
  <2>6. CASE Sends!WorkerLogs
    BY <2>0, <2>6 DEF Sends!WorkerLogs
  <2>7. CASE Sends!WorkerFault
    <3>1. CASE Sends!Finish(TRUE)
      BY <2>0, <2>7, <3>1 DEF Sends!WorkerFault
    <3>2. CASE posted = "good" /\ posted' = "bad" /\ Sends!Goto("worker", "list") /\ UNCHANGED running
      BY <2>7, <3>2, WorkerGoes DEF HooksShape, WorkerPlaces, AtWork
    <3> QED
      BY <2>7, <3>1, <3>2 DEF Sends!WorkerFault
  <2> QED
    BY <1>3, <2>1, <2>2, <2>3, <2>4, <2>5, <2>6, <2>7, Zenon DEF Sends!WorkerStep, Posts
<1> QED
  BY <1>0, <1>1, <1>2, <1>3 DEF Written

LEMMA OnCallHolds ==
  ASSUME HooksShape, OnCall, Sends!Next
  PROVE  OnCall'
<1> USE DEF Sends!console, Sends!NoCall, Sends!NoReplay
<1>0. Written
  BY WhoWrites
<1>1. CASE UNCHANGED <<asked, replaying>> /\ pc'["operator"] = pc["operator"] /\ copy'["operator"] = copy["operator"]
  <2>1. CASE UNCHANGED wanted
    BY <1>1, <2>1 DEF OnCall
  <2>2. CASE Sends!OperatorSaves
    <3>1. pc'["operator"] \in {"log", "idle"} /\ pc["operator"] = "save"
      BY <2>2, OperatorGoes DEF Sends!OperatorSaves, HooksShape, OperatorPlaces
    <3> QED
      BY <1>1, <3>1
  <2> QED
    BY <1>0, <2>1, <2>2 DEF Written
<1>2. CASE Sends!Crash
  BY <1>2 DEF Sends!Crash, OnCall, Sends!Actors
<1>3. CASE Calls
  <2>0. \A l \in Sends!Letter : l # Sends!NoLetter
    BY DEF Sends!Letter, Sends!NoLetter, Sends!Delivery
  <2>1. ASSUME NEW what \in {"create", "update", "delete"}, NEW h \in Hooks, NEW on \in BOOLEAN,
               Sends!Ask(what, h, on)
        PROVE  OnCall'
    <3>1. pc'["operator"] = "save" /\ pc["operator"] = "idle" /\ UNCHANGED <<replaying, wanted>>
          /\ asked' = [what |-> what, hook |-> h, on |-> on] /\ copy'["operator"] = configs
      BY <2>1, OperatorGoes DEF Sends!Ask, Sends!OperatorIdle, Sends!ReadConfigs, Sends!past, HooksShape,
         ActorTypes, Sends!Actors, OperatorPlaces
    <3>2. IF what = "create" THEN wanted[h] = Sends!Absent ELSE configs[h] # Sends!Absent
      BY <2>1 DEF Sends!Ask
    <3> QED
      BY <3>1, <3>2 DEF OnCall
  <2>2. ASSUME NEW i \in DOMAIN letters, Sends!Replay(i) PROVE OnCall'
    <3>1. pc'["operator"] = "find" /\ pc["operator"] = "idle" /\ asked'.what = "replay"
          /\ replaying'.letter = letters[i]
      BY <2>2, OperatorGoes DEF Sends!Replay, Sends!OperatorIdle, HooksShape, OperatorPlaces
    <3>2. letters[i] \in Sends!Letter
      BY DEF HooksShape, RedisTypes
    <3> QED
      BY <2>0, <3>1, <3>2 DEF OnCall
  <2>3. CASE Sends!OperatorSaves
    <3>1. pc["operator"] = "save" /\ pc'["operator"] = (IF asked.what = "replay" THEN "log" ELSE "idle")
      BY <2>3, OperatorGoes DEF Sends!OperatorSaves, HooksShape, OperatorPlaces
    <3>2. replaying' = replaying /\ asked.what = "replay" => asked' = asked
      BY <2>3 DEF Sends!OperatorSaves
    <3> QED
      BY <2>3, <3>1, <3>2 DEF OnCall, Sends!OperatorSaves
  <2>4. CASE Sends!FindConfig
    <3>1. pc["operator"] = "find"
      BY <2>4 DEF Sends!FindConfig
    <3>2. \/ pc'["operator"] = "idle" /\ replaying'.letter = Sends!NoLetter
          \/ pc'["operator"] = "add" /\ UNCHANGED <<asked, replaying>>
      BY <2>4, OperatorGoes DEF Sends!FindConfig, HooksShape, OperatorPlaces
    <3> QED
      BY <3>1, <3>2 DEF OnCall
  <2>5. CASE Sends!AddReplay
    BY <2>5, OperatorGoes DEF Sends!AddReplay, HooksShape, OperatorPlaces, OnCall
  <2>6. CASE Sends!ReadLetters
    <3>1. pc["operator"] = "range" /\ pc'["operator"] = "exec" /\ asked' = asked
      BY <2>6, OperatorGoes DEF Sends!ReadLetters, HooksShape, OperatorPlaces
    <3>2. replaying'.letter = replaying.letter
      BY <2>6 DEF Sends!ReadLetters, HooksShape, ActorTypes
    <3> QED
      BY <3>1, <3>2 DEF OnCall
  <2>7. CASE Sends!WriteLetters
    <3>1. pc["operator"] = "exec" /\ pc'["operator"] = "list" /\ asked' = asked
          /\ replaying'.letter = Sends!NoLetter
      BY <2>7, OperatorGoes DEF Sends!WriteLetters, HooksShape, OperatorPlaces
    <3> QED
      BY <3>1 DEF OnCall
  <2>8. CASE Sends!OperatorLists
    <3>1. pc["operator"] = "list" /\ UNCHANGED <<asked, replaying, wanted>>
      BY <2>8 DEF Sends!OperatorLists, Sends!past
    <3>2. \/ pc'["operator"] = "log"
          \/ pc'["operator"] = "save" /\ copy'["operator"] = configs /\ configs[asked.hook] # Sends!Absent
      BY <2>8, OperatorGoes DEF Sends!OperatorLists, Sends!ListConfigs, Sends!ReadConfigs, HooksShape,
         ActorTypes, Sends!Actors, OperatorPlaces
    <3> QED
      BY <3>1, <3>2 DEF OnCall
  <2>9. CASE Sends!OperatorLogs \/ Sends!OperatorFault
    <3>1. pc'["operator"] = "idle"
      BY <2>9, OperatorGoes DEF Sends!OperatorLogs, Sends!OperatorFault, HooksShape, OperatorPlaces
    <3>2. replaying' = Sends!NoReplay \/ (pc["operator"] = "log" /\ replaying' = replaying)
      BY <2>9 DEF Sends!OperatorLogs, Sends!OperatorFault
    <3>3. replaying'.letter = Sends!NoLetter
      BY <3>2 DEF OnCall
    <3> QED
      BY <3>1, <3>3 DEF OnCall
  <2> QED
    BY <1>3, <2>1, <2>2, <2>3, <2>4, <2>5, <2>6, <2>7, <2>8, <2>9, Zenon DEF Calls, Sends!OperatorStep
<1> QED
  BY <1>0, <1>1, <1>2, <1>3 DEF Written

LEMMA MadeStays ==
  ASSUME HooksShape, OnCall, Sends!Next
  PROVE  \A h \in Hooks : Made(h) => Made(h)'
<1>0. Written
  BY WhoWrites
<1>1. CASE Sends!OperatorSaves
  <2>1. Sends!Gone # Sends!Absent
    BY DEF Sends!Gone, Sends!Absent
  <2>2. \A on, e : [on |-> on, edit |-> e] # Sends!Absent
    BY DEF Sends!Absent
  <2>3. \/ wanted' = wanted
        \/ wanted' = [wanted EXCEPT ![asked.hook] = Sends!Gone]
        \/ \E on, e : wanted' = [wanted EXCEPT ![asked.hook] = [on |-> on, edit |-> e]]
    BY <1>1 DEF Sends!OperatorSaves
  <2>4. wanted \in [Hooks -> Sends!Setting \cup {Sends!Absent, Sends!Gone}]
    BY DEF HooksShape, RedisTypes
  <2>5. ASSUME NEW h \in Hooks PROVE wanted'[h] = wanted[h] \/ wanted'[h] = Sends!Gone
                                    \/ \E on, e : wanted'[h] = [on |-> on, edit |-> e]
    <3>1. CASE asked.hook = h
      BY <2>3, <2>4, <3>1
    <3>2. CASE asked.hook # h
      BY <2>3, <2>4, <3>2
    <3> QED
      BY <3>1, <3>2
  <2> QED
    BY <2>1, <2>2, <2>5 DEF Made
<1> QED
  BY <1>0, <1>1 DEF Written, Made

LEMMA UnheardHolds ==
  ASSUME HooksShape, AtWork, OnCall, Unheard, Newcomers, Sends!Next
  PROVE  Unheard'
<1> SUFFICES ASSUME NEW h \in Hooks, ~Made(h)'
             PROVE  /\ configs'[h] = Sends!Absent /\ \A a \in Sends!Actors : copy'[a][h] = Sends!Absent
                    /\ sent'[h] = [good |-> 0, bad |-> 0]
  BY DEF Unheard
<1>0. Written /\ ~Made(h)
  BY WhoWrites, MadeStays
<1>1. /\ configs[h] = Sends!Absent /\ \A a \in Sends!Actors : copy[a][h] = Sends!Absent
      /\ sent[h] = [good |-> 0, bad |-> 0]
  BY <1>0 DEF Unheard
<1>2. configs \in Sends!Configs /\ copy \in [Sends!Actors -> Sends!Configs]
      /\ sent \in [Hooks -> [good : Nat, bad : Nat]]
  BY DEF HooksShape, RedisTypes, ActorTypes
<1>3. configs'[h] = Sends!Absent
  <2>1. CASE Sends!WorkerSaves
    <3>1. Sends!Hook \in Hooks /\ Sends!Hook # h
      BY <2>1, <1>0, JobInHand DEF Sends!WorkerSaves, AtWork, Newcomers, Named, HooksShape
    <3> QED
      BY <2>1, <3>1, <1>1, <1>2 DEF Sends!WorkerSaves, Sends!SaveConfigs, Sends!Configs, Sends!Actors
  <2>2. CASE Sends!OperatorSaves
    <3>1. /\ configs' = [copy["operator"] EXCEPT ![asked.hook] = Sends!Edited(asked, copy["operator"][asked.hook])]
          /\ copy["operator"] \in Sends!Configs /\ copy["operator"][h] = Sends!Absent
      BY <2>2, <1>1, <1>2 DEF Sends!OperatorSaves, Sends!SaveConfigs, Sends!Actors
    <3>2. CASE asked.hook # h
      BY <3>1, <3>2, <1>1 DEF Sends!Configs
    <3>3. CASE asked.hook = h
      <4>1. asked.what \in {"create", "update", "delete"}
        BY <2>2, <3>1, <3>3 DEF Sends!OperatorSaves, OnCall, HooksShape, ActorTypes, Sends!NoCall
      <4>2. wanted \in [Hooks -> Sends!Setting \cup {Sends!Absent, Sends!Gone}]
        BY DEF HooksShape, RedisTypes
      <4>3. wanted'[h] = Sends!Gone \/ \E on, e : wanted'[h] = [on |-> on, edit |-> e]
        BY <2>2, <3>3, <4>1, <4>2 DEF Sends!OperatorSaves
      <4>4. Sends!Gone # Sends!Absent /\ \A on, e : [on |-> on, edit |-> e] # Sends!Absent
        BY DEF Sends!Gone, Sends!Absent
      <4> QED
        BY <4>3, <4>4 DEF Made
    <3> QED
      BY <3>2, <3>3
  <2> QED
    BY <1>0, <1>1, <2>1, <2>2 DEF Written
<1>4. \A a \in Sends!Actors : copy'[a][h] = Sends!Absent
  <2>1. /\ copy'["worker"] = copy["worker"] \/ copy'["worker"] = configs \/ copy'["worker"] = Sends!NoConfigs
        /\ copy'["operator"] = copy["operator"] \/ copy'["operator"] = configs
           \/ copy'["operator"] = Sends!NoConfigs
    <3> USE <1>2 DEF Sends!Actors, Sends!SaveConfigs, Sends!ReadConfigs, Sends!ListConfigs, Sends!Finish
    <3>1. CASE Sends!WorkerStep
      BY <3>1 DEF Sends!WorkerStep, Sends!Take, Sends!GetConfig, Sends!Post, Sends!PostLost, Sends!WorkerLists,
         Sends!WorkerSaves, Sends!WorkerLogs, Sends!WorkerFault
    <3>2. CASE Calls
      BY <3>2 DEF Calls, Sends!OperatorStep, Sends!Ask, Sends!Replay, Sends!OperatorSaves, Sends!FindConfig,
         Sends!AddReplay, Sends!ReadLetters, Sends!WriteLetters, Sends!OperatorLists, Sends!OperatorLogs,
         Sends!OperatorFault
    <3>3. CASE Sends!Crash
      BY <3>3 DEF Sends!Crash
    <3>4. CASE ~(Sends!WorkerStep \/ Calls \/ Sends!Crash)
      BY <3>4, <1>0 DEF Written
    <3> QED
      BY <3>1, <3>2, <3>3, <3>4
  <2> QED
    BY <1>1, <2>1 DEF Sends!NoConfigs, Sends!Actors
<1>5. sent'[h] = [good |-> 0, bad |-> 0]
  <2>1. CASE Posts
    <3>1. Sends!Hook \in Hooks /\ Sends!Hook # h
      BY <2>1, <1>0, JobInHand DEF Posts, Sends!Post, Sends!PostLost, AtWork, Newcomers, Named, HooksShape
    <3> QED
      BY <2>1, <3>1, <1>1, <1>2 DEF Posts, Sends!Post, Sends!PostLost
  <2> QED
    BY <1>0, <1>1, <2>1 DEF Written
<1> QED
  BY <1>3, <1>4, <1>5

LEMMA NamedBefore ==
  ASSUME HooksShape, AtWork, OnCall, Sends!Next, NEW h \in Hooks, Named(h)'
  PROVE  Named(h) \/ configs[h] # Sends!Absent
<1> DEFINE Known == Named(h) \/ configs[h] # Sends!Absent
<1> USE DEF Sends!redis, Sends!worker, Sends!handlers, Sends!console, Sends!emitters
<1>0. /\ queued \in [Sends!Job -> Nat] /\ handling \in [Sends!Handler -> Nat]
      /\ adding \in [Changes -> SUBSET Hooks] /\ letters \in Seq(Sends!Letter)
      /\ replaying.list \in Seq(Sends!Letter)
  BY DEF HooksShape, RedisTypes, ActorTypes
<1>a. ASSUME NEW threw, Sends!Finish(threw), pc["worker"] # "idle",
             UNCHANGED <<adding, letters, replaying>>
      PROVE  Known
  <2>1. running \in Sends!Job /\ running # Sends!NoJob /\ running' = Sends!NoJob
    BY <1>a, JobInHand DEF Sends!Finish, AtWork, HooksShape
  <2>2. ASSUME NEW j \in Sends!Job, queued'[j] > 0, j[1][1] = h PROVE Known
    <3>1. queued'[j] = queued[j] \/ j = <<running[1], running[2] - 1>>
      BY <1>a, <1>0 DEF Sends!Finish
    <3> QED
      BY <2>1, <2>2, <3>1 DEF Named, Sends!Hook
  <2>3. ASSUME NEW x \in Sends!Handler, handling'[x] > 0, x[1][1] = h PROVE Known
    <3>1. handling'[x] = handling[x] \/ x = <<running[1], "config">>
      BY <1>a, <1>0 DEF Sends!Finish
    <3> QED
      BY <2>1, <2>3, <3>1 DEF Named, Sends!Hook
  <2> QED
    BY <1>a, <2>1, <2>2, <2>3 DEF Named
<1>1. ASSUME NEW c \in Changes, Sends!Announce(c) \/ \E k \in Hooks : Sends!Enqueue(c, k) PROVE Known
  <2>1. CASE Sends!Announce(c)
    BY <1>0, <2>1 DEF Sends!Announce, Named, Sends!Hook
  <2>2. ASSUME NEW k \in Hooks, Sends!Enqueue(c, k) PROVE Known
    <3>1. \A j \in Sends!Job : queued'[j] = queued[j] \/ j = <<<<k, c>>, Attempts>>
      BY <1>0, <2>2 DEF Sends!Enqueue
    <3>2. \A e \in Changes : adding'[e] \subseteq adding[e]
      BY <1>0, <2>2 DEF Sends!Enqueue
    <3>3. k \in adding[c] /\ UNCHANGED <<letters, running, handling, replaying>>
      BY <2>2 DEF Sends!Enqueue
    <3> QED
      BY <3>1, <3>2, <3>3 DEF Named, Sends!Hook
  <2> QED
    BY <1>1, <2>1, <2>2
<1>2. ASSUME Sends!WorkerStep PROVE Known
  <2>1. ASSUME NEW j \in Sends!Job, Sends!Take(j) PROVE Known
    <3>1. \A k \in Sends!Job : queued'[k] > 0 => queued[k] > 0
      BY <1>0, <2>1 DEF Sends!Take
    <3>2. queued[j] > 0 /\ running' = j /\ UNCHANGED <<letters, adding, handling, replaying>>
      BY <2>1 DEF Sends!Take
    <3> QED
      BY <3>1, <3>2 DEF Named, Sends!Hook
  <2>2. CASE Sends!GetConfig \/ Sends!WorkerLogs \/ Sends!WorkerFault
    <3>1. pc["worker"] # "idle" /\ UNCHANGED <<adding, letters, replaying>>
      BY <2>2 DEF Sends!GetConfig, Sends!WorkerLogs, Sends!WorkerFault
    <3>2. (\E threw : Sends!Finish(threw)) \/ UNCHANGED <<queued, running, handling>>
      BY <2>2 DEF Sends!GetConfig, Sends!WorkerLogs, Sends!WorkerFault
    <3> QED
      BY <1>a, <3>1, <3>2 DEF Named, Sends!Hook
  <2>3. CASE Posts \/ Sends!WorkerLists \/ Sends!WorkerSaves
    <3>1. UNCHANGED <<adding, letters, replaying, queued, running, handling>>
      BY <2>3 DEF Posts, Sends!Post, Sends!PostLost, Sends!WorkerLists, Sends!WorkerSaves
    <3> QED
      BY <3>1 DEF Named, Sends!Hook
  <2> QED
    BY <1>2, <2>1, <2>2, <2>3, Zenon DEF Sends!WorkerStep, Posts
<1>3. ASSUME NEW d \in Sends!Delivery, Sends!HandlerStep(d) PROVE Known
  <2>1. UNCHANGED <<adding, queued, running, replaying>>
    BY <1>3 DEF Sends!HandlerStep, Sends!HandlerGets, Sends!HandlerPushes, Sends!HandlerFault, Sends!HandlerMishap
  <2>2. \E x \in Sends!Handler : handling[x] > 0 /\ x[1] = d
    <3>1. <<d, "config">> \in Sends!Handler /\ <<d, "push">> \in Sends!Handler
      BY DEF Sends!Handler
    <3> QED
      BY <1>3, <3>1 DEF Sends!HandlerStep, Sends!HandlerGets, Sends!HandlerPushes, Sends!HandlerFault
  <2>3. ASSUME NEW x \in Sends!Handler, handling'[x] > 0 PROVE handling[x] > 0 \/ x[1] = d
    <3>1. CASE x[1] # d
      <4>1. x # <<d, "config">> /\ x # <<d, "push">>
        BY <3>1
      <4> QED
        BY <1>0, <1>3, <2>3, <4>1 DEF Sends!HandlerStep, Sends!HandlerGets, Sends!HandlerPushes, Sends!HandlerFault, Sends!End
    <3> QED
      BY <3>1
  <2>4. ASSUME NEW i \in DOMAIN letters', letters'[i].of[1] = h PROVE Known
    <3>1. CASE UNCHANGED letters
      BY <2>4, <3>1 DEF Named
    <3>2. CASE Sends!HandlerPushes(d)
      <4> DEFINE l == [of |-> d, at |-> now']
      <4>1. letters' = <<l>> \o letters
        BY <3>2 DEF Sends!HandlerPushes, Sends!Push
      <4>2. letters'[i] = l \/ \E k \in DOMAIN letters : letters'[i] = letters[k]
        <5> HIDE DEF l
        <5>1. Len(<<l>>) = 1 /\ <<l>>[1] = l
          OBVIOUS
        <5>2. i \in 1..(Len(letters) + 1) /\ letters'[i] = IF i = 1 THEN l ELSE letters[i - 1]
          BY <1>0, <2>4, <4>1, <5>1
        <5>3. i = 1 \/ i - 1 \in DOMAIN letters
          BY <1>0, <5>2
        <5> QED
          BY <5>2, <5>3
      <4> QED
        BY <2>2, <2>4, <4>2 DEF Named
    <3> QED
      BY <1>3, <3>1, <3>2 DEF Sends!HandlerStep, Sends!HandlerGets, Sends!HandlerFault, Sends!HandlerMishap
  <2> QED
    BY <2>1, <2>2, <2>3, <2>4 DEF Named, Sends!Hook
<1>4. ASSUME Sends!TrimStep PROVE Known
  <2>1. UNCHANGED <<adding, queued, running, handling, replaying>>
    BY <1>4 DEF Sends!TrimStep, Sends!HandlerTrims, Sends!TrimFault, Sends!HandlerMishap
  <2>2. \A i \in DOMAIN letters' : i \in DOMAIN letters /\ letters'[i] = letters[i]
    <3>1. letters' = letters \/ (Len(letters) > Cap /\ letters' = SubSeq(letters, 1, Cap))
      BY <1>4 DEF Sends!TrimStep, Sends!HandlerTrims, Sends!TrimFault, Sends!HandlerMishap
    <3> QED
      BY <1>0, <3>1, FeedsAssumption
  <2> QED
    BY <2>1, <2>2 DEF Named, Sends!Hook
<1>5. CASE Calls
  <2>1. ASSUME NEW what \in {"create", "update", "delete"}, NEW k \in Hooks, NEW on \in BOOLEAN,
               Sends!Ask(what, k, on)
        PROVE  Known
    BY <2>1 DEF Sends!Ask, Named, Sends!Hook
  <2>2. ASSUME NEW i \in DOMAIN letters, Sends!Replay(i) PROVE Known
    BY <2>2 DEF Sends!Replay, Sends!NoReplay, Named, Sends!Hook
  <2>3. CASE Sends!OperatorSaves \/ Sends!OperatorLists \/ Sends!OperatorLogs
    <3>1. UNCHANGED <<adding, queued, running, handling, letters, replaying>>
      BY <2>3 DEF Sends!OperatorSaves, Sends!OperatorLists, Sends!OperatorLogs
    <3> QED
      BY <3>1 DEF Named, Sends!Hook
  <2>4. CASE Sends!FindConfig \/ Sends!OperatorFault
    <3>1. /\ UNCHANGED <<adding, queued, running, handling, letters>>
          /\ replaying' = replaying \/ replaying' = Sends!NoReplay
      BY <2>4 DEF Sends!FindConfig, Sends!OperatorFault
    <3> QED
      BY <3>1 DEF Named, Sends!Hook, Sends!NoReplay
  <2>5. CASE Sends!AddReplay
    <3>1. replaying.letter # Sends!NoLetter /\ UNCHANGED <<adding, running, handling, letters, replaying>>
      BY <2>5 DEF Sends!AddReplay, OnCall
    <3>2. \A j \in Sends!Job : queued'[j] = queued[j] \/ j = <<replaying.letter.of, 1>>
      BY <1>0, <2>5 DEF Sends!AddReplay
    <3> QED
      BY <3>1, <3>2 DEF Named, Sends!Hook
  <2>6. CASE Sends!ReadLetters
    <3>1. UNCHANGED <<adding, queued, running, handling, letters>>
      BY <2>6 DEF Sends!ReadLetters
    <3>2. replaying'.list = letters /\ replaying'.letter = replaying.letter
      BY <2>6 DEF Sends!ReadLetters, HooksShape, ActorTypes
    <3> QED
      BY <3>1, <3>2 DEF Named, Sends!Hook
  <2>7. CASE Sends!WriteLetters
    <3>1. UNCHANGED <<adding, queued, running, handling>> /\ replaying' = Sends!NoReplay
      BY <2>7 DEF Sends!WriteLetters
    <3>2. \A i \in DOMAIN letters' : \E j \in DOMAIN replaying.list : letters'[i] = replaying.list[j]
      BY <1>0, <2>7, WrittenBack DEF Sends!WriteLetters
    <3> QED
      BY <3>1, <3>2 DEF Named, Sends!Hook, Sends!NoReplay
  <2> QED
    BY <1>5, <2>1, <2>2, <2>3, <2>4, <2>5, <2>6, <2>7, Zenon DEF Calls, Sends!OperatorStep
<1>6. CASE Sends!Crash
  <2>1. /\ running' = Sends!NoJob /\ handling' = [x \in Sends!Handler |-> 0]
        /\ adding' = [c \in Changes |-> {}] /\ replaying' = Sends!NoReplay /\ letters' = letters
    BY <1>6 DEF Sends!Crash
  <2>2. \A j \in Sends!Job : queued'[j] = queued[j] \/ (running # Sends!NoJob /\ j = running)
    BY <1>0, <1>6 DEF Sends!Crash
  <2> QED
    BY <2>1, <2>2 DEF Named, Sends!Hook, Sends!NoReplay
<1> QED
  BY <1>1, <1>2, <1>3, <1>4, <1>5, <1>6, Zenon DEF Sends!Next, Calls

LEMMA NewcomersHold ==
  ASSUME HooksShape, AtWork, OnCall, Unheard, Newcomers, Sends!Next
  PROVE  Newcomers'
<1> SUFFICES ASSUME NEW h \in Hooks, Named(h)' PROVE Made(h)'
  BY DEF Newcomers
<1>1. Named(h) \/ configs[h] # Sends!Absent
  BY NamedBefore
<1> QED
  BY <1>1, MadeStays DEF Newcomers, Unheard

-----------------------------------------------------------------------------
(* Webhooks: settings and totals.                                           *)

\* A save that nobody was before leaves the configs as they are but for one.
SavesFresh(a, h, config) ==
  /\ copy[a] = configs /\ h \in Hooks
  /\ configs' = [configs EXCEPT ![h] = config]

LEMMA WorkerSavesFresh ==
  ASSUME HooksShape, AtWork, Sends!WorkerSaves
  PROVE  \/ "stale" \in incidents'
         \/ /\ SavesFresh("worker", Sends!Hook, Sends!Counted(configs[Sends!Hook]))
            /\ configs[Sends!Hook] \in Sends!Config
            /\ UNCHANGED <<wanted, sent>>
<1>1. "stale" \in incidents' \/ copy["worker"] = configs
  BY DEF Sends!WorkerSaves, Sends!SaveConfigs, Sends!Mark
<1>2. configs' = [copy["worker"] EXCEPT ![Sends!Hook] = Sends!Counted(copy["worker"][Sends!Hook])]
  BY DEF Sends!WorkerSaves, Sends!SaveConfigs
<1>3. Sends!Hook \in Hooks /\ copy["worker"][Sends!Hook] # Sends!Absent
  BY JobInHand DEF Sends!WorkerSaves, AtWork, HooksShape
<1>4. configs \in Sends!Configs
  BY DEF HooksShape, RedisTypes
<1>5. UNCHANGED <<wanted, sent>>
  BY DEF Sends!WorkerSaves, Sends!past
<1> QED
  BY <1>1, <1>2, <1>3, <1>4, <1>5 DEF SavesFresh, Sends!Configs

LEMMA OperatorSavesFresh ==
  ASSUME HooksShape, OnCall, Sends!OperatorSaves
  PROVE  \/ "stale" \in incidents'
         \/ /\ SavesFresh("operator", asked.hook, Sends!Edited(asked, configs[asked.hook]))
            /\ asked.what \in {"create", "update", "delete", "replay"}
            /\ asked.what = "create" => wanted[asked.hook] = Sends!Absent
            /\ asked.what # "create" => configs[asked.hook] \in Sends!Config
            /\ wanted' = CASE asked.what = "replay" -> wanted
                           [] asked.what = "delete" -> [wanted EXCEPT ![asked.hook] = Sends!Gone]
                           [] OTHER -> [wanted EXCEPT ![asked.hook] =
                                          [on |-> Sends!Edited(asked, configs[asked.hook]).on, edit |-> ops]]
            /\ UNCHANGED <<sent, running, posted, ops>> /\ pc'["worker"] = pc["worker"]
<1>1. "stale" \in incidents' \/ copy["operator"] = configs
  BY DEF Sends!OperatorSaves, Sends!SaveConfigs, Sends!Mark
<1>2. configs' = [copy["operator"] EXCEPT ![asked.hook] = Sends!Edited(asked, copy["operator"][asked.hook])]
  BY DEF Sends!OperatorSaves, Sends!SaveConfigs
<1>3. asked.what \in {"create", "update", "delete", "replay"} /\ asked.hook \in Hooks
  BY DEF Sends!OperatorSaves, OnCall, HooksShape, ActorTypes, Sends!NoCall
<1>4. configs \in Sends!Configs
  BY DEF HooksShape, RedisTypes
<1>5. /\ asked.what = "create" => wanted[asked.hook] = Sends!Absent
      /\ asked.what # "create" => copy["operator"][asked.hook] # Sends!Absent
  BY DEF Sends!OperatorSaves, OnCall
<1>6. wanted' = CASE asked.what = "replay" -> wanted
                  [] asked.what = "delete" -> [wanted EXCEPT ![asked.hook] = Sends!Gone]
                  [] OTHER -> [wanted EXCEPT ![asked.hook] =
                                 [on |-> Sends!Edited(asked, copy["operator"][asked.hook]).on, edit |-> ops]]
  BY Zenon DEF Sends!OperatorSaves
<1>11. UNCHANGED <<sent, running, posted, ops>>
  BY DEF Sends!OperatorSaves, Sends!worker
<1>7. pc'["worker"] = pc["worker"]
  BY OperatorGoes DEF Sends!OperatorSaves, HooksShape, OperatorPlaces
<1>8. copy["operator"] = configs /\ asked.what # "create" => configs[asked.hook] \in Sends!Config
  BY <1>3, <1>4, <1>5 DEF Sends!Configs
<1>9. CASE "stale" \in incidents'
  BY <1>9
<1>10. CASE copy["operator"] = configs
  <2>1. SavesFresh("operator", asked.hook, Sends!Edited(asked, configs[asked.hook]))
    BY <1>2, <1>3, <1>10 DEF SavesFresh
  <2> QED
    BY <2>1, <1>3, <1>5, <1>6, <1>7, <1>8, <1>10, <1>11, Zenon
<1> QED
  BY <1>1, <1>9, <1>10

LEMMA EditsHold ==
  ASSUME HooksShape, AtWork, OnCall, Sends!EditsStand, Sends!Next
  PROVE  Sends!EditsStand'
<1>0. Written
  BY WhoWrites
<1>1. configs \in Sends!Configs /\ wanted \in [Hooks -> Sends!Setting \cup {Sends!Absent, Sends!Gone}]
  BY DEF HooksShape, RedisTypes
<1> USE DEF Sends!Spoiled
<1>2. CASE "stale" \in incidents \/ "stale" \in incidents'
  BY <1>0, <1>2 DEF Written, Sends!EditsStand
<1>3. CASE "stale" \notin incidents /\ "stale" \notin incidents'
  <2> DEFINE Stands(h, w, c) ==
               IF w[h] \in {Sends!Absent, Sends!Gone} THEN c[h] = Sends!Absent
               ELSE c[h] # Sends!Absent /\ c[h].on = w[h].on /\ c[h].edit = w[h].edit
  <2>1. \A h \in Hooks : Stands(h, wanted, configs)
    BY <1>3 DEF Sends!EditsStand
  <2>2. SUFFICES ASSUME NEW h \in Hooks PROVE Stands(h, wanted', configs')
    BY DEF Sends!EditsStand
  <2>3. CASE Sends!WorkerSaves
    <3>1. /\ Sends!Hook \in Hooks /\ configs[Sends!Hook] \in Sends!Config
          /\ configs' = [configs EXCEPT ![Sends!Hook] = Sends!Counted(configs[Sends!Hook])] /\ wanted' = wanted
      BY <1>3, <2>3, WorkerSavesFresh DEF SavesFresh
    <3>2. CASE h = Sends!Hook
      <4> DEFINE c == configs[Sends!Hook]
      <4>1. Sends!Counted(c).on = c.on /\ Sends!Counted(c).edit = c.edit /\ Sends!Counted(c) # Sends!Absent
            /\ c # Sends!Absent
        BY <3>1 DEF Sends!Counted, Sends!Config, Sends!Absent
      <4>2. configs'[h] = Sends!Counted(c)
        BY <3>1, <3>2, <1>1 DEF Sends!Configs
      <4> QED
        BY <2>1, <3>1, <3>2, <4>1, <4>2
    <3>3. CASE h # Sends!Hook
      BY <2>1, <3>1, <3>3, <1>1 DEF Sends!Configs
    <3> QED
      BY <3>2, <3>3
  <2>4. CASE Sends!OperatorSaves
    <3> DEFINE k == asked.hook
               c == Sends!Edited(asked, configs[k])
    <3>1. /\ k \in Hooks /\ configs' = [configs EXCEPT ![k] = c]
          /\ asked.what \in {"create", "update", "delete", "replay"}
          /\ asked.what # "create" => configs[k] \in Sends!Config
          /\ wanted' = CASE asked.what = "replay" -> wanted
                         [] asked.what = "delete" -> [wanted EXCEPT ![k] = Sends!Gone]
                         [] OTHER -> [wanted EXCEPT ![k] = [on |-> c.on, edit |-> ops]]
      BY <1>3, <2>4, OperatorSavesFresh DEF SavesFresh
    <3>2. CASE h = k
      <4>1. configs'[h] = c
        BY <1>1, <3>1, <3>2 DEF Sends!Configs
      <4>2. CASE asked.what = "replay"
        BY <2>1, <3>1, <3>2, <4>1, <4>2 DEF Sends!Edited
      <4>3. CASE asked.what = "delete"
        BY <1>1, <3>1, <3>2, <4>1, <4>3 DEF Sends!Edited
      <4>4. CASE asked.what \in {"create", "update"}
        <5>1. wanted'[h] = [on |-> c.on, edit |-> ops]
          BY <1>1, <3>1, <3>2, <4>4
        <5>2. c.edit = ops /\ c # Sends!Absent
          BY <3>1, <4>4 DEF Sends!Edited, Sends!Config, Sends!Fresh, Sends!Absent
        <5>3. [on |-> c.on, edit |-> ops] \notin {Sends!Absent, Sends!Gone}
          BY DEF Sends!Absent, Sends!Gone
        <5> HIDE DEF c
        <5> QED
          BY <4>1, <5>1, <5>2, <5>3
      <4> QED
        BY <3>1, <4>2, <4>3, <4>4
    <3>3. CASE h # k
      <4>1. configs'[h] = configs[h]
        BY <1>1, <3>1, <3>3 DEF Sends!Configs
      <4>2. wanted'[h] = wanted[h]
        <5> HIDE DEF c
        <5> QED
          BY <1>1, <3>1, <3>3
      <4> QED
        BY <2>1, <4>1, <4>2
    <3> QED
      BY <3>2, <3>3
  <2> QED
    BY <1>0, <2>1, <2>3, <2>4 DEF Written
<1> QED
  BY <1>2, <1>3

LEMMA CountsHold ==
  ASSUME HooksShape, AtWork, OnCall, Unheard, Newcomers, Sends!CountsTruthful, Sends!Next
  PROVE  Sends!CountsTruthful'
<1>0. Written
  BY WhoWrites
<1>1. configs \in Sends!Configs /\ sent \in [Hooks -> [good : Nat, bad : Nat]]
  BY DEF HooksShape, RedisTypes
<1>2. CASE Sends!Spoiled({"stale", "fault", "crash"}) \/ Sends!Spoiled({"stale", "fault", "crash"})'
  BY <1>0, <1>2 DEF Written, Sends!CountsTruthful, Sends!Spoiled
<1>3. CASE ~Sends!Spoiled({"stale", "fault", "crash"}) /\ ~Sends!Spoiled({"stale", "fault", "crash"})'
  <2> DEFINE Told(h) ==
               /\ configs[h].good + Sends!Unsaved(h, "good") = sent[h].good
               /\ configs[h].bad + Sends!Unsaved(h, "bad") = sent[h].bad
  <2>1. \A h \in Hooks : configs[h] # Sends!Absent => Told(h)
    BY <1>3 DEF Sends!CountsTruthful
  <2>0. {"stale", "fault", "crash"} \cap incidents' = {}
    BY <1>3 DEF Sends!Spoiled
  <2>2. SUFFICES ASSUME NEW h \in Hooks, configs'[h] # Sends!Absent PROVE Told(h)'
    BY DEF Sends!CountsTruthful
  <2>a. ASSUME UNCHANGED <<configs, sent>>,
               \A kind \in {"good", "bad"} : Sends!Unsaved(h, kind)' = Sends!Unsaved(h, kind)
        PROVE  Told(h)'
    BY <2>a, <2>1, <2>2
  <2>b. ASSUME UNCHANGED <<configs, sent, running, posted>>, pc'["worker"] = pc["worker"] PROVE Told(h)'
    BY <2>b, <2>a DEF Sends!Unsaved, Sends!Hook
  <2>c. ASSUME UNCHANGED <<configs, sent>>, pc["worker"] \notin {"list", "save"},
               pc'["worker"] \notin {"list", "save"}
        PROVE  Told(h)'
    BY <2>c, <2>a DEF Sends!Unsaved
  <2>3. CASE Posts
    <3>1. /\ pc["worker"] = "post" /\ pc'["worker"] = "list" /\ UNCHANGED <<configs, running>>
          /\ \/ posted' = "good" /\ sent' = [sent EXCEPT ![Sends!Hook].good = @ + 1]
             \/ posted' = "bad" /\ sent' = [sent EXCEPT ![Sends!Hook].bad = @ + 1]
      BY <2>3, WorkerGoes DEF Posts, Sends!Post, Sends!PostLost, HooksShape, WorkerPlaces, Sends!redis
    <3>2. Told(h)
      BY <2>1, <2>2, <3>1
    <3>3. \A kind : Sends!Unsaved(h, kind) = 0
      BY <3>1 DEF Sends!Unsaved
    <3>4. configs[h] \in Sends!Config
      BY <1>1, <2>2, <3>1 DEF Sends!Configs
    <3>5. configs[h].good \in Nat /\ configs[h].bad \in Nat /\ sent[h].good \in Nat /\ sent[h].bad \in Nat
      BY <1>1, <3>4 DEF Sends!Config
    <3>6. Sends!Unsaved(h, "good")' = (IF Sends!Hook = h /\ posted' = "good" THEN 1 ELSE 0)
          /\ Sends!Unsaved(h, "bad")' = (IF Sends!Hook = h /\ posted' = "bad" THEN 1 ELSE 0)
      BY <3>1 DEF Sends!Unsaved, Sends!Hook
    <3>7. CASE Sends!Hook = h
      <4>1. CASE posted' = "good" /\ sent' = [sent EXCEPT ![Sends!Hook].good = @ + 1]
        <5>1. sent'[h].good = sent[h].good + 1 /\ sent'[h].bad = sent[h].bad
          BY <1>1, <3>7, <4>1
        <5> QED
          BY <5>1, <3>1, <3>2, <3>3, <3>5, <3>6, <3>7, <4>1
      <4>2. CASE posted' = "bad" /\ sent' = [sent EXCEPT ![Sends!Hook].bad = @ + 1]
        <5>1. sent'[h].bad = sent[h].bad + 1 /\ sent'[h].good = sent[h].good
          BY <1>1, <3>7, <4>2
        <5> QED
          BY <5>1, <3>1, <3>2, <3>3, <3>5, <3>6, <3>7, <4>2
      <4> QED
        BY <3>1, <4>1, <4>2
    <3>8. CASE Sends!Hook # h
      <4>1. sent'[h] = sent[h]
        BY <1>1, <3>1, <3>8
      <4> QED
        BY <4>1, <3>1, <3>2, <3>3, <3>6, <3>8
    <3> QED
      BY <3>7, <3>8
  <2>4. CASE Sends!WorkerLists
    <3>1. pc["worker"] = "list" /\ UNCHANGED <<configs, sent, running, posted>>
      BY <2>4 DEF Sends!WorkerLists, Sends!redis, Sends!worker, Sends!past
    <3>2. \/ pc'["worker"] = "save"
          \/ pc'["worker"] = "log" /\ configs[Sends!Hook] = Sends!Absent
      BY <2>4, WorkerGoes DEF Sends!WorkerLists, Sends!ListConfigs, HooksShape, WorkerPlaces
    <3>3. CASE pc'["worker"] = "save"
      BY <3>1, <3>3, <2>a DEF Sends!Unsaved, Sends!Hook
    <3>4. CASE configs[Sends!Hook] = Sends!Absent
      <4>1. h # Sends!Hook
        BY <2>2, <3>1, <3>4
      <4> QED
        BY <3>1, <4>1, <2>a DEF Sends!Unsaved, Sends!Hook
    <3> QED
      BY <3>2, <3>3, <3>4
  <2>5. CASE Sends!WorkerSaves
    <3> DEFINE k == Sends!Hook
               c == Sends!Counted(configs[k])
    <3>1. /\ k \in Hooks /\ configs' = [configs EXCEPT ![k] = c] /\ configs[k] \in Sends!Config
          /\ UNCHANGED sent
      BY <2>0, <2>5, WorkerSavesFresh DEF SavesFresh
    <3>2. pc["worker"] = "save" /\ pc'["worker"] = "log" /\ posted \in {"good", "bad"}
      BY <2>5, WorkerGoes DEF Sends!WorkerSaves, HooksShape, ActorTypes, AtWork, WorkerPlaces
    <3>3. \A kind : Sends!Unsaved(h, kind)' = 0
      BY <3>2 DEF Sends!Unsaved
    <3>4. CASE h = k
      <4>1. Told(h)
        BY <2>1, <3>1, <3>4 DEF Sends!Absent, Sends!Config
      <4>2. /\ c.good = configs[h].good + Sends!Unsaved(h, "good")
            /\ c.bad = configs[h].bad + Sends!Unsaved(h, "bad")
        <5>1. configs[h].good \in Nat /\ configs[h].bad \in Nat
          BY <3>1, <3>4 DEF Sends!Config
        <5>2. CASE posted = "good"
          <6>1. c.good = configs[h].good + 1 /\ c.bad = configs[h].bad
            BY <3>1, <3>4, <5>2 DEF Sends!Counted, Sends!Config
          <6> HIDE DEF c
          <6> QED
            BY <3>2, <3>4, <5>1, <5>2, <6>1 DEF Sends!Unsaved
        <5>3. CASE posted = "bad"
          <6>1. c.good = configs[h].good /\ c.bad = configs[h].bad + 1
            BY <3>1, <3>4, <5>3 DEF Sends!Counted, Sends!Config
          <6> HIDE DEF c
          <6> QED
            BY <3>2, <3>4, <5>1, <5>3, <6>1 DEF Sends!Unsaved
        <5> QED
          BY <3>2, <5>2, <5>3
      <4>3. configs'[h] = c
        BY <1>1, <3>1, <3>4 DEF Sends!Configs
      <4>4. c.good \in Nat /\ c.bad \in Nat
        BY <3>1 DEF Sends!Counted, Sends!Config
      <4> HIDE DEF c
      <4> QED
        BY <3>1, <3>3, <4>1, <4>2, <4>3, <4>4
    <3>5. CASE h # k
      <4>1. configs'[h] = configs[h]
        BY <1>1, <3>1, <3>5 DEF Sends!Configs
      <4>2. \A kind : Sends!Unsaved(h, kind) = 0
        BY <3>5 DEF Sends!Unsaved
      <4> QED
        BY <2>1, <2>2, <3>1, <3>3, <4>1, <4>2
    <3> QED
      BY <3>4, <3>5
  <2>6. CASE Sends!OperatorSaves
    <3> DEFINE k == asked.hook
               c == Sends!Edited(asked, configs[k])
    <3>1. /\ k \in Hooks /\ configs' = [configs EXCEPT ![k] = c]
          /\ asked.what \in {"create", "update", "delete", "replay"}
          /\ asked.what = "create" => wanted[k] = Sends!Absent
          /\ asked.what # "create" => configs[k] \in Sends!Config
          /\ UNCHANGED <<sent, running, posted>> /\ pc'["worker"] = pc["worker"]
      BY <2>0, <2>6, OperatorSavesFresh DEF SavesFresh
    <3>2. \A kind : Sends!Unsaved(h, kind)' = Sends!Unsaved(h, kind)
      BY <3>1 DEF Sends!Unsaved, Sends!Hook
    <3>3. CASE h = k
      <4>1. configs'[h] = c
        BY <1>1, <3>1, <3>3 DEF Sends!Configs
      <4>2. CASE asked.what = "create"
        <5>1. sent[h].good = 0 /\ sent[h].bad = 0
          BY <3>1, <3>3, <4>2 DEF Unheard, Made
        <5>2. \A kind : Sends!Unsaved(h, kind) = 0
          <6>1. running # Sends!NoJob => Sends!Hook # h
            BY <3>1, <3>3, <4>2 DEF Newcomers, Named, Made
          <6> QED
            BY <6>1 DEF Sends!Unsaved, AtWork
        <5>3. c.good = 0 /\ c.bad = 0
          BY <4>2 DEF Sends!Edited, Sends!Fresh
        <5> QED
          BY <3>1, <3>2, <4>1, <5>1, <5>2, <5>3
      <4>3. CASE asked.what \in {"update", "replay"}
        <5>1. c.good = configs[h].good /\ c.bad = configs[h].bad
          BY <3>1, <3>3, <4>3 DEF Sends!Edited, Sends!Config
        <5>2. Told(h)
          BY <2>1, <3>1, <3>3, <4>3 DEF Sends!Absent, Sends!Config
        <5> HIDE DEF c
        <5> QED
          BY <3>1, <3>2, <4>1, <5>1, <5>2
      <4>4. CASE asked.what = "delete"
        BY <2>2, <4>1, <4>4 DEF Sends!Edited
      <4> QED
        BY <3>1, <4>2, <4>3, <4>4
    <3>4. CASE h # k
      <4>1. configs'[h] = configs[h]
        BY <1>1, <3>1, <3>4 DEF Sends!Configs
      <4> QED
        BY <2>1, <2>2, <3>1, <3>2, <4>1
    <3> QED
      BY <3>3, <3>4
  <2>7. CASE Sends!WorkerStep /\ ~Posts /\ ~Sends!WorkerLists /\ ~Sends!WorkerSaves /\ ~Sends!OperatorSaves
    <3>1. UNCHANGED <<configs, sent>>
      BY <1>0, <2>7 DEF Written
    <3>2. ASSUME NEW j \in Sends!Job, Sends!Take(j) PROVE Told(h)'
      <4>1. pc["worker"] = "idle" /\ pc'["worker"] = "config"
        BY <3>2, WorkerGoes DEF Sends!Take, HooksShape, WorkerPlaces
      <4> QED
        BY <3>1, <4>1, <2>c
    <3>3. CASE Sends!GetConfig
      <4>1. pc["worker"] = "config" /\ pc'["worker"] \in {"idle", "post"}
        BY <3>3, WorkerGoes DEF Sends!GetConfig, Sends!Finish, HooksShape, WorkerPlaces
      <4> QED
        BY <3>1, <4>1, <2>c
    <3>4. CASE Sends!WorkerLogs
      <4>1. pc["worker"] = "log" /\ pc'["worker"] = "idle"
        BY <3>4, WorkerGoes DEF Sends!WorkerLogs, Sends!Finish, HooksShape, WorkerPlaces
      <4> QED
        BY <3>1, <4>1, <2>c
    <3>5. ~Sends!WorkerFault
      BY <2>0 DEF Sends!WorkerFault, Sends!Mark
    <3> QED
      BY <2>7, <3>2, <3>3, <3>4, <3>5, Zenon DEF Sends!WorkerStep, Posts
  <2>8. ~Sends!Crash
    BY <2>0 DEF Sends!Crash, Sends!Mark
  <2> QED
    BY <1>0, <2>b, <2>3, <2>4, <2>5, <2>6, <2>7, <2>8 DEF Written
<1> QED
  BY <1>2, <1>3

-----------------------------------------------------------------------------
(* Webhooks: the dead letters.                                              *)

Dated(list) == Apart(list) /\ \A i \in DOMAIN list : list[i].at <= now
Dates == Dated(letters) /\ Dated(replaying.list)

LEMMA LettersHave ==
  ASSUME NEW list \in Seq(Sends!Letter), NEW i \in DOMAIN list
  PROVE  list[i] \in Sends!Letter /\ list[i].at \in Nat /\ list[i].of \in Sends!Delivery
<1>1. list[i] \in Sends!Letter
  OBVIOUS
<1> QED
  BY <1>1 DEF Sends!Letter

\* The list after a push: the new letter, then the old ones.
LEMMA Pushed ==
  ASSUME HooksShape, NEW d \in Sends!Delivery, Sends!HandlerPushes(d)
  PROVE  /\ now' = now + 1 /\ Len(letters') = Len(letters) + 1
         /\ letters'[1] = [of |-> d, at |-> now + 1] /\ letters'[1].at = now + 1
         /\ DOMAIN letters' = 1..(Len(letters) + 1)
         /\ \A i \in 2..(Len(letters) + 1) : i - 1 \in DOMAIN letters /\ letters'[i] = letters[i - 1]
<1> DEFINE l == [of |-> d, at |-> now']
<1>1. now' = now + 1 /\ letters' = <<l>> \o letters
  BY DEF Sends!HandlerPushes, Sends!Push
<1>2. letters \in Seq(Sends!Letter)
  BY DEF HooksShape, RedisTypes
<1> HIDE DEF l
<1>3. Len(letters') = Len(letters) + 1 /\ letters'[1] = l
      /\ \A i \in 2..(Len(letters) + 1) : letters'[i] = letters[i - 1]
      /\ DOMAIN letters' = 1..(Len(letters) + 1)
  BY <1>1, <1>2
<1>4. \A i \in 2..(Len(letters) + 1) : i - 1 \in DOMAIN letters
  BY <1>2
<1> QED
  BY <1>1, <1>3, <1>4 DEF l

\* The list after a trim: its head.
LEMMA Trimmed ==
  ASSUME HooksShape, Sends!HandlerTrims
  PROVE  /\ Len(letters') <= Len(letters) /\ Len(letters') <= Cap
         /\ \A i \in DOMAIN letters' : i \in DOMAIN letters /\ letters'[i] = letters[i]
<1>1. letters \in Seq(Sends!Letter) /\ Cap \in Nat
  BY FeedsAssumption DEF HooksShape, RedisTypes
<1>2. letters' = IF Len(letters) > Cap THEN SubSeq(letters, 1, Cap) ELSE letters
  BY DEF Sends!HandlerTrims
<1> QED
  BY <1>1, <1>2

LEMMA DatesHold ==
  ASSUME HooksShape, OnCall, Dates, Sends!Next
  PROVE  Dates'
<1>0. Written
  BY WhoWrites
<1>1. /\ letters \in Seq(Sends!Letter) /\ replaying.list \in Seq(Sends!Letter) /\ now \in Nat
      /\ replaying.letter \in Sends!Letter \cup {Sends!NoLetter}
  BY DEF HooksShape, RedisTypes, ActorTypes
<1>2. now' \in Nat /\ now <= now'
  <2>1. \A d \in Sends!Delivery : Sends!HandlerPushes(d) => now' = now + 1
    BY Pushed
  <2> QED
    BY <1>0, <1>1, <2>1 DEF Written, Pushes
<1>3. Dated(letters)'
  <2>1. CASE UNCHANGED letters
    <3>1. \A i \in DOMAIN letters : letters[i].at \in Nat /\ letters[i].at <= now
      BY <1>1, LettersHave DEF Dates, Dated
    <3>2. \A i \in DOMAIN letters : letters[i].at <= now'
      BY <1>1, <1>2, <3>1
    <3> QED
      BY <2>1, <3>2 DEF Dates, Dated, Apart
  <2>2. CASE Sends!HandlerTrims
    <3>1. \A i \in DOMAIN letters' : i \in DOMAIN letters /\ letters'[i] = letters[i]
      BY <2>2, Trimmed
    <3>2. now' = now
      BY <2>2 DEF Sends!HandlerTrims
    <3> QED
      BY <3>1, <3>2 DEF Dates, Dated, Apart
  <2>3. CASE Sends!WriteLetters
    <3>1. letters' = Sends!Reverse(Sends!Without(replaying.list, replaying.letter)) /\ now' = now
      BY <2>3 DEF Sends!WriteLetters
    <3>2. Apart(replaying.list)
      BY DEF Dates, Dated
    <3>3. Apart(letters)' /\ \A i \in DOMAIN letters' : \E j \in DOMAIN replaying.list : letters'[i] = replaying.list[j]
      <4> DEFINE w == Sends!Reverse(Sends!Without(replaying.list, replaying.letter))
      <4>1. /\ \A i \in DOMAIN w : \E j \in DOMAIN replaying.list : w[i] = replaying.list[j]
            /\ Apart(replaying.list) => Apart(w)
        BY <1>1, WrittenBack
      <4> HIDE DEF w
      <4>2. letters' = w
        BY <3>1 DEF w
      <4> QED
        BY <3>2, <4>1, <4>2 DEF Apart
    <3> QED
      BY <3>1, <3>3 DEF Dates, Dated
  <2>4. ASSUME NEW d \in Sends!Delivery, Sends!HandlerPushes(d) PROVE Dated(letters)'
    <3>1. \A i \in DOMAIN letters : letters[i].at \in Nat /\ letters[i].at <= now
      BY <1>1, LettersHave DEF Dates, Dated
    <3>2. letters' \in Seq(Sends!Letter)
      <4>1. [of |-> d, at |-> now'] \in Sends!Letter
        BY <1>2 DEF Sends!Letter
      <4> QED
        BY <1>1, <2>4, <4>1 DEF Sends!HandlerPushes, Sends!Push
    <3>3. \A i \in DOMAIN letters' : i = 1 \/ i \in 2..(Len(letters) + 1)
      <4>1. DOMAIN letters' = 1..(Len(letters) + 1)
        BY <2>4, Pushed
      <4> QED
        BY <1>1, <4>1
    <3>4. letters'[1].at = now + 1 /\ now' = now + 1
      BY <2>4, Pushed
    <3>5. \A i \in 2..(Len(letters) + 1) : /\ i - 1 \in DOMAIN letters /\ letters'[i] = letters[i - 1]
                                           /\ letters'[i].at \in Nat /\ letters'[i].at <= now
      BY <2>4, <3>1, Pushed
    <3>6. \A i \in DOMAIN letters' : letters'[i].at <= now'
      BY <1>1, <3>3, <3>4, <3>5
    <3>7. ASSUME NEW i \in DOMAIN letters', NEW j \in DOMAIN letters', letters'[i].at = letters'[j].at
          PROVE  i = j
      <4>1. CASE i = 1 \/ j = 1
        BY <1>1, <3>3, <3>4, <3>5, <3>7, <4>1
      <4>2. CASE i \in 2..(Len(letters) + 1) /\ j \in 2..(Len(letters) + 1)
        <5>1. i - 1 = j - 1
          BY <3>5, <3>7, <4>2 DEF Dates, Dated, Apart
        <5> QED
          BY <4>2, <5>1
      <4> QED
        BY <3>3, <4>1, <4>2
    <3> QED
      BY <3>6, <3>7 DEF Dated, Apart
  <2> QED
    BY <1>0, <2>1, <2>2, <2>3, <2>4 DEF Written, Pushes
<1>4. Dated(replaying.list)'
  <2>1. replaying'.list = replaying.list \/ replaying'.list = <<>> \/ replaying'.list = letters
    <3> USE DEF Sends!console, Sends!redis, Sends!NoReplay
    <3>1. ASSUME NEW i \in DOMAIN letters, Sends!Replay(i)
          PROVE  replaying'.list = <<>>
      BY <3>1 DEF Sends!Replay
    <3>2. CASE Sends!ReadLetters
      BY <3>2 DEF Sends!ReadLetters, HooksShape, ActorTypes
    <3>3. CASE ~ \E i \in DOMAIN letters : Sends!Replay(i)
      <4>1. CASE Sends!OperatorStep
        BY <3>2, <4>1 DEF Sends!OperatorStep, Sends!OperatorSaves, Sends!FindConfig,
           Sends!AddReplay, Sends!WriteLetters, Sends!OperatorLists, Sends!OperatorLogs, Sends!OperatorFault
      <4>2. ASSUME NEW what \in {"create", "update", "delete"}, NEW h \in Hooks, NEW on \in BOOLEAN,
                   Sends!Ask(what, h, on)
            PROVE  replaying' = replaying
        BY <4>2 DEF Sends!Ask
      <4>3. CASE Sends!Crash
        BY <4>3 DEF Sends!Crash
      <4>4. CASE UNCHANGED replaying
        BY <4>4
      <4> QED
        BY <1>0, <3>3, <4>1, <4>2, <4>3, <4>4 DEF Written, Calls
    <3> QED
      BY <3>1, <3>3
  <2>2. \A list \in {replaying.list, letters} :
          Apart(list) /\ \A i \in DOMAIN list : list[i].at \in Nat /\ list[i].at <= now
    BY <1>1, LettersHave DEF Dates, Dated
  <2>3. \A list \in {replaying.list, letters} :
          Apart(list) /\ \A i \in DOMAIN list : list[i].at <= now'
    BY <1>1, <1>2, <2>2
  <2>4. CASE replaying'.list = <<>>
    BY <2>4 DEF Dated, Apart
  <2> QED
    BY <2>1, <2>3, <2>4 DEF Dated, Apart
<1> QED
  BY <1>3, <1>4 DEF Dates

LEMMA OrderHolds ==
  ASSUME HooksShape, Dates, Sends!LettersInOrder, Sends!Next
  PROVE  Sends!LettersInOrder'
<1> DEFINE Amiss == {"reversed", "fault", "crash"}
<1>0. Written
  BY WhoWrites
<1>1. letters \in Seq(Sends!Letter) /\ now \in Nat /\ trimming \in Nat /\ Cap \in Nat \ {0}
  BY FeedsAssumption DEF HooksShape, RedisTypes
<1>2. CASE Sends!Spoiled(Amiss) \/ Sends!Spoiled(Amiss)'
  BY <1>0, <1>2 DEF Written, Sends!LettersInOrder, Sends!Spoiled
<1>3. CASE ~Sends!Spoiled(Amiss) /\ ~Sends!Spoiled(Amiss)'
  <2>0. {"reversed", "fault", "crash"} \cap incidents' = {}
    BY <1>3 DEF Sends!Spoiled
  <2>1. (\A i, j \in DOMAIN letters : i < j => letters[i].at > letters[j].at) /\ Len(letters) <= Cap + trimming
    BY <1>3 DEF Sends!LettersInOrder
  <2> SUFFICES /\ \A i, j \in DOMAIN letters' : i < j => letters'[i].at > letters'[j].at
               /\ Len(letters') <= Cap + trimming'
    BY DEF Sends!LettersInOrder
  <2>2. ASSUME NEW d \in Sends!Delivery, Sends!HandlerPushes(d)
        PROVE  /\ \A i, j \in DOMAIN letters' : i < j => letters'[i].at > letters'[j].at
               /\ Len(letters') <= Cap + trimming'
    <3>1. trimming' = trimming + 1
      BY <2>2 DEF Sends!HandlerPushes
    <3>2. \A i \in DOMAIN letters : letters[i].at \in Nat /\ letters[i].at <= now
      BY <1>1, LettersHave DEF Dates, Dated
    <3>3. letters'[1].at = now + 1 /\ Len(letters') = Len(letters) + 1
      BY <2>2, Pushed
    <3>4. \A i \in 2..(Len(letters) + 1) : i - 1 \in DOMAIN letters /\ letters'[i] = letters[i - 1]
      BY <2>2, Pushed
    <3>5. ASSUME NEW i \in 1..(Len(letters) + 1), NEW j \in 1..(Len(letters) + 1), i < j
          PROVE  letters'[i].at > letters'[j].at
      <4>1. j \in 2..(Len(letters) + 1) /\ (i = 1 \/ i \in 2..(Len(letters) + 1))
        BY <1>1, <3>5
      <4>2. CASE i = 1
        BY <1>1, <3>2, <3>3, <3>4, <4>1, <4>2
      <4>3. CASE i \in 2..(Len(letters) + 1)
        <5>1. i - 1 < j - 1
          BY <3>5
        <5>2. letters[i - 1].at > letters[j - 1].at
          BY <2>1, <3>4, <4>1, <4>3, <5>1
        <5> QED
          BY <3>4, <4>1, <4>3, <5>2
      <4> QED
        BY <4>1, <4>2, <4>3
    <3>6. DOMAIN letters' = 1..(Len(letters) + 1)
      BY <2>2, Pushed
    <3> QED
      BY <1>1, <2>1, <3>1, <3>3, <3>5, <3>6
  <2>3. CASE Sends!HandlerTrims
    <3>1. trimming' \in Nat
      BY <1>1, <2>3 DEF Sends!HandlerTrims
    <3>2. Len(letters') \in Nat
      BY <1>1, <2>3, Trimmed DEF Sends!HandlerTrims
    <3>3. Len(letters') <= Cap + trimming'
      BY <1>1, <2>3, <3>1, <3>2, Trimmed
    <3> QED
      BY <2>1, <2>3, <3>3, Trimmed
  <2>4. CASE Sends!WriteLetters
    <3>1. Len(Sends!Without(replaying.list, replaying.letter)) <= 1
      BY <2>0, <2>4 DEF Sends!WriteLetters, Sends!Mark
    <3>2. letters' \in Seq(Sends!Letter) /\ Len(letters') = Len(Sends!Without(replaying.list, replaying.letter))
      BY <2>4, WrittenBack DEF Sends!WriteLetters, HooksShape, ActorTypes
    <3>3. trimming' = trimming
      BY <2>4 DEF Sends!WriteLetters, Sends!handlers
    <3>4. Len(letters') <= Cap + trimming' /\ DOMAIN letters' \subseteq {1}
      BY <1>1, <3>1, <3>2, <3>3
    <3> QED
      BY <3>4
  <2>5. CASE UNCHANGED letters
    <3>1. CASE UNCHANGED trimming
      BY <2>1, <2>5, <3>1
    <3>2. CASE Sends!TrimStep
      BY <2>0, <2>3, <3>2 DEF Sends!TrimStep, Sends!TrimFault, Sends!HandlerMishap, Sends!Mark
    <3>3. CASE Sends!Crash
      BY <2>0, <3>3 DEF Sends!Crash, Sends!Mark
    <3> QED
      BY <1>0, <2>2, <3>1, <3>2, <3>3 DEF Written, Pushes
  <2> QED
    BY <1>0, <2>2, <2>3, <2>4, <2>5 DEF Written, Pushes
<1> QED
  BY <1>2, <1>3

-----------------------------------------------------------------------------
(* Webhooks: a delivery is in one place at a time.                          *)

Token(kind, which, n) == <<kind, which, n>>

InAdding(d, s) == s = Token("adding", 0, 0) /\ d[1] \in adding[d[2]]
InQueue(d, s) == \E k \in 1..Attempts, n \in Nat : s = Token("queued", k, n) /\ n < queued[<<d, k>>]
InHand(d, s) ==
  s = Token("running", 0, 0) /\ running # Sends!NoJob /\ running[1] = d /\ posted # "good"
InHandler(d, s) ==
  \E x \in {"config", "push"}, n \in Nat : s = Token("handling", x, n) /\ n < handling[<<d, x>>]

\* A letter may yet be replayed, or the one being replayed is not yet queued.
Live(l) ==
  \/ (\E i \in DOMAIN letters : letters[i] = l)
     /\ ~(l = replaying.letter /\ pc["operator"] \in {"range", "exec"})
  \/ (\E i \in DOMAIN replaying.list : replaying.list[i] = l) /\ l # replaying.letter
  \/ l = replaying.letter /\ pc["operator"] \in {"find", "add"}
InLetters(d, s) == \E l \in Sends!Letter : s = Token("letter", l, 0) /\ l.of = d /\ Live(l)

At(d, s) == InAdding(d, s) \/ InQueue(d, s) \/ InHand(d, s) \/ InHandler(d, s) \/ InLetters(d, s)

Alone(d) ==
  /\ got[d] <= 1
  /\ \A s : At(d, s) => got[d] = 0 /\ \A t : At(d, t) => t = s
  /\ d[2] \notin announced => got[d] = 0 /\ \A s : ~At(d, s)
Lost == Sends!Spoiled({"lost", "fault", "crash"})
EachAlone == Lost \/ \A d \in Sends!Delivery : Alone(d)

\* What a step does to the places of a delivery.
Leaves(d)     == got'[d] = got[d] /\ \A s : At(d, s)' => At(d, s)
Moves(d, t, u) == got'[d] = got[d] /\ At(d, t) /\ \A s : At(d, s)' => s = u \/ (At(d, s) /\ s # t)
Arrives(d, t) == got'[d] = got[d] + 1 /\ At(d, t) /\ \A s : At(d, s)' => At(d, s) /\ s # t
Begins(d)     == /\ d[2] \notin announced /\ d[2] \in announced' /\ got'[d] = got[d]
                 /\ \A s : At(d, s)' => At(d, s) \/ s = Token("adding", 0, 0)
Steps(d) == Leaves(d) \/ Begins(d) \/ (\E t : Arrives(d, t) \/ \E u : Moves(d, t, u))

LEMMA StepsKeepAlone ==
  ASSUME NEW d \in Sends!Delivery, HooksShape, Alone(d), Steps(d), announced \subseteq announced'
  PROVE  Alone(d)'
<1>0. got[d] \in Nat
  BY DEF HooksShape, RedisTypes
<1>1. CASE Leaves(d)
  BY <1>1 DEF Leaves, Alone
<1>2. CASE Begins(d)
  BY <1>2 DEF Begins, Alone
<1>3. ASSUME NEW t, NEW u, Moves(d, t, u) PROVE Alone(d)'
  BY <1>3 DEF Moves, Alone
<1>4. ASSUME NEW t, Arrives(d, t) PROVE Alone(d)'
  BY <1>0, <1>4 DEF Arrives, Alone
<1> QED
  BY <1>1, <1>2, <1>3, <1>4 DEF Steps

\* The places that a step leaves as they were.
LEMMA PlacesStay ==
  ASSUME NEW d, NEW s
  PROVE  /\ UNCHANGED adding => (InAdding(d, s)' <=> InAdding(d, s))
         /\ UNCHANGED queued => (InQueue(d, s)' <=> InQueue(d, s))
         /\ UNCHANGED <<running, posted>> => (InHand(d, s)' <=> InHand(d, s))
         /\ UNCHANGED handling => (InHandler(d, s)' <=> InHandler(d, s))
         /\ UNCHANGED <<letters, replaying>> /\ pc'["operator"] = pc["operator"]
              => (InLetters(d, s)' <=> InLetters(d, s))
<1>1. UNCHANGED adding => (InAdding(d, s)' <=> InAdding(d, s))
  BY DEF InAdding
<1>2. UNCHANGED queued => (InQueue(d, s)' <=> InQueue(d, s))
  BY DEF InQueue
<1>3. UNCHANGED <<running, posted>> => (InHand(d, s)' <=> InHand(d, s))
  BY DEF InHand
<1>4. UNCHANGED handling => (InHandler(d, s)' <=> InHandler(d, s))
  BY DEF InHandler
<1>5. UNCHANGED <<letters, replaying>> /\ pc'["operator"] = pc["operator"]
              => (InLetters(d, s)' <=> InLetters(d, s))
  BY DEF InLetters, Live
<1> QED
  BY <1>1, <1>2, <1>3, <1>4, <1>5

\* The kinds of places.
LEMMA Kinds ==
  ASSUME NEW d, NEW s
  PROVE  /\ InAdding(d, s) => s[1] = "adding"
         /\ InQueue(d, s) => s[1] = "queued"
         /\ InHand(d, s) => s[1] = "running"
         /\ InHandler(d, s) => s[1] = "handling"
         /\ InLetters(d, s) => s[1] = "letter"
<1>0. \A kind, which, n : Token(kind, which, n)[1] = kind
  BY DEF Token
<1>1. InAdding(d, s) => s[1] = "adding"
  BY <1>0 DEF InAdding
<1>2. InQueue(d, s) => s[1] = "queued"
  BY <1>0 DEF InQueue
<1>3. InHand(d, s) => s[1] = "running"
  BY <1>0 DEF InHand
<1>4. InHandler(d, s) => s[1] = "handling"
  BY <1>0 DEF InHandler
<1>5. InLetters(d, s) => s[1] = "letter"
  BY <1>0 DEF InLetters
<1> QED
  BY <1>1, <1>2, <1>3, <1>4, <1>5

\* One more or one less of a job, or of a handler.
LEMMA OneMoreJob ==
  ASSUME HooksShape, NEW d \in Sends!Delivery, NEW k \in 1..Attempts,
         queued' = [queued EXCEPT ![<<d, k>>] = @ + 1]
  PROVE  /\ \A s : InQueue(d, s)' => InQueue(d, s) \/ s = Token("queued", k, queued[<<d, k>>])
         /\ \A e \in Sends!Delivery : e # d => \A s : InQueue(e, s)' => InQueue(e, s)
<1>1. queued \in [Sends!Job -> Nat] /\ \A e \in Sends!Delivery, n \in 1..Attempts : <<e, n>> \in Sends!Job
  BY DEF HooksShape, RedisTypes, Sends!Job
<1>2. \A e \in Sends!Delivery, n \in 1..Attempts :
        queued'[<<e, n>>] = IF e = d /\ n = k THEN queued[<<e, n>>] + 1 ELSE queued[<<e, n>>]
  BY <1>1
<1>3. ASSUME NEW s, InQueue(d, s)' PROVE InQueue(d, s) \/ s = Token("queued", k, queued[<<d, k>>])
  <2>1. PICK m \in 1..Attempts, n \in Nat : s = Token("queued", m, n) /\ n < queued'[<<d, m>>]
    BY <1>3 DEF InQueue
  <2>2. CASE m = k
    <3>1. n < queued[<<d, k>>] \/ n = queued[<<d, k>>]
      BY <1>1, <1>2, <2>1, <2>2
    <3> QED
      BY <2>1, <2>2, <3>1 DEF InQueue
  <2>3. CASE m # k
    BY <1>2, <2>1, <2>3 DEF InQueue
  <2> QED
    BY <2>2, <2>3
<1>4. ASSUME NEW e \in Sends!Delivery, e # d, NEW s, InQueue(e, s)' PROVE InQueue(e, s)
  BY <1>2, <1>4 DEF InQueue
<1> QED
  BY <1>3, <1>4

LEMMA OneJobLess ==
  ASSUME HooksShape, NEW d \in Sends!Delivery, NEW k \in 1..Attempts, queued[<<d, k>>] > 0,
         queued' = [queued EXCEPT ![<<d, k>>] = @ - 1]
  PROVE  /\ InQueue(d, Token("queued", k, queued[<<d, k>>] - 1))
         /\ \A s : InQueue(d, s)' => InQueue(d, s) /\ s # Token("queued", k, queued[<<d, k>>] - 1)
         /\ \A e \in Sends!Delivery : e # d => \A s : InQueue(e, s)' => InQueue(e, s)
<1>1. queued \in [Sends!Job -> Nat] /\ \A e \in Sends!Delivery, n \in 1..Attempts : <<e, n>> \in Sends!Job
  BY DEF HooksShape, RedisTypes, Sends!Job
<1>2. \A e \in Sends!Delivery, n \in 1..Attempts :
        queued'[<<e, n>>] = IF e = d /\ n = k THEN queued[<<e, n>>] - 1 ELSE queued[<<e, n>>]
  BY <1>1
<1>3. ASSUME NEW s, InQueue(d, s)'
      PROVE  InQueue(d, s) /\ s # Token("queued", k, queued[<<d, k>>] - 1)
  <2>1. PICK m \in 1..Attempts, n \in Nat : s = Token("queued", m, n) /\ n < queued'[<<d, m>>]
    BY <1>3 DEF InQueue
  <2>2. CASE m = k
    <3>1. queued[<<d, k>>] \in Nat
      BY <1>1
    <3>2. n < queued[<<d, k>>] /\ n # queued[<<d, k>>] - 1
      BY <1>1, <1>2, <2>1, <2>2, <3>1
    <3> QED
      BY <2>1, <2>2, <3>2 DEF InQueue, Token
  <2>3. CASE m # k
    BY <1>2, <2>1, <2>3 DEF InQueue, Token
  <2> QED
    BY <2>2, <2>3
<1>4. ASSUME NEW e \in Sends!Delivery, e # d, NEW s, InQueue(e, s)' PROVE InQueue(e, s)
  BY <1>2, <1>4 DEF InQueue
<1>5. InQueue(d, Token("queued", k, queued[<<d, k>>] - 1))
  <2>1. queued[<<d, k>>] \in Nat
    BY <1>1
  <2>2. queued[<<d, k>>] - 1 \in Nat /\ queued[<<d, k>>] - 1 < queued[<<d, k>>]
    BY <2>1
  <2> QED
    BY <2>2 DEF InQueue
<1> QED
  BY <1>3, <1>4, <1>5

LEMMA WriterSteps ==
  ASSUME HooksShape, NEW d \in Sends!Delivery, NEW c \in Changes,
         Sends!Announce(c) \/ \E h \in Hooks : Sends!Enqueue(c, h)
  PROVE  Steps(d)
<1> USE DEF Sends!redis, Sends!worker, Sends!handlers, Sends!console, Sends!past
<1>0. adding \in [Changes -> SUBSET Hooks] /\ d[1] \in Hooks /\ d[2] \in Changes /\ d = <<d[1], d[2]>>
  BY DEF HooksShape, RedisTypes, Sends!Delivery
<1>1. UNCHANGED <<running, posted, handling, letters, replaying, pc, got>>
  BY DEF Sends!Announce, Sends!Enqueue
<1>2. CASE Sends!Announce(c)
  <2>1. UNCHANGED queued /\ c \notin announced /\ announced' = announced \cup {c}
    BY <1>2 DEF Sends!Announce
  <2>2. \A s : At(d, s)' => At(d, s) \/ InAdding(d, s)'
    BY <1>1, <2>1, PlacesStay DEF At
  <2>3. CASE d[2] = c
    BY <1>1, <2>1, <2>2, <2>3 DEF Steps, Begins, InAdding
  <2>4. CASE d[2] # c
    <3>1. \A s : InAdding(d, s)' => InAdding(d, s)
      BY <1>0, <1>2, <2>4 DEF Sends!Announce, InAdding
    <3> QED
      BY <1>1, <2>2, <3>1 DEF Steps, Leaves, At
  <2> QED
    BY <2>3, <2>4
<1>3. ASSUME NEW h \in Hooks, Sends!Enqueue(c, h) PROVE Steps(d)
  <2>1. /\ h \in adding[c] /\ adding' = [adding EXCEPT ![c] = @ \ {h}]
        /\ queued' = [queued EXCEPT ![<<<<h, c>>, Attempts>>] = @ + 1]
    BY <1>3 DEF Sends!Enqueue
  <2>2. \A s : At(d, s)' => At(d, s) \/ InAdding(d, s)' \/ InQueue(d, s)'
    BY <1>1, PlacesStay DEF At
  <2>3. <<h, c>> \in Sends!Delivery /\ Attempts \in 1..Attempts
    BY FeedsAssumption DEF Sends!Delivery
  <2>4. \A s : InAdding(d, s)' => InAdding(d, s) /\ d # <<h, c>>
    BY <1>0, <2>1 DEF InAdding
  <2>5. CASE d = <<h, c>>
    <3> DEFINE t == Token("adding", 0, 0)
               u == Token("queued", Attempts, queued[<<d, Attempts>>])
    <3>1. \A s : InQueue(d, s)' => InQueue(d, s) \/ s = u
      BY <2>1, <2>3, <2>5, OneMoreJob
    <3>2. At(d, t)
      BY <1>0, <2>1, <2>5 DEF At, InAdding
    <3>3. \A s : ~InAdding(d, s)'
      BY <2>4, <2>5
    <3>4. \A s : InQueue(d, s) \/ InHand(d, s) \/ InHandler(d, s) \/ InLetters(d, s) => s # t
      BY Kinds DEF Token
    <3>5. \A s : At(d, s)' => s = u \/ (At(d, s) /\ s # t)
      BY <1>1, <3>1, <3>3, <3>4, PlacesStay DEF At
    <3> QED
      BY <1>1, <3>2, <3>5 DEF Steps, Moves
  <2>6. CASE d # <<h, c>>
    <3>1. \A s : InQueue(d, s)' => InQueue(d, s)
      BY <2>1, <2>3, <2>6, OneMoreJob
    <3> QED
      BY <1>1, <2>2, <2>4, <3>1 DEF Steps, Leaves, At
  <2> QED
    BY <2>5, <2>6
<1> QED
  BY <1>2, <1>3

\* A delivery ends: it is dropped, or tried again, or its handler begins.
LEMMA FinishSteps ==
  ASSUME HooksShape, AtWork, NEW d \in Sends!Delivery, pc["worker"] # "idle",
         NEW threw \in BOOLEAN, Sends!Finish(threw), threw => posted # "good",
         UNCHANGED <<adding, letters, replaying, got>>, pc'["operator"] = pc["operator"]
  PROVE  Steps(d)
<1> DEFINE e == running[1]
           k == running[2]
<1>0. /\ running \in Sends!Job /\ e \in Sends!Delivery /\ k \in 1..Attempts /\ running # Sends!NoJob
      /\ running' = Sends!NoJob
  BY JobInHand DEF AtWork, HooksShape, Sends!Finish
<1>1. \A s : ~InHand(d, s)'
  BY <1>0 DEF InHand
<1>2. \A s : At(d, s)' => InAdding(d, s) \/ InLetters(d, s) \/ InQueue(d, s)' \/ InHandler(d, s)'
  BY <1>1, PlacesStay DEF At
<1>3. \A s : InAdding(d, s) \/ InQueue(d, s) \/ InHandler(d, s) \/ InLetters(d, s)
               => At(d, s) /\ s # Token("running", 0, 0)
  BY Kinds DEF Token, At
<1>4. CASE ~threw
  <2>1. UNCHANGED <<queued, handling>>
    BY <1>4 DEF Sends!Finish
  <2> QED
    BY <1>2, <1>3, <2>1, PlacesStay DEF Steps, Leaves
<1>5. CASE threw /\ k > 1
  <2>1. queued' = [queued EXCEPT ![<<e, k - 1>>] = @ + 1] /\ UNCHANGED handling
    BY <1>0, <1>5 DEF Sends!Finish
  <2>2. k - 1 \in 1..Attempts
    BY <1>0, <1>5, FeedsAssumption
  <2> DEFINE u == Token("queued", k - 1, queued[<<e, k - 1>>])
  <2>3. CASE d = e
    <3>1. At(d, Token("running", 0, 0))
      BY <1>0, <1>5, <2>3 DEF At, InHand
    <3> HIDE DEF e, k
    <3>2. \A s : InQueue(d, s)' => InQueue(d, s) \/ s = u
      BY <1>0, <2>1, <2>2, <2>3, OneMoreJob
    <3>3. \A s : InHandler(d, s)' => InHandler(d, s)
      BY <2>1, PlacesStay
    <3>4. \A s : At(d, s)' => s = u \/ (At(d, s) /\ s # Token("running", 0, 0))
      BY <1>2, <1>3, <3>2, <3>3
    <3> QED
      BY <3>1, <3>4 DEF Steps, Moves
  <2>4. CASE d # e
    <3> HIDE DEF e, k
    <3>1. \A s : InQueue(d, s)' => InQueue(d, s)
      BY <1>0, <2>1, <2>2, <2>4, OneMoreJob
    <3>2. \A s : InHandler(d, s)' => InHandler(d, s)
      BY <2>1, PlacesStay
    <3> QED
      BY <1>2, <1>3, <3>1, <3>2 DEF Steps, Leaves
  <2> QED
    BY <2>3, <2>4
<1>6. CASE threw /\ k = 1
  <2>1. handling' = [handling EXCEPT ![<<e, "config">>] = @ + 1] /\ UNCHANGED queued
    BY <1>0, <1>6 DEF Sends!Finish
  <2>2. \A s : InQueue(d, s)' => InQueue(d, s)
    BY <2>1, PlacesStay
  <2>3. handling \in [Sends!Handler -> Nat]
    BY DEF HooksShape, RedisTypes
  <2>4. \A f \in Sends!Delivery, x \in {"config", "push"} : <<f, x>> \in Sends!Handler
    BY DEF Sends!Handler
  <2> DEFINE u == Token("handling", "config", handling[<<e, "config">>])
  <2> HIDE DEF e, k
  <2>5. \A x \in {"config", "push"} :
          handling'[<<d, x>>] = IF d = e /\ x = "config" THEN handling[<<d, x>>] + 1 ELSE handling[<<d, x>>]
    BY <1>0, <2>1, <2>3, <2>4
  <2>6. ASSUME NEW s, InHandler(d, s)' PROVE InHandler(d, s) \/ (d = e /\ s = u)
    <3>1. PICK x \in {"config", "push"}, n \in Nat : s = Token("handling", x, n) /\ n < handling'[<<d, x>>]
      BY <2>6 DEF InHandler
    <3>2. handling[<<d, x>>] \in Nat
      BY <2>3, <2>4
    <3>3. n < handling[<<d, x>>] \/ (d = e /\ x = "config" /\ n = handling[<<d, x>>])
      BY <2>5, <3>1, <3>2
    <3> QED
      BY <3>1, <3>3 DEF InHandler
  <2>7. CASE d = e
    <3>1. At(d, Token("running", 0, 0))
      BY <1>0, <1>6, <2>7 DEF At, InHand, e
    <3>2. \A s : At(d, s)' => s = u \/ (At(d, s) /\ s # Token("running", 0, 0))
      BY <1>2, <1>3, <2>2, <2>6
    <3> QED
      BY <3>1, <3>2 DEF Steps, Moves
  <2>8. CASE d # e
    BY <1>2, <1>3, <2>2, <2>6, <2>8 DEF Steps, Leaves
  <2> QED
    BY <2>7, <2>8
<1> QED
  BY <1>0, <1>4, <1>5, <1>6

LEMMA WorkerSteps ==
  ASSUME HooksShape, AtWork, NEW d \in Sends!Delivery, Sends!WorkerStep, ~Lost'
  PROVE  Steps(d)
<1> USE DEF Sends!redis, Sends!worker, Sends!handlers, Sends!console, Sends!emitters, Sends!past
<1>0. pc'["operator"] = pc["operator"] /\ UNCHANGED <<adding, letters, replaying>>
  <2>1. \A l : Sends!Goto("worker", l) => pc'["operator"] = pc["operator"]
    BY DEF Sends!Goto, HooksShape, ActorTypes, Sends!Actors
  <2> QED
    BY <2>1 DEF Sends!WorkerStep, Sends!Take, Sends!GetConfig, Sends!Post, Sends!PostLost, Sends!WorkerLists,
       Sends!ListConfigs, Sends!WorkerSaves, Sends!WorkerLogs, Sends!WorkerFault, Sends!Finish
<1>1. ASSUME NEW j \in Sends!Job, Sends!Take(j) PROVE Steps(d)
  <2> DEFINE e == j[1]
             k == j[2]
             t == Token("queued", k, queued[<<e, k>>] - 1)
  <2>1. /\ queued[j] > 0 /\ queued' = [queued EXCEPT ![j] = @ - 1] /\ running' = j
        /\ UNCHANGED <<handling, got, posted>> /\ running = Sends!NoJob
    BY <1>1 DEF Sends!Take, AtWork
  <2>2. e \in Sends!Delivery /\ k \in 1..Attempts /\ j = <<e, k>>
    BY DEF Sends!Job
  <2>3. \A s : At(d, s)' => InAdding(d, s) \/ InQueue(d, s)' \/ InHand(d, s)' \/ InHandler(d, s) \/ InLetters(d, s)
    BY <1>0, <2>1, PlacesStay DEF At
  <2>4. \A s : InAdding(d, s) \/ InHandler(d, s) \/ InLetters(d, s) => At(d, s) /\ s # t
    BY Kinds DEF Token, At
  <2>5. \A s : InHand(d, s)' => s = Token("running", 0, 0) /\ d = e
    BY <2>1 DEF InHand
  <2>6. queued[<<e, k>>] > 0 /\ queued' = [queued EXCEPT ![<<e, k>>] = @ - 1]
    BY <2>1, <2>2
  <2> HIDE DEF e, k
  <2>7. /\ InQueue(e, t) /\ \A s : InQueue(e, s)' => InQueue(e, s) /\ s # t
        /\ \A f \in Sends!Delivery : f # e => \A s : InQueue(f, s)' => InQueue(f, s)
    BY <2>2, <2>6, OneJobLess
  <2> HIDE DEF t
  <2>8. CASE d = e
    <3>1. At(d, t)
      BY <2>7, <2>8 DEF At
    <3>2. \A s : At(d, s)' => s = Token("running", 0, 0) \/ (At(d, s) /\ s # t)
      BY <2>3, <2>4, <2>5, <2>7, <2>8 DEF At
    <3> QED
      BY <2>1, <3>1, <3>2 DEF Steps, Moves
  <2>9. CASE d # e
    BY <2>1, <2>3, <2>5, <2>7, <2>9 DEF Steps, Leaves, At
  <2> QED
    BY <2>8, <2>9
<1>2. CASE Sends!GetConfig
  <2>1. CASE Sends!Finish(FALSE)
    BY <1>0, <1>2, <2>1, FinishSteps DEF Sends!GetConfig
  <2>2. CASE UNCHANGED <<queued, running, posted, handling>>
    BY <1>0, <1>2, <2>2, PlacesStay DEF Sends!GetConfig, Steps, Leaves, At
  <2> QED
    BY <1>2, <2>1, <2>2 DEF Sends!GetConfig
<1>3. ASSUME NEW result \in {"good", "bad"}, Sends!Post(result) PROVE Steps(d)
  <2>1. /\ UNCHANGED <<queued, running, handling>> /\ posted' = result /\ posted # "good"
        /\ got' = IF result = "good" THEN [got EXCEPT ![running[1]] = @ + 1] ELSE got
        /\ running[1] \in Sends!Delivery /\ running # Sends!NoJob
    BY <1>3, JobInHand DEF Sends!Post, AtWork, HooksShape
  <2>2. got \in [Sends!Delivery -> Nat]
    BY DEF HooksShape, RedisTypes
  <2>3. \A s : At(d, s)' => InAdding(d, s) \/ InQueue(d, s) \/ InHand(d, s)' \/ InHandler(d, s) \/ InLetters(d, s)
    BY <1>0, <2>1, PlacesStay DEF At
  <2>4. \A s : InHand(d, s)' => InHand(d, s) /\ result # "good"
    BY <2>1 DEF InHand
  <2>5. CASE result = "good" /\ d = running[1]
    <3>1. got'[d] = got[d] + 1
      BY <2>1, <2>2, <2>5
    <3>2. At(d, Token("running", 0, 0))
      BY <2>1, <2>5 DEF At, InHand
    <3>3. \A s : InAdding(d, s) \/ InQueue(d, s) \/ InHandler(d, s) \/ InLetters(d, s)
                   => At(d, s) /\ s # Token("running", 0, 0)
      BY Kinds DEF Token, At
    <3> QED
      BY <2>3, <2>4, <2>5, <3>1, <3>2, <3>3 DEF Steps, Arrives
  <2>6. CASE ~(result = "good" /\ d = running[1])
    <3>1. got'[d] = got[d]
      BY <2>1, <2>2, <2>6
    <3> QED
      BY <2>3, <2>4, <3>1 DEF Steps, Leaves, At
  <2> QED
    BY <2>5, <2>6
<1>4. CASE Sends!WorkerLists \/ Sends!WorkerSaves
  BY <1>0, <1>4, PlacesStay DEF Sends!WorkerLists, Sends!WorkerSaves, Steps, Leaves, At
<1>5. CASE Sends!WorkerLogs
  BY <1>0, <1>5, FinishSteps DEF Sends!WorkerLogs
<1>6. ~Sends!PostLost /\ ~Sends!WorkerFault
  BY DEF Sends!PostLost, Sends!WorkerFault, Sends!Mark, Lost, Sends!Spoiled
<1> QED
  BY <1>1, <1>2, <1>3, <1>4, <1>5, <1>6, Zenon DEF Sends!WorkerStep

LEMMA HandlerSteps ==
  ASSUME HooksShape, Dates, NEW d \in Sends!Delivery, NEW e \in Sends!Delivery, Sends!HandlerStep(e), ~Lost'
  PROVE  Steps(d)
<1> USE DEF Sends!redis, Sends!worker, Sends!console, Sends!emitters
<1>0. UNCHANGED <<adding, queued, running, posted, replaying, pc, got>>
  BY DEF Sends!HandlerStep, Sends!HandlerGets, Sends!HandlerPushes, Sends!HandlerFault, Sends!HandlerMishap, Sends!past
<1>1. \A s : At(d, s)' => InAdding(d, s) \/ InQueue(d, s) \/ InHand(d, s) \/ InHandler(d, s)' \/ InLetters(d, s)'
  BY <1>0, PlacesStay DEF At
<1>2. handling \in [Sends!Handler -> Nat] /\ letters \in Seq(Sends!Letter) /\ now \in Nat
  BY DEF HooksShape, RedisTypes
<1>3. \A f \in Sends!Delivery, x \in {"config", "push"} : <<f, x>> \in Sends!Handler
  BY DEF Sends!Handler
<1>4. \A from \in {"config", "push"} : LET t == Token("handling", from, handling[<<e, from>>] - 1)
        IN \A s : InAdding(d, s) \/ InQueue(d, s) \/ InHand(d, s) \/ InLetters(d, s) => At(d, s) /\ s # t
  BY Kinds DEF Token, At
<1>5. CASE Sends!HandlerGets(e)
  <2> DEFINE t == Token("handling", "config", handling[<<e, "config">>] - 1)
             u == Token("handling", "push", handling[<<e, "push">>])
             less == [handling EXCEPT ![<<e, "config">>] = @ - 1]
  <2>1. UNCHANGED letters /\ handling[<<e, "config">>] > 0
        /\ (handling' = less \/ handling' = [less EXCEPT ![<<e, "push">>] = @ + 1])
    BY <1>5 DEF Sends!HandlerGets, Sends!End
  <2>2. handling[<<e, "config">>] \in Nat /\ handling[<<e, "push">>] \in Nat
    BY <1>2, <1>3
  <2>3. \A f \in Sends!Delivery, x \in {"config", "push"} :
          less[<<f, x>>] = IF f = e /\ x = "config" THEN handling[<<f, x>>] - 1 ELSE handling[<<f, x>>]
    BY <1>2, <1>3
  <2>4. DOMAIN less = Sends!Handler
    BY <1>2
  <2> HIDE DEF less
  <2>5. \A f \in Sends!Delivery, x \in {"config", "push"} :
          handling'[<<f, x>>] = less[<<f, x>>] \/ (f = e /\ x = "push" /\ handling'[<<f, x>>] = less[<<f, x>>] + 1)
    BY <2>1, <2>4, <1>3
  <2>6. \A s : InLetters(d, s)' => InLetters(d, s)
    BY <1>0, <2>1, PlacesStay
  <2>7. ASSUME NEW s, InHandler(d, s)' PROVE (InHandler(d, s) /\ (d = e => s # t)) \/ (d = e /\ s = u)
    <3>1. PICK x \in {"config", "push"}, n \in Nat : s = Token("handling", x, n) /\ n < handling'[<<d, x>>]
      BY <2>7 DEF InHandler
    <3>2. handling[<<d, x>>] \in Nat
      BY <1>2, <1>3
    <3>3. CASE d = e /\ x = "config"
      <4>1. n < handling[<<d, x>>] - 1
        BY <2>3, <2>5, <3>1, <3>3
      <4>2. n < handling[<<d, x>>] /\ n # handling[<<d, x>>] - 1
        BY <3>2, <4>1
      <4> QED
        BY <3>1, <3>3, <4>2 DEF InHandler, Token
    <3>4. CASE d = e /\ x = "push"
      <4>3. handling'[<<d, x>>] = handling[<<d, x>>] \/ handling'[<<d, x>>] = handling[<<d, x>>] + 1
        BY <2>3, <2>5, <3>1, <3>4
      <4>1. n < handling[<<d, x>>] \/ n = handling[<<d, x>>]
        BY <3>1, <3>2, <4>3
      <4>2. s # t
        BY <3>1, <3>4 DEF Token
      <4> QED
        BY <3>1, <3>4, <4>1, <4>2 DEF InHandler
    <3>5. CASE d # e
      BY <2>3, <2>5, <3>1, <3>5 DEF InHandler
    <3> QED
      BY <3>3, <3>4, <3>5
  <2>8. CASE d = e
    <3>1. At(d, t)
      <4>1. handling[<<e, "config">>] - 1 \in Nat /\ handling[<<e, "config">>] - 1 < handling[<<e, "config">>]
        BY <2>1, <2>2
      <4> QED
        BY <2>8, <4>1 DEF At, InHandler
    <3>2. \A s : At(d, s)' => s = u \/ (At(d, s) /\ s # t)
      BY <1>1, <1>4, <2>6, <2>7, <2>8 DEF At
    <3> QED
      BY <1>0, <3>1, <3>2 DEF Steps, Moves
  <2>9. CASE d # e
    BY <1>0, <1>1, <2>6, <2>7, <2>9 DEF Steps, Leaves, At
  <2> QED
    BY <2>8, <2>9
<1>6. CASE Sends!HandlerPushes(e)
  <2> DEFINE l == [of |-> e, at |-> now + 1]
             t == Token("handling", "push", handling[<<e, "push">>] - 1)
             u == Token("letter", l, 0)
  <2>1. handling[<<e, "push">>] > 0 /\ handling' = [handling EXCEPT ![<<e, "push">>] = @ - 1]
    BY <1>6 DEF Sends!HandlerPushes, Sends!End
  <2>2. handling[<<e, "push">>] \in Nat
    BY <1>2, <1>3
  <2>3. \A f \in Sends!Delivery, x \in {"config", "push"} :
          handling'[<<f, x>>] = IF f = e /\ x = "push" THEN handling[<<f, x>>] - 1 ELSE handling[<<f, x>>]
    BY <1>2, <1>3, <2>1
  <2>4. ASSUME NEW s, InHandler(d, s)' PROVE InHandler(d, s) /\ (d = e => s # t)
    <3>1. PICK x \in {"config", "push"}, n \in Nat : s = Token("handling", x, n) /\ n < handling'[<<d, x>>]
      BY <2>4 DEF InHandler
    <3>2. handling[<<d, x>>] \in Nat
      BY <1>2, <1>3
    <3>3. CASE d = e /\ x = "push"
      <4>1. handling'[<<d, x>>] = handling[<<d, x>>] - 1
        BY <2>3, <3>1, <3>3
      <4>2. n < handling[<<d, x>>] /\ n # handling[<<d, x>>] - 1
        BY <3>1, <3>2, <4>1
      <4> QED
        BY <3>1, <3>3, <4>2 DEF InHandler, Token
    <3>4. CASE ~(d = e /\ x = "push")
      <4>1. handling'[<<d, x>>] = handling[<<d, x>>]
        BY <2>3, <3>1, <3>4
      <4> QED
        BY <3>1, <3>4, <4>1 DEF InHandler, Token
    <3> QED
      BY <3>3, <3>4
  <2>5. ASSUME NEW s, InLetters(d, s)' PROVE InLetters(d, s) \/ (d = e /\ s = u)
    <3>1. PICK m \in Sends!Letter : s = Token("letter", m, 0) /\ m.of = d /\ Live(m)'
      BY <2>5 DEF InLetters
    <3>2. \A i \in DOMAIN letters' : letters'[i] = l \/ \E j \in DOMAIN letters : letters'[i] = letters[j]
      <4>1. \A i \in DOMAIN letters' : i = 1 \/ i \in 2..(Len(letters) + 1)
        <5>1. DOMAIN letters' = 1..(Len(letters) + 1)
          BY <1>6, Pushed
        <5> QED
          BY <1>2, <5>1
      <4>2. letters'[1] = l
        BY <1>6, Pushed
      <4>3. \A i \in 2..(Len(letters) + 1) : i - 1 \in DOMAIN letters /\ letters'[i] = letters[i - 1]
        BY <1>6, Pushed
      <4> QED
        BY <4>1, <4>2, <4>3
    <3>3. Live(m) \/ m = l
      BY <1>0, <3>1, <3>2 DEF Live
    <3> QED
      BY <3>1, <3>3 DEF InLetters
  <2>6. CASE d = e
    <3>1. At(d, t)
      <4>1. handling[<<e, "push">>] - 1 \in Nat /\ handling[<<e, "push">>] - 1 < handling[<<e, "push">>]
        BY <2>1, <2>2
      <4> QED
        BY <2>6, <4>1 DEF At, InHandler
    <3>2. \A s : At(d, s)' => s = u \/ (At(d, s) /\ s # t)
      BY <1>1, <1>4, <2>4, <2>5, <2>6 DEF At
    <3> QED
      BY <1>0, <3>1, <3>2 DEF Steps, Moves
  <2>7. CASE d # e
    BY <1>0, <1>1, <2>4, <2>5, <2>7 DEF Steps, Leaves, At
  <2> QED
    BY <2>6, <2>7
<1>7. ~Sends!HandlerFault(e)
  BY DEF Sends!HandlerFault, Sends!HandlerMishap, Sends!Mark, Lost, Sends!Spoiled
<1> QED
  BY <1>5, <1>6, <1>7 DEF Sends!HandlerStep

LEMMA TrimSteps ==
  ASSUME HooksShape, NEW d \in Sends!Delivery, Sends!TrimStep, ~Lost'
  PROVE  Steps(d)
<1> USE DEF Sends!redis, Sends!worker, Sends!console, Sends!emitters
<1>0. Sends!HandlerTrims
  BY DEF Sends!TrimStep, Sends!TrimFault, Sends!HandlerMishap, Sends!Mark, Lost, Sends!Spoiled
<1>1. UNCHANGED <<adding, queued, running, posted, handling, replaying, pc, got>>
  BY <1>0 DEF Sends!HandlerTrims
<1>2. \A i \in DOMAIN letters' : i \in DOMAIN letters /\ letters'[i] = letters[i]
  BY <1>0, Trimmed
<1>3. \A s : InLetters(d, s)' => InLetters(d, s)
  BY <1>1, <1>2 DEF InLetters, Live
<1> QED
  BY <1>1, <1>3, PlacesStay DEF Steps, Leaves, At

LEMMA OperatorSteps ==
  ASSUME HooksShape, OnCall, Dates, NEW d \in Sends!Delivery, Calls, ~Lost'
  PROVE  Steps(d)
<1> USE DEF Sends!redis, Sends!worker, Sends!handlers, Sends!console, Sends!emitters, Sends!past, Sends!NoReplay
<1>0. UNCHANGED <<adding, running, posted, handling, got>>
  BY DEF Calls, Sends!Ask, Sends!Replay, Sends!OperatorStep, Sends!OperatorSaves, Sends!FindConfig,
     Sends!AddReplay, Sends!ReadLetters, Sends!WriteLetters, Sends!OperatorLists, Sends!OperatorLogs,
     Sends!OperatorFault
<1>1. \A s : At(d, s)' => InAdding(d, s) \/ InQueue(d, s)' \/ InHand(d, s) \/ InHandler(d, s) \/ InLetters(d, s)'
  BY <1>0, PlacesStay DEF At
<1>2. letters \in Seq(Sends!Letter) /\ replaying.list \in Seq(Sends!Letter)
      /\ replaying.letter \in Sends!Letter \cup {Sends!NoLetter}
      /\ replaying = [letter |-> replaying.letter, list |-> replaying.list]
  BY DEF HooksShape, RedisTypes, ActorTypes
<1>3. \A m \in Sends!Letter : m # Sends!NoLetter
  BY DEF Sends!Letter, Sends!NoLetter, Sends!Delivery
<1>a. ASSUME UNCHANGED queued, \A l \in Sends!Letter : Live(l)' => Live(l) PROVE Steps(d)
  <2>1. \A s : InLetters(d, s)' => InLetters(d, s)
    BY <1>a DEF InLetters
  <2> QED
    BY <1>0, <1>1, <1>a, <2>1, PlacesStay DEF Steps, Leaves, At
<1>4. ASSUME NEW what \in {"create", "update", "delete"}, NEW h \in Hooks, NEW on \in BOOLEAN,
             Sends!Ask(what, h, on)
      PROVE  Steps(d)
  <2>1. pc["operator"] = "idle" /\ pc'["operator"] = "save" /\ UNCHANGED <<queued, letters, replaying>>
    BY <1>4, OperatorGoes DEF Sends!Ask, Sends!OperatorIdle, OperatorPlaces, HooksShape
  <2> QED
    BY <1>a, <2>1 DEF Live
<1>5. ASSUME NEW i \in DOMAIN letters, Sends!Replay(i) PROVE Steps(d)
  <2>1. /\ pc["operator"] = "idle" /\ pc'["operator"] = "find" /\ UNCHANGED <<queued, letters>>
        /\ replaying'.letter = letters[i] /\ replaying'.list = <<>>
    BY <1>5, OperatorGoes DEF Sends!Replay, Sends!OperatorIdle, OperatorPlaces, HooksShape
  <2>2. \A l \in Sends!Letter : Live(l)' => Live(l)
    BY <2>1 DEF Live
  <2> QED
    BY <1>a, <2>1, <2>2
<1>6. CASE Sends!OperatorSaves \/ Sends!OperatorLists \/ Sends!OperatorLogs
  <2>1. /\ pc["operator"] \in {"save", "list", "log"} /\ pc'["operator"] \in {"idle", "save", "log"}
        /\ UNCHANGED <<queued, letters, replaying>>
    BY <1>6, OperatorGoes DEF Sends!OperatorSaves, Sends!OperatorLists, Sends!ListConfigs, Sends!OperatorLogs,
       OperatorPlaces, HooksShape
  <2>2. \A l \in Sends!Letter : Live(l)' => Live(l)
    BY <2>1 DEF Live
  <2> QED
    BY <1>a, <2>1, <2>2
<1>7. CASE Sends!FindConfig
  <2>1. pc["operator"] = "find" /\ UNCHANGED <<queued, letters>>
    BY <1>7 DEF Sends!FindConfig
  <2>2. \/ pc'["operator"] = "idle" /\ replaying'.list = <<>> /\ replaying'.letter = Sends!NoLetter
        \/ pc'["operator"] = "add" /\ UNCHANGED replaying
    BY <1>7, OperatorGoes DEF Sends!FindConfig, OperatorPlaces, HooksShape
  <2>3. \A l \in Sends!Letter : Live(l)' => Live(l)
    BY <2>1, <2>2 DEF Live
  <2> QED
    BY <1>a, <2>1, <2>3
<1>8. CASE Sends!AddReplay
  <2> DEFINE l == replaying.letter
             e == l.of
             t == Token("letter", l, 0)
             u == Token("queued", 1, queued[<<e, 1>>])
  <2>1. /\ pc["operator"] = "add" /\ pc'["operator"] = "range" /\ UNCHANGED <<letters, replaying>>
        /\ queued' = [queued EXCEPT ![<<e, 1>>] = @ + 1]
    BY <1>8, OperatorGoes DEF Sends!AddReplay, OperatorPlaces, HooksShape
  <2>2. l \in Sends!Letter /\ e \in Sends!Delivery /\ 1 \in 1..Attempts
    <3>1. l \in Sends!Letter
      BY <1>2, <2>1 DEF OnCall
    <3> QED
      BY <3>1, FeedsAssumption DEF Sends!Letter
  <2>3. \A m \in Sends!Letter : Live(m)' => Live(m) /\ m # l
    BY <2>1 DEF Live
  <2>4. \A s : InLetters(d, s)' => InLetters(d, s) /\ s # t
    BY <2>3 DEF InLetters, Token
  <2>5. \A s : InAdding(d, s) \/ InQueue(d, s) \/ InHand(d, s) \/ InHandler(d, s) => At(d, s) /\ s # t
    BY Kinds DEF Token, At
  <2>6. At(e, t)
    BY <2>1, <2>2 DEF At, InLetters, Live
  <2> HIDE DEF e, t
  <2>7. CASE d = e
    <3>1. \A s : InQueue(d, s)' => InQueue(d, s) \/ s = u
      BY <2>1, <2>2, <2>7, OneMoreJob
    <3>2. \A s : At(d, s)' => s = u \/ (At(d, s) /\ s # t)
      BY <1>1, <2>4, <2>5, <3>1 DEF At
    <3> QED
      BY <1>0, <2>6, <2>7, <3>2 DEF Steps, Moves
  <2>8. CASE d # e
    <3>1. \A s : InQueue(d, s)' => InQueue(d, s)
      BY <2>1, <2>2, <2>8, OneMoreJob
    <3> QED
      BY <1>0, <1>1, <2>4, <3>1 DEF Steps, Leaves, At
  <2> QED
    BY <2>7, <2>8
<1>9. CASE Sends!ReadLetters
  <2>1. /\ pc["operator"] = "range" /\ pc'["operator"] = "exec" /\ UNCHANGED <<queued, letters>>
        /\ replaying'.letter = replaying.letter /\ replaying'.list = letters
    BY <1>2, <1>9, OperatorGoes DEF Sends!ReadLetters, OperatorPlaces, HooksShape
  <2>2. \A l \in Sends!Letter : Live(l)' => Live(l)
    BY <2>1 DEF Live
  <2> QED
    BY <1>a, <2>1, <2>2
<1>10. CASE Sends!WriteLetters
  <2>1. /\ pc["operator"] = "exec" /\ pc'["operator"] = "list" /\ UNCHANGED queued
        /\ replaying'.letter = Sends!NoLetter /\ replaying'.list = <<>>
        /\ letters' = Sends!Reverse(Sends!Without(replaying.list, replaying.letter))
    BY <1>10, OperatorGoes DEF Sends!WriteLetters, OperatorPlaces, HooksShape
  <2>2. \A i \in DOMAIN letters' : /\ letters'[i] # replaying.letter
                                   /\ \E j \in DOMAIN replaying.list : letters'[i] = replaying.list[j]
    <3>1. Apart(replaying.list)
      BY DEF Dates, Dated
    <3> DEFINE w == Sends!Reverse(Sends!Without(replaying.list, replaying.letter))
    <3>2. /\ \A i \in DOMAIN w : \E j \in DOMAIN replaying.list : w[i] = replaying.list[j]
          /\ Apart(replaying.list) => \A i \in DOMAIN w : w[i] # replaying.letter
      BY <1>2, WrittenBack
    <3> HIDE DEF w
    <3>3. letters' = w
      BY <2>1 DEF w
    <3> QED
      BY <3>1, <3>2, <3>3
  <2>3. \A l \in Sends!Letter : Live(l)' => Live(l)
    BY <1>3, <2>1, <2>2 DEF Live
  <2> QED
    BY <1>a, <2>1, <2>3
<1>11. ~Sends!OperatorFault
  BY DEF Sends!OperatorFault, Sends!Mark, Lost, Sends!Spoiled
<1> QED
  BY <1>4, <1>5, <1>6, <1>7, <1>8, <1>9, <1>10, <1>11, Zenon DEF Calls, Sends!OperatorStep

LEMMA EachAloneHolds ==
  ASSUME HooksShape, AtWork, OnCall, Dates, EachAlone, Sends!Next
  PROVE  EachAlone'
<1>1. CASE Lost \/ Lost'
  BY <1>1, WhoWrites DEF Written, EachAlone, Lost, Sends!Spoiled
<1>2. CASE ~Lost /\ ~Lost'
  <2> SUFFICES ASSUME NEW d \in Sends!Delivery PROVE Alone(d)'
    BY DEF EachAlone
  <2>1. Alone(d)
    BY <1>2 DEF EachAlone
  <2>2. ~Sends!Crash
    BY <1>2 DEF Sends!Crash, Sends!Mark, Lost, Sends!Spoiled
  <2>3. Steps(d)
    <3>1. ASSUME NEW c \in Changes, Sends!Announce(c) \/ \E h \in Hooks : Sends!Enqueue(c, h) PROVE Steps(d)
      BY <3>1, WriterSteps
    <3>2. ASSUME NEW e \in Sends!Delivery, Sends!HandlerStep(e) PROVE Steps(d)
      BY <1>2, <3>2, HandlerSteps
    <3>3. Sends!WorkerStep \/ Sends!TrimStep \/ Calls => Steps(d)
      BY <1>2, WorkerSteps, TrimSteps, OperatorSteps
    <3> QED
      BY <2>2, <3>1, <3>2, <3>3, Zenon DEF Sends!Next, Calls
  <2>4. announced \subseteq announced'
    <3> USE DEF Sends!emitters
    <3>1. ASSUME NEW c \in Changes, Sends!Announce(c) \/ \E h \in Hooks : Sends!Enqueue(c, h)
          PROVE  announced \subseteq announced'
      BY <3>1 DEF Sends!Announce, Sends!Enqueue
    <3>2. ASSUME NEW e \in Sends!Delivery, Sends!HandlerStep(e) PROVE announced' = announced
      BY <3>2 DEF Sends!HandlerStep, Sends!HandlerGets, Sends!HandlerPushes, Sends!HandlerFault, Sends!HandlerMishap
    <3>3. CASE Sends!WorkerStep
      BY <3>3 DEF Sends!WorkerStep, Sends!Take, Sends!GetConfig, Sends!Post, Sends!PostLost, Sends!WorkerLists,
         Sends!WorkerSaves, Sends!WorkerLogs, Sends!WorkerFault
    <3>4. CASE Sends!TrimStep
      BY <3>4 DEF Sends!TrimStep, Sends!HandlerTrims, Sends!TrimFault, Sends!HandlerMishap
    <3>5. CASE Calls
      BY <3>5 DEF Calls, Sends!Ask, Sends!Replay, Sends!OperatorStep, Sends!OperatorSaves, Sends!FindConfig,
         Sends!AddReplay, Sends!ReadLetters, Sends!WriteLetters, Sends!OperatorLists, Sends!OperatorLogs,
         Sends!OperatorFault
    <3> QED
      BY <2>2, <3>1, <3>2, <3>3, <3>4, <3>5, Zenon DEF Sends!Next, Calls
  <2> QED
    BY <2>1, <2>3, <2>4, StepsKeepAlone
<1> QED
  BY <1>1, <1>2

-----------------------------------------------------------------------------
(* Webhooks: the invariant.                                                 *)

HooksInv ==
  /\ HooksShape /\ AtWork /\ OnCall /\ Unheard /\ Newcomers /\ Dates
  /\ EachAlone /\ Sends!EditsStand /\ Sends!CountsTruthful /\ Sends!LettersInOrder

LEMMA HooksInit == Sends!Init => HooksInv
<1> SUFFICES ASSUME Sends!Init PROVE HooksInv
  OBVIOUS
<1> USE DEF Sends!Init
<1>0. /\ letters = <<>> /\ replaying.letter = Sends!NoLetter /\ replaying.list = <<>>
      /\ pc["worker"] = "idle" /\ pc["operator"] = "idle" /\ running = Sends!NoJob
      /\ replaying = [letter |-> replaying.letter, list |-> replaying.list] /\ incidents = {}
      /\ posted = "none"
  BY DEF Sends!NoReplay, Sends!Actors
<1>1. HooksShape
  <2>1. RedisTypes
    <3>1. configs \in Sends!Configs
      BY FeedsAssumption DEF Sends!Configs, Sends!Config, Sends!Fresh
    <3>2. wanted \in [Hooks -> Sends!Setting \cup {Sends!Absent, Sends!Gone}]
      BY FeedsAssumption DEF Sends!Setting
    <3> QED
      BY <3>1, <3>2, FeedsAssumption DEF RedisTypes
  <2>2. ActorTypes
    <3>1. /\ pc \in [Sends!Actors -> Places] /\ copy \in [Sends!Actors -> Sends!Configs]
          /\ pc["worker"] \in WorkerPlaces /\ pc["operator"] \in OperatorPlaces
      BY <1>0 DEF Places, WorkerPlaces, OperatorPlaces, Sends!Configs, Sends!NoConfigs
    <3>2. <<>> \in Seq(Sends!Letter)
      OBVIOUS
    <3> QED
      BY <1>0, <3>1, <3>2 DEF ActorTypes
  <2> QED
    BY <2>1, <2>2 DEF HooksShape
<1>2. AtWork /\ OnCall
  BY <1>0 DEF AtWork, OnCall
<1>3. Unheard
  <2>1. [on |-> TRUE, edit |-> 0] # Sends!Absent
    BY DEF Sends!Absent
  <2> QED
    BY <2>1 DEF Unheard, Made, Sends!NoConfigs, Sends!Actors
<1>4. Newcomers
  BY <1>0 DEF Newcomers, Named
<1>5. Dates
  BY <1>0 DEF Dates, Dated, Apart
<1>6. EachAlone
  <2> SUFFICES ASSUME NEW d \in Sends!Delivery PROVE Alone(d)
    BY DEF EachAlone
  <2>1. \A k \in 1..Attempts : queued[<<d, k>>] = 0
    BY DEF Sends!Job
  <2>2. \A x \in {"config", "push"} : handling[<<d, x>>] = 0
    BY DEF Sends!Handler
  <2>3. d[1] \notin adding[d[2]] /\ got[d] = 0
    BY DEF Sends!Delivery
  <2>4. \A l \in Sends!Letter : ~Live(l)
    BY <1>0 DEF Live
  <2>5. \A s : ~At(d, s)
    <3>1. \A n \in Nat : ~(n < 0)
      OBVIOUS
    <3>2. \A s : ~InQueue(d, s) /\ ~InHandler(d, s)
      BY <2>1, <2>2, <3>1 DEF InQueue, InHandler
    <3>3. \A s : ~InAdding(d, s) /\ ~InHand(d, s) /\ ~InLetters(d, s)
      BY <1>0, <2>3, <2>4 DEF InAdding, InHand, InLetters
    <3> QED
      BY <3>2, <3>3 DEF At
  <2> QED
    BY <2>3, <2>5 DEF Alone
<1>7. Sends!EditsStand
  <2>1. [on |-> TRUE, edit |-> 0] \notin {Sends!Absent, Sends!Gone} /\ Sends!Fresh # Sends!Absent
        /\ Sends!Fresh.on = TRUE /\ Sends!Fresh.edit = 0
    BY DEF Sends!Absent, Sends!Gone, Sends!Fresh
  <2> QED
    BY <2>1 DEF Sends!EditsStand
<1>8. Sends!CountsTruthful
  BY <1>0 DEF Sends!CountsTruthful, Sends!Unsaved, Sends!Fresh
<1>9. Sends!LettersInOrder
  BY <1>0, FeedsAssumption DEF Sends!LettersInOrder
<1> QED
  BY <1>1, <1>2, <1>3, <1>4, <1>5, <1>6, <1>7, <1>8, <1>9 DEF HooksInv

LEMMA HooksNext == HooksInv /\ [Sends!Next]_(Sends!vars) => HooksInv'
<1> SUFFICES ASSUME HooksInv, [Sends!Next]_(Sends!vars) PROVE HooksInv'
  OBVIOUS
<1>1. CASE Sends!Next
  <2>1. HooksShape /\ AtWork /\ OnCall /\ Unheard /\ Newcomers /\ Dates
    BY DEF HooksInv
  <2>2. HooksShape'
    BY <1>1, <2>1, HookTypesHold
  <2>3. AtWork' /\ OnCall'
    BY <1>1, <2>1, AtWorkHolds, OnCallHolds
  <2>4. Unheard' /\ Newcomers' /\ Dates'
    BY <1>1, <2>1, UnheardHolds, NewcomersHold, DatesHold
  <2>5. EachAlone' /\ Sends!EditsStand'
    BY <1>1, <2>1, EachAloneHolds, EditsHold DEF HooksInv
  <2>6. Sends!CountsTruthful' /\ Sends!LettersInOrder'
    BY <1>1, <2>1, CountsHold, OrderHolds DEF HooksInv
  <2> QED
    BY <2>2, <2>3, <2>4, <2>5, <2>6 DEF HooksInv
<1>2. CASE UNCHANGED Sends!vars
  <2>1. /\ UNCHANGED <<configs, letters, queued, running, posted, handling, trimming, pc, copy>>
        /\ UNCHANGED <<asked, replaying, announced, adding, wanted, sent, got, now, ops, incidents>>
    BY <1>2 DEF Sends!vars, Sends!redis, Sends!worker, Sends!handlers, Sends!console, Sends!emitters, Sends!past
  <2>2. HooksShape'
    BY <2>1 DEF HooksInv, HooksShape, RedisTypes, ActorTypes
  <2>3. AtWork' /\ OnCall' /\ Unheard' /\ Newcomers' /\ Dates'
    BY <2>1 DEF HooksInv, AtWork, OnCall, Unheard, Newcomers, Named, Made, Dates, Dated, Apart, Sends!Hook
  <2>4. EachAlone'
    <3>1. \A d, s : At(d, s)' <=> At(d, s)
      BY <2>1, PlacesStay DEF At
    <3> QED
      BY <2>1, <3>1 DEF HooksInv, EachAlone, Alone, Lost, Sends!Spoiled
  <2>5. Sends!EditsStand' /\ Sends!CountsTruthful' /\ Sends!LettersInOrder'
    BY <2>1 DEF HooksInv, Sends!EditsStand, Sends!CountsTruthful, Sends!LettersInOrder, Sends!Spoiled,
       Sends!Unsaved, Sends!Hook
  <2> QED
    BY <2>2, <2>3, <2>4, <2>5 DEF HooksInv
<1> QED
  BY <1>1, <1>2

LEMMA HooksHold ==
  ASSUME HooksInv
  PROVE  Sends!OnceUnlessLost /\ Sends!CountsTruthful /\ Sends!EditsStand /\ Sends!LettersInOrder
  BY DEF HooksInv, EachAlone, Alone, Lost, Sends!OnceUnlessLost

-----------------------------------------------------------------------------
(* Queues of requests, some of which take back what came before.            *)

Leaving(q, away) == \E i \in DOMAIN q : q[i] \in away

\* The request r is in the queue, and nothing after it takes it back.
After(q, r, away) == \E i \in DOMAIN q : q[i] = r /\ \A j \in DOMAIN q : q[j] \in away => j < i

LEMMA AfterAppend ==
  ASSUME NEW T, NEW q \in Seq(T), NEW x \in T, NEW r, NEW away
  PROVE  /\ x \in away => Leaving(Append(q, x), away) /\ ~After(Append(q, x), r, away)
         /\ x \notin away => /\ Leaving(Append(q, x), away) <=> Leaving(q, away)
                             /\ After(Append(q, x), r, away) <=> x = r \/ After(q, r, away)
<1> DEFINE p == Append(q, x)
           n == Len(q) + 1
<1>1. /\ n \in Nat /\ n \in 1..n /\ DOMAIN q = 1..(n - 1) /\ DOMAIN p = 1..n
      /\ p[n] = x /\ \A i \in 1..(n - 1) : p[i] = q[i]
  OBVIOUS
<1> HIDE DEF p, n
<1>2. Leaving(p, away) <=> x \in away \/ Leaving(q, away)
  BY <1>1 DEF Leaving
<1>3. ASSUME x \in away, After(p, r, away) PROVE FALSE
  <2>1. PICK i \in 1..n : p[i] = r /\ \A j \in 1..n : p[j] \in away => j < i
    BY <1>1, <1>3 DEF After
  <2> QED
    BY <1>1, <1>3, <2>1
<1>4. ASSUME x \notin away PROVE After(p, r, away) <=> x = r \/ After(q, r, away)
  <2>1. ASSUME After(p, r, away), x # r PROVE After(q, r, away)
    <3>1. PICK i \in 1..n : p[i] = r /\ \A j \in 1..n : p[j] \in away => j < i
      BY <1>1, <2>1 DEF After
    <3>2. i \in 1..(n - 1)
      BY <1>1, <2>1, <3>1
    <3>3. q[i] = r /\ \A j \in 1..(n - 1) : q[j] \in away => j < i
      BY <1>1, <3>1, <3>2
    <3> QED
      BY <1>1, <3>2, <3>3 DEF After
  <2>2. ASSUME x = r PROVE After(p, r, away)
    <3>1. p[n] = r /\ \A j \in 1..n : p[j] \in away => j < n
      BY <1>1, <1>4, <2>2
    <3> QED
      BY <1>1, <3>1 DEF After
  <2>3. ASSUME After(q, r, away) PROVE After(p, r, away)
    <3>1. PICK i \in 1..(n - 1) : q[i] = r /\ \A j \in 1..(n - 1) : q[j] \in away => j < i
      BY <1>1, <2>3 DEF After
    <3>2. i \in 1..n /\ p[i] = r /\ \A j \in 1..n : p[j] \in away => j < i
      BY <1>1, <1>4, <3>1
    <3> QED
      BY <1>1, <3>2 DEF After
  <2> QED
    BY <2>1, <2>2, <2>3
<1> QED
  BY <1>2, <1>3, <1>4 DEF p

\* A request goes that takes nothing back, and none ahead of it does either.
LEMMA AfterRemoved ==
  ASSUME NEW T, NEW q \in Seq(T), NEW k \in DOMAIN q, NEW r, NEW away, q[k] \notin away,
         \A j \in DOMAIN q : j < k => q[j] \notin away
  PROVE  /\ Leaving(Sends!RemoveAt(q, k), away) <=> Leaving(q, away)
         /\ After(Sends!RemoveAt(q, k), r, away) => After(q, r, away)
         /\ After(q, r, away) /\ (q[k] # r \/ Leaving(q, away)) => After(Sends!RemoveAt(q, k), r, away)
<1> DEFINE p == Sends!RemoveAt(q, k)
           n == Len(q)
<1>1. n \in Nat /\ DOMAIN q = 1..n /\ k \in 1..n
  OBVIOUS
<1>2. /\ p \in Seq(T) /\ Len(p) = n - 1 /\ DOMAIN p = 1..(n - 1)
      /\ \A i \in 1..(n - 1) : p[i] = IF i < k THEN q[i] ELSE q[i + 1]
  <2>1. p \in Seq(T) /\ Len(p) = n - 1 /\ \A i \in 1..(n - 1) : p[i] = IF i < k THEN q[i] ELSE q[i + 1]
    BY <1>1, Removed
  <2> QED
    BY <1>1, <2>1
<1> HIDE DEF p, n
<1>3. \A j \in 1..n : q[j] \in away => j > k /\ j - 1 \in 1..(n - 1) /\ p[j - 1] = q[j]
  BY <1>1, <1>2
<1>4. \A j \in 1..(n - 1) : p[j] \in away => j >= k /\ j + 1 \in 1..n /\ q[j + 1] = p[j]
  BY <1>1, <1>2
<1>5. Leaving(p, away) <=> Leaving(q, away)
  BY <1>1, <1>2, <1>3, <1>4 DEF Leaving
<1>6. ASSUME After(p, r, away) PROVE After(q, r, away)
  <2>1. PICK i \in 1..(n - 1) : p[i] = r /\ \A j \in 1..(n - 1) : p[j] \in away => j < i
    BY <1>2, <1>6 DEF After
  <2> DEFINE m == IF i < k THEN i ELSE i + 1
  <2>2. m \in 1..n /\ q[m] = r
    BY <1>1, <1>2, <2>1
  <2>3. ASSUME NEW j \in 1..n, q[j] \in away PROVE j < m
    <3>1. j > k /\ j - 1 < i
      BY <1>3, <2>1, <2>3
    <3> QED
      BY <1>1, <3>1
  <2> HIDE DEF m
  <2> QED
    BY <1>1, <2>2, <2>3 DEF After
<1>7. ASSUME After(q, r, away), q[k] # r \/ Leaving(q, away) PROVE After(p, r, away)
  <2>1. PICK i \in 1..n : q[i] = r /\ \A j \in 1..n : q[j] \in away => j < i
    BY <1>1, <1>7 DEF After
  <2>2. i # k
    <3>1. CASE q[k] # r
      BY <2>1, <3>1
    <3>2. CASE Leaving(q, away)
      <4>1. PICK j \in 1..n : q[j] \in away
        BY <1>1, <3>2 DEF Leaving
      <4>2. j > k /\ j < i
        BY <1>3, <2>1, <4>1
      <4> QED
        BY <1>1, <2>1, <4>1, <4>2
    <3> QED
      BY <1>7, <3>1, <3>2
  <2> DEFINE m == IF i < k THEN i ELSE i - 1
  <2>3. m \in 1..(n - 1) /\ p[m] = r
    BY <1>1, <1>2, <2>1, <2>2
  <2>4. ASSUME NEW j \in 1..(n - 1), p[j] \in away PROVE j < m
    <3>1. j >= k /\ j + 1 < i
      BY <1>4, <2>1, <2>4
    <3> QED
      BY <1>1, <3>1
  <2> HIDE DEF m
  <2> QED
    BY <1>2, <2>3, <2>4 DEF After
<1> QED
  BY <1>5, <1>6, <1>7 DEF p

\* The first goes, which took back whatever there was.
LEMMA AfterFirst ==
  ASSUME NEW T, NEW q \in Seq(T), q # <<>>, NEW r, NEW away, q[1] \in away
  PROVE  After(Sends!RemoveAt(q, 1), r, away) <=> After(q, r, away)
<1> DEFINE p == Sends!RemoveAt(q, 1)
           n == Len(q)
<1>1. n \in Nat /\ DOMAIN q = 1..n /\ 1 \in 1..n
  OBVIOUS
<1>2. DOMAIN p = 1..(n - 1) /\ \A i \in 1..(n - 1) : p[i] = q[i + 1]
  <2>1. p \in Seq(T) /\ Len(p) = n - 1 /\ \A i \in 1..(n - 1) : p[i] = IF i < 1 THEN q[i] ELSE q[i + 1]
    BY <1>1, Removed
  <2> QED
    BY <1>1, <2>1
<1> HIDE DEF p, n
<1>3. ASSUME After(p, r, away) PROVE After(q, r, away)
  <2>1. PICK i \in 1..(n - 1) : p[i] = r /\ \A j \in 1..(n - 1) : p[j] \in away => j < i
    BY <1>2, <1>3 DEF After
  <2>2. ASSUME NEW j \in 1..n, q[j] \in away PROVE j < i + 1
    <3>1. CASE j = 1
      BY <3>1
    <3>2. CASE j # 1
      <4>1. j - 1 \in 1..(n - 1) /\ p[j - 1] = q[j]
        BY <1>1, <1>2, <3>2
      <4> QED
        BY <2>1, <2>2, <4>1
    <3> QED
      BY <3>1, <3>2
  <2>3. i + 1 \in 1..n /\ q[i + 1] = r
    BY <1>1, <1>2, <2>1
  <2> QED
    BY <1>1, <2>2, <2>3 DEF After
<1>4. ASSUME After(q, r, away) PROVE After(p, r, away)
  <2>1. PICK i \in 1..n : q[i] = r /\ \A j \in 1..n : q[j] \in away => j < i
    BY <1>1, <1>4 DEF After
  <2>2. i > 1
    BY <1>1, <2>1
  <2>3. i - 1 \in 1..(n - 1) /\ p[i - 1] = r
    BY <1>1, <1>2, <2>1, <2>2
  <2>4. ASSUME NEW j \in 1..(n - 1), p[j] \in away PROVE j < i - 1
    <3>1. j + 1 \in 1..n /\ q[j + 1] \in away
      BY <1>1, <1>2, <2>4
    <3> QED
      BY <2>1, <3>1
  <2> QED
    BY <1>2, <2>3, <2>4 DEF After
<1> QED
  BY <1>3, <1>4 DEF p

\* What is put behind a queue takes nothing back.
LEMMA AfterJoined ==
  ASSUME NEW T, NEW q \in Seq(T), NEW p \in Seq(T), NEW r, NEW away,
         \A i \in DOMAIN p : p[i] \notin away
  PROVE  /\ Leaving(q \o p, away) <=> Leaving(q, away)
         /\ After(q \o p, r, away) <=> After(q, r, away) \/ \E i \in DOMAIN p : p[i] = r
<1> DEFINE t == q \o p
           n == Len(q)
           k == Len(p)
<1>1. n \in Nat /\ k \in Nat /\ DOMAIN q = 1..n /\ DOMAIN p = 1..k /\ DOMAIN t = 1..(n + k)
  OBVIOUS
<1>2. /\ \A i \in 1..n : t[i] = q[i]
      /\ \A i \in 1..k : t[n + i] = p[i]
  OBVIOUS
<1> HIDE DEF t, n, k
<1>3. \A j \in 1..(n + k) : j \in 1..n \/ (j - n \in 1..k /\ t[j] = p[j - n])
  <2> SUFFICES ASSUME NEW j \in 1..(n + k), j \notin 1..n PROVE j - n \in 1..k /\ t[j] = p[j - n]
    OBVIOUS
  <2>1. j - n \in 1..k /\ n + (j - n) = j
    BY <1>1
  <2> QED
    BY <1>2, <2>1
<1>4. \A j \in 1..(n + k) : t[j] \in away => j \in 1..n /\ q[j] \in away
  BY <1>1, <1>2, <1>3
<1>5. Leaving(t, away) <=> Leaving(q, away)
  BY <1>1, <1>2, <1>4 DEF Leaving
<1>6. ASSUME After(t, r, away) PROVE After(q, r, away) \/ \E i \in DOMAIN p : p[i] = r
  <2>1. PICK i \in 1..(n + k) : t[i] = r /\ \A j \in 1..(n + k) : t[j] \in away => j < i
    BY <1>1, <1>6 DEF After
  <2>2. CASE i \in 1..n
    <3>1. q[i] = r /\ \A j \in 1..n : q[j] \in away => j < i
      BY <1>1, <1>2, <2>1, <2>2
    <3> QED
      BY <1>1, <2>2, <3>1 DEF After
  <2>3. CASE i \notin 1..n
    BY <1>1, <1>3, <2>1, <2>3
  <2> QED
    BY <2>2, <2>3
<1>7. ASSUME After(q, r, away) PROVE After(t, r, away)
  <2>1. PICK i \in 1..n : q[i] = r /\ \A j \in 1..n : q[j] \in away => j < i
    BY <1>1, <1>7 DEF After
  <2>2. i \in 1..(n + k) /\ t[i] = r /\ \A j \in 1..(n + k) : t[j] \in away => j < i
    BY <1>1, <1>2, <1>4, <2>1
  <2> QED
    BY <1>1, <2>2 DEF After
<1>8. ASSUME NEW i \in 1..k, p[i] = r PROVE After(t, r, away)
  <2>1. n + i \in 1..(n + k) /\ t[n + i] = r
    BY <1>1, <1>2, <1>8
  <2>2. \A j \in 1..(n + k) : t[j] \in away => j < n + i
    BY <1>1, <1>4
  <2> QED
    BY <1>1, <2>1, <2>2 DEF After
<1> QED
  BY <1>1, <1>5, <1>6, <1>7, <1>8 DEF t

-----------------------------------------------------------------------------
(* Presence: the messages on their way to a view.                           *)

Told == [user : Users, ref : Nat]
Note == [kind : {"state"}, state : SUBSET Told] \cup
        [kind : {"diff"}, joins : SUBSET Told, leaves : SUBSET Told]

\* RealtimeClient's handler of presence_state and presence_diff.
Apply(bag, m) ==
  IF m.kind = "state" THEN Rooms!SetToBag(m.state) ELSE Rooms!ApplyDiff(bag, m.joins, m.leaves)

\* Each message turns one set of metas into the next: a state whatever it was, a diff what was
\* there without what leaves, and what joins was not there.
Turns(before, m, after) ==
  IF m.kind = "state" THEN after = m.state
  ELSE m.joins \cap (before \ m.leaves) = {} /\ after = (before \ m.leaves) \cup m.joins

\* From this view the messages lead to that set: f[i] is what the i-th leaves, from the k-th on.
Chain(bag, q, f, k) ==
  /\ k = 0 => bag = Rooms!SetToBag(f[0])
  /\ k > 0 => q[k].kind = "state" /\ f[k] = q[k].state
  /\ \A i \in DOMAIN q : i > k => Turns(f[i - 1], q[i], f[i])
Leads(bag, q, S) == \E f, k : k \in 0..Len(q) /\ Chain(bag, q, f, k) /\ f[Len(q)] = S

LEMMA DiffOfSets ==
  ASSUME NEW S, NEW J, NEW L, J \cap (S \ L) = {}
  PROVE  Rooms!ApplyDiff(Rooms!SetToBag(S), J, L) = Rooms!SetToBag((S \ L) \cup J)
<1>1. DOMAIN [e \in S |-> 1] = S
  OBVIOUS
<1>2. [m \in S \ L |-> [e \in S |-> 1][m]] = [m \in S \ L |-> 1]
  OBVIOUS
<1>3. Rooms!ApplyDiff(Rooms!SetToBag(S), J, L)
      = [e \in (S \ L) \cup J |-> (IF e \in S \ L THEN 1 ELSE 0) + (IF e \in J THEN 1 ELSE 0)]
  BY <1>1, <1>2 DEF Rooms!ApplyDiff, Rooms!SetToBag, Rooms!BagToSet, Rooms!(+)
<1> QED
  BY <1>3 DEF Rooms!SetToBag

LEMMA Applied ==
  ASSUME NEW before, NEW m, NEW after, Turns(before, m, after)
  PROVE  Apply(Rooms!SetToBag(before), m) = Rooms!SetToBag(after)
<1>1. CASE m.kind = "state"
  BY <1>1 DEF Turns, Apply
<1>2. CASE m.kind # "state"
  BY <1>2, DiffOfSets DEF Turns, Apply
<1> QED
  BY <1>1, <1>2

LEMMA LeadsNowhere == ASSUME NEW bag, NEW S, Leads(bag, <<>>, S) PROVE bag = Rooms!SetToBag(S)
<1>1. PICK f, k : k \in 0..Len(<<>>) /\ Chain(bag, <<>>, f, k) /\ f[Len(<<>>)] = S
  BY DEF Leads
<1>2. Len(<<>>) = 0
  OBVIOUS
<1> QED
  BY <1>1, <1>2 DEF Chain

\* The view takes in the first message.
LEMMA LeadsOn ==
  ASSUME NEW T, NEW q \in Seq(T), q # <<>>, NEW bag, NEW S, Leads(bag, q, S)
  PROVE  Leads(Apply(bag, Head(q)), Tail(q), S)
<1> DEFINE n == Len(q)
           p == Tail(q)
<1>1. /\ n \in Nat /\ n >= 1 /\ DOMAIN q = 1..n /\ Len(p) = n - 1 /\ DOMAIN p = 1..(n - 1)
      /\ Head(q) = q[1] /\ \A i \in 1..(n - 1) : p[i] = q[i + 1]
  OBVIOUS
<1> HIDE DEF n, p
<1>2. PICK f, k : k \in 0..n /\ Chain(bag, q, f, k) /\ f[n] = S
  BY DEF Leads, n
<1> DEFINE g == [i \in 0..(n - 1) |-> f[i + 1]]
           l == IF k = 0 THEN 0 ELSE k - 1
<1>3. l \in 0..(n - 1) /\ \A i \in 0..(n - 1) : g[i] = f[i + 1]
  BY <1>1, <1>2
<1>4. g[n - 1] = S
  BY <1>1, <1>2
<1>5. l = 0 => Apply(bag, q[1]) = Rooms!SetToBag(g[0])
  <2>1. g[0] = f[1] /\ 1 \in DOMAIN q
    BY <1>1
  <2>2. CASE k = 0
    <3>1. bag = Rooms!SetToBag(f[0]) /\ Turns(f[1 - 1], q[1], f[1])
      BY <1>2, <2>1, <2>2 DEF Chain
    <3> QED
      BY <2>1, <3>1, Applied
  <2>3. CASE k = 1
    BY <1>2, <2>1, <2>3 DEF Chain, Apply
  <2>4. l = 0 => k = 0 \/ k = 1
    BY <1>2
  <2> QED
    BY <2>2, <2>3, <2>4
<1>6. ASSUME l > 0 PROVE p[l].kind = "state" /\ g[l] = p[l].state
  <2>1. k > 0 /\ l = k - 1 /\ l \in 1..(n - 1) /\ l + 1 = k
    BY <1>2, <1>3, <1>6
  <2>2. p[l] = q[k] /\ g[l] = f[k]
    BY <1>1, <1>3, <2>1
  <2>3. q[k].kind = "state" /\ f[k] = q[k].state
    BY <1>2, <2>1 DEF Chain
  <2> QED
    BY <2>2, <2>3
<1>7. ASSUME NEW i \in 1..(n - 1), i > l PROVE Turns(g[i - 1], p[i], g[i])
  <2>1. i + 1 \in DOMAIN q /\ i + 1 > k
    BY <1>1, <1>2, <1>7
  <2>2. Turns(f[(i + 1) - 1], q[i + 1], f[i + 1])
    BY <1>2, <2>1 DEF Chain
  <2>3. (i + 1) - 1 = (i - 1) + 1 /\ i - 1 \in 0..(n - 1) /\ i \in 0..(n - 1)
    BY <1>1
  <2>4. g[i - 1] = f[(i + 1) - 1] /\ g[i] = f[i + 1] /\ p[i] = q[i + 1]
    BY <1>1, <1>3, <2>3
  <2> QED
    BY <2>2, <2>4
<1> HIDE DEF g, l
<1>8. Chain(Apply(bag, q[1]), p, g, l)
  BY <1>1, <1>5, <1>6, <1>7 DEF Chain
<1> QED
  BY <1>1, <1>3, <1>4, <1>8 DEF Leads, p

\* A message is sent that turns the set into another.
LEMMA LeadsFurther ==
  ASSUME NEW T, NEW q \in Seq(T), NEW m \in T, NEW bag, NEW S, NEW after,
         Leads(bag, q, S), Turns(S, m, after)
  PROVE  Leads(bag, Append(q, m), after)
<1> DEFINE n == Len(q)
           p == Append(q, m)
<1>1. /\ n \in Nat /\ DOMAIN q = 1..n /\ Len(p) = n + 1 /\ DOMAIN p = 1..(n + 1)
      /\ p[n + 1] = m /\ \A i \in 1..n : p[i] = q[i]
  OBVIOUS
<1> HIDE DEF n, p
<1>2. PICK f, k : k \in 0..n /\ Chain(bag, q, f, k) /\ f[n] = S
  BY DEF Leads, n
<1> DEFINE g == [i \in 0..(n + 1) |-> IF i = n + 1 THEN after ELSE f[i]]
<1>3. g[n + 1] = after /\ \A i \in 0..n : g[i] = f[i]
  BY <1>1
<1> HIDE DEF g
<1>4. k \in 0..(n + 1)
  BY <1>1, <1>2
<1>5. k = 0 => bag = Rooms!SetToBag(g[0])
  BY <1>1, <1>2, <1>3 DEF Chain
<1>6. k > 0 => p[k].kind = "state" /\ g[k] = p[k].state
  BY <1>1, <1>2, <1>3 DEF Chain
<1>7. ASSUME NEW i \in 1..(n + 1), i > k PROVE Turns(g[i - 1], p[i], g[i])
  <2>1. CASE i = n + 1
    <3>1. g[i - 1] = S /\ p[i] = m /\ g[i] = after
      BY <1>1, <1>2, <1>3, <2>1
    <3> QED
      BY <3>1
  <2>2. CASE i # n + 1
    <3>1. i \in DOMAIN q /\ i - 1 \in 0..n /\ i \in 0..n
      BY <1>1, <2>2
    <3>2. Turns(f[i - 1], q[i], f[i])
      BY <1>2, <1>7, <3>1 DEF Chain
    <3> QED
      BY <1>1, <1>3, <3>1, <3>2
  <2> QED
    BY <2>1, <2>2
<1>8. Chain(bag, p, g, k)
  BY <1>1, <1>5, <1>6, <1>7 DEF Chain
<1> QED
  BY <1>1, <1>3, <1>4, <1>8 DEF Leads, p

\* A state leads there from anywhere.
LEMMA LeadsAnew ==
  ASSUME NEW T, NEW q \in Seq(T), NEW m \in T, NEW bag, m.kind = "state"
  PROVE  Leads(bag, Append(q, m), m.state)
<1> DEFINE n == Len(q) + 1
           p == Append(q, m)
           f == [i \in {n} |-> m.state]
<1>1. n \in Nat /\ n > 0 /\ Len(p) = n /\ DOMAIN p = 1..n /\ p[n] = m /\ f[n] = m.state
  OBVIOUS
<1> HIDE DEF n, p, f
<1>2. Chain(bag, p, f, n)
  BY <1>1 DEF Chain
<1> QED
  BY <1>1, <1>2 DEF Leads, p

-----------------------------------------------------------------------------
(* Presence: what the variables hold.                                       *)

Entries == [user : Users, socket : Rooms!Sockets, ref : Nat]
Queues == [Rooms!Sockets -> Seq(Rooms!Request)]
Mails == [Rooms!Sockets -> Seq(Note)]

ServerTypes ==
  /\ alive \subseteq Rooms!Sockets /\ present \subseteq Entries /\ refs \in Nat
  /\ requests \in Queues /\ messages \in Mails
ClientTypes ==
  /\ conn \in [Clients -> 0..MaxConns] /\ up \in [Clients -> BOOLEAN] /\ room \in [Clients -> BOOLEAN]
  /\ waiting \in [Clients -> Nat] /\ buffer \in [Clients -> Seq(Rooms!Request)]
  /\ intended \in [Clients -> SUBSET Users] /\ DOMAIN view = Clients
RoomsShape == ServerTypes /\ ClientTypes

\* A connection that stands has a socket, and its buffer has been sent.
Connected == \A c \in Clients : up[c] => Rooms!Socket(c) \in alive /\ buffer[c] = <<>>

LEMMA RequestKinds ==
  /\ Rooms!Join \in Rooms!Request /\ Rooms!Leave \in Rooms!Request /\ Rooms!Join # Rooms!Leave
  /\ \A u \in Users : /\ [kind |-> "presence", user |-> u] \in Rooms!Request
                      /\ [kind |-> "presence", user |-> u] \notin {Rooms!Join, Rooms!Leave}
  /\ \A r \in Rooms!Request : /\ r.kind = "join" => r = Rooms!Join
                              /\ r.kind = "leave" <=> r = Rooms!Leave
                              /\ r.kind = "presence" => r.user \in Users /\ r = [kind |-> "presence", user |-> r.user]
  BY DEF Rooms!Join, Rooms!Leave, Rooms!Request

LEMMA MetasTold == ASSUME NEW E, E \subseteq Entries PROVE Rooms!Metas(E) \subseteq Told
  BY DEF Entries, Told, Rooms!Metas

LEMMA SentNotes ==
  ASSUME messages \in Mails, NEW to, NEW m \in Note, Rooms!Send(to, m)
  PROVE  /\ messages' \in Mails
         /\ \A t \in Rooms!Sockets : messages'[t] = IF t \in to /\ Rooms!Stands(t)
                                                    THEN Append(messages[t], m) ELSE messages[t]
<1>1. \A t \in Rooms!Sockets : messages[t] \in Seq(Note) /\ Append(messages[t], m) \in Seq(Note)
  BY DEF Mails
<1> QED
  BY <1>1, Zenon DEF Rooms!Send, Mails

LEMMA Diffs ==
  ASSUME NEW J, NEW L, J \subseteq Entries, L \subseteq Entries
  PROVE  /\ Rooms!Diff(J, L) \in Note
         /\ Rooms!Diff(J, L).kind # "state"
         /\ Rooms!Diff(J, L).joins = Rooms!Metas(J) /\ Rooms!Diff(J, L).leaves = Rooms!Metas(L)
  BY MetasTold DEF Rooms!Diff, Note

LEMMA EmitKeepsTypes ==
  ASSUME RoomsShape, NEW c \in Clients, NEW r \in Rooms!Request, Rooms!Emit(c, r)
  PROVE  requests' \in Queues /\ buffer' \in [Clients -> Seq(Rooms!Request)]
<1>1. \A q \in Seq(Rooms!Request) : Append(q, r) \in Seq(Rooms!Request)
  OBVIOUS
<1>2. \A t \in Rooms!Sockets : requests[t] \in Seq(Rooms!Request)
  BY DEF RoomsShape, ServerTypes, Queues
<1>3. buffer[c] \in Seq(Rooms!Request)
  BY DEF RoomsShape, ClientTypes
<1>4. CASE up[c]
  <2>1. requests' = [requests EXCEPT ![Rooms!Socket(c)] = Append(@, r)] /\ buffer' = buffer
    BY <1>4 DEF Rooms!Emit
  <2> QED
    BY <1>1, <1>2, <2>1 DEF RoomsShape, ServerTypes, ClientTypes, Queues
<1>5. CASE ~up[c]
  <2>1. buffer' = [buffer EXCEPT ![c] = Append(@, r)] /\ requests' = requests
    BY <1>5 DEF Rooms!Emit
  <2> QED
    BY <1>1, <1>3, <2>1 DEF RoomsShape, ServerTypes, ClientTypes
<1> QED
  BY <1>4, <1>5

LEMMA EntriesOf ==
  ASSUME present \subseteq Entries, NEW s
  PROVE  /\ Rooms!Of(s) \subseteq Entries /\ Rooms!Of(s) \subseteq present
         /\ \A u : Rooms!Previous(s, u) \subseteq Entries /\ Rooms!Previous(s, u) \subseteq Rooms!Of(s)
  BY DEF Rooms!Of, Rooms!Previous

LEMMA ResumeTypes ==
  ASSUME requests \in Queues, NEW s \in Rooms!Sockets, NEW i \in DOMAIN requests[s],
         requests' = [requests EXCEPT ![s] = Rooms!RemoveAt(@, i)]
  PROVE  /\ requests' \in Queues
         /\ requests[s] \in Seq(Rooms!Request) /\ i \in 1..Len(requests[s])
         /\ requests[s][i] \in Rooms!Request
         /\ requests'[s] = Sends!RemoveAt(requests[s], i)
         /\ \A t \in Rooms!Sockets : t # s => requests'[t] = requests[t]
<1>1. requests[s] \in Seq(Rooms!Request) /\ i \in 1..Len(requests[s])
  BY DEF Queues
<1>2. Sends!RemoveAt(requests[s], i) \in Seq(Rooms!Request)
  BY <1>1, Removed
<1>3. requests' = [requests EXCEPT ![s] = Sends!RemoveAt(requests[s], i)]
  BY DEF Rooms!RemoveAt, Sends!RemoveAt
<1>4. requests[s][i] \in Rooms!Request
  BY <1>1
<1> QED
  BY <1>1, <1>2, <1>3, <1>4 DEF Queues

LEMMA ClientKeepsTypes ==
  ASSUME RoomsShape, NEW c \in Clients,
         \/ Rooms!Subscribe(c) \/ Rooms!Unsubscribe(c) \/ Rooms!Receive(c) \/ Rooms!Connect(c)
         \/ Rooms!Break(c) \/ \E u \in Users : Rooms!Track(c, u)
  PROVE  RoomsShape'
<1>1. CASE Rooms!Subscribe(c)
  <2>1. Rooms!Emit(c, Rooms!Join) \/ UNCHANGED <<requests, buffer>>
    BY <1>1 DEF Rooms!Subscribe
  <2>2. requests' \in Queues /\ buffer' \in [Clients -> Seq(Rooms!Request)]
    <3>1. CASE Rooms!Emit(c, Rooms!Join)
      BY <3>1, RequestKinds, EmitKeepsTypes
    <3>2. CASE UNCHANGED <<requests, buffer>>
      BY <3>2 DEF RoomsShape, ServerTypes, ClientTypes
    <3> QED
      BY <2>1, <3>1, <3>2
  <2>3. waiting' \in [Clients -> Nat]
    <3>1. waiting' = waiting \/ waiting' = [waiting EXCEPT ![c] = @ + 1]
      BY <1>1 DEF Rooms!Subscribe
    <3>2. waiting \in [Clients -> Nat] /\ waiting[c] + 1 \in Nat
      BY DEF RoomsShape, ClientTypes
    <3> QED
      BY <3>1, <3>2
  <2>4. room' \in [Clients -> BOOLEAN] /\ DOMAIN view' = Clients
    BY <1>1 DEF Rooms!Subscribe, RoomsShape, ClientTypes
  <2> QED
    BY <1>1, <2>2, <2>3, <2>4 DEF Rooms!Subscribe, Rooms!server, RoomsShape, ServerTypes, ClientTypes
<1>2. CASE Rooms!Unsubscribe(c)
  <2>1. Rooms!Emit(c, Rooms!Leave)
    BY <1>2 DEF Rooms!Unsubscribe
  <2>2. requests' \in Queues /\ buffer' \in [Clients -> Seq(Rooms!Request)]
    BY <2>1, RequestKinds, EmitKeepsTypes
  <2>3. intended' \in [Clients -> SUBSET Users]
    BY <1>2 DEF Rooms!Unsubscribe, RoomsShape, ClientTypes
  <2>4. room' \in [Clients -> BOOLEAN] /\ DOMAIN view' = Clients
    BY <1>2 DEF Rooms!Unsubscribe, RoomsShape, ClientTypes
  <2> QED
    BY <1>2, <2>2, <2>3, <2>4 DEF Rooms!Unsubscribe, Rooms!server, RoomsShape, ServerTypes, ClientTypes
<1>3. CASE Rooms!Receive(c)
  <2>1. messages' = [messages EXCEPT ![Rooms!Socket(c)] = Tail(@)]
    BY <1>3 DEF Rooms!Receive
  <2>2. \A t \in Rooms!Sockets : messages[t] \in Seq(Note)
    BY DEF RoomsShape, ServerTypes, Mails
  <2>3. messages[Rooms!Socket(c)] # <<>>
    BY <1>3 DEF Rooms!Receive
  <2>4. messages' \in Mails
    <3>1. CASE Rooms!Socket(c) \in Rooms!Sockets
      <4>1. Tail(messages[Rooms!Socket(c)]) \in Seq(Note)
        BY <2>2, <2>3, <3>1
      <4> QED
        BY <2>1, <2>2, <4>1 DEF RoomsShape, ServerTypes, Mails
    <3>2. CASE Rooms!Socket(c) \notin Rooms!Sockets
      BY <2>1, <3>2 DEF RoomsShape, ServerTypes, Mails
    <3> QED
      BY <3>1, <3>2
  <2>5. DOMAIN view' = Clients
    BY <1>3 DEF Rooms!Receive, RoomsShape, ClientTypes
  <2> QED
    BY <1>3, <2>4, <2>5 DEF Rooms!Receive, Rooms!server, Rooms!sdk, RoomsShape, ServerTypes, ClientTypes
<1>4. CASE Rooms!Connect(c)
  <2> DEFINE times == IF room[c] THEN 1 + waiting[c] ELSE 0
             joins == [i \in 1..times |-> Rooms!Join]
             s == <<c, conn[c] + 1>>
  <2>1. conn[c] \in Nat /\ conn[c] < MaxConns /\ MaxConns \in Nat
    BY <1>4, FeedsAssumption DEF Rooms!Connect, RoomsShape, ClientTypes
  <2>2. s \in Rooms!Sockets
    BY <2>1 DEF Rooms!Sockets
  <2>3. times \in Nat
    BY DEF RoomsShape, ClientTypes
  <2>4. joins \in Seq(Rooms!Request)
    BY <2>3, RequestKinds
  <2>5. buffer[c] \o joins \in Seq(Rooms!Request)
    BY <2>4 DEF RoomsShape, ClientTypes
  <2>6. requests' = [requests EXCEPT ![s] = buffer[c] \o joins]
    BY <1>4 DEF Rooms!Connect
  <2>7. requests' \in Queues
    BY <2>5, <2>6 DEF RoomsShape, ServerTypes, Queues
  <2>8. conn' \in [Clients -> 0..MaxConns] /\ up' \in [Clients -> BOOLEAN]
    BY <1>4, <2>1 DEF Rooms!Connect, RoomsShape, ClientTypes
  <2>9. waiting' \in [Clients -> Nat] /\ buffer' \in [Clients -> Seq(Rooms!Request)]
    BY <1>4 DEF Rooms!Connect, RoomsShape, ClientTypes
  <2>10. alive' \subseteq Rooms!Sockets
    BY <1>4, <2>2 DEF Rooms!Connect, RoomsShape, ServerTypes
  <2> QED
    BY <1>4, <2>7, <2>8, <2>9, <2>10 DEF Rooms!Connect, RoomsShape, ServerTypes, ClientTypes
<1>5. CASE Rooms!Break(c)
  <2>1. PICK n \in 0..Len(requests[Rooms!Socket(c)]) :
          requests' = [requests EXCEPT ![Rooms!Socket(c)] = SubSeq(@, 1, n)]
    BY <1>5 DEF Rooms!Break
  <2>2. requests' \in Queues
    <3>1. CASE Rooms!Socket(c) \in Rooms!Sockets
      <4>1. requests[Rooms!Socket(c)] \in Seq(Rooms!Request)
        BY <3>1 DEF RoomsShape, ServerTypes, Queues
      <4>2. SubSeq(requests[Rooms!Socket(c)], 1, n) \in Seq(Rooms!Request)
        BY <2>1, <4>1
      <4> QED
        BY <2>1, <4>2 DEF RoomsShape, ServerTypes, Queues
    <3>2. CASE Rooms!Socket(c) \notin Rooms!Sockets
      BY <2>1, <3>2 DEF RoomsShape, ServerTypes, Queues
    <3> QED
      BY <3>1, <3>2
  <2>3. messages' \in Mails
    <3>1. <<>> \in Seq(Note)
      OBVIOUS
    <3> QED
      BY <1>5, <3>1 DEF Rooms!Break, RoomsShape, ServerTypes, Mails
  <2>4. up' \in [Clients -> BOOLEAN] /\ intended' \in [Clients -> SUBSET Users]
    BY <1>5 DEF Rooms!Break, RoomsShape, ClientTypes
  <2> QED
    BY <1>5, <2>2, <2>3, <2>4 DEF Rooms!Break, Rooms!server, RoomsShape, ServerTypes, ClientTypes
<1>6. ASSUME NEW u \in Users, Rooms!Track(c, u) PROVE RoomsShape'
  <2>1. Rooms!Emit(c, [kind |-> "presence", user |-> u])
    BY <1>6 DEF Rooms!Track
  <2>2. requests' \in Queues /\ buffer' \in [Clients -> Seq(Rooms!Request)]
    BY <2>1, RequestKinds, EmitKeepsTypes
  <2>3. intended' \in [Clients -> SUBSET Users]
    BY <1>6 DEF Rooms!Track, RoomsShape, ClientTypes
  <2> QED
    BY <1>6, <2>2, <2>3 DEF Rooms!Track, Rooms!server, RoomsShape, ServerTypes, ClientTypes
<1> QED
  BY <1>1, <1>2, <1>3, <1>4, <1>5, <1>6

Overtaken == "overtaken" \in incidents \/ "denied" \in incidents

\* A leave is carried out when nothing is ahead of it, and nothing overtakes one.
LEMMA Resumed ==
  ASSUME requests \in Queues, NEW s \in Rooms!Sockets, NEW i \in DOMAIN requests[s],
         Rooms!Resume(s, i)
  PROVE  /\ requests' = [requests EXCEPT ![s] = Rooms!RemoveAt(@, i)]
         /\ incidents \subseteq incidents'
         /\ requests[s][i].kind = "presence" /\ "late" \notin incidents' => s \in alive
         /\ ~Overtaken' => /\ requests[s][i] = Rooms!Leave => i = 1
                           /\ requests[s][i] # Rooms!Leave =>
                                \A j \in DOMAIN requests[s] : j < i => requests[s][j] # Rooms!Leave
<1> DEFINE q == requests[s]
           ahead == {q[j].kind : j \in 1..(i - 1)}
<1>1. /\ requests' = [requests EXCEPT ![s] = Rooms!RemoveAt(@, i)]
      /\ incidents' = incidents \cup
           ((IF s \notin alive /\ q[i].kind = "presence" THEN {"late"} ELSE {})
             \cup (IF "leave" \in ahead \/ (ahead # {} /\ q[i].kind = "leave") THEN {"overtaken"} ELSE {}))
  BY DEF Rooms!Resume, Rooms!Mark
<1>2. q \in Seq(Rooms!Request) /\ i \in 1..Len(q) /\ DOMAIN q = 1..Len(q) /\ Len(q) \in Nat
  BY DEF Queues
<1>3. Rooms!Leave.kind = "leave"
  BY DEF Rooms!Leave
<1>4. ASSUME q[i] = Rooms!Leave, i # 1 PROVE "overtaken" \in incidents'
  <2>1. 1 \in 1..(i - 1)
    BY <1>2, <1>4
  <2>2. q[1].kind \in ahead
    BY <2>1
  <2> QED
    BY <1>1, <1>3, <1>4, <2>2
<1>5. ASSUME NEW j \in DOMAIN q, j < i, q[j] = Rooms!Leave PROVE "overtaken" \in incidents'
  <2>1. j \in 1..(i - 1)
    BY <1>2, <1>5
  <2>2. "leave" \in ahead
    BY <1>3, <1>5, <2>1
  <2> QED
    BY <1>1, <2>2
<1> QED
  BY <1>1, <1>4, <1>5 DEF Overtaken

LEMMA ServerKeepsTypes ==
  ASSUME RoomsShape, NEW s \in Rooms!Sockets,
         \/ \E i \in DOMAIN requests[s] : \/ Rooms!JoinPresence(s, i) \/ Rooms!LeavePresence(s, i)
                                          \/ Rooms!TakePresence(s, i) \/ Rooms!Deny(s, i)
         \/ Rooms!Disconnect(s)
         \/ Rooms!Restart
  PROVE  RoomsShape'
<1>0. requests \in Queues /\ messages \in Mails /\ present \subseteq Entries
  BY DEF RoomsShape, ServerTypes
<1>1. ASSUME NEW i \in DOMAIN requests[s], Rooms!JoinPresence(s, i) PROVE RoomsShape'
  <2>1. requests' \in Queues
    BY <1>0, <1>1, Resumed, ResumeTypes DEF Rooms!JoinPresence
  <2>2. [kind |-> "state", state |-> Rooms!Metas(present)] \in Note
    BY <1>0, MetasTold DEF Note
  <2>3. messages' \in Mails
    BY <1>0, <1>1, <2>2, SentNotes DEF Rooms!JoinPresence
  <2> QED
    BY <1>1, <2>1, <2>3 DEF Rooms!JoinPresence, Rooms!sdk, RoomsShape, ServerTypes, ClientTypes
<1>2. ASSUME NEW i \in DOMAIN requests[s], Rooms!LeavePresence(s, i) PROVE RoomsShape'
  <2>1. requests' \in Queues
    BY <1>0, <1>2, Resumed, ResumeTypes DEF Rooms!LeavePresence
  <2>2. Rooms!Diff({}, Rooms!Of(s)) \in Note
    BY <1>0, EntriesOf, Diffs
  <2>3. messages' \in Mails /\ present' \subseteq Entries
    BY <1>0, <1>2, <2>2, SentNotes DEF Rooms!LeavePresence, Rooms!RemoveFromRoom
  <2> QED
    BY <1>2, <2>1, <2>3 DEF Rooms!LeavePresence, Rooms!sdk, RoomsShape, ServerTypes, ClientTypes
<1>3. ASSUME NEW i \in DOMAIN requests[s], Rooms!TakePresence(s, i) PROVE RoomsShape'
  <2> DEFINE u == requests[s][i].user
             entry == [user |-> u, socket |-> s, ref |-> refs + 1]
  <2>1. /\ requests' \in Queues
        /\ requests[s][i] \in Rooms!Request /\ requests[s][i].kind = "presence"
    BY <1>0, <1>3, Resumed, ResumeTypes DEF Rooms!TakePresence
  <2>2. entry \in Entries
    <3>1. u \in Users
      BY <2>1, RequestKinds
    <3> QED
      BY <3>1 DEF Entries, RoomsShape, ServerTypes
  <2>3. Rooms!Diff({entry}, Rooms!Previous(s, u)) \in Note
    BY <1>0, <2>2, EntriesOf, Diffs
  <2>4. /\ present' = (present \ Rooms!Previous(s, u)) \cup {entry}
        /\ Rooms!Send(members \cup {s}, Rooms!Diff({entry}, Rooms!Previous(s, u)))
    BY <1>3 DEF Rooms!TakePresence, Rooms!Upsert
  <2>5. messages' \in Mails /\ present' \subseteq Entries
    BY <1>0, <2>2, <2>3, <2>4, SentNotes
  <2> QED
    BY <1>3, <2>1, <2>5 DEF Rooms!TakePresence, Rooms!sdk, RoomsShape, ServerTypes, ClientTypes
<1>4. ASSUME NEW i \in DOMAIN requests[s], Rooms!Deny(s, i) PROVE RoomsShape'
  <2>1. requests' \in Queues
    BY <1>0, <1>4, ResumeTypes DEF Rooms!Deny
  <2> QED
    BY <1>4, <2>1 DEF Rooms!Deny, Rooms!server, Rooms!sdk, RoomsShape, ServerTypes, ClientTypes
<1>5. CASE Rooms!Disconnect(s)
  <2>1. Rooms!Diff({}, Rooms!Of(s)) \in Note
    BY <1>0, EntriesOf, Diffs
  <2>2. messages' \in Mails /\ present' \subseteq Entries
    BY <1>0, <1>5, <2>1, SentNotes DEF Rooms!Disconnect
  <2> QED
    BY <1>5, <2>2 DEF Rooms!Disconnect, Rooms!sdk, RoomsShape, ServerTypes, ClientTypes
<1>6. CASE Rooms!Restart
  <2>1. <<>> \in Seq(Rooms!Request) /\ <<>> \in Seq(Note)
    OBVIOUS
  <2>2. requests' \in Queues /\ messages' \in Mails
    BY <1>6, <2>1 DEF Rooms!Restart, Queues, Mails
  <2>3. intended' \in [Clients -> SUBSET Users] /\ up' \in [Clients -> BOOLEAN]
    BY <1>6 DEF Rooms!Restart, RoomsShape, ClientTypes
  <2> QED
    BY <1>6, <2>2, <2>3 DEF Rooms!Restart, RoomsShape, ServerTypes, ClientTypes
<1> QED
  BY <1>1, <1>2, <1>3, <1>4, <1>5, <1>6

\* Whoever is present is known to the handler of its disconnection, which looks for the room among
\* the socket's rooms and not among the entries.
Known == "late" \notin incidents => \A p \in present : p.socket \in alive \cap recorded

\* A ref is given once.
RefsApart == /\ \A p \in present : p.ref <= refs
             /\ \A p, q \in present : p.ref = q.ref => p = q

\* A connection that has not been made yet is unheard of.
Unmade(s) == s[2] > conn[s[1]]
Unborn == \A s \in Rooms!Sockets : Unmade(s) =>
            s \notin alive /\ requests[s] = <<>> /\ messages[s] = <<>> /\ Rooms!Of(s) = {}

LEMMA Sides ==
  ASSUME Rooms!Next
  PROVE  \/ \E c \in Clients :
              \/ Rooms!Subscribe(c) \/ Rooms!Unsubscribe(c) \/ Rooms!Receive(c) \/ Rooms!Connect(c)
              \/ Rooms!Break(c) \/ \E u \in Users : Rooms!Track(c, u)
         \/ \E s \in Rooms!Sockets :
              \/ \E i \in DOMAIN requests[s] : \/ Rooms!JoinPresence(s, i) \/ Rooms!LeavePresence(s, i)
                                               \/ Rooms!TakePresence(s, i) \/ Rooms!Deny(s, i)
              \/ Rooms!Disconnect(s)
         \/ Rooms!Restart
<1>1. CASE Rooms!Restart
  BY <1>1
<1>2. ASSUME NEW c \in Clients,
             \/ Rooms!Subscribe(c) \/ Rooms!Unsubscribe(c) \/ Rooms!Connect(c) \/ Rooms!Receive(c)
             \/ Rooms!Break(c) \/ \E u \in Users : Rooms!Track(c, u)
      PROVE  \E d \in Clients :
              \/ Rooms!Subscribe(d) \/ Rooms!Unsubscribe(d) \/ Rooms!Receive(d) \/ Rooms!Connect(d)
              \/ Rooms!Break(d) \/ \E u \in Users : Rooms!Track(d, u)
  BY <1>2
<1>3. ASSUME NEW s \in Rooms!Sockets,
             \/ \E i \in DOMAIN requests[s] : \/ Rooms!JoinPresence(s, i) \/ Rooms!LeavePresence(s, i)
                                              \/ Rooms!TakePresence(s, i) \/ Rooms!Deny(s, i)
             \/ Rooms!Disconnect(s)
      PROVE  \E t \in Rooms!Sockets :
              \/ \E i \in DOMAIN requests[t] : \/ Rooms!JoinPresence(t, i) \/ Rooms!LeavePresence(t, i)
                                               \/ Rooms!TakePresence(t, i) \/ Rooms!Deny(t, i)
              \/ Rooms!Disconnect(t)
  BY <1>3
<1> QED
  BY <1>1, <1>2, <1>3, Zenon DEF Rooms!Next

LEMMA RoomTypesHold == ASSUME RoomsShape, Rooms!Next PROVE RoomsShape'
<1>1. ASSUME Rooms!Restart PROVE \E s \in Rooms!Sockets : TRUE
  BY <1>1 DEF Rooms!Restart, RoomsShape, ServerTypes
<1> QED
  BY <1>1, Sides, ClientKeepsTypes, ServerKeepsTypes

LEMMA OfClient ==
  ASSUME RoomsShape, NEW c \in Clients
  PROVE  /\ Rooms!Socket(c) = <<c, conn[c]>> /\ Rooms!Socket(c)[1] = c /\ Rooms!Socket(c)[2] = conn[c]
         /\ conn[c] \in Nat /\ ~Unmade(Rooms!Socket(c))
         /\ \A d \in Clients : d # c => Rooms!Socket(d) # Rooms!Socket(c)
         /\ \A s \in Rooms!Sockets : /\ s[1] \in Clients /\ s[2] \in Nat /\ s = <<s[1], s[2]>>
                                     /\ Rooms!Stands(s) => s = Rooms!Socket(s[1]) /\ up[s[1]]
                                     /\ up[c] /\ s = Rooms!Socket(c) => Rooms!Stands(s)
<1>1. Rooms!Socket(c) = <<c, conn[c]>> /\ Rooms!Socket(c)[1] = c /\ Rooms!Socket(c)[2] = conn[c]
  BY DEF Rooms!Socket
<1>2. conn[c] \in Nat /\ ~Unmade(Rooms!Socket(c))
  BY <1>1, FeedsAssumption DEF RoomsShape, ClientTypes, Unmade
<1>3. \A d \in Clients : d # c => Rooms!Socket(d) # Rooms!Socket(c)
  BY <1>1 DEF Rooms!Socket
<1>4. ASSUME NEW s \in Rooms!Sockets
      PROVE  /\ s[1] \in Clients /\ s[2] \in Nat /\ s = <<s[1], s[2]>>
             /\ Rooms!Stands(s) => s = Rooms!Socket(s[1]) /\ up[s[1]]
             /\ up[c] /\ s = Rooms!Socket(c) => Rooms!Stands(s)
  BY <1>1, <1>4, FeedsAssumption DEF Rooms!Sockets, Rooms!Stands, Rooms!Socket
<1> QED
  BY <1>1, <1>2, <1>3, <1>4

\* A client's step is about its own socket.
LEMMA ClientsOwn ==
  ASSUME RoomsShape, NEW c \in Clients,
         \/ Rooms!Subscribe(c) \/ Rooms!Unsubscribe(c) \/ Rooms!Receive(c)
         \/ Rooms!Break(c) \/ \E u \in Users : Rooms!Track(c, u)
  PROVE  /\ UNCHANGED <<conn, alive, members, recorded, present, refs, incidents>>
         /\ \A d \in Clients : d # c =>
              /\ up'[d] = up[d] /\ room'[d] = room[d] /\ buffer'[d] = buffer[d] /\ waiting'[d] = waiting[d]
              /\ intended'[d] = intended[d] /\ view'[d] = view[d]
         /\ \A s \in Rooms!Sockets : s # Rooms!Socket(c) =>
              requests'[s] = requests[s] /\ messages'[s] = messages[s]
<1>1. CASE Rooms!Subscribe(c)
  BY <1>1 DEF Rooms!Subscribe, Rooms!Emit, Rooms!server, RoomsShape, ClientTypes, ServerTypes, Queues, Mails
<1>2. CASE Rooms!Unsubscribe(c)
  BY <1>2 DEF Rooms!Unsubscribe, Rooms!Emit, Rooms!server, RoomsShape, ClientTypes, ServerTypes, Queues, Mails
<1>3. CASE Rooms!Receive(c)
  BY <1>3 DEF Rooms!Receive, Rooms!server, Rooms!sdk, RoomsShape, ClientTypes, ServerTypes, Queues, Mails
<1>4. CASE Rooms!Break(c)
  BY <1>4 DEF Rooms!Break, Rooms!server, RoomsShape, ClientTypes, ServerTypes, Queues, Mails
<1>5. ASSUME NEW u \in Users, Rooms!Track(c, u)
      PROVE  /\ UNCHANGED <<conn, alive, members, recorded, present, refs, incidents>>
             /\ \A d \in Clients : d # c =>
                  /\ up'[d] = up[d] /\ room'[d] = room[d] /\ buffer'[d] = buffer[d] /\ waiting'[d] = waiting[d]
                  /\ intended'[d] = intended[d] /\ view'[d] = view[d]
             /\ \A s \in Rooms!Sockets : s # Rooms!Socket(c) =>
                  requests'[s] = requests[s] /\ messages'[s] = messages[s]
  BY <1>5 DEF Rooms!Track, Rooms!Emit, Rooms!server, RoomsShape, ClientTypes, ServerTypes, Queues, Mails
<1> QED
  BY <1>1, <1>2, <1>3, <1>4, <1>5

LEMMA Connects ==
  ASSUME RoomsShape, NEW c \in Clients, Rooms!Connect(c)
  PROVE  LET s == <<c, conn[c] + 1>>
             joins == [i \in 1..(IF room[c] THEN 1 + waiting[c] ELSE 0) |-> Rooms!Join]
         IN /\ s \in Rooms!Sockets /\ s = Rooms!Socket(c)' /\ Unmade(s) /\ ~up[c] /\ up'[c]
            /\ conn'[c] = conn[c] + 1 /\ alive' = alive \cup {s} /\ buffer'[c] = <<>>
            /\ requests'[s] = buffer[c] \o joins
            /\ \A t \in Rooms!Sockets : t # s => requests'[t] = requests[t]
            /\ \A d \in Clients : d # c => up'[d] = up[d] /\ conn'[d] = conn[d] /\ buffer'[d] = buffer[d]
            /\ UNCHANGED <<members, recorded, present, messages, room, view, intended, refs, incidents>>
<1> DEFINE s == <<c, conn[c] + 1>>
           joins == [i \in 1..(IF room[c] THEN 1 + waiting[c] ELSE 0) |-> Rooms!Join]
<1>1. conn[c] \in Nat /\ conn[c] < MaxConns /\ conn[c] \in Int /\ MaxConns \in Nat
  BY FeedsAssumption DEF Rooms!Connect, RoomsShape, ClientTypes
<1>2. s \in Rooms!Sockets /\ s[1] = c /\ s[2] = conn[c] + 1
  BY <1>1 DEF Rooms!Sockets
<1>3. conn'[c] = conn[c] + 1 /\ \A d \in Clients : d # c => conn'[d] = conn[d]
  BY DEF Rooms!Connect, RoomsShape, ClientTypes
<1>4. s = Rooms!Socket(c)' /\ Unmade(s)
  BY <1>1, <1>2, <1>3 DEF Rooms!Socket, Unmade
<1>5. ~up[c] /\ up'[c] /\ \A d \in Clients : d # c => up'[d] = up[d]
  BY DEF Rooms!Connect, RoomsShape, ClientTypes
<1>6. buffer'[c] = <<>> /\ \A d \in Clients : d # c => buffer'[d] = buffer[d]
  BY DEF Rooms!Connect, RoomsShape, ClientTypes
<1>7. requests' = [requests EXCEPT ![s] = buffer[c] \o joins]
  BY DEF Rooms!Connect
<1>8. requests'[s] = buffer[c] \o joins /\ \A t \in Rooms!Sockets : t # s => requests'[t] = requests[t]
  BY <1>2, <1>7 DEF RoomsShape, ServerTypes, Queues
<1>9. /\ alive' = alive \cup {s}
      /\ UNCHANGED <<members, recorded, present, messages, room, view, intended, refs, incidents>>
  BY DEF Rooms!Connect
<1> HIDE DEF s, joins
<1> QED
  BY <1>2, <1>3, <1>4, <1>5, <1>6, <1>8, <1>9 DEF s, joins

\* A step of the server for a socket leaves the clients alone, and those without a connection.
LEMMA ServerServes ==
  ASSUME RoomsShape, NEW s \in Rooms!Sockets,
         \/ \E i \in DOMAIN requests[s] : \/ Rooms!JoinPresence(s, i) \/ Rooms!LeavePresence(s, i)
                                          \/ Rooms!TakePresence(s, i) \/ Rooms!Deny(s, i)
         \/ Rooms!Disconnect(s)
  PROVE  /\ UNCHANGED <<conn, up, room, buffer, view, intended>>
         /\ alive' = alive \/ (alive' = alive \ {s} /\ ~Rooms!Stands(s))
         /\ \A t \in Rooms!Sockets : requests[t] = <<>> \/ t # s => requests'[t] = requests[t]
         /\ \A t \in Rooms!Sockets : ~Rooms!Stands(t) => messages'[t] = messages[t]
         /\ \A p \in present' : p \in present \/ (p.socket = s /\ requests[s] # <<>>)
<1>0. requests \in Queues /\ messages \in Mails /\ present \subseteq Entries
  BY DEF RoomsShape, ServerTypes
<1>1. ASSUME NEW to, NEW m, Rooms!Send(to, m)
      PROVE  \A t \in Rooms!Sockets : ~Rooms!Stands(t) => messages'[t] = messages[t]
  BY <1>1 DEF Rooms!Send
<1>2. \A i \in DOMAIN requests[s] : requests[s] # <<>>
  OBVIOUS
<1>3. ASSUME NEW i \in DOMAIN requests[s], requests' = [requests EXCEPT ![s] = Rooms!RemoveAt(@, i)]
      PROVE  \A t \in Rooms!Sockets : requests[t] = <<>> \/ t # s => requests'[t] = requests[t]
  BY <1>0, <1>2, <1>3 DEF Queues
<1>4. ASSUME NEW i \in DOMAIN requests[s], Rooms!JoinPresence(s, i)
      PROVE  /\ UNCHANGED <<conn, up, room, buffer, view, intended, alive, present>>
             /\ \A t \in Rooms!Sockets : requests[t] = <<>> \/ t # s => requests'[t] = requests[t]
             /\ \A t \in Rooms!Sockets : ~Rooms!Stands(t) => messages'[t] = messages[t]
  BY <1>0, <1>1, <1>3, <1>4, Resumed DEF Rooms!JoinPresence, Rooms!sdk
<1>5. ASSUME NEW i \in DOMAIN requests[s], Rooms!LeavePresence(s, i)
      PROVE  /\ UNCHANGED <<conn, up, room, buffer, view, intended, alive>> /\ present' \subseteq present
             /\ \A t \in Rooms!Sockets : requests[t] = <<>> \/ t # s => requests'[t] = requests[t]
             /\ \A t \in Rooms!Sockets : ~Rooms!Stands(t) => messages'[t] = messages[t]
  <2>1. Rooms!Resume(s, i) /\ Rooms!RemoveFromRoom(s)
        /\ UNCHANGED <<conn, up, room, buffer, view, intended, alive>>
    BY <1>5 DEF Rooms!LeavePresence, Rooms!sdk
  <2>2. present' \subseteq present /\ \A t \in Rooms!Sockets : ~Rooms!Stands(t) => messages'[t] = messages[t]
    BY <1>1, <2>1 DEF Rooms!RemoveFromRoom
  <2> QED
    BY <1>0, <1>3, <2>1, <2>2, Resumed
<1>6. ASSUME NEW i \in DOMAIN requests[s], Rooms!TakePresence(s, i)
      PROVE  /\ UNCHANGED <<conn, up, room, buffer, view, intended, alive>>
             /\ \A p \in present' : p \in present \/ p.socket = s
             /\ \A t \in Rooms!Sockets : requests[t] = <<>> \/ t # s => requests'[t] = requests[t]
             /\ \A t \in Rooms!Sockets : ~Rooms!Stands(t) => messages'[t] = messages[t]
  <2>1. Rooms!Resume(s, i) /\ Rooms!Upsert(s, requests[s][i].user)
        /\ UNCHANGED <<conn, up, room, buffer, view, intended, alive>>
    BY <1>6 DEF Rooms!TakePresence, Rooms!sdk
  <2>2. /\ \A p \in present' : p \in present \/ p.socket = s
        /\ \A t \in Rooms!Sockets : ~Rooms!Stands(t) => messages'[t] = messages[t]
    BY <1>1, <2>1 DEF Rooms!Upsert
  <2> QED
    BY <1>0, <1>3, <2>1, <2>2, Resumed
<1>7. ASSUME NEW i \in DOMAIN requests[s], Rooms!Deny(s, i)
      PROVE  /\ UNCHANGED <<conn, up, room, buffer, view, intended, alive, present, messages>>
             /\ \A t \in Rooms!Sockets : requests[t] = <<>> \/ t # s => requests'[t] = requests[t]
  BY <1>3, <1>7 DEF Rooms!Deny, Rooms!server, Rooms!sdk
<1>8. ASSUME Rooms!Disconnect(s)
      PROVE  /\ UNCHANGED <<conn, up, room, buffer, view, intended, requests>>
             /\ alive' = alive \ {s} /\ ~Rooms!Stands(s) /\ present' \subseteq present
             /\ \A t \in Rooms!Sockets : ~Rooms!Stands(t) => messages'[t] = messages[t]
  BY <1>1, <1>8 DEF Rooms!Disconnect, Rooms!sdk
<1> QED
  BY <1>2, <1>4, <1>5, <1>6, <1>7, <1>8

LEMMA ConnectedHolds == ASSUME RoomsShape, Connected, Rooms!Next PROVE Connected'
<1>1. ASSUME NEW c \in Clients,
             \/ Rooms!Subscribe(c) \/ Rooms!Unsubscribe(c) \/ Rooms!Receive(c)
             \/ Rooms!Break(c) \/ \E u \in Users : Rooms!Track(c, u)
      PROVE  Connected'
  <2>1. \A d \in Clients : Rooms!Socket(d)' = Rooms!Socket(d) /\ alive' = alive
    BY <1>1, ClientsOwn DEF Rooms!Socket
  <2>2. up'[c] => up[c] /\ buffer'[c] = buffer[c]
    <3>1. CASE Rooms!Subscribe(c)
      BY <3>1 DEF Rooms!Subscribe, Rooms!Emit
    <3>2. CASE Rooms!Unsubscribe(c)
      BY <3>2 DEF Rooms!Unsubscribe, Rooms!Emit
    <3>3. CASE Rooms!Receive(c)
      BY <3>3 DEF Rooms!Receive, Rooms!sdk
    <3>4. CASE Rooms!Break(c)
      BY <3>4 DEF Rooms!Break, RoomsShape, ClientTypes
    <3>5. ASSUME NEW u \in Users, Rooms!Track(c, u) PROVE up'[c] => up[c] /\ buffer'[c] = buffer[c]
      BY <3>5 DEF Rooms!Track, Rooms!Emit
    <3> QED
      BY <1>1, <3>1, <3>2, <3>3, <3>4, <3>5
  <2>3. \A d \in Clients : d # c => up'[d] = up[d] /\ buffer'[d] = buffer[d]
    BY <1>1, ClientsOwn
  <2> QED
    BY <2>1, <2>2, <2>3 DEF Connected
<1>2. ASSUME NEW c \in Clients, Rooms!Connect(c) PROVE Connected'
  <2>1. /\ Rooms!Socket(c)' \in alive' /\ buffer'[c] = <<>> /\ alive \subseteq alive'
        /\ \A d \in Clients : d # c => up'[d] = up[d] /\ conn'[d] = conn[d] /\ buffer'[d] = buffer[d]
    BY <1>2, Connects
  <2>2. \A d \in Clients : d # c => Rooms!Socket(d)' = Rooms!Socket(d)
    BY <2>1 DEF Rooms!Socket
  <2> QED
    BY <2>1, <2>2 DEF Connected
<1>3. ASSUME NEW s \in Rooms!Sockets,
             \/ \E i \in DOMAIN requests[s] : \/ Rooms!JoinPresence(s, i) \/ Rooms!LeavePresence(s, i)
                                              \/ Rooms!TakePresence(s, i) \/ Rooms!Deny(s, i)
             \/ Rooms!Disconnect(s)
      PROVE  Connected'
  <2>1. UNCHANGED <<conn, up, buffer>> /\ (alive' = alive \/ (alive' = alive \ {s} /\ ~Rooms!Stands(s)))
    BY <1>3, ServerServes
  <2>2. \A c \in Clients : Rooms!Socket(c)' = Rooms!Socket(c)
    BY <2>1 DEF Rooms!Socket
  <2>3. \A c \in Clients : up[c] /\ Rooms!Socket(c) = s => Rooms!Stands(s)
    BY OfClient
  <2> QED
    BY <2>1, <2>2, <2>3 DEF Connected
<1>4. CASE Rooms!Restart
  BY <1>4 DEF Rooms!Restart, Connected
<1> QED
  BY <1>1, <1>2, <1>3, <1>4, Sides

LEMMA UnbornHolds == ASSUME RoomsShape, Unborn, Rooms!Next PROVE Unborn'
<1>1. ASSUME NEW c \in Clients,
             \/ Rooms!Subscribe(c) \/ Rooms!Unsubscribe(c) \/ Rooms!Receive(c)
             \/ Rooms!Break(c) \/ \E u \in Users : Rooms!Track(c, u)
      PROVE  Unborn'
  <2>1. /\ UNCHANGED <<conn, alive, present>>
        /\ \A s \in Rooms!Sockets : s # Rooms!Socket(c) => requests'[s] = requests[s] /\ messages'[s] = messages[s]
    BY <1>1, ClientsOwn
  <2>2. ~Unmade(Rooms!Socket(c))
    BY OfClient
  <2> QED
    BY <2>1, <2>2 DEF Unborn, Unmade, Rooms!Of
<1>2. ASSUME NEW c \in Clients, Rooms!Connect(c) PROVE Unborn'
  <2> DEFINE s == <<c, conn[c] + 1>>
  <2>1. /\ conn'[c] = conn[c] + 1 /\ \A d \in Clients : d # c => conn'[d] = conn[d]
        /\ alive' = alive \cup {s} /\ UNCHANGED <<present, messages>>
        /\ \A t \in Rooms!Sockets : t # s => requests'[t] = requests[t]
    BY <1>2, Connects
  <2>2. conn[c] \in Nat /\ \A t \in Rooms!Sockets : t[1] \in Clients /\ t[2] \in Nat
    BY OfClient
  <2>3. \A t \in Rooms!Sockets : Unmade(t)' => Unmade(t) /\ t # s
    BY <2>1, <2>2 DEF Unmade
  <2> QED
    BY <2>1, <2>3 DEF Unborn, Rooms!Of
<1>3. ASSUME NEW s \in Rooms!Sockets,
             \/ \E i \in DOMAIN requests[s] : \/ Rooms!JoinPresence(s, i) \/ Rooms!LeavePresence(s, i)
                                              \/ Rooms!TakePresence(s, i) \/ Rooms!Deny(s, i)
             \/ Rooms!Disconnect(s)
      PROVE  Unborn'
  <2> SUFFICES ASSUME NEW t \in Rooms!Sockets, Unmade(t)'
               PROVE  t \notin alive' /\ requests'[t] = <<>> /\ messages'[t] = <<>> /\ Rooms!Of(t)' = {}
    BY DEF Unborn
  <2>1. Unmade(t) /\ alive' \subseteq alive
    BY <1>3, ServerServes DEF Unmade
  <2>2. t \notin alive /\ requests[t] = <<>> /\ messages[t] = <<>> /\ Rooms!Of(t) = {}
    BY <2>1 DEF Unborn
  <2>3. ~Rooms!Stands(t)
    <3>1. t[1] \in Clients /\ t[2] \in Nat
      BY FeedsAssumption DEF Rooms!Sockets
    <3>2. conn[t[1]] \in Nat
      BY <3>1, OfClient
    <3> QED
      BY <2>1, <3>1, <3>2 DEF Rooms!Stands, Unmade
  <2>4. requests'[t] = requests[t] /\ messages'[t] = messages[t]
    BY <1>3, <2>2, <2>3, ServerServes
  <2>5. \A p \in present' : p.socket = t => p \in present
    BY <1>3, <2>2, ServerServes
  <2> QED
    BY <2>1, <2>2, <2>4, <2>5 DEF Rooms!Of
<1>4. CASE Rooms!Restart
  BY <1>4 DEF Rooms!Restart, Unborn, Rooms!Of
<1> QED
  BY <1>1, <1>2, <1>3, <1>4, Sides

LEMMA KnownHolds == ASSUME RoomsShape, Known, Rooms!Next PROVE Known'
<1>0. requests \in Queues
  BY DEF RoomsShape, ServerTypes
<1>1. ASSUME NEW c \in Clients,
             \/ Rooms!Subscribe(c) \/ Rooms!Unsubscribe(c) \/ Rooms!Receive(c)
             \/ Rooms!Break(c) \/ \E u \in Users : Rooms!Track(c, u)
      PROVE  Known'
  BY <1>1, ClientsOwn DEF Known
<1>2. ASSUME NEW c \in Clients, Rooms!Connect(c) PROVE Known'
  BY <1>2, Connects DEF Known
<1>3. ASSUME NEW s \in Rooms!Sockets, NEW i \in DOMAIN requests[s], Rooms!JoinPresence(s, i) PROVE Known'
  BY <1>0, <1>3, Resumed DEF Rooms!JoinPresence, Rooms!Enter, Known
<1>4. ASSUME NEW s \in Rooms!Sockets, NEW i \in DOMAIN requests[s], Rooms!LeavePresence(s, i) PROVE Known'
  <2>1. incidents \subseteq incidents'
    BY <1>0, <1>4, Resumed DEF Rooms!LeavePresence
  <2>2. \A p \in present' : p \in present /\ p.socket # s
    BY <1>4 DEF Rooms!LeavePresence, Rooms!RemoveFromRoom, Rooms!Of
  <2> QED
    BY <1>4, <2>1, <2>2 DEF Rooms!LeavePresence, Known
<1>5. ASSUME NEW s \in Rooms!Sockets, NEW i \in DOMAIN requests[s], Rooms!TakePresence(s, i) PROVE Known'
  <2>1. incidents \subseteq incidents' /\ ("late" \notin incidents' => s \in alive)
    BY <1>0, <1>5, Resumed DEF Rooms!TakePresence
  <2>2. \A p \in present' : p \in present \/ p.socket = s
    BY <1>5 DEF Rooms!TakePresence, Rooms!Upsert
  <2> QED
    BY <1>5, <2>1, <2>2 DEF Rooms!TakePresence, Rooms!Enter, Known
<1>6. ASSUME NEW s \in Rooms!Sockets, NEW i \in DOMAIN requests[s], Rooms!Deny(s, i) PROVE Known'
  BY <1>6 DEF Rooms!Deny, Rooms!Mark, Rooms!server, Known
<1>7. ASSUME NEW s \in Rooms!Sockets, Rooms!Disconnect(s) PROVE Known'
  <2>1. "late" \notin incidents => \A p \in present' : p \in present /\ p.socket # s
    BY <1>7 DEF Rooms!Disconnect, Rooms!Of, Known
  <2> QED
    BY <1>7, <2>1 DEF Rooms!Disconnect, Known
<1>8. CASE Rooms!Restart
  BY <1>8 DEF Rooms!Restart, Known
<1> QED
  BY <1>1, <1>2, <1>3, <1>4, <1>5, <1>6, <1>7, <1>8, Sides

LEMMA RefsHold == ASSUME RoomsShape, RefsApart, Rooms!Next PROVE RefsApart'
<1>0. present \subseteq Entries /\ refs \in Nat /\ \A p \in Entries : p.ref \in Nat
  BY DEF RoomsShape, ServerTypes, Entries
<1>1. ASSUME present' \subseteq present, refs' = refs PROVE RefsApart'
  BY <1>1 DEF RefsApart
<1>2. ASSUME NEW s \in Rooms!Sockets, NEW i \in DOMAIN requests[s], Rooms!TakePresence(s, i)
      PROVE  RefsApart'
  <2> DEFINE entry == [user |-> requests[s][i].user, socket |-> s, ref |-> refs + 1]
  <2>1. refs' = refs + 1 /\ entry.ref = refs + 1 /\ \A p \in present' : p \in present \/ p = entry
    BY <1>2 DEF Rooms!TakePresence, Rooms!Upsert
  <2> HIDE DEF entry
  <2>2. \A p \in present : p.ref \in Nat /\ p.ref <= refs
    BY <1>0 DEF RefsApart
  <2>3. \A p \in present' : p.ref <= refs'
    BY <1>0, <2>1, <2>2
  <2>4. ASSUME NEW p \in present', NEW q \in present', p.ref = q.ref PROVE p = q
    BY <1>0, <2>1, <2>2, <2>4 DEF RefsApart
  <2> QED
    BY <2>3, <2>4 DEF RefsApart
<1>3. ASSUME NEW s \in Rooms!Sockets, NEW i \in DOMAIN requests[s],
             Rooms!JoinPresence(s, i) \/ Rooms!LeavePresence(s, i) \/ Rooms!Deny(s, i)
      PROVE  RefsApart'
  BY <1>1, <1>3 DEF Rooms!JoinPresence, Rooms!LeavePresence, Rooms!RemoveFromRoom, Rooms!Deny, Rooms!server
<1>4. ASSUME NEW s \in Rooms!Sockets, Rooms!Disconnect(s) PROVE RefsApart'
  BY <1>1, <1>4 DEF Rooms!Disconnect
<1>5. ASSUME NEW c \in Clients,
             \/ Rooms!Subscribe(c) \/ Rooms!Unsubscribe(c) \/ Rooms!Receive(c)
             \/ Rooms!Break(c) \/ \E u \in Users : Rooms!Track(c, u)
      PROVE  RefsApart'
  BY <1>1, <1>5, ClientsOwn
<1>6. ASSUME NEW c \in Clients, Rooms!Connect(c) PROVE RefsApart'
  BY <1>1, <1>6, Connects
<1>7. CASE Rooms!Restart
  BY <1>1, <1>7 DEF Rooms!Restart
<1> QED
  BY <1>2, <1>3, <1>4, <1>5, <1>6, <1>7, Sides

\* Since refs are apart, what leaves the entries leaves the metas.
LEMMA MetasApart ==
  ASSUME RefsApart, NEW E, E \subseteq present
  PROVE  Rooms!Metas(present \ E) = Rooms!Metas(present) \ Rooms!Metas(E)
<1>1. \A p, q \in present : [user |-> p.user, ref |-> p.ref] = [user |-> q.user, ref |-> q.ref] => p = q
  BY DEF RefsApart
<1> QED
  BY <1>1 DEF Rooms!Metas

-----------------------------------------------------------------------------
(* Presence: what a view follows, and whom a client tracks.                 *)

Away == {Rooms!Leave}
Presence(u) == [kind |-> "presence", user |-> u]
Waits(s, r) == After(requests[s], r, Away)
Stays(s) == ~Leaving(requests[s], Away)

\* A subscriber's join is on its way, or its view and the messages to it lead to what is present.
Follows(c) == up[c] /\ room[c] =>
  \/ Waits(Rooms!Socket(c), Rooms!Join)
  \/ /\ Stays(Rooms!Socket(c)) /\ Rooms!Socket(c) \in members
     /\ Leads(view[c], messages[Rooms!Socket(c)], Rooms!Metas(present))
Followed == ~Overtaken => \A c \in Clients : Follows(c)

\* A client is, or is about to be, present as those it tracks.
IsPresent(s, u) == \E p \in present : p.socket = s /\ p.user = u
Tracks(c, u) == u \in intended[c] <=>
  IF up[c] THEN Waits(Rooms!Socket(c), Presence(u)) \/ (Stays(Rooms!Socket(c)) /\ IsPresent(Rooms!Socket(c), u))
  ELSE After(buffer[c], Presence(u), Away)
Tracked == ~Overtaken => \A c \in Clients, u \in Users : Tracks(c, u)

LEMMA RequestsApart ==
  /\ Rooms!Join \notin Away /\ Rooms!Leave \in Away
  /\ \A u \in Users : Presence(u) \in Rooms!Request /\ Presence(u) \notin Away /\ Presence(u) # Rooms!Join
  /\ \A u, v : Presence(u) = Presence(v) => u = v
  BY RequestKinds DEF Away, Presence

\* Whose connection and requests are left alone follows and tracks as before.
LEMMA LeftAlone ==
  ASSUME RoomsShape, Connected, NEW d \in Clients,
         UNCHANGED <<members, present>>, conn'[d] = conn[d], up'[d] = up[d],
         buffer'[d] = buffer[d], intended'[d] = intended[d], room'[d] = room[d], view'[d] = view[d],
         Rooms!Socket(d) \in Rooms!Sockets =>
           /\ requests'[Rooms!Socket(d)] = requests[Rooms!Socket(d)]
           /\ messages'[Rooms!Socket(d)] = messages[Rooms!Socket(d)]
  PROVE  /\ Follows(d) => Follows(d)'
         /\ \A u \in Users : Tracks(d, u) => Tracks(d, u)'
<1>1. Rooms!Socket(d)' = Rooms!Socket(d)
  BY DEF Rooms!Socket
<1>2. ASSUME up[d]
      PROVE  /\ requests'[Rooms!Socket(d)] = requests[Rooms!Socket(d)]
             /\ messages'[Rooms!Socket(d)] = messages[Rooms!Socket(d)]
  BY <1>2 DEF Connected, RoomsShape, ServerTypes
<1>3. Follows(d) => Follows(d)'
  BY <1>1, <1>2 DEF Follows, Waits, Stays
<1>4. ASSUME NEW u \in Users, Tracks(d, u) PROVE Tracks(d, u)'
  <2>1. CASE up[d]
    BY <1>1, <1>2, <1>4, <2>1 DEF Tracks, Waits, Stays, IsPresent
  <2>2. CASE ~up[d]
    BY <1>4, <2>2 DEF Tracks
  <2> QED
    BY <2>1, <2>2
<1> QED
  BY <1>3, <1>4

\* A request that is sent on a standing connection, or kept until there is one.
LEMMA Emitted ==
  ASSUME RoomsShape, Connected, NEW c \in Clients, NEW r \in Rooms!Request, Rooms!Emit(c, r),
         UNCHANGED <<conn, up>>
  PROVE  /\ Rooms!Socket(c)' = Rooms!Socket(c)
         /\ up[c] => /\ requests[Rooms!Socket(c)] \in Seq(Rooms!Request)
                     /\ requests'[Rooms!Socket(c)] = Append(requests[Rooms!Socket(c)], r)
                     /\ Rooms!Socket(c) \in Rooms!Sockets
         /\ ~up[c] => buffer[c] \in Seq(Rooms!Request) /\ buffer'[c] = Append(buffer[c], r)
<1>1. Rooms!Socket(c)' = Rooms!Socket(c)
  BY DEF Rooms!Socket
<1>2. CASE up[c]
  <2>1. requests' = [requests EXCEPT ![Rooms!Socket(c)] = Append(@, r)]
    BY <1>2 DEF Rooms!Emit
  <2>2. Rooms!Socket(c) \in Rooms!Sockets
    BY <1>2 DEF Connected, RoomsShape, ServerTypes
  <2> QED
    BY <1>1, <1>2, <2>1, <2>2 DEF RoomsShape, ServerTypes, Queues
<1>3. CASE ~up[c]
  <2>1. buffer' = [buffer EXCEPT ![c] = Append(@, r)]
    BY <1>3 DEF Rooms!Emit
  <2> QED
    BY <1>1, <1>3, <2>1 DEF RoomsShape, ClientTypes
<1> QED
  BY <1>2, <1>3

LEMMA CallsFollow ==
  ASSUME RoomsShape, Connected, NEW c \in Clients, Follows(c),
         \/ Rooms!Subscribe(c) \/ Rooms!Unsubscribe(c) \/ Rooms!Receive(c)
         \/ Rooms!Break(c) \/ \E u \in Users : Rooms!Track(c, u)
  PROVE  Follows(c)'
<1>1. CASE Rooms!Subscribe(c)
  <2> SUFFICES ASSUME up'[c] PROVE Waits(Rooms!Socket(c), Rooms!Join)'
    BY DEF Follows
  <2>1. up[c] /\ Rooms!Emit(c, Rooms!Join) /\ UNCHANGED <<conn, up>>
    BY <1>1 DEF Rooms!Subscribe
  <2>2. /\ Rooms!Socket(c)' = Rooms!Socket(c)
        /\ requests[Rooms!Socket(c)] \in Seq(Rooms!Request)
        /\ requests'[Rooms!Socket(c)] = Append(requests[Rooms!Socket(c)], Rooms!Join)
    BY <2>1, RequestKinds, Emitted
  <2>3. After(Append(requests[Rooms!Socket(c)], Rooms!Join), Rooms!Join, Away)
    BY <2>2, RequestKinds, RequestsApart, AfterAppend
  <2> QED
    BY <2>2, <2>3 DEF Waits
<1>2. CASE Rooms!Unsubscribe(c)
  BY <1>2 DEF Rooms!Unsubscribe, RoomsShape, ClientTypes, Follows
<1>3. CASE Rooms!Receive(c)
  <2> SUFFICES ASSUME up'[c], room'[c], ~Waits(Rooms!Socket(c), Rooms!Join)'
               PROVE  (/\ Stays(Rooms!Socket(c)) /\ Rooms!Socket(c) \in members
                       /\ Leads(view[c], messages[Rooms!Socket(c)], Rooms!Metas(present)))'
    BY DEF Follows
  <2> DEFINE s == Rooms!Socket(c)
  <2>1. /\ up[c] /\ room[c] /\ s' = s
        /\ UNCHANGED <<requests, members, present>> /\ messages[s] # <<>>
        /\ messages' = [messages EXCEPT ![s] = Tail(@)]
    BY <1>3 DEF Rooms!Receive, Rooms!server, Rooms!sdk, Rooms!Socket
  <2>2. s \in Rooms!Sockets
    BY <2>1 DEF Connected, RoomsShape, ServerTypes
  <2>3. messages[s] \in Seq(Note) /\ messages'[s] = Tail(messages[s])
    BY <2>1, <2>2 DEF RoomsShape, ServerTypes, Mails
  <2>4. view'[c] = Apply(view[c], Head(messages[s]))
    BY <1>3, <2>1 DEF Rooms!Receive, Apply, RoomsShape, ClientTypes
  <2>5. ~Waits(s, Rooms!Join)
    BY <2>1 DEF Waits
  <2>6. Stays(s) /\ s \in members /\ Leads(view[c], messages[s], Rooms!Metas(present))
    BY <2>1, <2>5 DEF Follows
  <2>7. Leads(view'[c], messages'[s], Rooms!Metas(present))
    BY <2>1, <2>3, <2>4, <2>6, LeadsOn
  <2>8. Stays(s)'
    BY <2>1, <2>6 DEF Stays
  <2>9. Rooms!Metas(present') = Rooms!Metas(present)
    BY <2>1
  <2> HIDE DEF s
  <2> QED
    BY <2>1, <2>6, <2>7, <2>8, <2>9 DEF s
<1>4. CASE Rooms!Break(c)
  BY <1>4 DEF Rooms!Break, RoomsShape, ClientTypes, Follows
<1>5. ASSUME NEW u \in Users, Rooms!Track(c, u) PROVE Follows(c)'
  <2> DEFINE s == Rooms!Socket(c)
  <2>1. /\ UNCHANGED <<conn, up, room, view, members, present, messages>>
        /\ Rooms!Emit(c, Presence(u))
    BY <1>5 DEF Rooms!Track, Rooms!server, Presence
  <2>2. /\ s' = s
        /\ up[c] => requests[s] \in Seq(Rooms!Request) /\ requests'[s] = Append(requests[s], Presence(u))
    BY <2>1, RequestsApart, Emitted
  <2>3. ASSUME up[c]
        PROVE  (Waits(s, Rooms!Join)' <=> Waits(s, Rooms!Join)) /\ (Stays(s)' <=> Stays(s))
    <3>1. /\ Leaving(Append(requests[s], Presence(u)), Away) <=> Leaving(requests[s], Away)
          /\ After(Append(requests[s], Presence(u)), Rooms!Join, Away) <=>
               Presence(u) = Rooms!Join \/ After(requests[s], Rooms!Join, Away)
      BY <2>2, <2>3, RequestsApart, AfterAppend
    <3>2. Presence(u) # Rooms!Join
      BY RequestsApart
    <3>3. requests'[s] = Append(requests[s], Presence(u)) /\ s' = s
      BY <2>2, <2>3
    <3> HIDE DEF s
    <3> QED
      BY <3>1, <3>2, <3>3 DEF Waits, Stays
  <2> HIDE DEF s
  <2> QED
    BY <2>1, <2>2, <2>3 DEF Follows, s
<1> QED
  BY <1>1, <1>2, <1>3, <1>4, <1>5

LEMMA ConnectFollows == ASSUME RoomsShape, NEW c \in Clients, Rooms!Connect(c) PROVE Follows(c)'
<1> SUFFICES ASSUME room[c] PROVE Waits(Rooms!Socket(c), Rooms!Join)'
  BY Connects DEF Follows
<1> DEFINE n == 1 + waiting[c]
           joins == [i \in 1..n |-> Rooms!Join]
<1>1. n \in Nat /\ 1 \in 1..n
  BY DEF RoomsShape, ClientTypes
<1>2. requests'[Rooms!Socket(c)'] = buffer[c] \o joins
  BY Connects
<1>3. joins \in Seq(Rooms!Request) /\ DOMAIN joins = 1..n /\ \A i \in 1..n : joins[i] = Rooms!Join
  BY <1>1, RequestKinds
<1>4. buffer[c] \in Seq(Rooms!Request)
  BY DEF RoomsShape, ClientTypes
<1> HIDE DEF joins
<1>5. \A i \in DOMAIN joins : joins[i] \notin Away
  BY <1>3, RequestsApart
<1>6. \E i \in DOMAIN joins : joins[i] = Rooms!Join
  BY <1>1, <1>3
<1>7. After(buffer[c] \o joins, Rooms!Join, Away)
  BY <1>3, <1>4, <1>5, <1>6, AfterJoined
<1> QED
  BY <1>2, <1>7 DEF Waits

LEMMA CallsTrack ==
  ASSUME RoomsShape, Connected, NEW c \in Clients, \A u \in Users : Tracks(c, u),
         \/ Rooms!Subscribe(c) \/ Rooms!Unsubscribe(c) \/ Rooms!Receive(c)
         \/ Rooms!Break(c) \/ \E u \in Users : Rooms!Track(c, u),
         NEW v \in Users
  PROVE  Tracks(c, v)'
<1> DEFINE s == Rooms!Socket(c)
<1>0. /\ Rooms!Join \in Rooms!Request /\ Rooms!Join \notin Away /\ Rooms!Join # Presence(v)
      /\ Rooms!Leave \in Rooms!Request /\ Rooms!Leave \in Away
  BY RequestKinds, RequestsApart
<1>1. CASE Rooms!Subscribe(c)
  <2>1. /\ UNCHANGED <<conn, up, present, intended>>
        /\ up[c] => Rooms!Emit(c, Rooms!Join)
        /\ ~up[c] => UNCHANGED buffer
    BY <1>1 DEF Rooms!Subscribe, Rooms!server
  <2>2. s' = s
    BY <2>1 DEF Rooms!Socket
  <2>3. CASE up[c]
    <3>1. requests[s] \in Seq(Rooms!Request) /\ requests'[s] = Append(requests[s], Rooms!Join)
      BY <1>0, <2>1, <2>3, Emitted
    <3>2. /\ Leaving(Append(requests[s], Rooms!Join), Away) <=> Leaving(requests[s], Away)
          /\ After(Append(requests[s], Rooms!Join), Presence(v), Away) <=> After(requests[s], Presence(v), Away)
      BY <1>0, <3>1, AfterAppend
    <3> HIDE DEF s
    <3> QED
      BY <2>1, <2>2, <2>3, <3>1, <3>2 DEF Tracks, Waits, Stays, IsPresent, s
  <2>4. CASE ~up[c]
    BY <2>1, <2>4 DEF Tracks
  <2> QED
    BY <2>3, <2>4
<1>2. CASE Rooms!Unsubscribe(c)
  <2>1. /\ UNCHANGED <<conn, up, present>> /\ Rooms!Emit(c, Rooms!Leave)
    BY <1>2 DEF Rooms!Unsubscribe, Rooms!server
  <2>2. v \notin intended'[c]
    BY <1>2 DEF Rooms!Unsubscribe, RoomsShape, ClientTypes
  <2>3. s' = s
    BY <2>1 DEF Rooms!Socket
  <2>4. CASE up[c]
    <3>1. requests[s] \in Seq(Rooms!Request) /\ requests'[s] = Append(requests[s], Rooms!Leave)
      BY <1>0, <2>1, <2>4, Emitted
    <3>2. /\ Leaving(Append(requests[s], Rooms!Leave), Away)
          /\ ~After(Append(requests[s], Rooms!Leave), Presence(v), Away)
      BY <1>0, <3>1, AfterAppend
    <3> HIDE DEF s
    <3> QED
      BY <2>1, <2>2, <2>3, <2>4, <3>1, <3>2 DEF Tracks, Waits, Stays, s
  <2>5. CASE ~up[c]
    <3>1. buffer[c] \in Seq(Rooms!Request) /\ buffer'[c] = Append(buffer[c], Rooms!Leave)
      BY <1>0, <2>1, <2>5, Emitted
    <3>2. ~After(Append(buffer[c], Rooms!Leave), Presence(v), Away)
      BY <1>0, <3>1, AfterAppend
    <3> QED
      BY <2>1, <2>2, <2>5, <3>1, <3>2 DEF Tracks
  <2> QED
    BY <2>4, <2>5
<1>3. CASE Rooms!Receive(c)
  <2>1. UNCHANGED <<conn, up, buffer, present, intended, requests>>
    BY <1>3 DEF Rooms!Receive, Rooms!server, Rooms!sdk
  <2>2. s' = s
    BY <2>1 DEF Rooms!Socket
  <2> QED
    BY <2>1, <2>2 DEF Tracks, Waits, Stays, IsPresent
<1>4. CASE Rooms!Break(c)
  <2>1. up[c] /\ buffer' = buffer /\ ~up'[c] /\ intended'[c] = {}
    BY <1>4 DEF Rooms!Break, RoomsShape, ClientTypes
  <2>2. buffer'[c] = <<>>
    BY <2>1 DEF Connected
  <2>3. ~After(<<>>, Presence(v), Away)
    BY DEF After
  <2> QED
    BY <2>1, <2>2, <2>3 DEF Tracks
<1>5. ASSUME NEW u \in Users, Rooms!Track(c, u) PROVE Tracks(c, v)'
  <2>1. /\ UNCHANGED <<conn, up, present>> /\ Rooms!Emit(c, Presence(u))
    BY <1>5 DEF Rooms!Track, Rooms!server, Presence
  <2>2. v \in intended'[c] <=> v = u \/ v \in intended[c]
    BY <1>5 DEF Rooms!Track, RoomsShape, ClientTypes
  <2>3. s' = s
    BY <2>1 DEF Rooms!Socket
  <2>4. /\ Presence(u) \in Rooms!Request /\ Presence(u) \notin Away
        /\ Presence(u) = Presence(v) <=> u = v
    BY RequestsApart
  <2>5. CASE up[c]
    <3>1. requests[s] \in Seq(Rooms!Request) /\ requests'[s] = Append(requests[s], Presence(u))
      BY <2>1, <2>4, <2>5, Emitted
    <3>2. /\ Leaving(Append(requests[s], Presence(u)), Away) <=> Leaving(requests[s], Away)
          /\ After(Append(requests[s], Presence(u)), Presence(v), Away)
               <=> u = v \/ After(requests[s], Presence(v), Away)
      BY <2>4, <3>1, AfterAppend
    <3> HIDE DEF s
    <3> QED
      BY <2>1, <2>2, <2>3, <2>5, <3>1, <3>2 DEF Tracks, Waits, Stays, IsPresent, s
  <2>6. CASE ~up[c]
    <3>1. buffer[c] \in Seq(Rooms!Request) /\ buffer'[c] = Append(buffer[c], Presence(u))
      BY <2>1, <2>4, <2>6, Emitted
    <3>2. After(Append(buffer[c], Presence(u)), Presence(v), Away) <=> u = v \/ After(buffer[c], Presence(v), Away)
      BY <2>4, <3>1, AfterAppend
    <3> QED
      BY <2>1, <2>2, <2>6, <3>1, <3>2 DEF Tracks
  <2> QED
    BY <2>5, <2>6
<1> QED
  BY <1>1, <1>2, <1>3, <1>4, <1>5

LEMMA ConnectTracks ==
  ASSUME RoomsShape, Unborn, NEW c \in Clients, Rooms!Connect(c), NEW u \in Users, Tracks(c, u)
  PROVE  Tracks(c, u)'
<1> DEFINE s == <<c, conn[c] + 1>>
           n == IF room[c] THEN 1 + waiting[c] ELSE 0
           joins == [i \in 1..n |-> Rooms!Join]
<1>1. n \in Nat
  BY DEF RoomsShape, ClientTypes
<1>2. requests'[s] = buffer[c] \o joins
  BY Connects
<1>3. joins \in Seq(Rooms!Request) /\ DOMAIN joins = 1..n /\ \A i \in 1..n : joins[i] = Rooms!Join
  BY <1>1, RequestKinds
<1>4. buffer[c] \in Seq(Rooms!Request)
  BY DEF RoomsShape, ClientTypes
<1> HIDE DEF joins
<1>5. /\ \A i \in DOMAIN joins : joins[i] \notin Away
      /\ ~\E i \in DOMAIN joins : joins[i] = Presence(u)
  BY <1>3, RequestsApart
<1>6. After(buffer[c] \o joins, Presence(u), Away) <=> After(buffer[c], Presence(u), Away)
  BY <1>3, <1>4, <1>5, AfterJoined
<1>7. /\ s \in Rooms!Sockets /\ s = Rooms!Socket(c)' /\ Unmade(s) /\ ~up[c] /\ up'[c]
      /\ UNCHANGED <<present, intended>>
  BY Connects
<1>8. \A p \in present' : p.socket # s
  BY <1>7 DEF Unborn, Rooms!Of
<1> HIDE DEF s
<1>9. ~IsPresent(Rooms!Socket(c), u)'
  BY <1>7, <1>8 DEF IsPresent
<1>10. Waits(Rooms!Socket(c), Presence(u))' <=> After(buffer[c], Presence(u), Away)
  BY <1>2, <1>6, <1>7 DEF Waits
<1> QED
  BY <1>7, <1>9, <1>10 DEF Tracks

\* A diff of what leaves and joins reaches a socket in the room, whatever is on its way.
LEMMA DiffReaches ==
  ASSUME RoomsShape, RefsApart, NEW s \in Rooms!Sockets, NEW bag, NEW to, s \in to, Rooms!Stands(s),
         NEW J, NEW L, L \subseteq present, J \subseteq Entries, \A p \in J : p.ref > refs,
         present' = (present \ L) \cup J,
         Rooms!Send(to, Rooms!Diff(J, L)),
         Leads(bag, messages[s], Rooms!Metas(present))
  PROVE  Leads(bag, messages'[s], Rooms!Metas(present'))
<1> DEFINE m == Rooms!Diff(J, L)
<1>0. messages \in Mails /\ messages[s] \in Seq(Note) /\ present \subseteq Entries /\ refs \in Nat
  BY DEF RoomsShape, ServerTypes, Mails
<1>1. m \in Note /\ m.kind # "state" /\ m.joins = Rooms!Metas(J) /\ m.leaves = Rooms!Metas(L)
  BY <1>0, Diffs
<1> HIDE DEF m
<1>2. messages'[s] = Append(messages[s], m)
  BY <1>0, <1>1, SentNotes DEF m
<1>3. Rooms!Metas(present \ L) = Rooms!Metas(present) \ Rooms!Metas(L)
  BY MetasApart
<1>4. Rooms!Metas(present') = Rooms!Metas(present \ L) \cup Rooms!Metas(J)
  BY DEF Rooms!Metas
<1>5. Rooms!Metas(J) \cap Rooms!Metas(present \ L) = {}
  <2> SUFFICES ASSUME NEW p \in J, NEW q \in present, [user |-> p.user, ref |-> p.ref] = [user |-> q.user, ref |-> q.ref]
               PROVE  FALSE
    BY DEF Rooms!Metas
  <2>1. p.ref = q.ref /\ p.ref \in Nat /\ p.ref > refs /\ q.ref <= refs
    BY <1>0 DEF RefsApart, Entries
  <2> QED
    BY <1>0, <2>1
<1>6. Turns(Rooms!Metas(present), m, Rooms!Metas(present'))
  BY <1>1, <1>3, <1>4, <1>5 DEF Turns
<1> QED
  BY <1>0, <1>1, <1>2, <1>6, LeadsFurther

\* What the server does for a socket, said of the requests and of who is present.
LEMMA RemovedFrom ==
  ASSUME RoomsShape, RefsApart, NEW s \in Rooms!Sockets, NEW to,
         present' = present \ Rooms!Of(s),
         IF Rooms!Of(s) # {} THEN Rooms!Send(to, Rooms!Diff({}, Rooms!Of(s))) ELSE UNCHANGED messages,
         NEW t \in Rooms!Sockets, t \in to, Rooms!Stands(t), NEW bag,
         Leads(bag, messages[t], Rooms!Metas(present))
  PROVE  Leads(bag, messages'[t], Rooms!Metas(present'))
<1>1. CASE Rooms!Of(s) # {}
  <2>1. Rooms!Of(s) \subseteq present
    BY EntriesOf DEF RoomsShape, ServerTypes
  <2>2. present' = (present \ Rooms!Of(s)) \cup {}
    OBVIOUS
  <2> QED
    BY <1>1, <2>1, <2>2, DiffReaches
<1>2. CASE Rooms!Of(s) = {}
  <2>1. present' = present /\ messages' = messages
    BY <1>2
  <2> QED
    BY <2>1
<1> QED
  BY <1>1, <1>2

\* A request that takes nothing back is carried out.
LEMMA CarriedOut ==
  ASSUME requests \in Queues, NEW s \in Rooms!Sockets, NEW i \in DOMAIN requests[s],
         Rooms!Resume(s, i), ~Overtaken', requests[s][i] # Rooms!Leave
  PROVE  /\ Stays(s)' <=> Stays(s)
         /\ \A r : Waits(s, r)' => Waits(s, r)
         /\ \A r : Waits(s, r) /\ (requests[s][i] # r \/ ~Stays(s)) => Waits(s, r)'
<1>1. /\ requests[s] \in Seq(Rooms!Request) /\ requests'[s] = Sends!RemoveAt(requests[s], i)
      /\ \A j \in DOMAIN requests[s] : j < i => requests[s][j] \notin Away
      /\ requests[s][i] \notin Away
  BY Resumed, ResumeTypes DEF Away
<1> QED
  BY <1>1, AfterRemoved DEF Stays, Waits

\* The first request is carried out, a leave.
LEMMA LeaveCarriedOut ==
  ASSUME requests \in Queues, NEW s \in Rooms!Sockets, NEW i \in DOMAIN requests[s],
         Rooms!Resume(s, i), ~Overtaken', requests[s][i] = Rooms!Leave
  PROVE  ~Stays(s) /\ \A r : Waits(s, r)' <=> Waits(s, r)
<1>1. /\ requests[s] \in Seq(Rooms!Request) /\ requests'[s] = Sends!RemoveAt(requests[s], 1)
      /\ requests[s][1] \in Away /\ requests[s] # <<>> /\ i = 1
  BY Resumed, ResumeTypes DEF Away
<1>2. ~Stays(s)
  BY <1>1 DEF Stays, Leaving
<1> QED
  BY <1>1, <1>2, AfterFirst DEF Waits

LEMMA ServerFollows ==
  ASSUME RoomsShape, Connected, RefsApart, NEW s \in Rooms!Sockets, ~Overtaken',
         \/ \E i \in DOMAIN requests[s] : \/ Rooms!JoinPresence(s, i) \/ Rooms!LeavePresence(s, i)
                                          \/ Rooms!TakePresence(s, i) \/ Rooms!Deny(s, i)
         \/ Rooms!Disconnect(s),
         NEW c \in Clients, Follows(c)
  PROVE  Follows(c)'
<1>0. UNCHANGED <<conn, up, room, view>> /\ Rooms!Socket(c)' = Rooms!Socket(c)
  BY ServerServes DEF Rooms!Socket
<1>s. CASE ~(up[c] /\ room[c])
  BY <1>0, <1>s DEF Follows
<1>r. up[c] => Rooms!Socket(c) \in Rooms!Sockets
  BY DEF Connected, RoomsShape, ServerTypes
<1> SUFFICES ASSUME up[c], room[c], NEW t \in Rooms!Sockets, t = Rooms!Socket(c) PROVE Follows(c)'
  BY <1>s, <1>r
<1> SUFFICES ASSUME up[c], room[c], ~Waits(t, Rooms!Join)'
             PROVE  Stays(t)' /\ t \in members' /\ Leads(view[c], messages'[t], Rooms!Metas(present'))
  BY <1>0 DEF Follows, Waits, Stays
<1>1. requests \in Queues /\ messages \in Mails /\ present \subseteq Entries /\ refs \in Nat
  BY DEF RoomsShape, ServerTypes
<1>2. t \in Rooms!Sockets /\ Rooms!Stands(t)
  BY OfClient DEF Connected, RoomsShape, ServerTypes
<1>3. Waits(t, Rooms!Join) \/ (Stays(t) /\ t \in members /\ Leads(view[c], messages[t], Rooms!Metas(present)))
  BY DEF Follows
<1>4. t # s => (Waits(t, Rooms!Join)' <=> Waits(t, Rooms!Join)) /\ (Stays(t)' <=> Stays(t))
  <2>1. t # s => requests'[t] = requests[t]
    BY <1>2, ServerServes
  <2> QED
    BY <1>0, <2>1 DEF Waits, Stays
<1>5. Rooms!Join # Rooms!Leave
  BY RequestKinds
<1>6. ASSUME NEW i \in DOMAIN requests[s], Rooms!JoinPresence(s, i)
      PROVE  Stays(t)' /\ t \in members' /\ Leads(view[c], messages'[t], Rooms!Metas(present'))
  <2> DEFINE m == [kind |-> "state", state |-> Rooms!Metas(present)]
  <2>1. /\ Rooms!Resume(s, i) /\ requests[s][i].kind = "join" /\ members' = members \cup {s}
        /\ Rooms!Send({s}, m) /\ present' = present
    BY <1>6 DEF Rooms!JoinPresence, Rooms!Enter
  <2>2. requests[s][i] = Rooms!Join
    BY <1>1, <2>1, ResumeTypes, Resumed, RequestKinds
  <2>3. m \in Note
    BY <1>1, MetasTold DEF Note
  <2>4. CASE t = s
    <3>0. m.kind = "state" /\ m.state = Rooms!Metas(present)
      OBVIOUS
    <3> HIDE DEF m
    <3>1. messages'[s] = Append(messages[s], m) /\ messages[s] \in Seq(Note)
      BY <1>1, <1>2, <2>1, <2>3, <2>4, SentNotes DEF Mails
    <3>2. Leads(view[c], messages'[s], Rooms!Metas(present))
      BY <2>3, <3>0, <3>1, LeadsAnew
    <3>3. Stays(s)' <=> Stays(s)
      BY <1>1, <1>5, <2>1, <2>2, CarriedOut DEF Waits, Stays
    <3>4. Waits(s, Rooms!Join) /\ ~Stays(s) => Waits(s, Rooms!Join)'
      BY <1>1, <1>5, <2>1, <2>2, CarriedOut DEF Waits, Stays
    <3> QED
      BY <1>3, <2>1, <2>4, <3>2, <3>3, <3>4 DEF Waits, Stays, IsPresent
  <2>5. CASE t # s
    <3>1. messages'[t] = messages[t]
      BY <1>1, <1>2, <2>1, <2>3, <2>5, SentNotes
    <3> QED
      BY <1>3, <1>4, <2>1, <2>5, <3>1
  <2> QED
    BY <2>4, <2>5
<1>7. ASSUME NEW i \in DOMAIN requests[s], Rooms!LeavePresence(s, i)
      PROVE  Stays(t)' /\ t \in members' /\ Leads(view[c], messages'[t], Rooms!Metas(present'))
  <2>1. /\ Rooms!Resume(s, i) /\ requests[s][i].kind = "leave" /\ members' = members \ {s}
        /\ Rooms!RemoveFromRoom(s)
    BY <1>7 DEF Rooms!LeavePresence
  <2>2. requests[s][i] = Rooms!Leave
    BY <1>1, <2>1, ResumeTypes, Resumed, RequestKinds
  <2>3. t # s
    BY <1>1, <1>3, <2>1, <2>2, LeaveCarriedOut DEF Waits, Stays
  <2>4. Stays(t) /\ t \in members /\ Leads(view[c], messages[t], Rooms!Metas(present))
    BY <1>3, <1>4, <2>3
  <2>5. Leads(view[c], messages'[t], Rooms!Metas(present'))
    BY <1>2, <2>1, <2>4, RemovedFrom DEF Rooms!RemoveFromRoom
  <2> QED
    BY <1>4, <2>1, <2>3, <2>4, <2>5
<1>8. ASSUME NEW i \in DOMAIN requests[s], Rooms!TakePresence(s, i)
      PROVE  Stays(t)' /\ t \in members' /\ Leads(view[c], messages'[t], Rooms!Metas(present'))
  <2> DEFINE u == requests[s][i].user
             entry == [user |-> u, socket |-> s, ref |-> refs + 1]
             gone == Rooms!Previous(s, u)
  <2>1. /\ Rooms!Resume(s, i) /\ requests[s][i].kind = "presence" /\ members' = members \cup {s}
        /\ present' = (present \ gone) \cup {entry}
        /\ Rooms!Send(members \cup {s}, Rooms!Diff({entry}, gone))
    BY <1>8 DEF Rooms!TakePresence, Rooms!Enter, Rooms!Upsert
  <2>2. requests[s][i] = Presence(u) /\ u \in Users
    BY <1>1, <2>1, ResumeTypes, Resumed, RequestKinds DEF Presence
  <2>3. Presence(u) \notin Away /\ Presence(u) # Rooms!Join /\ Presence(u) # Rooms!Leave
    BY <2>2, RequestsApart DEF Away
  <2>4. entry \in Entries /\ entry.ref > refs
    BY <1>1, <2>2 DEF Entries
  <2>5. gone \subseteq present
    BY <1>1, EntriesOf
  <2>6. Stays(t) /\ t \in members /\ Leads(view[c], messages[t], Rooms!Metas(present)) /\ Stays(t)'
    <3>1. CASE t = s
      <4>1. /\ Stays(s)' <=> Stays(s)
            /\ Waits(s, Rooms!Join) => Waits(s, Rooms!Join)'
        BY <1>1, <2>1, <2>2, <2>3, CarriedOut DEF Waits, Stays
      <4> QED
        BY <1>3, <3>1, <4>1 DEF Waits, Stays, IsPresent
    <3>2. CASE t # s
      BY <1>3, <1>4, <3>2
    <3> QED
      BY <3>1, <3>2
  <2> HIDE DEF entry, gone
  <2>7. {entry} \subseteq Entries /\ \A p \in {entry} : p.ref > refs
    BY <2>4
  <2>8. t \in members \cup {s}
    BY <2>6
  <2>9. Leads(view[c], messages'[t], Rooms!Metas(present'))
    BY <1>2, <2>1, <2>5, <2>6, <2>7, <2>8, DiffReaches
  <2> QED
    BY <2>1, <2>6, <2>9
<1>9. ASSUME NEW i \in DOMAIN requests[s], Rooms!Deny(s, i) PROVE FALSE
  BY <1>9 DEF Rooms!Deny, Rooms!Mark, Overtaken
<1>10. CASE Rooms!Disconnect(s)
  <2>1. t # s /\ members' = members \ {s}
    BY <1>2, <1>10 DEF Rooms!Disconnect
  <2>2. Stays(t) /\ t \in members /\ Leads(view[c], messages[t], Rooms!Metas(present))
    BY <1>3, <1>4, <2>1
  <2>3. Leads(view[c], messages'[t], Rooms!Metas(present'))
    <3>1. CASE s \in recorded
      <4>1. /\ present' = present \ Rooms!Of(s)
            /\ IF Rooms!Of(s) # {} THEN Rooms!Send(members \ {s}, Rooms!Diff({}, Rooms!Of(s))) ELSE UNCHANGED messages
        BY <1>10, <3>1 DEF Rooms!Disconnect
      <4>2. t \in members \ {s}
        BY <2>1, <2>2
      <4> QED
        BY <1>2, <2>2, <4>1, <4>2, RemovedFrom
    <3>2. CASE s \notin recorded
      <4>1. present' = present /\ messages' = messages
        BY <1>10, <3>2 DEF Rooms!Disconnect
      <4> QED
        BY <2>2, <4>1
    <3> QED
      BY <3>1, <3>2
  <2> QED
    BY <1>4, <2>1, <2>2, <2>3
<1> QED
  BY <1>6, <1>7, <1>8, <1>9, <1>10

LEMMA ServerTracks ==
  ASSUME RoomsShape, Connected, NEW s \in Rooms!Sockets, ~Overtaken',
         \/ \E i \in DOMAIN requests[s] : \/ Rooms!JoinPresence(s, i) \/ Rooms!LeavePresence(s, i)
                                          \/ Rooms!TakePresence(s, i) \/ Rooms!Deny(s, i)
         \/ Rooms!Disconnect(s),
         NEW c \in Clients, NEW v \in Users, Tracks(c, v)
  PROVE  Tracks(c, v)'
<1>0. UNCHANGED <<conn, up, buffer, intended>> /\ Rooms!Socket(c)' = Rooms!Socket(c)
  BY ServerServes DEF Rooms!Socket
<1>1. CASE ~up[c]
  BY <1>0, <1>1 DEF Tracks
<1>r. up[c] => Rooms!Socket(c) \in Rooms!Sockets
  BY DEF Connected, RoomsShape, ServerTypes
<1> SUFFICES ASSUME up[c], NEW t \in Rooms!Sockets, t = Rooms!Socket(c) PROVE Tracks(c, v)'
  BY <1>1, <1>r
<1> SUFFICES Waits(t, Presence(v))' \/ (Stays(t)' /\ IsPresent(t, v)')
             <=> Waits(t, Presence(v)) \/ (Stays(t) /\ IsPresent(t, v))
  BY <1>0 DEF Tracks, Waits, Stays, IsPresent
<1>2. requests \in Queues /\ present \subseteq Entries
  BY DEF RoomsShape, ServerTypes
<1>3. t \in Rooms!Sockets /\ Rooms!Stands(t)
  BY OfClient DEF Connected, RoomsShape, ServerTypes
<1>4. t # s => (Waits(t, Presence(v))' <=> Waits(t, Presence(v))) /\ (Stays(t)' <=> Stays(t))
  <2>1. t # s => requests'[t] = requests[t]
    BY <1>3, ServerServes
  <2> QED
    BY <1>0, <2>1 DEF Waits, Stays
<1>5. Presence(v) # Rooms!Leave /\ Presence(v) # Rooms!Join /\ Rooms!Join # Rooms!Leave
  BY RequestKinds, RequestsApart DEF Away
<1>6. ASSUME present' = present \ Rooms!Of(s) \/ present' = present, t # s PROVE IsPresent(t, v)' <=> IsPresent(t, v)
  BY <1>6 DEF IsPresent, Rooms!Of
<1>7. ASSUME NEW i \in DOMAIN requests[s], Rooms!JoinPresence(s, i)
      PROVE  Waits(t, Presence(v))' \/ (Stays(t)' /\ IsPresent(t, v)')
             <=> Waits(t, Presence(v)) \/ (Stays(t) /\ IsPresent(t, v))
  <2>1. Rooms!Resume(s, i) /\ requests[s][i].kind = "join" /\ present' = present
    BY <1>7 DEF Rooms!JoinPresence
  <2>2. requests[s][i] = Rooms!Join
    BY <1>2, <2>1, ResumeTypes, Resumed, RequestKinds
  <2>3. IsPresent(t, v)' <=> IsPresent(t, v)
    BY <2>1 DEF IsPresent
  <2>4. (Waits(s, Presence(v))' <=> Waits(s, Presence(v))) /\ (Stays(s)' <=> Stays(s))
    BY <1>2, <1>5, <2>1, <2>2, CarriedOut DEF Waits, Stays
  <2> QED
    BY <1>4, <2>3, <2>4 DEF Waits, Stays, IsPresent
<1>8. ASSUME NEW i \in DOMAIN requests[s], Rooms!LeavePresence(s, i)
      PROVE  Waits(t, Presence(v))' \/ (Stays(t)' /\ IsPresent(t, v)')
             <=> Waits(t, Presence(v)) \/ (Stays(t) /\ IsPresent(t, v))
  <2>1. /\ Rooms!Resume(s, i) /\ requests[s][i].kind = "leave" /\ present' = present \ Rooms!Of(s)
    BY <1>8 DEF Rooms!LeavePresence, Rooms!RemoveFromRoom
  <2>2. requests[s][i] = Rooms!Leave
    BY <1>2, <2>1, ResumeTypes, Resumed, RequestKinds
  <2>3. CASE t = s
    <3>1. ~Stays(s) /\ (Waits(s, Presence(v))' <=> Waits(s, Presence(v)))
      BY <1>2, <2>1, <2>2, LeaveCarriedOut DEF Waits, Stays
    <3>2. ~IsPresent(t, v)'
      BY <2>1, <2>3 DEF IsPresent, Rooms!Of
    <3> QED
      BY <2>3, <3>1, <3>2 DEF Waits, Stays, IsPresent
  <2>4. CASE t # s
    BY <1>4, <1>6, <2>1, <2>4
  <2> QED
    BY <2>3, <2>4
<1>9. ASSUME NEW i \in DOMAIN requests[s], Rooms!TakePresence(s, i)
      PROVE  Waits(t, Presence(v))' \/ (Stays(t)' /\ IsPresent(t, v)')
             <=> Waits(t, Presence(v)) \/ (Stays(t) /\ IsPresent(t, v))
  <2> DEFINE u == requests[s][i].user
             entry == [user |-> u, socket |-> s, ref |-> refs + 1]
             gone == Rooms!Previous(s, u)
  <2>1. /\ Rooms!Resume(s, i) /\ requests[s][i].kind = "presence"
        /\ present' = (present \ gone) \cup {entry}
    BY <1>9 DEF Rooms!TakePresence, Rooms!Upsert
  <2>2. requests[s][i] = Presence(u) /\ u \in Users
    BY <1>2, <2>1, ResumeTypes, Resumed, RequestKinds DEF Presence
  <2>3. /\ Presence(u) # Rooms!Leave
        /\ Presence(u) = Presence(v) <=> u = v
    BY <2>2, RequestsApart DEF Away
  <2>4. \A p \in gone : p.socket = s /\ p.user = u
    BY DEF Rooms!Previous, Rooms!Of
  <2>5. entry.socket = s /\ entry.user = u
    OBVIOUS
  <2> HIDE DEF entry, gone, u
  <2>c. /\ Stays(s)' <=> Stays(s)
        /\ \A r : Waits(s, r)' => Waits(s, r)
        /\ \A r : Waits(s, r) /\ (Presence(u) # r \/ ~Stays(s)) => Waits(s, r)'
    <3>1. requests[s][i] # Rooms!Leave
      BY <2>2, <2>3
    <3> QED
      BY <1>2, <2>1, <2>2, <3>1, CarriedOut DEF Waits, Stays
  <2>6. CASE t = s /\ u = v
    <3>1. IsPresent(t, v)'
      BY <2>1, <2>5, <2>6 DEF IsPresent
    <3>2. Stays(s)' <=> Stays(s)
      BY <2>c
    <3>3. Stays(s) => Waits(s, Presence(v))
      <4>1. requests[s][i] = Presence(v)
        BY <2>2, <2>6
      <4>2. Stays(s) => ~\E j \in DOMAIN requests[s] : requests[s][j] \in Away
        BY DEF Stays, Leaving
      <4> QED
        BY <4>1, <4>2 DEF Waits, After
    <3>4. ~Stays(s) => (Waits(s, Presence(v))' <=> Waits(s, Presence(v)))
      BY <2>c DEF Waits, Stays
    <3> QED
      BY <2>6, <3>1, <3>2, <3>3, <3>4 DEF Waits, Stays, IsPresent
  <2>7. CASE t = s /\ u # v
    <3>1. (Waits(s, Presence(v))' <=> Waits(s, Presence(v))) /\ (Stays(s)' <=> Stays(s))
      BY <2>3, <2>7, <2>c DEF Waits, Stays
    <3>2. IsPresent(t, v)' <=> IsPresent(t, v)
      BY <2>1, <2>4, <2>5, <2>7 DEF IsPresent
    <3> QED
      BY <2>7, <3>1, <3>2 DEF Waits, Stays, IsPresent
  <2>8. CASE t # s
    <3>1. IsPresent(t, v)' <=> IsPresent(t, v)
      BY <2>1, <2>4, <2>5, <2>8 DEF IsPresent
    <3> QED
      BY <1>4, <2>8, <3>1
  <2> QED
    BY <2>6, <2>7, <2>8
<1>10. ASSUME NEW i \in DOMAIN requests[s], Rooms!Deny(s, i) PROVE FALSE
  BY <1>10 DEF Rooms!Deny, Rooms!Mark, Overtaken
<1>11. ASSUME Rooms!Disconnect(s)
       PROVE  Waits(t, Presence(v))' \/ (Stays(t)' /\ IsPresent(t, v)')
              <=> Waits(t, Presence(v)) \/ (Stays(t) /\ IsPresent(t, v))
  <2>1. t # s /\ (present' = present \ Rooms!Of(s) \/ present' = present)
    BY <1>3, <1>11 DEF Rooms!Disconnect
  <2> QED
    BY <1>4, <1>6, <2>1
<1> QED
  BY <1>7, <1>8, <1>9, <1>10, <1>11

LEMMA FollowedHolds ==
  ASSUME RoomsShape, Connected, RefsApart, Unborn, Followed, Tracked, Rooms!Next
  PROVE  Followed' /\ Tracked'
<1>0. ASSUME incidents \subseteq incidents', ~Overtaken'
      PROVE  \A c \in Clients : Follows(c) /\ \A u \in Users : Tracks(c, u)
  BY <1>0 DEF Followed, Tracked, Overtaken
<1>1. ASSUME NEW c \in Clients,
             \/ Rooms!Subscribe(c) \/ Rooms!Unsubscribe(c) \/ Rooms!Receive(c)
             \/ Rooms!Break(c) \/ \E u \in Users : Rooms!Track(c, u),
             ~Overtaken', NEW d \in Clients
      PROVE  Follows(d)' /\ \A u \in Users : Tracks(d, u)'
  <2>1. Follows(d) /\ \A u \in Users : Tracks(d, u)
    BY <1>0, <1>1, ClientsOwn
  <2>2. CASE d = c
    <3>1. Follows(c)'
      BY <1>1, <2>1, <2>2, CallsFollow
    <3>2. \A u \in Users : Tracks(c, u)'
      BY <1>1, <2>1, <2>2, CallsTrack
    <3> QED
      BY <2>2, <3>1, <3>2
  <2>3. CASE d # c
    <3>1. Rooms!Socket(d) # Rooms!Socket(c)
      BY <2>3, OfClient
    <3> QED
      BY <1>1, <2>1, <2>3, <3>1, ClientsOwn, LeftAlone
  <2> QED
    BY <2>2, <2>3
<1>2. ASSUME NEW c \in Clients, Rooms!Connect(c), ~Overtaken', NEW d \in Clients
      PROVE  Follows(d)' /\ \A u \in Users : Tracks(d, u)'
  <2>1. Follows(d) /\ \A u \in Users : Tracks(d, u)
    BY <1>0, <1>2, Connects
  <2>2. CASE d = c
    <3>1. Follows(c)'
      BY <1>2, ConnectFollows
    <3>2. \A u \in Users : Tracks(c, u)'
      BY <1>2, <2>1, <2>2, ConnectTracks
    <3> QED
      BY <2>2, <3>1, <3>2
  <2>3. CASE d # c
    <3>1. Rooms!Socket(d) # <<c, conn[c] + 1>>
      BY <2>3 DEF Rooms!Socket
    <3>2. /\ UNCHANGED <<members, present, room, view, intended, messages>>
          /\ up'[d] = up[d] /\ conn'[d] = conn[d] /\ buffer'[d] = buffer[d]
          /\ Rooms!Socket(d) \in Rooms!Sockets => requests'[Rooms!Socket(d)] = requests[Rooms!Socket(d)]
      BY <1>2, <2>3, <3>1, Connects
    <3> QED
      BY <2>1, <3>2, LeftAlone
  <2> QED
    BY <2>2, <2>3
<1>3. ASSUME NEW s \in Rooms!Sockets,
             \/ \E i \in DOMAIN requests[s] : \/ Rooms!JoinPresence(s, i) \/ Rooms!LeavePresence(s, i)
                                              \/ Rooms!TakePresence(s, i) \/ Rooms!Deny(s, i)
             \/ Rooms!Disconnect(s),
             ~Overtaken', NEW d \in Clients
      PROVE  Follows(d)' /\ \A u \in Users : Tracks(d, u)'
  <2>1. incidents \subseteq incidents'
    BY <1>3, Resumed DEF RoomsShape, ServerTypes, Rooms!JoinPresence, Rooms!LeavePresence, Rooms!TakePresence,
       Rooms!Deny, Rooms!Mark, Rooms!Disconnect
  <2>2. Follows(d) /\ \A u \in Users : Tracks(d, u)
    BY <1>0, <1>3, <2>1
  <2> QED
    BY <1>3, <2>2, ServerFollows, ServerTracks
<1>4. ASSUME Rooms!Restart, ~Overtaken', NEW d \in Clients
      PROVE  Follows(d)' /\ \A u \in Users : Tracks(d, u)'
  <2>1. /\ UNCHANGED <<buffer, incidents>> /\ ~up'[d]
        /\ intended'[d] = IF up[d] THEN {} ELSE intended[d]
    BY <1>4 DEF Rooms!Restart
  <2>2. \A u \in Users : Tracks(d, u)
    BY <1>0, <1>4, <2>1
  <2>3. \A u : ~After(<<>>, Presence(u), Away)
    BY DEF After
  <2> QED
    BY <2>1, <2>2, <2>3 DEF Follows, Tracks, Connected
<1>5. ~Overtaken' => \A d \in Clients : Follows(d)' /\ \A u \in Users : Tracks(d, u)'
  BY <1>1, <1>2, <1>3, <1>4, Sides
<1> QED
  BY <1>5 DEF Followed, Tracked

RoomsInv ==
  /\ RoomsShape /\ Connected /\ Known /\ RefsApart /\ Unborn
  /\ Followed /\ Tracked

LEMMA RoomsInit == Rooms!Init => RoomsInv
<1> SUFFICES ASSUME Rooms!Init PROVE RoomsInv
  OBVIOUS
<1>1. <<>> \in Seq(Rooms!Request) /\ <<>> \in Seq(Note) /\ 0 \in 0..MaxConns
  BY FeedsAssumption
<1>2. RoomsShape
  BY <1>1 DEF Rooms!Init, RoomsShape, ServerTypes, ClientTypes, Queues, Mails
<1>3. Connected /\ Known /\ RefsApart /\ Unborn
  BY DEF Rooms!Init, Connected, Known, RefsApart, Unborn, Rooms!Of
<1>4. \A r : ~After(<<>>, r, Away)
  BY DEF After
<1> QED
  BY <1>2, <1>3, <1>4 DEF Rooms!Init, RoomsInv, Followed, Tracked, Follows, Tracks

LEMMA RoomsNext == RoomsInv /\ [Rooms!Next]_(Rooms!vars) => RoomsInv'
<1> SUFFICES ASSUME RoomsInv, [Rooms!Next]_(Rooms!vars) PROVE RoomsInv'
  OBVIOUS
<1>1. CASE Rooms!Next
  <2>1. RoomsShape' /\ Connected' /\ Known' /\ RefsApart' /\ Unborn'
    BY <1>1, RoomTypesHold, ConnectedHolds, KnownHolds, RefsHold, UnbornHolds DEF RoomsInv
  <2>2. Followed' /\ Tracked'
    BY <1>1, FollowedHolds DEF RoomsInv
  <2> QED
    BY <2>1, <2>2 DEF RoomsInv
<1>2. CASE UNCHANGED Rooms!vars
  <2>1. UNCHANGED <<alive, members, recorded, present, requests, messages, conn, up, room, waiting,
                    buffer, view, intended, refs, incidents>>
    BY <1>2 DEF Rooms!vars, Rooms!server, Rooms!sdk
  <2>2. RoomsShape' /\ Connected' /\ Known' /\ RefsApart' /\ Unborn'
    BY <2>1 DEF RoomsInv, RoomsShape, ServerTypes, ClientTypes, Connected, Known, RefsApart, Unborn, Unmade,
       Rooms!Of, Rooms!Socket
  <2>3. Followed' /\ Tracked'
    BY <2>1, LeftAlone DEF RoomsInv, Followed, Tracked, Overtaken
  <2> QED
    BY <2>2, <2>3 DEF RoomsInv
<1> QED
  BY <1>1, <1>2

LEMMA RoomsHold ==
  ASSUME RoomsInv
  PROVE  Rooms!NoGhosts /\ Rooms!ViewsConverge /\ Rooms!PresentAsTracked
<1>1. Rooms!NoGhosts
  BY DEF RoomsInv, Known, Rooms!NoGhosts
<1>2. \A r : ~After(<<>>, r, Away)
  BY DEF After
<1>3. ASSUME Rooms!Quiet, NEW c \in Clients, up[c]
      PROVE  /\ Rooms!Socket(c) \in Rooms!Sockets
             /\ requests[Rooms!Socket(c)] = <<>> /\ messages[Rooms!Socket(c)] = <<>>
             /\ \A r : ~Waits(Rooms!Socket(c), r)
  <2>1. Rooms!Socket(c) \in Rooms!Sockets
    BY <1>3 DEF RoomsInv, Connected, RoomsShape, ServerTypes
  <2>2. requests[Rooms!Socket(c)] = <<>> /\ messages[Rooms!Socket(c)] = <<>>
    BY <1>3, <2>1 DEF Rooms!Quiet
  <2> QED
    BY <1>2, <2>1, <2>2 DEF Waits
<1>4. Rooms!Spoiled({"overtaken", "denied"}) <=> Overtaken
  BY DEF Rooms!Spoiled, Overtaken
<1>5. Rooms!ViewsConverge
  <2> SUFFICES ASSUME Rooms!Quiet, ~Overtaken, NEW c \in Clients, up[c], room[c]
               PROVE  view[c] = Rooms!SetToBag(Rooms!Metas(present))
    BY <1>4 DEF Rooms!ViewsConverge
  <2>1. Leads(view[c], messages[Rooms!Socket(c)], Rooms!Metas(present))
    BY <1>3 DEF RoomsInv, Followed, Follows
  <2>2. messages[Rooms!Socket(c)] = <<>>
    BY <1>3
  <2> QED
    BY <2>1, <2>2, LeadsNowhere
<1>6. Rooms!PresentAsTracked
  <2> SUFFICES ASSUME Rooms!Quiet, ~Overtaken, "late" \notin incidents, NEW c \in Clients
               PROVE  {p.user : p \in {q \in present : q.socket[1] = c}} = IF up[c] THEN intended[c] ELSE {}
    BY <1>4 DEF Rooms!PresentAsTracked, Rooms!Spoiled
  <2>1. ASSUME NEW p \in present, p.socket[1] = c PROVE up[c] /\ p.socket = Rooms!Socket(c)
    <3>1. p.socket \in alive /\ p.socket \in Rooms!Sockets
      BY DEF RoomsInv, Known, RoomsShape, ServerTypes
    <3>2. Rooms!Stands(p.socket)
      BY <3>1 DEF Rooms!Quiet
    <3> QED
      BY <2>1, <3>1, <3>2, OfClient DEF RoomsInv
  <2>2. CASE ~up[c]
    BY <2>1, <2>2
  <2>3. CASE up[c]
    <3>1. \A u \in Users : u \in intended[c] <=> Stays(Rooms!Socket(c)) /\ IsPresent(Rooms!Socket(c), u)
      BY <1>3, <2>3 DEF RoomsInv, Tracked, Tracks
    <3>2. Stays(Rooms!Socket(c))
      BY <1>3, <2>3 DEF Stays, Leaving
    <3>3. intended[c] \subseteq Users /\ \A p \in present : p.user \in Users
      BY DEF RoomsInv, RoomsShape, ServerTypes, ClientTypes, Entries
    <3>4. ASSUME NEW u \in intended[c] PROVE \E p \in present : p.socket[1] = c /\ p.user = u
      <4>1. PICK p \in present : p.socket = Rooms!Socket(c) /\ p.user = u
        BY <3>1, <3>3 DEF IsPresent
      <4> QED
        BY <4>1 DEF Rooms!Socket
    <3>5. ASSUME NEW p \in present, p.socket[1] = c PROVE p.user \in intended[c]
      BY <2>1, <3>1, <3>2, <3>3, <3>5 DEF IsPresent
    <3> QED
      BY <2>3, <3>4, <3>5
  <2> QED
    BY <2>2, <2>3
<1> QED
  BY <1>1, <1>5, <1>6

-----------------------------------------------------------------------------
(* Subscriptions: what the requests of a socket will come to.               *)

Asking == [kind : {"subscribe", "unsubscribe"}, wanted : Subs!Wanted]

\* The requests that take back what was asked for a room.
AwayFrom(w) == {Subs!Leave(v) : v \in {x \in Subs!Wanted : Subs!Room(x) = Subs!Room(w)}}

\* It is held, or asked for, when the requests ahead of the i-th have been carried out.
OpenAt(held, q, w, i) ==
  \/ w \in held /\ \A j \in 1..(i - 1) : q[j] \notin AwayFrom(w)
  \/ \E j \in 1..(i - 1) : q[j] = Subs!Enter(w) /\ \A k \in (j + 1)..(i - 1) : q[k] \notin AwayFrom(w)

LEMMA Askings ==
  /\ \A w \in Subs!Wanted : Subs!Enter(w) \in Asking /\ Subs!Leave(w) \in Asking
  /\ \A v, w \in Subs!Wanted : /\ Subs!Enter(v) = Subs!Enter(w) <=> v = w
                               /\ Subs!Enter(v) \notin AwayFrom(w)
                               /\ Subs!Leave(v) \in AwayFrom(w) <=> Subs!Room(v) = Subs!Room(w)
                               /\ Subs!Leave(v) # Subs!Enter(w)
  /\ \A r \in Asking : /\ r.wanted \in Subs!Wanted
                       /\ r.kind = "subscribe" => r = Subs!Enter(r.wanted)
                       /\ r.kind # "subscribe" => r.kind = "unsubscribe" /\ r = Subs!Leave(r.wanted)
<1>1. \A w \in Subs!Wanted : Subs!Enter(w) \in Asking /\ Subs!Leave(w) \in Asking
  BY DEF Asking, Subs!Enter, Subs!Leave
<1>2. \A v, w :
        /\ Subs!Enter(v) = Subs!Enter(w) <=> v = w
        /\ Subs!Leave(v) = Subs!Leave(w) <=> v = w
        /\ Subs!Leave(v) # Subs!Enter(w)
  <2>1. \A w : /\ Subs!Enter(w).wanted = w /\ Subs!Enter(w).kind = "subscribe"
               /\ Subs!Leave(w).wanted = w /\ Subs!Leave(w).kind = "unsubscribe"
    BY DEF Subs!Enter, Subs!Leave
  <2> QED
    BY <2>1
<1>3. \A v, w \in Subs!Wanted :
        /\ Subs!Enter(v) \notin AwayFrom(w)
        /\ Subs!Leave(v) \in AwayFrom(w) <=> Subs!Room(v) = Subs!Room(w)
  BY <1>2 DEF AwayFrom
<1>4. \A r \in Asking :
        /\ r.wanted \in Subs!Wanted
        /\ r.kind = "subscribe" => r = Subs!Enter(r.wanted)
        /\ r.kind # "subscribe" => r.kind = "unsubscribe" /\ r = Subs!Leave(r.wanted)
  BY DEF Asking, Subs!Enter, Subs!Leave
<1> QED
  BY <1>1, <1>2, <1>3, <1>4

LEMMA OpenAppended ==
  ASSUME NEW q \in Seq(Asking), NEW x \in Asking, NEW held, NEW w \in Subs!Wanted
  PROVE  /\ \A i \in 1..(Len(q) + 1) : OpenAt(held, Append(q, x), w, i) <=> OpenAt(held, q, w, i)
         /\ OpenAt(held, Append(q, x), w, Len(Append(q, x)) + 1)
            <=> x = Subs!Enter(w) \/ (x \notin AwayFrom(w) /\ OpenAt(held, q, w, Len(q) + 1))
<1> DEFINE n == Len(q)
           p == Append(q, x)
<1>1. n \in Nat /\ Len(p) = n + 1 /\ p[n + 1] = x /\ \A i \in 1..n : p[i] = q[i]
  OBVIOUS
<1> HIDE DEF n, p
<1>2. \A i \in 1..(n + 1) : OpenAt(held, p, w, i) <=> OpenAt(held, q, w, i)
  <2> SUFFICES ASSUME NEW i \in 1..(n + 1) PROVE OpenAt(held, p, w, i) <=> OpenAt(held, q, w, i)
    OBVIOUS
  <2>1. \A j \in 1..(i - 1) : p[j] = q[j]
    BY <1>1
  <2>2. \A j \in 1..(i - 1) : \A k \in (j + 1)..(i - 1) : p[k] = q[k]
    BY <1>1
  <2> QED
    BY <2>1, <2>2, Zenon DEF OpenAt
<1>3. (n + 2) - 1 = n + 1 /\ (n + 1) - 1 = n
  BY <1>1
<1>4. ASSUME x = Subs!Enter(w) PROVE OpenAt(held, p, w, n + 2)
  <2>1. n + 1 \in 1..(n + 1) /\ \A k \in ((n + 1) + 1)..(n + 1) : FALSE
    BY <1>1
  <2> QED
    BY <1>1, <1>3, <1>4, <2>1 DEF OpenAt
<1>5. ASSUME x \notin AwayFrom(w), OpenAt(held, q, w, n + 1) PROVE OpenAt(held, p, w, n + 2)
  <2>1. CASE w \in held /\ \A j \in 1..n : q[j] \notin AwayFrom(w)
    <3>1. \A j \in 1..(n + 1) : p[j] \notin AwayFrom(w)
      BY <1>1, <1>5, <2>1
    <3> QED
      BY <1>3, <2>1, <3>1 DEF OpenAt
  <2>2. ASSUME NEW j \in 1..n, q[j] = Subs!Enter(w), \A k \in (j + 1)..n : q[k] \notin AwayFrom(w)
        PROVE  OpenAt(held, p, w, n + 2)
    <3>1. j \in 1..(n + 1) /\ p[j] = Subs!Enter(w) /\ \A k \in (j + 1)..(n + 1) : p[k] \notin AwayFrom(w)
      BY <1>1, <1>5, <2>2
    <3> QED
      BY <1>3, <3>1 DEF OpenAt
  <2> QED
    BY <1>3, <1>5, <2>1, <2>2 DEF OpenAt
<1>6. ASSUME OpenAt(held, p, w, n + 2), x # Subs!Enter(w)
      PROVE  x \notin AwayFrom(w) /\ OpenAt(held, q, w, n + 1)
  <2>1. CASE w \in held /\ \A j \in 1..(n + 1) : p[j] \notin AwayFrom(w)
    <3>1. x \notin AwayFrom(w) /\ \A j \in 1..n : q[j] \notin AwayFrom(w)
      <4>1. n + 1 \in 1..(n + 1)
        BY <1>1
      <4>2. \A j \in 1..n : j \in 1..(n + 1) /\ p[j] = q[j]
        BY <1>1
      <4> QED
        BY <1>1, <2>1, <4>1, <4>2
    <3> QED
      BY <1>3, <2>1, <3>1 DEF OpenAt
  <2>2. ASSUME NEW j \in 1..(n + 1), p[j] = Subs!Enter(w), \A k \in (j + 1)..(n + 1) : p[k] \notin AwayFrom(w)
        PROVE  x \notin AwayFrom(w) /\ OpenAt(held, q, w, n + 1)
    <3>1. j \in 1..n
      BY <1>1, <1>6, <2>2
    <3>2. n + 1 \in (j + 1)..(n + 1) /\ \A k \in (j + 1)..n : k \in (j + 1)..(n + 1) /\ p[k] = q[k]
      BY <1>1, <3>1
    <3>3. x \notin AwayFrom(w) /\ q[j] = Subs!Enter(w) /\ \A k \in (j + 1)..n : q[k] \notin AwayFrom(w)
      BY <1>1, <2>2, <3>1, <3>2
    <3> QED
      BY <1>3, <3>1, <3>3 DEF OpenAt
  <2> QED
    BY <1>3, <1>6, <2>1, <2>2 DEF OpenAt
<1>7. Len(p) + 1 = n + 2
  BY <1>1
<1> QED
  BY <1>2, <1>4, <1>5, <1>6, <1>7 DEF n, p

\* When the first has been carried out, what is open is open as before.
LEMMA OpenTaken ==
  ASSUME NEW q \in Seq(Asking), q # <<>>, NEW held, NEW then, NEW w \in Subs!Wanted,
         w \in then <=> Head(q) = Subs!Enter(w) \/ (Head(q) \notin AwayFrom(w) /\ w \in held),
         NEW i \in 1..Len(q)
  PROVE  OpenAt(then, Tail(q), w, i) <=> OpenAt(held, q, w, i + 1)
<1> DEFINE n == Len(q)
           p == Tail(q)
<1>1. n \in Nat /\ n >= 1 /\ i \in 1..n /\ Head(q) = q[1] /\ \A k \in 1..(n - 1) : p[k] = q[k + 1]
  OBVIOUS
<1> HIDE DEF n, p
<1>2. (i + 1) - 1 = i /\ i \in Nat /\ i >= 1 /\ i <= n
  BY <1>1
<1>3. \A k \in 1..(i - 1) : k + 1 \in 1..i /\ p[k] = q[k + 1]
  BY <1>1
<1>4. \A k \in 2..i : k - 1 \in 1..(i - 1) /\ q[k] = p[k - 1]
  BY <1>1
<1>a. Subs!Enter(w) \notin AwayFrom(w)
  BY Askings
<1>5. ASSUME OpenAt(then, p, w, i) PROVE OpenAt(held, q, w, i + 1)
  <2>1. CASE w \in then /\ \A j \in 1..(i - 1) : p[j] \notin AwayFrom(w)
    <3>1. \A k \in 2..i : q[k] \notin AwayFrom(w)
      BY <1>4, <2>1
    <3>2. CASE q[1] = Subs!Enter(w)
      <4>1. 1 \in 1..i /\ \A k \in (1 + 1)..i : q[k] \notin AwayFrom(w)
        BY <1>2, <3>1
      <4> QED
        BY <1>2, <3>2, <4>1 DEF OpenAt
    <3>3. CASE q[1] # Subs!Enter(w)
      <4>1. w \in held /\ q[1] \notin AwayFrom(w)
        BY <1>1, <2>1, <3>3
      <4>2. \A k \in 1..i : k = 1 \/ k \in 2..i
        BY <1>2
      <4>3. \A k \in 1..i : q[k] \notin AwayFrom(w)
        BY <3>1, <4>1, <4>2
      <4> QED
        BY <1>2, <4>1, <4>3 DEF OpenAt
    <3> QED
      BY <3>2, <3>3
  <2>2. ASSUME NEW j \in 1..(i - 1), p[j] = Subs!Enter(w), \A k \in (j + 1)..(i - 1) : p[k] \notin AwayFrom(w)
        PROVE  OpenAt(held, q, w, i + 1)
    <3>1. j + 1 \in 1..i /\ q[j + 1] = Subs!Enter(w)
      BY <1>3, <2>2
    <3>2. ASSUME NEW k \in ((j + 1) + 1)..i PROVE q[k] \notin AwayFrom(w)
      <4>1. k \in 2..i /\ k - 1 \in (j + 1)..(i - 1)
        BY <1>2
      <4> QED
        BY <1>4, <2>2, <4>1
    <3> QED
      BY <1>2, <3>1, <3>2 DEF OpenAt
  <2> QED
    BY <1>5, <2>1, <2>2 DEF OpenAt
<1>6. ASSUME OpenAt(held, q, w, i + 1) PROVE OpenAt(then, p, w, i)
  <2>0. 1 \in 1..i
    BY <1>2
  <2>1. CASE w \in held /\ \A j \in 1..i : q[j] \notin AwayFrom(w)
    <3>1. w \in then
      BY <1>1, <2>0, <2>1
    <3>2. \A j \in 1..(i - 1) : p[j] \notin AwayFrom(w)
      BY <1>3, <2>1
    <3> QED
      BY <3>1, <3>2 DEF OpenAt
  <2>2. ASSUME NEW j \in 1..i, q[j] = Subs!Enter(w), \A k \in (j + 1)..i : q[k] \notin AwayFrom(w)
        PROVE  OpenAt(then, p, w, i)
    <3>1. CASE j = 1
      <4>1. w \in then
        BY <1>1, <2>2, <3>1
      <4>2. ASSUME NEW k \in 1..(i - 1) PROVE p[k] \notin AwayFrom(w)
        <5>1. k + 1 \in (j + 1)..i
          BY <1>2, <3>1
        <5> QED
          BY <1>3, <2>2, <5>1
      <4> QED
        BY <4>1, <4>2 DEF OpenAt
    <3>2. CASE j # 1
      <4>1. j \in 2..i /\ j - 1 \in 1..(i - 1) /\ p[j - 1] = Subs!Enter(w)
        BY <1>4, <2>2, <3>2
      <4>2. ASSUME NEW k \in ((j - 1) + 1)..(i - 1) PROVE p[k] \notin AwayFrom(w)
        <5>1. k \in 1..(i - 1) /\ k + 1 \in (j + 1)..i
          BY <1>2, <4>1
        <5> QED
          BY <1>3, <2>2, <5>1
      <4> QED
        BY <4>1, <4>2 DEF OpenAt
    <3> QED
      BY <3>1, <3>2
  <2> QED
    BY <1>2, <1>6, <2>1, <2>2 DEF OpenAt
<1> QED
  BY <1>5, <1>6 DEF p

LEMMA OpenMore ==
  ASSUME NEW held, NEW more, held \subseteq more, NEW q, NEW w, NEW i, OpenAt(held, q, w, i)
  PROVE  OpenAt(more, q, w, i)
  BY DEF OpenAt

\* A new connection takes back what it must and then asks for what is wanted.
LEMMA OpenAnew ==
  ASSUME NEW b \in Seq(Asking), \A i \in DOMAIN b : b[i].kind = "unsubscribe",
         NEW wants \in Seq(Subs!Wanted), NEW w \in Subs!Wanted,
         NEW q, q = b \o [i \in DOMAIN wants |-> Subs!Enter(wants[i])]
  PROVE  /\ q \in Seq(Asking)
         /\ \A i : OpenAt({}, q, w, i) /\ i \in 1..(Len(q) + 1) => \E j \in DOMAIN wants : wants[j] = w
         /\ (\E j \in DOMAIN wants : wants[j] = w) => OpenAt({}, q, w, Len(q) + 1)
         /\ \A i \in DOMAIN q : q[i] = Subs!Enter(w) => \E j \in DOMAIN wants : wants[j] = w
<1> DEFINE e == [i \in DOMAIN wants |-> Subs!Enter(wants[i])]
           n == Len(b)
           m == Len(wants)
<1>1. DOMAIN wants = 1..m /\ m \in Nat /\ n \in Nat /\ DOMAIN b = 1..n /\ \A i \in 1..m : wants[i] \in Subs!Wanted
  OBVIOUS
<1> HIDE DEF m
<1>2. /\ DOMAIN e = 1..m /\ \A i \in 1..m : e[i] = Subs!Enter(wants[i]) /\ e[i] \in Asking
      /\ e \in Seq(Asking) /\ Len(e) = m
  <2>1. \A i \in 1..m : Subs!Enter(wants[i]) \in Asking
    BY <1>1, Askings
  <2>2. e = [i \in 1..m |-> Subs!Enter(wants[i])]
    BY <1>1
  <2> HIDE DEF e
  <2>3. e \in Seq(Asking) /\ Len(e) = m
    BY <1>1, <2>1, <2>2
  <2> QED
    BY <2>1, <2>2, <2>3
<1> HIDE DEF e, n
<1>3. /\ q \in Seq(Asking) /\ Len(q) = n + m /\ DOMAIN q = 1..(n + m)
      /\ \A i \in 1..n : q[i] = b[i]
      /\ \A i \in 1..m : q[n + i] = e[i]
  <2>1. q = b \o e /\ n = Len(b)
    BY DEF e, n
  <2> QED
    BY <1>1, <1>2, <2>1
<1>4. ASSUME NEW i \in 1..(n + m), q[i] = Subs!Enter(w) PROVE \E j \in 1..m : wants[j] = w
  <2>1. CASE i \in 1..n
    <3>1. b[i].kind = "unsubscribe" /\ Subs!Enter(w).kind = "subscribe" /\ q[i] = b[i]
      BY <1>1, <1>3, <2>1 DEF Subs!Enter
    <3> QED
      BY <1>4, <3>1
  <2>2. CASE i \notin 1..n
    <3>1. i - n \in 1..m /\ n + (i - n) = i
      BY <1>1, <2>2
    <3>2. Subs!Enter(wants[i - n]) = Subs!Enter(w) /\ wants[i - n] \in Subs!Wanted
      BY <1>1, <1>2, <1>3, <1>4, <3>1
    <3>3. wants[i - n] = w
      BY <3>2, Askings
    <3> QED
      BY <3>1, <3>3
  <2> QED
    BY <2>1, <2>2
<1>5. ASSUME NEW i, OpenAt({}, q, w, i), i \in 1..(Len(q) + 1) PROVE \E j \in 1..m : wants[j] = w
  <2>1. PICK j \in 1..(i - 1) : q[j] = Subs!Enter(w)
    BY <1>5 DEF OpenAt
  <2>2. j \in 1..(n + m)
    BY <1>1, <1>3, <1>5
  <2> QED
    BY <1>4, <2>1, <2>2
<1>6. ASSUME NEW j \in 1..m, wants[j] = w PROVE OpenAt({}, q, w, Len(q) + 1)
  <2>1. n + j \in 1..(n + m) /\ q[n + j] = Subs!Enter(w)
    BY <1>1, <1>2, <1>3, <1>6
  <2>2. ASSUME NEW k \in ((n + j) + 1)..(n + m) PROVE q[k] \notin AwayFrom(w)
    <3>1. k - n \in 1..m /\ n + (k - n) = k
      BY <1>1
    <3>2. q[k] = Subs!Enter(wants[k - n]) /\ wants[k - n] \in Subs!Wanted
      BY <1>1, <1>2, <1>3, <3>1
    <3>3. \A v \in Subs!Wanted : Subs!Enter(v) \notin AwayFrom(w)
      BY Askings
    <3> QED
      BY <3>2, <3>3
  <2>3. (Len(q) + 1) - 1 = n + m
    BY <1>1, <1>3
  <2> QED
    BY <2>1, <2>2, <2>3 DEF OpenAt
<1> QED
  BY <1>1, <1>3, <1>4, <1>5, <1>6

-----------------------------------------------------------------------------
(* Subscriptions: what the variables hold.                                  *)

TableEvent == [event : {"INSERT", "*", "broadcast"}, channel : Channels, no : Nat, echo : BOOLEAN]
ListenTypes ==
  /\ conn \in [Subscribers -> 0..MaxConns] /\ up \in [Subscribers -> BOOLEAN]
  /\ descriptors \in [Subscribers -> SUBSET (Nat \X Subs!Wanted)]
  /\ buffer \in [Subscribers -> Seq(Asking)]
  /\ alive \subseteq Subs!Sockets
  /\ noted \in [Subs!Sockets -> SUBSET Subs!Wanted]
  /\ requests \in [Subs!Sockets -> Seq(Asking)]
  /\ verifying \in [Subs!Sockets -> Seq(Subs!Wanted)]
EventTypes ==
  /\ events \in [Subs!Sockets -> Seq(TableEvent)]
  /\ made \in Seq(Subs!Change) /\ ops \in Nat
ListenShape == ListenTypes /\ EventTypes

\* A connection that stands has a socket, and its buffer has been sent; and a buffer only takes back.
Linked == \A c \in Subscribers :
  /\ up[c] => Subs!Socket(c) \in alive /\ buffer[c] = <<>>
  /\ \A i \in DOMAIN buffer[c] : buffer[c][i].kind = "unsubscribe"

\* A connection that has not been made yet is unheard of.
Unlinked == \A s \in Subs!Sockets : s[2] > conn[s[1]] =>
  s \notin alive /\ noted[s] = {} /\ requests[s] = <<>> /\ verifying[s] = <<>> /\ events[s] = <<>>

\* A socket that has gone has no notes, unless one came late.
Forgotten == "late" \notin incidents => \A s \in Subs!Sockets \ alive : noted[s] = {}

\* A room has one note.
OneNote == \A s \in Subs!Sockets : \A v, w \in noted[s] : Subs!Room(v) = Subs!Room(w) => v = w

Callers(c) ==
  \/ \E w \in Subs!Wanted : Subs!Subscribe(c, w)
  \/ \E d \in descriptors[c] : Subs!Unsubscribe(c, d)
  \/ Subs!Connect(c) \/ Subs!Receive(c) \/ Subs!Break(c)
Servers(s) ==
  \/ Subs!Take(s) \/ Subs!Disconnect(s)
  \/ \E i \in DOMAIN verifying[s] : Subs!Note(s, i) \/ Subs!Deny(s, i)
Makers == (\E change \in Subs!Change : Subs!Make(change)) \/ \E n \in DOMAIN made : Subs!Echo(n)

LEMMA ListenSides ==
  ASSUME Subs!Next
  PROVE  (\E c \in Subscribers : Callers(c)) \/ (\E s \in Subs!Sockets : Servers(s)) \/ Makers
<1>1. ASSUME NEW c \in Subscribers,
             \/ \E w \in Subs!Wanted : Subs!Subscribe(c, w)
             \/ \E d \in descriptors[c] : Subs!Unsubscribe(c, d)
             \/ Subs!Connect(c) \/ Subs!Receive(c) \/ Subs!Break(c)
      PROVE  \E d \in Subscribers : Callers(d)
  BY <1>1 DEF Callers
<1>2. ASSUME NEW s \in Subs!Sockets,
             \/ Subs!Take(s) \/ Subs!Disconnect(s)
             \/ \E i \in DOMAIN verifying[s] : Subs!Note(s, i) \/ Subs!Deny(s, i)
      PROVE  \E t \in Subs!Sockets : Servers(t)
  BY <1>2 DEF Servers
<1>3. ASSUME \/ \E change \in Subs!Change : Subs!Make(change)
             \/ \E n \in DOMAIN made : Subs!Echo(n)
      PROVE  Makers
  BY <1>3 DEF Makers
<1> QED
  BY <1>1, <1>2, <1>3, Zenon DEF Subs!Next

LEMMA OfSubscriber ==
  ASSUME ListenShape, NEW c \in Subscribers
  PROVE  /\ Subs!Socket(c) = <<c, conn[c]>> /\ Subs!Socket(c)[1] = c /\ Subs!Socket(c)[2] = conn[c]
         /\ conn[c] \in Nat
         /\ \A d \in Subscribers : d # c => Subs!Socket(d) # Subs!Socket(c)
         /\ \A s \in Subs!Sockets : /\ Subs!Stands(s) => s = Subs!Socket(s[1]) /\ up[s[1]]
                                    /\ up[c] /\ s = Subs!Socket(c) => Subs!Stands(s)
<1>1. Subs!Socket(c) = <<c, conn[c]>> /\ Subs!Socket(c)[1] = c /\ Subs!Socket(c)[2] = conn[c]
  BY DEF Subs!Socket
<1>2. conn[c] \in Nat
  BY FeedsAssumption DEF ListenShape, ListenTypes
<1>3. \A d \in Subscribers : d # c => Subs!Socket(d) # Subs!Socket(c)
  BY <1>1 DEF Subs!Socket
<1>4. ASSUME NEW s \in Subs!Sockets
      PROVE  /\ Subs!Stands(s) => s = Subs!Socket(s[1]) /\ up[s[1]]
             /\ up[c] /\ s = Subs!Socket(c) => Subs!Stands(s)
  <2>1. s = <<s[1], s[2]>>
    BY DEF Subs!Sockets
  <2> QED
    BY <1>1, <2>1 DEF Subs!Stands, Subs!Socket
<1> QED
  BY <1>1, <1>2, <1>3, <1>4

LEMMA SocketNumbers ==
  ASSUME NEW s \in Subs!Sockets PROVE s[1] \in Subscribers /\ s[2] \in Nat /\ s[2] >= 1
  BY FeedsAssumption DEF Subs!Sockets

\* Requests that the client sends, or keeps, or has on its way when the connection breaks.
LEMMA AppendTyped ==
  ASSUME NEW D, NEW T, NEW f \in [D -> Seq(T)], NEW g, NEW k, NEW x \in T, g = [f EXCEPT ![k] = Append(@, x)]
  PROVE  g \in [D -> Seq(T)] /\ (k \in D => g[k] = Append(f[k], x)) /\ \A j \in D : j # k => g[j] = f[j]
<1>1. \A j \in D : f[j] \in Seq(T) /\ Append(f[j], x) \in Seq(T)
  OBVIOUS
<1> QED
  BY <1>1

LEMMA TailTyped ==
  ASSUME NEW D, NEW T, NEW f \in [D -> Seq(T)], NEW g, NEW k, k \in D => f[k] # <<>>, g = [f EXCEPT ![k] = Tail(@)]
  PROVE  g \in [D -> Seq(T)] /\ (k \in D => g[k] = Tail(f[k])) /\ \A j \in D : j # k => g[j] = f[j]
<1>1. ASSUME k \in D PROVE Tail(f[k]) \in Seq(T)
  BY <1>1
<1> QED
  BY <1>1

-----------------------------------------------------------------------------
(* Subscriptions: what each step does.                                      *)

LEMMA LinkedSocket ==
  ASSUME ListenShape, Linked, NEW c \in Subscribers, up[c]
  PROVE  Subs!Socket(c) \in Subs!Sockets /\ Subs!Socket(c) \in alive
  BY DEF Linked, ListenShape, ListenTypes

LEMMA Subscribes ==
  ASSUME ListenShape, Linked, NEW c \in Subscribers, NEW w \in Subs!Wanted, Subs!Subscribe(c, w)
  PROVE  /\ ListenShape'
         /\ UNCHANGED <<conn, up, buffer, alive, noted, verifying, events, made, stood, heard, repeated>>
         /\ ops' = ops + 1
         /\ descriptors'[c] = descriptors[c] \cup {<<ops + 1, w>>}
         /\ \A d \in Subscribers : d # c => descriptors'[d] = descriptors[d]
         /\ \A t \in Subs!Sockets :
              \/ requests'[t] = requests[t]
              \/ t = Subs!Socket(c) /\ up[c] /\ requests'[t] = Append(requests[t], Subs!Enter(w))
         /\ up[c] /\ w \notin Subs!Wants(c) =>
              requests'[Subs!Socket(c)] = Append(requests[Subs!Socket(c)], Subs!Enter(w))
         /\ incidents \subseteq incidents'
         /\ "overwritten" \notin incidents' => \A v \in Subs!Wants(c) : ~Subs!Conflicts(v, w)
         /\ "doubled" \notin incidents' => \A v \in Subs!Wants(c) : ~Subs!Doubles(v, w)
<1>1. /\ UNCHANGED <<conn, up, buffer, alive, noted, verifying, events, made, stood, heard, repeated>>
      /\ ops' = ops + 1
      /\ descriptors' = [descriptors EXCEPT ![c] = @ \cup {<<ops + 1, w>>}]
      /\ IF up[c] /\ Subs!IsNew(c, w)
         THEN requests' = [requests EXCEPT ![Subs!Socket(c)] = Append(@, Subs!Enter(w))]
         ELSE requests' = requests
      /\ incidents' = incidents \cup
           (Subs!When(\E v \in Subs!Wants(c) : Subs!Conflicts(v, w), "overwritten")
             \cup Subs!When(\E v \in Subs!Wants(c) : Subs!Doubles(v, w), "doubled"))
  BY DEF Subs!Subscribe, Subs!Call, Subs!ghosts, Subs!Send, Subs!Mark
<1>2. ops + 1 \in Nat /\ <<ops + 1, w>> \in Nat \X Subs!Wanted
  BY DEF ListenShape, EventTypes
<1>3. descriptors[c] \cup {<<ops + 1, w>>} \subseteq Nat \X Subs!Wanted
  BY <1>2 DEF ListenShape, ListenTypes
<1>4. /\ descriptors' \in [Subscribers -> SUBSET (Nat \X Subs!Wanted)]
      /\ descriptors'[c] = descriptors[c] \cup {<<ops + 1, w>>}
      /\ \A d \in Subscribers : d # c => descriptors'[d] = descriptors[d]
  BY <1>1, <1>3 DEF ListenShape, ListenTypes
<1>5. Subs!Enter(w) \in Asking /\ requests \in [Subs!Sockets -> Seq(Asking)]
  BY Askings DEF ListenShape, ListenTypes
<1>6. requests' \in [Subs!Sockets -> Seq(Asking)]
      /\ \A t \in Subs!Sockets :
              \/ requests'[t] = requests[t]
              \/ t = Subs!Socket(c) /\ up[c] /\ requests'[t] = Append(requests[t], Subs!Enter(w))
  <2>1. CASE ~(up[c] /\ Subs!IsNew(c, w))
    BY <1>1, <1>5, <2>1
  <2>2. CASE up[c] /\ Subs!IsNew(c, w)
    <3>1. requests' = [requests EXCEPT ![Subs!Socket(c)] = Append(@, Subs!Enter(w))]
      BY <1>1, <2>2
    <3>2. /\ requests' \in [Subs!Sockets -> Seq(Asking)]
          /\ Subs!Socket(c) \in Subs!Sockets =>
               requests'[Subs!Socket(c)] = Append(requests[Subs!Socket(c)], Subs!Enter(w))
          /\ \A t \in Subs!Sockets : t # Subs!Socket(c) => requests'[t] = requests[t]
      <4> DEFINE k == Subs!Socket(c)
                 x == Subs!Enter(w)
      <4>1. requests' = [requests EXCEPT ![k] = Append(@, x)] /\ x \in Asking /\ k \in Subs!Sockets
        BY <1>5, <2>2, <3>1, LinkedSocket
      <4> HIDE DEF k, x
      <4>2. /\ requests' \in [Subs!Sockets -> Seq(Asking)]
            /\ k \in Subs!Sockets => requests'[k] = Append(requests[k], x)
            /\ \A t \in Subs!Sockets : t # k => requests'[t] = requests[t]
        BY <1>5, <4>1, AppendTyped
      <4> QED
        BY <4>2 DEF k, x
    <3> QED
      BY <2>2, <3>2
  <2> QED
    BY <2>1, <2>2
<1>7. ASSUME up[c], w \notin Subs!Wants(c)
      PROVE  requests'[Subs!Socket(c)] = Append(requests[Subs!Socket(c)], Subs!Enter(w))
  BY <1>1, <1>5, <1>7, AppendTyped, LinkedSocket DEF Subs!IsNew
<1>8. ListenShape'
  <2>1. ListenTypes'
    BY <1>1, <1>4, <1>6 DEF ListenShape, ListenTypes
  <2>2. EventTypes'
    BY <1>1, <1>2 DEF ListenShape, EventTypes
  <2> QED
    BY <2>1, <2>2 DEF ListenShape
<1>9. /\ incidents \subseteq incidents'
      /\ "overwritten" \notin incidents' => \A v \in Subs!Wants(c) : ~Subs!Conflicts(v, w)
      /\ "doubled" \notin incidents' => \A v \in Subs!Wants(c) : ~Subs!Doubles(v, w)
  BY <1>1 DEF Subs!When
<1> QED
  BY <1>1, <1>4, <1>6, <1>7, <1>8, <1>9

LEMMA Unsubscribes ==
  ASSUME ListenShape, Linked, NEW c \in Subscribers, NEW d \in descriptors[c], Subs!Unsubscribe(c, d)
  PROVE  /\ ListenShape'
         /\ UNCHANGED <<conn, up, alive, noted, verifying, events, made, heard, repeated, incidents>>
         /\ ops' = ops + 1 /\ d[2] \in Subs!Wanted
         /\ stood' = {x \in stood : ~(x[1] = c /\ x[2] = d[1])}
         /\ descriptors'[c] = descriptors[c] \ {d}
         /\ \A e \in Subscribers : e # c => descriptors'[e] = descriptors[e] /\ buffer'[e] = buffer[e]
         /\ \A t \in Subs!Sockets : t # Subs!Socket(c) => requests'[t] = requests[t]
         /\ \/ UNCHANGED <<requests, buffer>> /\ ~Subs!IsLast(c, d)
            \/ /\ Subs!IsLast(c, d) /\ up[c] /\ UNCHANGED buffer
               /\ requests'[Subs!Socket(c)] = Append(requests[Subs!Socket(c)], Subs!Leave(d[2]))
            \/ /\ Subs!IsLast(c, d) /\ ~up[c] /\ UNCHANGED requests
               /\ buffer'[c] = Append(buffer[c], Subs!Leave(d[2]))
<1>1. /\ UNCHANGED <<conn, up, alive, noted, verifying, events, made, heard, repeated, incidents>>
      /\ ops' = ops + 1
      /\ descriptors' = [descriptors EXCEPT ![c] = @ \ {d}]
      /\ stood' = {x \in stood : ~(x[1] = c /\ x[2] = d[1])}
      /\ \/ UNCHANGED <<requests, buffer>> /\ ~Subs!IsLast(c, d)
         \/ /\ Subs!IsLast(c, d) /\ up[c] /\ UNCHANGED buffer
            /\ requests' = [requests EXCEPT ![Subs!Socket(c)] = Append(@, Subs!Leave(d[2]))]
         \/ /\ Subs!IsLast(c, d) /\ ~up[c] /\ UNCHANGED requests
            /\ buffer' = [buffer EXCEPT ![c] = Append(@, Subs!Leave(d[2]))]
  BY DEF Subs!Unsubscribe, Subs!Call, Subs!Send
<1>2. d[2] \in Subs!Wanted /\ Subs!Leave(d[2]) \in Asking
  <2>1. d \in Nat \X Subs!Wanted
    BY DEF ListenShape, ListenTypes
  <2>2. d[2] \in Subs!Wanted
    BY <2>1
  <2> QED
    BY <2>2, Askings
<1>3. /\ descriptors' \in [Subscribers -> SUBSET (Nat \X Subs!Wanted)]
      /\ descriptors'[c] = descriptors[c] \ {d}
      /\ \A e \in Subscribers : e # c => descriptors'[e] = descriptors[e]
  BY <1>1 DEF ListenShape, ListenTypes
<1>4. requests \in [Subs!Sockets -> Seq(Asking)] /\ buffer \in [Subscribers -> Seq(Asking)]
  BY DEF ListenShape, ListenTypes
<1>5. /\ requests' \in [Subs!Sockets -> Seq(Asking)]
      /\ \A t \in Subs!Sockets : t # Subs!Socket(c) => requests'[t] = requests[t]
  <2>1. CASE requests' = requests
    BY <1>4, <2>1
  <2>2. CASE up[c] /\ requests' = [requests EXCEPT ![Subs!Socket(c)] = Append(@, Subs!Leave(d[2]))]
    <3> DEFINE k == Subs!Socket(c)
               x == Subs!Leave(d[2])
    <3>1. requests' = [requests EXCEPT ![k] = Append(@, x)] /\ x \in Asking /\ k \in Subs!Sockets
      BY <1>2, <2>2, LinkedSocket
    <3> HIDE DEF k, x
    <3>2. /\ requests' \in [Subs!Sockets -> Seq(Asking)]
          /\ \A t \in Subs!Sockets : t # k => requests'[t] = requests[t]
      BY <1>4, <3>1, AppendTyped
    <3> QED
      BY <3>2 DEF k
  <2> QED
    BY <1>1, <2>1, <2>2
<1>6. /\ buffer' \in [Subscribers -> Seq(Asking)]
      /\ \A e \in Subscribers : e # c => buffer'[e] = buffer[e]
  <2>1. CASE buffer' = buffer
    BY <1>4, <2>1
  <2>2. CASE buffer' = [buffer EXCEPT ![c] = Append(@, Subs!Leave(d[2]))]
    BY <1>2, <1>4, <2>2, AppendTyped
  <2> QED
    BY <1>1, <2>1, <2>2
<1>7. \/ UNCHANGED <<requests, buffer>> /\ ~Subs!IsLast(c, d)
      \/ /\ Subs!IsLast(c, d) /\ up[c] /\ UNCHANGED buffer
         /\ requests'[Subs!Socket(c)] = Append(requests[Subs!Socket(c)], Subs!Leave(d[2]))
      \/ /\ Subs!IsLast(c, d) /\ ~up[c] /\ UNCHANGED requests
         /\ buffer'[c] = Append(buffer[c], Subs!Leave(d[2]))
  BY <1>1, <1>2, <1>4, AppendTyped, LinkedSocket
<1>8. ListenShape'
  <2>1. ListenTypes'
    BY <1>1, <1>3, <1>5, <1>6 DEF ListenShape, ListenTypes
  <2>2. EventTypes'
    BY <1>1 DEF ListenShape, EventTypes
  <2> QED
    BY <2>1, <2>2 DEF ListenShape
<1> QED
  BY <1>1, <1>2, <1>3, <1>5, <1>6, <1>7, <1>8

LEMMA Links ==
  ASSUME ListenShape, Linked, NEW c \in Subscribers, Subs!Connect(c)
  PROVE  LET s == <<c, conn[c] + 1>>
         IN /\ ListenShape' /\ s \in Subs!Sockets /\ s = Subs!Socket(c)' /\ s[2] > conn[s[1]] /\ s[1] = c
            /\ ~up[c] /\ up'[c] /\ conn'[c] = conn[c] + 1 /\ alive' = alive \cup {s} /\ buffer'[c] = <<>>
            /\ \E wants \in Seq(Subs!Wanted) :
                 /\ Subs!Wants(c) = {wants[i] : i \in DOMAIN wants}
                 /\ requests'[s] = buffer[c] \o [i \in DOMAIN wants |-> Subs!Enter(wants[i])]
            /\ \A t \in Subs!Sockets : t # s => requests'[t] = requests[t]
            /\ \A d \in Subscribers : d # c => up'[d] = up[d] /\ conn'[d] = conn[d] /\ buffer'[d] = buffer[d]
            /\ UNCHANGED <<descriptors, noted, verifying, events, made, stood, heard, repeated, ops, incidents>>
<1> DEFINE s == <<c, conn[c] + 1>>
<1>1. conn[c] \in Nat /\ conn[c] < MaxConns /\ MaxConns \in Nat
  BY FeedsAssumption DEF Subs!Connect, ListenShape, ListenTypes
<1>2. s \in Subs!Sockets /\ s[1] = c /\ s[2] = conn[c] + 1
  BY <1>1 DEF Subs!Sockets
<1>3. conn'[c] = conn[c] + 1 /\ \A d \in Subscribers : d # c => conn'[d] = conn[d]
  BY DEF Subs!Connect, ListenShape, ListenTypes
<1>4. s = Subs!Socket(c)' /\ s[2] > conn[s[1]]
  BY <1>1, <1>2, <1>3 DEF Subs!Socket
<1>5. ~up[c] /\ up'[c] /\ \A d \in Subscribers : d # c => up'[d] = up[d]
  BY DEF Subs!Connect, ListenShape, ListenTypes
<1>6. buffer'[c] = <<>> /\ \A d \in Subscribers : d # c => buffer'[d] = buffer[d]
  BY DEF Subs!Connect, ListenShape, ListenTypes
<1>7. PICK wants \in Subs!BoundedSeq(Subs!Wants(c), MaxCalls) :
        /\ Subs!InOrder(c, wants)
        /\ requests' = [requests EXCEPT ![s] = buffer[c] \o [i \in DOMAIN wants |-> Subs!Enter(wants[i])]]
  BY DEF Subs!Connect
<1>8. \A w \in Subs!Wants(c) : w \in Subs!Wanted
  BY DEF Subs!Wants, ListenShape, ListenTypes
<1>9. wants \in Seq(Subs!Wanted)
  <2>1. PICK m \in 0..MaxCalls : wants \in [1..m -> Subs!Wants(c)]
    BY <1>7 DEF Subs!BoundedSeq, Subs!SeqOf
  <2>2. m \in Nat
    BY FeedsAssumption
  <2> QED
    BY <1>8, <2>1, <2>2
<1>10. Subs!Wants(c) = {wants[i] : i \in DOMAIN wants}
  BY <1>7 DEF Subs!InOrder, Subs!Range
<1>11. buffer[c] \in Seq(Asking) /\ requests \in [Subs!Sockets -> Seq(Asking)]
  BY DEF ListenShape, ListenTypes
<1>12. buffer[c] \o [i \in DOMAIN wants |-> Subs!Enter(wants[i])] \in Seq(Asking)
  <2>1. DOMAIN wants = 1..Len(wants) /\ Len(wants) \in Nat /\ \A i \in DOMAIN wants : wants[i] \in Subs!Wanted
    BY <1>9
  <2>2. \A i \in DOMAIN wants : Subs!Enter(wants[i]) \in Asking
    BY <2>1, Askings
  <2>3. [i \in DOMAIN wants |-> Subs!Enter(wants[i])] \in Seq(Asking)
    BY <2>1, <2>2
  <2> QED
    BY <1>11, <2>3
<1> HIDE DEF s
<1>13. /\ requests' \in [Subs!Sockets -> Seq(Asking)]
       /\ requests'[s] = buffer[c] \o [i \in DOMAIN wants |-> Subs!Enter(wants[i])]
       /\ \A t \in Subs!Sockets : t # s => requests'[t] = requests[t]
  BY <1>2, <1>7, <1>11, <1>12
<1>14. /\ alive' = alive \cup {s}
       /\ UNCHANGED <<descriptors, noted, verifying, events, made, stood, heard, repeated, ops, incidents>>
  BY DEF Subs!Connect, Subs!ghosts, s
<1>15. ListenShape'
  <2>1. conn' \in [Subscribers -> 0..MaxConns] /\ up' \in [Subscribers -> BOOLEAN]
    BY <1>1 DEF Subs!Connect, ListenShape, ListenTypes
  <2>2. buffer' \in [Subscribers -> Seq(Asking)]
    <3>1. <<>> \in Seq(Asking)
      OBVIOUS
    <3> QED
      BY <3>1 DEF Subs!Connect, ListenShape, ListenTypes
  <2>3. ListenTypes'
    BY <1>2, <1>13, <1>14, <2>1, <2>2 DEF ListenShape, ListenTypes
  <2>4. EventTypes'
    BY <1>14 DEF ListenShape, EventTypes
  <2> QED
    BY <2>3, <2>4 DEF ListenShape
<1> QED
  BY <1>2, <1>3, <1>4, <1>5, <1>6, <1>9, <1>10, <1>13, <1>14, <1>15 DEF s

\* One that is taken out of the middle of a queue.
LEMMA RemovedTyped ==
  ASSUME NEW T, NEW q \in Seq(T), NEW i \in DOMAIN q
  PROVE  /\ Subs!RemoveAt(q, i) \in Seq(T) /\ q[i] \in T
         /\ \A x : (\E j \in DOMAIN q : q[j] = x)
                    <=> (x = q[i] \/ \E j \in DOMAIN Subs!RemoveAt(q, i) : Subs!RemoveAt(q, i)[j] = x)
<1> DEFINE p == Subs!RemoveAt(q, i)
           n == Len(q)
<1>1. q \in Seq(T) /\ DOMAIN q = 1..n /\ n \in Nat /\ i \in 1..n
  OBVIOUS
<1>2. /\ p \in Seq(T) /\ Len(p) = n - 1 /\ DOMAIN p = 1..(n - 1)
      /\ \A j \in 1..(n - 1) : p[j] = IF j < i THEN q[j] ELSE q[j + 1]
  <2>1. p = Sends!RemoveAt(q, i)
    BY DEF Subs!RemoveAt, Sends!RemoveAt
  <2> HIDE DEF p
  <2>2. p \in Seq(T) /\ Len(p) = n - 1 /\ \A j \in 1..(n - 1) : p[j] = IF j < i THEN q[j] ELSE q[j + 1]
    BY <1>1, <2>1, Removed
  <2> QED
    BY <1>1, <2>2
<1> HIDE DEF p, n
<1>5. ASSUME NEW j \in 1..n, j # i PROVE \E h \in 1..(n - 1) : p[h] = q[j]
  <2>1. CASE j < i
    <3>1. j \in 1..(n - 1) /\ p[j] = q[j]
      BY <1>1, <1>2, <2>1
    <3> QED
      BY <3>1
  <2>2. CASE ~(j < i)
    <3>1. j - 1 \in 1..(n - 1) /\ ~(j - 1 < i) /\ (j - 1) + 1 = j
      BY <1>1, <1>5, <2>2
    <3> QED
      BY <1>2, <3>1
  <2> QED
    BY <2>1, <2>2
<1>6. ASSUME NEW j \in 1..(n - 1) PROVE \E h \in 1..n : p[j] = q[h]
  <2>1. j \in 1..n /\ j + 1 \in 1..n
    BY <1>1
  <2> QED
    BY <1>2, <2>1
<1>7. ASSUME NEW x
      PROVE  (\E j \in DOMAIN q : q[j] = x) <=> (x = q[i] \/ \E j \in DOMAIN p : p[j] = x)
  <2>1. ASSUME NEW j \in 1..n, q[j] = x PROVE x = q[i] \/ \E h \in 1..(n - 1) : p[h] = x
    BY <1>5, <2>1
  <2>2. ASSUME x = q[i] \/ \E h \in 1..(n - 1) : p[h] = x PROVE \E j \in 1..n : q[j] = x
    BY <1>1, <1>6, <2>2
  <2> QED
    BY <1>1, <1>2, <2>1, <2>2
<1>8. q[i] \in T
  BY <1>1
<1> QED
  BY <1>2, <1>7, <1>8 DEF p

LEMMA Breaks ==
  ASSUME ListenShape, NEW c \in Subscribers, Subs!Break(c)
  PROVE  /\ ListenShape' /\ up[c] /\ ~up'[c] /\ \A d \in Subscribers : d # c => up'[d] = up[d]
         /\ \A t \in Subs!Sockets : t # Subs!Socket(c) => events'[t] = events[t] /\ requests'[t] = requests[t]
         /\ stood' = {x \in stood : x[1] # c}
         /\ UNCHANGED <<conn, descriptors, buffer, alive, noted, verifying, made, heard, repeated, ops, incidents>>
<1>1. /\ up[c] /\ up' = [up EXCEPT ![c] = FALSE]
      /\ events' = [events EXCEPT ![Subs!Socket(c)] = <<>>]
      /\ \E n \in 0..Len(requests[Subs!Socket(c)]) :
           requests' = [requests EXCEPT ![Subs!Socket(c)] = SubSeq(@, 1, n)]
      /\ stood' = {x \in stood : x[1] # c}
      /\ UNCHANGED <<conn, descriptors, buffer, alive, noted, verifying, made, heard, repeated, ops, incidents>>
  BY DEF Subs!Break
<1>2. ~up'[c] /\ up' \in [Subscribers -> BOOLEAN] /\ \A d \in Subscribers : d # c => up'[d] = up[d]
  BY <1>1 DEF ListenShape, ListenTypes
<1>3. requests \in [Subs!Sockets -> Seq(Asking)] /\ events \in [Subs!Sockets -> Seq(TableEvent)]
  BY DEF ListenShape, ListenTypes, EventTypes
<1> DEFINE k == Subs!Socket(c)
<1>4. events' = [events EXCEPT ![k] = <<>>] /\ <<>> \in Seq(TableEvent)
  BY <1>1
<1>5. PICK n \in 0..Len(requests[k]) : requests' = [requests EXCEPT ![k] = SubSeq(@, 1, n)]
  BY <1>1
<1> HIDE DEF k
<1>6. events' \in [Subs!Sockets -> Seq(TableEvent)] /\ \A t \in Subs!Sockets : t # k => events'[t] = events[t]
  BY <1>3, <1>4
<1>7. requests' \in [Subs!Sockets -> Seq(Asking)] /\ \A t \in Subs!Sockets : t # k => requests'[t] = requests[t]
  <2>1. ASSUME k \in Subs!Sockets PROVE SubSeq(requests[k], 1, n) \in Seq(Asking)
    <3>1. requests[k] \in Seq(Asking)
      BY <1>3, <2>1
    <3> QED
      BY <3>1
  <2> QED
    BY <1>3, <1>5, <2>1
<1>8. ListenShape'
  <2>1. ListenTypes'
    BY <1>1, <1>2, <1>7 DEF ListenShape, ListenTypes
  <2>2. EventTypes'
    BY <1>1, <1>6 DEF ListenShape, EventTypes
  <2> QED
    BY <2>1, <2>2 DEF ListenShape
<1> QED
  BY <1>1, <1>2, <1>6, <1>7, <1>8 DEF k

LEMMA Hearing ==
  ASSUME ListenShape, Linked, NEW c \in Subscribers, Subs!Receive(c)
  PROVE  LET s == Subs!Socket(c)
             e == Head(events[s])
             anew == {<<c, d[1], e.no, e.echo>> : d \in {x \in descriptors[c] : Subs!Hears(x[2], e)}}
         IN /\ ListenShape' /\ up[c] /\ s \in Subs!Sockets /\ events[s] # <<>>
            /\ events'[s] = Tail(events[s]) /\ \A t \in Subs!Sockets : t # s => events'[t] = events[t]
            /\ heard' = heard \cup anew /\ repeated' = repeated \cup (anew \cap heard)
            /\ UNCHANGED <<conn, up, descriptors, buffer, alive, noted, requests, verifying, made, stood, ops, incidents>>
<1> DEFINE s == Subs!Socket(c)
           e == Head(events[s])
           anew == {<<c, d[1], e.no, e.echo>> : d \in {x \in descriptors[c] : Subs!Hears(x[2], e)}}
<1>1. /\ up[c] /\ events[s] # <<>>
      /\ events' = [events EXCEPT ![s] = Tail(@)]
      /\ heard' = heard \cup anew /\ repeated' = repeated \cup (anew \cap heard)
      /\ UNCHANGED <<conn, up, descriptors, buffer, alive, noted, requests, verifying, made, stood, ops, incidents>>
  BY DEF Subs!Receive, Subs!sdk, Subs!server
<1>2. s \in Subs!Sockets
  BY <1>1, LinkedSocket
<1>3. events \in [Subs!Sockets -> Seq(TableEvent)]
  BY DEF ListenShape, EventTypes
<1>4. /\ events' \in [Subs!Sockets -> Seq(TableEvent)]
      /\ events'[s] = Tail(events[s]) /\ \A t \in Subs!Sockets : t # s => events'[t] = events[t]
  <2> HIDE DEF s
  <2> QED
    BY <1>1, <1>2, <1>3, TailTyped
<1> HIDE DEF s, e, anew
<1>5. ListenShape'
  <2>1. ListenTypes'
    BY <1>1 DEF ListenShape, ListenTypes
  <2>2. EventTypes'
    BY <1>1, <1>4 DEF ListenShape, EventTypes
  <2> QED
    BY <2>1, <2>2 DEF ListenShape
<1> QED
  BY <1>1, <1>2, <1>4, <1>5 DEF s, e, anew

LEMMA Takes ==
  ASSUME ListenShape, NEW s \in Subs!Sockets, Subs!Take(s)
  PROVE  /\ ListenShape' /\ requests[s] # <<>>
         /\ requests'[s] = Tail(requests[s]) /\ \A t \in Subs!Sockets : t # s => requests'[t] = requests[t]
         /\ UNCHANGED <<conn, up, descriptors, buffer, alive, events, made, stood, heard, repeated, ops>>
         /\ incidents \subseteq incidents'
         /\ \A t \in Subs!Sockets : t # s => noted'[t] = noted[t] /\ verifying'[t] = verifying[t]
         /\ \E v \in Subs!Wanted :
              \/ /\ Head(requests[s]) = Subs!Enter(v)
                 /\ verifying'[s] = Append(verifying[s], v) /\ noted'[s] = noted[s]
              \/ /\ Head(requests[s]) = Subs!Leave(v)
                 /\ noted'[s] = {x \in noted[s] : Subs!Room(x) # Subs!Room(v)} /\ verifying'[s] = verifying[s]
                 /\ "crossed" \notin incidents' =>
                      \A i \in DOMAIN verifying[s] : Subs!Room(verifying[s][i]) # Subs!Room(v)
<1> DEFINE r == Head(requests[s])
           v == r.wanted
           crossing == {i \in DOMAIN verifying[s] : Subs!Room(verifying[s][i]) = Subs!Room(v)}
<1>1. /\ requests[s] # <<>> /\ requests' = [requests EXCEPT ![s] = Tail(@)]
      /\ IF r.kind = "subscribe"
         THEN verifying' = [verifying EXCEPT ![s] = Append(@, v)] /\ UNCHANGED <<noted, incidents>>
         ELSE /\ noted' = [noted EXCEPT ![s] = {x \in noted[s] : Subs!Room(x) # Subs!Room(v)}]
              /\ incidents' = incidents \cup Subs!When(crossing # {}, "crossed")
              /\ UNCHANGED verifying
      /\ UNCHANGED <<conn, up, descriptors, buffer, alive, events, made, stood, heard, repeated, ops>>
  BY DEF Subs!Take, Subs!Mark, Subs!sdk, Subs!ghosts
<1>2. /\ requests \in [Subs!Sockets -> Seq(Asking)] /\ verifying \in [Subs!Sockets -> Seq(Subs!Wanted)]
      /\ noted \in [Subs!Sockets -> SUBSET Subs!Wanted]
  BY DEF ListenShape, ListenTypes
<1>3. /\ requests' \in [Subs!Sockets -> Seq(Asking)]
      /\ requests'[s] = Tail(requests[s]) /\ \A t \in Subs!Sockets : t # s => requests'[t] = requests[t]
  BY <1>1, <1>2, TailTyped
<1>4. r \in Asking
  <2>1. requests[s] \in Seq(Asking) /\ requests[s] # <<>>
    BY <1>1, <1>2
  <2> QED
    BY <2>1
<1> HIDE DEF r
<1>5. v \in Subs!Wanted /\ (r.kind = "subscribe" => r = Subs!Enter(v))
      /\ (r.kind # "subscribe" => r = Subs!Leave(v))
  BY <1>4, Askings
<1> HIDE DEF v
<1>6. CASE r.kind = "subscribe"
  <2>1. verifying' = [verifying EXCEPT ![s] = Append(@, v)] /\ noted' = noted /\ incidents' = incidents
    BY <1>1, <1>6
  <2>2. /\ verifying' \in [Subs!Sockets -> Seq(Subs!Wanted)] /\ verifying'[s] = Append(verifying[s], v)
        /\ \A t \in Subs!Sockets : t # s => verifying'[t] = verifying[t]
    BY <1>2, <1>5, <2>1, AppendTyped
  <2>3. ListenTypes'
    BY <1>1, <1>3, <2>1, <2>2 DEF ListenShape, ListenTypes
  <2>4. EventTypes'
    BY <1>1 DEF ListenShape, EventTypes
  <2>5. ListenShape'
    BY <2>3, <2>4 DEF ListenShape
  <2>6. Head(requests[s]) = Subs!Enter(v)
    BY <1>5, <1>6 DEF r
  <2> QED
    BY <1>1, <1>3, <1>5, <2>1, <2>2, <2>5, <2>6
<1>7. CASE r.kind # "subscribe"
  <2>1. /\ noted' = [noted EXCEPT ![s] = {x \in noted[s] : Subs!Room(x) # Subs!Room(v)}]
        /\ incidents' = incidents \cup Subs!When(crossing # {}, "crossed")
        /\ verifying' = verifying
    BY <1>1, <1>7
  <2>2. /\ noted' \in [Subs!Sockets -> SUBSET Subs!Wanted]
        /\ noted'[s] = {x \in noted[s] : Subs!Room(x) # Subs!Room(v)}
        /\ \A t \in Subs!Sockets : t # s => noted'[t] = noted[t]
    BY <1>2, <2>1
  <2>3. ListenTypes'
    BY <1>1, <1>3, <2>1, <2>2 DEF ListenShape, ListenTypes
  <2>4. EventTypes'
    BY <1>1 DEF ListenShape, EventTypes
  <2>5. ListenShape'
    BY <2>3, <2>4 DEF ListenShape
  <2>6. Head(requests[s]) = Subs!Leave(v)
    BY <1>5, <1>7 DEF r
  <2>7. "crossed" \notin incidents' => crossing = {}
    BY <2>1 DEF Subs!When
  <2>8. "crossed" \notin incidents' => \A i \in DOMAIN verifying[s] : Subs!Room(verifying[s][i]) # Subs!Room(v)
    BY <2>7
  <2>9. incidents \subseteq incidents'
    BY <2>1
  <2> QED
    BY <1>1, <1>3, <1>5, <2>1, <2>2, <2>5, <2>6, <2>8, <2>9
<1> QED
  BY <1>6, <1>7

\* What a socket has, verified or not yet.
Held(s) == noted[s] \cup {verifying[s][i] : i \in DOMAIN verifying[s]}

\* A verification ends, well or badly.
LEMMA Verified ==
  ASSUME ListenShape, NEW s \in Subs!Sockets, NEW i \in DOMAIN verifying[s], Subs!Note(s, i) \/ Subs!Deny(s, i)
  PROVE  /\ ListenShape'
         /\ \A t \in Subs!Sockets : t # s => noted'[t] = noted[t] /\ verifying'[t] = verifying[t]
         /\ UNCHANGED <<conn, up, descriptors, buffer, alive, requests, events, made, stood, heard, repeated, ops>>
         /\ incidents \subseteq incidents' /\ Held(s)' \subseteq Held(s)
         /\ verifying[s][i] \in Subs!Wanted
         /\ \/ noted'[s] = noted[s] /\ "denied" \in incidents'
            \/ /\ noted'[s] = {v \in noted[s] : Subs!Room(v) # Subs!Room(verifying[s][i])} \cup {verifying[s][i]}
               /\ "late" \notin incidents' => s \in alive
               /\ \A v \in Held(s) : v \in Held(s)' \/ Subs!Conflicts(v, verifying[s][i])
<1> DEFINE w == verifying[s][i]
<1>1. /\ verifying' = [verifying EXCEPT ![s] = Subs!RemoveAt(@, i)]
      /\ UNCHANGED <<conn, up, descriptors, buffer, alive, requests, events, made, stood, heard, repeated, ops>>
      /\ \/ noted' = noted /\ incidents' = incidents \cup {"denied"}
         \/ /\ noted' = [noted EXCEPT ![s] = {v \in @ : Subs!Room(v) # Subs!Room(w)} \cup {w}]
            /\ incidents' = incidents \cup Subs!When(s \notin alive, "late")
  BY DEF Subs!Note, Subs!Deny, Subs!Mark, Subs!sdk, Subs!ghosts
<1>2. verifying \in [Subs!Sockets -> Seq(Subs!Wanted)] /\ noted \in [Subs!Sockets -> SUBSET Subs!Wanted]
  BY DEF ListenShape, ListenTypes
<1>3. /\ verifying' \in [Subs!Sockets -> Seq(Subs!Wanted)]
      /\ \A t \in Subs!Sockets : t # s => verifying'[t] = verifying[t]
      /\ w \in Subs!Wanted
      /\ \A x : (\E j \in DOMAIN verifying[s] : verifying[s][j] = x)
                  <=> (x = w \/ \E j \in DOMAIN verifying'[s] : verifying'[s][j] = x)
  <2> DEFINE q == verifying[s]
             p == Subs!RemoveAt(q, i)
  <2>1. q \in Seq(Subs!Wanted) /\ i \in DOMAIN q
    BY <1>2
  <2>2. verifying' = [verifying EXCEPT ![s] = p]
    BY <1>1
  <2>3. p \in Seq(Subs!Wanted) /\ q[i] \in Subs!Wanted
    BY <2>1, RemovedTyped
  <2>4. \A x : (\E j \in DOMAIN q : q[j] = x) <=> (x = q[i] \/ \E j \in DOMAIN p : p[j] = x)
    BY <2>1, RemovedTyped
  <2> HIDE DEF p
  <2>5. /\ verifying' \in [Subs!Sockets -> Seq(Subs!Wanted)] /\ verifying'[s] = p
        /\ \A t \in Subs!Sockets : t # s => verifying'[t] = verifying[t]
    BY <1>2, <2>2, <2>3
  <2> QED
    BY <2>3, <2>4, <2>5
<1> HIDE DEF w
<1>4. \A x : x \in Held(s) <=> x \in noted[s] \/ x = w \/ \E j \in DOMAIN verifying'[s] : verifying'[s][j] = x
  BY <1>3 DEF Held
<1>5. \A x : x \in Held(s)' <=> x \in noted'[s] \/ \E j \in DOMAIN verifying'[s] : verifying'[s][j] = x
  BY DEF Held
<1>6. /\ noted' \in [Subs!Sockets -> SUBSET Subs!Wanted]
      /\ \A t \in Subs!Sockets : t # s => noted'[t] = noted[t]
      /\ \/ noted'[s] = noted[s] /\ "denied" \in incidents'
         \/ /\ noted'[s] = {v \in noted[s] : Subs!Room(v) # Subs!Room(w)} \cup {w}
            /\ "late" \notin incidents' => s \in alive
      /\ incidents \subseteq incidents'
  <2>1. CASE noted' = noted /\ incidents' = incidents \cup {"denied"}
    BY <1>2, <2>1
  <2>2. CASE /\ noted' = [noted EXCEPT ![s] = {v \in @ : Subs!Room(v) # Subs!Room(w)} \cup {w}]
             /\ incidents' = incidents \cup Subs!When(s \notin alive, "late")
    <3>1. {v \in noted[s] : Subs!Room(v) # Subs!Room(w)} \cup {w} \in SUBSET Subs!Wanted
      BY <1>2, <1>3
    <3>2. "late" \notin incidents' => s \in alive
      BY <2>2 DEF Subs!When
    <3> QED
      BY <1>2, <2>2, <3>1, <3>2
  <2> QED
    BY <1>1, <2>1, <2>2 DEF w
<1>7. ListenShape'
  <2>1. ListenTypes'
    BY <1>1, <1>3, <1>6 DEF ListenShape, ListenTypes
  <2>2. EventTypes'
    BY <1>1 DEF ListenShape, EventTypes
  <2> QED
    BY <2>1, <2>2 DEF ListenShape
<1>8. Held(s)' \subseteq Held(s)
  BY <1>4, <1>5, <1>6
<1>9. ASSUME noted'[s] = {v \in noted[s] : Subs!Room(v) # Subs!Room(w)} \cup {w}, NEW v \in Held(s)
      PROVE  v \in Held(s)' \/ Subs!Conflicts(v, w)
  BY <1>4, <1>5, <1>9 DEF Subs!Conflicts
<1> QED
  BY <1>1, <1>3, <1>6, <1>7, <1>8, <1>9 DEF w

LEMMA Goes ==
  ASSUME ListenShape, NEW s \in Subs!Sockets, Subs!Disconnect(s)
  PROVE  /\ ListenShape' /\ s \in alive /\ ~Subs!Stands(s) /\ alive' = alive \ {s} /\ noted'[s] = {}
         /\ \A t \in Subs!Sockets : t # s => noted'[t] = noted[t]
         /\ UNCHANGED <<conn, up, descriptors, buffer, requests, verifying, events, made, stood, heard, repeated,
                        ops, incidents>>
<1>1. /\ s \in alive /\ ~Subs!Stands(s) /\ alive' = alive \ {s} /\ noted' = [noted EXCEPT ![s] = {}]
      /\ UNCHANGED <<conn, up, descriptors, buffer, requests, verifying, events, made, stood, heard, repeated,
                     ops, incidents>>
  BY DEF Subs!Disconnect, Subs!sdk, Subs!ghosts
<1>2. ListenTypes'
  BY <1>1 DEF ListenShape, ListenTypes
<1>3. EventTypes'
  BY <1>1 DEF ListenShape, EventTypes
<1>4. noted'[s] = {} /\ \A t \in Subs!Sockets : t # s => noted'[t] = noted[t]
  BY <1>1 DEF ListenShape, ListenTypes
<1> QED
  BY <1>1, <1>2, <1>3, <1>4 DEF ListenShape

LEMMA JoinedAt ==
  ASSUME NEW T, NEW a \in Seq(T), NEW b \in Seq(T), NEW q, q = a \o b
  PROVE  /\ q \in Seq(T)
         /\ \A i \in DOMAIN q : (i \in DOMAIN a /\ q[i] = a[i]) \/ (i - Len(a) \in DOMAIN b /\ q[i] = b[i - Len(a)])
         /\ \A i \in DOMAIN a : i \in DOMAIN q /\ q[i] = a[i]
         /\ \A i \in DOMAIN b : i + Len(a) \in DOMAIN q /\ q[i + Len(a)] = b[i]
<1> DEFINE n == Len(a)
           m == Len(b)
<1>1. /\ n \in Nat /\ m \in Nat /\ DOMAIN a = 1..n /\ DOMAIN b = 1..m
      /\ q \in Seq(T) /\ DOMAIN q = 1..(n + m)
      /\ \A i \in 1..(n + m) : q[i] = IF i <= n THEN a[i] ELSE b[i - n]
  OBVIOUS
<1> HIDE DEF n, m
<1>2. ASSUME NEW i \in 1..(n + m) PROVE (i \in 1..n /\ q[i] = a[i]) \/ (i - n \in 1..m /\ q[i] = b[i - n])
  BY <1>1
<1>3. ASSUME NEW i \in 1..n PROVE i \in 1..(n + m) /\ q[i] = a[i]
  BY <1>1
<1>4. ASSUME NEW i \in 1..m PROVE i + n \in 1..(n + m) /\ q[i + n] = b[i]
  <2>1. i + n \in 1..(n + m) /\ ~(i + n <= n) /\ (i + n) - n = i
    BY <1>1
  <2> QED
    BY <1>1, <2>1
<1> QED
  BY <1>1, <1>2, <1>3, <1>4 DEF n

LEMMA RoomOf ==
  ASSUME NEW w \in Subs!Wanted
  PROVE  /\ w.event \in {"INSERT", "*", "broadcast"} /\ w.channel \in Channels
         /\ w.event = "broadcast" => Subs!Room(w) = <<"broadcast", w.channel>> /\ w.filter = {}
         /\ w.event # "broadcast" => Subs!Room(w) = <<w.event>>
         /\ \A h : Subs!Room(w) = <<"broadcast", h>> => w.event = "broadcast" /\ w.channel = h
         /\ \A h : Subs!Room(w) = <<h>> => w.event = h /\ w.event # "broadcast"
<1>1. /\ w.event \in {"INSERT", "*", "broadcast"} /\ w.channel \in Channels
      /\ w.event = "broadcast" => w.filter = {}
  BY DEF Subs!Wanted
<1>2. /\ w.event = "broadcast" => Subs!Room(w) = <<"broadcast", w.channel>>
      /\ w.event # "broadcast" => Subs!Room(w) = <<w.event>>
  BY DEF Subs!Room
<1>3. \A g, h, k : <<g>> # <<h, k>>
  <2> SUFFICES ASSUME NEW g, NEW h, NEW k PROVE Len(<<g>>) # Len(<<h, k>>)
    OBVIOUS
  <2> QED
    OBVIOUS
<1>4. ASSUME NEW h, Subs!Room(w) = <<"broadcast", h>> PROVE w.event = "broadcast" /\ w.channel = h
  <2>1. w.event = "broadcast"
    BY <1>2, <1>3, <1>4
  <2>2. <<"broadcast", w.channel>>[2] = <<"broadcast", h>>[2]
    BY <1>2, <1>4, <2>1
  <2> QED
    BY <2>1, <2>2
<1>5. ASSUME NEW h, Subs!Room(w) = <<h>> PROVE w.event = h /\ w.event # "broadcast"
  <2>1. w.event # "broadcast"
    BY <1>2, <1>3, <1>5
  <2>2. <<w.event>>[1] = <<h>>[1]
    BY <1>2, <1>5, <2>1
  <2> QED
    BY <2>1, <2>2
<1> QED
  BY <1>1, <1>2, <1>4, <1>5

LEMMA ChangeOf ==
  ASSUME NEW change \in Subs!Change
  PROVE  \/ change.event = "INSERT"
         \/ change.event = "broadcast" /\ change.channel \in Channels
  BY DEF Subs!Change

\* There is at most one event in a room, named as a note there is.
SentFor(q, s, there, n, change, echo) ==
  LET in == {w \in noted[s] : Subs!Room(w) = there /\ Subs!CanReceive(w, change)}
  IN /\ q \in Seq(TableEvent) /\ DOMAIN q \subseteq {1}
     /\ \A i \in DOMAIN q : \E w \in in :
          q[i].event = w.event /\ q[i].channel = w.channel /\ q[i].no = n /\ q[i].echo = echo
     /\ \A w \in in : (\A v \in noted[s] : Subs!Room(v) = there => v = w) =>
          1 \in DOMAIN q /\ q[1].event = w.event /\ q[1].channel = w.channel

LEMMA SentThere ==
  ASSUME ListenShape, NEW s \in Subs!Sockets, NEW there, NEW n \in Nat, NEW change, NEW echo \in BOOLEAN
  PROVE  SentFor(Subs!SentTo(s, there, n, change, echo), s, there, n, change, echo)
<1> DEFINE in == {w \in noted[s] : Subs!Room(w) = there /\ Subs!CanReceive(w, change)}
           v == CHOOSE w \in in : TRUE
           e == [event |-> v.event, channel |-> v.channel, no |-> n, echo |-> echo]
           q == Subs!SentTo(s, there, n, change, echo)
<1>1. q = IF in = {} THEN <<>> ELSE <<e>>
  BY DEF Subs!SentTo
<1>2. \A w \in in : w \in noted[s] /\ w \in Subs!Wanted
  BY DEF ListenShape, ListenTypes
<1>3. in # {} => v \in in
  OBVIOUS
<1> HIDE DEF q, in, v
<1>4. /\ q \in Seq(TableEvent) /\ DOMAIN q \subseteq {1}
      /\ 1 \in DOMAIN q <=> in # {}
      /\ 1 \in DOMAIN q => q[1] = e
  <2>1. CASE in = {}
    BY <1>1, <2>1
  <2>2. CASE in # {}
    <3>1. v.event \in {"INSERT", "*", "broadcast"} /\ v.channel \in Channels
      BY <1>2, <1>3, <2>2, RoomOf
    <3>2. e \in TableEvent
      BY <3>1 DEF TableEvent
    <3> HIDE DEF e
    <3> QED
      BY <1>1, <2>2, <3>2
  <2> QED
    BY <2>1, <2>2
<1>5. e.event = v.event /\ e.channel = v.channel /\ e.no = n /\ e.echo = echo
  OBVIOUS
<1> HIDE DEF e
<1>6. \A i \in DOMAIN q : \E w \in in :
          q[i].event = w.event /\ q[i].channel = w.channel /\ q[i].no = n /\ q[i].echo = echo
  BY <1>3, <1>4, <1>5
<1>7. ASSUME NEW w \in in, \A x \in noted[s] : Subs!Room(x) = there => x = w
      PROVE  1 \in DOMAIN q /\ q[1].event = w.event /\ q[1].channel = w.channel
  <2>1. v \in in /\ v \in noted[s]
    BY <1>2, <1>3
  <2>2. Subs!Room(v) = there
    BY <2>1 DEF in
  <2> QED
    BY <1>4, <1>5, <1>7, <2>1, <2>2
<1> QED
  BY <1>4, <1>6, <1>7 DEF SentFor, q, in

\* What is sent is named as what is noted; two on one channel are for two notes there.
LEMMA SentAway ==
  ASSUME ListenShape, NEW s \in Subs!Sockets, NEW n \in Nat, NEW change \in Subs!Change, NEW echo \in BOOLEAN,
         NEW q, q = Subs!Sent(s, n, change, echo)
  PROVE  /\ q \in Seq(TableEvent)
         /\ \A i \in DOMAIN q : \E w \in noted[s] :
              /\ Subs!Concerns(w, change)
              /\ q[i].event = w.event /\ q[i].channel = w.channel /\ q[i].no = n /\ q[i].echo = echo
         /\ s \in alive /\ OneNote => \A w \in noted[s] : Subs!Concerns(w, change) =>
              \E i \in DOMAIN q : q[i].event = w.event /\ q[i].channel = w.channel
         /\ \A i, j \in DOMAIN q : i # j /\ q[i].channel = q[j].channel =>
              \E v, w \in noted[s] : Subs!Doubles(v, w)
<1> DEFINE there == <<"broadcast", change.channel>>
           inserts == <<"INSERT">>
           all == <<"*">>
           o == Subs!SentTo(s, there, n, change, echo)
           a == Subs!SentTo(s, inserts, n, change, echo)
           b == Subs!SentTo(s, all, n, change, echo)
<1>1. q = IF s \notin alive THEN <<>> ELSE IF change.event = "broadcast" THEN o
          ELSE Subs!SentTo(s, <<change.event>>, n, change, echo) \o b
  BY DEF Subs!Sent
<1>2. \A w \in noted[s] : w \in Subs!Wanted
  BY DEF ListenShape, ListenTypes
<1>3. CASE s \notin alive
  <2>1. q = <<>> /\ DOMAIN <<>> = {} /\ <<>> \in Seq(TableEvent)
    BY <1>1, <1>3
  <2> QED
    BY <1>3, <2>1
<1>4. CASE s \in alive /\ change.event = "broadcast"
  <2>1. q = o
    BY <1>1, <1>4
  <2>2. \A w \in noted[s] : Subs!Concerns(w, change)
                              <=> (Subs!Room(w) = <<"broadcast", change.channel>> /\ Subs!CanReceive(w, change))
    BY <1>2, <1>4, RoomOf DEF Subs!Concerns
  <2>3. SentFor(q, s, there, n, change, echo)
    <3> HIDE DEF there
    <3> QED
      BY <2>1, SentThere
  <2>4. ASSUME OneNote, NEW w \in noted[s], Subs!Concerns(w, change)
        PROVE  \E i \in DOMAIN q : q[i].event = w.event /\ q[i].channel = w.channel
    <3>1. Subs!Room(w) = <<"broadcast", change.channel>> /\ Subs!CanReceive(w, change)
      BY <2>2, <2>4
    <3>2. \A v \in noted[s] : Subs!Room(v) = <<"broadcast", change.channel>> => v = w
      BY <2>4, <3>1 DEF OneNote
    <3> QED
      BY <2>3, <3>1, <3>2 DEF SentFor
  <2>5. \A i, j \in DOMAIN q : i = j
    BY <2>3 DEF SentFor
  <2> QED
    BY <2>2, <2>3, <2>4, <2>5 DEF SentFor
<1>5. CASE s \in alive /\ change.event = "INSERT"
  <2>1. q = a \o b
    BY <1>1, <1>5
  <2>2. \A w \in noted[s] : Subs!Concerns(w, change)
           <=> (Subs!CanReceive(w, change) /\ (Subs!Room(w) = <<"INSERT">> \/ Subs!Room(w) = <<"*">>))
    BY <1>2, <1>5, RoomOf DEF Subs!Concerns
  <2>3. SentFor(a, s, inserts, n, change, echo) /\ SentFor(b, s, all, n, change, echo)
    <3> HIDE DEF inserts, all
    <3> QED
      BY SentThere
  <2> HIDE DEF a, b
  <2>5. /\ q \in Seq(TableEvent)
        /\ \A i \in DOMAIN q : (i \in DOMAIN a /\ q[i] = a[i]) \/ (i - Len(a) \in DOMAIN b /\ q[i] = b[i - Len(a)])
        /\ \A i \in DOMAIN a : i \in DOMAIN q /\ q[i] = a[i]
        /\ \A i \in DOMAIN b : i + Len(a) \in DOMAIN q /\ q[i + Len(a)] = b[i]
    BY <2>1, <2>3, JoinedAt DEF SentFor
  <2>6. ASSUME NEW i \in DOMAIN q
        PROVE  \E w \in noted[s] :
                 /\ Subs!Concerns(w, change)
                 /\ q[i].event = w.event /\ q[i].channel = w.channel /\ q[i].no = n /\ q[i].echo = echo
    <3>1. CASE i \in DOMAIN a /\ q[i] = a[i]
      BY <2>2, <2>3, <3>1 DEF SentFor
    <3>2. CASE i - Len(a) \in DOMAIN b /\ q[i] = b[i - Len(a)]
      BY <2>2, <2>3, <3>2 DEF SentFor
    <3> QED
      BY <2>5, <3>1, <3>2
  <2>7. ASSUME OneNote, NEW w \in noted[s], Subs!Concerns(w, change)
        PROVE  \E i \in DOMAIN q : q[i].event = w.event /\ q[i].channel = w.channel
    <3>1. Subs!CanReceive(w, change) /\ \A v \in noted[s] : Subs!Room(v) = Subs!Room(w) => v = w
      BY <2>2, <2>7 DEF OneNote
    <3>2. CASE Subs!Room(w) = <<"INSERT">>
      <4>1. 1 \in DOMAIN a /\ a[1].event = w.event /\ a[1].channel = w.channel
        BY <2>3, <3>1, <3>2 DEF SentFor
      <4> QED
        BY <2>5, <4>1
    <3>3. CASE Subs!Room(w) = <<"*">>
      <4>1. 1 \in DOMAIN b /\ b[1].event = w.event /\ b[1].channel = w.channel
        BY <2>3, <3>1, <3>3 DEF SentFor
      <4> QED
        BY <2>5, <4>1
    <3> QED
      BY <2>2, <2>7, <3>2, <3>3
  <2>8. ASSUME NEW i \in DOMAIN q, NEW j \in DOMAIN q, i # j, q[i].channel = q[j].channel
        PROVE  \E v, w \in noted[s] : Subs!Doubles(v, w)
    <3>1. ASSUME NEW g \in DOMAIN a, NEW h \in DOMAIN b, a[g].channel = b[h].channel
          PROVE  \E v, w \in noted[s] : Subs!Doubles(v, w)
      <4>1. PICK v \in noted[s] : Subs!Room(v) = <<"INSERT">> /\ a[g].channel = v.channel
        BY <2>3 DEF SentFor
      <4>2. PICK w \in noted[s] : Subs!Room(w) = <<"*">> /\ b[h].channel = w.channel
        BY <2>3 DEF SentFor
      <4>3. v.event = "INSERT" /\ w.event = "*" /\ v.channel = w.channel
        BY <1>2, <3>1, <4>1, <4>2, RoomOf
      <4>4. Subs!Doubles(v, w)
        BY <4>3 DEF Subs!Doubles
      <4> QED
        BY <4>4
    <3>2. Len(a) \in Nat /\ \A g, h \in DOMAIN a : g = h
      BY <2>3 DEF SentFor
    <3>3. \A g, h \in DOMAIN b : g = h /\ g \in Nat
      BY <2>3 DEF SentFor
    <3>4. i \in Nat /\ j \in Nat
      BY <2>5
    <3>5. CASE i \in DOMAIN a /\ q[i] = a[i]
      BY <2>5, <2>8, <3>1, <3>2, <3>5
    <3>6. CASE i - Len(a) \in DOMAIN b /\ q[i] = b[i - Len(a)]
      <4>1. CASE j \in DOMAIN a /\ q[j] = a[j]
        BY <2>8, <3>1, <3>6, <4>1
      <4>2. CASE j - Len(a) \in DOMAIN b
        BY <2>8, <3>2, <3>3, <3>4, <3>6, <4>2
      <4> QED
        BY <2>5, <4>1, <4>2
    <3> QED
      BY <2>5, <3>5, <3>6
  <2> QED
    BY <2>5, <2>6, <2>7, <2>8
<1> QED
  BY <1>3, <1>4, <1>5, ChangeOf

\* Each socket whose client is there is sent what is sent to it.
LEMMA SentOut ==
  ASSUME ListenShape, NEW n \in Nat, NEW change \in Subs!Change, NEW echo \in BOOLEAN, Subs!Emit(n, change, echo)
  PROVE  /\ events' \in [Subs!Sockets -> Seq(TableEvent)]
         /\ \A t \in Subs!Sockets :
              events'[t] = IF Subs!Stands(t) THEN events[t] \o Subs!Sent(t, n, change, echo) ELSE events[t]
<1>1. events' = [s \in Subs!Sockets |-> IF Subs!Stands(s) THEN events[s] \o Subs!Sent(s, n, change, echo)
                                        ELSE events[s]]
  BY DEF Subs!Emit
<1>2. ASSUME NEW t \in Subs!Sockets
      PROVE  (IF Subs!Stands(t) THEN events[t] \o Subs!Sent(t, n, change, echo) ELSE events[t]) \in Seq(TableEvent)
  <2> DEFINE p == Subs!Sent(t, n, change, echo)
  <2>1. events[t] \in Seq(TableEvent)
    BY DEF ListenShape, EventTypes
  <2>2. p \in Seq(TableEvent)
    BY SentAway
  <2> HIDE DEF p
  <2>3. events[t] \o p \in Seq(TableEvent)
    BY <2>1, <2>2
  <2> QED
    BY <2>1, <2>3 DEF p
<1> QED
  BY <1>1, <1>2

LEMMA Makes ==
  ASSUME ListenShape, NEW change \in Subs!Change, Subs!Make(change)
  PROVE  /\ ListenShape' /\ made' = Append(made, change) /\ Len(made') = Len(made) + 1
         /\ Subs!Emit(Len(made) + 1, change, FALSE)
         /\ \A x : x \in stood' <=>
              (x \in stood \/ \E c \in Subscribers : Subs!Settled(c) /\ \E d \in descriptors[c] :
                                x = <<c, d[1], Len(made) + 1>>)
         /\ UNCHANGED <<conn, up, descriptors, buffer, alive, noted, requests, verifying, heard, repeated,
                        ops, incidents>>
<1>1. /\ made' = Append(made, change)
      /\ Subs!Emit(Len(made'), change, FALSE)
      /\ stood' = stood \cup UNION {{<<c, d[1], Len(made')>> : d \in descriptors[c]} :
                                c \in {x \in Subscribers : Subs!Settled(x)}}
      /\ UNCHANGED <<conn, up, descriptors, buffer, alive, noted, requests, verifying, heard, repeated,
                     ops, incidents>>
  BY DEF Subs!Make, Subs!sdk, Subs!server
<1>2. made' \in Seq(Subs!Change) /\ Len(made') = Len(made) + 1 /\ Len(made) + 1 \in Nat
  BY <1>1 DEF ListenShape, EventTypes
<1>3. Subs!Emit(Len(made) + 1, change, FALSE)
  BY <1>1, <1>2
<1>4. events' \in [Subs!Sockets -> Seq(TableEvent)]
  BY <1>2, <1>3, SentOut
<1>5. ListenTypes'
  BY <1>1 DEF ListenShape, ListenTypes
<1>6. EventTypes'
  BY <1>1, <1>2, <1>4 DEF ListenShape, EventTypes
<1>7. \A x : x \in stood' <=>
        (x \in stood \/ \E c \in Subscribers : Subs!Settled(c) /\ \E d \in descriptors[c] :
                          x = <<c, d[1], Len(made) + 1>>)
  BY <1>1, <1>2
<1> QED
  BY <1>1, <1>2, <1>3, <1>5, <1>6, <1>7 DEF ListenShape

LEMMA Echoes ==
  ASSUME ListenShape, NEW n \in DOMAIN made, Subs!Echo(n)
  PROVE  /\ ListenShape' /\ n \in Nat /\ made[n] \in Subs!Change /\ Subs!Emit(n, made[n], TRUE)
         /\ \A s \in Subs!Sockets : \A i \in DOMAIN events[s] : ~(events[s][i].echo /\ events[s][i].no = n)
         /\ \A x \in heard : ~(x[3] = n /\ x[4])
         /\ UNCHANGED <<conn, up, descriptors, buffer, alive, noted, requests, verifying, made, stood, heard,
                        repeated, ops, incidents>>
<1>1. /\ Subs!Emit(n, made[n], TRUE)
      /\ \A s \in Subs!Sockets : \A i \in DOMAIN events[s] : ~(events[s][i].echo /\ events[s][i].no = n)
      /\ \A x \in heard : ~(x[3] = n /\ x[4])
      /\ UNCHANGED <<conn, up, descriptors, buffer, alive, noted, requests, verifying, made, stood, heard,
                     repeated, ops, incidents>>
  BY DEF Subs!Echo, Subs!sdk, Subs!server, Subs!ghosts
<1>2. n \in Nat /\ made[n] \in Subs!Change
  BY DEF ListenShape, EventTypes
<1>3. events' \in [Subs!Sockets -> Seq(TableEvent)]
  BY <1>1, <1>2, SentOut
<1>4. ListenTypes'
  BY <1>1 DEF ListenShape, ListenTypes
<1>5. EventTypes'
  BY <1>1, <1>3 DEF ListenShape, EventTypes
<1> QED
  BY <1>1, <1>2, <1>4, <1>5 DEF ListenShape

-----------------------------------------------------------------------------
(* Subscriptions: what is held and asked for, and what is wanted.           *)

Clashing == {p \in Subs!Wanted \X Subs!Wanted : Subs!Conflicts(p[1], p[2])}
Doubling == {p \in Subs!Wanted \X Subs!Wanted : Subs!Doubles(p[1], p[2])}

\* Wanted is asked for; what is asked for and not only a broadcast is wanted; and no two that
\* would come in each other's way are there together, or asked for one on the other.
AllAsked(held, q, wants) == \A w \in wants : OpenAt(held, q, w, Len(q) + 1)
OnlyAsked(held, q, wants) ==
  \A w \in Subs!Wanted : w.event # "broadcast" /\ OpenAt(held, q, w, Len(q) + 1) => w \in wants
Separate(P, held, q) ==
  /\ \A v, w \in held : <<v, w>> \notin P
  /\ \A v, w \in Subs!Wanted : <<v, w>> \in P =>
       \A i \in 1..Len(q) : q[i] = Subs!Enter(v) => ~OpenAt(held, q, w, i)
Consistent(P, wants) == \A v, w \in wants : <<v, w>> \notin P

WantsOf(wants, marks) ==
  /\ "overwritten" \notin marks => Consistent(Clashing, wants)
  /\ "doubled" \notin marks => Consistent(Doubling, wants)
BookOf(held, q, wants, marks) ==
  /\ {"overwritten", "crossed", "denied"} \cap marks = {} => AllAsked(held, q, wants)
  /\ "crossed" \notin marks => OnlyAsked(held, q, wants)
  /\ {"overwritten", "crossed"} \cap marks = {} => Separate(Clashing, held, q)
  /\ {"doubled", "crossed"} \cap marks = {} => Separate(Doubling, held, q)

LEMMA PairsOf ==
  ASSUME NEW P \in {Clashing, Doubling}, NEW v \in Subs!Wanted, NEW w \in Subs!Wanted
  PROVE  /\ <<v, w>> \in P => v # w /\ v.event # "broadcast" /\ w.event # "broadcast" /\ <<w, v>> \in P
         /\ <<v, w>> \in Clashing <=> Subs!Conflicts(v, w)
         /\ <<v, w>> \in Doubling <=> Subs!Doubles(v, w)
<1>1. /\ <<v, w>> \in Clashing <=> Subs!Conflicts(v, w)
      /\ <<v, w>> \in Doubling <=> Subs!Doubles(v, w)
      /\ <<w, v>> \in Clashing <=> Subs!Conflicts(w, v)
      /\ <<w, v>> \in Doubling <=> Subs!Doubles(w, v)
  BY DEF Clashing, Doubling
<1>2. ASSUME Subs!Conflicts(v, w)
      PROVE  v # w /\ v.event # "broadcast" /\ w.event # "broadcast" /\ Subs!Conflicts(w, v)
  <2>1. v # w /\ Subs!Room(v) = Subs!Room(w)
    BY <1>2 DEF Subs!Conflicts
  <2>2. ASSUME v.event = "broadcast" \/ w.event = "broadcast" PROVE FALSE
    <3>1. v.event = "broadcast" /\ w.event = "broadcast" /\ v.channel = w.channel /\ v.filter = {} /\ w.filter = {}
      BY <2>1, <2>2, RoomOf
    <3>2. v = w
      BY <3>1 DEF Subs!Wanted
    <3> QED
      BY <2>1, <3>2
  <2> QED
    BY <2>1, <2>2 DEF Subs!Conflicts
<1>3. ASSUME Subs!Doubles(v, w)
      PROVE  v # w /\ v.event # "broadcast" /\ w.event # "broadcast" /\ Subs!Doubles(w, v)
  <2>1. v.channel = w.channel /\ {v.event, w.event} = {"*", "INSERT"}
    BY <1>3 DEF Subs!Doubles
  <2>2. v.event # w.event /\ v.event \in {"*", "INSERT"} /\ w.event \in {"*", "INSERT"}
    BY <2>1
  <2>3. {w.event, v.event} = {"*", "INSERT"}
    BY <2>1
  <2> QED
    BY <2>1, <2>2, <2>3 DEF Subs!Doubles
<1> QED
  BY <1>1, <1>2, <1>3

\* A call that subscribes.
LEMMA BookAsks ==
  ASSUME NEW q \in Seq(Asking), NEW held \in SUBSET Subs!Wanted, NEW wants, NEW w \in Subs!Wanted,
         NEW marks, NEW marks2, marks \subseteq marks2,
         BookOf(held, q, wants, marks), WantsOf(wants \cup {w}, marks2),
         NEW r, (r = q /\ w \in wants) \/ r = Append(q, Subs!Enter(w)), wants \subseteq Subs!Wanted
  PROVE  BookOf(held, r, wants \cup {w}, marks2)
<1>1. CASE r = q /\ w \in wants
  <2>1. wants \cup {w} = wants
    BY <1>1
  <2> QED
    BY <1>1, <2>1 DEF BookOf
<1>2. CASE r = Append(q, Subs!Enter(w))
  <2> DEFINE n == Len(q)
             x == Subs!Enter(w)
  <2>1. n \in Nat /\ Len(r) = n + 1 /\ r[n + 1] = x /\ \A i \in 1..n : r[i] = q[i]
    BY <1>2
  <2>2. x \in Asking /\ \A v \in Subs!Wanted : (x = Subs!Enter(v) <=> v = w) /\ x \notin AwayFrom(v)
    BY Askings
  <2> HIDE DEF x, n
  <2>3. \A v \in Subs!Wanted :
          /\ \A i \in 1..(n + 1) : OpenAt(held, r, v, i) <=> OpenAt(held, q, v, i)
          /\ OpenAt(held, r, v, Len(r) + 1) <=> (v = w \/ OpenAt(held, q, v, n + 1))
    <3> SUFFICES ASSUME NEW v \in Subs!Wanted
                 PROVE  /\ \A i \in 1..(n + 1) : OpenAt(held, r, v, i) <=> OpenAt(held, q, v, i)
                        /\ OpenAt(held, r, v, Len(r) + 1) <=> (v = w \/ OpenAt(held, q, v, n + 1))
      OBVIOUS
    <3>1. r = Append(q, x)
      BY <1>2 DEF x
    <3> QED
      BY <2>2, <3>1, OpenAppended DEF n
  <2>4. AllAsked(held, q, wants) => AllAsked(held, r, wants \cup {w})
    BY <2>3 DEF AllAsked, n
  <2>5. OnlyAsked(held, q, wants) => OnlyAsked(held, r, wants \cup {w})
    BY <2>3 DEF OnlyAsked, n
  <2>6. ASSUME NEW P \in {Clashing, Doubling}, Separate(P, held, q), OnlyAsked(held, q, wants),
               Consistent(P, wants \cup {w})
        PROVE  Separate(P, held, r)
    <3>1. ASSUME NEW v \in Subs!Wanted, NEW z \in Subs!Wanted, <<v, z>> \in P,
                 NEW i \in 1..(n + 1), r[i] = Subs!Enter(v), OpenAt(held, r, z, i)
          PROVE  FALSE
      <4>1. OpenAt(held, q, z, i)
        BY <2>3, <3>1
      <4>2. CASE i \in 1..n
        BY <2>1, <2>6, <3>1, <4>1, <4>2 DEF Separate, n
      <4>3. CASE i = n + 1
        <5>1. v = w
          BY <2>1, <2>2, <3>1, <4>3
        <5>2. z.event # "broadcast"
          BY <3>1, PairsOf
        <5>3. z \in wants
          BY <2>6, <4>1, <4>3, <5>2 DEF OnlyAsked, n
        <5> QED
          BY <2>6, <3>1, <5>1, <5>3 DEF Consistent
      <4> QED
        BY <2>1, <4>2, <4>3
    <3> QED
      BY <2>1, <2>6, <3>1 DEF Separate
  <2> QED
    BY <2>4, <2>5, <2>6 DEF BookOf, WantsOf
<1> QED
  BY <1>1, <1>2

\* A call that unsubscribes the last callback for something.
LEMMA BookLeaves ==
  ASSUME NEW q \in Seq(Asking), NEW held \in SUBSET Subs!Wanted, NEW wants, NEW w \in wants, NEW marks,
         BookOf(held, q, wants, marks), WantsOf(wants, marks), wants \subseteq Subs!Wanted
  PROVE  BookOf(held, Append(q, Subs!Leave(w)), wants \ {w}, marks)
<1> DEFINE n == Len(q)
           x == Subs!Leave(w)
           r == Append(q, x)
<1>1. n \in Nat /\ Len(r) = n + 1 /\ r[n + 1] = x /\ \A i \in 1..n : r[i] = q[i]
  OBVIOUS
<1>2. x \in Asking /\ \A v \in Subs!Wanted :
        /\ x # Subs!Enter(v)
        /\ x \in AwayFrom(v) <=> Subs!Room(w) = Subs!Room(v)
  BY Askings
<1>3. r = Append(q, x)
  OBVIOUS
<1> HIDE DEF x, r
<1>4. \A v \in Subs!Wanted :
        /\ \A i \in 1..(n + 1) : OpenAt(held, r, v, i) <=> OpenAt(held, q, v, i)
        /\ OpenAt(held, r, v, Len(r) + 1) <=> (Subs!Room(w) # Subs!Room(v) /\ OpenAt(held, q, v, n + 1))
  <2> SUFFICES ASSUME NEW v \in Subs!Wanted
               PROVE  /\ \A i \in 1..(n + 1) : OpenAt(held, r, v, i) <=> OpenAt(held, q, v, i)
                      /\ OpenAt(held, r, v, Len(r) + 1)
                           <=> (Subs!Room(w) # Subs!Room(v) /\ OpenAt(held, q, v, n + 1))
    OBVIOUS
  <2> QED
    BY <1>2, <1>3, OpenAppended
<1> HIDE DEF n
<1>5. ASSUME AllAsked(held, q, wants), Consistent(Clashing, wants) PROVE AllAsked(held, r, wants \ {w})
  <2> SUFFICES ASSUME NEW v \in wants, v # w PROVE OpenAt(held, r, v, Len(r) + 1)
    BY DEF AllAsked
  <2>1. ~Subs!Conflicts(w, v)
    BY <1>5, PairsOf DEF Consistent
  <2>2. Subs!Room(w) # Subs!Room(v)
    BY <2>1 DEF Subs!Conflicts
  <2> QED
    BY <1>4, <1>5, <2>2 DEF AllAsked, n
<1>6. ASSUME OnlyAsked(held, q, wants) PROVE OnlyAsked(held, r, wants \ {w})
  <2> SUFFICES ASSUME NEW v \in Subs!Wanted, v.event # "broadcast", OpenAt(held, r, v, Len(r) + 1)
               PROVE  v \in wants \ {w}
    BY DEF OnlyAsked
  <2> QED
    BY <1>4, <1>6 DEF OnlyAsked, n
<1>7. ASSUME NEW P, Separate(P, held, q) PROVE Separate(P, held, r)
  <2>1. ASSUME NEW v \in Subs!Wanted, NEW z \in Subs!Wanted, <<v, z>> \in P,
               NEW i \in 1..(n + 1), r[i] = Subs!Enter(v), OpenAt(held, r, z, i)
        PROVE  FALSE
    <3>1. OpenAt(held, q, z, i) /\ i # n + 1
      BY <1>1, <1>2, <1>4, <2>1
    <3>2. i \in 1..n
      BY <1>1, <3>1
    <3> QED
      BY <1>1, <1>7, <2>1, <3>1, <3>2 DEF Separate, n
  <2> QED
    BY <1>1, <1>7, <2>1 DEF Separate
<1> QED
  BY <1>5, <1>6, <1>7 DEF BookOf, WantsOf, r, x

\* A request that the server carries out, or sets out to verify.
LEMMA BookTaken ==
  ASSUME NEW q \in Seq(Asking), q # <<>>, NEW held \in SUBSET Subs!Wanted, NEW then \in SUBSET Subs!Wanted,
         NEW wants \in SUBSET Subs!Wanted, NEW marks, BookOf(held, q, wants, marks),
         \A w \in Subs!Wanted : w \in then <=> Head(q) = Subs!Enter(w) \/ (Head(q) \notin AwayFrom(w) /\ w \in held)
  PROVE  BookOf(then, Tail(q), wants, marks)
<1> DEFINE n == Len(q)
           p == Tail(q)
<1>1. n \in Nat /\ n >= 1 /\ Len(p) = n - 1 /\ Head(q) = q[1] /\ \A i \in 1..(n - 1) : p[i] = q[i + 1]
  OBVIOUS
<1>2. \A w \in Subs!Wanted : \A i \in 1..n : OpenAt(then, p, w, i) <=> OpenAt(held, q, w, i + 1)
  <2> SUFFICES ASSUME NEW w \in Subs!Wanted, NEW i \in 1..n
               PROVE  OpenAt(then, p, w, i) <=> OpenAt(held, q, w, i + 1)
    OBVIOUS
  <2> QED
    BY OpenTaken
<1> HIDE DEF n, p
<1>3. n \in 1..n /\ Len(p) + 1 = n
  BY <1>1
<1>4. AllAsked(held, q, wants) => AllAsked(then, p, wants)
  BY <1>2, <1>3 DEF AllAsked, n
<1>5. OnlyAsked(held, q, wants) => OnlyAsked(then, p, wants)
  BY <1>2, <1>3 DEF OnlyAsked, n
<1>6. ASSUME NEW P \in {Clashing, Doubling}, Separate(P, held, q) PROVE Separate(P, then, p)
  <2>1. ASSUME NEW v \in then, NEW w \in then, <<v, w>> \in P PROVE FALSE
    <3>1. v # w /\ <<w, v>> \in P
      BY <2>1, PairsOf
    <3>2. \A x \in Subs!Wanted, y \in Subs!Wanted : x # y => ~(Head(q) = Subs!Enter(x) /\ Head(q) = Subs!Enter(y))
      BY Askings
    <3>3. ASSUME NEW x \in Subs!Wanted, NEW y \in held, <<x, y>> \in P, q[1] = Subs!Enter(x) PROVE FALSE
      <4>1. OpenAt(held, q, y, 1) /\ 1 \in 1..Len(q)
        BY <1>1 DEF OpenAt, n
      <4> QED
        BY <1>6, <3>3, <4>1 DEF Separate
    <3>4. (v \in held \/ q[1] = Subs!Enter(v)) /\ (w \in held \/ q[1] = Subs!Enter(w))
      BY <1>1
    <3>5. CASE v \in held /\ w \in held
      BY <1>6, <2>1, <3>5 DEF Separate
    <3> QED
      BY <1>1, <2>1, <3>1, <3>2, <3>3, <3>4, <3>5
  <2>2. ASSUME NEW v \in Subs!Wanted, NEW w \in Subs!Wanted, <<v, w>> \in P,
               NEW i \in 1..(n - 1), p[i] = Subs!Enter(v), OpenAt(then, p, w, i)
        PROVE  FALSE
    <3>1. i \in 1..n /\ i + 1 \in 1..n /\ q[i + 1] = Subs!Enter(v)
      BY <1>1, <2>2
    <3>2. OpenAt(held, q, w, i + 1)
      BY <1>2, <2>2, <3>1
    <3> QED
      BY <1>6, <2>2, <3>1, <3>2 DEF Separate, n
  <2> QED
    BY <1>1, <2>1, <2>2 DEF Separate
<1> QED
  BY <1>4, <1>5, <1>6 DEF BookOf, p

\* A verification that ends: with nothing lost, unless it is denied or takes over a room.
LEMMA BookVerified ==
  ASSUME NEW q, NEW held, NEW then, then \subseteq held, NEW wants, NEW marks, NEW marks2, marks \subseteq marks2,
         BookOf(held, q, wants, marks),
         {"overwritten", "crossed", "denied"} \cap marks2 = {} => held \subseteq then
  PROVE  BookOf(then, q, wants, marks2)
<1>1. ASSUME {"overwritten", "crossed", "denied"} \cap marks2 = {} PROVE AllAsked(then, q, wants)
  <2>1. then = held /\ {"overwritten", "crossed", "denied"} \cap marks = {}
    BY <1>1
  <2> QED
    BY <2>1 DEF BookOf
<1>2. \A w, i : OpenAt(then, q, w, i) => OpenAt(held, q, w, i)
  BY OpenMore
<1>3. OnlyAsked(held, q, wants) => OnlyAsked(then, q, wants)
  BY <1>2 DEF OnlyAsked
<1>4. \A P : Separate(P, held, q) => Separate(P, then, q)
  BY <1>2 DEF Separate
<1> QED
  BY <1>1, <1>3, <1>4 DEF BookOf

\* A new connection.
LEMMA BookAnew ==
  ASSUME NEW b \in Seq(Asking), \A i \in DOMAIN b : b[i].kind = "unsubscribe",
         NEW wants \in Seq(Subs!Wanted), NEW q, q = b \o [i \in DOMAIN wants |-> Subs!Enter(wants[i])],
         NEW marks, WantsOf({wants[i] : i \in DOMAIN wants}, marks)
  PROVE  BookOf({}, q, {wants[i] : i \in DOMAIN wants}, marks)
<1> DEFINE all == {wants[i] : i \in DOMAIN wants}
<1>1. q \in Seq(Asking)
  <2>1. CASE Subs!Wanted = {}
    <3>1. DOMAIN wants = {}
      BY <2>1
    <3>2. [i \in DOMAIN wants |-> Subs!Enter(wants[i])] = <<>>
      BY <3>1
    <3> QED
      BY <3>2
  <2>2. ASSUME NEW w \in Subs!Wanted PROVE q \in Seq(Asking)
    BY OpenAnew
  <2> QED
    BY <2>1, <2>2
<1>2. \A w \in Subs!Wanted :
         /\ \A i : OpenAt({}, q, w, i) /\ i \in 1..(Len(q) + 1) => w \in all
         /\ w \in all => OpenAt({}, q, w, Len(q) + 1)
         /\ \A i \in DOMAIN q : q[i] = Subs!Enter(w) => w \in all
  BY OpenAnew
<1>3. all \subseteq Subs!Wanted
  OBVIOUS
<1>4. Len(q) \in Nat /\ DOMAIN q = 1..Len(q) /\ Len(q) + 1 \in 1..(Len(q) + 1)
      /\ \A i \in 1..Len(q) : i \in 1..(Len(q) + 1)
  BY <1>1
<1> HIDE DEF all
<1>5. AllAsked({}, q, all)
  BY <1>2, <1>3 DEF AllAsked
<1>6. OnlyAsked({}, q, all)
  BY <1>2, <1>4 DEF OnlyAsked
<1>7. \A P : Consistent(P, all) => Separate(P, {}, q)
  BY <1>2, <1>4 DEF Consistent, Separate
<1>8. WantsOf(all, marks)
  BY DEF all
<1>9. BookOf({}, q, all, marks)
  BY <1>5, <1>6, <1>7, <1>8 DEF BookOf, WantsOf
<1> QED
  BY <1>9 DEF all

-----------------------------------------------------------------------------
(* Subscriptions: sockets and notes.                                        *)

LEMMA LinkedStays ==
  ASSUME Linked, UNCHANGED <<conn, up, buffer, alive>>
  PROVE  Linked'
  BY DEF Linked, Subs!Socket

LEMMA Linking ==
  ASSUME ListenShape, Linked, Unlinked, Subs!Next
  PROVE  ListenShape' /\ Linked' /\ Unlinked'
<1>0. \A s \in Subs!Sockets : s[1] \in Subscribers /\ s[2] \in Nat /\ conn[s[1]] \in Nat
  BY SocketNumbers, OfSubscriber
<1>1. ASSUME NEW c \in Subscribers, NEW w \in Subs!Wanted, Subs!Subscribe(c, w)
      PROVE  ListenShape' /\ Linked' /\ Unlinked'
  <2>1. /\ ListenShape' /\ UNCHANGED <<conn, up, buffer, alive, noted, verifying, events>>
        /\ \A t \in Subs!Sockets : t # Subs!Socket(c) => requests'[t] = requests[t]
    BY <1>1, Subscribes
  <2>2. \A t \in Subs!Sockets : t[2] > conn[t[1]] => t # Subs!Socket(c)
    BY <1>0, OfSubscriber
  <2>3. Linked'
    BY <2>1, LinkedStays
  <2>4. Unlinked'
    BY <2>1, <2>2 DEF Unlinked
  <2> QED
    BY <2>1, <2>3, <2>4
<1>2. ASSUME NEW c \in Subscribers, NEW d \in descriptors[c], Subs!Unsubscribe(c, d)
      PROVE  ListenShape' /\ Linked' /\ Unlinked'
  <2>1. /\ ListenShape' /\ UNCHANGED <<conn, up, alive, noted, verifying, events>>
        /\ \A t \in Subs!Sockets : t # Subs!Socket(c) => requests'[t] = requests[t]
        /\ \A e \in Subscribers : e # c => buffer'[e] = buffer[e]
        /\ d[2] \in Subs!Wanted
        /\ buffer'[c] = buffer[c] \/ (~up[c] /\ buffer'[c] = Append(buffer[c], Subs!Leave(d[2])))
    BY <1>2, Unsubscribes
  <2>2. \A t \in Subs!Sockets : t[2] > conn[t[1]] => t # Subs!Socket(c)
    BY <1>0, OfSubscriber
  <2>3. Unlinked'
    BY <2>1, <2>2 DEF Unlinked
  <2>4. \A i \in DOMAIN buffer'[c] : buffer'[c][i].kind = "unsubscribe"
    <3>1. CASE buffer'[c] = buffer[c]
      BY <3>1 DEF Linked
    <3>2. CASE buffer'[c] = Append(buffer[c], Subs!Leave(d[2]))
      <4> DEFINE b == buffer[c]
                 x == Subs!Leave(d[2])
      <4>1. b \in Seq(Asking) /\ \A i \in DOMAIN b : b[i].kind = "unsubscribe"
        BY DEF Linked, ListenShape, ListenTypes
      <4>2. x.kind = "unsubscribe"
        BY DEF Subs!Leave
      <4> HIDE DEF b, x
      <4>3. \A i \in DOMAIN Append(b, x) : Append(b, x)[i].kind = "unsubscribe"
        BY <4>1, <4>2
      <4> QED
        BY <3>2, <4>3 DEF b, x
    <3> QED
      BY <2>1, <3>1, <3>2
  <2>5. \A e \in Subscribers : Subs!Socket(e)' = Subs!Socket(e)
    BY <2>1 DEF Subs!Socket
  <2>6. Linked'
    BY <2>1, <2>4, <2>5 DEF Linked
  <2> QED
    BY <2>1, <2>3, <2>6
<1>3. ASSUME NEW c \in Subscribers, Subs!Connect(c)
      PROVE  ListenShape' /\ Linked' /\ Unlinked'
  <2> DEFINE s == <<c, conn[c] + 1>>
  <2>1. /\ ListenShape' /\ s = Subs!Socket(c)'
        /\ up'[c] /\ conn'[c] = conn[c] + 1 /\ alive' = alive \cup {s} /\ buffer'[c] = <<>>
        /\ \A t \in Subs!Sockets : t # s => requests'[t] = requests[t]
        /\ \A d \in Subscribers : d # c => up'[d] = up[d] /\ conn'[d] = conn[d] /\ buffer'[d] = buffer[d]
        /\ UNCHANGED <<noted, verifying, events>>
    BY <1>3, Links
  <2>2. s[1] = c /\ s[2] = conn[c] + 1
    OBVIOUS
  <2> HIDE DEF s
  <2>3. \A d \in Subscribers : d # c => Subs!Socket(d)' = Subs!Socket(d)
    BY <2>1 DEF Subs!Socket
  <2>4. Linked'
    <3> SUFFICES ASSUME NEW d \in Subscribers
                 PROVE  /\ up'[d] => Subs!Socket(d)' \in alive' /\ buffer'[d] = <<>>
                        /\ \A i \in DOMAIN buffer'[d] : buffer'[d][i].kind = "unsubscribe"
      BY DEF Linked
    <3>1. CASE d = c
      <4>1. DOMAIN <<>> = {}
        OBVIOUS
      <4> QED
        BY <2>1, <3>1, <4>1
    <3>2. CASE d # c
      BY <2>1, <2>3, <3>2 DEF Linked
    <3> QED
      BY <3>1, <3>2
  <2>5. ASSUME NEW t \in Subs!Sockets, t[2] > conn'[t[1]] PROVE t[2] > conn[t[1]] /\ t # s
    <3>1. CASE t[1] = c
      BY <1>0, <2>1, <2>2, <2>5, <3>1
    <3>2. CASE t[1] # c
      BY <1>0, <2>1, <2>2, <2>5, <3>2
    <3> QED
      BY <3>1, <3>2
  <2>6. Unlinked'
    BY <2>1, <2>5 DEF Unlinked
  <2> QED
    BY <2>1, <2>4, <2>6
<1>4. ASSUME NEW c \in Subscribers, Subs!Receive(c)
      PROVE  ListenShape' /\ Linked' /\ Unlinked'
  <2>1. /\ ListenShape' /\ UNCHANGED <<conn, up, buffer, alive, noted, requests, verifying>>
        /\ \A t \in Subs!Sockets : t # Subs!Socket(c) => events'[t] = events[t]
    BY <1>4, Hearing
  <2>2. \A t \in Subs!Sockets : t[2] > conn[t[1]] => t # Subs!Socket(c)
    BY <1>0, OfSubscriber
  <2>3. Linked'
    BY <2>1, LinkedStays
  <2>4. Unlinked'
    BY <2>1, <2>2 DEF Unlinked
  <2> QED
    BY <2>1, <2>3, <2>4
<1>5. ASSUME NEW c \in Subscribers, Subs!Break(c)
      PROVE  ListenShape' /\ Linked' /\ Unlinked'
  <2>1. /\ ListenShape' /\ ~up'[c] /\ \A d \in Subscribers : d # c => up'[d] = up[d]
        /\ \A t \in Subs!Sockets : t # Subs!Socket(c) => events'[t] = events[t] /\ requests'[t] = requests[t]
        /\ UNCHANGED <<conn, buffer, alive, noted, verifying>>
    BY <1>5, Breaks
  <2>2. \A t \in Subs!Sockets : t[2] > conn[t[1]] => t # Subs!Socket(c)
    BY <1>0, OfSubscriber
  <2>3. \A e \in Subscribers : Subs!Socket(e)' = Subs!Socket(e)
    BY <2>1 DEF Subs!Socket
  <2>4. Linked'
    BY <2>1, <2>3 DEF Linked
  <2>5. Unlinked'
    BY <2>1, <2>2 DEF Unlinked
  <2> QED
    BY <2>1, <2>4, <2>5
<1>6. ASSUME NEW s \in Subs!Sockets, Subs!Take(s)
      PROVE  ListenShape' /\ Linked' /\ Unlinked'
  <2>1. /\ ListenShape' /\ UNCHANGED <<conn, up, buffer, alive, events>> /\ requests[s] # <<>>
        /\ \A t \in Subs!Sockets : t # s =>
             requests'[t] = requests[t] /\ noted'[t] = noted[t] /\ verifying'[t] = verifying[t]
    BY <1>6, Takes
  <2>2. Linked'
    BY <2>1, LinkedStays
  <2>3. Unlinked'
    BY <2>1 DEF Unlinked
  <2> QED
    BY <2>1, <2>2, <2>3
<1>7. ASSUME NEW s \in Subs!Sockets, Subs!Disconnect(s)
      PROVE  ListenShape' /\ Linked' /\ Unlinked'
  <2>1. /\ ListenShape' /\ s \in alive /\ ~Subs!Stands(s) /\ alive' = alive \ {s}
        /\ \A t \in Subs!Sockets : t # s => noted'[t] = noted[t]
        /\ UNCHANGED <<conn, up, buffer, requests, verifying, events>>
    BY <1>7, Goes
  <2>2. \A e \in Subscribers : Subs!Socket(e)' = Subs!Socket(e)
    BY <2>1 DEF Subs!Socket
  <2>3. \A e \in Subscribers : up[e] => Subs!Socket(e) # s
    BY <2>1, OfSubscriber
  <2>4. Linked'
    BY <2>1, <2>2, <2>3 DEF Linked
  <2>5. Unlinked'
    BY <2>1 DEF Unlinked
  <2> QED
    BY <2>1, <2>4, <2>5
<1>8. ASSUME NEW s \in Subs!Sockets, NEW i \in DOMAIN verifying[s], Subs!Note(s, i) \/ Subs!Deny(s, i)
      PROVE  ListenShape' /\ Linked' /\ Unlinked'
  <2>1. /\ ListenShape' /\ UNCHANGED <<conn, up, buffer, alive, requests, events>>
        /\ \A t \in Subs!Sockets : t # s => noted'[t] = noted[t] /\ verifying'[t] = verifying[t]
    BY <1>8, Verified
  <2>2. verifying[s] # <<>>
    OBVIOUS
  <2>3. Linked'
    BY <2>1, LinkedStays
  <2>4. Unlinked'
    BY <2>1, <2>2 DEF Unlinked
  <2> QED
    BY <2>1, <2>3, <2>4
<1>9. ASSUME NEW n \in Nat, NEW change \in Subs!Change, NEW echo \in BOOLEAN, Subs!Emit(n, change, echo), ListenShape',
             UNCHANGED <<conn, up, buffer, alive, noted, requests, verifying>>
      PROVE  ListenShape' /\ Linked' /\ Unlinked'
  <2>1. \A t \in Subs!Sockets : t[2] > conn[t[1]] => ~Subs!Stands(t)
    BY <1>0 DEF Subs!Stands
  <2>2. \A t \in Subs!Sockets : t[2] > conn[t[1]] => events'[t] = events[t]
    BY <1>9, <2>1, SentOut
  <2>3. Linked'
    BY <1>9, LinkedStays
  <2>4. Unlinked'
    BY <1>9, <2>2 DEF Unlinked
  <2> QED
    BY <1>9, <2>3, <2>4
<1>10. ASSUME NEW change \in Subs!Change, Subs!Make(change)
       PROVE  ListenShape' /\ Linked' /\ Unlinked'
  <2>1. Len(made) + 1 \in Nat
    BY DEF ListenShape, EventTypes
  <2> QED
    BY <1>9, <1>10, <2>1, Makes
<1>11. ASSUME NEW n \in DOMAIN made, Subs!Echo(n)
       PROVE  ListenShape' /\ Linked' /\ Unlinked'
  BY <1>9, <1>11, Echoes
<1> QED
  BY <1>1, <1>2, <1>3, <1>4, <1>5, <1>6, <1>7, <1>8, <1>10, <1>11, ListenSides, Zenon DEF Callers, Servers, Makers

LEMMA Noting ==
  ASSUME ListenShape, Linked, Forgotten, OneNote, Subs!Next
  PROVE  Forgotten' /\ OneNote'
<1>1. ASSUME UNCHANGED noted, alive \subseteq alive', incidents \subseteq incidents' PROVE Forgotten' /\ OneNote'
  BY <1>1 DEF Forgotten, OneNote
<1>2. ASSUME NEW c \in Subscribers, NEW w \in Subs!Wanted, Subs!Subscribe(c, w) PROVE Forgotten' /\ OneNote'
  BY <1>1, <1>2, Subscribes
<1>3. ASSUME NEW c \in Subscribers, NEW d \in descriptors[c], Subs!Unsubscribe(c, d) PROVE Forgotten' /\ OneNote'
  BY <1>1, <1>3, Unsubscribes
<1>4. ASSUME NEW c \in Subscribers, Subs!Connect(c) PROVE Forgotten' /\ OneNote'
  BY <1>1, <1>4, Links
<1>5. ASSUME NEW c \in Subscribers, Subs!Receive(c) PROVE Forgotten' /\ OneNote'
  BY <1>1, <1>5, Hearing
<1>6. ASSUME NEW c \in Subscribers, Subs!Break(c) PROVE Forgotten' /\ OneNote'
  BY <1>1, <1>6, Breaks
<1>7. ASSUME NEW s \in Subs!Sockets, Subs!Take(s) PROVE Forgotten' /\ OneNote'
  <2>1. /\ UNCHANGED alive /\ incidents \subseteq incidents'
        /\ \A t \in Subs!Sockets : noted'[t] \subseteq noted[t]
    BY <1>7, Takes
  <2> QED
    BY <2>1 DEF Forgotten, OneNote
<1>8. ASSUME NEW s \in Subs!Sockets, Subs!Disconnect(s) PROVE Forgotten' /\ OneNote'
  <2>1. /\ alive' = alive \ {s} /\ noted'[s] = {} /\ incidents' = incidents
        /\ \A t \in Subs!Sockets : t # s => noted'[t] = noted[t]
    BY <1>8, Goes
  <2> QED
    BY <2>1 DEF Forgotten, OneNote
<1>9. ASSUME NEW s \in Subs!Sockets, NEW i \in DOMAIN verifying[s], Subs!Note(s, i) \/ Subs!Deny(s, i)
      PROVE  Forgotten' /\ OneNote'
  <2>1. /\ UNCHANGED alive /\ incidents \subseteq incidents'
        /\ \A t \in Subs!Sockets : t # s => noted'[t] = noted[t]
        /\ \/ noted'[s] = noted[s]
           \/ /\ noted'[s] = {v \in noted[s] : Subs!Room(v) # Subs!Room(verifying[s][i])} \cup {verifying[s][i]}
              /\ "late" \notin incidents' => s \in alive
    BY <1>9, Verified
  <2>2. CASE noted'[s] = noted[s]
    BY <2>1, <2>2 DEF Forgotten, OneNote
  <2>3. CASE /\ noted'[s] = {v \in noted[s] : Subs!Room(v) # Subs!Room(verifying[s][i])} \cup {verifying[s][i]}
             /\ "late" \notin incidents' => s \in alive
    <3>1. Forgotten'
      BY <2>1, <2>3 DEF Forgotten
    <3>2. OneNote'
      <4> SUFFICES ASSUME NEW t \in Subs!Sockets, NEW v \in noted'[t], NEW w \in noted'[t],
                          Subs!Room(v) = Subs!Room(w)
                   PROVE  v = w
        BY DEF OneNote
      <4>1. CASE t # s
        BY <2>1, <4>1 DEF OneNote
      <4>2. CASE t = s
        BY <2>3, <4>2 DEF OneNote
      <4> QED
        BY <4>1, <4>2
    <3> QED
      BY <3>1, <3>2
  <2> QED
    BY <2>1, <2>2, <2>3
<1>10. ASSUME NEW change \in Subs!Change, Subs!Make(change) PROVE Forgotten' /\ OneNote'
  BY <1>1, <1>10, Makes
<1>11. ASSUME NEW n \in DOMAIN made, Subs!Echo(n) PROVE Forgotten' /\ OneNote'
  BY <1>1, <1>11, Echoes
<1> QED
  BY <1>2, <1>3, <1>4, <1>5, <1>6, <1>7, <1>8, <1>9, <1>10, <1>11, ListenSides, Zenon DEF Callers, Servers, Makers

BookAt(c) ==
  /\ WantsOf(Subs!Wants(c), incidents)
  /\ up[c] => BookOf(Held(Subs!Socket(c)), requests[Subs!Socket(c)], Subs!Wants(c), incidents)
Books == \A c \in Subscribers : BookAt(c)

LEMMA WantsMarked ==
  ASSUME NEW wants, NEW marks, NEW marks2, marks \subseteq marks2, WantsOf(wants, marks)
  PROVE  WantsOf(wants, marks2)
  BY DEF WantsOf

LEMMA BookMarked ==
  ASSUME NEW held, NEW q, NEW wants, NEW marks, NEW marks2, marks \subseteq marks2, BookOf(held, q, wants, marks)
  PROVE  BookOf(held, q, wants, marks2)
<1>1. \A all : all \cap marks2 = {} => all \cap marks = {}
  OBVIOUS
<1> QED
  BY <1>1 DEF BookOf

LEMMA WhatIsWanted ==
  ASSUME ListenShape, NEW c \in Subscribers
  PROVE  /\ Subs!Wants(c) \subseteq Subs!Wanted
         /\ \A s \in Subs!Sockets : Held(s) \subseteq Subs!Wanted /\ requests[s] \in Seq(Asking)
<1>1. Subs!Wants(c) \subseteq Subs!Wanted
  BY DEF Subs!Wants, ListenShape, ListenTypes
<1>2. ASSUME NEW s \in Subs!Sockets PROVE Held(s) \subseteq Subs!Wanted /\ requests[s] \in Seq(Asking)
  <2>1. noted[s] \subseteq Subs!Wanted /\ verifying[s] \in Seq(Subs!Wanted) /\ requests[s] \in Seq(Asking)
    BY DEF ListenShape, ListenTypes
  <2>2. \A i \in DOMAIN verifying[s] : verifying[s][i] \in Subs!Wanted
    BY <2>1
  <2> QED
    BY <2>1, <2>2 DEF Held
<1> QED
  BY <1>1, <1>2

\* Who is not concerned by a step keeps the book.
LEMMA BookStays ==
  ASSUME NEW c \in Subscribers, BookAt(c), incidents \subseteq incidents',
         descriptors'[c] = descriptors[c], conn'[c] = conn[c],
         up'[c] => /\ up[c]
                   /\ \A s : s = Subs!Socket(c) =>
                        noted'[s] = noted[s] /\ verifying'[s] = verifying[s] /\ requests'[s] = requests[s]
  PROVE  BookAt(c)'
<1> SUFFICES ASSUME NEW s, s = Subs!Socket(c) PROVE BookAt(c)'
  OBVIOUS
<1>1. s = Subs!Socket(c)' /\ Subs!Wants(c)' = Subs!Wants(c)
  BY DEF Subs!Socket, Subs!Wants
<1>2. WantsOf(Subs!Wants(c), incidents')
  BY WantsMarked DEF BookAt
<1>3. ASSUME up'[c] PROVE BookOf(Held(s)', requests'[s], Subs!Wants(c), incidents')
  <2>1. BookOf(Held(s), requests[s], Subs!Wants(c), incidents)
    BY <1>3 DEF BookAt
  <2>2. Held(s)' = Held(s) /\ requests'[s] = requests[s]
    BY <1>3 DEF Held
  <2>3. BookOf(Held(s), requests[s], Subs!Wants(c), incidents')
    BY <2>1, BookMarked
  <2> QED
    BY <2>2, <2>3
<1> QED
  BY <1>1, <1>2, <1>3 DEF BookAt

LEMMA BookSubscribes ==
  ASSUME ListenShape, Linked, Books, NEW c \in Subscribers, NEW w \in Subs!Wanted, Subs!Subscribe(c, w)
  PROVE  Books'
<1> SUFFICES ASSUME NEW s, s = Subs!Socket(c), NEW wants, wants = Subs!Wants(c) PROVE Books'
  OBVIOUS
<1>1. /\ UNCHANGED <<conn, up, noted, verifying>>
      /\ descriptors'[c] = descriptors[c] \cup {<<ops + 1, w>>}
      /\ \A d \in Subscribers : d # c => descriptors'[d] = descriptors[d]
      /\ \A t \in Subs!Sockets :
           \/ requests'[t] = requests[t]
           \/ t = s /\ up[c] /\ requests'[t] = Append(requests[t], Subs!Enter(w))
      /\ up[c] /\ w \notin wants => requests'[s] = Append(requests[s], Subs!Enter(w))
      /\ incidents \subseteq incidents'
      /\ "overwritten" \notin incidents' => \A v \in wants : ~Subs!Conflicts(v, w)
      /\ "doubled" \notin incidents' => \A v \in wants : ~Subs!Doubles(v, w)
  BY Subscribes
<1>2. s = Subs!Socket(c)' /\ Subs!Wants(c)' = wants \cup {w}
  <2>1. s = Subs!Socket(c)'
    BY <1>1 DEF Subs!Socket
  <2>2. Subs!Wants(c)' = wants \cup {w}
    <3>1. <<ops + 1, w>>[2] = w /\ <<ops + 1, w>> \in descriptors'[c]
      BY <1>1
    <3>2. \A d \in descriptors'[c] : d \in descriptors[c] \/ d[2] = w
      BY <1>1
    <3>3. \A d \in descriptors[c] : d \in descriptors'[c]
      BY <1>1
    <3>4. \A z : z \in wants <=> \E d \in descriptors[c] : d[2] = z
      BY DEF Subs!Wants
    <3>5. \A z : z \in Subs!Wants(c)' <=> \E d \in descriptors'[c] : d[2] = z
      BY DEF Subs!Wants
    <3> QED
      BY <3>1, <3>2, <3>3, <3>4, <3>5
  <2> QED
    BY <2>1, <2>2
<1>3. wants \subseteq Subs!Wanted
  BY WhatIsWanted
<1>4. WantsOf(wants, incidents) /\ (up[c] => BookOf(Held(s), requests[s], wants, incidents))
  BY DEF Books, BookAt
<1>5. up[c] => s \in Subs!Sockets /\ Held(s) \subseteq Subs!Wanted /\ requests[s] \in Seq(Asking)
  BY LinkedSocket, WhatIsWanted
<1>6. \A d \in Subscribers : d # c /\ up[d] => Subs!Socket(d) \in Subs!Sockets /\ Subs!Socket(d) # s
  BY LinkedSocket, OfSubscriber
<1>7. ASSUME NEW d \in Subscribers, d # c PROVE BookAt(d)'
  <2>1. BookAt(d) /\ descriptors'[d] = descriptors[d] /\ conn'[d] = conn[d] /\ incidents \subseteq incidents'
    BY <1>1, <1>7 DEF Books
  <2>2. up'[d] => /\ up[d]
                  /\ \A t : t = Subs!Socket(d) =>
                       noted'[t] = noted[t] /\ verifying'[t] = verifying[t] /\ requests'[t] = requests[t]
    BY <1>1, <1>6, <1>7
  <2> QED
    BY <2>1, <2>2, BookStays
<1>8. WantsOf(wants \cup {w}, incidents')
  <2>1. ASSUME NEW P \in {Clashing, Doubling}, Consistent(P, wants), \A v \in wants : <<v, w>> \notin P
        PROVE  Consistent(P, wants \cup {w})
    <3> SUFFICES ASSUME NEW v \in wants \cup {w}, NEW z \in wants \cup {w}, <<v, z>> \in P PROVE FALSE
      BY DEF Consistent
    <3>1. v \in Subs!Wanted /\ z \in Subs!Wanted
      BY <1>3
    <3>2. v # z /\ <<z, v>> \in P
      BY <3>1, PairsOf
    <3> QED
      BY <2>1, <3>2 DEF Consistent
  <2>2. /\ "overwritten" \notin incidents' => \A v \in wants : <<v, w>> \notin Clashing
        /\ "doubled" \notin incidents' => \A v \in wants : <<v, w>> \notin Doubling
    BY <1>1, <1>3, PairsOf
  <2> QED
    BY <1>1, <1>4, <2>1, <2>2 DEF WantsOf
<1>9. ASSUME up[c] PROVE BookOf(Held(s)', requests'[s], wants \cup {w}, incidents')
  <2>1. Held(s)' = Held(s)
    BY <1>1 DEF Held
  <2>2. (requests'[s] = requests[s] /\ w \in wants) \/ requests'[s] = Append(requests[s], Subs!Enter(w))
    BY <1>1, <1>5, <1>9
  <2>3. BookOf(Held(s), requests'[s], wants \cup {w}, incidents')
    BY <1>1, <1>3, <1>4, <1>5, <1>8, <1>9, <2>2, BookAsks
  <2> QED
    BY <2>1, <2>3
<1>10. BookAt(c)'
  BY <1>1, <1>2, <1>8, <1>9 DEF BookAt
<1> QED
  BY <1>7, <1>10 DEF Books

LEMMA BookUnsubscribes ==
  ASSUME ListenShape, Linked, Books, NEW c \in Subscribers, NEW d \in descriptors[c], Subs!Unsubscribe(c, d)
  PROVE  Books'
<1> SUFFICES ASSUME NEW s, s = Subs!Socket(c), NEW wants, wants = Subs!Wants(c) PROVE Books'
  OBVIOUS
<1>1. /\ UNCHANGED <<conn, up, noted, verifying, incidents>>
      /\ d[2] \in Subs!Wanted
      /\ descriptors'[c] = descriptors[c] \ {d}
      /\ \A e \in Subscribers : e # c => descriptors'[e] = descriptors[e]
      /\ \A t \in Subs!Sockets : t # s => requests'[t] = requests[t]
      /\ \/ UNCHANGED requests /\ ~Subs!IsLast(c, d)
         \/ Subs!IsLast(c, d) /\ up[c] /\ requests'[s] = Append(requests[s], Subs!Leave(d[2]))
         \/ Subs!IsLast(c, d) /\ ~up[c] /\ UNCHANGED requests
  BY Unsubscribes
<1>2. s = Subs!Socket(c)'
  BY <1>1 DEF Subs!Socket
<1>3. Subs!Wants(c)' \subseteq wants /\ d[2] \in wants /\ \A w \in wants : w # d[2] => w \in Subs!Wants(c)'
  BY <1>1 DEF Subs!Wants
<1>4. Subs!IsLast(c, d) => Subs!Wants(c)' = wants \ {d[2]}
  <2> SUFFICES ASSUME Subs!IsLast(c, d) PROVE d[2] \notin Subs!Wants(c)'
    BY <1>3
  <2> QED
    BY <1>1 DEF Subs!Wants, Subs!IsLast
<1>5. ~Subs!IsLast(c, d) => d[2].event = "broadcast" \/ Subs!Wants(c)' = wants
  <2> SUFFICES ASSUME ~Subs!IsLast(c, d), d[2].event # "broadcast" PROVE d[2] \in Subs!Wants(c)'
    BY <1>3
  <2>1. PICK e \in descriptors[c] : e[2] = d[2] /\ e # d
    BY DEF Subs!IsLast
  <2> QED
    BY <1>1, <2>1 DEF Subs!Wants
<1>6. wants \subseteq Subs!Wanted
  BY WhatIsWanted
<1>7. WantsOf(wants, incidents) /\ (up[c] => BookOf(Held(s), requests[s], wants, incidents))
  BY DEF Books, BookAt
<1>8. up[c] => s \in Subs!Sockets /\ Held(s) \subseteq Subs!Wanted /\ requests[s] \in Seq(Asking)
  BY LinkedSocket, WhatIsWanted
<1>9. \A e \in Subscribers : e # c /\ up[e] => Subs!Socket(e) \in Subs!Sockets /\ Subs!Socket(e) # s
  BY LinkedSocket, OfSubscriber
<1>10. ASSUME NEW e \in Subscribers, e # c PROVE BookAt(e)'
  <2>1. BookAt(e) /\ descriptors'[e] = descriptors[e] /\ conn'[e] = conn[e] /\ incidents \subseteq incidents'
    BY <1>1, <1>10 DEF Books
  <2>2. up'[e] => /\ up[e]
                  /\ \A t : t = Subs!Socket(e) =>
                       noted'[t] = noted[t] /\ verifying'[t] = verifying[t] /\ requests'[t] = requests[t]
    BY <1>1, <1>9, <1>10
  <2> QED
    BY <2>1, <2>2, BookStays
<1> SUFFICES ASSUME NEW then, then = Subs!Wants(c)' PROVE BookAt(c)'
  BY <1>10 DEF Books
<1>11. WantsOf(then, incidents')
  BY <1>1, <1>3, <1>7 DEF WantsOf, Consistent
<1>12. ASSUME up[c] PROVE BookOf(Held(s)', requests'[s], then, incidents')
  <2>1. Held(s)' = Held(s)
    BY <1>1 DEF Held
  <2>2. CASE Subs!IsLast(c, d)
    <3>1. requests'[s] = Append(requests[s], Subs!Leave(d[2])) /\ then = wants \ {d[2]}
      BY <1>1, <1>4, <1>12, <2>2
    <3>2. BookOf(Held(s), Append(requests[s], Subs!Leave(d[2])), wants \ {d[2]}, incidents)
      BY <1>3, <1>6, <1>7, <1>8, <1>12, BookLeaves
    <3> QED
      BY <1>1, <2>1, <3>1, <3>2
  <2>3. CASE ~Subs!IsLast(c, d)
    <3>1. requests'[s] = requests[s]
      BY <1>1, <2>3
    <3>2. \A w \in wants : w.event # "broadcast" => w \in then
      BY <1>3, <1>5, <2>3
    <3>3. BookOf(Held(s), requests[s], wants, incidents)
      BY <1>7, <1>12
    <3>4. AllAsked(Held(s), requests[s], wants) => AllAsked(Held(s), requests[s], then)
      BY <1>3 DEF AllAsked
    <3>5. OnlyAsked(Held(s), requests[s], wants) => OnlyAsked(Held(s), requests[s], then)
      BY <3>2 DEF OnlyAsked
    <3>6. BookOf(Held(s), requests[s], then, incidents)
      BY <3>3, <3>4, <3>5 DEF BookOf
    <3> QED
      BY <1>1, <2>1, <3>1, <3>6
  <2> QED
    BY <2>2, <2>3
<1> QED
  BY <1>1, <1>2, <1>11, <1>12 DEF BookAt

LEMMA BookConnects ==
  ASSUME ListenShape, Linked, Unlinked, Books, NEW c \in Subscribers, Subs!Connect(c)
  PROVE  Books'
<1> DEFINE k == <<c, conn[c] + 1>>
<1>0. /\ k \in Subs!Sockets /\ k = Subs!Socket(c)' /\ k[2] > conn[k[1]]
      /\ \E wants \in Seq(Subs!Wanted) :
           /\ Subs!Wants(c) = {wants[i] : i \in DOMAIN wants}
           /\ requests'[k] = buffer[c] \o [i \in DOMAIN wants |-> Subs!Enter(wants[i])]
      /\ \A t \in Subs!Sockets : t # k => requests'[t] = requests[t]
      /\ \A d \in Subscribers : d # c => up'[d] = up[d] /\ conn'[d] = conn[d]
      /\ UNCHANGED <<descriptors, noted, verifying, incidents>>
  BY Links
<1> HIDE DEF k
<1> SUFFICES ASSUME NEW s, s = k PROVE Books'
  OBVIOUS
<1>1. /\ s \in Subs!Sockets /\ s = Subs!Socket(c)' /\ s[2] > conn[s[1]]
      /\ \E wants \in Seq(Subs!Wanted) :
           /\ Subs!Wants(c) = {wants[i] : i \in DOMAIN wants}
           /\ requests'[s] = buffer[c] \o [i \in DOMAIN wants |-> Subs!Enter(wants[i])]
      /\ \A t \in Subs!Sockets : t # s => requests'[t] = requests[t]
      /\ \A d \in Subscribers : d # c => up'[d] = up[d] /\ conn'[d] = conn[d]
      /\ UNCHANGED <<descriptors, noted, verifying, incidents>>
  BY <1>0
<1>2. noted[s] = {} /\ verifying[s] = <<>> /\ s \notin alive
  BY <1>1 DEF Unlinked
<1>3. \A d \in Subscribers : up[d] => Subs!Socket(d) \in Subs!Sockets /\ Subs!Socket(d) # s
  BY <1>2, LinkedSocket
<1>4. ASSUME NEW d \in Subscribers, d # c PROVE BookAt(d)'
  <2>1. BookAt(d) /\ descriptors'[d] = descriptors[d] /\ conn'[d] = conn[d] /\ incidents \subseteq incidents'
    BY <1>1, <1>4 DEF Books
  <2>2. up'[d] => /\ up[d]
                  /\ \A t : t = Subs!Socket(d) =>
                       noted'[t] = noted[t] /\ verifying'[t] = verifying[t] /\ requests'[t] = requests[t]
    BY <1>1, <1>3, <1>4
  <2> QED
    BY <2>1, <2>2, BookStays
<1>5. Subs!Wants(c)' = Subs!Wants(c) /\ WantsOf(Subs!Wants(c), incidents)
  BY <1>1 DEF Subs!Wants, Books, BookAt
<1>6. PICK wants \in Seq(Subs!Wanted) :
        /\ Subs!Wants(c) = {wants[i] : i \in DOMAIN wants}
        /\ requests'[s] = buffer[c] \o [i \in DOMAIN wants |-> Subs!Enter(wants[i])]
  BY <1>1
<1>7. buffer[c] \in Seq(Asking) /\ \A i \in DOMAIN buffer[c] : buffer[c][i].kind = "unsubscribe"
  BY DEF Linked, ListenShape, ListenTypes
<1>8. BookOf({}, requests'[s], Subs!Wants(c), incidents)
  BY <1>5, <1>6, <1>7, BookAnew
<1>9. Held(s)' = {}
  <2>1. DOMAIN <<>> = {}
    OBVIOUS
  <2> QED
    BY <1>1, <1>2, <2>1 DEF Held
<1>10. BookAt(c)'
  BY <1>1, <1>5, <1>8, <1>9 DEF BookAt
<1> QED
  BY <1>4, <1>10 DEF Books

\* A step of the server concerns one socket, which may be the one its client has now.
LEMMA BookServed ==
  ASSUME ListenShape, Linked, Books, NEW s \in Subs!Sockets,
         UNCHANGED <<conn, up, descriptors>>, incidents \subseteq incidents',
         \A t \in Subs!Sockets : t # s =>
           noted'[t] = noted[t] /\ verifying'[t] = verifying[t] /\ requests'[t] = requests[t],
         \A wants \in SUBSET Subs!Wanted : BookOf(Held(s), requests[s], wants, incidents)
                                             => BookOf(Held(s)', requests'[s], wants, incidents')
  PROVE  Books'
<1> SUFFICES ASSUME NEW c \in Subscribers PROVE BookAt(c)'
  BY DEF Books
<1>1. BookAt(c)
  BY DEF Books
<1>2. CASE up[c] /\ s = Subs!Socket(c)
  <2>1. s = Subs!Socket(c)' /\ Subs!Wants(c)' = Subs!Wants(c)
    BY <1>2 DEF Subs!Socket, Subs!Wants
  <2>2. WantsOf(Subs!Wants(c), incidents')
    BY <1>1, WantsMarked DEF BookAt
  <2>3. BookOf(Held(s), requests[s], Subs!Wants(c), incidents)
    BY <1>1, <1>2 DEF BookAt
  <2>4. Subs!Wants(c) \in SUBSET Subs!Wanted
    BY WhatIsWanted
  <2>5. BookOf(Held(s)', requests'[s], Subs!Wants(c), incidents')
    BY <2>3, <2>4
  <2> QED
    BY <2>1, <2>2, <2>5 DEF BookAt
<1>3. CASE ~(up[c] /\ s = Subs!Socket(c))
  <2>1. up'[c] => /\ up[c]
                  /\ \A t : t = Subs!Socket(c) =>
                       noted'[t] = noted[t] /\ verifying'[t] = verifying[t] /\ requests'[t] = requests[t]
    BY <1>3, LinkedSocket
  <2> QED
    BY <1>1, <2>1, BookStays
<1> QED
  BY <1>2, <1>3

LEMMA BookTakes ==
  ASSUME ListenShape, Linked, Books, NEW s \in Subs!Sockets, Subs!Take(s)
  PROVE  Books'
<1>1. /\ requests[s] # <<>> /\ requests'[s] = Tail(requests[s]) /\ incidents \subseteq incidents'
      /\ UNCHANGED <<conn, up, descriptors>>
      /\ \A t \in Subs!Sockets : t # s =>
           noted'[t] = noted[t] /\ verifying'[t] = verifying[t] /\ requests'[t] = requests[t]
      /\ \E v \in Subs!Wanted :
           \/ /\ Head(requests[s]) = Subs!Enter(v)
              /\ verifying'[s] = Append(verifying[s], v) /\ noted'[s] = noted[s]
           \/ /\ Head(requests[s]) = Subs!Leave(v)
              /\ noted'[s] = {x \in noted[s] : Subs!Room(x) # Subs!Room(v)} /\ verifying'[s] = verifying[s]
              /\ "crossed" \notin incidents' =>
                   \A i \in DOMAIN verifying[s] : Subs!Room(verifying[s][i]) # Subs!Room(v)
  BY Takes
<1>2. PICK v \in Subs!Wanted :
           \/ /\ Head(requests[s]) = Subs!Enter(v)
              /\ verifying'[s] = Append(verifying[s], v) /\ noted'[s] = noted[s]
           \/ /\ Head(requests[s]) = Subs!Leave(v)
              /\ noted'[s] = {x \in noted[s] : Subs!Room(x) # Subs!Room(v)} /\ verifying'[s] = verifying[s]
              /\ "crossed" \notin incidents' =>
                   \A i \in DOMAIN verifying[s] : Subs!Room(verifying[s][i]) # Subs!Room(v)
  BY <1>1
<1>3. Held(s) \subseteq Subs!Wanted /\ requests[s] \in Seq(Asking) /\ verifying[s] \in Seq(Subs!Wanted)
  BY WhatIsWanted, SocketNumbers DEF ListenShape, ListenTypes
<1> SUFFICES ASSUME NEW then, then = Held(s)',
                    NEW wants \in SUBSET Subs!Wanted, BookOf(Held(s), requests[s], wants, incidents)
             PROVE  BookOf(then, requests'[s], wants, incidents')
  BY <1>1, BookServed
<1>4. then \in SUBSET Subs!Wanted
        /\ ("crossed" \notin incidents' => \A w \in Subs!Wanted :
              w \in then <=> Head(requests[s]) = Subs!Enter(w) \/ (Head(requests[s]) \notin AwayFrom(w) /\ w \in Held(s)))
  <2>1. CASE /\ Head(requests[s]) = Subs!Enter(v)
             /\ verifying'[s] = Append(verifying[s], v) /\ noted'[s] = noted[s]
    <3>1. then = Held(s) \cup {v}
      <4> DEFINE q == verifying[s]
                 p == Append(q, v)
      <4>1. \A x : (\E i \in DOMAIN p : p[i] = x) <=> (x = v \/ \E i \in DOMAIN q : q[i] = x)
        <5>1. Len(q) \in Nat /\ DOMAIN q = 1..Len(q) /\ DOMAIN p = 1..(Len(q) + 1)
              /\ p[Len(q) + 1] = v /\ \A i \in 1..Len(q) : p[i] = q[i]
          BY <1>3
        <5> HIDE DEF q, p
        <5> QED
          BY <5>1
      <4>2. \A x : x \in then <=> (x \in noted[s] \/ \E i \in DOMAIN p : p[i] = x)
        BY <2>1 DEF Held
      <4>3. \A x : x \in Held(s) <=> (x \in noted[s] \/ \E i \in DOMAIN q : q[i] = x)
        BY DEF Held
      <4> HIDE DEF q, p
      <4> QED
        BY <4>1, <4>2, <4>3
    <3>2. \A w \in Subs!Wanted : (Subs!Enter(v) = Subs!Enter(w) <=> v = w) /\ Subs!Enter(v) \notin AwayFrom(w)
      BY Askings
    <3> QED
      BY <1>3, <2>1, <3>1, <3>2
  <2>2. CASE /\ Head(requests[s]) = Subs!Leave(v)
             /\ noted'[s] = {x \in noted[s] : Subs!Room(x) # Subs!Room(v)} /\ verifying'[s] = verifying[s]
             /\ "crossed" \notin incidents' =>
                  \A i \in DOMAIN verifying[s] : Subs!Room(verifying[s][i]) # Subs!Room(v)
    <3>1. \A w \in Subs!Wanted :
            /\ Subs!Leave(v) # Subs!Enter(w)
            /\ Subs!Leave(v) \in AwayFrom(w) <=> Subs!Room(v) = Subs!Room(w)
      BY Askings
    <3>2. \A x : x \in then <=> ((x \in noted[s] /\ Subs!Room(x) # Subs!Room(v))
                                   \/ \E i \in DOMAIN verifying[s] : verifying[s][i] = x)
      BY <2>2 DEF Held
    <3>3. \A x : x \in Held(s) <=> (x \in noted[s] \/ \E i \in DOMAIN verifying[s] : verifying[s][i] = x)
      BY DEF Held
    <3>4. then \subseteq Held(s)
      BY <3>2, <3>3
    <3>5. ASSUME "crossed" \notin incidents'
          PROVE  \A x : x \in then <=> (x \in Held(s) /\ Subs!Room(x) # Subs!Room(v))
      BY <2>2, <3>2, <3>3, <3>5
    <3> QED
      BY <1>3, <2>2, <3>1, <3>4, <3>5
  <2> QED
    BY <1>2, <2>1, <2>2
<1>5. CASE "crossed" \in incidents'
  BY <1>5 DEF BookOf
<1>6. CASE "crossed" \notin incidents'
  <2>1. BookOf(Held(s), requests[s], wants, incidents')
    BY <1>1, BookMarked
  <2> QED
    BY <1>1, <1>3, <1>4, <1>6, <2>1, BookTaken
<1> QED
  BY <1>5, <1>6

LEMMA BookVerifies ==
  ASSUME ListenShape, Linked, Books, NEW s \in Subs!Sockets, NEW i \in DOMAIN verifying[s],
         Subs!Note(s, i) \/ Subs!Deny(s, i)
  PROVE  Books'
<1>1. /\ \A t \in Subs!Sockets : t # s => noted'[t] = noted[t] /\ verifying'[t] = verifying[t]
      /\ UNCHANGED <<conn, up, descriptors, requests>>
      /\ incidents \subseteq incidents' /\ Held(s)' \subseteq Held(s)
      /\ verifying[s][i] \in Subs!Wanted
      /\ \/ "denied" \in incidents'
         \/ \A v \in Held(s) : v \in Held(s)' \/ Subs!Conflicts(v, verifying[s][i])
  BY Verified
<1>2. Held(s) \subseteq Subs!Wanted /\ verifying[s][i] \in Held(s)
  BY WhatIsWanted, SocketNumbers DEF Held
<1> SUFFICES ASSUME NEW then, then = Held(s)',
                    NEW wants \in SUBSET Subs!Wanted, BookOf(Held(s), requests[s], wants, incidents)
             PROVE  BookOf(then, requests[s], wants, incidents')
  BY <1>1, BookServed
<1>3. ASSUME {"overwritten", "crossed", "denied"} \cap incidents' = {} PROVE Held(s) \subseteq then
  <2>1. {"overwritten", "crossed"} \cap incidents = {} /\ "denied" \notin incidents'
    BY <1>1, <1>3
  <2>2. \A v, w \in Held(s) : <<v, w>> \notin Clashing
    BY <2>1 DEF BookOf, Separate
  <2>3. \A v \in Held(s) : ~Subs!Conflicts(v, verifying[s][i])
    BY <1>2, <2>2, PairsOf
  <2> QED
    BY <1>1, <2>1, <2>3
<1> QED
  BY <1>1, <1>3, BookVerified

LEMMA Booking ==
  ASSUME ListenShape, Linked, Unlinked, Books, Subs!Next
  PROVE  Books'
<1>1. ASSUME UNCHANGED <<conn, up, descriptors, noted, verifying, requests, incidents>> PROVE Books'
  <2> SUFFICES ASSUME NEW c \in Subscribers PROVE BookAt(c)'
    BY DEF Books
  <2> QED
    BY <1>1, BookStays DEF Books
<1>2. ASSUME NEW c \in Subscribers, Subs!Receive(c) PROVE Books'
  BY <1>1, <1>2, Hearing
<1>3. ASSUME NEW c \in Subscribers, Subs!Break(c) PROVE Books'
  <2>1. /\ up[c] /\ ~up'[c] /\ \A d \in Subscribers : d # c => up'[d] = up[d]
        /\ \A t \in Subs!Sockets : t # Subs!Socket(c) => requests'[t] = requests[t]
        /\ UNCHANGED <<conn, descriptors, noted, verifying, incidents>>
    BY <1>3, Breaks
  <2> SUFFICES ASSUME NEW d \in Subscribers PROVE BookAt(d)'
    BY DEF Books
  <2>2. up'[d] => /\ up[d]
                  /\ \A t : t = Subs!Socket(d) =>
                       noted'[t] = noted[t] /\ verifying'[t] = verifying[t] /\ requests'[t] = requests[t]
    BY <2>1, LinkedSocket, OfSubscriber
  <2> QED
    BY <2>1, <2>2, BookStays DEF Books
<1>4. ASSUME NEW s \in Subs!Sockets, Subs!Disconnect(s) PROVE Books'
  <2>1. /\ ~Subs!Stands(s) /\ \A t \in Subs!Sockets : t # s => noted'[t] = noted[t]
        /\ UNCHANGED <<conn, up, descriptors, verifying, requests, incidents>>
    BY <1>4, Goes
  <2> SUFFICES ASSUME NEW d \in Subscribers PROVE BookAt(d)'
    BY DEF Books
  <2>2. up'[d] => /\ up[d]
                  /\ \A t : t = Subs!Socket(d) =>
                       noted'[t] = noted[t] /\ verifying'[t] = verifying[t] /\ requests'[t] = requests[t]
    BY <2>1, LinkedSocket, OfSubscriber
  <2> QED
    BY <2>1, <2>2, BookStays DEF Books
<1>5. ASSUME NEW change \in Subs!Change, Subs!Make(change) PROVE Books'
  BY <1>1, <1>5, Makes
<1>6. ASSUME NEW n \in DOMAIN made, Subs!Echo(n) PROVE Books'
  BY <1>1, <1>6, Echoes
<1> QED
  BY <1>2, <1>3, <1>4, <1>5, <1>6, BookSubscribes, BookUnsubscribes, BookConnects, BookTakes, BookVerifies,
     ListenSides, Zenon DEF Callers, Servers, Makers

-----------------------------------------------------------------------------
(* Subscriptions: the numbers of callbacks and changes.                     *)

NumbersOf(wants) == \A d \in wants : d[1] <= ops /\ \A e \in wants : d[1] = e[1] => d = e
Numbers ==
  /\ \A c \in Subscribers : NumbersOf(descriptors[c])
  /\ \A x \in heard : x[2] \in Nat /\ x[2] <= ops /\ x[3] \in Nat /\ x[3] <= Len(made)
  /\ \A x \in stood : /\ x[1] \in Subscribers /\ up[x[1]]
                      /\ x[2] \in Nat /\ x[2] <= ops /\ x[3] \in 1..Len(made)
  /\ \A s \in Subs!Sockets : \A i \in DOMAIN events[s] : events[s][i].no <= Len(made)

\* What comes off the front, or is put behind.
LEMMA EventsTail ==
  ASSUME NEW q \in Seq(TableEvent), q # <<>>, NEW p, p = Tail(q)
  PROVE  /\ Head(q) = q[1] /\ 1 \in DOMAIN q /\ Head(q) \in TableEvent
         /\ \A i \in DOMAIN p : i + 1 \in DOMAIN q /\ i + 1 # 1 /\ p[i] = q[i + 1]
         /\ \A i \in DOMAIN q : i = 1 \/ (i - 1 \in DOMAIN p /\ p[i - 1] = q[i])
<1> DEFINE n == Len(q)
<1>1. /\ n \in Nat /\ n >= 1 /\ DOMAIN q = 1..n /\ Head(q) = q[1] /\ DOMAIN p = 1..(n - 1)
      /\ \A i \in 1..(n - 1) : p[i] = q[i + 1]
  OBVIOUS
<1>2. Head(q) \in TableEvent
  BY <1>1
<1> HIDE DEF n
<1>3. \A i \in 1..(n - 1) : i + 1 \in 1..n /\ i + 1 # 1 /\ p[i] = q[i + 1]
  BY <1>1
<1>4. ASSUME NEW i \in 1..n, i # 1 PROVE i - 1 \in 1..(n - 1) /\ p[i - 1] = q[i]
  <2>1. i - 1 \in 1..(n - 1) /\ (i - 1) + 1 = i
    BY <1>1, <1>4
  <2> QED
    BY <1>1, <2>1
<1> QED
  BY <1>1, <1>2, <1>3, <1>4

LEMMA EventIs ==
  ASSUME ListenShape, NEW s \in Subs!Sockets
  PROVE  /\ events[s] \in Seq(TableEvent) /\ Len(made) \in Nat /\ ops \in Nat
         /\ \A i \in DOMAIN events[s] : /\ i \in Nat /\ events[s][i].no \in Nat /\ events[s][i].echo \in BOOLEAN
                                        /\ events[s][i] \in TableEvent
<1>1. events[s] \in Seq(TableEvent) /\ Len(made) \in Nat /\ ops \in Nat
  BY DEF ListenShape, EventTypes
<1>2. \A i \in DOMAIN events[s] : i \in Nat /\ events[s][i] \in TableEvent
  BY <1>1
<1> QED
  BY <1>1, <1>2 DEF TableEvent

LEMMA DescriptorIs ==
  ASSUME ListenShape, NEW c \in Subscribers, NEW d \in descriptors[c]
  PROVE  d[1] \in Nat /\ d[2] \in Subs!Wanted /\ d = <<d[1], d[2]>> /\ d[2] \in Subs!Wants(c)
<1>1. d \in Nat \X Subs!Wanted
  BY DEF ListenShape, ListenTypes
<1>2. d[2] \in Subs!Wants(c)
  BY DEF Subs!Wants
<1> QED
  BY <1>1, <1>2

LEMMA Numbering ==
  ASSUME ListenShape, Linked, Numbers, Subs!Next
  PROVE  Numbers'
<1>0. /\ Len(made) \in Nat /\ ops \in Nat
      /\ \A s \in Subs!Sockets : \A i \in DOMAIN events[s] : events[s][i].no \in Nat
  BY EventIs DEF ListenShape, EventTypes
<1>1. ASSUME NEW c \in Subscribers, NEW w \in Subs!Wanted, Subs!Subscribe(c, w) PROVE Numbers'
  <2>1. /\ UNCHANGED <<up, events, made, stood, heard>> /\ ops' = ops + 1
        /\ descriptors'[c] = descriptors[c] \cup {<<ops + 1, w>>}
        /\ \A d \in Subscribers : d # c => descriptors'[d] = descriptors[d]
    BY <1>1, Subscribes
  <2>2. ASSUME NEW e \in Subscribers PROVE NumbersOf(descriptors[e])'
    <3>1. \A d \in descriptors[e] : d[1] <= ops /\ d[1] \in Nat /\ d[1] <= ops + 1 /\ d[1] # ops + 1
      BY <1>0, DescriptorIs DEF Numbers, NumbersOf
    <3>2. \A d, f \in descriptors[e] : d[1] = f[1] => d = f
      BY DEF Numbers, NumbersOf
    <3>3. <<ops + 1, w>>[1] = ops + 1 /\ ops + 1 <= ops + 1
      BY <1>0
    <3>4. CASE e # c
      BY <2>1, <3>1, <3>2, <3>4 DEF NumbersOf
    <3>5. CASE e = c
      BY <2>1, <3>1, <3>2, <3>3, <3>5 DEF NumbersOf
    <3> QED
      BY <3>4, <3>5
  <2>3. \A n \in Nat : n <= ops => n <= ops + 1
    BY <1>0
  <2> QED
    BY <2>1, <2>2, <2>3 DEF Numbers
<1>2. ASSUME NEW c \in Subscribers, NEW d \in descriptors[c], Subs!Unsubscribe(c, d) PROVE Numbers'
  <2>1. /\ UNCHANGED <<up, events, made, heard>> /\ ops' = ops + 1 /\ stood' \subseteq stood
        /\ \A e \in Subscribers : descriptors'[e] \subseteq descriptors[e]
    BY <1>2, Unsubscribes
  <2>2. \A n \in Nat : n <= ops => n <= ops + 1
    BY <1>0
  <2>3. ASSUME NEW e \in Subscribers PROVE NumbersOf(descriptors[e])'
    BY <2>1, <2>2, DescriptorIs DEF Numbers, NumbersOf
  <2> QED
    BY <2>1, <2>2, <2>3 DEF Numbers
<1>3. ASSUME NEW c \in Subscribers, Subs!Connect(c) PROVE Numbers'
  <2>1. /\ UNCHANGED <<descriptors, events, made, stood, heard, ops>>
        /\ ~up[c] /\ \A d \in Subscribers : d # c => up'[d] = up[d]
    BY <1>3, Links
  <2>2. \A e \in Subscribers : NumbersOf(descriptors[e])'
    BY <2>1 DEF Numbers, NumbersOf
  <2> QED
    BY <2>1, <2>2 DEF Numbers
<1>4. ASSUME NEW c \in Subscribers, Subs!Receive(c) PROVE Numbers'
  <2> DEFINE s == Subs!Socket(c)
             e == Head(events[s])
             anew == {<<c, d[1], e.no, e.echo>> : d \in {x \in descriptors[c] : Subs!Hears(x[2], e)}}
  <2>1. /\ s \in Subs!Sockets /\ events[s] # <<>>
        /\ events'[s] = Tail(events[s]) /\ \A t \in Subs!Sockets : t # s => events'[t] = events[t]
        /\ heard' = heard \cup anew
        /\ UNCHANGED <<up, descriptors, made, stood, ops>>
    BY <1>4, Hearing
  <2>2. /\ e = events[s][1] /\ 1 \in DOMAIN events[s]
        /\ \A i \in DOMAIN events'[s] : i + 1 \in DOMAIN events[s] /\ events'[s][i] = events[s][i + 1]
    BY <2>1, EventIs, EventsTail
  <2>3. \A x \in anew : x[2] \in Nat /\ x[2] <= ops /\ x[3] \in Nat /\ x[3] <= Len(made)
    <3> SUFFICES ASSUME NEW d \in descriptors[c]
                 PROVE  d[1] \in Nat /\ d[1] <= ops /\ e.no \in Nat /\ e.no <= Len(made)
      OBVIOUS
    <3>1. d[1] \in Nat /\ d[1] <= ops
      BY DescriptorIs DEF Numbers, NumbersOf
    <3>2. e.no \in Nat /\ e.no <= Len(made)
      BY <1>0, <2>1, <2>2 DEF Numbers
    <3> QED
      BY <3>1, <3>2
  <2> HIDE DEF s, e, anew
  <2>4. ASSUME NEW t \in Subs!Sockets, NEW i \in DOMAIN events'[t] PROVE events'[t][i].no <= Len(made)
    <3>1. CASE t = s
      <4>1. i \in DOMAIN events'[s] /\ events'[t] = events'[s]
        BY <3>1
      <4>2. i + 1 \in DOMAIN events[s] /\ events'[t][i] = events[s][i + 1]
        BY <2>2, <4>1
      <4> QED
        BY <2>1, <4>2 DEF Numbers
    <3>2. CASE t # s
      BY <2>1, <3>2 DEF Numbers
    <3> QED
      BY <3>1, <3>2
  <2>5. \A d \in Subscribers : NumbersOf(descriptors[d])'
    BY <2>1 DEF Numbers, NumbersOf
  <2>6. \A x \in heard' : x[2] \in Nat /\ x[2] <= ops /\ x[3] \in Nat /\ x[3] <= Len(made)
    BY <2>1, <2>3 DEF Numbers
  <2> QED
    BY <2>1, <2>4, <2>5, <2>6 DEF Numbers
<1>5. ASSUME NEW c \in Subscribers, Subs!Break(c) PROVE Numbers'
  <2>1. /\ \A d \in Subscribers : d # c => up'[d] = up[d]
        /\ \A t \in Subs!Sockets : t # Subs!Socket(c) => events'[t] = events[t]
        /\ stood' = {x \in stood : x[1] # c}
        /\ events' = [events EXCEPT ![Subs!Socket(c)] = <<>>]
        /\ UNCHANGED <<descriptors, made, heard, ops>>
    BY <1>5, Breaks DEF Subs!Break
  <2>2. ASSUME NEW t \in Subs!Sockets, NEW i \in DOMAIN events'[t] PROVE events'[t][i].no <= Len(made)
    <3>1. CASE t = Subs!Socket(c)
      <4>1. events'[t] = <<>> /\ DOMAIN <<>> = {}
        BY <2>1, <3>1 DEF ListenShape, EventTypes
      <4> QED
        BY <4>1
    <3>2. CASE t # Subs!Socket(c)
      BY <2>1, <3>2 DEF Numbers
    <3> QED
      BY <3>1, <3>2
  <2>3. \A d \in Subscribers : NumbersOf(descriptors[d])'
    BY <2>1 DEF Numbers, NumbersOf
  <2> QED
    BY <2>1, <2>2, <2>3 DEF Numbers
<1>6. ASSUME UNCHANGED <<up, descriptors, events, made, stood, heard, ops>> PROVE Numbers'
  <2>1. \A d \in Subscribers : NumbersOf(descriptors[d])'
    BY <1>6 DEF Numbers, NumbersOf
  <2> QED
    BY <1>6, <2>1 DEF Numbers
<1>7. ASSUME NEW s \in Subs!Sockets, Subs!Take(s) PROVE Numbers'
  BY <1>6, <1>7, Takes
<1>8. ASSUME NEW s \in Subs!Sockets, Subs!Disconnect(s) PROVE Numbers'
  BY <1>6, <1>8, Goes
<1>9. ASSUME NEW s \in Subs!Sockets, NEW i \in DOMAIN verifying[s], Subs!Note(s, i) \/ Subs!Deny(s, i)
      PROVE  Numbers'
  BY <1>6, <1>9, Verified
<1>10. ASSUME NEW n \in Nat, NEW change \in Subs!Change, NEW echo \in BOOLEAN, Subs!Emit(n, change, echo),
              NEW m \in Nat, n <= m, Len(made) <= m, NEW t \in Subs!Sockets, NEW i \in DOMAIN events'[t]
       PROVE  events'[t][i].no <= m
  <2>1. events'[t] = IF Subs!Stands(t) THEN events[t] \o Subs!Sent(t, n, change, echo) ELSE events[t]
    BY <1>10, SentOut
  <2>2. \A j \in DOMAIN events[t] : events[t][j].no <= m
    BY <1>0, <1>10 DEF Numbers
  <2> DEFINE q == Subs!Sent(t, n, change, echo)
  <2>3. q \in Seq(TableEvent) /\ \A j \in DOMAIN q : q[j].no = n
    BY SentAway
  <2> HIDE DEF q
  <2>4. events[t] \in Seq(TableEvent)
    BY EventIs
  <2>5. CASE Subs!Stands(t)
    <3>1. events'[t] = events[t] \o q
      BY <2>1, <2>5 DEF q
    <3>2. \/ i \in DOMAIN events[t] /\ events'[t][i] = events[t][i]
          \/ i - Len(events[t]) \in DOMAIN q /\ events'[t][i] = q[i - Len(events[t])]
      BY <2>3, <2>4, <3>1, JoinedAt
    <3> QED
      BY <1>10, <2>2, <2>3, <3>2
  <2>6. CASE ~Subs!Stands(t)
    BY <2>1, <2>2, <2>6
  <2> QED
    BY <2>5, <2>6
<1>11. ASSUME NEW change \in Subs!Change, Subs!Make(change) PROVE Numbers'
  <2>1. /\ Len(made') = Len(made) + 1 /\ Subs!Emit(Len(made) + 1, change, FALSE)
        /\ \A x : x \in stood' <=>
              (x \in stood \/ \E c \in Subscribers : Subs!Settled(c) /\ \E d \in descriptors[c] :
                                x = <<c, d[1], Len(made) + 1>>)
        /\ UNCHANGED <<up, descriptors, heard, ops>>
    BY <1>11, Makes
  <2>2. \A t \in Subs!Sockets : \A i \in DOMAIN events'[t] : events'[t][i].no <= Len(made) + 1
    <3> DEFINE n == Len(made) + 1
    <3>0. n \in Nat /\ n <= n /\ Len(made) <= n
      BY <1>0
    <3>1. FALSE \in BOOLEAN /\ Subs!Emit(n, change, FALSE)
      BY <2>1
    <3> HIDE DEF n
    <3>2. \A t \in Subs!Sockets : \A i \in DOMAIN events'[t] : events'[t][i].no <= n
      BY <1>10, <3>0, <3>1
    <3> QED
      BY <3>2 DEF n
  <2>3. \A d \in Subscribers : NumbersOf(descriptors[d])'
    BY <2>1 DEF Numbers, NumbersOf
  <2>4. \A x \in heard : x[2] \in Nat /\ x[2] <= ops /\ x[3] \in Nat /\ x[3] <= Len(made) + 1
    BY <1>0 DEF Numbers
  <2>5. ASSUME NEW x \in stood'
        PROVE  x[1] \in Subscribers /\ up[x[1]] /\ x[2] \in Nat /\ x[2] <= ops /\ x[3] \in 1..(Len(made) + 1)
    <3>1. CASE x \in stood
      BY <1>0, <3>1 DEF Numbers
    <3>2. ASSUME NEW c \in Subscribers, Subs!Settled(c), NEW d \in descriptors[c], x = <<c, d[1], Len(made) + 1>>
          PROVE  x[1] \in Subscribers /\ up[x[1]] /\ x[2] \in Nat /\ x[2] <= ops /\ x[3] \in 1..(Len(made) + 1)
      <4>1. d[1] \in Nat /\ d[1] <= ops
        BY DescriptorIs DEF Numbers, NumbersOf
      <4>2. x[1] = c /\ x[2] = d[1] /\ x[3] = Len(made) + 1
        BY <3>2
      <4> QED
        BY <1>0, <3>2, <4>1, <4>2 DEF Subs!Settled
    <3> QED
      BY <2>1, <3>1, <3>2
  <2> QED
    BY <2>1, <2>2, <2>3, <2>4, <2>5 DEF Numbers
<1>12. ASSUME NEW n \in DOMAIN made, Subs!Echo(n) PROVE Numbers'
  <2>1. /\ n \in Nat /\ made[n] \in Subs!Change /\ Subs!Emit(n, made[n], TRUE)
        /\ UNCHANGED <<up, descriptors, made, stood, heard, ops>>
    BY <1>12, Echoes
  <2>2. n <= Len(made)
    BY <1>0 DEF ListenShape, EventTypes
  <2>3. \A t \in Subs!Sockets : \A i \in DOMAIN events'[t] : events'[t][i].no <= Len(made)
    <3> DEFINE m == Len(made)
    <3>1. m \in Nat /\ n <= m /\ Len(made) <= m /\ TRUE \in BOOLEAN
      BY <1>0, <2>2
    <3> HIDE DEF m
    <3>2. \A t \in Subs!Sockets : \A i \in DOMAIN events'[t] : events'[t][i].no <= m
      BY <1>10, <2>1, <3>1
    <3> QED
      BY <3>2 DEF m
  <2>4. \A d \in Subscribers : NumbersOf(descriptors[d])'
    BY <2>1 DEF Numbers, NumbersOf
  <2> QED
    BY <2>1, <2>3, <2>4 DEF Numbers
<1> QED
  BY <1>1, <1>2, <1>3, <1>4, <1>5, <1>7, <1>8, <1>9, <1>11, <1>12, ListenSides, Zenon
     DEF Callers, Servers, Makers

-----------------------------------------------------------------------------
(* Subscriptions: no callback hears a change again.                         *)

\* No two of an event's copies are on one channel, nor on a channel that has heard it.
OnceIn(q, callbacks, told, c) ==
  /\ \A i, j \in DOMAIN q : i # j /\ q[i].no = q[j].no /\ q[i].echo = q[j].echo => q[i].channel # q[j].channel
  /\ \A i \in DOMAIN q : \A d \in callbacks :
       <<c, d[1], q[i].no, q[i].echo>> \in told => d[2].channel # q[i].channel
OnceAt(c) == up[c] => OnceIn(events[Subs!Socket(c)], descriptors[c], heard, c)
OnceOnly ==
  {"doubled", "crossed"} \cap incidents = {} => repeated = {} /\ \A c \in Subscribers : OnceAt(c)

\* Those who hear an event.
Hearers(callbacks, e, c) == {<<c, d[1], e.no, e.echo>> : d \in {x \in callbacks : Subs!Hears(x[2], e)}}

LEMMA OnceHeard ==
  ASSUME NEW q \in Seq(TableEvent), q # <<>>, NEW callbacks, NEW told, NEW c, OnceIn(q, callbacks, told, c),
         \A d, f \in callbacks : d[1] = f[1] => d = f
  PROVE  /\ Hearers(callbacks, Head(q), c) \cap told = {}
         /\ OnceIn(Tail(q), callbacks, told \cup Hearers(callbacks, Head(q), c), c)
<1> DEFINE e == Head(q)
           anew == Hearers(callbacks, e, c)
<1>0. \A x : x \in anew <=> \E d \in callbacks : Subs!Hears(d[2], e) /\ x = <<c, d[1], e.no, e.echo>>
  BY DEF Hearers
<1> DEFINE p == Tail(q)
<1>1. /\ e = q[1] /\ 1 \in DOMAIN q
      /\ \A i \in DOMAIN p : i + 1 \in DOMAIN q /\ i + 1 # 1 /\ p[i] = q[i + 1] /\ i \in Nat
  <2>1. p \in Seq(TableEvent)
    OBVIOUS
  <2>2. \A i \in DOMAIN p : i \in Nat
    BY <2>1
  <2> QED
    BY <2>2, EventsTail
<1> HIDE DEF p, e, anew
<1>2. \A d \in callbacks : Subs!Hears(d[2], e) => d[2].channel = e.channel
  BY DEF Subs!Hears
<1>3. anew \cap told = {}
  <2> SUFFICES ASSUME NEW d \in callbacks, Subs!Hears(d[2], e), <<c, d[1], e.no, e.echo>> \in told PROVE FALSE
    BY <1>0
  <2> QED
    BY <1>1, <1>2 DEF OnceIn
<1>4. ASSUME NEW i \in DOMAIN p, NEW j \in DOMAIN p, i # j, p[i].no = p[j].no, p[i].echo = p[j].echo
      PROVE  p[i].channel # p[j].channel
  <2>1. i + 1 # j + 1
    BY <1>1, <1>4
  <2> QED
    BY <1>1, <1>4, <2>1 DEF OnceIn
<1>5. ASSUME NEW i \in DOMAIN p, NEW d \in callbacks, <<c, d[1], p[i].no, p[i].echo>> \in told \cup anew
      PROVE  d[2].channel # p[i].channel
  <2>1. CASE <<c, d[1], p[i].no, p[i].echo>> \in told
    BY <1>1, <2>1 DEF OnceIn
  <2>2. CASE <<c, d[1], p[i].no, p[i].echo>> \in anew
    <3>1. PICK f \in callbacks :
            Subs!Hears(f[2], e) /\ <<c, d[1], p[i].no, p[i].echo>> = <<c, f[1], e.no, e.echo>>
      BY <1>0, <2>2
    <3>2. d[1] = f[1] /\ p[i].no = e.no /\ p[i].echo = e.echo
      BY <3>1
    <3>3. d[2].channel = e.channel
      BY <1>2, <3>1, <3>2
    <3>4. q[i + 1].channel # q[1].channel
      BY <1>1, <3>2 DEF OnceIn
    <3> QED
      BY <1>1, <3>3, <3>4
  <2> QED
    BY <1>5, <2>1, <2>2
<1> QED
  BY <1>3, <1>4, <1>5 DEF OnceIn, p, e, anew

LEMMA OnceMore ==
  ASSUME NEW q \in Seq(TableEvent), NEW p \in Seq(TableEvent), NEW callbacks, NEW told, NEW c,
         OnceIn(q, callbacks, told, c), NEW n, NEW echo,
         \A j \in DOMAIN p : p[j].no = n /\ p[j].echo = echo,
         \A i \in DOMAIN q : ~(q[i].no = n /\ q[i].echo = echo),
         \A x \in told : ~(x[3] = n /\ x[4] = echo),
         \A i, j \in DOMAIN p : i # j => p[i].channel # p[j].channel
  PROVE  OnceIn(q \o p, callbacks, told, c)
<1> DEFINE r == q \o p
           m == Len(q)
<1>1. /\ \A i \in DOMAIN r : (i \in DOMAIN q /\ r[i] = q[i]) \/ (i - m \in DOMAIN p /\ r[i] = p[i - m])
      /\ \A i \in DOMAIN r : i \in Nat
      /\ m \in Nat
  <2>1. r \in Seq(TableEvent) /\ m \in Nat
    OBVIOUS
  <2>2. \A i \in DOMAIN r : (i \in DOMAIN q /\ r[i] = q[i]) \/ (i - m \in DOMAIN p /\ r[i] = p[i - m])
    BY JoinedAt
  <2> HIDE DEF r
  <2> QED
    BY <2>1, <2>2
<1> HIDE DEF r, m
<1>2. ASSUME NEW i \in DOMAIN r, NEW j \in DOMAIN r, i # j, r[i].no = r[j].no, r[i].echo = r[j].echo
      PROVE  r[i].channel # r[j].channel
  <2>1. CASE i \in DOMAIN q /\ r[i] = q[i]
    <3>1. j \in DOMAIN q /\ r[j] = q[j]
      BY <1>1, <1>2, <2>1
    <3> QED
      BY <1>2, <2>1, <3>1 DEF OnceIn
  <2>2. CASE i - m \in DOMAIN p /\ r[i] = p[i - m]
    <3>1. j - m \in DOMAIN p /\ r[j] = p[j - m]
      BY <1>1, <1>2, <2>2
    <3>2. i - m # j - m
      BY <1>1, <1>2
    <3> QED
      BY <2>2, <3>1, <3>2
  <2> QED
    BY <1>1, <2>1, <2>2
<1>3. ASSUME NEW i \in DOMAIN r, NEW d \in callbacks, <<c, d[1], r[i].no, r[i].echo>> \in told
      PROVE  d[2].channel # r[i].channel
  <2>1. CASE i \in DOMAIN q /\ r[i] = q[i]
    BY <1>3, <2>1 DEF OnceIn
  <2>2. CASE i - m \in DOMAIN p /\ r[i] = p[i - m]
    <3>1. r[i].no = n /\ r[i].echo = echo
      BY <2>2
    <3>2. <<c, d[1], n, echo>>[3] = n /\ <<c, d[1], n, echo>>[4] = echo /\ <<c, d[1], n, echo>> \in told
      BY <1>3, <3>1
    <3> QED
      BY <3>2
  <2> QED
    BY <1>1, <2>1, <2>2
<1> QED
  BY <1>2, <1>3 DEF OnceIn, r

\* Who is not concerned by a step hears no more often for it.
LEMMA OnceStays ==
  ASSUME NEW c \in Subscribers, OnceAt(c), conn'[c] = conn[c],
         up'[c] => up[c] /\ \A s : s = Subs!Socket(c) => events'[s] = events[s],
         descriptors'[c] \subseteq descriptors[c],
         \A d \in descriptors'[c] : \A n, echo : <<c, d[1], n, echo>> \in heard' => <<c, d[1], n, echo>> \in heard
  PROVE  OnceAt(c)'
<1> SUFFICES ASSUME NEW s, s = Subs!Socket(c), up'[c] PROVE OnceIn(events[s], descriptors[c], heard, c)'
  <2>1. Subs!Socket(c)' = Subs!Socket(c)
    BY DEF Subs!Socket
  <2> QED
    BY <2>1 DEF OnceAt
<1>1. OnceIn(events[s], descriptors[c], heard, c) /\ events'[s] = events[s]
  BY DEF OnceAt
<1> QED
  BY <1>1 DEF OnceIn

LEMMA HearingOnce ==
  ASSUME ListenShape, Linked, Numbers, OnceOnly, NEW c \in Subscribers, Subs!Receive(c)
  PROVE  OnceOnly'
<1> SUFFICES ASSUME {"doubled", "crossed"} \cap incidents = {}
             PROVE  repeated' = {} /\ \A d \in Subscribers : OnceAt(d)'
  <2>1. UNCHANGED incidents
    BY Hearing
  <2> QED
    BY <2>1 DEF OnceOnly
<1> DEFINE s == Subs!Socket(c)
           e == Head(events[s])
           anew == {<<c, d[1], e.no, e.echo>> : d \in {x \in descriptors[c] : Subs!Hears(x[2], e)}}
<1>1. /\ up[c] /\ s \in Subs!Sockets /\ events[s] # <<>>
      /\ events'[s] = Tail(events[s]) /\ \A t \in Subs!Sockets : t # s => events'[t] = events[t]
      /\ heard' = heard \cup anew /\ repeated' = repeated \cup (anew \cap heard)
      /\ UNCHANGED <<conn, up, descriptors>>
  BY Hearing
<1>2. repeated = {} /\ \A d \in Subscribers : OnceAt(d)
  BY DEF OnceOnly
<1>3. OnceIn(events[s], descriptors[c], heard, c)
  BY <1>1, <1>2 DEF OnceAt
<1>4. events[s] \in Seq(TableEvent) /\ \A d, f \in descriptors[c] : d[1] = f[1] => d = f
  BY <1>1, EventIs DEF Numbers, NumbersOf
<1>5. anew \cap heard = {} /\ OnceIn(events'[s], descriptors[c], heard', c)
  <2> HIDE DEF s
  <2>1. anew = Hearers(descriptors[c], Head(events[s]), c)
    BY DEF Hearers
  <2> HIDE DEF anew
  <2>2. anew \cap heard = {} /\ OnceIn(Tail(events[s]), descriptors[c], heard \cup anew, c)
    BY <1>1, <1>3, <1>4, <2>1, OnceHeard
  <2> QED
    BY <1>1, <2>2
<1>6. OnceAt(c)'
  <2>1. Subs!Socket(c)' = s
    BY <1>1 DEF Subs!Socket
  <2> QED
    BY <1>1, <1>5, <2>1 DEF OnceAt
<1>7. ASSUME NEW d \in Subscribers, d # c PROVE OnceAt(d)'
  <2>1. up[d] => Subs!Socket(d) \in Subs!Sockets /\ Subs!Socket(d) # s
    BY <1>7, LinkedSocket, OfSubscriber
  <2>2. \A k, n, echo : <<d, k, n, echo>> \in heard' => <<d, k, n, echo>> \in heard
    BY <1>1, <1>7
  <2> HIDE DEF s, anew
  <2>3. up'[d] => up[d] /\ \A t : t = Subs!Socket(d) => events'[t] = events[t]
    BY <1>1, <2>1
  <2> QED
    BY <1>1, <1>2, <2>2, <2>3, OnceStays
<1> QED
  BY <1>1, <1>2, <1>5, <1>6, <1>7

\* An event goes out, of which there is none yet.
LEMMA SendingOnce ==
  ASSUME ListenShape, Linked, Books, OnceOnly, NEW n \in Nat, NEW change \in Subs!Change, NEW echo \in BOOLEAN,
         Subs!Emit(n, change, echo),
         \A s \in Subs!Sockets : \A i \in DOMAIN events[s] : ~(events[s][i].no = n /\ events[s][i].echo = echo),
         \A x \in heard : ~(x[3] = n /\ x[4] = echo),
         UNCHANGED <<conn, up, descriptors, heard, repeated, incidents>>
  PROVE  OnceOnly'
<1> SUFFICES ASSUME {"doubled", "crossed"} \cap incidents = {}, NEW c \in Subscribers, up[c] PROVE OnceAt(c)'
  BY DEF OnceOnly, OnceAt
<1> DEFINE s == Subs!Socket(c)
           p == Subs!Sent(s, n, change, echo)
<1>1. s \in Subs!Sockets /\ Subs!Stands(s)
  BY LinkedSocket, OfSubscriber
<1>2. events'[s] = events[s] \o p
  BY <1>1, SentOut
<1>3. /\ p \in Seq(TableEvent)
      /\ \A i \in DOMAIN p : p[i].no = n /\ p[i].echo = echo
      /\ \A i, j \in DOMAIN p : i # j /\ p[i].channel = p[j].channel => \E v, w \in noted[s] : Subs!Doubles(v, w)
  <2> HIDE DEF s
  <2>1. p = Subs!Sent(s, n, change, echo)
    OBVIOUS
  <2> HIDE DEF p
  <2> QED
    BY <1>1, <2>1, SentAway
<1>4. \A v, w \in noted[s] : ~Subs!Doubles(v, w)
  <2> SUFFICES ASSUME NEW v \in noted[s], NEW w \in noted[s] PROVE ~Subs!Doubles(v, w)
    OBVIOUS
  <2>1. Separate(Doubling, Held(s), requests[s])
    BY DEF Books, BookAt, BookOf
  <2>2. v \in Held(s) /\ w \in Held(s) /\ v \in Subs!Wanted /\ w \in Subs!Wanted
    BY <1>1 DEF Held, ListenShape, ListenTypes
  <2> QED
    BY <2>1, <2>2, PairsOf DEF Separate
<1>5. events[s] \in Seq(TableEvent) /\ OnceIn(events[s], descriptors[c], heard, c)
  BY <1>1, EventIs DEF OnceOnly, OnceAt
<1>6. Subs!Socket(c)' = s
  BY DEF Subs!Socket
<1> HIDE DEF s, p
<1>7. OnceIn(events[s] \o p, descriptors[c], heard, c)
  BY <1>1, <1>3, <1>4, <1>5, OnceMore
<1> QED
  BY <1>2, <1>6, <1>7 DEF OnceAt

LEMMA OnceMarked ==
  ASSUME OnceOnly, incidents \subseteq incidents', repeated' = repeated,
         (\A c \in Subscribers : OnceAt(c)) => \A c \in Subscribers : OnceAt(c)'
  PROVE  OnceOnly'
<1>1. {"doubled", "crossed"} \cap incidents' = {} => {"doubled", "crossed"} \cap incidents = {}
  OBVIOUS
<1> QED
  BY <1>1 DEF OnceOnly

LEMMA Once ==
  ASSUME ListenShape, Linked, Unlinked, Books, Numbers, OnceOnly, Subs!Next
  PROVE  OnceOnly'
<1>1. ASSUME incidents \subseteq incidents', UNCHANGED <<conn, up, descriptors, events, heard, repeated>>
      PROVE  OnceOnly'
  <2>1. \A c \in Subscribers : OnceAt(c) => OnceAt(c)'
    BY <1>1, OnceStays
  <2> QED
    BY <1>1, <2>1, OnceMarked
<1>2. ASSUME NEW c \in Subscribers, NEW w \in Subs!Wanted, Subs!Subscribe(c, w) PROVE OnceOnly'
  <2>1. /\ UNCHANGED <<conn, up, events, heard, repeated>> /\ incidents \subseteq incidents'
        /\ descriptors'[c] = descriptors[c] \cup {<<ops + 1, w>>}
        /\ \A d \in Subscribers : d # c => descriptors'[d] = descriptors[d]
    BY <1>2, Subscribes
  <2>2. ASSUME NEW d \in Subscribers, d # c, OnceAt(d) PROVE OnceAt(d)'
    BY <2>1, <2>2, OnceStays
  <2>3. ASSUME OnceAt(c) PROVE OnceAt(c)'
    <3>1. Subs!Socket(c)' = Subs!Socket(c)
      BY <2>1 DEF Subs!Socket
    <3>2. \A x \in heard : x[2] # ops + 1
      BY DEF Numbers, ListenShape, EventTypes
    <3>3. ASSUME NEW n, NEW echo PROVE <<c, <<ops + 1, w>>[1], n, echo>> \notin heard
      <4>1. <<c, <<ops + 1, w>>[1], n, echo>>[2] = ops + 1
        OBVIOUS
      <4> QED
        BY <3>2, <4>1
    <3>4. ASSUME NEW q, OnceIn(q, descriptors[c], heard, c) PROVE OnceIn(q, descriptors'[c], heard, c)
      BY <2>1, <3>3, <3>4 DEF OnceIn
    <3> QED
      BY <2>1, <2>3, <3>1, <3>4 DEF OnceAt
  <2> QED
    BY <2>1, <2>2, <2>3, OnceMarked
<1>3. ASSUME NEW c \in Subscribers, NEW d \in descriptors[c], Subs!Unsubscribe(c, d) PROVE OnceOnly'
  <2>1. /\ UNCHANGED <<conn, up, events, heard, repeated, incidents>>
        /\ \A e \in Subscribers : descriptors'[e] \subseteq descriptors[e]
    BY <1>3, Unsubscribes
  <2>2. \A e \in Subscribers : OnceAt(e) => OnceAt(e)'
    BY <2>1, OnceStays
  <2> QED
    BY <2>1, <2>2, OnceMarked
<1>4. ASSUME NEW c \in Subscribers, Subs!Connect(c) PROVE OnceOnly'
  <2> DEFINE s == <<c, conn[c] + 1>>
  <2>1. /\ s \in Subs!Sockets /\ s = Subs!Socket(c)' /\ s[2] > conn[s[1]]
        /\ \A d \in Subscribers : d # c => up'[d] = up[d] /\ conn'[d] = conn[d]
        /\ UNCHANGED <<descriptors, events, heard, repeated, incidents>>
    BY <1>4, Links
  <2> HIDE DEF s
  <2>2. events'[s] = <<>>
    BY <2>1 DEF Unlinked
  <2>3. OnceAt(c)'
    <3>1. DOMAIN <<>> = {}
      OBVIOUS
    <3>2. OnceIn(<<>>, descriptors'[c], heard', c)
      BY <3>1 DEF OnceIn
    <3> QED
      BY <2>1, <2>2, <3>2 DEF OnceAt
  <2>4. ASSUME NEW d \in Subscribers, d # c, OnceAt(d) PROVE OnceAt(d)'
    BY <2>1, <2>4, OnceStays
  <2> QED
    BY <2>1, <2>3, <2>4, OnceMarked
<1>5. ASSUME NEW c \in Subscribers, Subs!Break(c) PROVE OnceOnly'
  <2>1. /\ ~up'[c] /\ \A d \in Subscribers : d # c => up'[d] = up[d]
        /\ \A t \in Subs!Sockets : t # Subs!Socket(c) => events'[t] = events[t]
        /\ UNCHANGED <<conn, descriptors, heard, repeated, incidents>>
    BY <1>5, Breaks
  <2>2. ASSUME NEW d \in Subscribers, OnceAt(d) PROVE OnceAt(d)'
    <3>1. up'[d] => up[d] /\ \A s : s = Subs!Socket(d) => events'[s] = events[s]
      BY <2>1, LinkedSocket, OfSubscriber
    <3> QED
      BY <2>1, <2>2, <3>1, OnceStays
  <2> QED
    BY <2>1, <2>2, OnceMarked
<1>6. ASSUME NEW s \in Subs!Sockets, Subs!Take(s) PROVE OnceOnly'
  BY <1>1, <1>6, Takes
<1>7. ASSUME NEW s \in Subs!Sockets, Subs!Disconnect(s) PROVE OnceOnly'
  BY <1>1, <1>7, Goes
<1>8. ASSUME NEW s \in Subs!Sockets, NEW i \in DOMAIN verifying[s], Subs!Note(s, i) \/ Subs!Deny(s, i)
      PROVE  OnceOnly'
  BY <1>1, <1>8, Verified
<1>9. ASSUME NEW change \in Subs!Change, Subs!Make(change) PROVE OnceOnly'
  <2> DEFINE n == Len(made) + 1
  <2>1. /\ Subs!Emit(n, change, FALSE)
        /\ UNCHANGED <<conn, up, descriptors, heard, repeated, incidents>>
    BY <1>9, Makes
  <2>2. n \in Nat /\ \A m \in Nat : m <= Len(made) => m # n
    BY DEF ListenShape, EventTypes
  <2> HIDE DEF n
  <2>3. \A s \in Subs!Sockets : \A i \in DOMAIN events[s] : ~(events[s][i].no = n /\ events[s][i].echo = FALSE)
    BY <2>2, EventIs DEF Numbers
  <2>4. \A x \in heard : ~(x[3] = n /\ x[4] = FALSE)
    BY <2>2 DEF Numbers
  <2>5. FALSE \in BOOLEAN
    OBVIOUS
  <2> QED
    BY <2>1, <2>2, <2>3, <2>4, <2>5, SendingOnce
<1>10. ASSUME NEW n \in DOMAIN made, Subs!Echo(n) PROVE OnceOnly'
  <2>1. /\ n \in Nat /\ made[n] \in Subs!Change /\ Subs!Emit(n, made[n], TRUE)
        /\ \A s \in Subs!Sockets : \A i \in DOMAIN events[s] : ~(events[s][i].echo /\ events[s][i].no = n)
        /\ \A x \in heard : ~(x[3] = n /\ x[4])
        /\ UNCHANGED <<conn, up, descriptors, heard, repeated, incidents>>
    BY <1>10, Echoes
  <2>2. \A s \in Subs!Sockets : \A i \in DOMAIN events[s] : ~(events[s][i].no = n /\ events[s][i].echo = TRUE)
    BY <2>1
  <2>3. \A x \in heard : ~(x[3] = n /\ x[4] = TRUE)
    BY <2>1
  <2>4. TRUE \in BOOLEAN
    OBVIOUS
  <2> QED
    BY <2>1, <2>2, <2>3, <2>4, SendingOnce
<1> QED
  BY <1>2, <1>3, <1>4, <1>5, <1>6, <1>7, <1>8, <1>9, <1>10, HearingOnce, ListenSides, Zenon
     DEF Callers, Servers, Makers

-----------------------------------------------------------------------------
(* Subscriptions: every callback hears what concerns it.                    *)

Mishaps == {"overwritten", "doubled", "crossed", "denied"}
Coming(q, w, n) == \E i \in DOMAIN q : q[i].no = n /\ ~q[i].echo /\ Subs!Hears(w, q[i])

\* A change that concerns a callback that stood has been heard, or comes.
HeardAt(x, d) ==
  Subs!Concerns(d[2], made[x[3]])
    <=> (<<x[1], x[2], x[3], FALSE>> \in heard \/ Coming(events[Subs!Socket(x[1])], d[2], x[3]))
AsHeard ==
  Mishaps \cap incidents = {} => \A x \in stood : \A d \in descriptors[x[1]] : d[1] = x[2] => HeardAt(x, d)

LEMMA HeardStays ==
  ASSUME NEW x, NEW d, HeardAt(x, d), conn'[x[1]] = conn[x[1]], made'[x[3]] = made[x[3]],
         <<x[1], x[2], x[3], FALSE>> \in heard' <=> <<x[1], x[2], x[3], FALSE>> \in heard,
         \A s : s = Subs!Socket(x[1]) => (Coming(events'[s], d[2], x[3]) <=> Coming(events[s], d[2], x[3]))
  PROVE  HeardAt(x, d)'
<1>1. Subs!Socket(x[1])' = Subs!Socket(x[1])
  BY DEF Subs!Socket
<1> SUFFICES ASSUME NEW s, s = Subs!Socket(x[1]) PROVE HeardAt(x, d)'
  OBVIOUS
<1>2. Coming(events'[s], d[2], x[3]) <=> Coming(events[s], d[2], x[3])
  OBVIOUS
<1>3. Subs!Concerns(d[2], made[x[3]])
        <=> (<<x[1], x[2], x[3], FALSE>> \in heard \/ Coming(events[s], d[2], x[3]))
  BY DEF HeardAt
<1>4. Subs!Concerns(d[2], made'[x[3]])
        <=> (<<x[1], x[2], x[3], FALSE>> \in heard' \/ Coming(events'[s], d[2], x[3]))
  BY <1>2, <1>3
<1> QED
  BY <1>1, <1>4 DEF HeardAt

\* What comes behind others is coming, or was.
LEMMA ComingBehind ==
  ASSUME NEW q \in Seq(TableEvent), NEW p \in Seq(TableEvent), NEW w, NEW n
  PROVE  Coming(q \o p, w, n) <=> (Coming(q, w, n) \/ Coming(p, w, n))
<1> DEFINE r == q \o p
<1>1. /\ \A i \in DOMAIN r : (i \in DOMAIN q /\ r[i] = q[i]) \/ (i - Len(q) \in DOMAIN p /\ r[i] = p[i - Len(q)])
      /\ \A i \in DOMAIN q : i \in DOMAIN r /\ r[i] = q[i]
      /\ \A i \in DOMAIN p : i + Len(q) \in DOMAIN r /\ r[i + Len(q)] = p[i]
  BY JoinedAt
<1> HIDE DEF r
<1>2. Coming(r, w, n) => Coming(q, w, n) \/ Coming(p, w, n)
  BY <1>1 DEF Coming
<1>3. Coming(q, w, n) => Coming(r, w, n)
  BY <1>1 DEF Coming
<1>4. Coming(p, w, n) => Coming(r, w, n)
  BY <1>1 DEF Coming
<1> QED
  BY <1>2, <1>3, <1>4 DEF r

LEMMA ComingFirst ==
  ASSUME NEW q \in Seq(TableEvent), q # <<>>, NEW w, NEW n
  PROVE  Coming(q, w, n)
           <=> (Coming(Tail(q), w, n) \/ (Head(q).no = n /\ ~Head(q).echo /\ Subs!Hears(w, Head(q))))
<1> DEFINE p == Tail(q)
           e == Head(q)
<1>1. /\ e = q[1] /\ 1 \in DOMAIN q
      /\ \A i \in DOMAIN p : i + 1 \in DOMAIN q /\ p[i] = q[i + 1]
      /\ \A i \in DOMAIN q : i = 1 \/ (i - 1 \in DOMAIN p /\ p[i - 1] = q[i])
  BY EventsTail
<1> HIDE DEF p, e
<1>2. ASSUME Coming(q, w, n) PROVE Coming(p, w, n) \/ (e.no = n /\ ~e.echo /\ Subs!Hears(w, e))
  <2>1. PICK i \in DOMAIN q : q[i].no = n /\ ~q[i].echo /\ Subs!Hears(w, q[i])
    BY <1>2 DEF Coming
  <2>2. CASE i = 1
    BY <1>1, <2>1, <2>2
  <2>3. CASE i # 1
    <3>1. i - 1 \in DOMAIN p /\ p[i - 1] = q[i]
      BY <1>1, <2>3
    <3> QED
      BY <2>1, <3>1 DEF Coming
  <2> QED
    BY <2>2, <2>3
<1>3. Coming(p, w, n) => Coming(q, w, n)
  BY <1>1 DEF Coming
<1>4. e.no = n /\ ~e.echo /\ Subs!Hears(w, e) => Coming(q, w, n)
  BY <1>1 DEF Coming
<1> QED
  BY <1>2, <1>3, <1>4 DEF p, e

\* When nothing is on its way to the server, a callback is sent the changes that concern it.
LEMMA HeardAtOnce ==
  ASSUME ListenShape, Linked, OneNote, Books, Mishaps \cap incidents = {},
         NEW c \in Subscribers, Subs!Settled(c), NEW d \in descriptors[c],
         NEW n \in Nat, NEW change \in Subs!Change
  PROVE  Subs!Concerns(d[2], change) <=> Coming(Subs!Sent(Subs!Socket(c), n, change, FALSE), d[2], n)
<1> DEFINE s == Subs!Socket(c)
           p == Subs!Sent(s, n, change, FALSE)
           w == d[2]
<1>1. up[c] /\ requests[s] = <<>> /\ verifying[s] = <<>>
  BY DEF Subs!Settled
<1>2. s \in Subs!Sockets /\ s \in alive
  BY <1>1, LinkedSocket
<1>3. w \in Subs!Wanted /\ w \in Subs!Wants(c)
  BY DescriptorIs
<1>4. WantsOf(Subs!Wants(c), incidents) /\ BookOf(Held(s), requests[s], Subs!Wants(c), incidents)
  BY <1>1 DEF Books, BookAt
<1> HIDE DEF s, w
<1>5. Held(s) = noted[s]
  <2>1. DOMAIN <<>> = {}
    OBVIOUS
  <2> QED
    BY <1>1, <2>1 DEF Held
<1>6. \A v \in Subs!Wanted : OpenAt(noted[s], requests[s], v, Len(requests[s]) + 1) <=> v \in noted[s]
  <2>1. Len(<<>>) + 1 = 1 /\ \A j : j \notin 1..(1 - 1)
    OBVIOUS
  <2> QED
    BY <1>1, <2>1 DEF OpenAt
<1>7. "overwritten" \notin incidents /\ "doubled" \notin incidents /\ "crossed" \notin incidents /\ "denied" \notin incidents
  BY DEF Mishaps
<1>8. AllAsked(Held(s), requests[s], Subs!Wants(c)) /\ OnlyAsked(Held(s), requests[s], Subs!Wants(c))
  BY <1>4, <1>7 DEF BookOf
<1>9. w \in noted[s] /\ \A v \in noted[s] : v \in Subs!Wanted /\ (v.event # "broadcast" => v \in Subs!Wants(c))
  <2>1. \A v \in noted[s] : v \in Subs!Wanted
    BY <1>2 DEF ListenShape, ListenTypes
  <2> QED
    BY <1>3, <1>5, <1>6, <1>8, <2>1 DEF AllAsked, OnlyAsked
<1>10. \A v \in Subs!Wants(c) : ~Subs!Conflicts(v, w) /\ ~Subs!Doubles(v, w)
  <2>1. Consistent(Clashing, Subs!Wants(c)) /\ Consistent(Doubling, Subs!Wants(c))
    BY <1>4, <1>7 DEF WantsOf
  <2>2. Subs!Wants(c) \subseteq Subs!Wanted
    BY WhatIsWanted
  <2> QED
    BY <1>3, <2>1, <2>2, PairsOf DEF Consistent
<1>11. /\ p \in Seq(TableEvent)
       /\ \A i \in DOMAIN p : \E v \in noted[s] :
             /\ Subs!Concerns(v, change)
             /\ p[i].event = v.event /\ p[i].channel = v.channel /\ p[i].no = n /\ p[i].echo = FALSE
       /\ \A v \in noted[s] : Subs!Concerns(v, change) =>
             \E i \in DOMAIN p : p[i].event = v.event /\ p[i].channel = v.channel
  <2> DEFINE echo == FALSE
  <2>1. p = Subs!Sent(s, n, change, echo) /\ echo \in BOOLEAN
    OBVIOUS
  <2> HIDE DEF p, echo
  <2>2. /\ p \in Seq(TableEvent)
        /\ \A i \in DOMAIN p : \E v \in noted[s] :
              /\ Subs!Concerns(v, change)
              /\ p[i].event = v.event /\ p[i].channel = v.channel /\ p[i].no = n /\ p[i].echo = echo
        /\ s \in alive /\ OneNote => \A v \in noted[s] : Subs!Concerns(v, change) =>
              \E i \in DOMAIN p : p[i].event = v.event /\ p[i].channel = v.channel
    BY <1>2, <2>1, SentAway
  <2> QED
    BY <1>2, <2>2 DEF echo
<1> HIDE DEF p
<1>12. ASSUME Subs!Concerns(w, change) PROVE Coming(p, w, n)
  <2>1. PICK i \in DOMAIN p : p[i].event = w.event /\ p[i].channel = w.channel
    BY <1>9, <1>11, <1>12
  <2>2. p[i].no = n /\ ~p[i].echo
    BY <1>11
  <2>3. Subs!Hears(w, p[i])
    BY <2>1 DEF Subs!Hears
  <2> QED
    BY <2>2, <2>3 DEF Coming
<1>13. ASSUME Coming(p, w, n) PROVE Subs!Concerns(w, change)
  <2>1. PICK i \in DOMAIN p : Subs!Hears(w, p[i])
    BY <1>13 DEF Coming
  <2>2. PICK v \in noted[s] : Subs!Concerns(v, change) /\ p[i].event = v.event /\ p[i].channel = v.channel
    BY <1>11
  <2>3. v \in Subs!Wanted /\ v.channel = w.channel
    BY <1>9, <2>1, <2>2 DEF Subs!Hears
  <2>4. CASE v.event = "broadcast"
    <3>1. w.event = "broadcast"
      BY <2>1, <2>2, <2>4 DEF Subs!Hears
    <3>2. v.filter = {} /\ w.filter = {}
      BY <1>3, <2>3, <2>4, <3>1, RoomOf
    <3>3. v = w
      BY <1>3, <2>3, <2>4, <3>1, <3>2 DEF Subs!Wanted
    <3> QED
      BY <2>2, <3>3
  <2>5. CASE v.event # "broadcast"
    <3>1. v \in Subs!Wants(c) /\ w.event \in {"*", v.event}
      BY <1>9, <2>1, <2>2, <2>5 DEF Subs!Hears
    <3>2. CASE w.event = v.event
      <4>1. Subs!Room(v) = Subs!Room(w)
        BY <3>2, <2>5 DEF Subs!Room
      <4>2. v = w
        BY <1>10, <3>1, <4>1 DEF Subs!Conflicts
      <4> QED
        BY <2>2, <4>2
    <3>3. CASE w.event # v.event
      <4>1. w.event = "*" /\ v.event = "INSERT"
        BY <2>3, <2>5, <3>1, <3>3, RoomOf
      <4>2. Subs!Doubles(v, w)
        BY <2>3, <4>1 DEF Subs!Doubles
      <4> QED
        BY <1>10, <3>1, <4>2
    <3> QED
      BY <3>2, <3>3
  <2> QED
    BY <2>4, <2>5
<1> QED
  BY <1>12, <1>13 DEF p, s, w

LEMMA AsHeardMarked ==
  ASSUME AsHeard, incidents \subseteq incidents',
         Mishaps \cap incidents = {} /\ (\A x \in stood : \A d \in descriptors[x[1]] : d[1] = x[2] => HeardAt(x, d))
           => \A x \in stood' : \A d \in descriptors'[x[1]] : d[1] = x[2] => HeardAt(x, d)'
  PROVE  AsHeard'
<1>1. Mishaps \cap incidents' = {} => Mishaps \cap incidents = {}
  OBVIOUS
<1>2. Mishaps' = Mishaps
  BY DEF Mishaps
<1> QED
  BY <1>1, <1>2 DEF AsHeard

LEMMA HearingAll ==
  ASSUME ListenShape, Linked, Numbers, AsHeard, NEW c \in Subscribers, Subs!Receive(c)
  PROVE  AsHeard'
<1> DEFINE s == Subs!Socket(c)
           e == Head(events[s])
           anew == {<<c, d[1], e.no, e.echo>> : d \in {x \in descriptors[c] : Subs!Hears(x[2], e)}}
<1>1. /\ s \in Subs!Sockets /\ events[s] # <<>>
      /\ events'[s] = Tail(events[s]) /\ \A t \in Subs!Sockets : t # s => events'[t] = events[t]
      /\ heard' = heard \cup anew
      /\ UNCHANGED <<conn, up, descriptors, made, stood, incidents>>
  BY Hearing
<1>2. \A d, f \in descriptors[c] : d[1] = f[1] => d = f
  BY DEF Numbers, NumbersOf
<1>3. events[s] \in Seq(TableEvent) /\ e \in TableEvent
  BY <1>1, EventIs, EventsTail
<1>4. \A y : y \in anew <=> \E d \in descriptors[c] : Subs!Hears(d[2], e) /\ y = <<c, d[1], e.no, e.echo>>
  OBVIOUS
<1>5. e.echo \in BOOLEAN
  BY <1>3 DEF TableEvent
<1> SUFFICES ASSUME NEW x \in stood, NEW d \in descriptors[x[1]], d[1] = x[2], HeardAt(x, d)
             PROVE  HeardAt(x, d)'
  BY <1>1, AsHeardMarked
<1>6. x[1] \in Subscribers /\ up[x[1]]
  BY DEF Numbers
<1>7. CASE x[1] # c
  <2>1. <<x[1], x[2], x[3], FALSE>> \in heard' <=> <<x[1], x[2], x[3], FALSE>> \in heard
    BY <1>1, <1>4, <1>7
  <2>2. \A t : t = Subs!Socket(x[1]) => events'[t] = events[t]
    BY <1>1, <1>6, <1>7, LinkedSocket, OfSubscriber
  <2> HIDE DEF s, e, anew
  <2> QED
    BY <1>1, <1>6, <2>1, <2>2, HeardStays
<1>8. CASE x[1] = c
  <2> HIDE DEF s, e, anew
  <2>1. <<c, x[2], x[3], FALSE>> \in anew <=> (e.no = x[3] /\ ~e.echo /\ Subs!Hears(d[2], e))
    <3>1. ASSUME <<c, x[2], x[3], FALSE>> \in anew PROVE e.no = x[3] /\ ~e.echo /\ Subs!Hears(d[2], e)
      <4>1. PICK f \in descriptors[c] :
              Subs!Hears(f[2], e) /\ <<c, x[2], x[3], FALSE>> = <<c, f[1], e.no, e.echo>>
        BY <1>4, <3>1
      <4>2. f[1] = d[1] /\ e.no = x[3] /\ e.echo = FALSE
        BY <4>1
      <4>3. f = d
        BY <1>2, <1>8, <4>2
      <4> QED
        BY <4>1, <4>2, <4>3
    <3>2. ASSUME e.no = x[3], ~e.echo, Subs!Hears(d[2], e) PROVE <<c, x[2], x[3], FALSE>> \in anew
      <4>1. e.echo = FALSE
        BY <1>5, <3>2
      <4>2. <<c, x[2], x[3], FALSE>> = <<c, d[1], e.no, e.echo>>
        BY <3>2, <4>1
      <4> QED
        BY <1>4, <1>8, <3>2, <4>2
    <3> QED
      BY <3>1, <3>2
  <2>2. Coming(events[s], d[2], x[3])
          <=> (Coming(Tail(events[s]), d[2], x[3]) \/ (e.no = x[3] /\ ~e.echo /\ Subs!Hears(d[2], e)))
    BY <1>1, <1>3, ComingFirst DEF e
  <2>3. Subs!Concerns(d[2], made[x[3]])
          <=> (<<c, x[2], x[3], FALSE>> \in heard \/ Coming(events[s], d[2], x[3]))
    BY <1>8 DEF HeardAt, s
  <2>4. Subs!Concerns(d[2], made'[x[3]])
          <=> (<<c, x[2], x[3], FALSE>> \in heard' \/ Coming(events'[s], d[2], x[3]))
    BY <1>1, <2>1, <2>2, <2>3
  <2>5. Subs!Socket(x[1])' = s
    BY <1>1, <1>8 DEF Subs!Socket, s
  <2> QED
    BY <1>8, <2>4, <2>5 DEF HeardAt
<1> QED
  BY <1>7, <1>8

LEMMA HeardOf ==
  ASSUME ListenShape, Linked, OneNote, Books, Numbers, AsHeard, NEW change \in Subs!Change, Subs!Make(change)
  PROVE  AsHeard'
<1> DEFINE n == Len(made) + 1
<1>1. /\ made' = Append(made, change) /\ Subs!Emit(n, change, FALSE)
      /\ \A x : x \in stood' <=>
              (x \in stood \/ \E c \in Subscribers : Subs!Settled(c) /\ \E d \in descriptors[c] : x = <<c, d[1], n>>)
      /\ UNCHANGED <<conn, up, descriptors, heard, incidents>>
  BY Makes
<1>2. /\ n \in Nat /\ Len(made) \in Nat /\ made'[n] = change /\ \A i \in 1..Len(made) : made'[i] = made[i] /\ i # n
      /\ \A i \in Nat : i <= Len(made) => i # n
  BY <1>1 DEF ListenShape, EventTypes
<1> HIDE DEF n
<1>3. ASSUME NEW t \in Subs!Sockets, Subs!Stands(t), NEW w, NEW k
      PROVE  Coming(events'[t], w, k) <=> (Coming(events[t], w, k) \/ Coming(Subs!Sent(t, n, change, FALSE), w, k))
  <2> DEFINE echo == FALSE
             p == Subs!Sent(t, n, change, echo)
  <2>1. echo \in BOOLEAN /\ Subs!Emit(n, change, echo)
    BY <1>1
  <2> HIDE DEF echo
  <2>2. events'[t] = events[t] \o p
    BY <1>2, <1>3, <2>1, SentOut
  <2>3. p \in Seq(TableEvent) /\ events[t] \in Seq(TableEvent)
    BY <1>2, <2>1, SentAway, EventIs
  <2> HIDE DEF p
  <2>4. Coming(events'[t], w, k) <=> (Coming(events[t], w, k) \/ Coming(p, w, k))
    BY <2>2, <2>3, ComingBehind
  <2> QED
    BY <2>4 DEF p, echo
<1>4. ASSUME NEW t \in Subs!Sockets, NEW w, NEW k, k # n
      PROVE  ~Coming(Subs!Sent(t, n, change, FALSE), w, k)
  <2> DEFINE echo == FALSE
             p == Subs!Sent(t, n, change, echo)
  <2>1. echo \in BOOLEAN
    OBVIOUS
  <2> HIDE DEF echo
  <2>2. p \in Seq(TableEvent) /\ \A i \in DOMAIN p : p[i].no = n
    BY <1>2, <2>1, SentAway
  <2> HIDE DEF p
  <2>3. ~Coming(p, w, k)
    BY <1>4, <2>2 DEF Coming
  <2> QED
    BY <2>3 DEF p, echo
<1>5. ASSUME NEW c \in Subscribers, up[c]
      PROVE  Subs!Socket(c) \in Subs!Sockets /\ Subs!Stands(Subs!Socket(c)) /\ Subs!Socket(c)' = Subs!Socket(c)
  <2>1. Subs!Socket(c)' = Subs!Socket(c)
    BY <1>1 DEF Subs!Socket
  <2> QED
    BY <1>5, <2>1, LinkedSocket, OfSubscriber
<1> SUFFICES ASSUME Mishaps \cap incidents = {},
                    \A x \in stood : \A d \in descriptors[x[1]] : d[1] = x[2] => HeardAt(x, d),
                    NEW x \in stood', NEW d \in descriptors[x[1]], d[1] = x[2]
             PROVE  HeardAt(x, d)'
  BY <1>1, AsHeardMarked
<1>6. CASE x \in stood
  <2>1. x[1] \in Subscribers /\ up[x[1]] /\ x[3] \in 1..Len(made)
    BY <1>6 DEF Numbers
  <2>2. HeardAt(x, d) /\ made'[x[3]] = made[x[3]] /\ x[3] # n
    BY <1>2, <1>6, <2>1
  <2>3. SUFFICES ASSUME NEW t, t = Subs!Socket(x[1])
                 PROVE  Coming(events'[t], d[2], x[3]) <=> Coming(events[t], d[2], x[3])
    BY <1>1, <2>1, <2>2, HeardStays
  <2>4. t \in Subs!Sockets /\ Subs!Stands(t)
    BY <1>5, <2>1, <2>3
  <2> DEFINE w == d[2]
             k == x[3]
  <2>5. k # n
    BY <2>2
  <2> HIDE DEF w, k
  <2>6. ~Coming(Subs!Sent(t, n, change, FALSE), w, k)
    BY <1>4, <2>4, <2>5
  <2>7. Coming(events'[t], w, k) <=> Coming(events[t], w, k)
    BY <1>3, <2>4, <2>6
  <2> QED
    BY <2>7 DEF w, k
<1>7. ASSUME NEW c \in Subscribers, Subs!Settled(c), NEW f \in descriptors[c], x = <<c, f[1], n>>
      PROVE  HeardAt(x, d)'
  <2>1. x[1] = c /\ x[2] = f[1] /\ x[3] = n
    BY <1>7
  <2>2. d \in descriptors[c] /\ up[c]
    BY <1>7, <2>1 DEF Subs!Settled
  <2> SUFFICES ASSUME NEW s, s = Subs!Socket(c) PROVE HeardAt(x, d)'
    OBVIOUS
  <2>3. s \in Subs!Sockets /\ Subs!Stands(s) /\ Subs!Socket(c)' = s
    BY <1>5, <2>2
  <2>4. Subs!Concerns(d[2], change) <=> Coming(Subs!Sent(s, n, change, FALSE), d[2], n)
    BY <1>2, <1>7, <2>2, HeardAtOnce
  <2>5. ~Coming(events[s], d[2], n)
    <3>1. \A i \in DOMAIN events[s] : events[s][i].no # n
      BY <1>2, <2>3, EventIs DEF Numbers
    <3> QED
      BY <3>1 DEF Coming
  <2>6. <<c, x[2], n, FALSE>> \notin heard
    <3>1. <<c, x[2], n, FALSE>>[3] = n
      OBVIOUS
    <3> QED
      BY <1>2, <3>1 DEF Numbers
  <2>7. Coming(events'[s], d[2], n) <=> Coming(Subs!Sent(s, n, change, FALSE), d[2], n)
    BY <1>3, <2>3, <2>5
  <2>8. Subs!Concerns(d[2], made'[n]) <=> (<<c, x[2], n, FALSE>> \in heard' \/ Coming(events'[s], d[2], n))
    BY <1>1, <1>2, <2>4, <2>6, <2>7
  <2> QED
    BY <2>1, <2>3, <2>8 DEF HeardAt
<1> QED
  BY <1>1, <1>6, <1>7

LEMMA HeardAgain ==
  ASSUME ListenShape, Linked, Numbers, AsHeard, NEW n \in DOMAIN made, Subs!Echo(n)
  PROVE  AsHeard'
<1>1. /\ n \in Nat /\ made[n] \in Subs!Change /\ Subs!Emit(n, made[n], TRUE)
      /\ UNCHANGED <<conn, up, descriptors, made, stood, heard, incidents>>
  BY Echoes
<1>2. ASSUME NEW t \in Subs!Sockets, Subs!Stands(t), NEW w, NEW k
      PROVE  Coming(events'[t], w, k) <=> Coming(events[t], w, k)
  <2> DEFINE echo == TRUE
             p == Subs!Sent(t, n, made[n], echo)
  <2>1. echo \in BOOLEAN /\ Subs!Emit(n, made[n], echo)
    BY <1>1
  <2> HIDE DEF echo
  <2>2. events'[t] = events[t] \o p
    BY <1>1, <1>2, <2>1, SentOut
  <2>3. p \in Seq(TableEvent) /\ events[t] \in Seq(TableEvent) /\ \A i \in DOMAIN p : p[i].echo = echo
    <3>1. p = Subs!Sent(t, n, made[n], echo)
      OBVIOUS
    <3> HIDE DEF p
    <3> QED
      BY <1>1, <2>1, <3>1, SentAway, EventIs
  <2> HIDE DEF p
  <2>4. ~Coming(p, w, k)
    BY <2>3 DEF Coming, echo
  <2> QED
    BY <2>2, <2>3, <2>4, ComingBehind
<1> SUFFICES ASSUME NEW x \in stood, NEW d \in descriptors[x[1]], d[1] = x[2], HeardAt(x, d)
             PROVE  HeardAt(x, d)'
  BY <1>1, AsHeardMarked
<1>3. x[1] \in Subscribers /\ up[x[1]]
  BY DEF Numbers
<1>4. \A t : t = Subs!Socket(x[1]) => (Coming(events'[t], d[2], x[3]) <=> Coming(events[t], d[2], x[3]))
  BY <1>2, <1>3, LinkedSocket, OfSubscriber
<1> QED
  BY <1>1, <1>4, HeardStays

LEMMA AllHeard ==
  ASSUME ListenShape, Linked, OneNote, Books, Numbers, AsHeard, Subs!Next
  PROVE  AsHeard'
<1>1. ASSUME incidents \subseteq incidents', UNCHANGED <<made, heard>>, stood' \subseteq stood,
             \A x \in stood' : conn'[x[1]] = conn[x[1]],
             \A x \in stood' : \A d \in descriptors'[x[1]] : d[1] = x[2] => d \in descriptors[x[1]],
             \A x \in stood' : \A t : t = Subs!Socket(x[1]) => events'[t] = events[t]
      PROVE  AsHeard'
  <2> SUFFICES ASSUME NEW x \in stood', NEW d \in descriptors'[x[1]], d[1] = x[2],
                      \A y \in stood : \A e \in descriptors[y[1]] : e[1] = y[2] => HeardAt(y, e)
               PROVE  HeardAt(x, d)'
    BY <1>1, AsHeardMarked
  <2>1. x \in stood /\ d \in descriptors[x[1]] /\ HeardAt(x, d)
    BY <1>1
  <2> QED
    BY <1>1, <2>1, HeardStays
<1>2. \A x \in stood : x[1] \in Subscribers /\ up[x[1]] /\ Subs!Socket(x[1]) \in Subs!Sockets
  BY LinkedSocket DEF Numbers
<1>3. ASSUME NEW c \in Subscribers, NEW w \in Subs!Wanted, Subs!Subscribe(c, w) PROVE AsHeard'
  <2>1. /\ UNCHANGED <<conn, events, made, stood, heard>> /\ incidents \subseteq incidents'
        /\ descriptors'[c] = descriptors[c] \cup {<<ops + 1, w>>}
        /\ \A d \in Subscribers : d # c => descriptors'[d] = descriptors[d]
    BY <1>3, Subscribes
  <2>2. \A x \in stood : x[2] # ops + 1
    BY DEF Numbers, ListenShape, EventTypes
  <2>3. ASSUME NEW x \in stood, NEW d \in descriptors'[x[1]], d[1] = x[2] PROVE d \in descriptors[x[1]]
    <3>1. d # <<ops + 1, w>>
      BY <2>2, <2>3
    <3> QED
      BY <1>2, <2>1, <3>1
  <2> QED
    BY <1>1, <2>1, <2>3
<1>4. ASSUME NEW c \in Subscribers, NEW d \in descriptors[c], Subs!Unsubscribe(c, d) PROVE AsHeard'
  <2>1. /\ UNCHANGED <<conn, events, made, heard, incidents>> /\ stood' \subseteq stood
        /\ \A e \in Subscribers : descriptors'[e] \subseteq descriptors[e]
    BY <1>4, Unsubscribes
  <2> QED
    BY <1>1, <1>2, <2>1
<1>5. ASSUME NEW c \in Subscribers, Subs!Connect(c) PROVE AsHeard'
  <2>1. /\ ~up[c] /\ \A d \in Subscribers : d # c => conn'[d] = conn[d]
        /\ UNCHANGED <<descriptors, events, made, stood, heard, incidents>>
    BY <1>5, Links
  <2> QED
    BY <1>1, <1>2, <2>1
<1>6. ASSUME NEW c \in Subscribers, Subs!Break(c) PROVE AsHeard'
  <2>1. /\ \A t \in Subs!Sockets : t # Subs!Socket(c) => events'[t] = events[t]
        /\ stood' = {x \in stood : x[1] # c}
        /\ UNCHANGED <<conn, descriptors, made, heard, incidents>>
    BY <1>6, Breaks
  <2>2. \A x \in stood' : \A t : t = Subs!Socket(x[1]) => events'[t] = events[t]
    BY <1>2, <2>1, OfSubscriber
  <2> QED
    BY <1>1, <2>1, <2>2
<1>7. ASSUME NEW s \in Subs!Sockets, Subs!Take(s) PROVE AsHeard'
  BY <1>1, <1>7, Takes
<1>8. ASSUME NEW s \in Subs!Sockets, Subs!Disconnect(s) PROVE AsHeard'
  BY <1>1, <1>8, Goes
<1>9. ASSUME NEW s \in Subs!Sockets, NEW i \in DOMAIN verifying[s], Subs!Note(s, i) \/ Subs!Deny(s, i)
      PROVE  AsHeard'
  BY <1>1, <1>9, Verified
<1> QED
  BY <1>3, <1>4, <1>5, <1>6, <1>7, <1>8, <1>9, HearingAll, HeardOf, HeardAgain, ListenSides, Zenon
     DEF Callers, Servers, Makers

ListenInv ==
  ListenShape /\ Linked /\ Unlinked /\ Forgotten /\ OneNote /\ Books /\ Numbers /\ OnceOnly /\ AsHeard

LEMMA ListenInit == Subs!Init => ListenInv
<1> SUFFICES ASSUME Subs!Init PROVE ListenInv
  OBVIOUS
<1>1. <<>> \in Seq(Asking) /\ <<>> \in Seq(TableEvent) /\ <<>> \in Seq(Subs!Wanted) /\ <<>> \in Seq(Subs!Change)
      /\ 0 \in 0..MaxConns
  BY FeedsAssumption
<1>2. ListenShape
  BY <1>1 DEF Subs!Init, ListenShape, ListenTypes, EventTypes
<1>3. Linked /\ Unlinked /\ Forgotten /\ OneNote
  BY DEF Subs!Init, Linked, Unlinked, Forgotten, OneNote
<1>4. \A c \in Subscribers : Subs!Wants(c) = {} /\ ~up[c] /\ descriptors[c] = {}
  BY DEF Subs!Init, Subs!Wants
<1>5. Books
  BY <1>4 DEF Books, BookAt, WantsOf, Consistent
<1>6. Numbers
  BY <1>4 DEF Subs!Init, Numbers, NumbersOf
<1>7. OnceOnly
  BY <1>4 DEF Subs!Init, OnceOnly, OnceAt
<1>8. AsHeard
  BY DEF Subs!Init, AsHeard
<1> QED
  BY <1>2, <1>3, <1>5, <1>6, <1>7, <1>8 DEF ListenInv

LEMMA ListenNext == ListenInv /\ [Subs!Next]_(Subs!vars) => ListenInv'
<1> SUFFICES ASSUME ListenInv, [Subs!Next]_(Subs!vars) PROVE ListenInv'
  OBVIOUS
<1>1. CASE Subs!Next
  <2>1. ListenShape' /\ Linked' /\ Unlinked' /\ Forgotten' /\ OneNote'
    BY <1>1, Linking, Noting DEF ListenInv
  <2>2. Books' /\ Numbers'
    BY <1>1, Booking, Numbering DEF ListenInv
  <2>3. OnceOnly' /\ AsHeard'
    BY <1>1, Once, AllHeard DEF ListenInv
  <2> QED
    BY <2>1, <2>2, <2>3 DEF ListenInv
<1>2. CASE UNCHANGED Subs!vars
  <2>1. UNCHANGED <<conn, up, descriptors, buffer, alive, noted, requests, verifying, events, made, stood,
                    heard, repeated, ops, incidents>>
    BY <1>2 DEF Subs!vars, Subs!sdk, Subs!server, Subs!ghosts
  <2>2. ListenShape' /\ Linked' /\ Unlinked' /\ Forgotten' /\ OneNote'
    BY <2>1 DEF ListenInv, ListenShape, ListenTypes, EventTypes, Linked, Unlinked, Forgotten, OneNote, Subs!Socket
  <2>3. Books'
    BY <2>1 DEF ListenInv, Books, BookAt, Held, Subs!Wants, Subs!Socket
  <2>4. Numbers' /\ OnceOnly'
    BY <2>1 DEF ListenInv, Numbers, NumbersOf, OnceOnly, OnceAt, Subs!Socket
  <2>5. AsHeard'
    BY <2>1 DEF ListenInv, AsHeard, HeardAt, Subs!Socket
  <2> QED
    BY <2>2, <2>3, <2>4, <2>5 DEF ListenInv
<1> QED
  BY <1>1, <1>2

\* When all is quiet, what is held is what is noted, and nothing is on its way.
LEMMA ListenHold ==
  ASSUME ListenInv
  PROVE  Subs!SubscriptionsStand /\ Subs!EachChangeOnce
<1>1. ASSUME Subs!Quiet, NEW c \in Subscribers, up[c], NEW s, s = Subs!Socket(c)
      PROVE  s \in Subs!Sockets /\ requests[s] = <<>> /\ events[s] = <<>> /\ Held(s) = noted[s]
  <2>1. s \in Subs!Sockets
    BY <1>1, LinkedSocket DEF ListenInv
  <2>2. requests[s] = <<>> /\ events[s] = <<>> /\ verifying[s] = <<>>
    BY <1>1, <2>1 DEF Subs!Quiet
  <2> QED
    BY <2>1, <2>2 DEF Held
<1>2. \A held, w : OpenAt(held, <<>>, w, Len(<<>>) + 1) <=> w \in held
  BY DEF OpenAt
<1>3. ASSUME Subs!Quiet, Subs!Clear({"overwritten", "crossed", "denied"}), NEW c \in Subscribers, up[c]
      PROVE  /\ Subs!Wants(c) \subseteq noted[Subs!Socket(c)]
             /\ \A w \in noted[Subs!Socket(c)] : w.event # "broadcast" => w \in Subs!Wants(c)
  <2> SUFFICES ASSUME NEW s, s = Subs!Socket(c)
               PROVE  Subs!Wants(c) \subseteq noted[s]
                      /\ \A w \in noted[s] : w.event # "broadcast" => w \in Subs!Wants(c)
    OBVIOUS
  <2>1. s \in Subs!Sockets /\ BookOf(noted[s], <<>>, Subs!Wants(c), incidents)
    BY <1>1, <1>3 DEF ListenInv, Books, BookAt
  <2>2. AllAsked(noted[s], <<>>, Subs!Wants(c)) /\ OnlyAsked(noted[s], <<>>, Subs!Wants(c))
    <3>1. "crossed" \notin incidents /\ {"overwritten", "crossed", "denied"} \cap incidents = {}
      BY <1>3 DEF Subs!Clear
    <3> QED
      BY <2>1, <3>1 DEF BookOf
  <2>3. noted[s] \subseteq Subs!Wanted
    BY <2>1 DEF ListenInv, ListenShape, ListenTypes
  <2> QED
    BY <1>2, <2>2, <2>3 DEF AllAsked, OnlyAsked
<1>4. Subs!SubscriptionsStand
  BY <1>3 DEF ListenInv, Forgotten, Subs!SubscriptionsStand, Subs!Clear
<1>5. Subs!Clear({"doubled", "crossed"}) => repeated = {}
  BY DEF ListenInv, OnceOnly, Subs!Clear
<1>6. ASSUME Subs!Quiet, Subs!Clear({"overwritten", "doubled", "crossed", "denied"}),
             NEW x \in stood, NEW d \in descriptors[x[1]], d[1] = x[2]
      PROVE  <<x[1], x[2], x[3], FALSE>> \in heard <=> Subs!Concerns(d[2], made[x[3]])
  <2>1. HeardAt(x, d)
    BY <1>6 DEF ListenInv, AsHeard, Mishaps, Subs!Clear
  <2>2. x[1] \in Subscribers /\ up[x[1]]
    BY DEF ListenInv, Numbers
  <2>3. ~Coming(events[Subs!Socket(x[1])], d[2], x[3])
    <3> SUFFICES ASSUME NEW s, s = Subs!Socket(x[1]) PROVE ~Coming(events[s], d[2], x[3])
      OBVIOUS
    <3> QED
      BY <1>1, <1>6, <2>2 DEF Coming
  <2> QED
    BY <2>1, <2>3 DEF HeardAt
<1>7. Subs!EachChangeOnce
  BY <1>5, <1>6 DEF Subs!EachChangeOnce
<1> QED
  BY <1>4, <1>7

-----------------------------------------------------------------------------
(* The theorems.                                                            *)

FeedsInv ==
  /\ part \in {"presence", "subscriptions", "webhooks", "table"}
  /\ part = "presence" => RoomsInv
  /\ part = "subscriptions" => ListenInv
  /\ part = "webhooks" => HooksInv

LEMMA FeedsStarts == Init => FeedsInv
<1> SUFFICES ASSUME Init PROVE FeedsInv
  OBVIOUS
<1>1. CASE part = "presence" /\ Rooms!Init
  BY <1>1, RoomsInit DEF FeedsInv
<1>2. CASE part = "subscriptions" /\ Subs!Init
  BY <1>2, ListenInit DEF FeedsInv
<1>3. CASE part = "webhooks" /\ Sends!Init
  BY <1>3, HooksInit DEF FeedsInv
<1>4. CASE part = "table" /\ Table!Init
  BY <1>4 DEF FeedsInv
<1> QED
  BY <1>1, <1>2, <1>3, <1>4, Zenon DEF Init

\* A step of one part, or none, is one of what the part is about.
LEMMA FeedsGoesOn == FeedsInv /\ [Next]_vars => FeedsInv'
<1> SUFFICES ASSUME FeedsInv, [Next]_vars PROVE FeedsInv'
  OBVIOUS
<1>1. \/ UNCHANGED vars
      \/ part = "presence" /\ Rooms!Next /\ UNCHANGED part
      \/ part = "subscriptions" /\ Subs!Next /\ UNCHANGED part
      \/ part = "webhooks" /\ Sends!Next /\ UNCHANGED part
      \/ part = "table" /\ Table!Next /\ UNCHANGED part
  BY Zenon DEF Next
<1>2. /\ UNCHANGED vars => UNCHANGED part
      /\ UNCHANGED vars => UNCHANGED Rooms!vars
      /\ UNCHANGED vars => UNCHANGED Subs!vars
      /\ UNCHANGED vars => UNCHANGED Sends!vars
  BY DEF vars, presence, listening, sockets, hooks, table, Rooms!vars, Rooms!server, Rooms!sdk,
         Subs!vars, Subs!sdk, Subs!server, Subs!ghosts, Sends!vars, Sends!redis, Sends!worker,
         Sends!handlers, Sends!console, Sends!emitters, Sends!past
<1>3. part' = part
  BY <1>1, <1>2
<1>4. CASE part = "presence"
  <2>1. RoomsInv /\ [Rooms!Next]_(Rooms!vars) /\ part' = "presence"
    BY <1>1, <1>2, <1>4 DEF FeedsInv
  <2>2. RoomsInv'
    BY <2>1, RoomsNext
  <2> QED
    BY <2>1, <2>2 DEF FeedsInv
<1>5. CASE part = "webhooks"
  <2>1. HooksInv /\ [Sends!Next]_(Sends!vars) /\ part' = "webhooks"
    BY <1>1, <1>2, <1>5 DEF FeedsInv
  <2>2. HooksInv'
    BY <2>1, HooksNext
  <2> QED
    BY <2>1, <2>2 DEF FeedsInv
<1>6. CASE part = "subscriptions"
  <2>1. ListenInv /\ [Subs!Next]_(Subs!vars) /\ part' = "subscriptions"
    BY <1>1, <1>2, <1>6 DEF FeedsInv
  <2>2. ListenInv'
    BY <2>1, ListenNext
  <2> QED
    BY <2>1, <2>2 DEF FeedsInv
<1>7. CASE part = "table"
  BY <1>3, <1>7 DEF FeedsInv
<1> QED
  BY <1>4, <1>5, <1>6, <1>7 DEF FeedsInv

THEOREM FeedsInvariant == Spec => []FeedsInv
  BY FeedsStarts, FeedsGoesOn, PTL DEF Spec

\* Whoever is present is connected, and when all is quiet a client is present as those it tracks
\* (RealtimeService.trackPresence, removeSocketPresenceFromRoom, disconnect), for any number of
\* clients and requests, unless verifications came late or out of order or failed.
THEOREM PresentAsTheyTrack == Spec => []PresenceTrue
<1>1. FeedsInv => PresenceTrue
  BY RoomsHold DEF FeedsInv, PresenceTrue
<1> QED
  BY <1>1, FeedsInvariant, PTL

\* A subscriber's view, from one snapshot and the diffs since (presence_state, presence_diff), comes
\* to what the server has, over reconnections and restarts, whatever was on its way.
THEOREM ViewsComeTrue == Spec => []ViewsConverge
<1>1. FeedsInv => ViewsConverge
  BY RoomsHold DEF FeedsInv, ViewsConverge
<1> QED
  BY <1>1, FeedsInvariant, PTL

\* When all is quiet the server has noted for a client's socket what its callbacks are for, and
\* nothing for one that has gone (RealtimeService.storeSubscription, RealtimeClient's calls), for any
\* number of clients, connections and calls, unless calls clashed or verifications came out of order.
THEOREM CallbacksNoted == Spec => []SubscriptionsStand
<1>1. FeedsInv => SubscriptionsStand
  BY ListenHold DEF FeedsInv, SubscriptionsStand
<1> QED
  BY <1>1, FeedsInvariant, PTL

\* No callback hears a change twice from one source, and when all is quiet it has heard from the
\* API just the changes that concern it, of those made while it stood
\* (RealtimeService.emitTableEvent, RealtimeClient's onAny).
THEOREM HeardOnce == Spec => []EachChangeOnce
<1>1. FeedsInv => EachChangeOnce
  BY ListenHold DEF FeedsInv, EachChangeOnce
<1> QED
  BY <1>1, FeedsInvariant, PTL

\* However jobs, retries and saves of the list cross (WebhookService.deliver, saveWebhooks), a
\* receiver is given a change twice only where its answer was lost.
THEOREM GivenOnce == Spec => []OnceUnlessLost
<1>1. FeedsInv => OnceUnlessLost
  BY HooksHold DEF FeedsInv, OnceUnlessLost
<1> QED
  BY <1>1, FeedsInvariant, PTL

\* Unless the list was saved over a change made since it was read (WebhookService.saveWebhooks), a
\* webhook's totals are what was sent, and its settings what was last set.
THEOREM TotalsAndSettingsStand == Spec => []HooksTruthful
<1>1. FeedsInv => HooksTruthful
  BY HooksHold DEF FeedsInv, HooksTruthful
<1> QED
  BY <1>1, FeedsInvariant, PTL

\* Until a replay rewrites the list, the dead letters are the newest, newest first, and no more
\* than are kept and about to be trimmed (WebhookService.recordDeadLetter), for any cap.
THEOREM NewestLettersKept == Spec => []LettersInOrder
<1>1. FeedsInv => LettersInOrder
  BY HooksHold DEF FeedsInv, LettersInOrder
<1> QED
  BY <1>1, FeedsInvariant, PTL
=============================================================================
