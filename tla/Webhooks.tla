------------------------------ MODULE Webhooks ------------------------------
(***************************************************************************)
(* The webhooks of one project.  A row change becomes one BullMQ job per   *)
(* enabled config; the queue's worker posts it and counts the outcome in   *)
(* the config; a job that fails for good becomes a dead letter, which the  *)
(* operator may replay.  The configs are one Redis value, read and saved   *)
(* whole, and the dead letters one Redis list, by actors that interleave   *)
(* between any two awaited calls: the worker, the handlers of its `failed' *)
(* event (which nobody awaits), the operator's routes, and the writers     *)
(* that announce their row changes.                                        *)
(***************************************************************************)
EXTENDS Naturals, Sequences, SequencesExt

CONSTANTS
  Hooks,        \* ids of webhook configs
  Existing,     \* those that exist when a run starts
  Changes,      \* row changes
  Attempts,     \* attempts of a delivery job (5)
  Cap,          \* dead letters kept (100)
  MaxOps,       \* bound: calls of the operator
  MaxMishaps    \* bound: Redis failures, lost answers and crashes

ASSUME WebhooksAssumption ==
  /\ Existing \subseteq Hooks
  /\ Attempts \in Nat \ {0} /\ Cap \in Nat \ {0}
  /\ MaxOps \in Nat /\ MaxMishaps \in Nat

Delivery == Hooks \X Changes                 \* what a job carries
Job      == Delivery \X (1..Attempts)        \* and the attempts it has left
Handler  == Delivery \X {"config", "push"}
Actors   == {"worker", "operator"}

\* edit: the operator's call that last set it; good, bad: totalSuccesses, totalFailures.
Config == [on : BOOLEAN, edit : 0..MaxOps, good : Nat, bad : Nat]
Absent == [edit |-> "absent"]
Setting == [on : BOOLEAN, edit : 0..MaxOps]
Gone == [edit |-> "gone"]
Configs == [Hooks -> Config \cup {Absent}]
Letter == [of : Delivery, at : Nat]          \* at: failedAt
NoJob == <<>>
NoLetter == [of |-> <<>>, at |-> 0]
NoConfigs == [h \in Hooks |-> Absent]

VARIABLES
  configs,   \* project:<id>:webhooks
  letters,   \* project:<id>:webhooks:dead, its head first
  queued,    \* how many of each job wait, or are delayed
  running,   \* the job the worker has
  handling,  \* how many handlers of the failed event are at each awaited call
  trimming,  \* and how many at the last, the same for all
  pc,        \* the awaited call the worker and the operator are at
  copy,      \* the configs as each of them read them
  posted,    \* how the worker's POST ended
  asked,     \* the operator's call: what it is and on which config
  replaying, \* the dead letter being replayed, and the list as removeDeadLetter read it
  announced, \* the row changes whose announcement has begun
  adding,    \* the configs each of them must still be queued for
  \* The rest is not in the code.
  wanted,    \* what the operator last made of each config
  sent,      \* how many POSTs of each config the worker saw succeed and fail
  owed,      \* the deliveries queued
  got,       \* how often the receiver accepted each of them
  excused,   \* deliveries dropped in one of the ways the code has
  now, ops, mishaps,
  incidents  \* the kinds of mishap that have happened

redis   == <<configs, letters, queued>>
worker  == <<running, posted>>
console == <<asked, replaying>>
emitters == <<announced, adding>>
past    == <<wanted, sent, owed, got, excused>>
handlers == <<handling, trimming>>
vars    == <<redis, worker, handlers, pc, copy, console, emitters, past, now, ops,
             mishaps, incidents>>

Incidents == {
  "stale",      \* configs were saved over a change made since they were read
  "lost",       \* the receiver accepted a POST and its answer was lost
  "fault",      \* a Redis call failed
  "crash",      \* the API process died
  "reversed"}   \* a replay put two letters or more back

TypeOK ==
  /\ configs \in Configs
  /\ letters \in Seq(Letter)
  /\ queued \in [Job -> Nat]
  /\ running \in Job \cup {NoJob}
  /\ handling \in [Handler -> Nat] /\ trimming \in Nat
  /\ pc \in [Actors -> {"idle", "config", "post", "list", "save", "log",
                        "find", "add", "range", "exec"}]
  /\ copy \in [Actors -> Configs]
  /\ posted \in {"none", "good", "bad"}
  /\ asked \in [what : {"none", "create", "update", "delete", "replay"}, hook : Hooks,
                on : BOOLEAN]
  /\ replaying \in [letter : Letter \cup {NoLetter}, list : Seq(Letter)]
  /\ announced \subseteq Changes /\ adding \in [Changes -> SUBSET Hooks]
  /\ wanted \in [Hooks -> Setting \cup {Absent, Gone}]
  /\ sent \in [Hooks -> [good : Nat, bad : Nat]]
  /\ owed \subseteq Delivery /\ excused \subseteq Delivery
  /\ got \in [Delivery -> Nat]
  /\ now \in Nat /\ ops \in 0..MaxOps /\ mishaps \in 0..MaxMishaps
  /\ incidents \subseteq Incidents
  /\ pc["worker"] # "idle" <=> running # NoJob

Fresh == [on |-> TRUE, edit |-> 0, good |-> 0, bad |-> 0]
NoCall == [what |-> "none", hook |-> CHOOSE h \in Hooks : TRUE, on |-> FALSE]
NoReplay == [letter |-> NoLetter, list |-> <<>>]

Init ==
  /\ configs = [h \in Hooks |-> IF h \in Existing THEN Fresh ELSE Absent]
  /\ letters = <<>>
  /\ queued = [j \in Job |-> 0]
  /\ running = NoJob
  /\ handling = [x \in Handler |-> 0] /\ trimming = 0
  /\ pc = [a \in Actors |-> "idle"]
  /\ copy = [a \in Actors |-> NoConfigs]
  /\ posted = "none"
  /\ asked = NoCall
  /\ replaying = NoReplay
  /\ announced = {} /\ adding = [c \in Changes |-> {}]
  /\ wanted = [h \in Hooks |-> IF h \in Existing THEN [on |-> TRUE, edit |-> 0] ELSE Absent]
  /\ sent = [h \in Hooks |-> [good |-> 0, bad |-> 0]]
  /\ owed = {} /\ excused = {}
  /\ got = [d \in Delivery |-> 0]
  /\ now = 0 /\ ops = 0 /\ mishaps = 0
  /\ incidents = {}

Goto(a, label) == pc' = [pc EXCEPT ![a] = label]
Mark(kinds) == incidents' = incidents \cup kinds
Excuse(ds) == excused' = excused \cup ds
Of(list) == {list[i].of : i \in DOMAIN list}
\* The deliveries of the letters a step loses, other than these.
Dropped(ls) == {l.of : l \in {letters[i] : i \in DOMAIN letters}
                              \ (ls \cup {letters'[i] : i \in DOMAIN letters'})}

\* listConfigs, by an actor that will save what it makes of them.
ReadConfigs(a) == copy' = [copy EXCEPT ![a] = configs]

\* saveConfigs
SaveConfigs(a, h, config) ==
  /\ configs' = [copy[a] EXCEPT ![h] = config]
  /\ Mark(IF configs # copy[a] THEN {"stale"} ELSE {})
  /\ copy' = [copy EXCEPT ![a] = NoConfigs]

-----------------------------------------------------------------------------
(* A row change is announced.                                               *)

\* enqueueDatabaseChange reads the configs.
Announce(c) ==
  /\ c \notin announced
  /\ announced' = announced \cup {c}
  /\ adding' = [adding EXCEPT ![c] = {h \in Hooks : configs[h] # Absent /\ configs[h].on}]
  /\ UNCHANGED <<redis, worker, handlers, pc, copy, console, past, now, ops, mishaps, incidents>>

\* queue.add, once per config that was enabled.
Enqueue(c, h) ==
  /\ h \in adding[c]
  /\ adding' = [adding EXCEPT ![c] = @ \ {h}]
  /\ queued' = [queued EXCEPT ![<<<<h, c>>, Attempts>>] = @ + 1]
  /\ owed' = owed \cup {<<h, c>>}
  /\ UNCHANGED <<configs, letters, worker, announced, handlers, pc, copy, console, wanted, sent, got,
                 excused, now, ops, mishaps, incidents>>

-----------------------------------------------------------------------------
(* The worker.                                                              *)

Hook == running[1][1]

\* BullMQ hands the worker a job that is due, one at a time.
Take(j) ==
  /\ pc["worker"] = "idle"
  /\ queued[j] > 0
  /\ queued' = [queued EXCEPT ![j] = @ - 1]
  /\ running' = j
  /\ Goto("worker", "config")
  /\ UNCHANGED <<configs, letters, posted, handlers, copy, console, emitters, past, now, ops,
                 mishaps, incidents>>

\* Mutant of Finish: the job is tried again whether or not its delivery threw.
FinishTryingAgain(threw) ==
  /\ Goto("worker", "idle")
  /\ running' = NoJob
  /\ posted' = "none"
  /\ IF running[2] > 1
     THEN queued' = [queued EXCEPT ![<<running[1], running[2] - 1>>] = @ + 1]
     ELSE UNCHANGED queued
  /\ IF threw /\ running[2] = 1
     THEN handling' = [handling EXCEPT ![<<running[1], "config">>] = @ + 1]
     ELSE UNCHANGED handling

\* Mutant of Finish: attemptsMade <= attempts, so that no job ever failed for good.
FinishForgotten(threw) ==
  /\ Goto("worker", "idle")
  /\ running' = NoJob
  /\ posted' = "none"
  /\ IF threw /\ running[2] > 1
     THEN queued' = [queued EXCEPT ![<<running[1], running[2] - 1>>] = @ + 1]
     ELSE UNCHANGED queued
  /\ UNCHANGED handling

\* deliverJob returned or threw.  BullMQ tries the job again while it has attempts left;
\* the failed event leads to a dead letter when it has none.
Finish(threw) ==
  /\ Goto("worker", "idle")
  /\ running' = NoJob
  /\ posted' = "none"
  /\ IF threw /\ running[2] > 1
     THEN queued' = [queued EXCEPT ![<<running[1], running[2] - 1>>] = @ + 1]
     ELSE UNCHANGED queued
  /\ IF threw /\ running[2] = 1
     THEN handling' = [handling EXCEPT ![<<running[1], "config">>] = @ + 1]
     ELSE UNCHANGED handling

\* getConfig: a delivery for a config that is gone or disabled is dropped.
GetConfig ==
  /\ pc["worker"] = "config"
  /\ IF configs[Hook] = Absent \/ ~configs[Hook].on
     THEN Finish(FALSE) /\ Excuse({running[1]})
     ELSE Goto("worker", "post") /\ UNCHANGED <<queued, worker, handling, excused>>
  /\ UNCHANGED <<configs, letters, trimming, copy, console, emitters, wanted, sent, owed, got, now, ops,
                 mishaps, incidents>>

\* fetch: the receiver accepts the POST or refuses it.
Post(result) ==
  /\ pc["worker"] = "post"
  /\ posted' = result
  /\ got' = IF result = "good" THEN [got EXCEPT ![running[1]] = @ + 1] ELSE got
  /\ sent' = IF result = "good" THEN [sent EXCEPT ![Hook].good = @ + 1]
                                ELSE [sent EXCEPT ![Hook].bad = @ + 1]
  /\ Goto("worker", "list")
  /\ UNCHANGED <<redis, running, handlers, copy, console, emitters, wanted, owed, excused, now,
                 ops, mishaps, incidents>>

\* The receiver accepts it, and the answer is lost or comes after ten seconds.
PostLost ==
  /\ pc["worker"] = "post"
  /\ mishaps < MaxMishaps
  /\ mishaps' = mishaps + 1
  /\ posted' = "bad"
  /\ got' = [got EXCEPT ![running[1]] = @ + 1]
  /\ sent' = [sent EXCEPT ![Hook].bad = @ + 1]
  /\ Goto("worker", "list")
  /\ Mark({"lost"})
  /\ UNCHANGED <<redis, running, handlers, copy, console, emitters, wanted, owed, excused, now, ops>>

\* updateConfigMetrics: a config that is gone is left alone.
ListConfigs(a, h) ==
  IF configs[h] = Absent
  THEN Goto(a, "log") /\ UNCHANGED copy
  ELSE Goto(a, "save") /\ ReadConfigs(a)

\* markDeliverySuccess, markDeliveryFailure
Counted(config) ==
  IF posted = "good" THEN [config EXCEPT !.good = @ + 1] ELSE [config EXCEPT !.bad = @ + 1]

WorkerLists ==
  /\ pc["worker"] = "list"
  /\ ListConfigs("worker", Hook)
  /\ UNCHANGED <<redis, worker, handlers, console, emitters, past, now, ops, mishaps, incidents>>

WorkerSaves ==
  /\ pc["worker"] = "save"
  /\ SaveConfigs("worker", Hook, Counted(copy["worker"][Hook]))
  /\ Goto("worker", "log")
  /\ UNCHANGED <<letters, queued, worker, handlers, console, emitters, past, now, ops, mishaps>>

\* recordLog; then a failed delivery throws.
WorkerLogs ==
  /\ pc["worker"] = "log"
  /\ Finish(posted = "bad")
  /\ UNCHANGED <<configs, letters, trimming, copy, console, emitters, past, now, ops, mishaps, incidents>>

\* A Redis call of deliverJob fails.  Inside the `try' the delivery becomes a failure,
\* whatever the receiver answered; inside the `catch', or before, the job just throws.
WorkerFault ==
  /\ pc["worker"] \in {"config", "list", "save", "log"}
  /\ mishaps < MaxMishaps
  /\ mishaps' = mishaps + 1
  /\ IF posted = "good"
     THEN /\ posted' = "bad"
          /\ Goto("worker", "list")
          /\ UNCHANGED <<queued, running, handling>>
     ELSE Finish(TRUE)
  /\ copy' = [copy EXCEPT !["worker"] = NoConfigs]
  /\ Mark({"fault"})
  /\ UNCHANGED <<configs, letters, trimming, console, emitters, past, now, ops>>

-----------------------------------------------------------------------------
(* recordDeadLetter, from a handler of the failed event.                    *)

End(d, from) == handling' = [handling EXCEPT ![<<d, from>>] = @ - 1]

HandlerGets(d) ==
  /\ handling[<<d, "config">>] > 0
  /\ IF configs[d[1]] = Absent
     THEN End(d, "config") /\ Excuse({d})
     ELSE /\ handling' = [handling EXCEPT ![<<d, "config">>] = @ - 1, ![<<d, "push">>] = @ + 1]
          /\ UNCHANGED excused
  /\ UNCHANGED <<redis, worker, trimming, pc, copy, console, emitters, wanted, sent, owed, got,
                 now, ops, mishaps, incidents>>

\* Mutant of Push: RPUSH.
PushLast(letter) == letters' = Append(letters, letter)

\* LPUSH
Push(letter) == letters' = <<letter>> \o letters

HandlerPushes(d) ==
  /\ handling[<<d, "push">>] > 0
  /\ now' = now + 1
  /\ Push([of |-> d, at |-> now'])
  /\ End(d, "push") /\ trimming' = trimming + 1
  /\ UNCHANGED <<configs, queued, worker, pc, copy, console, emitters, past, ops, mishaps, incidents>>

\* LTRIM 0 99
HandlerTrims ==
  /\ trimming > 0
  /\ trimming' = trimming - 1
  /\ letters' = IF Len(letters) > Cap THEN SubSeq(letters, 1, Cap) ELSE letters
  /\ Excuse(Dropped({}))
  /\ UNCHANGED <<configs, queued, worker, handling, pc, copy, console, emitters, wanted, sent,
                 owed, got, now, ops, mishaps, incidents>>

\* A Redis call of a handler fails: the rejection has no one to go to.
HandlerMishap ==
  /\ mishaps < MaxMishaps
  /\ mishaps' = mishaps + 1
  /\ Mark({"fault"})
  /\ UNCHANGED <<redis, worker, pc, copy, console, emitters, wanted, sent, owed, got, now, ops>>

HandlerFault(d) ==
  /\ HandlerMishap
  /\ \E at \in {"config", "push"} : handling[<<d, at>>] > 0 /\ End(d, at)
  /\ Excuse({d})
  /\ UNCHANGED trimming

TrimFault ==
  /\ HandlerMishap
  /\ trimming > 0 /\ trimming' = trimming - 1
  /\ UNCHANGED <<handling, excused>>

-----------------------------------------------------------------------------
(* The operator.                                                            *)

OperatorIdle == pc["operator"] = "idle" /\ ops < MaxOps /\ ops' = ops + 1

\* createConfig, updateConfig or deleteConfig reads the list; the last two return when
\* the config is not in it.  The id of a new config is a new one.
Ask(what, h, on) ==
  /\ OperatorIdle
  /\ CASE what = "create" -> wanted[h] = Absent /\ on
       [] what = "update" -> configs[h] # Absent
       [] what = "delete" -> configs[h] # Absent /\ ~on
  /\ asked' = [what |-> what, hook |-> h, on |-> on]
  /\ ReadConfigs("operator")
  /\ Goto("operator", "save")
  /\ UNCHANGED <<redis, worker, handlers, replaying, emitters, past, now, mishaps, incidents>>

\* Mutant of Edited: an update starts from a new config.
EditedAfresh(call, config) ==
  CASE call.what \in {"create", "update"} -> [Fresh EXCEPT !.on = call.on, !.edit = ops]
    [] call.what = "delete" -> Absent
    [] call.what = "replay" -> config

\* What the call makes of a config: an update keeps its metrics, a replay all of it.
Edited(call, config) ==
  CASE call.what = "create" -> [Fresh EXCEPT !.edit = ops]
    [] call.what = "update" -> [config EXCEPT !.on = call.on, !.edit = ops]
    [] call.what = "delete" -> Absent
    [] call.what = "replay" -> config

OperatorSaves ==
  LET h == asked.hook
      config == Edited(asked, copy["operator"][h])
  IN /\ pc["operator"] = "save"
     /\ SaveConfigs("operator", h, config)
     /\ wanted' = CASE asked.what = "replay" -> wanted
                    [] asked.what = "delete" -> [wanted EXCEPT ![h] = Gone]
                    [] OTHER -> [wanted EXCEPT ![h] = [on |-> config.on, edit |-> ops]]
     /\ Goto("operator", IF asked.what = "replay" THEN "log" ELSE "idle")
     /\ asked' = IF asked.what = "replay" THEN asked ELSE NoCall
     /\ UNCHANGED <<letters, queued, worker, handlers, replaying, emitters, sent, owed, got,
                    excused, now, ops, mishaps>>

\* replayDeadLetter finds the letter,
Replay(i) ==
  /\ OperatorIdle
  /\ replaying' = [NoReplay EXCEPT !.letter = letters[i]]
  /\ asked' = [what |-> "replay", hook |-> letters[i].of[1], on |-> FALSE]
  /\ Goto("operator", "find")
  /\ UNCHANGED <<redis, worker, handlers, copy, emitters, past, now, mishaps, incidents>>

\* and its config, or throws;
FindConfig ==
  /\ pc["operator"] = "find"
  /\ IF configs[asked.hook] = Absent
     THEN Goto("operator", "idle") /\ asked' = NoCall /\ replaying' = NoReplay
     ELSE Goto("operator", "add") /\ UNCHANGED console
  /\ UNCHANGED <<redis, worker, handlers, copy, emitters, past, now, ops, mishaps, incidents>>

\* adds a job with one attempt,
AddReplay ==
  /\ pc["operator"] = "add"
  /\ queued' = [queued EXCEPT ![<<replaying.letter.of, 1>>] = @ + 1]
  /\ Goto("operator", "range")
  /\ UNCHANGED <<configs, letters, worker, handlers, copy, console, emitters, past, now, ops,
                 mishaps, incidents>>

\* removes the letter, by reading the list (LRANGE)
ReadLetters ==
  /\ pc["operator"] = "range"
  /\ replaying' = [replaying EXCEPT !.list = letters]
  /\ Goto("operator", "exec")
  /\ UNCHANGED <<redis, worker, handlers, copy, asked, emitters, past, now, ops, mishaps, incidents>>

\* Letters have ids of their own: no more than one is the letter that is looked for.
Without(list, letter) ==
  IF \E i \in DOMAIN list : list[i] = letter
  THEN RemoveAt(list, CHOOSE i \in DOMAIN list : list[i] = letter) ELSE list

\* and writing it back without the letter, in reverse (MULTI, DEL, RPUSH, EXEC),
WriteLetters ==
  LET retained == Without(replaying.list, replaying.letter)
  IN /\ pc["operator"] = "exec"
     /\ letters' = Reverse(retained)
     /\ Excuse(Dropped({replaying.letter}))
     /\ Mark(IF Len(retained) > 1 THEN {"reversed"} ELSE {})
     /\ replaying' = NoReplay
     /\ Goto("operator", "list")
     /\ UNCHANGED <<configs, queued, worker, handlers, copy, asked, emitters, wanted, sent, owed,
                    got, now, ops, mishaps>>

\* and stamps the config, if it is still there.
OperatorLists ==
  /\ pc["operator"] = "list"
  /\ ListConfigs("operator", asked.hook)
  /\ UNCHANGED <<redis, worker, handlers, console, emitters, past, now, ops, mishaps, incidents>>

OperatorLogs ==
  /\ pc["operator"] = "log"
  /\ Goto("operator", "idle")
  /\ asked' = NoCall
  /\ UNCHANGED <<redis, worker, handlers, copy, replaying, emitters, past, now, ops, mishaps, incidents>>

\* A Redis call of the operator's route fails: the route throws.
OperatorFault ==
  /\ pc["operator"] # "idle"
  /\ mishaps < MaxMishaps
  /\ mishaps' = mishaps + 1
  /\ Goto("operator", "idle")
  /\ copy' = [copy EXCEPT !["operator"] = NoConfigs]
  /\ asked' = NoCall /\ replaying' = NoReplay
  /\ Mark({"fault"})
  /\ UNCHANGED <<redis, worker, handlers, emitters, past, now, ops>>

-----------------------------------------------------------------------------
\* The API process dies and comes back: the job it had stalls and is queued again.
Crash ==
  /\ mishaps < MaxMishaps
  /\ mishaps' = mishaps + 1
  /\ pc' = [a \in Actors |-> "idle"]
  /\ running' = NoJob /\ posted' = "none"
  /\ queued' = IF running = NoJob THEN queued ELSE [queued EXCEPT ![running] = @ + 1]
  /\ Excuse({x[1] : x \in {y \in Handler : handling[y] > 0}})
  /\ handling' = [x \in Handler |-> 0] /\ trimming' = 0
  /\ adding' = [c \in Changes |-> {}]
  /\ Mark({"crash"})
  /\ copy' = [a \in Actors |-> NoConfigs] /\ asked' = NoCall /\ replaying' = NoReplay
  /\ UNCHANGED <<configs, letters, announced, wanted, sent, owed, got, now, ops>>

WorkerStep ==
  \/ \E j \in Job : Take(j)
  \/ GetConfig \/ \E result \in {"good", "bad"} : Post(result)
  \/ PostLost \/ WorkerLists \/ WorkerSaves \/ WorkerLogs \/ WorkerFault

HandlerStep(d) == HandlerGets(d) \/ HandlerPushes(d) \/ HandlerFault(d)
TrimStep == HandlerTrims \/ TrimFault

OperatorStep ==
  \/ OperatorSaves \/ FindConfig \/ AddReplay \/ ReadLetters \/ WriteLetters
  \/ OperatorLists \/ OperatorLogs \/ OperatorFault

Next ==
  \/ \E c \in Changes : Announce(c) \/ \E h \in Hooks : Enqueue(c, h)
  \/ WorkerStep
  \/ \E d \in Delivery : HandlerStep(d)
  \/ TrimStep
  \/ \E what \in {"create", "update", "delete"}, h \in Hooks, on \in BOOLEAN : Ask(what, h, on)
  \/ \E i \in DOMAIN letters : Replay(i)
  \/ OperatorStep
  \/ Crash

Spec == Init /\ [][Next]_vars

\* The event loop runs every promise that can go on; the rest may never come.
Fairness ==
  /\ WF_vars(WorkerStep)
  /\ \A d \in Delivery : WF_vars(HandlerStep(d))
  /\ WF_vars(TrimStep)
  /\ WF_vars(OperatorStep)

FairSpec == Spec /\ Fairness

-----------------------------------------------------------------------------
(* Properties.                                                              *)

Spoiled(kinds) == incidents \cap kinds # {}

\* A receiver is given one change twice only after it accepted a POST whose answer or
\* bookkeeping was lost: retries and replays alone never do it.
OnceUnlessLost ==
  Spoiled({"lost", "fault", "crash"}) \/ \A d \in Delivery : got[d] <= 1

\* A config's totals are the POSTs its worker saw succeed and fail, up to the one it has
\* not saved yet, as long as nobody saved the configs over someone else's change.
Unsaved(h, kind) ==
  IF pc["worker"] \in {"list", "save"} /\ Hook = h /\ posted = kind THEN 1 ELSE 0

CountsTruthful ==
  \/ Spoiled({"stale", "fault", "crash"})
  \/ \A h \in Hooks : configs[h] # Absent =>
       /\ configs[h].good + Unsaved(h, "good") = sent[h].good
       /\ configs[h].bad + Unsaved(h, "bad") = sent[h].bad

\* What the operator last set, or deleted, stays so: deliveries, replays, failures and
\* crashes undo it only by saving the configs over a change made since they were read.
EditsStand ==
  \/ Spoiled({"stale"})
  \/ \A h \in Hooks :
       IF wanted[h] \in {Absent, Gone}
       THEN configs[h] = Absent
       ELSE configs[h] # Absent /\ configs[h].on = wanted[h].on /\ configs[h].edit = wanted[h].edit

\* The dead letters are the newest ones, newest first, and the trims in progress are all
\* that is over the cap, until a replay rewrites the list.
LettersInOrder ==
  \/ Spoiled({"reversed", "fault", "crash"})
  \/ /\ \A i, j \in DOMAIN letters : i < j => letters[i].at > letters[j].at
     /\ Len(letters) <= Cap + trimming

\* Every delivery that was queued is accepted by its receiver in the end or is a dead
\* letter, but for those the code drops: the config gone or disabled, the letter trimmed
\* or overwritten by a replay, the handler's calls cut off.
EveryDeliverySettled ==
  \A d \in Delivery : d \in owed ~> (got[d] > 0 \/ d \in Of(letters) \/ d \in excused)
=============================================================================
