------------------------------ MODULE Sessions ------------------------------
(***************************************************************************)
(* Projects and their Telegram sessions: creation and deletion with the    *)
(* four channels every project has, the pool that keeps one connection for *)
(* each project, the requests that use it, and the health checks that      *)
(* replace it.  A check that takes long runs together with the next one.   *)
(***************************************************************************)
EXTENDS Naturals

CONSTANTS
  Projects,
  Requests,   \* requests in progress together
  Checks,     \* runs of the health checks in progress together
  Providers,  \* bound: names for the pool's providers, numbers, used again
  Clients,    \* bound: and for the connections
  MaxOps,     \* bound: requests
  MaxFaults   \* bound: failures, broken connections and ends of the process

ASSUME SessionsAssumption ==
  /\ Requests \cap Checks = {}
  /\ Providers \subseteq Nat \ {0} /\ Clients \subseteq Nat \ {0}
  /\ \E f \in [Projects -> Providers] : \A x, y \in Projects : f[x] = f[y] => x = y
  /\ MaxOps \in Nat /\ MaxFaults \in Nat

Procs == Requests \cup Checks
AllChannels == 4   \* schema, users, storage_index, commit_log
Provider == [client : Clients \cup {0}, connected : BOOLEAN,
             connecting : BOOLEAN,  \* the entry's connectPromise
             floating : BOOLEAN]    \* the promise that registerProject does not wait for

VARIABLES
  \* Redis and Telegram
  recorded,  \* project:<id>
  owned,     \* owner:<id>:projects
  channels,  \* how many of a project's channels are there
  live,      \* the connections
  broken,    \* those that do not answer
  \* the process
  up,
  entry,     \* entries: the provider of each project, or 0
  provider,
  job,       \* the requests and the runs of the checks
  \* The rest is not in the code.
  issued,    \* the ids given to projects
  ops, faults,
  incidents

redis == <<recorded, owned>>
telegram == <<live, broken>>
vars == <<redis, channels, telegram, up, entry, provider, job, issued, ops, faults, incidents>>

Incidents == {
  "closed_early",  \* an entry was removed with a provider that was connecting, or another's
  "crossed",       \* a disconnection ended after the provider had its next client
  "unclosed",      \* a client failed to disconnect
  "late",          \* a request put a project into the pool that had been deleted
  "partial",       \* creation failed before createdChannels was set
  "kept",          \* creation failed after the record was written
  "undeleted",     \* a channel could not be deleted
  "cut"}           \* the process ended during a creation or a deletion

Idle == [at |-> "idle"]
NoProvider == [client |-> 0, connected |-> FALSE, connecting |-> FALSE, floating |-> FALSE]
NewProvider == [client |-> 0, connected |-> FALSE, connecting |-> TRUE, floating |-> TRUE]

TypeOK ==
  /\ recorded \subseteq Projects /\ owned \subseteq Projects
  /\ channels \in [Projects -> 0..AllChannels]
  /\ live \subseteq Clients /\ broken \subseteq live
  /\ up \in BOOLEAN
  /\ entry \in [Projects -> Providers \cup {0}]
  /\ provider \in [Providers -> Provider]
  /\ DOMAIN job = Procs
  /\ issued \subseteq Projects /\ ops \in 0..MaxOps /\ faults \in 0..MaxFaults
  /\ incidents \subseteq Incidents

\* createApp registers every project it finds, and each begins to connect.
Numbers(found) ==
  CHOOSE f \in [found -> Providers] : \A x, y \in found : f[x] = f[y] => x = y
Entries(found) == [p \in Projects |-> IF p \in found THEN Numbers(found)[p] ELSE 0]
Connecting(found) ==
  [k \in Providers |-> IF \E p \in found : Numbers(found)[p] = k
                       THEN NewProvider ELSE NoProvider]

Init ==
  /\ recorded \in SUBSET Projects /\ owned = recorded /\ issued = recorded
  /\ channels = [p \in Projects |-> IF p \in recorded THEN AllChannels ELSE 0]
  /\ live = {} /\ broken = {}
  /\ up = TRUE
  /\ entry = Entries(recorded) /\ provider = Connecting(recorded)
  /\ job = [q \in Procs |-> Idle]
  /\ ops = 0 /\ faults = 0
  /\ incidents = {}

When(condition, kind) == IF condition THEN {kind} ELSE {}
Mark(kinds) == incidents' = incidents \cup kinds
At(q, label) == up /\ job[q].at = label
Goto(q, label) == job' = [job EXCEPT ![q].at = label]
End(q) == job' = [job EXCEPT ![q] = Idle]
Fault == faults < MaxFaults /\ faults' = faults + 1

Used(k) ==
  \/ \E p \in Projects : entry[p] = k
  \/ provider[k].connecting
  \/ \E q \in Procs : job[q] # Idle /\ job[q].provider = k
FreeProviders == {k \in Providers : ~Used(k)}
FreeClients ==
  {c \in Clients : c \notin live /\ \A q \in Procs : job[q] # Idle => job[q].client # c}
FreeProvider == CHOOSE k \in FreeProviders : TRUE
FreeClient == CHOOSE c \in FreeClients : TRUE

-----------------------------------------------------------------------------
(* The pool.                                                                *)

\* Process q goes on at once with a provider that is connected, or waits for it.
Resumed(q, p, k, connected, label) ==
  [job[q] EXCEPT !.at = IF connected THEN label ELSE "waiting", !.after = label,
                 !.project = p, !.provider = k]

\* registerProject, where there is no entry: a new provider begins to connect.
Registered(p) ==
  /\ FreeProviders # {}
  /\ entry' = [entry EXCEPT ![p] = FreeProvider]
  /\ provider' = [provider EXCEPT ![FreeProvider] = NewProvider]

\* withProject, or ensureConnected: a promise to connect is there for all who wait.
Ensure(q, p, label) ==
  LET k == IF entry[p] = 0 THEN FreeProvider ELSE entry[p]
  IN /\ IF entry[p] = 0
        THEN Registered(p)
        ELSE /\ provider' = [provider EXCEPT ![k].connecting = @ \/ ~provider[k].connected]
             /\ UNCHANGED entry
     /\ job' = [job EXCEPT ![q] =
                  Resumed(q, p, k, entry[p] # 0 /\ provider[k].connected, label)]

Waiting(k) == {q \in Procs : job[q] # Idle /\ job[q].at = "waiting" /\ job[q].provider = k}

\* finally: connectPromise is null again.
Settled(pr, ok) == [pr EXCEPT !.connecting = FALSE, !.floating = FALSE, !.connected = @ \/ ok]

\* provider.connect is done, with a new client.
ConnectDone(k) ==
  /\ up /\ provider[k].connecting
  /\ FreeClients # {}
  /\ provider' = [provider EXCEPT ![k] = [Settled(@, TRUE) EXCEPT !.client = FreeClient]]
  /\ live' = live \cup {FreeClient}
  /\ job' = [q \in Procs |->
               IF q \in Waiting(k) THEN [job[q] EXCEPT !.at = job[q].after] ELSE job[q]]
  /\ UNCHANGED <<redis, channels, broken, up, entry, issued, ops, faults, incidents>>

\* The process ends: its connections do, and what it was at.
Ended ==
  /\ up' = FALSE
  /\ entry' = [p \in Projects |-> 0] /\ provider' = [k \in Providers |-> NoProvider]
  /\ live' = {} /\ broken' = {}
  /\ job' = [q \in Procs |-> Idle]
  /\ Mark(When(\E q \in Procs : job[q] # Idle
                  /\ job[q].at \in {"channel", "announce", "set", "own", "undo", "wipe", "drop"},
               "cut"))
  /\ UNCHANGED <<redis, channels, issued, ops>>

\* provider.connect fails. Those who wait for it go on with the error; the promise of
\* registerProject has nobody who does, and a rejection nobody handles ends the process.
ConnectFails(k) ==
  /\ up /\ provider[k].connecting
  /\ Fault
  /\ IF provider[k].floating
     THEN Ended
     ELSE /\ provider' = [provider EXCEPT ![k] = Settled(@, FALSE)]
          /\ job' = [q \in Procs |->
                       IF q \notin Waiting(k) THEN job[q]
                       ELSE IF q \in Requests THEN Idle
                       ELSE [job[q] EXCEPT !.at = IF job[q].after = "probe" THEN "disconnect"
                                                  ELSE "next"]]
          /\ UNCHANGED <<redis, channels, telegram, up, entry, issued, ops, incidents>>

\* provider.disconnect waits for the client,
Disconnect(q, k, after) ==
  job' = [job EXCEPT ![q].at = "disconnecting", ![q].provider = k,
                     ![q].client = provider[k].client, ![q].after = after]

\* closeProject forgets the entry when that is done, and checkProjectHealth goes on.
Resume(q) ==
  IF job[q].after = "remove"
  THEN /\ entry' = [entry EXCEPT ![job[q].project] = 0]
       /\ End(q)
  ELSE /\ job' = [job EXCEPT ![q] = [@ EXCEPT !.at = job[q].after, !.client = 0]]
       /\ UNCHANGED entry

\* (by then it may be an entry that a late request has made)
Early(q) ==
  LET k == entry[job[q].project]
  IN When(/\ job[q].after = "remove" /\ k # 0
          /\ k # job[q].provider \/ provider[k].connecting, "closed_early")

\* and then has none, whichever client it has by then.
Disconnected(q) ==
  LET k == job[q].provider
      c == job[q].client
  IN /\ At(q, "disconnecting")
     /\ live' = live \ {c} /\ broken' = broken \ {c}
     /\ provider' = [provider EXCEPT ![k].connected = FALSE]
     /\ Mark(When(provider[k].connected /\ provider[k].client # c, "crossed") \cup Early(q))
     /\ Resume(q)
     /\ UNCHANGED <<redis, channels, up, issued, ops, faults>>

DisconnectFails(q) ==
  /\ At(q, "disconnecting")
  /\ Fault
  /\ Resume(q)
  /\ Mark({"unclosed"} \cup Early(q))
  /\ UNCHANGED <<redis, channels, telegram, up, provider, issued, ops>>

-----------------------------------------------------------------------------
(* The health checks.                                                       *)

NewJob(q, label) ==
  [at |-> label, project |-> CHOOSE p \in Projects : TRUE, provider |-> 0, client |-> 0,
   after |-> "", visited |-> {}]

\* setInterval runs while there are entries, and does not wait for the last run.
Tick(c) ==
  /\ At(c, "idle")
  /\ \E p \in Projects : entry[p] # 0
  /\ job' = [job EXCEPT ![c] = NewJob(c, "next")]
  /\ UNCHANGED <<redis, channels, telegram, up, entry, provider, issued, ops, faults, incidents>>

\* runHealthChecks takes one entry after another; checkProjectHealth wants it connected,
CheckNext(c) ==
  /\ At(c, "next")
  /\ LET left == {p \in Projects : entry[p] # 0} \ job[c].visited
         p == CHOOSE x \in left : TRUE
         k == entry[p]
     IN IF left = {}
        THEN End(c) /\ UNCHANGED provider
        ELSE /\ provider' = [provider EXCEPT ![k].connecting = @ \/ ~provider[k].connected]
             /\ job' = [job EXCEPT ![c] =
                  [Resumed(c, p, k, provider[k].connected, "probe")
                     EXCEPT !.visited = @ \cup {p}]]
  /\ UNCHANGED <<redis, channels, telegram, up, entry, issued, ops, faults, incidents>>

Answers(k) == provider[k].connected /\ provider[k].client \in live \ broken

\* reads a message,
Probe(c) ==
  /\ At(c, "probe")
  /\ Goto(c, IF Answers(job[c].provider) THEN "next" ELSE "disconnect")
  /\ UNCHANGED <<redis, channels, telegram, up, entry, provider, issued, ops, faults, incidents>>

\* Mutant of Recovery: a provider that is connected is trusted to reconnect.
RecoveryTrusting(c) == Goto(c, "again")

\* catch: what does not answer is disconnected, if it is connected,
Recovery(c) ==
  IF provider[job[c].provider].connected
  THEN Disconnect(c, job[c].provider, "again")
  ELSE Goto(c, "again")

Recover(c) ==
  /\ At(c, "disconnect") /\ c \in Checks
  /\ Recovery(c)
  /\ UNCHANGED <<redis, channels, telegram, up, entry, provider, issued, ops, faults, incidents>>

\* and connected again, unless its entry is gone.
Again(c) ==
  /\ At(c, "again")
  /\ IF entry[job[c].project] = 0
     THEN Goto(c, "next") /\ UNCHANGED <<entry, provider>>
     ELSE Ensure(c, job[c].project, "next")
  /\ UNCHANGED <<redis, channels, telegram, up, issued, ops, faults, incidents>>

-----------------------------------------------------------------------------
(* Requests.                                                                *)

\* The record is read; the project may be gone when it is used.
Begin(r) ==
  \E p \in Projects, op \in {"use", "create", "delete"} :
     /\ At(r, "idle")
     /\ ops < MaxOps /\ ops' = ops + 1
     /\ IF op = "create"
        THEN p \notin issued /\ issued' = issued \cup {p}
        ELSE p \in recorded \cap owned /\ UNCHANGED issued
     /\ job' = [job EXCEPT ![r] =
          [NewJob(r, CASE op = "use" -> "enter" [] op = "create" -> "channel" [] op = "delete" -> "wipe")
             EXCEPT !.project = p]]
     /\ UNCHANGED <<redis, channels, telegram, up, entry, provider, faults, incidents>>

\* withProjectStorage
Enter(r) ==
  /\ At(r, "enter")
  /\ Ensure(r, job[r].project, "use")
  /\ Mark(When(job[r].project \notin recorded, "late"))
  /\ UNCHANGED <<redis, channels, telegram, up, issued, ops, faults>>

Use(r) ==
  /\ At(r, "use")
  /\ End(r)
  /\ UNCHANGED <<redis, channels, telegram, up, entry, provider, issued, ops, faults, incidents>>

\* createProject makes the channels, with a session of its own,
Channel(r) ==
  LET p == job[r].project
  IN /\ At(r, "channel")
     /\ channels' = [channels EXCEPT ![p] = @ + 1]
     /\ Goto(r, IF channels'[p] = AllChannels THEN "announce" ELSE "channel")
     /\ UNCHANGED <<redis, telegram, up, entry, provider, issued, ops, faults, incidents>>

\* and knows of them when all four are there;
ChannelFails(r) ==
  /\ At(r, "channel")
  /\ Fault
  /\ End(r)
  /\ Mark(When(channels[job[r].project] > 0, "partial"))
  /\ UNCHANGED <<redis, channels, telegram, up, entry, provider, issued, ops>>

\* sends the first message, writes the record,
Announce(r) ==
  /\ At(r, "announce")
  /\ Goto(r, "set")
  /\ UNCHANGED <<redis, channels, telegram, up, entry, provider, issued, ops, faults, incidents>>

SetRecord(r) ==
  /\ At(r, "set")
  /\ recorded' = recorded \cup {job[r].project}
  /\ Goto(r, "own")
  /\ UNCHANGED <<owned, channels, telegram, up, entry, provider, issued, ops, faults, incidents>>

\* the owner's list, and goes into the pool, all in one.
Own(r) ==
  LET p == job[r].project
  IN /\ At(r, "own")
     /\ owned' = owned \cup {p}
     /\ IF entry[p] = 0 THEN Registered(p) ELSE UNCHANGED <<entry, provider>>
     /\ Goto(r, "warm")
     /\ UNCHANGED <<recorded, channels, telegram, up, issued, ops, faults, incidents>>

\* startWarmup
Warm(r) ==
  /\ At(r, "warm")
  /\ End(r)
  /\ UNCHANGED <<redis, channels, telegram, up, entry, provider, issued, ops, faults, incidents>>

\* Any of these may fail: the channels are deleted, and nothing else is taken back.
CreateFails(r) ==
  /\ At(r, "announce") \/ At(r, "set") \/ At(r, "own") \/ At(r, "warm")
  /\ Fault
  /\ Goto(r, "undo")
  /\ Mark(When(job[r].at \in {"own", "warm"}, "kept"))
  /\ UNCHANGED <<redis, channels, telegram, up, entry, provider, issued, ops>>

\* Mutant of Remaining: the channel of the commit log is forgotten.
RemainingCommitLog(n) == IF n = AllChannels THEN 1 ELSE 0

\* What deleteChannel leaves of n channels
Remaining(n) == 0

Undo(r) ==
  /\ At(r, "undo")
  /\ channels' = [channels EXCEPT ![job[r].project] = Remaining(@)]
  /\ End(r)
  /\ UNCHANGED <<redis, telegram, up, entry, provider, issued, ops, faults, incidents>>

\* deleteProject deletes the channels,
Wipe(r) ==
  /\ At(r, "wipe")
  /\ channels' = [channels EXCEPT ![job[r].project] = Remaining(@)]
  /\ Goto(r, "drop")
  /\ UNCHANGED <<redis, telegram, up, entry, provider, issued, ops, faults, incidents>>

\* and does not mind if it cannot;
WipeFails(r) ==
  /\ At(r, "wipe")
  /\ Fault
  /\ Goto(r, "drop")
  /\ Mark({"undeleted"})
  /\ UNCHANGED <<redis, channels, telegram, up, entry, provider, issued, ops>>

\* then the record,
DropRecord(r) ==
  /\ At(r, "drop")
  /\ recorded' = recorded \ {job[r].project} /\ owned' = owned \ {job[r].project}
  /\ Goto(r, "close")
  /\ UNCHANGED <<channels, telegram, up, entry, provider, issued, ops, faults, incidents>>

MustDisconnect(k) == provider[k].connected

\* and closeProject closes the connection, if there is one yet, and forgets the entry.
Close(r) ==
  LET p == job[r].project
      k == entry[p]
  IN /\ At(r, "close")
     /\ IF k # 0 /\ MustDisconnect(k)
        THEN Disconnect(r, k, "remove") /\ UNCHANGED <<entry, incidents>>
        ELSE /\ entry' = [entry EXCEPT ![p] = 0]
             /\ Mark(When(k # 0 /\ provider[k].connecting, "closed_early"))
             /\ End(r)
     /\ UNCHANGED <<redis, channels, telegram, up, provider, issued, ops, faults>>

-----------------------------------------------------------------------------

Break(c) ==
  /\ c \in live \ broken
  /\ Fault
  /\ broken' = broken \cup {c}
  /\ UNCHANGED <<redis, channels, live, up, entry, provider, job, issued, ops, incidents>>

Crash == up /\ Fault /\ Ended

\* The process starts again.
Restart ==
  /\ ~up /\ up' = TRUE
  /\ entry' = Entries(recorded) /\ provider' = Connecting(recorded)
  /\ UNCHANGED <<redis, channels, telegram, job, issued, ops, faults, incidents>>

Check(c) == CheckNext(c) \/ Probe(c) \/ Recover(c) \/ Again(c) \/ Disconnected(c)
Request(r) ==
  \/ Enter(r) \/ Use(r)
  \/ Channel(r) \/ Announce(r) \/ SetRecord(r) \/ Own(r) \/ Warm(r) \/ Undo(r)
  \/ Wipe(r) \/ DropRecord(r) \/ Close(r) \/ Disconnected(r)
Failure ==
  \/ \E r \in Requests : ChannelFails(r) \/ CreateFails(r) \/ WipeFails(r)
  \/ \E q \in Procs : DisconnectFails(q)
  \/ \E k \in Providers : ConnectFails(k)
  \/ \E c \in Clients : Break(c)
  \/ Crash

Next ==
  \/ \E r \in Requests : Begin(r) \/ Request(r)
  \/ \E c \in Checks : Tick(c) \/ Check(c)
  \/ \E k \in Providers : ConnectDone(k)
  \/ Failure
  \/ Restart

Spec == Init /\ [][Next]_vars

\* Connections come up or fail, the timer ticks, calls of Telegram and Redis are answered, and
\* whoever runs the process starts it again.
FairSpec ==
  /\ Spec
  /\ \A k \in Providers : WF_vars(ConnectDone(k))
  /\ \A c \in Checks : WF_vars(Tick(c)) /\ WF_vars(Check(c))
  /\ \A r \in Requests : WF_vars(Request(r))
  /\ WF_vars(Restart)

-----------------------------------------------------------------------------

Quiet == \A r \in Requests : job[r] = Idle
Still == Quiet /\ \A c \in Checks : job[c] = Idle
Clear(kinds) == incidents \cap kinds = {}

\* Between requests every project has its four channels and its place in the owner's list,
\* and there are no channels of any other, unless creation failed before it knew of its
\* channels or after it had written the record, a channel could not be deleted, or
\* the process ended meanwhile.
ChannelsAccounted ==
  Quiet /\ Clear({"partial", "kept", "undeleted", "cut"}) =>
    /\ owned = recorded
    /\ \A p \in Projects : channels[p] = IF p \in recorded THEN AllChannels ELSE 0

\* When nothing is going on the pool has an entry for every project and no other, and Telegram no
\* connection but theirs, unless a project was closed while it connected, a request
\* that had read a deleted project's record registered it again, a client did not
\* close, or two disconnections of one provider crossed.
OneConnectionEach ==
  Still /\ up =>
    /\ Clear({"late", "kept"}) => \A p \in Projects : entry[p] # 0 <=> p \in recorded
    /\ Clear({"closed_early", "crossed", "unclosed"}) =>
         live \subseteq {provider[entry[p]].client : p \in {p \in Projects : entry[p] # 0}}

\* What is recorded, what is on Telegram and what the pool has agree between requests.
ResourcesAccounted == ChannelsAccounted /\ OneConnectionEach

\* Once connections stop to fail, every project has one that answers again and again: a broken one
\* is found and replaced. (Not for good: a run that has found the connection down may
\* take down the one that an overlapping run has just made.) A project whose creation failed
\* after its record was written may have no entry until it is used.
SessionsRecover ==
  []<>(\A p \in recorded : (up /\ entry[p] # 0 /\ Answers(entry[p])) \/ "kept" \in incidents)
=============================================================================
