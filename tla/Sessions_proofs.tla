--------------------------- MODULE Sessions_proofs ---------------------------
(***************************************************************************)
(* Projects have their channels and connections, and nobody else has any,  *)
(* for any number of projects, requests, overlapping health checks,        *)
(* failures and ends of the process.                                       *)
(***************************************************************************)
EXTENDS Sessions, TLAPS

-----------------------------------------------------------------------------
(* The inductive invariant.                                                 *)

Making == {"channel", "announce", "set", "own"}  \* a creation, before the owner's list
Tracking == Making \cup {"undo", "drop"}          \* the record, the list and the channels apart
Asking == Making \cup {"enter", "use", "warm", "undo", "wipe", "drop", "close"}
Checking == {"next", "probe", "disconnect", "again"}

Job == [at : Asking \cup Checking \cup {"waiting", "disconnecting"}, project : Projects,
        provider : Providers \cup {0}, client : Clients \cup {0},
        after : {"", "use", "probe", "next", "remove", "again"}, visited : SUBSET Projects]

Busy(q) == job[q].at # "idle"
On(r, p) == Busy(r) /\ job[r].project = p

\* What a request, and a run of the checks, can be at.
AsksFor(r) ==
  \/ job[r].at \in Asking
  \/ job[r].at = "waiting" /\ job[r].after = "use" /\ job[r].provider \in Providers
  \/ job[r].at = "disconnecting" /\ job[r].after = "remove" /\ job[r].provider \in Providers
ChecksOn(c) ==
  \/ job[c].at \in {"next", "again"}
  \/ job[c].at \in {"probe", "disconnect"} /\ job[c].provider \in Providers
  \/ job[c].at = "waiting" /\ job[c].after \in {"probe", "next"} /\ job[c].provider \in Providers
  \/ job[c].at = "disconnecting" /\ job[c].after = "again" /\ job[c].provider \in Providers

Jobs ==
  /\ job \in [Procs -> Job \cup {Idle}]
  /\ \A r \in Requests : Busy(r) => AsksFor(r)
  /\ \A c \in Checks : Busy(c) => ChecksOn(c)

Types == TypeOK /\ Jobs

\* When the process is not there nothing is connected, and nothing goes on.
Down == ~up => live = {} /\ \A q \in Procs : ~Busy(q)

\* Where a creation stands, before the owner can see the project.
Made(r, p) ==
  /\ p \notin owned /\ entry[p] = 0
  /\ p \in recorded <=> job[r].at = "own"
  /\ IF job[r].at = "channel" THEN channels[p] < AllChannels ELSE channels[p] = AllChannels
  /\ \A q \in Requests \ {r} : ~On(q, p)

\* An id is given to one project; what is being created is no other request's concern, and
\* what is being closed has no record.
Creations ==
  /\ recorded \cup owned \subseteq issued
  /\ \A p \in Projects \ issued : channels[p] = 0 /\ entry[p] = 0
  /\ \A r \in Requests : Busy(r) =>
       /\ job[r].project \in issued
       /\ job[r].at \in {"close", "disconnecting"} => job[r].project \notin recorded
       /\ job[r].at \in Making => Made(r, job[r].project)

Amid(p) == \E r \in Requests : On(r, p) /\ job[r].at \in Tracking
Agree(p) ==
  /\ p \in owned <=> p \in recorded
  /\ channels[p] = IF p \in recorded THEN AllChannels ELSE 0

ChannelsStand ==
  Clear({"partial", "kept", "undeleted", "cut"}) =>
    /\ \A p \in Projects : Amid(p) \/ Agree(p)
    /\ \A r \in Requests : LET p == job[r].project
                           IN /\ job[r].at = "drop" =>
                                   channels[p] = 0 /\ (p \in owned <=> p \in recorded)
                              /\ job[r].at = "undo" => p \notin recorded \cup owned

\* A provider that connects has an entry, and a connection has a provider with one.
ConnectsOnce == \A k \in Providers : provider[k].connecting => ~provider[k].connected
Held(c) ==
  \E p \in Projects :
    /\ entry[p] # 0
    /\ provider[entry[p]].connected /\ provider[entry[p]].client = c
ConnectionsHeld ==
  Clear({"closed_early", "crossed", "unclosed"}) =>
    /\ \A k \in Providers : provider[k].connecting => \E p \in Projects : entry[p] = k
    /\ \A c \in live : Held(c)

\* An entry without a record is about to go, and a record without an entry about to get one.
EntriesStand ==
  up /\ Clear({"late", "kept"}) =>
    \A p \in Projects :
      /\ entry[p] # 0 /\ p \notin recorded =>
           \E r \in Requests : On(r, p) /\ job[r].at \in {"close", "disconnecting"}
      /\ entry[p] = 0 /\ p \in recorded => \E r \in Requests : On(r, p) /\ job[r].at = "own"

-----------------------------------------------------------------------------
(* How the job of one process changes.                                      *)

\* The job of q, and of no other, becomes one with these fields.
Now(q, at, project, provid, client, after) ==
  /\ job' \in [Procs -> Job \cup {Idle}]
  /\ job'[q].at = at /\ job'[q].project = project /\ job'[q].provider = provid
  /\ job'[q].client = client /\ job'[q].after = after
  /\ \A x \in Procs \ {q} : job'[x] = job[x]

Over(q) ==
  /\ job' \in [Procs -> Job \cup {Idle}]
  /\ job'[q].at = "idle"
  /\ \A x \in Procs \ {q} : job'[x] = job[x]

LEMMA BusyJob ==
  ASSUME job \in [Procs -> Job \cup {Idle}], NEW q \in Procs, Busy(q)
  PROVE  /\ job[q] \in Job /\ job[q] # Idle
         /\ job[q].project \in Projects /\ job[q].client \in Clients \cup {0}
         /\ job[q].provider \in Providers \cup {0}
<1>1. job[q] # Idle
  BY DEF Busy, Idle
<1> QED
  BY <1>1 DEF Job

LEMMA IdleJob ==
  ASSUME job \in [Procs -> Job \cup {Idle}], NEW q \in Procs
  PROVE  job[q] = Idle <=> ~Busy(q)
<1>1. \A j \in Job : j.at # "idle"
  BY DEF Job, Asking, Checking, Making
<1>2. Idle.at = "idle"
  BY DEF Idle
<1>3. job[q] \in Job \/ job[q] = Idle
  OBVIOUS
<1> QED
  BY <1>1, <1>2, <1>3 DEF Busy

LEMMA GotoNow ==
  ASSUME job \in [Procs -> Job \cup {Idle}], NEW q \in Procs, Busy(q),
         NEW label \in Asking \cup Checking \cup {"waiting", "disconnecting"}, Goto(q, label)
  PROVE  Now(q, label, job[q].project, job[q].provider, job[q].client, job[q].after)
<1>1. job[q] \in Job
  BY BusyJob
<1>2. [job[q] EXCEPT !.at = label] \in Job
  BY <1>1 DEF Job
<1> QED
  BY <1>1, <1>2 DEF Goto, Now, Job

LEMMA EndNow ==
  ASSUME job \in [Procs -> Job \cup {Idle}], NEW q \in Procs, End(q)
  PROVE  Over(q)
  BY DEF End, Over, Idle

LEMMA ResumedNow ==
  ASSUME job \in [Procs -> Job \cup {Idle}], NEW q \in Procs, Busy(q),
         NEW p \in Projects, NEW k \in Providers, NEW connected \in BOOLEAN,
         NEW label \in {"use", "probe", "next"},
         job' = [job EXCEPT ![q] = Resumed(q, p, k, connected, label)]
  PROVE  \E at \in {label, "waiting"} : Now(q, at, p, k, job[q].client, label)
<1>1. job[q] \in Job
  BY BusyJob
<1> DEFINE at == IF connected THEN label ELSE "waiting"
<1>2. Resumed(q, p, k, connected, label)
        = [job[q] EXCEPT !.at = at, !.after = label, !.project = p, !.provider = k]
  BY DEF Resumed
<1>3. at \in {label, "waiting"}
  OBVIOUS
<1> HIDE DEF at
<1> DEFINE j == [at |-> at, project |-> p, provider |-> k, client |-> job[q].client,
                 after |-> label, visited |-> job[q].visited]
<1>4. Resumed(q, p, k, connected, label) = j
  <2>1. job[q] = [at |-> job[q].at, project |-> job[q].project, provider |-> job[q].provider,
                  client |-> job[q].client, after |-> job[q].after, visited |-> job[q].visited]
    BY <1>1 DEF Job
  <2> QED
    BY <1>2, <2>1
<1>5. j \in Job
  <2>1. job[q].client \in Clients \cup {0} /\ job[q].visited \in SUBSET Projects
    BY <1>1 DEF Job
  <2>2. at \in Asking \cup Checking \cup {"waiting", "disconnecting"}
    BY <1>3 DEF Asking, Checking
  <2> QED
    BY <2>1, <2>2 DEF Job
<1>6. /\ j.at = at /\ j.project = p /\ j.provider = k
      /\ j.client = job[q].client /\ j.after = label
  OBVIOUS
<1> HIDE DEF j
<1> QED
  BY <1>3, <1>4, <1>5, <1>6 DEF Now

LEMMA DisconnectNow ==
  ASSUME job \in [Procs -> Job \cup {Idle}], NEW q \in Procs, Busy(q),
         NEW k \in Providers, provider[k].client \in Clients \cup {0},
         NEW after \in {"remove", "again"}, Disconnect(q, k, after)
  PROVE  Now(q, "disconnecting", job[q].project, k, provider[k].client, after)
<1>1. job[q] \in Job
  BY BusyJob
<1> DEFINE j == [job[q] EXCEPT !.at = "disconnecting", !.provider = k,
                               !.client = provider[k].client, !.after = after]
<1>2. j \in Job
  BY <1>1 DEF Job
<1>3. /\ j.at = "disconnecting" /\ j.project = job[q].project /\ j.provider = k
      /\ j.client = provider[k].client /\ j.after = after
  BY <1>1 DEF Job
<1>4. job' = [job EXCEPT ![q] = j]
  BY <1>1 DEF Disconnect, Job
<1> HIDE DEF j
<1> QED
  BY <1>2, <1>3, <1>4 DEF Now
LEMMA JobsAsked ==
  ASSUME Jobs, NEW r \in Requests, NEW at, NEW p, NEW k, NEW c, NEW after,
         Now(r, at, p, k, c, after),
         \/ at \in Asking
         \/ at = "waiting" /\ after = "use" /\ k \in Providers
         \/ at = "disconnecting" /\ after = "remove" /\ k \in Providers
  PROVE  Jobs'
<1>1. AsksFor(r)'
  BY DEF Now, AsksFor
<1>2. \A x \in Procs \ {r} : job'[x] = job[x]
  BY DEF Now
<1>3. r \notin Checks
  BY SessionsAssumption
<1> QED
  BY <1>1, <1>2, <1>3 DEF Jobs, Now, Procs, AsksFor, ChecksOn, Busy

LEMMA JobsChecked ==
  ASSUME Jobs, NEW x \in Checks, NEW at, NEW p, NEW k, NEW c, NEW after,
         Now(x, at, p, k, c, after),
         \/ at \in {"next", "again"}
         \/ at \in {"probe", "disconnect"} /\ k \in Providers
         \/ at = "waiting" /\ after \in {"probe", "next"} /\ k \in Providers
         \/ at = "disconnecting" /\ after = "again" /\ k \in Providers
  PROVE  Jobs'
<1>1. ChecksOn(x)'
  BY DEF Now, ChecksOn
<1>2. \A y \in Procs \ {x} : job'[y] = job[y]
  BY DEF Now
<1>3. x \notin Requests
  BY SessionsAssumption
<1> QED
  BY <1>1, <1>2, <1>3 DEF Jobs, Now, Procs, AsksFor, ChecksOn, Busy

LEMMA JobsOver ==
  ASSUME Jobs, NEW q \in Procs, Over(q)
  PROVE  Jobs'
<1>1. ASSUME NEW r \in Procs, Busy(r)'
      PROVE  job'[r] = job[r]
  BY <1>1 DEF Over, Busy
<1> QED
  BY <1>1 DEF Jobs, Over, AsksFor, ChecksOn, Busy, Procs

\* Nothing refers to the name a new provider gets.
LEMMA FreeIsFree ==
  ASSUME FreeProviders # {}
  PROVE  /\ FreeProvider \in Providers
         /\ \A p \in Projects : entry[p] # FreeProvider
         /\ ~provider[FreeProvider].connecting
<1>1. FreeProvider \in FreeProviders
  BY DEF FreeProvider
<1> QED
  BY <1>1 DEF FreeProviders, Used

LEMMA FreeClientFree ==
  ASSUME FreeClients # {}
  PROVE  FreeClient \in Clients
<1>1. FreeClient \in FreeClients
  BY DEF FreeClient
<1> QED
  BY <1>1 DEF FreeClients

PoolTypes ==
  /\ entry \in [Projects -> Providers \cup {0}]
  /\ provider \in [Providers -> Provider]

LEMMA RegisteredTypes ==
  ASSUME PoolTypes, NEW p \in Projects, Registered(p)
  PROVE  PoolTypes' /\ entry'[p] = FreeProvider /\ FreeProvider \in Providers
  BY FreeIsFree DEF Registered, PoolTypes, Provider, NewProvider

\* What withProject and ensureConnected do for q, which goes on with the provider of p.
LEMMA EnsureNow ==
  ASSUME PoolTypes, job \in [Procs -> Job \cup {Idle}], NEW q \in Procs, Busy(q),
         NEW p \in Projects, NEW label \in {"use", "next"}, Ensure(q, p, label)
  PROVE  /\ PoolTypes'
         /\ entry'[p] \in Providers
         /\ \E at \in {label, "waiting"} : Now(q, at, p, entry'[p], job[q].client, label)
<1>1. CASE entry[p] = 0
  <2>1. /\ Registered(p)
        /\ job' = [job EXCEPT ![q] = Resumed(q, p, FreeProvider,
                                 entry[p] # 0 /\ provider[FreeProvider].connected, label)]
    BY <1>1 DEF Ensure
  <2>2. PoolTypes' /\ entry'[p] = FreeProvider /\ FreeProvider \in Providers
    BY <2>1, RegisteredTypes
  <2>3. (entry[p] # 0 /\ provider[FreeProvider].connected) \in BOOLEAN
    OBVIOUS
  <2>4. \E at \in {label, "waiting"} : Now(q, at, p, FreeProvider, job[q].client, label)
    BY <2>1, <2>2, <2>3, ResumedNow
  <2> QED
    BY <2>2, <2>4
<1>2. CASE entry[p] # 0
  <2> DEFINE k == entry[p]
  <2>1. k \in Providers
    BY <1>2 DEF PoolTypes
  <2>2. /\ provider' = [provider EXCEPT ![k].connecting = @ \/ ~provider[k].connected]
        /\ entry' = entry
        /\ job' = [job EXCEPT ![q] = Resumed(q, p, k, entry[p] # 0 /\ provider[k].connected, label)]
    BY <1>2 DEF Ensure
  <2>3. PoolTypes'
    BY <2>1, <2>2 DEF PoolTypes, Provider
  <2>4. (entry[p] # 0 /\ provider[k].connected) \in BOOLEAN
    OBVIOUS
  <2>5. \E at \in {label, "waiting"} : Now(q, at, p, k, job[q].client, label)
    BY <2>1, <2>2, <2>4, ResumedNow
  <2> QED
    BY <2>1, <2>2, <2>3, <2>5
<1> QED
  BY <1>1, <1>2

-----------------------------------------------------------------------------
(* What the variables hold.                                                 *)

LEMMA WhenTypes ==
  ASSUME NEW condition, NEW kind \in Incidents
  PROVE  When(condition, kind) \subseteq Incidents
  BY DEF When

\* The entries a process starts with, and their providers.
LEMMA PoolTypesOf ==
  ASSUME NEW found \in SUBSET Projects
  PROVE  /\ Entries(found) \in [Projects -> Providers \cup {0}]
         /\ Connecting(found) \in [Providers -> Provider]
         /\ \A p \in Projects : Entries(found)[p] # 0 <=> p \in found
         /\ \A k \in Providers : Connecting(found)[k].connecting =>
              ~Connecting(found)[k].connected /\ \E p \in Projects : Entries(found)[p] = k
<1>1. Numbers(found) \in [found -> Providers]
  <2> SUFFICES \E f \in [found -> Providers] : \A x, y \in found : f[x] = f[y] => x = y
    BY DEF Numbers
  <2>1. PICK f \in [Projects -> Providers] : \A x, y \in Projects : f[x] = f[y] => x = y
    BY SessionsAssumption
  <2>2. [x \in found |-> f[x]] \in [found -> Providers]
    BY <2>1
  <2> QED
    BY <2>1, <2>2
<1>2. \A p \in found : Numbers(found)[p] \in Providers /\ Numbers(found)[p] # 0
  BY <1>1, SessionsAssumption
<1>3. \A k \in Providers : Connecting(found)[k] \in Provider
  BY DEF Connecting, Provider, NoProvider, NewProvider
<1>4. ASSUME NEW k \in Providers, Connecting(found)[k].connecting
      PROVE  ~Connecting(found)[k].connected /\ \E p \in Projects : Entries(found)[p] = k
  <2>1. \E p \in found : Numbers(found)[p] = k
    BY <1>4 DEF Connecting, NoProvider
  <2> QED
    BY <2>1 DEF Connecting, Entries, NewProvider
<1> QED
  BY <1>2, <1>3, <1>4 DEF Entries, Connecting

LEMMA InitTypes == Init => Types /\ Down
<1> SUFFICES ASSUME Init PROVE Types /\ Down
  OBVIOUS
<1>2. PoolTypes
  BY PoolTypesOf DEF Init, PoolTypes
<1>3. Jobs
  BY DEF Init, Jobs, Busy, Idle, Procs
<1>4. TypeOK
  BY <1>2, SessionsAssumption DEF Init, TypeOK, PoolTypes, AllChannels
<1> QED
  BY <1>3, <1>4 DEF Types, Down, Init

\* The steps that change no job but that of one request, or run of the checks, and that leave
\* the pool alone.
LEMMA TypesStep ==
  ASSUME Types, Creations, NEW r \in Requests, Busy(r), Jobs',
         UNCHANGED <<telegram, up, entry, provider, issued, ops>>,
         \/ /\ UNCHANGED redis
            /\ channels' = channels \/ \E n \in 0..AllChannels : channels' = [channels EXCEPT ![job[r].project] = n]
         \/ /\ UNCHANGED channels
            /\ recorded' \subseteq recorded \cup {job[r].project}
            /\ owned' \subseteq owned \cup {job[r].project},
         faults' = faults \/ Fault,
         incidents' \subseteq Incidents
  PROVE  Types'
<1>1. job[r].project \in Projects
  BY BusyJob DEF Types, Jobs, Procs
<1>2. channels' \in [Projects -> 0..AllChannels]
  BY <1>1 DEF Types, TypeOK
<1>3. recorded' \subseteq Projects /\ owned' \subseteq Projects
  BY <1>1 DEF Types, TypeOK, redis
<1>4. faults' \in 0..MaxFaults
  BY SessionsAssumption DEF Types, TypeOK, Fault
<1> QED
  BY <1>2, <1>3, <1>4 DEF Types, TypeOK, telegram, Jobs

\* A step of a request in which only its own job moves on to a label of a request's.
LEMMA AskNow ==
  ASSUME Jobs, NEW r \in Requests, Busy(r), NEW label \in Asking, Goto(r, label)
  PROVE  Jobs' /\ Now(r, label, job[r].project, job[r].provider, job[r].client, job[r].after)
<1>1. Now(r, label, job[r].project, job[r].provider, job[r].client, job[r].after)
  BY GotoNow DEF Jobs, Procs
<1> QED
  BY <1>1, JobsAsked

LEMMA CheckNow ==
  ASSUME Jobs, NEW c \in Checks, Busy(c), NEW label \in Checking, Goto(c, label),
         label \in {"probe", "disconnect"} => job[c].provider \in Providers
  PROVE  Jobs' /\ Now(c, label, job[c].project, job[c].provider, job[c].client, job[c].after)
<1>1. Now(c, label, job[c].project, job[c].provider, job[c].client, job[c].after)
  BY GotoNow DEF Jobs, Procs
<1> QED
  BY <1>1, JobsChecked DEF Checking

LEMMA EndJobs ==
  ASSUME Jobs, NEW q \in Procs, End(q)
  PROVE  Jobs' /\ Over(q)
  BY EndNow, JobsOver DEF Jobs

\* The creation and the deletion of a project, one awaited call after the other.
Creating(r) ==
  \/ Channel(r) \/ Announce(r) \/ SetRecord(r) \/ Warm(r) \/ Undo(r) \/ Wipe(r) \/ DropRecord(r)
  \/ ChannelFails(r) \/ CreateFails(r) \/ WipeFails(r)

LEMMA CreatingTypes ==
  ASSUME Types, Creations, NEW r \in Requests, Creating(r)
  PROVE  Types'
<1>1. Busy(r) /\ r \in Procs
  BY DEF Creating, Busy, At, Channel, Announce, SetRecord, Warm, Undo, Wipe, DropRecord,
         ChannelFails, CreateFails, WipeFails, Procs
<1>2. Jobs /\ incidents \subseteq Incidents
  BY DEF Types, TypeOK
<1>3. CASE Channel(r)
  <2> DEFINE p == job[r].project
  <2>1. channels[p] \in 0..3
    BY <1>1, <1>2, <1>3, BusyJob DEF Channel, At, Creations, Made, Making, Types, TypeOK, Jobs, AllChannels
  <2>2. channels' = [channels EXCEPT ![p] = channels[p] + 1] /\ channels[p] + 1 \in 0..AllChannels
    BY <1>3, <2>1 DEF Channel, AllChannels
  <2>3. Jobs'
    BY <1>1, <1>2, <1>3, AskNow DEF Channel, Asking, Making
  <2> QED
    BY <1>1, <1>2, <1>3, <2>2, <2>3, TypesStep DEF Channel
<1>4. CASE Announce(r) \/ SetRecord(r)
  <2>1. Jobs'
    BY <1>1, <1>2, <1>4, AskNow DEF Announce, SetRecord, Asking, Making
  <2> QED
    BY <1>1, <1>2, <1>4, <2>1, TypesStep DEF Announce, SetRecord, redis
<1>5. CASE Warm(r)
  BY <1>1, <1>2, <1>5, EndJobs, TypesStep DEF Warm
<1>6. CASE Undo(r) \/ Wipe(r)
  <2>1. Jobs'
    BY <1>1, <1>2, <1>6, AskNow, EndJobs DEF Undo, Wipe, Asking, Making
  <2>2. 0 \in 0..AllChannels /\ channels' = [channels EXCEPT ![job[r].project] = 0]
    BY <1>6 DEF Undo, Wipe, Remaining, AllChannels
  <2> QED
    BY <1>1, <1>2, <1>6, <2>1, <2>2, TypesStep DEF Undo, Wipe
<1>7. CASE DropRecord(r)
  <2>1. Jobs'
    BY <1>1, <1>2, <1>7, AskNow DEF DropRecord, Asking, Making
  <2> QED
    BY <1>1, <1>2, <1>7, <2>1, TypesStep DEF DropRecord
<1>8. CASE ChannelFails(r) \/ CreateFails(r) \/ WipeFails(r)
  <2>1. Jobs'
    BY <1>1, <1>2, <1>8, AskNow, EndJobs DEF ChannelFails, CreateFails, WipeFails, Asking, Making
  <2>2. incidents' \subseteq Incidents
    BY <1>2, <1>8 DEF ChannelFails, CreateFails, WipeFails, Mark, When, Incidents
  <2> QED
    BY <1>1, <1>2, <1>8, <2>1, <2>2, TypesStep DEF ChannelFails, CreateFails, WipeFails
<1> QED
  BY <1>3, <1>4, <1>5, <1>6, <1>7, <1>8 DEF Creating

LEMMA BeginNow ==
  ASSUME Types, NEW r \in Requests, NEW p \in Projects,
         NEW label \in {"enter", "channel", "wipe"},
         job' = [job EXCEPT ![r] = [NewJob(r, label) EXCEPT !.project = p]]
  PROVE  Jobs' /\ Now(r, label, p, 0, 0, "")
<1> DEFINE n == NewJob(r, label)
<1> DEFINE j == [n EXCEPT !.project = p]
<1>1. /\ n \in Job
      /\ n.at = label /\ n.provider = 0 /\ n.client = 0 /\ n.after = ""
  <2>1. label \in Asking /\ (CHOOSE x \in Projects : TRUE) \in Projects
    BY DEF Asking, Making
  <2> QED
    BY <2>1 DEF NewJob, Job
<1> HIDE DEF n
<1>2. j \in Job
  BY <1>1 DEF Job
<1>3. /\ j.at = label /\ j.project = p /\ j.provider = 0 /\ j.client = 0 /\ j.after = ""
  BY <1>1 DEF Job
<1> HIDE DEF j
<1>4. job' = [job EXCEPT ![r] = j]
  BY DEF j, n
<1>5. Now(r, label, p, 0, 0, "")
  BY <1>2, <1>3, <1>4 DEF Now, Types, Jobs, Procs
<1>6. label \in Asking
  BY DEF Asking, Making
<1> QED
  BY <1>5, <1>6, JobsAsked DEF Types

\* A request that comes is for a project of its owner's, or for one with a new id.
LEMMA BeginAsks ==
  ASSUME Types, NEW r \in Requests, Begin(r)
  PROVE  \E p \in Projects, label \in {"enter", "channel", "wipe"} :
           /\ job[r].at = "idle" /\ UNCHANGED <<redis, channels, entry, incidents>>
           /\ IF label = "channel" THEN p \notin issued /\ issued' = issued \cup {p}
                                   ELSE p \in recorded \cap owned /\ issued' = issued
           /\ Now(r, label, p, 0, 0, "") /\ Jobs'
<1>1. PICK p \in Projects, op \in {"use", "create", "delete"} :
        /\ job[r].at = "idle"
        /\ IF op = "create" THEN p \notin issued /\ issued' = issued \cup {p}
           ELSE p \in recorded \cap owned /\ UNCHANGED issued
        /\ job' = [job EXCEPT ![r] =
             [NewJob(r, CASE op = "use" -> "enter" [] op = "create" -> "channel" [] op = "delete" -> "wipe")
                EXCEPT !.project = p]]
        /\ UNCHANGED <<redis, channels, entry, incidents>>
  BY DEF Begin, At
<1>2. PICK label \in {"enter", "channel", "wipe"} :
        /\ label = "channel" <=> op = "create"
        /\ job' = [job EXCEPT ![r] = [NewJob(r, label) EXCEPT !.project = p]]
  <2>1. CASE op = "use"
    BY <1>1, <2>1
  <2>2. CASE op = "create"
    BY <1>1, <2>2
  <2>3. CASE op = "delete"
    BY <1>1, <2>3
  <2> QED
    BY <2>1, <2>2, <2>3
<1>3. Now(r, label, p, 0, 0, "") /\ Jobs'
  BY <1>2, BeginNow
<1> QED
  BY <1>1, <1>2, <1>3

LEMMA TickNow ==
  ASSUME Types, NEW c \in Checks, Tick(c)
  PROVE  Jobs' /\ \E p \in Projects : Now(c, "next", p, 0, 0, "")
<1> DEFINE p == CHOOSE x \in Projects : TRUE
<1> DEFINE j == NewJob(c, "next")
<1>1. p \in Projects
  BY DEF Tick
<1>2. j \in Job
  BY <1>1 DEF NewJob, Job, Checking
<1>3. j.at = "next" /\ j.project = p /\ j.provider = 0 /\ j.client = 0 /\ j.after = ""
  BY DEF NewJob
<1>4. job' = [job EXCEPT ![c] = j]
  BY DEF Tick
<1> HIDE DEF j, p
<1>5. Now(c, "next", p, 0, 0, "")
  BY <1>2, <1>3, <1>4 DEF Now, Types, Jobs, Procs
<1> QED
  BY <1>1, <1>5, JobsChecked DEF Types

LEMMA PoolStep ==
  ASSUME Types, Jobs', PoolTypes',
         recorded' = recorded, owned' \subseteq Projects, channels' = channels,
         live' \subseteq Clients, broken' \subseteq live', up' \in BOOLEAN,
         issued' \subseteq Projects, ops' \in 0..MaxOps,
         faults' = faults \/ Fault, incidents' \subseteq Incidents
  PROVE  Types'
<1>1. faults' \in 0..MaxFaults
  BY SessionsAssumption DEF Types, TypeOK, Fault
<1> QED
  BY <1>1 DEF Types, TypeOK, PoolTypes, Jobs

\* The job of q forgets the client it has disconnected.
LEMMA ResumeNow ==
  ASSUME Jobs, NEW q \in Procs, job[q].at = "disconnecting", Resume(q)
  PROVE  /\ Jobs'
         /\ \/ /\ q \in Requests /\ Over(q)
               /\ entry' = [entry EXCEPT ![job[q].project] = 0]
            \/ /\ q \in Checks /\ entry' = entry
               /\ Now(q, "again", job[q].project, job[q].provider, 0, job[q].after)
<1>1. job[q] \in Job
  BY BusyJob DEF Busy, Jobs
<1>2. CASE q \in Requests
  <2>1. job[q].after = "remove"
    BY <1>2 DEF Jobs, Busy, AsksFor, Asking, Making
  <2>2. End(q) /\ entry' = [entry EXCEPT ![job[q].project] = 0]
    BY <2>1 DEF Resume
  <2> QED
    BY <1>2, <2>2, EndJobs
<1>3. CASE q \in Checks
  <2>1. job[q].after = "again"
    BY <1>3 DEF Jobs, Busy, ChecksOn
  <2> DEFINE j == [job[q] EXCEPT !.at = "again", !.client = 0]
  <2>2. entry' = entry /\ job' = [job EXCEPT ![q] = j]
    BY <2>1 DEF Resume
  <2>3. /\ j \in Job /\ j.at = "again" /\ j.project = job[q].project
        /\ j.provider = job[q].provider /\ j.client = 0 /\ j.after = job[q].after
    BY <1>1 DEF Job, Checking
  <2> HIDE DEF j
  <2>4. Now(q, "again", job[q].project, job[q].provider, 0, job[q].after)
    BY <2>2, <2>3 DEF Now, Jobs
  <2> QED
    BY <1>3, <2>2, <2>4, JobsChecked
<1> QED
  BY <1>2, <1>3 DEF Procs

\* The answer to a request or a check that waits for its client to disconnect.
LEMMA DisconnectedTypes ==
  ASSUME Types, NEW q \in Procs, Disconnected(q) \/ DisconnectFails(q)
  PROVE  Types'
<1>1. Jobs /\ incidents \subseteq Incidents /\ job[q].at = "disconnecting" /\ Resume(q)
  BY DEF Types, TypeOK, Disconnected, DisconnectFails, At
<1>2. Jobs' /\ (entry' = entry \/ entry' = [entry EXCEPT ![job[q].project] = 0])
  BY <1>1, ResumeNow
<1>3. PoolTypes'
  <2>1. entry' \in [Projects -> Providers \cup {0}]
    BY <1>2 DEF Types, TypeOK
  <2>2. provider' = provider \/ provider' = [provider EXCEPT ![job[q].provider].connected = FALSE]
    BY DEF Disconnected, DisconnectFails
  <2>3. provider' \in [Providers -> Provider]
    BY <2>2 DEF Types, TypeOK, Provider
  <2> QED
    BY <2>1, <2>3 DEF PoolTypes
<1>4. incidents' \subseteq Incidents
  <2>1. Early(q) \subseteq Incidents
    BY DEF Early, When, Incidents
  <2> QED
    BY <1>1, <2>1 DEF Disconnected, DisconnectFails, Mark, When, Incidents
<1>5. live' \subseteq Clients /\ broken' \subseteq live'
  BY DEF Types, TypeOK, Disconnected, DisconnectFails, telegram
<1> QED
  BY <1>2, <1>3, <1>4, <1>5, PoolStep
     DEF Types, TypeOK, Disconnected, DisconnectFails, redis

\* The check goes on to the next entry, and keeps account of it.
LEMMA VisitNow ==
  ASSUME Jobs, NEW c \in Checks, Busy(c), NEW p \in Projects, NEW k \in Providers,
         job' = [job EXCEPT ![c] = [Resumed(c, p, k, provider[k].connected, "probe")
                                      EXCEPT !.visited = @ \cup {p}]]
  PROVE  \E at \in {"probe", "waiting"} : Now(c, at, p, k, job[c].client, "probe")
<1> DEFINE m == Resumed(c, p, k, provider[k].connected, "probe")
           j == [m EXCEPT !.visited = @ \cup {p}]
<1>1. job[c] \in Job
  BY BusyJob DEF Jobs, Procs
<1>2. PICK at \in {"probe", "waiting"} :
        m = [job[c] EXCEPT !.at = at, !.after = "probe", !.project = p, !.provider = k]
  <2>1. CASE provider[k].connected
    BY <2>1 DEF Resumed
  <2>2. CASE ~provider[k].connected
    BY <2>2 DEF Resumed
  <2> QED
    BY <2>1, <2>2
<1>3. /\ m \in Job /\ m.at = at /\ m.project = p /\ m.provider = k
      /\ m.client = job[c].client /\ m.after = "probe"
  <2> HIDE DEF m
  <2>1. at \in Asking \cup Checking \cup {"waiting", "disconnecting"}
    BY DEF Checking
  <2>2. /\ [job[c] EXCEPT !.at = at] \in Job
    BY <1>1, <2>1 DEF Job
  <2> QED
    BY <1>1, <1>2, <2>1 DEF Job
<1> HIDE DEF m
<1>4. /\ j \in Job /\ j.at = at /\ j.project = p /\ j.provider = k
      /\ j.client = job[c].client /\ j.after = "probe"
  BY <1>3 DEF Job
<1>5. job' = [job EXCEPT ![c] = j]
  BY DEF j, m
<1> HIDE DEF j
<1> QED
  BY <1>4, <1>5 DEF Now, Jobs, Procs

LEMMA RecoverNow ==
  ASSUME Jobs, PoolTypes, NEW c \in Checks, Recover(c)
  PROVE  /\ Jobs'
         /\ LET k == job[c].provider
            IN /\ k \in Providers
               /\ \/ Now(c, "disconnecting", job[c].project, k, provider[k].client, "again")
                  \/ Now(c, "again", job[c].project, k, job[c].client, job[c].after)
<1> DEFINE k == job[c].provider
<1>1. Busy(c) /\ c \in Procs /\ job[c].at = "disconnect"
  BY DEF Recover, At, Busy, Procs
<1>2. k \in Providers
  BY <1>1 DEF Jobs, ChecksOn
<1>3. CASE provider[k].connected
  <2>1. Disconnect(c, k, "again")
    BY <1>3 DEF Recover, Recovery
  <2>2. provider[k].client \in Clients \cup {0}
    BY <1>2 DEF PoolTypes, Provider
  <2>3. Now(c, "disconnecting", job[c].project, k, provider[k].client, "again")
    BY <1>1, <1>2, <2>1, <2>2, DisconnectNow DEF Jobs
  <2> QED
    BY <1>2, <2>3, JobsChecked
<1>4. CASE ~provider[k].connected
  <2>1. Goto(c, "again")
    BY <1>4 DEF Recover, Recovery
  <2> QED
    BY <1>1, <1>2, <2>1, CheckNow DEF Checking
<1> QED
  BY <1>3, <1>4

LEMMA AgainNow ==
  ASSUME Jobs, PoolTypes, NEW c \in Checks, Again(c)
  PROVE  /\ Jobs' /\ PoolTypes'
         /\ \E at, k, after : Now(c, at, job[c].project, k, job[c].client, after)
<1>1. Busy(c) /\ c \in Procs /\ job[c].project \in Projects
  BY BusyJob DEF Again, At, Busy, Procs, Jobs
<1>2. CASE entry[job[c].project] = 0
  <2>1. Goto(c, "next") /\ entry' = entry /\ provider' = provider
    BY <1>2 DEF Again
  <2> QED
    BY <1>1, <2>1, CheckNow DEF Checking, PoolTypes
<1>3. CASE entry[job[c].project] # 0
  <2>1. Ensure(c, job[c].project, "next")
    BY <1>3 DEF Again
  <2>2. /\ PoolTypes' /\ entry'[job[c].project] \in Providers
        /\ \E at \in {"next", "waiting"} :
             Now(c, at, job[c].project, entry'[job[c].project], job[c].client, "next")
    BY <1>1, <2>1, EnsureNow DEF Jobs
  <2> QED
    BY <2>2, JobsChecked
<1> QED
  BY <1>2, <1>3

\* What the checks do without a wait for a client.
LEMMA CheckTypes ==
  ASSUME Types, NEW c \in Checks,
         Tick(c) \/ CheckNext(c) \/ Probe(c) \/ Recover(c) \/ Again(c)
  PROVE  Types'
<1>1. Jobs /\ PoolTypes /\ c \in Procs
  BY DEF Types, TypeOK, PoolTypes, Procs
<1>2. CASE Tick(c)
  <2>1. Jobs'
    BY <1>2, TickNow
  <2> QED
    BY <1>2, <2>1, PoolStep DEF Types, TypeOK, Tick, redis, telegram, PoolTypes
<1>3. CASE CheckNext(c)
  <2> DEFINE left == {p \in Projects : entry[p] # 0} \ job[c].visited
             p == CHOOSE x \in left : TRUE
             k == entry[p]
  <2>1. CASE left = {}
    <3>1. Jobs'
      BY <1>1, <1>3, <2>1, EndJobs DEF CheckNext
    <3> QED
      BY <1>3, <2>1, <3>1, PoolStep DEF Types, TypeOK, CheckNext, redis, telegram, PoolTypes
  <2>2. CASE left # {}
    <3>1. p \in Projects /\ k \in Providers
      BY <1>1, <2>2 DEF PoolTypes
    <3>2. /\ provider' = [provider EXCEPT ![k].connecting = @ \/ ~provider[k].connected]
          /\ job' = [job EXCEPT ![c] = [Resumed(c, p, k, provider[k].connected, "probe")
                                          EXCEPT !.visited = @ \cup {p}]]
          /\ UNCHANGED <<redis, channels, telegram, up, entry, issued, ops, faults, incidents>>
      BY <1>3, <2>2 DEF CheckNext
    <3> HIDE DEF p, k
    <3>3. PoolTypes'
      BY <1>1, <3>1, <3>2 DEF PoolTypes, Provider
    <3>4. Jobs'
      BY <1>1, <1>3, <3>1, <3>2, VisitNow, JobsChecked DEF CheckNext, At, Busy
    <3> QED
      BY <3>2, <3>3, <3>4, PoolStep DEF Types, TypeOK, redis, telegram
  <2> QED
    BY <2>1, <2>2
<1>4. CASE Probe(c)
  <2>1. Jobs'
    BY <1>1, <1>4, CheckNow DEF Probe, At, Busy, Checking, Jobs, ChecksOn
  <2> QED
    BY <1>1, <1>4, <2>1, PoolStep DEF Types, TypeOK, Probe, redis, telegram, PoolTypes
<1>5. CASE Recover(c)
  <2>1. Jobs'
    BY <1>1, <1>5, RecoverNow
  <2> QED
    BY <1>1, <1>5, <2>1, PoolStep DEF Types, TypeOK, Recover, redis, telegram, PoolTypes
<1>6. CASE Again(c)
  <2>1. Jobs' /\ PoolTypes'
    BY <1>1, <1>6, AgainNow
  <2> QED
    BY <1>1, <1>6, <2>1, PoolStep DEF Types, TypeOK, Again, redis, telegram
<1> QED
  BY <1>2, <1>3, <1>4, <1>5, <1>6

LEMMA CloseNow ==
  ASSUME Jobs, PoolTypes, NEW r \in Requests, Close(r)
  PROVE  LET p == job[r].project
             k == entry[p]
         IN /\ Jobs'
            /\ \/ /\ k \in Providers /\ provider[k].connected /\ entry' = entry
                  /\ incidents' = incidents
                  /\ Now(r, "disconnecting", p, k, provider[k].client, "remove")
               \/ /\ k # 0 => ~provider[k].connected
                  /\ entry' = [entry EXCEPT ![p] = 0]
                  /\ Mark(When(k # 0 /\ provider[k].connecting, "closed_early"))
                  /\ Over(r)
<1> DEFINE p == job[r].project
           k == entry[p]
<1>1. Busy(r) /\ r \in Procs /\ p \in Projects
  BY BusyJob DEF Close, At, Busy, Procs, Jobs
<1>2. CASE k # 0 /\ provider[k].connected
  <2>1. Disconnect(r, k, "remove") /\ entry' = entry /\ incidents' = incidents
    BY <1>2 DEF Close, MustDisconnect
  <2>2. k \in Providers
    BY <1>1, <1>2 DEF PoolTypes
  <2>3. provider[k].client \in Clients \cup {0}
    BY <2>2 DEF PoolTypes, Provider
  <2>4. Now(r, "disconnecting", p, k, provider[k].client, "remove")
    BY <1>1, <2>1, <2>2, <2>3, DisconnectNow DEF Jobs
  <2> QED
    BY <1>2, <2>1, <2>2, <2>4, JobsAsked
<1>3. CASE ~(k # 0 /\ provider[k].connected)
  <2>1. /\ End(r) /\ entry' = [entry EXCEPT ![p] = 0]
        /\ Mark(When(k # 0 /\ provider[k].connecting, "closed_early"))
    BY <1>3 DEF Close, MustDisconnect
  <2> QED
    BY <1>1, <1>3, <2>1, EndJobs
<1> QED
  BY <1>2, <1>3

\* What the requests do that use the pool.
LEMMA UsingTypes ==
  ASSUME Types, NEW r \in Requests, Begin(r) \/ Enter(r) \/ Use(r) \/ Own(r) \/ Close(r)
  PROVE  Types'
<1>1. Jobs /\ PoolTypes /\ r \in Procs /\ incidents \subseteq Incidents
  BY DEF Types, TypeOK, PoolTypes, Procs
<1>2. CASE Begin(r)
  <2>1. PICK p \in Projects, label \in {"enter", "channel", "wipe"} :
          /\ Jobs'
          /\ issued' = issued \cup {p} \/ issued' = issued
    BY <1>2, BeginAsks
  <2>2. /\ ops < MaxOps /\ ops' = ops + 1
        /\ UNCHANGED <<redis, channels, telegram, up, entry, provider, faults, incidents>>
    BY <1>2 DEF Begin
  <2>3. issued' \subseteq Projects
    BY <2>1 DEF Types, TypeOK
  <2>4. ops' \in 0..MaxOps
    BY <2>2, SessionsAssumption DEF Types, TypeOK
  <2> QED
    BY <2>1, <2>2, <2>3, <2>4, PoolStep DEF Types, TypeOK, redis, telegram, PoolTypes
<1>3. CASE Enter(r)
  <2>1. Busy(r) /\ job[r].project \in Projects
    BY <1>1, <1>3, BusyJob DEF Enter, At, Busy, Jobs
  <2>2. PoolTypes' /\ Jobs'
    <3>1. Ensure(r, job[r].project, "use")
      BY <1>3 DEF Enter
    <3>2. /\ PoolTypes' /\ entry'[job[r].project] \in Providers
          /\ \E at \in {"use", "waiting"} :
               Now(r, at, job[r].project, entry'[job[r].project], job[r].client, "use")
      BY <1>1, <2>1, <3>1, EnsureNow DEF Jobs
    <3> QED
      BY <1>1, <3>2, JobsAsked DEF Asking
  <2>3. incidents' \subseteq Incidents
    BY <1>1, <1>3 DEF Enter, Mark, When, Incidents
  <2> QED
    BY <1>3, <2>2, <2>3, PoolStep DEF Types, TypeOK, Enter, redis, telegram
<1>4. CASE Use(r)
  <2>1. Jobs'
    BY <1>1, <1>4, EndJobs DEF Use
  <2> QED
    BY <1>1, <1>4, <2>1, PoolStep DEF Types, TypeOK, Use, redis, telegram, PoolTypes
<1>5. CASE Own(r)
  <2>1. Busy(r) /\ job[r].project \in Projects
    BY <1>1, <1>5, BusyJob DEF Own, At, Busy, Jobs
  <2>2. Jobs'
    BY <1>1, <2>1, <1>5, AskNow DEF Own, Asking
  <2>3. PoolTypes'
    BY <1>1, <2>1, <1>5, RegisteredTypes DEF Own, PoolTypes
  <2>4. owned' \subseteq Projects
    BY <2>1, <1>5 DEF Own, Types, TypeOK
  <2> QED
    BY <1>5, <2>2, <2>3, <2>4, PoolStep DEF Types, TypeOK, Own, telegram
<1>6. CASE Close(r)
  <2>1. Jobs' /\ entry' \in [Projects -> Providers \cup {0}] /\ incidents' \subseteq Incidents
    BY <1>1, <1>6, CloseNow DEF PoolTypes, Mark, When, Incidents
  <2>2. PoolTypes'
    BY <1>1, <1>6, <2>1 DEF PoolTypes, Close
  <2> QED
    BY <1>6, <2>1, <2>2, PoolStep DEF Types, TypeOK, Close, redis, telegram
<1> QED
  BY <1>2, <1>3, <1>4, <1>5, <1>6

\* What the end of a connection makes of a job: one that waited goes on, or has failed.
Goes(q) ==
  \/ job'[q] = job[q]
  \/ /\ Busy(q) /\ job[q].at = "waiting"
     /\ \/ q \in Requests /\ job'[q].at = "idle"
        \/ /\ job'[q].at \in {"use", "probe", "next", "disconnect"}
           /\ job'[q].project = job[q].project

\* Those who wait for k go on, or have failed.
LEMMA WaitersGo ==
  ASSUME Jobs, NEW k \in Providers, NEW fail,
         job' = [q \in Procs |->
                  IF q \notin Waiting(k) THEN job[q]
                  ELSE IF ~fail THEN [job[q] EXCEPT !.at = job[q].after]
                  ELSE IF q \in Requests THEN Idle
                  ELSE [job[q] EXCEPT !.at = IF job[q].after = "probe" THEN "disconnect"
                                             ELSE "next"]]
  PROVE  /\ Jobs'
         /\ \A q \in Procs : Goes(q)
<1>1. ASSUME NEW q \in Procs
      PROVE  /\ job'[q] \in Job \cup {Idle}
             /\ q \in Requests /\ Busy(q)' => AsksFor(q)'
             /\ q \in Checks /\ Busy(q)' => ChecksOn(q)'
             /\ Goes(q)
  <2>1. CASE q \notin Waiting(k)
    <3>1. job'[q] = job[q]
      BY <2>1
    <3> QED
      BY <3>1 DEF Jobs, AsksFor, ChecksOn, Busy, Goes
  <2>2. CASE q \in Waiting(k)
    <3>1. /\ Busy(q) /\ job[q].at = "waiting" /\ job[q] \in Job /\ job[q].provider = k
      BY <2>2, BusyJob DEF Waiting, Busy, Jobs
    <3>2. /\ q \in Requests => job[q].after = "use" /\ q \notin Checks
          /\ q \in Checks => job[q].after \in {"probe", "next"} /\ q \notin Requests
      BY <3>1, SessionsAssumption DEF Jobs, AsksFor, ChecksOn, Asking, Making
    <3>3. CASE fail /\ q \in Requests
      BY <2>2, <3>1, <3>2, <3>3 DEF Idle, Busy, Goes
    <3>4. CASE ~(fail /\ q \in Requests)
      <4>1. PICK at \in {"use", "probe", "next", "disconnect"} :
              /\ job'[q] = [job[q] EXCEPT !.at = at]
              /\ q \in Requests => at = "use"
              /\ q \in Checks => at # "use"
        BY <2>2, <3>2, <3>4 DEF Procs
      <4>2. /\ [job[q] EXCEPT !.at = at] \in Job
            /\ [job[q] EXCEPT !.at = at].at = at
            /\ [job[q] EXCEPT !.at = at].project = job[q].project
            /\ [job[q] EXCEPT !.at = at].provider = k
        BY <3>1 DEF Job, Asking, Checking
      <4> QED
        BY <3>1, <3>2, <4>1, <4>2 DEF AsksFor, ChecksOn, Asking, Procs, Goes
    <3> QED
      BY <3>3, <3>4
  <2> QED
    BY <2>1, <2>2
<1>2. job' \in [Procs -> Job \cup {Idle}]
  <2>1. job' = [q \in Procs |-> job'[q]]
    OBVIOUS
  <2> QED
    BY <1>1, <2>1
<1> QED
  BY <1>1, <1>2 DEF Jobs, Procs

LEMMA DoneGo ==
  ASSUME Jobs, NEW k \in Providers, ConnectDone(k)
  PROVE  Jobs' /\ \A q \in Procs : Goes(q)
<1>1. job' = [q \in Procs |->
               IF q \in Waiting(k) THEN [job[q] EXCEPT !.at = job[q].after] ELSE job[q]]
  BY DEF ConnectDone
<1>2. job' = [q \in Procs |->
               IF q \notin Waiting(k) THEN job[q]
               ELSE IF ~FALSE THEN [job[q] EXCEPT !.at = job[q].after]
               ELSE IF q \in Requests THEN Idle
               ELSE [job[q] EXCEPT !.at = IF job[q].after = "probe" THEN "disconnect" ELSE "next"]]
  BY <1>1
<1> QED
  BY <1>2, WaitersGo

LEMMA FailedGo ==
  ASSUME Jobs, NEW k \in Providers, ConnectFails(k), ~provider[k].floating
  PROVE  Jobs' /\ \A q \in Procs : Goes(q)
<1>1. job' = [q \in Procs |->
               IF q \notin Waiting(k) THEN job[q]
               ELSE IF q \in Requests THEN Idle
               ELSE [job[q] EXCEPT !.at = IF job[q].after = "probe" THEN "disconnect" ELSE "next"]]
  BY DEF ConnectFails
<1>2. job' = [q \in Procs |->
               IF q \notin Waiting(k) THEN job[q]
               ELSE IF ~TRUE THEN [job[q] EXCEPT !.at = job[q].after]
               ELSE IF q \in Requests THEN Idle
               ELSE [job[q] EXCEPT !.at = IF job[q].after = "probe" THEN "disconnect" ELSE "next"]]
  BY <1>1
<1> QED
  BY <1>2, WaitersGo

\* Connections that come up, fail and break, and a process that ends and starts.
LEMMA ConnectingTypes ==
  ASSUME Types, Down,
         \/ \E k \in Providers : ConnectDone(k) \/ ConnectFails(k)
         \/ \E c \in Clients : Break(c)
         \/ Crash \/ Restart
  PROVE  Types'
<1>1. Jobs /\ PoolTypes /\ incidents \subseteq Incidents
  BY DEF Types, TypeOK, PoolTypes
<1>2. ASSUME Ended, Fault PROVE Types'
  <2>1. Jobs'
    BY <1>2 DEF Ended, Jobs, Busy, Idle, Procs
  <2>2. PoolTypes'
    BY <1>2 DEF Ended, PoolTypes, Provider, NoProvider
  <2>3. incidents' \subseteq Incidents
    BY <1>1, <1>2 DEF Ended, Mark, When, Incidents
  <2> QED
    BY <1>2, <2>1, <2>2, <2>3, PoolStep DEF Ended, Types, TypeOK, redis
<1>3. ASSUME NEW k \in Providers, ConnectDone(k)
      PROVE  Types'
  <2>1. FreeClient \in Clients
    BY <1>3, FreeClientFree DEF ConnectDone
  <2>2. PoolTypes'
    BY <1>1, <1>3, <2>1 DEF ConnectDone, Settled, PoolTypes, Provider
  <2>3. Jobs'
    BY <1>1, <1>3, DoneGo
  <2> QED
    BY <1>1, <1>3, <2>1, <2>2, <2>3, PoolStep DEF ConnectDone, Types, TypeOK, redis
<1>4. ASSUME NEW k \in Providers, ConnectFails(k)
      PROVE  Types'
  <2>1. CASE provider[k].floating
    BY <1>2, <1>4, <2>1 DEF ConnectFails
  <2>2. CASE ~provider[k].floating
    <3>1. PoolTypes'
      <4>1. entry' = entry /\ provider' = [provider EXCEPT ![k] = Settled(@, FALSE)]
        BY <1>4, <2>2 DEF ConnectFails
      <4>2. Settled(provider[k], FALSE) \in Provider
        BY <1>1 DEF Settled, PoolTypes, Provider
      <4> QED
        BY <1>1, <4>1, <4>2 DEF PoolTypes
    <3>2. Jobs'
      BY <1>1, <1>4, <2>2, FailedGo
    <3> QED
      BY <1>1, <1>4, <2>2, <3>1, <3>2, PoolStep DEF ConnectFails, Types, TypeOK, redis, telegram
  <2> QED
    BY <2>1, <2>2
<1>5. ASSUME NEW c \in Clients, Break(c)
      PROVE  Types'
  BY <1>1, <1>5, PoolStep DEF Break, Types, TypeOK, redis, PoolTypes, Jobs, Busy, AsksFor, ChecksOn
<1>6. CASE Crash
  BY <1>2, <1>6 DEF Crash
<1>7. CASE Restart
  <2>1. PoolTypes'
    BY <1>7, PoolTypesOf DEF Restart, PoolTypes, Types, TypeOK
  <2>2. Jobs'
    BY <1>1, <1>7 DEF Restart, Jobs, Busy, AsksFor, ChecksOn
  <2> QED
    BY <1>1, <1>7, <2>1, <2>2, PoolStep DEF Restart, Types, TypeOK, redis, telegram
<1> QED
  BY <1>3, <1>4, <1>5, <1>6, <1>7

LEMMA TypesNext == Types /\ Down /\ Creations /\ [Next]_vars => Types'
<1> SUFFICES ASSUME Types, Down, Creations, [Next]_vars
             PROVE  Types'
  OBVIOUS
<1>1. CASE UNCHANGED vars
  BY <1>1 DEF vars, redis, telegram, Types, TypeOK, Jobs, Busy, AsksFor, ChecksOn
<1>2. ASSUME NEW r \in Requests, Begin(r) \/ Request(r)
      PROVE  Types'
  BY <1>2, UsingTypes, CreatingTypes, DisconnectedTypes DEF Request, Creating, Procs
<1>3. ASSUME NEW c \in Checks, Tick(c) \/ Check(c)
      PROVE  Types'
  BY <1>3, CheckTypes, DisconnectedTypes DEF Check, Procs
<1>4. ASSUME NEW k \in Providers, ConnectDone(k)
      PROVE  Types'
  BY <1>4, ConnectingTypes
<1>5. CASE Failure
  BY <1>5, CreatingTypes, DisconnectedTypes, ConnectingTypes DEF Failure, Creating
<1>6. CASE Restart
  BY <1>6, ConnectingTypes
<1> QED
  BY <1>1, <1>2, <1>3, <1>4, <1>5, <1>6 DEF Next

-----------------------------------------------------------------------------
(* A process that is not there.                                             *)

LEMMA DownNext == Down /\ [Next]_vars => Down'
<1> SUFFICES ASSUME Down, [Next]_vars
             PROVE  Down'
  OBVIOUS
<1>1. CASE UNCHANGED vars
  BY <1>1 DEF vars, telegram, Down, Busy
<1>2. ASSUME up, up' = up
      PROVE  Down'
  BY <1>2 DEF Down
<1>3. CASE Ended
  BY <1>3 DEF Ended, Down, Busy, Idle
<1>4. ASSUME NEW r \in Requests, Begin(r) \/ Request(r)
      PROVE  Down'
  <2>1. up /\ up' = up
    BY <1>4 DEF Begin, Request, At, Enter, Use, Channel, Announce, SetRecord, Own, Warm, Undo,
                Wipe, DropRecord, Close, Disconnected
  <2> QED
    BY <1>2, <2>1
<1>5. ASSUME NEW c \in Checks, Tick(c) \/ Check(c)
      PROVE  Down'
  <2>1. up /\ up' = up
    BY <1>5 DEF Tick, Check, At, CheckNext, Probe, Recover, Again, Disconnected
  <2> QED
    BY <1>2, <2>1
<1>6. ASSUME NEW k \in Providers, ConnectDone(k) \/ ConnectFails(k)
      PROVE  Down'
  BY <1>2, <1>3, <1>6 DEF ConnectDone, ConnectFails
<1>7. ASSUME NEW r \in Procs, ChannelFails(r) \/ CreateFails(r) \/ WipeFails(r) \/ DisconnectFails(r)
      PROVE  Down'
  <2>1. up /\ up' = up
    BY <1>7 DEF ChannelFails, CreateFails, WipeFails, DisconnectFails, At
  <2> QED
    BY <1>2, <2>1
<1>8. ASSUME NEW c \in Clients, Break(c)
      PROVE  Down'
  BY <1>2, <1>8 DEF Break, Down
<1>9. CASE Crash \/ Restart
  BY <1>3, <1>9 DEF Crash, Restart, Down
<1> QED
  BY <1>1, <1>4, <1>5, <1>6, <1>7, <1>8, <1>9 DEF Next, Failure, Procs

-----------------------------------------------------------------------------
(* What is being created is nobody else's.                                  *)

LEMMA CreationsInit == Init => Creations
  BY PoolTypesOf DEF Init, Creations, Busy, Idle, Procs

\* What a request does to its job in a step that is no part of a creation or deletion.
Follows(r) ==
  Busy(r)' =>
    /\ Busy(r) /\ job'[r].project = job[r].project
    /\ job'[r].at \in Tracking => job'[r].at = job[r].at
    /\ job'[r].at \in {"close", "disconnecting"} => job[r].at \in {"close", "disconnecting"}

\* The pool gets an entry only for a request that has a project to use.
Enters ==
  \A p \in Projects : entry'[p] # 0 =>
    entry[p] # 0 \/ \E r \in Requests : On(r, p) /\ job[r].at \notin Making

LEMMA CreationsAside ==
  ASSUME Types, Creations, UNCHANGED <<redis, channels, issued>>,
         \A r \in Requests : Follows(r), Enters
  PROVE  Creations'
<1>1. ASSUME NEW r \in Requests, Busy(r)', job'[r].at \in Making
      PROVE  Made(r, job[r].project)'
  <2>1. PICK p \in Projects : job[r].project = p /\ job'[r].project = p
    BY <1>1, BusyJob DEF Follows, Types, Jobs, Procs
  <2>2. Busy(r) /\ job'[r].at = job[r].at /\ Made(r, p)
    BY <1>1, <2>1 DEF Follows, Creations, Tracking
  <2>3. entry'[p] = 0
    BY <1>1, <2>1, <2>2 DEF Enters, Made, On
  <2>4. \A q \in Requests \ {r} : ~On(q, p)'
    BY <2>2 DEF Made, On, Follows
  <2>5. Made(r, p)'
    BY <2>2, <2>3, <2>4 DEF Made, redis
  <2> QED
    BY <2>1, <2>5 DEF Made, On
<1>2. \A p \in Projects \ issued' : channels'[p] = 0 /\ entry'[p] = 0
  BY DEF Creations, Enters, On
<1> QED
  BY <1>1, <1>2 DEF Creations, Follows, redis

\* A process that goes on does not leave what it was creating or deleting.
Stays == \A r \in Requests : job[r].at \in Tracking => job'[r] = job[r]

Aside ==
  \/ \E r \in Requests : Enter(r) \/ Use(r) \/ Close(r)
  \/ \E q \in Procs : Disconnected(q) \/ DisconnectFails(q)
  \/ \E c \in Checks : Tick(c) \/ CheckNext(c) \/ Probe(c) \/ Recover(c) \/ Again(c)
  \/ \E k \in Providers : ConnectDone(k) \/ (ConnectFails(k) /\ ~provider[k].floating)
  \/ \E c \in Clients : Break(c)
  \/ UNCHANGED vars

LEMMA OneFollows ==
  ASSUME NEW r \in Requests, Busy(r), job[r].at \notin Tracking,
         \A x \in Procs \ {r} : job'[x] = job[x],
         \/ job'[r].at = "idle"
         \/ /\ job'[r].project = job[r].project /\ job'[r].at \notin Tracking
            /\ job'[r].at \in {"close", "disconnecting"} => job[r].at \in {"close", "disconnecting"}
  PROVE  Stays /\ \A x \in Requests : Follows(x)
  BY DEF Stays, Follows, Busy, Procs

LEMMA CheckFollows ==
  ASSUME NEW c \in Checks, \A x \in Procs \ {c} : job'[x] = job[x]
  PROVE  Stays /\ \A x \in Requests : Follows(x)
<1>1. c \notin Requests
  BY SessionsAssumption
<1> QED
  BY <1>1 DEF Stays, Follows, Busy, Procs

LEMMA AsideFollows ==
  ASSUME Types, Aside
  PROVE  /\ UNCHANGED <<redis, channels, issued>> /\ incidents \subseteq incidents'
         /\ Stays /\ \A r \in Requests : Follows(r)
         /\ Enters
<1>1. Jobs /\ PoolTypes
  BY DEF Types, TypeOK, PoolTypes
<1>2. ASSUME NEW r \in Requests, Enter(r) \/ Use(r) \/ Close(r)
      PROVE  /\ UNCHANGED <<redis, channels, issued>> /\ incidents \subseteq incidents'
             /\ Stays /\ \A x \in Requests : Follows(x)
             /\ Enters
  <2>1. Busy(r) /\ r \in Procs /\ job[r].project \in Projects /\ job[r].at \notin Tracking
    <3>1. Busy(r) /\ r \in Procs /\ job[r].at \in {"enter", "use", "close"}
      BY <1>2 DEF Enter, Use, Close, At, Busy, Procs
    <3> QED
      BY <1>1, <3>1, BusyJob DEF Jobs, Tracking, Making
  <2>2. CASE Enter(r)
    <3>1. Ensure(r, job[r].project, "use") /\ job[r].at = "enter"
      BY <2>2 DEF Enter, At
    <3>2. \E at \in {"use", "waiting"} :
            Now(r, at, job[r].project, entry'[job[r].project], job[r].client, "use")
      BY <1>1, <2>1, <3>1, EnsureNow DEF Jobs
    <3>3. Stays /\ \A x \in Requests : Follows(x)
      BY <2>1, <3>2, OneFollows DEF Now, Tracking, Making
    <3>4. Enters
      BY <1>1, <2>1, <3>1 DEF Ensure, Registered, Enters, On, PoolTypes, Tracking
    <3> QED
      BY <2>2, <3>3, <3>4 DEF Enter, Mark
  <2>3. CASE Use(r)
    <3>1. Stays /\ \A x \in Requests : Follows(x)
      BY <1>1, <2>1, <2>3, EndJobs, OneFollows DEF Use, Over
    <3> QED
      BY <2>3, <3>1 DEF Use, Enters
  <2>4. CASE Close(r)
    <3>1. job[r].at = "close"
      BY <2>4 DEF Close, At
    <3>2. Stays /\ \A x \in Requests : Follows(x)
      BY <1>1, <2>1, <2>4, <3>1, CloseNow, OneFollows DEF Now, Over, Tracking, Making
    <3>3. entry' = entry \/ entry' = [entry EXCEPT ![job[r].project] = 0]
      BY <1>1, <2>4, CloseNow
    <3>4. Enters
      BY <1>1, <3>3 DEF Enters, PoolTypes
    <3> QED
      BY <2>4, <3>2, <3>4 DEF Close, Mark
  <2> QED
    BY <1>2, <2>2, <2>3, <2>4
<1>3. ASSUME NEW q \in Procs, Disconnected(q) \/ DisconnectFails(q)
      PROVE  /\ UNCHANGED <<redis, channels, issued>> /\ incidents \subseteq incidents'
             /\ Stays /\ \A x \in Requests : Follows(x)
             /\ Enters
  <2>1. Busy(q) /\ job[q].at = "disconnecting" /\ Resume(q)
    BY <1>3 DEF Disconnected, DisconnectFails, At, Busy
  <2>2. \/ /\ q \in Requests /\ Over(q)
           /\ entry' = [entry EXCEPT ![job[q].project] = 0]
        \/ /\ q \in Checks /\ entry' = entry
           /\ Now(q, "again", job[q].project, job[q].provider, 0, job[q].after)
    BY <1>1, <2>1, ResumeNow
  <2>3. Stays /\ \A x \in Requests : Follows(x)
    BY <2>1, <2>2, OneFollows, CheckFollows DEF Over, Now, Tracking, Making
  <2>4. Enters
    BY <1>1, <2>2 DEF Enters, PoolTypes
  <2> QED
    BY <1>3, <2>3, <2>4 DEF Disconnected, DisconnectFails, Mark
<1>4. ASSUME NEW c \in Checks, Tick(c) \/ CheckNext(c) \/ Probe(c) \/ Recover(c) \/ Again(c)
      PROVE  /\ UNCHANGED <<redis, channels, issued>> /\ incidents \subseteq incidents'
             /\ Stays /\ \A x \in Requests : Follows(x)
             /\ Enters
  <2>1. \A x \in Procs \ {c} : job'[x] = job[x]
    <3>1. c \in Procs
      BY DEF Procs
    <3>2. CASE Again(c)
      BY <1>1, <3>2, AgainNow DEF Now
    <3>3. CASE Tick(c) \/ CheckNext(c) \/ Probe(c) \/ Recover(c)
      BY <1>1, <3>1, <3>3 DEF Jobs, Tick, CheckNext, Probe, Recover, Recovery, Goto, End, Disconnect
    <3> QED
      BY <1>4, <3>2, <3>3
  <2>2. Enters
    BY <1>1, <1>4 DEF Tick, CheckNext, Probe, Recover, Again, Ensure, Enters, PoolTypes
  <2> QED
    BY <1>4, <2>1, <2>2, CheckFollows DEF Tick, CheckNext, Probe, Recover, Again
<1>5. ASSUME NEW k \in Providers, ConnectDone(k) \/ (ConnectFails(k) /\ ~provider[k].floating)
      PROVE  /\ UNCHANGED <<redis, channels, issued>> /\ incidents \subseteq incidents'
             /\ Stays /\ \A x \in Requests : Follows(x)
             /\ Enters
  <2>1. \A q \in Procs : Goes(q)
    BY <1>1, <1>5, DoneGo, FailedGo
  <2>2. Stays /\ \A x \in Requests : Follows(x)
    BY <2>1 DEF Goes, Stays, Follows, Busy, Tracking, Making, Procs
  <2> QED
    BY <1>5, <2>2 DEF ConnectDone, ConnectFails, Enters
<1>6. ASSUME NEW c \in Clients, Break(c) \/ UNCHANGED vars
      PROVE  /\ UNCHANGED <<redis, channels, issued>> /\ incidents \subseteq incidents'
             /\ Stays /\ \A x \in Requests : Follows(x)
             /\ Enters
  BY <1>6 DEF Break, vars, redis, Stays, Follows, Enters, Busy
<1>7. CASE UNCHANGED vars
  BY <1>7 DEF vars, redis, Stays, Follows, Enters, Busy
<1> QED
  BY <1>2, <1>3, <1>4, <1>5, <1>6, <1>7 DEF Aside

\* The same for the steps of a creation or deletion, which change what is there of one project.
LEMMA CreationsOf ==
  ASSUME Types, Creations, NEW r \in Requests, Busy(r), NEW p \in Projects, job[r].project = p,
         \A x \in Procs \ {r} : job'[x] = job[x],
         job'[r].at = "idle" \/ job'[r].project = p,
         issued' = issued,
         recorded' \subseteq recorded \cup {p}, recorded \subseteq recorded' \cup {p},
         owned' \subseteq owned \cup {p}, owned \subseteq owned' \cup {p},
         \A q \in Projects \ {p} : channels'[q] = channels[q] /\ entry'[q] = entry[q],
         job'[r].at \in Making => Made(r, p)',
         job'[r].at \notin {"close", "disconnecting"} \/ p \notin recorded',
         \/ job[r].at \in Making
         \/ p \notin recorded' \/ p \in recorded
  PROVE  Creations'
<1>1. p \in issued
  BY DEF Creations
<1>2. recorded' \cup owned' \subseteq issued'
  BY <1>1 DEF Creations
<1>3. ASSUME NEW q \in Requests, Busy(q)'
      PROVE  /\ job'[q].project \in issued
             /\ job'[q].at \in {"close", "disconnecting"} => job'[q].project \notin recorded'
             /\ job'[q].at \in Making => Made(q, job[q].project)'
  <2>1. CASE q = r
    BY <1>1, <1>3, <2>1 DEF Busy, Made, On
  <2>2. CASE q # r
    <3>1. job'[q] = job[q] /\ Busy(q) /\ q \in Procs
      BY <1>3, <2>2 DEF Busy, Procs
    <3>2. job[q].project \in Projects
      BY <3>1, BusyJob DEF Types, Jobs
    <3>3. CASE job[q].at \in Making
      <4>1. PICK pq \in Projects : job[q].project = pq /\ job'[q].project = pq
        BY <3>1, <3>2
      <4>2. Made(q, pq) /\ pq # p
        BY <3>1, <3>3, <4>1, <2>2 DEF Creations, Made, On
      <4>3. \A x \in Requests \ {q} : ~On(x, pq)'
        <5> SUFFICES ASSUME NEW x \in Requests \ {q}, Busy(x)', job'[x].project = pq
                     PROVE  FALSE
          BY DEF On
        <5>1. x # r
          BY <4>2 DEF Busy
        <5> QED
          BY <5>1, <4>2 DEF Made, On, Busy, Procs
      <4>4. Made(q, pq)'
        BY <3>1, <4>2, <4>3 DEF Made
      <4> QED
        BY <1>1, <3>1, <3>3, <4>1, <4>4 DEF Creations, Made, On, Making
    <3>4. CASE job[q].at \notin Making
      <4>1. job[q].project = p => job[r].at \notin Making
        BY <3>1, <2>2 DEF Creations, Made, On
      <4> QED
        BY <3>1, <3>4, <4>1 DEF Creations
    <3> QED
      BY <3>3, <3>4
  <2> QED
    BY <2>1, <2>2
<1>4. \A q \in Projects \ issued' : channels'[q] = 0 /\ entry'[q] = 0
  BY <1>1 DEF Creations
<1> QED
  BY <1>2, <1>3, <1>4 DEF Creations

LEMMA CreationsCreating ==
  ASSUME Types, Creations, NEW r \in Requests, Creating(r) \/ Own(r)
  PROVE  Creations'
<1>1. Jobs /\ PoolTypes /\ Busy(r) /\ r \in Procs
  BY DEF Types, TypeOK, PoolTypes, Creating, Busy, At, Channel, Announce, SetRecord, Warm, Undo, Wipe, DropRecord,
         ChannelFails, CreateFails, WipeFails, Own, Procs
<1>2. PICK p \in Projects : job[r].project = p
  BY <1>1, BusyJob DEF Jobs
<1>3. channels \in [Projects -> 0..AllChannels] /\ entry \in [Projects -> Providers \cup {0}]
  BY DEF Types, TypeOK
<1>4. job[r].at \in Making => Made(r, p)
  BY <1>1, <1>2 DEF Creations
<1>5. ASSUME NEW label \in Asking, Goto(r, label)
      PROVE  /\ \A x \in Procs \ {r} : job'[x] = job[x]
             /\ job'[r].at = label /\ job'[r].project = p
             /\ job[r].at \in Making => \A x \in Requests \ {r} : ~On(x, p)'
  <2>1. Now(r, label, job[r].project, job[r].provider, job[r].client, job[r].after)
    BY <1>1, <1>5, AskNow
  <2> QED
    BY <1>2, <1>4, <2>1 DEF Now, Made, On, Busy, Procs
<1>6. ASSUME End(r)
      PROVE  /\ \A x \in Procs \ {r} : job'[x] = job[x]
             /\ job'[r].at = "idle"
  BY <1>1, <1>6, EndJobs DEF Over
<1>7. CASE Channel(r)
  <2>1. PICK label \in {"announce", "channel"} :
          /\ Goto(r, label) /\ job[r].at = "channel"
          /\ channels' = [channels EXCEPT ![p] = @ + 1]
          /\ label = "channel" <=> channels'[p] # AllChannels
          /\ UNCHANGED <<redis, entry, issued>>
    BY <1>2, <1>7 DEF Channel, At
  <2>2. Made(r, p) /\ label \in Asking
    BY <1>4, <2>1 DEF Making, Asking
  <2>3. channels'[p] = channels[p] + 1 /\ channels[p] \in 0..3
    BY <1>3, <2>1, <2>2 DEF Made, AllChannels
  <2>4. Made(r, p)'
    BY <1>5, <2>1, <2>2, <2>3 DEF Made, Making, AllChannels, redis
  <2> QED
    BY <1>1, <1>2, <1>3, <1>5, <2>1, <2>2, <2>4, CreationsOf DEF redis
<1>8. CASE Announce(r)
  <2>1. Goto(r, "set") /\ job[r].at = "announce" /\ UNCHANGED <<redis, channels, entry, issued>>
    BY <1>8 DEF Announce, At
  <2>2. Made(r, p) /\ "set" \in Asking
    BY <1>4, <2>1 DEF Making, Asking
  <2>3. Made(r, p)'
    BY <1>5, <2>1, <2>2 DEF Made, Making, redis
  <2> QED
    BY <1>1, <1>2, <1>5, <2>1, <2>2, <2>3, CreationsOf DEF redis
<1>9. CASE SetRecord(r)
  <2>1. /\ Goto(r, "own") /\ job[r].at = "set" /\ UNCHANGED <<owned, channels, entry, issued>>
        /\ recorded' = recorded \cup {p}
    BY <1>2, <1>9 DEF SetRecord, At
  <2>2. Made(r, p) /\ "own" \in Asking /\ job[r].at \in Making
    BY <1>4, <2>1 DEF Making, Asking
  <2>3. Made(r, p)'
    BY <1>5, <2>1, <2>2 DEF Made, Making
  <2> QED
    BY <1>1, <1>2, <1>5, <2>1, <2>2, <2>3, CreationsOf
<1>10. CASE Own(r)
  <2>1. /\ Goto(r, "warm") /\ UNCHANGED <<recorded, channels, issued>>
        /\ owned' = owned \cup {p}
        /\ \A q \in Projects \ {p} : entry'[q] = entry[q]
    BY <1>2, <1>3, <1>10 DEF Own, Registered
  <2>2. "warm" \in Asking /\ "warm" \notin Making
    BY DEF Making, Asking
  <2> QED
    BY <1>1, <1>2, <1>5, <2>1, <2>2, CreationsOf
<1>11. CASE Warm(r)
  <2>1. End(r) /\ UNCHANGED <<redis, channels, entry, issued>>
    BY <1>11 DEF Warm
  <2> QED
    BY <1>1, <1>2, <1>6, <2>1, CreationsOf DEF redis, Making
<1>12. CASE Undo(r)
  <2>1. End(r) /\ UNCHANGED <<redis, entry, issued>> /\ \A q \in Projects \ {p} : channels'[q] = channels[q]
    BY <1>2, <1>3, <1>12 DEF Undo
  <2> QED
    BY <1>1, <1>2, <1>6, <2>1, CreationsOf DEF redis, Making
<1>13. CASE Wipe(r) \/ WipeFails(r)
  <2>1. Goto(r, "drop") /\ UNCHANGED <<redis, entry, issued>> /\ \A q \in Projects \ {p} : channels'[q] = channels[q]
    BY <1>2, <1>3, <1>13 DEF Wipe, WipeFails
  <2>2. "drop" \in Asking /\ "drop" \notin Making
    BY DEF Making, Asking
  <2> QED
    BY <1>1, <1>2, <1>5, <2>1, <2>2, CreationsOf DEF redis
<1>14. CASE DropRecord(r)
  <2>1. /\ Goto(r, "close") /\ UNCHANGED <<channels, entry, issued>>
        /\ recorded' = recorded \ {p} /\ owned' = owned \ {p}
    BY <1>2, <1>14 DEF DropRecord
  <2>2. "close" \in Asking /\ "close" \notin Making
    BY DEF Making, Asking
  <2> QED
    BY <1>1, <1>2, <1>5, <2>1, <2>2, CreationsOf
<1>15. CASE ChannelFails(r)
  <2>1. End(r) /\ UNCHANGED <<redis, channels, entry, issued>>
    BY <1>15 DEF ChannelFails
  <2> QED
    BY <1>1, <1>2, <1>6, <2>1, CreationsOf DEF redis, Making
<1>16. CASE CreateFails(r)
  <2>1. Goto(r, "undo") /\ UNCHANGED <<redis, channels, entry, issued>>
    BY <1>16 DEF CreateFails
  <2>2. "undo" \in Asking /\ "undo" \notin Making
    BY DEF Making, Asking
  <2> QED
    BY <1>1, <1>2, <1>5, <2>1, <2>2, CreationsOf DEF redis
<1> QED
  BY <1>7, <1>8, <1>9, <1>10, <1>11, <1>12, <1>13, <1>14, <1>15, <1>16 DEF Creating

LEMMA CreationsBegin ==
  ASSUME Types, Creations, NEW r \in Requests, Begin(r)
  PROVE  Creations'
<1>1. PICK p \in Projects, label \in {"enter", "channel", "wipe"} :
        /\ job[r].at = "idle" /\ UNCHANGED <<redis, channels, entry>>
        /\ IF label = "channel" THEN p \notin issued /\ issued' = issued \cup {p}
                                ELSE p \in recorded \cap owned /\ issued' = issued
        /\ Now(r, label, p, 0, 0, "")
  BY BeginAsks
<1>2. p \in issued'
  BY <1>1 DEF Creations
<1>3. recorded' = recorded /\ owned' = owned /\ channels' = channels /\ entry' = entry
  BY <1>1 DEF redis
<1>4. /\ job'[r].at = label /\ job'[r].project = p
      /\ \A x \in Procs \ {r} : job'[x] = job[x]
  BY <1>1 DEF Now
<1>5. ASSUME NEW q \in Requests, Busy(q)'
      PROVE  /\ job'[q].project \in issued'
             /\ job'[q].at \in {"close", "disconnecting"} => job'[q].project \notin recorded
             /\ job'[q].at \in Making => Made(q, job[q].project)'
  <2>1. CASE q = r
    <3>1. job'[q].project \in issued'
      BY <1>2, <1>4, <2>1
    <3>2. CASE label = "channel"
      <4>1. p \notin issued /\ p \notin owned /\ p \notin recorded /\ entry'[p] = 0 /\ channels'[p] = 0
        BY <1>1, <3>2 DEF Creations
      <4>2. \A x \in Requests \ {r} : ~On(x, p)'
        BY <1>4, <4>1 DEF Creations, On, Busy, Procs
      <4> QED
        BY <1>3, <1>4, <2>1, <3>1, <3>2, <4>1, <4>2 DEF Made, On, AllChannels
    <3>3. CASE label # "channel"
      BY <1>4, <2>1, <3>1, <3>3 DEF Making
    <3> QED
      BY <3>2, <3>3
  <2>2. CASE q # r
    <3>1. job'[q] = job[q] /\ Busy(q) /\ q \in Procs
      BY <1>4, <1>5, <2>2 DEF Busy, Procs
    <3>2. CASE job[q].at \in Making
      <4>1. PICK pq \in Projects : job[q].project = pq /\ job'[q].project = pq
        BY <3>1, BusyJob DEF Types, Jobs
      <4>2. Made(q, pq) /\ pq \in issued /\ pq # p
        BY <1>1, <3>1, <3>2, <4>1 DEF Creations, Made
      <4>3. \A x \in Requests \ {q} : ~On(x, pq)'
        BY <1>4, <4>2 DEF Made, On, Busy, Procs
      <4>4. Made(q, pq)'
        BY <1>3, <3>1, <4>2, <4>3 DEF Made
      <4>5. pq \in issued'
        BY <1>1, <4>2
      <4>6. Made(q, job[q].project)'
        BY <4>1, <4>4 DEF Made, On
      <4>7. job'[q].at \in Making => job'[q].at \notin {"close", "disconnecting"}
        BY DEF Making
      <4> QED
        BY <3>1, <3>2, <4>1, <4>5, <4>6, <4>7
    <3>3. CASE job[q].at \notin Making
      BY <1>1, <3>1, <3>3 DEF Creations
    <3> QED
      BY <3>2, <3>3
  <2> QED
    BY <2>1, <2>2
<1> QED
  BY <1>1, <1>5 DEF Creations, redis

LEMMA CreationsNext == Types /\ Down /\ Creations /\ [Next]_vars => Creations'
<1> SUFFICES ASSUME Types, Down, Creations, [Next]_vars
             PROVE  Creations'
  OBVIOUS
<1>1. CASE Aside
  BY <1>1, AsideFollows, CreationsAside
<1>2. CASE Ended
  BY <1>2 DEF Ended, Creations, Busy, Idle, Procs, redis
<1>3. CASE Restart
  <2>1. \A p \in Projects : entry'[p] # 0 => p \in recorded
    BY <1>3, PoolTypesOf DEF Restart, Types, TypeOK
  <2> QED
    BY <1>3, <2>1 DEF Restart, Down, Creations, Busy, Procs, redis
<1>4. ASSUME NEW r \in Requests, Begin(r) \/ Creating(r) \/ Own(r)
      PROVE  Creations'
  BY <1>4, CreationsBegin, CreationsCreating
<1> QED
  BY <1>1, <1>2, <1>3, <1>4
     DEF Next, Request, Check, Failure, Crash, ConnectFails, Aside, Creating, Procs

-----------------------------------------------------------------------------
(* The channels are those of the projects.                                  *)

Unnoticed == Clear({"partial", "kept", "undeleted", "cut"})
Kept(r) ==
  LET p == job[r].project
  IN /\ job[r].at = "drop" => channels[p] = 0 /\ (p \in owned <=> p \in recorded)
     /\ job[r].at = "undo" => p \notin recorded \cup owned

LEMMA ChannelsInit == Init => ChannelsStand
<1> SUFFICES ASSUME Init PROVE ChannelsStand
  OBVIOUS
<1>1. \A r \in Requests : job[r].at = "idle"
  BY DEF Init, Idle, Procs
<1>2. \A p \in Projects : Agree(p)
  BY DEF Init, Agree
<1> QED
  BY <1>1, <1>2 DEF ChannelsStand

\* The requests other than r go on with what they had, and the projects other than p.
LEMMA ChannelsOf ==
  ASSUME Types, ChannelsStand, NEW r \in Requests, NEW p \in Projects,
         \A x \in Procs \ {r} : job'[x] = job[x],
         incidents \subseteq incidents',
         job[r].project = p \/ ~Busy(r),
         job'[r].at = "idle" \/ job'[r].project = p,
         \A q \in Projects \ {p} :
           /\ channels'[q] = channels[q]
           /\ q \in recorded' <=> q \in recorded
           /\ q \in owned' <=> q \in owned,
         Unnoticed' =>
           /\ Amid(p)' \/ Agree(p)'
           /\ \A x \in Requests : (Busy(x) \/ x = r) /\ job'[x].project = p => Kept(x)'
  PROVE  ChannelsStand'
<1> SUFFICES ASSUME Unnoticed'
             PROVE  /\ \A q \in Projects : Amid(q)' \/ Agree(q)'
                    /\ \A x \in Requests : Kept(x)'
  BY DEF ChannelsStand, Unnoticed, Kept
<1>1. Unnoticed
  BY DEF Unnoticed, Clear
<1>2. /\ \A q \in Projects : Amid(q) \/ Agree(q)
      /\ \A x \in Requests : Kept(x)
  BY <1>1 DEF ChannelsStand, Unnoticed, Kept
<1>3. ASSUME NEW q \in Projects PROVE Amid(q)' \/ Agree(q)'
  <2>1. CASE q = p
    BY <2>1
  <2>2. CASE q # p /\ Amid(q)
    <3>1. PICK x \in Requests : On(x, q) /\ job[x].at \in Tracking
      BY <2>2 DEF Amid
    <3>2. x # r
      BY <2>2, <3>1 DEF On, Busy
    <3> QED
      BY <3>1, <3>2 DEF Amid, On, Busy, Procs
  <2>3. CASE q # p /\ Agree(q)
    BY <2>3 DEF Agree
  <2> QED
    BY <1>2, <2>1, <2>2, <2>3
<1>4. ASSUME NEW x \in Requests PROVE Kept(x)'
  <2>1. CASE x # r
    <3>1. job'[x] = job[x] /\ x \in Procs
      BY <2>1 DEF Procs
    <3>2. CASE Busy(x) /\ job[x].project = p
      BY <3>1, <3>2
    <3>3. CASE Busy(x) /\ job[x].project # p
      <4>1. job[x].project \in Projects
        BY <3>1, <3>3, BusyJob DEF Types, Jobs
      <4> QED
        BY <1>2, <3>1, <3>3, <4>1 DEF Kept
    <3>4. CASE ~Busy(x)
      BY <3>1, <3>4 DEF Kept, Busy
    <3> QED
      BY <3>2, <3>3, <3>4
  <2>2. CASE x = r /\ job'[r].project = p
    BY <2>2
  <2>3. CASE x = r /\ job'[r].project # p
    BY <2>3 DEF Kept
  <2> QED
    BY <2>1, <2>2, <2>3
<1> QED
  BY <1>3, <1>4

LEMMA ChannelsAside ==
  ASSUME ChannelsStand, Aside, Types
  PROVE  ChannelsStand'
<1>1. /\ UNCHANGED <<redis, channels>> /\ incidents \subseteq incidents'
      /\ Stays /\ \A r \in Requests : Follows(r)
  BY AsideFollows
<1> SUFFICES ASSUME Unnoticed'
             PROVE  /\ \A q \in Projects : Amid(q)' \/ Agree(q)'
                    /\ \A x \in Requests : Kept(x)'
  BY DEF ChannelsStand, Unnoticed, Kept
<1>2. /\ \A q \in Projects : Amid(q) \/ Agree(q)
      /\ \A x \in Requests : Kept(x)
  BY <1>1 DEF ChannelsStand, Unnoticed, Kept, Clear
<1>3. ASSUME NEW q \in Projects PROVE Amid(q)' \/ Agree(q)'
  <2>1. CASE Amid(q)
    BY <1>1, <2>1 DEF Amid, On, Busy, Stays
  <2>2. CASE Agree(q)
    BY <1>1, <2>2 DEF Agree, redis
  <2> QED
    BY <1>2, <2>1, <2>2
<1>4. ASSUME NEW x \in Requests PROVE Kept(x)'
  <2>1. CASE job'[x].at \in {"drop", "undo"}
    <3>1. job[x].at = job'[x].at /\ job[x].project = job'[x].project
      BY <1>1, <2>1 DEF Follows, Busy, Tracking
    <3> QED
      BY <1>1, <1>2, <2>1, <3>1 DEF Kept, redis
  <2>2. CASE job'[x].at \notin {"drop", "undo"}
    BY <2>2 DEF Kept
  <2> QED
    BY <2>1, <2>2
<1> QED
  BY <1>3, <1>4

\* A request that was no part of a creation or deletion, and is none.
LEMMA Undisturbed ==
  ASSUME NEW r \in Requests, NEW p, UNCHANGED <<redis, channels>>,
         \A x \in Procs \ {r} : job'[x] = job[x],
         job[r].at \notin Tracking, job'[r].at = "idle",
         Amid(p) \/ Agree(p), \A x \in Requests : Kept(x)
  PROVE  /\ Amid(p)' \/ Agree(p)'
         /\ \A x \in Requests : Kept(x)'
<1>1. Amid(p) => Amid(p)'
  BY DEF Amid, On, Busy, Procs
<1>2. Agree(p) => Agree(p)'
  BY DEF Agree, redis
<1>3. ASSUME NEW x \in Requests PROVE Kept(x)'
  <2>1. x # r => job'[x] = job[x]
    BY DEF Procs
  <2> QED
    BY <2>1 DEF Kept, redis
<1> QED
  BY <1>1, <1>2, <1>3

LEMMA ChannelsCreating ==
  ASSUME Types, Creations, ChannelsStand, NEW r \in Requests, Creating(r) \/ Own(r)
  PROVE  ChannelsStand'
<1>1. Jobs /\ Busy(r) /\ r \in Procs
  BY DEF Types, TypeOK, Creating, Busy, At, Channel, Announce, SetRecord, Warm, Undo, Wipe, DropRecord,
         ChannelFails, CreateFails, WipeFails, Own, Procs
<1>2. PICK p \in Projects : job[r].project = p
  BY <1>1, BusyJob DEF Jobs
<1>3. channels \in [Projects -> 0..AllChannels] /\ incidents \subseteq incidents'
  BY DEF Types, TypeOK, Creating, Channel, Announce, SetRecord, Warm, Undo, Wipe, DropRecord,
         ChannelFails, CreateFails, WipeFails, Own, Mark
<1>4. /\ job[r].at \in Making => Made(r, p)
      /\ \A x \in Requests : On(x, p) /\ job[x].at \in Making => Made(x, p)
  BY <1>1, <1>2 DEF Creations, On
<1>5. \/ End(r)
      \/ \E label \in Asking : Goto(r, label)
  BY DEF Creating, Channel, Announce, SetRecord, Warm, Undo, Wipe, DropRecord,
         ChannelFails, CreateFails, WipeFails, Own, Asking, Making
<1>6. /\ \A x \in Procs \ {r} : job'[x] = job[x]
      /\ job'[r].at = "idle" \/ job'[r].project = p
  BY <1>1, <1>2, <1>5, AskNow, EndJobs DEF Now, Over
<1>7. \A q \in Projects \ {p} :
        /\ channels'[q] = channels[q]
        /\ q \in recorded' <=> q \in recorded
        /\ q \in owned' <=> q \in owned
  BY <1>2, <1>3 DEF Creating, Channel, Announce, SetRecord, Warm, Undo, Wipe, DropRecord,
         ChannelFails, CreateFails, WipeFails, Own, redis
<1> SUFFICES ASSUME Unnoticed'
             PROVE  /\ Amid(p)' \/ Agree(p)'
                    /\ \A x \in Requests : (Busy(x) \/ x = r) /\ job'[x].project = p => Kept(x)'
  BY <1>1, <1>2, <1>3, <1>6, <1>7, ChannelsOf
<1>8. /\ Unnoticed
      /\ Amid(p) \/ Agree(p)
      /\ \A x \in Requests : Kept(x)
  BY <1>3 DEF ChannelsStand, Unnoticed, Kept, Clear
\* A creation before the owner's list: nobody else has the project.
<1>9. ASSUME Made(r, p), job'[r].at = "idle" \/ job'[r].at \in Tracking, Kept(r)',
             job'[r].at = "idle" => Agree(p)'
      PROVE  /\ Amid(p)' \/ Agree(p)'
             /\ \A x \in Requests : (Busy(x) \/ x = r) /\ job'[x].project = p => Kept(x)'
  <2>1. Amid(p)' \/ Agree(p)'
    <3>1. CASE job'[r].at = "idle"
      BY <1>9, <3>1
    <3>2. CASE job'[r].at # "idle"
      BY <1>6, <1>9, <3>2 DEF Amid, On, Busy
    <3> QED
      BY <3>1, <3>2
  <2>2. \A x \in Requests \ {r} : Busy(x) => job'[x].project # p
    BY <1>6, <1>9 DEF Made, On, Procs
  <2> QED
    BY <1>9, <2>1, <2>2
<1>10. CASE Channel(r)
  <2>1. job[r].at = "channel" /\ job'[r].at \in {"channel", "announce"}
    <3>1. PICK label \in {"announce", "channel"} : job[r].at = "channel" /\ Goto(r, label)
      BY <1>10 DEF Channel, At
    <3> QED
      BY <1>1, <3>1, AskNow DEF Now, Asking, Making
  <2> QED
    BY <1>4, <1>9, <2>1 DEF Making, Tracking, Kept
<1>11. CASE Announce(r) \/ SetRecord(r)
  <2>1. job[r].at \in Making /\ job'[r].at \in {"set", "own"}
    BY <1>1, <1>11, AskNow DEF Announce, SetRecord, At, Now, Asking, Making
  <2> QED
    BY <1>4, <1>9, <2>1 DEF Making, Tracking, Kept
<1>12. CASE Own(r)
  <2>1. job[r].at = "own" /\ job'[r].at = "warm" /\ Made(r, p)
    BY <1>1, <1>4, <1>12, AskNow DEF Own, At, Now, Asking, Making
  <2>2. Agree(p)'
    BY <1>2, <1>12, <2>1 DEF Own, Agree, Made
  <2>3. \A x \in Requests \ {r} : Busy(x) => job'[x].project # p
    BY <1>6, <2>1 DEF Made, On, Procs
  <2> QED
    BY <2>1, <2>2, <2>3 DEF Kept
<1>13. CASE Warm(r)
  <2>1. job[r].at = "warm" /\ job'[r].at = "idle" /\ UNCHANGED <<redis, channels>>
    BY <1>1, <1>13, EndJobs DEF Warm, At, Over
  <2> QED
    BY <1>6, <1>8, <2>1, Undisturbed DEF Tracking, Making
<1>14. CASE Undo(r)
  <2>1. job[r].at = "undo" /\ job'[r].at = "idle" /\ UNCHANGED redis /\ channels'[p] = 0
    BY <1>1, <1>2, <1>3, <1>14, EndJobs DEF Undo, At, Over, Remaining
  <2>2. p \notin recorded \cup owned
    BY <1>2, <1>8, <2>1 DEF Kept
  <2>3. Agree(p)'
    BY <2>1, <2>2 DEF Agree, redis
  <2> QED
    BY <2>1, <2>2, <2>3 DEF Kept, redis
<1>15. CASE Wipe(r)
  <2>1. job[r].at = "wipe" /\ job'[r].at = "drop" /\ UNCHANGED redis /\ channels'[p] = 0
    BY <1>1, <1>2, <1>3, <1>15, AskNow DEF Wipe, At, Now, Remaining, Asking, Making
  <2>2. p \in owned <=> p \in recorded
    <3>1. CASE Amid(p)
      <4>1. PICK x \in Requests : On(x, p) /\ job[x].at \in Tracking
        BY <3>1 DEF Amid
      <4>2. job[x].at \notin Making
        BY <1>1, <1>2, <1>4, <2>1, <4>1 DEF Made, On, Making
      <4> QED
        BY <1>8, <4>1, <4>2 DEF Kept, On, Tracking
    <3> QED
      BY <1>8, <3>1 DEF Agree
  <2>3. Amid(p)'
    BY <1>6, <2>1 DEF Amid, On, Busy, Tracking
  <2>4. ASSUME NEW x \in Requests, job'[x].project = p PROVE Kept(x)'
    <3>1. x # r => job'[x] = job[x]
      BY <1>6 DEF Procs
    <3> QED
      BY <1>8, <2>1, <2>2, <2>4, <3>1 DEF Kept, redis
  <2> QED
    BY <2>3, <2>4
<1>16. CASE DropRecord(r)
  <2>1. /\ job[r].at = "drop" /\ job'[r].at = "close" /\ channels' = channels
        /\ recorded' = recorded \ {p} /\ owned' = owned \ {p}
    BY <1>1, <1>2, <1>16, AskNow DEF DropRecord, At, Now, Asking, Making
  <2>2. channels[p] = 0
    BY <1>2, <1>8, <2>1 DEF Kept
  <2> QED
    BY <2>1, <2>2 DEF Agree, Kept
<1>17. CASE ChannelFails(r)
  <2>1. /\ job[r].at = "channel" /\ job'[r].at = "idle" /\ UNCHANGED <<redis, channels>>
        /\ Mark(When(channels[p] > 0, "partial"))
    BY <1>1, <1>2, <1>17, EndJobs DEF ChannelFails, At, Over
  <2>2. channels[p] = 0 /\ Made(r, p)
    BY <1>3, <1>4, <2>1 DEF Unnoticed, Clear, Mark, When, Making
  <2>3. Agree(p)'
    BY <2>1, <2>2 DEF Agree, Made, redis
  <2> QED
    BY <1>9, <2>1, <2>2, <2>3 DEF Kept
<1>18. CASE CreateFails(r)
  <2>1. /\ job[r].at \in {"announce", "set", "own", "warm"} /\ job'[r].at = "undo"
        /\ UNCHANGED <<redis, channels>>
        /\ Mark(When(job[r].at \in {"own", "warm"}, "kept"))
    BY <1>1, <1>18, AskNow DEF CreateFails, At, Now, Asking, Making
  <2>2. job[r].at \in {"announce", "set"} /\ Made(r, p)
    BY <1>4, <2>1 DEF Unnoticed, Clear, Mark, When, Making
  <2>3. p \notin recorded \cup owned
    BY <2>2 DEF Made
  <2>4. Kept(r)'
    BY <1>6, <2>1, <2>3 DEF Kept, redis
  <2> QED
    BY <1>9, <2>1, <2>2, <2>4 DEF Tracking
<1>19. ~WipeFails(r)
  BY DEF WipeFails, Mark, Unnoticed, Clear
<1> QED
  BY <1>10, <1>11, <1>12, <1>13, <1>14, <1>15, <1>16, <1>17, <1>18, <1>19 DEF Creating

LEMMA ChannelsNext ==
  Types /\ Down /\ Creations /\ ChannelsStand /\ [Next]_vars => ChannelsStand'
<1> SUFFICES ASSUME Types, Down, Creations, ChannelsStand, [Next]_vars
             PROVE  ChannelsStand'
  OBVIOUS
<1>1. CASE Aside
  BY <1>1, ChannelsAside
<1>2. CASE Ended
  <2>1. \A r \in Requests : job'[r].at = "idle"
    BY <1>2 DEF Ended, Idle, Procs
  <2>2. ASSUME Unnoticed', NEW p \in Projects
        PROVE  Agree(p)'
    <3>1. ~Amid(p)
      <4> SUFFICES ASSUME NEW r \in Requests, On(r, p), job[r].at \in Tracking
                   PROVE  FALSE
        BY DEF Amid
      <4>1. job[r] # Idle
        BY DEF On, Busy, Idle
      <4>2. "cut" \in incidents'
        BY <1>2, <4>1 DEF Ended, Mark, When, Tracking, Making, Procs
      <4> QED
        BY <2>2, <4>2 DEF Unnoticed, Clear
    <3>2. Agree(p)
      BY <1>2, <2>2, <3>1 DEF ChannelsStand, Unnoticed, Clear, Ended, Mark
    <3> QED
      BY <1>2, <3>2 DEF Agree, Ended, redis
  <2> QED
    BY <2>1, <2>2 DEF ChannelsStand, Unnoticed
<1>3. CASE Restart
  <2>1. /\ UNCHANGED <<recorded, owned, channels, job, incidents>>
    BY <1>3 DEF Restart, redis
  <2> QED
    BY <2>1 DEF ChannelsStand, Agree, Amid, On, Busy, Clear
<1>4. ASSUME NEW r \in Requests, Begin(r)
      PROVE  ChannelsStand'
  <2>1. PICK p \in Projects, label \in {"enter", "channel", "wipe"} :
          /\ job[r].at = "idle" /\ UNCHANGED <<redis, channels, incidents>>
          /\ Now(r, label, p, 0, 0, "")
    BY <1>4, BeginAsks
  <2>2. /\ \A x \in Procs \ {r} : job'[x] = job[x]
        /\ job'[r].at = label /\ job'[r].project = p /\ r \in Procs
    BY <2>1 DEF Now, Procs
  <2>3. ASSUME Unnoticed'
        PROVE  /\ Amid(p)' \/ Agree(p)'
               /\ \A x \in Requests : (Busy(x) \/ x = r) /\ job'[x].project = p => Kept(x)'
    <3>1. /\ Amid(p) \/ Agree(p)
          /\ \A x \in Requests : Kept(x)
      <4>1. Unnoticed
        BY <2>1, <2>3 DEF Unnoticed, Clear
      <4> QED
        BY <4>1 DEF ChannelsStand, Unnoticed, Kept
    <3>2. Amid(p) => Amid(p)'
      <4> SUFFICES ASSUME NEW x \in Requests, On(x, p), job[x].at \in Tracking
                   PROVE  Amid(p)'
        BY DEF Amid
      <4>1. x # r
        BY <2>1 DEF On, Busy
      <4> QED
        BY <2>2, <4>1 DEF Amid, On, Busy, Procs
    <3>3. Agree(p) => Agree(p)'
      BY <2>1 DEF Agree, redis
    <3>4. ASSUME NEW x \in Requests PROVE Kept(x)'
      <4>1. x # r => job'[x] = job[x]
        BY <2>2 DEF Procs
      <4> QED
        BY <2>1, <2>2, <3>1, <4>1 DEF Kept, redis
    <3> QED
      BY <3>1, <3>2, <3>3, <3>4
  <2> QED
    BY <2>1, <2>2, <2>3, ChannelsOf DEF Busy, redis
<1>5. ASSUME NEW r \in Requests, Creating(r) \/ Own(r)
      PROVE  ChannelsStand'
  BY <1>5, ChannelsCreating
<1> QED
  BY <1>1, <1>2, <1>3, <1>4, <1>5
     DEF Next, Request, Check, Failure, Crash, ConnectFails, Aside, Creating, Procs

-----------------------------------------------------------------------------
(* The connections are those of the entries.                                *)

Unbroken == Clear({"closed_early", "crossed", "unclosed"})
Wanted(k) == \E p \in Projects : entry[p] = k
PoolStands == ConnectsOnce /\ ConnectionsHeld

LEMMA PoolInit == Init => PoolStands
<1> SUFFICES ASSUME Init PROVE PoolStands
  OBVIOUS
<1>1. \A k \in Providers : provider[k].connecting => ~provider[k].connected /\ Wanted(k)
  BY PoolTypesOf DEF Init, Wanted
<1> QED
  BY <1>1 DEF Init, PoolStands, ConnectsOnce, ConnectionsHeld, Wanted

\* ensureConnected asks for a connection of p, where there is none.
LEMMA PoolWants ==
  ASSUME PoolTypes, PoolStands, NEW p \in Projects, entry[p] # 0,
         provider' = [provider EXCEPT ![entry[p]].connecting = @ \/ ~provider[entry[p]].connected],
         UNCHANGED <<entry, live>>, incidents \subseteq incidents'
  PROVE  PoolStands'
<1> DEFINE k == entry[p]
<1>1. k \in Providers
  BY DEF PoolTypes
<1>2. /\ provider'[k].connecting = (provider[k].connecting \/ ~provider[k].connected)
      /\ \A x \in Providers : provider'[x].connected = provider[x].connected
                              /\ provider'[x].client = provider[x].client
      /\ \A x \in Providers \ {k} : provider'[x] = provider[x]
  BY <1>1 DEF PoolTypes, Provider
<1>3. ConnectsOnce'
  BY <1>2 DEF PoolStands, ConnectsOnce
<1>4. ConnectionsHeld'
  <2> SUFFICES ASSUME Unbroken'
               PROVE  /\ \A x \in Providers : provider'[x].connecting => Wanted(x)'
                      /\ \A c \in live' : Held(c)'
    BY DEF ConnectionsHeld, Unbroken, Wanted
  <2>1. /\ \A x \in Providers : provider[x].connecting => Wanted(x)
        /\ \A c \in live : Held(c)
    BY DEF PoolStands, ConnectionsHeld, Unbroken, Wanted, Clear
  <2>2. \A c \in live : Held(c)'
    BY <1>2, <2>1 DEF Held, PoolTypes
  <2> QED
    BY <1>2, <2>1, <2>2 DEF Wanted
<1> QED
  BY <1>3, <1>4 DEF PoolStands

LEMMA PoolRegisters ==
  ASSUME PoolTypes, PoolStands, NEW p \in Projects, entry[p] = 0, Registered(p),
         live' = live, incidents \subseteq incidents'
  PROVE  PoolStands'
<1> DEFINE k == FreeProvider
<1>1. /\ k \in Providers /\ \A q \in Projects : entry[q] # k
      /\ entry' = [entry EXCEPT ![p] = k] /\ provider' = [provider EXCEPT ![k] = NewProvider]
  BY FreeIsFree DEF Registered
<1> HIDE DEF k
<1>2. ConnectsOnce'
  BY <1>1 DEF PoolStands, ConnectsOnce, PoolTypes, NewProvider
<1>3. ConnectionsHeld'
  <2> SUFFICES ASSUME Unbroken'
               PROVE  /\ \A x \in Providers : provider'[x].connecting => Wanted(x)'
                      /\ \A c \in live' : Held(c)'
    BY DEF ConnectionsHeld, Unbroken, Wanted
  <2>1. /\ \A x \in Providers : provider[x].connecting => Wanted(x)
        /\ \A c \in live : Held(c)
    BY DEF PoolStands, ConnectionsHeld, Unbroken, Wanted, Clear
  <2>2. ASSUME NEW x \in Providers, provider'[x].connecting PROVE Wanted(x)'
    <3>1. CASE x = k
      BY <1>1, <3>1 DEF Wanted, PoolTypes
    <3>2. CASE x # k
      <4>1. PICK q \in Projects : entry[q] = x
        BY <1>1, <2>1, <2>2, <3>2 DEF Wanted, PoolTypes
      <4>2. x # 0
        BY SessionsAssumption
      <4> QED
        BY <1>1, <4>1, <4>2 DEF Wanted, PoolTypes
    <3> QED
      BY <3>1, <3>2
  <2>3. \A c \in live : Held(c)'
    BY <1>1, <2>1 DEF Held, PoolTypes
  <2> QED
    BY <2>2, <2>3
<1> QED
  BY <1>2, <1>3 DEF PoolStands

\* An entry goes; its provider, if it has any, has no connection and is making none.
LEMMA PoolForgets ==
  ASSUME PoolTypes, PoolStands, NEW p \in Projects, entry' = [entry EXCEPT ![p] = 0],
         Unbroken' => entry[p] = 0 \/ (~provider[entry[p]].connected /\ ~provider[entry[p]].connecting),
         UNCHANGED <<provider, live>>, incidents \subseteq incidents'
  PROVE  PoolStands'
<1>1. ConnectsOnce'
  BY DEF PoolStands, ConnectsOnce
<1>2. ConnectionsHeld'
  <2> SUFFICES ASSUME Unbroken'
               PROVE  /\ \A x \in Providers : provider[x].connecting => Wanted(x)'
                      /\ \A c \in live : Held(c)'
    BY DEF ConnectionsHeld, Unbroken, Wanted
  <2>1. /\ \A x \in Providers : provider[x].connecting => Wanted(x)
        /\ \A c \in live : Held(c)
    BY DEF PoolStands, ConnectionsHeld, Unbroken, Wanted, Clear
  <2>2. ASSUME NEW x \in Providers, provider[x].connecting PROVE Wanted(x)'
    <3>1. PICK q \in Projects : entry[q] = x
      BY <2>1, <2>2 DEF Wanted
    <3>2. x # 0
      BY SessionsAssumption
    <3>3. q # p
      BY <2>2, <3>1, <3>2
    <3> QED
      BY <3>1, <3>3 DEF Wanted, PoolTypes
  <2>3. ASSUME NEW c \in live PROVE Held(c)'
    <3>1. PICK q \in Projects :
            /\ entry[q] # 0
            /\ provider[entry[q]].connected /\ provider[entry[q]].client = c
      BY <2>1 DEF Held
    <3>2. q # p
      BY <3>1
    <3> QED
      BY <3>1, <3>2 DEF Held, PoolTypes
  <2> QED
    BY <2>2, <2>3
<1> QED
  BY <1>1, <1>2 DEF PoolStands

LEMMA PoolStays ==
  ASSUME PoolStands, UNCHANGED <<entry, provider, live>>, incidents \subseteq incidents'
  PROVE  PoolStands'
<1>1. Unbroken' => Unbroken
  BY DEF Unbroken, Clear
<1> QED
  BY <1>1 DEF PoolStands, ConnectsOnce, ConnectionsHeld, Unbroken, Held

LEMMA PoolEnsures ==
  ASSUME PoolTypes, PoolStands, NEW q \in Procs, NEW p \in Projects, NEW label,
         Ensure(q, p, label), live' = live, incidents \subseteq incidents'
  PROVE  PoolStands'
<1>1. CASE entry[p] = 0
  <2>1. Registered(p)
    BY <1>1 DEF Ensure
  <2> QED
    BY <1>1, <2>1, PoolRegisters
<1>2. CASE entry[p] # 0
  <2>1. /\ provider' = [provider EXCEPT ![entry[p]].connecting = @ \/ ~provider[entry[p]].connected]
        /\ entry' = entry
    BY <1>2 DEF Ensure
  <2> QED
    BY <1>2, <2>1, PoolWants
<1> QED
  BY <1>1, <1>2

\* A client is gone, and with it the connection of the provider it was disconnected for; an
\* entry that goes too is that provider's.
LEMMA PoolDisconnects ==
  ASSUME Types, PoolStands, NEW q \in Procs, Disconnected(q)
  PROVE  PoolStands'
<1>1. Jobs /\ PoolTypes
  BY DEF Types, TypeOK, PoolTypes
<1>2. PICK k, c, p : k = job[q].provider /\ c = job[q].client /\ p = job[q].project
  OBVIOUS
<1>3. /\ job[q].at = "disconnecting" /\ Resume(q) /\ live' = live \ {c}
      /\ provider' = [provider EXCEPT ![k].connected = FALSE]
      /\ incidents' = incidents
           \cup When(provider[k].connected /\ provider[k].client # c, "crossed") \cup Early(q)
  BY <1>2 DEF Disconnected, At, Mark
<1>4. Busy(q) /\ k \in Providers
  <2>1. Busy(q)
    BY <1>3 DEF Busy
  <2> QED
    BY <1>1, <1>2, <1>3, <2>1 DEF Jobs, Procs, AsksFor, ChecksOn, Asking, Making
<1>5. /\ provider'[k].connecting = provider[k].connecting /\ ~provider'[k].connected
      /\ \A x \in Providers : provider'[x].connecting = provider[x].connecting
      /\ \A x \in Providers \ {k} : provider'[x] = provider[x]
  BY <1>1, <1>3, <1>4 DEF PoolTypes, Provider
<1>6. \/ entry' = entry
      \/ entry' = [entry EXCEPT ![p] = 0] /\ job[q].after = "remove" /\ p \in Projects
  <2>1. job[q].project \in Projects
    BY <1>1, <1>4, BusyJob DEF Jobs
  <2> QED
    BY <1>2, <1>3, <2>1 DEF Resume
<1>7. ConnectsOnce'
  BY <1>5 DEF PoolStands, ConnectsOnce
<1>8. ConnectionsHeld'
  <2> SUFFICES ASSUME Unbroken'
               PROVE  /\ \A x \in Providers : provider'[x].connecting => Wanted(x)'
                      /\ \A d \in live' : Held(d)'
    BY DEF ConnectionsHeld, Unbroken, Wanted
  <2>1. /\ \A x \in Providers : provider[x].connecting => Wanted(x)
        /\ \A d \in live : Held(d)
    BY <1>3 DEF PoolStands, ConnectionsHeld, Unbroken, Wanted, Clear
  <2>2. provider[k].connected => provider[k].client = c
    BY <1>3 DEF Unbroken, Clear, When
  <2>3. entry' # entry => entry[p] = 0 \/ (entry[p] = k /\ ~provider[k].connecting)
    <3>1. Early(q) \cap {"closed_early"} = {}
      BY <1>3 DEF Unbroken, Clear
    <3> QED
      BY <1>2, <1>6, <3>1 DEF Early, When
  <2>4. ASSUME NEW x \in Providers, provider'[x].connecting PROVE Wanted(x)'
    <3>1. PICK s \in Projects : entry[s] = x
      BY <1>5, <2>1, <2>4 DEF Wanted
    <3>2. x # 0 /\ provider[x].connecting
      BY <1>5, <2>4, SessionsAssumption
    <3>3. entry'[s] = x
      BY <1>1, <1>6, <2>3, <3>1, <3>2 DEF PoolTypes
    <3> QED
      BY <3>3 DEF Wanted
  <2>5. ASSUME NEW d \in live' PROVE Held(d)'
    <3>1. PICK s \in Projects :
            /\ entry[s] # 0
            /\ provider[entry[s]].connected /\ provider[entry[s]].client = d
      BY <1>3, <2>1, <2>5 DEF Held
    <3>2. entry[s] \in Providers
      BY <1>1, <3>1 DEF PoolTypes
    <3>3. entry[s] # k
      BY <1>3, <2>2, <2>5, <3>1
    <3>4. entry'[s] = entry[s]
      BY <1>1, <1>6, <2>3, <3>1, <3>3 DEF PoolTypes
    <3> QED
      BY <1>5, <3>1, <3>2, <3>3, <3>4 DEF Held
  <2> QED
    BY <2>4, <2>5
<1> QED
  BY <1>7, <1>8 DEF PoolStands

LEMMA PoolConnects ==
  ASSUME PoolTypes, PoolStands, NEW k \in Providers,
         ConnectDone(k) \/ (ConnectFails(k) /\ ~provider[k].floating)
  PROVE  PoolStands'
<1>1. PICK new \in [client : Clients \cup {0}, connected : BOOLEAN] :
        /\ provider'[k].client = new.client /\ provider'[k].connected = new.connected
        /\ ~provider'[k].connecting
        /\ \A x \in Providers \ {k} : provider'[x] = provider[x]
        /\ live' = live \/ (live' = live \cup {new.client} /\ new.connected)
  <2>1. CASE ConnectDone(k)
    <3>1. FreeClient \in Clients
      BY <2>1, FreeClientFree DEF ConnectDone
    <3>2. /\ provider'[k].client = FreeClient /\ provider'[k].connected = TRUE
          /\ provider'[k].connecting = FALSE
          /\ \A x \in Providers \ {k} : provider'[x] = provider[x]
          /\ live' = live \cup {FreeClient}
      BY <2>1 DEF ConnectDone, Settled, PoolTypes, Provider
    <3> DEFINE n == [client |-> FreeClient, connected |-> TRUE]
    <3>3. n \in [client : Clients \cup {0}, connected : BOOLEAN]
      BY <3>1
    <3> QED
      BY <3>2, <3>3
  <2>2. CASE ConnectFails(k) /\ ~provider[k].floating
    <3>1. provider' = [provider EXCEPT ![k] = Settled(@, FALSE)] /\ live' = live
      BY <2>2 DEF ConnectFails, telegram
    <3>2. provider[k].client \in Clients \cup {0} /\ provider[k].connected \in BOOLEAN
      BY DEF PoolTypes, Provider
    <3>3. /\ provider'[k].client = provider[k].client
          /\ provider'[k].connected = provider[k].connected
          /\ provider'[k].connecting = FALSE
          /\ \A x \in Providers \ {k} : provider'[x] = provider[x]
      BY <3>1 DEF PoolTypes, Provider, Settled
    <3> DEFINE n == [client |-> provider[k].client, connected |-> provider[k].connected]
    <3>4. n \in [client : Clients \cup {0}, connected : BOOLEAN]
      BY <3>2
    <3> QED
      BY <3>1, <3>3, <3>4
  <2> QED
    BY <2>1, <2>2
<1>2. UNCHANGED <<entry, incidents>> /\ provider[k].connecting
  BY DEF ConnectDone, ConnectFails
<1>3. ConnectsOnce'
  BY <1>1 DEF PoolStands, ConnectsOnce
<1>4. ConnectionsHeld'
  <2> SUFFICES ASSUME Unbroken'
               PROVE  /\ \A x \in Providers : provider'[x].connecting => Wanted(x)'
                      /\ \A d \in live' : Held(d)'
    BY DEF ConnectionsHeld, Unbroken, Wanted
  <2>1. /\ \A x \in Providers : provider[x].connecting => Wanted(x)
        /\ \A d \in live : Held(d)
    BY <1>2 DEF PoolStands, ConnectionsHeld, Unbroken, Wanted, Clear
  <2>2. ~provider[k].connected
    BY <1>2 DEF PoolStands, ConnectsOnce
  <2>3. ASSUME NEW d \in live PROVE Held(d)'
    <3>1. PICK s \in Projects :
            /\ entry[s] # 0
            /\ provider[entry[s]].connected /\ provider[entry[s]].client = d
      BY <2>1, <2>3 DEF Held
    <3>2. entry[s] \in Providers \ {k}
      BY <2>2, <3>1 DEF PoolTypes
    <3> QED
      BY <1>1, <1>2, <3>1, <3>2 DEF Held
  <2>4. new.connected => Held(new.client)'
    <3>1. PICK s \in Projects : entry[s] = k
      BY <1>2, <2>1 DEF Wanted
    <3>2. k # 0
      BY SessionsAssumption
    <3> QED
      BY <1>1, <1>2, <3>1, <3>2 DEF Held
  <2>5. \A x \in Providers : provider'[x].connecting => Wanted(x)'
    BY <1>1, <1>2, <2>1 DEF Wanted
  <2> QED
    BY <1>1, <2>3, <2>4, <2>5
<1> QED
  BY <1>3, <1>4 DEF PoolStands

LEMMA PoolNext ==
  Types /\ Down /\ PoolStands /\ [Next]_vars => PoolStands'
<1> SUFFICES ASSUME Types, Down, PoolStands, [Next]_vars
             PROVE  PoolStands'
  OBVIOUS
<1>1. Jobs /\ PoolTypes
  BY DEF Types, TypeOK, PoolTypes
<1>2. CASE UNCHANGED vars
  BY <1>2, PoolStays DEF vars, telegram
<1>3. CASE Ended
  <2>1. /\ \A k \in Providers : ~provider'[k].connecting
        /\ live' = {}
    BY <1>3 DEF Ended, NoProvider
  <2> QED
    BY <2>1 DEF PoolStands, ConnectsOnce, ConnectionsHeld
<1>4. CASE Restart
  <2>1. /\ \A k \in Providers : provider'[k].connecting => ~provider'[k].connected /\ Wanted(k)'
        /\ live' = {}
    <3>1. recorded \in SUBSET Projects
      BY DEF Types, TypeOK
    <3>2. entry' = Entries(recorded) /\ provider' = Connecting(recorded)
          /\ ~up /\ live' = live
      BY <1>4 DEF Restart, telegram
    <3> QED
      BY <3>1, <3>2, PoolTypesOf DEF Down, Wanted
  <2> QED
    BY <2>1 DEF PoolStands, ConnectsOnce, ConnectionsHeld, Wanted
<1>5. ASSUME NEW r \in Requests, Begin(r) \/ Use(r) \/ Creating(r)
      PROVE  PoolStands'
  BY <1>5, PoolStays DEF Begin, Use, Creating, Channel, Announce, SetRecord, Warm, Undo, Wipe, DropRecord,
         ChannelFails, CreateFails, WipeFails, telegram, Mark
<1>6. ASSUME NEW r \in Requests, Enter(r)
      PROVE  PoolStands'
  <2>1. job[r].project \in Projects /\ r \in Procs
    BY <1>1, <1>6, BusyJob DEF Enter, At, Busy, Jobs, Procs
  <2>2. Ensure(r, job[r].project, "use") /\ live' = live /\ incidents \subseteq incidents'
    BY <1>6 DEF Enter, telegram, Mark
  <2> QED
    BY <1>1, <2>1, <2>2, PoolEnsures
<1>7. ASSUME NEW r \in Requests, Own(r)
      PROVE  PoolStands'
  <2>1. job[r].project \in Projects
    BY <1>1, <1>7, BusyJob DEF Own, At, Busy, Jobs, Procs
  <2>2. /\ IF entry[job[r].project] = 0 THEN Registered(job[r].project) ELSE UNCHANGED <<entry, provider>>
        /\ live' = live /\ incidents' = incidents
    BY <1>7 DEF Own, telegram
  <2>3. CASE entry[job[r].project] = 0
    BY <1>1, <2>1, <2>2, <2>3, PoolRegisters
  <2>4. CASE entry[job[r].project] # 0
    BY <2>2, <2>4, PoolStays
  <2> QED
    BY <2>3, <2>4
<1>8. ASSUME NEW r \in Requests, Close(r)
      PROVE  PoolStands'
  <2>1. PICK p \in Projects : job[r].project = p
    BY <1>1, <1>8, BusyJob DEF Close, At, Busy, Jobs, Procs
  <2>2. UNCHANGED <<provider, live>>
    BY <1>8 DEF Close, telegram
  <2>3. \/ entry' = entry /\ incidents' = incidents
        \/ /\ entry[p] # 0 => ~provider[entry[p]].connected
           /\ entry' = [entry EXCEPT ![p] = 0]
           /\ Mark(When(entry[p] # 0 /\ provider[entry[p]].connecting, "closed_early"))
    BY <1>1, <1>8, <2>1, CloseNow
  <2>4. CASE entry' = entry /\ incidents' = incidents
    BY <2>2, <2>4, PoolStays
  <2>5. ASSUME entry[p] # 0 => ~provider[entry[p]].connected,
               entry' = [entry EXCEPT ![p] = 0],
               Mark(When(entry[p] # 0 /\ provider[entry[p]].connecting, "closed_early"))
        PROVE  PoolStands'
    <3>1. /\ incidents \subseteq incidents'
          /\ Unbroken' => entry[p] = 0
                \/ (~provider[entry[p]].connected /\ ~provider[entry[p]].connecting)
      BY <2>5 DEF Mark, When, Unbroken, Clear
    <3> QED
      BY <1>1, <2>2, <2>5, <3>1, PoolForgets
  <2> QED
    BY <2>3, <2>4, <2>5
<1>9. ASSUME NEW q \in Procs, Disconnected(q) \/ DisconnectFails(q)
      PROVE  PoolStands'
  <2>1. CASE Disconnected(q)
    BY <2>1, PoolDisconnects
  <2>2. CASE DisconnectFails(q)
    <3>1. "unclosed" \in incidents' /\ provider' = provider
      BY <2>2 DEF DisconnectFails, Mark
    <3> QED
      BY <3>1 DEF PoolStands, ConnectsOnce, ConnectionsHeld, Clear
  <2> QED
    BY <1>9, <2>1, <2>2
<1>10. ASSUME NEW c \in Checks, Tick(c) \/ Probe(c) \/ Recover(c)
       PROVE  PoolStands'
  BY <1>10, PoolStays DEF Tick, Probe, Recover, telegram
<1>11. ASSUME NEW c \in Checks, CheckNext(c)
       PROVE  PoolStands'
  <2> DEFINE left == {p \in Projects : entry[p] # 0} \ job[c].visited
             p == CHOOSE x \in left : TRUE
  <2>1. CASE left = {}
    BY <1>11, <2>1, PoolStays DEF CheckNext, telegram
  <2>2. CASE left # {}
    <3>1. p \in Projects /\ entry[p] # 0
      BY <2>2
    <3>2. /\ provider' = [provider EXCEPT ![entry[p]].connecting = @ \/ ~provider[entry[p]].connected]
          /\ UNCHANGED <<entry, live, incidents>>
      BY <1>11, <2>2 DEF CheckNext, telegram
    <3> HIDE DEF p
    <3> QED
      BY <1>1, <3>1, <3>2, PoolWants
  <2> QED
    BY <2>1, <2>2
<1>12. ASSUME NEW c \in Checks, Again(c)
       PROVE  PoolStands'
  <2>1. job[c].project \in Projects /\ c \in Procs
    BY <1>1, <1>12, BusyJob DEF Again, At, Busy, Jobs, Procs
  <2>2. /\ live' = live /\ incidents' = incidents
        /\ UNCHANGED <<entry, provider>> \/ Ensure(c, job[c].project, "next")
    BY <1>12 DEF Again, telegram
  <2> QED
    BY <1>1, <2>1, <2>2, PoolEnsures, PoolStays
<1>13. ASSUME NEW k \in Providers, ConnectDone(k) \/ (ConnectFails(k) /\ ~provider[k].floating)
       PROVE  PoolStands'
  BY <1>1, <1>13, PoolConnects
<1>14. ASSUME NEW c \in Clients, Break(c)
       PROVE  PoolStands'
  BY <1>14, PoolStays DEF Break
<1> QED
  BY <1>2, <1>3, <1>4, <1>5, <1>6, <1>7, <1>8, <1>9, <1>10, <1>11, <1>12, <1>13, <1>14
     DEF Next, Request, Check, Failure, Crash, ConnectFails, Creating, Procs

-----------------------------------------------------------------------------
(* The entries are those of the records.                                    *)

LEMMA EntriesInit == Init => EntriesStand
<1> SUFFICES ASSUME Init PROVE EntriesStand
  OBVIOUS
<1>1. \A p \in Projects : entry[p] # 0 <=> p \in recorded
  BY PoolTypesOf DEF Init
<1> QED
  BY <1>1 DEF EntriesStand

Steady == Clear({"late", "kept"})
\* The entry of p, and its record.
EntryStands(p) ==
  /\ entry[p] # 0 /\ p \notin recorded =>
       \E r \in Requests : On(r, p) /\ job[r].at \in {"close", "disconnecting"}
  /\ entry[p] = 0 /\ p \in recorded => \E r \in Requests : On(r, p) /\ job[r].at = "own"

\* A step of r, for p, leaves the entries and records of the others as they were.
LEMMA EntriesOf ==
  ASSUME EntriesStand, NEW r \in Requests, NEW p, up,
         \A x \in Procs \ {r} : job'[x] = job[x],
         Busy(r) => job[r].project = p,
         \A q \in Projects \ {p} : entry'[q] = entry[q] /\ (q \in recorded' <=> q \in recorded),
         incidents \subseteq incidents',
         Steady' /\ p \in Projects => EntryStands(p)'
  PROVE  EntriesStand'
<1> SUFFICES ASSUME Steady', NEW q \in Projects, q # p
             PROVE  EntryStands(q)'
  BY DEF EntriesStand, EntryStands, Steady
<1>1. EntryStands(q)
  BY DEF EntriesStand, EntryStands, Steady, Clear
<1>2. \A x \in Requests : On(x, q) => x # r
  BY DEF On
<1>3. \A x \in Requests : On(x, q) => On(x, q)' /\ job'[x] = job[x]
  BY <1>2 DEF On, Busy, Procs
<1> QED
  BY <1>1, <1>3 DEF EntryStands

\* Nothing happens to the entries, the records and the requests that account for them.
LEMMA EntriesStay ==
  ASSUME EntriesStand, up, UNCHANGED <<entry, recorded>>, incidents \subseteq incidents',
         \A r \in Requests :
           job[r].at \in {"close", "disconnecting", "own"} => job'[r].project = job[r].project
                                                    /\ job'[r].at = job[r].at
  PROVE  EntriesStand'
<1> SUFFICES ASSUME Steady', NEW q \in Projects
             PROVE  EntryStands(q)'
  BY DEF EntriesStand, EntryStands, Steady
<1>1. EntryStands(q)
  BY DEF EntriesStand, EntryStands, Steady, Clear
<1> QED
  BY <1>1 DEF EntryStands, On, Busy

\* One process goes on that accounts for no entry, before or after.
LEMMA EntriesPass ==
  ASSUME EntriesStand, up, UNCHANGED <<entry, recorded>>, incidents \subseteq incidents',
         NEW q \in Procs, \A x \in Procs \ {q} : job'[x] = job[x],
         q \in Requests => job[q].at \notin {"close", "disconnecting", "own"}
  PROVE  EntriesStand'
<1>1. \A r \in Requests :
        job[r].at \in {"close", "disconnecting", "own"} => job'[r] = job[r]
  BY DEF Procs
<1> QED
  BY <1>1, EntriesStay

LEMMA EntriesCreating ==
  ASSUME Types, Creations, EntriesStand, NEW r \in Requests, Creating(r) \/ Own(r)
  PROVE  EntriesStand'
<1>1. Jobs /\ PoolTypes /\ up /\ Busy(r) /\ r \in Procs
  BY DEF Types, TypeOK, PoolTypes, Creating, Busy, At, Channel, Announce, SetRecord, Warm, Undo, Wipe,
         DropRecord, ChannelFails, CreateFails, WipeFails, Own, Procs
<1>2. PICK p \in Projects : job[r].project = p
  BY <1>1, BusyJob DEF Jobs
<1>3. \/ End(r)
      \/ \E label \in Asking : Goto(r, label)
  BY DEF Creating, Channel, Announce, SetRecord, Warm, Undo, Wipe, DropRecord,
         ChannelFails, CreateFails, WipeFails, Own, Asking, Making
<1>4. \A x \in Procs \ {r} : job'[x] = job[x]
  BY <1>1, <1>3, AskNow, EndJobs DEF Now, Over
<1>5. job[r].at \in Making => Made(r, p)
  BY <1>1, <1>2 DEF Creations
<1>6. CASE Channel(r) \/ Announce(r) \/ Warm(r) \/ Undo(r) \/ Wipe(r) \/ ChannelFails(r) \/ WipeFails(r)
  <2>1. /\ UNCHANGED <<entry, recorded>> /\ incidents \subseteq incidents'
        /\ job[r].at \notin {"close", "disconnecting", "own"}
    BY <1>6 DEF Channel, Announce, Warm, Undo, Wipe, ChannelFails, WipeFails, At, redis, Mark
  <2> QED
    BY <1>1, <1>4, <2>1, EntriesPass
<1>7. CASE SetRecord(r)
  <2>1. /\ job[r].at = "set" /\ recorded' = recorded \cup {p} /\ entry' = entry
        /\ incidents' = incidents
        /\ job'[r].at = "own" /\ job'[r].project = p
    BY <1>1, <1>2, <1>7, AskNow DEF SetRecord, At, Now, Asking, Making
  <2>2. EntryStands(p)'
    BY <2>1 DEF EntryStands, On, Busy
  <2> QED
    BY <1>1, <1>2, <1>4, <2>1, <2>2, EntriesOf
<1>8. CASE Own(r)
  <2>1. /\ job[r].at = "own" /\ recorded' = recorded /\ incidents' = incidents
        /\ IF entry[p] = 0 THEN Registered(p) ELSE UNCHANGED <<entry, provider>>
    BY <1>2, <1>8 DEF Own, At
  <2>2. p \in recorded /\ entry[p] = 0
    BY <1>5, <2>1 DEF Made, Making
  <2>3. Registered(p) /\ entry'[p] \in Providers
    BY <1>1, <2>1, <2>2, RegisteredTypes
  <2>4. /\ entry'[p] # 0
        /\ \A q \in Projects \ {p} : entry'[q] = entry[q]
    BY <1>1, <2>3, SessionsAssumption DEF Registered, PoolTypes
  <2>5. EntryStands(p)'
    BY <2>1, <2>2, <2>4 DEF EntryStands
  <2> QED
    BY <1>1, <1>2, <1>4, <2>1, <2>4, <2>5, EntriesOf
<1>9. CASE DropRecord(r)
  <2>1. /\ job[r].at = "drop" /\ recorded' = recorded \ {p} /\ entry' = entry
        /\ incidents' = incidents
        /\ job'[r].at = "close" /\ job'[r].project = p
    BY <1>1, <1>2, <1>9, AskNow DEF DropRecord, At, Now, Asking, Making
  <2>2. EntryStands(p)'
    BY <2>1 DEF EntryStands, On, Busy
  <2> QED
    BY <1>1, <1>2, <1>4, <2>1, <2>2, EntriesOf
<1>10. CASE CreateFails(r)
  <2>1. /\ UNCHANGED <<entry, recorded>>
        /\ incidents' = incidents \cup When(job[r].at \in {"own", "warm"}, "kept")
        /\ job[r].at \in {"announce", "set", "own", "warm"}
    BY <1>10 DEF CreateFails, At, redis, Mark
  <2>2. CASE job[r].at = "own"
    BY <2>1, <2>2 DEF EntriesStand, Clear, When
  <2>3. CASE job[r].at # "own"
    BY <1>1, <1>4, <2>1, <2>3, EntriesPass
  <2> QED
    BY <2>2, <2>3
<1> QED
  BY <1>6, <1>7, <1>8, <1>9, <1>10 DEF Creating

LEMMA EntriesUsing ==
  ASSUME Types, Creations, EntriesStand, NEW r \in Requests, Begin(r) \/ Enter(r) \/ Use(r) \/ Close(r)
  PROVE  EntriesStand'
<1>1. Jobs /\ PoolTypes /\ up /\ r \in Procs
  BY DEF Types, TypeOK, PoolTypes, Begin, Enter, Use, Close, At, Procs
<1>2. CASE Begin(r)
  <2>1. /\ UNCHANGED <<entry, recorded, incidents>> /\ job[r].at = "idle"
        /\ \A x \in Procs \ {r} : job'[x] = job[x]
    BY <1>1, <1>2, BeginAsks DEF Begin, At, redis, Now
  <2> QED
    BY <1>1, <2>1, EntriesPass
<1>3. CASE Use(r)
  <2>1. /\ UNCHANGED <<entry, recorded, incidents>> /\ job[r].at = "use"
        /\ \A x \in Procs \ {r} : job'[x] = job[x]
    BY <1>1, <1>3, EndJobs DEF Use, At, redis, Over
  <2> QED
    BY <1>1, <2>1, EntriesPass
<1>4. CASE Enter(r)
  <2>1. PICK p \in Projects : job[r].project = p
    BY <1>1, <1>4, BusyJob DEF Jobs, Enter, At, Busy
  <2>2. /\ Ensure(r, p, "use") /\ recorded' = recorded
        /\ incidents' = incidents \cup When(p \notin recorded, "late")
    BY <1>4, <2>1 DEF Enter, redis, Mark
  <2>3. /\ entry'[p] \in Providers
        /\ \E at \in {"use", "waiting"} : Now(r, at, p, entry'[p], job[r].client, "use")
    BY <1>1, <1>4, <2>1, <2>2, EnsureNow DEF Jobs, Enter, At, Busy
  <2>4. \A x \in Procs \ {r} : job'[x] = job[x]
    BY <2>3 DEF Now
  <2>5. \A q \in Projects \ {p} : entry'[q] = entry[q]
    BY <1>1, <2>2 DEF Ensure, Registered, PoolTypes
  <2>6. entry'[p] # 0
    BY <2>3, SessionsAssumption
  <2>7. Steady' => EntryStands(p)'
    BY <2>2, <2>6 DEF Steady, Clear, When, EntryStands
  <2> QED
    BY <1>1, <2>1, <2>2, <2>4, <2>5, <2>7, EntriesOf
<1>5. CASE Close(r)
  <2>1. PICK p \in Projects : job[r].project = p
    BY <1>1, <1>5, BusyJob DEF Jobs, Close, At, Busy
  <2>2. /\ p \notin recorded /\ recorded' = recorded /\ incidents \subseteq incidents'
    BY <1>5, <2>1 DEF Close, At, Creations, Busy, redis, Mark
  <2>3. \/ entry' = entry /\ job'[r].at = "disconnecting" /\ job'[r].project = p
        \/ entry' = [entry EXCEPT ![p] = 0]
    BY <1>1, <1>5, <2>1, CloseNow DEF Now
  <2>4. \A x \in Procs \ {r} : job'[x] = job[x]
    BY <1>1, <1>5, <2>1, CloseNow DEF Now, Over
  <2>5. EntryStands(p)'
    BY <1>1, <2>2, <2>3 DEF EntryStands, On, Busy, PoolTypes
  <2>6. \A q \in Projects \ {p} : entry'[q] = entry[q]
    BY <1>1, <2>3 DEF PoolTypes
  <2> QED
    BY <1>1, <2>1, <2>2, <2>4, <2>5, <2>6, EntriesOf
<1> QED
  BY <1>2, <1>3, <1>4, <1>5

LEMMA EntriesNext ==
  Types /\ Down /\ Creations /\ EntriesStand /\ [Next]_vars => EntriesStand'
<1> SUFFICES ASSUME Types, Down, Creations, EntriesStand, [Next]_vars
             PROVE  EntriesStand'
  OBVIOUS
<1>1. Jobs /\ PoolTypes
  BY DEF Types, TypeOK, PoolTypes
<1>2. CASE UNCHANGED vars
  BY <1>2 DEF vars, redis, EntriesStand, Clear, On, Busy
<1>3. CASE Ended
  BY <1>3 DEF Ended, EntriesStand
<1>4. CASE Restart
  <2>1. recorded \in SUBSET Projects /\ recorded' = recorded /\ entry' = Entries(recorded)
    BY <1>4 DEF Types, TypeOK, Restart, redis
  <2>2. \A p \in Projects : entry'[p] # 0 <=> p \in recorded'
    BY <2>1, PoolTypesOf
  <2> QED
    BY <2>2 DEF EntriesStand
<1>5. ASSUME NEW r \in Requests, Creating(r) \/ Own(r)
      PROVE  EntriesStand'
  BY <1>5, EntriesCreating
<1>6. ASSUME NEW r \in Requests, Begin(r) \/ Enter(r) \/ Use(r) \/ Close(r)
      PROVE  EntriesStand'
  BY <1>6, EntriesUsing
<1>7. ASSUME NEW q \in Procs, Disconnected(q) \/ DisconnectFails(q)
      PROVE  EntriesStand'
  <2>1. /\ up /\ Busy(q) /\ job[q].at = "disconnecting" /\ Resume(q)
        /\ recorded' = recorded /\ incidents \subseteq incidents'
    BY <1>7 DEF Disconnected, DisconnectFails, At, Busy, redis, Mark
  <2>2. PICK p \in Projects : job[q].project = p
    BY <1>1, <2>1, BusyJob DEF Jobs
  <2>3. CASE q \in Requests /\ Over(q) /\ entry' = [entry EXCEPT ![p] = 0]
    <3>1. p \notin recorded
      BY <2>1, <2>2, <2>3 DEF Creations
    <3>2. /\ EntryStands(p)'
          /\ \A s \in Projects \ {p} : entry'[s] = entry[s]
      BY <1>1, <2>1, <2>3, <3>1 DEF EntryStands, PoolTypes
    <3> QED
      BY <2>1, <2>2, <2>3, <3>2, EntriesOf DEF Over
  <2>4. CASE q \in Checks /\ entry' = entry /\ \A x \in Procs \ {q} : job'[x] = job[x]
    <3>1. q \notin Requests
      BY <2>4, SessionsAssumption
    <3> QED
      BY <2>1, <2>4, <3>1, EntriesPass
  <2> QED
    BY <1>1, <2>1, <2>2, <2>3, <2>4, ResumeNow DEF Now
<1>8. ASSUME NEW c \in Checks, Tick(c) \/ CheckNext(c) \/ Probe(c) \/ Recover(c) \/ Again(c)
      PROVE  EntriesStand'
  <2>1. c \in Procs /\ c \notin Requests
    BY SessionsAssumption DEF Procs
  <2>2. \A x \in Procs \ {c} : job'[x] = job[x]
    <3>1. CASE Again(c)
      BY <1>1, <3>1, AgainNow DEF Now
    <3>2. CASE Tick(c) \/ CheckNext(c) \/ Probe(c) \/ Recover(c)
      BY <1>1, <2>1, <3>2 DEF Jobs, Tick, CheckNext, Probe, Recover, Recovery, Goto, End, Disconnect
    <3> QED
      BY <1>8, <3>1, <3>2
  <2>3. up /\ UNCHANGED <<entry, recorded, incidents>>
    BY <1>8 DEF Tick, CheckNext, Probe, Recover, Again, Ensure, At, redis
  <2> QED
    BY <2>1, <2>2, <2>3, EntriesPass
<1>9. ASSUME NEW k \in Providers, ConnectDone(k) \/ (ConnectFails(k) /\ ~provider[k].floating)
      PROVE  EntriesStand'
  <2>1. \A q \in Procs : Goes(q)
    BY <1>1, <1>9, DoneGo, FailedGo
  <2>2. \A r \in Requests :
          job[r].at \in {"close", "disconnecting", "own"} => job'[r] = job[r]
    BY <2>1 DEF Goes, Procs
  <2>3. up /\ UNCHANGED <<entry, recorded, incidents>>
    BY <1>9 DEF ConnectDone, ConnectFails, redis
  <2> QED
    BY <2>2, <2>3, EntriesStay
<1>10. ASSUME NEW c \in Clients, Break(c)
       PROVE  EntriesStand'
  <2>1. UNCHANGED <<entry, recorded, job, up, incidents>>
    BY <1>10 DEF Break, redis
  <2> QED
    BY <2>1 DEF EntriesStand, Clear, On, Busy
<1> QED
  BY <1>2, <1>3, <1>4, <1>5, <1>6, <1>7, <1>8, <1>9, <1>10
     DEF Next, Request, Check, Failure, Crash, ConnectFails, Creating, Procs

-----------------------------------------------------------------------------
(* The theorems.                                                            *)

SessionsInv == Types /\ Down /\ Creations /\ ChannelsStand /\ PoolStands /\ EntriesStand

\* The invariant, from the first start of the process through all its ends and restarts.
THEOREM SessionsInvariant == Spec => []SessionsInv
<1>1. Init => SessionsInv
  BY InitTypes, CreationsInit, ChannelsInit, PoolInit, EntriesInit DEF SessionsInv
<1>2. SessionsInv /\ [Next]_vars => SessionsInv'
  BY TypesNext, DownNext, CreationsNext, ChannelsNext, PoolNext, EntriesNext DEF SessionsInv
<1> QED
  BY <1>1, <1>2, PTL DEF Spec

\* The pool, the records and what every request and health check is at are of their types: a
\* process that ends in the middle leaves nothing that the next one could not start from.
THEOREM TypeCorrect == Spec => []TypeOK
<1>1. SessionsInv => TypeOK
  BY DEF SessionsInv, Types
<1> QED
  BY <1>1, SessionsInvariant, PTL

\* Between requests what is recorded, the owner's list, the channels on Telegram and the pool's entries
\* and connections agree, whatever ran together before, unless one of the named incidents
\* came between.
THEOREM ResourcesStand == Spec => []ResourcesAccounted
<1>1. SessionsInv => ResourcesAccounted
  <2> SUFFICES ASSUME SessionsInv PROVE ResourcesAccounted
    OBVIOUS
  <2>1. /\ Jobs /\ PoolTypes
        /\ recorded \subseteq Projects /\ owned \subseteq Projects /\ live \subseteq Clients
    BY DEF SessionsInv, Types, TypeOK, PoolTypes
  <2>2. Quiet => \A r \in Requests : ~Busy(r)
    BY <2>1, IdleJob DEF Quiet, Jobs, Procs
  <2>3. ChannelsAccounted
    <3> SUFFICES ASSUME Quiet, Clear({"partial", "kept", "undeleted", "cut"})
                 PROVE  /\ owned = recorded
                        /\ \A p \in Projects : channels[p] = IF p \in recorded THEN AllChannels ELSE 0
      BY DEF ChannelsAccounted
    <3>1. \A p \in Projects : Agree(p)
      BY <2>2 DEF SessionsInv, ChannelsStand, Amid, On
    <3> QED
      BY <2>1, <3>1 DEF Agree
  <2>4. OneConnectionEach
    <3> SUFFICES ASSUME Still, up
                 PROVE  /\ Clear({"late", "kept"}) =>
                             \A p \in Projects : entry[p] # 0 <=> p \in recorded
                        /\ Clear({"closed_early", "crossed", "unclosed"}) =>
                             \A c \in live : Held(c)
      BY DEF OneConnectionEach, Held
    <3>1. \A r \in Requests : ~Busy(r)
      BY <2>2 DEF Still
    <3>2. Clear({"late", "kept"}) => \A p \in Projects : entry[p] # 0 <=> p \in recorded
      BY <3>1 DEF SessionsInv, EntriesStand, On
    <3>3. Clear({"closed_early", "crossed", "unclosed"}) => \A c \in live : Held(c)
      BY DEF SessionsInv, PoolStands, ConnectionsHeld
    <3> QED
      BY <3>2, <3>3
  <2> QED
    BY <2>3, <2>4 DEF ResourcesAccounted
<1> QED
  BY <1>1, SessionsInvariant, PTL
=============================================================================
