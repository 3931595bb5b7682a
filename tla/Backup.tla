------------------------------- MODULE Backup -------------------------------
(***************************************************************************)
(* Backups of one project and their restoration, while requests go on.     *)
(* Redis, the channel with the project's accounts and the SQLite index of  *)
(* that channel are copied one beside the other, and put back one after    *)
(* the other, the messages into a new channel.  A directory holds each     *)
(* backup, and the file index.json lists them.                             *)
(***************************************************************************)
EXTENDS Naturals, FiniteSets, FiniteSetsExt

CONSTANTS
  Users,      \* platform users who may be members of the project
  Accounts,   \* accounts of the project's own users, rows of the users channel
  Requests,   \* other requests in progress together
  Retention,  \* retentionCount
  MaxCalls,   \* bound: requests and restorations
  MaxBackups, \* bound: backups
  MaxFaults   \* bound: failures and crashes

Channels == 0..MaxCalls      \* the project's users channel, and those that restorations make
Ids == 1..(MaxCalls + Cardinality(Accounts))  \* message ids, counted in every channel
Rows == UNION {[S -> Accounts] : S \in SUBSET Ids}
Record == [members : SUBSET Users, channel : Channels]
Index == SUBSET (Accounts \X Ids)
Backups == 1..MaxBackups     \* in the order of createdAt

\* The files of a backup; those of a failed one are not there.
Dir == [manifest : {"ready", "failed"}, lists : SUBSET Users, record : Record,
        rows : Rows, sqlite : Index, torn : BOOLEAN]
Entry == [id : Backups, status : {"ready", "failed"}]

VARIABLES
  record,   \* project:<id>
  listed,   \* the users whose member:<user>:projects has the project
  rows,     \* the messages of every channel
  sent,     \* the last message id of every channel
  sqlite,   \* the index of the accounts: which message has which
  job,      \* the other requests
  backup,   \* activeTasks 'backup': what createBackup has read, and where it is
  restore,  \* activeTasks 'restore'
  dirs,     \* the directories of backups
  catalogue, \* index.json
  \* The rest is not in the code.
  made,     \* backups begun
  done,     \* the backups that were answered
  calls, channels, faults,
  incidents

store == <<record, listed, rows, sent, sqlite>>
files == <<dirs, catalogue>>
ghosts == <<made, done, calls, channels, faults>>
vars == <<store, job, backup, restore, files, ghosts, incidents>>

Incidents == {
  "torn",        \* a backup was restored into which something had been written while it was made
  "busy",        \* requests went on during a restoration
  "newer",       \* a key that the backup does not have outlived the restoration
  "renumbered",  \* messages were sent again under other ids
  "overlap",     \* a backup and a restoration were in progress together
  "emptied",     \* a restoration found the directory removed
  "cut"}         \* a request, a backup or a restoration ended half-way

Off == [at |-> "off"]
Idle == Off
NoRecord == [members |-> {}, channel |-> 0]
Partial(D, R) == UNION {[S -> R] : S \in SUBSET D}

TypeOK ==
  /\ record \in Record /\ listed \subseteq Users
  /\ rows \in [Channels -> Rows] /\ sent \in [Channels -> 0..Max(Ids)]
  /\ sqlite \in Index
  /\ DOMAIN job = Requests
  /\ \A d \in DOMAIN dirs : d \in Backups /\ dirs[d] \in Dir
  /\ catalogue \subseteq Entry
  /\ made \in 0..MaxBackups /\ done \subseteq Backups
  /\ calls \in 0..MaxCalls /\ channels \in 0..MaxCalls /\ faults \in 0..MaxFaults
  /\ incidents \subseteq Incidents

\* Some users are members, some accounts are there, registered one after another.
Init ==
  /\ record \in [members : SUBSET Users, channel : {0}]
  /\ listed = record.members
  /\ \E S \in SUBSET Accounts : \E order \in [1..Cardinality(S) -> S] :
        /\ \A a \in S : \E i \in DOMAIN order : order[i] = a
        /\ rows = [c \in Channels |-> IF c = 0 THEN order ELSE <<>>]
        /\ sent = [c \in Channels |-> IF c = 0 THEN Cardinality(S) ELSE 0]
        /\ sqlite = {<<order[i], i>> : i \in DOMAIN order}
  /\ job = [r \in Requests |-> Idle]
  /\ backup = Off /\ restore = Off
  /\ dirs = <<>> /\ catalogue = {}
  /\ made = 0 /\ done = {} /\ calls = 0 /\ channels = 0 /\ faults = 0
  /\ incidents = {}

When(condition, kind) == IF condition THEN {kind} ELSE {}
Mark(kinds) == incidents' = incidents \cup kinds
Busy == \E r \in Requests : job[r] # Idle

\* Bound: when something has been cut short nothing more is begun, only brought to its end.
Begins == "cut" \notin incidents

-----------------------------------------------------------------------------
(* The other requests: members are added to the record and then to their   *)
(* lists, accounts to the channel and then to the index.                    *)

\* A request writes: a backup that is being read is torn, a restoration disturbed.
Disturb ==
  /\ backup' = IF backup.at = "parts" THEN [backup EXCEPT !.torn = TRUE] ELSE backup
  /\ Mark(When(restore # Off, "busy"))

Finish(r) == job' = [job EXCEPT ![r] = Idle]

Begin(r) ==
  \E op \in {"enrol", "expel", "register", "unregister"} :
  \E who \in IF op \in {"enrol", "expel"} THEN Users ELSE Accounts :
     /\ job[r] = Idle /\ Begins
     /\ calls < MaxCalls /\ calls' = calls + 1
     /\ CASE op = "enrol"      -> who \notin record.members
          [] op = "expel"      -> who \in record.members
          [] op = "register"   -> ~\E e \in sqlite : e[1] = who
          [] op = "unregister" -> \E e \in sqlite : e[1] = who
     /\ \A q \in Requests : job[q] # Idle => job[q].who # who
     /\ job' = [job EXCEPT ![r] =
          [op |-> op, who |-> who, base |-> record, id |-> 0,
           at |-> IF op \in {"enrol", "expel"} THEN "get" ELSE "message"]]
     /\ Disturb
     /\ UNCHANGED <<store, restore, files, made, done, channels, faults>>

\* updateProject reads the record, and writes it with the members changed.
Get(r) ==
  /\ job[r].at = "get"
  /\ job' = [job EXCEPT ![r].at = "set", ![r].base = record]
  /\ Disturb
  /\ UNCHANGED <<store, restore, files, ghosts>>

Set(r) ==
  /\ job[r].at = "set"
  /\ record' = [job[r].base EXCEPT !.members =
                  IF job[r].op = "enrol" THEN @ \cup {job[r].who} ELSE @ \ {job[r].who}]
  /\ job' = [job EXCEPT ![r].at = "list"]
  /\ backup' = IF backup.at = "parts" THEN [backup EXCEPT !.torn = TRUE] ELSE backup
  /\ Mark(When(restore # Off \/ job[r].base # record, "busy"))
  /\ UNCHANGED <<listed, rows, sent, sqlite, restore, files, ghosts>>

List(r) ==
  /\ job[r].at = "list"
  /\ listed' = IF job[r].op = "enrol" THEN listed \cup {job[r].who} ELSE listed \ {job[r].who}
  /\ Finish(r)
  /\ Disturb
  /\ UNCHANGED <<record, rows, sent, sqlite, restore, files, ghosts>>

With(f, x, y) == [z \in DOMAIN f \cup {x} |-> IF z = x THEN y ELSE f[z]]
Without(f, S) == [x \in DOMAIN f \ S |-> f[x]]

\* The account's message is sent, or deleted where the index has it.
Message(r) ==
  LET c == job[r].base.channel
      a == job[r].who
      at == {e[2] : e \in {e \in sqlite : e[1] = a}}
  IN /\ job[r].at = "message"
     /\ IF job[r].op = "register"
        THEN /\ rows' = [rows EXCEPT ![c] = With(@, sent[c] + 1, a)]
             /\ sent' = [sent EXCEPT ![c] = @ + 1]
             /\ job' = [job EXCEPT ![r].at = "index", ![r].id = sent[c] + 1]
        ELSE /\ rows' = [rows EXCEPT ![c] = Without(@, at)]
             /\ job' = [job EXCEPT ![r].at = "index"]
             /\ UNCHANGED sent
     /\ Disturb
     /\ UNCHANGED <<record, listed, sqlite, restore, files, ghosts>>

IndexRow(r) ==
  /\ job[r].at = "index"
  /\ sqlite' = IF job[r].op = "register" THEN sqlite \cup {<<job[r].who, job[r].id>>}
               ELSE {e \in sqlite : e[1] # job[r].who}
  /\ Finish(r)
  /\ Disturb
  /\ UNCHANGED <<record, listed, rows, sent, restore, files, ghosts>>

FailRequest(r) ==
  /\ job[r] # Idle
  /\ faults < MaxFaults /\ faults' = faults + 1
  /\ Finish(r)
  /\ Mark({"cut"})
  /\ UNCHANGED <<store, backup, restore, files, made, done, calls, channels>>

-----------------------------------------------------------------------------
(* createBackup                                                             *)

Making(id, torn) ==
  [at |-> "parts", id |-> id, redis |-> "scan", project |-> "get", copied |-> FALSE,
   keys |-> {}, lists |-> {}, record |-> NoRecord, source |-> NoRecord,
   rows |-> <<>>, sqlite |-> {}, torn |-> torn, failed |-> FALSE, seen |-> {}]

\* By a request or by the timer; runExclusive gives a second caller the first one's answer.
Create ==
  /\ backup = Off /\ Begins
  /\ made < MaxBackups /\ made' = made + 1
  /\ backup' = Making(made', Busy \/ restore # Off)
  /\ Mark(When(restore # Off, "overlap"))
  /\ UNCHANGED <<store, job, restore, files, done, calls, channels, faults>>

Part == backup.at = "parts"

\* snapshotRedis lists the keys, then reads one after another in the order of their names.
Scan ==
  /\ Part /\ backup.redis = "scan"
  /\ backup' = [backup EXCEPT !.keys = listed, !.redis = "lists"]
  /\ UNCHANGED <<store, job, restore, files, ghosts, incidents>>

ReadList(u) ==
  /\ Part /\ backup.redis = "lists" /\ u \in backup.keys
  /\ backup' = [backup EXCEPT !.keys = @ \ {u}, !.lists = @ \cup ({u} \cap listed)]
  /\ UNCHANGED <<store, job, restore, files, ghosts, incidents>>

ReadRecord ==
  /\ Part /\ backup.redis = "lists" /\ backup.keys = {}
  /\ backup' = [backup EXCEPT !.record = record, !.redis = "done"]
  /\ UNCHANGED <<store, job, restore, files, ghosts, incidents>>

\* snapshotProjects reads the record for itself, then the channels.
ReadProject ==
  /\ Part /\ backup.project = "get"
  /\ backup' = [backup EXCEPT !.source = record, !.project = "messages"]
  /\ UNCHANGED <<store, job, restore, files, ghosts, incidents>>

ReadMessages ==
  /\ Part /\ backup.project = "messages"
  /\ backup' = [backup EXCEPT !.rows = rows[backup.source.channel], !.project = "done"]
  /\ UNCHANGED <<store, job, restore, files, ghosts, incidents>>

\* snapshotSqlite
CopySqlite ==
  /\ Part /\ ~backup.copied
  /\ backup' = [backup EXCEPT !.sqlite = sqlite, !.copied = TRUE]
  /\ UNCHANGED <<store, job, restore, files, ghosts, incidents>>

Contents ==
  [manifest |-> "ready", lists |-> backup.lists, record |-> backup.record,
   rows |-> backup.rows, sqlite |-> backup.sqlite, torn |-> backup.torn]
NoContents ==
  [manifest |-> "failed", lists |-> {}, record |-> NoRecord, rows |-> <<>>, sqlite |-> {},
   torn |-> FALSE]
Written(failed) == [Making(backup.id, FALSE) EXCEPT !.at = "indexRead", !.failed = failed]

\* The files and the manifest, in a directory of their own.
WriteFiles ==
  /\ Part /\ backup.redis = "done" /\ backup.project = "done" /\ backup.copied
  /\ dirs' = With(dirs, backup.id, Contents)
  /\ backup' = Written(FALSE)
  /\ UNCHANGED <<store, job, restore, catalogue, ghosts, incidents>>

\* A part failed: a manifest that says so.
Fail ==
  /\ Part
  /\ faults < MaxFaults /\ faults' = faults + 1
  /\ dirs' = With(dirs, backup.id, NoContents)
  /\ backup' = Written(TRUE)
  /\ UNCHANGED <<store, job, restore, catalogue, made, done, calls, channels, incidents>>

\* updateIndex reads the file, and writes it with the new entry.
IndexRead ==
  /\ backup.at = "indexRead"
  /\ backup' = [backup EXCEPT !.at = "indexWrite", !.seen = catalogue]
  /\ UNCHANGED <<store, job, restore, files, ghosts, incidents>>

IndexWrite ==
  /\ backup.at = "indexWrite"
  /\ catalogue' = {e \in backup.seen : e.id # backup.id}
       \cup {[id |-> backup.id, status |-> IF backup.failed THEN "failed" ELSE "ready"]}
  /\ backup' = IF backup.failed THEN Off ELSE [backup EXCEPT !.at = "pruneRead", !.seen = {}]
  /\ UNCHANGED <<store, job, restore, dirs, ghosts, incidents>>

\* Mutant of Retained: the entries are kept in the order they were appended.
RetainedOldest(entries) == {e \in entries : Cardinality({f \in entries : f.id < e.id}) < Retention}

\* pruneRetention: the newest entries, failed ones among them
Retained(entries) == {e \in entries : Cardinality({f \in entries : f.id > e.id}) < Retention}

PruneRead ==
  /\ backup.at = "pruneRead"
  /\ IF Retained(catalogue) = catalogue
     THEN backup' = Off /\ done' = done \cup {backup.id}
     ELSE backup' = [backup EXCEPT !.at = "prune", !.seen = catalogue] /\ UNCHANGED done
  /\ UNCHANGED <<store, job, restore, files, made, calls, channels, faults, incidents>>

\* The directories go, one after another, then the entries.
PruneDir ==
  /\ backup.at = "prune"
  /\ \E e \in backup.seen \ Retained(backup.seen) :
        e.id \in DOMAIN dirs /\ dirs' = Without(dirs, {e.id})
  /\ UNCHANGED <<store, job, backup, restore, catalogue, ghosts, incidents>>

PruneWrite ==
  /\ backup.at = "prune"
  /\ \A e \in backup.seen \ Retained(backup.seen) : e.id \notin DOMAIN dirs
  /\ catalogue' = Retained(backup.seen)
  /\ done' = done \cup {backup.id}
  /\ backup' = Off
  /\ UNCHANGED <<store, job, restore, dirs, made, calls, channels, faults, incidents>>

-----------------------------------------------------------------------------
(* restoreBackup                                                            *)

Restored(at, id, dir) ==
  [at |-> at, id |-> id, dir |-> dir, left |-> {}, channel |-> 0, base |-> NoRecord, seen |-> {}]

\* The files are read first: those of a failed backup are not there.
Restore ==
  \E b \in DOMAIN dirs :
     /\ restore = Off /\ Begins
     /\ calls < MaxCalls /\ calls' = calls + 1
     /\ dirs[b].manifest = "ready"
     /\ \E e \in catalogue : e.id = b
     /\ restore' = Restored("redis", b, dirs[b])
     /\ Mark(When(backup # Off, "overlap") \cup When(Busy, "busy") \cup When(dirs[b].torn, "torn"))
     /\ backup' = IF backup.at = "parts" THEN [backup EXCEPT !.torn = TRUE] ELSE backup
     /\ UNCHANGED <<store, job, files, made, done, channels, faults>>

\* Mutant of RestoredLists: sets are not put back.
RestoredListsNone(now, saved) == now

RestoredLists(now, saved) == now \cup saved

\* restoreRedisSnapshot, a transaction: the keys of the snapshot, and no others
RestoreRedis ==
  /\ restore.at = "redis"
  /\ record' = restore.dir.record
  /\ listed' = RestoredLists(listed, restore.dir.lists)
  /\ Mark(When(listed \ restore.dir.record.members # {}, "newer"))
  /\ restore' = [restore EXCEPT !.at = "clear"]
  /\ UNCHANGED <<rows, sent, sqlite, job, backup, files, ghosts>>

\* restoreSqliteSnapshot removes the files, then copies those of the backup; of a directory
\* that is gone it copies nothing.
ClearSqlite ==
  /\ restore.at = "clear"
  /\ sqlite' = {}
  /\ restore' = [restore EXCEPT !.at = "sqlite"]
  /\ UNCHANGED <<record, listed, rows, sent, job, backup, files, ghosts, incidents>>

\* Mutant of SavedIndex: the copy is left to be made again by the first queries.
SavedIndexNone(there, saved) == {}

SavedIndex(there, saved) == IF there THEN saved ELSE {}

RestoreSqlite ==
  LET there == restore.id \in DOMAIN dirs
  IN /\ restore.at = "sqlite"
     /\ sqlite' = SavedIndex(there, restore.dir.sqlite)
     /\ Mark(When(~there, "emptied"))
     /\ restore' = [restore EXCEPT !.at = "channel"]
     /\ UNCHANGED <<record, listed, rows, sent, job, backup, files, ghosts>>

\* restoreProjectManifests makes a channel, and sends the messages to it, oldest first.
NewChannel ==
  /\ restore.at = "channel"
  /\ channels < MaxCalls /\ channels' = channels + 1
  /\ restore' = [restore EXCEPT !.at = "send", !.channel = channels',
                                !.left = DOMAIN restore.dir.rows]
  /\ UNCHANGED <<store, job, backup, files, made, done, calls, faults, incidents>>

NextToSend(left) == Min(left)

Resend ==
  LET i == NextToSend(restore.left)
      c == restore.channel
  IN /\ restore.at = "send" /\ restore.left # {}
     /\ rows' = [rows EXCEPT ![c] = With(@, sent[c] + 1, restore.dir.rows[i])]
     /\ sent' = [sent EXCEPT ![c] = @ + 1]
     /\ Mark(When(restore.dir.rows # <<>> /\ Max(DOMAIN restore.dir.rows)
                    # Cardinality(DOMAIN restore.dir.rows), "renumbered"))
     /\ restore' = [restore EXCEPT !.left = @ \ {i}]
     /\ UNCHANGED <<record, listed, sqlite, job, backup, files, ghosts>>

\* updateProject: the record is read, and written with the new channel.
Reread ==
  /\ restore.at = "send" /\ restore.left = {}
  /\ restore' = [restore EXCEPT !.at = "point", !.base = record]
  /\ UNCHANGED <<store, job, backup, files, ghosts, incidents>>

Repoint ==
  /\ restore.at = "point"
  /\ record' = [restore.base EXCEPT !.channel = restore.channel]
  /\ restore' = Restored("manifest", restore.id, NoContents)
  /\ Mark(When(restore.base # record, "busy"))
  /\ UNCHANGED <<listed, rows, sent, sqlite, job, backup, files, ghosts>>

\* A channel that cannot be made or filled is logged, and the restoration goes on.
SkipManifest ==
  /\ restore.at \in {"channel", "send"}
  /\ faults < MaxFaults /\ faults' = faults + 1
  /\ restore' = Restored("manifest", restore.id, NoContents)
  /\ Mark({"cut"})
  /\ UNCHANGED <<store, job, backup, files, made, done, calls, channels>>

\* The manifest gets the time of the restoration, unless its directory is gone,
RestoredManifest ==
  /\ restore.at = "manifest"
  /\ restore' = IF restore.id \in DOMAIN dirs THEN [restore EXCEPT !.at = "indexRead"] ELSE Off
  /\ UNCHANGED <<store, job, backup, files, ghosts, incidents>>

\* and updateIndex the entry.
RestoredRead ==
  /\ restore.at = "indexRead"
  /\ restore' = [restore EXCEPT !.at = "indexWrite", !.seen = catalogue]
  /\ UNCHANGED <<store, job, backup, files, ghosts, incidents>>

RestoredWrite ==
  /\ restore.at = "indexWrite"
  /\ catalogue' = restore.seen
  /\ restore' = Off
  /\ UNCHANGED <<store, job, backup, dirs, ghosts, incidents>>

\* The process ends.
Crash ==
  /\ backup # Off \/ restore # Off \/ Busy
  /\ faults < MaxFaults /\ faults' = faults + 1
  /\ job' = [r \in Requests |-> Idle] /\ backup' = Off /\ restore' = Off
  /\ Mark({"cut"})
  /\ UNCHANGED <<store, files, made, done, calls, channels>>

-----------------------------------------------------------------------------

Next ==
  \/ \E r \in Requests :
        \/ Begin(r) \/ Get(r) \/ Set(r) \/ List(r) \/ Message(r) \/ IndexRow(r) \/ FailRequest(r)
  \/ Create \/ Scan \/ ReadRecord \/ ReadProject \/ ReadMessages \/ CopySqlite
  \/ \E u \in Users : ReadList(u)
  \/ WriteFiles \/ Fail \/ IndexRead \/ IndexWrite \/ PruneRead \/ PruneDir \/ PruneWrite
  \/ Restore \/ RestoreRedis \/ ClearSqlite \/ RestoreSqlite \/ NewChannel \/ Resend \/ Reread
  \/ Repoint \/ SkipManifest \/ RestoredManifest \/ RestoredRead \/ RestoredWrite
  \/ Crash

Spec == Init /\ [][Next]_vars

-----------------------------------------------------------------------------

Quiet == ~Busy /\ backup = Off /\ restore = Off
Clear(kinds) == incidents \cap kinds = {}

\* The catalogue lists the newest backups that were answered, with all their files, and at most
\* as many as are to be retained, unless a backup and a restoration wrote index.json together or
\* one of them was cut short.
CatalogueTruthful ==
  Quiet /\ Clear({"overlap", "cut"}) =>
    LET ready == {e.id : e \in {e \in catalogue : e.status = "ready"}}
    IN /\ \A b \in ready : b \in DOMAIN dirs /\ dirs[b].manifest = "ready"
       /\ DOMAIN dirs = {e.id : e \in catalogue}
       /\ Cardinality(ready) <= Retention
       /\ done # {} => Max(done) \in ready

\* After a restoration, too, the project is on the lists of its members and no others, and
\* requests that come later find it so, unless requests ran into the backup or the restoration,
\* it was cut short, or a user had become a member since the backup: the
\* key of a list the backup does not have is left as it is.
MembershipRestored ==
  Quiet /\ Clear({"torn", "busy", "newer", "cut"}) => listed = record.members

\* The index has every account at the message that holds it: a sign-in finds the account it
\* asks for, after a restoration too, unless requests ran into it, the backup was pruned under
\* it, it was cut short, or an account had been deleted before the backup: the
\* messages sent again are numbered without the gap, and the index keeps the old numbers.
AccountsFound ==
  Quiet /\ Clear({"torn", "busy", "renumbered", "emptied", "cut"}) =>
    sqlite = {<<rows[record.channel][i], i>> : i \in DOMAIN rows[record.channel]}
=============================================================================
