----------------------------- MODULE Migrations -----------------------------
(***************************************************************************)
(* The tables of one project as its schema migrations make them.  A table  *)
(* is known in four places: the project's record in Redis (which channel   *)
(* it has, or had before it was dropped), the log of the schema channel,   *)
(* the rows in its own channel, and the index in SQLite.  A migration      *)
(* changes them one call after the other and, when a call fails, tries to  *)
(* put them back.  Other migrations, the route that adds a table and every *)
(* other update of the project's record may run in between.                *)
(***************************************************************************)
EXTENDS Naturals, SequencesExt

CONSTANTS
  Callers,     \* requests in progress
  Tables,      \* names of tables
  Columns,     \* names of columns
  Migrations,  \* what clients ask for: a name, operations up and operations down
  Additions,   \* create_table operations that come by the table route
  Starts,      \* how a run may start
  MaxCalls,    \* bound: requests
  MaxFaults    \* bound: failures and crashes

None == [cols |-> {}, ix |-> {"none"}]
Schema == [cols : SUBSET Columns, ix : SUBSET Columns]

NoChannel == 0
Channels == 1..(2 * MaxCalls + 2)
\* channelMap and archivedTableChannels
Maps == [live : [Tables -> Channels \cup {NoChannel}], archived : [Tables -> Channels \cup {NoChannel}]]
Kept == [live |-> <<>>, archived |-> <<>>]  \* an update that leaves both as it reads them

VARIABLES
  record,   \* project:<id>: the two maps
  schemas,  \* what getSchemas makes of the log of the schema channel
  history,  \* the MIGRATION_HISTORY entries of the same channel
  rows,     \* the channels there are: their rows, each the set of its columns
  index,    \* field_index: which row is found by which column of which table
  local,    \* the requests' local state
  \* The rest is not in the code.
  inForce,  \* the schemas that the history and the route have made
  opened,   \* channels created so far
  calls, faults,
  incidents \* the kinds of mishap that have happened

tables == <<record, schemas, history, rows, index>>
vars == <<tables, local, inForce, opened, calls, faults, incidents>>

Incidents == {
  "raced",       \* the record changed between an update's GET and its SET
  "stale",       \* the maps changed since a migration made its working copy
  "crossed",     \* a table's schema changed since a request read it, or another was changing it
  "mingled",     \* two migrations rewrote the rows of one table
  "unarchived",  \* a migration failed after it had brought back a dropped table
  "unsaved",     \* a migration failed after it had changed an index of a table without snapshot
  "resurrected", \* a dropped table came back with other columns than its rows have
  "shadowed",    \* the route added a table that has an archived channel
  "halfway",     \* addTable failed after its channel was created
  "unsure",      \* the history was written, and the answer lost
  "refault",     \* a call failed while a failed migration was being undone
  "crash"}       \* the process died during a request

Idle ==
  [kind |-> "idle", name |-> "", dir |-> "up", ops |-> <<>>, left |-> <<>>, stage |-> "check",
   todo |-> <<>>, got |-> Kept, orig |-> Kept, work |-> Kept, known |-> <<>>, snaps |-> <<>>,
   created |-> <<>>, touched |-> <<>>, new |-> NoChannel,
   \* not in the code: tables brought back, tables whose indexes changed before a snapshot,
   \* the maps and schemas as this request last saw or wrote them, and how it all began
   revived |-> {}, loose |-> {}, mine |-> Kept, seen |-> <<>>, alone |-> TRUE, before |-> <<>>]

TypeOK ==
  /\ record \in Maps
  /\ schemas \in [Tables -> Schema \cup {None}] /\ inForce \in [Tables -> Schema \cup {None}]
  /\ history \in Seq([name : {m.name : m \in Migrations}, dir : {"up", "down"}])
  /\ opened \in Channels /\ DOMAIN rows \subseteq 1..opened
  /\ \A c \in DOMAIN rows : rows[c] \in Seq(SUBSET Columns)
  /\ index \subseteq Tables \X Columns \X Nat
  /\ \A p \in Callers :
       /\ local[p].kind \in {"idle", "migrate", "add", "update"}
       /\ local[p].stage \in {"check", "apply", "rebuild", "restore"}
       /\ local[p].kind = "idle" <=> local[p].todo = <<>>
       /\ {local[p].got, local[p].orig, local[p].work, local[p].mine} \subseteq Maps \cup {Kept}
       /\ local[p].alone \in BOOLEAN
  /\ calls \in 0..MaxCalls /\ faults \in 0..MaxFaults
  /\ incidents \subseteq Incidents

Init ==
  /\ \E s \in Starts : record = s.record /\ schemas = s.schemas /\ rows = s.rows /\ index = s.index
  /\ history = <<>>
  /\ local = [p \in Callers |-> Idle]
  /\ inForce = schemas
  /\ opened = Len(rows)
  /\ calls = 0 /\ faults = 0
  /\ incidents = {}

When(condition, kind) == IF condition THEN {kind} ELSE {}

\* A step of a request: an awaited call, and what the code does when it is answered.
Step(what, t) == [do |-> what, table |-> t]

-----------------------------------------------------------------------------
(* What an operation does to a schema and to a row.                         *)

Renamed(s, from, to) == IF from \in s THEN (s \ {from}) \cup {to} ELSE s

Changed(op, s) ==
  CASE op.do = "create" -> op.schema
    [] op.do = "drop" \/ s = None -> None
    [] op.do = "add" -> [s EXCEPT !.cols = @ \cup {op.col}]
    [] op.do = "remove" -> [cols |-> s.cols \ {op.col}, ix |-> s.ix \ {op.col}]
    [] op.do = "rename" -> [cols |-> Renamed(s.cols, op.col, op.to), ix |-> Renamed(s.ix, op.col, op.to)]
    [] op.do = "index" -> [s EXCEPT !.ix = @ \cup {op.col}]
    [] op.do = "unindex" -> [s EXCEPT !.ix = @ \ {op.col}]
    [] op.do = "retype" -> s

\* Mutant of Reshaped: the old column stays.
ReshapedInPart(op, row) ==
  CASE op.do = "add" -> row \cup {op.col}
    [] op.do = "remove" -> row \ {op.col}
    [] op.do = "rename" -> row \cup {op.to}
    [] op.do = "retype" -> row

Reshaped(op, row) ==
  CASE op.do = "add" -> row \cup {op.col}
    [] op.do = "remove" -> row \ {op.col}
    [] op.do = "rename" -> Renamed(row, op.col, op.to)
    [] op.do = "retype" -> row

\* updateIndexes: a row without any indexed value keeps its old entries.
Indexed(ix, t, i, row, s) ==
  LET entries == {<<t, c, i>> : c \in s.ix \cap row}
  IN IF entries = {} THEN ix ELSE {e \in ix : ~(e[1] = t /\ e[3] = i)} \cup entries

OfTable(t) == {e \in index : e[1] = t}

-----------------------------------------------------------------------------
(* The steps of a migration.                                                *)

Snapped(l) == {l.snaps[i].table : i \in DOMAIN l.snaps}

\* An operation that throws before it has done anything.
Refused(l, op) ==
  LET s == l.known[op.table]
  IN CASE op.do = "create" -> s # None
       [] op.do = "drop" -> s = None \/ l.work.live[op.table] = NoChannel
       [] op.do = "index" -> s = None \/ op.col \notin s.cols
       [] op.do = "unindex" -> s = None
       [] OTHER -> \/ s = None \/ l.work.live[op.table] = NoChannel
                   \/ op.do = "add" /\ op.col \in s.cols
                   \/ op.do = "rename" /\ op.to \in s.cols

\* snapshotTable is called at every operation on rows, and takes one snapshot of a table.
Snapshots(l, t) ==
  IF t \in Snapped(l) THEN <<>>
  ELSE <<[do |-> "snapshot", table |-> t, channel |-> l.work.live[t], schema |-> l.known[t]]>>

Update(maps) == <<Step("get", ""), [do |-> "put", table |-> "", maps |-> maps]>>
SaveStep(t, s) == [do |-> "save", table |-> t, schema |-> s]
AddSteps(t, s) ==
  <<Step("fresh", t), Step("channel", t), Step("place", t), [do |-> "enter", table |-> t, schema |-> s]>>

\* What applyOperation awaits, and its working copies when it is through with it.
Entered(l, op) ==
  LET t == op.table
      s == Changed(op, l.known[t])
      now == [l EXCEPT !.left = Tail(@), !.known[t] = s,
                       !.touched = IF op.do = "drop" THEN Remove(@, t)
                                   ELSE IF Contains(@, t) THEN @ ELSE Append(@, t)]
      back == [live |-> [l.work.live EXCEPT ![t] = l.work.archived[t]],
               archived |-> [l.work.archived EXCEPT ![t] = NoChannel]]
      away == [live |-> [l.work.live EXCEPT ![t] = NoChannel],
               archived |-> [l.work.archived EXCEPT ![t] = l.work.live[t]]]
  IN CASE op.do = "create" /\ l.work.archived[t] # NoChannel ->
            [now EXCEPT !.work = back, !.revived = @ \cup {t},
                        !.todo = Append(Update(back), SaveStep(t, s))]
       [] op.do = "create" -> [now EXCEPT !.todo = AddSteps(t, s)]
       [] op.do = "drop" ->
            [now EXCEPT !.work = away,
                        !.todo = Snapshots(l, t) \o Update(away)
                                   \o <<[do |-> "unsave", table |-> t], Step("unindex", t)>>]
       [] op.do \in {"index", "unindex"} ->
            [now EXCEPT !.todo = <<SaveStep(t, s)>>,
                        !.loose = IF t \in Snapped(l) THEN @ ELSE @ \cup {t}]
       [] OTHER ->
            [now EXCEPT !.todo = Snapshots(l, t)
               \o <<[do |-> "read", table |-> t, channel |-> l.work.live[t], op |-> op, schema |-> s],
                    SaveStep(t, s)>>]

\* rebuildIndexes, of every table touched that is still there
Rebuilds(l) ==
  FlattenSeq([i \in DOMAIN l.touched |->
    LET t == l.touched[i]
    IN IF l.known[t] = None \/ l.work.live[t] = NoChannel THEN <<>>
       ELSE <<Step("unindex", t),
              [do |-> "fill", table |-> t, channel |-> l.work.live[t], schema |-> l.known[t]]>>])

\* The steps of replaceRows, with the row each message becomes.
Writes(t, channel, s, news) ==
  [i \in DOMAIN news |-> [do |-> "write", table |-> t, channel |-> channel, schema |-> s,
                          row |-> i, cols |-> news[i]]]

\* Mutant of PutBack: the rows, and not the schema.
PutBackRows(l, snap) ==
  LET at == IF l.orig.live[snap.table] # NoChannel THEN l.orig.live[snap.table]
            ELSE l.orig.archived[snap.table]
  IN IF at = NoChannel THEN <<>> ELSE Writes(snap.table, at, snap.schema, snap.rows)

\* restoreProjectState, of a table with a snapshot
PutBack(l, snap) ==
  LET at == IF l.orig.live[snap.table] # NoChannel THEN l.orig.live[snap.table]
            ELSE l.orig.archived[snap.table]
  IN IF at = NoChannel THEN <<>>
     ELSE Append(Writes(snap.table, at, snap.schema, snap.rows), SaveStep(snap.table, snap.schema))

\* and of one it created
TakeBack(l, made) ==
  IF l.orig.live[made.table] # NoChannel \/ l.orig.archived[made.table] # NoChannel THEN <<>>
  ELSE <<[do |-> "delete", table |-> made.table, channel |-> made.channel],
         Step("unindex", made.table), Step("unsave", made.table)>>

\* The catch of executeMigration.
Restoring(l) ==
  [l EXCEPT !.stage = "restore",
            !.todo = Update(l.orig)
                       \o FlattenSeq([i \in DOMAIN l.snaps |-> PutBack(l, l.snaps[i])])
                       \o FlattenSeq([i \in DOMAIN l.created |-> TakeBack(l, l.created[i])])]

\* What a request does when its steps so far are done.
Proceed(l) ==
  IF l.todo # <<>> THEN l
  ELSE IF l.kind # "migrate" \/ l.stage \in {"rebuild", "restore"} THEN Idle
  ELSE IF l.left # <<>> THEN IF Refused(l, Head(l.left)) THEN Restoring(l) ELSE Entered(l, Head(l.left))
  ELSE [l EXCEPT !.stage = "rebuild", !.todo = Append(Rebuilds(l), Step("history", ""))]

\* What it does when the step it is at throws.  Only the first two errors of a restore,
\* those of updateProject, end it; replaceRows stops at its first, and the rest goes on.
Thrown(l) ==
  LET s == Head(l.todo)
      SameWrites(x) == x.do = "write" /\ x.table = s.table
      after == IF s.do = "write" THEN SelectSeq(l.todo, LAMBDA x : ~SameWrites(x)) ELSE Tail(l.todo)
  IN IF l.kind # "migrate" \/ l.stage = "check" THEN Idle
     ELSE IF l.stage # "restore" THEN Restoring(l)
     ELSE IF s.do \in {"get", "put"} THEN Idle
     ELSE Proceed([l EXCEPT !.todo = after])

\* A request goes on from l, whose step has been answered, or has thrown.
Answer(p, l, threw, kinds) ==
  LET next == IF threw THEN Thrown(l) ELSE Proceed([l EXCEPT !.todo = Tail(@)])
      fails == l.stage # "restore" /\ next.stage = "restore"
  IN /\ local' = [local EXCEPT ![p] = next]
     /\ incidents' = incidents \cup kinds
          \cup When(fails /\ \E t \in l.revived : l.orig.archived[t] # NoChannel, "unarchived")
          \cup When(fails /\ l.loose # {}, "unsaved")

\* Redis or Telegram does what it is asked; or does it, and the answer is lost.
MayLose(lost) ==
  /\ lost => faults < MaxFaults
  /\ faults' = IF lost THEN faults + 1 ELSE faults
Mishap(l, lost) ==
  When(lost /\ l.stage = "restore", "refault")
    \cup When(lost /\ Head(l.todo).do \in {"channel", "place", "enter"}, "halfway")
    \cup When(lost /\ Head(l.todo).do = "history", "unsure")

-----------------------------------------------------------------------------
(* Requests come.                                                           *)

Active == {p \in Callers : local[p].kind # "idle"}

\* What later requests can see: of the index, the entries of indexed columns.
Observable ==
  <<record, schemas, rows, {e \in index : schemas[e[1]] # None /\ e[2] \in schemas[e[1]].ix}>>

Arrive(p, l) ==
  /\ local[p].kind = "idle"
  /\ calls < MaxCalls
  /\ calls' = calls + 1
  /\ local' = [q \in Callers |->
       IF q = p THEN [l EXCEPT !.mine = record, !.seen = schemas, !.alone = (Active = {}),
                               !.before = Observable]
       ELSE IF q \in Active THEN [local[q] EXCEPT !.alone = FALSE] ELSE local[q]]
  /\ UNCHANGED <<tables, inForce, opened, faults, incidents>>

\* apply and rollback read the project, which is what executeMigration will copy.
Migrate(p, m, dir) ==
  Arrive(p, [Idle EXCEPT !.kind = "migrate", !.name = m.name, !.dir = dir,
                         !.ops = IF dir = "up" THEN m.up ELSE m.down,
                         !.orig = record, !.work = record, !.todo = <<Step("check", "")>>])

\* The table route, from where addTable reads the project.
AddTable(p, op) ==
  Arrive(p, [Idle EXCEPT !.kind = "add", !.todo = AddSteps(op.table, op.schema)])

\* updateProject of any other field of the record
UpdateProject(p) ==
  Arrive(p, [Idle EXCEPT !.kind = "update", !.todo = Update(Kept)])

-----------------------------------------------------------------------------
(* They are answered.                                                       *)

At(p, what) == local[p].todo # <<>> /\ Head(local[p].todo).do = what
This(p) == Head(local[p].todo)

\* computeAppliedMigrations
Applied(name) ==
  \E i \in DOMAIN history :
    /\ history[i].name = name /\ history[i].dir = "up"
    /\ \A j \in DOMAIN history : history[j].name = name => j <= i

\* list reads the history; what it allows goes on to read the schemas.
Check(p) ==
  LET l == local[p]
  IN /\ At(p, "check")
     /\ local' = [local EXCEPT ![p] = IF (l.dir = "up") = Applied(l.name) THEN Idle
                                      ELSE [l EXCEPT !.todo = <<Step("schemas", "")>>]]
     /\ UNCHANGED <<tables, inForce, opened, calls, faults, incidents>>

\* getSchemas; then the first operation begins.
ReadSchemas(p) ==
  /\ At(p, "schemas")
  /\ Answer(p, [local[p] EXCEPT !.known = schemas, !.seen = schemas, !.left = local[p].ops,
                                !.stage = "apply"], FALSE,
            When(\E q \in Active \ {p} : local[q].touched # <<>>, "crossed"))
  /\ UNCHANGED <<tables, inForce, opened, calls, faults>>

\* updateProject: GET
GetRecord(p) ==
  /\ At(p, "get")
  /\ Answer(p, [local[p] EXCEPT !.got = record], FALSE, {})
  /\ UNCHANGED <<tables, inForce, opened, calls, faults>>

\* and SET.
PutRecord(p, lost) ==
  LET l == local[p]
      maps == IF This(p).maps = Kept THEN l.got ELSE This(p).maps
  IN /\ At(p, "put")
     /\ MayLose(lost)
     /\ record' = maps
     /\ Answer(p, [l EXCEPT !.mine = maps], lost,
               Mishap(l, lost)
                 \cup IF This(p).maps = Kept THEN When(record # l.got, "raced")
                                              ELSE When(record # l.mine, "stale"))
     /\ UNCHANGED <<schemas, history, rows, index, inForce, opened, calls>>

\* addTable: the project as it is now may have the table.
Fresh(p) ==
  /\ At(p, "fresh")
  /\ Answer(p, [local[p] EXCEPT !.got = record], record.live[This(p).table] # NoChannel, {})
  /\ UNCHANGED <<tables, inForce, opened, calls, faults>>

CreateChannel(p, lost) ==
  /\ At(p, "channel")
  /\ MayLose(lost)
  /\ opened' = opened + 1
  /\ rows' = [c \in DOMAIN rows \cup {opened'} |-> IF c = opened' THEN <<>> ELSE rows[c]]
  /\ Answer(p, [local[p] EXCEPT !.new = opened'], lost, Mishap(local[p], lost))
  /\ UNCHANGED <<record, schemas, history, index, inForce, calls>>

\* The project that was read is written back with the new channel.
Place(p, lost) ==
  LET l == local[p]
      t == This(p).table
  IN /\ At(p, "place")
     /\ MayLose(lost)
     /\ record' = [l.got EXCEPT !.live[t] = l.new]
     /\ Answer(p, [l EXCEPT !.mine.live[t] = l.new], lost,
               Mishap(l, lost) \cup When(record # l.got, "raced")
                              \cup When(record.archived[t] # NoChannel, "shadowed"))
     /\ UNCHANGED <<schemas, history, rows, index, inForce, opened, calls>>

\* The end of addTable; a migration notes the channel as one to take back.
EnterTable(p, lost) ==
  LET l == local[p]
      t == This(p).table
      noted == [l EXCEPT !.seen[t] = This(p).schema]
  IN /\ At(p, "enter")
     /\ MayLose(lost)
     /\ schemas' = [schemas EXCEPT ![t] = This(p).schema]
     /\ inForce' = IF l.kind = "add" THEN [inForce EXCEPT ![t] = This(p).schema] ELSE inForce
     /\ Answer(p, IF l.kind = "add" \/ lost THEN noted
                  ELSE [noted EXCEPT !.work.live[t] = l.new,
                                     !.created = Append(@, [table |-> t, channel |-> l.new])],
               lost, Mishap(l, lost) \cup When(schemas[t] # l.seen[t], "crossed"))
     /\ UNCHANGED <<record, history, rows, index, opened, calls>>

\* saveSchema
SaveSchema(p, lost) ==
  LET l == local[p]
      t == This(p).table
      s == This(p).schema
      now == l.work.live[t]
  IN /\ At(p, "save")
     /\ MayLose(lost)
     /\ schemas' = [schemas EXCEPT ![t] = s]
     /\ Answer(p, [l EXCEPT !.seen[t] = s], lost,
               Mishap(l, lost)
                 \cup When(schemas[t] # l.seen[t], "crossed")
                 \cup When(t \in l.revived /\ now \in DOMAIN rows
                           /\ \E i \in DOMAIN rows[now] : rows[now][i] # s.cols, "resurrected"))
     /\ UNCHANGED <<record, history, rows, index, inForce, opened, calls>>

\* markSchemaRemoved
RemoveSchema(p, lost) ==
  LET l == local[p]
      t == This(p).table
  IN /\ At(p, "unsave")
     /\ MayLose(lost)
     /\ schemas' = [schemas EXCEPT ![t] = None]
     /\ Answer(p, [l EXCEPT !.seen[t] = None], lost,
               Mishap(l, lost) \cup When(schemas[t] # l.seen[t], "crossed"))
     /\ UNCHANGED <<record, history, rows, index, inForce, opened, calls>>

\* IndexManager.dropTable
DropIndex(p) ==
  /\ At(p, "unindex")
  /\ index' = index \ OfTable(This(p).table)
  /\ Answer(p, local[p], FALSE, {})
  /\ UNCHANGED <<record, schemas, history, rows, inForce, opened, calls, faults>>

\* snapshotTable; a channel that is gone cannot be read.
Snapshot(p) ==
  LET s == This(p)
      gone == s.channel \notin DOMAIN rows
  IN /\ At(p, "snapshot")
     /\ Answer(p, IF gone THEN local[p]
                  ELSE [local[p] EXCEPT !.snaps = Append(@, [table |-> s.table, schema |-> s.schema,
                                                             rows |-> rows[s.channel]])],
               gone, {})
     /\ UNCHANGED <<tables, inForce, opened, calls, faults>>

\* The rows are read and made over in memory, which may throw; then each is written.
ReadRows(p) ==
  LET l == local[p]
      s == This(p)
      gone == s.channel \notin DOMAIN rows
      unfit == s.op.do = "retype" /\ ~s.op.fits /\ rows[s.channel] # <<>>
      news == [i \in DOMAIN rows[s.channel] |-> Reshaped(s.op, rows[s.channel][i])]
  IN /\ At(p, "read")
     /\ IF gone \/ unfit THEN Answer(p, l, TRUE, {})
        ELSE Answer(p, [l EXCEPT !.todo = <<Head(@)>> \o Writes(s.table, s.channel, s.schema, news)
                                            \o Tail(@)], FALSE, {})
     /\ UNCHANGED <<tables, inForce, opened, calls, faults>>

\* replaceRows, of one row: the message is edited; once that is answered, indexed.
WriteRow(p, lost) ==
  LET s == This(p)
      gone == s.channel \notin DOMAIN rows
  IN /\ At(p, "write")
     /\ ~(lost /\ gone)
     /\ MayLose(lost)
     /\ rows' = IF gone THEN rows ELSE [rows EXCEPT ![s.channel][s.row] = s.cols]
     /\ index' = IF gone \/ lost THEN index ELSE Indexed(index, s.table, s.row, s.cols, s.schema)
     /\ Answer(p, local[p], lost \/ gone,
               Mishap(local[p], lost)
                 \cup When(\E q \in Active \ {p} : s.table \in Snapped(local[q]), "mingled"))
     /\ UNCHANGED <<record, schemas, history, inForce, opened, calls>>

\* rebuildIndexes, after its dropTable
FillIndex(p) ==
  LET s == This(p)
      gone == s.channel \notin DOMAIN rows
  IN /\ At(p, "fill")
     /\ index' = IF gone THEN index
                 ELSE index \cup UNION {{<<s.table, c, i>> : c \in s.schema.ix \cap s.schema.cols
                                                                   \cap rows[s.channel][i]} :
                                         i \in DOMAIN rows[s.channel]}
     /\ Answer(p, local[p], gone, When(schemas[s.table] # local[p].seen[s.table], "crossed"))
     /\ UNCHANGED <<record, schemas, history, rows, inForce, opened, calls, faults>>

\* The MIGRATION_HISTORY message: from here on the migration is in force.
WriteHistory(p, lost) ==
  LET l == local[p]
      Apply(made, op) == [made EXCEPT ![op.table] = Changed(op, @)]
  IN /\ At(p, "history")
     /\ MayLose(lost)
     /\ history' = Append(history, [name |-> l.name, dir |-> l.dir])
     /\ inForce' = FoldLeft(Apply, inForce, l.ops)
     /\ Answer(p, l, lost, Mishap(l, lost))
     /\ UNCHANGED <<record, schemas, rows, index, opened, calls>>

\* deleteChannel
DeleteChannel(p, lost) ==
  /\ At(p, "delete")
  /\ MayLose(lost)
  /\ rows' = [c \in DOMAIN rows \ {This(p).channel} |-> rows[c]]
  /\ Answer(p, local[p], lost, Mishap(local[p], lost))
  /\ UNCHANGED <<record, schemas, history, index, inForce, opened, calls>>

-----------------------------------------------------------------------------
\* A call throws and has done nothing.
Fail(p) ==
  LET l == local[p]
  IN /\ l.todo # <<>> /\ This(p).do # "unindex"
     /\ MayLose(TRUE)
     /\ Answer(p, l, TRUE, When(l.stage = "restore", "refault")
                            \cup When(This(p).do \in {"place", "enter"}, "halfway"))
     /\ UNCHANGED <<tables, inForce, opened, calls>>

\* The process dies, and its requests with it.
Crash ==
  /\ Active # {}
  /\ MayLose(TRUE)
  /\ local' = [p \in Callers |-> Idle]
  /\ incidents' = incidents \cup {"crash"}
  /\ UNCHANGED <<tables, inForce, opened, calls>>

Next ==
  \/ \E p \in Callers :
       \/ \E m \in Migrations, dir \in {"up", "down"} : Migrate(p, m, dir)
       \/ \E op \in Additions : AddTable(p, op)
       \/ UpdateProject(p) \/ Check(p) \/ ReadSchemas(p) \/ GetRecord(p) \/ Fresh(p)
       \/ DropIndex(p) \/ Snapshot(p) \/ ReadRows(p) \/ FillIndex(p) \/ Fail(p)
       \/ \E lost \in BOOLEAN :
            \/ PutRecord(p, lost) \/ CreateChannel(p, lost) \/ Place(p, lost) \/ EnterTable(p, lost)
            \/ SaveSchema(p, lost) \/ RemoveSchema(p, lost) \/ WriteRow(p, lost)
            \/ WriteHistory(p, lost) \/ DeleteChannel(p, lost)
  \/ Crash

Spec == Init /\ [][Next]_vars

-----------------------------------------------------------------------------
(* Properties.                                                              *)

Quiet == Active = {}
Spoiled(kinds) == incidents \cap kinds # {}
Unfinished == {"crash", "refault", "halfway"}

\* A migration that fails, with no other request in between, leaves the record, the
\* schemas, the channels, the rows and the index as they were, unless it brought back a
\* table or changed an index without a snapshot, or its undoing failed.
LeavesNoTrace ==
  \A p \in Callers :
    /\ local[p].stage = "restore" /\ local'[p].kind = "idle"
    /\ local[p].alone /\ incidents' = {}
    => local[p].before = Observable'

\* The schemas are those that the migrations applied, rolled back and applied again, in
\* the order of the history, and the route's tables make: no failed one has a part in them.
SchemasInForce ==
  Quiet /\ ~Spoiled(Unfinished \cup {"unsure", "crossed", "unarchived", "unsaved"}) =>
    schemas = inForce

\* The tables with a schema are those with a channel, each its own, and no channel is
\* left that the record does not name.
TablesHaveChannels ==
  Quiet /\ ~Spoiled(Unfinished \cup {"raced", "stale", "crossed", "unarchived", "shadowed"}) =>
    /\ \A t \in Tables : schemas[t] # None <=> record.live[t] # NoChannel
    /\ DOMAIN rows = {record[m][t] : m \in {"live", "archived"}, t \in Tables} \ {NoChannel}
    /\ \A t, u \in Tables : t # u /\ record.live[t] = record.live[u] => record.live[t] = NoChannel

\* The record, the schemas and Telegram's channels agree on the tables there are.
TablesAgree == SchemasInForce /\ TablesHaveChannels

\* Every row of a table has the columns of its schema.
RowsFitSchema ==
  Quiet /\ ~Spoiled({"crash", "refault", "crossed", "mingled", "resurrected"}) =>
    \A t \in Tables : \A c \in {record.live[t]} \cap DOMAIN rows :
      \A i \in DOMAIN rows[c] : schemas[t] # None => rows[c][i] = schemas[t].cols

\* A select by an indexed column finds every row that has the column, and no other.
ReadsFindRows ==
  Quiet /\ ~Spoiled({"crash", "refault", "raced", "crossed", "mingled", "unsaved", "unarchived"}) =>
    \A t \in Tables : \A c \in {record.live[t]} \cap DOMAIN rows :
      schemas[t] # None =>
        \A x \in schemas[t].ix \cap schemas[t].cols :
          {i \in DOMAIN rows[c] : x \in rows[c][i]} = {e[3] : e \in {e \in OfTable(t) : e[2] = x}}

\* The rows, the schemas and the index agree on what a table holds.
RowsAgree == RowsFitSchema /\ ReadsFindRows
=============================================================================
