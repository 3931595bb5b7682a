---------------------------- MODULE Transactions ----------------------------
(***************************************************************************)
(* Writers of one table.  A member of Txns is one call of                  *)
(* TransactionService.execute: it takes the project lock in Redis, runs    *)
(* its operations, undoes them in reverse when one fails, announces them   *)
(* when all succeed, and gives the lock back.  A member of Direct is one   *)
(* request of the REST table routes: the same query engine, with no lock   *)
(* and no rollback.                                                        *)
(* Between two awaited calls any other writer may run; the lock's TTL may  *)
(* pass at any time; a Telegram call may fail, with or without effect; the *)
(* API process serving a writer may die.                                   *)
(***************************************************************************)
EXTENDS RowStore

CONSTANTS
  Txns, Direct,   \* the writers
  Free,           \* the lock key is absent
  Trusted,        \* writers that bypass row-level security
  Private,        \* values the policy hides from the others
  Programs,       \* the operation lists a writer may bring
  All,            \* no filter: every row
  Keep,           \* a column the patch leaves alone
  Seeds,          \* the tables, rows in message order, a run starts from
  MaxFaults,      \* bound: storage calls that fail
  TTLMayPass,     \* the lock may expire while a live call holds it
  MayCrash        \* API processes may die

Writers == Txns \cup Direct
Patch == [key : Keys \cup {NoKey, Keep}, val : Vals \cup {Keep}]
Op == {op \in
  [type   : {"insert", "upsert", "update", "delete", "unknown_table"},
   rows   : Seq(Row),           \* values of an insert or upsert
   where  : Keys \cup {All},    \* filter of an update or delete
   patch  : Patch,
   counts : SUBSET (0..MaxMsg), \* expectedCount; 0..MaxMsg when not given
   match  : SUBSET Msgs] :      \* ifMatchMessageIds; {} when not given
     /\ op.type \in {"insert", "upsert"} => op.rows # <<>>
     /\ op.type = "upsert" => \A i \in DOMAIN op.rows : op.rows[i].key \in Keys}

Kinds == {"insert", "replace", "delete"}
Call == [kind : Kinds, todo : SUBSET Item, cur : SUBSET Item,
         done : SUBSET Item, old : SUBSET Item]
Undo == [kind : Kinds, rows : (SUBSET Item) \ {{}}]
Change == [msg : 0..MaxMsg, new : Row \cup {NoRow}, old : Row \cup {NoRow}]

NoCall == [kind |-> "insert", todo |-> {}, cur |-> {}, done |-> {}, old |-> {}]

ASSUME TransactionsAssumption ==
  /\ Txns \cap Direct = {}
  /\ Free \notin Writers
  /\ All \notin Keys
  /\ Keep \notin Keys \cup {NoKey} \cup Vals
  /\ Programs \subseteq Seq(Op)
  /\ Seeds \subseteq Seq(Row)
  /\ \A rows \in Seeds : Len(rows) <= MaxMsg /\ DistinctKeys(rows)
  /\ MaxFaults \in Nat
  /\ TTLMayPass \in BOOLEAN
  /\ MayCrash \in BOOLEAN

VARIABLES
  lock,      \* whose token transactions:lock:<project> holds
  pc,        \* the awaited call each writer is at
  agenda,    \* operations (and values of the first one) still to run
  call,      \* the query engine call in progress
  undo,      \* rollbackActions, the next to run first
  changes,   \* pendingChanges, one set per engine call
  verdict,   \* how the writer's work ended
  \* What follows is not in the code: it records the past for the properties.
  base,      \* contents of the table when the writer began
  view,      \* contents of the table a subscriber has put together
  faults,    \* how many storage calls have failed
  incidents  \* the kinds of mishap that have happened

local == <<agenda, call, undo, changes>>
history == <<base, view, faults, incidents>>
vars == <<store, lock, pc, local, verdict, history>>

Incidents == {
  "expired",      \* the lock's TTL passed before its holder was done
  "crash",        \* an API process died
  "halfdone",     \* a row was stored or deleted and its index call never ran
  "halfcall",     \* a call failed after some of its rows were written
  "swallowed",    \* a rollback action threw, and the error was dropped
  "deletedOwn",   \* a transaction deleted a row it had written before
  "unannounced",  \* enqueueDatabaseChange threw after the last operation
  "toctou",       \* two writers stored one key, each having checked before the other
  "crossed"}      \* a message was written between another writer's write of it
                  \* and that writer's index call

Working(p) == pc[p] \notin {"idle", "wait", "done", "crashed"}
Undoing(p) == verdict[p] = "aborted"

\* Only transactions wait for the lock and roll back.  The engine works on a row only
\* while it has one; a call that replaces or deletes rows in a transaction's
\* operations knows what they were.
CallsOK ==
  \A p \in Writers :
    /\ pc[p] \in {"wait", "undo", "get", "del"} => p \in Txns
    /\ pc[p] = "undo" => Undoing(p)
    /\ Undoing(p) /\ pc[p] \notin {"done", "crashed"} => p \in Txns
    /\ pc[p] \in {"check", "write"} => call[p].todo # {}
    /\ pc[p] = "index" => \E i \in Item : i.msg \in Msgs /\ call[p].cur = {i}
    /\ pc[p] \in {"check", "write", "index"} /\ p \in Txns /\ ~Undoing(p)
         => call[p].kind = "insert" \/ call[p].old # {}

TypeOK ==
  /\ StoreTypeOK
  /\ lock \in Txns \cup {Free}
  /\ pc \in [Writers -> {"idle", "wait", "next", "check", "write", "index",
                         "undo", "announce", "get", "del", "done", "crashed"}]
  /\ agenda \in [Writers -> Seq(Op)]
  /\ call \in [Writers -> Call]
  /\ undo \in [Writers -> Seq(Undo)]
  /\ changes \in [Writers -> Seq((SUBSET Change) \ {{}})]
  /\ verdict \in [Writers -> {"none", "committed", "aborted", "refused", "unannounced"}]
  /\ base \in [Writers -> SUBSET Row]
  /\ view \subseteq Row
  /\ faults \in 0..MaxFaults
  /\ incidents \subseteq Incidents
  /\ CallsOK

Init ==
  /\ \E rows \in Seeds : StoreInit(rows)
  /\ lock = Free
  /\ pc = [p \in Writers |-> "idle"]
  /\ agenda = [p \in Writers |-> <<>>]
  /\ call = [p \in Writers |-> NoCall]
  /\ undo = [p \in Writers |-> <<>>]
  /\ changes = [p \in Writers |-> <<>>]
  /\ verdict = [p \in Writers |-> "none"]
  /\ base = [p \in Writers |-> {}]
  /\ view = Contents
  /\ faults = 0
  /\ incidents = {}

Goto(p, label) == pc' = [pc EXCEPT ![p] = label]
Record(kinds) == incidents' = incidents \cup kinds

-----------------------------------------------------------------------------
(* The lock.                                                                *)

\* A call of /transactions or of a table route arrives.
Start(p) ==
  /\ pc[p] = "idle"
  /\ \E ops \in Programs : agenda' = [agenda EXCEPT ![p] = ops]
  /\ IF p \in Txns
     THEN Goto(p, "wait") /\ UNCHANGED base
     ELSE Goto(p, "next") /\ base' = [base EXCEPT ![p] = Contents]
  /\ UNCHANGED <<store, lock, call, undo, changes, verdict, view, faults, incidents>>

\* Mutant of Acquire: SET without NX.
AcquireAnyway(p) ==
  /\ pc[p] = "wait"
  /\ lock' = p
  /\ Goto(p, "next")
  /\ base' = [base EXCEPT ![p] = Contents]
  /\ UNCHANGED <<store, local, verdict, view, faults, incidents>>

\* SET key token PX 10000 NX answers OK.
Acquire(p) ==
  /\ pc[p] = "wait"
  /\ lock = Free
  /\ lock' = p
  /\ Goto(p, "next")
  /\ base' = [base EXCEPT ![p] = Contents]
  /\ UNCHANGED <<store, local, verdict, view, faults, incidents>>

\* The lock was held at every try until the deadline: ConflictError.
GiveUp(p) ==
  /\ pc[p] = "wait"
  /\ lock # Free
  /\ Goto(p, "done")
  /\ verdict' = [verdict EXCEPT ![p] = "refused"]
  /\ UNCHANGED <<store, lock, local, history>>

\* The `finally` block: GET, then DEL when the token read is its own.
ReadLock(p) ==
  /\ pc[p] = "get"
  /\ Goto(p, IF lock = p THEN "del" ELSE "done")
  /\ UNCHANGED <<store, lock, local, verdict, history>>

DeleteLock(p) ==
  /\ pc[p] = "del"
  /\ lock' = Free
  /\ Goto(p, "done")
  /\ UNCHANGED <<store, local, verdict, history>>

\* PX: Redis drops the key ten seconds after it was set, whatever its holder does.
Expire ==
  /\ lock # Free
  /\ TTLMayPass \/ pc[lock] = "crashed"
  /\ lock' = Free
  /\ Record(IF pc[lock] = "crashed" THEN {} ELSE {"expired"})
  /\ UNCHANGED <<store, pc, local, verdict, base, view, faults>>

-----------------------------------------------------------------------------
(* What a failed or finished engine call leads to.                          *)

\* An exception.  In the operations of a transaction it starts the rollback;
\* in a rollback action it is swallowed and the next action runs; in a REST
\* request it is the answer, whatever was written before.
Fail(p) ==
  /\ verdict' = [verdict EXCEPT ![p] = "aborted"]
  /\ Goto(p, IF p \in Txns THEN "undo" ELSE "done")
  /\ call' = [call EXCEPT ![p] = NoCall]

FailIncidents(p) ==
  (IF Undoing(p) THEN {"swallowed"} ELSE {})
    \cup (IF call[p].done # {} THEN {"halfcall"} ELSE {})

\* Mutant of Compensation: an update is undone with the rows it returned.
CompensationByResult(c) ==
  [kind |-> IF c.kind = "insert" THEN "delete" ELSE IF c.kind = "delete" THEN "insert" ELSE "replace",
   rows |-> c.done]

\* rollbackActions.push(...)
Compensation(c) ==
  CASE c.kind = "insert"  -> [kind |-> "delete",  rows |-> c.done]
    [] c.kind = "replace" -> [kind |-> "replace", rows |-> c.old]
    [] c.kind = "delete"  -> [kind |-> "insert",  rows |-> c.old]

\* pendingChanges.push(...): an upsert of the REST route passes no old row.
ChangesOf(c) ==
  {[msg |-> i.msg,
    new |-> IF c.kind = "delete" THEN NoRow ELSE i.row,
    old |-> IF \E o \in c.old : o.msg = i.msg
            THEN (CHOOSE o \in c.old : o.msg = i.msg).row ELSE NoRow] : i \in c.done}

\* The engine call c returned.
Return(p, c) ==
  /\ call' = [call EXCEPT ![p] = NoCall]
  /\ IF Undoing(p)
     THEN Goto(p, "undo") /\ UNCHANGED <<undo, changes>>
     ELSE /\ undo' = IF p \in Txns THEN [undo EXCEPT ![p] = <<Compensation(c)>> \o @] ELSE undo
          /\ changes' = [changes EXCEPT ![p] = Append(@, ChangesOf(c))]
          /\ Goto(p, IF p \in Txns THEN "next" ELSE "announce")

-----------------------------------------------------------------------------
(* The operations.                                                          *)

Visible(p, msgs) == {m \in msgs : p \in Trusted \/ channel[m].val \notin Private}
Found(op) == IF op.where = All THEN Live ELSE SelectKey(op.where)

\* assertCondition
ConditionHolds(op, msgs) ==
  /\ Cardinality(msgs) \in op.counts
  /\ op.match # {} => msgs = op.match

Patched(row, patch) ==
  [key |-> IF patch.key = Keep THEN row.key ELSE patch.key,
   val |-> IF patch.val = Keep THEN row.val ELSE patch.val]

\* Values of an insert or upsert are taken one at a time.
Rest(ops) ==
  IF Len(Head(ops).rows) > 1
  THEN <<[Head(ops) EXCEPT !.rows = Tail(@)]>> \o Tail(ops)
  ELSE Tail(ops)

\* Enter the engine; a call on no rows returns at once and leaves nothing to undo.
Enter(p, kind, todo, old) ==
  /\ agenda' = [agenda EXCEPT ![p] = Rest(@)]
  /\ IF todo = {}
     THEN UNCHANGED <<pc, call>>
     ELSE /\ call' = [call EXCEPT ![p] = [NoCall EXCEPT !.kind = kind, !.todo = todo, !.old = old]]
          /\ Goto(p, IF kind = "delete" THEN "write" ELSE "check")
  /\ UNCHANGED <<undo, changes, verdict>>

\* The operation throws before it has written anything.
Reject(p) == Fail(p) /\ UNCHANGED <<agenda, undo, changes>>

DoInsert(p, op) ==
  /\ op.type = "insert"
  /\ IF p \notin Trusted /\ \E i \in DOMAIN op.rows : op.rows[i].val \in Private
     THEN Reject(p)
     ELSE Enter(p, "insert", {[msg |-> 0, row |-> Head(op.rows)]}, {})

\* select ... limit 1 on the conflict column, then insert or update.  The route
\* calls QueryEngine.upsert, which knows no policy and no condition on the update.
DoUpsert(p, op) ==
  LET row      == Head(op.rows)
      existing == SelectKey(row.key)
      first    == {m \in existing : \A n \in existing : m <= n}
      allowed  == IF p \in Txns THEN Visible(p, first) ELSE first
      old      == {ItemOf(m) : m \in allowed}
  IN /\ op.type = "upsert"
     /\ IF p \notin Trusted /\ \E i \in DOMAIN op.rows : op.rows[i].val \in Private
        THEN Reject(p)
        ELSE IF existing = {}
        THEN Enter(p, "insert", {[msg |-> 0, row |-> row]}, {})
        ELSE IF p \in Txns /\ ~ConditionHolds(op, allowed)
        THEN Reject(p)
        ELSE Enter(p, "replace", {[i EXCEPT !.row = row] : i \in old},
                   IF p \in Txns THEN old ELSE {})

DoUpdate(p, op) ==
  LET targets == Visible(p, Found(op))
      old     == {ItemOf(m) : m \in targets}
  IN /\ op.type = "update"
     /\ IF p \in Txns /\ ~ConditionHolds(op, targets)
        THEN Reject(p)
        ELSE Enter(p, "replace", {[i EXCEPT !.row = Patched(@, op.patch)] : i \in old}, old)

DoDelete(p, op) ==
  LET targets == Visible(p, Found(op))
      old     == {ItemOf(m) : m \in targets}
  IN /\ op.type = "delete"
     /\ IF p \in Txns /\ ~ConditionHolds(op, targets)
        THEN Reject(p)
        ELSE Enter(p, "delete", old, old)

Operate(p) ==
  /\ pc[p] = "next"
  /\ agenda[p] # <<>>
  /\ LET op == Head(agenda[p])
     IN \/ op.type = "unknown_table" /\ Reject(p)
        \/ DoInsert(p, op)
        \/ DoUpsert(p, op)
        \/ DoUpdate(p, op)
        \/ DoDelete(p, op)
  /\ UNCHANGED <<store, lock, history>>

\* No operation is left.
LastOperation(p) ==
  /\ pc[p] = "next"
  /\ agenda[p] = <<>>
  /\ Goto(p, "announce")
  /\ UNCHANGED <<store, lock, local, verdict, history>>

-----------------------------------------------------------------------------
(* The query engine: each row is checked, written and indexed in turn.      *)

\* The key a writer has checked, or written, and not yet indexed.
PendingKeys(p) ==
  CASE pc[p] = "write" /\ call[p].kind # "delete" -> {First(call[p].todo).row.key}
    [] pc[p] = "index" /\ call[p].kind # "delete" -> {i.row.key : i \in call[p].cur}
    [] OTHER -> {}

\* validateRow and ensureUniqueConstraints.
Check(p) ==
  LET item == First(call[p].todo)
      current == IF call[p].kind = "insert" THEN 0 ELSE item.msg
  IN /\ pc[p] = "check"
     /\ IF Conflicts(item.row, current)
        THEN Fail(p) /\ Record(FailIncidents(p))
        ELSE /\ Goto(p, "write")
             /\ Record(IF \E q \in Writers \ {p} : item.row.key \in PendingKeys(q) \ {NoKey}
                       THEN {"toctou"} ELSE {})
             /\ UNCHANGED <<call, verdict>>
     /\ UNCHANGED <<store, lock, agenda, undo, changes, base, view, faults>>

Stored(kind, item) ==
  CASE kind = "insert"  -> SendMessage(item.row)
    [] kind = "replace" -> EditMessage(item.msg, item.row)
    [] kind = "delete"  -> DeleteMessage(item.msg)

WriteIncidents(p, m) ==
  (IF \E q \in Writers \ {p} : pc[q] = "index" /\ \E i \in call[q].cur : i.msg = m
   THEN {"crossed"} ELSE {})
    \cup
  (IF call[p].kind = "delete" /\ ~Undoing(p)
      /\ \E n \in DOMAIN undo[p] : \E i \in undo[p][n].rows :
           i.msg = m /\ undo[p][n].kind # "insert"
   THEN {"deletedOwn"} ELSE {})

\* sendMessage, editMessage or deleteMessage.
Write(p) ==
  LET c == call[p]
      item == First(c.todo)
      m == IF c.kind = "insert" THEN nextMsg ELSE item.msg
  IN /\ pc[p] = "write"
     /\ IF MissingMessage(c.kind, item.msg)
        THEN Fail(p) /\ Record(FailIncidents(p)) /\ UNCHANGED store
        ELSE /\ Stored(c.kind, item)
             /\ call' = [call EXCEPT ![p].todo = @ \ {item},
                                     ![p].cur = {[item EXCEPT !.msg = m]}]
             /\ Goto(p, "index")
             /\ Record(WriteIncidents(p, m))
             /\ UNCHANGED verdict
     /\ UNCHANGED <<lock, agenda, undo, changes, base, view, faults>>

\* updateIndex or removeIndex; after the last row the call returns.
Index(p) ==
  LET c == call[p]
      next == [c EXCEPT !.cur = {}, !.done = @ \cup c.cur]
  IN /\ pc[p] = "index"
     /\ \E i \in c.cur :
          IF c.kind = "delete" THEN RemoveIndex(i.msg) ELSE UpdateIndex(i.msg, i.row)
     /\ IF c.todo = {}
        THEN Return(p, next)
        ELSE /\ call' = [call EXCEPT ![p] = next]
             /\ Goto(p, IF c.kind = "delete" THEN "write" ELSE "check")
             /\ UNCHANGED <<undo, changes>>
     /\ UNCHANGED <<channel, nextMsg, lock, agenda, verdict, history>>

\* Telegram answers with an error and has done nothing.
StorageFails(p) ==
  /\ faults < MaxFaults
  /\ pc[p] \in {"check", "write"}
  /\ faults' = faults + 1
  /\ Fail(p)
  /\ Record(FailIncidents(p))
  /\ UNCHANGED <<store, lock, agenda, undo, changes, base, view>>

\* Telegram has done it and the answer is lost.
AnswerLost(p) ==
  LET item == First(call[p].todo)
  IN /\ faults < MaxFaults
     /\ pc[p] = "write"
     /\ ~MissingMessage(call[p].kind, item.msg)
     /\ faults' = faults + 1
     /\ Stored(call[p].kind, item)
     /\ Fail(p)
     /\ Record(FailIncidents(p) \cup {"halfdone"})
     /\ UNCHANGED <<lock, agenda, undo, changes, base, view>>

-----------------------------------------------------------------------------
(* Rollback and announcement.                                               *)

\* Mutant of RollBack: the last action is run again and again.
RollBackForever(p) ==
  /\ pc[p] = "undo"
  /\ IF undo[p] = <<>>
     THEN Goto(p, "get") /\ UNCHANGED call
     ELSE LET action == Head(undo[p])
          IN /\ call' = [call EXCEPT ![p] =
                           [NoCall EXCEPT !.kind = action.kind, !.todo = action.rows]]
             /\ Goto(p, IF action.kind = "delete" THEN "write" ELSE "check")
  /\ UNCHANGED <<store, lock, agenda, undo, changes, verdict, history>>

\* Mutant of RollBack: the changes that were undone are announced.
RollBackAndAnnounce(p) ==
  /\ pc[p] = "undo"
  /\ IF undo[p] = <<>>
     THEN Goto(p, "announce") /\ UNCHANGED <<call, undo>>
     ELSE LET action == Head(undo[p])
          IN /\ undo' = [undo EXCEPT ![p] = Tail(@)]
             /\ call' = [call EXCEPT ![p] =
                           [NoCall EXCEPT !.kind = action.kind, !.todo = action.rows]]
             /\ Goto(p, IF action.kind = "delete" THEN "write" ELSE "check")
  /\ UNCHANGED <<store, lock, agenda, changes, verdict, history>>

\* rollbackActions.reverse(): the next action, or the error is thrown on.
RollBack(p) ==
  /\ pc[p] = "undo"
  /\ IF undo[p] = <<>>
     THEN Goto(p, "get") /\ UNCHANGED <<call, undo>>
     ELSE LET action == Head(undo[p])
          IN /\ undo' = [undo EXCEPT ![p] = Tail(@)]
             /\ call' = [call EXCEPT ![p] =
                           [NoCall EXCEPT !.kind = action.kind, !.todo = action.rows]]
             /\ Goto(p, IF action.kind = "delete" THEN "write" ELSE "check")
  /\ UNCHANGED <<store, lock, agenda, changes, verdict, history>>

Heard(change) == (view \ {change.old}) \cup ({change.new} \ {NoRow})

\* broadcastChange, then enqueueDatabaseChange, for one pending change.
Announce(p) ==
  /\ pc[p] = "announce"
  /\ changes[p] # <<>>
  /\ LET change == First(Head(changes[p]))
         left   == Head(changes[p]) \ {change}
     IN /\ view' = Heard(change)
        /\ \/ /\ changes' = [changes EXCEPT ![p] =
                               IF left = {} THEN Tail(@) ELSE <<left>> \o Tail(@)]
              /\ UNCHANGED <<pc, verdict, incidents>>
           \/ \* the webhook queue could not be reached: execute throws, all the same
              /\ faults < MaxFaults
              /\ Record({"unannounced"})
              /\ verdict' = [verdict EXCEPT ![p] = "unannounced"]
              /\ changes' = [changes EXCEPT ![p] = <<>>]
              /\ Goto(p, IF p \in Txns THEN "get" ELSE "done")
  /\ UNCHANGED <<store, lock, agenda, call, undo, base, faults>>

\* Every change is out: the transaction has committed; a REST request goes on
\* with its next row, if there is one.
Announced(p) ==
  /\ pc[p] = "announce"
  /\ changes[p] = <<>>
  /\ IF agenda[p] # <<>>
     THEN Goto(p, "next") /\ UNCHANGED verdict
     ELSE /\ Goto(p, IF p \in Txns THEN "get" ELSE "done")
          /\ verdict' = [verdict EXCEPT ![p] = "committed"]
  /\ UNCHANGED <<store, lock, local, history>>

\* The API process dies; nothing resumes or undoes the work, the lock stays.
Crash(p) ==
  /\ MayCrash
  /\ Working(p) \/ pc[p] = "wait"
  /\ Goto(p, "crashed")
  /\ Record({"crash"} \cup (IF pc[p] = "index" THEN {"halfdone"} ELSE {}))
  /\ UNCHANGED <<store, lock, local, verdict, base, view, faults>>

-----------------------------------------------------------------------------

Step(p) ==
  \/ Acquire(p) \/ GiveUp(p) \/ ReadLock(p) \/ DeleteLock(p)
  \/ Operate(p) \/ LastOperation(p)
  \/ Check(p) \/ Write(p) \/ Index(p)
  \/ RollBack(p) \/ Announce(p) \/ Announced(p)

Next ==
  \/ \E p \in Writers :
       \/ Start(p) \/ Step(p) \/ StorageFails(p) \/ AnswerLost(p) \/ Crash(p)
  \/ Expire

Spec == Init /\ [][Next]_vars

\* A live process goes on with its call, and Redis lets a TTL pass.
FairSpec == Spec /\ (\A p \in Writers : WF_vars(Step(p))) /\ WF_vars(Expire)

-----------------------------------------------------------------------------
(* Properties.                                                              *)

Spoiled(kinds) == incidents \cap kinds # {}

\* As long as no TTL has passed under a live holder, at most one transaction of
\* the project is between taking the lock and giving it back (withProjectLock).
MutualExclusion ==
  "expired" \notin incidents =>
    \A p, q \in Txns : Working(p) /\ Working(q) => p = q

\* When the rollback of a transaction ends, the table holds the rows it held when
\* the transaction began, provided no REST request writes the table, no rollback action
\* threw, no call failed part of the way and the lock was never lost.  Message ids may
\* differ.  A row the transaction wrote and then deleted is inserted again under a new
\* message: the older action that would remove it then throws, or, on Telegram, where
\* deleting what is gone is no error, passes over it in silence.
AbortRestores ==
  /\ Direct = {}
  /\ ~Spoiled({"expired", "halfdone", "halfcall", "swallowed"})
  /\ MissingDeleteThrows \/ "deletedOwn" \notin incidents
  =>
    \A p \in Txns : pc[p] \in {"get", "del"} /\ Undoing(p) => Contents = base[p]

\* Among transactions, a rollback action is only ever swallowed for one of five reasons: a call
\* failed, the lock was lost, an earlier call failed part of the way, the
\* transaction had deleted a row it had itself written before, whose re-insertion
\* gets a new message id that the older rollback action does not know, or a process
\* died before it had indexed a row, and the stale entry blocks a key.
SwallowExplained ==
  Direct = {} /\ "swallowed" \in incidents =>
    \/ faults > 0
    \/ Spoiled({"expired", "halfcall", "deletedOwn"})
    \/ KeyIndexed /\ "halfdone" \in incidents

\* The rollback of a transaction undoes what it did, or there is a reason why it did not.
RollbackAccounted == AbortRestores /\ SwallowExplained

\* A subscriber that applies the broadcast changes in order has the table whenever
\* the lock is free: transactions announce all they did, in the order they did it,
\* and nothing of what they undid, as long as no REST request writes the table.
FeedReplaysTable ==
  Direct = {} /\ lock = Free
    /\ ~Spoiled(Incidents \ IF MissingDeleteThrows THEN {"deletedOwn"} ELSE {})
  => view = Contents

\* A transaction whose rollback has ended has left no trace, whatever it did.
AbortLeavesNoTrace ==
  \A p \in Txns : pc[p] \in {"get", "del"} /\ Undoing(p) => Contents = base[p]

\* Two rows share a key only after two writers had each checked the key before the
\* other had indexed it, or, where the check goes through the index, after a row was
\* left without its entry or two writers wrote one message across each other's index
\* call (ensureUniqueConstraints).
UniqueKeys ==
  ~Spoiled({"toctou"}) /\ (KeyIndexed => ~Spoiled({"crossed", "halfdone"})) =>
    \A m, n \in Live :
      channel[m].key = channel[n].key => m = n \/ channel[m].key = NoKey

\* Those two races take a writer without the lock: a REST request, or a transaction
\* whose lock has expired; transactions alone never interleave on a key or a message.
RacesNeedNoLock ==
  Direct = {} /\ "expired" \notin incidents => ~Spoiled({"toctou", "crossed"})

\* The lock does what it is there for, until its TTL passes under its holder.
LockSuffices == MutualExclusion /\ RacesNeedNoLock

Settled(m) == \A p \in Writers : pc[p] = "index" => \A i \in call[p].cur : i.msg # m

\* The index files every settled message under the key of its row, and a deleted one
\* nowhere, unless a writer died or failed between the two writes, or two writers
\* crossed on the message (updateIndexes, removeIndex).
IndexInStep ==
  ~Spoiled({"crossed", "halfdone"}) =>
    \A m \in Msgs : Settled(m) =>
      index[m] = IF m \in Live THEN IndexEntry(channel[m]) ELSE NoKey

\* Every call is answered, unless its process dies: the wait for the lock ends, the
\* operations and the rollback end.
EveryCallEnds ==
  \A p \in Writers : (pc[p] # "idle") ~> (pc[p] \in {"done", "crashed"})
=============================================================================
