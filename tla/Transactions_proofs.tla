------------------------- MODULE Transactions_proofs -------------------------
(***************************************************************************)
(* Proofs about Transactions, for any set of writers, programs and tables. *)
(***************************************************************************)
EXTENDS Transactions, TLAPS, WellFoundedInduction, FiniteSetTheorems,
        SequenceTheorems

-----------------------------------------------------------------------------
(* Helpers of the model.                                                    *)

\* A nonempty set of items has one with the least message id: the row the engine
\* takes next is one of those it still has to do.
LEMMA FirstOfItems ==
  ASSUME NEW items, items # {}, \A i \in items : i.msg \in Nat
  PROVE  First(items) \in items
<1> DEFINE below(n)  == {z \in Nat : z < n}
           families  == {below(i.msg) : i \in items}
           less      == StrictSubsetOrdering(Nat)
<1>1. IsWellFoundedOn(less, FiniteSubsetsOf(Nat))
  BY FS_StrictSubsetOrderingWellFounded
<1>2. families \subseteq FiniteSubsetsOf(Nat) /\ families # {}
  <2> SUFFICES ASSUME NEW i \in items
               PROVE  below(i.msg) \in FiniteSubsetsOf(Nat)
    OBVIOUS
  <2>1. below(i.msg) \in SUBSET (0..i.msg)
    OBVIOUS
  <2>2. IsFiniteSet(0..i.msg)
    BY FS_Interval
  <2> QED BY <2>1, <2>2, FS_Subset DEF FiniteSubsetsOf
<1>3. \E f \in families : \A g \in families : ~(<<g, f>> \in less)
  <2> HIDE DEF families, less
  <2> QED BY <1>1, <1>2, WFMin
<1>4. PICK i \in items : \A j \in items : ~(<<below(j.msg), below(i.msg)>> \in less)
  BY <1>3
<1>5. ASSUME NEW j \in items, j.msg < i.msg
      PROVE  FALSE
  <2>1. below(j.msg) \subseteq below(i.msg)
    BY <1>5
  <2>2. j.msg \in below(i.msg) /\ j.msg \notin below(j.msg)
    BY <1>5
  <2>3. <<below(j.msg), below(i.msg)>> \in less
    BY <2>1, <2>2 DEF StrictSubsetOrdering
  <2> QED BY <1>4, <2>3
<1>6. \A j \in items : i.msg <= j.msg
  BY <1>5
<1> QED BY <1>6 DEF First

\* The values of an insert after the first.
LEMMA TailOfLonger ==
  ASSUME NEW S, NEW s \in Seq(S), Len(s) > 1
  PROVE  /\ Tail(s) \in Seq(S)
         /\ Tail(s) # <<>>
         /\ \A i \in DOMAIN Tail(s) : i + 1 \in DOMAIN s /\ Tail(s)[i] = s[i + 1]
<1>1. Len(s) \in Nat /\ DOMAIN s = 1..Len(s) /\ Len(<<>>) = 0
  BY LenProperties
<1>2. s # <<>>
  BY <1>1
<1> DEFINE t == Tail(s)
<1>3. t \in Seq(S) /\ Len(t) = Len(s) - 1 /\ \A i \in 1..Len(t) : t[i] = s[i + 1]
  BY <1>2, HeadTailProperties
<1> HIDE DEF t
<1>4. DOMAIN t = 1..Len(t)
  BY <1>3, LenProperties
<1>5. t # <<>>
  BY <1>1, <1>3
<1>6. \A i \in DOMAIN t : i + 1 \in DOMAIN s
  BY <1>1, <1>3, <1>4
<1> QED BY <1>3, <1>4, <1>5, <1>6 DEF t

\* What is left of an operation list after one value, or one operation, is taken.
LEMMA RestType ==
  ASSUME NEW ops \in Seq(Op), ops # <<>>
  PROVE  Rest(ops) \in Seq(Op)
<1> DEFINE op == Head(ops)
           rest == [op EXCEPT !.rows = Tail(@)]
<1>1. op \in Op /\ Tail(ops) \in Seq(Op)
  BY HeadTailProperties
<1>2. ASSUME Len(op.rows) > 1
      PROVE  <<rest>> \o Tail(ops) \in Seq(Op)
  <2>1. op.rows \in Seq(Row)
    BY <1>1 DEF Op
  <2> DEFINE t == Tail(op.rows)
  <2>2. t \in Seq(Row) /\ t # <<>> /\ \A i \in DOMAIN t : i + 1 \in DOMAIN op.rows /\ t[i] = op.rows[i + 1]
    BY <1>2, <2>1, TailOfLonger
  <2> HIDE DEF t
  <2>3. [op EXCEPT !.rows = t] \in Op
    BY <1>1, <2>2 DEF Op
  <2>4. rest \in Op
    BY <2>3 DEF t
  <2> QED BY <1>1, <2>4, ConcatProperties
<1> QED BY <1>1, <1>2 DEF Rest

\* The type of a change the writer announces.
LEMMA ChangesType ==
  ASSUME NEW c \in Call, c.done # {}
  PROVE  ChangesOf(c) \in (SUBSET Change) \ {{}}
<1> DEFINE former(i) == IF \E o \in c.old : o.msg = i.msg
                       THEN (CHOOSE o \in c.old : o.msg = i.msg).row ELSE NoRow
           change(i) == [msg |-> i.msg,
                         new |-> IF c.kind = "delete" THEN NoRow ELSE i.row,
                         old |-> former(i)]
<1>1. ASSUME NEW i \in c.done
      PROVE  change(i) \in Change
  <2>1. i.msg \in 0..MaxMsg /\ i.row \in Row
    BY <1>1 DEF Call, Item
  <2>2. former(i) \in Row \cup {NoRow}
    BY DEF Call, Item
  <2> QED BY <2>1, <2>2 DEF Change
<1>2. ChangesOf(c) = {change(i) : i \in c.done}
  BY DEF ChangesOf
<1> HIDE DEF change
<1> QED BY <1>1, <1>2

-----------------------------------------------------------------------------
(* Type correctness.                                                        *)

LEMMA InitType == Init => TypeOK
<1> SUFFICES ASSUME Init PROVE TypeOK
  OBVIOUS
<1>1. StoreTypeOK /\ view \subseteq Row
  <2>1. PICK rows \in Seeds : StoreInit(rows)
    BY DEF Init
  <2>2. rows \in Seq(Row) /\ Len(rows) \in 0..MaxMsg
    BY RowStoreAssumption, TransactionsAssumption, LenProperties
  <2>3. \A m \in Msgs : m <= Len(rows) => rows[m] \in Row
    BY <2>2, ElementOfSeq DEF Msgs
  <2>4. StoreTypeOK
    BY <2>1, <2>2, <2>3, RowStoreAssumption DEF StoreInit, StoreTypeOK, Row, Msgs, IndexEntry
  <2> QED BY <2>4 DEF Init, StoreTypeOK, Contents, Live
<1>2. NoCall \in Call
  BY DEF NoCall, Call, Kinds
<1> QED BY <1>1, <1>2, TransactionsAssumption, EmptySeq DEF Init, TypeOK, CallsOK, Undoing

\* The steps that touch only the lock, the place a call has reached and its end.
LEMMA LockType ==
  ASSUME TypeOK, NEW p \in Writers,
         \/ Start(p) \/ Acquire(p) \/ GiveUp(p) \/ ReadLock(p) \/ DeleteLock(p)
         \/ LastOperation(p) \/ Announced(p) \/ Crash(p) \/ Expire
  PROVE  TypeOK'
<1> USE DEF vars, store, local, history
<1>1. Contents \in SUBSET Row
  BY DEF TypeOK, StoreTypeOK, Contents, Live
<1>2. StoreTypeOK'
  BY DEF TypeOK, StoreTypeOK, Start, Acquire, GiveUp, ReadLock, DeleteLock, LastOperation,
         Announced, Crash, Expire
<1>3. CASE Start(p)
  <2>1. PICK ops \in Programs : agenda' = [agenda EXCEPT ![p] = ops]
    BY <1>3 DEF Start
  <2>2. ops \in Seq(Op)
    BY TransactionsAssumption
  <2>3. agenda' \in [Writers -> Seq(Op)]
    BY <2>1, <2>2 DEF TypeOK
  <2>4. CASE p \in Txns
    BY <1>2, <1>3, <2>3, <2>4 DEF TypeOK, CallsOK, Start, Goto, Undoing
  <2>5. CASE p \notin Txns
    <3>1. pc' = [pc EXCEPT ![p] = "next"] /\ base' = [base EXCEPT ![p] = Contents]
      BY <1>3, <2>5 DEF Start, Goto
    <3>2. base' \in [Writers -> SUBSET Row]
      BY <1>1, <3>1 DEF TypeOK
    <3> QED BY <1>2, <1>3, <2>3, <3>1, <3>2 DEF TypeOK, CallsOK, Start, Undoing
  <2> QED BY <2>4, <2>5
<1>4. CASE Acquire(p)
  BY <1>1, <1>2, <1>4 DEF TypeOK, CallsOK, Acquire, Goto, Undoing
<1>5. CASE GiveUp(p)
  BY <1>2, <1>5 DEF TypeOK, CallsOK, GiveUp, Goto, Undoing
<1>6. CASE ReadLock(p)
  BY <1>2, <1>6 DEF TypeOK, CallsOK, ReadLock, Goto, Undoing
<1>7. CASE DeleteLock(p)
  BY <1>2, <1>7 DEF TypeOK, CallsOK, DeleteLock, Goto, Undoing
<1>8. CASE LastOperation(p)
  BY <1>2, <1>8 DEF TypeOK, CallsOK, LastOperation, Goto, Undoing
<1>9. CASE Announced(p)
  <2>1. CASE agenda[p] # <<>>
    BY <1>2, <1>9, <2>1 DEF TypeOK, CallsOK, Announced, Goto, Undoing
  <2>2. CASE agenda[p] = <<>>
    <3>1. /\ pc[p] = "announce"
          /\ pc' = [pc EXCEPT ![p] = IF p \in Txns THEN "get" ELSE "done"]
          /\ verdict' = [verdict EXCEPT ![p] = "committed"]
      BY <1>9, <2>2 DEF Announced, Goto
    <3> QED BY <1>2, <1>9, <3>1 DEF TypeOK, CallsOK, Announced, Undoing
  <2> QED BY <2>1, <2>2
<1>10. CASE Crash(p)
  BY <1>2, <1>10 DEF TypeOK, CallsOK, Crash, Goto, Undoing, Record, Incidents
<1>11. CASE Expire
  BY <1>2, <1>11 DEF TypeOK, CallsOK, Expire, Undoing, Record, Incidents
<1> QED BY <1>3, <1>4, <1>5, <1>6, <1>7, <1>8, <1>9, <1>10, <1>11

\* What an exception changes.
LEMMA FailType ==
  ASSUME TypeOK, NEW p \in Writers, Fail(p)
  PROVE  /\ pc' \in [Writers -> {"idle", "wait", "next", "check", "write", "index",
                         "undo", "announce", "get", "del", "done", "crashed"}]
         /\ call' \in [Writers -> Call]
         /\ verdict' \in [Writers -> {"none", "committed", "aborted", "refused", "unannounced"}]
         /\ CallsOK'
<1>1. NoCall \in Call
  BY DEF NoCall, Call, Kinds
<1>2. pc' = [pc EXCEPT ![p] = IF p \in Txns THEN "undo" ELSE "done"]
  BY DEF Fail, Goto
<1> QED BY <1>1, <1>2 DEF TypeOK, CallsOK, Fail, Undoing

LEMMA FailIncidentsType ==
  ASSUME NEW p
  PROVE  FailIncidents(p) \subseteq Incidents
BY DEF FailIncidents, Incidents

\* The next row of a call.
LEMMA NextItem ==
  ASSUME TypeOK, NEW p \in Writers, pc[p] \in {"check", "write"}
  PROVE  /\ call[p] \in Call
         /\ First(call[p].todo) \in call[p].todo
         /\ First(call[p].todo) \in Item
<1>1. call[p] \in Call /\ call[p].todo # {}
  BY DEF TypeOK, CallsOK
<1>2. \A i \in call[p].todo : i \in Item /\ i.msg \in Nat
  BY <1>1 DEF Call, Item
<1> QED BY <1>1, <1>2, FirstOfItems

LEMMA CheckType ==
  ASSUME TypeOK, NEW p \in Writers, Check(p)
  PROVE  TypeOK'
<1> DEFINE item == First(call[p].todo)
           clash == Conflicts(item.row, IF call[p].kind = "insert" THEN 0 ELSE item.msg)
<1>1. StoreTypeOK'
  BY DEF TypeOK, StoreTypeOK, Check, store
<1>2. CASE clash
  <2>1. Fail(p) /\ incidents' = incidents \cup FailIncidents(p)
    BY <1>2 DEF Check, Record
  <2>2. incidents' \subseteq Incidents
    BY <2>1, FailIncidentsType DEF TypeOK
  <2> QED BY <1>1, <2>1, <2>2, FailType DEF TypeOK, Check
<1>3. CASE ~clash
  <2>1. /\ pc' = [pc EXCEPT ![p] = "write"]
        /\ pc[p] = "check"
        /\ UNCHANGED <<call, verdict>>
        /\ incidents' \subseteq incidents \cup {"toctou"}
    BY <1>3 DEF Check, Record, Goto
  <2>2. incidents' \subseteq Incidents
    BY <2>1 DEF TypeOK, Incidents
  <2>3. CallsOK'
    BY <2>1 DEF TypeOK, CallsOK, Undoing
  <2> QED BY <1>1, <2>1, <2>2, <2>3 DEF TypeOK, Check
<1> QED BY <1>2, <1>3

\* One call of the storage provider.
LEMMA StoredType ==
  ASSUME StoreTypeOK, NEW item \in Item, NEW kind \in Kinds, Stored(kind, item)
  PROVE  /\ StoreTypeOK'
         /\ kind = "insert" => nextMsg \in Msgs
         /\ kind # "insert" => item.msg \in Msgs
<1>1. item.row \in Row /\ nextMsg \in Nat
  BY RowStoreAssumption DEF Item, StoreTypeOK
<1>2. CASE kind = "insert"
  BY <1>1, <1>2, RowStoreAssumption DEF Stored, SendMessage, StoreTypeOK, Msgs
<1>3. CASE kind = "replace"
  BY <1>1, <1>3 DEF Stored, EditMessage, StoreTypeOK, Live
<1>4. CASE kind = "delete"
  BY <1>4 DEF Stored, DeleteMessage, StoreTypeOK
<1> QED BY <1>2, <1>3, <1>4 DEF Kinds

LEMMA WriteType ==
  ASSUME TypeOK, NEW p \in Writers, Write(p)
  PROVE  TypeOK'
<1> DEFINE c == call[p]
           item == First(c.todo)
           m == IF c.kind = "insert" THEN nextMsg ELSE item.msg
           written == [item EXCEPT !.msg = m]
<1>1. pc[p] = "write" /\ c \in Call /\ item \in c.todo /\ item \in Item
  BY NextItem DEF Write
<1>2. CASE MissingMessage(c.kind, item.msg)
  <2>1. Fail(p) /\ incidents' = incidents \cup FailIncidents(p) /\ UNCHANGED store
    BY <1>2 DEF Write, Record
  <2>2. incidents' \subseteq Incidents
    BY <2>1, FailIncidentsType DEF TypeOK
  <2>3. StoreTypeOK'
    BY <2>1 DEF TypeOK, StoreTypeOK, store
  <2> QED BY <2>1, <2>2, <2>3, FailType DEF TypeOK, Write
<1>3. CASE ~MissingMessage(c.kind, item.msg)
  <2>1. /\ Stored(c.kind, item)
        /\ call' = [call EXCEPT ![p].todo = @ \ {item}, ![p].cur = {written}]
        /\ pc' = [pc EXCEPT ![p] = "index"]
        /\ incidents' = incidents \cup WriteIncidents(p, m)
        /\ UNCHANGED verdict
    BY <1>3 DEF Write, Record, Goto
  <2>2. StoreTypeOK' /\ m \in Msgs
    BY <1>1, <2>1, StoredType DEF TypeOK, Call
  <2>3. written \in Item /\ written.msg \in Msgs
    BY <1>1, <2>2 DEF Item, Msgs
  <2>4. call'[p] = [c EXCEPT !.todo = @ \ {item}, !.cur = {written}]
    BY <2>1 DEF TypeOK
  <2>5. call'[p] \in Call /\ call'[p].cur = {written} /\ call'[p].old = c.old /\ call'[p].kind = c.kind
    <3>1. c.todo \ {item} \in SUBSET Item /\ {written} \in SUBSET Item
      BY <1>1, <2>3 DEF Call
    <3> HIDE DEF written, item
    <3> QED BY <1>1, <2>4, <3>1 DEF Call
  <2>6. call' \in [Writers -> Call] /\ \A q \in Writers \ {p} : call'[q] = call[q]
    BY <2>1, <2>4, <2>5 DEF TypeOK
  <2>7. CallsOK'
    <3>1. pc'[p] = "index" /\ \A q \in Writers \ {p} : pc'[q] = pc[q]
      BY <2>1 DEF TypeOK
    <3>2. \A q \in Writers : Undoing(q)' = Undoing(q)
      BY <2>1 DEF Undoing
    <3> HIDE DEF written, c
    <3>3. call'[p].cur = {written} /\ call'[p].old = call[p].old /\ call'[p].kind = call[p].kind
      BY <2>5 DEF c
    <3> QED BY <1>1, <2>3, <2>6, <3>1, <3>2, <3>3 DEF TypeOK, CallsOK
  <2>8. incidents' \subseteq Incidents
    BY <2>1 DEF TypeOK, WriteIncidents, Incidents
  <2> QED BY <2>1, <2>2, <2>6, <2>7, <2>8 DEF TypeOK, Write
<1> QED BY <1>2, <1>3

\* What an engine call that returns changes.
LEMMA ReturnType ==
  ASSUME TypeOK, NEW p \in Writers, NEW c \in Call, Return(p, c),
         c.done # {},
         p \in Txns /\ ~Undoing(p) => c.kind = "insert" \/ c.old # {},
         Undoing(p) => p \in Txns,
         verdict' = verdict
  PROVE  /\ pc' \in [Writers -> {"idle", "wait", "next", "check", "write", "index",
                         "undo", "announce", "get", "del", "done", "crashed"}]
         /\ call' \in [Writers -> Call]
         /\ undo' \in [Writers -> Seq(Undo)]
         /\ changes' \in [Writers -> Seq((SUBSET Change) \ {{}})]
         /\ CallsOK'
<1>1. NoCall \in Call
  BY DEF NoCall, Call, Kinds
<1>2. call' = [call EXCEPT ![p] = NoCall]
  BY DEF Return
<1>3. CASE Undoing(p)
  <2>1. pc' = [pc EXCEPT ![p] = "undo"] /\ UNCHANGED <<undo, changes>>
    BY <1>3 DEF Return, Goto
  <2> QED BY <1>1, <1>2, <1>3, <2>1 DEF TypeOK, CallsOK, Undoing
<1>4. CASE ~Undoing(p)
  <2>1. ChangesOf(c) \in (SUBSET Change) \ {{}}
    BY ChangesType
  <2>2. changes' \in [Writers -> Seq((SUBSET Change) \ {{}})]
    <3>1. Append(changes[p], ChangesOf(c)) \in Seq((SUBSET Change) \ {{}})
      BY <2>1, AppendProperties DEF TypeOK
    <3>2. changes' = [changes EXCEPT ![p] = Append(changes[p], ChangesOf(c))]
      BY <1>4 DEF Return
    <3> QED BY <3>1, <3>2 DEF TypeOK
  <2>3. undo' \in [Writers -> Seq(Undo)]
    <3>1. CASE p \in Txns
      <4>1. Compensation(c) \in Undo
        BY <1>4, <3>1 DEF Compensation, Undo, Call, Kinds
      <4>2. <<Compensation(c)>> \o undo[p] \in Seq(Undo)
        BY <4>1, ConcatProperties DEF TypeOK
      <4>3. undo' = [undo EXCEPT ![p] = <<Compensation(c)>> \o undo[p]]
        BY <1>4, <3>1 DEF Return
      <4> QED BY <4>2, <4>3 DEF TypeOK
    <3>2. CASE p \notin Txns
      BY <1>4, <3>2 DEF Return, TypeOK
    <3> QED BY <3>1, <3>2
  <2>4. pc' = [pc EXCEPT ![p] = IF p \in Txns THEN "next" ELSE "announce"]
    BY <1>4 DEF Return, Goto
  <2> QED BY <1>1, <1>2, <2>2, <2>3, <2>4 DEF TypeOK, CallsOK, Undoing
<1> QED BY <1>3, <1>4

LEMMA IndexType ==
  ASSUME TypeOK, NEW p \in Writers, Index(p)
  PROVE  TypeOK'
<1> DEFINE c == call[p]
           next == [c EXCEPT !.cur = {}, !.done = @ \cup c.cur]
<1>1. c \in Call /\ pc[p] = "index"
  BY DEF TypeOK, Index
<1>2. PICK i \in Item : i.msg \in Msgs /\ c.cur = {i}
  BY <1>1 DEF CallsOK, TypeOK
<1>3. StoreTypeOK'
  <2>1. i.row \in Row
    BY DEF Item
  <2>2. index' \in [Msgs -> Keys \cup {NoKey}]
    BY <1>2, <2>1 DEF Index, TypeOK, StoreTypeOK, UpdateIndex, RemoveIndex, IndexEntry, Row
  <2> QED BY <2>2 DEF Index, TypeOK, StoreTypeOK
<1>4. /\ next \in Call /\ next.done # {} /\ next.kind = c.kind /\ next.old = c.old
      /\ next.todo = c.todo
  <2>1. c.done \cup {i} \in SUBSET Item
    BY <1>1 DEF Call
  <2> QED BY <1>1, <1>2, <2>1 DEF Call
<1> HIDE DEF next
<1>5. CASE c.todo = {}
  <2>1. Return(p, next) /\ UNCHANGED verdict
    BY <1>5 DEF Index, next
  <2>2. p \in Txns /\ ~Undoing(p) => next.kind = "insert" \/ next.old # {}
    BY <1>1, <1>4 DEF TypeOK, CallsOK
  <2>3. Undoing(p) => p \in Txns
    BY <1>1 DEF TypeOK, CallsOK
  <2> QED BY <1>3, <1>4, <2>1, <2>2, <2>3, ReturnType DEF Index, TypeOK, history
<1>6. CASE c.todo # {}
  <2>1. /\ call' = [call EXCEPT ![p] = next]
        /\ pc' = [pc EXCEPT ![p] = IF c.kind = "delete" THEN "write" ELSE "check"]
        /\ UNCHANGED <<undo, changes, verdict>>
    BY <1>6 DEF Index, next, Goto
  <2>2. CallsOK'
    BY <1>1, <1>4, <1>6, <2>1 DEF TypeOK, CallsOK, Undoing
  <2> QED BY <1>3, <1>4, <2>1, <2>2 DEF Index, TypeOK, history
<1> QED BY <1>5, <1>6

LEMMA FaultType ==
  ASSUME TypeOK, NEW p \in Writers, StorageFails(p) \/ AnswerLost(p)
  PROVE  TypeOK'
<1>1. /\ Fail(p)
      /\ faults' \in 0..MaxFaults
      /\ incidents' \subseteq incidents \cup FailIncidents(p) \cup {"halfdone"}
      /\ UNCHANGED <<lock, agenda, undo, changes, base, view>>
  BY TransactionsAssumption DEF StorageFails, AnswerLost, Record, TypeOK
<1>2. incidents' \subseteq Incidents
  BY <1>1, FailIncidentsType DEF TypeOK, Incidents
<1>3. StoreTypeOK'
  <2>1. CASE StorageFails(p)
    BY <2>1 DEF StorageFails, store, TypeOK, StoreTypeOK
  <2>2. CASE AnswerLost(p)
    <3>1. First(call[p].todo) \in Item /\ call[p].kind \in Kinds
      BY <2>2, NextItem DEF AnswerLost, Call
    <3> QED BY <2>2, <3>1, StoredType DEF AnswerLost, TypeOK
  <2> QED BY <2>1, <2>2
<1> QED BY <1>1, <1>2, <1>3, FailType DEF TypeOK

LEMMA RollBackType ==
  ASSUME TypeOK, NEW p \in Writers, RollBack(p)
  PROVE  TypeOK'
<1> USE DEF RollBack
<1>1. StoreTypeOK' /\ p \in Txns
  BY DEF TypeOK, StoreTypeOK, store, CallsOK
<1>2. CASE undo[p] = <<>>
  BY <1>1, <1>2 DEF TypeOK, CallsOK, Goto, Undoing, history
<1>3. CASE undo[p] # <<>>
  <2> DEFINE action == Head(undo[p])
             c == [NoCall EXCEPT !.kind = action.kind, !.todo = action.rows]
  <2>1. action \in Undo /\ Tail(undo[p]) \in Seq(Undo)
    BY <1>3, HeadTailProperties DEF TypeOK
  <2>2. c \in Call /\ c.todo # {}
    BY <2>1 DEF Undo, Call, NoCall, Kinds
  <2>3. /\ undo' = [undo EXCEPT ![p] = Tail(undo[p])]
        /\ call' = [call EXCEPT ![p] = c]
        /\ pc' = [pc EXCEPT ![p] = IF action.kind = "delete" THEN "write" ELSE "check"]
        /\ UNCHANGED verdict
        /\ pc[p] = "undo"
    BY <1>3 DEF Goto
  <2> HIDE DEF c, action
  <2>4. CallsOK'
    BY <1>1, <2>2, <2>3 DEF TypeOK, CallsOK, Undoing
  <2> QED BY <1>1, <2>1, <2>2, <2>3, <2>4 DEF TypeOK, history
<1> QED BY <1>2, <1>3

LEMMA AnnounceType ==
  ASSUME TypeOK, NEW p \in Writers, Announce(p)
  PROVE  TypeOK'
<1> DEFINE change == First(Head(changes[p]))
           left == Head(changes[p]) \ {change}
           set == (SUBSET Change) \ {{}}
<1>1. Head(changes[p]) \in set /\ Tail(changes[p]) \in Seq(set)
  BY HeadTailProperties DEF TypeOK, Announce
<1>2. change \in Change
  BY <1>1, FirstOfItems DEF Change
<1>3. view' \subseteq Row
  BY <1>2 DEF Announce, Heard, Change, TypeOK
<1>4. StoreTypeOK'
  BY DEF TypeOK, StoreTypeOK, store, Announce
<1> DEFINE rest == IF left = {} THEN Tail(changes[p]) ELSE <<left>> \o Tail(changes[p])
<1>5. rest \in Seq(set)
  <2>1. left # {} => left \in set
    BY <1>1
  <2> HIDE DEF left, set
  <2>2. left # {} => <<left>> \o Tail(changes[p]) \in Seq(set)
    BY <1>1, <2>1, ConcatProperties
  <2> QED BY <1>1, <2>2
<1>6. \/ changes' = [changes EXCEPT ![p] = rest] /\ UNCHANGED <<pc, verdict, incidents>>
      \/ /\ incidents' = incidents \cup {"unannounced"}
         /\ verdict' = [verdict EXCEPT ![p] = "unannounced"]
         /\ changes' = [changes EXCEPT ![p] = <<>>]
         /\ pc' = [pc EXCEPT ![p] = IF p \in Txns THEN "get" ELSE "done"]
  BY DEF Announce, Record, Goto
<1> HIDE DEF rest
<1>7. changes' \in [Writers -> Seq(set)] /\ incidents' \subseteq Incidents
  <2>1. incidents' \subseteq Incidents
    BY <1>6 DEF TypeOK, Incidents
  <2>2. changes \in [Writers -> Seq(set)]
    BY DEF TypeOK
  <2> HIDE DEF set
  <2>3. changes' \in [Writers -> Seq(set)]
    BY <1>5, <1>6, <2>2, EmptySeq
  <2> QED BY <2>1, <2>3
<1>8. CallsOK'
  BY <1>6 DEF TypeOK, CallsOK, Undoing, Announce
<1> QED BY <1>3, <1>4, <1>6, <1>7, <1>8 DEF TypeOK, Announce

\* Entering the engine with the rows of the operation at the head of the list.
LEMMA EnterType ==
  ASSUME TypeOK, NEW p \in Writers, pc[p] = "next", agenda[p] # <<>>,
         NEW kind \in Kinds, NEW todo \in SUBSET Item, NEW old \in SUBSET Item,
         p \in Txns /\ todo # {} => kind = "insert" \/ old # {},
         Enter(p, kind, todo, old), UNCHANGED <<store, lock, history>>
  PROVE  TypeOK'
<1>1. StoreTypeOK' /\ UNCHANGED <<lock, undo, changes, verdict, history>>
  BY DEF TypeOK, StoreTypeOK, store, Enter
<1>2. agenda' \in [Writers -> Seq(Op)]
  <2>1. Rest(agenda[p]) \in Seq(Op)
    BY RestType DEF TypeOK
  <2> QED BY <2>1 DEF TypeOK, Enter
<1>3. CASE todo = {}
  BY <1>1, <1>2, <1>3 DEF Enter, TypeOK, CallsOK, Undoing, history
<1>4. CASE todo # {}
  <2> DEFINE c == [NoCall EXCEPT !.kind = kind, !.todo = todo, !.old = old]
  <2>1. c \in Call /\ c.todo = todo /\ c.kind = kind /\ c.old = old
    BY DEF NoCall, Call, Kinds
  <2> HIDE DEF c
  <2>2. /\ call' = [call EXCEPT ![p] = c]
        /\ pc' = [pc EXCEPT ![p] = IF kind = "delete" THEN "write" ELSE "check"]
    BY <1>4 DEF Enter, Goto, c
  <2>3. CallsOK'
    BY <1>1, <1>4, <2>1, <2>2 DEF TypeOK, CallsOK, Undoing
  <2> QED BY <1>1, <1>2, <2>1, <2>2, <2>3 DEF TypeOK, history
<1> QED BY <1>3, <1>4

LEMMA RejectType ==
  ASSUME TypeOK, NEW p \in Writers, Reject(p), UNCHANGED <<store, lock, history>>
  PROVE  TypeOK'
<1>1. StoreTypeOK'
  BY DEF TypeOK, StoreTypeOK, store
<1> QED BY <1>1, FailType DEF Reject, TypeOK, history

\* Rows of live messages are items.
LEMMA LiveItems ==
  ASSUME StoreTypeOK, NEW msgs \in SUBSET Live
  PROVE  {ItemOf(m) : m \in msgs} \in SUBSET Item
BY DEF StoreTypeOK, Live, ItemOf, Item, Msgs

LEMMA OperateType ==
  ASSUME TypeOK, NEW p \in Writers, Operate(p)
  PROVE  TypeOK'
<1> DEFINE op == Head(agenda[p])
<1>1. pc[p] = "next" /\ agenda[p] # <<>> /\ UNCHANGED <<store, lock, history>>
  BY DEF Operate
<1>2. op \in Op
  BY <1>1, HeadTailProperties DEF TypeOK
<1>3. \A k : SelectKey(k) \subseteq Live
  BY DEF SelectKey
<1>4. \A msgs : Visible(p, msgs) \subseteq msgs
  BY DEF Visible
<1> HIDE DEF op
<1>5. CASE Reject(p)
  BY <1>1, <1>5, RejectType
<1>6. CASE DoInsert(p, op) /\ ~Reject(p)
  <2>1. op.rows \in Seq(Row) /\ op.rows # <<>>
    BY <1>2, <1>6 DEF DoInsert, Op
  <2>2. {[msg |-> 0, row |-> Head(op.rows)]} \in SUBSET Item
    BY <2>1, HeadTailProperties, RowStoreAssumption DEF Item
  <2>3. Enter(p, "insert", {[msg |-> 0, row |-> Head(op.rows)]}, {})
    BY <1>6 DEF DoInsert
  <2> QED BY <1>1, <2>2, <2>3, EnterType DEF Kinds
<1>7. CASE DoUpsert(p, op) /\ ~Reject(p)
  <2> DEFINE row == Head(op.rows)
             existing == SelectKey(row.key)
             first == {m \in existing : \A n \in existing : m <= n}
             allowed == IF p \in Txns THEN Visible(p, first) ELSE first
             old == {ItemOf(m) : m \in allowed}
             new == {[i EXCEPT !.row = row] : i \in old}
  <2>1. op.rows \in Seq(Row) /\ op.rows # <<>>
    BY <1>2, <1>7 DEF DoUpsert, Op
  <2>2. row \in Row
    BY <2>1, HeadTailProperties
  <2>3. \/ Enter(p, "insert", {[msg |-> 0, row |-> row]}, {})
        \/ Enter(p, "replace", new, IF p \in Txns THEN old ELSE {})
    BY <1>7 DEF DoUpsert
  <2>4. {[msg |-> 0, row |-> row]} \in SUBSET Item
    BY <2>2, RowStoreAssumption DEF Item
  <2>5. allowed \subseteq Live
    BY <1>3, <1>4
  <2> HIDE DEF allowed, row
  <2>6. old \in SUBSET Item
    BY <2>5, LiveItems DEF TypeOK
  <2> HIDE DEF old
  <2>7. new \in SUBSET Item /\ (new # {} => old # {})
    BY <2>2, <2>6 DEF Item
  <2> HIDE DEF new
  <2> QED BY <1>1, <2>3, <2>4, <2>6, <2>7, EnterType DEF Kinds
<1>8. CASE DoUpdate(p, op) /\ ~Reject(p)
  <2> DEFINE targets == Visible(p, Found(op))
             old == {ItemOf(m) : m \in targets}
             new == {[i EXCEPT !.row = Patched(@, op.patch)] : i \in old}
  <2>1. Enter(p, "replace", new, old)
    BY <1>8 DEF DoUpdate
  <2>2. targets \subseteq Live
    BY <1>3, <1>4 DEF Found
  <2>3. old \in SUBSET Item
    BY <2>2, LiveItems DEF TypeOK
  <2>4. \A row \in Row : Patched(row, op.patch) \in Row
    BY <1>2 DEF Op, Patch, Patched, Row
  <2> HIDE DEF old
  <2>5. new \in SUBSET Item /\ (new # {} => old # {})
    BY <2>3, <2>4 DEF Item
  <2> HIDE DEF new
  <2> QED BY <1>1, <2>1, <2>3, <2>5, EnterType DEF Kinds
<1>9. CASE DoDelete(p, op) /\ ~Reject(p)
  <2> DEFINE targets == Visible(p, Found(op))
             old == {ItemOf(m) : m \in targets}
  <2>1. Enter(p, "delete", old, old)
    BY <1>9 DEF DoDelete
  <2>2. targets \subseteq Live
    BY <1>3, <1>4 DEF Found
  <2>3. old \in SUBSET Item
    BY <2>2, LiveItems DEF TypeOK
  <2> HIDE DEF old
  <2> QED BY <1>1, <2>1, <2>3, EnterType DEF Kinds
<1> QED BY <1>5, <1>6, <1>7, <1>8, <1>9 DEF Operate, op

\* The model's variables always hold values the program can hold; in particular a
\* rollback action always has rows to act on, and only a transaction rolls back.
THEOREM TypeCorrect == Spec => []TypeOK
<1>1. TypeOK /\ [Next]_vars => TypeOK'
  <2> SUFFICES ASSUME TypeOK, [Next]_vars PROVE TypeOK'
    OBVIOUS
  <2>1. CASE UNCHANGED vars
    BY <2>1 DEF vars, store, local, history, TypeOK, StoreTypeOK, CallsOK, Undoing
  <2>2. CASE Expire
    <3>1. CASE Writers = {}
      BY <2>2, <3>1 DEF Expire, TypeOK, Writers
    <3>2. CASE Writers # {}
      BY <2>2, <3>2, LockType
    <3> QED BY <3>1, <3>2
  <2>3. ASSUME NEW p \in Writers,
               Start(p) \/ Step(p) \/ StorageFails(p) \/ AnswerLost(p) \/ Crash(p)
        PROVE  TypeOK'
    BY <2>3, LockType, OperateType, CheckType, WriteType, IndexType, RollBackType,
       AnnounceType, FaultType DEF Step
  <2> QED BY <2>1, <2>2, <2>3 DEF Next
<1> QED BY <1>1, InitType, PTL DEF Spec

-----------------------------------------------------------------------------
(* The lock.                                                                *)

\* A step of one writer moves no other writer and forgets no incident.
LEMMA StepFrame ==
  ASSUME TypeOK, NEW p \in Writers,
         Start(p) \/ Step(p) \/ StorageFails(p) \/ AnswerLost(p) \/ Crash(p)
  PROVE  /\ \A q \in Writers \ {p} : pc'[q] = pc[q] /\ call'[q] = call[q]
         /\ incidents \subseteq incidents'
<1> USE DEF TypeOK, Goto, Record, local, history
<1>1. ASSUME Fail(p)
      PROVE  \A q \in Writers \ {p} : pc'[q] = pc[q] /\ call'[q] = call[q]
  BY <1>1 DEF Fail
<1>2. CASE Start(p) \/ Acquire(p) \/ GiveUp(p) \/ ReadLock(p) \/ DeleteLock(p)
             \/ LastOperation(p) \/ Announced(p) \/ Crash(p)
  BY <1>2 DEF Start, Acquire, GiveUp, ReadLock, DeleteLock, LastOperation, Announced, Crash
<1>3. CASE Operate(p)
  <2>1. ASSUME NEW kind, NEW todo, NEW old, Enter(p, kind, todo, old)
        PROVE  \A q \in Writers \ {p} : pc'[q] = pc[q] /\ call'[q] = call[q]
    BY <2>1 DEF Enter
  <2> QED BY <1>1, <1>3, <2>1 DEF Operate, Reject, DoInsert, DoUpsert, DoUpdate, DoDelete
<1>4. CASE Check(p)
  BY <1>1, <1>4 DEF Check
<1>5. CASE Write(p)
  BY <1>1, <1>5 DEF Write
<1>6. CASE Index(p)
  BY <1>6 DEF Index, Return
<1>7. CASE RollBack(p)
  BY <1>7 DEF RollBack
<1>8. CASE Announce(p)
  BY <1>8 DEF Announce
<1>9. CASE StorageFails(p) \/ AnswerLost(p)
  BY <1>1, <1>9 DEF StorageFails, AnswerLost
<1> QED BY <1>2, <1>3, <1>4, <1>5, <1>6, <1>7, <1>8, <1>9 DEF Step

\* Until a TTL passes under a live holder, a transaction at work is the one whose
\* token the lock key holds.
LockHeld ==
  "expired" \notin incidents => \A p \in Txns : Working(p) => lock = p

LEMMA LockInvariant == Spec => []LockHeld
<1>1. Init => LockHeld
  BY DEF Init, LockHeld, Working, Writers
<1>2. TypeOK /\ LockHeld /\ [Next]_vars => LockHeld'
  <2> SUFFICES ASSUME TypeOK, LockHeld, [Next]_vars PROVE LockHeld'
    OBVIOUS
  <2> USE DEF LockHeld, Working
  <2>1. CASE UNCHANGED vars
    BY <2>1 DEF vars, history
  <2>2. CASE Expire
    BY <2>2 DEF Expire, Record, Writers, TypeOK
  <2>3. ASSUME NEW p \in Writers, Start(p) \/ Acquire(p) \/ GiveUp(p) \/ ReadLock(p)
        PROVE  LockHeld'
    <3>1. /\ \A q \in Writers \ {p} : pc'[q] = pc[q]
          /\ incidents \subseteq incidents'
      BY <2>3, StepFrame DEF Step
    <3>2. CASE Acquire(p)
      <4>1. lock = Free /\ lock' = p
        BY <3>2 DEF Acquire
      <4> QED BY <3>1, <4>1, TransactionsAssumption DEF Writers
    <3>3. CASE ~Acquire(p)
      <4>1. UNCHANGED lock
        BY <2>3, <3>3 DEF Start, GiveUp, ReadLock
      <4>2. p \in Txns => Working(p) \/ pc'[p] \in {"wait", "done"}
        BY <2>3, <3>3 DEF Start, GiveUp, ReadLock, Goto, TypeOK
      <4> QED BY <3>1, <4>1, <4>2 DEF Writers
    <3> QED BY <3>2, <3>3
  <2>4. ASSUME NEW p \in Writers, DeleteLock(p)
        PROVE  LockHeld'
    <3>1. p \in Txns /\ Working(p) /\ pc' = [pc EXCEPT ![p] = "done"] /\ UNCHANGED incidents
      BY <2>4 DEF DeleteLock, Goto, history, TypeOK, CallsOK
    <3>2. pc'[p] = "done" /\ \A q \in Txns \ {p} : pc'[q] = pc[q]
      BY <3>1 DEF TypeOK, Writers
    <3>3. ASSUME NEW q \in Txns \ {p}, "expired" \notin incidents
          PROVE  ~Working(q)
      BY <3>1, <3>3
    <3> QED BY <3>1, <3>2, <3>3
  <2>5. ASSUME NEW p \in Writers,
               \/ Operate(p) \/ LastOperation(p) \/ Check(p) \/ Write(p) \/ Index(p)
               \/ RollBack(p) \/ Announce(p) \/ Announced(p)
               \/ StorageFails(p) \/ AnswerLost(p) \/ Crash(p)
        PROVE  LockHeld'
    <3>1. /\ \A q \in Writers \ {p} : pc'[q] = pc[q]
          /\ incidents \subseteq incidents'
      BY <2>5, StepFrame DEF Step
    <3>2. UNCHANGED lock
      BY <2>5 DEF Operate, LastOperation, Check, Write, Index, RollBack, Announce,
         Announced, StorageFails, AnswerLost, Crash
    <3>3. Working(p) \/ pc'[p] = "crashed"
      BY <2>5 DEF Operate, LastOperation, Check, Write, Index, RollBack, Announce,
         Announced, StorageFails, AnswerLost, Crash, Goto, TypeOK
    <3> QED BY <3>1, <3>2, <3>3 DEF Writers
  <2> QED BY <2>1, <2>2, <2>3, <2>4, <2>5 DEF Next, Step
<1> QED BY <1>1, <1>2, TypeCorrect, PTL DEF Spec

\* Until the lock's TTL passes under its holder, no two transactions of a project
\* are at work together (withProjectLock), whatever the number of writers, their
\* programs, the table, the faults and the crashes.
THEOREM Exclusive == Spec => []MutualExclusion
<1>1. LockHeld => MutualExclusion
  BY DEF LockHeld, MutualExclusion
<1> QED BY <1>1, LockInvariant, PTL

-----------------------------------------------------------------------------
(* The index.                                                               *)

\* The message a writer is about to index holds what it wrote there.
CurWritten ==
  \A p \in Writers : pc[p] = "index" =>
    \A i \in call[p].cur :
      channel[i.msg] = IF call[p].kind = "delete" THEN NoRow ELSE i.row

\* No two writers are about to index one message.
CurApart ==
  \A p, q \in Writers : p # q /\ pc[p] = "index" /\ pc[q] = "index" =>
    \A i \in call[p].cur, j \in call[q].cur : i.msg # j.msg

FiledRight ==
  \A m \in Msgs : Settled(m) =>
    index[m] = IF m \in Live THEN IndexEntry(channel[m]) ELSE NoKey

IndexInv == ~Spoiled({"crossed", "halfdone"}) => CurWritten /\ CurApart /\ FiledRight

\* Steps that write nothing and neither reach nor leave the index call.
LEMMA QuietIndex ==
  ASSUME TypeOK, IndexInv, NEW p \in Writers,
         UNCHANGED store, incidents \subseteq incidents',
         pc[p] # "index", pc'[p] # "index",
         \A q \in Writers \ {p} : pc'[q] = pc[q] /\ call'[q] = call[q]
  PROVE  IndexInv'
<1> SUFFICES ASSUME ~Spoiled({"crossed", "halfdone"})'
             PROVE  (CurWritten /\ CurApart /\ FiledRight)'
  BY DEF IndexInv
<1>1. CurWritten /\ CurApart /\ FiledRight
  BY DEF IndexInv, Spoiled
<1>2. CurWritten' /\ CurApart'
  BY <1>1 DEF CurWritten, CurApart, store
<1>3. \A m : Settled(m)' => Settled(m)
  BY DEF Settled
<1>4. FiledRight'
  BY <1>1, <1>3 DEF FiledRight, Live, store
<1> QED BY <1>2, <1>4

\* What a write that goes through does, seen from the index.
LEMMA WriteEffect ==
  ASSUME TypeOK, NEW p \in Writers, Write(p),
         ~MissingMessage(call[p].kind, First(call[p].todo).msg)
  PROVE  \E m \in Msgs, row \in Row :
           /\ m = IF call[p].kind = "insert" THEN nextMsg ELSE First(call[p].todo).msg
           /\ row = First(call[p].todo).row
           /\ channel' = [channel EXCEPT ![m] = IF call[p].kind = "delete" THEN NoRow ELSE row]
           /\ UNCHANGED index
           /\ pc[p] = "write" /\ pc'[p] = "index"
           /\ call'[p].cur = {[msg |-> m, row |-> row]}
           /\ call'[p].kind = call[p].kind
           /\ incidents' = incidents \cup WriteIncidents(p, m)
<1> DEFINE c == call[p]
           item == First(c.todo)
           m == IF c.kind = "insert" THEN nextMsg ELSE item.msg
<1>1. pc[p] = "write" /\ c \in Call /\ item \in Item
  BY NextItem DEF Write
<1>2. /\ Stored(c.kind, item)
      /\ call' = [call EXCEPT ![p].todo = @ \ {item}, ![p].cur = {[item EXCEPT !.msg = m]}]
      /\ pc' = [pc EXCEPT ![p] = "index"]
      /\ incidents' = incidents \cup WriteIncidents(p, m)
  BY DEF Write, Record, Goto
<1>3. m \in Msgs
  BY <1>1, <1>2, StoredType DEF TypeOK, Call
<1>4. item.row \in Row /\ [item EXCEPT !.msg = m] = [msg |-> m, row |-> item.row]
  BY <1>1 DEF Item
<1>5. /\ channel' = [channel EXCEPT ![m] = IF c.kind = "delete" THEN NoRow ELSE item.row]
      /\ UNCHANGED index
  BY <1>1, <1>2 DEF Stored, SendMessage, EditMessage, DeleteMessage, Call, Kinds
<1>6. call'[p].cur = {[item EXCEPT !.msg = m]} /\ call'[p].kind = c.kind
  BY <1>1, <1>2 DEF TypeOK, Call
<1>7. pc'[p] = "index"
  BY <1>2 DEF TypeOK
<1> QED BY <1>1, <1>2, <1>3, <1>4, <1>5, <1>6, <1>7

LEMMA WriteIndex ==
  ASSUME TypeOK, IndexInv, NEW p \in Writers, Write(p),
         ~MissingMessage(call[p].kind, First(call[p].todo).msg)
  PROVE  IndexInv'
<1> SUFFICES ASSUME ~Spoiled({"crossed", "halfdone"})'
             PROVE  (CurWritten /\ CurApart /\ FiledRight)'
  BY DEF IndexInv
<1>1. PICK m \in Msgs, row \in Row :
        /\ channel' = [channel EXCEPT ![m] = IF call[p].kind = "delete" THEN NoRow ELSE row]
        /\ UNCHANGED index
        /\ pc[p] = "write" /\ pc'[p] = "index"
        /\ call'[p].cur = {[msg |-> m, row |-> row]}
        /\ call'[p].kind = call[p].kind
        /\ incidents' = incidents \cup WriteIncidents(p, m)
  BY WriteEffect
<1>2. \A q \in Writers \ {p} : pc'[q] = pc[q] /\ call'[q] = call[q]
  BY StepFrame DEF Step
<1>3. \A q \in Writers \ {p} : pc[q] = "index" => \A i \in call[q].cur : i.msg # m
  BY <1>1 DEF WriteIncidents, Spoiled
<1>4. CurWritten /\ CurApart /\ FiledRight
  BY <1>1 DEF IndexInv, Spoiled
<1>5. \A n \in Msgs : channel'[n] =
        IF n = m THEN (IF call[p].kind = "delete" THEN NoRow ELSE row) ELSE channel[n]
  BY <1>1 DEF TypeOK, StoreTypeOK
<1>6. CurWritten'
  <2> SUFFICES ASSUME NEW q \in Writers, pc'[q] = "index", NEW i \in call'[q].cur
               PROVE  channel'[i.msg] = IF call'[q].kind = "delete" THEN NoRow ELSE i.row
    BY DEF CurWritten
  <2>1. CASE q = p
    BY <1>1, <1>5, <2>1
  <2>2. CASE q # p
    <3>1. pc[q] = "index" /\ i \in call[q].cur /\ i.msg # m /\ call'[q] = call[q]
      BY <1>2, <1>3, <2>2
    <3>2. i.msg \in Msgs
      BY <3>1 DEF TypeOK, CallsOK
    <3> QED BY <1>4, <1>5, <3>1, <3>2 DEF CurWritten
  <2> QED BY <2>1, <2>2
<1>7. CurApart'
  BY <1>1, <1>2, <1>3, <1>4 DEF CurApart
<1>8. FiledRight'
  <2> SUFFICES ASSUME NEW n \in Msgs, Settled(n)'
               PROVE  index'[n] = IF n \in Live' THEN IndexEntry(channel'[n]) ELSE NoKey
    BY DEF FiledRight
  <2>1. n # m
    <3>1. \A i \in call'[p].cur : i.msg # n
      BY <1>1 DEF Settled
    <3>2. [msg |-> m, row |-> row] \in call'[p].cur
      BY <1>1
    <3> QED BY <3>1, <3>2
  <2>2. Settled(n)
    BY <1>1, <1>2 DEF Settled
  <2>3. channel'[n] = channel[n] /\ index'[n] = index[n] /\ (n \in Live' <=> n \in Live)
    BY <1>1, <1>5, <2>1 DEF Live
  <2> QED BY <1>4, <2>2, <2>3 DEF FiledRight
<1> QED BY <1>6, <1>7, <1>8

LEMMA IndexIndex ==
  ASSUME TypeOK, IndexInv, NEW p \in Writers, Index(p)
  PROVE  IndexInv'
<1> SUFFICES ASSUME ~Spoiled({"crossed", "halfdone"})'
             PROVE  (CurWritten /\ CurApart /\ FiledRight)'
  BY DEF IndexInv
<1>1. pc[p] = "index" /\ UNCHANGED <<channel, incidents>>
  BY DEF Index, history
<1>2. CurWritten /\ CurApart /\ FiledRight
  BY <1>1 DEF IndexInv, Spoiled
<1>3. PICK i \in Item : i.msg \in Msgs /\ call[p].cur = {i}
  BY <1>1 DEF CallsOK, TypeOK
<1>4. pc'[p] # "index"
  BY DEF Index, Return, Goto, TypeOK
<1>5. \A q \in Writers \ {p} : pc'[q] = pc[q] /\ call'[q] = call[q]
  BY StepFrame DEF Step
<1>6. index' = [index EXCEPT ![i.msg] =
                  IF call[p].kind = "delete" THEN NoKey ELSE IndexEntry(i.row)]
  BY <1>3 DEF Index, UpdateIndex, RemoveIndex
<1>7. CurWritten' /\ CurApart'
  BY <1>1, <1>2, <1>4, <1>5 DEF CurWritten, CurApart
<1>8. FiledRight'
  <2> SUFFICES ASSUME NEW n \in Msgs, Settled(n)'
               PROVE  index'[n] = IF n \in Live THEN IndexEntry(channel[n]) ELSE NoKey
    BY <1>1 DEF FiledRight, Live
  <2>1. CASE n = i.msg
    <3>1. channel[n] = IF call[p].kind = "delete" THEN NoRow ELSE i.row
      BY <1>1, <1>2, <1>3, <2>1 DEF CurWritten
    <3>2. i.row # NoRow
      BY RowStoreAssumption DEF Item
    <3> QED BY <1>6, <2>1, <3>1, <3>2 DEF Live, TypeOK, StoreTypeOK
  <2>2. CASE n # i.msg
    <3>1. Settled(n)
      BY <1>1, <1>3, <1>5, <2>2 DEF Settled
    <3> QED BY <1>2, <1>6, <2>2, <3>1 DEF FiledRight, TypeOK, StoreTypeOK
  <2> QED BY <2>1, <2>2
<1> QED BY <1>7, <1>8

\* The steps that touch neither the table nor the place of an index call.
Quiet(p) ==
  \/ Start(p) \/ Acquire(p) \/ GiveUp(p) \/ ReadLock(p) \/ DeleteLock(p)
  \/ Operate(p) \/ LastOperation(p) \/ Check(p)
  \/ Write(p) /\ MissingMessage(call[p].kind, First(call[p].todo).msg)
  \/ RollBack(p) \/ Announce(p) \/ Announced(p) \/ StorageFails(p)
  \/ Crash(p) /\ pc[p] # "index"

LEMMA QuietFrame ==
  ASSUME TypeOK, NEW p \in Writers, Quiet(p)
  PROVE  /\ UNCHANGED store
         /\ pc[p] # "index" /\ pc'[p] # "index"
<1>1. pc[p] # "index" /\ UNCHANGED store
  BY DEF Quiet, Start, Acquire, GiveUp, ReadLock, DeleteLock, Operate, LastOperation, Check,
     Write, RollBack, Announce, Announced, StorageFails, Crash
<1>2. CASE Operate(p)
  <2>1. ASSUME NEW kind, NEW todo, NEW old, Enter(p, kind, todo, old)
        PROVE  pc'[p] # "index"
    BY <1>1, <2>1 DEF Enter, Goto, TypeOK
  <2>2. Fail(p) => pc'[p] # "index"
    BY DEF Fail, Goto, TypeOK
  <2> QED BY <1>2, <2>1, <2>2 DEF Operate, Reject, DoInsert, DoUpsert, DoUpdate, DoDelete
<1>3. CASE ~Operate(p)
  BY <1>1, <1>3 DEF Quiet, Start, Acquire, GiveUp, ReadLock, DeleteLock, LastOperation, Check,
     Write, RollBack, Announce, Announced, StorageFails, Crash, Fail, Goto, TypeOK
<1> QED BY <1>1, <1>2, <1>3

LEMMA InitIndex == Init => IndexInv
<1> SUFFICES ASSUME Init PROVE CurWritten /\ CurApart /\ FiledRight
  BY DEF IndexInv
<1>1. CurWritten /\ CurApart
  BY DEF Init, CurWritten, CurApart
<1>2. PICK rows \in Seeds : StoreInit(rows)
  BY DEF Init
<1>3. rows \in Seq(Row) /\ Len(rows) \in 0..MaxMsg
  BY RowStoreAssumption, TransactionsAssumption, LenProperties
<1>4. \A m \in Msgs : m <= Len(rows) => rows[m] # NoRow
  BY <1>3, ElementOfSeq, RowStoreAssumption DEF Msgs
<1>5. FiledRight
  BY <1>2, <1>4 DEF StoreInit, FiledRight, Live
<1> QED BY <1>1, <1>5

LEMMA StepIndex ==
  ASSUME TypeOK, IndexInv, NEW p \in Writers,
         Start(p) \/ Step(p) \/ StorageFails(p) \/ AnswerLost(p) \/ Crash(p)
  PROVE  IndexInv'
<1>1. CASE Quiet(p)
  BY <1>1, QuietFrame, StepFrame, QuietIndex
<1>2. CASE Write(p) /\ ~Quiet(p)
  BY <1>2, WriteIndex DEF Quiet
<1>3. CASE Index(p)
  BY <1>3, IndexIndex
<1>4. CASE AnswerLost(p) \/ (Crash(p) /\ ~Quiet(p))
  BY <1>4 DEF Quiet, AnswerLost, Crash, Record, IndexInv, Spoiled
<1> QED BY <1>1, <1>2, <1>3, <1>4 DEF Quiet, Step

LEMMA IndexInvariant == Spec => []IndexInv
<1>1. TypeOK /\ IndexInv /\ [Next]_vars => IndexInv'
  <2> SUFFICES ASSUME TypeOK, IndexInv, [Next]_vars PROVE IndexInv'
    OBVIOUS
  <2>1. CASE UNCHANGED vars
    BY <2>1 DEF vars, store, local, history, IndexInv, Spoiled, CurWritten, CurApart,
       FiledRight, Settled, Live
  <2>2. CASE Expire
    <3>1. UNCHANGED <<store, pc, call>> /\ incidents \subseteq incidents'
      BY <2>2 DEF Expire, Record, local
    <3> QED BY <3>1 DEF store, IndexInv, Spoiled, CurWritten, CurApart, FiledRight,
            Settled, Live
  <2> QED BY <2>1, <2>2, StepIndex DEF Next
<1> QED BY <1>1, InitIndex, TypeCorrect, PTL DEF Spec

\* The SQLite index agrees with the table at every message no one is at work on, for any
\* number of transactions and REST requests, as long as no writer died or failed between
\* a write and its index call and no two writers crossed on one message.
THEOREM IndexFollowsTable == Spec => []IndexInStep
<1>1. IndexInv => IndexInStep
  BY DEF IndexInv, IndexInStep, FiledRight
<1> QED BY <1>1, IndexInvariant, PTL

-----------------------------------------------------------------------------
(* Unique keys.                                                             *)

DistinctLive ==
  \A m, n \in Live : channel[m].key = channel[n].key => m = n \/ channel[m].key = NoKey

Current(p) == IF call[p].kind = "insert" THEN 0 ELSE First(call[p].todo).msg

\* What a writer has checked stays true until it writes.
KeyFree ==
  \A p \in Writers : pc[p] = "write" /\ call[p].kind # "delete" =>
    \A m \in Live \ {Current(p)} :
      channel[m].key # First(call[p].todo).row.key \/ channel[m].key = NoKey

\* No two writers are about to store, or to index, one key.
PendingApart ==
  \A p, q \in Writers : p # q => PendingKeys(p) \cap PendingKeys(q) \subseteq {NoKey}

Unraced == ~Spoiled({"toctou"}) /\ (KeyIndexed => ~Spoiled({"crossed", "halfdone"}))
UniqueInv == Unraced => DistinctLive /\ KeyFree /\ PendingApart

\* Steps that leave the table alone and leave their writer with no key pending.
LEMMA QuietKeys ==
  ASSUME TypeOK, UniqueInv, NEW p \in Writers,
         UNCHANGED channel, incidents \subseteq incidents',
         pc'[p] \notin {"write", "index"} \/ call'[p].kind = "delete",
         \A q \in Writers \ {p} : pc'[q] = pc[q] /\ call'[q] = call[q]
  PROVE  UniqueInv'
<1> SUFFICES ASSUME Unraced'
             PROVE  (DistinctLive /\ KeyFree /\ PendingApart)'
  BY DEF UniqueInv
<1>1. DistinctLive /\ KeyFree /\ PendingApart
  BY DEF UniqueInv, Unraced, Spoiled
<1>2. DistinctLive'
  BY <1>1 DEF DistinctLive, Live
<1>3. KeyFree'
  BY <1>1 DEF KeyFree, Current, Live
<1>4. PendingKeys(p)' = {} /\ \A q \in Writers \ {p} : PendingKeys(q)' = PendingKeys(q)
  BY DEF PendingKeys
<1>5. PendingApart'
  BY <1>1, <1>4 DEF PendingApart
<1> QED BY <1>2, <1>3, <1>5

\* A check that passes: in the index or in the table, the key is nowhere else.
LEMMA CheckKeys ==
  ASSUME TypeOK, IndexInv, UniqueInv, NEW p \in Writers, Check(p), pc'[p] = "write"
  PROVE  UniqueInv'
<1> SUFFICES ASSUME Unraced'
             PROVE  (DistinctLive /\ KeyFree /\ PendingApart)'
  BY DEF UniqueInv
<1> DEFINE item == First(call[p].todo)
           key == item.row.key
<1>1. /\ pc[p] = "check"
      /\ ~Conflicts(item.row, Current(p))
      /\ UNCHANGED <<channel, index, call>>
      /\ incidents' = incidents \cup
           (IF \E q \in Writers \ {p} : key \in PendingKeys(q) \ {NoKey}
            THEN {"toctou"} ELSE {})
  BY DEF Check, Fail, Goto, TypeOK, store, Record, Current
<1>2. \A q \in Writers \ {p} : pc'[q] = pc[q] /\ call'[q] = call[q]
  BY StepFrame DEF Step
<1>3. /\ DistinctLive /\ KeyFree /\ PendingApart
      /\ KeyIndexed => CurWritten /\ FiledRight
  BY <1>1 DEF UniqueInv, Unraced, IndexInv, Spoiled
<1>4. \A q \in Writers \ {p} : key \notin PendingKeys(q) \ {NoKey}
  BY <1>1 DEF Unraced, Spoiled
<1>5. ASSUME NEW m \in Live \ {Current(p)}, channel[m].key = key, key # NoKey
      PROVE  FALSE
  <2>1. m \notin SelectKey(key)
    BY <1>1, <1>5 DEF Conflicts
  <2>2. KeyIndexed /\ index[m] # key
    BY <1>5, <2>1 DEF SelectKey
  <2>3. ~Settled(m)
    BY <1>3, <1>5, <2>2 DEF FiledRight, IndexEntry, Live
  <2>4. PICK q \in Writers : pc[q] = "index" /\ \E i \in call[q].cur : i.msg = m
    BY <2>3 DEF Settled
  <2>5. PICK i \in call[q].cur : i.msg = m
    BY <2>4
  <2>6. call[q].kind # "delete" /\ channel[m] = i.row
    BY <1>3, <1>5, <2>2, <2>4, <2>5 DEF CurWritten, Live
  <2>7. key \in PendingKeys(q)
    BY <1>5, <2>4, <2>5, <2>6 DEF PendingKeys
  <2> QED BY <1>1, <1>4, <1>5, <2>4, <2>7
<1>6. DistinctLive'
  BY <1>1, <1>3 DEF DistinctLive, Live
<1>7. KeyFree'
  <2> SUFFICES ASSUME NEW q \in Writers, pc'[q] = "write", call'[q].kind # "delete",
                      NEW m \in Live \ {Current(q)}
               PROVE  channel[m].key # First(call[q].todo).row.key \/ channel[m].key = NoKey
    BY <1>1 DEF KeyFree, Live, Current
  <2> QED BY <1>1, <1>2, <1>3, <1>5 DEF KeyFree
<1>8. PendingApart'
  <2>1. PendingKeys(p)' \subseteq {key}
    BY <1>1 DEF PendingKeys
  <2>2. \A q \in Writers \ {p} : PendingKeys(q)' = PendingKeys(q)
    BY <1>2 DEF PendingKeys
  <2> QED BY <1>3, <1>4, <2>1, <2>2 DEF PendingApart
<1> QED BY <1>6, <1>7, <1>8

\* A message that is written, whether or not its index call will follow.
LEMMA WriteKeys ==
  ASSUME TypeOK, UniqueInv, NEW p \in Writers,
         \/ Write(p) /\ ~MissingMessage(call[p].kind, First(call[p].todo).msg)
         \/ AnswerLost(p)
  PROVE  UniqueInv'
<1> SUFFICES ASSUME Unraced'
             PROVE  (DistinctLive /\ KeyFree /\ PendingApart)'
  BY DEF UniqueInv
<1>1. PICK m \in Msgs, row \in Row :
        /\ m = IF call[p].kind = "insert" THEN nextMsg ELSE First(call[p].todo).msg
        /\ row = First(call[p].todo).row
        /\ channel' = [channel EXCEPT ![m] = IF call[p].kind = "delete" THEN NoRow ELSE row]
        /\ pc[p] = "write" /\ pc'[p] # "write"
        /\ pc'[p] = "index" => /\ call'[p].cur = {[msg |-> m, row |-> row]}
                               /\ call'[p].kind = call[p].kind
        /\ incidents \subseteq incidents'
  <2>1. CASE Write(p) /\ ~MissingMessage(call[p].kind, First(call[p].todo).msg)
    BY <2>1, WriteEffect
  <2>2. CASE AnswerLost(p)
    <3> DEFINE item == First(call[p].todo)
               m == IF call[p].kind = "insert" THEN nextMsg ELSE item.msg
    <3>1. /\ pc[p] = "write" /\ Stored(call[p].kind, item) /\ Fail(p)
          /\ incidents \subseteq incidents'
      BY <2>2 DEF AnswerLost, Record
    <3>2. call[p] \in Call /\ item \in Item /\ call[p].kind \in Kinds
      BY <3>1, NextItem DEF Call
    <3>3. m \in Msgs /\ item.row \in Row
      BY <3>1, <3>2, StoredType DEF TypeOK, Item
    <3>4. channel' = [channel EXCEPT ![m] = IF call[p].kind = "delete" THEN NoRow ELSE item.row]
      BY <3>1, <3>2 DEF Stored, SendMessage, EditMessage, DeleteMessage, Kinds
    <3>5. pc'[p] \in {"undo", "done"}
      BY <3>1 DEF Fail, Goto, TypeOK
    <3> QED
      BY <3>1, <3>3, <3>4, <3>5
  <2> QED
    BY <2>1, <2>2
<1>2. \A q \in Writers \ {p} : pc'[q] = pc[q] /\ call'[q] = call[q]
  BY StepFrame DEF Step
<1>3. DistinctLive /\ KeyFree /\ PendingApart
  BY <1>1 DEF UniqueInv, Unraced, Spoiled
<1>4. \A n \in Msgs : channel'[n] =
        IF n = m THEN (IF call[p].kind = "delete" THEN NoRow ELSE row) ELSE channel[n]
  BY <1>1 DEF TypeOK, StoreTypeOK
<1>5. PendingKeys(p)' \subseteq PendingKeys(p)
  BY <1>1 DEF PendingKeys
<1>6. \A q \in Writers \ {p} : PendingKeys(q)' = PendingKeys(q)
  BY <1>2 DEF PendingKeys
<1>7. PendingApart'
  BY <1>3, <1>5, <1>6 DEF PendingApart
<1>8. CASE call[p].kind = "delete"
  <2>1. Live' \subseteq Live /\ \A n \in Live' : channel'[n] = channel[n]
    BY <1>4, <1>8 DEF Live
  <2>2. DistinctLive'
    BY <1>3, <2>1 DEF DistinctLive
  <2>3. KeyFree'
    <3> SUFFICES ASSUME NEW q \in Writers, pc'[q] = "write", call'[q].kind # "delete",
                        NEW n \in Live' \ {Current(q)'}
                 PROVE  \/ channel'[n].key # First(call'[q].todo).row.key
                        \/ channel'[n].key = NoKey
      BY DEF KeyFree
    <3>1. q # p /\ pc[q] = "write" /\ call'[q] = call[q] /\ Current(q)' = Current(q)
      BY <1>1, <1>2 DEF Current
    <3> QED BY <1>3, <2>1, <3>1 DEF KeyFree
  <2> QED BY <1>7, <2>2, <2>3
<1>9. CASE call[p].kind # "delete"
  <2>1. \A n \in Live' \ {m} : n \in Live /\ channel'[n] = channel[n]
    BY <1>4 DEF Live
  <2>2. channel'[m] = row
    BY <1>4, <1>9
  <2>3. Current(p) = m \/ Current(p) = 0
    BY <1>1 DEF Current
  <2>4. \A n \in Live' \ {m} : channel'[n].key # row.key \/ channel'[n].key = NoKey
    BY <1>1, <1>3, <1>9, <2>1, <2>3 DEF KeyFree, Live, Msgs
  <2>5. DistinctLive'
    BY <1>3, <2>1, <2>2, <2>4 DEF DistinctLive
  <2>6. KeyFree'
    <3> SUFFICES ASSUME NEW q \in Writers, pc'[q] = "write", call'[q].kind # "delete",
                        NEW n \in Live' \ {Current(q)'}
                 PROVE  \/ channel'[n].key # First(call'[q].todo).row.key
                        \/ channel'[n].key = NoKey
      BY DEF KeyFree
    <3>1. q # p /\ pc[q] = "write" /\ call'[q] = call[q] /\ Current(q)' = Current(q)
      BY <1>1, <1>2 DEF Current
    <3>2. CASE n = m
      <4>1. row.key \in PendingKeys(p) /\ First(call[q].todo).row.key \in PendingKeys(q)
        BY <1>1, <1>9, <3>1 DEF PendingKeys
      <4> QED BY <1>3, <2>2, <3>1, <3>2, <4>1 DEF PendingApart
    <3>3. CASE n # m
      BY <1>3, <2>1, <3>1, <3>3 DEF KeyFree
    <3> QED BY <3>2, <3>3
  <2> QED BY <1>7, <2>5, <2>6
<1> QED BY <1>8, <1>9

LEMMA InitKeys == Init => UniqueInv
<1> SUFFICES ASSUME Init PROVE DistinctLive /\ KeyFree /\ PendingApart
  BY DEF UniqueInv
<1>1. KeyFree /\ PendingApart
  BY DEF Init, KeyFree, PendingApart, PendingKeys
<1>2. PICK rows \in Seeds : StoreInit(rows)
  BY DEF Init
<1>3. rows \in Seq(Row) /\ DistinctKeys(rows) /\ DOMAIN rows = 1..Len(rows) /\ Len(rows) \in Nat
  BY TransactionsAssumption, LenProperties
<1>4. \A m \in Live : m \in DOMAIN rows /\ channel[m] = rows[m]
  BY <1>2, <1>3, RowStoreAssumption DEF StoreInit, Live, Msgs
<1>5. DistinctLive
  BY <1>3, <1>4 DEF DistinctKeys, DistinctLive
<1> QED BY <1>1, <1>5

LEMMA StepKeys ==
  ASSUME TypeOK, IndexInv, UniqueInv, NEW p \in Writers,
         Start(p) \/ Step(p) \/ StorageFails(p) \/ AnswerLost(p) \/ Crash(p)
  PROVE  UniqueInv'
<1>1. /\ \A q \in Writers \ {p} : pc'[q] = pc[q] /\ call'[q] = call[q]
      /\ incidents \subseteq incidents'
  BY StepFrame
<1>2. CASE Check(p)
  <2>1. UNCHANGED channel /\ pc'[p] # "index"
    BY <1>2, QuietFrame DEF Quiet, store
  <2> QED BY <1>1, <1>2, <2>1, CheckKeys, QuietKeys
<1>3. CASE Operate(p) \/ RollBack(p)
  <2>1. ASSUME NEW kind, NEW todo, NEW old, Enter(p, kind, todo, old), pc[p] = "next"
        PROVE  pc'[p] # "write" \/ call'[p].kind = "delete"
    <3>1. CASE todo = {}
      <4>1. pc' = pc
        BY <2>1, <3>1 DEF Enter
      <4> QED BY <2>1, <4>1
    <3>2. CASE todo # {} /\ kind # "delete"
      <4>1. pc' = [pc EXCEPT ![p] = "check"]
        BY <2>1, <3>2 DEF Enter, Goto
      <4> QED BY <4>1 DEF TypeOK
    <3>3. CASE todo # {} /\ kind = "delete"
      <4>1. call' = [call EXCEPT ![p] = [NoCall EXCEPT !.kind = "delete", !.todo = todo, !.old = old]]
        BY <2>1, <3>3 DEF Enter
      <4> QED BY <4>1 DEF TypeOK, NoCall
    <3> QED BY <3>1, <3>2, <3>3
  <2>2. Fail(p) => pc'[p] # "write"
    BY DEF Fail, Goto, TypeOK
  <2>3. ASSUME Operate(p) PROVE pc'[p] # "write" \/ call'[p].kind = "delete"
    BY <2>1, <2>2, <2>3 DEF Operate, Reject, DoInsert, DoUpsert, DoUpdate, DoDelete
  <2>4. ASSUME RollBack(p) PROVE pc'[p] # "write" \/ call'[p].kind = "delete"
    <3>1. CASE undo[p] = <<>>
      BY <2>4, <3>1 DEF RollBack, Goto, TypeOK
    <3>2. CASE undo[p] # <<>>
      <4>1. /\ call'[p].kind = Head(undo[p]).kind
            /\ pc'[p] = IF Head(undo[p]).kind = "delete" THEN "write" ELSE "check"
        BY <2>4, <3>2 DEF RollBack, Goto, TypeOK, NoCall
      <4> QED BY <4>1
    <3> QED BY <3>1, <3>2
  <2>5. UNCHANGED channel /\ pc'[p] # "index"
    BY <1>3, QuietFrame DEF Quiet, store
  <2>6. pc'[p] \notin {"write", "index"} \/ call'[p].kind = "delete"
    BY <1>3, <2>3, <2>4, <2>5
  <2> QED BY <1>1, <2>5, <2>6, QuietKeys
<1>4. CASE Write(p) /\ ~Quiet(p)
  BY <1>4, WriteKeys DEF Quiet
<1>5. CASE Index(p)
  <2>1. UNCHANGED channel
    BY <1>5 DEF Index
  <2>2. call[p] \in Call
    BY DEF TypeOK
  <2>3. pc'[p] \notin {"write", "index"} \/ call'[p].kind = call[p].kind
    <3>1. CASE call[p].todo = {}
      BY <1>5, <3>1 DEF Index, Return, Goto, TypeOK
    <3>2. CASE call[p].todo # {}
      <4>1. call'[p] = [call[p] EXCEPT !.cur = {}, !.done = @ \cup call[p].cur]
        BY <1>5, <3>2 DEF Index, TypeOK
      <4> QED BY <2>2, <4>1 DEF Call
    <3> QED BY <3>1, <3>2
  <2>4. pc'[p] = "write" => call[p].kind = "delete"
    BY <1>5 DEF Index, Return, Goto, TypeOK
  <2>5. pc'[p] # "index"
    BY <1>5 DEF Index, Return, Goto, TypeOK
  <2> QED BY <1>1, <2>1, <2>3, <2>4, <2>5, QuietKeys
<1>6. CASE AnswerLost(p)
  BY <1>6, WriteKeys
<1>7. CASE Quiet(p) /\ ~Check(p) /\ ~Operate(p) /\ ~RollBack(p)
  <2>1. UNCHANGED channel
    BY <1>7, QuietFrame DEF store
  <2>2. pc'[p] \notin {"write", "index"}
    BY <1>7 DEF Quiet, Start, Acquire, GiveUp, ReadLock, DeleteLock, LastOperation, Write,
       Announce, Announced, StorageFails, Crash, Fail, Goto, TypeOK
  <2> QED BY <1>1, <2>1, <2>2, QuietKeys
<1>8. CASE Crash(p) /\ ~Quiet(p)
  <2>1. UNCHANGED channel /\ pc'[p] = "crashed"
    BY <1>8 DEF Crash, Goto, store, TypeOK
  <2> QED BY <1>1, <2>1, QuietKeys
<1> QED BY <1>2, <1>3, <1>4, <1>5, <1>6, <1>7, <1>8 DEF Quiet, Step

LEMMA KeysInvariant == Spec => []UniqueInv
<1>1. TypeOK /\ IndexInv /\ UniqueInv /\ [Next]_vars => UniqueInv'
  <2> SUFFICES ASSUME TypeOK, IndexInv, UniqueInv, [Next]_vars PROVE UniqueInv'
    OBVIOUS
  <2>1. CASE UNCHANGED vars \/ Expire
    <3>1. UNCHANGED <<channel, pc, call>> /\ incidents \subseteq incidents'
      BY <2>1 DEF Expire, Record, local, vars, store, history
    <3> QED BY <3>1 DEF UniqueInv, Unraced, Spoiled, DistinctLive, KeyFree, PendingApart,
            PendingKeys, Current, Live
  <2> QED BY <2>1, StepKeys DEF Next
<1> QED BY <1>1, InitKeys, IndexInvariant, TypeCorrect, PTL DEF Spec

\* Two rows come to share a key only through one of the listed races, however many
\* transactions and REST requests run against the table (ensureUniqueConstraints).
THEOREM KeysStayUnique == Spec => []UniqueKeys
<1>1. UniqueInv => UniqueKeys
  BY DEF UniqueInv, Unraced, UniqueKeys, DistinctLive
<1> QED BY <1>1, KeysInvariant, PTL

-----------------------------------------------------------------------------
(* What the lock is for.                                                    *)

\* Transactions alone, with no TTL passing under one, never race on a key or a message:
\* the lock is enough for the checks of the query engine, and REST routes need it too.
THEOREM LockPreventsRaces == Spec => []RacesNeedNoLock
<1>1. Init => RacesNeedNoLock
  BY DEF Init, RacesNeedNoLock, Spoiled
<1>2. TypeOK /\ LockHeld /\ RacesNeedNoLock /\ [Next]_vars => RacesNeedNoLock'
  <2> SUFFICES ASSUME TypeOK, LockHeld, RacesNeedNoLock, [Next]_vars,
                      Direct = {}, "expired" \notin incidents'
               PROVE  "toctou" \notin incidents' /\ "crossed" \notin incidents'
    BY DEF RacesNeedNoLock, Spoiled
  <2>1. CASE UNCHANGED vars \/ Expire
    BY <2>1 DEF RacesNeedNoLock, Spoiled, vars, history, Expire, Record
  <2>2. ASSUME NEW p \in Writers,
               Start(p) \/ Step(p) \/ StorageFails(p) \/ AnswerLost(p) \/ Crash(p)
        PROVE  "toctou" \notin incidents' /\ "crossed" \notin incidents'
    <3>1. "expired" \notin incidents
      BY <2>2, StepFrame
    <3>2. "toctou" \notin incidents /\ "crossed" \notin incidents
      BY <3>1 DEF RacesNeedNoLock, Spoiled
    <3>3. ASSUME Working(p), NEW q \in Writers \ {p}
          PROVE  ~Working(q)
      BY <3>1, <3>3 DEF LockHeld, Writers
    <3>4. CASE Check(p)
      <4>1. \A q \in Writers \ {p} : PendingKeys(q) = {}
        BY <3>3, <3>4 DEF Check, Working, PendingKeys
      <4> QED BY <3>2, <3>4, <4>1 DEF Check, Record, FailIncidents
    <3>5. CASE Write(p)
      <4>1. \A q \in Writers \ {p} : pc[q] # "index"
        BY <3>3, <3>5 DEF Write, Working
      <4> QED BY <3>2, <3>5, <4>1 DEF Write, Record, FailIncidents, WriteIncidents
    <3>6. CASE ~Check(p) /\ ~Write(p)
      BY <2>2, <3>2, <3>6 DEF Step, Start, Acquire, GiveUp, ReadLock, DeleteLock, Operate,
         LastOperation, Index, RollBack, Announce, Announced, StorageFails, AnswerLost,
         Crash, Record, FailIncidents, history
    <3> QED BY <3>4, <3>5, <3>6
  <2> QED BY <2>1, <2>2 DEF Next
<1> QED BY <1>1, <1>2, LockInvariant, TypeCorrect, PTL DEF Spec

\* Until a TTL passes under its holder the lock keeps transactions apart and, where no REST
\* request writes the table, keeps them from racing on a key or a message.
THEOREM LockIsEnough == Spec => []LockSuffices
<1>1. MutualExclusion /\ RacesNeedNoLock => LockSuffices
  BY DEF LockSuffices
<1> QED BY <1>1, Exclusive, LockPreventsRaces, PTL

-----------------------------------------------------------------------------
(* Rollback: what the actions that are pending would bring back.            *)

Action == [kind : Kinds, rows : SUBSET Item]

\* An action deletes or edits this message; rows that are inserted again get new messages.
Undoes(a, m) == a.kind # "insert" /\ \E i \in a.rows : i.msg = m

\* Of the first j actions of U, those on one message: the oldest, run last, decides.
Touched(U, j, m) == \E n \in 1..j : Undoes(U[n], m)
Oldest(U, j, n, m) == Undoes(U[n], m) /\ \A k \in 1..j : k > n => ~Undoes(U[k], m)

\* The table f after the first j actions of U, by message ids as they were before
BroughtBack(U, j) ==
  {i \in Item : \E n \in 1..j :
     /\ i \in U[n].rows
     /\ U[n].kind = "insert" \/ (U[n].kind = "replace" /\ Oldest(U, j, n, i.msg))}
LeftAlone(U, j, f) == {i \in Item : i.msg \in Msgs /\ f[i.msg] = i.row /\ ~Touched(U, j, i.msg)}
Table(U, j, f) == BroughtBack(U, j) \cup LeftAlone(U, j, f)

\* The same of an action and those that come after it
InTable(a, U, j, f, x) ==
  /\ x \in Item
  /\ \/ x \in BroughtBack(U, j)
     \/ a.kind = "insert" /\ x \in a.rows
     \/ a.kind = "replace" /\ x \in a.rows /\ ~Touched(U, j, x.msg)
     \/ x.msg \in Msgs /\ f[x.msg] = x.row /\ ~Touched(U, j, x.msg) /\ ~Undoes(a, x.msg)

LEMMA PutBefore ==
  ASSUME NEW a, NEW S, NEW U \in Seq(S)
  PROVE  /\ Len(<<a>> \o U) = Len(U) + 1 /\ (<<a>> \o U)[1] = a
         /\ \A n \in 1..Len(U) : (<<a>> \o U)[n + 1] = U[n]
         /\ \A n \in 1..(Len(U) + 1) : n # 1 => n - 1 \in 1..Len(U) /\ (<<a>> \o U)[n] = U[n - 1]
<1>1. Len(U) \in Nat /\ DOMAIN U = 1..Len(U)
  OBVIOUS
<1>2. Len(<<a>> \o U) = Len(U) + 1 /\ (<<a>> \o U)[1] = a
  BY <1>1
<1>3. ASSUME NEW n \in 1..(Len(U) + 1), n # 1
      PROVE  n - 1 \in 1..Len(U) /\ (<<a>> \o U)[n] = U[n - 1]
  BY <1>1, <1>3
<1>4. ASSUME NEW n \in 1..Len(U)
      PROVE  (<<a>> \o U)[n + 1] = U[n]
  BY <1>1
<1> QED
  BY <1>2, <1>3, <1>4

LEMMA TouchedBefore ==
  ASSUME NEW a, NEW U \in Seq(Action), NEW j \in 0..Len(U), NEW m
  PROVE  Touched(<<a>> \o U, j + 1, m) <=> Undoes(a, m) \/ Touched(U, j, m)
<1> DEFINE W == <<a>> \o U
<1>1. /\ W[1] = a /\ Len(U) \in Nat
      /\ \A n \in 1..j : W[n + 1] = U[n]
      /\ \A n \in 1..(j + 1) : n # 1 => n - 1 \in 1..j /\ W[n] = U[n - 1]
  BY PutBefore
<1> HIDE DEF W
<1>2. ASSUME Touched(W, j + 1, m) PROVE Undoes(a, m) \/ Touched(U, j, m)
  <2>1. PICK n \in 1..(j + 1) : Undoes(W[n], m)
    BY <1>2 DEF Touched
  <2> QED
    BY <1>1, <2>1 DEF Touched
<1>3. Undoes(a, m) => Touched(W, j + 1, m)
  <2>1. 1 \in 1..(j + 1)
    OBVIOUS
  <2> QED
    BY <1>1, <2>1 DEF Touched
<1>4. ASSUME Touched(U, j, m) PROVE Touched(W, j + 1, m)
  <2>1. PICK n \in 1..j : Undoes(U[n], m)
    BY <1>4 DEF Touched
  <2>2. n + 1 \in 1..(j + 1) /\ W[n + 1] = U[n]
    BY <1>1
  <2> QED
    BY <2>1, <2>2 DEF Touched
<1> QED
  BY <1>2, <1>3, <1>4 DEF W

LEMMA OldestBefore ==
  ASSUME NEW a, NEW U \in Seq(Action), NEW j \in 0..Len(U), NEW m
  PROVE  /\ Oldest(<<a>> \o U, j + 1, 1, m) <=> Undoes(a, m) /\ ~Touched(U, j, m)
         /\ \A n \in 1..j : Oldest(<<a>> \o U, j + 1, n + 1, m) <=> Oldest(U, j, n, m)
<1> DEFINE W == <<a>> \o U
<1>1. /\ W[1] = a /\ Len(U) \in Nat
      /\ \A n \in 1..j : W[n + 1] = U[n] /\ n + 1 \in 1..(j + 1)
      /\ \A n \in 1..(j + 1) : n # 1 => n - 1 \in 1..j /\ W[n] = U[n - 1]
  BY PutBefore
<1> HIDE DEF W
<1>2. Oldest(W, j + 1, 1, m) <=> Undoes(a, m) /\ ~Touched(U, j, m)
  <2>1. (\A k \in 1..(j + 1) : k > 1 => ~Undoes(W[k], m)) <=> \A n \in 1..j : ~Undoes(U[n], m)
    <3>1. ASSUME NEW n \in 1..j, \A k \in 1..(j + 1) : k > 1 => ~Undoes(W[k], m)
          PROVE  ~Undoes(U[n], m)
      <4>1. n + 1 \in 1..(j + 1) /\ n + 1 > 1 /\ W[n + 1] = U[n]
        BY <1>1
      <4> QED
        BY <3>1, <4>1
    <3>2. ASSUME NEW k \in 1..(j + 1), k > 1, \A n \in 1..j : ~Undoes(U[n], m)
          PROVE  ~Undoes(W[k], m)
      BY <1>1, <3>2
    <3> QED
      BY <3>1, <3>2
  <2> QED
    BY <1>1, <2>1 DEF Oldest, Touched
<1>3. ASSUME NEW n \in 1..j PROVE Oldest(W, j + 1, n + 1, m) <=> Oldest(U, j, n, m)
  <2>1. W[n + 1] = U[n]
    BY <1>1
  <2>2. (\A k \in 1..(j + 1) : k > n + 1 => ~Undoes(W[k], m)) <=> \A k \in 1..j : k > n => ~Undoes(U[k], m)
    <3>1. ASSUME NEW k \in 1..j, k > n, \A h \in 1..(j + 1) : h > n + 1 => ~Undoes(W[h], m)
          PROVE  ~Undoes(U[k], m)
      <4>1. k + 1 \in 1..(j + 1) /\ k + 1 > n + 1 /\ W[k + 1] = U[k]
        BY <1>1, <3>1
      <4> QED
        BY <3>1, <4>1
    <3>2. ASSUME NEW k \in 1..(j + 1), k > n + 1, \A h \in 1..j : h > n => ~Undoes(U[h], m)
          PROVE  ~Undoes(W[k], m)
      <4>1. k # 1 /\ k - 1 \in 1..j /\ k - 1 > n /\ W[k] = U[k - 1]
        BY <1>1, <3>2
      <4> QED
        BY <3>2, <4>1
    <3> QED
      BY <3>1, <3>2
  <2> QED
    BY <2>1, <2>2 DEF Oldest
<1> QED
  BY <1>2, <1>3 DEF W

LEMMA TableBefore ==
  ASSUME NEW a \in Action, NEW U \in Seq(Action), NEW j \in 0..Len(U), NEW f
  PROVE  \A x : x \in Table(<<a>> \o U, j + 1, f) <=> InTable(a, U, j, f, x)
<1> DEFINE W == <<a>> \o U
<1>1. /\ W[1] = a /\ Len(U) \in Nat
      /\ \A n \in 1..j : W[n + 1] = U[n] /\ n + 1 \in 1..(j + 1)
      /\ \A n \in 1..(j + 1) : n # 1 => n - 1 \in 1..j /\ W[n] = U[n - 1]
      /\ 1 \in 1..(j + 1)
  BY PutBefore
<1>2. \A m : Touched(W, j + 1, m) <=> Undoes(a, m) \/ Touched(U, j, m)
  BY TouchedBefore
<1>3. \A m : /\ Oldest(W, j + 1, 1, m) <=> Undoes(a, m) /\ ~Touched(U, j, m)
             /\ \A n \in 1..j : Oldest(W, j + 1, n + 1, m) <=> Oldest(U, j, n, m)
  BY OldestBefore
<1> HIDE DEF W
<1>4. ASSUME NEW x \in Item
      PROVE  x \in BroughtBack(W, j + 1) <=>
               \/ x \in BroughtBack(U, j)
               \/ a.kind = "insert" /\ x \in a.rows
               \/ a.kind = "replace" /\ x \in a.rows /\ ~Touched(U, j, x.msg)
  <2> DEFINE Back(V, k, n) == /\ x \in V[n].rows
                              /\ \/ V[n].kind = "insert"
                                 \/ V[n].kind = "replace" /\ Oldest(V, k, n, x.msg)
  <2>1. Back(W, j + 1, 1) <=> \/ a.kind = "insert" /\ x \in a.rows
                              \/ a.kind = "replace" /\ x \in a.rows /\ ~Touched(U, j, x.msg)
    BY <1>1, <1>3 DEF Undoes
  <2>2. \A n \in 1..j : Back(W, j + 1, n + 1) <=> Back(U, j, n)
    BY <1>1, <1>3
  <2>3. x \in BroughtBack(W, j + 1) <=> \E n \in 1..(j + 1) : Back(W, j + 1, n)
    BY DEF BroughtBack
  <2>4. x \in BroughtBack(U, j) <=> \E n \in 1..j : Back(U, j, n)
    BY DEF BroughtBack
  <2> HIDE DEF Back
  <2>5. (\E n \in 1..(j + 1) : Back(W, j + 1, n)) <=> Back(W, j + 1, 1) \/ \E n \in 1..j : Back(U, j, n)
    <3>1. ASSUME NEW n \in 1..(j + 1), Back(W, j + 1, n), n # 1 PROVE \E k \in 1..j : Back(U, j, k)
      <4>1. n - 1 \in 1..j /\ n = (n - 1) + 1
        BY <1>1, <3>1
      <4> QED
        BY <2>2, <3>1, <4>1
    <3>2. ASSUME NEW n \in 1..j, Back(U, j, n) PROVE \E k \in 1..(j + 1) : Back(W, j + 1, k)
      BY <1>1, <2>2, <3>2
    <3> QED
      BY <1>1, <3>1, <3>2
  <2> QED
    BY <2>1, <2>3, <2>4, <2>5
<1>5. ASSUME NEW x \in Item
      PROVE  x \in LeftAlone(W, j + 1, f) <=>
               x.msg \in Msgs /\ f[x.msg] = x.row /\ ~Touched(U, j, x.msg) /\ ~Undoes(a, x.msg)
  BY <1>2 DEF LeftAlone
<1>6. \A x : x \in Table(W, j + 1, f) => x \in Item
  BY DEF Table, BroughtBack, LeftAlone
<1> QED
  BY <1>4, <1>5, <1>6 DEF Table, InTable, W

\* What a plan is made of: rows of messages the channel has had, one item each, and,
\* where rows are to be inserted again, of messages that are gone and in no other insertion.
Apart(items) == \A i, j \in items : i.msg = j.msg => i = j
Sane(a, f, n) ==
  /\ a \in Action
  /\ \A i \in a.rows : i.msg \in Msgs /\ i.msg < n
  /\ a.kind # "insert" => Apart(a.rows)
  /\ a.kind = "insert" => \A i \in a.rows : f[i.msg] = NoRow
Parted(a, b) ==
  a.kind = "insert" /\ b.kind = "insert" => \A i \in a.rows, j \in b.rows : i.msg # j.msg
Known(U, f, n) ==
  /\ U \in Seq(Action)
  /\ \A k \in 1..Len(U) : Sane(U[k], f, n)
  /\ \A j, k \in 1..Len(U) : j # k => Parted(U[j], U[k])

\* An action whose message is gone will throw.
Lame(a, f) == a.kind # "insert" /\ \E i \in a.rows : f[i.msg] = NoRow
Doomed(U, f) == \E k \in 1..Len(U) : Lame(U[k], f)

\* No action is older than the insertion of the message it is about.
Opens(a, U) == a.kind = "delete" => \A i \in a.rows : ~Touched(U, Len(U), i.msg)
Ordered(U) ==
  \A j, k \in 1..Len(U) : j < k /\ U[j].kind = "delete" => \A i \in U[j].rows : ~Undoes(U[k], i.msg)

RowsOf(items) == {i.row : i \in items}
Restores(U, f, rows) == RowsOf(Table(U, Len(U), f)) = rows

LEMMA KnownBefore ==
  ASSUME NEW a \in Action, NEW U \in Seq(Action), NEW f, NEW n
  PROVE  Known(<<a>> \o U, f, n) <=>
           Known(U, f, n) /\ Sane(a, f, n) /\ \A k \in 1..Len(U) : Parted(a, U[k])
<1> DEFINE W == <<a>> \o U
<1>1. /\ W[1] = a /\ Len(U) \in Nat /\ Len(W) = Len(U) + 1 /\ W \in Seq(Action)
      /\ \A k \in 1..Len(U) : W[k + 1] = U[k] /\ k + 1 \in 1..Len(W) /\ k + 1 # 1
      /\ \A k \in 1..Len(W) : k # 1 => k - 1 \in 1..Len(U) /\ W[k] = U[k - 1]
      /\ 1 \in 1..Len(W)
  BY PutBefore
<1> HIDE DEF W
<1>2. \A x, y : Parted(x, y) => Parted(y, x)
  BY DEF Parted
<1>3. ASSUME Known(W, f, n)
      PROVE  Known(U, f, n) /\ Sane(a, f, n) /\ \A k \in 1..Len(U) : Parted(a, U[k])
  <2>1. \A k \in 1..Len(U) : Sane(U[k], f, n)
    BY <1>1, <1>3 DEF Known
  <2>2. ASSUME NEW j \in 1..Len(U), NEW k \in 1..Len(U), j # k
        PROVE  Parted(U[j], U[k])
    <3>1. j + 1 # k + 1
      BY <2>2
    <3> QED
      BY <1>1, <1>3, <3>1 DEF Known
  <2>3. Sane(a, f, n) /\ \A k \in 1..Len(U) : Parted(a, U[k])
    BY <1>1, <1>3 DEF Known
  <2> QED
    BY <2>1, <2>2, <2>3 DEF Known
<1>4. ASSUME Known(U, f, n), Sane(a, f, n), \A k \in 1..Len(U) : Parted(a, U[k])
      PROVE  Known(W, f, n)
  <2>1. \A k \in 1..Len(W) : Sane(W[k], f, n)
    BY <1>1, <1>4 DEF Known
  <2>2. ASSUME NEW j \in 1..Len(W), NEW k \in 1..Len(W), j # k
        PROVE  Parted(W[j], W[k])
    <3>1. CASE j = 1
      BY <1>1, <1>4, <2>2, <3>1
    <3>2. CASE k = 1
      BY <1>1, <1>2, <1>4, <2>2, <3>2
    <3>3. CASE j # 1 /\ k # 1
      <4>1. j - 1 # k - 1
        BY <1>1, <2>2
      <4> QED
        BY <1>1, <1>4, <3>3, <4>1 DEF Known
    <3> QED
      BY <3>1, <3>2, <3>3
  <2> QED
    BY <1>1, <2>1, <2>2 DEF Known
<1> QED
  BY <1>3, <1>4 DEF W

LEMMA DoomedBefore ==
  ASSUME NEW a \in Action, NEW U \in Seq(Action), NEW f
  PROVE  Doomed(<<a>> \o U, f) <=> Lame(a, f) \/ Doomed(U, f)
<1> DEFINE W == <<a>> \o U
<1>1. /\ W[1] = a /\ Len(U) \in Nat /\ Len(W) = Len(U) + 1
      /\ \A k \in 1..Len(U) : W[k + 1] = U[k] /\ k + 1 \in 1..Len(W)
      /\ \A k \in 1..Len(W) : k # 1 => k - 1 \in 1..Len(U) /\ W[k] = U[k - 1]
      /\ 1 \in 1..Len(W)
  BY PutBefore
<1> HIDE DEF W
<1>2. ASSUME NEW k \in 1..Len(W), Lame(W[k], f) PROVE Lame(a, f) \/ Doomed(U, f)
  BY <1>1, <1>2 DEF Doomed
<1>3. ASSUME NEW k \in 1..Len(U), Lame(U[k], f) PROVE Doomed(W, f)
  <2>1. k + 1 \in 1..Len(W) /\ Lame(W[k + 1], f)
    BY <1>1, <1>3
  <2> QED
    BY <2>1 DEF Doomed
<1>4. Lame(a, f) => Doomed(W, f)
  BY <1>1 DEF Doomed
<1> QED
  BY <1>2, <1>3, <1>4 DEF Doomed, W

LEMMA OrderedBefore ==
  ASSUME NEW a \in Action, NEW U \in Seq(Action)
  PROVE  Ordered(<<a>> \o U) <=> Opens(a, U) /\ Ordered(U)
<1> DEFINE W == <<a>> \o U
<1>1. /\ W[1] = a /\ Len(U) \in Nat /\ Len(W) = Len(U) + 1
      /\ \A k \in 1..Len(U) : W[k + 1] = U[k] /\ k + 1 \in 1..Len(W) /\ 1 < k + 1
      /\ \A k \in 1..Len(W) : k # 1 => k - 1 \in 1..Len(U) /\ W[k] = U[k - 1]
      /\ 1 \in 1..Len(W)
  BY PutBefore
<1> HIDE DEF W
<1>2. ASSUME Ordered(W) PROVE Opens(a, U) /\ Ordered(U)
  <2>1. Opens(a, U)
    BY <1>1, <1>2 DEF Ordered, Opens, Touched
  <2>2. ASSUME NEW j \in 1..Len(U), NEW k \in 1..Len(U), j < k, U[j].kind = "delete"
        PROVE  \A i \in U[j].rows : ~Undoes(U[k], i.msg)
    <3>1. j + 1 < k + 1
      BY <2>2
    <3>2. /\ j + 1 \in 1..Len(W) /\ W[j + 1] = U[j]
          /\ k + 1 \in 1..Len(W) /\ W[k + 1] = U[k]
      BY <1>1
    <3> QED
      BY <1>2, <2>2, <3>1, <3>2 DEF Ordered
  <2> QED
    BY <2>1, <2>2 DEF Ordered
<1>3. ASSUME Opens(a, U), Ordered(U) PROVE Ordered(W)
  <2> SUFFICES ASSUME NEW j \in 1..Len(W), NEW k \in 1..Len(W), j < k, W[j].kind = "delete"
               PROVE  \A i \in W[j].rows : ~Undoes(W[k], i.msg)
    BY DEF Ordered
  <2>1. k # 1 /\ k - 1 \in 1..Len(U) /\ W[k] = U[k - 1]
    BY <1>1
  <2>2. CASE j = 1
    BY <1>1, <1>3, <2>1, <2>2 DEF Opens, Touched
  <2>3. CASE j # 1
    <3>1. j - 1 \in 1..Len(U) /\ W[j] = U[j - 1] /\ j - 1 < k - 1
      BY <1>1, <2>3
    <3> QED
      BY <1>3, <2>1, <3>1 DEF Ordered
  <2> QED
    BY <2>2, <2>3
<1> QED
  BY <1>2, <1>3 DEF W

\* The six ways in which a write changes the newest action: three make it longer, ...
Inserts(a, b, f, g, n) ==
  \E row \in Row :
    /\ a.kind = "delete" /\ n \in Msgs
    /\ b = [kind |-> "delete", rows |-> a.rows \cup {[msg |-> n, row |-> row]}]
    /\ g = [f EXCEPT ![n] = row]
Replaces(a, b, f, g, n) ==
  \E m \in Msgs, row \in Row :
    /\ a.kind = "replace" /\ m < n /\ f[m] \in Row
    /\ \A i \in a.rows : i.msg # m
    /\ b = [kind |-> "replace", rows |-> a.rows \cup {[msg |-> m, row |-> f[m]]}]
    /\ g = [f EXCEPT ![m] = row]
Deletes(a, b, f, g, n) ==
  \E m \in Msgs :
    /\ a.kind = "insert" /\ m < n /\ f[m] \in Row
    /\ b = [kind |-> "insert", rows |-> a.rows \cup {[msg |-> m, row |-> f[m]]}]
    /\ g = [f EXCEPT ![m] = NoRow]

\* A message goes that an action still waits to work on.
Overtakes(U, f, g) ==
  \E m \in Msgs : f[m] # NoRow /\ g[m] = NoRow /\ Touched(U, Len(U), m)

\* ... and three, of the rollback, carry out a part of it.
Reinserts(a, b, f, g, n) ==
  \E i \in a.rows :
    /\ a.kind = "insert" /\ n \in Msgs
    /\ b = [kind |-> "insert", rows |-> a.rows \ {i}]
    /\ g = [f EXCEPT ![n] = i.row]
Reedits(a, b, f, g) ==
  \E i \in a.rows :
    /\ a.kind = "replace" /\ f[i.msg] # NoRow
    /\ b = [kind |-> "replace", rows |-> a.rows \ {i}]
    /\ g = [f EXCEPT ![i.msg] = i.row]
Removes(a, b, f, g) ==
  \E i \in a.rows :
    /\ a.kind = "delete" /\ f[i.msg] # NoRow
    /\ b = [kind |-> "delete", rows |-> a.rows \ {i}]
    /\ g = [f EXCEPT ![i.msg] = NoRow]

\* A table, and no row yet under the ids that Telegram has not given
Channel(f, n) ==
  /\ f \in [Msgs -> Row \cup {NoRow}]
  /\ \A m \in Msgs : m >= n => f[m] = NoRow

SameTables(a, b, U, f, g) ==
  \A j \in 0..Len(U) : \A x : InTable(b, U, j, g, x) <=> InTable(a, U, j, f, x)

LEMMA TouchedMore ==
  ASSUME NEW U \in Seq(Action), NEW j \in 0..Len(U), NEW m, Touched(U, j, m)
  PROVE  Touched(U, Len(U), m)
<1>1. PICK k \in 1..j : Undoes(U[k], m)
  BY DEF Touched
<1>2. k \in 1..Len(U)
  OBVIOUS
<1> QED
  BY <1>1, <1>2 DEF Touched

LEMMA UndoesMore ==
  ASSUME NEW a, NEW b, NEW item, a.kind # "insert", b.kind = a.kind, b.rows = a.rows \cup {item}
  PROVE  \A h : Undoes(b, h) <=> Undoes(a, h) \/ h = item.msg
<1>1. ASSUME NEW h PROVE (\E i \in b.rows : i.msg = h) <=> (\E i \in a.rows : i.msg = h) \/ h = item.msg
  OBVIOUS
<1> QED
  BY <1>1 DEF Undoes

LEMMA InsertsKeeps ==
  ASSUME NEW a \in Action, NEW b, NEW U \in Seq(Action), NEW f, NEW g, NEW n \in Nat,
         Channel(f, n), Inserts(a, b, f, g, n)
  PROVE  SameTables(a, b, U, f, g)
<1>1. PICK row \in Row :
        /\ a.kind = "delete" /\ n \in Msgs
        /\ b = [kind |-> "delete", rows |-> a.rows \cup {[msg |-> n, row |-> row]}]
        /\ g = [f EXCEPT ![n] = row]
  BY DEF Inserts
<1>2. f[n] = NoRow /\ \A m \in Msgs : g[m] = IF m = n THEN row ELSE f[m]
  BY <1>1 DEF Channel
<1>3. \A m : Undoes(b, m) <=> Undoes(a, m) \/ m = n
  <2> DEFINE item == [msg |-> n, row |-> row]
  <2>1. b.kind = a.kind /\ b.rows = a.rows \cup {item} /\ a.kind # "insert" /\ item.msg = n
    BY <1>1
  <2> HIDE DEF item
  <2> QED
    BY <2>1, UndoesMore
<1>4. \A x \in Item : x.row # NoRow
  BY RowStoreAssumption DEF Item
<1>5. \A x \in Item : (f[x.msg] = x.row /\ x.msg \in Msgs /\ ~Undoes(a, x.msg))
                      <=> (g[x.msg] = x.row /\ x.msg \in Msgs /\ ~Undoes(b, x.msg))
  BY <1>1, <1>2, <1>3, <1>4
<1>6. b.kind = "delete"
  BY <1>1
<1> QED
  BY <1>1, <1>5, <1>6 DEF SameTables, InTable

LEMMA ReplacesKeeps ==
  ASSUME NEW a \in Action, NEW b, NEW U \in Seq(Action), NEW f, NEW g, NEW n \in Nat,
         Channel(f, n), Replaces(a, b, f, g, n)
  PROVE  SameTables(a, b, U, f, g)
<1>1. PICK m \in Msgs, row \in Row :
        /\ a.kind = "replace" /\ m < n /\ f[m] \in Row
        /\ \A i \in a.rows : i.msg # m
        /\ b = [kind |-> "replace", rows |-> a.rows \cup {[msg |-> m, row |-> f[m]]}]
        /\ g = [f EXCEPT ![m] = row]
  BY DEF Replaces
<1>2. \A k \in Msgs : g[k] = IF k = m THEN row ELSE f[k]
  BY <1>1 DEF Channel
<1>3. \A k : Undoes(b, k) <=> Undoes(a, k) \/ k = m
  <2> DEFINE item == [msg |-> m, row |-> f[m]]
  <2>1. b.kind = a.kind /\ b.rows = a.rows \cup {item} /\ a.kind # "insert" /\ item.msg = m
    BY <1>1
  <2> HIDE DEF item
  <2> QED
    BY <2>1, UndoesMore
<1>4. ~Undoes(a, m)
  BY <1>1 DEF Undoes
<1>5. \A x \in Item : x = [msg |-> x.msg, row |-> x.row]
  BY DEF Item
<1>6. \A x \in Item : x \in b.rows <=> x \in a.rows \/ (x.msg = m /\ x.row = f[m])
  BY <1>1, <1>5
<1>7. \A x \in Item :
        (x.msg \in Msgs /\ g[x.msg] = x.row /\ ~Undoes(b, x.msg))
        <=> (x.msg \in Msgs /\ f[x.msg] = x.row /\ ~Undoes(a, x.msg) /\ x.msg # m)
  BY <1>2, <1>3
<1>8. a.kind = "replace" /\ b.kind = "replace"
  BY <1>1
<1>9. ASSUME NEW j \in 0..Len(U), NEW x \in Item
      PROVE  InTable(b, U, j, g, x) <=> InTable(a, U, j, f, x)
  <2>1. CASE x.msg = m
    BY <1>1, <1>4, <1>6, <1>7, <1>8, <2>1 DEF InTable
  <2>2. CASE x.msg # m
    BY <1>6, <1>7, <1>8, <2>2 DEF InTable
  <2> QED
    BY <2>1, <2>2
<1> QED
  BY <1>9 DEF SameTables, InTable

LEMMA DeletesKeeps ==
  ASSUME NEW a \in Action, NEW b, NEW U \in Seq(Action), NEW f, NEW g, NEW n \in Nat,
         Channel(f, n), Deletes(a, b, f, g, n), ~Overtakes(U, f, g)
  PROVE  SameTables(a, b, U, f, g)
<1>1. PICK m \in Msgs :
        /\ a.kind = "insert" /\ m < n /\ f[m] \in Row
        /\ b = [kind |-> "insert", rows |-> a.rows \cup {[msg |-> m, row |-> f[m]]}]
        /\ g = [f EXCEPT ![m] = NoRow]
  BY DEF Deletes
<1>2. \A k \in Msgs : g[k] = IF k = m THEN NoRow ELSE f[k]
  BY <1>1 DEF Channel
<1>3. \A k : ~Undoes(b, k) /\ ~Undoes(a, k)
  BY <1>1 DEF Undoes
<1>4. \A j \in 0..Len(U) : ~Touched(U, j, m)
  <2>1. ~Touched(U, Len(U), m)
    BY <1>1, <1>2, RowStoreAssumption DEF Overtakes
  <2> QED
    BY <2>1, TouchedMore
<1>5. \A x \in Item : x = [msg |-> x.msg, row |-> x.row] /\ x.row # NoRow
  BY RowStoreAssumption DEF Item
<1>6. \A x \in Item : x \in b.rows <=> x \in a.rows \/ (x.msg = m /\ x.row = f[m])
  BY <1>1, <1>5
<1>7. \A x \in Item : (x.msg \in Msgs /\ g[x.msg] = x.row)
                      <=> (x.msg \in Msgs /\ f[x.msg] = x.row /\ x.msg # m)
  BY <1>2, <1>5
<1>8. a.kind = "insert" /\ b.kind = "insert"
  BY <1>1
<1>9. ASSUME NEW j \in 0..Len(U), NEW x \in Item
      PROVE  InTable(b, U, j, g, x) <=> InTable(a, U, j, f, x)
  <2>1. CASE x.msg = m
    BY <1>1, <1>3, <1>4, <1>6, <1>7, <1>8, <2>1 DEF InTable
  <2>2. CASE x.msg # m
    BY <1>3, <1>6, <1>7, <1>8, <2>2 DEF InTable
  <2> QED
    BY <2>1, <2>2
<1> QED
  BY <1>9 DEF SameTables, InTable

LEMMA UndoesLess ==
  ASSUME NEW a, NEW b, NEW item \in a.rows, a.kind # "insert", b.kind = a.kind,
         b.rows = a.rows \ {item}, Apart(a.rows)
  PROVE  \A h : Undoes(b, h) <=> Undoes(a, h) /\ h # item.msg
<1>1. ASSUME NEW h PROVE (\E i \in b.rows : i.msg = h) <=> (\E i \in a.rows : i.msg = h) /\ h # item.msg
  BY DEF Apart
<1> QED
  BY <1>1 DEF Undoes

LEMMA ReeditsKeeps ==
  ASSUME NEW a \in Action, NEW b, NEW U \in Seq(Action), NEW f, NEW g, NEW n \in Nat,
         Channel(f, n), Sane(a, f, n), Reedits(a, b, f, g)
  PROVE  SameTables(a, b, U, f, g)
<1>1. PICK i \in a.rows :
        /\ a.kind = "replace"
        /\ b = [kind |-> "replace", rows |-> a.rows \ {i}]
        /\ g = [f EXCEPT ![i.msg] = i.row]
  BY DEF Reedits
<1>2. i \in Item /\ i.msg \in Msgs /\ Apart(a.rows)
  BY <1>1 DEF Sane, Action
<1>3. \A k \in Msgs : g[k] = IF k = i.msg THEN i.row ELSE f[k]
  BY <1>1, <1>2 DEF Channel
<1>4. a.kind = "replace" /\ b.kind = "replace" /\ b.rows = a.rows \ {i}
  BY <1>1
<1>5. \A h : Undoes(b, h) <=> Undoes(a, h) /\ h # i.msg
  BY <1>2, <1>4, UndoesLess
<1>6. Undoes(a, i.msg)
  BY <1>1 DEF Undoes
<1>7. \A x \in Item : x.msg = i.msg /\ x.row = i.row => x = i
  BY <1>2 DEF Item
<1>8. \A x \in a.rows : x.msg = i.msg => x = i
  BY <1>2 DEF Apart
<1>9. ASSUME NEW j \in 0..Len(U), NEW x \in Item
      PROVE  InTable(b, U, j, g, x) <=> InTable(a, U, j, f, x)
  <2>1. CASE x = i
    <3>1. x.msg \in Msgs /\ g[x.msg] = x.row /\ ~Undoes(b, x.msg) /\ x \in a.rows
      BY <1>2, <1>3, <1>5, <2>1
    <3> QED
      BY <1>4, <1>6, <2>1, <3>1 DEF InTable
  <2>2. CASE x.msg = i.msg /\ x # i
    <3>1. x \notin a.rows /\ x \notin b.rows /\ g[x.msg] # x.row /\ Undoes(a, x.msg)
      BY <1>2, <1>3, <1>4, <1>6, <1>7, <1>8, <2>2
    <3> QED
      BY <1>4, <2>2, <3>1 DEF InTable
  <2>3. CASE x.msg # i.msg
    <3>1. /\ x \in b.rows <=> x \in a.rows
          /\ Undoes(b, x.msg) <=> Undoes(a, x.msg)
          /\ x.msg \in Msgs => g[x.msg] = f[x.msg]
      BY <1>3, <1>4, <1>5, <2>3
    <3> QED
      BY <1>4, <3>1 DEF InTable
  <2> QED
    BY <2>1, <2>2, <2>3
<1> QED
  BY <1>9 DEF SameTables, InTable

LEMMA RemovesKeeps ==
  ASSUME NEW a \in Action, NEW b, NEW U \in Seq(Action), NEW f, NEW g, NEW n \in Nat,
         Channel(f, n), Sane(a, f, n), Removes(a, b, f, g)
  PROVE  SameTables(a, b, U, f, g)
<1>1. PICK i \in a.rows :
        /\ a.kind = "delete"
        /\ b = [kind |-> "delete", rows |-> a.rows \ {i}]
        /\ g = [f EXCEPT ![i.msg] = NoRow]
  BY DEF Removes
<1>2. i \in Item /\ i.msg \in Msgs /\ Apart(a.rows)
  BY <1>1 DEF Sane, Action
<1>3. \A k \in Msgs : g[k] = IF k = i.msg THEN NoRow ELSE f[k]
  BY <1>1, <1>2 DEF Channel
<1>4. a.kind = "delete" /\ b.kind = "delete" /\ b.rows = a.rows \ {i}
  BY <1>1
<1>5. \A h : Undoes(b, h) <=> Undoes(a, h) /\ h # i.msg
  BY <1>2, <1>4, UndoesLess
<1>6. Undoes(a, i.msg)
  BY <1>1 DEF Undoes
<1>7. \A x \in Item : x.row # NoRow
  BY RowStoreAssumption DEF Item
<1>8. ASSUME NEW x \in Item
      PROVE  (x.msg \in Msgs /\ g[x.msg] = x.row /\ ~Undoes(b, x.msg))
             <=> (x.msg \in Msgs /\ f[x.msg] = x.row /\ ~Undoes(a, x.msg))
  BY <1>3, <1>5, <1>6, <1>7
<1> QED
  BY <1>4, <1>8 DEF SameTables, InTable

\* An inserted row comes back under a new message: it changes its name in the tables to
\* come, and nothing else does.
Renames(a, b, U, f, g, i, new) ==
  \A j \in 0..Len(U) :
    /\ InTable(a, U, j, f, i)
    /\ InTable(b, U, j, g, new)
    /\ \A x : InTable(b, U, j, g, x) => x = new \/ (x # i /\ InTable(a, U, j, f, x))
    /\ \A x : InTable(a, U, j, f, x) => x = i \/ InTable(b, U, j, g, x)

LEMMA ReinsertsRenames ==
  ASSUME NEW a \in Action, NEW b, NEW U \in Seq(Action), NEW f, NEW g, NEW n \in Nat,
         Channel(f, n), Known(<<a>> \o U, f, n), ~Doomed(<<a>> \o U, f), Reinserts(a, b, f, g, n)
  PROVE  \E i \in a.rows, new \in Item :
           /\ new.row = i.row /\ new.msg = n
           /\ Renames(a, b, U, f, g, i, new)
<1>1. PICK i \in a.rows :
        /\ a.kind = "insert" /\ n \in Msgs
        /\ b = [kind |-> "insert", rows |-> a.rows \ {i}]
        /\ g = [f EXCEPT ![n] = i.row]
  BY DEF Reinserts
<1>2. Sane(a, f, n) /\ Known(U, f, n) /\ \A k \in 1..Len(U) : Parted(a, U[k])
  BY KnownBefore
<1>3. i \in Item /\ i.msg \in Msgs /\ i.msg < n /\ f[i.msg] = NoRow
  BY <1>1, <1>2 DEF Sane, Action
<1>4. ~Doomed(U, f)
  BY DoomedBefore
<1> DEFINE new == [msg |-> n, row |-> i.row]
<1>5. new \in Item /\ new.msg = n /\ new.row = i.row /\ new # i
  BY <1>1, <1>3 DEF Item, Msgs
<1> HIDE DEF new
<1>6. \A k \in Msgs : g[k] = IF k = n THEN i.row ELSE f[k]
  BY <1>1 DEF Channel
<1>7. a.kind = "insert" /\ b.kind = "insert" /\ b.rows = a.rows \ {i}
  BY <1>1
<1>8. f[n] = NoRow /\ \A x \in Item : x.row # NoRow
  BY <1>1, RowStoreAssumption DEF Item, Channel
<1>9. \A h : ~Undoes(a, h) /\ ~Undoes(b, h)
  BY <1>7 DEF Undoes
<1>10. \A j \in 0..Len(U) : ~Touched(U, j, n)
  <2> SUFFICES ASSUME NEW k \in 1..Len(U), Undoes(U[k], n) PROVE FALSE
    BY DEF Touched
  <2> QED
    BY <1>2 DEF Known, Sane, Undoes
<1>11. \A j \in 0..Len(U) : i \notin BroughtBack(U, j)
  <2> SUFFICES ASSUME NEW k \in 1..Len(U), i \in U[k].rows, U[k].kind \in {"insert", "replace"} PROVE FALSE
    BY DEF BroughtBack
  <2>1. U[k].kind # "insert"
    BY <1>1, <1>2 DEF Parted
  <2>2. Lame(U[k], f)
    BY <1>3, <2>1 DEF Lame
  <2> QED
    BY <1>4, <2>2 DEF Doomed
<1>12. \A x \in Item : x.msg = n /\ x.row = i.row => x = new
  BY <1>5 DEF Item
<1>13. ASSUME NEW j \in 0..Len(U)
       PROVE  /\ InTable(a, U, j, f, i)
              /\ InTable(b, U, j, g, new)
  <2>1. InTable(a, U, j, f, i)
    BY <1>3, <1>7 DEF InTable
  <2>2. InTable(b, U, j, g, new)
    BY <1>1, <1>5, <1>6, <1>9, <1>10 DEF InTable
  <2> QED
    BY <2>1, <2>2
<1>14. ASSUME NEW j \in 0..Len(U), NEW x \in Item, InTable(b, U, j, g, x)
       PROVE  x = new \/ (x # i /\ InTable(a, U, j, f, x))
  <2>1. CASE x.msg \in Msgs /\ g[x.msg] = x.row /\ x.msg = n
    BY <1>6, <1>12, <2>1
  <2>2. CASE x.msg \in Msgs /\ g[x.msg] = x.row /\ x.msg # n /\ ~Touched(U, j, x.msg)
    <3>1. f[x.msg] = x.row /\ x # i
      BY <1>3, <1>6, <1>8, <2>2
    <3> QED
      BY <1>9, <2>2, <3>1 DEF InTable
  <2>3. CASE x \in BroughtBack(U, j)
    BY <1>11, <2>3 DEF InTable
  <2>4. CASE x \in b.rows
    BY <1>7, <2>4 DEF InTable
  <2> QED
    BY <1>7, <1>14, <2>1, <2>2, <2>3, <2>4 DEF InTable
<1>15. ASSUME NEW j \in 0..Len(U), NEW x \in Item, InTable(a, U, j, f, x)
       PROVE  x = i \/ InTable(b, U, j, g, x)
  <2>1. CASE x.msg \in Msgs /\ f[x.msg] = x.row /\ ~Touched(U, j, x.msg)
    <3>1. g[x.msg] = x.row
      BY <1>6, <1>8, <2>1
    <3> QED
      BY <1>9, <2>1, <3>1 DEF InTable
  <2>2. CASE x \in BroughtBack(U, j)
    BY <2>2 DEF InTable
  <2>3. CASE x \in a.rows
    BY <1>7, <2>3 DEF InTable
  <2> QED
    BY <1>7, <1>15, <2>1, <2>2, <2>3 DEF InTable
<1>16. Renames(a, b, U, f, g, i, new)
  BY <1>13, <1>14, <1>15 DEF Renames, InTable
<1> QED
  BY <1>5, <1>16

\* What is known of a plan: the channel is the one its actions are about, and, if it is not
\* doomed, it brings back the rows it should.
Planned(W, f, n, rows) ==
  /\ Channel(f, n)
  /\ Known(W, f, n)
  /\ ~Doomed(W, f) => Restores(W, f, rows) /\ Ordered(W)

SameOrRenamed(a, b, U, f, g, n) ==
  \/ SameTables(a, b, U, f, g)
  \/ \E i \in Item, new \in Item :
       new.row = i.row /\ new.msg = n /\ Renames(a, b, U, f, g, i, new)

LEMMA RestoresBefore ==
  ASSUME NEW a \in Action, NEW b \in Action, NEW U \in Seq(Action), NEW f, NEW g, NEW rows, NEW n,
         SameOrRenamed(a, b, U, f, g, n), Restores(<<a>> \o U, f, rows)
  PROVE  Restores(<<b>> \o U, g, rows)
<1> DEFINE old == Table(<<a>> \o U, Len(U) + 1, f)
           new == Table(<<b>> \o U, Len(U) + 1, g)
<1>1. Len(<<a>> \o U) = Len(U) + 1 /\ Len(<<b>> \o U) = Len(U) + 1 /\ Len(U) \in 0..Len(U)
  BY PutBefore
<1>2. /\ \A x : x \in old <=> InTable(a, U, Len(U), f, x)
      /\ \A x : x \in new <=> InTable(b, U, Len(U), g, x)
  BY <1>1, TableBefore
<1>3. RowsOf(old) = rows
  BY <1>1 DEF Restores
<1> HIDE DEF old, new
<1>4. RowsOf(new) = RowsOf(old)
  <2>1. CASE SameTables(a, b, U, f, g)
    <3>1. old = new
      BY <1>1, <1>2, <2>1 DEF SameTables
    <3> QED
      BY <3>1
  <2>2. CASE ~SameTables(a, b, U, f, g)
    <3>1. PICK i, x : x.row = i.row /\ Renames(a, b, U, f, g, i, x)
      BY <2>2 DEF SameOrRenamed
    <3>2. /\ i \in old /\ x \in new
          /\ \A y \in new : y = x \/ y \in old
          /\ \A y \in old : y = i \/ y \in new
      BY <1>1, <1>2, <3>1 DEF Renames
    <3> QED
      BY <3>1, <3>2 DEF RowsOf
  <2> QED
    BY <2>1, <2>2
<1> QED
  BY <1>1, <1>3, <1>4 DEF Restores, new

\* What every one of the six writes has to show
Carries(a, b, U, f, g, n, n2) ==
  /\ Channel(g, n2) /\ n <= n2
  /\ \A m \in Msgs : m < n /\ f[m] = NoRow => g[m] = NoRow
  /\ Sane(b, g, n2)
  /\ \A k \in 1..Len(U) : Parted(b, U[k])
  /\ Lame(a, f) => Lame(b, g)
  /\ ~Doomed(<<a>> \o U, f) => (Opens(a, U) => Opens(b, U))
  /\ ~Doomed(<<a>> \o U, f) /\ ~Doomed(<<b>> \o U, g) => SameOrRenamed(a, b, U, f, g, n)

LEMMA Rewritten ==
  ASSUME NEW a \in Action, NEW b \in Action, NEW U \in Seq(Action), NEW f, NEW g,
         NEW n \in Nat, NEW n2 \in Nat, NEW rows,
         Planned(<<a>> \o U, f, n, rows), Carries(a, b, U, f, g, n, n2)
  PROVE  Planned(<<b>> \o U, g, n2, rows)
<1> USE DEF Carries
<1>1. Known(U, f, n) /\ Channel(f, n)
  BY KnownBefore DEF Planned
<1>2. Known(U, g, n2)
  <2> SUFFICES ASSUME NEW k \in 1..Len(U) PROVE Sane(U[k], g, n2)
    BY <1>1 DEF Known
  <2>1. Sane(U[k], f, n)
    BY <1>1 DEF Known
  <2>2. \A i \in U[k].rows : i.msg \in Msgs /\ i.msg < n /\ i.msg < n2
    BY <2>1 DEF Sane, Msgs
  <2> QED
    BY <2>1, <2>2 DEF Sane
<1>3. Known(<<b>> \o U, g, n2)
  BY <1>2, KnownBefore
<1>4. Doomed(<<a>> \o U, f) => Doomed(<<b>> \o U, g)
  <2>1. ASSUME Doomed(U, f) PROVE Doomed(U, g)
    <3>1. PICK k \in 1..Len(U) : Lame(U[k], f)
      BY <2>1 DEF Doomed
    <3>2. Sane(U[k], f, n)
      BY <1>1 DEF Known
    <3>3. Lame(U[k], g)
      BY <3>1, <3>2 DEF Lame, Sane
    <3> QED
      BY <3>3 DEF Doomed
  <2> QED
    BY <2>1, DoomedBefore
<1>6. ASSUME ~Doomed(<<b>> \o U, g)
      PROVE  Restores(<<b>> \o U, g, rows) /\ Ordered(<<b>> \o U)
  <2>1. ~Doomed(<<a>> \o U, f)
    BY <1>4, <1>6
  <2>2. Restores(<<a>> \o U, f, rows) /\ Ordered(<<a>> \o U)
    BY <2>1 DEF Planned
  <2>3. SameOrRenamed(a, b, U, f, g, n)
    BY <1>6, <2>1
  <2>4. Restores(<<b>> \o U, g, rows)
    BY <2>2, <2>3, RestoresBefore
  <2>5. Ordered(<<b>> \o U)
    BY <2>1, <2>2, OrderedBefore
  <2> QED
    BY <2>4, <2>5
<1> QED
  BY <1>3, <1>6 DEF Planned

LEMMA InsertsPlanned ==
  ASSUME NEW a \in Action, NEW b, NEW U \in Seq(Action), NEW f, NEW g, NEW n \in Nat,
         NEW rows, Planned(<<a>> \o U, f, n, rows), Inserts(a, b, f, g, n)
  PROVE  /\ b \in Action /\ Planned(<<b>> \o U, g, n + 1, rows)
         /\ Doomed(<<b>> \o U, g) => Doomed(<<a>> \o U, f)
         /\ ~Doomed(<<a>> \o U, f) /\ ~Doomed(<<b>> \o U, g) => SameOrRenamed(a, b, U, f, g, n)
<1>1. PICK row \in Row :
        /\ a.kind = "delete" /\ n \in Msgs
        /\ b = [kind |-> "delete", rows |-> a.rows \cup {[msg |-> n, row |-> row]}]
        /\ g = [f EXCEPT ![n] = row]
  BY DEF Inserts
<1>2. Channel(f, n) /\ Sane(a, f, n) /\ Known(U, f, n)
  BY KnownBefore DEF Planned
<1> DEFINE item == [msg |-> n, row |-> row]
<1>3. item \in Item /\ item.msg = n
  BY <1>1 DEF Item, Msgs
<1> HIDE DEF item
<1>4. b.kind = "delete" /\ b.rows = a.rows \cup {item} /\ a.rows \in SUBSET Item
  BY <1>1 DEF item, Action
<1>5. b \in Action
  BY <1>1, <1>3, <1>4 DEF Action, Kinds
<1>6. \A m \in Msgs : g[m] = IF m = n THEN row ELSE f[m]
  BY <1>1, <1>2 DEF Channel
<1>7. row # NoRow /\ f[n] = NoRow
  BY <1>1, <1>2, RowStoreAssumption DEF Channel
<1>8. Channel(g, n + 1) /\ n <= n + 1
  <2>1. g \in [Msgs -> Row \cup {NoRow}]
    BY <1>1, <1>2 DEF Channel
  <2>2. \A m \in Msgs : m >= n + 1 => m >= n /\ m # n
    BY DEF Msgs
  <2> QED
    BY <1>2, <1>6, <2>1, <2>2 DEF Channel
<1>9. \A m \in Msgs : m < n /\ f[m] = NoRow => g[m] = NoRow
  BY <1>6
<1>10. Sane(b, g, n + 1)
  <2>1. \A i \in b.rows : i.msg \in Msgs /\ i.msg < n + 1
    BY <1>1, <1>2, <1>3, <1>4 DEF Sane, Msgs
  <2>2. Apart(b.rows)
    BY <1>1, <1>2, <1>3, <1>4 DEF Sane, Apart
  <2> QED
    BY <1>4, <1>5, <2>1, <2>2 DEF Sane
<1>11. \A k \in 1..Len(U) : Parted(b, U[k])
  BY <1>4 DEF Parted
<1>12. Lame(a, f) <=> Lame(b, g)
  <2>1. \A i \in a.rows : g[i.msg] = f[i.msg]
    BY <1>2, <1>6 DEF Sane
  <2> QED
    BY <1>1, <1>3, <1>4, <1>6, <1>7, <2>1 DEF Lame
<1>13. Doomed(U, g) => Doomed(U, f)
  <2>1. ASSUME NEW k \in 1..Len(U), Lame(U[k], g) PROVE Lame(U[k], f)
    BY <1>2, <1>6, <2>1 DEF Lame, Known, Sane
  <2> QED
    BY <2>1 DEF Doomed
<1>14. Doomed(<<b>> \o U, g) => Doomed(<<a>> \o U, f)
  BY <1>5, <1>12, <1>13, DoomedBefore
<1>15. Opens(a, U) => Opens(b, U)
  <2>1. ~Touched(U, Len(U), n)
    BY <1>2 DEF Touched, Undoes, Known, Sane
  <2> QED
    BY <1>1, <1>3, <1>4, <2>1 DEF Opens
<1>16. SameOrRenamed(a, b, U, f, g, n)
  BY <1>2, InsertsKeeps DEF SameOrRenamed
<1>17. n + 1 \in Nat
  OBVIOUS
<1>18. Carries(a, b, U, f, g, n, n + 1)
  BY <1>8, <1>9, <1>10, <1>11, <1>12, <1>15, <1>16 DEF Carries
<1> QED
  BY <1>5, <1>14, <1>16, <1>17, <1>18, Rewritten

LEMMA ReplacesPlanned ==
  ASSUME NEW a \in Action, NEW b, NEW U \in Seq(Action), NEW f, NEW g, NEW n \in Nat,
         NEW rows, Planned(<<a>> \o U, f, n, rows), Replaces(a, b, f, g, n)
  PROVE  /\ b \in Action /\ Planned(<<b>> \o U, g, n, rows)
         /\ Doomed(<<b>> \o U, g) => Doomed(<<a>> \o U, f)
         /\ ~Doomed(<<a>> \o U, f) /\ ~Doomed(<<b>> \o U, g) => SameOrRenamed(a, b, U, f, g, n)
<1>1. PICK m \in Msgs, row \in Row :
        /\ a.kind = "replace" /\ m < n /\ f[m] \in Row
        /\ \A i \in a.rows : i.msg # m
        /\ b = [kind |-> "replace", rows |-> a.rows \cup {[msg |-> m, row |-> f[m]]}]
        /\ g = [f EXCEPT ![m] = row]
  BY DEF Replaces
<1>2. Channel(f, n) /\ Sane(a, f, n) /\ Known(U, f, n)
  BY KnownBefore DEF Planned
<1> DEFINE item == [msg |-> m, row |-> f[m]]
<1>3. item \in Item /\ item.msg = m
  BY <1>1 DEF Item, Msgs
<1> HIDE DEF item
<1>4. b.kind = "replace" /\ b.rows = a.rows \cup {item} /\ a.rows \in SUBSET Item
  BY <1>1 DEF item, Action
<1>5. b \in Action
  BY <1>1, <1>3, <1>4 DEF Action, Kinds
<1>6. \A k \in Msgs : g[k] = IF k = m THEN row ELSE f[k]
  BY <1>1, <1>2 DEF Channel
<1>7. row # NoRow /\ f[m] # NoRow
  BY <1>1, RowStoreAssumption
<1>8. Channel(g, n) /\ n <= n
  <2>1. g \in [Msgs -> Row \cup {NoRow}]
    BY <1>1, <1>2 DEF Channel
  <2>2. \A k \in Msgs : k >= n => k # m
    BY <1>1 DEF Msgs
  <2> QED
    BY <1>2, <1>6, <2>1, <2>2 DEF Channel
<1>9. \A k \in Msgs : k < n /\ f[k] = NoRow => g[k] = NoRow
  BY <1>6, <1>7
<1>10. Sane(b, g, n)
  <2>1. \A i \in b.rows : i.msg \in Msgs /\ i.msg < n
    BY <1>1, <1>2, <1>3, <1>4 DEF Sane, Msgs
  <2>2. Apart(b.rows)
    BY <1>1, <1>2, <1>3, <1>4 DEF Sane, Apart
  <2> QED
    BY <1>4, <1>5, <2>1, <2>2 DEF Sane
<1>11. \A k \in 1..Len(U) : Parted(b, U[k])
  BY <1>4 DEF Parted
<1>12. Lame(a, f) <=> Lame(b, g)
  <2>1. \A i \in a.rows : g[i.msg] = f[i.msg]
    BY <1>1, <1>2, <1>6 DEF Sane
  <2> QED
    BY <1>1, <1>3, <1>4, <1>6, <1>7, <2>1 DEF Lame
<1>13. Doomed(U, g) => Doomed(U, f)
  <2>1. ASSUME NEW k \in 1..Len(U), Lame(U[k], g) PROVE Lame(U[k], f)
    BY <1>2, <1>6, <1>7, <2>1 DEF Lame, Known, Sane
  <2> QED
    BY <2>1 DEF Doomed
<1>14. Doomed(<<b>> \o U, g) => Doomed(<<a>> \o U, f)
  BY <1>5, <1>12, <1>13, DoomedBefore
<1>15. Opens(b, U)
  BY <1>4 DEF Opens
<1>16. SameOrRenamed(a, b, U, f, g, n)
  BY <1>2, ReplacesKeeps DEF SameOrRenamed
<1>17. Carries(a, b, U, f, g, n, n)
  BY <1>8, <1>9, <1>10, <1>11, <1>12, <1>15, <1>16 DEF Carries
<1> QED
  BY <1>5, <1>14, <1>16, <1>17, Rewritten

LEMMA DeletesPlanned ==
  ASSUME NEW a \in Action, NEW b, NEW U \in Seq(Action), NEW f, NEW g, NEW n \in Nat,
         NEW rows, Planned(<<a>> \o U, f, n, rows), Deletes(a, b, f, g, n)
  PROVE  /\ b \in Action /\ Planned(<<b>> \o U, g, n, rows)
         /\ Doomed(<<b>> \o U, g) => Doomed(<<a>> \o U, f) \/ Overtakes(U, f, g)
         /\ ~Doomed(<<a>> \o U, f) /\ ~Doomed(<<b>> \o U, g) => SameOrRenamed(a, b, U, f, g, n)
<1>1. PICK m \in Msgs :
        /\ a.kind = "insert" /\ m < n /\ f[m] \in Row
        /\ b = [kind |-> "insert", rows |-> a.rows \cup {[msg |-> m, row |-> f[m]]}]
        /\ g = [f EXCEPT ![m] = NoRow]
  BY DEF Deletes
<1>2. /\ Channel(f, n) /\ Sane(a, f, n) /\ Known(U, f, n)
      /\ \A k \in 1..Len(U) : Parted(a, U[k])
  BY KnownBefore DEF Planned
<1> DEFINE item == [msg |-> m, row |-> f[m]]
<1>3. item \in Item /\ item.msg = m
  BY <1>1 DEF Item, Msgs
<1> HIDE DEF item
<1>4. b.kind = "insert" /\ b.rows = a.rows \cup {item} /\ a.rows \in SUBSET Item
  BY <1>1 DEF item, Action
<1>5. b \in Action
  BY <1>1, <1>3, <1>4 DEF Action, Kinds
<1>6. \A k \in Msgs : g[k] = IF k = m THEN NoRow ELSE f[k]
  BY <1>1, <1>2 DEF Channel
<1>7. f[m] # NoRow
  BY <1>1, RowStoreAssumption
<1>8. Channel(g, n) /\ n <= n
  <2>1. g \in [Msgs -> Row \cup {NoRow}]
    BY <1>1, <1>2 DEF Channel
  <2> QED
    BY <1>2, <1>6, <2>1 DEF Channel
<1>9. \A k \in Msgs : k < n /\ f[k] = NoRow => g[k] = NoRow
  BY <1>6
<1>10. Sane(b, g, n)
  <2>1. \A i \in b.rows : i.msg \in Msgs /\ i.msg < n
    BY <1>1, <1>2, <1>3, <1>4 DEF Sane, Msgs
  <2>2. \A i \in b.rows : g[i.msg] = NoRow
    BY <1>1, <1>2, <1>3, <1>4, <1>6 DEF Sane
  <2> QED
    BY <1>4, <1>5, <2>1, <2>2 DEF Sane
<1>11. ASSUME NEW k \in 1..Len(U) PROVE Parted(b, U[k])
  <2>1. U[k].kind = "insert" => \A i \in U[k].rows : f[i.msg] = NoRow
    BY <1>2 DEF Known, Sane
  <2> QED
    BY <1>1, <1>2, <1>3, <1>4, <1>7, <2>1 DEF Parted
<1>12. ~Lame(a, f) /\ ~Lame(b, g)
  BY <1>1, <1>4 DEF Lame
<1>18. Touched(U, Len(U), m) <=> Overtakes(U, f, g)
  BY <1>1, <1>6, <1>7 DEF Overtakes
<1>13. ~Touched(U, Len(U), m) /\ Doomed(U, g) => Doomed(U, f)
  <2>1. ASSUME NEW k \in 1..Len(U), Lame(U[k], g), ~Touched(U, Len(U), m) PROVE Lame(U[k], f)
    <3>1. ~Undoes(U[k], m)
      BY <2>1 DEF Touched
    <3> QED
      BY <1>2, <1>6, <2>1, <3>1 DEF Lame, Known, Sane, Undoes
  <2> QED
    BY <2>1 DEF Doomed
<1>14. Doomed(<<b>> \o U, g) => Doomed(<<a>> \o U, f) \/ Overtakes(U, f, g)
  BY <1>5, <1>12, <1>13, <1>18, DoomedBefore
<1>15. Opens(b, U)
  BY <1>4 DEF Opens
<1>16. ASSUME ~Doomed(<<b>> \o U, g) PROVE SameOrRenamed(a, b, U, f, g, n)
  <2>1. ASSUME NEW k \in 1..Len(U), Undoes(U[k], m) PROVE FALSE
    <3>1. Lame(U[k], g)
      BY <1>6, <2>1 DEF Lame, Undoes
    <3>2. Doomed(U, g)
      BY <3>1 DEF Doomed
    <3> QED
      BY <1>5, <1>16, <3>2, DoomedBefore
  <2>2. ~Touched(U, Len(U), m)
    BY <2>1 DEF Touched
  <2> QED
    BY <1>2, <1>18, <2>2, DeletesKeeps DEF SameOrRenamed
<1>17. Carries(a, b, U, f, g, n, n)
  BY <1>8, <1>9, <1>10, <1>11, <1>12, <1>15, <1>16 DEF Carries
<1> QED
  BY <1>5, <1>14, <1>16, <1>17, Rewritten

LEMMA ReinsertsPlanned ==
  ASSUME NEW a \in Action, NEW b, NEW U \in Seq(Action), NEW f, NEW g, NEW n \in Nat,
         NEW rows, Planned(<<a>> \o U, f, n, rows), Reinserts(a, b, f, g, n)
  PROVE  /\ b \in Action /\ Planned(<<b>> \o U, g, n + 1, rows)
         /\ Doomed(<<b>> \o U, g) => Doomed(<<a>> \o U, f)
         /\ ~Doomed(<<a>> \o U, f) /\ ~Doomed(<<b>> \o U, g) => SameOrRenamed(a, b, U, f, g, n)
<1>1. PICK i \in a.rows :
        /\ a.kind = "insert" /\ n \in Msgs
        /\ b = [kind |-> "insert", rows |-> a.rows \ {i}]
        /\ g = [f EXCEPT ![n] = i.row]
  BY DEF Reinserts
<1>2. /\ Channel(f, n) /\ Sane(a, f, n) /\ Known(<<a>> \o U, f, n) /\ Known(U, f, n)
      /\ \A k \in 1..Len(U) : Parted(a, U[k])
  BY KnownBefore DEF Planned
<1>3. i \in Item /\ i.row \in Row
  BY <1>1 DEF Item, Action
<1>4. b.kind = "insert" /\ b.rows = a.rows \ {i} /\ a.rows \in SUBSET Item
  BY <1>1 DEF Action
<1>5. b \in Action
  BY <1>1, <1>4 DEF Action, Kinds
<1>6. \A m \in Msgs : g[m] = IF m = n THEN i.row ELSE f[m]
  BY <1>1, <1>2 DEF Channel
<1>7. f[n] = NoRow
  BY <1>1, <1>2 DEF Channel
<1>8. Channel(g, n + 1) /\ n <= n + 1
  <2>1. g \in [Msgs -> Row \cup {NoRow}]
    BY <1>1, <1>2, <1>3 DEF Channel
  <2>2. \A m \in Msgs : m >= n + 1 => m >= n /\ m # n
    BY DEF Msgs
  <2> QED
    BY <1>2, <1>6, <2>1, <2>2 DEF Channel
<1>9. \A m \in Msgs : m < n /\ f[m] = NoRow => g[m] = NoRow
  BY <1>6
<1>10. Sane(b, g, n + 1)
  <2>1. \A h \in b.rows : h.msg \in Msgs /\ h.msg < n + 1
    BY <1>2, <1>4 DEF Sane, Msgs
  <2>2. \A h \in b.rows : h.msg \in Msgs /\ h.msg # n /\ f[h.msg] = NoRow
    BY <1>1, <1>2, <1>4 DEF Sane, Msgs
  <2>3. \A h \in b.rows : g[h.msg] = NoRow
    BY <1>6, <2>2
  <2> QED
    BY <1>4, <1>5, <2>1, <2>3 DEF Sane
<1>11. \A k \in 1..Len(U) : Parted(b, U[k])
  BY <1>1, <1>2, <1>4 DEF Parted
<1>12. ~Lame(a, f) /\ ~Lame(b, g)
  BY <1>1, <1>4 DEF Lame
<1>13. Doomed(U, g) => Doomed(U, f)
  <2>1. ASSUME NEW k \in 1..Len(U), Lame(U[k], g) PROVE Lame(U[k], f)
    <3>1. \A h \in U[k].rows : h.msg \in Msgs /\ h.msg # n
      BY <1>2 DEF Known, Sane, Msgs
    <3> QED
      BY <1>6, <2>1, <3>1 DEF Lame
  <2> QED
    BY <2>1 DEF Doomed
<1>14. Doomed(<<b>> \o U, g) => Doomed(<<a>> \o U, f)
  BY <1>5, <1>12, <1>13, DoomedBefore
<1>15. Opens(b, U)
  BY <1>4 DEF Opens
<1>16. ASSUME ~Doomed(<<a>> \o U, f) PROVE SameOrRenamed(a, b, U, f, g, n)
  <2>1. PICK h \in a.rows, new \in Item :
           /\ new.row = h.row /\ new.msg = n
           /\ Renames(a, b, U, f, g, h, new)
    BY <1>2, <1>16, ReinsertsRenames
  <2>2. h \in Item
    BY <1>4
  <2> QED
    BY <2>1, <2>2 DEF SameOrRenamed
<1>17. n + 1 \in Nat
  OBVIOUS
<1>18. Carries(a, b, U, f, g, n, n + 1)
  BY <1>8, <1>9, <1>10, <1>11, <1>12, <1>15, <1>16 DEF Carries
<1> QED
  BY <1>5, <1>14, <1>16, <1>17, <1>18, Rewritten

LEMMA ReeditsPlanned ==
  ASSUME NEW a \in Action, NEW b, NEW U \in Seq(Action), NEW f, NEW g, NEW n \in Nat,
         NEW rows, Planned(<<a>> \o U, f, n, rows), Reedits(a, b, f, g)
  PROVE  /\ b \in Action /\ Planned(<<b>> \o U, g, n, rows)
         /\ Doomed(<<b>> \o U, g) => Doomed(<<a>> \o U, f)
         /\ ~Doomed(<<a>> \o U, f) /\ ~Doomed(<<b>> \o U, g) => SameOrRenamed(a, b, U, f, g, n)
<1>1. PICK i \in a.rows :
        /\ a.kind = "replace" /\ f[i.msg] # NoRow
        /\ b = [kind |-> "replace", rows |-> a.rows \ {i}]
        /\ g = [f EXCEPT ![i.msg] = i.row]
  BY DEF Reedits
<1>2. Channel(f, n) /\ Sane(a, f, n) /\ Known(U, f, n)
  BY KnownBefore DEF Planned
<1>3. i \in Item /\ i.row \in Row /\ i.msg \in Msgs /\ i.msg < n
  BY <1>1, <1>2 DEF Item, Action, Sane
<1>4. b.kind = "replace" /\ b.rows = a.rows \ {i} /\ a.rows \in SUBSET Item
  BY <1>1 DEF Action
<1>5. b \in Action
  BY <1>1, <1>4 DEF Action, Kinds
<1>6. \A m \in Msgs : g[m] = IF m = i.msg THEN i.row ELSE f[m]
  BY <1>1, <1>2, <1>3 DEF Channel
<1>7. i.row # NoRow
  BY <1>3, RowStoreAssumption
<1>8. Channel(g, n) /\ n <= n
  <2>1. g \in [Msgs -> Row \cup {NoRow}]
    BY <1>1, <1>2, <1>3 DEF Channel
  <2>2. \A m \in Msgs : m >= n => m # i.msg
    BY <1>3 DEF Msgs
  <2> QED
    BY <1>2, <1>6, <2>1, <2>2 DEF Channel
<1>9. \A m \in Msgs : m < n /\ f[m] = NoRow => g[m] = NoRow
  BY <1>1, <1>6
<1>10. Sane(b, g, n)
  <2>1. Apart(b.rows)
    BY <1>1, <1>2, <1>4 DEF Sane, Apart
  <2>2. \A h \in b.rows : h.msg \in Msgs /\ h.msg < n
    BY <1>2, <1>4 DEF Sane
  <2> QED
    BY <1>4, <1>5, <2>1, <2>2 DEF Sane
<1>11. \A k \in 1..Len(U) : Parted(b, U[k])
  BY <1>4 DEF Parted
<1>12. Lame(a, f) <=> Lame(b, g)
  <2>1. \A h \in b.rows : h \in a.rows /\ h.msg \in Msgs /\ h.msg # i.msg /\ g[h.msg] = f[h.msg]
    BY <1>1, <1>2, <1>4, <1>6 DEF Sane, Apart
  <2>2. \A h \in a.rows : f[h.msg] = NoRow => h \in b.rows
    BY <1>1, <1>4
  <2>3. a.kind # "insert" /\ b.kind # "insert"
    BY <1>1, <1>4
  <2> QED
    BY <2>1, <2>2, <2>3 DEF Lame
<1>13. Doomed(U, g) => Doomed(U, f)
  <2>1. ASSUME NEW k \in 1..Len(U), Lame(U[k], g) PROVE Lame(U[k], f)
    BY <1>2, <1>6, <1>7, <2>1 DEF Lame, Known, Sane
  <2> QED
    BY <2>1 DEF Doomed
<1>14. Doomed(<<b>> \o U, g) => Doomed(<<a>> \o U, f)
  BY <1>5, <1>12, <1>13, DoomedBefore
<1>15. Opens(b, U)
  BY <1>4 DEF Opens
<1>16. SameOrRenamed(a, b, U, f, g, n)
  BY <1>2, ReeditsKeeps DEF SameOrRenamed
<1>17. Carries(a, b, U, f, g, n, n)
  BY <1>8, <1>9, <1>10, <1>11, <1>12, <1>15, <1>16 DEF Carries
<1> QED
  BY <1>5, <1>14, <1>16, <1>17, Rewritten

LEMMA RemovesPlanned ==
  ASSUME NEW a \in Action, NEW b, NEW U \in Seq(Action), NEW f, NEW g, NEW n \in Nat,
         NEW rows, Planned(<<a>> \o U, f, n, rows), Removes(a, b, f, g)
  PROVE  /\ b \in Action /\ Planned(<<b>> \o U, g, n, rows)
         /\ Doomed(<<b>> \o U, g) => Doomed(<<a>> \o U, f)
         /\ ~Doomed(<<a>> \o U, f) /\ ~Doomed(<<b>> \o U, g) => SameOrRenamed(a, b, U, f, g, n)
<1>1. PICK i \in a.rows :
        /\ a.kind = "delete" /\ f[i.msg] # NoRow
        /\ b = [kind |-> "delete", rows |-> a.rows \ {i}]
        /\ g = [f EXCEPT ![i.msg] = NoRow]
  BY DEF Removes
<1>2. Channel(f, n) /\ Sane(a, f, n) /\ Known(U, f, n)
  BY KnownBefore DEF Planned
<1>3. i \in Item /\ i.msg \in Msgs /\ i.msg < n
  BY <1>1, <1>2 DEF Action, Sane
<1>4. b.kind = "delete" /\ b.rows = a.rows \ {i} /\ a.rows \in SUBSET Item
  BY <1>1 DEF Action
<1>5. b \in Action
  BY <1>1, <1>4 DEF Action, Kinds
<1>6. \A m \in Msgs : g[m] = IF m = i.msg THEN NoRow ELSE f[m]
  BY <1>1, <1>2, <1>3 DEF Channel
<1>8. Channel(g, n) /\ n <= n
  <2>1. g \in [Msgs -> Row \cup {NoRow}]
    BY <1>1, <1>2 DEF Channel
  <2> QED
    BY <1>2, <1>6, <2>1 DEF Channel
<1>9. \A m \in Msgs : m < n /\ f[m] = NoRow => g[m] = NoRow
  BY <1>6
<1>10. Sane(b, g, n)
  <2>1. Apart(b.rows)
    BY <1>1, <1>2, <1>4 DEF Sane, Apart
  <2>2. \A h \in b.rows : h.msg \in Msgs /\ h.msg < n
    BY <1>2, <1>4 DEF Sane
  <2> QED
    BY <1>4, <1>5, <2>1, <2>2 DEF Sane
<1>11. \A k \in 1..Len(U) : Parted(b, U[k])
  BY <1>4 DEF Parted
<1>12. Lame(a, f) <=> Lame(b, g)
  <2>1. \A h \in b.rows : h \in a.rows /\ h.msg \in Msgs /\ h.msg # i.msg /\ g[h.msg] = f[h.msg]
    BY <1>1, <1>2, <1>4, <1>6 DEF Sane, Apart
  <2>2. \A h \in a.rows : f[h.msg] = NoRow => h \in b.rows
    BY <1>1, <1>4
  <2>3. a.kind # "insert" /\ b.kind # "insert"
    BY <1>1, <1>4
  <2> QED
    BY <2>1, <2>2, <2>3 DEF Lame
<1>13. ~Touched(U, Len(U), i.msg) /\ Doomed(U, g) => Doomed(U, f)
  <2>1. ASSUME NEW k \in 1..Len(U), Lame(U[k], g), ~Touched(U, Len(U), i.msg) PROVE Lame(U[k], f)
    <3>1. ~Undoes(U[k], i.msg)
      BY <2>1 DEF Touched
    <3> QED
      BY <1>2, <1>6, <2>1, <3>1 DEF Lame, Known, Sane, Undoes
  <2> QED
    BY <2>1 DEF Doomed
<1>14. ASSUME ~Doomed(<<a>> \o U, f) PROVE ~Doomed(<<b>> \o U, g)
  <2>1. Opens(a, U)
    BY <1>14, OrderedBefore DEF Planned
  <2>2. ~Touched(U, Len(U), i.msg)
    BY <1>1, <2>1 DEF Opens
  <2> QED
    BY <1>5, <1>12, <1>13, <1>14, <2>2, DoomedBefore
<1>15. Opens(a, U) => Opens(b, U)
  BY <1>1, <1>4 DEF Opens
<1>16. SameOrRenamed(a, b, U, f, g, n)
  BY <1>2, RemovesKeeps DEF SameOrRenamed
<1>17. Carries(a, b, U, f, g, n, n)
  BY <1>8, <1>9, <1>10, <1>11, <1>12, <1>15, <1>16 DEF Carries
<1> QED
  BY <1>5, <1>14, <1>16, <1>17, Rewritten

\* An action with no rows, at the beginning of a call or at its end, changes nothing.
LEMMA EmptyPlanned ==
  ASSUME NEW a \in Action, a.rows = {}, NEW U \in Seq(Action), NEW f, NEW n, NEW rows
  PROVE  /\ Planned(<<a>> \o U, f, n, rows) <=> Planned(U, f, n, rows)
         /\ Doomed(<<a>> \o U, f) <=> Doomed(U, f)
         /\ \A j \in 0..Len(U) : Table(<<a>> \o U, j + 1, f) = Table(U, j, f)
<1>1. Doomed(<<a>> \o U, f) <=> Doomed(U, f)
  BY DoomedBefore DEF Lame
<1>2. ASSUME NEW j \in 0..Len(U)
      PROVE  Table(<<a>> \o U, j + 1, f) = Table(U, j, f)
  <2>1. \A x : x \in Table(<<a>> \o U, j + 1, f) <=> InTable(a, U, j, f, x)
    BY TableBefore
  <2>2. \A x : InTable(a, U, j, f, x) <=> x \in Table(U, j, f)
    BY DEF InTable, Table, LeftAlone, BroughtBack, Undoes
  <2> QED
    BY <2>1, <2>2
<1>3. Known(<<a>> \o U, f, n) <=> Known(U, f, n)
  <2>1. Sane(a, f, n) /\ \A k \in 1..Len(U) : Parted(a, U[k])
    BY DEF Sane, Parted, Apart
  <2> QED
    BY <2>1, KnownBefore
<1>4. Ordered(<<a>> \o U) <=> Ordered(U)
  BY OrderedBefore DEF Opens
<1>5. Restores(<<a>> \o U, f, rows) <=> Restores(U, f, rows)
  <2>1. Len(<<a>> \o U) = Len(U) + 1 /\ Len(U) \in 0..Len(U)
    BY PutBefore
  <2>2. Table(<<a>> \o U, Len(U) + 1, f) = Table(U, Len(U), f)
    BY <1>2, <2>1
  <2> QED
    BY <2>1, <2>2 DEF Restores
<1> QED
  BY <1>1, <1>2, <1>3, <1>4, <1>5 DEF Planned

-----------------------------------------------------------------------------
(* Rollback: the actions that are pending in a state.                       *)

Msg(items) == {i.msg : i \in items}
Written(c) == Msg(c.done \cup c.cur)

\* What a call that has come this far would have to be undone with
Partial(c) ==
  [kind |-> IF c.kind = "insert" THEN "delete" ELSE IF c.kind = "delete" THEN "insert" ELSE "replace",
   rows |-> IF c.kind = "insert" THEN c.done \cup c.cur ELSE {o \in c.old : o.msg \in Written(c)}]
Remaining(c) == [kind |-> c.kind, rows |-> c.todo]

Engine(p) == pc[p] \in {"check", "write", "index"}
Newest(p) == IF Undoing(p) THEN Remaining(call[p]) ELSE Partial(call[p])
Plan(p) == IF Engine(p) THEN <<Newest(p)>> \o undo[p] ELSE undo[p]

\* A call of an operation: its rows are those it found, and the table still holds the
\* ones it has not come to.
Forward(c, f) ==
  /\ c.kind = "insert" => c.done = {} /\ (c.cur # {} => c.todo = {}) /\ \A i, j \in c.todo : i = j
  /\ c.kind # "insert" =>
       /\ Apart(c.old) /\ Apart(c.todo)
       /\ Msg(c.old) = Msg(c.todo) \cup Written(c)
       /\ \A i \in c.todo :
            /\ i.msg \in Msgs /\ i.msg \notin Written(c)
            /\ f[i.msg] # NoRow /\ [msg |-> i.msg, row |-> f[i.msg]] \in c.old

Carried(p) ==
  Engine(p) =>
    /\ pc[p] # "index" => call[p].cur = {}
    /\ ~Undoing(p) => Forward(call[p], channel)

RolledBack(p) ==
  /\ Carried(p)
  /\ Planned(Plan(p), channel, nextMsg, base[p])
  /\ Doomed(Plan(p), channel) => "deletedOwn" \in incidents

\* Where a transaction has nothing to undo, and where it is not undoing
Placed ==
  /\ Channel(channel, nextMsg)
  /\ \A p \in Txns :
       /\ pc[p] \in {"idle", "wait"} => undo[p] = <<>>
       /\ pc[p] \in {"idle", "wait", "next", "announce"} => ~Undoing(p)
       /\ pc[p] \in {"get", "del"} /\ Undoing(p) => undo[p] = <<>>

\* No mishap that the rollback is not made for
Smooth ==
  /\ Direct = {}
  /\ ~Spoiled({"expired", "halfcall", "swallowed"})
  /\ faults = 0 \/ ~Spoiled({"halfdone"})
  /\ MissingDeleteThrows \/ ~Spoiled({"deletedOwn"})

RollbackInv == Smooth => \A p \in Txns : Working(p) => RolledBack(p)

LEMMA UndoIsPlan ==
  ASSUME TypeOK, NEW p \in Writers
  PROVE  undo[p] \in Seq(Action)
<1>1. Undo \subseteq Action
  BY DEF Undo, Action
<1>2. undo[p] \in Seq(Undo)
  BY DEF TypeOK
<1> QED
  BY <1>1, <1>2

LEMMA NewestIsAction ==
  ASSUME NEW c \in Call
  PROVE  /\ Partial(c) \in Action /\ Remaining(c) \in Action
         /\ Partial(c).rows = IF c.kind = "insert" THEN c.done \cup c.cur
                              ELSE {o \in c.old : o.msg \in Written(c)}
         /\ Partial(c).kind = IF c.kind = "insert" THEN "delete"
                              ELSE IF c.kind = "delete" THEN "insert" ELSE "replace"
BY DEF Partial, Remaining, Action, Call, Kinds

\* What another writer's step leaves of a transaction
LEMMA OthersStay ==
  ASSUME TypeOK, NEW p \in Writers,
         Start(p) \/ Step(p) \/ StorageFails(p) \/ AnswerLost(p) \/ Crash(p)
  PROVE  /\ \A q \in Writers \ {p} : /\ undo'[q] = undo[q] /\ verdict'[q] = verdict[q]
                                     /\ base'[q] = base[q]
         /\ faults \in 0..faults'
         /\ ~Working(p) => UNCHANGED store
<1> USE DEF TypeOK, Goto, Record, local, history, Working
<1>1. ASSUME Fail(p)
      PROVE  \A q \in Writers \ {p} : verdict'[q] = verdict[q]
  BY <1>1 DEF Fail
<1>2. CASE Start(p) \/ Acquire(p) \/ GiveUp(p) \/ ReadLock(p) \/ DeleteLock(p)
             \/ LastOperation(p) \/ Announced(p) \/ Crash(p)
  BY <1>2 DEF Start, Acquire, GiveUp, ReadLock, DeleteLock, LastOperation, Announced, Crash
<1>3. CASE Operate(p)
  <2>1. ASSUME NEW kind, NEW todo, NEW old, Enter(p, kind, todo, old)
        PROVE  UNCHANGED <<undo, verdict>>
    BY <2>1 DEF Enter
  <2>2. ASSUME Reject(p)
        PROVE  UNCHANGED undo /\ \A q \in Writers \ {p} : verdict'[q] = verdict[q]
    BY <1>1, <2>2 DEF Reject
  <2>3. UNCHANGED undo /\ \A q \in Writers \ {p} : verdict'[q] = verdict[q]
    BY <1>3, <2>1, <2>2 DEF Operate, DoInsert, DoUpsert, DoUpdate, DoDelete
  <2> QED
    BY <1>3, <2>3 DEF Operate
<1>4. CASE Check(p)
  BY <1>1, <1>4 DEF Check
<1>5. CASE Write(p)
  BY <1>1, <1>5 DEF Write
<1>6. CASE Index(p)
  BY <1>6 DEF Index, Return
<1>7. CASE RollBack(p)
  BY <1>7 DEF RollBack
<1>8. CASE Announce(p)
  BY <1>8 DEF Announce
<1>9. CASE StorageFails(p) \/ AnswerLost(p)
  BY <1>1, <1>9 DEF StorageFails, AnswerLost
<1> QED
  BY <1>2, <1>3, <1>4, <1>5, <1>6, <1>7, <1>8, <1>9 DEF Step

LEMMA StoredChannel ==
  ASSUME StoreTypeOK, Channel(channel, nextMsg), NEW item \in Item, NEW kind \in Kinds,
         Stored(kind, item)
  PROVE  Channel(channel', nextMsg')
<1>1. StoreTypeOK' /\ nextMsg \in Nat
  BY StoredType, RowStoreAssumption DEF StoreTypeOK
<1>2. \A m \in Msgs : m >= nextMsg' => channel'[m] = NoRow
  <2>1. CASE kind = "insert"
    <3>1. /\ channel' = [channel EXCEPT ![nextMsg] = item.row]
          /\ nextMsg' = nextMsg + 1
      BY <2>1 DEF Stored, SendMessage
    <3>2. ASSUME NEW m \in Msgs, m >= nextMsg' PROVE m >= nextMsg /\ m # nextMsg
      BY <1>1, <3>1, <3>2 DEF Msgs
    <3> QED
      BY <3>1, <3>2 DEF Channel
  <2>2. CASE kind = "replace"
    <3>1. /\ channel' = [channel EXCEPT ![item.msg] = item.row]
          /\ nextMsg' = nextMsg /\ channel[item.msg] # NoRow
      BY <2>2 DEF Stored, EditMessage, Live
    <3> QED
      BY <3>1 DEF Channel
  <2>3. CASE kind = "delete"
    <3>1. /\ channel' = [channel EXCEPT ![item.msg] = NoRow]
          /\ nextMsg' = nextMsg
      BY <2>3 DEF Stored, DeleteMessage
    <3> QED
      BY <3>1 DEF Channel
  <2> QED
    BY <2>1, <2>2, <2>3 DEF Kinds
<1> QED
  BY <1>1, <1>2 DEF Channel, StoreTypeOK

LEMMA PlacedStep ==
  ASSUME TypeOK, Placed, NEW p \in Writers,
         Start(p) \/ Step(p) \/ StorageFails(p) \/ AnswerLost(p) \/ Crash(p)
  PROVE  Placed'
<1> USE DEF TypeOK, Goto, Record, local, history
<1> DEFINE Good(q) == /\ pc[q] \in {"idle", "wait"} => undo[q] = <<>>
                      /\ pc[q] \in {"idle", "wait", "next", "announce"} => ~Undoing(q)
                      /\ pc[q] \in {"get", "del"} /\ Undoing(q) => undo[q] = <<>>
<1>1. Channel(channel, nextMsg)'
  <2>1. CASE UNCHANGED <<channel, nextMsg>>
    BY <2>1 DEF Placed, Channel
  <2>2. CASE Write(p) \/ AnswerLost(p)
    <3>1. /\ pc[p] = "write"
          /\ UNCHANGED <<channel, nextMsg>> \/ Stored(call[p].kind, First(call[p].todo))
      BY <2>2 DEF Write, AnswerLost, store
    <3>2. call[p].kind \in Kinds /\ First(call[p].todo) \in Item
      BY <3>1, NextItem DEF Call
    <3> QED
      BY <2>1, <3>1, <3>2, StoredChannel DEF Placed
  <2>3. CASE Quiet(p) \/ Index(p) \/ Crash(p)
    BY <2>1, <2>3, QuietFrame DEF store, Index, Crash
  <2> QED
    BY <2>2, <2>3 DEF Quiet, Step
<1>2. ASSUME NEW q \in Txns, q # p PROVE Good(q)'
  <2>1. pc'[q] = pc[q] /\ undo'[q] = undo[q] /\ verdict'[q] = verdict[q]
    BY <1>2, StepFrame, OthersStay DEF Writers
  <2> QED
    BY <2>1 DEF Placed, Undoing
<1>3. ASSUME p \in Txns PROVE Good(p)'
  <2>1. Good(p)
    BY <1>3 DEF Placed
  <2>2. ASSUME Fail(p) PROVE pc'[p] = "undo"
    BY <1>3, <2>2 DEF Fail
  <2>3. CASE Start(p) \/ Acquire(p) \/ GiveUp(p) \/ ReadLock(p) \/ DeleteLock(p)
             \/ LastOperation(p) \/ Announced(p) \/ Crash(p)
    BY <1>3, <2>1, <2>3 DEF Start, Acquire, GiveUp, ReadLock, DeleteLock, LastOperation, Announced,
       Crash, Undoing
  <2>4. CASE Operate(p)
    <3>1. ASSUME NEW kind, NEW todo, NEW old, Enter(p, kind, todo, old)
          PROVE  Good(p)'
      <4>1. UNCHANGED <<undo, verdict>> /\ (pc'[p] = pc[p] \/ pc'[p] \in {"write", "check"})
        BY <3>1 DEF Enter
      <4> QED
        BY <2>1, <4>1 DEF Undoing
    <3>2. Reject(p) => Good(p)'
      BY <2>2 DEF Reject
    <3> QED
      BY <2>4, <3>1, <3>2 DEF Operate, DoInsert, DoUpsert, DoUpdate, DoDelete
  <2>5. CASE Check(p)
    <3>1. pc'[p] \in {"undo", "write"}
      BY <2>2, <2>5 DEF Check
    <3> QED
      BY <3>1
  <2>6. CASE Write(p)
    <3>1. pc'[p] \in {"undo", "index"}
      BY <2>2, <2>6 DEF Write
    <3> QED
      BY <3>1
  <2>7. CASE Index(p)
    <3>1. pc'[p] \in {"undo", "check", "write"} \/ (pc'[p] = "next" /\ ~Undoing(p) /\ UNCHANGED verdict)
      BY <1>3, <2>7 DEF Index, Return
    <3> QED
      BY <3>1 DEF Undoing
  <2>8. CASE RollBack(p)
    <3>1. pc'[p] \in {"check", "write"} \/ (pc'[p] = "get" /\ undo'[p] = <<>>)
      BY <2>8 DEF RollBack
    <3> QED
      BY <3>1
  <2>9. CASE Announce(p)
    <3>1. /\ pc[p] = "announce"
          /\ \/ pc'[p] = pc[p] /\ UNCHANGED <<undo, verdict>>
             \/ pc'[p] = "get" /\ verdict'[p] = "unannounced"
      BY <1>3, <2>9 DEF Announce
    <3> QED
      BY <2>1, <3>1 DEF Undoing
  <2>10. CASE StorageFails(p) \/ AnswerLost(p)
    <3>1. pc'[p] = "undo"
      BY <2>2, <2>10 DEF StorageFails, AnswerLost
    <3> QED
      BY <3>1
  <2> QED
    BY <2>3, <2>4, <2>5, <2>6, <2>7, <2>8, <2>9, <2>10 DEF Step
<1> QED
  BY <1>1, <1>2, <1>3 DEF Placed

LEMMA PlacedInvariant == Spec => []Placed
<1>1. ASSUME Init PROVE Placed
  <2>1. PICK rows \in Seeds : StoreInit(rows)
    BY <1>1 DEF Init
  <2>2. StoreTypeOK
    BY <1>1, InitType DEF TypeOK
  <2>3. Len(rows) \in Nat
    BY TransactionsAssumption, LenProperties
  <2>4. Channel(channel, nextMsg)
    BY <2>1, <2>2, <2>3 DEF Channel, StoreInit, StoreTypeOK, Msgs
  <2> QED
    BY <1>1, <2>4 DEF Placed, Init, Undoing, Writers
<1>2. TypeOK /\ Placed /\ [Next]_vars => Placed'
  <2> SUFFICES ASSUME TypeOK, Placed, [Next]_vars PROVE Placed'
    OBVIOUS
  <2>1. CASE UNCHANGED vars \/ Expire
    BY <2>1 DEF vars, store, local, history, Expire, Placed, Channel, Undoing
  <2> QED
    BY <2>1, PlacedStep DEF Next
<1> QED
  BY <1>1, <1>2, TypeCorrect, PTL DEF Spec

-----------------------------------------------------------------------------
(* Rollback: the steps of the transaction itself.                           *)

\* The plan stays what it is, but for an action of no rows, which is dropped.
Settles(p) ==
  \/ Plan(p)' = Plan(p)
  \/ Engine(p) /\ ~Engine(p)' /\ Newest(p).rows = {} /\ undo'[p] = undo[p]

LEMMA StaysRolledBack ==
  ASSUME NEW p \in Txns, RolledBack(p), Plan(p)' = Plan(p), UNCHANGED <<channel, nextMsg>>,
         base'[p] = base[p], incidents \subseteq incidents', Carried(p)'
  PROVE  RolledBack(p)' /\ Settles(p)
BY DEF RolledBack, Settles

\* A call that has written nothing, or has nothing left to do, is over.
LEMMA CallOver ==
  ASSUME TypeOK, NEW p \in Txns, RolledBack(p), Engine(p), Newest(p).rows = {},
         UNCHANGED <<channel, nextMsg>>, undo'[p] = undo[p], base'[p] = base[p],
         incidents \subseteq incidents', ~Engine(p)'
  PROVE  RolledBack(p)' /\ Settles(p)
<1>1. call[p] \in Call /\ undo[p] \in Seq(Action)
  BY UndoIsPlan DEF TypeOK, Writers
<1>2. Newest(p) \in Action
  BY <1>1, NewestIsAction DEF Newest
<1>3. Plan(p) = <<Newest(p)>> \o undo[p] /\ Plan(p)' = undo[p]
  BY DEF Plan
<1>4. /\ Planned(Plan(p), channel, nextMsg, base[p]) <=> Planned(undo[p], channel, nextMsg, base[p])
      /\ Doomed(Plan(p), channel) <=> Doomed(undo[p], channel)
  BY <1>1, <1>2, <1>3, EmptyPlanned
<1>5. Carried(p)'
  BY DEF Carried
<1> QED
  BY <1>3, <1>4, <1>5 DEF RolledBack, Settles

LEMMA FailRolledBack ==
  ASSUME TypeOK, NEW p \in Txns, RolledBack(p), Smooth', pc[p] \in {"check", "write"}, Fail(p),
         UNCHANGED <<channel, nextMsg, undo, base>>, incidents' = incidents \cup FailIncidents(p)
  PROVE  RolledBack(p)' /\ Settles(p)
<1>1. pc'[p] = "undo" /\ call[p] \in Call
  BY DEF Fail, Goto, TypeOK, Writers
<1>2. ~Undoing(p) /\ call[p].done = {}
  BY DEF Smooth, Spoiled, FailIncidents
<1>3. call[p].cur = {}
  BY DEF RolledBack, Carried, Engine
<1>4. Newest(p).rows = {}
  BY <1>1, <1>2, <1>3, NewestIsAction DEF Newest, Written, Msg
<1>5. Engine(p) /\ ~Engine(p)'
  BY <1>1 DEF Engine
<1> QED
  BY <1>4, <1>5, CallOver

LEMMA CheckRolledBack ==
  ASSUME TypeOK, NEW p \in Txns, RolledBack(p), Smooth', Check(p)
  PROVE  RolledBack(p)' /\ Settles(p)
<1>1. pc[p] = "check" /\ UNCHANGED <<channel, nextMsg, undo, base>>
  BY DEF Check, store
<1>2. CASE Fail(p) /\ Record(FailIncidents(p))
  BY <1>1, <1>2, FailRolledBack DEF Record
<1>3. CASE Goto(p, "write") /\ UNCHANGED <<call, verdict>>
  <2>1. pc'[p] = "write" /\ incidents \subseteq incidents'
    BY <1>3, StepFrame DEF Goto, TypeOK, Writers, Step
  <2>2. Newest(p)' = Newest(p)
    BY <1>3 DEF Newest, Undoing
  <2>3. Plan(p)' = Plan(p)
    BY <1>1, <2>1, <2>2 DEF Plan, Engine
  <2>4. Carried(p)'
    BY <1>1, <1>3, <2>1 DEF RolledBack, Carried, Engine, Undoing
  <2> QED
    BY <1>1, <2>1, <2>3, <2>4, StaysRolledBack
<1> QED
  BY <1>2, <1>3 DEF Check

\* The operations find the rows they are about before they change any.
LEMMA EnterRolledBack ==
  ASSUME TypeOK, NEW p \in Txns, RolledBack(p), pc[p] = "next", ~Undoing(p),
         NEW kind \in Kinds, NEW todo \in SUBSET Item, NEW old \in SUBSET Item,
         Enter(p, kind, todo, old), UNCHANGED <<store, history>>,
         kind = "insert" => \A i, j \in todo : i = j,
         kind # "insert" => /\ Apart(old) /\ Apart(todo) /\ Msg(old) = Msg(todo)
                            /\ \A i \in old : i = ItemOf(i.msg) /\ i.msg \in Live
  PROVE  RolledBack(p)'
<1>1. UNCHANGED <<channel, nextMsg, base, undo, verdict, incidents>>
  BY DEF Enter, store, history
<1>2. CASE todo = {}
  <2>1. UNCHANGED <<pc, call>>
    BY <1>2 DEF Enter
  <2>2. Plan(p)' = Plan(p) /\ Carried(p)'
    BY <1>1, <2>1 DEF RolledBack, Plan, Engine, Newest, Undoing, Carried
  <2> QED
    BY <1>1, <2>2, StaysRolledBack
<1>3. CASE todo # {}
  <2> DEFINE c == [kind |-> kind, todo |-> todo, cur |-> {}, done |-> {}, old |-> old]
  <2>1. /\ call' = [call EXCEPT ![p] = [NoCall EXCEPT !.kind = kind, !.todo = todo, !.old = old]]
        /\ pc' = [pc EXCEPT ![p] = IF kind = "delete" THEN "write" ELSE "check"]
    BY <1>3 DEF Enter, Goto
  <2>2. call'[p] = c
    BY <2>1 DEF TypeOK, NoCall, Writers
  <2>3. /\ c.kind = kind /\ c.todo = todo /\ c.cur = {} /\ c.done = {} /\ c.old = old
        /\ c \in Call
    BY DEF Call
  <2> HIDE DEF c
  <2>4. Engine(p)' /\ pc'[p] # "index" /\ ~Engine(p)
    BY <2>1 DEF Engine, TypeOK, Writers
  <2>5. ~Undoing(p)'
    BY <1>1 DEF Undoing
  <2>6. Written(c) = {}
    BY <2>3 DEF Written, Msg
  <2>7. Forward(c, channel)
    <3>1. kind # "insert" => \A i \in todo : \E o \in old : o.msg = i.msg
      BY DEF Msg
    <3>2. ASSUME kind # "insert", NEW i \in todo
          PROVE  i.msg \in Msgs /\ channel[i.msg] # NoRow /\ [msg |-> i.msg, row |-> channel[i.msg]] \in old
      <4>1. PICK o \in old : o.msg = i.msg
        BY <3>1, <3>2
      <4> QED
        BY <3>2, <4>1 DEF ItemOf, Live
    <3> QED
      BY <2>3, <2>6, <3>2 DEF Forward
  <2>8. Partial(c).rows = {} /\ Partial(c) \in Action
    BY <2>3, <2>6, NewestIsAction
  <2>9. Plan(p)' = <<Partial(c)>> \o undo[p] /\ Plan(p) = undo[p]
    BY <1>1, <2>2, <2>4, <2>5 DEF Plan, Newest
  <2>10. undo[p] \in Seq(Action)
    BY UndoIsPlan DEF Writers
  <2>11. /\ Planned(Plan(p)', channel, nextMsg, base[p])
         /\ Doomed(Plan(p)', channel) => "deletedOwn" \in incidents
    BY <2>8, <2>9, <2>10, EmptyPlanned DEF RolledBack
  <2>12. Carried(p)'
    BY <1>1, <2>2, <2>3, <2>7 DEF Carried
  <2> QED
    BY <1>1, <2>11, <2>12 DEF RolledBack
<1> QED
  BY <1>2, <1>3

\* The rows an operation writes all get one key, or each keeps its own.
KeysGiven(todo, old) ==
  \/ \E k : \A t \in todo : t.row.key = k
  \/ \A o \in old, t \in todo : t.msg = o.msg => t.row.key = o.row.key

Entering(p, kind, todo, old) ==
  /\ Enter(p, kind, todo, old)
  /\ kind = "insert" => \A i, j \in todo : i = j
  /\ kind # "insert" => /\ Apart(old) /\ Apart(todo) /\ Msg(old) = Msg(todo)
                        /\ \A i \in old : i = ItemOf(i.msg) /\ i.msg \in Live
  /\ kind = "replace" => KeysGiven(todo, old)

LEMMA OperateEnters ==
  ASSUME TypeOK, NEW p \in Txns, Operate(p)
  PROVE  \/ Reject(p)
         \/ \E kind \in Kinds, todo \in SUBSET Item, old \in SUBSET Item :
              Entering(p, kind, todo, old)
<1> DEFINE op == Head(agenda[p])
           Goal == \E kind \in Kinds, todo \in SUBSET Item, old \in SUBSET Item :
                     Entering(p, kind, todo, old)
<1>1. pc[p] = "next" /\ agenda[p] # <<>> /\ UNCHANGED <<store, lock, history>>
  BY DEF Operate
<1>2. op \in Op /\ p \in Writers
  BY <1>1, HeadTailProperties DEF TypeOK, Writers
<1>3. \A k : SelectKey(k) \subseteq Live
  BY DEF SelectKey
<1>4. \A msgs : Visible(p, msgs) \subseteq msgs
  BY DEF Visible
<1> HIDE DEF op
<1>6. ASSUME NEW row \in Row, Enter(p, "insert", {[msg |-> 0, row |-> row]}, {})
      PROVE  Goal
  <2> DEFINE todo == {[msg |-> 0, row |-> row]}
  <2>1. todo \in SUBSET Item /\ \A i, j \in todo : i = j
    BY <1>6, RowStoreAssumption DEF Item
  <2>2. "insert" \in Kinds /\ {} \in SUBSET Item
    BY DEF Kinds
  <2> HIDE DEF todo
  <2>3. Enter(p, "insert", todo, {})
    BY <1>6 DEF todo
  <2>4. Entering(p, "insert", todo, {})
    BY <2>1, <2>3 DEF Entering
  <2> QED
    BY <2>1, <2>2, <2>4
<1>7. ASSUME NEW msgs \in SUBSET Live, NEW kind \in {"replace", "delete"}, NEW todo \in SUBSET Item,
             Enter(p, kind, todo, {ItemOf(m) : m \in msgs}),
             LET old == {ItemOf(m) : m \in msgs}
             IN Apart(todo) /\ Msg(old) = Msg(todo) /\ (kind = "replace" => KeysGiven(todo, old))
      PROVE  Goal
  <2> DEFINE old == {ItemOf(m) : m \in msgs}
  <2>1. Apart(old) /\ \A i \in old : i = ItemOf(i.msg) /\ i.msg \in Live
    BY DEF Apart, ItemOf
  <2>2. old \in SUBSET Item
    BY LiveItems DEF TypeOK
  <2>3. kind \in Kinds /\ kind # "insert"
    BY DEF Kinds
  <2> HIDE DEF old
  <2>4. /\ Enter(p, kind, todo, old) /\ Apart(todo) /\ Msg(old) = Msg(todo)
        /\ kind = "replace" => KeysGiven(todo, old)
    BY <1>7 DEF old
  <2>5. Entering(p, kind, todo, old)
    BY <2>1, <2>3, <2>4 DEF Entering
  <2> QED
    BY <2>2, <2>3, <2>5
<1>8. CASE DoInsert(p, op) /\ ~Reject(p)
  <2>1. op.rows \in Seq(Row) /\ op.rows # <<>>
    BY <1>2, <1>8 DEF DoInsert, Op
  <2>2. Head(op.rows) \in Row
    BY <2>1, HeadTailProperties
  <2>3. Enter(p, "insert", {[msg |-> 0, row |-> Head(op.rows)]}, {})
    BY <1>8 DEF DoInsert
  <2> QED
    BY <1>6, <2>2, <2>3
<1>9. CASE DoUpsert(p, op) /\ ~Reject(p)
  <2> DEFINE row == Head(op.rows)
             existing == SelectKey(row.key)
             first == {m \in existing : \A n \in existing : m <= n}
             allowed == IF p \in Txns THEN Visible(p, first) ELSE first
             old == {ItemOf(m) : m \in allowed}
             todo == {[i EXCEPT !.row = row] : i \in old}
  <2>1. op.rows \in Seq(Row) /\ op.rows # <<>>
    BY <1>2, <1>9 DEF DoUpsert, Op
  <2>2. row \in Row
    BY <2>1, HeadTailProperties
  <2>3. \/ Enter(p, "insert", {[msg |-> 0, row |-> row]}, {})
        \/ Enter(p, "replace", todo, IF p \in Txns THEN old ELSE {})
    BY <1>9 DEF DoUpsert
  <2>4. allowed \in SUBSET Live
    BY <1>3, <1>4
  <2> HIDE DEF allowed, row
  <2>5. Apart(todo) /\ Msg(old) = Msg(todo) /\ KeysGiven(todo, old)
    <3>1. Apart(old) /\ \A i \in old : i = ItemOf(i.msg)
      BY DEF Apart, ItemOf
    <3>2. \A i \in old : [i EXCEPT !.row = row].msg = i.msg
      BY <3>1 DEF ItemOf
    <3> HIDE DEF old
    <3>3. ASSUME NEW x \in todo, NEW y \in todo, x.msg = y.msg PROVE x = y
      <4>1. PICK i \in old : x = [i EXCEPT !.row = row]
        OBVIOUS
      <4>2. PICK j \in old : y = [j EXCEPT !.row = row]
        OBVIOUS
      <4>3. i = j
        BY <3>1, <3>2, <3>3, <4>1, <4>2 DEF Apart
      <4> QED
        BY <4>1, <4>2, <4>3
    <3>4. Msg(todo) = Msg(old)
      <4>1. Msg(todo) = {[i EXCEPT !.row = row].msg : i \in old}
        BY DEF Msg
      <4> QED
        BY <3>2, <4>1 DEF Msg
    <3>5. \A t \in todo : t.row = row
      BY <3>1 DEF ItemOf
    <3> QED
      BY <3>3, <3>4, <3>5 DEF Apart, KeysGiven
  <2>6. old \in SUBSET Item
    BY <2>4, LiveItems DEF TypeOK
  <2>7. todo \in SUBSET Item
    BY <2>2, <2>6 DEF Item
  <2> QED
    BY <1>6, <1>7, <2>2, <2>3, <2>4, <2>5, <2>7
<1>10. CASE DoUpdate(p, op) /\ ~Reject(p)
  <2> DEFINE targets == Visible(p, Found(op))
             old == {ItemOf(m) : m \in targets}
             todo == {[i EXCEPT !.row = Patched(@, op.patch)] : i \in old}
  <2>1. Enter(p, "replace", todo, old)
    BY <1>10 DEF DoUpdate
  <2>2. targets \in SUBSET Live
    BY <1>3, <1>4 DEF Found
  <2> HIDE DEF targets
  <2>3. Apart(todo) /\ Msg(old) = Msg(todo) /\ KeysGiven(todo, old)
    <3>1. Apart(old) /\ \A i \in old : i = ItemOf(i.msg)
      BY DEF Apart, ItemOf
    <3>2. \A i \in old : [i EXCEPT !.row = Patched(@, op.patch)].msg = i.msg
      BY <3>1 DEF ItemOf
    <3> HIDE DEF old
    <3>3. ASSUME NEW x \in todo, NEW y \in todo, x.msg = y.msg PROVE x = y
      <4>1. PICK i \in old : x = [i EXCEPT !.row = Patched(@, op.patch)]
        OBVIOUS
      <4>2. PICK j \in old : y = [j EXCEPT !.row = Patched(@, op.patch)]
        OBVIOUS
      <4>3. i = j
        BY <3>1, <3>2, <3>3, <4>1, <4>2 DEF Apart
      <4> QED
        BY <4>1, <4>2, <4>3
    <3>4. Msg(todo) = Msg(old)
      <4>1. Msg(todo) = {[i EXCEPT !.row = Patched(@, op.patch)].msg : i \in old}
        BY DEF Msg
      <4> QED
        BY <3>2, <4>1 DEF Msg
    <3>5. ASSUME NEW t \in todo
          PROVE  \E i \in old : t.msg = i.msg /\ t.row = Patched(i.row, op.patch)
      <4>1. PICK i \in old : t = [i EXCEPT !.row = Patched(@, op.patch)]
        OBVIOUS
      <4> QED
        BY <3>1, <4>1 DEF ItemOf
    <3>6. KeysGiven(todo, old)
      <4> HIDE DEF todo
      <4>1. ASSUME op.patch.key = Keep, NEW o \in old, NEW t \in todo, t.msg = o.msg
            PROVE  t.row.key = o.row.key
        <5>1. PICK i \in old : t.msg = i.msg /\ t.row = Patched(i.row, op.patch)
          BY <3>5
        <5>2. i = o
          BY <3>1, <4>1, <5>1 DEF Apart
        <5> QED
          BY <4>1, <5>1, <5>2 DEF Patched
      <4>2. ASSUME op.patch.key # Keep, NEW t \in todo PROVE t.row.key = op.patch.key
        <5>1. PICK i \in old : t.row = Patched(i.row, op.patch)
          BY <3>5
        <5> QED
          BY <4>2, <5>1 DEF Patched
      <4> QED
        BY <4>1, <4>2 DEF KeysGiven
    <3> QED
      BY <3>3, <3>4, <3>6 DEF Apart
  <2>4. old \in SUBSET Item
    BY <2>2, LiveItems DEF TypeOK
  <2>5. \A row \in Row : Patched(row, op.patch) \in Row
    BY <1>2 DEF Op, Patch, Patched, Row
  <2>6. todo \in SUBSET Item
    BY <2>4, <2>5 DEF Item
  <2> QED
    BY <1>7, <2>1, <2>2, <2>3, <2>6
<1>11. CASE DoDelete(p, op) /\ ~Reject(p)
  <2> DEFINE targets == Visible(p, Found(op))
             old == {ItemOf(m) : m \in targets}
  <2>1. Enter(p, "delete", old, old)
    BY <1>11 DEF DoDelete
  <2>2. targets \in SUBSET Live
    BY <1>3, <1>4 DEF Found
  <2> HIDE DEF targets
  <2>3. Apart(old) /\ Msg(old) = Msg(old)
    BY DEF Apart, ItemOf
  <2>4. old \in SUBSET Item
    BY <2>2, LiveItems DEF TypeOK
  <2> QED
    BY <1>7, <2>1, <2>2, <2>3, <2>4
<1> QED
  BY <1>8, <1>9, <1>10, <1>11 DEF Operate, op

LEMMA OperateRolledBack ==
  ASSUME TypeOK, Placed, NEW p \in Txns, RolledBack(p), Operate(p)
  PROVE  RolledBack(p)'
<1>1. pc[p] = "next" /\ ~Undoing(p) /\ UNCHANGED <<store, history>>
  BY DEF Operate, Placed
<1>2. CASE Reject(p)
  <2>1. pc'[p] = "undo" /\ UNCHANGED undo
    BY <1>2 DEF Reject, Fail, Goto, TypeOK, Writers
  <2>2. Plan(p)' = Plan(p) /\ Carried(p)'
    BY <1>1, <2>1 DEF Plan, Engine, Carried
  <2> QED
    BY <1>1, <2>2, StaysRolledBack DEF store, history
<1>3. CASE ~Reject(p)
  <2>1. PICK kind \in Kinds, todo \in SUBSET Item, old \in SUBSET Item :
          Entering(p, kind, todo, old)
    BY <1>3, OperateEnters
  <2> QED
    BY <1>1, <2>1, EnterRolledBack DEF Entering
<1> QED
  BY <1>2, <1>3

\* A write that goes through, as the call sees it.
LEMMA WriteCall ==
  ASSUME TypeOK, NEW p \in Writers, Write(p),
         ~MissingMessage(call[p].kind, First(call[p].todo).msg)
  PROVE  LET c == call[p]
             i == First(c.todo)
             m == IF c.kind = "insert" THEN nextMsg ELSE i.msg
             d == call'[p]
         IN  /\ pc[p] = "write" /\ pc'[p] = "index"
             /\ c \in Call /\ d \in Call /\ i \in c.todo /\ i \in Item /\ m \in Msgs
             /\ Stored(c.kind, i)
             /\ d.kind = c.kind /\ d.todo = c.todo \ {i} /\ d.done = c.done /\ d.old = c.old
             /\ d.cur = {[msg |-> m, row |-> i.row]}
             /\ UNCHANGED <<undo, verdict, base>>
             /\ incidents' = incidents \cup WriteIncidents(p, m)
<1> DEFINE c == call[p]
           i == First(c.todo)
           m == IF c.kind = "insert" THEN nextMsg ELSE i.msg
           new == [i EXCEPT !.msg = m]
<1>1. pc[p] = "write" /\ c \in Call /\ i \in c.todo /\ i \in Item
  BY NextItem DEF Write
<1>2. /\ Stored(c.kind, i)
      /\ call' = [call EXCEPT ![p].todo = @ \ {i}, ![p].cur = {new}]
      /\ pc' = [pc EXCEPT ![p] = "index"]
      /\ incidents' = incidents \cup WriteIncidents(p, m)
      /\ UNCHANGED <<undo, verdict, base>>
  BY DEF Write, Record, Goto
<1>3. m \in Msgs
  BY <1>1, <1>2, StoredType DEF TypeOK, Call
<1>4. new = [msg |-> m, row |-> i.row]
  BY <1>1 DEF Item
<1>5. new \in Item
  BY <1>1, <1>3, <1>4 DEF Item, Msgs
<1> HIDE DEF new, m, i
<1>6. call'[p] = [c EXCEPT !.todo = @ \ {i}, !.cur = {new}]
  BY <1>2 DEF TypeOK
<1>7. /\ call'[p].kind = c.kind /\ call'[p].todo = c.todo \ {i} /\ call'[p].done = c.done
      /\ call'[p].old = c.old /\ call'[p].cur = {new}
  BY <1>1, <1>6 DEF Call
<1>8. call'[p] \in Call
  <2>1. c.todo \ {i} \in SUBSET Item /\ {new} \in SUBSET Item
    BY <1>1, <1>5 DEF Call
  <2> QED
    BY <1>1, <1>6, <2>1 DEF Call
<1>9. pc'[p] = "index"
  BY <1>2 DEF TypeOK
<1> QED
  BY <1>1, <1>2, <1>3, <1>4, <1>7, <1>8, <1>9 DEF i, m

\* What an engine write does to the plan
Moved(p) ==
  ~Doomed(Plan(p), channel) /\ ~Doomed(Plan(p)', channel') =>
    SameOrRenamed(Newest(p), Newest(p)', undo[p], channel, channel', nextMsg)

\* An operation's write makes the action that would undo it longer.
LEMMA WriteForward ==
  ASSUME TypeOK, NEW p \in Txns, RolledBack(p), ~Undoing(p), Write(p),
         ~MissingMessage(call[p].kind, First(call[p].todo).msg)
  PROVE  RolledBack(p)' /\ Moved(p)
<1> DEFINE c == call[p]
           i == First(c.todo)
           m == IF c.kind = "insert" THEN nextMsg ELSE i.msg
           d == call'[p]
           U == undo[p]
           a == Partial(c)
           b == Partial(d)
<1>1. /\ pc[p] = "write" /\ pc'[p] = "index"
      /\ c \in Call /\ d \in Call /\ i \in c.todo /\ i \in Item /\ m \in Msgs
      /\ Stored(c.kind, i)
      /\ d.kind = c.kind /\ d.todo = c.todo \ {i} /\ d.done = c.done /\ d.old = c.old
      /\ d.cur = {[msg |-> m, row |-> i.row]}
      /\ UNCHANGED <<undo, verdict, base>>
      /\ incidents' = incidents \cup WriteIncidents(p, m)
  BY WriteCall DEF Writers
<1>2. /\ Plan(p) = <<a>> \o U /\ Plan(p)' = <<b>> \o U
      /\ Newest(p) = a /\ Newest(p)' = b
      /\ U \in Seq(Action) /\ a \in Action /\ b \in Action
      /\ a.rows = IF c.kind = "insert" THEN c.done \cup c.cur
                  ELSE {o \in c.old : o.msg \in Written(c)}
      /\ a.kind = IF c.kind = "insert" THEN "delete"
                  ELSE IF c.kind = "delete" THEN "insert" ELSE "replace"
      /\ b.rows = IF d.kind = "insert" THEN d.done \cup d.cur
                  ELSE {o \in d.old : o.msg \in Written(d)}
      /\ b.kind = a.kind
  <2>1. U \in Seq(Action)
    BY UndoIsPlan DEF Writers
  <2>2. Plan(p) = <<a>> \o U
    BY <1>1 DEF Plan, Engine, Newest
  <2>3. Plan(p)' = <<b>> \o U
    BY <1>1 DEF Plan, Engine, Newest, Undoing
  <2>4. Newest(p) = a /\ Newest(p)' = b
    BY <1>1 DEF Newest, Undoing
  <2> QED
    BY <1>1, <2>1, <2>2, <2>3, <2>4, NewestIsAction
<1>3. Forward(c, channel) /\ c.cur = {} /\ c.kind \in Kinds
  BY <1>1 DEF RolledBack, Carried, Engine, Call
<1>4. /\ Planned(<<a>> \o U, channel, nextMsg, base[p]) /\ nextMsg \in Nat
      /\ Channel(channel, nextMsg) /\ Sane(a, channel, nextMsg)
  <2>1. Planned(<<a>> \o U, channel, nextMsg, base[p])
    BY <1>2 DEF RolledBack
  <2> QED
    BY <1>2, <2>1, KnownBefore, RowStoreAssumption DEF Planned, TypeOK, StoreTypeOK
<1>8. ASSUME Planned(<<b>> \o U, channel', nextMsg', base[p]), Carried(p)',
             \/ Doomed(<<b>> \o U, channel') => Doomed(<<a>> \o U, channel)
             \/ "deletedOwn" \in incidents',
             ~Doomed(<<a>> \o U, channel) /\ ~Doomed(<<b>> \o U, channel') =>
               SameOrRenamed(a, b, U, channel, channel', nextMsg)
      PROVE  RolledBack(p)' /\ Moved(p)
  BY <1>1, <1>2, <1>8 DEF RolledBack, Moved
<1>5. /\ a = [kind |-> a.kind, rows |-> a.rows]
      /\ b = [kind |-> b.kind, rows |-> b.rows]
  BY <1>2 DEF Action
<1> HIDE DEF a, b, d, i, m, U
<1>6. CASE c.kind = "insert"
  <2>1. /\ channel' = [channel EXCEPT ![nextMsg] = i.row] /\ nextMsg' = nextMsg + 1
        /\ i.row \in Row /\ m = nextMsg
    BY <1>1, <1>6 DEF Stored, SendMessage, Item, m
  <2>2. b.rows = a.rows \cup {[msg |-> nextMsg, row |-> i.row]}
    BY <1>1, <1>2, <1>3, <1>6, <2>1
  <2>3. b = [kind |-> "delete", rows |-> a.rows \cup {[msg |-> nextMsg, row |-> i.row]}]
    BY <1>2, <1>5, <1>6, <2>2
  <2>4. Inserts(a, b, channel, channel', nextMsg)
    BY <1>1, <1>2, <1>6, <2>1, <2>3 DEF Inserts
  <2>5. /\ Planned(<<b>> \o U, channel', nextMsg', base[p])
        /\ Doomed(<<b>> \o U, channel') => Doomed(<<a>> \o U, channel)
        /\ ~Doomed(<<a>> \o U, channel) /\ ~Doomed(<<b>> \o U, channel') =>
             SameOrRenamed(a, b, U, channel, channel', nextMsg)
    <3>1. /\ Planned(<<b>> \o U, channel', nextMsg + 1, base[p])
          /\ Doomed(<<b>> \o U, channel') => Doomed(<<a>> \o U, channel)
          /\ ~Doomed(<<a>> \o U, channel) /\ ~Doomed(<<b>> \o U, channel') =>
               SameOrRenamed(a, b, U, channel, channel', nextMsg)
      BY <1>2, <1>4, <2>4, InsertsPlanned
    <3> QED
      BY <2>1, <3>1
  <2>6. Forward(d, channel')
    BY <1>1, <1>3, <1>6 DEF Forward
  <2>7. Carried(p)'
    BY <1>1, <2>6 DEF Carried, d
  <2> QED
    BY <1>8, <2>5, <2>7
<1>7. CASE c.kind # "insert"
  <2> DEFINE item == [msg |-> m, row |-> channel[m]]
  <2>1. /\ m = i.msg /\ m \notin Written(c) /\ channel[m] # NoRow /\ item \in c.old
        /\ Apart(c.old) /\ Apart(c.todo) /\ Msg(c.old) = Msg(c.todo) \cup Written(c)
    BY <1>1, <1>3, <1>7 DEF Forward, m
  <2>2. Written(d) = Written(c) \cup {m}
    <3> DEFINE new == [msg |-> m, row |-> i.row]
    <3>1. new.msg = m /\ d.cur = {new} /\ d.done = c.done /\ c.cur = {}
      BY <1>1, <1>3
    <3> HIDE DEF new
    <3> QED
      BY <3>1 DEF Written, Msg
  <2>3. b.rows = a.rows \cup {item}
    <3>1. item.msg = m
      OBVIOUS
    <3> HIDE DEF item
    <3> QED
      BY <1>1, <1>2, <1>7, <2>1, <2>2, <3>1 DEF Apart
  <2>4. \A o \in a.rows : o.msg # m
    BY <1>2, <1>7, <2>1
  <2>5. channel[m] \in Row /\ m < nextMsg /\ i.row \in Row /\ i.row # NoRow
    BY <1>1, <1>4, <2>1, RowStoreAssumption DEF Channel, Msgs, Item
  <2>6. nextMsg' = nextMsg
    BY <1>1, <1>7 DEF Stored, EditMessage, DeleteMessage, Call, Kinds
  <2>7. \A k \in Msgs \ {m} : channel'[k] = channel[k]
    BY <1>1, <1>4, <1>7, <2>1 DEF Stored, EditMessage, DeleteMessage, Call, Kinds, Channel
  <2>8. Forward(d, channel')
    <3>1. Apart(d.todo) /\ Apart(d.old)
      BY <1>1, <2>1 DEF Apart
    <3>2. \A j \in d.todo : j.msg # m
      BY <1>1, <2>1 DEF Apart
    <3>3. Msg(c.todo) = Msg(d.todo) \cup {m}
      BY <1>1, <2>1 DEF Msg
    <3>4. Msg(d.old) = Msg(d.todo) \cup Written(d)
      BY <1>1, <2>1, <2>2, <3>3
    <3>5. ASSUME NEW j \in d.todo
          PROVE  /\ j.msg \in Msgs /\ j.msg \notin Written(d)
                 /\ channel'[j.msg] # NoRow /\ [msg |-> j.msg, row |-> channel'[j.msg]] \in d.old
      BY <1>1, <1>3, <1>7, <2>2, <2>7, <3>2 DEF Forward
    <3> QED
      BY <1>1, <1>7, <3>1, <3>4, <3>5 DEF Forward
  <2>9. Carried(p)'
    BY <1>1, <2>8 DEF Carried, d
  <2>10. CASE c.kind = "replace"
    <3>1. channel' = [channel EXCEPT ![m] = i.row]
      BY <1>1, <2>1, <2>10 DEF Stored, EditMessage
    <3>2. b = [kind |-> "replace", rows |-> a.rows \cup {item}]
      BY <1>2, <1>5, <2>3, <2>10
    <3>3. Replaces(a, b, channel, channel', nextMsg)
      BY <1>1, <1>2, <2>4, <2>5, <2>10, <3>1, <3>2 DEF Replaces
    <3>4. /\ Planned(<<b>> \o U, channel', nextMsg', base[p])
          /\ Doomed(<<b>> \o U, channel') => Doomed(<<a>> \o U, channel)
          /\ ~Doomed(<<a>> \o U, channel) /\ ~Doomed(<<b>> \o U, channel') =>
               SameOrRenamed(a, b, U, channel, channel', nextMsg)
      <4>1. /\ Planned(<<b>> \o U, channel', nextMsg, base[p])
            /\ Doomed(<<b>> \o U, channel') => Doomed(<<a>> \o U, channel)
            /\ ~Doomed(<<a>> \o U, channel) /\ ~Doomed(<<b>> \o U, channel') =>
                 SameOrRenamed(a, b, U, channel, channel', nextMsg)
        BY <1>2, <1>4, <3>3, ReplacesPlanned
      <4> QED
        BY <2>6, <4>1
    <3> QED
      BY <1>8, <2>9, <3>4
  <2>11. CASE c.kind = "delete"
    <3>1. channel' = [channel EXCEPT ![m] = NoRow]
      BY <1>1, <2>1, <2>11 DEF Stored, DeleteMessage
    <3>2. b = [kind |-> "insert", rows |-> a.rows \cup {item}]
      BY <1>2, <1>5, <2>3, <2>11
    <3>3. Deletes(a, b, channel, channel', nextMsg)
      BY <1>1, <1>2, <2>4, <2>5, <2>11, <3>1, <3>2 DEF Deletes
    <3>4. /\ Planned(<<b>> \o U, channel', nextMsg', base[p])
          /\ Doomed(<<b>> \o U, channel') => Doomed(<<a>> \o U, channel) \/ Overtakes(U, channel, channel')
          /\ ~Doomed(<<a>> \o U, channel) /\ ~Doomed(<<b>> \o U, channel') =>
               SameOrRenamed(a, b, U, channel, channel', nextMsg)
      <4>1. /\ Planned(<<b>> \o U, channel', nextMsg, base[p])
            /\ Doomed(<<b>> \o U, channel') => Doomed(<<a>> \o U, channel) \/ Overtakes(U, channel, channel')
            /\ ~Doomed(<<a>> \o U, channel) /\ ~Doomed(<<b>> \o U, channel') =>
                 SameOrRenamed(a, b, U, channel, channel', nextMsg)
        BY <1>2, <1>4, <3>3, DeletesPlanned
      <4> QED
        BY <2>6, <4>1
    <3>5. ASSUME Overtakes(U, channel, channel') PROVE "deletedOwn" \in incidents'
      <4>1. PICK k \in Msgs : channel[k] # NoRow /\ channel'[k] = NoRow /\ Touched(U, Len(U), k)
        BY <3>5 DEF Overtakes
      <4>2. k = m
        BY <2>7, <4>1
      <4>3. PICK n \in 1..Len(U) : Undoes(U[n], m)
        BY <4>1, <4>2 DEF Touched
      <4>4. n \in DOMAIN U
        BY <1>2
      <4>5. "deletedOwn" \in WriteIncidents(p, m)
        BY <2>11, <4>3, <4>4 DEF WriteIncidents, Undoes, U
      <4> QED
        BY <1>1, <4>5
    <3> QED
      BY <1>8, <2>9, <3>4, <3>5
  <2> QED
    BY <1>3, <1>7, <2>10, <2>11 DEF Kinds
<1> QED
  BY <1>6, <1>7

\* A rollback action's write leaves less of it to do.
LEMMA WriteBack ==
  ASSUME TypeOK, NEW p \in Txns, RolledBack(p), Undoing(p), Write(p), Smooth',
         ~MissingMessage(call[p].kind, First(call[p].todo).msg)
  PROVE  RolledBack(p)' /\ Moved(p)
<1> DEFINE c == call[p]
           i == First(c.todo)
           m == IF c.kind = "insert" THEN nextMsg ELSE i.msg
           d == call'[p]
           U == undo[p]
           a == Remaining(c)
           b == Remaining(d)
<1>1. /\ pc[p] = "write" /\ pc'[p] = "index"
      /\ c \in Call /\ d \in Call /\ i \in c.todo /\ i \in Item /\ m \in Msgs
      /\ Stored(c.kind, i)
      /\ d.kind = c.kind /\ d.todo = c.todo \ {i}
      /\ UNCHANGED <<undo, verdict, base>>
      /\ incidents' = incidents \cup WriteIncidents(p, m)
  BY WriteCall DEF Writers
<1>2. /\ Plan(p) = <<a>> \o U /\ Plan(p)' = <<b>> \o U
      /\ Newest(p) = a /\ Newest(p)' = b
      /\ U \in Seq(Action) /\ a \in Action
      /\ a.rows = c.todo /\ a.kind = c.kind
      /\ b = [kind |-> a.kind, rows |-> a.rows \ {i}]
  <2>1. U \in Seq(Action)
    BY UndoIsPlan DEF Writers
  <2>2. Plan(p) = <<a>> \o U
    BY <1>1 DEF Plan, Engine, Newest
  <2>3. Plan(p)' = <<b>> \o U
    BY <1>1 DEF Plan, Engine, Newest, Undoing
  <2>4. a \in Action
    BY <1>1, NewestIsAction
  <2>5. Newest(p) = a /\ Newest(p)' = b
    BY <1>1 DEF Newest, Undoing
  <2> QED
    BY <1>1, <2>1, <2>2, <2>3, <2>4, <2>5 DEF Remaining
<1>3. /\ Planned(<<a>> \o U, channel, nextMsg, base[p]) /\ nextMsg \in Nat
      /\ Channel(channel, nextMsg) /\ Sane(a, channel, nextMsg)
  <2>1. Planned(<<a>> \o U, channel, nextMsg, base[p])
    BY <1>2 DEF RolledBack
  <2> QED
    BY <1>2, <2>1, KnownBefore, RowStoreAssumption DEF Planned, TypeOK, StoreTypeOK
<1>4. i.msg \in Msgs
  BY <1>1, <1>2, <1>3 DEF Sane
<1>5. Carried(p)'
  BY <1>1 DEF Carried, Undoing
<1>6. ASSUME Planned(<<b>> \o U, channel', nextMsg', base[p]),
             Doomed(<<b>> \o U, channel') => Doomed(<<a>> \o U, channel),
             ~Doomed(<<a>> \o U, channel) /\ ~Doomed(<<b>> \o U, channel') =>
               SameOrRenamed(a, b, U, channel, channel', nextMsg)
      PROVE  RolledBack(p)' /\ Moved(p)
  BY <1>1, <1>2, <1>5, <1>6 DEF RolledBack, Moved
<1>7. channel[i.msg] = NoRow => c.kind = "insert"
  <2> SUFFICES ASSUME channel[i.msg] = NoRow, c.kind # "insert" PROVE FALSE
    OBVIOUS
  <2>1. Lame(a, channel)
    BY <1>1, <1>2 DEF Lame
  <2>2. Doomed(<<a>> \o U, channel)
    BY <1>2, <2>1, DoomedBefore
  <2>3. "deletedOwn" \in incidents'
    BY <1>1, <1>2, <2>2 DEF RolledBack
  <2>4. MissingDeleteThrows
    BY <2>3 DEF Smooth, Spoiled
  <2> QED
    BY <1>1, <1>4, <2>4 DEF MissingMessage, Live, Call, Kinds
<1> HIDE DEF a, b, d, i, m, U
<1>8. CASE c.kind = "insert"
  <2>1. /\ channel' = [channel EXCEPT ![nextMsg] = i.row] /\ nextMsg' = nextMsg + 1
        /\ m = nextMsg
    BY <1>1, <1>8 DEF Stored, SendMessage, m
  <2>2. Reinserts(a, b, channel, channel', nextMsg)
    BY <1>1, <1>2, <1>8, <2>1 DEF Reinserts
  <2>3. /\ Planned(<<b>> \o U, channel', nextMsg + 1, base[p])
        /\ Doomed(<<b>> \o U, channel') => Doomed(<<a>> \o U, channel)
        /\ ~Doomed(<<a>> \o U, channel) /\ ~Doomed(<<b>> \o U, channel') =>
             SameOrRenamed(a, b, U, channel, channel', nextMsg)
    BY <1>2, <1>3, <2>2, ReinsertsPlanned
  <2> QED
    BY <1>6, <2>1, <2>3
<1>9. CASE c.kind = "replace"
  <2>1. /\ channel' = [channel EXCEPT ![i.msg] = i.row] /\ nextMsg' = nextMsg
    BY <1>1, <1>9 DEF Stored, EditMessage
  <2>2. Reedits(a, b, channel, channel')
    BY <1>1, <1>2, <1>7, <1>9, <2>1 DEF Reedits
  <2>3. /\ Planned(<<b>> \o U, channel', nextMsg, base[p])
        /\ Doomed(<<b>> \o U, channel') => Doomed(<<a>> \o U, channel)
        /\ ~Doomed(<<a>> \o U, channel) /\ ~Doomed(<<b>> \o U, channel') =>
             SameOrRenamed(a, b, U, channel, channel', nextMsg)
    BY <1>2, <1>3, <2>2, ReeditsPlanned
  <2> QED
    BY <1>6, <2>1, <2>3
<1>10. CASE c.kind = "delete"
  <2>1. /\ channel' = [channel EXCEPT ![i.msg] = NoRow] /\ nextMsg' = nextMsg
    BY <1>1, <1>10 DEF Stored, DeleteMessage
  <2>2. Removes(a, b, channel, channel')
    BY <1>1, <1>2, <1>7, <1>10, <2>1 DEF Removes
  <2>3. /\ Planned(<<b>> \o U, channel', nextMsg, base[p])
        /\ Doomed(<<b>> \o U, channel') => Doomed(<<a>> \o U, channel)
        /\ ~Doomed(<<a>> \o U, channel) /\ ~Doomed(<<b>> \o U, channel') =>
             SameOrRenamed(a, b, U, channel, channel', nextMsg)
    BY <1>2, <1>3, <2>2, RemovesPlanned
  <2> QED
    BY <1>6, <2>1, <2>3
<1> QED
  BY <1>1, <1>8, <1>9, <1>10 DEF Call, Kinds

LEMMA WriteRolledBack ==
  ASSUME TypeOK, NEW p \in Txns, RolledBack(p), Write(p), Smooth'
  PROVE  RolledBack(p)'
<1>1. CASE MissingMessage(call[p].kind, First(call[p].todo).msg)
  <2>1. /\ pc[p] = "write" /\ Fail(p)
        /\ UNCHANGED <<channel, nextMsg, undo, base>> /\ incidents' = incidents \cup FailIncidents(p)
    BY <1>1 DEF Write, store, Record
  <2> QED
    BY <2>1, FailRolledBack
<1> QED
  BY <1>1, WriteForward, WriteBack

\* An index call changes nothing that a rollback would have to undo; after the last one
\* the operation's action is complete, and is pushed; a rollback action's has no row left.
LEMMA IndexRolledBack ==
  ASSUME TypeOK, NEW p \in Txns, RolledBack(p), Index(p)
  PROVE  RolledBack(p)' /\ Settles(p)
<1> DEFINE c == call[p]
           next == [c EXCEPT !.cur = {}, !.done = @ \cup c.cur]
           U == undo[p]
<1>1. /\ pc[p] = "index" /\ Engine(p) /\ c \in Call /\ next \in Call
      /\ UNCHANGED <<channel, nextMsg, verdict, base, incidents>>
      /\ incidents \subseteq incidents'
  <2>1. pc[p] = "index" /\ UNCHANGED <<channel, nextMsg, verdict, base, incidents>>
    BY DEF Index, history
  <2>2. c \in Call
    BY DEF TypeOK, Writers
  <2> QED
    BY <2>1, <2>2 DEF Engine, Call
<1>2. /\ next.kind = c.kind /\ next.todo = c.todo /\ next.cur = {} /\ next.old = c.old
      /\ next.done = c.done \cup c.cur /\ Written(next) = Written(c)
  BY <1>1 DEF Call, Written
<1> HIDE DEF next
<1>3. CASE c.todo # {}
  <2>1. /\ call'[p] = next /\ UNCHANGED undo /\ pc'[p] \in {"check", "write"}
    BY <1>3 DEF Index, Goto, TypeOK, next, Writers
  <2>2. Newest(p)' = Newest(p)
    BY <1>1, <1>2, <2>1 DEF Newest, Undoing, Partial, Remaining
  <2>3. Plan(p)' = Plan(p)
    BY <1>1, <2>1, <2>2 DEF Plan, Engine
  <2>4. ~Undoing(p) => Forward(c, channel)
    BY <1>1 DEF RolledBack, Carried
  <2>5. ~Undoing(p) => Forward(next, channel)
    BY <1>2, <1>3, <2>4 DEF Forward
  <2>6. Carried(p)'
    BY <1>1, <1>2, <2>1, <2>5 DEF Carried, Engine, Undoing
  <2> QED
    BY <1>1, <2>1, <2>3, <2>6, StaysRolledBack
<1>4. CASE c.todo = {} /\ Undoing(p)
  <2>1. Return(p, next)
    BY <1>4 DEF Index, next
  <2>2. pc'[p] = "undo" /\ UNCHANGED undo
    BY <1>4, <2>1 DEF Return, Goto, TypeOK, Writers
  <2>3. Newest(p).rows = {}
    BY <1>4 DEF Newest, Remaining
  <2>4. ~Engine(p)'
    BY <2>2 DEF Engine
  <2> QED
    BY <1>1, <2>2, <2>3, <2>4, CallOver
<1>5. CASE c.todo = {} /\ ~Undoing(p)
  <2>1. Return(p, next)
    BY <1>5 DEF Index, next
  <2>2. pc'[p] = "next" /\ undo'[p] = <<Compensation(next)>> \o U
    BY <1>5, <2>1 DEF Return, Goto, TypeOK, Writers
  <2>3. Forward(c, channel)
    BY <1>1, <1>5 DEF RolledBack, Carried
  <2>4. Compensation(next) = Partial(c)
    <3>1. c.kind # "insert" => {o \in c.old : o.msg \in Written(c)} = c.old
      BY <1>5, <2>3 DEF Forward, Msg
    <3> QED
      BY <1>1, <1>2, <3>1 DEF Compensation, Partial, Call, Kinds
  <2>5. Plan(p)' = Plan(p)
    BY <1>1, <1>5, <2>2, <2>4 DEF Plan, Engine, Newest
  <2>6. Carried(p)'
    BY <2>2 DEF Carried, Engine
  <2> QED
    BY <1>1, <2>5, <2>6, StaysRolledBack
<1> QED
  BY <1>3, <1>4, <1>5

\* The rollback takes the next action up.
LEMMA RollBackRolledBack ==
  ASSUME TypeOK, NEW p \in Txns, RolledBack(p), RollBack(p)
  PROVE  RolledBack(p)' /\ Settles(p)
<1>1. /\ pc[p] = "undo" /\ Undoing(p) /\ Undoing(p)' /\ Plan(p) = undo[p]
      /\ UNCHANGED <<channel, nextMsg, base>> /\ incidents \subseteq incidents'
  BY DEF RollBack, TypeOK, CallsOK, Writers, Plan, Engine, Undoing, history, store
<1>2. CASE undo[p] = <<>>
  <2>1. pc'[p] = "get" /\ UNCHANGED undo
    BY <1>2 DEF RollBack, Goto, TypeOK, Writers
  <2>2. Plan(p)' = Plan(p) /\ Carried(p)'
    BY <1>1, <2>1 DEF Plan, Engine, Carried
  <2> QED
    BY <1>1, <2>2, StaysRolledBack
<1>3. CASE undo[p] # <<>>
  <2> DEFINE action == Head(undo[p])
  <2>1. /\ undo'[p] = Tail(undo[p])
        /\ call'[p] = [NoCall EXCEPT !.kind = action.kind, !.todo = action.rows]
        /\ pc'[p] \in {"check", "write"}
    BY <1>3 DEF RollBack, Goto, TypeOK, Writers
  <2>2. undo[p] \in Seq(Undo) /\ action \in Undo
    BY <1>3 DEF TypeOK, Writers
  <2>3. call'[p].kind = action.kind /\ call'[p].todo = action.rows /\ call'[p].cur = {}
    BY <2>1 DEF NoCall
  <2>4. Remaining(call'[p]) = action
    BY <2>2, <2>3 DEF Remaining, Undo
  <2> HIDE DEF action
  <2>5. Plan(p)' = <<action>> \o Tail(undo[p])
    BY <1>1, <2>1, <2>4 DEF Plan, Engine, Newest
  <2>6. Plan(p)' = undo[p]
    BY <1>3, <2>2, <2>5 DEF action
  <2>7. Carried(p)'
    BY <1>1, <2>1, <2>3 DEF Carried
  <2> QED
    BY <1>1, <2>6, <2>7, StaysRolledBack
<1> QED
  BY <1>2, <1>3

LEMMA NothingToUndo ==
  ASSUME NEW f, NEW n, Channel(f, n), NEW rows
  PROVE  /\ Planned(<<>>, f, n, rows) <=> rows = {f[m] : m \in {k \in Msgs : f[k] # NoRow}}
         /\ ~Doomed(<<>>, f)
<1>1. Len(<<>>) = 0 /\ <<>> \in Seq(Action)
  OBVIOUS
<1>2. Known(<<>>, f, n) /\ Ordered(<<>>) /\ ~Doomed(<<>>, f)
  BY <1>1 DEF Known, Ordered, Doomed
<1>3. Table(<<>>, 0, f) = {i \in Item : i.msg \in Msgs /\ f[i.msg] = i.row}
  BY DEF Table, BroughtBack, LeftAlone, Touched
<1>4. RowsOf(Table(<<>>, 0, f)) = {f[m] : m \in {k \in Msgs : f[k] # NoRow}}
  <2>1. ASSUME NEW x \in RowsOf(Table(<<>>, 0, f))
        PROVE  x \in {f[m] : m \in {k \in Msgs : f[k] # NoRow}}
    <3>1. PICK i \in Item : i.msg \in Msgs /\ f[i.msg] = i.row /\ x = i.row
      BY <1>3, <2>1 DEF RowsOf
    <3> QED
      BY <3>1, RowStoreAssumption DEF Item
  <2>2. ASSUME NEW m \in Msgs, f[m] # NoRow
        PROVE  f[m] \in RowsOf(Table(<<>>, 0, f))
    <3> DEFINE i == [msg |-> m, row |-> f[m]]
    <3>1. i \in Item /\ i.msg = m /\ i.row = f[m]
      BY <2>2 DEF Item, Channel, Msgs
    <3> HIDE DEF i
    <3>2. i \in Table(<<>>, 0, f)
      BY <1>3, <3>1
    <3> QED
      BY <3>1, <3>2 DEF RowsOf
  <2> QED
    BY <2>1, <2>2
<1> QED
  BY <1>1, <1>2, <1>4 DEF Planned, Restores

\* Whatever a transaction does next
LEMMA OwnStep ==
  ASSUME TypeOK, Placed, NEW p \in Txns, Working(p) => RolledBack(p), Smooth', Working(p)',
         Start(p) \/ Step(p) \/ StorageFails(p) \/ AnswerLost(p) \/ Crash(p)
  PROVE  RolledBack(p)'
<1> USE DEF TypeOK, Writers, Goto
<1>1. incidents \subseteq incidents'
  BY StepFrame
<1>2. CASE Start(p) \/ GiveUp(p) \/ DeleteLock(p) \/ Crash(p)
  <2>1. pc'[p] \in {"wait", "done", "crashed"}
    BY <1>2 DEF Start, GiveUp, DeleteLock, Crash
  <2> QED
    BY <2>1 DEF Working
<1>3. CASE Acquire(p)
  <2>1. /\ undo'[p] = <<>> /\ pc'[p] = "next" /\ base'[p] = Contents
        /\ UNCHANGED <<channel, nextMsg>>
    BY <1>3 DEF Acquire, Placed, store, local
  <2>2. Plan(p)' = <<>> /\ Carried(p)'
    BY <2>1 DEF Plan, Engine, Carried
  <2>3. Planned(<<>>, channel, nextMsg, Contents) /\ ~Doomed(<<>>, channel)
    <3>1. Channel(channel, nextMsg) /\ Contents = {channel[m] : m \in {k \in Msgs : channel[k] # NoRow}}
      BY DEF Placed, Contents, Live
    <3> QED
      BY <3>1, NothingToUndo
  <2> QED
    BY <2>1, <2>2, <2>3 DEF RolledBack
<1>4. CASE ReadLock(p) \/ LastOperation(p) \/ Announce(p) \/ Announced(p)
  <2>1. /\ ~Engine(p) /\ pc'[p] \notin {"check", "write", "index"} /\ Working(p)
        /\ UNCHANGED <<channel, nextMsg, undo, base>>
    BY <1>4 DEF ReadLock, LastOperation, Announce, Announced, Engine, Working, store, local, history
  <2>2. Plan(p)' = Plan(p) /\ Carried(p)'
    BY <2>1 DEF Plan, Engine, Carried
  <2> QED
    BY <1>1, <2>1, <2>2, StaysRolledBack
<1>5. CASE Operate(p)
  BY <1>5, OperateRolledBack DEF Operate, Working
<1>6. CASE Check(p)
  BY <1>6, CheckRolledBack DEF Check, Working
<1>7. CASE Write(p)
  BY <1>7, WriteRolledBack DEF Write, Working
<1>8. CASE Index(p)
  <2>1. Working(p)
    BY <1>8 DEF Index, Working
  <2> QED
    BY <1>8, <2>1, IndexRolledBack
<1>9. CASE RollBack(p)
  <2>1. Working(p)
    BY <1>9 DEF RollBack, Working
  <2> QED
    BY <1>9, <2>1, RollBackRolledBack
<1>10. CASE StorageFails(p)
  <2>1. /\ pc[p] \in {"check", "write"} /\ Fail(p)
        /\ UNCHANGED <<channel, nextMsg, undo, base>> /\ incidents' = incidents \cup FailIncidents(p)
    BY <1>10 DEF StorageFails, store, Record
  <2> QED
    BY <2>1, FailRolledBack DEF Working
<1>11. CASE AnswerLost(p)
  <2>1. faults' = faults + 1 /\ "halfdone" \in incidents' /\ faults \in Nat
    BY <1>11, TransactionsAssumption DEF AnswerLost, Record
  <2> QED
    BY <2>1 DEF Smooth, Spoiled
<1> QED
  BY <1>2, <1>3, <1>4, <1>5, <1>6, <1>7, <1>8, <1>9, <1>10, <1>11 DEF Step

LEMMA SmoothBefore ==
  ASSUME TypeOK, incidents \subseteq incidents', faults \in 0..faults', Smooth'
  PROVE  Smooth
BY TransactionsAssumption DEF Smooth, Spoiled, TypeOK

\* By induction: the transaction that holds the lock is the only one whose plan changes,
\* and nobody else writes the table.
LEMMA RollbackStep ==
  ASSUME TypeOK, Placed, LockHeld, RollbackInv, [Next]_vars
  PROVE  RollbackInv'
<1> SUFFICES ASSUME Smooth', NEW q \in Txns, Working(q)' PROVE RolledBack(q)'
  BY DEF RollbackInv
<1>1. CASE UNCHANGED vars \/ Expire
  <2>1. /\ UNCHANGED <<channel, nextMsg, pc, call, undo, verdict, base, faults>>
        /\ incidents \subseteq incidents'
    BY <1>1 DEF vars, store, local, history, Expire, Record
  <2>2. faults \in 0..faults'
    BY <2>1, TransactionsAssumption DEF TypeOK
  <2>3. RolledBack(q)
    BY <2>1, <2>2, SmoothBefore DEF RollbackInv, Working
  <2>4. Plan(q)' = Plan(q)
    BY <2>1 DEF Plan, Engine, Newest, Undoing
  <2>5. Carried(q)'
    BY <2>1, <2>3 DEF RolledBack, Carried, Engine, Undoing
  <2> QED
    BY <2>1, <2>3, <2>4, <2>5, StaysRolledBack
<1>2. ASSUME NEW p \in Writers,
             Start(p) \/ Step(p) \/ StorageFails(p) \/ AnswerLost(p) \/ Crash(p)
      PROVE  RolledBack(q)'
  <2>1. Smooth
    BY <1>2, StepFrame, OthersStay, SmoothBefore
  <2>2. p \in Txns
    BY <2>1 DEF Smooth, Writers
  <2>3. CASE p = q
    BY <1>2, <2>1, <2>2, <2>3, OwnStep DEF RollbackInv
  <2>4. CASE p # q
    <3>1. /\ pc'[q] = pc[q] /\ call'[q] = call[q] /\ incidents \subseteq incidents'
          /\ undo'[q] = undo[q] /\ verdict'[q] = verdict[q] /\ base'[q] = base[q]
          /\ ~Working(p) => UNCHANGED store
      BY <1>2, <2>4, StepFrame, OthersStay DEF Writers
    <3>2. Working(q) /\ RolledBack(q)
      BY <2>1, <3>1 DEF RollbackInv, Working
    <3>3. ~Working(p)
      BY <2>1, <2>2, <2>4, <3>2 DEF LockHeld, Smooth, Spoiled
    <3>4. UNCHANGED <<channel, nextMsg>>
      BY <3>1, <3>3 DEF store
    <3>5. Plan(q)' = Plan(q)
      BY <3>1 DEF Plan, Engine, Newest, Undoing
    <3>6. Carried(q)'
      BY <3>1, <3>2, <3>4 DEF RolledBack, Carried, Engine, Undoing
    <3> QED
      BY <3>1, <3>2, <3>4, <3>5, <3>6, StaysRolledBack
  <2> QED
    BY <2>3, <2>4
<1> QED
  BY <1>1, <1>2 DEF Next

LEMMA RollbackInvariant == Spec => []RollbackInv
<1>1. Init => RollbackInv
  BY DEF Init, RollbackInv, Working, Writers
<1>2. TypeOK /\ Placed /\ LockHeld /\ RollbackInv /\ [Next]_vars => RollbackInv'
  BY RollbackStep
<1> QED
  BY <1>1, <1>2, TypeCorrect, PlacedInvariant, LockInvariant, PTL DEF Spec

\* The rollback of a transaction brings the table back, row for row, whatever the
\* operations were, in whichever order, and whatever message ids the rows come back under
\* (execute's catch block), for any number of transactions, rows and operations.
THEOREM AbortsRestore == Spec => []AbortRestores
<1>1. RollbackInv /\ Placed => AbortRestores
  <2> SUFFICES ASSUME RollbackInv, Placed, Direct = {},
                      ~Spoiled({"expired", "halfdone", "halfcall", "swallowed"}),
                      MissingDeleteThrows \/ "deletedOwn" \notin incidents,
                      NEW p \in Txns, pc[p] \in {"get", "del"}, Undoing(p)
               PROVE  Contents = base[p]
    BY DEF AbortRestores
  <2>1. Smooth /\ Working(p)
    BY DEF Smooth, Spoiled, Working
  <2>2. RolledBack(p) /\ Plan(p) = <<>>
    BY <2>1 DEF RollbackInv, Placed, Plan, Engine
  <2> QED
    BY <2>2, NothingToUndo DEF RolledBack, Placed, Contents, Live
<1> QED
  BY <1>1, RollbackInvariant, PlacedInvariant, PTL

-----------------------------------------------------------------------------
(* Rollback: no action of it throws for a reason of its own.                *)

\* Every table on the way back has its keys apart, and where an action writes several rows
\* back, each of them gives up no key but its own: so no row meets another's key.
HeldItems(f) == {i \in Item : i.msg \in Msgs /\ f[i.msg] = i.row}
Distinct(items) == \A x, y \in items : x.row.key = y.row.key => x = y \/ x.row.key = NoKey
KeysFixed(a, items) ==
  a.kind = "replace" =>
    \A i, k \in a.rows : i # k => \A x \in items : x.msg = i.msg => x.row.key \in {i.row.key, NoKey}
Sound(W, f) ==
  /\ \A j \in 0..Len(W) : Distinct(Table(W, j, f))
  /\ \A j \in 1..Len(W) : KeysFixed(W[j], Table(W, j - 1, f))

LEMMA TableNow ==
  ASSUME NEW W, NEW f
  PROVE  Table(W, 0, f) = HeldItems(f)
BY DEF Table, BroughtBack, LeftAlone, Touched, HeldItems

LEMMA SoundBefore ==
  ASSUME NEW a \in Action, NEW U \in Seq(Action), NEW f
  PROVE  Sound(<<a>> \o U, f) <=>
           /\ Distinct(HeldItems(f)) /\ KeysFixed(a, HeldItems(f))
           /\ \A j \in 0..Len(U) : Distinct(Table(<<a>> \o U, j + 1, f))
           /\ \A j \in 1..Len(U) : KeysFixed(U[j], Table(<<a>> \o U, j, f))
<1> DEFINE W == <<a>> \o U
<1>1. Len(W) = Len(U) + 1 /\ Len(U) \in Nat /\ W[1] = a /\ \A j \in 1..Len(U) : W[j + 1] = U[j]
  BY PutBefore
<1>2. Table(W, 0, f) = HeldItems(f)
  BY TableNow
<1> HIDE DEF W
<1>3. (\A j \in 0..Len(W) : Distinct(Table(W, j, f))) <=>
        Distinct(HeldItems(f)) /\ \A j \in 0..Len(U) : Distinct(Table(W, j + 1, f))
  <2>1. \A j \in 0..Len(U) : j + 1 \in 0..Len(W)
    BY <1>1
  <2>2. ASSUME NEW j \in 0..Len(W), j # 0 PROVE j - 1 \in 0..Len(U) /\ (j - 1) + 1 = j
    BY <1>1, <2>2
  <2>3. 0 \in 0..Len(W)
    BY <1>1
  <2> QED
    BY <1>2, <2>1, <2>2, <2>3
<1>4. (\A j \in 1..Len(W) : KeysFixed(W[j], Table(W, j - 1, f))) <=>
        KeysFixed(a, HeldItems(f)) /\ \A j \in 1..Len(U) : KeysFixed(U[j], Table(W, j, f))
  <2>1. \A j \in 1..Len(U) : j + 1 \in 1..Len(W) /\ (j + 1) - 1 = j
    BY <1>1
  <2>2. ASSUME NEW j \in 1..Len(W), j # 1 PROVE j - 1 \in 1..Len(U) /\ (j - 1) + 1 = j
    BY <1>1, <2>2
  <2>3. 1 \in 1..Len(W) /\ 1 - 1 = 0
    BY <1>1
  <2> QED
    BY <1>1, <1>2, <2>1, <2>2, <2>3
<1> QED
  BY <1>3, <1>4 DEF Sound, W

LEMMA SoundEmpty ==
  ASSUME NEW a \in Action, a.rows = {}, NEW U \in Seq(Action), NEW f, Distinct(HeldItems(f))
  PROVE  Sound(<<a>> \o U, f) <=> Sound(U, f)
<1>1. \A j \in 0..Len(U) : Table(<<a>> \o U, j + 1, f) = Table(U, j, f)
  BY EmptyPlanned
<1>2. KeysFixed(a, HeldItems(f))
  BY DEF KeysFixed
<1>3. \A j \in 1..Len(U) : Table(<<a>> \o U, j, f) = Table(U, j - 1, f)
  <2> SUFFICES ASSUME NEW j \in 1..Len(U) PROVE Table(<<a>> \o U, j, f) = Table(U, j - 1, f)
    OBVIOUS
  <2>1. j - 1 \in 0..Len(U) /\ (j - 1) + 1 = j
    OBVIOUS
  <2> QED
    BY <1>1, <2>1
<1> QED
  BY <1>1, <1>2, <1>3, SoundBefore DEF Sound

\* A write moves every later table at most under another message.
LEMMA SoundMoved ==
  ASSUME NEW a \in Action, NEW b \in Action, NEW U \in Seq(Action), NEW f, NEW g, NEW n \in Nat,
         Known(U, f, n), SameOrRenamed(a, b, U, f, g, n), Sound(<<a>> \o U, f),
         Distinct(HeldItems(g)), KeysFixed(b, HeldItems(g))
  PROVE  Sound(<<b>> \o U, g)
<1> DEFINE Old(j) == Table(<<a>> \o U, j + 1, f)
           New(j) == Table(<<b>> \o U, j + 1, g)
<1>1. /\ \A j \in 0..Len(U) : Distinct(Old(j))
      /\ \A j \in 1..Len(U) : KeysFixed(U[j], Table(<<a>> \o U, j, f))
  BY SoundBefore
<1>2. ASSUME NEW j \in 0..Len(U)
      PROVE  /\ \A x : x \in Old(j) <=> InTable(a, U, j, f, x)
             /\ \A x : x \in New(j) <=> InTable(b, U, j, g, x)
  BY TableBefore
<1>3. ASSUME NEW j \in 0..Len(U)
      PROVE  \/ Old(j) = New(j)
             \/ \E i, new : /\ new.row = i.row /\ new.msg = n /\ i \in Old(j)
                            /\ \A x \in New(j) : x = new \/ (x # i /\ x \in Old(j))
  <2>1. CASE SameTables(a, b, U, f, g)
    <3>1. \A x : x \in New(j) <=> x \in Old(j)
      BY <1>2, <2>1 DEF SameTables
    <3> QED
      BY <3>1
  <2>2. CASE ~SameTables(a, b, U, f, g)
    <3>1. PICK i \in Item, new \in Item :
            new.row = i.row /\ new.msg = n /\ Renames(a, b, U, f, g, i, new)
      BY <2>2 DEF SameOrRenamed
    <3>2. i \in Old(j) /\ \A x \in New(j) : x = new \/ (x # i /\ x \in Old(j))
      BY <1>2, <3>1 DEF Renames
    <3> QED
      BY <3>1, <3>2
  <2> QED
    BY <2>1, <2>2
<1> HIDE DEF Old, New
<1>4. ASSUME NEW j \in 0..Len(U) PROVE Distinct(New(j))
  <2>1. Distinct(Old(j))
    BY <1>1 DEF Old
  <2>2. CASE Old(j) = New(j)
    BY <2>1, <2>2
  <2>3. CASE Old(j) # New(j)
    <3>1. PICK i, new : /\ new.row = i.row /\ i \in Old(j)
                        /\ \A x \in New(j) : x = new \/ (x # i /\ x \in Old(j))
      BY <1>3, <2>3
    <3> QED
      BY <2>1, <3>1 DEF Distinct
  <2> QED
    BY <2>2, <2>3
<1>5. ASSUME NEW j \in 1..Len(U) PROVE KeysFixed(U[j], Table(<<b>> \o U, j, g))
  <2>1. j - 1 \in 0..Len(U) /\ (j - 1) + 1 = j
    OBVIOUS
  <2>2. Table(<<a>> \o U, j, f) = Old(j - 1) /\ Table(<<b>> \o U, j, g) = New(j - 1)
    BY <2>1 DEF Old, New
  <2>3. KeysFixed(U[j], Old(j - 1))
    BY <1>1, <2>2
  <2>4. CASE Old(j - 1) = New(j - 1)
    BY <2>2, <2>3, <2>4
  <2>5. CASE Old(j - 1) # New(j - 1)
    <3>1. PICK i, new : /\ new.msg = n
                        /\ \A x \in New(j - 1) : x = new \/ (x # i /\ x \in Old(j - 1))
      BY <1>3, <2>1, <2>5
    <3>2. \A h \in U[j].rows : h.msg # n
      BY DEF Known, Sane
    <3> QED
      BY <2>2, <2>3, <3>1, <3>2 DEF KeysFixed
  <2> QED
    BY <2>4, <2>5
<1> QED
  BY <1>4, <1>5, SoundBefore DEF New

\* A row that the rollback brings back finds its key free.
LEMMA KeyIsFree ==
  ASSUME NEW a \in Action, NEW U \in Seq(Action), NEW f, NEW n, Channel(f, n), Sane(a, f, n),
         Sound(<<a>> \o U, f), a.kind # "delete", NEW item \in a.rows, item.row.key # NoKey,
         NEW m \in Msgs, f[m] # NoRow, f[m].key = item.row.key
  PROVE  a.kind = "replace" /\ m = item.msg
<1> DEFINE x == [msg |-> m, row |-> f[m]]
           T == Table(<<a>> \o U, 1, f)
<1>1. x \in Item /\ x.msg = m /\ x.row = f[m]
  BY DEF Item, Channel, Msgs
<1> HIDE DEF x
<1>2. a.kind \in {"insert", "replace"} /\ a.rows \in SUBSET Item
  BY DEF Action, Kinds
<1>3. /\ Distinct(T)
      /\ \A y : y \in T <=> InTable(a, U, 0, f, y)
      /\ KeysFixed(a, HeldItems(f))
  <2>1. 0 \in 0..Len(U) /\ 0 + 1 = 1
    OBVIOUS
  <2> QED
    BY <2>1, SoundBefore, TableBefore
<1> HIDE DEF T
<1>4. \A k : ~Touched(U, 0, k)
  BY DEF Touched
<1>5. \A y \in a.rows : y \in T
  BY <1>2, <1>3, <1>4 DEF InTable
<1>6. CASE ~Undoes(a, m)
  <2>1. x \in T
    BY <1>1, <1>3, <1>4, <1>6 DEF InTable
  <2>2. x = item
    BY <1>1, <1>3, <1>5, <2>1 DEF Distinct
  <2>3. a.kind = "insert" => f[item.msg] = NoRow
    BY DEF Sane
  <2>4. a.kind = "replace" => Undoes(a, m)
    BY <1>1, <2>2 DEF Undoes
  <2> QED
    BY <1>1, <1>2, <1>6, <2>2, <2>3, <2>4
<1>7. CASE Undoes(a, m)
  <2>1. PICK y \in a.rows : y.msg = m /\ a.kind = "replace"
    BY <1>2, <1>7 DEF Undoes
  <2>2. ASSUME y # item PROVE FALSE
    <3>1. x \in HeldItems(f)
      BY <1>1 DEF HeldItems
    <3>2. x.row.key \in {y.row.key, NoKey}
      BY <1>1, <1>3, <2>1, <2>2, <3>1 DEF KeysFixed
    <3>3. y.row.key = item.row.key
      BY <1>1, <3>2
    <3> QED
      BY <1>3, <1>5, <2>2, <3>3 DEF Distinct
  <2> QED
    BY <2>1, <2>2
<1> QED
  BY <1>6, <1>7

\* What the written rows of an operation have as keys: their own, or one for all
Kept(c, f) ==
  c.kind = "replace" =>
    \/ \A o \in c.old : /\ o.msg \in Written(c) => f[o.msg].key = o.row.key
                        /\ \A t \in c.todo : t.msg = o.msg => t.row.key = o.row.key
    \/ \E k : /\ \A t \in c.todo : t.row.key = k
              /\ \A m \in Written(c) : f[m].key = k

Undoable(p) ==
  /\ Sound(Plan(p), channel)
  /\ pc[p] = "check" => call[p].kind # "delete"
  /\ Engine(p) /\ ~Undoing(p) => Kept(call[p], channel)

LEMMA DistinctNow ==
  ASSUME NEW f, NEW n, Channel(f, n),
         \A m, k \in Msgs :
           f[m] # NoRow /\ f[k] # NoRow /\ f[m].key = f[k].key => m = k \/ f[m].key = NoKey
  PROVE  Distinct(HeldItems(f))
<1>1. ASSUME NEW x \in HeldItems(f), NEW y \in HeldItems(f), x.row.key = y.row.key
      PROVE  x = y \/ x.row.key = NoKey
  <2>1. /\ x \in Item /\ x.msg \in Msgs /\ f[x.msg] = x.row /\ x.row # NoRow
        /\ y \in Item /\ y.msg \in Msgs /\ f[y.msg] = y.row /\ y.row # NoRow
    BY RowStoreAssumption DEF HeldItems, Item
  <2>2. x.msg = y.msg \/ x.row.key = NoKey
    BY <1>1, <2>1
  <2> QED
    BY <2>1, <2>2 DEF Item
<1> QED
  BY <1>1 DEF Distinct

LEMMA SoundSettles ==
  ASSUME TypeOK, NEW p \in Txns, Settles(p), Sound(Plan(p), channel), UNCHANGED channel,
         Distinct(HeldItems(channel))
  PROVE  Sound(Plan(p), channel)'
<1>1. CASE Plan(p)' = Plan(p)
  BY <1>1
<1>2. CASE Engine(p) /\ ~Engine(p)' /\ Newest(p).rows = {} /\ undo'[p] = undo[p]
  <2>1. undo[p] \in Seq(Action) /\ Newest(p) \in Action
    BY UndoIsPlan, NewestIsAction DEF Newest, TypeOK, Writers
  <2>2. Plan(p) = <<Newest(p)>> \o undo[p] /\ Plan(p)' = undo[p]
    BY <1>2 DEF Plan
  <2> QED
    BY <1>2, <2>1, <2>2, SoundEmpty
<1> QED
  BY <1>1, <1>2 DEF Settles

\* An operation's undoing writes back no key that two of its rows have had.
LEMMA PartialFixed ==
  ASSUME NEW c \in Call, NEW f, NEW n, Channel(f, n), Kept(c, f), Apart(c.old),
         Sane(Partial(c), f, n), ~Lame(Partial(c), f), Distinct(HeldItems(f))
  PROVE  KeysFixed(Partial(c), HeldItems(f))
<1> DEFINE a == Partial(c)
<1> SUFFICES ASSUME a.kind = "replace", NEW i \in a.rows, NEW k \in a.rows, i # k,
                    NEW x \in HeldItems(f), x.msg = i.msg
             PROVE  x.row.key \in {i.row.key, NoKey}
  BY DEF KeysFixed
<1>1. c.kind = "replace" /\ i \in c.old /\ k \in c.old /\ i.msg \in Written(c) /\ k.msg \in Written(c)
  BY NewestIsAction DEF Call, Kinds
<1>2. /\ f[i.msg] # NoRow /\ f[k.msg] # NoRow /\ i.msg # k.msg
      /\ i \in Item /\ k \in Item /\ x \in Item /\ f[i.msg] = x.row
      /\ i.msg \in Msgs /\ k.msg \in Msgs
  BY <1>1 DEF Lame, Sane, Apart, Call, HeldItems
<1>3. CASE f[i.msg].key = i.row.key
  BY <1>2, <1>3
<1>4. CASE f[i.msg].key # i.row.key
  <2>1. f[i.msg].key = f[k.msg].key
    BY <1>1, <1>4 DEF Kept
  <2> DEFINE y == [msg |-> k.msg, row |-> f[k.msg]]
  <2>2. y \in HeldItems(f) /\ y.msg # x.msg /\ y.row.key = x.row.key
    BY <1>2, <2>1 DEF HeldItems, Channel, Item, Msgs
  <2> QED
    BY <2>2 DEF Distinct
<1> QED
  BY <1>3, <1>4

\* None of the reasons for which a rollback action may throw
Untroubled ==
  /\ Direct = {} /\ faults = 0
  /\ ~Spoiled({"expired", "halfcall", "deletedOwn"})
  /\ KeyIndexed => ~Spoiled({"halfdone"})

\* The check finds its row's key free, in the table or, where it asks the index, there.
LEMMA CheckPasses ==
  ASSUME TypeOK, LockHeld, RacesNeedNoLock, IndexInv, Untroubled, NEW p \in Txns,
         RolledBack(p), Undoable(p), Undoing(p), pc[p] = "check"
  PROVE  LET item == First(call[p].todo)
         IN  ~Conflicts(item.row, IF call[p].kind = "insert" THEN 0 ELSE item.msg)
<1> DEFINE item == First(call[p].todo)
           current == IF call[p].kind = "insert" THEN 0 ELSE item.msg
           a == Remaining(call[p])
           U == undo[p]
<1>1. /\ Engine(p) /\ call[p] \in Call /\ item \in call[p].todo
      /\ call[p].kind # "delete" /\ U \in Seq(Action)
  BY NextItem, UndoIsPlan DEF Engine, TypeOK, Writers, Undoable
<1>2. /\ Plan(p) = <<a>> \o U /\ a \in Action
      /\ a.rows = call[p].todo /\ a.kind = call[p].kind
  BY <1>1, NewestIsAction DEF Plan, Newest, Remaining
<1>3. /\ Channel(channel, nextMsg) /\ Sane(a, channel, nextMsg)
      /\ Sound(<<a>> \o U, channel)
  BY <1>1, <1>2, KnownBefore DEF RolledBack, Planned, Undoable
<1> HIDE DEF a, U, item
<1> SUFFICES ASSUME item.row.key # NoKey, NEW m \in SelectKey(item.row.key) \ {current}
             PROVE  FALSE
  BY DEF Conflicts, item
<1>4. m \in Live /\ m \in Msgs /\ channel[m] # NoRow
  BY DEF SelectKey, Live
<1>5. channel[m].key = item.row.key
  <2>1. CASE ~KeyIndexed
    BY <2>1 DEF SelectKey
  <2>2. CASE KeyIndexed
    <3>1. Settled(m)
      BY DEF LockHeld, Untroubled, Spoiled, Settled, Working, Writers
    <3>2. FiledRight
      BY <2>2 DEF IndexInv, Untroubled, RacesNeedNoLock, Spoiled
    <3>3. index[m] = channel[m].key
      BY <1>4, <2>2, <3>1, <3>2 DEF FiledRight, IndexEntry
    <3> QED
      BY <2>2, <3>3 DEF SelectKey
  <2> QED
    BY <2>1, <2>2
<1>6. a.kind = "replace" /\ m = item.msg
  BY <1>1, <1>2, <1>3, <1>4, <1>5, KeyIsFree
<1> QED
  BY <1>2, <1>6

LEMMA NotSwallowed ==
  ASSUME TypeOK, LockHeld, RacesNeedNoLock, IndexInv, NEW p \in Txns, Untroubled, Untroubled',
         ~Spoiled({"swallowed"}), Working(p) => RolledBack(p) /\ Undoable(p),
         Start(p) \/ Step(p) \/ StorageFails(p) \/ AnswerLost(p) \/ Crash(p)
  PROVE  ~Spoiled({"swallowed"})'
<1> SUFFICES ASSUME "swallowed" \in incidents' PROVE FALSE
  BY DEF Spoiled
<1>1. "swallowed" \notin incidents
  BY DEF Spoiled
<1>2. CASE Start(p) \/ Acquire(p) \/ GiveUp(p) \/ ReadLock(p) \/ DeleteLock(p) \/ Operate(p)
             \/ LastOperation(p) \/ Index(p) \/ RollBack(p) \/ Announce(p) \/ Announced(p) \/ Crash(p)
  BY <1>1, <1>2 DEF Start, Acquire, GiveUp, ReadLock, DeleteLock, Operate, LastOperation, Index,
     RollBack, Announce, Announced, Crash, history, Record
<1>3. CASE Check(p)
  <2>1. pc[p] = "check" /\ Working(p)
    BY <1>3 DEF Check, Working
  <2>2. ~Undoing(p)
    BY <1>1, <1>3, <2>1, CheckPasses DEF Check, Record
  <2> QED
    BY <1>1, <1>3, <2>2 DEF Check, Record, FailIncidents
<1>4. CASE Write(p)
  <2> DEFINE item == First(call[p].todo)
  <2>1. /\ pc[p] = "write" /\ Working(p) /\ Engine(p) /\ call[p] \in Call /\ item \in call[p].todo
        /\ undo[p] \in Seq(Action)
    BY <1>4, NextItem, UndoIsPlan DEF Write, Working, Engine, TypeOK, Writers
  <2> HIDE DEF item
  <2>2. Undoing(p) /\ MissingMessage(call[p].kind, item.msg)
    BY <1>1, <1>4 DEF Write, Record, FailIncidents, WriteIncidents, item
  <2>3. Plan(p) = <<Remaining(call[p])>> \o undo[p] /\ Remaining(call[p]) \in Action
    BY <2>1, <2>2, NewestIsAction DEF Plan, Newest
  <2>4. Sane(Remaining(call[p]), channel, nextMsg)
    BY <2>1, <2>3, KnownBefore DEF RolledBack, Planned
  <2>5. Lame(Remaining(call[p]), channel)
    <3>1. item.msg \in Msgs
      BY <2>1, <2>4 DEF Sane, Remaining
    <3> QED
      BY <2>1, <2>2, <3>1 DEF Lame, Remaining, MissingMessage, Live
  <2>6. Doomed(Plan(p), channel)
    BY <2>1, <2>3, <2>5, DoomedBefore
  <2> QED
    BY <2>1, <2>6 DEF RolledBack, Untroubled, Spoiled
<1>5. CASE StorageFails(p) \/ AnswerLost(p)
  <2>1. faults' = faults + 1 /\ faults \in Nat
    BY <1>5, TransactionsAssumption DEF StorageFails, AnswerLost, TypeOK
  <2> QED
    BY <2>1 DEF Untroubled
<1> QED
  BY <1>2, <1>3, <1>4, <1>5 DEF Step

\* The steps that leave the table alone
LEMMA QuietUndoable ==
  ASSUME TypeOK, NEW p \in Txns, RolledBack(p), Undoable(p), Smooth', Distinct(HeldItems(channel)),
         Check(p) \/ Index(p) \/ RollBack(p) \/ ReadLock(p) \/ LastOperation(p)
           \/ Announce(p) \/ Announced(p)
  PROVE  Undoable(p)'
<1> USE DEF TypeOK, Writers, Goto
<1>1. ASSUME Settles(p), UNCHANGED channel, pc'[p] = "check" => call'[p].kind # "delete",
             Engine(p)' /\ ~Undoing(p)' => Kept(call'[p], channel)
      PROVE  Undoable(p)'
  BY <1>1, SoundSettles DEF Undoable
<1>2. CASE Check(p)
  <2>1. Settles(p) /\ UNCHANGED channel /\ pc[p] = "check" /\ pc'[p] # "check"
    BY <1>2, CheckRolledBack DEF Check, Fail, store
  <2>2. Engine(p)' => UNCHANGED <<call, verdict>>
    BY <1>2 DEF Check, Fail, Engine
  <2>3. Engine(p)' /\ ~Undoing(p)' => Kept(call'[p], channel)
    BY <2>1, <2>2 DEF Undoable, Engine, Undoing
  <2> QED
    BY <1>1, <2>1, <2>3
<1>3. CASE Index(p)
  <2> DEFINE c == call[p]
             next == [c EXCEPT !.cur = {}, !.done = @ \cup c.cur]
  <2>1. Settles(p) /\ UNCHANGED <<channel, verdict>> /\ pc[p] = "index" /\ c \in Call
    <3>1. UNCHANGED <<channel, verdict>> /\ pc[p] = "index"
      BY <1>3 DEF Index
    <3>2. Settles(p)
      BY <1>3, IndexRolledBack
    <3> QED
      BY <3>1, <3>2
  <2>2. next.kind = c.kind /\ next.todo = c.todo /\ next.old = c.old /\ Written(next) = Written(c)
    BY <2>1 DEF Call, Written
  <2> HIDE DEF next
  <2>3. CASE c.todo = {}
    <3>1. pc'[p] \in {"undo", "next"}
      BY <1>3, <2>3 DEF Index, Return
    <3> QED
      BY <1>1, <2>1, <3>1 DEF Engine
  <2>4. CASE c.todo # {}
    <3>1. call'[p] = next /\ pc'[p] = IF c.kind = "delete" THEN "write" ELSE "check"
      BY <1>3, <2>4 DEF Index, next
    <3>2. ~Undoing(p) => Kept(next, channel)
      BY <2>1, <2>2 DEF Undoable, Engine, Kept
    <3> QED
      BY <1>1, <2>1, <2>2, <3>1, <3>2 DEF Undoing
  <2> QED
    BY <2>3, <2>4
<1>4. CASE RollBack(p)
  <2>1. Settles(p) /\ UNCHANGED <<channel, verdict>> /\ pc[p] = "undo" /\ Undoing(p)
    <3>1. UNCHANGED <<channel, verdict>> /\ pc[p] = "undo" /\ Undoing(p)
      BY <1>4 DEF RollBack, store, CallsOK
    <3>2. Settles(p)
      BY <1>4, RollBackRolledBack
    <3> QED
      BY <3>1, <3>2
  <2>2. ASSUME pc'[p] = "check" PROVE call'[p].kind # "delete"
    <3>1. undo[p] # <<>>
      BY <1>4, <2>2 DEF RollBack
    <3>2. /\ call'[p] = [NoCall EXCEPT !.kind = Head(undo[p]).kind, !.todo = Head(undo[p]).rows]
          /\ pc'[p] = IF Head(undo[p]).kind = "delete" THEN "write" ELSE "check"
      BY <1>4, <3>1 DEF RollBack
    <3> QED
      BY <2>2, <3>2 DEF NoCall
  <2> QED
    BY <1>1, <2>1, <2>2 DEF Undoing
<1>5. CASE ReadLock(p) \/ LastOperation(p) \/ Announce(p) \/ Announced(p)
  <2>1. /\ ~Engine(p) /\ pc'[p] \notin {"check", "write", "index"}
        /\ UNCHANGED <<channel, undo>>
    BY <1>5 DEF ReadLock, LastOperation, Announce, Announced, Engine, store, local
  <2>2. Settles(p) /\ ~Engine(p)'
    BY <2>1 DEF Settles, Plan, Engine
  <2> QED
    BY <1>1, <2>1, <2>2
<1> QED
  BY <1>2, <1>3, <1>4, <1>5

LEMMA OperateUndoable ==
  ASSUME TypeOK, Placed, NEW p \in Txns, Undoable(p), Distinct(HeldItems(channel)), Operate(p)
  PROVE  Undoable(p)'
<1>1. pc[p] = "next" /\ ~Undoing(p) /\ UNCHANGED channel
  BY DEF Operate, Placed, store
<1>2. ASSUME UNCHANGED undo, ~Engine(p)'
      PROVE  Undoable(p)'
  BY <1>1, <1>2 DEF Undoable, Plan, Engine
<1>3. CASE Reject(p)
  <2>1. pc'[p] = "undo" /\ UNCHANGED undo
    BY <1>3 DEF Reject, Fail, Goto, TypeOK, Writers
  <2> QED
    BY <1>2, <2>1 DEF Engine
<1>4. CASE ~Reject(p)
  <2>1. PICK kind \in Kinds, todo \in SUBSET Item, old \in SUBSET Item :
          Entering(p, kind, todo, old)
    BY <1>4, OperateEnters
  <2>2. Enter(p, kind, todo, old) /\ (kind = "replace" => KeysGiven(todo, old))
    BY <2>1 DEF Entering
  <2>3. CASE todo = {}
    BY <1>1, <1>2, <2>2, <2>3 DEF Enter, Engine
  <2>4. CASE todo # {}
    <3> DEFINE c == [kind |-> kind, todo |-> todo, cur |-> {}, done |-> {}, old |-> old]
    <3>1. /\ call'[p] = c /\ UNCHANGED <<undo, verdict>>
          /\ pc'[p] = IF kind = "delete" THEN "write" ELSE "check"
      BY <2>2, <2>4 DEF Enter, Goto, TypeOK, NoCall, Writers
    <3>2. /\ c.kind = kind /\ c.todo = todo /\ c.old = old
          /\ c.cur = {} /\ c.done = {} /\ c \in Call
      BY DEF Call
    <3> HIDE DEF c
    <3>3. Written(c) = {}
      BY <3>2 DEF Written, Msg
    <3>4. Partial(c).rows = {} /\ Partial(c) \in Action /\ undo[p] \in Seq(Action)
      BY <3>2, <3>3, NewestIsAction, UndoIsPlan DEF Writers
    <3>5. Plan(p)' = <<Partial(c)>> \o undo[p] /\ Plan(p) = undo[p]
      BY <1>1, <3>1 DEF Plan, Engine, Newest, Undoing
    <3>6. Sound(Plan(p)', channel)
      BY <3>4, <3>5, SoundEmpty DEF Undoable
    <3>7. Kept(c, channel)
      BY <2>2, <3>2, <3>3 DEF Kept, KeysGiven
    <3> QED
      BY <1>1, <3>1, <3>2, <3>6, <3>7 DEF Undoable
  <2> QED
    BY <2>3, <2>4
<1> QED
  BY <1>3, <1>4

LEMMA KeptWrite ==
  ASSUME NEW c \in Call, NEW d \in Call, NEW f, NEW g, NEW n, NEW i \in c.todo,
         Channel(f, n), Sane(Partial(c), f, n), Forward(c, f), Kept(c, f),
         c.kind = "replace", d.kind = c.kind, d.old = c.old, d.todo = c.todo \ {i},
         Written(d) = Written(c) \cup {i.msg}, g = [f EXCEPT ![i.msg] = i.row]
  PROVE  Kept(d, g)
<1>1. /\ Apart(c.old) /\ Apart(c.todo) /\ i.msg \in Msgs /\ Msg(c.old) = Msg(c.todo) \cup Written(c)
      /\ f \in [Msgs -> Row \cup {NoRow}]
  BY DEF Forward, Channel
<1>2. \A m \in Written(c) : m \in Msgs
  <2> SUFFICES ASSUME NEW m \in Written(c) PROVE m \in Msgs
    OBVIOUS
  <2>1. PICK o \in c.old : o.msg = m
    BY <1>1 DEF Msg
  <2>2. o \in Partial(c).rows
    BY <2>1, NewestIsAction
  <2> QED
    BY <2>1, <2>2 DEF Sane
<1>3. g[i.msg] = i.row /\ \A m \in Written(c) : m # i.msg => g[m] = f[m]
  BY <1>1, <1>2
<1>4. CASE \A o \in c.old : /\ o.msg \in Written(c) => f[o.msg].key = o.row.key
                            /\ \A t \in c.todo : t.msg = o.msg => t.row.key = o.row.key
  BY <1>3, <1>4 DEF Kept
<1>5. CASE \E k : /\ \A t \in c.todo : t.row.key = k
                  /\ \A m \in Written(c) : f[m].key = k
  <2>1. PICK k : /\ \A t \in c.todo : t.row.key = k
                 /\ \A m \in Written(c) : f[m].key = k
    BY <1>5
  <2>2. /\ \A t \in d.todo : t.row.key = k
        /\ \A m \in Written(d) : g[m].key = k
    BY <1>3, <2>1
  <2> QED
    BY <2>2 DEF Kept
<1> QED
  BY <1>4, <1>5 DEF Kept

LEMMA WriteUndoable ==
  ASSUME TypeOK, TypeOK', NEW p \in Txns, RolledBack(p), RolledBack(p)', Undoable(p), Write(p), Smooth',
         "deletedOwn" \notin incidents', incidents \subseteq incidents',
         Distinct(HeldItems(channel)), Distinct(HeldItems(channel'))
  PROVE  Undoable(p)'
<1> DEFINE c == call[p]
           i == First(c.todo)
           m == IF c.kind = "insert" THEN nextMsg ELSE i.msg
           d == call'[p]
           U == undo[p]
           a == Newest(p)
           b == Newest(p)'
<1>1. CASE MissingMessage(c.kind, i.msg)
  <2>1. /\ pc[p] = "write" /\ Fail(p)
        /\ UNCHANGED <<channel, nextMsg, undo, base>> /\ incidents' = incidents \cup FailIncidents(p)
    BY <1>1 DEF Write, store, Record
  <2>2. Settles(p)
    BY <2>1, FailRolledBack
  <2>3. pc'[p] = "undo"
    BY <2>1 DEF Fail, Goto, TypeOK, Writers
  <2> QED
    BY <2>1, <2>2, <2>3, SoundSettles DEF Undoable, Engine
<1>2. CASE ~MissingMessage(c.kind, i.msg)
  <2>1. /\ pc[p] = "write" /\ pc'[p] = "index"
        /\ c \in Call /\ d \in Call /\ i \in c.todo /\ i \in Item /\ m \in Msgs
        /\ Stored(c.kind, i)
        /\ d.kind = c.kind /\ d.todo = c.todo \ {i} /\ d.done = c.done /\ d.old = c.old
        /\ d.cur = {[msg |-> m, row |-> i.row]}
        /\ UNCHANGED <<undo, verdict, base>>
    BY <1>2, WriteCall DEF Writers
  <2>2. Moved(p)
    BY <1>2, WriteForward, WriteBack
  <2>3. Engine(p) /\ Engine(p)' /\ Undoing(p)' = Undoing(p)
    BY <2>1 DEF Engine, Undoing
  <2>4. /\ Plan(p) = <<a>> \o U /\ Plan(p)' = <<b>> \o U
        /\ U \in Seq(Action) /\ a \in Action /\ b \in Action
    <3>1. U \in Seq(Action)
      BY UndoIsPlan DEF Writers
    <3>2. Plan(p) = <<a>> \o U /\ Plan(p)' = <<b>> \o U
      BY <2>1, <2>3 DEF Plan
    <3>3. a \in Action /\ b \in Action
      BY <2>1, NewestIsAction DEF Newest
    <3> QED
      BY <3>1, <3>2, <3>3
  <2>5. /\ ~Doomed(<<a>> \o U, channel) /\ ~Doomed(<<b>> \o U, channel')
        /\ Planned(<<a>> \o U, channel, nextMsg, base[p]) /\ Planned(<<b>> \o U, channel', nextMsg', base[p])
    BY <2>1, <2>4 DEF RolledBack
  <2>6. SameOrRenamed(a, b, U, channel, channel', nextMsg)
    BY <2>2, <2>4, <2>5 DEF Moved
  <2>7. /\ Channel(channel, nextMsg) /\ Known(U, channel, nextMsg) /\ Sane(a, channel, nextMsg)
        /\ Channel(channel', nextMsg') /\ Sane(b, channel', nextMsg')
        /\ ~Lame(b, channel') /\ nextMsg \in Nat
    BY <2>4, <2>5, KnownBefore, DoomedBefore, RowStoreAssumption DEF Planned, TypeOK, StoreTypeOK
  <2>8. Sound(<<a>> \o U, channel) /\ KeysFixed(a, HeldItems(channel))
    BY <2>4, SoundBefore DEF Undoable
  <2>9. c.kind = "replace" => m = i.msg /\ channel' = [channel EXCEPT ![i.msg] = i.row]
    BY <2>1 DEF Stored, EditMessage
  <2>10. ~Undoing(p) => Kept(d, channel') /\ KeysFixed(b, HeldItems(channel'))
    <3> SUFFICES ASSUME ~Undoing(p) PROVE Kept(d, channel') /\ KeysFixed(b, HeldItems(channel'))
      OBVIOUS
    <3>1. /\ a = Partial(c) /\ b = Partial(d) /\ c.cur = {}
          /\ Forward(c, channel) /\ Forward(d, channel') /\ Kept(c, channel)
      BY <2>1, <2>3 DEF RolledBack, Carried, Undoable, Newest
    <3> HIDE DEF a, b, d, i, m, U
    <3>2. CASE c.kind = "replace"
      <4>1. Written(d) = Written(c) \cup {i.msg}
        <5> DEFINE new == [msg |-> m, row |-> i.row]
        <5>1. new.msg = i.msg /\ d.cur = {new} /\ d.done = c.done /\ c.cur = {}
          BY <2>1, <2>9, <3>1, <3>2
        <5> HIDE DEF new
        <5> QED
          BY <5>1 DEF Written, Msg
      <4>2. Kept(d, channel')
        BY <2>1, <2>7, <2>9, <3>1, <3>2, <4>1, KeptWrite
      <4>3. Apart(d.old)
        BY <2>1, <3>1, <3>2 DEF Forward
      <4> QED
        BY <2>1, <2>7, <3>1, <4>2, <4>3, PartialFixed
    <3>3. CASE c.kind # "replace"
      <4>1. b.kind # "replace"
        BY <2>1, <3>1, <3>3, NewestIsAction DEF Call, Kinds
      <4> QED
        BY <2>1, <3>3, <4>1 DEF Kept, KeysFixed
    <3> QED
      BY <3>2, <3>3
  <2>11. Undoing(p) => KeysFixed(b, HeldItems(channel'))
    <3> SUFFICES ASSUME Undoing(p), c.kind = "replace" PROVE KeysFixed(b, HeldItems(channel'))
      BY <2>1, <2>3 DEF KeysFixed, Newest, Remaining
    <3>1. /\ a.kind = "replace" /\ b.kind = "replace" /\ a.rows = c.todo /\ b.rows = c.todo \ {i}
      BY <2>1, <2>3 DEF Newest, Remaining
    <3> HIDE DEF a, b, d, m, U
    <3>2. \A h \in b.rows : h \in a.rows /\ h.msg # i.msg
      BY <2>1, <2>7, <3>1 DEF Sane, Apart
    <3> HIDE DEF i
    <3>3. \A x \in HeldItems(channel') : x.msg # i.msg => x \in HeldItems(channel)
      BY <2>7, <2>9 DEF HeldItems, Channel
    <3> QED
      BY <2>8, <3>1, <3>2, <3>3 DEF KeysFixed
  <2> HIDE DEF a, b, d, i, m, U
  <2>12. Sound(<<b>> \o U, channel')
    BY <2>4, <2>6, <2>7, <2>8, <2>10, <2>11, SoundMoved
  <2> QED
    BY <2>1, <2>3, <2>4, <2>10, <2>12 DEF Undoable, d
<1> QED
  BY <1>1, <1>2

SwallowInv ==
  Untroubled =>
    /\ ~Spoiled({"swallowed"})
    /\ \A p \in Txns : Working(p) => Undoable(p)

LEMMA KeysNow ==
  ASSUME Placed, RacesNeedNoLock, UniqueInv, Untroubled
  PROVE  Distinct(HeldItems(channel))
<1>1. DistinctLive
  BY DEF UniqueInv, Unraced, RacesNeedNoLock, Untroubled, Spoiled
<1> QED
  BY <1>1, DistinctNow DEF Placed, DistinctLive, Live

LEMMA OwnUndoable ==
  ASSUME TypeOK, TypeOK', Placed, NEW p \in Txns,
         Working(p) => RolledBack(p) /\ Undoable(p), RolledBack(p)', Working(p)',
         Smooth', Untroubled', incidents \subseteq incidents',
         Distinct(HeldItems(channel)), Distinct(HeldItems(channel')),
         Start(p) \/ Step(p) \/ StorageFails(p) \/ AnswerLost(p) \/ Crash(p)
  PROVE  Undoable(p)'
<1> USE DEF TypeOK, Writers, Goto
<1>1. CASE Start(p) \/ GiveUp(p) \/ DeleteLock(p) \/ Crash(p)
  <2>1. pc'[p] \in {"wait", "done", "crashed"}
    BY <1>1 DEF Start, GiveUp, DeleteLock, Crash
  <2> QED
    BY <2>1 DEF Working
<1>2. CASE Acquire(p)
  <2>1. undo'[p] = <<>> /\ pc'[p] = "next" /\ UNCHANGED channel
    BY <1>2 DEF Acquire, Placed, store, local
  <2>2. Plan(p)' = <<>>
    BY <2>1 DEF Plan, Engine
  <2>3. Sound(<<>>, channel)
    <3>1. Len(<<>>) = 0
      OBVIOUS
    <3> QED
      BY <3>1, TableNow DEF Sound
  <2> QED
    BY <2>1, <2>2, <2>3 DEF Undoable, Engine
<1>3. CASE Check(p) \/ Index(p) \/ RollBack(p) \/ ReadLock(p) \/ LastOperation(p)
             \/ Announce(p) \/ Announced(p)
  <2>1. pc[p] \in {"check", "index", "undo", "get", "next", "announce"}
    BY <1>3 DEF Check, Index, RollBack, ReadLock, LastOperation, Announce, Announced
  <2>2. Working(p)
    BY <2>1 DEF Working
  <2> QED
    BY <1>3, <2>2, QuietUndoable
<1>4. CASE Operate(p)
  <2>1. Working(p)
    BY <1>4 DEF Operate, Working
  <2> QED
    BY <1>4, <2>1, OperateUndoable
<1>5. CASE Write(p)
  <2>1. Working(p)
    BY <1>5 DEF Write, Working
  <2>2. "deletedOwn" \notin incidents'
    BY DEF Untroubled, Spoiled
  <2> QED
    BY <1>5, <2>1, <2>2, WriteUndoable
<1>6. CASE StorageFails(p) \/ AnswerLost(p)
  <2>1. faults' = faults + 1 /\ faults \in Nat
    BY <1>6, TransactionsAssumption DEF StorageFails, AnswerLost
  <2> QED
    BY <2>1 DEF Untroubled
<1> QED
  BY <1>1, <1>2, <1>3, <1>4, <1>5, <1>6 DEF Step

LEMMA UntroubledBefore ==
  ASSUME TypeOK, incidents \subseteq incidents', faults \in 0..faults', Untroubled'
  PROVE  Untroubled
BY TransactionsAssumption DEF Untroubled, Spoiled, TypeOK

LEMMA SwallowStep ==
  ASSUME TypeOK, TypeOK', Placed, Placed', LockHeld, RacesNeedNoLock, RacesNeedNoLock', IndexInv,
         UniqueInv, UniqueInv', RollbackInv, RollbackInv', SwallowInv, [Next]_vars
  PROVE  SwallowInv'
<1> SUFFICES ASSUME Untroubled'
             PROVE  ~Spoiled({"swallowed"})' /\ \A q \in Txns : Working(q)' => Undoable(q)'
  BY DEF SwallowInv
<1>1. CASE UNCHANGED vars \/ Expire
  <2>1. /\ UNCHANGED <<channel, pc, call, undo, verdict, faults>>
        /\ incidents \subseteq incidents' /\ incidents' \subseteq incidents \cup {"expired"}
    BY <1>1 DEF vars, store, local, history, Expire, Record
  <2>2. Untroubled
    <3>1. faults \in 0..faults'
      BY <2>1, TransactionsAssumption DEF TypeOK
    <3> QED
      BY <2>1, <3>1, UntroubledBefore
  <2>3. ~Spoiled({"swallowed"})'
    BY <2>1, <2>2 DEF SwallowInv, Spoiled
  <2>4. ASSUME NEW q \in Txns, Working(q)' PROVE Undoable(q)'
    <3>1. Undoable(q)
      BY <2>1, <2>2, <2>4 DEF SwallowInv, Working
    <3>2. Plan(q)' = Plan(q)
      BY <2>1 DEF Plan, Engine, Newest, Undoing
    <3> QED
      BY <2>1, <3>1, <3>2 DEF Undoable, Engine, Undoing
  <2> QED
    BY <2>3, <2>4
<1>2. ASSUME NEW p \in Writers,
             Start(p) \/ Step(p) \/ StorageFails(p) \/ AnswerLost(p) \/ Crash(p)
      PROVE  ~Spoiled({"swallowed"})' /\ \A q \in Txns : Working(q)' => Undoable(q)'
  <2>1. incidents \subseteq incidents' /\ faults \in 0..faults'
    BY <1>2, StepFrame, OthersStay
  <2>2. Untroubled
    BY <2>1, UntroubledBefore
  <2>3. ~Spoiled({"swallowed"}) /\ \A q \in Txns : Working(q) => Undoable(q)
    BY <2>2 DEF SwallowInv
  <2>4. Smooth
    BY <2>2, <2>3 DEF Smooth, Untroubled, Spoiled
  <2>5. p \in Txns /\ \A q \in Txns : Working(q) => RolledBack(q)
    BY <2>2, <2>4 DEF Untroubled, Writers, RollbackInv
  <2>6. ~Spoiled({"swallowed"})'
    BY <1>2, <2>2, <2>3, <2>5, NotSwallowed
  <2>7. Smooth'
    BY <2>6 DEF Smooth, Untroubled, Spoiled
  <2>8. Distinct(HeldItems(channel)) /\ Distinct(HeldItems(channel'))
    <3>1. Distinct(HeldItems(channel))
      BY <2>2, KeysNow
    <3>2. DistinctLive'
      BY DEF UniqueInv, Unraced, RacesNeedNoLock, Untroubled, Spoiled
    <3>3. Distinct(HeldItems(channel'))
      BY <3>2, DistinctNow DEF Placed, DistinctLive, Live
    <3> QED
      BY <3>1, <3>3
  <2>9. ASSUME NEW q \in Txns, Working(q)' PROVE Undoable(q)'
    <3>1. RolledBack(q)'
      BY <2>7, <2>9 DEF RollbackInv
    <3>2. CASE q = p
      BY <1>2, <2>1, <2>3, <2>5, <2>7, <2>8, <2>9, <3>1, <3>2, OwnUndoable
    <3>3. CASE q # p
      <4>1. /\ pc'[q] = pc[q] /\ call'[q] = call[q] /\ undo'[q] = undo[q] /\ verdict'[q] = verdict[q]
            /\ ~Working(p) => UNCHANGED store
        BY <1>2, <3>3, StepFrame, OthersStay DEF Writers
      <4>2. Working(q) /\ Undoable(q)
        BY <2>3, <2>9, <4>1 DEF Working
      <4>3. UNCHANGED channel
        BY <2>2, <2>5, <3>3, <4>1, <4>2 DEF LockHeld, Untroubled, Spoiled, store
      <4>4. Plan(q)' = Plan(q)
        BY <4>1 DEF Plan, Engine, Newest, Undoing
      <4> QED
        BY <4>1, <4>2, <4>3, <4>4 DEF Undoable, Engine, Undoing
    <3> QED
      BY <3>2, <3>3
  <2> QED
    BY <2>6, <2>9
<1> QED
  BY <1>1, <1>2 DEF Next

\* A rollback action throws only where something else has gone wrong before: each of them
\* finds its messages, and its keys free (execute's catch block, which drops the error).
THEOREM SwallowsAreExplained == Spec => []SwallowExplained
<1>1. Init => SwallowInv
  BY DEF Init, SwallowInv, Working, Writers, Spoiled
<1>2. TypeOK /\ TypeOK' /\ Placed /\ Placed' /\ LockHeld /\ RacesNeedNoLock /\ RacesNeedNoLock'
        /\ IndexInv /\ UniqueInv /\ UniqueInv' /\ RollbackInv /\ RollbackInv' /\ SwallowInv
        /\ [Next]_vars => SwallowInv'
  BY SwallowStep
<1>3. TypeOK /\ SwallowInv => SwallowExplained
  BY TransactionsAssumption DEF SwallowExplained, SwallowInv, Untroubled, Spoiled, TypeOK
<1> QED
  BY <1>1, <1>2, <1>3, TypeCorrect, PlacedInvariant, LockInvariant, LockPreventsRaces, IndexInvariant,
     KeysInvariant, RollbackInvariant, PTL DEF Spec

THEOREM RollbackIsAccounted == Spec => []RollbackAccounted
<1>1. AbortRestores /\ SwallowExplained => RollbackAccounted
  BY DEF RollbackAccounted
<1> QED
  BY <1>1, AbortsRestore, SwallowsAreExplained, PTL
=============================================================================
