---------------------------- MODULE Uploads_proofs ----------------------------
(***************************************************************************)
(* Proofs about Uploads, for any number of requests, any size and any      *)
(* chunks.                                                                 *)
(***************************************************************************)
EXTENDS Uploads, TLAPS, FiniteSetTheorems, SequenceTheorems

-----------------------------------------------------------------------------
(* The inductive invariant.                                                 *)

Appending == {"create", "open", "write", "save"}

\* There is one file or none; a chunk in progress begins where the session it read ends.
Shape ==
  /\ files = {} \/ \E f \in files : files = {f}
  /\ \A f \in files : f.inode = inodes /\ inodes > 0
  /\ \A r \in Requests :
       pc[r] \in Appending =>
         /\ request[r].session.uploaded = request[r].offset
         /\ request[r].offset + request[r].len <= Size
  /\ \A r \in Requests : pc[r] \in {"write", "save"} => request[r].fd \in 1..inodes

Alive == session # None /\ ~session.completed

\* The file is removed, and created once more, only when the session is over.
OverWhenGone ==
  \/ \E r \in Requests : pc[r] = "cleanup"
  \/ "recreated" \in incidents
  \/ files = {} /\ inodes > 0
  => ~Alive

\* The first n bytes have been written to the file, which may have been removed since.
Covered(n) ==
  /\ inodes = 0 => n = 0
  /\ \A f \in files : n <= f.data.len

Unbroken(content) ==
  content.right = 1..content.len /\ (sized => content.len = Size)

\* While there has been one file only, it has no hole, and reaches as far as any session
\* that is saved, or was read, says.
Kept ==
  /\ inodes <= 1
  /\ \A f \in files : f.data.right = 1..f.data.len
  /\ Covered(session.uploaded)
  /\ \A r \in Requests :
       /\ Covered(request[r].session.uploaded)
       /\ pc[r] = "save" => Covered(request[r].offset + request[r].len)
       /\ pc[r] = "finalize" /\ sized => request[r].session.uploaded = Size
  /\ \A i \in DOMAIN stored : Unbroken(stored[i])

IInv ==
  /\ TypeOK
  /\ Shape
  /\ ~Spoiled({"truncated", "revived"}) => OverWhenGone
  /\ ~Spoiled({"truncated", "recreated"}) => Kept

-----------------------------------------------------------------------------
(* Types.                                                                   *)

LEMMA NoneIsNoSession == None \notin Session /\ None.uploaded = 0 /\ None.completed = FALSE
BY DEF None, Session

LEMMA NoRequestIsRequest == UploadsAssumption => NoRequest \in Request
BY DEF UploadsAssumption, NoRequest, Request, Session

\* No file, or one, is what TypeOK says of the number of files.
LEMMA AtMostOne ==
  ASSUME NEW F, F = {} \/ \E f \in F : F = {f}
  PROVE  Cardinality(F) <= 1
<1>1. CASE F = {}
  BY <1>1, FS_EmptySet
<1>2. CASE \E f \in F : F = {f}
  <2>1. PICK f \in F : F = {f}
    BY <1>2
  <2>2. Cardinality({f}) = 1
    BY FS_Singleton
  <2> QED BY <2>1, <2>2
<1> QED BY <1>1, <1>2

LEMMA TypeInit == Init => TypeOK /\ Shape
<1> SUFFICES ASSUME Init PROVE TypeOK /\ Shape
  OBVIOUS
<1>1. Cardinality(files) <= 1
  BY AtMostOne DEF Init
<1>2. stored \in Seq(Content)
  BY DEF Init
<1> QED BY <1>1, <1>2, NoRequestIsRequest, UploadsAssumption
        DEF Init, TypeOK, Shape, Session, UploadsAssumption, Incidents, Appending

\* Each step keeps the types and the shape.
LEMMA TypeStep ==
  ASSUME TypeOK, Shape, [Next]_vars
  PROVE  TypeOK' /\ Shape'
<1> USE UploadsAssumption DEF UploadsAssumption
<1>1. ASSUME NEW f, files' = {f} PROVE Cardinality(files') <= 1
  BY <1>1, AtMostOne
<1>2. ASSUME files' = {} PROVE Cardinality(files') <= 1
  BY <1>2, AtMostOne
<1>3. ASSUME NEW r \in Requests, NEW offset \in 0..Size, NEW len \in Chunks,
             AppendChunk(r, offset, len)
      PROVE  TypeOK' /\ Shape'
  <2>1. session \in Session
    BY <1>3 DEF TypeOK, AppendChunk, Arrive
  <2>2. request' \in [Requests -> Request]
    BY <1>3, <2>1 DEF TypeOK, AppendChunk, Fits, Request, Session
  <2>3. TypeOK'
    BY <1>3, <2>2 DEF TypeOK, AppendChunk, Arrive, Goto, Mark, When, Incidents
  <2>4. Shape'
    BY <1>3, <2>1 DEF TypeOK, Shape, AppendChunk, Fits, Goto, Appending, Session
  <2> QED BY <2>3, <2>4
<1>4. ASSUME NEW r \in Requests, Complete(r) \/ Abort(r) PROVE TypeOK' /\ Shape'
  <2>1. session \in Session
    BY <1>4 DEF TypeOK, Complete, Abort, Arrive
  <2>2. [NoRequest EXCEPT !.session = session] \in Request
    BY <2>1 DEF NoRequest, Request
  <2>3. request' \in [Requests -> Request]
    BY <1>4, <2>2 DEF TypeOK, Complete, Abort
  <2>4. TypeOK'
    BY <1>4, <2>3 DEF TypeOK, Complete, Abort, Arrive, Goto, Mark, When, Incidents
  <2>5. Shape'
    BY <1>4 DEF TypeOK, Shape, Complete, Abort, Goto, Appending
  <2> QED BY <2>4, <2>5
<1>5. ASSUME NEW r \in Requests, Create(r) PROVE TypeOK' /\ Shape'
  <2> DEFINE i == inodes'
  <2>0. inodes \in Nat /\ (files # {} => inodes > 0)
    BY DEF TypeOK, Shape
  <2>1. i \in Nat /\ i > 0 /\ files' = {[inode |-> i, data |-> Empty]}
    BY <1>5, <2>0 DEF Create
  <2> HIDE DEF i
  <2>2. [inode |-> i, data |-> Empty] \in File
    BY <2>1 DEF File, Content, Empty
  <2>3. request' \in [Requests -> Request]
    BY <1>5, <2>1 DEF i, TypeOK, Create, Request
  <2>4. TypeOK'
    BY <1>1, <1>5, <2>1, <2>2, <2>3 DEF i, TypeOK, Create, Goto, Mark, When, Incidents
  <2>5. inodes <= i
    BY <1>5, <2>0 DEF i, Create
  <2>6. /\ pc[r] = "create" /\ pc'[r] = "write" /\ request'[r].fd = i
        /\ \A q \in Requests : /\ request'[q].session = request[q].session
                              /\ request'[q].offset = request[q].offset
                              /\ request'[q].len = request[q].len
        /\ \A q \in Requests \ {r} : pc'[q] = pc[q] /\ request'[q] = request[q]
    BY <1>5 DEF i, TypeOK, Create, Goto, Request
  <2>7. /\ files' = {[inode |-> i, data |-> Empty]}
        /\ \A f \in files' : f.inode = inodes' /\ inodes' > 0
    BY <2>1 DEF i
  <2>8. \A q \in Requests :
          pc'[q] \in Appending => /\ request'[q].session.uploaded = request'[q].offset
                                 /\ request'[q].offset + request'[q].len <= Size
    BY <2>6 DEF Shape, Appending
  <2>9. \A q \in Requests : pc'[q] \in {"write", "save"} => request'[q].fd \in 1..i
    <3>1. \A q \in Requests \ {r} : pc'[q] \in {"write", "save"} => request'[q].fd \in 1..inodes
      BY <2>6 DEF Shape
    <3>2. 1..inodes \subseteq 1..i /\ i \in 1..i
      BY <2>0, <2>1, <2>5
    <3> QED BY <2>6, <3>1, <3>2
  <2>10. Shape'
    BY <2>7, <2>8, <2>9 DEF i, Shape
  <2> QED BY <2>4, <2>10
<1>6. ASSUME NEW r \in Requests, Done(r), UNCHANGED <<files, inodes>>
      PROVE  request' \in [Requests -> Request] /\ pc' \in [Requests -> {"idle", "create",
               "open", "write", "save", "finalize", "mark", "delete", "cleanup"}] /\ Shape'
  BY <1>6, NoRequestIsRequest DEF TypeOK, Shape, Done, Goto, Appending
<1>7. ASSUME NEW r \in Requests, Open(r) PROVE TypeOK' /\ Shape'
  <2>1. CASE files = {}
    BY <1>6, <1>7, <2>1 DEF TypeOK, Open
  <2>2. CASE files # {}
    <3>1. PICK f \in files : request' = [request EXCEPT ![r].fd = f.inode]
      BY <1>7, <2>2 DEF Open
    <3>2. f.inode = inodes /\ inodes \in Nat /\ inodes > 0
      BY DEF TypeOK, Shape
    <3>3. request' \in [Requests -> Request]
      BY <3>1, <3>2 DEF TypeOK, Request
    <3>4. UNCHANGED <<files, inodes>> /\ pc' = [pc EXCEPT ![r] = "write"] /\ pc[r] = "open"
      BY <1>7, <2>2 DEF Open, Goto
    <3>5. TypeOK'
      BY <1>7, <3>3, <3>4 DEF TypeOK, Open
    <3>6. \A q \in Requests : /\ request'[q].session = request[q].session
                             /\ request'[q].offset = request[q].offset
                             /\ request'[q].len = request[q].len
                             /\ request'[q].fd = IF q = r THEN inodes ELSE request[q].fd
      BY <3>1, <3>2 DEF TypeOK, Request
    <3>7. Shape'
      BY <3>2, <3>4, <3>6 DEF TypeOK, Shape, Appending
    <3> QED BY <3>5, <3>7
  <2> QED BY <2>1, <2>2
<1>8. ASSUME NEW r \in Requests, Write(r) PROVE TypeOK' /\ Shape'
  <2> DEFINE first == request[r].offset + 1
             last  == request[r].offset + request[r].len
             With(data) == [len |-> IF data.len < last THEN last ELSE data.len,
                            right |-> data.right \cup first..last]
             Written(f) == IF f.inode = request[r].fd THEN [f EXCEPT !.data = With(@)] ELSE f
  <2>1. files' = {Written(f) : f \in files}
    BY <1>8 DEF Write
  <2>2. last \in 0..Size /\ first \in Nat /\ first >= 1
    BY <1>8 DEF TypeOK, Shape, Write, Appending, Request
  <2>3. ASSUME NEW f \in files PROVE Written(f) \in File /\ Written(f).inode = f.inode
    <3>1. f \in File
      BY DEF TypeOK
    <3> HIDE DEF last, first
    <3>2. With(f.data) \in Content
      BY <3>1, <2>2 DEF File, Content, Bytes
    <3> HIDE DEF With
    <3> QED BY <3>1, <3>2 DEF File
  <2> HIDE DEF Written
  <2>4. files' \subseteq File
    BY <2>1, <2>3
  <2>5. files' = {} \/ \E f \in files' : files' = {f}
    BY <2>1 DEF Shape
  <2>6. Cardinality(files') <= 1
    BY <2>5, AtMostOne
  <2>7. \A f \in files' : f.inode = inodes /\ inodes > 0
    BY <2>1, <2>3 DEF Shape
  <2>8. TypeOK'
    BY <1>8, <2>4, <2>6 DEF TypeOK, Write, Goto
  <2> QED BY <1>8, <2>5, <2>7, <2>8 DEF TypeOK, Shape, Write, Goto, Appending
<1>9. ASSUME NEW r \in Requests, Save(r) PROVE TypeOK' /\ Shape'
  <2>1. request[r] \in Request /\ request[r].session.uploaded + request[r].len \in 0..Size
    BY <1>9 DEF TypeOK, Shape, Save, Appending, Request, Session
  <2>2. session' \in Session
    BY <1>9, <2>1 DEF Save, WriteSession, Request, Session
  <2> QED BY <1>6, <1>9, <2>2 DEF TypeOK, Save, WriteSession, Mark, When, Incidents
<1>10. ASSUME NEW r \in Requests, Finalize(r) PROVE TypeOK' /\ Shape'
  <2>1. CASE files = {}
    BY <1>6, <1>10, <2>1 DEF TypeOK, Finalize
  <2>2. CASE files # {}
    <3>1. PICK f \in files : stored' = stored \o <<f.data>>
      BY <1>10, <2>2 DEF Finalize
    <3>2. f.data \in Content
      BY DEF TypeOK, File
    <3>3. stored' \in Seq(Content)
      <4>1. <<f.data>> \in Seq(Content)
        BY <3>2
      <4> QED BY <3>1, <4>1 DEF TypeOK
    <3> QED BY <1>10, <2>2, <3>3 DEF TypeOK, Shape, Finalize, Goto, Appending
  <2> QED BY <2>1, <2>2
<1>11. ASSUME NEW r \in Requests, MarkCompleted(r) PROVE TypeOK' /\ Shape'
  <2>1. session' \in Session
    BY <1>11 DEF TypeOK, MarkCompleted, WriteSession, Request, Session
  <2>2. TypeOK'
    BY <1>11, <2>1 DEF TypeOK, MarkCompleted, WriteSession, Goto, Mark, When, Incidents
  <2> QED BY <1>11, <2>2 DEF TypeOK, Shape, MarkCompleted, Goto, Appending
<1>12. ASSUME NEW r \in Requests, Cleanup(r) PROVE TypeOK' /\ Shape'
  <2>1. request' \in [Requests -> Request]
    BY <1>12, NoRequestIsRequest DEF TypeOK, Cleanup, Done
  <2>2. TypeOK'
    BY <1>2, <1>12, <2>1 DEF TypeOK, Cleanup, Done, Goto
  <2> QED BY <1>12, <2>2 DEF TypeOK, Shape, Cleanup, Done, Goto, Appending
<1>13. ASSUME NEW r \in Requests, Delete(r) PROVE TypeOK' /\ Shape'
  BY <1>13 DEF TypeOK, Shape, Delete, Goto, Appending
<1>14. ASSUME NEW r \in Requests, Fault(r) PROVE TypeOK' /\ Shape'
  BY <1>6, <1>14 DEF TypeOK, Fault, Mark, When, Incidents
<1>15. CASE Expire
  BY <1>15 DEF TypeOK, Shape, Expire, Mark, Incidents
<1>16. CASE Crash
  BY <1>16, NoRequestIsRequest DEF TypeOK, Shape, Crash, Mark, When, Incidents, Appending
<1>17. CASE UNCHANGED vars
  BY <1>17 DEF TypeOK, Shape, vars
<1> QED
  BY <1>3, <1>4, <1>5, <1>7, <1>8, <1>9, <1>10, <1>11, <1>12, <1>13, <1>14, <1>15,
     <1>16, <1>17 DEF Next, Step

-----------------------------------------------------------------------------
(* The invariant's last two parts.                                          *)

\* What has gone wrong stays recorded.
LEMMA IncidentsStay ==
  ASSUME [Next]_vars
  PROVE  incidents \subseteq incidents'
BY DEF Next, Step, vars, Arrive, AppendChunk, Complete, Abort, Create, Open, Write, Save,
       WriteSession, Finalize, MarkCompleted, Cleanup, Delete, Fault, Expire, Crash, Mark

\* A chunk's bytes are added to the file that was opened, if it is still there.
LEMMA WriteGrows ==
  ASSUME TypeOK, Shape, NEW r \in Requests, Write(r),
         NEW last, last = request[r].offset + request[r].len
  PROVE  /\ files' = {} => files = {}
         /\ \A g \in files' : \E f \in files :
              /\ g.inode = f.inode
              /\ f.inode # request[r].fd => g = f
              /\ f.inode = request[r].fd =>
                   /\ g.data.right = f.data.right \cup (request[r].offset + 1)..last
                   /\ g.data.len = IF f.data.len < last THEN last ELSE f.data.len
<1> DEFINE With(data) == [len |-> IF data.len < last THEN last ELSE data.len,
                          right |-> data.right \cup (request[r].offset + 1)..last]
           Written(f) == IF f.inode = request[r].fd THEN [f EXCEPT !.data = With(@)] ELSE f
<1>1. files' = {Written(f) : f \in files}
  BY DEF Write
<1>2. ASSUME NEW f \in files
      PROVE  /\ Written(f).inode = f.inode
             /\ f.inode # request[r].fd => Written(f) = f
             /\ f.inode = request[r].fd =>
                  /\ Written(f).data.right = f.data.right \cup (request[r].offset + 1)..last
                  /\ Written(f).data.len = IF f.data.len < last THEN last ELSE f.data.len
  BY DEF TypeOK, File
<1> HIDE DEF Written
<1> QED BY <1>1, <1>2

LEMMA OverStep ==
  ASSUME TypeOK, Shape, OverWhenGone, [Next]_vars, ~Spoiled({"truncated", "revived"})'
  PROVE  OverWhenGone'
<1> USE NoneIsNoSession
<1>1. ASSUME NEW r \in Requests,
             (\E offset \in 0..Size, len \in Chunks : AppendChunk(r, offset, len))
               \/ Complete(r) \/ Abort(r)
      PROVE  OverWhenGone'
  BY <1>1 DEF TypeOK, OverWhenGone, Alive, AppendChunk, Complete, Abort, Arrive, Goto, Mark, When
<1>2. ASSUME NEW r \in Requests, Create(r) PROVE OverWhenGone'
  BY <1>2 DEF TypeOK, OverWhenGone, Alive, Create, Goto, Mark, When
<1>3. ASSUME NEW r \in Requests, Open(r) PROVE OverWhenGone'
  BY <1>3 DEF TypeOK, OverWhenGone, Alive, Open, Goto, Done
<1>4. ASSUME NEW r \in Requests, Write(r) PROVE OverWhenGone'
  <2>1. files' = {} => files = {}
    BY <1>4, WriteGrows
  <2> QED BY <1>4, <2>1 DEF TypeOK, OverWhenGone, Alive, Write, Goto
<1>5. ASSUME NEW r \in Requests, Save(r) PROVE OverWhenGone'
  <2>1. session # None /\ ~session.completed
    BY <1>5 DEF Save, WriteSession, Mark, When, Spoiled
  <2>2. /\ pc' = [pc EXCEPT ![r] = "idle"] /\ UNCHANGED <<files, inodes>>
        /\ "recreated" \in incidents' => "recreated" \in incidents
    BY <1>5 DEF Save, WriteSession, Goto, Done, Mark, When
  <2> QED BY <2>1, <2>2 DEF TypeOK, OverWhenGone, Alive
<1>6. ASSUME NEW r \in Requests, Finalize(r) PROVE OverWhenGone'
  BY <1>6 DEF TypeOK, OverWhenGone, Alive, Finalize, Goto, Done
<1>7. ASSUME NEW r \in Requests, MarkCompleted(r) PROVE OverWhenGone'
  <2>1. ~Alive'
    BY <1>7 DEF TypeOK, Alive, MarkCompleted, WriteSession, Request, Session
  <2> QED BY <2>1 DEF OverWhenGone
<1>8. ASSUME NEW r \in Requests, Cleanup(r) PROVE OverWhenGone'
  BY <1>8 DEF TypeOK, OverWhenGone, Alive, Cleanup, Goto, Done
<1>9. CASE (\E r \in Requests : Delete(r)) \/ Expire
  BY <1>9 DEF OverWhenGone, Alive, Delete, Expire
<1>10. CASE (\E r \in Requests : Fault(r)) \/ Crash
  BY <1>10 DEF TypeOK, OverWhenGone, Alive, Fault, Crash, Goto, Done, Mark, When
<1>11. CASE UNCHANGED vars
  BY <1>11 DEF OverWhenGone, Alive, vars
<1> QED
  BY <1>1, <1>2, <1>3, <1>4, <1>5, <1>6, <1>7, <1>8, <1>9, <1>10, <1>11 DEF Next, Step

\* What the requests and the session say are numbers.
LEMMA Lengths ==
  ASSUME TypeOK
  PROVE  /\ session.uploaded \in Nat
         /\ \A r \in Requests : /\ request[r].session.uploaded \in Nat
                                /\ request[r].offset + request[r].len \in Nat
<1>1. session.uploaded \in Nat
  BY NoneIsNoSession DEF TypeOK, Session
<1>2. ASSUME NEW r \in Requests
      PROVE  request[r].session.uploaded \in Nat /\ request[r].offset + request[r].len \in Nat
  BY UploadsAssumption DEF UploadsAssumption, TypeOK, Request, Session
<1> QED BY <1>1, <1>2

\* A request that has ended claims nothing.
LEMMA NothingLeft ==
  ASSUME TypeOK, Kept, NEW r \in Requests, Done(r), UNCHANGED <<files, inodes, sized>>
  PROVE  \A q \in Requests :
           /\ Covered(request[q].session.uploaded)'
           /\ pc'[q] = "save" => Covered(request[q].offset + request[q].len)'
           /\ pc'[q] = "finalize" /\ sized' => request'[q].session.uploaded = Size
<1>1. \A q \in Requests \ {r} : request'[q] = request[q] /\ pc'[q] = pc[q]
  BY DEF TypeOK, Done, Goto
<1>2. request'[r].session.uploaded = 0 /\ pc'[r] = "idle"
  BY DEF TypeOK, Done, Goto, NoRequest
<1>3. Covered(0)'
  BY DEF TypeOK, Covered, File, Content
<1> QED BY <1>1, <1>2, <1>3 DEF Kept, Covered

\* Once everything is well, a covered length stays covered as long as the file stays.
LEMMA KeptStep ==
  ASSUME TypeOK, Shape, Kept, [Next]_vars, TypeOK', Shape',
         ~Spoiled({"truncated", "recreated"})'
  PROVE  Kept'
<1> USE UploadsAssumption DEF UploadsAssumption
<1>1. ASSUME UNCHANGED <<files, inodes>>, NEW n, Covered(n) PROVE Covered(n)'
  BY <1>1 DEF Covered
<1>2. ASSUME NEW r \in Requests, NEW offset \in 0..Size, NEW len \in Chunks,
             AppendChunk(r, offset, len)
      PROVE  Kept'
  BY <1>2 DEF TypeOK, Kept, Covered, Unbroken, AppendChunk, Goto
<1>3. ASSUME NEW r \in Requests, Complete(r) PROVE Kept'
  BY <1>3 DEF TypeOK, Kept, Covered, Unbroken, Complete, Whole, NoRequest, Goto
<1>4. ASSUME NEW r \in Requests, Abort(r) PROVE Kept'
  BY <1>4 DEF TypeOK, Kept, Covered, Unbroken, Abort, Goto
<1>5. ASSUME NEW r \in Requests, Create(r) PROVE Kept'
  <2>1. /\ inodes' = (IF files = {} THEN inodes + 1 ELSE inodes)
        /\ files' = {[inode |-> inodes', data |-> Empty]}
        /\ request' = [request EXCEPT ![r].fd = inodes']
        /\ pc' = [pc EXCEPT ![r] = "write"]
        /\ UNCHANGED <<session, sized, stored>>
    BY <1>5 DEF Create, Goto
  <2>0. /\ (\E f \in files : f.data.len > 0) => "truncated" \in incidents'
        /\ files = {} /\ inodes > 0 => "recreated" \in incidents'
    BY <1>5 DEF Create, Mark, When
  <2>2. files = {} => inodes = 0
    BY <2>0 DEF TypeOK, Spoiled
  <2>3. \A f \in files : f.data.len = 0
    BY <2>0 DEF TypeOK, Spoiled, File, Content
  <2>4. \A g \in files' : g.data.len = 0 /\ g.data.right = 1..0
    BY <2>1 DEF Empty
  <2>5. ASSUME NEW n \in Nat, Covered(n) PROVE Covered(n)'
    <3>1. n = 0
      BY <2>2, <2>3, <2>5 DEF Shape, Covered
    <3> QED BY <2>4, <3>1 DEF Covered
  <2>6. \A q \in Requests : /\ request'[q].session = request[q].session
                           /\ request'[q].offset = request[q].offset
                           /\ request'[q].len = request[q].len
    BY <2>1 DEF TypeOK, Request
  <2>7. inodes' <= 1
    BY <2>1, <2>2 DEF TypeOK, Kept
  <2>8. \A g \in files' : g.data.right = 1..g.data.len
    BY <2>4
  <2> QED BY <2>1, <2>5, <2>6, <2>7, <2>8, Lengths DEF TypeOK, Kept, Unbroken
<1>6. ASSUME NEW r \in Requests, Open(r) PROVE Kept'
  <2>1. CASE files = {}
    BY <1>6, <2>1, NothingLeft DEF Kept, Covered, Unbroken, Open
  <2>2. CASE files # {}
    <3>1. \A q \in Requests : /\ request'[q].session = request[q].session
                             /\ request'[q].offset = request[q].offset
                             /\ request'[q].len = request[q].len
      <4>1. PICK f \in files : request' = [request EXCEPT ![r].fd = f.inode]
        BY <1>6, <2>2 DEF Open
      <4> QED BY <4>1 DEF TypeOK, Request
    <3>2. pc' = [pc EXCEPT ![r] = "write"] /\ UNCHANGED <<files, inodes, session, sized, stored>>
      BY <1>6, <2>2 DEF Open, Goto
    <3> QED BY <3>1, <3>2 DEF TypeOK, Kept, Covered, Unbroken
  <2> QED BY <2>1, <2>2
<1>7. ASSUME NEW r \in Requests, Write(r) PROVE Kept'
  <2> DEFINE last == request[r].offset + request[r].len
  <2>1. /\ request[r].session.uploaded = request[r].offset /\ request[r].fd = inodes
        /\ request[r].offset \in Nat /\ last \in Nat /\ last >= request[r].offset /\ inodes > 0
    BY <1>7 DEF TypeOK, Shape, Kept, Write, Appending, Request
  <2> HIDE DEF last
  <2>2. \A g \in files' : \E f \in files :
           /\ f.inode = inodes
           /\ g.data.right = f.data.right \cup (request[r].offset + 1)..last
           /\ g.data.len = IF f.data.len < last THEN last ELSE f.data.len
    BY <1>7, <2>1, WriteGrows DEF last, Shape
  <2>3. \A f \in files : /\ f.data.len \in Nat /\ f.data.right = 1..f.data.len
                         /\ request[r].offset <= f.data.len
    BY <2>1 DEF TypeOK, Kept, Covered, File, Content
  <2>4. \A g \in files' : g.data.right = 1..g.data.len /\ last <= g.data.len
    <3> SUFFICES ASSUME NEW g \in files' PROVE g.data.right = 1..g.data.len /\ last <= g.data.len
      OBVIOUS
    <3>1. PICK f \in files : /\ g.data.right = f.data.right \cup (request[r].offset + 1)..last
                            /\ g.data.len = IF f.data.len < last THEN last ELSE f.data.len
      BY <2>2
    <3>2. f.data.len \in Nat /\ f.data.right = 1..f.data.len /\ request[r].offset <= f.data.len
      BY <2>3
    <3>3. CASE f.data.len < last
      BY <2>1, <3>1, <3>2, <3>3
    <3>4. CASE ~(f.data.len < last)
      BY <2>1, <3>1, <3>2, <3>4
    <3> QED BY <3>3, <3>4
  <2>5. pc' = [pc EXCEPT ![r] = "save"] /\ UNCHANGED <<request, session, sized, stored, inodes>>
    BY <1>7 DEF Write, Goto
  <2>6. ASSUME NEW n \in Nat, Covered(n) PROVE Covered(n)'
    BY <2>1, <2>2, <2>3, <2>5, <2>6 DEF Covered
  <2>7. Covered(request[r].offset + request[r].len)'
    BY <2>1, <2>4, <2>5 DEF last, Covered
  <2> QED BY <2>4, <2>5, <2>6, <2>7, Lengths DEF TypeOK, Kept, Unbroken
<1>8. ASSUME NEW r \in Requests, Save(r) PROVE Kept'
  <2>1. session'.uploaded = request[r].offset + request[r].len
    BY <1>8 DEF TypeOK, Shape, Save, WriteSession, Appending, Request, Session
  <2>2. Covered(session.uploaded)'
    BY <1>8, <2>1 DEF Kept, Covered, Save
  <2> QED BY <1>8, <2>2, NothingLeft DEF Kept, Unbroken, Save
<1>9. ASSUME NEW r \in Requests, Finalize(r) PROVE Kept'
  <2>1. CASE files = {}
    BY <1>9, <2>1, NothingLeft DEF Kept, Covered, Unbroken, Finalize
  <2>2. CASE files # {}
    <3>1. PICK f \in files : stored' = stored \o <<f.data>>
      BY <1>9, <2>2 DEF Finalize
    <3>2. Unbroken(f.data)
      <4>1. f.data.len \in 0..Size /\ f.data.right = 1..f.data.len
        BY DEF TypeOK, Kept, File, Content
      <4>2. sized => request[r].session.uploaded = Size /\ Size <= f.data.len
        BY <1>9 DEF Kept, Covered, Finalize
      <4> QED BY <4>1, <4>2 DEF Unbroken
    <3>3. \A i \in DOMAIN stored' : Unbroken(stored'[i])
      BY <3>1, <3>2 DEF TypeOK, Kept
    <3>4. /\ pc' = [pc EXCEPT ![r] = "mark"]
          /\ UNCHANGED <<request, files, inodes, session, sized>>
      BY <1>9, <2>2 DEF Finalize, Goto
    <3> QED BY <3>3, <3>4 DEF TypeOK, Kept, Covered, Unbroken
  <2> QED BY <2>1, <2>2
<1>10. ASSUME NEW r \in Requests, MarkCompleted(r) PROVE Kept'
  <2>1. session'.uploaded = request[r].session.uploaded
    BY <1>10 DEF TypeOK, MarkCompleted, WriteSession, Request, Session
  <2>2. /\ pc' = [pc EXCEPT ![r] = "cleanup"]
        /\ UNCHANGED <<request, files, inodes, sized, stored>>
    BY <1>10 DEF MarkCompleted, Goto
  <2> QED BY <2>1, <2>2 DEF TypeOK, Kept, Covered, Unbroken
<1>11. ASSUME NEW r \in Requests, Cleanup(r) PROVE Kept'
  <2>1. /\ Done(r) /\ files' = {} /\ UNCHANGED <<session, sized, stored, inodes>>
    BY <1>11 DEF Cleanup
  <2>2. \A q \in Requests : /\ q # r => request'[q] = request[q] /\ pc'[q] = pc[q]
                           /\ request'[r].session.uploaded = 0 /\ pc'[r] = "idle"
    BY <2>1 DEF TypeOK, Done, Goto, NoRequest
  <2> QED BY <2>1, <2>2 DEF Kept, Covered, Unbroken
<1>12. ASSUME (\E r \in Requests : Delete(r)) \/ Expire PROVE Kept'
  <2>1. /\ session'.uploaded = 0 /\ UNCHANGED <<request, files, inodes, sized, stored>>
        /\ \A r \in Requests : pc'[r] \in {pc[r], "cleanup"}
    BY <1>12, NoneIsNoSession DEF TypeOK, Delete, Expire, Goto
  <2>2. Covered(session.uploaded)'
    BY <2>1 DEF TypeOK, Covered, File, Content
  <2> QED BY <2>1, <2>2 DEF Kept, Covered, Unbroken
<1>13. ASSUME NEW r \in Requests, Fault(r) PROVE Kept'
  BY <1>13, NothingLeft DEF Kept, Covered, Unbroken, Fault
<1>13a. CASE Crash
  <2>1. /\ UNCHANGED <<session, files, inodes, sized, stored>>
        /\ \A r \in Requests : request'[r].session.uploaded = 0 /\ pc'[r] = "idle"
    BY <1>13a DEF Crash, NoRequest
  <2>2. Covered(0)'
    BY <2>1 DEF TypeOK, Covered, File, Content
  <2> QED BY <2>1, <2>2 DEF Kept, Covered, Unbroken
<1>14. CASE UNCHANGED vars
  BY <1>14 DEF Kept, Covered, Unbroken, vars
<1> QED
  BY <1>2, <1>3, <1>4, <1>5, <1>6, <1>7, <1>8, <1>9, <1>10, <1>11, <1>12, <1>13, <1>13a, <1>14
     DEF Next, Step

-----------------------------------------------------------------------------
(* The theorems.                                                            *)

LEMMA Inductive == IInv /\ [Next]_vars => IInv'
<1> SUFFICES ASSUME IInv, [Next]_vars PROVE IInv'
  OBVIOUS
<1>1. TypeOK' /\ Shape'
  BY TypeStep DEF IInv
<1>2. ASSUME ~Spoiled({"truncated", "revived"})' PROVE OverWhenGone'
  BY <1>2, IncidentsStay, OverStep DEF IInv, Spoiled
<1>3. ASSUME ~Spoiled({"truncated", "recreated"})' PROVE Kept'
  BY <1>1, <1>3, IncidentsStay, KeptStep DEF IInv, Spoiled
<1> QED BY <1>1, <1>2, <1>3 DEF IInv

LEMMA Initial == Init => IInv
<1> SUFFICES ASSUME Init PROVE IInv
  OBVIOUS
<1>1. OverWhenGone
  BY DEF Init, OverWhenGone
<1>2. Kept
  BY DEF Init, Kept, Covered, NoRequest
<1> QED BY <1>1, <1>2, TypeInit DEF IInv

LEMMA Invariant == Spec => []IInv
BY Initial, Inductive, PTL DEF Spec

\* The session, the file and the requests are always what TypeOK says; in particular the
\* bytes counted never pass the size of the source.
THEOREM TypeCorrect == Spec => []TypeOK
<1>1. IInv => TypeOK
  BY DEF IInv
<1> QED BY <1>1, Invariant, PTL

LEMMA KeepsAcknowledged == IInv => AcknowledgedBytesKept
<1> SUFFICES ASSUME IInv, Alive, ~Spoiled({"truncated", "revived"}),
                    NEW b \in 1..session.uploaded
             PROVE  \E f \in files : b \in f.data.right
  BY DEF AcknowledgedBytesKept, Alive
<1>1. OverWhenGone
  BY DEF IInv
<1>2. "recreated" \notin incidents /\ ~(files = {} /\ inodes > 0)
  BY <1>1 DEF OverWhenGone
<1>3. Kept
  BY <1>2 DEF IInv, Spoiled
<1>4. session.uploaded \in Nat /\ session.uploaded # 0 /\ inodes \in Nat
  BY Lengths DEF IInv, TypeOK
<1>5. PICK f \in files : TRUE
  BY <1>2, <1>3, <1>4 DEF Kept, Covered
<1>6. f.data.right = 1..f.data.len /\ session.uploaded <= f.data.len /\ f.data.len \in Nat
  BY <1>3 DEF IInv, TypeOK, File, Content, Kept, Covered
<1> QED BY <1>4, <1>6

\* The bytes a session has acknowledged stay in its file, in place, whatever requests cross
\* (UploadSessionService.appendChunk), unless the file was truncated or the session revived.
THEOREM AcknowledgedStay == Spec => []AcknowledgedBytesKept
BY Invariant, KeepsAcknowledged, PTL

LEMMA StoresWhole == IInv => StoredWhole
BY DEF IInv, StoredWhole, Kept, Unbroken

\* What a completion stores is the source without a hole (UploadSessionService.completeSession),
\* unless the file was truncated or recreated.
THEOREM StoredIsWhole == Spec => []StoredWhole
BY Invariant, StoresWhole, PTL

\* Both, at once: what arrives is kept and stored as it was sent, up to a truncation, a revival
\* or a file created again.
THEOREM ArrivedIsKept == Spec => []BytesKept
<1>1. IInv => BytesKept
  BY KeepsAcknowledged, StoresWhole DEF BytesKept
<1> QED BY <1>1, Invariant, PTL

LEMMA RewindIsRecorded ==
  ASSUME TypeOK, Shape, [Next]_vars, session # None, session' # None,
         session'.uploaded < session.uploaded
  PROVE  "rewound" \in incidents'
<1>1. session \in Session /\ session.uploaded \in Nat /\ ~(session.uploaded < session.uploaded)
  BY UploadsAssumption DEF UploadsAssumption, TypeOK, Session
<1>2. ASSUME NEW r \in Requests, Save(r) PROVE "rewound" \in incidents'
  <2>1. session'.uploaded = request[r].session.uploaded + request[r].len
    BY <1>2 DEF TypeOK, Save, WriteSession, Request, Session
  <2>2. session.uploaded # request[r].session.uploaded
    BY <1>1, <2>1, UploadsAssumption DEF UploadsAssumption, TypeOK, Request, Session
  <2> QED BY <1>2, <2>2 DEF Save, WriteSession, Mark, When
<1>3. ASSUME NEW r \in Requests, MarkCompleted(r) PROVE "rewound" \in incidents'
  <2>1. session'.uploaded = request[r].session.uploaded
    BY <1>3 DEF TypeOK, MarkCompleted, WriteSession, Request, Session
  <2> QED BY <1>1, <1>3, <2>1 DEF MarkCompleted, WriteSession, Mark, When
<1>4. session' = session \/ session' = None \/ \E r \in Requests : Save(r) \/ MarkCompleted(r)
  BY DEF Next, Step, vars, AppendChunk, Complete, Abort, Create, Open, Write, Finalize, Cleanup,
         Delete, Fault, Expire, Crash
<1> QED BY <1>1, <1>2, <1>3, <1>4

\* The offset a session tells goes back only when a session is saved over one saved since
\* it was read (UploadSessionService.writeSession).
THEOREM RewindsAreRecorded == Spec => NeverRewinds
<1>1. IInv /\ [Next]_vars =>
        [session # None /\ session' # None /\ session'.uploaded < session.uploaded
           => "rewound" \in incidents']_vars
  BY RewindIsRecorded DEF IInv
<1> QED BY <1>1, Invariant, PTL DEF Spec, NeverRewinds

-----------------------------------------------------------------------------
(* Requests that do not overlap.                                            *)

Again == "again" \in incidents \/ "revived" \in incidents

\* What holds while no two requests have been in progress together: the session is the one
\* the request has read, or has expired, and a request that starts finds nothing stored.
Sequential ==
  /\ ~Spoiled({"truncated", "recreated", "rewound"})
  /\ "revived" \in incidents => "expired" \in incidents
  /\ files = {} /\ inodes > 0 => ~Alive
  /\ \A q, r \in Requests : pc[q] # "idle" /\ pc[r] # "idle" => q = r
  /\ \A r \in Requests :
       /\ pc[r] \in Appending \cup {"finalize", "mark"} =>
            /\ ~request[r].session.completed
            /\ session = request[r].session \/ (session = None /\ "expired" \in incidents)
       /\ pc[r] = "create" => files = {} /\ inodes = 0
       /\ pc[r] \in {"open", "write", "save"} => files # {}
       /\ pc[r] = "cleanup" => ~Alive
       /\ pc[r] \in Appending \cup {"finalize"} => stored = <<>> \/ Again
  /\ stored = <<>> \/ ~Alive \/ (\E r \in Requests : pc[r] = "mark") \/ Again
  /\ Len(stored) <= 1 \/ Again

Others(r) == \A q \in Requests \ {r} : pc[q] = "idle"

LEMMA SequentialStep ==
  ASSUME TypeOK, Shape, Sequential, [Next]_vars, "overlap" \notin incidents'
  PROVE  Sequential'
<1> USE NoneIsNoSession
<1>1. ASSUME NEW r \in Requests, Arrive(r), pc' = [pc EXCEPT ![r] = pc'[r]]
      PROVE  /\ \A q \in Requests : pc[q] = "idle"
             /\ \A q \in Requests \ {r} : pc'[q] = "idle"
             /\ incidents' = incidents
             /\ session \in Session
  BY <1>1 DEF TypeOK, Arrive, Mark, When
<1>2. ASSUME NEW r \in Requests, NEW offset \in 0..Size, NEW len \in Chunks,
             AppendChunk(r, offset, len)
      PROVE  Sequential'
  <2>1. /\ Arrive(r) /\ ~session.completed /\ pc' = [pc EXCEPT ![r] = pc'[r]]
        /\ pc'[r] = IF files = {} THEN "create" ELSE "open"
        /\ request'[r].session = session
        /\ UNCHANGED <<session, files, stored, inodes>>
    BY <1>2 DEF TypeOK, AppendChunk, Goto
  <2>2. Alive /\ (stored = <<>> \/ Again) /\ (files = {} => inodes = 0)
    BY <1>1, <2>1 DEF Alive, Sequential, TypeOK
  <2>3. /\ ~Spoiled({"truncated", "recreated", "rewound"})' /\ (Again <=> Again')
        /\ "revived" \in incidents' => "expired" \in incidents'
        /\ Len(stored') <= 1 \/ Again'
    BY <1>1, <2>1 DEF Sequential, Spoiled, Again
  <2>4. \A q \in Requests \ {r} : pc'[q] = "idle"
    BY <1>1, <2>1
  <2>5. \A q \in Requests :
          /\ pc'[q] # "idle" => q = r
          /\ pc'[q] \in Appending \cup {"finalize", "mark"} =>
               ~request'[q].session.completed /\ session' = request'[q].session
    BY <2>1, <2>4 DEF Appending
  <2>6. \A q \in Requests :
          /\ pc'[q] = "create" => files' = {} /\ inodes' = 0
          /\ pc'[q] \in {"open", "write", "save"} => files' # {}
          /\ pc'[q] # "cleanup"
    BY <2>1, <2>2, <2>4
  <2>7. /\ stored' = <<>> \/ Again'
        /\ files' = {} /\ inodes' > 0 => ~Alive'
    BY <2>1, <2>2, <2>3 DEF Sequential, Alive
  <2> QED BY <2>3, <2>5, <2>6, <2>7 DEF Sequential, Appending
<1>3. ASSUME NEW r \in Requests, Complete(r) PROVE Sequential'
  <2>1. /\ Arrive(r) /\ ~session.completed /\ pc' = [pc EXCEPT ![r] = pc'[r]]
        /\ pc'[r] = "finalize"
        /\ request'[r].session = session
        /\ UNCHANGED <<session, files, stored, inodes>>
    BY <1>3 DEF TypeOK, Complete, Whole, Goto, NoRequest
  <2>2. Alive /\ (stored = <<>> \/ Again)
    BY <1>1, <2>1 DEF Alive, Sequential
  <2>3. /\ ~Spoiled({"truncated", "recreated", "rewound"})' /\ (Again <=> Again')
        /\ "revived" \in incidents' => "expired" \in incidents'
        /\ Len(stored') <= 1 \/ Again'
    BY <1>1, <2>1 DEF Sequential, Spoiled, Again
  <2>4. \A q \in Requests \ {r} : pc'[q] = "idle"
    BY <1>1, <2>1
  <2>5. \A q \in Requests :
          /\ pc'[q] # "idle" => q = r
          /\ pc'[q] \in Appending \cup {"finalize", "mark"} =>
               ~request'[q].session.completed /\ session' = request'[q].session
    BY <2>1, <2>4 DEF Appending
  <2>6. \A q \in Requests :
          /\ pc'[q] = "create" => files' = {} /\ inodes' = 0
          /\ pc'[q] \in {"open", "write", "save"} => files' # {}
          /\ pc'[q] # "cleanup"
    BY <2>1, <2>2, <2>4
  <2>7. /\ stored' = <<>> \/ Again'
        /\ files' = {} /\ inodes' > 0 => ~Alive'
    BY <2>1, <2>2, <2>3 DEF Sequential, Alive
  <2> QED BY <2>3, <2>5, <2>6, <2>7 DEF Sequential, Appending
<1>4. ASSUME NEW r \in Requests, Abort(r) PROVE Sequential'
  <2>1. /\ Arrive(r) /\ pc' = [pc EXCEPT ![r] = pc'[r]] /\ pc'[r] = "delete"
        /\ UNCHANGED <<session, files, request, stored, inodes>>
    BY <1>4 DEF TypeOK, Abort, Goto
  <2> QED BY <1>1, <2>1 DEF Sequential, Spoiled, Alive, Again, Appending
<1>5. ASSUME NEW r \in Requests, pc[r] # "idle" PROVE Others(r)
  BY <1>5 DEF Sequential, Others
<1>6. ASSUME NEW r \in Requests, Create(r) PROVE Sequential'
  <2>1. /\ pc[r] = "create" /\ files = {} /\ inodes = 0 /\ Others(r)
        /\ pc' = [pc EXCEPT ![r] = "write"]
        /\ files' # {} /\ UNCHANGED <<session, stored>>
        /\ request'[r].session = request[r].session
    BY <1>5, <1>6 DEF Sequential, TypeOK, Create, Goto, Request
  <2>2. incidents' = incidents
    BY <1>6, <2>1 DEF Create, Mark, When
  <2> QED BY <2>1, <2>2 DEF TypeOK, Sequential, Others, Spoiled, Alive, Again, Appending
<1>7. ASSUME NEW r \in Requests, Open(r) PROVE Sequential'
  <2>1. /\ pc[r] = "open" /\ files # {} /\ Others(r)
        /\ UNCHANGED <<session, files, stored, inodes, incidents>>
    BY <1>5, <1>7 DEF Sequential, Open
  <2>2. PICK f \in files : request' = [request EXCEPT ![r].fd = f.inode]
    BY <1>7, <2>1 DEF Open
  <2>3. pc' = [pc EXCEPT ![r] = "write"] /\ request'[r].session = request[r].session
    BY <1>7, <2>1, <2>2 DEF TypeOK, Open, Goto, Request
  <2> QED BY <2>1, <2>3 DEF TypeOK, Sequential, Others, Spoiled, Alive, Again, Appending
<1>8. ASSUME NEW r \in Requests, Write(r) PROVE Sequential'
  <2>1. files' = {} <=> files = {}
    BY <1>8 DEF Write
  <2>2. /\ pc[r] = "write" /\ Others(r) /\ pc' = [pc EXCEPT ![r] = "save"]
        /\ UNCHANGED <<session, request, stored, inodes, incidents>>
    BY <1>5, <1>8 DEF Write, Goto
  <2> QED BY <2>1, <2>2 DEF TypeOK, Sequential, Others, Spoiled, Alive, Again, Appending
<1>9. ASSUME NEW r \in Requests, NEW new, WriteSession(r, new),
             pc[r] \in {"save", "mark"}
      PROVE  /\ incidents' \in {incidents, incidents \cup {"revived"}}
             /\ "revived" \in incidents' => "expired" \in incidents'
             /\ session' = new
             /\ session = None => "revived" \in incidents'
  <2>1. request[r].session \in Session
    BY DEF TypeOK, Request
  <2>2. CASE session = request[r].session /\ ~request[r].session.completed
    <3>1. incidents' = incidents /\ session # None /\ session' = new
      BY <1>9, <2>1, <2>2 DEF WriteSession, Mark, When
    <3> QED BY <3>1 DEF Sequential
  <2>3. CASE session = None /\ "expired" \in incidents
    <3>1. incidents' = incidents \cup {"revived"} /\ session' = new
      BY <1>9, <2>3 DEF WriteSession, Mark, When
    <3> QED BY <2>3, <3>1
  <2> QED BY <1>9, <2>2, <2>3 DEF Sequential, Appending
<1>10. ASSUME NEW r \in Requests, Save(r) PROVE Sequential'
  <2>1. /\ pc[r] = "save" /\ files # {} /\ Others(r)
        /\ pc' = [pc EXCEPT ![r] = "idle"]
        /\ UNCHANGED <<files, stored, inodes>>
        /\ stored = <<>> \/ Again
    BY <1>5, <1>10 DEF Sequential, Save, Done, Goto, Appending
  <2>2. /\ incidents' \in {incidents, incidents \cup {"revived"}}
        /\ "revived" \in incidents' => "expired" \in incidents'
    BY <1>9, <1>10 DEF Save
  <2>3. /\ ~Spoiled({"truncated", "recreated", "rewound"})' /\ (Again => Again')
    BY <2>2 DEF Sequential, Spoiled, Again
  <2>4. \A q \in Requests : pc'[q] = "idle"
    BY <2>1 DEF TypeOK, Others
  <2> QED BY <2>1, <2>2, <2>3, <2>4 DEF Sequential, Appending
<1>11. ASSUME NEW r \in Requests, Finalize(r) PROVE Sequential'
  <2>1. /\ pc[r] = "finalize" /\ Others(r)
        /\ UNCHANGED <<session, files, inodes, incidents>>
        /\ stored = <<>> \/ Again
    BY <1>5, <1>11 DEF Sequential, Finalize, Appending
  <2>2. CASE files = {}
    <3>1. pc' = [pc EXCEPT ![r] = "idle"] /\ UNCHANGED stored
      BY <1>11, <2>2 DEF Finalize, Done, Goto
    <3> QED BY <2>1, <3>1 DEF TypeOK, Sequential, Others, Spoiled, Alive, Again, Appending
  <2>3. CASE files # {}
    <3>1. PICK f \in files : stored' = stored \o <<f.data>>
      BY <1>11, <2>3 DEF Finalize
    <3>2. pc' = [pc EXCEPT ![r] = "mark"] /\ UNCHANGED request
      BY <1>11, <2>3 DEF Finalize, Goto
    <3>3. Len(stored') <= 1 \/ Again
      BY <2>1, <3>1 DEF TypeOK
    <3> QED BY <2>1, <3>2, <3>3 DEF TypeOK, Sequential, Others, Spoiled, Alive, Again, Appending
  <2> QED BY <2>2, <2>3
<1>12. ASSUME NEW r \in Requests, MarkCompleted(r) PROVE Sequential'
  <2>1. /\ pc[r] = "mark" /\ Others(r) /\ pc' = [pc EXCEPT ![r] = "cleanup"]
        /\ UNCHANGED <<request, files, stored, inodes>>
    BY <1>5, <1>12 DEF MarkCompleted, Goto
  <2>2. /\ incidents' \in {incidents, incidents \cup {"revived"}}
        /\ "revived" \in incidents' => "expired" \in incidents'
    BY <1>9, <1>12 DEF MarkCompleted
  <2>3. ~Alive'
    BY <1>12 DEF TypeOK, Alive, MarkCompleted, WriteSession, Request, Session
  <2>4. /\ ~Spoiled({"truncated", "recreated", "rewound"})' /\ (Again => Again')
    BY <2>2 DEF Sequential, Spoiled, Again
  <2>5. pc'[r] = "cleanup" /\ \A q \in Requests \ {r} : pc'[q] = "idle"
    BY <2>1 DEF TypeOK, Others
  <2> QED BY <2>1, <2>2, <2>3, <2>4, <2>5 DEF Sequential, Appending
<1>13. ASSUME NEW r \in Requests, Cleanup(r) PROVE Sequential'
  <2>1. /\ pc[r] = "cleanup" /\ Others(r) /\ pc' = [pc EXCEPT ![r] = "idle"] /\ ~Alive
        /\ UNCHANGED <<session, stored, inodes, incidents>>
    BY <1>5, <1>13 DEF Sequential, Cleanup, Done, Goto
  <2> QED BY <2>1 DEF TypeOK, Sequential, Others, Spoiled, Alive, Again, Appending
<1>14. ASSUME NEW r \in Requests, Delete(r) PROVE Sequential'
  <2>1. /\ pc[r] = "delete" /\ Others(r) /\ pc' = [pc EXCEPT ![r] = "cleanup"]
        /\ session' = None
        /\ UNCHANGED <<files, stored, inodes, incidents>>
    BY <1>5, <1>14 DEF Delete, Goto
  <2> QED BY <2>1 DEF TypeOK, Sequential, Others, Spoiled, Alive, Again, Appending
<1>15. CASE Expire
  BY <1>15 DEF Sequential, Expire, Mark, Spoiled, Alive, Again
<1>16. ASSUME NEW r \in Requests, Fault(r) PROVE Sequential'
  <2>1. /\ pc[r] # "idle" /\ Others(r) /\ pc' = [pc EXCEPT ![r] = "idle"]
        /\ incidents' = IF pc[r] = "mark" THEN incidents \cup {"again"} ELSE incidents
        /\ UNCHANGED <<session, files, stored, inodes>>
    BY <1>5, <1>16 DEF Fault, Done, Goto, Mark, When
  <2> QED BY <2>1 DEF TypeOK, Sequential, Others, Spoiled, Alive, Again, Appending
<1>17. CASE Crash
  <2>1. /\ \A r \in Requests : pc'[r] = "idle"
        /\ incidents' = IF \E r \in Requests : pc[r] = "mark"
                        THEN incidents \cup {"again"} ELSE incidents
        /\ UNCHANGED <<session, files, stored, inodes>>
    BY <1>17 DEF Crash, Mark, When
  <2> QED BY <2>1 DEF Sequential, Spoiled, Alive, Again, Appending
<1>18. CASE UNCHANGED vars
  BY <1>18 DEF Sequential, Spoiled, Alive, Again, vars
<1> QED
  BY <1>2, <1>3, <1>4, <1>6, <1>7, <1>8, <1>10, <1>11, <1>12, <1>13, <1>14, <1>15, <1>16,
     <1>17, <1>18 DEF Next, Step

\* Requests that do not overlap, in particular those of one client that waits for its
\* answers, are safe: nothing is truncated or rewound, nothing revived but after the TTL,
\* and the object is stored once unless its completion was cut off.
THEOREM SequentialRequestsAreSafe == Spec => []SequentialIsSafe
<1> DEFINE J == "overlap" \notin incidents => Sequential
<1>1. Init => J
  BY DEF Init, Sequential, Spoiled, Again, Appending
<1>2. IInv /\ J /\ [Next]_vars => J'
  BY SequentialStep, IncidentsStay DEF IInv
<1>3. IInv /\ J => SequentialIsSafe
  <2>1. TypeOK => Len(stored) \in Nat
    BY DEF TypeOK
  <2> QED BY <2>1 DEF IInv, Sequential, SequentialIsSafe, Spoiled, Again
<1>4. Spec => []J
  BY <1>1, <1>2, Invariant, PTL DEF Spec
<1> QED BY <1>3, <1>4, Invariant, PTL

-----------------------------------------------------------------------------
(* Uploads implements UploadLog.                                            *)

\* A session is marked as completed only when it has been stored.
MarkedIsStored == \A r \in Requests : pc[r] = "mark" => stored # <<>>

LEMMA MarkedStep ==
  ASSUME TypeOK, MarkedIsStored, [Next]_vars
  PROVE  MarkedIsStored'
<1>1. ASSUME NEW r \in Requests, Finalize(r) PROVE MarkedIsStored'
  <2>1. CASE files = {}
    BY <1>1, <2>1 DEF TypeOK, MarkedIsStored, Finalize, Done, Goto
  <2>2. CASE files # {}
    <3>1. PICK f \in files : stored' = stored \o <<f.data>>
      BY <1>1, <2>2 DEF Finalize
    <3>2. f.data \in Content
      BY DEF TypeOK, File
    <3>3. stored' # <<>>
      BY <3>1, <3>2, ConcatEmptySeq, ConcatEqualIffEmpty DEF TypeOK
    <3> QED BY <3>3 DEF MarkedIsStored
  <2> QED BY <2>1, <2>2
<1>2. ASSUME UNCHANGED stored, \A r \in Requests : pc'[r] = "mark" => pc[r] = "mark"
      PROVE  MarkedIsStored'
  BY <1>2 DEF MarkedIsStored
<1>3. ASSUME NEW r \in Requests,
             (\E offset \in 0..Size, len \in Chunks : AppendChunk(r, offset, len))
               \/ Complete(r) \/ Abort(r) \/ Create(r) \/ Open(r) \/ Write(r) \/ Save(r)
      PROVE  MarkedIsStored'
  BY <1>2, <1>3 DEF TypeOK, AppendChunk, Complete, Abort, Create, Open, Write, Save, Done, Goto
<1>4. ASSUME NEW r \in Requests, MarkCompleted(r) \/ Cleanup(r) \/ Delete(r) \/ Fault(r)
      PROVE  MarkedIsStored'
  BY <1>2, <1>4 DEF TypeOK, MarkCompleted, Cleanup, Delete, Fault, Done, Goto
<1>5. CASE Expire \/ Crash \/ UNCHANGED vars
  BY <1>2, <1>5 DEF Expire, Crash, vars
<1> QED BY <1>1, <1>3, <1>4, <1>5 DEF Next, Step

\* The file holds a prefix of the source.
PrefixHeld ==
  /\ \E n \in 0..Size : OnServer = 1..n
  /\ files = {} => OnServer = {}
  /\ \A f \in files : OnServer = f.data.right

LEMMA KeepsPrefix == IInv /\ Sequential /\ ~Lapsed => PrefixHeld
<1> SUFFICES ASSUME IInv, Sequential, ~Lapsed PROVE PrefixHeld
  OBVIOUS
<1>1. Kept /\ Shape /\ TypeOK
  BY DEF IInv, Sequential, Spoiled
<1>2. CASE files = {}
  <2>1. OnServer = {} /\ 0 \in 0..Size /\ {} = 1..0
    BY <1>2, UploadsAssumption DEF UploadsAssumption, OnServer
  <2> QED BY <1>2, <2>1 DEF PrefixHeld
<1>3. CASE files # {}
  <2>1. PICK f \in files : files = {f}
    BY <1>1, <1>3 DEF Shape
  <2>2. OnServer = f.data.right
    BY <2>1 DEF OnServer
  <2>3. f.data.len \in 0..Size /\ f.data.right = 1..f.data.len
    BY <1>1 DEF TypeOK, File, Content, Kept
  <2> QED BY <1>3, <2>1, <2>2, <2>3 DEF PrefixHeld
<1> QED BY <1>2, <1>3

\* What a completion adds to what is stored.
LEMMA StoresOne ==
  ASSUME TypeOK, NEW f \in files, stored' = stored \o <<f.data>>, ~Lapsed, ~Lapsed'
  PROVE  Uploaded' = Append(Uploaded, f.data.right)
<1> DEFINE Rights == {c.right : c \in Content}
<1>1. f.data \in Content /\ stored \in Seq(Content)
  BY DEF TypeOK, File
<1>2. /\ Len(stored') = Len(stored) + 1 /\ stored' \in Seq(Content)
      /\ \A i \in 1..Len(stored) : stored'[i] = stored[i]
      /\ stored'[Len(stored) + 1] = f.data
  BY <1>1
<1>3. Uploaded = [i \in 1..Len(stored) |-> stored[i].right]
  BY <1>1 DEF Uploaded
<1>4. Uploaded' = [i \in 1..Len(stored) + 1 |-> stored'[i].right]
  BY <1>1, <1>2 DEF Uploaded
<1>5. Len(stored) \in Nat
  BY <1>1
<1>6. Uploaded \in Seq(Rights) /\ Len(Uploaded) = Len(stored)
  <2>1. \A i \in 1..Len(stored) : stored[i].right \in Rights
    BY <1>1
  <2>2. Uploaded \in [1..Len(stored) -> Rights]
    BY <1>3, <2>1
  <2> QED BY <1>5, <2>2, IsASeq, LenProperties
<1>7. f.data.right \in Rights
  BY <1>1
<1> HIDE DEF Rights
<1>8. Append(Uploaded, f.data.right) =
        [i \in 1..Len(Uploaded) + 1 |-> IF i = Len(Uploaded) + 1 THEN f.data.right ELSE Uploaded[i]]
  BY <1>6, <1>7
<1> QED BY <1>2, <1>3, <1>4, <1>5, <1>6, <1>8

\* Unless it lapses, a step of the upload is a step of the log or leaves it as it was.
LEMMA LogStep ==
  ASSUME IInv, IInv', Sequential, Sequential', PrefixHeld, PrefixHeld', MarkedIsStored,
         [Next]_vars, ~Lapsed, ~Lapsed'
  PROVE  [Log!Next]_(Log!state)
<1> USE NoneIsNoSession, UploadsAssumption DEF UploadsAssumption
<1>1. TypeOK /\ Shape /\ Kept /\ TypeOK' /\ Kept'
  BY DEF IInv, Sequential, Spoiled
<1>2. ASSUME UNCHANGED <<session, sized, stored>>, OnServer' = OnServer
      PROVE  UNCHANGED Log!state
  BY <1>2 DEF Log!state, Phase, Told, Uploaded
<1>3. ASSUME UNCHANGED <<session, files, sized, stored>> PROVE UNCHANGED Log!state
  BY <1>2, <1>3 DEF OnServer
<1>4. ASSUME NEW r \in Requests,
             (\E offset \in 0..Size, len \in Chunks : AppendChunk(r, offset, len))
               \/ Complete(r) \/ Abort(r) \/ Open(r) \/ Fault(r)
      PROVE  UNCHANGED Log!state
  BY <1>3, <1>4 DEF AppendChunk, Complete, Abort, Open, Fault
<1>5. ASSUME NEW r \in Requests, Create(r) PROVE UNCHANGED Log!state
  <2>1. files = {} /\ files' = {[inode |-> inodes', data |-> Empty]}
    BY <1>5 DEF Sequential, Create
  <2>2. OnServer = {} /\ OnServer' = {}
    BY <2>1 DEF OnServer, Empty
  <2> QED BY <1>2, <1>5, <2>2 DEF Create
<1>6. ASSUME NEW r \in Requests, Write(r) PROVE Log!Receive
  <2>1. UNCHANGED <<session, sized, stored>>
    BY <1>6 DEF Write
  <2>2. Phase # "lapsed" /\ UNCHANGED <<Phase, sized, Told, Uploaded>>
    BY <2>1 DEF Phase, Told, Uploaded
  <2>3. \E n \in 0..Size : OnServer' = 1..n
    BY DEF PrefixHeld
  <2>4. OnServer \subseteq OnServer'
    <3>1. CASE files' = {}
      BY <1>6, <3>1, WriteGrows, <1>1 DEF PrefixHeld
    <3>2. CASE files' # {}
      <4>1. PICK g \in files' : TRUE
        BY <3>2
      <4>2. PICK f \in files : f.data.right \subseteq g.data.right
        BY <1>1, <1>6, <4>1, WriteGrows
      <4> QED BY <4>1, <4>2 DEF PrefixHeld
    <3> QED BY <3>1, <3>2
  <2> QED BY <2>2, <2>3, <2>4 DEF Log!Receive, Log!Prefix
<1>7. ASSUME NEW r \in Requests, Save(r) PROVE Log!Acknowledge
  <2>1. /\ session # None /\ session = request[r].session /\ ~session.completed
        /\ session' = [session EXCEPT !.uploaded = @ + request[r].len]
        /\ UNCHANGED <<files, sized, stored>>
    <3>1. session # None
      BY <1>7 DEF Save, WriteSession, Mark, When, Lapsed, Spoiled
    <3> QED BY <1>7, <3>1 DEF Sequential, Save, WriteSession, Appending
  <2>2. session \in Session /\ session' \in Session /\ request[r].len \in Nat
    <3>1. session \in Session /\ request[r] \in Request
      BY <1>1, <2>1 DEF TypeOK
    <3>2. request[r].len \in Nat /\ session.uploaded + request[r].len \in 0..Size
      BY <1>1, <1>7, <2>1, <3>1 DEF Shape, Save, Appending, Request, Session
    <3> QED BY <2>1, <3>1, <3>2 DEF Session
  <2>3. /\ session'.uploaded \in session.uploaded..Size
        /\ session' # None /\ ~session'.completed
    BY <2>1, <2>2 DEF Session
  <2>4. Phase = "open" /\ Phase' = "open"
    BY <2>1, <2>3 DEF Phase
  <2>5. UNCHANGED <<sized, OnServer, Uploaded>>
    BY <2>1 DEF OnServer, Uploaded
  <2>6. Told' \in Told..Size
    BY <2>3 DEF Told
  <2>7. 1..Told' \subseteq OnServer
    <3>1. files # {}
      BY <1>7 DEF Sequential, Save
    <3>2. PICK f \in files : TRUE
      BY <3>1
    <3>3. OnServer = 1..f.data.len /\ session'.uploaded <= f.data.len /\ f.data.len \in Nat
      BY <1>1, <2>1, <3>2 DEF PrefixHeld, Kept, Covered, TypeOK, File, Content
    <3> QED BY <2>2, <3>3 DEF Told, Session
  <2> QED BY <2>4, <2>5, <2>6, <2>7 DEF Log!Acknowledge, Log!Prefix
<1>8. ASSUME NEW r \in Requests, Finalize(r), files # {} PROVE Log!Store
  <2>1. PICK f \in files : stored' = stored \o <<f.data>>
    BY <1>8 DEF Finalize
  <2>2. UNCHANGED <<session, files, sized>>
    BY <1>8 DEF Finalize
  <2>3. Phase # "lapsed" /\ UNCHANGED <<Phase, sized, OnServer, Told>>
    BY <2>2 DEF Phase, OnServer, Told
  <2>4. OnServer = f.data.right /\ f.data.right = 1..f.data.len /\ f.data.len \in Nat
    BY <1>1, <2>1 DEF PrefixHeld, Kept, TypeOK, File, Content
  <2>5. Uploaded' = Append(Uploaded, OnServer)
    BY <1>1, <2>1, <2>4, StoresOne
  <2>6. 1..Told \subseteq OnServer
    BY <1>1, <2>1, <2>4, Lengths DEF Told, Kept, Covered
  <2>7. sized => OnServer = 1..Size
    <3>1. f.data.len \in 0..Size
      BY <1>1 DEF TypeOK, File, Content
    <3>2. sized => Size <= f.data.len
      BY <1>1, <1>8, <2>1 DEF Kept, Covered, Finalize
    <3> QED BY <2>4, <3>1, <3>2
  <2> QED BY <2>3, <2>5, <2>6, <2>7 DEF Log!Store, Log!Prefix
<1>9. ASSUME NEW r \in Requests, Finalize(r), files = {} PROVE UNCHANGED Log!state
  BY <1>3, <1>9 DEF Finalize
<1>10. ASSUME NEW r \in Requests, MarkCompleted(r) PROVE Log!Complete
  <2>1. /\ session # None /\ session = request[r].session /\ ~session.completed
        /\ session' = [session EXCEPT !.completed = TRUE]
        /\ UNCHANGED <<files, sized, stored>>
    <3>1. session # None
      BY <1>10 DEF MarkCompleted, WriteSession, Mark, When, Lapsed, Spoiled
    <3> QED BY <1>10, <3>1 DEF Sequential, MarkCompleted, WriteSession
  <2>2. session \in Session /\ session' \in Session
    <3>1. session \in Session
      BY <1>1, <2>1 DEF TypeOK
    <3> QED BY <2>1, <3>1 DEF Session
  <2>3. session'.uploaded = session.uploaded /\ session' # None /\ session'.completed
    BY <2>1, <2>2 DEF Session
  <2>4. Phase = "open" /\ Phase' = "completed"
    BY <2>1, <2>3 DEF Phase
  <2>5. UNCHANGED <<sized, OnServer, Told, Uploaded>>
    BY <2>1, <2>3 DEF OnServer, Told, Uploaded
  <2>6. Uploaded # <<>>
    <3>1. stored # <<>> /\ stored \in Seq(Content)
      BY <1>1, <1>10 DEF MarkedIsStored, MarkCompleted, TypeOK
    <3>2. 1 \in DOMAIN stored
      BY <3>1
    <3>3. DOMAIN Uploaded = DOMAIN stored
      BY DEF Uploaded
    <3> QED BY <3>2, <3>3
  <2> QED BY <2>4, <2>5, <2>6 DEF Log!Complete
<1>11. ASSUME NEW r \in Requests, Cleanup(r) PROVE Log!Release
  <2>1. ~Alive /\ files' = {} /\ UNCHANGED <<session, sized, stored>>
    BY <1>11 DEF Sequential, Cleanup
  <2>2. Phase \in {"completed", "gone"} /\ UNCHANGED <<Phase, sized, Told, Uploaded>>
    BY <2>1 DEF Alive, Phase, Told, Uploaded
  <2>3. OnServer' = {}
    BY <2>1 DEF PrefixHeld
  <2> QED BY <2>2, <2>3 DEF Log!Release, Log!NoBytes
<1>12. ASSUME (\E r \in Requests : Delete(r)) \/ Expire PROVE Log!Discard
  <2>1. session' = None /\ UNCHANGED <<files, sized, stored>>
    BY <1>12 DEF Delete, Expire
  <2>2. Phase # "lapsed" /\ Phase' = "gone" /\ Told' = 0
    BY <2>1 DEF Phase, Told
  <2>3. UNCHANGED <<sized, OnServer, Uploaded>>
    BY <2>1 DEF OnServer, Uploaded
  <2> QED BY <2>2, <2>3 DEF Log!Discard
<1>13. CASE Crash \/ UNCHANGED vars
  BY <1>3, <1>13 DEF Crash, vars
<1> QED
  BY <1>4, <1>5, <1>6, <1>7, <1>8, <1>9, <1>10, <1>11, <1>12, <1>13 DEF Next, Step, Log!Next

LEMMA SizedStays == [Next]_vars => sized' = sized
BY DEF Next, Step, vars, AppendChunk, Complete, Abort, Create, Open, Write, Save, Finalize,
       MarkCompleted, Cleanup, Delete, Fault, Expire, Crash

LEMMA LapseStep ==
  ASSUME [Next]_vars, Lapsed'
  PROVE  Log!Lapse
<1>1. /\ Phase' = "lapsed" /\ OnServer' = {} /\ Told' = 0 /\ Uploaded' = <<>>
  BY DEF Phase, OnServer, Told, Uploaded
<1> QED BY <1>1, SizedStays DEF Log!Lapse, Log!NoBytes

LEMMA LogInit == Init => Log!Init
<1> SUFFICES ASSUME Init PROVE Log!Init
  OBVIOUS
<1>1. ~Lapsed /\ session # None /\ ~session.completed /\ session.uploaded = 0
  <2>1. session = [uploaded |-> 0, completed |-> FALSE] /\ 0 \in 0..Size /\ ~Lapsed
    BY UploadsAssumption DEF UploadsAssumption, Init, Lapsed, Spoiled
  <2>2. session \in Session
    BY <2>1 DEF Session
  <2> QED BY <2>1, <2>2, NoneIsNoSession
<1>2. Phase = "open" /\ OnServer = {} /\ Told = 0
  BY <1>1 DEF Init, Phase, OnServer, Told
<1>3. Uploaded = <<>>
  <2>1. DOMAIN stored = {}
    BY DEF Init
  <2> QED BY <1>1, <2>1 DEF Uploaded
<1> QED BY <1>2, <1>3 DEF Init, Log!Init, Log!NoBytes

\* The upload implements UploadLog: to a client that waits for its answers, appendChunk,
\* completeSession and abortSession, crashes between them and the TTL are steps of one log.
THEOREM UploadImplementsLog == Spec => ImplementsLog
<1> DEFINE J == "overlap" \notin incidents => Sequential
           H == ~Lapsed => PrefixHeld
<1>1. Spec => []J
  <2>1. Init => J
    BY DEF Init, Sequential, Spoiled, Again, Appending
  <2>2. IInv /\ J /\ [Next]_vars => J'
    BY SequentialStep, IncidentsStay DEF IInv
  <2> QED BY <2>1, <2>2, Invariant, PTL DEF Spec
<1>2. Spec => []MarkedIsStored
  <2>1. Init => MarkedIsStored
    BY DEF Init, MarkedIsStored
  <2>2. IInv /\ MarkedIsStored /\ [Next]_vars => MarkedIsStored'
    BY MarkedStep DEF IInv
  <2> QED BY <2>1, <2>2, Invariant, PTL DEF Spec
<1>3. IInv /\ J => H
  BY KeepsPrefix DEF Lapsed, Spoiled
<1>4. IInv /\ IInv' /\ J /\ J' /\ H /\ H' /\ MarkedIsStored /\ [Next]_vars
        => [Log!Next]_(Log!state)
  <2> SUFFICES ASSUME IInv, IInv', J, J', H, H', MarkedIsStored, [Next]_vars
               PROVE  [Log!Next]_(Log!state)
    OBVIOUS
  <2>1. CASE Lapsed'
    BY <2>1, LapseStep DEF Log!Next
  <2>2. CASE ~Lapsed'
    <3>1. ~Lapsed
      BY <2>2, IncidentsStay DEF Lapsed, Spoiled
    <3>2. Sequential /\ Sequential' /\ PrefixHeld /\ PrefixHeld'
      BY <2>2, <3>1 DEF Lapsed, Spoiled
    <3> QED BY <2>2, <3>1, <3>2, LogStep
  <2> QED BY <2>1, <2>2
<1> QED BY <1>1, <1>2, <1>3, <1>4, LogInit, Invariant, PTL DEF Spec, ImplementsLog, Log!Spec
===============================================================================
