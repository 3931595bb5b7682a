------------------------------ MODULE Uploads ------------------------------
(***************************************************************************)
(* One resumable upload: a session in Redis, a file on the API's disk, and *)
(* the requests that append to it, complete it or abort it.  A request     *)
(* reads the session once and works on what it read; between any two of    *)
(* its awaited calls another request may run, and the process may die.     *)
(* The client sends the bytes of its source: what a chunk writes at a      *)
(* position is right, and what can go wrong is where, and in which file.   *)
(***************************************************************************)
EXTENDS Naturals, Sequences, FiniteSets

CONSTANTS
  Requests,   \* requests that may be in progress together
  Size,       \* bytes of the source, and totalSize when the session has one
  Chunks,     \* lengths of a chunk
  MaxCalls,   \* bound: requests that come
  MaxFaults   \* bound: calls that fail, and crashes

ASSUME UploadsAssumption ==
  /\ Size \in Nat /\ Chunks \subseteq Nat \ {0}
  /\ MaxCalls \in Nat /\ MaxFaults \in Nat

Bytes == 1..Size
Content == [len : 0..Size, right : SUBSET Bytes]  \* right: positions with the source's byte
Empty   == [len |-> 0, right |-> {}]
File    == [inode : Nat, data : Content]
Session == [uploaded : 0..Size, completed : BOOLEAN]
None    == [uploaded |-> 0, completed |-> FALSE, gone |-> TRUE]

Request == [session : Session,  \* the session as it was read
            offset  : 0..Size,  \* of the chunk
            len     : 0..Size,
            fd      : Nat]      \* inode of the open file; 0 before
NoRequest == [session |-> [uploaded |-> 0, completed |-> FALSE],
              offset |-> 0, len |-> 0, fd |-> 0]

VARIABLES
  session,  \* storage:upload:<id>, or None
  files,    \* the file <id>.upload: no file or one
  pc,       \* the awaited call each request is at
  request,  \* its variables
  \* The rest is not in the code, but for the first two.
  sized,    \* the session has a totalSize
  stored,   \* what completions have uploaded to the bucket
  inodes, calls, faults,
  incidents

vars == <<session, files, pc, request, sized, stored, inodes, calls, faults, incidents>>

Incidents == {
  "overlap",    \* a request came while another was in progress
  "truncated",  \* the file was created over one that had bytes
  "recreated",  \* the file was created after one that had been removed
  "rewound",    \* a session was saved over one saved since it was read
  "revived",    \* a session was saved after it was deleted, expired or completed
  "again",      \* a completion failed, or was cut off, after its upload
  "expired"}    \* the session's TTL passed

TypeOK ==
  /\ session \in Session \cup {None}
  /\ files \subseteq File /\ Cardinality(files) <= 1
  /\ pc \in [Requests -> {"idle", "create", "open", "write", "save",
                          "finalize", "mark", "delete", "cleanup"}]
  /\ request \in [Requests -> Request]
  /\ sized \in BOOLEAN
  /\ stored \in Seq(Content)
  /\ inodes \in Nat /\ calls \in 0..MaxCalls /\ faults \in 0..MaxFaults
  /\ incidents \subseteq Incidents

\* createSession has saved the session; its first chunk creates the file.
Init ==
  /\ session = [uploaded |-> 0, completed |-> FALSE]
  /\ files = {}
  /\ pc = [r \in Requests |-> "idle"]
  /\ request = [r \in Requests |-> NoRequest]
  /\ sized \in BOOLEAN
  /\ stored = <<>>
  /\ inodes = 0 /\ calls = 0 /\ faults = 0
  /\ incidents = {}

Goto(r, label) == pc' = [pc EXCEPT ![r] = label]
Mark(kinds) == incidents' = incidents \cup kinds
When(condition, kind) == IF condition THEN {kind} ELSE {}
Done(r) == Goto(r, "idle") /\ request' = [request EXCEPT ![r] = NoRequest]

\* requireAuthorizedSession: the session is there; what follows has read it.
Arrive(r) ==
  /\ pc[r] = "idle"
  /\ calls < MaxCalls
  /\ calls' = calls + 1
  /\ session # None
  /\ Mark(When(\E q \in Requests : pc[q] # "idle", "overlap"))

-----------------------------------------------------------------------------
(* appendChunk                                                              *)

\* Mutant of Fits: no offset check; the chunk goes wherever the client says.
FitsAnywhere(offset, len) == offset + len <= Size

\* The offset is where the session is; the chunk lies within the source.
Fits(offset, len) == offset = session.uploaded /\ offset + len <= Size

\* An open session, the right offset; existsSync chooses between `r+' and `w+'.
AppendChunk(r, offset, len) ==
  /\ Arrive(r)
  /\ ~session.completed
  /\ Fits(offset, len)
  /\ request' = [request EXCEPT ![r] = [session |-> session, offset |-> offset,
                                        len |-> len, fd |-> 0]]
  /\ Goto(r, IF files = {} THEN "create" ELSE "open")
  /\ UNCHANGED <<session, files, sized, stored, inodes, faults>>

\* open(path, 'w+') creates the file, or truncates one that has come to exist.
Create(r) ==
  /\ pc[r] = "create"
  /\ inodes' = IF files = {} THEN inodes + 1 ELSE inodes
  /\ files' = {[inode |-> inodes', data |-> Empty]}
  /\ request' = [request EXCEPT ![r].fd = inodes']
  /\ Mark(When(\E f \in files : f.data.len > 0, "truncated")
            \cup When(files = {} /\ inodes > 0, "recreated"))
  /\ Goto(r, "write")
  /\ UNCHANGED <<session, sized, stored, calls, faults>>

\* open(path, 'r+') throws when the file has been removed.
Open(r) ==
  /\ pc[r] = "open"
  /\ IF files = {}
     THEN Done(r)
     ELSE /\ \E f \in files : request' = [request EXCEPT ![r].fd = f.inode]
          /\ Goto(r, "write")
  /\ UNCHANGED <<session, files, sized, stored, inodes, calls, faults, incidents>>

\* The bytes go to the file that was opened, which may have been removed since.
Write(r) ==
  LET first == request[r].offset + 1
      last  == request[r].offset + request[r].len
      With(data) == [len |-> IF data.len < last THEN last ELSE data.len,
                     right |-> data.right \cup first..last]
  IN /\ pc[r] = "write"
     /\ files' = {IF f.inode = request[r].fd THEN [f EXCEPT !.data = With(@)] ELSE f : f \in files}
     /\ Goto(r, "save")
     /\ UNCHANGED <<session, request, sized, stored, inodes, calls, faults, incidents>>

\* writeSession saves the session that was read, changed.
WriteSession(r, new) ==
  /\ session' = new
  /\ Mark(When(session = None \/ session.completed, "revived")
            \cup When(session # None /\ session.uploaded # request[r].session.uploaded, "rewound"))

\* Mutant of Save: the length of the chunk is taken for the offset reached.
SaveLength(r) ==
  /\ pc[r] = "save"
  /\ WriteSession(r, [request[r].session EXCEPT !.uploaded = request[r].len])
  /\ Done(r)
  /\ UNCHANGED <<files, sized, stored, inodes, calls, faults>>

Save(r) ==
  /\ pc[r] = "save"
  /\ WriteSession(r, [request[r].session EXCEPT !.uploaded = @ + request[r].len])
  /\ Done(r)
  /\ UNCHANGED <<files, sized, stored, inodes, calls, faults>>

-----------------------------------------------------------------------------
(* completeSession                                                          *)

\* Not completed yet; all of the bytes announced, if they were announced.
Whole == ~session.completed /\ (sized => session.uploaded = Size)

Complete(r) ==
  /\ Arrive(r)
  /\ Whole
  /\ request' = [request EXCEPT ![r] = [NoRequest EXCEPT !.session = session]]
  /\ Goto(r, "finalize")
  /\ UNCHANGED <<session, files, sized, stored, inodes, faults>>

\* finalize: the file as it is then is streamed to the bucket; it throws without a file.
Finalize(r) ==
  /\ pc[r] = "finalize"
  /\ IF files = {}
     THEN Done(r) /\ UNCHANGED stored
     ELSE /\ \E f \in files : stored' = stored \o <<f.data>>
          /\ Goto(r, "mark")
          /\ UNCHANGED request
  /\ UNCHANGED <<session, files, sized, inodes, calls, faults, incidents>>

\* Mutant of MarkCompleted: the file goes first and the session is saved as it was read.
MarkNothing(r) ==
  /\ pc[r] = "mark"
  /\ WriteSession(r, request[r].session)
  /\ Goto(r, "cleanup")
  /\ UNCHANGED <<files, request, sized, stored, inodes, calls, faults>>

\* The session is saved as completed, for a minute.
MarkCompleted(r) ==
  /\ pc[r] = "mark"
  /\ WriteSession(r, [request[r].session EXCEPT !.completed = TRUE])
  /\ Goto(r, "cleanup")
  /\ UNCHANGED <<files, request, sized, stored, inodes, calls, faults>>

\* cleanupFile
Cleanup(r) ==
  /\ pc[r] = "cleanup"
  /\ files' = {}
  /\ Done(r)
  /\ UNCHANGED <<session, sized, stored, inodes, calls, faults, incidents>>

-----------------------------------------------------------------------------
(* abortSession, and what may happen at any time.                           *)

Abort(r) ==
  /\ Arrive(r)
  /\ Goto(r, "delete")
  /\ UNCHANGED <<session, files, request, sized, stored, inodes, faults>>

Delete(r) ==
  /\ pc[r] = "delete"
  /\ session' = None
  /\ Goto(r, "cleanup")
  /\ UNCHANGED <<files, request, sized, stored, inodes, calls, faults, incidents>>

\* Redis drops the session: a day after it was last saved, a minute after it completed.
Expire ==
  /\ session # None
  /\ session' = None
  /\ Mark({"expired"})
  /\ UNCHANGED <<files, pc, request, sized, stored, inodes, calls, faults>>

\* A call of the request fails: it throws where it is.
Fault(r) ==
  /\ pc[r] # "idle"
  /\ faults < MaxFaults
  /\ faults' = faults + 1
  /\ Done(r)
  /\ Mark(When(pc[r] = "mark", "again"))
  /\ UNCHANGED <<session, files, sized, stored, inodes, calls>>

\* The process dies with all of its requests; the file stays on the disk.
Crash ==
  /\ \E r \in Requests : pc[r] # "idle"
  /\ faults < MaxFaults
  /\ faults' = faults + 1
  /\ pc' = [r \in Requests |-> "idle"]
  /\ request' = [r \in Requests |-> NoRequest]
  /\ Mark(When(\E r \in Requests : pc[r] = "mark", "again"))
  /\ UNCHANGED <<session, files, sized, stored, inodes, calls>>

Step(r) ==
  \/ Create(r) \/ Open(r) \/ Write(r) \/ Save(r)
  \/ Finalize(r) \/ MarkCompleted(r) \/ Cleanup(r) \/ Delete(r)

Next ==
  \/ \E r \in Requests :
       \/ \E offset \in 0..Size, len \in Chunks : AppendChunk(r, offset, len)
       \/ Complete(r) \/ Abort(r) \/ Step(r) \/ Fault(r)
  \/ Expire
  \/ Crash

Spec == Init /\ [][Next]_vars

-----------------------------------------------------------------------------
(* Properties.                                                              *)

Spoiled(kinds) == incidents \cap kinds # {}

\* The bytes a session has acknowledged are in its file, in place, through failures,
\* crashes and requests that cross, unless the file was truncated or the session revived.
AcknowledgedBytesKept ==
  session # None /\ ~session.completed /\ ~Spoiled({"truncated", "revived"}) =>
    \A b \in 1..session.uploaded : \E f \in files : b \in f.data.right

\* What a completion uploads is the source without a hole, all of it when its size was
\* announced, even for a session that was revived, unless the file was truncated, or removed
\* and created again while the completion was on its way to it.
StoredWhole ==
  Spoiled({"truncated", "recreated"}) \/
    \A i \in DOMAIN stored :
      stored[i].right = 1..stored[i].len /\ (sized => stored[i].len = Size)

\* What arrives is kept and stored as it was sent.
BytesKept == AcknowledgedBytesKept /\ StoredWhole

\* Requests that do not overlap never truncate or recreate the file, and never revive or rewind the
\* session unless its TTL passed; so one client that waits for its answers, and asks for
\* the status after a crash, is safe, and is stored once unless a completion was cut off.
SequentialIsSafe ==
  "overlap" \notin incidents =>
    /\ ~Spoiled({"truncated", "recreated", "rewound"})
    /\ "revived" \in incidents => "expired" \in incidents
    /\ Len(stored) > 1 => Spoiled({"again", "revived"})

\* The offset a client is told never goes back while the session lives, except when two
\* requests cross: the one that saves last then wins.
NeverRewinds ==
  [][session # None /\ session' # None /\ session'.uploaded < session.uploaded
       => "rewound" \in incidents']_vars

\* The client that waits for its answers sees an UploadLog, until a session that expired under
\* a request is saved again: the file is the prefix kept, the offset what is acknowledged.
Lapsed == Spoiled({"overlap", "revived"})

Phase ==
  IF Lapsed THEN "lapsed"
  ELSE IF session = None THEN "gone"
  ELSE IF session.completed THEN "completed" ELSE "open"

OnServer == IF Lapsed THEN {} ELSE UNION {f.data.right : f \in files}
Told     == IF Lapsed THEN 0 ELSE session.uploaded
Uploaded == IF Lapsed THEN <<>> ELSE [i \in DOMAIN stored |-> stored[i].right]

Log == INSTANCE UploadLog WITH
  phase <- Phase, announced <- sized, kept <- OnServer, acknowledged <- Told, objects <- Uploaded

\* Every behaviour of the upload is, for such a client, one of the log: what it was told is
\* kept, what is kept is a prefix of its source, and what is stored is all of it.
ImplementsLog == Log!Spec
=============================================================================
