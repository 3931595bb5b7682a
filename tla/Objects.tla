------------------------------ MODULE Objects ------------------------------
(***************************************************************************)
(* One path of a storage bucket.  An object is a file of several messages  *)
(* in the bucket's channel and a manifest, one message in the project's    *)
(* index channel, that names them.  Uploads, deletions and changes of the  *)
(* metadata are sequences of Telegram calls under no lock; a call may fail, *)
(* or take effect and lose its answer, and the request then ends there.    *)
(***************************************************************************)
EXTENDS Naturals, FiniteSets

CONSTANTS
  Clients,    \* requests in progress together
  NumParts,   \* the parts a file has
  MaxCalls,   \* bound: requests
  MaxFaults   \* bound: calls that fail or lose their answer

Parts == 1..NumParts
Ids == 0..(MaxCalls + 1)
Fields == {"metadata", "policy"}
Unset == [f \in Fields |-> 0]
\* id: message id, larger is newer; file: fileRef; meta: the request that set the field.
Manifest == [id : Ids, file : Ids, meta : [Fields -> 0..MaxCalls]]
NoManifest == [id |-> 0, file |-> 0, meta |-> Unset]

\* An upload, one with x-upsert, a deletion, and a patch of either field.
Kinds == {"put", "upsert", "delete"} \cup Fields
Request == [kind : Kinds, no : 0..MaxCalls, found : Manifest, part : Parts, file : Ids]
NoRequest == [kind |-> "delete", no |-> 0, found |-> NoManifest, part |-> 1, file |-> 0]

VARIABLES
  manifests,   \* messages of the index channel for the path
  parts,       \* messages of the bucket's channel, <<file, part>>
  pc, request, \* the call each request is at, and its variables
  \* The rest is not in the code, but for the ids Telegram gives.
  ids,         \* the last id given, to a file or to a manifest
  expected,    \* the file of the last request answered, 0 after a deletion
  calls, faults,
  incidents

vars == <<manifests, parts, pc, request, ids, expected, calls, faults, incidents>>

Incidents == {
  "two_puts",     \* two uploads were in progress together
  "crossed",      \* an upload and a deletion were
  "two_patches",  \* two patches were
  "cut_delete",   \* a deletion failed after its first call that changes something
  "cut_upload",   \* an upload did, once the object it replaces was gone or a part was sent
  "unsure"}       \* a request's last change took effect and its answer was lost

TypeOK ==
  /\ manifests \subseteq Manifest
  /\ parts \subseteq Ids \X Parts
  /\ pc \in [Clients -> {"idle", "find", "erase", "forget", "upload", "publish", "read", "edit"}]
  /\ request \in [Clients -> Request]
  /\ ids \in [file : Ids, manifest : Ids]
  /\ expected \in Ids
  /\ calls \in 0..MaxCalls /\ faults \in 0..MaxFaults
  /\ incidents \subseteq Incidents
  /\ \A m, n \in manifests : m.id = n.id => m = n

\* The path is free or has one object.
Init ==
  /\ \E there \in BOOLEAN :
       IF there
       THEN /\ manifests = {[id |-> 1, file |-> 1, meta |-> Unset]}
            /\ parts = {1} \X Parts
            /\ ids = [file |-> 1, manifest |-> 1]
            /\ expected = 1
       ELSE manifests = {} /\ parts = {} /\ ids = [file |-> 0, manifest |-> 0] /\ expected = 0
  /\ pc = [c \in Clients |-> "idle"]
  /\ request = [c \in Clients |-> NoRequest]
  /\ calls = 0 /\ faults = 0
  /\ incidents = {}

Goto(c, label) == pc' = [pc EXCEPT ![c] = label]
Mark(kinds) == incidents' = incidents \cup kinds
Done(c) == Goto(c, "idle") /\ request' = [request EXCEPT ![c] = NoRequest]
Puts(c) == pc[c] # "idle" /\ request[c].kind \in {"put", "upsert"}
Erases(c) == pc[c] # "idle" /\ request[c].kind = "delete"
Patches(c) == pc[c] # "idle" /\ request[c].kind \in Fields

\* A request ends well: from now on it is what a reader should find.
Answer(c, file) == Done(c) /\ expected' = file

-----------------------------------------------------------------------------
Arrive(c, kind) ==
  /\ pc[c] = "idle"
  /\ calls < MaxCalls
  /\ calls' = calls + 1
  /\ request' = [request EXCEPT ![c] = [NoRequest EXCEPT !.kind = kind, !.no = calls']]
  /\ Goto(c, "find")
  /\ LET others(P(_)) == \E d \in Clients : P(d)
     IN Mark((IF kind \in {"put", "upsert"} /\ others(Puts) THEN {"two_puts"} ELSE {})
        \cup (IF kind \in {"put", "upsert"} /\ others(Erases) THEN {"crossed"} ELSE {})
        \cup (IF kind = "delete" /\ (others(Puts) \/ others(Erases)) THEN {"crossed"} ELSE {})
        \cup (IF kind \in Fields /\ others(Patches) THEN {"two_patches"} ELSE {}))
  /\ UNCHANGED <<manifests, parts, ids, expected, faults>>

\* findFile: all manifests are read, newest first, and the first of the path is taken.
Newest == {m \in manifests : \A n \in manifests : n.id <= m.id}

Found == IF Newest = {} THEN NoManifest ELSE CHOOSE m \in Newest : TRUE

\* Where a request goes once it knows what is there.
Route(kind, found) ==
  IF found = NoManifest
  THEN IF kind \in {"put", "upsert"} THEN "upload" ELSE "idle"
  ELSE CASE kind = "put" -> "idle"
         [] kind \in {"upsert", "delete"} -> "erase"
         [] kind \in Fields -> "read"

NewFile(c) ==
  /\ ids' = [ids EXCEPT !.file = @ + 1]
  /\ request' = [request EXCEPT ![c].found = Found, ![c].part = 1, ![c].file = ids'.file]

Find(c) ==
  LET next == Route(request[c].kind, Found)
  IN /\ pc[c] = "find"
     /\ Goto(c, next)
     /\ CASE next = "idle"   -> request' = [request EXCEPT ![c] = NoRequest] /\ UNCHANGED ids
          [] next = "upload" -> NewFile(c)
          [] OTHER           -> request' = [request EXCEPT ![c].found = Found] /\ UNCHANGED ids
     /\ UNCHANGED <<manifests, parts, expected, calls, faults, incidents>>

\* deleteFile deletes the parts in turn; what is gone already is no error.
EraseEffect(c) == parts' = parts \ {<<request[c].found.file, request[c].part>>}

Erase(c) ==
  /\ pc[c] = "erase"
  /\ EraseEffect(c)
  /\ IF request[c].part = NumParts
     THEN Goto(c, "forget") /\ UNCHANGED request
     ELSE request' = [request EXCEPT ![c].part = @ + 1] /\ UNCHANGED pc
  /\ UNCHANGED <<manifests, ids, expected, calls, faults, incidents>>

\* Mutant of ForgetEffect: an upsert leaves the old manifest.
ForgetIfDeleting(c) ==
  manifests' = IF request[c].kind = "delete"
               THEN {m \in manifests : m.id # request[c].found.id} ELSE manifests

ForgetEffect(c) == manifests' = {m \in manifests : m.id # request[c].found.id}

\* and then the manifest.
Forget(c) ==
  /\ pc[c] = "forget"
  /\ ForgetEffect(c)
  /\ IF request[c].kind = "delete"
     THEN Answer(c, 0) /\ UNCHANGED ids
     ELSE Goto(c, "upload") /\ NewFile(c) /\ UNCHANGED expected
  /\ UNCHANGED <<parts, calls, faults, incidents>>

UploadEffect(c) == parts' = parts \cup {<<request[c].file, request[c].part>>}

\* uploadFile, part after part.
Upload(c) ==
  /\ pc[c] = "upload"
  /\ UploadEffect(c)
  /\ IF request[c].part = NumParts
     THEN Goto(c, "publish") /\ UNCHANGED request
     ELSE request' = [request EXCEPT ![c].part = @ + 1] /\ UNCHANGED pc
  /\ UNCHANGED <<manifests, ids, expected, calls, faults, incidents>>

PublishEffect(c) ==
  /\ ids' = [ids EXCEPT !.manifest = @ + 1]
  /\ manifests' = manifests \cup {[id |-> ids'.manifest, file |-> request[c].file, meta |-> Unset]}

\* sendMessage of the manifest.
Publish(c) ==
  /\ pc[c] = "publish"
  /\ PublishEffect(c)
  /\ Answer(c, request[c].file)
  /\ UNCHANGED <<parts, calls, faults, incidents>>

\* updateObject reads the manifest again by its id,
ReadManifest(c) ==
  /\ pc[c] = "read"
  /\ IF \E m \in manifests : m.id = request[c].found.id
     THEN /\ \E m \in manifests : m.id = request[c].found.id /\
               request' = [request EXCEPT ![c].found = m]
          /\ Goto(c, "edit")
     ELSE Done(c)
  /\ UNCHANGED <<manifests, parts, ids, expected, calls, faults, incidents>>

Patched(c) == [request[c].found EXCEPT !.meta[request[c].kind] = request[c].no]

\* Mutant of EditEffect: the other field is not carried over.
EditAlone(c) ==
  manifests' = {IF m.id = request[c].found.id
                THEN [Patched(c) EXCEPT !.meta = [f \in Fields |->
                        IF f = request[c].kind THEN request[c].no ELSE 0]]
                ELSE m : m \in manifests}

\* Mutant of EditEffect: a manifest that is gone is sent again.
EditOrSend(c) ==
  manifests' = {m \in manifests : m.id # request[c].found.id} \cup {Patched(c)}

EditEffect(c) ==
  manifests' = {IF m.id = request[c].found.id THEN Patched(c) ELSE m : m \in manifests}

\* and edits it; the edit of a message that is gone throws.
Edit(c) ==
  /\ pc[c] = "edit"
  /\ EditEffect(c)
  /\ Done(c)
  /\ UNCHANGED <<parts, ids, expected, calls, faults, incidents>>

-----------------------------------------------------------------------------
\* What it is to lose the request here, once it has changed something.
Cut(c) ==
  CASE pc[c] = "forget" \/ (pc[c] = "erase" /\ request[c].part > 1) -> {"cut_delete"}
    [] pc[c] = "publish" -> {"cut_upload"}
    [] pc[c] = "upload" /\ (request[c].part > 1 \/ request[c].found # NoManifest) -> {"cut_upload"}
    [] OTHER -> {}

\* A call fails and has done nothing, or the process dies before it.
Fails(c) ==
  /\ pc[c] # "idle"
  /\ faults < MaxFaults
  /\ faults' = faults + 1
  /\ Mark(Cut(c))
  /\ Done(c)
  /\ UNCHANGED <<manifests, parts, ids, expected, calls>>

\* A call does what it does and its answer is lost, or the process dies after it.
AnswerLost(c) ==
  /\ faults < MaxFaults
  /\ faults' = faults + 1
  /\ \/ /\ pc[c] = "erase" /\ EraseEffect(c) /\ Mark({"cut_delete"})
        /\ UNCHANGED <<manifests, ids>>
     \/ /\ pc[c] = "forget" /\ ForgetEffect(c)
        /\ Mark(IF request[c].kind = "delete" THEN {"unsure"} ELSE {"cut_upload"})
        /\ UNCHANGED <<parts, ids>>
     \/ /\ pc[c] = "upload" /\ UploadEffect(c) /\ Mark({"cut_upload"})
        /\ UNCHANGED <<manifests, ids>>
     \/ /\ pc[c] = "publish" /\ PublishEffect(c) /\ Mark({"unsure"})
        /\ UNCHANGED parts
     \/ /\ pc[c] = "edit" /\ EditEffect(c)
        /\ UNCHANGED <<parts, ids, incidents>>
  /\ Done(c)
  /\ UNCHANGED <<expected, calls>>

Step(c) ==
  \/ Find(c) \/ Erase(c) \/ Forget(c) \/ Upload(c) \/ Publish(c) \/ ReadManifest(c) \/ Edit(c)

Next ==
  \E c \in Clients :
    \/ \E kind \in Kinds : Arrive(c, kind)
    \/ Step(c)
    \/ Fails(c)
    \/ AnswerLost(c)

Spec == Init /\ [][Next]_vars

-----------------------------------------------------------------------------
(* Properties.                                                              *)

Spoiled(kinds) == incidents \cap kinds # {}

\* A manifest names a whole file unless the file is being deleted or a deletion was cut
\* off: uploads, deletions and patches that cross, and uploads that fail half way, never
\* leave an object that is listed and cannot be downloaded.
ManifestsAreWhole ==
  Spoiled({"cut_delete"}) \/
    \A m \in manifests :
      \/ {m.file} \X Parts \subseteq parts
      \/ \E c \in Clients : pc[c] \in {"erase", "forget"} /\ request[c].found.file = m.file

\* A message in the bucket's channel belongs to a manifest or to a request at work on it,
\* unless an upload was cut off: nothing stays behind that no one can find or delete.
NoOrphans ==
  Spoiled({"cut_upload"}) \/
    \A p \in parts :
      \/ \E m \in manifests : m.file = p[1]
      \/ \E c \in Clients : pc[c] \in {"upload", "publish"} /\ request[c].file = p[1]

\* The path has one manifest unless two uploads were in progress together; deletions may
\* cross them and each other, and requests may be cut off.
OneManifest == Spoiled({"two_puts"}) \/ Cardinality(manifests) <= 1

\* When nothing is in progress a reader finds the file of the last request that was
\* answered, unless it crossed a deletion, an upload failed half way or a request ended in
\* doubt; a deletion that fails half way takes nothing from the listing.  Of uploads
\* that were in progress together it finds the one answered last, until it is deleted.
ReadersFindTheLast ==
  \/ \E c \in Clients : pc[c] # "idle"
  \/ Spoiled({"crossed", "cut_upload", "unsure"})
  \/ Spoiled({"two_puts"}) /\ expected = 0
  \/ Found.file = expected

\* Patches that do not overlap add up: a field of an object changes only by a patch of it,
\* whatever uploads, deletions and failures do meanwhile.
FieldsKept ==
  \A m \in manifests, n \in manifests' : \A f \in Fields :
    m.id = n.id /\ m.meta[f] # n.meta[f] /\ "two_patches" \notin incidents
      => \E c \in Clients : request[c].kind = f /\ request[c].no = n.meta[f]
=============================================================================
