--------------------------- MODULE Storage_proofs ---------------------------
(***************************************************************************)
(* What is kept in Telegram's channels, for any number of requests, parts, *)
(* texts, calls and faults: the objects of a bucket, the messages of a     *)
(* channel, and a project with its accounts and its backups.               *)
(***************************************************************************)
EXTENDS MCStorage, Sequences, FiniteSetTheorems, WellFoundedInduction, TLAPS

-----------------------------------------------------------------------------
(* Objects: what the variables hold, and what a step changes.               *)

Message == [id : Nat, file : Nat, meta : [Store!Fields -> Nat]]
Asked == [kind : Store!Kinds, no : Nat, found : Message, part : Store!Parts, file : Nat]
Labels == {"idle", "find", "erase", "forget", "upload", "publish", "read", "edit"}
ObjectTypes ==
  /\ manifests \subseteq Message
  /\ parts \subseteq Nat \X Store!Parts
  /\ pc \in [Requests -> Labels]
  /\ request \in [Requests -> Asked]
  /\ ids \in [file : Nat, manifest : Nat]
  /\ expected \in Nat /\ calls \in Nat

\* A request is where its kind and what it found have led it.
Routed == \A c \in Requests :
  /\ pc[c] = "find" => request[c].part = 1
  /\ pc[c] \in {"erase", "forget"} => request[c].kind \in {"upsert", "delete"} /\ request[c].found.id # 0
  /\ pc[c] \in {"upload", "publish"} => request[c].kind \in {"put", "upsert"}
  /\ pc[c] \in {"read", "edit"} => request[c].kind \in Store!Fields /\ request[c].found.id # 0

\* Ids are given once, and the id of a manifest and that of its file go together.
Numbered ==
  /\ \A m \in manifests : /\ 1 <= m.id /\ m.id <= ids.manifest
                          /\ 1 <= m.file /\ m.file <= ids.file
  /\ \A m, n \in manifests : (m.id = n.id \/ m.file = n.file) => m = n
  /\ \A c \in Requests : LET found == request[c].found
                         IN /\ found.id <= ids.manifest /\ found.file <= ids.file
                            /\ found.id = 0 => found = Store!NoManifest
                            /\ \A m \in manifests : m.id = found.id <=> m.file = found.file

\* A file is no one else's until it has its manifest.
Storing(c) == pc[c] \in {"upload", "publish"}
Fresh == \A c \in Requests : Storing(c) =>
  /\ 1 <= request[c].file /\ request[c].file <= ids.file
  /\ \A m \in manifests : m.file # request[c].file
  /\ \A d \in Requests : request[d].found.file # request[c].file
  /\ \A d \in Requests : Storing(d) /\ request[d].file = request[c].file => d = c

\* What a request has sent is there, and what it has deleted is gone.
Filled == \A c \in Requests :
  /\ pc[c] = "upload" => \A k \in Store!Parts : <<request[c].file, k>> \in parts <=> k < request[c].part
  /\ pc[c] = "publish" => \A k \in Store!Parts : <<request[c].file, k>> \in parts
  /\ pc[c] = "erase" => \A k \in Store!Parts : k < request[c].part => <<request[c].found.file, k>> \notin parts
  /\ pc[c] = "forget" => \A k \in Store!Parts : <<request[c].found.file, k>> \notin parts

\* The others go on as they were; one of them begins anew.
Others(c) == \A d \in Requests : d # c => pc'[d] = pc[d] /\ request'[d] = request[d]
Resets(c) == pc'[c] = "idle" /\ request'[c] = Store!NoRequest /\ Others(c)
Keeps(c) == /\ request'[c].kind = request[c].kind /\ request'[c].no = request[c].no
            /\ request'[c].found = request[c].found /\ request'[c].file = request[c].file

LEMMA Blank ==
  /\ Store!NoManifest \in Message /\ Store!NoManifest.id = 0 /\ Store!NoManifest.file = 0
  /\ Store!NoRequest \in Asked /\ Store!NoRequest.found = Store!NoManifest
  /\ Store!NoRequest.kind = "delete" /\ Store!NoRequest.part = 1
  /\ 1 \in Store!Parts /\ NumParts \in Store!Parts
  /\ \A k : k \in Store!Parts <=> k \in Nat /\ 1 <= k /\ k <= NumParts
  BY StorageAssumption DEF Store!Parts, Message, Store!NoManifest, Store!Unset, Asked,
     Store!NoRequest, Store!Kinds, Store!Fields

LEMMA Resetting ==
  ASSUME ObjectTypes, NEW c \in Requests, Store!Done(c)
  PROVE  Resets(c) /\ pc' \in [Requests -> Labels] /\ request' \in [Requests -> Asked]
  BY Blank DEF ObjectTypes, Resets, Others, Store!Done, Store!Goto, Labels

\* What findFile finds is the newest.
LEMMA Finding ==
  ASSUME ObjectTypes
  PROVE  \/ /\ Store!Found = Store!NoManifest
            /\ \A m \in manifests : \E n \in manifests : ~(n.id <= m.id)
         \/ Store!Found \in manifests /\ \A n \in manifests : n.id <= Store!Found.id
  BY DEF Store!Found, Store!Newest

LEMMA Arrives ==
  ASSUME ObjectTypes, NEW c \in Requests, NEW kind \in Store!Kinds, Store!Arrive(c, kind)
  PROVE  /\ ObjectTypes' /\ Others(c) /\ UNCHANGED <<manifests, parts, ids, expected>>
         /\ pc[c] = "idle" /\ pc'[c] = "find"
         /\ request'[c].kind = kind /\ request'[c].part = 1 /\ request'[c].found = Store!NoManifest
         /\ incidents \subseteq incidents'
         /\ kind \in {"put", "upsert"} /\ (\E d \in Requests : Store!Puts(d)) => "two_puts" \in incidents'
         /\ kind \in {"put", "upsert"} /\ (\E d \in Requests : Store!Erases(d)) => "crossed" \in incidents'
         /\ kind = "delete" /\ (\E d \in Requests : Store!Puts(d) \/ Store!Erases(d)) => "crossed" \in incidents'
         /\ kind \in Store!Fields /\ (\E d \in Requests : Store!Patches(d)) => "two_patches" \in incidents'
<1>1. /\ pc[c] = "idle" /\ calls' = calls + 1
      /\ request' = [request EXCEPT ![c] = [Store!NoRequest EXCEPT !.kind = kind, !.no = calls']]
      /\ pc' = [pc EXCEPT ![c] = "find"]
      /\ UNCHANGED <<manifests, parts, ids, expected, faults>>
  BY DEF Store!Arrive, Store!Goto
<1>2. [Store!NoRequest EXCEPT !.kind = kind, !.no = calls'] \in Asked
  <2>1. Store!NoRequest \in Asked /\ calls' \in Nat
    BY <1>1, Blank DEF ObjectTypes
  <2> QED
    BY <2>1 DEF Asked
<1>3. /\ [Store!NoRequest EXCEPT !.kind = kind, !.no = calls'].kind = kind
      /\ [Store!NoRequest EXCEPT !.kind = kind, !.no = calls'].part = 1
      /\ [Store!NoRequest EXCEPT !.kind = kind, !.no = calls'].found = Store!NoManifest
  BY Blank DEF Store!NoRequest
<1>4. ObjectTypes' /\ Others(c)
  BY <1>1, <1>2 DEF ObjectTypes, Others, Labels
<1>5. request'[c] = [Store!NoRequest EXCEPT !.kind = kind, !.no = calls'] /\ pc'[c] = "find"
  BY <1>1 DEF ObjectTypes
<1>6. /\ incidents \subseteq incidents'
      /\ kind \in {"put", "upsert"} /\ (\E d \in Requests : Store!Puts(d)) => "two_puts" \in incidents'
      /\ kind \in {"put", "upsert"} /\ (\E d \in Requests : Store!Erases(d)) => "crossed" \in incidents'
      /\ kind = "delete" /\ (\E d \in Requests : Store!Puts(d) \/ Store!Erases(d)) => "crossed" \in incidents'
      /\ kind \in Store!Fields /\ (\E d \in Requests : Store!Patches(d)) => "two_patches" \in incidents'
  BY DEF Store!Arrive, Store!Mark
<1> QED
  BY <1>1, <1>3, <1>4, <1>5, <1>6

\* A new file is begun.
LEMMA Begins ==
  ASSUME ObjectTypes, NEW c \in Requests, Store!NewFile(c)
  PROVE  /\ ids' \in [file : Nat, manifest : Nat] /\ request' \in [Requests -> Asked]
         /\ ids'.file = ids.file + 1 /\ ids'.manifest = ids.manifest
         /\ \A d \in Requests : d # c => request'[d] = request[d]
         /\ request'[c].kind = request[c].kind /\ request'[c].found = Store!Found
         /\ request'[c].part = 1 /\ request'[c].file = ids.file + 1
<1>1. ids' = [ids EXCEPT !.file = @ + 1] /\ ids \in [file : Nat, manifest : Nat]
  BY DEF Store!NewFile, ObjectTypes
<1>2. ids' \in [file : Nat, manifest : Nat] /\ ids'.file = ids.file + 1 /\ ids'.manifest = ids.manifest
  BY <1>1
<1>3. request' = [request EXCEPT ![c].found = Store!Found, ![c].part = 1, ![c].file = ids'.file]
  BY DEF Store!NewFile
<1>4. Store!Found \in Message
  BY Finding, Blank DEF ObjectTypes
<1> DEFINE r == [request[c] EXCEPT !.found = Store!Found, !.part = 1, !.file = ids'.file]
<1>5. request[c] \in Asked
  BY DEF ObjectTypes
<1>6. r \in Asked /\ r.kind = request[c].kind /\ r.found = Store!Found /\ r.part = 1 /\ r.file = ids.file + 1
  BY <1>2, <1>4, <1>5, Blank DEF Asked
<1>7. request' = [request EXCEPT ![c] = r]
  BY <1>3 DEF ObjectTypes, Asked
<1> HIDE DEF r
<1>8. request' \in [Requests -> Asked] /\ request'[c] = r /\ \A d \in Requests : d # c => request'[d] = request[d]
  BY <1>6, <1>7 DEF ObjectTypes
<1> QED
  BY <1>2, <1>6, <1>8

LEMMA Finds ==
  ASSUME ObjectTypes, NEW c \in Requests, Store!Find(c)
  PROVE  /\ ObjectTypes' /\ pc[c] = "find" /\ UNCHANGED <<manifests, parts, expected, incidents>>
         /\ \/ Resets(c) /\ UNCHANGED ids
            \/ /\ Others(c) /\ pc'[c] = "upload" /\ Store!Found = Store!NoManifest
               /\ request[c].kind \in {"put", "upsert"}
               /\ ids'.file = ids.file + 1 /\ ids'.manifest = ids.manifest
               /\ request'[c].kind = request[c].kind /\ request'[c].found = Store!Found
               /\ request'[c].part = 1 /\ request'[c].file = ids.file + 1
            \/ /\ Others(c) /\ Store!Found # Store!NoManifest /\ UNCHANGED ids
               /\ \/ pc'[c] = "erase" /\ request[c].kind \in {"upsert", "delete"}
                  \/ pc'[c] = "read" /\ request[c].kind \in Store!Fields
               /\ request'[c].kind = request[c].kind /\ request'[c].found = Store!Found
               /\ request'[c].part = request[c].part
<1> DEFINE next == Store!Route(request[c].kind, Store!Found)
<1>1. /\ pc[c] = "find" /\ pc' = [pc EXCEPT ![c] = next]
      /\ UNCHANGED <<manifests, parts, expected, calls, faults, incidents>>
  BY DEF Store!Find, Store!Goto
<1>2. request[c].kind \in Store!Kinds /\ request[c] \in Asked
  BY DEF ObjectTypes, Asked
<1>3. \/ next = "idle"
      \/ next = "upload" /\ Store!Found = Store!NoManifest /\ request[c].kind \in {"put", "upsert"}
      \/ /\ Store!Found # Store!NoManifest
         /\ \/ next = "erase" /\ request[c].kind \in {"upsert", "delete"}
            \/ next = "read" /\ request[c].kind \in Store!Fields
  BY <1>2 DEF Store!Route, Store!Kinds, Store!Fields
<1>4. /\ next = "idle" => request' = [request EXCEPT ![c] = Store!NoRequest] /\ UNCHANGED ids
      /\ next = "upload" => Store!NewFile(c)
      /\ next \in {"erase", "read"} => request' = [request EXCEPT ![c].found = Store!Found] /\ UNCHANGED ids
  BY DEF Store!Find
<1> HIDE DEF next
<1>5. next \in Labels
  BY <1>3 DEF Labels
<1>6. pc' \in [Requests -> Labels] /\ pc'[c] = next /\ \A d \in Requests : d # c => pc'[d] = pc[d]
  BY <1>1, <1>5 DEF ObjectTypes
<1>7. CASE next = "idle"
  BY <1>4, <1>7, <1>1, <1>6, Blank DEF ObjectTypes, Resets, Others
<1>8. CASE next = "upload"
  BY <1>1, <1>4, <1>6, <1>8, Begins, <1>3 DEF ObjectTypes, Others
<1>9. CASE next \in {"erase", "read"}
  <2> DEFINE r == [request[c] EXCEPT !.found = Store!Found]
  <2>1. request' = [request EXCEPT ![c] = r] /\ UNCHANGED ids
    BY <1>4, <1>9
  <2>2. Store!Found \in Message
    BY Finding, Blank DEF ObjectTypes
  <2>3. r \in Asked /\ r.kind = request[c].kind /\ r.found = Store!Found /\ r.part = request[c].part
    BY <1>2, <2>2 DEF Asked
  <2> HIDE DEF r
  <2>4. request' \in [Requests -> Asked] /\ request'[c] = r /\ \A d \in Requests : d # c => request'[d] = request[d]
    BY <2>1, <2>3 DEF ObjectTypes
  <2>5. ObjectTypes'
    BY <1>1, <1>6, <2>1, <2>4 DEF ObjectTypes
  <2>6. Others(c)
    BY <1>6, <2>4 DEF Others
  <2> QED
    BY <1>1, <1>3, <1>6, <1>9, <2>1, <2>3, <2>4, <2>5, <2>6
<1> QED
  BY <1>3, <1>7, <1>8, <1>9

\* It goes on to the next part, or to where the last part leads.
LEMMA Parting ==
  ASSUME ObjectTypes, NEW c \in Requests, NEW label \in Labels,
         IF request[c].part = NumParts
         THEN Store!Goto(c, label) /\ UNCHANGED request
         ELSE request' = [request EXCEPT ![c].part = @ + 1] /\ UNCHANGED pc
  PROVE  /\ pc' \in [Requests -> Labels] /\ request' \in [Requests -> Asked] /\ Others(c) /\ Keeps(c)
         /\ \/ request[c].part = NumParts /\ pc'[c] = label
            \/ request[c].part # NumParts /\ pc'[c] = pc[c] /\ request'[c].part = request[c].part + 1
<1>1. CASE request[c].part = NumParts
  BY <1>1 DEF ObjectTypes, Store!Goto, Others, Keeps
<1>2. CASE request[c].part # NumParts
  <2> DEFINE r == [request[c] EXCEPT !.part = @ + 1]
  <2>1. request[c] \in Asked /\ request[c].part \in Nat /\ 1 <= request[c].part /\ request[c].part <= NumParts
    BY Blank DEF ObjectTypes, Asked
  <2>2. request[c].part + 1 \in Store!Parts
    BY <1>2, <2>1, Blank, StorageAssumption
  <2>3. /\ r \in Asked /\ r.kind = request[c].kind /\ r.no = request[c].no /\ r.found = request[c].found
        /\ r.file = request[c].file /\ r.part = request[c].part + 1
    BY <2>1, <2>2 DEF Asked
  <2>4. request' = [request EXCEPT ![c] = r] /\ UNCHANGED pc
    BY <1>2 DEF ObjectTypes, Asked
  <2> HIDE DEF r
  <2>5. request' \in [Requests -> Asked] /\ request'[c] = r /\ \A d \in Requests : d # c => request'[d] = request[d]
    BY <2>3, <2>4 DEF ObjectTypes
  <2> QED
    BY <1>2, <2>3, <2>4, <2>5 DEF ObjectTypes, Others, Keeps
<1> QED
  BY <1>1, <1>2

LEMMA Erases ==
  ASSUME ObjectTypes, NEW c \in Requests, Store!Erase(c)
  PROVE  /\ ObjectTypes' /\ pc[c] = "erase" /\ Others(c) /\ Keeps(c)
         /\ UNCHANGED <<manifests, ids, expected, incidents>>
         /\ parts' = parts \ {<<request[c].found.file, request[c].part>>}
         /\ \/ request[c].part = NumParts /\ pc'[c] = "forget"
            \/ request[c].part # NumParts /\ pc'[c] = pc[c] /\ request'[c].part = request[c].part + 1
  BY Parting DEF Store!Erase, Store!EraseEffect, Labels, ObjectTypes

LEMMA Uploads ==
  ASSUME ObjectTypes, NEW c \in Requests, Store!Upload(c)
  PROVE  /\ ObjectTypes' /\ pc[c] = "upload" /\ Others(c) /\ Keeps(c)
         /\ UNCHANGED <<manifests, ids, expected, incidents>>
         /\ parts' = parts \cup {<<request[c].file, request[c].part>>}
         /\ \/ request[c].part = NumParts /\ pc'[c] = "publish"
            \/ request[c].part # NumParts /\ pc'[c] = pc[c] /\ request'[c].part = request[c].part + 1
  BY Parting DEF Store!Upload, Store!UploadEffect, Labels, ObjectTypes, Asked

LEMMA Forgets ==
  ASSUME ObjectTypes, NEW c \in Requests, Store!Forget(c)
  PROVE  /\ ObjectTypes' /\ pc[c] = "forget" /\ UNCHANGED <<parts, incidents>>
         /\ manifests' = {m \in manifests : m.id # request[c].found.id}
         /\ \/ request[c].kind = "delete" /\ Resets(c) /\ expected' = 0 /\ UNCHANGED ids
            \/ /\ request[c].kind # "delete" /\ Others(c) /\ pc'[c] = "upload" /\ UNCHANGED expected
               /\ ids'.file = ids.file + 1 /\ ids'.manifest = ids.manifest
               /\ request'[c].kind = request[c].kind /\ request'[c].found = Store!Found
               /\ request'[c].part = 1 /\ request'[c].file = ids.file + 1
  BY Resetting, Begins DEF Store!Forget, Store!ForgetEffect, Store!Answer, ObjectTypes, Store!Goto,
     Labels, Others

\* The manifest is sent.
Posts(c) == /\ ids'.file = ids.file /\ ids'.manifest = ids.manifest + 1
            /\ \E m \in Message : /\ m.id = ids.manifest + 1 /\ m.file = request[c].file
                                  /\ manifests' = manifests \cup {m}
LEMMA Posting ==
  ASSUME ObjectTypes, NEW c \in Requests, Store!PublishEffect(c)
  PROVE  Posts(c) /\ ids' \in [file : Nat, manifest : Nat] /\ manifests' \subseteq Message
<1> DEFINE m == [id |-> ids'.manifest, file |-> request[c].file, meta |-> Store!Unset]
<1>1. ids' = [ids EXCEPT !.manifest = @ + 1] /\ manifests' = manifests \cup {m}
  BY DEF Store!PublishEffect
<1>2. ids' \in [file : Nat, manifest : Nat] /\ ids'.file = ids.file /\ ids'.manifest = ids.manifest + 1
  BY <1>1 DEF ObjectTypes
<1>3. m \in Message /\ m.id = ids.manifest + 1 /\ m.file = request[c].file
  BY <1>2 DEF Message, ObjectTypes, Asked, Store!Unset
<1> HIDE DEF m
<1> QED
  BY <1>1, <1>2, <1>3 DEF Posts, ObjectTypes

LEMMA Publishes ==
  ASSUME ObjectTypes, NEW c \in Requests, Store!Publish(c)
  PROVE  /\ ObjectTypes' /\ pc[c] = "publish" /\ Resets(c) /\ Posts(c) /\ UNCHANGED <<parts, incidents>>
         /\ expected' = request[c].file
  BY Posting, Resetting DEF Store!Publish, Store!Answer, ObjectTypes, Asked

LEMMA Rereads ==
  ASSUME ObjectTypes, NEW c \in Requests, Store!ReadManifest(c)
  PROVE  /\ ObjectTypes' /\ pc[c] = "read" /\ UNCHANGED <<manifests, parts, ids, expected, incidents>>
         /\ \/ Resets(c)
            \/ /\ Others(c) /\ pc'[c] = "edit" /\ request'[c].kind = request[c].kind
               /\ request'[c].found \in manifests /\ request'[c].found.id = request[c].found.id
<1>1. pc[c] = "read" /\ UNCHANGED <<manifests, parts, ids, expected, calls, faults, incidents>>
  BY DEF Store!ReadManifest
<1>2. CASE Store!Done(c)
  BY <1>2, Resetting, <1>1 DEF ObjectTypes
<1>3. ASSUME NEW m \in manifests, m.id = request[c].found.id, request' = [request EXCEPT ![c].found = m],
             pc' = [pc EXCEPT ![c] = "edit"]
      PROVE  /\ ObjectTypes' /\ Others(c) /\ pc'[c] = "edit" /\ request'[c].kind = request[c].kind
             /\ request'[c].found \in manifests /\ request'[c].found.id = request[c].found.id
  <2> DEFINE r == [request[c] EXCEPT !.found = m]
  <2>1. request[c] \in Asked /\ m \in Message
    BY DEF ObjectTypes
  <2>2. r \in Asked /\ r.kind = request[c].kind /\ r.found = m
    BY <2>1 DEF Asked
  <2>3. request' = [request EXCEPT ![c] = r]
    BY <1>3 DEF ObjectTypes, Asked
  <2> HIDE DEF r
  <2>4. request' \in [Requests -> Asked] /\ request'[c] = r /\ \A d \in Requests : d # c => request'[d] = request[d]
    BY <2>2, <2>3 DEF ObjectTypes
  <2>5. pc' \in [Requests -> Labels] /\ pc'[c] = "edit" /\ \A d \in Requests : d # c => pc'[d] = pc[d]
    BY <1>3 DEF ObjectTypes, Labels
  <2>6. ObjectTypes' /\ Others(c)
    BY <1>1, <2>4, <2>5 DEF ObjectTypes, Others
  <2> QED
    BY <1>3, <2>2, <2>4, <2>5, <2>6
<1>4. \/ Store!Done(c)
      \/ \E m \in manifests : /\ m.id = request[c].found.id /\ request' = [request EXCEPT ![c].found = m]
                              /\ pc' = [pc EXCEPT ![c] = "edit"]
  BY DEF Store!ReadManifest, Store!Goto
<1>5. CASE \E m \in manifests : /\ m.id = request[c].found.id /\ request' = [request EXCEPT ![c].found = m]
                                /\ pc' = [pc EXCEPT ![c] = "edit"]
  BY <1>1, <1>3, <1>5
<1> QED
  BY <1>1, <1>2, <1>4, <1>5

\* A manifest is edited where it is there.
Changes(c) == \A n : n \in manifests' <=>
  \/ n \in manifests /\ n.id # request[c].found.id
  \/ n = Store!Patched(c) /\ \E m \in manifests : m.id = request[c].found.id
LEMMA Changing ==
  ASSUME ObjectTypes, NEW c \in Requests, request[c].kind \in Store!Fields, Store!EditEffect(c)
  PROVE  /\ Changes(c) /\ manifests' \subseteq Message
         /\ Store!Patched(c) \in Message
         /\ Store!Patched(c).id = request[c].found.id /\ Store!Patched(c).file = request[c].found.file
         /\ \A f \in Store!Fields : Store!Patched(c).meta[f] =
                                      IF f = request[c].kind THEN request[c].no ELSE request[c].found.meta[f]
<1>1. manifests' = {IF m.id = request[c].found.id THEN Store!Patched(c) ELSE m : m \in manifests}
  BY DEF Store!EditEffect
<1>2. Changes(c)
  BY <1>1 DEF Changes
<1>3. request[c].found \in Message /\ request[c].no \in Nat
  BY DEF ObjectTypes, Asked
<1>4. /\ Store!Patched(c) \in Message
      /\ Store!Patched(c).id = request[c].found.id /\ Store!Patched(c).file = request[c].found.file
      /\ \A f \in Store!Fields : Store!Patched(c).meta[f] =
                                   IF f = request[c].kind THEN request[c].no ELSE request[c].found.meta[f]
  BY <1>3 DEF Store!Patched, Message
<1>5. manifests' \subseteq Message
  BY <1>2, <1>4 DEF Changes, ObjectTypes
<1> QED
  BY <1>2, <1>4, <1>5

LEMMA Edits ==
  ASSUME ObjectTypes, Routed, NEW c \in Requests, Store!Edit(c)
  PROVE  /\ ObjectTypes' /\ pc[c] = "edit" /\ Resets(c) /\ Store!EditEffect(c) /\ request[c].kind \in Store!Fields
         /\ UNCHANGED <<parts, ids, expected, incidents>>
  BY Resetting, Changing DEF Store!Edit, Routed, ObjectTypes

LEMMA Failing ==
  ASSUME ObjectTypes, NEW c \in Requests, Store!Fails(c)
  PROVE  /\ ObjectTypes' /\ Resets(c) /\ UNCHANGED <<manifests, parts, ids, expected>>
         /\ incidents' = incidents \cup Store!Cut(c)
  BY Resetting DEF Store!Fails, Store!Mark, ObjectTypes

LEMMA Losing ==
  ASSUME ObjectTypes, Routed, NEW c \in Requests, Store!AnswerLost(c)
  PROVE  /\ ObjectTypes' /\ Resets(c) /\ UNCHANGED expected /\ incidents \subseteq incidents'
         /\ \/ /\ pc[c] = "erase" /\ "cut_delete" \in incidents' /\ UNCHANGED <<manifests, ids>>
               /\ parts' = parts \ {<<request[c].found.file, request[c].part>>}
            \/ /\ pc[c] = "forget" /\ manifests' = {m \in manifests : m.id # request[c].found.id}
               /\ incidents' \cap {"unsure", "cut_upload"} # {}
               /\ UNCHANGED <<parts, ids>>
            \/ /\ pc[c] = "upload" /\ "cut_upload" \in incidents' /\ UNCHANGED <<manifests, ids>>
               /\ parts' = parts \cup {<<request[c].file, request[c].part>>}
            \/ /\ pc[c] = "publish" /\ Posts(c) /\ "unsure" \in incidents' /\ UNCHANGED parts
            \/ /\ pc[c] = "edit" /\ Store!EditEffect(c) /\ request[c].kind \in Store!Fields
               /\ UNCHANGED <<parts, ids, incidents>>
<1>1. Store!Done(c) /\ UNCHANGED <<expected, calls>>
  BY DEF Store!AnswerLost
<1>2. Resets(c) /\ pc' \in [Requests -> Labels] /\ request' \in [Requests -> Asked]
  BY <1>1, Resetting
<1>3. CASE /\ pc[c] = "erase" /\ Store!EraseEffect(c) /\ Store!Mark({"cut_delete"}) /\ UNCHANGED <<manifests, ids>>
  BY <1>3, <1>1, <1>2 DEF Store!EraseEffect, Store!Mark, ObjectTypes
<1>4. CASE /\ pc[c] = "forget" /\ Store!ForgetEffect(c) /\ UNCHANGED <<parts, ids>>
           /\ Store!Mark(IF request[c].kind = "delete" THEN {"unsure"} ELSE {"cut_upload"})
  BY <1>4, <1>1, <1>2 DEF Store!ForgetEffect, Store!Mark, ObjectTypes
<1>5. CASE /\ pc[c] = "upload" /\ Store!UploadEffect(c) /\ Store!Mark({"cut_upload"}) /\ UNCHANGED <<manifests, ids>>
  BY <1>5, <1>1, <1>2 DEF Store!UploadEffect, Store!Mark, ObjectTypes, Asked
<1>6. CASE /\ pc[c] = "publish" /\ Store!PublishEffect(c) /\ Store!Mark({"unsure"}) /\ UNCHANGED parts
  BY <1>6, Posting, <1>1, <1>2 DEF Store!Mark, ObjectTypes
<1>7. CASE pc[c] = "edit" /\ Store!EditEffect(c) /\ UNCHANGED <<parts, ids, incidents>>
  BY <1>7, Changing, <1>1, <1>2 DEF Routed, ObjectTypes
<1> QED
  BY <1>3, <1>4, <1>5, <1>6, <1>7 DEF Store!AnswerLost

-----------------------------------------------------------------------------
(* Objects: where the requests are, and whose the files are.                *)

LEMMA RoutedHolds ==
  ASSUME ObjectTypes, Routed, Numbered, Store!Next
  PROVE  ObjectTypes' /\ Routed'
  BY Arrives, Finding, Finds, Erases, Uploads, Forgets, Publishes, Rereads, Edits, Failing, Losing
     DEF Routed, Resets, Others, Numbered, Keeps, Store!Next, Store!Step

\* What the manifests, the requests' files and what they found have to do with each other.
Names == Numbered /\ Fresh

\* Manifests go, and are edited; a request ends, or goes on with the file it has.
LEMMA NamesStay ==
  ASSUME ObjectTypes, Names, NEW c \in Requests, Others(c), UNCHANGED ids,
         \A m \in manifests' : \E n \in manifests : m.id = n.id /\ m.file = n.file,
         \A m, n \in manifests' : (m.id = n.id \/ m.file = n.file) => m = n,
         \/ request'[c].found = Store!NoManifest
         \/ request'[c].found = request[c].found
         \/ request'[c].found \in manifests,
         pc'[c] \in {"upload", "publish"} => Storing(c) /\ request'[c].file = request[c].file
  PROVE  Names'
<1>1. ids.manifest \in Nat /\ ids.file \in Nat /\ \A d \in Requests : request[d].found \in Message
  BY DEF ObjectTypes, Asked
<1>2. Numbered'
  BY <1>1, Blank DEF Names, Numbered, Others
<1>3. ASSUME NEW d \in Requests, Storing(d)' PROVE Storing(d) /\ request'[d].file = request[d].file
  BY <1>3 DEF Storing, Others
<1>4. ASSUME NEW d \in Requests, Storing(d), NEW e \in Requests PROVE request'[e].found.file # request[d].file
  BY <1>4, Blank DEF Names, Fresh, Others
<1>5. Fresh'
  <2> SUFFICES ASSUME NEW d \in Requests, Storing(d)'
               PROVE  /\ 1 <= request'[d].file /\ request'[d].file <= ids'.file
                      /\ \A m \in manifests' : m.file # request'[d].file
                      /\ \A e \in Requests : request'[e].found.file # request'[d].file
                      /\ \A e \in Requests : Storing(e)' /\ request'[e].file = request'[d].file => e = d
    BY DEF Fresh
  <2>1. Storing(d) /\ request'[d].file = request[d].file
    BY <1>3
  <2>2. /\ 1 <= request'[d].file /\ request'[d].file <= ids'.file
        /\ \A m \in manifests' : m.file # request'[d].file
    BY <2>1 DEF Names, Fresh
  <2>3. \A e \in Requests : Storing(e)' /\ request'[e].file = request'[d].file => e = d
    BY <1>3, <2>1 DEF Names, Fresh
  <2> QED
    BY <1>4, <2>1, <2>2, <2>3
<1> QED
  BY <1>2, <1>5 DEF Names

\* A new file is no one's.
LEMMA NamesBegin ==
  ASSUME ObjectTypes, Names, NEW c \in Requests, Others(c), manifests' \subseteq manifests,
         ids'.file = ids.file + 1, ids'.manifest = ids.manifest,
         request'[c].found = Store!Found, request'[c].file = ids.file + 1
  PROVE  Names'
<1>1. /\ ids.manifest \in Nat /\ ids.file \in Nat
      /\ \A d \in Requests : request[d].found \in Message /\ request[d].file \in Nat
      /\ manifests \subseteq Message
  BY DEF ObjectTypes, Asked
<1>2. \A m \in manifests : m.id # 0 /\ m.file # 0 /\ m.file <= ids.file
  BY DEF Names, Numbered
<1>3. ASSUME NEW d \in Requests
      PROVE  /\ request'[d].found.id <= ids.manifest /\ request'[d].found.file <= ids.file
             /\ request'[d].found.id = 0 => request'[d].found = Store!NoManifest
             /\ \A m \in manifests : m.id = request'[d].found.id <=> m.file = request'[d].found.file
  BY <1>1, <1>2, Blank, Finding DEF Names, Numbered, Others
<1>4. request'[c].found \in Message
  BY Finding, Blank, <1>1
<1>5. Numbered'
  BY <1>1, <1>4, <1>3 DEF Names, Numbered, Message, Others
<1>6. Fresh'
  <2> SUFFICES ASSUME NEW d \in Requests, Storing(d)'
               PROVE  /\ 1 <= request'[d].file /\ request'[d].file <= ids'.file
                      /\ \A m \in manifests' : m.file # request'[d].file
                      /\ \A e \in Requests : request'[e].found.file # request'[d].file
                      /\ \A e \in Requests : Storing(e)' /\ request'[e].file = request'[d].file => e = d
    BY DEF Fresh
  <2>1. \A e \in Requests : e # c /\ Storing(e)' => /\ Storing(e) /\ request'[e].file = request[e].file
                                                   /\ request[e].file <= ids.file
    BY DEF Storing, Others, Names, Fresh
  <2>2. \A m \in manifests : m.file \in Nat
    BY <1>1 DEF Message
  <2>3. \A e \in Requests : request'[e].found.file \in Nat
    BY <1>1, <1>4 DEF Others, Message
  <2>4. CASE d = c
    BY <1>1, <1>2, <1>3, <2>1, <2>2, <2>3, <2>4
  <2>5. CASE d # c
    BY <2>1, <2>5, Finding, Blank, <1>1 DEF Names, Fresh, Others
  <2> QED
    BY <2>4, <2>5
<1> QED
  BY <1>5, <1>6 DEF Names

\* With its manifest a file is the path's.
LEMMA NamesPosted ==
  ASSUME ObjectTypes, Names, NEW c \in Requests, Resets(c), Storing(c), Posts(c)
  PROVE  Names'
<1>1. PICK m \in Message : m.id = ids.manifest + 1 /\ m.file = request[c].file /\ manifests' = manifests \cup {m}
  BY DEF Posts
<1>2. /\ ids.manifest \in Nat /\ ids.file \in Nat
      /\ \A d \in Requests : request[d].found \in Message /\ request[d].file \in Nat
      /\ manifests \subseteq Message
  BY DEF ObjectTypes, Asked
<1>3. /\ 1 <= m.file /\ m.file <= ids.file /\ \A n \in manifests : n.file # m.file
      /\ \A d \in Requests : request[d].found.file # m.file
      /\ \A d \in Requests : Storing(d) /\ request[d].file = m.file => d = c
  BY <1>1 DEF Names, Fresh
<1>4. \A n \in manifests : n.id # m.id /\ n.id \in Nat /\ n.id <= ids.manifest
  BY <1>1, <1>2 DEF Names, Numbered, Message
<1>5. ids'.file = ids.file /\ ids'.manifest = ids.manifest + 1
  BY DEF Posts
<1>6. ASSUME NEW d \in Requests
      PROVE  /\ request'[d].found.id <= ids.manifest /\ request'[d].found.file <= ids.file
             /\ request'[d].found.id = 0 => request'[d].found = Store!NoManifest
             /\ \A n \in manifests : n.id = request'[d].found.id <=> n.file = request'[d].found.file
             /\ request'[d].found.id \in Nat /\ request'[d].found.file # m.file
  BY <1>2, <1>3, Blank DEF Names, Numbered, Resets, Others, Message
<1>7. Numbered'
  BY <1>2, <1>4, <1>5, <1>1, <1>3, <1>6 DEF Names, Numbered
<1>8. Fresh'
  <2> SUFFICES ASSUME NEW d \in Requests, Storing(d)'
               PROVE  /\ 1 <= request'[d].file /\ request'[d].file <= ids'.file
                      /\ \A n \in manifests' : n.file # request'[d].file
                      /\ \A e \in Requests : request'[e].found.file # request'[d].file
                      /\ \A e \in Requests : Storing(e)' /\ request'[e].file = request'[d].file => e = d
    BY DEF Fresh
  <2>1. ASSUME NEW e \in Requests, Storing(e)' PROVE e # c /\ Storing(e) /\ request'[e].file = request[e].file
    BY <2>1 DEF Storing, Resets, Others
  <2>2. d # c /\ Storing(d) /\ request'[d].file = request[d].file
    BY <2>1
  <2>3. m.file # request[d].file
    BY <1>3, <2>2
  <2>4. \A e \in Requests : request'[e].found.file # request[d].file
    BY <2>2, Blank DEF Names, Fresh, Resets, Others
  <2> QED
    BY <1>1, <1>5, <2>1, <2>2, <2>3, <2>4 DEF Names, Fresh
<1> QED
  BY <1>7, <1>8 DEF Names

LEMMA NamesHold ==
  ASSUME ObjectTypes, Routed, Names, Store!Next
  PROVE  Names'
  BY Blank, Changing, Arrives, NamesStay, Finds, Finding, NamesBegin, Erases, Uploads, Forgets,
     Publishes, NamesPosted, Rereads, Edits, Failing, Losing DEF Names, Numbered, Resets, Changes,
     Keeps, Storing, Routed, Store!Next, Store!Step

-----------------------------------------------------------------------------
(* Objects: parts and manifests.                                            *)

\* No part is of a file that has not been begun.
Stored == Filled /\ \A p \in parts : p[1] <= ids.file

FilledAt(c) ==
  /\ pc[c] = "upload" => \A k \in Store!Parts : <<request[c].file, k>> \in parts <=> k < request[c].part
  /\ pc[c] = "publish" => \A k \in Store!Parts : <<request[c].file, k>> \in parts
  /\ pc[c] = "erase" => \A k \in Store!Parts : k < request[c].part => <<request[c].found.file, k>> \notin parts
  /\ pc[c] = "forget" => \A k \in Store!Parts : <<request[c].found.file, k>> \notin parts

LEMMA StoredStays ==
  ASSUME Stored, NEW c \in Requests, Others(c), FilledAt(c)',
         \A p \in parts' : p[1] <= ids'.file,
         \A d \in Requests : d # c /\ Storing(d) =>
           \A k \in Store!Parts : <<request[d].file, k>> \in parts' <=> <<request[d].file, k>> \in parts,
         \A d \in Requests : d # c /\ pc[d] \in {"erase", "forget"} =>
           \A k \in Store!Parts : <<request[d].found.file, k>> \in parts' => <<request[d].found.file, k>> \in parts
  PROVE  Stored'
<1>1. \A d \in Requests : d # c => FilledAt(d)'
  <2> SUFFICES ASSUME NEW d \in Requests, d # c PROVE FilledAt(d)'
    OBVIOUS
  <2>1. pc'[d] = pc[d] /\ request'[d] = request[d]
    BY DEF Others
  <2> QED
    BY <2>1 DEF Stored, Filled, FilledAt, Storing
<1> QED
  BY <1>1 DEF Stored, Filled, FilledAt

LEMMA StoredHolds ==
  ASSUME ObjectTypes, Routed, Names, Stored, Store!Next
  PROVE  Stored'
<1>0. /\ \A p \in parts : p[1] \in Nat /\ p[1] <= ids.file /\ ids.file \in Nat
      /\ \A c \in Requests : /\ request[c].part \in Nat /\ 1 <= request[c].part /\ request[c].part <= NumParts
                             /\ request[c].file \in Nat /\ NumParts \in Nat
      /\ \A k \in Store!Parts : k \in Nat /\ 1 <= k /\ k <= NumParts
  BY Blank, StorageAssumption DEF ObjectTypes, Stored, Asked
<1>1. ASSUME NEW c \in Requests, Others(c), UNCHANGED <<parts, ids>>, FilledAt(c)' PROVE Stored'
  BY <1>0, <1>1, StoredStays
<1>2. ASSUME NEW c \in Requests, pc'[c] \notin {"upload", "publish", "erase", "forget"} PROVE FilledAt(c)'
  BY <1>2 DEF FilledAt
<1>3. ASSUME NEW c \in Requests, Others(c), UNCHANGED parts, ids'.file = ids.file + 1,
             pc'[c] = "upload", request'[c].part = 1, request'[c].file = ids.file + 1
      PROVE  Stored'
  <2>1. \A k \in Store!Parts : <<ids.file + 1, k>> \notin parts
    <3> SUFFICES ASSUME NEW k \in Store!Parts, <<ids.file + 1, k>> \in parts PROVE FALSE
      OBVIOUS
    <3>1. <<ids.file + 1, k>>[1] <= ids.file
      BY <1>0
    <3> QED
      BY <1>0, <3>1
  <2>2. FilledAt(c)'
    BY <1>0, <1>3, <2>1 DEF FilledAt
  <2> QED
    BY <1>0, <1>3, <2>2, StoredStays
<1>4. ASSUME NEW c \in Requests, Others(c), UNCHANGED ids,
             pc[c] = "erase", parts' = parts \ {<<request[c].found.file, request[c].part>>}, FilledAt(c)'
      PROVE  Stored'
  BY <1>0, <1>4, StoredStays DEF Names, Fresh
<1>5. ASSUME NEW c \in Requests, Others(c), UNCHANGED ids,
             pc[c] = "upload", parts' = parts \cup {<<request[c].file, request[c].part>>}, FilledAt(c)'
      PROVE  Stored'
  BY <1>5, <1>0, StoredStays DEF Storing, Names, Fresh
<1>6. ASSUME NEW c \in Requests, NEW kind \in Store!Kinds, Store!Arrive(c, kind) PROVE Stored'
  BY <1>1, <1>2, <1>6, Arrives
<1>7. ASSUME NEW c \in Requests, Store!Find(c) PROVE Stored'
  BY <1>1, <1>2, <1>7, Finds, <1>3, <1>0 DEF Resets, Routed, FilledAt
<1>8. ASSUME NEW c \in Requests, Store!Erase(c) PROVE Stored'
  <2>1. /\ pc[c] = "erase" /\ Others(c) /\ UNCHANGED ids /\ request'[c].found = request[c].found
        /\ parts' = parts \ {<<request[c].found.file, request[c].part>>}
        /\ \/ request[c].part = NumParts /\ pc'[c] = "forget"
           \/ request[c].part # NumParts /\ pc'[c] = pc[c] /\ request'[c].part = request[c].part + 1
    BY <1>8, Erases DEF Keeps
  <2>2. \A k \in Store!Parts : k < request[c].part + 1 => <<request[c].found.file, k>> \notin parts'
    <3> SUFFICES ASSUME NEW k \in Store!Parts, k < request[c].part + 1 PROVE <<request[c].found.file, k>> \notin parts'
      OBVIOUS
    <3>1. k = request[c].part \/ k < request[c].part
      BY <1>0
    <3> QED
      BY <2>1, <3>1 DEF Stored, Filled
  <2>3. FilledAt(c)'
    BY <1>0, <2>1, <2>2 DEF FilledAt
  <2> QED
    BY <1>4, <2>1, <2>3
<1>9. ASSUME NEW c \in Requests, Store!Upload(c) PROVE Stored'
  <2>1. /\ pc[c] = "upload" /\ Others(c) /\ UNCHANGED ids /\ request'[c].file = request[c].file
        /\ parts' = parts \cup {<<request[c].file, request[c].part>>}
        /\ \/ request[c].part = NumParts /\ pc'[c] = "publish"
           \/ request[c].part # NumParts /\ pc'[c] = pc[c] /\ request'[c].part = request[c].part + 1
    BY <1>9, Uploads DEF Keeps
  <2>2. \A k \in Store!Parts : <<request[c].file, k>> \in parts' <=> k < request[c].part + 1
    <3> SUFFICES ASSUME NEW k \in Store!Parts PROVE <<request[c].file, k>> \in parts' <=> k < request[c].part + 1
      OBVIOUS
    <3>1. k < request[c].part + 1 <=> (k = request[c].part \/ k < request[c].part)
      BY <1>0
    <3>2. <<request[c].file, k>> \in parts <=> k < request[c].part
      BY <2>1 DEF Stored, Filled
    <3> QED
      BY <2>1, <3>1, <3>2
  <2>3. FilledAt(c)'
    BY <1>0, <2>1, <2>2 DEF FilledAt
  <2> QED
    BY <1>5, <2>1, <2>3
<1>10. ASSUME NEW c \in Requests, Store!Forget(c) PROVE Stored'
  BY <1>1, <1>2, <1>10, Forgets, <1>3 DEF Resets
<1>11. ASSUME NEW c \in Requests, Resets(c), UNCHANGED parts, ids'.file = ids.file PROVE Stored'
  BY <1>2, <1>11, <1>0, StoredStays DEF Resets
<1>12. ASSUME NEW c \in Requests, Store!Publish(c) PROVE Stored'
  BY <1>11, <1>12, Publishes DEF Posts
<1>13. ASSUME NEW c \in Requests, Store!ReadManifest(c) PROVE Stored'
  BY <1>11, <1>13, Rereads, <1>1, <1>2
<1>14. ASSUME NEW c \in Requests, Store!Edit(c) PROVE Stored'
  BY <1>11, <1>14, Edits
<1>15. ASSUME NEW c \in Requests, Store!Fails(c) PROVE Stored'
  BY <1>11, <1>15, Failing
<1>16. ASSUME NEW c \in Requests, Store!AnswerLost(c) PROVE Stored'
  BY <1>2, <1>16, Losing, <1>4, <1>5, <1>11 DEF Resets, Posts
<1> QED
  BY <1>6, <1>7, <1>8, <1>9, <1>10, <1>12, <1>13, <1>14, <1>15, <1>16, Zenon DEF Store!Next, Store!Step

\* A manifest names a whole file, or one that a request has begun to delete.
Intact(file) == \A k \in Store!Parts : <<file, k>> \in parts
Begun(c) == pc[c] = "forget" \/ (pc[c] = "erase" /\ request[c].part > 1)
Complete == "cut_delete" \notin incidents => \A m \in manifests :
  Intact(m.file) \/ \E c \in Requests : Begun(c) /\ request[c].found.file = m.file

\* A part has a manifest, or a request that sends the file.
Owner(file) == \/ \E m \in manifests : m.file = file
               \/ \E c \in Requests : Storing(c) /\ request[c].file = file
Owned == "cut_upload" \notin incidents => \A p \in parts : Owner(p[1])

LEMMA CompleteStays ==
  ASSUME Complete, NEW c \in Requests, Others(c), incidents \subseteq incidents',
         \A m \in manifests' : \/ Intact(m.file)'
                               \/ \E n \in manifests : m.file = n.file /\ (Intact(n.file) => Intact(n.file)'),
         "cut_delete" \notin incidents' => \A m \in manifests' :
           Begun(c) /\ request[c].found.file = m.file => Begun(c)' /\ request'[c].found.file = m.file
  PROVE  Complete'
<1> SUFFICES ASSUME "cut_delete" \notin incidents', NEW m \in manifests'
             PROVE  Intact(m.file)' \/ \E d \in Requests : Begun(d)' /\ request'[d].found.file = m.file
  BY DEF Complete
<1>1. CASE ~Intact(m.file)'
  <2>1. PICK n \in manifests : m.file = n.file /\ (Intact(n.file) => Intact(n.file)')
    BY <1>1
  <2> DEFINE file == n.file
  <2>2. m.file = file /\ (Intact(file) => Intact(file)')
    BY <2>1
  <2>3. Intact(file) \/ \E d \in Requests : Begun(d) /\ request[d].found.file = file
    BY DEF Complete
  <2> HIDE DEF file
  <2>4. CASE Intact(file)
    BY <1>1, <2>2, <2>4 DEF Intact
  <2>5. ASSUME NEW d \in Requests, Begun(d), request[d].found.file = file
        PROVE  Begun(d)' /\ request'[d].found.file = m.file
    BY <2>2, <2>5 DEF Begun, Others
  <2> QED
    BY <2>3, <2>4, <2>5
<1> QED
  BY <1>1

LEMMA OwnedStays ==
  ASSUME Owned, NEW c \in Requests, Others(c), incidents \subseteq incidents',
         "cut_upload" \notin incidents' =>
           \A p \in parts' : \/ Owner(p[1])'
                             \/ /\ p \in parts /\ ~(Storing(c) /\ request[c].file = p[1])
                                /\ \A m \in manifests : m.file = p[1] => \E n \in manifests' : n.file = m.file
  PROVE  Owned'
<1> SUFFICES ASSUME "cut_upload" \notin incidents', NEW p \in parts', ~Owner(p[1])' PROVE FALSE
  BY DEF Owned
<1>1. /\ p \in parts /\ ~(Storing(c) /\ request[c].file = p[1])
      /\ \A m \in manifests : m.file = p[1] => \E n \in manifests' : n.file = m.file
  OBVIOUS
<1>2. Owner(p[1])
  BY <1>1 DEF Owned
<1>3. CASE \E m \in manifests : m.file = p[1]
  BY <1>1, <1>3 DEF Owner
<1>4. ASSUME NEW d \in Requests, Storing(d), request[d].file = p[1] PROVE FALSE
  BY <1>1, <1>4 DEF Storing, Others, Owner
<1> QED
  BY <1>2, <1>3, <1>4 DEF Owner

\* The number of an edited or a remaining manifest's file is what it was.
LEMMA EditedFiles ==
  ASSUME ObjectTypes, Names, NEW c \in Requests, request[c].kind \in Store!Fields, Store!EditEffect(c)
  PROVE  /\ \A m \in manifests' : \E n \in manifests : n.id = m.id /\ n.file = m.file
         /\ \A m \in manifests : \E n \in manifests' : n.id = m.id /\ n.file = m.file
  BY Changing DEF Names, Numbered, Changes

LEMMA CompleteHolds ==
  ASSUME ObjectTypes, Routed, Names, Stored, Complete, Store!Next
  PROVE  Complete'
<1>0. \A c \in Requests : request[c].part \in Nat /\ 1 <= request[c].part
  BY Blank DEF ObjectTypes, Asked
<1>1. ASSUME NEW c \in Requests, ~Begun(c), Others(c), incidents \subseteq incidents', parts \subseteq parts',
             \A m \in manifests' : \E n \in manifests : m.file = n.file
      PROVE  Complete'
  BY <1>1, CompleteStays DEF Intact
<1>2. ASSUME NEW c \in Requests, Posts(c), Resets(c), pc[c] = "publish", incidents \subseteq incidents', UNCHANGED parts
      PROVE  Complete'
  BY <1>2, CompleteStays DEF Posts, Stored, Filled, Intact, Begun, Resets
<1>3. ASSUME NEW c \in Requests, Others(c), incidents \subseteq incidents', UNCHANGED parts,
             manifests' = {m \in manifests : m.id # request[c].found.id}
      PROVE  Complete'
  BY <1>3, CompleteStays DEF Intact, Names, Numbered
<1>4. ASSUME "cut_delete" \in incidents' PROVE Complete'
  BY <1>4 DEF Complete
<1>5. ASSUME NEW c \in Requests, NEW kind \in Store!Kinds, Store!Arrive(c, kind) PROVE Complete'
  BY <1>1, <1>5, Arrives DEF Begun
<1>6. ASSUME NEW c \in Requests, Store!Find(c) PROVE Complete'
  BY <1>6, Finds, <1>1 DEF Resets, Begun
<1>7. ASSUME NEW c \in Requests, Store!Erase(c) PROVE Complete'
  <2>1. /\ pc[c] = "erase" /\ Others(c) /\ request'[c].found = request[c].found
        /\ UNCHANGED <<manifests, incidents>>
        /\ parts' = parts \ {<<request[c].found.file, request[c].part>>}
        /\ \/ request[c].part = NumParts /\ pc'[c] = "forget"
           \/ request[c].part # NumParts /\ pc'[c] = pc[c] /\ request'[c].part = request[c].part + 1
    BY <1>7, Erases DEF Keeps
  <2>2. Begun(c)'
    BY <1>0, <2>1 DEF Begun
  <2> SUFFICES ASSUME "cut_delete" \notin incidents', NEW m \in manifests'
               PROVE  Intact(m.file)' \/ \E d \in Requests : Begun(d)' /\ request'[d].found.file = m.file
    BY DEF Complete
  <2>3. CASE m.file = request[c].found.file
    BY <2>1, <2>2, <2>3
  <2>4. CASE m.file # request[c].found.file
    <3>1. \A k : <<m.file, k>> \in parts => <<m.file, k>> \in parts'
      BY <2>1, <2>4
    <3>2. Intact(m.file) \/ \E d \in Requests : Begun(d) /\ request[d].found.file = m.file
      BY <2>1 DEF Complete
    <3>3. ASSUME NEW d \in Requests, Begun(d), request[d].found.file = m.file
          PROVE  Begun(d)' /\ request'[d].found.file = m.file
      BY <2>1, <2>4, <3>3 DEF Begun, Others
    <3>4. CASE Intact(m.file)
      <4>1. \A k \in Store!Parts : <<m.file, k>> \in parts'
        BY <3>1, <3>4 DEF Intact
      <4> SUFFICES ASSUME NEW file, file = m.file PROVE Intact(m.file)'
        OBVIOUS
      <4>2. UNCHANGED manifests
        BY <2>1
      <4> QED
        BY <4>1, <4>2 DEF Intact
    <3> QED
      BY <3>2, <3>3, <3>4
  <2> QED
    BY <2>3, <2>4
<1>8. ASSUME NEW c \in Requests, Store!Upload(c) PROVE Complete'
  BY <1>8, Uploads, <1>1 DEF Begun
<1>9. ASSUME NEW c \in Requests, Store!Forget(c) PROVE Complete'
  BY <1>3, <1>9, Forgets DEF Resets
<1>10. ASSUME NEW c \in Requests, Store!Publish(c) PROVE Complete'
  BY <1>2, <1>10, Publishes
<1>11. ASSUME NEW c \in Requests, Store!ReadManifest(c) PROVE Complete'
  BY <1>11, Rereads, <1>1 DEF Resets, Begun
<1>12. ASSUME NEW c \in Requests, pc[c] = "edit", Resets(c), Store!EditEffect(c), request[c].kind \in Store!Fields,
              UNCHANGED <<parts, incidents>>
       PROVE  Complete'
  BY <1>12, EditedFiles, <1>1 DEF Begun, Resets
<1>13. ASSUME NEW c \in Requests, Store!Edit(c) PROVE Complete'
  BY <1>12, <1>13, Edits
<1>14. ASSUME NEW c \in Requests, Store!Fails(c) PROVE Complete'
  BY <1>14, Failing, <1>4, <1>1 DEF Resets, Begun, Store!Cut
<1>15. ASSUME NEW c \in Requests, Store!AnswerLost(c) PROVE Complete'
  BY <1>15, Losing, <1>4, <1>3, <1>1, <1>2, <1>12 DEF Resets, Begun
<1> QED
  BY <1>5, <1>6, <1>7, <1>8, <1>9, <1>10, <1>11, <1>13, <1>14, <1>15, Zenon DEF Store!Next, Store!Step

LEMMA OwnedHolds ==
  ASSUME ObjectTypes, Routed, Names, Stored, Owned, Store!Next
  PROVE  Owned'
<1>0. \A c \in Requests : request[c].part \in Nat /\ 1 <= request[c].part
  BY Blank DEF ObjectTypes, Asked
<1>1. ASSUME NEW c \in Requests, ~Storing(c), Others(c), incidents \subseteq incidents', parts' \subseteq parts,
             \A m \in manifests : \E n \in manifests' : n.file = m.file
      PROVE  Owned'
  BY <1>1, OwnedStays
<1>2. ASSUME NEW c \in Requests, Storing(c), Others(c), incidents \subseteq incidents', UNCHANGED manifests,
             \A p \in parts' : p \in parts \/ p[1] = request[c].file,
             Storing(c)', request'[c].file = request[c].file
      PROVE  Owned'
  BY <1>2, OwnedStays DEF Owner
<1>3. ASSUME NEW c \in Requests, Others(c), incidents \subseteq incidents', parts' \subseteq parts, pc[c] = "forget",
             manifests' = {m \in manifests : m.id # request[c].found.id}
      PROVE  Owned'
  <2>1. \A p \in parts : p[1] # request[c].found.file
    <3> SUFFICES ASSUME NEW p \in parts, p[1] = request[c].found.file PROVE FALSE
      OBVIOUS
    <3>1. p[2] \in Store!Parts /\ p = <<request[c].found.file, p[2]>>
      BY DEF ObjectTypes
    <3> QED
      BY <1>3, <3>1 DEF Stored, Filled
  <2>2. \A m \in manifests : m.file # request[c].found.file => m \in manifests'
    BY <1>3 DEF Names, Numbered
  <2>3. ~Storing(c)
    BY <1>3 DEF Storing
  <2>4. ASSUME NEW p \in parts', NEW m \in manifests, m.file = p[1] PROVE \E n \in manifests' : n.file = m.file
    BY <1>3, <2>1, <2>2, <2>4
  <2> QED
    BY <1>3, <2>3, <2>4, OwnedStays
<1>4. ASSUME "cut_upload" \in incidents' PROVE Owned'
  BY <1>4 DEF Owned
<1>5. ASSUME NEW c \in Requests, Others(c), Posts(c), incidents \subseteq incidents', UNCHANGED parts PROVE Owned'
  <2>1. PICK m \in manifests' : m.file = request[c].file
    BY <1>5 DEF Posts
  <2>2. \A p : p[1] = request[c].file => Owner(p[1])'
    BY <2>1 DEF Owner
  <2>3. manifests \subseteq manifests'
    BY <1>5 DEF Posts
  <2> QED
    BY <1>5, <2>2, <2>3, OwnedStays
<1>6. ASSUME NEW c \in Requests, NEW kind \in Store!Kinds, Store!Arrive(c, kind) PROVE Owned'
  BY <1>1, <1>6, Arrives DEF Storing
<1>7. ASSUME NEW c \in Requests, Store!Find(c) PROVE Owned'
  BY <1>7, Finds, <1>1 DEF Resets, Storing
<1>8. ASSUME NEW c \in Requests, Store!Erase(c) PROVE Owned'
  BY <1>8, Erases, <1>1 DEF Storing
<1>9. ASSUME NEW c \in Requests, Store!Upload(c) PROVE Owned'
  BY <1>9, Uploads, <1>2 DEF Keeps, Storing
<1>10. ASSUME NEW c \in Requests, Store!Forget(c) PROVE Owned'
  BY <1>3, <1>10, Forgets DEF Resets
<1>11. ASSUME NEW c \in Requests, Store!Publish(c) PROVE Owned'
  BY <1>5, <1>11, Publishes DEF Resets
<1>12. ASSUME NEW c \in Requests, Store!ReadManifest(c) PROVE Owned'
  BY <1>12, Rereads, <1>1 DEF Resets, Storing
<1>13. ASSUME NEW c \in Requests, pc[c] = "edit", Resets(c), Store!EditEffect(c), request[c].kind \in Store!Fields,
              UNCHANGED <<parts, incidents>>
       PROVE  Owned'
  BY <1>13, EditedFiles, <1>1 DEF Storing, Resets
<1>14. ASSUME NEW c \in Requests, Store!Edit(c) PROVE Owned'
  BY <1>13, <1>14, Edits
<1>15. ASSUME NEW c \in Requests, Store!Fails(c) PROVE Owned'
  <2>1. Others(c) /\ UNCHANGED <<manifests, parts>> /\ incidents' = incidents \cup Store!Cut(c)
    BY <1>15, Failing DEF Resets
  <2>2. CASE ~Storing(c)
    BY <1>1, <2>1, <2>2
  <2>3. CASE pc[c] = "publish"
    BY <1>4, <2>1, <2>3 DEF Store!Cut
  <2>4. CASE pc[c] = "upload"
    <3>1. CASE request[c].part > 1
      BY <1>4, <2>1, <2>4, <3>1 DEF Store!Cut
    <3>2. CASE ~(request[c].part > 1)
      <4>1. request[c].part = 1
        BY <1>0, <3>2
      <4>2. \A k \in Store!Parts : ~(k < 1)
        BY Blank
      <4>3. \A p \in parts : p[1] # request[c].file
        <5> SUFFICES ASSUME NEW p \in parts, p[1] = request[c].file PROVE FALSE
          OBVIOUS
        <5>1. p[2] \in Store!Parts /\ p = <<request[c].file, p[2]>>
          BY DEF ObjectTypes
        <5> QED
          BY <2>4, <4>1, <4>2, <5>1 DEF Stored, Filled
      <4> QED
        BY <2>1, <4>3, OwnedStays
    <3> QED
      BY <3>1, <3>2
  <2> QED
    BY <2>2, <2>3, <2>4 DEF Storing
<1>16. ASSUME NEW c \in Requests, Store!AnswerLost(c) PROVE Owned'
  BY <1>16, Losing, <1>4, <1>3, <1>1, <1>5, <1>13 DEF Resets, Storing
<1> QED
  BY <1>6, <1>7, <1>8, <1>9, <1>10, <1>11, <1>12, <1>14, <1>15, <1>16, Zenon DEF Store!Next, Store!Step

-----------------------------------------------------------------------------
(* Objects: requests that are in progress together, and the last answered.  *)

\* Uploads are alone, deletions too, and patches, unless that has been noted.
Apart ==
  /\ "two_puts" \notin incidents => \A c, d \in Requests : Store!Puts(c) /\ Store!Puts(d) => c = d
  /\ "crossed" \notin incidents =>
       \A c, d \in Requests : Store!Erases(c) /\ (Store!Puts(d) \/ Store!Erases(d)) => c = d
  /\ "two_patches" \notin incidents => \A c, d \in Requests : Store!Patches(c) /\ Store!Patches(d) => c = d

\* Who goes on, goes on with what it was doing.
GoesOn(c) == pc'[c] # "idle" => pc[c] # "idle" /\ request'[c].kind = request[c].kind

LEMMA ApartStays ==
  ASSUME Apart, NEW c \in Requests, Others(c), GoesOn(c), incidents \subseteq incidents'
  PROVE  Apart'
  BY DEF GoesOn, Store!Puts, Store!Erases, Store!Patches, Others, Apart

LEMMA StepGoesOn ==
  ASSUME ObjectTypes, Routed, NEW c \in Requests, Store!Step(c) \/ Store!Fails(c) \/ Store!AnswerLost(c)
  PROVE  Others(c) /\ GoesOn(c) /\ incidents \subseteq incidents'
  BY Finds, Erases, Uploads, Forgets, Publishes, Rereads, Edits, Failing, Losing DEF Resets, GoesOn,
     Keeps, Store!Step

LEMMA ApartHolds ==
  ASSUME ObjectTypes, Routed, Apart, Store!Next
  PROVE  Apart'
<1>1. ASSUME NEW c \in Requests, NEW kind \in Store!Kinds, Store!Arrive(c, kind) PROVE Apart'
  <2>1. /\ Others(c) /\ pc[c] = "idle" /\ request'[c].kind = kind /\ incidents \subseteq incidents'
        /\ kind \in {"put", "upsert"} /\ (\E d \in Requests : Store!Puts(d)) => "two_puts" \in incidents'
        /\ kind \in {"put", "upsert"} /\ (\E d \in Requests : Store!Erases(d)) => "crossed" \in incidents'
        /\ kind = "delete" /\ (\E d \in Requests : Store!Puts(d) \/ Store!Erases(d)) => "crossed" \in incidents'
        /\ kind \in Store!Fields /\ (\E d \in Requests : Store!Patches(d)) => "two_patches" \in incidents'
    BY <1>1, Arrives
  <2>2. ASSUME NEW d \in Requests, d # c
        PROVE  /\ Store!Puts(d)' <=> Store!Puts(d)
               /\ Store!Erases(d)' <=> Store!Erases(d)
               /\ Store!Patches(d)' <=> Store!Patches(d)
    BY <2>1, <2>2 DEF Others, Store!Puts, Store!Erases, Store!Patches
  <2>3. /\ Store!Puts(c)' => kind \in {"put", "upsert"}
        /\ Store!Erases(c)' => kind = "delete"
        /\ Store!Patches(c)' => kind \in Store!Fields
    BY <2>1 DEF Store!Puts, Store!Erases, Store!Patches
  <2>4. "two_puts" \notin incidents' => \A d, e \in Requests : Store!Puts(d)' /\ Store!Puts(e)' => d = e
    BY <2>1, <2>2, <2>3 DEF Apart
  <2>5. "crossed" \notin incidents' =>
          \A d, e \in Requests : Store!Erases(d)' /\ (Store!Puts(e)' \/ Store!Erases(e)') => d = e
    <3> SUFFICES ASSUME "crossed" \notin incidents', NEW d \in Requests, NEW e \in Requests, Store!Erases(d)',
                        Store!Puts(e)' \/ Store!Erases(e)', d # e
                 PROVE  FALSE
      OBVIOUS
    <3>1. CASE d = c
      BY <2>1, <2>2, <2>3, <3>1
    <3>2. CASE e = c
      BY <2>1, <2>2, <2>3, <3>2
    <3>3. CASE d # c /\ e # c
      BY <2>1, <2>2, <3>3 DEF Apart
    <3> QED
      BY <3>1, <3>2, <3>3
  <2>6. "two_patches" \notin incidents' => \A d, e \in Requests : Store!Patches(d)' /\ Store!Patches(e)' => d = e
    BY <2>1, <2>2, <2>3 DEF Apart
  <2> QED
    BY <2>4, <2>5, <2>6 DEF Apart
<1>2. ASSUME NEW c \in Requests, Store!Step(c) \/ Store!Fails(c) \/ Store!AnswerLost(c) PROVE Apart'
  BY <1>2, StepGoesOn, ApartStays
<1> QED
  BY <1>1, <1>2, Zenon DEF Store!Next

\* As long as no two uploads were in progress together the path has one manifest, the one that is
\* found, and while it is being replaced it has none.
SoleAt(c) ==
  /\ pc[c] \in {"erase", "forget"} /\ (request[c].kind = "upsert" \/ "crossed" \notin incidents) =>
       \A m \in manifests : m.id = request[c].found.id
  /\ Storing(c) => manifests = {}
Sole == "two_puts" \notin incidents => (\A m, n \in manifests : m = n) /\ \A c \in Requests : SoleAt(c)

LEMMA SoleStays ==
  ASSUME ObjectTypes, Sole, NEW c \in Requests, Others(c), incidents \subseteq incidents',
         "two_puts" \notin incidents' => SoleAt(c)',
         \A m \in manifests' : \E n \in manifests : n.id = m.id,
         \A m, n \in manifests' : m.id = n.id => m = n
  PROVE  Sole'
<1> SUFFICES ASSUME "two_puts" \notin incidents'
             PROVE  (\A m, n \in manifests' : m = n) /\ \A d \in Requests : SoleAt(d)'
  BY DEF Sole
<1>1. (\A m, n \in manifests : m = n) /\ \A d \in Requests : SoleAt(d)
  BY DEF Sole
<1>2. \A m, n \in manifests' : m = n
  BY <1>1
<1>3. ASSUME NEW d \in Requests PROVE SoleAt(d)'
  BY <1>1 DEF SoleAt, Storing, Others
<1> QED
  BY <1>2, <1>3

LEMMA SoleHolds ==
  ASSUME ObjectTypes, Routed, Names, Apart, Sole, Store!Next
  PROVE  Sole'
<1>0. \A m, n \in manifests : m.id = n.id => m = n
  BY DEF Names, Numbered
<1>1. ASSUME NEW c \in Requests, pc'[c] \notin {"erase", "forget", "upload", "publish"} PROVE SoleAt(c)'
  BY <1>1 DEF SoleAt, Storing
<1>2. ASSUME NEW c \in Requests, Others(c), incidents \subseteq incidents', manifests' \subseteq manifests,
             "two_puts" \notin incidents' => SoleAt(c)'
      PROVE  Sole'
  BY <1>0, <1>2, SoleStays
<1>3. ASSUME NEW c \in Requests, NEW kind \in Store!Kinds, Store!Arrive(c, kind) PROVE Sole'
  BY <1>1, <1>2, <1>3, Arrives
<1>4. ASSUME NEW c \in Requests, Store!Find(c) PROVE Sole'
  <2>1. pc[c] = "find" /\ Others(c) /\ UNCHANGED <<manifests, incidents>>
    BY <1>4, Finds DEF Resets
  <2>2. CASE pc'[c] \notin {"erase", "forget", "upload", "publish"}
    BY <1>1, <1>2, <2>1, <2>2
  <2>3. CASE pc'[c] = "upload" /\ Store!Found = Store!NoManifest
    <3>1. "two_puts" \notin incidents' => manifests = {}
      <4> SUFFICES ASSUME "two_puts" \notin incidents, NEW m \in manifests PROVE FALSE
        BY <2>1
      <4>1. m.id \in Nat /\ \A n \in manifests : n = m
        BY DEF Sole, ObjectTypes, Message
      <4>2. m.id <= m.id
        BY <4>1
      <4>3. Store!NoManifest \notin manifests
        BY Blank DEF Names, Numbered
      <4> QED
        BY <2>3, <4>1, <4>2, <4>3, Finding
    <3>2. "two_puts" \notin incidents' => SoleAt(c)'
      BY <2>1, <2>3, <3>1 DEF SoleAt
    <3> QED
      BY <1>2, <2>1, <3>2
  <2>4. CASE pc'[c] = "erase" /\ Store!Found # Store!NoManifest /\ request'[c].found = Store!Found
    BY <2>4, Finding, <2>1, <1>2 DEF Sole, SoleAt, Storing
  <2> QED
    BY <1>4, <2>2, <2>3, <2>4, Finds DEF Resets
<1>5. ASSUME NEW c \in Requests, Store!Erase(c) PROVE Sole'
  BY <1>5, Erases, <1>2 DEF Keeps, Sole, SoleAt, Storing
<1>6. ASSUME NEW c \in Requests, Store!Upload(c) PROVE Sole'
  BY <1>6, Uploads, <1>2 DEF Sole, SoleAt, Storing
<1>7. ASSUME NEW c \in Requests, Store!Forget(c) PROVE Sole'
  BY <1>7, Forgets, <1>1, <1>2 DEF Resets, Routed, Sole, SoleAt
<1>8. ASSUME NEW c \in Requests, Resets(c), Storing(c), Posts(c), incidents \subseteq incidents' PROVE Sole'
  <2>1. PICK m \in Message : manifests' = manifests \cup {m}
    BY <1>8 DEF Posts
  <2>2. Store!Puts(c)
    BY <1>8 DEF Storing, Routed, Store!Puts
  <2> SUFFICES ASSUME "two_puts" \notin incidents', "two_puts" \notin incidents
               PROVE  (\A n, o \in manifests' : n = o) /\ \A d \in Requests : SoleAt(d)'
    BY <1>8 DEF Sole
  <2>3. manifests' = {m}
    BY <1>8, <2>1 DEF Sole, SoleAt
  <2>4. ASSUME NEW d \in Requests PROVE SoleAt(d)'
    BY <1>1, <1>8, <2>2 DEF Resets, Others, Apart, Storing, Routed, Store!Puts, Store!Erases, SoleAt
  <2> QED
    BY <2>3, <2>4
<1>9. ASSUME NEW c \in Requests, Store!Publish(c) PROVE Sole'
  BY <1>8, <1>9, Publishes DEF Storing
<1>10. ASSUME NEW c \in Requests, Store!ReadManifest(c) PROVE Sole'
  BY <1>10, Rereads, <1>1, <1>2 DEF Resets
<1>11. ASSUME NEW c \in Requests, Resets(c), Store!EditEffect(c), request[c].kind \in Store!Fields,
              incidents \subseteq incidents'
       PROVE  Sole'
  BY <1>1, <1>11, EditedFiles, <1>0, Changing, SoleStays DEF Resets, Changes
<1>12. ASSUME NEW c \in Requests, Store!Edit(c) PROVE Sole'
  BY <1>11, <1>12, Edits
<1>13. ASSUME NEW c \in Requests, Resets(c), incidents \subseteq incidents', manifests' \subseteq manifests PROVE Sole'
  BY <1>1, <1>2, <1>13 DEF Resets
<1>14. ASSUME NEW c \in Requests, Store!Fails(c) PROVE Sole'
  BY <1>13, <1>14, Failing
<1>15. ASSUME NEW c \in Requests, Store!AnswerLost(c) PROVE Sole'
  BY <1>15, Losing, <1>13, <1>8, <1>11 DEF Storing
<1> QED
  BY <1>3, <1>4, <1>5, <1>6, <1>7, <1>9, <1>10, <1>12, <1>14, <1>15, Zenon DEF Store!Next, Store!Step

\* The manifest of the last file answered is the newest, or a request that puts another in its
\* place goes on; and after a deletion there is none.
Clear == incidents \cap {"crossed", "cut_upload", "unsure"} = {}
Replacing(c) == Storing(c) /\ request[c].found # Store!NoManifest
NewestIs(file) == \E m \in manifests : m.file = file /\ \A n \in manifests : n.id <= m.id
Latest == Clear =>
  /\ expected # 0 => NewestIs(expected) \/ \E c \in Requests : Replacing(c)
  /\ expected = 0 /\ "two_puts" \notin incidents => manifests = {}

LEMMA LatestStays ==
  ASSUME Latest, NEW c \in Requests, Others(c), incidents \subseteq incidents', UNCHANGED expected,
         Clear' /\ Replacing(c) => Replacing(c)',
         \A m \in manifests' : \E n \in manifests : n.id = m.id /\ n.file = m.file,
         \A m \in manifests : \E n \in manifests' : n.id = m.id /\ n.file = m.file
  PROVE  Latest'
<1> SUFFICES ASSUME Clear'
             PROVE  /\ expected # 0 => NewestIs(expected)' \/ \E d \in Requests : Replacing(d)'
                    /\ expected = 0 /\ "two_puts" \notin incidents' => manifests' = {}
  BY DEF Latest
<1>1. Clear
  BY DEF Clear
<1>2. NewestIs(expected) => NewestIs(expected)'
  BY DEF NewestIs
<1>3. ASSUME NEW d \in Requests, Replacing(d) PROVE Replacing(d)'
  BY <1>3 DEF Replacing, Storing, Others
<1> QED
  BY <1>1, <1>2, <1>3 DEF Latest

LEMMA LatestHolds ==
  ASSUME ObjectTypes, Routed, Names, Apart, Sole, Latest, Store!Next
  PROVE  Latest'
<1>0. \A m \in manifests : \E n \in manifests : n.id = m.id /\ n.file = m.file
  OBVIOUS
<1>1. ASSUME ~Clear' PROVE Latest'
  BY <1>1 DEF Latest
<1>2. ASSUME NEW c \in Requests, Others(c), incidents \subseteq incidents', UNCHANGED <<manifests, expected>>,
             Clear' /\ Replacing(c) => Replacing(c)'
      PROVE  Latest'
  BY <1>0, <1>2, LatestStays
<1>3. ASSUME NEW c \in Requests, ~Storing(c) PROVE ~Replacing(c)
  BY <1>3 DEF Replacing
<1>4. ASSUME NEW c \in Requests, NEW kind \in Store!Kinds, Store!Arrive(c, kind) PROVE Latest'
  BY <1>2, <1>3, <1>4, Arrives DEF Storing
<1>5. ASSUME NEW c \in Requests, Store!Find(c) PROVE Latest'
  BY <1>5, Finds, <1>2, <1>3 DEF Resets, Storing
<1>6. ASSUME NEW c \in Requests, Store!Erase(c) PROVE Latest'
  BY <1>2, <1>3, <1>6, Erases DEF Storing
<1>7. ASSUME NEW c \in Requests, Store!Upload(c) PROVE Latest'
  BY <1>7, Uploads, <1>2 DEF Keeps, Replacing, Storing
<1>8. ASSUME NEW c \in Requests, Store!Forget(c) PROVE Latest'
  <2>1. /\ pc[c] = "forget" /\ Others(c) /\ UNCHANGED incidents
        /\ manifests' = {m \in manifests : m.id # request[c].found.id}
    BY <1>8, Forgets DEF Resets
  <2> SUFFICES ASSUME Clear'
               PROVE  /\ expected' # 0 => NewestIs(expected)' \/ \E d \in Requests : Replacing(d)'
                      /\ expected' = 0 /\ "two_puts" \notin incidents' => manifests' = {}
    BY DEF Latest
  <2>2. Clear /\ "crossed" \notin incidents
    BY <2>1 DEF Clear
  <2>3. CASE request[c].kind = "delete" /\ expected' = 0
    BY <2>1, <2>2, <2>3 DEF Sole, SoleAt
  <2>4. CASE pc'[c] = "upload" /\ request'[c].found = Store!Found /\ UNCHANGED expected
    <3>1. expected = 0 /\ "two_puts" \notin incidents' => manifests' = {}
      BY <2>1, <2>2 DEF Latest
    <3>2. ASSUME expected # 0, Store!Found # Store!NoManifest PROVE \E d \in Requests : Replacing(d)'
      BY <2>4, <3>2 DEF Replacing, Storing
    <3>3. ASSUME expected # 0, Store!Found = Store!NoManifest PROVE \E d \in Requests : Replacing(d)'
      <4>1. Store!NoManifest \notin manifests
        BY Blank DEF Names, Numbered
      <4>2. ~NewestIs(expected)
        BY <3>3, <4>1, Finding DEF NewestIs
      <4>3. PICK d \in Requests : Replacing(d)
        BY <2>2, <3>3, <4>2 DEF Latest
      <4>4. d # c
        BY <2>1, <4>3 DEF Replacing, Storing
      <4>5. Replacing(d)'
        BY <2>1, <4>3, <4>4 DEF Replacing, Storing, Others
      <4> QED
        BY <4>5
    <3> QED
      BY <2>4, <3>1, <3>2, <3>3
  <2> QED
    BY <1>8, <2>3, <2>4, Forgets
<1>9. ASSUME NEW c \in Requests, Store!Publish(c) PROVE Latest'
  <2>1. pc[c] = "publish" /\ Posts(c) /\ expected' = request[c].file
    BY <1>9, Publishes
  <2>2. expected' # 0
    BY <2>1 DEF Storing, Names, Fresh
  <2>3. NewestIs(expected)'
    <3>1. PICK m \in Message : /\ m.id = ids.manifest + 1 /\ m.file = request[c].file
                               /\ manifests' = manifests \cup {m}
      BY <2>1 DEF Posts
    <3>2. ids.manifest \in Nat
      BY DEF ObjectTypes
    <3>3. ASSUME NEW n \in manifests PROVE n.id <= m.id
      BY <3>1, <3>2 DEF ObjectTypes, Message, Names, Numbered
    <3>4. m.id <= m.id
      BY <3>1, <3>2
    <3>5. \A n \in manifests' : n.id <= m.id
      BY <3>1, <3>3, <3>4
    <3> QED
      BY <2>1, <3>1, <3>5 DEF NewestIs
  <2> QED
    BY <2>2, <2>3 DEF Latest
<1>10. ASSUME NEW c \in Requests, Store!ReadManifest(c) PROVE Latest'
  BY <1>10, Rereads, <1>2, <1>3 DEF Resets, Storing
<1>11. ASSUME NEW c \in Requests, Resets(c), Store!EditEffect(c), request[c].kind \in Store!Fields, ~Storing(c),
              UNCHANGED <<incidents, expected>>
       PROVE  Latest'
  BY <1>3, <1>11, EditedFiles, LatestStays DEF Resets
<1>12. ASSUME NEW c \in Requests, Store!Edit(c) PROVE Latest'
  BY <1>11, <1>12, Edits DEF Storing
<1>13. ASSUME NEW c \in Requests, Store!Fails(c) PROVE Latest'
  BY <1>13, Failing, <1>2 DEF Replacing, Storing, Store!Cut, Clear, Resets
<1>14. ASSUME NEW c \in Requests, Store!AnswerLost(c) PROVE Latest'
  BY <1>14, Losing, <1>1, <1>2, <1>3, <1>11 DEF Resets, Clear, Storing
<1> QED
  BY <1>4, <1>5, <1>6, <1>7, <1>8, <1>9, <1>10, <1>12, <1>13, <1>14, Zenon DEF Store!Next, Store!Step

\* A patch that is alone edits the manifest as it is.
Current == "two_patches" \notin incidents =>
  \A c \in Requests : pc[c] = "edit" => \A m \in manifests : m.id = request[c].found.id => m = request[c].found

LEMMA CurrentStays ==
  ASSUME Current, NEW c \in Requests, Others(c), incidents \subseteq incidents',
         "two_patches" \notin incidents' => \A d \in Requests : d # c /\ pc[d] = "edit" =>
           \A m \in manifests' : m.id = request[d].found.id => m \in manifests,
         pc'[c] = "edit" => \A m \in manifests' : m.id = request'[c].found.id => m = request'[c].found
  PROVE  Current'
<1> SUFFICES ASSUME "two_patches" \notin incidents', NEW d \in Requests, pc'[d] = "edit", NEW m \in manifests',
                    m.id = request'[d].found.id
             PROVE  m = request'[d].found
  BY DEF Current
<1>1. CASE d = c
  BY <1>1
<1>2. CASE d # c
  BY <1>2 DEF Others, Current
<1> QED
  BY <1>1, <1>2

LEMMA CurrentHolds ==
  ASSUME ObjectTypes, Routed, Names, Apart, Current, Store!Next
  PROVE  Current'
<1>0. \A m, n \in manifests : m.id = n.id => m = n
  BY DEF Names, Numbered
<1>1. ASSUME NEW c \in Requests, Others(c), incidents \subseteq incidents', manifests' \subseteq manifests,
             pc'[c] # "edit"
      PROVE  Current'
  BY <1>1, CurrentStays
<1>2. ASSUME NEW c \in Requests, Resets(c), incidents \subseteq incidents', manifests' \subseteq manifests
      PROVE  Current'
  BY <1>1, <1>2 DEF Resets
<1>3. ASSUME NEW c \in Requests, Resets(c), Posts(c), incidents \subseteq incidents' PROVE Current'
  <2>1. PICK m \in Message : m.id = ids.manifest + 1 /\ manifests' = manifests \cup {m}
    BY <1>3 DEF Posts
  <2>2. ASSUME NEW d \in Requests PROVE m.id # request[d].found.id
    BY <2>1 DEF ObjectTypes, Asked, Message, Names, Numbered
  <2>3. pc'[c] # "edit" /\ Others(c)
    BY <1>3 DEF Resets
  <2> QED
    BY <1>3, <2>1, <2>2, <2>3, CurrentStays
<1>4. ASSUME NEW c \in Requests, pc[c] = "edit", Resets(c), Store!EditEffect(c), request[c].kind \in Store!Fields,
             UNCHANGED incidents
      PROVE  Current'
  BY <1>4, CurrentStays DEF Store!Patches, Routed, Apart, Resets
<1>5. ASSUME NEW c \in Requests, NEW kind \in Store!Kinds, Store!Arrive(c, kind) PROVE Current'
  BY <1>1, <1>5, Arrives
<1>6. ASSUME NEW c \in Requests, Store!Find(c) PROVE Current'
  BY <1>6, Finds, <1>1 DEF Resets
<1>7. ASSUME NEW c \in Requests, Store!Erase(c) PROVE Current'
  BY <1>1, <1>7, Erases
<1>8. ASSUME NEW c \in Requests, Store!Upload(c) PROVE Current'
  BY <1>1, <1>8, Uploads
<1>9. ASSUME NEW c \in Requests, Store!Forget(c) PROVE Current'
  BY <1>9, Forgets, <1>1 DEF Resets
<1>10. ASSUME NEW c \in Requests, Store!Publish(c) PROVE Current'
  BY <1>3, <1>10, Publishes
<1>11. ASSUME NEW c \in Requests, Store!ReadManifest(c) PROVE Current'
  BY <1>11, Rereads, <1>0, CurrentStays DEF Resets
<1>12. ASSUME NEW c \in Requests, Store!Edit(c) PROVE Current'
  BY <1>4, <1>12, Edits
<1>13. ASSUME NEW c \in Requests, Store!Fails(c) PROVE Current'
  BY <1>2, <1>13, Failing
<1>14. ASSUME NEW c \in Requests, Store!AnswerLost(c) PROVE Current'
  BY <1>14, Losing, <1>2, <1>3, <1>4
<1> QED
  BY <1>5, <1>6, <1>7, <1>8, <1>9, <1>10, <1>11, <1>12, <1>13, <1>14, Zenon DEF Store!Next, Store!Step

\* A field of a manifest that stays changes by an edit, to what the patch of that field says.
LEMMA FieldsStand ==
  ASSUME ObjectTypes, Routed, Names, Current, Store!Next
  PROVE  Store!FieldsKept
<1>1. ASSUME NEW c \in Requests, manifests' \subseteq manifests \/ Posts(c) PROVE Store!FieldsKept
  <2> SUFFICES ASSUME NEW m \in manifests, NEW n \in manifests', m.id = n.id PROVE m = n
    BY DEF Store!FieldsKept
  <2>1. n \in manifests
    <3>1. CASE manifests' \subseteq manifests
      BY <3>1
    <3>2. CASE Posts(c)
      <4>1. PICK o \in Message : o.id = ids.manifest + 1 /\ manifests' = manifests \cup {o}
        BY <3>2 DEF Posts
      <4>2. m.id \in Nat /\ m.id <= ids.manifest /\ ids.manifest \in Nat
        BY DEF ObjectTypes, Message, Names, Numbered
      <4>3. o.id # m.id
        BY <4>1, <4>2
      <4> QED
        BY <4>1, <4>3
    <3> QED
      BY <1>1, <3>1, <3>2
  <2> QED
    BY <2>1 DEF Names, Numbered
<1>2. ASSUME NEW c \in Requests, pc[c] = "edit", Store!EditEffect(c), request[c].kind \in Store!Fields
      PROVE  Store!FieldsKept
  <2> SUFFICES ASSUME NEW m \in manifests, NEW n \in manifests', NEW f \in Store!Fields, m.id = n.id,
                      m.meta[f] # n.meta[f], "two_patches" \notin incidents
               PROVE  request[c].kind = f /\ request[c].no = n.meta[f]
    BY DEF Store!FieldsKept
  <2>1. n \notin manifests
    BY DEF Names, Numbered
  <2>2. n = Store!Patched(c) /\ n.id = request[c].found.id
    BY <1>2, <2>1, Changing DEF Changes
  <2>3. m = request[c].found
    BY <1>2, <2>2 DEF Current
  <2>4. n.meta[f] = IF f = request[c].kind THEN request[c].no ELSE request[c].found.meta[f]
    BY <1>2, <2>2, Changing
  <2> QED
    BY <2>3, <2>4
<1>3. ASSUME NEW c \in Requests, NEW kind \in Store!Kinds, Store!Arrive(c, kind) PROVE Store!FieldsKept
  BY <1>1, <1>3, Arrives
<1>4. ASSUME NEW c \in Requests, Store!Find(c) PROVE Store!FieldsKept
  BY <1>1, <1>4, Finds
<1>5. ASSUME NEW c \in Requests, Store!Erase(c) PROVE Store!FieldsKept
  BY <1>1, <1>5, Erases
<1>6. ASSUME NEW c \in Requests, Store!Upload(c) PROVE Store!FieldsKept
  BY <1>1, <1>6, Uploads
<1>7. ASSUME NEW c \in Requests, Store!Forget(c) PROVE Store!FieldsKept
  BY <1>7, Forgets, <1>1
<1>8. ASSUME NEW c \in Requests, Store!Publish(c) PROVE Store!FieldsKept
  BY <1>1, <1>8, Publishes
<1>9. ASSUME NEW c \in Requests, Store!ReadManifest(c) PROVE Store!FieldsKept
  BY <1>1, <1>9, Rereads
<1>10. ASSUME NEW c \in Requests, Store!Edit(c) PROVE Store!FieldsKept
  BY <1>2, <1>10, Edits
<1>11. ASSUME NEW c \in Requests, Store!Fails(c) PROVE Store!FieldsKept
  BY <1>1, <1>11, Failing
<1>12. ASSUME NEW c \in Requests, Store!AnswerLost(c) PROVE Store!FieldsKept
  BY <1>1, <1>2, <1>12, Losing
<1> QED
  BY <1>3, <1>4, <1>5, <1>6, <1>7, <1>8, <1>9, <1>10, <1>11, <1>12, Zenon DEF Store!Next, Store!Step

-----------------------------------------------------------------------------
(* Objects: the invariant.                                                  *)

ObjectsInv == /\ ObjectTypes /\ Routed /\ Names /\ Stored
              /\ Complete /\ Owned /\ Apart /\ Sole /\ Latest /\ Current

LEMMA ObjectsInit ==
  ASSUME Store!Init
  PROVE  ObjectsInv
<1>1. /\ pc = [c \in Requests |-> "idle"] /\ request = [c \in Requests |-> Store!NoRequest]
      /\ calls = 0 /\ incidents = {}
  BY DEF Store!Init
<1>2. \A c \in Requests : pc[c] = "idle" /\ request[c] = Store!NoRequest /\ request[c].found = Store!NoManifest
  BY <1>1, Blank
<1>3. /\ \A c \in Requests : ~Storing(c) /\ ~Begun(c) /\ SoleAt(c)
      /\ \A c \in Requests : ~Store!Puts(c) /\ ~Store!Erases(c) /\ ~Store!Patches(c)
  BY <1>2 DEF Storing, Begun, SoleAt, Store!Puts, Store!Erases, Store!Patches
<1>4. Routed /\ Fresh /\ Filled /\ Apart /\ Current
  BY <1>2, <1>3 DEF Routed, Fresh, Filled, Apart, Current
<1>5. pc \in [Requests -> Labels] /\ request \in [Requests -> Asked] /\ calls \in Nat
  BY <1>1, Blank DEF Labels
<1> DEFINE there == [id |-> 1, file |-> 1, meta |-> Store!Unset]
<1>6. there \in Message /\ there.id = 1 /\ there.file = 1
  BY DEF Message, Store!Unset
<1> HIDE DEF there
<1>7. CASE /\ manifests = {there} /\ parts = {1} \X Store!Parts
           /\ ids = [file |-> 1, manifest |-> 1] /\ expected = 1
  BY <1>7, <1>5, <1>6, <1>2, Blank, <1>4, <1>3 DEF ObjectTypes, Numbered, Complete, Intact, Owned,
     Owner, Stored, Sole, Latest, NewestIs, ObjectsInv, Names
<1>8. CASE manifests = {} /\ parts = {} /\ ids = [file |-> 0, manifest |-> 0] /\ expected = 0
  BY <1>8, <1>5, <1>2, Blank, <1>3, <1>4 DEF ObjectTypes, Numbered, Complete, Owned, Latest, Stored,
     Sole, ObjectsInv, Names
<1> QED
  BY <1>7, <1>8 DEF Store!Init, there

LEMMA ObjectsNext ==
  ASSUME ObjectsInv, Store!Next
  PROVE  ObjectsInv'
  BY RoutedHolds, NamesHold, StoredHolds, CompleteHolds, OwnedHolds, ApartHolds, SoleHolds,
     LatestHolds, CurrentHolds DEF ObjectsInv, Names

LEMMA ObjectsStay ==
  ASSUME ObjectsInv, UNCHANGED Store!vars
  PROVE  ObjectsInv'
<1>1. UNCHANGED <<manifests, parts, pc, request, ids, expected, calls, incidents>>
  BY DEF Store!vars
<1>2. ObjectTypes' /\ Routed' /\ Names' /\ Stored'
  BY <1>1 DEF ObjectsInv, ObjectTypes, Routed, Names, Numbered, Fresh, Storing, Stored, Filled
<1>3. Complete' /\ Owned' /\ Apart'
  BY <1>1 DEF ObjectsInv, Complete, Intact, Begun, Owned, Owner, Storing, Apart, Store!Puts, Store!Erases, Store!Patches
<1>4. Sole' /\ Latest' /\ Current'
  BY <1>1 DEF ObjectsInv, Sole, SoleAt, Storing, Latest, Clear, NewestIs, Replacing, Current
<1> QED
  BY <1>2, <1>3, <1>4 DEF ObjectsInv

LEMMA SameCardinality ==
  \A S : Store!Cardinality(S) = Cardinality(S)
  BY DEF Store!Cardinality, Cardinality

LEMMA ObjectsHold ==
  ASSUME ObjectsInv
  PROVE  /\ Store!ManifestsAreWhole /\ Store!NoOrphans
         /\ Store!OneManifest /\ Store!ReadersFindTheLast
<1>1. ObjectTypes /\ Numbered /\ Complete /\ Owned /\ Sole /\ Latest
  BY DEF ObjectsInv, Names
<1>2. Store!ManifestsAreWhole
  <2> SUFFICES ASSUME "cut_delete" \notin incidents, NEW m \in manifests
               PROVE  \/ {m.file} \X Store!Parts \subseteq parts
                      \/ \E c \in Requests : pc[c] \in {"erase", "forget"} /\ request[c].found.file = m.file
    BY DEF Store!ManifestsAreWhole, Store!Spoiled
  <2>1. CASE Intact(m.file)
    BY <2>1 DEF Intact
  <2>2. CASE \E c \in Requests : Begun(c) /\ request[c].found.file = m.file
    BY <2>2 DEF Begun
  <2> QED
    BY <1>1, <2>1, <2>2 DEF Complete
<1>3. Store!NoOrphans
  <2> SUFFICES ASSUME "cut_upload" \notin incidents, NEW p \in parts
               PROVE  \/ \E m \in manifests : m.file = p[1]
                      \/ \E c \in Requests : pc[c] \in {"upload", "publish"} /\ request[c].file = p[1]
    BY DEF Store!NoOrphans, Store!Spoiled
  <2> QED
    BY <1>1 DEF Owned, Owner, Storing
<1>4. Store!OneManifest
  <2> SUFFICES ASSUME "two_puts" \notin incidents PROVE Cardinality(manifests) <= 1
    BY SameCardinality, Zenon DEF Store!OneManifest, Store!Spoiled
  <2>1. CASE manifests = {}
    BY <2>1, FS_EmptySet
  <2>2. ASSUME NEW m \in manifests PROVE Cardinality(manifests) <= 1
    BY <1>1, FS_Singleton DEF Sole
  <2> QED
    BY <2>1, <2>2
<1>5. Store!ReadersFindTheLast
  <2> SUFFICES ASSUME \A c \in Requests : pc[c] = "idle", Clear, expected = 0 => "two_puts" \notin incidents
               PROVE  Store!Found.file = expected
    BY DEF Store!ReadersFindTheLast, Store!Spoiled, Clear
  <2>1. CASE expected = 0
    BY <1>1, <2>1, Finding, Blank DEF Latest
  <2>2. CASE expected # 0
    <3>1. \A c \in Requests : ~Replacing(c)
      BY DEF Replacing, Storing
    <3>2. PICK m \in manifests : m.file = expected /\ \A n \in manifests : n.id <= m.id
      BY <1>1, <2>2, <3>1 DEF Latest, NewestIs
    <3>3. Store!Found \in manifests /\ \A n \in manifests : n.id <= Store!Found.id
      BY <1>1, <3>2, Finding
    <3>4. Store!Found.id = m.id
      BY <1>1, <3>2, <3>3 DEF ObjectTypes, Message
    <3> QED
      BY <1>1, <3>2, <3>3, <3>4 DEF Numbered
  <2> QED
    BY <2>1, <2>2
<1> QED
  BY <1>2, <1>3, <1>4, <1>5

-----------------------------------------------------------------------------
(* Backup: what the variables hold.                                         *)

Kept == [members : SUBSET Members, channel : Saved!Channels]
Bounded == UNION {SUBSET (1..n) : n \in Nat}
RowSets == UNION {[S -> Accounts] : S \in Bounded}
Pairs == SUBSET (Accounts \X Nat)
Folder == [manifest : {"ready", "failed"}, lists : SUBSET Members, record : Kept,
           rows : RowSets, sqlite : Pairs, torn : BOOLEAN]
Entries == [id : Nat, status : {"ready", "failed"}]
MemberWork == [op : {"enrol", "expel"}, who : Members, base : Kept, id : Nat, at : {"get", "set", "list"}]
AccountWork == [op : {"register", "unregister"}, who : Accounts, base : Kept, id : Nat, at : {"message", "index"}]
Work == MemberWork \cup AccountWork
Taking == [at : {"parts", "indexRead", "indexWrite", "pruneRead", "prune"}, id : Nat,
           redis : {"scan", "lists", "done"}, project : {"get", "messages", "done"}, copied : BOOLEAN,
           keys : SUBSET Members, lists : SUBSET Members, record : Kept, source : Kept,
           rows : RowSets, sqlite : Pairs, torn : BOOLEAN, failed : BOOLEAN, seen : SUBSET Entries]
Putting == [at : {"redis", "clear", "sqlite", "channel", "send", "point", "manifest", "indexRead",
                  "indexWrite"},
            id : Nat, dir : Folder, left : SUBSET (Nat \ {0}), channel : Saved!Channels, base : Kept,
            seen : SUBSET Entries]
StoreTypes ==
  /\ record \in Kept /\ listed \in SUBSET Members
  /\ rows \in [Saved!Channels -> RowSets] /\ sent \in [Saved!Channels -> Nat]
  /\ sqlite \in Pairs
JobTypes == job \in [Writers -> {Saved!Idle} \cup Work]
FileTypes ==
  /\ DOMAIN dirs \subseteq Nat /\ \A b \in DOMAIN dirs : dirs[b] \in Folder
  /\ catalogue \in SUBSET Entries
GhostTypes == made \in Nat /\ done \in SUBSET Nat /\ channels \in Saved!Channels
ProjectTypes ==
  /\ StoreTypes /\ JobTypes /\ FileTypes /\ GhostTypes
  /\ backup \in {Saved!Off} \cup Taking
  /\ restore \in {Saved!Off} \cup Putting
  /\ restore.at = "send" => restore.left \subseteq DOMAIN restore.dir.rows

-----------------------------------------------------------------------------
(* Backup: the catalogue.                                                   *)

Filed(e) == e.id \in DOMAIN dirs /\ e.status = dirs[e.id].manifest
Ready(b) == [id |-> b, status |-> "ready"]
\* The entries and the directories, while a backup is being made.
Listed ==
  /\ backup # Saved!Off => backup.id = made
  /\ \A b \in DOMAIN dirs : b <= made
  /\ \A e \in catalogue : e.id <= made
  /\ \A e, f \in catalogue : e.id = f.id => e = f
  /\ backup.at # "prune" => \A e \in catalogue : Filed(e)
  /\ backup.at = "prune" => \A e \in Saved!Retained(catalogue) : Filed(e)
  /\ backup.at = "parts" => made \notin DOMAIN dirs
  /\ backup.at \in {"indexRead", "indexWrite"} =>
       /\ \A e \in catalogue : e.id # made
       /\ made \in DOMAIN dirs /\ dirs[made].manifest = IF backup.failed THEN "failed" ELSE "ready"
  /\ \A b \in DOMAIN dirs :
       (\E e \in catalogue : e.id = b) \/ (b = made /\ backup.at \in {"indexRead", "indexWrite"})
  /\ backup.at \in {"indexWrite", "prune"} => backup.seen = catalogue
  /\ backup.at \in {"pruneRead", "prune"} => Ready(made) \in catalogue
  /\ restore.at = "indexWrite" => restore.seen = catalogue
\* The newest backup that was answered, and how many there are.
Counted ==
  /\ IsFiniteSet(catalogue)
  /\ \A b \in done : b <= made
  /\ done # {} /\ backup.at # "prune" => \E b \in done : Ready(b) \in catalogue /\ \A d \in done : d <= b
  /\ backup.at \notin {"pruneRead", "prune"} =>
       Cardinality({e \in catalogue : e.status = "ready"}) <= Retention
Together == backup # Saved!Off /\ restore # Saved!Off
Catalogued == incidents \cap {"overlap", "cut"} = {} => ~Together /\ Listed /\ Counted

-----------------------------------------------------------------------------
(* Backup: members and accounts.                                            *)

Calm == incidents \cap {"torn", "busy", "cut"} = {}
Working(q) == job[q] # Saved!Idle
Steady == backup.at = "parts" /\ ~backup.torn
Whole(dir) == dir.manifest = "ready" /\ ~dir.torn
Redone == restore.at \in {"redis", "clear", "sqlite", "channel", "send", "point"}
\* Each request is about someone else, and knows the project's channel; while a backup is read in
\* which nothing is written, or one is put back, there are none.
Settled ==
  /\ \A q, r \in Writers : Working(q) /\ Working(r) /\ job[q].who = job[r].who => q = r
  /\ \A q \in Writers : Working(q) => job[q].base.channel = record.channel
  /\ restore # Saved!Off \/ Steady => \A q \in Writers : ~Working(q)
  /\ Steady => restore = Saved!Off
  /\ Steady /\ backup.redis = "done" => backup.record = record
  /\ \A b \in DOMAIN dirs : Whole(dirs[b]) => dirs[b].record.channel <= channels
  /\ Redone => Whole(restore.dir) /\ restore.dir.record.channel <= channels
  /\ restore.at \in {"send", "point"} => restore.channel = channels
  /\ restore.at = "point" => restore.base = record
  /\ record.channel <= channels
Poised == Calm => Settled

\* A list has its project, but for a request that has still to write it.
Listing(u) == \E q \in Writers : Working(q) /\ job[q].at = "list" /\ job[q].who = u
Membered ==
  /\ \A u \in Members : ~Listing(u) => (u \in listed <=> u \in record.members)
  /\ \A q \in Writers : Working(q) /\ job[q].at = "list" =>
       (job[q].op = "enrol" <=> job[q].who \in record.members)
  /\ Steady /\ backup.redis = "scan" => backup.keys = {} /\ backup.lists = {}
  /\ Steady /\ backup.redis = "lists" => backup.keys \cup backup.lists = listed
  /\ Steady /\ backup.redis = "done" => backup.lists = record.members
  /\ \A b \in DOMAIN dirs : Whole(dirs[b]) => dirs[b].lists = dirs[b].record.members
  /\ restore.at = "redis" => restore.dir.lists = restore.dir.record.members
MembersKept == Calm /\ "newer" \notin incidents => Membered

\* The index has what the channel has, but for a request that has still to write it.
Has(f, a, i) == i \in DOMAIN f /\ f[i] = a
Matches(f, index) == \A a \in Accounts, i \in Nat : <<a, i>> \in index <=> Has(f, a, i)
Indexing(a) == \E q \in Writers : Working(q) /\ job[q].at = "index" /\ job[q].who = a
There == rows[record.channel]
Room == rows[restore.channel]
Answered ==
  restore.at \in {"off", "redis", "manifest", "indexRead", "indexWrite"} =>
    \A a \in Accounts : ~Indexing(a) => \A i \in Nat : <<a, i>> \in sqlite <=> Has(There, a, i)
HalfDone ==
  \A q \in Writers : Working(q) /\ job[q].at = "index" =>
    IF job[q].op = "register"
    THEN /\ Has(There, job[q].who, job[q].id)
         /\ \A i \in Nat : <<job[q].who, i>> \in sqlite <=> Has(There, job[q].who, i) /\ i # job[q].id
    ELSE \A i \in Nat : ~Has(There, job[q].who, i)
Copied ==
  /\ Steady /\ backup.copied => backup.sqlite = sqlite
  /\ Steady /\ backup.project = "messages" => backup.source = record
  /\ Steady /\ backup.project = "done" => backup.rows = There
Foldered == \A b \in DOMAIN dirs : Whole(dirs[b]) => Matches(dirs[b].rows, dirs[b].sqlite)
Lettered == \A c \in Saved!Channels : /\ \A i \in DOMAIN rows[c] : i <= sent[c]
                                      /\ c > channels => sent[c] = 0
Refilled ==
  /\ Redone => Matches(restore.dir.rows, restore.dir.sqlite)
  /\ restore.at \in {"channel", "send", "point"} => sqlite = restore.dir.sqlite
  /\ restore.at \in {"send", "point"} =>
       /\ \A i \in DOMAIN Room : i \in DOMAIN restore.dir.rows /\ Room[i] = restore.dir.rows[i]
       /\ \A i \in DOMAIN restore.dir.rows : i \in DOMAIN Room \/ (restore.at = "send" /\ i \in restore.left)
  /\ restore.at = "send" =>
       /\ \A i \in restore.left : i \in DOMAIN restore.dir.rows /\ sent[restore.channel] < i
       /\ \A i \in DOMAIN restore.dir.rows : sent[restore.channel] < i => i \in restore.left
Accounted == Answered /\ HalfDone /\ Copied /\ Foldered /\ Lettered /\ Refilled
AccountsKept == Calm /\ incidents \cap {"renumbered", "emptied"} = {} => Accounted

\* A function with one more value, or with fewer.
LEMMA Adding ==
  ASSUME NEW f, NEW x, NEW y
  PROVE  LET g == Saved!With(f, x, y)
         IN /\ DOMAIN g = DOMAIN f \cup {x} /\ g[x] = y
            /\ \A z \in DOMAIN f : z # x => g[z] = f[z]
            /\ f \in RowSets /\ x \in Nat \ {0} /\ y \in Accounts => g \in RowSets
<1> DEFINE g == Saved!With(f, x, y)
<1>1. DOMAIN g = DOMAIN f \cup {x} /\ g[x] = y /\ \A z \in DOMAIN f : z # x => g[z] = f[z]
  BY DEF Saved!With
<1>2. ASSUME f \in RowSets, x \in Nat \ {0}, y \in Accounts PROVE g \in RowSets
  <2>1. PICK S \in Bounded : f \in [S -> Accounts]
    BY <1>2 DEF RowSets
  <2>2. PICK n \in Nat : S \in SUBSET (1..n)
    BY DEF Bounded
  <2>3. S \cup {x} \in SUBSET (1..(n + x)) /\ n + x \in Nat
    BY <1>2, <2>2
  <2>4. S \cup {x} \in Bounded
    BY <2>3 DEF Bounded
  <2>5. g \in [S \cup {x} -> Accounts]
    BY <1>2, <2>1 DEF Saved!With
  <2> HIDE DEF g
  <2> QED
    BY <2>4, <2>5 DEF RowSets
<1> QED
  BY <1>1, <1>2

LEMMA Dropping ==
  ASSUME NEW f, NEW S
  PROVE  LET g == Saved!Without(f, S)
         IN /\ DOMAIN g = DOMAIN f \ S /\ \A z \in DOMAIN g : g[z] = f[z]
            /\ f \in RowSets => g \in RowSets
<1> DEFINE g == Saved!Without(f, S)
<1>1. DOMAIN g = DOMAIN f \ S /\ \A z \in DOMAIN g : g[z] = f[z]
  BY DEF Saved!Without
<1>2. ASSUME f \in RowSets PROVE g \in RowSets
  <2>1. PICK D \in Bounded : f \in [D -> Accounts]
    BY <1>2 DEF RowSets
  <2>2. D \ S \in Bounded /\ g \in [D \ S -> Accounts]
    BY <2>1 DEF Saved!Without, Bounded
  <2> HIDE DEF g
  <2> QED
    BY <2>2 DEF RowSets
<1> QED
  BY <1>1, <1>2

LEMMA RowSetsHave ==
  ASSUME NEW f \in RowSets
  PROVE  /\ DOMAIN f \subseteq Nat \ {0} /\ \A i \in DOMAIN f : f[i] \in Accounts
         /\ DOMAIN f \in Bounded
<1>1. PICK S \in Bounded : f \in [S -> Accounts]
  BY DEF RowSets
<1>2. PICK n \in Nat : S \in SUBSET (1..n)
  BY DEF Bounded
<1> QED
  BY <1>1, <1>2

LEMMA Nothing ==
  /\ Saved!Off.at = "off" /\ Saved!Idle.at = "off"
  /\ Saved!NoRecord \in Kept /\ Saved!NoRecord.channel = 0 /\ 0 \in Saved!Channels
  /\ <<>> \in RowSets /\ DOMAIN <<>> = {}
  /\ Saved!NoContents \in Folder /\ Saved!NoContents.manifest = "failed"
<1>1. Saved!Off.at = "off" /\ Saved!Idle.at = "off"
  BY DEF Saved!Off, Saved!Idle
<1>2. Saved!NoRecord \in Kept /\ Saved!NoRecord.channel = 0 /\ 0 \in Saved!Channels
  BY StorageAssumption DEF Saved!NoRecord, Kept, Saved!Channels
<1>3. DOMAIN <<>> = {}
  OBVIOUS
<1>4. <<>> \in RowSets
  <2>1. <<>> \in [{} -> Accounts]
    OBVIOUS
  <2>2. {} \in SUBSET (1..0) /\ 0 \in Nat
    OBVIOUS
  <2> QED
    BY <2>1, <2>2 DEF RowSets, Bounded
<1>5. Saved!NoContents \in Folder /\ Saved!NoContents.manifest = "failed"
  BY <1>2, <1>4 DEF Saved!NoContents, Folder, Pairs
<1> QED
  BY <1>1, <1>2, <1>3, <1>4, <1>5

LEMMA Marking ==
  ASSUME NEW kinds, Saved!Mark(kinds)
  PROVE  incidents \subseteq incidents' /\ kinds \subseteq incidents'
  BY DEF Saved!Mark

LEMMA Made ==
  ASSUME NEW id \in Nat, NEW torn \in BOOLEAN
  PROVE  LET b == Saved!Making(id, torn)
         IN /\ b \in Taking /\ b.at = "parts" /\ b.id = id /\ b.redis = "scan" /\ b.project = "get"
            /\ b.copied = FALSE /\ b.keys = {} /\ b.lists = {} /\ b.torn = torn /\ b.failed = FALSE
  BY Nothing DEF Saved!Making, Taking, Pairs

LEMMA Written ==
  ASSUME backup \in Taking, NEW failed \in BOOLEAN
  PROVE  LET b == Saved!Written(failed)
         IN b \in Taking /\ b.at = "indexRead" /\ b.id = backup.id /\ b.failed = failed
<1>1. backup.id \in Nat /\ FALSE \in BOOLEAN
  BY DEF Taking
<1> DEFINE b == Saved!Making(backup.id, FALSE)
<1>2. b \in Taking /\ b.id = backup.id
  BY <1>1, Made
<1>3. Saved!Written(failed) = [b EXCEPT !.at = "indexRead", !.failed = failed]
  BY DEF Saved!Written
<1> HIDE DEF b
<1> QED
  BY <1>2, <1>3 DEF Taking

LEMMA PutBack ==
  ASSUME NEW at \in {"redis", "manifest"}, NEW id \in Nat, NEW dir \in Folder
  PROVE  LET p == Saved!Restored(at, id, dir)
         IN p \in Putting /\ p.at = at /\ p.id = id /\ p.dir = dir
  BY Nothing DEF Saved!Restored, Putting, Entries

LEMMA Distinct ==
  /\ \A b \in Taking : b # Saved!Off /\ b.at # "off"
  /\ \A p \in Putting : p # Saved!Off /\ p.at # "off"
  /\ \A w \in Work : w # Saved!Idle /\ w.at # "off"
  BY Nothing DEF Taking, Putting, Work, MemberWork, AccountWork

-----------------------------------------------------------------------------
(* Backup: what a step changes.                                             *)

Beside(r) == \A q \in Writers : q # r => job'[q] = job[q]
\* The catalogue and who writes it are as they were.
SameBooks ==
  /\ UNCHANGED <<dirs, catalogue, made, done>>
  /\ backup'.at = backup.at /\ backup'.id = backup.id /\ backup'.failed = backup.failed
  /\ backup'.seen = backup.seen
  /\ backup' # Saved!Off => backup # Saved!Off
\* A request writes.
Moves(r) ==
  /\ ProjectTypes' /\ Beside(r) /\ SameBooks /\ ~Steady'
  /\ UNCHANGED <<restore, dirs, channels>> /\ incidents \subseteq incidents'
  /\ restore # Saved!Off => "busy" \in incidents'

LEMMA Tearing ==
  ASSUME ProjectTypes, backup' = IF backup.at = "parts" THEN [backup EXCEPT !.torn = TRUE] ELSE backup
  PROVE  /\ backup' \in {Saved!Off} \cup Taking /\ ~Steady'
         /\ backup'.at = backup.at /\ backup'.id = backup.id /\ backup'.failed = backup.failed
         /\ backup'.seen = backup.seen
         /\ backup' # Saved!Off => backup # Saved!Off
<1>1. CASE backup.at = "parts"
  <2>1. backup \in Taking
    BY <1>1, Nothing DEF ProjectTypes
  <2> DEFINE b == [backup EXCEPT !.torn = TRUE]
  <2>2. b \in Taking
    BY <2>1 DEF Taking
  <2>3. b.torn = TRUE /\ b.at = backup.at /\ b.id = backup.id /\ b.failed = backup.failed /\ b.seen = backup.seen
    BY <2>1 DEF Taking
  <2>4. backup' = b
    BY <1>1
  <2> HIDE DEF b
  <2> QED
    BY <2>1, <2>2, <2>3, <2>4, Distinct DEF Steady
<1>2. CASE backup.at # "parts"
  BY <1>2 DEF ProjectTypes, Steady
<1> QED
  BY <1>1, <1>2

LEMMA Disturbing ==
  ASSUME ProjectTypes, Saved!Disturb
  PROVE  /\ backup' \in {Saved!Off} \cup Taking /\ ~Steady'
         /\ backup'.at = backup.at /\ backup'.id = backup.id /\ backup'.failed = backup.failed
         /\ backup'.seen = backup.seen
         /\ backup' # Saved!Off => backup # Saved!Off
         /\ incidents \subseteq incidents' /\ (restore # Saved!Off => "busy" \in incidents')
  BY Tearing DEF Saved!Disturb, Saved!Mark, Saved!When

LEMMA Starts ==
  ASSUME ProjectTypes, NEW r \in Writers, Saved!Begin(r)
  PROVE  /\ Moves(r) /\ UNCHANGED <<record, listed, rows, sqlite, sent>>
         /\ ~Working(r) /\ job'[r] \in Work /\ job'[r].base = record /\ job'[r].at \in {"get", "message"}
         /\ \A q \in Writers : Working(q) => job[q].who # job'[r].who
<1> DEFINE About(op) == IF op \in {"enrol", "expel"} THEN Members ELSE Accounts
<1>0. PICK op \in {"enrol", "expel", "register", "unregister"} : \E who \in About(op) :
         /\ job[r] = Saved!Idle
         /\ \A q \in Writers : job[q] # Saved!Idle => job[q].who # who
         /\ job' = [job EXCEPT ![r] =
              [op |-> op, who |-> who, base |-> record, id |-> 0,
               at |-> IF op \in {"enrol", "expel"} THEN "get" ELSE "message"]]
         /\ Saved!Disturb
         /\ UNCHANGED <<record, listed, rows, sent, sqlite, restore, dirs, catalogue, made, done, channels>>
  BY DEF Saved!Begin, Saved!store, Saved!files
<1>1. PICK who \in About(op) :
         /\ job[r] = Saved!Idle
         /\ \A q \in Writers : job[q] # Saved!Idle => job[q].who # who
         /\ job' = [job EXCEPT ![r] =
              [op |-> op, who |-> who, base |-> record, id |-> 0,
               at |-> IF op \in {"enrol", "expel"} THEN "get" ELSE "message"]]
         /\ Saved!Disturb
         /\ UNCHANGED <<record, listed, rows, sent, sqlite, restore, dirs, catalogue, made, done, channels>>
  BY <1>0
<1> DEFINE w == [op |-> op, who |-> who, base |-> record, id |-> 0,
                 at |-> IF op \in {"enrol", "expel"} THEN "get" ELSE "message"]
<1>2. w \in Work /\ w.op = op /\ w.who = who /\ w.base = record /\ w.at \in {"get", "message"}
  BY DEF Work, MemberWork, AccountWork, ProjectTypes, StoreTypes
<1>3. job' = [job EXCEPT ![r] = w]
  BY <1>1
<1> HIDE DEF w
<1>4. job'[r] = w /\ Beside(r) /\ JobTypes'
  BY <1>2, <1>3 DEF ProjectTypes, JobTypes, Beside
<1>5. Moves(r)
  BY <1>1, <1>4, Disturbing DEF Moves, SameBooks, ProjectTypes, StoreTypes, FileTypes, GhostTypes
<1> QED
  BY <1>1, <1>2, <1>4, <1>5 DEF Working

LEMMA Gets ==
  ASSUME ProjectTypes, NEW r \in Writers, Saved!Get(r)
  PROVE  /\ Moves(r) /\ UNCHANGED <<record, listed, rows, sqlite, sent>>
         /\ job[r] \in MemberWork /\ job'[r] \in MemberWork
         /\ job[r].at = "get" /\ job'[r].at = "set" /\ job'[r].base = record
         /\ job'[r].op = job[r].op /\ job'[r].who = job[r].who
<1>1. /\ job[r].at = "get" /\ job' = [job EXCEPT ![r].at = "set", ![r].base = record] /\ Saved!Disturb
      /\ UNCHANGED <<record, listed, rows, sent, sqlite, restore, dirs, catalogue, made, done, channels>>
  BY DEF Saved!Get, Saved!store, Saved!files, Saved!ghosts
<1>2. job[r] \in MemberWork
  BY <1>1, Nothing DEF ProjectTypes, JobTypes, Work, MemberWork, AccountWork
<1> DEFINE w == [job[r] EXCEPT !.at = "set", !.base = record]
<1>3. w \in MemberWork /\ w.op = job[r].op /\ w.who = job[r].who /\ w.base = record /\ w.at = "set"
  BY <1>2 DEF MemberWork, ProjectTypes, StoreTypes
<1>4. job' = [job EXCEPT ![r] = w]
  BY <1>1, <1>2 DEF MemberWork
<1> HIDE DEF w
<1>5. job'[r] = w /\ Beside(r) /\ JobTypes'
  BY <1>3, <1>4 DEF ProjectTypes, JobTypes, Beside, Work
<1>6. Moves(r)
  BY <1>1, <1>5, Disturbing DEF Moves, SameBooks, ProjectTypes, StoreTypes, FileTypes, GhostTypes
<1> QED
  BY <1>1, <1>2, <1>3, <1>5, <1>6

LEMMA Sets ==
  ASSUME ProjectTypes, NEW r \in Writers, Saved!Set(r)
  PROVE  /\ Moves(r) /\ UNCHANGED <<listed, rows, sqlite, sent>>
         /\ job[r] \in MemberWork /\ job'[r] \in MemberWork /\ job[r].at = "set" /\ job'[r].at = "list"
         /\ job'[r].base = job[r].base /\ job'[r].op = job[r].op /\ job'[r].who = job[r].who
         /\ job[r].base # record => "busy" \in incidents'
         /\ record'.channel = job[r].base.channel
         /\ record'.members = IF job[r].op = "enrol" THEN job[r].base.members \cup {job[r].who}
                              ELSE job[r].base.members \ {job[r].who}
<1>1. /\ job[r].at = "set" /\ job' = [job EXCEPT ![r].at = "list"]
      /\ backup' = IF backup.at = "parts" THEN [backup EXCEPT !.torn = TRUE] ELSE backup
      /\ Saved!Mark(Saved!When(restore # Saved!Off \/ job[r].base # record, "busy"))
      /\ record' = [job[r].base EXCEPT !.members =
                      IF job[r].op = "enrol" THEN @ \cup {job[r].who} ELSE @ \ {job[r].who}]
      /\ UNCHANGED <<listed, rows, sent, sqlite, restore, dirs, catalogue, made, done, channels>>
  BY DEF Saved!Set, Saved!store, Saved!files, Saved!ghosts
<1>2. job[r] \in MemberWork
  BY <1>1, Nothing DEF ProjectTypes, JobTypes, Work, MemberWork, AccountWork
<1> DEFINE w == [job[r] EXCEPT !.at = "list"]
<1>3. w \in MemberWork /\ w.op = job[r].op /\ w.who = job[r].who /\ w.base = job[r].base /\ w.at = "list"
  BY <1>2 DEF MemberWork
<1>4. job' = [job EXCEPT ![r] = w]
  BY <1>1, <1>2 DEF MemberWork
<1> HIDE DEF w
<1>5. job'[r] = w /\ Beside(r) /\ JobTypes'
  BY <1>3, <1>4 DEF ProjectTypes, JobTypes, Beside, Work
<1>6. incidents \subseteq incidents' /\ (restore # Saved!Off \/ job[r].base # record => "busy" \in incidents')
  BY <1>1 DEF Saved!Mark, Saved!When
<1>7. job[r].base \in Kept /\ job[r].who \in Members
  BY <1>2 DEF MemberWork
<1>8. /\ record'.channel = job[r].base.channel
      /\ record'.members = IF job[r].op = "enrol" THEN job[r].base.members \cup {job[r].who}
                           ELSE job[r].base.members \ {job[r].who}
      /\ record' \in Kept
  BY <1>1, <1>7 DEF Kept
<1>9. Moves(r)
  BY <1>1, <1>5, <1>6, <1>8, Tearing DEF Moves, SameBooks, ProjectTypes, StoreTypes, FileTypes, GhostTypes
<1> QED
  BY <1>1, <1>2, <1>3, <1>5, <1>6, <1>8, <1>9

LEMMA Finishing ==
  ASSUME JobTypes, NEW r \in Writers, Saved!Finish(r)
  PROVE  JobTypes' /\ Beside(r) /\ ~Working(r)'
  BY DEF JobTypes, Saved!Finish, Beside, Working

LEMMA Lists ==
  ASSUME ProjectTypes, NEW r \in Writers, Saved!List(r)
  PROVE  /\ Moves(r) /\ UNCHANGED <<record, rows, sqlite, sent>>
         /\ job[r] \in MemberWork /\ job[r].at = "list" /\ ~Working(r)'
         /\ listed' = IF job[r].op = "enrol" THEN listed \cup {job[r].who} ELSE listed \ {job[r].who}
  BY Nothing, Finishing, Disturbing DEF Saved!List, Saved!store, Saved!files, Saved!ghosts,
     ProjectTypes, JobTypes, Work, MemberWork, AccountWork, StoreTypes, Moves, SameBooks, FileTypes,
     GhostTypes

LEMMA Messages ==
  ASSUME ProjectTypes, NEW r \in Writers, Saved!Message(r)
  PROVE  LET c == job[r].base.channel
             who == job[r].who
         IN /\ Moves(r) /\ UNCHANGED <<record, listed, sqlite>>
            /\ job[r] \in AccountWork /\ job'[r] \in AccountWork /\ job[r].at = "message" /\ job'[r].at = "index"
            /\ job'[r].base = job[r].base /\ job'[r].op = job[r].op /\ job'[r].who = who
            /\ \A d \in Saved!Channels : d # c => rows'[d] = rows[d] /\ sent'[d] = sent[d]
            /\ job[r].op = "register" =>
                 /\ rows'[c] = Saved!With(rows[c], sent[c] + 1, who) /\ sent'[c] = sent[c] + 1
                 /\ job'[r].id = sent[c] + 1
            /\ job[r].op # "register" =>
                 rows'[c] = Saved!Without(rows[c], {e[2] : e \in {e \in sqlite : e[1] = who}}) /\ UNCHANGED sent
<1> DEFINE c == job[r].base.channel
           gone == {e[2] : e \in {e \in sqlite : e[1] = job[r].who}}
<1>1. /\ job[r].at = "message" /\ Saved!Disturb
      /\ IF job[r].op = "register"
         THEN /\ rows' = [rows EXCEPT ![c] = Saved!With(@, sent[c] + 1, job[r].who)]
              /\ sent' = [sent EXCEPT ![c] = @ + 1]
              /\ job' = [job EXCEPT ![r].at = "index", ![r].id = sent[c] + 1]
         ELSE /\ rows' = [rows EXCEPT ![c] = Saved!Without(@, gone)]
              /\ job' = [job EXCEPT ![r].at = "index"]
              /\ UNCHANGED sent
      /\ UNCHANGED <<record, listed, sqlite, restore, dirs, catalogue, made, done, channels>>
  BY DEF Saved!Message, Saved!store, Saved!files, Saved!ghosts
<1>2. job[r] \in AccountWork
  BY <1>1, Nothing DEF ProjectTypes, JobTypes, Work, MemberWork, AccountWork
<1>3. job[r].base \in Kept /\ job[r].who \in Accounts /\ c \in Saved!Channels
  BY <1>2 DEF AccountWork, Kept
<1>4. sent[c] \in Nat /\ sent[c] + 1 \in Nat \ {0} /\ rows[c] \in RowSets
  BY <1>3 DEF ProjectTypes, StoreTypes
<1> HIDE DEF c, gone
<1>5. CASE job[r].op = "register"
  <2> DEFINE w == [job[r] EXCEPT !.at = "index", !.id = sent[c] + 1]
             new == Saved!With(rows[c], sent[c] + 1, job[r].who)
  <2>1. /\ w \in AccountWork /\ w.op = job[r].op /\ w.who = job[r].who /\ w.base = job[r].base /\ w.at = "index"
        /\ w.id = sent[c] + 1
    BY <1>2, <1>4 DEF AccountWork
  <2>2. job' = [job EXCEPT ![r] = w]
    BY <1>1, <1>2, <1>5 DEF AccountWork
  <2>3. new \in RowSets
    BY <1>3, <1>4, Adding
  <2>4. rows' = [rows EXCEPT ![c] = new] /\ sent' = [sent EXCEPT ![c] = sent[c] + 1]
    BY <1>1, <1>5
  <2> HIDE DEF w, new
  <2>5. job'[r] = w /\ Beside(r) /\ JobTypes'
    BY <2>1, <2>2 DEF ProjectTypes, JobTypes, Beside, Work
  <2>6. /\ rows' \in [Saved!Channels -> RowSets] /\ sent' \in [Saved!Channels -> Nat]
        /\ rows'[c] = new /\ sent'[c] = sent[c] + 1
        /\ \A d \in Saved!Channels : d # c => rows'[d] = rows[d] /\ sent'[d] = sent[d]
    BY <1>3, <1>4, <2>3, <2>4 DEF ProjectTypes, StoreTypes
  <2>7. Moves(r)
    BY <1>1, <2>5, <2>6, Disturbing DEF Moves, SameBooks, ProjectTypes, StoreTypes, FileTypes, GhostTypes
  <2> QED
    BY <1>1, <1>2, <1>5, <2>1, <2>5, <2>6, <2>7 DEF c, new
<1>6. CASE job[r].op # "register"
  <2> DEFINE w == [job[r] EXCEPT !.at = "index"]
             new == Saved!Without(rows[c], gone)
  <2>1. w \in AccountWork /\ w.op = job[r].op /\ w.who = job[r].who /\ w.base = job[r].base /\ w.at = "index"
    BY <1>2, <1>4 DEF AccountWork
  <2>2. job' = [job EXCEPT ![r] = w]
    BY <1>1, <1>2, <1>6 DEF AccountWork
  <2>3. new \in RowSets
    BY <1>3, <1>4, Dropping
  <2>4. rows' = [rows EXCEPT ![c] = new] /\ UNCHANGED sent
    BY <1>1, <1>6
  <2> HIDE DEF w, new
  <2>5. job'[r] = w /\ Beside(r) /\ JobTypes'
    BY <2>1, <2>2 DEF ProjectTypes, JobTypes, Beside, Work
  <2>6. /\ rows' \in [Saved!Channels -> RowSets] /\ rows'[c] = new
        /\ \A d \in Saved!Channels : d # c => rows'[d] = rows[d]
    BY <1>3, <2>3, <2>4 DEF ProjectTypes, StoreTypes
  <2>7. Moves(r)
    BY <1>1, <2>4, <2>5, <2>6, Disturbing DEF Moves, SameBooks, ProjectTypes, StoreTypes, FileTypes, GhostTypes
  <2> QED
    BY <1>1, <1>2, <1>6, <2>1, <2>4, <2>5, <2>6, <2>7 DEF c, new, gone
<1> QED
  BY <1>5, <1>6

LEMMA Indexes ==
  ASSUME ProjectTypes, NEW r \in Writers, Saved!IndexRow(r)
  PROVE  /\ Moves(r) /\ UNCHANGED <<record, listed, rows, sent>>
         /\ job[r] \in AccountWork /\ job[r].at = "index" /\ ~Working(r)'
         /\ sqlite' = IF job[r].op = "register" THEN sqlite \cup {<<job[r].who, job[r].id>>}
                      ELSE {e \in sqlite : e[1] # job[r].who}
  BY Nothing, Finishing, Disturbing DEF Saved!IndexRow, Saved!store, Saved!files, Saved!ghosts,
     ProjectTypes, JobTypes, Work, MemberWork, AccountWork, StoreTypes, Pairs, Moves, SameBooks,
     FileTypes, GhostTypes

\* The project, and the requests, are as they were.
Rests == UNCHANGED <<record, listed, rows, sent, sqlite, job, channels>>
Reading ==
  /\ ProjectTypes' /\ Rests /\ SameBooks /\ UNCHANGED <<restore, incidents>>
  /\ backup \in Taking /\ backup' \in Taking /\ backup.at = "parts" /\ backup'.torn = backup.torn

LEMMA ReadingOn ==
  ASSUME ProjectTypes, Saved!Part, NEW b \in Taking, backup' = b,
         b.at = backup.at, b.id = backup.id, b.failed = backup.failed, b.seen = backup.seen, b.torn = backup.torn,
         UNCHANGED <<record, listed, rows, sent, sqlite, job, restore, dirs, catalogue, made, done, channels, incidents>>
  PROVE  Reading
  BY Nothing, Distinct DEF Saved!Part, ProjectTypes, SameBooks, StoreTypes, JobTypes, FileTypes,
     GhostTypes, Reading, Rests

LEMMA PartTaking == ProjectTypes /\ Saved!Part => backup \in Taking
  BY Nothing DEF ProjectTypes, Saved!Part

LEMMA Scans ==
  ASSUME ProjectTypes, Saved!Scan
  PROVE  /\ Reading /\ backup.redis = "scan" /\ backup'.redis = "lists"
         /\ backup'.keys = listed /\ backup'.lists = backup.lists
         /\ backup'.copied = backup.copied /\ backup'.project = backup.project
         /\ backup'.source = backup.source /\ backup'.rows = backup.rows /\ backup'.sqlite = backup.sqlite
<1> DEFINE b == [backup EXCEPT !.keys = listed, !.redis = "lists"]
<1>1. /\ Saved!Part /\ backup.redis = "scan" /\ backup' = b
      /\ UNCHANGED <<record, listed, rows, sent, sqlite, job, restore, dirs, catalogue, made, done, channels, incidents>>
  BY DEF Saved!Scan, Saved!store, Saved!files, Saved!ghosts
<1>2. backup \in Taking /\ listed \in SUBSET Members
  BY <1>1, PartTaking DEF ProjectTypes, StoreTypes
<1>3. b \in Taking
  BY <1>2 DEF Taking
<1>4. /\ b.at = backup.at /\ b.id = backup.id /\ b.failed = backup.failed /\ b.seen = backup.seen
      /\ b.torn = backup.torn /\ b.redis = "lists" /\ b.keys = listed /\ b.lists = backup.lists
      /\ b.copied = backup.copied /\ b.project = backup.project
      /\ b.source = backup.source /\ b.rows = backup.rows /\ b.sqlite = backup.sqlite
  BY <1>2 DEF Taking
<1> HIDE DEF b
<1>5. Reading
  BY <1>1, <1>3, <1>4, ReadingOn
<1> QED
  BY <1>1, <1>4, <1>5

LEMMA ReadsList ==
  ASSUME ProjectTypes, NEW u \in Members, Saved!ReadList(u)
  PROVE  /\ Reading /\ backup.redis = "lists" /\ backup'.redis = "lists" /\ u \in backup.keys
         /\ backup'.keys = backup.keys \ {u} /\ backup'.lists = backup.lists \cup ({u} \cap listed)
         /\ backup'.copied = backup.copied /\ backup'.project = backup.project
         /\ backup'.source = backup.source /\ backup'.rows = backup.rows /\ backup'.sqlite = backup.sqlite
<1> DEFINE b == [backup EXCEPT !.keys = @ \ {u}, !.lists = @ \cup ({u} \cap listed)]
<1>1. /\ Saved!Part /\ backup.redis = "lists" /\ u \in backup.keys /\ backup' = b
      /\ UNCHANGED <<record, listed, rows, sent, sqlite, job, restore, dirs, catalogue, made, done, channels, incidents>>
  BY DEF Saved!ReadList, Saved!store, Saved!files, Saved!ghosts
<1>2. backup \in Taking
  BY <1>1, PartTaking
<1>3. backup.keys \ {u} \in SUBSET Members /\ backup.lists \cup ({u} \cap listed) \in SUBSET Members
  BY <1>2 DEF Taking
<1>4. b \in Taking
  BY <1>2, <1>3 DEF Taking
<1>5. /\ b.at = backup.at /\ b.id = backup.id /\ b.failed = backup.failed /\ b.seen = backup.seen
      /\ b.torn = backup.torn /\ b.redis = backup.redis
      /\ b.keys = backup.keys \ {u} /\ b.lists = backup.lists \cup ({u} \cap listed)
      /\ b.copied = backup.copied /\ b.project = backup.project
      /\ b.source = backup.source /\ b.rows = backup.rows /\ b.sqlite = backup.sqlite
  BY <1>2 DEF Taking
<1> HIDE DEF b
<1>6. Reading
  BY <1>1, <1>4, <1>5, ReadingOn
<1> QED
  BY <1>1, <1>5, <1>6

LEMMA ReadsRecord ==
  ASSUME ProjectTypes, Saved!ReadRecord
  PROVE  /\ Reading /\ backup.redis = "lists" /\ backup'.redis = "done" /\ backup.keys = {}
         /\ backup'.record = record /\ backup'.lists = backup.lists
         /\ backup'.copied = backup.copied /\ backup'.project = backup.project
         /\ backup'.source = backup.source /\ backup'.rows = backup.rows /\ backup'.sqlite = backup.sqlite
<1> DEFINE b == [backup EXCEPT !.record = record, !.redis = "done"]
<1>1. /\ Saved!Part /\ backup.redis = "lists" /\ backup.keys = {} /\ backup' = b
      /\ UNCHANGED <<record, listed, rows, sent, sqlite, job, restore, dirs, catalogue, made, done, channels, incidents>>
  BY DEF Saved!ReadRecord, Saved!store, Saved!files, Saved!ghosts
<1>2. backup \in Taking /\ record \in Kept
  BY <1>1, PartTaking DEF ProjectTypes, StoreTypes
<1>3. b \in Taking
  BY <1>2 DEF Taking
<1>4. /\ b.at = backup.at /\ b.id = backup.id /\ b.failed = backup.failed /\ b.seen = backup.seen
      /\ b.torn = backup.torn /\ b.redis = "done" /\ b.record = record /\ b.lists = backup.lists
      /\ b.copied = backup.copied /\ b.project = backup.project
      /\ b.source = backup.source /\ b.rows = backup.rows /\ b.sqlite = backup.sqlite
  BY <1>2 DEF Taking
<1> HIDE DEF b
<1>5. Reading
  BY <1>1, <1>3, <1>4, ReadingOn
<1> QED
  BY <1>1, <1>4, <1>5

\* The rest of what a backup reads has nothing to do with the lists.
SameLists == /\ backup'.redis = backup.redis /\ backup'.keys = backup.keys /\ backup'.lists = backup.lists
             /\ backup'.record = backup.record

LEMMA ReadsProject ==
  ASSUME ProjectTypes, Saved!ReadProject
  PROVE  /\ Reading /\ SameLists /\ backup'.project = "messages" /\ backup'.source = record
         /\ backup'.copied = backup.copied /\ backup'.sqlite = backup.sqlite
<1> DEFINE b == [backup EXCEPT !.source = record, !.project = "messages"]
<1>1. /\ Saved!Part /\ backup' = b
      /\ UNCHANGED <<record, listed, rows, sent, sqlite, job, restore, dirs, catalogue, made, done, channels, incidents>>
  BY DEF Saved!ReadProject, Saved!store, Saved!files, Saved!ghosts
<1>2. backup \in Taking /\ record \in Kept
  BY <1>1, PartTaking DEF ProjectTypes, StoreTypes
<1>3. b \in Taking
  BY <1>2 DEF Taking
<1>4. /\ b.at = backup.at /\ b.id = backup.id /\ b.failed = backup.failed /\ b.seen = backup.seen
      /\ b.torn = backup.torn /\ b.redis = backup.redis /\ b.keys = backup.keys /\ b.lists = backup.lists
      /\ b.record = backup.record /\ b.project = "messages" /\ b.source = record
      /\ b.copied = backup.copied /\ b.sqlite = backup.sqlite
  BY <1>2 DEF Taking
<1> HIDE DEF b
<1>5. Reading
  BY <1>1, <1>3, <1>4, ReadingOn
<1> QED
  BY <1>1, <1>4, <1>5 DEF SameLists

LEMMA ReadsMessages ==
  ASSUME ProjectTypes, Saved!ReadMessages
  PROVE  /\ Reading /\ SameLists /\ backup.project = "messages" /\ backup'.project = "done"
         /\ backup'.rows = rows[backup.source.channel]
         /\ backup'.copied = backup.copied /\ backup'.sqlite = backup.sqlite
<1> DEFINE texts == rows[backup.source.channel]
           b == [backup EXCEPT !.rows = texts, !.project = "done"]
<1>1. /\ Saved!Part /\ backup.project = "messages" /\ backup' = b
      /\ UNCHANGED <<record, listed, rows, sent, sqlite, job, restore, dirs, catalogue, made, done, channels, incidents>>
  BY DEF Saved!ReadMessages, Saved!store, Saved!files, Saved!ghosts
<1>2. backup \in Taking
  BY <1>1, PartTaking
<1>3. texts \in RowSets
  BY <1>2 DEF Taking, Kept, ProjectTypes, StoreTypes
<1> HIDE DEF texts
<1>4. b \in Taking
  BY <1>2, <1>3 DEF Taking
<1>5. /\ b.at = backup.at /\ b.id = backup.id /\ b.failed = backup.failed /\ b.seen = backup.seen
      /\ b.torn = backup.torn /\ b.redis = backup.redis /\ b.keys = backup.keys /\ b.lists = backup.lists
      /\ b.record = backup.record /\ b.project = "done" /\ b.rows = texts
      /\ b.copied = backup.copied /\ b.sqlite = backup.sqlite
  BY <1>2 DEF Taking
<1> HIDE DEF b
<1>6. Reading
  BY <1>1, <1>4, <1>5, ReadingOn
<1> QED
  BY <1>1, <1>5, <1>6 DEF SameLists, texts

LEMMA Copies ==
  ASSUME ProjectTypes, Saved!CopySqlite
  PROVE  /\ Reading /\ SameLists /\ backup'.project = backup.project /\ backup'.source = backup.source
         /\ backup'.rows = backup.rows /\ backup'.sqlite = sqlite
<1> DEFINE b == [backup EXCEPT !.sqlite = sqlite, !.copied = TRUE]
<1>1. /\ Saved!Part /\ backup' = b
      /\ UNCHANGED <<record, listed, rows, sent, sqlite, job, restore, dirs, catalogue, made, done, channels, incidents>>
  BY DEF Saved!CopySqlite, Saved!store, Saved!files, Saved!ghosts
<1>2. backup \in Taking /\ sqlite \in Pairs
  BY <1>1, PartTaking DEF ProjectTypes, StoreTypes
<1>3. b \in Taking
  BY <1>2 DEF Taking
<1>4. /\ b.at = backup.at /\ b.id = backup.id /\ b.failed = backup.failed /\ b.seen = backup.seen
      /\ b.torn = backup.torn /\ b.redis = backup.redis /\ b.keys = backup.keys /\ b.lists = backup.lists
      /\ b.record = backup.record /\ b.project = backup.project /\ b.source = backup.source
      /\ b.rows = backup.rows /\ b.sqlite = sqlite
  BY <1>2 DEF Taking
<1> HIDE DEF b
<1>5. Reading
  BY <1>1, <1>3, <1>4, ReadingOn
<1> QED
  BY <1>1, <1>4, <1>5 DEF SameLists

\* The directory of a backup is written.
Files(dir) ==
  /\ DOMAIN dirs' = DOMAIN dirs \cup {backup.id} /\ dirs'[backup.id] = dir
  /\ \A b \in DOMAIN dirs : b # backup.id => dirs'[b] = dirs[b]
Writing ==
  /\ ProjectTypes' /\ Rests /\ UNCHANGED <<restore, catalogue, made, done>>
  /\ backup \in Taking /\ backup.at = "parts" /\ backup' \in Taking
  /\ backup'.at = "indexRead" /\ backup'.id = backup.id

LEMMA Writes ==
  ASSUME ProjectTypes, Saved!Part, NEW failed \in BOOLEAN, NEW dir \in Folder, backup' = Saved!Written(failed),
         dirs' = Saved!With(dirs, backup.id, dir),
         UNCHANGED <<record, listed, rows, sent, sqlite, job, restore, catalogue, made, done, channels>>
  PROVE  Writing /\ Files(dir) /\ backup'.failed = failed
<1>1. backup \in Taking /\ backup.at = "parts"
  BY PartTaking DEF Saved!Part
<1>2. Files(dir)
  <2> DEFINE id == backup.id
             g == Saved!With(dirs, id, dir)
  <2>1. DOMAIN g = DOMAIN dirs \cup {id} /\ g[id] = dir /\ \A z \in DOMAIN dirs : z # id => g[z] = dirs[z]
    BY DEF Saved!With
  <2>2. dirs' = g
    OBVIOUS
  <2> HIDE DEF g
  <2> QED
    BY <2>1, <2>2 DEF Files
<1>3. backup.id \in Nat
  BY <1>1 DEF Taking
<1>4. backup' \in Taking /\ backup'.at = "indexRead" /\ backup'.id = backup.id /\ backup'.failed = failed
  BY <1>1, Written
<1>5. FileTypes'
  BY <1>2, <1>3 DEF ProjectTypes, FileTypes, Files
<1>6. ProjectTypes'
  BY <1>4, <1>5 DEF ProjectTypes, StoreTypes, JobTypes, GhostTypes
<1> QED
  BY <1>1, <1>2, <1>4, <1>6 DEF Writing, Rests

LEMMA WritesFiles ==
  ASSUME ProjectTypes, Saved!WriteFiles
  PROVE  /\ Writing /\ UNCHANGED incidents /\ backup'.failed = FALSE
         /\ backup.redis = "done" /\ backup.project = "done" /\ backup.copied
         /\ \E dir \in Folder :
              /\ Files(dir) /\ dir.manifest = "ready" /\ dir.torn = backup.torn
              /\ dir.lists = backup.lists /\ dir.record = backup.record
              /\ dir.rows = backup.rows /\ dir.sqlite = backup.sqlite
<1> DEFINE dir == Saved!Contents
<1>1. /\ Saved!Part /\ backup.redis = "done" /\ backup.project = "done" /\ backup.copied
      /\ dirs' = Saved!With(dirs, backup.id, dir) /\ backup' = Saved!Written(FALSE)
      /\ UNCHANGED <<record, listed, rows, sent, sqlite, job, restore, catalogue, made, done, channels, incidents>>
  BY DEF Saved!WriteFiles, Saved!store, Saved!ghosts
<1>2. backup \in Taking
  BY <1>1, PartTaking
<1>3. /\ dir \in Folder /\ dir.manifest = "ready" /\ dir.torn = backup.torn
      /\ dir.lists = backup.lists /\ dir.record = backup.record
      /\ dir.rows = backup.rows /\ dir.sqlite = backup.sqlite
  BY <1>2 DEF Saved!Contents, Taking, Folder
<1> HIDE DEF dir
<1>4. FALSE \in BOOLEAN
  OBVIOUS
<1>5. Writing /\ Files(dir) /\ backup'.failed = FALSE
  BY <1>1, <1>3, <1>4, Writes
<1> QED
  BY <1>1, <1>3, <1>5

LEMMA FailsWhole ==
  ASSUME ProjectTypes, Saved!Fail
  PROVE  /\ Writing /\ UNCHANGED incidents /\ backup'.failed = TRUE
         /\ \E dir \in Folder : Files(dir) /\ dir.manifest = "failed"
  BY Nothing, Writes DEF Saved!Fail, Saved!store

LEMMA Creates ==
  ASSUME ProjectTypes, Saved!Create
  PROVE  /\ ProjectTypes' /\ Rests /\ UNCHANGED <<restore, dirs, catalogue, done>>
         /\ backup = Saved!Off /\ made' = made + 1 /\ incidents \subseteq incidents'
         /\ restore # Saved!Off => "overlap" \in incidents'
         /\ backup' \in Taking /\ backup'.at = "parts" /\ backup'.id = made + 1
         /\ backup'.torn = ((\E q \in Writers : Working(q)) \/ restore # Saved!Off)
         /\ backup'.redis = "scan" /\ backup'.project = "get" /\ backup'.copied = FALSE
         /\ backup'.keys = {} /\ backup'.lists = {}
<1> DEFINE torn == (\E q \in Writers : Working(q)) \/ restore # Saved!Off
           id == made + 1
<1>1. /\ backup = Saved!Off /\ made' = id /\ backup' = Saved!Making(id, torn)
      /\ Saved!Mark(Saved!When(restore # Saved!Off, "overlap"))
      /\ UNCHANGED <<record, listed, rows, sent, sqlite, job, restore, dirs, catalogue, done, channels>>
  BY DEF Saved!Create, Saved!store, Saved!files, Saved!Busy, Working
<1>2. torn \in BOOLEAN
  OBVIOUS
<1>3. id \in Nat
  BY <1>1 DEF ProjectTypes, GhostTypes
<1> HIDE DEF torn, id
<1>4. /\ backup' \in Taking /\ backup'.at = "parts" /\ backup'.id = id /\ backup'.torn = torn
      /\ backup'.redis = "scan" /\ backup'.project = "get" /\ backup'.copied = FALSE
      /\ backup'.keys = {} /\ backup'.lists = {}
  BY <1>1, <1>2, <1>3, Made
<1>5. ProjectTypes'
  BY <1>1, <1>3, <1>4 DEF ProjectTypes, StoreTypes, JobTypes, FileTypes, GhostTypes
<1>6. incidents \subseteq incidents' /\ (restore # Saved!Off => "overlap" \in incidents')
  BY <1>1 DEF Saved!Mark, Saved!When
<1> QED
  BY <1>1, <1>4, <1>5, <1>6 DEF Rests, torn, id

\* A backup is entered into the catalogue, and the oldest are removed.
Entering ==
  /\ ProjectTypes' /\ Rests /\ UNCHANGED <<restore, made, incidents>>
  /\ backup \in Taking /\ backup' \in {Saved!Off} \cup Taking /\ backup'.at # "parts"
  /\ backup' # Saved!Off => backup'.id = backup.id

LEMMA ReadsIndex ==
  ASSUME ProjectTypes, Saved!IndexRead
  PROVE  /\ Entering /\ UNCHANGED <<dirs, catalogue, done>>
         /\ backup.at = "indexRead" /\ backup'.at = "indexWrite" /\ backup' # Saved!Off
         /\ backup'.failed = backup.failed /\ backup'.seen = catalogue
<1> DEFINE b == [backup EXCEPT !.at = "indexWrite", !.seen = catalogue]
<1>1. /\ backup.at = "indexRead" /\ backup' = b
      /\ UNCHANGED <<record, listed, rows, sent, sqlite, job, restore, dirs, catalogue, made, done, channels, incidents>>
  BY DEF Saved!IndexRead, Saved!store, Saved!files, Saved!ghosts
<1>2. backup \in Taking /\ catalogue \in SUBSET Entries
  BY <1>1, Nothing DEF ProjectTypes, FileTypes
<1>3. b \in Taking
  BY <1>2 DEF Taking
<1>4. b.at = "indexWrite" /\ b.id = backup.id /\ b.failed = backup.failed /\ b.seen = catalogue
  BY <1>2 DEF Taking
<1> HIDE DEF b
<1>5. ProjectTypes'
  BY <1>1, <1>3 DEF ProjectTypes, StoreTypes, JobTypes, FileTypes, GhostTypes
<1> QED
  BY <1>1, <1>2, <1>3, <1>4, <1>5, Distinct DEF Entering, Rests

LEMMA WritesIndex ==
  ASSUME ProjectTypes, Saved!IndexWrite
  PROVE  /\ Entering /\ UNCHANGED <<dirs, done>>
         /\ backup.at = "indexWrite"
         /\ catalogue' = {e \in backup.seen : e.id # backup.id}
                           \cup {[id |-> backup.id, status |-> IF backup.failed THEN "failed" ELSE "ready"]}
         /\ IF backup.failed THEN backup' = Saved!Off ELSE backup' # Saved!Off /\ backup'.at = "pruneRead"
<1> DEFINE b == [backup EXCEPT !.at = "pruneRead", !.seen = {}]
<1>1. /\ backup.at = "indexWrite" /\ backup' = IF backup.failed THEN Saved!Off ELSE b
      /\ catalogue' = {e \in backup.seen : e.id # backup.id}
           \cup {[id |-> backup.id, status |-> IF backup.failed THEN "failed" ELSE "ready"]}
      /\ UNCHANGED <<record, listed, rows, sent, sqlite, job, restore, dirs, made, done, channels, incidents>>
  BY DEF Saved!IndexWrite, Saved!store, Saved!ghosts
<1>2. backup \in Taking
  BY <1>1, Nothing DEF ProjectTypes
<1>3. b \in Taking /\ b.at = "pruneRead" /\ b.id = backup.id
  BY <1>2 DEF Taking
<1>4. catalogue' \in SUBSET Entries
  BY <1>1, <1>2 DEF Taking, Entries
<1> HIDE DEF b
<1>5. ProjectTypes'
  BY <1>1, <1>3, <1>4 DEF ProjectTypes, StoreTypes, JobTypes, FileTypes, GhostTypes
<1> QED
  BY <1>1, <1>2, <1>3, <1>5, Distinct, Nothing DEF Entering, Rests

LEMMA ReadsPrune ==
  ASSUME ProjectTypes, Saved!PruneRead
  PROVE  /\ Entering /\ UNCHANGED <<dirs, catalogue>>
         /\ backup.at = "pruneRead"
         /\ \/ /\ Saved!Retained(catalogue) = catalogue /\ backup' = Saved!Off
               /\ done' = done \cup {backup.id}
            \/ backup' # Saved!Off /\ backup'.at = "prune" /\ backup'.seen = catalogue /\ UNCHANGED done
<1> DEFINE b == [backup EXCEPT !.at = "prune", !.seen = catalogue]
<1>1. /\ backup.at = "pruneRead"
      /\ \/ /\ Saved!Retained(catalogue) = catalogue /\ backup' = Saved!Off
            /\ done' = done \cup {backup.id}
         \/ backup' = b /\ UNCHANGED done
      /\ UNCHANGED <<record, listed, rows, sent, sqlite, job, restore, dirs, catalogue, made, channels, incidents>>
  BY DEF Saved!PruneRead, Saved!store, Saved!files
<1>2. backup \in Taking /\ catalogue \in SUBSET Entries
  BY <1>1, Nothing DEF ProjectTypes, FileTypes
<1>3. b \in Taking /\ b.at = "prune" /\ b.id = backup.id /\ b.seen = catalogue
  BY <1>2 DEF Taking
<1>4. done' \in SUBSET Nat
  BY <1>1, <1>2 DEF Taking, ProjectTypes, GhostTypes
<1> HIDE DEF b
<1>5. ProjectTypes'
  BY <1>1, <1>3, <1>4 DEF ProjectTypes, StoreTypes, JobTypes, FileTypes, GhostTypes
<1> QED
  BY <1>1, <1>2, <1>3, <1>5, Distinct, Nothing DEF Entering, Rests

LEMMA PrunesDir ==
  ASSUME ProjectTypes, Saved!PruneDir
  PROVE  /\ Entering /\ UNCHANGED <<backup, catalogue, done>> /\ backup.at = "prune"
         /\ \E e \in backup.seen \ Saved!Retained(backup.seen) :
              /\ DOMAIN dirs' = DOMAIN dirs \ {e.id}
              /\ \A b \in DOMAIN dirs' : dirs'[b] = dirs[b]
<1>1. /\ backup.at = "prune"
      /\ UNCHANGED <<record, listed, rows, sent, sqlite, job, backup, restore, catalogue, made, done, channels, incidents>>
  BY DEF Saved!PruneDir, Saved!store, Saved!ghosts
<1>2. PICK e \in backup.seen \ Saved!Retained(backup.seen) : dirs' = Saved!Without(dirs, {e.id})
  BY DEF Saved!PruneDir
<1>3. DOMAIN dirs' = DOMAIN dirs \ {e.id} /\ \A b \in DOMAIN dirs' : dirs'[b] = dirs[b]
  BY <1>2 DEF Saved!Without
<1>4. backup \in Taking
  BY <1>1, Nothing DEF ProjectTypes
<1>5. ProjectTypes'
  BY <1>1, <1>3 DEF ProjectTypes, StoreTypes, JobTypes, FileTypes, GhostTypes
<1> QED
  BY <1>1, <1>3, <1>4, <1>5 DEF Entering, Rests

LEMMA WritesPrune ==
  ASSUME ProjectTypes, Saved!PruneWrite
  PROVE  /\ Entering /\ UNCHANGED dirs /\ backup' = Saved!Off /\ backup.at = "prune"
         /\ \A e \in backup.seen \ Saved!Retained(backup.seen) : e.id \notin DOMAIN dirs
         /\ catalogue' = Saved!Retained(backup.seen) /\ done' = done \cup {backup.id}
  BY Nothing DEF Saved!PruneWrite, Saved!store, ProjectTypes, Taking, Saved!Retained, GhostTypes,
     StoreTypes, JobTypes, FileTypes, Entering, Rests

\* A set of numbers that is not empty has a least one, and a greatest if it has a bound.
LEMMA LeastThere ==
  ASSUME NEW S \in SUBSET Nat, S # {}
  PROVE  \E m \in S : \A n \in S : m <= n
<1> DEFINE R == {ss \in Nat \X Nat : ss[1] < ss[2]}
<1>1. IsWellFoundedOn(R, Nat)
  BY NatLessThanWellFounded, Zenon DEF OpToRel
<1>2. \E m \in S : \A n \in S : ~(<<n, m>> \in R)
  BY <1>1, WFMin
<1>3. PICK m \in S : \A n \in S : ~(<<n, m>> \in R)
  BY <1>2
<1>4. ASSUME NEW n \in S PROVE m <= n
  <2>1. m \in Nat /\ n \in Nat
    OBVIOUS
  <2>2. ~(n < m)
    BY <1>3, <2>1
  <2> QED
    BY <2>1, <2>2
<1> QED
  BY <1>4

LEMMA GreatestThere ==
  ASSUME NEW S \in SUBSET Nat, NEW bound \in Nat, \A n \in S : n <= bound, S # {}
  PROVE  \E m \in S : \A n \in S : n <= m
<1> DEFINE U == {n \in Nat : \A s \in S : s <= n}
<1>1. U \in SUBSET Nat /\ bound \in U
  OBVIOUS
<1>2. PICK k \in U : \A n \in U : k <= n
  BY <1>1, LeastThere
<1>3. k \in Nat /\ \A s \in S : s <= k
  OBVIOUS
<1>4. k \in S
  <2> SUFFICES ASSUME k \notin S PROVE FALSE
    OBVIOUS
  <2>1. PICK s \in S : TRUE
    OBVIOUS
  <2>2. s \in Nat /\ s <= k /\ s # k
    BY <1>3, <2>1
  <2>3. k - 1 \in Nat
    BY <1>3, <2>2
  <2>4. \A t \in S : t <= k - 1
    <3> TAKE t \in S
    <3>1. t \in Nat /\ t <= k /\ t # k
      BY <1>3
    <3> QED
      BY <1>3, <3>1
  <2>5. k <= k - 1
    BY <1>2, <2>3, <2>4
  <2> QED
    BY <1>3, <2>5
<1> QED
  BY <1>3, <1>4

LEMMA SavedMin ==
  ASSUME NEW S \in SUBSET Nat, S # {}
  PROVE  Saved!Min(S) \in S /\ \A n \in S : Saved!Min(S) <= n
  BY LeastThere DEF Saved!Min

\* Ids without a gap, from the first.
LEMMA NoGap ==
  ASSUME NEW S \in Bounded, S # {}, Saved!Max(S) = Saved!Cardinality(S)
  PROVE  S = 1..Saved!Max(S) /\ Saved!Max(S) \in Nat
<1>1. PICK n \in Nat : S \in SUBSET (1..n)
  BY DEF Bounded
<1>2. S \in SUBSET Nat /\ \A s \in S : s <= n
  BY <1>1
<1>3. \E m \in S : \A s \in S : s <= m
  BY <1>2, GreatestThere
<1>4. \E m \in S : \A s \in S : m >= s
  BY <1>2, <1>3
<1> DEFINE k == Saved!Max(S)
<1>5. k \in S /\ \A s \in S : k >= s
  BY <1>4 DEF Saved!Max
<1>6. Cardinality(S) = k
  BY DEF Saved!Cardinality, Cardinality
<1> HIDE DEF k
<1>7. k \in Nat /\ S \in SUBSET (1..k)
  BY <1>1, <1>2, <1>5
<1>8. IsFiniteSet(1..k) /\ Cardinality(1..k) = k
  BY <1>7, FS_Interval
<1>9. S = 1..k
  BY <1>6, <1>7, <1>8, FS_Subset
<1> QED
  BY <1>7, <1>9 DEF k

\* A restoration goes on.
Restoring ==
  /\ ProjectTypes' /\ UNCHANGED <<job, backup, dirs, catalogue, made, done>> /\ incidents \subseteq incidents'
  /\ restore \in Putting /\ restore' \in Putting /\ restore'.at # "indexWrite"

LEMMA RestoringOn ==
  ASSUME ProjectTypes, StoreTypes', channels' \in Saved!Channels, NEW p \in Putting, restore' = p,
         p.at # "indexWrite", p.at = "send" => p.left \subseteq DOMAIN p.dir.rows, restore.at # "off",
         incidents \subseteq incidents', UNCHANGED <<job, backup, dirs, catalogue, made, done>>
  PROVE  Restoring
  BY Nothing DEF ProjectTypes, JobTypes, FileTypes, GhostTypes, Restoring

LEMMA RestoresRedis ==
  ASSUME ProjectTypes, Saved!RestoreRedis
  PROVE  /\ Restoring /\ UNCHANGED <<rows, sent, sqlite, channels>>
         /\ restore.at = "redis" /\ restore'.at = "clear" /\ restore'.dir = restore.dir
         /\ record' = restore.dir.record /\ listed' = listed \cup restore.dir.lists
         /\ listed \ restore.dir.record.members # {} => "newer" \in incidents'
<1> DEFINE p == [restore EXCEPT !.at = "clear"]
<1>1. /\ restore.at = "redis" /\ restore' = p
      /\ record' = restore.dir.record /\ listed' = listed \cup restore.dir.lists
      /\ Saved!Mark(Saved!When(listed \ restore.dir.record.members # {}, "newer"))
      /\ UNCHANGED <<rows, sent, sqlite, job, backup, dirs, catalogue, made, done, channels>>
  BY DEF Saved!RestoreRedis, Saved!RestoredLists, Saved!files, Saved!ghosts
<1>2. restore \in Putting
  BY <1>1, Nothing DEF ProjectTypes
<1>3. p \in Putting /\ p.at = "clear" /\ p.dir = restore.dir
  BY <1>2 DEF Putting
<1>4. restore.dir.record \in Kept /\ restore.dir.lists \in SUBSET Members
  BY <1>2 DEF Putting, Folder
<1>5. StoreTypes' /\ channels' \in Saved!Channels
  BY <1>1, <1>4 DEF ProjectTypes, StoreTypes, GhostTypes
<1>6. incidents \subseteq incidents' /\ (listed \ restore.dir.record.members # {} => "newer" \in incidents')
  BY <1>1 DEF Saved!Mark, Saved!When
<1> HIDE DEF p
<1>7. Restoring
  BY <1>1, <1>3, <1>5, <1>6, RestoringOn
<1> QED
  BY <1>1, <1>3, <1>6, <1>7

LEMMA ClearsSqlite ==
  ASSUME ProjectTypes, Saved!ClearSqlite
  PROVE  /\ Restoring /\ UNCHANGED <<record, listed, rows, sent, channels>>
         /\ restore.at = "clear" /\ restore'.at = "sqlite" /\ restore'.dir = restore.dir
<1> DEFINE p == [restore EXCEPT !.at = "sqlite"]
<1>1. /\ restore.at = "clear" /\ restore' = p /\ sqlite' = {}
      /\ UNCHANGED <<record, listed, rows, sent, job, backup, dirs, catalogue, made, done, channels, incidents>>
  BY DEF Saved!ClearSqlite, Saved!files, Saved!ghosts
<1>2. restore \in Putting
  BY <1>1, Nothing DEF ProjectTypes
<1>3. p \in Putting /\ p.at = "sqlite" /\ p.dir = restore.dir
  BY <1>2 DEF Putting
<1>5. StoreTypes' /\ channels' \in Saved!Channels
  BY <1>1 DEF ProjectTypes, StoreTypes, GhostTypes, Pairs
<1> HIDE DEF p
<1>7. Restoring
  BY <1>1, <1>3, <1>5, RestoringOn
<1> QED
  BY <1>1, <1>3, <1>7

LEMMA RestoresSqlite ==
  ASSUME ProjectTypes, Saved!RestoreSqlite
  PROVE  /\ Restoring /\ UNCHANGED <<record, listed, rows, sent, channels>>
         /\ restore.at = "sqlite" /\ restore'.at = "channel" /\ restore'.dir = restore.dir
         /\ sqlite' = restore.dir.sqlite \/ "emptied" \in incidents'
<1> DEFINE p == [restore EXCEPT !.at = "channel"]
           there == restore.id \in DOMAIN dirs
<1>1. /\ restore.at = "sqlite" /\ restore' = p /\ sqlite' = Saved!SavedIndex(there, restore.dir.sqlite)
      /\ Saved!Mark(Saved!When(~there, "emptied"))
      /\ UNCHANGED <<record, listed, rows, sent, job, backup, dirs, catalogue, made, done, channels>>
  BY DEF Saved!RestoreSqlite, Saved!files, Saved!ghosts
<1>2. restore \in Putting
  BY <1>1, Nothing DEF ProjectTypes
<1>3. p \in Putting /\ p.at = "channel" /\ p.dir = restore.dir
  BY <1>2 DEF Putting
<1>4. restore.dir.sqlite \in Pairs
  BY <1>2 DEF Putting, Folder
<1>5. incidents \subseteq incidents' /\ (~there => "emptied" \in incidents')
  BY <1>1 DEF Saved!Mark, Saved!When
<1> HIDE DEF p, there
<1>6. sqlite' \in Pairs /\ (there => sqlite' = restore.dir.sqlite)
  BY <1>1, <1>4 DEF Saved!SavedIndex, Pairs
<1>7. StoreTypes' /\ channels' \in Saved!Channels
  BY <1>1, <1>6 DEF ProjectTypes, StoreTypes, GhostTypes
<1>8. Restoring
  BY <1>1, <1>3, <1>5, <1>7, RestoringOn
<1> QED
  BY <1>1, <1>3, <1>5, <1>6, <1>8

LEMMA MakesChannel ==
  ASSUME ProjectTypes, Saved!NewChannel
  PROVE  /\ Restoring /\ UNCHANGED <<record, listed, rows, sent, sqlite, incidents>>
         /\ restore.at = "channel" /\ restore'.at = "send" /\ restore'.dir = restore.dir
         /\ channels' = channels + 1 /\ restore'.channel = channels' /\ restore'.left = DOMAIN restore.dir.rows
<1> DEFINE new == channels + 1
           all == DOMAIN restore.dir.rows
           p == [restore EXCEPT !.at = "send", !.channel = new, !.left = all]
<1>1. /\ restore.at = "channel" /\ channels < MaxRequests /\ channels' = new /\ restore' = p
      /\ UNCHANGED <<record, listed, rows, sent, sqlite, job, backup, dirs, catalogue, made, done, incidents>>
  BY DEF Saved!NewChannel, Saved!store, Saved!files
<1>2. restore \in Putting
  BY <1>1, Nothing DEF ProjectTypes
<1>3. new \in Saved!Channels
  BY <1>1, StorageAssumption DEF ProjectTypes, GhostTypes, Saved!Channels
<1>4. all \in SUBSET (Nat \ {0})
  BY <1>2, RowSetsHave DEF Putting, Folder
<1> HIDE DEF new, all
<1>5. p \in Putting /\ p.at = "send" /\ p.dir = restore.dir /\ p.channel = new /\ p.left = all
  BY <1>2, <1>3, <1>4 DEF Putting
<1>6. StoreTypes' /\ channels' \in Saved!Channels
  BY <1>1, <1>3 DEF ProjectTypes, StoreTypes
<1> HIDE DEF p
<1>7. p.left \subseteq DOMAIN p.dir.rows
  BY <1>5 DEF all
<1>8. Restoring
  BY <1>1, <1>5, <1>6, <1>7, RestoringOn
<1> QED
  BY <1>1, <1>5, <1>8 DEF new, all

LEMMA Resends ==
  ASSUME ProjectTypes, Saved!Resend
  PROVE  LET c == restore.channel
         IN /\ Restoring /\ UNCHANGED <<record, listed, sqlite, channels>>
            /\ restore.at = "send" /\ restore'.at = "send" /\ restore'.dir = restore.dir /\ restore'.channel = c
            /\ c \in Saved!Channels /\ sent'[c] = sent[c] + 1
            /\ \A d \in Saved!Channels : d # c => rows'[d] = rows[d] /\ sent'[d] = sent[d]
            /\ \E i \in restore.left :
                 /\ \A j \in restore.left : i <= j
                 /\ restore'.left = restore.left \ {i}
                 /\ rows'[c] = Saved!With(rows[c], sent[c] + 1, restore.dir.rows[i])
            /\ \/ "renumbered" \in incidents'
               \/ \E n \in Nat : DOMAIN restore.dir.rows = 1..n
<1> DEFINE c == restore.channel
           i == Saved!Min(restore.left)
           D == DOMAIN restore.dir.rows
           rest == restore.left \ {i}
           p == [restore EXCEPT !.left = rest]
<1>1. /\ restore.at = "send" /\ restore.left # {} /\ restore' = p
      /\ rows' = [rows EXCEPT ![c] = Saved!With(@, sent[c] + 1, restore.dir.rows[i])]
      /\ sent' = [sent EXCEPT ![c] = @ + 1]
      /\ Saved!Mark(Saved!When(restore.dir.rows # <<>> /\ Saved!Max(D) # Saved!Cardinality(D), "renumbered"))
      /\ UNCHANGED <<record, listed, sqlite, job, backup, dirs, catalogue, made, done, channels>>
  BY DEF Saved!Resend, Saved!NextToSend, Saved!files, Saved!ghosts
<1>2. restore \in Putting
  BY <1>1, Nothing DEF ProjectTypes
<1>3. restore.left \in SUBSET Nat /\ restore.left \subseteq D /\ c \in Saved!Channels /\ restore.dir.rows \in RowSets
  BY <1>1, <1>2 DEF Putting, Folder, ProjectTypes
<1>4. i \in restore.left /\ \A j \in restore.left : i <= j
  BY <1>1, <1>3, SavedMin
<1>5. rest \in SUBSET (Nat \ {0})
  BY <1>2 DEF Putting
<1>6. restore.dir.rows[i] \in Accounts /\ D \in Bounded /\ D # {}
  BY <1>3, <1>4, RowSetsHave
<1>7. incidents \subseteq incidents'
  BY <1>1 DEF Saved!Mark
<1>8. "renumbered" \in incidents' \/ \E n \in Nat : D = 1..n
  <2>1. restore.dir.rows # <<>>
    BY <1>6
  <2>2. "renumbered" \in incidents' \/ Saved!Max(D) = Saved!Cardinality(D)
    BY <1>1, <2>1 DEF Saved!Mark, Saved!When
  <2> HIDE DEF D
  <2> QED
    BY <1>6, <2>2, NoGap
<1> HIDE DEF i, rest
<1>9. /\ p \in Putting /\ p.at = "send" /\ p.dir = restore.dir /\ p.channel = c /\ p.left = rest
  BY <1>1, <1>2, <1>5 DEF Putting
<1> DEFINE new == Saved!With(rows[c], sent[c] + 1, restore.dir.rows[i])
<1> HIDE DEF c
<1>10. sent[c] \in Nat /\ sent[c] + 1 \in Nat \ {0} /\ rows[c] \in RowSets
  BY <1>3 DEF ProjectTypes, StoreTypes
<1>11. new \in RowSets
  BY <1>6, <1>10, Adding
<1>12. rows' = [rows EXCEPT ![c] = new] /\ sent' = [sent EXCEPT ![c] = sent[c] + 1]
  BY <1>1
<1> HIDE DEF new, p
<1>13. /\ rows' \in [Saved!Channels -> RowSets] /\ sent' \in [Saved!Channels -> Nat]
       /\ rows'[c] = new /\ sent'[c] = sent[c] + 1
       /\ \A d \in Saved!Channels : d # c => rows'[d] = rows[d] /\ sent'[d] = sent[d]
  BY <1>3, <1>10, <1>11, <1>12 DEF ProjectTypes, StoreTypes
<1>14. StoreTypes' /\ channels' \in Saved!Channels
  BY <1>1, <1>13 DEF ProjectTypes, StoreTypes, GhostTypes
<1>15. p.left \subseteq DOMAIN p.dir.rows
  BY <1>3, <1>9 DEF rest
<1>16. Restoring
  BY <1>1, <1>7, <1>9, <1>14, <1>15, RestoringOn
<1> QED
  BY <1>1, <1>3, <1>4, <1>8, <1>9, <1>13, <1>16 DEF new, rest, c

LEMMA ReadsAgain ==
  ASSUME ProjectTypes, Saved!Reread
  PROVE  /\ Restoring /\ UNCHANGED <<record, listed, rows, sent, sqlite, channels, incidents>>
         /\ restore.at = "send" /\ restore.left = {} /\ restore'.at = "point" /\ restore'.dir = restore.dir
         /\ restore'.channel = restore.channel /\ restore'.base = record
<1> DEFINE p == [restore EXCEPT !.at = "point", !.base = record]
<1>1. /\ restore.at = "send" /\ restore.left = {} /\ restore' = p
      /\ UNCHANGED <<record, listed, rows, sent, sqlite, job, backup, dirs, catalogue, made, done, channels, incidents>>
  BY DEF Saved!Reread, Saved!store, Saved!files, Saved!ghosts
<1>2. restore \in Putting /\ record \in Kept
  BY <1>1, Nothing DEF ProjectTypes, StoreTypes
<1>3. /\ p \in Putting /\ p.at = "point" /\ p.dir = restore.dir /\ p.channel = restore.channel
      /\ p.base = record
  BY <1>2 DEF Putting
<1>5. StoreTypes' /\ channels' \in Saved!Channels
  BY <1>1 DEF ProjectTypes, StoreTypes, GhostTypes
<1> HIDE DEF p
<1>7. Restoring
  BY <1>1, <1>3, <1>5, RestoringOn
<1> QED
  BY <1>1, <1>3, <1>7

LEMMA Repoints ==
  ASSUME ProjectTypes, Saved!Repoint
  PROVE  /\ Restoring /\ UNCHANGED <<listed, rows, sent, sqlite, channels>>
         /\ restore.at = "point" /\ restore'.at = "manifest"
         /\ record'.channel = restore.channel /\ record'.members = restore.base.members
         /\ restore.base # record => "busy" \in incidents'
<1> DEFINE id == restore.id
           none == Saved!NoContents
           p == Saved!Restored("manifest", id, none)
<1>1. /\ restore.at = "point" /\ restore' = p /\ record' = [restore.base EXCEPT !.channel = restore.channel]
      /\ Saved!Mark(Saved!When(restore.base # record, "busy"))
      /\ UNCHANGED <<listed, rows, sent, sqlite, job, backup, dirs, catalogue, made, done, channels>>
  BY DEF Saved!Repoint, Saved!files, Saved!ghosts
<1>2. restore \in Putting
  BY <1>1, Nothing DEF ProjectTypes
<1>3. id \in Nat /\ restore.base \in Kept /\ restore.channel \in Saved!Channels
  BY <1>2 DEF Putting
<1>4. none \in Folder
  BY Nothing
<1> HIDE DEF id, none
<1>5. p \in Putting /\ p.at = "manifest"
  BY <1>3, <1>4, PutBack
<1>6. record' \in Kept /\ record'.channel = restore.channel /\ record'.members = restore.base.members
  BY <1>1, <1>3 DEF Kept
<1>7. StoreTypes' /\ channels' \in Saved!Channels
  BY <1>1, <1>6 DEF ProjectTypes, StoreTypes, GhostTypes
<1>8. incidents \subseteq incidents' /\ (restore.base # record => "busy" \in incidents')
  BY <1>1 DEF Saved!Mark, Saved!When
<1> HIDE DEF p
<1>9. Restoring
  BY <1>1, <1>5, <1>7, <1>8, RestoringOn
<1> QED
  BY <1>1, <1>5, <1>6, <1>8, <1>9

LEMMA Restores ==
  ASSUME ProjectTypes, Saved!Restore
  PROVE  /\ ProjectTypes' /\ Rests /\ SameBooks /\ incidents \subseteq incidents' /\ ~Steady'
         /\ restore = Saved!Off /\ restore' \in Putting /\ restore'.at = "redis"
         /\ backup # Saved!Off => "overlap" \in incidents'
         /\ (\E q \in Writers : Working(q)) => "busy" \in incidents'
         /\ \E b \in DOMAIN dirs : /\ restore'.dir = dirs[b] /\ dirs[b].manifest = "ready"
                                   /\ dirs[b].torn => "torn" \in incidents'
<1>1. PICK b \in DOMAIN dirs :
        /\ restore = Saved!Off /\ dirs[b].manifest = "ready"
        /\ restore' = Saved!Restored("redis", b, dirs[b])
        /\ Saved!Mark(Saved!When(backup # Saved!Off, "overlap") \cup Saved!When(Saved!Busy, "busy")
                        \cup Saved!When(dirs[b].torn, "torn"))
        /\ backup' = IF backup.at = "parts" THEN [backup EXCEPT !.torn = TRUE] ELSE backup
        /\ UNCHANGED <<record, listed, rows, sent, sqlite, job, dirs, catalogue, made, done, channels>>
  BY DEF Saved!Restore, Saved!store, Saved!files
<1>2. b \in Nat /\ dirs[b] \in Folder
  BY DEF ProjectTypes, FileTypes
<1> DEFINE dir == dirs[b]
<1>3. restore' = Saved!Restored("redis", b, dir) /\ dir \in Folder
  BY <1>1, <1>2
<1> HIDE DEF dir
<1>4. restore' \in Putting /\ restore'.at = "redis" /\ restore'.dir = dir
  BY <1>2, <1>3, PutBack
<1>5. /\ incidents \subseteq incidents'
      /\ backup # Saved!Off => "overlap" \in incidents'
      /\ (\E q \in Writers : Working(q)) => "busy" \in incidents'
      /\ dirs[b].torn => "torn" \in incidents'
  BY <1>1 DEF Saved!Mark, Saved!When, Saved!Busy, Working
<1>6. /\ backup' \in {Saved!Off} \cup Taking /\ ~Steady' /\ SameBooks
  BY <1>1, Tearing DEF SameBooks
<1>7. ProjectTypes'
  BY <1>1, <1>4, <1>6 DEF ProjectTypes, StoreTypes, JobTypes, FileTypes, GhostTypes
<1> QED
  BY <1>1, <1>4, <1>5, <1>6, <1>7 DEF Rests, dir

\* A restoration ends, and is entered into the catalogue.
Closing ==
  /\ ProjectTypes' /\ Rests /\ UNCHANGED <<backup, dirs, made, done, incidents>>
  /\ restore \in Putting /\ restore' \in {Saved!Off} \cup Putting
  /\ restore.at \in {"manifest", "indexRead", "indexWrite"}
  /\ restore'.at \in {"off", "indexRead", "indexWrite"}

LEMMA EntersRestored ==
  ASSUME ProjectTypes, Saved!RestoredManifest
  PROVE  Closing /\ UNCHANGED catalogue /\ restore'.at # "indexWrite"
<1> DEFINE p == [restore EXCEPT !.at = "indexRead"]
<1>1. /\ restore.at = "manifest" /\ (restore' = p \/ restore' = Saved!Off)
      /\ UNCHANGED <<record, listed, rows, sent, sqlite, job, backup, dirs, catalogue, made, done, channels, incidents>>
  BY DEF Saved!RestoredManifest, Saved!store, Saved!files, Saved!ghosts
<1>2. restore \in Putting
  BY <1>1, Nothing DEF ProjectTypes
<1>3. p \in Putting /\ p.at = "indexRead"
  BY <1>2 DEF Putting
<1> HIDE DEF p
<1>4. restore' \in {Saved!Off} \cup Putting /\ restore'.at \in {"off", "indexRead"}
  BY <1>1, <1>3, Nothing
<1>5. ProjectTypes'
  BY <1>1, <1>4 DEF ProjectTypes, StoreTypes, JobTypes, FileTypes, GhostTypes
<1> QED
  BY <1>1, <1>2, <1>4, <1>5 DEF Closing, Rests

LEMMA ReadsRestored ==
  ASSUME ProjectTypes, Saved!RestoredRead
  PROVE  Closing /\ UNCHANGED catalogue /\ restore'.at = "indexWrite" /\ restore'.seen = catalogue
<1> DEFINE p == [restore EXCEPT !.at = "indexWrite", !.seen = catalogue]
<1>1. /\ restore.at = "indexRead" /\ restore' = p
      /\ UNCHANGED <<record, listed, rows, sent, sqlite, job, backup, dirs, catalogue, made, done, channels, incidents>>
  BY DEF Saved!RestoredRead, Saved!store, Saved!files, Saved!ghosts
<1>2. restore \in Putting /\ catalogue \in SUBSET Entries
  BY <1>1, Nothing DEF ProjectTypes, FileTypes
<1>3. p \in Putting /\ p.at = "indexWrite" /\ p.seen = catalogue
  BY <1>2 DEF Putting
<1> HIDE DEF p
<1>4. ProjectTypes'
  BY <1>1, <1>3 DEF ProjectTypes, StoreTypes, JobTypes, FileTypes, GhostTypes
<1> QED
  BY <1>1, <1>2, <1>3, <1>4 DEF Closing, Rests

LEMMA WritesRestored ==
  ASSUME ProjectTypes, Saved!RestoredWrite
  PROVE  Closing /\ restore.at = "indexWrite" /\ restore' = Saved!Off /\ catalogue' = restore.seen
  BY Nothing DEF Saved!RestoredWrite, Saved!store, Saved!ghosts, ProjectTypes, Putting, StoreTypes,
     JobTypes, FileTypes, GhostTypes, Closing, Rests

\* What ends half-way is noted.
LEMMA CutShort ==
  ASSUME ProjectTypes,
         Saved!Crash \/ Saved!SkipManifest \/ \E r \in Writers : Saved!FailRequest(r)
  PROVE  ProjectTypes' /\ "cut" \in incidents'
<1>1. CASE Saved!Crash
  BY <1>1, Nothing DEF Saved!Crash, Saved!store, Saved!files, JobTypes, ProjectTypes, StoreTypes,
     FileTypes, GhostTypes, Saved!Mark
<1>2. CASE Saved!SkipManifest
  <2> DEFINE id == restore.id
             none == Saved!NoContents
  <2>1. /\ restore.at \in {"channel", "send"} /\ restore' = Saved!Restored("manifest", id, none)
        /\ UNCHANGED <<record, listed, rows, sent, sqlite, job, backup, dirs, catalogue, made, done, channels>>
        /\ Saved!Mark({"cut"})
    BY <1>2 DEF Saved!SkipManifest, Saved!store, Saved!files
  <2>2. id \in Nat
    BY <2>1, Nothing DEF ProjectTypes, Putting
  <2>3. none \in Folder
    BY Nothing
  <2> HIDE DEF id, none
  <2>4. restore' \in Putting /\ restore'.at = "manifest"
    BY <2>1, <2>2, <2>3, PutBack
  <2> QED
    BY <2>1, <2>4 DEF ProjectTypes, StoreTypes, JobTypes, FileTypes, GhostTypes, Saved!Mark
<1>3. ASSUME NEW r \in Writers, Saved!FailRequest(r) PROVE ProjectTypes' /\ "cut" \in incidents'
  BY <1>3, Finishing DEF Saved!FailRequest, Saved!store, Saved!files, ProjectTypes, StoreTypes,
     FileTypes, GhostTypes, Saved!Mark
<1> QED
  BY <1>1, <1>2, <1>3

-----------------------------------------------------------------------------
(* Backup: the catalogue lists what is there.                               *)

LEMMA CountSaved ==
  \A S : Saved!Cardinality(S) = Cardinality(S)
  BY DEF Saved!Cardinality, Cardinality

\* Of entries about different backups, at most as many are retained as are to be.
LEMMA RetainedFew ==
  ASSUME NEW E \in SUBSET Entries, IsFiniteSet(E), \A e, f \in E : e.id = f.id => e = f
  PROVE  IsFiniteSet(Saved!Retained(E)) /\ Cardinality(Saved!Retained(E)) <= Retention
<1> DEFINE R == Saved!Retained(E)
           Above(e) == {f \in E : f.id > e.id}
<1>1. R \in SUBSET E /\ IsFiniteSet(R)
  <2>1. R \in SUBSET E
    BY DEF Saved!Retained
  <2> HIDE DEF R
  <2> QED
    BY <2>1, FS_Subset
<1>2. \A e \in R : Cardinality(Above(e)) < Retention
  BY CountSaved, Zenon DEF Saved!Retained
<1>3. Retention \in Nat
  BY StorageAssumption
<1> HIDE DEF R
<1>4. CASE R = {}
  BY <1>1, <1>3, <1>4, FS_EmptySet DEF R
<1>5. CASE R # {}
  <2> DEFINE numbers == {e.id : e \in R}
  <2>1. numbers \in SUBSET Nat /\ numbers # {}
    BY <1>1, <1>5 DEF Entries
  <2>2. PICK m \in numbers : \A n \in numbers : m <= n
    BY <2>1, LeastThere
  <2>3. PICK e \in R : e.id = m
    BY <2>2
  <2>4. \A f \in R \ {e} : f \in E /\ f.id > e.id
    <3> TAKE f \in R \ {e}
    <3>1. f \in E /\ e \in E /\ f.id # e.id
      BY <1>1
    <3>2. e.id <= f.id
      BY <2>2, <2>3
    <3> QED
      BY <3>1, <3>2 DEF Entries
  <2> DEFINE A == Above(e)
             B == R \ {e}
  <2>5. B \in SUBSET A
    BY <2>4
  <2>6. IsFiniteSet(A) /\ Cardinality(A) \in Nat
    <3>1. A \in SUBSET E
      OBVIOUS
    <3>2. IsFiniteSet(A)
      <4> HIDE DEF A
      <4> QED
        BY <3>1, FS_Subset
    <3> HIDE DEF A
    <3> QED
      BY <3>2, FS_CardinalityType
  <2>7. Cardinality(A) < Retention
    BY <1>2
  <2>8. Cardinality(B) = Cardinality(R) - 1
    BY <1>1, FS_RemoveElement
  <2> HIDE DEF A
  <2>9. Cardinality(B) <= Cardinality(A)
    <3> HIDE DEF B
    <3> QED
      BY <2>5, <2>6, FS_Subset
  <2>10. Cardinality(R) \in Nat
    BY <1>1, FS_CardinalityType
  <2> QED
    BY <1>1, <1>3, <2>6, <2>7, <2>8, <2>9, <2>10 DEF R
<1> QED
  BY <1>4, <1>5

\* The catalogue, and who writes it, are as they were.
LEMMA BooksStay ==
  ASSUME Catalogued, SameBooks, incidents \subseteq incidents',
         restore'.at = "indexWrite" => restore.at = "indexWrite" /\ restore'.seen = restore.seen,
         restore' # Saved!Off => restore # Saved!Off \/ backup = Saved!Off \/ "overlap" \in incidents'
  PROVE  Catalogued'
<1> SUFFICES ASSUME incidents' \cap {"overlap", "cut"} = {} PROVE (~Together /\ Listed /\ Counted)'
  BY DEF Catalogued
<1>1. ~Together /\ Listed /\ Counted /\ "overlap" \notin incidents'
  BY DEF Catalogued
<1>2. (~Together)'
  BY <1>1 DEF SameBooks, Together
<1>3. Listed'
  BY <1>1 DEF SameBooks, Listed, Filed
<1>4. Counted'
  BY <1>1 DEF SameBooks, Counted
<1> QED
  BY <1>2, <1>3, <1>4

\* The entries and the directories have numbers.
LEMMA Numbers ==
  ASSUME ProjectTypes
  PROVE  /\ made \in Nat /\ \A b \in DOMAIN dirs : b \in Nat
         /\ \A e \in catalogue : e.id \in Nat
         /\ \A b \in done : b \in Nat
  BY DEF ProjectTypes, GhostTypes, FileTypes, Entries

LEMMA CreateCatalogued ==
  ASSUME ProjectTypes, Catalogued, Saved!Create
  PROVE  Catalogued'
<1> SUFFICES ASSUME incidents' \cap {"overlap", "cut"} = {} PROVE (~Together /\ Listed /\ Counted)'
  BY DEF Catalogued
<1>1. /\ UNCHANGED <<restore, dirs, catalogue, done>>
      /\ backup = Saved!Off /\ made' = made + 1 /\ incidents \subseteq incidents' /\ restore = Saved!Off
      /\ backup'.at = "parts" /\ backup'.id = made + 1
  BY Creates
<1>2. Listed /\ Counted
  BY <1>1 DEF Catalogued
<1>3. backup.at = "off" /\ restore.at = "off"
  BY <1>1, Nothing
<1>4. (~Together)'
  BY <1>1 DEF Together
<1>5. Listed'
  BY <1>1, <1>2, <1>3, Numbers DEF Listed, Filed
<1>6. Counted'
  BY <1>1, <1>2, <1>3, Numbers DEF Counted
<1> QED
  BY <1>4, <1>5, <1>6

LEMMA WritingCatalogued ==
  ASSUME ProjectTypes, Catalogued, Writing, UNCHANGED incidents, NEW dir, Files(dir),
         dir.manifest = IF backup'.failed THEN "failed" ELSE "ready"
  PROVE  Catalogued'
<1> SUFFICES ASSUME incidents' \cap {"overlap", "cut"} = {} PROVE (~Together /\ Listed /\ Counted)'
  BY DEF Catalogued
<1>1. /\ UNCHANGED <<restore, catalogue, made, done>> /\ backup \in Taking /\ backup' \in Taking
      /\ backup.at = "parts" /\ backup'.at = "indexRead" /\ backup'.id = backup.id
  BY DEF Writing
<1>2. backup # Saved!Off /\ backup' # Saved!Off
  BY <1>1, Distinct
<1>3. ~Together /\ Listed /\ Counted
  BY DEF Catalogued
<1>4. restore = Saved!Off /\ restore.at = "off" /\ backup.id = made
  BY <1>2, <1>3, Nothing DEF Together, Listed
<1>5. made \notin DOMAIN dirs /\ \A e \in catalogue : Filed(e)
  BY <1>1, <1>3 DEF Listed
<1>6. /\ DOMAIN dirs' = DOMAIN dirs \cup {made} /\ dirs'[made] = dir
      /\ \A b \in DOMAIN dirs : b # made => dirs'[b] = dirs[b]
  BY <1>4 DEF Files
<1>7. \A e \in catalogue : Filed(e)' /\ e.id # made
  BY <1>5, <1>6 DEF Filed
<1>8. (~Together)'
  BY <1>1, <1>4 DEF Together
<1>9. Listed'
  BY <1>1, <1>3, <1>4, <1>6, <1>7, Numbers DEF Listed
<1>10. Counted'
  BY <1>1, <1>3 DEF Counted
<1> QED
  BY <1>8, <1>9, <1>10

LEMMA ReadIndexCatalogued ==
  ASSUME ProjectTypes, Catalogued, Saved!IndexRead
  PROVE  Catalogued'
<1> SUFFICES ASSUME incidents' \cap {"overlap", "cut"} = {} PROVE (~Together /\ Listed /\ Counted)'
  BY DEF Catalogued
<1>1. /\ UNCHANGED <<restore, dirs, catalogue, made, done, incidents>> /\ backup \in Taking
      /\ backup.at = "indexRead" /\ backup'.at = "indexWrite" /\ backup'.id = backup.id
      /\ backup'.failed = backup.failed /\ backup'.seen = catalogue
  BY ReadsIndex DEF Entering
<1>2. backup # Saved!Off
  BY <1>1, Distinct
<1>3. ~Together /\ Listed /\ Counted
  BY <1>1 DEF Catalogued
<1>4. (~Together)'
  BY <1>1, <1>2, <1>3 DEF Together
<1>5. Listed'
  BY <1>1, <1>2, <1>3 DEF Listed, Filed
<1>6. Counted'
  BY <1>1, <1>3 DEF Counted
<1> QED
  BY <1>4, <1>5, <1>6

LEMMA WriteIndexCatalogued ==
  ASSUME ProjectTypes, Catalogued, Saved!IndexWrite
  PROVE  Catalogued'
<1> SUFFICES ASSUME incidents' \cap {"overlap", "cut"} = {} PROVE (~Together /\ Listed /\ Counted)'
  BY DEF Catalogued
<1> DEFINE status == IF backup.failed THEN "failed" ELSE "ready"
           entry == [id |-> made, status |-> status]
<1>1. /\ UNCHANGED <<restore, dirs, made, done, incidents>> /\ backup \in Taking
      /\ backup.at = "indexWrite" /\ (backup' # Saved!Off => backup'.id = backup.id)
      /\ catalogue' = {e \in backup.seen : e.id # backup.id} \cup {[id |-> backup.id, status |-> status]}
      /\ IF backup.failed THEN backup' = Saved!Off ELSE backup' # Saved!Off /\ backup'.at = "pruneRead"
  BY WritesIndex DEF Entering
<1>2. backup # Saved!Off
  BY <1>1, Distinct
<1>3. ~Together /\ Listed /\ Counted
  BY <1>1 DEF Catalogued
<1>4. restore = Saved!Off /\ restore.at = "off" /\ backup.id = made /\ backup.seen = catalogue
  BY <1>1, <1>2, <1>3, Nothing DEF Together, Listed
<1>5. /\ \A e \in catalogue : Filed(e) /\ e.id # made
      /\ made \in DOMAIN dirs /\ dirs[made].manifest = status
  BY <1>1, <1>3 DEF Listed
<1>6. catalogue' = catalogue \cup {entry}
  BY <1>1, <1>4, <1>5
<1>7. entry.id = made /\ entry.status = status
  OBVIOUS
<1>8. backup'.at \in {"off", "pruneRead"} /\ (backup'.at = "pruneRead" => entry = Ready(made))
  BY <1>1, Nothing DEF Ready
<1>9. (~Together)'
  BY <1>1, <1>4 DEF Together
<1> HIDE DEF status
<1>10. Listed'
  <2> HIDE DEF entry
  <2>1. backup' # Saved!Off => backup'.id = made
    BY <1>1, <1>4
  <2>2. (\A b \in DOMAIN dirs : b <= made) /\ \A e \in catalogue' : e.id <= made
    BY <1>3, <1>6, <1>7, Numbers DEF Listed
  <2>3. \A e, f \in catalogue' : e.id = f.id => e = f
    BY <1>3, <1>5, <1>6, <1>7 DEF Listed
  <2>4. \A e \in catalogue' : Filed(e)
    BY <1>5, <1>6, <1>7 DEF Filed
  <2>5. \A b \in DOMAIN dirs : \E e \in catalogue' : e.id = b
    BY <1>3, <1>6, <1>7 DEF Listed
  <2> QED
    BY <1>1, <1>4, <1>6, <1>8, <2>1, <2>2, <2>3, <2>4, <2>5 DEF Listed, Filed
<1>11. Counted'
  <2>1. IsFiniteSet(catalogue')
    <3> HIDE DEF entry
    <3> QED
      BY <1>3, <1>6, FS_AddElement DEF Counted
  <2>2. backup.failed => {e \in catalogue' : e.status = "ready"} = {e \in catalogue : e.status = "ready"}
    BY <1>6, <1>7 DEF status
  <2>3. backup'.at # "pruneRead" => backup.failed
    BY <1>1
  <2> HIDE DEF entry
  <2> QED
    BY <1>1, <1>3, <1>6, <1>8, <2>1, <2>2, <2>3 DEF Counted
<1> QED
  BY <1>9, <1>10, <1>11

LEMMA ReadPruneCatalogued ==
  ASSUME ProjectTypes, Catalogued, Saved!PruneRead
  PROVE  Catalogued'
<1> SUFFICES ASSUME incidents' \cap {"overlap", "cut"} = {} PROVE (~Together /\ Listed /\ Counted)'
  BY DEF Catalogued
<1>1. /\ UNCHANGED <<restore, dirs, catalogue, made, incidents>> /\ backup \in Taking
      /\ backup.at = "pruneRead" /\ (backup' # Saved!Off => backup'.id = backup.id)
      /\ \/ /\ Saved!Retained(catalogue) = catalogue /\ backup' = Saved!Off
            /\ done' = done \cup {backup.id}
         \/ backup' # Saved!Off /\ backup'.at = "prune" /\ backup'.seen = catalogue /\ UNCHANGED done
  BY ReadsPrune DEF Entering
<1>2. backup # Saved!Off
  BY <1>1, Distinct
<1>3. ~Together /\ Listed /\ Counted
  BY <1>1 DEF Catalogued
<1>4. restore = Saved!Off /\ restore.at = "off" /\ backup.id = made
  BY <1>2, <1>3, Nothing DEF Together, Listed
<1>5. (~Together)'
  BY <1>1, <1>4 DEF Together
<1>6. Saved!Retained(catalogue) \subseteq catalogue /\ \A e \in catalogue : Filed(e)
  BY <1>1, <1>3 DEF Saved!Retained, Listed
<1>7. Ready(made) \in catalogue
  BY <1>1, <1>3 DEF Listed
<1>8. CASE /\ Saved!Retained(catalogue) = catalogue /\ backup' = Saved!Off
           /\ done' = done \cup {backup.id}
  <2>1. backup'.at = "off"
    BY <1>8, Nothing
  <2>2. Listed'
    BY <1>1, <1>3, <1>4, <1>6, <1>8, <2>1 DEF Listed, Filed
  <2>3. Cardinality({e \in catalogue : e.status = "ready"}) <= Retention
    <3> DEFINE ready == {e \in catalogue : e.status = "ready"}
    <3>1. ready \in SUBSET catalogue
      OBVIOUS
    <3>2. IsFiniteSet(catalogue) /\ \A e, f \in catalogue : e.id = f.id => e = f
      BY <1>3 DEF Listed, Counted
    <3>3. catalogue \in SUBSET Entries
      BY DEF ProjectTypes, FileTypes
    <3>4. Cardinality(catalogue) <= Retention
      BY <1>8, <3>2, <3>3, RetainedFew
    <3> HIDE DEF ready
    <3>5. Cardinality(ready) <= Cardinality(catalogue) /\ IsFiniteSet(ready)
      BY <3>1, <3>2, FS_Subset
    <3>6. Cardinality(ready) \in Nat /\ Cardinality(catalogue) \in Nat /\ Retention \in Nat
      BY <3>2, <3>5, FS_CardinalityType, StorageAssumption
    <3>7. Cardinality(ready) <= Retention
      BY <3>4, <3>5, <3>6
    <3> QED
      BY <3>7 DEF ready
  <2>4. \A b \in done' : b <= made
    BY <1>3, <1>4, <1>8, Numbers DEF Counted
  <2>5. \E b \in done' : Ready(b) \in catalogue /\ \A d \in done' : d <= b
    BY <1>4, <1>7, <1>8, <2>4
  <2>6. Counted'
    BY <1>1, <1>3, <2>3, <2>4, <2>5 DEF Counted, Ready
  <2> QED
    BY <1>5, <2>2, <2>6
<1>9. CASE backup' # Saved!Off /\ backup'.at = "prune" /\ backup'.seen = catalogue /\ UNCHANGED done
  BY <1>1, <1>3, <1>4, <1>6, <1>7, <1>9, <1>5 DEF Listed, Filed, Ready, Counted
<1> QED
  BY <1>1, <1>8, <1>9

LEMMA PruneDirCatalogued ==
  ASSUME ProjectTypes, Catalogued, Saved!PruneDir
  PROVE  Catalogued'
<1> SUFFICES ASSUME incidents' \cap {"overlap", "cut"} = {} PROVE (~Together /\ Listed /\ Counted)'
  BY DEF Catalogued
<1>1. UNCHANGED <<backup, restore, catalogue, made, done, incidents>> /\ backup \in Taking /\ backup.at = "prune"
  BY PrunesDir DEF Entering
<1>2. PICK e \in backup.seen \ Saved!Retained(backup.seen) :
        /\ DOMAIN dirs' = DOMAIN dirs \ {e.id}
        /\ \A b \in DOMAIN dirs' : dirs'[b] = dirs[b]
  BY PrunesDir
<1>3. ~Together /\ Listed /\ Counted
  BY <1>1 DEF Catalogued
<1>4. (~Together)'
  BY <1>1, <1>3 DEF Together
<1>5. backup.seen = catalogue /\ \A f \in Saved!Retained(catalogue) : Filed(f) /\ f \in catalogue
  BY <1>1, <1>3 DEF Listed, Saved!Retained
<1>6. \A f \in Saved!Retained(catalogue) : Filed(f)'
  <2> TAKE f \in Saved!Retained(catalogue)
  <2>1. f # e /\ f \in catalogue /\ e \in catalogue
    BY <1>2, <1>5
  <2>2. f.id # e.id
    BY <1>3, <2>1 DEF Listed
  <2> QED
    BY <1>2, <1>5, <2>2 DEF Filed
<1>7. Listed'
  BY <1>1, <1>2, <1>3, <1>5, <1>6 DEF Listed
<1>8. Counted'
  BY <1>1, <1>3 DEF Counted
<1> QED
  BY <1>4, <1>7, <1>8

LEMMA WritePruneCatalogued ==
  ASSUME ProjectTypes, Catalogued, Saved!PruneWrite
  PROVE  Catalogued'
<1> SUFFICES ASSUME incidents' \cap {"overlap", "cut"} = {} PROVE (~Together /\ Listed /\ Counted)'
  BY DEF Catalogued
<1> DEFINE kept == Saved!Retained(catalogue)
<1>1. /\ UNCHANGED <<restore, dirs, made, incidents>> /\ backup \in Taking
      /\ backup' = Saved!Off /\ backup.at = "prune"
      /\ \A e \in backup.seen \ Saved!Retained(backup.seen) : e.id \notin DOMAIN dirs
      /\ catalogue' = Saved!Retained(backup.seen) /\ done' = done \cup {backup.id}
  BY WritesPrune DEF Entering
<1>2. backup # Saved!Off
  BY <1>1, Distinct
<1>3. ~Together /\ Listed /\ Counted
  BY <1>1 DEF Catalogued
<1>4. restore = Saved!Off /\ restore.at = "off" /\ backup.id = made /\ backup.seen = catalogue
  BY <1>1, <1>2, <1>3, Nothing DEF Together, Listed
<1>5. (~Together)' /\ backup'.at = "off"
  BY <1>1, Nothing DEF Together
<1>6. kept \in SUBSET catalogue /\ \A e \in kept : Filed(e)
  BY <1>1, <1>3 DEF Saved!Retained, Listed
<1>7. Ready(made) \in kept
  <2>1. Ready(made) \in catalogue /\ \A f \in catalogue : f.id <= made /\ f.id \in Nat
    BY <1>1, <1>3, Numbers DEF Listed
  <2> DEFINE Above == {f \in catalogue : f.id > Ready(made).id}
  <2>2. Above = {}
    BY <2>1, Numbers DEF Ready
  <2>3. Saved!Cardinality(Above) = 0
    BY <2>2, CountSaved, FS_EmptySet
  <2>4. 0 < Retention
    BY StorageAssumption
  <2>5. Saved!Cardinality(Above) < Retention
    BY <2>3, <2>4
  <2> QED
    BY <2>1, <2>5, Zenon DEF Saved!Retained
<1>8. catalogue' = kept
  BY <1>1, <1>4
<1>9. IsFiniteSet(kept) /\ Cardinality({e \in kept : e.status = "ready"}) <= Retention
  <2> DEFINE ready == {e \in kept : e.status = "ready"}
  <2>1. ready \in SUBSET kept
    OBVIOUS
  <2>2. IsFiniteSet(catalogue) /\ \A e, f \in catalogue : e.id = f.id => e = f
    BY <1>3 DEF Listed, Counted
  <2>3. catalogue \in SUBSET Entries
    BY DEF ProjectTypes, FileTypes
  <2>4. IsFiniteSet(kept) /\ Cardinality(kept) <= Retention
    BY <2>2, <2>3, RetainedFew
  <2> HIDE DEF ready, kept
  <2>5. Cardinality(ready) <= Cardinality(kept) /\ IsFiniteSet(ready)
    BY <2>1, <2>4, FS_Subset
  <2>6. Cardinality(ready) \in Nat /\ Cardinality(kept) \in Nat /\ Retention \in Nat
    BY <2>4, <2>5, FS_CardinalityType, StorageAssumption
  <2>7. Cardinality(ready) <= Retention
    BY <2>4, <2>5, <2>6
  <2> QED
    BY <2>4, <2>7 DEF ready
<1>10. \A b \in DOMAIN dirs : \E e \in kept : e.id = b
  BY <1>1, <1>3, <1>4 DEF Listed
<1> HIDE DEF kept
<1>11. \A e, f \in kept : e.id = f.id => e = f
  BY <1>3, <1>6 DEF Listed
<1>12. \A e \in kept : e.id <= made
  BY <1>3, <1>6 DEF Listed
<1>13. Listed'
  BY <1>1, <1>3, <1>4, <1>5, <1>6, <1>8, <1>10, <1>11, <1>12 DEF Listed, Filed
<1>14. Counted'
  <2>1. \A b \in done' : b <= made
    BY <1>1, <1>3, <1>4, Numbers DEF Counted
  <2>2. \E b \in done' : Ready(b) \in kept /\ \A d \in done' : d <= b
    BY <1>1, <1>4, <1>7, <2>1
  <2> QED
    BY <1>1, <1>5, <1>8, <1>9, <2>1, <2>2 DEF Counted, Ready
<1> QED
  BY <1>5, <1>13, <1>14

LEMMA CataloguedStep ==
  ASSUME ProjectTypes, Catalogued, Saved!Next
  PROVE  Catalogued'
<1>1. ASSUME NEW r \in Writers, Moves(r) PROVE Catalogued'
  BY <1>1, BooksStay DEF Moves
<1>2. ASSUME Reading PROVE Catalogued'
  BY <1>2, BooksStay DEF Reading
<1>3. ASSUME Restoring PROVE Catalogued'
  BY <1>3, Distinct, BooksStay DEF Restoring, SameBooks
<1>4. ASSUME "cut" \in incidents' PROVE Catalogued'
  BY <1>4 DEF Catalogued
<1>5. ASSUME NEW r \in Writers,
             \/ Saved!Begin(r) \/ Saved!Get(r) \/ Saved!Set(r) \/ Saved!List(r)
             \/ Saved!Message(r) \/ Saved!IndexRow(r)
      PROVE  Catalogued'
  BY <1>1, <1>5, Starts, Gets, Sets, Lists, Messages, Indexes, Zenon
<1>6. ASSUME \/ Saved!Scan \/ Saved!ReadRecord \/ Saved!ReadProject \/ Saved!ReadMessages \/ Saved!CopySqlite
             \/ \E u \in Members : Saved!ReadList(u)
      PROVE  Catalogued'
  BY <1>2, <1>6, Scans, ReadsList, ReadsRecord, ReadsProject, ReadsMessages, Copies, Zenon
<1>7. ASSUME \/ Saved!RestoreRedis \/ Saved!ClearSqlite \/ Saved!RestoreSqlite \/ Saved!NewChannel
             \/ Saved!Resend \/ Saved!Reread \/ Saved!Repoint
      PROVE  Catalogued'
  BY <1>3, <1>7, RestoresRedis, ClearsSqlite, RestoresSqlite, MakesChannel, Resends, ReadsAgain, Repoints, Zenon
<1>8. CASE Saved!Restore
  BY <1>8, Restores, BooksStay, Distinct, Nothing
<1>9. CASE Saved!RestoredManifest
  BY <1>9, EntersRestored, Distinct, BooksStay DEF Closing, SameBooks
<1>10. CASE Saved!RestoredRead
  BY <1>10, ReadsRestored, Distinct DEF Closing, Catalogued, Together, Listed, Filed, Counted
<1>11. CASE Saved!RestoredWrite
  <2>1. /\ UNCHANGED <<backup, dirs, made, done, incidents>> /\ restore.at = "indexWrite"
        /\ restore' = Saved!Off /\ restore'.at = "off" /\ catalogue' = restore.seen
    BY <1>11, WritesRestored, Nothing DEF Closing
  <2> SUFFICES ASSUME incidents' \cap {"overlap", "cut"} = {} PROVE (~Together /\ Listed /\ Counted)'
    BY DEF Catalogued
  <2>2. ~Together /\ Listed /\ Counted
    BY <2>1 DEF Catalogued
  <2>3. UNCHANGED catalogue
    BY <2>1, <2>2 DEF Listed
  <2>4. (~Together)'
    BY <2>1 DEF Together
  <2>5. Listed'
    BY <2>1, <2>2, <2>3 DEF Listed, Filed
  <2>6. Counted'
    BY <2>1, <2>2, <2>3 DEF Counted
  <2> QED
    BY <2>4, <2>5, <2>6
<1>12. CASE Saved!WriteFiles
  BY <1>12, WritesFiles, WritingCatalogued
<1>13. CASE Saved!Fail
  BY <1>13, FailsWhole, WritingCatalogued
<1>14. ASSUME Saved!Crash \/ Saved!SkipManifest \/ \E r \in Writers : Saved!FailRequest(r) PROVE Catalogued'
  BY <1>4, <1>14, CutShort, Zenon
<1> QED
  BY <1>5, <1>6, <1>7, <1>8, <1>9, <1>10, <1>11, <1>12, <1>13, <1>14, CreateCatalogued, ReadIndexCatalogued,
     WriteIndexCatalogued, ReadPruneCatalogued, PruneDirCatalogued, WritePruneCatalogued, Zenon DEF Saved!Next

-----------------------------------------------------------------------------
(* Backup: requests, backups and restorations apart.                        *)

\* While nothing has disturbed anything, a request finds no restoration.
LEMMA MovesCalm ==
  ASSUME ProjectTypes, Poised, NEW r \in Writers, Moves(r), Calm'
  PROVE  /\ Calm /\ Settled /\ restore = Saved!Off /\ restore' = Saved!Off /\ restore.at = "off"
         /\ ~Redone /\ ~Redone' /\ ~Steady'
         /\ "newer" \notin incidents' => "newer" \notin incidents
  BY Nothing DEF Calm, Moves, Poised, Redone

LEMMA MovesPoised ==
  ASSUME ProjectTypes, Poised, NEW r \in Writers, Moves(r),
         Calm' => /\ record'.channel = record.channel
                  /\ Working(r)' => /\ job'[r].base.channel = record.channel
                                    /\ \A q \in Writers : q # r /\ Working(q) => job[q].who # job'[r].who
  PROVE  Poised'
<1> SUFFICES ASSUME Calm' PROVE Settled'
  BY DEF Poised
<1>1. Settled /\ restore' = Saved!Off /\ restore'.at = "off" /\ ~Redone' /\ ~Steady'
  BY MovesCalm, Nothing
<1>2. UNCHANGED <<dirs, channels>> /\ \A q \in Writers : q # r => job'[q] = job[q]
  BY DEF Moves, Beside
<1>3. \A q \in Writers : q # r => (Working(q)' <=> Working(q))
  BY <1>2 DEF Working
<1>4. (\A p, q \in Writers : Working(p) /\ Working(q) /\ job[p].who = job[q].who => p = q)'
  BY <1>1, <1>2, <1>3 DEF Settled
<1>5. (\A q \in Writers : Working(q) => job[q].base.channel = record.channel)'
  BY <1>1, <1>2, <1>3 DEF Settled
<1>6. (\A b \in DOMAIN dirs : Whole(dirs[b]) => dirs[b].record.channel <= channels)'
  BY <1>1, <1>2 DEF Settled, Whole
<1>7. (record.channel <= channels)'
  BY <1>1, <1>2 DEF Settled
<1> QED
  BY <1>1, <1>4, <1>5, <1>6, <1>7 DEF Settled

LEMMA RequestPoised ==
  ASSUME ProjectTypes, Poised, NEW r \in Writers,
         \/ Saved!Begin(r) \/ Saved!Get(r) \/ Saved!Set(r) \/ Saved!List(r)
         \/ Saved!Message(r) \/ Saved!IndexRow(r)
  PROVE  Poised'
<1>0. ASSUME Moves(r), UNCHANGED record, job'[r].who = job[r].who, Working(r),
             Calm' => job'[r].base.channel = record.channel
      PROVE  Poised'
  BY <1>0, MovesCalm, MovesPoised DEF Settled
<1>1. CASE Saved!Begin(r)
  BY <1>1, Starts, MovesPoised
<1>2. CASE Saved!Get(r)
  BY <1>2, Gets, Nothing, <1>0 DEF Working
<1>3. CASE Saved!Set(r)
  <2>1. Working(r) /\ Moves(r) /\ job'[r].base = job[r].base /\ job'[r].who = job[r].who
        /\ record'.channel = job[r].base.channel
    BY <1>3, Sets, Nothing DEF Working
  <2>2. Calm' => /\ job[r].base.channel = record.channel
                 /\ \A q \in Writers : q # r /\ Working(q) => job[q].who # job'[r].who
    BY <2>1, MovesCalm DEF Settled
  <2> QED
    BY <2>1, <2>2, MovesPoised
<1>4. CASE Saved!List(r)
  BY <1>4, Lists, MovesPoised
<1>5. CASE Saved!Message(r)
  BY <1>5, Messages, Nothing, MovesCalm, <1>0 DEF Working, Settled
<1>6. CASE Saved!IndexRow(r)
  BY <1>6, Indexes, MovesPoised
<1> QED
  BY <1>1, <1>2, <1>3, <1>4, <1>5, <1>6

LEMMA ReadingPoised ==
  ASSUME ProjectTypes, Poised, Reading,
         backup'.redis = "done" => \/ backup'.record = record
                                   \/ backup.redis = "done" /\ backup'.record = backup.record
  PROVE  Poised'
  BY DEF Reading, Rests, SameBooks, Steady, Poised, Settled, Calm, Working, Redone

LEMMA CreatePoised ==
  ASSUME ProjectTypes, Poised, Saved!Create
  PROVE  Poised'
<1>1. /\ UNCHANGED <<record, job, channels, dirs, restore>> /\ incidents \subseteq incidents'
      /\ backup'.torn = ((\E q \in Writers : Working(q)) \/ restore # Saved!Off)
      /\ backup'.redis = "scan"
  BY Creates DEF Rests
<1>2. Steady' => (\A q \in Writers : ~Working(q)) /\ restore = Saved!Off
  BY <1>1 DEF Steady
<1>3. (\A q \in Writers : Working(q)' <=> Working(q)) /\ (Redone' <=> Redone) /\ (Calm' => Calm)
  BY <1>1 DEF Working, Redone, Calm
<1> QED
  BY <1>1, <1>2, <1>3 DEF Poised, Settled

\* The directories are as they were, or a backup in which nothing was written is among them.
LEMMA WritingPoised ==
  ASSUME ProjectTypes, Poised, Writing, UNCHANGED incidents, NEW dir, Files(dir),
         Whole(dir) => ~backup.torn /\ backup.redis = "done" /\ dir.record = backup.record
  PROVE  Poised'
<1> SUFFICES ASSUME Calm' PROVE Settled'
  BY DEF Poised
<1>1. /\ UNCHANGED <<record, job, channels, restore>> /\ backup.at = "parts" /\ backup'.at = "indexRead"
  BY DEF Writing, Rests
<1>2. ~Steady' /\ Settled
  BY <1>1 DEF Steady, Poised, Calm
<1>3. (\A q \in Writers : Working(q)' <=> Working(q)) /\ (Redone' <=> Redone)
  BY <1>1 DEF Working, Redone
<1>4. Whole(dir) => dir.record.channel <= channels
  BY <1>1, <1>2 DEF Settled, Steady
<1>5. \A b \in DOMAIN dirs' : Whole(dirs'[b]) => dirs'[b].record.channel <= channels
  <2> TAKE b \in DOMAIN dirs'
  <2>1. CASE b = backup.id
    BY <1>4, <2>1 DEF Files
  <2>2. CASE b # backup.id
    BY <1>2, <2>2 DEF Files, Settled
  <2> QED
    BY <2>1, <2>2
<1>6. (\A b \in DOMAIN dirs : Whole(dirs[b]) => dirs[b].record.channel <= channels)'
  BY <1>1, <1>5 DEF Whole
<1> QED
  BY <1>1, <1>2, <1>3, <1>6 DEF Settled

LEMMA EnteringPoised ==
  ASSUME ProjectTypes, Poised, Entering,
         DOMAIN dirs' \subseteq DOMAIN dirs, \A b \in DOMAIN dirs' : dirs'[b] = dirs[b]
  PROVE  Poised'
<1> SUFFICES ASSUME Calm' PROVE Settled'
  BY DEF Poised
<1>1. UNCHANGED <<record, job, channels, restore, incidents>> /\ backup'.at # "parts"
  BY DEF Entering, Rests
<1>2. ~Steady' /\ Settled
  BY <1>1 DEF Steady, Poised, Calm
<1>3. (\A q \in Writers : Working(q)' <=> Working(q)) /\ (Redone' <=> Redone)
  BY <1>1 DEF Working, Redone
<1>4. (\A b \in DOMAIN dirs : Whole(dirs[b]) => dirs[b].record.channel <= channels)'
  BY <1>1, <1>2 DEF Settled, Whole
<1> QED
  BY <1>1, <1>2, <1>3, <1>4 DEF Settled

LEMMA RestorePoised ==
  ASSUME ProjectTypes, Poised, Saved!Restore
  PROVE  Poised'
<1> SUFFICES ASSUME Calm' PROVE Settled'
  BY DEF Poised
<1>1. /\ UNCHANGED <<record, job, channels, dirs>> /\ incidents \subseteq incidents' /\ ~Steady'
      /\ restore'.at = "redis" /\ ((\E q \in Writers : Working(q)) => "busy" \in incidents')
      /\ \E b \in DOMAIN dirs : /\ restore'.dir = dirs[b] /\ dirs[b].manifest = "ready"
                                /\ dirs[b].torn => "torn" \in incidents'
  BY Restores DEF Rests, SameBooks
<1>2. Settled /\ "busy" \notin incidents' /\ "torn" \notin incidents'
  BY <1>1 DEF Poised, Calm
<1>3. \A q \in Writers : ~Working(q)'
  BY <1>1, <1>2 DEF Working
<1>4. (Redone => Whole(restore.dir) /\ restore.dir.record.channel <= channels)'
  BY <1>1, <1>2 DEF Whole, Settled
<1> QED
  BY <1>1, <1>2, <1>3, <1>4 DEF Settled

LEMMA RestoringPoised ==
  ASSUME ProjectTypes, Poised, Restoring,
         Calm' /\ Settled =>
           /\ Redone' => Redone /\ restore'.dir = restore.dir
           /\ channels <= channels' /\ record'.channel <= channels'
           /\ restore'.at \in {"send", "point"} => restore'.channel = channels'
           /\ restore'.at = "point" => restore'.base = record'
  PROVE  Poised'
<1> SUFFICES ASSUME Calm' PROVE Settled'
  BY DEF Poised
<1>1. /\ UNCHANGED <<job, backup, dirs>> /\ incidents \subseteq incidents' /\ restore # Saved!Off
  BY Distinct DEF Restoring
<1>2. Settled
  BY <1>1 DEF Poised, Calm
<1>3. (\A q \in Writers : ~Working(q)') /\ ~Steady'
  BY <1>1, <1>2 DEF Settled, Steady, Working
<1>4. channels \in Nat /\ channels' \in Nat
  BY StorageAssumption DEF Restoring, ProjectTypes, GhostTypes, Saved!Channels
<1>5. (\A b \in DOMAIN dirs : dirs[b].record.channel \in Nat) /\ restore.dir.record.channel \in Nat
  BY StorageAssumption DEF Restoring, ProjectTypes, FileTypes, Putting, Folder, Kept, Saved!Channels
<1>6. (\A b \in DOMAIN dirs : Whole(dirs[b]) => dirs[b].record.channel <= channels)'
  BY <1>1, <1>2, <1>4, <1>5 DEF Settled, Whole
<1>7. (Redone => Whole(restore.dir) /\ restore.dir.record.channel <= channels)'
  BY <1>2, <1>4, <1>5 DEF Settled, Whole
<1> QED
  BY <1>2, <1>3, <1>6, <1>7 DEF Settled

LEMMA RestorationPoised ==
  ASSUME ProjectTypes, Poised,
         \/ Saved!RestoreRedis \/ Saved!ClearSqlite \/ Saved!RestoreSqlite \/ Saved!NewChannel
         \/ Saved!Resend \/ Saved!Reread \/ Saved!Repoint
  PROVE  Poised'
<1>1. channels \in Nat
  BY StorageAssumption DEF ProjectTypes, GhostTypes, Saved!Channels
<1>2. CASE Saved!RestoreRedis
  BY <1>1, <1>2, RestoresRedis, RestoringPoised DEF Redone, Settled
<1>3. CASE Saved!ClearSqlite
  BY <1>1, <1>3, ClearsSqlite, RestoringPoised DEF Redone, Settled
<1>4. CASE Saved!RestoreSqlite
  BY <1>1, <1>4, RestoresSqlite, RestoringPoised DEF Redone, Settled
<1>5. CASE Saved!NewChannel
  BY StorageAssumption, <1>1, <1>5, MakesChannel, RestoringPoised DEF ProjectTypes, StoreTypes,
     Kept, Saved!Channels, Settled, Redone
<1>6. CASE Saved!Resend
  BY <1>1, <1>6, Resends, RestoringPoised DEF Redone, Settled
<1>7. CASE Saved!Reread
  BY <1>1, <1>7, ReadsAgain, RestoringPoised DEF Redone, Settled
<1>8. CASE Saved!Repoint
  BY <1>1, <1>8, Repoints, RestoringPoised DEF Redone, Settled
<1> QED
  BY <1>2, <1>3, <1>4, <1>5, <1>6, <1>7, <1>8

LEMMA ClosingPoised ==
  ASSUME ProjectTypes, Poised, Closing
  PROVE  Poised'
  BY Distinct DEF Closing, Rests, Poised, Settled, Calm, Working, Redone, Steady, Whole

LEMMA PoisedStep ==
  ASSUME ProjectTypes, Poised, Saved!Next
  PROVE  Poised'
<1>1. ASSUME NEW r \in Writers,
             \/ Saved!Begin(r) \/ Saved!Get(r) \/ Saved!Set(r) \/ Saved!List(r)
             \/ Saved!Message(r) \/ Saved!IndexRow(r)
      PROVE  Poised'
  BY <1>1, RequestPoised
<1>2. CASE Saved!Scan
  BY <1>2, Scans, ReadingPoised
<1>3. ASSUME NEW u \in Members, Saved!ReadList(u) PROVE Poised'
  BY <1>3, ReadsList, ReadingPoised
<1>4. CASE Saved!ReadRecord
  BY <1>4, ReadsRecord, ReadingPoised
<1>5. CASE Saved!ReadProject
  BY <1>5, ReadsProject, ReadingPoised DEF SameLists
<1>6. CASE Saved!ReadMessages
  BY <1>6, ReadsMessages, ReadingPoised DEF SameLists
<1>7. CASE Saved!CopySqlite
  BY <1>7, Copies, ReadingPoised DEF SameLists
<1>8. CASE Saved!WriteFiles
  BY <1>8, WritesFiles, WritingPoised DEF Whole
<1>9. CASE Saved!Fail
  BY <1>9, FailsWhole, WritingPoised DEF Whole
<1>10. CASE Saved!IndexRead
  BY <1>10, ReadsIndex, EnteringPoised
<1>11. CASE Saved!IndexWrite
  BY <1>11, WritesIndex, EnteringPoised
<1>12. CASE Saved!PruneRead
  BY <1>12, ReadsPrune, EnteringPoised
<1>13. CASE Saved!PruneDir
  BY <1>13, PrunesDir, EnteringPoised
<1>14. CASE Saved!PruneWrite
  BY <1>14, WritesPrune, EnteringPoised
<1>15. CASE \/ Saved!RestoreRedis \/ Saved!ClearSqlite \/ Saved!RestoreSqlite \/ Saved!NewChannel
            \/ Saved!Resend \/ Saved!Reread \/ Saved!Repoint
  BY <1>15, RestorationPoised
<1>16. CASE Saved!RestoredManifest \/ Saved!RestoredRead \/ Saved!RestoredWrite
  BY <1>16, EntersRestored, ReadsRestored, WritesRestored, ClosingPoised
<1>17. ASSUME Saved!Crash \/ Saved!SkipManifest \/ \E r \in Writers : Saved!FailRequest(r) PROVE Poised'
  BY <1>17, CutShort DEF Poised, Calm
<1> QED
  BY <1>1, <1>2, <1>3, <1>4, <1>5, <1>6, <1>7, <1>8, <1>9, <1>10, <1>11, <1>12, <1>13, <1>14, <1>15, <1>16, <1>17,
     CreatePoised, RestorePoised, Zenon DEF Saved!Next

-----------------------------------------------------------------------------
(* Backup: the lists of the members.                                        *)

\* When a request has written, the lists are still as they are to be.
LEMMA MovesMembered ==
  ASSUME ProjectTypes, Poised, MembersKept, NEW r \in Writers, Moves(r),
         Calm' /\ Membered => /\ \A u \in Members : ~Listing(u)' => (u \in listed' <=> u \in record'.members)
                              /\ \A q \in Writers : (Working(q) /\ job[q].at = "list")' =>
                                   (job'[q].op = "enrol" <=> job'[q].who \in record'.members)
  PROVE  MembersKept'
<1> SUFFICES ASSUME Calm', "newer" \notin incidents' PROVE Membered'
  BY DEF MembersKept
<1>1. Membered /\ restore' = Saved!Off /\ restore'.at = "off" /\ ~Steady' /\ UNCHANGED dirs
  BY MovesCalm, Nothing DEF Moves, MembersKept
<1>2. (\A b \in DOMAIN dirs : Whole(dirs[b]) => dirs[b].lists = dirs[b].record.members)'
  BY <1>1 DEF Membered, Whole
<1> QED
  BY <1>1, <1>2 DEF Membered

\* A request that neither writes a list nor is about to.
LEMMA MovesElsewhere ==
  ASSUME ProjectTypes, Poised, MembersKept, NEW r \in Writers, Moves(r), UNCHANGED <<record, listed>>,
         ~(Working(r) /\ job[r].at = "list"), ~(Working(r) /\ job[r].at = "list")'
  PROVE  MembersKept'
  BY MovesMembered DEF Moves, Beside, Working, Listing, Membered

LEMMA RequestMembered ==
  ASSUME ProjectTypes, Poised, MembersKept, NEW r \in Writers,
         \/ Saved!Begin(r) \/ Saved!Get(r) \/ Saved!Set(r) \/ Saved!List(r)
         \/ Saved!Message(r) \/ Saved!IndexRow(r)
  PROVE  MembersKept'
<1>1. CASE Saved!Begin(r)
  BY <1>1, Starts, MovesElsewhere
<1>2. CASE Saved!Get(r)
  BY <1>2, Gets, MovesElsewhere
<1>3. CASE Saved!Set(r)
  <2>1. /\ Moves(r) /\ UNCHANGED listed /\ job[r] \in MemberWork /\ job[r].at = "set" /\ job'[r].at = "list"
        /\ job'[r].op = job[r].op /\ job'[r].who = job[r].who
        /\ job[r].base # record => "busy" \in incidents'
        /\ record'.members = IF job[r].op = "enrol" THEN job[r].base.members \cup {job[r].who}
                             ELSE job[r].base.members \ {job[r].who}
    BY <1>3, Sets
  <2>2. \A q \in Writers : q # r => job'[q] = job[q]
    BY <2>1 DEF Moves, Beside
  <2> SUFFICES ASSUME Calm', Membered
               PROVE  /\ \A u \in Members : ~Listing(u)' => (u \in listed' <=> u \in record'.members)
                      /\ \A q \in Writers : (Working(q) /\ job[q].at = "list")' =>
                           (job'[q].op = "enrol" <=> job'[q].who \in record'.members)
    BY <2>1, MovesMembered
  <2>3. Settled /\ job[r].base = record
    BY <2>1, MovesCalm DEF Calm
  <2>4. Working(r) /\ Working(r)'
    BY <1>3, Sets, Nothing, Distinct DEF Working, Work
  <2>5. \A u \in Members : u # job[r].who => (u \in record'.members <=> u \in record.members)
    BY <2>1, <2>3
  <2>6. job[r].op = "enrol" <=> job[r].who \in record'.members
    BY <2>1
  <2>7. ASSUME NEW u \in Members, ~Listing(u)' PROVE u \in listed' <=> u \in record'.members
    BY <2>1, <2>4, <2>7, <2>2, <2>5 DEF Listing, Working, Membered
  <2>8. ASSUME NEW q \in Writers, (Working(q) /\ job[q].at = "list")'
        PROVE  job'[q].op = "enrol" <=> job'[q].who \in record'.members
    BY <2>1, <2>6, <2>2, <2>8, <2>3, <2>4, <2>5 DEF Working, Settled, ProjectTypes, JobTypes, Work,
       MemberWork, AccountWork, Membered
  <2> QED
    BY <2>7, <2>8
<1>4. CASE Saved!List(r)
  <2>1. /\ Moves(r) /\ UNCHANGED record /\ job[r] \in MemberWork /\ job[r].at = "list" /\ ~Working(r)'
        /\ listed' = IF job[r].op = "enrol" THEN listed \cup {job[r].who} ELSE listed \ {job[r].who}
    BY <1>4, Lists
  <2>2. \A q \in Writers : q # r => job'[q] = job[q]
    BY <2>1 DEF Moves, Beside
  <2> SUFFICES ASSUME Calm', Membered
               PROVE  /\ \A u \in Members : ~Listing(u)' => (u \in listed' <=> u \in record'.members)
                      /\ \A q \in Writers : (Working(q) /\ job[q].at = "list")' =>
                           (job'[q].op = "enrol" <=> job'[q].who \in record'.members)
    BY <2>1, MovesMembered
  <2>3. Working(r)
    BY <2>1, Nothing DEF Working
  <2>4. job[r].op = "enrol" <=> job[r].who \in record.members
    BY <2>1, <2>3 DEF Membered
  <2>5. ASSUME NEW u \in Members, ~Listing(u)' PROVE u \in listed' <=> u \in record'.members
    BY <2>1, <2>4, <2>2, <2>5 DEF Listing, Working, Membered
  <2>6. ASSUME NEW q \in Writers, (Working(q) /\ job[q].at = "list")'
        PROVE  job'[q].op = "enrol" <=> job'[q].who \in record'.members
    BY <2>1, <2>2, <2>6 DEF Membered, Working
  <2> QED
    BY <2>5, <2>6
<1>5. CASE Saved!Message(r)
  BY <1>5, Messages, MovesElsewhere
<1>6. CASE Saved!IndexRow(r)
  BY <1>6, Indexes, MovesElsewhere
<1> QED
  BY <1>1, <1>2, <1>3, <1>4, <1>5, <1>6

\* What a backup reads of the lists.
Snapshot == /\ Steady /\ backup.redis = "scan" => backup.keys = {} /\ backup.lists = {}
            /\ Steady /\ backup.redis = "lists" => backup.keys \cup backup.lists = listed
            /\ Steady /\ backup.redis = "done" => backup.lists = record.members

LEMMA ReadingMembered ==
  ASSUME ProjectTypes, Poised, MembersKept, Reading,
         Membered /\ Settled /\ Steady => Snapshot'
  PROVE  MembersKept'
<1> SUFFICES ASSUME Calm', "newer" \notin incidents' PROVE Membered'
  BY DEF MembersKept
<1>1. /\ UNCHANGED <<record, listed, job, dirs, restore, incidents>>
      /\ backup.at = "parts" /\ backup'.at = "parts" /\ backup'.torn = backup.torn
  BY DEF Reading, Rests, SameBooks
<1>2. Steady' <=> Steady
  BY <1>1 DEF Steady
<1>3. Membered /\ Settled
  BY <1>1 DEF MembersKept, Poised, Calm
<1>4. /\ \A q \in Writers : Working(q)' <=> Working(q)
      /\ \A u : Listing(u)' <=> Listing(u)
  BY <1>1 DEF Working, Listing
<1> QED
  BY <1>1, <1>2, <1>3, <1>4 DEF Membered, Whole, Snapshot

\* The lists agree with the record where no request is in progress.
LEMMA ListsAgree ==
  ASSUME ProjectTypes, Membered, \A q \in Writers : ~Working(q)
  PROVE  listed = record.members
  BY DEF Membered, Listing, ProjectTypes, StoreTypes, Kept

LEMMA SnapshotMembered ==
  ASSUME ProjectTypes, Poised, MembersKept,
         \/ Saved!Scan \/ Saved!ReadRecord \/ Saved!ReadProject \/ Saved!ReadMessages \/ Saved!CopySqlite
         \/ \E u \in Members : Saved!ReadList(u)
  PROVE  MembersKept'
  BY Scans, ReadingMembered, ListsAgree, ReadsRecord, ReadsProject, ReadsMessages, Copies, ReadsList
     DEF Membered, Snapshot, Reading, Rests, Settled, SameLists, Steady

LEMMA CreateMembered ==
  ASSUME ProjectTypes, Poised, MembersKept, Saved!Create
  PROVE  MembersKept'
  BY Creates DEF Rests, Working, Listing, Calm, MembersKept, Membered

LEMMA WritingMembered ==
  ASSUME ProjectTypes, Poised, MembersKept, Writing, UNCHANGED incidents, NEW dir, Files(dir),
         Whole(dir) => /\ ~backup.torn /\ backup.redis = "done"
                       /\ dir.record = backup.record /\ dir.lists = backup.lists
  PROVE  MembersKept'
<1> SUFFICES ASSUME Calm', "newer" \notin incidents' PROVE Membered'
  BY DEF MembersKept
<1>1. /\ UNCHANGED <<record, listed, job, restore>> /\ backup.at = "parts" /\ backup'.at = "indexRead"
  BY DEF Writing, Rests
<1>2. ~Steady' /\ Settled /\ Membered
  BY <1>1 DEF Steady, Poised, MembersKept, Calm
<1>3. /\ \A q \in Writers : Working(q)' <=> Working(q)
      /\ \A u : Listing(u)' <=> Listing(u)
  BY <1>1 DEF Working, Listing
<1>4. Whole(dir) => dir.lists = dir.record.members
  BY <1>1, <1>2 DEF Membered, Settled, Steady
<1>5. \A b \in DOMAIN dirs' : Whole(dirs'[b]) => dirs'[b].lists = dirs'[b].record.members
  <2> TAKE b \in DOMAIN dirs'
  <2>1. CASE b = backup.id
    BY <1>4, <2>1 DEF Files
  <2>2. CASE b # backup.id
    BY <1>2, <2>2 DEF Files, Membered
  <2> QED
    BY <2>1, <2>2
<1>6. (\A b \in DOMAIN dirs : Whole(dirs[b]) => dirs[b].lists = dirs[b].record.members)'
  BY <1>5 DEF Whole
<1> QED
  BY <1>1, <1>2, <1>3, <1>6 DEF Membered

LEMMA EnteringMembered ==
  ASSUME ProjectTypes, MembersKept, Entering,
         DOMAIN dirs' \subseteq DOMAIN dirs, \A b \in DOMAIN dirs' : dirs'[b] = dirs[b]
  PROVE  MembersKept'
<1> SUFFICES ASSUME Calm', "newer" \notin incidents' PROVE Membered'
  BY DEF MembersKept
<1>1. UNCHANGED <<record, listed, job, restore, incidents>> /\ backup'.at # "parts"
  BY DEF Entering, Rests
<1>2. ~Steady' /\ Membered
  BY <1>1 DEF Steady, MembersKept, Calm
<1>3. /\ \A q \in Writers : Working(q)' <=> Working(q)
      /\ \A u : Listing(u)' <=> Listing(u)
  BY <1>1 DEF Working, Listing
<1>4. (\A b \in DOMAIN dirs : Whole(dirs[b]) => dirs[b].lists = dirs[b].record.members)'
  BY <1>1, <1>2 DEF Membered, Whole
<1> QED
  BY <1>1, <1>2, <1>3, <1>4 DEF Membered

LEMMA RestoreMembered ==
  ASSUME ProjectTypes, Poised, MembersKept, Saved!Restore
  PROVE  MembersKept'
<1> SUFFICES ASSUME Calm', "newer" \notin incidents' PROVE Membered'
  BY DEF MembersKept
<1>1. /\ UNCHANGED <<record, listed, job, dirs>> /\ incidents \subseteq incidents' /\ ~Steady'
      /\ \E b \in DOMAIN dirs : /\ restore'.dir = dirs[b] /\ dirs[b].manifest = "ready"
                                /\ dirs[b].torn => "torn" \in incidents'
  BY Restores DEF Rests, SameBooks
<1>2. Membered /\ "torn" \notin incidents'
  BY <1>1 DEF MembersKept, Calm
<1>3. /\ \A q \in Writers : Working(q)' <=> Working(q)
      /\ \A u : Listing(u)' <=> Listing(u)
  BY <1>1 DEF Working, Listing
<1>4. restore'.dir.lists = restore'.dir.record.members
  BY <1>1, <1>2 DEF Whole, Membered
<1> QED
  BY <1>1, <1>2, <1>3, <1>4 DEF Membered, Whole

LEMMA RestoringMembered ==
  ASSUME ProjectTypes, Poised, MembersKept, Restoring, restore'.at # "redis",
         Calm' /\ "newer" \notin incidents' /\ Membered /\ Settled => listed' = record'.members
  PROVE  MembersKept'
<1> SUFFICES ASSUME Calm', "newer" \notin incidents' PROVE Membered'
  BY DEF MembersKept
<1>1. /\ UNCHANGED <<job, backup, dirs>> /\ incidents \subseteq incidents' /\ restore # Saved!Off
  BY Distinct DEF Restoring
<1>2. Settled /\ Membered
  BY <1>1 DEF Poised, MembersKept, Calm
<1>3. (\A q \in Writers : ~Working(q)') /\ ~Steady'
  BY <1>1, <1>2 DEF Settled, Steady, Working
<1>4. (\A b \in DOMAIN dirs : Whole(dirs[b]) => dirs[b].lists = dirs[b].record.members)'
  BY <1>1, <1>2 DEF Membered, Whole
<1> QED
  BY <1>2, <1>3, <1>4 DEF Membered

LEMMA RestorationMembered ==
  ASSUME ProjectTypes, Poised, MembersKept,
         \/ Saved!RestoreRedis \/ Saved!ClearSqlite \/ Saved!RestoreSqlite \/ Saved!NewChannel
         \/ Saved!Resend \/ Saved!Reread \/ Saved!Repoint
  PROVE  MembersKept'
  BY Distinct, ListsAgree, RestoresRedis, RestoringMembered, ClearsSqlite, RestoresSqlite,
     MakesChannel, Resends, ReadsAgain, Repoints DEF Restoring, Settled, Membered

LEMMA ClosingMembered ==
  ASSUME ProjectTypes, Poised, MembersKept, Closing
  PROVE  MembersKept'
  BY DEF Closing, Rests, Working, Listing, Steady, MembersKept, Membered, Calm, Whole

LEMMA MemberedStep ==
  ASSUME ProjectTypes, Poised, MembersKept, Saved!Next
  PROVE  MembersKept'
  BY RequestMembered, SnapshotMembered, WritesFiles, WritingMembered, FailsWhole, ReadsIndex,
     WritesIndex, ReadsPrune, WritesPrune, EnteringMembered, PrunesDir, RestorationMembered,
     EntersRestored, ReadsRestored, WritesRestored, ClosingMembered, CutShort, CreateMembered,
     RestoreMembered DEF Whole, MembersKept, Calm, Saved!Next

-----------------------------------------------------------------------------
(* Backup: the index of the accounts.                                       *)

AccountsCalm == Calm /\ incidents \cap {"renumbered", "emptied"} = {}

\* When a request has written, the index is still as it is to be.
LEMMA MovesAccounted ==
  ASSUME ProjectTypes, Poised, AccountsKept, NEW r \in Writers, Moves(r),
         Calm' /\ Settled /\ restore.at = "off" /\ Accounted => (Answered /\ HalfDone /\ Lettered)'
  PROVE  AccountsKept'
<1> SUFFICES ASSUME AccountsCalm' PROVE Accounted'
  BY DEF AccountsKept, AccountsCalm
<1>1. Settled /\ restore.at = "off" /\ restore'.at = "off" /\ ~Redone' /\ ~Steady' /\ UNCHANGED dirs
      /\ incidents \subseteq incidents' /\ Calm
  BY MovesCalm, Nothing DEF Moves, AccountsCalm
<1>2. Accounted
  BY <1>1 DEF AccountsKept, AccountsCalm
<1>3. (Answered /\ HalfDone /\ Lettered)'
  BY <1>1, <1>2 DEF AccountsCalm
<1>4. Copied' /\ Refilled'
  BY <1>1 DEF Copied, Refilled
<1>5. Foldered'
  BY <1>1, <1>2 DEF Accounted, Foldered, Whole
<1> QED
  BY <1>3, <1>4, <1>5 DEF Accounted

\* A request that neither writes an account nor is about to index one.
LEMMA MovesUnindexed ==
  ASSUME ProjectTypes, Poised, AccountsKept, NEW r \in Writers, Moves(r), UNCHANGED <<rows, sent, sqlite>>,
         Calm' => record'.channel = record.channel,
         ~(Working(r) /\ job[r].at = "index"), ~(Working(r) /\ job[r].at = "index")'
  PROVE  AccountsKept'
<1>1. \A q \in Writers : q # r => job'[q] = job[q]
  BY DEF Moves, Beside
<1>2. \A q \in Writers : (Working(q) /\ job[q].at = "index")' <=> (Working(q) /\ job[q].at = "index")
  BY <1>1 DEF Working
<1>3. \A q \in Writers : (Working(q) /\ job[q].at = "index")' => job'[q] = job[q]
  BY <1>1
<1>4. \A a : Indexing(a)' <=> Indexing(a)
  BY <1>2, <1>3 DEF Indexing
<1> SUFFICES ASSUME Calm', restore.at = "off", Accounted PROVE (Answered /\ HalfDone /\ Lettered)'
  BY MovesAccounted
<1>5. There' = There /\ UNCHANGED <<restore, channels>>
  BY DEF There, Moves
<1>6. Answered'
  BY <1>4, <1>5 DEF Accounted, Answered, Has
<1>7. HalfDone'
  BY <1>2, <1>3, <1>5 DEF Accounted, HalfDone, Has
<1>8. Lettered'
  BY <1>5 DEF Accounted, Lettered
<1> QED
  BY <1>6, <1>7, <1>8


LEMMA MessageAccounted ==
  ASSUME ProjectTypes, Poised, AccountsKept, NEW r \in Writers, Saved!Message(r)
  PROVE  AccountsKept'
<1> DEFINE who == job[r].who
           c == record.channel
           gone == {e[2] : e \in {e \in sqlite : e[1] = who}}
<1>1. /\ Moves(r) /\ UNCHANGED <<record, sqlite>>
      /\ job[r] \in AccountWork /\ job'[r] \in AccountWork /\ job[r].at = "message" /\ job'[r].at = "index"
      /\ job'[r].op = job[r].op /\ job'[r].who = who
  BY Messages
<1>2. Working(r) /\ Working(r)' /\ who \in Accounts
  BY <1>1, Nothing, Distinct DEF Working, Work, AccountWork
<1> SUFFICES ASSUME Calm', Settled, restore.at = "off", Accounted PROVE (Answered /\ HalfDone /\ Lettered)'
  BY <1>1, MovesAccounted
<1>3. job[r].base.channel = c
  BY <1>2 DEF Settled
<1>4. /\ \A d \in Saved!Channels : d # c => rows'[d] = rows[d] /\ sent'[d] = sent[d]
      /\ job[r].op = "register" =>
           /\ rows'[c] = Saved!With(rows[c], sent[c] + 1, who) /\ sent'[c] = sent[c] + 1
           /\ job'[r].id = sent[c] + 1
      /\ job[r].op # "register" => rows'[c] = Saved!Without(rows[c], gone) /\ UNCHANGED sent
  BY <1>3, Messages
<1>5. c \in Saved!Channels /\ c <= channels /\ c \in Nat /\ channels \in Nat /\ sent[c] \in Nat /\ rows[c] \in RowSets
  BY StorageAssumption DEF Settled, ProjectTypes, StoreTypes, GhostTypes, Kept, Saved!Channels
<1>6. \A q \in Writers : q # r => job'[q] = job[q] /\ (Working(q)' <=> Working(q))
  BY <1>1 DEF Moves, Beside, Working
<1>7. \A q \in Writers : q # r /\ Working(q) => job[q].who # who
  BY <1>2 DEF Settled
<1>8. \A i \in Nat : <<who, i>> \in sqlite <=> Has(rows[c], who, i)
  BY <1>1, <1>2 DEF Indexing, Settled, Accounted, Answered, There
<1>9. \A i \in DOMAIN rows[c] : i \in Nat /\ i <= sent[c]
  BY <1>5, RowSetsHave DEF Accounted, Lettered
<1>10. UNCHANGED <<restore, channels>>
  BY <1>1 DEF Moves
<1>11. \A a : a # who => (Indexing(a)' <=> Indexing(a))
  BY <1>1, <1>6 DEF Indexing
<1>12. Indexing(who)'
  BY <1>1, <1>2 DEF Indexing
\* It is enough to look at what each account has.
<1>13. ASSUME \A a, i : a # who => (Has(rows'[c], a, i) <=> Has(rows[c], a, i)),
              IF job[r].op = "register"
              THEN /\ Has(rows'[c], who, job'[r].id)
                   /\ \A i \in Nat : <<who, i>> \in sqlite <=> Has(rows'[c], who, i) /\ i # job'[r].id
              ELSE \A i \in Nat : ~Has(rows'[c], who, i),
              \A i \in DOMAIN rows'[c] : i <= sent'[c]
       PROVE  (Answered /\ HalfDone /\ Lettered)'
  <2>1. There' = rows'[c] /\ There = rows[c]
    BY <1>1 DEF There
  <2>2. Answered'
    BY <1>1, <1>10, <1>11, <1>12, <1>13, <2>1 DEF Accounted, Answered
  <2>3. HalfDone'
    <3> SUFFICES ASSUME NEW q \in Writers, (Working(q) /\ job[q].at = "index")'
                 PROVE  (IF job[q].op = "register"
                         THEN /\ Has(There, job[q].who, job[q].id)
                              /\ \A i \in Nat : <<job[q].who, i>> \in sqlite
                                                  <=> Has(There, job[q].who, i) /\ i # job[q].id
                         ELSE \A i \in Nat : ~Has(There, job[q].who, i))'
      BY DEF HalfDone
    <3>1. CASE q = r
      BY <1>1, <1>13, <2>1, <3>1
    <3>2. CASE q # r
      <4>1. job'[q] = job[q] /\ Working(q) /\ job[q].at = "index" /\ job[q].who # who
        BY <1>6, <1>7, <3>2
      <4> QED
        BY <1>1, <1>13, <2>1, <4>1 DEF Accounted, HalfDone
    <3> QED
      BY <3>1, <3>2
  <2>4. Lettered'
    BY <1>4, <1>5, <1>10, <1>13 DEF Accounted, Lettered
  <2> QED
    BY <2>2, <2>3, <2>4
<1> HIDE DEF who, c, gone
<1>14. CASE job[r].op = "register"
  <2> DEFINE id == sent[c] + 1
             f == rows[c]
             g == Saved!With(f, id, who)
  <2>1. /\ DOMAIN g = DOMAIN f \cup {id} /\ g[id] = who
        /\ \A z \in DOMAIN f : z # id => g[z] = f[z]
    BY DEF Saved!With
  <2>2. rows'[c] = g /\ sent'[c] = id /\ job'[r].id = id
    BY <1>4, <1>14
  <2>3. id \notin DOMAIN f /\ id \in Nat
    BY <1>5, <1>9
  <2> HIDE DEF g, f, id
  <2>4. \A a, i : a # who => (Has(g, a, i) <=> Has(f, a, i))
    BY <2>1, <2>3 DEF Has
  <2>5. Has(g, who, id) /\ \A i \in Nat : Has(f, who, i) <=> Has(g, who, i) /\ i # id
    BY <2>1, <2>3 DEF Has
  <2>6. \A i \in DOMAIN g : i <= id
    BY <1>5, <1>9, <2>1 DEF f, id
  <2>7. \A i \in Nat : <<who, i>> \in sqlite <=> Has(g, who, i) /\ i # id
    BY <1>8, <2>5 DEF f
  <2> QED
    BY <1>13, <1>14, <2>2, <2>4, <2>5, <2>6, <2>7 DEF f
<1>15. CASE job[r].op # "register"
  <2> DEFINE f == rows[c]
             g == Saved!Without(f, gone)
  <2>1. DOMAIN g = DOMAIN f \ gone /\ \A z \in DOMAIN g : g[z] = f[z]
    BY Dropping
  <2>2. rows'[c] = g /\ UNCHANGED sent
    BY <1>4, <1>15
  <2>3. \A i \in Nat : i \in gone <=> <<who, i>> \in sqlite
    BY DEF gone, ProjectTypes, StoreTypes, Pairs
  <2>4. \A i \in DOMAIN f : i \in gone <=> f[i] = who
    BY <1>8, <1>9, <2>3 DEF Has
  <2> HIDE DEF g, f
  <2>5. \A a, i : a # who => (Has(g, a, i) <=> Has(f, a, i))
    BY <2>1, <2>4 DEF Has
  <2>6. \A i \in Nat : ~Has(g, who, i)
    BY <2>1, <2>4 DEF Has
  <2>7. \A i \in DOMAIN g : i <= sent[c]
    BY <1>9, <2>1 DEF f
  <2> QED
    BY <1>13, <1>15, <2>2, <2>5, <2>6, <2>7 DEF f
<1> QED
  BY <1>14, <1>15

LEMMA IndexAccounted ==
  ASSUME ProjectTypes, Poised, AccountsKept, NEW r \in Writers, Saved!IndexRow(r)
  PROVE  AccountsKept'
<1> DEFINE who == job[r].who
<1>1. /\ Moves(r) /\ UNCHANGED <<record, rows, sent>>
      /\ job[r] \in AccountWork /\ job[r].at = "index" /\ ~Working(r)'
      /\ sqlite' = IF job[r].op = "register" THEN sqlite \cup {<<who, job[r].id>>}
                   ELSE {e \in sqlite : e[1] # who}
  BY Indexes
<1>2. Working(r) /\ who \in Accounts /\ job[r].id \in Nat
  BY <1>1, Nothing DEF Working, AccountWork
<1> SUFFICES ASSUME Calm', Settled, restore.at = "off", Accounted PROVE (Answered /\ HalfDone /\ Lettered)'
  BY <1>1, MovesAccounted
<1>3. There' = There /\ UNCHANGED <<restore, channels>>
  BY <1>1 DEF There, Moves
<1>4. \A q \in Writers : q # r => job'[q] = job[q] /\ (Working(q)' <=> Working(q))
  BY <1>1 DEF Moves, Beside, Working
<1>5. \A q \in Writers : q # r /\ Working(q) => job[q].who # who
  BY <1>2 DEF Settled
<1>6. \A a : a # who => (Indexing(a)' <=> Indexing(a))
  BY <1>1, <1>4 DEF Indexing
<1>7. sqlite \subseteq Accounts \X Nat
  BY DEF ProjectTypes, StoreTypes, Pairs
<1>8. \A a, i : a # who => (<<a, i>> \in sqlite' <=> <<a, i>> \in sqlite)
  BY <1>1
<1>9. \A i \in Nat : <<who, i>> \in sqlite' <=> Has(There, who, i)
  BY <1>1, <1>2 DEF Accounted, HalfDone
<1> HIDE DEF who
<1>10. Answered'
  <2> SUFFICES ASSUME NEW a \in Accounts, ~Indexing(a)', NEW i \in Nat
               PROVE  <<a, i>> \in sqlite' <=> Has(There', a, i)
    BY DEF Answered, Has
  <2>1. CASE a = who
    BY <1>3, <1>9, <2>1
  <2>2. CASE a # who
    BY <1>3, <1>6, <1>8, <2>2 DEF Accounted, Answered
  <2> QED
    BY <2>1, <2>2
<1>11. HalfDone'
  <2> SUFFICES ASSUME NEW q \in Writers, (Working(q) /\ job[q].at = "index")'
               PROVE  (IF job[q].op = "register"
                       THEN /\ Has(There, job[q].who, job[q].id)
                            /\ \A i \in Nat : <<job[q].who, i>> \in sqlite
                                                <=> Has(There, job[q].who, i) /\ i # job[q].id
                       ELSE \A i \in Nat : ~Has(There, job[q].who, i))'
    BY DEF HalfDone
  <2>1. q # r /\ job'[q] = job[q] /\ Working(q) /\ job[q].at = "index" /\ job[q].who # who
    BY <1>1, <1>4, <1>5
  <2> QED
    BY <1>3, <1>8, <2>1 DEF Accounted, HalfDone
<1>12. Lettered'
  BY <1>1, <1>3 DEF Accounted, Lettered
<1> QED
  BY <1>10, <1>11, <1>12

LEMMA RequestAccounted ==
  ASSUME ProjectTypes, Poised, AccountsKept, NEW r \in Writers,
         \/ Saved!Begin(r) \/ Saved!Get(r) \/ Saved!Set(r) \/ Saved!List(r)
         \/ Saved!Message(r) \/ Saved!IndexRow(r)
  PROVE  AccountsKept'
  BY Starts, MovesUnindexed, Gets, Sets, Nothing, MovesCalm, Lists, MessageAccounted, IndexAccounted
     DEF Working, Settled

LEMMA ReadingAccounted ==
  ASSUME ProjectTypes, Poised, AccountsKept, Reading, Accounted /\ Settled /\ Steady => Copied'
  PROVE  AccountsKept'
<1> SUFFICES ASSUME AccountsCalm' PROVE Accounted'
  BY DEF AccountsKept, AccountsCalm
<1>1. /\ UNCHANGED <<record, rows, sent, sqlite, job, channels, dirs, restore, incidents>>
      /\ backup.at = "parts" /\ backup'.at = "parts" /\ backup'.torn = backup.torn
  BY DEF Reading, Rests, SameBooks
<1>2. Steady' <=> Steady
  BY <1>1 DEF Steady
<1>3. Accounted /\ Settled
  BY <1>1 DEF AccountsKept, AccountsCalm, Poised, Calm
<1>4. /\ \A q \in Writers : Working(q)' <=> Working(q)
      /\ \A u : Indexing(u)' <=> Indexing(u)
  BY <1>1 DEF Working, Indexing
<1>5. Copied'
  BY <1>2, <1>3 DEF Copied
<1>6. There' = There /\ Room' = Room /\ (Redone' <=> Redone)
  BY <1>1 DEF There, Room, Redone
<1>7. Answered' /\ HalfDone'
  BY <1>1, <1>3, <1>4, <1>6 DEF Accounted, Answered, HalfDone
<1>8. Foldered' /\ Lettered' /\ Refilled'
  BY <1>1, <1>3, <1>6 DEF Accounted, Foldered, Lettered, Refilled, Whole
<1> QED
  BY <1>5, <1>7, <1>8 DEF Accounted

LEMMA SnapshotAccounted ==
  ASSUME ProjectTypes, Poised, AccountsKept,
         \/ Saved!Scan \/ Saved!ReadRecord \/ Saved!ReadProject \/ Saved!ReadMessages \/ Saved!CopySqlite
         \/ \E u \in Members : Saved!ReadList(u)
  PROVE  AccountsKept'
  BY ReadingAccounted, Scans, ReadsRecord, ReadsList, ReadsProject, ReadsMessages, Copies DEF
     Accounted, Copied, Reading, Rests, There, Steady

\* The rest of the project is as it was, and the backup is not being read, or has not begun to be.
LEMMA RestsAccounted ==
  ASSUME ProjectTypes, AccountsKept, Rests, UNCHANGED restore, incidents \subseteq incidents',
         Calm' /\ Accounted => Copied' /\ Foldered'
  PROVE  AccountsKept'
<1> SUFFICES ASSUME AccountsCalm' PROVE Accounted'
  BY DEF AccountsKept, AccountsCalm
<1>1. UNCHANGED <<record, rows, sent, sqlite, job, channels, restore>>
  BY DEF Rests
<1>2. Calm' /\ Accounted
  BY DEF AccountsKept, AccountsCalm, Calm
<1>3. /\ \A q \in Writers : Working(q)' <=> Working(q)
      /\ \A u : Indexing(u)' <=> Indexing(u)
  BY <1>1 DEF Working, Indexing
<1>4. There' = There /\ Room' = Room /\ (Redone' <=> Redone)
  BY <1>1 DEF There, Room, Redone
<1>5. Answered' /\ HalfDone'
  BY <1>1, <1>2, <1>3, <1>4 DEF Accounted, Answered, HalfDone
<1>6. Lettered' /\ Refilled'
  BY <1>1, <1>2, <1>4 DEF Accounted, Lettered, Refilled
<1> QED
  BY <1>2, <1>5, <1>6 DEF Accounted

LEMMA CreateAccounted ==
  ASSUME ProjectTypes, AccountsKept, Saved!Create
  PROVE  AccountsKept'
  BY Creates, RestsAccounted DEF Copied, Accounted, Foldered, Whole

LEMMA WritingAccounted ==
  ASSUME ProjectTypes, Poised, AccountsKept, Writing, UNCHANGED incidents, NEW dir, Files(dir),
         Whole(dir) => /\ ~backup.torn /\ backup.copied /\ backup.project = "done"
                       /\ dir.rows = backup.rows /\ dir.sqlite = backup.sqlite
  PROVE  AccountsKept'
<1>1. Rests /\ UNCHANGED restore /\ backup.at = "parts" /\ backup'.at = "indexRead"
  BY DEF Writing
<1> SUFFICES ASSUME Calm', Accounted PROVE Copied' /\ Foldered'
  BY <1>1, RestsAccounted
<1>2. ~Steady' /\ Settled
  BY <1>1 DEF Steady, Poised, Calm
<1>3. Whole(dir) => Matches(dir.rows, dir.sqlite)
  <2> SUFFICES ASSUME Whole(dir) PROVE Matches(dir.rows, dir.sqlite)
    OBVIOUS
  <2>1. Steady
    BY <1>1 DEF Steady
  <2>2. restore.at = "off" /\ \A a : ~Indexing(a)
    BY <1>2, <2>1, Nothing DEF Settled, Indexing
  <2>3. dir.rows = There /\ dir.sqlite = sqlite
    BY <2>1 DEF Accounted, Copied
  <2>4. \A a \in Accounts : \A i \in Nat : <<a, i>> \in sqlite <=> Has(There, a, i)
    BY <2>2 DEF Accounted, Answered
  <2> QED
    BY <2>3, <2>4 DEF Matches
<1>4. \A b \in DOMAIN dirs' : Whole(dirs'[b]) => Matches(dirs'[b].rows, dirs'[b].sqlite)
  <2> TAKE b \in DOMAIN dirs'
  <2>1. CASE b = backup.id
    BY <1>3, <2>1 DEF Files
  <2>2. CASE b # backup.id
    BY <2>2 DEF Files, Accounted, Foldered
  <2> QED
    BY <2>1, <2>2
<1>5. Foldered'
  BY <1>4 DEF Foldered, Whole, Matches, Has
<1> QED
  BY <1>2, <1>5 DEF Copied

LEMMA EnteringAccounted ==
  ASSUME ProjectTypes, AccountsKept, Entering,
         DOMAIN dirs' \subseteq DOMAIN dirs, \A b \in DOMAIN dirs' : dirs'[b] = dirs[b]
  PROVE  AccountsKept'
  BY RestsAccounted DEF Entering, Copied, Steady, Accounted, Foldered, Whole

LEMMA RestoreAccounted ==
  ASSUME ProjectTypes, Poised, AccountsKept, Saved!Restore
  PROVE  AccountsKept'
<1> SUFFICES ASSUME AccountsCalm' PROVE Accounted'
  BY DEF AccountsKept, AccountsCalm
<1>1. /\ UNCHANGED <<record, rows, sent, sqlite, job, channels, dirs>> /\ incidents \subseteq incidents' /\ ~Steady'
      /\ restore = Saved!Off /\ restore'.at = "redis"
      /\ \E b \in DOMAIN dirs : /\ restore'.dir = dirs[b] /\ dirs[b].manifest = "ready"
                                /\ dirs[b].torn => "torn" \in incidents'
  BY Restores DEF Rests, SameBooks
<1>2. Accounted /\ "torn" \notin incidents' /\ restore.at = "off"
  BY <1>1, Nothing DEF AccountsKept, AccountsCalm, Calm
<1>3. /\ \A q \in Writers : Working(q)' <=> Working(q)
      /\ \A u : Indexing(u)' <=> Indexing(u)
      /\ There' = There
  BY <1>1 DEF Working, Indexing, There
<1>4. Matches(restore'.dir.rows, restore'.dir.sqlite)
  BY <1>1, <1>2 DEF Whole, Accounted, Foldered
<1>5. Answered' /\ HalfDone'
  BY <1>1, <1>2, <1>3 DEF Accounted, Answered, HalfDone
<1>6. Copied' /\ Foldered' /\ Lettered'
  BY <1>1, <1>2 DEF Accounted, Copied, Foldered, Lettered, Whole
<1>7. Refilled'
  BY <1>1, <1>4 DEF Refilled, Matches, Has
<1> QED
  BY <1>5, <1>6, <1>7 DEF Accounted

LEMMA ClosingAccounted ==
  ASSUME ProjectTypes, AccountsKept, Closing
  PROVE  AccountsKept'
<1> SUFFICES ASSUME AccountsCalm' PROVE Accounted'
  BY DEF AccountsKept, AccountsCalm
<1>1. /\ UNCHANGED <<record, rows, sent, sqlite, job, channels, backup, dirs, incidents>>
      /\ restore.at \in {"manifest", "indexRead", "indexWrite"}
      /\ restore'.at \in {"off", "indexRead", "indexWrite"}
  BY DEF Closing, Rests
<1>2. Accounted
  BY <1>1 DEF AccountsKept, AccountsCalm, Calm
<1>3. /\ \A q \in Writers : Working(q)' <=> Working(q)
      /\ \A u : Indexing(u)' <=> Indexing(u)
      /\ There' = There /\ (Steady' <=> Steady) /\ ~Redone'
  BY <1>1 DEF Working, Indexing, There, Steady, Redone
<1>4. Answered' /\ HalfDone'
  BY <1>1, <1>2, <1>3 DEF Accounted, Answered, HalfDone
<1>5. Copied' /\ Foldered' /\ Lettered'
  BY <1>1, <1>2, <1>3 DEF Accounted, Copied, Foldered, Lettered, Whole
<1>6. Refilled'
  BY <1>1, <1>3 DEF Refilled
<1> QED
  BY <1>4, <1>5, <1>6 DEF Accounted

LEMMA RestoringAccounted ==
  ASSUME ProjectTypes, Poised, AccountsKept, Restoring,
         AccountsCalm' /\ Accounted /\ Settled => Answered' /\ Lettered' /\ Refilled'
  PROVE  AccountsKept'
<1> SUFFICES ASSUME AccountsCalm' PROVE Accounted'
  BY DEF AccountsKept, AccountsCalm
<1>1. /\ UNCHANGED <<job, backup, dirs>> /\ incidents \subseteq incidents' /\ restore # Saved!Off
  BY Distinct DEF Restoring
<1>2. Settled /\ Accounted
  BY <1>1 DEF Poised, AccountsKept, AccountsCalm, Calm
<1>3. (\A q \in Writers : ~Working(q)') /\ ~Steady'
  BY <1>1, <1>2 DEF Settled, Steady, Working
<1>4. HalfDone' /\ Copied'
  BY <1>3 DEF HalfDone, Copied
<1>5. Foldered'
  BY <1>1, <1>2 DEF Accounted, Foldered, Whole
<1> QED
  BY <1>2, <1>4, <1>5 DEF Accounted

\* The new channel is empty, and all is still to be sent.
LEMMA ChannelAccounted ==
  ASSUME ProjectTypes, Poised, AccountsKept, Saved!NewChannel
  PROVE  AccountsKept'
<1>1. /\ Restoring /\ UNCHANGED <<record, listed, rows, sent, sqlite, incidents>>
      /\ restore.at = "channel" /\ restore'.at = "send" /\ restore'.dir = restore.dir
      /\ channels' = channels + 1 /\ restore'.channel = channels' /\ restore'.left = DOMAIN restore.dir.rows
  BY MakesChannel
<1> SUFFICES ASSUME Accounted PROVE Answered' /\ Lettered' /\ Refilled'
  BY <1>1, RestoringAccounted
<1>2. channels \in Nat /\ channels' \in Saved!Channels /\ channels' > channels /\ Saved!Channels \subseteq Nat
  BY <1>1, StorageAssumption DEF ProjectTypes, GhostTypes, Restoring, Saved!Channels
<1>3. sent[channels'] = 0
  BY <1>2 DEF Accounted, Lettered
<1>4. DOMAIN rows[channels'] = {}
  BY <1>2, <1>3, RowSetsHave DEF ProjectTypes, StoreTypes, Accounted, Lettered
<1>5. DOMAIN restore.dir.rows \subseteq Nat \ {0}
  BY <1>1, RowSetsHave DEF Restoring, Putting, Folder
<1>6. DOMAIN Room' = {}
  BY <1>1, <1>4 DEF Room
<1>7. Matches(restore.dir.rows, restore.dir.sqlite) /\ sqlite = restore.dir.sqlite
  BY <1>1 DEF Accounted, Refilled, Redone
<1>8. Answered'
  BY <1>1 DEF Answered
<1>9. Lettered'
  <2> SUFFICES ASSUME NEW c \in Saved!Channels
               PROVE  (\A i \in DOMAIN rows[c] : i <= sent[c]) /\ (c > channels' => sent[c] = 0)
    BY <1>1 DEF Lettered
  <2>1. c \in Nat /\ (c > channels' => c > channels)
    BY <1>1, <1>2
  <2> QED
    BY <2>1 DEF Accounted, Lettered
<1>10. Refilled'
  BY <1>1, <1>3, <1>5, <1>6, <1>7 DEF Refilled, Matches, Has
<1> QED
  BY <1>8, <1>9, <1>10

\* Where no id is missing, a message is sent again under the id it had.
LEMMA ResendAccounted ==
  ASSUME ProjectTypes, Poised, AccountsKept, Saved!Resend
  PROVE  AccountsKept'
<1> DEFINE c == restore.channel
           f == restore.dir.rows
           s == sent[c]
<1>1. /\ Restoring /\ UNCHANGED <<record, listed, sqlite, channels>>
      /\ restore.at = "send" /\ restore'.at = "send" /\ restore'.dir = restore.dir /\ restore'.channel = c
      /\ c \in Saved!Channels /\ sent'[c] = s + 1
      /\ \A d \in Saved!Channels : d # c => rows'[d] = rows[d] /\ sent'[d] = sent[d]
      /\ "renumbered" \in incidents' \/ \E n \in Nat : DOMAIN f = 1..n
  BY Resends
<1>2. PICK i \in restore.left :
        /\ \A j \in restore.left : i <= j
        /\ restore'.left = restore.left \ {i}
        /\ rows'[c] = Saved!With(rows[c], s + 1, f[i])
  BY Resends
<1> SUFFICES ASSUME AccountsCalm', Accounted, Settled PROVE Answered' /\ Lettered' /\ Refilled'
  BY <1>1, RestoringAccounted
<1>3. PICK n \in Nat : DOMAIN f = 1..n
  BY <1>1 DEF AccountsCalm
<1>4. s \in Nat /\ c \in Nat /\ channels \in Nat /\ c = channels
  BY <1>1, StorageAssumption DEF Settled, ProjectTypes, StoreTypes, GhostTypes, Saved!Channels
<1>5. /\ \A j \in restore.left : j \in DOMAIN f /\ s < j
      /\ \A j \in DOMAIN f : s < j => j \in restore.left
      /\ \A j \in DOMAIN rows[c] : j \in DOMAIN f /\ rows[c][j] = f[j]
      /\ \A j \in DOMAIN f : j \in DOMAIN rows[c] \/ j \in restore.left
  BY <1>1 DEF Accounted, Refilled, Room
<1>6. i = s + 1
  <2>1. i \in 1..n /\ s < i
    BY <1>3, <1>5
  <2>2. s + 1 \in 1..n
    BY <1>4, <2>1
  <2>3. s + 1 \in restore.left
    BY <1>3, <1>4, <1>5, <2>2
  <2>4. i <= s + 1
    BY <1>2, <2>3
  <2> QED
    BY <1>4, <2>1, <2>4
<1>7. /\ DOMAIN rows'[c] = DOMAIN rows[c] \cup {i} /\ rows'[c][i] = f[i]
      /\ \A j \in DOMAIN rows[c] : rows'[c][j] = f[j]
  BY <1>2, <1>5, <1>6 DEF Saved!With
<1>8. Room' = rows'[c]
  BY <1>1 DEF Room
<1>9. \A j \in DOMAIN rows[c] : j \in Nat /\ j <= s
  BY <1>1, RowSetsHave DEF ProjectTypes, StoreTypes, Accounted, Lettered
<1>10. /\ \A j \in restore'.left : j \in DOMAIN f /\ sent'[c] < j
       /\ \A j \in DOMAIN f : sent'[c] < j => j \in restore'.left
  BY <1>2, <1>3, <1>5, <1>4, <1>6, <1>1
<1>11. /\ \A j \in DOMAIN Room' : j \in DOMAIN f /\ Room'[j] = f[j]
       /\ \A j \in DOMAIN f : j \in DOMAIN Room' \/ j \in restore'.left
  BY <1>2, <1>5, <1>7, <1>8
<1>12. Matches(restore.dir.rows, restore.dir.sqlite) /\ sqlite = restore.dir.sqlite
  BY <1>1 DEF Accounted, Refilled, Redone
<1>13. Answered'
  BY <1>1 DEF Answered
<1>14. Lettered'
  <2> SUFFICES ASSUME NEW d \in Saved!Channels
               PROVE  /\ \A j \in DOMAIN rows'[d] : j <= sent'[d]
                      /\ d > channels => sent'[d] = 0
    BY <1>1 DEF Lettered
  <2>1. CASE d = c
    BY <1>1, <1>4, <1>6, <1>7, <1>9, <2>1
  <2>2. CASE d # c
    BY <1>1, <2>2 DEF Accounted, Lettered
  <2> QED
    BY <2>1, <2>2
<1> HIDE DEF c, s
<1>15. Refilled'
  BY <1>1, <1>10, <1>11, <1>12 DEF Refilled, Matches, Has
<1> QED
  BY <1>13, <1>14, <1>15

LEMMA RestorationAccounted ==
  ASSUME ProjectTypes, Poised, AccountsKept,
         \/ Saved!RestoreRedis \/ Saved!ClearSqlite \/ Saved!RestoreSqlite \/ Saved!NewChannel
         \/ Saved!Resend \/ Saved!Reread \/ Saved!Repoint
  PROVE  AccountsKept'
<1>1. ASSUME Restoring, UNCHANGED <<rows, sent, channels>>, restore'.at \in {"clear", "sqlite"},
             restore'.dir = restore.dir, Redone
      PROVE  AccountsKept'
  <2> SUFFICES ASSUME Accounted PROVE Answered' /\ Lettered' /\ Refilled'
    BY <1>1, RestoringAccounted
  <2>1. Answered' /\ Lettered'
    BY <1>1 DEF Accounted, Answered, Lettered
  <2>2. Matches(restore.dir.rows, restore.dir.sqlite)
    BY <1>1 DEF Accounted, Refilled
  <2>3. Refilled'
    BY <1>1, <2>2 DEF Refilled, Matches, Has
  <2> QED
    BY <2>1, <2>3
<1>2. CASE Saved!RestoreRedis
  BY <1>1, <1>2, RestoresRedis DEF Redone
<1>3. CASE Saved!ClearSqlite
  BY <1>1, <1>3, ClearsSqlite DEF Redone
<1>4. CASE Saved!RestoreSqlite
  <2>1. /\ Restoring /\ UNCHANGED <<record, listed, rows, sent, channels>>
        /\ restore.at = "sqlite" /\ restore'.at = "channel" /\ restore'.dir = restore.dir
        /\ sqlite' = restore.dir.sqlite \/ "emptied" \in incidents'
    BY <1>4, RestoresSqlite
  <2> SUFFICES ASSUME AccountsCalm', Accounted PROVE Answered' /\ Lettered' /\ Refilled'
    BY <2>1, RestoringAccounted
  <2>2. Answered' /\ Lettered'
    BY <2>1 DEF Accounted, Answered, Lettered
  <2>3. Matches(restore.dir.rows, restore.dir.sqlite)
    BY <2>1 DEF Accounted, Refilled, Redone
  <2>4. sqlite' = restore.dir.sqlite
    BY <2>1 DEF AccountsCalm
  <2>5. Refilled'
    BY <2>1, <2>3, <2>4 DEF Refilled, Matches, Has
  <2> QED
    BY <2>2, <2>5
<1>5. CASE Saved!Reread
  <2>1. /\ Restoring /\ UNCHANGED <<record, listed, rows, sent, sqlite, channels, incidents>>
        /\ restore.at = "send" /\ restore.left = {} /\ restore'.at = "point" /\ restore'.dir = restore.dir
        /\ restore'.channel = restore.channel
    BY <1>5, ReadsAgain
  <2> SUFFICES ASSUME Accounted PROVE Answered' /\ Lettered' /\ Refilled'
    BY <2>1, RestoringAccounted
  <2>2. Answered' /\ Lettered'
    BY <2>1 DEF Accounted, Answered, Lettered
  <2>3. Matches(restore.dir.rows, restore.dir.sqlite) /\ sqlite = restore.dir.sqlite
    BY <2>1 DEF Accounted, Refilled, Redone
  <2>4. /\ \A i \in DOMAIN Room : i \in DOMAIN restore.dir.rows /\ Room[i] = restore.dir.rows[i]
        /\ \A i \in DOMAIN restore.dir.rows : i \in DOMAIN Room
    BY <2>1 DEF Accounted, Refilled
  <2>5. Room' = Room
    BY <2>1 DEF Room
  <2>6. Refilled'
    BY <2>1, <2>3, <2>4, <2>5 DEF Refilled, Matches, Has
  <2> QED
    BY <2>2, <2>6
<1>6. CASE Saved!Repoint
  <2>1. /\ Restoring /\ UNCHANGED <<listed, rows, sent, sqlite, channels>>
        /\ restore.at = "point" /\ restore'.at = "manifest" /\ record'.channel = restore.channel
    BY <1>6, Repoints
  <2> SUFFICES ASSUME Accounted PROVE Answered' /\ Lettered' /\ Refilled'
    BY <2>1, RestoringAccounted
  <2>2. Matches(restore.dir.rows, restore.dir.sqlite) /\ sqlite = restore.dir.sqlite
    BY <2>1 DEF Accounted, Refilled, Redone
  <2>3. /\ \A i \in DOMAIN Room : i \in DOMAIN restore.dir.rows /\ Room[i] = restore.dir.rows[i]
        /\ \A i \in DOMAIN restore.dir.rows : i \in DOMAIN Room
    BY <2>1 DEF Accounted, Refilled
  <2>4. There' = Room
    BY <2>1 DEF There, Room
  <2>5. Answered'
    <3> SUFFICES ASSUME NEW a \in Accounts, NEW i \in Nat PROVE <<a, i>> \in sqlite' <=> Has(There', a, i)
      BY DEF Answered, Has
    <3> QED
      BY <2>1, <2>2, <2>3, <2>4 DEF Matches, Has
  <2>6. Lettered' /\ Refilled'
    BY <2>1 DEF Accounted, Lettered, Refilled, Redone
  <2> QED
    BY <2>5, <2>6
<1> QED
  BY <1>2, <1>3, <1>4, <1>5, <1>6, ChannelAccounted, ResendAccounted

LEMMA AccountedStep ==
  ASSUME ProjectTypes, Poised, AccountsKept, Saved!Next
  PROVE  AccountsKept'
  BY RequestAccounted, SnapshotAccounted, WritesFiles, WritingAccounted, FailsWhole, ReadsIndex,
     WritesIndex, ReadsPrune, WritesPrune, EnteringAccounted, PrunesDir, RestorationAccounted,
     EntersRestored, ReadsRestored, WritesRestored, ClosingAccounted, CutShort, CreateAccounted,
     RestoreAccounted DEF Whole, AccountsKept, Calm, Saved!Next

-----------------------------------------------------------------------------
(* Backup: the invariant.                                                   *)

ProjectInv == ProjectTypes /\ Catalogued /\ Poised /\ MembersKept /\ AccountsKept

LEMMA TypesStep ==
  ASSUME ProjectTypes, Saved!Next
  PROVE  ProjectTypes'
<1>1. ASSUME NEW r \in Writers,
             \/ Saved!Begin(r) \/ Saved!Get(r) \/ Saved!Set(r) \/ Saved!List(r)
             \/ Saved!Message(r) \/ Saved!IndexRow(r)
      PROVE  ProjectTypes'
  BY <1>1, Starts, Gets, Sets, Lists, Messages, Indexes, Zenon DEF Moves
<1>2. CASE \/ Saved!Scan \/ Saved!ReadRecord \/ Saved!ReadProject \/ Saved!ReadMessages \/ Saved!CopySqlite
           \/ \E u \in Members : Saved!ReadList(u)
  BY <1>2, Scans, ReadsList, ReadsRecord, ReadsProject, ReadsMessages, Copies, Zenon DEF Reading
<1>3. CASE Saved!Create \/ Saved!WriteFiles \/ Saved!Fail
  BY <1>3, Creates, WritesFiles, FailsWhole, Zenon DEF Writing
<1>4. CASE Saved!IndexRead \/ Saved!IndexWrite \/ Saved!PruneRead \/ Saved!PruneDir \/ Saved!PruneWrite
  BY <1>4, ReadsIndex, WritesIndex, ReadsPrune, PrunesDir, WritesPrune, Zenon DEF Entering
<1>5. CASE \/ Saved!RestoreRedis \/ Saved!ClearSqlite \/ Saved!RestoreSqlite \/ Saved!NewChannel
           \/ Saved!Resend \/ Saved!Reread \/ Saved!Repoint
  BY <1>5, RestoresRedis, ClearsSqlite, RestoresSqlite, MakesChannel, Resends, ReadsAgain, Repoints, Zenon
     DEF Restoring
<1>6. CASE Saved!RestoredManifest \/ Saved!RestoredRead \/ Saved!RestoredWrite
  BY <1>6, EntersRestored, ReadsRestored, WritesRestored, Zenon DEF Closing
<1>7. CASE Saved!Restore
  BY <1>7, Restores, Zenon
<1>8. ASSUME Saved!Crash \/ Saved!SkipManifest \/ \E r \in Writers : Saved!FailRequest(r) PROVE ProjectTypes'
  BY <1>8, CutShort
<1> QED
  BY <1>1, <1>2, <1>3, <1>4, <1>5, <1>6, <1>7, <1>8, Zenon DEF Saved!Next

LEMMA ProjectNext == ProjectInv /\ Saved!Next => ProjectInv'
  BY TypesStep, CataloguedStep, PoisedStep, MemberedStep, AccountedStep DEF ProjectInv

LEMMA ProjectInit == Saved!Init => ProjectInv
<1> SUFFICES ASSUME Saved!Init PROVE ProjectInv
  OBVIOUS
<1>1. /\ record \in [members : SUBSET Members, channel : {0}] /\ listed = record.members
      /\ job = [r \in Writers |-> Saved!Idle] /\ backup = Saved!Off /\ restore = Saved!Off
      /\ dirs = <<>> /\ catalogue = {} /\ made = 0 /\ done = {} /\ channels = 0 /\ incidents = {}
  BY DEF Saved!Init
<1>2. PICK S \in SUBSET Accounts : \E order \in [1..Saved!Cardinality(S) -> S] :
        /\ rows = [c \in Saved!Channels |-> IF c = 0 THEN order ELSE <<>>]
        /\ sent = [c \in Saved!Channels |-> IF c = 0 THEN Saved!Cardinality(S) ELSE 0]
        /\ sqlite = {<<order[i], i>> : i \in DOMAIN order}
  BY DEF Saved!Init
<1> DEFINE n == Saved!Cardinality(S)
<1>3. PICK order \in [1..n -> S] :
        /\ rows = [c \in Saved!Channels |-> IF c = 0 THEN order ELSE <<>>]
        /\ sent = [c \in Saved!Channels |-> IF c = 0 THEN n ELSE 0]
        /\ sqlite = {<<order[i], i>> : i \in DOMAIN order}
  BY <1>2
<1>4. n \in Nat
  BY StorageAssumption, FS_Subset, FS_CardinalityType, CountSaved
<1> HIDE DEF n
<1>5. backup.at = "off" /\ restore.at = "off" /\ DOMAIN dirs = {} /\ 0 \in Saved!Channels /\ record.channel = 0
      /\ \A q \in Writers : ~Working(q)
  BY <1>1, Nothing DEF Working
<1>6. order \in RowSets
  <2>1. 1..n \in Bounded
    BY <1>4 DEF Bounded
  <2>2. order \in [1..n -> Accounts]
    BY <1>2, <1>3
  <2> QED
    BY <2>1, <2>2 DEF RowSets
<1>7. /\ rows \in [Saved!Channels -> RowSets] /\ sent \in [Saved!Channels -> Nat]
      /\ rows[0] = order /\ sent[0] = n
      /\ \A c \in Saved!Channels : c # 0 => rows[c] = <<>> /\ sent[c] = 0
  BY <1>3, <1>4, <1>5, <1>6, Nothing
<1>8. sqlite \in Pairs
  BY <1>2, <1>3, <1>4 DEF Pairs
<1>9. record \in Kept /\ listed \in SUBSET Members
  BY <1>1, <1>5 DEF Kept
<1>10. ProjectTypes
  BY <1>1, <1>7, <1>8, <1>9, <1>5 DEF StoreTypes, JobTypes, FileTypes, GhostTypes, ProjectTypes
<1>11. Catalogued
  BY <1>1, <1>5, FS_EmptySet, StorageAssumption DEF Together, Listed, Counted, Catalogued
<1>12. Poised
  BY <1>1, <1>5 DEF Poised, Settled, Steady, Redone
<1>13. MembersKept
  BY <1>1, <1>5 DEF MembersKept, Membered, Listing, Steady
<1>14. AccountsKept
  <2>1. There = order
    BY <1>5, <1>7 DEF There
  <2>2. \A a \in Accounts, i \in Nat : <<a, i>> \in sqlite <=> Has(order, a, i)
    BY <1>3 DEF Has
  <2>3. Answered /\ HalfDone
    BY <1>5, <2>1, <2>2 DEF Answered, HalfDone
  <2>4. Copied /\ Foldered /\ Refilled
    BY <1>5 DEF Copied, Foldered, Refilled, Steady, Redone
  <2>5. Lettered
    <3> SUFFICES ASSUME NEW c \in Saved!Channels
                 PROVE  (\A i \in DOMAIN rows[c] : i <= sent[c]) /\ (c > channels => sent[c] = 0)
      BY DEF Lettered
    <3>1. CASE c = 0
      BY <1>1, <1>3, <1>4, <1>7, <3>1
    <3>2. CASE c # 0
      BY <1>7, <3>2, Nothing
    <3> QED
      BY <3>1, <3>2
  <2> QED
    BY <2>3, <2>4, <2>5 DEF AccountsKept, Accounted
<1> QED
  BY <1>10, <1>11, <1>12, <1>13, <1>14 DEF ProjectInv

LEMMA ProjectStay == ProjectInv /\ UNCHANGED Saved!vars => ProjectInv'
<1> SUFFICES ASSUME ProjectInv, UNCHANGED Saved!vars PROVE ProjectInv'
  OBVIOUS
<1>1. UNCHANGED <<record, listed, rows, sent, sqlite, job, backup, restore, dirs, catalogue, made, done, channels,
                  incidents>>
  BY DEF Saved!vars, Saved!store, Saved!files, Saved!ghosts
<1>2. ProjectTypes'
  BY <1>1 DEF ProjectInv, ProjectTypes, StoreTypes, JobTypes, FileTypes, GhostTypes
<1>3. SameBooks
  BY <1>1 DEF SameBooks
<1>4. Catalogued'
  BY <1>1, <1>3, BooksStay DEF ProjectInv
<1>5. /\ \A q \in Writers : Working(q)' <=> Working(q)
      /\ \A u : Listing(u)' <=> Listing(u)
      /\ \A u : Indexing(u)' <=> Indexing(u)
      /\ There' = There /\ Room' = Room /\ (Steady' <=> Steady) /\ (Redone' <=> Redone) /\ (Calm' <=> Calm)
  BY <1>1 DEF Working, Listing, Indexing, There, Room, Steady, Redone, Calm
<1>6. Poised'
  BY <1>1, <1>5 DEF ProjectInv, Poised, Settled, Whole
<1>7. MembersKept'
  BY <1>1, <1>5 DEF ProjectInv, MembersKept, Membered, Whole
<1>8. AccountsKept'
  <2> SUFFICES ASSUME Accounted PROVE Accounted'
    BY <1>1, <1>5 DEF ProjectInv, AccountsKept
  <2>1. Answered' /\ HalfDone' /\ Copied'
    BY <1>1, <1>5 DEF Accounted, Answered, HalfDone, Copied
  <2>2. Foldered' /\ Lettered' /\ Refilled'
    BY <1>1, <1>5 DEF Accounted, Foldered, Lettered, Refilled, Whole
  <2> QED
    BY <2>1, <2>2 DEF Accounted
<1> QED
  BY <1>2, <1>4, <1>6, <1>7, <1>8 DEF ProjectInv

LEMMA CatalogueHolds == ProjectInv => Saved!CatalogueTruthful
<1> SUFFICES ASSUME ProjectInv, Saved!Quiet, Saved!Clear({"overlap", "cut"})
             PROVE  LET ready == {e.id : e \in {e \in catalogue : e.status = "ready"}}
                    IN /\ \A b \in ready : b \in DOMAIN dirs /\ dirs[b].manifest = "ready"
                       /\ DOMAIN dirs = {e.id : e \in catalogue}
                       /\ Saved!Cardinality(ready) <= Retention
                       /\ done # {} => Saved!Max(done) \in ready
  BY DEF Saved!CatalogueTruthful
<1> DEFINE entries == {e \in catalogue : e.status = "ready"}
           ready == {e.id : e \in entries}
<1>1. backup.at = "off" /\ restore.at = "off"
  BY Nothing DEF Saved!Quiet
<1>2. Listed /\ Counted
  BY DEF Saved!Clear, ProjectInv, Catalogued
<1>3. \A e \in catalogue : Filed(e)
  BY <1>1, <1>2 DEF Listed
<1>4. \A b \in ready : b \in DOMAIN dirs /\ dirs[b].manifest = "ready"
  BY <1>3 DEF Filed
<1>5. DOMAIN dirs = {e.id : e \in catalogue}
  <2>1. \A b \in DOMAIN dirs : \E e \in catalogue : e.id = b
    BY <1>1, <1>2 DEF Listed
  <2>2. \A e \in catalogue : e.id \in DOMAIN dirs
    BY <1>3 DEF Filed
  <2> QED
    BY <2>1, <2>2
<1>6. Saved!Cardinality(ready) <= Retention
  <2> DEFINE f == [e \in entries |-> e.id]
  <2>1. f \in Surjection(entries, ready)
    BY DEF Surjection
  <2>2. entries \in SUBSET catalogue /\ IsFiniteSet(catalogue)
    BY <1>2 DEF Counted
  <2>3. Cardinality(entries) <= Retention
    BY <1>1, <1>2 DEF Counted
  <2> HIDE DEF f, entries, ready
  <2>4. IsFiniteSet(entries)
    BY <2>2, FS_Subset
  <2>5. IsFiniteSet(ready) /\ Cardinality(ready) <= Cardinality(entries)
    BY <2>1, <2>4, FS_Surjection
  <2>6. Cardinality(ready) \in Nat /\ Cardinality(entries) \in Nat /\ Retention \in Nat
    BY <2>4, <2>5, FS_CardinalityType, StorageAssumption
  <2>7. Cardinality(ready) <= Retention
    BY <2>3, <2>5, <2>6
  <2> QED
    BY <2>7, CountSaved
<1>7. done # {} => Saved!Max(done) \in ready
  <2> SUFFICES ASSUME done # {} PROVE Saved!Max(done) \in ready
    OBVIOUS
  <2>1. PICK b \in done : Ready(b) \in catalogue /\ \A d \in done : d <= b
    BY <1>1, <1>2 DEF Counted
  <2>2. \A d \in done : d \in Nat
    BY Numbers DEF ProjectInv
  <2> DEFINE m == Saved!Max(done)
  <2>3. m \in done /\ \A d \in done : m >= d
    BY <2>1, <2>2 DEF Saved!Max
  <2> HIDE DEF m
  <2>4. m = b
    BY <2>1, <2>2, <2>3
  <2>5. b \in ready
    BY <2>1 DEF Ready
  <2> HIDE DEF ready
  <2>6. m \in ready
    BY <2>4, <2>5
  <2> QED
    BY <2>6 DEF m
<1> QED
  BY <1>4, <1>5, <1>6, <1>7

LEMMA MembersHold == ProjectInv => Saved!MembershipRestored
<1> SUFFICES ASSUME ProjectInv, Saved!Quiet, Saved!Clear({"torn", "busy", "newer", "cut"})
             PROVE  listed = record.members
  BY DEF Saved!MembershipRestored
<1>1. Membered
  BY DEF Saved!Clear, ProjectInv, MembersKept, Calm
<1>2. \A q \in Writers : ~Working(q)
  BY DEF Saved!Quiet, Saved!Busy, Working
<1> QED
  BY <1>1, <1>2, ListsAgree DEF ProjectInv

LEMMA AccountsHold == ProjectInv => Saved!AccountsFound
<1> SUFFICES ASSUME ProjectInv, Saved!Quiet, Saved!Clear({"torn", "busy", "renumbered", "emptied", "cut"})
             PROVE  sqlite = {<<There[i], i>> : i \in DOMAIN There}
  BY DEF Saved!AccountsFound, There
<1>1. Accounted
  BY DEF Saved!Clear, ProjectInv, AccountsKept, Calm
<1>2. restore.at = "off" /\ \A a : ~Indexing(a)
  BY Nothing DEF Saved!Quiet, Saved!Busy, Working, Indexing
<1>3. \A a \in Accounts : \A i \in Nat : <<a, i>> \in sqlite <=> Has(There, a, i)
  BY <1>1, <1>2 DEF Accounted, Answered
<1>4. sqlite \subseteq Accounts \X Nat /\ There \in RowSets
  BY DEF ProjectInv, ProjectTypes, StoreTypes, Kept, Pairs, There
<1>5. \A i \in DOMAIN There : i \in Nat /\ There[i] \in Accounts
  BY <1>4, RowSetsHave
<1> HIDE DEF There
<1> QED
  BY <1>3, <1>4, <1>5 DEF Has

-----------------------------------------------------------------------------
(* Chains: what the variables hold.                                         *)

Telegram == [kind : {"gone", "whole", "start", "part"}, text : Chain!Texts \cup {0},
             index : Nat, chain : Nat, parent : Nat]
\* A first message begins a long text, and a part is one of its others.
Formed(m) ==
  /\ m.kind = "gone" => m.chain = 0
  /\ m.kind = "whole" => m.text \in Chain!Texts \ Long /\ m.chain = 0
  /\ m.kind = "start" => m.text \in Long /\ m.index = 0 /\ m.chain # 0
  /\ m.kind = "part" => m.text \in Long /\ m.index \in 1..(LongParts - 1) /\ m.chain # 0
ChannelTypes ==
  /\ messages \in Seq(Telegram) /\ chains \in Nat
  /\ \A id \in Chain!Ids : Formed(messages[id])
Leading(id) == id \in Chain!Ids /\ messages[id].kind # "part"
\* A part came after the message that it names, which is none itself.
Ordered == \A p \in Chain!Ids : messages[p].kind = "part" =>
  messages[p].parent < p /\ Leading(messages[p].parent)

CallFields == {"op", "at", "id", "text", "again", "begun", "head", "index", "chain", "ids", "below",
               "offset", "heads", "from", "got", "page", "rows", "there"}
Places(op) ==
  CASE op = "send" -> {"first", "parts"}
    [] op = "edit" -> {"fetch", "scan", "clear", "write", "parts"}
    [] op = "delete" -> {"fetch", "scan", "clear", "write"}
    [] op = "get" -> {"fetch", "texts", "collect", "done"}
    [] op = "list" -> {"page", "texts", "collect", "done"}
Operations == {"send", "edit", "delete", "get", "list"}
\* What a call has at hand where it is.
Placed(j) ==
  /\ DOMAIN j = CallFields
  /\ j.op \in Operations /\ j.at \in Places(j.op) /\ j.begun \in BOOLEAN
  /\ j.id \in Nat /\ j.below \in Nat /\ j.offset \in Nat /\ DOMAIN j.page \subseteq Nat
  /\ j.op \in {"send", "edit"} => j.text \in Chain!Texts
  /\ j.at = "first" => j.id = 0
  /\ j.at = "parts" => j.text \in Long /\ j.index \in 1..(LongParts - 1)
  /\ j.at = "fetch" => j.ids = {}
  /\ j.at \in {"fetch", "page", "texts"} => j.below = 0
  /\ j.at \notin {"texts", "collect"} => DOMAIN j.heads = {}
  /\ j.at = "collect" => j.from \in DOMAIN j.heads
\* What it knows of the channel.
Informed(j) ==
  /\ j.op \in {"edit", "delete", "get"} \/ j.at = "parts" => Leading(j.id)
  /\ j.at = "parts" => j.chain \in 1..chains
  /\ j.at \in {"scan", "clear", "write"} => j.head \in Telegram /\ Formed(j.head) /\ j.head.kind # "part"
  /\ j.at \in {"fetch", "scan", "clear", "write"} =>
       \A i \in j.ids : i \in Chain!Ids /\ messages[i].kind \in {"part", "gone"}
  /\ \A id \in DOMAIN j.heads : Leading(id) /\ j.heads[id] \in Telegram /\ Formed(j.heads[id])
                                /\ j.heads[id].kind = "start"
CallTypes == /\ DOMAIN job = Requests
             /\ \A q \in Requests : Chain!Busy(q) => Placed(job[q]) /\ Informed(job[q])
ChainTypes == ChannelTypes /\ Ordered /\ CallTypes

\* What a step does to the channel.
Still == UNCHANGED <<messages, chains>>
Grown(m) == /\ messages' \in Seq(Telegram)
            /\ Len(messages') = Len(messages) + 1 /\ messages'[Len(messages) + 1] = m
            /\ \A id \in Chain!Ids : messages'[id] = messages[id]
Emptied(S) == /\ messages' \in Seq(Telegram) /\ Len(messages') = Len(messages)
              /\ \A id \in Chain!Ids : messages'[id] = IF id \in S THEN Chain!Gone ELSE messages[id]
Rewritten(id, m) ==
  /\ messages' \in Seq(Telegram) /\ Len(messages') = Len(messages) /\ messages'[id] = m
  /\ \A i \in Chain!Ids : i # id => messages'[i] = messages[i]
\* No message becomes a part, and a part nothing but gone.
Onward ==
  /\ Len(messages) <= Len(messages') /\ chains <= chains'
  /\ \A id \in Chain!Ids : /\ messages[id].kind = "part" => messages'[id] \in {messages[id], Chain!Gone}
                           /\ messages[id].kind # "part" => messages'[id].kind # "part"
                           /\ messages[id].kind = "gone" => messages'[id].kind = "gone"

\* The calls of others go on as they were, but for what they need not list.
Like(j, k) ==
  /\ DOMAIN k = DOMAIN j
  /\ k.op = j.op /\ k.at = j.at /\ k.id = j.id /\ k.text = j.text /\ k.begun = j.begun
  /\ k.head = j.head /\ k.index = j.index /\ k.chain = j.chain /\ k.ids = j.ids /\ k.below = j.below
  /\ k.offset = j.offset /\ k.heads = j.heads /\ k.from = j.from /\ k.got = j.got
  /\ k.page = j.page /\ k.rows = j.rows
Aside(q) ==
  /\ DOMAIN job' = Requests
  /\ \A r \in Requests : r # q => (Chain!Busy(r)' <=> Chain!Busy(r))
  /\ \A r \in Requests : r # q /\ Chain!Busy(r) =>
       Like(job[r], job'[r]) /\ job'[r].there \subseteq job[r].there
\* A call is over, or changes some of what it has.
Ended(q) == job'[q] = Chain!Idle
Moved(q, S) == /\ DOMAIN job'[q] = CallFields
               /\ \A f \in CallFields \ S : job'[q][f] = job[q][f]
Unmarked == incidents' = incidents

LEMMA Sizes ==
  /\ LongParts \in Nat /\ LongParts > 1
  /\ \A text : text \in Long => Chain!Size(text) = LongParts
  /\ \A text : text \notin Long => Chain!Size(text) = 1
  BY StorageAssumption DEF Chain!Size

LEMMA SameCount ==
  \A S : Chain!Cardinality(S) = Cardinality(S)
  BY DEF Chain!Cardinality, Cardinality

\* What can be sent.
Sendable(m) == m \in Telegram /\ Formed(m)
LEMMA Sending ==
  /\ Sendable(Chain!Gone)
  /\ \A text \in Chain!Texts \ Long : Sendable(Chain!Whole(text))
  /\ \A text \in Long, c \in Nat \ {0} : Sendable(Chain!Start(text, c))
  /\ \A text \in Long, i \in 1..(LongParts - 1), c \in Nat \ {0}, id \in Nat : Sendable(Chain!Part(text, i, c, id))
<1>1. Sendable(Chain!Gone)
  BY DEF Sendable, Telegram, Formed, Chain!Gone
<1>2. ASSUME NEW text \in Chain!Texts \ Long PROVE Sendable(Chain!Whole(text))
  BY DEF Sendable, Telegram, Formed, Chain!Gone, Chain!Whole
<1>3. ASSUME NEW text \in Long, NEW c \in Nat \ {0} PROVE Sendable(Chain!Start(text, c))
  BY DEF Sendable, Telegram, Formed, Chain!Gone, Chain!Start, Chain!Texts
<1>4. ASSUME NEW text \in Long, NEW i \in 1..(LongParts - 1), NEW c \in Nat \ {0}, NEW id \in Nat
      PROVE  Sendable(Chain!Part(text, i, c, id))
  BY Sizes DEF Sendable, Telegram, Formed, Chain!Part, Chain!Texts
<1> QED
  BY <1>1, <1>2, <1>3, <1>4

LEMMA NotIdle ==
  /\ Chain!Idle.at = "idle"
  /\ \A j : Placed(j) => j.at # "idle" /\ j # Chain!Idle
  BY DEF Chain!Idle, Placed, Places, Operations

LEMMA PutsIt ==
  ASSUME CallTypes, NEW q \in Requests, NEW j, Chain!Put(q, j)
  PROVE  job'[q] = j /\ Aside(q)
  BY DEF Chain!Put, CallTypes, Chain!Busy, Aside, Like

\* A call that is somewhere is busy, and what it changes of itself leaves the rest.
LEMMA IsAt ==
  ASSUME ChainTypes, NEW q \in Requests, NEW label, Chain!At(q, label)
  PROVE  Chain!Busy(q) /\ job[q].at = label /\ Placed(job[q]) /\ Informed(job[q])
  BY DEF ChainTypes, CallTypes, Chain!At

\* What a call has that has done nothing.
Unbegun(b, op, id, text) ==
  /\ DOMAIN b = CallFields
  /\ b.op = op /\ b.at = Chain!First(op) /\ b.id = id /\ b.text = text /\ b.begun = FALSE
  /\ b.ids = {} /\ b.below = 0 /\ b.offset = 0 /\ DOMAIN b.heads = {} /\ DOMAIN b.page = {}
  /\ DOMAIN b.rows = {} /\ b.there = Chain!Heads

LEMMA BlankHas ==
  \A op, id, text : Unbegun(Chain!Blank(op, id, text), op, id, text)
<1> SUFFICES ASSUME NEW op, NEW id, NEW text, NEW b, b = Chain!Blank(op, id, text)
             PROVE  Unbegun(b, op, id, text)
  OBVIOUS
<1>1. /\ DOMAIN b = CallFields
      /\ b.op = op /\ b.at = Chain!First(op) /\ b.id = id /\ b.text = text /\ b.begun = FALSE
      /\ b.ids = {} /\ b.below = 0 /\ b.offset = 0 /\ b.heads = <<>> /\ b.page = <<>> /\ b.rows = <<>>
      /\ b.there = Chain!Heads
  BY DEF Chain!Blank, CallFields, Chain!NoRows
<1>2. DOMAIN <<>> = {}
  OBVIOUS
<1> QED
  BY <1>1, <1>2 DEF Unbegun

\* What a call puts in its place changes the fields that are named.
LEMMA MovesOn ==
  ASSUME ChainTypes, NEW q \in Requests, NEW k, Chain!Put(q, k), NEW S,
         DOMAIN k = CallFields, \A f \in CallFields \ S : k[f] = job[q][f]
  PROVE  job'[q] = k /\ Aside(q) /\ Moved(q, S)
  BY PutsIt DEF ChainTypes, Moved

LEMMA EndsIt ==
  ASSUME ChainTypes, NEW q \in Requests, Chain!End(q)
  PROVE  Ended(q) /\ Aside(q)
  BY PutsIt DEF ChainTypes, Chain!End, Ended

LEMMA Fetches ==
  ASSUME ChainTypes, NEW q \in Requests, Chain!Fetch(q)
  PROVE  LET j == job[q]  k == job'[q]  m == messages[j.id]
         IN /\ Chain!Busy(q) /\ j.at = "fetch" /\ Still /\ Unmarked /\ Aside(q)
            /\ \/ j.op # "get" /\ Moved(q, {"at", "head"}) /\ k.at = "scan" /\ k.head = m
               \/ /\ j.op = "get" /\ m.kind = "start" /\ Moved(q, {"at", "heads"})
                  /\ k.at = "texts" /\ k.heads = Chain!One(j.id, m)
               \/ /\ j.op = "get" /\ m.kind = "whole" /\ Moved(q, {"at", "rows"})
                  /\ k.at = "done" /\ k.rows = Chain!One(j.id, Chain!Only(m))
               \/ j.op = "get" /\ Ended(q)
<1> DEFINE j == job[q]  m == messages[j.id]
<1>1. Chain!Busy(q) /\ j.at = "fetch" /\ Still /\ Unmarked /\ DOMAIN j = CallFields
  BY IsAt DEF Chain!Fetch, Still, Unmarked, Placed
<1>2. CASE j.op # "get"
  <2> DEFINE k == [j EXCEPT !.at = "scan", !.head = m]
  <2>1. Chain!Put(q, k)
    BY <1>2 DEF Chain!Fetch
  <2>2. DOMAIN k = CallFields /\ k.at = "scan" /\ k.head = m /\ \A f \in CallFields \ {"at", "head"} : k[f] = j[f]
    BY <1>1 DEF CallFields
  <2> HIDE DEF k
  <2>3. job'[q] = k /\ Aside(q) /\ Moved(q, {"at", "head"})
    BY <2>1, <2>2, MovesOn
  <2> QED
    BY <1>1, <1>2, <2>2, <2>3
<1>3. CASE j.op = "get" /\ m.kind = "start"
  <2> DEFINE k == [j EXCEPT !.at = "texts", !.heads = Chain!One(j.id, m)]
  <2>1. Chain!Put(q, k)
    BY <1>3 DEF Chain!Fetch
  <2>2. /\ DOMAIN k = CallFields /\ k.at = "texts" /\ k.heads = Chain!One(j.id, m)
        /\ \A f \in CallFields \ {"at", "heads"} : k[f] = j[f]
    BY <1>1 DEF CallFields
  <2> HIDE DEF k
  <2>3. job'[q] = k /\ Aside(q) /\ Moved(q, {"at", "heads"})
    BY <2>1, <2>2, MovesOn
  <2> QED
    BY <1>1, <1>3, <2>2, <2>3
<1>4. CASE j.op = "get" /\ m.kind = "whole"
  <2> DEFINE k == [j EXCEPT !.at = "done", !.rows = Chain!One(j.id, Chain!Only(m))]
  <2>1. Chain!Put(q, k)
    BY <1>4 DEF Chain!Fetch
  <2>2. /\ DOMAIN k = CallFields /\ k.at = "done" /\ k.rows = Chain!One(j.id, Chain!Only(m))
        /\ \A f \in CallFields \ {"at", "rows"} : k[f] = j[f]
    BY <1>1 DEF CallFields
  <2> HIDE DEF k
  <2>3. job'[q] = k /\ Aside(q) /\ Moved(q, {"at", "rows"})
    BY <2>1, <2>2, MovesOn
  <2> QED
    BY <1>1, <1>4, <2>2, <2>3
<1>5. CASE j.op = "get" /\ m.kind # "start" /\ m.kind # "whole"
  BY <1>5, <1>1, EndsIt DEF Chain!Fetch
<1> QED
  BY <1>2, <1>3, <1>4, <1>5

LEMMA SendsFirst ==
  ASSUME ChainTypes, NEW q \in Requests, Chain!SendFirst(q)
  PROVE  LET j == job[q]  k == job'[q]
         IN /\ Chain!Busy(q) /\ j.at = "first" /\ Unmarked /\ Aside(q)
            /\ \/ /\ j.text \in Long /\ chains' = chains + 1
                  /\ Grown(Chain!Start(j.text, chains + 1))
                  /\ Moved(q, {"at", "id", "chain", "index"})
                  /\ k.at = "parts" /\ k.id = Len(messages) + 1 /\ k.chain = chains + 1 /\ k.index = 1
               \/ j.text \notin Long /\ UNCHANGED chains /\ Grown(Chain!Whole(j.text)) /\ Ended(q)
<1> DEFINE j == job[q]
<1>1. Chain!Busy(q) /\ j.at = "first" /\ Unmarked /\ DOMAIN j = CallFields
  BY IsAt DEF Chain!SendFirst, Unmarked, Placed
<1>2. messages \in Seq(Telegram) /\ chains \in Nat /\ j.text \in Chain!Texts
  BY <1>1, IsAt DEF ChainTypes, ChannelTypes, Placed, Places, Operations, Chain!SendFirst
<1>3. CASE j.text \in Long
  <2> DEFINE m == Chain!Start(j.text, chains + 1)
             k == [j EXCEPT !.at = "parts", !.id = Len(messages'), !.chain = chains', !.index = 1]
  <2>1. Chain!Size(j.text) > 1
    BY <1>3, Sizes
  <2>2. chains' = chains + 1 /\ messages' = Append(messages, m) /\ Chain!Put(q, k)
    BY <2>1 DEF Chain!SendFirst
  <2>7. m \in Telegram
    BY <1>2, <1>3, Sending DEF Sendable
  <2> HIDE DEF m
  <2>3. Grown(m)
    BY <1>2, <2>2, <2>7 DEF Grown, Chain!Ids
  <2>4. /\ DOMAIN k = CallFields /\ k.at = "parts" /\ k.id = Len(messages') /\ k.chain = chains' /\ k.index = 1
        /\ \A f \in CallFields \ {"at", "id", "chain", "index"} : k[f] = j[f]
    BY <1>1 DEF CallFields
  <2> HIDE DEF k
  <2>5. job'[q] = k /\ Aside(q) /\ Moved(q, {"at", "id", "chain", "index"})
    BY <2>2, <2>4, MovesOn
  <2>6. Len(messages') = Len(messages) + 1
    BY <2>3 DEF Grown
  <2> QED
    BY <1>1, <1>3, <2>2, <2>3, <2>4, <2>5, <2>6 DEF m
<1>4. CASE j.text \notin Long
  <2> DEFINE m == Chain!Whole(j.text)
  <2>1. ~(Chain!Size(j.text) > 1)
    BY <1>4, Sizes
  <2>2. chains' = chains /\ messages' = Append(messages, m) /\ Chain!End(q)
    BY <2>1 DEF Chain!SendFirst
  <2>7. m \in Telegram
    BY <1>2, <1>4, Sending DEF Sendable
  <2> HIDE DEF m
  <2>3. Grown(m)
    BY <1>2, <2>2, <2>7 DEF Grown, Chain!Ids
  <2> QED
    BY <1>1, <1>4, <2>2, <2>3, EndsIt DEF m
<1> QED
  BY <1>3, <1>4

LEMMA SendsPart ==
  ASSUME ChainTypes, NEW q \in Requests, Chain!SendPart(q)
  PROVE  LET j == job[q]  k == job'[q]
         IN /\ Chain!Busy(q) /\ j.at = "parts" /\ Unmarked /\ Aside(q) /\ UNCHANGED chains
            /\ Grown(Chain!Part(j.text, j.index, j.chain, j.id))
            /\ \/ j.index + 1 = LongParts /\ Ended(q)
               \/ j.index + 1 # LongParts /\ Moved(q, {"index"}) /\ k.index = j.index + 1
<1> DEFINE j == job[q]  m == Chain!Part(j.text, j.index, j.chain, j.id)
<1>1. /\ Chain!Busy(q) /\ j.at = "parts" /\ Unmarked /\ DOMAIN j = CallFields /\ UNCHANGED chains
      /\ j.text \in Long
  BY IsAt DEF Chain!SendPart, Unmarked, Placed
<1>2. messages \in Seq(Telegram) /\ Chain!Size(j.text) = LongParts
  BY <1>1, Sizes DEF ChainTypes, ChannelTypes
<1>3. messages' = Append(messages, m)
  BY DEF Chain!SendPart
<1>7. m \in Telegram
  <2>1. j.index \in 1..(LongParts - 1) /\ j.chain \in 1..chains /\ j.id \in Nat /\ chains \in Nat
    BY <1>1, IsAt DEF Chain!SendPart, Placed, Informed, ChainTypes, ChannelTypes
  <2> QED
    BY <1>1, <2>1, Sending DEF Sendable
<1> HIDE DEF m
<1>4. Grown(m)
  BY <1>2, <1>3, <1>7 DEF Grown, Chain!Ids
<1>5. CASE j.index + 1 = LongParts
  BY <1>2, <1>5, <1>1, <1>4, EndsIt DEF Chain!SendPart, m
<1>6. CASE j.index + 1 # LongParts
  <2> DEFINE k == [j EXCEPT !.index = j.index + 1]
  <2>1. Chain!Put(q, k)
    BY <1>2, <1>6 DEF Chain!SendPart
  <2>2. DOMAIN k = CallFields /\ k.index = j.index + 1 /\ \A f \in CallFields \ {"index"} : k[f] = j[f]
    BY <1>1 DEF CallFields
  <2> HIDE DEF k
  <2>3. job'[q] = k /\ Aside(q) /\ Moved(q, {"index"})
    BY <2>1, <2>2, MovesOn
  <2> QED
    BY <1>1, <1>4, <1>6, <2>2, <2>3 DEF m
<1> QED
  BY <1>5, <1>6

LEMMA ScansIt ==
  ASSUME ChainTypes, NEW q \in Requests, Chain!Scan(q)
  PROVE  LET j == job[q]  k == job'[q]  page == Chain!PageOf(j.id, j.below)
         IN /\ Chain!Busy(q) /\ j.at = "scan" /\ Still /\ Unmarked /\ Aside(q)
            /\ Moved(q, {"ids", "below", "at"})
            /\ k.ids = j.ids \cup {id \in page : Chain!Belongs(messages[id], j.id, j.head)}
            /\ \/ /\ Chain!Ends(page) /\ k.below = 0
                  /\ k.at = IF k.ids # {} THEN "clear" ELSE "write"
               \/ ~Chain!Ends(page) /\ k.below = Chain!Min(page) /\ k.at = "scan"
<1> DEFINE j == job[q]  page == Chain!PageOf(j.id, j.below)
           found == j.ids \cup {id \in page : Chain!Belongs(messages[id], j.id, j.head)}
           over == Chain!Ends(page)
           place == IF ~over THEN "scan" ELSE IF found # {} THEN "clear" ELSE "write"
           edge == IF over THEN 0 ELSE Chain!Min(page)
           k == [j EXCEPT !.ids = found, !.below = edge, !.at = place]
<1>1. Chain!Busy(q) /\ j.at = "scan" /\ Still /\ Unmarked /\ DOMAIN j = CallFields
  BY IsAt DEF Chain!Scan, Still, Unmarked, Placed
<1>2. Chain!Put(q, k)
  BY DEF Chain!Scan
<1> HIDE DEF found, over, place, edge
<1>4. /\ DOMAIN k = CallFields /\ k.ids = found /\ k.below = edge /\ k.at = place
      /\ \A f \in CallFields \ {"ids", "below", "at"} : k[f] = j[f]
  BY <1>1 DEF CallFields
<1> HIDE DEF k
<1>5. job'[q] = k /\ Aside(q) /\ Moved(q, {"ids", "below", "at"})
  BY <1>2, <1>4, MovesOn
<1>6. CASE over
  BY <1>1, <1>4, <1>5, <1>6 DEF found, over, place, edge
<1>7. CASE ~over
  BY <1>1, <1>4, <1>5, <1>7 DEF found, over, place, edge
<1> QED
  BY <1>6, <1>7

LEMMA ClearsIt ==
  ASSUME ChainTypes, NEW q \in Requests, Chain!Clear(q)
  PROVE  LET j == job[q]  k == job'[q]
         IN /\ Chain!Busy(q) /\ j.at = "clear" /\ Unmarked /\ Aside(q) /\ UNCHANGED chains
            /\ Emptied(j.ids) /\ Moved(q, {"at"}) /\ k.at = "write"
<1> DEFINE j == job[q]  k == [j EXCEPT !.at = "write"]
<1>1. Chain!Busy(q) /\ j.at = "clear" /\ Unmarked /\ DOMAIN j = CallFields /\ UNCHANGED chains
  BY IsAt DEF Chain!Clear, Unmarked, Placed
<1>2. messages \in Seq(Telegram)
  BY DEF ChainTypes, ChannelTypes
<1>3. messages' = [id \in 1..Len(messages) |-> IF id \in j.ids THEN Chain!Gone ELSE messages[id]]
  BY DEF Chain!Clear, Chain!Ids
<1>4. Len(messages') = Len(messages) /\ messages' \in Seq(Telegram)
  BY <1>2, <1>3, Sending DEF Sendable
<1>5. Emptied(j.ids)
  BY <1>3, <1>4 DEF Emptied, Chain!Ids
<1>6. Chain!Put(q, k)
  BY DEF Chain!Clear
<1>7. DOMAIN k = CallFields /\ k.at = "write" /\ \A f \in CallFields \ {"at"} : k[f] = j[f]
  BY <1>1 DEF CallFields
<1> HIDE DEF k
<1>8. job'[q] = k /\ Aside(q) /\ Moved(q, {"at"})
  BY <1>6, <1>7, MovesOn
<1> QED
  BY <1>1, <1>5, <1>7, <1>8

LEMMA DeletesIt ==
  ASSUME ChainTypes, NEW q \in Requests, Chain!WriteDelete(q)
  PROVE  LET j == job[q]
         IN /\ Chain!Busy(q) /\ j.at = "write" /\ j.op = "delete" /\ Unmarked /\ Aside(q)
            /\ UNCHANGED chains /\ Rewritten(j.id, Chain!Gone) /\ Ended(q)
            /\ \A r \in Requests : r # q /\ Chain!Busy(r) => j.id \notin job'[r].there
<1> DEFINE j == job[q]
<1>1. /\ Chain!Busy(q) /\ j.at = "write" /\ j.op = "delete" /\ Unmarked /\ UNCHANGED chains
      /\ j.id \in Chain!Ids
  BY IsAt DEF Chain!WriteDelete, Unmarked, Informed, Leading
<1>2. messages \in Seq(Telegram) /\ DOMAIN job = Requests
  BY DEF ChainTypes, ChannelTypes, CallTypes
<1>3. messages' = [messages EXCEPT ![j.id] = Chain!Gone]
  BY DEF Chain!WriteDelete
<1>4. Rewritten(j.id, Chain!Gone)
  BY Sending, <1>1, <1>2, <1>3 DEF Sendable, Rewritten, Chain!Ids
<1>5. job' = [Chain!Missed(j.id) EXCEPT ![q] = Chain!Idle]
  BY DEF Chain!WriteDelete
<1>6. /\ DOMAIN job' = Requests /\ job'[q] = Chain!Idle
      /\ \A r \in Requests : r # q => job'[r] = IF Chain!Busy(r) THEN [job[r] EXCEPT !.there = @ \ {j.id}] ELSE job[r]
  BY <1>5 DEF Chain!Missed
<1>7. ASSUME NEW r \in Requests, r # q, ~Chain!Busy(r)
      PROVE  ~Chain!Busy(r)'
  BY <1>6, <1>7 DEF Chain!Busy
<1>8. ASSUME NEW r \in Requests, r # q, Chain!Busy(r)
      PROVE  /\ Chain!Busy(r)' /\ Like(job[r], job'[r])
             /\ job'[r].there \subseteq job[r].there /\ j.id \notin job'[r].there
  <2> DEFINE k == [job[r] EXCEPT !.there = @ \ {j.id}]
  <2>1. Placed(job[r]) /\ DOMAIN job[r] = CallFields
    BY <1>8 DEF ChainTypes, CallTypes, Placed
  <2>2. job'[r] = k
    BY <1>6, <1>8
  <2>3. k.there = job[r].there \ {j.id} /\ DOMAIN k = CallFields /\ \A f \in CallFields \ {"there"} : k[f] = job[r][f]
    BY <2>1 DEF CallFields
  <2> HIDE DEF k
  <2>4. Like(job[r], k) /\ k.at = job[r].at
    BY <2>1, <2>3 DEF Like, CallFields
  <2>5. k # Chain!Idle
    BY <2>1, <2>4, NotIdle
  <2> QED
    BY <2>2, <2>3, <2>4, <2>5 DEF Chain!Busy
<1>9. Aside(q)
  BY <1>6, <1>7, <1>8 DEF Aside
<1> QED
  BY <1>1, <1>4, <1>6, <1>8, <1>9 DEF Ended

LEMMA EditsIt ==
  ASSUME ChainTypes, NEW q \in Requests, Chain!WriteEdit(q)
  PROVE  LET j == job[q]  k == job'[q]
         IN /\ Chain!Busy(q) /\ j.at = "write" /\ j.op = "edit" /\ Unmarked /\ Aside(q)
            /\ \/ messages[j.id].kind = "gone" /\ Still /\ Ended(q)
               \/ /\ messages[j.id].kind # "gone" /\ j.text \in Long /\ chains' = chains + 1
                  /\ Rewritten(j.id, Chain!Start(j.text, chains + 1))
                  /\ Moved(q, {"at", "index", "chain"})
                  /\ k.at = "parts" /\ k.index = 1 /\ k.chain = chains + 1
               \/ /\ messages[j.id].kind # "gone" /\ j.text \notin Long /\ UNCHANGED chains
                  /\ Rewritten(j.id, Chain!Whole(j.text)) /\ Ended(q)
<1> DEFINE j == job[q]
<1>1. /\ Chain!Busy(q) /\ j.at = "write" /\ j.op = "edit" /\ Unmarked /\ j.id \in Chain!Ids
      /\ DOMAIN j = CallFields /\ j.text \in Chain!Texts
  BY IsAt DEF Chain!WriteEdit, Unmarked, Informed, Leading, Placed
<1>2. messages \in Seq(Telegram) /\ chains \in Nat
  BY DEF ChainTypes, ChannelTypes
<1>3. ASSUME NEW m \in Telegram, messages' = [messages EXCEPT ![j.id] = m] PROVE Rewritten(j.id, m)
  BY <1>2, <1>3, <1>1 DEF Chain!Ids, Rewritten
<1>4. CASE messages[j.id].kind = "gone"
  BY <1>4, <1>1, EndsIt DEF Chain!WriteEdit, Still
<1>5. CASE messages[j.id].kind # "gone" /\ j.text \in Long
  <2> DEFINE k == [j EXCEPT !.at = "parts", !.index = 1, !.chain = chains']
             m == Chain!Start(j.text, chains')
  <2>1. Chain!Size(j.text) > 1
    BY <1>5, Sizes
  <2>2. chains' = chains + 1 /\ messages' = [messages EXCEPT ![j.id] = m] /\ Chain!Put(q, k)
    BY <1>5, <2>1 DEF Chain!WriteEdit
  <2>7. m \in Telegram
    BY <1>1, <1>2, <1>5, <2>2, Sending DEF Sendable
  <2> HIDE DEF m
  <2>3. Rewritten(j.id, m)
    BY <1>3, <2>2, <2>7
  <2>4. /\ DOMAIN k = CallFields /\ k.at = "parts" /\ k.chain = chains' /\ k.index = 1
        /\ \A f \in CallFields \ {"at", "chain", "index"} : k[f] = j[f]
    BY <1>1 DEF CallFields
  <2> HIDE DEF k
  <2>5. job'[q] = k /\ Aside(q) /\ Moved(q, {"at", "index", "chain"})
    BY <2>2, <2>4, MovesOn
  <2> QED
    BY <1>1, <1>5, <2>2, <2>3, <2>4, <2>5 DEF m
<1>6. CASE messages[j.id].kind # "gone" /\ j.text \notin Long
  <2> DEFINE m == Chain!Whole(j.text)
  <2>1. ~(Chain!Size(j.text) > 1)
    BY <1>6, Sizes
  <2>2. chains' = chains /\ messages' = [messages EXCEPT ![j.id] = m] /\ Chain!End(q)
    BY <1>6, <2>1 DEF Chain!WriteEdit
  <2>7. m \in Telegram
    BY <1>1, <1>2, <1>6, <2>2, Sending DEF Sendable
  <2> HIDE DEF m
  <2>3. Rewritten(j.id, m)
    BY <1>3, <2>2, <2>7
  <2> QED
    BY <1>1, <1>6, <2>2, <2>3, EndsIt DEF m
<1> QED
  BY <1>4, <1>5, <1>6

LEMMA ListsPage ==
  ASSUME ChainTypes, NEW q \in Requests, Chain!ListPage(q)
  PROVE  LET j == job[q]  k == job'[q]
             page == Chain!PageOf(0, j.offset)
             found == {id \in page : Chain!Leads(id)}
             whole == {id \in found : messages[id].kind = "whole"}
         IN /\ Chain!Busy(q) /\ j.at = "page" /\ Still /\ Aside(q) /\ incidents \subseteq incidents'
            /\ Moved(q, {"at", "page", "heads"}) /\ k.at = "texts"
            /\ k.page = [id \in whole |-> Chain!Only(messages[id])]
            /\ k.heads = [id \in found \ whole |-> messages[id]]
            /\ "dropped" \notin incidents' => Chain!Ends(page) \/ found = page
            /\ "during" \notin incidents' => \A id \in found, r \in Requests : ~Chain!Writes(r, id)
<1> DEFINE j == job[q]
           page == Chain!PageOf(0, j.offset)
           found == {id \in page : Chain!Leads(id)}
           whole == {id \in found : messages[id].kind = "whole"}
           here == [id \in whole |-> Chain!Only(messages[id])]
           left == [id \in found \ whole |-> messages[id]]
           k == [j EXCEPT !.at = "texts", !.page = here, !.heads = left]
<1>1. Chain!Busy(q) /\ j.at = "page" /\ Still /\ DOMAIN j = CallFields
  BY IsAt DEF Chain!ListPage, Still, Placed
<1>2. /\ Chain!Put(q, k)
      /\ incidents' = incidents \cup (Chain!When(~Chain!Ends(page) /\ found # page, "dropped")
            \cup Chain!When(\E id \in found, r \in Requests : Chain!Writes(r, id), "during"))
  BY DEF Chain!ListPage, Chain!Mark
<1> HIDE DEF here, left
<1>3. /\ DOMAIN k = CallFields /\ k.at = "texts" /\ k.page = here /\ k.heads = left
      /\ \A f \in CallFields \ {"at", "page", "heads"} : k[f] = j[f]
  BY <1>1 DEF CallFields
<1> HIDE DEF k
<1>4. job'[q] = k /\ Aside(q) /\ Moved(q, {"at", "page", "heads"})
  BY <1>2, <1>3, MovesOn
<1> HIDE DEF found, page
<1>5. /\ incidents \subseteq incidents'
      /\ "dropped" \notin incidents' => Chain!Ends(page) \/ found = page
      /\ "during" \notin incidents' => \A id \in found, r \in Requests : ~Chain!Writes(r, id)
  BY <1>2 DEF Chain!When
<1> QED
  BY <1>1, <1>3, <1>4, <1>5 DEF found, page, here, left

LEMMA NextsText ==
  ASSUME ChainTypes, NEW q \in Requests, Chain!NextText(q)
  PROVE  LET j == job[q]  k == job'[q]
         IN /\ Chain!Busy(q) /\ j.at = "texts" /\ Still /\ Unmarked /\ Aside(q)
            /\ Moved(q, {"at", "from", "got"}) /\ k.at = "collect"
            /\ k.from \in DOMAIN j.heads /\ k.got = Chain!Only(j.heads[k.from])
<1> DEFINE j == job[q]
<1>1. Chain!Busy(q) /\ j.at = "texts" /\ Still /\ Unmarked /\ DOMAIN j = CallFields
  BY IsAt DEF Chain!NextText, Still, Unmarked, Placed
<1>2. PICK id \in DOMAIN j.heads :
        Chain!Put(q, [j EXCEPT !.at = "collect", !.from = id, !.got = Chain!Only(j.heads[id])])
  BY DEF Chain!NextText
<1> DEFINE k == [j EXCEPT !.at = "collect", !.from = id, !.got = Chain!Only(j.heads[id])]
<1>3. /\ DOMAIN k = CallFields /\ k.at = "collect" /\ k.from = id /\ k.got = Chain!Only(j.heads[id])
      /\ \A f \in CallFields \ {"at", "from", "got"} : k[f] = j[f]
  BY <1>1 DEF CallFields
<1>4. Chain!Put(q, k)
  BY <1>2
<1> HIDE DEF k
<1>5. job'[q] = k /\ Aside(q) /\ Moved(q, {"at", "from", "got"})
  BY <1>3, <1>4, MovesOn
<1> QED
  BY <1>1, <1>3, <1>5

LEMMA CollectsIt ==
  ASSUME ChainTypes, NEW q \in Requests, Chain!Collect(q)
  PROVE  LET j == job[q]  k == job'[q]
             head == j.heads[j.from]
             page == Chain!PageOf(j.from, j.below)
             got == j.got \cup {<<messages[id].text, messages[id].index>> :
                                  id \in {x \in page : Chain!OfChain(messages[x], j.from, head)}}
         IN /\ Chain!Busy(q) /\ j.at = "collect" /\ Still /\ Unmarked /\ Aside(q)
            /\ \/ /\ Chain!Ends(page) \/ Chain!Cardinality(got) = Chain!Size(head.text)
                  /\ Moved(q, {"at", "below", "from", "got", "heads", "page"})
                  /\ k.at = "texts" /\ k.below = 0
                  /\ k.heads = Chain!Restrict(j.heads, DOMAIN j.heads \ {j.from})
                  /\ k.page = Chain!Both(Chain!One(j.from, got), j.page)
               \/ /\ ~Chain!Ends(page) /\ Moved(q, {"got", "below"})
                  /\ k.got = got /\ k.below = Chain!Min(page)
<1> DEFINE j == job[q]
           head == j.heads[j.from]
           page == Chain!PageOf(j.from, j.below)
           got == j.got \cup {<<messages[id].text, messages[id].index>> :
                                id \in {x \in page : Chain!OfChain(messages[x], j.from, head)}}
           over == Chain!Ends(page) \/ Chain!Cardinality(got) = Chain!Size(head.text)
<1>1. Chain!Busy(q) /\ j.at = "collect" /\ Still /\ Unmarked /\ DOMAIN j = CallFields
  BY IsAt DEF Chain!Collect, Still, Unmarked, Placed
<1>2. Chain!Put(q, IF over
                   THEN [j EXCEPT !.at = "texts", !.below = 0, !.from = 0, !.got = {},
                                  !.heads = Chain!Restrict(@, DOMAIN @ \ {j.from}),
                                  !.page = Chain!Both(Chain!One(j.from, got), @)]
                   ELSE [j EXCEPT !.got = got, !.below = Chain!Min(page)])
  BY DEF Chain!Collect
<1>3. CASE over
  <2> DEFINE heads == Chain!Restrict(j.heads, DOMAIN j.heads \ {j.from})
             pages == Chain!Both(Chain!One(j.from, got), j.page)
             k == [j EXCEPT !.at = "texts", !.below = 0, !.from = 0, !.got = {},
                            !.heads = heads, !.page = pages]
  <2>1. Chain!Put(q, k)
    BY <1>1, <1>2, <1>3 DEF CallFields
  <2> HIDE DEF heads, pages
  <2>2. /\ DOMAIN k = CallFields /\ k.at = "texts" /\ k.below = 0 /\ k.heads = heads /\ k.page = pages
        /\ \A f \in CallFields \ {"at", "below", "from", "got", "heads", "page"} : k[f] = j[f]
    BY <1>1 DEF CallFields
  <2> HIDE DEF k
  <2>3. job'[q] = k /\ Aside(q) /\ Moved(q, {"at", "below", "from", "got", "heads", "page"})
    BY <2>1, <2>2, MovesOn
  <2> QED
    BY <1>1, <1>3, <2>2, <2>3 DEF heads, pages
<1>4. CASE ~over
  <2> DEFINE edge == Chain!Min(page)
             k == [j EXCEPT !.got = got, !.below = edge]
  <2>1. Chain!Put(q, k)
    BY <1>2, <1>4
  <2>2. ~Chain!Ends(page)
    BY <1>4
  <2> HIDE DEF edge, got, over
  <2>3. DOMAIN k = CallFields /\ k.got = got /\ k.below = edge /\ \A f \in CallFields \ {"got", "below"} : k[f] = j[f]
    BY <1>1 DEF CallFields
  <2> HIDE DEF k
  <2>4. job'[q] = k /\ Aside(q) /\ Moved(q, {"got", "below"})
    BY <2>1, <2>3, MovesOn
  <2> QED
    BY <1>1, <2>2, <2>3, <2>4 DEF edge, got
<1> QED
  BY <1>3, <1>4

LEMMA PagesDone ==
  ASSUME ChainTypes, NEW q \in Requests, Chain!PageDone(q)
  PROVE  LET j == job[q]  k == job'[q]
         IN /\ Chain!Busy(q) /\ j.at = "texts" /\ Still /\ Unmarked /\ Aside(q)
            /\ DOMAIN j.heads = {} /\ Moved(q, {"rows", "page", "at", "offset"})
            /\ k.rows = Chain!Both(j.rows, j.page) /\ DOMAIN k.page = {}
            /\ \/ /\ j.op = "get" \/ Chain!Cardinality(DOMAIN j.page) < Page
                  /\ k.at = "done" /\ k.offset = 0
               \/ /\ j.op # "get" /\ ~(Chain!Cardinality(DOMAIN j.page) < Page)
                  /\ k.at = "page" /\ k.offset = Chain!Min(DOMAIN j.page)
<1> DEFINE j == job[q]
           over == j.op = "get" \/ Chain!Cardinality(DOMAIN j.page) < Page
           both == Chain!Both(j.rows, j.page)
           place == IF over THEN "done" ELSE "page"
           edge == IF over THEN 0 ELSE Chain!NextOffset(j.page)
           k == [j EXCEPT !.rows = both, !.page = Chain!NoRows, !.at = place, !.offset = edge]
<1>1. Chain!Busy(q) /\ j.at = "texts" /\ Still /\ Unmarked /\ DOMAIN j = CallFields /\ DOMAIN j.heads = {}
  BY IsAt DEF Chain!PageDone, Still, Unmarked, Placed
<1>2. Chain!Put(q, [j EXCEPT !.rows = Chain!Both(@, j.page), !.page = Chain!NoRows,
                          !.at = place, !.offset = edge])
  BY <1>1 DEF Chain!PageDone
<1>3. DOMAIN Chain!NoRows = {} /\ k = [j EXCEPT !.rows = Chain!Both(@, j.page), !.page = Chain!NoRows,
                                          !.at = place, !.offset = edge]
  BY <1>1 DEF Chain!NoRows, CallFields
<1> HIDE DEF both, place, edge, over
<1>4. /\ DOMAIN k = CallFields /\ k.rows = both /\ k.page = Chain!NoRows /\ k.at = place /\ k.offset = edge
      /\ \A f \in CallFields \ {"rows", "page", "at", "offset"} : k[f] = j[f]
  BY <1>1 DEF CallFields
<1> HIDE DEF k
<1>5. job'[q] = k /\ Aside(q) /\ Moved(q, {"rows", "page", "at", "offset"})
  <2>1. Chain!Put(q, k)
    BY <1>2, <1>3, Zenon
  <2> QED
    BY <1>4, <2>1, MovesOn
<1>6. CASE over
  BY <1>1, <1>3, <1>4, <1>5, <1>6 DEF both, place, edge, over
<1>7. CASE ~over
  BY <1>1, <1>3, <1>4, <1>5, <1>7 DEF both, place, edge, over, Chain!NextOffset
<1> QED
  BY <1>6, <1>7

LEMMA AnswersIt ==
  ASSUME ChainTypes, NEW q \in Requests, Chain!Answer(q)
  PROVE  Chain!Busy(q) /\ job[q].at = "done" /\ Still /\ Unmarked /\ Aside(q) /\ Ended(q)
  BY IsAt, EndsIt DEF Chain!Answer, Still, Unmarked

LEMMA FloodsIt ==
  ASSUME ChainTypes, NEW q \in Requests, Chain!FloodWait(q)
  PROVE  LET j == job[q]  k == job'[q]
         IN /\ Chain!Busy(q) /\ j.at # "done" /\ Still /\ Aside(q) /\ incidents \subseteq incidents'
            /\ j.op = "send" /\ Chain!Begun(j) => "resent" \in incidents'
            /\ DOMAIN k = CallFields /\ k.op = j.op /\ k.at = Chain!First(j.op)
            /\ k.id = (IF j.op = "send" THEN 0 ELSE j.id) /\ k.text = j.text /\ k.begun = Chain!Begun(j)
            /\ k.ids = {} /\ k.below = 0 /\ DOMAIN k.heads = {} /\ DOMAIN k.page = {}
            /\ k.offset = j.offset /\ k.rows = j.rows /\ k.there = j.there
<1> DEFINE j == job[q]  id == IF j.op = "send" THEN 0 ELSE j.id
           b == Chain!Blank(j.op, id, j.text)
           begun == Chain!Begun(j)
           k == [b EXCEPT !.again = TRUE, !.begun = begun,
                          !.offset = j.offset, !.rows = j.rows, !.there = j.there]
<1>1. Chain!Busy(q) /\ j.at # "done" /\ Still
  BY DEF Chain!FloodWait, Still
<1>2. Chain!Put(q, k)
  BY DEF Chain!FloodWait
<1>3. incidents \subseteq incidents' /\ (j.op = "send" /\ Chain!Begun(j) => "resent" \in incidents')
  BY DEF Chain!FloodWait, Chain!Mark, Chain!When
<1> HIDE DEF id, begun
<1>4. /\ DOMAIN b = CallFields /\ b.op = j.op /\ b.at = Chain!First(j.op) /\ b.id = id /\ b.text = j.text
      /\ b.ids = {} /\ b.below = 0 /\ DOMAIN b.heads = {} /\ DOMAIN b.page = {}
  <2>1. Unbegun(b, j.op, id, j.text)
    BY BlankHas
  <2> HIDE DEF b
  <2> QED
    BY <2>1 DEF Unbegun
<1> HIDE DEF b
<1>5. /\ DOMAIN k = CallFields /\ k.begun = begun /\ k.offset = j.offset /\ k.rows = j.rows /\ k.there = j.there
      /\ \A f \in CallFields \ {"again", "begun", "offset", "rows", "there"} : k[f] = b[f]
  BY <1>4 DEF CallFields
<1> HIDE DEF k
<1>6. job'[q] = k /\ Aside(q)
  BY <1>2, PutsIt DEF ChainTypes
<1>7. /\ k.op = j.op /\ k.at = Chain!First(j.op) /\ k.id = id /\ k.text = j.text
      /\ k.ids = {} /\ k.below = 0 /\ DOMAIN k.heads = {} /\ DOMAIN k.page = {}
  BY <1>4, <1>5 DEF CallFields
<1> QED
  BY <1>1, <1>3, <1>5, <1>6, <1>7 DEF id, begun

LEMMA FailsIt ==
  ASSUME ChainTypes, NEW q \in Requests, Chain!Fail(q)
  PROVE  /\ Chain!Busy(q) /\ Still /\ Aside(q) /\ Ended(q) /\ incidents \subseteq incidents'
         /\ Chain!Begun(job[q]) => "cut" \in incidents'
  BY EndsIt DEF Chain!Fail, Still, Chain!Mark, Chain!When

\* A call begins.
Opens(q, op, id, text) ==
  /\ ~Chain!Busy(q) /\ Still /\ Aside(q) /\ job'[q] = Chain!Blank(op, id, text)
  /\ op \in Operations
  /\ op \in {"send", "list"} => id = 0
  /\ op \in {"edit", "delete", "get"} => Leading(id)
  /\ op \in {"send", "edit"} => text \in Chain!Texts
  /\ incidents \subseteq incidents'
  /\ "together" \notin incidents' /\ op # "get" => \A r \in Requests : id # 0 => ~Chain!Writes(r, id)
  /\ "during" \notin incidents' /\ op = "get" => \A r \in Requests : ~Chain!Writes(r, id)
  /\ "during" \notin incidents' /\ op \in {"edit", "delete"} => \A r \in Requests : ~Chain!Reads(r, id)

LEMMA OpensOne ==
  ASSUME ChainTypes, NEW q \in Requests,
         Chain!Send(q) \/ Chain!Edit(q) \/ Chain!Delete(q) \/ Chain!Get(q) \/ Chain!List(q)
  PROVE  \E op, id, text : Opens(q, op, id, text)
<1>1. ASSUME NEW op \in Operations, NEW id, NEW text, Chain!Begin(q, op, id, text),
             op \in {"send", "list"} => id = 0, op \in {"edit", "delete", "get"} => Leading(id),
             op \in {"send", "edit"} => text \in Chain!Texts
      PROVE  Opens(q, op, id, text)
  <2>1. ~Chain!Busy(q) /\ Still /\ Chain!Put(q, Chain!Blank(op, id, text))
    BY <1>1 DEF Chain!Begin, Still
  <2>2. Aside(q) /\ job'[q] = Chain!Blank(op, id, text)
    BY <2>1, PutsIt DEF ChainTypes
  <2> DEFINE A == op # "get" /\ \E r \in Requests : id # 0 /\ Chain!Writes(r, id)
             B == op = "get" /\ \E r \in Requests : Chain!Writes(r, id)
             C == op \in {"edit", "delete"} /\ \E r \in Requests : Chain!Reads(r, id)
  <2>3. incidents' = incidents \cup (Chain!When(A, "together") \cup Chain!When(B, "during")
                                     \cup Chain!When(C, "during"))
    BY <1>1 DEF Chain!Begin, Chain!Mark
  <2> HIDE DEF A, B, C
  <2>4. /\ incidents \subseteq incidents' /\ ("together" \notin incidents' => ~A)
        /\ "during" \notin incidents' => ~B /\ ~C
    BY <2>3 DEF Chain!When
  <2>5. /\ "together" \notin incidents' /\ op # "get" => \A r \in Requests : id # 0 => ~Chain!Writes(r, id)
        /\ "during" \notin incidents' /\ op = "get" => \A r \in Requests : ~Chain!Writes(r, id)
        /\ "during" \notin incidents' /\ op \in {"edit", "delete"} => \A r \in Requests : ~Chain!Reads(r, id)
    BY <2>4 DEF A, B, C
  <2> QED
    BY <1>1, <2>1, <2>2, <2>4, <2>5 DEF Opens
<1>2. \A id \in Chain!Known : Leading(id)
  BY DEF Chain!Known, Leading
<1>3. CASE Chain!Send(q)
  BY <1>1, <1>3 DEF Chain!Send, Operations
<1>4. CASE Chain!Edit(q)
  BY <1>1, <1>2, <1>4 DEF Chain!Edit, Operations
<1>5. CASE Chain!Delete(q)
  BY <1>1, <1>2, <1>5 DEF Chain!Delete, Operations
<1>6. CASE Chain!Get(q)
  BY <1>1, <1>2, <1>6 DEF Chain!Get, Operations
<1>7. CASE Chain!List(q)
  BY <1>1, <1>7 DEF Chain!List, Operations
<1> QED
  BY <1>3, <1>4, <1>5, <1>6, <1>7

-----------------------------------------------------------------------------
(* Chains: the types hold.                                                  *)

LEMMA ChannelHas ==
  ASSUME ChannelTypes
  PROVE  /\ Len(messages) \in Nat /\ Chain!Ids = 1..Len(messages) /\ chains \in Nat
         /\ \A id \in Chain!Ids : messages[id] \in Telegram /\ Formed(messages[id])
  BY DEF ChannelTypes, Chain!Ids

LEMMA GrownChannel ==
  ASSUME ChainTypes, NEW m, Grown(m), Sendable(m), m.kind = "part" => Leading(m.parent),
         chains' \in Nat, chains <= chains'
  PROVE  ChannelTypes' /\ Ordered' /\ Onward
  BY ChannelHas DEF ChainTypes, Grown, Chain!Ids, ChannelTypes, Sendable, Leading, Ordered, Onward

LEMMA ChangedChannel ==
  ASSUME ChainTypes, messages' \in Seq(Telegram), Len(messages') = Len(messages),
         chains' \in Nat, chains <= chains',
         \A id \in Chain!Ids :
           \/ messages'[id] = messages[id]
           \/ messages'[id] = Chain!Gone
           \/ /\ Sendable(messages'[id]) /\ messages'[id].kind # "part"
              /\ messages[id].kind \notin {"part", "gone"}
  PROVE  ChannelTypes' /\ Ordered' /\ Onward
<1>1. /\ Len(messages) \in Nat /\ Chain!Ids = 1..Len(messages) /\ chains \in Nat
      /\ \A id \in Chain!Ids : messages[id] \in Telegram /\ Formed(messages[id])
  BY ChannelHas DEF ChainTypes
<1>2. Chain!Ids' = Chain!Ids
  BY DEF Chain!Ids
<1>3. Sendable(Chain!Gone) /\ Chain!Gone.kind = "gone"
  BY Sending DEF Chain!Gone
<1>4. \A id \in Chain!Ids : Formed(messages'[id])
  BY <1>1, <1>3 DEF Sendable
<1>5. ChannelTypes'
  BY <1>2, <1>4 DEF ChannelTypes
<1>6. \A id \in Chain!Ids : /\ messages[id].kind = "part" => messages'[id] \in {messages[id], Chain!Gone}
                            /\ messages[id].kind # "part" => messages'[id].kind # "part"
                            /\ messages[id].kind = "gone" => messages'[id].kind = "gone"
  BY <1>3
<1>7. Onward
  BY <1>1, <1>6 DEF Onward
<1>8. \A id : Leading(id) => Leading(id)'
  BY <1>2, <1>6 DEF Leading
<1>9. ASSUME NEW p \in Chain!Ids, messages'[p].kind = "part"
      PROVE  messages'[p].parent < p /\ Leading(messages[p].parent)'
  BY <1>3, <1>9, <1>8 DEF ChainTypes, Ordered
<1>10. Ordered'
  BY <1>2, <1>9 DEF Ordered
<1> QED
  BY <1>5, <1>7, <1>10

LEMMA StillChannel ==
  ASSUME ChainTypes, Still
  PROVE  ChannelTypes' /\ Ordered' /\ Onward
  BY ChannelHas DEF ChainTypes, ChannelTypes, Ordered, Leading, Still, Chain!Ids, Onward

\* What a call knows of the channel stays so while the channel goes onward.
LEMMA StaysInformed ==
  ASSUME ChainTypes, Onward, ChannelTypes', NEW j, Informed(j), NEW k, Like(j, k)
  PROVE  /\ j.op \in {"edit", "delete", "get"} \/ j.at = "parts" => Leading(k.id)'
         /\ k.at = "parts" => k.chain \in 1..(chains')
         /\ k.at \in {"fetch", "scan", "clear", "write"} =>
              \A i \in k.ids : i \in Chain!Ids' /\ messages'[i].kind \in {"part", "gone"}
         /\ \A id \in DOMAIN k.heads : Leading(id)' /\ k.heads[id] \in Telegram /\ Formed(k.heads[id])
                                       /\ k.heads[id].kind = "start"
  BY ChannelHas DEF ChainTypes, ChannelTypes, Chain!Ids, Onward, Leading, Chain!Gone, Like, Informed

LEMMA OthersTyped ==
  ASSUME ChainTypes, Onward, ChannelTypes', NEW q \in Requests, Aside(q),
         Chain!Busy(q)' => Placed(job'[q]) /\ Informed(job[q])'
  PROVE  CallTypes'
  BY StaysInformed DEF Aside, ChainTypes, CallTypes, Like, Placed, Informed

LEMMA TypedBy ==
  ASSUME ChainTypes, Onward, ChannelTypes', Ordered', NEW q \in Requests, Aside(q),
         Chain!Busy(q)' => Placed(job'[q]) /\ Informed(job[q])'
  PROVE  ChainTypes'
  BY OthersTyped DEF ChainTypes

LEMMA EndedIdle ==
  ASSUME NEW q \in Requests, Ended(q)
  PROVE  ~Chain!Busy(q)'
  BY DEF Ended, Chain!Busy

LEMMA BusyAt ==
  ASSUME ChainTypes, NEW q \in Requests, Chain!Busy(q)
  PROVE  Placed(job[q]) /\ Informed(job[q]) /\ DOMAIN job[q] = CallFields
  BY DEF ChainTypes, CallTypes, Placed

LEMMA OpensTyped ==
  ASSUME ChainTypes, NEW q \in Requests, NEW op, NEW id, NEW text, Opens(q, op, id, text)
  PROVE  ChainTypes' /\ Onward
<1>1. ChannelTypes' /\ Ordered' /\ Onward /\ Still /\ Aside(q)
  BY StillChannel DEF Opens
<1> DEFINE k == job'[q]
<1>2. Unbegun(k, op, id, text)
  BY BlankHas DEF Opens
<1>3. /\ op \in Operations /\ (op \in {"send", "list"} => id = 0)
      /\ op \in {"edit", "delete", "get"} => Leading(id)
      /\ op \in {"send", "edit"} => text \in Chain!Texts
  BY DEF Opens
<1>4. id \in Nat
  BY ChannelHas, <1>3 DEF Leading, ChainTypes, Operations
<1>5. Placed(k)
  <2>1. k.at \in Places(op) /\ k.at \in {"first", "page", "fetch"} /\ (k.at = "first" => op = "send")
    BY <1>2, <1>3 DEF Unbegun, Operations, Places, Chain!First
  <2>2. k.begun \in BOOLEAN
    BY <1>2 DEF Unbegun
  <2>3. k.op \in Operations /\ k.id \in Nat /\ k.below \in Nat /\ k.offset \in Nat /\ DOMAIN k.page \subseteq Nat
    BY <1>2, <1>3, <1>4 DEF Unbegun
  <2>4. k.op \in {"send", "edit"} => k.text \in Chain!Texts
    BY <1>2, <1>3 DEF Unbegun
  <2> HIDE DEF k
  <2> QED
    BY <1>2, <1>3, <2>1, <2>2, <2>3, <2>4 DEF Unbegun, Placed
<1>6. Leading(id) => Leading(id)'
  BY <1>1 DEF Leading, Still, Chain!Ids
<1>7. Informed(job[q])'
  BY <1>2, <1>3, <1>6 DEF Unbegun, Informed, Operations, Places, Chain!First
<1> QED
  BY <1>1, <1>5, <1>7, TypedBy

LEMMA SendsFirstTyped ==
  ASSUME ChainTypes, NEW q \in Requests, Chain!SendFirst(q)
  PROVE  ChainTypes' /\ Onward
<1> DEFINE j == job[q]  k == job'[q]
<1>1. Chain!Busy(q) /\ j.at = "first" /\ Aside(q) /\ Placed(j) /\ chains \in Nat
  BY SendsFirst, BusyAt, ChannelHas DEF ChainTypes
<1>2. j.op = "send" /\ j.text \in Chain!Texts /\ DOMAIN j.heads = {}
  BY <1>1 DEF Placed, Places, Operations
<1>3. CASE /\ j.text \in Long /\ chains' = chains + 1
           /\ Grown(Chain!Start(j.text, chains + 1))
           /\ Moved(q, {"at", "id", "chain", "index"})
           /\ k.at = "parts" /\ k.id = Len(messages) + 1 /\ k.chain = chains + 1 /\ k.index = 1
  <2> DEFINE m == Chain!Start(j.text, chains + 1)
  <2>0. chains + 1 \in Nat \ {0} /\ chains' \in Nat /\ chains <= chains'
    BY <1>1, <1>3
  <2>1. Sendable(m) /\ m.kind = "start"
    BY <1>3, <2>0, Sending DEF Chain!Start, Chain!Gone
  <2>8. Grown(m)
    BY <1>3
  <2> HIDE DEF m
  <2>2. ChannelTypes' /\ Ordered' /\ Onward
    BY <2>0, <2>1, <2>8, GrownChannel
  <2>3. /\ DOMAIN k = CallFields /\ k.op = j.op /\ k.begun = j.begun /\ k.below = j.below
        /\ k.offset = j.offset /\ k.page = j.page /\ k.text = j.text /\ k.heads = j.heads
    BY <1>3 DEF Moved, CallFields
  <2>4. Len(messages) + 1 \in Nat /\ Len(messages) + 1 \in Chain!Ids' /\ messages'[Len(messages) + 1] = m
    BY <1>3, ChannelHas DEF Grown, Chain!Ids, ChainTypes, m
  <2>5. Placed(k)
    BY <1>1, <1>2, <1>3, <2>3, <2>4, Sizes DEF Placed, Places, Operations
  <2>6. Leading(job[q].id)'
    BY <1>3, <2>1, <2>4 DEF Leading
  <2>7. Informed(job[q])'
    BY <1>1, <1>2, <1>3, <2>3, <2>6 DEF Informed
  <2> QED
    BY <1>1, <2>2, <2>5, <2>7, TypedBy
<1>4. CASE j.text \notin Long /\ UNCHANGED chains /\ Grown(Chain!Whole(j.text)) /\ Ended(q)
  <2> DEFINE m == Chain!Whole(j.text)
  <2>1. Sendable(m) /\ m.kind = "whole"
    BY <1>2, <1>4, Sending DEF Chain!Whole, Chain!Gone
  <2> HIDE DEF m
  <2>2. Grown(m) /\ m.kind # "part"
    BY <1>4, <2>1 DEF m
  <2>3. ChannelTypes' /\ Ordered' /\ Onward
    BY <1>1, <1>4, <2>1, <2>2, GrownChannel
  <2> QED
    BY <1>1, <1>4, <2>3, EndedIdle, TypedBy
<1> QED
  BY <1>3, <1>4, SendsFirst

LEMMA SendsPartTyped ==
  ASSUME ChainTypes, NEW q \in Requests, Chain!SendPart(q)
  PROVE  ChainTypes' /\ Onward
<1> DEFINE j == job[q]  k == job'[q]  m == Chain!Part(j.text, j.index, j.chain, j.id)
<1>1. /\ Chain!Busy(q) /\ j.at = "parts" /\ Aside(q) /\ Placed(j) /\ Informed(j) /\ chains \in Nat
      /\ UNCHANGED chains /\ Grown(m)
  BY SendsPart, BusyAt, ChannelHas DEF ChainTypes
<1>2. j.text \in Long /\ j.index \in 1..(LongParts - 1) /\ j.chain \in 1..chains /\ Leading(j.id) /\ j.id \in Nat
  BY <1>1 DEF Placed, Informed
<1>3. Sendable(m) /\ m.parent = j.id
  BY <1>1, <1>2, Sending DEF Chain!Part
<1> HIDE DEF m
<1>4. ChannelTypes' /\ Ordered' /\ Onward
  BY <1>1, <1>2, <1>3, GrownChannel
<1>5. CASE j.index + 1 # LongParts /\ Moved(q, {"index"}) /\ k.index = j.index + 1
  <2>1. Like(j, [k EXCEPT !.index = j.index]) /\ DOMAIN k = CallFields
    BY <1>1, <1>5 DEF Moved, CallFields, Placed, Like
  <2>2. /\ k.op = j.op /\ k.at = j.at /\ k.id = j.id /\ k.text = j.text /\ k.begun = j.begun
        /\ k.chain = j.chain /\ k.below = j.below /\ k.offset = j.offset /\ k.page = j.page /\ k.heads = j.heads
    BY <1>5 DEF Moved, CallFields
  <2>3. k.index \in 1..(LongParts - 1)
    BY <1>2, <1>5, Sizes
  <2>4. Placed(k)
    BY <1>1, <2>1, <2>2, <2>3 DEF Placed
  <2>5. DOMAIN j.heads = {} /\ \A id : Leading(id) => Leading(id)'
    BY <1>1, <1>4, ChannelHas DEF Leading, Onward, Placed, Chain!Ids, Grown, ChainTypes
  <2>6. Informed(job[q])'
    BY <1>1, <1>2, <2>2, <2>5 DEF Informed
  <2> QED
    BY <1>1, <1>4, <2>4, <2>6, TypedBy
<1>6. CASE Ended(q)
  BY <1>1, <1>4, <1>6, EndedIdle, TypedBy
<1> QED
  BY <1>5, <1>6, SendsPart

LEMMA FetchesTyped ==
  ASSUME ChainTypes, NEW q \in Requests, Chain!Fetch(q)
  PROVE  ChainTypes' /\ Onward
<1> DEFINE j == job[q]  k == job'[q]  m == messages[j.id]
<1>1. Chain!Busy(q) /\ j.at = "fetch" /\ Still /\ Aside(q) /\ Placed(j) /\ Informed(j)
  BY Fetches, BusyAt
<1>2. ChannelTypes' /\ Ordered' /\ Onward
  BY <1>1, StillChannel
<1>3. /\ j.op \in {"edit", "delete", "get"} /\ Leading(j.id) /\ j.ids = {} /\ j.below = 0 /\ DOMAIN j.heads = {}
      /\ j.id \in Nat /\ j.offset \in Nat /\ j.begun \in BOOLEAN
  BY <1>1 DEF Placed, Informed, Places, Operations
<1>4. m \in Telegram /\ Formed(m) /\ m.kind # "part"
  BY <1>3, ChannelHas DEF Leading, ChainTypes
<1>5. \A id : Leading(id) => Leading(id)'
  BY <1>1 DEF Leading, Still, Chain!Ids
<1> HIDE DEF m
<1>6. CASE j.op # "get" /\ Moved(q, {"at", "head"}) /\ k.at = "scan" /\ k.head = m
  BY <1>6, <1>1, <1>3, <1>4, <1>5, <1>2, TypedBy DEF Moved, CallFields, Placed, Places, Operations,
     Informed
<1>7. CASE /\ j.op = "get" /\ m.kind = "start" /\ Moved(q, {"at", "heads"})
           /\ k.at = "texts" /\ k.heads = Chain!One(j.id, m)
  BY <1>7, <1>1, <1>3, <1>4, <1>5, <1>2, TypedBy DEF Moved, CallFields, Chain!One, Placed, Places,
     Operations, Informed
<1>8. CASE /\ j.op = "get" /\ m.kind = "whole" /\ Moved(q, {"at", "rows"}) /\ k.at = "done"
  BY <1>8, <1>1, <1>3, <1>4, <1>5, <1>2, TypedBy DEF Moved, CallFields, Placed, Places, Operations,
     Informed
<1>9. CASE Ended(q)
  BY <1>1, <1>2, <1>9, EndedIdle, TypedBy
<1> QED
  BY <1>6, <1>7, <1>8, <1>9, Fetches DEF m

\* The ids that a page may have.
Within(id, above, below) ==
  id \in Chain!Ids /\ messages[id].kind # "gone" /\ id > above /\ (below = 0 \/ id < below)

\* A page is the newest of them, and all if it is shorter than a page can be.
LEMMA PageHas ==
  ASSUME ChannelTypes, NEW above \in Nat, NEW below \in Nat, NEW page, page = Chain!PageOf(above, below)
  PROVE  /\ page \subseteq Chain!Ids /\ IsFiniteSet(page)
         /\ \A x \in page : Within(x, above, below)
         /\ \A x \in page : \A y : Within(y, above, below) /\ y > x => y \in page
         /\ Chain!Ends(page) => \A y : Within(y, above, below) => y \in page
         /\ ~Chain!Ends(page) => /\ Cardinality(page) >= Page
                                 /\ Chain!Min(page) \in page /\ \A x \in page : Chain!Min(page) <= x
<1> DEFINE all == {id \in Chain!Ids : /\ messages[id].kind # "gone" /\ id > above
                                      /\ below = 0 \/ id < below}
           newer(id) == {n \in all : n > id}
<1>1. /\ Len(messages) \in Nat /\ Chain!Ids = 1..Len(messages) /\ all \subseteq Chain!Ids
      /\ \A y : Within(y, above, below) <=> y \in all
  BY ChannelHas DEF Within
<1>2. page = {id \in all : Cardinality(newer(id)) < Page} /\ (Chain!Ends(page) <=> Cardinality(page) < Page)
  BY SameCount DEF Chain!PageOf, Chain!Ends
<1>3. IsFiniteSet(all)
  <2>1. 1 \in Int /\ Len(messages) \in Int
    BY <1>1
  <2>2. IsFiniteSet(1..Len(messages))
    BY <2>1, FS_Interval
  <2> QED
    BY <1>1, <2>2, FS_Subset
<1>4. \A id : IsFiniteSet(newer(id)) /\ Cardinality(newer(id)) \in Nat
  BY <1>3, FS_Subset, FS_CardinalityType
<1>5. IsFiniteSet(page) /\ Cardinality(page) \in Nat
  BY <1>2, <1>3, FS_Subset, FS_CardinalityType
<1> HIDE DEF all
<1>9. page \subseteq all /\ \A n \in all : n \in Nat /\ n <= Len(messages)
  BY <1>1, <1>2
<1>6. ASSUME NEW x \in page, NEW y \in all, y > x PROVE y \in page
  <2>1. x \in Nat /\ y \in Nat
    BY <1>9
  <2>2. \A n \in all : n \in Nat /\ (n > y => n > x)
    BY <1>6, <1>9, <2>1
  <2>7. newer(y) \subseteq newer(x)
    BY <2>2
  <2>3. Cardinality(newer(y)) <= Cardinality(newer(x))
    BY <1>4, <2>7, FS_Subset
  <2>4. Cardinality(newer(x)) < Page /\ Page \in Nat
    BY <1>2, StorageAssumption
  <2> HIDE DEF newer
  <2>5. Cardinality(newer(y)) < Page
    BY <1>4, <2>3, <2>4
  <2> QED
    BY <1>2, <2>5
<1>7. ASSUME Cardinality(page) < Page PROVE \A y \in all : y \in page
  <2> SUFFICES ASSUME all \ page # {} PROVE FALSE
    OBVIOUS
  <2>1. all \ page \in SUBSET Nat /\ \A n \in all \ page : n <= Len(messages)
    BY <1>9
  <2>2. PICK y \in all \ page : \A n \in all \ page : n <= y
    BY <1>1, <2>1, GreatestThere
  <2>3. newer(y) \subseteq page
    BY <2>1, <2>2
  <2>4. Cardinality(newer(y)) <= Cardinality(page)
    BY <1>5, <2>3, FS_Subset
  <2>5. Page \in Nat
    BY StorageAssumption
  <2>6. Cardinality(newer(y)) < Page
    BY <1>4, <1>5, <1>7, <2>4, <2>5
  <2> QED
    BY <1>2, <2>6
<1>8. ASSUME ~(Cardinality(page) < Page)
      PROVE  /\ Cardinality(page) >= Page
             /\ Chain!Min(page) \in page /\ \A x \in page : Chain!Min(page) <= x
  <2>1. Page \in Nat \ {0}
    BY StorageAssumption
  <2>2. page # {}
    BY <1>8, <2>1, FS_EmptySet
  <2>3. page \in SUBSET Nat
    BY <1>9
  <2>4. \E m \in page : \A n \in page : m <= n
    BY <2>2, <2>3, LeastThere
  <2>5. Chain!Min(page) = CHOOSE m \in page : \A n \in page : m <= n
    BY DEF Chain!Min
  <2>6. Chain!Min(page) \in page /\ \A x \in page : Chain!Min(page) <= x
    BY <2>4, <2>5
  <2> QED
    BY <1>5, <1>8, <2>1, <2>6
<1> QED
  BY <1>1, <1>2, <1>5, <1>6, <1>7, <1>8, <1>9

LEMMA ScanTyped ==
  ASSUME ChainTypes, NEW q \in Requests, Chain!Scan(q)
  PROVE  ChainTypes' /\ Onward
<1> DEFINE j == job[q]  k == job'[q]  page == Chain!PageOf(j.id, j.below)
<1>1. Chain!Busy(q) /\ j.at = "scan" /\ Still /\ Aside(q) /\ Placed(j) /\ Informed(j)
  BY ScansIt, BusyAt
<1>2. ChannelTypes' /\ Ordered' /\ Onward
  BY <1>1, StillChannel
<1>3. /\ j.op \in {"edit", "delete"} /\ Leading(j.id) /\ DOMAIN j.heads = {}
      /\ j.id \in Nat /\ j.below \in Nat
  BY <1>1 DEF Placed, Informed, Places, Operations
<1>4. \A id : Leading(id) => Leading(id)'
  BY <1>1 DEF Leading, Still, Chain!Ids
<1>5. /\ page \subseteq Chain!Ids /\ (~Chain!Ends(page) => Chain!Min(page) \in Nat)
  BY <1>3, PageHas, ChannelHas DEF ChainTypes
<1> HIDE DEF page
<1>6. /\ Moved(q, {"ids", "below", "at"})
      /\ k.ids = j.ids \cup {id \in page : Chain!Belongs(messages[id], j.id, j.head)}
      /\ k.below \in Nat /\ k.at \in {"scan", "clear", "write"}
  BY <1>5, ScansIt DEF page
<1>7. /\ DOMAIN k = CallFields /\ k.op = j.op /\ k.id = j.id /\ k.text = j.text /\ k.begun = j.begun
      /\ k.head = j.head /\ k.offset = j.offset /\ k.page = j.page /\ k.heads = j.heads
  BY <1>6 DEF Moved, CallFields
<1>8. Placed(k)
  BY <1>1, <1>3, <1>6, <1>7 DEF Placed, Places, Operations
<1>9. \A i \in k.ids : i \in Chain!Ids /\ messages[i].kind \in {"part", "gone"}
  BY <1>1, <1>5, <1>6 DEF Informed, Chain!Belongs
<1>10. \A i \in k.ids : i \in Chain!Ids' /\ messages'[i].kind \in {"part", "gone"}
  BY <1>1, <1>9 DEF Still, Chain!Ids
<1>11. Informed(job[q])'
  BY <1>1, <1>3, <1>4, <1>6, <1>7, <1>10 DEF Informed
<1> QED
  BY <1>1, <1>2, <1>8, <1>11, TypedBy

LEMMA ClearTyped ==
  ASSUME ChainTypes, NEW q \in Requests, Chain!Clear(q)
  PROVE  ChainTypes' /\ Onward
<1> DEFINE j == job[q]  k == job'[q]
<1>1. /\ Chain!Busy(q) /\ j.at = "clear" /\ Aside(q) /\ Placed(j) /\ Informed(j) /\ UNCHANGED chains
      /\ Emptied(j.ids) /\ Moved(q, {"at"}) /\ k.at = "write"
  BY ClearsIt, BusyAt
<1>2. chains \in Nat
  BY ChannelHas DEF ChainTypes
<1>3. ChannelTypes' /\ Ordered' /\ Onward
  BY <1>1, <1>2, ChangedChannel DEF Emptied
<1>4. /\ DOMAIN k = CallFields /\ k.op = j.op /\ k.id = j.id /\ k.text = j.text /\ k.begun = j.begun
      /\ k.head = j.head /\ k.offset = j.offset /\ k.page = j.page /\ k.heads = j.heads /\ k.below = j.below /\ k.ids = j.ids
  BY <1>1 DEF Moved, CallFields
<1>5. j.op \in {"edit", "delete"} /\ Leading(j.id) /\ DOMAIN j.heads = {}
  BY <1>1 DEF Placed, Informed, Places, Operations
<1>6. Placed(k)
  BY <1>1, <1>4, <1>5 DEF Placed, Places, Operations
<1>7. \A id : Leading(id) => Leading(id)'
  BY <1>3, ChannelHas DEF Leading, Onward, Emptied, Chain!Ids
<1>8. \A i \in j.ids : i \in Chain!Ids /\ messages'[i] = Chain!Gone
  BY <1>1 DEF Informed, Emptied
<1>9. \A i \in k.ids : i \in Chain!Ids' /\ messages'[i].kind \in {"part", "gone"}
  BY <1>1, <1>4, <1>8 DEF Emptied, Chain!Ids, Chain!Gone
<1>10. Informed(job[q])'
  BY <1>1, <1>4, <1>5, <1>7, <1>9 DEF Informed
<1> QED
  BY <1>1, <1>3, <1>6, <1>10, TypedBy

LEMMA DeleteTyped ==
  ASSUME ChainTypes, NEW q \in Requests, Chain!WriteDelete(q)
  PROVE  ChainTypes' /\ Onward
<1> DEFINE j == job[q]
<1>1. /\ Chain!Busy(q) /\ Aside(q) /\ UNCHANGED chains /\ Rewritten(j.id, Chain!Gone) /\ Ended(q)
  BY DeletesIt
<1>2. chains \in Nat
  BY ChannelHas DEF ChainTypes
<1>3. ChannelTypes' /\ Ordered' /\ Onward
  BY <1>1, <1>2, ChangedChannel DEF Rewritten
<1> QED
  BY <1>1, <1>3, EndedIdle, TypedBy

LEMMA EditTyped ==
  ASSUME ChainTypes, NEW q \in Requests, Chain!WriteEdit(q)
  PROVE  ChainTypes' /\ Onward
<1> DEFINE j == job[q]  k == job'[q]
<1>1. Chain!Busy(q) /\ j.at = "write" /\ j.op = "edit" /\ Aside(q) /\ Placed(j) /\ Informed(j)
  BY EditsIt, BusyAt
<1>2. chains \in Nat /\ Leading(j.id) /\ j.text \in Chain!Texts /\ DOMAIN j.heads = {} /\ j.id \in Nat
  BY <1>1, ChannelHas DEF Placed, Informed, ChainTypes
<1>3. ASSUME NEW m, Sendable(m), m.kind # "part", Rewritten(j.id, m), messages[j.id].kind # "gone",
             chains' \in Nat, chains <= chains'
      PROVE  ChannelTypes' /\ Ordered' /\ Onward
  BY <1>2, <1>3, ChangedChannel DEF Rewritten, Leading
<1>4. CASE Still /\ Ended(q)
  BY <1>1, <1>4, StillChannel, EndedIdle, TypedBy
<1>5. CASE /\ messages[j.id].kind # "gone" /\ j.text \in Long /\ chains' = chains + 1
           /\ Rewritten(j.id, Chain!Start(j.text, chains + 1))
           /\ Moved(q, {"at", "index", "chain"})
           /\ k.at = "parts" /\ k.index = 1 /\ k.chain = chains + 1
  <2>1. chains + 1 \in Nat \ {0} /\ chains' \in Nat /\ chains <= chains'
    BY <1>2, <1>5
  <2> DEFINE m == Chain!Start(j.text, chains + 1)
  <2>2. Sendable(m) /\ m.kind # "part"
    BY <1>5, <2>1, Sending DEF Chain!Start, Chain!Gone
  <2>3. Rewritten(j.id, m)
    BY <1>5
  <2> HIDE DEF m
  <2>4. ChannelTypes' /\ Ordered' /\ Onward
    BY <1>3, <1>5, <2>1, <2>2, <2>3
  <2>5. /\ DOMAIN k = CallFields /\ k.op = j.op /\ k.id = j.id /\ k.text = j.text /\ k.begun = j.begun
        /\ k.offset = j.offset /\ k.page = j.page /\ k.heads = j.heads /\ k.below = j.below
    BY <1>5 DEF Moved, CallFields
  <2>6. Placed(k)
    BY <1>1, <1>2, <1>5, <2>5, Sizes DEF Placed, Places, Operations
  <2>7. \A id : Leading(id) => Leading(id)'
    BY <2>3, <2>4, ChannelHas DEF Leading, Onward, Rewritten, Chain!Ids
  <2>8. Informed(job[q])'
    BY <1>1, <1>2, <1>5, <2>1, <2>5, <2>7 DEF Informed
  <2> QED
    BY <1>1, <2>4, <2>6, <2>8, TypedBy
<1>6. CASE /\ messages[j.id].kind # "gone" /\ j.text \notin Long /\ UNCHANGED chains
           /\ Rewritten(j.id, Chain!Whole(j.text)) /\ Ended(q)
  <2> DEFINE m == Chain!Whole(j.text)
  <2>1. Sendable(m) /\ m.kind # "part"
    BY <1>2, <1>6, Sending DEF Chain!Whole, Chain!Gone
  <2>2. Rewritten(j.id, m)
    BY <1>6
  <2> HIDE DEF m
  <2>3. ChannelTypes' /\ Ordered' /\ Onward
    BY <1>2, <1>3, <1>6, <2>1, <2>2
  <2> QED
    BY <1>1, <1>6, <2>3, EndedIdle, TypedBy
<1> QED
  BY <1>4, <1>5, <1>6, EditsIt

LEMMA ListPageTyped ==
  ASSUME ChainTypes, NEW q \in Requests, Chain!ListPage(q)
  PROVE  ChainTypes' /\ Onward
<1> DEFINE j == job[q]  k == job'[q]
           page == Chain!PageOf(0, j.offset)
           found == {id \in page : Chain!Leads(id)}
           whole == {id \in found : messages[id].kind = "whole"}
<1>1. /\ Chain!Busy(q) /\ j.at = "page" /\ Still /\ Aside(q) /\ Placed(j) /\ Informed(j)
      /\ Moved(q, {"at", "page", "heads"}) /\ k.at = "texts"
      /\ k.heads = [id \in found \ whole |-> messages[id]] /\ DOMAIN k.page = whole
  BY ListsPage, BusyAt
<1>2. ChannelTypes' /\ Ordered' /\ Onward
  BY <1>1, StillChannel
<1>3. j.op = "list" /\ j.offset \in Nat /\ j.below = 0
  BY <1>1 DEF Placed, Places, Operations
<1>4. \A id : Leading(id) => Leading(id)'
  BY <1>1 DEF Leading, Still, Chain!Ids
<1>5. page \subseteq Chain!Ids
  BY <1>3, PageHas DEF ChainTypes
<1> HIDE DEF page
<1>6. \A id \in found \ whole : Leading(id) /\ messages[id] \in Telegram /\ Formed(messages[id])
                                /\ messages[id].kind = "start"
  BY <1>5, ChannelHas DEF ChainTypes, Chain!Leads, Leading
<1>11. whole \subseteq Nat
  BY <1>5, ChannelHas DEF ChainTypes
<1> HIDE DEF found, whole
<1>7. /\ DOMAIN k = CallFields /\ k.op = j.op /\ k.id = j.id /\ k.text = j.text /\ k.begun = j.begun
      /\ k.offset = j.offset /\ k.below = j.below
  BY <1>1 DEF Moved, CallFields
<1>8. Placed(k)
  BY <1>1, <1>3, <1>7, <1>11 DEF Placed, Places, Operations
<1>9. \A id \in DOMAIN k.heads : Leading(id)' /\ k.heads[id] \in Telegram /\ Formed(k.heads[id])
                                 /\ k.heads[id].kind = "start"
  BY <1>1, <1>4, <1>6
<1>10. Informed(job[q])'
  BY <1>1, <1>3, <1>7, <1>9 DEF Informed
<1> QED
  BY <1>1, <1>2, <1>8, <1>10, TypedBy

LEMMA NextTextTyped ==
  ASSUME ChainTypes, NEW q \in Requests, Chain!NextText(q)
  PROVE  ChainTypes' /\ Onward
<1> DEFINE j == job[q]  k == job'[q]
<1>1. /\ Chain!Busy(q) /\ j.at = "texts" /\ Still /\ Aside(q) /\ Placed(j) /\ Informed(j)
      /\ Moved(q, {"at", "from", "got"}) /\ k.at = "collect" /\ k.from \in DOMAIN j.heads
  BY NextsText, BusyAt
<1>2. ChannelTypes' /\ Ordered' /\ Onward
  BY <1>1, StillChannel
<1>3. j.op \in {"get", "list"}
  BY <1>1 DEF Placed, Places, Operations
<1>4. \A id : Leading(id) => Leading(id)'
  BY <1>1 DEF Leading, Still, Chain!Ids
<1>5. /\ DOMAIN k = CallFields /\ k.op = j.op /\ k.id = j.id /\ k.text = j.text /\ k.begun = j.begun
      /\ k.offset = j.offset /\ k.page = j.page /\ k.below = j.below /\ k.heads = j.heads
  BY <1>1 DEF Moved, CallFields
<1>6. Placed(k)
  BY <1>1, <1>3, <1>5 DEF Placed, Places, Operations
<1>7. Informed(job[q])'
  BY <1>1, <1>3, <1>4, <1>5 DEF Informed
<1> QED
  BY <1>1, <1>2, <1>6, <1>7, TypedBy

LEMMA CollectTyped ==
  ASSUME ChainTypes, NEW q \in Requests, Chain!Collect(q)
  PROVE  ChainTypes' /\ Onward
<1> DEFINE j == job[q]  k == job'[q]  page == Chain!PageOf(j.from, j.below)
<1>1. Chain!Busy(q) /\ j.at = "collect" /\ Still /\ Aside(q) /\ Placed(j) /\ Informed(j)
  BY CollectsIt, BusyAt
<1>2. ChannelTypes' /\ Ordered' /\ Onward
  BY <1>1, StillChannel
<1>3. j.op \in {"get", "list"} /\ j.from \in DOMAIN j.heads /\ j.below \in Nat
  BY <1>1 DEF Placed, Places, Operations
<1>4. \A id : Leading(id) => Leading(id)'
  BY <1>1 DEF Leading, Still, Chain!Ids
<1>5. j.from \in Nat
  BY <1>1, <1>3, ChannelHas DEF Informed, Leading, ChainTypes
<1>6. ~Chain!Ends(page) => Chain!Min(page) \in Nat
  BY <1>3, <1>5, PageHas, ChannelHas DEF ChainTypes
<1> HIDE DEF page
<1>7. \/ /\ Moved(q, {"at", "below", "from", "got", "heads", "page"})
         /\ k.at = "texts" /\ k.below = 0
         /\ k.heads = Chain!Restrict(j.heads, DOMAIN j.heads \ {j.from})
         /\ \E got : k.page = Chain!Both(Chain!One(j.from, got), j.page)
      \/ Moved(q, {"got", "below"}) /\ k.below \in Nat
  BY <1>6, CollectsIt DEF page
<1>8. CASE /\ Moved(q, {"at", "below", "from", "got", "heads", "page"})
           /\ k.at = "texts" /\ k.below = 0
           /\ k.heads = Chain!Restrict(j.heads, DOMAIN j.heads \ {j.from})
           /\ \E got : k.page = Chain!Both(Chain!One(j.from, got), j.page)
  BY <1>8, <1>1, <1>5, <1>3, <1>4, <1>2, TypedBy DEF Moved, CallFields, Chain!Restrict, Placed,
     Chain!Both, Chain!One, Places, Operations, Informed
<1>9. CASE Moved(q, {"got", "below"}) /\ k.below \in Nat
  BY <1>9, <1>1, <1>3, <1>4, <1>2, TypedBy DEF Moved, CallFields, Placed, Places, Operations,
     Informed
<1> QED
  BY <1>7, <1>8, <1>9

LEMMA PageDoneTyped ==
  ASSUME ChainTypes, NEW q \in Requests, Chain!PageDone(q)
  PROVE  ChainTypes' /\ Onward
<1> DEFINE j == job[q]  k == job'[q]
<1>1. /\ Chain!Busy(q) /\ j.at = "texts" /\ Still /\ Aside(q) /\ Placed(j) /\ Informed(j)
      /\ DOMAIN j.heads = {} /\ Moved(q, {"rows", "page", "at", "offset"}) /\ DOMAIN k.page = {}
      /\ \/ j.op = "get" \/ k.at = "done"
         \/ j.op # "get" /\ k.at = "page"
  BY PagesDone, BusyAt
<1>2. ChannelTypes' /\ Ordered' /\ Onward
  BY <1>1, StillChannel
<1>3. j.op \in {"get", "list"} /\ DOMAIN j.page \subseteq Nat
  BY <1>1 DEF Placed, Places, Operations
<1>4. \A id : Leading(id) => Leading(id)'
  BY <1>1 DEF Leading, Still, Chain!Ids
<1>5. /\ k.at \in {"done", "page"} /\ (k.at = "page" => j.op # "get") /\ k.offset \in Nat
  <2>1. CASE k.at = "done" /\ k.offset = 0
    BY <2>1
  <2>2. CASE /\ j.op # "get" /\ ~(Chain!Cardinality(DOMAIN j.page) < Page)
             /\ k.at = "page" /\ k.offset = Chain!Min(DOMAIN j.page)
    BY <2>2, SameCount, FS_EmptySet, StorageAssumption, <1>3, LeastThere DEF Chain!Min
  <2> QED
    BY <2>1, <2>2, PagesDone
<1>6. /\ DOMAIN k = CallFields /\ k.op = j.op /\ k.id = j.id /\ k.text = j.text /\ k.begun = j.begun
      /\ k.below = j.below /\ k.heads = j.heads
  BY <1>1 DEF Moved, CallFields
<1>7. Placed(k)
  BY <1>1, <1>3, <1>5, <1>6 DEF Placed, Places, Operations
<1>8. Informed(job[q])'
  BY <1>1, <1>3, <1>4, <1>5, <1>6 DEF Informed
<1> QED
  BY <1>1, <1>2, <1>7, <1>8, TypedBy

LEMMA FloodTyped ==
  ASSUME ChainTypes, NEW q \in Requests, Chain!FloodWait(q)
  PROVE  ChainTypes' /\ Onward
<1> DEFINE j == job[q]  k == job'[q]
<1>1. /\ Chain!Busy(q) /\ Still /\ Aside(q) /\ Placed(j) /\ Informed(j)
      /\ DOMAIN k = CallFields /\ k.op = j.op /\ k.at = Chain!First(j.op)
      /\ k.id = (IF j.op = "send" THEN 0 ELSE j.id) /\ k.text = j.text /\ k.begun = Chain!Begun(j)
      /\ k.ids = {} /\ k.below = 0 /\ DOMAIN k.heads = {} /\ DOMAIN k.page = {} /\ k.offset = j.offset
  BY FloodsIt, BusyAt
<1>2. ChannelTypes' /\ Ordered' /\ Onward
  BY <1>1, StillChannel
<1>3. \A id : Leading(id) => Leading(id)'
  BY <1>1 DEF Leading, Still, Chain!Ids
<1>4. k.begun \in BOOLEAN
  BY <1>1 DEF Chain!Begun, Placed
<1>5. k.at \in Places(k.op) /\ k.at \in {"first", "page", "fetch"} /\ (k.at = "first" => k.op = "send")
  BY <1>1 DEF Placed, Operations, Places, Chain!First
<1>6. k.op \in Operations /\ k.id \in Nat /\ k.below \in Nat /\ k.offset \in Nat /\ DOMAIN k.page \subseteq Nat
  BY <1>1 DEF Placed
<1>7. (k.op \in {"send", "edit"} => k.text \in Chain!Texts) /\ (k.op = "send" => k.id = 0)
  BY <1>1 DEF Placed
<1>8. k.op \in {"edit", "delete", "get"} => k.id = j.id /\ Leading(j.id)
  BY <1>1 DEF Informed
<1>9. Informed(job[q])'
  BY <1>1, <1>3, <1>5, <1>8 DEF Informed
<1> HIDE DEF k
<1>10. Placed(k)
  BY <1>1, <1>4, <1>5, <1>6, <1>7 DEF Placed
<1> QED
  BY <1>1, <1>2, <1>9, <1>10, TypedBy DEF k

\* A call that ends changes nothing else, or fails.
LEMMA EndTyped ==
  ASSUME ChainTypes, NEW q \in Requests, Still, Aside(q), Ended(q)
  PROVE  ChainTypes' /\ Onward
  BY StillChannel, EndedIdle, TypedBy

LEMMA ChainTypesStep ==
  ASSUME ChainTypes, Chain!Next
  PROVE  ChainTypes' /\ Onward
<1>1. PICK q \in Requests : Chain!Step(q)
  BY DEF Chain!Next
<1>2. CASE Chain!Send(q) \/ Chain!Edit(q) \/ Chain!Delete(q) \/ Chain!Get(q) \/ Chain!List(q)
  BY <1>2, OpensOne, OpensTyped
<1>3. CASE Chain!Answer(q) \/ Chain!Fail(q)
  BY <1>3, AnswersIt, FailsIt, EndTyped
<1> QED
  BY <1>1, <1>2, <1>3, SendsFirstTyped, SendsPartTyped, FetchesTyped, ScanTyped, ClearTyped, DeleteTyped,
     EditTyped, ListPageTyped, NextTextTyped, CollectTyped, PageDoneTyped, FloodTyped, Zenon
  DEF Chain!Step

-----------------------------------------------------------------------------
(* Chains: whatever mentions a chain means the same message and text.       *)

InChannel(c, id, text) ==
  \/ /\ id \in Chain!Ids /\ messages[id].kind = "start"
     /\ messages[id].chain = c /\ messages[id].text = text
  \/ \E p \in Chain!Ids : /\ messages[p].kind = "part" /\ messages[p].chain = c
                          /\ messages[p].parent = id /\ messages[p].text = text
NamedBy(j, c, id, text) ==
  \/ j.at = "parts" /\ j.chain = c /\ j.id = id /\ j.text = text
  \/ /\ j.at \in {"scan", "clear", "write"} /\ j.head.kind = "start"
     /\ j.head.chain = c /\ j.id = id /\ j.head.text = text
  \/ id \in DOMAIN j.heads /\ j.heads[id].chain = c /\ j.heads[id].text = text
Named(c, id, text) ==
  InChannel(c, id, text) \/ \E q \in Requests : Chain!Busy(q) /\ NamedBy(job[q], c, id, text)
ChainsNamed ==
  \A c, a, s : Named(c, a, s) => c \in 1..chains /\ \A b, t : Named(c, b, t) => a = b /\ s = t

LEMMA NamesFrom ==
  ASSUME NEW q \in Requests, Aside(q), NEW new,
         \A c, a, s : InChannel(c, a, s)' => Named(c, a, s) \/ <<c, a, s>> \in new,
         \A c, a, s : Chain!Busy(q)' /\ NamedBy(job[q], c, a, s)' => Named(c, a, s) \/ <<c, a, s>> \in new
  PROVE  \A c, a, s : Named(c, a, s)' => Named(c, a, s) \/ <<c, a, s>> \in new
<1> SUFFICES ASSUME NEW c, NEW a, NEW s, Named(c, a, s)' PROVE Named(c, a, s) \/ <<c, a, s>> \in new
  OBVIOUS
<1>1. ASSUME NEW r \in Requests, r # q, Chain!Busy(r)', NamedBy(job[r], c, a, s)' PROVE Named(c, a, s)
  BY <1>1 DEF Aside, Like, NamedBy, Named
<1> QED
  BY <1>1 DEF Named

\* A step that gives no chain a name, and one that names the next chain.
LEMMA NamesKept ==
  ASSUME ChainsNamed, UNCHANGED chains, NEW q \in Requests, Aside(q),
         \A c, a, s : InChannel(c, a, s)' => Named(c, a, s),
         \A c, a, s : Chain!Busy(q)' /\ NamedBy(job[q], c, a, s)' => Named(c, a, s)
  PROVE  ChainsNamed'
<1> DEFINE new == {}
<1>3. /\ \A c, a, s : InChannel(c, a, s)' => Named(c, a, s) \/ <<c, a, s>> \in new
      /\ \A c, a, s : Chain!Busy(q)' /\ NamedBy(job[q], c, a, s)' => Named(c, a, s) \/ <<c, a, s>> \in new
  OBVIOUS
<1> HIDE DEF new
<1>1. \A c, a, s : Named(c, a, s)' => Named(c, a, s) \/ <<c, a, s>> \in new
  BY <1>3, NamesFrom
<1>2. \A c, a, s : Named(c, a, s)' => Named(c, a, s)
  BY <1>1 DEF new
<1> QED
  BY <1>2 DEF ChainsNamed

LEMMA NamesNext ==
  ASSUME ChainsNamed, chains \in Nat, chains' = chains + 1, NEW q \in Requests, Aside(q), NEW id, NEW text,
         \A c, a, s : InChannel(c, a, s)' => Named(c, a, s) \/ <<c, a, s>> = <<chains + 1, id, text>>,
         \A c, a, s : Chain!Busy(q)' /\ NamedBy(job[q], c, a, s)' =>
                        Named(c, a, s) \/ <<c, a, s>> = <<chains + 1, id, text>>
  PROVE  ChainsNamed'
<1>1. \A c, a, s : Named(c, a, s)' => Named(c, a, s) \/ <<c, a, s>> \in {<<chains + 1, id, text>>}
  BY NamesFrom
<1>2. \A c, a, s : Named(c, a, s)' => Named(c, a, s) \/ (c = chains + 1 /\ a = id /\ s = text)
  BY <1>1
<1>3. \A c, a, s : Named(c, a, s) => c \in 1..chains /\ c # chains + 1
  BY DEF ChainsNamed
<1>4. ASSUME NEW c, NEW a, NEW s, Named(c, a, s)'
      PROVE  c \in 1..(chains') /\ \A b, t : Named(c, b, t)' => a = b /\ s = t
  BY <1>2, <1>3, <1>4 DEF ChainsNamed
<1> QED
  BY <1>4 DEF ChainsNamed

\* What the channel's change does to the names.
LEMMA StillNames ==
  ASSUME Still
  PROVE  \A c, a, s : InChannel(c, a, s)' <=> InChannel(c, a, s)
  BY DEF Still, InChannel, Chain!Ids

LEMMA GrownNames ==
  ASSUME ChannelTypes, NEW m, Grown(m)
  PROVE  \A c, a, s : InChannel(c, a, s)' =>
           \/ InChannel(c, a, s)
           \/ m.kind = "start" /\ c = m.chain /\ a = Len(messages) + 1 /\ s = m.text
           \/ m.kind = "part" /\ c = m.chain /\ a = m.parent /\ s = m.text
  BY ChannelHas DEF Grown, Chain!Ids, InChannel

LEMMA EmptiedNames ==
  ASSUME NEW S, Emptied(S)
  PROVE  \A c, a, s : InChannel(c, a, s)' => InChannel(c, a, s)
  BY DEF Emptied, Chain!Ids, Chain!Gone, InChannel

LEMMA RewrittenNames ==
  ASSUME NEW id, NEW m, Rewritten(id, m), m.kind # "part"
  PROVE  \A c, a, s : InChannel(c, a, s)' =>
           \/ InChannel(c, a, s)
           \/ m.kind = "start" /\ c = m.chain /\ a = id /\ s = m.text
  BY DEF Rewritten, Chain!Ids, InChannel

\* A reader's step, and that of a call which names what it named.
LEMMA StillNamed ==
  ASSUME ChainsNamed, Still, NEW q \in Requests, Aside(q),
         \A c, a, s : Chain!Busy(q)' /\ NamedBy(job[q], c, a, s)' => Named(c, a, s)
  PROVE  ChainsNamed'
  BY StillNames, NamesKept DEF Named, Still

LEMMA EndNamed ==
  ASSUME ChainsNamed, Still, NEW q \in Requests, Aside(q), Ended(q)
  PROVE  ChainsNamed'
  BY StillNamed, EndedIdle

LEMMA OpensNamed ==
  ASSUME ChainsNamed, NEW q \in Requests, NEW op, NEW id, NEW text, Opens(q, op, id, text)
  PROVE  ChainsNamed'
  BY BlankHas, StillNamed DEF Opens, Unbegun, Operations, Chain!First, NamedBy

LEMMA SendsFirstNamed ==
  ASSUME ChainTypes, ChainsNamed, NEW q \in Requests, Chain!SendFirst(q)
  PROVE  ChainsNamed'
<1> DEFINE j == job[q]  k == job'[q]
<1>1. Chain!Busy(q) /\ Aside(q) /\ Placed(j) /\ j.at = "first" /\ chains \in Nat /\ ChannelTypes
  BY SendsFirst, BusyAt, ChannelHas DEF ChainTypes
<1>2. CASE /\ j.text \in Long /\ chains' = chains + 1
           /\ Grown(Chain!Start(j.text, chains + 1))
           /\ Moved(q, {"at", "id", "chain", "index"})
           /\ k.at = "parts" /\ k.id = Len(messages) + 1 /\ k.chain = chains + 1 /\ k.index = 1
  <2> DEFINE m == Chain!Start(j.text, chains + 1)
  <2>1. m.kind = "start" /\ m.chain = chains + 1 /\ m.text = j.text /\ Grown(m)
    BY <1>2 DEF Chain!Start, Chain!Gone
  <2> HIDE DEF m
  <2>2. \A c, a, s : InChannel(c, a, s)' => Named(c, a, s) \/ <<c, a, s>> = <<chains + 1, Len(messages) + 1, j.text>>
    BY <1>1, <2>1, GrownNames DEF Named
  <2>3. k.text = j.text /\ DOMAIN k.heads = {}
    BY <1>1, <1>2 DEF Moved, CallFields, Placed
  <2>4. \A c, a, s : NamedBy(job[q], c, a, s)' => <<c, a, s>> = <<chains + 1, Len(messages) + 1, j.text>>
    BY <1>2, <2>3 DEF NamedBy
  <2>5. chains \in Nat /\ chains' = chains + 1 /\ Aside(q)
    BY <1>1, <1>2
  <2>6. \A c, a, s : Chain!Busy(q)' /\ NamedBy(job[q], c, a, s)' =>
          Named(c, a, s) \/ <<c, a, s>> = <<chains + 1, Len(messages) + 1, j.text>>
    BY <2>4
  <2> HIDE DEF j
  <2> QED
    BY <2>2, <2>5, <2>6, NamesNext
<1>3. CASE j.text \notin Long /\ UNCHANGED chains /\ Grown(Chain!Whole(j.text)) /\ Ended(q)
  <2> DEFINE m == Chain!Whole(j.text)
  <2>1. m.kind = "whole" /\ Grown(m)
    BY <1>3 DEF Chain!Whole, Chain!Gone
  <2> HIDE DEF m
  <2>2. \A c, a, s : InChannel(c, a, s)' => Named(c, a, s)
    BY <1>1, <2>1, GrownNames DEF Named
  <2> QED
    BY <1>1, <1>3, <2>2, EndedIdle, NamesKept
<1> QED
  BY <1>2, <1>3, SendsFirst

LEMMA SendsPartNamed ==
  ASSUME ChainTypes, ChainsNamed, NEW q \in Requests, Chain!SendPart(q)
  PROVE  ChainsNamed'
<1> DEFINE j == job[q]  k == job'[q]  m == Chain!Part(j.text, j.index, j.chain, j.id)
<1>1. /\ Chain!Busy(q) /\ j.at = "parts" /\ Aside(q) /\ UNCHANGED chains /\ Grown(m) /\ ChannelTypes
      /\ DOMAIN j.heads = {}
      /\ Ended(q) \/ Moved(q, {"index"})
  BY SendsPart, BusyAt DEF ChainTypes, Placed
<1>2. m.kind = "part" /\ m.chain = j.chain /\ m.parent = j.id /\ m.text = j.text
  BY DEF Chain!Part
<1> HIDE DEF m
<1>3. Named(j.chain, j.id, j.text)
  BY <1>1 DEF Named, NamedBy
<1>4. \A c, a, s : InChannel(c, a, s)' => Named(c, a, s)
  BY <1>1, <1>2, <1>3, GrownNames DEF Named
<1>5. Moved(q, {"index"}) => /\ k.at = j.at /\ k.chain = j.chain /\ k.id = j.id /\ k.text = j.text
                             /\ k.heads = j.heads
  BY DEF Moved, CallFields
<1>6. \A c, a, s : Chain!Busy(q)' /\ NamedBy(job[q], c, a, s)' => Named(c, a, s)
  BY <1>1, <1>3, <1>5, EndedIdle DEF NamedBy
<1> QED
  BY <1>1, <1>4, <1>6, NamesKept

LEMMA FetchesNamed ==
  ASSUME ChainTypes, ChainsNamed, NEW q \in Requests, Chain!Fetch(q)
  PROVE  ChainsNamed'
<1> DEFINE j == job[q]  k == job'[q]  m == messages[j.id]
<1>1. Chain!Busy(q) /\ j.at = "fetch" /\ Aside(q) /\ Still /\ Placed(j) /\ Informed(j)
  BY Fetches, BusyAt
<1>2. j.op \in {"edit", "delete", "get"} /\ j.id \in Chain!Ids /\ DOMAIN j.heads = {}
  BY <1>1 DEF Placed, Places, Operations, Informed, Leading
<1>3. m.kind = "start" => Named(m.chain, j.id, m.text)
  BY <1>2 DEF Named, InChannel
<1> HIDE DEF m
<1>4. CASE j.op # "get" /\ Moved(q, {"at", "head"}) /\ k.at = "scan" /\ k.head = m
  BY <1>4, <1>2, <1>3, <1>1, StillNamed DEF Moved, CallFields, NamedBy
<1>5. CASE /\ j.op = "get" /\ m.kind = "start" /\ Moved(q, {"at", "heads"})
           /\ k.at = "texts" /\ k.heads = Chain!One(j.id, m)
  BY <1>5, <1>3, <1>1, StillNamed DEF Chain!One, NamedBy
<1>6. CASE j.op = "get" /\ m.kind = "whole" /\ Moved(q, {"at", "rows"}) /\ k.at = "done"
  BY <1>6, <1>2, <1>1, StillNamed DEF Moved, CallFields, NamedBy
<1>7. CASE Ended(q)
  BY <1>1, <1>7, EndNamed
<1> QED
  BY <1>4, <1>5, <1>6, <1>7, Fetches DEF m

LEMMA ScansNamed ==
  ASSUME ChainTypes, ChainsNamed, NEW q \in Requests, Chain!Scan(q)
  PROVE  ChainsNamed'
<1> DEFINE j == job[q]  k == job'[q]
<1>1. /\ Chain!Busy(q) /\ j.at = "scan" /\ Still /\ Aside(q) /\ Placed(j)
      /\ Moved(q, {"ids", "below", "at"}) /\ k.at \in {"scan", "clear", "write"}
  BY ScansIt, BusyAt
<1>2. k.head = j.head /\ k.id = j.id /\ k.heads = j.heads
  BY <1>1 DEF Moved, CallFields
<1>3. \A c, a, s : NamedBy(job[q], c, a, s)' => Named(c, a, s)
  BY <1>1, <1>2 DEF NamedBy, Named
<1> QED
  BY <1>1, <1>3, StillNamed

LEMMA ClearsNamed ==
  ASSUME ChainTypes, ChainsNamed, NEW q \in Requests, Chain!Clear(q)
  PROVE  ChainsNamed'
<1> DEFINE j == job[q]  k == job'[q]
<1>1. /\ Chain!Busy(q) /\ j.at = "clear" /\ Aside(q) /\ UNCHANGED chains
      /\ Emptied(j.ids) /\ Moved(q, {"at"}) /\ k.at = "write"
  BY ClearsIt
<1>2. k.head = j.head /\ k.id = j.id /\ k.heads = j.heads
  BY <1>1 DEF Moved, CallFields
<1>3. \A c, a, s : NamedBy(job[q], c, a, s)' => Named(c, a, s)
  BY <1>1, <1>2 DEF NamedBy, Named
<1>4. \A c, a, s : InChannel(c, a, s)' => Named(c, a, s)
  BY <1>1, EmptiedNames DEF Named
<1> QED
  BY <1>1, <1>3, <1>4, NamesKept

LEMMA DeletesNamed ==
  ASSUME ChainTypes, ChainsNamed, NEW q \in Requests, Chain!WriteDelete(q)
  PROVE  ChainsNamed'
  BY DeletesIt, RewrittenNames, EndedIdle, NamesKept DEF Named, Chain!Gone

LEMMA EditsNamed ==
  ASSUME ChainTypes, ChainsNamed, NEW q \in Requests, Chain!WriteEdit(q)
  PROVE  ChainsNamed'
<1> DEFINE j == job[q]  k == job'[q]
<1>1. Chain!Busy(q) /\ j.at = "write" /\ Aside(q) /\ Placed(j) /\ chains \in Nat
  BY EditsIt, BusyAt, ChannelHas DEF ChainTypes
<1>2. CASE Still /\ Ended(q)
  BY <1>1, <1>2, EndNamed
<1>3. CASE /\ messages[j.id].kind # "gone" /\ j.text \in Long /\ chains' = chains + 1
           /\ Rewritten(j.id, Chain!Start(j.text, chains + 1))
           /\ Moved(q, {"at", "index", "chain"})
           /\ k.at = "parts" /\ k.index = 1 /\ k.chain = chains + 1
  <2> DEFINE m == Chain!Start(j.text, chains + 1)
  <2>1. m.kind = "start" /\ m.chain = chains + 1 /\ m.text = j.text /\ Rewritten(j.id, m)
    BY <1>3 DEF Chain!Start, Chain!Gone
  <2> HIDE DEF m
  <2>2. \A c, a, s : InChannel(c, a, s)' => Named(c, a, s) \/ <<c, a, s>> = <<chains + 1, j.id, j.text>>
    BY <2>1, RewrittenNames DEF Named
  <2>3. k.text = j.text /\ k.id = j.id /\ DOMAIN k.heads = {}
    BY <1>1, <1>3 DEF Moved, CallFields, Placed
  <2>4. \A c, a, s : NamedBy(job[q], c, a, s)' => <<c, a, s>> = <<chains + 1, j.id, j.text>>
    BY <1>3, <2>3 DEF NamedBy
  <2> QED
    BY <1>1, <1>3, <2>2, <2>4, NamesNext
<1>4. CASE /\ j.text \notin Long /\ UNCHANGED chains
           /\ Rewritten(j.id, Chain!Whole(j.text)) /\ Ended(q)
  <2> DEFINE m == Chain!Whole(j.text)
  <2>1. m.kind = "whole" /\ Rewritten(j.id, m)
    BY <1>4 DEF Chain!Whole, Chain!Gone
  <2> HIDE DEF m
  <2>2. \A c, a, s : InChannel(c, a, s)' => Named(c, a, s)
    BY <2>1, RewrittenNames DEF Named
  <2> QED
    BY <1>1, <1>4, <2>2, EndedIdle, NamesKept
<1> QED
  BY <1>2, <1>3, <1>4, EditsIt

LEMMA ListsPageNamed ==
  ASSUME ChainTypes, ChainsNamed, NEW q \in Requests, Chain!ListPage(q)
  PROVE  ChainsNamed'
<1> DEFINE j == job[q]  k == job'[q]
           page == Chain!PageOf(0, j.offset)
           found == {id \in page : Chain!Leads(id)}
           whole == {id \in found : messages[id].kind = "whole"}
<1>1. /\ Chain!Busy(q) /\ Still /\ Aside(q) /\ Placed(j)
      /\ k.at = "texts" /\ k.heads = [id \in found \ whole |-> messages[id]]
  BY ListsPage, BusyAt
<1>2. page \subseteq Chain!Ids
  BY <1>1, PageHas DEF ChainTypes, Placed
<1> HIDE DEF page
<1>3. \A id \in found \ whole : Named(messages[id].chain, id, messages[id].text)
  BY <1>2 DEF Named, InChannel, Chain!Leads
<1> HIDE DEF found, whole
<1>4. \A c, a, s : NamedBy(job[q], c, a, s)' => Named(c, a, s)
  BY <1>1, <1>3 DEF NamedBy
<1> QED
  BY <1>1, <1>4, StillNamed

LEMMA NextsTextNamed ==
  ASSUME ChainTypes, ChainsNamed, NEW q \in Requests, Chain!NextText(q)
  PROVE  ChainsNamed'
  BY NextsText, StillNamed DEF Moved, CallFields, NamedBy, Named

LEMMA CollectsNamed ==
  ASSUME ChainTypes, ChainsNamed, NEW q \in Requests, Chain!Collect(q)
  PROVE  ChainsNamed'
<1> DEFINE j == job[q]  k == job'[q]
<1>1. /\ Chain!Busy(q) /\ j.at = "collect" /\ Still /\ Aside(q)
      /\ \/ k.at = "texts" /\ k.heads = Chain!Restrict(j.heads, DOMAIN j.heads \ {j.from})
         \/ Moved(q, {"got", "below"})
  BY CollectsIt
<1>2. Moved(q, {"got", "below"}) => k.at = j.at /\ k.heads = j.heads
  BY DEF Moved, CallFields
<1>3. \A c, a, s : NamedBy(job[q], c, a, s)' => Named(c, a, s)
  BY <1>1, <1>2 DEF NamedBy, Named, Chain!Restrict
<1> QED
  BY <1>1, <1>3, StillNamed

LEMMA PagesDoneNamed ==
  ASSUME ChainTypes, ChainsNamed, NEW q \in Requests, Chain!PageDone(q)
  PROVE  ChainsNamed'
  BY PagesDone, StillNamed DEF Moved, CallFields, NamedBy

LEMMA FloodsNamed ==
  ASSUME ChainTypes, ChainsNamed, NEW q \in Requests, Chain!FloodWait(q)
  PROVE  ChainsNamed'
  BY FloodsIt, StillNamed DEF Chain!First, NamedBy

LEMMA NamedStep ==
  ASSUME ChainTypes, ChainsNamed, Chain!Next
  PROVE  ChainsNamed'
<1>1. PICK q \in Requests : Chain!Step(q)
  BY DEF Chain!Next
<1>2. CASE Chain!Send(q) \/ Chain!Edit(q) \/ Chain!Delete(q) \/ Chain!Get(q) \/ Chain!List(q)
  BY <1>2, OpensOne, OpensNamed
<1>3. CASE Chain!Answer(q) \/ Chain!Fail(q)
  BY <1>3, AnswersIt, FailsIt, EndNamed
<1> QED
  BY <1>1, <1>2, <1>3, SendsFirstNamed, SendsPartNamed, FetchesNamed, ScansNamed, ClearsNamed, DeletesNamed,
     EditsNamed, ListsPageNamed, NextsTextNamed, CollectsNamed, PagesDoneNamed, FloodsNamed, Zenon
  DEF Chain!Step

-----------------------------------------------------------------------------
(* Chains: a change deletes parts of its own message alone.                 *)

Aimed == \A q \in Requests : Chain!Busy(q) /\ job[q].at \in {"fetch", "scan", "clear", "write"} =>
  \A i \in job[q].ids : messages[i].kind = "part" => messages[i].parent = job[q].id

\* What a call does that begins, or begins again.
Afresh(q) == /\ Still /\ Aside(q) /\ job'[q].ids = {} /\ job'[q].below = 0
             /\ DOMAIN job'[q].heads = {} /\ DOMAIN job'[q].page = {}
             /\ job'[q].at = Chain!First(job'[q].op) /\ job'[q].at \in {"first", "page", "fetch"}
LEMMA FloodsAfresh ==
  ASSUME ChainTypes, NEW q \in Requests, Chain!FloodWait(q)
  PROVE  Afresh(q)
  BY FloodsIt DEF Chain!First, Afresh
LEMMA OpensAfresh ==
  ASSUME ChainTypes, NEW q \in Requests, NEW op, NEW id, NEW text, Opens(q, op, id, text)
  PROVE  Afresh(q) /\ Unbegun(job'[q], op, id, text)
  BY BlankHas DEF Opens, Unbegun, Operations, Chain!First, Afresh

LEMMA AimedBy ==
  ASSUME ChainTypes, Aimed, Onward, NEW q \in Requests, Aside(q),
         Chain!Busy(q)' /\ job'[q].at \in {"fetch", "scan", "clear", "write"} =>
           \A i \in job'[q].ids : messages'[i].kind = "part" => messages'[i].parent = job'[q].id
  PROVE  Aimed'
  BY DEF Aside, ChainTypes, CallTypes, Like, Informed, Onward, Chain!Gone, Aimed

\* The parts found name the message, or its chain, which no other message has.
LEMMA ScansAimed ==
  ASSUME ChainTypes, ChainsNamed, Aimed, Onward, NEW q \in Requests, Chain!Scan(q)
  PROVE  Aimed'
<1> DEFINE j == job[q]  k == job'[q]  page == Chain!PageOf(j.id, j.below)
<1>1. /\ Chain!Busy(q) /\ j.at = "scan" /\ Still /\ Aside(q) /\ Placed(j) /\ Informed(j)
      /\ Moved(q, {"ids", "below", "at"})
      /\ k.ids = j.ids \cup {id \in page : Chain!Belongs(messages[id], j.id, j.head)}
  BY ScansIt, BusyAt
<1>2. k.id = j.id
  BY <1>1 DEF Moved, CallFields
<1>3. page \subseteq Chain!Ids
  BY <1>1, PageHas DEF ChainTypes, Placed
<1> HIDE DEF page
<1>4. ASSUME NEW i \in page, Chain!Belongs(messages[i], j.id, j.head) PROVE messages[i].parent = j.id
  <2>1. i \in Chain!Ids /\ messages[i].kind = "part"
    BY <1>3, <1>4 DEF Chain!Belongs
  <2>2. CASE messages[i].parent # j.id
    <3>1. messages[i].chain = j.head.chain /\ j.head.chain # 0
      BY <1>4, <2>2 DEF Chain!Belongs
    <3>2. j.head \in Telegram /\ Formed(j.head) /\ j.head.kind # "part"
      BY <1>1 DEF Informed
    <3>3. j.head.kind = "start"
      BY <3>1, <3>2 DEF Telegram, Formed
    <3>4. Named(j.head.chain, j.id, j.head.text)
      BY <1>1, <3>3 DEF Named, NamedBy
    <3>5. Named(messages[i].chain, messages[i].parent, messages[i].text)
      BY <2>1 DEF Named, InChannel
    <3> QED
      BY <3>1, <3>4, <3>5 DEF ChainsNamed
  <2> QED
    BY <2>2
<1>5. \A i \in k.ids : messages[i].kind = "part" => messages[i].parent = j.id
  BY <1>1, <1>4 DEF Aimed
<1> QED
  BY <1>1, <1>2, <1>5, AimedBy DEF Still

LEMMA AimedStep ==
  ASSUME ChainTypes, ChainsNamed, Aimed, Onward, Chain!Next
  PROVE  Aimed'
<1>1. PICK q \in Requests : Chain!Step(q)
  BY DEF Chain!Next
<1> DEFINE j == job[q]  k == job'[q]
<1>2. CASE Chain!Send(q) \/ Chain!Edit(q) \/ Chain!Delete(q) \/ Chain!Get(q) \/ Chain!List(q) \/ Chain!FloodWait(q)
  BY <1>2, OpensOne, OpensAfresh, FloodsAfresh, AimedBy DEF Afresh
<1>3. CASE Chain!Answer(q) \/ Chain!Fail(q) \/ Chain!WriteDelete(q)
  BY <1>3, AnswersIt, FailsIt, DeletesIt, EndedIdle, AimedBy
<1>4. CASE Chain!SendFirst(q) \/ Chain!WriteEdit(q) \/ Chain!SendPart(q)
  BY SendsPart, <1>4, SendsFirst, EditsIt, EndedIdle, AimedBy DEF Moved, CallFields
<1>5. CASE Chain!Fetch(q)
  BY <1>5, Fetches, BusyAt, EndedIdle, AimedBy DEF Moved, CallFields, Placed
<1>6. CASE Chain!Clear(q)
  BY <1>6, ClearsIt, BusyAt, AimedBy DEF Moved, CallFields, Emptied, Informed, Chain!Gone
<1>7. CASE Chain!ListPage(q) \/ Chain!NextText(q) \/ Chain!Collect(q) \/ Chain!PageDone(q)
  <2>1. Aside(q) /\ k.at \in {"texts", "collect", "done", "page"}
    <3>1. Moved(q, {"got", "below"}) => k.at = j.at
      BY DEF Moved, CallFields
    <3> QED
      BY <1>7, <3>1, ListsPage, NextsText, CollectsIt, PagesDone
  <2> QED
    BY <2>1, AimedBy
<1> QED
  BY <1>1, <1>2, <1>3, <1>4, <1>5, <1>6, <1>7, ScansAimed, Zenon
  DEF Chain!Step

-----------------------------------------------------------------------------
(* Chains: a first message has its parts, is about to, or is being changed. *)

HasPart(id, c, i) == \E p \in Chain!Ids : /\ messages[p].kind = "part" /\ messages[p].chain = c
                                      /\ messages[p].parent = id /\ messages[p].index = i
Undoing(q, id) == /\ Chain!Busy(q) /\ job[q].op \in {"edit", "delete"} /\ job[q].id = id
                  /\ job[q].at # "parts" /\ Chain!Begun(job[q])
Due(q, c, i) == Chain!Busy(q) /\ job[q].at = "parts" /\ job[q].chain = c /\ job[q].index <= i
Attended(id) ==
  \/ \E q \in Requests : Undoing(q, id)
  \/ \A i \in 1..(LongParts - 1) : \/ HasPart(id, messages[id].chain, i)
                                   \/ \E q \in Requests : Due(q, messages[id].chain, i)
Uncut == Chain!Clean({"cut", "resent"})
Texted == Uncut => \A id \in Chain!Ids : messages[id].kind = "start" => Attended(id)

LEMMA UncutBefore ==
  ASSUME incidents \subseteq incidents', Uncut'
  PROVE  Uncut
  BY DEF Uncut, Chain!Clean

\* What others do for a message stays so.
LEMMA OthersAttend ==
  ASSUME NEW q \in Requests, Aside(q), NEW id
  PROVE  /\ \A r \in Requests : r # q /\ Undoing(r, id) => Undoing(r, id)'
         /\ \A r \in Requests : \A c, i : r # q /\ Due(r, c, i) => Due(r, c, i)'
<1> SUFFICES ASSUME NEW r \in Requests, r # q, Chain!Busy(r)
             PROVE  /\ Undoing(r, id) => Undoing(r, id)'
                    /\ \A c, i : Due(r, c, i) => Due(r, c, i)'
  BY DEF Undoing, Due
<1>1. Chain!Busy(r)' /\ Like(job[r], job'[r])
  BY DEF Aside
<1>2. Chain!Begun(job[r]) => Chain!Begun(job[r])'
  BY <1>1 DEF Like, Chain!Begun
<1> QED
  BY <1>1, <1>2 DEF Undoing, Due, Like

LEMMA StaysAttended ==
  ASSUME NEW q \in Requests, Aside(q), NEW id \in Chain!Ids, messages'[id] = messages[id], Attended(id),
         \/ Undoing(q, id)'
         \/ /\ ~Undoing(q, id)
            /\ \A i \in 1..(LongParts - 1) :
                 HasPart(id, messages[id].chain, i) \/ Due(q, messages[id].chain, i) =>
                   HasPart(id, messages[id].chain, i)' \/ Due(q, messages[id].chain, i)'
  PROVE  Attended(id)'
  BY OthersAttend DEF Attended

\* A step that leaves the channel, of a call that does no less than before.
LEMMA StillTexted ==
  ASSUME Texted, Still, NEW q \in Requests, Aside(q), incidents \subseteq incidents',
         Uncut' => \A id \in Chain!Ids : messages[id].kind = "start" =>
           \/ Undoing(q, id)'
           \/ ~Undoing(q, id) /\ \A i : ~Due(q, messages[id].chain, i)
  PROVE  Texted'
<1> SUFFICES ASSUME Uncut', NEW id \in Chain!Ids', messages'[id].kind = "start"
             PROVE  Attended(id)'
  BY DEF Texted
<1>1. id \in Chain!Ids /\ messages'[id] = messages[id] /\ messages[id].kind = "start"
  BY DEF Still, Chain!Ids
<1>2. Attended(id)
  BY <1>1, UncutBefore DEF Texted
<1>3. \A i : HasPart(id, messages[id].chain, i) => HasPart(id, messages[id].chain, i)'
  BY DEF HasPart, Still, Chain!Ids
<1> QED
  BY <1>1, <1>2, <1>3, StaysAttended

\* A step of a call that changes nothing, and goes on where it does not.
LEMMA ReadsTexted ==
  ASSUME ChainTypes, Texted, Still, NEW q \in Requests, Aside(q), incidents \subseteq incidents',
         Chain!Busy(q) => job[q].op \notin {"edit", "delete"} /\ job[q].at # "parts"
  PROVE  Texted'
  BY StillTexted DEF Undoing, Due

LEMMA FloodsTexted ==
  ASSUME ChainTypes, ChainsNamed, Texted, NEW q \in Requests, Chain!FloodWait(q)
  PROVE  Texted'
<1> DEFINE j == job[q]  k == job'[q]
<1>1. /\ Chain!Busy(q) /\ Still /\ Aside(q) /\ incidents \subseteq incidents'
      /\ j.op = "send" /\ Chain!Begun(j) => "resent" \in incidents'
      /\ k.op = j.op /\ k.at = Chain!First(j.op)
      /\ k.id = (IF j.op = "send" THEN 0 ELSE j.id) /\ k.begun = Chain!Begun(j) /\ Placed(j)
  BY FloodsIt, BusyAt
<1>2. ASSUME Uncut', NEW id \in Chain!Ids, messages[id].kind = "start"
      PROVE  \/ Undoing(q, id)'
             \/ ~Undoing(q, id) /\ \A i : ~Due(q, messages[id].chain, i)
  <2>1. ASSUME j.op \in {"edit", "delete"}, j.id = id, Chain!Begun(j) PROVE Undoing(q, id)'
    BY <1>1, <2>1, NotIdle DEF Chain!First, Chain!Busy, Undoing, Chain!Begun
  <2>2. CASE Undoing(q, id)
    BY <2>1, <2>2 DEF Undoing
  <2>3. ASSUME NEW i, Due(q, messages[id].chain, i) PROVE Undoing(q, id)'
    <3>1. j.at = "parts" /\ j.chain = messages[id].chain /\ Chain!Begun(j)
      BY <2>3 DEF Due, Chain!Begun
    <3>2. j.op \in {"send", "edit"}
      BY <1>1, <3>1 DEF Placed, Places, Operations
    <3>3. j.op # "send"
      BY <1>1, <1>2, <3>1 DEF Uncut, Chain!Clean
    <3>4. Named(j.chain, j.id, j.text) /\ Named(j.chain, id, messages[id].text)
      BY <1>1, <1>2, <3>1 DEF Named, NamedBy, InChannel
    <3>5. j.id = id
      BY <3>4 DEF ChainsNamed
    <3> QED
      BY <2>1, <3>1, <3>2, <3>3, <3>5
  <2> QED
    BY <2>2, <2>3
<1> QED
  BY <1>1, <1>2, StillTexted

\* A change that goes on as it was.
LEMMA ChangesOn ==
  ASSUME ChainTypes, Texted, Still, Unmarked, NEW q \in Requests, Aside(q), Chain!Busy(q),
         job[q].at \in {"fetch", "scan"}, job'[q].at \in {"scan", "clear", "write"},
         job'[q].op = job[q].op, job'[q].id = job[q].id, job'[q].begun = job[q].begun
  PROVE  Texted'
  BY NotIdle, StillTexted DEF Chain!Busy, Undoing, Chain!Begun, Due, Unmarked

LEMMA SendsFirstTexted ==
  ASSUME ChainTypes, Texted, NEW q \in Requests, Chain!SendFirst(q)
  PROVE  Texted'
<1> DEFINE j == job[q]  k == job'[q]
<1>1. Chain!Busy(q) /\ j.at = "first" /\ Unmarked /\ Aside(q) /\ Placed(j) /\ chains \in Nat
  BY SendsFirst, BusyAt, ChannelHas DEF ChainTypes
<1>2. PICK m : /\ Grown(m)
               /\ m.kind = "start" => /\ Moved(q, {"at", "id", "chain", "index"}) /\ m.chain = chains + 1
                                      /\ k.at = "parts" /\ k.chain = chains + 1 /\ k.index = 1
  <2> DEFINE first == Chain!Start(j.text, chains + 1)  whole == Chain!Whole(j.text)
  <2>1. first.kind = "start" /\ first.chain = chains + 1 /\ whole.kind = "whole"
    BY DEF Chain!Start, Chain!Whole, Chain!Gone
  <2>2. \/ /\ Grown(first) /\ Moved(q, {"at", "id", "chain", "index"})
           /\ k.at = "parts" /\ k.chain = chains + 1 /\ k.index = 1
        \/ Grown(whole)
    BY SendsFirst
  <2> HIDE DEF first, whole
  <2> QED
    BY <2>1, <2>2
<1> SUFFICES ASSUME Uncut', NEW id \in Chain!Ids', messages'[id].kind = "start"
             PROVE  Attended(id)'
  BY DEF Texted
<1>3. \/ id \in Chain!Ids /\ messages'[id] = messages[id]
      \/ messages'[id] = m
  BY <1>2, ChannelHas DEF Grown, Chain!Ids, ChainTypes
<1>4. CASE id \in Chain!Ids /\ messages'[id] = messages[id]
  BY <1>1, <1>4, <1>2, ChannelHas, StaysAttended DEF Texted, Unmarked, Uncut, Chain!Clean, Undoing,
     Due, Placed, Places, Operations, Grown, Chain!Ids, ChainTypes, HasPart
<1>5. CASE messages'[id] = m
  BY <1>2, <1>5, NotIdle DEF Chain!Busy, Due, Attended
<1> QED
  BY <1>3, <1>4, <1>5

LEMMA SendsPartTexted ==
  ASSUME ChainTypes, ChainsNamed, Texted, NEW q \in Requests, Chain!SendPart(q)
  PROVE  Texted'
<1> DEFINE j == job[q]  k == job'[q]  m == Chain!Part(j.text, j.index, j.chain, j.id)
<1>1. /\ Chain!Busy(q) /\ j.at = "parts" /\ Unmarked /\ Aside(q) /\ Grown(m) /\ Placed(j)
      /\ \/ j.index + 1 = LongParts
         \/ Moved(q, {"index"}) /\ k.index = j.index + 1
  BY SendsPart, BusyAt
<1>2. m.kind = "part" /\ m.chain = j.chain /\ m.parent = j.id /\ m.index = j.index
  BY DEF Chain!Part
<1> HIDE DEF m
<1> SUFFICES ASSUME Uncut', NEW id \in Chain!Ids', messages'[id].kind = "start"
             PROVE  Attended(id)'
  BY DEF Texted
<1>3. /\ \A p \in Chain!Ids : p \in Chain!Ids' /\ messages'[p] = messages[p]
      /\ Len(messages) + 1 \in Chain!Ids' /\ messages'[Len(messages) + 1] = m
      /\ \A p \in Chain!Ids' : p \in Chain!Ids \/ p = Len(messages) + 1
  BY <1>1, ChannelHas DEF Grown, Chain!Ids, ChainTypes
<1>4. id \in Chain!Ids /\ messages'[id] = messages[id]
  BY <1>2, <1>3
<1>5. Attended(id)
  BY <1>1, <1>4 DEF Texted, Unmarked, Uncut, Chain!Clean
<1>6. ~Undoing(q, id)
  BY <1>1 DEF Undoing
<1>7. \A i : HasPart(id, messages[id].chain, i) => HasPart(id, messages[id].chain, i)'
  BY <1>3, <1>4 DEF HasPart
<1>8. ASSUME NEW i \in 1..(LongParts - 1), Due(q, messages[id].chain, i)
      PROVE  HasPart(id, messages[id].chain, i)' \/ Due(q, messages[id].chain, i)'
  <2>1. j.chain = messages[id].chain /\ j.index <= i /\ j.index \in Nat
    BY <1>1, <1>8 DEF Due, Placed
  <2>2. Named(j.chain, j.id, j.text) /\ Named(j.chain, id, messages[id].text)
    BY <1>1, <1>4, <2>1 DEF Named, NamedBy, InChannel
  <2>3. j.id = id
    BY <2>2 DEF ChainsNamed
  <2>4. CASE i = j.index
    BY <1>2, <1>3, <1>4, <2>1, <2>3, <2>4 DEF HasPart
  <2>5. CASE i # j.index
    BY <2>1, <2>5, Sizes, <1>1, NotIdle, <1>4 DEF Moved, CallFields, Chain!Busy, Due
  <2> QED
    BY <2>4, <2>5
<1> QED
  BY <1>1, <1>4, <1>5, <1>6, <1>7, <1>8, StaysAttended

\* The parts deleted are of the message that is being changed.
LEMMA ClearsTexted ==
  ASSUME ChainTypes, Aimed, Texted, NEW q \in Requests, Chain!Clear(q)
  PROVE  Texted'
<1> DEFINE j == job[q]  k == job'[q]
<1>1. /\ Chain!Busy(q) /\ j.at = "clear" /\ Unmarked /\ Aside(q) /\ Placed(j)
      /\ Emptied(j.ids) /\ Moved(q, {"at"}) /\ k.at = "write"
  BY ClearsIt, BusyAt
<1>2. k.op = j.op /\ k.id = j.id /\ k.begun = j.begun /\ k.ids = j.ids
  BY <1>1 DEF Moved, CallFields
<1>3. Chain!Busy(q)' /\ j.op \in {"edit", "delete"}
  BY <1>1, NotIdle DEF Chain!Busy, Placed, Places, Operations
<1> SUFFICES ASSUME Uncut', NEW id \in Chain!Ids', messages'[id].kind = "start"
             PROVE  Attended(id)'
  BY DEF Texted
<1>4. id \in Chain!Ids /\ messages'[id] = messages[id]
  BY <1>1 DEF Emptied, Chain!Ids, Chain!Gone
<1>5. Attended(id)
  BY <1>1, <1>4 DEF Texted, Unmarked, Uncut, Chain!Clean
<1>6. \A c, i : ~Due(q, c, i)
  BY <1>1 DEF Due
<1>7. CASE id = j.id /\ (j.ids # {} \/ j.begun)
  BY <1>1, <1>2, <1>3, <1>7, <1>4, <1>5, StaysAttended DEF Undoing, Chain!Begun
<1>8. CASE ~(id = j.id /\ (j.ids # {} \/ j.begun))
  <2>1. ~Undoing(q, id)
    BY <1>1, <1>8 DEF Undoing, Chain!Begun
  <2>2. ASSUME NEW i, HasPart(id, messages[id].chain, i) PROVE HasPart(id, messages[id].chain, i)'
    <3>1. PICK p \in Chain!Ids : /\ messages[p].kind = "part" /\ messages[p].chain = messages[id].chain
                                 /\ messages[p].parent = id /\ messages[p].index = i
      BY <2>2 DEF HasPart
    <3>2. p \notin j.ids
      BY <1>1, <1>8, <3>1 DEF Aimed
    <3>3. messages'[p] = messages[p] /\ p \in Chain!Ids'
      BY <1>1, <3>2 DEF Emptied, Chain!Ids
    <3> QED
      BY <1>4, <3>1, <3>3 DEF HasPart
  <2> QED
    BY <1>1, <1>4, <1>5, <1>6, <2>1, <2>2, StaysAttended
<1> QED
  BY <1>7, <1>8

\* A message rewritten is no part: the others keep theirs.
LEMMA RewritesTexted ==
  ASSUME ChainTypes, Texted, Unmarked, NEW q \in Requests, Aside(q), Chain!Busy(q), job[q].at = "write",
         NEW m, Rewritten(job[q].id, m),
         m.kind = "start" => /\ job'[q].at = "parts" /\ job'[q].chain = m.chain
                             /\ job'[q].index = 1
  PROVE  Texted'
<1> DEFINE j == job[q]
<1>1. j.op \in {"edit", "delete"} /\ Leading(j.id)
  BY BusyAt DEF Placed, Places, Operations, Informed
<1> SUFFICES ASSUME Uncut', NEW id \in Chain!Ids', messages'[id].kind = "start"
             PROVE  Attended(id)'
  BY DEF Texted
<1>2. id \in Chain!Ids /\ Chain!Ids' = Chain!Ids
  BY DEF Rewritten, Chain!Ids
<1>3. CASE id = j.id
  BY <1>3, NotIdle DEF Rewritten, Chain!Busy, Due, Attended
<1>4. CASE id # j.id
  BY <1>2, <1>4, <1>1, StaysAttended DEF Rewritten, Texted, Unmarked, Uncut, Chain!Clean, Undoing,
     Due, Leading, HasPart
<1> QED
  BY <1>3, <1>4

LEMMA EditsTexted ==
  ASSUME ChainTypes, Texted, NEW q \in Requests, Chain!WriteEdit(q)
  PROVE  Texted'
<1> DEFINE j == job[q]  k == job'[q]
<1>1. /\ Chain!Busy(q) /\ j.at = "write" /\ j.op = "edit" /\ Unmarked /\ Aside(q) /\ Placed(j) /\ Informed(j)
  BY EditsIt, BusyAt
<1>2. CASE messages[j.id].kind = "gone" /\ Still /\ Ended(q)
  BY <1>2, <1>1, StillTexted DEF Undoing, Due, Unmarked
<1>3. CASE /\ chains' = chains + 1
           /\ Rewritten(j.id, Chain!Start(j.text, chains + 1))
           /\ k.at = "parts" /\ k.index = 1 /\ k.chain = chains + 1
  <2> DEFINE m == Chain!Start(j.text, chains + 1)
  <2>1. m.chain = chains + 1 /\ Rewritten(j.id, m)
    BY <1>3 DEF Chain!Start, Chain!Gone
  <2> HIDE DEF m
  <2> QED
    BY <1>1, <1>3, <2>1, RewritesTexted
<1>4. CASE Rewritten(j.id, Chain!Whole(j.text))
  <2> DEFINE m == Chain!Whole(j.text)
  <2>1. m.kind # "start" /\ Rewritten(j.id, m)
    BY <1>4 DEF Chain!Whole, Chain!Gone
  <2> HIDE DEF m
  <2> QED
    BY <1>1, <2>1, RewritesTexted
<1> QED
  BY <1>2, <1>3, <1>4, EditsIt

LEMMA FailsTexted ==
  ASSUME Texted, ChainTypes, NEW q \in Requests, Chain!Fail(q)
  PROVE  Texted'
  BY FailsIt, StillTexted DEF Uncut, Chain!Clean, Undoing, Due, Chain!Begun

LEMMA TextedStep ==
  ASSUME ChainTypes, ChainsNamed, Aimed, Texted, Chain!Next
  PROVE  Texted'
<1>1. PICK q \in Requests : Chain!Step(q)
  BY DEF Chain!Next
<1> DEFINE j == job[q]  k == job'[q]
<1>2. CASE Chain!Send(q) \/ Chain!Edit(q) \/ Chain!Delete(q) \/ Chain!Get(q) \/ Chain!List(q)
  BY <1>2, OpensOne, ReadsTexted DEF Opens
<1>3. CASE Chain!ListPage(q) \/ Chain!NextText(q) \/ Chain!Collect(q) \/ Chain!PageDone(q) \/ Chain!Answer(q)
  BY <1>3, ListsPage, NextsText, CollectsIt, PagesDone, AnswersIt, BusyAt, ReadsTexted DEF Unmarked,
     Placed, Places, Operations
<1>4. CASE Chain!Fetch(q)
  BY <1>4, Fetches, ReadsTexted, ChangesOn DEF Moved, CallFields, Unmarked
<1>5. CASE Chain!Scan(q)
  BY <1>5, ScansIt, ChangesOn DEF Moved, CallFields
<1>6. CASE Chain!WriteDelete(q)
  <2> DEFINE m == Chain!Gone
  <2>1. m.kind # "start"
    BY DEF Chain!Gone
  <2>2. /\ Chain!Busy(q) /\ Aside(q) /\ Unmarked /\ j.at = "write" /\ Rewritten(j.id, m)
    BY <1>6, DeletesIt
  <2> HIDE DEF m
  <2> QED
    BY <2>1, <2>2, RewritesTexted
<1> QED
  BY <1>1, <1>2, <1>3, <1>4, <1>5, <1>6, FloodsTexted, FailsTexted, SendsFirstTexted, SendsPartTexted,
     ClearsTexted, EditsTexted, Zenon
  DEF Chain!Step

\* The parts of a chain are of the text that its name says.
LEMMA PartsOfIt ==
  ASSUME ChannelTypes, ChainsNamed, NEW head, NEW id, head.text \in Long, Named(head.chain, id, head.text)
  PROVE  /\ Chain!Pieces(head.text) = {head.text} \X (0..(LongParts - 1))
         /\ \A p \in Chain!Ids : Chain!OfChain(messages[p], id, head) =>
              messages[p].text = head.text /\ messages[p].index \in 1..(LongParts - 1)
         /\ Chain!Only(head) = {<<head.text, 0>>}
         /\ LongParts - 1 \in Nat \ {0}
<1>1. ASSUME NEW p \in Chain!Ids, Chain!OfChain(messages[p], id, head)
      PROVE  messages[p].text = head.text /\ messages[p].index \in 1..(LongParts - 1)
  <2>1. messages[p].kind = "part" /\ messages[p].chain = head.chain /\ messages[p].parent = id
    BY <1>1 DEF Chain!OfChain
  <2>2. Named(messages[p].chain, messages[p].parent, messages[p].text)
    BY <2>1 DEF Named, InChannel
  <2>3. messages[p].text = head.text
    BY <2>1, <2>2 DEF ChainsNamed
  <2>4. Formed(messages[p])
    BY DEF ChannelTypes
  <2> QED
    BY <2>1, <2>3, <2>4 DEF Formed
<1>2. Chain!Size(head.text) = LongParts /\ LongParts - 1 \in Nat \ {0}
  BY Sizes
<1> QED
  BY <1>1, <1>2 DEF Chain!Pieces, Chain!Only

LEMMA TextsStandThen ==
  ASSUME ChainTypes, ChainsNamed, Texted
  PROVE  Chain!TextsStand
<1> SUFFICES ASSUME Chain!Quiet, Uncut, NEW id \in Chain!Ids, messages[id].kind = "start"
             PROVE  {<<messages[p].text, messages[p].index>> :
                       p \in {x \in Chain!Ids : Chain!OfChain(messages[x], id, messages[id])}}
                     \cup Chain!Only(messages[id]) = Chain!Pieces(messages[id].text)
  BY DEF Chain!TextsStand, Uncut
<1> DEFINE head == messages[id]
           found == {x \in Chain!Ids : Chain!OfChain(messages[x], id, head)}
<1>1. head.text \in Long /\ Named(head.chain, id, head.text)
  BY DEF ChainTypes, ChannelTypes, Formed, Named, InChannel
<1>2. /\ Chain!Pieces(head.text) = {head.text} \X (0..(LongParts - 1))
      /\ \A p \in Chain!Ids : Chain!OfChain(messages[p], id, head) =>
           messages[p].text = head.text /\ messages[p].index \in 1..(LongParts - 1)
      /\ Chain!Only(head) = {<<head.text, 0>>}
      /\ LongParts - 1 \in Nat \ {0}
  <2> HIDE DEF head
  <2> QED
    BY <1>1, PartsOfIt DEF ChainTypes
<1>3. \A q \in Requests : ~Undoing(q, id) /\ \A i : ~Due(q, head.chain, i)
  BY DEF Chain!Quiet, Undoing, Due
<1>4. \A i \in 1..(LongParts - 1) : HasPart(id, head.chain, i)
  BY <1>3 DEF Texted, Attended
<1>5. \A i \in 1..(LongParts - 1) : \E p \in found : messages[p].text = head.text /\ messages[p].index = i
  BY <1>2, <1>4 DEF HasPart, Chain!OfChain
<1>6. \A p \in found : messages[p].text = head.text /\ messages[p].index \in 1..(LongParts - 1)
  BY <1>2
<1> HIDE DEF head, found
<1> DEFINE pieces == {<<messages[p].text, messages[p].index>> : p \in found}
<1>7. pieces \cup {<<head.text, 0>>} \subseteq {head.text} \X (0..(LongParts - 1))
  BY <1>2, <1>6
<1>8. ASSUME NEW i \in 0..(LongParts - 1) PROVE <<head.text, i>> \in pieces \cup {<<head.text, 0>>}
  BY <1>2, <1>5
<1>9. {head.text} \X (0..(LongParts - 1)) \subseteq pieces \cup {<<head.text, 0>>}
  BY <1>8
<1> QED
  BY <1>2, <1>7, <1>9 DEF head, found

-----------------------------------------------------------------------------
(* Chains: changes of one message one at a time leave no part behind.       *)

Alone == Chain!Clean({"together"})
Altering(q) == Chain!Busy(q) /\ job[q].op \in {"send", "edit", "delete"} /\ job[q].id # 0
OneWriter == Alone => \A q, r \in Requests :
  Altering(q) /\ Altering(r) /\ job[q].id = job[r].id => q = r
\* A part's message begins its chain, and a change that finds parts of its message finds them all.
PartsHeld == \A p \in Chain!Ids : messages[p].kind = "part" =>
  /\ messages[messages[p].parent].kind = "start"
  /\ messages[messages[p].parent].chain = messages[p].chain
Sighted(j) ==
  /\ j.at = "parts" => messages[j.id].kind = "start" /\ messages[j.id].chain = j.chain
  /\ \A p \in Chain!Ids : messages[p].kind = "part" /\ messages[p].parent = j.id =>
       /\ j.at = "scan" => j.below = 0 \/ p < j.below \/ p \in j.ids
       /\ j.at = "clear" => p \in j.ids
       /\ j.at # "write"
Held == Alone => PartsHeld /\ \A q \in Requests : Chain!Busy(q) => Sighted(job[q])

LEMMA AloneBefore ==
  ASSUME incidents \subseteq incidents', Alone'
  PROVE  Alone
  BY DEF Alone, Chain!Clean

\* A message that a change has is one that was sent.
LEMMA ChangesIds ==
  ASSUME ChainTypes, NEW q \in Requests, Altering(q)
  PROVE  Leading(job[q].id) /\ job[q].id \in Chain!Ids
  BY BusyAt DEF Altering, Placed, Places, Informed, Leading

LEMMA OneWriterBy ==
  ASSUME ChainTypes, OneWriter, NEW q \in Requests, Aside(q), incidents \subseteq incidents',
         Alone' /\ Altering(q)' => \A r \in Requests : r # q /\ Altering(r) => job[r].id # job'[q].id
  PROVE  OneWriter'
  BY AloneBefore DEF Aside, Altering, Like, OneWriter

\* A change that goes on is still the only one.
LEMMA OneWriterGoes ==
  ASSUME ChainTypes, OneWriter, NEW q \in Requests, Aside(q), incidents \subseteq incidents', Chain!Busy(q),
         \/ Ended(q)
         \/ job'[q].op \in {"get", "list"}
         \/ job'[q].op = job[q].op /\ job'[q].id \in {0, job[q].id}
  PROVE  OneWriter'
  BY EndedIdle, AloneBefore, OneWriterBy DEF Altering, OneWriter

LEMMA OneWriterStep ==
  ASSUME ChainTypes, OneWriter, Chain!Next
  PROVE  OneWriter'
<1>1. PICK q \in Requests : Chain!Step(q)
  BY DEF Chain!Next
<1> DEFINE j == job[q]  k == job'[q]
<1>2. CASE Chain!Send(q) \/ Chain!Edit(q) \/ Chain!Delete(q) \/ Chain!Get(q) \/ Chain!List(q)
  <2>1. PICK op, id, text : Opens(q, op, id, text)
    BY <1>2, OpensOne
  <2>5. Unbegun(k, op, id, text)
    BY <2>1, OpensAfresh
  <2>2. k.op = op /\ k.id = id
    BY <2>5 DEF Unbegun
  <2>3. ASSUME Alone', Altering(q)', NEW r \in Requests, r # q, Altering(r) PROVE job[r].id # job'[q].id
    BY <2>2, <2>3, <2>1 DEF Altering, Opens, Alone, Chain!Clean, Chain!Writes
  <2> QED
    BY <2>1, <2>3, OneWriterBy DEF Opens
<1>3. CASE Chain!SendFirst(q)
  BY <1>3, SendsFirst, ChangesIds, ChannelHas, EndedIdle, OneWriterBy DEF ChainTypes, Unmarked,
     Altering
<1>4. CASE \/ Chain!SendPart(q) \/ Chain!Fetch(q) \/ Chain!Scan(q) \/ Chain!Clear(q)
           \/ Chain!WriteEdit(q) \/ Chain!ListPage(q) \/ Chain!NextText(q) \/ Chain!Collect(q) \/ Chain!PageDone(q)
  <2>1. /\ Chain!Busy(q) /\ Aside(q) /\ incidents \subseteq incidents'
        /\ Ended(q) \/ \E S : Moved(q, S) /\ "op" \notin S /\ "id" \notin S
    BY SendsPart, Fetches, ScansIt, ClearsIt, EditsIt, ListsPage, NextsText, CollectsIt, PagesDone,
       <1>4 DEF Unmarked
  <2>2. Ended(q) \/ (k.op = j.op /\ k.id = j.id)
    BY <2>1 DEF Moved, CallFields
  <2> QED
    BY <2>1, <2>2, OneWriterGoes
<1>5. CASE Chain!Answer(q) \/ Chain!Fail(q) \/ Chain!WriteDelete(q)
  BY <1>5, AnswersIt, FailsIt, DeletesIt, OneWriterGoes DEF Unmarked
<1>6. CASE Chain!FloodWait(q)
  BY <1>6, FloodsIt, OneWriterGoes
<1> QED
  BY <1>1, <1>2, <1>3, <1>4, <1>5, <1>6, Zenon
  DEF Chain!Step

\* What another change found it still has.
LEMMA OthersFind ==
  ASSUME NEW q \in Requests, Aside(q), NEW r \in Requests, r # q, Chain!Busy(r), Sighted(job[r]),
         job[r].at = "parts" => messages'[job[r].id] = messages[job[r].id],
         job[r].at \in {"scan", "clear", "write"} =>
           \A p \in Chain!Ids' : messages'[p].kind = "part" /\ messages'[p].parent = job[r].id =>
             p \in Chain!Ids /\ messages'[p] = messages[p]
  PROVE  Sighted(job[r])'
<1>1. Like(job[r], job'[r])
  BY DEF Aside
<1> DEFINE k == job'[r]
<1>2. /\ k.at = job[r].at /\ k.id = job[r].id /\ k.chain = job[r].chain /\ k.below = job[r].below
      /\ k.ids = job[r].ids
  BY <1>1 DEF Like
<1>3. k.at = "parts" => messages'[k.id].kind = "start" /\ messages'[k.id].chain = k.chain
  BY <1>2 DEF Sighted
<1>4. ASSUME NEW p \in Chain!Ids', messages'[p].kind = "part", messages'[p].parent = k.id,
             k.at \in {"scan", "clear", "write"}
      PROVE  /\ k.at = "scan" => k.below = 0 \/ p < k.below \/ p \in k.ids
             /\ k.at = "clear" => p \in k.ids
             /\ k.at # "write"
  BY <1>2, <1>4 DEF Sighted
<1>5. k.at \notin {"scan", "clear", "write"} => k.at # "scan" /\ k.at # "clear" /\ k.at # "write"
  OBVIOUS
<1> QED
  BY <1>3, <1>4, <1>5 DEF Sighted

LEMMA HeldBy ==
  ASSUME Held, NEW q \in Requests, Aside(q), incidents \subseteq incidents',
         Alone' => PartsHeld' /\ (Chain!Busy(q)' => Sighted(job[q])'),
         Alone' => \A r \in Requests : r # q /\ Chain!Busy(r) =>
           /\ job[r].at = "parts" => messages'[job[r].id] = messages[job[r].id]
           /\ job[r].at \in {"scan", "clear", "write"} =>
                \A p \in Chain!Ids' : messages'[p].kind = "part" /\ messages'[p].parent = job[r].id =>
                  p \in Chain!Ids /\ messages'[p] = messages[p]
  PROVE  Held'
  BY AloneBefore, OthersFind DEF Aside, Held

LEMMA StillHeld ==
  ASSUME Held, NEW q \in Requests, Aside(q), Still, incidents \subseteq incidents',
         Alone' => (Chain!Busy(q)' => Sighted(job[q])')
  PROVE  Held'
  BY AloneBefore, HeldBy DEF Held, PartsHeld, Still, Chain!Ids

\* A call that is at none of these places has nothing to find.
LEMMA NoFinding ==
  ASSUME Held, NEW q \in Requests, Aside(q), Still, incidents \subseteq incidents',
         Ended(q) \/ job'[q].at \notin {"parts", "scan", "clear", "write"}
  PROVE  Held'
  BY EndedIdle, StillHeld DEF Sighted

\* A page after page, no part of the message is left out, as none are sent the while.
LEMMA ScansHeld ==
  ASSUME ChainTypes, Held, NEW q \in Requests, Chain!Scan(q)
  PROVE  Held'
<1> DEFINE j == job[q]  k == job'[q]  page == Chain!PageOf(j.id, j.below)
<1>1. /\ Chain!Busy(q) /\ j.at = "scan" /\ Still /\ Unmarked /\ Aside(q) /\ Placed(j)
      /\ Moved(q, {"ids", "below", "at"})
      /\ k.ids = j.ids \cup {id \in page : Chain!Belongs(messages[id], j.id, j.head)}
      /\ \/ /\ Chain!Ends(page) /\ k.below = 0
            /\ k.at = IF k.ids # {} THEN "clear" ELSE "write"
         \/ ~Chain!Ends(page) /\ k.below = Chain!Min(page) /\ k.at = "scan"
  BY ScansIt, BusyAt
<1>2. k.id = j.id
  BY <1>1 DEF Moved, CallFields
<1>3. j.id \in Nat /\ j.below \in Nat
  BY <1>1 DEF Placed
<1>4. /\ page \subseteq Chain!Ids
      /\ \A x \in page : \A y : Within(y, j.id, j.below) /\ y > x => y \in page
      /\ Chain!Ends(page) => \A y : Within(y, j.id, j.below) => y \in page
      /\ ~Chain!Ends(page) => Chain!Min(page) \in page
  BY <1>3, PageHas DEF ChainTypes
<1> HIDE DEF page
<1>5. ASSUME Alone, NEW p \in Chain!Ids, messages[p].kind = "part", messages[p].parent = j.id
      PROVE  /\ k.at = "scan" => k.below = 0 \/ p < k.below \/ p \in k.ids
             /\ k.at = "clear" => p \in k.ids
             /\ k.at # "write"
  <2>1. p > j.id /\ p \in Nat /\ messages[p].kind # "gone" /\ Chain!Belongs(messages[p], j.id, j.head)
    BY <1>3, <1>5, ChannelHas DEF ChainTypes, Ordered, Chain!Belongs
  <2>2. j.below = 0 \/ p < j.below \/ p \in j.ids
    BY <1>1, <1>5 DEF Held, Sighted
  <2>3. p \in j.ids \/ Within(p, j.id, j.below)
    BY <2>1, <2>2 DEF Within
  <2>4. p \in page => p \in k.ids
    BY <1>1, <2>1
  <2>5. CASE Chain!Ends(page)
    BY <1>1, <1>4, <2>3, <2>4, <2>5
  <2>6. CASE ~Chain!Ends(page)
    <3>1. k.at = "scan" /\ k.below = Chain!Min(page) /\ Chain!Min(page) \in page
      BY <1>1, <1>4, <2>6
    <3>2. Chain!Min(page) \in Nat
      BY <1>4, <3>1, ChannelHas DEF ChainTypes
    <3>3. p \in k.ids \/ p < k.below
      BY <1>1, <1>4, <2>3, <2>4, <3>1, <2>1, <3>2
    <3> QED
      BY <3>1, <3>3
  <2> QED
    BY <2>5, <2>6
<1>6. k.at # "parts"
  BY <1>1
<1>7. Alone' => Sighted(job[q])'
  BY <1>1, <1>2, <1>5, <1>6 DEF Sighted, Still, Chain!Ids, Unmarked, Alone, Chain!Clean
<1> QED
  BY <1>1, <1>7, StillHeld DEF Unmarked

LEMMA FetchesHeld ==
  ASSUME ChainTypes, Held, NEW q \in Requests, Chain!Fetch(q)
  PROVE  Held'
<1> DEFINE j == job[q]  k == job'[q]
<1>1. /\ Chain!Busy(q) /\ j.at = "fetch" /\ Still /\ Unmarked /\ Aside(q) /\ Placed(j)
      /\ Ended(q) \/ k.at \in {"texts", "done"} \/ (Moved(q, {"at", "head"}) /\ k.at = "scan")
  BY Fetches, BusyAt
<1>2. CASE Moved(q, {"at", "head"}) /\ k.at = "scan"
  BY <1>1, <1>2, StillHeld DEF Moved, CallFields, Placed, Sighted, Unmarked
<1>3. CASE Ended(q) \/ k.at \in {"texts", "done"}
  BY <1>1, <1>3, NoFinding DEF Unmarked
<1> QED
  BY <1>1, <1>2, <1>3

\* The channel as it grows.
LEMMA GrownHas ==
  ASSUME ChannelTypes, NEW m, Grown(m)
  PROVE  /\ \A p \in Chain!Ids : p \in Chain!Ids' /\ messages'[p] = messages[p]
         /\ Len(messages) + 1 \in Chain!Ids' /\ messages'[Len(messages) + 1] = m
         /\ Len(messages) + 1 \notin Chain!Ids
         /\ \A p \in Chain!Ids' : p \in Chain!Ids \/ p = Len(messages) + 1
  BY ChannelHas DEF Grown, Chain!Ids

LEMMA GrownHeld ==
  ASSUME ChainTypes, Held, NEW m, Grown(m), NEW q \in Requests, Aside(q), Unmarked,
         m.kind = "part" => /\ Leading(m.parent)
                            /\ Alone => /\ messages[m.parent].kind = "start" /\ messages[m.parent].chain = m.chain
                                        /\ \A r \in Requests : r # q /\ Chain!Busy(r) /\ job[r].id = m.parent =>
                                             job[r].at \notin {"scan", "clear", "write"},
         Alone => (Chain!Busy(q)' => Sighted(job[q])')
  PROVE  Held'
  BY GrownHas, BusyAt, HeldBy DEF ChainTypes, Alone, Unmarked, Chain!Clean, Ordered, Leading, Held,
     PartsHeld, Informed

LEMMA SendsFirstHeld ==
  ASSUME ChainTypes, Held, NEW q \in Requests, Chain!SendFirst(q)
  PROVE  Held'
<1> DEFINE j == job[q]  k == job'[q]
<1>1. Chain!Busy(q) /\ Unmarked /\ Aside(q) /\ chains \in Nat
  BY SendsFirst, ChannelHas DEF ChainTypes
<1>2. CASE /\ Grown(Chain!Start(j.text, chains + 1)) /\ k.at = "parts"
           /\ k.id = Len(messages) + 1 /\ k.chain = chains + 1
  <2> DEFINE m == Chain!Start(j.text, chains + 1)
  <2>1. m.kind = "start" /\ m.chain = chains + 1 /\ Grown(m)
    BY <1>2 DEF Chain!Start, Chain!Gone
  <2> HIDE DEF m
  <2>2. messages'[Len(messages) + 1] = m
    BY <2>1, GrownHas DEF ChainTypes
  <2>3. Sighted(job[q])'
    BY <1>2, <2>1, <2>2 DEF Sighted
  <2> QED
    BY <1>1, <2>1, <2>3, GrownHeld
<1>3. CASE Grown(Chain!Whole(j.text)) /\ Ended(q)
  <2> DEFINE m == Chain!Whole(j.text)
  <2>1. m.kind = "whole" /\ Grown(m)
    BY <1>3 DEF Chain!Whole, Chain!Gone
  <2> HIDE DEF m
  <2> QED
    BY <1>1, <1>3, <2>1, EndedIdle, GrownHeld
<1> QED
  BY <1>2, <1>3, SendsFirst

LEMMA SendsPartHeld ==
  ASSUME ChainTypes, OneWriter, Held, NEW q \in Requests, Chain!SendPart(q)
  PROVE  Held'
<1> DEFINE j == job[q]  k == job'[q]  m == Chain!Part(j.text, j.index, j.chain, j.id)
<1>1. /\ Chain!Busy(q) /\ j.at = "parts" /\ Unmarked /\ Aside(q) /\ Grown(m) /\ Placed(j) /\ Informed(j)
      /\ Ended(q) \/ Moved(q, {"index"})
  BY SendsPart, BusyAt
<1>2. m.kind = "part" /\ m.chain = j.chain /\ m.parent = j.id
  BY DEF Chain!Part
<1> HIDE DEF m
<1>3. Leading(j.id) /\ j.op \in {"send", "edit"} /\ j.id \in Chain!Ids /\ j.id # 0
  BY <1>1, ChannelHas DEF Informed, Leading, Placed, Places, Operations, ChainTypes
<1>4. Alone => messages[j.id].kind = "start" /\ messages[j.id].chain = j.chain
  BY <1>1 DEF Held, Sighted
<1>5. ASSUME Alone, NEW r \in Requests, r # q, Chain!Busy(r), job[r].id = j.id
      PROVE  job[r].at \notin {"scan", "clear", "write"}
  BY <1>5, BusyAt, <1>1, <1>3 DEF Placed, Places, Operations, OneWriter, Altering
<1>6. Moved(q, {"index"}) => k.at = "parts" /\ k.id = j.id /\ k.chain = j.chain
  BY <1>1 DEF Moved, CallFields
<1>7. messages'[j.id] = messages[j.id]
  BY <1>1, <1>3, GrownHas DEF ChainTypes
<1>8. Alone => (Chain!Busy(q)' => Sighted(job[q])')
  BY <1>1, <1>4, <1>6, <1>7, EndedIdle DEF Sighted
<1> QED
  BY <1>1, <1>2, <1>3, <1>4, <1>5, <1>8, GrownHeld

LEMMA ClearsHeld ==
  ASSUME ChainTypes, Held, NEW q \in Requests, Chain!Clear(q)
  PROVE  Held'
<1> DEFINE j == job[q]  k == job'[q]
<1>1. /\ Chain!Busy(q) /\ j.at = "clear" /\ Unmarked /\ Aside(q) /\ Placed(j) /\ Informed(j)
      /\ Emptied(j.ids) /\ Moved(q, {"at"}) /\ k.at = "write"
  BY ClearsIt, BusyAt
<1>2. k.id = j.id
  BY <1>1 DEF Moved, CallFields
<1>3. Chain!Ids' = Chain!Ids /\ \A p \in Chain!Ids : messages'[p].kind # "gone" => messages'[p] = messages[p] /\ p \notin j.ids
  BY <1>1 DEF Emptied, Chain!Ids, Chain!Gone
<1>4. \A p \in Chain!Ids : messages[p].kind = "start" => messages'[p] = messages[p]
  BY <1>1 DEF Emptied, Informed
<1>5. Alone' => Alone
  BY <1>1 DEF Alone, Unmarked, Chain!Clean
<1>6. ASSUME Alone, NEW p \in Chain!Ids, messages'[p].kind = "part"
      PROVE  /\ messages'[messages'[p].parent].kind = "start"
             /\ messages'[messages'[p].parent].chain = messages'[p].chain
  BY <1>3, <1>6, <1>4 DEF ChainTypes, Ordered, Leading, Held, PartsHeld
<1>7. Alone' => PartsHeld'
  BY <1>3, <1>5, <1>6 DEF PartsHeld
<1>8. ASSUME Alone, NEW p \in Chain!Ids, messages'[p].kind = "part" PROVE messages'[p].parent # j.id
  BY <1>3, <1>8, <1>1 DEF Held, Sighted
<1>9. Alone' => Sighted(job[q])'
  BY <1>1, <1>2, <1>3, <1>5, <1>8 DEF Sighted
<1>10. ASSUME Alone', NEW r \in Requests, r # q, Chain!Busy(r)
      PROVE  /\ job[r].at = "parts" => messages'[job[r].id] = messages[job[r].id]
             /\ \A p \in Chain!Ids' : messages'[p].kind = "part" => p \in Chain!Ids /\ messages'[p] = messages[p]
  BY <1>10, BusyAt, <1>5, <1>3, <1>4 DEF Informed, Leading, Held, Sighted
<1> QED
  BY <1>1, <1>7, <1>9, <1>10, HeldBy DEF Unmarked

\* A message is written when none of its parts is left.
LEMMA RewritesHeld ==
  ASSUME ChainTypes, OneWriter, Held, Unmarked, NEW q \in Requests, Aside(q), Chain!Busy(q),
         job[q].at = "write", NEW m, m.kind # "part", Rewritten(job[q].id, m),
         \/ Ended(q)
         \/ /\ job'[q].at = "parts" /\ m.kind = "start" /\ job'[q].id = job[q].id
            /\ job'[q].chain = m.chain
  PROVE  Held'
<1> DEFINE j == job[q]  k == job'[q]
<1>1. Placed(j) /\ Informed(j) /\ j.op \in {"edit", "delete"}
  BY BusyAt DEF Placed, Places, Operations
<1>2. Leading(j.id) /\ j.id \in Chain!Ids /\ j.id # 0 /\ messages[j.id].kind # "part"
  BY <1>1, ChannelHas DEF Informed, Leading, ChainTypes
<1>3. /\ Chain!Ids' = Chain!Ids /\ messages'[j.id] = m
      /\ \A p \in Chain!Ids : p # j.id => messages'[p] = messages[p]
  BY DEF Rewritten, Chain!Ids
<1>4. \A p \in Chain!Ids : messages'[p].kind = "part" => messages'[p] = messages[p] /\ p # j.id
  BY <1>3
<1>5. Alone' => Alone
  BY DEF Alone, Unmarked, Chain!Clean
<1>6. ASSUME Alone, NEW p \in Chain!Ids, messages'[p].kind = "part"
      PROVE  /\ messages'[messages'[p].parent].kind = "start"
             /\ messages'[messages'[p].parent].chain = messages'[p].chain
  BY <1>4, <1>6, <1>3 DEF ChainTypes, Ordered, Leading, Held, Sighted, PartsHeld
<1>7. Alone' => PartsHeld'
  BY <1>3, <1>5, <1>6 DEF PartsHeld
<1>8. Chain!Busy(q)' => Sighted(job[q])'
  BY <1>3, EndedIdle DEF Sighted
<1>9. ASSUME Alone', NEW r \in Requests, r # q, Chain!Busy(r), job[r].at = "parts"
      PROVE  messages'[job[r].id] = messages[job[r].id]
  BY <1>9, BusyAt, <1>1, <1>2, <1>5, <1>3 DEF Informed, Leading, Placed, Places, Operations,
     OneWriter, Altering
<1> QED
  BY <1>3, <1>4, <1>7, <1>8, <1>9, HeldBy DEF Unmarked

LEMMA EditsHeld ==
  ASSUME ChainTypes, OneWriter, Held, NEW q \in Requests, Chain!WriteEdit(q)
  PROVE  Held'
<1> DEFINE j == job[q]  k == job'[q]
<1>1. Chain!Busy(q) /\ j.at = "write" /\ Unmarked /\ Aside(q)
  BY EditsIt
<1>2. CASE Still /\ Ended(q)
  BY <1>1, <1>2, NoFinding DEF Unmarked
<1>3. CASE /\ Rewritten(j.id, Chain!Start(j.text, chains + 1)) /\ Moved(q, {"at", "index", "chain"})
           /\ k.at = "parts" /\ k.chain = chains + 1
  <2> DEFINE m == Chain!Start(j.text, chains + 1)
  <2>1. m.kind = "start" /\ m.chain = chains + 1 /\ Rewritten(j.id, m)
    BY <1>3 DEF Chain!Start, Chain!Gone
  <2> HIDE DEF m
  <2>2. k.id = j.id
    BY <1>3 DEF Moved, CallFields
  <2> QED
    BY <1>1, <1>3, <2>1, <2>2, RewritesHeld
<1>4. CASE Rewritten(j.id, Chain!Whole(j.text)) /\ Ended(q)
  <2> DEFINE m == Chain!Whole(j.text)
  <2>1. m.kind # "part" /\ Rewritten(j.id, m)
    BY <1>4 DEF Chain!Whole, Chain!Gone
  <2> HIDE DEF m
  <2> QED
    BY <1>1, <1>4, <2>1, RewritesHeld
<1> QED
  BY <1>2, <1>3, <1>4, EditsIt

LEMMA HeldStep ==
  ASSUME ChainTypes, OneWriter, Held, Chain!Next
  PROVE  Held'
<1>1. PICK q \in Requests : Chain!Step(q)
  BY DEF Chain!Next
<1> DEFINE j == job[q]  k == job'[q]
<1>2. CASE \/ Chain!Send(q) \/ Chain!Edit(q) \/ Chain!Delete(q) \/ Chain!Get(q) \/ Chain!List(q)
           \/ Chain!FloodWait(q)
  BY <1>2, OpensOne, OpensAfresh, FloodsAfresh, FloodsIt, NoFinding DEF Opens, Afresh
<1>3. CASE Chain!ListPage(q) \/ Chain!NextText(q) \/ Chain!Collect(q) \/ Chain!PageDone(q)
  <2>1. /\ Still /\ Aside(q) /\ incidents \subseteq incidents'
        /\ k.at \in {"texts", "collect", "done", "page"}
    <3>1. Moved(q, {"got", "below"}) => k.at = j.at
      BY DEF Moved, CallFields
    <3> QED
      BY <1>3, <3>1, ListsPage, NextsText, CollectsIt, PagesDone DEF Unmarked
  <2> QED
    BY <2>1, NoFinding
<1>4. CASE Chain!Answer(q) \/ Chain!Fail(q)
  BY <1>4, AnswersIt, FailsIt, NoFinding DEF Unmarked
<1>5. CASE Chain!WriteDelete(q)
  <2> DEFINE m == Chain!Gone
  <2>1. m.kind # "part"
    BY DEF Chain!Gone
  <2>2. /\ Chain!Busy(q) /\ Aside(q) /\ Unmarked /\ j.at = "write" /\ Rewritten(j.id, m) /\ Ended(q)
    BY <1>5, DeletesIt
  <2> HIDE DEF m
  <2> QED
    BY <2>1, <2>2, RewritesHeld
<1> QED
  BY <1>1, <1>2, <1>3, <1>4, <1>5, SendsFirstHeld, SendsPartHeld, FetchesHeld, ScansHeld, ClearsHeld,
     EditsHeld, Zenon
  DEF Chain!Step

LEMMA NoStrayPartsThen ==
  ASSUME Held
  PROVE  Chain!NoStrayParts
  BY DEF Held, PartsHeld, Chain!NoStrayParts, Alone

-----------------------------------------------------------------------------
(* Chains: no message is read while another call changes it.                *)

Untouched == Chain!Clean({"during"})
ReadApart == Untouched => \A q, r \in Requests : \A id : q # r /\ Chain!Reads(q, id) => ~Chain!Writes(r, id)

LEMMA CalmBefore ==
  ASSUME incidents \subseteq incidents', Untouched'
  PROVE  Untouched
  BY DEF Untouched, Chain!Clean

LEMMA ReadsNoWrites ==
  ASSUME ChainTypes, NEW q \in Requests, NEW id, Chain!Reads(q, id)
  PROVE  ~Chain!Writes(q, id) /\ id \in Chain!Ids /\ id # 0
  BY BusyAt, ChannelHas DEF Chain!Reads, Placed, Informed, Places, Operations, Leading, ChainTypes,
     Chain!Writes

LEMMA ReadApartBy ==
  ASSUME ReadApart, NEW q \in Requests, Aside(q), incidents \subseteq incidents',
         Untouched' => \A r \in Requests : \A id : r # q =>
           /\ Chain!Reads(q, id)' => ~Chain!Writes(r, id)
           /\ Chain!Writes(q, id)' => ~Chain!Reads(r, id)
  PROVE  ReadApart'
<1>1. ASSUME NEW r \in Requests, r # q, NEW id
      PROVE  (Chain!Reads(r, id)' => Chain!Reads(r, id)) /\ (Chain!Writes(r, id)' => Chain!Writes(r, id))
  BY <1>1 DEF Aside, Chain!Reads, Chain!Writes, Like
<1>2. Untouched' => Untouched
  BY CalmBefore
<1> SUFFICES ASSUME Untouched', NEW r \in Requests, NEW s \in Requests, NEW id, r # s, Chain!Reads(r, id)'
             PROVE  ~Chain!Writes(s, id)'
  BY DEF ReadApart
<1>3. CASE r = q
  BY <1>1, <1>3
<1>4. CASE s = q
  BY <1>1, <1>4
<1>5. CASE r # q /\ s # q
  BY <1>1, <1>2, <1>5 DEF ReadApart
<1> QED
  BY <1>3, <1>4, <1>5

\* A call that goes on, with no message that it had not.
LEMMA ReadApartGoes ==
  ASSUME ChainTypes, ReadApart, NEW q \in Requests, Aside(q), incidents \subseteq incidents', Chain!Busy(q),
         \/ Ended(q)
         \/ /\ job'[q].op = job[q].op /\ job'[q].id \in {0, job[q].id}
            /\ DOMAIN job'[q].heads \subseteq DOMAIN job[q].heads
               \/ (job[q].op = "get" /\ DOMAIN job'[q].heads = {job[q].id})
            /\ job[q].op = "get" => job'[q].id = job[q].id
  PROVE  ReadApart'
<1> SUFFICES ASSUME Untouched', NEW r \in Requests, NEW id, r # q
             PROVE  /\ Chain!Reads(q, id)' => ~Chain!Writes(r, id)
                    /\ Chain!Writes(q, id)' => ~Chain!Reads(r, id)
  BY ReadApartBy
<1>1. Untouched
  BY CalmBefore
<1>2. Chain!Reads(q, id)' => Chain!Reads(q, id)
  BY EndedIdle DEF Chain!Reads
<1>3. Chain!Writes(q, id)' => Chain!Writes(q, id) \/ id = 0
  BY EndedIdle DEF Chain!Writes
<1>4. Chain!Reads(r, id) => id # 0
  BY ReadsNoWrites
<1> QED
  BY <1>1, <1>2, <1>3, <1>4 DEF ReadApart

LEMMA OpensApart ==
  ASSUME ChainTypes, ReadApart, NEW q \in Requests, NEW op, NEW a, NEW text, Opens(q, op, a, text)
  PROVE  ReadApart'
<1> DEFINE k == job'[q]
<1>1. Aside(q) /\ incidents \subseteq incidents' /\ op \in Operations
  BY DEF Opens
<1>2. Unbegun(k, op, a, text)
  BY OpensAfresh
<1>3. k.op = op /\ k.id = a /\ DOMAIN k.heads = {}
  BY <1>2 DEF Unbegun
<1> SUFFICES ASSUME Untouched', NEW r \in Requests, NEW id, r # q
             PROVE  /\ Chain!Reads(q, id)' => ~Chain!Writes(r, id)
                    /\ Chain!Writes(q, id)' => ~Chain!Reads(r, id)
  BY <1>1, ReadApartBy
<1>4. "during" \notin incidents'
  BY DEF Untouched, Chain!Clean
<1>5. Chain!Reads(q, id)' => op = "get" /\ id = a
  BY <1>3 DEF Chain!Reads
<1>6. Chain!Writes(q, id)' => op \in {"send", "edit", "delete"} /\ id = a
  BY <1>3 DEF Chain!Writes
<1>7. op = "send" => a = 0
  BY DEF Opens
<1>8. Chain!Reads(r, id) => id # 0
  BY ReadsNoWrites
<1> QED
  BY <1>4, <1>5, <1>6, <1>7, <1>8 DEF Opens

LEMMA ListsPageApart ==
  ASSUME ChainTypes, ReadApart, NEW q \in Requests, Chain!ListPage(q)
  PROVE  ReadApart'
<1> DEFINE j == job[q]  k == job'[q]
           found == {id \in Chain!PageOf(0, j.offset) : Chain!Leads(id)}
<1>1. /\ Chain!Busy(q) /\ j.at = "page" /\ Aside(q) /\ incidents \subseteq incidents' /\ Placed(j)
      /\ Moved(q, {"at", "page", "heads"}) /\ DOMAIN k.heads \subseteq found
      /\ "during" \notin incidents' => \A id \in found, r \in Requests : ~Chain!Writes(r, id)
  BY ListsPage, BusyAt
<1>2. k.op = "list"
  BY <1>1 DEF Moved, CallFields, Placed, Places, Operations
<1> HIDE DEF found
<1> SUFFICES ASSUME Untouched', NEW r \in Requests, NEW id, r # q
             PROVE  /\ Chain!Reads(q, id)' => ~Chain!Writes(r, id)
                    /\ Chain!Writes(q, id)' => ~Chain!Reads(r, id)
  BY <1>1, ReadApartBy
<1>3. Chain!Reads(q, id)' => id \in found
  BY <1>1, <1>2 DEF Chain!Reads
<1>4. ~Chain!Writes(q, id)'
  BY <1>2 DEF Chain!Writes
<1> QED
  BY <1>1, <1>3, <1>4 DEF Untouched, Chain!Clean

LEMMA SendsFirstApart ==
  ASSUME ChainTypes, ReadApart, NEW q \in Requests, Chain!SendFirst(q)
  PROVE  ReadApart'
<1> DEFINE j == job[q]  k == job'[q]
<1>1. /\ Chain!Busy(q) /\ j.at = "first" /\ Aside(q) /\ Unmarked /\ Placed(j)
      /\ Ended(q) \/ (Moved(q, {"at", "id", "chain", "index"}) /\ k.id = Len(messages) + 1)
  BY SendsFirst, BusyAt
<1>2. CASE Ended(q)
  BY <1>1, <1>2, ReadApartGoes DEF Unmarked
<1>3. CASE Moved(q, {"at", "id", "chain", "index"}) /\ k.id = Len(messages) + 1
  BY <1>1, <1>3, ReadsNoWrites, ChannelHas, ReadApartBy DEF Moved, CallFields, Placed, Places,
     Operations, ChainTypes, Chain!Reads, Chain!Writes, Unmarked
<1> QED
  BY <1>1, <1>2, <1>3

LEMMA ReadApartStep ==
  ASSUME ChainTypes, ReadApart, Chain!Next
  PROVE  ReadApart'
<1>1. PICK q \in Requests : Chain!Step(q)
  BY DEF Chain!Next
<1> DEFINE j == job[q]  k == job'[q]
<1>2. CASE Chain!Send(q) \/ Chain!Edit(q) \/ Chain!Delete(q) \/ Chain!Get(q) \/ Chain!List(q)
  BY <1>2, OpensOne, OpensApart
<1>3. CASE \/ Chain!SendPart(q) \/ Chain!Fetch(q) \/ Chain!Scan(q) \/ Chain!Clear(q)
           \/ Chain!WriteEdit(q) \/ Chain!NextText(q) \/ Chain!Collect(q) \/ Chain!PageDone(q)
  <2>1. /\ Chain!Busy(q) /\ Aside(q) /\ incidents \subseteq incidents'
        /\ \/ Ended(q)
           \/ \E S : /\ Moved(q, S) /\ "op" \notin S /\ "id" \notin S
                     /\ \/ "heads" \notin S
                        \/ j.op = "get" /\ DOMAIN k.heads = {j.id}
                        \/ DOMAIN k.heads \subseteq DOMAIN j.heads
    <3>1. CASE Chain!SendPart(q) \/ Chain!Scan(q) \/ Chain!Clear(q) \/ Chain!WriteEdit(q)
      BY <3>1, SendsPart, ScansIt, ClearsIt, EditsIt DEF Unmarked
    <3>2. CASE Chain!Fetch(q)
      <4>1. \A id, m : DOMAIN Chain!One(id, m) = {id}
        BY DEF Chain!One
      <4>2. /\ Chain!Busy(q) /\ Aside(q) /\ Unmarked
            /\ \/ Ended(q)
               \/ Moved(q, {"at", "head"})
               \/ Moved(q, {"at", "heads"}) /\ j.op = "get" /\ DOMAIN k.heads = {j.id}
               \/ Moved(q, {"at", "rows"})
        BY <3>2, <4>1, Fetches
      <4> HIDE DEF k
      <4> QED
        BY <4>2 DEF Unmarked
    <3>3. CASE Chain!NextText(q) \/ Chain!Collect(q) \/ Chain!PageDone(q)
      <4>1. DOMAIN Chain!Restrict(j.heads, DOMAIN j.heads \ {j.from}) \subseteq DOMAIN j.heads
        BY DEF Chain!Restrict
      <4>2. /\ Chain!Busy(q) /\ Aside(q) /\ Unmarked
            /\ \/ Moved(q, {"at", "from", "got"})
               \/ Moved(q, {"at", "below", "from", "got", "heads", "page"})
                    /\ DOMAIN k.heads \subseteq DOMAIN j.heads
               \/ Moved(q, {"got", "below"})
               \/ Moved(q, {"rows", "page", "at", "offset"})
        BY NextsText, <4>1, CollectsIt, PagesDone, <3>3
      <4> HIDE DEF k
      <4> QED
        BY <4>2 DEF Unmarked
    <3> QED
      BY <1>3, <3>1, <3>2, <3>3
  <2>2. \/ Ended(q)
        \/ /\ k.op = j.op /\ k.id = j.id
           /\ DOMAIN k.heads \subseteq DOMAIN j.heads \/ (j.op = "get" /\ DOMAIN k.heads = {j.id})
    BY <2>1 DEF Moved, CallFields
  <2> QED
    BY <2>1, <2>2, ReadApartGoes
<1>4. CASE Chain!Answer(q) \/ Chain!Fail(q) \/ Chain!WriteDelete(q)
  BY <1>4, AnswersIt, FailsIt, DeletesIt, ReadApartGoes DEF Unmarked
<1>5. CASE Chain!FloodWait(q)
  BY <1>5, FloodsIt, ReadApartGoes
<1> QED
  BY <1>1, <1>2, <1>3, <1>4, <1>5, ListsPageApart, SendsFirstApart, Zenon
  DEF Chain!Step

-----------------------------------------------------------------------------
(* Chains: what readers are given is of one text, and all of it.            *)

Shortened(x) == \E text \in Chain!Texts : x \subseteq Chain!Pieces(text)
Entire(x) == \E text \in Chain!Texts : x = Chain!Pieces(text)
Orderly == Chain!Clean({"during", "cut", "resent"})
Given(j) ==
  /\ \A id \in DOMAIN j.rows : Shortened(j.rows[id])
  /\ \A id \in DOMAIN j.page : Shortened(j.page[id])
  /\ j.at = "collect" => j.got \subseteq Chain!Pieces(j.heads[j.from].text)
\* Nothing is missing of what was read so far.
AllGiven(j) ==
  /\ \A id \in DOMAIN j.rows : Entire(j.rows[id])
  /\ \A id \in DOMAIN j.page : Entire(j.page[id])
  /\ \A id \in DOMAIN j.heads : messages[id] = j.heads[id]
  /\ j.at = "collect" =>
       /\ <<j.heads[j.from].text, 0>> \in j.got
       /\ \A p \in Chain!Ids : Chain!OfChain(messages[p], j.from, j.heads[j.from]) =>
            j.below = 0 \/ p < j.below \/ <<messages[p].text, messages[p].index>> \in j.got
ReadersGiven == \A q \in Requests : Chain!Busy(q) => Given(job[q]) /\ (Orderly => AllGiven(job[q]))

\* What a step leaves of the messages that a call reads, and of their parts.
Undisturbed(r) == \A id \in DOMAIN job[r].heads :
  /\ messages'[id] = messages[id]
  /\ \A p \in Chain!Ids' : messages'[p].kind = "part" /\ messages'[p].parent = id =>
       p \in Chain!Ids /\ messages'[p] = messages[p]

LEMMA OrderlyBefore ==
  /\ incidents \subseteq incidents' /\ Orderly' => Orderly
  /\ Orderly => Untouched /\ Uncut
  BY DEF Orderly, Untouched, Uncut, Chain!Clean

LEMMA OthersGiven ==
  ASSUME NEW j, NEW k, Like(j, k), Given(j)
  PROVE  Given(k)
  BY DEF Like, Given

LEMMA OthersWhole ==
  ASSUME ChainTypes, NEW q \in Requests, Aside(q), NEW r \in Requests, r # q, Chain!Busy(r), AllGiven(job[r]),
         Undisturbed(r)
  PROVE  AllGiven(job[r])'
<1> DEFINE j == job[r]  k == job'[r]
<1>1. Like(j, k) /\ Placed(j)
  BY BusyAt DEF Aside
<1>2. /\ k.rows = j.rows /\ k.page = j.page /\ k.heads = j.heads /\ k.at = j.at /\ k.from = j.from
      /\ k.got = j.got /\ k.below = j.below
  BY <1>1 DEF Like
<1>3. \A id \in DOMAIN k.heads : messages'[id] = k.heads[id]
  BY <1>2 DEF AllGiven, Undisturbed
<1>4. ASSUME k.at = "collect"
      PROVE  /\ <<k.heads[k.from].text, 0>> \in k.got
             /\ \A p \in Chain!Ids' : Chain!OfChain(messages'[p], k.from, k.heads[k.from]) =>
                  k.below = 0 \/ p < k.below \/ <<messages'[p].text, messages'[p].index>> \in k.got
  BY <1>1, <1>2, <1>4 DEF AllGiven, Placed, Chain!OfChain, Undisturbed
<1> QED
  BY <1>2, <1>3, <1>4 DEF AllGiven

LEMMA GivenBy ==
  ASSUME ChainTypes, ReadersGiven, NEW q \in Requests, Aside(q), incidents \subseteq incidents',
         Chain!Busy(q)' => Given(job'[q]) /\ (Orderly' => AllGiven(job[q])'),
         Orderly' => \A r \in Requests : r # q /\ Chain!Busy(r) => Undisturbed(r)
  PROVE  ReadersGiven'
  BY OthersGiven, OrderlyBefore, OthersWhole DEF Aside, ReadersGiven

\* A step that leaves the channel disturbs nobody.
LEMMA StillUndisturbed ==
  ASSUME Still, NEW r \in Requests
  PROVE  Undisturbed(r)
  BY DEF Still, Undisturbed, Chain!Ids

\* A call that is given nothing.
LEMMA GivesNothing ==
  ASSUME ChainTypes, ReadersGiven, NEW q \in Requests, Aside(q), incidents \subseteq incidents', Chain!Busy(q),
         \/ Ended(q)
         \/ /\ job'[q].rows = job[q].rows
            /\ job'[q].page = job[q].page \/ DOMAIN job'[q].page = {}
            /\ job'[q].at # "collect" /\ DOMAIN job'[q].heads = {},
         Orderly' => \A r \in Requests : r # q /\ Chain!Busy(r) => Undisturbed(r)
  PROVE  ReadersGiven'
<1> DEFINE j == job[q]  k == job'[q]
<1>1. Given(j) /\ (Orderly => AllGiven(j))
  BY DEF ReadersGiven
<1>2. CASE Ended(q)
  BY <1>2, EndedIdle, GivenBy
<1>3. CASE /\ k.rows = j.rows /\ (k.page = j.page \/ DOMAIN k.page = {})
           /\ k.at # "collect" /\ DOMAIN k.heads = {}
  BY <1>1, <1>3, OrderlyBefore, GivenBy DEF Given, AllGiven
<1> QED
  BY <1>2, <1>3

LEMMA SendsFirstGiven ==
  ASSUME ChainTypes, ReadersGiven, NEW q \in Requests, Chain!SendFirst(q)
  PROVE  ReadersGiven'
<1> DEFINE j == job[q]  k == job'[q]
<1>1. /\ Chain!Busy(q) /\ j.at = "first" /\ Aside(q) /\ Unmarked /\ Placed(j)
      /\ Ended(q) \/ (Moved(q, {"at", "id", "chain", "index"}) /\ k.at = "parts")
  BY SendsFirst, BusyAt
<1>2. PICK m : Grown(m) /\ m.kind # "part"
  <2> DEFINE first == Chain!Start(j.text, chains + 1)  whole == Chain!Whole(j.text)
  <2>1. first.kind # "part" /\ whole.kind # "part"
    BY DEF Chain!Start, Chain!Whole, Chain!Gone
  <2>2. Grown(first) \/ Grown(whole)
    BY SendsFirst
  <2> HIDE DEF first, whole
  <2> QED
    BY <2>1, <2>2
<1>3. /\ \A p \in Chain!Ids : messages'[p] = messages[p]
      /\ \A p \in Chain!Ids' : messages'[p].kind = "part" => p \in Chain!Ids
  BY <1>2, GrownHas DEF ChainTypes
<1>4. ASSUME NEW r \in Requests, Chain!Busy(r) PROVE Undisturbed(r)
  BY <1>4, BusyAt, <1>3 DEF Informed, Leading, Undisturbed
<1>5. Moved(q, {"at", "id", "chain", "index"}) => k.rows = j.rows /\ k.page = j.page /\ DOMAIN k.heads = {}
  BY <1>1 DEF Moved, CallFields, Placed
<1> QED
  BY <1>1, <1>4, <1>5, GivesNothing DEF Unmarked

\* Parts are sent while nobody reads the message.
LEMMA SendsPartGiven ==
  ASSUME ChainTypes, ReadApart, ReadersGiven, NEW q \in Requests, Chain!SendPart(q)
  PROVE  ReadersGiven'
<1> DEFINE j == job[q]  k == job'[q]  m == Chain!Part(j.text, j.index, j.chain, j.id)
<1>1. /\ Chain!Busy(q) /\ j.at = "parts" /\ Aside(q) /\ Unmarked /\ Placed(j) /\ Grown(m)
      /\ Ended(q) \/ Moved(q, {"index"})
  BY SendsPart, BusyAt
<1>2. m.parent = j.id
  BY DEF Chain!Part
<1> HIDE DEF m
<1>3. /\ \A p \in Chain!Ids : messages'[p] = messages[p]
      /\ \A p \in Chain!Ids' : p \in Chain!Ids \/ messages'[p] = m
  BY <1>1, GrownHas DEF ChainTypes
<1>4. Chain!Writes(q, j.id)
  BY <1>1 DEF Chain!Writes, Placed, Places, Operations
<1>5. ASSUME Orderly', NEW r \in Requests, r # q, Chain!Busy(r) PROVE Undisturbed(r)
  BY <1>5, BusyAt, <1>1, OrderlyBefore, <1>4, <1>2, <1>3 DEF Informed, Leading, Unmarked, ReadApart,
     Chain!Reads, Undisturbed
<1>6. Moved(q, {"index"}) => /\ k.rows = j.rows /\ k.page = j.page /\ DOMAIN k.heads = {} /\ k.at = "parts"
  BY <1>1 DEF Moved, CallFields, Placed
<1> QED
  BY <1>1, <1>5, <1>6, GivesNothing DEF Unmarked

\* Only parts are deleted.
LEMMA ClearsGiven ==
  ASSUME ChainTypes, ReadersGiven, NEW q \in Requests, Chain!Clear(q)
  PROVE  ReadersGiven'
<1> DEFINE j == job[q]  k == job'[q]
<1>1. /\ Chain!Busy(q) /\ j.at = "clear" /\ Aside(q) /\ Unmarked /\ Placed(j) /\ Informed(j)
      /\ Emptied(j.ids) /\ Moved(q, {"at"}) /\ k.at = "write"
  BY ClearsIt, BusyAt
<1>2. /\ Chain!Ids' = Chain!Ids
      /\ \A p \in Chain!Ids : messages'[p].kind = "part" => messages'[p] = messages[p]
      /\ \A p \in Chain!Ids : messages[p].kind = "start" => messages'[p] = messages[p]
  BY <1>1 DEF Emptied, Chain!Ids, Chain!Gone, Informed
<1>3. ASSUME Orderly', NEW r \in Requests, r # q, Chain!Busy(r) PROVE Undisturbed(r)
  <2>1. Informed(job[r]) /\ Orderly
    BY <1>1, <1>3, BusyAt, OrderlyBefore DEF Unmarked
  <2>2. \A id \in DOMAIN job[r].heads : id \in Chain!Ids /\ messages[id].kind = "start"
    BY <1>3, <2>1 DEF Informed, Leading, ReadersGiven, AllGiven
  <2> QED
    BY <1>2, <2>2 DEF Undisturbed
<1>4. k.rows = j.rows /\ k.page = j.page /\ DOMAIN k.heads = {}
  BY <1>1 DEF Moved, CallFields, Placed
<1> QED
  BY <1>1, <1>3, <1>4, GivesNothing DEF Unmarked

\* A message is written while nobody reads it.
LEMMA RewritesGiven ==
  ASSUME ChainTypes, ReadApart, ReadersGiven, Unmarked, NEW q \in Requests, Aside(q), Chain!Busy(q),
         job[q].at = "write", NEW m, m.kind # "part", Rewritten(job[q].id, m),
         Ended(q) \/ (job'[q].at = "parts" /\ Moved(q, {"at", "index", "chain"}))
  PROVE  ReadersGiven'
<1> DEFINE j == job[q]  k == job'[q]
<1>1. Placed(j) /\ Chain!Writes(q, j.id)
  BY BusyAt DEF Placed, Places, Operations, Chain!Writes
<1>2. /\ Chain!Ids' = Chain!Ids
      /\ \A p \in Chain!Ids : p # j.id => messages'[p] = messages[p]
      /\ \A p \in Chain!Ids : messages'[p].kind = "part" => messages'[p] = messages[p]
  BY DEF Rewritten, Chain!Ids
<1>3. ASSUME Orderly', NEW r \in Requests, r # q, Chain!Busy(r) PROVE Undisturbed(r)
  BY <1>3, BusyAt, OrderlyBefore, <1>1, <1>2 DEF Unmarked, Informed, Leading, ReadApart,
     Chain!Reads, Undisturbed
<1>4. Moved(q, {"at", "index", "chain"}) => k.rows = j.rows /\ k.page = j.page /\ DOMAIN k.heads = {}
  BY <1>1 DEF Moved, CallFields, Placed
<1> QED
  BY <1>3, <1>4, GivesNothing DEF Unmarked

LEMMA EditsGiven ==
  ASSUME ChainTypes, ReadApart, ReadersGiven, NEW q \in Requests, Chain!WriteEdit(q)
  PROVE  ReadersGiven'
<1> DEFINE j == job[q]  k == job'[q]
           first == Chain!Start(j.text, chains + 1)  whole == Chain!Whole(j.text)
<1>1. /\ Chain!Busy(q) /\ j.at = "write" /\ Unmarked /\ Aside(q)
      /\ \/ Still /\ Ended(q)
         \/ Rewritten(j.id, first) /\ Moved(q, {"at", "index", "chain"}) /\ k.at = "parts"
         \/ Rewritten(j.id, whole) /\ Ended(q)
  BY EditsIt
<1>2. first.kind # "part" /\ whole.kind # "part"
  BY DEF Chain!Start, Chain!Whole, Chain!Gone
<1> HIDE DEF first, whole
<1>3. CASE Still /\ Ended(q)
  BY <1>1, <1>3, StillUndisturbed, GivesNothing DEF Unmarked
<1>4. CASE Rewritten(j.id, first) /\ Moved(q, {"at", "index", "chain"}) /\ k.at = "parts"
  BY <1>1, <1>2, <1>4, RewritesGiven
<1>5. CASE Rewritten(j.id, whole) /\ Ended(q)
  BY <1>1, <1>2, <1>5, RewritesGiven
<1> QED
  BY <1>1, <1>3, <1>4, <1>5

\* A text of one message is what the message holds.
LEMMA OnlyEntire ==
  ASSUME NEW m, Formed(m), m.kind = "whole"
  PROVE  Entire(Chain!Only(m)) /\ Shortened(Chain!Only(m))
  BY Sizes DEF Formed, Chain!Pieces, Chain!Only, Entire, Shortened

LEMMA FetchesGiven ==
  ASSUME ChainTypes, ReadersGiven, NEW q \in Requests, Chain!Fetch(q)
  PROVE  ReadersGiven'
<1> DEFINE j == job[q]  k == job'[q]  m == messages[j.id]
<1>1. Chain!Busy(q) /\ j.at = "fetch" /\ Still /\ Unmarked /\ Aside(q) /\ Placed(j) /\ Informed(j)
  BY Fetches, BusyAt
<1>2. Given(j) /\ (Orderly => AllGiven(j)) /\ DOMAIN j.heads = {} /\ incidents \subseteq incidents'
  BY <1>1 DEF ReadersGiven, Placed, Unmarked
<1>3. Orderly' => Orderly
  BY <1>2, OrderlyBefore
<1>4. Formed(m) /\ messages'[j.id] = m
  BY <1>1, ChannelHas DEF ChainTypes, Still, Informed, Leading, Placed, Places, Operations
<1>5. \A r \in Requests : Undisturbed(r)
  BY <1>1, StillUndisturbed
<1> HIDE DEF m
<1>6. CASE Moved(q, {"at", "head"}) /\ k.at = "scan"
  BY <1>2, <1>6, <1>1, <1>5, GivesNothing DEF Moved, CallFields
<1>7. CASE /\ m.kind = "start" /\ Moved(q, {"at", "heads"})
           /\ k.at = "texts" /\ k.heads = Chain!One(j.id, m)
  <2>1. k.rows = j.rows /\ k.page = j.page /\ DOMAIN k.heads = {j.id} /\ k.heads[j.id] = m
    BY <1>7 DEF Moved, CallFields, Chain!One
  <2>2. Given(k)
    BY <1>2, <1>7, <2>1 DEF Given
  <2>3. Orderly' => AllGiven(job[q])'
    BY <1>2, <1>3, <1>4, <1>7, <2>1 DEF AllGiven
  <2> QED
    BY <1>1, <1>2, <1>5, <2>2, <2>3, GivenBy
<1>8. CASE /\ m.kind = "whole" /\ Moved(q, {"at", "rows"})
           /\ k.at = "done" /\ k.rows = Chain!One(j.id, Chain!Only(m))
  <2>1. k.page = j.page /\ DOMAIN k.heads = {} /\ DOMAIN k.rows = {j.id} /\ k.rows[j.id] = Chain!Only(m)
    BY <1>2, <1>8 DEF Moved, CallFields, Chain!One
  <2>2. Entire(Chain!Only(m)) /\ Shortened(Chain!Only(m))
    BY <1>4, <1>8, OnlyEntire
  <2>3. Given(k)
    BY <1>2, <1>8, <2>1, <2>2 DEF Given
  <2>4. Orderly' => AllGiven(job[q])'
    BY <1>2, <1>3, <1>8, <2>1, <2>2 DEF AllGiven
  <2> QED
    BY <1>1, <1>2, <1>5, <2>3, <2>4, GivenBy
<1>9. CASE Ended(q)
  BY <1>1, <1>2, <1>5, <1>9, GivesNothing
<1> QED
  BY <1>6, <1>7, <1>8, <1>9, Fetches DEF m

LEMMA ListsPageGiven ==
  ASSUME ChainTypes, ReadersGiven, NEW q \in Requests, Chain!ListPage(q)
  PROVE  ReadersGiven'
<1> DEFINE j == job[q]  k == job'[q]
           page == Chain!PageOf(0, j.offset)
           found == {id \in page : Chain!Leads(id)}
           whole == {id \in found : messages[id].kind = "whole"}
<1>1. /\ Chain!Busy(q) /\ Still /\ Aside(q) /\ incidents \subseteq incidents' /\ Placed(j)
      /\ Moved(q, {"at", "page", "heads"}) /\ k.at = "texts"
      /\ k.page = [id \in whole |-> Chain!Only(messages[id])]
      /\ k.heads = [id \in found \ whole |-> messages[id]]
  BY ListsPage, BusyAt
<1>2. page \subseteq Chain!Ids
  <2>1. j.offset \in Nat /\ ChannelTypes
    BY <1>1 DEF ChainTypes, Placed
  <2> QED
    BY <2>1, PageHas
<1> HIDE DEF page
<1>3. \A id \in whole : Formed(messages[id]) /\ messages[id].kind = "whole"
  BY <1>2, ChannelHas DEF ChainTypes
<1>4. \A id \in DOMAIN k.page : Entire(k.page[id]) /\ Shortened(k.page[id])
  BY <1>1, <1>3, OnlyEntire
<1>5. \A id \in DOMAIN k.heads : messages'[id] = k.heads[id]
  BY <1>1 DEF Still
<1> HIDE DEF found, whole
<1>6. k.rows = j.rows
  BY <1>1 DEF Moved, CallFields
<1>7. Given(j) /\ (Orderly' => AllGiven(j))
  BY <1>1, OrderlyBefore DEF ReadersGiven
<1>8. Given(k)
  BY <1>1, <1>4, <1>6, <1>7 DEF Given
<1>9. Orderly' => AllGiven(job[q])'
  BY <1>1, <1>4, <1>5, <1>6, <1>7 DEF AllGiven
<1> QED
  BY <1>1, <1>8, <1>9, StillUndisturbed, GivenBy

LEMMA NextsTextGiven ==
  ASSUME ChainTypes, ReadersGiven, NEW q \in Requests, Chain!NextText(q)
  PROVE  ReadersGiven'
<1> DEFINE j == job[q]  k == job'[q]
<1>1. /\ Chain!Busy(q) /\ j.at = "texts" /\ Still /\ Unmarked /\ Aside(q) /\ Placed(j) /\ Informed(j)
      /\ Moved(q, {"at", "from", "got"}) /\ k.at = "collect"
      /\ k.from \in DOMAIN j.heads /\ k.got = Chain!Only(j.heads[k.from])
  BY NextsText, BusyAt
<1>2. k.rows = j.rows /\ k.page = j.page /\ k.heads = j.heads /\ k.below = 0
  BY <1>1 DEF Moved, CallFields, Placed
<1>3. Given(j) /\ (Orderly' => AllGiven(j))
  BY <1>1 DEF ReadersGiven, Unmarked, Orderly, Chain!Clean
<1>4. k.got = {<<k.heads[k.from].text, 0>>}
  BY <1>1, <1>2 DEF Chain!Only
<1>5. k.heads[k.from].text \in Long
  BY <1>1, <1>2 DEF Informed, Formed
<1>6. Chain!Pieces(k.heads[k.from].text) = {k.heads[k.from].text} \X (0..(LongParts - 1))
  BY <1>5, Sizes DEF Chain!Pieces
<1>7. 0 \in 0..(LongParts - 1)
  BY Sizes
<1> HIDE DEF k
<1>8. k.got \subseteq Chain!Pieces(k.heads[k.from].text)
  BY <1>4, <1>6, <1>7
<1>9. Given(k)
  BY <1>2, <1>3, <1>8 DEF Given
<1>10. Orderly' => AllGiven(job[q])'
  BY <1>1, <1>2, <1>3, <1>4 DEF AllGiven, k, Still
<1> QED
  BY <1>1, <1>9, <1>10, StillUndisturbed, GivenBy DEF k, Unmarked

LEMMA PagesDoneGiven ==
  ASSUME ChainTypes, ReadersGiven, NEW q \in Requests, Chain!PageDone(q)
  PROVE  ReadersGiven'
<1> DEFINE j == job[q]  k == job'[q]
<1>1. /\ Chain!Busy(q) /\ Still /\ Unmarked /\ Aside(q)
      /\ DOMAIN j.heads = {} /\ Moved(q, {"rows", "page", "at", "offset"})
      /\ k.rows = Chain!Both(j.rows, j.page) /\ DOMAIN k.page = {} /\ k.at \in {"done", "page"}
  BY PagesDone
<1>2. DOMAIN k.heads = {}
  BY <1>1 DEF Moved, CallFields
<1>3. \A id \in DOMAIN k.rows : \/ id \in DOMAIN j.rows /\ k.rows[id] = j.rows[id]
                                \/ id \in DOMAIN j.page /\ k.rows[id] = j.page[id]
  BY <1>1 DEF Chain!Both
<1>4. Given(j) /\ (Orderly' => AllGiven(j))
  BY <1>1 DEF ReadersGiven, Unmarked, Orderly, Chain!Clean
<1>5. Given(k)
  BY <1>1, <1>3, <1>4 DEF Given
<1>6. Orderly' => AllGiven(job[q])'
  BY <1>1, <1>2, <1>3, <1>4 DEF AllGiven
<1> QED
  BY <1>1, <1>5, <1>6, StillUndisturbed, GivenBy DEF Unmarked

LEMMA PiecesCount ==
  ASSUME NEW text \in Long
  PROVE  IsFiniteSet(Chain!Pieces(text)) /\ Cardinality(Chain!Pieces(text)) = LongParts
<1>1. Chain!Pieces(text) = {text} \X (0..(LongParts - 1)) /\ LongParts - 1 \in Nat /\ LongParts \in Nat
  BY Sizes DEF Chain!Pieces
<1>2. IsFiniteSet({text}) /\ Cardinality({text}) = 1
  BY FS_Singleton
<1>3. IsFiniteSet(0..(LongParts - 1)) /\ Cardinality(0..(LongParts - 1)) = LongParts
  BY <1>1, FS_Interval
<1>4. IsFiniteSet({text} \X (0..(LongParts - 1)))
      /\ Cardinality({text} \X (0..(LongParts - 1))) = 1 * LongParts
  BY <1>2, <1>3, FS_Product
<1> QED
  BY <1>1, <1>4

\* While nobody changes the message it has all of its parts, and the pages find them.
LEMMA CollectsWhole ==
  ASSUME ChainTypes, ChainsNamed, Texted, ReadApart, ReadersGiven, Orderly,
         NEW q \in Requests, Chain!Busy(q), job[q].at = "collect", NEW found,
         NEW page, page = Chain!PageOf(job[q].from, job[q].below),
         found = job[q].got \cup {<<messages[id].text, messages[id].index>> :
                   id \in {x \in page : Chain!OfChain(messages[x], job[q].from, job[q].heads[job[q].from])}}
  PROVE  LET head == job[q].heads[job[q].from]
         IN /\ <<head.text, 0>> \in found
            /\ Chain!Ends(page) => Chain!Pieces(head.text) \subseteq found
            /\ ~Chain!Ends(page) =>
                 \A p \in Chain!Ids : Chain!OfChain(messages[p], job[q].from, head) =>
                   p < Chain!Min(page) \/ <<messages[p].text, messages[p].index>> \in found
<1> DEFINE j == job[q]  head == job[q].heads[job[q].from]
<1>1. Placed(j) /\ Informed(j) /\ AllGiven(j)
  BY BusyAt DEF ReadersGiven
<1>2. /\ j.from \in DOMAIN j.heads /\ messages[j.from] = head /\ head.kind = "start"
      /\ Formed(head) /\ Leading(j.from) /\ j.below \in Nat
  BY <1>1 DEF Placed, Informed, AllGiven
<1>3. Named(head.chain, j.from, head.text) /\ head.text \in Long /\ j.from \in Nat /\ j.from \in Chain!Ids
  BY <1>2, ChannelHas DEF Named, NamedBy, Formed, Leading, ChainTypes
<1>4. /\ page \subseteq Chain!Ids
      /\ \A x \in page : \A y : Within(y, j.from, j.below) /\ y > x => y \in page
      /\ Chain!Ends(page) => \A y : Within(y, j.from, j.below) => y \in page
      /\ ~Chain!Ends(page) => Chain!Min(page) \in page
  BY <1>2, <1>3, PageHas DEF ChainTypes
<1>5. \A p \in page : Chain!OfChain(messages[p], j.from, head) =>
        <<messages[p].text, messages[p].index>> \in found
  OBVIOUS
<1>6. ASSUME NEW p \in Chain!Ids, Chain!OfChain(messages[p], j.from, head)
      PROVE  Within(p, j.from, j.below) \/ <<messages[p].text, messages[p].index>> \in found
  BY <1>6, <1>3, ChannelHas, <1>1 DEF Chain!OfChain, ChainTypes, Ordered, AllGiven, Within
<1>7. ASSUME Chain!Ends(page) PROVE Chain!Pieces(head.text) \subseteq found
  <2>1. \A r \in Requests : ~Chain!Writes(r, j.from)
    BY <1>2, OrderlyBefore, ReadsNoWrites DEF Chain!Reads, ReadApart
  <2>2. \A r \in Requests : ~Undoing(r, j.from)
    BY <2>1 DEF Undoing, Chain!Writes
  <2>3. ASSUME NEW r \in Requests, NEW i, Due(r, head.chain, i) PROVE FALSE
    <3>1. Chain!Busy(r) /\ job[r].at = "parts" /\ job[r].chain = head.chain
      BY <2>3 DEF Due
    <3>2. Named(job[r].chain, job[r].id, job[r].text)
      BY <3>1 DEF Named, NamedBy
    <3>3. job[r].id = j.from
      BY <1>3, <3>1, <3>2 DEF ChainsNamed
    <3>4. job[r].op \in {"send", "edit"}
      BY <3>1, BusyAt DEF Placed, Places, Operations
    <3> QED
      BY <2>1, <3>1, <3>3, <3>4 DEF Chain!Writes
  <2>4. Uncut
    BY OrderlyBefore
  <2>5. \A i \in 1..(LongParts - 1) : HasPart(j.from, head.chain, i)
    BY <1>2, <1>3, <2>2, <2>3, <2>4 DEF Texted, Attended
  <2>6. ASSUME NEW i \in 1..(LongParts - 1) PROVE <<head.text, i>> \in found
    <3>1. PICK p \in Chain!Ids : /\ messages[p].kind = "part" /\ messages[p].chain = head.chain
                                 /\ messages[p].parent = j.from /\ messages[p].index = i
      BY <2>5 DEF HasPart
    <3>2. Chain!OfChain(messages[p], j.from, head)
      BY <3>1 DEF Chain!OfChain
    <3>3. messages[p].text = head.text
      BY <1>3, <3>2, PartsOfIt DEF ChainTypes
    <3>4. <<messages[p].text, messages[p].index>> \in found
      BY <1>4, <1>5, <1>6, <1>7, <3>2
    <3> QED
      BY <3>1, <3>3, <3>4
  <2>7. <<head.text, 0>> \in found
    BY <1>1 DEF AllGiven
  <2>8. Chain!Pieces(head.text) = {head.text} \X (0..(LongParts - 1)) /\ LongParts - 1 \in Nat
    BY <1>3, Sizes DEF Chain!Pieces
  <2> HIDE DEF head
  <2>9. \A i \in 0..(LongParts - 1) : <<head.text, i>> \in found
    BY <2>6, <2>7, <2>8
  <2> QED
    BY <2>8, <2>9
<1>8. ASSUME ~Chain!Ends(page), NEW p \in Chain!Ids, Chain!OfChain(messages[p], j.from, head)
      PROVE  p < Chain!Min(page) \/ <<messages[p].text, messages[p].index>> \in found
  BY <1>4, <1>8, ChannelHas, <1>5, <1>6 DEF ChainTypes
<1>9. <<head.text, 0>> \in found
  BY <1>1 DEF AllGiven
<1> QED
  BY <1>7, <1>8, <1>9

LEMMA CollectsGiven ==
  ASSUME ChainTypes, ChainsNamed, Texted, ReadApart, ReadersGiven, NEW q \in Requests, Chain!Collect(q)
  PROVE  ReadersGiven'
<1> DEFINE j == job[q]  k == job'[q]
           head == j.heads[j.from]
           page == Chain!PageOf(j.from, j.below)
           found == j.got \cup {<<messages[id].text, messages[id].index>> :
                                  id \in {x \in page : Chain!OfChain(messages[x], j.from, head)}}
<1>1. Chain!Busy(q) /\ j.at = "collect" /\ Still /\ Unmarked /\ Aside(q) /\ Placed(j) /\ Informed(j)
  BY CollectsIt, BusyAt
<1>2. Given(j) /\ (Orderly' => Orderly) /\ (Orderly => AllGiven(j)) /\ incidents \subseteq incidents'
  BY <1>1 DEF ReadersGiven, Unmarked, Orderly, Chain!Clean
<1>3. /\ j.from \in DOMAIN j.heads /\ head.text \in Long /\ j.from \in Nat /\ j.below \in Nat
      /\ Named(head.chain, j.from, head.text)
  BY <1>1, ChannelHas DEF Placed, Informed, Formed, Leading, ChainTypes, Named, NamedBy
<1>4. page \subseteq Chain!Ids
  BY <1>3, PageHas DEF ChainTypes
<1>5. found \subseteq Chain!Pieces(head.text)
  <2>1. j.got \subseteq Chain!Pieces(head.text)
    BY <1>1, <1>2 DEF Given
  <2>2. /\ Chain!Pieces(head.text) = {head.text} \X (0..(LongParts - 1)) /\ LongParts - 1 \in Nat
        /\ \A p \in Chain!Ids : Chain!OfChain(messages[p], j.from, head) =>
             messages[p].text = head.text /\ messages[p].index \in 1..(LongParts - 1)
    BY <1>3, PartsOfIt DEF ChainTypes
  <2> HIDE DEF head, page
  <2> QED
    BY <1>4, <2>1, <2>2
<1>6. Orderly => /\ <<head.text, 0>> \in found
                 /\ Chain!Ends(page) => Chain!Pieces(head.text) \subseteq found
                 /\ ~Chain!Ends(page) =>
                      \A p \in Chain!Ids : Chain!OfChain(messages[p], j.from, head) =>
                        p < Chain!Min(page) \/ <<messages[p].text, messages[p].index>> \in found
  BY <1>1, CollectsWhole
<1>7. IsFiniteSet(Chain!Pieces(head.text)) /\ Cardinality(Chain!Pieces(head.text)) = LongParts
  BY <1>3, PiecesCount
<1>8. \A r \in Requests : Undisturbed(r)
  BY <1>1, StillUndisturbed
<1>9. \/ /\ Chain!Ends(page) \/ Chain!Cardinality(found) = Chain!Size(head.text)
         /\ Moved(q, {"at", "below", "from", "got", "heads", "page"})
         /\ k.at = "texts"
         /\ k.heads = Chain!Restrict(j.heads, DOMAIN j.heads \ {j.from})
         /\ k.page = Chain!Both(Chain!One(j.from, found), j.page)
      \/ /\ ~Chain!Ends(page) /\ Moved(q, {"got", "below"})
         /\ k.got = found /\ k.below = Chain!Min(page)
  BY CollectsIt
<1> HIDE DEF found, page
<1>10. CASE /\ Chain!Ends(page) \/ Chain!Cardinality(found) = Chain!Size(head.text)
            /\ Moved(q, {"at", "below", "from", "got", "heads", "page"})
            /\ k.at = "texts"
            /\ k.heads = Chain!Restrict(j.heads, DOMAIN j.heads \ {j.from})
            /\ k.page = Chain!Both(Chain!One(j.from, found), j.page)
  <2>1. k.rows = j.rows
    BY <1>10 DEF Moved, CallFields
  <2>2. \A id \in DOMAIN k.heads : id \in DOMAIN j.heads /\ k.heads[id] = j.heads[id]
    BY <1>10 DEF Chain!Restrict
  <2>3. \A id \in DOMAIN k.page : k.page[id] = found \/ (id \in DOMAIN j.page /\ k.page[id] = j.page[id])
    BY <1>10 DEF Chain!Both, Chain!One
  <2>4. head.text \in Chain!Texts
    BY <1>3 DEF Chain!Texts
  <2>5. Shortened(found)
    BY <1>5, <2>4 DEF Shortened
  <2>6. Orderly => Entire(found)
    <3>1. CASE Chain!Ends(page)
      BY <1>5, <1>6, <2>4, <3>1 DEF Entire
    <3>2. CASE Chain!Cardinality(found) = Chain!Size(head.text)
      BY <1>3, <1>7, <3>2, SameCount, Sizes, <1>5, FS_Subset, <2>4 DEF Entire
    <3> QED
      BY <1>10, <3>1, <3>2
  <2>7. Given(k)
    BY <1>2, <1>10, <2>1, <2>3, <2>5 DEF Given
  <2>8. Orderly' => AllGiven(job[q])'
    BY <1>1, <1>2, <1>10, <2>1, <2>2, <2>3, <2>6 DEF AllGiven, Still
  <2> QED
    BY <1>1, <1>2, <1>8, <2>7, <2>8, GivenBy
<1>11. CASE ~Chain!Ends(page) /\ Moved(q, {"got", "below"}) /\ k.got = found /\ k.below = Chain!Min(page)
  BY <1>11, <1>1, <1>2, <1>5, <1>6, <1>8, GivenBy DEF Moved, CallFields, Given, AllGiven, Still,
     Chain!Ids
<1> QED
  BY <1>9, <1>10, <1>11

LEMMA GivenStep ==
  ASSUME ChainTypes, ChainsNamed, Texted, ReadApart, ReadersGiven, Chain!Next
  PROVE  ReadersGiven'
<1>1. PICK q \in Requests : Chain!Step(q)
  BY DEF Chain!Next
<1> DEFINE j == job[q]  k == job'[q]
<1>2. CASE Chain!Send(q) \/ Chain!Edit(q) \/ Chain!Delete(q) \/ Chain!Get(q) \/ Chain!List(q)
  <2>1. PICK op, id, text : Opens(q, op, id, text)
    BY <1>2, OpensOne
  <2>2. Afresh(q) /\ Unbegun(k, op, id, text) /\ incidents \subseteq incidents' /\ Still /\ Aside(q)
    BY <2>1, OpensAfresh DEF Opens
  <2>3. DOMAIN k.rows = {} /\ DOMAIN k.page = {} /\ DOMAIN k.heads = {} /\ k.at # "collect"
    BY <2>2 DEF Unbegun, Afresh
  <2>4. Given(k) /\ AllGiven(job[q])'
    BY <2>3 DEF Given, AllGiven
  <2> QED
    BY <2>2, <2>4, StillUndisturbed, GivenBy
<1>3. CASE Chain!FloodWait(q)
  BY <1>3, FloodsAfresh, FloodsIt, StillUndisturbed, GivesNothing DEF Afresh
<1>4. CASE Chain!Answer(q) \/ Chain!Fail(q)
  BY <1>4, AnswersIt, FailsIt, StillUndisturbed, GivesNothing DEF Unmarked
<1>5. CASE Chain!Scan(q)
  BY <1>5, ScansIt, BusyAt, StillUndisturbed, GivesNothing DEF Moved, CallFields, Placed, Unmarked
<1>6. CASE Chain!WriteDelete(q)
  <2> DEFINE m == Chain!Gone
  <2>1. m.kind # "part"
    BY DEF Chain!Gone
  <2>2. /\ Chain!Busy(q) /\ Aside(q) /\ Unmarked /\ j.at = "write" /\ Rewritten(j.id, m) /\ Ended(q)
    BY <1>6, DeletesIt
  <2> HIDE DEF m
  <2> QED
    BY <2>1, <2>2, RewritesGiven
<1> QED
  BY <1>1, <1>2, <1>3, <1>4, <1>5, <1>6, SendsFirstGiven, SendsPartGiven, FetchesGiven, ClearsGiven,
     EditsGiven, ListsPageGiven, NextsTextGiven, CollectsGiven, PagesDoneGiven, Zenon
  DEF Chain!Step

LEMMA ReadsAreSoundThen ==
  ASSUME ReadersGiven
  PROVE  Chain!ReadsAreSound
<1> SUFFICES ASSUME NEW q \in Requests, Chain!At(q, "done"), NEW id \in DOMAIN job[q].rows
             PROVE  \E text \in Chain!Texts : /\ job[q].rows[id] \subseteq Chain!Pieces(text)
                                              /\ Orderly => job[q].rows[id] = Chain!Pieces(text)
  BY DEF Chain!ReadsAreSound, Orderly
<1>1. Shortened(job[q].rows[id]) /\ (Orderly => Entire(job[q].rows[id]))
  BY DEF ReadersGiven, Given, AllGiven, Chain!At
<1>2. CASE Orderly
  BY <1>1, <1>2 DEF Entire
<1>3. CASE ~Orderly
  BY <1>1, <1>3 DEF Shortened
<1> QED
  BY <1>2, <1>3

-----------------------------------------------------------------------------
(* Chains: what a listing has not got is older than all it got.             *)

Undropped == Chain!Clean({"dropped"})
OnPage(j) == DOMAIN j.page \cup DOMAIN j.heads
Paged(j) ==
  /\ j.at # "done" => \A x \in j.there : x \in DOMAIN j.rows \/ j.offset = 0 \/ x < j.offset
  /\ j.at \in {"texts", "collect"} =>
       \A x \in j.there : \/ x \in DOMAIN j.rows \cup OnPage(j)
                          \/ ~(Cardinality(OnPage(j)) < Page) /\ \A y \in OnPage(j) : x < y
  /\ j.at = "done" => j.there \subseteq DOMAIN j.rows
Listings == \A q \in Requests : Chain!Busy(q) /\ job[q].op = "list" =>
  job[q].there \subseteq Chain!Heads /\ (Undropped => Paged(job[q]))

LEMMA UndroppedBefore ==
  ASSUME incidents \subseteq incidents', Undropped'
  PROVE  Undropped
  BY DEF Undropped, Chain!Clean

LEMMA OthersPaged ==
  ASSUME NEW j, NEW k, Like(j, k), k.there \subseteq j.there, Paged(j)
  PROVE  Paged(k)
  BY DEF Like, OnPage, Paged

LEMMA ListingsBy ==
  ASSUME Listings, NEW q \in Requests, Aside(q), incidents \subseteq incidents',
         Chain!Busy(q)' /\ job'[q].op = "list" =>
           job'[q].there \subseteq Chain!Heads' /\ (Undropped' => Paged(job'[q])),
         \A r \in Requests : r # q /\ Chain!Busy(r) =>
           \A x \in job'[r].there : x \in Chain!Heads => x \in Chain!Heads'
  PROVE  Listings'
  BY UndroppedBefore, OthersPaged DEF Aside, Like, Listings

LEMMA StillHeads ==
  ASSUME Still
  PROVE  Chain!Heads' = Chain!Heads
  BY DEF Still, Chain!Heads, Chain!Ids, Chain!Leads

\* A call that lists nothing, or is over.
LEMMA ListsNothing ==
  ASSUME Listings, NEW q \in Requests, Aside(q), incidents \subseteq incidents',
         Ended(q) \/ job'[q].op # "list",
         \A r \in Requests : r # q /\ Chain!Busy(r) =>
           \A x \in job'[r].there : x \in Chain!Heads => x \in Chain!Heads'
  PROVE  Listings'
  BY ListingsBy, EndedIdle

LEMMA GrownListings ==
  ASSUME ChainTypes, Listings, Unmarked, NEW q \in Requests, Aside(q), NEW m, Grown(m),
         Ended(q) \/ job'[q].op # "list"
  PROVE  Listings'
  BY GrownHas, ListsNothing DEF ChainTypes, Chain!Heads, Chain!Leads, Unmarked

LEMMA ClearsListings ==
  ASSUME ChainTypes, Listings, NEW q \in Requests, Chain!Clear(q)
  PROVE  Listings'
<1> DEFINE j == job[q]  k == job'[q]
<1>1. /\ Chain!Busy(q) /\ j.at = "clear" /\ Aside(q) /\ Unmarked /\ Placed(j) /\ Informed(j)
      /\ Emptied(j.ids) /\ Moved(q, {"at"})
  BY ClearsIt, BusyAt
<1>2. k.op # "list"
  BY <1>1 DEF Moved, CallFields, Placed, Places, Operations
<1>3. \A x \in Chain!Heads : x \in Chain!Heads'
  BY <1>1 DEF Informed, Emptied, Chain!Heads, Chain!Ids, Chain!Leads
<1> QED
  BY <1>1, <1>2, <1>3, ListsNothing DEF Unmarked

LEMMA RewritesListings ==
  ASSUME ChainTypes, Listings, Unmarked, NEW q \in Requests, Aside(q), Chain!Busy(q), job[q].at = "write",
         NEW m, Rewritten(job[q].id, m), m.kind # "gone" => m.kind \in {"whole", "start"},
         m.kind = "gone" => \A r \in Requests : r # q /\ Chain!Busy(r) => job[q].id \notin job'[r].there,
         Ended(q) \/ (job'[q].at = "parts" /\ Moved(q, {"at", "index", "chain"}))
  PROVE  Listings'
<1> DEFINE j == job[q]  k == job'[q]
<1>1. Placed(j)
  BY BusyAt
<1>2. Ended(q) \/ k.op # "list"
  BY <1>1 DEF Moved, CallFields, Placed, Places, Operations
<1>3. \A x \in Chain!Heads : x # j.id \/ m.kind # "gone" => x \in Chain!Heads'
  BY DEF Rewritten, Chain!Heads, Chain!Ids, Chain!Leads
<1> QED
  BY <1>2, <1>3, ListsNothing DEF Unmarked

LEMMA EditsListings ==
  ASSUME ChainTypes, Listings, NEW q \in Requests, Chain!WriteEdit(q)
  PROVE  Listings'
<1> DEFINE j == job[q]  k == job'[q]
           first == Chain!Start(j.text, chains + 1)  whole == Chain!Whole(j.text)
<1>1. /\ Chain!Busy(q) /\ j.at = "write" /\ Unmarked /\ Aside(q)
      /\ \/ Still /\ Ended(q)
         \/ Rewritten(j.id, first) /\ Moved(q, {"at", "index", "chain"}) /\ k.at = "parts"
         \/ Rewritten(j.id, whole) /\ Ended(q)
  BY EditsIt
<1>2. first.kind = "start" /\ whole.kind = "whole"
  BY DEF Chain!Start, Chain!Whole, Chain!Gone
<1> HIDE DEF first, whole
<1>3. CASE Still /\ Ended(q)
  BY <1>1, <1>3, StillHeads, ListsNothing DEF Unmarked
<1>4. CASE Rewritten(j.id, first) /\ Moved(q, {"at", "index", "chain"}) /\ k.at = "parts"
  BY <1>1, <1>2, <1>4, RewritesListings
<1>5. CASE Rewritten(j.id, whole) /\ Ended(q)
  BY <1>1, <1>2, <1>5, RewritesListings
<1> QED
  BY <1>1, <1>3, <1>4, <1>5

\* What a page has not is older than all of it, unless the page is the last.
LEMMA ListsPageListings ==
  ASSUME ChainTypes, Listings, NEW q \in Requests, Chain!ListPage(q)
  PROVE  Listings'
<1> DEFINE j == job[q]  k == job'[q]
           page == Chain!PageOf(0, j.offset)
           found == {id \in page : Chain!Leads(id)}
           whole == {id \in found : messages[id].kind = "whole"}
<1>1. /\ Chain!Busy(q) /\ j.at = "page" /\ Still /\ Aside(q) /\ incidents \subseteq incidents' /\ Placed(j)
      /\ Moved(q, {"at", "page", "heads"}) /\ k.at = "texts"
      /\ DOMAIN k.page = whole /\ DOMAIN k.heads = found \ whole
      /\ "dropped" \notin incidents' => Chain!Ends(page) \/ found = page
  BY ListsPage, BusyAt
<1>2. j.op = "list" /\ j.offset \in Nat
  BY <1>1 DEF Placed, Places, Operations
<1>3. /\ k.op = "list" /\ k.offset = j.offset /\ k.rows = j.rows /\ k.there = j.there
  BY <1>1, <1>2 DEF Moved, CallFields
<1>4. OnPage(k) = found
  BY <1>1 DEF OnPage
<1>5. /\ page \subseteq Chain!Ids
      /\ \A x \in page : \A y : Within(y, 0, j.offset) /\ y > x => y \in page
      /\ Chain!Ends(page) => \A y : Within(y, 0, j.offset) => y \in page
      /\ ~Chain!Ends(page) => ~(Cardinality(page) < Page)
  BY <1>2, PageHas, SameCount DEF ChainTypes, Chain!Ends
<1> HIDE DEF page
<1>6. j.there \subseteq Chain!Heads /\ (Undropped' => Paged(j))
  BY <1>1, <1>2, UndroppedBefore DEF Listings
<1>7. ASSUME Undropped', NEW x \in j.there
      PROVE  \/ x \in DOMAIN k.rows \cup found
             \/ ~(Cardinality(found) < Page) /\ \A y \in found : x < y
  <2>1. x \in Chain!Heads /\ x \in Nat /\ x > 0 /\ messages[x].kind # "gone" /\ Chain!Leads(x) /\ x \in Chain!Ids
    BY <1>6, ChannelHas DEF ChainTypes, Chain!Heads, Chain!Leads
  <2>2. x \in DOMAIN k.rows \/ Within(x, 0, j.offset)
    BY <1>1, <1>3, <1>6, <1>7, <2>1 DEF Paged, Within
  <2>3. x \in page => x \in found
    BY <2>1
  <2>4. CASE Chain!Ends(page)
    BY <1>5, <2>2, <2>3, <2>4
  <2>5. CASE ~Chain!Ends(page)
    <3>1. found = page /\ ~(Cardinality(found) < Page)
      BY <1>1, <1>5, <1>7, <2>5 DEF Undropped, Chain!Clean
    <3>2. ASSUME x \notin page, Within(x, 0, j.offset), NEW y \in page PROVE x < y
      BY <1>5, <3>2, ChannelHas, <2>1 DEF ChainTypes
    <3> QED
      BY <2>2, <2>3, <3>1, <3>2
  <2> QED
    BY <2>4, <2>5
<1> HIDE DEF found
<1>8. Undropped' => Paged(k)
  BY <1>1, <1>3, <1>4, <1>6, <1>7 DEF Paged
<1> QED
  BY <1>1, <1>3, <1>6, <1>8, StillHeads, ListingsBy

LEMMA NextsTextListings ==
  ASSUME ChainTypes, Listings, NEW q \in Requests, Chain!NextText(q)
  PROVE  Listings'
<1> DEFINE j == job[q]  k == job'[q]
<1>1. /\ Chain!Busy(q) /\ j.at = "texts" /\ Still /\ Unmarked /\ Aside(q) /\ Placed(j)
      /\ Moved(q, {"at", "from", "got"}) /\ k.at = "collect"
  BY NextsText, BusyAt
<1>2. /\ k.op = j.op /\ k.offset = j.offset /\ k.rows = j.rows /\ k.there = j.there /\ OnPage(k) = OnPage(j)
  BY <1>1 DEF Moved, CallFields, OnPage
<1>3. k.op = "list" => j.there \subseteq Chain!Heads /\ (Undropped' => Paged(j))
  BY <1>1, <1>2 DEF Listings, Unmarked, Undropped, Chain!Clean
<1>4. k.op = "list" => k.there \subseteq Chain!Heads' /\ (Undropped' => Paged(k))
  BY <1>1, <1>2, <1>3, StillHeads DEF Paged
<1> QED
  BY <1>1, <1>4, StillHeads, ListingsBy DEF Unmarked

LEMMA CollectsListings ==
  ASSUME ChainTypes, Listings, NEW q \in Requests, Chain!Collect(q)
  PROVE  Listings'
<1> DEFINE j == job[q]  k == job'[q]
<1>1. /\ Chain!Busy(q) /\ j.at = "collect" /\ Still /\ Unmarked /\ Aside(q) /\ Placed(j)
      /\ \/ /\ Moved(q, {"at", "below", "from", "got", "heads", "page"}) /\ k.at = "texts"
            /\ k.heads = Chain!Restrict(j.heads, DOMAIN j.heads \ {j.from})
            /\ \E got : k.page = Chain!Both(Chain!One(j.from, got), j.page)
         \/ Moved(q, {"got", "below"})
  BY CollectsIt, BusyAt
<1>2. /\ k.op = j.op /\ k.offset = j.offset /\ k.rows = j.rows /\ k.there = j.there
      /\ k.at \in {"texts", "collect"}
  BY <1>1 DEF Moved, CallFields
<1>3. OnPage(k) = OnPage(j)
  BY <1>1 DEF Placed, Chain!Restrict, Chain!Both, Chain!One, OnPage, Moved, CallFields
<1>4. k.op = "list" => j.there \subseteq Chain!Heads /\ (Undropped' => Paged(j))
  BY <1>1, <1>2 DEF Listings, Unmarked, Undropped, Chain!Clean
<1>5. k.op = "list" => k.there \subseteq Chain!Heads' /\ (Undropped' => Paged(k))
  BY <1>1, <1>2, <1>3, <1>4, StillHeads DEF Paged
<1> QED
  BY <1>1, <1>5, StillHeads, ListingsBy DEF Unmarked

\* A page as long as can be has more before it, and the next begins at its last.
LEMMA PagesDoneListings ==
  ASSUME ChainTypes, Listings, NEW q \in Requests, Chain!PageDone(q)
  PROVE  Listings'
<1> DEFINE j == job[q]  k == job'[q]
<1>1. /\ Chain!Busy(q) /\ j.at = "texts" /\ Still /\ Unmarked /\ Aside(q) /\ Placed(j)
      /\ DOMAIN j.heads = {} /\ Moved(q, {"rows", "page", "at", "offset"})
      /\ k.rows = Chain!Both(j.rows, j.page)
      /\ \/ /\ j.op = "get" \/ Chain!Cardinality(DOMAIN j.page) < Page
            /\ k.at = "done" /\ k.offset = 0
         \/ /\ j.op # "get" /\ ~(Chain!Cardinality(DOMAIN j.page) < Page)
            /\ k.at = "page" /\ k.offset = Chain!Min(DOMAIN j.page)
  BY PagesDone, BusyAt
<1>2. k.op = j.op /\ k.there = j.there
  BY <1>1 DEF Moved, CallFields
<1>3. DOMAIN k.rows = DOMAIN j.rows \cup DOMAIN j.page /\ OnPage(j) = DOMAIN j.page
  BY <1>1 DEF Chain!Both, OnPage
<1>4. k.op = "list" => j.there \subseteq Chain!Heads /\ (Undropped' => Paged(j))
  BY <1>1, <1>2 DEF Listings, Unmarked, Undropped, Chain!Clean
<1>5. ASSUME k.op = "list", Undropped' PROVE Paged(k)
  <2>1. \A x \in k.there : \/ x \in DOMAIN k.rows
                           \/ ~(Cardinality(DOMAIN j.page) < Page) /\ \A y \in DOMAIN j.page : x < y
    BY <1>1, <1>2, <1>3, <1>4, <1>5 DEF Paged
  <2>2. CASE Chain!Cardinality(DOMAIN j.page) < Page /\ k.at = "done"
    BY <2>2, SameCount, <2>1 DEF Paged
  <2>3. CASE /\ ~(Chain!Cardinality(DOMAIN j.page) < Page)
             /\ k.at = "page" /\ k.offset = Chain!Min(DOMAIN j.page)
    BY <2>3, SameCount, FS_EmptySet, StorageAssumption, <1>1, LeastThere, <2>1 DEF Placed,
       Chain!Min, Paged
  <2> QED
    BY <1>1, <1>2, <1>5, <2>2, <2>3
<1>6. k.op = "list" => k.there \subseteq Chain!Heads'
  BY <1>1, <1>2, <1>4, StillHeads
<1> QED
  BY <1>1, <1>5, <1>6, StillHeads, ListingsBy DEF Unmarked

LEMMA OpensListings ==
  ASSUME ChainTypes, Listings, NEW q \in Requests, NEW op, NEW id, NEW text, Opens(q, op, id, text)
  PROVE  Listings'
<1> DEFINE k == job'[q]
<1>1. Unbegun(k, op, id, text) /\ Still /\ Aside(q) /\ incidents \subseteq incidents'
  BY OpensAfresh DEF Opens
<1>2. Chain!Heads' = Chain!Heads
  BY <1>1, StillHeads
<1>3. ASSUME k.op = "list" PROVE k.there \subseteq Chain!Heads /\ Paged(k)
  BY <1>1, <1>3 DEF Unbegun, Chain!First, Paged
<1> QED
  BY <1>1, <1>2, <1>3, ListingsBy

LEMMA FloodsListings ==
  ASSUME ChainTypes, Listings, NEW q \in Requests, Chain!FloodWait(q)
  PROVE  Listings'
<1> DEFINE j == job[q]  k == job'[q]
<1>1. /\ Chain!Busy(q) /\ j.at # "done" /\ Still /\ Aside(q) /\ incidents \subseteq incidents'
      /\ k.op = j.op /\ k.at = Chain!First(j.op)
      /\ k.offset = j.offset /\ k.rows = j.rows /\ k.there = j.there
  BY FloodsIt
<1>2. Chain!Heads' = Chain!Heads
  BY <1>1, StillHeads
<1>3. ASSUME k.op = "list" PROVE k.there \subseteq Chain!Heads /\ (Undropped' => Paged(k))
  BY <1>1, <1>3, UndroppedBefore DEF Listings, Chain!First, Paged
<1> QED
  BY <1>1, <1>2, <1>3, ListingsBy

LEMMA FetchesListings ==
  ASSUME ChainTypes, Listings, NEW q \in Requests, Chain!Fetch(q)
  PROVE  Listings'
<1> DEFINE j == job[q]  k == job'[q]
<1>1. /\ Chain!Busy(q) /\ j.at = "fetch" /\ Still /\ Unmarked /\ Aside(q) /\ Placed(j)
      /\ Moved(q, {"at", "head"}) \/ Moved(q, {"at", "heads"}) \/ Moved(q, {"at", "rows"}) \/ Ended(q)
  BY Fetches, BusyAt
<1>2. j.op # "list"
  BY <1>1 DEF Placed, Places, Operations
<1>3. Ended(q) \/ k.op # "list"
  BY <1>1, <1>2 DEF Moved, CallFields
<1>4. Chain!Heads' = Chain!Heads
  BY <1>1, StillHeads
<1> QED
  BY <1>1, <1>3, <1>4, ListsNothing DEF Unmarked

LEMMA SendsListings ==
  ASSUME ChainTypes, Listings, NEW q \in Requests, Chain!SendFirst(q) \/ Chain!SendPart(q)
  PROVE  Listings'
<1> DEFINE j == job[q]  k == job'[q]
<1>1. /\ Chain!Busy(q) /\ j.at \in {"first", "parts"} /\ Unmarked /\ Aside(q) /\ Placed(j)
      /\ \E m : Grown(m)
      /\ Ended(q) \/ Moved(q, {"at", "id", "chain", "index"}) \/ Moved(q, {"index"})
  BY SendsFirst, BusyAt, SendsPart
<1>2. j.op # "list"
  BY <1>1 DEF Placed, Places, Operations
<1>3. Ended(q) \/ k.op # "list"
  BY <1>1, <1>2 DEF Moved, CallFields
<1> QED
  BY <1>1, <1>3, GrownListings

LEMMA ListingsStep ==
  ASSUME ChainTypes, Listings, Chain!Next
  PROVE  Listings'
<1>1. PICK q \in Requests : Chain!Step(q)
  BY DEF Chain!Next
<1> DEFINE j == job[q]  k == job'[q]
<1>2. CASE Chain!Send(q) \/ Chain!Edit(q) \/ Chain!Delete(q) \/ Chain!Get(q) \/ Chain!List(q)
  <2>1. PICK op, id, text : Opens(q, op, id, text)
    BY <1>2, OpensOne
  <2> QED
    BY <2>1, OpensListings
<1>3. CASE Chain!Answer(q) \/ Chain!Fail(q)
  BY <1>3, AnswersIt, FailsIt, StillHeads, ListsNothing DEF Unmarked
<1>4. CASE Chain!Scan(q)
  BY <1>4, ScansIt, BusyAt, StillHeads, ListsNothing DEF Moved, CallFields, Placed, Places,
     Operations, Unmarked
<1>5. CASE Chain!WriteDelete(q)
  <2> DEFINE m == Chain!Gone
  <2>1. m.kind = "gone"
    BY DEF Chain!Gone
  <2>2. /\ Chain!Busy(q) /\ Aside(q) /\ Unmarked /\ j.at = "write" /\ Rewritten(j.id, m) /\ Ended(q)
        /\ \A r \in Requests : r # q /\ Chain!Busy(r) => j.id \notin job'[r].there
    BY <1>5, DeletesIt
  <2> HIDE DEF m
  <2> QED
    BY <2>1, <2>2, RewritesListings
<1> QED
  BY <1>1, <1>2, <1>3, <1>4, <1>5, FloodsListings, SendsListings, FetchesListings, ClearsListings,
     EditsListings, ListsPageListings, NextsTextListings, CollectsListings, PagesDoneListings, Zenon
  DEF Chain!Step

LEMMA ListingsCompleteThen ==
  ASSUME Listings
  PROVE  Chain!ListingsComplete
  BY DEF Listings, Paged, Undropped, Chain!ListingsComplete, Chain!At

-----------------------------------------------------------------------------
(* Chains: the invariant.                                                   *)

ChainInv == /\ ChainTypes /\ ChainsNamed /\ Aimed
            /\ Texted /\ OneWriter /\ Held
            /\ ReadApart /\ ReadersGiven /\ Listings

\* The channel is empty, or has one text; nobody does anything.
LEMMA ChannelAtFirst ==
  ASSUME Chain!Init
  PROVE  /\ DOMAIN job = Requests /\ \A q \in Requests : ~Chain!Busy(q)
         /\ messages \in Seq(Telegram) /\ Chain!Ids = 1..Len(messages)
         /\ \/ Chain!Ids = {} /\ chains = 0
            \/ \E text \in Chain!Texts \ Long :
                 /\ Chain!Ids = {1} /\ messages[1] = Chain!Whole(text) /\ chains = 0
            \/ \E text \in Long :
                 /\ Chain!Ids = 1..LongParts /\ messages[1] = Chain!Start(text, 1) /\ chains = 1
                 /\ \A i \in 2..LongParts : messages[i] = Chain!Part(text, i - 1, 1, 1)
<1>1. DOMAIN job = Requests /\ \A q \in Requests : ~Chain!Busy(q)
  BY DEF Chain!Init, Chain!Busy
<1>2. CASE messages = <<>>
  BY <1>2, <1>1 DEF Chain!Ids, Chain!Init
<1>3. ASSUME NEW text \in Chain!Texts, text \notin Long, messages = Chain!After(text)
      PROVE  /\ messages \in Seq(Telegram) /\ Chain!Ids = {1}
             /\ messages[1] = Chain!Whole(text) /\ chains = 0
  <2> DEFINE m == Chain!Whole(text)
  <2>1. m \in Telegram /\ m.kind = "whole"
    BY <1>3, Sending DEF Sendable, Chain!Whole, Chain!Gone
  <2>2. messages = <<m>>
    BY <1>3, Sizes DEF Chain!After
  <2> HIDE DEF m
  <2>3. messages \in Seq(Telegram) /\ Len(messages) = 1 /\ messages[1] = m
    BY <2>1, <2>2
  <2>4. Chain!Ids = {1}
    BY <2>3 DEF Chain!Ids
  <2>5. chains = 0
    BY <2>1, <2>3, <2>4 DEF Chain!Init
  <2> QED
    BY <2>3, <2>4, <2>5 DEF m
<1>4. ASSUME NEW text \in Long, messages = Chain!After(text)
      PROVE  /\ messages \in Seq(Telegram) /\ Chain!Ids = 1..LongParts
             /\ messages[1] = Chain!Start(text, 1) /\ chains = 1
             /\ \A i \in 2..LongParts : messages[i] = Chain!Part(text, i - 1, 1, 1)
  <2> DEFINE m(i) == IF i = 1 THEN Chain!Start(text, 1) ELSE Chain!Part(text, i - 1, 1, 1)
  <2>1. \A i \in 1..LongParts : m(i) \in Telegram
    BY Sending, Sizes DEF Sendable
  <2>2. m(1).kind = "start" /\ m(1) = Chain!Start(text, 1)
    BY DEF Chain!Start, Chain!Gone
  <2>3. \A i \in 2..LongParts : m(i) = Chain!Part(text, i - 1, 1, 1)
    BY Sizes
  <2>4. messages = [i \in 1..LongParts |-> m(i)]
    BY Sizes, <1>4 DEF Chain!After
  <2> HIDE DEF m
  <2>5. messages \in Seq(Telegram) /\ Len(messages) = LongParts
    BY <2>1, <2>4, Sizes
  <2>6. Chain!Ids = 1..LongParts /\ messages[1] = m(1)
    BY <2>4, <2>5, Sizes DEF Chain!Ids
  <2>7. chains = 1
    BY <2>2, <2>6, Sizes DEF Chain!Init
  <2> QED
    BY <2>2, <2>3, <2>4, <2>5, <2>6, <2>7, Sizes
<1>5. messages = <<>> \/ \E text \in Chain!Texts : messages = Chain!After(text)
  BY DEF Chain!Init
<1>6. Chain!Ids = 1..Len(messages)
  BY DEF Chain!Ids
<1> QED
  BY <1>1, <1>2, <1>3, <1>4, <1>5, <1>6

\* The text is all there: each part is of the one chain and message.
LEMMA ChainAtFirst ==
  ASSUME Chain!Init
  PROVE  /\ DOMAIN job = Requests /\ \A q \in Requests : ~Chain!Busy(q)
         /\ ChannelTypes
         /\ \A p \in Chain!Ids : messages[p].kind = "part" =>
              /\ p > 1 /\ messages[p].parent = 1 /\ messages[p].chain = 1
              /\ messages[p].text = messages[1].text
              /\ 1 \in Chain!Ids /\ messages[1].kind = "start" /\ messages[1].chain = 1 /\ chains = 1
         /\ \A p \in Chain!Ids : messages[p].kind = "start" =>
              /\ p = 1 /\ messages[p].chain = 1 /\ chains = 1
              /\ \A i \in 1..(LongParts - 1) : HasPart(1, 1, i)
<1>1. /\ DOMAIN job = Requests /\ \A q \in Requests : ~Chain!Busy(q)
      /\ messages \in Seq(Telegram) /\ Chain!Ids = 1..Len(messages)
  BY ChannelAtFirst
<1>2. CASE Chain!Ids = {} /\ chains = 0
  BY <1>1, <1>2 DEF ChannelTypes
<1>3. ASSUME NEW text \in Chain!Texts \ Long, Chain!Ids = {1}, messages[1] = Chain!Whole(text), chains = 0
      PROVE  messages[1].kind = "whole" /\ ChannelTypes
  BY <1>3, Sending, <1>1 DEF Sendable, Chain!Whole, Chain!Gone, ChannelTypes
<1>4. ASSUME NEW text \in Long, Chain!Ids = 1..LongParts, messages[1] = Chain!Start(text, 1), chains = 1,
             \A i \in 2..LongParts : messages[i] = Chain!Part(text, i - 1, 1, 1)
      PROVE  /\ ChannelTypes /\ 1 \in Chain!Ids
             /\ messages[1].kind = "start" /\ messages[1].chain = 1 /\ messages[1].text = text
             /\ \A p \in Chain!Ids : p = 1 \/ /\ p > 1 /\ messages[p].kind = "part"
                                              /\ messages[p].parent = 1 /\ messages[p].chain = 1
                                              /\ messages[p].text = text
             /\ \A i \in 1..(LongParts - 1) : HasPart(1, 1, i)
  <2>1. /\ messages[1].kind = "start" /\ messages[1].chain = 1 /\ messages[1].text = text
        /\ Formed(messages[1])
    <3>1. Sendable(Chain!Start(text, 1))
      BY Sending
    <3>2. /\ Chain!Start(text, 1).kind = "start" /\ Chain!Start(text, 1).chain = 1
          /\ Chain!Start(text, 1).text = text
      BY DEF Chain!Start, Chain!Gone
    <3> QED
      BY <1>4, <3>1, <3>2 DEF Sendable
  <2>2. ASSUME NEW p \in 2..LongParts
        PROVE  /\ messages[p].kind = "part" /\ messages[p].parent = 1 /\ messages[p].chain = 1
               /\ messages[p].text = text /\ messages[p].index = p - 1 /\ Formed(messages[p])
    <3> DEFINE m == Chain!Part(text, p - 1, 1, 1)
    <3>1. p - 1 \in 1..(LongParts - 1)
      BY Sizes
    <3>2. Sendable(m)
      BY <3>1, Sending
    <3>3. m.kind = "part" /\ m.parent = 1 /\ m.chain = 1 /\ m.text = text /\ m.index = p - 1
      BY DEF Chain!Part
    <3>4. messages[p] = m
      BY <1>4
    <3> HIDE DEF m
    <3> QED
      BY <3>2, <3>3, <3>4 DEF Sendable
  <2>3. \A p \in Chain!Ids : p = 1 \/ (p \in 2..LongParts /\ p > 1)
    BY <1>4, Sizes
  <2>4. ChannelTypes
    BY <1>1, <1>4, <2>1, <2>2, <2>3 DEF ChannelTypes
  <2>5. ASSUME NEW i \in 1..(LongParts - 1) PROVE HasPart(1, 1, i)
    <3>1. i + 1 \in 2..LongParts /\ i + 1 \in Chain!Ids /\ (i + 1) - 1 = i
      BY <1>4, Sizes
    <3> QED
      BY <2>2, <3>1 DEF HasPart
  <2>6. 1 \in Chain!Ids
    BY <1>4, Sizes
  <2> QED
    BY <2>1, <2>2, <2>3, <2>4, <2>5, <2>6
<1>5. CASE \E text \in Chain!Texts \ Long : Chain!Ids = {1} /\ messages[1] = Chain!Whole(text) /\ chains = 0
  BY <1>1, <1>3, <1>5
<1>6. CASE \E text \in Long : /\ Chain!Ids = 1..LongParts /\ messages[1] = Chain!Start(text, 1) /\ chains = 1
                              /\ \A i \in 2..LongParts : messages[i] = Chain!Part(text, i - 1, 1, 1)
  <2>1. PICK text \in Long : /\ Chain!Ids = 1..LongParts /\ messages[1] = Chain!Start(text, 1) /\ chains = 1
                              /\ \A i \in 2..LongParts : messages[i] = Chain!Part(text, i - 1, 1, 1)
    BY <1>6
  <2>2. /\ ChannelTypes /\ 1 \in Chain!Ids
        /\ messages[1].kind = "start" /\ messages[1].chain = 1 /\ messages[1].text = text
        /\ \A p \in Chain!Ids : p = 1 \/ /\ p > 1 /\ messages[p].kind = "part"
                                         /\ messages[p].parent = 1 /\ messages[p].chain = 1
                                         /\ messages[p].text = text
        /\ \A i \in 1..(LongParts - 1) : HasPart(1, 1, i)
    BY <1>4, <2>1
  <2> QED
    BY <1>1, <2>1, <2>2
<1> QED
  BY <1>2, <1>5, <1>6, ChannelAtFirst

LEMMA ChainInit == Chain!Init => ChainInv
<1> SUFFICES ASSUME Chain!Init PROVE ChainInv
  OBVIOUS
<1>1. /\ DOMAIN job = Requests /\ \A q \in Requests : ~Chain!Busy(q)
      /\ ChannelTypes
  BY ChainAtFirst
<1>2. \A p \in Chain!Ids : messages[p].kind = "part" =>
        /\ p > 1 /\ messages[p].parent = 1 /\ messages[p].chain = 1
        /\ messages[p].text = messages[1].text
        /\ 1 \in Chain!Ids /\ messages[1].kind = "start" /\ messages[1].chain = 1 /\ chains = 1
  BY ChainAtFirst
<1>3. \A p \in Chain!Ids : messages[p].kind = "start" =>
        /\ p = 1 /\ messages[p].chain = 1 /\ chains = 1
        /\ \A i \in 1..(LongParts - 1) : HasPart(1, 1, i)
  BY ChainAtFirst
<1>4. ChainTypes
  BY <1>1, <1>2 DEF ChainTypes, CallTypes, Ordered, Leading
<1>5. ChainsNamed
  BY <1>1, <1>2, <1>3 DEF Named, InChannel, ChainsNamed
<1>6. Aimed /\ OneWriter /\ ReadApart /\ ReadersGiven /\ Listings
  BY <1>1 DEF Aimed, OneWriter, Altering, ReadApart, Chain!Reads, Chain!Writes, ReadersGiven, Listings
<1>7. Texted
  BY <1>3 DEF Texted, Attended
<1>8. Held
  BY <1>1, <1>2 DEF Held, PartsHeld
<1> QED
  BY <1>4, <1>5, <1>6, <1>7, <1>8 DEF ChainInv

LEMMA ChainNext == ChainInv /\ Chain!Next => ChainInv'
<1> SUFFICES ASSUME ChainInv, Chain!Next PROVE ChainInv'
  OBVIOUS
<1>1. ChainTypes' /\ Onward
  BY ChainTypesStep DEF ChainInv
<1>2. ChainsNamed' /\ Texted' /\ OneWriter' /\ Held'
  BY NamedStep, TextedStep, OneWriterStep, HeldStep DEF ChainInv
<1>3. Aimed'
  BY <1>1, AimedStep DEF ChainInv
<1>4. ReadApart' /\ ReadersGiven' /\ Listings'
  BY ReadApartStep, GivenStep, ListingsStep DEF ChainInv
<1> QED
  BY <1>1, <1>2, <1>3, <1>4 DEF ChainInv

LEMMA ChainStays == ChainInv /\ UNCHANGED Chain!vars => ChainInv'
<1> SUFFICES ASSUME ChainInv, UNCHANGED Chain!vars PROVE ChainInv'
  OBVIOUS
<1>1. UNCHANGED messages /\ UNCHANGED job /\ UNCHANGED chains /\ UNCHANGED incidents
  BY DEF Chain!vars
<1>2. ChainTypes'
  BY <1>1 DEF ChainInv, ChainTypes, ChannelTypes, Ordered, Leading, CallTypes, Informed, Chain!Ids, Chain!Busy
<1>3. ChainsNamed'
  BY <1>1 DEF ChainInv, ChainsNamed, Named, NamedBy, InChannel, Chain!Ids, Chain!Busy
<1>4. Aimed'
  BY <1>1 DEF ChainInv, Aimed, Chain!Busy
<1>5. Texted'
  BY <1>1 DEF ChainInv, Texted, Uncut, Chain!Clean, Attended, HasPart, Undoing, Due, Chain!Begun, Chain!Ids,
     Chain!Busy
<1>6. OneWriter'
  BY <1>1 DEF ChainInv, OneWriter, Alone, Chain!Clean, Altering, Chain!Busy
<1>7. Held'
  BY <1>1 DEF ChainInv, Held, PartsHeld, Sighted, Alone, Chain!Clean, Chain!Ids, Chain!Busy
<1>8. ReadApart'
  BY <1>1 DEF ChainInv, ReadApart, Untouched, Chain!Clean, Chain!Reads, Chain!Writes, Chain!Busy
<1>9. ReadersGiven'
  BY <1>1 DEF ChainInv, ReadersGiven, Given, AllGiven, Orderly, Chain!Clean, Chain!Ids, Chain!Busy
<1>10. Listings'
  BY <1>1 DEF ChainInv, Listings, Undropped, Chain!Clean, Chain!Heads, Chain!Leads, Chain!Ids, Chain!Busy
<1> QED
  BY <1>2, <1>3, <1>4, <1>5, <1>6, <1>7, <1>8, <1>9, <1>10 DEF ChainInv

-----------------------------------------------------------------------------
(* The theorems.                                                            *)

StorageInv == /\ part \in {"objects", "chain", "project"}
              /\ part = "objects" => ObjectsInv
              /\ part = "chain" => ChainInv
              /\ part = "project" => ProjectInv

LEMMA StorageStarts == Init => StorageInv
  BY ObjectsInit, ChainInit, ProjectInit DEF Init, StorageInv

LEMMA StorageGoesOn == StorageInv /\ [Next]_vars => StorageInv'
<1> SUFFICES ASSUME StorageInv, [Next]_vars PROVE StorageInv'
  OBVIOUS
<1>1. CASE part = "objects" /\ Store!Next /\ UNCHANGED <<part, chain, project, job>>
  BY <1>1, ObjectsNext DEF StorageInv
<1>2. CASE part = "chain" /\ Chain!Next /\ UNCHANGED <<part, objects, project>>
  BY <1>2, ChainNext DEF StorageInv
<1>3. CASE part = "project" /\ Saved!Next /\ UNCHANGED <<part, objects, chain>>
  BY <1>3, ProjectNext DEF StorageInv
<1>4. CASE UNCHANGED vars
  BY <1>4, ObjectsStay, ChainStays, ProjectStay DEF vars, objects, chain, project, Store!vars,
     Chain!vars, Saved!vars, Saved!store, Saved!files, Saved!ghosts, StorageInv
<1> QED
  BY <1>1, <1>2, <1>3, <1>4 DEF Next

\* What the proof keeps true at every step: a bucket's manifests, parts and requests fit each other,
\* a channel's messages and calls mean the same chains, and a project's record, lists, messages and
\* index fit its backups.
THEOREM StorageInvariant == Spec => []StorageInv
  BY StorageStarts, StorageGoesOn, PTL DEF Spec

\* However uploads, deletions and patches of a path cross, and whichever of their calls fail or
\* lose their answer, what the listing shows can be downloaded, nothing else lies in the channel,
\* the path has one object and a reader finds the last, up to the crossings and failures that are
\* named there (StorageService.uploadStream, storeUpload, findFile, deleteFile).
THEOREM ObjectsKept == Spec => []ObjectsStand
<1>1. StorageInv => ObjectsStand
  BY ObjectsHold DEF StorageInv, ObjectsStand
<1> QED
  BY <1>1, StorageInvariant, PTL

\* A field of an object's metadata changes only by a patch of it, unless two patches were in
\* progress together (StorageService.updateObject).
THEOREM PatchesKeepTheRest == Spec => PatchesAddUp
<1>1. StorageInv /\ [Next]_vars => [part = "objects" => Store!FieldsKept]_vars
  <2> SUFFICES ASSUME StorageInv, Next, part = "objects" PROVE Store!FieldsKept
    OBVIOUS
  <2>1. Store!Next
    BY DEF Next
  <2> QED
    BY <2>1, FieldsStand DEF StorageInv, ObjectsInv
<1> QED
  BY <1>1, StorageInvariant, PTL DEF Spec, PatchesAddUp

\* However requests, backups and restorations of a project cross, and wherever they are cut short, the
\* catalogue lists the backups that are there and no more than are to be retained, members find the
\* project on their lists, and sign-ins their accounts, up to the crossings and gaps that are named
\* there (BackupService.createBackup, pruneRetention, restoreRedisSnapshot, restoreProjectManifests).
THEOREM BackupsKept == Spec => []BackupsStand
<1>1. StorageInv => BackupsStand
  BY CatalogueHolds, MembersHold, AccountsHold DEF StorageInv, BackupsStand
<1> QED
  BY <1>1, StorageInvariant, PTL

\* However sends, edits, deletions and readers of long messages interleave, a first message has all
\* the parts of its chain once nobody is at work, unless a change was cut short or began again after
\* it had sent, and no part is without its message unless two changes of one message overlapped
\* (TelegramStorageProvider.sendMessage, editMessage, deleteMessage, deleteChainParts).
THEOREM ChainsKept == Spec => []ChainsStand
<1>1. StorageInv => ChainsStand
  <2> SUFFICES ASSUME StorageInv, part = "chain" PROVE Chain!TextsStand /\ Chain!NoStrayParts
    BY DEF ChainsStand
  <2> QED
    BY TextsStandThen, NoStrayPartsThen DEF StorageInv, ChainInv
<1> QED
  BY <1>1, StorageInvariant, PTL

\* What a reader is given is of one text, and all of it unless the message was changed meanwhile or a
\* change was cut short; who lists a channel is given every text that stood from its first page to its
\* last, unless parts were dropped from a full page (getMessages, reconstructChainedMessage).
THEOREM ReadersServed == Spec => []ReadersAreServed
<1>1. StorageInv => ReadersAreServed
  <2> SUFFICES ASSUME StorageInv, part = "chain" PROVE Chain!ReadsAreSound /\ Chain!ListingsComplete
    BY DEF ReadersAreServed
  <2> QED
    BY ReadsAreSoundThen, ListingsCompleteThen DEF StorageInv, ChainInv
<1> QED
  BY <1>1, StorageInvariant, PTL
=============================================================================
