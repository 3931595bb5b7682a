------------------------------ MODULE UploadLog ------------------------------
(***************************************************************************)
(* What a resumable upload promises to a client that waits for its answer  *)
(* before it sends again: the server keeps a prefix of the source that     *)
(* only grows, acknowledges no more than it keeps, and stores nothing but  *)
(* what it keeps; it lets go of the prefix only when the upload is over.   *)
(* Uploads implements it.                                                  *)
(***************************************************************************)
EXTENDS Naturals, Sequences

CONSTANT Size  \* bytes of the source

VARIABLES
  phase,         \* of the upload
  announced,     \* the size was announced
  kept,          \* positions of the source's bytes that are on the server
  acknowledged,  \* how many the client has been told of
  objects        \* what has been stored

state == <<phase, announced, kept, acknowledged, objects>>

Prefix(n) == 1..n
NoBytes == {}

Init ==
  /\ phase = "open"
  /\ announced \in BOOLEAN
  /\ kept = NoBytes
  /\ acknowledged = 0
  /\ objects = <<>>

\* The prefix grows; it may after the upload is gone, when that was under way.
Receive ==
  /\ phase # "lapsed"
  /\ \E n \in 0..Size : kept' = Prefix(n)
  /\ kept \subseteq kept'
  /\ UNCHANGED <<phase, announced, acknowledged, objects>>

Acknowledge ==
  /\ phase = "open"
  /\ acknowledged' \in acknowledged..Size
  /\ Prefix(acknowledged') \subseteq kept
  /\ UNCHANGED <<phase, announced, kept, objects>>

\* All that is acknowledged is stored, and all that was announced.
Store ==
  /\ phase # "lapsed"
  /\ Prefix(acknowledged) \subseteq kept
  /\ announced => kept = Prefix(Size)
  /\ objects' = Append(objects, kept)
  /\ UNCHANGED <<phase, announced, kept, acknowledged>>

\* An upload is over as completed only once it has been stored.
Complete ==
  /\ phase = "open"
  /\ objects # <<>>
  /\ phase' = "completed"
  /\ UNCHANGED <<announced, kept, acknowledged, objects>>

Discard ==
  /\ phase # "lapsed"
  /\ phase' = "gone"
  /\ acknowledged' = 0
  /\ UNCHANGED <<announced, kept, objects>>

Release ==
  /\ phase \in {"completed", "gone"}
  /\ kept' = NoBytes
  /\ UNCHANGED <<phase, announced, acknowledged, objects>>

\* The client sent again before its answer, or came back to an upload that was gone.
Lapse ==
  /\ phase' = "lapsed"
  /\ kept' = NoBytes /\ acknowledged' = 0 /\ objects' = <<>>
  /\ UNCHANGED announced

Next ==
  Receive \/ Acknowledge \/ Store \/ Complete \/ Discard \/ Release \/ Lapse

Spec == Init /\ [][Next]_state
=============================================================================
