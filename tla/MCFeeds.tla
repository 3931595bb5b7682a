------------------------------ MODULE MCFeeds ------------------------------
(***************************************************************************)
(* For TLC: the ways data goes out: queries of a table, presence,          *)
(* subscriptions and webhooks.  They share nothing; a behaviour is about   *)
(* one of them, and leaves the others' variables alone.                    *)
(***************************************************************************)
EXTENDS Naturals, FiniteSets, TLC

CONSTANTS
  Clients, Users, MaxConns, MaxOps, MaxFaults,             \* Presence
  Subscribers, Channels, RowFilters, MaxCalls, MaxChanges, MaxTotal, \* Subscriptions
  Hooks, Existing, Changes, Attempts, Cap, MaxEdits, MaxMishaps,  \* Webhooks
  NumRows, Limit, MaxWrites                                \* Queries

VARIABLES
  part,                                                    \* which of the four
  members, recorded, present, messages, room, joined, waiting, view, intended, refs,
                                                           \* Presence
  descriptors, noted, verifying, events, made, stood, heard, repeated,
                                                           \* Subscriptions
  alive, requests, conn, up, buffer, faults,               \* both
  configs, letters, queued, running, handling, trimming, pc, copy, posted, asked, replaying,
  announced, adding, wanted, sent, owed, got, excused, now, mishaps, \* Webhooks
  ops,                                                     \* all three
  type, indexed, rows, filed, query, at, found, seen, writes, \* Queries
  incidents                                                \* all four

presence == <<members, recorded, present, messages, room, joined, waiting, view, intended, refs>>
listening == <<descriptors, noted, verifying, events, made, stood, heard, repeated>>
sockets == <<alive, requests, conn, up, buffer, faults>>
hooks == <<configs, letters, queued, running, handling, trimming, pc, copy, posted, asked, replaying,
           announced, adding, wanted, sent, owed, got, excused, now, mishaps>>
table == <<type, indexed, rows, filed, query, at, found, seen, writes>>
vars == <<part, presence, listening, sockets, hooks, ops, table, incidents>>

Rooms == INSTANCE Presence
Subs  == INSTANCE Subscriptions WITH Clients <- Subscribers, Filters <- RowFilters, MaxOps <- MaxCalls
Sends == INSTANCE Webhooks WITH MaxOps <- MaxEdits
Table == INSTANCE Queries

ASSUME FeedsAssumption ==
  /\ MaxConns \in Nat /\ MaxOps \in Nat /\ MaxFaults \in Nat
  /\ MaxCalls \in Nat /\ MaxChanges \in Nat /\ MaxTotal \in Nat
  /\ Existing \subseteq Hooks /\ Attempts \in Nat \ {0} /\ Cap \in Nat \ {0}
  /\ MaxEdits \in Nat /\ MaxMishaps \in Nat
  /\ NumRows \in Nat /\ Limit \in Nat \ {0} /\ MaxWrites \in Nat

Unused == 0
NoPresence  == /\ members = Unused /\ recorded = Unused /\ present = Unused
               /\ messages = Unused /\ room = Unused /\ joined = Unused
               /\ waiting = Unused /\ view = Unused /\ intended = Unused /\ refs = Unused
NoListening == /\ descriptors = Unused /\ noted = Unused /\ verifying = Unused
               /\ events = Unused /\ made = Unused
               /\ stood = Unused /\ heard = Unused /\ repeated = Unused
NoSockets   == /\ alive = Unused /\ requests = Unused /\ conn = Unused
               /\ up = Unused /\ buffer = Unused /\ faults = Unused
NoHooks     == /\ configs = Unused /\ letters = Unused /\ queued = Unused
               /\ running = Unused /\ handling = Unused /\ trimming = Unused /\ pc = Unused
               /\ copy = Unused /\ posted = Unused /\ asked = Unused
               /\ replaying = Unused /\ announced = Unused /\ adding = Unused
               /\ wanted = Unused /\ sent = Unused /\ owed = Unused /\ got = Unused
               /\ excused = Unused /\ now = Unused /\ mishaps = Unused
NoTable     == /\ type = Unused /\ indexed = Unused /\ rows = Unused /\ filed = Unused
               /\ query = Unused /\ at = Unused /\ found = Unused /\ seen = Unused
               /\ writes = Unused
NoFeed      == NoPresence /\ NoListening /\ NoSockets /\ NoHooks /\ ops = Unused

Init ==
  \/ part = "presence" /\ Rooms!Init /\ NoListening /\ NoHooks /\ NoTable
  \/ part = "subscriptions" /\ Subs!Init /\ NoPresence /\ NoHooks /\ NoTable
  \/ part = "webhooks" /\ Sends!Init /\ NoPresence /\ NoListening /\ NoSockets /\ NoTable
  \/ part = "table" /\ Table!Init /\ NoFeed

Next ==
  \/ /\ part = "presence" /\ Rooms!Next
     /\ UNCHANGED <<part, listening, hooks, table>>
  \/ /\ part = "subscriptions" /\ Subs!Next
     /\ UNCHANGED <<part, presence, hooks, table>>
  \/ /\ part = "webhooks" /\ Sends!Next
     /\ UNCHANGED <<part, presence, listening, sockets, table>>
  \/ /\ part = "table" /\ Table!Next
     /\ UNCHANGED <<part, presence, listening, sockets, hooks, ops>>

Spec == Init /\ [][Next]_vars

Interchangeable == Permutations(Channels) \cup Permutations(Clients)

-----------------------------------------------------------------------------
(* Properties.                                                              *)

\* Those who are present in a room are those who track and stand (RealtimeService.trackPresence,
\* disconnect), up to the verifications that come late or out of order.
PresenceTrue == part = "presence" => Rooms!NoGhosts /\ Rooms!PresentAsTracked

\* What a subscriber sees of a room, from a snapshot and the diffs since, is what the server has
\* (presence_state, presence_diff and RealtimeClient's room.state).
ViewsConverge == part = "presence" => Rooms!ViewsConverge

\* What the server has noted for a socket is what its client's callbacks are for
\* (RealtimeService.storeSubscription, RealtimeClient.subscribeToTable).
SubscriptionsStand == part = "subscriptions" => Subs!SubscriptionsStand

\* A callback hears the changes that concern it, each once (RealtimeService.emitTableEvent).
EachChangeOnce == part = "subscriptions" => Subs!EachChangeOnce

\* A receiver is given a change twice only where an answer was lost (WebhookService.deliver).
OnceUnlessLost == part = "webhooks" => Sends!OnceUnlessLost

\* A webhook's totals and settings are what was sent and set (WebhookService.saveWebhooks), as
\* long as nobody saves the list over a change made since it was read.
HooksTruthful == part = "webhooks" => Sends!CountsTruthful /\ Sends!EditsStand

\* The dead letters are the newest, newest first, and no more than are kept and about to be
\* trimmed (WebhookService.recordDeadLetter), until a replay rewrites the list.
LettersInOrder == part = "webhooks" => Sends!LettersInOrder

\* A query's answer is what the caller's filter and the policy say, with an index or without
\* (QueryBuilder, parseScalarValue, QueryEngine.select, applyRLS).
AsWritten == part = "table" => Table!AsWritten

\* Pages one after another are the whole answer (the offset of GET /database/:table).
PagesAddUp == part = "table" => Table!PagesAddUp
=============================================================================
