---------------------------- MODULE Subscriptions ----------------------------
(***************************************************************************)
(* Subscriptions to the changes of one table and to broadcasts: what the   *)
(* SDK's realtime clients listen for, what the server has noted for their  *)
(* sockets, and the events between them.  The server keeps one note of a   *)
(* socket and a room, and carries out a subscription when the token has    *)
(* been verified; an unsubscription is carried out at once.                *)
(***************************************************************************)
EXTENDS Naturals, FiniteSets, Sequences, SequencesExt, FiniteSetsExt

CONSTANTS
  Clients,     \* RealtimeClients
  Channels,    \* names of the SDK's channels
  Filters,     \* filters of rows, or conditions of the table's policy; {} may be none
  MaxConns,    \* bound: connections of a client
  MaxOps,      \* bound: calls of the SDK
  MaxChanges,  \* bound: changes and broadcasts
  MaxFaults,   \* bound: lost connections and denials
  MaxTotal     \* bound: all of these together

Sockets == Clients \X (1..MaxConns)
Wanted == [channel : Channels, event : {"INSERT", "*"}, filter : SUBSET Filters]
            \cup [channel : Channels, event : {"broadcast"}, filter : {{}}]

\* getTableRoom, or the room of a broadcast channel: what is noted there and what is sent to it.
Room(w) == IF w.event = "broadcast" THEN <<w.event, w.channel>> ELSE <<w.event>>

VARIABLES
  \* RealtimeClient
  conn, up,     \* the number of the client's connection, and whether it stands
  descriptors,  \* and broadcastHandlers: the callbacks, <<id, what it is for>>
  buffer,       \* what socket.io keeps until it is connected
  \* RealtimeService
  alive,        \* the sockets that are connected
  noted,        \* subscriptions and the adapter's rooms: what each socket listens for
  requests,     \* of each socket, on their way, oldest first
  verifying,    \* of each socket, those that wait for verification
  events,       \* to each socket, on their way
  \* TelegramRealtimeBridge
  \* The rest is not in the code.
  made,         \* the changes and broadcasts
  stood,        \* <<client, id, change>>: the callbacks that stood when it was made
  heard,        \* <<client, id, change, whether from the bridge>>
  repeated,     \* those heard again
  ops, faults,
  incidents

sdk == <<conn, up, descriptors, buffer>>
server == <<alive, noted, requests, verifying>>
ghosts == <<made, stood, heard, repeated>>
vars == <<sdk, server, events, ghosts, ops, faults, incidents>>

Incidents == {
  "overwritten",  \* a client had two callbacks for a room, of another channel or filter
  "doubled",      \* it had one for all events and one for an event, on one channel
  "crossed",      \* an unsubscription overtook a subscription to the room
  "late",         \* a subscription was noted for a socket that had gone
  "denied"}       \* a token was not accepted

Change == [event : {"INSERT"}, passes : SUBSET Filters]
            \cup [event : {"broadcast"}, passes : {{}}, channel : Channels]

TypeOK ==
  /\ conn \in [Clients -> 0..MaxConns] /\ up \in [Clients -> BOOLEAN]
  /\ descriptors \in [Clients -> SUBSET ((1..MaxOps) \X Wanted)]
  /\ alive \subseteq Sockets
  /\ noted \in [Sockets -> SUBSET Wanted]
  /\ \A s \in Sockets : \A v, w \in noted[s] : Room(v) = Room(w) => v = w
  /\ made \in Seq(Change) /\ Len(made) <= MaxChanges
  /\ ops \in 0..MaxOps /\ faults \in 0..MaxFaults
  /\ incidents \subseteq Incidents

Init ==
  /\ conn = [c \in Clients |-> 0] /\ up = [c \in Clients |-> FALSE]
  /\ descriptors = [c \in Clients |-> {}] /\ buffer = [c \in Clients |-> <<>>]
  /\ alive = {} /\ noted = [s \in Sockets |-> {}]
  /\ requests = [s \in Sockets |-> <<>>] /\ verifying = [s \in Sockets |-> <<>>]
  /\ events = [s \in Sockets |-> <<>>]
  /\ made = <<>> /\ stood = {} /\ heard = {} /\ repeated = {}
  /\ ops = 0 /\ faults = 0
  /\ incidents = {}

When(condition, kind) == IF condition THEN {kind} ELSE {}
Mark(kinds) == incidents' = incidents \cup kinds
Socket(c) == <<c, conn[c]>>
Stands(s) == up[s[1]] /\ conn[s[1]] = s[2]
Wants(c) == {d[2] : d \in descriptors[c]}
Left == ops + Len(made) + faults < MaxTotal
Fault == Left /\ faults < MaxFaults /\ faults' = faults + 1
Call == Left /\ ops < MaxOps /\ ops' = ops + 1

Enter(w) == [kind |-> "subscribe", wanted |-> w]
Leave(w) == [kind |-> "unsubscribe", wanted |-> w]

-----------------------------------------------------------------------------
(* The SDK's calls.                                                         *)

\* hasMatchingDescriptor; who listens to broadcasts asks to join each time.
IsNew(c, w) == w \notin Wants(c) \/ w.event = "broadcast"

Send(c, request) == requests' = [requests EXCEPT ![Socket(c)] = Append(@, request)]

Conflicts(v, w) == v # w /\ Room(v) = Room(w)
Doubles(v, w) == v.channel = w.channel /\ {v.event, w.event} = {"*", "INSERT"}

\* subscribeToTable, subscribeToBroadcast
Subscribe(c, w) ==
  /\ Call
  /\ descriptors' = [descriptors EXCEPT ![c] = @ \cup {<<ops', w>>}]
  /\ IF up[c] /\ IsNew(c, w) THEN Send(c, Enter(w)) ELSE UNCHANGED requests
  /\ Mark(When(\E v \in Wants(c) : Conflicts(v, w), "overwritten")
     \cup When(\E v \in Wants(c) : Doubles(v, w), "doubled"))
  /\ UNCHANGED <<conn, up, buffer, alive, noted, verifying, events, ghosts, faults>>

\* Mutant of IsLast: the room is left with every callback.
LeavesAlways(c, d) == d[2].event # "broadcast"

\* The room is left with the last callback for the very same; no one leaves a broadcast.
IsLast(c, d) ==
  /\ d[2].event # "broadcast"
  /\ \A e \in descriptors[c] : e[2] = d[2] => e = d

\* unsubscribe; socket.io keeps what is sent until there is a connection.
Unsubscribe(c, d) ==
  /\ Call
  /\ d \in descriptors[c]
  /\ descriptors' = [descriptors EXCEPT ![c] = @ \ {d}]
  /\ stood' = {x \in stood : ~(x[1] = c /\ x[2] = d[1])}
  /\ IF ~IsLast(c, d) THEN UNCHANGED <<requests, buffer>>
     ELSE IF up[c] THEN Send(c, Leave(d[2])) /\ UNCHANGED buffer
     ELSE buffer' = [buffer EXCEPT ![c] = Append(@, Leave(d[2]))] /\ UNCHANGED requests
  /\ UNCHANGED <<conn, up, alive, noted, verifying, events, made, heard, repeated,
                 faults, incidents>>

\* These are what is wanted, once each and the first callback first; broadcasts come last.
InOrder(c, wants) ==
  LET first(w) == Min({d[1] : d \in {x \in descriptors[c] : x[2] = w}})
      before(v, w) == IF (v.event = "broadcast") = (w.event = "broadcast")
                      THEN first(v) < first(w) ELSE w.event = "broadcast"
  IN /\ Range(wants) = Wants(c)
     /\ \A i, j \in DOMAIN wants : i < j => before(wants[i], wants[j])

\* A connection comes up: the buffer is sent, then one request for each that is wanted.
Connect(c) ==
  LET s == <<c, conn[c] + 1>>
  IN /\ ~up[c] /\ conn[c] < MaxConns
     /\ conn[c] > 0 \/ descriptors[c] # {} \/ buffer[c] # <<>>
     /\ conn' = [conn EXCEPT ![c] = @ + 1] /\ up' = [up EXCEPT ![c] = TRUE]
     /\ alive' = alive \cup {s}
     /\ \E wants \in BoundedSeq(Wants(c), MaxOps) :
          /\ InOrder(c, wants)
          /\ requests' = [requests EXCEPT ![s] = buffer[c] \o [i \in DOMAIN wants |-> Enter(wants[i])]]
     /\ buffer' = [buffer EXCEPT ![c] = <<>>]
     /\ UNCHANGED <<descriptors, noted, verifying, events, ghosts, ops, faults, incidents>>

-----------------------------------------------------------------------------
(* The server.                                                              *)

\* A request comes in.  A subscription waits for its token and the schema.
Take(s) ==
  LET r == Head(requests[s])
      others == {v \in noted[s] : Room(v) # Room(r.wanted)}
      waiting == {i \in DOMAIN verifying[s] : Room(verifying[s][i]) = Room(r.wanted)}
  IN /\ requests[s] # <<>>
     /\ requests' = [requests EXCEPT ![s] = Tail(@)]
     /\ IF r.kind = "subscribe"
        THEN /\ verifying' = [verifying EXCEPT ![s] = Append(@, r.wanted)]
             /\ UNCHANGED <<noted, incidents>>
        ELSE /\ noted' = [noted EXCEPT ![s] = others]
             /\ Mark(When(waiting # {}, "crossed"))
             /\ UNCHANGED verifying
     /\ UNCHANGED <<sdk, alive, events, ghosts, ops, faults>>

\* storeSubscription: a room has one note, the last.
Note(s, i) ==
  LET w == verifying[s][i]
  IN /\ verifying' = [verifying EXCEPT ![s] = RemoveAt(@, i)]
     /\ noted' = [noted EXCEPT ![s] = {v \in @ : Room(v) # Room(w)} \cup {w}]
     /\ Mark(When(s \notin alive, "late"))
     /\ UNCHANGED <<sdk, alive, requests, events, ghosts, ops, faults>>

\* The token is not accepted, or has no access: an error event no one listens to.
Deny(s, i) ==
  /\ Fault
  /\ verifying' = [verifying EXCEPT ![s] = RemoveAt(@, i)]
  /\ Mark({"denied"})
  /\ UNCHANGED <<sdk, alive, noted, requests, events, ghosts, ops>>

\* canReceiveRowEvent: a row of the change passes the policy and the filters.
CanReceive(w, change) == w.filter \subseteq change.passes

\* What a socket is sent of a change through a room: an event, named as the note of it there.
SentTo(s, room, n, change, echo) ==
  LET in == {w \in noted[s] : Room(w) = room /\ CanReceive(w, change)}
      w == CHOOSE v \in in : TRUE
  IN IF in = {} THEN <<>>
     ELSE <<[event |-> w.event, channel |-> w.channel, no |-> n, echo |-> echo]>>

\* And altogether: through the room of the event, then through that of all.
Sent(s, n, change, echo) ==
  IF s \notin alive THEN <<>>
  ELSE IF change.event = "broadcast" THEN SentTo(s, <<"broadcast", change.channel>>, n, change, echo)
  ELSE SentTo(s, <<change.event>>, n, change, echo) \o SentTo(s, <<"*">>, n, change, echo)

Emit(n, change, echo) ==
  events' = [s \in Sockets |-> IF Stands(s) THEN events[s] \o Sent(s, n, change, echo)
                               ELSE events[s]]

\* The client does not wait for the server.
Settled(c) == up[c] /\ requests[Socket(c)] = <<>> /\ verifying[Socket(c)] = <<>>
Concerns(w, change) ==
  /\ CanReceive(w, change)
  /\ IF change.event = "broadcast" THEN w.event = "broadcast" /\ w.channel = change.channel
     ELSE w.event # "broadcast"

\* broadcastChange of a row the API has written, or a broadcast of another socket.
Make(change) ==
  /\ Left /\ Len(made) < MaxChanges
  /\ made' = Append(made, change)
  /\ Emit(Len(made'), change, FALSE)
  /\ stood' = stood \cup UNION {{<<c, d[1], Len(made')>> : d \in descriptors[c]} :
                                c \in {x \in Clients : Settled(x)}}
  /\ UNCHANGED <<sdk, server, heard, repeated, ops, faults, incidents>>

\* Telegram may tell the bridge of the message too, where the table was there when the bridge
\* was started, and it broadcasts the change again.
Echo(n) ==
  /\ made[n].event # "broadcast"
  /\ \A s \in Sockets : \A i \in DOMAIN events[s] : ~(events[s][i].echo /\ events[s][i].no = n)
  /\ \A x \in heard : ~(x[3] = n /\ x[4])
  /\ Emit(n, made[n], TRUE)
  /\ UNCHANGED <<sdk, server, ghosts, ops, faults, incidents>>

-----------------------------------------------------------------------------
\* Mutant of Hears: the channel the event was sent for is not looked at.
HearsAnyChannel(w, e) ==
  IF e.event = "broadcast" THEN w.event = "broadcast" ELSE w.event \in {"*", e.event}

\* onAny: a callback hears events of its kind on its channel, and those for all hear any.
Hears(w, e) ==
  /\ w.channel = e.channel
  /\ IF e.event = "broadcast" THEN w.event = "broadcast" ELSE w.event \in {"*", e.event}

Receive(c) ==
  LET s == Socket(c)
      e == Head(events[s])
      now == {<<c, d[1], e.no, e.echo>> : d \in {x \in descriptors[c] : Hears(x[2], e)}}
  IN /\ up[c] /\ events[s] # <<>>
     /\ events' = [events EXCEPT ![s] = Tail(@)]
     /\ heard' = heard \cup now
     /\ repeated' = repeated \cup (now \cap heard)
     /\ UNCHANGED <<sdk, server, made, stood, ops, faults, incidents>>

\* The client's connection breaks: events are lost, and requests that have not come in.
Break(c) ==
  /\ Fault
  /\ up[c]
  /\ up' = [up EXCEPT ![c] = FALSE]
  /\ events' = [events EXCEPT ![Socket(c)] = <<>>]
  /\ \E n \in 0..Len(requests[Socket(c)]) :
       requests' = [requests EXCEPT ![Socket(c)] = SubSeq(@, 1, n)]
  /\ stood' = {x \in stood : x[1] # c}
  /\ UNCHANGED <<conn, descriptors, buffer, alive, noted, verifying, made, heard,
                 repeated, ops, incidents>>

\* disconnect
Disconnect(s) ==
  /\ s \in alive /\ ~Stands(s) /\ requests[s] = <<>>
  /\ alive' = alive \ {s}
  /\ noted' = [noted EXCEPT ![s] = {}]
  /\ UNCHANGED <<sdk, requests, verifying, events, ghosts, ops, faults, incidents>>

Next ==
  \/ \E c \in Clients :
       \/ \E w \in Wanted : Subscribe(c, w)
       \/ \E d \in descriptors[c] : Unsubscribe(c, d)
       \/ Connect(c) \/ Receive(c) \/ Break(c)
  \/ \E s \in Sockets :
       \/ Take(s) \/ Disconnect(s)
       \/ \E i \in DOMAIN verifying[s] : Note(s, i) \/ Deny(s, i)
  \/ \E change \in Change : Make(change)
  \/ \E n \in DOMAIN made : Echo(n)

Spec == Init /\ [][Next]_vars

-----------------------------------------------------------------------------
Clear(kinds) == incidents \cap kinds = {}
Quiet ==
  /\ \A s \in Sockets : requests[s] = <<>> /\ verifying[s] = <<>> /\ events[s] = <<>>
  /\ alive = {s \in Sockets : Stands(s)}

\* When all is quiet the server has noted for a client's socket what its callbacks are for,
\* over calls while there is no connection, reconnections and verifications in any order,
\* and nothing for a socket that has gone.  A room has one note: another channel's or filter's
\* callback takes it over, and takes it away when it goes.
SubscriptionsStand ==
  Quiet =>
    /\ Clear({"overwritten", "crossed", "denied"}) =>
         \A c \in Clients : up[c] =>
           /\ Wants(c) \subseteq noted[Socket(c)]
           /\ \A w \in noted[Socket(c)] : w.event # "broadcast" => w \in Wants(c)
    /\ Clear({"late"}) => \A s \in Sockets \ alive : noted[s] = {}

\* A callback hears each change that concerns it, made while it stood, and hears it once from
\* the API; none that its filter, which only the server applies, leaves out.  A callback for
\* all events hears an event again where the client has one for that event on the channel.
EachChangeOnce ==
  /\ Clear({"doubled", "crossed"}) => repeated = {}
  /\ Quiet /\ Clear({"overwritten", "doubled", "crossed", "denied"}) =>
       \A x \in stood : \A d \in descriptors[x[1]] :
         d[1] = x[2] => (<<x[1], x[2], x[3], FALSE>> \in heard <=> Concerns(d[2], made[x[3]]))
=============================================================================
