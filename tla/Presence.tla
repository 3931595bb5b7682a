------------------------------ MODULE Presence ------------------------------
(***************************************************************************)
(* One presence channel: the server's record of who is present, and the    *)
(* view each SDK client keeps of it.  Every request of a client waits on   *)
(* the server for its token to be verified, so requests of one socket may  *)
(* be carried out in another order, and after the socket has gone.         *)
(***************************************************************************)
EXTENDS Naturals, Sequences, FiniteSets, Bags, SequencesExt

CONSTANTS
  Clients,   \* RealtimeClients
  Users,     \* user ids that are tracked; two clients may track the same
  MaxConns,  \* bound: connections of a client
  MaxOps,    \* bound: calls of the SDK
  MaxFaults  \* bound: lost connections, denials and restarts

Sockets == Clients \X (1..MaxConns)
Refs == 1..MaxOps
Entry == [user : Users, socket : Sockets, ref : Refs]  \* presenceRooms, for the one room
Meta == [user : Users, ref : Refs]                     \* what a client is told of an entry
Request == [kind : {"join", "leave"}] \cup [kind : {"presence"}, user : Users]
Message == [kind : {"state"}, state : SUBSET Meta]
             \cup [kind : {"diff"}, joins : SUBSET Meta, leaves : SUBSET Meta]

VARIABLES
  \* RealtimeService
  alive,     \* the sockets that are connected
  members,   \* the sockets in the adapter's room
  recorded,  \* socketPresenceRooms: the sockets that have the room
  present,   \* presenceRooms
  requests,  \* of each socket: on their way or waiting for verification, oldest first
  messages,  \* to each socket, on their way
  \* RealtimeClient
  conn, up,  \* the number of the client's connection, and whether it stands
  room,      \* the client has a presence room: a callback is subscribed
  joined,    \* room.joined
  waiting,   \* once('connect') handlers that will join
  buffer,    \* what socket.io keeps until it is connected
  view,      \* room.state, a bag: a list could hold a meta twice
  \* The rest is not in the code.
  intended,  \* the users a client has tracked since it last unsubscribed or lost its connection
  refs, ops, faults,
  incidents

server == <<alive, members, recorded, present>>
sdk == <<conn, up, room, joined, waiting, buffer>>
vars == <<server, requests, messages, sdk, view, intended, refs, ops, faults, incidents>>

Incidents == {
  "late",       \* a socket was tracked after it had gone
  "overtaken",  \* a request and an earlier one changed places, one of them a leave
  "denied"}     \* a token was not accepted

TypeOK ==
  /\ alive \subseteq Sockets /\ members \subseteq Sockets /\ recorded \subseteq Sockets
  /\ present \subseteq Entry
  /\ \A p, q \in present : p.user = q.user /\ p.socket = q.socket => p = q
  /\ requests \in [Sockets -> Seq(Request)] /\ messages \in [Sockets -> Seq(Message)]
  /\ conn \in [Clients -> 0..MaxConns] /\ up \in [Clients -> BOOLEAN]
  /\ room \in [Clients -> BOOLEAN] /\ joined \in [Clients -> BOOLEAN]
  /\ waiting \in [Clients -> 0..MaxOps] /\ buffer \in [Clients -> Seq(Request)]
  /\ \A c \in Clients : IsABag(view[c]) /\ BagToSet(view[c]) \subseteq Meta
  /\ intended \in [Clients -> SUBSET Users]
  /\ refs \in 0..MaxOps /\ ops \in 0..MaxOps /\ faults \in 0..MaxFaults
  /\ incidents \subseteq Incidents

Init ==
  /\ alive = {} /\ members = {} /\ recorded = {} /\ present = {}
  /\ requests = [s \in Sockets |-> <<>>] /\ messages = [s \in Sockets |-> <<>>]
  /\ conn = [c \in Clients |-> 0] /\ up = [c \in Clients |-> FALSE]
  /\ room = [c \in Clients |-> FALSE] /\ joined = [c \in Clients |-> FALSE]
  /\ waiting = [c \in Clients |-> 0] /\ buffer = [c \in Clients |-> <<>>]
  /\ view = [c \in Clients |-> EmptyBag]
  /\ intended = [c \in Clients |-> {}]
  /\ refs = 0 /\ ops = 0 /\ faults = 0
  /\ incidents = {}

Join == [kind |-> "join"]
Leave == [kind |-> "leave"]
Metas(entries) == {[user |-> p.user, ref |-> p.ref] : p \in entries}
Of(s) == {p \in present : p.socket = s}
Socket(c) == <<c, conn[c]>>
Stands(s) == up[s[1]] /\ conn[s[1]] = s[2]
Mark(kinds) == incidents' = incidents \cup kinds

-----------------------------------------------------------------------------
(* The SDK's calls.                                                         *)

\* socket.emit sends, or keeps until there is a connection.
Emit(c, request) ==
  IF up[c]
  THEN /\ requests' = [requests EXCEPT ![Socket(c)] = Append(@, request)]
       /\ UNCHANGED buffer
  ELSE buffer' = [buffer EXCEPT ![c] = Append(@, request)] /\ UNCHANGED requests

Call == ops < MaxOps /\ ops' = ops + 1

\* subscribeToPresence
Subscribe(c) ==
  /\ Call
  /\ ~room[c]
  /\ room' = [room EXCEPT ![c] = TRUE]
  /\ view' = [view EXCEPT ![c] = EmptyBag]
  /\ IF up[c]
     THEN Emit(c, Join) /\ joined' = [joined EXCEPT ![c] = TRUE] /\ UNCHANGED waiting
     ELSE waiting' = [waiting EXCEPT ![c] = @ + 1] /\ UNCHANGED <<joined, requests, buffer>>
  /\ UNCHANGED <<server, messages, conn, up, intended, refs, faults, incidents>>

\* its unsubscribe
Unsubscribe(c) ==
  /\ Call
  /\ room[c]
  /\ room' = [room EXCEPT ![c] = FALSE] /\ joined' = [joined EXCEPT ![c] = FALSE]
  /\ view' = [view EXCEPT ![c] = EmptyBag]
  /\ Emit(c, Leave)
  /\ intended' = [intended EXCEPT ![c] = {}]
  /\ UNCHANGED <<server, messages, conn, up, waiting, refs, faults, incidents>>

\* trackPresence
Track(c, user) ==
  /\ Call
  /\ Emit(c, [kind |-> "presence", user |-> user])
  /\ intended' = [intended EXCEPT ![c] = @ \cup {user}]
  /\ UNCHANGED <<server, messages, conn, up, room, joined, waiting, view, refs, faults, incidents>>

Started(c) == room[c] \/ conn[c] > 0 \/ buffer[c] # <<>>

\* A connection comes up: the buffer is sent, the connect handler joins, and so do those
\* that waited for it.
Connect(c) ==
  LET times == IF room[c] THEN 1 + waiting[c] ELSE 0
      s == <<c, conn[c] + 1>>
  IN /\ ~up[c] /\ Started(c)
     /\ conn[c] < MaxConns
     /\ conn' = [conn EXCEPT ![c] = @ + 1] /\ up' = [up EXCEPT ![c] = TRUE]
     /\ alive' = alive \cup {s}
     /\ requests' = [requests EXCEPT ![s] = buffer[c] \o [i \in 1..times |-> Join]]
     /\ buffer' = [buffer EXCEPT ![c] = <<>>]
     /\ waiting' = [waiting EXCEPT ![c] = 0]
     /\ joined' = [joined EXCEPT ![c] = room[c]]
     /\ UNCHANGED <<members, recorded, present, messages, room, view, intended, refs, ops,
                    faults, incidents>>

\* applyPresenceDiff
ApplyDiff(bag, joins, leaves) ==
  LET stay == [m \in BagToSet(bag) \ leaves |-> bag[m]] IN stay (+) SetToBag(joins)

\* presence_state and presence_diff, as they come.
Receive(c) ==
  LET s == Socket(c) IN
  /\ up[c] /\ messages[s] # <<>>
  /\ LET m == Head(messages[s]) IN
     view' = IF ~room[c] THEN view
             ELSE [view EXCEPT ![c] = IF m.kind = "state" THEN SetToBag(m.state)
                                      ELSE ApplyDiff(@, m.joins, m.leaves)]
  /\ messages' = [messages EXCEPT ![s] = Tail(@)]
  /\ UNCHANGED <<server, requests, sdk, intended, refs, ops, faults, incidents>>

-----------------------------------------------------------------------------
(* The server's handlers, once verifyProjectToken has come back.            *)

\* The i-th request of the socket is carried out, before those ahead of it if i > 1.
Resume(s, i) ==
  /\ requests' = [requests EXCEPT ![s] = RemoveAt(@, i)]
  /\ LET ahead == {requests[s][j].kind : j \in 1..(i - 1)}
     IN Mark((IF s \notin alive /\ requests[s][i].kind = "presence" THEN {"late"} ELSE {})
              \cup (IF "leave" \in ahead \/ (ahead # {} /\ requests[s][i].kind = "leave")
                    THEN {"overtaken"} ELSE {}))

\* A message to some sockets; it reaches those whose connection stands.
Send(to, message) ==
  messages' = [s \in Sockets |-> IF s \in to /\ Stands(s) THEN Append(messages[s], message)
                                 ELSE messages[s]]

Diff(joins, leaves) == [kind |-> "diff", joins |-> Metas(joins), leaves |-> Metas(leaves)]

Enter(s) == members' = members \cup {s} /\ recorded' = recorded \cup {s}

\* join_presence
JoinPresence(s, i) ==
  /\ requests[s][i].kind = "join"
  /\ Resume(s, i)
  /\ Enter(s)
  /\ Send({s}, [kind |-> "state", state |-> Metas(present)])
  /\ UNCHANGED <<alive, present, sdk, view, intended, refs, ops, faults>>

\* removeSocketPresenceFromRoom
RemoveFromRoom(s) ==
  /\ present' = present \ Of(s)
  /\ IF Of(s) # {} THEN Send(members, Diff({}, Of(s))) ELSE UNCHANGED messages

\* leave_presence
LeavePresence(s, i) ==
  /\ requests[s][i].kind = "leave"
  /\ Resume(s, i)
  /\ RemoveFromRoom(s)
  /\ members' = members \ {s}
  /\ recorded' = recorded \ {s}
  /\ UNCHANGED <<alive, sdk, view, intended, refs, ops, faults>>

Previous(s, user) == {p \in Of(s) : p.user = user}

\* Mutant of Upsert: the diff does not say which meta the new one replaces.
UpsertQuietly(s, user) ==
  LET entry == [user |-> user, socket |-> s, ref |-> refs + 1]
  IN /\ present' = (present \ Previous(s, user)) \cup {entry}
     /\ Send(members \cup {s}, Diff({entry}, {}))

\* upsertPresence
Upsert(s, user) ==
  LET entry == [user |-> user, socket |-> s, ref |-> refs + 1]
  IN /\ present' = (present \ Previous(s, user)) \cup {entry}
     /\ Send(members \cup {s}, Diff({entry}, Previous(s, user)))

\* presence
TakePresence(s, i) ==
  /\ requests[s][i].kind = "presence"
  /\ Resume(s, i)
  /\ Enter(s)
  /\ refs' = refs + 1
  /\ Upsert(s, requests[s][i].user)
  /\ UNCHANGED <<alive, sdk, view, intended, ops, faults>>

\* Mutant of Disconnect: the handler forgets the socket's rooms and leaves their entries.
ForgetSocket(s) ==
  /\ s \in alive /\ ~Stands(s)
  /\ alive' = alive \ {s}
  /\ members' = members \ {s} /\ recorded' = recorded \ {s}
  /\ UNCHANGED <<present, requests, messages, sdk, view, intended, refs, ops, faults, incidents>>

\* disconnect: socket.io takes the socket out of its rooms before it calls the handler.
Disconnect(s) ==
  /\ s \in alive /\ ~Stands(s)
  /\ alive' = alive \ {s}
  /\ members' = members \ {s} /\ recorded' = recorded \ {s}
  /\ IF s \in recorded
     THEN /\ present' = present \ Of(s)
          /\ IF Of(s) # {} THEN Send(members \ {s}, Diff({}, Of(s))) ELSE UNCHANGED messages
     ELSE UNCHANGED <<present, messages>>
  /\ UNCHANGED <<requests, sdk, view, intended, refs, ops, faults, incidents>>

-----------------------------------------------------------------------------
Fault == faults < MaxFaults /\ faults' = faults + 1

\* The token is not accepted: an error event, which the SDK does not listen to.
Deny(s, i) ==
  /\ Fault
  /\ requests' = [requests EXCEPT ![s] = RemoveAt(@, i)]
  /\ Mark({"denied"})
  /\ UNCHANGED <<server, messages, sdk, view, intended, refs, ops>>

\* The client's connection breaks: messages are lost, and requests that have not come in.
Break(c) ==
  /\ Fault
  /\ up[c]
  /\ up' = [up EXCEPT ![c] = FALSE]
  /\ messages' = [messages EXCEPT ![Socket(c)] = <<>>]
  /\ \E n \in 0..Len(requests[Socket(c)]) :
       requests' = [requests EXCEPT ![Socket(c)] = SubSeq(@, 1, n)]
  /\ intended' = [intended EXCEPT ![c] = {}]
  /\ UNCHANGED <<server, conn, room, joined, waiting, buffer, view, refs, ops, incidents>>

\* The API is restarted: it has forgotten everything, and every connection is gone.
Restart ==
  /\ Fault
  /\ alive # {}
  /\ alive' = {} /\ members' = {} /\ recorded' = {} /\ present' = {}
  /\ requests' = [s \in Sockets |-> <<>>] /\ messages' = [s \in Sockets |-> <<>>]
  /\ up' = [c \in Clients |-> FALSE]
  /\ intended' = [c \in Clients |-> IF up[c] THEN {} ELSE intended[c]]
  /\ UNCHANGED <<conn, room, joined, waiting, buffer, view, refs, ops, incidents>>

Next ==
  \/ \E c \in Clients :
       \/ Subscribe(c) \/ Unsubscribe(c) \/ Connect(c) \/ Receive(c) \/ Break(c)
       \/ \E user \in Users : Track(c, user)
  \/ \E s \in Sockets :
       \/ \E i \in DOMAIN requests[s] :
            JoinPresence(s, i) \/ LeavePresence(s, i) \/ TakePresence(s, i) \/ Deny(s, i)
       \/ Disconnect(s)
  \/ Restart

Spec == Init /\ [][Next]_vars

-----------------------------------------------------------------------------
(* Properties.                                                              *)

Spoiled(kinds) == incidents \cap kinds # {}

\* Nothing is on its way, and every socket the server knows stands.
Quiet ==
  /\ \A s \in Sockets : requests[s] = <<>> /\ messages[s] = <<>>
  /\ alive = {s \in Sockets : Stands(s)}

\* No one is present through a socket that has gone, unless a request of it was still
\* being verified then.
NoGhosts == "late" \in incidents \/ \A p \in present : p.socket \in alive

\* A subscriber's view, built from one snapshot and the diffs since, is what the server
\* has, over reconnections, restarts and verifications that overtake each other, unless
\* one overtook a leave, or was refused.
ViewsConverge ==
  Quiet /\ ~Spoiled({"overtaken", "denied"}) =>
    \A c \in Clients : up[c] /\ room[c] => view[c] = SetToBag(Metas(present))

\* When all is quiet a client is present as the users it has tracked since it last
\* unsubscribed or lost its connection, and as no other.
PresentAsTracked ==
  Quiet /\ ~Spoiled({"late", "overtaken", "denied"}) =>
    \A c \in Clients :
      {p.user : p \in {q \in present : q.socket[1] = c}} = IF up[c] THEN intended[c] ELSE {}
=============================================================================
