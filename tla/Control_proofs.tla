--------------------------- MODULE Control_proofs ---------------------------
(***************************************************************************)
(* Who may do what, for any users, roles, invitations, accounts, requests  *)
(* and bounds: the members of a project and its invitations (Access), the  *)
(* accounts of its own users (Accounts), and the client that signs in      *)
(* (AuthClient), in this order.                                            *)
(***************************************************************************)
EXTENDS MCControl, NaturalsInduction, WellFoundedInduction, FiniteSetTheorems, TLAPS

-----------------------------------------------------------------------------
(* Access: what the variables hold, and what a request has in its hands.    *)

Requested == Roles!Job \cup {Roles!Idle}
Fields == {"call", "at", "seen", "base", "card", "ids", "late"}

AccessTypes ==
  /\ record \in Roles!Record \cup {Roles!Gone} /\ intended \in Roles!Record
  /\ listed \subseteq Users
  /\ invites \in Roles!Partial(Invites, Roles!Invitation) /\ inviteSet \subseteq Invites
  /\ job \in [Requests -> Requested]
  /\ spent \subseteq Invites /\ withdrawn \subseteq Invites /\ issued \subseteq Invites
  /\ deleted \in BOOLEAN
  /\ calls \in 0..MaxCalls /\ faults \in 0..MaxFaults
  /\ incidents \subseteq Roles!Incidents

\* The request has read the invitation it names; it writes one under a new id.
Holds(j) ==
  \/ j.at \in {"read", "get", "set", "enlist", "mark"} /\ j.call.op = "accept"
  \/ j.at = "mark" /\ j.call.op = "revoke"
Inviting(j) == j.at \in {"read", "recheck", "write"} /\ j.call.op = "invite"

Patching == {"accept", "setRole", "remove", "saveRole", "dropRole", "rename"}

InHand(j) ==
  /\ j.at \in {"get", "set"} =>
       /\ j.call.op \in Patching /\ j.seen \in Roles!Record /\ Roles!Allowed(j.call, j.seen)
       /\ j.at = "set" => j.base \in Roles!Record
  /\ j.at \in {"card", "enlist"} => j.call.op = "accept"
  /\ j.at = "unlist" => j.call.op = "remove"
  /\ j.at = "fetch" => j.call.op = "revoke"
  /\ j.at = "mark" => j.call.op \in {"accept", "revoke"}
  /\ j.at \in {"recheck", "write"} => j.call.op = "invite"
  /\ j.at = "read" => j.call.op # "list"
  /\ Holds(j) => j.card \in Roles!Invitation
  /\ j.late => j.at = "card"

Hands == \A r \in Requests : job[r] # Roles!Idle => InHand(job[r])

(* The parts of the invariant.                                              *)

\* The record is what the updates meant, until the project is deleted.
RecordTrue ==
  /\ ~Roles!Exists(record) => deleted
  /\ Roles!Clear({"stale"}) => IF deleted THEN record = Roles!Gone ELSE record = intended

RolesKnown ==
  Roles!Clear({"stale", "unvalidated"}) /\ Roles!Exists(record) =>
    \A u \in DOMAIN record.members : Roles!Known(record, record.members[u])

\* The deletion is between its two writes.
Deleting(j) == j.at \in {"load", "drop"}

\* A member who is not listed is about to be, and a listed user who is no member is about not to be.
ListsTrue ==
  ~deleted /\ Roles!Clear({"stale", "crossed", "cut"}) /\ (\A r \in Requests : ~Deleting(job[r])) =>
    \A u \in Users :
      /\ u \in DOMAIN record.members /\ u \notin listed =>
           \E r \in Requests : job[r].at = "enlist" /\ job[r].card.user = u
      /\ u \notin DOMAIN record.members /\ u \in listed =>
           \E r \in Requests : job[r].at = "unlist" /\ job[r].call.user = u

\* The id of an invitation that is yet to be written is nobody else's.
IdsApart ==
  /\ DOMAIN invites \cup spent \cup withdrawn \subseteq issued
  /\ \A r \in Requests :
       /\ Holds(job[r]) \/ Inviting(job[r]) => job[r].call.invite \in issued
       /\ Inviting(job[r]) =>
            /\ job[r].call.invite \notin DOMAIN invites \cup spent \cup withdrawn
            /\ \A q \in Requests \ {r} :
                 Holds(job[q]) \/ Inviting(job[q]) => job[q].call.invite # job[r].call.invite

\* A request that began after its invitation was spent or withdrawn goes nowhere.
LateKnown ==
  \A r \in Requests : job[r] # Roles!Idle /\ job[r].late =>
    job[r].call.invite \in spent \cup withdrawn

SpentStays ==
  /\ misused = {}
  /\ \A i \in (spent \cup withdrawn) \cap DOMAIN invites : ~Roles!Acceptable(invites[i])
  /\ Roles!Clear({"overlap"}) => \A i \in withdrawn \cap DOMAIN invites : invites[i].revoked

\* From the first write of the deletion on, nothing is left but the record; then nothing.
LeftEmpty ==
  Roles!Clear({"revived"}) =>
    /\ deleted \/ (\E r \in Requests : Deleting(job[r])) => DOMAIN invites = {} /\ listed = {}
    /\ deleted => record = Roles!Gone

AccessInv ==
  /\ AccessTypes /\ Hands
  /\ RecordTrue /\ RolesKnown /\ ListsTrue /\ IdsApart /\ LateKnown /\ SpentStays /\ LeftEmpty

-----------------------------------------------------------------------------
(* Lemmas about functions, records and requests.                            *)

LEMMA PartialIs ==
  ASSUME NEW D, NEW R, NEW f
  PROVE  f \in Roles!Partial(D, R) <=> DOMAIN f \subseteq D /\ f \in [DOMAIN f -> R]
  BY DEF Roles!Partial

LEMMA WithIsPartial ==
  ASSUME NEW D, NEW R, NEW f \in Roles!Partial(D, R), NEW x \in D, NEW v \in R
  PROVE  /\ Roles!With(f, x, v) \in Roles!Partial(D, R)
         /\ DOMAIN Roles!With(f, x, v) = DOMAIN f \cup {x}
         /\ Roles!With(f, x, v)[x] = v
         /\ \A y \in DOMAIN f \ {x} : Roles!With(f, x, v)[y] = f[y]
  BY PartialIs DEF Roles!With

LEMMA DropIsPartial ==
  ASSUME NEW D, NEW R, NEW f \in Roles!Partial(D, R), NEW S
  PROVE  /\ Roles!Drop(f, S) \in Roles!Partial(D, R)
         /\ DOMAIN Roles!Drop(f, S) = DOMAIN f \ S
         /\ \A y \in DOMAIN f \ S : Roles!Drop(f, S)[y] = f[y]
  BY PartialIs DEF Roles!Drop

LEMMA IdleIsNone == Roles!Idle.at = "idle" /\ Roles!Idle \notin Roles!Job
  BY DEF Roles!Idle, Roles!Job, Roles!Labels

LEMMA GoneIsNoRecord == Roles!Gone \notin Roles!Record
  BY DEF Roles!Gone, Roles!Record

\* What Put makes of a request
Over(j, c) == [x \in DOMAIN j |-> IF x \in DOMAIN c THEN c[x] ELSE j[x]]

LEMMA OverIsJob ==
  ASSUME NEW j \in Roles!Job, NEW c, DOMAIN c \subseteq Fields,
         "call" \in DOMAIN c => c["call"] \in Roles!Call,
         "at" \in DOMAIN c => c["at"] \in Roles!Labels,
         "seen" \in DOMAIN c => c["seen"] \in Roles!Record \cup {Roles!Gone},
         "base" \in DOMAIN c => c["base"] \in Roles!Record \cup {Roles!Gone},
         "card" \in DOMAIN c => c["card"] \in Roles!Invitation \cup {Roles!NoCard},
         "ids" \in DOMAIN c => c["ids"] \in SUBSET Invites,
         "late" \in DOMAIN c => c["late"] \in BOOLEAN
  PROVE  /\ Over(j, c) \in Roles!Job
         /\ \A x \in Fields : Over(j, c)[x] = IF x \in DOMAIN c THEN c[x] ELSE j[x]
<1>1. DOMAIN j = Fields
  BY DEF Roles!Job, Fields
<1>2. /\ DOMAIN Over(j, c) = Fields
      /\ \A x \in Fields : Over(j, c)[x] = IF x \in DOMAIN c THEN c[x] ELSE j[x]
      /\ Over(j, c) = [x \in Fields |-> Over(j, c)[x]]
  BY <1>1 DEF Over
<1>3. /\ j.call \in Roles!Call /\ j.at \in Roles!Labels
      /\ j.seen \in Roles!Record \cup {Roles!Gone} /\ j.base \in Roles!Record \cup {Roles!Gone}
      /\ j.card \in Roles!Invitation \cup {Roles!NoCard} /\ j.ids \in SUBSET Invites
      /\ j.late \in BOOLEAN
  BY DEF Roles!Job
<1> DEFINE k == Over(j, c)
<1>4. /\ k.call \in Roles!Call /\ k.at \in Roles!Labels
      /\ k.seen \in Roles!Record \cup {Roles!Gone} /\ k.base \in Roles!Record \cup {Roles!Gone}
      /\ k.card \in Roles!Invitation \cup {Roles!NoCard} /\ k.ids \in SUBSET Invites
      /\ k.late \in BOOLEAN
  BY <1>2, <1>3 DEF Fields
<1>5. k \in Roles!Job
  <2> HIDE DEF k
  <2>1. DOMAIN k = Fields /\ k = [x \in Fields |-> k[x]]
    BY <1>2 DEF k
  <2> QED
    BY <1>4, <2>1 DEF Roles!Job, Fields
<1> QED
  BY <1>2, <1>5

\* A request that is somewhere is not idle, and has what belongs there in its hands.
LEMMA Somewhere ==
  ASSUME AccessTypes, Hands, NEW r \in Requests, job[r].at # "idle"
  PROVE  job[r] \in Roles!Job /\ InHand(job[r]) /\ job[r] # Roles!Idle
  BY IdleIsNone DEF AccessTypes, Hands, Requested

\* A step of one request: what Put, Goto and End do to the others is nothing.
Moved(r, n) ==
  /\ job' \in [Requests -> Requested] /\ job'[r] = n
  /\ \A q \in Requests \ {r} : job'[q] = job[q]

LEMMA PutMoves ==
  ASSUME AccessTypes, NEW r \in Requests, NEW c, Roles!Put(r, c), Over(job[r], c) \in Roles!Job
  PROVE  Moved(r, Over(job[r], c))
  BY DEF AccessTypes, Roles!Put, Over, Moved, Requested

LEMMA EndMoves ==
  ASSUME AccessTypes, NEW r \in Requests, Roles!End(r)
  PROVE  Moved(r, Roles!Idle)
  BY DEF AccessTypes, Roles!End, Moved, Requested

LEMMA HandsKept ==
  ASSUME Hands, NEW r \in Requests, NEW n, Moved(r, n), n # Roles!Idle => InHand(n)
  PROVE  Hands'
  BY DEF Moved, Hands, InHand, Holds

(* What leaves a part of the invariant as it is.                            *)

LEMMA RecordKept ==
  ASSUME RecordTrue, RolesKnown, UNCHANGED <<record, intended, deleted>>, incidents \subseteq incidents'
  PROVE  RecordTrue' /\ RolesKnown'
  BY DEF RecordTrue, RolesKnown, Roles!Clear, Roles!Exists, Roles!Known

LEMMA ListsKept ==
  ASSUME ListsTrue, UNCHANGED <<record, listed, deleted>>, incidents \subseteq incidents',
         NEW r \in Requests, NEW n, Moved(r, n),
         job[r].at \in {"enlist", "unlist"} => "cut" \in incidents',
         Deleting(job[r]) => Deleting(n) \/ deleted \/ "cut" \in incidents'
  PROVE  ListsTrue'
<1> SUFFICES ASSUME (~deleted /\ Roles!Clear({"stale", "crossed", "cut"})
                       /\ (\A q \in Requests : ~Deleting(job[q])))',
                    NEW u \in Users
             PROVE  /\ u \in DOMAIN record'.members /\ u \notin listed' =>
                         \E q \in Requests : job'[q].at = "enlist" /\ job'[q].card.user = u
                    /\ u \notin DOMAIN record'.members /\ u \in listed' =>
                         \E q \in Requests : job'[q].at = "unlist" /\ job'[q].call.user = u
  BY DEF ListsTrue
<1>1. Roles!Clear({"stale", "crossed", "cut"}) /\ "cut" \notin incidents' /\ ~deleted
  BY DEF Roles!Clear
<1>2. \A q \in Requests : ~Deleting(job[q])
  BY <1>1 DEF Moved, Deleting
<1>3. job[r].at \notin {"enlist", "unlist"}
  BY <1>1
<1>4. /\ u \in DOMAIN record.members /\ u \notin listed =>
           \E q \in Requests : job[q].at = "enlist" /\ job[q].card.user = u
      /\ u \notin DOMAIN record.members /\ u \in listed =>
           \E q \in Requests : job[q].at = "unlist" /\ job[q].call.user = u
  BY <1>1, <1>2 DEF ListsTrue
<1> QED
  BY <1>3, <1>4 DEF Moved

LEMMA InvitesKept ==
  ASSUME IdsApart, SpentStays, UNCHANGED <<invites, spent, withdrawn, misused, issued>>,
         incidents \subseteq incidents',
         NEW r \in Requests, NEW n, Moved(r, n),
         Inviting(n) => Inviting(job[r]) /\ n.call = job[r].call,
         Holds(n) => n.call.invite \in DOMAIN invites \/ (Holds(job[r]) /\ n.call = job[r].call)
  PROVE  IdsApart' /\ SpentStays'
  BY DEF SpentStays, Roles!Clear, Roles!Acceptable, Moved, IdsApart, Holds, Inviting

LEMMA LateKept ==
  ASSUME LateKnown, spent \subseteq spent', withdrawn \subseteq withdrawn',
         NEW r \in Requests, NEW n, Moved(r, n), n # Roles!Idle => ~n.late
  PROVE  LateKnown'
  BY DEF LateKnown, Moved

LEMMA EmptyKept ==
  ASSUME LeftEmpty, UNCHANGED <<record, invites, listed, deleted>>, incidents \subseteq incidents',
         NEW r \in Requests, NEW n, Moved(r, n), Deleting(n) => Deleting(job[r])
  PROVE  LeftEmpty'
  BY DEF Moved, LeftEmpty, Roles!Clear, Deleting

-----------------------------------------------------------------------------
(* Steps of Access that write nothing.                                      *)

\* A request that goes from one label to another, to read or to end
LEMMA Moves ==
  ASSUME AccessInv, NEW r \in Requests, NEW n \in Requested, Moved(r, n),
         UNCHANGED <<record, listed, invites, intended, spent, misused, withdrawn, deleted, issued>>,
         inviteSet' \subseteq inviteSet, calls' \in 0..MaxCalls, faults' \in 0..MaxFaults,
         incidents \subseteq incidents', incidents' \subseteq Roles!Incidents,
         n # Roles!Idle => InHand(n) /\ n.call = job[r].call /\ n.at # "card",
         job[r].at \in {"enlist", "unlist"} => "cut" \in incidents',
         Deleting(job[r]) => Deleting(n) \/ deleted \/ "cut" \in incidents',
         Deleting(n) => Deleting(job[r]),
         Inviting(n) => Inviting(job[r]),
         Holds(n) => Holds(job[r]) \/ n.call.invite \in DOMAIN invites
  PROVE  AccessInv'
  BY HandsKept, RecordKept, ListsKept, IdleIsNone, InvitesKept, EmptyKept, LateKept DEF AccessInv,
     AccessTypes, Moved, Inviting, Holds, InHand

LEMMA Ends ==
  ASSUME AccessInv, NEW r \in Requests, Roles!End(r),
         UNCHANGED <<record, listed, invites, inviteSet, intended, spent, misused, withdrawn, deleted, issued>>,
         calls' \in 0..MaxCalls, faults' \in 0..MaxFaults,
         incidents \subseteq incidents', incidents' \subseteq Roles!Incidents,
         job[r].at \in {"enlist", "unlist"} => "cut" \in incidents',
         Deleting(job[r]) => deleted \/ "cut" \in incidents'
  PROVE  AccessInv'
  BY EndMoves, IdleIsNone, Moves DEF AccessInv, Inviting, Holds, Deleting, Requested

\* The request goes on, to where it may with what it has.
LEMMA GoesOn ==
  ASSUME AccessInv, NEW r \in Requests, NEW c, Roles!Put(r, c), job[r] \in Roles!Job,
         DOMAIN c \subseteq Fields \ {"call", "late"},
         "at" \in DOMAIN c => c["at"] \in Roles!Labels,
         "seen" \in DOMAIN c => c["seen"] \in Roles!Record \cup {Roles!Gone},
         "base" \in DOMAIN c => c["base"] \in Roles!Record \cup {Roles!Gone},
         "card" \in DOMAIN c => c["card"] \in Roles!Invitation \cup {Roles!NoCard},
         "ids" \in DOMAIN c => c["ids"] \in SUBSET Invites,
         UNCHANGED <<record, listed, invites, intended, spent, misused, withdrawn, deleted, issued,
                     calls, faults, incidents>>,
         inviteSet' \subseteq inviteSet,
         InHand(Over(job[r], c)), Over(job[r], c).at # "card",
         job[r].at \notin {"enlist", "unlist"},
         Deleting(job[r]) <=> Deleting(Over(job[r], c)),
         Inviting(Over(job[r], c)) => Inviting(job[r]),
         Holds(Over(job[r], c)) => Holds(job[r]) \/ job[r].call.invite \in DOMAIN invites
  PROVE  AccessInv'
  BY OverIsJob, PutMoves, Moves DEF Fields, AccessInv, Requested, AccessTypes

LEMMA ReadKeeps ==
  ASSUME AccessInv, NEW r \in Requests, Roles!Read(r)
  PROVE  AccessInv'
<1> DEFINE j == job[r]
           at == Roles!AfterRead(j.call)
           seen == IF at = "get" THEN record ELSE Roles!Gone
           c == [at |-> at, seen |-> seen]
<1>1. j.at = "read" /\ j \in Roles!Job /\ InHand(j)
  BY Somewhere DEF Roles!Read, Roles!At, AccessInv
<1>2. /\ UNCHANGED <<record, listed, invites, inviteSet, intended, spent, misused, withdrawn, deleted,
                     issued, calls, faults, incidents>>
      /\ calls' \in 0..MaxCalls /\ faults' \in 0..MaxFaults /\ incidents' \subseteq Roles!Incidents
      /\ ~Deleting(j)
  BY <1>1 DEF Roles!Read, Roles!Stay, Roles!store, Roles!ghosts, AccessInv, AccessTypes, Deleting
<1>3. CASE Roles!End(r)
  BY <1>1, <1>2, <1>3, Ends
<1>4. CASE Roles!Put(r, c) /\ Roles!Exists(record) /\ Roles!Allowed(j.call, record)
  <2>1. /\ j.call \in Roles!Call /\ j.late \in BOOLEAN
        /\ record \in Roles!Record
    BY <1>1, <1>4 DEF Roles!Job, Roles!Exists, AccessInv, AccessTypes
  <2>2. /\ at \in {"write", "recheck", "fetch", "clean", "get"}
        /\ at \in {"write", "recheck"} <=> j.call.op = "invite"
        /\ at = "fetch" <=> j.call.op = "revoke"
        /\ at = "clean" <=> j.call.op = "delete"
    BY DEF Roles!AfterRead
  <2>3. at = "get" => j.call.op \in Patching /\ seen \in Roles!Record /\ Roles!Allowed(j.call, seen)
    BY <1>1, <1>4, <2>1, <2>2 DEF Roles!Call, Patching, InHand
  <2> DEFINE n == Over(j, c)
  <2>4. /\ DOMAIN c = {"at", "seen"} /\ c["at"] = at /\ c["seen"] = seen
        /\ at \in Roles!Labels /\ seen \in Roles!Record \cup {Roles!Gone}
    BY <2>1, <2>2 DEF Roles!Labels
  <2>5. n.at = at /\ n.seen = seen /\ n.call = j.call /\ n.card = j.card /\ n.late = j.late
    <3> HIDE DEF c, at, seen
    <3> QED
      BY <1>1, <2>4, OverIsJob DEF Fields
  <2> HIDE DEF c, n, at, seen
  <2>6. InHand(n) /\ ~Deleting(n) /\ n.at # "card"
    BY <1>1, <2>2, <2>3, <2>5 DEF InHand, Holds, Deleting
  <2>7. (Inviting(n) => Inviting(j)) /\ (Holds(n) => Holds(j))
    BY <1>1, <2>2, <2>5 DEF Inviting, Holds
  <2> QED
    BY <1>1, <1>2, <1>4, <2>4, <2>6, <2>7, GoesOn DEF Fields, n
<1> QED
  BY <1>3, <1>4 DEF Roles!Read

\* What every request finds unchanged that writes nothing
Untouched ==
  UNCHANGED <<record, listed, invites, intended, spent, misused, withdrawn, deleted, issued,
              calls, faults, incidents>>

LEMMA UntouchedStays ==
  ASSUME AccessInv, Roles!Stay, UNCHANGED <<Roles!store, Roles!ghosts, incidents>>
  PROVE  /\ Untouched /\ UNCHANGED inviteSet
         /\ calls' \in 0..MaxCalls /\ faults' \in 0..MaxFaults /\ incidents' \subseteq Roles!Incidents
  BY DEF Roles!Stay, Roles!store, Roles!ghosts, AccessInv, AccessTypes, Untouched

LEMMA RecheckKeeps ==
  ASSUME AccessInv, NEW r \in Requests, Roles!Recheck(r)
  PROVE  AccessInv'
<1> DEFINE j == job[r]
           c == [at |-> "write"]
           n == Over(j, c)
<1>1. j.at = "recheck" /\ j \in Roles!Job /\ InHand(j)
  BY Somewhere DEF Roles!Recheck, Roles!At, AccessInv
<1>2. /\ Untouched /\ UNCHANGED inviteSet
      /\ calls' \in 0..MaxCalls /\ faults' \in 0..MaxFaults /\ incidents' \subseteq Roles!Incidents
      /\ ~Deleting(j)
  BY <1>1, UntouchedStays DEF Roles!Recheck, Deleting
<1>3. CASE Roles!End(r)
  BY <1>1, <1>2, <1>3, Ends DEF Untouched
<1>4. CASE Roles!Put(r, c)
  <2>1. DOMAIN c = {"at"} /\ c["at"] = "write" /\ "write" \in Roles!Labels
    BY DEF Roles!Labels
  <2>2. n.at = "write" /\ n.call = j.call /\ n.card = j.card /\ n.late = j.late
    BY <1>1, <2>1, OverIsJob DEF Fields
  <2> HIDE DEF c, n
  <2>3. InHand(n) /\ n.at # "card" /\ ~Deleting(n) /\ (Inviting(n) => Inviting(j)) /\ ~Holds(n)
    BY <1>1, <2>2 DEF InHand, Holds, Deleting, Inviting
  <2> QED
    BY <1>1, <1>2, <1>4, <2>1, <2>3, GoesOn DEF Fields, n, Untouched
<1> QED
  BY <1>3, <1>4 DEF Roles!Recheck, Roles!Goto

LEMMA GetKeeps ==
  ASSUME AccessInv, NEW r \in Requests, Roles!Get(r)
  PROVE  AccessInv'
<1> DEFINE j == job[r]
           c == [at |-> "set", base |-> record]
           n == Over(j, c)
<1>1. j.at = "get" /\ j \in Roles!Job /\ InHand(j)
  BY Somewhere DEF Roles!Get, Roles!At, AccessInv
<1>2. /\ Untouched /\ UNCHANGED inviteSet
      /\ calls' \in 0..MaxCalls /\ faults' \in 0..MaxFaults /\ incidents' \subseteq Roles!Incidents
      /\ ~Deleting(j)
  BY <1>1, UntouchedStays DEF Roles!Get, Deleting
<1>3. CASE Roles!End(r)
  BY <1>1, <1>2, <1>3, Ends DEF Untouched
<1>4. CASE Roles!Put(r, c) /\ Roles!Exists(record)
  <2>1. /\ DOMAIN c = {"at", "base"} /\ c["at"] = "set" /\ "set" \in Roles!Labels
        /\ c["base"] = record /\ record \in Roles!Record
    BY <1>4 DEF Roles!Labels, AccessInv, AccessTypes, Roles!Exists
  <2>2. /\ n.at = "set" /\ n.base = record
        /\ n.call = j.call /\ n.card = j.card /\ n.late = j.late /\ n.seen = j.seen
    BY <1>1, <2>1, OverIsJob DEF Fields
  <2> HIDE DEF c, n
  <2>3. InHand(n) /\ n.at # "card" /\ ~Deleting(n) /\ ~Inviting(n) /\ (Holds(n) => Holds(j))
    BY <1>1, <2>1, <2>2 DEF InHand, Holds, Deleting, Inviting
  <2> QED
    BY <1>1, <1>2, <1>4, <2>1, <2>3, GoesOn DEF Fields, n, Untouched
<1> QED
  BY <1>3, <1>4 DEF Roles!Get

LEMMA CardKeeps ==
  ASSUME AccessInv, NEW r \in Requests, Roles!Card(r)
  PROVE  AccessInv'
<1> DEFINE j == job[r]
           i == j.call.invite
           c == [at |-> "read", card |-> invites[i]]
           n == Over(j, c)
<1>1. j.at = "card" /\ j \in Roles!Job /\ InHand(j)
  BY Somewhere DEF Roles!Card, Roles!At, AccessInv
<1>2. /\ Untouched /\ UNCHANGED inviteSet
      /\ calls' \in 0..MaxCalls /\ faults' \in 0..MaxFaults /\ incidents' \subseteq Roles!Incidents
      /\ ~Deleting(j)
  BY <1>1, UntouchedStays DEF Roles!Card, Deleting
<1>3. CASE Roles!End(r)
  BY <1>1, <1>2, <1>3, Ends DEF Untouched
<1>4. CASE Roles!Put(r, c) /\ i \in DOMAIN invites /\ Roles!Acceptable(invites[i])
  <2>1. /\ DOMAIN c = {"at", "card"} /\ c["at"] = "read" /\ "read" \in Roles!Labels
        /\ c["card"] = invites[i] /\ invites[i] \in Roles!Invitation
    BY <1>4, PartialIs DEF Roles!Labels, AccessInv, AccessTypes
  <2>2. n.at = "read" /\ n.card = invites[i] /\ n.call = j.call /\ n.late = j.late /\ n.seen = j.seen
    BY <1>1, <2>1, OverIsJob DEF Fields
  <2>3. ~j.late
    BY <1>4, <1>1, IdleIsNone DEF AccessInv, SpentStays, LateKnown
  <2> HIDE DEF c, n
  <2>4. InHand(n) /\ n.at # "card" /\ ~Deleting(n) /\ ~Inviting(n)
    BY <1>1, <2>1, <2>2, <2>3 DEF InHand, Holds, Deleting, Inviting
  <2> QED
    BY <1>1, <1>2, <1>4, <2>1, <2>4, GoesOn DEF Fields, n, Untouched
<1> QED
  BY <1>3, <1>4 DEF Roles!Card

LEMMA FetchKeeps ==
  ASSUME AccessInv, NEW r \in Requests, Roles!Fetch(r)
  PROVE  AccessInv'
<1> DEFINE j == job[r]
           i == j.call.invite
           c == [at |-> "mark", card |-> invites[i]]
           n == Over(j, c)
<1>1. j.at = "fetch" /\ j \in Roles!Job /\ InHand(j)
  BY Somewhere DEF Roles!Fetch, Roles!At, AccessInv
<1>2. /\ Untouched /\ UNCHANGED inviteSet
      /\ calls' \in 0..MaxCalls /\ faults' \in 0..MaxFaults /\ incidents' \subseteq Roles!Incidents
      /\ ~Deleting(j)
  BY <1>1, UntouchedStays DEF Roles!Fetch, Deleting
<1>3. CASE Roles!End(r)
  BY <1>1, <1>2, <1>3, Ends DEF Untouched
<1>4. CASE Roles!Put(r, c) /\ i \in DOMAIN invites
  <2>1. /\ DOMAIN c = {"at", "card"} /\ c["at"] = "mark" /\ "mark" \in Roles!Labels
        /\ c["card"] = invites[i] /\ invites[i] \in Roles!Invitation
    BY <1>4, PartialIs DEF Roles!Labels, AccessInv, AccessTypes
  <2>2. n.at = "mark" /\ n.card = invites[i] /\ n.call = j.call /\ n.late = j.late /\ n.seen = j.seen
    BY <1>1, <2>1, OverIsJob DEF Fields
  <2> HIDE DEF c, n
  <2>3. InHand(n) /\ n.at # "card" /\ ~Deleting(n) /\ ~Inviting(n)
    BY <1>1, <2>1, <2>2 DEF InHand, Holds, Deleting, Inviting
  <2> QED
    BY <1>1, <1>2, <1>4, <2>1, <2>3, GoesOn DEF Fields, n, Untouched
<1> QED
  BY <1>3, <1>4 DEF Roles!Fetch

LEMMA IdsKeeps ==
  ASSUME AccessInv, NEW r \in Requests, Roles!Ids(r)
  PROVE  AccessInv'
<1> DEFINE j == job[r]
           at == IF j.call.op = "list" THEN "sift" ELSE "exec"
           c == [at |-> at, ids |-> inviteSet]
           n == Over(j, c)
<1>1. j.at = "ids" /\ j \in Roles!Job /\ InHand(j)
  BY Somewhere DEF Roles!Ids, Roles!At, AccessInv
<1>2. Untouched /\ UNCHANGED inviteSet /\ ~Deleting(j)
  BY <1>1, UntouchedStays DEF Roles!Ids, Deleting
<1>3. /\ DOMAIN c = {"at", "ids"} /\ c["at"] = at /\ at \in {"sift", "exec"} /\ at \in Roles!Labels
      /\ c["ids"] \in SUBSET Invites
  BY DEF Roles!Labels, AccessInv, AccessTypes
<1>4. n.at = at /\ n.call = j.call /\ n.late = j.late
  <2> HIDE DEF c, at
  <2> QED
    BY <1>1, <1>3, OverIsJob DEF Fields
<1>5. Roles!Put(r, c)
  BY DEF Roles!Ids
<1> HIDE DEF c, n, at
<1>6. InHand(n) /\ n.at # "card" /\ ~Deleting(n) /\ ~Inviting(n) /\ ~Holds(n)
  BY <1>1, <1>3, <1>4 DEF InHand, Holds, Deleting, Inviting
<1> QED
  BY <1>1, <1>2, <1>3, <1>5, <1>6, GoesOn DEF Fields, n, Untouched

LEMMA SiftKeeps ==
  ASSUME AccessInv, NEW r \in Requests, Roles!Sift(r)
  PROVE  AccessInv'
<1> DEFINE j == job[r]
           i == CHOOSE x \in j.ids : TRUE
           c == [ids |-> j.ids \ {i}]
           d == [at |-> "srem"]
<1>1. j.at = "sift" /\ j \in Roles!Job /\ InHand(j)
  BY Somewhere DEF Roles!Sift, Roles!At, AccessInv
<1>2. /\ Untouched /\ UNCHANGED inviteSet
      /\ calls' \in 0..MaxCalls /\ faults' \in 0..MaxFaults /\ incidents' \subseteq Roles!Incidents
      /\ ~Deleting(j)
  BY <1>1, UntouchedStays DEF Roles!Sift, Deleting
<1>3. CASE Roles!End(r)
  BY <1>1, <1>2, <1>3, Ends DEF Untouched
<1>4. CASE Roles!Put(r, c)
  <2> DEFINE n == Over(j, c)
  <2>1. DOMAIN c = {"ids"} /\ c["ids"] \in SUBSET Invites
    BY <1>1 DEF Roles!Job
  <2>2. n.at = "sift" /\ n.call = j.call /\ n.late = j.late
    <3> HIDE DEF c, i
    <3> QED
      BY <1>1, <2>1, OverIsJob DEF Fields
  <2> HIDE DEF c, n, i
  <2>3. InHand(n) /\ n.at # "card" /\ ~Deleting(n) /\ ~Inviting(n) /\ ~Holds(n)
    BY <1>1, <2>2 DEF InHand, Holds, Deleting, Inviting
  <2> QED
    BY <1>1, <1>2, <1>4, <2>1, <2>3, GoesOn DEF Fields, n, Untouched
<1>5. CASE Roles!Put(r, d)
  <2> DEFINE n == Over(j, d)
  <2>1. DOMAIN d = {"at"} /\ d["at"] = "srem" /\ "srem" \in Roles!Labels
    BY DEF Roles!Labels
  <2>2. n.at = "srem" /\ n.call = j.call /\ n.late = j.late
    BY <1>1, <2>1, OverIsJob DEF Fields
  <2> HIDE DEF d, n
  <2>3. InHand(n) /\ n.at # "card" /\ ~Deleting(n) /\ ~Inviting(n) /\ ~Holds(n)
    BY <1>1, <2>2 DEF InHand, Holds, Deleting, Inviting
  <2> QED
    BY <1>1, <1>2, <1>5, <2>1, <2>3, GoesOn DEF Fields, n, Untouched
<1> QED
  BY <1>3, <1>4, <1>5 DEF Roles!Sift, Roles!Goto

LEMMA SremKeeps ==
  ASSUME AccessInv, NEW r \in Requests, Roles!Srem(r)
  PROVE  AccessInv'
<1> DEFINE j == job[r]
           i == CHOOSE x \in j.ids : TRUE
           c == [at |-> "sift", ids |-> j.ids \ {i}]
           n == Over(j, c)
<1>1. j.at = "srem" /\ j \in Roles!Job /\ InHand(j)
  BY Somewhere DEF Roles!Srem, Roles!At, AccessInv
<1>2. Untouched /\ inviteSet' \subseteq inviteSet /\ ~Deleting(j)
  BY <1>1 DEF Roles!Srem, Deleting, Untouched, Roles!Stay, Roles!ghosts
<1>3. /\ DOMAIN c = {"at", "ids"} /\ c["at"] = "sift" /\ "sift" \in Roles!Labels
      /\ c["ids"] \in SUBSET Invites
  BY <1>1 DEF Roles!Labels, Roles!Job
<1>4. Roles!Put(r, c)
  BY DEF Roles!Srem
<1>5. n.at = "sift" /\ n.call = j.call /\ n.late = j.late
  <2> HIDE DEF c, i
  <2> QED
    BY <1>1, <1>3, OverIsJob DEF Fields
<1> HIDE DEF c, n, i
<1>6. InHand(n) /\ n.at # "card" /\ ~Deleting(n) /\ ~Inviting(n) /\ ~Holds(n)
  BY <1>1, <1>5 DEF InHand, Holds, Deleting, Inviting
<1> QED
  BY <1>1, <1>2, <1>3, <1>4, <1>6, GoesOn DEF Fields, n, Untouched

LEMMA CleanKeeps ==
  ASSUME AccessInv, NEW r \in Requests, Roles!Clean(r)
  PROVE  AccessInv'
<1> DEFINE j == job[r]
           c == [at |-> "ids", seen |-> record]
           n == Over(j, c)
<1>1. j.at = "clean" /\ j \in Roles!Job /\ InHand(j)
  BY Somewhere DEF Roles!Clean, Roles!At, AccessInv
<1>2. /\ Untouched /\ UNCHANGED inviteSet
      /\ calls' \in 0..MaxCalls /\ faults' \in 0..MaxFaults /\ incidents' \subseteq Roles!Incidents
      /\ ~Deleting(j)
  BY <1>1, UntouchedStays DEF Roles!Clean, Deleting
<1>3. CASE Roles!End(r)
  BY <1>1, <1>2, <1>3, Ends DEF Untouched
<1>4. CASE Roles!Put(r, c)
  <2>1. /\ DOMAIN c = {"at", "seen"} /\ c["at"] = "ids" /\ "ids" \in Roles!Labels
        /\ c["seen"] \in Roles!Record \cup {Roles!Gone}
    BY DEF Roles!Labels, AccessInv, AccessTypes
  <2>2. n.at = "ids" /\ n.call = j.call /\ n.late = j.late
    BY <1>1, <2>1, OverIsJob DEF Fields
  <2> HIDE DEF c, n
  <2>3. InHand(n) /\ n.at # "card" /\ ~Deleting(n) /\ ~Inviting(n) /\ ~Holds(n)
    BY <1>1, <2>2 DEF InHand, Holds, Deleting, Inviting
  <2> QED
    BY <1>1, <1>2, <1>4, <2>1, <2>3, GoesOn DEF Fields, n, Untouched
<1> QED
  BY <1>3, <1>4 DEF Roles!Clean

\* The record is not found when another deletion was there first.
LEMMA LoadKeeps ==
  ASSUME AccessInv, NEW r \in Requests, Roles!Load(r)
  PROVE  AccessInv'
<1> DEFINE j == job[r]
           c == [at |-> "drop"]
           n == Over(j, c)
<1>1. j.at = "load" /\ j \in Roles!Job /\ InHand(j)
  BY Somewhere DEF Roles!Load, Roles!At, AccessInv
<1>2. /\ Untouched /\ UNCHANGED inviteSet
      /\ calls' \in 0..MaxCalls /\ faults' \in 0..MaxFaults /\ incidents' \subseteq Roles!Incidents
  BY UntouchedStays DEF Roles!Load
<1>3. CASE Roles!End(r) /\ ~Roles!Exists(record)
  BY <1>3, <1>1, <1>2, Ends DEF AccessInv, RecordTrue, Untouched
<1>4. CASE Roles!Put(r, c)
  <2>1. DOMAIN c = {"at"} /\ c["at"] = "drop" /\ "drop" \in Roles!Labels
    BY DEF Roles!Labels
  <2>2. n.at = "drop" /\ n.call = j.call /\ n.late = j.late
    BY <1>1, <2>1, OverIsJob DEF Fields
  <2> HIDE DEF c, n
  <2>3. InHand(n) /\ n.at # "card" /\ Deleting(n) /\ Deleting(j) /\ ~Inviting(n) /\ ~Holds(n)
    BY <1>1, <2>2 DEF InHand, Holds, Deleting, Inviting
  <2> QED
    BY <1>1, <1>2, <1>4, <2>1, <2>3, GoesOn DEF Fields, n, Untouched
<1> QED
  BY <1>3, <1>4 DEF Roles!Load, Roles!Goto

LEMMA FailKeeps ==
  ASSUME AccessInv, NEW r \in Requests, Roles!Fail(r)
  PROVE  AccessInv'
  BY ControlAssumption, Ends DEF Roles!Fail, Roles!Mark, Roles!When, Roles!store, Roles!ghosts,
     Roles!Incidents, AccessInv, AccessTypes, Deleting

-----------------------------------------------------------------------------
(* Steps of Access that begin a request, and that write.                    *)

LEMMA BeginKeeps ==
  ASSUME AccessInv, NEW r \in Requests, Roles!Begin(r)
  PROVE  AccessInv'
<1>1. PICK c \in Roles!Call :
        /\ job[r] = Roles!Idle
        /\ calls < MaxCalls /\ calls' = calls + 1
        /\ IF c.op = "invite"
           THEN c.invite \notin issued /\ issued' = issued \cup {c.invite}
           ELSE UNCHANGED issued
        /\ job' = [job EXCEPT ![r] =
             [call |-> c, seen |-> Roles!Gone, base |-> Roles!Gone, card |-> Roles!NoCard, ids |-> {},
              late |-> c.op = "accept" /\ c.invite \in spent \cup withdrawn,
              at |-> CASE c.op = "accept" -> "card" [] c.op = "list" -> "ids" [] OTHER -> "read"]]
        /\ UNCHANGED <<Roles!store, intended, spent, misused, withdrawn, deleted, faults, incidents>>
  BY DEF Roles!Begin
<1> DEFINE at == CASE c.op = "accept" -> "card" [] c.op = "list" -> "ids" [] OTHER -> "read"
           late == c.op = "accept" /\ c.invite \in spent \cup withdrawn
           n == [call |-> c, seen |-> Roles!Gone, base |-> Roles!Gone, card |-> Roles!NoCard, ids |-> {},
                 late |-> late, at |-> at]
<1>2. /\ at \in {"card", "ids", "read"} /\ at \in Roles!Labels
      /\ at = "card" <=> c.op = "accept"
      /\ at = "ids" <=> c.op = "list"
  BY DEF Roles!Labels
<1>3. /\ n.call = c /\ n.at = at /\ n.late = late /\ n # Roles!Idle
      /\ n \in Roles!Job
  BY <1>2, IdleIsNone DEF Roles!Job
<1>4. Moved(r, n)
  BY <1>1, <1>3 DEF AccessInv, AccessTypes, Moved, Requested
<1>5. c.op = "invite" => c.invite \in Invites
  BY DEF Roles!Call
<1>6. job[r].at = "idle" /\ ~Deleting(job[r]) /\ ~Deleting(n)
  BY <1>1, <1>2, <1>3, IdleIsNone DEF Deleting
<1>a. UNCHANGED <<record, listed, invites, inviteSet, intended, spent, misused, withdrawn, deleted, incidents>>
  BY <1>1 DEF Roles!store
<1>b. calls' \in 0..MaxCalls /\ issued \subseteq issued' /\ issued' \subseteq Invites
  BY <1>1, <1>5, ControlAssumption DEF AccessInv, AccessTypes
<1> HIDE DEF n, at
<1>7. AccessTypes'
  BY <1>1, <1>4, <1>a, <1>b DEF AccessInv, AccessTypes, Moved
<1>8. InHand(n)
  BY <1>2, <1>3 DEF InHand, Holds
<1>9. Hands'
  BY <1>4, <1>8, HandsKept DEF AccessInv
<1>10. RecordTrue' /\ RolesKnown'
  BY <1>a, RecordKept DEF AccessInv
<1>11. ListsTrue'
  BY <1>4, <1>6, <1>a, ListsKept DEF AccessInv
<1>12. LateKnown'
  BY <1>3, <1>4, <1>a DEF AccessInv, LateKnown, Moved
<1>13. SpentStays'
  BY <1>a DEF AccessInv, SpentStays, Roles!Clear, Roles!Acceptable
<1>14. IdsApart'
  BY <1>2, <1>3, <1>4, <1>1, <1>a, <1>b DEF Holds, Inviting, Moved, AccessInv, IdsApart
<1>15. LeftEmpty'
  BY <1>4, <1>6, <1>a, EmptyKept DEF AccessInv
<1> QED
  BY <1>7, <1>9, <1>10, <1>11, <1>12, <1>13, <1>14, <1>15 DEF AccessInv

\* The record that Set writes
Written(j) ==
  [f \in {"roles", "members"} |->
     IF f \in DOMAIN Roles!Patch(j, j.seen) THEN Roles!Patch(j, j.seen)[f] ELSE j.base[f]]

Setting(j) == j \in Roles!Job /\ InHand(j) /\ j.at = "set"

LEMMA SettingHas ==
  ASSUME NEW j, Setting(j)
  PROVE  /\ j.call.op \in Patching /\ j.seen \in Roles!Record /\ j.base \in Roles!Record
         /\ Roles!Allowed(j.call, j.seen) /\ ~j.late
         /\ j.call.op = "accept" => j.card.user \in Users /\ j.card.role \in Roles!RoleKeys
         /\ j.call.op \in {"setRole", "remove"} => j.call.user \in Users
         /\ j.call.op = "setRole" => j.call.role \in Roles!RoleKeys
         /\ j.call.op \in {"saveRole", "dropRole"} => j.call.role \in Custom
         /\ j.call.op = "saveRole" => j.call.permissions \in SUBSET Roles!Permissions
  BY ControlAssumption DEF Setting, Roles!Job, InHand, Holds, Patching, Roles!Invitation, Roles!Call

\* Field by field, what is written and what is meant
LEMMA WrittenIs ==
  ASSUME NEW j, Setting(j)
  PROVE  /\ j.call.op = "accept" =>
              Written(j).members = Roles!With(j.seen.members, j.card.user, j.card.role)
         /\ j.call.op = "setRole" =>
              Written(j).members = Roles!With(j.seen.members, j.call.user, j.call.role)
         /\ j.call.op = "remove" =>
              Written(j).members = Roles!Drop(j.seen.members, {j.call.user})
         /\ j.call.op \notin {"accept", "setRole", "remove"} => Written(j).members = j.base.members
         /\ j.call.op = "saveRole" =>
              Written(j).roles = Roles!With(j.seen.roles, j.call.role, j.call.permissions)
         /\ j.call.op = "dropRole" =>
              Written(j).roles = Roles!Drop(j.seen.roles, {j.call.role})
         /\ j.call.op \notin {"saveRole", "dropRole"} => Written(j).roles = j.base.roles
         /\ Written(j) = [roles |-> Written(j).roles, members |-> Written(j).members]
<1>1. j.call.op \in Patching
  BY SettingHas
<1> DEFINE P == Roles!Patch(j, j.seen)
<1>2. CASE j.call.op = "accept"
  BY <1>2 DEF Roles!Patch, Written
<1>3. CASE j.call.op = "setRole"
  BY <1>3 DEF Roles!Patch, Written
<1>4. CASE j.call.op = "remove"
  BY <1>4 DEF Roles!Patch, Written
<1>5. CASE j.call.op = "saveRole"
  BY <1>5 DEF Roles!Patch, Written
<1>6. CASE j.call.op = "dropRole"
  BY <1>6 DEF Roles!Patch, Written
<1>7. CASE j.call.op = "rename"
  BY <1>7 DEF Roles!Patch, Written
<1> QED
  BY <1>1, <1>2, <1>3, <1>4, <1>5, <1>6, <1>7 DEF Patching

\* A change of a record's members or roles, of one that is typed
LEMMA ChangesTyped ==
  ASSUME NEW j, Setting(j), NEW p \in Roles!Record
  PROVE  /\ j.call.op = "accept" =>
              Roles!With(p.members, j.card.user, j.card.role) \in Roles!Partial(Users, Roles!RoleKeys)
         /\ j.call.op = "setRole" =>
              Roles!With(p.members, j.call.user, j.call.role) \in Roles!Partial(Users, Roles!RoleKeys)
         /\ Roles!Drop(p.members, {j.call.user}) \in Roles!Partial(Users, Roles!RoleKeys)
         /\ p.members \in Roles!Partial(Users, Roles!RoleKeys)
         /\ j.call.op = "saveRole" =>
              Roles!With(p.roles, j.call.role, j.call.permissions)
                \in Roles!Partial(Custom, SUBSET Roles!Permissions)
         /\ Roles!Drop(p.roles, {j.call.role}) \in Roles!Partial(Custom, SUBSET Roles!Permissions)
         /\ p.roles \in Roles!Partial(Custom, SUBSET Roles!Permissions)
  BY SettingHas, WithIsPartial, DropIsPartial DEF Roles!Record

LEMMA WrittenIsRecord ==
  ASSUME NEW j, Setting(j)
  PROVE  Written(j) \in Roles!Record
<1>1. j.seen \in Roles!Record /\ j.base \in Roles!Record
  BY SettingHas
<1>2. Written(j).members \in Roles!Partial(Users, Roles!RoleKeys)
  BY <1>1, ChangesTyped, WrittenIs
<1>3. Written(j).roles \in Roles!Partial(Custom, SUBSET Roles!Permissions)
  BY <1>1, ChangesTyped, WrittenIs
<1>4. Written(j) = [roles |-> Written(j).roles, members |-> Written(j).members]
  BY WrittenIs
<1> QED
  BY <1>2, <1>3, <1>4 DEF Roles!Record

\* The record that Set means
MeantBy(j, p) == Roles!Meant(j.call, j.card, p)

LEMMA MeantIs ==
  ASSUME NEW j, Setting(j), NEW p \in Roles!Record
  PROVE  /\ j.call.op = "accept" =>
              MeantBy(j, p).members = Roles!With(p.members, j.card.user, j.card.role)
         /\ j.call.op = "setRole" =>
              MeantBy(j, p).members = [u \in DOMAIN p.members |->
                                         IF u = j.call.user THEN j.call.role ELSE p.members[u]]
         /\ j.call.op = "remove" => MeantBy(j, p).members = Roles!Drop(p.members, {j.call.user})
         /\ j.call.op \notin {"accept", "setRole", "remove"} => MeantBy(j, p).members = p.members
         /\ j.call.op = "saveRole" =>
              MeantBy(j, p).roles = Roles!With(p.roles, j.call.role, j.call.permissions)
         /\ j.call.op = "dropRole" => MeantBy(j, p).roles = Roles!Drop(p.roles, {j.call.role})
         /\ j.call.op \notin {"saveRole", "dropRole"} => MeantBy(j, p).roles = p.roles
         /\ MeantBy(j, p) = [roles |-> MeantBy(j, p).roles, members |-> MeantBy(j, p).members]
<1>1. j.call.op \in Patching
  BY SettingHas
<1>2. p = [roles |-> p.roles, members |-> p.members]
  BY DEF Roles!Record
<1> DEFINE q == MeantBy(j, p)
<1>3. CASE j.call.op = "accept"
  BY <1>2, <1>3 DEF Roles!Meant, MeantBy
<1>4. CASE j.call.op = "setRole"
  BY <1>2, <1>4 DEF Roles!Meant, MeantBy
<1>5. CASE j.call.op = "remove"
  BY <1>2, <1>5 DEF Roles!Meant, MeantBy
<1>6. CASE j.call.op = "saveRole"
  BY <1>2, <1>6 DEF Roles!Meant, MeantBy
<1>7. CASE j.call.op = "dropRole"
  BY <1>2, <1>7 DEF Roles!Meant, MeantBy
<1>8. CASE j.call.op = "rename"
  BY <1>8, <1>2 DEF Roles!Meant, MeantBy
<1> QED
  BY <1>1, <1>3, <1>4, <1>5, <1>6, <1>7, <1>8 DEF Patching

LEMMA MeantIsRecord ==
  ASSUME NEW j, Setting(j), NEW p \in Roles!Record
  PROVE  MeantBy(j, p) \in Roles!Record
<1> DEFINE q == MeantBy(j, p)
<1>1. /\ p.members \in Roles!Partial(Users, Roles!RoleKeys)
      /\ p.roles \in Roles!Partial(Custom, SUBSET Roles!Permissions)
  BY DEF Roles!Record
<1>a. /\ j.call.op = "accept" =>
           MeantBy(j, p).members = Roles!With(p.members, j.card.user, j.card.role)
      /\ j.call.op = "setRole" =>
           MeantBy(j, p).members = [u \in DOMAIN p.members |->
                                      IF u = j.call.user THEN j.call.role ELSE p.members[u]]
      /\ j.call.op = "remove" => MeantBy(j, p).members = Roles!Drop(p.members, {j.call.user})
      /\ j.call.op \notin {"accept", "setRole", "remove"} => MeantBy(j, p).members = p.members
      /\ j.call.op = "saveRole" =>
           MeantBy(j, p).roles = Roles!With(p.roles, j.call.role, j.call.permissions)
      /\ j.call.op = "dropRole" => MeantBy(j, p).roles = Roles!Drop(p.roles, {j.call.role})
      /\ j.call.op \notin {"saveRole", "dropRole"} => MeantBy(j, p).roles = p.roles
      /\ MeantBy(j, p) = [roles |-> MeantBy(j, p).roles, members |-> MeantBy(j, p).members]
  BY MeantIs
<1>b. /\ j.call.op = "accept" =>
           Roles!With(p.members, j.card.user, j.card.role) \in Roles!Partial(Users, Roles!RoleKeys)
      /\ j.call.op = "setRole" =>
           Roles!With(p.members, j.call.user, j.call.role) \in Roles!Partial(Users, Roles!RoleKeys)
      /\ Roles!Drop(p.members, {j.call.user}) \in Roles!Partial(Users, Roles!RoleKeys)
      /\ p.members \in Roles!Partial(Users, Roles!RoleKeys)
      /\ j.call.op = "saveRole" =>
           Roles!With(p.roles, j.call.role, j.call.permissions)
             \in Roles!Partial(Custom, SUBSET Roles!Permissions)
      /\ Roles!Drop(p.roles, {j.call.role}) \in Roles!Partial(Custom, SUBSET Roles!Permissions)
      /\ p.roles \in Roles!Partial(Custom, SUBSET Roles!Permissions)
  BY ChangesTyped
<1> HIDE DEF q
<1>2. q.members \in Roles!Partial(Users, Roles!RoleKeys)
  <2>1. CASE j.call.op = "setRole"
    <3> DEFINE m == [u \in DOMAIN p.members |-> IF u = j.call.user THEN j.call.role ELSE p.members[u]]
    <3>1. p.members \in [DOMAIN p.members -> Roles!RoleKeys] /\ DOMAIN p.members \subseteq Users
      BY <1>1, PartialIs
    <3>2. m \in [DOMAIN p.members -> Roles!RoleKeys]
      BY <2>1, <3>1, SettingHas
    <3>3. q.members = m
      BY <1>a, <2>1 DEF q
    <3> QED
      BY <3>1, <3>2, <3>3, PartialIs
  <2>2. CASE j.call.op = "accept"
    BY <2>2, <1>a, <1>b DEF q
  <2>3. CASE j.call.op = "remove"
    BY <2>3, <1>a, <1>b DEF q
  <2>4. CASE j.call.op \notin {"accept", "setRole", "remove"}
    BY <2>4, <1>a, <1>b DEF q
  <2> QED
    BY <2>1, <2>2, <2>3, <2>4
<1>3. q.roles \in Roles!Partial(Custom, SUBSET Roles!Permissions)
  BY <1>a, <1>b DEF q
<1>4. q = [roles |-> q.roles, members |-> q.members]
  BY <1>a DEF q
<1> QED
  BY <1>2, <1>3, <1>4 DEF Roles!Record, q

\* On a copy that is as the record is, what is written is what is meant.
LEMMA WrittenAsMeant ==
  ASSUME NEW j, Setting(j), j.seen = j.base
  PROVE  Written(j) = MeantBy(j, j.base)
<1> DEFINE q == MeantBy(j, j.base)
<1>a. j.base \in Roles!Record
  BY SettingHas
<1>b. /\ j.call.op = "accept" =>
           MeantBy(j, j.base).members = Roles!With(j.base.members, j.card.user, j.card.role)
      /\ j.call.op = "setRole" =>
           MeantBy(j, j.base).members = [u \in DOMAIN j.base.members |->
                                      IF u = j.call.user THEN j.call.role ELSE j.base.members[u]]
      /\ j.call.op = "remove" => MeantBy(j, j.base).members = Roles!Drop(j.base.members, {j.call.user})
      /\ j.call.op \notin {"accept", "setRole", "remove"} => MeantBy(j, j.base).members = j.base.members
      /\ j.call.op = "saveRole" =>
           MeantBy(j, j.base).roles = Roles!With(j.base.roles, j.call.role, j.call.permissions)
      /\ j.call.op = "dropRole" => MeantBy(j, j.base).roles = Roles!Drop(j.base.roles, {j.call.role})
      /\ j.call.op \notin {"saveRole", "dropRole"} => MeantBy(j, j.base).roles = j.base.roles
      /\ MeantBy(j, j.base) = [roles |-> MeantBy(j, j.base).roles, members |-> MeantBy(j, j.base).members]
  BY <1>a, MeantIs
<1>c. /\ j.call.op = "accept" =>
           Written(j).members = Roles!With(j.seen.members, j.card.user, j.card.role)
      /\ j.call.op = "setRole" =>
           Written(j).members = Roles!With(j.seen.members, j.call.user, j.call.role)
      /\ j.call.op = "remove" =>
           Written(j).members = Roles!Drop(j.seen.members, {j.call.user})
      /\ j.call.op \notin {"accept", "setRole", "remove"} => Written(j).members = j.base.members
      /\ j.call.op = "saveRole" =>
           Written(j).roles = Roles!With(j.seen.roles, j.call.role, j.call.permissions)
      /\ j.call.op = "dropRole" =>
           Written(j).roles = Roles!Drop(j.seen.roles, {j.call.role})
      /\ j.call.op \notin {"saveRole", "dropRole"} => Written(j).roles = j.base.roles
      /\ Written(j) = [roles |-> Written(j).roles, members |-> Written(j).members]
  BY WrittenIs
<1> HIDE DEF q
<1>1. Written(j).members = q.members
  <2>1. CASE j.call.op = "setRole"
    <3>1. j.call.user \in DOMAIN j.seen.members
      BY <2>1, SettingHas DEF Roles!Allowed
    <3>2. Roles!With(j.seen.members, j.call.user, j.call.role)
            = [u \in DOMAIN j.base.members |-> IF u = j.call.user THEN j.call.role ELSE j.base.members[u]]
      BY <3>1 DEF Roles!With
    <3> QED
      BY <1>b, <1>c, <2>1, <3>2 DEF q
  <2>2. CASE j.call.op = "accept"
    BY <1>b, <1>c, <2>2 DEF q
  <2>3. CASE j.call.op = "remove"
    BY <1>b, <1>c, <2>3 DEF q
  <2>4. CASE j.call.op \notin {"accept", "setRole", "remove"}
    BY <1>b, <1>c, <2>4 DEF q
  <2> QED
    BY <2>1, <2>2, <2>3, <2>4
<1>2. Written(j).roles = q.roles
  BY <1>b, <1>c DEF q
<1>3. q = [roles |-> q.roles, members |-> q.members]
  BY <1>b DEF q
<1> QED
  BY <1>1, <1>2, <1>3, <1>c DEF q

\* Whose role is there on the copy has one that is there when it is written.
LEMMA WrittenKnown ==
  ASSUME NEW j, Setting(j), j.seen = j.base,
         \A u \in DOMAIN j.seen.members : Roles!Known(j.seen, j.seen.members[u]),
         j.call.op = "accept" => Roles!Known(Written(j), j.card.role)
  PROVE  \A u \in DOMAIN Written(j).members : Roles!Known(Written(j), Written(j).members[u])
<1>1. j.call.op \in Patching /\ Roles!Allowed(j.call, j.seen)
  BY SettingHas
<1>2. CASE j.call.op \in {"accept", "setRole", "remove", "rename"}
  <2>1. Written(j).roles = j.seen.roles
    BY <1>2, WrittenIs
  <2>2. CASE j.call.op = "accept"
    <3>1. Written(j).members = Roles!With(j.seen.members, j.card.user, j.card.role)
      BY <2>2, WrittenIs
    <3> QED
      BY <2>1, <2>2, <3>1 DEF Roles!With, Roles!Known
  <2>3. CASE j.call.op = "setRole"
    <3>1. Written(j).members = Roles!With(j.seen.members, j.call.user, j.call.role)
      BY <2>3, WrittenIs
    <3>2. Roles!Known(j.seen, j.call.role)
      BY <1>1, <2>3 DEF Roles!Allowed
    <3> QED
      BY <2>1, <3>1, <3>2 DEF Roles!With, Roles!Known
  <2>4. CASE j.call.op = "remove"
    <3>1. Written(j).members = Roles!Drop(j.seen.members, {j.call.user})
      BY <2>4, WrittenIs
    <3> QED
      BY <2>1, <3>1 DEF Roles!Drop, Roles!Known
  <2>5. CASE j.call.op = "rename"
    BY <2>5, WrittenIs, <2>1 DEF Roles!Known
  <2> QED
    BY <1>2, <2>2, <2>3, <2>4, <2>5
<1>3. CASE j.call.op = "saveRole"
  <2>1. /\ Written(j).members = j.seen.members
        /\ Written(j).roles = Roles!With(j.seen.roles, j.call.role, j.call.permissions)
    BY <1>3, WrittenIs
  <2>2. DOMAIN j.seen.roles \subseteq DOMAIN Written(j).roles
    BY <2>1 DEF Roles!With
  <2> QED
    BY <2>1, <2>2 DEF Roles!Known
<1>4. CASE j.call.op = "dropRole"
  <2>1. /\ Written(j).members = j.seen.members
        /\ Written(j).roles = Roles!Drop(j.seen.roles, {j.call.role})
    BY <1>4, WrittenIs
  <2>2. \A u \in DOMAIN j.seen.members : j.seen.members[u] # j.call.role
    BY <1>1, <1>4 DEF Roles!Allowed, Roles!InUse
  <2>3. DOMAIN Written(j).roles = DOMAIN j.seen.roles \ {j.call.role}
    BY <2>1 DEF Roles!Drop
  <2> QED
    BY <2>1, <2>2, <2>3 DEF Roles!Known
<1> QED
  BY <1>1, <1>2, <1>3, <1>4 DEF Patching

\* What a step of Set does, field by field
LEMMA SetDoes ==
  ASSUME AccessInv, NEW r \in Requests, Roles!Set(r)
  PROVE  /\ Setting(job[r])
         /\ record' = Written(job[r]) /\ intended' = MeantBy(job[r], intended)
         /\ incidents \subseteq incidents' /\ incidents' \subseteq Roles!Incidents
         /\ "stale" \notin incidents' => job[r].seen = record /\ job[r].base = record
         /\ "revived" \notin incidents' => Roles!Exists(record)
         /\ "unvalidated" \notin incidents' /\ job[r].call.op = "accept" =>
              Roles!Known(record', job[r].card.role)
         /\ UNCHANGED <<listed, invites, inviteSet, spent, misused, withdrawn, deleted, issued,
                        calls, faults>>
<1>1. Setting(job[r])
  BY Somewhere DEF Roles!Set, Roles!At, AccessInv, Setting
<1>2. ~job[r].late
  BY <1>1 DEF Setting, InHand
<1>3. record' = Written(job[r]) /\ intended' = MeantBy(job[r], intended)
  BY DEF Roles!Set, Written, MeantBy
<1> DEFINE crossed == {p \in {job[r].seen, job[r].base} : p # record}
<1>4. incidents' = incidents
        \cup (Roles!When(crossed # {}, "stale") \cup Roles!When(record = Roles!Gone, "revived")
        \cup Roles!When(job[r].call.op = "accept" /\ ~Roles!Known(record', job[r].card.role),
                        "unvalidated"))
  BY DEF Roles!Set, Roles!Mark
<1>5. incidents \subseteq incidents' /\ incidents' \subseteq Roles!Incidents
  BY <1>4 DEF Roles!When, Roles!Incidents, AccessInv, AccessTypes
<1>6. "stale" \notin incidents' => crossed = {}
  <2> HIDE DEF crossed
  <2> QED
    BY <1>4 DEF Roles!When
<1>7. crossed = {} => job[r].seen = record /\ job[r].base = record
  OBVIOUS
<1>8. "revived" \notin incidents' => Roles!Exists(record)
  <2> HIDE DEF crossed
  <2> QED
    BY <1>4 DEF Roles!When, Roles!Exists
<1>9. "unvalidated" \notin incidents' /\ job[r].call.op = "accept" =>
        Roles!Known(record', job[r].card.role)
  <2> HIDE DEF crossed
  <2> QED
    BY <1>4 DEF Roles!When
<1>10. UNCHANGED <<listed, invites, inviteSet, spent, misused, withdrawn, deleted, issued, calls, faults>>
  BY <1>2 DEF Roles!Set, Roles!Stay
<1> HIDE DEF crossed
<1> QED
  BY <1>1, <1>3, <1>5, <1>6, <1>7, <1>8, <1>9, <1>10

\* Where the request is after it: on the way to the member's list, or done
LEMMA SetGoes ==
  ASSUME AccessInv, NEW r \in Requests, Roles!Set(r)
  PROVE  \E n \in Requested :
           /\ Moved(r, n)
           /\ job[r].call.op = "accept" => n.at = "enlist"
           /\ job[r].call.op = "remove" => n.at = "unlist"
           /\ n.at \in {"idle", "enlist", "unlist"}
           /\ n # Roles!Idle =>
                n.call = job[r].call /\ n.card = job[r].card /\ n.late = job[r].late /\ InHand(n)
<1> DEFINE j == job[r]
           at == Roles!AfterSet(j.call.op)
           c == [at |-> at, seen |-> Roles!Gone, base |-> Roles!Gone]
           n == Over(j, c)
<1>1. Setting(j) /\ j \in Roles!Job /\ InHand(j) /\ j.at = "set"
  BY SetDoes DEF Setting
<1>2. /\ at = "enlist" <=> j.call.op = "accept"
      /\ at = "unlist" <=> j.call.op = "remove"
      /\ at \in {"enlist", "unlist", "done"}
  BY DEF Roles!AfterSet
<1>3. CASE at = "done"
  BY <1>3, <1>2, EndMoves, IdleIsNone DEF Roles!Set, AccessInv, Requested
<1>4. CASE at # "done"
  <2>1. Roles!Put(r, c)
    BY <1>4 DEF Roles!Set
  <2>2. /\ DOMAIN c = {"at", "seen", "base"} /\ c["at"] = at /\ at \in Roles!Labels
        /\ c["seen"] = Roles!Gone /\ c["base"] = Roles!Gone
    BY <1>2, <1>4 DEF Roles!Labels
  <2>3. /\ n \in Roles!Job /\ n.at = at /\ n.call = j.call /\ n.card = j.card /\ n.late = j.late
    <3> HIDE DEF c, at
    <3> QED
      BY <1>1, <2>2, OverIsJob DEF Fields
  <2>4. Moved(r, n)
    BY <2>1, <2>3, PutMoves DEF AccessInv
  <2> HIDE DEF n, c, at
  <2>5. InHand(n)
    BY <1>1, <1>2, <1>4, <2>3 DEF InHand, Holds
  <2> QED
    BY <1>2, <1>4, <2>3, <2>4, <2>5 DEF Requested
<1> QED
  BY <1>3, <1>4

LEMMA SetKeeps ==
  ASSUME AccessInv, NEW r \in Requests, Roles!Set(r)
  PROVE  AccessInv'
<1> DEFINE j == job[r]
<1>1. PICK n \in Requested :
           /\ Moved(r, n)
           /\ j.call.op = "accept" => n.at = "enlist"
           /\ j.call.op = "remove" => n.at = "unlist"
           /\ n.at \in {"idle", "enlist", "unlist"}
           /\ n # Roles!Idle => n.call = j.call /\ n.card = j.card /\ n.late = j.late /\ InHand(n)
  BY SetGoes
<1>2. /\ Setting(j) /\ record' = Written(j) /\ intended' = MeantBy(j, intended)
      /\ incidents \subseteq incidents' /\ incidents' \subseteq Roles!Incidents
      /\ "stale" \notin incidents' => j.seen = record /\ j.base = record
      /\ "revived" \notin incidents' => Roles!Exists(record)
      /\ "unvalidated" \notin incidents' /\ j.call.op = "accept" => Roles!Known(record', j.card.role)
      /\ UNCHANGED <<listed, invites, inviteSet, spent, misused, withdrawn, deleted, issued,
                     calls, faults>>
  BY SetDoes
<1>3. /\ j \in Roles!Job /\ InHand(j) /\ j.at = "set" /\ ~j.late /\ j.call.op \in Patching
      /\ j.seen \in Roles!Record /\ j.base \in Roles!Record
      /\ j.call.op = "accept" => j.card.user \in Users
      /\ j.call.op \in {"setRole", "remove"} => j.call.user \in Users
  BY <1>2, SettingHas DEF Setting
<1>4. record' \in Roles!Record /\ intended' \in Roles!Record /\ Roles!Exists(record')
  BY <1>2, WrittenIsRecord, MeantIsRecord, GoneIsNoRecord DEF AccessInv, AccessTypes, Roles!Exists
<1>5. Roles!Clear({"stale"})' =>
        /\ j.seen = record /\ j.base = record /\ Roles!Clear({"stale"}) /\ record # Roles!Gone
        /\ ~deleted /\ record = intended
  BY <1>2, <1>3, GoneIsNoRecord DEF Roles!Clear, AccessInv, RecordTrue
<1>6. AccessTypes'
  BY <1>1, <1>2, <1>4 DEF AccessInv, AccessTypes, Moved
<1>7. Hands'
  BY <1>1, HandsKept DEF AccessInv
<1>8. RecordTrue'
  BY <1>2, <1>5, WrittenAsMeant, <1>4 DEF RecordTrue
<1>9. RolesKnown'
  BY <1>2, <1>5, WrittenKnown DEF Roles!Clear, Roles!Exists, AccessInv, RolesKnown, Roles!Known
<1>10. ListsTrue'
  <2> SUFFICES ASSUME (~deleted /\ Roles!Clear({"stale", "crossed", "cut"})
                        /\ (\A q \in Requests : ~Deleting(job[q])))',
                      NEW u \in Users
               PROVE  /\ u \in DOMAIN record'.members /\ u \notin listed' =>
                           \E q \in Requests : job'[q].at = "enlist" /\ job'[q].card.user = u
                      /\ u \notin DOMAIN record'.members /\ u \in listed' =>
                           \E q \in Requests : job'[q].at = "unlist" /\ job'[q].call.user = u
    BY DEF ListsTrue
  <2>1. Roles!Clear({"stale"})' /\ Roles!Clear({"stale", "crossed", "cut"}) /\ ~deleted
    BY <1>2 DEF Roles!Clear
  <2>2. \A q \in Requests : ~Deleting(job[q])
    BY <1>1, <1>3 DEF Moved, Deleting
  <2>3. /\ u \in DOMAIN record.members /\ u \notin listed =>
             \E q \in Requests : job[q].at = "enlist" /\ job[q].card.user = u
        /\ u \notin DOMAIN record.members /\ u \in listed =>
             \E q \in Requests : job[q].at = "unlist" /\ job[q].call.user = u
    BY <2>1, <2>2 DEF AccessInv, ListsTrue
  <2>4. /\ \A q \in Requests : job[q].at \in {"enlist", "unlist"} => job'[q] = job[q]
        /\ job'[r] = n
    BY <1>1, <1>3 DEF Moved
  <2>5. j.seen = record /\ j.base = record
    BY <1>5, <2>1
  <2>6. CASE j.call.op = "accept"
    <3>a. record'.members = Roles!With(record.members, j.card.user, j.card.role)
      BY <1>2, <2>5, <2>6, WrittenIs
    <3>1. DOMAIN record'.members = DOMAIN record.members \cup {j.card.user}
      BY <3>a DEF Roles!With
    <3>2. n.at = "enlist" /\ n.card = j.card
      BY <1>1, <2>6, IdleIsNone
    <3> QED
      BY <1>2, <2>3, <2>4, <3>1, <3>2
  <2>7. CASE j.call.op = "remove"
    <3>1. DOMAIN record'.members = DOMAIN record.members \ {j.call.user}
      BY <1>2, <2>5, <2>7, WrittenIs DEF Roles!Drop
    <3>2. n.at = "unlist" /\ n.call = j.call
      BY <1>1, <2>7, IdleIsNone
    <3> QED
      BY <1>2, <2>3, <2>4, <3>1, <3>2
  <2>8. CASE j.call.op = "setRole"
    <3>1. j.call.user \in DOMAIN record.members
      BY <1>2, <2>5, <2>8 DEF Setting, InHand, Roles!Allowed
    <3>a. record'.members = Roles!With(record.members, j.call.user, j.call.role)
      BY <1>2, <2>5, <2>8, WrittenIs
    <3>2. DOMAIN record'.members = DOMAIN record.members
      BY <3>a, <3>1 DEF Roles!With
    <3> QED
      BY <1>2, <2>3, <2>4, <3>2
  <2>9. CASE j.call.op \notin {"accept", "setRole", "remove"}
    BY <1>2, <2>5, <2>9, WrittenIs, <2>3, <2>4
  <2> QED
    BY <2>6, <2>7, <2>8, <2>9
<1>11. n # Roles!Idle => ~n.late
  BY <1>1, <1>3
<1>12. LateKnown'
  BY <1>1, <1>2, <1>11, LateKept DEF AccessInv
<1>13. ~Inviting(n) /\ (Holds(n) => Holds(j) /\ n.call = j.call)
  BY <1>1, <1>3, IdleIsNone DEF Inviting, Holds
<1>14. IdsApart' /\ SpentStays'
  BY <1>1, <1>2, <1>13, InvitesKept DEF AccessInv
<1>15. LeftEmpty'
  BY <1>2, <1>1, <1>3 DEF Roles!Clear, Moved, Deleting, AccessInv, LeftEmpty, Roles!Exists
<1> QED
  BY <1>6, <1>7, <1>8, <1>9, <1>10, <1>12, <1>14, <1>15 DEF AccessInv

LEMMA EnlistKeeps ==
  ASSUME AccessInv, NEW r \in Requests, Roles!Enlist(r)
  PROVE  AccessInv'
<1> DEFINE j == job[r]
           c == [at |-> "mark"]
           n == Over(j, c)
<1>1. j.at = "enlist" /\ j \in Roles!Job /\ InHand(j) /\ j.call.op = "accept" /\ j.card.user \in Users
  BY Somewhere DEF Roles!Enlist, Roles!At, AccessInv, InHand, Holds, Roles!Invitation
<1>2. /\ listed' = listed \cup {j.card.user}
      /\ UNCHANGED <<record, invites, inviteSet, intended, spent, misused, withdrawn, deleted, issued,
                     calls, faults>>
      /\ incidents' = incidents \cup (Roles!When(~Roles!Member(j.card.user), "crossed")
                        \cup Roles!When(Roles!Swept, "revived"))
  BY DEF Roles!Enlist, Roles!ghosts, Roles!Stay, Roles!Mark
<1>3. Roles!Put(r, c)
  BY DEF Roles!Enlist, Roles!Goto
<1>4. DOMAIN c = {"at"} /\ c["at"] = "mark" /\ "mark" \in Roles!Labels
  BY DEF Roles!Labels
<1>5. n \in Roles!Job /\ n.at = "mark" /\ n.call = j.call /\ n.card = j.card /\ n.late = j.late
  BY <1>1, <1>4, OverIsJob DEF Fields
<1>6. Moved(r, n)
  BY <1>3, <1>5, PutMoves DEF AccessInv
<1>7. incidents \subseteq incidents' /\ incidents' \subseteq Roles!Incidents
  BY <1>2 DEF Roles!When, Roles!Incidents, AccessInv, AccessTypes
<1>a. "crossed" \notin incidents' => Roles!Member(j.card.user)
  BY <1>2 DEF Roles!When
<1>b. "revived" \notin incidents' => ~Roles!Swept
  BY <1>2 DEF Roles!When
<1> HIDE DEF n, c
<1>8. InHand(n) /\ ~Inviting(n) /\ Holds(n) /\ Holds(j) /\ ~Deleting(n) /\ ~n.late
  BY <1>1, <1>5 DEF InHand, Holds, Inviting, Deleting
<1>9. AccessTypes'
  BY <1>1, <1>2, <1>6, <1>7 DEF AccessInv, AccessTypes, Moved
<1>10. Hands'
  BY <1>6, <1>8, HandsKept DEF AccessInv
<1>11. RecordTrue' /\ RolesKnown'
  BY <1>2, <1>7, RecordKept DEF AccessInv
<1>12. ListsTrue'
  <2> SUFFICES ASSUME (~deleted /\ Roles!Clear({"stale", "crossed", "cut"})
                        /\ (\A q \in Requests : ~Deleting(job[q])))',
                      NEW u \in Users
               PROVE  /\ u \in DOMAIN record'.members /\ u \notin listed' =>
                           \E q \in Requests : job'[q].at = "enlist" /\ job'[q].card.user = u
                      /\ u \notin DOMAIN record'.members /\ u \in listed' =>
                           \E q \in Requests : job'[q].at = "unlist" /\ job'[q].call.user = u
    BY DEF ListsTrue
  <2>1. Roles!Clear({"stale", "crossed", "cut"}) /\ ~deleted /\ "crossed" \notin incidents'
    BY <1>2, <1>7 DEF Roles!Clear
  <2>2. \A q \in Requests : ~Deleting(job[q])
    BY <1>1, <1>6 DEF Moved, Deleting
  <2>3. /\ u \in DOMAIN record.members /\ u \notin listed =>
             \E q \in Requests : job[q].at = "enlist" /\ job[q].card.user = u
        /\ u \notin DOMAIN record.members /\ u \in listed =>
             \E q \in Requests : job[q].at = "unlist" /\ job[q].call.user = u
    BY <2>1, <2>2 DEF AccessInv, ListsTrue
  <2>4. \A q \in Requests \ {r} : job'[q] = job[q]
    BY <1>6 DEF Moved
  <2>5. j.card.user \in DOMAIN record.members
    BY <1>a, <2>1 DEF Roles!Member
  <2> QED
    BY <1>1, <1>2, <2>3, <2>4, <2>5
<1>13. LateKnown'
  BY <1>2, <1>6, <1>8, LateKept DEF AccessInv
<1>14. IdsApart' /\ SpentStays'
  BY <1>2, <1>5, <1>6, <1>7, <1>8, InvitesKept DEF AccessInv
<1>15. LeftEmpty'
  BY <1>7, <1>b, <1>2, <1>6, <1>8 DEF Roles!Clear, Roles!Swept, Deleting, Moved, LeftEmpty
<1> QED
  BY <1>9, <1>10, <1>11, <1>12, <1>13, <1>14, <1>15 DEF AccessInv

LEMMA UnlistKeeps ==
  ASSUME AccessInv, NEW r \in Requests, Roles!Unlist(r)
  PROVE  AccessInv'
<1> DEFINE j == job[r]
<1>1. j.at = "unlist" /\ j \in Roles!Job /\ InHand(j)
  BY Somewhere DEF Roles!Unlist, Roles!At, AccessInv
<1>2. /\ listed' = listed \ {j.call.user}
      /\ UNCHANGED <<record, invites, inviteSet, intended, spent, misused, withdrawn, deleted, issued,
                     calls, faults>>
      /\ incidents' = incidents \cup Roles!When(Roles!Member(j.call.user), "crossed")
  BY DEF Roles!Unlist, Roles!ghosts, Roles!Stay, Roles!Mark
<1>3. Moved(r, Roles!Idle)
  BY EndMoves DEF Roles!Unlist, AccessInv
<1>4. ~Inviting(Roles!Idle) /\ ~Holds(Roles!Idle) /\ ~Deleting(Roles!Idle)
  BY IdleIsNone DEF Inviting, Holds, Deleting
<1>5. incidents \subseteq incidents' /\ incidents' \subseteq Roles!Incidents
  BY <1>2 DEF Roles!When, Roles!Incidents, AccessInv, AccessTypes
<1>6. "crossed" \notin incidents' => ~Roles!Member(j.call.user)
  BY <1>2 DEF Roles!When
<1>7. AccessTypes'
  BY <1>1, <1>2, <1>3, <1>5 DEF AccessInv, AccessTypes, Moved
<1>8. Hands'
  BY <1>3, HandsKept DEF AccessInv
<1>9. RecordTrue' /\ RolesKnown'
  BY <1>2, <1>5, RecordKept DEF AccessInv
<1>10. ListsTrue'
  <2> SUFFICES ASSUME (~deleted /\ Roles!Clear({"stale", "crossed", "cut"})
                        /\ (\A q \in Requests : ~Deleting(job[q])))',
                      NEW u \in Users
               PROVE  /\ u \in DOMAIN record'.members /\ u \notin listed' =>
                           \E q \in Requests : job'[q].at = "enlist" /\ job'[q].card.user = u
                      /\ u \notin DOMAIN record'.members /\ u \in listed' =>
                           \E q \in Requests : job'[q].at = "unlist" /\ job'[q].call.user = u
    BY DEF ListsTrue
  <2>1. Roles!Clear({"stale", "crossed", "cut"}) /\ ~deleted /\ "crossed" \notin incidents'
    BY <1>2, <1>5 DEF Roles!Clear
  <2>2. \A q \in Requests : ~Deleting(job[q])
    BY <1>1, <1>3 DEF Moved, Deleting
  <2>3. /\ u \in DOMAIN record.members /\ u \notin listed =>
             \E q \in Requests : job[q].at = "enlist" /\ job[q].card.user = u
        /\ u \notin DOMAIN record.members /\ u \in listed =>
             \E q \in Requests : job[q].at = "unlist" /\ job[q].call.user = u
    BY <2>1, <2>2 DEF AccessInv, ListsTrue
  <2>4. \A q \in Requests \ {r} : job'[q] = job[q]
    BY <1>3 DEF Moved
  <2>5. j.call.user \notin DOMAIN record.members
    BY <1>6, <2>1 DEF Roles!Member, AccessInv, RecordTrue
  <2> QED
    BY <1>1, <1>2, <2>3, <2>4, <2>5
<1>11. LateKnown'
  BY <1>2, <1>3, LateKept DEF AccessInv
<1>12. IdsApart' /\ SpentStays'
  BY <1>2, <1>3, <1>4, <1>5, InvitesKept DEF AccessInv
<1>13. LeftEmpty'
  BY <1>3, <1>4, <1>2, <1>5 DEF Moved, AccessInv, LeftEmpty, Roles!Clear, Deleting
<1> QED
  BY <1>7, <1>8, <1>9, <1>10, <1>11, <1>12, <1>13 DEF AccessInv

LEMMA WithInvite ==
  ASSUME AccessInv, NEW i \in Invites, NEW card \in Roles!Invitation,
         invites' = Roles!With(invites, i, card)
  PROVE  /\ invites' \in Roles!Partial(Invites, Roles!Invitation)
         /\ DOMAIN invites' = DOMAIN invites \cup {i} /\ invites'[i] = card
         /\ \A k \in DOMAIN invites \ {i} : invites'[k] = invites[k]
<1>1. invites \in Roles!Partial(Invites, Roles!Invitation)
  BY DEF AccessInv, AccessTypes
<1> QED
  BY <1>1, WithIsPartial

LEMMA InviteKeeps ==
  ASSUME AccessInv, NEW r \in Requests, Roles!Invite(r)
  PROVE  AccessInv'
<1> DEFINE j == job[r]
           i == j.call.invite
           card == [user |-> j.call.user, role |-> j.call.role, revoked |-> FALSE, accepted |-> FALSE]
<1>1. j.at = "write" /\ j \in Roles!Job /\ InHand(j) /\ j.call.op = "invite"
  BY Somewhere DEF Roles!Invite, Roles!At, AccessInv, InHand
<1>2. /\ invites' = Roles!With(invites, i, card) /\ inviteSet' = inviteSet \cup {i}
      /\ UNCHANGED <<record, listed, intended, spent, misused, withdrawn, deleted, issued, calls, faults>>
      /\ incidents' = incidents \cup Roles!When(Roles!Swept, "revived")
  BY DEF Roles!Invite, Roles!WriteInvite, Roles!ghosts, Roles!Stay, Roles!Mark
<1>3. Moved(r, Roles!Idle)
  BY EndMoves DEF Roles!Invite, AccessInv
<1>4. ~Inviting(Roles!Idle) /\ ~Holds(Roles!Idle) /\ ~Deleting(Roles!Idle)
  BY IdleIsNone DEF Inviting, Holds, Deleting
<1>5. incidents \subseteq incidents' /\ incidents' \subseteq Roles!Incidents
  BY <1>2 DEF Roles!When, Roles!Incidents, AccessInv, AccessTypes
<1>6. "revived" \notin incidents' => ~Roles!Swept
  BY <1>2 DEF Roles!When
<1>7. i \in Invites /\ card \in Roles!Invitation
  BY <1>1, ControlAssumption DEF Roles!Job, Roles!Call, Roles!Invitation
<1> HIDE DEF card
<1>8. /\ invites' \in Roles!Partial(Invites, Roles!Invitation)
      /\ DOMAIN invites' = DOMAIN invites \cup {i} /\ invites'[i] = card
      /\ \A k \in DOMAIN invites \ {i} : invites'[k] = invites[k]
  BY <1>2, <1>7, WithInvite
<1>9. /\ Inviting(j) /\ i \in issued
      /\ i \notin DOMAIN invites \cup spent \cup withdrawn
      /\ \A q \in Requests \ {r} : Holds(job[q]) \/ Inviting(job[q]) => job[q].call.invite # i
  BY <1>1 DEF Inviting, AccessInv, IdsApart
<1>10. AccessTypes'
  BY <1>1, <1>2, <1>3, <1>5, <1>7, <1>8 DEF AccessInv, AccessTypes, Moved
<1>11. Hands'
  BY <1>3, HandsKept DEF AccessInv
<1>12. RecordTrue' /\ RolesKnown'
  BY <1>2, <1>5, RecordKept DEF AccessInv
<1>13. ListsTrue'
  BY <1>1, <1>2, <1>3, <1>5, ListsKept DEF AccessInv, Deleting
<1>14. LateKnown'
  BY <1>2, <1>3, LateKept DEF AccessInv
<1>15. IdsApart'
  BY <1>3, <1>4, <1>2, <1>8, <1>9 DEF Moved, AccessInv, IdsApart, Holds, Inviting
<1>16. SpentStays'
  BY <1>8, <1>9, <1>2, <1>5 DEF AccessInv, SpentStays, Roles!Clear, Roles!Acceptable
<1>17. LeftEmpty'
  BY <1>5, <1>6, <1>2, <1>3, <1>4 DEF Roles!Clear, Roles!Swept, Deleting, Moved, LeftEmpty
<1> QED
  BY <1>10, <1>11, <1>12, <1>13, <1>14, <1>15, <1>16, <1>17 DEF AccessInv

LEMMA MarkedIs ==
  ASSUME NEW op, NEW card \in Roles!Invitation
  PROVE  /\ Roles!Marked(op, card) \in Roles!Invitation
         /\ ~Roles!Acceptable(Roles!Marked(op, card))
         /\ op = "revoke" \/ card.revoked => Roles!Marked(op, card).revoked
  BY DEF Roles!Invitation, Roles!Marked, Roles!Acceptable

LEMMA MarkInviteKeeps ==
  ASSUME AccessInv, NEW r \in Requests, Roles!MarkInvite(r)
  PROVE  AccessInv'
<1> DEFINE j == job[r]
           i == j.call.invite
           op == j.call.op
           card == Roles!Marked(op, j.card)
<1>1. /\ j.at = "mark" /\ j \in Roles!Job /\ InHand(j) /\ op \in {"accept", "revoke"}
      /\ j.card \in Roles!Invitation /\ Holds(j)
  BY Somewhere DEF Roles!MarkInvite, Roles!At, AccessInv, InHand, Holds
<1>2. /\ invites' = Roles!With(invites, i, card) /\ inviteSet' = inviteSet \cup {i}
      /\ withdrawn' = IF op = "revoke" THEN withdrawn \cup {i} ELSE withdrawn
      /\ spent' = IF op = "accept" THEN spent \cup {i} ELSE spent
      /\ UNCHANGED <<record, listed, intended, misused, deleted, issued, calls, faults>>
      /\ incidents' = incidents
           \cup (Roles!When(i \notin DOMAIN invites \/ Roles!With(invites, i, j.card) # invites, "overlap")
           \cup Roles!When(Roles!Swept, "revived"))
  BY DEF Roles!MarkInvite, Roles!WriteInvite, Roles!Stay, Roles!Mark
<1>3. Moved(r, Roles!Idle)
  BY EndMoves DEF Roles!MarkInvite, AccessInv
<1>4. ~Inviting(Roles!Idle) /\ ~Holds(Roles!Idle) /\ ~Deleting(Roles!Idle)
  BY IdleIsNone DEF Inviting, Holds, Deleting
<1>5. incidents \subseteq incidents' /\ incidents' \subseteq Roles!Incidents
  BY <1>2 DEF Roles!When, Roles!Incidents, AccessInv, AccessTypes
<1>6. "revived" \notin incidents' => ~Roles!Swept
  BY <1>2 DEF Roles!When
<1>7. "overlap" \notin incidents' => i \in DOMAIN invites /\ Roles!With(invites, i, j.card) = invites
  BY <1>2 DEF Roles!When
<1>8. /\ i \in issued /\ i \in Invites
      /\ \A q \in Requests \ {r} : Inviting(job[q]) => job[q].call.invite # i
  BY <1>1 DEF AccessInv, IdsApart, AccessTypes
<1>9. card \in Roles!Invitation /\ ~Roles!Acceptable(card) /\ (op = "revoke" \/ j.card.revoked => card.revoked)
  BY <1>1, MarkedIs
<1> HIDE DEF card
<1>10. /\ invites' \in Roles!Partial(Invites, Roles!Invitation)
       /\ DOMAIN invites' = DOMAIN invites \cup {i} /\ invites'[i] = card
       /\ \A k \in DOMAIN invites \ {i} : invites'[k] = invites[k]
  BY <1>2, <1>8, <1>9, WithInvite
<1>11. "overlap" \notin incidents' => i \in DOMAIN invites /\ invites[i] = j.card
  BY <1>7 DEF Roles!With
<1> HIDE DEF i, op
<1>12. AccessTypes'
  BY <1>1, <1>2, <1>3, <1>5, <1>8, <1>10 DEF AccessInv, AccessTypes, Moved
<1>13. Hands'
  BY <1>3, HandsKept DEF AccessInv
<1>14. RecordTrue' /\ RolesKnown'
  BY <1>2, <1>5, RecordKept DEF AccessInv
<1>15. ListsTrue'
  BY <1>1, <1>2, <1>3, <1>5, ListsKept DEF AccessInv, Deleting
<1>16. LateKnown'
  BY <1>2, <1>3, LateKept DEF AccessInv
<1>17. IdsApart'
  BY <1>3, <1>4, <1>2, <1>8, <1>10 DEF Moved, AccessInv, IdsApart, Holds, Inviting
<1>18. SpentStays'
  BY <1>2, <1>9, <1>10, <1>5, <1>11 DEF AccessInv, SpentStays, Roles!Clear, Roles!Acceptable
<1>19. LeftEmpty'
  BY <1>5, <1>6, <1>2, <1>3, <1>4 DEF Roles!Clear, Roles!Swept, Deleting, Moved, LeftEmpty
<1> QED
  BY <1>12, <1>13, <1>14, <1>15, <1>16, <1>17, <1>18, <1>19 DEF AccessInv

LEMMA DropInvites ==
  ASSUME AccessInv, NEW S, invites' = Roles!Drop(invites, S)
  PROVE  /\ invites' \in Roles!Partial(Invites, Roles!Invitation)
         /\ DOMAIN invites' = DOMAIN invites \ S
         /\ \A k \in DOMAIN invites \ S : invites'[k] = invites[k]
<1>1. DOMAIN invites \subseteq Invites /\ invites \in [DOMAIN invites -> Roles!Invitation]
  BY PartialIs DEF AccessInv, AccessTypes
<1>2. /\ DOMAIN invites' = DOMAIN invites \ S
      /\ \A k \in DOMAIN invites \ S : invites'[k] = invites[k]
      /\ invites' \in [DOMAIN invites \ S -> Roles!Invitation]
  BY <1>1 DEF Roles!Drop
<1>3. DOMAIN invites' \subseteq Invites /\ invites' \in [DOMAIN invites' -> Roles!Invitation]
  BY <1>1, <1>2
<1>4. invites' \in Roles!Partial(Invites, Roles!Invitation)
  BY <1>3 DEF Roles!Partial
<1> QED
  BY <1>2, <1>4

\* Invitations that are gone make no difference to what is known of the others.
LEMMA DroppedKept ==
  ASSUME AccessInv, NEW S, invites' = Roles!Drop(invites, S),
         UNCHANGED <<spent, withdrawn, misused, issued>>, incidents \subseteq incidents',
         \A r \in Requests :
           /\ Inviting(job'[r]) => Inviting(job[r]) /\ job'[r].call = job[r].call
           /\ Holds(job'[r]) => Holds(job[r]) /\ job'[r].call = job[r].call
  PROVE  IdsApart' /\ SpentStays'
<1>1. /\ DOMAIN invites' \subseteq DOMAIN invites
      /\ \A k \in DOMAIN invites' : invites'[k] = invites[k]
  BY DropInvites
<1>2. IdsApart /\ SpentStays
  BY DEF AccessInv
<1>3. SpentStays'
  BY <1>1, <1>2 DEF SpentStays, Roles!Clear, Roles!Acceptable
<1>4. \A r \in Requests :
        /\ Holds(job'[r]) \/ Inviting(job'[r]) => job'[r].call.invite \in issued
        /\ Inviting(job'[r]) =>
             /\ job'[r].call.invite \notin DOMAIN invites \cup spent \cup withdrawn
             /\ \A q \in Requests \ {r} :
                  Holds(job'[q]) \/ Inviting(job'[q]) => job'[q].call.invite # job'[r].call.invite
  BY <1>2 DEF IdsApart
<1>5. IdsApart'
  BY <1>1, <1>2, <1>4 DEF IdsApart, Holds, Inviting
<1> QED
  BY <1>3, <1>5

LEMMA ExpireKeeps ==
  ASSUME AccessInv, NEW i \in Invites, Roles!Expire(i)
  PROVE  AccessInv'
<1>1. /\ invites' = Roles!Drop(invites, {i})
      /\ UNCHANGED <<record, listed, inviteSet, job, intended, spent, misused, withdrawn, deleted,
                     issued, calls, incidents>>
      /\ faults' \in 0..MaxFaults
  BY ControlAssumption DEF Roles!Expire, Roles!ghosts, AccessInv, AccessTypes
<1>2. AccessTypes'
  BY <1>1, DropInvites DEF AccessInv, AccessTypes
<1>3. Hands' /\ RecordTrue' /\ RolesKnown' /\ ListsTrue' /\ LateKnown'
  BY <1>1 DEF AccessInv, Hands, InHand, Holds, RecordTrue, RolesKnown, ListsTrue, LateKnown, Deleting,
              Roles!Clear, Roles!Exists, Roles!Known
<1>4. IdsApart' /\ SpentStays'
  BY <1>1, DroppedKept
<1>5. LeftEmpty'
  BY <1>1, DropInvites DEF AccessInv, LeftEmpty, Deleting, Roles!Clear
<1> QED
  BY <1>2, <1>3, <1>4, <1>5 DEF AccessInv

LEMMA ExecKeeps ==
  ASSUME AccessInv, NEW r \in Requests, Roles!Exec(r)
  PROVE  AccessInv'
<1> DEFINE j == job[r]
           c == [at |-> "load", seen |-> Roles!Gone, ids |-> {}]
           n == Over(j, c)
<1>1. j.at = "exec" /\ j \in Roles!Job /\ InHand(j)
  BY Somewhere DEF Roles!Exec, Roles!At, AccessInv
<1>2. /\ listed' = listed \ DOMAIN j.seen.members /\ invites' = Roles!Drop(invites, j.ids)
      /\ inviteSet' = {}
      /\ UNCHANGED <<record, intended, spent, misused, withdrawn, deleted, issued, calls, faults>>
      /\ incidents' = incidents
           \cup Roles!When(listed \ DOMAIN j.seen.members # {} \/ DOMAIN invites \ j.ids # {}, "revived")
      /\ Roles!Put(r, c)
  BY DEF Roles!Exec, Roles!Sweep, Roles!ghosts, Roles!Stay, Roles!Mark
<1>3. /\ DOMAIN c = {"at", "seen", "ids"} /\ c["at"] = "load" /\ "load" \in Roles!Labels
      /\ c["seen"] = Roles!Gone /\ c["ids"] \in SUBSET Invites
  BY DEF Roles!Labels
<1>4. n \in Roles!Job /\ n.at = "load" /\ n.call = j.call /\ n.late = j.late
  BY <1>1, <1>3, OverIsJob DEF Fields
<1>5. Moved(r, n)
  BY <1>2, <1>4, PutMoves DEF AccessInv
<1>6. incidents \subseteq incidents' /\ incidents' \subseteq Roles!Incidents
  BY <1>2 DEF Roles!When, Roles!Incidents, AccessInv, AccessTypes
<1>7. "revived" \notin incidents' => listed' = {} /\ DOMAIN invites \ j.ids = {}
  BY <1>2 DEF Roles!When
<1> HIDE DEF c, n
<1>8. InHand(n) /\ ~Inviting(n) /\ ~Holds(n) /\ Deleting(n) /\ ~n.late
  BY <1>1, <1>4 DEF InHand, Holds, Inviting, Deleting
<1>9. AccessTypes'
  BY <1>1, <1>2, <1>5, <1>6, DropInvites DEF AccessInv, AccessTypes, Moved
<1>10. Hands'
  BY <1>5, <1>8, HandsKept DEF AccessInv
<1>11. RecordTrue' /\ RolesKnown'
  BY <1>2, <1>6, RecordKept DEF AccessInv
<1>12. ListsTrue'
  BY <1>5, <1>8 DEF ListsTrue, Moved, Deleting
<1>13. LateKnown'
  BY <1>2, <1>5, <1>8, LateKept DEF AccessInv
<1>14. IdsApart' /\ SpentStays'
  BY <1>5, <1>8, <1>2, <1>6, DroppedKept DEF Moved
<1>15. LeftEmpty'
  BY <1>2, DropInvites, <1>6, <1>7 DEF AccessInv, LeftEmpty, Roles!Clear
<1> QED
  BY <1>9, <1>10, <1>11, <1>12, <1>13, <1>14, <1>15 DEF AccessInv

LEMMA DropRecordKeeps ==
  ASSUME AccessInv, NEW r \in Requests, Roles!DropRecord(r)
  PROVE  AccessInv'
<1>1. job[r].at = "drop" /\ Deleting(job[r])
  BY DEF Roles!DropRecord, Roles!At, Deleting
<1>2. /\ record' = Roles!Gone /\ deleted' = TRUE
      /\ UNCHANGED <<listed, invites, inviteSet, incidents, intended, spent, misused, withdrawn,
                     issued, calls, faults>>
  BY DEF Roles!DropRecord, Roles!Stay
<1>3. Moved(r, Roles!Idle)
  BY EndMoves DEF Roles!DropRecord, AccessInv
<1>4. ~Inviting(Roles!Idle) /\ ~Holds(Roles!Idle) /\ ~Deleting(Roles!Idle)
  BY IdleIsNone DEF Inviting, Holds, Deleting
<1>5. AccessTypes'
  BY <1>2, <1>3 DEF AccessInv, AccessTypes, Moved
<1>6. Hands'
  BY <1>3, HandsKept DEF AccessInv
<1>7. RecordTrue' /\ RolesKnown' /\ ListsTrue'
  BY <1>2 DEF RecordTrue, RolesKnown, ListsTrue, Roles!Exists
<1>8. LateKnown'
  BY <1>2, <1>3, LateKept DEF AccessInv
<1>9. IdsApart' /\ SpentStays'
  BY <1>2, <1>3, <1>4, InvitesKept DEF AccessInv
<1>10. LeftEmpty'
  BY <1>1, <1>2 DEF AccessInv, LeftEmpty, Roles!Clear
<1> QED
  BY <1>5, <1>6, <1>7, <1>8, <1>9, <1>10 DEF AccessInv

-----------------------------------------------------------------------------
(* Access as a whole.                                                       *)

LEMMA AccessInit == Roles!Init => AccessInv
<1> SUFFICES ASSUME Roles!Init PROVE AccessInv
  OBVIOUS
<1>1. PICK m \in Roles!Partial(Users, Given) :
        record = [roles |-> [c \in Custom |-> {"members.manage", "roles.manage"}], members |-> m]
  BY DEF Roles!Init
<1>2. DOMAIN m \subseteq Users /\ m \in [DOMAIN m -> Given]
  BY PartialIs
<1>3. m \in [DOMAIN m -> Roles!RoleKeys]
  BY <1>2, ControlAssumption
<1>4. [c \in Custom |-> {"members.manage", "roles.manage"}] \in [Custom -> SUBSET Roles!Permissions]
  BY DEF Roles!Permissions
<1>5. record \in Roles!Record
  BY <1>2, <1>3, PartialIs, <1>4, <1>1 DEF Roles!Record
<1>6. /\ listed = DOMAIN record.members /\ inviteSet = DOMAIN invites
      /\ job = [r \in Requests |-> Roles!Idle] /\ intended = record
      /\ spent = {} /\ misused = {} /\ withdrawn = {} /\ deleted = FALSE /\ issued = inviteSet
      /\ calls = 0 /\ faults = 0 /\ incidents = {}
  BY Zenon DEF Roles!Init
<1>7. /\ invites \in Roles!Partial(Invites, Roles!Invitation)
      /\ DOMAIN invites \subseteq Invites
  <2>1. CASE invites = <<>>
    <3>1. DOMAIN invites = {} /\ invites \in [{} -> Roles!Invitation]
      BY <2>1
    <3> QED
      BY <3>1, PartialIs
  <2>2. ASSUME NEW i \in Invites, NEW u \in Users, NEW k \in Given,
               invites = Roles!With(<<>>, i, [user |-> u, role |-> k, revoked |-> FALSE, accepted |-> FALSE])
        PROVE  invites \in Roles!Partial(Invites, Roles!Invitation)
    <3> DEFINE card == [user |-> u, role |-> k, revoked |-> FALSE, accepted |-> FALSE]
    <3>1. card \in Roles!Invitation
      BY ControlAssumption DEF Roles!Invitation
    <3> HIDE DEF card
    <3>2. invites = [y \in {i} |-> card]
      BY <2>2 DEF Roles!With, card
    <3>3. DOMAIN invites = {i} /\ invites \in [{i} -> Roles!Invitation]
      BY <3>1, <3>2
    <3> QED
      BY <3>3, PartialIs
  <2>3. \/ invites = <<>>
        \/ \E i \in Invites, u \in Users \ listed, k \in Given :
             invites = Roles!With(<<>>, i, [user |-> u, role |-> k, revoked |-> FALSE, accepted |-> FALSE])
    BY DEF Roles!Init
  <2>4. invites \in Roles!Partial(Invites, Roles!Invitation)
    BY <2>1, <2>2, <2>3
  <2> QED
    BY <2>4, PartialIs
<1>8. \A r \in Requests : job[r] = Roles!Idle /\ job[r].at = "idle"
  BY <1>6, IdleIsNone
<1>9. AccessTypes
  <2>1. listed \subseteq Users
    BY <1>1, <1>2, <1>6
  <2>2. job \in [Requests -> Requested]
    BY <1>6 DEF Requested
  <2>3. 0 \in 0..MaxCalls /\ 0 \in 0..MaxFaults
    BY ControlAssumption
  <2>4. deleted \in BOOLEAN
    BY <1>6, Zenon
  <2>5. inviteSet \subseteq Invites /\ issued \subseteq Invites
    BY <1>6, <1>7
  <2>6. spent \subseteq Invites /\ withdrawn \subseteq Invites /\ incidents \subseteq Roles!Incidents
    BY <1>6
  <2>7. record \in Roles!Record \cup {Roles!Gone} /\ intended \in Roles!Record
    BY <1>5, <1>6
  <2>8. calls \in 0..MaxCalls /\ faults \in 0..MaxFaults
    BY <1>6, <2>3
  <2> QED
    BY <1>7, <2>1, <2>2, <2>4, <2>5, <2>6, <2>7, <2>8, Zenon DEF AccessTypes
<1>10. Hands /\ LateKnown /\ LeftEmpty
  BY <1>6, <1>8 DEF Hands, LateKnown, LeftEmpty, Deleting
<1>11. RecordTrue /\ ListsTrue
  BY <1>5, <1>6, GoneIsNoRecord DEF RecordTrue, ListsTrue, Roles!Exists
<1>12. RolesKnown
  BY <1>3, <1>1 DEF Roles!RoleKeys, RolesKnown, Roles!Known
<1>13. IdsApart /\ SpentStays
  BY <1>6, <1>8 DEF IdsApart, SpentStays, Holds, Inviting
<1> QED
  BY <1>9, <1>10, <1>11, <1>12, <1>13 DEF AccessInv

LEMMA AccessNext ==
  ASSUME AccessInv, [Roles!Next]_(Roles!vars)
  PROVE  AccessInv'
<1>1. CASE UNCHANGED Roles!vars
  <2>1. UNCHANGED <<record, listed, invites, inviteSet, job, intended, spent, misused, withdrawn, deleted,
                    issued, calls, faults, incidents>>
    BY <1>1 DEF Roles!vars, Roles!store, Roles!ghosts
  <2> QED
    BY <2>1 DEF AccessInv, AccessTypes, Hands, InHand, Holds, Inviting, RecordTrue, RolesKnown, ListsTrue,
                IdsApart, LateKnown, SpentStays, LeftEmpty, Deleting, Roles!Clear, Roles!Exists,
                Roles!Known, Roles!Acceptable
<1>2. ASSUME NEW r \in Requests,
             \/ Roles!Begin(r) \/ Roles!Read(r) \/ Roles!Recheck(r) \/ Roles!Get(r) \/ Roles!Set(r)
             \/ Roles!Enlist(r) \/ Roles!Unlist(r) \/ Roles!Invite(r) \/ Roles!Card(r)
             \/ Roles!Fetch(r) \/ Roles!MarkInvite(r) \/ Roles!Ids(r) \/ Roles!Sift(r)
             \/ Roles!Srem(r) \/ Roles!Clean(r) \/ Roles!Exec(r) \/ Roles!Load(r)
             \/ Roles!DropRecord(r) \/ Roles!Fail(r)
      PROVE  AccessInv'
  BY <1>2, BeginKeeps, ReadKeeps, RecheckKeeps, GetKeeps, SetKeeps, EnlistKeeps, UnlistKeeps,
     InviteKeeps, CardKeeps, FetchKeeps, MarkInviteKeeps, IdsKeeps, SiftKeeps, SremKeeps, CleanKeeps,
     ExecKeeps, LoadKeeps, DropRecordKeeps, FailKeeps, Zenon
<1>3. ASSUME NEW i \in Invites, Roles!Expire(i) PROVE AccessInv'
  BY <1>3, ExpireKeeps
<1> QED
  BY <1>1, <1>2, <1>3 DEF Roles!Next

\* The properties of Access, of the states that its invariant allows
LEMMA AccessHolds ==
  ASSUME AccessInv
  PROVE  /\ Roles!RolesStand /\ Roles!MembersFindProjects
         /\ Roles!InvitesSpentOnce /\ Roles!GoneStaysGone
<1>1. ASSUME Roles!Quiet
      PROVE  \A r \in Requests : job[r].at = "idle" /\ ~Deleting(job[r])
  BY <1>1, IdleIsNone DEF Roles!Quiet, Deleting
<1>2. Roles!RolesStand
  BY DEF Roles!RolesStand, AccessInv, RecordTrue, RolesKnown, Roles!Clear
<1>3. Roles!MembersFindProjects
  <2> SUFFICES ASSUME Roles!Quiet, ~deleted, Roles!Clear({"stale", "crossed", "cut"})
               PROVE  listed = DOMAIN record.members
    BY DEF Roles!MembersFindProjects
  <2>1. record \in Roles!Record
    BY DEF AccessInv, AccessTypes, RecordTrue, Roles!Exists
  <2>2. listed \subseteq Users /\ DOMAIN record.members \subseteq Users
    BY <2>1, PartialIs DEF AccessInv, AccessTypes, Roles!Record
  <2>3. \A u \in Users : u \in DOMAIN record.members <=> u \in listed
    BY <1>1 DEF AccessInv, ListsTrue
  <2> QED
    BY <2>2, <2>3
<1>4. Roles!InvitesSpentOnce
  BY DEF Roles!InvitesSpentOnce, AccessInv, SpentStays
<1>5. Roles!GoneStaysGone
  <2> SUFFICES ASSUME deleted, Roles!Clear({"revived"})
               PROVE  record = Roles!Gone /\ invites = <<>> /\ listed = {}
    BY DEF Roles!GoneStaysGone
  <2>1. record = Roles!Gone /\ DOMAIN invites = {} /\ listed = {}
    BY DEF AccessInv, LeftEmpty
  <2>2. invites \in [DOMAIN invites -> Roles!Invitation]
    BY PartialIs DEF AccessInv, AccessTypes
  <2>3. invites = <<>>
    BY <2>1, <2>2
  <2> QED
    BY <2>1, <2>3
<1> QED
  BY <1>2, <1>3, <1>4, <1>5

-----------------------------------------------------------------------------
(* Accounts: what the variables hold, and what a request has in its hands.  *)

SomeLink == [kind : SignIns!Kinds, n : Nat, user : AccountIds \cup {0}]
SomeSession == [n : Nat, user : AccountIds, iat : Nat, at : Nat, early : BOOLEAN]

\* The accounts that a request makes, and those it edits
Makers == {"signup", "register", "create", "magic", "oauth"}
Editors == {"signin", "confirm", "reset", "magic", "oauth", "enroll"} \cup SignIns!Edits
Deeds == Makers \cup Editors
           \cup {"challenge", "enrol", "delete", "revoke", "refresh", "signout",
                 "askReset", "askMagic", "start"}
Places == {"get", "spend", "token", "email", "withdraw", "find", "unique", "edit", "send", "index", "drop",
           "delete", "unindex", "mark", "sign", "refresh", "exchange", "signout"}
Parts == {"op", "at", "user", "link", "seen"}
Task == [op : Deeds, at : Places, user : AccountIds \cup {0}, link : Nat,
         seen : SignIns!Row \cup {SignIns!NoRow}]

AccountTypes ==
  /\ row \in [AccountIds -> SignIns!Row \cup {SignIns!NoRow}]
  /\ indexed \subseteq AccountIds /\ made \subseteq AccountIds /\ barred \subseteq AccountIds
  /\ links \subseteq SomeLink /\ issued \in Nat
  /\ mark \in [AccountIds -> Nat] /\ last \in [AccountIds -> Nat]
  /\ sessions \subseteq SomeSession /\ IsFiniteSet(sessions)
  /\ job \in [Requests -> Task \cup {SignIns!Idle}]
  /\ now \in Nat \ {0}

\* A request that will look for the account by its email, or makes one, has none yet.
Named(j) ==
  \/ j.at \in {"send", "index", "unique", "edit", "delete", "unindex", "mark", "sign", "drop",
               "refresh", "exchange", "signout"}
  \/ j.op \in {"enroll", "challenge", "enrol", "delete"} \cup SignIns!Edits
  \/ j.op = "register" /\ j.at \in {"token", "email"}

Doing(j) ==
  /\ j.at \in {"get", "spend"} => j.op \in SignIns!Kinds
  /\ j.at = "spend" => j.op # "enroll"
  /\ j.at = "token" => j.op \in {"askReset", "askMagic", "start", "register"}
  /\ j.at = "email" => j.op \in {"askReset", "askMagic", "register"}
  /\ j.at = "withdraw" => j.op = "askMagic"
  /\ j.at = "find" => j.op \in Makers \cup Editors \cup {"enrol", "delete"}
  /\ j.at = "send" => j.op \in Makers /\ j.seen \in SignIns!Row
  /\ j.at = "index" => j.op \in Makers
  /\ j.at \in {"unique", "edit"} =>
       /\ j.op \in Editors /\ j.seen \in SignIns!Row
       /\ j.op \in {"signin", "magic", "oauth"} => ~j.seen.disabled
  /\ j.at \in {"delete", "unindex"} => j.op = "delete"
  /\ j.at = "mark" => j.op \in {"disable", "unmfa", "reset", "delete", "revoke"}
  /\ j.at = "sign" => j.op = "reset"
  /\ j.at = "drop" => j.op = "enroll"
  /\ j.at \in {"refresh", "exchange"} => j.op = "refresh"
  /\ j.at = "signout" => j.op = "signout"
  /\ Named(j) => j.user \in AccountIds

Tasks == \A r \in Requests : job[r] # SignIns!Idle => Doing(job[r])

(* The parts of the invariant.                                              *)

\* It has an account's id in its hands, and may write its row.
Holder(j) == j.at \in {"send", "index", "unique", "edit", "delete", "unindex"}

\* Ids are given once: the row of one that is about to be sent is nobody else's.
IdsGivenOnce ==
  /\ \A i \in AccountIds : SignIns!Exists(row[i]) \/ i \in indexed => i \in made
  /\ \A r \in Requests :
       /\ Holder(job[r]) => job[r].user \in made
       /\ job[r].at = "unindex" => ~SignIns!Exists(row[job[r].user])
       /\ job[r].at = "send" =>
            /\ ~SignIns!Exists(row[job[r].user])
            /\ \A q \in Requests \ {r} : Holder(job[q]) => job[q].user # job[r].user

\* A row that is sent and not indexed is about to be.
RowsListed ==
  \A i \in AccountIds : SignIns!Exists(row[i]) /\ i \notin indexed =>
    "unlisted" \in incidents \/ \E r \in Requests : job[r].at = "index" /\ job[r].user = i

\* Whoever is about to send a row is the first to.
Alone ==
  SignIns!Clear({"raced", "unlisted"}) =>
    /\ \A i, k \in AccountIds : SignIns!Exists(row[i]) /\ SignIns!Exists(row[k]) => i = k
    /\ \A r \in Requests : job[r].at = "send" =>
         /\ \A i \in AccountIds : ~SignIns!Exists(row[i])
         /\ \A q \in Requests \ {r} : job[q].at # "send"

\* A link has a number of its own, and whoever brings it does what it is for.
Brings(j) == j.at # "idle" /\ j.op \in SignIns!Kinds
LinksNumbered ==
  /\ \A l \in links :
       /\ l.n <= issued
       /\ l.kind \in {"enroll", "challenge"} => l.user \in AccountIds
       /\ \A m \in links : l.n = m.n => l = m
  /\ \A n \in Nat : <<"link", n>> \in DOMAIN used => n <= issued
  /\ \A r \in Requests : Brings(job[r]) =>
       /\ job[r].link <= issued
       /\ \A l \in links : l.n = job[r].link => l.kind = job[r].op
       /\ \A q \in Requests : Brings(job[q]) /\ job[q].link = job[r].link => job[q].op = job[r].op

\* It has found the link, and is to use it.
Using(j) == j.at = "spend" \/ (j.at \in {"find", "unique", "edit"} /\ j.op = "enroll")

\* A link that is about to be used has not been, and nobody else is about to use it; one that was
\* used is gone, or about to be.
LinksSpent ==
  SignIns!Clear({"shared", "unspent"}) =>
    /\ \A r \in Requests : Using(job[r]) =>
         /\ <<"link", job[r].link>> \notin DOMAIN used
         /\ \A q \in Requests \ {r} : Using(job[q]) => job[q].link # job[r].link
    /\ \A l \in links : <<"link", l.n>> \in DOMAIN used =>
         \E r \in Requests : job[r].at = "drop" /\ job[r].link = l.n

\* And the same of refresh tokens.
TokensSpent ==
  /\ \A n \in Nat : <<"token", n>> \in DOMAIN used => n \in revoked
  /\ SignIns!Clear({"shared", "unspent"}) =>
       \A r \in Requests : job[r].at = "exchange" =>
         /\ <<"token", job[r].link>> \notin DOMAIN used
         /\ \A q \in Requests \ {r} : job[q].at = "exchange" => job[q].link # job[r].link

Once == SignIns!Clear({"shared", "unspent"}) => \A x \in DOMAIN used : used[x] = 1

\* A mark is at most a second after the revocation that wrote it.
TimesInOrder ==
  /\ \A s \in sessions :
       /\ s.iat <= s.at /\ s.at <= s.iat + 1 /\ s.at <= now
       /\ s.early => s.at < last[s.user]
  /\ \A i \in AccountIds :
       /\ last[i] <= now
       /\ (mark[i] = 0 /\ last[i] = 0) \/ (last[i] <= mark[i] /\ mark[i] <= last[i] + 2)

BarredStay ==
  SignIns!Clear({"stale"}) => \A i \in barred : SignIns!Exists(row[i]) /\ row[i].disabled

\* The request that has disabled or deleted the account of an active session is to revoke it.
Ending(j) == j.at \in {"unindex", "mark"} /\ j.op \notin {"reset", "revoke"}
SessionsEnd ==
  SignIns!Clear({"stale", "unmarked", "behind", "ungated"}) =>
    \A s \in sessions : SignIns!IsActive(s) =>
      \/ SignIns!Welcome(row[s.user])
      \/ \E r \in Requests : Ending(job[r]) /\ job[r].user = s.user

AccountsInv ==
  /\ AccountTypes /\ Tasks
  /\ IdsGivenOnce /\ RowsListed /\ Alone
  /\ LinksNumbered /\ LinksSpent /\ TokensSpent /\ Once
  /\ TimesInOrder /\ BarredStay /\ SessionsEnd

-----------------------------------------------------------------------------
(* Lemmas about ids, rows, links, sessions and requests.                    *)

LEMMA MinIsLeast ==
  ASSUME NEW S \in SUBSET Nat, S # {}
  PROVE  SignIns!Min(S) \in S /\ \A n \in S : SignIns!Min(S) <= n
<1> DEFINE R == {ss \in Nat \X Nat : ss[1] < ss[2]}
<1>1. IsWellFoundedOn(R, Nat)
  BY NatLessThanWellFounded, Zenon DEF OpToRel
<1>2. \E m \in S : \A n \in S : ~(<<n, m>> \in R)
  BY <1>1, WFMin
<1>3. PICK m \in S : \A n \in S : ~(<<n, m>> \in R)
  BY <1>2
<1>4. ASSUME NEW n \in S PROVE m <= n
  <2>1. m \in Nat /\ n \in Nat
    OBVIOUS
  <2>2. ~(n < m)
    BY <1>3, <2>1
  <2> QED
    BY <2>1, <2>2
<1> QED
  BY <1>4 DEF SignIns!Min

LEMMA NoRowIsNoRow ==
  /\ SignIns!NoRow \notin SignIns!Row
  /\ \A x : x \in SignIns!Row => SignIns!Exists(x)
  /\ ~SignIns!Exists(SignIns!NoRow)
  BY DEF SignIns!NoRow, SignIns!Row, SignIns!Exists

LEMMA IdleDoesNothing ==
  /\ SignIns!Idle.at = "idle" /\ SignIns!Idle \notin Task
  /\ ~Holder(SignIns!Idle) /\ ~Brings(SignIns!Idle) /\ ~Using(SignIns!Idle) /\ ~Ending(SignIns!Idle)
  BY DEF SignIns!Idle, Task, Places, Holder, Brings, Using, Ending

LEMMA OverIsTask ==
  ASSUME NEW j \in Task, NEW c, DOMAIN c \subseteq Parts,
         "op" \in DOMAIN c => c["op"] \in Deeds,
         "at" \in DOMAIN c => c["at"] \in Places,
         "user" \in DOMAIN c => c["user"] \in AccountIds \cup {0},
         "link" \in DOMAIN c => c["link"] \in Nat,
         "seen" \in DOMAIN c => c["seen"] \in SignIns!Row \cup {SignIns!NoRow}
  PROVE  /\ Over(j, c) \in Task
         /\ \A x \in Parts : Over(j, c)[x] = IF x \in DOMAIN c THEN c[x] ELSE j[x]
<1>1. DOMAIN j = Parts
  BY DEF Task, Parts
<1>2. /\ DOMAIN Over(j, c) = Parts
      /\ \A x \in Parts : Over(j, c)[x] = IF x \in DOMAIN c THEN c[x] ELSE j[x]
      /\ Over(j, c) = [x \in Parts |-> Over(j, c)[x]]
  BY <1>1 DEF Over
<1>3. /\ j.op \in Deeds /\ j.at \in Places /\ j.user \in AccountIds \cup {0} /\ j.link \in Nat
      /\ j.seen \in SignIns!Row \cup {SignIns!NoRow}
  BY DEF Task
<1> DEFINE k == Over(j, c)
<1>4. /\ k.op \in Deeds /\ k.at \in Places /\ k.user \in AccountIds \cup {0} /\ k.link \in Nat
      /\ k.seen \in SignIns!Row \cup {SignIns!NoRow}
  BY <1>2, <1>3 DEF Parts
<1>5. k \in Task
  <2> HIDE DEF k
  <2>1. DOMAIN k = Parts /\ k = [x \in Parts |-> k[x]]
    BY <1>2 DEF k
  <2> QED
    BY <1>4, <2>1 DEF Task, Parts
<1> QED
  BY <1>2, <1>5

\* A request that is somewhere is not idle, and has what belongs there in its hands.
LEMMA AtWork ==
  ASSUME AccountTypes, Tasks, NEW r \in Requests, job[r].at # "idle"
  PROVE  /\ job[r] \in Task /\ Doing(job[r]) /\ job[r] # SignIns!Idle
         /\ job[r].op \in Deeds /\ job[r].at \in Places /\ job[r].user \in AccountIds \cup {0}
         /\ job[r].link \in Nat /\ job[r].seen \in SignIns!Row \cup {SignIns!NoRow}
  BY IdleDoesNothing DEF AccountTypes, Tasks, Task

\* A step of one request does nothing to the others.
Turned(r, n) ==
  /\ job' \in [Requests -> Task \cup {SignIns!Idle}] /\ job'[r] = n
  /\ \A q \in Requests \ {r} : job'[q] = job[q]

LEMMA PutTurns ==
  ASSUME AccountTypes, NEW r \in Requests, NEW c, SignIns!Put(r, c), Over(job[r], c) \in Task
  PROVE  Turned(r, Over(job[r], c))
  BY DEF AccountTypes, SignIns!Put, Over, Turned

LEMMA EndTurns ==
  ASSUME AccountTypes, NEW r \in Requests, SignIns!End(r)
  PROVE  Turned(r, SignIns!Idle)
  BY DEF AccountTypes, SignIns!End, Turned

\* A request that goes on keeps its deed, its account and its link.
LEMMA GotoTurns ==
  ASSUME AccountTypes, Tasks, NEW r \in Requests, NEW label \in Places, SignIns!Goto(r, label),
         job[r].at # "idle"
  PROVE  \E n \in Task :
           /\ Turned(r, n) /\ n.at = label
           /\ n.op = job[r].op /\ n.user = job[r].user /\ n.link = job[r].link /\ n.seen = job[r].seen
<1> DEFINE c == [at |-> label]
<1>1. job[r] \in Task
  BY AtWork
<1>2. DOMAIN c = {"at"} /\ c["at"] = label
  OBVIOUS
<1>3. SignIns!Put(r, c)
  BY DEF SignIns!Goto
<1> HIDE DEF c
<1>4. /\ Over(job[r], c) \in Task
      /\ \A x \in Parts : Over(job[r], c)[x] = IF x \in {"at"} THEN label ELSE job[r][x]
  BY <1>1, <1>2, OverIsTask DEF Parts
<1>5. Turned(r, Over(job[r], c))
  BY <1>3, <1>4, PutTurns
<1> QED
  BY <1>4, <1>5 DEF Parts

LEMMA TasksKept ==
  ASSUME Tasks, NEW r \in Requests, NEW n, Turned(r, n), n # SignIns!Idle => Doing(n)
  PROVE  Tasks'
  BY DEF Turned, Tasks, Doing, Named

(* What leaves a part of the invariant as it is.                            *)

\* The request finds an account that there is, or holds on to the one it has.
LEMMA GivenKept ==
  ASSUME AccountTypes, IdsGivenOnce, RowsListed, Alone, UNCHANGED <<indexed, made>>,
         \A i \in AccountIds : SignIns!Exists(row'[i]) <=> SignIns!Exists(row[i]),
         incidents \subseteq incidents',
         NEW r \in Requests, NEW n, Turned(r, n), n.at \notin {"send", "unindex"},
         Holder(n) => /\ n.user \in made
                      /\ SignIns!Exists(row[n.user]) \/ (Holder(job[r]) /\ n.user = job[r].user),
         job[r].at = "index" /\ job[r].user \notin indexed => "unlisted" \in incidents'
  PROVE  IdsGivenOnce' /\ RowsListed' /\ Alone'
<1>0. made \subseteq AccountIds
  BY DEF AccountTypes
<1>1. IdsGivenOnce'
  BY <1>0 DEF IdsGivenOnce, Turned, Holder
<1>2. RowsListed'
  <2> SUFFICES ASSUME NEW i \in AccountIds, SignIns!Exists(row'[i]), i \notin indexed'
               PROVE  "unlisted" \in incidents' \/ \E q \in Requests : job'[q].at = "index" /\ job'[q].user = i
    BY DEF RowsListed
  <2>1. CASE "unlisted" \in incidents
    BY <2>1
  <2>2. ASSUME NEW q \in Requests, job[q].at = "index" /\ job[q].user = i
        PROVE  "unlisted" \in incidents' \/ (job'[q].at = "index" /\ job'[q].user = i)
    BY <2>2 DEF Turned
  <2> QED
    BY <2>1, <2>2 DEF RowsListed
<1>3. Alone'
  BY DEF Turned, Alone, SignIns!Clear
<1> QED
  BY <1>1, <1>2, <1>3

\* Links go, or a new one is made.
LinksGoOn ==
  \/ links' \subseteq links /\ UNCHANGED issued
  \/ \E k \in SignIns!Kinds, u \in AccountIds \cup {0} :
       SignIns!NewLink(k, u) /\ (k \in {"enroll", "challenge"} => u \in AccountIds)

LEMMA LinksAre ==
  ASSUME AccountTypes, LinksGoOn
  PROVE  /\ links' \subseteq SomeLink /\ issued' \in Nat /\ issued <= issued'
         /\ \A l \in links' : l \in links \/ (l.n = issued + 1 /\ issued' = issued + 1
                                                /\ (l.kind \in {"enroll", "challenge"} => l.user \in AccountIds))
         /\ \A l, m \in links' : l.n = issued + 1 /\ m.n = issued + 1 =>
              (l \notin links /\ m \notin links => l = m)
<1>1. CASE links' \subseteq links /\ UNCHANGED issued
  BY <1>1 DEF AccountTypes
<1>2. ASSUME NEW k \in SignIns!Kinds, NEW u \in AccountIds \cup {0}, SignIns!NewLink(k, u),
             k \in {"enroll", "challenge"} => u \in AccountIds
      PROVE  /\ links' \subseteq SomeLink /\ issued' \in Nat /\ issued <= issued'
             /\ \A l \in links' : l \in links \/ (l.n = issued + 1 /\ issued' = issued + 1
                                                    /\ (l.kind \in {"enroll", "challenge"} => l.user \in AccountIds))
             /\ \A l, m \in links' : l.n = issued + 1 /\ m.n = issued + 1 =>
                  (l \notin links /\ m \notin links => l = m)
  <2> DEFINE new == [kind |-> k, n |-> issued + 1, user |-> u]
  <2>1. new \in SomeLink /\ new.n = issued + 1 /\ new.kind = k /\ new.user = u
    BY DEF AccountTypes, SomeLink
  <2>2. links' = links \cup {new} /\ issued' = issued + 1
    BY <1>2 DEF SignIns!NewLink
  <2> HIDE DEF new
  <2>3. issued \in Nat /\ links \subseteq SomeLink
    BY DEF AccountTypes
  <2> QED
    BY <1>2, <2>1, <2>2, <2>3
<1> QED
  BY <1>1, <1>2 DEF LinksGoOn

LEMMA NumbersKept ==
  ASSUME AccountTypes, LinksNumbered, LinksGoOn,
         \A k \in Nat : <<"link", k>> \in DOMAIN used' => <<"link", k>> \in DOMAIN used \/ k <= issued,
         NEW r \in Requests, NEW n, Turned(r, n),
         Brings(n) => \/ Brings(job[r]) /\ n.op = job[r].op /\ n.link = job[r].link
                      \/ \E l \in links : l.kind = n.op /\ l.n = n.link,
         Brings(n) => n.link \in Nat
  PROVE  LinksNumbered'
<1>1. /\ issued \in Nat /\ issued' \in Nat /\ issued <= issued'
      /\ links \subseteq SomeLink /\ links' \subseteq SomeLink
  BY LinksAre DEF AccountTypes
<1>2. \A l \in links \cup links' : l.n \in Nat
  BY <1>1 DEF SomeLink
<1>3. \A q \in Requests : Brings(job[q]) => job[q].link \in Nat
  BY DEF AccountTypes, Brings, Task, SignIns!Idle
<1>4. ASSUME NEW l \in links'
      PROVE  /\ l.n <= issued'
             /\ l.kind \in {"enroll", "challenge"} => l.user \in AccountIds
             /\ \A m \in links' : l.n = m.n => l = m
  BY <1>1, <1>2, LinksAre DEF LinksNumbered
<1>5. \A k \in Nat : <<"link", k>> \in DOMAIN used' => k <= issued'
  BY <1>1 DEF LinksNumbered
\* What is known of a request that brings a link, of the links there were
<1> DEFINE Knows(j) == /\ j.link \in Nat /\ j.link <= issued
                       /\ \A l \in links : l.n = j.link => l.kind = j.op
                       /\ \A q \in Requests : Brings(job[q]) /\ job[q].link = j.link => job[q].op = j.op
<1>6. ASSUME NEW p \in Requests, Brings(job'[p]) PROVE Knows(job'[p])
  <2>1. CASE p # r
    BY <1>3, <1>6, <2>1 DEF Turned, LinksNumbered
  <2>2. CASE p = r /\ Brings(job[r]) /\ n.op = job[r].op /\ n.link = job[r].link
    BY <1>3, <2>2 DEF Turned, LinksNumbered
  <2>3. ASSUME p = r, NEW l \in links, l.kind = n.op /\ l.n = n.link PROVE Knows(job'[p])
    BY <1>2, <2>3 DEF Turned, LinksNumbered
  <2> QED
    BY <1>6, <2>1, <2>2, <2>3 DEF Turned
<1> HIDE DEF Knows
<1>7. ASSUME NEW p \in Requests, Brings(job'[p])
      PROVE  /\ job'[p].link <= issued'
             /\ \A l \in links' : l.n = job'[p].link => l.kind = job'[p].op
             /\ \A q \in Requests : Brings(job'[q]) /\ job'[q].link = job'[p].link => job'[q].op = job'[p].op
  <2>1. Knows(job'[p])
    BY <1>6, <1>7
  <2>2. job'[p].link <= issued' /\ job'[p].link # issued + 1
    BY <1>1, <2>1 DEF Knows
  <2>3. ASSUME NEW l \in links', l.n = job'[p].link PROVE l.kind = job'[p].op
    <3>1. l \in links
      BY <2>2, <2>3, LinksAre
    <3> QED
      BY <2>1, <2>3, <3>1 DEF Knows
  <2>4. ASSUME NEW q \in Requests, Brings(job'[q]), job'[q].link = job'[p].link
        PROVE  job'[q].op = job'[p].op
    <3>1. Knows(job'[q])
      BY <1>6, <2>4
    <3>2. CASE p # r
      BY <1>7, <2>4, <3>1, <3>2 DEF Knows, Turned
    <3>3. CASE q # r
      BY <2>1, <2>4, <3>3 DEF Knows, Turned
    <3> QED
      BY <3>2, <3>3
  <2> QED
    BY <2>2, <2>3, <2>4
<1> QED
  BY <1>4, <1>5, <1>7 DEF LinksNumbered, Brings

LEMMA SpentKept ==
  ASSUME AccountTypes, LinksNumbered, LinksSpent, LinksGoOn, incidents \subseteq incidents',
         \A k : <<"link", k>> \in DOMAIN used' => <<"link", k>> \in DOMAIN used,
         NEW r \in Requests, NEW n, Turned(r, n),
         Using(n) => Using(job[r]) /\ n.link = job[r].link,
         job[r].at = "drop" => "unspent" \in incidents' \/ \A l \in links' : l.n # job[r].link
  PROVE  LinksSpent'
<1>1. ASSUME SignIns!Clear({"shared", "unspent"})'
      PROVE  /\ \A p \in Requests : Using(job'[p]) =>
                  /\ <<"link", job'[p].link>> \notin DOMAIN used'
                  /\ \A q \in Requests \ {p} : Using(job'[q]) => job'[q].link # job'[p].link
             /\ \A l \in links' : <<"link", l.n>> \in DOMAIN used' =>
                  \E p \in Requests : job'[p].at = "drop" /\ job'[p].link = l.n
  <2>1. SignIns!Clear({"shared", "unspent"}) /\ "unspent" \notin incidents'
    BY <1>1 DEF SignIns!Clear
  <2>2. \A p \in Requests : Using(job'[p]) => Using(job[p]) /\ job'[p].link = job[p].link
    BY DEF Turned
  <2>3. \A p \in Requests : Using(job[p]) =>
          /\ <<"link", job[p].link>> \notin DOMAIN used
          /\ \A q \in Requests \ {p} : Using(job[q]) => job[q].link # job[p].link
    BY <2>1 DEF LinksSpent
  <2>4. ASSUME NEW l \in links', <<"link", l.n>> \in DOMAIN used'
        PROVE  \E p \in Requests : job'[p].at = "drop" /\ job'[p].link = l.n
    <3>1. l \in links
      BY LinksAre, <2>4 DEF AccountTypes, SomeLink, LinksNumbered
    <3>2. PICK p \in Requests : job[p].at = "drop" /\ job[p].link = l.n
      BY <2>1, <2>4, <3>1 DEF LinksSpent
    <3>3. p # r
      BY <2>1, <3>2
    <3> QED
      BY <3>2, <3>3 DEF Turned
  <2> QED
    BY <2>2, <2>3, <2>4
<1> QED
  BY <1>1 DEF LinksSpent, Using

LEMMA TokensKept ==
  ASSUME TokensSpent, \A k : <<"token", k>> \in DOMAIN used' => <<"token", k>> \in DOMAIN used,
         revoked \subseteq revoked', incidents \subseteq incidents',
         NEW r \in Requests, NEW n, Turned(r, n), n.at # "exchange"
  PROVE  TokensSpent'
  BY DEF Turned, TokensSpent, SignIns!Clear

LEMMA SameCardinality ==
  \A S : SignIns!Cardinality(S) = Cardinality(S)
  BY DEF SignIns!Cardinality, Cardinality

\* One session more is signed, for an account that is welcome or of which it is told.
Told == incidents' \cap {"stale", "unmarked", "behind", "ungated"} # {}
SignsIn ==
  \/ UNCHANGED sessions
  \/ \E u \in AccountIds : SignIns!Sign(u) /\ (SignIns!Welcome(row[u]) \/ Told)

LEMMA SessionsAre ==
  ASSUME AccountTypes, SignsIn
  PROVE  /\ sessions' \subseteq SomeSession /\ IsFiniteSet(sessions')
         /\ sessions \subseteq sessions'
         /\ \A s \in sessions' \ sessions :
              /\ s.at = now /\ s.iat = SignIns!Whole(now) /\ s.early = FALSE
              /\ SignIns!Welcome(row[s.user]) \/ Told
<1>1. CASE UNCHANGED sessions
  BY <1>1 DEF AccountTypes
<1>2. ASSUME NEW u \in AccountIds, SignIns!Sign(u), SignIns!Welcome(row[u]) \/ Told
      PROVE  /\ sessions' \subseteq SomeSession /\ IsFiniteSet(sessions')
             /\ sessions \subseteq sessions'
             /\ \A s \in sessions' \ sessions :
                  /\ s.at = now /\ s.iat = SignIns!Whole(now) /\ s.early = FALSE
                  /\ SignIns!Welcome(row[s.user]) \/ Told
  <2> DEFINE new == [n |-> Cardinality(sessions) + 1, user |-> u, iat |-> SignIns!Whole(now), at |-> now,
                     early |-> FALSE]
  <2>1. sessions' = sessions \cup {new}
    BY <1>2, SameCardinality, Zenon DEF SignIns!Sign
  <2>2. IsFiniteSet(sessions) /\ Cardinality(sessions) \in Nat
    BY FS_CardinalityType DEF AccountTypes
  <2>3. now \in Nat /\ SignIns!Whole(now) \in Nat
    BY DEF AccountTypes, SignIns!Whole, SignIns!Second
  <2>4. new \in SomeSession
    BY <2>2, <2>3 DEF SomeSession
  <2>5. new.at = now /\ new.iat = SignIns!Whole(now) /\ new.early = FALSE /\ new.user = u
    OBVIOUS
  <2> HIDE DEF new
  <2>6. IsFiniteSet(sessions')
    BY <2>1, <2>2, FS_AddElement
  <2>7. sessions' \subseteq SomeSession
    BY <2>1, <2>4 DEF AccountTypes
  <2> QED
    BY <1>2, <2>1, <2>5, <2>6, <2>7
<1> QED
  BY <1>1, <1>2 DEF SignsIn

LEMMA TimesKept ==
  ASSUME AccountTypes, TimesInOrder, SignsIn, UNCHANGED <<mark, last, now>>
  PROVE  TimesInOrder'
<1>1. now \in Nat /\ SignIns!Whole(now) <= now /\ now <= SignIns!Whole(now) + 1
  BY DEF AccountTypes, SignIns!Whole, SignIns!Second
<1>2. ASSUME NEW s \in sessions'
      PROVE  /\ s.iat <= s.at /\ s.at <= s.iat + 1 /\ s.at <= now
             /\ s.early => s.at < last[s.user]
  <2>1. CASE s \in sessions
    BY <2>1 DEF TimesInOrder
  <2>2. CASE s \notin sessions
    <3>1. s.at = now /\ s.iat = SignIns!Whole(now) /\ s.early = FALSE
      BY <2>2, SessionsAre, Zenon
    <3> QED
      BY <1>1, <3>1
  <2> QED
    BY <2>1, <2>2
<1> QED
  BY <1>2 DEF TimesInOrder

LEMMA BarredKept ==
  ASSUME BarredStay, UNCHANGED <<row, barred>>, incidents \subseteq incidents'
  PROVE  BarredStay'
  BY DEF BarredStay, SignIns!Clear, SignIns!Exists

LEMMA EndsKept ==
  ASSUME AccountTypes, SessionsEnd, SignsIn, UNCHANGED mark, incidents \subseteq incidents',
         NEW r \in Requests, NEW n, Turned(r, n),
         Ending(job[r]) => "unmarked" \in incidents' \/ (Ending(n) /\ n.user = job[r].user),
         \A i \in AccountIds : SignIns!Welcome(row[i]) =>
           SignIns!Welcome(row'[i]) \/ Told \/ (Ending(n) /\ n.user = i)
  PROVE  SessionsEnd'
<1> SUFFICES ASSUME SignIns!Clear({"stale", "unmarked", "behind", "ungated"})',
                    NEW s \in sessions', SignIns!IsActive(s)'
             PROVE  \/ SignIns!Welcome(row'[s.user])
                    \/ \E p \in Requests : Ending(job'[p]) /\ job'[p].user = s.user
  BY DEF SessionsEnd, SignIns!IsActive, SignIns!Welcome, SignIns!Exists, Ending
<1>1. /\ SignIns!Clear({"stale", "unmarked", "behind", "ungated"}) /\ ~Told /\ "unmarked" \notin incidents'
      /\ SignIns!IsActive(s) /\ s.user \in AccountIds
  BY SessionsAre DEF SignIns!Clear, Told, SignIns!IsActive, SomeSession
<1>2. CASE SignIns!Welcome(row[s.user])
  BY <1>1, <1>2 DEF Turned
<1>3. CASE s \in sessions /\ ~SignIns!Welcome(row[s.user])
  <2>1. PICK p \in Requests : Ending(job[p]) /\ job[p].user = s.user
    BY <1>1, <1>3 DEF SessionsEnd
  <2> QED
    BY <1>1, <2>1 DEF Turned
<1>4. CASE s \notin sessions
  BY <1>1, <1>2, <1>4, SessionsAre
<1> QED
  BY <1>2, <1>3, <1>4

-----------------------------------------------------------------------------
(* Steps of Accounts that write no row, and use no link.                    *)

\* A request goes on, and may make a link, sign a session, or revoke a token.
LEMMA Proceeds ==
  ASSUME AccountsInv, NEW r \in Requests, NEW n, Turned(r, n), LinksGoOn, SignsIn,
         UNCHANGED <<row, indexed, made, barred, used, mark, last, now>>,
         revoked \subseteq revoked', incidents \subseteq incidents',
         n # SignIns!Idle => Doing(n),
         n.at \notin {"send", "unindex", "exchange"},
         Holder(n) => /\ n.user \in made
                      /\ SignIns!Exists(row[n.user]) \/ (Holder(job[r]) /\ n.user = job[r].user),
         Brings(n) => \/ Brings(job[r]) /\ n.op = job[r].op /\ n.link = job[r].link
                      \/ \E l \in links : l.kind = n.op /\ l.n = n.link,
         Using(n) => Using(job[r]) /\ n.link = job[r].link,
         job[r].at = "index" /\ job[r].user \notin indexed => "unlisted" \in incidents',
         job[r].at = "drop" => "unspent" \in incidents' \/ \A l \in links' : l.n # job[r].link,
         Ending(job[r]) => "unmarked" \in incidents' \/ (Ending(n) /\ n.user = job[r].user)
  PROVE  AccountsInv'
<1>1. AccountTypes'
  BY LinksAre, SessionsAre DEF AccountsInv, AccountTypes, Turned
<1>2. Tasks'
  BY TasksKept DEF AccountsInv
<1>3. IdsGivenOnce' /\ RowsListed' /\ Alone'
  BY GivenKept DEF AccountsInv
<1>4. Brings(n) => n.link \in Nat
  BY IdleDoesNothing DEF Turned, Task
<1>5. LinksNumbered'
  BY <1>4, NumbersKept DEF AccountsInv
<1>6. LinksSpent' /\ Once'
  BY SpentKept DEF AccountsInv, Once, SignIns!Clear
<1>7. TokensSpent'
  BY TokensKept DEF AccountsInv
<1>8. TimesInOrder' /\ BarredStay'
  BY TimesKept, BarredKept DEF AccountsInv
<1>9. SessionsEnd'
  BY EndsKept DEF AccountsInv
<1> QED
  BY <1>1, <1>2, <1>3, <1>5, <1>6, <1>7, <1>8, <1>9 DEF AccountsInv

LEMMA Finishes ==
  ASSUME AccountsInv, NEW r \in Requests, SignIns!End(r), LinksGoOn, SignsIn,
         UNCHANGED <<row, indexed, made, barred, used, mark, last, now>>,
         revoked \subseteq revoked', incidents \subseteq incidents',
         job[r].at = "index" /\ job[r].user \notin indexed => "unlisted" \in incidents',
         job[r].at = "drop" => "unspent" \in incidents' \/ \A l \in links' : l.n # job[r].link,
         Ending(job[r]) => "unmarked" \in incidents'
  PROVE  AccountsInv'
  BY EndTurns, IdleDoesNothing, Proceeds DEF AccountsInv

\* A request that arrives has its link from where it was sent, or its account from a session.
LEMMA ArrivingIs ==
  ASSUME AccountsInv, NEW n \in SignIns!Arriving
  PROVE  /\ n \in Task /\ Doing(n) /\ ~Using(n)
         /\ n.at \in {"find", "token", "get", "mark", "refresh", "signout"}
         /\ Brings(n) => \E l \in links : l.kind = n.op /\ l.n = n.link
<1> DEFINE Fine == /\ n \in Task /\ Doing(n) /\ ~Using(n)
                   /\ n.at \in {"find", "token", "get", "mark", "refresh", "signout"}
                   /\ Brings(n) => \E l \in links : l.kind = n.op /\ l.n = n.link
<1>1. /\ links \subseteq SomeLink /\ sessions \subseteq SomeSession /\ made \subseteq AccountIds
      /\ \A l \in links : l.kind \in {"enroll", "challenge"} => l.user \in AccountIds
  BY DEF AccountsInv, AccountTypes, LinksNumbered
<1>2. ASSUME NEW op \in Deeds, NEW at \in Places, NEW user \in AccountIds \cup {0}, NEW link \in Nat,
             n = SignIns!New(op, at, user, link)
      PROVE  n \in Task /\ n.op = op /\ n.at = at /\ n.user = user /\ n.link = link
  BY <1>2 DEF SignIns!New, Task
<1>3. ASSUME NEW op \in {"signup", "register", "create", "signin"}, n = SignIns!New(op, "find", 0, 0)
      PROVE  Fine
  BY <1>2, <1>3 DEF Deeds, Makers, Editors, Places, Doing, Named, Using, Brings, SignIns!Kinds,
     SignIns!Edits
<1>4. ASSUME NEW op \in {"askReset", "askMagic", "start"}, n = SignIns!New(op, "token", 0, 0)
      PROVE  Fine
  <2>1. op \in Deeds /\ "token" \in Places /\ 0 \in Nat
    BY DEF Deeds, Makers, Editors, Places
  <2>2. n \in Task /\ n.op = op /\ n.at = "token"
    BY <1>2, <1>4, <2>1
  <2> QED
    BY <2>2 DEF Doing, Named, Using, Brings, Makers, Editors, SignIns!Kinds, SignIns!Edits
<1>5. ASSUME NEW l \in links, n = SignIns!New(l.kind, "get", l.user, l.n)
      PROVE  Fine
  <2>1. l.kind \in SignIns!Kinds /\ l.user \in AccountIds \cup {0} /\ l.n \in Nat
    BY <1>1 DEF SomeLink
  <2>2. l.kind \in Deeds /\ "get" \in Places
    BY <2>1 DEF Deeds, Makers, Editors, Places, SignIns!Kinds
  <2>3. n \in Task /\ n.op = l.kind /\ n.at = "get" /\ n.user = l.user /\ n.link = l.n
    BY <1>2, <1>5, <2>1, <2>2
  <2> QED
    BY <1>1, <2>1, <2>3 DEF Doing, Named, Using, Brings, Makers, Editors, SignIns!Kinds, SignIns!Edits
<1>6. ASSUME NEW s \in sessions, n = SignIns!New("enrol", "find", s.user, 0)
      PROVE  Fine
  <2>1. "enrol" \in Deeds /\ "find" \in Places /\ 0 \in Nat /\ s.user \in AccountIds
    BY <1>1 DEF Deeds, Makers, Editors, Places, SomeSession
  <2>2. n \in Task /\ n.op = "enrol" /\ n.at = "find" /\ n.user = s.user
    BY <1>2, <1>6, <2>1
  <2> QED
    BY <2>1, <2>2 DEF Doing, Named, Using, Brings, Makers, Editors, SignIns!Kinds, SignIns!Edits
<1>7. ASSUME NEW op \in SignIns!Edits \cup {"delete"}, NEW i \in made, n = SignIns!New(op, "find", i, 0)
      PROVE  Fine
  BY <1>1, <1>2, <1>7 DEF Deeds, Makers, Editors, Places, SignIns!Edits, Doing, Named, Using,
     Brings, SignIns!Kinds
<1>8. ASSUME NEW i \in made, n = SignIns!New("revoke", "mark", i, 0)
      PROVE  Fine
  BY <1>1, <1>2, <1>8 DEF Deeds, Makers, Editors, Places, SignIns!Edits, Doing, Named, Using,
     Brings, SignIns!Kinds
<1>9. ASSUME NEW op \in {"refresh", "signout"}, NEW s \in sessions, n = SignIns!New(op, op, s.user, s.n)
      PROVE  Fine
  <2>1. op \in Deeds /\ op \in Places /\ s.n \in Nat /\ s.user \in AccountIds
    BY <1>1 DEF Deeds, Makers, Editors, Places, SignIns!Edits, SomeSession
  <2>2. n \in Task /\ n.op = op /\ n.at = op /\ n.user = s.user
    BY <1>2, <1>9, <2>1
  <2> QED
    BY <2>1, <2>2 DEF Doing, Named, Using, Brings, Makers, Editors, SignIns!Kinds, SignIns!Edits
<1> QED
  <2> HIDE DEF Fine
  <2>1. Fine
    BY <1>3, <1>4, <1>5, <1>6, <1>7, <1>8, <1>9 DEF SignIns!Arriving
  <2> QED
    BY <2>1 DEF Fine

LEMMA BeginsAccount ==
  ASSUME AccountsInv, NEW r \in Requests, SignIns!Begin(r)
  PROVE  AccountsInv'
<1>1. PICK n \in SignIns!Arriving :
        /\ job[r] = SignIns!Idle /\ job' = [job EXCEPT ![r] = n]
        /\ UNCHANGED <<SignIns!store, now, SignIns!ghosts, faults, incidents>>
  BY DEF SignIns!Begin
<1>2. UNCHANGED <<row, indexed, links, mark, revoked, sessions, now, made, issued, barred, used, last, incidents>>
  BY <1>1 DEF SignIns!store, SignIns!ghosts
<1>3. /\ n \in Task /\ Doing(n) /\ ~Using(n)
      /\ n.at \in {"find", "token", "get", "mark", "refresh", "signout"}
      /\ Brings(n) => \E l \in links : l.kind = n.op /\ l.n = n.link
  BY ArrivingIs
<1>4. Turned(r, n)
  BY <1>1, <1>3 DEF AccountsInv, AccountTypes, Turned
<1>5. LinksGoOn /\ SignsIn
  BY <1>2 DEF LinksGoOn, SignsIn
<1>6. ~Holder(n)
  BY <1>3 DEF Holder
<1>7. job[r].at = "idle" /\ ~Ending(job[r])
  BY <1>1, IdleDoesNothing
<1> QED
  BY <1>2, <1>3, <1>4, <1>5, <1>6, <1>7, Proceeds

\* What a request finds unchanged that only moves on
LEMMA Standing ==
  ASSUME SignIns!Stay, UNCHANGED <<SignIns!store, SignIns!ghosts>>
  PROVE  /\ UNCHANGED <<row, indexed, made, barred, used, mark, last, now, links, issued, sessions, revoked>>
         /\ LinksGoOn /\ SignsIn
  BY DEF SignIns!Stay, SignIns!store, SignIns!ghosts, LinksGoOn, SignsIn

\* Two ways out of a mail that was not sent
LEMMA Undoes ==
  ASSUME AccountsInv, NEW r \in Requests, job[r].op = "register", job[r].at \in {"token", "email"},
         SignIns!Put(r, [op |-> "delete", at |-> "find", link |-> 0]),
         UNCHANGED <<row, indexed, made, barred, used, mark, last, now, links, issued, sessions, revoked>>,
         incidents \subseteq incidents'
  PROVE  AccountsInv'
<1> DEFINE c == [op |-> "delete", at |-> "find", link |-> 0]
           n == Over(job[r], c)
<1>1. job[r] \in Task /\ Doing(job[r]) /\ job[r].user \in AccountIds
  BY AtWork DEF AccountsInv, Doing, Named
<1>2. DOMAIN c = {"op", "at", "link"} /\ c["op"] = "delete" /\ c["at"] = "find" /\ c["link"] = 0
  OBVIOUS
<1>3. SignIns!Put(r, c)
  OBVIOUS
<1> HIDE DEF c
<1>4. "delete" \in Deeds /\ "find" \in Places
  BY DEF Deeds, Places
<1>5. n \in Task /\ n.op = "delete" /\ n.at = "find" /\ n.user = job[r].user
  BY <1>1, <1>2, <1>4, OverIsTask DEF Parts
<1>6. Turned(r, n)
  BY <1>3, <1>5, PutTurns DEF AccountsInv
<1> HIDE DEF n
<1>7. /\ Doing(n) /\ ~Holder(n) /\ ~Using(n) /\ ~Brings(n)
      /\ ~Ending(job[r])
  BY <1>1, <1>5 DEF Doing, Named, Holder, Using, Brings, Ending, Makers, Editors, SignIns!Edits, SignIns!Kinds
<1>8. LinksGoOn /\ SignsIn
  BY DEF LinksGoOn, SignsIn
<1> QED
  BY <1>5, <1>6, <1>7, <1>8, Proceeds

LEMMA TokenKeeps ==
  ASSUME AccountsInv, NEW r \in Requests, SignIns!Token(r)
  PROVE  AccountsInv'
<1> DEFINE j == job[r]
           c == [at |-> "email", link |-> issued']
           n == Over(j, c)
           kind == CASE j.op = "askReset" -> "reset" [] j.op = "askMagic" -> "magic"
                     [] j.op = "start" -> "oauth"    [] j.op = "register" -> "confirm"
<1>1. /\ j.at = "token" /\ j \in Task /\ Doing(j)
      /\ j.op \in {"askReset", "askMagic", "start", "register"}
  BY AtWork DEF SignIns!Token, SignIns!At, AccountsInv, Doing
<1>2. /\ SignIns!NewLink(kind, 0)
      /\ IF j.op = "start" THEN SignIns!End(r) ELSE SignIns!Put(r, c)
      /\ UNCHANGED <<row, indexed, made, barred, used, mark, last, now, sessions, revoked, incidents>>
  BY DEF SignIns!Token, SignIns!Stay
<1>3. kind \in {"reset", "magic", "oauth", "confirm"}
  BY <1>1
<1>4. LinksGoOn /\ SignsIn /\ issued' \in Nat
  <2> HIDE DEF kind
  <2>1. LinksGoOn
    BY <1>2, <1>3 DEF LinksGoOn, SignIns!Kinds
  <2>2. issued' \in Nat
    BY <1>2 DEF SignIns!NewLink, AccountsInv, AccountTypes
  <2> QED
    BY <1>2, <2>1, <2>2 DEF SignsIn
<1> HIDE DEF kind
<1>5. CASE j.op = "start"
  BY <1>1, <1>2, <1>4, <1>5, Finishes DEF Ending
<1>6. CASE j.op # "start"
  <2>1. DOMAIN c = {"at", "link"} /\ c["at"] = "email" /\ c["link"] = issued' /\ "email" \in Places
    BY DEF Places
  <2> HIDE DEF c
  <2>2. n \in Task /\ n.at = "email" /\ n.op = j.op /\ n.user = j.user
    BY <1>1, <1>4, <2>1, OverIsTask DEF Parts
  <2>3. Turned(r, n)
    BY <1>2, <1>6, <2>2, PutTurns DEF AccountsInv
  <2> HIDE DEF n
  <2>4. Doing(n)
    BY <1>1, <1>6, <2>2 DEF Doing, Named, SignIns!Edits
  <2>5. ~Holder(n) /\ ~Brings(n) /\ ~Using(n) /\ ~Ending(j)
    BY <1>1, <2>2 DEF Holder, Brings, Using, Ending, SignIns!Kinds
  <2> QED
    BY <1>1, <1>2, <1>4, <2>2, <2>3, <2>4, <2>5, Proceeds
<1> QED
  BY <1>5, <1>6

LEMMA EmailKeeps ==
  ASSUME AccountsInv, NEW r \in Requests, SignIns!Email(r)
  PROVE  AccountsInv'
  BY Standing, Finishes DEF SignIns!Email, SignIns!At, Ending

\* A request goes to a place where it only waits for its turn.
LEMMA GoesTo ==
  ASSUME AccountsInv, NEW r \in Requests, NEW label \in Places, SignIns!Goto(r, label), job[r].at # "idle",
         LinksGoOn, SignsIn,
         UNCHANGED <<row, indexed, made, barred, used, mark, last, now>>,
         revoked \subseteq revoked', incidents \subseteq incidents',
         \A n \in Task : n.at = label /\ n.op = job[r].op /\ n.user = job[r].user /\ n.seen = job[r].seen =>
           Doing(n) /\ (Holder(n) => Holder(job[r])) /\ (Ending(job[r]) => Ending(n)),
         \A n \in Task : n.at = label /\ n.op = job[r].op => (Using(n) => Using(job[r])),
         label \notin {"send", "unindex", "exchange"}, job[r].at \notin {"drop", "index"}
  PROVE  AccountsInv'
<1>1. PICK n \in Task : /\ Turned(r, n) /\ n.at = label
                        /\ n.op = job[r].op /\ n.user = job[r].user /\ n.link = job[r].link
                        /\ n.seen = job[r].seen
  BY GotoTurns DEF AccountsInv
<1>2. Holder(n) => n.user \in made /\ Holder(job[r]) /\ n.user = job[r].user
  BY <1>1 DEF AccountsInv, IdsGivenOnce
<1>3. Brings(n) => Brings(job[r]) /\ n.op = job[r].op /\ n.link = job[r].link
  BY <1>1 DEF Brings
<1>4. n # SignIns!Idle => Doing(n)
  BY <1>1
<1>5. (Using(n) => Using(job[r]) /\ n.link = job[r].link) /\ (Ending(job[r]) => Ending(n) /\ n.user = job[r].user)
  BY <1>1
<1> QED
  BY <1>1, <1>2, <1>3, <1>4, <1>5, Proceeds

LEMMA EmailFailsKeeps ==
  ASSUME AccountsInv, NEW r \in Requests, SignIns!EmailFails(r)
  PROVE  AccountsInv'
<1> DEFINE j == job[r]
<1>1. j.at = "email" /\ j.op \in {"askReset", "askMagic", "register"}
  BY AtWork DEF SignIns!EmailFails, SignIns!At, AccountsInv, Doing
<1>2. UNCHANGED <<row, indexed, made, barred, used, mark, last, now, links, issued, sessions, revoked, incidents>>
  BY DEF SignIns!EmailFails, SignIns!store, SignIns!ghosts
<1>3. LinksGoOn /\ SignsIn
  BY <1>2 DEF LinksGoOn, SignsIn
<1>4. CASE j.op = "askReset"
  BY <1>4, <1>1, <1>2, <1>3, Finishes DEF SignIns!EmailFails, Ending
<1>5. CASE j.op = "askMagic"
  BY <1>5, <1>1, <1>2, <1>3, GoesTo DEF SignIns!EmailFails, Places, Doing, Named, Holder, Using,
     Ending, SignIns!Edits
<1>6. CASE j.op = "register"
  BY <1>6, <1>1, <1>2, Undoes DEF SignIns!EmailFails
<1> QED
  BY <1>1, <1>4, <1>5, <1>6

LEMMA WithdrawKeeps ==
  ASSUME AccountsInv, NEW r \in Requests, SignIns!Withdraw(r)
  PROVE  AccountsInv'
  BY Finishes DEF SignIns!Withdraw, SignIns!At, SignIns!Stay, SignIns!ghosts, LinksGoOn, SignsIn,
     Ending

LEMMA UniqueKeeps ==
  ASSUME AccountsInv, NEW r \in Requests, SignIns!Unique(r)
  PROVE  AccountsInv'
  BY AtWork, Standing, Finishes, GoesTo DEF SignIns!Unique, SignIns!At, AccountsInv, Ending, Places,
     Doing, Named, Holder, Using

LEMMA DropEnrollmentKeeps ==
  ASSUME AccountsInv, NEW r \in Requests, SignIns!DropEnrollment(r)
  PROVE  AccountsInv'
  BY Finishes DEF SignIns!DropEnrollment, SignIns!At, SignIns!Stay, SignIns!ghosts, LinksGoOn,
     SignsIn, Ending

LEMMA SignResetKeeps ==
  ASSUME AccountsInv, NEW r \in Requests, SignIns!SignReset(r)
  PROVE  AccountsInv'
<1>1. job[r].at = "sign" /\ job[r].user \in AccountIds
  BY AtWork DEF SignIns!SignReset, SignIns!At, AccountsInv, Doing, Named
<1>2. /\ SignIns!Sign(job[r].user) /\ SignIns!End(r)
      /\ incidents' = incidents \cup SignIns!When(~SignIns!Welcome(row[job[r].user]), "behind")
      /\ UNCHANGED <<row, indexed, made, barred, used, mark, last, now, links, issued, revoked>>
  BY DEF SignIns!SignReset, SignIns!Stay, SignIns!ghosts, SignIns!Mark
<1>3. SignIns!Welcome(row[job[r].user]) \/ Told
  BY <1>2 DEF SignIns!When, Told
<1>4. LinksGoOn /\ SignsIn
  BY <1>1, <1>2, <1>3 DEF LinksGoOn, SignsIn
<1> QED
  BY <1>1, <1>2, <1>4, Finishes DEF Ending

LEMMA SignOutKeeps ==
  ASSUME AccountsInv, NEW r \in Requests, SignIns!SignOut(r)
  PROVE  AccountsInv'
  BY Finishes DEF SignIns!SignOut, SignIns!At, SignIns!Stay, SignIns!ghosts, LinksGoOn, SignsIn,
     Ending

LEMMA FailAccountKeeps ==
  ASSUME AccountsInv, NEW r \in Requests, SignIns!Fail(r)
  PROVE  AccountsInv'
<1> DEFINE j == job[r]
<1>1. /\ UNCHANGED <<row, indexed, made, barred, used, mark, last, now, links, issued, sessions, revoked>>
      /\ incidents \subseteq incidents'
  BY DEF SignIns!Fail, SignIns!store, SignIns!ghosts, SignIns!Mark
<1>2. /\ j.at = "index" /\ j.user \notin indexed => "unlisted" \in incidents'
      /\ j.at = "drop" => "unspent" \in incidents'
      /\ Ending(j) => "unmarked" \in incidents'
  BY DEF SignIns!Fail, SignIns!Mark, Ending
<1>3. LinksGoOn /\ SignsIn
  BY <1>1 DEF LinksGoOn, SignsIn
<1>4. CASE j.op = "register" /\ j.at \in {"token", "email"}
  BY <1>4, <1>1, Undoes DEF SignIns!Fail
<1>5. CASE ~(j.op = "register" /\ j.at \in {"token", "email"})
  BY <1>5, <1>1, <1>2, <1>3, Finishes DEF SignIns!Fail
<1> QED
  BY <1>4, <1>5

\* What is found is an account that there is.
LEMMA FoundIs ==
  ASSUME AccountsInv, NEW j, SignIns!Found(j) # {}
  PROVE  LET i == SignIns!Min(SignIns!Found(j))
         IN  i \in SignIns!Found(j) /\ i \in AccountIds /\ i \in made /\ SignIns!Exists(row[i]) /\ row[i] \in SignIns!Row
<1> DEFINE S == SignIns!Found(j)
<1>1. S \subseteq indexed /\ \A i \in S : SignIns!Exists(row[i])
  BY DEF SignIns!Found, SignIns!Listed
<1>2. S \subseteq AccountIds /\ AccountIds \subseteq Nat
  BY <1>1, ControlAssumption DEF AccountsInv, AccountTypes
<1> HIDE DEF S
<1>3. SignIns!Min(S) \in S
  BY <1>2, MinIsLeast DEF S
<1>4. \A i \in S : i \in made /\ row[i] \in SignIns!Row
  BY <1>1, <1>2 DEF AccountsInv, AccountTypes, IdsGivenOnce, SignIns!Exists
<1> QED
  BY <1>1, <1>2, <1>3, <1>4 DEF S

LEMMA Finds ==
  ASSUME AccountsInv, NEW r \in Requests, job[r].at = "find",
         NEW i \in AccountIds, i \in made, SignIns!Exists(row[i]), row[i] \in SignIns!Row,
         NEW label \in {"unique", "delete"}, SignIns!Put(r, [at |-> label, user |-> i, seen |-> row[i]]),
         label = "delete" => job[r].op = "delete",
         label = "unique" => /\ job[r].op \in Editors
                             /\ job[r].op \in {"signin", "magic", "oauth"} => ~row[i].disabled,
         UNCHANGED <<row, indexed, made, barred, used, mark, last, now, links, issued, sessions, revoked,
                     incidents>>
  PROVE  AccountsInv'
<1> DEFINE j == job[r]
           c == [at |-> label, user |-> i, seen |-> row[i]]
           n == Over(j, c)
<1>1. j \in Task /\ Doing(j)
  BY AtWork DEF AccountsInv
<1>2. /\ DOMAIN c = {"at", "user", "seen"} /\ c["at"] = label /\ c["user"] = i /\ c["seen"] = row[i]
      /\ label \in Places /\ SignIns!Put(r, c)
  BY DEF Places
<1> HIDE DEF c
<1>3. n \in Task /\ n.at = label /\ n.user = i /\ n.seen = row[i] /\ n.op = j.op /\ n.link = j.link
  BY <1>1, <1>2, OverIsTask DEF Parts
<1>4. Turned(r, n)
  BY <1>2, <1>3, PutTurns DEF AccountsInv
<1> HIDE DEF n
<1>5. Doing(n)
  BY <1>3 DEF Doing, Named
<1>6. /\ Brings(n) => Brings(j)
      /\ Using(n) => Using(j)
      /\ ~Ending(j)
  BY <1>3 DEF Brings, Using, Ending
<1>7. LinksGoOn /\ SignsIn
  BY DEF LinksGoOn, SignsIn
<1>8. n.at \notin {"send", "unindex", "exchange"}
  BY <1>3
<1> QED
  BY <1>3, <1>4, <1>5, <1>6, <1>7, <1>8, Proceeds

LEMMA FindOneKeeps ==
  ASSUME AccountsInv, NEW r \in Requests, SignIns!FindOne(r)
  PROVE  AccountsInv'
<1> DEFINE j == job[r]
           i == SignIns!Min(SignIns!Found(j))
           found(label) == SignIns!Put(r, [at |-> label, user |-> i, seen |-> row[i]])
<1>1. j.at = "find" /\ SignIns!Found(j) # {}
  BY DEF SignIns!FindOne, SignIns!At
<1>2. j.op \in Makers \cup Editors \cup {"enrol", "delete"} /\ ~Ending(j)
  BY <1>1, AtWork DEF AccountsInv, Doing, Ending
<1>3. i \in AccountIds /\ i \in made /\ SignIns!Exists(row[i]) /\ row[i] \in SignIns!Row
  BY <1>1, FoundIs
<1>4. UNCHANGED <<row, indexed, made, barred, used, mark, last, now, revoked, incidents>>
  BY DEF SignIns!FindOne, SignIns!Stay
<1>5. \/ SignIns!End(r) /\ UNCHANGED <<links, sessions, issued>>
      \/ SignIns!End(r) /\ SignIns!NewLink("challenge", i) /\ UNCHANGED sessions
      \/ SignIns!End(r) /\ SignIns!NewLink("enroll", i) /\ UNCHANGED sessions
      \/ SignIns!End(r) /\ SignIns!Sign(i) /\ j.op = "magic" /\ SignIns!MayGoOn(j.op, row[i])
           /\ UNCHANGED <<links, issued>>
      \/ j.op = "delete" /\ found("delete") /\ UNCHANGED <<links, sessions, issued>>
      \/ /\ j.op \notin {"delete", "enrol"} /\ SignIns!MayGoOn(j.op, row[i])
         /\ found("unique") /\ UNCHANGED <<links, sessions, issued>>
  <2>1. CASE ~SignIns!MayGoOn(j.op, row[i])
    BY <2>1 DEF SignIns!FindOne
  <2>2. CASE SignIns!MayGoOn(j.op, row[i]) /\ j.op = "signin" /\ row[i].mfa
    BY <2>2 DEF SignIns!FindOne
  <2>3. CASE SignIns!MayGoOn(j.op, row[i]) /\ j.op = "magic" /\ row[i].confirmed /\ row[i].signed
    BY <2>3 DEF SignIns!FindOne
  <2>4. CASE SignIns!MayGoOn(j.op, row[i]) /\ j.op = "enrol"
    BY <2>4 DEF SignIns!FindOne
  <2>5. CASE SignIns!MayGoOn(j.op, row[i]) /\ j.op = "delete"
    BY <2>5 DEF SignIns!FindOne
  <2>6. CASE /\ SignIns!MayGoOn(j.op, row[i]) /\ j.op \notin {"delete", "enrol"}
             /\ ~(j.op = "signin" /\ row[i].mfa)
             /\ ~(j.op = "magic" /\ row[i].confirmed /\ row[i].signed)
    BY <2>6 DEF SignIns!FindOne
  <2> HIDE DEF i, found
  <2> QED
    BY <2>1, <2>2, <2>3, <2>4, <2>5, <2>6
<1> HIDE DEF i, found
<1>6. CASE SignIns!End(r) /\ UNCHANGED <<links, sessions, issued>>
  BY <1>6, <1>1, <1>2, <1>4, Finishes DEF LinksGoOn, SignsIn
<1>7. ASSUME NEW k \in {"challenge", "enroll"}, SignIns!End(r) /\ SignIns!NewLink(k, i) /\ UNCHANGED sessions
      PROVE  AccountsInv'
  BY <1>3, <1>7, <1>1, <1>2, <1>4, Finishes DEF LinksGoOn, SignsIn, SignIns!Kinds
<1>8. CASE /\ SignIns!End(r) /\ SignIns!Sign(i) /\ j.op = "magic" /\ SignIns!MayGoOn(j.op, row[i])
           /\ UNCHANGED <<links, issued>>
  BY <1>3, <1>8, <1>1, <1>2, <1>4, Finishes DEF SignIns!Welcome, SignIns!MayGoOn, LinksGoOn, SignsIn
<1>9. CASE j.op = "delete" /\ found("delete") /\ UNCHANGED <<links, sessions, issued>>
  BY <1>1, <1>3, <1>4, <1>9, Finds DEF found
<1>10. CASE /\ j.op \notin {"delete", "enrol"} /\ SignIns!MayGoOn(j.op, row[i])
            /\ found("unique") /\ UNCHANGED <<links, sessions, issued>>
  BY <1>2, <1>10, <1>1, <1>3, <1>4, Finds DEF SignIns!MayGoOn, Makers, Editors, found
<1> QED
  BY <1>5, <1>6, <1>7, <1>8, <1>9, <1>10

-----------------------------------------------------------------------------
(* Steps of Accounts that use a link or a token.                            *)

\* What a step that touches no row, mark or session leaves as it is
LEMMA RowsStay ==
  ASSUME AccountsInv, UNCHANGED <<row, indexed, made, barred, mark, last, now>>, SignsIn,
         incidents \subseteq incidents',
         NEW r \in Requests, NEW n, Turned(r, n), n # SignIns!Idle => Doing(n), ~Holder(n), ~Ending(job[r]),
         job[r].at # "index", links' \subseteq SomeLink, issued' \in Nat
  PROVE  /\ AccountTypes' /\ Tasks' /\ IdsGivenOnce' /\ RowsListed' /\ Alone'
         /\ TimesInOrder' /\ BarredStay' /\ SessionsEnd'
  BY SessionsAre, TasksKept, GivenKept, TimesKept, BarredKept, EndsKept DEF AccountsInv,
     AccountTypes, Turned, Holder

LEMMA GetAccountKeeps ==
  ASSUME AccountsInv, NEW r \in Requests, SignIns!Get(r)
  PROVE  AccountsInv'
<1> DEFINE j == job[r]
           sharing == \E q \in Requests \ {r} :
                        job[q] # SignIns!Idle /\ job[q].link = j.link /\ job[q].op = j.op /\ job[q].at # "get"
           label == IF j.op = "enroll" THEN "find" ELSE "spend"
<1>1. /\ j.at = "get" /\ j \in Task /\ Doing(j) /\ j.op \in SignIns!Kinds /\ j.link \in Nat
      /\ j.at # "idle" /\ ~Ending(j)
  BY AtWork DEF SignIns!Get, SignIns!At, AccountsInv, Doing, Ending
<1>2. /\ UNCHANGED <<row, indexed, made, barred, used, mark, last, now, links, issued, sessions, revoked>>
      /\ LinksGoOn /\ SignsIn
  BY Standing DEF SignIns!Get
<1>3. CASE SignIns!End(r) /\ UNCHANGED incidents
  BY <1>1, <1>2, <1>3, Finishes
<1>4. CASE /\ SignIns!Goto(r, label) /\ \E l \in links : l.n = j.link
           /\ incidents' = incidents \cup SignIns!When(sharing, "shared")
  <2>1. label \in Places /\ label \in {"find", "spend"} /\ (label = "find" <=> j.op = "enroll")
    BY DEF Places
  <2> HIDE DEF label
  <2>2. PICK n \in Task : /\ Turned(r, n) /\ n.at = label
                          /\ n.op = j.op /\ n.user = j.user /\ n.link = j.link /\ n.seen = j.seen
    BY <1>1, <1>4, <2>1, GotoTurns DEF AccountsInv
  <2>3. Doing(n) /\ ~Holder(n) /\ Using(n)
    BY <1>1, <2>1, <2>2 DEF Doing, Named, Holder, Using, Makers, Editors, SignIns!Kinds
  <2>4. incidents \subseteq incidents'
    BY <1>4
  <2>5. links' \subseteq SomeLink /\ issued' \in Nat
    BY <1>2 DEF AccountsInv, AccountTypes
  <2>6. /\ AccountTypes' /\ Tasks' /\ IdsGivenOnce' /\ RowsListed' /\ Alone'
        /\ TimesInOrder' /\ BarredStay' /\ SessionsEnd'
    BY <1>1, <1>2, <2>2, <2>3, <2>4, <2>5, RowsStay
  <2>7. Brings(j) /\ n.link \in Nat
    BY <1>1, <2>2 DEF Brings
  <2>8. LinksNumbered'
    BY <1>2, <2>2, <2>7, NumbersKept DEF AccountsInv
  <2>9. n.at # "exchange"
    BY <2>1, <2>2
  <2>10. TokensSpent'
    BY <1>2, <2>2, <2>4, <2>9, TokensKept DEF AccountsInv
  <2>11. Once'
    BY <1>2, <2>4 DEF AccountsInv, Once, SignIns!Clear
  <2>12. LinksSpent'
    <3> SUFFICES ASSUME SignIns!Clear({"shared", "unspent"})'
                 PROVE  /\ \A p \in Requests : Using(job'[p]) =>
                             /\ <<"link", job'[p].link>> \notin DOMAIN used
                             /\ \A q \in Requests \ {p} : Using(job'[q]) => job'[q].link # job'[p].link
                        /\ \A l \in links : <<"link", l.n>> \in DOMAIN used =>
                             \E p \in Requests : job'[p].at = "drop" /\ job'[p].link = l.n
      BY <1>2 DEF LinksSpent, Using
    <3>1. SignIns!Clear({"shared", "unspent"}) /\ ~sharing
      BY <1>4, <2>4 DEF SignIns!Clear, SignIns!When
    <3>2. /\ \A p \in Requests : Using(job[p]) =>
               /\ <<"link", job[p].link>> \notin DOMAIN used
               /\ \A q \in Requests \ {p} : Using(job[q]) => job[q].link # job[p].link
          /\ \A l \in links : <<"link", l.n>> \in DOMAIN used =>
               \E p \in Requests : job[p].at = "drop" /\ job[p].link = l.n
      BY <3>1 DEF AccountsInv, LinksSpent
    <3>3. ASSUME NEW q \in Requests \ {r}, Using(job[q]) \/ job[q].at = "drop" PROVE job[q].link # j.link
      BY <3>3, IdleDoesNothing, AtWork, <2>7, <3>1 DEF Using, AccountsInv, Doing, Brings,
         SignIns!Kinds, LinksNumbered
    <3>4. <<"link", j.link>> \notin DOMAIN used
      <4>1. PICK l \in links : l.n = j.link
        BY <1>4
      <4>2. \A p \in Requests : job[p].at = "drop" => job[p].link # j.link
        BY <1>1, <3>3
      <4> QED
        BY <3>2, <4>1, <4>2
    <3>5. \A l \in links : <<"link", l.n>> \in DOMAIN used =>
            \E p \in Requests : job'[p].at = "drop" /\ job'[p].link = l.n
      BY <1>1, <2>2, <3>2 DEF Turned
    <3>6. ASSUME NEW p \in Requests, Using(job'[p])
          PROVE  /\ <<"link", job'[p].link>> \notin DOMAIN used
                 /\ \A q \in Requests \ {p} : Using(job'[q]) => job'[q].link # job'[p].link
      <4>1. CASE p = r
        BY <2>2, <3>3, <3>4, <4>1 DEF Turned
      <4>2. CASE p # r
        BY <2>2, <3>2, <3>3, <3>6, <4>2 DEF Turned
      <4> QED
        BY <4>1, <4>2
    <3> QED
      BY <3>5, <3>6
  <2> QED
    BY <2>6, <2>8, <2>10, <2>11, <2>12 DEF AccountsInv
<1> QED
  BY <1>3, <1>4, Zenon DEF SignIns!Get, SignIns!Mark

LEMMA UsedIs ==
  ASSUME NEW x, SignIns!Used(x)
  PROVE  /\ DOMAIN used' = DOMAIN used \cup {x}
         /\ x \notin DOMAIN used => used'[x] = 1
         /\ \A y \in DOMAIN used \ {x} : used'[y] = used[y]
  BY DEF SignIns!Used, SignIns!Times

\* The link that is used was not, and is gone or about to be.
LEMMA UsesLink ==
  ASSUME AccountsInv, NEW r \in Requests, Using(job[r]), SignIns!Used(<<"link", job[r].link>>),
         NEW n, Turned(r, n), ~Using(n), incidents \subseteq incidents', links' \subseteq links,
         \A l \in links' : l.n = job[r].link => n.at = "drop" /\ n.link = job[r].link
  PROVE  /\ LinksSpent' /\ Once'
         /\ \A k \in Nat : <<"link", k>> \in DOMAIN used' => <<"link", k>> \in DOMAIN used \/ k <= issued
         /\ \A k : <<"token", k>> \in DOMAIN used' => <<"token", k>> \in DOMAIN used
<1> DEFINE x == <<"link", job[r].link>>
<1>1. /\ DOMAIN used' = DOMAIN used \cup {x}
      /\ x \notin DOMAIN used => used'[x] = 1
      /\ \A y \in DOMAIN used \ {x} : used'[y] = used[y]
  BY UsedIs
<1>2. SignIns!Clear({"shared", "unspent"})' => SignIns!Clear({"shared", "unspent"}) /\ x \notin DOMAIN used
  BY DEF SignIns!Clear, AccountsInv, LinksSpent
<1>3. Once'
  BY <1>1, <1>2 DEF AccountsInv, Once
<1>4. LinksSpent'
  <2> SUFFICES ASSUME SignIns!Clear({"shared", "unspent"})'
               PROVE  /\ \A p \in Requests : Using(job'[p]) =>
                           /\ <<"link", job'[p].link>> \notin DOMAIN used'
                           /\ \A q \in Requests \ {p} : Using(job'[q]) => job'[q].link # job'[p].link
                      /\ \A l \in links' : <<"link", l.n>> \in DOMAIN used' =>
                           \E p \in Requests : job'[p].at = "drop" /\ job'[p].link = l.n
    BY DEF LinksSpent, Using
  <2>1. /\ \A p \in Requests : Using(job[p]) =>
             /\ <<"link", job[p].link>> \notin DOMAIN used
             /\ \A q \in Requests \ {p} : Using(job[q]) => job[q].link # job[p].link
        /\ \A l \in links : <<"link", l.n>> \in DOMAIN used =>
             \E p \in Requests : job[p].at = "drop" /\ job[p].link = l.n
    BY <1>2 DEF AccountsInv, LinksSpent
  <2>2. job[r].at # "drop"
    BY DEF Using
  <2>3. ASSUME NEW p \in Requests, Using(job'[p])
        PROVE  /\ <<"link", job'[p].link>> \notin DOMAIN used'
               /\ \A q \in Requests \ {p} : Using(job'[q]) => job'[q].link # job'[p].link
    BY <2>3, <2>1, <1>1 DEF Turned
  <2>4. ASSUME NEW l \in links', <<"link", l.n>> \in DOMAIN used'
        PROVE  \E p \in Requests : job'[p].at = "drop" /\ job'[p].link = l.n
    <3>1. CASE l.n = job[r].link
      BY <3>1 DEF Turned
    <3>2. CASE l.n # job[r].link
      <4>1. PICK p \in Requests : job[p].at = "drop" /\ job[p].link = l.n
        BY <1>1, <2>1, <2>4, <3>2
      <4> QED
        BY <2>2, <4>1 DEF Turned
    <3> QED
      BY <3>1, <3>2
  <2> QED
    BY <2>3, <2>4
<1>5. Brings(job[r])
  BY AtWork DEF AccountsInv, Using, Brings, Doing, SignIns!Kinds
<1>6. job[r].link <= issued
  BY <1>5 DEF AccountsInv, LinksNumbered
<1> QED
  BY <1>1, <1>3, <1>4, <1>6

LEMMA SpendKeeps ==
  ASSUME AccountsInv, NEW r \in Requests, SignIns!Spend(r)
  PROVE  AccountsInv'
<1> DEFINE j == job[r]
<1>1. /\ j.at = "spend" /\ j.at # "idle" /\ j \in Task /\ Doing(j) /\ j.op \in SignIns!Kinds \ {"enroll"}
      /\ j.link \in Nat /\ Using(j) /\ ~Ending(j) /\ Brings(j)
  BY AtWork DEF SignIns!Spend, SignIns!At, AccountsInv, Doing, Ending, Using, Brings
<1>2. /\ links' = {l \in links : l.n # j.link} /\ SignIns!Used(<<"link", j.link>>)
      /\ UNCHANGED <<row, indexed, mark, revoked, made, issued, barred, last, now>>
  BY DEF SignIns!Spend, SignIns!Spent, SignIns!Stay
<1>3. \E n : /\ Turned(r, n) /\ (n # SignIns!Idle => Doing(n)) /\ ~Holder(n) /\ ~Using(n)
             /\ n.at # "exchange"
             /\ Brings(n) => Brings(j) /\ n.op = j.op /\ n.link = j.link
             /\ Brings(n) => n.link \in Nat
             /\ SignsIn /\ incidents \subseteq incidents'
  <2>1. CASE j.op = "challenge"
    BY <2>1, <1>1, EndTurns, IdleDoesNothing DEF SignIns!Spend, SignIns!Mark, SignIns!Ungated,
       Doing, Named, Told, SignIns!When, SignsIn, AccountsInv
  <2>2. CASE j.op # "challenge"
    <3>1. SignIns!Goto(r, "find") /\ UNCHANGED <<sessions, incidents>> /\ "find" \in Places
      BY <2>2 DEF SignIns!Spend, Places
    <3>2. PICK n \in Task : /\ Turned(r, n) /\ n.at = "find"
                            /\ n.op = j.op /\ n.user = j.user /\ n.link = j.link /\ n.seen = j.seen
      BY <1>1, <3>1, GotoTurns DEF AccountsInv
    <3>3. Doing(n) /\ ~Holder(n) /\ ~Using(n)
      BY <1>1, <2>2, <3>2 DEF Doing, Named, Holder, Using, Makers, Editors, SignIns!Kinds, SignIns!Edits
    <3>4. SignsIn
      BY <3>1 DEF SignsIn
    <3> QED
      BY <1>1, <3>1, <3>2, <3>3, <3>4
  <2> QED
    BY <2>1, <2>2
<1>4. PICK n : /\ Turned(r, n) /\ (n # SignIns!Idle => Doing(n)) /\ ~Holder(n) /\ ~Using(n)
               /\ n.at # "exchange"
               /\ Brings(n) => Brings(j) /\ n.op = j.op /\ n.link = j.link
               /\ Brings(n) => n.link \in Nat
               /\ SignsIn /\ incidents \subseteq incidents'
  BY <1>3
<1>5. links' \subseteq SomeLink /\ issued' \in Nat /\ links' \subseteq links /\ LinksGoOn
  BY <1>2 DEF AccountsInv, AccountTypes, LinksGoOn
<1>6. /\ AccountTypes' /\ Tasks' /\ IdsGivenOnce' /\ RowsListed' /\ Alone'
      /\ TimesInOrder' /\ BarredStay' /\ SessionsEnd'
  BY <1>1, <1>2, <1>4, <1>5, RowsStay
<1>7. /\ LinksSpent' /\ Once'
      /\ \A k \in Nat : <<"link", k>> \in DOMAIN used' => <<"link", k>> \in DOMAIN used \/ k <= issued
      /\ \A k : <<"token", k>> \in DOMAIN used' => <<"token", k>> \in DOMAIN used
  BY <1>1, <1>2, <1>4, <1>5, UsesLink
<1>8. LinksNumbered'
  BY <1>4, <1>5, <1>7, NumbersKept DEF AccountsInv
<1>9. TokensSpent'
  BY <1>2, <1>4, <1>7, TokensKept DEF AccountsInv
<1> QED
  BY <1>6, <1>7, <1>8, <1>9 DEF AccountsInv

LEMMA RefreshKeeps ==
  ASSUME AccountsInv, NEW r \in Requests, SignIns!Refresh(r)
  PROVE  AccountsInv'
<1> DEFINE j == job[r]
<1>1. /\ j.at = "refresh" /\ j.at # "idle" /\ j \in Task /\ Doing(j) /\ j.op = "refresh" /\ ~Ending(j)
      /\ j.link \in Nat
  BY AtWork DEF SignIns!Refresh, SignIns!At, AccountsInv, Doing, Ending
<1>2. /\ UNCHANGED <<row, indexed, made, barred, used, mark, last, now, links, issued, sessions, revoked>>
      /\ LinksGoOn /\ SignsIn
  BY Standing DEF SignIns!Refresh
<1>3. CASE SignIns!End(r) /\ UNCHANGED incidents
  BY <1>1, <1>2, <1>3, Finishes
<1>4. CASE /\ j.link \notin revoked /\ SignIns!Goto(r, "exchange")
           /\ incidents' = incidents
                \cup SignIns!When(\E q \in Requests : SignIns!At(q, "exchange") /\ job[q].link = j.link, "shared")
  <2>1. "exchange" \in Places /\ incidents \subseteq incidents'
    BY <1>4 DEF Places
  <2>2. PICK n \in Task : /\ Turned(r, n) /\ n.at = "exchange"
                          /\ n.op = j.op /\ n.user = j.user /\ n.link = j.link /\ n.seen = j.seen
    BY <1>1, <1>4, <2>1, GotoTurns DEF AccountsInv
  <2>3. Doing(n) /\ ~Holder(n) /\ ~Using(n) /\ ~Brings(n)
    BY <1>1, <2>2 DEF Doing, Named, Holder, Using, Brings, SignIns!Kinds
  <2>4. links' \subseteq SomeLink /\ issued' \in Nat
    BY <1>2 DEF AccountsInv, AccountTypes
  <2>5. /\ AccountTypes' /\ Tasks' /\ IdsGivenOnce' /\ RowsListed' /\ Alone'
        /\ TimesInOrder' /\ BarredStay' /\ SessionsEnd'
    BY <1>1, <1>2, <2>1, <2>2, <2>3, <2>4, RowsStay
  <2>6. LinksNumbered'
    BY <1>2, <2>2, <2>3, NumbersKept DEF AccountsInv
  <2>7. LinksSpent'
    BY <1>1, <1>2, <2>1, <2>2, <2>3, SpentKept DEF AccountsInv
  <2>8. Once'
    BY <1>2, <2>1 DEF AccountsInv, Once, SignIns!Clear
  <2>9. TokensSpent'
    BY <1>1, <1>4, <2>2, <1>2 DEF AccountsInv, TokensSpent, SignIns!Clear, SignIns!When, SignIns!At,
       Turned
  <2> QED
    BY <2>5, <2>6, <2>7, <2>8, <2>9 DEF AccountsInv
<1> QED
  BY <1>3, <1>4, Zenon DEF SignIns!Refresh, SignIns!Mark

LEMMA ExchangeKeeps ==
  ASSUME AccountsInv, NEW r \in Requests, SignIns!Exchange(r)
  PROVE  AccountsInv'
<1> DEFINE j == job[r]
           x == <<"token", j.link>>
<1>1. /\ j.at = "exchange" /\ Doing(j) /\ ~Ending(j) /\ j.link \in Nat /\ j.user \in AccountIds
  BY AtWork DEF SignIns!Exchange, SignIns!At, AccountsInv, Doing, Named, Ending
<1>2. /\ revoked' = revoked \cup {j.link} /\ SignIns!Used(x) /\ SignIns!Sign(j.user) /\ SignIns!End(r)
      /\ incidents' = incidents \cup SignIns!When(~SignIns!Welcome(row[j.user]), "ungated")
      /\ UNCHANGED <<row, indexed, links, mark, made, issued, barred, last, now>>
  BY DEF SignIns!Exchange, SignIns!Mark, SignIns!Ungated, SignIns!Stay
<1>3. Turned(r, SignIns!Idle)
  BY <1>2, EndTurns DEF AccountsInv
<1>4. /\ SignIns!Welcome(row[j.user]) \/ Told
      /\ incidents \subseteq incidents'
  BY <1>2 DEF SignIns!When, Told
<1>5. SignsIn /\ LinksGoOn
  BY <1>1, <1>2, <1>4 DEF SignsIn, LinksGoOn
<1>6. links' \subseteq SomeLink /\ issued' \in Nat
  BY <1>2 DEF AccountsInv, AccountTypes
<1>7. /\ AccountTypes' /\ Tasks' /\ IdsGivenOnce' /\ RowsListed' /\ Alone'
      /\ TimesInOrder' /\ BarredStay' /\ SessionsEnd'
  BY <1>1, <1>2, <1>3, <1>4, <1>5, <1>6, IdleDoesNothing, RowsStay
<1>8. /\ DOMAIN used' = DOMAIN used \cup {x}
      /\ x \notin DOMAIN used => used'[x] = 1
      /\ \A y \in DOMAIN used \ {x} : used'[y] = used[y]
  BY <1>2, UsedIs
<1>9. \A k : <<"link", k>> \in DOMAIN used' => <<"link", k>> \in DOMAIN used
  BY <1>8
<1>10. LinksNumbered'
  BY <1>3, <1>5, <1>9, IdleDoesNothing, NumbersKept DEF AccountsInv
<1>11. LinksSpent'
  BY <1>1, <1>3, <1>4, <1>5, <1>9, IdleDoesNothing, SpentKept DEF AccountsInv
<1>12. SignIns!Clear({"shared", "unspent"})' =>
         /\ SignIns!Clear({"shared", "unspent"}) /\ x \notin DOMAIN used
         /\ \A q \in Requests \ {r} : job[q].at = "exchange" => job[q].link # j.link
  BY <1>1, <1>4 DEF SignIns!Clear, AccountsInv, TokensSpent
<1>13. Once'
  BY <1>8, <1>12 DEF AccountsInv, Once
<1>14. TokensSpent'
  BY <1>2, <1>8, <1>3, IdleDoesNothing, <1>12 DEF AccountsInv, TokensSpent, Turned
<1> QED
  BY <1>7, <1>10, <1>11, <1>13, <1>14 DEF AccountsInv

-----------------------------------------------------------------------------
(* Steps of Accounts that write a row, or the index.                        *)

\* What a step that uses no link or token leaves as it is
LEMMA LinksStay ==
  ASSUME AccountsInv, UNCHANGED <<links, issued, used, revoked>>, incidents \subseteq incidents',
         NEW r \in Requests, NEW n, Turned(r, n), ~Using(n), n.at # "exchange",
         Brings(n) => Brings(job[r]) /\ n.op = job[r].op /\ n.link = job[r].link,
         job[r].at # "drop"
  PROVE  LinksNumbered' /\ LinksSpent' /\ TokensSpent' /\ Once'
  BY IdleDoesNothing, NumbersKept, SpentKept, TokensKept DEF LinksGoOn, Turned, Task, AccountsInv,
     Once, SignIns!Clear

LEMMA FindNoneKeeps ==
  ASSUME AccountsInv, NEW r \in Requests, SignIns!FindNone(r)
  PROVE  AccountsInv'
<1> DEFINE j == job[r]
           m == SignIns!Min(AccountIds \ made)
           c == [at |-> "send", user |-> m, seen |-> SignIns!NewRow(j.op)]
           n == Over(j, c)
<1>1. /\ j.at = "find" /\ j \in Task /\ Doing(j) /\ ~Ending(j) /\ SignIns!Found(j) = {}
  BY AtWork DEF SignIns!FindNone, SignIns!At, AccountsInv, Ending
<1>2. UNCHANGED <<row, indexed, links, mark, revoked, sessions, issued, barred, used, last, now>>
  BY DEF SignIns!FindNone, SignIns!Stay, SignIns!store
<1>3. SignsIn /\ LinksGoOn
  BY <1>2 DEF SignsIn, LinksGoOn
<1>4. CASE SignIns!End(r) /\ UNCHANGED <<made, incidents>>
  BY <1>1, <1>2, <1>3, <1>4, Finishes
<1>5. CASE /\ j.op \in Makers /\ AccountIds \ made # {} /\ made' = made \cup {m} /\ SignIns!Put(r, c)
           /\ incidents' = incidents
                \cup SignIns!When(\E q \in Requests \ {r} : SignIns!Creating(q), "raced")
  <2>1. m \in AccountIds \ made
    BY ControlAssumption, <1>5, MinIsLeast
  <2>2. SignIns!NewRow(j.op) \in SignIns!Row
    BY DEF SignIns!NewRow, SignIns!Row
  <2> HIDE DEF m
  <2>3. /\ DOMAIN c = {"at", "user", "seen"} /\ c["at"] = "send" /\ c["user"] = m
        /\ c["seen"] = SignIns!NewRow(j.op) /\ "send" \in Places
    BY DEF Places
  <2> HIDE DEF c
  <2>4. /\ n \in Task /\ n.at = "send" /\ n.user = m /\ n.seen \in SignIns!Row
        /\ n.op = j.op /\ n.link = j.link
    BY <1>1, <2>1, <2>2, <2>3, OverIsTask DEF Parts
  <2>5. Turned(r, n)
    BY <1>5, <2>4, PutTurns DEF AccountsInv
  <2> HIDE DEF n
  <2>6. incidents \subseteq incidents'
    BY <1>5
  <2>7. Doing(n) /\ Holder(n) /\ ~Using(n) /\ (Brings(n) => Brings(j))
    BY <1>1, <1>5, <2>1, <2>4 DEF Doing, Named, Holder, Using, Brings
  <2>8. Tasks'
    BY <2>5, <2>7, TasksKept DEF AccountsInv
  <2>9. AccountTypes'
    BY <1>2, <2>1, <1>5, <2>5 DEF AccountsInv, AccountTypes, Turned
  <2>10. ~SignIns!Exists(row[m]) /\ m \notin indexed
    BY <2>1 DEF AccountsInv, IdsGivenOnce
  <2>11. \A q \in Requests : Holder(job[q]) => job[q].user \in made /\ job[q].user # m
    BY <2>1 DEF AccountsInv, IdsGivenOnce
  <2>12. IdsGivenOnce'
    BY <1>2, <1>5, <2>4, <2>5, <2>10, <2>11 DEF AccountsInv, IdsGivenOnce, Turned, Holder
  <2>13. RowsListed'
    BY <1>1, <1>2, <2>5, <2>6 DEF AccountsInv, RowsListed, Turned, SignIns!Exists
  <2>14. Alone'
    <3> SUFFICES ASSUME SignIns!Clear({"raced", "unlisted"})'
                 PROVE  /\ \A i, k \in AccountIds : SignIns!Exists(row[i]) /\ SignIns!Exists(row[k]) => i = k
                        /\ \A p \in Requests : job'[p].at = "send" =>
                             /\ \A i \in AccountIds : ~SignIns!Exists(row[i])
                             /\ \A q \in Requests \ {p} : job'[q].at # "send"
      BY <1>2 DEF Alone, SignIns!Exists
    <3>1. /\ SignIns!Clear({"raced", "unlisted"}) /\ "unlisted" \notin incidents
          /\ \A q \in Requests \ {r} : ~SignIns!Creating(q)
      BY <1>5, <2>6 DEF SignIns!Clear, SignIns!When
    <3>2. ASSUME NEW i \in AccountIds PROVE ~SignIns!Exists(row[i])
      BY <1>1, <1>5, <3>1, IdleDoesNothing DEF SignIns!Found, SignIns!ByEmail, Makers,
         SignIns!Listed, SignIns!Creating, AccountsInv, RowsListed
    <3>3. \A q \in Requests \ {r} : job[q].at # "send"
      BY <3>1, IdleDoesNothing DEF SignIns!Creating
    <3> QED
      BY <2>5, <3>2, <3>3 DEF Turned
  <2>15. TimesInOrder' /\ BarredStay'
    BY <1>2, <1>3, <2>6, TimesKept, BarredKept DEF AccountsInv
  <2>16. SessionsEnd'
    BY <1>1, <1>2, <1>3, <2>5, <2>6, EndsKept DEF AccountsInv
  <2>17. LinksNumbered' /\ LinksSpent' /\ TokensSpent' /\ Once'
    BY <1>1, <1>2, <2>4, <2>5, <2>6, <2>7, LinksStay
  <2> QED
    BY <2>8, <2>9, <2>12, <2>13, <2>14, <2>15, <2>16, <2>17 DEF AccountsInv
<1> QED
  BY <1>5, <1>4 DEF SignIns!FindNone, SignIns!Mark, Makers

LEMMA SendKeeps ==
  ASSUME AccountsInv, NEW r \in Requests, SignIns!Send(r)
  PROVE  AccountsInv'
<1> DEFINE j == job[r]
<1>1. /\ j.at = "send" /\ j.at # "idle" /\ j \in Task /\ Doing(j) /\ ~Ending(j) /\ Holder(j)
      /\ j.op \in Makers /\ j.seen \in SignIns!Row /\ j.user \in AccountIds
  BY AtWork DEF SignIns!Send, SignIns!At, AccountsInv, Ending, Doing, Named, Holder
<1>2. UNCHANGED <<indexed, links, mark, revoked, sessions, made, issued, barred, used, last, now, incidents>>
  BY DEF SignIns!Send, SignIns!Stay, SignIns!ghosts
<1>3. SignsIn /\ LinksGoOn
  BY <1>2 DEF SignsIn, LinksGoOn
<1>4. CASE SignIns!End(r) /\ UNCHANGED row
  BY <1>1, <1>2, <1>3, <1>4, Finishes
<1>5. CASE row' = [row EXCEPT ![j.user] = j.seen] /\ SignIns!Goto(r, "index")
  <2>1. PICK n \in Task : /\ Turned(r, n) /\ n.at = "index"
                          /\ n.op = j.op /\ n.user = j.user /\ n.link = j.link /\ n.seen = j.seen
    BY <1>1, <1>5, GotoTurns DEF AccountsInv, Places
  <2>2. Doing(n) /\ Holder(n) /\ ~Using(n) /\ (Brings(n) => Brings(j))
    BY <1>1, <2>1 DEF Doing, Named, Holder, Using, Brings
  <2>3. /\ row \in [AccountIds -> SignIns!Row \cup {SignIns!NoRow}]
        /\ row' \in [AccountIds -> SignIns!Row \cup {SignIns!NoRow}]
        /\ row'[j.user] = j.seen /\ SignIns!Exists(row'[j.user])
        /\ \A i \in AccountIds \ {j.user} : row'[i] = row[i]
    BY <1>1, <1>5, NoRowIsNoRow DEF AccountsInv, AccountTypes
  <2>4. /\ ~SignIns!Exists(row[j.user]) /\ j.user \in made
        /\ \A q \in Requests \ {r} : Holder(job[q]) => job[q].user # j.user
    BY <1>1 DEF AccountsInv, IdsGivenOnce
  <2>5. AccountTypes'
    BY <1>2, <2>1, <2>3 DEF AccountsInv, AccountTypes, Turned
  <2>6. Tasks'
    BY <2>1, <2>2, TasksKept DEF AccountsInv
  <2>7. IdsGivenOnce'
    BY <1>2, <2>3, <2>4, <2>1 DEF AccountsInv, IdsGivenOnce, Turned, AccountTypes, Holder
  <2>8. RowsListed'
    <3> SUFFICES ASSUME NEW i \in AccountIds, SignIns!Exists(row'[i]), i \notin indexed
                 PROVE  "unlisted" \in incidents \/ \E q \in Requests : job'[q].at = "index" /\ job'[q].user = i
      BY <1>2 DEF RowsListed
    <3>1. CASE i = j.user
      BY <2>1, <3>1 DEF Turned
    <3>2. CASE i # j.user
      BY <2>3, <3>2, <1>1, <2>1 DEF AccountsInv, RowsListed, Turned
    <3> QED
      BY <3>1, <3>2
  <2>9. Alone'
    BY <1>1, <2>3, <2>1, <1>2 DEF AccountsInv, Alone, Turned, SignIns!Clear
  <2>10. BarredStay'
    BY <2>4, <1>2, <2>3 DEF AccountsInv, AccountTypes, BarredStay, SignIns!Clear
  <2>11. TimesInOrder'
    BY <1>2, <1>3, TimesKept DEF AccountsInv
  <2>12. \A i \in AccountIds : SignIns!Welcome(row[i]) => SignIns!Welcome(row'[i])
    BY <2>3, <2>4 DEF SignIns!Welcome
  <2>13. SessionsEnd'
    BY <1>1, <1>2, <1>3, <2>1, <2>12, EndsKept DEF AccountsInv
  <2>14. n.at # "exchange"
    BY <2>1
  <2>15. LinksNumbered' /\ LinksSpent' /\ TokensSpent' /\ Once'
    BY <1>1, <1>2, <2>1, <2>2, <2>14, LinksStay
  <2> QED
    BY <2>5, <2>6, <2>7, <2>8, <2>9, <2>10, <2>11, <2>13, <2>15 DEF AccountsInv
<1> QED
  BY <1>4, <1>5 DEF SignIns!Send

\* What an edit makes of a row, and of whether the account is disabled
LEMMA ChangedIs ==
  ASSUME NEW op \in Editors, NEW x \in SignIns!Row
  PROVE  /\ SignIns!Changed(op, x) \in SignIns!Row
         /\ SignIns!Changed(op, x).disabled =
              IF op = "disable" THEN TRUE ELSE IF op \in {"enable", "reset"} THEN FALSE ELSE x.disabled
  BY DEF SignIns!Row, SignIns!Changed, Editors, SignIns!Edits

\* Where a request goes that has edited a row
LEMMA AfterEditGoes ==
  ASSUME AccountsInv, NEW r \in Requests, job[r].at = "edit",
         IF SignIns!AfterEdit(job[r].op) = "done" THEN SignIns!End(r)
         ELSE SignIns!Goto(r, SignIns!AfterEdit(job[r].op))
  PROVE  \E n : /\ Turned(r, n) /\ (n # SignIns!Idle => Doing(n)) /\ ~Using(n)
                /\ n.at \in {"idle", "mark", "drop", "index"}
                /\ n.at = "idle" => ~Brings(n)
                /\ n.at # "idle" => n.op = job[r].op /\ n.user = job[r].user /\ n.link = job[r].link
                /\ job[r].op = "enroll" <=> n.at = "drop"
                /\ job[r].op = "disable" => n.at = "mark"
<1> DEFINE j == job[r]
           label == SignIns!AfterEdit(j.op)
<1>1. j \in Task /\ Doing(j) /\ j.op \in Editors /\ j.at # "idle"
  BY AtWork DEF AccountsInv, Doing
<1>2. /\ label \in {"mark", "drop", "index", "done"}
      /\ label = "mark" <=> j.op \in {"disable", "unmfa", "reset"}
      /\ label = "drop" <=> j.op = "enroll"
      /\ label = "index" <=> j.op = "oauth"
  BY DEF SignIns!AfterEdit
<1> HIDE DEF label
<1>3. CASE label = "done"
  BY <1>3, EndTurns, <1>2, IdleDoesNothing DEF label, AccountsInv
<1>4. CASE label # "done"
  <2>1. SignIns!Goto(r, label) /\ label \in Places
    BY <1>2, <1>4 DEF label, Places
  <2>2. PICK n \in Task : /\ Turned(r, n) /\ n.at = label
                          /\ n.op = j.op /\ n.user = j.user /\ n.link = j.link /\ n.seen = j.seen
    BY <1>1, <2>1, GotoTurns DEF AccountsInv
  <2>3. Doing(n) /\ ~Using(n)
    BY <1>1, <1>2, <1>4, <2>2 DEF Doing, Named, Using, Makers, Editors
  <2> QED
    BY <1>2, <1>4, <2>2, <2>3
<1> QED
  BY <1>3, <1>4

LEMMA EditKeeps ==
  ASSUME AccountsInv, NEW r \in Requests, SignIns!Edit(r)
  PROVE  AccountsInv'
<1> DEFINE j == job[r]
           i == j.user
           x == SignIns!Changed(j.op, j.seen)
<1>1. /\ j.at = "edit" /\ j.at # "idle" /\ j \in Task /\ Doing(j) /\ ~Ending(j) /\ Holder(j)
      /\ j.op \in Editors /\ j.seen \in SignIns!Row /\ i \in AccountIds
      /\ j.op \in {"signin", "magic", "oauth"} => ~j.seen.disabled
  BY AtWork DEF SignIns!Edit, SignIns!At, AccountsInv, Ending, Doing, Named, Holder
<1>2. UNCHANGED <<indexed, links, mark, revoked, made, issued, last, now>>
  BY DEF SignIns!Edit, SignIns!Stay
<1>3. CASE ~SignIns!Exists(row[i])
  BY <1>3, <1>2, <1>1, Finishes DEF SignIns!Edit, SignsIn, LinksGoOn
<1>4. CASE SignIns!Exists(row[i])
  <2>1. /\ row' = [row EXCEPT ![i] = x]
        /\ barred' = CASE j.op = "disable" -> barred \cup {i}
                       [] j.op \in {"enable", "reset"} -> barred \ {i}
                       [] OTHER -> barred
        /\ IF j.op \in {"signin", "confirm", "magic"} THEN SignIns!Sign(i) ELSE UNCHANGED sessions
        /\ IF j.op = "enroll" THEN SignIns!Used(<<"link", j.link>>) ELSE UNCHANGED used
        /\ incidents' = incidents \cup (SignIns!When(j.seen # row[i], "stale")
                          \cup SignIns!When(j.op = "confirm" /\ row'[i].disabled, "ungated"))
        /\ IF SignIns!AfterEdit(j.op) = "done" THEN SignIns!End(r)
           ELSE SignIns!Goto(r, SignIns!AfterEdit(j.op))
    BY <1>4 DEF SignIns!Edit, SignIns!Mark
  <2>2. PICK n : /\ Turned(r, n) /\ (n # SignIns!Idle => Doing(n)) /\ ~Using(n)
                 /\ n.at \in {"idle", "mark", "drop", "index"}
                 /\ n.at = "idle" => ~Brings(n)
                 /\ n.at # "idle" => n.op = j.op /\ n.user = j.user /\ n.link = j.link
                 /\ j.op = "enroll" <=> n.at = "drop"
                 /\ j.op = "disable" => n.at = "mark"
    BY <1>1, <2>1, AfterEditGoes
  <2>20. j.op \in Editors /\ j.seen \in SignIns!Row
    BY <1>1
  <2>3. /\ x \in SignIns!Row
        /\ x.disabled = IF j.op = "disable" THEN TRUE
                        ELSE IF j.op \in {"enable", "reset"} THEN FALSE ELSE j.seen.disabled
    BY <2>20, ChangedIs
  <2> HIDE DEF x
  <2>4. /\ row \in [AccountIds -> SignIns!Row \cup {SignIns!NoRow}]
        /\ row' \in [AccountIds -> SignIns!Row \cup {SignIns!NoRow}]
        /\ row'[i] = x /\ SignIns!Exists(row'[i])
        /\ \A k \in AccountIds \ {i} : row'[k] = row[k]
    BY <1>1, <2>1, <2>3, NoRowIsNoRow DEF AccountsInv, AccountTypes
  <2>5. incidents \subseteq incidents' /\ (j.seen # row[i] => "stale" \in incidents')
        /\ (j.op = "confirm" /\ x.disabled => "ungated" \in incidents')
    BY <2>1, <2>4 DEF SignIns!When
  <2>6. j.seen = row[i] \/ Told
    BY <2>5 DEF Told
  <2>7. SignsIn
    BY <1>1, <1>4, <2>1, <2>6, <2>3, <2>5 DEF SignsIn, SignIns!Welcome, Told
  <2>8. barred' \subseteq AccountIds /\ barred' \subseteq barred \cup {i}
        /\ (i \in barred' => j.op = "disable" \/ (j.op \notin {"enable", "reset"} /\ i \in barred))
    BY <1>1, <2>1 DEF AccountsInv, AccountTypes
  <2>9. AccountTypes'
    BY <1>2, <2>2, <2>4, <2>7, <2>8, SessionsAre DEF AccountsInv, AccountTypes, Turned
  <2>10. Tasks'
    BY <2>2, TasksKept DEF AccountsInv
  <2>11. \A k \in AccountIds : SignIns!Exists(row'[k]) <=> SignIns!Exists(row[k])
    BY <1>4, <2>4
  <2>12. Holder(n) => n.user \in made /\ Holder(j) /\ n.user = j.user
    BY <1>1, <2>2 DEF Holder, AccountsInv, IdsGivenOnce
  <2>13. n.at \notin {"send", "unindex", "exchange"}
    BY <2>2
  <2>14. IdsGivenOnce' /\ RowsListed' /\ Alone'
    BY <1>1, <1>2, <2>2, <2>5, <2>11, <2>12, <2>13, GivenKept DEF AccountsInv
  <2>15. TimesInOrder'
    BY <1>2, <2>7, TimesKept DEF AccountsInv
  <2>16. BarredStay'
    <3> SUFFICES ASSUME SignIns!Clear({"stale"})', NEW k \in barred'
                 PROVE  SignIns!Exists(row'[k]) /\ row'[k].disabled
      BY DEF BarredStay
    <3>1. SignIns!Clear({"stale"}) /\ j.seen = row[i]
      BY <2>5 DEF SignIns!Clear
    <3>2. CASE k = i
      BY <2>3, <2>4, <2>8, <3>1, <3>2 DEF AccountsInv, BarredStay
    <3>3. CASE k # i
      BY <2>4, <2>8, <3>1, <3>3 DEF AccountsInv, BarredStay
    <3> QED
      BY <3>2, <3>3
  <2>17. SessionsEnd'
    BY <2>4, <2>2, <2>3, <2>6, <1>1, <1>2, <2>5, <2>7, EndsKept DEF Ending, SignIns!Welcome,
       AccountsInv
  <2>18. Brings(n) => Brings(j) /\ n.op = j.op /\ n.link = j.link
    BY <1>1, <2>2 DEF Brings
  <2>19. LinksNumbered' /\ LinksSpent' /\ TokensSpent' /\ Once'
    <3>1. CASE j.op # "enroll"
      BY <1>1, <1>2, <2>1, <2>2, <2>5, <2>13, <2>18, <3>1, LinksStay
    <3>2. CASE j.op = "enroll"
      <4>1. Using(j) /\ SignIns!Used(<<"link", j.link>>) /\ n.at = "drop" /\ n.link = j.link
        BY <1>1, <2>1, <2>2, <3>2 DEF Using
      <4>2. links' \subseteq links /\ LinksGoOn
        BY <1>2 DEF LinksGoOn
      <4>3. /\ LinksSpent' /\ Once'
            /\ \A k \in Nat : <<"link", k>> \in DOMAIN used' => <<"link", k>> \in DOMAIN used \/ k <= issued
            /\ \A k : <<"token", k>> \in DOMAIN used' => <<"token", k>> \in DOMAIN used
        BY <2>2, <2>5, <4>1, <4>2, UsesLink
      <4>4. Brings(n) => n.link \in Nat
        BY <2>2, IdleDoesNothing DEF Turned, Task
      <4>5. LinksNumbered'
        BY <2>2, <2>18, <4>2, <4>3, <4>4, NumbersKept DEF AccountsInv
      <4>6. TokensSpent'
        BY <1>2, <2>2, <2>5, <2>13, <4>3, TokensKept DEF AccountsInv
      <4> QED
        BY <4>3, <4>5, <4>6
    <3> QED
      BY <3>1, <3>2
  <2> QED
    BY <2>9, <2>10, <2>14, <2>15, <2>16, <2>17, <2>19 DEF AccountsInv
<1> QED
  BY <1>3, <1>4

LEMMA IndexUserKeeps ==
  ASSUME AccountsInv, NEW r \in Requests, SignIns!IndexUser(r)
  PROVE  AccountsInv'
<1> DEFINE j == job[r]
<1>1. /\ j.at = "index" /\ j.at # "idle" /\ j \in Task /\ Doing(j) /\ ~Ending(j) /\ Holder(j)
      /\ j.op \in Makers /\ j.user \in AccountIds
  BY AtWork DEF SignIns!IndexUser, SignIns!At, AccountsInv, Ending, Doing, Named, Holder
<1>2. /\ UNCHANGED <<row, links, mark, revoked, made, issued, barred, used, last, now>>
      /\ indexed' = indexed \cup {j.user}
      /\ IF j.op \in {"signup", "magic", "oauth"} THEN SignIns!Sign(j.user) ELSE UNCHANGED sessions
      /\ incidents' = incidents \cup SignIns!When(~SignIns!Welcome(row[j.user]), "behind")
      /\ IF j.op = "register" THEN SignIns!Goto(r, "token") ELSE SignIns!End(r)
  BY DEF SignIns!IndexUser, SignIns!Stay, SignIns!ghosts, SignIns!Mark, SignIns!Goto
<1>3. incidents \subseteq incidents' /\ (SignIns!Welcome(row[j.user]) \/ Told)
  BY <1>2 DEF SignIns!When, Told
<1>4. SignsIn
  BY <1>1, <1>2, <1>3 DEF SignsIn
<1>5. \E n : /\ Turned(r, n) /\ (n # SignIns!Idle => Doing(n)) /\ ~Using(n) /\ ~Holder(n) /\ ~Brings(n)
             /\ n.at \in {"idle", "token"}
  <2>1. CASE j.op = "register"
    <3>1. "token" \in Places
      BY DEF Places
    <3>2. PICK n \in Task : /\ Turned(r, n) /\ n.at = "token"
                            /\ n.op = j.op /\ n.user = j.user /\ n.link = j.link /\ n.seen = j.seen
      BY <1>1, <1>2, <2>1, <3>1, GotoTurns DEF AccountsInv
    <3>3. Doing(n) /\ ~Using(n) /\ ~Holder(n) /\ ~Brings(n)
      BY <1>1, <2>1, <3>2 DEF Doing, Named, Using, Holder, Brings, SignIns!Kinds
    <3> QED
      BY <3>2, <3>3
  <2>2. CASE j.op # "register"
    BY <1>2, <2>2, EndTurns, IdleDoesNothing DEF AccountsInv
  <2> QED
    BY <2>1, <2>2
<1>6. PICK n : /\ Turned(r, n) /\ (n # SignIns!Idle => Doing(n)) /\ ~Using(n) /\ ~Holder(n) /\ ~Brings(n)
               /\ n.at \in {"idle", "token"}
  BY <1>5
<1>7. AccountTypes'
  BY <1>1, <1>2, <1>4, <1>6, SessionsAre DEF AccountsInv, AccountTypes, Turned
<1>8. Tasks'
  BY <1>6, TasksKept DEF AccountsInv
<1>9. j.user \in made
  BY <1>1 DEF AccountsInv, IdsGivenOnce
<1>10. \A q \in Requests : Holder(job'[q]) => q # r /\ job'[q] = job[q]
  BY <1>6 DEF Turned
<1>11. IdsGivenOnce'
  BY <1>2, <1>9, <1>10 DEF AccountsInv, IdsGivenOnce, Holder, SignIns!Exists
<1>12. RowsListed'
  <2> SUFFICES ASSUME NEW i \in AccountIds, SignIns!Exists(row[i]), i \notin indexed, i # j.user
               PROVE  "unlisted" \in incidents' \/ \E q \in Requests : job'[q].at = "index" /\ job'[q].user = i
    BY <1>2 DEF RowsListed, SignIns!Exists
  <2>1. "unlisted" \in incidents \/ \E q \in Requests : job[q].at = "index" /\ job[q].user = i
    BY DEF AccountsInv, RowsListed
  <2> QED
    BY <1>3, <1>6, <2>1 DEF Turned
<1>13. Alone'
  BY <1>6, <1>2, <1>3 DEF Turned, AccountsInv, Alone, SignIns!Clear, SignIns!Exists
<1>14. TimesInOrder' /\ BarredStay'
  BY <1>2, <1>3, <1>4, TimesKept, BarredKept DEF AccountsInv
<1>15. SessionsEnd'
  BY <1>1, <1>2, <1>3, <1>4, <1>6, EndsKept DEF AccountsInv
<1>16. n.at # "exchange"
  BY <1>6
<1>17. LinksNumbered' /\ LinksSpent' /\ TokensSpent' /\ Once'
  BY <1>1, <1>2, <1>3, <1>6, <1>16, LinksStay
<1> QED
  BY <1>7, <1>8, <1>11, <1>12, <1>13, <1>14, <1>15, <1>17 DEF AccountsInv

LEMMA DeleteRowKeeps ==
  ASSUME AccountsInv, NEW r \in Requests, SignIns!DeleteRow(r)
  PROVE  AccountsInv'
<1> DEFINE j == job[r]
<1>1. /\ j.at = "delete" /\ j.at # "idle" /\ j \in Task /\ Doing(j) /\ ~Ending(j) /\ Holder(j)
      /\ j.op = "delete" /\ j.user \in AccountIds
  BY AtWork DEF SignIns!DeleteRow, SignIns!At, AccountsInv, Ending, Doing, Named, Holder
<1>2. /\ row' = [row EXCEPT ![j.user] = SignIns!NoRow] /\ barred' = barred \ {j.user}
      /\ SignIns!Goto(r, "unindex") /\ "unindex" \in Places
      /\ UNCHANGED <<indexed, links, mark, revoked, sessions, made, issued, used, last, now, incidents>>
  BY DEF SignIns!DeleteRow, SignIns!Stay, Places
<1>3. PICK n \in Task : /\ Turned(r, n) /\ n.at = "unindex"
                        /\ n.op = j.op /\ n.user = j.user /\ n.link = j.link /\ n.seen = j.seen
  BY <1>1, <1>2, GotoTurns DEF AccountsInv
<1>4. Doing(n) /\ Holder(n) /\ ~Using(n) /\ Ending(n) /\ ~Brings(n)
  BY <1>1, <1>3 DEF Doing, Named, Holder, Using, Ending, Brings, SignIns!Kinds
<1>5. /\ row' \in [AccountIds -> SignIns!Row \cup {SignIns!NoRow}]
      /\ ~SignIns!Exists(row'[j.user])
      /\ \A i \in AccountIds \ {j.user} : row'[i] = row[i]
  BY <1>1, <1>2, NoRowIsNoRow DEF AccountsInv, AccountTypes
<1>6. \A i \in AccountIds : SignIns!Exists(row'[i]) => SignIns!Exists(row[i]) /\ i # j.user
  BY <1>5
<1>7. SignsIn
  BY <1>2 DEF SignsIn
<1>8. AccountTypes'
  BY <1>2, <1>3, <1>5 DEF AccountsInv, AccountTypes, Turned
<1>9. Tasks'
  BY <1>3, <1>4, TasksKept DEF AccountsInv
<1>10. IdsGivenOnce'
  BY <1>2, <1>6, <1>1, <1>3, <1>5 DEF AccountsInv, IdsGivenOnce, AccountTypes, Turned, Holder
<1>11. RowsListed'
  BY <1>1, <1>2, <1>3, <1>6 DEF AccountsInv, RowsListed, Turned
<1>12. Alone'
  BY <1>3, <1>2, <1>6 DEF Turned, AccountsInv, Alone, SignIns!Clear
<1>13. BarredStay'
  BY <1>2, <1>5 DEF AccountsInv, AccountTypes, BarredStay, SignIns!Clear
<1>14. TimesInOrder'
  BY <1>2, <1>7, TimesKept DEF AccountsInv
<1>15. \A i \in AccountIds : SignIns!Welcome(row[i]) =>
         SignIns!Welcome(row'[i]) \/ Told \/ (Ending(n) /\ n.user = i)
  BY <1>3, <1>4, <1>5
<1>16. SessionsEnd'
  BY <1>1, <1>2, <1>3, <1>7, <1>15, EndsKept DEF AccountsInv
<1>17. n.at # "exchange"
  BY <1>3
<1>18. LinksNumbered' /\ LinksSpent' /\ TokensSpent' /\ Once'
  BY <1>1, <1>2, <1>3, <1>4, <1>17, LinksStay
<1> QED
  BY <1>8, <1>9, <1>10, <1>11, <1>12, <1>13, <1>14, <1>16, <1>18 DEF AccountsInv

LEMMA UnindexKeeps ==
  ASSUME AccountsInv, NEW r \in Requests, SignIns!Unindex(r)
  PROVE  AccountsInv'
<1> DEFINE j == job[r]
<1>1. /\ j.at = "unindex" /\ j.at # "idle" /\ j \in Task /\ Doing(j) /\ Holder(j)
      /\ j.op = "delete" /\ j.user \in AccountIds
  BY AtWork DEF SignIns!Unindex, SignIns!At, AccountsInv, Doing, Named, Holder
<1>2. /\ indexed' = indexed \ {j.user} /\ SignIns!Goto(r, "mark") /\ "mark" \in Places
      /\ UNCHANGED <<row, links, mark, revoked, sessions, made, issued, barred, used, last, now, incidents>>
  BY DEF SignIns!Unindex, SignIns!Stay, SignIns!ghosts, Places
<1>3. PICK n \in Task : /\ Turned(r, n) /\ n.at = "mark"
                        /\ n.op = j.op /\ n.user = j.user /\ n.link = j.link /\ n.seen = j.seen
  BY <1>1, <1>2, GotoTurns DEF AccountsInv
<1>4. Doing(n) /\ ~Holder(n) /\ ~Using(n) /\ Ending(n) /\ ~Brings(n)
  BY <1>1, <1>3 DEF Doing, Named, Holder, Using, Ending, Brings, SignIns!Kinds
<1>5. SignsIn
  BY <1>2 DEF SignsIn
<1>6. AccountTypes'
  BY <1>2, <1>3 DEF AccountsInv, AccountTypes, Turned
<1>7. Tasks'
  BY <1>3, <1>4, TasksKept DEF AccountsInv
<1>8. \A q \in Requests : Holder(job'[q]) => q # r /\ job'[q] = job[q]
  BY <1>3, <1>4 DEF Turned
<1>9. IdsGivenOnce'
  BY <1>2, <1>8 DEF AccountsInv, IdsGivenOnce, Holder, SignIns!Exists
<1>10. ~SignIns!Exists(row[j.user])
  BY <1>1 DEF AccountsInv, IdsGivenOnce
<1>11. RowsListed'
  <2> SUFFICES ASSUME NEW i \in AccountIds, SignIns!Exists(row[i]), i \notin indexed, i # j.user
               PROVE  "unlisted" \in incidents \/ \E q \in Requests : job'[q].at = "index" /\ job'[q].user = i
    BY <1>2, <1>10 DEF RowsListed, SignIns!Exists
  <2> QED
    BY <1>1, <1>3 DEF AccountsInv, RowsListed, Turned
<1>12. Alone'
  BY <1>3, <1>2 DEF Turned, AccountsInv, Alone, SignIns!Clear, SignIns!Exists
<1>13. TimesInOrder' /\ BarredStay'
  BY <1>2, <1>5, TimesKept, BarredKept DEF AccountsInv
<1>14. SessionsEnd'
  BY <1>1, <1>2, <1>3, <1>4, <1>5, EndsKept DEF AccountsInv
<1>15. n.at # "exchange"
  BY <1>3
<1>16. LinksNumbered' /\ LinksSpent' /\ TokensSpent' /\ Once'
  BY <1>1, <1>2, <1>3, <1>4, <1>15, LinksStay
<1> QED
  BY <1>6, <1>7, <1>9, <1>11, <1>12, <1>13, <1>14, <1>16 DEF AccountsInv

LEMMA ExpireLinkKeeps ==
  ASSUME AccountsInv, NEW l \in links, SignIns!Expire(l)
  PROVE  AccountsInv'
<1>1. /\ links' \subseteq links
      /\ UNCHANGED <<row, indexed, mark, revoked, sessions, job, now, made, issued, barred, used, last, incidents>>
  BY DEF SignIns!Expire, SignIns!ghosts
<1>2. AccountTypes' /\ Tasks'
  BY <1>1 DEF AccountsInv, AccountTypes, Tasks, Doing, Named
<1>3. IdsGivenOnce' /\ RowsListed' /\ Alone'
  BY <1>1 DEF AccountsInv, IdsGivenOnce, RowsListed, Alone, Holder, SignIns!Exists, SignIns!Clear
<1>4. LinksNumbered'
  BY <1>1 DEF AccountsInv, LinksNumbered, Brings
<1>5. LinksSpent' /\ TokensSpent' /\ Once'
  BY <1>1 DEF AccountsInv, LinksSpent, TokensSpent, Once, Using, SignIns!Clear
<1>6. TimesInOrder' /\ BarredStay' /\ SessionsEnd'
  BY <1>1 DEF AccountsInv, TimesInOrder, BarredStay, SessionsEnd, Ending, SignIns!Clear, SignIns!Exists,
              SignIns!IsActive, SignIns!Welcome
<1> QED
  BY <1>2, <1>3, <1>4, <1>5, <1>6 DEF AccountsInv

LEMMA TickKeeps ==
  ASSUME AccountsInv, SignIns!Tick
  PROVE  AccountsInv'
<1>1. /\ now' = now + 1 /\ now \in Nat
      /\ UNCHANGED <<row, indexed, links, mark, revoked, sessions, job, made, issued, barred, used, last, incidents>>
  BY DEF SignIns!Tick, SignIns!ghosts, SignIns!store, AccountsInv, AccountTypes
<1>2. AccountTypes' /\ Tasks'
  BY <1>1 DEF AccountsInv, AccountTypes, Tasks, Doing, Named
<1>3. IdsGivenOnce' /\ RowsListed' /\ Alone'
  BY <1>1 DEF AccountsInv, IdsGivenOnce, RowsListed, Alone, Holder, SignIns!Exists, SignIns!Clear
<1>4. LinksNumbered'
  BY <1>1 DEF AccountsInv, LinksNumbered, Brings
<1>5. LinksSpent' /\ TokensSpent' /\ Once'
  BY <1>1 DEF AccountsInv, LinksSpent, TokensSpent, Once, Using, SignIns!Clear
<1>6. BarredStay' /\ SessionsEnd'
  BY <1>1 DEF AccountsInv, BarredStay, SessionsEnd, Ending, SignIns!Clear, SignIns!Exists,
              SignIns!IsActive, SignIns!Welcome
<1>7. TimesInOrder'
  BY <1>1 DEF AccountsInv, AccountTypes, SomeSession, TimesInOrder
<1> QED
  BY <1>2, <1>3, <1>4, <1>5, <1>6, <1>7 DEF AccountsInv

\* revokeUserSessions changes of a session only whether it is early.
LEMMA SessionsMapped ==
  ASSUME AccountTypes, NEW u \in AccountIds,
         sessions' = {[s EXCEPT !.early = @ \/ (s.user = u /\ s.at < now)] : s \in sessions}
  PROVE  /\ sessions' \subseteq SomeSession /\ IsFiniteSet(sessions')
         /\ \A t \in sessions' : \E s \in sessions :
              /\ t.user = s.user /\ t.iat = s.iat /\ t.at = s.at
              /\ t.early => s.early \/ (s.user = u /\ s.at < now)
<1> DEFINE Later(s) == [s EXCEPT !.early = @ \/ (s.user = u /\ s.at < now)]
           f == [s \in sessions |-> Later(s)]
<1>1. sessions \subseteq SomeSession /\ IsFiniteSet(sessions)
  BY DEF AccountTypes
<1>2. ASSUME NEW s \in sessions
      PROVE  /\ Later(s) \in SomeSession
             /\ Later(s).user = s.user /\ Later(s).iat = s.iat /\ Later(s).at = s.at
             /\ Later(s).early => s.early \/ (s.user = u /\ s.at < now)
  <2> DEFINE e == s.early \/ (s.user = u /\ s.at < now)
  <2>1. s \in SomeSession
    BY <1>1
  <2>2. e \in BOOLEAN
    BY Zenon
  <2>3. Later(s) = [s EXCEPT !.early = e]
    OBVIOUS
  <2> HIDE DEF e, Later
  <2>4. Later(s) \in SomeSession /\ Later(s).user = s.user /\ Later(s).iat = s.iat /\ Later(s).at = s.at
    BY <2>1, <2>2, <2>3 DEF SomeSession
  <2>5. Later(s).early = e
    BY <2>1, <2>3 DEF SomeSession
  <2>6. Later(s).early => e
    BY <2>5, Zenon
  <2> QED
    BY <2>4, <2>6 DEF e
<1>3. sessions' = {Later(s) : s \in sessions}
  OBVIOUS
<1> HIDE DEF Later
<1>4. f \in [sessions -> sessions'] /\ \A t \in sessions' : \E s \in sessions : f[s] = t
  BY <1>3
<1>5. f \in Surjection(sessions, sessions')
  <2> HIDE DEF f
  <2> QED
    BY <1>4 DEF Surjection
<1>6. IsFiniteSet(sessions')
  <2> HIDE DEF f
  <2> QED
    BY <1>1, <1>5, FS_Surjection
<1> QED
  BY <1>2, <1>3, <1>6

LEMMA RevokeKeeps ==
  ASSUME AccountsInv, NEW r \in Requests, SignIns!Revoke(r)
  PROVE  AccountsInv'
<1> DEFINE j == job[r]
           u == j.user
           after == SignIns!RevokedAfter(j.op)
           c == [at |-> "sign", seen |-> row[u]]
<1>1. /\ j.at = "mark" /\ j.at # "idle" /\ j \in Task /\ Doing(j)
      /\ j.op \in {"disable", "unmfa", "reset", "delete", "revoke"} /\ u \in AccountIds
  BY AtWork DEF SignIns!Revoke, SignIns!At, AccountsInv, Doing, Named
<1>2. /\ mark' = [mark EXCEPT ![u] = after] /\ last' = [last EXCEPT ![u] = now]
      /\ sessions' = {[s EXCEPT !.early = @ \/ (s.user = u /\ s.at < now)] : s \in sessions}
      /\ incidents' = incidents \cup SignIns!When(j.op = "reset" /\ ~SignIns!Welcome(row[u]), "behind")
      /\ IF j.op = "reset" THEN SignIns!Put(r, c) ELSE SignIns!End(r)
      /\ UNCHANGED <<row, indexed, links, revoked, made, issued, barred, used, now>>
  BY DEF SignIns!Revoke, SignIns!Mark, SignIns!Stay
<1>3. /\ incidents \subseteq incidents'
      /\ j.op = "reset" /\ ~SignIns!Welcome(row[u]) => "behind" \in incidents'
  BY <1>2 DEF SignIns!When
<1>4. \E n : /\ Turned(r, n) /\ (n # SignIns!Idle => Doing(n)) /\ ~Holder(n) /\ ~Using(n)
             /\ n.at \in {"idle", "sign"}
             /\ Brings(n) => Brings(j) /\ n.op = j.op /\ n.link = j.link
  <2>1. CASE j.op = "reset"
    <3>1. /\ DOMAIN c = {"at", "seen"} /\ c["at"] = "sign" /\ c["seen"] = row[u] /\ "sign" \in Places
          /\ row[u] \in SignIns!Row \cup {SignIns!NoRow}
      BY <1>1 DEF Places, AccountsInv, AccountTypes
    <3> HIDE DEF c
    <3> DEFINE n == Over(j, c)
    <3>2. n \in Task /\ n.at = "sign" /\ n.op = j.op /\ n.user = u /\ n.link = j.link
      BY <1>1, <3>1, OverIsTask DEF Parts
    <3>3. Turned(r, n)
      BY <1>2, <2>1, <3>2, PutTurns DEF AccountsInv
    <3> HIDE DEF n
    <3>4. Doing(n) /\ ~Holder(n) /\ ~Using(n) /\ (Brings(n) => Brings(j))
      BY <1>1, <2>1, <3>2 DEF Doing, Named, Holder, Using, Brings
    <3> QED
      BY <3>2, <3>3, <3>4
  <2>2. CASE j.op # "reset"
    BY <1>2, <2>2, EndTurns, IdleDoesNothing DEF AccountsInv
  <2> QED
    BY <2>1, <2>2
<1>5. PICK n : /\ Turned(r, n) /\ (n # SignIns!Idle => Doing(n)) /\ ~Holder(n) /\ ~Using(n)
               /\ n.at \in {"idle", "sign"}
               /\ Brings(n) => Brings(j) /\ n.op = j.op /\ n.link = j.link
  BY <1>4
<1> HIDE DEF c
<1>6. /\ sessions' \subseteq SomeSession /\ IsFiniteSet(sessions')
      /\ \A t \in sessions' : \E s \in sessions :
           /\ t.user = s.user /\ t.iat = s.iat /\ t.at = s.at
           /\ t.early => s.early \/ (s.user = u /\ s.at < now)
  BY <1>1, <1>2, SessionsMapped DEF AccountsInv
<1>7. /\ now \in Nat \ {0} /\ after \in Nat /\ now <= after /\ after <= now + 2
      /\ j.op # "reset" => after = now + 2
  BY DEF AccountsInv, AccountTypes, SignIns!RevokedAfter, SignIns!Second
<1> HIDE DEF after
<1>8. /\ mark' \in [AccountIds -> Nat] /\ last' \in [AccountIds -> Nat]
      /\ mark'[u] = after /\ last'[u] = now
      /\ \A i \in AccountIds \ {u} : mark'[i] = mark[i] /\ last'[i] = last[i]
      /\ \A i \in AccountIds : last[i] \in Nat /\ mark[i] \in Nat
  BY <1>1, <1>2, <1>7 DEF AccountsInv, AccountTypes
<1>9. AccountTypes'
  BY <1>2, <1>5, <1>6, <1>8 DEF AccountsInv, AccountTypes, Turned
<1>10. Tasks'
  BY <1>5, TasksKept DEF AccountsInv
<1>11. IdsGivenOnce' /\ RowsListed' /\ Alone'
  BY <1>1, <1>5, <1>2, <1>3, GivenKept DEF AccountsInv
<1>12. n.at # "exchange" /\ j.at # "drop"
  BY <1>1, <1>5
<1>13. LinksNumbered' /\ LinksSpent' /\ TokensSpent' /\ Once'
  BY <1>2, <1>3, <1>5, <1>12, LinksStay
<1>14. BarredStay'
  BY <1>2, <1>3, BarredKept DEF AccountsInv
<1>15. \A s \in sessions : s.user \in AccountIds /\ s.at \in Nat /\ s.iat \in Nat
  BY DEF AccountsInv, AccountTypes, SomeSession
<1>16. TimesInOrder'
  <2>1. ASSUME NEW t \in sessions'
        PROVE  /\ t.iat <= t.at /\ t.at <= t.iat + 1 /\ t.at <= now
               /\ t.early => t.at < last'[t.user]
    <3>1. PICK s \in sessions : /\ t.user = s.user /\ t.iat = s.iat /\ t.at = s.at
                                /\ t.early => s.early \/ (s.user = u /\ s.at < now)
      BY <1>6
    <3>2. /\ s.iat <= s.at /\ s.at <= s.iat + 1 /\ s.at <= now
          /\ s.early => s.at < last[s.user]
          /\ last[s.user] <= now
      BY <1>15 DEF AccountsInv, TimesInOrder
    <3>3. CASE s.user = u
      BY <1>7, <1>8, <1>15, <3>1, <3>2, <3>3
    <3>4. CASE s.user # u
      BY <1>8, <1>15, <3>1, <3>2, <3>4
    <3> QED
      BY <3>3, <3>4
  <2>2. ASSUME NEW i \in AccountIds
        PROVE  /\ last'[i] <= now
               /\ (mark'[i] = 0 /\ last'[i] = 0) \/ (last'[i] <= mark'[i] /\ mark'[i] <= last'[i] + 2)
    BY <1>7, <1>8 DEF AccountsInv, TimesInOrder
  <2> QED
    BY <1>2, <2>1, <2>2 DEF TimesInOrder
<1>17. SessionsEnd'
  <2> SUFFICES ASSUME SignIns!Clear({"stale", "unmarked", "behind", "ungated"})',
                      NEW t \in sessions', mark'[t.user] = 0 \/ t.iat >= mark'[t.user]
               PROVE  \/ SignIns!Welcome(row[t.user])
                      \/ \E p \in Requests : Ending(job'[p]) /\ job'[p].user = t.user
    BY <1>2 DEF SessionsEnd, SignIns!IsActive, SignIns!Welcome, SignIns!Exists, Ending
  <2>1. PICK s \in sessions : t.user = s.user /\ t.iat = s.iat /\ t.at = s.at
    BY <1>6
  <2>2. SignIns!Clear({"stale", "unmarked", "behind", "ungated"}) /\ "behind" \notin incidents'
    BY <1>3 DEF SignIns!Clear
  <2>3. CASE s.user = u /\ j.op = "reset"
    BY <1>3, <2>1, <2>2, <2>3
  <2>4. CASE s.user = u /\ j.op # "reset"
    BY <1>7, <1>8, <1>15, <2>1, <2>4 DEF AccountsInv, TimesInOrder
  <2>5. CASE s.user # u
    BY <1>8, <1>15, <2>1, <2>5, <2>2, <1>5 DEF SignIns!IsActive, AccountsInv, SessionsEnd, Turned
  <2> QED
    BY <2>3, <2>4, <2>5
<1> QED
  BY <1>9, <1>10, <1>11, <1>13, <1>14, <1>16, <1>17 DEF AccountsInv

LEMMA AccountsInit ==
  ASSUME SignIns!Init
  PROVE  AccountsInv
<1> DEFINE Confirmable == [confirmed : BOOLEAN, disabled : {FALSE}, mfa : BOOLEAN,
                           signed : BOOLEAN, pass : {"first"}]
<1>1. /\ now = 1 /\ mark = [i \in AccountIds |-> 0] /\ last = mark /\ revoked = {}
      /\ job = [r \in Requests |-> SignIns!Idle] /\ barred = {} /\ used = <<>> /\ incidents = {}
      /\ indexed = made /\ made = IF SignIns!Exists(row[1]) THEN {1} ELSE {}
      /\ issued = Cardinality(links)
  BY SameCardinality, Zenon DEF SignIns!Init
<1>2. PICK x \in {SignIns!NoRow} \cup Confirmable :
             row = [i \in AccountIds |-> IF i = 1 THEN x ELSE SignIns!NoRow]
  BY DEF SignIns!Init
<1>3. 1 \in AccountIds /\ AccountIds \subseteq Nat \ {0}
  BY ControlAssumption
<1>4. x \in SignIns!Row \cup {SignIns!NoRow}
  BY DEF SignIns!Row
<1>5. /\ row \in [AccountIds -> SignIns!Row \cup {SignIns!NoRow}]
      /\ \A i \in AccountIds : SignIns!Exists(row[i]) => i = 1
      /\ made = {} \/ (made = {1} /\ row[1] \in Confirmable)
  BY <1>2, <1>3, <1>4, NoRowIsNoRow, <1>1
<1>6. links = {} \/ \E l \in SomeLink : links = {l} /\ l.n = 1
                                         /\ (l.kind \in {"enroll", "challenge"} => l.user \in AccountIds)
  <2>1. \/ links = {}
        \/ \E k \in {"magic", "oauth", "confirm", "reset"} : links = {[kind |-> k, n |-> 1, user |-> 0]}
        \/ \E k \in {"enroll", "challenge"} : links = {[kind |-> k, n |-> 1, user |-> 1]}
    BY DEF SignIns!Init
  <2>2. ASSUME NEW k \in {"magic", "oauth", "confirm", "reset"}, links = {[kind |-> k, n |-> 1, user |-> 0]}
        PROVE  \E l \in SomeLink : links = {l} /\ l.n = 1
                                     /\ (l.kind \in {"enroll", "challenge"} => l.user \in AccountIds)
    <3> DEFINE m == [kind |-> k, n |-> 1, user |-> 0]
    <3>1. m \in SomeLink /\ m.n = 1 /\ m.kind \notin {"enroll", "challenge"}
      BY DEF SomeLink, SignIns!Kinds
    <3> QED
      BY <2>2, <3>1, Zenon
  <2>3. ASSUME NEW k \in {"enroll", "challenge"}, links = {[kind |-> k, n |-> 1, user |-> 1]}
        PROVE  \E l \in SomeLink : links = {l} /\ l.n = 1
                                     /\ (l.kind \in {"enroll", "challenge"} => l.user \in AccountIds)
    <3> DEFINE m == [kind |-> k, n |-> 1, user |-> 1]
    <3>1. m \in SomeLink /\ m.n = 1 /\ m.user \in AccountIds
      BY <1>3 DEF SomeLink, SignIns!Kinds
    <3> QED
      BY <2>3, <3>1, Zenon
  <2> QED
    BY <2>1, <2>2, <2>3
<1>7. /\ links \subseteq SomeLink /\ issued \in Nat
      /\ \A l \in links : l.n <= issued /\ (l.kind \in {"enroll", "challenge"} => l.user \in AccountIds)
      /\ \A l, m \in links : l = m
  <2>1. CASE links = {}
    BY <1>1, <2>1, FS_EmptySet
  <2>2. CASE links # {}
    <3>1. PICK l \in SomeLink : links = {l} /\ l.n = 1
                                  /\ (l.kind \in {"enroll", "challenge"} => l.user \in AccountIds)
      BY <1>6, <2>2
    <3>2. Cardinality(links) = 1
      BY <3>1, FS_Singleton, Zenon
    <3> QED
      BY <1>1, <3>1, <3>2
  <2> QED
    BY <2>1, <2>2
<1>8. \/ sessions = {}
      \/ sessions = {[n |-> 1, user |-> 1, iat |-> 0, at |-> 1, early |-> FALSE]} /\ made # {}
  BY DEF SignIns!Init
<1>9. /\ sessions \subseteq SomeSession /\ IsFiniteSet(sessions)
      /\ \A s \in sessions : s.iat = 0 /\ s.at = 1 /\ s.early = FALSE /\ s.user = 1 /\ made = {1}
  <2>1. CASE sessions = {}
    BY <2>1, FS_EmptySet
  <2>2. CASE sessions # {}
    <3> DEFINE s == [n |-> 1, user |-> 1, iat |-> 0, at |-> 1, early |-> FALSE]
    <3>1. sessions = {s} /\ made = {1}
      BY <1>5, <1>8, <2>2
    <3>2. s \in SomeSession /\ s.iat = 0 /\ s.at = 1 /\ s.early = FALSE /\ s.user = 1
      BY <1>3 DEF SomeSession
    <3> HIDE DEF s
    <3>3. IsFiniteSet(sessions)
      BY <3>1, FS_Singleton, Zenon
    <3> QED
      BY <3>1, <3>2, <3>3
  <2> QED
    BY <2>1, <2>2
<1>10. \A r \in Requests : job[r] = SignIns!Idle /\ job[r].at = "idle"
  BY <1>1, IdleDoesNothing
<1>11. DOMAIN used = {}
  BY <1>1
<1>12. AccountTypes
  BY <1>1, <1>3, <1>5, <1>7, <1>9 DEF AccountTypes
<1>13. Tasks
  BY <1>10 DEF Tasks
<1>14. \A r \in Requests : ~Holder(job[r]) /\ ~Brings(job[r]) /\ ~Using(job[r]) /\ ~Ending(job[r])
  BY <1>10, IdleDoesNothing
<1>15. \A i \in AccountIds : SignIns!Exists(row[i]) => i \in made /\ i \in indexed
  BY <1>1, <1>5
<1>16. IdsGivenOnce /\ RowsListed /\ Alone
  BY <1>1, <1>10, <1>14, <1>15, <1>5 DEF IdsGivenOnce, RowsListed, Alone
<1>17. LinksNumbered /\ LinksSpent /\ TokensSpent /\ Once
  BY <1>7, <1>10, <1>11, <1>14 DEF LinksNumbered, LinksSpent, TokensSpent, Once
<1>18. TimesInOrder
  BY <1>1, <1>9 DEF TimesInOrder
<1>19. BarredStay
  BY <1>1 DEF BarredStay
<1>20. SessionsEnd
  BY <1>5, <1>9, NoRowIsNoRow DEF SignIns!Welcome, SignIns!Row, SessionsEnd
<1> QED
  BY <1>12, <1>13, <1>16, <1>17, <1>18, <1>19, <1>20 DEF AccountsInv

LEMMA AccountsNext ==
  ASSUME AccountsInv, [SignIns!Next]_(SignIns!vars)
  PROVE  AccountsInv'
<1>1. CASE UNCHANGED SignIns!vars
  <2>1. UNCHANGED <<row, indexed, links, mark, revoked, sessions, job, now, made, issued, barred, used,
                    last, incidents>>
    BY <1>1 DEF SignIns!vars, SignIns!store, SignIns!ghosts
  <2> QED
    BY <2>1 DEF AccountsInv, AccountTypes, Tasks, IdsGivenOnce, RowsListed, Alone, LinksNumbered,
                LinksSpent, TokensSpent, Once, TimesInOrder, BarredStay, SessionsEnd, Doing, Named,
                Holder, Brings, Using, Ending, SignIns!Clear, SignIns!Exists, SignIns!IsActive,
                SignIns!Welcome
<1>2. ASSUME NEW r \in Requests,
             \/ SignIns!Begin(r) \/ SignIns!Get(r) \/ SignIns!Spend(r) \/ SignIns!Token(r)
             \/ SignIns!Email(r) \/ SignIns!EmailFails(r) \/ SignIns!Withdraw(r)
             \/ SignIns!FindNone(r) \/ SignIns!FindOne(r) \/ SignIns!Unique(r) \/ SignIns!Edit(r)
             \/ SignIns!Send(r) \/ SignIns!IndexUser(r) \/ SignIns!DropEnrollment(r)
             \/ SignIns!DeleteRow(r) \/ SignIns!Unindex(r) \/ SignIns!Revoke(r) \/ SignIns!SignReset(r)
             \/ SignIns!Refresh(r) \/ SignIns!Exchange(r) \/ SignIns!SignOut(r) \/ SignIns!Fail(r)
      PROVE  AccountsInv'
  BY <1>2, BeginsAccount, GetAccountKeeps, SpendKeeps, TokenKeeps, EmailKeeps, EmailFailsKeeps,
     WithdrawKeeps, FindNoneKeeps, FindOneKeeps, UniqueKeeps, EditKeeps, SendKeeps, IndexUserKeeps,
     DropEnrollmentKeeps, DeleteRowKeeps, UnindexKeeps, RevokeKeeps, SignResetKeeps, RefreshKeeps,
     ExchangeKeeps, SignOutKeeps, FailAccountKeeps, Zenon
<1>3. ASSUME NEW l \in links, SignIns!Expire(l) PROVE AccountsInv'
  BY <1>3, ExpireLinkKeeps
<1>4. CASE SignIns!Tick
  BY <1>4, TickKeeps
<1> QED
  BY <1>1, <1>2, <1>3, <1>4 DEF SignIns!Next

\* The properties of Accounts, of the states that its invariant allows
LEMMA AccountsHold ==
  ASSUME AccountsInv
  PROVE  /\ SignIns!OneAccountPerEmail /\ SignIns!LinksGoodOnce
         /\ SignIns!AccessEnds /\ SignIns!NewSessionsWork
<1>1. ASSUME SignIns!Quiet
      PROVE  \A r \in Requests : job[r].at = "idle" /\ ~Ending(job[r])
  BY <1>1, IdleDoesNothing DEF SignIns!Quiet
<1>2. SignIns!OneAccountPerEmail
  <2> SUFFICES ASSUME SignIns!Clear({"raced", "unlisted"})
               PROVE  Cardinality({i \in AccountIds : SignIns!Exists(row[i])}) <= 1
    BY SameCardinality, Zenon DEF SignIns!OneAccountPerEmail
  <2> DEFINE S == {i \in AccountIds : SignIns!Exists(row[i])}
  <2>1. \A i, k \in S : i = k
    BY DEF AccountsInv, Alone
  <2> HIDE DEF S
  <2>2. CASE S = {}
    BY <2>2, FS_EmptySet DEF S
  <2>3. CASE S # {}
    <3>1. PICK i \in S : S = {i}
      BY <2>1, <2>3
    <3>2. Cardinality(S) = 1
      BY <3>1, FS_Singleton, Zenon
    <3> QED
      BY <3>2 DEF S
  <2> QED
    BY <2>2, <2>3
<1>3. SignIns!LinksGoodOnce
  BY DEF SignIns!LinksGoodOnce, AccountsInv, Once
<1>4. \A s \in sessions : s \in SomeSession /\ s.user \in AccountIds /\ s.iat \in Nat /\ s.at \in Nat
                          /\ mark[s.user] \in Nat /\ last[s.user] \in Nat
  BY DEF AccountsInv, AccountTypes, SomeSession
<1>5. \A s \in sessions :
        /\ s.iat <= s.at /\ s.at <= s.iat + 1 /\ (s.early => s.at < last[s.user])
        /\ \/ mark[s.user] = 0 /\ last[s.user] = 0
           \/ last[s.user] <= mark[s.user] /\ mark[s.user] <= last[s.user] + 2
  BY <1>4 DEF AccountsInv, TimesInOrder
<1>6. SignIns!AccessEnds
  <2> SUFFICES ASSUME SignIns!Quiet
               PROVE  /\ SignIns!Clear({"stale"}) => \A i \in barred : row[i].disabled
                      /\ \A s \in sessions : s.early => ~SignIns!IsActive(s)
                      /\ SignIns!Clear({"stale", "unmarked", "behind", "ungated"}) =>
                           \A s \in sessions : SignIns!IsActive(s) => SignIns!Welcome(row[s.user])
    BY DEF SignIns!AccessEnds
  <2>1. SignIns!Clear({"stale"}) => \A i \in barred : row[i].disabled
    BY DEF AccountsInv, BarredStay
  <2>2. ASSUME NEW s \in sessions, s.early PROVE ~SignIns!IsActive(s)
    BY <2>2, <1>4, <1>5 DEF SignIns!IsActive
  <2>3. SignIns!Clear({"stale", "unmarked", "behind", "ungated"}) =>
          \A s \in sessions : SignIns!IsActive(s) => SignIns!Welcome(row[s.user])
    BY <1>1 DEF AccountsInv, SessionsEnd
  <2> QED
    BY <2>1, <2>2, <2>3
<1>7. SignIns!NewSessionsWork
  BY <1>4, <1>5 DEF SignIns!NewSessionsWork, SignIns!IsActive, SignIns!Second
<1> QED
  BY <1>2, <1>3, <1>6, <1>7

-----------------------------------------------------------------------------
(* The client: the invariant.                                               *)

Calling == {c \in Calls : job[c] # SDK!Idle}
CallRecord == [op : {"signIn", "refresh", "signOut"}, token : Nat,
            at : {"asked", "checked", "answered"}, answer : Nat]

\* What a call has at hand: a session to refresh or to end, and no number that is yet to be given.
ClientShape ==
  /\ issued \in Nat /\ session \in 0..issued
  /\ job \in [Calls -> CallRecord \cup {SDK!Idle}]
  /\ \A c \in Calling :
       /\ job[c].token \in 0..issued /\ job[c].answer \in 0..issued
       /\ job[c].op # "signIn" => job[c].token # SDK!None
       /\ job[c].at = "checked" => job[c].op = "refresh"

\* A session under way to the client is nobody's yet: not the client's, nor another call's.
FreshTokens ==
  /\ revoked \subseteq 1..issued
  /\ \A c \in Calling : job[c].answer # SDK!None =>
       /\ job[c].answer \notin revoked
       /\ job[c].answer # session
       /\ \A d \in Calling :
            /\ job[d].token # job[c].answer
            /\ d # c => job[d].answer # job[c].answer

\* The answer to this call takes the client's session away, or replaces it.
ReplacesSession(c) ==
  /\ c \in Calling /\ job[c].at = "answered"
  /\ job[c].op = "signOut" \/ (job[c].op = "refresh" /\ job[c].answer # SDK!None)

\* A token of the client is spent only while the answer that says so is under way.
ClientTold ==
  "unknown" \notin incidents /\ session \in revoked => \E c \in Calls : ReplacesSession(c)

StaysSignedOut == "late" \notin incidents /\ out => session = SDK!None

ClientInv == ClientShape /\ FreshTokens /\ ClientTold /\ StaysSignedOut

-----------------------------------------------------------------------------
(* It holds at the start, and every step keeps it.                          *)

LEMMA ClientInit == SDK!Init => ClientInv
  BY DEF SDK!Init, ClientInv, ClientShape, FreshTokens, ClientTold, StaysSignedOut, Calling,
         SDK!Idle, SDK!None

\* A call that begins has the client's session as its token, or none, and no answer yet.
LEMMA CallBegins ==
  ASSUME ClientInv, NEW c \in Calls, NEW op \in {"signIn", "refresh", "signOut"}, NEW token \in 0..issued,
         job[c] = SDK!Idle, token \in {SDK!None, session},
         op # "signIn" => token # SDK!None,
         job' = [job EXCEPT ![c] = [op |-> op, token |-> token, at |-> "asked", answer |-> SDK!None]],
         UNCHANGED <<session, revoked, issued, incidents>>,
         out' = out \/ out' = FALSE
  PROVE  ClientInv'
  BY DEF ClientInv, ClientShape, CallRecord, SDK!Idle, SDK!None, Calling, FreshTokens, ClientTold,
     ReplacesSession, StaysSignedOut

LEMMA AnsweredIs ==
  ASSUME NEW j \in CallRecord, NEW n \in Nat
  PROVE  [j EXCEPT !.at = "answered", !.answer = n]
           = [op |-> j.op, token |-> j.token, at |-> "answered", answer |-> n]
<1> DEFINE k == [op |-> j.op, token |-> j.token, at |-> "answered", answer |-> j.answer]
<1>1. [j EXCEPT !.at = "answered"] = k
  BY DEF CallRecord
<1>2. [k EXCEPT !.answer = n] = [op |-> j.op, token |-> j.token, at |-> "answered", answer |-> n]
  OBVIOUS
<1>3. [j EXCEPT !.at = "answered", !.answer = n] = [[j EXCEPT !.at = "answered"] EXCEPT !.answer = n]
  BY DEF CallRecord
<1> QED
  BY <1>1, <1>2, <1>3

\* A call that the server answers with a new session has it to itself.
LEMMA ServerSigns ==
  ASSUME ClientInv, NEW c \in Calling, job[c].at # "answered",
         issued' = issued + 1,
         job' = [job EXCEPT ![c] = [job[c] EXCEPT !.at = "answered", !.answer = issued']],
         revoked' \in {revoked, revoked \cup {job[c].token}},
         revoked' # revoked => job[c].op = "refresh",
         UNCHANGED <<session, out, incidents>>
  PROVE  ClientInv'
<1>a. /\ c \in Calls /\ job[c] \in CallRecord
      /\ issued \in Nat /\ issued' \in Nat
      /\ job \in [Calls -> CallRecord \cup {SDK!Idle}]
  BY DEF ClientInv, ClientShape, Calling
<1>b. [job[c] EXCEPT !.at = "answered", !.answer = issued']
        = [op |-> job[c].op, token |-> job[c].token, at |-> "answered", answer |-> issued']
  BY <1>a, AnsweredIs, Zenon
<1>1. /\ \A d \in Calls \ {c} : job'[d] = job[d]
      /\ job'[c] = [op |-> job[c].op, token |-> job[c].token, at |-> "answered", answer |-> issued']
  BY <1>a, <1>b
<1>2. Calling' = Calling
  BY <1>1, <1>a DEF SDK!Idle, Calling
<1>3. /\ \A d \in Calling : job'[d].token = job[d].token /\ job'[d].op = job[d].op
      /\ \A d \in Calling \ {c} : job'[d] = job[d]
      /\ job'[c].answer = issued + 1 /\ job'[c].at = "answered"
  BY <1>a, <1>1 DEF Calling
<1>4. ClientShape'
  BY <1>a, <1>1, <1>2, <1>3 DEF ClientInv, ClientShape, CallRecord, SDK!None
<1>5. FreshTokens'
  BY <1>a, <1>1, <1>3, <1>2 DEF ClientInv, ClientShape, SDK!None, FreshTokens
<1>6. ClientTold'
  BY <1>2, <1>3, <1>a, <1>1 DEF ReplacesSession, SDK!None, ClientTold, ClientInv
<1>7. StaysSignedOut'
  BY DEF ClientInv, StaysSignedOut
<1> QED
  BY <1>4, <1>5, <1>6, <1>7 DEF ClientInv

\* The check of a token changes nothing but where the call is.
LEMMA ServerChecks ==
  ASSUME ClientInv, NEW c \in Calls, SDK!ServeCheck(c)
  PROVE  ClientInv'
<1> DEFINE at == IF job[c].token \in revoked THEN "answered" ELSE "checked"
<1>1. /\ \A d \in Calls \ {c} : job'[d] = job[d]
      /\ job[c] \in CallRecord /\ job[c].op = "refresh" /\ job[c].at = "asked"
      /\ job'[c] = [op |-> job[c].op, token |-> job[c].token, at |-> at, answer |-> job[c].answer]
      /\ UNCHANGED <<session, revoked, issued, out, incidents>>
  BY DEF ClientInv, ClientShape, SDK!ServeCheck, CallRecord, SDK!Idle, SDK!At, SDK!Put
<1>2. Calling' = Calling
  BY <1>1 DEF Calling, SDK!Idle
<1>3. \A d \in Calling :
        /\ job'[d].token = job[d].token /\ job'[d].op = job[d].op /\ job'[d].answer = job[d].answer
        /\ d # c => job'[d].at = job[d].at
  BY <1>1 DEF Calling
<1>4. ClientShape'
  BY <1>1, <1>2, <1>3 DEF ClientInv, ClientShape, CallRecord, SDK!ServeCheck, SDK!Put
<1>5. FreshTokens'
  BY <1>1, <1>2, <1>3 DEF ClientInv, FreshTokens
<1>6. ClientTold'
  BY <1>1, <1>2, <1>3 DEF ClientInv, ClientTold, ReplacesSession
<1>7. StaysSignedOut'
  BY <1>1 DEF ClientInv, StaysSignedOut
<1> QED
  BY <1>4, <1>5, <1>6, <1>7 DEF ClientInv

\* A sign-out spends the token of the client, and its answer is under way.
LEMMA ServerSignsOut ==
  ASSUME ClientInv, NEW c \in Calls, SDK!ServeSignOut(c)
  PROVE  ClientInv'
<1>1. /\ \A d \in Calls \ {c} : job'[d] = job[d]
      /\ job[c] \in CallRecord /\ job[c].op = "signOut" /\ job[c].at = "asked"
      /\ job'[c] = [op |-> job[c].op, token |-> job[c].token, at |-> "answered", answer |-> job[c].answer]
      /\ revoked' = revoked \cup {job[c].token}
      /\ UNCHANGED <<session, issued, out, incidents>>
  BY DEF ClientInv, ClientShape, SDK!ServeSignOut, CallRecord, SDK!Idle, SDK!At, SDK!Put
<1>2. Calling' = Calling /\ c \in Calling
  BY <1>1 DEF Calling, SDK!Idle
<1>3. \A d \in Calling :
        /\ job'[d].token = job[d].token /\ job'[d].op = job[d].op /\ job'[d].answer = job[d].answer
        /\ d # c => job'[d].at = job[d].at
  BY <1>1 DEF Calling
<1>4. ClientShape'
  BY <1>1, <1>2, <1>3 DEF ClientInv, ClientShape, CallRecord, SDK!ServeSignOut, SDK!Put
<1>5. FreshTokens'
  <2>1. job[c].token \in 1..issued
    BY <1>1, <1>2 DEF ClientInv, ClientShape, SDK!None
  <2>2. revoked' \subseteq 1..issued' /\ session' = session
    BY <1>1, <2>1 DEF ClientInv, FreshTokens
  <2>3. ASSUME NEW d \in Calling, job[d].answer # SDK!None
        PROVE  /\ job[d].answer \notin revoked' /\ job[d].answer # session
               /\ \A e \in Calling :
                    job[e].token # job[d].answer /\ (e # d => job[e].answer # job[d].answer)
    BY <1>1, <1>2, <2>3 DEF ClientInv, FreshTokens
  <2> QED
    BY <1>2, <1>3, <2>2, <2>3 DEF FreshTokens
<1>6. ClientTold'
  BY <1>1, <1>2 DEF ReplacesSession, ClientTold
<1>7. StaysSignedOut'
  BY <1>1 DEF ClientInv, StaysSignedOut
<1> QED
  BY <1>4, <1>5, <1>6, <1>7 DEF ClientInv

\* An answer gives the client a session that nobody else has, takes its own, or changes nothing.
LEMMA ClientAnswered ==
  ASSUME ClientInv, NEW c \in Calls, SDK!Answer(c)
  PROVE  ClientInv'
<1> DEFINE j == job[c]
<1>1. /\ \A d \in Calls \ {c} : job'[d] = job[d]
      /\ job[c] \in CallRecord /\ j.at = "answered"
      /\ job'[c] = SDK!Idle
      /\ session' = SDK!NextSession(j)
      /\ UNCHANGED <<revoked, issued>>
  BY DEF ClientInv, ClientShape, SDK!Answer, CallRecord, SDK!Idle, SDK!At, SDK!End, SDK!Put
<1>2. Calling' = Calling \ {c} /\ c \in Calling
  BY <1>1 DEF Calling, SDK!Idle
<1>a. \A d \in Calling' : d \in Calling /\ d # c /\ job'[d] = job[d]
  BY <1>1, <1>2 DEF Calling
<1>3. session' \in {SDK!None, j.answer, session}
  BY <1>1 DEF SDK!NextSession
<1>4. ClientShape'
  BY <1>1, <1>2, <1>3, <1>a DEF ClientInv, ClientShape, SDK!Answer, SDK!End, SDK!Put, SDK!None
<1>5. FreshTokens'
  BY <1>1, <1>2, <1>a, <1>3 DEF ClientInv, FreshTokens
<1>6. ClientTold'
  BY <1>1, <1>2, <1>3 DEF ReplacesSession, SDK!NextSession, ClientInv, FreshTokens, ClientShape,
     SDK!None, SDK!Answer, SDK!Mark, ClientTold, Calling
<1>7. StaysSignedOut'
  BY <1>1 DEF SDK!Answer, SDK!NextSession, SDK!Mark, StaysSignedOut
<1> QED
  BY <1>4, <1>5, <1>6, <1>7 DEF ClientInv

\* What is lost is not under way any more.
LEMMA CallLost ==
  ASSUME ClientInv, NEW c \in Calls, SDK!Lose(c)
  PROVE  ClientInv'
<1>1. /\ \A d \in Calls \ {c} : job'[d] = job[d]
      /\ job[c] \in CallRecord
      /\ job'[c] = SDK!Idle
      /\ UNCHANGED <<session, revoked, issued, out>>
  BY DEF ClientInv, ClientShape, SDK!Lose, SDK!End, SDK!Put
<1>2. Calling' = Calling \ {c} /\ c \in Calling
  BY <1>1 DEF Calling, SDK!Idle, CallRecord
<1>a. \A d \in Calling' : d \in Calling /\ d # c /\ job'[d] = job[d]
  BY <1>1, <1>2 DEF Calling
<1>3. ClientShape'
  BY <1>1, <1>a DEF ClientInv, ClientShape, SDK!Lose, SDK!End, SDK!Put
<1>4. FreshTokens'
  BY <1>1, <1>a DEF ClientInv, FreshTokens
<1>5. "unknown" \in incidents => "unknown" \in incidents'
  BY DEF SDK!Lose, SDK!Mark
<1>6. ClientTold'
  BY <1>1, <1>2, <1>5 DEF ReplacesSession, SDK!Lose, SDK!Mark, SDK!At, ClientInv, ClientTold,
     Calling
<1>7. StaysSignedOut'
  BY <1>1 DEF ClientInv, StaysSignedOut, SDK!Lose, SDK!Mark
<1> QED
  BY <1>3, <1>4, <1>6, <1>7 DEF ClientInv

LEMMA ClientNext ==
  ASSUME ClientInv, [SDK!Next]_(SDK!vars)
  PROVE  ClientInv'
<1>1. CASE UNCHANGED SDK!vars
  BY <1>1 DEF SDK!vars, ClientInv, ClientShape, FreshTokens, ClientTold, StaysSignedOut,
              ReplacesSession, Calling
<1>2. ASSUME NEW c \in Calls,
             \/ SDK!SignIn(c) \/ SDK!RefreshSession(c) \/ SDK!SignOut(c)
             \/ SDK!ServeSignIn(c) \/ SDK!ServeCheck(c) \/ SDK!ServeRefresh(c) \/ SDK!ServeSignOut(c)
             \/ SDK!Answer(c) \/ SDK!Lose(c)
      PROVE  ClientInv'
  <2>1. SDK!At(c, "idle") => job[c] = SDK!Idle
    BY DEF ClientInv, ClientShape, CallRecord, SDK!At
  <2>2. session \in 0..issued /\ SDK!None \in 0..issued
    BY DEF ClientInv, ClientShape, SDK!None
  <2>3. CASE SDK!SignIn(c)
    BY <2>1, <2>2, <2>3, CallBegins DEF SDK!SignIn, SDK!Put
  <2>4. CASE SDK!RefreshSession(c)
    BY <2>1, <2>2, <2>4, CallBegins DEF SDK!RefreshSession, SDK!Put
  <2>5. CASE SDK!SignOut(c)
    BY <2>1, <2>2, <2>5, CallBegins DEF SDK!SignOut, SDK!Put
  <2>6. CASE SDK!ServeSignIn(c)
    <3>1. c \in Calling /\ job[c].at # "answered"
      BY <2>6 DEF SDK!ServeSignIn, SDK!At, Calling, SDK!Idle
    <3> QED
      BY <2>6, <3>1, ServerSigns, Zenon DEF SDK!ServeSignIn, SDK!Put, SDK!New
  <2>7. CASE SDK!ServeCheck(c)
    BY <2>7, ServerChecks
  <2>8. CASE SDK!ServeRefresh(c)
    <3>1. c \in Calling /\ job[c].at # "answered"
      BY <2>8 DEF SDK!ServeRefresh, SDK!At, Calling, SDK!Idle
    <3>2. job[c].op = "refresh"
      BY <2>8, <3>1 DEF SDK!ServeRefresh, SDK!At, ClientInv, ClientShape
    <3> QED
      BY <2>8, <3>1, <3>2, ServerSigns, Zenon DEF SDK!ServeRefresh, SDK!Put, SDK!New
  <2>9. CASE SDK!ServeSignOut(c)
    BY <2>9, ServerSignsOut
  <2>10. CASE SDK!Answer(c)
    BY <2>10, ClientAnswered
  <2>11. CASE SDK!Lose(c)
    BY <2>11, CallLost
  <2> QED
    BY <1>2, <2>3, <2>4, <2>5, <2>6, <2>7, <2>8, <2>9, <2>10, <2>11
<1> QED
  BY <1>1, <1>2, Zenon DEF SDK!Next

LEMMA ClientHolds ==
  ASSUME ClientInv
  PROVE  SDK!ClientInStep
  BY DEF SDK!Quiet, ReplacesSession, Calling, ClientInv, ClientTold, StaysSignedOut,
     SDK!ClientInStep

-----------------------------------------------------------------------------
(* The theorems.                                                            *)

ControlInv ==
  /\ part \in {"access", "accounts", "client"}
  /\ part = "access" => AccessInv
  /\ part = "accounts" => AccountsInv
  /\ part = "client" => ClientInv

LEMMA ControlStarts == Init => ControlInv
<1> SUFFICES ASSUME Init PROVE ControlInv
  OBVIOUS
<1>1. CASE part = "access" /\ Roles!Init
  BY <1>1, AccessInit DEF ControlInv
<1>2. CASE part = "accounts" /\ SignIns!Init
  BY <1>2, AccountsInit DEF ControlInv
<1>3. CASE part = "client" /\ SDK!Init
  BY <1>3, ClientInit DEF ControlInv
<1> QED
  BY <1>1, <1>2, <1>3, Zenon DEF Init

\* A step of one part, or none, is one of what the part is about.
LEMMA ControlGoesOn == ControlInv /\ [Next]_vars => ControlInv'
<1> SUFFICES ASSUME ControlInv, [Next]_vars PROVE ControlInv'
  OBVIOUS
<1>1. \/ UNCHANGED vars
      \/ part = "access" /\ Roles!Next /\ UNCHANGED part
      \/ part = "accounts" /\ SignIns!Next /\ UNCHANGED part
      \/ part = "client" /\ SDK!Next /\ UNCHANGED part
  BY Zenon DEF Next
<1>2. /\ UNCHANGED vars => UNCHANGED part
      /\ UNCHANGED vars => UNCHANGED Roles!vars
      /\ UNCHANGED vars => UNCHANGED SignIns!vars
      /\ UNCHANGED vars => UNCHANGED SDK!vars
  BY DEF vars, access, accounts, client, bounds, Roles!vars, Roles!store, Roles!ghosts, SignIns!vars,
         SignIns!store, SignIns!ghosts, SDK!vars
<1>3. CASE part = "access"
  BY <1>1, <1>2, <1>3, AccessNext DEF ControlInv
<1>4. CASE part = "accounts"
  BY <1>1, <1>2, <1>4, AccountsNext DEF ControlInv
<1>5. CASE part = "client"
  BY <1>1, <1>2, <1>5, ClientNext DEF ControlInv
<1> QED
  BY <1>3, <1>4, <1>5 DEF ControlInv

THEOREM ControlInvariant == Spec => []ControlInv
  BY ControlStarts, ControlGoesOn, PTL DEF Spec

\* However updates, acceptances and sweeps of members cross (ProjectAccessService.updateMemberRole,
\* removeMember, acceptInvitation, upsertRole), members and roles are what the updates made them,
\* and each member finds the project.
THEOREM MembersStand == Spec => []RolesStand
<1>1. ControlInv => RolesStand
  BY AccessHolds DEF ControlInv, RolesStand
<1> QED
  BY <1>1, ControlInvariant, PTL

\* An invitation makes one member at most, none once it is withdrawn, and nothing outlives its
\* project (ProjectAccessService.acceptInvitation, revokeInvitation, cleanupProject).
THEOREM InvitationsEnd == Spec => []InvitesEnd
<1>1. ControlInv => InvitesEnd
  BY AccessHolds DEF ControlInv, InvitesEnd
<1> QED
  BY <1>1, ControlInvariant, PTL

\* An email has one account, and links and tokens do what they are for once
\* (AuthService.registerUser, confirmEmail, resetPassword, verifyMagicLink, refreshSession), for any
\* number of accounts, requests and failures.
THEOREM AccountsAndLinksOnce == Spec => []UsedOnce
<1>1. ControlInv => UsedOnce
  BY AccountsHold DEF ControlInv, UsedOnce
<1> QED
  BY <1>1, ControlInvariant, PTL

\* Revoked sessions and those of disabled and deleted accounts have ended, and new ones work
\* (AuthService.revokeUserSessions, isSessionActive, updateUserState).
THEOREM SessionsEndInTime == Spec => []AccessEnds
<1>1. ControlInv => AccessEnds
  BY AccountsHold DEF ControlInv, AccessEnds
<1> QED
  BY <1>1, ControlInvariant, PTL

\* However calls and answers cross (AuthClient.refreshSession, signOut, setSession), a client that
\* is left alone holds a session that the server refreshes, or none, unless it was not told.
THEOREM ClientStaysInStep == Spec => []ClientInStep
<1>1. ControlInv => ClientInStep
  BY ClientHolds DEF ControlInv, ClientInStep
<1> QED
  BY <1>1, ControlInvariant, PTL
=============================================================================
