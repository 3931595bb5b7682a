------------------------------- MODULE Access -------------------------------
(***************************************************************************)
(* Who may work on one project: its members and roles, which are part of   *)
(* the project's record in Redis, its invitations, which are keys of their *)
(* own, and every member's list of projects.  A request reads the record,  *)
(* decides on its copy, and has updateProject read it again and write it   *)
(* back whole.                                                             *)
(***************************************************************************)
EXTENDS Naturals, FiniteSets

CONSTANTS
  Users,      \* platform users, the owner not among them
  Custom,     \* the keys of custom roles
  Saved,      \* the sets of permissions that a custom role is saved with
  Given,      \* the role keys that members are given
  Invites,    \* ids of invitations, each with its token
  Requests,   \* requests in progress together
  MaxCalls,   \* bound: requests
  MaxFaults   \* bound: requests that fail half-way, expiries

Owner == "owner"
Permissions == {"members.manage", "roles.manage", "settings.manage", "project.delete"}

\* SYSTEM_ROLES, as far as these permissions go: editor and viewer have none of them.
System == [viewer |-> {}, admin |-> {"settings.manage"}]
RoleKeys == DOMAIN System \cup Custom

Partial(D, R) == UNION {[d -> R] : d \in SUBSET D}
Record == [roles : Partial(Custom, SUBSET Permissions), members : Partial(Users, RoleKeys)]
Gone == [gone |-> TRUE]     \* no record, or none read
Exists(p) == p # Gone

Invitation == [user : Users, role : RoleKeys, revoked : BOOLEAN, accepted : BOOLEAN]
NoCard == [user |-> Owner]

Call ==
  [op : {"invite"}, by : Users \cup {Owner}, user : Users, role : Given, invite : Invites]
    \cup [op : {"accept"}, invite : Invites]
    \cup [op : {"revoke"}, by : Users \cup {Owner}, invite : Invites]
    \cup [op : {"setRole"}, by : Users \cup {Owner}, user : Users, role : Given]
    \cup [op : {"remove"}, by : Users \cup {Owner}, user : Users]
    \cup [op : {"saveRole"}, by : Users \cup {Owner}, role : Custom,
          permissions : Saved]
    \cup [op : {"dropRole"}, by : Users \cup {Owner}, role : Custom]
    \cup [op : {"rename", "delete"}, by : Users \cup {Owner}]
    \cup [op : {"list"}]

Labels == {"card", "read", "recheck", "write", "fetch", "get", "set", "enlist", "unlist", "mark",
           "clean", "ids", "exec", "load", "drop", "sift", "srem"}

VARIABLES
  record,     \* project:<id>
  listed,     \* the users whose member:<user>:projects has the project
  invites,    \* project:<id>:invite:<id>, with project:invite:<token>
  inviteSet,  \* project:<id>:invites
  job,        \* what each request does, and what it has read
  \* The rest is not in the code.
  intended,   \* the members and roles that the updates written have meant
  spent,      \* the invitations whose acceptance was written
  misused,    \* those accepted by a request that began after they were spent or withdrawn
  withdrawn,  \* the invitations whose revocation was written
  deleted,    \* the project was deleted
  issued,     \* the ids that randomUUID has given
  calls, faults,
  incidents

store == <<record, listed, invites, inviteSet>>
ghosts == <<intended, spent, misused, withdrawn, deleted, issued>>
vars == <<store, job, ghosts, calls, faults, incidents>>

Incidents == {
  "stale",        \* a record was written on a copy of another
  "unvalidated",  \* an invitation was accepted whose role was no longer there
  "crossed",      \* a user was listed, or taken off, against what the record said by then
  "overlap",      \* an invitation was written back that had changed since it was read
  "cut",          \* a request failed between two of its writes
  "revived"}      \* something of a deleted project was written after it

Idle == [at |-> "idle"]
Job == [call : Call, at : Labels, seen : Record \cup {Gone}, base : Record \cup {Gone},
        card : Invitation \cup {NoCard}, ids : SUBSET Invites, late : BOOLEAN]

TypeOK ==
  /\ record \in Record \cup {Gone}
  /\ listed \subseteq Users
  /\ DOMAIN invites \subseteq Invites /\ \A i \in DOMAIN invites : invites[i] \in Invitation
  /\ inviteSet \subseteq Invites
  /\ \A r \in Requests : job[r] = Idle \/ job[r] \in Job
  /\ intended \in Record
  /\ spent \subseteq Invites /\ misused \subseteq Invites /\ withdrawn \subseteq Invites /\ deleted \in BOOLEAN
  /\ issued \subseteq Invites
  /\ calls \in 0..MaxCalls /\ faults \in 0..MaxFaults
  /\ incidents \subseteq Incidents

With(f, x, v) == [y \in DOMAIN f \cup {x} |-> IF y = x THEN v ELSE f[y]]
Drop(f, S) == [x \in DOMAIN f \ S |-> f[x]]

\* Every custom role manages members and roles; some users are members, and there may be one
\* open invitation.
Init ==
  /\ record \in {[roles |-> [c \in Custom |-> {"members.manage", "roles.manage"}],
                  members |-> m] : m \in Partial(Users, Given)}
  /\ listed = DOMAIN record.members
  /\ invites \in {<<>>} \cup {With(<<>>, i, [user |-> u, role |-> k, revoked |-> FALSE,
                                            accepted |-> FALSE])
                               : i \in Invites, u \in Users \ listed, k \in Given}
  /\ inviteSet = DOMAIN invites
  /\ job = [r \in Requests |-> Idle]
  /\ intended = record
  /\ spent = {} /\ misused = {} /\ withdrawn = {} /\ deleted = FALSE
  /\ issued = inviteSet
  /\ calls = 0 /\ faults = 0
  /\ incidents = {}

Mark(kinds) == incidents' = incidents \cup kinds
When(condition, kind) == IF condition THEN {kind} ELSE {}
Put(r, changes) ==
  job' = [job EXCEPT ![r] = [x \in DOMAIN @ |-> IF x \in DOMAIN changes THEN changes[x] ELSE @[x]]]
Goto(r, label) == Put(r, [at |-> label])
End(r) == job' = [job EXCEPT ![r] = Idle]
At(r, label) == job[r].at = label
Stay == UNCHANGED <<calls, faults>>

\* getMergedRoles and resolveRole
Known(p, key) == key \in DOMAIN System \cup DOMAIN p.roles
Grants(p, key) == IF key \in DOMAIN p.roles THEN p.roles[key] ELSE System[key]

\* assertPlatformPermission; a member whose role is unknown is refused.
May(p, by, permission) ==
  \/ by = Owner
  \/ by \in DOMAIN p.members /\ Known(p, p.members[by]) /\ permission \in Grants(p, p.members[by])

\* The deletion has taken the members and invitations away, and is about to take the record.
Swept == deleted \/ \E r \in Requests : job[r].at \in {"load", "drop"}

-----------------------------------------------------------------------------
(* A request arrives, and reads the record.                                 *)

Begin(r) ==
  \E c \in Call :
     /\ job[r] = Idle
     /\ calls < MaxCalls /\ calls' = calls + 1
     /\ IF c.op = "invite"
        THEN c.invite \notin issued /\ issued' = issued \cup {c.invite}
        ELSE UNCHANGED issued
     /\ job' = [job EXCEPT ![r] =
          [call |-> c, seen |-> Gone, base |-> Gone, card |-> NoCard, ids |-> {},
           late |-> c.op = "accept" /\ c.invite \in spent \cup withdrawn,
           at |-> CASE c.op = "accept" -> "card" [] c.op = "list" -> "ids" [] OTHER -> "read"]]
     /\ UNCHANGED <<store, intended, spent, misused, withdrawn, deleted, faults, incidents>>

\* deleteRole: the members of the copy that have the role
InUse(p, key) == \E u \in DOMAIN p.members : p.members[u] = key

\* Whether the handler goes on with the record it has read.
Allowed(c, p) ==
  CASE c.op = "invite"   -> Known(p, c.role) /\ c.user \notin DOMAIN p.members
    [] c.op = "accept"   -> TRUE
    [] c.op = "revoke"   -> May(p, c.by, "members.manage")
    [] c.op = "setRole"  -> May(p, c.by, "members.manage") /\ Known(p, c.role)
                              /\ c.user \in DOMAIN p.members
    [] c.op = "remove"   -> May(p, c.by, "members.manage") /\ c.user \in DOMAIN p.members
    [] c.op = "saveRole" -> May(p, c.by, "roles.manage")
    [] c.op = "dropRole" -> May(p, c.by, "roles.manage") /\ c.role \in DOMAIN p.roles
                              /\ ~InUse(p, c.role)
    [] c.op = "rename"   -> May(p, c.by, "settings.manage")
    [] c.op = "delete"   -> May(p, c.by, "project.delete")

AfterRead(c) ==
  CASE c.op = "invite" -> IF c.by = Owner THEN "write" ELSE "recheck"
    [] c.op = "revoke" -> "fetch"
    [] c.op = "delete" -> "clean"
    [] OTHER           -> "get"

\* getProjectWithDefaults, and what is decided on the copy
Read(r) ==
  /\ At(r, "read")
  /\ IF Exists(record) /\ Allowed(job[r].call, record)
     THEN Put(r, [at |-> AfterRead(job[r].call),
                  seen |-> IF AfterRead(job[r].call) = "get" THEN record ELSE Gone])
     ELSE End(r)
  /\ Stay /\ UNCHANGED <<store, ghosts, incidents>>

\* inviteMember reads once more for the permission of an actor who is not the owner.
Recheck(r) ==
  /\ At(r, "recheck")
  /\ IF Exists(record) /\ May(record, job[r].call.by, "members.manage")
     THEN Goto(r, "write")
     ELSE End(r)
  /\ Stay /\ UNCHANGED <<store, ghosts, incidents>>

-----------------------------------------------------------------------------
(* Updates of the record.                                                   *)

\* updateProject reads what it will write over.
Get(r) ==
  /\ At(r, "get")
  /\ IF Exists(record) THEN Put(r, [at |-> "set", base |-> record]) ELSE End(r)
  /\ Stay /\ UNCHANGED <<store, ghosts, incidents>>

\* Mutant of Patch: the role of one member is set in a record of that member alone.
PatchAlone(j, p) ==
  CASE j.call.op = "accept"   -> [members |-> With(<<>>, j.card.user, j.card.role)]
    [] j.call.op = "setRole"  -> [members |-> With(<<>>, j.call.user, j.call.role)]
    [] j.call.op = "remove"   -> [members |-> Drop(p.members, {j.call.user})]
    [] j.call.op = "saveRole" -> [roles |-> With(p.roles, j.call.role, j.call.permissions)]
    [] j.call.op = "dropRole" -> [roles |-> Drop(p.roles, {j.call.role})]
    [] j.call.op = "rename"   -> [x \in {} |-> p]

\* What the request changes: the members or the roles, whole, from the copy it has read.
Patch(j, p) ==
  CASE j.call.op = "accept"   -> [members |-> With(p.members, j.card.user, j.card.role)]
    [] j.call.op = "setRole"  -> [members |-> With(p.members, j.call.user, j.call.role)]
    [] j.call.op = "remove"   -> [members |-> Drop(p.members, {j.call.user})]
    [] j.call.op = "saveRole" -> [roles |-> With(p.roles, j.call.role, j.call.permissions)]
    [] j.call.op = "dropRole" -> [roles |-> Drop(p.roles, {j.call.role})]
    [] j.call.op = "rename"   -> [x \in {} |-> p]

\* What it means to change, whatever the record has become.
Meant(c, card, p) ==
  CASE c.op = "accept"   -> [p EXCEPT !.members = With(@, card.user, card.role)]
    [] c.op = "setRole"  -> [p EXCEPT !.members = [u \in DOMAIN @ |->
                                                     IF u = c.user THEN c.role ELSE @[u]]]
    [] c.op = "remove"   -> [p EXCEPT !.members = Drop(@, {c.user})]
    [] c.op = "saveRole" -> [p EXCEPT !.roles = With(@, c.role, c.permissions)]
    [] c.op = "dropRole" -> [p EXCEPT !.roles = Drop(@, {c.role})]
    [] c.op = "rename"   -> p

\* Mutant of AfterSet: a member who is removed keeps the project on the list.
AfterSetForgetful(op) ==
  CASE op = "accept" -> "enlist" [] OTHER -> "done"

AfterSet(op) ==
  CASE op = "accept" -> "enlist" [] op = "remove" -> "unlist" [] OTHER -> "done"

\* updateProject writes the copy with the change in it.
Set(r) ==
  LET j == job[r]
      crossed == {p \in {j.seen, j.base} : p # record}
  IN /\ At(r, "set")
     /\ record' = [f \in {"roles", "members"} |->
          IF f \in DOMAIN Patch(j, j.seen) THEN Patch(j, j.seen)[f] ELSE j.base[f]]
     /\ intended' = Meant(j.call, j.card, intended)
     /\ misused' = IF j.late THEN misused \cup {j.call.invite} ELSE misused
     /\ Mark(When(crossed # {}, "stale") \cup When(record = Gone, "revived")
             \cup When(j.call.op = "accept" /\ ~Known(record', j.card.role), "unvalidated"))
     /\ IF AfterSet(j.call.op) = "done" THEN End(r)
        ELSE Put(r, [at |-> AfterSet(j.call.op), seen |-> Gone, base |-> Gone])
     /\ Stay /\ UNCHANGED <<listed, invites, inviteSet, spent, withdrawn, deleted, issued>>

Member(u) == Exists(record) /\ u \in DOMAIN record.members

\* acceptInvitation puts the project on the new member's list.
Enlist(r) ==
  LET u == job[r].card.user
  IN /\ At(r, "enlist")
     /\ listed' = listed \cup {u}
     /\ Mark(When(~Member(u), "crossed") \cup When(Swept, "revived"))
     /\ Goto(r, "mark")
     /\ Stay /\ UNCHANGED <<record, invites, inviteSet, ghosts>>

\* removeMember takes it off.
Unlist(r) ==
  LET u == job[r].call.user
  IN /\ At(r, "unlist")
     /\ listed' = listed \ {u}
     /\ Mark(When(Member(u), "crossed"))
     /\ End(r)
     /\ Stay /\ UNCHANGED <<record, invites, inviteSet, ghosts>>

-----------------------------------------------------------------------------
(* Invitations.                                                             *)

\* writeInvitation, a transaction: the key, the set and the lookup of the token
WriteInvite(i, card) == invites' = With(invites, i, card) /\ inviteSet' = inviteSet \cup {i}

Invite(r) ==
  LET c == job[r].call
  IN /\ At(r, "write")
     /\ WriteInvite(c.invite, [user |-> c.user, role |-> c.role,
                               revoked |-> FALSE, accepted |-> FALSE])
     /\ Mark(When(Swept, "revived"))
     /\ End(r)
     /\ Stay /\ UNCHANGED <<record, listed, ghosts>>

\* acceptInvitation: neither revoked nor accepted; one that has expired is not there.
Acceptable(card) == ~card.revoked /\ ~card.accepted

\* acceptInvitation reads the invitation by its token.
Card(r) ==
  LET i == job[r].call.invite
  IN /\ At(r, "card")
     /\ IF i \in DOMAIN invites /\ Acceptable(invites[i])
        THEN Put(r, [at |-> "read", card |-> invites[i]])
        ELSE End(r)
     /\ Stay /\ UNCHANGED <<store, ghosts, incidents>>

\* revokeInvitation reads it by its id.
Fetch(r) ==
  LET i == job[r].call.invite
  IN /\ At(r, "fetch")
     /\ IF i \in DOMAIN invites THEN Put(r, [at |-> "mark", card |-> invites[i]]) ELSE End(r)
     /\ Stay /\ UNCHANGED <<store, ghosts, incidents>>

Marked(op, card) ==
  IF op = "revoke" THEN [card EXCEPT !.revoked = TRUE] ELSE [card EXCEPT !.accepted = TRUE]

\* Both write the copy they have read back, with their mark.
MarkInvite(r) ==
  LET i == job[r].call.invite
      op == job[r].call.op
  IN /\ At(r, "mark")
     /\ WriteInvite(i, Marked(op, job[r].card))
     /\ withdrawn' = IF op = "revoke" THEN withdrawn \cup {i} ELSE withdrawn
     /\ spent' = IF op = "accept" THEN spent \cup {i} ELSE spent
     /\ Mark(When(i \notin DOMAIN invites \/ With(invites, i, job[r].card) # invites, "overlap")
             \cup When(Swept, "revived"))
     /\ End(r)
     /\ Stay /\ UNCHANGED <<record, listed, intended, misused, deleted, issued>>

\* listInvitations takes the ids off the set whose invitation it does not find.
Ids(r) ==
  /\ At(r, "ids")
  /\ Put(r, [at |-> IF job[r].call.op = "list" THEN "sift" ELSE "exec", ids |-> inviteSet])
  /\ Stay /\ UNCHANGED <<store, ghosts, incidents>>

Sift(r) ==
  /\ At(r, "sift")
  /\ IF job[r].ids = {}
     THEN End(r)
     ELSE LET i == CHOOSE x \in job[r].ids : TRUE
          IN IF i \in DOMAIN invites
             THEN Put(r, [ids |-> job[r].ids \ {i}])
             ELSE Goto(r, "srem")
  /\ Stay /\ UNCHANGED <<store, ghosts, incidents>>

Srem(r) ==
  LET i == CHOOSE x \in job[r].ids : TRUE
  IN /\ At(r, "srem")
     /\ inviteSet' = inviteSet \ {i}
     /\ Put(r, [at |-> "sift", ids |-> job[r].ids \ {i}])
     /\ Stay /\ UNCHANGED <<record, listed, invites, ghosts, incidents>>

\* An invitation's keys expire.
Expire(i) ==
  /\ i \in DOMAIN invites
  /\ faults < MaxFaults /\ faults' = faults + 1
  /\ invites' = Drop(invites, {i})
  /\ UNCHANGED <<record, listed, inviteSet, job, ghosts, calls, incidents>>

-----------------------------------------------------------------------------
(* Deletion of the project.                                                 *)

\* cleanupProject reads the members,
Clean(r) ==
  /\ At(r, "clean")
  /\ IF Exists(record) THEN Put(r, [at |-> "ids", seen |-> record]) ELSE End(r)
  /\ Stay /\ UNCHANGED <<store, ghosts, incidents>>

\* Mutant of Sweep: the members' lists are left to expire.
SweepInvitesOnly(j) == [listed |-> listed, invites |-> Drop(invites, j.ids)]

Sweep(j) == [listed |-> listed \ DOMAIN j.seen.members, invites |-> Drop(invites, j.ids)]

\* and in one transaction takes them, the invitations it has read and their set away.
Exec(r) ==
  LET j == job[r]
  IN /\ At(r, "exec")
     /\ listed' = Sweep(j).listed /\ invites' = Sweep(j).invites
     /\ inviteSet' = {}
     /\ Mark(When(listed \ DOMAIN j.seen.members # {} \/ DOMAIN invites \ j.ids # {}, "revived"))
     /\ Put(r, [at |-> "load", seen |-> Gone, ids |-> {}])
     /\ Stay /\ UNCHANGED <<record, ghosts>>

\* deleteProject reads the record, deletes the channels, and the record.
Load(r) ==
  /\ At(r, "load")
  /\ IF Exists(record) THEN Goto(r, "drop") ELSE End(r)
  /\ Stay /\ UNCHANGED <<store, ghosts, incidents>>

DropRecord(r) ==
  /\ At(r, "drop")
  /\ record' = Gone
  /\ deleted' = TRUE
  /\ End(r)
  /\ Stay /\ UNCHANGED <<listed, invites, inviteSet, incidents, intended, spent, misused, withdrawn, issued>>

-----------------------------------------------------------------------------

\* A request ends with an error of Redis, or with the process.
Fail(r) ==
  /\ job[r] # Idle
  /\ faults < MaxFaults /\ faults' = faults + 1
  /\ Mark(When(job[r].at \in {"enlist", "unlist", "load", "drop"}
                 \/ (job[r].at = "mark" /\ job[r].call.op = "accept"), "cut"))
  /\ End(r)
  /\ UNCHANGED <<store, ghosts, calls>>

Next ==
  \/ \E r \in Requests :
        \/ Begin(r) \/ Read(r) \/ Recheck(r) \/ Get(r) \/ Set(r) \/ Enlist(r) \/ Unlist(r)
        \/ Invite(r) \/ Card(r) \/ Fetch(r) \/ MarkInvite(r)
        \/ Ids(r) \/ Sift(r) \/ Srem(r)
        \/ Clean(r) \/ Exec(r) \/ Load(r) \/ DropRecord(r)
        \/ Fail(r)
  \/ \E i \in Invites : Expire(i)

Spec == Init /\ [][Next]_vars

-----------------------------------------------------------------------------

Quiet == \A r \in Requests : job[r] = Idle
Clear(kinds) == incidents \cap kinds = {}

\* Between requests the members and the roles are what the updates of them have made, in the
\* order they were written, and every member's role is there, unless an update was
\* written on a copy of another record or an invitation was accepted whose role had gone:
\* acceptInvitation does not ask, and listMembers fails on such a member.
RolesStand ==
  Quiet /\ ~deleted /\ Clear({"stale"}) =>
    /\ record = intended
    /\ Clear({"unvalidated"}) => \A u \in DOMAIN record.members : Known(record, record.members[u])

\* Between requests a project is on a user's list exactly when the user is a member, unless
\* requests about one user crossed each other, one failed half-way, or a member
\* was lost to a stale copy.
MembersFindProjects ==
  Quiet /\ ~deleted /\ Clear({"stale", "crossed", "cut"}) =>
    listed = DOMAIN record.members

\* An invitation whose acceptance or withdrawal is written makes nobody a member any more,
\* whatever is written over it; and a withdrawal stays to be seen, unless an acceptance had read
\* the invitation before it.
InvitesSpentOnce ==
  /\ misused = {}
  /\ Clear({"overlap"}) =>
       \A i \in withdrawn \cap DOMAIN invites : invites[i].revoked

\* A deleted project leaves no record, no invitation and no entry in a member's list, unless
\* a request that was in progress with the deletion wrote something after it.
GoneStaysGone ==
  Quiet /\ deleted /\ Clear({"revived"}) =>
    record = Gone /\ invites = <<>> /\ listed = {}
=============================================================================
