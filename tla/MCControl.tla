------------------------------ MODULE MCControl ------------------------------
(***************************************************************************)
(* For TLC: who may do what: the members of a project, the accounts of its *)
(* own users and the client they sign in with.  They share nothing; a      *)
(* behaviour is about one of them, and leaves the others' variables alone. *)
(***************************************************************************)
EXTENDS Naturals, FiniteSets, TLC

CONSTANTS
  Requests, MaxFaults,                                     \* Access and Accounts
  Users, Custom, Saved, Given, Invites, MaxCalls,          \* Access
  AccountIds, MaxSteps, MaxTime,                           \* Accounts
  Calls, MaxIssued, MaxLost                                \* AuthClient

VARIABLES
  part,                                                    \* which of the three
  record, listed, invites, inviteSet, intended, spent, misused, withdrawn, deleted, \* Access
  row, indexed, links, mark, sessions, now, made, barred, used, last, \* Accounts
  session, out, lost,                                      \* AuthClient
  calls, faults,                                           \* Access and Accounts
  revoked,                                                 \* Accounts and AuthClient
  issued, job, incidents                                   \* all three

access   == <<record, listed, invites, inviteSet, intended, spent, misused, withdrawn, deleted>>
accounts == <<row, indexed, links, mark, sessions, now, made, barred, used, last>>
client   == <<session, out, lost>>
bounds   == <<calls, faults>>
vars     == <<part, access, accounts, client, bounds, revoked, issued, job, incidents>>

Roles   == INSTANCE Access
SignIns == INSTANCE Accounts WITH Ids <- AccountIds, MaxCalls <- MaxSteps
SDK     == INSTANCE AuthClient

\* Members are given roles that there are, custom roles save permissions that there are, and
\* accounts are numbered from 1.
ASSUME ControlAssumption ==
  /\ MaxCalls \in Nat /\ MaxFaults \in Nat
  /\ Given \subseteq Roles!RoleKeys /\ Saved \subseteq SUBSET Roles!Permissions
  /\ MaxSteps \in Nat /\ MaxTime \in Nat \ {0}
  /\ 1 \in AccountIds /\ AccountIds \subseteq Nat \ {0}

Unused == 0
NoAccess   == /\ record = Unused /\ listed = Unused /\ invites = Unused
              /\ inviteSet = Unused /\ intended = Unused /\ spent = Unused
              /\ misused = Unused /\ withdrawn = Unused /\ deleted = Unused
NoAccounts == /\ row = Unused /\ indexed = Unused /\ links = Unused /\ mark = Unused
              /\ sessions = Unused /\ now = Unused /\ made = Unused
              /\ barred = Unused /\ used = Unused /\ last = Unused
NoClient   == session = Unused /\ out = Unused /\ lost = Unused
NoBounds   == calls = Unused /\ faults = Unused

Init ==
  \/ part = "access" /\ Roles!Init /\ NoAccounts /\ NoClient /\ revoked = Unused
  \/ part = "accounts" /\ SignIns!Init /\ NoAccess /\ NoClient
  \/ part = "client" /\ SDK!Init /\ NoAccess /\ NoAccounts /\ NoBounds

Next ==
  \/ part = "access" /\ Roles!Next /\ UNCHANGED <<part, accounts, client, revoked>>
  \/ part = "accounts" /\ SignIns!Next /\ UNCHANGED <<part, access, client>>
  \/ part = "client" /\ SDK!Next /\ UNCHANGED <<part, access, accounts, bounds>>

Spec == Init /\ [][Next]_vars

Interchangeable == Permutations(Users) \cup Permutations(Requests)

-----------------------------------------------------------------------------
(* Properties.                                                              *)

\* Members and roles are what the updates made them, and each member finds the project
\* (ProjectAccessService.updateMemberRole, removeMember, acceptInvitation, upsertRole).
RolesStand == part = "access" => Roles!RolesStand /\ Roles!MembersFindProjects

\* An invitation makes one member at most, and none once it is withdrawn, nor does anything of
\* a project outlive it (ProjectAccessService.acceptInvitation, revokeInvitation, cleanupProject).
InvitesEnd == part = "access" => Roles!InvitesSpentOnce /\ Roles!GoneStaysGone

\* An email has one account, and a link leads somewhere once (AuthService.registerUser,
\* confirmEmail, resetPassword, verifyMagicLink, refreshSession).
UsedOnce == part = "accounts" => SignIns!OneAccountPerEmail /\ SignIns!LinksGoodOnce

\* Revoked and barred sessions have ended, and new ones work (AuthService.revokeUserSessions,
\* isSessionActive, updateUserState).
AccessEnds == part = "accounts" => SignIns!AccessEnds /\ SignIns!NewSessionsWork

\* The SDK's client has the session the server will refresh, or none (AuthClient.refreshSession).
ClientInStep == part = "client" => SDK!ClientInStep
=============================================================================
