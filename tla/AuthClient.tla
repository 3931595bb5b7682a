----------------------------- MODULE AuthClient -----------------------------
(***************************************************************************)
(* The session that the SDK keeps for a user, against the refresh tokens   *)
(* of the server.  Calls are not queued: their requests and answers cross  *)
(* each other, and an answer may be lost after the server has done its     *)
(* part.                                                                   *)
(***************************************************************************)
EXTENDS Naturals, FiniteSets

CONSTANTS
  Calls,      \* calls in progress together
  MaxIssued,  \* bound: sessions, numbered
  MaxLost     \* bound: requests and answers that are lost

Tokens == 1..MaxIssued
None == 0

VARIABLES
  session,  \* accessToken and refreshToken of the client, by number, or None
  revoked,  \* the refresh tokens the server has revoked
  job,      \* the calls
  \* The rest is not in the code.
  issued,   \* sessions
  out,      \* the client has signed out, and begun to sign in no more since
  lost,
  incidents

vars == <<session, revoked, job, issued, out, lost, incidents>>

Incidents == {
  "late",     \* an answer came for a call made before the client had signed out
  "unknown"}  \* the server had done its part, and the client was not told

Idle == [at |-> "idle"]
Job == [op : {"signIn", "refresh", "signOut"}, token : Tokens \cup {None},
        at : {"asked", "checked", "answered"},
        answer : Tokens \cup {None}]  \* a new session, or none

TypeOK ==
  /\ session \in Tokens \cup {None} /\ revoked \subseteq Tokens
  /\ \A c \in Calls : job[c] = Idle \/ job[c] \in Job
  /\ issued \in 0..MaxIssued /\ out \in BOOLEAN /\ lost \in 0..MaxLost
  /\ incidents \subseteq Incidents

Init ==
  /\ session = None /\ revoked = {}
  /\ job = [c \in Calls |-> Idle]
  /\ issued = 0 /\ out = FALSE /\ lost = 0
  /\ incidents = {}

Mark(condition, kind) == incidents' = IF condition THEN incidents \cup {kind} ELSE incidents
Put(c, new) == job' = [job EXCEPT ![c] = new]
End(c) == Put(c, Idle)
At(c, label) == job[c].at = label
New == issued < MaxIssued /\ issued' = issued + 1

-----------------------------------------------------------------------------
(* Calls of the application.                                                *)

\* signIn, signUp, verifying a link or a code: whatever ends with a session
SignIn(c) ==
  /\ At(c, "idle") /\ issued < MaxIssued
  /\ Put(c, [op |-> "signIn", token |-> None, at |-> "asked", answer |-> None])
  /\ out' = FALSE
  /\ UNCHANGED <<session, revoked, issued, lost, incidents>>

\* Without a session there is nothing to refresh.
RefreshSession(c) ==
  /\ At(c, "idle") /\ session # None
  /\ Put(c, [op |-> "refresh", token |-> session, at |-> "asked", answer |-> None])
  /\ UNCHANGED <<session, revoked, issued, out, lost, incidents>>

\* signOut without a session only says so.
SignOut(c) ==
  /\ At(c, "idle") /\ session # None
  /\ Put(c, [op |-> "signOut", token |-> session, at |-> "asked", answer |-> None])
  /\ UNCHANGED <<session, revoked, issued, out, lost, incidents>>

-----------------------------------------------------------------------------
(* The server.                                                              *)

\* signIn and the others sign a session.
ServeSignIn(c) ==
  /\ At(c, "asked") /\ job[c].op = "signIn"
  /\ New
  /\ Put(c, [job[c] EXCEPT !.at = "answered", !.answer = issued'])
  /\ UNCHANGED <<session, revoked, out, lost, incidents>>

\* refreshSession looks whether the token is revoked,
ServeCheck(c) ==
  /\ At(c, "asked") /\ job[c].op = "refresh"
  /\ Put(c, [job[c] EXCEPT !.at = IF job[c].token \in revoked THEN "answered" ELSE "checked"])
  /\ UNCHANGED <<session, revoked, issued, out, lost, incidents>>

\* revokes it, and signs another session.
ServeRefresh(c) ==
  /\ At(c, "checked")
  /\ New
  /\ revoked' = revoked \cup {job[c].token}
  /\ Put(c, [job[c] EXCEPT !.at = "answered", !.answer = issued'])
  /\ UNCHANGED <<session, out, lost, incidents>>

ServeSignOut(c) ==
  /\ At(c, "asked") /\ job[c].op = "signOut"
  /\ revoked' = revoked \cup {job[c].token}
  /\ Put(c, [job[c] EXCEPT !.at = "answered"])
  /\ UNCHANGED <<session, issued, out, lost, incidents>>

-----------------------------------------------------------------------------
(* Answers.                                                                 *)

\* Mutant of NextSession: after a refresh the client keeps its refresh token.
NextSessionKept(j) ==
  CASE j.op = "signOut" -> None
    [] j.op = "signIn"  -> j.answer
    [] OTHER            -> session

\* setSession with what was signed, clearSession after a sign-out; a refusal changes nothing.
NextSession(j) ==
  IF j.op = "signOut" THEN None ELSE IF j.answer # None THEN j.answer ELSE session

Answer(c) ==
  LET j == job[c]
  IN /\ At(c, "answered")
     /\ session' = NextSession(j)
     /\ out' = (out \/ (j.op = "signOut" /\ \A d \in Calls : job[d] # Idle => job[d].op # "signIn"))
     /\ Mark(out /\ session' # None, "late")
     /\ End(c)
     /\ UNCHANGED <<revoked, issued, lost>>

\* The request is lost, or the answer: the client keeps the session, when it signs out too.
Lose(c) ==
  LET j == job[c]
  IN /\ j # Idle
     /\ lost < MaxLost /\ lost' = lost + 1
     /\ Mark(At(c, "answered") /\ (j.op = "signOut" \/ (j.op = "refresh" /\ j.answer # None)), "unknown")
     /\ End(c)
     /\ UNCHANGED <<session, revoked, issued, out>>

Next ==
  \E c \in Calls :
     \/ SignIn(c) \/ RefreshSession(c) \/ SignOut(c)
     \/ ServeSignIn(c) \/ ServeCheck(c) \/ ServeRefresh(c) \/ ServeSignOut(c)
     \/ Answer(c) \/ Lose(c)

Spec == Init /\ [][Next]_vars

-----------------------------------------------------------------------------

Quiet == \A c \in Calls : job[c] = Idle

\* A client that is left alone has a session it can refresh, or none, unless it was never told
\* that its token was spent; and one that has signed out stays so until it signs in,
\* unless a refresh was still to be answered.
ClientInStep ==
  Quiet =>
    /\ "unknown" \notin incidents => session \notin revoked
    /\ "late" \notin incidents /\ out => session = None
=============================================================================
