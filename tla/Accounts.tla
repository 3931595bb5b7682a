------------------------------ MODULE Accounts ------------------------------
(***************************************************************************)
(* The accounts of one project's own users: the rows of the users channel, *)
(* found through their index, the links and codes that Redis holds for a   *)
(* while, the sessions that are signed, and the times before which they    *)
(* are refused.  One email address; everything that is done with it.       *)
(***************************************************************************)
EXTENDS Naturals, FiniteSets, FiniteSetsExt

CONSTANTS
  Ids,        \* ids of accounts, positive numbers given in turn
  Requests,   \* requests in progress together
  MaxCalls,   \* bound: requests
  MaxFaults,  \* bound: failures
  MaxTime     \* bound: half seconds

Second == 2                       \* the clock counts half seconds
Whole(t) == Second * (t \div Second)

Row == [confirmed : BOOLEAN, disabled : BOOLEAN, mfa : BOOLEAN,
        signed : BOOLEAN,                  \* last_sign_in_at
        pass : {"none", "first", "new"}]
NoRow == [gone |-> TRUE]
Exists(x) == x # NoRow

Kinds == {"confirm", "reset", "magic", "oauth", "enroll", "challenge"}
Links == 1..(MaxCalls + 1)
Link == [kind : Kinds, n : Links, user : Ids \cup {0}]   \* those by email have no user

Edits == {"disable", "enable", "approve", "unmfa"}   \* what an administrator changes
Session == [n : Links, user : Ids, iat : 0..MaxTime, at : 0..MaxTime, early : BOOLEAN]

VARIABLES
  row,      \* the messages of the users channel, by id of the account
  indexed,  \* the accounts whose email and id the index has
  links,    \* confirm:, reset:, magic:, oauth:, totp:enroll:, totp:challenge:
  mark,     \* project:<id>:user:<id>:revoked_after, or 0
  revoked,  \* revoked:<refresh token>
  sessions, \* those that were signed
  job,
  \* The rest is not in the code.
  now,
  made,     \* the ids given to accounts
  issued,   \* links
  barred,   \* the accounts an administrator has disabled, and nobody enabled since
  used,     \* how often a link or a refresh token has led to something
  last,     \* when the sessions of each account were last revoked, or 0
  calls, faults,
  incidents

store == <<row, indexed, links, mark, revoked, sessions>>
ghosts == <<made, issued, barred, used, last>>
vars == <<store, job, now, ghosts, calls, faults, incidents>>

Incidents == {
  "stale",    \* a row was written from a copy of another
  "raced",    \* two requests looked for the email before either had registered it
  "unlisted", \* a row was sent and not indexed
  "shared",   \* two requests read a link or a refresh token before either had spent it
  "unspent",  \* a code did its work and was not deleted
  "unmarked", \* an account was disabled or deleted and its sessions not revoked
  "ungated",  \* a session came from what does not ask whether the account is disabled
  "behind"}   \* a session was signed, or the mark of a reset written, for an account that had
              \* changed since it was read

Idle == [at |-> "idle"]

TypeOK ==
  /\ row \in [Ids -> Row \cup {NoRow}] /\ barred \subseteq Ids
  /\ indexed \subseteq Ids /\ links \subseteq Link
  /\ mark \in [Ids -> 0..(MaxTime + Second)] /\ last \in [Ids -> 0..MaxTime]
  /\ revoked \subseteq Links /\ sessions \subseteq Session
  /\ DOMAIN job = Requests
  /\ now \in 1..MaxTime /\ made \subseteq Ids /\ issued \in 0..(MaxCalls + 1)
  /\ calls \in 0..MaxCalls /\ faults \in 0..MaxFaults
  /\ incidents \subseteq Incidents

\* There may be an account, one link may be out, and one session.
Init ==
  /\ now = 1
  /\ row \in {[i \in Ids |-> IF i = 1 THEN x ELSE NoRow] :
                x \in {NoRow} \cup [confirmed : BOOLEAN, disabled : {FALSE}, mfa : BOOLEAN,
                                    signed : BOOLEAN, pass : {"first"}]}
  /\ made = IF Exists(row[1]) THEN {1} ELSE {}
  /\ indexed = made
  /\ links \in {{}} \cup {{[kind |-> k, n |-> 1, user |-> 0]} : k \in {"magic", "oauth"}}
                 \cup IF made = {} THEN {}
                      ELSE {{[kind |-> k, n |-> 1, user |-> 0]} : k \in {"confirm", "reset"}}
                             \cup {{[kind |-> k, n |-> 1, user |-> 1]} : k \in {"enroll", "challenge"}}
  /\ issued = Cardinality(links)
  /\ mark = [i \in Ids |-> 0] /\ last = mark /\ revoked = {}
  /\ sessions \in {{}} \cup IF made = {} THEN {}
                           ELSE {{[n |-> 1, user |-> 1, iat |-> 0, at |-> 1, early |-> FALSE]}}
  /\ job = [r \in Requests |-> Idle]
  /\ barred = {}
  /\ used = <<>>
  /\ calls = 0 /\ faults = 0
  /\ incidents = {}

When(condition, kind) == IF condition THEN {kind} ELSE {}
Mark(kinds) == incidents' = incidents \cup kinds
Put(r, changes) ==
  job' = [job EXCEPT ![r] = [x \in DOMAIN @ |-> IF x \in DOMAIN changes THEN changes[x] ELSE @[x]]]
Goto(r, label) == Put(r, [at |-> label])
End(r) == job' = [job EXCEPT ![r] = Idle]
At(r, label) == job[r].at = label
Stay == UNCHANGED <<now, calls, faults>>
Fault == faults < MaxFaults /\ faults' = faults + 1

Times(x) == IF x \in DOMAIN used THEN used[x] ELSE 0
Used(x) == used' = [y \in DOMAIN used \cup {x} |-> IF y = x THEN Times(x) + 1 ELSE used[y]]

\* isSessionActive; iat counts whole seconds.
IsActive(s) == mark[s.user] = 0 \/ s.iat >= mark[s.user]

-----------------------------------------------------------------------------
(* A request arrives.                                                       *)

New(op, at, user, n) == [op |-> op, at |-> at, user |-> user, link |-> n, seen |-> NoRow]

\* Which link or refresh token a request brings is up to it. The users' own requests come with
\* a session that is active, an administrator's name an account.
Arriving ==
  {New(op, "find", 0, 0) : op \in {"signup", "register", "create", "signin"}}
    \cup {New(op, "token", 0, 0) : op \in {"askReset", "askMagic", "start"}}
    \cup {New(l.kind, "get", l.user, l.n) : l \in links}
    \cup {New("enrol", "find", s.user, 0) : s \in {s \in sessions : IsActive(s)}}
    \cup {New(op, "find", i, 0) : op \in Edits \cup {"delete"}, i \in made}
    \cup {New("revoke", "mark", i, 0) : i \in made}
    \cup {New(op, op, s.user, s.n) : op \in {"refresh", "signout"}, s \in sessions}

Begin(r) ==
  \E new \in Arriving :
     /\ job[r] = Idle
     /\ calls < MaxCalls /\ calls' = calls + 1
     /\ job' = [job EXCEPT ![r] = new]
     /\ UNCHANGED <<store, now, ghosts, faults, incidents>>

\* issueTokenPair; the ones that do not ask what the account is like sign for any.
Sign(user) ==
  sessions' = sessions \cup {[n |-> Cardinality(sessions) + 1, user |-> user,
                              iat |-> Whole(now), at |-> now, early |-> FALSE]}
Welcome(x) == Exists(x) /\ ~x.disabled
Ungated(user) == When(~Welcome(row[user]), "ungated")

\* A link for the email, or for an account.
NewLink(kind, user) ==
  /\ links' = links \cup {[kind |-> kind, n |-> issued + 1, user |-> user]}
  /\ issued' = issued + 1

-----------------------------------------------------------------------------
(* Links and codes.                                                         *)

\* Get: the link is there, or the request has failed. A wrong code is refused, and the code
\* may be tried again.
Get(r) ==
  LET j == job[r]
      sharing == \E q \in Requests \ {r} :
                    job[q] # Idle /\ job[q].link = j.link /\ job[q].op = j.op /\ job[q].at # "get"
  IN /\ At(r, "get")
     /\ \E accepted \in IF j.op \in {"enroll", "challenge"} THEN BOOLEAN ELSE {TRUE} :
          IF accepted /\ \E l \in links : l.n = j.link
          THEN /\ Goto(r, IF j.op = "enroll" THEN "find" ELSE "spend")
               /\ Mark(When(sharing, "shared"))
          ELSE End(r) /\ UNCHANGED incidents
     /\ Stay /\ UNCHANGED <<store, ghosts>>

\* What is deleted before it is used
Spent(l) == TRUE

\* del; a challenge is answered at once.
Spend(r) ==
  LET j == job[r]
  IN /\ At(r, "spend")
     /\ links' = {l \in links : l.n # j.link \/ ~Spent(l)}
     /\ Used(<<"link", j.link>>)
     /\ IF j.op = "challenge"
        THEN End(r) /\ Sign(j.user) /\ Mark(Ungated(j.user))
        ELSE Goto(r, "find") /\ UNCHANGED <<sessions, incidents>>
     /\ Stay /\ UNCHANGED <<row, indexed, mark, revoked, made, issued, barred, last>>

\* Links are made, and sent by mail where they are not part of an answer.
Token(r) ==
  LET op == job[r].op
      kind == CASE op = "askReset" -> "reset" [] op = "askMagic" -> "magic"
                [] op = "start" -> "oauth"    [] op = "register" -> "confirm"
  IN /\ At(r, "token")
     /\ NewLink(kind, 0)
     /\ IF op = "start" THEN End(r) ELSE Put(r, [at |-> "email", link |-> issued'])
     /\ Stay /\ UNCHANGED <<row, indexed, mark, revoked, sessions, made, barred, used, last, incidents>>

Email(r) ==
  /\ At(r, "email")
  /\ End(r)
  /\ Stay /\ UNCHANGED <<store, ghosts, incidents>>

\* The mail is not sent: a magic link is withdrawn, a new account deleted again.
EmailFails(r) ==
  LET op == job[r].op
  IN /\ At(r, "email")
     /\ Fault
     /\ CASE op = "askReset" -> End(r)
          [] op = "askMagic" -> Goto(r, "withdraw")
          [] op = "register" -> Put(r, [op |-> "delete", at |-> "find", link |-> 0])
     /\ UNCHANGED <<store, ghosts, now, calls, incidents>>

Withdraw(r) ==
  /\ At(r, "withdraw")
  /\ links' = {l \in links : l.n # job[r].link}
  /\ End(r)
  /\ Stay /\ UNCHANGED <<row, indexed, mark, revoked, sessions, ghosts, incidents>>

Expire(l) ==
  /\ l \in links
  /\ links' = links \ {l}
  /\ UNCHANGED <<row, indexed, mark, revoked, sessions, job, now, ghosts, calls, faults, incidents>>

-----------------------------------------------------------------------------
(* Accounts are looked for, and what is found decides.                      *)

ByEmail == {"signup", "register", "create", "signin", "confirm", "reset", "magic", "oauth"}
Creating(q) ==
  job[q] # Idle /\ (job[q].at = "send" \/ (job[q].at = "index" /\ job[q].user \notin indexed))

\* Mutant of Listed: accounts that are not confirmed are passed over.
ListedConfirmed == {i \in indexed : Exists(row[i]) /\ row[i].confirmed}

\* select through the index, by email or by id
Listed == {i \in indexed : Exists(row[i])}
Found(j) == IF j.op \in ByEmail THEN Listed ELSE Listed \cap {j.user}

NewRow(op) ==
  [confirmed |-> op # "register", disabled |-> FALSE, mfa |-> FALSE, signed |-> op = "magic",
   pass |-> IF op \in {"magic", "oauth"} THEN "none" ELSE "first"]

\* signIn asks for a password that is there and right, and a second factor; magic links and
\* OAuth for an account that is not disabled.
MayGoOn(op, x) ==
  CASE op = "signin"              -> x.pass # "none" /\ ~x.disabled /\ x.confirmed
    [] op \in {"magic", "oauth"}  -> ~x.disabled
    [] op \in {"signup", "register", "create"} -> FALSE
    [] OTHER                      -> TRUE

\* buildUserRecord gives the new account its id.
FindNone(r) ==
  LET j == job[r]
  IN /\ At(r, "find") /\ Found(j) = {}
     /\ IF j.op \in {"signup", "register", "create", "magic", "oauth"}
        THEN /\ Ids \ made # {}
             /\ made' = made \cup {Min(Ids \ made)}
             /\ Put(r, [at |-> "send", user |-> Min(Ids \ made), seen |-> NewRow(j.op)])
             /\ Mark(When(\E q \in Requests \ {r} : Creating(q), "raced"))
        ELSE End(r) /\ UNCHANGED <<made, incidents>>
     /\ Stay /\ UNCHANGED <<store, issued, barred, used, last>>

FindOne(r) ==
  LET j == job[r]
      i == Min(Found(j))
      found(label) == Put(r, [at |-> label, user |-> i, seen |-> row[i]])
  IN /\ At(r, "find") /\ Found(j) # {}
     /\ IF ~MayGoOn(j.op, row[i])
        THEN End(r) /\ UNCHANGED <<links, sessions, issued>>
        ELSE CASE j.op = "signin" /\ row[i].mfa ->
                    \/ End(r) /\ NewLink("challenge", i) /\ UNCHANGED sessions
                    \/ found("unique") /\ UNCHANGED <<links, sessions, issued>>
               [] j.op = "magic" /\ row[i].confirmed /\ row[i].signed ->
                    End(r) /\ Sign(i) /\ UNCHANGED <<links, issued>>
               [] j.op = "enrol" -> End(r) /\ NewLink("enroll", i) /\ UNCHANGED sessions
               [] j.op = "delete" -> found("delete") /\ UNCHANGED <<links, sessions, issued>>
               [] OTHER -> found("unique") /\ UNCHANGED <<links, sessions, issued>>
     /\ Stay /\ UNCHANGED <<row, indexed, mark, revoked, made, barred, used, last, incidents>>

\* ensureUniqueConstraints before a row is written over
Unique(r) ==
  /\ At(r, "unique")
  /\ IF Listed \subseteq {job[r].user} THEN Goto(r, "edit") ELSE End(r)
  /\ Stay /\ UNCHANGED <<store, ghosts, incidents>>

-----------------------------------------------------------------------------
(* Rows are written.                                                        *)

\* What a request means to change of a row
Changed(op, x) ==
  CASE op = "signin"  -> [x EXCEPT !.signed = TRUE]
    [] op = "confirm" -> [x EXCEPT !.confirmed = TRUE]
    [] op \in {"magic", "oauth"} -> [x EXCEPT !.confirmed = TRUE, !.signed = TRUE]
    [] op = "reset"   -> [x EXCEPT !.pass = "new", !.confirmed = TRUE, !.disabled = FALSE]
    [] op = "enroll"  -> [x EXCEPT !.mfa = TRUE]
    [] op = "disable" -> [x EXCEPT !.disabled = TRUE]
    [] op = "enable"  -> [x EXCEPT !.disabled = FALSE]
    [] op = "approve" -> [x EXCEPT !.confirmed = TRUE]
    [] op = "unmfa"   -> [x EXCEPT !.mfa = FALSE]

\* Mutant of AfterEdit: an account is disabled, and its sessions go on.
AfterEditLater(op) ==
  CASE op \in {"unmfa", "reset"} -> "mark"
    [] op = "enroll"             -> "drop"
    [] op = "oauth"              -> "index"
    [] OTHER                     -> "done"

AfterEdit(op) ==
  CASE op \in {"disable", "unmfa", "reset"} -> "mark"
    [] op = "enroll"                        -> "drop"
    [] op = "oauth"                         -> "index"
    [] OTHER                                -> "done"

\* updateRows writes the whole row it has read, changed, where there still is a message.
Edit(r) ==
  LET j == job[r]
      i == j.user
  IN /\ At(r, "edit")
     /\ IF ~Exists(row[i])
        THEN End(r) /\ UNCHANGED <<row, barred, sessions, used, incidents>>
        ELSE /\ row' = [row EXCEPT ![i] = Changed(j.op, j.seen)]
             /\ barred' = CASE j.op = "disable" -> barred \cup {i}
                            [] j.op \in {"enable", "reset"} -> barred \ {i}
                            [] OTHER -> barred
             /\ IF j.op \in {"signin", "confirm", "magic"}
                THEN Sign(i) ELSE UNCHANGED sessions
             /\ IF j.op = "enroll" THEN Used(<<"link", j.link>>) ELSE UNCHANGED used
             /\ Mark(When(j.seen # row[i], "stale")
                     \cup When(j.op = "confirm" /\ row'[i].disabled, "ungated"))
             /\ IF AfterEdit(j.op) = "done" THEN End(r) ELSE Goto(r, AfterEdit(j.op))
     /\ Stay /\ UNCHANGED <<indexed, links, mark, revoked, made, issued, last>>

\* insert asks again that the email be free; the row is sent, then indexed.
Send(r) ==
  LET j == job[r]
  IN /\ At(r, "send")
     /\ IF Listed # {}
        THEN End(r) /\ UNCHANGED row
        ELSE row' = [row EXCEPT ![j.user] = j.seen] /\ Goto(r, "index")
     /\ Stay /\ UNCHANGED <<indexed, links, mark, revoked, sessions, ghosts, incidents>>

\* indexUser; signInWithOAuth indexes an account that was there once more.
IndexUser(r) ==
  LET j == job[r]
  IN /\ At(r, "index")
     /\ indexed' = indexed \cup {j.user}
     /\ IF j.op \in {"signup", "magic", "oauth"} THEN Sign(j.user) ELSE UNCHANGED sessions
     /\ Mark(When(~Welcome(row[j.user]), "behind"))
     /\ IF j.op = "register" THEN Put(r, [at |-> "token"]) ELSE End(r)
     /\ Stay /\ UNCHANGED <<row, links, mark, revoked, ghosts>>

\* verifyTotpEnrollment deletes its token last.
DropEnrollment(r) ==
  /\ At(r, "drop")
  /\ links' = {l \in links : l.n # job[r].link}
  /\ End(r)
  /\ Stay /\ UNCHANGED <<row, indexed, mark, revoked, sessions, ghosts, incidents>>

\* deleteUser: the message, its index entries, then the sessions
DeleteRow(r) ==
  LET i == job[r].user
  IN /\ At(r, "delete")
     /\ row' = [row EXCEPT ![i] = NoRow] /\ barred' = barred \ {i}
     /\ Goto(r, "unindex")
     /\ Stay /\ UNCHANGED <<indexed, links, mark, revoked, sessions, made, issued, used, last, incidents>>

Unindex(r) ==
  /\ At(r, "unindex")
  /\ indexed' = indexed \ {job[r].user}
  /\ Goto(r, "mark")
  /\ Stay /\ UNCHANGED <<row, links, mark, revoked, sessions, ghosts, incidents>>

-----------------------------------------------------------------------------
(* Sessions.                                                                *)

\* A second more than it is, but for the request that goes on to sign a session.
RevokedAfter(op) == IF op = "reset" THEN now ELSE now + Second

\* revokeUserSessions
Revoke(r) ==
  LET j == job[r]
  IN /\ At(r, "mark")
     /\ mark' = [mark EXCEPT ![j.user] = RevokedAfter(j.op)]
     /\ last' = [last EXCEPT ![j.user] = now]
     /\ sessions' = {[s EXCEPT !.early = @ \/ (s.user = j.user /\ s.at < now)] : s \in sessions}
     /\ Mark(When(j.op = "reset" /\ ~Welcome(row[j.user]), "behind"))
     /\ IF j.op = "reset" THEN Put(r, [at |-> "sign", seen |-> row[j.user]]) ELSE End(r)
     /\ Stay /\ UNCHANGED <<row, indexed, links, revoked, made, issued, barred, used>>

\* resetPassword signs one when its mark is written.
SignReset(r) ==
  LET i == job[r].user
  IN /\ At(r, "sign")
     /\ Sign(i)
     /\ Mark(When(~Welcome(row[i]), "behind"))
     /\ End(r)
     /\ Stay /\ UNCHANGED <<row, indexed, links, mark, revoked, ghosts>>

\* refreshSession: the token has not been revoked; it is, and a new pair is signed.
Refresh(r) ==
  LET n == job[r].link
  IN /\ At(r, "refresh")
     /\ IF n \in revoked
        THEN End(r) /\ UNCHANGED incidents
        ELSE /\ Goto(r, "exchange")
             /\ Mark(When(\E q \in Requests : At(q, "exchange") /\ job[q].link = n, "shared"))
     /\ Stay /\ UNCHANGED <<store, ghosts>>

Exchange(r) ==
  LET j == job[r]
  IN /\ At(r, "exchange")
     /\ revoked' = revoked \cup {j.link}
     /\ Used(<<"token", j.link>>)
     /\ Sign(j.user)
     /\ Mark(Ungated(j.user))
     /\ End(r)
     /\ Stay /\ UNCHANGED <<row, indexed, links, mark, made, issued, barred, last>>

SignOut(r) ==
  /\ At(r, "signout")
  /\ revoked' = revoked \cup {job[r].link}
  /\ End(r)
  /\ Stay /\ UNCHANGED <<row, indexed, links, mark, sessions, ghosts, incidents>>

-----------------------------------------------------------------------------

\* A call of Redis or Telegram fails, or the process ends.
Fail(r) ==
  LET j == job[r]
  IN /\ j # Idle
     /\ Fault
     /\ IF j.op = "register" /\ j.at \in {"token", "email"}
        THEN Put(r, [op |-> "delete", at |-> "find", link |-> 0])
        ELSE End(r)
     /\ Mark(CASE j.at = "index" /\ j.user \notin indexed -> {"unlisted"}
               [] j.at = "drop" -> {"unspent"}
               [] j.at \in {"mark", "unindex"} /\ j.op # "revoke" -> {"unmarked"}
               [] OTHER -> {})
     /\ UNCHANGED <<store, ghosts, now, calls>>

Tick ==
  /\ now < MaxTime /\ now' = now + 1
  /\ UNCHANGED <<store, job, ghosts, calls, faults, incidents>>

Next ==
  \/ \E r \in Requests :
        \/ Begin(r) \/ Get(r) \/ Spend(r) \/ Token(r) \/ Email(r) \/ EmailFails(r) \/ Withdraw(r)
        \/ FindNone(r) \/ FindOne(r) \/ Unique(r) \/ Edit(r) \/ Send(r) \/ IndexUser(r)
        \/ DropEnrollment(r) \/ DeleteRow(r) \/ Unindex(r) \/ Revoke(r) \/ SignReset(r)
        \/ Refresh(r) \/ Exchange(r) \/ SignOut(r) \/ Fail(r)
  \/ \E l \in links : Expire(l)
  \/ Tick

Spec == Init /\ [][Next]_vars

-----------------------------------------------------------------------------

Quiet == \A r \in Requests : job[r] = Idle
Clear(kinds) == incidents \cap kinds = {}

\* An email has one account, however it came to be registered: by sign-up, by an administrator,
\* a magic link or OAuth; unless two requests had both found it free, or a row
\* was sent and never indexed, where no later request can find it.
OneAccountPerEmail ==
  Quiet /\ Clear({"raced", "unlisted"}) => Cardinality({i \in Ids : Exists(row[i])}) <= 1

\* A link, a code or a refresh token does what it is for once, unless two requests read it before
\* either had spent it, or a request failed after an enrollment and before it was deleted.
LinksGoodOnce == Clear({"shared", "unspent"}) => \A x \in DOMAIN used : used[x] = 1

\* An account that was disabled stays so until it is enabled or its password reset, unless a
\* request writes its row from a copy it had read before; no session is active that is older than
\* the last revocation; and none of an account that is disabled or deleted, unless such a copy
\* disabled it, or the request that did it failed before it revoked them, or did it before a reset
\* or OAuth had signed its session (the mark of a reset lets in sessions of the same second that an
\* earlier mark had shut out), or the session came by a refresh, a challenge or a confirmation,
\* which do not ask whether the account is disabled.
AccessEnds ==
  Quiet =>
    /\ Clear({"stale"}) => \A i \in barred : row[i].disabled
    /\ \A s \in sessions : s.early => ~IsActive(s)
    /\ Clear({"stale", "unmarked", "behind", "ungated"}) =>
         \A s \in sessions : IsActive(s) => Welcome(row[s.user])

\* A session is good that was signed two seconds after the last revocation or later; one second
\* is enough when nothing but the reset of the password has revoked.
NewSessionsWork ==
  \A s \in sessions : s.at >= last[s.user] + 2 * Second => IsActive(s)
=============================================================================
