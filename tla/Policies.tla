------------------------------- MODULE Policies -------------------------------
(***************************************************************************)
(* Who may do what with an object: the policy of its bucket, in the record *)
(* of the project, and its own, with rules whose expressions are read as   *)
(* they are evaluated.  Requests are decided while administrators make     *)
(* buckets and set policies.                                               *)
(***************************************************************************)
EXTENDS Naturals, FiniteSets, Sequences, SequencesExt, TLC

CONSTANTS
  First,     \* the bucket that exists, and has the object
  More,      \* names of buckets that may be made
  Requests,  \* requests in progress together
  MaxCalls   \* bound: requests

Buckets == {First} \cup More
Users == {"u1", "u2"}
Callers == Users \cup {"nobody", "key", "service"}  \* key: the project's anon key
Actions == {"read", "write", "delete"}
Sub(caller) == IF caller \in Users THEN caller ELSE "null"

\* What rules compare, and expressions of up to three of them.
Terms == <<"auth.userId == object.ownerId", "auth.role == 'service_role'", "bucket.public">>
Term(t) == [op |-> "term", term |-> t]
Both(op, left, right) == [op |-> op, left |-> left, right |-> right]
Expressions ==
  LET t == [i \in 1..3 |-> Term(Terms[i])]
  IN Range(t)
       \cup {Both(f, Both(g, t[1], t[2]), t[3]) : f, g \in {"&&", "||"}}
       \cup {Both(f, t[1], Both(g, t[2], t[3])) : f, g \in {"&&", "||"}}

Rule ==
  [effect : {"allow", "deny"}, actions : {Actions}, expression : Expressions]
    \cup [effect : {"allow", "deny"}, actions : {{"write"}}, expression : {Term(t) : t \in Range(Terms)}]
NoPermission == [roles |-> {}, userIds |-> {}, given |-> FALSE]
Some == [roles |-> {"service_role"}, userIds |-> {"u1"}, given |-> TRUE]
Policy(public, rules, permission) ==
  [public |-> public, rules |-> rules, permission |-> permission]
Default == Policy(FALSE, <<>>, NoPermission)
Own(effect) == [effect |-> effect, actions |-> Actions, expression |-> Term(Terms[1])]
Served == [effect |-> "allow", actions |-> Actions, expression |-> Term(Terms[2])]

\* Policies of an object, and those that administrators set.
ObjectPolicies == {Policy(TRUE, <<>>, NoPermission), Policy(FALSE, <<Served, Own("deny")>>, Some)}
NoPolicy == Policy(FALSE, <<>>, [NoPermission EXCEPT !.roles = {"none"}])
SetPolicies == {Default, Policy(TRUE, <<Own("allow")>>, NoPermission)}

NoObject == [id |-> 0, owner |-> "null", policy |-> NoPolicy]

VARIABLES
  record,   \* project:<id>: buckets and bucketPolicies
  object,   \* the manifest of the path in the first bucket
  job,
  \* The rest is not in the code.
  given,    \* the policies that buckets were last given
  calls,
  incidents

vars == <<record, object, job, given, calls, incidents>>

Incidents == {"crossed"}  \* the record was written by two requests that had both read it before

Idle == [at |-> "idle"]

TypeOK ==
  /\ record.buckets \subseteq Buckets /\ DOMAIN record.policies \subseteq Buckets
  /\ object.id \in 0..MaxCalls + 1 /\ object.owner \in Users \cup {"null"}
  /\ DOMAIN job = Requests
  /\ DOMAIN given \subseteq Buckets
  /\ calls \in 0..MaxCalls /\ incidents \subseteq Incidents

\* Any policy of the bucket with one rule or none, or one of the object.
Init ==
  /\ \E public \in BOOLEAN, owner \in {"u1", "null"} :
       \/ /\ \E rule \in Rule :
               given = (First :> Policy(public, <<rule>>, NoPermission))
          /\ object = [id |-> 1, owner |-> owner, policy |-> NoPolicy]
       \/ /\ given = (First :> Policy(public, <<>>, Some))
          /\ \E p \in ObjectPolicies \cup {NoPolicy} :
               object = [id |-> 1, owner |-> owner, policy |-> p]
  /\ record = [buckets |-> {First}, policies |-> given]
  /\ job = [r \in Requests |-> Idle]
  /\ calls = 0 /\ incidents = {}

Put(r, j) == job' = [job EXCEPT ![r] = j]
End(r) == Put(r, Idle)
At(r, place) == job[r].at = place

-----------------------------------------------------------------------------
(* Expressions.                                                             *)

Role(caller) ==
  CASE caller = "nobody" -> "anon"
    [] caller = "service" -> "service_role"
    [] OTHER -> "authenticated"

\* readValue and the comparison; where there is no object its owner is undefined.
Holds(term, context) ==
  CASE term = Terms[1] -> context.object # NoObject /\ Sub(context.caller) = context.object.owner
    [] term = Terms[2] -> Role(context.caller) = "service_role"
    [] term = Terms[3] -> context.public

\* As it is written, with parentheses where an || is under an &&.
RECURSIVE Tokens(_)
Tokens(e) ==
  LET part(d) == IF d.op = "||" /\ e.op = "&&" THEN <<"(">> \o Tokens(d) \o <<")">> ELSE Tokens(d)
  IN IF e.op = "term" THEN <<e.term>> ELSE part(e.left) \o <<e.op>> \o part(e.right)

Is(tokens, i, token) == i <= Len(tokens) /\ tokens[i] = token

\* parseOr, parseAnd and parseComparison evaluate as they read: a right side that could not
\* change the value is not read, and the index stays before it.
RECURSIVE Chain(_, _, _, _), Read(_, _, _, _)
Chain(tokens, context, so, op) ==
  IF so.broken \/ ~Is(tokens, so.next, op) THEN so
  ELSE IF so.value = (op = "||") THEN Chain(tokens, context, [so EXCEPT !.next = @ + 1], op)
  ELSE Chain(tokens, context, Read(tokens, context, so.next + 1, op), op)

Read(tokens, context, i, op) ==
  IF op = "||" THEN Chain(tokens, context, Read(tokens, context, i, "&&"), "&&")
  ELSE IF Is(tokens, i, "(")
  THEN LET nested == Chain(tokens, context, Read(tokens, context, i + 1, "||"), "||")
       IN [nested EXCEPT !.next = @ + 1, !.broken = @ \/ ~Is(tokens, nested.next, ")")]
  ELSE [value |-> Holds(tokens[i], context), next |-> i + 1, broken |-> FALSE]

\* evaluateExpression; an expression is broken where a parenthesis is missed.
Evaluated(e, context) ==
  Chain(Tokens(e), context, Read(Tokens(e), context, 1, "||"), "||")

-----------------------------------------------------------------------------
(* isStorageAccessAllowed                                                   *)

\* evaluateRules: the first deny that applies is final, and nothing is read after it.
RECURSIVE Ruled(_, _, _, _)
Ruled(rules, action, context, allowed) ==
  IF rules = <<>> THEN IF allowed THEN "allowed" ELSE "undecided"
  ELSE LET rule == Head(rules)
           so == Evaluated(rule.expression, context)
       IN IF action \notin rule.actions THEN Ruled(Tail(rules), action, context, allowed)
          ELSE IF so.broken THEN "failed"
          ELSE IF so.value /\ rule.effect = "deny" THEN "refused"
          ELSE Ruled(Tail(rules), action, context, allowed \/ so.value)

\* evaluateLegacyPolicy and getPermission
Permitted(policy, action, caller) ==
  LET roles == IF policy.permission.given THEN policy.permission.roles
               ELSE {"authenticated", "service_role"}
  IN \/ action = "read" /\ policy.public
     \/ /\ caller # "nobody"
        /\ \/ caller = "service"
           \/ caller \in policy.permission.userIds
           \/ Role(caller) \in roles

\* Mutant of Decided: the bucket's policy is asked where the object's has no rule that applies.
DecidedByBucket(bucket, it, action, caller) ==
  LET context == [caller |-> caller, object |-> it, public |-> bucket.public]
      own == Ruled(it.policy.rules, action, context, FALSE)
      policy == IF it.policy # NoPolicy /\ own # "undecided" THEN it.policy ELSE bucket
      ruled == Ruled(policy.rules, action, context, FALSE)
  IN IF ruled # "undecided" THEN ruled
     ELSE IF Permitted(policy, action, caller) THEN "allowed" ELSE "refused"

\* The object's policy, if it has one, leaves nothing to the bucket's.
Decided(bucket, it, action, caller) ==
  LET context == [caller |-> caller, object |-> it, public |-> bucket.public]
      policy == IF it.policy # NoPolicy THEN it.policy ELSE bucket
      ruled == Ruled(policy.rules, action, context, FALSE)
  IN IF ruled # "undecided" THEN ruled
     ELSE IF Permitted(policy, action, caller) THEN "allowed" ELSE "refused"

-----------------------------------------------------------------------------
(* Requests.                                                                *)

Action(op) == IF op \in {"upload", "patch"} THEN "write" ELSE op

\* getBucketPolicy
PolicyOf(base, bucket) == IF bucket \in DOMAIN base.policies THEN base.policies[bucket] ELSE Default

\* getProject comes first; what it reads is used to the end.
Begin(r) ==
  \E op \in {"read", "upload", "patch", "delete"}, caller \in Callers :
    /\ At(r, "idle")
    /\ calls < MaxCalls /\ calls' = calls + 1
    /\ op # "read" => caller # "nobody"
    /\ Put(r, [at |-> IF op = "upload" THEN "decide" ELSE "find", op |-> op, caller |-> caller,
               bucket |-> PolicyOf(record, First), object |-> NoObject])
    /\ UNCHANGED <<record, object, given, incidents>>

\* findFile
Find(r) ==
  /\ At(r, "find")
  /\ IF object = NoObject THEN End(r)
     ELSE Put(r, [job[r] EXCEPT !.at = "decide", !.object = object])
  /\ UNCHANGED <<record, object, given, calls, incidents>>

\* ensureObjectAccess, or ensureBucketAccess of an upload
Decide(r) ==
  LET j == job[r]
  IN /\ At(r, "decide")
     /\ Put(r, [j EXCEPT !.at = Decided(j.bucket, j.object, Action(j.op), j.caller)])
     /\ UNCHANGED <<record, object, given, calls, incidents>>

\* The object found is changed or deleted, if it is still there; an upload takes its place.
Act(r) ==
  LET j == job[r]
  IN /\ At(r, "allowed")
     /\ \/ j.op = "read" /\ UNCHANGED object
        \/ j.op = "upload" /\ object' = [id |-> calls + 1, owner |-> Sub(j.caller), policy |-> NoPolicy]
        \/ /\ j.op = "delete"
           /\ object' = IF object.id = j.object.id THEN NoObject ELSE object
        \/ /\ j.op = "patch"
           /\ \E p \in ObjectPolicies :
                object' = IF object.id = j.object.id THEN [object EXCEPT !.policy = p] ELSE object
     /\ End(r)
     /\ UNCHANGED <<record, given, calls, incidents>>

Refuse(r) ==
  /\ At(r, "refused") \/ At(r, "failed")
  /\ End(r)
  /\ UNCHANGED <<record, object, given, calls, incidents>>

-----------------------------------------------------------------------------
(* Administrators.                                                          *)

\* POST buckets, PATCH buckets/:bucket/policy: the record is read,
Administer(r) ==
  \E op \in {"create", "set"}, bucket \in Buckets, p \in SetPolicies :
    /\ At(r, "idle")
    /\ calls < MaxCalls /\ calls' = calls + 1
    /\ (op = "create") = (bucket \notin record.buckets)
    /\ Put(r, [at |-> "changed", op |-> op, bucket |-> bucket, policy |-> p, base |-> record,
               now |-> record])
    /\ UNCHANGED <<record, object, given, incidents>>

\* and read again by updateProject,
Reread(r) ==
  /\ At(r, "changed")
  /\ Put(r, [job[r] EXCEPT !.at = "write", !.now = record])
  /\ UNCHANGED <<record, object, given, calls, incidents>>

\* Mutant of Updated: the record read last is written.
UpdatedNoPolicy(j) ==
  [buckets |-> IF j.op = "create" THEN j.base.buckets \cup {j.bucket} ELSE j.now.buckets,
   policies |-> j.base.policies]

\* and written with the maps of the first reading.
Updated(j) ==
  [buckets |-> IF j.op = "create" THEN j.base.buckets \cup {j.bucket} ELSE j.now.buckets,
   policies |-> (j.bucket :> j.policy) @@ j.base.policies]

Write(r) ==
  LET j == job[r]
  IN /\ At(r, "write")
     /\ record' = Updated(j)
     /\ given' = (j.bucket :> j.policy) @@ given
     /\ incidents' = IF record # j.base THEN incidents \cup {"crossed"} ELSE incidents
     /\ End(r)
     /\ UNCHANGED <<object, calls>>

Next ==
  \E r \in Requests :
    \/ Begin(r) \/ Find(r) \/ Decide(r) \/ Act(r) \/ Refuse(r)
    \/ Administer(r) \/ Reread(r) \/ Write(r)

Spec == Init /\ [][Next]_vars

-----------------------------------------------------------------------------

RECURSIVE Means(_, _)
Means(e, context) ==
  CASE e.op = "term" -> Holds(e.term, context)
    [] e.op = "&&" -> Means(e.left, context) /\ Means(e.right, context)
    [] e.op = "||" -> Means(e.left, context) \/ Means(e.right, context)

\* What a policy is to decide: a deny that applies, an allow that does, or its permissions.
Should(j) ==
  LET policy == IF j.object.policy # NoPolicy THEN j.object.policy ELSE j.bucket
      context == [caller |-> j.caller, object |-> j.object, public |-> j.bucket.public]
      applying == {rule \in Range(policy.rules) :
                     Action(j.op) \in rule.actions /\ Means(rule.expression, context)}
  IN IF applying # {} THEN \A rule \in applying : rule.effect = "allow"
     ELSE Permitted(policy, Action(j.op), j.caller)

\* An inner && or || whose left side decides: its right side is taken for the rest of the rule.
LeftUnread(j) ==
  LET context == [caller |-> j.caller, object |-> j.object, public |-> j.bucket.public]
      early(d, op) == d.op \in {"&&", "||"} \ {op} /\ Means(d.left, context) = (d.op = "||")
  IN \E rule \in Range(j.bucket.rules) \cup Range(j.object.policy.rules) :
       rule.expression.op # "term"
         /\ (early(rule.expression.left, rule.expression.op)
               \/ early(rule.expression.right, rule.expression.op))

\* A request is let through exactly where the policies it has read say so, the object's own
\* before its bucket's, a deny before an allow, and is never failed by a rule
\* (isStorageAccessAllowed), unless a part of an expression was left unread.
RulesDecide ==
  \A r \in Requests :
    job[r].at \in {"allowed", "refused", "failed"} /\ ~LeftUnread(job[r]) =>
      job[r].at = IF Should(job[r]) THEN "allowed" ELSE "refused"

\* Every bucket is there with the policy it was given last (updateProject with bucketPolicies),
\* unless two administrators wrote the record over each other.
BucketsKeepPolicies ==
  (\A r \in Requests : At(r, "idle")) /\ "crossed" \notin incidents =>
    record.policies = given /\ record.buckets = DOMAIN given
=============================================================================
