------------------------------ MODULE MCProject ------------------------------
(***************************************************************************)
(* For TLC: what a project is made of: tables under its migrations,        *)
(* buckets with their policies, or two tables that a query in OQL joins.   *)
(* They share nothing here; a behaviour is about one of them, and leaves   *)
(* the others' variables alone.                                            *)
(***************************************************************************)
EXTENDS Naturals, TLC

CONSTANTS
  Movers, Tables, Columns, Migrations, Additions, Starts, MaxCalls, MaxFaults, \* Migrations
  First, More, Requests, MaxRequests,                                \* Policies
  MaxWrites                                                          \* Oql

VARIABLES
  part,                                                              \* which of the three
  schemas, history, rows, index, local, inForce, opened, faults,     \* Migrations
  object, job, given,                                                \* Policies
  tables, query, text, at, cache, answer, asOf, writes,              \* Oql
  record, calls,                                                     \* Migrations and Policies
  incidents                                                          \* all three

migrating == <<schemas, history, rows, index, local, inForce, opened, faults>>
deciding  == <<object, job, given>>
asking    == <<tables, query, text, at, cache, answer, asOf, writes>>
shared    == <<record, calls>>
vars == <<part, migrating, deciding, asking, shared, incidents>>

Schema == INSTANCE Migrations WITH Callers <- Movers
Bucket == INSTANCE Policies WITH MaxCalls <- MaxRequests
Join   == INSTANCE Oql

ASSUME ProjectAssumption ==
  MaxCalls \in Nat /\ MaxFaults \in Nat /\ MaxRequests \in Nat /\ MaxWrites \in Nat

Unused == 0
NoMigration == /\ schemas = Unused /\ history = Unused /\ rows = Unused /\ index = Unused
               /\ local = Unused /\ inForce = Unused /\ opened = Unused /\ faults = Unused
NoBucket    == object = Unused /\ job = Unused /\ given = Unused
NoQuery     == /\ tables = Unused /\ query = Unused /\ text = Unused /\ at = Unused
               /\ cache = Unused /\ answer = Unused /\ asOf = Unused /\ writes = Unused

Init ==
  \/ part = "tables" /\ Schema!Init /\ NoBucket /\ NoQuery
  \/ part = "buckets" /\ Bucket!Init /\ NoMigration /\ NoQuery
  \/ part = "query" /\ Join!Init /\ NoMigration /\ NoBucket /\ record = Unused /\ calls = Unused

Next ==
  \/ part = "tables" /\ Schema!Next /\ UNCHANGED <<part, deciding, asking>>
  \/ part = "buckets" /\ Bucket!Next /\ UNCHANGED <<part, migrating, asking>>
  \/ part = "query" /\ Join!Next /\ UNCHANGED <<part, migrating, deciding, shared>>

Spec == Init /\ [][Next]_vars

Interchangeable == Permutations(Movers) \cup Permutations(Requests)

-----------------------------------------------------------------------------
(* The migrations of the run: of a table with two rows, and one that may    *)
(* have been dropped before.                                                *)

Op(what, t, c) == [do |-> what, table |-> t, col |-> c]
Create(t, cols) == [do |-> "create", table |-> t, schema |-> [cols |-> cols, ix |-> {"a"}]]
Drop(t) == [do |-> "drop", table |-> t]
Rename(t, c, d) == [do |-> "rename", table |-> t, col |-> c, to |-> d]
Retype(t, c, fits) == [do |-> "retype", table |-> t, col |-> c, fits |-> fits]

\* One that grows two tables, one that reworks one, one that fails unless the second table
\* is there, and one that replaces a table and fails at its rows.
AllMigrations == {
  [name |-> "grow", up |-> <<Op("add", "t", "b"), Create("n", {"a"})>>,
                    down |-> <<Drop("n"), Op("remove", "t", "b")>>],
  [name |-> "rework", up |-> <<Rename("t", "a", "c"), Op("unindex", "t", "c")>>,
                      down |-> <<Op("index", "t", "c"), Rename("t", "c", "a")>>],
  [name |-> "prune", up |-> <<Op("add", "t", "c"), Drop("n")>>, down |-> <<>>],
  [name |-> "replace", up |-> <<Drop("t"), Create("t", {"a", "b"}), Op("index", "t", "b"),
                                Retype("t", "a", FALSE)>>,
                       down |-> <<>>]}
AllAdditions == {Create("n", {"a", "b"})}

Channel(c, d) == [t |-> c, n |-> d]
\* A table that is not there.
Absent == [cols |-> {}, ix |-> {"none"}]
WithT == [t |-> [cols |-> {"a"}, ix |-> {"a"}], n |-> Absent]
InT == {<<"t", "a", 1>>, <<"t", "a", 2>>}
AllStarts == {
  [record |-> [live |-> Channel(1, 0), archived |-> Channel(0, 0)], schemas |-> WithT,
   rows |-> <<<<{"a"}, {"a"}>>>>, index |-> InT],
  [record |-> [live |-> Channel(1, 0), archived |-> Channel(0, 2)], schemas |-> WithT,
   rows |-> <<<<{"a"}, {"a"}>>, <<{"a", "b"}>>>>, index |-> InT]}

-----------------------------------------------------------------------------
(* Properties.                                                              *)

\* The schemas are what the history made them, each table has one channel that is its own, and
\* its rows have its columns and are found by those that are indexed (MigrationService.executeMigration,
\* applyOperation, restoreProjectState, ProjectService.addTable), up to the failures and crossings
\* that are named there.
TablesAgree == part = "tables" => Schema!TablesAgree /\ Schema!RowsAgree

\* A failed migration that ran alone leaves no trace (restoreProjectState).
FailedLeavesNoTrace == [][part = "tables" => Schema!LeavesNoTrace]_vars

\* A request is let through exactly where the policies it has read say so, unless a part of a
\* rule was left unread, and every bucket has the policy that it was given last, unless two
\* administrators wrote over each other (policyEngine.isStorageAccessAllowed, routes/storage.ts,
\* updateProject).
PoliciesDecide == part = "buckets" => Bucket!RulesDecide /\ Bucket!BucketsKeepPolicies

\* The answer to a query is the rows that it means (OqlParser, OqlService.execute), up to the
\* rows written between the reads of its tables.
MeansWhatItSays == part = "query" => Join!MeansWhatItSays
=============================================================================
