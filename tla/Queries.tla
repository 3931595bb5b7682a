------------------------------- MODULE Queries -------------------------------
(***************************************************************************)
(* A query of one table from the SDK to its answer: the filter is written  *)
(* into the URL and read back, the rows are found by a scan or through the *)
(* index, filtered, ordered, put through the policy and cut into pages.  A *)
(* reader asks for page after page while rows are written.                 *)
(***************************************************************************)
EXTENDS Naturals, FiniteSets, Sequences, SequencesExt, FiniteSetsExt

CONSTANTS
  NumRows,   \* rows the table begins with
  Limit,     \* rows of a page
  MaxWrites  \* bound: rows inserted, touched or deleted

\* A value as JavaScript has it, and as String gives it.
Number(text) == [type |-> "number", text |-> text]
Str(text) == [type |-> "text", text |-> text]
Null == [type |-> "null", text |-> "null"]
\* A column has values of its type, or null.  In the order of the values.
Numbers == <<"0", "5">>
Strings == <<"5", "a", "a,b", "null">>
ValuesOf(type) ==
  {Null} \cup (IF type = "number" THEN {Number(t) : t \in Range(Numbers)}
               ELSE {Str(t) : t \in Range(Strings)})

\* eq and the like have one value, in has a list: any value, and one that is read as written.
Plain(type) == IF type = "number" THEN Number("5") ELSE Str("a")
Filters(type) ==
  ({"eq", "neq", "gt", "lte"} \X [1..1 -> ValuesOf(type)])
    \cup ({"is"} \X {<<Null>>})
    \cup ({"in"} \X {<<v, Plain(type)>> : v \in ValuesOf(type)})
\* The policy names a text.
Query(type) ==
  {[op |-> f[1], values |-> f[2], order |-> order, policy |-> policy] :
     f \in Filters(type), order \in {"none", "asc", "desc"},
     policy \in IF type = "text" THEN BOOLEAN ELSE {FALSE}}

VARIABLES
  type,     \* the column's
  indexed,  \* schema.indexes has the column
  rows,     \* the table: each id's value, ids in the order of the channel
  filed,    \* field_index: the ids in the order of their entries
  query,    \* the reader's
  at,       \* "idle", "asked", "fetch" or "done"
  found,    \* ids the index gave
  seen,     \* ids of the rows of the pages so far
  \* The rest is not in the code.
  writes,
  incidents

vars == <<type, indexed, rows, filed, query, at, found, seen, writes, incidents>>

Incidents == {
  "shifted",  \* a row was inserted or deleted under the reader
  "touched"}  \* a row was updated under the reader

MaxIds == NumRows + MaxWrites
NoQuery == [op |-> "none", values |-> <<Null>>, order |-> "none", policy |-> FALSE]

TypeOK ==
  /\ type \in {"number", "text"} /\ indexed \in BOOLEAN
  /\ DOMAIN rows \subseteq 1..MaxIds /\ \A i \in DOMAIN rows : rows[i] \in ValuesOf(type)
  /\ Range(filed) \subseteq 1..MaxIds /\ IsInjective(filed)
  /\ query \in Query(type) \cup {NoQuery}
  /\ at \in {"idle", "asked", "fetch", "done"}
  /\ Range(found) \subseteq 1..MaxIds /\ Range(seen) \subseteq 1..MaxIds
  /\ writes \in 0..MaxWrites /\ incidents \subseteq Incidents

Sorted(ids) == SetToSortSeq(ids, <)
\* Entries of a column that is null are not made.
Filed(table) == Sorted({i \in DOMAIN table : table[i] # Null})

Init ==
  /\ type \in {"number", "text"} /\ indexed \in BOOLEAN
  /\ rows \in [1..NumRows -> ValuesOf(type)]
  /\ filed = Filed(rows)
  /\ query = NoQuery /\ at = "idle" /\ found = <<>> /\ seen = <<>>
  /\ writes = 0 /\ incidents = {}

-----------------------------------------------------------------------------
(* The URL.                                                                 *)

\* parseScalarValue: what has the form of a number or of null is read as one.
Read(text) ==
  IF text = "null" THEN Null
  ELSE IF text \in Range(Numbers) THEN Number(text) ELSE Str(text)

\* A list is joined with commas and split at them; null joins as nothing, and nothing is dropped.
Pieces(v) ==
  IF v = Null THEN <<>> ELSE IF v.text = "a,b" THEN <<"a", "b">> ELSE <<v.text>>

\* Mutant of Parsed: the items of a list are left as text.
ParsedListAsText(q) ==
  IF q.op = "in"
  THEN LET texts == FlattenSeq([i \in DOMAIN q.values |-> Pieces(q.values[i])])
       IN [i \in DOMAIN texts |-> Str(texts[i])]
  ELSE [i \in DOMAIN q.values |-> Read(q.values[i].text)]

\* buildQueryString, then parseDatabaseRequestQuery and parseFilterValue.
Parsed(q) ==
  IF q.op = "in"
  THEN LET texts == FlattenSeq([i \in DOMAIN q.values |-> Pieces(q.values[i])])
       IN [i \in DOMAIN texts |-> Read(texts[i])]
  ELSE [i \in DOMAIN q.values |-> Read(q.values[i].text)]

-----------------------------------------------------------------------------
(* applyQueryFilters.                                                       *)

Rank(v) == CHOOSE i \in 1..4 : (IF v.type = "number" THEN Numbers ELSE Strings)[i] = v.text

\* toComparable: null compares as the text "null".  A number compares with a text that has
\* the form of one, and is neither more nor less than any other.
Comparable(v) == IF v = Null THEN Str("null") ELSE v
Mixed(v, w) == v.type # w.type
AsNumber(v) == IF v.type = "text" THEN Number(v.text) ELSE v
Exceeds(v, w) ==
  LET a == Comparable(v)  b == Comparable(w)
  IN IF Mixed(a, b)
     THEN {a.text, b.text} \subseteq Range(Numbers) /\ Rank(AsNumber(a)) > Rank(AsNumber(b))
     ELSE Rank(a) > Rank(b)
AtMost(v, w) ==
  LET a == Comparable(v)  b == Comparable(w)
  IN IF Mixed(a, b)
     THEN {a.text, b.text} \subseteq Range(Numbers) /\ Rank(AsNumber(a)) <= Rank(AsNumber(b))
     ELSE Rank(a) <= Rank(b)

Applies(op, v, values) ==
  CASE op \in {"eq", "is"} -> v = values[1]
    [] op = "neq" -> v # values[1]
    [] op = "gt" -> Exceeds(v, values[1])
    [] op = "lte" -> AtMost(v, values[1])
    [] op = "in" -> v \in Range(values)

\* compareValues: rows without a value come last, or first in descending order.
Before(q, v, w) ==
  IF v = Null \/ w = Null
  THEN v # w /\ (v = Null) = (q.order = "desc")
  ELSE IF q.order = "asc" THEN Rank(v) < Rank(w) ELSE Rank(v) > Rank(w)

\* Array.sort is stable.
Ordered(q, ids) ==
  LET place(i) == CHOOSE k \in DOMAIN ids : ids[k] = i
      earlier(i, j) == \/ Before(q, rows[i], rows[j])
                       \/ ~Before(q, rows[j], rows[i]) /\ place(i) < place(j)
  IN IF q.order = "none" THEN ids ELSE SetToSortSeq(Range(ids), earlier)

\* applyRLS
Visible(q, ids) ==
  IF q.policy THEN SelectSeq(ids, LAMBDA i : rows[i] = Str("a")) ELSE ids

UsesIndex(q) == indexed /\ q.op = "eq"

\* select of what was found: the filter the index answered is not applied again.
Selected(q, ids) ==
  LET there == SelectSeq(ids, LAMBDA i : i \in DOMAIN rows)
      fit == IF UsesIndex(q) THEN there
             ELSE SelectSeq(there, LAMBDA i : Applies(q.op, rows[i], Parsed(q)))
  IN Ordered(q, fit)

Cut(ids, offset) == SubSeq(ids, offset + 1, Min({offset + Limit, Len(ids)}))

\* Mutant of PageOf: the policy is applied to the page.
PageThenPolicy(q, ids, offset) == Visible(q, Cut(Selected(q, ids), offset))

\* The route: policy, then offset, then limit.
PageOf(q, ids, offset) == Cut(Visible(q, Selected(q, ids)), offset)

-----------------------------------------------------------------------------
Ask(q) ==
  /\ at = "idle"
  /\ query' = q /\ at' = "asked"
  /\ UNCHANGED <<type, indexed, rows, filed, found, seen, writes, incidents>>

Candidates ==
  IF UsesIndex(query)
  THEN SelectSeq(filed, LAMBDA i : i \in DOMAIN rows /\ rows[i].text = Parsed(query)[1].text)
  ELSE Sorted(DOMAIN rows)

\* IndexManager.lookup, or the channel.
Lookup ==
  /\ at = "asked"
  /\ found' = Candidates /\ at' = "fetch"
  /\ UNCHANGED <<type, indexed, rows, filed, query, seen, writes, incidents>>

\* A page is answered; the reader asks for the next unless it is short.
Answer ==
  LET page == PageOf(query, found, Len(seen))
  IN /\ at = "fetch"
     /\ seen' = seen \o page /\ found' = <<>>
     /\ at' = IF Len(page) < Limit THEN "done" ELSE "asked"
     /\ UNCHANGED <<type, indexed, rows, filed, query, writes, incidents>>

-----------------------------------------------------------------------------
(* Writers.                                                                 *)

\* Bound: only while the reader reads.
Write(kind) ==
  /\ at \in {"asked", "fetch"}
  /\ writes < MaxWrites /\ writes' = writes + 1
  /\ incidents' = incidents \cup {kind}
  /\ UNCHANGED <<type, indexed, query, at, found, seen>>

Insert(v) ==
  LET id == NumRows + writes + 1
  IN /\ Write("shifted")
     /\ rows' = (id :> v) @@ rows
     /\ filed' = IF v = Null THEN filed ELSE Append(filed, id)

\* Another column is updated: updateIndex makes the row's entries anew.
Touch(id) ==
  /\ Write("touched")
  /\ filed' = IF rows[id] = Null THEN filed ELSE Append(Remove(filed, id), id)
  /\ UNCHANGED rows

Delete(id) ==
  /\ Write("shifted")
  /\ rows' = [i \in DOMAIN rows \ {id} |-> rows[i]]
  /\ filed' = Remove(filed, id)

Next ==
  \/ \E q \in Query(type) : Ask(q)
  \/ Lookup \/ Answer
  \/ \E v \in ValuesOf(type) : Insert(v)
  \/ \E id \in DOMAIN rows : Touch(id) \/ Delete(id)

Spec == Init /\ [][Next]_vars

-----------------------------------------------------------------------------
Undisturbed == incidents = {}

\* Every value of the query is read back from the URL as what was written.
Survives(q) ==
  \A i \in DOMAIN q.values :
    /\ Read(q.values[i].text) = q.values[i]
    /\ q.op = "in" => Pieces(q.values[i]) = <<q.values[i].text>>

\* The answer, all pages together, is the rows the filter the caller wrote applies to, that
\* the policy shows, whether the index is used or not.  A text with the form of a number or of
\* null does not survive the URL, and null is not in the index.
AsWritten ==
  at = "done" /\ Undisturbed /\ Survives(query) /\ ~(UsesIndex(query) /\ query.values[1] = Null) =>
    Range(seen) =
      Range(Visible(query, SelectSeq(Sorted(DOMAIN rows),
                                     LAMBDA i : Applies(query.op, rows[i], query.values))))

\* Pages one after another are what one request without a limit is answered, each row once, as
\* long as no row comes or goes; through the index, as long as none is updated either.
PagesAddUp ==
  /\ at = "done"
  /\ "shifted" \notin incidents
  /\ UsesIndex(query) => "touched" \notin incidents
  => seen = Visible(query, Selected(query, Candidates))
=============================================================================
