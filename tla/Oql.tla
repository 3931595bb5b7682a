--------------------------------- MODULE Oql ---------------------------------
(***************************************************************************)
(* A query in OQL from its text to its answer: clauses and conditions are  *)
(* parsed, the tables are read one after another, while rows are written,  *)
(* then joined, filtered, grouped, projected, ordered and cut.             *)
(***************************************************************************)
EXTENDS Naturals, FiniteSets, Sequences, SequencesExt, FiniteSetsExt, TLC

CONSTANT MaxWrites  \* bound: rows written under a query

\* Values are 1 and 2 or null, which compares below them and adds nothing.
Null == 0
Values == Null..2

\* Posts are by authors.  An author's id is its place, and so is a post's.
Post == [id : 1..2, by : Values]
Author == [id : 1..2, age : Values]
NoRow == <<>>  \* what a left join has where nothing matches

VARIABLES
  tables,   \* the channels
  query,    \* what the caller means
  text,     \* and writes
  at,       \* "idle", "asked", "loaded", "ready" or "done"
  cache,    \* rowCache: the tables read so far
  answer,
  \* The rest is not in the code.
  asOf,     \* the tables when the first was read
  writes,
  incidents

vars == <<tables, query, text, at, cache, answer, asOf, writes, incidents>>

Incidents == {"between"}  \* a row was written between the reads of a query

-----------------------------------------------------------------------------
(* What the caller means.                                                   *)

Comparison(left, op, right) ==
  [kind |-> "comparison", operator |-> op, left |-> left, right |-> right]
Logical(op, left, right) == [kind |-> "logical", operator |-> op, left |-> left, right |-> right]
Ref(path) == [kind |-> "reference", value |-> path]
Literal(v) == [kind |-> "literal", value |-> v]
List(vs) == [kind |-> "array", value |-> vs]

\* The conditions that a query has: one comparison, or three with and and or between them.
Atoms == <<
  Comparison(Ref(<<"posts", "by">>), "=", Literal(1)),
  Comparison(Ref(<<"posts", "id">>), ">", Literal(1)),
  Comparison(Ref(<<"posts", "by">>), "is", Literal(Null)),
  Comparison(Ref(<<"posts", "by">>), "in", List(<<1, 2>>))>>
Conditions ==
  Range(Atoms)
    \cup {Logical(f, Logical(g, Atoms[1], Atoms[2]), Atoms[3]) : f, g \in {"and", "or"}}
    \cup {Logical(f, Atoms[1], Logical(g, Atoms[2], Atoms[3])) : f, g \in {"and", "or"}}
Always == Comparison(Literal(1), "=", Literal(1))

Join(type, table, alias, on) == [type |-> type, table |-> table, alias |-> alias, on |-> on]
Same(p, q) == Comparison(Ref(p), "=", Ref(q))
Joins == {
  <<>>,
  <<Join("inner", "authors", "authors", Same(<<"posts", "by">>, <<"authors", "id">>))>>,
  <<Join("left", "authors", "authors", Same(<<"posts", "by">>, <<"authors", "id">>))>>,
  <<Join("left", "posts", "p", Same(<<"posts", "by">>, <<"p", "id">>))>>,
  <<Join("inner", "posts", "posts", Same(<<"posts", "by">>, <<"posts", "id">>))>>}

Item(type, of, key) == [type |-> type, of |-> of, key |-> key]
All == Item("all", <<>>, <<>>)
Projections == {
  <<>>,
  <<Item("all", <<"authors">>, <<>>)>>,
  <<Item("reference", <<"posts", "by">>, <<"id">>)>>,
  <<Item("reference", <<"posts", "id">>, <<"posts", "id">>),
    Item("reference", <<"age">>, <<"age">>)>>,
  <<Item("reference", <<"posts", "by">>, <<"by">>), Item("count", <<>>, <<"n">>),
    Item("sum", <<"age">>, <<"s">>), Item("min", <<"posts", "id">>, <<"m">>)>>}
Aggregates == {"count", "sum", "min"}

Order(path, direction) == [path |-> path, direction |-> direction]
Orders == {<<>>, <<Order(<<"posts", "id">>, "desc")>>, <<Order(<<"by">>, "asc")>>}
NoLimit == 9

Query ==
  [joins : Joins, where : Conditions \cup {Always}, select : {<<>>}, groupBy : {<<>>},
   orderBy : {<<>>}, limit : {NoLimit}, policy : BOOLEAN]
    \cup [joins : Joins, where : {Always}, select : Projections, groupBy : {<<>>, <<<<"posts", "by">>>>},
          orderBy : Orders, limit : {1, NoLimit}, policy : {FALSE}]

-----------------------------------------------------------------------------
(* The text, and parseOqlQuery.                                             *)

Token(type, value) == [type |-> type, value |-> value]

\* tokenize, of an operand as it is written
Operand(o) ==
  CASE o.kind = "reference" -> <<Token("identifier", o.value)>>
    [] o.kind = "array" ->
         <<Token("bracket", "["), Token("number", o.value[1]), Token("comma", ","),
           Token("number", o.value[2]), Token("bracket", "]")>>
    [] o.kind = "literal" ->
         <<IF o.value = Null THEN Token("null", Null) ELSE Token("number", o.value)>>

\* and of a condition, with parentheses where an or is under an and.
RECURSIVE Tokens(_)
Tokens(c) ==
  LET part(d) ==
        IF d.operator = "or" /\ c.operator = "and"
        THEN <<Token("paren", "(")>> \o Tokens(d) \o <<Token("paren", ")")>> ELSE Tokens(d)
      middle == <<Token("operator", c.operator)>>
  IN IF c.kind = "logical" THEN part(c.left) \o middle \o part(c.right)
     ELSE Operand(c.left) \o middle \o Operand(c.right)

\* Clauses between bars; a clause that is not needed is not written.
Clause(kind, content) == [kind |-> kind, content |-> content]
Text(q) ==
  LET clause(kind, content, written) == IF written THEN <<Clause(kind, content)>> ELSE <<>>
  IN [i \in DOMAIN q.joins |-> Clause("join", [q.joins[i] EXCEPT !.on = Tokens(@)])]
     \o clause("where", Tokens(q.where), q.where # Always)
     \o clause("select", q.select, q.select # <<>>)
     \o clause("group", q.groupBy, q.groupBy # <<>>)
     \o clause("order", q.orderBy, q.orderBy # <<>>)
     \o clause("limit", q.limit, q.limit # NoLimit)

Found(tree, next) == [tree |-> tree, next |-> next]

\* parseValue, at the token i
Value(tokens, i) ==
  LET close == CHOOSE k \in i..Len(tokens) :
                 /\ tokens[k].type = "bracket" /\ tokens[k].value = "]"
                 /\ \A j \in i..(k - 1) : ~(tokens[j].type = "bracket" /\ tokens[j].value = "]")
  IN CASE tokens[i].type = "identifier" -> Found(Ref(tokens[i].value), i + 1)
       [] tokens[i].type \in {"number", "null"} -> Found(Literal(tokens[i].value), i + 1)
       [] tokens[i].type = "bracket" ->
            Found(List([k \in 1..((close - i) \div 2) |-> tokens[i + 2 * k - 1].value]), close + 1)

Peek(tokens, i, type, value) ==
  i <= Len(tokens) /\ tokens[i].type = type /\ tokens[i].value = value

\* parseOr, parseAnd and parseComparison: level is the operator of the chain.
RECURSIVE Chain(_, _, _), Parse(_, _, _)
Chain(tokens, so, level) ==
  IF Peek(tokens, so.next, "operator", level)
  THEN LET right == Parse(tokens, so.next + 1, level)
       IN Chain(tokens, Found(Logical(level, so.tree, right.tree), right.next), level)
  ELSE so

Parse(tokens, i, level) ==
  IF level = "or" THEN Chain(tokens, Parse(tokens, i, "and"), "and")
  ELSE IF Peek(tokens, i, "paren", "(")
  THEN LET nested == Chain(tokens, Parse(tokens, i + 1, "or"), "or")
       IN Found(nested.tree, nested.next + 1)
  ELSE LET left == Value(tokens, i)
           right == Value(tokens, left.next + 1)
       IN Found(Comparison(left.tree, tokens[left.next].value, right.tree), right.next)

\* Mutant of Condition: or binds before and.
ConditionAndFirst(tokens) ==
  LET operand(i) == Chain(tokens, Parse(tokens, i, "and"), "or")
      first == operand(1)
  IN IF Peek(tokens, first.next, "operator", "and")
     THEN Logical("and", first.tree, Chain(tokens, operand(first.next + 1), "and").tree)
     ELSE first.tree

\* parseCondition
Condition(tokens) == Chain(tokens, Parse(tokens, 1, "or"), "or").tree

Blank == [joins |-> <<>>, where |-> Always, select |-> <<>>, groupBy |-> <<>>, orderBy |-> <<>>,
          limit |-> NoLimit]

\* A join is added to the others; any other clause takes the place of one before.
Read(parsed, c) ==
  CASE c.kind = "join" ->
         [parsed EXCEPT !.joins = Append(@, [c.content EXCEPT !.on = Condition(@)])]
    [] c.kind = "where" -> [parsed EXCEPT !.where = Condition(c.content)]
    [] c.kind = "select" -> [parsed EXCEPT !.select = c.content]
    [] c.kind = "group" -> [parsed EXCEPT !.groupBy = c.content]
    [] c.kind = "order" -> [parsed EXCEPT !.orderBy = c.content]
    [] c.kind = "limit" -> [parsed EXCEPT !.limit = c.content]

Parsed == FoldLeft(Read, Blank, text)

-----------------------------------------------------------------------------
(* OqlService: a context has a row for each alias.                          *)

Resolve(context, path) ==
  LET column == Last(path)
      owners == {a \in DOMAIN context :
                   (Len(path) = 2 => a = path[1]) /\ column \in DOMAIN context[a]}
  IN IF owners = {} THEN Null ELSE context[CHOOSE a \in owners : TRUE][column]

\* compareValues
Compare(op, v, w) ==
  CASE op \in {"=", "is"} -> v = w
    [] op = ">" -> v > w
    [] op = "in" -> v \in Range(w)

\* evaluateCondition
RECURSIVE Holds(_, _)
Holds(c, context) ==
  LET value(o) == IF o.kind = "reference" THEN Resolve(context, o.value) ELSE o.value
  IN CASE c.kind = "comparison" -> Compare(c.operator, value(c.left), value(c.right))
       [] c.operator = "and" -> Holds(c.left, context) /\ Holds(c.right, context)
       [] c.operator = "or" -> Holds(c.left, context) \/ Holds(c.right, context)

\* applyJoin: a context's row of the same alias gives way.
Joined(contexts, join, rows) ==
  LET with(context, row) == (join.alias :> row) @@ context
      matches(context) == SelectSeq(rows, LAMBDA row : Holds(join.on, with(context, row)))
      extended(context) ==
        IF matches(context) = <<>> /\ join.type = "left" THEN <<with(context, NoRow)>>
        ELSE [i \in DOMAIN matches(context) |-> with(context, matches(context)[i])]
  IN FlattenSeq([i \in DOMAIN contexts |-> extended(contexts[i])])

\* flattenContext
Flat(context, of) ==
  LET aliases == IF of = <<>> THEN DOMAIN context ELSE Range(of) \cap DOMAIN context
      keys == UNION {{<<a, column>> : column \in DOMAIN context[a]} : a \in aliases}
  IN [key \in keys |-> context[key[1]][key[2]]]

\* computeAggregate
Aggregate(item, contexts) ==
  LET values == [i \in DOMAIN contexts |-> Resolve(contexts[i], item.of)]
  IN CASE item.type = "count" -> Len(contexts)
       [] item.type = "sum" -> FoldLeft(LAMBDA total, v : total + v, 0, values)
       [] item.type = "min" -> Min(Range(values))

\* projectContext, and what projectGroupedRows does of a group
Projected(select, contexts) ==
  LET entry(row, item) ==
        (CASE item.type = "all" -> Flat(Head(contexts), item.of)
           [] item.type = "reference" -> item.key :> Resolve(Head(contexts), item.of)
           [] item.type \in Aggregates -> item.key :> Aggregate(item, contexts)) @@ row
  IN FoldLeft(entry, <<>>, IF select = <<>> THEN <<All>> ELSE select)

Key(q, context) == [i \in DOMAIN q.groupBy |-> Resolve(context, q.groupBy[i])]
Grouping(q) == q.groupBy # <<>> \/ \E i \in DOMAIN q.select : q.select[i].type \in Aggregates

\* Groups are in the order of their first contexts.
Groups(q, contexts) ==
  LET keys == FoldLeft(LAMBDA ks, c : IF Key(q, c) \in Range(ks) THEN ks ELSE Append(ks, Key(q, c)),
                       <<>>, contexts)
  IN [i \in DOMAIN keys |-> SelectSeq(contexts, LAMBDA c : Key(q, c) = keys[i])]

Rows(q, contexts) ==
  LET groups == IF Grouping(q) THEN Groups(q, contexts)
                ELSE [i \in DOMAIN contexts |-> <<contexts[i]>>]
  IN [i \in DOMAIN groups |-> Projected(q.select, groups[i])]

\* resolveOrderedValue: the key itself, the only one that ends so, or that of the column's name.
OrderKey(row, path) ==
  LET ending == {key \in DOMAIN row : Len(path) = 1 /\ Len(key) = 2 /\ key[2] = path[1]}
  IN IF path \in DOMAIN row THEN path
     ELSE IF Cardinality(ending) = 1 THEN CHOOSE key \in ending : TRUE ELSE <<Last(path)>>
Rank(row, path) == IF OrderKey(row, path) \in DOMAIN row THEN row[OrderKey(row, path)] ELSE Null

\* Mutant of Ahead: the direction is not looked at.
AheadAscending(order, row, other) == Rank(row, order.path) < Rank(other, order.path)

Ahead(order, row, other) ==
  IF order.direction = "asc" THEN Rank(row, order.path) < Rank(other, order.path)
  ELSE Rank(row, order.path) > Rank(other, order.path)

\* applyOrdering, a stable sort
Sorted(q, rows) ==
  LET before(i, j) == \/ Ahead(Head(q.orderBy), rows[i], rows[j])
                      \/ ~Ahead(Head(q.orderBy), rows[j], rows[i]) /\ i < j
      places == SetToSortSeq(DOMAIN rows, before)
  IN IF q.orderBy = <<>> THEN rows ELSE [i \in DOMAIN rows |-> rows[places[i]]]

Visible(rows, policy) == IF policy THEN SelectSeq(rows, LAMBDA row : row.id = 2) ELSE rows

\* buildResult
Result(q, loaded) ==
  LET first == [i \in DOMAIN loaded["posts"] |-> ("posts" :> loaded["posts"][i])]
      joined == FoldLeft(LAMBDA contexts, join : Joined(contexts, join, loaded[join.table]),
                         first, q.joins)
      rows == Sorted(q, Rows(q, SelectSeq(joined, LAMBDA context : Holds(q.where, context))))
  IN SubSeq(rows, 1, Min({Len(rows), q.limit}))

-----------------------------------------------------------------------------
TypeOK ==
  /\ tables["posts"] \in UNION {[1..n -> Post] : n \in 0..2}
  /\ tables["authors"] \in UNION {[1..n -> Author] : n \in 0..2}
  /\ query \in Query \cup {Blank}
  /\ at \in {"idle", "asked", "loaded", "ready", "done"}
  /\ DOMAIN cache \subseteq DOMAIN tables
  /\ writes \in 0..MaxWrites /\ incidents \subseteq Incidents

Init ==
  /\ \E by \in [1..2 -> Values] :
       tables = [posts |-> [i \in 1..2 |-> [id |-> i, by |-> by[i]]],
                 authors |-> <<[id |-> 1, age |-> 2], [id |-> 2, age |-> Null]>>]
  /\ query = Blank /\ text = <<>> /\ at = "idle"
  /\ cache = <<>> /\ answer = <<>> /\ asOf = tables
  /\ writes = 0 /\ incidents = {}

Ask(q) ==
  /\ at = "idle"
  /\ query' = q /\ text' = Text(q) /\ at' = "asked"
  /\ UNCHANGED <<tables, cache, answer, asOf, writes, incidents>>

\* Mutant of Loaded: every use of a table reads it.
LoadedAfresh(table) == (table :> Visible(tables[table], query.policy)) @@ cache

\* loadRows, with the policy of the table
Loaded(table) ==
  IF table \in DOMAIN cache THEN cache
  ELSE (table :> Visible(tables[table], query.policy)) @@ cache

Load ==
  /\ at = "asked"
  /\ cache' = Loaded("posts") /\ asOf' = tables
  /\ at' = "loaded"
  /\ UNCHANGED <<tables, query, text, answer, writes, incidents>>

LoadJoin ==
  /\ at = "loaded"
  /\ cache' = IF Parsed.joins = <<>> THEN cache ELSE Loaded(Head(Parsed.joins).table)
  /\ at' = "ready"
  /\ UNCHANGED <<tables, query, text, answer, asOf, writes, incidents>>

Answer ==
  /\ at = "ready"
  /\ answer' = Result(Parsed, cache) /\ at' = "done"
  /\ UNCHANGED <<tables, query, text, cache, asOf, writes, incidents>>

\* A writer: bound, while the query is read.
Write(table, rows) ==
  /\ at = "loaded"
  /\ writes < MaxWrites /\ writes' = writes + 1
  /\ tables' = [tables EXCEPT ![table] = rows]
  /\ incidents' = incidents \cup {"between"}
  /\ UNCHANGED <<query, text, at, cache, answer, asOf>>

Reassign(v) ==
  tables["posts"] # <<>> /\ Write("posts", [tables["posts"] EXCEPT ![1].by = v])
Delete(table) == tables[table] # <<>> /\ Write(table, Tail(tables[table]))

Next ==
  \/ \E q \in Query : Ask(q)
  \/ Load \/ LoadJoin \/ Answer
  \/ \E v \in Values : Reassign(v)
  \/ \E table \in DOMAIN tables : Delete(table)

Spec == Init /\ [][Next]_vars
-----------------------------------------------------------------------------
(* What the answer should be.                                               *)

\* The rows that belong together, by the query as it is meant.
Meant(q) ==
  LET rows(table) == Range(Visible(asOf[table], q.policy))
      join == Head(q.joins)
      pairs == {(join.alias :> s) @@ ("posts" :> r) : r \in rows("posts"), s \in rows(join.table)}
      fitting == {c \in pairs : Holds(join.on, c)}
      alone == {r \in rows("posts") : join.type = "left" /\ \A c \in fitting : c["posts"] # r}
      all == IF q.joins = <<>> THEN {("posts" :> r) : r \in rows("posts")}
             ELSE fitting \cup {(join.alias :> NoRow) @@ ("posts" :> r) : r \in alone}
  IN {c \in all : Holds(q.where, c)}

\* Every part of them is to have one row.
Parts(q) ==
  IF Grouping(q) THEN {{c \in Meant(q) : Key(q, c) = Key(q, d)} : d \in Meant(q)}
  ELSE {{c} : c \in Meant(q)}

Total(item, part) ==
  CASE item.type = "count" -> Cardinality(part)
    [] item.type = "sum" -> MapThenSumSet(LAMBDA c : Resolve(c, item.of), part)
    [] item.type = "min" -> Min({Resolve(c, item.of) : c \in part})

Answers(row, q, part) ==
  \E c \in part : \A item \in Range(IF q.select = <<>> THEN <<All>> ELSE q.select) :
    CASE item.type = "all" ->
           \A key \in DOMAIN Flat(c, item.of) :
             key \in DOMAIN row /\ row[key] = Flat(c, item.of)[key]
      [] item.type = "reference" -> row[item.key] = Resolve(c, item.of)
      [] item.type \in Aggregates -> row[item.key] = Total(item, part)

InOrder(order, v, w) == IF order.direction = "asc" THEN v <= w ELSE v >= w

\* The rows are ordered after they are projected, by what they show under the column's name.
Shown(q, path) ==
  /\ \/ q.select = <<>>
     \/ \E item \in Range(q.select) :
          item.type = "reference" /\ Last(item.of) = Last(path) /\ Last(item.key) = Last(path)
  /\ Len(path) = 1 => ~\E join \in Range(q.joins) : join.table = "posts"

\* Two tables are not read at one moment; an alias given twice stands for the second.
AsOneSays ==
  /\ "between" \in incidents => \A join \in Range(query.joins) : join.table = "posts"
  /\ \A join \in Range(query.joins) : join.alias # "posts"
  /\ \A order \in Range(query.orderBy) : Shown(query, order.path)

\* A query's answer has a row for each combination of rows, or group of them, that the query as
\* it was meant joins and keeps, no more often, in its order and the first of them up to its
\* limit, as the tables were when it began, a table joined with itself read once
\* (parseOqlQuery, OqlService.execute): unless rows of two tables were read around a write, an
\* alias was given twice, or the column that orders is not shown under its name.
MeansWhatItSays ==
  LET parts == Parts(query)
      places == DOMAIN answer
      order == Head(query.orderBy)
      of(i) == {p \in parts : Answers(answer[i], query, p)}
      rank(p) == Resolve(CHOOSE c \in p : TRUE, order.path)
      left == {p \in parts : \A i \in places : p \notin of(i)}
  IN at = "done" /\ AsOneSays =>
       /\ Len(answer) = Min({query.limit, Cardinality(parts)})
       /\ \A i \in places : Cardinality({j \in places : answer[j] = answer[i]}) <= Cardinality(of(i))
       /\ query.orderBy # <<>> =>
            \A i \in places :
              /\ \A j \in places : i < j =>
                    \E p \in of(i), r \in of(j) : InOrder(order, rank(p), rank(r))
              /\ \A r \in left : \E p \in of(i) : InOrder(order, rank(p), rank(r))
=============================================================================
