--------------------------- MODULE MCTransactions ---------------------------
(* Small operation lists for Transactions, chosen so that operations meet on *)
(* a key, fail late, and are undone in every combination.                     *)
EXTENDS Transactions

CONSTANTS k1, k2, v1, v2

Anything == [key |-> Keep, val |-> Keep]
Blank == [type |-> "update", rows |-> <<>>, where |-> All, patch |-> Anything,
          counts |-> 0..MaxMsg, match |-> {}]

R(k, v) == [key |-> k, val |-> v]
Insert(rows) == [Blank EXCEPT !.type = "insert", !.rows = rows]
Upsert(row)  == [Blank EXCEPT !.type = "upsert", !.rows = <<row>>]
SetVal(k, v) == [Blank EXCEPT !.where = k, !.patch.val = v]
SetKey(k, l) == [Blank EXCEPT !.where = k, !.patch.key = l]
Delete(k)    == [Blank EXCEPT !.type = "delete", !.where = k]
Unknown      == [Blank EXCEPT !.type = "unknown_table"]
Once(op)     == [op EXCEPT !.counts = {1}]
Match(op, s) == [op EXCEPT !.match = s]

\* For transactions that have the table to themselves.
LockedPrograms == {
  <<Insert(<<R(k1, v1), R(k2, v2)>>), Unknown>>,
  <<Delete(k1), Insert(<<R(k1, v1)>>), Once(Delete(k2))>>,
  <<SetVal(All, v1), SetKey(k1, NoKey), SetKey(All, k1)>>,
  <<Upsert(R(k2, v1)), Delete(k2), Match(Delete(k1), {1})>>}

\* For writers that run against each other.
MixedPrograms == {
  <<Upsert(R(k1, v2))>>,
  <<SetKey(All, k1)>>,
  <<Delete(k1)>>,
  <<Insert(<<R(k2, v1), R(NoKey, v2)>>), Unknown>>}

\* A transaction that writes a row, deletes it, and fails after that.
RewritePrograms == {<<Upsert(R(k2, v1)), Delete(k2), Unknown>>}

TwoRows == {<<R(k1, v1), R(k2, v2)>>}
AnySeed == {<<>>, <<R(k1, v1)>>, <<R(k1, v1), R(k2, v2)>>}
Hidden == {v2}
KeySet == {k1, k2}
ValSet == {v1, v2}
=============================================================================
