------------------------------ MODULE RowStore ------------------------------
(***************************************************************************)
(* One table of one project as the query engine sees it: the messages of   *)
(* the table's Telegram channel (one message per row) and the SQLite index *)
(* of its unique column.  The table has an indexed `id` column besides, so *)
(* the list of index entries of a row is never empty.                      *)
(* Every operator below is one awaited call: the steps between which other *)
(* requests of the API run.                                                *)
(***************************************************************************)
EXTENDS Naturals, FiniteSets, Sequences

CONSTANTS
  Keys,                 \* values of the unique, indexed column
  NoKey,                \* the column is null: neither checked nor indexed
  Vals,                 \* values of the other column
  NoRow,                \* no message under this id
  MaxMsg,               \* bound: message ids are 1..MaxMsg
  KeyIndexed,           \* the unique column is listed in schema.indexes
  MissingDeleteThrows   \* deleting a missing message throws (MockStorageProvider)
                        \* or is ignored (TelegramStorageProvider)

Msgs == 1..MaxMsg
Row  == [key : Keys \cup {NoKey}, val : Vals]
Item == [msg : 0..MaxMsg, row : Row]    \* a row with its _msgId, 0 before it is sent

ASSUME RowStoreAssumption ==
  /\ MaxMsg \in Nat
  /\ NoKey \notin Keys
  /\ NoRow \notin Row
  /\ KeyIndexed \in BOOLEAN
  /\ MissingDeleteThrows \in BOOLEAN

VARIABLES
  channel,   \* the row each message holds
  nextMsg,   \* the id Telegram gives to the next message
  index      \* field_index: the key each message is filed under

store == <<channel, nextMsg, index>>

StoreTypeOK ==
  /\ channel \in [Msgs -> Row \cup {NoRow}]
  /\ nextMsg \in 1..(MaxMsg + 1)
  /\ index \in [Msgs -> Keys \cup {NoKey}]

Live == {m \in Msgs : channel[m] # NoRow}
Contents == {channel[m] : m \in Live}
ItemOf(m) == [msg |-> m, row |-> channel[m]]

\* Rows are handled in the order of their message ids.
First(items) == CHOOSE i \in items : \A j \in items : i.msg <= j.msg

-----------------------------------------------------------------------------
(* Reads.                                                                   *)

\* select with an `eq` filter.  Through the index the filter is not applied
\* again to the fetched messages: what counts is the entry, not the row.
SelectKey(k) ==
  {m \in Live : IF KeyIndexed THEN index[m] = k ELSE channel[m].key = k}

\* Mutant of Conflicts: only inserts are checked.
ConflictsOfInserts(row, current) ==
  /\ current = 0
  /\ row.key # NoKey
  /\ SelectKey(row.key) # {}

\* ensureUniqueConstraints for a row about to be stored as message `current`
\* (0 for an insert).
Conflicts(row, current) ==
  /\ row.key # NoKey
  /\ SelectKey(row.key) \ {current} # {}

-----------------------------------------------------------------------------
(* Writes of the storage provider: each is one Telegram call.               *)

SendMessage(row) ==
  /\ nextMsg \in Msgs
  /\ channel' = [channel EXCEPT ![nextMsg] = row]
  /\ nextMsg' = nextMsg + 1
  /\ UNCHANGED index

EditMessage(m, row) ==
  /\ m \in Live
  /\ channel' = [channel EXCEPT ![m] = row]
  /\ UNCHANGED <<nextMsg, index>>

DeleteMessage(m) ==
  /\ m \in Msgs
  /\ channel' = [channel EXCEPT ![m] = NoRow]
  /\ UNCHANGED <<nextMsg, index>>

\* The call throws because the message is gone.
MissingMessage(kind, m) ==
  /\ m \notin Live
  /\ \/ kind = "replace"
     \/ kind = "delete" /\ MissingDeleteThrows

-----------------------------------------------------------------------------
(* The two index calls, each one SQLite transaction.                        *)

IndexEntry(row) == IF KeyIndexed THEN row.key ELSE NoKey

\* Mutant of RemoveIndex: the entries of a deleted row stay.
RemoveIndexNot(m)   == m \in Msgs /\ UNCHANGED index

UpdateIndex(m, row) == index' = [index EXCEPT ![m] = IndexEntry(row)]
RemoveIndex(m)      == index' = [index EXCEPT ![m] = NoKey]

-----------------------------------------------------------------------------
(* A table earlier requests have written: keys unique, index in step.       *)

DistinctKeys(rows) ==
  \A m, n \in DOMAIN rows :
    m # n => rows[m].key # rows[n].key \/ rows[m].key = NoKey

StoreInit(rows) ==
  /\ nextMsg = Len(rows) + 1
  /\ channel = [m \in Msgs |-> IF m <= Len(rows) THEN rows[m] ELSE NoRow]
  /\ index = [m \in Msgs |-> IF m <= Len(rows) THEN IndexEntry(rows[m]) ELSE NoKey]
=============================================================================
