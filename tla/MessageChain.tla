---------------------------- MODULE MessageChain ----------------------------
(***************************************************************************)
(* One Telegram channel as the storage provider uses it.  A text too long  *)
(* for a message is a chain: a first message, whose id is the text's, and  *)
(* parts that name it.  Every call of the provider is a sequence of calls  *)
(* to Telegram under no lock; a FLOOD_WAIT runs the whole of it once more.  *)
(***************************************************************************)
EXTENDS Naturals, FiniteSets, FiniteSetsExt, Functions, Sequences

CONSTANTS
  Requests,   \* calls of the provider in progress together
  Short,      \* texts that fit a message
  Long,       \* texts of LongParts messages
  LongParts,
  Page,       \* messages Telegram returns at once; 200 in the code
  MaxCalls,   \* bound: calls of the provider
  MaxFaults   \* bound: FLOOD_WAITs and failures

Texts == Short \cup Long
Size(text) == IF text \in Long THEN LongParts ELSE 1

\* No id, chain or message is below 1.
Gone == [kind |-> "gone", text |-> 0, index |-> 0, chain |-> 0, parent |-> 0]
Whole(text) == [Gone EXCEPT !.kind = "whole", !.text = text]
Start(text, chain) == [Gone EXCEPT !.kind = "start", !.text = text, !.chain = chain]
Part(text, i, chain, parent) ==
  [kind |-> "part", text |-> text, index |-> i, chain |-> chain, parent |-> parent]

Idle == [at |-> "idle"]
NoRows == <<>>

VARIABLES
  messages,  \* the channel: what each id has, in the order they were sent
  job,       \* each request's call and its variables
  \* The rest is not in the code, but for the names of chains.
  chains,    \* the last chainId given
  calls, faults,
  incidents

vars == <<messages, job, chains, calls, faults, incidents>>

Incidents == {
  "during",    \* a message was read while it was sent, edited or deleted
  "together",  \* two changes of one message were in progress together
  "cut",       \* a change failed after its first call that changes something
  "resent",    \* a send began again after its first message was sent
  "dropped"}   \* parts were dropped from a page as long as a page can be

Ids == 1..Len(messages)
Leads(id) == messages[id].kind \in {"whole", "start"}
Heads == {id \in Ids : Leads(id)}
Busy(q) == job[q] # Idle
Writes(q, id) == Busy(q) /\ job[q].op \in {"send", "edit", "delete"} /\ job[q].id = id
Reads(q, id) == Busy(q) /\ \/ job[q].op = "get" /\ job[q].id = id
                           \/ id \in DOMAIN job[q].heads

TypeOK ==
  /\ \A id \in Ids :
       /\ messages[id].kind \in {"gone", "whole", "start", "part"}
       /\ messages[id].text \in Texts \cup {0}
       /\ messages[id].index \in 0..(LongParts - 1)
       /\ messages[id].chain \in 0..chains /\ messages[id].parent \in 0..Len(messages)
  /\ DOMAIN job = Requests
  /\ chains \in Nat /\ calls \in 0..MaxCalls /\ faults \in 0..MaxFaults
  /\ incidents \subseteq Incidents

\* What a channel has after one text was sent.
After(text) ==
  IF Size(text) = 1 THEN <<Whole(text)>>
  ELSE [i \in 1..Size(text) |-> IF i = 1 THEN Start(text, 1) ELSE Part(text, i - 1, 1, 1)]

Init ==
  /\ messages \in {After(text) : text \in Texts} \cup {<<>>}
  /\ job = [q \in Requests |-> Idle]
  /\ chains = IF \E id \in Ids : messages[id].kind = "start" THEN 1 ELSE 0
  /\ calls = 0 /\ faults = 0
  /\ incidents = {}

When(condition, kind) == IF condition THEN {kind} ELSE {}
Mark(kinds) == incidents' = incidents \cup kinds
At(q, label) == Busy(q) /\ job[q].at = label
Put(q, j) == job' = [job EXCEPT ![q] = j]
End(q) == Put(q, Idle)

\* The newest Page ids above one and below the other, which are returned the newest first;
\* 0: no limit.
PageOf(above, below) ==
  LET ids == {id \in Ids : /\ messages[id].kind # "gone"
                           /\ id > above
                           /\ below = 0 \/ id < below}
  IN {id \in ids : Cardinality({newer \in ids : newer > id}) < Page}
Ends(page) == Cardinality(page) < Page

-----------------------------------------------------------------------------
First(op) == CASE op = "send" -> "first" [] op = "list" -> "page" [] OTHER -> "fetch"

\* id: the text's; again: after a FLOOD_WAIT, begun: which came when it had begun a change;
\* head: the message as it was fetched; index: of the next part; ids: to delete;
\* below: how far the provider's pages got, offset: the reader's; heads: chains to collect;
\* got: parts found; page, rows: texts.
Blank(op, id, text) ==
  [op |-> op, at |-> First(op), id |-> id, text |-> text, again |-> FALSE, begun |-> FALSE,
   head |-> Gone, index |-> 1, chain |-> 0, ids |-> {}, below |-> 0, offset |-> 0,
   heads |-> <<>>, from |-> 0, got |-> {}, page |-> NoRows, rows |-> NoRows, there |-> Heads]

Begin(q, op, id, text) ==
  /\ ~Busy(q)
  /\ calls < MaxCalls /\ calls' = calls + 1
  /\ Put(q, Blank(op, id, text))
  /\ Mark(When(op # "get" /\ \E r \in Requests : id # 0 /\ Writes(r, id), "together")
     \cup When(op = "get" /\ \E r \in Requests : Writes(r, id), "during")
     \cup When(op \in {"edit", "delete"} /\ \E r \in Requests : Reads(r, id), "during"))
  /\ UNCHANGED <<messages, chains, faults>>

\* Callers have the ids of texts that were sent, and may use one that is gone.
Known == {id \in Ids : messages[id].kind # "part"}
Send(q) == \E text \in Texts : Begin(q, "send", 0, text)
Edit(q) == \E id \in Known, text \in Texts : Begin(q, "edit", id, text)
Delete(q) == \E id \in Known : Begin(q, "delete", id, 0)
Get(q) == \E id \in Known : Begin(q, "get", id, 0)
List(q) == Begin(q, "list", 0, 0)

\* sendMessage: the one message, or the first of the chain.
SendFirst(q) ==
  LET text == job[q].text  long == Size(text) > 1
  IN /\ At(q, "first")
     /\ chains' = IF long THEN chains + 1 ELSE chains
     /\ messages' = Append(messages, IF long THEN Start(text, chains') ELSE Whole(text))
     /\ IF long
        THEN Put(q, [job[q] EXCEPT !.at = "parts", !.id = Len(messages'), !.chain = chains',
                                   !.index = 1])
        ELSE End(q)
     /\ UNCHANGED <<calls, faults, incidents>>

\* The parts are sent one after the other.
SendPart(q) ==
  LET j == job[q]
  IN /\ At(q, "parts")
     /\ messages' = Append(messages, Part(j.text, j.index, j.chain, j.id))
     /\ IF j.index + 1 = Size(j.text)
        THEN End(q)
        ELSE Put(q, [j EXCEPT !.index = @ + 1])
     /\ UNCHANGED <<chains, calls, faults, incidents>>

One(id, x) == [i \in {id} |-> x]
Both(f, g) == [id \in DOMAIN f \cup DOMAIN g |-> IF id \in DOMAIN f THEN f[id] ELSE g[id]]

\* What a message holds by itself.
Only(m) == {<<m.text, 0>>}

\* fetchMessageById.  A get answers with a text that is one message at once.
Fetch(q) ==
  LET j == job[q]  m == messages[j.id]
  IN /\ At(q, "fetch")
     /\ IF j.op # "get"
        THEN Put(q, [j EXCEPT !.at = "scan", !.head = m])
        ELSE CASE m.kind = "start" -> Put(q, [j EXCEPT !.at = "texts", !.heads = One(j.id, m)])
               [] m.kind = "whole" -> Put(q, [j EXCEPT !.at = "done", !.rows = One(j.id, Only(m))])
               [] OTHER -> End(q)
     /\ UNCHANGED <<messages, chains, calls, faults, incidents>>

\* deleteChainParts: the parts of the message or of the chain it starts.
Belongs(m, id, head) ==
  /\ m.kind = "part"
  /\ m.parent = id \/ (head.chain # 0 /\ m.chain = head.chain)

\* It reads page after page, and deletes what it found with one call.
Scan(q) ==
  LET j == job[q]
      page == PageOf(j.id, j.below)
      ids == j.ids \cup {id \in page : Belongs(messages[id], j.id, j.head)}
      over == Ends(page)
  IN /\ At(q, "scan")
     /\ Put(q, [j EXCEPT !.ids = ids,
                         !.below = IF over THEN 0 ELSE Min(page),
                         !.at = IF ~over THEN "scan" ELSE IF ids # {} THEN "clear" ELSE "write"])
     /\ UNCHANGED <<messages, chains, calls, faults, incidents>>

Clear(q) ==
  /\ At(q, "clear")
  /\ messages' = [id \in Ids |-> IF id \in job[q].ids THEN Gone ELSE messages[id]]
  /\ Put(q, [job[q] EXCEPT !.at = "write"])
  /\ UNCHANGED <<chains, calls, faults, incidents>>

\* No answer has to list a text deleted before it ended.
Missed(id) ==
  [r \in Requests |-> IF Busy(r) THEN [job[r] EXCEPT !.there = @ \ {id}] ELSE job[r]]

WriteDelete(q) ==
  /\ At(q, "write") /\ job[q].op = "delete"
  /\ messages' = [messages EXCEPT ![job[q].id] = Gone]
  /\ job' = [Missed(job[q].id) EXCEPT ![q] = Idle]
  /\ UNCHANGED <<chains, calls, faults, incidents>>

\* Telegram refuses to edit a message that is gone.
WriteEdit(q) ==
  LET j == job[q]  long == Size(j.text) > 1
  IN /\ At(q, "write") /\ j.op = "edit"
     /\ IF messages[j.id].kind = "gone"
        THEN End(q) /\ UNCHANGED <<messages, chains>>
        ELSE /\ chains' = IF long THEN chains + 1 ELSE chains
             /\ messages' = [messages EXCEPT ![j.id] =
                               IF long THEN Start(j.text, chains') ELSE Whole(j.text)]
             /\ IF long
                THEN Put(q, [j EXCEPT !.at = "parts", !.index = 1, !.chain = chains'])
                ELSE End(q)
     /\ UNCHANGED <<calls, faults, incidents>>

-----------------------------------------------------------------------------
(* Readers.                                                                 *)

\* getMessages: a page less its parts; the texts that are chains are collected next.
ListPage(q) ==
  LET page == PageOf(0, job[q].offset)
      heads == {id \in page : Leads(id)}
      whole == {id \in heads : messages[id].kind = "whole"}
  IN /\ At(q, "page")
     /\ Put(q, [job[q] EXCEPT !.at = "texts",
                              !.page = [id \in whole |-> Only(messages[id])],
                              !.heads = [id \in heads \ whole |-> messages[id]]])
     /\ Mark(When(~Ends(page) /\ heads # page, "dropped")
        \cup When(\E id \in heads, r \in Requests : Writes(r, id), "during"))
     /\ UNCHANGED <<messages, chains, calls, faults>>

\* reconstructChainedMessage begins, for each of the page.
NextText(q) ==
  /\ At(q, "texts")
  /\ \E id \in DOMAIN job[q].heads :
       Put(q, [job[q] EXCEPT !.at = "collect", !.from = id, !.got = Only(job[q].heads[id])])
  /\ UNCHANGED <<messages, chains, calls, faults, incidents>>

\* Mutant of OfChain: the parts that name the message.
OfMessage(m, id, head) == m.kind = "part" /\ m.parent = id

\* A part is the text's where both its chain and its message are.
OfChain(m, id, head) == m.kind = "part" /\ m.chain = head.chain /\ m.parent = id

\* Page after page until the text has all its parts; those not found are left out.
Collect(q) ==
  LET j == job[q]
      head == j.heads[j.from]
      page == PageOf(j.from, j.below)
      got == j.got \cup {<<messages[id].text, messages[id].index>> :
                           id \in {x \in page : OfChain(messages[x], j.from, head)}}
      over == Ends(page) \/ Cardinality(got) = Size(head.text)
  IN /\ At(q, "collect")
     /\ Put(q, IF over
               THEN [j EXCEPT !.at = "texts", !.below = 0, !.from = 0, !.got = {},
                              !.heads = Restrict(@, DOMAIN @ \ {j.from}),
                              !.page = Both(One(j.from, got), @)]
               ELSE [j EXCEPT !.got = got, !.below = Min(page)])
     /\ UNCHANGED <<messages, chains, calls, faults, incidents>>

\* Mutant of NextOffset: the id before it, as if Telegram returned the offset's message too.
NextOffsetBefore(page) == Min(DOMAIN page) - 1

\* offsetId: the last of the page.
NextOffset(page) == Min(DOMAIN page)

\* The page is answered.  Who lists a channel goes on where a page is as long as can be.
PageDone(q) ==
  LET j == job[q]
      over == j.op = "get" \/ Cardinality(DOMAIN j.page) < Page
  IN /\ At(q, "texts") /\ DOMAIN j.heads = {}
     /\ Put(q, [j EXCEPT !.rows = Both(@, j.page), !.page = NoRows,
                         !.at = IF over THEN "done" ELSE "page",
                         !.offset = IF over THEN 0 ELSE NextOffset(j.page)])
     /\ UNCHANGED <<messages, chains, calls, faults, incidents>>

\* The caller has its answer.
Answer(q) ==
  /\ At(q, "done")
  /\ End(q)
  /\ UNCHANGED <<messages, chains, calls, faults, incidents>>

-----------------------------------------------------------------------------
(* What goes wrong.                                                         *)

Fault == faults < MaxFaults /\ faults' = faults + 1
\* A change has begun once its parts are deleted or something is sent.
Begun(j) == \/ j.begun
            \/ j.at = "parts"
            \/ j.at = "write" /\ j.ids # {}

\* rateLimitedCall: FLOOD_WAIT runs the call once more, a page being a call of its own.
FloodWait(q) ==
  LET j == job[q]
  IN /\ Busy(q) /\ j.at # "done" /\ ~j.again
     /\ Fault
     /\ Put(q, [Blank(j.op, IF j.op = "send" THEN 0 ELSE j.id, j.text) EXCEPT
                  !.again = TRUE, !.begun = Begun(j),
                  !.offset = j.offset, !.rows = j.rows, !.there = j.there])
     /\ Mark(When(j.op = "send" /\ Begun(j), "resent"))
     /\ UNCHANGED <<messages, chains, calls>>

\* Any other error, or a second FLOOD_WAIT, or the end of the process.
Fail(q) ==
  /\ Busy(q) /\ job[q].at # "done"
  /\ Fault
  /\ End(q)
  /\ Mark(When(Begun(job[q]), "cut"))
  /\ UNCHANGED <<messages, chains, calls>>

Step(q) ==
  \/ Send(q) \/ Edit(q) \/ Delete(q) \/ Get(q) \/ List(q)
  \/ SendFirst(q) \/ SendPart(q)
  \/ Fetch(q) \/ Scan(q) \/ Clear(q) \/ WriteDelete(q) \/ WriteEdit(q)
  \/ ListPage(q) \/ NextText(q) \/ Collect(q) \/ PageDone(q) \/ Answer(q)
  \/ FloodWait(q) \/ Fail(q)

Next == \E q \in Requests : Step(q)

Spec == Init /\ [][Next]_vars

-----------------------------------------------------------------------------
Quiet == \A q \in Requests : ~Busy(q)
Clean(kinds) == incidents \cap kinds = {}
Pieces(text) == {text} \X (0..(Size(text) - 1))

\* Every first message has all the parts of its chain once nothing is in progress, however
\* the changes of one message were interleaved: an edit deletes only parts it has read before
\* it writes the message, and sends its own after it.  Not where a change was cut short.
TextsStand ==
  Quiet /\ Clean({"cut", "resent"}) =>
    \A id \in Ids : messages[id].kind = "start" =>
      {<<messages[p].text, messages[p].index>> :
         p \in {x \in Ids : OfChain(messages[x], id, messages[id])}} \cup Only(messages[id])
      = Pieces(messages[id].text)

\* No part is left over that no text has: edits and deletions take the parts with them.
NoStrayParts ==
  Quiet /\ Clean({"together"}) =>
    \A p \in Ids : messages[p].kind = "part" =>
      /\ messages[messages[p].parent].kind = "start"
      /\ messages[messages[p].parent].chain = messages[p].chain

\* What a reader is given is never of two texts: a message edited under it comes out
\* shortened.  It is whole unless the message was being changed, or a change was cut short.
ReadsAreSound ==
  \A q \in Requests : At(q, "done") =>
    \A id \in DOMAIN job[q].rows : \E text \in Texts :
      /\ job[q].rows[id] \subseteq Pieces(text)
      /\ Clean({"during", "cut", "resent"}) => job[q].rows[id] = Pieces(text)

\* A reader that lists a channel finds every text that was there from its first page to its
\* last.  It takes a page shorter than Page for the last, and the provider shortens pages.
ListingsComplete ==
  \A q \in Requests : At(q, "done") /\ job[q].op = "list" /\ Clean({"dropped"}) =>
    job[q].there \subseteq DOMAIN job[q].rows
=============================================================================
