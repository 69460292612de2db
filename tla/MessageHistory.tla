---------------------------- MODULE MessageHistory ----------------------------
(***************************************************************************)
(* The history of a conversation or of a lobby, read page by page from the *)
(* newest message to the oldest with a cursor (getMessages of dm.service   *)
(* and of lobby.service, which are the same), while messages are written.  *)
(* A message is its createdAt: no two are the same here, and one may become *)
(* visible after a later one, as its transaction may commit later.         *)
(***************************************************************************)
EXTENDS Integers, FiniteSets, SequencesExt

CONSTANTS Times,    \* the values of createdAt
          Limits,   \* the page sizes clients ask for; 0 is let through
          NoCursor

ASSUME TimesAssumption == Times \subseteq Nat /\ NoCursor \notin Times

ASSUME LimitsAssumption == Limits \subseteq Nat

VARIABLES
  messages,  \* the rows
  limit,     \* the page size of the client
  cursor,    \* what the client sends next, NoCursor for the first page
  shown,     \* the client's list, oldest first
  loaded,    \* "none", "some" or "all": how far the client has read
  atFirst    \* history: the rows there were at the first page

vars == <<messages, limit, cursor, shown, loaded, atFirst>>

TypeOK ==
  /\ messages \subseteq Times /\ atFirst \subseteq messages
  /\ limit \in Limits
  /\ cursor \in messages \cup {NoCursor}
  /\ shown \in Seq(messages)
  /\ loaded \in {"none", "some", "all"}
  /\ (loaded = "some") = (cursor # NoCursor)

Init ==
  /\ messages = {} /\ atFirst = {}
  /\ limit \in Limits
  /\ cursor = NoCursor /\ shown = << >> /\ loaded = "none"

-----------------------------------------------------------------------------
\* orderBy: createdAt desc.  The i-th row is the one with i - 1 newer ones.
NewestFirst(rows) ==
  [i \in 1..Cardinality(rows) |->
     CHOOSE m \in rows : Cardinality({n \in rows : n > m}) = i - 1]

\* Mutant: without skip: 1.
FromCursor(from, take) ==
  LET rows == {m \in messages : from = NoCursor \/ m <= from}
      sorted == NewestFirst(rows) IN
  SubSeq(sorted, 1, Min({take, Len(sorted)}))

\* findMany, newest first: from the cursor on, without the cursor's own row.
FindMany(from, take) ==
  LET rows == {m \in messages : from = NoCursor \/ m <= from}
      skip == IF from = NoCursor THEN 0 ELSE 1
      sorted == NewestFirst(rows) IN
  SubSeq(sorted, skip + 1, Min({skip + take, Len(sorted)}))

\* Mutant: take: limit, so that hasMore is never true.
PageOfLimit(from) ==
  LET found == FindMany(from, limit)
      hasMore == Len(found) > limit
      page == Reverse(IF hasMore THEN Front(found) ELSE found) IN
  [messages |-> page,
   nextCursor |-> IF hasMore /\ page # << >> THEN Head(page) ELSE NoCursor]

\* Mutant: the cursor is the number of messages of the page.
OffsetCursor(from) ==
  LET found == FindMany(from, limit + 1)
      hasMore == Len(found) > limit
      page == Reverse(IF hasMore THEN Front(found) ELSE found) IN
  [messages |-> page,
   nextCursor |-> IF hasMore /\ page # << >> THEN Len(page) ELSE NoCursor]

\* One more than the page is read, to know whether there is a next one.
GetMessages(from) ==
  LET found == FindMany(from, limit + 1)
      hasMore == Len(found) > limit
      page == Reverse(IF hasMore THEN Front(found) ELSE found) IN
  [messages |-> page,
   nextCursor |-> IF hasMore /\ page # << >> THEN Head(page) ELSE NoCursor]

\* The client asks for the next page and puts it before what it shows.
LoadPage ==
  LET reply == GetMessages(cursor) IN
  /\ loaded # "all"
  /\ shown' = reply.messages \o shown
  /\ cursor' = reply.nextCursor
  /\ loaded' = IF reply.nextCursor = NoCursor THEN "all" ELSE "some"
  /\ atFirst' = IF loaded = "none" THEN messages ELSE atFirst
  /\ UNCHANGED <<messages, limit>>

\* A message becomes visible.
CreateMessage(m) ==
  /\ m \notin messages /\ messages' = messages \cup {m}
  /\ UNCHANGED <<limit, cursor, shown, loaded, atFirst>>

Next == LoadPage \/ \E m \in Times : CreateMessage(m)

Spec == Init /\ [][Next]_vars

-----------------------------------------------------------------------------
(* Properties.                                                             *)

\* Pages join up in order and without repetition, whatever is written between
\* two of them.
PagesJoinUp ==
  \A i, j \in DOMAIN shown : i < j => shown[i] < shown[j]

\* No message that was there at the first page is passed over: those down to the
\* cursor are shown, and all of them when there is no next page.  A client that
\* asks for pages of 0 is told at once that there is no more.
NothingPassedOver ==
  loaded # "none" /\ limit > 0 =>
    \A m \in atFirst :
      (cursor = NoCursor \/ m >= cursor) => \E i \in DOMAIN shown : shown[i] = m
=============================================================================
