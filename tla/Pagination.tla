----------------------------- MODULE Pagination -----------------------------
(***************************************************************************)
(* One walk through a user's list, page by page, while other requests      *)
(* write to it.  The properties are listed by created_at, which never      *)
(* changes; the deals by updated_at, which every write sets.  Equal times  *)
(* are told apart by the id.  A page is two statements, a count and a      *)
(* list, and each sees what is committed when it runs.                     *)
(***************************************************************************)
EXTENDS Integers, FiniteSets

CONSTANTS
  Items,      \* the rows, named by their ids
  Writers,    \* requests that write, each once
  PageLimit,  \* items on a page
  MaxClock,   \* bound: the last moment of the model's clock
  None        \* no row, no cursor, no write

ASSUME PaginationAssumption ==
  /\ Items \subseteq Nat /\ IsFiniteSet(Items)
  /\ PageLimit \in 1 .. 100
  /\ MaxClock \in Nat
  /\ None \notin Int \cup [time : Int, id : Int] \cup [item : Int, time : Int]

Lists == {"properties", "deals"}

VARIABLES
  list,      \* which of the two lists is walked
  clock,     \* the time
  key,       \* [Items -> the time the row is listed by, None without a row]
  shown,     \* the rows that match the filter: not archived, or of the status asked for
  pending,   \* [Writers -> the write under way: the item and the time it took, or None]
  answered,  \* the writers whose request is over
  step,      \* the statement the walk runs next: "count" or "list"; "done" after the last page
  cursor,    \* the last row of the page before
  listed,    \* [Items -> how often the walk has listed it: not, once, 2 for oftener]
  total,     \* the total_count of the latest page
  touched,   \* since the walk began: the rows whose place or filter value changed
  overtaken  \* since the walk began: the rows given an earlier time than they had

store == <<key, shown, touched, overtaken>>
walk == <<step, cursor, listed, total>>
writes == <<pending, answered>>
vars == <<list, clock, store, writes, walk>>

TypeOK ==
  /\ list \in Lists
  /\ clock \in 0 .. MaxClock
  /\ key \in [Items -> Nat \cup {None}]
  /\ shown \subseteq Items /\ touched \subseteq Items /\ overtaken \subseteq Items
  /\ pending \in [Writers -> [item : Items, time : Nat] \cup {None}]
  /\ answered \subseteq Writers
  /\ step \in {"count", "list", "done"}
  /\ cursor \in [time : Nat, id : Items] \cup {None}
  /\ listed \in [Items -> 0 .. 2]
  /\ total \in Nat

Stored == {i \in Items : key[i] # None}
Matching == Stored \cap shown

-----------------------------------------------------------------------------
\* Writers.

Init ==
  /\ list \in Lists
  /\ clock = MaxClock \div 2
  /\ key \in [Items -> (0 .. clock) \cup {None}]
  /\ shown \in SUBSET Stored
  /\ pending = [w \in Writers |-> None] /\ answered = {}
  /\ step = "count" /\ cursor = None /\ total = 0
  /\ listed = [i \in Items |-> 0]
  /\ touched = {} /\ overtaken = {}

Tick ==
  /\ clock < MaxClock
  /\ clock' = clock + 1
  /\ UNCHANGED <<list, store, writes, walk>>

\* datetime.now() is read before the statement is sent, and the row is not
\* locked yet.
StampWrite(w, i) ==
  /\ pending[w] = None /\ w \notin answered
  /\ pending' = [pending EXCEPT ![w] = [item |-> i, time |-> clock]]
  /\ UNCHANGED <<list, clock, store, answered, walk>>

\* A write commits: a new row is listed by the time its request took, an
\* updated deal by that time too, an updated property by the time it had.
\* The write may also move the row into the filter or out of it.
CommitWrite(w) ==
  /\ pending[w] # None
  /\ LET i     == pending[w].item
         moved == IF key[i] = None \/ list = "deals" THEN pending[w].time ELSE key[i]
     IN /\ key' = [key EXCEPT ![i] = moved]
        /\ shown' \in {shown \cup {i}, shown \ {i}}
        /\ touched' = IF key' = key /\ shown' = shown THEN touched ELSE touched \cup {i}
        /\ overtaken' = IF key[i] # None /\ moved < key[i] THEN overtaken \cup {i} ELSE overtaken
  /\ pending' = [pending EXCEPT ![w] = None] /\ answered' = answered \cup {w}
  /\ UNCHANGED <<list, clock, walk>>

\* A write that fails leaves nothing behind.
AbortWrite(w) ==
  /\ pending[w] # None
  /\ pending' = [pending EXCEPT ![w] = None] /\ answered' = answered \cup {w}
  /\ UNCHANGED <<list, clock, store, walk>>

-----------------------------------------------------------------------------
\* The walk.

CursorAt(i) == [time |-> key[i], id |-> i]

\* ORDER BY time DESC, id DESC: what comes later in the list.
Later(d, c) == d.time < c.time \/ (d.time = c.time /\ d.id < c.id)

\* Mutant: rows of the cursor's own time are left out.
AfterCursor_by_time(i, c) == key[i] < c.time

\* The WHERE clause of the next page.
AfterCursor(i, c) == key[i] < c.time \/ (key[i] = c.time /\ i < c.id)

CountRows ==
  /\ step = "count"
  /\ total' = Cardinality(Matching)
  /\ step' = "list"
  /\ UNCHANGED <<list, clock, store, writes, cursor, listed>>

\* What the list statement selects before its LIMIT.
Remaining == {i \in Matching : cursor = None \/ AfterCursor(i, cursor)}

\* The first PageLimit of the rows, in the order of the list.
IsPage(page, rows) ==
  /\ page \subseteq rows
  /\ Cardinality(page) <= PageLimit
  /\ rows # page => Cardinality(page) = PageLimit
  /\ \A i \in page, j \in rows \ page : Later(CursorAt(j), CursorAt(i))

\* Mutant: the next page starts over.
CursorAfter_none(page) == None

\* The last row of the page.
CursorAfter(page) == CHOOSE c \in {CursorAt(i) : i \in page} :
  \A j \in page : ~ Later(CursorAt(j), c)

ListRows ==
  /\ step = "list"
  /\ \E page \in SUBSET Remaining :
       /\ IsPage(page, Remaining)
       /\ listed' = [i \in Items |-> IF i \in page /\ listed[i] < 2 THEN listed[i] + 1
                                                                ELSE listed[i]]
       /\ IF Remaining # page
          THEN step' = "count" /\ cursor' = CursorAfter(page)
          ELSE step' = "done" /\ UNCHANGED cursor
  /\ UNCHANGED <<list, clock, store, writes, total>>

Next ==
  \/ Tick
  \/ \E w \in Writers, i \in Items : StampWrite(w, i)
  \/ \E w \in Writers : CommitWrite(w) \/ AbortWrite(w)
  \/ CountRows
  \/ ListRows

\* The client asks for the next page as long as there is one.
Fairness == WF_vars(CountRows) /\ WF_vars(ListRows)

Spec == Init /\ [][Next]_vars /\ Fairness

-----------------------------------------------------------------------------
\* What paging promises while others write.  A row that keeps its place and its
\* filter value is listed, and every row is listed once, except one whose time
\* was set back by a write that had taken its time before another's.  If no row
\* was touched, the count that came with the last page is what was listed.
ListedOnce ==
  /\ step = "done" => \A i \in Matching \ touched : listed[i] = 1
  /\ \A i \in Items \ overtaken : listed[i] <= 1
  /\ step = "done" /\ touched = {} => total = Cardinality({i \in Items : listed[i] = 1})

\* The walk comes to a last page, however much is written meanwhile.
WalkEnds == <>(step = "done")
=============================================================================
