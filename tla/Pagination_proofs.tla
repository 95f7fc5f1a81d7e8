-------------------------- MODULE Pagination_proofs -------------------------
(***************************************************************************)
(* Theorems about Pagination for any rows, writers, page size and clock.   *)
(***************************************************************************)
EXTENDS Pagination, FiniteSetTheorems, WellFoundedInduction, TLAPS

-----------------------------------------------------------------------------
(* A page that is not the last has a last row.                             *)

Smaller == {p \in Nat \X Nat : p[1] < p[2]}

\* A set of numbers has a least one.
LEMMA LeastNumber ==
  ASSUME NEW T, T \subseteq Nat, T # {}
  PROVE  \E m \in T : \A k \in T : m <= k
<1>1. OpToRel(<, Nat) = Smaller
  BY DEF OpToRel, Smaller
<1>2. IsWellFoundedOn(Smaller, Nat)
  BY <1>1, NatLessThanWellFounded
<1>3. PICK m \in T : \A k \in T : ~ (<<k, m>> \in Smaller)
  BY <1>2, WFMin
<1>4. ASSUME NEW k \in T PROVE m <= k
  <2>1. m \in Nat /\ k \in Nat /\ ~ (k < m)
    BY <1>3 DEF Smaller
  <2> QED BY <2>1
<1> QED BY <1>4

\* Among rows, one has the earliest time and, of those, the smallest id.
LEMMA LastRow ==
  ASSUME TypeOK, NEW page \in SUBSET Stored, page # {}
  PROVE  \E c \in {CursorAt(i) : i \in page} : \A j \in page : ~ Later(CursorAt(j), c)
<1> DEFINE times == {key[i] : i \in page}
<1>1. \A i \in page : i \in Nat /\ key[i] \in Nat
  BY PaginationAssumption DEF TypeOK, Stored
<1>2. times \subseteq Nat /\ times # {}
  BY <1>1
<1>3. PICK t \in times : \A k \in times : t <= k
  <2> HIDE DEF times
  <2> QED BY <1>2, LeastNumber
<1> DEFINE ids == {i \in page : key[i] = t}
<1>4. ids \subseteq Nat /\ ids # {}
  BY <1>1, <1>3
<1>5. PICK m \in ids : \A k \in ids : m <= k
  <2> HIDE DEF ids
  <2> QED BY <1>4, LeastNumber
<1>6. ASSUME NEW j \in page PROVE ~ Later(CursorAt(j), CursorAt(m))
  <2>1. t <= key[j] /\ key[j] \in Nat /\ t \in Nat /\ key[m] = t /\ j \in Nat /\ m \in Nat
    BY <1>1, <1>3, <1>5
  <2>2. key[j] = t => m <= j
    BY <1>5
  <2> QED BY <2>1, <2>2 DEF Later, CursorAt
<1> QED BY <1>5, <1>6

\* What the cursor of a page is: the time and id of a row of it, with no row of
\* the page after.
LEMMA CursorIsLast ==
  ASSUME TypeOK, NEW page \in SUBSET Stored, page # {}
  PROVE  \E m \in page : /\ CursorAfter(page) = CursorAt(m)
                         /\ \A j \in page : ~ Later(CursorAt(j), CursorAt(m))
<1> DEFINE last(c) == \A j \in page : ~ Later(CursorAt(j), c)
<1>1. \E c \in {CursorAt(i) : i \in page} : last(c)
  BY LastRow
<1>2. CursorAfter(page) = CHOOSE c \in {CursorAt(i) : i \in page} : last(c)
  BY DEF CursorAfter
<1>3. CursorAfter(page) \in {CursorAt(i) : i \in page} /\ last(CursorAfter(page))
  <2> HIDE DEF last
  <2> QED BY <1>1, <1>2
<1> QED BY <1>3

-----------------------------------------------------------------------------
(* Types                                                                   *)

LEMMA InitType == Init => TypeOK
<1> SUFFICES ASSUME Init PROVE TypeOK
  OBVIOUS
<1>1. clock \in 0 .. MaxClock
  BY PaginationAssumption DEF Init
<1>2. key \in [Items -> Nat \cup {None}]
  BY <1>1 DEF Init
<1> QED BY <1>1, <1>2 DEF Init, TypeOK, Stored

\* Nothing a page's rows can be spoils the cursor.
LEMMA ListRowsCursor ==
  ASSUME TypeOK, ListRows
  PROVE  \E page \in SUBSET Remaining :
           /\ IsPage(page, Remaining)
           /\ listed' = [i \in Items |-> IF i \in page /\ listed[i] < 2 THEN listed[i] + 1
                                                                ELSE listed[i]]
           /\ \/ step' = "done" /\ Remaining = page /\ cursor' = cursor
              \/ /\ step' = "count" /\ Remaining # page
                 /\ \E m \in page : /\ cursor' = CursorAt(m)
                                    /\ \A j \in page : ~ Later(CursorAt(j), CursorAt(m))
<1>1. PICK page \in SUBSET Remaining :
        /\ IsPage(page, Remaining)
        /\ listed' = [i \in Items |-> IF i \in page /\ listed[i] < 2 THEN listed[i] + 1
                                                                ELSE listed[i]]
        /\ IF Remaining # page
           THEN step' = "count" /\ cursor' = CursorAfter(page)
           ELSE step' = "done" /\ UNCHANGED cursor
  BY DEF ListRows
<1>2. page \subseteq Stored
  BY <1>1 DEF Remaining, Matching
<1>3. CASE Remaining = page
  BY <1>1, <1>3
<1>4. CASE Remaining # page
  <2>1. Cardinality(page) = PageLimit
    BY <1>1, <1>4 DEF IsPage
  <2>2. page # {}
    BY <2>1, FS_EmptySet, PaginationAssumption
  <2>3. \E m \in page : /\ CursorAfter(page) = CursorAt(m)
                        /\ \A j \in page : ~ Later(CursorAt(j), CursorAt(m))
    BY <1>2, <2>2, CursorIsLast
  <2> QED BY <1>1, <1>4, <2>3
<1> QED BY <1>3, <1>4, <1>1

LEMMA NextType == TypeOK /\ [Next]_vars => TypeOK'
<1> SUFFICES ASSUME TypeOK, [Next]_vars PROVE TypeOK'
  OBVIOUS
<1> USE DEF TypeOK
<1>1. CASE Tick
  BY <1>1, PaginationAssumption DEF Tick, store, writes, walk
<1>2. CASE \E w \in Writers, i \in Items : StampWrite(w, i)
  BY <1>2 DEF StampWrite, store, walk
<1>3. ASSUME NEW w \in Writers, CommitWrite(w) PROVE TypeOK'
  <2>1. pending[w] \in [item : Items, time : Nat]
    BY <1>3 DEF CommitWrite
  <2>2. key' \in [Items -> Nat \cup {None}]
    <3>1. PICK moved : /\ key' = [key EXCEPT ![pending[w].item] = moved]
                       /\ moved \in {pending[w].time, key[pending[w].item]}
      BY <1>3 DEF CommitWrite
    <3> QED BY <2>1, <3>1
  <2>3. shown' \subseteq Items /\ touched' \subseteq Items /\ overtaken' \subseteq Items
    BY <1>3, <2>1 DEF CommitWrite
  <2>4. /\ pending' \in [Writers -> [item : Items, time : Nat] \cup {None}]
        /\ answered' \subseteq Writers
    BY <1>3 DEF CommitWrite
  <2> QED BY <1>3, <2>2, <2>3, <2>4 DEF CommitWrite, walk
<1>4. CASE \E w \in Writers : AbortWrite(w)
  BY <1>4 DEF AbortWrite, store, walk
<1>5. CASE CountRows
  <2>1. Matching \subseteq Items
    BY DEF Matching, Stored
  <2>2. IsFiniteSet(Matching)
    BY <2>1, FS_Subset, PaginationAssumption
  <2>3. Cardinality(Matching) \in Nat
    BY <2>2, FS_CardinalityType
  <2> QED BY <1>5, <2>3 DEF CountRows, store, writes
<1>6. CASE ListRows
  <2>1. PICK page \in SUBSET Remaining :
           /\ listed' = [i \in Items |-> IF i \in page /\ listed[i] < 2 THEN listed[i] + 1
                                                                ELSE listed[i]]
           /\ \/ step' = "done" /\ cursor' = cursor
              \/ step' = "count" /\ \E m \in page : cursor' = CursorAt(m)
    BY <1>6, ListRowsCursor
  <2>2. \A m \in page : m \in Items /\ key[m] \in Nat
    BY <2>1 DEF Remaining, Matching, Stored
  <2>3. cursor' \in [time : Nat, id : Items] \cup {None}
    BY <2>1, <2>2 DEF CursorAt
  <2>4. listed' \in [Items -> 0 .. 2]
    BY <2>1
  <2> QED BY <1>6, <2>1, <2>3, <2>4 DEF ListRows, store, writes
<1>7. CASE UNCHANGED vars
  BY <1>7 DEF vars, store, writes, walk
<1> QED BY <1>1, <1>2, <1>3, <1>4, <1>5, <1>6, <1>7 DEF Next

\* The walk's memory and the rows keep their types, for any rows and clock.
THEOREM TypeCorrect == Spec => []TypeOK
<1>1. Init => TypeOK
  BY InitType
<1>2. TypeOK /\ [Next]_vars => TypeOK'
  BY NextType
<1> QED BY <1>1, <1>2, PTL DEF Spec

-----------------------------------------------------------------------------
(* ListedOnce                                                              *)

\* Row i comes after the cursor's place, for a time t and cursor c.
After(t, i, c) == t < c.time \/ (t = c.time /\ i < c.id)

\* A row listed before, and not set back, is not after the cursor: the rest of
\* the walk passes it by.
NotAgain ==
  \A i \in Items \ overtaken :
    listed[i] # 0 =>
      /\ listed[i] = 1
      /\ key[i] # None
      /\ step # "done" => cursor # None /\ ~ After(key[i], i, cursor)

\* A row that matches and was not touched has been listed or is ahead.
StillAhead ==
  \A i \in Items \ touched :
    i \in shown /\ key[i] # None /\ listed[i] = 0 =>
      step # "done" /\ (cursor # None => After(key[i], i, cursor))

\* What was listed and not touched still matches.
StillMatches == \A i \in Items \ touched : listed[i] # 0 => i \in shown /\ key[i] # None

\* Without a touched row the count is up to date.
CountHolds == touched = {} /\ step # "count" => total = Cardinality(Matching)

WalkInv == TypeOK /\ overtaken \subseteq touched /\ NotAgain /\ StillAhead /\ StillMatches /\ CountHolds

LEMMA InitWalk == Init => WalkInv
<1> SUFFICES ASSUME Init PROVE WalkInv
  OBVIOUS
<1> QED BY InitType DEF Init, WalkInv, NotAgain, StillAhead, StillMatches, CountHolds

\* A commit: what it does to the row and to the sets that remember it.
LEMMA CommitEffect ==
  ASSUME TypeOK, NEW w \in Writers, CommitWrite(w)
  PROVE  \E i \in Items :
           /\ \A j \in Items : j # i => key'[j] = key[j] /\ (j \in shown' <=> j \in shown)
           /\ key[i] # None => key'[i] # None
           /\ i \notin touched' => key'[i] = key[i] /\ (i \in shown' <=> i \in shown)
           /\ i \notin overtaken' /\ key[i] # None => key[i] <= key'[i]
           /\ touched \subseteq touched' /\ overtaken \subseteq overtaken'
           /\ touched' \subseteq touched \cup {i} /\ overtaken' \subseteq overtaken \cup {i}
           /\ i \in overtaken' /\ i \notin overtaken => i \in touched'
<1> DEFINE i == pending[w].item
           moved == IF key[i] = None \/ list = "deals" THEN pending[w].time ELSE key[i]
<1>1. i \in Items /\ pending[w].time \in Nat
  BY DEF CommitWrite, TypeOK
<1>2. /\ key' = [key EXCEPT ![i] = moved]
      /\ shown' \in {shown \cup {i}, shown \ {i}}
      /\ touched' = IF key' = key /\ shown' = shown THEN touched ELSE touched \cup {i}
      /\ overtaken' = IF key[i] # None /\ moved < key[i] THEN overtaken \cup {i} ELSE overtaken
  BY DEF CommitWrite
<1>3. moved \in Nat /\ key[i] \in Nat \cup {None} /\ moved # None
  <2>1. key[i] \in Nat \cup {None}
    BY <1>1 DEF TypeOK
  <2>2. moved \in Nat
    BY <1>1, <2>1
  <2>3. None \notin Nat
    BY PaginationAssumption
  <2> HIDE DEF moved
  <2> QED BY <2>1, <2>2, <2>3
<1>4. key'[i] = moved /\ \A j \in Items : j # i => key'[j] = key[j]
  BY <1>1, <1>2 DEF TypeOK
<1>5. \A j \in Items : j # i => (j \in shown' <=> j \in shown)
  BY <1>2
<1>6. i \notin touched' => key' = key /\ shown' = shown
  BY <1>2
<1>7. i \notin overtaken' /\ key[i] # None => key[i] <= moved
  BY <1>2, <1>3
<1>8. i \in overtaken' /\ i \notin overtaken => i \in touched'
  <2> SUFFICES ASSUME i \in overtaken', i \notin overtaken PROVE i \in touched'
    OBVIOUS
  <2>1. key[i] # None /\ moved < key[i]
    BY <1>2
  <2>2. key'[i] # key[i]
    BY <2>1, <1>3, <1>4
  <2> QED BY <2>2, <1>2
<1>9. /\ touched \subseteq touched' /\ overtaken \subseteq overtaken'
      /\ touched' \subseteq touched \cup {i} /\ overtaken' \subseteq overtaken \cup {i}
  BY <1>2
<1> HIDE DEF i, moved
<1> QED BY <1>1, <1>3, <1>4, <1>5, <1>6, <1>7, <1>8, <1>9

LEMMA CommitWalk ==
  ASSUME WalkInv, NEW w \in Writers, CommitWrite(w), TypeOK'
  PROVE  WalkInv'
<1> USE DEF WalkInv
<1>1. PICK i \in Items :
        /\ \A j \in Items : j # i => key'[j] = key[j] /\ (j \in shown' <=> j \in shown)
        /\ key[i] # None => key'[i] # None
        /\ i \notin touched' => key'[i] = key[i] /\ (i \in shown' <=> i \in shown)
        /\ i \notin overtaken' /\ key[i] # None => key[i] <= key'[i]
        /\ touched \subseteq touched' /\ overtaken \subseteq overtaken'
        /\ touched' \subseteq touched \cup {i} /\ overtaken' \subseteq overtaken \cup {i}
        /\ i \in overtaken' /\ i \notin overtaken => i \in touched'
  BY CommitEffect
<1>2. /\ step' = step /\ cursor' = cursor /\ listed' = listed /\ total' = total
  BY DEF CommitWrite, walk
<1>3. (overtaken \subseteq touched)'
  BY <1>1
<1>4. NotAgain'
  <2> SUFFICES ASSUME NEW j \in Items \ overtaken', listed[j] # 0
               PROVE  /\ listed[j] = 1
                      /\ key'[j] # None
                      /\ step # "done" => cursor # None /\ ~ After(key'[j], j, cursor)
    BY <1>2 DEF NotAgain
  <2>1. /\ listed[j] = 1
        /\ key[j] # None
        /\ step # "done" => cursor # None /\ ~ After(key[j], j, cursor)
    BY <1>1 DEF NotAgain
  <2>2. key'[j] # None /\ key[j] <= key'[j]
    <3>1. CASE j = i
      BY <3>1, <1>1, <2>1
    <3>2. CASE j # i
      <4>1. key'[j] = key[j] /\ key[j] \in Nat
        BY <3>2, <1>1, <2>1 DEF TypeOK
      <4> QED BY <4>1, <2>1
    <3> QED BY <3>1, <3>2
  <2>3. /\ key[j] \in Nat /\ key'[j] \in Nat /\ j \in Nat
        /\ cursor # None => cursor.time \in Nat /\ cursor.id \in Nat
    BY <2>1, <2>2, PaginationAssumption DEF TypeOK
  <2> QED BY <2>1, <2>2, <2>3 DEF After
<1>5. ASSUME NEW j \in Items \ touched'
      PROVE  j \notin touched /\ key'[j] = key[j] /\ (j \in shown' <=> j \in shown)
  BY <1>1
<1>6. StillAhead'
  BY <1>2, <1>5 DEF StillAhead, After
<1>7. StillMatches'
  BY <1>2, <1>5 DEF StillMatches
<1>8. CountHolds'
  <2> SUFFICES ASSUME touched' = {}, step # "count" PROVE total = Cardinality(Matching')
    BY <1>2 DEF CountHolds
  <2>1. \A j \in Items : key'[j] = key[j] /\ (j \in shown' <=> j \in shown)
    BY <1>5
  <2>2. Matching' = Matching
    BY <2>1 DEF Matching, Stored
  <2>3. touched = {}
    BY <1>1
  <2> QED BY <2>2, <2>3 DEF CountHolds
<1> QED BY <1>3, <1>4, <1>6, <1>7, <1>8

LEMMA ListRowsWalk ==
  ASSUME WalkInv, ListRows, TypeOK'
  PROVE  WalkInv'
<1> USE DEF WalkInv
<1>1. PICK page \in SUBSET Remaining :
        /\ IsPage(page, Remaining)
        /\ listed' = [i \in Items |-> IF i \in page /\ listed[i] < 2 THEN listed[i] + 1
                                                             ELSE listed[i]]
        /\ \/ step' = "done" /\ Remaining = page /\ cursor' = cursor
           \/ /\ step' = "count" /\ Remaining # page
              /\ \E m \in page : /\ cursor' = CursorAt(m)
                                 /\ \A j \in page : ~ Later(CursorAt(j), CursorAt(m))
  BY ListRowsCursor
<1>2. step = "list" /\ UNCHANGED <<key, shown, touched, overtaken, total>>
  BY DEF ListRows, store
<1>3. \A i \in Remaining : /\ i \in Items /\ i \in shown /\ key[i] \in Nat
                           /\ cursor # None => After(key[i], i, cursor)
  BY DEF Remaining, Matching, Stored, AfterCursor, After, TypeOK
<1>4. \A i \in Items : listed'[i] = IF i \in page /\ listed[i] < 2 THEN listed[i] + 1
                                                                ELSE listed[i]
  BY <1>1
<1>5. \A i \in Items : i \in Nat /\ listed[i] \in 0 .. 2 /\ key[i] \in Nat \cup {None}
  BY PaginationAssumption DEF TypeOK
<1>6. NotAgain'
  <2> SUFFICES ASSUME NEW i \in Items, i \notin overtaken, listed'[i] # 0
               PROVE  /\ listed'[i] = 1
                      /\ key[i] # None
                      /\ step' # "done" => cursor' # None /\ ~ After(key[i], i, cursor')
    BY <1>2 DEF NotAgain
  <2>1. /\ listed'[i] = 1 /\ key[i] \in Nat
        /\ i \notin page => cursor # None /\ ~ After(key[i], i, cursor)
    <3>1. CASE i \in page
      <4>1. key[i] \in Nat /\ (cursor # None => After(key[i], i, cursor))
        BY <3>1, <1>3
      <4>2. listed[i] = 0
        BY <4>1, <1>2 DEF NotAgain
      <4> QED BY <3>1, <4>1, <4>2, <1>4
    <3>2. CASE i \notin page
      <4>1. listed'[i] = listed[i]
        BY <3>2, <1>4
      <4> QED BY <3>2, <4>1, <1>2, <1>5 DEF NotAgain
    <3> QED BY <3>1, <3>2
  <2>2. ASSUME step' # "done" PROVE cursor' # None /\ ~ After(key[i], i, cursor')
    <3>1. PICK m \in page : /\ cursor' = CursorAt(m)
                            /\ \A j \in page : ~ Later(CursorAt(j), CursorAt(m))
      BY <1>1, <2>2
    <3>2. m \in Nat /\ key[m] \in Nat /\ (cursor # None => After(key[m], m, cursor))
      BY <1>3, <1>5
    <3>3. cursor' = [time |-> key[m], id |-> m]
      BY <3>1 DEF CursorAt
    <3>4. cursor' # None
      BY <3>2, <3>3, PaginationAssumption
    <3>5. cursor # None => cursor.time \in Nat /\ cursor.id \in Nat
      BY PaginationAssumption DEF TypeOK
    <3>6. CASE i \in page
      <4>1. ~ Later(CursorAt(i), CursorAt(m))
        BY <3>1, <3>6
      <4> QED BY <4>1, <3>3, <3>4 DEF Later, CursorAt, After
    <3>7. CASE i \notin page
      <4>1. /\ cursor # None /\ ~ After(key[i], i, cursor)
            /\ After(key[m], m, cursor)
        BY <2>1, <3>2, <3>7
      <4>2. i \in Nat /\ key[i] \in Nat
        BY <1>5, <2>1
      <4>3. ~ After(key[i], i, [time |-> key[m], id |-> m])
        BY <4>1, <4>2, <3>2, <3>5 DEF After
      <4> QED BY <4>3, <3>3, <3>4
    <3> QED BY <3>6, <3>7
  <2> QED BY <2>1, <2>2, PaginationAssumption
<1>7. StillAhead'
  <2> SUFFICES ASSUME NEW i \in Items, i \notin touched,
                      i \in shown, key[i] # None, listed'[i] = 0
               PROVE  step' # "done" /\ (cursor' # None => After(key[i], i, cursor'))
    BY <1>2 DEF StillAhead
  <2>1. i \notin page /\ listed[i] = 0
    BY <1>4, <1>5
  <2>2. cursor # None => After(key[i], i, cursor)
    BY <2>1, <1>2 DEF StillAhead
  <2>3. i \in Remaining
    BY <2>2 DEF Remaining, Matching, Stored, AfterCursor, After
  <2>4. PICK m \in page : step' = "count" /\ cursor' = CursorAt(m)
    BY <1>1, <2>1, <2>3
  <2>5. Later(CursorAt(i), CursorAt(m))
    BY <1>1, <2>1, <2>3, <2>4 DEF IsPage
  <2> QED BY <2>4, <2>5 DEF Later, CursorAt, After
<1>8. StillMatches'
  <2> SUFFICES ASSUME NEW i \in Items, i \notin touched, listed'[i] # 0
               PROVE  i \in shown /\ key[i] # None
    BY <1>2 DEF StillMatches
  <2>1. CASE i \in page
    BY <2>1, <1>3, PaginationAssumption
  <2>2. CASE i \notin page
    BY <2>2, <1>4 DEF StillMatches
  <2> QED BY <2>1, <2>2
<1>9. CountHolds'
  <2>1. Matching' = Matching
    BY <1>2 DEF Matching, Stored
  <2> QED BY <2>1, <1>2 DEF CountHolds
<1> QED BY <1>2, <1>6, <1>7, <1>8, <1>9

LEMMA NextWalk == WalkInv /\ [Next]_vars => WalkInv'
<1> SUFFICES ASSUME WalkInv, [Next]_vars PROVE WalkInv'
  OBVIOUS
<1>1. TypeOK'
  BY NextType DEF WalkInv
<1>2. ASSUME UNCHANGED <<key, shown, touched, overtaken, step, cursor, listed, total>>
      PROVE  WalkInv'
  <2>1. Matching' = Matching
    BY <1>2 DEF Matching, Stored
  <2> QED BY <1>1, <1>2, <2>1
    DEF WalkInv, NotAgain, StillAhead, StillMatches, CountHolds, After
<1>3. CASE Tick
  BY <1>2, <1>3 DEF Tick, store, walk
<1>4. CASE \E w \in Writers, i \in Items : StampWrite(w, i)
  BY <1>2, <1>4 DEF StampWrite, store, walk
<1>5. ASSUME NEW w \in Writers, CommitWrite(w) PROVE WalkInv'
  BY <1>1, <1>5, CommitWalk
<1>6. CASE \E w \in Writers : AbortWrite(w)
  BY <1>2, <1>6 DEF AbortWrite, store, walk
<1>7. CASE CountRows
  <2>1. /\ step = "count" /\ step' = "list" /\ total' = Cardinality(Matching)
        /\ UNCHANGED <<key, shown, touched, overtaken, cursor, listed>>
    BY <1>7 DEF CountRows, store
  <2>2. Matching' = Matching
    BY <2>1 DEF Matching, Stored
  <2> QED BY <1>1, <2>1, <2>2
    DEF WalkInv, NotAgain, StillAhead, StillMatches, CountHolds, After
<1>8. CASE ListRows
  BY <1>1, <1>8, ListRowsWalk
<1>9. CASE UNCHANGED vars
  BY <1>2, <1>9 DEF vars, store, walk
<1> QED BY <1>3, <1>4, <1>5, <1>6, <1>7, <1>8, <1>9 DEF Next

LEMMA WalkIsListedOnce == WalkInv => ListedOnce
<1> SUFFICES ASSUME WalkInv PROVE ListedOnce
  OBVIOUS
<1> USE DEF WalkInv
<1>1. \A i \in Items : listed[i] \in 0 .. 2
  BY DEF TypeOK
<1>2. \A i \in Items \ overtaken : listed[i] <= 1
  BY <1>1 DEF NotAgain
<1>3. ASSUME step = "done", NEW i \in Matching \ touched PROVE listed[i] = 1
  <2>1. i \in Items /\ i \in shown /\ key[i] # None /\ i \notin overtaken
    BY DEF Matching, Stored
  <2>2. listed[i] # 0
    BY <1>3, <2>1 DEF StillAhead
  <2> QED BY <2>1, <2>2 DEF NotAgain
<1>4. ASSUME step = "done", touched = {}
      PROVE  total = Cardinality({i \in Items : listed[i] = 1})
  <2>1. \A i \in Items : i \in Matching <=> listed[i] = 1
    <3>1. \A i \in Items : i \in Matching => listed[i] = 1
      BY <1>3, <1>4
    <3>2. \A i \in Items : listed[i] = 1 => i \in Matching
      BY <1>4 DEF StillMatches, Matching, Stored
    <3> QED BY <3>1, <3>2
  <2>2. Matching = {i \in Items : listed[i] = 1}
    BY <2>1 DEF Matching, Stored
  <2> QED BY <1>4, <2>2 DEF CountHolds
<1> QED BY <1>2, <1>3, <1>4 DEF ListedOnce

\* A walk lists every row that keeps its place and its filter value, and no row
\* twice unless a write set its time back.
THEOREM WalksListOnce == Spec => []ListedOnce
<1>1. Init => WalkInv
  BY InitWalk
<1>2. WalkInv /\ [Next]_vars => WalkInv'
  BY NextWalk
<1>3. WalkInv => ListedOnce
  BY WalkIsListedOnce
<1> QED BY <1>1, <1>2, <1>3, PTL DEF Spec

-----------------------------------------------------------------------------
(* Progress                                                                *)

\* Why a walk cannot go round: each page ends the walk or puts the cursor
\* strictly further down the list, by time and then by id, whatever the writes
\* do to the rows; and nothing but a page moves the cursor.
THEOREM CursorDescends ==
  Spec => [][/\ ListRows => \/ step' = "done"
                            \/ /\ step' = "count" /\ cursor' # None
                               /\ cursor = None \/ Later(cursor', cursor)
             /\ ~ ListRows => cursor' = cursor]_vars
<1>1. ASSUME TypeOK, ListRows
      PROVE  \/ step' = "done"
             \/ /\ step' = "count" /\ cursor' # None
                /\ cursor = None \/ Later(cursor', cursor)
  <2>1. PICK page \in SUBSET Remaining :
          \/ step' = "done"
          \/ step' = "count" /\ \E m \in page : cursor' = CursorAt(m)
    BY <1>1, ListRowsCursor
  <2>2. ASSUME step' = "count", NEW m \in page, cursor' = CursorAt(m)
        PROVE  cursor' # None /\ (cursor = None \/ Later(cursor', cursor))
    <3>1. /\ m \in Items /\ key[m] \in Nat
          /\ cursor = None \/ AfterCursor(m, cursor)
      BY <1>1, <2>2 DEF Remaining, Matching, Stored, TypeOK
    <3>2. cursor' \in [time : Int, id : Int]
      BY <2>2, <3>1, PaginationAssumption DEF CursorAt
    <3>3. cursor' # None
      BY <3>2, PaginationAssumption
    <3> QED BY <2>2, <3>1, <3>3 DEF AfterCursor, Later, CursorAt
  <2> QED BY <2>1, <2>2
<1>2. ASSUME [Next]_vars, ~ ListRows PROVE cursor' = cursor
  BY <1>2 DEF Next, Tick, StampWrite, CommitWrite, AbortWrite, CountRows, vars, walk
<1>3. TypeOK /\ [Next]_vars =>
        [/\ ListRows => \/ step' = "done"
                        \/ /\ step' = "count" /\ cursor' # None
                           /\ cursor = None \/ Later(cursor', cursor)
         /\ ~ ListRows => cursor' = cursor]_vars
  BY <1>1, <1>2
<1> QED BY <1>3, TypeCorrect, PTL DEF Spec
=============================================================================
