-------------------------- MODULE Portfolio_proofs --------------------------
(***************************************************************************)
(* Theorems about Portfolio for any identities, requests, contents of      *)
(* properties and number of requests in flight.                            *)
(***************************************************************************)
EXTENDS Portfolio, TLAPS

-----------------------------------------------------------------------------
(* Types                                                                   *)

\* What a request holds depends on where it is.
WellFormed(r) ==
  /\ r \in Resolved => me[r] \in Requests /\ who[r] \in Identities
  /\ pc[r] \in {"write", "commit"} =>
       target[r] \in Requests /\ copy[r] \in Property /\ seen[r] \in Property
  /\ pc[r] = "insert_property" => copy[r] \in Property
  /\ pc[r] = "insert_deal" => copy[r] \in Deal
  /\ pc[r] \in {"insert_user", "commit_user"} => me[r] = r /\ who[r] \in Identities

TypeInv == TypeOK /\ \A r \in Requests : WellFormed(r)

\* The end of a transaction leaves the locks typed.
LEMMA UnlockedType ==
  ASSUME TypeOK, NEW r \in Requests, Unlocked(r)
  PROVE  /\ inserting' \in [Identities -> Requests \cup {None}]
         /\ lock' \in [Requests -> Requests \cup {None}]
BY DEF TypeOK, Unlocked

\* The answer blanks the request's memory.
LEMMA FinishType ==
  ASSUME TypeInv, NEW r \in Requests, Finish(r), who' = who
  PROVE  /\ pc' \in [Requests -> Steps]
         /\ me' \in [Requests -> Requests \cup {None}]
         /\ target' \in [Requests -> Requests \cup {None}]
         /\ copy' \in [Requests -> Property \cup Deal \cup {None}]
         /\ seen' \in [Requests -> Property \cup {None}]
         /\ \A q \in Requests : WellFormed(q)'
<1>1. /\ pc' \in [Requests -> Steps]
      /\ me' \in [Requests -> Requests \cup {None}]
      /\ target' \in [Requests -> Requests \cup {None}]
      /\ copy' \in [Requests -> Property \cup Deal \cup {None}]
      /\ seen' \in [Requests -> Property \cup {None}]
  BY DEF TypeInv, TypeOK, Finish, Goto, Steps
<1>2. ASSUME NEW q \in Requests PROVE WellFormed(q)'
  BY DEF TypeInv, TypeOK, WellFormed, Finish, Goto, Resolved
<1> QED BY <1>1, <1>2

\* A property changed by the entity is still a property, of the same owner and tenure.
LEMMA ChangedType ==
  ASSUME TypeInv, NEW p \in Requests, properties[p] # None
  PROVE  /\ properties[p] \in Property
         /\ \A details \in Details : [properties[p] EXCEPT !.details = details] \in Property
         /\ [properties[p] EXCEPT !.archived = TRUE] \in Property
<1>1. properties[p] \in Property
  BY DEF TypeInv, TypeOK
<1> QED BY <1>1 DEF Property

\* Loading a property and changing the copy leaves everything typed.
LEMMA ChangeType ==
  ASSUME TypeInv, NEW r \in Requests, NEW p \in Requests, NEW property \in Property,
         Change(r, p, property)
  PROVE  TypeInv'
<1>1. properties[p] \in Property
  BY ChangedType DEF Change, Finds
<1>2. TypeOK'
  BY <1>1 DEF TypeInv, TypeOK, Change, Goto, Steps, tables
<1>3. ASSUME NEW q \in Requests PROVE WellFormed(q)'
  BY <1>1 DEF TypeInv, TypeOK, WellFormed, Change, Goto, Resolved
<1> QED BY <1>2, <1>3 DEF TypeInv

\* Every action leaves everything typed.
LEMMA TypeStep ==
  ASSUME TypeInv, Next
  PROVE  TypeInv'
<1> USE DEF TypeInv
<1>1. ASSUME NEW r \in Requests, NEW i \in Identities, Login(r, i) PROVE TypeInv'
  <2>1. TypeOK'
    BY <1>1 DEF TypeOK, Login, Goto, Steps, UsersOf, tables
  <2>2. ASSUME NEW q \in Requests PROVE WellFormed(q)'
    BY <1>1 DEF TypeOK, WellFormed, Login, Goto, Resolved, UsersOf
  <2> QED BY <2>1, <2>2
<1>2. ASSUME NEW r \in Requests, InsertUser(r) PROVE TypeInv'
  <2>1. TypeOK'
    BY <1>2 DEF TypeOK, InsertUser, Goto, Steps, tables, session
  <2>2. ASSUME NEW q \in Requests PROVE WellFormed(q)'
    BY <1>2 DEF TypeOK, WellFormed, InsertUser, Goto, Resolved, session
  <2> QED BY <2>1, <2>2
<1>3. ASSUME NEW r \in Requests, CommitUser(r) PROVE TypeInv'
  <2>1. TypeOK'
    BY <1>3, UnlockedType DEF TypeOK, CommitUser, Goto, Steps, session
  <2>2. ASSUME NEW q \in Requests PROVE WellFormed(q)'
    BY <1>3 DEF TypeOK, WellFormed, CommitUser, Goto, Resolved, session
  <2> QED BY <2>1, <2>2
<1>4. ASSUME NEW r \in Requests, Handle(r) PROVE TypeInv'
  <2>1. CASE AnswerWithoutWriting(r)
    BY <2>1, FinishType DEF AnswerWithoutWriting, TypeOK, tables
  <2>2. ASSUME NEW tenure \in Tenures, NEW leased \in BOOLEAN, NEW details \in Details,
               create_property(r, tenure, leased, details)
        PROVE TypeInv'
    <3>1. [owner |-> me[r], tenure |-> tenure, leased |-> leased, details |-> details,
           archived |-> FALSE] \in Property
      BY <2>2 DEF create_property, WellFormed, Resolved, Property
    <3>2. TypeOK'
      BY <2>2, <3>1 DEF TypeOK, create_property, Goto, Steps, tables
    <3>3. ASSUME NEW q \in Requests PROVE WellFormed(q)'
      BY <2>2, <3>1 DEF TypeOK, WellFormed, create_property, Goto, Resolved
    <3> QED BY <3>2, <3>3
  <2>3. ASSUME NEW p \in Requests, NEW details \in Details, update_property(r, p, details)
        PROVE TypeInv'
    BY <2>3, ChangedType, ChangeType DEF update_property, Change, Finds
  <2>4. ASSUME NEW p \in Requests, archive_property(r, p) PROVE TypeInv'
    BY <2>4, ChangedType, ChangeType DEF archive_property, Change, Finds
  <2>5. ASSUME NEW p \in Requests, create_deal(r, p) PROVE TypeInv'
    <3>1. [user |-> me[r], property |-> p] \in Deal
      BY <2>5 DEF create_deal, WellFormed, Resolved, Deal
    <3>2. TypeOK'
      BY <2>5, <3>1 DEF TypeOK, create_deal, Goto, Steps, tables
    <3>3. ASSUME NEW q \in Requests PROVE WellFormed(q)'
      BY <2>5, <3>1 DEF TypeOK, WellFormed, create_deal, Goto, Resolved
    <3> QED BY <3>2, <3>3
  <2> QED BY <1>4, <2>1, <2>2, <2>3, <2>4, <2>5 DEF Handle
<1>5. ASSUME NEW r \in Requests, WriteProperty(r) PROVE TypeInv'
  <2>1. TypeOK'
    BY <1>5 DEF TypeOK, WriteProperty, Goto, Steps, tables, session
  <2>2. ASSUME NEW q \in Requests PROVE WellFormed(q)'
    BY <1>5 DEF TypeOK, WellFormed, WriteProperty, Goto, Resolved, session
  <2> QED BY <2>1, <2>2
<1>6. ASSUME NEW r \in Requests, CommitProperty(r) PROVE TypeInv'
  <2>1. properties' \in [Requests -> Property \cup {None}]
    BY <1>6 DEF TypeOK, CommitProperty, WellFormed
  <2> QED BY <1>6, <2>1, FinishType, UnlockedType DEF CommitProperty, TypeOK
<1>7. ASSUME NEW r \in Requests, InsertProperty(r) PROVE TypeInv'
  <2>1. properties' \in [Requests -> Property \cup {None}]
    BY <1>7 DEF TypeOK, InsertProperty, WellFormed
  <2> QED BY <1>7, <2>1, FinishType DEF InsertProperty, TypeOK
<1>8. ASSUME NEW r \in Requests, InsertDeal(r) PROVE TypeInv'
  <2>1. deals' \in [Requests -> Deal \cup {None}]
    BY <1>8 DEF TypeOK, InsertDeal, WellFormed
  <2> QED BY <1>8, <2>1, FinishType DEF InsertDeal, TypeOK
<1>9. ASSUME NEW r \in Requests, Abort(r) PROVE TypeInv'
  BY <1>9, FinishType, UnlockedType DEF Abort, TypeOK, tables
<1>10. CASE Terminated
  BY <1>10 DEF Terminated, TypeOK, WellFormed, Resolved, vars, tables, session
<1> QED BY <1>1, <1>2, <1>3, <1>4, <1>5, <1>6, <1>7, <1>8, <1>9, <1>10 DEF Next, Serve

\* The initial state is typed.
LEMMA TypeInit == Init => TypeInv
BY DEF Init, TypeInv, TypeOK, WellFormed, Resolved, Steps

\* Every row, lock and variable of a request keeps its type, for any constants.
THEOREM TypeCorrect == Spec => []TypeOK
<1>1. Spec => []TypeInv
  <2>1. TypeInv /\ UNCHANGED vars => TypeInv'
    BY DEF TypeInv, TypeOK, WellFormed, Resolved, vars, tables, session
  <2>2. TypeInv /\ [Next]_vars => TypeInv'
    BY <2>1, TypeStep
  <2> QED BY <2>2, TypeInit, PTL DEF Spec
<1>2. TypeInv => TypeOK
  BY DEF TypeInv
<1> QED BY <1>1, <1>2, PTL

-----------------------------------------------------------------------------
(* First logins                                                            *)

NotResolved == {"new", "insert_user", "commit_user"}

\* The request that has inserted a row for an identity is about to commit the identity's first
\* one.
Insertions ==
  \A i \in Identities :
    inserting[i] # None =>
      /\ pc[inserting[i]] = "commit_user"
      /\ who[inserting[i]] = i
      /\ \A u \in Requests : users[u] # i

\* A stored user was inserted by a request of its identity that has gone on.
UsersInserted ==
  \A r \in Requests : users[r] # None => users[r] = who[r] /\ pc[r] \notin NotResolved

\* A first login that inserted nothing was overtaken by one that has committed.
Overtaken ==
  \A r \in Requests :
    pc[r] = "commit_user" => inserting[who[r]] = r \/ \E u \in Requests : users[u] = who[r]

\* A handler's user id is its own, stored or not, or a stored one of its identity.
OwnOrStored ==
  \A r \in Resolved : me[r] = r \/ users[me[r]] = who[r]

\* ResolvedHasUser without the set of users.
IdentityStored ==
  \A r \in Resolved : \E u \in Requests : users[u] = who[r]

LoginInv ==
  /\ Insertions
  /\ UsersInserted
  /\ Overtaken
  /\ OwnOrStored
  /\ IdentityStored
  /\ OneUserPerIdentity

\* A step of a handler leaves users and insertions as they are.
LEMMA HandlerLogin ==
  ASSUME TypeInv, LoginInv, NEW r \in Requests, NEW step \in Steps \ NotResolved,
         pc[r] \notin NotResolved, pc[r] # "done", Goto(r, step),
         users' = users, who' = who, inserting' = inserting, me' = me
  PROVE  LoginInv'
<1> USE DEF TypeInv, TypeOK, LoginInv, NotResolved
<1>1. Insertions'
  BY DEF Insertions, Goto
<1>2. UsersInserted'
  BY DEF UsersInserted, Goto
<1>3. Overtaken'
  BY DEF Overtaken, Goto
<1>4. OwnOrStored'
  BY DEF OwnOrStored, Resolved, Goto
<1>5. IdentityStored'
  BY DEF IdentityStored, Resolved, Goto
<1>6. OneUserPerIdentity'
  BY DEF OneUserPerIdentity
<1> QED BY <1>1, <1>2, <1>3, <1>4, <1>5, <1>6

\* So does the end of a request, committed or aborted, but for an insertion it rolls back.
LEMMA FinishLogin ==
  ASSUME TypeInv, LoginInv, NEW r \in Requests, pc[r] # "new", Finish(r),
         users' = users, who' = who,
         Unlocked(r) \/ (inserting' = inserting /\ pc[r] # "commit_user")
  PROVE  LoginInv'
<1> USE DEF TypeInv, TypeOK, LoginInv, NotResolved
<1>1. \A i \in Identities :
        inserting'[i] # None => inserting'[i] = inserting[i] /\ inserting[i] # r
  BY DEF Unlocked, Insertions
<1>2. Insertions'
  BY <1>1 DEF Insertions, Finish, Goto
<1>3. UsersInserted'
  BY DEF UsersInserted, Finish, Goto
<1>4. Overtaken'
  BY DEF Overtaken, WellFormed, Finish, Goto, Unlocked
<1>5. OwnOrStored'
  BY DEF OwnOrStored, Resolved, Finish, Goto
<1>6. IdentityStored'
  BY DEF IdentityStored, Resolved, Finish, Goto
<1>7. OneUserPerIdentity'
  BY DEF OneUserPerIdentity
<1> QED BY <1>2, <1>3, <1>4, <1>5, <1>6, <1>7

\* A commit of a first login stores at most one user of the identity, its first one.
LEMMA CommitUserLogin ==
  ASSUME TypeInv, LoginInv, NEW r \in Requests, CommitUser(r)
  PROVE  LoginInv'
<1> USE DEF TypeInv, TypeOK, LoginInv, NotResolved
<1>1. who[r] \in Identities /\ me[r] = r /\ users[r] = None
  BY DEF CommitUser, WellFormed, UsersInserted
<1>2. \E u \in Requests : users'[u] = who[r]
  BY <1>1 DEF CommitUser, Overtaken
<1>3. \A u \in Requests : u # r => users'[u] = users[u]
  BY DEF CommitUser
<1>4. \A u \in Requests : users[u] # None => users'[u] = users[u]
  BY <1>1, <1>3
<1>5. \A i \in Identities : inserting'[i] # None => inserting'[i] = inserting[i] /\ inserting[i] # r
  BY DEF CommitUser, Unlocked
<1>6. Insertions'
  <2> SUFFICES ASSUME NEW i \in Identities, inserting'[i] # None
               PROVE  /\ pc'[inserting'[i]] = "commit_user"
                      /\ who'[inserting'[i]] = i
                      /\ \A u \in Requests : users'[u] # i
    BY DEF Insertions
  <2>1. /\ inserting'[i] = inserting[i]
        /\ inserting[i] \in Requests \ {r}
        /\ pc[inserting[i]] = "commit_user" /\ who[inserting[i]] = i
        /\ \A u \in Requests : users[u] # i
    BY <1>5 DEF Insertions
  <2>2. users'[r] # i
    <3>1. CASE i = who[r]
      BY <1>1, <2>1, <3>1 DEF CommitUser, Overtaken
    <3>2. CASE i # who[r]
      BY <1>1, <2>1, <3>2, PortfolioAssumption DEF CommitUser
    <3> QED BY <3>1, <3>2
  <2> QED BY <1>3, <2>1, <2>2 DEF CommitUser, Goto
<1>7. UsersInserted'
  BY <1>1 DEF UsersInserted, CommitUser, Goto
<1>8. Overtaken'
  <2> SUFFICES ASSUME NEW q \in Requests, pc'[q] = "commit_user"
               PROVE  inserting'[who[q]] = q \/ \E u \in Requests : users'[u] = who[q]
    BY DEF Overtaken, CommitUser
  <2>1. q # r /\ pc[q] = "commit_user" /\ who[q] \in Identities
    BY DEF CommitUser, Goto, WellFormed
  <2>2. CASE inserting[who[q]] = q
    BY <2>1, <2>2 DEF CommitUser, Unlocked
  <2>3. CASE \E u \in Requests : users[u] = who[q]
    BY <1>4, <2>1, <2>3, PortfolioAssumption
  <2> QED BY <2>1, <2>2, <2>3 DEF Overtaken
<1>9. OwnOrStored'
  <2> SUFFICES ASSUME NEW q \in Requests, q \in Resolved', me[q] # q
               PROVE  users'[me[q]] = who[q]
    BY DEF OwnOrStored, CommitUser, session, Resolved
  <2>1. q # r /\ q \in Resolved
    BY <1>1 DEF CommitUser, Goto, Resolved
  <2>2. users[me[q]] = who[q] /\ me[q] \in Requests /\ who[q] \in Identities
    BY <2>1 DEF OwnOrStored, WellFormed
  <2> QED BY <1>4, <2>2, PortfolioAssumption
<1>10. IdentityStored'
  <2> SUFFICES ASSUME NEW q \in Requests, q \in Resolved'
               PROVE  \E u \in Requests : users'[u] = who[q]
    BY DEF IdentityStored, CommitUser, Resolved
  <2>1. CASE q = r
    BY <2>1, <1>2
  <2>2. CASE q # r
    <3>1. q \in Resolved /\ who[q] \in Identities
      BY <2>2 DEF CommitUser, Goto, Resolved, WellFormed
    <3> QED BY <3>1, <1>4, PortfolioAssumption DEF IdentityStored
  <2> QED BY <2>1, <2>2
<1>11. OneUserPerIdentity'
  <2>1. CASE inserting[who[r]] = r
    <3>1. \A u \in Requests : users[u] # who[r]
      BY <1>1, <2>1, PortfolioAssumption DEF Insertions
    <3> QED BY <2>1, <3>1 DEF CommitUser, OneUserPerIdentity
  <2>2. CASE inserting[who[r]] # r
    BY <2>2 DEF CommitUser, OneUserPerIdentity
  <2> QED BY <2>1, <2>2
<1> QED BY <1>6, <1>7, <1>8, <1>9, <1>10, <1>11

\* Every action keeps the invariants of logins.
LEMMA LoginStep ==
  ASSUME TypeInv, LoginInv, Next
  PROVE  LoginInv'
<1> USE DEF NotResolved
<1>1. ASSUME NEW r \in Requests, NEW i \in Identities, Login(r, i) PROVE LoginInv'
  <2> USE DEF TypeInv, TypeOK, LoginInv
  <2>1. users[r] = None
    BY <1>1 DEF Login, UsersInserted
  <2>2. \A j \in Identities : inserting[j] # r
    BY <1>1, PortfolioAssumption DEF Login, Insertions
  <2>3. Insertions'
    BY <1>1, <2>2 DEF Insertions, Login, Goto, tables
  <2>4. UsersInserted'
    BY <1>1, <2>1 DEF UsersInserted, Login, Goto, tables
  <2>5. Overtaken'
    BY <1>1 DEF Overtaken, Login, Goto, tables
  <2>6. OwnOrStored'
    BY <1>1 DEF OwnOrStored, Login, Goto, Resolved, UsersOf, tables
  <2>7. IdentityStored'
    BY <1>1 DEF IdentityStored, Login, Goto, Resolved, UsersOf, tables
  <2>8. OneUserPerIdentity'
    BY <1>1 DEF OneUserPerIdentity, Login, tables
  <2> QED BY <2>3, <2>4, <2>5, <2>6, <2>7, <2>8
<1>2. ASSUME NEW r \in Requests, InsertUser(r) PROVE LoginInv'
  <2> USE DEF TypeInv, TypeOK, LoginInv
  <2>1. who[r] \in Identities /\ \A j \in Identities : inserting[j] # r
    BY <1>2, PortfolioAssumption DEF InsertUser, Insertions, WellFormed
  <2>2. \/ /\ \E u \in Requests : users[u] = who[r]
           /\ inserting' = inserting
        \/ /\ \A u \in Requests : users[u] # who[r]
           /\ inserting' = [inserting EXCEPT ![who[r]] = r]
    BY <1>2 DEF InsertUser, UsersOf
  <2>3. Insertions'
    BY <1>2, <2>1, <2>2 DEF Insertions, InsertUser, Goto, tables
  <2>4. UsersInserted'
    BY <1>2 DEF UsersInserted, InsertUser, Goto, tables
  <2>5. Overtaken'
    <3> SUFFICES ASSUME NEW q \in Requests, pc'[q] = "commit_user"
                 PROVE  inserting'[who[q]] = q \/ \E u \in Requests : users[u] = who[q]
      BY <1>2 DEF Overtaken, InsertUser, tables
    <3>1. CASE q = r
      BY <2>1, <2>2, <3>1
    <3>2. CASE q # r
      <4>1. pc[q] = "commit_user" /\ who[q] \in Identities
        BY <1>2, <3>2 DEF InsertUser, Goto, WellFormed
      <4>2. CASE inserting[who[q]] = q
        BY <1>2, <2>1, <2>2, <4>1, <4>2, PortfolioAssumption DEF InsertUser
      <4> QED BY <4>1, <4>2 DEF Overtaken
    <3> QED BY <3>1, <3>2
  <2>6. OwnOrStored'
    BY <1>2 DEF OwnOrStored, InsertUser, Goto, Resolved, tables, session
  <2>7. IdentityStored'
    BY <1>2 DEF IdentityStored, InsertUser, Goto, Resolved, tables
  <2>8. OneUserPerIdentity'
    BY <1>2 DEF OneUserPerIdentity, InsertUser, tables
  <2> QED BY <2>3, <2>4, <2>5, <2>6, <2>7, <2>8
<1>3. ASSUME NEW r \in Requests, CommitUser(r) PROVE LoginInv'
  BY <1>3, CommitUserLogin
<1>4. ASSUME NEW r \in Requests, Handle(r) PROVE LoginInv'
  <2>1. CASE AnswerWithoutWriting(r)
    BY <2>1, FinishLogin DEF AnswerWithoutWriting, tables
  <2>2. ASSUME NEW tenure \in Tenures, NEW leased \in BOOLEAN, NEW details \in Details,
               create_property(r, tenure, leased, details)
        PROVE LoginInv'
    BY <2>2, HandlerLogin DEF create_property, tables, Steps
  <2>3. ASSUME NEW p \in Requests, NEW property, Change(r, p, property) PROVE LoginInv'
    BY <2>3, HandlerLogin DEF Change, tables, Steps
  <2>4. ASSUME NEW p \in Requests, create_deal(r, p) PROVE LoginInv'
    BY <2>4, HandlerLogin DEF create_deal, tables, Steps
  <2>5. ASSUME NEW p \in Requests, NEW details \in Details, update_property(r, p, details)
        PROVE LoginInv'
    BY <2>3, <2>5 DEF update_property
  <2>6. ASSUME NEW p \in Requests, archive_property(r, p) PROVE LoginInv'
    BY <2>3, <2>6 DEF archive_property
  <2> QED BY <1>4, <2>1, <2>2, <2>4, <2>5, <2>6 DEF Handle
<1>5. ASSUME NEW r \in Requests, WriteProperty(r) PROVE LoginInv'
  BY <1>5, HandlerLogin DEF WriteProperty, tables, session, Steps
<1>6. ASSUME NEW r \in Requests,
             CommitProperty(r) \/ InsertProperty(r) \/ InsertDeal(r) \/ Abort(r)
      PROVE LoginInv'
  BY <1>6, FinishLogin DEF CommitProperty, InsertProperty, InsertDeal, Abort, InFlight, tables
<1>7. CASE Terminated
  BY <1>7 DEF Terminated, vars, tables, session, LoginInv, Insertions, UsersInserted, Overtaken,
     OwnOrStored, IdentityStored, OneUserPerIdentity, Resolved
<1> QED BY <1>1, <1>2, <1>3, <1>4, <1>5, <1>6, <1>7 DEF Next, Serve

-----------------------------------------------------------------------------
(* Rows of properties and deals, and what requests are about to write      *)

SameTenancy(a, b) == a.owner = b.owner /\ a.tenure = b.tenure /\ a.leased = b.leased

\* A change in memory is a legal change of the row it was made from, and that row belongs to
\* the owner of the row stored now.
Change_OK(r) ==
  pc[r] \in {"write", "commit"} =>
    /\ properties[target[r]] # None
    /\ properties[target[r]].owner = seen[r].owner
    /\ SameTenancy(copy[r], seen[r])
    /\ LeaseFits(copy[r].tenure, copy[r].leased)
    /\ seen[r].archived => copy[r].archived

\* A new row in memory belongs to the request's user, and a new deal is on its own property.
NewRow_OK(r) ==
  /\ pc[r] = "insert_property" =>
       copy[r].owner = me[r] /\ LeaseFits(copy[r].tenure, copy[r].leased)
  /\ pc[r] = "insert_deal" =>
       /\ copy[r].user = me[r]
       /\ properties[copy[r].property] # None
       /\ properties[copy[r].property].owner = me[r]

WorkInv == \A r \in Requests : Change_OK(r) /\ NewRow_OK(r)

\* Rows were inserted by requests that are done; a property fits its tenure.
Row_OK(r) ==
  /\ properties[r] # None => pc[r] = "done" /\ LeaseFits(properties[r].tenure, properties[r].leased)
  /\ deals[r] # None => pc[r] = "done"

RowsInv == (\A r \in Requests : Row_OK(r)) /\ OwnersAreStored /\ DealsOnOwnProperty

\* A row lock is held by the request that is about to commit a change of the row.
LockInv ==
  /\ \A p \in Requests : lock[p] # None => pc[lock[p]] = "commit" /\ target[lock[p]] = p
  /\ \A r \in Requests : pc[r] = "commit" => lock[target[r]] = r

PropertyInv == WorkInv /\ RowsInv /\ LockInv

\* Users are only added, so what belonged to a stored user still does.
LEMMA UsersGrow ==
  ASSUME TypeInv, LoginInv, Next
  PROVE  \A u \in Requests : users[u] # None => users'[u] = users[u]
<1>1. ASSUME NEW r \in Requests, CommitUser(r), NEW u \in Requests, users[u] # None
      PROVE  users'[u] = users[u]
  BY <1>1 DEF CommitUser, LoginInv, UsersInserted, NotResolved, TypeInv, TypeOK
<1>2. CASE users' = users
  BY <1>2
<1>3. users' = users \/ \E r \in Requests : CommitUser(r)
  BY DEF Next, Serve, Login, InsertUser, Handle, AnswerWithoutWriting, create_property,
     update_property, archive_property, create_deal, Change, WriteProperty, CommitProperty,
     InsertProperty, InsertDeal, Abort, Terminated, tables, vars
<1> QED BY <1>1, <1>2, <1>3

\* A step that writes no property and no deal keeps the rows' invariants.
LEMMA SameRows ==
  ASSUME TypeInv, LoginInv, RowsInv, Next, NEW r \in Requests,
         pc[r] # "done",
         \A q \in Requests \ {r} : pc'[q] = pc[q] /\ who'[q] = who[q],
         properties' = properties, deals' = deals
  PROVE  RowsInv'
<1>1. \A q \in Requests : properties[q] # None \/ deals[q] # None => q # r
  BY DEF RowsInv, Row_OK
<1>2. \A q \in Requests : Row_OK(q)'
  BY <1>1 DEF RowsInv, Row_OK, TypeInv, TypeOK, LeaseFits
<1>3. OwnersAreStored'
  <2> SUFFICES ASSUME NEW q \in Requests
               PROVE  /\ properties[q] # None => StoredUser(properties[q].owner, who[q])'
                      /\ deals[q] # None => StoredUser(deals[q].user, who[q])'
    BY DEF OwnersAreStored
  <2>1. properties[q] # None => properties[q].owner \in Requests
    BY DEF TypeInv, TypeOK, Property
  <2>2. deals[q] # None => deals[q].user \in Requests
    BY DEF TypeInv, TypeOK, Deal
  <2> QED BY <1>1, <2>1, <2>2, UsersGrow DEF RowsInv, OwnersAreStored, StoredUser
<1>4. DealsOnOwnProperty'
  BY DEF RowsInv, DealsOnOwnProperty
<1> QED BY <1>2, <1>3, <1>4 DEF RowsInv

\* The end of a transaction frees its locks and no other.
LEMMA FinishLock ==
  ASSUME TypeInv, LockInv, NEW r \in Requests, Finish(r), pc[r] # "new",
         Unlocked(r) \/ (lock' = lock /\ pc[r] # "commit")
  PROVE  LockInv'
<1> USE DEF TypeInv, TypeOK, LockInv
<1>1. \A p \in Requests : lock'[p] # None => lock'[p] = lock[p] /\ lock[p] # r
  BY DEF Unlocked
<1>2. \A q \in Requests : q # r => pc'[q] = pc[q] /\ target'[q] = target[q]
  BY DEF Finish, Goto
<1>3. ASSUME NEW p \in Requests, lock'[p] # None
      PROVE  pc'[lock'[p]] = "commit" /\ target'[lock'[p]] = p
  BY <1>1, <1>2, <1>3
<1>4. ASSUME NEW q \in Requests, pc'[q] = "commit"
      PROVE  lock'[target'[q]] = q
  <2>1. q # r /\ pc[q] = "commit" /\ target[q] \in Requests
    BY <1>4 DEF Finish, Goto, WellFormed
  <2> QED BY <1>2, <2>1 DEF Unlocked
<1> QED BY <1>3, <1>4

\* A step that neither takes nor frees a lock keeps the invariant of locks.
LEMMA SameLock ==
  ASSUME TypeInv, LockInv, NEW r \in Requests, NEW step \in Steps \ {"commit"},
         pc[r] # "commit", Goto(r, step), lock' = lock,
         \A q \in Requests \ {r} : target'[q] = target[q]
  PROVE  LockInv'
BY DEF TypeInv, TypeOK, LockInv, Goto

\* Requests that did not move keep what they are about to write, if rows keep their owners.
LEMMA SameWork ==
  ASSUME TypeInv, WorkInv, NEW r \in Requests, NEW q \in Requests, q # r,
         pc'[q] = pc[q], me'[q] = me[q], target'[q] = target[q], copy'[q] = copy[q],
         seen'[q] = seen[q],
         \A p \in Requests :
           properties[p] # None => properties'[p] # None /\ properties'[p].owner = properties[p].owner
  PROVE  Change_OK(q)' /\ NewRow_OK(q)'
<1> USE DEF TypeInv, TypeOK, WorkInv
<1>1. Change_OK(q)'
  BY DEF Change_OK, WellFormed, SameTenancy, LeaseFits
<1>2. NewRow_OK(q)'
  BY DEF NewRow_OK, WellFormed, LeaseFits, Deal
<1> QED BY <1>1, <1>2


\* A step of r that takes no lock and writes no row keeps the invariants, if what r then holds
\* is legal.
LEMMA QuietStep ==
  ASSUME TypeInv, LoginInv, PropertyInv, Next, NEW r \in Requests, NEW step \in Steps \ {"commit"},
         pc[r] \notin {"commit", "done"}, Goto(r, step),
         properties' = properties, deals' = deals, lock' = lock,
         \A q \in Requests \ {r} :
           /\ who'[q] = who[q] /\ me'[q] = me[q] /\ target'[q] = target[q]
           /\ copy'[q] = copy[q] /\ seen'[q] = seen[q],
         Change_OK(r)', NewRow_OK(r)'
  PROVE  PropertyInv'
<1>1. \A q \in Requests \ {r} : pc'[q] = pc[q]
  BY DEF Goto, TypeInv, TypeOK
<1>2. WorkInv'
  BY <1>1, SameWork DEF PropertyInv, WorkInv
<1>3. RowsInv'
  BY <1>1, SameRows DEF PropertyInv
<1>4. LockInv'
  BY SameLock DEF PropertyInv
<1> QED BY <1>2, <1>3, <1>4 DEF PropertyInv

\* The end of a request that writes no row keeps the invariants.
LEMMA FinishQuietly ==
  ASSUME TypeInv, LoginInv, PropertyInv, Next, NEW r \in Requests, Finish(r), r \in InFlight,
         properties' = properties, deals' = deals, who' = who,
         Unlocked(r) \/ (lock' = lock /\ pc[r] # "commit")
  PROVE  PropertyInv'
<1>1. \A q \in Requests \ {r} :
        /\ pc'[q] = pc[q] /\ me'[q] = me[q] /\ target'[q] = target[q]
        /\ copy'[q] = copy[q] /\ seen'[q] = seen[q]
  BY DEF Finish, Goto, TypeInv, TypeOK
<1>2. pc'[r] = "done" /\ pc[r] # "done" /\ pc[r] # "new"
  BY DEF Finish, Goto, TypeInv, TypeOK, InFlight
<1>3. Change_OK(r)' /\ NewRow_OK(r)'
  BY <1>2 DEF Change_OK, NewRow_OK
<1>4. WorkInv'
  BY <1>1, <1>3, SameWork DEF PropertyInv, WorkInv
<1>5. RowsInv'
  BY <1>1, <1>2, SameRows DEF PropertyInv
<1>6. LockInv'
  BY <1>2, FinishLock DEF PropertyInv
<1> QED BY <1>4, <1>5, <1>6 DEF PropertyInv

\* A change loaded from the row is legal until it is committed.
LEMMA ChangeProperty ==
  ASSUME TypeInv, LoginInv, PropertyInv, Next, NEW r \in Requests, NEW p \in Requests,
         NEW property \in Property, Change(r, p, property),
         SameTenancy(property, properties[p]), properties[p].archived => property.archived
  PROVE  PropertyInv'
<1> USE DEF TypeInv, TypeOK
<1>1. properties[p] # None /\ properties[p] \in Property
  BY DEF Change, Finds
<1>2. LeaseFits(properties[p].tenure, properties[p].leased)
  BY <1>1 DEF PropertyInv, RowsInv, Row_OK
<1>3. Change_OK(r)'
  BY <1>1, <1>2 DEF Change, Change_OK, Goto, tables, SameTenancy, LeaseFits
<1>4. NewRow_OK(r)'
  BY DEF Change, NewRow_OK, Goto
<1> QED BY <1>3, <1>4, QuietStep DEF Change, Steps, tables

\* Every action keeps what is stored, locked and about to be written legal.
LEMMA PropertyStep ==
  ASSUME TypeInv, LoginInv, PropertyInv, Next
  PROVE  PropertyInv'
<1> USE DEF TypeInv, TypeOK
<1>1. ASSUME NEW r \in Requests, NEW i \in Identities, Login(r, i) PROVE PropertyInv'
  <2>1. PICK step \in {"handle", "insert_user"} : Goto(r, step)
    BY <1>1 DEF Login
  <2>2. Change_OK(r)' /\ NewRow_OK(r)'
    BY <2>1 DEF Change_OK, NewRow_OK, Goto
  <2> QED BY <1>1, <2>1, <2>2, QuietStep DEF Login, Steps, tables
<1>2. ASSUME NEW r \in Requests, InsertUser(r) PROVE PropertyInv'
  <2>1. Change_OK(r)' /\ NewRow_OK(r)'
    BY <1>2 DEF Change_OK, NewRow_OK, Goto, InsertUser
  <2> QED BY <1>2, <2>1, QuietStep DEF InsertUser, Steps, tables, session
<1>3. ASSUME NEW r \in Requests, CommitUser(r) PROVE PropertyInv'
  <2>1. Change_OK(r)' /\ NewRow_OK(r)'
    BY <1>3 DEF Change_OK, NewRow_OK, Goto, CommitUser
  <2>2. lock' = lock
    BY <1>3, PortfolioAssumption DEF CommitUser, Unlocked, PropertyInv, LockInv
  <2> QED BY <1>3, <2>1, <2>2, QuietStep DEF CommitUser, Steps, session
<1>4. ASSUME NEW r \in Requests, Handle(r) PROVE PropertyInv'
  <2>1. CASE AnswerWithoutWriting(r)
    BY <2>1, FinishQuietly DEF AnswerWithoutWriting, InFlight, tables
  <2>2. ASSUME NEW tenure \in Tenures, NEW leased \in BOOLEAN, NEW details \in Details,
               create_property(r, tenure, leased, details)
        PROVE PropertyInv'
    <3>1. Change_OK(r)' /\ NewRow_OK(r)'
      BY <2>2 DEF Change_OK, NewRow_OK, Goto, create_property, LeaseFits
    <3> QED BY <2>2, <3>1, QuietStep DEF create_property, Steps, tables
  <2>3. ASSUME NEW p \in Requests, NEW details \in Details, update_property(r, p, details)
        PROVE PropertyInv'
    <3>1. properties[p] # None
      BY <2>3 DEF update_property, Change, Finds
    <3>2. properties[p] \in Property /\ [properties[p] EXCEPT !.details = details] \in Property
      BY <3>1, ChangedType
    <3>3. /\ SameTenancy([properties[p] EXCEPT !.details = details], properties[p])
          /\ [properties[p] EXCEPT !.details = details].archived = properties[p].archived
      BY <3>2 DEF SameTenancy, Property
    <3> QED BY <2>3, <3>2, <3>3, ChangeProperty DEF update_property
  <2>4. ASSUME NEW p \in Requests, archive_property(r, p) PROVE PropertyInv'
    <3>1. properties[p] # None
      BY <2>4 DEF archive_property, Change, Finds
    <3>2. properties[p] \in Property /\ [properties[p] EXCEPT !.archived = TRUE] \in Property
      BY <3>1, ChangedType
    <3>3. /\ SameTenancy([properties[p] EXCEPT !.archived = TRUE], properties[p])
          /\ [properties[p] EXCEPT !.archived = TRUE].archived
      BY <3>2 DEF SameTenancy, Property
    <3> QED BY <2>4, <3>2, <3>3, ChangeProperty DEF archive_property
  <2>5. ASSUME NEW p \in Requests, create_deal(r, p) PROVE PropertyInv'
    <3>1. Change_OK(r)' /\ NewRow_OK(r)'
      BY <2>5 DEF Change_OK, NewRow_OK, Goto, create_deal, Finds, tables
    <3> QED BY <2>5, <3>1, QuietStep DEF create_deal, Steps, tables
  <2> QED BY <1>4, <2>1, <2>2, <2>3, <2>4, <2>5 DEF Handle
<1>5. ASSUME NEW r \in Requests, WriteProperty(r) PROVE PropertyInv'
  <2>1. /\ properties' = properties /\ deals' = deals /\ who' = who /\ me' = me
        /\ target' = target /\ copy' = copy /\ seen' = seen
        /\ pc' = [pc EXCEPT ![r] = "commit"] /\ pc[r] = "write"
        /\ target[r] \in Requests /\ lock[target[r]] = None
        /\ lock' = [lock EXCEPT ![target[r]] = r]
    BY <1>5 DEF WriteProperty, Goto, tables, session, WellFormed
  <2>2. \A q \in Requests : Change_OK(q)' /\ NewRow_OK(q)'
    BY <2>1 DEF PropertyInv, WorkInv, Change_OK, NewRow_OK
  <2>3. RowsInv'
    BY <2>1, SameRows DEF PropertyInv
  <2>4. LockInv'
    BY <2>1, PortfolioAssumption DEF PropertyInv, LockInv, WellFormed
  <2> QED BY <2>2, <2>3, <2>4 DEF PropertyInv, WorkInv
<1>6. ASSUME NEW r \in Requests, CommitProperty(r) PROVE PropertyInv'
  <2> DEFINE p == target[r]
  <2>1. /\ p \in Requests /\ copy[r] \in Property /\ pc[r] = "commit" /\ seen[r] \in Property
        /\ copy[r] # None
        /\ properties' = [properties EXCEPT ![p] = copy[r]]
        /\ deals' = deals /\ users' = users /\ who' = who
    BY <1>6, PortfolioAssumption DEF CommitProperty, WellFormed
  <2>2. /\ properties[p] # None /\ properties[p].owner = copy[r].owner
        /\ LeaseFits(copy[r].tenure, copy[r].leased)
    BY <2>1 DEF PropertyInv, WorkInv, Change_OK, SameTenancy
  <2>3. \A q \in Requests \ {r} :
          /\ pc'[q] = pc[q] /\ me'[q] = me[q] /\ target'[q] = target[q]
          /\ copy'[q] = copy[q] /\ seen'[q] = seen[q]
    BY <1>6 DEF CommitProperty, Finish, Goto
  <2>4. pc'[r] = "done"
    BY <1>6 DEF CommitProperty, Finish, Goto
  <2>5. \A q \in Requests :
          properties[q] # None => properties'[q] # None /\ properties'[q].owner = properties[q].owner
    BY <2>1, <2>2
  <2>6. WorkInv'
    <3>1. Change_OK(r)' /\ NewRow_OK(r)'
      BY <2>4 DEF Change_OK, NewRow_OK
    <3> QED BY <3>1, <2>3, <2>5, SameWork DEF PropertyInv, WorkInv
  <2>7. \A q \in Requests : Row_OK(q)'
    BY <2>1, <2>2, <2>3, <2>4 DEF PropertyInv, RowsInv, Row_OK, LeaseFits
  <2>8. OwnersAreStored'
    BY <2>1, <2>2 DEF PropertyInv, RowsInv, OwnersAreStored, StoredUser
  <2>9. DealsOnOwnProperty'
    BY <2>1, <2>2 DEF PropertyInv, RowsInv, DealsOnOwnProperty
  <2>10. LockInv'
    BY <1>6, <2>1, FinishLock DEF CommitProperty, PropertyInv
  <2> QED BY <2>6, <2>7, <2>8, <2>9, <2>10 DEF PropertyInv, RowsInv
<1>7. ASSUME NEW r \in Requests, InsertProperty(r) PROVE PropertyInv'
  <2>1. /\ pc[r] = "insert_property" /\ Finish(r) /\ copy[r] \in Property /\ r \in InFlight
        /\ deals' = deals /\ users' = users /\ who' = who /\ lock' = lock
        /\ copy[r].owner = me[r] /\ me[r] \in Requests
        /\ LeaseFits(copy[r].tenure, copy[r].leased)
    BY <1>7 DEF InsertProperty, WellFormed, Resolved, InFlight, PropertyInv, WorkInv, NewRow_OK
  <2>2. CASE users[me[r]] = None
    BY <1>7, <2>1, <2>2, FinishQuietly DEF InsertProperty
  <2>3. CASE users[me[r]] # None
    <3>1. properties' = [properties EXCEPT ![r] = copy[r]]
      BY <1>7, <2>1, <2>3 DEF InsertProperty
    <3>2. properties[r] = None
      BY <2>1 DEF PropertyInv, RowsInv, Row_OK
    <3>3. StoredUser(copy[r].owner, who[r])
      BY <2>1, <2>3 DEF StoredUser, LoginInv, OwnOrStored, UsersInserted, Resolved
    <3>4. pc'[r] = "done" /\ pc[r] # "new" /\ pc[r] # "commit"
      BY <2>1 DEF Finish, Goto
    <3>5. \A q \in Requests \ {r} :
            /\ pc'[q] = pc[q] /\ me'[q] = me[q] /\ target'[q] = target[q]
            /\ copy'[q] = copy[q] /\ seen'[q] = seen[q]
      BY <2>1 DEF Finish, Goto
    <3>6. WorkInv'
      <4>1. Change_OK(r)' /\ NewRow_OK(r)'
        BY <3>4 DEF Change_OK, NewRow_OK
      <4>2. \A q \in Requests :
              properties[q] # None => properties'[q] # None /\ properties'[q].owner = properties[q].owner
        BY <3>1, <3>2
      <4> QED BY <4>1, <4>2, <3>5, SameWork DEF PropertyInv, WorkInv
    <3>7. \A q \in Requests : Row_OK(q)'
      BY <2>1, <3>1, <3>4, <3>5 DEF PropertyInv, RowsInv, Row_OK, LeaseFits
    <3>8. OwnersAreStored'
      BY <2>1, <3>1, <3>3 DEF PropertyInv, RowsInv, OwnersAreStored, StoredUser
    <3>9. DealsOnOwnProperty'
      BY <2>1, <3>1, <3>2 DEF PropertyInv, RowsInv, DealsOnOwnProperty
    <3>10. LockInv'
      BY <2>1, <3>4, FinishLock DEF PropertyInv
    <3> QED BY <3>6, <3>7, <3>8, <3>9, <3>10 DEF PropertyInv, RowsInv
  <2> QED BY <2>2, <2>3
<1>8. ASSUME NEW r \in Requests, InsertDeal(r) PROVE PropertyInv'
  <2>1. /\ pc[r] = "insert_deal" /\ Finish(r) /\ copy[r] \in Deal /\ r \in InFlight
        /\ properties' = properties /\ users' = users /\ who' = who /\ lock' = lock
        /\ copy[r].user = me[r] /\ me[r] \in Requests
        /\ properties[copy[r].property] # None
        /\ properties[copy[r].property].owner = me[r]
    BY <1>8 DEF InsertDeal, WellFormed, Resolved, InFlight, PropertyInv, WorkInv, NewRow_OK
  <2>2. CASE users[me[r]] = None
    BY <1>8, <2>1, <2>2, FinishQuietly DEF InsertDeal
  <2>3. CASE users[me[r]] # None
    <3>1. deals' = [deals EXCEPT ![r] = copy[r]]
      BY <1>8, <2>1, <2>3 DEF InsertDeal
    <3>2. StoredUser(copy[r].user, who[r])
      BY <2>1, <2>3 DEF StoredUser, LoginInv, OwnOrStored, UsersInserted, Resolved
    <3>3. pc'[r] = "done" /\ pc[r] # "new" /\ pc[r] # "commit"
      BY <2>1 DEF Finish, Goto
    <3>4. \A q \in Requests \ {r} :
            /\ pc'[q] = pc[q] /\ me'[q] = me[q] /\ target'[q] = target[q]
            /\ copy'[q] = copy[q] /\ seen'[q] = seen[q]
      BY <2>1 DEF Finish, Goto
    <3>5. WorkInv'
      <4>1. Change_OK(r)' /\ NewRow_OK(r)'
        BY <3>3 DEF Change_OK, NewRow_OK
      <4> QED BY <4>1, <2>1, <3>4, SameWork DEF PropertyInv, WorkInv
    <3>6. \A q \in Requests : Row_OK(q)'
      BY <2>1, <3>1, <3>3, <3>4 DEF PropertyInv, RowsInv, Row_OK, LeaseFits
    <3>7. OwnersAreStored'
      BY <2>1, <3>1, <3>2 DEF PropertyInv, RowsInv, OwnersAreStored, StoredUser
    <3>8. DealsOnOwnProperty'
      BY <2>1, <3>1 DEF PropertyInv, RowsInv, DealsOnOwnProperty
    <3>9. LockInv'
      BY <2>1, <3>3, FinishLock DEF PropertyInv
    <3> QED BY <3>5, <3>6, <3>7, <3>8, <3>9 DEF PropertyInv, RowsInv
  <2> QED BY <2>2, <2>3
<1>9. ASSUME NEW r \in Requests, Abort(r) PROVE PropertyInv'
  BY <1>9, FinishQuietly DEF Abort, tables
<1>10. CASE Terminated
  BY <1>10 DEF Terminated, vars, tables, session, PropertyInv, WorkInv, RowsInv, LockInv,
     Change_OK, NewRow_OK, Row_OK, SameTenancy, LeaseFits, OwnersAreStored, StoredUser,
     DealsOnOwnProperty
<1> QED BY <1>1, <1>2, <1>3, <1>4, <1>5, <1>6, <1>7, <1>8, <1>9, <1>10 DEF Next, Serve

-----------------------------------------------------------------------------
(* Theorems                                                                *)

IInv == TypeInv /\ LoginInv /\ PropertyInv

\* The inductive invariant behind every theorem below.
THEOREM Inductive == Spec => []IInv
<1>1. Init => IInv
  <2>1. Init => LoginInv
    BY DEF Init, LoginInv, Insertions, UsersInserted, Overtaken, OwnOrStored, IdentityStored,
       OneUserPerIdentity, Resolved
  <2>2. Init => PropertyInv
    BY DEF Init, PropertyInv, WorkInv, RowsInv, LockInv, Change_OK, NewRow_OK, Row_OK,
       OwnersAreStored, DealsOnOwnProperty
  <2> QED BY <2>1, <2>2, TypeInit DEF IInv
<1>2. IInv /\ [Next]_vars => IInv'
  <2>1. CASE Next
    BY <2>1, TypeStep, LoginStep, PropertyStep DEF IInv
  <2>2. CASE UNCHANGED vars
    <3>1. TypeInv => TypeInv'
      BY <2>2 DEF TypeInv, TypeOK, WellFormed, Resolved, vars, tables, session
    <3>2. LoginInv => LoginInv'
      BY <2>2 DEF vars, tables, session, LoginInv, Insertions, UsersInserted, Overtaken,
         OwnOrStored, IdentityStored, OneUserPerIdentity, Resolved
    <3>3. PropertyInv => PropertyInv'
      BY <2>2 DEF vars, tables, session, PropertyInv, WorkInv, RowsInv, LockInv,
         Change_OK, NewRow_OK, Row_OK, SameTenancy, LeaseFits, OwnersAreStored, StoredUser,
         DealsOnOwnProperty
    <3> QED BY <3>1, <3>2, <3>3 DEF IInv
  <2> QED BY <2>1, <2>2
<1> QED BY <1>1, <1>2, PTL DEF Spec

\* However many first logins of an identity overlap or abort, it gets one row of users.
THEOREM OneUser == Spec => []OneUserPerIdentity
<1>1. IInv => OneUserPerIdentity
  BY DEF IInv, LoginInv
<1> QED BY <1>1, Inductive, PTL

\* Every handler that runs, runs for an identity that has a stored user.
THEOREM HandlersHaveUser == Spec => []ResolvedHasUser
<1>1. IInv => ResolvedHasUser
  BY DEF IInv, LoginInv, IdentityStored, ResolvedHasUser, UsersOf
<1> QED BY <1>1, Inductive, PTL

\* No property or deal is ever stored for a user id that an overtaken first login made up.
THEOREM StoredOwners == Spec => []OwnersAreStored
<1>1. IInv => OwnersAreStored
  BY DEF IInv, PropertyInv, RowsInv
<1> QED BY <1>1, Inductive, PTL

\* RULE D-02 for every interleaving of creations, changes and failures.
THEOREM OwnProperty == Spec => []DealsOnOwnProperty
<1>1. IInv => DealsOnOwnProperty
  BY DEF IInv, PropertyInv, RowsInv
<1> QED BY <1>1, Inductive, PTL

\* RULES P-02 and P-03 hold of every commit that was not overtaken: an illegal change of a
\* property is always a lost update.
THEOREM FreshChanges == Spec => FreshChangesAreLegal
<1> DEFINE Legal(r, p) ==
      LET old == properties[p]
          new == properties'[p]
      IN lock[p] = r /\ old = seen[r] /\ new # old =>
           /\ <<new.owner, new.tenure, new.leased>> = <<old.owner, old.tenure, old.leased>>
           /\ LeaseFits(new.tenure, new.leased)
           /\ old.archived => new.archived
<1>1. ASSUME IInv, [Next]_vars, NEW r \in Requests, NEW p \in Requests PROVE Legal(r, p)
  <2> SUFFICES ASSUME lock[p] = r, properties[p] = seen[r], properties'[p] # properties[p]
               PROVE  Legal(r, p)
    OBVIOUS
  <2>1. pc[r] = "commit" /\ target[r] = p /\ properties[p] # None
    BY <1>1, PortfolioAssumption DEF IInv, PropertyInv, LockInv, WorkInv, Change_OK
  <2>2. \E q \in Requests : CommitProperty(q) \/ InsertProperty(q)
    BY <1>1 DEF Next, Serve, Login, InsertUser, CommitUser, Handle, AnswerWithoutWriting,
       create_property, update_property, archive_property, create_deal, Change, WriteProperty,
       InsertDeal, Abort, Terminated, tables, vars
  <2>3. ASSUME NEW q \in Requests, InsertProperty(q) PROVE FALSE
    <3>1. p = q
      BY <1>1, <2>3 DEF InsertProperty, IInv, TypeInv, TypeOK
    <3> QED BY <1>1, <2>1, <2>3, <3>1 DEF InsertProperty, IInv, PropertyInv, RowsInv, Row_OK
  <2>4. ASSUME NEW q \in Requests, CommitProperty(q) PROVE Legal(r, p)
    <3>1. target[q] = p /\ pc[q] = "commit"
      BY <1>1, <2>4 DEF CommitProperty, IInv, TypeInv, TypeOK
    <3>2. q = r
      BY <1>1, <3>1 DEF IInv, PropertyInv, LockInv
    <3>3. properties'[p] = copy[r]
      BY <1>1, <2>4, <3>1, <3>2 DEF CommitProperty, IInv, TypeInv, TypeOK
    <3> QED BY <1>1, <2>1, <3>3 DEF IInv, PropertyInv, WorkInv, Change_OK, SameTenancy
  <2> QED BY <2>2, <2>3, <2>4
<1>2. IInv /\ [Next]_vars => [\A r, p \in Requests : Legal(r, p)]_vars
  BY <1>1
<1> QED BY <1>2, Inductive, PTL DEF Spec, FreshChangesAreLegal

-----------------------------------------------------------------------------
(* Logins that agree                                                       *)

\* LoginsAgree fails of an overtaken first login, and of nothing else: two requests of one
\* identity that act as different users are not both acting as a stored one.
THEOREM StoredLoginsAgree ==
  Spec => [](\A r, s \in Resolved :
               who[r] = who[s] /\ me[r] # me[s] =>
                 \/ me[r] = r /\ users[r] = None
                 \/ me[s] = s /\ users[s] = None)
<1>1. ASSUME IInv, NEW r \in Resolved, NEW s \in Resolved, who[r] = who[s], me[r] # me[s]
      PROVE  \/ me[r] = r /\ users[r] = None
             \/ me[s] = s /\ users[s] = None
  <2>1. /\ me[r] \in Requests /\ who[r] \in Identities
        /\ me[s] \in Requests /\ who[s] \in Identities
    BY <1>1 DEF IInv, TypeInv, WellFormed, Resolved
  <2>2. ASSUME NEW q \in Resolved
      PROVE  (me[q] = q /\ users[q] = None) \/ users[me[q]] = who[q]
    BY <1>1, <2>2 DEF IInv, LoginInv, OwnOrStored, UsersInserted, Resolved
  <2>3. ~ (users[me[r]] = who[r] /\ users[me[s]] = who[s])
    BY <1>1, <2>1, PortfolioAssumption DEF IInv, LoginInv, OneUserPerIdentity
  <2> QED BY <2>2, <2>3
<1>2. IInv => \A r, s \in Resolved :
                who[r] = who[s] /\ me[r] # me[s] =>
                  \/ me[r] = r /\ users[r] = None
                  \/ me[s] = s /\ users[s] = None
  BY <1>1
<1> QED BY <1>2, Inductive, PTL

-----------------------------------------------------------------------------
(* Progress                                                                *)

\* Request r waits for the end of another first login of its identity, or for a row's lock.
WaitsForLogin(r) == pc[r] = "insert_user" /\ inserting[who[r]] # None
WaitsForRow(r)   == pc[r] = "write" /\ lock[target[r]] # None
Waits(r) == WaitsForLogin(r) \/ WaitsForRow(r)

\* Whom it waits for.
Holder(r) == IF WaitsForLogin(r) THEN inserting[who[r]] ELSE lock[target[r]]

\* No request waits for one that waits: an open first login and the holder of a row's lock have
\* both done their waiting, and their next step is the commit that lets the others on.
THEOREM NoCircleOfWaiters ==
  Spec => [](\A r \in Requests : Waits(r) =>
               /\ Holder(r) \in Requests \ {r}
               /\ pc[Holder(r)] \in {"commit_user", "commit"}
               /\ ~ Waits(Holder(r)))
<1>1. ASSUME IInv, NEW r \in Requests, Waits(r)
      PROVE  /\ Holder(r) \in Requests \ {r}
             /\ pc[Holder(r)] \in {"commit_user", "commit"}
             /\ ~ Waits(Holder(r))
  <2>1. CASE WaitsForLogin(r)
    <3>1. who[r] \in Identities /\ Holder(r) = inserting[who[r]]
      BY <1>1, <2>1 DEF IInv, TypeInv, WellFormed, WaitsForLogin, Holder
    <3>2. Holder(r) \in Requests /\ pc[Holder(r)] = "commit_user"
      BY <1>1, <2>1, <3>1 DEF IInv, TypeInv, TypeOK, LoginInv, Insertions, WaitsForLogin
    <3> QED BY <2>1, <3>2 DEF WaitsForLogin, WaitsForRow, Waits
  <2>2. CASE ~ WaitsForLogin(r)
    <3>1. target[r] \in Requests /\ Holder(r) = lock[target[r]] /\ WaitsForRow(r)
      BY <1>1, <2>2 DEF IInv, TypeInv, WellFormed, WaitsForRow, Waits, Holder
    <3>2. Holder(r) \in Requests /\ pc[Holder(r)] = "commit"
      BY <1>1, <3>1 DEF IInv, TypeInv, TypeOK, PropertyInv, LockInv, WaitsForRow
    <3> QED BY <3>1, <3>2 DEF WaitsForLogin, WaitsForRow, Waits
  <2> QED BY <2>1, <2>2
<1>2. IInv => \A r \in Requests : Waits(r) =>
                /\ Holder(r) \in Requests \ {r}
                /\ pc[Holder(r)] \in {"commit_user", "commit"}
                /\ ~ Waits(Holder(r))
  BY <1>1
<1> QED BY <1>2, Inductive, PTL

\* How many awaits a request at a step may still have before its answer.
Left(step) ==
  CASE step = "new" -> 6
    [] step = "insert_user" -> 5
    [] step = "commit_user" -> 4
    [] step = "handle" -> 3
    [] step = "write" -> 2
    [] step \in {"commit", "insert_property", "insert_deal"} -> 1
    [] step = "done" -> 0

LEMMA LeftValues ==
  /\ Left("new") = 6 /\ Left("insert_user") = 5 /\ Left("commit_user") = 4
  /\ Left("handle") = 3 /\ Left("write") = 2 /\ Left("commit") = 1
  /\ Left("insert_property") = 1 /\ Left("insert_deal") = 1 /\ Left("done") = 0
  /\ \A step \in Steps : Left(step) \in 0 .. 6
<1>1. /\ Left("new") = 6 /\ Left("insert_user") = 5 /\ Left("commit_user") = 4
      /\ Left("handle") = 3 /\ Left("write") = 2 /\ Left("commit") = 1
      /\ Left("insert_property") = 1 /\ Left("insert_deal") = 1 /\ Left("done") = 0
  BY DEF Left
<1> QED BY <1>1 DEF Steps

\* Every step that serves a request takes it nearer to its answer.
LEMMA ServeAdvances ==
  ASSUME TypeInv, NEW r \in Requests, Serve(r)
  PROVE  Left(pc'[r]) < Left(pc[r])
<1> USE LeftValues DEF Goto, Finish
<1>1. pc \in [Requests -> Steps]
  BY DEF TypeInv, TypeOK
<1>2. CASE InsertUser(r) \/ CommitUser(r)
  BY <1>1, <1>2 DEF InsertUser, CommitUser
<1>3. CASE Handle(r)
  BY <1>1, <1>3 DEF Handle, AnswerWithoutWriting, create_property, update_property,
     archive_property, create_deal, Change
<1>4. CASE WriteProperty(r) \/ CommitProperty(r)
  BY <1>1, <1>4 DEF WriteProperty, CommitProperty
<1>5. CASE InsertProperty(r) \/ InsertDeal(r)
  BY <1>1, <1>5 DEF InsertProperty, InsertDeal
<1> QED BY <1>2, <1>3, <1>4, <1>5 DEF Serve

\* A request is finite whatever the others do: each step that serves it takes it nearer to its
\* answer, and no login, failure or step of another request takes it back.
THEOREM RequestsAdvance ==
  Spec => [][\A r \in Requests :
               /\ Left(pc'[r]) <= Left(pc[r])
               /\ Serve(r) => Left(pc'[r]) < Left(pc[r])]_vars
<1>1. ASSUME IInv, IInv', [Next]_vars, NEW r \in Requests
      PROVE  /\ Left(pc'[r]) <= Left(pc[r])
             /\ Serve(r) => Left(pc'[r]) < Left(pc[r])
  <2>1. /\ pc \in [Requests -> Steps] /\ pc'[r] \in Steps
        /\ Left(pc[r]) \in 0 .. 6 /\ Left(pc'[r]) \in 0 .. 6
    BY <1>1, LeftValues DEF IInv, TypeInv, TypeOK
  <2>2. Serve(r) => Left(pc'[r]) < Left(pc[r])
    BY <1>1, ServeAdvances DEF IInv
  <2>3. CASE pc'[r] = pc[r]
    BY <2>1, <2>2, <2>3
  <2>4. ASSUME NEW q \in Requests, (\E i \in Identities : Login(q, i)) \/ Serve(q) \/ Abort(q),
               pc'[r] # pc[r]
        PROVE  Left(pc'[r]) <= Left(pc[r])
    <3>1. q = r
      BY <2>1, <2>4 DEF Login, Serve, InsertUser, CommitUser, Handle, AnswerWithoutWriting,
         create_property, update_property, archive_property, create_deal, Change, WriteProperty,
         CommitProperty, InsertProperty, InsertDeal, Abort, Goto, Finish
    <3>2. CASE \E i \in Identities : Login(r, i)
      <4>1. pc[r] = "new"
        BY <3>2 DEF Login
      <4> QED BY <2>1, <4>1, LeftValues
    <3>3. CASE Serve(r)
      BY <2>1, <2>2, <3>3
    <3>4. CASE Abort(r)
      <4>1. pc'[r] = "done"
        BY <2>1, <3>4 DEF Abort, Finish, Goto
      <4> QED BY <2>1, <4>1, LeftValues
    <3> QED BY <2>4, <3>1, <3>2, <3>3, <3>4
  <2>5. (\E q \in Requests : (\E i \in Identities : Login(q, i)) \/ Serve(q) \/ Abort(q))
        \/ pc' = pc
    BY <1>1 DEF Next, Terminated, vars
  <2> QED BY <2>2, <2>3, <2>4, <2>5
<1>2. IInv /\ IInv' /\ [Next]_vars =>
        [\A r \in Requests : /\ Left(pc'[r]) <= Left(pc[r])
                             /\ Serve(r) => Left(pc'[r]) < Left(pc[r])]_vars
  BY <1>1
<1> QED BY <1>2, Inductive, PTL DEF Spec
=============================================================================
