------------------------------ MODULE Portfolio ------------------------------
(***************************************************************************)
(* Users, properties and the creation of deals, as concurrent requests     *)
(* drive them: get_current_user with UserService, PropertyService, and     *)
(* DealService.create_deal, each over the request's own session.           *)
(*                                                                         *)
(* Every request resolves its identity (the `sub` claim) to a row of users *)
(* before its handler runs, and inserts the row on a first login.  A       *)
(* request's name doubles as the uuid4 of the user, the property or the    *)
(* deal it creates: each table has ids of its own.                         *)
(* An INSERT ... ON CONFLICT waits while another open transaction has      *)
(* inserted the same key; an UPDATE waits for the row's lock.              *)
(***************************************************************************)
EXTENDS Naturals, FiniteSets

CONSTANTS
  Identities,  \* Supabase users
  Requests,
  None,
  Details,     \* contents of the fields PATCH /properties changes
  MaxInFlight  \* bound: requests being served at the same time

Tenures == {"FREEHOLD", "LEASEHOLD"}

\* leased: whether lease_years_remaining is given.
Property ==
  [owner : Requests, tenure : Tenures, leased : BOOLEAN, details : Details, archived : BOOLEAN]

Deal == [user : Requests, property : Requests]

ASSUME PortfolioAssumption ==
  /\ None \notin Requests \cup Identities \cup Property \cup Deal
  /\ MaxInFlight \in Nat \ {0}

VARIABLES
  \* committed tables, by id
  users,       \* the identity of each user row
  properties,
  deals,
  \* what open transactions hold
  inserting,   \* the transaction that has inserted a users row for an identity
  lock,        \* the transaction that has updated a properties row
  \* memory of each request
  pc,          \* the await the request is at
  who,         \* its identity
  me,          \* current_user.id
  target,      \* the id of the property it works on
  copy,        \* its in-memory Property or Deal
  seen         \* history: the row `copy` was made from

tables  == <<users, properties, deals>>
session == <<me, target, copy, seen>>
vars    == <<tables, inserting, lock, pc, who, session>>

Steps ==
  {"new", "insert_user", "commit_user", "handle", "write", "commit", "insert_property",
   "insert_deal", "done"}

Init ==
  /\ users = [u \in Requests |-> None]
  /\ properties = [p \in Requests |-> None]
  /\ deals = [d \in Requests |-> None]
  /\ inserting = [i \in Identities |-> None]
  /\ lock = [p \in Requests |-> None]
  /\ pc = [r \in Requests |-> "new"]
  /\ who = [r \in Requests |-> None]
  /\ me = [r \in Requests |-> None]
  /\ target = [r \in Requests |-> None]
  /\ copy = [r \in Requests |-> None]
  /\ seen = [r \in Requests |-> None]
-------------------------------------------------------------------------------
InFlight == {r \in Requests : pc[r] \notin {"new", "done"}}

Goto(r, step) == pc' = [pc EXCEPT ![r] = step]

UsersOf(i) == {u \in Requests : users[u] = i}

\* Mutant: the locks of a transaction survive it.
Unlocked_never(r) == UNCHANGED <<inserting, lock>>

\* The end of r's transaction: what waits for it may go on.
Unlocked(r) ==
  /\ inserting' = [i \in Identities |-> IF inserting[i] = r THEN None ELSE inserting[i]]
  /\ lock' = [p \in Requests |-> IF lock[p] = r THEN None ELSE lock[p]]

\* The answer, and the end of the session.
Finish(r) ==
  /\ Goto(r, "done")
  /\ me' = [me EXCEPT ![r] = None]
  /\ target' = [target EXCEPT ![r] = None]
  /\ copy' = [copy EXCEPT ![r] = None]
  /\ seen' = [seen EXCEPT ![r] = None]
-------------------------------------------------------------------------------
(* get_current_user                                                        *)

\* Mutant: the `sub` claim is taken for the platform's user id.
Login_sub(r, i) ==
  /\ pc[r] = "new"
  /\ Cardinality(InFlight) < MaxInFlight
  /\ who' = [who EXCEPT ![r] = i]
  /\ me' = [me EXCEPT ![r] = i]
  /\ Goto(r, IF UsersOf(i) = {} THEN "insert_user" ELSE "handle")
  /\ UNCHANGED <<tables, inserting, lock, target, copy, seen>>

\* find_by_supabase_auth_id; the User of a first login gets a fresh id in memory.
Login(r, i) ==
  /\ pc[r] = "new"
  /\ Cardinality(InFlight) < MaxInFlight
  /\ who' = [who EXCEPT ![r] = i]
  /\ \/ \E u \in UsersOf(i) :
          /\ me' = [me EXCEPT ![r] = u]
          /\ Goto(r, "handle")
     \/ /\ UsersOf(i) = {}
        /\ me' = [me EXCEPT ![r] = r]
        /\ Goto(r, "insert_user")
  /\ UNCHANGED <<tables, inserting, lock, target, copy, seen>>

\* Mutant: the INSERT has no ON CONFLICT and the column no unique index.
InsertUser_unchecked(r) ==
  /\ pc[r] = "insert_user"
  /\ inserting[who[r]] = None
  /\ inserting' = [inserting EXCEPT ![who[r]] = r]
  /\ Goto(r, "commit_user")
  /\ UNCHANGED <<tables, lock, who, session>>

\* UserRepository.save: nothing is inserted when the identity has a row by now.
InsertUser(r) ==
  /\ pc[r] = "insert_user"
  /\ inserting[who[r]] = None
  /\ inserting' = IF UsersOf(who[r]) = {} THEN [inserting EXCEPT ![who[r]] = r] ELSE inserting
  /\ Goto(r, "commit_user")
  /\ UNCHANGED <<tables, lock, who, session>>

\* Mutant: get_current_user leaves the commit to the route, and this route only reads.
CommitUser_rolled_back(r) ==
  /\ pc[r] = "commit_user"
  /\ Unlocked(r)
  /\ Goto(r, "handle")
  /\ UNCHANGED <<tables, who, session>>

\* db.commit() in get_current_user.
CommitUser(r) ==
  /\ pc[r] = "commit_user"
  /\ users' = IF inserting[who[r]] = r THEN [users EXCEPT ![r] = who[r]] ELSE users
  /\ Unlocked(r)
  /\ Goto(r, "handle")
  /\ UNCHANGED <<properties, deals, who, session>>
-------------------------------------------------------------------------------
(* The handlers, up to their first write                                   *)

\* PropertyRepository.find_by_id_for_user.
Finds(user, p) == properties[p] # None /\ properties[p].owner = user

\* A property of LEASEHOLD tenure has lease years and a FREEHOLD one has none.
LeaseFits(tenure, leased) == leased = (tenure = "LEASEHOLD")

\* A handler that only reads, a NotFoundError or a DomainError.
AnswerWithoutWriting(r) ==
  /\ pc[r] = "handle"
  /\ Finish(r)
  /\ UNCHANGED <<tables, inserting, lock, who>>

create_property(r, tenure, leased, details) ==
  /\ pc[r] = "handle"
  /\ LeaseFits(tenure, leased)
  /\ copy' = [copy EXCEPT ![r] =
       [owner |-> me[r], tenure |-> tenure, leased |-> leased, details |-> details,
        archived |-> FALSE]]
  /\ target' = [target EXCEPT ![r] = r]
  /\ Goto(r, "insert_property")
  /\ UNCHANGED <<tables, inserting, lock, who, me, seen>>

\* Load p for this user, change the copy in memory, write it back later.
Change(r, p, property) ==
  /\ pc[r] = "handle"
  /\ Finds(me[r], p)
  /\ copy' = [copy EXCEPT ![r] = property]
  /\ seen' = [seen EXCEPT ![r] = properties[p]]
  /\ target' = [target EXCEPT ![r] = p]
  /\ Goto(r, "write")
  /\ UNCHANGED <<tables, inserting, lock, who, me>>

\* Mutant: the Property rebuilt from the row takes the default is_archived = False.
update_property_defaults(r, p, details) ==
  Change(r, p, [properties[p] EXCEPT !.details = details, !.archived = FALSE])

\* No guard on archived properties.
update_property(r, p, details) == Change(r, p, [properties[p] EXCEPT !.details = details])

archive_property(r, p) == Change(r, p, [properties[p] EXCEPT !.archived = TRUE])

\* Mutant: the property is looked up by id alone.
create_deal_any_property(r, p) ==
  /\ pc[r] = "handle"
  /\ properties[p] # None
  /\ copy' = [copy EXCEPT ![r] = [user |-> me[r], property |-> p]]
  /\ target' = [target EXCEPT ![r] = p]
  /\ Goto(r, "insert_deal")
  /\ UNCHANGED <<tables, inserting, lock, who, me, seen>>

\* An archived property is as good as any other here.
create_deal(r, p) ==
  /\ pc[r] = "handle"
  /\ Finds(me[r], p)
  /\ copy' = [copy EXCEPT ![r] = [user |-> me[r], property |-> p]]
  /\ target' = [target EXCEPT ![r] = p]
  /\ Goto(r, "insert_deal")
  /\ UNCHANGED <<tables, inserting, lock, who, me, seen>>
-------------------------------------------------------------------------------
(* Writes and commits                                                      *)

\* PropertyRepository.update: every mutable column, is_archived included, from the copy.
WriteProperty(r) ==
  /\ pc[r] = "write"
  /\ lock[target[r]] = None
  /\ lock' = [lock EXCEPT ![target[r]] = r]
  /\ Goto(r, "commit")
  /\ UNCHANGED <<tables, inserting, who, session>>

CommitProperty(r) ==
  /\ pc[r] = "commit"
  /\ properties' = [properties EXCEPT ![target[r]] = copy[r]]
  /\ Unlocked(r)
  /\ Finish(r)
  /\ UNCHANGED <<users, deals, who>>

\* Mutant: properties.user_id has no foreign key.
InsertProperty_no_key(r) ==
  /\ pc[r] = "insert_property"
  /\ properties' = [properties EXCEPT ![r] = copy[r]]
  /\ Finish(r)
  /\ UNCHANGED <<users, deals, inserting, lock, who>>

\* The row is flushed by the commit; its foreign key wants a stored user, or the request fails.
InsertProperty(r) ==
  /\ pc[r] = "insert_property"
  /\ properties' = IF users[copy[r].owner] = None
                   THEN properties
                   ELSE [properties EXCEPT ![r] = copy[r]]
  /\ Finish(r)
  /\ UNCHANGED <<users, deals, inserting, lock, who>>

\* The same for deals, with foreign keys to users and properties.
InsertDeal(r) ==
  /\ pc[r] = "insert_deal"
  /\ deals' = IF users[copy[r].user] = None \/ properties[copy[r].property] = None
              THEN deals
              ELSE [deals EXCEPT ![r] = copy[r]]
  /\ Finish(r)
  /\ UNCHANGED <<users, properties, inserting, lock, who>>

\* An exception, a lost connection or a crash: the open transaction rolls back.
Abort(r) ==
  /\ r \in InFlight
  /\ Unlocked(r)
  /\ Finish(r)
  /\ UNCHANGED <<tables, who>>

Handle(r) ==
  \/ AnswerWithoutWriting(r)
  \/ \E tenure \in Tenures, leased \in BOOLEAN, details \in Details :
       create_property(r, tenure, leased, details)
  \/ \E p \in Requests :
       \/ \E details \in Details : update_property(r, p, details)
       \/ archive_property(r, p)
       \/ create_deal(r, p)

Serve(r) ==
  \/ InsertUser(r) \/ CommitUser(r) \/ Handle(r)
  \/ WriteProperty(r) \/ CommitProperty(r) \/ InsertProperty(r) \/ InsertDeal(r)

Terminated ==
  /\ \A r \in Requests : pc[r] = "done"
  /\ UNCHANGED vars

Next ==
  \/ \E r \in Requests :
       \/ \E i \in Identities : Login(r, i)
       \/ Serve(r)
       \/ Abort(r)
  \/ Terminated

Spec == Init /\ [][Next]_vars

\* The event loop runs every request whose await is over; nothing makes a user send one.
FairSpec == Spec /\ \A r \in Requests : WF_vars(Serve(r))
-------------------------------------------------------------------------------
(* Properties                                                              *)

\* Every row, lock and variable of a request has a value of its type.
TypeOK ==
  /\ users \in [Requests -> Identities \cup {None}]
  /\ properties \in [Requests -> Property \cup {None}]
  /\ deals \in [Requests -> Deal \cup {None}]
  /\ inserting \in [Identities -> Requests \cup {None}]
  /\ lock \in [Requests -> Requests \cup {None}]
  /\ pc \in [Requests -> Steps]
  /\ who \in [Requests -> Identities \cup {None}]
  /\ me \in [Requests -> Requests \cup {None}]
  /\ target \in [Requests -> Requests \cup {None}]
  /\ copy \in [Requests -> Property \cup Deal \cup {None}]
  /\ seen \in [Requests -> Property \cup {None}]

\* However many first logins of an identity overlap, and whichever of them abort, the identity
\* gets one row of users.
OneUserPerIdentity ==
  \A u, v \in Requests : users[u] = users[v] /\ users[u] # None => u = v

Resolved == {r \in Requests : pc[r] \notin {"new", "insert_user", "commit_user", "done"}}

\* Once a handler runs, its identity has a stored user, even when the handler holds the id of a
\* row that was never inserted: whatever it then fails to do, the next request can do.
ResolvedHasUser == \A r \in Resolved : UsersOf(who[r]) # {}

StoredUser(u, i) == users[u] # None /\ users[u] = i

\* A stored property or deal belongs to a stored user of the identity that asked for it, never
\* to the id an overtaken first login kept in memory.
OwnersAreStored ==
  \A r \in Requests :
    /\ properties[r] # None => StoredUser(properties[r].owner, who[r])
    /\ deals[r] # None => StoredUser(deals[r].user, who[r])

\* RULE D-02: a deal and its property have the same owner, whatever happened to the property
\* between the check and the insert.
DealsOnOwnProperty ==
  \A d \in Requests :
    deals[d] # None =>
      /\ properties[deals[d].property] # None
      /\ properties[deals[d].property].owner = deals[d].user

\* RULES P-02 and P-03 for a request that was not overtaken: its commit keeps the property's
\* owner, tenure and lease, and never brings an archived property back.
FreshChangesAreLegal ==
  [][\A r, p \in Requests :
       LET old == properties[p]
           new == properties'[p]
       IN lock[p] = r /\ old = seen[r] /\ new # old =>
            /\ <<new.owner, new.tenure, new.leased>> = <<old.owner, old.tenure, old.leased>>
            /\ LeaseFits(new.tenure, new.leased)
            /\ old.archived => new.archived]_vars

\* Every request is answered: none waits for ever for another's first login or row lock.
EveryRequestAnswered == \A r \in Requests : pc[r] # "new" ~> pc[r] = "done"

\* UserService.get_or_create_user: "calling twice with the same supabase_auth_id returns the
\* same User record": requests of one identity act as one user.
LoginsAgree ==
  \A r, s \in Resolved : who[r] = who[s] => me[r] = me[s]
===============================================================================
