------------------------------ MODULE Identity ------------------------------
(***************************************************************************)
(* How users come to be (verify_clerk_token in                             *)
(* src/src/daily_agent/security.py and seed_development_identity in        *)
(* services.py): a subject of the identity provider becomes a user, in an  *)
(* account of its own, on first sight, and the development user of a role  *)
(* is seeded when a token is asked for.                                    *)
(*                                                                         *)
(* Several threads may see a new subject, or seed a role, at the same      *)
(* time; only subjects have a unique index.                                *)
(***************************************************************************)
EXTENDS Integers, FiniteSets

CONSTANTS
  Subjects,    \* subjects of the identity provider
  MaxIds,      \* bound: users whose insert is tried
  Doors        \* the threads that authenticate

Roles == {"customer", "admin"}
Nobody == "nobody"  \* clerk_subject of a development user

ASSUME IdentityAssumption ==
  /\ MaxIds \in Nat
  /\ Nobody \notin Subjects

VARIABLES
  accounts,  \* accounts, each with its subscription
  users,     \* users
  door,      \* thread -> what it authenticates
  given,     \* history: the users subjects were let in as
  lastId     \* users tried

identityVars == <<accounts, users, door, given, lastId>>

User == [id : 1 .. MaxIds, account : 1 .. MaxIds, subject : Subjects \cup {Nobody},
         role : Roles]

IdentityTypeOK ==
  /\ accounts \subseteq 1 .. MaxIds
  /\ users \subseteq User
  /\ door \in [Doors -> [pc : {"free", "provision", "seed"}, subject : Subjects \cup {Nobody},
                         role : Roles, account : {{}} \cup {{a} : a \in 1 .. MaxIds}]]
  /\ given \subseteq [subject : Subjects, user : 1 .. MaxIds]
  /\ lastId \in 0 .. MaxIds

Closed == [pc |-> "free", subject |-> Nobody, role |-> "customer", account |-> {}]

IdentityInit ==
  /\ accounts = {} /\ users = {} /\ given = {}
  /\ door = [d \in Doors |-> Closed]
  /\ lastId = 0

Of(s) == {u \in users : u.subject = s}
LetIn(s, u) == given' = given \cup {[subject |-> s, user |-> u.id]}
Close(d) == door' = [door EXCEPT ![d] = Closed]

-----------------------------------------------------------------------------
\* verify_clerk_token: a known subject is its user, an unknown one is provisioned.
SeeSubject(d) ==
  \E s \in Subjects :
    /\ door[d].pc = "free"
    /\ \/ /\ Of(s) # {}
          /\ \E u \in Of(s) : LetIn(s, u)
          /\ UNCHANGED door
       \/ /\ Of(s) = {}
          /\ door' = [door EXCEPT ![d] = [Closed EXCEPT !.pc = "provision", !.subject = s]]
          /\ UNCHANGED given
    /\ UNCHANGED <<accounts, users, lastId>>

\* The account, its subscription and the user, committed together.
Provision(d) ==
  LET s == door[d].subject
      u == [id |-> lastId + 1, account |-> lastId + 1, subject |-> s, role |-> "customer"]
  IN
  /\ door[d].pc = "provision" /\ Of(s) = {} /\ lastId < MaxIds
  /\ accounts' = accounts \cup {u.account}
  /\ users' = users \cup {u}
  /\ LetIn(s, u)
  /\ lastId' = lastId + 1
  /\ Close(d)

\* (mutant of LeftBehind: the account was committed before the user was tried)
LeftBehindAccount(id) == {id}

\* What the rollback of a lost provisioning leaves in the database.
LeftBehind(id) == {}

\* uq_users_clerk_subject refuses the user: everything is rolled back, and the
\* winner's user is let in.
LoseProvision(d) ==
  LET s == door[d].subject IN
  /\ door[d].pc = "provision" /\ Of(s) # {} /\ lastId < MaxIds
  /\ accounts' = accounts \cup LeftBehind(lastId + 1)
  /\ lastId' = lastId + 1
  /\ \E u \in Of(s) : LetIn(s, u)
  /\ Close(d)
  /\ UNCHANGED users

-----------------------------------------------------------------------------
\* seed_development_identity: a user of the role is there, or the reads on which
\* a new one is based.
SeedRole(d) ==
  \E r \in Roles :
    /\ door[d].pc = "free" /\ \A u \in users : u.role # r
    /\ \E some \in IF accounts = {} THEN {{}} ELSE {{a} : a \in accounts} :
         door' = [door EXCEPT ![d] = [Closed EXCEPT !.pc = "seed", !.role = r, !.account = some]]
    /\ UNCHANGED <<accounts, users, given, lastId>>

\* The new user, in the account read or in a new one with its subscription.  No
\* index stops two threads from seeding a role each.
Seed(d) ==
  LET u == [id |-> lastId + 1, role |-> door[d].role, subject |-> Nobody,
            account |-> IF door[d].account = {} THEN lastId + 1
                        ELSE CHOOSE a \in door[d].account : TRUE]
  IN
  /\ door[d].pc = "seed" /\ lastId < MaxIds
  /\ accounts' = accounts \cup {u.account}
  /\ users' = users \cup {u}
  /\ lastId' = lastId + 1
  /\ Close(d)
  /\ UNCHANGED given

IdentityNext ==
  \E d \in Doors : SeeSubject(d) \/ Provision(d) \/ LoseProvision(d) \/ SeedRole(d) \/ Seed(d)

IdentitySpec == IdentityInit /\ [][IdentityNext]_identityVars

-----------------------------------------------------------------------------
\* A subject is one user in one account, however many of its requests arrive
\* first, and provisioning that lost the race leaves no account behind
\* (verify_clerk_token).
OneIdentity ==
  /\ \A g, h \in given : g.subject = h.subject => g.user = h.user
  /\ \A a \in accounts : \E u \in users : u.account = a
  /\ \A u \in users : u.account \in accounts
=============================================================================
