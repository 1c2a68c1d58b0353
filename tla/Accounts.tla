------------------------------ MODULE Accounts ------------------------------
(***************************************************************************)
(* Plans, access codes, billing events and the armory                      *)
(* (src/src/daily_agent/api.py and services.py): four kinds of request     *)
(* that read a subscription and the rows of its users, and write back what *)
(* they computed from what they read.                                      *)
(*                                                                         *)
(* The ORM reads without locks and writes, by primary key, only the        *)
(* columns whose value it changed, so every request is a few reads and one *)
(* save, with other requests between them.  The billing webhook is a       *)
(* coroutine that never yields between its read and its commit: events     *)
(* overlap requests of the thread pool but not each other.                 *)
(*                                                                         *)
(* A plan change locks its subscription row from its first flush to its    *)
(* commit; the model does not use that and allows more orders than the     *)
(* database.                                                               *)
(***************************************************************************)
EXTENDS Integers, FiniteSets

CONSTANTS
  Accounts,
  Users,
  AccountOf,     \* user -> account
  TopTier,       \* plans are named by their tier, 1 .. TopTier; 1 is the free plan
  BillingEvents, \* what the billing provider may send, each any number of times
  CodePlans,     \* the plans access codes are for
  MaxCodes,      \* bound: redemptions that write
  Pool,          \* threads of the pool
  Webhook        \* the event loop, which serves the billing webhook

Tiers == 1 .. TopTier
Free == 1
None == [kind |-> "none"]

ASSUME AccountsAssumption ==
  /\ AccountOf \in [Users -> Accounts]
  /\ TopTier \in Nat \ {0}
  /\ CodePlans \subseteq Tiers \ {Free}
  /\ MaxCodes \in Nat
  /\ Webhook \notin Pool
  /\ \A e \in BillingEvents : /\ e.account \in Accounts
                              /\ e.version \in Nat
                              /\ e.type \in {"activated", "renewed", "cancelled"}
                              /\ e.plan \in Tiers

VARIABLES
  sub,       \* account -> its subscription row
  user,      \* user -> its tier columns
  received,  \* the billing events on record
  serving,   \* thread -> the request it serves and what it has read
  coded,     \* history: accounts whose plan a code has written since an event read it
  codes      \* history: redemptions that wrote, for the bound

accountVars == <<sub, user, received, serving, coded, codes>>

Servers == Pool \cup {Webhook}
Subscription == [plan : Tiers, status : {"active", "cancelled"}, version : Nat]
TierColumns == [unlocked : Tiers, theme : Tiers]

Requests ==
  {None}
  \cup [kind : {"armory"}, user : Users]
  \cup [kind : {"theme"}, user : Users, to : Tiers]
  \cup [kind : {"code"}, account : Accounts, plan : CodePlans]
  \cup [kind : {"event"}, account : Accounts, event : BillingEvents]

AccountsTypeOK ==
  /\ sub \in [Accounts -> Subscription]
  /\ user \in [Users -> TierColumns]
  /\ received \subseteq BillingEvents
  /\ serving \in [Servers -> [ask : Requests, pc : {"idle", "sub", "users", "save"},
                              sub : Subscription, seen : [Users -> TierColumns]]]
  /\ coded \subseteq Accounts
  /\ codes \in 0 .. MaxCodes

NewSubscription == [plan |-> Free, status |-> "active", version |-> 0]
NewColumns == [unlocked |-> Free, theme |-> Free]
Idle == [ask |-> None, pc |-> "idle", sub |-> NewSubscription,
         seen |-> [u \in Users |-> NewColumns]]

AccountsInit ==
  /\ sub = [a \in Accounts |-> NewSubscription]
  /\ user = [u \in Users |-> NewColumns]
  /\ received = {}
  /\ serving = [t \in Servers |-> Idle]
  /\ coded = {}
  /\ codes = 0

-----------------------------------------------------------------------------
(***************************************************************************)
(* What the handlers compute.                                              *)
(***************************************************************************)
\* plan_policy and tier_for_plan: the tier of an active plan, else the free one.
TierOf(s) == IF s.status = "active" THEN s.plan ELSE Free

Lower(x, y) == IF x < y THEN x ELSE y

\* (mutant of Synced: the theme is not clamped)
SyncedUnclamped(row, s) == [row EXCEPT !.unlocked = TierOf(s)]

\* sync_theme_progression, and sync_account_progression for each user: the tier
\* of the effective plan, with the theme clamped to it.
Synced(row, s) == [unlocked |-> TierOf(s), theme |-> Lower(row.theme, TierOf(s))]

\* An UPDATE of the ORM: only columns whose value the session changed.
Column(read, computed, current) == IF computed = read THEN current ELSE computed
Written(read, computed, row) ==
  [unlocked |-> Column(read.unlocked, computed.unlocked, row.unlocked),
   theme |-> Column(read.theme, computed.theme, row.theme)]

\* check_users_theme_le_unlocked, which fails the statement and with it the request.
RowAllowed(row) == row.theme <= row.unlocked

Account(q) == IF q.ask.kind \in {"armory", "theme"} THEN AccountOf[q.ask.user] ELSE q.ask.account
Members(a) == {u \in Users : AccountOf[u] = a}
Finish(t) == serving' = [serving EXCEPT ![t] = Idle]

-----------------------------------------------------------------------------
(***************************************************************************)
(* GET /v1/armory and PUT /v1/armory/active-theme.                         *)
(***************************************************************************)
ReadUser(t, ask) ==
  /\ serving[t].pc = "idle"
  /\ serving' = [serving EXCEPT ![t] =
       [Idle EXCEPT !.ask = ask, !.pc = "sub", !.seen[ask.user] = user[ask.user]]]
  /\ UNCHANGED <<sub, user, received, coded, codes>>

\* get_armory
GetArmory(t) == \E u \in Users : ReadUser(t, [kind |-> "armory", user |-> u])

\* update_active_theme
PutTheme(t) == \E u \in Users, k \in Tiers : ReadUser(t, [kind |-> "theme", user |-> u, to |-> k])

\* The read of sync_theme_progression; a theme above the tier is refused
\* (TIER_LOCKED) with nothing written.
ReadPlan(t) ==
  LET q == serving[t] IN
  /\ q.ask.kind \in {"armory", "theme"} /\ q.pc = "sub"
  /\ LET s == sub[Account(q)]
         locked == q.ask.kind = "theme" /\ q.ask.to > TierOf(s)
     IN serving' = [serving EXCEPT ![t] = IF locked THEN Idle
                                          ELSE [q EXCEPT !.pc = "save", !.sub = s]]
  /\ UNCHANGED <<sub, user, received, coded, codes>>

\* The flush of the sync, then for a theme the flush of the chosen one, and the
\* commit; a row the table's check refuses ends the request with an error.
SaveTheme(t) ==
  LET q == serving[t]
      u == q.ask.user
      synced == Synced(q.seen[u], q.sub)
      first == Written(q.seen[u], synced, user[u])
      last == IF q.ask.kind = "theme"
              THEN [first EXCEPT !.theme = Column(synced.theme, q.ask.to, @)] ELSE first
  IN
  /\ q.ask.kind \in {"armory", "theme"} /\ q.pc = "save"
  /\ user' = [user EXCEPT ![u] = IF RowAllowed(first) /\ RowAllowed(last) THEN last ELSE @]
  /\ Finish(t)
  /\ UNCHANGED <<sub, received, coded, codes>>

-----------------------------------------------------------------------------
(***************************************************************************)
(* POST /v1/access-code and POST /webhooks/billing-sandbox.                *)
(***************************************************************************)
\* Codes never downgrade: the code's plan against the effective plan.
Upgrades(s, plan) == plan > TierOf(s)

\* redeem_access_code up to its read of the subscription; a code that changes
\* nothing is answered from what was read.
RedeemCode(t) ==
  \E a \in Accounts, plan \in CodePlans :
    /\ serving[t].pc = "idle" /\ codes < MaxCodes
    /\ Upgrades(sub[a], plan)
    /\ serving' = [serving EXCEPT ![t] =
         [Idle EXCEPT !.ask = [kind |-> "code", account |-> a, plan |-> plan],
                      !.pc = "users", !.sub = sub[a]]]
    /\ codes' = codes + 1
    /\ UNCHANGED <<sub, user, received, coded>>

\* (mutant of Stale: an older event is applied like a newer one)
StaleNever(e, s) == e.version = s.version

Stale(e, s) == e.version <= s.version

\* billing_sandbox up to the read of the users: an event on record is answered as
\* a duplicate (or refused, if its payload differs), a stale one is only recorded.
ReceiveEvent ==
  \E e \in BillingEvents :
    LET s == sub[e.account] IN
    /\ serving[Webhook].pc = "idle"
    /\ \A known \in received : known.id # e.id
    /\ serving' = [serving EXCEPT ![Webhook] =
         [Idle EXCEPT !.ask = [kind |-> "event", account |-> e.account, event |-> e],
                      !.pc = IF Stale(e, s) THEN "save" ELSE "users", !.sub = s]]
    /\ UNCHANGED <<sub, user, received, coded, codes>>

\* The read of the users in sync_account_progression, after the subscription.
ReadUsers(t) ==
  /\ serving[t].pc = "users"
  /\ serving' = [serving EXCEPT ![t].pc = "save", ![t].seen = user]
  /\ UNCHANGED <<sub, user, received, coded, codes>>

\* What the request makes of the subscription it read.
Changed(q) ==
  IF q.ask.kind = "code" THEN [q.sub EXCEPT !.plan = q.ask.plan]
  ELSE [plan |-> q.ask.event.plan, version |-> q.ask.event.version,
        status |-> IF q.ask.event.type = "cancelled" THEN "cancelled" ELSE "active"]

\* The columns of the subscription that differ from what was read.
WrittenSub(q, row) ==
  LET new == Changed(q) IN
  [plan |-> Column(q.sub.plan, new.plan, row.plan),
   status |-> Column(q.sub.status, new.status, row.status),
   version |-> Column(q.sub.version, new.version, row.version)]

\* The users of the account after sync_account_progression.
SyncedUsers(q) ==
  [u \in Users |-> IF u \in Members(q.ask.account)
                   THEN Written(q.seen[u], Synced(q.seen[u], Changed(q)), user[u])
                   ELSE user[u]]

\* The flush and the commit of a plan change: all of it or, when a user's row
\* fails the table's check, none of it, the event's record included.
SavePlan(t) ==
  LET q == serving[t]
      a == q.ask.account
      users == SyncedUsers(q)
  IN
  /\ q.ask.kind \in {"code", "event"} /\ q.pc = "save"
  /\ q.ask.kind = "event" => ~Stale(q.ask.event, q.sub)
  /\ IF \A u \in Users : RowAllowed(users[u])
     THEN /\ sub' = [sub EXCEPT ![a] = WrittenSub(q, @)]
          /\ user' = users
          /\ received' = IF q.ask.kind = "event" THEN received \cup {q.ask.event} ELSE received
          /\ coded' = CASE q.ask.kind = "code" -> coded \cup {a}
                       [] q.ask.kind = "event" /\ sub[a].plan = q.sub.plan -> coded \ {a}
                       [] OTHER -> coded
     ELSE UNCHANGED <<sub, user, received, coded>>
  /\ Finish(t)
  /\ UNCHANGED codes

\* A stale event is recorded and changes nothing else.
RecordStale ==
  LET q == serving[Webhook] IN
  /\ q.ask.kind = "event" /\ q.pc = "save" /\ Stale(q.ask.event, q.sub)
  /\ received' = received \cup {q.ask.event}
  /\ Finish(Webhook)
  /\ UNCHANGED <<sub, user, coded, codes>>

-----------------------------------------------------------------------------
Serve(t) == ReadPlan(t) \/ SaveTheme(t) \/ ReadUsers(t) \/ SavePlan(t)

AccountsNext ==
  \/ \E t \in Pool : GetArmory(t) \/ PutTheme(t) \/ RedeemCode(t)
  \/ \E t \in Servers : Serve(t)
  \/ ReceiveEvent
  \/ RecordStale

AccountsSpec == AccountsInit /\ [][AccountsNext]_accountVars

FairAccounts ==
  /\ \A t \in Servers : WF_accountVars(Serve(t)) /\ WF_accountVars(t = Webhook /\ RecordStale)
  /\ \A u \in Users : SF_accountVars(\E t \in Pool : ReadUser(t, [kind |-> "armory", user |-> u]))

-----------------------------------------------------------------------------
(***************************************************************************)
(* Properties.                                                             *)
(***************************************************************************)
\* However events arrive (late, again, in any order) and whatever overlaps them,
\* the subscription holds what the event with the highest version said; only the
\* plan may since have been written by an access code (billing_sandbox).
NewestEventWins ==
  \A a \in Accounts :
    LET of == {e \in received : e.account = a /\ e.version > 0}
        newest == {e \in of : \A d \in of : d.version <= e.version}
    IN IF of = {} THEN sub[a].version = 0 /\ sub[a].status = "active"
       ELSE \E e \in newest :
              /\ sub[a].version = e.version
              /\ (sub[a].status = "cancelled") = (e.type = "cancelled")
              /\ a \notin coded => sub[a].plan = e.plan

\* "Codes never downgrade a plan" (access_codes.py): a redemption never leaves the
\* account with a lower effective plan than it had.
NeverDowngrades ==
  [][\A t \in Pool : SavePlan(t) =>
       \A a \in Accounts : TierOf(sub'[a]) >= TierOf(sub[a])]_accountVars

\* A stale tier that an overlapping request wrote does not last: as users go on
\* opening the armory, every user's unlocked tier comes to be, and stays, that of
\* the account's effective plan (sync_theme_progression, column-wise writes and
\* the table's check included).
ArmorySettles ==
  <>[](\A u \in Users : user[u].unlocked = TierOf(sub[AccountOf[u]]))
=============================================================================
