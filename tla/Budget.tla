------------------------------- MODULE Budget -------------------------------
(***************************************************************************)
(* The spending books of Karmi (src/src/daily_agent/services.py).          *)
(*                                                                         *)
(* Every reply is paid for out of a hold: a budget_reservations row that   *)
(* reserves money and tokens on three counters at once, the account's day  *)
(* (UsageWindow), the account's billing period (UsagePeriod) and the whole *)
(* platform's day (PlatformBudget).  A hold ends by being settled          *)
(* (charged), released (refunded) or reclaimed (charged as unknown after   *)
(* its lease ran out).  Here are the database rows and, as action          *)
(* operators, the functions that change them; Messages.tla says which      *)
(* request calls which of them and when.                                   *)
(***************************************************************************)
EXTENDS Integers, FiniteSets, Functions

CONSTANTS
  Accounts,       \* the paying accounts
  Keys,           \* the idempotency keys clients may use
  AccountOf,      \* the account a key belongs to (keys are scoped by account)
  HoldMicro,      \* estimate_request_cost_micro: the money one hold reserves
  SpendLimit,     \* kind of counter -> its spend_limit_micro
  EverydayLimit,  \* UsageWindow.everyday_limit: requests per account and day
  TokenLimit,     \* UsageWindow.token_limit: tokens per account and day
  TokenHolds,     \* the token estimates a request may be held for
  Lease,          \* RESERVATION_LEASE_SECONDS, in ticks of the clock
  DayLength,      \* ticks per UTC day
  PeriodDays,     \* days per billing period
  MaxClock        \* bound: the clock stops here

Kinds == {"window", "period", "platform"}

ASSUME BudgetAssumption ==
  /\ IsFiniteSet(Accounts)
  /\ IsFiniteSet(Keys)
  /\ AccountOf \in [Keys -> Accounts]
  /\ HoldMicro \in Nat \ {0}
  /\ SpendLimit \in [Kinds -> Nat]
  /\ EverydayLimit \in Nat
  /\ TokenLimit \in Nat
  /\ TokenHolds \subseteq Nat
  /\ Lease \in Nat \ {0}
  /\ DayLength \in Nat \ {0}
  /\ PeriodDays \in Nat \ {0}
  /\ MaxClock \in Nat

VARIABLES
  clock,           \* the wall clock every worker reads
  rows,            \* budget_reservations, one row per key
  reserved,        \* counter -> reserved_micro
  settled,         \* counter -> settled_micro
  everyday,        \* UsageWindow -> everyday_used
  tokensReserved,  \* UsageWindow -> tokens_reserved
  tokensSettled,   \* UsageWindow -> tokens_settled
  ledger,          \* cost_ledger: one entry per settlement
  stolen           \* history: a hold was ended through a copy of another hold

bookVars ==
  <<rows, reserved, settled, everyday, tokensReserved, tokensSettled, ledger, stolen>>

-----------------------------------------------------------------------------
(***************************************************************************)
(* Days, periods and the three counters a hold is written on.              *)
(***************************************************************************)
DayOf(t) == t \div DayLength
Days == {DayOf(t) : t \in 0 .. MaxClock}
Today == DayOf(clock)

WindowOf(a, d) == [kind |-> "window", owner |-> a, at |-> d]
PeriodOf(a, d) == [kind |-> "period", owner |-> a, at |-> d \div PeriodDays]
PlatformOf(d) == [kind |-> "platform", owner |-> "karmi", at |-> d]

Windows == {WindowOf(a, d) : a \in Accounts, d \in Days}
Counters == Windows
            \cup {PeriodOf(a, d) : a \in Accounts, d \in Days}
            \cup {PlatformOf(d) : d \in Days}

\* The day window a hold of key k taken on day d belongs to.
WindowFor(k, d) == WindowOf(AccountOf[k], d)
CountersFor(k, d) ==
  {WindowFor(k, d), PeriodOf(AccountOf[k], d), PlatformOf(d)}

(***************************************************************************)
(* A reservation row.  "hold" numbers the holds the row has carried, which *)
(* the code does not record: it keeps created_at, which no later hold      *)
(* refreshes.                                                              *)
(***************************************************************************)
Statuses == {"none", "reserved", "settled", "released", "unknown"}
Row == [status : Statuses, day : Days, tokens : TokenHolds \cup {0},
        created : 0 .. MaxClock, hold : Nat]
NoRow == [status |-> "none", day |-> 0, tokens |-> 0, created |-> 0, hold |-> 0]

Charge == [key : Keys, hold : Nat, day : Days]
ChargeOf(k, copy) == [key |-> k, hold |-> rows[k].hold, day |-> copy.day]

\* The keys whose hold is open on counter c.
HoldsOn(c) ==
  {k \in Keys : rows[k].status = "reserved" /\ c \in CountersFor(k, rows[k].day)}
\* The settlements recorded against day window w.
ChargesOn(w) == {e \in ledger : WindowFor(e.key, e.day) = w}

BudgetTypeOK ==
  /\ clock \in 0 .. MaxClock
  /\ rows \in [Keys -> Row]
  /\ reserved \in [Counters -> Int]
  /\ settled \in [Counters -> Nat]
  /\ everyday \in [Windows -> Int]
  /\ ledger \in SUBSET Charge
  /\ stolen \in BOOLEAN

TokensTypeOK ==
  /\ tokensReserved \in [Windows -> Int]
  /\ tokensSettled \in [Windows -> Nat]

BudgetInit ==
  /\ clock = 0
  /\ rows = [k \in Keys |-> NoRow]
  /\ reserved = [c \in Counters |-> 0]
  /\ settled = [c \in Counters |-> 0]
  /\ everyday = [w \in Windows |-> 0]
  /\ tokensReserved = [w \in Windows |-> 0]
  /\ tokensSettled = [w \in Windows |-> 0]
  /\ ledger = {}
  /\ stolen = FALSE

-----------------------------------------------------------------------------
(***************************************************************************)
(* Reading the books.                                                      *)
(***************************************************************************)
\* _reservation_is_live: a hold is left alone until its lease has run out.
Unexpired(row, now) == now - row.created < Lease

\* The claim both settle_budget and release_budget start with: UPDATE ...
\* WHERE status = RESERVED.
Claimable(k) == rows[k].status = "reserved"

\* What _reclaim_stale_reservations finds when key k reserves: the expired
\* holds of today's windows, whoever's they are.
StaleOthers(k, now) ==
  {j \in Keys \ {k} :
     Claimable(j) /\ rows[j].day = Today /\ ~Unexpired(rows[j], now)}

\* (mutants of HasRoom and CanWrite: the guards as a bug would leave them)
HasRoomIgnoringSettled(k, tok) ==
  \A c \in CountersFor(k, Today) : reserved[c] + HoldMicro <= SpendLimit[c.kind]
CanAlwaysRewrite(k, seen) == seen.status = "none" => rows[k].status = "none"

\* The guarded UPDATEs of _reserve_hold: window, period and platform in turn.
HasRoom(k, tok) ==
  LET w == WindowFor(k, Today) IN
  /\ \A c \in CountersFor(k, Today) :
       reserved[c] + settled[c] + HoldMicro <= SpendLimit[c.kind]
  /\ everyday[w] < EverydayLimit
  /\ tok > 0 => tokensReserved[w] + tokensSettled[w] + tok <= TokenLimit

\* Whether the row read earlier can still be written: the INSERT needs no row,
\* the reactivating UPDATE needs a row that is not RESERVED (an expired hold
\* that was read is first settled, so it never is).
CanWrite(k, seen) ==
  CASE seen.status = "none" -> rows[k].status = "none"
    [] seen.status = "released" -> ~Claimable(k)
    [] OTHER -> TRUE

-----------------------------------------------------------------------------
(***************************************************************************)
(* Changing the books.                                                     *)
(***************************************************************************)
\* (mutants of Reheld: the lease's end in created_at; the first estimate kept)
ReheldUntil(k, tok) ==
  [status |-> "reserved", day |-> Today, tokens |-> tok, created |-> clock + Lease,
   hold |-> rows[k].hold + 1]
ReheldAsBefore(k, tok) ==
  [status |-> "reserved", day |-> Today,
   tokens |-> IF rows[k].status = "none" THEN tok ELSE rows[k].tokens,
   created |-> rows[k].created, hold |-> rows[k].hold + 1]

\* The row after a hold is taken: inserted, or reactivated with its created_at.
Reheld(k, tok) ==
  [status |-> "reserved", day |-> Today, tokens |-> tok,
   created |-> IF rows[k].status = "none" THEN clock ELSE rows[k].created,
   hold |-> rows[k].hold + 1]

(***************************************************************************)
(* reserve_budget for a key whose row was read as seen at time now: settle *)
(* the key's own expired hold and every other expired hold of the day as   *)
(* unknown spend, then hold HoldMicro and tok tokens.  A settlement moves  *)
(* the amounts of the copy the transaction read.                           *)
(***************************************************************************)
TakeHold(k, seen, tok, now) ==
  LET gone == StaleOthers(k, now)
              \cup {j \in {k} : seen.status = "reserved" /\ Claimable(j)}
      copy(j) == IF j = k THEN seen ELSE rows[j]
      on(c) == {j \in gone : c \in CountersFor(j, copy(j).day)}
      tokensOn(w) == SumFunctionOnSet([j \in gone |-> copy(j).tokens], on(w))
  IN
  /\ rows' = [j \in Keys |->
                 IF j = k THEN Reheld(k, tok)
                 ELSE IF j \in gone THEN [rows[j] EXCEPT !.status = "unknown"]
                 ELSE rows[j]]
  /\ reserved' = [c \in Counters |->
                     reserved[c] - HoldMicro * Cardinality(on(c))
                     + (IF c \in CountersFor(k, Today) THEN HoldMicro ELSE 0)]
  /\ settled' = [c \in Counters |-> settled[c] + HoldMicro * Cardinality(on(c))]
  /\ everyday' = [everyday EXCEPT ![WindowFor(k, Today)] = @ + 1]
  /\ tokensReserved' = [w \in Windows |->
                           tokensReserved[w] - tokensOn(w)
                           + (IF w = WindowFor(k, Today) THEN tok ELSE 0)]
  /\ tokensSettled' = [w \in Windows |-> tokensSettled[w] + tokensOn(w)]
  /\ ledger' = ledger \cup {ChargeOf(j, copy(j)) : j \in gone}
  /\ stolen' = (stolen \/ (k \in gone /\ seen.hold # rows[k].hold))

\* (mutant of Unreserve: the counters of the day it ends on)
UnreserveToday(k, copy) ==
  /\ reserved' = [c \in Counters |->
                     IF c \in CountersFor(k, Today)
                     THEN reserved[c] - HoldMicro ELSE reserved[c]]
  /\ tokensReserved' = [tokensReserved EXCEPT ![WindowFor(k, Today)] = @ - copy.tokens]
  /\ stolen' = (stolen \/ copy.hold # rows[k].hold)

\* Take the hold a copy describes off the three counters it names.
Unreserve(k, copy) ==
  /\ reserved' = [c \in Counters |->
                     IF c \in CountersFor(k, copy.day)
                     THEN reserved[c] - HoldMicro ELSE reserved[c]]
  /\ tokensReserved' =
       [tokensReserved EXCEPT ![WindowFor(k, copy.day)] = @ - copy.tokens]
  /\ stolen' = (stolen \/ copy.hold # rows[k].hold)

(***************************************************************************)
(* settle_budget through the copy of the row the session holds: a copy     *)
(* that is not RESERVED, or a row that no longer is, changes nothing.      *)
(***************************************************************************)
SettleBudget(k, copy, status, micro, tok) ==
  IF copy.status # "reserved" \/ ~Claimable(k)
  THEN UNCHANGED bookVars
  ELSE /\ rows' = [rows EXCEPT ![k].status = status]
       /\ Unreserve(k, copy)
       /\ settled' = [c \in Counters |->
                         IF c \in CountersFor(k, copy.day)
                         THEN settled[c] + micro ELSE settled[c]]
       /\ tokensSettled' = [tokensSettled EXCEPT ![WindowFor(k, copy.day)] = @ + tok]
       /\ ledger' = ledger \cup {ChargeOf(k, copy)}
       /\ UNCHANGED everyday

\* (mutant of ReleaseBudget: no claim, so a charged hold is refunded too)
ReleaseUnclaimed(k, copy) ==
  /\ rows' = [rows EXCEPT ![k].status = "released"]
  /\ Unreserve(k, copy)
  /\ everyday' = [everyday EXCEPT ![WindowFor(k, copy.day)] = @ - 1]
  /\ UNCHANGED <<settled, tokensSettled, ledger>>

(***************************************************************************)
(* release_budget: refund the hold, unless the row is no longer RESERVED.  *)
(* Unlike a settlement it does not look at the copy's own status.          *)
(***************************************************************************)
ReleaseBudget(k, copy) ==
  IF ~Claimable(k)
  THEN UNCHANGED bookVars
  ELSE /\ rows' = [rows EXCEPT ![k].status = "released"]
       /\ Unreserve(k, copy)
       /\ everyday' = [everyday EXCEPT ![WindowFor(k, copy.day)] = @ - 1]
       /\ UNCHANGED <<settled, tokensSettled, ledger>>

Tick ==
  /\ clock < MaxClock
  /\ clock' = clock + 1
  /\ UNCHANGED bookVars
=============================================================================
