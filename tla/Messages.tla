------------------------------ MODULE Messages ------------------------------
(***************************************************************************)
(* POST /v1/messages and /v1/runs/{id}/regenerate                          *)
(* (src/src/daily_agent/api.py, execute_message).                          *)
(*                                                                         *)
(* A request looks its key up, reads the key's reservation row, commits a  *)
(* hold and two provider-request slots, asks the model outside any         *)
(* transaction, and commits the run together with the settlement.  Each of *)
(* these is a step of its own here, because other requests, a worker's     *)
(* death and the clock may come between any two of them.                   *)
(***************************************************************************)
EXTENDS Budget

CONSTANTS
  Requests,      \* the requests that arrive, each at most once
  Bodies,        \* what a message says (its request_hash)
  TokensOf,      \* body -> the token estimate it is held for
  Paid,          \* the accounts on a plan with a price
  Live,          \* TRUE when the model gateway is live
  MaxAttempts,   \* provider requests one reply may make
  GatewayLimit,  \* gateway_daily_request_limit
  PaidReserve,   \* gateway_paid_reserved_requests
  Costs,         \* what measured_cost_micro may return, None for unknown
  Spends,        \* what measured_tokens may return, None for unknown
  None           \* no key, no run, no request

VARIABLES
  req,          \* the handler of each request: where it is and what it has read
  reply,        \* what each request was answered
  runs,         \* key -> the stored Run (and its outbox event), or None
  gatewayUsed,  \* gateway_request_days: day -> requests_used
  made          \* history: day -> provider requests made by handlers that ended

messageVars == <<req, reply, runs, gatewayUsed, made>>
vars == <<clock, bookVars, messageVars>>

Run == [author : Requests, body : Bodies, prev : Keys \cup {None}, usable : BOOLEAN]

ASSUME MessagesAssumption ==
  /\ IsFiniteSet(Requests)
  /\ TokensOf \in [Bodies -> TokenHolds]
  /\ Paid \subseteq Accounts
  /\ Live \in BOOLEAN
  /\ MaxAttempts \in Nat \ {0}
  /\ GatewayLimit \in Nat
  /\ PaidReserve \in 0 .. GatewayLimit
  /\ Costs \subseteq (0 .. HoldMicro) \cup {None}
  /\ Spends \subseteq Nat \cup {None}
  /\ None \notin Keys \cup Bodies \cup Requests \cup Run \cup Nat

-----------------------------------------------------------------------------
Phases == {"idle", "looked", "read", "generating", "done", "crashed"}
Handler == [pc : Phases, key : Keys \cup {None}, body : Bodies \cup {None},
            prev : Keys \cup {None}, seen : Row, now : 0 .. MaxClock,
            held : Row, day : Days]
Idle == [pc |-> "idle", key |-> None, body |-> None, prev |-> None,
         seen |-> NoRow, now |-> 0, held |-> NoRow, day |-> 0]

\* A reply is the stored run it shows, or "refused": any of the error answers
\* (409 conflict or in flight, 429 allowance or capacity, 500).
Reply == [kind : {"none", "replied", "refused"},
          key : Keys \cup {None}, author : Requests \cup {None}]
NoReply == [kind |-> "none", key |-> None, author |-> None]
Refused == [NoReply EXCEPT !.kind = "refused"]

HandlersTypeOK ==
  /\ req \in [Requests -> Handler]
  /\ reply \in [Requests -> Reply]
  /\ runs \in [Keys -> Run \cup {None}]
  /\ gatewayUsed \in [Days -> Nat]
  /\ made \in [Days -> Nat]

TypeOK == BudgetTypeOK /\ TokensTypeOK /\ HandlersTypeOK

Init ==
  /\ BudgetInit
  /\ req = [r \in Requests |-> Idle]
  /\ reply = [r \in Requests |-> NoReply]
  /\ runs = [k \in Keys |-> None]
  /\ gatewayUsed = [d \in Days |-> 0]
  /\ made = [d \in Days |-> 0]

-----------------------------------------------------------------------------
(***************************************************************************)
(* Answering.  A handler that ended keeps nothing but its phase.           *)
(***************************************************************************)
End(r, pc) == [req EXCEPT ![r] = [Idle EXCEPT !.pc = pc]]

Refuse(r) ==
  /\ req' = End(r, "done")
  /\ reply' = [reply EXCEPT ![r] = Refused]

\* A stored run answers its key: with its text, or 409 when the hash differs.
StoredReply(k, body) ==
  IF runs[k].body # body
  THEN Refused
  ELSE [kind |-> "replied", key |-> k, author |-> runs[k].author]

-----------------------------------------------------------------------------
(***************************************************************************)
(* The shared daily cap on provider requests.                              *)
(***************************************************************************)
Ceiling(a) == IF a \in Paid THEN GatewayLimit ELSE GatewayLimit - PaidReserve

\* admit_gateway_requests: the guarded UPDATE; only a live gateway is asked.
GatewayRoom(a) == Live => gatewayUsed[Today] + MaxAttempts <= Ceiling(a)
AdmitGatewayRequests ==
  IF Live
  THEN gatewayUsed' = [gatewayUsed EXCEPT ![Today] = @ + MaxAttempts]
  ELSE UNCHANGED gatewayUsed

\* (mutant of ReturnGatewayRequests: the day it ends on)
ReturnToToday(d, used) ==
  LET unused == MaxAttempts - used IN
  IF Live /\ gatewayUsed[Today] >= unused
  THEN gatewayUsed' = [gatewayUsed EXCEPT ![Today] = @ - unused]
  ELSE UNCHANGED gatewayUsed

\* return_gateway_requests: give back the slots of day d that were not used.
ReturnGatewayRequests(d, used) ==
  LET unused == MaxAttempts - used IN
  IF Live /\ gatewayUsed[d] >= unused
  THEN gatewayUsed' = [gatewayUsed EXCEPT ![d] = @ - unused]
  ELSE UNCHANGED gatewayUsed

\* The provider requests one generation may have made.
MostAttempts == IF Live THEN MaxAttempts ELSE 0
Record(d, used) == made' = [made EXCEPT ![d] = @ + used]

-----------------------------------------------------------------------------
(***************************************************************************)
(* The steps of execute_message.                                           *)
(***************************************************************************)
\* Look the key up: a stored run answers at once.
LookUp(r, k, b, p) ==
  /\ req[r].pc = "idle"
  /\ IF runs[k] # None
     THEN /\ req' = End(r, "done")
          /\ reply' = [reply EXCEPT ![r] = StoredReply(k, b)]
     ELSE /\ req' = [req EXCEPT ![r] =
                       [Idle EXCEPT !.pc = "looked", !.key = k, !.body = b, !.prev = p]]
          /\ UNCHANGED reply
  /\ UNCHANGED <<clock, bookVars, runs, gatewayUsed, made>>

SendMessage(r, k, b) == LookUp(r, k, b, None)

\* Regenerate a stored run under a new key; the client resends the same text.
Regenerate(r, k, p) ==
  /\ runs[p] # None
  /\ k # p
  /\ AccountOf[k] = AccountOf[p]
  /\ LookUp(r, k, runs[p].body, p)

\* reserve_budget reads the key's row; another request's unexpired hold is 409.
ReadReservation(r) ==
  LET k == req[r].key IN
  /\ req[r].pc = "looked"
  /\ IF Claimable(k) /\ Unexpired(rows[k], clock)
     THEN Refuse(r)
     ELSE /\ req' = [req EXCEPT ![r].pc = "read", ![r].seen = rows[k], ![r].now = clock]
          /\ UNCHANGED reply
  /\ UNCHANGED <<clock, bookVars, runs, gatewayUsed, made>>

TokenHold(b) == IF Live THEN TokensOf[b] ELSE 0

\* (mutant of Charged: a released row is let through as well)
ChargedOrReleased(row) == row.status \in {"settled", "unknown", "released"}

\* A row that was already charged is returned as it is: nothing is held.
Charged(row) == row.status \in {"settled", "unknown"}

\* The rest of reserve_budget and admit_gateway_requests, and the commit.
CommitReservation(r) ==
  LET k == req[r].key
      seen == req[r].seen
      tok == TokenHold(req[r].body)
  IN
  /\ req[r].pc = "read"
  /\ \/ /\ Charged(seen)
        /\ UNCHANGED bookVars
     \/ /\ ~Charged(seen)
        /\ HasRoom(k, tok)
        /\ CanWrite(k, seen)
        /\ TakeHold(k, seen, tok, req[r].now)
  /\ GatewayRoom(AccountOf[k])
  /\ AdmitGatewayRequests
  /\ req' = [req EXCEPT ![r] =
               [@ EXCEPT !.pc = "generating", !.seen = NoRow, !.now = clock, !.day = Today,
                         !.held = IF Charged(seen) THEN seen ELSE rows'[k]]]
  /\ UNCHANGED <<clock, reply, runs, made>>

\* Any refusal rolls the whole transaction back, the reclaimed holds included.
RefuseReservation(r) ==
  LET k == req[r].key
      seen == req[r].seen
      room == Charged(seen) \/ HasRoom(k, TokenHold(req[r].body))
      written == Charged(seen) \/ CanWrite(k, seen)
  IN
  /\ req[r].pc = "read"
  /\ ~(room /\ written /\ GatewayRoom(AccountOf[k]))
  /\ Refuse(r)
  /\ UNCHANGED <<clock, bookVars, runs, gatewayUsed, made>>

\* (mutant of RunInsertable: no unique constraint on the key's run)
AlwaysInsertable(k) == k \in Keys

\* A run is stored once per key: UNIQUE (account_id, logical_request_id).
RunInsertable(k) == runs[k] = None

\* An unknown amount is charged at its estimate and marks the row unknown.
Measured(amount, estimate) == IF amount = None THEN estimate ELSE amount
StatusOf(cost) == IF cost = None THEN "unknown" ELSE "settled"

\* The answer is stored, its unused slots returned and its hold settled (or
\* released, when no model produced a usable reply) in one transaction.
Complete(r, used) ==
  LET k == req[r].key IN
  /\ req[r].pc = "generating"
  /\ RunInsertable(k)
  /\ \E usable \in BOOLEAN :
       /\ runs' = [runs EXCEPT ![k] = [author |-> r, body |-> req[r].body,
                                       prev |-> req[r].prev, usable |-> usable]]
       /\ \/ /\ usable
             /\ \E cost \in Costs, spend \in Spends :
                  SettleBudget(k, req[r].held, StatusOf(cost), Measured(cost, HoldMicro),
                               Measured(spend, req[r].held.tokens))
          \/ ~usable /\ ReleaseBudget(k, req[r].held)
  /\ ReturnGatewayRequests(req[r].day, used)
  /\ Record(req[r].day, used)
  /\ req' = End(r, "done")
  /\ reply' = [reply EXCEPT ![r] = [kind |-> "replied", key |-> k, author |-> r]]
  /\ UNCHANGED clock

\* The transaction failed: it is rolled back, the row is read afresh and its
\* hold released, the slots returned.  A request that lost the race for the
\* key's run answers with the stored one.
StoreFailed(r, used) ==
  LET k == req[r].key IN
  /\ req[r].pc = "generating"
  /\ ReleaseBudget(k, rows[k])
  /\ ReturnGatewayRequests(req[r].day, used)
  /\ Record(req[r].day, used)
  /\ req' = End(r, "done")
  /\ \/ /\ runs[k] # None
        /\ reply' = [reply EXCEPT ![r] = StoredReply(k, req[r].body)]
     \/ reply' = [reply EXCEPT ![r] = Refused]
  /\ UNCHANGED <<clock, runs>>

\* generate_reply raised: the hold is released through the session's own copy
\* of the row, and the slots are kept (it may have made as many requests).
GenerationRaised(r) ==
  /\ req[r].pc = "generating"
  /\ ReleaseBudget(req[r].key, req[r].held)
  /\ Record(req[r].day, MostAttempts)
  /\ Refuse(r)
  /\ UNCHANGED <<clock, runs, gatewayUsed>>

\* The worker dies while the model answers: hold and slots stay as they are.
Crash(r) ==
  /\ req[r].pc = "generating"
  /\ Record(req[r].day, MostAttempts)
  /\ req' = End(r, "crashed")
  /\ UNCHANGED <<clock, bookVars, reply, runs, gatewayUsed>>

Handle(r) ==
  \/ \E k \in Keys, b \in Bodies : SendMessage(r, k, b)
  \/ \E k, p \in Keys : Regenerate(r, k, p)
  \/ ReadReservation(r)
  \/ CommitReservation(r)
  \/ RefuseReservation(r)
  \/ \E used \in 0 .. MostAttempts : Complete(r, used) \/ StoreFailed(r, used)
  \/ GenerationRaised(r)
  \/ Crash(r)

Next ==
  \/ Tick /\ UNCHANGED messageVars
  \/ \E r \in Requests : Handle(r)

Spec == Init /\ [][Next]_vars

-----------------------------------------------------------------------------
(***************************************************************************)
(* Properties.                                                             *)
(*                                                                         *)
(* Three of them are stated for ~stolen.  The session of a request keeps   *)
(* its copy of the reservation row across generation; when the hold was    *)
(* reclaimed and taken again meanwhile, the late settle_budget claims the  *)
(* new hold through the old copy and takes the amounts off the old day.    *)
(* NoStolenHold, which the code does not keep, says that never happens;    *)
(* the conservation laws say that nothing else makes the books drift.      *)
(***************************************************************************)

\* Money: every counter reserves exactly the open holds written on it,
\* whatever crashed, was reclaimed, or was settled after midnight.
SpendConserved ==
  ~stolen => \A c \in Counters : reserved[c] = HoldMicro * Cardinality(HoldsOn(c))

\* Requests: a window's everyday_used counts its open holds and the holds that
\* were charged; a refund gives the request back exactly once.
EverydayConserved ==
  ~stolen => \A w \in Windows :
    everyday[w] = Cardinality(HoldsOn(w)) + Cardinality(ChargesOn(w))

\* Tokens: tokens_reserved is the sum of the open holds' estimates, although
\* requests for one key may be held for different estimates.
TokensConserved ==
  ~stolen => \A w \in Windows :
    tokensReserved[w] = SumFunctionOnSet([k \in Keys |-> rows[k].tokens], HoldsOn(w))

\* Even a stolen hold only moves money between the days of its account: over
\* all the counters of one kind, what is reserved is what is held.
TotalsConserved ==
  \A kind \in Kinds :
    SumFunctionOnSet(reserved, {c \in Counters : c.kind = kind})
      = HoldMicro * Cardinality({k \in Keys : Claimable(k)})

\* No interleaving of admissions, settlements and refunds passes a limit of the
\* account's day, its period or the platform.
WithinLimits ==
  /\ \A c \in Counters : reserved[c] + settled[c] <= SpendLimit[c.kind]
  /\ \A w \in Windows : everyday[w] <= EverydayLimit

\* The shared cap on provider requests: a day's counter covers the requests made
\* by everyone it admitted and all that those still running may make, and never
\* passes the limit.
SlotsCoverRequests ==
  \A d \in Days :
    LET running == {r \in Requests : req[r].pc = "generating" /\ req[r].day = d} IN
    /\ made[d] + MostAttempts * Cardinality(running) <= gatewayUsed[d]
    /\ gatewayUsed[d] <= GatewayLimit

\* A usable reply was paid for: some hold of its key was charged.
UsableReplyCharged ==
  \A k \in Keys :
    runs[k] # None /\ runs[k].usable => \E e \in ledger : e.key = k

\* Every client that got a reply for a key got the one stored run, however many
\* requests generated for it (the outbox holds that run and no other).
RepliesAgree ==
  \A r \in Requests :
    reply[r].kind = "replied" =>
      /\ runs[reply[r].key] # None
      /\ reply[r].author = runs[reply[r].key].author

(***************************************************************************)
(* What a comment or a test says and the code does not do.                 *)
(***************************************************************************)
\* "concurrent settlers must not double-apply" (settle_budget): a hold is only
\* ended through a copy of that hold.
NoStolenHold == ~stolen

\* "How long a committed reservation may stay RESERVED before another request
\* may reclaim it": a request that reclaims the hold of a running request, having
\* read that very hold, does so a whole lease after the hold was committed.
LeaseHonoured ==
  [][\A e \in ledger' \ ledger, q, r \in Requests :
       (/\ req[q].pc = "read" /\ req'[q].pc = "generating"
        /\ ~stolen'
        /\ req[r].pc = "generating" /\ req[r].key = e.key
        /\ req[r].held.hold = e.hold) => clock - req[r].now >= Lease]_vars

\* "Retrying the same key must re-reserve capacity, not bypass budgets": a
\* request that goes on to the model for a key with no stored run has an open hold.
RetryHoldsBudget ==
  [][\A r \in Requests :
       (/\ req[r].pc = "read" /\ req'[r].pc = "generating"
        /\ runs[req[r].key] = None)
         => rows'[req[r].key].status = "reserved"]_vars
=============================================================================
