--------------------------- MODULE MessagesProofs ---------------------------
(***************************************************************************)
(* Theorems about the message service, for every value of the constants.   *)
(***************************************************************************)
EXTENDS Messages, SumTheorems

-----------------------------------------------------------------------------
(***************************************************************************)
(* Types.                                                                  *)
(***************************************************************************)
\* A handler at work has a key and a body.
Working == {"looked", "read", "generating"}
HandlersAtWork ==
  \A r \in Requests : req[r].pc \in Working => req[r].key \in Keys /\ req[r].body \in Bodies

Types == BudgetTypeOK /\ HandlersTypeOK /\ HandlersAtWork

\* Today is one of the days the books are kept for, and so is the first.
LEMMA DayFacts ==
  /\ 0 \in Days
  /\ clock \in 0 .. MaxClock => Today \in Days
<1>1. 0 \in 0 .. MaxClock
  BY BudgetAssumption
<1>2. DayOf(0) = 0
  BY BudgetAssumption DEF DayOf
<1>3. QED
  BY <1>1, <1>2 DEF Days, Today

\* The counters of a key's hold are counters the books are kept for.
LEMMA CounterFacts ==
  ASSUME NEW k \in Keys, NEW d \in Days
  PROVE  /\ WindowFor(k, d) \in Windows
         /\ CountersFor(k, d) \subseteq Counters
         /\ \A c \in CountersFor(k, d) : c.kind \in Kinds
<1>1. AccountOf[k] \in Accounts
  BY BudgetAssumption
<1>2. QED
  BY <1>1 DEF WindowFor, CountersFor, Windows, Counters, WindowOf, PeriodOf, PlatformOf, Kinds

\* What TakeHold reclaims is a finite set of keys on every counter.
Reclaimed(k, seen, now) ==
  StaleOthers(k, now) \cup {j \in {k} : seen.status = "reserved" /\ Claimable(j)}
ReclaimedOn(c, k, seen, now) ==
  {j \in Reclaimed(k, seen, now) :
     c \in CountersFor(j, (IF j = k THEN seen ELSE rows[j]).day)}

LEMMA ReclaimedFacts ==
  ASSUME NEW k \in Keys, NEW seen, NEW now, NEW c
  PROVE  /\ ReclaimedOn(c, k, seen, now) \subseteq Reclaimed(k, seen, now)
         /\ Reclaimed(k, seen, now) \subseteq {j \in Keys : Claimable(j)}
         /\ IsFiniteSet(ReclaimedOn(c, k, seen, now))
         /\ Cardinality(ReclaimedOn(c, k, seen, now)) \in Nat
<1>1. Reclaimed(k, seen, now) \subseteq {j \in Keys : Claimable(j)}
  BY DEF Reclaimed, StaleOthers
<1>2. ReclaimedOn(c, k, seen, now) \subseteq Keys
  BY <1>1 DEF ReclaimedOn
<1>3. IsFiniteSet(ReclaimedOn(c, k, seen, now))
  BY <1>2, BudgetAssumption, FS_Subset
<1>4. QED
  BY <1>1, <1>3, FS_CardinalityType DEF ReclaimedOn

\* Taking a hold keeps the books well typed.
LEMMA TakeHoldTypes ==
  ASSUME BudgetTypeOK, clock' = clock,
         NEW k \in Keys, NEW seen \in Row, NEW tok \in TokenHolds \cup {0}, NEW now,
         TakeHold(k, seen, tok, now)
  PROVE  BudgetTypeOK'
<1> DEFINE on(c) == ReclaimedOn(c, k, seen, now)
<1>0. Today \in Days
  BY DayFacts DEF BudgetTypeOK
<1>1. rows' \in [Keys -> Row]
  <2>1. Reheld(k, tok) \in Row
    BY <1>0 DEF Reheld, Row, Statuses, BudgetTypeOK
  <2>2. \A j \in Keys : [rows[j] EXCEPT !.status = "unknown"] \in Row
    BY DEF Row, Statuses, BudgetTypeOK
  <2>3. QED
    BY <2>1, <2>2 DEF TakeHold, BudgetTypeOK
<1>2. /\ reserved' = [c \in Counters |-> reserved[c] - HoldMicro * Cardinality(on(c))
                        + (IF c \in CountersFor(k, Today) THEN HoldMicro ELSE 0)]
      /\ settled' = [c \in Counters |-> settled[c] + HoldMicro * Cardinality(on(c))]
  BY DEF TakeHold, ReclaimedOn, Reclaimed
<1>3. reserved' \in [Counters -> Int] /\ settled' \in [Counters -> Nat]
  <2>1. \A c \in Counters : HoldMicro * Cardinality(on(c)) \in Nat
    BY ReclaimedFacts, BudgetAssumption
  <2>2. QED
    BY <1>2, <2>1, BudgetAssumption DEF BudgetTypeOK
<1>4. everyday' \in [Windows -> Int]
  BY <1>0, CounterFacts DEF TakeHold, BudgetTypeOK
<1>5. ledger' \in SUBSET Charge
  <2>1. \A j \in Reclaimed(k, seen, now) :
          ChargeOf(j, IF j = k THEN seen ELSE rows[j]) \in Charge
    BY ReclaimedFacts DEF ChargeOf, Charge, Row, BudgetTypeOK
  <2>2. QED
    BY <2>1 DEF TakeHold, Reclaimed, BudgetTypeOK
<1>6. stolen' \in BOOLEAN
  BY DEF TakeHold, BudgetTypeOK
<1>7. QED
  BY <1>1, <1>3, <1>4, <1>5, <1>6 DEF BudgetTypeOK

\* So does ending one, settled or released.
LEMMA SettleTypes ==
  ASSUME BudgetTypeOK, clock' = clock,
         NEW k \in Keys, NEW copy \in Row, NEW status \in Statuses,
         NEW micro \in Nat, NEW tok, SettleBudget(k, copy, status, micro, tok)
  PROVE  BudgetTypeOK'
<1>1. CASE UNCHANGED bookVars
  BY <1>1 DEF bookVars, BudgetTypeOK
<1>2. CASE ~UNCHANGED bookVars
  <2>1. rows' = [rows EXCEPT ![k].status = status]
    BY <1>2 DEF SettleBudget
  <2>2. rows' \in [Keys -> Row]
    BY <2>1 DEF BudgetTypeOK, Row
  <2>3. reserved' \in [Counters -> Int]
    BY <1>2, BudgetAssumption DEF SettleBudget, Unreserve, BudgetTypeOK
  <2>4. settled' \in [Counters -> Nat]
    BY <1>2 DEF SettleBudget, BudgetTypeOK
  <2>5. everyday' \in [Windows -> Int]
    BY <1>2 DEF SettleBudget, BudgetTypeOK
  <2>6. ledger' \in SUBSET Charge
    BY <1>2 DEF SettleBudget, BudgetTypeOK, ChargeOf, Charge, Row
  <2>7. stolen' \in BOOLEAN
    BY <1>2 DEF SettleBudget, Unreserve, BudgetTypeOK
  <2>8. QED
    BY <2>2, <2>3, <2>4, <2>5, <2>6, <2>7 DEF BudgetTypeOK
<1>3. QED
  BY <1>1, <1>2

LEMMA ReleaseTypes ==
  ASSUME BudgetTypeOK, clock' = clock,
         NEW k \in Keys, NEW copy \in Row, ReleaseBudget(k, copy)
  PROVE  BudgetTypeOK'
<1>1. CASE UNCHANGED bookVars
  BY <1>1 DEF bookVars, BudgetTypeOK
<1>2. CASE ~UNCHANGED bookVars
  <2>1. rows' = [rows EXCEPT ![k].status = "released"]
    BY <1>2 DEF ReleaseBudget
  <2>2. rows' \in [Keys -> Row]
    BY <2>1 DEF BudgetTypeOK, Row, Statuses
  <2>3. reserved' \in [Counters -> Int]
    BY <1>2, BudgetAssumption DEF ReleaseBudget, Unreserve, BudgetTypeOK
  <2>4. everyday' \in [Windows -> Int]
    BY <1>2, CounterFacts DEF ReleaseBudget, BudgetTypeOK, Row
  <2>5. settled' = settled /\ ledger' = ledger /\ stolen' \in BOOLEAN
    BY <1>2 DEF ReleaseBudget, Unreserve, BudgetTypeOK
  <2>6. QED
    BY <2>2, <2>3, <2>4, <2>5 DEF BudgetTypeOK
<1>3. QED
  BY <1>1, <1>2

\* The rows a handler answers and ends with.
LEMMA EndTypes ==
  ASSUME HandlersTypeOK, HandlersAtWork, NEW r \in Requests, NEW pc \in {"done", "crashed"},
         NEW k \in Keys
  PROVE  /\ Idle \in Handler
         /\ End(r, pc) \in [Requests -> Handler]
         /\ \A q \in Requests :
              End(r, pc)[q] = IF q = r THEN [Idle EXCEPT !.pc = pc] ELSE req[q]
         /\ Refused \in Reply
         /\ req' = End(r, pc) => HandlersAtWork'
         /\ runs[k] # None => \A b : StoredReply(k, b) \in Reply
<1>1. NoRow \in Row
  BY DayFacts, BudgetAssumption DEF NoRow, Row, Statuses
<1>2. Idle \in Handler
  BY <1>1, DayFacts, BudgetAssumption DEF Idle, Handler, Phases
<1>3. [Idle EXCEPT !.pc = pc] \in Handler
  BY <1>2 DEF Handler, Phases
<1>4. End(r, pc) \in [Requests -> Handler]
  BY <1>3 DEF End, HandlersTypeOK
<1>5. \A q \in Requests : End(r, pc)[q] = IF q = r THEN [Idle EXCEPT !.pc = pc] ELSE req[q]
  BY DEF End, HandlersTypeOK
<1>6. Refused \in Reply
  BY DEF Refused, NoReply, Reply
<1>7. runs[k] # None => \A b : StoredReply(k, b) \in Reply
  BY <1>6 DEF StoredReply, Reply, HandlersTypeOK, Run
<1>8. [Idle EXCEPT !.pc = pc].pc \notin Working
  BY DEF Idle, Working
<1>9. req' = End(r, pc) => HandlersAtWork'
  BY <1>5, <1>8 DEF HandlersAtWork
<1>10. QED
  BY <1>2, <1>4, <1>5, <1>6, <1>7, <1>9

\* Init is well typed, and so is every state a step leads to.
LEMMA TypesInit == Init => Types
<1> SUFFICES ASSUME Init PROVE Types
  OBVIOUS
<1>1. NoRow \in Row
  BY DayFacts, BudgetAssumption DEF NoRow, Row, Statuses
<1>2. BudgetTypeOK
  <2>1. clock \in 0 .. MaxClock /\ rows \in [Keys -> Row]
    BY <1>1, BudgetAssumption DEF Init, BudgetInit
  <2>2. /\ reserved \in [Counters -> Int]
        /\ settled \in [Counters -> Nat]
        /\ everyday \in [Windows -> Int]
    BY DEF Init, BudgetInit
  <2>3. ledger \in SUBSET Charge /\ stolen \in BOOLEAN
    BY DEF Init, BudgetInit
  <2>4. QED
    BY <2>1, <2>2, <2>3 DEF BudgetTypeOK
<1>3. Idle \in Handler
  BY <1>1, DayFacts, BudgetAssumption DEF Idle, Handler, Phases
<1>4. HandlersTypeOK
  BY <1>3 DEF Init, HandlersTypeOK, NoReply, Reply
<1>5. HandlersAtWork
  BY DEF Init, HandlersAtWork, Idle, Working
<1>6. QED
  BY <1>2, <1>4, <1>5 DEF Types

LEMMA TypesStep == Types /\ [Next]_vars => Types'
<1> SUFFICES ASSUME Types, [Next]_vars PROVE Types'
  OBVIOUS
<1> USE DEF Types
<1>1. CASE Tick /\ UNCHANGED messageVars
  <2>1. BudgetTypeOK'
    BY <1>1, BudgetAssumption DEF Tick, bookVars, BudgetTypeOK
  <2>2. HandlersTypeOK' /\ HandlersAtWork'
    BY <1>1 DEF messageVars, HandlersTypeOK, HandlersAtWork
  <2>3. QED
    BY <2>1, <2>2
<1>2. ASSUME NEW r \in Requests, NEW k \in Keys, NEW b \in Bodies,
             NEW p \in Keys \cup {None}, LookUp(r, k, b, p)
      PROVE  Types'
  <2>1. BudgetTypeOK'
    BY <1>2 DEF LookUp, bookVars, BudgetTypeOK
  <2>2. CASE runs[k] # None
    <3>1. reply' \in [Requests -> Reply]
      BY <1>2, <2>2, EndTypes DEF LookUp, HandlersTypeOK
    <3>2. req' = End(r, "done")
      BY <1>2, <2>2 DEF LookUp
    <3>3. QED
      BY <1>2, <2>1, <3>1, <3>2, EndTypes DEF LookUp, HandlersTypeOK
  <2>3. CASE runs[k] = None
    <3> DEFINE h == [Idle EXCEPT !.pc = "looked", !.key = k, !.body = b, !.prev = p]
    <3>1. h \in Handler /\ h.key \in Keys /\ h.body \in Bodies
      BY EndTypes DEF Handler, Phases, Idle
    <3>2. req' = [req EXCEPT ![r] = h] /\ reply' = reply
      BY <1>2, <2>3 DEF LookUp
    <3> HIDE DEF h
    <3>3. QED
      BY <1>2, <2>1, <3>1, <3>2 DEF LookUp, HandlersTypeOK, HandlersAtWork
  <2>4. QED
    BY <2>2, <2>3
<1>3. ASSUME NEW r \in Requests, ReadReservation(r) PROVE Types'
  <2>1. BudgetTypeOK'
    BY <1>3 DEF ReadReservation, bookVars, BudgetTypeOK
  <2>2. req[r].key \in Keys /\ req[r].body \in Bodies
    BY <1>3 DEF ReadReservation, HandlersAtWork, Working
  <2>3. CASE Refuse(r)
    BY <1>3, <2>1, <2>2, <2>3, EndTypes
    DEF ReadReservation, Refuse, HandlersTypeOK
  <2>4. CASE ~Refuse(r)
    <3> DEFINE h == [req[r] EXCEPT !.pc = "read", !.seen = rows[req[r].key], !.now = clock]
    <3>1. req' = [req EXCEPT ![r] = h] /\ reply' = reply
      BY <1>3, <2>4 DEF ReadReservation
    <3>2. h \in Handler /\ h.key \in Keys /\ h.body \in Bodies
      BY <2>2 DEF Handler, Phases, HandlersTypeOK, BudgetTypeOK
    <3> HIDE DEF h
    <3>3. QED
      BY <1>3, <2>1, <3>1, <3>2 DEF ReadReservation, HandlersTypeOK, HandlersAtWork
  <2>5. QED
    BY <2>3, <2>4
<1>4. ASSUME NEW r \in Requests, CommitReservation(r) PROVE Types'
  <2> DEFINE k == req[r].key
             seen == req[r].seen
             h == [req[r] EXCEPT !.pc = "generating", !.seen = NoRow, !.now = clock,
                                 !.day = Today, !.held = IF Charged(seen) THEN seen ELSE rows'[k]]
  <2>1. k \in Keys /\ req[r].body \in Bodies /\ seen \in Row
    BY <1>4 DEF CommitReservation, HandlersAtWork, Working, HandlersTypeOK, Handler
  <2>2. BudgetTypeOK'
    <3>1. TokenHold(req[r].body) \in TokenHolds \cup {0}
      BY <2>1, MessagesAssumption DEF TokenHold
    <3>2. CASE UNCHANGED bookVars
      BY <1>4, <3>2 DEF CommitReservation, bookVars, BudgetTypeOK
    <3>3. CASE TakeHold(k, seen, TokenHold(req[r].body), req[r].now)
      BY <1>4, <2>1, <3>1, <3>3, TakeHoldTypes DEF CommitReservation
    <3>4. QED
      BY <1>4, <3>2, <3>3 DEF CommitReservation
  <2>3. req' = [req EXCEPT ![r] = h]
    BY <1>4 DEF CommitReservation
  <2>4. h \in Handler /\ h.key \in Keys /\ h.body \in Bodies
    <3>1. rows'[k] \in Row
      BY <2>1, <2>2 DEF BudgetTypeOK
    <3>2. NoRow \in Row
      BY DayFacts, BudgetAssumption DEF NoRow, Row, Statuses
    <3>3. Today \in Days
      BY DayFacts DEF BudgetTypeOK
    <3>4. QED
      BY <2>1, <3>1, <3>2, <3>3 DEF Handler, Phases, HandlersTypeOK, BudgetTypeOK
  <2> HIDE DEF h
  <2>5. gatewayUsed' \in [Days -> Nat]
    BY <1>4, DayFacts, MessagesAssumption
    DEF CommitReservation, AdmitGatewayRequests, HandlersTypeOK, BudgetTypeOK
  <2>6. QED
    BY <1>4, <2>2, <2>3, <2>4, <2>5 DEF CommitReservation, HandlersTypeOK, HandlersAtWork
<1>5. ASSUME NEW r \in Requests, RefuseReservation(r) PROVE Types'
  <2>1. BudgetTypeOK'
    BY <1>5 DEF RefuseReservation, bookVars, BudgetTypeOK
  <2>2. req[r].key \in Keys
    BY <1>5 DEF RefuseReservation, HandlersAtWork, Working
  <2>3. QED
    BY <1>5, <2>1, <2>2, EndTypes
    DEF RefuseReservation, Refuse, HandlersTypeOK
<1>6. ASSUME NEW r \in Requests, req[r].pc = "generating",
             NEW pc \in {"done", "crashed"}, req' = End(r, pc)
      PROVE  /\ req[r].key \in Keys
             /\ req[r].body \in Bodies
             /\ req[r].held \in Row
             /\ req[r].day \in Days
             /\ req' \in [Requests -> Handler]
             /\ HandlersAtWork'
  <2>1. req[r].key \in Keys /\ req[r].body \in Bodies
    BY <1>6 DEF HandlersAtWork, Working
  <2>2. req[r].held \in Row /\ req[r].day \in Days
    BY DEF HandlersTypeOK, Handler
  <2>3. req' \in [Requests -> Handler]
    BY <1>6, <2>1, EndTypes
  <2>4. HandlersAtWork'
    BY <1>6, <2>1, EndTypes
  <2>5. QED
    BY <2>1, <2>2, <2>3, <2>4
<1>7. ASSUME NEW d \in Days, NEW used \in 0 .. MostAttempts
      PROVE  /\ ReturnGatewayRequests(d, used) => gatewayUsed' \in [Days -> Nat]
             /\ Record(d, used) => made' \in [Days -> Nat]
  BY MessagesAssumption DEF ReturnGatewayRequests, Record, MostAttempts, HandlersTypeOK
<1>8. ASSUME NEW r \in Requests, NEW used \in 0 .. MostAttempts, Complete(r, used)
      PROVE  Types'
  <2>1. req[r].pc = "generating" /\ req' = End(r, "done")
    BY <1>8 DEF Complete
  <2>2. BudgetTypeOK'
    <3>1. PICK usable \in BOOLEAN :
            \/ \E cost \in Costs, spend \in Spends :
                 SettleBudget(req[r].key, req[r].held, StatusOf(cost), Measured(cost, HoldMicro),
                              Measured(spend, req[r].held.tokens))
            \/ ReleaseBudget(req[r].key, req[r].held)
      BY <1>8 DEF Complete
    <3>2. \A cost \in Costs :
            StatusOf(cost) \in Statuses /\ Measured(cost, HoldMicro) \in Nat
      BY BudgetAssumption, MessagesAssumption DEF StatusOf, Measured, Statuses
    <3>3. clock' = clock
      BY <1>8 DEF Complete
    <3>4. QED
      BY <1>6, <2>1, <3>1, <3>2, <3>3, SettleTypes, ReleaseTypes
  <2>3. runs' \in [Keys -> Run \cup {None}]
    <3>1. req[r].prev \in Keys \cup {None}
      BY DEF HandlersTypeOK, Handler
    <3>2. QED
      BY <1>6, <1>8, <2>1, <3>1 DEF Complete, HandlersTypeOK, Run
  <2>4. reply' \in [Requests -> Reply]
    BY <1>6, <1>8, <2>1 DEF Complete, HandlersTypeOK, Reply
  <2>5. QED
    BY <1>6, <1>7, <1>8, <2>1, <2>2, <2>3, <2>4 DEF Complete, HandlersTypeOK
<1>9. ASSUME NEW r \in Requests, NEW used \in 0 .. MostAttempts, StoreFailed(r, used)
      PROVE  Types'
  <2>1. req[r].pc = "generating" /\ req' = End(r, "done")
    BY <1>9 DEF StoreFailed
  <2>2. BudgetTypeOK'
    BY <1>6, <1>9, <2>1, ReleaseTypes DEF StoreFailed, BudgetTypeOK
  <2>3. reply' \in [Requests -> Reply]
    BY <1>6, <1>9, <2>1, EndTypes DEF StoreFailed, HandlersTypeOK
  <2>4. QED
    BY <1>6, <1>7, <1>9, <2>1, <2>2, <2>3 DEF StoreFailed, HandlersTypeOK
<1>10. ASSUME NEW r \in Requests, GenerationRaised(r) PROVE Types'
  <2>1. req[r].pc = "generating" /\ req' = End(r, "done")
    BY <1>10 DEF GenerationRaised, Refuse
  <2>2. BudgetTypeOK'
    BY <1>6, <1>10, <2>1, ReleaseTypes DEF GenerationRaised
  <2>3. MostAttempts \in 0 .. MostAttempts
    BY MessagesAssumption DEF MostAttempts
  <2>4. QED
    BY <1>6, <1>7, <1>10, <2>1, <2>2, <2>3, EndTypes DEF GenerationRaised, Refuse, HandlersTypeOK
<1>11. ASSUME NEW r \in Requests, Crash(r) PROVE Types'
  <2>1. req[r].pc = "generating" /\ req' = End(r, "crashed")
    BY <1>11 DEF Crash
  <2>2. BudgetTypeOK'
    BY <1>11 DEF Crash, bookVars, BudgetTypeOK
  <2>3. MostAttempts \in 0 .. MostAttempts
    BY MessagesAssumption DEF MostAttempts
  <2>4. QED
    BY <1>6, <1>7, <1>11, <2>1, <2>2, <2>3 DEF Crash, HandlersTypeOK
<1>12. CASE UNCHANGED vars
  BY <1>12 DEF vars, bookVars, messageVars, BudgetTypeOK, HandlersTypeOK, HandlersAtWork
<1>13. ASSUME NEW r \in Requests, Handle(r) PROVE Types'
  <2>1. ASSUME NEW k \in Keys, NEW b \in Bodies, SendMessage(r, k, b) PROVE Types'
    BY <1>2, <2>1 DEF SendMessage
  <2>2. ASSUME NEW k \in Keys, NEW p \in Keys, Regenerate(r, k, p) PROVE Types'
    <3>1. runs[p].body \in Bodies
      BY <2>2 DEF Regenerate, HandlersTypeOK, Run
    <3>2. QED
      BY <1>2, <2>2, <3>1 DEF Regenerate
  <2>3. QED
    BY <1>3, <1>4, <1>5, <1>8, <1>9, <1>10, <1>11, <1>13, <2>1, <2>2 DEF Handle
<1>14. QED
  BY <1>1, <1>12, <1>13 DEF Next

\* The books, the handlers and the stored runs keep their types.
THEOREM TypeCorrect == Spec => []Types
<1>1. QED
  BY TypesInit, TypesStep, PTL DEF Spec

-----------------------------------------------------------------------------
(***************************************************************************)
(* What a step does to the books.  A session keeps its copy of a           *)
(* reservation row; the copy may be of an earlier hold, but a copy of the  *)
(* hold the row still carries names the hold's own day and tokens.         *)
(***************************************************************************)
Faithful(k, copy) ==
  /\ copy.hold <= rows[k].hold
  /\ copy.hold = rows[k].hold => copy.day = rows[k].day /\ copy.tokens = rows[k].tokens

CopiesFaithful ==
  \A r \in Requests :
    /\ req[r].pc = "read" => Faithful(req[r].key, req[r].seen)
    /\ req[r].pc = "generating" => Faithful(req[r].key, req[r].held)

\* The three things that happen to the books.
Takes(k, seen) ==
  \E tok \in TokenHolds \cup {0}, now \in 0 .. MaxClock :
    /\ ~Charged(seen)
    /\ HasRoom(k, tok)
    /\ CanWrite(k, seen)
    /\ TakeHold(k, seen, tok, now)
Settles(k, copy) ==
  \E status \in {"settled", "unknown"}, micro \in 0 .. HoldMicro :
    \E tok \in Nat : SettleBudget(k, copy, status, micro, tok)
Books(k, copy) ==
  /\ clock' = clock
  /\ Faithful(k, copy)
  /\ Takes(k, copy) \/ Settles(k, copy) \/ ReleaseBudget(k, copy)

\* Whatever a step does, it leaves the books alone or ends or takes one hold.
LEMMA BookSteps ==
  ASSUME Types, CopiesFaithful, [Next]_vars
  PROVE  UNCHANGED bookVars \/ \E k \in Keys, copy \in Row : Books(k, copy)
<1> USE DEF Types
<1>1. ASSUME NEW r \in Requests, req[r].pc \in Working
      PROVE  req[r].key \in Keys /\ req[r].body \in Bodies
  BY <1>1 DEF HandlersAtWork
<1>2. \A r \in Requests : req[r].seen \in Row /\ req[r].held \in Row /\ req[r].now \in 0 .. MaxClock
  BY DEF HandlersTypeOK, Handler
<1>3. ASSUME NEW r \in Requests, CommitReservation(r)
      PROVE  UNCHANGED bookVars \/ Books(req[r].key, req[r].seen)
  <2>1. TokenHold(req[r].body) \in TokenHolds \cup {0}
    BY <1>1, <1>3, MessagesAssumption DEF CommitReservation, TokenHold, Working
  <2>2. QED
    BY <1>2, <1>3, <2>1 DEF CommitReservation, Books, Takes, CopiesFaithful
<1>4. ASSUME NEW r \in Requests, NEW used, Complete(r, used)
      PROVE  Books(req[r].key, req[r].held)
  <2>1. ASSUME NEW cost \in Costs
        PROVE  StatusOf(cost) \in {"settled", "unknown"} /\ Measured(cost, HoldMicro) \in 0 .. HoldMicro
    BY BudgetAssumption, MessagesAssumption DEF StatusOf, Measured
  <2>2. \A spend \in Spends : Measured(spend, req[r].held.tokens) \in Nat
    <3>1. req[r].held.tokens \in Nat
      BY <1>2, BudgetAssumption DEF Row
    <3>2. QED
      BY <3>1, MessagesAssumption DEF Measured
  <2>3. Settles(req[r].key, req[r].held) \/ ReleaseBudget(req[r].key, req[r].held)
    <3>1. PICK usable \in BOOLEAN :
            \/ \E cost \in Costs, spend \in Spends :
                 SettleBudget(req[r].key, req[r].held, StatusOf(cost), Measured(cost, HoldMicro),
                              Measured(spend, req[r].held.tokens))
            \/ ReleaseBudget(req[r].key, req[r].held)
      BY <1>4 DEF Complete
    <3>2. QED
      BY <2>1, <2>2, <3>1 DEF Settles
  <2>4. QED
    BY <1>4, <2>3 DEF Complete, Books, CopiesFaithful
<1>5. ASSUME NEW r \in Requests, NEW used, StoreFailed(r, used)
      PROVE  req[r].key \in Keys /\ Books(req[r].key, rows[req[r].key])
  <2>1. req[r].key \in Keys
    BY <1>1, <1>5 DEF StoreFailed, Working
  <2>2. rows[req[r].key].hold \in Nat
    BY <2>1 DEF BudgetTypeOK, Row
  <2>3. QED
    BY <1>5, <2>1, <2>2 DEF StoreFailed, Books, Faithful
<1>6. ASSUME NEW r \in Requests, GenerationRaised(r)
      PROVE  Books(req[r].key, req[r].held)
  BY <1>6 DEF GenerationRaised, Books, CopiesFaithful
<1>7. ASSUME NEW r \in Requests, Handle(r)
      PROVE  UNCHANGED bookVars \/ \E k \in Keys, copy \in Row : Books(k, copy)
  <2>1. CASE \E k \in Keys, b \in Bodies : SendMessage(r, k, b)
    BY <2>1 DEF SendMessage, LookUp
  <2>2. CASE \E k, p \in Keys : Regenerate(r, k, p)
    BY <2>2 DEF Regenerate, LookUp
  <2>3. CASE ReadReservation(r) \/ RefuseReservation(r) \/ Crash(r)
    BY <2>3 DEF ReadReservation, RefuseReservation, Crash
  <2>4. CASE CommitReservation(r)
    BY <1>1, <1>2, <1>3, <2>4 DEF CommitReservation, Working
  <2>5. CASE \E used \in 0 .. MostAttempts : Complete(r, used)
    BY <1>1, <1>2, <1>4, <2>5 DEF Complete, Working
  <2>6. CASE \E used \in 0 .. MostAttempts : StoreFailed(r, used)
    BY <1>5, <2>6 DEF BudgetTypeOK
  <2>7. CASE GenerationRaised(r)
    BY <1>1, <1>2, <1>6, <2>7 DEF GenerationRaised, Working
  <2>8. QED
    BY <1>7, <2>1, <2>2, <2>3, <2>4, <2>5, <2>6, <2>7 DEF Handle
<1>8. CASE Tick \/ UNCHANGED vars
  BY <1>8 DEF Tick, vars
<1>9. QED
  BY <1>7, <1>8 DEF Next

\* A row only ever goes on to a later hold; within one hold it keeps its day and
\* its tokens.
LEMMA RowsAdvance ==
  ASSUME Types, CopiesFaithful, [Next]_vars, NEW k \in Keys
  PROVE  /\ rows'[k].hold \in Nat
         /\ rows'[k].hold >= rows[k].hold
         /\ rows'[k].hold = rows[k].hold => /\ rows'[k].day = rows[k].day
                                            /\ rows'[k].tokens = rows[k].tokens
<1>1. rows \in [Keys -> Row] /\ rows[k].hold \in Nat
  BY DEF Types, BudgetTypeOK, Row
<1>2. CASE UNCHANGED bookVars
  BY <1>1, <1>2 DEF bookVars
<1>3. ASSUME NEW j \in Keys, NEW copy \in Row, Books(j, copy)
      PROVE  /\ rows'[k].hold \in Nat
             /\ rows'[k].hold >= rows[k].hold
             /\ rows'[k].hold = rows[k].hold => /\ rows'[k].day = rows[k].day
                                                /\ rows'[k].tokens = rows[k].tokens
  <2>1. CASE Takes(j, copy)
    <3>1. \/ rows'[k] = rows[k]
          \/ rows'[k] = [rows[k] EXCEPT !.status = "unknown"]
          \/ \E tok : k = j /\ rows'[k] = Reheld(k, tok)
      BY <2>1 DEF Takes, TakeHold
    <3>2. \A tok : Reheld(k, tok).hold = rows[k].hold + 1
      BY DEF Reheld
    <3>3. \/ /\ rows'[k].hold = rows[k].hold
             /\ rows'[k].day = rows[k].day
             /\ rows'[k].tokens = rows[k].tokens
          \/ rows'[k].hold = rows[k].hold + 1
      BY <1>1, <3>1, <3>2 DEF Row
    <3>4. QED
      BY <1>1, <3>3
  <2>2. CASE Settles(j, copy)
    BY <1>1, <2>2 DEF Settles, SettleBudget, bookVars, Row
  <2>3. CASE ReleaseBudget(j, copy)
    BY <1>1, <2>3 DEF ReleaseBudget, bookVars, Row
  <2>4. QED
    BY <1>3, <2>1, <2>2, <2>3 DEF Books
<1>4. QED
  BY <1>2, <1>3, BookSteps

LEMMA CopiesInit == Init => CopiesFaithful
  BY DEF Init, CopiesFaithful, Idle

LEMMA CopiesStep == Types /\ CopiesFaithful /\ [Next]_vars => CopiesFaithful'
<1> DEFINE FaithfulNext(k, copy) ==
             /\ copy.hold <= rows'[k].hold
             /\ copy.hold = rows'[k].hold => /\ copy.day = rows'[k].day
                                             /\ copy.tokens = rows'[k].tokens
<1> SUFFICES ASSUME Types, CopiesFaithful, [Next]_vars, NEW r \in Requests
             PROVE  /\ req'[r].pc = "read" => FaithfulNext(req'[r].key, req'[r].seen)
                    /\ req'[r].pc = "generating" => FaithfulNext(req'[r].key, req'[r].held)
  BY DEF CopiesFaithful, Faithful
<1>1. ASSUME NEW k \in Keys, NEW copy \in Row, Faithful(k, copy)
      PROVE  FaithfulNext(k, copy)
  <2>1. rows[k].hold \in Nat /\ copy.hold \in Nat
    BY DEF Types, BudgetTypeOK, Row
  <2>2. QED
    BY <1>1, <2>1, RowsAdvance DEF Faithful
<1>2. /\ req[r].pc \in Working => req[r].key \in Keys
      /\ req[r].seen \in Row
      /\ req[r].held \in Row
  BY DEF Types, HandlersAtWork, HandlersTypeOK, Handler
<1>3. CASE req'[r] = req[r]
  <2>1. CASE req[r].pc = "read"
    BY <1>1, <1>2, <1>3, <2>1 DEF CopiesFaithful, Working
  <2>2. CASE req[r].pc = "generating"
    BY <1>1, <1>2, <1>3, <2>2 DEF CopiesFaithful, Working
  <2>3. QED
    BY <1>3, <2>1, <2>2
<1>4. CASE req'[r].pc \notin {"read", "generating"}
  BY <1>4
<1>5. CASE ReadReservation(r)
  <2>1. CASE Refuse(r)
    BY <2>1, <1>4, <1>5, EndTypes, <1>2 DEF ReadReservation, Refuse, Types, Working, Idle
  <2>2. CASE ~Refuse(r)
    <3>1. /\ req'[r].pc = "read"
          /\ req'[r].key = req[r].key
          /\ req'[r].seen = rows[req[r].key]
      BY <1>5, <2>2 DEF ReadReservation, Types, HandlersTypeOK, Handler
    <3>2. rows'[req[r].key] = rows[req[r].key] /\ rows[req[r].key].hold \in Nat
      BY <1>2, <1>5 DEF ReadReservation, bookVars, Types, BudgetTypeOK, Row, Working
    <3>3. QED
      BY <3>1, <3>2
  <2>3. QED
    BY <2>1, <2>2
<1>6. CASE CommitReservation(r)
  <2> DEFINE k == req[r].key
  <2>1. /\ req'[r].pc = "generating"
        /\ req'[r].key = k
        /\ req'[r].held = IF Charged(req[r].seen) THEN req[r].seen ELSE rows'[k]
    BY <1>6 DEF CommitReservation, Types, HandlersTypeOK, Handler
  <2>2. k \in Keys
    BY <1>2, <1>6 DEF CommitReservation, Working
  <2>3. CASE Charged(req[r].seen)
    <3>1. Faithful(k, req[r].seen)
      BY <1>6 DEF CommitReservation, CopiesFaithful
    <3>2. FaithfulNext(k, req[r].seen)
      BY <1>1, <1>2, <2>2, <3>1
    <3>3. QED
      BY <2>1, <2>3, <3>2
  <2>4. CASE ~Charged(req[r].seen)
    <3>1. rows'[k].hold \in Nat
      BY <2>2, RowsAdvance
    <3>2. QED
      BY <2>1, <2>4, <3>1
  <2>5. QED
    BY <2>3, <2>4
<1>7. ASSUME NEW q \in Requests, Handle(q), q # r
      PROVE  req'[r] = req[r]
  BY <1>7 DEF Handle, SendMessage, Regenerate, LookUp, ReadReservation, CommitReservation,
              RefuseReservation, Complete, StoreFailed, GenerationRaised, Crash, Refuse, End,
              Types, HandlersTypeOK
<1>8. ASSUME Handle(r)
      PROVE  \/ req'[r].pc \notin {"read", "generating"}
             \/ ReadReservation(r)
             \/ CommitReservation(r)
  <2>1. \A pc \in {"done", "crashed"} : req' = End(r, pc) => req'[r].pc = pc
    BY DEF End, Idle, Types, HandlersTypeOK
  <2>2. ASSUME NEW k \in Keys, NEW b, NEW p, LookUp(r, k, b, p)
        PROVE  req'[r].pc \in {"done", "looked"}
    BY <2>1, <2>2 DEF LookUp, Idle, Types, HandlersTypeOK
  <2>3. (\E used : Complete(r, used) \/ StoreFailed(r, used)) => req'[r].pc = "done"
    BY <2>1 DEF Complete, StoreFailed
  <2>4. RefuseReservation(r) \/ GenerationRaised(r) => req'[r].pc = "done"
    BY <2>1 DEF RefuseReservation, GenerationRaised, Refuse
  <2>5. Crash(r) => req'[r].pc = "crashed"
    BY <2>1 DEF Crash
  <2>6. QED
    BY <1>8, <2>2, <2>3, <2>4, <2>5 DEF Handle, SendMessage, Regenerate
<1>9. CASE (Tick /\ UNCHANGED messageVars) \/ UNCHANGED vars
  BY <1>3, <1>9 DEF messageVars, vars
<1>10. QED
  BY <1>3, <1>4, <1>5, <1>6, <1>7, <1>8, <1>9 DEF Next

-----------------------------------------------------------------------------
(***************************************************************************)
(* Money.                                                                  *)
(***************************************************************************)
HoldsNext(c) ==
  {k \in Keys : rows'[k].status = "reserved" /\ c \in CountersFor(k, rows'[k].day)}

LEMMA Distributes ==
  /\ \A a, n \in Int : a * (n + 1) = a * n + a
  /\ \A a, n \in Int : a * (n - 1) = a * n - a
  /\ \A a, m, n \in Int : a * (n - m) = a * n - a * m
  OBVIOUS

LEMMA HoldsFacts ==
  ASSUME NEW c
  PROVE  /\ IsFiniteSet(HoldsOn(c)) /\ Cardinality(HoldsOn(c)) \in Nat
         /\ IsFiniteSet(HoldsNext(c)) /\ Cardinality(HoldsNext(c)) \in Nat
<1>1. HoldsOn(c) \subseteq Keys /\ HoldsNext(c) \subseteq Keys
  BY DEF HoldsOn, HoldsNext
<1>2. QED
  BY <1>1, BudgetAssumption, FS_Subset, FS_CardinalityType

\* A hold that ends through a faithful copy leaves the counters the copy names,
\* which are its own.
LEMMA HoldsEnded ==
  ASSUME Types, ~stolen', NEW k \in Keys, NEW copy \in Row, Faithful(k, copy), Claimable(k),
         NEW status \in {"settled", "unknown", "released"},
         rows' = [rows EXCEPT ![k].status = status], Unreserve(k, copy), NEW c
  PROVE  /\ ~stolen
         /\ copy.day = rows[k].day /\ copy.tokens = rows[k].tokens
         /\ k \in HoldsOn(c) <=> c \in CountersFor(k, copy.day)
         /\ HoldsNext(c) = HoldsOn(c) \ {k}
         /\ \A j \in HoldsNext(c) : rows'[j] = rows[j]
<1>1. copy.day = rows[k].day /\ copy.tokens = rows[k].tokens /\ ~stolen
  BY DEF Unreserve, Faithful, Types, BudgetTypeOK
<1>2. /\ rows'[k].status = status
      /\ \A j \in Keys \ {k} : rows'[j] = rows[j]
  BY DEF Types, BudgetTypeOK, Row
<1>3. HoldsNext(c) = HoldsOn(c) \ {k}
  BY <1>2 DEF HoldsNext, HoldsOn
<1>4. k \in HoldsOn(c) <=> c \in CountersFor(k, copy.day)
  BY <1>1 DEF HoldsOn, Claimable
<1>5. HoldsNext(c) \subseteq Keys
  BY DEF HoldsNext
<1>6. QED
  BY <1>1, <1>2, <1>3, <1>4, <1>5

LEMMA EndedHold ==
  ASSUME Types, SpendConserved, ~stolen',
         NEW k \in Keys, NEW copy \in Row, Faithful(k, copy), Claimable(k),
         NEW status \in {"settled", "unknown", "released"},
         rows' = [rows EXCEPT ![k].status = status], Unreserve(k, copy),
         NEW c \in Counters
  PROVE  reserved'[c] = HoldMicro * Cardinality(HoldsNext(c))
<1>1. /\ k \in HoldsOn(c) <=> c \in CountersFor(k, copy.day)
      /\ HoldsNext(c) = HoldsOn(c) \ {k}
      /\ reserved[c] = HoldMicro * Cardinality(HoldsOn(c))
  BY HoldsEnded DEF SpendConserved
<1>2. CASE k \in HoldsOn(c)
  <2>1. Cardinality(HoldsNext(c)) = Cardinality(HoldsOn(c)) - 1
    BY <1>1, <1>2, HoldsFacts, FS_RemoveElement
  <2>2. reserved'[c] = reserved[c] - HoldMicro
    BY <1>1, <1>2 DEF Unreserve
  <2>3. QED
    BY <1>1, <2>1, <2>2, HoldsFacts, Distributes, BudgetAssumption
<1>3. CASE k \notin HoldsOn(c)
  <2>1. HoldsNext(c) = HoldsOn(c)
    BY <1>1, <1>3
  <2>2. reserved'[c] = reserved[c]
    BY <1>1, <1>3 DEF Unreserve
  <2>3. QED
    BY <1>1, <2>1, <2>2
<1>4. QED
  BY <1>2, <1>3

\* Taking a hold takes every reclaimed hold off its own counters and puts the new
\* one on today's; the row it is put on was not an open hold that stays behind.
Remaining(c, k, seen, now) == HoldsOn(c) \ ReclaimedOn(c, k, seen, now)
NewOn(c, k) == IF c \in CountersFor(k, Today) THEN {k} ELSE {}

LEMMA HoldsTaken ==
  ASSUME Types, ~stolen',
         NEW k \in Keys, NEW seen \in Row, Faithful(k, seen), ~Charged(seen), CanWrite(k, seen),
         NEW tok, NEW now, TakeHold(k, seen, tok, now), NEW c
  PROVE  /\ ~stolen
         /\ \A j \in Reclaimed(k, seen, now) :
              /\ (IF j = k THEN seen ELSE rows[j]).day = rows[j].day
              /\ (IF j = k THEN seen ELSE rows[j]).tokens = rows[j].tokens
         /\ ReclaimedOn(c, k, seen, now) \subseteq HoldsOn(c)
         /\ k \notin Remaining(c, k, seen, now)
         /\ HoldsNext(c) = Remaining(c, k, seen, now) \cup NewOn(c, k)
         /\ \A j \in Remaining(c, k, seen, now) : rows'[j] = rows[j]
         /\ rows'[k].tokens = tok
<1> DEFINE gone == Reclaimed(k, seen, now)
           on == ReclaimedOn(c, k, seen, now)
           new == NewOn(c, k)
           rest == Remaining(c, k, seen, now)
<1>1. /\ ~stolen
      /\ k \in gone => seen.hold = rows[k].hold
  BY DEF TakeHold, Reclaimed, Types, BudgetTypeOK
<1>2. \A j \in gone : /\ (IF j = k THEN seen ELSE rows[j]).day = rows[j].day
                      /\ (IF j = k THEN seen ELSE rows[j]).tokens = rows[j].tokens
  BY <1>1 DEF Faithful
<1>3. on \subseteq HoldsOn(c)
  BY <1>2, ReclaimedFacts DEF ReclaimedOn, HoldsOn, Claimable
<1>4. \A j \in HoldsOn(c) \cap gone : j \in on
  BY <1>2 DEF ReclaimedOn, HoldsOn
<1>5. k \notin rest
  <2>1. CASE Claimable(k)
    <3>1. seen.status = "reserved"
      BY <2>1 DEF CanWrite, Charged, Claimable, Row, Statuses
    <3>2. k \in gone
      BY <2>1, <3>1 DEF Reclaimed
    <3>3. QED
      BY <1>4, <3>2 DEF Remaining
  <2>2. CASE ~Claimable(k)
    BY <2>2 DEF HoldsOn, Claimable, Remaining
  <2>3. QED
    BY <2>1, <2>2
<1>6. /\ rows'[k].status = "reserved" /\ rows'[k].day = Today /\ rows'[k].tokens = tok
      /\ \A j \in Keys \ {k} :
           /\ j \in gone => rows'[j].status = "unknown"
           /\ j \notin gone => rows'[j] = rows[j]
  BY DEF TakeHold, Reclaimed, Reheld, Types, BudgetTypeOK, Row
<1>7. \A j \in rest : rows'[j] = rows[j]
  BY <1>4, <1>5, <1>6 DEF Remaining, HoldsOn
<1>8. HoldsNext(c) = rest \cup new
  <2>1. ASSUME NEW j \in Keys, j # k
        PROVE  j \in HoldsNext(c) <=> j \in rest
    <3>1. CASE j \in gone
      BY <1>4, <1>6, <2>1, <3>1 DEF HoldsNext, Remaining
    <3>2. CASE j \notin gone
      <4>1. j \notin on
        BY <3>2, ReclaimedFacts
      <4>2. QED
        BY <1>6, <2>1, <3>2, <4>1 DEF HoldsNext, HoldsOn, Remaining
    <3>3. QED
      BY <3>1, <3>2
  <2>2. k \in HoldsNext(c) <=> k \in new
    BY <1>6 DEF HoldsNext, NewOn
  <2>3. HoldsNext(c) \subseteq Keys /\ rest \subseteq Keys /\ new \subseteq {k}
    BY DEF HoldsNext, HoldsOn, NewOn, Remaining
  <2>4. QED
    BY <1>5, <2>1, <2>2, <2>3
<1>9. QED
  BY <1>1, <1>2, <1>3, <1>5, <1>6, <1>7, <1>8

\* How many are left, and how many there are after it.
LEMMA HoldsCounted ==
  ASSUME Types, ~stolen',
         NEW k \in Keys, NEW seen \in Row, Faithful(k, seen), ~Charged(seen), CanWrite(k, seen),
         NEW tok, NEW now, TakeHold(k, seen, tok, now), NEW c
  PROVE  LET on == Cardinality(ReclaimedOn(c, k, seen, now))
             held == Cardinality(HoldsOn(c))
         IN  /\ on \in Nat /\ held \in Nat
             /\ Cardinality(HoldsNext(c))
                  = held - on + (IF c \in CountersFor(k, Today) THEN 1 ELSE 0)
<1> DEFINE on == ReclaimedOn(c, k, seen, now)
           rest == Remaining(c, k, seen, now)
<1>1. /\ on \subseteq HoldsOn(c) /\ k \notin rest
      /\ HoldsNext(c) = rest \cup NewOn(c, k)
  BY HoldsTaken
<1>2. IsFiniteSet(rest) /\ Cardinality(rest) = Cardinality(HoldsOn(c)) - Cardinality(on)
  <2>1. HoldsOn(c) \cap on = on
    BY <1>1
  <2>2. QED
    BY <2>1, HoldsFacts, FS_Difference DEF Remaining
<1>3. Cardinality(on) \in Nat /\ Cardinality(HoldsOn(c)) \in Nat
  BY ReclaimedFacts, HoldsFacts
<1>4. CASE c \in CountersFor(k, Today)
  <2>1. HoldsNext(c) = rest \cup {k}
    BY <1>1, <1>4 DEF NewOn
  <2>2. QED
    BY <1>1, <1>2, <1>3, <1>4, <2>1, FS_AddElement
<1>5. CASE c \notin CountersFor(k, Today)
  <2>1. HoldsNext(c) = rest
    BY <1>1, <1>5 DEF NewOn
  <2>2. QED
    BY <1>2, <1>3, <1>5, <2>1
<1>6. QED
  BY <1>4, <1>5

LEMMA TakenHold ==
  ASSUME Types, SpendConserved, ~stolen',
         NEW k \in Keys, NEW seen \in Row, Faithful(k, seen), Takes(k, seen),
         NEW c \in Counters
  PROVE  reserved'[c] = HoldMicro * Cardinality(HoldsNext(c))
<1>1. PICK tok \in TokenHolds \cup {0}, now \in 0 .. MaxClock :
        /\ ~Charged(seen)
        /\ CanWrite(k, seen)
        /\ TakeHold(k, seen, tok, now)
  BY DEF Takes
<1> DEFINE on == Cardinality(ReclaimedOn(c, k, seen, now))
           held == Cardinality(HoldsOn(c))
           one == IF c \in CountersFor(k, Today) THEN 1 ELSE 0
<1>2. /\ on \in Nat /\ held \in Nat
      /\ Cardinality(HoldsNext(c)) = held - on + one
      /\ ~stolen
  BY <1>1, HoldsTaken, HoldsCounted
<1>3. reserved[c] = HoldMicro * held
  BY <1>2 DEF SpendConserved
<1>4. reserved'[c] = reserved[c] - HoldMicro * on
                     + (IF c \in CountersFor(k, Today) THEN HoldMicro ELSE 0)
  BY <1>1 DEF TakeHold, ReclaimedOn, Reclaimed
<1> HIDE DEF on, held
<1>5. /\ HoldMicro \in Int /\ HoldMicro * on \in Int /\ HoldMicro * held \in Int
      /\ HoldMicro * (held - on) = HoldMicro * held - HoldMicro * on
      /\ HoldMicro * (held - on + 1) = HoldMicro * (held - on) + HoldMicro
  BY <1>2, Distributes, BudgetAssumption
<1>6. QED
  BY <1>2, <1>3, <1>4, <1>5

LEMMA SpendStep ==
  Types /\ CopiesFaithful /\ SpendConserved /\ [Next]_vars => SpendConserved'
<1> SUFFICES ASSUME Types, CopiesFaithful, SpendConserved, [Next]_vars, ~stolen',
                    NEW c \in Counters
             PROVE  reserved'[c] = HoldMicro * Cardinality(HoldsNext(c))
  BY DEF SpendConserved, HoldsOn, HoldsNext
<1>1. CASE UNCHANGED bookVars
  <2>1. HoldsNext(c) = HoldsOn(c)
    BY <1>1 DEF bookVars, HoldsNext, HoldsOn
  <2>2. QED
    BY <1>1, <2>1 DEF bookVars, SpendConserved
<1>2. ASSUME NEW k \in Keys, NEW copy \in Row, Books(k, copy), ~UNCHANGED bookVars
      PROVE  reserved'[c] = HoldMicro * Cardinality(HoldsNext(c))
  <2>1. CASE Takes(k, copy)
    BY <1>2, <2>1, TakenHold DEF Books
  <2>2. CASE Settles(k, copy)
    <3>1. PICK status \in {"settled", "unknown"} :
            /\ Claimable(k)
            /\ rows' = [rows EXCEPT ![k].status = status]
            /\ Unreserve(k, copy)
      BY <1>2, <2>2 DEF Settles, SettleBudget
    <3>2. QED
      BY <1>2, <3>1, EndedHold DEF Books
  <2>3. CASE ReleaseBudget(k, copy)
    <3>1. /\ Claimable(k)
          /\ rows' = [rows EXCEPT ![k].status = "released"]
          /\ Unreserve(k, copy)
      BY <1>2, <2>3 DEF ReleaseBudget
    <3>2. QED
      BY <1>2, <3>1, EndedHold DEF Books
  <2>4. QED
    BY <1>2, <2>1, <2>2, <2>3 DEF Books
<1>3. QED
  BY <1>1, <1>2, BookSteps

LEMMA SpendInit == Init => SpendConserved
<1> SUFFICES ASSUME Init, NEW c \in Counters
             PROVE  reserved[c] = HoldMicro * Cardinality(HoldsOn(c))
  BY DEF SpendConserved
<1>1. HoldsOn(c) = {}
  BY DEF Init, BudgetInit, HoldsOn, NoRow
<1>2. reserved[c] = 0
  BY DEF Init, BudgetInit
<1>3. QED
  BY <1>1, <1>2, FS_EmptySet, BudgetAssumption

\* As long as no hold was ended through a copy of an earlier one, every counter
\* reserves exactly the open holds written on it.
THEOREM MoneyConserved == Spec => []SpendConserved
<1> DEFINE IInv == Types /\ CopiesFaithful /\ SpendConserved
<1>1. Init => IInv
  BY TypesInit, CopiesInit, SpendInit
<1>2. IInv /\ [Next]_vars => IInv'
  BY TypesStep, CopiesStep, SpendStep
<1>3. QED
  BY <1>1, <1>2, PTL DEF Spec

-----------------------------------------------------------------------------
(***************************************************************************)
(* Limits.  They hold even when a hold is stolen: ending a hold through    *)
(* any copy frees what it charges, and only HasRoom lets amounts grow.     *)
(***************************************************************************)
LEMMA LimitsStep ==
  Types /\ CopiesFaithful /\ WithinLimits /\ [Next]_vars => WithinLimits'
<1> SUFFICES ASSUME Types, CopiesFaithful, WithinLimits, [Next]_vars
             PROVE  WithinLimits'
  OBVIOUS
<1>0. /\ HoldMicro \in Nat /\ EverydayLimit \in Nat
      /\ \A c \in Counters : reserved[c] \in Int /\ settled[c] \in Int
      /\ \A w \in Windows : everyday[w] \in Int
  BY BudgetAssumption DEF Types, BudgetTypeOK
<1>1. CASE UNCHANGED bookVars
  BY <1>1 DEF bookVars, WithinLimits
<1>2. ASSUME NEW k \in Keys, NEW copy \in Row, Books(k, copy), ~UNCHANGED bookVars
      PROVE  WithinLimits'
  <2>1. CASE Takes(k, copy)
    <3>1. PICK tok \in TokenHolds \cup {0}, now \in 0 .. MaxClock :
            HasRoom(k, tok) /\ TakeHold(k, copy, tok, now)
      BY <2>1 DEF Takes
    <3>2. ASSUME NEW c \in Counters
          PROVE  reserved'[c] + settled'[c] <= SpendLimit[c.kind]
      <4> DEFINE moved == HoldMicro * Cardinality(ReclaimedOn(c, k, copy, now))
      <4>1. moved \in Int
        BY <1>0, ReclaimedFacts
      <4>2. /\ reserved'[c] = reserved[c] - moved
                              + (IF c \in CountersFor(k, Today) THEN HoldMicro ELSE 0)
            /\ settled'[c] = settled[c] + moved
        BY <3>1 DEF TakeHold, ReclaimedOn, Reclaimed
      <4>3. reserved[c] + settled[c] <= SpendLimit[c.kind]
        BY DEF WithinLimits
      <4>4. c \in CountersFor(k, Today) =>
              reserved[c] + settled[c] + HoldMicro <= SpendLimit[c.kind]
        BY <3>1 DEF HasRoom
      <4>5. c.kind \in Kinds /\ SpendLimit[c.kind] \in Int
        BY BudgetAssumption DEF Counters, Windows, WindowOf, PeriodOf, PlatformOf, Kinds
      <4> HIDE DEF moved
      <4>6. QED
        BY <1>0, <4>1, <4>2, <4>3, <4>4, <4>5
    <3>3. ASSUME NEW w \in Windows
          PROVE  everyday'[w] <= EverydayLimit
      <4>1. everyday' = [everyday EXCEPT ![WindowFor(k, Today)] = @ + 1]
        BY <3>1 DEF TakeHold
      <4>2. everyday[WindowFor(k, Today)] < EverydayLimit
        BY <3>1 DEF HasRoom
      <4>3. QED
        BY <1>0, <4>1, <4>2 DEF WithinLimits, Types, BudgetTypeOK
    <3>4. QED
      BY <3>2, <3>3 DEF WithinLimits
  <2>2. CASE Settles(k, copy)
    <3>1. PICK micro \in 0 .. HoldMicro :
            /\ Unreserve(k, copy)
            /\ settled' = [c \in Counters |->
                              IF c \in CountersFor(k, copy.day)
                              THEN settled[c] + micro ELSE settled[c]]
            /\ everyday' = everyday
      BY <1>2, <2>2 DEF Settles, SettleBudget
    <3>2. ASSUME NEW c \in Counters
          PROVE  reserved'[c] + settled'[c] <= SpendLimit[c.kind]
      <4>1. reserved[c] + settled[c] <= SpendLimit[c.kind] /\ SpendLimit[c.kind] \in Int
        BY BudgetAssumption
        DEF WithinLimits, Counters, Windows, WindowOf, PeriodOf, PlatformOf, Kinds
      <4>2. /\ reserved'[c] = IF c \in CountersFor(k, copy.day)
                              THEN reserved[c] - HoldMicro ELSE reserved[c]
            /\ settled'[c] = IF c \in CountersFor(k, copy.day)
                             THEN settled[c] + micro ELSE settled[c]
        BY <3>1 DEF Unreserve
      <4>3. QED
        BY <1>0, <4>1, <4>2
    <3>3. QED
      BY <3>1, <3>2 DEF WithinLimits
  <2>3. CASE ReleaseBudget(k, copy)
    <3>1. /\ Unreserve(k, copy)
          /\ settled' = settled
          /\ everyday' = [everyday EXCEPT ![WindowFor(k, copy.day)] = @ - 1]
      BY <1>2, <2>3 DEF ReleaseBudget
    <3>2. ASSUME NEW c \in Counters
          PROVE  reserved'[c] + settled'[c] <= SpendLimit[c.kind]
      <4>1. reserved[c] + settled[c] <= SpendLimit[c.kind] /\ SpendLimit[c.kind] \in Int
        BY BudgetAssumption
        DEF WithinLimits, Counters, Windows, WindowOf, PeriodOf, PlatformOf, Kinds
      <4>2. reserved'[c] = IF c \in CountersFor(k, copy.day)
                           THEN reserved[c] - HoldMicro ELSE reserved[c]
        BY <3>1 DEF Unreserve
      <4>3. QED
        BY <1>0, <3>1, <4>1, <4>2
    <3>3. ASSUME NEW w \in Windows
          PROVE  everyday'[w] <= EverydayLimit
      BY <1>0, <3>1 DEF WithinLimits, Types, BudgetTypeOK
    <3>4. QED
      BY <3>2, <3>3 DEF WithinLimits
  <2>4. QED
    BY <1>2, <2>1, <2>2, <2>3 DEF Books
<1>3. QED
  BY <1>1, <1>2, BookSteps

LEMMA LimitsInit == Init => WithinLimits
<1> SUFFICES ASSUME Init PROVE WithinLimits
  OBVIOUS
<1>1. \A c \in Counters : c.kind \in Kinds
  BY DEF Counters, Windows, WindowOf, PeriodOf, PlatformOf, Kinds
<1>2. \A c \in Counters : SpendLimit[c.kind] \in Nat /\ reserved[c] = 0 /\ settled[c] = 0
  BY <1>1, BudgetAssumption DEF Init, BudgetInit
<1>3. \A w \in Windows : everyday[w] = 0
  BY DEF Init, BudgetInit
<1>4. QED
  BY <1>2, <1>3, BudgetAssumption DEF WithinLimits

\* No order of admissions, settlements, refunds and reclaims takes an account's
\* day, its period or the platform past its limit.
THEOREM LimitsHold == Spec => []WithinLimits
<1> DEFINE IInv == Types /\ CopiesFaithful /\ WithinLimits
<1>1. Init => IInv
  BY TypesInit, CopiesInit, LimitsInit
<1>2. IInv /\ [Next]_vars => IInv'
  BY TypesStep, CopiesStep, LimitsStep
<1>3. QED
  BY <1>1, <1>2, PTL DEF Spec

-----------------------------------------------------------------------------
(***************************************************************************)
(* Replies.                                                                *)
(***************************************************************************)
\* Stored runs are never replaced.
LEMMA RunsKept ==
  ASSUME Types, [Next]_vars, NEW k \in Keys, runs[k] # None
  PROVE  runs'[k] = runs[k]
<1>1. ASSUME NEW r \in Requests, NEW used, Complete(r, used)
      PROVE  runs'[k] = runs[k]
  BY <1>1 DEF Complete, RunInsertable, Types, HandlersTypeOK
<1>2. QED
  BY <1>1 DEF Next, Tick, messageVars, vars, Handle, SendMessage, Regenerate, LookUp,
              ReadReservation, CommitReservation, RefuseReservation, StoreFailed,
              GenerationRaised, Crash

\* An answer that shows a reply shows the stored run of its key.
Answered(a, stored) ==
  a.kind = "replied" =>
    /\ a.key \in Keys
    /\ stored[a.key] # None
    /\ a.author = stored[a.key].author
AllAnswered == \A q \in Requests : Answered(reply[q], runs)

LEMMA AnsweredStep == Types /\ AllAnswered /\ [Next]_vars => AllAnswered'
<1> SUFFICES ASSUME Types, AllAnswered, [Next]_vars, NEW q \in Requests
             PROVE  Answered(reply'[q], runs')
  BY DEF AllAnswered, Answered
<1>1. \A k \in Keys : runs[k] # None => runs'[k] = runs[k]
  BY RunsKept
<1>2. Answered(reply[q], runs')
  BY <1>1 DEF AllAnswered, Answered
<1>3. ASSUME NEW r \in Requests, q = r \/ q # r, reply' = [reply EXCEPT ![r] = Refused]
      PROVE  Answered(reply'[q], runs')
  <2>1. Refused.kind # "replied"
    BY DEF Refused, NoReply
  <2>2. reply'[q] = Refused \/ reply'[q] = reply[q]
    BY <1>3 DEF Types, HandlersTypeOK
  <2>3. QED
    BY <1>2, <2>1, <2>2 DEF Answered
<1>4. ASSUME NEW r \in Requests, NEW k \in Keys, NEW b, runs[k] # None,
             reply' = [reply EXCEPT ![r] = StoredReply(k, b)]
      PROVE  Answered(reply'[q], runs')
  <2>1. Answered(StoredReply(k, b), runs')
    BY <1>1, <1>4 DEF StoredReply, Answered, Refused, NoReply
  <2>2. reply'[q] = StoredReply(k, b) \/ reply'[q] = reply[q]
    BY <1>4 DEF Types, HandlersTypeOK
  <2>3. QED
    BY <1>2, <2>1, <2>2
<1>5. \A r \in Requests : req[r].pc = "generating" => req[r].key \in Keys
  BY DEF Types, HandlersAtWork, Working
<1>6. ASSUME NEW r \in Requests, NEW used, Complete(r, used)
      PROVE  Answered(reply'[q], runs')
  <2> DEFINE k == req[r].key
             a == [kind |-> "replied", key |-> k, author |-> r]
  <2>1. k \in Keys
    BY <1>5, <1>6 DEF Complete
  <2>2. runs'[k] \in Run /\ runs'[k].author = r
    <3>1. PICK usable \in BOOLEAN :
            runs' = [runs EXCEPT ![k] = [author |-> r, body |-> req[r].body,
                                         prev |-> req[r].prev, usable |-> usable]]
      BY <1>6 DEF Complete
    <3>2. req[r].body \in Bodies /\ req[r].prev \in Keys \cup {None}
      BY <1>6 DEF Complete, Types, HandlersAtWork, Working, HandlersTypeOK, Handler
    <3>3. QED
      BY <2>1, <3>1, <3>2 DEF Types, HandlersTypeOK, Run
  <2>3. runs'[k] # None
    BY <2>2, MessagesAssumption
  <2>4. Answered(a, runs')
    BY <2>1, <2>2, <2>3 DEF Answered
  <2>5. reply'[q] = a \/ reply'[q] = reply[q]
    BY <1>6 DEF Complete, Types, HandlersTypeOK
  <2>6. QED
    BY <1>2, <2>4, <2>5
<1>7. ASSUME NEW r \in Requests, NEW k \in Keys, NEW b, NEW p, LookUp(r, k, b, p)
      PROVE  Answered(reply'[q], runs')
  BY <1>2, <1>4, <1>7 DEF LookUp
<1>8. ASSUME NEW r \in Requests, NEW used, StoreFailed(r, used)
      PROVE  Answered(reply'[q], runs')
  BY <1>3, <1>4, <1>5, <1>8 DEF StoreFailed
<1>9. ASSUME NEW r \in Requests, ReadReservation(r) \/ RefuseReservation(r) \/ GenerationRaised(r)
      PROVE  Answered(reply'[q], runs')
  BY <1>2, <1>3, <1>9 DEF ReadReservation, RefuseReservation, GenerationRaised, Refuse
<1>10. ASSUME NEW r \in Requests, CommitReservation(r) \/ Crash(r)
       PROVE  Answered(reply'[q], runs')
  BY <1>2, <1>10 DEF CommitReservation, Crash
<1>11. CASE (Tick /\ UNCHANGED messageVars) \/ UNCHANGED vars
  BY <1>2, <1>11 DEF messageVars, vars
<1>12. QED
  BY <1>6, <1>7, <1>8, <1>9, <1>10, <1>11 DEF Next, Handle, SendMessage, Regenerate

\* Every client that got a reply for a key got the one run stored for it.
THEOREM OneReplyPerKey == Spec => []RepliesAgree
<1>1. Init => AllAnswered
  BY DEF Init, AllAnswered, Answered, NoReply
<1>2. AllAnswered => RepliesAgree
  BY DEF AllAnswered, Answered, RepliesAgree
<1>3. QED
  BY <1>1, <1>2, TypesInit, TypesStep, AnsweredStep, PTL DEF Spec

-----------------------------------------------------------------------------
(***************************************************************************)
(* The shared cap on provider requests.                                    *)
(***************************************************************************)
Running(d) == {r \in Requests : req[r].pc = "generating" /\ req[r].day = d}
RunningNext(d) == {r \in Requests : req'[r].pc = "generating" /\ req'[r].day = d}

LEMMA RunningFacts ==
  ASSUME NEW d
  PROVE  /\ IsFiniteSet(Running(d)) /\ Cardinality(Running(d)) \in Nat
         /\ IsFiniteSet(RunningNext(d)) /\ Cardinality(RunningNext(d)) \in Nat
<1>1. Running(d) \subseteq Requests /\ RunningNext(d) \subseteq Requests
  BY DEF Running, RunningNext
<1>2. QED
  BY <1>1, MessagesAssumption, FS_Subset, FS_CardinalityType

\* A handler that ends gives up the requests it was admitted for, and no more.
LEMMA SlotsAtEnd ==
  ASSUME Types, SlotsCoverRequests,
         NEW r \in Requests, req[r].pc = "generating",
         NEW pc \in {"done", "crashed"}, req' = End(r, pc),
         NEW used \in 0 .. MostAttempts, Record(req[r].day, used),
         \/ ReturnGatewayRequests(req[r].day, used)
         \/ used = MostAttempts /\ UNCHANGED gatewayUsed
  PROVE  SlotsCoverRequests'
<1>1. /\ req[r].day \in Days
      /\ \A d \in Days : gatewayUsed[d] \in Nat /\ made[d] \in Nat
      /\ MostAttempts \in Nat /\ MaxAttempts \in Nat /\ GatewayLimit \in Nat
  BY MessagesAssumption DEF Types, HandlersTypeOK, Handler, MostAttempts
<1>2. SUFFICES ASSUME NEW d \in Days
               PROVE  /\ made'[d] + MostAttempts * Cardinality(RunningNext(d)) <= gatewayUsed'[d]
                      /\ gatewayUsed'[d] <= GatewayLimit
  BY DEF SlotsCoverRequests, RunningNext, MostAttempts
<1>3. /\ made[d] + MostAttempts * Cardinality(Running(d)) <= gatewayUsed[d]
      /\ gatewayUsed[d] <= GatewayLimit
  BY DEF SlotsCoverRequests, Running
<1>4. RunningNext(d) = Running(d) \ {r}
  BY EndTypes DEF Types, RunningNext, Running, End, Idle, HandlersTypeOK
<1>5. CASE d # req[r].day
  <2>1. RunningNext(d) = Running(d)
    BY <1>4, <1>5 DEF Running
  <2>2. made'[d] = made[d] /\ gatewayUsed'[d] = gatewayUsed[d]
    BY <1>5 DEF Record, ReturnGatewayRequests, Types, HandlersTypeOK
  <2>3. QED
    BY <1>3, <2>1, <2>2
<1>6. CASE d = req[r].day
  <2> DEFINE n == Cardinality(Running(d))
  <2>1. r \in Running(d)
    BY <1>6 DEF Running
  <2>2. Cardinality(RunningNext(d)) = n - 1 /\ n \in Nat
    BY <1>4, <2>1, RunningFacts, FS_RemoveElement
  <2>3. MostAttempts * (n - 1) = MostAttempts * n - MostAttempts /\ MostAttempts * n \in Int
    BY <1>1, <2>2, Distributes
  <2>4. made'[d] = made[d] + used
    BY <1>6 DEF Record, Types, HandlersTypeOK
  <2>5. \/ gatewayUsed'[d] = gatewayUsed[d] /\ used <= MostAttempts
        \/ gatewayUsed'[d] = gatewayUsed[d] - (MostAttempts - used)
    BY <1>1, <1>6 DEF ReturnGatewayRequests, MostAttempts, Types, HandlersTypeOK
  <2> HIDE DEF n
  <2>6. made'[d] + MostAttempts * (n - 1) <= gatewayUsed'[d]
    BY <1>1, <1>3, <2>3, <2>4, <2>5 DEF n
  <2>7. gatewayUsed'[d] <= GatewayLimit
    BY <1>1, <1>3, <2>5
  <2>8. QED
    BY <2>2, <2>6, <2>7
<1>7. QED
  BY <1>5, <1>6

LEMMA SlotsAtCommit ==
  ASSUME Types, SlotsCoverRequests, NEW r \in Requests, CommitReservation(r)
  PROVE  SlotsCoverRequests'
<1>1. /\ Today \in Days
      /\ \A d \in Days : gatewayUsed[d] \in Nat /\ made[d] \in Nat
      /\ MostAttempts \in Nat /\ MaxAttempts \in Nat /\ GatewayLimit \in Nat
      /\ PaidReserve \in Nat
  BY DayFacts, MessagesAssumption DEF Types, BudgetTypeOK, HandlersTypeOK, MostAttempts
<1>2. SUFFICES ASSUME NEW d \in Days
               PROVE  /\ made'[d] + MostAttempts * Cardinality(RunningNext(d)) <= gatewayUsed'[d]
                      /\ gatewayUsed'[d] <= GatewayLimit
  BY DEF SlotsCoverRequests, RunningNext, MostAttempts
<1>3. /\ made[d] + MostAttempts * Cardinality(Running(d)) <= gatewayUsed[d]
      /\ gatewayUsed[d] <= GatewayLimit
  BY DEF SlotsCoverRequests, Running
<1>4. /\ \A q \in Requests \ {r} : req'[q] = req[q]
      /\ req[r].pc = "read"
      /\ req'[r].pc = "generating"
      /\ req'[r].day = Today
      /\ made' = made
  BY DEF CommitReservation, Types, HandlersTypeOK, Handler
<1>5. r \notin Running(d)
  BY <1>4 DEF Running
<1>6. CASE d # Today
  <2>1. RunningNext(d) = Running(d)
    BY <1>4, <1>5, <1>6 DEF Running, RunningNext
  <2>2. gatewayUsed'[d] = gatewayUsed[d]
    BY <1>1, <1>6 DEF CommitReservation, AdmitGatewayRequests, Types, HandlersTypeOK
  <2>3. QED
    BY <1>3, <1>4, <2>1, <2>2
<1>7. CASE d = Today
  <2> DEFINE n == Cardinality(Running(d))
  <2>1. RunningNext(d) = Running(d) \cup {r}
    BY <1>4, <1>7 DEF Running, RunningNext
  <2>2. Cardinality(RunningNext(d)) = n + 1 /\ n \in Nat
    BY <1>5, <2>1, RunningFacts, FS_AddElement
  <2>3. MostAttempts * (n + 1) = MostAttempts * n + MostAttempts /\ MostAttempts * n \in Int
    BY <1>1, <2>2, Distributes
  <2>4. gatewayUsed'[d] = gatewayUsed[d] + MostAttempts
    BY <1>1, <1>7 DEF CommitReservation, AdmitGatewayRequests, MostAttempts, Types, HandlersTypeOK
  <2>5. gatewayUsed'[d] <= GatewayLimit
    <3>1. CASE Live
      BY <1>1, <1>7, <2>4, <3>1
      DEF CommitReservation, GatewayRoom, Ceiling, MostAttempts
    <3>2. CASE ~Live
      BY <1>1, <1>3, <2>4, <3>2 DEF MostAttempts
    <3>3. QED
      BY <3>1, <3>2
  <2> HIDE DEF n
  <2>6. made'[d] + MostAttempts * (n + 1) <= gatewayUsed'[d]
    BY <1>1, <1>3, <1>4, <2>3, <2>4 DEF n
  <2>7. QED
    BY <2>2, <2>5, <2>6
<1>8. QED
  BY <1>6, <1>7

\* A step that moves no handler into or out of generation moves no slots.
LEMMA SlotsElsewhere ==
  ASSUME Types, SlotsCoverRequests, UNCHANGED <<gatewayUsed, made>>,
         \A q \in Requests :
           \/ req'[q] = req[q]
           \/ req[q].pc # "generating" /\ req'[q].pc # "generating"
  PROVE  SlotsCoverRequests'
<1>1. \A d \in Days : Running(d) = RunningNext(d)
  BY DEF Running, RunningNext
<1>2. SUFFICES ASSUME NEW d \in Days
               PROVE  /\ made'[d] + MostAttempts * Cardinality(RunningNext(d)) <= gatewayUsed'[d]
                      /\ gatewayUsed'[d] <= GatewayLimit
  BY DEF SlotsCoverRequests, RunningNext, MostAttempts
<1>3. QED
  BY <1>1 DEF SlotsCoverRequests, Running

LEMMA SlotsStep == Types /\ SlotsCoverRequests /\ [Next]_vars => SlotsCoverRequests'
<1> SUFFICES ASSUME Types, SlotsCoverRequests, [Next]_vars PROVE SlotsCoverRequests'
  OBVIOUS
<1>1. MostAttempts \in 0 .. MostAttempts
  BY MessagesAssumption DEF MostAttempts
<1>2. ASSUME NEW r \in Requests, NEW used \in 0 .. MostAttempts,
             Complete(r, used) \/ StoreFailed(r, used)
      PROVE  SlotsCoverRequests'
  BY <1>2, SlotsAtEnd DEF Complete, StoreFailed
<1>3. ASSUME NEW r \in Requests, GenerationRaised(r) \/ Crash(r)
      PROVE  SlotsCoverRequests'
  BY <1>1, <1>3, SlotsAtEnd DEF GenerationRaised, Crash, Refuse
<1>4. ASSUME NEW r \in Requests, NEW h, req' = [req EXCEPT ![r] = h],
             req[r].pc # "generating", h.pc # "generating", UNCHANGED <<gatewayUsed, made>>
      PROVE  SlotsCoverRequests'
  BY <1>4, SlotsElsewhere DEF Types, HandlersTypeOK
<1>5. [Idle EXCEPT !.pc = "done"].pc # "generating"
  BY DEF Idle
<1>6. ASSUME NEW r \in Requests, NEW k \in Keys, NEW b, NEW p, LookUp(r, k, b, p)
      PROVE  SlotsCoverRequests'
  <2>1. [Idle EXCEPT !.pc = "looked", !.key = k, !.body = b, !.prev = p].pc # "generating"
    BY DEF Idle
  <2>2. QED
    BY <1>4, <1>5, <1>6, <2>1 DEF LookUp, End
<1>7. ASSUME NEW r \in Requests, ReadReservation(r)
      PROVE  SlotsCoverRequests'
  <2>1. CASE Refuse(r)
    BY <1>4, <1>5, <1>7, <2>1 DEF ReadReservation, Refuse, End
  <2>2. CASE ~Refuse(r)
    <3> DEFINE h == [req[r] EXCEPT !.pc = "read", !.seen = rows[req[r].key], !.now = clock]
    <3>1. req' = [req EXCEPT ![r] = h]
      BY <1>7, <2>2 DEF ReadReservation
    <3>2. h.pc = "read"
      BY DEF Types, HandlersTypeOK, Handler
    <3> HIDE DEF h
    <3>3. QED
      BY <1>4, <1>7, <3>1, <3>2 DEF ReadReservation
  <2>3. QED
    BY <2>1, <2>2
<1>8. ASSUME NEW r \in Requests, RefuseReservation(r)
      PROVE  SlotsCoverRequests'
  BY <1>4, <1>5, <1>8 DEF RefuseReservation, Refuse, End
<1>9. CASE (Tick /\ UNCHANGED messageVars) \/ UNCHANGED vars
  BY <1>9, SlotsElsewhere DEF messageVars, vars
<1>10. QED
  BY <1>2, <1>3, <1>6, <1>7, <1>8, <1>9, SlotsAtCommit DEF Next, Handle, SendMessage, Regenerate

\* Whatever crashes, raises or ends after midnight, a day's counter covers the
\* provider requests made and those still to come, and never passes the cap.
THEOREM CapHolds == Spec => []SlotsCoverRequests
<1>1. Init => SlotsCoverRequests
  <2> SUFFICES ASSUME Init, NEW d \in Days
               PROVE  /\ made[d] + MostAttempts * Cardinality(Running(d)) <= gatewayUsed[d]
                      /\ gatewayUsed[d] <= GatewayLimit
    BY DEF SlotsCoverRequests, Running
  <2>1. Running(d) = {}
    BY DEF Init, Running, Idle
  <2>2. MostAttempts * Cardinality(Running(d)) = 0
    BY <2>1, FS_EmptySet, MessagesAssumption DEF MostAttempts
  <2>3. QED
    BY <2>2, MessagesAssumption DEF Init
<1>2. QED
  BY <1>1, TypesInit, TypesStep, SlotsStep, PTL DEF Spec

-----------------------------------------------------------------------------
(***************************************************************************)
(* Charges.  An open hold has not been charged yet, so every settlement    *)
(* adds an entry of its own to the ledger.                                 *)
(***************************************************************************)
\* A ledger entry is of an earlier hold of its key, or of one that was charged.
Settled(e, k, row) ==
  e.key = k => e.hold < row.hold \/ (e.hold = row.hold /\ row.status \in {"settled", "unknown"})
LedgerSettled ==
  /\ IsFiniteSet(ledger)
  /\ \A e \in ledger, k \in Keys : Settled(e, k, rows[k])

\* What TakeHold reclaims, it adds to the ledger, an entry for each.
LEMMA TakenCharges ==
  ASSUME Types, NEW k \in Keys, NEW seen \in Row, NEW tok, NEW now,
         TakeHold(k, seen, tok, now)
  PROVE  LET copy(j) == IF j = k THEN seen ELSE rows[j] IN
         ledger' = ledger \cup {ChargeOf(j, copy(j)) : j \in Reclaimed(k, seen, now)}
  BY DEF TakeHold, Reclaimed

\* No charge is ever taken back.
LEMMA LedgerGrows ==
  ASSUME Types, CopiesFaithful, [Next]_vars
  PROVE  ledger \subseteq ledger'
<1>1. ASSUME NEW k \in Keys, NEW copy \in Row, Books(k, copy)
      PROVE  ledger \subseteq ledger'
  BY <1>1 DEF Books, Takes, TakeHold, Settles, SettleBudget, ReleaseBudget, bookVars
<1>2. QED
  BY <1>1, BookSteps DEF bookVars

LEMMA LedgerStep ==
  Types /\ CopiesFaithful /\ LedgerSettled /\ [Next]_vars => LedgerSettled'
<1> SUFFICES ASSUME Types, CopiesFaithful, LedgerSettled, [Next]_vars PROVE LedgerSettled'
  OBVIOUS
<1>0. \A j \in Keys : rows[j] \in Row /\ rows[j].hold \in Nat
  BY DEF Types, BudgetTypeOK, Row
<1>1. CASE UNCHANGED bookVars
  BY <1>1 DEF bookVars, LedgerSettled
<1>2. ASSUME NEW k \in Keys, NEW copy \in Row, Books(k, copy), ~UNCHANGED bookVars
      PROVE  LedgerSettled'
  <2>1. CASE Takes(k, copy)
    <3>1. PICK tok, now : TakeHold(k, copy, tok, now)
      BY <2>1 DEF Takes
    <3> DEFINE gone == Reclaimed(k, copy, now)
               charge == [j \in gone |-> ChargeOf(j, IF j = k THEN copy ELSE rows[j])]
    <3>2. ledger' = ledger \cup {charge[j] : j \in gone}
      BY <3>1, TakenCharges
    <3>3. IsFiniteSet({charge[j] : j \in gone})
      <4>1. IsFiniteSet(gone)
        BY ReclaimedFacts, BudgetAssumption, FS_Subset
      <4> DEFINE all == {charge[j] : j \in gone}
      <4>2. charge \in [gone -> all] /\ \A t \in all : \E j \in gone : charge[j] = t
        OBVIOUS
      <4> HIDE DEF charge, all
      <4>3. charge \in Surjection(gone, all)
        BY <4>2 DEF Surjection
      <4>4. QED
        BY <4>1, <4>3, FS_Surjection DEF all
    <3>4. IsFiniteSet(ledger')
      BY <3>2, <3>3, FS_Union DEF LedgerSettled
    <3>5. ASSUME NEW e \in ledger', NEW j \in Keys, e.key = j
          PROVE  \/ e.hold < rows'[j].hold
                 \/ e.hold = rows'[j].hold /\ rows'[j].status \in {"settled", "unknown"}
      <4>1. /\ j = k => rows'[j].hold = rows[j].hold + 1
            /\ j # k /\ j \in gone => rows'[j].hold = rows[j].hold /\ rows'[j].status = "unknown"
            /\ j # k /\ j \notin gone => rows'[j] = rows[j]
        BY <1>0, <3>1 DEF TakeHold, Reclaimed, Reheld, Row
      <4>2. CASE e \in ledger
        BY <1>0, <4>1, <4>2, <3>5 DEF LedgerSettled, Settled, Types, BudgetTypeOK, Charge
      <4>3. CASE \E i \in gone : e = charge[i]
        <5>1. j \in gone /\ e.hold = rows[j].hold
          BY <3>5, <4>3 DEF ChargeOf
        <5>2. QED
          BY <1>0, <4>1, <5>1
      <4>4. QED
        BY <3>2, <4>2, <4>3
    <3>6. QED
      BY <3>4, <3>5 DEF LedgerSettled, Settled
  <2>2. CASE Settles(k, copy)
    <3>1. PICK status \in {"settled", "unknown"} :
            rows' = [rows EXCEPT ![k].status = status] /\ ledger' = ledger \cup {ChargeOf(k, copy)}
      BY <1>2, <2>2 DEF Settles, SettleBudget
    <3>2. IsFiniteSet(ledger')
      BY <3>1, FS_AddElement DEF LedgerSettled
    <3>3. /\ rows'[k].hold = rows[k].hold /\ rows'[k].status = status
          /\ \A j \in Keys \ {k} : rows'[j] = rows[j]
      BY <1>0, <3>1 DEF Types, BudgetTypeOK, Row
    <3>4. ASSUME NEW e \in ledger', NEW j \in Keys, e.key = j
          PROVE  Settled(e, j, rows'[j])
      <4>1. CASE e \in ledger
        BY <1>0, <3>3, <4>1 DEF LedgerSettled, Settled
      <4>2. CASE e = ChargeOf(k, copy)
        BY <1>0, <3>3, <3>4, <4>2 DEF ChargeOf, Settled
      <4>3. QED
        BY <3>1, <4>1, <4>2
    <3>5. QED
      BY <3>2, <3>4 DEF LedgerSettled, Settled
  <2>3. CASE ReleaseBudget(k, copy)
    <3>1. Claimable(k) /\ rows' = [rows EXCEPT ![k].status = "released"] /\ ledger' = ledger
      BY <1>2, <2>3 DEF ReleaseBudget
    <3>2. /\ rows'[k].hold = rows[k].hold
          /\ \A j \in Keys \ {k} : rows'[j] = rows[j]
      BY <1>0, <3>1 DEF Types, BudgetTypeOK, Row
    <3>3. QED
      BY <1>0, <3>1, <3>2 DEF LedgerSettled, Settled, Claimable
  <2>4. QED
    BY <1>2, <2>1, <2>2, <2>3 DEF Books
<1>3. QED
  BY <1>1, <1>2, BookSteps

LEMMA LedgerInit == Init => LedgerSettled
  BY FS_EmptySet DEF Init, BudgetInit, LedgerSettled

-----------------------------------------------------------------------------
(***************************************************************************)
(* Requests.                                                               *)
(***************************************************************************)
ChargesNext(w) == {e \in ledger' : WindowFor(e.key, e.day) = w}

\* A window is one of the counters of a hold just when it is the hold's window.
LEMMA WindowOfHold ==
  ASSUME NEW w \in Windows, NEW k, NEW d
  PROVE  w \in CountersFor(k, d) <=> w = WindowFor(k, d)
  BY DEF Windows, CountersFor, WindowFor, WindowOf, PeriodOf, PlatformOf

LEMMA ChargesFacts ==
  ASSUME LedgerSettled, NEW w
  PROVE  IsFiniteSet(ChargesOn(w)) /\ Cardinality(ChargesOn(w)) \in Nat
<1>1. ChargesOn(w) \subseteq ledger
  BY DEF ChargesOn
<1>2. QED
  BY <1>1, FS_Subset, FS_CardinalityType DEF LedgerSettled

\* The entry of an open hold is not in the ledger.
LEMMA ChargeIsNew ==
  ASSUME Types, LedgerSettled, NEW k \in Keys, Claimable(k), NEW copy
  PROVE  ChargeOf(k, copy) \notin ledger
<1>1. rows[k].hold \in Nat
  BY DEF Types, BudgetTypeOK, Row
<1>2. QED
  BY <1>1 DEF LedgerSettled, Settled, ChargeOf, Claimable

\* Reclaimed holds become as many charges, each on the window of its hold.
LEMMA ReclaimedCharges ==
  ASSUME Types, LedgerSettled,
         NEW k \in Keys, NEW seen \in Row, NEW tok, NEW now, TakeHold(k, seen, tok, now),
         NEW w \in Windows
  PROVE  Cardinality(ChargesNext(w))
           = Cardinality(ChargesOn(w)) + Cardinality(ReclaimedOn(w, k, seen, now))
<1> DEFINE gone == Reclaimed(k, seen, now)
           on == ReclaimedOn(w, k, seen, now)
           copy(j) == IF j = k THEN seen ELSE rows[j]
           charge == [j \in on |-> ChargeOf(j, copy(j))]
           all == {charge[j] : j \in on}
<1>1. on \subseteq gone /\ gone \subseteq {j \in Keys : Claimable(j)} /\ IsFiniteSet(on)
  BY ReclaimedFacts
<1>2. \A j \in gone : ChargeOf(j, copy(j)) \notin ledger
  BY <1>1, ChargeIsNew
<1>3. ChargesNext(w) = ChargesOn(w) \cup all
  <2>1. \A j \in gone : j \in on <=> WindowFor(j, copy(j).day) = w
    BY WindowOfHold DEF ReclaimedOn
  <2>2. ledger' = ledger \cup {ChargeOf(j, copy(j)) : j \in gone}
    BY TakenCharges
  <2>3. \A j \in gone : /\ ChargeOf(j, copy(j)).key = j
                        /\ ChargeOf(j, copy(j)).day = copy(j).day
    BY DEF ChargeOf
  <2>4. QED
    BY <1>1, <2>1, <2>2, <2>3 DEF ChargesNext, ChargesOn
<1>4. ChargesOn(w) \cap all = {}
  BY <1>1, <1>2 DEF ChargesOn
<1>5. IsFiniteSet(all) /\ Cardinality(all) = Cardinality(on)
  <2>1. /\ charge \in [on -> all]
        /\ \A t \in all : \E j \in on : charge[j] = t
        /\ \A i, j \in on : charge[i] = charge[j] => i = j
    BY DEF ChargeOf
  <2> HIDE DEF charge, all, on
  <2>2. charge \in Surjection(on, all) /\ charge \in Injection(on, all)
    BY <2>1 DEF Surjection, Injection, IsInjective
  <2>3. QED
    BY <1>1, <2>2, FS_Surjection
<1> HIDE DEF all, on
<1>6. Cardinality(ChargesOn(w) \cup all)
        = Cardinality(ChargesOn(w)) + Cardinality(all) - Cardinality(ChargesOn(w) \cap all)
  BY <1>5, ChargesFacts, FS_Union
<1>7. /\ Cardinality(ChargesOn(w)) \in Nat
      /\ Cardinality(all) \in Nat
      /\ Cardinality(ChargesOn(w) \cap all) = 0
  BY <1>4, <1>5, ChargesFacts, FS_EmptySet, FS_CardinalityType
<1>8. QED
  BY <1>3, <1>5, <1>6, <1>7 DEF on

LEMMA EverydayStep ==
  Types /\ CopiesFaithful /\ LedgerSettled /\ EverydayConserved /\ [Next]_vars
    => EverydayConserved'
<1> SUFFICES ASSUME Types, CopiesFaithful, LedgerSettled, EverydayConserved, [Next]_vars,
                    ~stolen', NEW w \in Windows
             PROVE  everyday'[w] = Cardinality(HoldsNext(w)) + Cardinality(ChargesNext(w))
  BY DEF EverydayConserved, HoldsOn, HoldsNext, ChargesOn, ChargesNext
<1> DEFINE held == Cardinality(HoldsOn(w))
           charged == Cardinality(ChargesOn(w))
<1>0. held \in Nat /\ charged \in Nat
  BY HoldsFacts, ChargesFacts
<1>1. CASE UNCHANGED bookVars
  <2>1. HoldsNext(w) = HoldsOn(w) /\ ChargesNext(w) = ChargesOn(w)
    BY <1>1 DEF bookVars, HoldsNext, HoldsOn, ChargesNext, ChargesOn
  <2>2. QED
    BY <1>1, <2>1 DEF bookVars, EverydayConserved
<1>2. ASSUME NEW k \in Keys, NEW copy \in Row, Books(k, copy), ~UNCHANGED bookVars
      PROVE  everyday'[w] = Cardinality(HoldsNext(w)) + Cardinality(ChargesNext(w))
  <2>1. CASE Takes(k, copy)
    <3>1. PICK tok, now : ~Charged(copy) /\ CanWrite(k, copy) /\ TakeHold(k, copy, tok, now)
      BY <2>1 DEF Takes
    <3> DEFINE on == Cardinality(ReclaimedOn(w, k, copy, now))
               one == IF w = WindowFor(k, Today) THEN 1 ELSE 0
    <3>2. Faithful(k, copy)
      BY <1>2 DEF Books
    <3>3. /\ on \in Nat /\ ~stolen
          /\ Cardinality(HoldsNext(w)) = held - on + one
      BY <3>1, <3>2, HoldsTaken, HoldsCounted, WindowOfHold
    <3>4. Cardinality(ChargesNext(w)) = charged + on
      BY <3>1, ReclaimedCharges
    <3>5. everyday'[w] = everyday[w] + one
      BY <3>1 DEF TakeHold, Types, BudgetTypeOK
    <3>6. everyday[w] = held + charged
      BY <3>3 DEF EverydayConserved
    <3> HIDE DEF on, held, charged
    <3>7. QED
      BY <1>0, <3>3, <3>4, <3>5, <3>6
  <2>2. ASSUME NEW status \in {"settled", "unknown", "released"}, Claimable(k),
               rows' = [rows EXCEPT ![k].status = status], Unreserve(k, copy)
        PROVE  /\ Cardinality(HoldsNext(w)) = IF w = WindowFor(k, copy.day) THEN held - 1 ELSE held
               /\ everyday[w] = held + charged
    <3>1. /\ k \in HoldsOn(w) <=> w = WindowFor(k, copy.day)
          /\ HoldsNext(w) = HoldsOn(w) \ {k}
          /\ ~stolen
      BY <1>2, <2>2, HoldsEnded, WindowOfHold DEF Books
    <3>2. QED
      BY <3>1, HoldsFacts, FS_RemoveElement DEF EverydayConserved
  <2>3. CASE Settles(k, copy)
    <3>1. PICK status \in {"settled", "unknown"} :
            /\ Claimable(k)
            /\ rows' = [rows EXCEPT ![k].status = status]
            /\ Unreserve(k, copy)
            /\ ledger' = ledger \cup {ChargeOf(k, copy)}
            /\ everyday' = everyday
      BY <1>2, <2>3 DEF Settles, SettleBudget
    <3> DEFINE e == ChargeOf(k, copy)
    <3>2. e \notin ledger /\ e.key = k /\ e.day = copy.day
      BY <3>1, ChargeIsNew DEF ChargeOf
    <3> HIDE DEF e
    <3>3. ChargesNext(w) = IF w = WindowFor(k, copy.day) THEN ChargesOn(w) \cup {e} ELSE ChargesOn(w)
      BY <3>1, <3>2 DEF ChargesNext, ChargesOn, e
    <3>4. Cardinality(ChargesOn(w) \cup {e}) = charged + 1
      <4>1. e \notin ChargesOn(w)
        BY <3>2 DEF ChargesOn
      <4>2. QED
        BY <4>1, ChargesFacts, FS_AddElement
    <3>5. /\ Cardinality(HoldsNext(w)) = IF w = WindowFor(k, copy.day) THEN held - 1 ELSE held
          /\ everyday[w] = held + charged
      BY <2>2, <3>1
    <3> HIDE DEF held, charged
    <3>6. QED
      BY <1>0, <3>1, <3>3, <3>4, <3>5 DEF charged
  <2>4. CASE ReleaseBudget(k, copy)
    <3>1. /\ Claimable(k)
          /\ rows' = [rows EXCEPT ![k].status = "released"]
          /\ Unreserve(k, copy)
          /\ ledger' = ledger
          /\ everyday' = [everyday EXCEPT ![WindowFor(k, copy.day)] = @ - 1]
      BY <1>2, <2>4 DEF ReleaseBudget
    <3>2. ChargesNext(w) = ChargesOn(w)
      BY <3>1 DEF ChargesNext, ChargesOn
    <3>3. everyday'[w] = IF w = WindowFor(k, copy.day) THEN everyday[w] - 1 ELSE everyday[w]
      BY <3>1 DEF Types, BudgetTypeOK
    <3>4. QED
      BY <1>0, <2>2, <3>1, <3>2, <3>3
  <2>5. QED
    BY <1>2, <2>1, <2>3, <2>4 DEF Books
<1>3. QED
  BY <1>1, <1>2, BookSteps

LEMMA EverydayInit == Init => EverydayConserved
<1> SUFFICES ASSUME Init, NEW w \in Windows
             PROVE  everyday[w] = Cardinality(HoldsOn(w)) + Cardinality(ChargesOn(w))
  BY DEF EverydayConserved
<1>1. HoldsOn(w) = {} /\ ChargesOn(w) = {} /\ everyday[w] = 0
  BY DEF Init, BudgetInit, HoldsOn, ChargesOn, NoRow
<1>2. QED
  BY <1>1, FS_EmptySet

\* As long as no hold was stolen, a window's everyday_used counts its open holds and
\* the holds that were charged: a refund gives a request back exactly once.
THEOREM RequestsConserved == Spec => []EverydayConserved
<1> DEFINE IInv == Types /\ CopiesFaithful /\ LedgerSettled /\ EverydayConserved
<1>1. Init => IInv
  BY TypesInit, CopiesInit, LedgerInit, EverydayInit
<1>2. IInv /\ [Next]_vars => IInv'
  BY TypesStep, CopiesStep, LedgerStep, EverydayStep
<1>3. QED
  BY <1>1, <1>2, PTL DEF Spec

-----------------------------------------------------------------------------
(***************************************************************************)
(* Usable replies.  Until a key is charged, at most one request generates  *)
(* for it, and the hold that request carries is the one on the key's row:  *)
(* to get past it another request must reclaim it, which charges the key.  *)
(***************************************************************************)
Uncharged(k) == \A e \in ledger : e.key # k
Generates(r, k) == req[r].pc = "generating" /\ req[r].key = k

UnchargedKey(k) ==
  /\ rows[k].status \notin {"settled", "unknown"}
  /\ \A r \in Requests : req[r].pc = "read" /\ req[r].key = k => ~Charged(req[r].seen)
  /\ \A r \in Requests : Generates(r, k) => Claimable(k) /\ req[r].held.status = "reserved"
  /\ \A r, q \in Requests : Generates(r, k) /\ Generates(q, k) => r = q
  /\ runs[k] # None => ~runs[k].usable
UnchargedKeys == \A k \in Keys : Uncharged(k) => UnchargedKey(k)

\* A charge names its key.
LEMMA NotCharged ==
  ASSUME NEW k \in Keys, Uncharged(k)', NEW j, NEW copy, ChargeOf(j, copy) \in ledger'
  PROVE  j # k
<1>1. ChargeOf(j, copy).key = j
  BY DEF ChargeOf
<1>2. QED
  BY <1>1 DEF Uncharged

LEMMA NotReclaimed ==
  ASSUME Types, NEW j \in Keys, NEW seen \in Row, NEW tok, NEW now, TakeHold(j, seen, tok, now),
         NEW k \in Keys, Uncharged(k)'
  PROVE  k \notin Reclaimed(j, seen, now) /\ Uncharged(k)
<1> DEFINE copy(i) == IF i = j THEN seen ELSE rows[i]
<1>1. ledger' = ledger \cup {ChargeOf(i, copy(i)) : i \in Reclaimed(j, seen, now)}
  BY TakenCharges
<1>2. \A i \in Reclaimed(j, seen, now) : ChargeOf(i, copy(i)) \in ledger'
  BY <1>1
<1>3. \A i \in Reclaimed(j, seen, now) : i # k
  BY <1>2, NotCharged
<1>4. Uncharged(k)
  BY <1>1 DEF Uncharged
<1>5. QED
  BY <1>3, <1>4

\* A step leaves the other requests' handlers alone.
LEMMA OthersStay ==
  ASSUME Types, NEW r \in Requests, Handle(r)
  PROVE  \A q \in Requests \ {r} : req'[q] = req[q]
  BY DEF Handle, SendMessage, Regenerate, LookUp, ReadReservation, CommitReservation,
         RefuseReservation, Complete, StoreFailed, GenerationRaised, Crash, Refuse, End,
         Types, HandlersTypeOK

\* A request that is neither reading a row nor generating takes nothing along.
LEMMA UnchargedAfterRest ==
  ASSUME Types, NEW r \in Requests, Handle(r), req'[r].pc \notin {"read", "generating"},
         NEW k \in Keys, UnchargedKey(k), rows'[k] = rows[k],
         runs'[k] # None => ~runs'[k].usable
  PROVE  UnchargedKey(k)'
<1>1. \A q \in Requests \ {r} : req'[q] = req[q]
  BY OthersStay
<1>2. QED
  BY <1>1 DEF UnchargedKey, Generates, Claimable

LEMMA UnchargedStep ==
  Types /\ CopiesFaithful /\ UnchargedKeys /\ [Next]_vars => UnchargedKeys'
<1> SUFFICES ASSUME Types, CopiesFaithful, UnchargedKeys, [Next]_vars,
                    NEW k \in Keys, Uncharged(k)'
             PROVE  UnchargedKey(k)'
  BY DEF UnchargedKeys
<1>0. Uncharged(k) /\ UnchargedKey(k)
  <2>1. Uncharged(k)
    BY LedgerGrows DEF Uncharged
  <2>2. QED
    BY <2>1 DEF UnchargedKeys
<1>1. ASSUME NEW r \in Requests, req[r].pc \in Working
      PROVE  req[r].key \in Keys /\ req[r].seen \in Row /\ req[r].held \in Row
  BY <1>1 DEF Types, HandlersAtWork, HandlersTypeOK, Handler
<1>2. ASSUME NEW r \in Requests, NEW pc \in {"done", "crashed"}, req' = End(r, pc)
      PROVE  req'[r].pc \notin {"read", "generating"}
  BY <1>2 DEF End, Idle, Types, HandlersTypeOK
<1>3. ASSUME NEW r \in Requests, Handle(r), UNCHANGED <<bookVars, runs>>,
             req'[r].pc \notin {"read", "generating"}
      PROVE  UnchargedKey(k)'
  <2>1. rows'[k] = rows[k] /\ (runs'[k] # None => ~runs'[k].usable)
    BY <1>0, <1>3 DEF bookVars, UnchargedKey
  <2>2. QED
    BY <1>0, <1>3, <2>1, UnchargedAfterRest
<1>4. ASSUME NEW r \in Requests, Handle(r), NEW j \in Keys, NEW b \in Bodies, NEW p, LookUp(r, j, b, p)
      PROVE  UnchargedKey(k)'
  <2>1. req'[r].pc \notin {"read", "generating"}
    BY <1>2, <1>4 DEF LookUp, Idle, Types, HandlersTypeOK
  <2>2. QED
    BY <1>3, <1>4, <2>1 DEF LookUp
<1>5. ASSUME NEW r \in Requests, Handle(r), ReadReservation(r)
      PROVE  UnchargedKey(k)'
  <2>1. CASE Refuse(r)
    BY <1>2, <1>3, <1>5, <2>1 DEF Refuse, ReadReservation
  <2>2. CASE ~Refuse(r)
    <3>1. /\ req'[r].pc = "read" /\ req'[r].key = req[r].key
          /\ req'[r].seen = rows[req[r].key]
      BY <1>5, <2>2 DEF ReadReservation, Types, HandlersTypeOK, Handler
    <3>2. \A q \in Requests \ {r} : req'[q] = req[q]
      BY <1>5, OthersStay
    <3>3. rows' = rows /\ runs' = runs
      BY <1>5 DEF ReadReservation, bookVars
    <3>4. QED
      BY <1>0, <3>1, <3>2, <3>3 DEF UnchargedKey, Generates, Claimable, Charged
  <2>3. QED
    BY <2>1, <2>2
<1>6. ASSUME NEW r \in Requests, Handle(r), CommitReservation(r)
      PROVE  UnchargedKey(k)'
  <2> DEFINE j == req[r].key
             seen == req[r].seen
  <2>1. /\ req'[r].pc = "generating" /\ req'[r].key = j
        /\ req'[r].held = IF Charged(seen) THEN seen ELSE rows'[j]
    BY <1>6 DEF CommitReservation, Types, HandlersTypeOK, Handler
  <2>2. /\ \A q \in Requests \ {r} : req'[q] = req[q]
        /\ runs' = runs
        /\ req[r].pc = "read"
    BY <1>6, OthersStay DEF CommitReservation
  <2>3. j \in Keys /\ seen \in Row
    BY <1>1, <2>2 DEF Working
  <2>4. CASE Charged(seen)
    <3>1. j # k
      BY <1>0, <2>2, <2>4 DEF UnchargedKey
    <3>2. rows' = rows
      BY <1>6, <2>4 DEF CommitReservation, bookVars
    <3>3. QED
      BY <1>0, <2>1, <2>2, <3>1, <3>2 DEF UnchargedKey, Generates, Claimable
  <2>5. CASE ~Charged(seen)
    <3>1. PICK tok : /\ CanWrite(j, seen)
                     /\ TakeHold(j, seen, tok, req[r].now)
      BY <1>6, <2>5 DEF CommitReservation
    <3>2. k \notin Reclaimed(j, seen, req[r].now)
      BY <2>3, <3>1, NotReclaimed
    <3>3. /\ k # j => rows'[k] = rows[k]
          /\ k = j => rows'[k].status = "reserved"
      BY <3>1, <3>2 DEF TakeHold, Reclaimed, Reheld
    <3>4. CASE k # j
      BY <1>0, <2>1, <2>2, <3>3, <3>4 DEF UnchargedKey, Generates, Claimable
    <3>5. CASE k = j
      <4>1. ~Claimable(k)
        BY <2>3, <2>5, <3>1, <3>2, <3>5
        DEF Reclaimed, CanWrite, Charged, Claimable, Row, Statuses
      <4>2. \A q \in Requests : ~Generates(q, k)
        BY <1>0, <4>1 DEF UnchargedKey
      <4>3. \A q \in Requests : Generates(q, k)' => q = r
        BY <2>2, <4>2 DEF Generates
      <4>4. req'[r].held.status = "reserved"
        BY <2>1, <2>5, <3>3, <3>5
      <4>5. \A q \in Requests : req'[q].pc = "read" /\ req'[q].key = k => ~Charged(req'[q].seen)
        BY <1>0, <2>1, <2>2 DEF UnchargedKey
      <4>6. QED
        BY <1>0, <2>2, <3>3, <3>5, <4>3, <4>4, <4>5 DEF UnchargedKey, Claimable
    <3>6. QED
      BY <3>4, <3>5
  <2>6. QED
    BY <2>4, <2>5
<1>7. ASSUME NEW r \in Requests, Handle(r), req[r].pc = "generating",
             req'[r].pc \notin {"read", "generating"},
             NEW copy, ReleaseBudget(req[r].key, copy),
             runs'[k] # None => ~runs'[k].usable
      PROVE  UnchargedKey(k)'
  <2>1. req[r].key \in Keys
    BY <1>1, <1>7 DEF Working
  <2>2. \/ rows'[k] = rows[k]
        \/ k = req[r].key /\ rows'[k].status = "released"
    BY <1>7, <2>1 DEF ReleaseBudget, bookVars, Types, BudgetTypeOK, Row
  <2>3. CASE rows'[k] = rows[k]
    BY <1>0, <1>7, <2>3, UnchargedAfterRest
  <2>4. CASE k = req[r].key /\ rows'[k].status = "released"
    <3>1. \A q \in Requests \ {r} : req'[q] = req[q]
      BY <1>7, OthersStay
    <3>2. \A q \in Requests : ~(Generates(q, k)')
      BY <1>0, <1>7, <2>4, <3>1 DEF UnchargedKey, Generates
    <3>3. QED
      BY <1>0, <1>7, <2>4, <3>1, <3>2 DEF UnchargedKey
  <2>5. QED
    BY <2>2, <2>3, <2>4
<1>8. ASSUME NEW r \in Requests, NEW used, Complete(r, used), Handle(r)
      PROVE  UnchargedKey(k)'
  <2> DEFINE j == req[r].key
             copy == req[r].held
  <2>1. /\ req[r].pc = "generating" /\ req'[r].pc \notin {"read", "generating"}
        /\ clock' = clock
    BY <1>2, <1>8 DEF Complete
  <2>2. j \in Keys /\ copy \in Row /\ Faithful(j, copy)
    BY <1>1, <2>1 DEF Working, CopiesFaithful
  <2>3. PICK usable \in BOOLEAN :
          /\ runs' = [runs EXCEPT ![j] = [author |-> r, body |-> req[r].body,
                                          prev |-> req[r].prev, usable |-> usable]]
          /\ \/ /\ usable
                /\ \E cost \in Costs, spend \in Spends :
                     SettleBudget(j, copy, StatusOf(cost), Measured(cost, HoldMicro),
                                  Measured(spend, copy.tokens))
             \/ ~usable /\ ReleaseBudget(j, copy)
    BY <1>8 DEF Complete
  <2>4. CASE usable
    <3>1. PICK cost \in Costs, spend \in Spends :
            SettleBudget(j, copy, StatusOf(cost), Measured(cost, HoldMicro),
                         Measured(spend, copy.tokens))
      BY <2>3, <2>4
    <3>2. j # k
      <4>1. SUFFICES ASSUME j = k PROVE FALSE
        OBVIOUS
      <4>2. Claimable(k) /\ copy.status = "reserved"
        BY <1>0, <2>1, <4>1 DEF UnchargedKey, Generates
      <4>3. ChargeOf(j, copy) \in ledger'
        BY <3>1, <4>1, <4>2 DEF SettleBudget
      <4>4. QED
        BY <4>1, <4>3, NotCharged
    <3>3. rows'[k] = rows[k]
      BY <3>1, <3>2 DEF SettleBudget, bookVars, Types, BudgetTypeOK
    <3>4. runs'[k] = runs[k]
      BY <2>3, <3>2 DEF Types, HandlersTypeOK
    <3>5. QED
      BY <1>0, <1>8, <2>1, <3>3, <3>4, UnchargedAfterRest DEF UnchargedKey
  <2>5. CASE ~usable
    <3>1. ReleaseBudget(j, copy)
      BY <2>3, <2>5
    <3>2. runs'[k] # None => ~runs'[k].usable
      BY <1>0, <2>3, <2>5 DEF UnchargedKey, Types, HandlersTypeOK
    <3>3. QED
      BY <1>7, <1>8, <2>1, <3>1, <3>2
  <2>6. QED
    BY <2>4, <2>5
<1>9. ASSUME NEW r \in Requests, NEW used, StoreFailed(r, used), Handle(r)
      PROVE  UnchargedKey(k)'
  <2>1. /\ req[r].pc = "generating" /\ req'[r].pc \notin {"read", "generating"}
        /\ runs' = runs /\ ReleaseBudget(req[r].key, rows[req[r].key])
    BY <1>2, <1>9 DEF StoreFailed
  <2>2. runs'[k] # None => ~runs'[k].usable
    BY <1>0, <2>1 DEF UnchargedKey
  <2>3. QED
    BY <1>7, <1>9, <2>1, <2>2
<1>10. ASSUME NEW r \in Requests, GenerationRaised(r), Handle(r)
       PROVE  UnchargedKey(k)'
  <2>1. /\ req[r].pc = "generating" /\ req'[r].pc \notin {"read", "generating"}
        /\ runs' = runs /\ ReleaseBudget(req[r].key, req[r].held)
    BY <1>2, <1>10 DEF GenerationRaised, Refuse
  <2>2. runs'[k] # None => ~runs'[k].usable
    BY <1>0, <2>1 DEF UnchargedKey
  <2>3. QED
    BY <1>7, <1>10, <2>1, <2>2
<1>11. ASSUME NEW r \in Requests, RefuseReservation(r) \/ Crash(r), Handle(r)
       PROVE  UnchargedKey(k)'
  BY <1>2, <1>3, <1>11 DEF RefuseReservation, Refuse, Crash
<1>12. CASE (Tick /\ UNCHANGED messageVars) \/ UNCHANGED vars
  <2>1. rows' = rows /\ req' = req /\ runs' = runs
    BY <1>12 DEF Tick, vars, bookVars, messageVars
  <2>2. QED
    BY <1>0, <2>1 DEF UnchargedKey, Generates, Claimable
<1>13. ASSUME NEW r \in Requests, Handle(r)
       PROVE  UnchargedKey(k)'
  <2>1. ASSUME NEW j \in Keys, NEW b \in Bodies, SendMessage(r, j, b)
        PROVE  UnchargedKey(k)'
    BY <1>4, <1>13, <2>1 DEF SendMessage
  <2>2. ASSUME NEW j \in Keys, NEW p \in Keys, Regenerate(r, j, p)
        PROVE  UnchargedKey(k)'
    <3>1. runs[p].body \in Bodies
      BY <2>2 DEF Regenerate, Types, HandlersTypeOK, Run
    <3>2. QED
      BY <1>4, <1>13, <2>2, <3>1 DEF Regenerate
  <2>3. QED
    BY <1>5, <1>6, <1>8, <1>9, <1>10, <1>11, <1>13, <2>1, <2>2 DEF Handle
<1>14. QED
  BY <1>12, <1>13 DEF Next

LEMMA UnchargedInit == Init => UnchargedKeys
  BY DEF Init, BudgetInit, UnchargedKeys, UnchargedKey, Generates, Idle, NoRow

\* A key that has a usable reply was charged, however many requests generated for it
\* and whatever became of their holds.
THEOREM RepliesCharged == Spec => []UsableReplyCharged
<1> DEFINE IInv == Types /\ CopiesFaithful /\ UnchargedKeys
<1>1. Init => IInv
  BY TypesInit, CopiesInit, UnchargedInit
<1>2. IInv /\ [Next]_vars => IInv'
  BY TypesStep, CopiesStep, UnchargedStep
<1>3. IInv => UsableReplyCharged
  BY DEF UnchargedKeys, UnchargedKey, Uncharged, UsableReplyCharged
<1>4. QED
  BY <1>1, <1>2, <1>3, PTL DEF Spec

-----------------------------------------------------------------------------
(***************************************************************************)
(* Tokens.                                                                 *)
(***************************************************************************)
LEMMA RowTokens ==
  ASSUME NEW row \in Row
  PROVE  row.tokens \in Nat
<1>1. row.tokens \in TokenHolds \cup {0}
  BY DEF Row
<1>2. \A t \in TokenHolds \cup {0} : t \in Nat
  BY BudgetAssumption
<1>3. QED
  BY <1>1, <1>2

TokensOfRows == [j \in Keys |-> rows[j].tokens]
CopiedTokens(k, seen, now) ==
  [j \in Reclaimed(k, seen, now) |-> (IF j = k THEN seen ELSE rows[j]).tokens]
ReclaimedTokens(w, k, seen, now) ==
  SumFunctionOnSet(CopiedTokens(k, seen, now), ReclaimedOn(w, k, seen, now))

LEMMA TakenTokens ==
  ASSUME Types, NEW k \in Keys, NEW seen \in Row, NEW tok, NEW now, TakeHold(k, seen, tok, now)
  PROVE  /\ tokensReserved' = [w \in Windows |->
                                 tokensReserved[w] - ReclaimedTokens(w, k, seen, now)
                                 + (IF w = WindowFor(k, Today) THEN tok ELSE 0)]
         /\ tokensSettled' = [w \in Windows |->
                                tokensSettled[w] + ReclaimedTokens(w, k, seen, now)]
         /\ \A w : ReclaimedTokens(w, k, seen, now) \in Nat
<1>1. ASSUME NEW w
      PROVE  ReclaimedTokens(w, k, seen, now) \in Nat
  <2>1. /\ IsFiniteSet(ReclaimedOn(w, k, seen, now))
        /\ ReclaimedOn(w, k, seen, now) \subseteq Reclaimed(k, seen, now)
        /\ Reclaimed(k, seen, now) \subseteq Keys
    BY ReclaimedFacts
  <2>2. \A j \in Reclaimed(k, seen, now) : CopiedTokens(k, seen, now)[j] \in Nat
    BY <2>1, RowTokens DEF CopiedTokens, Types, BudgetTypeOK
  <2>3. QED
    BY <2>1, <2>2, SumNat DEF ReclaimedTokens
<1>2. QED
  BY <1>1 DEF TakeHold, ReclaimedTokens, CopiedTokens, ReclaimedOn, Reclaimed

LEMMA TokensTypeStep ==
  Types /\ CopiesFaithful /\ TokensTypeOK /\ [Next]_vars => TokensTypeOK'
<1> SUFFICES ASSUME Types, CopiesFaithful, TokensTypeOK, [Next]_vars PROVE TokensTypeOK'
  OBVIOUS
<1>1. CASE UNCHANGED bookVars
  BY <1>1 DEF bookVars, TokensTypeOK
<1>2. ASSUME NEW k \in Keys, NEW copy \in Row, Books(k, copy), ~UNCHANGED bookVars
      PROVE  TokensTypeOK'
  <2>1. copy.tokens \in Nat
    BY RowTokens
  <2>2. CASE Takes(k, copy)
    <3>1. PICK tok \in TokenHolds \cup {0}, now \in 0 .. MaxClock : TakeHold(k, copy, tok, now)
      BY <2>2 DEF Takes
    <3>2. tok \in Nat
      BY BudgetAssumption
    <3>3. QED
      BY <3>1, <3>2, TakenTokens DEF TokensTypeOK
  <2>3. CASE Settles(k, copy)
    BY <1>2, <2>1, <2>3 DEF Settles, SettleBudget, Unreserve, TokensTypeOK
  <2>4. CASE ReleaseBudget(k, copy)
    BY <1>2, <2>1, <2>4 DEF ReleaseBudget, Unreserve, TokensTypeOK
  <2>5. QED
    BY <1>2, <2>2, <2>3, <2>4 DEF Books
<1>3. QED
  BY <1>1, <1>2, BookSteps

\* Everything the service keeps stays within its type.
THEOREM TypesHold == Spec => []TypeOK
<1> DEFINE IInv == Types /\ CopiesFaithful /\ TokensTypeOK
<1>1. Init => TokensTypeOK
  BY DEF Init, BudgetInit, TokensTypeOK
<1>2. Init => IInv
  BY <1>1, TypesInit, CopiesInit
<1>3. IInv /\ [Next]_vars => IInv'
  BY TypesStep, CopiesStep, TokensTypeStep
<1>4. IInv => TypeOK
  BY DEF Types, TypeOK
<1>5. QED
  BY <1>2, <1>3, <1>4, PTL DEF Spec

\* What a row's hold reserves.
LEMMA TokensFacts ==
  ASSUME Types, NEW w
  PROVE  /\ \A k \in HoldsOn(w) : TokensOfRows[k] \in Int
         /\ SumFunctionOnSet(TokensOfRows, HoldsOn(w)) \in Int
<1>1. \A k \in HoldsOn(w) : TokensOfRows[k] \in Int
  BY RowTokens DEF TokensOfRows, HoldsOn, Types, BudgetTypeOK
<1>2. QED
  BY <1>1, HoldsFacts, SumType

LEMMA TokensStep ==
  Types /\ CopiesFaithful /\ TokensTypeOK /\ TokensConserved /\ [Next]_vars => TokensConserved'
<1> DEFINE next == [j \in Keys |-> rows'[j].tokens]
<1> SUFFICES ASSUME Types, CopiesFaithful, TokensTypeOK, TokensConserved, [Next]_vars,
                    ~stolen', NEW w \in Windows
             PROVE  tokensReserved'[w] = SumFunctionOnSet(next, HoldsNext(w))
  BY DEF TokensConserved, HoldsOn, HoldsNext
<1> DEFINE held == HoldsOn(w)
           total == SumFunctionOnSet(TokensOfRows, held)
<1>0. /\ tokensReserved[w] \in Int /\ total \in Int /\ IsFiniteSet(held) /\ held \subseteq Keys
      /\ \A k \in held : TokensOfRows[k] \in Int
      /\ ~stolen => tokensReserved[w] = total
  BY TokensFacts, HoldsFacts DEF TokensTypeOK, TokensConserved, TokensOfRows, HoldsOn
<1>1. CASE UNCHANGED bookVars
  <2>1. HoldsNext(w) = held /\ next = TokensOfRows
    BY <1>1 DEF bookVars, HoldsNext, HoldsOn, TokensOfRows
  <2> HIDE DEF next
  <2>2. QED
    BY <1>0, <1>1, <2>1 DEF bookVars
<1>2. ASSUME NEW S \in SUBSET held, \A j \in S : rows'[j] = rows[j]
      PROVE  /\ IsFiniteSet(S)
             /\ SumFunctionOnSet(next, S) = SumFunctionOnSet(TokensOfRows, S)
             /\ SumFunctionOnSet(next, S) \in Int
  <2>1. IsFiniteSet(S)
    BY <1>0, FS_Subset
  <2>2. \A j \in S : TokensOfRows[j] \in Int /\ next[j] = TokensOfRows[j]
    BY <1>0, <1>2 DEF TokensOfRows
  <2> HIDE DEF next
  <2>3. QED
    BY <2>1, <2>2, SumSame, SumType
<1>3. ASSUME NEW k \in Keys, NEW copy \in Row, Books(k, copy), ~UNCHANGED bookVars
      PROVE  tokensReserved'[w] = SumFunctionOnSet(next, HoldsNext(w))
  <2>1. Faithful(k, copy)
    BY <1>3 DEF Books
  <2>2. CASE Takes(k, copy)
    <3>1. PICK tok \in TokenHolds \cup {0}, now \in 0 .. MaxClock :
            ~Charged(copy) /\ CanWrite(k, copy) /\ TakeHold(k, copy, tok, now)
      BY <2>2 DEF Takes
    <3> DEFINE on == ReclaimedOn(w, k, copy, now)
               rest == Remaining(w, k, copy, now)
    <3>2. /\ ~stolen
          /\ on \subseteq held
          /\ k \notin rest
          /\ HoldsNext(w) = rest \cup NewOn(w, k)
          /\ \A j \in rest : rows'[j] = rows[j]
          /\ rows'[k].tokens = tok
      BY <2>1, <3>1, HoldsTaken
    <3>3. ReclaimedTokens(w, k, copy, now) = SumFunctionOnSet(TokensOfRows, on)
      <4>1. \A j \in Reclaimed(k, copy, now) :
              CopiedTokens(k, copy, now)[j] = rows[j].tokens /\ j \in Keys
        BY <2>1, <3>1, HoldsTaken, ReclaimedFacts DEF CopiedTokens
      <4>2. \A j \in on : CopiedTokens(k, copy, now)[j] = TokensOfRows[j]
        BY <4>1, ReclaimedFacts DEF TokensOfRows
      <4>3. IsFiniteSet(on) /\ \A j \in on : TokensOfRows[j] \in Int
        BY <1>0, <3>2, ReclaimedFacts
      <4>4. QED
        BY <4>2, <4>3, SumSame DEF ReclaimedTokens
    <3>4. total = SumFunctionOnSet(TokensOfRows, on) + SumFunctionOnSet(TokensOfRows, rest)
      BY <1>0, <3>2, SumSplit DEF Remaining
    <3>5. /\ IsFiniteSet(rest)
          /\ SumFunctionOnSet(next, rest) = SumFunctionOnSet(TokensOfRows, rest)
          /\ SumFunctionOnSet(next, rest) \in Int
      BY <1>2, <3>2 DEF Remaining
    <3>6. ReclaimedTokens(w, k, copy, now) \in Int
      BY <3>1, TakenTokens
    <3>7. tokensReserved'[w] = tokensReserved[w] - ReclaimedTokens(w, k, copy, now)
                               + (IF w = WindowFor(k, Today) THEN tok ELSE 0)
      BY <3>1, TakenTokens
    <3>8. tok \in Int
      BY BudgetAssumption
    <3>9. CASE w = WindowFor(k, Today)
      <4>1. HoldsNext(w) = rest \cup {k}
        BY <3>2, <3>9, WindowOfHold DEF NewOn
      <4>2. next[k] = tok /\ \A j \in rest : next[j] \in Int
        BY <1>0, <3>2 DEF Remaining, TokensOfRows
      <4> HIDE DEF next, rest
      <4>3. SumFunctionOnSet(next, rest \cup {k}) = SumFunctionOnSet(next, rest) + tok
        <5>1. IsFiniteSet(rest) /\ k \notin rest
          BY <3>2, <3>5
        <5>2. \A j \in rest \cup {k} : next[j] \in Int
          BY <3>8, <4>2
        <5>3. SumFunctionOnSet(next, rest \cup {k}) = SumFunctionOnSet(next, rest) + next[k]
          BY <5>1, <5>2, SumAdd
        <5>4. QED
          BY <4>2, <5>3
      <4>4. tokensReserved[w] = total /\ tokensReserved[w] \in Int
        BY <1>0, <3>2
      <4> HIDE DEF total, on
      <4>5. QED
        BY <3>3, <3>4, <3>5, <3>6, <3>7, <3>8, <3>9, <4>1, <4>3, <4>4
    <3>10. CASE w # WindowFor(k, Today)
      <4>1. HoldsNext(w) = rest
        BY <3>2, <3>10, WindowOfHold DEF NewOn
      <4>2. tokensReserved[w] = total /\ tokensReserved[w] \in Int
        BY <1>0, <3>2
      <4> HIDE DEF next, rest, total, on
      <4>3. QED
        BY <3>3, <3>4, <3>5, <3>6, <3>7, <3>10, <4>1, <4>2
    <3>11. QED
      BY <3>9, <3>10
  <2>3. ASSUME NEW status \in {"settled", "unknown", "released"}, Claimable(k),
               rows' = [rows EXCEPT ![k].status = status], Unreserve(k, copy)
        PROVE  tokensReserved'[w] = SumFunctionOnSet(next, HoldsNext(w))
    <3>1. /\ ~stolen
          /\ copy.tokens = rows[k].tokens
          /\ k \in held <=> w = WindowFor(k, copy.day)
          /\ HoldsNext(w) = held \ {k}
          /\ \A j \in HoldsNext(w) : rows'[j] = rows[j]
      BY <2>1, <2>3, HoldsEnded, WindowOfHold
    <3>2. /\ SumFunctionOnSet(next, held \ {k}) = SumFunctionOnSet(TokensOfRows, held \ {k})
          /\ SumFunctionOnSet(next, held \ {k}) \in Int
      BY <1>2, <3>1
    <3>3. tokensReserved'[w] = IF w = WindowFor(k, copy.day)
                               THEN tokensReserved[w] - copy.tokens ELSE tokensReserved[w]
      BY <2>3 DEF Unreserve, TokensTypeOK
    <3>4. CASE k \in held
      <4>1. total = TokensOfRows[k] + SumFunctionOnSet(TokensOfRows, held \ {k})
        BY <1>0, <3>4, SumRemove
      <4>2. TokensOfRows[k] = copy.tokens /\ copy.tokens \in Int
        BY <1>0, <3>1, <3>4 DEF TokensOfRows
      <4> HIDE DEF next, total, held
      <4>3. QED
        BY <1>0, <3>1, <3>2, <3>3, <3>4, <4>1, <4>2
    <3>5. CASE k \notin held
      <4>1. held \ {k} = held
        BY <3>5
      <4> HIDE DEF next, held
      <4>2. QED
        BY <1>0, <3>1, <3>2, <3>3, <3>5, <4>1
    <3>6. QED
      BY <3>4, <3>5
  <2>4. CASE Settles(k, copy)
    <3>1. PICK status \in {"settled", "unknown"} :
            Claimable(k) /\ rows' = [rows EXCEPT ![k].status = status] /\ Unreserve(k, copy)
      BY <1>3, <2>4 DEF Settles, SettleBudget
    <3>2. QED
      BY <2>3, <3>1
  <2>5. CASE ReleaseBudget(k, copy)
    <3>1. Claimable(k) /\ rows' = [rows EXCEPT ![k].status = "released"] /\ Unreserve(k, copy)
      BY <1>3, <2>5 DEF ReleaseBudget
    <3>2. QED
      BY <2>3, <3>1
  <2>6. QED
    BY <1>3, <2>2, <2>4, <2>5 DEF Books
<1>4. QED
  BY <1>1, <1>3, BookSteps

LEMMA TokensInit == Init => TokensConserved
<1> SUFFICES ASSUME Init, NEW w \in Windows
             PROVE  tokensReserved[w] = SumFunctionOnSet(TokensOfRows, HoldsOn(w))
  BY DEF TokensConserved, TokensOfRows
<1>1. HoldsOn(w) = {} /\ tokensReserved[w] = 0
  BY DEF Init, BudgetInit, HoldsOn, NoRow
<1>2. IsFiniteSet(HoldsOn(w)) /\ \A k \in HoldsOn(w) : TokensOfRows[k] \in Int
  BY <1>1, FS_EmptySet
<1>3. QED
  BY <1>1, <1>2, SumType

\* As long as no hold was stolen, a window's tokens_reserved is the sum of its open
\* holds' estimates, whatever estimates the requests for one key were held for.
THEOREM TokensKept == Spec => []TokensConserved
<1> DEFINE IInv == Types /\ CopiesFaithful /\ TokensTypeOK /\ TokensConserved
<1>1. Init => TokensTypeOK
  BY DEF Init, BudgetInit, TokensTypeOK
<1>2. Init => IInv
  BY <1>1, TypesInit, CopiesInit, TokensInit
<1>3. IInv /\ [Next]_vars => IInv'
  BY TypesStep, CopiesStep, TokensTypeStep, TokensStep
<1>4. QED
  BY <1>2, <1>3, PTL DEF Spec

-----------------------------------------------------------------------------
(***************************************************************************)
(* Totals.  A hold is on one counter of each kind, and a step takes it off *)
(* one counter of each kind, whichever copy it goes by.                    *)
(***************************************************************************)
OfKind(kind) == {c \in Counters : c.kind = kind}
CounterOf(kind, k, d) ==
  CASE kind = "window" -> WindowFor(k, d)
    [] kind = "period" -> PeriodOf(AccountOf[k], d)
    [] kind = "platform" -> PlatformOf(d)
Open == {k \in Keys : Claimable(k)}
OpenNext == {k \in Keys : rows'[k].status = "reserved"}

LEMMA CounterOfKind ==
  ASSUME NEW kind \in Kinds, NEW k \in Keys, NEW d \in Days
  PROVE  /\ CounterOf(kind, k, d) \in OfKind(kind)
         /\ \A c \in OfKind(kind) : c \in CountersFor(k, d) <=> c = CounterOf(kind, k, d)
<1>1. CountersFor(k, d) \subseteq Counters
  BY CounterFacts
<1>2. QED
  BY <1>1 DEF CounterOf, CountersFor, OfKind, Kinds, WindowFor, WindowOf, PeriodOf, PlatformOf

\* The counters of a kind are finitely many.
LEMMA CountersFinite ==
  ASSUME NEW kind
  PROVE  IsFiniteSet(OfKind(kind))
<1> DEFINE days == [t \in 0 .. MaxClock |-> DayOf(t)]
           named == [x \in Kinds \X (Accounts \X Days) |->
                       CASE x[1] = "window" -> WindowOf(x[2][1], x[2][2])
                         [] x[1] = "period" -> PeriodOf(x[2][1], x[2][2])
                         [] x[1] = "platform" -> PlatformOf(x[2][2])]
<1>1. IsFiniteSet(Days)
  <2>1. IsFiniteSet(0 .. MaxClock)
    BY FS_Interval, BudgetAssumption
  <2>2. days \in Surjection(0 .. MaxClock, Days)
    BY DEF Surjection, Days
  <2>3. QED
    BY <2>1, <2>2, FS_Surjection
<1>2. IsFiniteSet(Kinds)
  <2>1. IsFiniteSet({"window"} \cup {"period"}) /\ Kinds = ({"window"} \cup {"period"}) \cup {"platform"}
    BY FS_AddElement, FS_Singleton DEF Kinds
  <2>2. QED
    BY <2>1, FS_AddElement
<1>3. IsFiniteSet(Kinds \X (Accounts \X Days))
  BY <1>1, <1>2, FS_Product, BudgetAssumption
<1>4. CASE Accounts = {}
  <2>1. Counters = {PlatformOf(d) : d \in Days}
    BY <1>4 DEF Counters, Windows
  <2>2. [d \in Days |-> PlatformOf(d)] \in Surjection(Days, Counters)
    BY <2>1 DEF Surjection
  <2>3. IsFiniteSet(Counters)
    BY <1>1, <2>2, FS_Surjection
  <2>4. QED
    BY <2>3, FS_Subset DEF OfKind
<1>5. CASE Accounts # {}
  <2>1. ASSUME NEW c \in Counters
        PROVE  \E x \in Kinds \X (Accounts \X Days) : named[x] = c
    <3>1. CASE c \in Windows
      <4>1. PICK a \in Accounts, d \in Days : c = WindowOf(a, d)
        BY <3>1 DEF Windows
      <4>2. <<"window", <<a, d>>>> \in Kinds \X (Accounts \X Days)
        BY DEF Kinds
      <4>3. QED
        BY <4>1, <4>2
    <3>2. CASE \E a \in Accounts, d \in Days : c = PeriodOf(a, d)
      <4>1. PICK a \in Accounts, d \in Days : c = PeriodOf(a, d)
        BY <3>2
      <4>2. <<"period", <<a, d>>>> \in Kinds \X (Accounts \X Days)
        BY DEF Kinds
      <4>3. QED
        BY <4>1, <4>2
    <3>3. CASE \E d \in Days : c = PlatformOf(d)
      <4>1. PICK a \in Accounts, d \in Days : c = PlatformOf(d)
        BY <1>5, <3>3
      <4>2. <<"platform", <<a, d>>>> \in Kinds \X (Accounts \X Days)
        BY DEF Kinds
      <4>3. QED
        BY <4>1, <4>2
    <3>4. \/ c \in Windows
          \/ \E a \in Accounts, d \in Days : c = PeriodOf(a, d)
          \/ \E d \in Days : c = PlatformOf(d)
      BY <2>1 DEF Counters
    <3> HIDE DEF named
    <3>5. QED
      BY <3>1, <3>2, <3>3, <3>4
  <2>2. \A x \in Kinds \X (Accounts \X Days) : named[x] \in Counters
    BY DEF Kinds, Counters, Windows
  <2>3. named \in [Kinds \X (Accounts \X Days) -> Counters]
    BY <2>2
  <2> HIDE DEF named
  <2>4. named \in Surjection(Kinds \X (Accounts \X Days), Counters)
    BY <2>1, <2>3 DEF Surjection
  <2>5. IsFiniteSet(Counters)
    BY <1>3, <2>4, FS_Surjection
  <2>6. QED
    BY <2>5, FS_Subset DEF OfKind
<1>6. QED
  BY <1>4, <1>5

\* A hold taken off the counters of any day leaves the total of each kind by its amount.
LEMMA TotalEnded ==
  ASSUME Types, NEW kind \in Kinds, NEW k \in Keys, NEW copy \in Row, Unreserve(k, copy)
  PROVE  SumFunctionOnSet(reserved', OfKind(kind)) = SumFunctionOnSet(reserved, OfKind(kind)) - HoldMicro
<1> DEFINE e == CounterOf(kind, k, copy.day)
<1>1. copy.day \in Days
  BY DEF Row
<1>2. /\ e \in OfKind(kind) /\ e \in Counters
      /\ \A c \in OfKind(kind) : c \in CountersFor(k, copy.day) <=> c = e
  BY <1>1, CounterOfKind DEF OfKind
<1>3. \A c \in OfKind(kind) : reserved'[c] = IF c = e THEN reserved[c] - HoldMicro ELSE reserved[c]
  BY <1>2 DEF Unreserve, OfKind
<1>4. \A c \in OfKind(kind) : reserved[c] \in Int /\ HoldMicro \in Int
  BY BudgetAssumption DEF Types, BudgetTypeOK, OfKind
<1> HIDE DEF e
<1>5. \A c \in OfKind(kind) : reserved'[c] \in Int
  BY <1>3, <1>4
<1>6. SumFunctionOnSet(reserved', OfKind(kind))
        = SumFunctionOnSet(reserved, OfKind(kind)) - reserved[e] + reserved'[e]
  <2>1. IsFiniteSet(OfKind(kind)) /\ e \in OfKind(kind)
    BY <1>2, CountersFinite
  <2>2. \A c \in OfKind(kind) : reserved[c] \in Int /\ reserved'[c] \in Int
    BY <1>4, <1>5
  <2>3. \A c \in OfKind(kind) \ {e} : reserved'[c] = reserved[c]
    BY <1>3
  <2> DEFINE before == reserved
             after == reserved'
  <2> HIDE DEF before, after
  <2>4. SumFunctionOnSet(after, OfKind(kind))
          = SumFunctionOnSet(before, OfKind(kind)) - before[e] + after[e]
    BY <2>1, <2>2, <2>3, SumChange DEF before, after
  <2>5. QED
    BY <2>4 DEF before, after
<1>7. SumFunctionOnSet(reserved, OfKind(kind)) \in Int
  BY <1>4, CountersFinite, SumType
<1>8. reserved'[e] = reserved[e] - HoldMicro /\ reserved[e] \in Int /\ HoldMicro \in Int
  BY <1>2, <1>3, <1>4
<1>9. QED
  BY <1>6, <1>7, <1>8

\* Holds of the keys in T, taken off the counters of whatever days the copies name.
TakenOff(T, days) ==
  [c \in Counters |->
     reserved[c] - HoldMicro * Cardinality({j \in T : c \in CountersFor(j, days[j])})]

LEMMA TotalTakenOff ==
  ASSUME Types, NEW kind \in Kinds, NEW S \in SUBSET Keys, NEW days \in [S -> Days]
  PROVE  SumFunctionOnSet(TakenOff(S, days), OfKind(kind))
           = SumFunctionOnSet(reserved, OfKind(kind)) - HoldMicro * Cardinality(S)
<1> DEFINE on(T, c) == {j \in T : c \in CountersFor(j, days[j])}
           total == SumFunctionOnSet(reserved, OfKind(kind))
           G == {T \in SUBSET S :
                   SumFunctionOnSet(TakenOff(T, days), OfKind(kind)) = total - HoldMicro * Cardinality(T)}
<1>1. IsFiniteSet(S) /\ HoldMicro \in Int
  BY FS_Subset, BudgetAssumption
<1>2. ASSUME NEW T \in SUBSET S
      PROVE  /\ IsFiniteSet(T) /\ Cardinality(T) \in Nat
             /\ \A c \in Counters : IsFiniteSet(on(T, c)) /\ Cardinality(on(T, c)) \in Nat
             /\ \A c \in OfKind(kind) :
                  /\ TakenOff(T, days)[c] = reserved[c] - HoldMicro * Cardinality(on(T, c))
                  /\ TakenOff(T, days)[c] \in Int
  <2>1. IsFiniteSet(T) /\ Cardinality(T) \in Nat
    BY <1>1, FS_Subset, FS_CardinalityType
  <2>2. \A c \in Counters : on(T, c) \subseteq T
    OBVIOUS
  <2>3. \A c \in Counters : IsFiniteSet(on(T, c)) /\ Cardinality(on(T, c)) \in Nat
    <3> HIDE DEF on
    <3>1. QED
      BY <2>1, <2>2, FS_Subset, FS_CardinalityType
  <2>4. \A c \in OfKind(kind) : c \in Counters /\ reserved[c] \in Int
    BY DEF OfKind, Types, BudgetTypeOK
  <2>5. \A c \in Counters : TakenOff(T, days)[c] = reserved[c] - HoldMicro * Cardinality(on(T, c))
    BY DEF TakenOff
  <2> HIDE DEF on
  <2>6. QED
    BY <1>1, <2>1, <2>3, <2>4, <2>5
<1>3. total \in Int
  <2>1. \A c \in OfKind(kind) : reserved[c] \in Int
    BY DEF OfKind, Types, BudgetTypeOK
  <2>2. QED
    BY <2>1, CountersFinite, SumType
<1>4. ASSUME NEW T \in SUBSET S, \A U \in SUBSET T : U # T => U \in G
      PROVE  T \in G
  <2>1. CASE T = {}
    <3>1. Cardinality(T) = 0
      BY <2>1, FS_EmptySet
    <3>2. \A c \in Counters : on(T, c) = {}
      BY <2>1
    <3>3. \A c \in OfKind(kind) : TakenOff(T, days)[c] = reserved[c] /\ reserved[c] \in Int
      <4> HIDE DEF on
      <4>1. QED
        BY <1>1, <1>2, <3>2, FS_EmptySet DEF OfKind, Types, BudgetTypeOK
    <3>4. SumFunctionOnSet(TakenOff(T, days), OfKind(kind)) = total
      BY <3>3, CountersFinite, SumSame
    <3> HIDE DEF total
    <3>5. QED
      BY <1>1, <1>3, <3>1, <3>4
  <2>2. CASE T # {}
    <3>1. PICK x \in T : TRUE
      BY <2>2
    <3> DEFINE U == T \ {x}
               e == CounterOf(kind, x, days[x])
    <3>2. U \in G /\ U \in SUBSET S
      BY <1>4, <3>1
    <3>3. x \in Keys /\ days[x] \in Days
      BY <3>1
    <3>4. e \in OfKind(kind) /\ \A c \in OfKind(kind) : c \in CountersFor(x, days[x]) <=> c = e
      BY <3>3, CounterOfKind
    <3> HIDE DEF e
    <3>5. Cardinality(T) = Cardinality(U) + 1 /\ Cardinality(U) \in Nat
      BY <1>2, <3>1, FS_RemoveElement
    <3>6. \A c \in OfKind(kind) : on(T, c) = IF c = e THEN on(U, c) \cup {x} ELSE on(U, c)
      BY <3>1, <3>4
    <3>7. \A c \in Counters : x \notin on(U, c)
      OBVIOUS
    <3>8. e \in Counters
      BY <3>4 DEF OfKind
    <3> HIDE DEF on, U
    <3>9. Cardinality(on(T, e)) = Cardinality(on(U, e)) + 1 /\ Cardinality(on(U, e)) \in Nat
      <4>1. on(T, e) = on(U, e) \cup {x} /\ x \notin on(U, e)
        BY <3>4, <3>6, <3>7, <3>8
      <4>2. IsFiniteSet(on(U, e)) /\ Cardinality(on(U, e)) \in Nat
        BY <1>2, <3>2, <3>8
      <4>3. QED
        BY <4>1, <4>2, FS_AddElement
    <3>10. \A c \in OfKind(kind) \ {e} : TakenOff(T, days)[c] = TakenOff(U, days)[c]
      BY <1>2, <3>2, <3>6
    <3>11. TakenOff(T, days)[e] = TakenOff(U, days)[e] - HoldMicro /\ TakenOff(U, days)[e] \in Int
      <4>1. /\ TakenOff(T, days)[e] = reserved[e] - HoldMicro * Cardinality(on(T, e))
            /\ TakenOff(U, days)[e] = reserved[e] - HoldMicro * Cardinality(on(U, e))
            /\ TakenOff(U, days)[e] \in Int
        BY <1>2, <3>2, <3>4
      <4>2. /\ HoldMicro * (Cardinality(on(U, e)) + 1) = HoldMicro * Cardinality(on(U, e)) + HoldMicro
            /\ HoldMicro * Cardinality(on(U, e)) \in Int
        BY <1>1, <3>9, Distributes
      <4>3. reserved[e] \in Int
        BY <3>8 DEF Types, BudgetTypeOK
      <4>4. QED
        BY <1>1, <3>9, <4>1, <4>2, <4>3
    <3>12. SumFunctionOnSet(TakenOff(T, days), OfKind(kind))
             = SumFunctionOnSet(TakenOff(U, days), OfKind(kind))
               - TakenOff(U, days)[e] + TakenOff(T, days)[e]
      <4>1. \A c \in OfKind(kind) : TakenOff(U, days)[c] \in Int /\ TakenOff(T, days)[c] \in Int
        BY <1>2, <3>2
      <4>2. QED
        BY <3>4, <3>10, <4>1, CountersFinite, SumChange
    <3>13. SumFunctionOnSet(TakenOff(U, days), OfKind(kind)) = total - HoldMicro * Cardinality(U)
      BY <3>2
    <3>14. /\ HoldMicro * (Cardinality(U) + 1) = HoldMicro * Cardinality(U) + HoldMicro
           /\ HoldMicro * Cardinality(U) \in Int
      BY <1>1, <3>5, Distributes
    <3> HIDE DEF total
    <3>15. SumFunctionOnSet(TakenOff(T, days), OfKind(kind)) = total - HoldMicro * Cardinality(T)
      BY <1>1, <1>3, <3>5, <3>11, <3>12, <3>13, <3>14
    <3>16. QED
      BY <3>15
  <2>3. QED
    BY <2>1, <2>2
<1> HIDE DEF G
<1>5. S \in G
  BY <1>1, <1>4, SubsetsByInduction
<1>6. QED
  BY <1>5 DEF G

LEMMA OpenFacts ==
  /\ IsFiniteSet(Open) /\ Cardinality(Open) \in Nat
  /\ IsFiniteSet(OpenNext) /\ Cardinality(OpenNext) \in Nat
<1>1. Open \subseteq Keys /\ OpenNext \subseteq Keys
  BY DEF Open, OpenNext
<1>2. QED
  BY <1>1, BudgetAssumption, FS_Subset, FS_CardinalityType

\* Taking a hold closes what it reclaims and opens the key's, which was not open
\* unless it is among the reclaimed.
LEMMA OpenTaken ==
  ASSUME Types, NEW k \in Keys, NEW seen \in Row, ~Charged(seen), CanWrite(k, seen),
         NEW tok, NEW now, TakeHold(k, seen, tok, now)
  PROVE  LET gone == Cardinality(Reclaimed(k, seen, now)) IN
         /\ gone \in Nat
         /\ Cardinality(OpenNext) = Cardinality(Open) - gone + 1
<1> DEFINE gone == Reclaimed(k, seen, now)
           rest == Open \ gone
<1>1. gone \subseteq Open
  BY ReclaimedFacts DEF Open
<1>2. k \notin rest
  <2>1. CASE Claimable(k)
    <3>1. seen.status = "reserved"
      BY <2>1 DEF CanWrite, Charged, Claimable, Row, Statuses
    <3>2. QED
      BY <2>1, <3>1 DEF Reclaimed
  <2>2. CASE ~Claimable(k)
    BY <2>2 DEF Open
  <2>3. QED
    BY <2>1, <2>2
<1>3. /\ rows'[k].status = "reserved"
      /\ \A j \in Keys \ {k} :
           /\ j \in gone => rows'[j].status = "unknown"
           /\ j \notin gone => rows'[j] = rows[j]
  BY DEF TakeHold, Reclaimed, Reheld, Types, BudgetTypeOK, Row
<1>4. OpenNext = rest \cup {k}
  BY <1>2, <1>3 DEF OpenNext, Open, Claimable
<1> HIDE DEF gone
<1>5. IsFiniteSet(gone) /\ Cardinality(gone) \in Nat
  BY <1>1, OpenFacts, FS_Subset, FS_CardinalityType
<1>6. IsFiniteSet(rest) /\ Cardinality(rest) = Cardinality(Open) - Cardinality(gone)
  <2>1. Open \cap gone = gone
    BY <1>1
  <2>2. QED
    BY <2>1, OpenFacts, FS_Difference
<1>7. Cardinality(OpenNext) = Cardinality(rest) + 1
  BY <1>2, <1>4, <1>6, FS_AddElement
<1>8. QED
  BY <1>5, <1>6, <1>7 DEF gone

\* It moves the total of each kind by as much.
LEMMA TotalTaken ==
  ASSUME Types, NEW kind \in Kinds, NEW k \in Keys, NEW seen \in Row,
         NEW tok, NEW now, TakeHold(k, seen, tok, now)
  PROVE  SumFunctionOnSet(reserved', OfKind(kind))
           = SumFunctionOnSet(reserved, OfKind(kind))
             - HoldMicro * Cardinality(Reclaimed(k, seen, now)) + HoldMicro
<1> DEFINE gone == Reclaimed(k, seen, now)
           days == [j \in gone |-> (IF j = k THEN seen ELSE rows[j]).day]
           left == TakenOff(gone, days)
           e == CounterOf(kind, k, Today)
           S == OfKind(kind)
           after == reserved'
<1>0. IsFiniteSet(S) /\ HoldMicro \in Int
  BY CountersFinite, BudgetAssumption
<1>1. gone \in SUBSET Keys
  BY ReclaimedFacts
<1>2. days \in [gone -> Days]
  BY <1>1 DEF Types, BudgetTypeOK, Row
<1>3. Today \in Days
  BY DayFacts DEF Types, BudgetTypeOK
<1>4. e \in S /\ S \subseteq Counters /\ \A c \in S : c \in CountersFor(k, Today) <=> c = e
  BY <1>3, CounterOfKind DEF OfKind
<1>5. \A c \in Counters : {j \in gone : c \in CountersFor(j, days[j])} = ReclaimedOn(c, k, seen, now)
  BY DEF ReclaimedOn
<1>6. \A c \in Counters :
        /\ left[c] = reserved[c] - HoldMicro * Cardinality(ReclaimedOn(c, k, seen, now))
        /\ after[c] = reserved[c] - HoldMicro * Cardinality(ReclaimedOn(c, k, seen, now))
                      + (IF c \in CountersFor(k, Today) THEN HoldMicro ELSE 0)
        /\ reserved[c] - HoldMicro * Cardinality(ReclaimedOn(c, k, seen, now)) \in Int
  <2>1. \A c \in Counters : reserved[c] \in Int /\ Cardinality(ReclaimedOn(c, k, seen, now)) \in Nat
    BY ReclaimedFacts DEF Types, BudgetTypeOK
  <2>2. \A c \in Counters :
          after[c] = reserved[c] - HoldMicro * Cardinality(ReclaimedOn(c, k, seen, now))
                     + (IF c \in CountersFor(k, Today) THEN HoldMicro ELSE 0)
    BY DEF TakeHold, ReclaimedOn, Reclaimed
  <2>3. \A c \in Counters :
          left[c] = reserved[c] - HoldMicro * Cardinality(ReclaimedOn(c, k, seen, now))
    BY <1>5 DEF TakenOff
  <2> HIDE DEF left, after
  <2>4. QED
    BY <1>0, <2>1, <2>2, <2>3
<1>7. SumFunctionOnSet(left, S)
        = SumFunctionOnSet(reserved, S) - HoldMicro * Cardinality(gone)
  BY <1>1, <1>2, TotalTakenOff
<1>8. Cardinality(gone) \in Nat
  BY <1>1, BudgetAssumption, FS_Subset, FS_CardinalityType
<1> HIDE DEF left, after, gone, S, e
<1>9. /\ \A c \in S : left[c] \in Int /\ after[c] \in Int
      /\ \A c \in S \ {e} : after[c] = left[c]
      /\ after[e] = left[e] + HoldMicro
  BY <1>0, <1>4, <1>6
<1>10. SumFunctionOnSet(after, S) = SumFunctionOnSet(left, S) - left[e] + after[e]
  <2>1. IsFiniteSet(S) /\ e \in S
    BY <1>0, <1>4
  <2>2. \A c \in S : left[c] \in Int /\ after[c] \in Int
    BY <1>9
  <2>3. \A c \in S \ {e} : after[c] = left[c]
    BY <1>9
  <2>4. QED
    BY <2>1, <2>2, <2>3, SumChange
<1>11. SumFunctionOnSet(left, S) \in Int /\ left[e] \in Int
  BY <1>0, <1>4, <1>9, SumType
<1>12. SumFunctionOnSet(after, S) = SumFunctionOnSet(left, S) + HoldMicro
  BY <1>0, <1>9, <1>10, <1>11
<1>13. QED
  BY <1>7, <1>12 DEF gone, S, after

LEMMA TotalsStep ==
  Types /\ CopiesFaithful /\ TotalsConserved /\ [Next]_vars => TotalsConserved'
<1> SUFFICES ASSUME Types, CopiesFaithful, TotalsConserved, [Next]_vars, NEW kind \in Kinds
             PROVE  SumFunctionOnSet(reserved', OfKind(kind)) = HoldMicro * Cardinality(OpenNext)
  BY DEF TotalsConserved, OfKind, OpenNext, Claimable
<1> DEFINE total == SumFunctionOnSet(reserved, OfKind(kind))
           next == SumFunctionOnSet(reserved', OfKind(kind))
<1>1. /\ HoldMicro \in Int /\ Cardinality(Open) \in Nat
      /\ total = HoldMicro * Cardinality(Open)
  BY OpenFacts, BudgetAssumption DEF TotalsConserved, OfKind, Open
<1>2. CASE UNCHANGED bookVars
  <2>1. OpenNext = Open /\ next = total
    BY <1>2 DEF bookVars, OpenNext, Open, Claimable
  <2>2. QED
    BY <1>1, <2>1
<1>3. ASSUME NEW k \in Keys, NEW copy \in Row, NEW status \in {"settled", "unknown", "released"},
             Claimable(k), rows' = [rows EXCEPT ![k].status = status], Unreserve(k, copy)
      PROVE  next = HoldMicro * Cardinality(OpenNext)
  <2>1. next = total - HoldMicro
    BY <1>3, TotalEnded
  <2>2. OpenNext = Open \ {k} /\ k \in Open
    BY <1>3 DEF OpenNext, Open, Claimable, Types, BudgetTypeOK, Row
  <2>3. Cardinality(OpenNext) = Cardinality(Open) - 1
    BY <2>2, OpenFacts, FS_RemoveElement
  <2> HIDE DEF total, next
  <2>4. HoldMicro * (Cardinality(Open) - 1) = HoldMicro * Cardinality(Open) - HoldMicro
    BY <1>1, Distributes
  <2>5. QED
    BY <1>1, <2>1, <2>3, <2>4
<1>4. ASSUME NEW k \in Keys, NEW copy \in Row, Books(k, copy), ~UNCHANGED bookVars
      PROVE  next = HoldMicro * Cardinality(OpenNext)
  <2>1. CASE Takes(k, copy)
    <3>1. PICK tok \in TokenHolds \cup {0}, now \in 0 .. MaxClock :
            /\ ~Charged(copy)
            /\ CanWrite(k, copy)
            /\ TakeHold(k, copy, tok, now)
      BY <2>1 DEF Takes
    <3> DEFINE gone == Cardinality(Reclaimed(k, copy, now))
               open == Cardinality(Open)
    <3>2. gone \in Nat /\ Cardinality(OpenNext) = open - gone + 1
      BY <3>1, OpenTaken
    <3>3. next = total - HoldMicro * gone + HoldMicro
      BY <3>1, TotalTaken
    <3> HIDE DEF total, next, gone, open
    <3>4. open \in Nat /\ total = HoldMicro * open
      BY <1>1 DEF open
    <3>5. /\ HoldMicro * gone \in Int /\ HoldMicro * open \in Int
          /\ HoldMicro * (open - gone) = HoldMicro * open - HoldMicro * gone
          /\ HoldMicro * (open - gone + 1) = HoldMicro * (open - gone) + HoldMicro
      BY <1>1, <3>2, <3>4, Distributes
    <3>6. QED
      BY <1>1, <3>2, <3>3, <3>4, <3>5
  <2>2. CASE Settles(k, copy)
    <3>1. PICK status \in {"settled", "unknown"} :
            Claimable(k) /\ rows' = [rows EXCEPT ![k].status = status] /\ Unreserve(k, copy)
      BY <1>4, <2>2 DEF Settles, SettleBudget
    <3>2. QED
      BY <1>3, <3>1
  <2>3. CASE ReleaseBudget(k, copy)
    <3>1. Claimable(k) /\ rows' = [rows EXCEPT ![k].status = "released"] /\ Unreserve(k, copy)
      BY <1>4, <2>3 DEF ReleaseBudget
    <3>2. QED
      BY <1>3, <3>1
  <2>4. QED
    BY <1>4, <2>1, <2>2, <2>3 DEF Books
<1>5. QED
  BY <1>2, <1>4, BookSteps

LEMMA TotalsInit == Init => TotalsConserved
<1> SUFFICES ASSUME Init, NEW kind \in Kinds
             PROVE  SumFunctionOnSet(reserved, OfKind(kind)) = HoldMicro * Cardinality(Open)
  BY DEF TotalsConserved, OfKind, Open
<1>1. Open = {} /\ \A c \in OfKind(kind) : reserved[c] = 0
  BY DEF Init, BudgetInit, Open, Claimable, NoRow, OfKind
<1>2. SumFunctionOnSet(reserved, OfKind(kind)) = 0
  BY <1>1, CountersFinite, SumZero
<1>3. QED
  BY <1>1, <1>2, FS_EmptySet, BudgetAssumption

\* Whatever was stolen, what the counters of a kind reserve over all days and
\* accounts is what the open holds hold.
THEOREM TotalsKept == Spec => []TotalsConserved
<1> DEFINE IInv == Types /\ CopiesFaithful /\ TotalsConserved
<1>1. Init => IInv
  BY TypesInit, CopiesInit, TotalsInit
<1>2. IInv /\ [Next]_vars => IInv'
  BY TypesStep, CopiesStep, TotalsStep
<1>3. QED
  BY <1>1, <1>2, PTL DEF Spec
=============================================================================
