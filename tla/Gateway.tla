------------------------------ MODULE Gateway ------------------------------
(***************************************************************************)
(* The model gateway (src/src/daily_agent/gateway/service.py and           *)
(* router.py): requests on several threads choose a model by plan, task    *)
(* and health, ask its provider, and on failure ask one more model.        *)
(*                                                                         *)
(* Choosing looks at one model at a time, with the tracker's lock taken    *)
(* for each look, and the call begins under another lock: between any two  *)
(* of these steps other requests may change what was seen.                 *)
(***************************************************************************)
EXTENDS Health, Sequences, SequencesExt

CONSTANTS
  Registry,   \* the models in registry order
  RankOf,     \* model -> rank of its class
  ContextOf,  \* model -> context_length
  ScoreOf,    \* task -> model -> score, ties broken by name: no two models are equal
  HardTasks,  \* _HARD
  Asks,       \* the requests made: plan, task, size and whether to escalate
  Requests    \* the threads that serve requests

MaxTries == 2  \* MAX_ATTEMPTS

ASSUME GatewayAssumption ==
  /\ Registry \in Seq(Models)
  /\ RankOf \in [Models -> 0 .. 2]
  /\ ContextOf \in [Models -> Nat]
  /\ Asks # {}
  /\ \A a \in Asks : /\ a.classes \subseteq 0 .. 2
                     /\ a.floor \in 0 .. 2
                     /\ a.escalate \in BOOLEAN
                     /\ a.size \in Nat
                     /\ ScoreOf[a.task] \in [Models -> Nat]
                     /\ IsInjective(ScoreOf[a.task])

VARIABLE
  request,  \* what each thread is doing
  late      \* history: provider -> requests that called it in this open window

vars == <<healthVars, request, late>>

(***************************************************************************)
(* A thread looks through the models at the places "left" of the registry  *)
(* and keeps the available ones in "found"; "pool" says which              *)
(* eligible_models call this is, and "tried" holds the models it has asked *)
(* or is about to ask.                                                     *)
(***************************************************************************)
Pools == {"first", "higher", "other"}
Request == [pc : {"idle", "look", "begin", "call"}, ask : Asks,
            pool : Pools, left : SUBSET (DOMAIN Registry), found : SUBSET Models,
            tried : Seq(Models)]
Idle == [pc |-> "idle", ask |-> CHOOSE a \in Asks : TRUE, pool |-> "first",
         left |-> {}, found |-> {}, tried |-> <<>>]

Busy(r) == request[r].pc # "idle"
Calling(r, p) == request[r].pc = "call" /\ ProviderOf[Last(request[r].tried)] = p

TypeOK ==
  /\ HealthTypeOK
  /\ request \in [Requests -> Request]
  /\ late \in [Providers -> SUBSET Requests]

Init ==
  /\ HealthInit
  /\ request = [r \in Requests |-> Idle]
  /\ late = [p \in Providers |-> {}]

-----------------------------------------------------------------------------
(***************************************************************************)
(* Routing.                                                                *)
(***************************************************************************)
\* start_class: the plan's floor, one class up for a hard task and one for an
\* escalation, as far as the plan's classes go.
StartRank(a) ==
  LET ladder == {c \in a.classes : c >= a.floor}
      wanted == (IF a.task \in HardTasks THEN 1 ELSE 0) + (IF a.escalate THEN 1 ELSE 0)
      steps == IF wanted < Cardinality(ladder) THEN wanted ELSE Cardinality(ladder) - 1
  IN CHOOSE c \in ladder : Cardinality({d \in ladder : d < c}) = steps

\* (mutant of Suitable: every class above the floor)
SuitableAnyClass(a, m, least, tried) ==
  /\ RankOf[m] >= StartRank(a) /\ RankOf[m] >= least
  /\ ContextOf[m] >= a.size
  /\ \A i \in DOMAIN tried : tried[i] # m

\* The filter of eligible_models, but for the model's health.
Suitable(a, m, least, tried) ==
  /\ \E c \in a.classes : c >= a.floor
  /\ RankOf[m] \in a.classes
  /\ RankOf[m] >= StartRank(a) /\ RankOf[m] >= least
  /\ ContextOf[m] >= a.size
  /\ \A i \in DOMAIN tried : tried[i] # m

Candidates(a, least, tried) ==
  {i \in DOMAIN Registry : Suitable(a, Registry[i], least, tried)}

\* The order of eligible_models: cheapest class, then best score.
Cheaper(a, m, n) ==
  \/ RankOf[m] < RankOf[n]
  \/ RankOf[m] = RankOf[n] /\ ScoreOf[a.task][m] > ScoreOf[a.task][n]

\* generate asks pool[0]; a retry prefers another provider than the first one's.
Preferred(q, m, n) ==
  LET same(x) == q.tried # <<>> /\ ProviderOf[x] = ProviderOf[Head(q.tried)]
  IN IF same(m) = same(n) THEN Cheaper(q.ask, m, n) ELSE ~same(m)

Best(q) == CHOOSE m \in q.found : \A n \in q.found \ {m} : Preferred(q, m, n)

\* The thread's state as it goes through the candidates of a pool.
Looking(q, pool) ==
  LET least == IF pool = "higher" THEN RankOf[Head(q.tried)] + 1 ELSE 0
  IN [q EXCEPT !.pc = "look", !.pool = pool, !.found = {},
               !.left = Candidates(q.ask, least, q.tried)]

\* The pool of a thread that has looked at every candidate: take its head, or give up.
Chosen(q) ==
  IF q.found = {} THEN Idle
  ELSE [q EXCEPT !.pc = "begin", !.tried = Append(@, Best(q)), !.found = {}]

\* A thread with candidates left goes on; an empty pool of higher classes is
\* replaced by every other candidate.
Onward(q) ==
  CASE q.left # {} -> q
    [] q.left = {} /\ q.pool = "higher" /\ q.found = {} ->
         LET other == Looking(q, "other")
         IN IF other.left = {} THEN Idle ELSE other
    [] OTHER -> Chosen(q)

-----------------------------------------------------------------------------
(***************************************************************************)
(* Steps.                                                                  *)
(***************************************************************************)
\* The windows that ended with this step: nobody has called late any more.
Forget == late' = [p \in Providers |-> IF Blocked(p)' THEN late[p] ELSE {}]

Set(r, q) == request' = [request EXCEPT ![r] = q]

\* generate is called.
Generate(r, a) ==
  /\ request[r].pc = "idle"
  /\ Set(r, Onward(Looking([Idle EXCEPT !.ask = a], "first")))
  /\ UNCHANGED <<healthVars, late>>

\* eligible_models asks the tracker for the next model.
Look(r) ==
  LET q == request[r]
      i == Min(q.left)
      m == Registry[i]
  IN
  /\ q.pc = "look"
  /\ Set(r, Onward([q EXCEPT !.left = @ \ {i},
                             !.found = IF Available(m) THEN @ \cup {m} ELSE @]))
  /\ UNCHANGED <<healthVars, late>>

\* _attempt: begin_call, then the request is sent.
Begin(r) ==
  LET q == request[r]
      p == ProviderOf[Last(q.tried)]
  IN
  /\ q.pc = "begin"
  /\ BeginCall(p)
  /\ Set(r, [q EXCEPT !.pc = "call"])
  /\ late' = IF Blocked(p) THEN [late EXCEPT ![p] = @ \cup {r}] ELSE late

\* What follows a failed attempt: another pool after the first, the end after the
\* second.
Retried(q, pool) ==
  IF Len(q.tried) < MaxTries THEN Onward(Looking(q, pool)) ELSE Idle

\* The provider answers and the answer passes validate_output, or it does not.
Answered(r) ==
  LET q == request[r] IN
  /\ q.pc = "call"
  /\ RecordSuccess(ProviderOf[Last(q.tried)])
  /\ Set(r, Idle) \/ Set(r, Retried(q, "higher"))
  /\ Forget

\* complete raises a ProviderError, which is recorded by its kind.
Failed(r) ==
  LET q == request[r]
      m == Last(q.tried)
  IN
  /\ q.pc = "call"
  /\ \/ \E ticks \in CoolTicks : RecordRateLimited(m, ticks)
     \/ RecordRejected(m)
     \/ RecordNonZeroPrice(m)
     \/ \E auth \in BOOLEAN : RecordFault(m, auth)
  /\ Set(r, Retried(q, "other"))
  /\ Forget

\* complete raises anything else: nobody tells the tracker.
Raised(r) ==
  LET q == request[r] IN
  /\ q.pc = "call"
  /\ LeaveProbe(ProviderOf[Last(q.tried)])
  /\ Set(r, Idle)
  /\ UNCHANGED <<cooling, disabled, late>>

Tick ==
  /\ HealthTick
  /\ UNCHANGED request
  /\ Forget

Step(r) == Look(r) \/ Begin(r) \/ Answered(r) \/ Failed(r) \/ Raised(r)

Next ==
  \/ \E r \in Requests : Step(r)
  \/ \E r \in Requests, a \in Asks : Generate(r, a)
  \/ Tick

Spec == Init /\ [][Next]_vars

\* Threads run, every call to a provider has a timeout, and time goes on.
FairSpec ==
  /\ Spec
  /\ \A r \in Requests : WF_vars(Step(r))
  /\ WF_vars(Tick)

-----------------------------------------------------------------------------
(***************************************************************************)
(* Properties.                                                             *)
(***************************************************************************)
\* A plan's requests reach the models of its own classes only, no model twice, and
\* after a reply that failed validation no model of a lower class than the first.
AttemptsAsPromised ==
  \A r \in Requests :
    LET q == request[r] IN
    Busy(r) =>
      /\ Len(q.tried) <= MaxTries
      /\ \A i \in DOMAIN q.tried : RankOf[q.tried[i]] \in q.ask.classes
      /\ IsInjective(q.tried)
      /\ (q.pool = "higher" /\ Len(q.tried) = 2) => RankOf[q.tried[2]] > RankOf[q.tried[1]]

\* While a provider's breaker is open nobody calls it, except that a request which
\* chose it before the breaker opened does so once.
ShieldedWhileOpen ==
  [][\A r \in Requests :
       LET p == ProviderOf[Last(request[r].tried)] IN
       (request[r].pc = "begin" /\ request'[r].pc = "call" /\ Blocked(p))
         => r \notin late[p]]_vars

\* A breaker says that its probe is in flight only while some request is calling
\* the provider, unless a probe ended without a word to the tracker.
ProbeAccounted ==
  \A p \in Providers :
    breaker[p].probing => p \in leaked \/ \E r \in Requests : Calling(r, p)

\* No provider is shut out for good: however its calls fail and overlap, its
\* breaker lets requests through again and again, lost probes apart.
ProviderReturns ==
  \A p \in Providers : []<>(ProviderReady(p) \/ p \in leaked)

\* "Mark a half-open probe in flight so only one request tests a recovering provider."
OneProbe ==
  [][\A r \in Requests :
       LET p == ProviderOf[Last(request[r].tried)] IN
       (request[r].pc = "begin" /\ request'[r].pc = "call" /\ ~Blocked(p) /\ breaker[p].open)
         => ~breaker[p].probing]_vars
=============================================================================
