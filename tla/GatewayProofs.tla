--------------------------- MODULE GatewayProofs ---------------------------
(***************************************************************************)
(* Theorems about the model gateway, for any models, providers, threads,   *)
(* thresholds and cooldowns: every variable keeps its type, a request's    *)
(* attempts are those its plan allows, a breaker that reports its probe in *)
(* flight is telling the truth, and an open breaker shields its provider.  *)
(***************************************************************************)
EXTENDS Gateway, SumTheorems

BreakersTypeOK == breaker \in [Providers -> Breaker]

\* A thread's state has the fields that the steps of a call read and write.
ThreadsKeepFields ==
  /\ request = [r \in Requests |-> request[r]]
  /\ \A r \in Requests : {"pc", "tried"} \subseteq DOMAIN request[r]

\* How a call that r has begun can end.
Ended(r) == Answered(r) \/ Failed(r) \/ Raised(r)

-----------------------------------------------------------------------------
(***************************************************************************)
(* Each method of the tracker, on the breakers.                            *)
(***************************************************************************)
LEMMA BeginKeepsTypes ==
  ASSUME BreakersTypeOK, NEW p, BeginCall(p)
  PROVE  /\ BreakersTypeOK'
         /\ \A q \in Providers \ {p} : breaker'[q].probing = breaker[q].probing
<1>1. ASSUME p \in Providers
      PROVE  [breaker[p] EXCEPT !.probing = breaker[p].probing \/ breaker[p].open] \in Breaker
  BY <1>1 DEF BreakersTypeOK, Breaker
<1>2. QED
  BY <1>1 DEF BeginCall, BreakersTypeOK

\* What the end of a call to p leaves behind: nobody else's breaker is touched, and
\* p's probe is released, or (NON_ZERO_PRICE, an unexpected exception) known lost.
Settled(p) ==
  /\ BreakersTypeOK'
  /\ \A q \in Providers \ {p} : breaker'[q] = breaker[q] /\ (q \in leaked => q \in leaked')
  /\ p \in Providers => (breaker'[p].probing => p \in leaked')

LEMMA EndSettles ==
  ASSUME BreakersTypeOK, NEW r \in Requests, Ended(r)
  PROVE  Settled(ProviderOf[Last(request[r].tried)])
<1> DEFINE m == Last(request[r].tried)
<1>1. PICK p : p = ProviderOf[m]
  OBVIOUS
<1> SUFFICES Settled(p)
  BY <1>1
<1> HIDE DEF m
<1>2. Fresh \in Breaker /\ ~Fresh.probing
  BY HealthAssumption DEF Fresh, Breaker
<1>3. CASE RecordSuccess(p)
  BY <1>2, <1>3 DEF RecordSuccess, Settled, BreakersTypeOK
<1>4. CASE ReleaseProbe(p)
  <2>1. ASSUME p \in Providers
        PROVE  /\ [breaker[p] EXCEPT !.probing = FALSE] \in Breaker
               /\ ~[breaker[p] EXCEPT !.probing = FALSE].probing
    BY <2>1 DEF BreakersTypeOK, Breaker
  <2>2. QED
    BY <1>4, <2>1 DEF ReleaseProbe, Settled, BreakersTypeOK
<1>5. CASE LeaveProbe(p)
  BY <1>5 DEF LeaveProbe, Settled, BreakersTypeOK
<1>6. ASSUME NEW auth \in BOOLEAN, RecordFault(m, auth)
      PROVE  Settled(p)
  <2>1. PICK n : n = breaker[p].failures + 1
    OBVIOUS
  <2>2. PICK b : b = [failures |-> IF n > Threshold THEN Threshold ELSE n,
                      open |-> breaker[p].open \/ auth \/ n >= Threshold,
                      age |-> IF auth \/ n >= Threshold THEN 0 ELSE breaker[p].age,
                      probing |-> FALSE]
    OBVIOUS
  <2>3. breaker' = [breaker EXCEPT ![p] = b] /\ leaked' = leaked \ {p}
    BY <1>1, <1>6, <2>1, <2>2 DEF RecordFault
  <2>4. ASSUME p \in Providers
        PROVE  b \in Breaker
    <3>1. breaker[p] \in Breaker
      BY <2>4 DEF BreakersTypeOK
    <3>2. n \in Nat
      BY <2>1, <3>1, HealthAssumption DEF Breaker
    <3>3. b.failures \in 0 .. Threshold
      BY <2>2, <3>2, HealthAssumption
    <3>4. b.age \in 0 .. OpenTicks
      BY <2>2, <3>1, HealthAssumption DEF Breaker
    <3>5. b.open \in BOOLEAN /\ b.probing \in BOOLEAN
      BY <2>2, <3>1 DEF Breaker
    <3>6. QED
      BY <2>2, <3>3, <3>4, <3>5 DEF Breaker
  <2>5. b.probing = FALSE
    BY <2>2
  <2>6. QED
    BY <2>3, <2>4, <2>5 DEF Settled, BreakersTypeOK
<1>7. CASE Answered(r)
  BY <1>1, <1>3, <1>7 DEF Answered, m
<1>8. CASE Raised(r)
  BY <1>1, <1>5, <1>8 DEF Raised, m
<1>9. CASE Failed(r)
  <2>1. \/ \E ticks \in CoolTicks : RecordRateLimited(m, ticks)
        \/ RecordRejected(m)
        \/ RecordNonZeroPrice(m)
        \/ \E auth \in BOOLEAN : RecordFault(m, auth)
    BY <1>9 DEF Failed, m
  <2>2. QED
    BY <1>1, <1>4, <1>5, <1>6, <2>1 DEF RecordRateLimited, RecordRejected, RecordNonZeroPrice
<1>10. QED
  BY <1>7, <1>8, <1>9 DEF Ended

\* The clock moves no probe.
LEMMA TickSettles ==
  ASSUME BreakersTypeOK, HealthTick
  PROVE  BreakersTypeOK' /\ \A p \in Providers : breaker'[p].probing = breaker[p].probing
<1>1. ASSUME NEW p \in Providers
      PROVE  breaker'[p] \in Breaker /\ breaker'[p].probing = breaker[p].probing
  <2>1. breaker[p] \in Breaker
    BY DEF BreakersTypeOK
  <2>2. CASE Blocked(p)
    <3>1. PICK age \in 0 .. OpenTicks : age = breaker[p].age + 1
      BY <2>1, <2>2, HealthAssumption DEF Blocked, Breaker
    <3>2. breaker'[p] = [breaker[p] EXCEPT !.age = age]
      BY <2>2, <3>1 DEF HealthTick
    <3>3. QED
      BY <2>1, <3>2 DEF Breaker
  <2>3. CASE ~Blocked(p)
    BY <2>1, <2>3 DEF HealthTick
  <2>4. QED
    BY <2>2, <2>3
<1>2. QED
  BY <1>1 DEF HealthTick, BreakersTypeOK

-----------------------------------------------------------------------------
(***************************************************************************)
(* The threads.                                                            *)
(***************************************************************************)
\* The states a thread goes on to have the fields of the state it was in.
LEMMA OnwardFields ==
  ASSUME NEW q, {"pc", "tried"} \subseteq DOMAIN q, NEW pool
  PROVE  /\ {"pc", "tried"} \subseteq DOMAIN Looking(q, pool)
         /\ {"pc", "tried"} \subseteq DOMAIN Onward(q)
         /\ {"pc", "tried"} \subseteq DOMAIN Idle
<1>1. {"pc", "tried"} \subseteq DOMAIN Idle
  BY DEF Idle
<1>2. ASSUME NEW p
      PROVE  {"pc", "tried"} \subseteq DOMAIN Looking(q, p)
  BY DEF Looking
<1>3. {"pc", "tried"} \subseteq DOMAIN Chosen(q)
  BY <1>1 DEF Chosen
<1>4. {"pc", "tried"} \subseteq DOMAIN Onward(q)
  BY <1>1, <1>2, <1>3 DEF Onward
<1>5. QED
  BY <1>1, <1>2, <1>4

LEMMA FieldsStep == ThreadsKeepFields /\ [Next]_vars => ThreadsKeepFields'
<1> SUFFICES ASSUME ThreadsKeepFields, [Next]_vars
             PROVE  ThreadsKeepFields'
  OBVIOUS
<1>1. ASSUME NEW r \in Requests, NEW q, {"pc", "tried"} \subseteq DOMAIN q, Set(r, q)
      PROVE  ThreadsKeepFields'
  BY <1>1 DEF ThreadsKeepFields, Set
<1>2. ASSUME NEW r \in Requests
      PROVE  {"pc", "tried"} \subseteq DOMAIN request[r]
  BY DEF ThreadsKeepFields
<1>3. {"pc", "tried"} \subseteq DOMAIN Idle
  BY DEF Idle
<1>4. ASSUME NEW r \in Requests, NEW a, Generate(r, a)
      PROVE  ThreadsKeepFields'
  <2>1. {"pc", "tried"} \subseteq DOMAIN [Idle EXCEPT !.ask = a]
    BY <1>3
  <2>2. {"pc", "tried"} \subseteq DOMAIN Onward(Looking([Idle EXCEPT !.ask = a], "first"))
    BY <2>1, OnwardFields
  <2>3. QED
    BY <1>1, <1>4, <2>2 DEF Generate
<1>5. ASSUME NEW r \in Requests, Look(r)
      PROVE  ThreadsKeepFields'
  <2> DEFINE q == [request[r] EXCEPT
                     !.left = @ \ {Min(request[r].left)},
                     !.found = IF Available(Registry[Min(request[r].left)])
                               THEN @ \cup {Registry[Min(request[r].left)]} ELSE @]
  <2>1. {"pc", "tried"} \subseteq DOMAIN q
    BY <1>2
  <2>2. Set(r, Onward(q))
    BY <1>5 DEF Look
  <2> HIDE DEF q
  <2>3. QED
    BY <1>1, <2>1, <2>2, OnwardFields
<1>6. ASSUME NEW r \in Requests, Begin(r)
      PROVE  ThreadsKeepFields'
  <2>1. {"pc", "tried"} \subseteq DOMAIN [request[r] EXCEPT !.pc = "call"]
    BY <1>2
  <2>2. QED
    BY <1>1, <1>6, <2>1 DEF Begin
<1>7. ASSUME NEW r \in Requests, Ended(r)
      PROVE  ThreadsKeepFields'
  <2>1. ASSUME NEW pool
        PROVE  {"pc", "tried"} \subseteq DOMAIN Retried(request[r], pool)
    <3>1. PICK q : q = Looking(request[r], pool)
      OBVIOUS
    <3>2. {"pc", "tried"} \subseteq DOMAIN Onward(q)
      BY <1>2, <3>1, OnwardFields
    <3>3. QED
      BY <1>3, <3>1, <3>2 DEF Retried
  <2>2. QED
    BY <1>1, <1>3, <1>7, <2>1 DEF Ended, Answered, Failed, Raised
<1>8. CASE Tick \/ UNCHANGED vars
  BY <1>8 DEF Tick, vars, ThreadsKeepFields
<1>9. QED
  BY <1>4, <1>5, <1>6, <1>7, <1>8 DEF Next, Step, Ended

-----------------------------------------------------------------------------
(***************************************************************************)
(* The invariant.                                                          *)
(***************************************************************************)
Inv == BreakersTypeOK /\ ThreadsKeepFields /\ ProbeAccounted

LEMMA InvInit == Init => Inv
<1>1. Init => BreakersTypeOK
  BY HealthAssumption DEF Init, HealthInit, BreakersTypeOK, Fresh, Breaker
<1>2. Init => ThreadsKeepFields
  BY DEF Init, ThreadsKeepFields, Idle
<1>3. Init => ProbeAccounted
  BY DEF Init, HealthInit, ProbeAccounted, Fresh
<1>4. QED
  BY <1>1, <1>2, <1>3 DEF Inv

LEMMA InvStep == Inv /\ [Next]_vars => Inv'
<1> SUFFICES ASSUME Inv, [Next]_vars
             PROVE  BreakersTypeOK' /\ ProbeAccounted'
  BY FieldsStep DEF Inv
<1> DEFINE Goal == BreakersTypeOK' /\ ProbeAccounted'
<1>1. BreakersTypeOK /\ ThreadsKeepFields /\ ProbeAccounted
  BY DEF Inv
\* A step that touches no breaker is taken by no thread in a call.
<1>2. ASSUME UNCHANGED healthVars,
             \A r \in Requests : request'[r] = request[r] \/ request[r].pc # "call"
      PROVE  Goal
  BY <1>1, <1>2 DEF healthVars, BreakersTypeOK, ProbeAccounted, Calling
<1>3. ASSUME NEW r \in Requests, NEW q, Set(r, q), request[r].pc # "call", UNCHANGED healthVars
      PROVE  Goal
  <2>1. \A s \in Requests : request'[s] = request[s] \/ request[s].pc # "call"
    BY <1>1, <1>3 DEF Set, ThreadsKeepFields
  <2>2. QED
    BY <1>2, <1>3, <2>1
<1>4. ASSUME NEW r \in Requests, NEW a, Generate(r, a)
      PROVE  Goal
  BY <1>3, <1>4 DEF Generate
<1>5. ASSUME NEW r \in Requests, Look(r)
      PROVE  Goal
  BY <1>3, <1>5 DEF Look
<1>6. ASSUME NEW r \in Requests, Begin(r)
      PROVE  Goal
  <2>1. PICK p : p = ProviderOf[Last(request[r].tried)]
    OBVIOUS
  <2>2. BeginCall(p) /\ request[r].pc = "begin"
    BY <1>6, <2>1 DEF Begin
  <2>3. BreakersTypeOK' /\ \A q \in Providers \ {p} : breaker'[q].probing = breaker[q].probing
    BY <1>1, <2>2, BeginKeepsTypes
  <2>4. request' = [request EXCEPT ![r] = [request[r] EXCEPT !.pc = "call"]]
    BY <1>6 DEF Begin, Set
  <2>5. request'[r].pc = "call" /\ request'[r].tried = request[r].tried
    BY <1>1, <2>4 DEF ThreadsKeepFields
  <2>6. \A s \in Requests \ {r} : request'[s] = request[s]
    BY <1>1, <2>4 DEF ThreadsKeepFields
  <2>7. Calling(r, p)'
    BY <2>1, <2>5 DEF Calling
  <2>8. \A q \in Providers, s \in Requests : Calling(s, q) => Calling(s, q)'
    BY <2>2, <2>6 DEF Calling
  <2>9. leaked' = leaked
    BY <2>2 DEF BeginCall
  <2>10. QED
    BY <1>1, <2>3, <2>7, <2>8, <2>9 DEF ProbeAccounted
<1>7. ASSUME NEW r \in Requests, Ended(r)
      PROVE  Goal
  <2>1. PICK p : p = ProviderOf[Last(request[r].tried)]
    OBVIOUS
  <2>2. Settled(p)
    BY <1>1, <1>7, <2>1, EndSettles
  <2>3. \E q : Set(r, q)
    BY <1>7 DEF Ended, Answered, Failed, Raised
  <2>4. \A s \in Requests \ {r} : request'[s] = request[s]
    BY <1>1, <2>3 DEF Set, ThreadsKeepFields
  <2>5. \A q \in Providers \ {p}, s \in Requests : Calling(s, q) => Calling(s, q)'
    BY <2>1, <2>4 DEF Calling
  <2>6. QED
    BY <1>1, <2>2, <2>5 DEF Settled, ProbeAccounted
<1>8. CASE Tick
  <2>1. /\ BreakersTypeOK'
        /\ \A p \in Providers : breaker'[p].probing = breaker[p].probing
        /\ leaked' = leaked /\ request' = request
    BY <1>1, <1>8, TickSettles DEF Tick, HealthTick
  <2>2. QED
    BY <1>1, <2>1 DEF ProbeAccounted, Calling
<1>9. CASE UNCHANGED vars
  BY <1>2, <1>9 DEF vars
<1>10. QED
  BY <1>4, <1>5, <1>6, <1>7, <1>8, <1>9 DEF Next, Step, Ended

\* However calls overlap and fail, the breakers keep their types, their failure
\* counts within the threshold (record_failure, record_success).
THEOREM BreakersCorrect == Spec => []BreakersTypeOK
  BY InvInit, InvStep, PTL DEF Spec, Inv

\* A breaker that says its probe is in flight has a thread calling its provider, or
\* lost a probe: none is left behind by overlapping calls (begin_call, _release_probe).
THEOREM ProbesAccounted == Spec => []ProbeAccounted
  BY InvInit, InvStep, PTL DEF Spec, Inv

-----------------------------------------------------------------------------
(***************************************************************************)
(* What a thread has found and asked.                                      *)
(***************************************************************************)
\* A looking thread's candidates suit its question; it has asked nobody yet, or one
\* model whose pool was another.
Least(q) == IF q.pool = "higher" THEN RankOf[Head(q.tried)] + 1 ELSE 0
Asked(q) == IF q.pool = "first" THEN 0 ELSE 1
LooksWell(q) ==
  /\ Len(q.tried) = Asked(q)
  /\ \A i \in DOMAIN q.tried : RankOf[q.tried[i]] \in q.ask.classes
  /\ \A i \in q.left : Suitable(q.ask, Registry[i], Least(q), q.tried)
  /\ \A m \in q.found : Suitable(q.ask, m, Least(q), q.tried)

\* A thread about to ask, or asking, has chosen a model that suits its question.
AsksWell(q) ==
  /\ Len(q.tried) = Asked(q) + 1
  /\ \A i \in DOMAIN q.tried : RankOf[q.tried[i]] \in q.ask.classes
  /\ IsInjective(q.tried)
  /\ q.pool = "higher" => RankOf[q.tried[2]] > RankOf[q.tried[1]]

GoodThread(q) ==
  /\ q \in Request /\ IsFiniteSet(q.found)
  /\ q.pc = "look" => q.left # {} /\ LooksWell(q)
  /\ q.pc \in {"begin", "call"} => AsksWell(q)

\* The order of a pool tells any two models apart: by provider, by class, by score.
LEMMA PreferredOrder ==
  ASSUME NEW q, q.ask \in Asks
  PROVE  /\ \A m, n \in Models : m # n => Preferred(q, m, n) \/ Preferred(q, n, m)
         /\ \A l, m, n \in Models :
              Preferred(q, l, m) /\ Preferred(q, m, n) => Preferred(q, l, n)
<1> DEFINE score == ScoreOf[q.ask.task]
           same == [x \in Models |-> q.tried # <<>> /\ ProviderOf[x] = ProviderOf[Head(q.tried)]]
<1>1. score \in [Models -> Nat] /\ \A m, n \in Models : score[m] = score[n] => m = n
  BY GatewayAssumption DEF IsInjective
<1>2. same \in [Models -> BOOLEAN] /\ RankOf \in [Models -> 0 .. 2]
  BY GatewayAssumption
<1>3. ASSUME NEW m \in Models, NEW n \in Models
      PROVE  Preferred(q, m, n) <=>
               IF same[m] = same[n]
               THEN RankOf[m] < RankOf[n] \/ (RankOf[m] = RankOf[n] /\ score[m] > score[n])
               ELSE ~same[m]
  BY DEF Preferred, Cheaper
<1> HIDE DEF score, same
<1>4. QED
  BY <1>1, <1>2, <1>3

\* So a pool that is not empty has a best model (generate: pool[0], retry_pool[0]).
LEMMA BestExists ==
  ASSUME NEW q, q.ask \in Asks, NEW F \in SUBSET Models, IsFiniteSet(F), F # {}
  PROVE  \E m \in F : \A n \in F \ {m} : Preferred(q, m, n)
<1> DEFINE G == {U \in SUBSET F : U # {} => \E m \in U : \A n \in U \ {m} : Preferred(q, m, n)}
<1>1. ASSUME NEW U \in SUBSET F, \A V \in SUBSET U : V # U => V \in G
      PROVE  U \in G
  <2>1. CASE U = {}
    BY <2>1
  <2>2. CASE U # {}
    <3>1. PICK x \in U : TRUE
      BY <2>2
    <3>2. U \ {x} \in G
      BY <1>1, <3>1
    <3>3. CASE U \ {x} = {}
      BY <3>1, <3>3
    <3>4. CASE U \ {x} # {}
      <4>1. PICK m \in U \ {x} : \A n \in (U \ {x}) \ {m} : Preferred(q, m, n)
        BY <3>2, <3>4
      <4>2. Preferred(q, m, x) \/ Preferred(q, x, m)
        BY <3>1, <4>1, PreferredOrder
      <4>3. CASE Preferred(q, m, x)
        BY <4>1, <4>3
      <4>4. CASE Preferred(q, x, m)
        BY <3>1, <4>1, <4>4, PreferredOrder
      <4>5. QED
        BY <4>2, <4>3, <4>4
    <3>5. QED
      BY <3>3, <3>4
  <2>3. QED
    BY <2>1, <2>2
<1> HIDE DEF G
<1>2. F \in G
  BY <1>1, SubsetsByInduction
<1>3. QED
  BY <1>2 DEF G

LEMMA BestChosen ==
  ASSUME NEW q, q.ask \in Asks, q.found \in SUBSET Models, IsFiniteSet(q.found), q.found # {}
  PROVE  Best(q) \in q.found
<1>1. \E m \in q.found : \A n \in q.found \ {m} : Preferred(q, m, n)
  BY BestExists
<1>2. QED
  BY <1>1 DEF Best

LEMMA IdleGood == GoodThread(Idle)
<1>1. Idle.ask \in Asks
  BY GatewayAssumption DEF Idle
<1>2. Idle \in Request
  BY <1>1 DEF Idle, Request, Pools
<1>3. IsFiniteSet(Idle.found)
  BY FS_EmptySet DEF Idle
<1>4. QED
  BY <1>2, <1>3 DEF Idle, GoodThread

\* A thread that turns to a pool has nothing found and looks at what suits (eligible_models).
LEMMA LookingWell ==
  ASSUME NEW q \in Request, NEW pool \in Pools,
         Len(q.tried) = IF pool = "first" THEN 0 ELSE 1,
         \A i \in DOMAIN q.tried : RankOf[q.tried[i]] \in q.ask.classes
  PROVE  LET l == Looking(q, pool) IN
         /\ l \in Request /\ l.pc = "look" /\ l.found = {} /\ l.pool = pool
         /\ LooksWell(l)
<1> DEFINE least == IF pool = "higher" THEN RankOf[Head(q.tried)] + 1 ELSE 0
           left == Candidates(q.ask, least, q.tried)
<1>1. left \in SUBSET (DOMAIN Registry)
      /\ \A i \in left : Suitable(q.ask, Registry[i], least, q.tried)
  BY DEF Candidates
<1>2. Looking(q, pool) = [q EXCEPT !.pc = "look", !.pool = pool, !.found = {}, !.left = left]
  BY DEF Looking
<1> HIDE DEF left
<1>3. /\ Looking(q, pool) \in Request /\ Looking(q, pool).pc = "look"
      /\ Looking(q, pool).found = {} /\ Looking(q, pool).pool = pool
      /\ Looking(q, pool).left = left /\ Looking(q, pool).tried = q.tried
      /\ Looking(q, pool).ask = q.ask
  BY <1>1, <1>2 DEF Request
<1>4. QED
  BY <1>1, <1>3 DEF LooksWell, Least, Asked

\* Whatever a look ends in, the thread's state is sound: a pool with candidates left, the
\* other pool in place of an empty one, the best model found, or none.
LEMMA OnwardGood ==
  ASSUME NEW q \in Request, IsFiniteSet(q.found), q.pc = "look", LooksWell(q)
  PROVE  GoodThread(Onward(q))
<1>0. /\ q.ask \in Asks /\ q.found \in SUBSET Models /\ q.tried \in Seq(Models)
      /\ q.pool \in Pools /\ Len(q.tried) \in Nat
  BY DEF Request
<1>1. CASE q.left # {}
  BY <1>1 DEF Onward, GoodThread
<1>2. CASE q.left = {} /\ q.pool = "higher" /\ q.found = {}
  <2> DEFINE other == Looking(q, "other")
  <2>1. other \in Request /\ other.pc = "look" /\ other.found = {} /\ LooksWell(other)
    BY <1>2, LookingWell DEF LooksWell, Asked, Pools
  <2>2. Onward(q) = IF other.left = {} THEN Idle ELSE other
    BY <1>2 DEF Onward
  <2> HIDE DEF other
  <2>3. QED
    BY <2>1, <2>2, IdleGood, FS_EmptySet DEF GoodThread
<1>3. CASE q.left = {} /\ ~(q.pool = "higher" /\ q.found = {})
  <2>1. Onward(q) = Chosen(q)
    BY <1>3 DEF Onward
  <2>2. CASE q.found = {}
    BY <2>1, <2>2, IdleGood DEF Chosen
  <2>3. CASE q.found # {}
    <3>1. PICK m \in Models : m = Best(q) /\ Suitable(q.ask, m, Least(q), q.tried)
      BY <1>0, <2>3, BestChosen DEF LooksWell
    <3> DEFINE tried == Append(q.tried, m)
               e == [q EXCEPT !.pc = "begin", !.tried = tried, !.found = {}]
    <3>2. /\ tried \in Seq(Models) /\ Len(tried) = Len(q.tried) + 1
          /\ DOMAIN tried = 1 .. Len(tried)
          /\ tried[Len(q.tried) + 1] = m
          /\ \A i \in 1 .. Len(q.tried) : tried[i] = q.tried[i]
      BY <1>0
    <3>3. Onward(q) = e
      BY <2>1, <2>3, <3>1 DEF Chosen
    <3> HIDE DEF tried
    <3>4. /\ e \in Request /\ e.pc = "begin" /\ e.found = {} /\ e.pool = q.pool
          /\ e.tried = tried /\ e.ask = q.ask
      BY <3>2 DEF Request
    <3>5. \A i \in DOMAIN tried : RankOf[tried[i]] \in q.ask.classes
      BY <1>0, <3>1, <3>2 DEF LooksWell, Suitable
    <3>6. IsInjective(tried)
      <4>1. \A i \in 1 .. Len(q.tried) : tried[i] # m
        BY <1>0, <3>1, <3>2 DEF Suitable
      <4>2. Len(q.tried) \in {0, 1}
        BY DEF LooksWell, Asked
      <4>3. QED
        BY <3>2, <4>1, <4>2 DEF IsInjective
    <3>7. ASSUME q.pool = "higher"
          PROVE  RankOf[tried[2]] > RankOf[tried[1]]
      <4>1. Len(q.tried) = 1 /\ q.tried[1] \in Models
        BY <1>0, <3>7 DEF LooksWell, Asked
      <4>2. tried[1] = q.tried[1] /\ tried[2] = m /\ Head(q.tried) = q.tried[1]
        BY <1>0, <3>2, <4>1
      <4>3. RankOf[m] >= RankOf[q.tried[1]] + 1
        BY <3>1, <3>7, <4>2 DEF Suitable, Least
      <4>4. RankOf[m] \in Int /\ RankOf[q.tried[1]] \in Int
        BY <4>1, GatewayAssumption
      <4>5. QED
        BY <4>2, <4>3, <4>4
    <3>8. AsksWell(e)
      BY <3>2, <3>4, <3>5, <3>6, <3>7 DEF AsksWell, LooksWell, Asked
    <3> HIDE DEF e
    <3>9. QED
      BY <3>3, <3>4, <3>8, FS_EmptySet DEF GoodThread
  <2>4. QED
    BY <2>2, <2>3
<1>4. QED
  BY <1>1, <1>2, <1>3

\* The states of the threads, and what an action makes of one of them.
Threads == request \in [Requests -> Request] /\ \A r \in Requests : GoodThread(request[r])

LEMMA SetKeepsThreads ==
  ASSUME Threads, NEW r \in Requests, NEW q, Set(r, q), GoodThread(q)
  PROVE  Threads'
BY DEF Threads, Set, GoodThread

LEMMA GenerateGood ==
  ASSUME NEW a \in Asks
  PROVE  GoodThread(Onward(Looking([Idle EXCEPT !.ask = a], "first")))
<1> DEFINE q == [Idle EXCEPT !.ask = a]
<1>0. Idle \in Request /\ Idle.tried = <<>> /\ "first" \in Pools
  BY IdleGood DEF GoodThread, Idle, Pools
<1>1. q \in Request /\ q.tried = <<>> /\ "first" \in Pools
  BY <1>0 DEF Request
<1> HIDE DEF q
<1>2. /\ Looking(q, "first") \in Request /\ Looking(q, "first").pc = "look"
      /\ Looking(q, "first").found = {} /\ LooksWell(Looking(q, "first"))
  <2>1. Len(q.tried) = 0 /\ DOMAIN q.tried = {}
    BY <1>1
  <2>2. QED
    BY <1>1, <2>1, LookingWell
<1>3. QED
  BY <1>2, OnwardGood, FS_EmptySet DEF q

\* The model looked at is one of those left, and it is in the registry.
LEMMA NextPlace ==
  ASSUME NEW left \in SUBSET (DOMAIN Registry), left # {}
  PROVE  Min(left) \in left /\ Registry[Min(left)] \in Models
<1>1. Registry \in Seq(Models) /\ left \in SUBSET Nat
  BY GatewayAssumption
<1>2. \E i \in left : \A j \in left : i <= j
  BY <1>1, LeastNumber
<1>3. Min(left) \in left
  BY <1>2 DEF Min
<1>4. QED
  BY <1>1, <1>3

LEMMA LookGood ==
  ASSUME NEW q, GoodThread(q), q.pc = "look", NEW found,
         found \in {q.found, q.found \cup {Registry[Min(q.left)]}}
  PROVE  GoodThread(Onward([q EXCEPT !.left = q.left \ {Min(q.left)}, !.found = found]))
<1>1. q \in Request /\ IsFiniteSet(q.found) /\ q.left # {} /\ LooksWell(q)
  BY DEF GoodThread
<1>2. PICK i : i = Min(q.left)
  OBVIOUS
<1>3. i \in q.left /\ Registry[i] \in Models /\ Suitable(q.ask, Registry[i], Least(q), q.tried)
  BY <1>1, <1>2, NextPlace DEF Request, LooksWell
<1>4. /\ found \in SUBSET Models /\ IsFiniteSet(found)
      /\ \A m \in found : Suitable(q.ask, m, Least(q), q.tried)
  <2>1. IsFiniteSet(q.found \cup {Registry[i]})
    BY <1>1, FS_AddElement
  <2>2. QED
    BY <1>1, <1>2, <1>3, <2>1 DEF Request, LooksWell
<1> DEFINE n == [q EXCEPT !.left = q.left \ {i}, !.found = found]
<1>5. /\ n \in Request /\ n.pc = "look" /\ n.found = found /\ n.left = q.left \ {i}
      /\ n.tried = q.tried /\ n.ask = q.ask /\ n.pool = q.pool
  BY <1>1, <1>4 DEF Request
<1> HIDE DEF n
<1>6. LooksWell(n)
  BY <1>1, <1>4, <1>5 DEF LooksWell, Least, Asked
<1>7. GoodThread(Onward(n))
  BY <1>4, <1>5, <1>6, OnwardGood
<1>8. QED
  BY <1>2, <1>7 DEF n

\* After a first failure another pool is looked through, after the second there is none.
LEMMA RetriedGood ==
  ASSUME NEW q, GoodThread(q), q.pc = "call", NEW pool \in {"higher", "other"}
  PROVE  GoodThread(Retried(q, pool))
<1>1. q \in Request /\ AsksWell(q)
  BY DEF GoodThread
<1>2. Len(q.tried) \in {1, 2}
  BY <1>1 DEF AsksWell, Asked
<1>3. CASE Len(q.tried) < MaxTries
  <2>1. Len(q.tried) = 1
    BY <1>2, <1>3 DEF MaxTries
  <2>2. /\ Looking(q, pool) \in Request /\ Looking(q, pool).pc = "look"
        /\ Looking(q, pool).found = {} /\ LooksWell(Looking(q, pool))
    BY <1>1, <2>1, LookingWell DEF AsksWell, Pools
  <2>3. GoodThread(Onward(Looking(q, pool)))
    BY <2>2, OnwardGood, FS_EmptySet
  <2>4. QED
    BY <1>3, <2>3 DEF Retried
<1>4. CASE ~(Len(q.tried) < MaxTries)
  BY <1>4, IdleGood DEF Retried
<1>5. QED
  BY <1>3, <1>4

LEMMA LastType ==
  ASSUME NEW M, NEW s \in Seq(M), Len(s) > 0
  PROVE  Last(s) \in M
<1>1. s[Len(s)] \in M
  OBVIOUS
<1>2. QED
  BY <1>1 DEF Last

\* The model that a thread is asking, or about to ask.
LEMMA AskedModel ==
  ASSUME Threads, NEW r \in Requests, request[r].pc \in {"begin", "call"}
  PROVE  Last(request[r].tried) \in Models /\ ProviderOf[Last(request[r].tried)] \in Providers
<1>1. request[r] \in Request /\ AsksWell(request[r])
  BY DEF Threads, GoodThread
<1>2. request[r].tried \in Seq(Models) /\ Len(request[r].tried) \in 1 .. 2
  BY <1>1 DEF Request, AsksWell, Asked
<1>3. Last(request[r].tried) \in Models
  BY <1>2, LastType
<1>4. QED
  BY <1>3, HealthAssumption

LEMMA ThreadsStep == Threads /\ [Next]_vars => Threads'
<1> SUFFICES ASSUME Threads, [Next]_vars PROVE Threads'
  OBVIOUS
<1>1. ASSUME NEW r \in Requests, NEW a \in Asks, Generate(r, a)
      PROVE  Threads'
  BY <1>1, GenerateGood, SetKeepsThreads DEF Generate
<1>2. ASSUME NEW r \in Requests, Look(r)
      PROVE  Threads'
  <2> DEFINE q == request[r]
             m == Registry[Min(q.left)]
             found == IF Available(m) THEN q.found \cup {m} ELSE q.found
  <2>1. GoodThread(q) /\ q.pc = "look"
    BY <1>2 DEF Look, Threads
  <2>2. Set(r, Onward([q EXCEPT !.left = q.left \ {Min(q.left)}, !.found = found]))
    BY <1>2, <2>1 DEF Look, GoodThread, Request
  <2>3. found \in {q.found, q.found \cup {Registry[Min(q.left)]}}
    OBVIOUS
  <2> HIDE DEF q, m, found
  <2>4. GoodThread(Onward([q EXCEPT !.left = q.left \ {Min(q.left)}, !.found = found]))
    BY <2>1, <2>3, LookGood
  <2>5. QED
    BY <2>2, <2>4, SetKeepsThreads
<1>3. ASSUME NEW r \in Requests, Begin(r)
      PROVE  Threads'
  <2> DEFINE q == request[r]
  <2>1. GoodThread(q) /\ q.pc = "begin" /\ Set(r, [q EXCEPT !.pc = "call"])
    BY <1>3 DEF Begin, Threads
  <2> HIDE DEF q
  <2>2. GoodThread([q EXCEPT !.pc = "call"])
    BY <2>1 DEF GoodThread, Request, AsksWell, Asked
  <2>3. QED
    BY <2>1, <2>2, SetKeepsThreads
<1>4. ASSUME NEW r \in Requests, Ended(r)
      PROVE  Threads'
  <2>1. GoodThread(request[r]) /\ request[r].pc = "call"
    BY <1>4 DEF Ended, Answered, Failed, Raised, Threads
  <2>2. \/ Set(r, Idle)
        \/ \E pool \in {"higher", "other"} : Set(r, Retried(request[r], pool))
    BY <1>4 DEF Ended, Answered, Failed, Raised
  <2>3. QED
    BY <2>1, <2>2, IdleGood, RetriedGood, SetKeepsThreads
<1>5. CASE Tick \/ UNCHANGED vars
  BY <1>5 DEF Tick, vars, Threads
<1>6. QED
  BY <1>1, <1>2, <1>3, <1>4, <1>5 DEF Next, Step, Ended

-----------------------------------------------------------------------------
(***************************************************************************)
(* Types.                                                                  *)
(***************************************************************************)
RestTypes ==
  /\ cooling \in [Models -> Nat]
  /\ \A m \in Models : cooling[m] = 0 \/ \E t \in CoolTicks : cooling[m] <= t
  /\ disabled \in SUBSET Models
  /\ leaked \in SUBSET Providers
  /\ late \in [Providers -> SUBSET Requests]

LEMMA RestTypesStep == Threads /\ RestTypes /\ [Next]_vars => RestTypes'
<1> SUFFICES ASSUME Threads, RestTypes, [Next]_vars PROVE RestTypes'
  OBVIOUS
<1>1. CoolTicks \subseteq Nat
  BY HealthAssumption
<1>2. ASSUME NEW r \in Requests, (\E a \in Asks : Generate(r, a)) \/ Look(r)
      PROVE  RestTypes'
  BY <1>2 DEF Generate, Look, healthVars, RestTypes
<1>3. ASSUME NEW r \in Requests, Begin(r)
      PROVE  RestTypes'
  BY <1>3 DEF Begin, BeginCall, RestTypes
<1>4. ASSUME NEW r \in Requests, Ended(r)
      PROVE  RestTypes'
  <2>1. PICK m \in Models : m = Last(request[r].tried) /\ ProviderOf[m] \in Providers
    BY <1>4, AskedModel DEF Ended, Answered, Failed, Raised
  <2>2. late' \in [Providers -> SUBSET Requests]
    BY <1>4 DEF Ended, Answered, Failed, Raised, Forget, RestTypes
  <2>3. CASE Answered(r)
    BY <2>1, <2>2, <2>3 DEF Answered, RecordSuccess, RestTypes
  <2>4. CASE Raised(r)
    BY <2>1, <2>2, <2>4 DEF Raised, LeaveProbe, RestTypes
  <2>5. CASE Failed(r)
    <3>1. ASSUME NEW ticks \in CoolTicks, RecordRateLimited(m, ticks)
          PROVE  RestTypes'
      BY <1>1, <2>1, <2>2, <3>1 DEF RecordRateLimited, ReleaseProbe, RestTypes
    <3>2. CASE RecordRejected(m) \/ \E auth \in BOOLEAN : RecordFault(m, auth)
      BY <2>1, <2>2, <3>2 DEF RecordRejected, ReleaseProbe, RecordFault, RestTypes
    <3>3. CASE RecordNonZeroPrice(m)
      BY <2>1, <2>2, <3>3 DEF RecordNonZeroPrice, LeaveProbe, RestTypes
    <3>4. QED
      BY <2>1, <2>5, <3>1, <3>2, <3>3 DEF Failed
  <2>6. QED
    BY <1>4, <2>3, <2>4, <2>5 DEF Ended
<1>5. CASE Tick
  <2>1. ASSUME NEW m \in Models
        PROVE  /\ cooling'[m] \in Nat
               /\ cooling'[m] = 0 \/ \E t \in CoolTicks : cooling'[m] <= t
    BY <1>1, <1>5 DEF Tick, HealthTick, RestTypes
  <2>2. QED
    BY <1>5, <2>1 DEF Tick, HealthTick, Forget, RestTypes
<1>6. CASE UNCHANGED vars
  BY <1>6 DEF vars, healthVars, RestTypes
<1>7. QED
  BY <1>2, <1>3, <1>4, <1>5, <1>6 DEF Next, Step, Ended

LEMMA ThreadsInit == Init => Threads /\ RestTypes
<1> SUFFICES ASSUME Init PROVE Threads /\ RestTypes
  OBVIOUS
<1>1. Threads
  BY IdleGood DEF Init, Threads, GoodThread
<1>2. RestTypes
  BY DEF Init, HealthInit, RestTypes
<1>3. QED
  BY <1>1, <1>2

\* Every breaker, cooldown and thread keeps its type, the state of a thread in every
\* phase of generate and _attempt included.
THEOREM GatewayTypes == Spec => []TypeOK
<1>1. Init => Inv /\ Threads /\ RestTypes
  BY InvInit, ThreadsInit
<1>2. Inv /\ Threads /\ RestTypes /\ [Next]_vars => (Inv /\ Threads /\ RestTypes)'
  BY InvStep, ThreadsStep, RestTypesStep
<1>3. Inv /\ Threads /\ RestTypes => TypeOK
  BY DEF Inv, BreakersTypeOK, Threads, RestTypes, HealthTypeOK, TypeOK
<1>4. QED
  BY <1>1, <1>2, <1>3, PTL DEF Spec

\* A plan's requests reach its own classes only, no model twice, and after a reply that
\* failed validation a higher class (eligible_models, generate).
THEOREM AttemptsHold == Spec => []AttemptsAsPromised
<1>1. Threads => AttemptsAsPromised
  <2> SUFFICES ASSUME Threads, NEW r \in Requests, request[r].pc # "idle"
               PROVE  LET q == request[r] IN
                      /\ Len(q.tried) <= MaxTries
                      /\ \A i \in DOMAIN q.tried : RankOf[q.tried[i]] \in q.ask.classes
                      /\ IsInjective(q.tried)
                      /\ (q.pool = "higher" /\ Len(q.tried) = 2)
                           => RankOf[q.tried[2]] > RankOf[q.tried[1]]
    BY DEF AttemptsAsPromised, Busy
  <2> DEFINE q == request[r]
  <2>1. q \in Request /\ q.pc \in {"look", "begin", "call"} /\ GoodThread(q)
    BY DEF Threads, Request
  <2> HIDE DEF q
  <2>2. CASE q.pc = "look"
    <3>1. LooksWell(q) /\ q.tried \in Seq(Models) /\ Len(q.tried) \in {0, 1}
      BY <2>1, <2>2 DEF GoodThread, LooksWell, Asked, Request
    <3>2. IsInjective(q.tried)
      BY <3>1 DEF IsInjective
    <3>3. QED
      BY <3>1, <3>2 DEF LooksWell, MaxTries, q
  <2>3. CASE q.pc \in {"begin", "call"}
    BY <2>1, <2>3 DEF GoodThread, AsksWell, Asked, MaxTries, q
  <2>4. QED
    BY <2>1, <2>2, <2>3
<1>2. QED
  BY <1>1, ThreadsInit, ThreadsStep, PTL DEF Spec

-----------------------------------------------------------------------------
(***************************************************************************)
(* A provider is left alone while its breaker is open.                     *)
(***************************************************************************)
\* Whoever called a provider late in this open window has not chosen it again.
CalledLateOnce ==
  \A p \in Providers : \A r \in late[p] :
    /\ Blocked(p)
    /\ request[r].pc = "look" => \A m \in request[r].found : ProviderOf[m] # p
    /\ request[r].pc = "begin" => ProviderOf[Last(request[r].tried)] # p

\* Thread state q has found no model of provider p and is not about to ask one.
Avoids(q, p) ==
  /\ q.pc = "look" => \A m \in q.found : ProviderOf[m] # p
  /\ q.pc = "begin" => ProviderOf[Last(q.tried)] # p

LEMMA OnwardAvoids ==
  ASSUME NEW q \in Request, IsFiniteSet(q.found), q.pc = "look", LooksWell(q), NEW p,
         \A m \in q.found : ProviderOf[m] # p
  PROVE  Avoids(Onward(q), p)
<1>0. /\ q.ask \in Asks /\ q.found \in SUBSET Models /\ q.tried \in Seq(Models)
      /\ q.pool \in Pools
  BY DEF Request
<1>1. Avoids(Idle, p)
  BY DEF Idle, Avoids
<1>2. CASE q.left # {}
  BY <1>2 DEF Onward, Avoids
<1>3. CASE q.left = {} /\ q.pool = "higher" /\ q.found = {}
  <2> DEFINE other == Looking(q, "other")
  <2>1. other.pc = "look" /\ other.found = {}
    BY <1>3, LookingWell DEF LooksWell, Asked, Pools
  <2>2. Onward(q) = IF other.left = {} THEN Idle ELSE other
    BY <1>3 DEF Onward
  <2> HIDE DEF other
  <2>3. QED
    BY <1>1, <2>1, <2>2 DEF Avoids
<1>4. CASE q.left = {} /\ ~(q.pool = "higher" /\ q.found = {})
  <2>1. Onward(q) = Chosen(q)
    BY <1>4 DEF Onward
  <2>2. CASE q.found = {}
    BY <1>1, <2>1, <2>2 DEF Chosen
  <2>3. CASE q.found # {}
    <3>1. PICK m \in q.found : m = Best(q)
      BY <1>0, <2>3, BestChosen
    <3> DEFINE tried == Append(q.tried, m)
    <3>2. Last(tried) = m
      <4>1. tried[Len(tried)] = m
        BY <1>0
      <4>2. QED
        BY <4>1 DEF Last
    <3>3. Onward(q) = [q EXCEPT !.pc = "begin", !.tried = tried, !.found = {}]
      BY <2>1, <2>3, <3>1 DEF Chosen
    <3> HIDE DEF tried
    <3>4. Onward(q).pc = "begin" /\ Onward(q).tried = tried
      BY <3>3 DEF Request
    <3>5. QED
      BY <3>1, <3>2, <3>4 DEF Avoids
  <2>4. QED
    BY <2>2, <2>3
<1>5. QED
  BY <1>2, <1>3, <1>4

\* A thread that turns to a new pool, or to none, has chosen nobody yet.
LEMMA GenerateAvoids ==
  ASSUME NEW a \in Asks, NEW p
  PROVE  Avoids(Onward(Looking([Idle EXCEPT !.ask = a], "first")), p)
<1> DEFINE q == [Idle EXCEPT !.ask = a]
<1>0. Idle \in Request /\ Idle.tried = <<>> /\ "first" \in Pools
  BY IdleGood DEF GoodThread, Idle, Pools
<1>1. q \in Request /\ q.tried = <<>>
  BY <1>0 DEF Request
<1> HIDE DEF q
<1>2. /\ Looking(q, "first") \in Request /\ Looking(q, "first").pc = "look"
      /\ Looking(q, "first").found = {} /\ LooksWell(Looking(q, "first"))
  <2>1. Len(q.tried) = 0 /\ DOMAIN q.tried = {}
    BY <1>1
  <2>2. QED
    BY <1>0, <1>1, <2>1, LookingWell
<1>3. QED
  BY <1>2, OnwardAvoids, FS_EmptySet DEF q

LEMMA RetriedAvoids ==
  ASSUME NEW q, GoodThread(q), q.pc = "call", NEW pool \in {"higher", "other"}, NEW p
  PROVE  Avoids(Retried(q, pool), p)
<1>1. q \in Request /\ AsksWell(q)
  BY DEF GoodThread
<1>2. Len(q.tried) \in {1, 2}
  BY <1>1 DEF AsksWell, Asked
<1>3. CASE Len(q.tried) < MaxTries
  <2>1. Len(q.tried) = 1
    BY <1>2, <1>3 DEF MaxTries
  <2>2. /\ Looking(q, pool) \in Request /\ Looking(q, pool).pc = "look"
        /\ Looking(q, pool).found = {} /\ LooksWell(Looking(q, pool))
    BY <1>1, <2>1, LookingWell DEF AsksWell, Pools
  <2>3. Avoids(Onward(Looking(q, pool)), p)
    BY <2>2, OnwardAvoids, FS_EmptySet
  <2>4. QED
    BY <1>3, <2>3 DEF Retried
<1>4. CASE ~(Len(q.tried) < MaxTries)
  BY <1>4 DEF Retried, Avoids, Idle
<1>5. QED
  BY <1>3, <1>4

\* A blocked provider's models are not available, so a look finds none of them.
LEMMA LookAvoids ==
  ASSUME Threads, NEW r \in Requests, Look(r), NEW p, Blocked(p), Avoids(request[r], p)
  PROVE  Avoids(request'[r], p)
<1> DEFINE q == request[r]
           m == Registry[Min(q.left)]
           found == IF Available(m) THEN q.found \cup {m} ELSE q.found
           n == [q EXCEPT !.left = q.left \ {Min(q.left)}, !.found = found]
<1>1. q \in Request /\ q.pc = "look" /\ IsFiniteSet(q.found) /\ q.left # {} /\ LooksWell(q)
  BY DEF Look, Threads, GoodThread
<1>2. Min(q.left) \in q.left /\ m \in Models
  BY <1>1, NextPlace DEF Request
<1>3. request'[r] = Onward(n)
  BY <1>1 DEF Look, Set, Threads, Request
<1>4. \A x \in found : ProviderOf[x] # p
  <2>1. Available(m) => ProviderOf[m] # p
    BY DEF Available, ProviderReady
  <2>2. QED
    BY <1>1, <2>1 DEF Avoids
<1>5. found \in SUBSET Models /\ IsFiniteSet(found)
  <2>1. q.found \in SUBSET Models
    BY <1>1 DEF Request
  <2>2. ASSUME NEW x
        PROVE  IsFiniteSet(q.found \cup {x})
    BY <1>1, FS_AddElement
  <2>3. QED
    BY <1>1, <1>2, <2>1, <2>2
<1>6. \A x \in found : Suitable(q.ask, x, Least(q), q.tried)
  BY <1>1, <1>2 DEF LooksWell
<1> HIDE DEF found, m, q
<1>7. /\ n \in Request /\ n.pc = "look" /\ n.found = found /\ n.left = q.left \ {Min(q.left)}
      /\ n.tried = q.tried /\ n.ask = q.ask /\ n.pool = q.pool
  BY <1>1, <1>5 DEF Request
<1> HIDE DEF n
<1>8. LooksWell(n)
  BY <1>1, <1>6, <1>7 DEF LooksWell, Least, Asked
<1>9. QED
  BY <1>3, <1>4, <1>5, <1>7, <1>8, OnwardAvoids

LEMMA CalledLateOnceStep ==
  BreakersTypeOK /\ Threads /\ RestTypes /\ CalledLateOnce /\ [Next]_vars => CalledLateOnce'
<1> SUFFICES ASSUME BreakersTypeOK, Threads, RestTypes, CalledLateOnce, [Next]_vars,
                    NEW p \in Providers, NEW s \in late'[p]
             PROVE  Blocked(p)' /\ Avoids(request'[s], p)
  BY DEF CalledLateOnce, Avoids
<1> DEFINE Goal == Blocked(p)' /\ Avoids(request'[s], p)
<1>0. /\ \A t \in late[p] : t \in Requests /\ Blocked(p) /\ Avoids(request[t], p)
      /\ request \in [Requests -> Request] /\ breaker[p] \in Breaker
  BY DEF CalledLateOnce, Avoids, RestTypes, BreakersTypeOK, Threads
\* Of the threads that have called p late, only the one that takes a step changes.
<1>1. ASSUME NEW r \in Requests, NEW q, Set(r, q), s \in late[p], Blocked(p)',
             s = r => Avoids(q, p)
      PROVE  Goal
  BY <1>0, <1>1 DEF Set
<1>2. ASSUME NEW r \in Requests, NEW a \in Asks, Generate(r, a)
      PROVE  Goal
  <2>1. s \in late[p] /\ Blocked(p)'
    BY <1>0, <1>2 DEF Generate, healthVars, Blocked
  <2>2. QED
    BY <1>1, <1>2, <2>1, GenerateAvoids DEF Generate
<1>3. ASSUME NEW r \in Requests, Look(r)
      PROVE  Goal
  <2>1. s \in late[p] /\ Blocked(p) /\ Blocked(p)'
    BY <1>0, <1>3 DEF Look, healthVars, Blocked
  <2>2. CASE s = r
    BY <1>0, <1>3, <2>1, <2>2, LookAvoids
  <2>3. CASE s # r
    BY <1>0, <1>3, <2>1, <2>3 DEF Look, Set
  <2>4. QED
    BY <2>2, <2>3
<1>4. ASSUME NEW r \in Requests, Begin(r)
      PROVE  Goal
  <2>1. PICK b : b = ProviderOf[Last(request[r].tried)]
    OBVIOUS
  <2>2. /\ BeginCall(b) /\ late' = IF Blocked(b) THEN [late EXCEPT ![b] = @ \cup {r}] ELSE late
        /\ Set(r, [request[r] EXCEPT !.pc = "call"])
    BY <1>4, <2>1 DEF Begin
  <2>3. Blocked(p)' = Blocked(p)
    BY <1>0, <2>2 DEF BeginCall, Blocked, BreakersTypeOK, Breaker
  <2>4. s \in late[p] \/ (s = r /\ p = b /\ Blocked(p))
    BY <2>2 DEF RestTypes
  <2>5. Avoids([request[r] EXCEPT !.pc = "call"], p) /\ request'[r] = [request[r] EXCEPT !.pc = "call"]
    BY <1>0, <2>2 DEF Set, Avoids, Request
  <2>6. QED
    BY <1>0, <1>1, <2>2, <2>3, <2>4, <2>5
<1>5. ASSUME NEW r \in Requests, Ended(r)
      PROVE  Goal
  <2>1. GoodThread(request[r]) /\ request[r].pc = "call"
    BY <1>5 DEF Ended, Answered, Failed, Raised, Threads
  <2>2. Avoids(Idle, p)
    BY DEF Idle, Avoids
  <2>3. PICK q : Set(r, q) /\ Avoids(q, p)
    <3>1. \/ Set(r, Idle)
          \/ \E pool \in {"higher", "other"} : Set(r, Retried(request[r], pool))
      BY <1>5 DEF Ended, Answered, Failed, Raised
    <3>2. QED
      BY <2>1, <2>2, <3>1, RetriedAvoids
  <2>4. s \in late[p] /\ Blocked(p)'
    <3>1. CASE Forget
      BY <3>1 DEF Forget
    <3>2. CASE Raised(r)
      BY <1>0, <3>2 DEF Raised, LeaveProbe, Blocked
    <3>3. QED
      BY <1>5, <3>1, <3>2 DEF Ended, Answered, Failed
  <2>5. QED
    BY <1>1, <2>3, <2>4
<1>6. CASE Tick
  <2>1. s \in late[p] /\ Blocked(p)'
    BY <1>6 DEF Tick, Forget
  <2>2. QED
    BY <1>0, <1>6, <2>1 DEF Tick
<1>7. CASE UNCHANGED vars
  BY <1>0, <1>7 DEF vars, healthVars, Blocked
<1>8. QED
  BY <1>2, <1>3, <1>4, <1>5, <1>6, <1>7 DEF Next, Step, Ended

\* While a provider's breaker is open nobody calls it, except that a request which chose
\* it before the breaker opened does so once (is_available, begin_call).
THEOREM ShieldHolds == Spec => ShieldedWhileOpen
<1> DEFINE Safe == \A r \in Requests :
                     LET p == ProviderOf[Last(request[r].tried)] IN
                     (request[r].pc = "begin" /\ request'[r].pc = "call" /\ Blocked(p))
                       => r \notin late[p]
           SInv == Inv /\ Threads /\ RestTypes /\ CalledLateOnce
<1>1. Init => SInv
  <2>1. Init => CalledLateOnce
    BY DEF Init, CalledLateOnce
  <2>2. QED
    BY <2>1, InvInit, ThreadsInit
<1>2. SInv /\ [Next]_vars => SInv'
  BY InvStep, ThreadsStep, RestTypesStep, CalledLateOnceStep DEF Inv
<1>3. SInv => Safe
  BY AskedModel DEF CalledLateOnce
<1>4. SInv /\ [Next]_vars => [Safe]_vars
  BY <1>3
<1>5. QED
  BY <1>1, <1>2, <1>4, PTL DEF Spec, ShieldedWhileOpen
=============================================================================
