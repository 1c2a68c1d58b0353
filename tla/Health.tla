------------------------------- MODULE Health -------------------------------
(***************************************************************************)
(* The health tracker of the model gateway                                 *)
(* (src/src/daily_agent/gateway/health.py): a circuit breaker per          *)
(* provider, a cooldown per model and the set of disabled models, all      *)
(* behind one lock, so that every method is one step.  Gateway.tla says    *)
(* which request calls which method and when.                              *)
(*                                                                         *)
(* Times are relative to the clock: a breaker knows for how long it has    *)
(* been open, a model how much of its cooldown is left.                    *)
(***************************************************************************)
EXTENDS Integers, FiniteSets

CONSTANTS
  Models,        \* the models of the registry
  Providers,     \* the configured providers
  ProviderOf,    \* model -> its provider
  Threshold,     \* failure_threshold
  OpenTicks,     \* open_seconds, in ticks
  CoolTicks      \* the lengths a cooldown may have after Retry-After is capped

ASSUME HealthAssumption ==
  /\ ProviderOf \in [Models -> Providers]
  /\ Threshold \in Nat \ {0}
  /\ OpenTicks \in Nat \ {0}
  /\ CoolTicks \subseteq Nat \ {0}

VARIABLES
  breaker,   \* provider -> its _BreakerState
  cooling,   \* model -> ticks of its cooldown left
  disabled,  \* the models taken out of service for good
  leaked     \* history: providers whose probe ended without being released

healthVars == <<breaker, cooling, disabled, leaked>>

(***************************************************************************)
(* "failures" is compared with the threshold only, and "age" with the open *)
(* window only: both stop counting there.  "open" is opened_at # None.     *)
(***************************************************************************)
Breaker == [failures : 0 .. Threshold, open : BOOLEAN, age : 0 .. OpenTicks,
            probing : BOOLEAN]
Fresh == [failures |-> 0, open |-> FALSE, age |-> 0, probing |-> FALSE]

HealthTypeOK ==
  /\ breaker \in [Providers -> Breaker]
  /\ cooling \in [Models -> Nat]
  /\ \A m \in Models : cooling[m] = 0 \/ \E t \in CoolTicks : cooling[m] <= t
  /\ disabled \in SUBSET Models
  /\ leaked \in SUBSET Providers

HealthInit ==
  /\ breaker = [p \in Providers |-> Fresh]
  /\ cooling = [m \in Models |-> 0]
  /\ disabled = {}
  /\ leaked = {}

-----------------------------------------------------------------------------
\* The open window: no call is to be made at all.
Blocked(p) == breaker[p].open /\ breaker[p].age < OpenTicks

\* (mutant of ProviderReady: only the probe in flight is looked at)
ReadyUnlessProbing(p) == breaker[p].open => ~breaker[p].probing

ProviderReady(p) == ~Blocked(p) /\ (breaker[p].open => ~breaker[p].probing)

\* available: a check that claims nothing.
Available(m) ==
  /\ m \notin disabled
  /\ cooling[m] = 0
  /\ ProviderReady(ProviderOf[m])

\* begin_call: a call to an open provider is taken for its probe.
BeginCall(p) ==
  /\ breaker' = [breaker EXCEPT ![p].probing = @ \/ breaker[p].open]
  /\ UNCHANGED <<cooling, disabled, leaked>>

\* record_success: the breaker is closed, whoever made the call.
RecordSuccess(p) ==
  /\ breaker' = [breaker EXCEPT ![p] = Fresh]
  /\ leaked' = leaked \ {p}
  /\ UNCHANGED <<cooling, disabled>>

\* _release_probe
ReleaseProbe(p) ==
  /\ breaker' = [breaker EXCEPT ![p].probing = FALSE]
  /\ leaked' = leaked \ {p}

\* (mutant of RecordRateLimited: a further answer prolongs the cooldown)
RateLimitedAgain(m, ticks) ==
  /\ cooling' = [cooling EXCEPT ![m] = @ + ticks]
  /\ ReleaseProbe(ProviderOf[m])
  /\ UNCHANGED disabled

\* record_failure, RATE_LIMITED: the latest answer sets the cooldown.
RecordRateLimited(m, ticks) ==
  /\ cooling' = [cooling EXCEPT ![m] = ticks]
  /\ ReleaseProbe(ProviderOf[m])
  /\ UNCHANGED disabled

\* (mutant of RecordRejected: the request's own fault, so nothing to record)
RejectionIgnored(m) == m \in Models /\ UNCHANGED healthVars

\* record_failure, REJECTED: a refusal says nothing of the provider's health.
RecordRejected(m) ==
  /\ ReleaseProbe(ProviderOf[m])
  /\ UNCHANGED <<cooling, disabled>>

\* A call that ends without touching the breaker keeps the probe it had.
LeaveProbe(p) ==
  /\ leaked' = IF breaker[p].probing THEN leaked \cup {p} ELSE leaked
  /\ UNCHANGED breaker

\* record_failure, NON_ZERO_PRICE: returns before the probe is released.
RecordNonZeroPrice(m) ==
  /\ disabled' = disabled \cup {m}
  /\ LeaveProbe(ProviderOf[m])
  /\ UNCHANGED cooling

\* (mutant of RecordFault: the probe is not over)
FaultKeepsProbe(m, auth) ==
  LET p == ProviderOf[m]
      n == breaker[p].failures + 1
      opens == auth \/ n >= Threshold
  IN /\ breaker' = [breaker EXCEPT
                      ![p] = [failures |-> IF n > Threshold THEN Threshold ELSE n,
                              open |-> @.open \/ opens,
                              age |-> IF opens THEN 0 ELSE @.age,
                              probing |-> @.probing]]
     /\ UNCHANGED <<cooling, disabled, leaked>>

\* record_failure, AUTH (auth) and TIMEOUT, SERVER and INVALID: one failure more.
RecordFault(m, auth) ==
  LET p == ProviderOf[m]
      n == breaker[p].failures + 1
      opens == auth \/ n >= Threshold
  IN /\ breaker' = [breaker EXCEPT
                      ![p] = [failures |-> IF n > Threshold THEN Threshold ELSE n,
                              open |-> @.open \/ opens,
                              age |-> IF opens THEN 0 ELSE @.age,
                              probing |-> FALSE]]
     /\ leaked' = leaked \ {p}
     /\ UNCHANGED <<cooling, disabled>>

HealthTick ==
  /\ breaker' = [p \in Providers |->
                   IF Blocked(p) THEN [breaker[p] EXCEPT !.age = @ + 1] ELSE breaker[p]]
  /\ cooling' = [m \in Models |-> IF cooling[m] > 0 THEN cooling[m] - 1 ELSE 0]
  /\ UNCHANGED <<disabled, leaked>>
=============================================================================
