----------------------------- MODULE RateLimit -----------------------------
(***************************************************************************)
(* The sliding-window limiter (src/src/daily_agent/ratelimit.py) and its   *)
(* use by the API (limited_principal, redeem_access_code in api.py):       *)
(* threads read the clock and only then take the limiter's lock, so hits   *)
(* are recorded out of order of their times.                               *)
(***************************************************************************)
EXTENDS Integers, Sequences, FiniteSets

CONSTANTS
  Callers, \* the users, whose ids are the limiter's keys
  Limit,   \* requests per window
  Window,  \* window_seconds, in ticks
  MaxKeys, \* how many keys are kept before idle ones are dropped
  Stall,   \* bound: ticks between reading the clock and taking the lock
  EndOfTime, \* bound: the last tick
  Threads

ASSUME RateLimitAssumption ==
  /\ Limit \in Nat \ {0} /\ Window \in Nat \ {0}
  /\ MaxKeys \in Nat /\ Stall \in Nat /\ EndOfTime \in Nat

VARIABLES
  clock,
  hits,     \* key -> the times of its deque, first recorded first
  checking, \* thread -> the keys it checks, one or none, and the time it read
  admitted  \* history: key -> the ticks at which its last hits were recorded

limitVars == <<clock, hits, checking, admitted>>

Times == 0 .. EndOfTime
NotChecking == [keys |-> {}, now |-> 0]

RateLimitTypeOK ==
  /\ clock \in Times
  /\ hits \in [Callers -> Seq(Times)] /\ \A k \in Callers : Len(hits[k]) <= Limit
  /\ checking \in [Threads -> [keys : SUBSET Callers, now : Times]]
  /\ admitted \in [Callers -> Seq(Times)]

RateLimitInit ==
  /\ clock = 0
  /\ hits = [k \in Callers |-> <<>>]
  /\ checking = [t \in Threads |-> NotChecking]
  /\ admitted = [k \in Callers |-> <<>>]

-----------------------------------------------------------------------------
\* check reads the clock before it takes the lock.
ReadClock(t) ==
  \E k \in Callers :
    /\ checking[t].keys = {}
    /\ checking' = [checking EXCEPT ![t] = [keys |-> {k}, now |-> clock]]
    /\ UNCHANGED <<clock, hits, admitted>>

Expired(now, hit) == now - hit >= Window

\* The loop that pops expired hits from the left, up to the first that is not.
Purged(q, now) ==
  LET kept == {i \in DOMAIN q : \E j \in 1 .. i : ~Expired(now, q[j])}
  IN SubSeq(q, Len(q) - Cardinality(kept) + 1, Len(q))

\* (mutant of Pruned: a key is taken for idle by its first hit)
PrunedByFirst(h, now) ==
  IF Cardinality({k \in Callers : h[k] # <<>>}) <= MaxKeys THEN h
  ELSE [k \in Callers |-> IF h[k] # <<>> /\ Expired(now, h[k][1]) THEN <<>> ELSE h[k]]

\* The dropping of idle keys once there are too many: those whose last recorded
\* hit has expired.
Pruned(h, now) ==
  IF Cardinality({k \in Callers : h[k] # <<>>}) <= MaxKeys THEN h
  ELSE [k \in Callers |-> IF h[k] # <<>> /\ Expired(now, h[k][Len(h[k])]) THEN <<>> ELSE h[k]]

\* (mutant of Full: one hit too many)
FullLate(q) == Len(q) > Limit

Full(q) == Len(q) >= Limit

\* The history keeps the last Limit + 1 hits of a key.
Remembered(s) == IF Len(s) > Limit + 1 THEN Tail(s) ELSE s

\* Under the lock: a full window refuses the request; otherwise it is recorded.
Check(t) ==
  \E k \in checking[t].keys :
    LET now == checking[t].now
        q == Purged(hits[k], now)
    IN
    /\ IF Full(q)
       THEN /\ hits' = [hits EXCEPT ![k] = q]
            /\ UNCHANGED admitted
       ELSE /\ hits' = Pruned([hits EXCEPT ![k] = Append(q, now)], now)
            /\ admitted' = [admitted EXCEPT ![k] = Remembered(Append(@, clock))]
    /\ checking' = [checking EXCEPT ![t] = NotChecking]
    /\ UNCHANGED clock

ClockTick ==
  /\ clock < EndOfTime
  /\ \A t \in Threads : checking[t].keys # {} => clock < checking[t].now + Stall
  /\ clock' = clock + 1
  /\ UNCHANGED <<hits, checking, admitted>>

RateLimitNext ==
  \/ \E t \in Threads : ReadClock(t) \/ Check(t)
  \/ ClockTick

RateLimitSpec == RateLimitInit /\ [][RateLimitNext]_limitVars

-----------------------------------------------------------------------------
\* No user makes more than Limit requests in a window, less the time a thread may
\* be held up between the clock and the lock: any Limit + 1 requests that are
\* admitted take at least Window - Stall, although the queue is not sorted and
\* idle keys are dropped (SlidingWindowLimiter.check).
AtMostLimitPerWindow ==
  \A k \in Callers :
    Len(admitted[k]) = Limit + 1 => admitted[k][Limit + 1] - admitted[k][1] >= Window - Stall
=============================================================================
