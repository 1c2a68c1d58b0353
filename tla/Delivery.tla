------------------------------ MODULE Delivery ------------------------------
(***************************************************************************)
(* The delivery worker (src/src/daily_agent/worker.py).                    *)
(*                                                                         *)
(* Several workers poll two tables, the outbox and the reminders.  A pass  *)
(* (run_once) reads the clock once; it fails the rows out of attempts,     *)
(* leases a batch of claimable rows with one committed UPDATE each, sends  *)
(* what it leased, and marks it delivered.  A worker may die anywhere, or  *)
(* stall until its lease is gone.                                          *)
(*                                                                         *)
(* Times are kept relative to the clock, so that the model has no end:     *)
(* a row knows how many ticks its lease has left (negative once past), a   *)
(* worker how long ago it read the clock.                                  *)
(***************************************************************************)
EXTENDS Integers, FiniteSets, Sequences

CONSTANTS
  Workers,      \* the worker processes
  Outbox,       \* the rows of outbox_events
  Reminders,    \* the rows of reminders
  DueIn,        \* reminder -> ticks from its creation until it is due
  Lease,        \* LEASE_SECONDS, in ticks
  MaxAttempts,  \* MAX_ATTEMPTS
  BatchSize,    \* BATCH_SIZE
  MaxStall,     \* bound: no pass lasts longer than this many ticks
  MaxCrashes    \* bound: how often workers die

Rows == Outbox \cup Reminders
Tables == {"outbox", "reminders"}
Table(t) == IF t = "outbox" THEN Outbox ELSE Reminders

ASSUME DeliveryAssumption ==
  /\ IsFiniteSet(Workers)
  /\ Outbox \cap Reminders = {}
  /\ DueIn \in [Reminders -> Nat]
  /\ Lease \in Nat \ {0}
  /\ MaxAttempts \in Nat \ {0}
  /\ BatchSize \in Nat \ {0}
  /\ MaxStall \in Nat
  /\ MaxCrashes \in Nat

VARIABLES
  row,     \* the row as stored
  worker,  \* what each worker is doing
  sent,    \* history: the rows handed to the adapter at least once
  crashes  \* how often a worker died

vars == <<row, worker, sent, crashes>>

Statuses == {"absent", "pending", "delivering", "delivered", "failed"}
Row == [status : Statuses, attempts : Nat, lease : Int, due : Int]
Absent == [status |-> "absent", attempts |-> 0, lease |-> 0, due |-> 0]

\* A job remembers which attempt at its row it is.
Job == [row : Rows, attempt : Nat]
Phases == {"idle", "expire", "select", "claim", "deliver", "finish"}
Worker == [pc : Phases, table : Tables, age : 0 .. MaxStall,
           todo : SUBSET Rows, jobs : Seq(Job)]
Idle == [pc |-> "idle", table |-> "outbox", age |-> 0, todo |-> {}, jobs |-> <<>>]

TypeOK ==
  /\ row \in [Rows -> Row]
  /\ worker \in [Workers -> Worker]
  /\ sent \in SUBSET Rows
  /\ crashes \in 0 .. MaxCrashes

Init ==
  /\ row = [x \in Rows |-> Absent]
  /\ worker = [w \in Workers |-> Idle]
  /\ sent = {}
  /\ crashes = 0

-----------------------------------------------------------------------------
(***************************************************************************)
(* The WHERE clauses, as worker w's reading of the clock decides them.     *)
(***************************************************************************)
\* lease_until < now
LeaseOver(w, x) == row[x].lease + worker[w].age < 0

\* due_at_utc <= now; the outbox has no such column.
Due(w, x) == x \in Reminders => row[x].due + worker[w].age <= 0

\* (mutants of Claimable and Exhausted: no reclaim; off by one)
ClaimablePending(w, x) == row[x].status = "pending" /\ w \in Workers
ExhaustedLate(w, x) ==
  row[x].status = "delivering" /\ LeaseOver(w, x) /\ row[x].attempts > MaxAttempts

Claimable(w, x) ==
  \/ row[x].status = "pending"
  \/ row[x].status = "delivering" /\ LeaseOver(w, x)

Exhausted(w, x) ==
  row[x].status = "delivering" /\ LeaseOver(w, x) /\ row[x].attempts >= MaxAttempts

-----------------------------------------------------------------------------
\* persist_completed_run queues the reply; create_reminder schedules a reminder.
Post(x) ==
  /\ row[x].status = "absent"
  /\ row' = [row EXCEPT ![x].status = "pending",
                        ![x].due = IF x \in Reminders THEN DueIn[x] ELSE 0]
  /\ UNCHANGED <<worker, sent, crashes>>

\* main: every POLL_SECONDS a pass begins, with the clock read once.
Begin(w) ==
  /\ worker[w].pc = "idle"
  /\ worker' = [worker EXCEPT ![w] = [Idle EXCEPT !.pc = "expire"]]
  /\ UNCHANGED <<row, sent, crashes>>

\* _fail_exhausted, on the outbox and then on the reminders.
FailExhausted(w) ==
  LET t == worker[w].table IN
  /\ worker[w].pc = "expire"
  /\ row' = [x \in Rows |->
               IF x \in Table(t) /\ Exhausted(w, x)
               THEN [row[x] EXCEPT !.status = "failed", !.lease = 0]
               ELSE row[x]]
  /\ worker' = [worker EXCEPT
                  ![w].pc = IF t = "outbox" THEN "expire" ELSE "select",
                  ![w].table = IF t = "outbox" THEN "reminders" ELSE "outbox"]
  /\ UNCHANGED <<sent, crashes>>

\* The pass once todo is left to claim and jobs are leased: claim the rest of the
\* batch, go on to the reminders, deliver, or end.
Onward(w, todo, jobs) ==
  CASE todo # {} ->
         [worker[w] EXCEPT !.pc = "claim", !.todo = todo, !.jobs = jobs]
    [] todo = {} /\ worker[w].table = "outbox" ->
         [worker[w] EXCEPT !.pc = "select", !.table = "reminders", !.todo = {}, !.jobs = jobs]
    [] todo = {} /\ worker[w].table = "reminders" /\ jobs # <<>> ->
         [worker[w] EXCEPT !.pc = "deliver", !.todo = {}, !.jobs = jobs]
    [] OTHER -> Idle

\* The candidates of _claim: at most BATCH_SIZE of the claimable rows.
Select(w) ==
  LET can == {x \in Table(worker[w].table) : Claimable(w, x) /\ Due(w, x)} IN
  /\ worker[w].pc = "select"
  /\ \E batch \in SUBSET can :
       /\ Cardinality(batch) <= BatchSize
       /\ batch # can => Cardinality(batch) = BatchSize
       /\ worker' = [worker EXCEPT ![w] = Onward(w, batch, worker[w].jobs)]
  /\ UNCHANGED <<row, sent, crashes>>

\* (mutant of Leased: the status column accepts any string)
LeasedMisspelt(w, x) ==
  [row[x] EXCEPT !.status = "leased", !.lease = Lease - worker[w].age, !.attempts = @ + 1]

\* The UPDATE of _claim: a new lease from worker w's reading of the clock.
Leased(w, x) ==
  [row[x] EXCEPT !.status = "delivering", !.lease = Lease - worker[w].age, !.attempts = @ + 1]
WithJob(w, x) == Append(worker[w].jobs, [row |-> x, attempt |-> row[x].attempts + 1])

\* (mutant of Claim: the UPDATE does not check again what the SELECT found)
ClaimUnchecked(w) ==
  /\ worker[w].pc = "claim"
  /\ \E x \in worker[w].todo :
       /\ row' = [row EXCEPT ![x] = Leased(w, x)]
       /\ worker' = [worker EXCEPT ![w] = Onward(w, worker[w].todo \ {x}, WithJob(w, x))]
  /\ UNCHANGED <<sent, crashes>>

\* One candidate is leased by a conditional UPDATE of its own, or lost.
Claim(w) ==
  /\ worker[w].pc = "claim"
  /\ \E x \in worker[w].todo :
       \/ /\ Claimable(w, x)
          /\ row' = [row EXCEPT ![x] = Leased(w, x)]
          /\ worker' = [worker EXCEPT ![w] = Onward(w, worker[w].todo \ {x}, WithJob(w, x))]
       \/ /\ ~Claimable(w, x)
          /\ worker' = [worker EXCEPT ![w] = Onward(w, worker[w].todo \ {x}, worker[w].jobs)]
          /\ UNCHANGED row
  /\ UNCHANGED <<sent, crashes>>

\* The adapter takes the first job, or raises: the row is left to its lease.
Deliver(w) ==
  /\ worker[w].pc = "deliver"
  /\ \/ /\ sent' = sent \cup {Head(worker[w].jobs).row}
        /\ worker' = [worker EXCEPT ![w].pc = "finish"]
     \/ /\ worker' = [worker EXCEPT ![w] = Onward(w, {}, Tail(worker[w].jobs))]
        /\ UNCHANGED sent
  /\ UNCHANGED <<row, crashes>>

\* (mutant of Finishable: a late finisher overwrites what was decided)
FinishableAlways(x) == x \in Rows

\* The WHERE clause of _finish: still being delivered, whoever holds the lease.
Finishable(x) == row[x].status = "delivering"

\* _finish: a job that was sent is marked delivered.
Finish(w) ==
  LET x == Head(worker[w].jobs).row IN
  /\ worker[w].pc = "finish"
  /\ row' = IF Finishable(x)
            THEN [row EXCEPT ![x].status = "delivered", ![x].lease = 0]
            ELSE row
  /\ worker' = [worker EXCEPT ![w] = Onward(w, {}, Tail(worker[w].jobs))]
  /\ UNCHANGED <<sent, crashes>>

\* A worker dies; the process that replaces it knows nothing of its jobs.
Crash(w) ==
  /\ worker[w].pc # "idle"
  /\ crashes < MaxCrashes
  /\ crashes' = crashes + 1
  /\ worker' = [worker EXCEPT ![w] = Idle]
  /\ UNCHANGED <<row, sent>>

\* Time passes.  What is past for every possible reading of the clock stays so.
Later(n) == IF n < -MaxStall THEN n ELSE n - 1
Tick ==
  /\ \A w \in Workers : worker[w].age < MaxStall
  /\ worker' = [w \in Workers |->
                  IF worker[w].pc = "idle" THEN worker[w]
                  ELSE [worker[w] EXCEPT !.age = @ + 1]]
  /\ row' = [x \in Rows |->
               [row[x] EXCEPT
                  !.lease = IF row[x].status = "delivering" THEN Later(@) ELSE @,
                  !.due = IF x \in Reminders /\ row[x].status # "absent" THEN Later(@) ELSE @]]
  /\ UNCHANGED <<sent, crashes>>

Step(w) ==
  \/ Begin(w)
  \/ FailExhausted(w)
  \/ Select(w)
  \/ Claim(w)
  \/ Deliver(w)
  \/ Finish(w)

Next ==
  \/ \E x \in Rows : Post(x)
  \/ \E w \in Workers : Step(w) \/ Crash(w)
  \/ Tick

Spec == Init /\ [][Next]_vars

\* A worker that is up polls for ever, and time goes on.
FairSpec ==
  /\ Spec
  /\ \A w \in Workers : WF_vars(Step(w))
  /\ WF_vars(Tick)

-----------------------------------------------------------------------------
(***************************************************************************)
(* Properties.                                                             *)
(***************************************************************************)
\* Of the workers that hold one row, only one can believe its lease to be running:
\* a row is claimed again only once the lease of the earlier claim is over.
OneLeaseHolder ==
  \A v, w \in Workers :
    \A i \in DOMAIN worker[v].jobs, j \in DOMAIN worker[w].jobs :
      (v # w /\ worker[v].jobs[i].row = worker[w].jobs[j].row) =>
        \/ worker[v].age > Lease
        \/ worker[w].age > Lease

\* A row is attempted at most MaxAttempts times, and once more for every further
\* worker that had looked for exhausted rows before the last attempt was made.
OverrunBounded ==
  \A x \in Rows : row[x].attempts <= MaxAttempts + Cardinality(Workers) - 1

\* The worker implements what its docstring promises: no row is called delivered
\* that was not sent, and no late finisher overwrites what was decided.
Fate(x) ==
  IF row[x].status \in {"pending", "delivering"} THEN "open" ELSE row[x].status
Promise == INSTANCE AtLeastOnce WITH fate <- [x \in Rows |-> Fate(x)]
DeliversAtLeastOnce == Promise!Spec

\* Whatever crashes, stalls and fails, every row is in the end delivered or given
\* up: no lease, claim order or batch leaves one behind.
EveryRowDecided ==
  \A x \in Rows :
    row[x].status = "pending" ~> row[x].status \in {"delivered", "failed"}

\* "Rows out of attempts never qualify: _fail_exhausted marks them failed first."
ExhaustedNeverClaimed == \A x \in Rows : row[x].attempts <= MaxAttempts
=============================================================================
