--------------------------- MODULE DeliveryProofs ---------------------------
(***************************************************************************)
(* Theorems about the delivery worker, for any workers, rows, lease, batch *)
(* and bounds: its state keeps its types, two workers never both hold a    *)
(* row under a lease that is still running, it implements the              *)
(* at-least-once promise, and no row is attempted more often than the      *)
(* number of workers allows.                                               *)
(***************************************************************************)
EXTENDS Delivery, FiniteSetTheorems, TLAPS

\* A worker at the adapter has a job, and its first one was sent once it is marked;
\* a worker between two passes has none.
Working ==
  \A w \in Workers :
    /\ worker[w].pc = "idle" => worker[w].jobs = <<>>
    /\ worker[w].pc \in {"deliver", "finish"} => worker[w].jobs # <<>>
    /\ worker[w].pc = "finish" => Head(worker[w].jobs).row \in sent

\* Nobody has a job for a row that does not exist.
JobsPosted ==
  \A w \in Workers : \A i \in DOMAIN worker[w].jobs :
    row[worker[w].jobs[i].row].status # "absent"

\* A worker whose lease runs by its own reading of the clock is named by the row,
\* or the row is decided.
Decided(x) == row[x].status \in {"delivered", "failed"}
LeaseKept ==
  \A w \in Workers : \A i \in DOMAIN worker[w].jobs :
    LET x == worker[w].jobs[i].row IN
    \/ worker[w].age > Lease
    \/ Decided(x)
    \/ row[x].status = "delivering" /\ row[x].lease + worker[w].age >= Lease

-----------------------------------------------------------------------------
(***************************************************************************)
(* Types.                                                                  *)
(***************************************************************************)
\* A worker between two passes, and one that begins a pass.
LEMMA IdleTypes == Idle \in Worker /\ [Idle EXCEPT !.pc = "expire"] \in Worker
<1>1. 0 \in 0 .. MaxStall /\ <<>> \in Seq(Job)
  BY DeliveryAssumption
<1>2. QED
  BY <1>1 DEF Idle, Worker, Phases, Tables

\* What a worker goes on to is a worker again (the branches of run_once).
LEMMA OnwardType ==
  ASSUME TypeOK, NEW w \in Workers, NEW todo \in SUBSET Rows, NEW jobs \in Seq(Job)
  PROVE  /\ Onward(w, todo, jobs) \in Worker
         /\ Onward(w, todo, jobs).jobs \in {jobs, <<>>}
         /\ Onward(w, todo, jobs).age \in {worker[w].age, 0}
         /\ Onward(w, todo, jobs).pc \in {"claim", "select", "deliver", "idle"}
         /\ Onward(w, todo, jobs).pc = "idle" => Onward(w, todo, jobs).jobs = <<>>
         /\ Onward(w, todo, jobs).pc = "deliver" => Onward(w, todo, jobs).jobs # <<>>
         /\ Onward(w, todo, jobs).jobs # <<>> => Onward(w, todo, jobs).age = worker[w].age
<1>0. Idle \in Worker
  BY DeliveryAssumption DEF Idle, Worker, Phases, Tables
<1>1. worker[w] \in Worker
  BY DEF TypeOK
<1>2. CASE todo # {}
  BY <1>1, <1>2 DEF Onward, Worker, Phases, Tables
<1>3. CASE todo = {} /\ worker[w].table = "outbox"
  BY <1>1, <1>3 DEF Onward, Worker, Phases, Tables
<1>4. CASE todo = {} /\ worker[w].table = "reminders" /\ jobs # <<>>
  BY <1>1, <1>4 DEF Onward, Worker, Phases, Tables
<1>5. CASE todo = {} /\ worker[w].table = "reminders" /\ jobs = <<>>
  <2>1. Onward(w, todo, jobs) = Idle
    BY <1>5 DEF Onward
  <2>2. QED
    BY <1>0, <2>1 DEF Idle
<1>6. QED
  BY <1>1, <1>2, <1>3, <1>4, <1>5 DEF Worker, Tables

LEMMA TypesInit == Init => TypeOK
  BY DeliveryAssumption DEF Init, TypeOK, Absent, Row, Statuses, Idle, Worker, Phases, Tables

\* A row after the UPDATE of _claim, and after a step of the clock.
LEMMA RowTypes ==
  ASSUME TypeOK, NEW x \in Rows, NEW w \in Workers
  PROVE  /\ row[x] \in Row
         /\ Leased(w, x) \in Row
         /\ row[x].lease \in Int /\ row[x].due \in Int /\ worker[w].age \in 0 .. MaxStall
         /\ Later(row[x].lease) \in Int /\ Later(row[x].due) \in Int
<1>1. row[x] \in Row /\ worker[w] \in Worker
  BY DEF TypeOK
<1>2. row[x].lease \in Int /\ row[x].due \in Int /\ worker[w].age \in 0 .. MaxStall
  BY <1>1 DEF Row, Worker
<1>3. PICK lease \in Int : lease = Lease - worker[w].age
  BY <1>2, DeliveryAssumption
<1>4. Leased(w, x) \in Row
  <2>1. row[x].attempts \in Nat /\ row[x].attempts + 1 \in Nat
    BY <1>1 DEF Row
  <2>2. PICK n \in Nat : n = row[x].attempts + 1
    BY <2>1
  <2>3. Leased(w, x) = [row[x] EXCEPT !.status = "delivering", !.lease = lease, !.attempts = n]
    BY <1>3, <2>2 DEF Leased
  <2>4. QED
    BY <1>1, <2>3 DEF Row, Statuses
<1>5. Later(row[x].lease) \in Int /\ Later(row[x].due) \in Int
  BY <1>2, DeliveryAssumption DEF Later
<1>6. QED
  BY <1>1, <1>2, <1>4, <1>5

\* A row that is decided, by _fail_exhausted or _finish.
LEMMA DecidedTypes ==
  ASSUME TypeOK, NEW x \in Rows, NEW status \in {"failed", "delivered"}
  PROVE  [row[x] EXCEPT !.status = status, !.lease = 0] \in Row
<1>1. row[x] \in Row
  BY DEF TypeOK
<1>2. PICK lease \in Int : lease = 0
  OBVIOUS
<1>3. [row[x] EXCEPT !.status = status, !.lease = lease] \in Row
  BY <1>1 DEF Row, Statuses
<1>4. QED
  BY <1>2, <1>3

\* The jobs a claim adds to and a delivery takes from.
LEMMA JobTypes ==
  ASSUME TypeOK, NEW w \in Workers
  PROVE  /\ worker[w] \in Worker /\ worker[w].jobs \in Seq(Job)
         /\ worker[w].todo \in SUBSET Rows
         /\ \A x \in Rows : WithJob(w, x) \in Seq(Job)
         /\ worker[w].jobs # <<>> =>
              /\ Head(worker[w].jobs) \in Job /\ Head(worker[w].jobs).row \in Rows
              /\ Tail(worker[w].jobs) \in Seq(Job)
<1>1. worker[w] \in Worker /\ worker[w].jobs \in Seq(Job) /\ worker[w].todo \in SUBSET Rows
  BY DEF TypeOK, Worker
<1>2. ASSUME NEW x \in Rows
      PROVE  WithJob(w, x) \in Seq(Job)
  <2>1. [row |-> x, attempt |-> row[x].attempts + 1] \in Job
    BY DEF TypeOK, Row, Job
  <2>2. QED
    BY <1>1, <2>1 DEF WithJob
<1>3. worker[w].jobs # <<>> => Head(worker[w].jobs) \in Job /\ Tail(worker[w].jobs) \in Seq(Job)
  BY <1>1
<1>4. QED
  BY <1>1, <1>2, <1>3 DEF Job

LEMMA TypesStep == TypeOK /\ Working /\ [Next]_vars => TypeOK'
<1> SUFFICES ASSUME TypeOK, Working, [Next]_vars
             PROVE  TypeOK'
  OBVIOUS
<1> USE DeliveryAssumption
<1>1. ASSUME NEW x \in Rows, Post(x)
      PROVE  TypeOK'
  <2>0. PICK due \in Int : due = IF x \in Reminders THEN DueIn[x] ELSE 0
    OBVIOUS
  <2>1. [row[x] EXCEPT !.status = "pending", !.due = due] \in Row
    BY <2>0 DEF TypeOK, Row, Statuses
  <2>2. row' = [row EXCEPT ![x] = [row[x] EXCEPT !.status = "pending", !.due = due]]
    <3>1. row' = [row EXCEPT ![x].status = "pending", ![x].due = due]
      BY <1>1, <2>0 DEF Post
    <3>2. DOMAIN row = Rows
      BY DEF TypeOK
    <3>3. QED
      BY <3>1, <3>2
  <2>3. row' \in [Rows -> Row]
    BY <2>1, <2>2 DEF TypeOK
  <2>4. UNCHANGED <<worker, sent, crashes>>
    BY <1>1 DEF Post
  <2>5. QED
    BY <2>3, <2>4 DEF TypeOK
<1>2. ASSUME NEW w \in Workers, Begin(w)
      PROVE  TypeOK'
  <2>1. QED
    BY <1>2, IdleTypes DEF Begin, TypeOK
<1>3. ASSUME NEW w \in Workers, FailExhausted(w)
      PROVE  TypeOK'
  <2>1. ASSUME NEW x \in Rows
        PROVE  [row[x] EXCEPT !.status = "failed", !.lease = 0] \in Row /\ row[x] \in Row
    BY DecidedTypes DEF TypeOK
  <2>2. row' \in [Rows -> Row]
    BY <1>3, <2>1 DEF FailExhausted
  <2>3. PICK pc \in {"expire", "select"}, table \in Tables :
          worker' = [worker EXCEPT ![w] = [worker[w] EXCEPT !.pc = pc, !.table = table]]
    <3>1. CASE worker[w].table = "outbox"
      BY <1>3, <3>1 DEF FailExhausted, Tables, TypeOK, Worker
    <3>2. CASE worker[w].table # "outbox"
      BY <1>3, <3>2 DEF FailExhausted, Tables, TypeOK, Worker
    <3>3. QED
      BY <3>1, <3>2
  <2>4. [worker[w] EXCEPT !.pc = pc, !.table = table] \in Worker
    BY DEF TypeOK, Worker, Phases
  <2>5. QED
    BY <1>3, <2>2, <2>3, <2>4 DEF FailExhausted, TypeOK
<1>4. ASSUME NEW w \in Workers, Select(w)
      PROVE  TypeOK'
  <2>1. PICK batch \in SUBSET Rows :
          worker' = [worker EXCEPT ![w] = Onward(w, batch, worker[w].jobs)]
    BY <1>4 DEF Select, Table, Rows
  <2>2. Onward(w, batch, worker[w].jobs) \in Worker
    BY <2>1, OnwardType, JobTypes
  <2>3. QED
    BY <1>4, <2>1, <2>2 DEF Select, TypeOK
<1>5. ASSUME NEW w \in Workers, Claim(w)
      PROVE  TypeOK'
  <2>1. PICK x \in Rows :
          /\ row' = [row EXCEPT ![x] = Leased(w, x)] \/ row' = row
          /\ \E jobs \in Seq(Job) :
               worker' = [worker EXCEPT ![w] = Onward(w, worker[w].todo \ {x}, jobs)]
    BY <1>5, JobTypes DEF Claim
  <2>2. worker' \in [Workers -> Worker]
    <3>1. PICK jobs \in Seq(Job) :
            worker' = [worker EXCEPT ![w] = Onward(w, worker[w].todo \ {x}, jobs)]
      BY <2>1
    <3>2. worker[w].todo \ {x} \in SUBSET Rows
      BY JobTypes
    <3>3. Onward(w, worker[w].todo \ {x}, jobs) \in Worker
      BY <3>2, OnwardType
    <3>4. QED
      BY <3>1, <3>3 DEF TypeOK
  <2>3. row' \in [Rows -> Row]
    <3>1. PICK leased \in Row : leased = Leased(w, x)
      BY RowTypes
    <3>2. row' = [row EXCEPT ![x] = leased] \/ row' = row
      BY <2>1, <3>1
    <3>3. QED
      BY <3>1, <3>2 DEF TypeOK
  <2>4. QED
    BY <1>5, <2>2, <2>3 DEF Claim, TypeOK
<1>6. ASSUME NEW w \in Workers, Deliver(w)
      PROVE  TypeOK'
  <2>1. worker[w].jobs # <<>>
    BY <1>6 DEF Deliver, Working
  <2>2. Onward(w, {}, Tail(worker[w].jobs)) \in Worker
    BY <2>1, OnwardType, JobTypes
  <2>3. [worker[w] EXCEPT !.pc = "finish"] \in Worker
    BY DEF TypeOK, Worker, Phases
  <2>4. worker' \in [Workers -> Worker]
    BY <1>6, <2>2, <2>3 DEF Deliver, TypeOK
  <2>5. sent' \in SUBSET Rows
    BY <1>6, <2>1, JobTypes DEF Deliver, TypeOK
  <2>6. QED
    BY <1>6, <2>4, <2>5 DEF Deliver, TypeOK
<1>7. ASSUME NEW w \in Workers, Finish(w)
      PROVE  TypeOK'
  <2>1. worker[w].jobs # <<>>
    BY <1>7 DEF Finish, Working
  <2>2. worker' \in [Workers -> Worker]
    BY <1>7, <2>1, OnwardType, JobTypes DEF Finish, TypeOK
  <2>3. row' \in [Rows -> Row]
    <3>1. PICK x \in Rows : x = Head(worker[w].jobs).row
      BY <2>1, JobTypes
    <3>2. [row[x] EXCEPT !.status = "delivered", !.lease = 0] \in Row
      BY <3>1, DecidedTypes
    <3>3. row' = row \/ row' = [row EXCEPT ![x] = [row[x] EXCEPT !.status = "delivered", !.lease = 0]]
      BY <1>7, <3>1 DEF Finish, TypeOK, Row
    <3>4. QED
      BY <3>1, <3>2, <3>3 DEF TypeOK
  <2>4. QED
    BY <1>7, <2>2, <2>3 DEF Finish, TypeOK
<1>8. ASSUME NEW w \in Workers, Crash(w)
      PROVE  TypeOK'
  <2>1. QED
    BY <1>8, IdleTypes DEF Crash, TypeOK
<1>9. CASE Tick
  <2>1. ASSUME NEW w \in Workers
        PROVE  worker[w] \in Worker /\ [worker[w] EXCEPT !.age = @ + 1] \in Worker
    <3>1. worker[w] \in Worker /\ worker[w].age \in 0 .. MaxStall /\ worker[w].age < MaxStall
      BY <1>9 DEF Tick, TypeOK, Worker
    <3>2. PICK age \in 0 .. MaxStall : age = worker[w].age + 1
      BY <3>1
    <3>3. [worker[w] EXCEPT !.age = age] \in Worker
      BY <3>1 DEF Worker
    <3>4. QED
      BY <3>1, <3>2, <3>3
  <2>2. worker' \in [Workers -> Worker]
    BY <1>9, <2>1 DEF Tick
  <2>3. ASSUME NEW x \in Rows
        PROVE  row'[x] \in Row
    <3>1. row[x] \in Row /\ row[x].lease \in Int /\ row[x].due \in Int
      BY DEF TypeOK, Row
    <3>2. Later(row[x].lease) \in Int /\ Later(row[x].due) \in Int
      BY <3>1 DEF Later
    <3>3. PICK lease \in Int, due \in Int :
            row'[x] = [row[x] EXCEPT !.lease = lease, !.due = due]
      BY <1>9, <3>1, <3>2 DEF Tick
    <3>4. QED
      BY <3>1, <3>3 DEF Row
  <2>4. row' \in [Rows -> Row]
    BY <1>9, <2>3 DEF Tick
  <2>5. QED
    BY <1>9, <2>2, <2>4 DEF Tick, TypeOK
<1>10. CASE UNCHANGED vars
  BY <1>10 DEF vars, TypeOK
<1>11. QED
  BY <1>1, <1>2, <1>3, <1>4, <1>5, <1>6, <1>7, <1>8, <1>9, <1>10 DEF Next, Step

-----------------------------------------------------------------------------
(***************************************************************************)
(* What one step does to a worker's jobs and to a row.                     *)
(***************************************************************************)
LEMMA WorkingStep == TypeOK /\ Working /\ [Next]_vars => Working'
<1> SUFFICES ASSUME TypeOK, Working, [Next]_vars, NEW u \in Workers
             PROVE  /\ worker'[u].pc = "idle" => worker'[u].jobs = <<>>
                    /\ worker'[u].pc \in {"deliver", "finish"} => worker'[u].jobs # <<>>
                    /\ worker'[u].pc = "finish" => Head(worker'[u].jobs).row \in sent'
  BY DEF Working
<1> DEFINE Goal == /\ worker'[u].pc = "idle" => worker'[u].jobs = <<>>
                   /\ worker'[u].pc \in {"deliver", "finish"} => worker'[u].jobs # <<>>
                   /\ worker'[u].pc = "finish" => Head(worker'[u].jobs).row \in sent'
<1>1. sent \subseteq sent' /\ worker'[u] = worker[u] => Goal
  BY DEF Working
<1>2. ASSUME NEW x \in Rows, Post(x)
      PROVE  Goal
  BY <1>1, <1>2 DEF Post
<1>3. ASSUME NEW w \in Workers, Begin(w)
      PROVE  Goal
  BY <1>1, <1>3, IdleTypes DEF Begin, TypeOK, Idle
<1>4. ASSUME NEW w \in Workers, FailExhausted(w)
      PROVE  Goal
  <2>1. CASE w = u
    <3>1. worker'[u].pc \in {"expire", "select"}
      BY <1>4, <2>1 DEF FailExhausted, TypeOK, Worker
    <3>2. QED
      BY <3>1
  <2>2. CASE w # u
    BY <1>1, <1>4, <2>2 DEF FailExhausted, TypeOK
  <2>3. QED
    BY <2>1, <2>2
<1>5. ASSUME NEW w \in Workers, NEW todo \in SUBSET Rows, NEW jobs \in Seq(Job),
             worker' = [worker EXCEPT ![w] = Onward(w, todo, jobs)], sent' = sent
      PROVE  Goal
  <2>1. CASE w = u
    <3>1. worker'[u] = Onward(w, todo, jobs)
      BY <1>5, <2>1 DEF TypeOK
    <3>2. QED
      BY <2>1, <3>1, OnwardType
  <2>2. CASE w # u
    BY <1>1, <1>5, <2>2 DEF TypeOK
  <2>3. QED
    BY <2>1, <2>2
<1>6. ASSUME NEW w \in Workers, Select(w)
      PROVE  Goal
  <2>1. PICK batch \in SUBSET Rows :
          worker' = [worker EXCEPT ![w] = Onward(w, batch, worker[w].jobs)]
    BY <1>6 DEF Select, Table, Rows
  <2>2. QED
    BY <1>5, <1>6, <2>1, JobTypes DEF Select
<1>7. ASSUME NEW w \in Workers, Claim(w)
      PROVE  Goal
  <2>1. PICK x \in Rows, jobs \in Seq(Job) :
          worker' = [worker EXCEPT ![w] = Onward(w, worker[w].todo \ {x}, jobs)]
    BY <1>7, JobTypes DEF Claim
  <2>2. worker[w].todo \ {x} \in SUBSET Rows /\ sent' = sent
    BY <1>7, JobTypes DEF Claim
  <2>3. QED
    BY <1>5, <2>1, <2>2
<1>8. ASSUME NEW w \in Workers, Deliver(w)
      PROVE  Goal
  <2>1. worker[w].pc = "deliver" /\ worker[w].jobs # <<>>
    BY <1>8 DEF Deliver, Working
  <2>2. CASE sent' = sent /\ worker' = [worker EXCEPT ![w] = Onward(w, {}, Tail(worker[w].jobs))]
    BY <1>5, <2>1, <2>2, JobTypes
  <2>3. CASE /\ sent' = sent \cup {Head(worker[w].jobs).row}
             /\ worker' = [worker EXCEPT ![w].pc = "finish"]
    <3>1. CASE w = u
      BY <2>1, <2>3, <3>1, JobTypes DEF TypeOK, Worker
    <3>2. CASE w # u
      BY <1>1, <2>3, <3>2 DEF TypeOK
    <3>3. QED
      BY <3>1, <3>2
  <2>4. QED
    BY <1>8, <2>2, <2>3 DEF Deliver
<1>9. ASSUME NEW w \in Workers, Finish(w)
      PROVE  Goal
  <2>1. worker[w].jobs # <<>>
    BY <1>9 DEF Finish, Working
  <2>2. QED
    BY <1>5, <1>9, <2>1, JobTypes DEF Finish
<1>10. ASSUME NEW w \in Workers, Crash(w)
       PROVE  Goal
  <2>1. CASE w = u
    BY <1>10, <2>1 DEF Crash, TypeOK, Idle
  <2>2. CASE w # u
    BY <1>1, <1>10, <2>2 DEF Crash, TypeOK
  <2>3. QED
    BY <2>1, <2>2
<1>11. CASE Tick
  <2>1. sent' = sent /\ worker'[u].pc = worker[u].pc /\ worker'[u].jobs = worker[u].jobs
    BY <1>11 DEF Tick, TypeOK, Worker
  <2>2. QED
    BY <2>1 DEF Working
<1>12. CASE UNCHANGED vars
  BY <1>1, <1>12 DEF vars
<1>13. QED
  BY <1>2, <1>3, <1>4, <1>6, <1>7, <1>8, <1>9, <1>10, <1>11, <1>12 DEF Next, Step

\* A step of the system in which no time passes.
Instant ==
  \/ \E x \in Rows : Post(x)
  \/ \E w \in Workers : Step(w) \/ Crash(w)
  \/ UNCHANGED vars

\* The job job' of worker u is one it had, and has not lost time on.
Kept(u, job) ==
  /\ \E i \in DOMAIN worker[u].jobs : worker[u].jobs[i].row = job.row
  /\ \/ Instant /\ worker'[u].age = worker[u].age
     \/ Tick /\ worker'[u].age = worker[u].age + 1
\* It is for a row that u has just claimed.
Taken(u, job) ==
  /\ Instant
  /\ Claimable(u, job.row)
  /\ row' = [row EXCEPT ![job.row] = Leased(u, job.row)]
  /\ worker'[u].age = worker[u].age
  /\ \A w \in Workers \ {u} : worker'[w] = worker[w]

\* Where the jobs of a worker come from.
LEMMA JobsStep ==
  ASSUME TypeOK, Working, [Next]_vars, NEW u \in Workers, NEW j \in DOMAIN worker'[u].jobs
  PROVE  worker'[u].jobs[j] \in Job /\ (Kept(u, worker'[u].jobs[j]) \/ Taken(u, worker'[u].jobs[j]))
<1> DEFINE job == worker'[u].jobs[j]
<1>0. worker'[u].jobs \in Seq(Job) /\ job \in Job
  <2>1. TypeOK'
    BY TypesStep
  <2>2. QED
    BY <2>1 DEF TypeOK, Worker
<1> SUFFICES Kept(u, job) \/ Taken(u, job)
  BY <1>0
<1>a. Step(u) \/ Crash(u) \/ UNCHANGED vars => Instant
  BY DEF Instant
<1>b. \A x \in Rows : Post(x) => Instant
  BY DEF Instant
<1>1. ASSUME worker'[u] = worker[u], Instant
      PROVE  Kept(u, job)
  BY <1>1 DEF Kept
<1>2. ASSUME worker'[u].jobs = worker[u].jobs, worker'[u].age = worker[u].age, Instant
      PROVE  Kept(u, job)
  BY <1>2 DEF Kept
<1>3. ASSUME NEW todo \in SUBSET Rows, Instant,
             worker' = [worker EXCEPT ![u] = Onward(u, todo, worker[u].jobs)]
      PROVE  Kept(u, job)
  <2>1. worker'[u] = Onward(u, todo, worker[u].jobs)
    BY <1>3 DEF TypeOK
  <2>2. worker'[u].jobs # <<>>
    BY <1>0
  <2>3. QED
    BY <1>2, <1>3, <2>1, <2>2, OnwardType, JobTypes
<1>4. ASSUME Instant, worker[u].jobs # <<>>,
             worker' = [worker EXCEPT ![u] = Onward(u, {}, Tail(worker[u].jobs))]
      PROVE  Kept(u, job)
  <2>1. worker'[u] = Onward(u, {}, Tail(worker[u].jobs))
    BY <1>4 DEF TypeOK
  <2>2. worker'[u].jobs # <<>>
    BY <1>0
  <2>3. worker[u].jobs \in Seq(Job) /\ Tail(worker[u].jobs) \in Seq(Job)
    BY <1>4, JobTypes
  <2>4. worker'[u].jobs = Tail(worker[u].jobs) /\ worker'[u].age = worker[u].age
    <3>1. {} \in SUBSET Rows
      OBVIOUS
    <3>2. PICK jobs \in Seq(Job) : jobs = Tail(worker[u].jobs)
      BY <2>3
    <3>3. worker'[u] = Onward(u, {}, jobs)
      BY <2>1, <3>2
    <3>4. worker'[u].jobs = jobs /\ worker'[u].age = worker[u].age
      BY <2>2, <3>1, <3>3, OnwardType
    <3>5. QED
      BY <3>2, <3>4
  <2>5. j \in DOMAIN Tail(worker[u].jobs) /\ job = Tail(worker[u].jobs)[j]
    BY <2>4
  <2>6. \A s \in Seq(Job) : s # <<>> =>
          \A n \in DOMAIN Tail(s) : n + 1 \in DOMAIN s /\ Tail(s)[n] = s[n + 1]
    OBVIOUS
  <2>7. j + 1 \in DOMAIN worker[u].jobs /\ job = worker[u].jobs[j + 1]
    BY <1>4, <2>3, <2>5, <2>6
  <2>8. QED
    BY <1>4, <2>4, <2>7 DEF Kept
<1>5. ASSUME NEW x \in Rows, Post(x)
      PROVE  Kept(u, job)
  BY <1>1, <1>5, <1>b DEF Post
<1>6. ASSUME NEW w \in Workers, w # u, Step(w) \/ Crash(w)
      PROVE  Kept(u, job)
  <2>1. worker'[u] = worker[u]
    BY <1>6 DEF Step, Crash, Begin, FailExhausted, Select, Claim, Deliver, Finish, TypeOK
  <2>2. QED
    BY <1>1, <1>6, <2>1 DEF Instant
<1>7. CASE Begin(u) \/ Crash(u)
  <2>1. worker'[u].jobs = <<>>
    BY <1>7 DEF Begin, Crash, Idle, TypeOK
  <2>2. QED
    BY <2>1
<1>8. CASE FailExhausted(u)
  <2>1. worker'[u].jobs = worker[u].jobs /\ worker'[u].age = worker[u].age
    BY <1>8 DEF FailExhausted, TypeOK, Worker
  <2>2. QED
    BY <1>2, <1>8, <1>a, <2>1 DEF Step
<1>9. CASE Select(u)
  <2>1. PICK batch \in SUBSET Rows :
          worker' = [worker EXCEPT ![u] = Onward(u, batch, worker[u].jobs)]
    BY <1>9 DEF Select, Table, Rows
  <2>2. QED
    BY <1>3, <1>9, <1>a, <2>1 DEF Step
<1>10. CASE Claim(u)
  <2>1. PICK x \in worker[u].todo :
          \/ /\ Claimable(u, x)
             /\ row' = [row EXCEPT ![x] = Leased(u, x)]
             /\ worker' = [worker EXCEPT ![u] = Onward(u, worker[u].todo \ {x}, WithJob(u, x))]
          \/ worker' = [worker EXCEPT ![u] = Onward(u, worker[u].todo \ {x}, worker[u].jobs)]
    BY <1>10 DEF Claim
  <2>2. x \in Rows /\ worker[u].todo \ {x} \in SUBSET Rows /\ Instant
    BY <1>10, <1>a, <2>1, JobTypes DEF Step
  <2>3. CASE worker' = [worker EXCEPT ![u] = Onward(u, worker[u].todo \ {x}, worker[u].jobs)]
    BY <1>3, <2>2, <2>3
  <2>4. CASE /\ Claimable(u, x)
             /\ row' = [row EXCEPT ![x] = Leased(u, x)]
             /\ worker' = [worker EXCEPT ![u] = Onward(u, worker[u].todo \ {x}, WithJob(u, x))]
    <3>1. worker'[u] = Onward(u, worker[u].todo \ {x}, WithJob(u, x))
      BY <2>4 DEF TypeOK
    <3>2. worker'[u].jobs = WithJob(u, x) /\ worker'[u].age = worker[u].age
      BY <1>0, <2>2, <3>1, OnwardType, JobTypes
    <3>3. CASE j \in DOMAIN worker[u].jobs
      <4>1. job = worker[u].jobs[j]
        BY <3>2, <3>3, JobTypes DEF WithJob
      <4>2. worker'[u].age = worker[u].age /\ Instant
        BY <2>2, <3>2
      <4>3. QED
        BY <3>3, <4>1, <4>2 DEF Kept
    <3>4. CASE j \notin DOMAIN worker[u].jobs
      <4>1. job.row = x
        BY <3>2, <3>4, JobTypes DEF WithJob
      <4>2. \A w \in Workers \ {u} : worker'[w] = worker[w]
        BY <2>4 DEF TypeOK
      <4>3. worker'[u].age = worker[u].age /\ Instant
        BY <2>2, <3>2
      <4>4. Taken(u, job)
        BY <2>4, <4>1, <4>2, <4>3 DEF Taken
      <4>5. QED
        BY <4>4
    <3>5. QED
      BY <3>3, <3>4
  <2>5. QED
    BY <2>1, <2>3, <2>4
<1>11. CASE Deliver(u)
  <2>1. worker[u].jobs # <<>> /\ Instant
    BY <1>11, <1>a DEF Deliver, Working, Step
  <2>2. CASE worker' = [worker EXCEPT ![u] = Onward(u, {}, Tail(worker[u].jobs))]
    BY <1>4, <2>1, <2>2
  <2>3. CASE worker' = [worker EXCEPT ![u].pc = "finish"]
    <3>1. worker'[u].jobs = worker[u].jobs /\ worker'[u].age = worker[u].age
      BY <2>3 DEF TypeOK, Worker
    <3>2. QED
      BY <1>2, <2>1, <3>1
  <2>4. QED
    BY <1>11, <2>2, <2>3 DEF Deliver
<1>12. CASE Finish(u)
  <2>1. worker[u].jobs # <<>> /\ Instant
    BY <1>12, <1>a DEF Finish, Working, Step
  <2>2. QED
    BY <1>4, <1>12, <2>1 DEF Finish
<1>13. CASE Tick
  <2>1. worker'[u].jobs = worker[u].jobs
    BY <1>13 DEF Tick, TypeOK, Worker
  <2>2. worker[u].pc # "idle"
    BY <2>1 DEF Working
  <2>3. worker'[u].age = worker[u].age + 1
    BY <1>13, <2>2 DEF Tick, TypeOK, Worker
  <2>4. QED
    BY <1>13, <2>1, <2>3 DEF Kept
<1>14. CASE UNCHANGED vars
  BY <1>1, <1>14, <1>a DEF vars
<1>15. QED
  BY <1>0, <1>5, <1>6, <1>7, <1>8, <1>9, <1>10, <1>11, <1>12, <1>13, <1>14 DEF Next, Step

\* What a step in which no time passes makes of a row.
LEMMA RowStep ==
  ASSUME TypeOK, Working, Instant, NEW x \in Rows
  PROVE  \/ row'[x] = row[x]
         \/ row[x].status = "absent" /\ row'[x].status = "pending"
         \/ row[x].status = "delivering" /\ row'[x].status \in {"delivered", "failed"}
         \/ \E v \in Workers : Claimable(v, x) /\ row'[x] = Leased(v, x)
<1> DEFINE Goal == \/ row'[x] = row[x]
                   \/ row[x].status = "absent" /\ row'[x].status = "pending"
                   \/ row[x].status = "delivering" /\ row'[x].status \in {"delivered", "failed"}
                   \/ \E v \in Workers : Claimable(v, x) /\ row'[x] = Leased(v, x)
<1>0. row \in [Rows -> Row]
  BY DEF TypeOK
<1>1. ASSUME NEW y \in Rows, Post(y)
      PROVE  Goal
  BY <1>0, <1>1 DEF Post, Row
<1>2. ASSUME NEW w \in Workers, FailExhausted(w)
      PROVE  Goal
  BY <1>0, <1>2 DEF FailExhausted, Exhausted, Row
<1>3. ASSUME NEW w \in Workers, Claim(w)
      PROVE  Goal
  <2>1. PICK y \in worker[w].todo :
          (Claimable(w, y) /\ row' = [row EXCEPT ![y] = Leased(w, y)]) \/ row' = row
    BY <1>3 DEF Claim
  <2>2. CASE row' = row
    BY <2>2
  <2>3. CASE Claimable(w, y) /\ row' = [row EXCEPT ![y] = Leased(w, y)]
    BY <1>0, <2>3
  <2>4. QED
    BY <2>1, <2>2, <2>3
<1>4. ASSUME NEW w \in Workers, Finish(w)
      PROVE  Goal
  BY <1>0, <1>4 DEF Finish, Finishable, Row
<1>5. ASSUME NEW w \in Workers, Begin(w) \/ Select(w) \/ Deliver(w) \/ Crash(w)
      PROVE  Goal
  BY <1>5 DEF Begin, Select, Deliver, Crash
<1>6. QED
  BY <1>1, <1>2, <1>3, <1>4, <1>5 DEF Instant, Step, vars

\* Tick keeps the status of a row, and takes at most one tick from its lease.
LEMMA RowTick ==
  ASSUME TypeOK, Tick, NEW x \in Rows
  PROVE  /\ row'[x].status = row[x].status
         /\ row[x].status = "delivering" =>
              row'[x].lease \in Int /\ row'[x].lease + 1 >= row[x].lease
<1>1. row[x] \in Row /\ row[x].lease \in Int
  BY DEF TypeOK, Row
<1>2. row'[x] = [row[x] EXCEPT
                   !.lease = IF row[x].status = "delivering" THEN Later(@) ELSE @,
                   !.due = IF x \in Reminders /\ row[x].status # "absent" THEN Later(@) ELSE @]
  BY DEF Tick
<1>3. row'[x].status = row[x].status
  BY <1>1, <1>2 DEF Row
<1>4. row[x].status = "delivering" => row'[x].lease = Later(row[x].lease)
  BY <1>1, <1>2 DEF Row
<1>5. Later(row[x].lease) \in Int /\ Later(row[x].lease) + 1 >= row[x].lease
  BY <1>1, DeliveryAssumption DEF Later
<1>6. QED
  BY <1>3, <1>4, <1>5

LEMMA StepKinds == [Next]_vars => Instant \/ Tick
  BY DEF Next, Instant

-----------------------------------------------------------------------------
(***************************************************************************)
(* A row is held by one lease at a time.                                   *)
(***************************************************************************)
LEMMA JobsPostedStep ==
  TypeOK /\ Working /\ JobsPosted /\ [Next]_vars => JobsPosted'
<1> SUFFICES ASSUME TypeOK, Working, JobsPosted, [Next]_vars,
                    NEW u \in Workers, NEW j \in DOMAIN worker'[u].jobs
             PROVE  row'[worker'[u].jobs[j].row].status # "absent"
  BY DEF JobsPosted
<1> DEFINE job == worker'[u].jobs[j]
           x == job.row
<1>1. x \in Rows /\ (Kept(u, job) \/ Taken(u, job))
  BY JobsStep DEF Job
<1>2. row[x] \in Row /\ \A v \in Workers : Leased(v, x).status = "delivering"
  <2>1. row[x] \in Row
    BY <1>1 DEF TypeOK
  <2>2. QED
    BY <2>1 DEF Leased, Row
<1>3. CASE Kept(u, job)
  <2>1. row[x].status # "absent"
    BY <1>3 DEF Kept, JobsPosted
  <2>2. CASE Instant
    <3>1. PICK y \in Rows : y = x
      BY <1>1
    <3>2. row'[y].status # "absent"
      BY <1>2, <2>1, <2>2, <3>1, RowStep
    <3>3. QED
      BY <3>1, <3>2
  <2>3. CASE Tick
    BY <1>1, <2>1, <2>3, RowTick
  <2>4. QED
    BY <2>2, <2>3, StepKinds
<1>4. CASE Taken(u, job)
  BY <1>1, <1>2, <1>4 DEF Taken, TypeOK
<1>5. QED
  BY <1>1, <1>3, <1>4

LEMMA LeaseKeptStep ==
  TypeOK /\ Working /\ LeaseKept /\ [Next]_vars => LeaseKept'
<1> SUFFICES ASSUME TypeOK, Working, LeaseKept, [Next]_vars,
                    NEW u \in Workers, NEW j \in DOMAIN worker'[u].jobs
             PROVE  \/ worker'[u].age > Lease
                    \/ row'[worker'[u].jobs[j].row].status \in {"delivered", "failed"}
                    \/ /\ row'[worker'[u].jobs[j].row].status = "delivering"
                       /\ row'[worker'[u].jobs[j].row].lease + worker'[u].age >= Lease
  BY DEF LeaseKept, Decided
<1> DEFINE job == worker'[u].jobs[j]
           Held(y) == \/ worker'[u].age > Lease
                      \/ row'[y].status \in {"delivered", "failed"}
                      \/ row'[y].status = "delivering" /\ row'[y].lease + worker'[u].age >= Lease
<1>1. job.row \in Rows /\ (Kept(u, job) \/ Taken(u, job))
  BY JobsStep DEF Job
<1>2. PICK x \in Rows : x = job.row
  BY <1>1
<1> SUFFICES Held(x)
  BY <1>2
<1>3. /\ row[x] \in Row /\ row[x].lease \in Int
      /\ \A v \in Workers : worker[v].age \in Nat
  BY DeliveryAssumption DEF TypeOK, Row, Worker
<1>4. ASSUME NEW v \in Workers
      PROVE  Leased(v, x).status = "delivering" /\ Leased(v, x).lease = Lease - worker[v].age
  BY <1>3 DEF Leased, Row
<1>5. CASE Kept(u, job)
  <2>1. \/ worker[u].age > Lease
        \/ row[x].status \in {"delivered", "failed"}
        \/ row[x].status = "delivering" /\ row[x].lease + worker[u].age >= Lease
    BY <1>2, <1>5 DEF Kept, LeaseKept, Decided
  <2>2. CASE Instant /\ worker'[u].age = worker[u].age
    <3>1. CASE row'[x] = row[x]
      BY <2>1, <2>2, <3>1
    <3>2. CASE row[x].status = "absent"
      BY <2>1, <2>2, <3>2
    <3>3. CASE row'[x].status \in {"delivered", "failed"}
      BY <3>3
    <3>4. ASSUME NEW v \in Workers, Claimable(v, x), row'[x] = Leased(v, x)
          PROVE  Held(x)
      BY <1>3, <1>4, <2>1, <2>2, <3>4, DeliveryAssumption DEF Claimable, LeaseOver
    <3>5. QED
      BY <2>2, <3>1, <3>2, <3>3, <3>4, RowStep
  <2>3. CASE Tick /\ worker'[u].age = worker[u].age + 1
    BY <1>3, <2>1, <2>3, RowTick, DeliveryAssumption
  <2>4. QED
    BY <1>5, <2>2, <2>3 DEF Kept
<1>6. CASE Taken(u, job)
  <2>1. row'[x] = Leased(u, x) /\ worker'[u].age = worker[u].age
    BY <1>2, <1>6 DEF Taken, TypeOK
  <2>2. QED
    BY <1>3, <1>4, <2>1, DeliveryAssumption
<1>7. QED
  BY <1>1, <1>5, <1>6

LEMMA HoldersStep ==
  TypeOK /\ Working /\ LeaseKept /\ OneLeaseHolder /\ [Next]_vars => OneLeaseHolder'
<1> SUFFICES ASSUME TypeOK, Working, LeaseKept, OneLeaseHolder, [Next]_vars,
                    NEW v \in Workers, NEW w \in Workers, v # w,
                    NEW i \in DOMAIN worker'[v].jobs, NEW j \in DOMAIN worker'[w].jobs,
                    worker'[v].jobs[i].row = worker'[w].jobs[j].row
             PROVE  worker'[v].age > Lease \/ worker'[w].age > Lease
  BY DEF OneLeaseHolder
<1> DEFINE x == worker'[v].jobs[i].row
<1>1. \A u \in Workers : worker[u].age \in Nat
  BY DeliveryAssumption DEF TypeOK, Worker
<1>2. /\ Kept(v, worker'[v].jobs[i]) \/ Taken(v, worker'[v].jobs[i])
      /\ Kept(w, worker'[w].jobs[j]) \/ Taken(w, worker'[w].jobs[j])
  BY JobsStep
<1>3. x \in Rows /\ row[x].lease \in Int
  <2>1. x \in Rows
    BY JobsStep DEF Job
  <2>2. QED
    BY <2>1 DEF TypeOK, Row
\* A claim next to a job: the claim shows that the job's lease is over.
<1>4. ASSUME NEW s \in Workers, NEW t \in Workers, s # t,
             NEW m \in DOMAIN worker'[s].jobs, NEW n \in DOMAIN worker'[t].jobs,
             worker'[s].jobs[m].row = x, worker'[t].jobs[n].row = x,
             Taken(s, worker'[s].jobs[m]), Kept(t, worker'[t].jobs[n])
      PROVE  worker'[t].age > Lease
  <2>1. Claimable(s, x)
    BY <1>4 DEF Taken
  <2>2. worker'[t].age = worker[t].age
    BY <1>4 DEF Taken
  <2>3. \/ worker[t].age > Lease
        \/ row[x].status \in {"delivered", "failed"}
        \/ row[x].status = "delivering" /\ row[x].lease + worker[t].age >= Lease
    BY <1>4 DEF Kept, LeaseKept, Decided
  <2> HIDE DEF x
  <2>4. QED
    BY <1>1, <1>3, <2>1, <2>2, <2>3, DeliveryAssumption DEF Claimable, LeaseOver
<1>5. CASE Kept(v, worker'[v].jobs[i]) /\ Kept(w, worker'[w].jobs[j])
  <2>1. worker[v].age > Lease \/ worker[w].age > Lease
    BY <1>5 DEF Kept, OneLeaseHolder
  <2>2. worker'[v].age >= worker[v].age /\ worker'[w].age >= worker[w].age
    BY <1>1, <1>5 DEF Kept
  <2>3. worker'[v].age \in Int /\ worker'[w].age \in Int
    BY <1>1, <1>5 DEF Kept
  <2>4. QED
    BY <1>1, <2>1, <2>2, <2>3, DeliveryAssumption
<1>6. CASE Taken(v, worker'[v].jobs[i])
  <2>1. Kept(w, worker'[w].jobs[j])
    <3>1. worker'[w] = worker[w] /\ Instant
      BY <1>6 DEF Taken
    <3>2. QED
      BY <3>1 DEF Kept
  <2>2. QED
    BY <1>4, <1>6, <2>1
<1>7. CASE Taken(w, worker'[w].jobs[j]) /\ Kept(v, worker'[v].jobs[i])
  BY <1>4, <1>7
<1>8. QED
  BY <1>2, <1>5, <1>6, <1>7

\* The parts of the inductive invariant; each step needs the ones before it.
Inv == TypeOK /\ Working /\ JobsPosted /\ LeaseKept /\ OneLeaseHolder

LEMMA Invariance == Spec => []Inv
<1>1. Init => Inv
  <2> SUFFICES ASSUME Init
               PROVE  Inv
    OBVIOUS
  <2>1. \A w \in Workers : worker[w].pc = "idle" /\ worker[w].jobs = <<>>
    BY DEF Init, Idle
  <2>2. Working /\ JobsPosted /\ LeaseKept /\ OneLeaseHolder
    BY <2>1 DEF Working, JobsPosted, LeaseKept, OneLeaseHolder
  <2>3. QED
    BY <2>2, TypesInit DEF Inv
<1>2. Inv /\ [Next]_vars => Inv'
  BY TypesStep, WorkingStep, JobsPostedStep, LeaseKeptStep, HoldersStep DEF Inv
<1>3. QED
  BY <1>1, <1>2, PTL DEF Spec

\* Every row, worker and job the passes produce has its type.
THEOREM TypeCorrect == Spec => []TypeOK
  BY Invariance, PTL DEF Inv

\* However workers stall, die and reclaim, no two of them hold a row under a lease
\* that both believe to be running (_claim, its WHERE clause and its UPDATE).
THEOREM LeasesExclude == Spec => []OneLeaseHolder
  BY Invariance, PTL DEF Inv

-----------------------------------------------------------------------------
(***************************************************************************)
(* The worker implements AtLeastOnce.                                      *)
(***************************************************************************)
fates == [x \in Rows |-> Fate(x)]

LEMMA FateTypes ==
  ASSUME TypeOK, NEW x \in Rows
  PROVE  /\ row[x].status \in Statuses
         /\ Fate(x) = "absent" <=> row[x].status = "absent"
         /\ Fate(x) = "open" <=> row[x].status \in {"pending", "delivering"}
<1>1. row[x].status \in Statuses
  BY DEF TypeOK, Row
<1>2. QED
  BY <1>1 DEF Fate, Statuses

\* Of the four kinds of steps that change a fate or send a row, each is a step of the
\* promise; all the others are stutters (the claims, the crashes, the clock).
LEMMA PromiseStep == TypeOK /\ Working /\ JobsPosted /\ [Next]_vars => [Promise!Next]_<<fates, sent>>
<1> SUFFICES ASSUME TypeOK, Working, JobsPosted, [Next]_vars
             PROVE  Promise!Next \/ (fates' = fates /\ sent' = sent)
  BY DEF fates
<1>0. row \in [Rows -> Row] /\ fates \in [Rows -> {"absent", "open", "delivered", "failed"}]
  BY FateTypes DEF TypeOK, fates, Fate, Statuses
<1>1. ASSUME NEW x \in Rows, Post(x)
      PROVE  Promise!Next
  <2>1. fates[x] = "absent" /\ sent' = sent
    BY <1>1 DEF Post, fates, Fate
  <2>2. row'[x].status = "pending" /\ \A y \in Rows \ {x} : row'[y] = row[y]
    BY <1>0, <1>1 DEF Post, Row
  <2>3. fates' = [fates EXCEPT ![x] = "open"]
    BY <2>2 DEF fates, Fate
  <2>4. Promise!Post(x)
    BY <2>1, <2>3 DEF Promise!Post, fates
  <2>5. QED
    BY <2>4 DEF Promise!Next
<1>2. ASSUME NEW w \in Workers, FailExhausted(w)
      PROVE  Promise!Next
  <2> DEFINE gone == {x \in Table(worker[w].table) \cap Rows : Exhausted(w, x)}
  <2>1. \A x \in gone : fates[x] = "open"
    BY FateTypes DEF Exhausted, fates
  <2>2. \A x \in Rows : IF x \in gone THEN row'[x].status = "failed" ELSE row'[x] = row[x]
    BY <1>0, <1>2 DEF FailExhausted, Row
  <2>3. fates' = [x \in Rows |-> IF x \in gone THEN "failed" ELSE fates[x]]
    BY <2>2 DEF fates, Fate
  <2>4. sent' = sent /\ gone \in SUBSET Rows
    BY <1>2 DEF FailExhausted
  <2>5. Promise!GiveUp(gone)
    BY <2>1, <2>3, <2>4 DEF Promise!GiveUp, fates
  <2>6. QED
    BY <2>4, <2>5 DEF Promise!Next
<1>3. ASSUME NEW w \in Workers, Claim(w)
      PROVE  fates' = fates /\ sent' = sent
  <2>1. PICK y \in worker[w].todo :
          (Claimable(w, y) /\ row' = [row EXCEPT ![y] = Leased(w, y)]) \/ row' = row
    BY <1>3 DEF Claim
  <2>2. \A x \in Rows : Fate(x)' = Fate(x)
    <3>1. CASE row' = row
      BY <3>1 DEF Fate
    <3>2. CASE Claimable(w, y) /\ row' = [row EXCEPT ![y] = Leased(w, y)]
      <4>1. y \in Rows
        BY <2>1, JobTypes
      <4>2. row[y] \in Row
        BY <1>0, <4>1
      <4>3. Leased(w, y).status = "delivering"
        BY <4>2 DEF Leased, Row
      <4>4. row'[y].status = "delivering" /\ \A x \in Rows \ {y} : row'[x] = row[x]
        BY <1>0, <3>2, <4>1, <4>3
      <4>5. QED
        BY <3>2, <4>1, <4>4 DEF Fate, Claimable
    <3>3. QED
      BY <2>1, <3>1, <3>2
  <2>3. QED
    BY <1>3, <2>2 DEF Claim, fates
<1>4. ASSUME NEW w \in Workers, Deliver(w)
      PROVE  Promise!Next \/ (fates' = fates /\ sent' = sent)
  <2>1. fates' = fates
    BY <1>4 DEF Deliver, fates, Fate
  <2>2. CASE sent' = sent
    BY <2>1, <2>2
  <2>3. CASE sent' = sent \cup {Head(worker[w].jobs).row}
    <3>1. worker[w].jobs # <<>> /\ worker[w].jobs \in Seq(Job)
      BY <1>4, JobTypes DEF Deliver, Working
    <3>2. 1 \in DOMAIN worker[w].jobs /\ Head(worker[w].jobs) = worker[w].jobs[1]
      BY <3>1
    <3>3. PICK x \in Rows : x = Head(worker[w].jobs).row
      BY <3>1, JobTypes
    <3>4. fates[x] # "absent"
      BY <3>2, <3>3, FateTypes DEF JobsPosted, fates
    <3>5. Promise!Send(x)
      BY <2>1, <2>3, <3>3, <3>4 DEF Promise!Send, fates
    <3>6. QED
      BY <3>5 DEF Promise!Next
  <2>4. QED
    BY <1>4, <2>2, <2>3 DEF Deliver
<1>5. ASSUME NEW w \in Workers, Finish(w)
      PROVE  Promise!Next \/ (fates' = fates /\ sent' = sent)
  <2>1. sent' = sent
    BY <1>5 DEF Finish
  <2>2. worker[w].jobs # <<>> /\ Head(worker[w].jobs).row \in sent
    BY <1>5 DEF Finish, Working
  <2>3. PICK x \in Rows : x = Head(worker[w].jobs).row
    BY <2>2, JobTypes
  <2>4. CASE row[x].status = "delivering"
    <3>1. row'[x].status = "delivered" /\ \A y \in Rows \ {x} : row'[y] = row[y]
      BY <1>0, <1>5, <2>3, <2>4 DEF Finish, Finishable, Row
    <3>2. fates' = [fates EXCEPT ![x] = "delivered"]
      BY <3>1 DEF fates, Fate
    <3>3. fates[x] = "open"
      BY <2>4 DEF fates, Fate
    <3>4. Promise!Deliver(x)
      BY <2>1, <2>2, <2>3, <3>2, <3>3 DEF Promise!Deliver, fates
    <3>5. QED
      BY <3>4 DEF Promise!Next
  <2>5. CASE row[x].status # "delivering"
    <3>1. row' = row
      BY <1>5, <2>3, <2>5 DEF Finish, Finishable
    <3>2. QED
      BY <2>1, <3>1 DEF fates, Fate
  <2>6. QED
    BY <2>4, <2>5
<1>6. ASSUME NEW w \in Workers, Begin(w) \/ Select(w) \/ Crash(w)
      PROVE  fates' = fates /\ sent' = sent
  BY <1>6 DEF Begin, Select, Crash, fates, Fate
<1>7. CASE Tick
  <2>1. \A x \in Rows : Fate(x)' = Fate(x)
    BY <1>7, RowTick DEF Fate
  <2>2. QED
    BY <1>7, <2>1 DEF Tick, fates
<1>8. CASE UNCHANGED vars
  BY <1>8 DEF vars, fates, Fate
<1>9. QED
  BY <1>1, <1>2, <1>3, <1>4, <1>5, <1>6, <1>7, <1>8 DEF Next, Step

\* The worker keeps its docstring's promise: every row it calls delivered was sent,
\* and no late finisher or exhausted attempt changes what was decided (run_once).
THEOREM Implements == Spec => DeliversAtLeastOnce
<1>1. Init => Promise!Init
  BY DEF Init, Absent, Promise!Init, Fate
<1>2. Inv /\ [Next]_vars => [Promise!Next]_<<fates, sent>>
  BY PromiseStep DEF Inv
<1>3. QED
  BY <1>1, <1>2, Invariance, PTL DEF Spec, DeliversAtLeastOnce, Promise!Spec, fates

-----------------------------------------------------------------------------
(***************************************************************************)
(* How far the attempts at a row may run over MAX_ATTEMPTS.                *)
(***************************************************************************)
\* Worker w has looked for exhausted rows of x's table, and may yet claim x in this pass.
Ahead(w, x) ==
  \/ worker[w].pc = "expire" /\ worker[w].table = "reminders" /\ x \in Outbox
  \/ worker[w].pc = "select" /\ (worker[w].table = "outbox" \/ x \in Reminders)
  \/ worker[w].pc = "claim" /\ x \in worker[w].todo
  \/ worker[w].pc = "claim" /\ worker[w].table = "outbox" /\ x \in Reminders

\* The workers for which x's lease is over but that no longer look for its attempts.
Overdue(x) ==
  {w \in Workers : Ahead(w, x) /\ row[x].status = "delivering" /\ LeaseOver(w, x)}

\* A row that was never leased has been attempted by nobody.
Unleased == \A x \in Rows : row[x].status \in {"absent", "pending"} => row[x].attempts = 0

\* A pass claims from the table it selected from, and delivers after the reminders.
PassOrder ==
  \A w \in Workers :
    /\ worker[w].pc = "claim" => worker[w].todo \subseteq Table(worker[w].table)
    /\ worker[w].pc \in {"deliver", "finish"} => worker[w].table = "reminders"

\* Each worker that is overdue for a row out of attempts can run it over once more.
OverrunLeft ==
  \A x \in Rows : row[x].attempts >= MaxAttempts =>
    row[x].attempts + Cardinality(Overdue(x)) <= MaxAttempts + Cardinality(Workers) - 1

\* The fields of a worker that an Onward leaves.
LEMMA OnwardPass ==
  ASSUME TypeOK, NEW w \in Workers, NEW todo \in SUBSET Rows, NEW jobs
  PROVE  LET o == Onward(w, todo, jobs) IN
         \/ /\ todo # {} /\ o.pc = "claim" /\ o.todo = todo
            /\ o.table = worker[w].table /\ o.age = worker[w].age
         \/ /\ todo = {} /\ worker[w].table = "outbox"
            /\ o.pc = "select" /\ o.table = "reminders" /\ o.age = worker[w].age
         \/ /\ todo = {} /\ worker[w].table = "reminders"
            /\ o.pc = "deliver" /\ o.table = "reminders"
         \/ o.pc = "idle"
<1>1. worker[w] \in Worker
  BY DEF TypeOK
<1>2. CASE todo # {}
  BY <1>1, <1>2 DEF Onward, Worker
<1>3. CASE todo = {} /\ worker[w].table = "outbox"
  BY <1>1, <1>3 DEF Onward, Worker
<1>4. CASE todo = {} /\ worker[w].table = "reminders" /\ jobs # <<>>
  BY <1>1, <1>4 DEF Onward, Worker
<1>5. CASE todo = {} /\ worker[w].table = "reminders" /\ jobs = <<>>
  BY <1>5 DEF Onward, Idle
<1>6. QED
  BY <1>1, <1>2, <1>3, <1>4, <1>5 DEF Worker, Tables

\* The next state of the worker that takes a step, and of the others.
LEMMA StepWorker ==
  ASSUME TypeOK, Working, NEW w \in Workers, Step(w) \/ Crash(w)
  PROVE  \A v \in Workers \ {w} : worker'[v] = worker[v]
BY DEF TypeOK, Step, Crash, Begin, FailExhausted, Select, Claim, Deliver, Finish

LEMMA FailExhaustedWorker ==
  ASSUME TypeOK, NEW w \in Workers, FailExhausted(w)
  PROVE  /\ worker[w].pc = "expire" /\ worker'[w].age = worker[w].age
         /\ \/ worker[w].table = "outbox" /\ worker'[w].pc = "expire" /\ worker'[w].table = "reminders"
            \/ worker[w].table = "reminders" /\ worker'[w].pc = "select" /\ worker'[w].table = "outbox"
<1>1. worker[w] \in Worker
  BY DEF TypeOK
<1>2. CASE worker[w].table = "outbox"
  BY <1>1, <1>2 DEF TypeOK, FailExhausted, Worker
<1>3. CASE worker[w].table = "reminders"
  BY <1>1, <1>3 DEF TypeOK, FailExhausted, Worker
<1>4. QED
  BY <1>1, <1>2, <1>3 DEF Worker, Tables

LEMMA SelectWorker ==
  ASSUME TypeOK, NEW w \in Workers, Select(w)
  PROVE  /\ worker[w].pc = "select" /\ row' = row
         /\ \E batch \in SUBSET Table(worker[w].table) :
              worker'[w] = Onward(w, batch, worker[w].jobs)
<1>1. PICK batch \in SUBSET Table(worker[w].table) :
        worker' = [worker EXCEPT ![w] = Onward(w, batch, worker[w].jobs)]
  BY DEF Select
<1>2. QED
  BY <1>1 DEF TypeOK, Select

\* A claim takes one row off the list; the row is leased or it was lost.
LEMMA ClaimWorker ==
  ASSUME TypeOK, NEW w \in Workers, Claim(w)
  PROVE  /\ worker[w].pc = "claim"
         /\ \E y \in worker[w].todo :
              /\ \E jobs : worker'[w] = Onward(w, worker[w].todo \ {y}, jobs)
              /\ \/ Claimable(w, y) /\ row' = [row EXCEPT ![y] = Leased(w, y)]
                 \/ row' = row
<1>1. PICK y \in worker[w].todo :
        /\ \E jobs : worker' = [worker EXCEPT ![w] = Onward(w, worker[w].todo \ {y}, jobs)]
        /\ \/ Claimable(w, y) /\ row' = [row EXCEPT ![y] = Leased(w, y)]
           \/ row' = row
  BY DEF Claim
<1>2. QED
  BY <1>1 DEF TypeOK, Claim

\* A delivery goes on with the next job, or marks this one.
LEMMA DeliverWorker ==
  ASSUME TypeOK, Working, NEW w \in Workers, Deliver(w) \/ Finish(w)
  PROVE  /\ worker[w].pc \in {"deliver", "finish"}
         /\ \/ \E jobs : worker'[w] = Onward(w, {}, jobs)
            \/ worker'[w].pc = "finish" /\ worker'[w].table = worker[w].table
<1>1. CASE Deliver(w)
  BY <1>1 DEF TypeOK, Worker, Deliver
<1>2. CASE Finish(w)
  BY <1>2 DEF TypeOK, Finish
<1>3. QED
  BY <1>1, <1>2

LEMMA PassOrderStep == TypeOK /\ Working /\ PassOrder /\ [Next]_vars => PassOrder'
<1> SUFFICES ASSUME TypeOK, Working, PassOrder, [Next]_vars, NEW u \in Workers
             PROVE  /\ worker'[u].pc = "claim" => worker'[u].todo \subseteq Table(worker'[u].table)
                    /\ worker'[u].pc \in {"deliver", "finish"} => worker'[u].table = "reminders"
  BY DEF PassOrder, Table
<1> DEFINE Goal == /\ worker'[u].pc = "claim" => worker'[u].todo \subseteq Table(worker'[u].table)
                   /\ worker'[u].pc \in {"deliver", "finish"} => worker'[u].table = "reminders"
<1>1. /\ worker[u].pc = "claim" => worker[u].todo \subseteq Table(worker[u].table)
      /\ worker[u].pc \in {"deliver", "finish"} => worker[u].table = "reminders"
  BY DEF PassOrder
<1>2. ASSUME worker'[u] = worker[u]
      PROVE  Goal
  BY <1>1, <1>2
<1>3. ASSUME NEW todo \in SUBSET Rows, NEW jobs, todo \subseteq Table(worker[u].table),
             worker'[u] = Onward(u, todo, jobs)
      PROVE  Goal
  <2> DEFINE o == Onward(u, todo, jobs)
  <2>1. \/ /\ o.pc = "claim" /\ o.todo = todo /\ o.table = worker[u].table
        \/ o.pc = "select"
        \/ o.pc = "deliver" /\ o.table = "reminders"
        \/ o.pc = "idle"
    BY OnwardPass
  <2> HIDE DEF o
  <2>2. worker'[u] = o
    BY <1>3 DEF o
  <2>3. QED
    BY <1>3, <2>1, <2>2
<1>4. CASE Begin(u) \/ Crash(u)
  BY <1>4 DEF Begin, Crash, Idle, TypeOK
<1>5. CASE FailExhausted(u)
  BY <1>5, FailExhaustedWorker
<1>6. CASE Select(u)
  <2>1. Table(worker[u].table) \subseteq Rows
    BY DEF Table, Rows
  <2>2. QED
    BY <1>3, <1>6, <2>1, SelectWorker
<1>7. CASE Claim(u)
  <2>1. worker[u].todo \subseteq Rows
    BY JobTypes
  <2>2. PICK y, jobs : worker'[u] = Onward(u, worker[u].todo \ {y}, jobs)
    BY <1>7, ClaimWorker
  <2>3. worker[u].todo \subseteq Table(worker[u].table)
    BY <1>1, <1>7, ClaimWorker
  <2>4. worker[u].todo \ {y} \in SUBSET Rows /\ worker[u].todo \ {y} \subseteq Table(worker[u].table)
    BY <2>1, <2>3
  <2>5. QED
    BY <1>3, <2>2, <2>4
<1>8. CASE Deliver(u) \/ Finish(u)
  <2>1. {} \in SUBSET Rows /\ {} \subseteq Table(worker[u].table)
    OBVIOUS
  <2>2. worker[u].pc \in {"deliver", "finish"}
    BY <1>8, DeliverWorker
  <2>3. CASE \E jobs : worker'[u] = Onward(u, {}, jobs)
    BY <1>3, <2>1, <2>3
  <2>4. QED
    BY <1>1, <1>8, <2>2, <2>3, DeliverWorker
<1>9. ASSUME NEW w \in Workers, w # u, Step(w) \/ Crash(w)
      PROVE  Goal
  BY <1>2, <1>9, StepWorker
<1>10. CASE (\E x \in Rows : Post(x)) \/ UNCHANGED vars
  BY <1>2, <1>10 DEF Post, vars
<1>11. CASE Tick
  <2>1. /\ worker'[u].pc = worker[u].pc /\ worker'[u].todo = worker[u].todo
        /\ worker'[u].table = worker[u].table
    BY <1>11 DEF Tick, TypeOK, Worker
  <2>2. QED
    BY <1>1, <2>1
<1>12. QED
  BY <1>4, <1>5, <1>6, <1>7, <1>8, <1>9, <1>10, <1>11 DEF Next, Step

\* A worker is ahead for a row because it was, or because it has just looked for the
\* exhausted rows of that table; no time passed for it unless the clock moved.
LEMMA AheadStep ==
  ASSUME TypeOK, Working, PassOrder, [Next]_vars, NEW u \in Workers, NEW x \in Rows, Ahead(u, x)'
  PROVE  /\ \/ Ahead(u, x)
            \/ FailExhausted(u) /\ x \in Table(worker[u].table)
         /\ Tick \/ worker'[u].age = worker[u].age
<1> DEFINE Goal == /\ \/ Ahead(u, x)
                      \/ FailExhausted(u) /\ x \in Table(worker[u].table)
                   /\ Tick \/ worker'[u].age = worker[u].age
<1>1. /\ x \in Outbox \/ x \in Reminders
      /\ ~(x \in Outbox /\ x \in Reminders)
  BY DeliveryAssumption DEF Rows
<1>2. \/ worker'[u].pc = "expire" /\ worker'[u].table = "reminders" /\ x \in Outbox
      \/ worker'[u].pc = "select" /\ (worker'[u].table = "outbox" \/ x \in Reminders)
      \/ worker'[u].pc = "claim" /\ x \in worker'[u].todo
      \/ worker'[u].pc = "claim" /\ worker'[u].table = "outbox" /\ x \in Reminders
  BY DEF Ahead
<1>3. ASSUME worker'[u] = worker[u]
      PROVE  Goal
  BY <1>2, <1>3 DEF Ahead
<1>4. CASE Begin(u) \/ Crash(u)
  <2>1. worker'[u].pc = "idle" \/ (worker'[u].pc = "expire" /\ worker'[u].table = "outbox")
    BY <1>4 DEF Begin, Crash, Idle, TypeOK
  <2>2. QED
    BY <1>2, <2>1
<1>5. CASE FailExhausted(u)
  BY <1>1, <1>2, <1>5, FailExhaustedWorker DEF Table, Ahead
<1>6. CASE Select(u)
  <2>1. PICK batch \in SUBSET Table(worker[u].table) :
          worker'[u] = Onward(u, batch, worker[u].jobs)
    BY <1>6, SelectWorker
  <2>2. worker[u].pc = "select" /\ batch \in SUBSET Rows
    BY <1>6, SelectWorker DEF Table, Rows
  <2>3. worker[u].table \in Tables
    BY DEF TypeOK, Worker
  <2>4. QED
    BY <1>1, <1>2, <2>1, <2>2, <2>3, OnwardPass DEF Ahead, Table, Tables
<1>7. CASE Claim(u)
  <2>1. PICK y \in worker[u].todo : \E jobs : worker'[u] = Onward(u, worker[u].todo \ {y}, jobs)
    BY <1>7, ClaimWorker
  <2>2. worker[u].pc = "claim" /\ worker[u].todo \ {y} \in SUBSET Rows
    BY <1>7, ClaimWorker, JobTypes
  <2>3. QED
    BY <1>1, <1>2, <2>1, <2>2, OnwardPass DEF Ahead
<1>8. CASE Deliver(u) \/ Finish(u)
  <2>1. worker[u].table = "reminders"
    BY <1>8, DeliverWorker DEF PassOrder
  <2>2. {} \in SUBSET Rows
    OBVIOUS
  <2>3. worker'[u].pc \notin {"expire", "select", "claim"}
    <3>1. CASE \E jobs : worker'[u] = Onward(u, {}, jobs)
      BY <2>1, <2>2, <3>1, OnwardPass
    <3>2. QED
      BY <1>8, <3>1, DeliverWorker
  <2>4. QED
    BY <1>2, <2>3
<1>9. ASSUME NEW w \in Workers, w # u, Step(w) \/ Crash(w)
      PROVE  Goal
  BY <1>3, <1>9, StepWorker
<1>10. CASE (\E y \in Rows : Post(y)) \/ UNCHANGED vars
  BY <1>3, <1>10 DEF Post, vars
<1>11. CASE Tick
  <2>1. /\ worker'[u].pc = worker[u].pc /\ worker'[u].todo = worker[u].todo
        /\ worker'[u].table = worker[u].table
    BY <1>11 DEF Tick, TypeOK, Worker
  <2>2. QED
    BY <1>2, <1>11, <2>1 DEF Ahead
<1>12. QED
  BY <1>4, <1>5, <1>6, <1>7, <1>8, <1>9, <1>10, <1>11 DEF Next, Step

\* A row that a worker has taken off its list is behind it.
LEMMA ClaimedBehind ==
  ASSUME TypeOK, PassOrder, NEW w \in Workers, worker[w].pc = "claim", NEW y \in worker[w].todo,
         NEW jobs, worker'[w] = Onward(w, worker[w].todo \ {y}, jobs)
  PROVE  ~Ahead(w, y)'
<1>1. /\ worker[w].table \in Tables /\ worker[w].todo \ {y} \in SUBSET Rows
      /\ y \in Table(worker[w].table)
  BY JobTypes DEF TypeOK, Worker, PassOrder
<1>2. ~(y \in Outbox /\ y \in Reminders)
  BY DeliveryAssumption
<1> DEFINE o == Onward(w, worker[w].todo \ {y}, jobs)
<1>3. \/ o.pc = "claim" /\ o.todo = worker[w].todo \ {y} /\ o.table = worker[w].table
      \/ worker[w].table = "outbox" /\ o.pc = "select" /\ o.table = "reminders"
      \/ o.pc \in {"deliver", "idle"}
  BY <1>1, OnwardPass
<1> HIDE DEF o
<1>4. worker'[w] = o
  BY DEF o
<1>5. QED
  BY <1>1, <1>2, <1>3, <1>4 DEF Ahead, Table, Tables

\* A row is leased by a claim, or keeps its attempts; while it is being delivered only
\* the clock takes from its lease.
Untouched(x) ==
  /\ row'[x].attempts = row[x].attempts
  /\ row'[x].status = "delivering" =>
       /\ row[x].status = "delivering"
       /\ row'[x].lease = row[x].lease \/ (Tick /\ row'[x].lease + 1 >= row[x].lease)
  /\ row'[x].status \in {"absent", "pending"} => row[x].status \in {"absent", "pending"}
LeasedBy(w, x) ==
  /\ Claim(w) /\ x \in worker[w].todo /\ worker[w].pc = "claim"
  /\ \E jobs : worker'[w] = Onward(w, worker[w].todo \ {x}, jobs)
  /\ Claimable(w, x) /\ row'[x] = Leased(w, x)

LEMMA RowLeased ==
  ASSUME TypeOK, Working, [Next]_vars, NEW x \in Rows
  PROVE  Untouched(x) \/ \E w \in Workers : LeasedBy(w, x)
<1>0. row[x] \in Row /\ row \in [Rows -> Row]
  BY DEF TypeOK
<1>1. ASSUME row'[x] = row[x]
      PROVE  Untouched(x)
  BY <1>1 DEF Untouched
<1>2. ASSUME NEW y \in Rows, Post(y)
      PROVE  Untouched(x)
  <2>1. CASE y = x
    BY <1>0, <1>2, <2>1 DEF Post, Untouched, Row
  <2>2. CASE y # x
    BY <1>0, <1>1, <1>2, <2>2 DEF Post
  <2>3. QED
    BY <2>1, <2>2
<1>3. ASSUME NEW w \in Workers, FailExhausted(w)
      PROVE  Untouched(x)
  BY <1>0, <1>3 DEF FailExhausted, Untouched, Row
<1>4. ASSUME NEW w \in Workers, Finish(w)
      PROVE  Untouched(x)
  BY <1>0, <1>4 DEF Finish, Untouched, Row
<1>5. ASSUME NEW w \in Workers, Claim(w)
      PROVE  Untouched(x) \/ LeasedBy(w, x)
  <2>1. PICK y \in worker[w].todo :
          /\ \E jobs : worker'[w] = Onward(w, worker[w].todo \ {y}, jobs)
          /\ \/ Claimable(w, y) /\ row' = [row EXCEPT ![y] = Leased(w, y)]
             \/ row' = row
    BY <1>5, ClaimWorker
  <2>2. CASE y = x /\ row' # row
    <3>1. row'[x] = Leased(w, x)
      BY <1>0, <2>1, <2>2
    <3>2. QED
      BY <1>5, <2>1, <2>2, <3>1, ClaimWorker DEF LeasedBy
  <2>3. CASE y # x \/ row' = row
    BY <1>0, <1>1, <2>1, <2>3
  <2>4. QED
    BY <2>2, <2>3
<1>6. ASSUME NEW w \in Workers, Begin(w) \/ Select(w) \/ Deliver(w) \/ Crash(w)
      PROVE  Untouched(x)
  BY <1>1, <1>6 DEF Begin, Select, Deliver, Crash
<1>7. CASE Tick
  <2>1. row'[x].attempts = row[x].attempts
    BY <1>0, <1>7 DEF Tick, Row
  <2>2. QED
    BY <1>7, <2>1, RowTick DEF Untouched
<1>8. CASE UNCHANGED vars
  BY <1>1, <1>8 DEF vars
<1>9. QED
  BY <1>2, <1>3, <1>4, <1>5, <1>6, <1>7, <1>8 DEF Next, Step

LEMMA UnleasedStep == TypeOK /\ Working /\ Unleased /\ [Next]_vars => Unleased'
<1> SUFFICES ASSUME TypeOK, Working, Unleased, [Next]_vars, NEW x \in Rows,
                    row'[x].status \in {"absent", "pending"}
             PROVE  row'[x].attempts = 0
  BY DEF Unleased
<1>1. row[x] \in Row
  BY DEF TypeOK
<1>2. \A w \in Workers : Leased(w, x).status = "delivering"
  BY <1>1 DEF Leased, Row
<1>3. Untouched(x)
  BY <1>2, RowLeased DEF LeasedBy
<1>4. QED
  BY <1>3 DEF Untouched, Unleased

\* What leaves a row alone makes nobody overdue for it that was not, once it is out of
\* attempts: whoever looks for exhausted rows now finds it, or finds its lease running.
LEMMA OverdueShrinks ==
  ASSUME TypeOK, Working, PassOrder, [Next]_vars, NEW x \in Rows,
         row[x].attempts >= MaxAttempts, Untouched(x)
  PROVE  Overdue(x)' \subseteq Overdue(x)
<1> SUFFICES ASSUME NEW u \in Workers, Ahead(u, x)', row'[x].status = "delivering",
                    row'[x].lease + worker'[u].age < 0
             PROVE  Ahead(u, x) /\ row[x].status = "delivering" /\ LeaseOver(u, x)
  BY DEF Overdue, LeaseOver
<1>0. row[x] \in Row /\ row[x].lease \in Int /\ worker[u].age \in Nat
  BY DeliveryAssumption DEF TypeOK, Row, Worker
<1>1. /\ Ahead(u, x) \/ (FailExhausted(u) /\ x \in Table(worker[u].table))
      /\ Tick \/ worker'[u].age = worker[u].age
  BY AheadStep
<1>2. /\ row[x].status = "delivering"
      /\ row'[x].lease = row[x].lease \/ (Tick /\ row'[x].lease + 1 >= row[x].lease)
  BY DEF Untouched
<1>3. LeaseOver(u, x)
  <2>1. CASE Tick
    <3>1. row'[x].lease \in Int /\ row'[x].lease + 1 >= row[x].lease
      BY <1>2, <2>1, RowTick
    <3>2. worker[u].pc # "idle"
      BY <2>1 DEF Tick, Ahead, TypeOK, Worker
    <3>3. worker'[u].age = worker[u].age + 1
      BY <2>1, <3>2 DEF Tick, TypeOK, Worker
    <3>4. QED
      BY <1>0, <3>1, <3>3 DEF LeaseOver
  <2>2. CASE ~Tick
    BY <1>1, <1>2, <2>2 DEF LeaseOver
  <2>3. QED
    BY <2>1, <2>2
<1>4. ~(FailExhausted(u) /\ x \in Table(worker[u].table))
  <2> SUFFICES ASSUME FailExhausted(u), x \in Table(worker[u].table)
               PROVE  FALSE
    OBVIOUS
  <2>1. Exhausted(u, x)
    BY <1>2, <1>3 DEF Exhausted
  <2>2. row'[x].status = "failed"
    BY <1>0, <2>1 DEF FailExhausted, Row
  <2>3. QED
    BY <2>2
<1>5. QED
  BY <1>1, <1>2, <1>3, <1>4

\* A claim of a row that is out of attempts uses up one that was overdue.
LEMMA ClaimUsesOne ==
  ASSUME TypeOK, Working, PassOrder, [Next]_vars, NEW x \in Rows, NEW w \in Workers, LeasedBy(w, x)
  PROVE  /\ row'[x].attempts = row[x].attempts + 1
         /\ Overdue(x)' \subseteq Workers \ {w}
         /\ row[x].status # "pending" => w \in Overdue(x) /\ Overdue(x)' \subseteq Overdue(x) \ {w}
<1>0. row[x] \in Row /\ row[x].lease \in Int /\ row[x].attempts \in Nat
  BY DEF TypeOK, Row
<1>1. /\ \A u \in Workers : worker[u].age \in Nat
      /\ \A u \in Workers \ {w} : worker'[u] = worker[u]
  BY StepWorker, DeliveryAssumption DEF LeasedBy, Step, TypeOK, Worker
<1>2. row'[x] = [row[x] EXCEPT !.status = "delivering", !.lease = Lease - worker[w].age,
                               !.attempts = row[x].attempts + 1]
  BY DEF LeasedBy, Leased
<1>3. row'[x].attempts = row[x].attempts + 1 /\ row'[x].lease = Lease - worker[w].age
  BY <1>0, <1>2 DEF Row
<1>4. ~Ahead(w, x)'
  BY ClaimedBehind DEF LeasedBy
<1>5. Overdue(x)' \subseteq Workers \ {w}
  BY <1>4 DEF Overdue
<1>6. ASSUME row[x].status # "pending"
      PROVE  w \in Overdue(x) /\ Overdue(x)' \subseteq Overdue(x) \ {w}
  <2>1. row[x].status = "delivering" /\ row[x].lease + worker[w].age < 0
    BY <1>6 DEF LeasedBy, Claimable, LeaseOver
  <2>2. Ahead(w, x)
    BY DEF LeasedBy, Ahead
  <2>3. ASSUME NEW u \in Workers \ {w}, Ahead(u, x)', row'[x].lease + worker'[u].age < 0
        PROVE  Ahead(u, x) /\ row[x].lease + worker[u].age < 0
    <3>1. Ahead(u, x)
      BY <1>1, <2>3 DEF Ahead
    <3>2. Lease - worker[w].age + worker[u].age < 0
      BY <1>1, <1>3, <2>3
    <3>3. QED
      BY <1>0, <1>1, <2>1, <3>1, <3>2, DeliveryAssumption
  <2>4. QED
    BY <1>5, <2>1, <2>2, <2>3 DEF Overdue, LeaseOver
<1>7. QED
  BY <1>3, <1>5, <1>6

LEMMA OverrunLeftStep ==
  TypeOK /\ Working /\ PassOrder /\ Unleased /\ OverrunLeft /\ [Next]_vars => OverrunLeft'
<1> SUFFICES ASSUME TypeOK, Working, PassOrder, Unleased, OverrunLeft, [Next]_vars,
                    NEW x \in Rows, row'[x].attempts >= MaxAttempts
             PROVE  row'[x].attempts + Cardinality(Overdue(x)')
                      <= MaxAttempts + Cardinality(Workers) - 1
  BY DEF OverrunLeft
<1>0. row[x].attempts \in Nat /\ MaxAttempts \in Nat \ {0}
  BY DeliveryAssumption DEF TypeOK, Row
<1>1. /\ IsFiniteSet(Overdue(x)) /\ Cardinality(Overdue(x)) \in Nat
      /\ IsFiniteSet(Workers) /\ Cardinality(Workers) \in Nat
  <2>1. Overdue(x) \subseteq Workers
    BY DEF Overdue
  <2>2. QED
    BY <2>1, FS_Subset, FS_CardinalityType, DeliveryAssumption
<1>2. CASE Untouched(x)
  <2>1. row'[x].attempts = row[x].attempts
    BY <1>2 DEF Untouched
  <2>2. Overdue(x)' \subseteq Overdue(x)
    BY <1>2, <2>1, OverdueShrinks
  <2>3. Cardinality(Overdue(x)') <= Cardinality(Overdue(x)) /\ Cardinality(Overdue(x)') \in Nat
    BY <1>1, <2>2, FS_Subset, FS_CardinalityType
  <2>4. row[x].attempts + Cardinality(Overdue(x)) <= MaxAttempts + Cardinality(Workers) - 1
    BY <2>1 DEF OverrunLeft
  <2>5. QED
    BY <1>0, <1>1, <2>1, <2>3, <2>4
<1>3. ASSUME NEW w \in Workers, LeasedBy(w, x)
      PROVE  row'[x].attempts + Cardinality(Overdue(x)')
               <= MaxAttempts + Cardinality(Workers) - 1
  <2>1. row'[x].attempts = row[x].attempts + 1
    BY <1>3, ClaimUsesOne
  <2>2. CASE row[x].attempts >= MaxAttempts
    <3>1. row[x].status # "pending"
      BY <1>0, <2>2 DEF Unleased
    <3>2. w \in Overdue(x) /\ Overdue(x)' \subseteq Overdue(x) \ {w}
      BY <1>3, <3>1, ClaimUsesOne
    <3>3. /\ IsFiniteSet(Overdue(x) \ {w})
          /\ Cardinality(Overdue(x) \ {w}) = Cardinality(Overdue(x)) - 1
      BY <1>1, <3>2, FS_RemoveElement
    <3>4. /\ Cardinality(Overdue(x)') <= Cardinality(Overdue(x)) - 1
          /\ Cardinality(Overdue(x)') \in Nat
      BY <3>2, <3>3, FS_Subset, FS_CardinalityType
    <3>5. row[x].attempts + Cardinality(Overdue(x)) <= MaxAttempts + Cardinality(Workers) - 1
      BY <2>2 DEF OverrunLeft
    <3>6. QED
      BY <1>0, <1>1, <2>1, <3>4, <3>5
  <2>3. CASE ~(row[x].attempts >= MaxAttempts)
    <3>1. row'[x].attempts = MaxAttempts
      BY <1>0, <2>1, <2>3
    <3>2. Overdue(x)' \subseteq Workers \ {w}
      BY <1>3, ClaimUsesOne
    <3>3. IsFiniteSet(Workers \ {w}) /\ Cardinality(Workers \ {w}) = Cardinality(Workers) - 1
      BY <1>1, FS_RemoveElement
    <3>4. /\ Cardinality(Overdue(x)') <= Cardinality(Workers) - 1
          /\ Cardinality(Overdue(x)') \in Nat
      BY <3>2, <3>3, FS_Subset, FS_CardinalityType
    <3>5. QED
      BY <1>0, <1>1, <3>1, <3>4
  <2>4. QED
    BY <2>2, <2>3
<1>4. QED
  BY <1>2, <1>3, RowLeased

\* However often a row is claimed anew, it is attempted at most MAX_ATTEMPTS times, and
\* once more for each further worker (_fail_exhausted, _claim): the docstring's "rows out
\* of attempts never qualify" fails by that much and no more.
THEOREM OverrunHolds == Spec => []OverrunBounded
<1> DEFINE OInv == TypeOK /\ Working /\ PassOrder /\ Unleased /\ OverrunLeft
<1>1. Init => OInv
  <2> SUFFICES ASSUME Init PROVE OInv
    OBVIOUS
  <2>1. TypeOK /\ Working
    BY TypesInit DEF Init, Idle, Working
  <2>2. PassOrder
    BY DEF Init, Idle, PassOrder
  <2>3. \A x \in Rows : row[x].attempts = 0
    BY DEF Init, Absent
  <2>4. Unleased /\ OverrunLeft
    BY <2>3, DeliveryAssumption DEF Unleased, OverrunLeft
  <2>5. QED
    BY <2>1, <2>2, <2>4
<1>2. OInv /\ [Next]_vars => OInv'
  BY TypesStep, WorkingStep, PassOrderStep, UnleasedStep, OverrunLeftStep
<1>3. OInv => OverrunBounded
  <2> SUFFICES ASSUME OInv, NEW x \in Rows
               PROVE  row[x].attempts <= MaxAttempts + Cardinality(Workers) - 1
    BY DEF OverrunBounded
  <2>1. /\ Overdue(x) \subseteq Workers
        /\ row[x].attempts \in Nat
    BY DEF Overdue, TypeOK, Row
  <2>2. Cardinality(Overdue(x)) \in Nat /\ Cardinality(Workers) \in Nat
    BY <2>1, FS_Subset, FS_CardinalityType, DeliveryAssumption
  <2>3. QED
    BY <2>1, <2>2, DeliveryAssumption DEF OverrunLeft
<1>4. QED
  BY <1>1, <1>2, <1>3, PTL DEF Spec
=============================================================================
