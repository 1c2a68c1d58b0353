---------------------------- MODULE AtLeastOnce ----------------------------
(***************************************************************************)
(* What the delivery worker promises of every row of the outbox and of     *)
(* every reminder (src/src/daily_agent/worker.py, 1-11): it is delivered   *)
(* at least once or given up, it is called delivered only after it was     *)
(* sent, and what was decided about it is never changed.                   *)
(***************************************************************************)
CONSTANT Rows

VARIABLES
  fate,  \* what has been decided about each row
  sent   \* the rows handed to the channel at least once

Fates == {"absent", "open", "delivered", "failed"}

Init ==
  /\ fate = [x \in Rows |-> "absent"]
  /\ sent = {}

Post(x) ==
  /\ fate[x] = "absent"
  /\ fate' = [fate EXCEPT ![x] = "open"]
  /\ UNCHANGED sent

\* A row that was posted may be sent, even once its fate is decided: a worker
\* that lost its lease does not know.
Send(x) ==
  /\ fate[x] # "absent"
  /\ sent' = sent \cup {x}
  /\ UNCHANGED fate

Deliver(x) ==
  /\ fate[x] = "open"
  /\ x \in sent
  /\ fate' = [fate EXCEPT ![x] = "delivered"]
  /\ UNCHANGED sent

\* One UPDATE gives up every exhausted row of a table.
GiveUp(gone) ==
  /\ \A x \in gone : fate[x] = "open"
  /\ fate' = [x \in Rows |-> IF x \in gone THEN "failed" ELSE fate[x]]
  /\ UNCHANGED sent

Next ==
  \/ \E x \in Rows : Post(x) \/ Send(x) \/ Deliver(x)
  \/ \E gone \in SUBSET Rows : GiveUp(gone)

Spec == Init /\ [][Next]_<<fate, sent>>
=============================================================================
