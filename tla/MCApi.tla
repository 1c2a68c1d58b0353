------------------------------- MODULE MCApi -------------------------------
(***************************************************************************)
(* The parts of the API on a small instance.                               *)
(***************************************************************************)
EXTENDS Api

CONSTANTS u1, u2, a1

\* One account; two users where the billing webhook is left out.
MCAccountOf == [u \in Users |-> a1]

\* The plan is bought and cancelled; either event may come first, or twice.
MCBillingEvents ==
  {[id |-> "bought", account |-> a1, version |-> 1, type |-> "activated", plan |-> 3],
   [id |-> "cancelled", account |-> a1, version |-> 2, type |-> "cancelled", plan |-> 3]}

\* A leap year's February between longer months.
MCMonthDays == <<31, 29, 31, 30>>

\* A client and a message that use one task key, with two titles and two ratings.
MCWrites ==
  [kind : {"task"}, key : {"k:task"}, value : {"a", "b"}]
  \cup [kind : {"message", "reminder", "event"}, key : {"k:task"}, value : {"a"}]
  \cup [kind : {"rating"}, key : {"run"}, value : {"up", "down"}]
=============================================================================
