------------------------------- MODULE Writes -------------------------------
(***************************************************************************)
(* The account's idempotent writes (src/src/daily_agent/api.py and         *)
(* services.py): tasks and reminders under a client's key, the task a      *)
(* message promises, events of the internal webhook under their id, and    *)
(* one rating per reply.  All of them look for the row, insert it if they  *)
(* found none, and leave it to the table's unique index to decide between  *)
(* requests that looked at the same time; they differ in what the loser    *)
(* then does.                                                              *)
(***************************************************************************)
EXTENDS Integers, FiniteSets

CONSTANTS
  Writes,  \* the requests made, each any number of times
  Writers  \* the threads that serve them

Tables == {"task", "reminder", "event", "rating"}

\* A request names the row it writes (a table and a key) and the row's content: a
\* title, a reminder's text and time, a payload's hash, a rating.  A "message" is a
\* reply that claims to have made a task; its key is the message's with ":task".
Target(w) == [table |-> IF w.kind = "message" THEN "task" ELSE w.kind, key |-> w.key]
Targets == {Target(w) : w \in Writes}
NoRow == [value |-> {}]
Row(w) == [value |-> {w.value}]
RowsOf(t) == {NoRow} \cup {Row(w) : w \in {v \in Writes : Target(v) = t}}

ASSUME WritesAssumption ==
  \A w \in Writes : w.kind \in Tables \cup {"message"} /\ w.key \in STRING /\ w.value \in STRING

VARIABLES
  rows,      \* target -> its row
  completed, \* the tasks marked completed
  writer,    \* thread -> the request it serves and how far it is
  told       \* history: requests answered with success, ratings apart

writeVars == <<rows, completed, writer, told>>

\* "seen" is history: the rows the target had while the request was served.
NotWriting == [pc |-> "idle", ask |-> {}, seen |-> {}]

WritesTypeOK ==
  /\ rows \in [Targets -> UNION {RowsOf(t) : t \in Targets}]
  /\ \A t \in Targets : rows[t] \in RowsOf(t)
  /\ completed \subseteq {t \in Targets : t.table = "task" /\ rows[t] # NoRow}
  /\ \A p \in Writers : /\ writer[p].pc \in {"idle", "look", "insert", "update", "again"}
                        /\ writer[p].ask \subseteq Writes
                        /\ (writer[p].ask = {}) = (writer[p].pc = "idle")
  /\ told \subseteq Writes

WritesInit ==
  /\ rows = [t \in Targets |-> NoRow]
  /\ completed = {}
  /\ writer = [p \in Writers |-> NotWriting]
  /\ told = {}

Ask(p) == CHOOSE w \in writer[p].ask : TRUE
At(p) == Target(Ask(p))
Here(p) == rows[At(p)]

\* A request ends with success, or with a conflict (409) or an error (500).
Told(p) == told \cup {w \in writer[p].ask : w.kind # "rating"}

Answer(p) ==
  /\ told' = Told(p)
  /\ writer' = [writer EXCEPT ![p] = NotWriting]

Refuse(p) ==
  /\ writer' = [writer EXCEPT ![p] = NotWriting]
  /\ UNCHANGED told

GoOn(p, pc) ==
  /\ writer' = [writer EXCEPT ![p].pc = pc]
  /\ UNCHANGED told

\* A row is stored; every request under way for it sees the new one.
Store(t, row) == rows' = [rows EXCEPT ![t] = row]
SeenAlso(t, row) ==
  [p \in Writers |-> IF writer[p].pc # "idle" /\ At(p) = t
                     THEN [writer[p] EXCEPT !.seen = @ \cup {row}] ELSE writer[p]]

-----------------------------------------------------------------------------
\* A request arrives; a message, which has its own key and its own replies
\* (Messages), comes to its insert without looking for the task.
Arrive(p) ==
  \E w \in Writes :
    /\ writer[p].pc = "idle"
    /\ writer' = [writer EXCEPT ![p] =
         [pc |-> IF w.kind = "message" THEN "insert" ELSE "look", ask |-> {w},
          seen |-> {rows[Target(w)]}]]
    /\ UNCHANGED <<rows, completed, told>>

\* The first select of create_task_idempotent, create_reminder and
\* accept_internal_event: the same content is answered from the row, another is a
\* conflict.
LookForRow(p) ==
  /\ writer[p].pc = "look" /\ Ask(p).kind # "rating"
  /\ \/ Here(p) = NoRow /\ GoOn(p, "insert")
     \/ Here(p) = Row(Ask(p)) /\ Answer(p)
     \/ Here(p) \notin {NoRow, Row(Ask(p))} /\ Refuse(p)
  /\ UNCHANGED <<rows, completed>>

\* The select of rate_reply's upsert.
LookForRating(p) ==
  /\ writer[p].pc = "look" /\ Ask(p).kind = "rating"
  /\ \/ Here(p) = NoRow /\ GoOn(p, "insert")
     \/ Here(p) = Row(Ask(p)) /\ Answer(p)
     \/ Here(p) \notin {NoRow, Row(Ask(p))} /\ GoOn(p, "update")
  /\ UNCHANGED <<rows, completed>>

\* The insert and its commit, when the index lets it pass.
Insert(p) ==
  /\ writer[p].pc = "insert" /\ Here(p) = NoRow
  /\ Store(At(p), Row(Ask(p)))
  /\ told' = Told(p)
  /\ writer' = [SeenAlso(At(p), Row(Ask(p))) EXCEPT ![p] = NotWriting]
  /\ UNCHANGED completed

\* (mutant of LoserGoesTo: a lost rating is taken for an identical one)
LoserAnswers(w) ==
  IF w.kind = "task" THEN "again" ELSE IF w.kind = "rating" THEN "answer" ELSE "error"

\* What the loser of an insert does after its rollback: a task is looked for once
\* more, a rating is upserted once more, and a reminder, an event or a message
\* ends with an error (the message's reply goes with its task).
LoserGoesTo(w) ==
  IF w.kind = "task" THEN "again" ELSE IF w.kind = "rating" THEN "look" ELSE "error"

LoseInsert(p) ==
  /\ writer[p].pc = "insert" /\ Here(p) # NoRow
  /\ \/ LoserGoesTo(Ask(p)) = "error" /\ Refuse(p)
     \/ LoserGoesTo(Ask(p)) = "answer" /\ Answer(p)
     \/ LoserGoesTo(Ask(p)) \in {"again", "look"} /\ GoOn(p, LoserGoesTo(Ask(p)))
  /\ UNCHANGED <<rows, completed>>

\* (mutant of Recovers: the winner's title is not compared)
RecoversAny(row, w) == row # NoRow

\* The comparison with the winner's title.
Recovers(row, w) == row = Row(w)

\* create_task's recovery: the winner's row answers a request of the same title.
RecoverTask(p) ==
  /\ writer[p].pc = "again"
  /\ \/ Recovers(Here(p), Ask(p)) /\ Answer(p)
     \/ ~Recovers(Here(p), Ask(p)) /\ Refuse(p)
  /\ UNCHANGED <<rows, completed>>

\* The update of a rating: the last commit wins.
UpdateRating(p) ==
  /\ writer[p].pc = "update"
  /\ Store(At(p), Row(Ask(p)))
  /\ told' = Told(p)
  /\ writer' = [SeenAlso(At(p), Row(Ask(p))) EXCEPT ![p] = NotWriting]
  /\ UNCHANGED completed

\* complete_task, from any member of the account.
CompleteTask ==
  \E t \in Targets :
    /\ t.table = "task" /\ rows[t] # NoRow
    /\ completed' = completed \cup {t}
    /\ UNCHANGED <<rows, writer, told>>

WritesNext ==
  \/ \E p \in Writers :
       \/ Arrive(p) \/ LookForRow(p) \/ LookForRating(p) \/ Insert(p)
       \/ LoseInsert(p) \/ RecoverTask(p) \/ UpdateRating(p)
  \/ CompleteTask

WritesSpec == WritesInit /\ [][WritesNext]_writeVars

-----------------------------------------------------------------------------
\* Success means stored: a request answered with success (first, repeated or
\* recovered) finds its own content under its key for good, and no other request
\* of that key with other content is ever told success; the task a stored reply
\* claims is there (create_task, create_reminder, accept_internal_event,
\* _apply_intent).
AnswersTrue ==
  \A w \in told : rows[Target(w)] = Row(w)

\* Whoever overlaps, a rating that was answered was the reply's rating at some
\* moment of the request: ratings take effect one after the other (rate_reply,
\* with its update that writes nothing when the row read already agrees).
RatingsTakeEffect ==
  [][\A p \in Writers : \A w \in writer[p].ask :
       (w.kind = "rating" /\ writer'[p] = NotWriting) =>
         Row(w) \in writer[p].seen \cup {rows'[Target(w)]}]_writeVars
=============================================================================
