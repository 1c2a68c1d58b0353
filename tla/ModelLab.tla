------------------------------ MODULE ModelLab ------------------------------
(***************************************************************************)
(* The offline evaluation harness (src/src/model_lab, with its client      *)
(* src/src/daily_agent/opencode.py): a live run asks free models every     *)
(* case of a split within a declared number of requests; a deterministic   *)
(* run stores its attempts and grades in SQLite, one commit after the      *)
(* other.                                                                  *)
(***************************************************************************)
EXTENDS Integers, Sequences, FiniteSets

CONSTANTS
  Cases,      \* the suite, in order: a sequence of [id, split, method]
  LabModels,  \* the models that may be chosen
  Allowlist,  \* FREE_MODELS
  MaxRequests \* values of --max-requests

ASSUME ModelLabAssumption ==
  /\ MaxRequests \subseteq Nat \ {0}
  /\ IsFiniteSet(LabModels)
  /\ Cases \in Seq([id : STRING, split : {"train", "calibration", "holdout"}, method : STRING])

VARIABLES
  run,      \* the live run under way: [pc, models, cap, split, todo, requests, attempts]
  outputs,  \* history: the runs written last, at most one, [models, split, attempts]
  stored,   \* the attempts in SQLite: id -> [case, status], ids are [model, index]
  grades,   \* id -> status
  filling   \* the deterministic run under way: [pc, model, index, every]

labVars == <<run, outputs, stored, grades, filling>>

Index == DOMAIN Cases
AttemptIds == [model : LabModels, index : Index]
NoRun == [pc |-> "idle", models |-> {}, cap |-> 0, split |-> "all", todo |-> {}, requests |-> 0,
          attempts |-> {}]
NoFilling == [pc |-> "idle", model |-> "none", index |-> 0, every |-> 0]

LabTypeOK ==
  /\ run.pc \in {"idle", "catalog", "ask"} /\ run.models \subseteq LabModels
  /\ run.todo \subseteq AttemptIds
  /\ \A a \in run.attempts : a.id \in AttemptIds /\ a.status \in {"completed", "failed"}
  /\ DOMAIN stored \subseteq AttemptIds /\ DOMAIN grades \subseteq DOMAIN stored
  /\ filling.pc \in {"idle", "attempt", "grade"}
  /\ filling.pc # "idle" => filling.model \in LabModels /\ filling.index \in Index

LabInit ==
  /\ run = NoRun
  /\ outputs = {}
  /\ stored = <<>> /\ grades = <<>>
  /\ filling = NoFilling

-----------------------------------------------------------------------------
(* run-opencode.                                                           *)

Selected(split) == {i \in Index : split = "all" \/ Cases[i].split = split}
Plan(models, split) == [model : models, index : Selected(split)]

\* (mutant of PlannedRequests: the catalog check is not counted)
PlannedPrompts(models, split) == Cardinality(Plan(models, split))

\* The catalog check is a request too.
PlannedRequests(models, split) == Cardinality(Plan(models, split)) + 1

\* A plan with models outside the allowlist, without cases or beyond the cap is refused.
StartRun(models, split, cap) ==
  /\ run.pc = "idle"
  /\ models # {} /\ models \subseteq Allowlist
  /\ Selected(split) # {}
  /\ PlannedRequests(models, split) <= cap
  /\ run' = [NoRun EXCEPT !.pc = "catalog", !.models = models, !.cap = cap, !.split = split]
  /\ UNCHANGED <<outputs, stored, grades, filling>>

\* One request for the provider's catalog; without it, or when it lacks a model, no
\* candidate is asked.
FetchCatalog ==
  /\ run.pc = "catalog"
  /\ run' \in {[run EXCEPT !.pc = "ask", !.requests = 1, !.todo = Plan(run.models, run.split)],
               NoRun}
  /\ UNCHANGED <<outputs, stored, grades, filling>>

\* (mutant of Attempt: a failure leaves no attempt)
AttemptCompleted(id, status) ==
  IF status = "completed" THEN {[id |-> id, status |-> status]} ELSE {}

\* An answer and a failure are both an attempt.
Attempt(id, status) == {[id |-> id, status |-> status]}

\* A pair is asked once, in an order nothing depends on: an answer with text completes
\* it; an HTTP error, a timeout, another format, empty or overlong text fail it.
AskModel(id, status) ==
  /\ run.pc = "ask" /\ id \in run.todo
  /\ run' = [run EXCEPT !.requests = @ + 1, !.todo = @ \ {id},
                        !.attempts = @ \cup Attempt(id, status)]
  /\ UNCHANGED <<outputs, stored, grades, filling>>

\* The manifest and the attempts are written to a directory that did not exist.
FinishRun ==
  /\ run.pc = "ask" /\ run.todo = {}
  /\ outputs' = {[models |-> run.models, split |-> run.split, attempts |-> run.attempts]}
  /\ run' = NoRun
  /\ UNCHANGED <<stored, grades, filling>>

\* A run that is interrupted writes nothing.
InterruptRun ==
  /\ run.pc # "idle"
  /\ run' = NoRun
  /\ UNCHANGED <<outputs, stored, grades, filling>>

-----------------------------------------------------------------------------
(* run, db-report and router recommend.                                    *)

\* With "every" above zero, each attempt whose number it divides is made to fail.  A suite
\* without cases makes none.
StartFilling(model, every) ==
  /\ filling.pc = "idle" /\ Cases # <<>>
  /\ filling' = [pc |-> "attempt", model |-> model, index |-> 1, every |-> every]
  /\ UNCHANGED <<run, outputs, stored, grades>>

Id == [model |-> filling.model, index |-> filling.index]
Status == IF filling.every > 0 /\ filling.index % filling.every = 0 THEN "failed" ELSE "completed"

\* (mutant of Advance: the last case is not the end)
AdvancePast ==
  filling' = IF filling.index > Len(Cases) THEN NoFilling
             ELSE [filling EXCEPT !.pc = "attempt", !.index = @ + 1]

\* The next case, if there is one.
Advance ==
  filling' = IF filling.index = Len(Cases) THEN NoFilling
             ELSE [filling EXCEPT !.pc = "attempt", !.index = @ + 1]

\* (mutant of Insertable: an attempt may be replaced)
InsertableAgain(id) == TRUE

\* Attempts are append-only by their id.
Insertable(id) == id \notin DOMAIN stored

Extended(f, id, value) == [i \in DOMAIN f \cup {id} |-> IF i = id THEN value ELSE f[i]]

\* One attempt is inserted and committed; the command fails if it is there already, from
\* an earlier run of the same model, finished or not.
AddAttempt ==
  /\ filling.pc = "attempt"
  /\ IF Insertable(Id)
     THEN /\ stored' = Extended(stored, Id, [case |-> Cases[filling.index].id, status |-> Status])
          /\ IF Status = "completed" THEN filling' = [filling EXCEPT !.pc = "grade"] ELSE Advance
     ELSE UNCHANGED stored /\ filling' = NoFilling
  /\ UNCHANGED <<run, outputs, grades>>

\* The fake's answer is the reference answer: an exact match where the case has one, and
\* left to a human otherwise.
Grade(case) == IF case.method = "exact_json" THEN "pass" ELSE "abstain"

AddGrade ==
  /\ filling.pc = "grade"
  /\ grades' = Extended(grades, Id, Grade(Cases[filling.index]))
  /\ Advance
  /\ UNCHANGED <<run, outputs, stored>>

InterruptFilling ==
  /\ filling.pc # "idle"
  /\ filling' = NoFilling
  /\ UNCHANGED <<run, outputs, stored, grades>>

\* The two kinds of run share neither file nor database.
LiveLabNext ==
  \/ \E models \in SUBSET LabModels, split \in {"all", "train", "calibration", "holdout"},
        cap \in MaxRequests : StartRun(models, split, cap)
  \/ FetchCatalog \/ FinishRun \/ InterruptRun
  \/ \E id \in run.todo, status \in {"completed", "failed"} : AskModel(id, status)

StoreLabNext ==
  \/ \E model \in LabModels, every \in {0, 2} : StartFilling(model, every)
  \/ AddAttempt \/ AddGrade \/ InterruptFilling

LabNext == LiveLabNext \/ StoreLabNext
LabSpec == LabInit /\ [][LabNext]_labVars

-----------------------------------------------------------------------------
(* Properties.                                                             *)

\* A live run never makes more requests than were declared, failures and the catalog
\* check included (run_opencode_candidates).
WithinRequestCap == run.requests <= run.cap

\* A run that is written has one attempt for every model and case it planned: failures
\* stay explicit.
EveryPairAttempted ==
  \A o \in outputs : LET ids == {a.id : a \in o.attempts} IN
    ids = Plan(o.models, o.split) /\ Cardinality(ids) = Cardinality(o.attempts)

\* A grade is that of an attempt that completed, whatever runs were interrupted or
\* repeated with other failures: attempts are append-only (LabStore).
GradesCompleted == \A id \in DOMAIN grades : stored[id].status = "completed"

\* What the harness leaves behind can be relied on: all three of these.
SoundEvidence == WithinRequestCap /\ EveryPairAttempted /\ GradesCompleted
=============================================================================
