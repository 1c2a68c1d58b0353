----------------------------- MODULE Telemetry -----------------------------
(***************************************************************************)
(* Routing evidence and its export (parakh/routing.py, telemetry.py): each *)
(* run that completes leaves a record, the live decision and perhaps a     *)
(* shadow decision, in the transaction that stores its reply; an operator  *)
(* exports those of a window, with one query after the other while other   *)
(* transactions commit.                                                    *)
(***************************************************************************)
EXTENDS Integers, FiniteSets

CONSTANTS
  Runs,         \* runs that may be made
  RegeneratedFrom, \* run -> the set of the run it regenerates, empty for a first reply
  Models,       \* run -> the models its decision and attempts name
  Registries,   \* what the registry may list over time: sets of models
  Windows,      \* [from, to): the windows operators export
  MaxTime       \* MODEL BOUND: the clock

ASSUME TelemetryAssumption ==
  /\ MaxTime \in Nat
  /\ \A w \in Windows : w.from \in Nat /\ w.to \in Nat
  /\ \A r \in Runs : RegeneratedFrom[r] \subseteq Runs /\ Cardinality(RegeneratedFrom[r]) <= 1

VARIABLES
  time,      \* the clock
  completed, \* run -> when its reply was complete, or NotYet
  rows,      \* committed rows, [kind, run]
  ratings,   \* run -> the rating on its reply
  registry,  \* the registry file
  export,    \* the export under way: its window and what its queries have returned
  batches    \* window -> the entries of the last batch written of it

telemetryVars == <<time, completed, rows, ratings, registry, export, batches>>

NotYet == MaxTime + 1
Kinds == {"run", "record", "live", "shadow"}
RowSet == [kind : Kinds, run : Runs]
Has(kind, r) == [kind |-> kind, run |-> r] \in rows
With(kind) == {r \in Runs : Has(kind, r)}

NoExport ==
  [pc |-> "idle", window |-> {}, records |-> {}, decisions |-> {}, rated |-> {},
   children |-> {}, retries |-> {}]

TelemetryTypeOK ==
  /\ time \in 0..MaxTime
  /\ completed \in [Runs -> 0..NotYet]
  /\ rows \subseteq RowSet
  /\ ratings \in [Runs -> {"none", "up", "down"}]
  /\ registry \in Registries
  /\ export.pc \in {"idle", "decisions", "ratings", "children", "retries", "write"}
  /\ export.window \subseteq Windows
  /\ \A s \in {export.records, export.children, export.retries} : s \subseteq Runs
  /\ export.decisions \subseteq RowSet

TelemetryInit ==
  /\ time = 0
  /\ completed = [r \in Runs |-> NotYet]
  /\ rows = {}
  /\ ratings = [r \in Runs |-> "none"]
  /\ registry \in Registries
  /\ export = NoExport
  /\ batches = [w \in Windows |-> {}]

-----------------------------------------------------------------------------
(* Requests.                                                               *)

\* A first reply, or a regeneration of a stored one, is complete; the time is taken here.
CompleteRun(r) ==
  /\ completed[r] = NotYet
  /\ RegeneratedFrom[r] \subseteq With("record")
  /\ completed' = [completed EXCEPT ![r] = time]
  /\ UNCHANGED <<time, rows, ratings, registry, export, batches>>

\* (mutant of Evidence: the live decision is left out beside a shadow decision)
EvidenceOnce(r, shadowed) ==
  [kind : {"run", "record"} \cup (IF shadowed THEN {"shadow"} ELSE {"live"}), run : {r}]

\* The rows of a run.  Shadow evaluation is best effort: without a bundle, or with one
\* that cannot answer, there is no shadow decision and the rest is the same.
Evidence(r, shadowed) ==
  [kind : {"run", "record", "live"} \cup (IF shadowed THEN {"shadow"} ELSE {}), run : {r}]

\* The reply's transaction commits, at some time later; or fails, and the run is stored
\* as failed with no evidence.
SaveRun(r) ==
  /\ completed[r] # NotYet /\ ~Has("run", r)
  /\ rows' \in {rows \cup Evidence(r, TRUE), rows \cup Evidence(r, FALSE),
                rows \cup {[kind |-> "run", run |-> r]}}
  /\ UNCHANGED <<time, completed, ratings, registry, export, batches>>

RateRun(r, rating) ==
  /\ Has("record", r) /\ ratings[r] # rating
  /\ ratings' = [ratings EXCEPT ![r] = rating]
  /\ UNCHANGED <<time, completed, rows, registry, export, batches>>

TimeGoesOn ==
  /\ time < MaxTime /\ time' = time + 1
  /\ UNCHANGED <<completed, rows, ratings, registry, export, batches>>

\* A release ships another reviewed registry.
ReviewRegistry(models) ==
  /\ models # registry /\ registry' = models
  /\ UNCHANGED <<time, completed, rows, ratings, export, batches>>

-----------------------------------------------------------------------------
(* build_telemetry_batch.                                                  *)

\* (mutant of InWindow: the window's end is part of it)
InClosedWindow(r, w) == completed[r] \in w.from..w.to

InWindow(r, w) == w.from <= completed[r] /\ completed[r] < w.to

\* One step per query; each sees what is committed by then.
ReadRecords(w) ==
  /\ export.pc = "idle" /\ w.from < w.to
  /\ export' = [NoExport EXCEPT !.pc = "decisions", !.window = {w},
                  !.records = {r \in With("record") : InWindow(r, w)}]
  /\ UNCHANGED <<time, completed, rows, ratings, registry, batches>>

\* The rows of those runs, and their decisions.
ReadDecisions ==
  /\ export.pc = "decisions"
  /\ export' = [export EXCEPT !.pc = "ratings",
                  !.decisions = {d \in rows : d.kind \in {"live", "shadow"} /\
                                               d.run \in export.records}]
  /\ UNCHANGED <<time, completed, rows, ratings, registry, batches>>

ReadRatings ==
  /\ export.pc = "ratings"
  /\ export' = [export EXCEPT !.pc = "children",
                  !.rated = {[run |-> r, up |-> ratings[r] = "up"] :
                               r \in {q \in export.records : ratings[q] # "none"}}]
  /\ UNCHANGED <<time, completed, rows, ratings, registry, batches>>

\* The runs that regenerate one of those, and which of them have a record.
ReadChildren ==
  /\ export.pc = "children"
  /\ export' = [export EXCEPT !.pc = "retries",
                  !.children = {c \in With("run") : RegeneratedFrom[c] \cap export.records # {}}]
  /\ UNCHANGED <<time, completed, rows, ratings, registry, batches>>

ReadChildRecords ==
  /\ export.pc = "retries"
  /\ export' = [export EXCEPT !.pc = "write", !.retries = export.children \cap With("record")]
  /\ UNCHANGED <<time, completed, rows, ratings, registry, batches>>

\* What a run's entry says; the attempts and features are the record's.
Entry(r) ==
  [run |-> r,
   decisions |-> {d.kind : d \in {e \in export.decisions : e.run = r}},
   accepted |-> {s.up : s \in {t \in export.rated : t.run = r}},
   retried |-> {c \in export.retries : r \in RegeneratedFrom[c]}]

\* (mutant of Shipped: runs with unknown models are left out)
ShippedKnown == {r \in export.records : Models[r] \subseteq registry}

\* The runs of the batch: all of the window.
Shipped == export.records

\* A batch that names a model the registry no longer lists is refused.  Its id is a
\* digest of window and entries, which here stand for it.
WriteBatch ==
  LET w == CHOOSE w \in export.window : TRUE IN
  /\ export.pc = "write"
  /\ batches' = IF UNION {Models[r] : r \in Shipped} \subseteq registry
                THEN [batches EXCEPT ![w] = {Entry(r) : r \in Shipped}]
                ELSE batches
  /\ export' = NoExport
  /\ UNCHANGED <<time, completed, rows, ratings, registry>>

TelemetryNext ==
  \/ \E r \in Runs : \/ CompleteRun(r) \/ SaveRun(r)
                     \/ \E rating \in {"up", "down"} : RateRun(r, rating)
  \/ TimeGoesOn
  \/ \E models \in Registries : ReviewRegistry(models)
  \/ \E w \in Windows : ReadRecords(w)
  \/ ReadDecisions \/ ReadRatings \/ ReadChildren \/ ReadChildRecords \/ WriteBatch

TelemetrySpec == TelemetryInit /\ [][TelemetryNext]_telemetryVars

-----------------------------------------------------------------------------
(* Properties.                                                             *)

\* Every exported run comes with its one live decision, at most a shadow decision
\* besides, and retries that have evidence of their own, though transactions commit
\* between the queries (build_telemetry_batch, _run).
WholeEntries ==
  \A w \in Windows : \A e \in batches[w] :
    /\ "live" \in e.decisions /\ e.decisions \subseteq {"live", "shadow"}
    /\ \A c \in e.retried : Has("live", c)

\* Windows that follow one another share no run ("completed in [start, end)").
EachRunInOneWindow ==
  \A v, w \in Windows : v.to <= w.from =>
    \A e \in batches[v], f \in batches[w] : e.run # f.run

\* The batches of consecutive windows add up: each of their runs is there once, whole.
BatchesAddUp == WholeEntries /\ EachRunInOneWindow

\* Exporting a window again adds the runs that were committed late and loses none,
\* even when a model has left the registry (late-arriving runs; the refusal).
ReexportGrows ==
  [][\A w \in Windows :
       {e.run : e \in batches[w]} \subseteq {e.run : e \in batches'[w]}]_telemetryVars
=============================================================================
