------------------------------- MODULE MCOps -------------------------------
(***************************************************************************)
(* Parakh's policies and the operations on a small instance.               *)
(***************************************************************************)
EXTENDS Ops

-----------------------------------------------------------------------------
(* Bundles: two receives of one version with different contents, another   *)
(* version that is signed by another key, and settings that do not trust   *)
(* that key.                                                               *)

MCManifest(version) ==
  [schema |-> "PolicyBundleV1", version |-> version, features |-> "f", minimum |-> 1]
MCPolicy(epsilon, actions, best) ==
  [schema |-> "linucb.v1", size |-> 2, epsilon |-> epsilon,
   scores |-> [probe |-> [a \in actions |-> 0],
               request |-> [a \in actions |-> IF a = best THEN 1 ELSE 0]]]
MCDirectory(version, key, policy) ==
  LET files == [manifest |-> MCManifest(version), policy |-> policy,
                features |-> [id |-> "f", version |-> "routing-features.v1", size |-> 2]]
  IN  [signer |-> key, sealed |-> TRUE, listed |-> files, present |-> files]
MCSources ==
  {MCDirectory("v1", "k1", MCPolicy(6, {1, 2, 3}, 2)),
   MCDirectory("v1", "k1", MCPolicy(0, {1, 2}, 1)),
   MCDirectory("v2", "k2", MCPolicy(12, {1, 2}, 2))}
MCSettings ==
  {[trusted |-> {"k1", "k2"}, known |-> 1..3], [trusted |-> {"k1"}, known |-> 1..3]}

-----------------------------------------------------------------------------
(* Scoring: every order of three actions, ties included, a context that    *)
(* lacks a feature, no, some and full exploration.                         *)

MCQuestions ==
  [policy : {[epsilon |-> e, scores |-> [request |-> s]] :
               e \in {0, 6, 12}, s \in [1..3 -> 0..2] \cup [{1, 3} -> 0..1]},
   context : {"request", "incomplete"},
   eligible : SUBSET (1..3),
   explore : BOOLEAN]
-----------------------------------------------------------------------------
(* Telemetry: a reply and its regeneration by another model, which may     *)
(* leave the registry, and two windows that meet.                          *)

MCRegeneratedFrom == [r \in Runs |-> IF r = "again" THEN {"first"} ELSE {}]
MCModels == [r \in Runs |-> IF r = "first" THEN {"m1"} ELSE {"m2"}]
MCRegistries == {{"m1", "m2"}, {"m2"}}
MCWindows == {[from |-> 0, to |-> 1], [from |-> 1, to |-> 2]}

\* ModelLab: one case with an exact answer and one a human grades.
MCCases ==
  <<[id |-> "c1", split |-> "train", method |-> "exact_json"],
    [id |-> "c2", split |-> "holdout", method |-> "rubric"]>>
=============================================================================
