------------------------------- MODULE Policy -------------------------------
(***************************************************************************)
(* Parakh's PolicyBundleV1 (src/src/daily_agent/parakh/bundle.py): what    *)
(* Karmi verifies of a bundle directory before it loads the policy in it,  *)
(* and how a loaded policy chooses among the actions a request may take.   *)
(***************************************************************************)
EXTENDS Integers, FiniteSets, FiniteSetsExt, Functions

CONSTANTS
  Unit,         \* the number of parts a probability is counted in
  KarmiVersion  \* __version__ of the program that loads

ASSUME PolicyAssumption == Unit \in Nat \ {0} /\ KarmiVersion \in Nat

\* An action ("provider/model") is a number: its place in the order of names.
\*
\* A directory is a record:
\*   signer, sealed   the key signature.sig names; whether checksums.json is signed by it
\*   listed, present  file -> contents, as checksums.json lists it and as it is on disk
\* A digest stands for what it is the digest of.  Of the documents, the manifest holds
\* [schema, version, features, minimum]; the feature schema [id, version, size]; the policy
\* [schema, size, epsilon, scores], its scores those its parameters give each action in
\* each context that supplies every feature.
RequiredFiles == {"manifest", "policy", "features"}

\* The context that every policy is tried on.
Probe == "probe"

-----------------------------------------------------------------------------
(* Scoring.                                                                *)

\* The eligible actions the policy knows, with their scores; none when the context
\* lacks a feature.
Scores(policy, context, eligible) ==
  IF context \notin DOMAIN policy.scores THEN <<>>
  ELSE [a \in eligible \cap DOMAIN policy.scores[context] |-> policy.scores[context][a]]

\* The best action, the first in the order of names among equals.
Greedy(scores) ==
  Min({a \in DOMAIN scores : \A b \in DOMAIN scores : scores[b] <= scores[a]})

\* A distribution over the scored actions: all of it to the best, but for the part that
\* exploration shares out evenly.
Probabilities(policy, context, eligible, explore) ==
  LET scores == Scores(policy, context, eligible)
      epsilon == IF explore THEN policy.epsilon ELSE 0
      share == epsilon \div Cardinality(DOMAIN scores)
  IN  IF DOMAIN scores = {} THEN <<>>
      ELSE [a \in DOMAIN scores |-> IF a = Greedy(scores) THEN Unit - epsilon + share ELSE share]

UpTo(distribution, a) ==
  SumFunctionOnSet(distribution, {b \in DOMAIN distribution : b <= a})

\* (mutant of Drawn: a draw on the border falls to the action before it)
DrawnLate(distribution, draw) ==
  Min({a \in DOMAIN distribution : draw <= UpTo(distribution, a)})

\* The action a draw in 0..Unit-1 falls to.
Drawn(distribution, draw) ==
  Min({a \in DOMAIN distribution : draw < UpTo(distribution, a)})

\* Whether an action counts as explored: it is not the likeliest (the first of those).
Explores(distribution, chosen) ==
  chosen # Min({a \in DOMAIN distribution :
                  \A b \in DOMAIN distribution : distribution[b] <= distribution[a]})

-----------------------------------------------------------------------------
(* Verification.                                                           *)

Intact(dir) == dir.present = dir.listed

\* The documents are what this program understands.
Readable(dir) ==
  LET manifest == dir.present["manifest"]
      policy == dir.present["policy"]
      features == dir.present["features"]
  IN  /\ manifest.schema = "PolicyBundleV1"
      /\ policy.schema = "linucb.v1"
      /\ features.version = "routing-features.v1"
      /\ manifest.features = features.id
      /\ policy.size = features.size
      /\ policy.epsilon \in 0..Unit
      /\ manifest.minimum <= KarmiVersion

\* It names known actions, scores every one of them on the probe, and its distribution
\* over them is one.
SelfTest(policy, known) ==
  LET actions == UNION {DOMAIN policy.scores[c] : c \in DOMAIN policy.scores}
      distribution == Probabilities(policy, Probe, actions, TRUE)
  IN  /\ actions # {} /\ actions \subseteq known
      /\ DOMAIN distribution = actions
      /\ SumFunctionOnSet(distribution, actions) = Unit

Verified(dir, settings) ==
  /\ dir.signer \in settings.trusted /\ dir.sealed
  /\ Intact(dir) /\ RequiredFiles \subseteq DOMAIN dir.listed
  /\ Readable(dir)
  /\ SelfTest(dir.present["policy"], settings.known)

VersionOf(dir) == dir.present["manifest"].version
PolicyOf(dir) == dir.present["policy"]

-----------------------------------------------------------------------------
(* What a question to a policy is answered with.                           *)

\* For one question, [policy, context, eligible, explore]: the probability logged with a
\* choice is the share of draws that make it, the shares are one, a choice that is not
\* best among the eligible counts as explored, and without exploration none is made
\* (probabilities, select).
ExactFor(q) ==
  LET p == Probabilities(q.policy, q.context, q.eligible, q.explore)
      scores == Scores(q.policy, q.context, q.eligible)
      worse(a) == \E b \in DOMAIN scores : scores[b] > scores[a]
  IN  /\ \A a \in DOMAIN p :
           /\ Cardinality({draw \in 0..Unit - 1 : Drawn(p, draw) = a}) = p[a]
           /\ (worse(a) /\ q.policy.epsilon < Unit) => Explores(p, a)
           /\ (~q.explore /\ p[a] > 0) => ~worse(a)
      /\ DOMAIN p # {} => SumFunctionOnSet(p, DOMAIN p) = Unit
=============================================================================
