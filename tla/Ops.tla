-------------------------------- MODULE Ops --------------------------------
(***************************************************************************)
(* Parakh's policies and what surrounds the service in operation, one at a *)
(* time: each behaviour is one part's, the others rest.                    *)
(***************************************************************************)
EXTENDS PolicyBundle, Telemetry, Deploy, ModelLab, DeviceJourney

CONSTANT Questions  \* what a policy may be asked, [policy, context, eligible, explore]

\* Unit counts finely enough: what exploration gives away can be shared out in parts.
ASSUME QuestionsAssumption ==
  \A q \in Questions :
    LET scores == Scores(q.policy, q.context, q.eligible) IN
    /\ q.policy.epsilon \in 0 .. Unit
    /\ q.explore \in BOOLEAN
    /\ q.eligible \subseteq Nat /\ IsFiniteSet(q.eligible)
    /\ \A a \in DOMAIN scores : scores[a] \in Int
    /\ DOMAIN scores # {} => q.policy.epsilon % Cardinality(DOMAIN scores) = 0

VARIABLES
  part,
  asked  \* the question put to a policy, where scoring is the part

Parts == {"bundles", "scoring", "telemetry", "deploy", "live", "store", "device"}
NoQuestion == <<>>

OpsInit ==
  /\ part \in Parts
  /\ asked \in IF part = "scoring" THEN Questions ELSE {NoQuestion}
  /\ BundleInit /\ TelemetryInit /\ DeployInit /\ LabInit /\ DeviceInit
  /\ part # "bundles" => settings = CHOOSE s \in Settings : TRUE
  /\ part # "telemetry" => registry = CHOOSE models \in Registries : TRUE
  /\ part # "deploy" => schema = 0

OpsNext ==
  /\ UNCHANGED <<part, asked>>
  /\ \/ /\ part = "bundles" /\ BundleNext
        /\ UNCHANGED <<telemetryVars, deployVars, labVars, deviceVars>>
     \/ /\ part = "telemetry" /\ TelemetryNext
        /\ UNCHANGED <<bundleVars, deployVars, labVars, deviceVars>>
     \/ /\ part = "deploy" /\ DeployNext
        /\ UNCHANGED <<bundleVars, telemetryVars, labVars, deviceVars>>
     \/ /\ part = "live" /\ LiveLabNext
        /\ UNCHANGED <<bundleVars, telemetryVars, deployVars, deviceVars>>
     \/ /\ part = "store" /\ StoreLabNext
        /\ UNCHANGED <<bundleVars, telemetryVars, deployVars, deviceVars>>
     \/ /\ part = "device" /\ DeviceNext
        /\ UNCHANGED <<bundleVars, telemetryVars, deployVars, labVars>>

opsVars == <<part, asked, bundleVars, telemetryVars, deployVars, labVars, deviceVars>>

OpsSpec == OpsInit /\ [][OpsNext]_opsVars

\* Every part keeps its variables within their types: bundle rows and copies, export
\* queries, environment files and images, attempts, the steps of the journey.
OpsTypeOK == BundleTypeOK /\ TelemetryTypeOK /\ DeployTypeOK /\ LabTypeOK /\ DeviceTypeOK

\* A policy answers as it says it does, whatever it is asked (LoadedPolicy.probabilities,
\* select).
ExactPropensity == part = "scoring" => ExactFor(asked)
=============================================================================
