------------------------------ MODULE OpsProofs ------------------------------
(***************************************************************************)
(* Theorems about what surrounds the service in operation, for every value *)
(* of the constants.                                                       *)
(***************************************************************************)
EXTENDS Ops, PolicyBundleProofs, SumTheorems

-----------------------------------------------------------------------------
(***************************************************************************)
(* Deployment: one secret survives every command that was abandoned, and a *)
(* deploy reports what was built under its tag, for any number of versions *)
(* and secrets.                                                            *)
(***************************************************************************)
\* Every variable has its type.
DeployTypes ==
  /\ tree \in [sha : Texts, text : Texts]
  /\ azure \in [secret : 0..MaxSecret, registry : BOOLEAN, tag : Tags \cup {NoTag}]
  /\ prodEnv \in 0..MaxSecret
  /\ images \in [Tags -> [pushed : SUBSET Texts, last : Texts \cup {None}]]
  /\ app \in [exists : BOOLEAN, secret : 0..MaxSecret, tag : Tags \cup {NoTag},
              serving : Revision, coming : Revision]
  /\ schema \in 0..Foreign
  /\ command \in [pc : {"idle", "upgrade", "registry", "tag", "image", "push", "app", "update",
                        "wait"},
                  tag : Tags \cup {NoTag}, text : Texts \cup {None}, secret : 0..MaxSecret]
  /\ reported \in Revision
  /\ secrets \in 0..MaxSecret

\* The secret of .env.azure is the one a deploy under way uses, and the app's from the moment
\* the deploy has given it; without an app, no tool has one.
SecretsAgree ==
  /\ OneSecret
  /\ app.exists => azure.secret # None
  /\ ~app.exists => prodEnv = None
  /\ command.pc \in {"app", "update", "wait"} =>
       command.secret = azure.secret /\ azure.secret # None
  /\ command.pc \in {"update", "wait"} => app.exists

\* A revision is empty or has a tag and a text that was pushed under it.
Pushed(revision) ==
  revision.text # None => revision.tag \in Tags /\ revision.text \in images[revision.tag].pushed

\* What serves, comes and was reported was pushed; what is built or deployed has a tag.
ImagesPushed ==
  /\ \A t \in Tags : images[t].last \in images[t].pushed \cup {None}
  /\ Pushed(app.serving) /\ Pushed(app.coming) /\ Pushed(reported)
  /\ app.serving.text = None => app.serving.tag = NoTag
  /\ reported = NoRevision \/ reported.text # None
  /\ command.pc \in {"image", "push", "app", "update", "wait"} => command.tag \in Tags
  /\ command.pc = "push" => command.text \in Texts

DeployInv == DeployTypes /\ SecretsAgree /\ ImagesPushed

-----------------------------------------------------------------------------
\* No tag, no text and no secret are none of the real ones.
LEMMA NoneApart ==
  /\ None \notin Texts /\ NoTag \notin Tags /\ Texts \subseteq Nat
  /\ 1 \in Texts /\ 0 \in 0..MaxSecret
BY DeployAssumption DEF None, Texts, NoTag, Tags

\* Nothing is deployed at first.
LEMMA DeployInvInit == DeployInit => DeployInv
<1> SUFFICES ASSUME DeployInit PROVE DeployInv
  OBVIOUS
<1>1. DeployTypes
  BY NoneApart, DeployAssumption
  DEF DeployInit, DeployTypes, Revision, NoRevision, NoDeploy, Foreign, None
<1>2. SecretsAgree
  BY DEF DeployInit, SecretsAgree, OneSecret, NoDeploy
<1>3. ImagesPushed
  BY DEF DeployInit, ImagesPushed, Pushed, NoRevision, NoDeploy
<1>4. QED
  BY <1>1, <1>2, <1>3 DEF DeployInv

-----------------------------------------------------------------------------
\* What a build or deploy makes of .env.azure's secret (ensure_state).
LEMMA EnsureKeeps ==
  ASSUME DeployTypes, EnsureState
  PROVE  /\ azure' = [azure EXCEPT !.secret = KeptSecret]
         /\ KeptSecret \in 0..MaxSecret /\ KeptSecret # None
         /\ azure.secret # None => KeptSecret = azure.secret
         /\ azure' \in [secret : 0..MaxSecret, registry : BOOLEAN, tag : Tags \cup {NoTag}]
         /\ azure'.secret = KeptSecret
         /\ azure'.registry = azure.registry /\ azure'.tag = azure.tag
         /\ secrets' \in 0..MaxSecret
<1>1. KeptSecret \in 0..MaxSecret /\ KeptSecret # None
  BY DeployAssumption DEF EnsureState, KeptSecret, DeployTypes, None
<1>2. azure' = [azure EXCEPT !.secret = KeptSecret]
  BY DEF EnsureState
<1>3. azure.secret # None => KeptSecret = azure.secret
  BY DEF KeptSecret
<1>4. secrets' \in 0..MaxSecret
  BY <1>1 DEF EnsureState, DeployTypes
<1>5. QED
  BY <1>1, <1>2, <1>3, <1>4 DEF DeployTypes

\* The tag of a tree.
LEMMA TagOfTree ==
  ASSUME DeployTypes
  PROVE  [sha |-> tree.sha, dirty |-> tree.text # tree.sha] \in Tags
<1>1. tree.sha \in Texts /\ (tree.text # tree.sha) \in BOOLEAN
  BY DEF DeployTypes
<1>2. QED
  BY <1>1 DEF Tags

\* The app after its template was set.
LEMMA TemplatedApp ==
  ASSUME DeployTypes, command.tag \in Tags
  PROVE  /\ Templated(command.tag).exists = TRUE
         /\ Templated(command.tag).secret = command.secret
         /\ Templated(command.tag).serving = app.serving
         /\ Templated(command.tag).coming \in
              {app.coming, [tag |-> command.tag, text |-> images[command.tag].last]}
         /\ Templated(command.tag) \in
              [exists : BOOLEAN, secret : 0..MaxSecret, tag : Tags \cup {NoTag},
               serving : Revision, coming : Revision]
<1>1. [tag |-> command.tag, text |-> images[command.tag].last] \in Revision
  BY DEF DeployTypes, Revision
<1>2. /\ app.serving \in Revision /\ app.coming \in Revision
      /\ command.secret \in 0..MaxSecret
  BY DEF DeployTypes
<1>3. QED
  BY <1>1, <1>2 DEF Templated, DeployTypes

-----------------------------------------------------------------------------
\* Every step keeps the types; each conjunct of a step's own.
LEMMA TypesKept == ASSUME DeployTypes, ImagesPushed, DeployNext PROVE DeployTypes'
<1> USE DEF DeployTypes, At, Step
<1>1. CASE Abandon
  BY <1>1, NoneApart DEF Abandon, NoDeploy, None
<1>2. CASE EditSources
  BY <1>2, DeployAssumption DEF EditSources, Texts
<1>3. CASE CommitSources
  BY <1>3 DEF CommitSources
<1>4. CASE StartMigrate
  BY <1>4 DEF StartMigrate
<1>5. CASE Upgrade
  <2>1. CASE schema < tree.text
    <3>1. schema + 1 \in 0..Foreign
      BY <2>1, DeployAssumption DEF Foreign, Texts
    <3>2. QED
      BY <1>5, <2>1, <3>1 DEF Upgrade
  <2>2. CASE ~(schema < tree.text)
    BY <1>5, <2>2, NoneApart DEF Upgrade, NoDeploy, None
  <2>3. QED
    BY <2>1, <2>2
<1>6. CASE StartBuild
  <2>1. command' \in [pc : {"idle", "upgrade", "registry", "tag", "image", "push", "app",
                            "update", "wait"},
                      tag : Tags \cup {NoTag}, text : Texts \cup {None}, secret : 0..MaxSecret]
    BY <1>6 DEF StartBuild
  <2>2. QED
    BY <1>6, <2>1, EnsureKeeps DEF StartBuild
<1>7. CASE EnsureRegistry
  <2>1. azure' \in [secret : 0..MaxSecret, registry : BOOLEAN, tag : Tags \cup {NoTag}]
    BY <1>7 DEF EnsureRegistry
  <2>2. command' = [command EXCEPT !.pc = "tag"] \/ command' = NoDeploy
    BY <1>7 DEF EnsureRegistry
  <2>3. command' \in [pc : {"idle", "upgrade", "registry", "tag", "image", "push", "app",
                            "update", "wait"},
                      tag : Tags \cup {NoTag}, text : Texts \cup {None}, secret : 0..MaxSecret]
    BY <2>2, NoneApart DEF NoDeploy, None
  <2>4. QED
    BY <1>7, <2>1, <2>3 DEF EnsureRegistry
<1>8. CASE TagImage
  BY <1>8, TagOfTree DEF TagImage
<1>9. CASE BuildImage
  BY <1>9 DEF BuildImage
<1>10. CASE PushImage
  <2>1. command.tag \in Tags /\ command.text \in Texts
    BY <1>10 DEF PushImage, ImagesPushed
  <2>2. images' \in [Tags -> [pushed : SUBSET Texts, last : Texts \cup {None}]]
    BY <1>10, <2>1 DEF PushImage
  <2>3. QED
    BY <1>10, <2>2, NoneApart DEF PushImage, NoDeploy, None
<1>11. CASE StartDeploy
  <2>1. command' \in [pc : {"idle", "upgrade", "registry", "tag", "image", "push", "app",
                            "update", "wait"},
                      tag : Tags \cup {NoTag}, text : Texts \cup {None}, secret : 0..MaxSecret]
    BY <1>11, EnsureKeeps DEF StartDeploy
  <2>2. QED
    BY <1>11, <2>1, EnsureKeeps DEF StartDeploy
<1>12. CASE CreateApp
  BY <1>12, TemplatedApp DEF CreateApp, ImagesPushed
<1>13. CASE SetSecrets
  BY <1>13 DEF SetSecrets
<1>14. CASE UpdateApp
  BY <1>14, TemplatedApp DEF UpdateApp, ImagesPushed
<1>15. CASE RevisionReady
  BY <1>15, NoneApart DEF RevisionReady, NoRevision, Revision
<1>16. CASE FinishDeploy
  BY <1>16, NoneApart DEF FinishDeploy, NoDeploy, Revision, None
<1>17. QED
  BY <1>1, <1>2, <1>3, <1>4, <1>5, <1>6, <1>7, <1>8, <1>9, <1>10, <1>11, <1>12, <1>13, <1>14,
     <1>15, <1>16 DEF DeployNext

-----------------------------------------------------------------------------
\* Every step keeps the secrets together.
LEMMA SecretsKept == ASSUME DeployTypes, SecretsAgree, ImagesPushed, DeployNext PROVE SecretsAgree'
<1> USE DEF SecretsAgree, OneSecret, At, Step
<1>1. CASE \/ EditSources \/ CommitSources \/ TagImage \/ BuildImage \/ StartMigrate
  BY <1>1 DEF EditSources, CommitSources, TagImage, BuildImage, StartMigrate, DeployTypes
<1>2. CASE Abandon \/ PushImage
  BY <1>2 DEF Abandon, PushImage, NoDeploy
<1>3. CASE Upgrade
  BY <1>3 DEF Upgrade, NoDeploy
<1>4. CASE EnsureRegistry
  <2>1. azure'.secret = azure.secret /\ command'.pc \in {"tag", "idle"}
    BY <1>4 DEF EnsureRegistry, NoDeploy, DeployTypes
  <2>2. QED
    BY <1>4, <2>1 DEF EnsureRegistry
<1>5. CASE StartBuild
  <2>1. command'.pc = "registry"
    BY <1>5 DEF StartBuild, DeployTypes
  <2>2. QED
    BY <1>5, <2>1, EnsureKeeps DEF StartBuild
<1>6. CASE StartDeploy
  BY <1>6, EnsureKeeps DEF StartDeploy
<1>7. CASE CreateApp
  <2>1. /\ command.pc = "app" /\ command.tag \in Tags /\ app' = Templated(command.tag)
        /\ command'.pc = "wait" /\ command'.secret = command.secret
    BY <1>7 DEF CreateApp, ImagesPushed, DeployTypes
  <2>2. app'.exists /\ app'.secret = command.secret
    BY <2>1, TemplatedApp
  <2>3. QED
    BY <1>7, <2>1, <2>2 DEF CreateApp
<1>8. CASE SetSecrets
  <2>1. /\ command.pc = "app" /\ app.exists /\ app'.exists /\ app'.secret = command.secret
        /\ command'.pc = "update" /\ command'.secret = command.secret
    BY <1>8 DEF SetSecrets, DeployTypes
  <2>2. QED
    BY <1>8, <2>1 DEF SetSecrets
<1>9. CASE UpdateApp
  <2>1. /\ command.pc = "update" /\ command.tag \in Tags /\ app' = Templated(command.tag)
        /\ command'.pc = "wait" /\ command'.secret = command.secret
    BY <1>9 DEF UpdateApp, ImagesPushed, DeployTypes
  <2>2. app'.exists /\ app'.secret = command.secret
    BY <2>1, TemplatedApp
  <2>3. QED
    BY <1>9, <2>1, <2>2 DEF UpdateApp
<1>10. CASE RevisionReady
  <2>1. app'.exists = app.exists /\ app'.secret = app.secret
    BY <1>10 DEF RevisionReady, DeployTypes
  <2>2. QED
    BY <1>10, <2>1 DEF RevisionReady
<1>11. CASE FinishDeploy
  BY <1>11 DEF FinishDeploy, NoDeploy
<1>12. QED
  BY <1>1, <1>2, <1>3, <1>4, <1>5, <1>6, <1>7, <1>8, <1>9, <1>10, <1>11 DEF DeployNext

\* Every step keeps what was pushed, and only makes revisions of that.
LEMMA ImagesKept == ASSUME DeployTypes, ImagesPushed, DeployNext PROVE ImagesPushed'
<1> USE DEF ImagesPushed, Pushed, At, Step
<1>1. CASE \/ EditSources \/ CommitSources \/ StartMigrate \/ SetSecrets
  BY <1>1 DEF EditSources, CommitSources, StartMigrate, SetSecrets, DeployTypes
<1>2. CASE Abandon
  BY <1>2 DEF Abandon, NoDeploy
<1>3. CASE Upgrade
  BY <1>3 DEF Upgrade, NoDeploy
<1>4. CASE EnsureRegistry \/ StartBuild
  <2>1. command'.pc \in {"idle", "tag", "registry"}
    BY <1>4 DEF EnsureRegistry, StartBuild, NoDeploy, DeployTypes
  <2>2. QED
    BY <1>4, <2>1 DEF EnsureRegistry, StartBuild
<1>5. CASE TagImage
  BY <1>5, TagOfTree DEF TagImage, DeployTypes
<1>6. CASE BuildImage
  BY <1>6 DEF BuildImage, DeployTypes
<1>7. CASE PushImage
  <2>1. /\ command.tag \in Tags /\ command.text \in Texts /\ command' = NoDeploy
        /\ UNCHANGED <<app, reported>>
    BY <1>7 DEF PushImage
  <2>2. ASSUME NEW t \in Tags
        PROVE  /\ images'[t].last \in images'[t].pushed \cup {None}
               /\ images[t].pushed \subseteq images'[t].pushed
    <3>1. CASE t = command.tag
      <4>1. images'[t] = [pushed |-> images[t].pushed \cup {command.text},
                          last |-> command.text]
        BY <1>7, <3>1 DEF PushImage, DeployTypes
      <4>2. QED
        BY <4>1
    <3>2. CASE t # command.tag
      BY <1>7, <3>2 DEF PushImage, DeployTypes
    <3>3. QED
      BY <3>1, <3>2
  <2>3. QED
    BY <2>1, <2>2 DEF NoDeploy
<1>8. CASE StartDeploy
  BY <1>8 DEF StartDeploy, DeployTypes
<1>9. CASE CreateApp \/ UpdateApp
  <2>1. /\ command.tag \in Tags /\ app' = Templated(command.tag)
        /\ command'.pc = "wait" /\ command'.tag = command.tag
        /\ UNCHANGED <<images, reported>>
    BY <1>9 DEF CreateApp, UpdateApp, DeployTypes
  <2>2. /\ app'.serving = app.serving
        /\ \/ app'.coming = app.coming
           \/ app'.coming = [tag |-> command.tag, text |-> images[command.tag].last]
    BY <2>1, TemplatedApp
  <2>3. Pushed(app.coming)'
    BY <2>1, <2>2
  <2>4. QED
    BY <2>1, <2>2, <2>3
<1>10. CASE RevisionReady
  <2>1. app'.serving = app.coming /\ app'.coming = NoRevision /\ app.coming.text # None
    BY <1>10 DEF RevisionReady, DeployTypes
  <2>2. QED
    BY <1>10, <2>1 DEF RevisionReady, NoRevision
<1>11. CASE FinishDeploy
  <2>1. command.tag \in Tags /\ app.serving.tag = command.tag
    BY <1>11 DEF FinishDeploy, RunsImage
  <2>2. app.serving.text # None
    BY <2>1, NoneApart
  <2>3. reported' = [tag |-> command.tag, text |-> app.serving.text]
    BY <1>11 DEF FinishDeploy
  <2>4. QED
    BY <1>11, <2>1, <2>2, <2>3 DEF FinishDeploy, NoDeploy
<1>12. QED
  BY <1>1, <1>2, <1>3, <1>4, <1>5, <1>6, <1>7, <1>8, <1>9, <1>10, <1>11 DEF DeployNext

-----------------------------------------------------------------------------
\* Every step keeps the inductive invariant, wherever commands are abandoned.
LEMMA DeployInvStep == DeployInv /\ [DeployNext]_deployVars => DeployInv'
<1> SUFFICES ASSUME DeployInv, [DeployNext]_deployVars PROVE DeployInv'
  OBVIOUS
<1>1. CASE DeployNext
  BY <1>1, TypesKept, SecretsKept, ImagesKept DEF DeployInv
<1>2. CASE UNCHANGED deployVars
  BY <1>2 DEF deployVars, DeployInv, DeployTypes, SecretsAgree, OneSecret, ImagesPushed, Pushed
<1>3. QED
  BY <1>1, <1>2

\* Types, secrets and images are kept by every step, wherever commands are abandoned.
THEOREM DeployInvariant == DeploySpec => []DeployInv
BY DeployInvInit, DeployInvStep, PTL DEF DeploySpec

\* The app, the tools' file and .env.azure hold one secret, wherever commands were abandoned
\* (ensure_state, deploy).
THEOREM SecretSurvives == DeploySpec => []OneSecret
<1>1. DeployInv => OneSecret
  BY DEF DeployInv, SecretsAgree
<1>2. QED
  BY <1>1, DeployInvariant, PTL

\* What deploy reports was built under the tag it deployed, although builds that failed leave
\* their tag on file (build, deploy).
THEOREM ReportIsTrue == DeploySpec => []ReportsBuilt
<1>1. DeployInv => ReportsBuilt
  BY DEF DeployInv, ImagesPushed, Pushed, ReportsBuilt
<1>2. QED
  BY <1>1, DeployInvariant, PTL

-----------------------------------------------------------------------------
(***************************************************************************)
(* What evidence that is PASS rests on, for any number of versions and of  *)
(* interventions.                                                          *)
(***************************************************************************)
Statuses == {"NOT_RUN", "PASS", "FAIL", "BLOCKED"}

Noted == Works \cup {Nothing}
Drives ==
  [pc : {"idle", "build", "built", "serve", "step", "probe", "cleanup", "over"},
   at : 1..15, candidate : Noted, apk : Noted,
   moved : BOOLEAN, extended : BOOLEAN, own : BOOLEAN]

\* The fields the arguments below need.
DriveTypes ==
  /\ work \in [sha : Works, text : Works]
  /\ drive \in Drives
  /\ apk \in Noted
  /\ DOMAIN phone = {"apk", "screen", "session", "transport"}
  /\ phone.apk \in Noted
  /\ server \in [owner : {"nobody", "driver", "other"}, secret : 0..Foreigner]
  /\ steps \in [Steps -> Statuses]

\* What is built and noted is the commit, unless the tree moved meanwhile.
BuiltOfCandidate ==
  ~drive.moved =>
    /\ drive.pc = "build" => Clean
    /\ drive.pc = "built" => Clean /\ apk = work.text
    /\ drive.pc \in {"serve", "step", "probe"} => drive.apk = drive.candidate

\* Every step of the journey that has been tried has passed.
Passing == \A i \in 1..13 : i < drive.at => steps[Order[i]] = "PASS"

\* As long as all steps pass, they rest on the driver's backend; if it never was, the step
\* that looks for the phone's request is still to come.
Served ==
  /\ drive.pc = "step" /\ Passing =>
       \/ server.owner = "driver" /\ drive.own
       \/ server.owner # "driver" /\ drive.at <= 3
  /\ drive.pc = "probe" => drive.at > 14 /\ (Passing => drive.own)
  /\ drive.pc \in {"build", "built", "serve"} => drive.at = 1 /\ drive.own
  /\ drive.pc = "serve" => server.owner # "driver"

DeviceInv == DriveTypes /\ BuiltOfCandidate /\ Served /\ CertifiesCandidate /\ OwnBackend

-----------------------------------------------------------------------------
\* The steps by their place in the order.
LEMMA Places ==
  /\ Len(Order) = 14 /\ DOMAIN Order = 1..14
  /\ Order[1] = "launch" /\ Order[2] = "initial_screen" /\ Order[3] = "backend_reachable"
  /\ Order[4] = "configuration" /\ Order[5] = "authentication"
  /\ Order[6] = "primary_user_flow" /\ Order[7] = "api_request" /\ Order[8] = "app_restart"
  /\ Order[9] = "offline_handling" /\ Order[10] = "network_recovery"
  /\ Order[11] = "backend_restart" /\ Order[12] = "api_error"
  /\ Order[13] = "logout_expiration" /\ Order[14] = "tour"
BY DEF Order

\* The steps are those, and the journey is all but the last.
LEMMA JourneyIsThirteen ==
  /\ \A i \in 1..14 : Order[i] \in Steps
  /\ \A i \in 1..13 : Order[i] \in Journey
  /\ \A i, j \in 1..14 : Order[i] = Order[j] => i = j
<1>1. \A i \in 1..14 : Order[i] \in Steps
  BY Places DEF Steps
<1>2. \A i \in 1..13 : Order[i] # "tour"
  BY Places
<1>3. \A i, j \in 1..14 : Order[i] = Order[j] => i = j
  BY Places
<1>4. QED
  BY <1>1, <1>2, <1>3 DEF Journey

\* A verdict is PASS only if everything it is of is.
LEMMA WorstIsPass ==
  ASSUME NEW S, Worst(S) = "PASS", NEW s \in S
  PROVE  s = "PASS"
BY DEF Worst

\* Nothing is certified at first.
LEMMA DeviceInvInit == DeviceInit => DeviceInv
BY DeviceAssumption
DEF DeviceInit, DeviceInv, DriveTypes, Drives, Noted, Works, Nothing, NotDriving, NoServer, NoVerdict, NotRun, Foreigner,
    Statuses, BuiltOfCandidate, Served, CertifiesCandidate, OwnBackend

-----------------------------------------------------------------------------
(* What a step may come to.                                                *)

\* An outcome leaves what is installed, and passes with the server it found, or with the
\* driver's backend.
FineOutcome(o) ==
  /\ o.status \in Statuses
  /\ DOMAIN o.phone = {"apk", "screen", "session", "transport"} /\ o.phone.apk = phone.apk
  /\ o.server \in [owner : {"nobody", "driver", "other"}, secret : 0..Foreigner]
  /\ o.status = "PASS" => o.server = server \/ o.server.owner = "driver"

\* A phone on which the app went on, with the same build.
SamePhone(p) == DOMAIN p = {"apk", "screen", "session", "transport"} /\ p.apk = phone.apk

\* The phone as it is, or with another screen, session or transport, has the same build.
LEMMA PhonesSame ==
  ASSUME DriveTypes
  PROVE  /\ SamePhone(phone)
         /\ \A x : SamePhone([phone EXCEPT !.screen = x])
         /\ \A x : SamePhone([phone EXCEPT !.transport = x])
         /\ \A x : SamePhone([phone EXCEPT !.session = x])
         /\ \A x, y : SamePhone([phone EXCEPT !.screen = x, !.session = y])
         /\ \A x, y : SamePhone([phone EXCEPT !.session = x, !.screen = y])
BY DEF DriveTypes, SamePhone

\* A backend that was started or started again is a server with an owner and a secret.
LEMMA StartedServers ==
  ASSUME DriveTypes, NEW secret \in 0..Foreigner
  PROVE  /\ Started(secret) \subseteq [owner : {"nobody", "driver", "other"}, secret : 0..Foreigner]
         /\ Restarted(secret) \subseteq
              [owner : {"nobody", "driver", "other"}, secret : 0..Foreigner]
BY DEF DriveTypes, Started, Restarted, NoServer, Nothing, Foreigner

\* A pass with the server as it is, or with the driver's, is fine.
LEMMA PassesFine ==
  ASSUME DriveTypes, NEW condition, NEW p, SamePhone(p),
         NEW s \in [owner : {"nobody", "driver", "other"}, secret : 0..Foreigner],
         s = server \/ (condition => s.owner = "driver")
  PROVE  \A o \in Passes(condition, p, s) : FineOutcome(o)
<1> SUFFICES ASSUME condition PROVE FineOutcome(Outcome("PASS", p, s))
  BY DEF Passes
<1>1. QED
  BY DEF FineOutcome, Outcome, SamePhone, Statuses

\* A failure is fine.
LEMMA FailsFine ==
  ASSUME DriveTypes, NEW ps, \A p \in ps : SamePhone(p),
         NEW ss, ss \subseteq [owner : {"nobody", "driver", "other"}, secret : 0..Foreigner]
  PROVE  \A o \in Fails(ps, ss) : FineOutcome(o)
BY DEF Fails, FineOutcome, Outcome, SamePhone, Statuses

\* The steps that only look, or touch the phone.
LEMMA PhoneStepsFine ==
  ASSUME DriveTypes
  PROVE  /\ \A o \in Launch : FineOutcome(o)
         /\ \A o \in InitialScreen : FineOutcome(o)
         /\ \A o \in BackendReachable : FineOutcome(o)
         /\ \A o \in Configuration : FineOutcome(o)
         /\ \A o \in Authentication : FineOutcome(o)
         /\ \A o \in PrimaryUserFlow : FineOutcome(o)
         /\ \A o \in ApiRequest : FineOutcome(o)
         /\ \A o \in AppRestart : FineOutcome(o)
         /\ \A o \in OfflineHandling : FineOutcome(o)
         /\ \A o \in NetworkRecovery : FineOutcome(o)
         /\ \A o \in ApiError : FineOutcome(o)
<1>1. server \in [owner : {"nobody", "driver", "other"}, secret : 0..Foreigner]
  BY DEF DriveTypes
<1>2. ASSUME NEW condition, NEW p, SamePhone(p), NEW ps, \A q \in ps : SamePhone(q)
      PROVE  \A o \in Passes(condition, p, server) \cup Fails(ps, {server}) : FineOutcome(o)
  <2>1. \A o \in Passes(condition, p, server) : FineOutcome(o)
    BY <1>1, <1>2, PassesFine
  <2>2. {server} \subseteq [owner : {"nobody", "driver", "other"}, secret : 0..Foreigner]
    BY <1>1
  <2>3. \A o \in Fails(ps, {server}) : FineOutcome(o)
    BY <1>2, <2>2, FailsFine
  <2>4. QED
    BY <2>1, <2>3
<1>3. \A o \in Launch : FineOutcome(o)
  <2> DEFINE shown == [phone EXCEPT !.screen = "welcome", !.session = Nothing]
             off == [phone EXCEPT !.screen = "off"]
  <2>1. SamePhone(shown) /\ SamePhone(off)
    BY PhonesSame
  <2> HIDE DEF shown, off
  <2>2. \A o \in Passes(TRUE, shown, server) \cup Fails({off}, {server}) : FineOutcome(o)
    BY <1>2, <2>1
  <2>3. QED
    BY <2>2 DEF Launch, shown, off
<1>4. \A o \in InitialScreen : FineOutcome(o)
  BY <1>2, PhonesSame DEF InitialScreen
<1>5. \A o \in BackendReachable : FineOutcome(o)
  <2> DEFINE signedIn == [phone EXCEPT !.session = server.secret, !.screen = "chat"]
             reached == phone.transport /\ server # NoServer
  <2>1. SamePhone(signedIn)
    BY PhonesSame
  <2>2. \A q \in {phone} \cup (IF reached THEN {signedIn} ELSE {}) : SamePhone(q)
    BY <2>1, PhonesSame
  <2> HIDE DEF signedIn, reached
  <2>3. \A o \in Passes(reached /\ Logged(server), signedIn, server)
                 \cup Fails({phone} \cup (IF reached THEN {signedIn} ELSE {}), {server}) :
          FineOutcome(o)
    BY <1>2, <2>1, <2>2
  <2>4. QED
    BY <2>3 DEF BackendReachable, signedIn, reached
<1>6. \A o \in Configuration : FineOutcome(o)
  BY <1>2, PhonesSame DEF Configuration
<1>7. \A o \in Authentication : FineOutcome(o)
  BY <1>2, PhonesSame DEF Authentication
<1>8. \A o \in PrimaryUserFlow : FineOutcome(o)
  BY <1>2, PhonesSame DEF PrimaryUserFlow
<1>9. \A o \in ApiRequest : FineOutcome(o)
  BY <1>2, PhonesSame DEF ApiRequest
<1>10. \A o \in AppRestart : FineOutcome(o)
  <2> DEFINE off == [phone EXCEPT !.screen = "off"]
  <2>1. SamePhone(phone) /\ SamePhone(off)
    BY PhonesSame
  <2> HIDE DEF off
  <2>2. \A q \in {phone, off} : SamePhone(q)
    BY <2>1
  <2>3. \A o \in Passes(phone.session # Nothing, phone, server) \cup Fails({phone, off}, {server}) : FineOutcome(o)
    BY <1>2, <2>1, <2>2
  <2>4. QED
    BY <2>3 DEF AppRestart, off
<1>11. \A o \in OfflineHandling : FineOutcome(o)
  <2> DEFINE off == [phone EXCEPT !.transport = FALSE]
  <2>1. SamePhone(phone) /\ SamePhone(off)
    BY PhonesSame
  <2> HIDE DEF off
  <2>2. \A q \in {phone, off} : SamePhone(q)
    BY <2>1
  <2>3. \A o \in Passes(phone.screen = "chat", off, server) \cup Fails({phone, off}, {server}) : FineOutcome(o)
    BY <1>2, <2>1, <2>2
  <2>4. QED
    BY <2>3 DEF OfflineHandling, off
<1>12. \A o \in NetworkRecovery : FineOutcome(o)
  <2> DEFINE on == [phone EXCEPT !.transport = TRUE]
  <2>1. SamePhone(phone) /\ SamePhone(on)
    BY PhonesSame
  <2> HIDE DEF on
  <2>2. \A q \in {phone, on} : SamePhone(q)
    BY <2>1
  <2>3. \A o \in Passes(Accepted(on, server) /\ Logged(server), on, server) \cup Fails({phone, on}, {server}) : FineOutcome(o)
    BY <1>2, <2>1, <2>2
  <2>4. QED
    BY <2>3 DEF NetworkRecovery, on
<1>13. \A o \in ApiError : FineOutcome(o)
  BY <1>2, PhonesSame DEF ApiError
<1>14. QED
  BY <1>3, <1>4, <1>5, <1>6, <1>7, <1>8, <1>9, <1>10, <1>11, <1>12, <1>13

\* The steps that start the backend again, and the tour.
LEMMA ServerStepsFine ==
  ASSUME DriveTypes
  PROVE  /\ \A o \in BackendRestart : FineOutcome(o)
         /\ \A o \in LogoutExpiration : FineOutcome(o)
         /\ \A o \in Tour : FineOutcome(o)
<1> DEFINE Servers == [owner : {"nobody", "driver", "other"}, secret : 0..Foreigner]
<1>1. server \in Servers /\ server.secret \in 0..Foreigner /\ Rotated \in 0..Foreigner
  BY DEF DriveTypes, Rotated, Foreigner
<1>2. Restarted(server.secret) \subseteq Servers /\ Restarted(Rotated) \subseteq Servers
  BY <1>1, StartedServers
<1> HIDE DEF Servers
<1>3. ASSUME NEW s \in Servers, NEW condition, condition => Logged(s),
             NEW p, SamePhone(p), NEW ps, \A q \in ps : SamePhone(q)
      PROVE  \A o \in Passes(condition, p, s) \cup Fails(ps, {s}) : FineOutcome(o)
  <2>1. \A o \in Passes(condition, p, s) : FineOutcome(o)
    BY <1>3, PassesFine DEF Logged, Servers
  <2>2. \A o \in Fails(ps, {s}) : FineOutcome(o)
    BY <1>3, FailsFine DEF Servers
  <2>3. QED
    BY <2>1, <2>2
<1>4. \A o \in BackendRestart : FineOutcome(o)
  <2>1. ASSUME NEW s \in Servers
        PROVE  \A o \in Passes(Accepted(phone, s) /\ Logged(s), phone, s) \cup Fails({phone}, {s}) :
                 FineOutcome(o)
    BY <1>3, PhonesSame
  <2>2. QED
    BY <1>2, <2>1 DEF BackendRestart
<1>5. \A o \in LogoutExpiration : FineOutcome(o)
  <2> DEFINE out == [phone EXCEPT !.screen = "welcome", !.session = Nothing]
             late(s) == [phone EXCEPT !.session = s.secret]
             told(s) == /\ phone.screen = "chat" /\ phone.transport
                        /\ Logged(s) /\ phone.session # s.secret
  <2>1. SamePhone(out) /\ SamePhone(phone) /\ \A s \in Servers : SamePhone(late(s))
    BY PhonesSame
  <2>2. \A s \in Servers : told(s) => Logged(s)
    OBVIOUS
  <2> HIDE DEF out, late, told
  <2>3. ASSUME NEW s \in Servers
        PROVE  \A o \in Passes(told(s), out, s) \cup Fails({phone, out, late(s)}, {s}) :
                 FineOutcome(o)
    <3>1. \A q \in {phone, out, late(s)} : SamePhone(q)
      BY <2>1
    <3>2. QED
      BY <1>3, <2>1, <2>2, <3>1
  <2>4. QED
    BY <1>2, <2>3 DEF LogoutExpiration, out, late, told
<1>6. \A o \in Tour : FineOutcome(o)
  <2> DEFINE signedIn == [phone EXCEPT !.session = server.secret, !.screen = "chat"]
  <2>1. SamePhone(signedIn) /\ SamePhone(phone)
    BY PhonesSame
  <2>2. FineOutcome(Outcome("NOT_RUN", phone, server))
    BY <1>1, <2>1 DEF FineOutcome, Outcome, SamePhone, Statuses, Servers
  <2> HIDE DEF signedIn
  <2>3. \A o \in Passes(phone.transport /\ server # NoServer, signedIn, server) : FineOutcome(o)
    BY <1>1, <2>1, PassesFine DEF Servers
  <2>4. \A o \in Fails({phone, signedIn}, {server}) : FineOutcome(o)
    <3>1. \A q \in {phone, signedIn} : SamePhone(q)
      BY <2>1
    <3>2. QED
      BY <1>1, <3>1, FailsFine DEF Servers
  <2>5. QED
    BY <2>2, <2>3, <2>4 DEF Tour, signedIn
<1>7. QED
  BY <1>4, <1>5, <1>6

\* The first three steps and the tour find the server they leave, and the third passes on
\* the driver's backend only.
LEMMA ServerFound ==
  /\ \A o \in Launch : o.server = server
  /\ \A o \in InitialScreen : o.server = server
  /\ \A o \in BackendReachable :
       /\ o.server = server
       /\ o.status = "PASS" => o.server.owner = "driver"
  /\ \A o \in Tour : o.server = server
BY DEF Launch, InitialScreen, BackendReachable, Tour, Passes, Fails, Outcome, Logged

-----------------------------------------------------------------------------
(* The steps keep the invariant.                                           *)

\* What the induction asks of the outcomes of the i-th step.
Keeping(i, outcomes) ==
  \A o \in outcomes :
    /\ FineOutcome(o)
    /\ i \in {1, 2, 3, 14} => o.server = server
    /\ i = 3 /\ o.status = "PASS" => o.server.owner = "driver"

\* A step that is tried or blocked keeps the types.
LEMMA TryTypes ==
  ASSUME DeviceInv, NEW i \in 1..14, NEW outcomes, Keeping(i, outcomes), Try(Order[i], outcomes)
  PROVE  DriveTypes' /\ drive.at = i
<1>1. drive.at \in 1..15 /\ drive.at <= 14 /\ Order[drive.at] = Order[i]
  BY Places DEF DeviceInv, DriveTypes, Drives, Try
<1>2. drive.at = i /\ Order[i] \in Steps
  BY <1>1, JourneyIsThirteen
<1>3. \E p, s, w :
        /\ w \in Statuses
        /\ DOMAIN p = {"apk", "screen", "session", "transport"} /\ p.apk = phone.apk
        /\ s \in [owner : {"nobody", "driver", "other"}, secret : 0..Foreigner]
        /\ steps' = [steps EXCEPT ![Order[i]] = w] /\ phone' = p /\ server' = s
  <2>1. CASE Order[i] = "launch" \/ steps[Requires[Order[i]]] = "PASS"
    <3>1. PICK o \in outcomes :
            /\ steps' = [steps EXCEPT ![Order[i]] = o.status]
            /\ phone' = o.phone /\ server' = o.server
      BY <2>1 DEF Try
    <3>2. FineOutcome(o)
      BY DEF Keeping
    <3>3. QED
      BY <3>1, <3>2 DEF FineOutcome
  <2>2. CASE ~(Order[i] = "launch" \/ steps[Requires[Order[i]]] = "PASS")
    BY <2>2 DEF Try, DeviceInv, DriveTypes, Statuses
  <2>3. QED
    BY <2>1, <2>2
<1>4. \E b \in BOOLEAN : drive' = [drive EXCEPT !.at = i + 1, !.own = b]
  <2>1. CASE Order[i] = "launch" \/ steps[Requires[Order[i]]] = "PASS"
    BY <2>1, <1>2 DEF Try, DeviceInv, DriveTypes
  <2>2. CASE ~(Order[i] = "launch" \/ steps[Requires[Order[i]]] = "PASS")
    <3>1. drive' = [drive EXCEPT !.at = i + 1, !.own = drive.own] /\ drive.own \in BOOLEAN
      BY <2>2, <1>2 DEF Try, DeviceInv, DriveTypes, Drives
    <3>2. QED
      BY <3>1
  <2>3. QED
    BY <2>1, <2>2
<1>5. work' = work /\ apk' = apk
  BY DEF Try
<1>6. DriveTypes
  BY DEF DeviceInv
<1>7. steps' \in [Steps -> Statuses]
  BY <1>2, <1>3, <1>6 DEF DriveTypes
<1>8. drive' \in Drives
  <2>1. i + 1 \in 1..15
    OBVIOUS
  <2>2. QED
    BY <2>1, <1>4, <1>6 DEF DriveTypes, Drives
<1>9. QED
  BY <1>2, <1>3, <1>5, <1>6, <1>7, <1>8 DEF DriveTypes

\* What is left to show of a step that keeps the commit, the build and the verdict.
LEMMA TryServed ==
  ASSUME DeviceInv, NEW i \in 1..14, NEW outcomes, Keeping(i, outcomes), Try(Order[i], outcomes)
  PROVE  Served'
<1>1. drive.at = i /\ DriveTypes' /\ DriveTypes
  BY TryTypes DEF DeviceInv
<1>2. drive.pc = "step" /\ drive'.pc = "step" /\ drive'.at = i + 1
  BY <1>1 DEF Try, DriveTypes, Drives
<1>3. \A j \in 1..14 : Order[j] \in Steps /\ (Order[j] = Order[i] => j = i)
  BY JourneyIsThirteen
<1>4. CASE ~(Order[i] = "launch" \/ steps[Requires[Order[i]]] = "PASS")
  <2>1. /\ steps' = [steps EXCEPT ![Order[i]] = "BLOCKED"] /\ server' = server
        /\ drive'.own = drive.own
    BY <1>4, <1>1 DEF Try, DriveTypes, Drives
  <2>2. Passing' => Passing /\ i = 14
    BY <2>1, <1>1, <1>2, <1>3 DEF Passing, DriveTypes
  <2>3. QED
    BY <2>1, <2>2, <1>1, <1>2 DEF Served, DeviceInv
<1>5. CASE Order[i] = "launch" \/ steps[Requires[Order[i]]] = "PASS"
  <2>1. PICK o \in outcomes :
          /\ steps' = [steps EXCEPT ![Order[i]] = o.status] /\ server' = o.server
          /\ drive'.own = (drive.own /\ (o.status = "PASS" => o.server.owner = "driver"))
    BY <1>5, <1>1 DEF Try, DriveTypes, Drives
  <2>2. /\ o.status = "PASS" => o.server = server \/ o.server.owner = "driver"
        /\ i \in {1, 2, 3, 14} => o.server = server
        /\ i = 3 /\ o.status = "PASS" => o.server.owner = "driver"
    BY DEF Keeping, FineOutcome
  <2>3. Passing' => Passing /\ (i = 14 \/ o.status = "PASS")
    BY <2>1, <1>1, <1>2, <1>3 DEF Passing, DriveTypes
  <2>4. Passing => \/ server.owner = "driver" /\ drive.own
                   \/ server.owner # "driver" /\ i <= 3
    BY <1>1, <1>2 DEF Served, DeviceInv
  <2>5. CASE server.owner = "driver" /\ drive.own
    BY <2>5, <2>1, <2>2, <2>3, <1>2 DEF Served
  <2>6. CASE server.owner # "driver" /\ i <= 3
    BY <2>6, <2>1, <2>2, <2>3, <1>2 DEF Served
  <2>7. QED
    BY <2>3, <2>4, <2>5, <2>6, <1>2 DEF Served
<1>6. QED
  BY <1>4, <1>5

\* A step keeps the invariant.
LEMMA TryKeeps ==
  ASSUME DeviceInv, NEW i \in 1..14, NEW outcomes, Keeping(i, outcomes), Try(Order[i], outcomes)
  PROVE  DeviceInv'
<1>1. DriveTypes' /\ Served'
  BY TryTypes, TryServed
<1>2. verdict' = verdict /\ work' = work /\ apk' = apk
  BY DEF Try
<1>3. /\ drive'.moved = drive.moved /\ drive'.pc = drive.pc /\ drive'.apk = drive.apk
      /\ drive'.candidate = drive.candidate
  BY DEF Try, DeviceInv, DriveTypes, Drives
<1>4. BuiltOfCandidate' /\ CertifiesCandidate' /\ OwnBackend'
  BY <1>2, <1>3 DEF DeviceInv, BuiltOfCandidate, CertifiesCandidate, OwnBackend, Clean
<1>5. QED
  BY <1>1, <1>4 DEF DeviceInv

-----------------------------------------------------------------------------
(* The developer, the build and the evidence.                              *)

\* A run that has not begun or is over has noted nothing.
LEMMA NothingNoted ==
  ASSUME NEW p \in {"idle", "build", "built", "serve", "step", "probe", "cleanup", "over"}
  PROVE  /\ [NotDriving EXCEPT !.pc = p] \in Drives
         /\ [NotDriving EXCEPT !.pc = p].pc = p
<1>1. NotDriving \in Drives
  <2>1. Nothing \in Noted /\ 1 \in 1..15
    BY DEF Noted
  <2>2. QED
    BY <2>1 DEF NotDriving, Drives
<1>2. QED
  BY <1>1 DEF Drives

LEMMA OverIsADrive == Over \in Drives /\ Over.pc = "over"
BY NothingNoted DEF Over

\* A run that ends there keeps all but the types of what it wrote itself.
LEMMA EndsKeeps ==
  ASSUME drive' = Over, CertifiesCandidate', OwnBackend'
  PROVE  /\ drive' \in Drives
         /\ BuiltOfCandidate' /\ Served' /\ CertifiesCandidate' /\ OwnBackend'
BY OverIsADrive DEF BuiltOfCandidate, Served

\* Evidence that is not PASS certifies nothing.
LEMMA UncertifiedKeeps ==
  ASSUME NEW state, state # "PASS", EndsUncertified(state)
  PROVE  drive' = Over /\ CertifiesCandidate' /\ OwnBackend'
BY DEF EndsUncertified, NoVerdict, CertifiesCandidate, OwnBackend

\* A change of the tree between its check and the note of the commit is remembered; any
\* other leaves what was noted.
LEMMA ChangeTreeKeeps ==
  ASSUME DeviceInv, NEW w \in [sha : Works, text : Works], ChangeTree(w)
  PROVE  DeviceInv'
<1>1. /\ drive' \in Drives /\ drive'.pc = drive.pc /\ drive'.at = drive.at
      /\ drive'.own = drive.own /\ drive'.apk = drive.apk /\ drive'.candidate = drive.candidate
      /\ drive'.moved = (drive.moved \/ drive.pc \in {"build", "built"})
  BY DEF ChangeTree, DeviceInv, DriveTypes, Drives
<1>2. UNCHANGED <<apk, phone, server, steps, verdict>> /\ work' \in [sha : Works, text : Works]
  BY DEF ChangeTree
<1>3. DriveTypes' /\ BuiltOfCandidate'
  BY <1>1, <1>2 DEF DeviceInv, DriveTypes, BuiltOfCandidate, Clean
<1>4. Served'
  BY <1>1, <1>2 DEF DeviceInv, Served, Passing
<1>5. QED
  BY <1>2, <1>3, <1>4 DEF DeviceInv, CertifiesCandidate, OwnBackend

\* What the developer builds is of the tree; their server never takes the driver's place.
LEMMA DeveloperKeeps ==
  ASSUME DeviceInv, RunOnPhone \/ OtherServer
  PROVE  DeviceInv'
<1>1. CASE RunOnPhone
  <2>1. /\ apk' = work.text /\ work.text \in Noted /\ phone'.apk = work.text
        /\ DOMAIN phone' = {"apk", "screen", "session", "transport"}
    BY <1>1 DEF RunOnPhone, DeviceInv, DriveTypes, Noted
  <2>2. UNCHANGED <<work, server, drive, steps, verdict>>
    BY <1>1 DEF RunOnPhone
  <2>3. DriveTypes' /\ BuiltOfCandidate'
    BY <2>1, <2>2 DEF DeviceInv, DriveTypes, BuiltOfCandidate, Clean
  <2>4. QED
    BY <2>2, <2>3 DEF DeviceInv, Served, Passing, CertifiesCandidate, OwnBackend
<1>2. CASE OtherServer
  <2>1. UNCHANGED <<work, apk, phone, drive, steps, verdict>>
    BY <1>2 DEF OtherServer
  <2>2. /\ server' \in [owner : {"nobody", "driver", "other"}, secret : 0..Foreigner]
        /\ server.owner # "driver" /\ server'.owner # "driver"
    BY <1>2 DEF OtherServer, DeviceInv, DriveTypes, NoServer, Nothing, Foreigner
  <2>3. DriveTypes' /\ BuiltOfCandidate' /\ CertifiesCandidate' /\ OwnBackend'
    BY <2>1, <2>2 DEF DeviceInv, DriveTypes, BuiltOfCandidate, Clean, CertifiesCandidate, OwnBackend
  <2>4. Served'
    BY <2>1, <2>2 DEF DeviceInv, Served, Passing
  <2>5. QED
    BY <2>3, <2>4 DEF DeviceInv
<1>3. QED
  BY <1>1, <1>2

\* Only a clean tree is built.
LEMMA CheckTreeKeeps ==
  ASSUME DeviceInv, CheckTree
  PROVE  DeviceInv'
<1>1. UNCHANGED <<work, apk, phone, server, steps>>
  BY DEF CheckTree
<1>2. CASE Clean
  <2>1. drive' = [NotDriving EXCEPT !.pc = "build"] /\ verdict' = verdict
    BY <1>2 DEF CheckTree
  <2>2. drive' \in Drives /\ drive'.pc = "build" /\ drive'.at = 1 /\ drive'.own
    BY <2>1, NothingNoted DEF NotDriving
  <2>3. DriveTypes' /\ BuiltOfCandidate' /\ Served'
    BY <1>1, <1>2, <2>2 DEF DeviceInv, DriveTypes, BuiltOfCandidate, Served, Clean
  <2>4. QED
    BY <2>1, <2>3 DEF DeviceInv, CertifiesCandidate, OwnBackend
<1>3. CASE ~Clean
  BY <1>1, <1>3, EndsKeeps, UncertifiedKeeps DEF CheckTree, DeviceInv, DriveTypes
<1>4. QED
  BY <1>2, <1>3

\* What is built is what the tree holds by now.
LEMMA BuildKeeps ==
  ASSUME DeviceInv, BuildAndInstall
  PROVE  DeviceInv'
<1>1. drive.pc = "build" /\ UNCHANGED <<work, server, steps>> /\ work.text \in Noted
  BY DEF BuildAndInstall, DeviceInv, DriveTypes, Noted
<1>2. CASE /\ apk' = work.text /\ phone' = [phone EXCEPT !.apk = work.text]
           /\ drive' = [drive EXCEPT !.pc = "built"] /\ UNCHANGED verdict
  <2>1. /\ drive' \in Drives /\ drive'.pc = "built" /\ drive'.at = drive.at
        /\ drive'.own = drive.own /\ drive'.moved = drive.moved
    BY <1>2 DEF DeviceInv, DriveTypes, Drives
  <2>2. phone'.apk = work.text /\ DOMAIN phone' = {"apk", "screen", "session", "transport"}
    BY <1>2 DEF DeviceInv, DriveTypes
  <2>3. DriveTypes' /\ BuiltOfCandidate' /\ Served'
    BY <1>1, <1>2, <2>1, <2>2 DEF DeviceInv, DriveTypes, BuiltOfCandidate, Served, Clean
  <2>4. QED
    BY <1>2, <2>3 DEF DeviceInv, CertifiesCandidate, OwnBackend
<1>3. CASE EndsUncertified("FAIL") /\ UNCHANGED <<apk, phone>>
  BY <1>1, <1>3, EndsKeeps, UncertifiedKeeps DEF DeviceInv, DriveTypes
<1>4. CASE apk' = work.text /\ EndsUncertified("BLOCKED") /\ UNCHANGED phone
  BY <1>1, <1>4, EndsKeeps, UncertifiedKeeps DEF DeviceInv, DriveTypes
<1>5. QED
  BY <1>2, <1>3, <1>4 DEF BuildAndInstall

\* What is noted is the commit and the APK that was just built of it, or the developer's of
\* the same tree.
LEMMA StartKeeps ==
  ASSUME DeviceInv, NEW extended \in BOOLEAN, StartDrive(extended)
  PROVE  DeviceInv'
<1>1. /\ drive.pc = "built" /\ UNCHANGED <<work, apk, phone, server>>
      /\ steps' \in [Steps -> Statuses]
  BY DEF StartDrive, NotRun, Statuses
<1>2. CASE server = NoServer
  <2>1. /\ drive' = [drive EXCEPT !.pc = "serve", !.candidate = work.sha, !.apk = apk,
                                  !.extended = extended]
        /\ verdict' = verdict
    BY <1>2 DEF StartDrive
  <2>2. work.sha \in Noted /\ apk \in Noted
    BY DEF DeviceInv, DriveTypes, Noted
  <2>3. /\ drive' \in Drives /\ drive'.pc = "serve" /\ drive'.at = drive.at
        /\ drive'.own = drive.own /\ drive'.moved = drive.moved
        /\ drive'.candidate = work.sha /\ drive'.apk = apk
    BY <2>1, <2>2 DEF DeviceInv, DriveTypes, Drives
  <2>4. DriveTypes' /\ BuiltOfCandidate' /\ Served'
    BY <1>1, <1>2, <2>3 DEF DeviceInv, DriveTypes, BuiltOfCandidate, Served, Clean, NoServer
  <2>5. QED
    BY <2>1, <2>4 DEF DeviceInv, CertifiesCandidate, OwnBackend
<1>3. CASE server # NoServer
  BY <1>1, <1>3, EndsKeeps, UncertifiedKeeps DEF StartDrive, DeviceInv, DriveTypes
<1>4. QED
  BY <1>2, <1>3

\* The backend is the driver's, unless somebody took the port first.
LEMMA ServeKeeps ==
  ASSUME DeviceInv, Serve
  PROVE  DeviceInv'
<1>1. /\ drive.pc = "serve" /\ UNCHANGED <<work, apk, steps, verdict>>
      /\ phone' = [phone EXCEPT !.transport = TRUE]
  BY DEF Serve
<1>2. server' \in [owner : {"nobody", "driver", "other"}, secret : 0..Foreigner]
  BY StartedServers DEF Serve, Foreigner, DeviceInv
<1>3. \E p \in {"step", "cleanup"} : drive' = [drive EXCEPT !.pc = p]
  BY DEF Serve
<1>4. /\ drive' \in Drives /\ drive'.pc \in {"step", "cleanup"} /\ drive'.at = drive.at
      /\ drive'.own = drive.own /\ drive'.moved = drive.moved /\ drive'.apk = drive.apk
      /\ drive'.candidate = drive.candidate
  BY <1>3 DEF DeviceInv, DriveTypes, Drives
<1>5. DOMAIN phone' = {"apk", "screen", "session", "transport"} /\ phone'.apk = phone.apk
  BY <1>1 DEF DeviceInv, DriveTypes
<1>6. DriveTypes' /\ BuiltOfCandidate' /\ Served'
  BY <1>1, <1>2, <1>4, <1>5 DEF DeviceInv, DriveTypes, BuiltOfCandidate, Served
<1>7. QED
  BY <1>1, <1>6 DEF DeviceInv, CertifiesCandidate, OwnBackend

\* A crash found in the log spoils the run, and a run without one rests on what it did.
LEMMA CollectKeeps ==
  ASSUME DeviceInv, CollectLogs
  PROVE  DeviceInv'
<1>1. /\ drive.pc = "step" /\ drive.at \in 1..15 /\ drive.at > 14
      /\ UNCHANGED <<work, apk, phone, server, verdict>>
  BY Places DEF CollectLogs, DeviceInv, DriveTypes, Drives
<1>2. /\ drive' \in Drives /\ drive'.pc = "probe" /\ drive'.at = drive.at
      /\ drive'.own = drive.own /\ drive'.moved = drive.moved /\ drive'.apk = drive.apk
      /\ drive'.candidate = drive.candidate
  BY DEF CollectLogs, DeviceInv, DriveTypes, Drives
<1>3. Order[1] = "launch" /\ \A i \in 1..13 : Order[i] \in Steps
  BY Places, JourneyIsThirteen
<1>4. steps' \in [Steps -> Statuses] /\ (Passing' => Passing)
  <2>1. CASE steps' = steps
    BY <2>1, <1>2 DEF DeviceInv, DriveTypes, Passing
  <2>2. CASE steps' = [steps EXCEPT !["launch"] = "FAIL"]
    <3>1. steps' \in [Steps -> Statuses]
      BY <2>2 DEF DeviceInv, DriveTypes, Statuses
    <3>2. steps'[Order[1]] # "PASS"
      BY <2>2, <1>3 DEF DeviceInv, DriveTypes
    <3>3. ~Passing'
      BY <3>2, <1>1, <1>2 DEF Passing
    <3>4. QED
      BY <3>1, <3>3
  <2>3. QED
    BY <2>1, <2>2 DEF CollectLogs
<1>5. DriveTypes' /\ BuiltOfCandidate'
  BY <1>1, <1>2, <1>4 DEF DeviceInv, DriveTypes, BuiltOfCandidate
<1>6. Served'
  BY <1>1, <1>2, <1>4 DEF DeviceInv, Served
<1>7. QED
  BY <1>1, <1>5, <1>6 DEF DeviceInv, CertifiesCandidate, OwnBackend

\* Evidence that is PASS is of a clean tree, of the APK that is installed, and of steps that
\* have all passed for both.
LEMMA EvidenceKeeps ==
  ASSUME DeviceInv, WriteEvidence
  PROVE  DeviceInv'
<1> DEFINE clean == IF Clean THEN "PASS" ELSE "BLOCKED"
           installed == IF phone.apk = apk THEN "PASS" ELSE "BLOCKED"
           ready == IF server = NoServer THEN "BLOCKED" ELSE "PASS"
           manual == IF Attributable THEN Worst({steps[s] : s \in Journey}) ELSE "BLOCKED"
           toured == IF drive.extended THEN Worst({steps["tour"]}) ELSE "PASS"
<1>1. PICK device \in SUBSET {"PASS", "FAIL", "BLOCKED"} :
        /\ drive.pc = "probe"
        /\ verdict' = [state |-> Worst({"PASS", clean, installed, ready, manual, toured}
                                         \cup device),
                       candidate |-> work.sha, installed |-> phone.apk, moved |-> drive.moved,
                       own |-> drive.own]
        /\ phone' = [phone EXCEPT !.transport = TRUE]
        /\ drive' = [drive EXCEPT !.pc = "cleanup"]
        /\ UNCHANGED <<meddling, work, apk, server, steps>>
  BY DEF WriteEvidence
<1> HIDE DEF clean, installed, ready, manual, toured
<1>2. DriveTypes'
  BY <1>1 DEF DeviceInv, DriveTypes, Drives
<1>3. drive'.pc = "cleanup"
  BY <1>1 DEF DeviceInv, DriveTypes, Drives
<1>4. BuiltOfCandidate' /\ Served'
  BY <1>3 DEF BuiltOfCandidate, Served
<1>5. ASSUME verdict'.state = "PASS"
      PROVE  Clean /\ Attributable /\ Passing
  <2>1. Worst({"PASS", clean, installed, ready, manual, toured} \cup device) = "PASS"
    BY <1>1, <1>5
  <2>2. clean = "PASS" /\ manual = "PASS"
    BY <2>1, WorstIsPass
  <2>3. Clean /\ Attributable /\ Worst({steps[s] : s \in Journey}) = "PASS"
    BY <2>2 DEF clean, manual
  <2>4. \A s \in Journey : steps[s] = "PASS"
    BY <2>3, WorstIsPass
  <2>5. QED
    BY <2>3, <2>4, JourneyIsThirteen DEF Passing
<1>6. CertifiesCandidate'
  BY <1>1, <1>5 DEF DeviceInv, BuiltOfCandidate, Attributable, CertifiesCandidate
<1>7. OwnBackend'
  BY <1>1, <1>5 DEF DeviceInv, Served, OwnBackend
<1>8. QED
  BY <1>2, <1>4, <1>6, <1>7 DEF DeviceInv

\* A run that ends or is killed leaves the evidence as it was.
LEMMA EndKeeps ==
  ASSUME DeviceInv, Cleanup \/ KilledDrive
  PROVE  DeviceInv'
<1>1. drive' = Over /\ steps' = NotRun /\ UNCHANGED <<work, apk, verdict>>
  BY DEF Cleanup, KilledDrive
<1>2. DOMAIN phone' = {"apk", "screen", "session", "transport"} /\ phone'.apk = phone.apk
  BY DEF Cleanup, KilledDrive, DeviceInv, DriveTypes
<1>3. server' \in [owner : {"nobody", "driver", "other"}, secret : 0..Foreigner]
  BY DEF Cleanup, KilledDrive, DeviceInv, DriveTypes, NoServer, Nothing, Foreigner
<1>4. steps' \in [Steps -> Statuses]
  BY <1>1 DEF NotRun, Statuses
<1>5. CertifiesCandidate' /\ OwnBackend'
  BY <1>1 DEF DeviceInv, CertifiesCandidate, OwnBackend
<1>6. QED
  BY <1>1, <1>2, <1>3, <1>4, <1>5, EndsKeeps DEF DeviceInv, DriveTypes

-----------------------------------------------------------------------------
(* The theorems.                                                           *)

\* The thirteen steps and the tour keep the invariant.
LEMMA StepsKeep ==
  ASSUME DeviceInv,
         \/ Try("launch", Launch) \/ Try("initial_screen", InitialScreen)
         \/ Try("backend_reachable", BackendReachable) \/ Try("configuration", Configuration)
         \/ Try("authentication", Authentication) \/ Try("primary_user_flow", PrimaryUserFlow)
         \/ Try("api_request", ApiRequest) \/ Try("app_restart", AppRestart)
         \/ Try("offline_handling", OfflineHandling) \/ Try("network_recovery", NetworkRecovery)
         \/ Try("backend_restart", BackendRestart) \/ Try("api_error", ApiError)
         \/ Try("logout_expiration", LogoutExpiration) \/ Try("tour", Tour)
  PROVE  DeviceInv'
<1>1. DriveTypes
  BY DEF DeviceInv
<1>2. /\ Keeping(1, Launch) /\ Keeping(2, InitialScreen) /\ Keeping(3, BackendReachable)
      /\ Keeping(14, Tour)
  BY <1>1, PhoneStepsFine, ServerStepsFine, ServerFound DEF Keeping
<1>3. /\ Keeping(4, Configuration) /\ Keeping(5, Authentication) /\ Keeping(6, PrimaryUserFlow)
      /\ Keeping(7, ApiRequest) /\ Keeping(8, AppRestart) /\ Keeping(9, OfflineHandling)
      /\ Keeping(10, NetworkRecovery) /\ Keeping(12, ApiError)
  BY <1>1, PhoneStepsFine DEF Keeping
<1>4. Keeping(11, BackendRestart) /\ Keeping(13, LogoutExpiration)
  BY <1>1, ServerStepsFine DEF Keeping
<1>5. CASE Try("launch", Launch)
  BY <1>2, <1>5, Places, TryKeeps
<1>6. CASE Try("initial_screen", InitialScreen)
  BY <1>2, <1>6, Places, TryKeeps
<1>7. CASE Try("backend_reachable", BackendReachable)
  BY <1>2, <1>7, Places, TryKeeps
<1>8. CASE Try("configuration", Configuration)
  BY <1>3, <1>8, Places, TryKeeps
<1>9. CASE Try("authentication", Authentication)
  BY <1>3, <1>9, Places, TryKeeps
<1>10. CASE Try("primary_user_flow", PrimaryUserFlow)
  BY <1>3, <1>10, Places, TryKeeps
<1>11. CASE Try("api_request", ApiRequest)
  BY <1>3, <1>11, Places, TryKeeps
<1>12. CASE Try("app_restart", AppRestart)
  BY <1>3, <1>12, Places, TryKeeps
<1>13. CASE Try("offline_handling", OfflineHandling)
  BY <1>3, <1>13, Places, TryKeeps
<1>14. CASE Try("network_recovery", NetworkRecovery)
  BY <1>3, <1>14, Places, TryKeeps
<1>15. CASE Try("backend_restart", BackendRestart)
  BY <1>4, <1>15, Places, TryKeeps
<1>16. CASE Try("api_error", ApiError)
  BY <1>3, <1>16, Places, TryKeeps
<1>17. CASE Try("logout_expiration", LogoutExpiration)
  BY <1>4, <1>17, Places, TryKeeps
<1>18. CASE Try("tour", Tour)
  BY <1>2, <1>18, Places, TryKeeps
<1>19. QED
  BY <1>5, <1>6, <1>7, <1>8, <1>9, <1>10, <1>11, <1>12, <1>13, <1>14, <1>15, <1>16, <1>17, <1>18

\* Every step keeps the invariant.
LEMMA DeviceInvStep == DeviceInv /\ [DeviceNext]_deviceVars => DeviceInv'
<1> SUFFICES ASSUME DeviceInv, [DeviceNext]_deviceVars PROVE DeviceInv'
  OBVIOUS
<1>1. CASE \E w \in [sha : Works, text : Works] : ChangeTree(w)
  BY <1>1, ChangeTreeKeeps
<1>2. CASE RunOnPhone \/ OtherServer
  BY <1>2, DeveloperKeeps
<1>3. CASE CheckTree \/ BuildAndInstall
  BY <1>3, CheckTreeKeeps, BuildKeeps
<1>4. CASE \E extended \in BOOLEAN : StartDrive(extended)
  BY <1>4, StartKeeps
<1>5. CASE Serve \/ CollectLogs \/ WriteEvidence
  BY <1>5, ServeKeeps, CollectKeeps, EvidenceKeeps
<1>6. CASE Cleanup \/ KilledDrive
  BY <1>6, EndKeeps
<1>7. CASE UNCHANGED deviceVars
  BY <1>7 DEF deviceVars, DeviceInv, DriveTypes, BuiltOfCandidate, Served, Passing, Clean,
              CertifiesCandidate, OwnBackend
<1>8. QED
  BY <1>1, <1>2, <1>3, <1>4, <1>5, <1>6, <1>7, StepsKeep DEF DeviceNext

\* The invariant of readiness_device.py and device_driver.py: what is noted is of the build,
\* and what has passed so far was served by the driver's own backend.
THEOREM DeviceInvariant == DeviceSpec => []DeviceInv
<1>1. QED
  BY DeviceInvInit, DeviceInvStep, PTL DEF DeviceSpec

\* Evidence that is PASS certifies a commit whose build is on the phone (probe,
\* manual_results), unless the tree changed while it was built.
THEOREM CertifiedIsInstalled == DeviceSpec => []CertifiesCandidate
<1>1. DeviceInv => CertifiesCandidate
  BY DEF DeviceInv
<1>2. QED
  BY <1>1, DeviceInvariant, PTL

\* Evidence that is PASS rests on the driver's own backend in every step (Backend.start,
\* requests_since).
THEOREM PassedOnOwnBackend == DeviceSpec => []OwnBackend
<1>1. DeviceInv => OwnBackend
  BY DEF DeviceInv
<1>2. QED
  BY <1>1, DeviceInvariant, PTL

-----------------------------------------------------------------------------
(***************************************************************************)
(* Telemetry: batches of windows that meet add up, and grow when they are  *)
(* exported again, for any runs, windows, registries and interleaving of   *)
(* queries and commits.                                                    *)
(***************************************************************************)
\* A reply that is recorded was complete, and committed its live decision with the record.
EvidenceTogether ==
  /\ \A r \in Runs : Has("record", r) => Has("run", r) /\ Has("live", r)
  /\ \A r \in Runs : Has("run", r) => completed[r] # NotYet

\* The export under way has read runs of its window only, all recorded, and once it has
\* read decisions, the live one of each; it has the runs of the window's last batch.
Gathered ==
  /\ export.pc # "idle" =>
       \E w \in Windows :
         /\ export.window = {w}
         /\ \A r \in export.records : InWindow(r, w)
         /\ \A e \in batches[w] : e.run \in export.records
  /\ export.records \subseteq With("record")
  /\ export.retries \subseteq With("record")
  /\ export.pc \in {"ratings", "children", "retries", "write"} =>
       /\ \A d \in export.decisions : d.kind \in {"live", "shadow"}
       /\ \A r \in export.records : [kind |-> "live", run |-> r] \in export.decisions

\* What a batch holds is whole, and of its window.
BatchSound(w) ==
  \A e \in batches[w] :
    /\ e.run \in With("record") /\ InWindow(e.run, w)
    /\ "live" \in e.decisions /\ e.decisions \subseteq {"live", "shadow"}
    /\ e.retried \subseteq With("record")

TelemetryInv ==
  /\ TelemetryTypeOK
  /\ DOMAIN export = DOMAIN NoExport /\ DOMAIN batches = Windows
  /\ EvidenceTogether
  /\ Gathered
  /\ \A w \in Windows : BatchSound(w)

\* Nothing has happened at first.
LEMMA TelemetryInvInit == TelemetryInit => TelemetryInv
<1> SUFFICES ASSUME TelemetryInit PROVE TelemetryInv
  OBVIOUS
<1>1. TelemetryTypeOK
  BY TelemetryAssumption DEF TelemetryInit, TelemetryTypeOK, NoExport, NotYet, RowSet
<1>2. QED
  BY <1>1 DEF TelemetryInit, TelemetryInv, EvidenceTogether, Gathered, BatchSound, Has, With, NoExport

\* Completion times that are kept keep a run in its windows.
LEMMA RequestsKeep ==
  ASSUME TelemetryInv, TelemetryTypeOK', EvidenceTogether', UNCHANGED <<export, batches>>,
         rows \subseteq rows',
         \A r \in With("record") : completed'[r] = completed[r]
  PROVE  TelemetryInv'
<1>1. With("record") \subseteq With("record")'
  BY DEF With, Has
<1>2. \A r \in With("record"), w \in Windows : InWindow(r, w) => InWindow(r, w)'
  BY DEF InWindow
<1>3. Gathered'
  <2>1. export'.pc # "idle" =>
          \E w \in Windows :
            /\ export'.window = {w}
            /\ \A r \in export'.records : InWindow(r, w)'
            /\ \A e \in batches'[w] : e.run \in export'.records
    BY <1>2 DEF TelemetryInv, Gathered
  <2>2. QED
    BY <1>1, <2>1 DEF TelemetryInv, Gathered
<1>4. \A w \in Windows : BatchSound(w)'
  BY <1>1, <1>2 DEF TelemetryInv, BatchSound
<1>5. QED
  BY <1>3, <1>4 DEF TelemetryInv, NoExport

LEMMA CompleteRunKeeps == ASSUME TelemetryInv, NEW r \in Runs, CompleteRun(r) PROVE TelemetryInv'
<1>1. TelemetryTypeOK'
  BY TelemetryAssumption DEF CompleteRun, TelemetryInv, TelemetryTypeOK, NotYet, RowSet
<1>2. /\ completed' = [completed EXCEPT ![r] = time] /\ completed[r] = NotYet
      /\ UNCHANGED <<rows, export, batches>>
  BY DEF CompleteRun
<1>3. time # NotYet /\ completed \in [Runs -> 0 .. NotYet]
  BY TelemetryAssumption DEF TelemetryInv, TelemetryTypeOK, NotYet
<1>4. \A q \in With("record") : completed'[q] = completed[q]
  BY <1>2 DEF TelemetryInv, EvidenceTogether, With
<1>5. EvidenceTogether'
  BY <1>2, <1>3 DEF TelemetryInv, EvidenceTogether, Has, NotYet
<1>6. QED
  BY <1>1, <1>2, <1>4, <1>5, RequestsKeep

\* A transaction commits all of its evidence or none.
LEMMA SaveRunKeeps == ASSUME TelemetryInv, NEW r \in Runs, SaveRun(r) PROVE TelemetryInv'
<1> DEFINE new == rows' \ rows
<1>1. PICK some \in SUBSET RowSet :
        /\ rows' = rows \cup some
        /\ [kind |-> "run", run |-> r] \in some
        /\ \A d \in some : d.run = r
        /\ [kind |-> "record", run |-> r] \in some => [kind |-> "live", run |-> r] \in some
  <2>1. \/ rows' = rows \cup Evidence(r, TRUE)
        \/ rows' = rows \cup Evidence(r, FALSE)
        \/ rows' = rows \cup {[kind |-> "run", run |-> r]}
    BY DEF SaveRun
  <2>2. ASSUME NEW b \in BOOLEAN
        PROVE  /\ Evidence(r, b) \subseteq RowSet
               /\ [kind |-> "run", run |-> r] \in Evidence(r, b)
               /\ \A d \in Evidence(r, b) : d.run = r
               /\ [kind |-> "live", run |-> r] \in Evidence(r, b)
    BY DEF Evidence, RowSet, Kinds
  <2>3. /\ {[kind |-> "run", run |-> r]} \subseteq RowSet
        /\ [kind |-> "record", run |-> r] \notin {[kind |-> "run", run |-> r]}
    BY DEF RowSet, Kinds
  <2>4. QED
    BY <2>1, <2>2, <2>3
<1>2. completed[r] # NotYet /\ UNCHANGED <<time, completed, ratings, registry, export, batches>>
  BY DEF SaveRun
<1>3. TelemetryTypeOK'
  BY <1>1, <1>2 DEF TelemetryInv, TelemetryTypeOK, NotYet, RowSet
<1>4. EvidenceTogether'
  <2>1. ~Has("record", r)
    BY DEF SaveRun, TelemetryInv, EvidenceTogether
  <2>2. \A q \in Runs, k \in Kinds : Has(k, q)' => Has(k, q) \/ q = r
    BY <1>1 DEF Has
  <2>3. \A q \in Runs, k \in Kinds : Has(k, q) => Has(k, q)'
    BY <1>1 DEF Has
  <2>4. Has("record", r)' => Has("live", r)'
    BY <1>1, <2>1 DEF Has
  <2>5. Has("run", r)'
    BY <1>1 DEF Has
  <2>6. "run" \in Kinds /\ "live" \in Kinds /\ "record" \in Kinds
    BY DEF Kinds
  <2>7. \A q \in Runs : Has("record", q)' => Has("run", q)' /\ Has("live", q)'
    BY <2>2, <2>3, <2>4, <2>5, <2>6 DEF TelemetryInv, EvidenceTogether
  <2>8. \A q \in Runs : Has("run", q)' => completed'[q] # NotYet
    BY <1>2, <2>2, <2>6 DEF TelemetryInv, EvidenceTogether
  <2>9. QED
    BY <2>7, <2>8 DEF EvidenceTogether, NotYet
<1>5. QED
  BY <1>1, <1>2, <1>3, <1>4, RequestsKeep

\* Ratings, the clock and the registry say nothing of this.
LEMMA SurroundingsKeep ==
  ASSUME TelemetryInv, TelemetryTypeOK', UNCHANGED <<completed, rows, export, batches>>
  PROVE  TelemetryInv'
<1>1. EvidenceTogether'
  BY DEF TelemetryInv, EvidenceTogether, Has, NotYet
<1>2. QED
  BY <1>1, RequestsKeep

\* A step of the export: only the export changes.
LEMMA ExportKeeps ==
  ASSUME TelemetryInv, Gathered', UNCHANGED <<time, completed, rows, ratings, registry, batches>>,
         DOMAIN export' = DOMAIN NoExport,
         export'.pc \in {"idle", "decisions", "ratings", "children", "retries", "write"},
         export'.window \subseteq Windows, export'.decisions \subseteq RowSet,
         export'.children \subseteq Runs
  PROVE  TelemetryInv'
<1>1. With("record") \subseteq Runs
  BY DEF With
<1>2. export'.records \subseteq Runs /\ export'.retries \subseteq Runs
  BY <1>1 DEF Gathered, With, Has
<1>3. TelemetryTypeOK'
  BY <1>2 DEF TelemetryInv, TelemetryTypeOK, NotYet, RowSet
<1>4. EvidenceTogether' /\ \A w \in Windows : BatchSound(w)'
  BY DEF TelemetryInv, EvidenceTogether, BatchSound, With, Has, NotYet, InWindow
<1>5. QED
  BY <1>3, <1>4 DEF TelemetryInv, NoExport

\* What is in a window when its export begins includes what its last batch has.
LEMMA ReadRecordsKeeps ==
  ASSUME TelemetryInv, NEW w \in Windows, ReadRecords(w)
  PROVE  TelemetryInv'
<1> DEFINE found == {r \in With("record") : InWindow(r, w)}
<1>1. /\ export' = [NoExport EXCEPT !.pc = "decisions", !.window = {w}, !.records = found]
      /\ UNCHANGED <<time, completed, rows, ratings, registry, batches>>
  BY DEF ReadRecords
<1>2. /\ DOMAIN export' = DOMAIN NoExport
      /\ export'.pc = "decisions" /\ export'.window = {w} /\ export'.records = found
      /\ export'.decisions = {} /\ export'.children = {} /\ export'.retries = {}
  BY <1>1 DEF NoExport
<1>3. \A e \in batches[w] : e.run \in found
  BY DEF TelemetryInv, BatchSound
<1>4. \A r \in found : InWindow(r, w)'
  BY <1>1 DEF InWindow
<1>5. found \subseteq With("record")'
  BY <1>1 DEF With, Has
<1> HIDE DEF found
<1>6. Gathered'
  BY <1>1, <1>2, <1>3, <1>4, <1>5 DEF Gathered
<1>7. QED
  BY <1>1, <1>2, <1>6, ExportKeeps

\* The other queries find what they find of the runs that were read.
LEMMA ReadDecisionsKeeps == ASSUME TelemetryInv, ReadDecisions PROVE TelemetryInv'
<1> DEFINE found == {d \in rows : d.kind \in {"live", "shadow"} /\ d.run \in export.records}
<1>1. /\ export' = [export EXCEPT !.pc = "ratings", !.decisions = found]
      /\ export.pc = "decisions"
      /\ UNCHANGED <<time, completed, rows, ratings, registry, batches>>
  BY DEF ReadDecisions
<1>2. /\ DOMAIN export' = DOMAIN NoExport
      /\ export'.pc = "ratings" /\ export'.decisions = found
      /\ export'.window = export.window /\ export'.records = export.records
      /\ export'.children = export.children /\ export'.retries = export.retries
  BY <1>1 DEF TelemetryInv, NoExport
<1>3. found \subseteq rows /\ \A d \in found : d.kind \in {"live", "shadow"}
  OBVIOUS
<1>4. ASSUME NEW r \in export.records PROVE [kind |-> "live", run |-> r] \in found
  <2>1. [kind |-> "live", run |-> r] \in rows
    BY DEF TelemetryInv, Gathered, EvidenceTogether, With, Has
  <2>2. QED
    BY <2>1
<1> HIDE DEF found
<1>5. Gathered'
  BY <1>1, <1>2, <1>3, <1>4 DEF TelemetryInv, Gathered, InWindow, With, Has
<1>6. /\ found \subseteq RowSet /\ export.window \subseteq Windows /\ export.children \subseteq Runs
  BY <1>3 DEF TelemetryInv, TelemetryTypeOK
<1>7. QED
  BY <1>1, <1>2, <1>5, <1>6, ExportKeeps

LEMMA ReadRatingsKeeps == ASSUME TelemetryInv, ReadRatings PROVE TelemetryInv'
<1> DEFINE found == {[run |-> r, up |-> ratings[r] = "up"] :
                       r \in {q \in export.records : ratings[q] # "none"}}
<1>1. /\ export' = [export EXCEPT !.pc = "children", !.rated = found]
      /\ export.pc = "ratings"
      /\ UNCHANGED <<time, completed, rows, ratings, registry, batches>>
  BY DEF ReadRatings
<1> HIDE DEF found
<1>2. /\ DOMAIN export' = DOMAIN NoExport
      /\ export'.pc = "children" /\ export'.decisions = export.decisions
      /\ export'.window = export.window /\ export'.records = export.records
      /\ export'.children = export.children /\ export'.retries = export.retries
  BY <1>1 DEF TelemetryInv, NoExport
<1>3. Gathered'
  BY <1>1, <1>2 DEF TelemetryInv, Gathered, InWindow, With, Has
<1>4. /\ export.decisions \subseteq RowSet /\ export.window \subseteq Windows
      /\ export.children \subseteq Runs
  BY DEF TelemetryInv, TelemetryTypeOK
<1>5. QED
  BY <1>1, <1>2, <1>3, <1>4, ExportKeeps

LEMMA ReadChildrenKeeps == ASSUME TelemetryInv, ReadChildren PROVE TelemetryInv'
<1> DEFINE found == {c \in With("run") : RegeneratedFrom[c] \cap export.records # {}}
<1>1. /\ export' = [export EXCEPT !.pc = "retries", !.children = found]
      /\ export.pc = "children"
      /\ UNCHANGED <<time, completed, rows, ratings, registry, batches>>
  BY DEF ReadChildren
<1>2. found \subseteq Runs
  BY DEF With
<1> HIDE DEF found
<1>3. /\ DOMAIN export' = DOMAIN NoExport
      /\ export'.pc = "retries" /\ export'.decisions = export.decisions
      /\ export'.window = export.window /\ export'.records = export.records
      /\ export'.children = found /\ export'.retries = export.retries
  BY <1>1 DEF TelemetryInv, NoExport
<1>4. Gathered'
  BY <1>1, <1>3 DEF TelemetryInv, Gathered, InWindow, With, Has
<1>5. export.decisions \subseteq RowSet /\ export.window \subseteq Windows
  BY DEF TelemetryInv, TelemetryTypeOK
<1>6. QED
  BY <1>1, <1>2, <1>3, <1>4, <1>5, ExportKeeps

LEMMA ReadChildRecordsKeeps == ASSUME TelemetryInv, ReadChildRecords PROVE TelemetryInv'
<1> DEFINE found == export.children \cap With("record")
<1>1. /\ export' = [export EXCEPT !.pc = "write", !.retries = found]
      /\ export.pc = "retries"
      /\ UNCHANGED <<time, completed, rows, ratings, registry, batches>>
  BY DEF ReadChildRecords
<1>2. found \subseteq With("record")
  OBVIOUS
<1> HIDE DEF found
<1>3. /\ DOMAIN export' = DOMAIN NoExport
      /\ export'.pc = "write" /\ export'.decisions = export.decisions
      /\ export'.window = export.window /\ export'.records = export.records
      /\ export'.children = export.children /\ export'.retries = found
  BY <1>1 DEF TelemetryInv, NoExport
<1>4. Gathered'
  BY <1>1, <1>2, <1>3 DEF TelemetryInv, Gathered, InWindow, With, Has
<1>5. /\ export.decisions \subseteq RowSet /\ export.window \subseteq Windows
      /\ export.children \subseteq Runs
  BY DEF TelemetryInv, TelemetryTypeOK
<1>6. QED
  BY <1>1, <1>3, <1>4, <1>5, ExportKeeps

\* The entries that are written: one for each run that was read, whole; they are no fewer
\* than before.
LEMMA Written ==
  ASSUME TelemetryInv, WriteBatch
  PROVE  /\ UNCHANGED <<time, completed, rows, ratings, registry>> /\ export' = NoExport
         /\ DOMAIN batches' = Windows
         /\ \A w \in Windows : BatchSound(w)'
         /\ \A w \in Windows : {e.run : e \in batches[w]} \subseteq {e.run : e \in batches'[w]}
<1>1. /\ export.pc = "write" /\ export' = NoExport
      /\ UNCHANGED <<time, completed, rows, ratings, registry>>
  BY DEF WriteBatch
<1>2. PICK w \in Windows :
        /\ export.window = {w}
        /\ \A r \in export.records : InWindow(r, w)
        /\ \A e \in batches[w] : e.run \in export.records
  BY <1>1 DEF TelemetryInv, Gathered
<1> DEFINE entries == {Entry(r) : r \in Shipped}
<1>3. batches' = batches \/ batches' = [batches EXCEPT ![w] = entries]
  <2>1. (CHOOSE v \in export.window : TRUE) = w
    BY <1>2
  <2>2. QED
    BY <2>1 DEF WriteBatch
<1>4. ASSUME NEW e \in entries
      PROVE  /\ e.run \in With("record") /\ InWindow(e.run, w)
             /\ "live" \in e.decisions /\ e.decisions \subseteq {"live", "shadow"}
             /\ e.retried \subseteq With("record")
  <2>1. PICK r \in export.records : e = Entry(r)
    BY DEF Shipped
  <2>2. /\ e.run = r
        /\ e.decisions = {d.kind : d \in {c \in export.decisions : c.run = r}}
        /\ e.retried \subseteq export.retries
    BY <2>1 DEF Entry
  <2>3. /\ [kind |-> "live", run |-> r] \in export.decisions
        /\ \A d \in export.decisions : d.kind \in {"live", "shadow"}
        /\ export.records \subseteq With("record") /\ export.retries \subseteq With("record")
    BY <1>1 DEF TelemetryInv, Gathered
  <2>4. "live" \in e.decisions
    <3>1. [kind |-> "live", run |-> r] \in {c \in export.decisions : c.run = r}
      BY <2>3
    <3>2. [kind |-> "live", run |-> r].kind = "live"
      OBVIOUS
    <3>3. QED
      BY <2>2, <3>1, <3>2
  <2>5. QED
    BY <1>2, <2>2, <2>3, <2>4
<1>5. \A r \in export.records : \E e \in entries : e.run = r
  <2>1. ASSUME NEW r \in export.records PROVE Entry(r) \in entries /\ Entry(r).run = r
    BY DEF Shipped, Entry
  <2>2. QED
    BY <2>1
<1>6. \A e \in batches[w] : \E f \in entries : f.run = e.run
  BY <1>2, <1>5
<1> HIDE DEF entries
<1>7. DOMAIN batches' = Windows
  BY <1>3 DEF TelemetryInv
<1>8. \A v \in Windows : batches'[v] = batches[v] \/ (v = w /\ batches'[w] = entries)
  <2>1. DOMAIN batches = Windows
    BY DEF TelemetryInv
  <2>2. CASE batches' = [batches EXCEPT ![w] = entries]
    <3>1. batches'[w] = entries /\ \A v \in Windows \ {w} : batches'[v] = batches[v]
      BY <2>1, <2>2
    <3>2. QED
      BY <3>1
  <2>3. QED
    BY <1>3, <2>2
<1>9. ASSUME NEW v \in Windows PROVE BatchSound(v)'
  BY <1>1, <1>4, <1>8 DEF TelemetryInv, BatchSound, With, Has, InWindow
<1>10. ASSUME NEW v \in Windows
       PROVE  {e.run : e \in batches[v]} \subseteq {e.run : e \in batches'[v]}
  BY <1>6, <1>8
<1>11. QED
  BY <1>1, <1>7, <1>9, <1>10

LEMMA WriteBatchKeeps == ASSUME TelemetryInv, WriteBatch PROVE TelemetryInv'
<1>1. TelemetryTypeOK'
  BY Written DEF TelemetryInv, TelemetryTypeOK, NoExport, NotYet, RowSet
<1>2. EvidenceTogether' /\ Gathered'
  BY Written DEF TelemetryInv, EvidenceTogether, Gathered, NoExport, Has, With, NotYet
<1>3. QED
  BY <1>1, <1>2, Written DEF TelemetryInv, NoExport

\* Every step keeps the inductive invariant.
LEMMA TelemetryInvStep == TelemetryInv /\ [TelemetryNext]_telemetryVars => TelemetryInv'
<1> SUFFICES ASSUME TelemetryInv, [TelemetryNext]_telemetryVars PROVE TelemetryInv'
  OBVIOUS
<1>1. CASE UNCHANGED telemetryVars
  BY <1>1, SurroundingsKeep DEF telemetryVars, TelemetryInv, TelemetryTypeOK, NotYet, RowSet
<1>2. ASSUME NEW r \in Runs, NEW rating \in {"up", "down"}, RateRun(r, rating)
      PROVE  TelemetryInv'
  BY <1>2, SurroundingsKeep DEF RateRun, TelemetryInv, TelemetryTypeOK, NotYet, RowSet
<1>3. CASE TimeGoesOn
  <2>1. time' \in 0 .. MaxTime
    BY <1>3, TelemetryAssumption DEF TimeGoesOn, TelemetryInv, TelemetryTypeOK
  <2>2. QED
    BY <1>3, <2>1, SurroundingsKeep DEF TimeGoesOn, TelemetryInv, TelemetryTypeOK, NotYet, RowSet
<1>4. ASSUME NEW models \in Registries, ReviewRegistry(models) PROVE TelemetryInv'
  BY <1>4, SurroundingsKeep DEF ReviewRegistry, TelemetryInv, TelemetryTypeOK, NotYet, RowSet
<1>5. QED
  BY <1>1, <1>2, <1>3, <1>4, CompleteRunKeeps, SaveRunKeeps, ReadRecordsKeeps,
     ReadDecisionsKeeps, ReadRatingsKeeps, ReadChildrenKeeps, ReadChildRecordsKeeps,
     WriteBatchKeeps DEF TelemetryNext

\* Every export gathers whole evidence of its window, and every batch is made of it
\* (build_telemetry_batch).
THEOREM TelemetryInvariant == TelemetrySpec => []TelemetryInv
BY TelemetryInvInit, TelemetryInvStep, PTL DEF TelemetrySpec

\* Each run of consecutive windows is in one batch, with its live decision and retries that
\* have evidence of their own, though transactions commit between the queries
\* (build_telemetry_batch, _run).
THEOREM WindowsAddUp == TelemetrySpec => []BatchesAddUp
<1>1. TelemetryInv => WholeEntries
  BY DEF TelemetryInv, BatchSound, WholeEntries, EvidenceTogether, With
<1>2. TelemetryInv => EachRunInOneWindow
  <2> SUFFICES ASSUME TelemetryInv, NEW v \in Windows, NEW w \in Windows, v.to <= w.from,
                      NEW e \in batches[v], NEW f \in batches[w], e.run = f.run
               PROVE  FALSE
    BY DEF EachRunInOneWindow
  <2>1. InWindow(e.run, v) /\ InWindow(e.run, w) /\ e.run \in Runs
    BY DEF TelemetryInv, BatchSound, With
  <2>2. completed[e.run] \in Int
    BY <2>1, TelemetryAssumption DEF TelemetryInv, TelemetryTypeOK, NotYet
  <2>3. QED
    BY <2>1, <2>2, TelemetryAssumption DEF InWindow
<1>3. QED
  BY <1>1, <1>2, TelemetryInvariant, PTL DEF BatchesAddUp

\* A window that is exported again loses no run, whatever was committed, rated or removed
\* from the registry since (build_telemetry_batch).
THEOREM ReexportKeepsRuns == TelemetrySpec => ReexportGrows
<1>1. TelemetryInv /\ [TelemetryNext]_telemetryVars =>
        [\A w \in Windows :
           {e.run : e \in batches[w]} \subseteq {e.run : e \in batches'[w]}]_telemetryVars
  <2> SUFFICES ASSUME TelemetryInv, TelemetryNext
               PROVE  \A w \in Windows :
                        {e.run : e \in batches[w]} \subseteq {e.run : e \in batches'[w]}
    OBVIOUS
  <2>1. CASE WriteBatch
    BY <2>1, Written
  <2>2. CASE ~WriteBatch
    <3>1. batches' = batches
      BY <2>2 DEF TelemetryNext, CompleteRun, SaveRun, RateRun, TimeGoesOn, ReviewRegistry,
                  ReadRecords, ReadDecisions, ReadRatings, ReadChildren, ReadChildRecords
    <3>2. QED
      BY <3>1
  <2>3. QED
    BY <2>1, <2>2
<1>2. QED
  BY <1>1, TelemetryInvariant, PTL DEF TelemetrySpec, ReexportGrows

-----------------------------------------------------------------------------
(***************************************************************************)
(* ModelLab: the evidence that runs leave is sound, for any suite, models  *)
(* and caps, wherever runs are interrupted or repeated.                    *)
(***************************************************************************)
Splits == {"all", "train", "calibration", "holdout"}
Attempts == [id : AttemptIds, status : {"completed", "failed"}]
LiveRuns ==
  [pc : {"idle", "catalog", "ask"}, models : SUBSET LabModels, cap : Nat, split : Splits,
   todo : SUBSET AttemptIds, requests : Nat, attempts : SUBSET Attempts]

\* The attempts are of these pairs, one of each.
OneEach(attempts, pairs) ==
  /\ {a.id : a \in attempts} = pairs
  /\ \A a, b \in attempts : a.id = b.id => a = b

\* A live run has asked what is no longer to do, and can still afford what is.
Affordable ==
  /\ run \in LiveRuns
  /\ run.pc = "idle" => run.requests = 0
  /\ run.pc = "catalog" => /\ run.requests = 0 /\ run.attempts = {}
                           /\ PlannedRequests(run.models, run.split) <= run.cap
  /\ run.pc = "ask" => /\ run.todo \subseteq Plan(run.models, run.split)
                       /\ OneEach(run.attempts, Plan(run.models, run.split) \ run.todo)
                       /\ run.requests + Cardinality(run.todo) <= run.cap

WrittenWhole ==
  \A o \in outputs : /\ o.models \in SUBSET LabModels /\ o.split \in Splits
                     /\ o.attempts \in SUBSET Attempts
                     /\ OneEach(o.attempts, Plan(o.models, o.split))

\* An attempt that is about to be graded is stored and completed.
GradesDue ==
  /\ DOMAIN stored \subseteq AttemptIds /\ DOMAIN grades \subseteq DOMAIN stored
  /\ filling \in [pc : {"idle", "attempt", "grade"}, model : LabModels \cup {"none"},
                  index : Nat, every : Nat]
  /\ filling.pc # "idle" => filling.model \in LabModels /\ filling.index \in Index
  /\ filling.pc = "grade" => Id \in DOMAIN stored /\ stored[Id].status = "completed"
  /\ GradesCompleted

LabInv == Affordable /\ WrittenWhole /\ GradesDue

-----------------------------------------------------------------------------
\* The cases are numbered, and every plan is finite.
LEMMA IndexFacts == Len(Cases) \in Nat /\ Index = 1 .. Len(Cases) /\ Index \subseteq Nat
<1>1. Len(Cases) \in Nat /\ DOMAIN Cases = 1 .. Len(Cases)
  BY ModelLabAssumption
<1>2. QED
  BY <1>1 DEF Index

LEMMA PairsFinite == IsFiniteSet(AttemptIds)
<1> DEFINE pairs == LabModels \X Index
           f == [p \in pairs |-> [model |-> p[1], index |-> p[2]]]
<1>1. IsFiniteSet(Index)
  <2>1. Len(Cases) \in Int /\ 1 \in Int
    BY IndexFacts
  <2>2. IsFiniteSet(1 .. Len(Cases))
    BY <2>1, FS_Interval
  <2>3. QED
    BY <2>2, IndexFacts
<1>2. IsFiniteSet(pairs)
  BY <1>1, FS_Product, ModelLabAssumption
<1>3. \A a \in AttemptIds : \E p \in pairs : f[p] = a
  <2>1. ASSUME NEW a \in AttemptIds PROVE <<a.model, a.index>> \in pairs /\ f[<<a.model, a.index>>] = a
    BY DEF AttemptIds
  <2>2. QED
    BY <2>1
<1>4. f \in [pairs -> AttemptIds]
  BY DEF AttemptIds
<1> HIDE DEF pairs, f
<1>5. f \in Surjection(pairs, AttemptIds)
  BY <1>3, <1>4 DEF Surjection
<1>6. QED
  BY <1>2, <1>5, FS_Surjection

LEMMA PlanFacts ==
  ASSUME NEW models \in SUBSET LabModels, NEW split
  PROVE  /\ Plan(models, split) \subseteq AttemptIds
         /\ \A todo \in SUBSET AttemptIds :
              IsFiniteSet(todo) /\ Cardinality(todo) \in Nat
<1>1. Plan(models, split) \subseteq AttemptIds
  BY DEF Plan, Selected, AttemptIds
<1>2. \A todo \in SUBSET AttemptIds : IsFiniteSet(todo)
  BY PairsFinite, FS_Subset
<1>3. QED
  BY <1>1, <1>2, FS_CardinalityType

\* One attempt of each pair is as many attempts as pairs.
LEMMA OneEachCounts ==
  ASSUME NEW attempts, NEW pairs, IsFiniteSet(pairs), OneEach(attempts, pairs)
  PROVE  Cardinality({a.id : a \in attempts}) = Cardinality(attempts)
<1> DEFINE of == [p \in pairs |-> CHOOSE a \in attempts : a.id = p]
<1>1. \A p \in pairs : of[p] \in attempts /\ of[p].id = p
  <2>1. ASSUME NEW p \in pairs PROVE \E a \in attempts : a.id = p
    BY DEF OneEach
  <2>2. QED
    BY <2>1
<1>2. \A a \in attempts : a.id \in pairs /\ of[a.id] = a
  <2>1. ASSUME NEW a \in attempts PROVE a.id \in pairs
    BY DEF OneEach
  <2>2. QED
    BY <1>1, <2>1 DEF OneEach
<1>3. of \in [pairs -> attempts]
  <2>1. \A p \in pairs : (CHOOSE a \in attempts : a.id = p) \in attempts
    BY <1>1
  <2>2. QED
    BY <2>1
<1> HIDE DEF of
<1>4. of \in Bijection(pairs, attempts)
  <2>1. \A p, q \in pairs : of[p] = of[q] => p = q
    BY <1>1
  <2>2. \A a \in attempts : \E p \in pairs : of[p] = a
    BY <1>2
  <2>3. QED
    BY <1>3, <2>1, <2>2 DEF Bijection, Injection, Surjection, IsInjective
<1>5. Cardinality(attempts) = Cardinality(pairs)
  BY <1>4, FS_Bijection DEF ExistsBijection
<1>6. QED
  BY <1>5 DEF OneEach

-----------------------------------------------------------------------------
LEMMA LabInvInit == LabInit => LabInv
<1> SUFFICES ASSUME LabInit PROVE LabInv
  OBVIOUS
<1>1. Affordable
  BY DEF LabInit, NoRun, Affordable, LiveRuns, Splits
<1>2. WrittenWhole
  BY DEF LabInit, WrittenWhole
<1>3. GradesDue
  <2>1. DOMAIN stored = {} /\ DOMAIN grades = {}
    BY DEF LabInit
  <2>2. QED
    BY <2>1 DEF LabInit, NoFilling, GradesDue, GradesCompleted
<1>4. QED
  BY <1>1, <1>2, <1>3 DEF LabInv

\* A run that ends leaves none under way.
LEMMA NoRunAffordable == ASSUME run' = NoRun PROVE Affordable'
BY DEF NoRun, Affordable, LiveRuns, Splits

\* Steps of the live run leave what is stored.
LEMMA LiveKeeps ==
  ASSUME LabInv, Affordable', WrittenWhole', UNCHANGED <<stored, grades, filling>>
  PROVE  LabInv'
BY DEF LabInv, GradesDue, GradesCompleted, Id

LEMMA StartRunKeeps ==
  ASSUME LabInv, NEW models \in SUBSET LabModels, NEW split \in Splits, NEW cap \in MaxRequests,
         StartRun(models, split, cap)
  PROVE  LabInv'
<1>1. run' = [NoRun EXCEPT !.pc = "catalog", !.models = models, !.cap = cap, !.split = split]
  BY DEF StartRun
<1>2. /\ run' \in LiveRuns
      /\ run'.pc = "catalog" /\ run'.models = models /\ run'.cap = cap /\ run'.split = split
      /\ run'.requests = 0 /\ run'.attempts = {}
  BY <1>1, ModelLabAssumption DEF NoRun, LiveRuns
<1>3. PlannedRequests(models, split) <= cap
  BY DEF StartRun
<1>4. Affordable'
  BY <1>2, <1>3 DEF Affordable
<1>5. QED
  BY <1>4, LiveKeeps DEF StartRun, LabInv, WrittenWhole

LEMMA FetchCatalogKeeps == ASSUME LabInv, FetchCatalog PROVE LabInv'
<1> DEFINE plan == Plan(run.models, run.split)
<1>1. /\ run \in LiveRuns /\ run.pc = "catalog" /\ run.attempts = {}
      /\ PlannedRequests(run.models, run.split) <= run.cap
  BY DEF FetchCatalog, LabInv, Affordable
<1>2. run.models \in SUBSET LabModels /\ run.cap \in Nat
  BY <1>1 DEF LiveRuns
<1>3. plan \subseteq AttemptIds /\ Cardinality(plan) \in Nat
  BY <1>2, PlanFacts
<1>4. Cardinality(plan) + 1 <= run.cap
  BY <1>1 DEF PlannedRequests
<1> HIDE DEF plan
<1>5. ASSUME run' = [run EXCEPT !.pc = "ask", !.requests = 1, !.todo = plan]
      PROVE  Affordable'
  <2>1. /\ run'.pc = "ask" /\ run'.requests = 1 /\ run'.todo = plan /\ run'.attempts = {}
        /\ run'.models = run.models /\ run'.split = run.split /\ run'.cap = run.cap
    BY <1>1, <1>5 DEF LiveRuns
  <2>2. run' \in LiveRuns
    BY <1>1, <1>3, <1>5 DEF LiveRuns
  <2>3. Plan(run'.models, run'.split) = plan
    BY <2>1 DEF plan
  <2>4. run'.todo \subseteq plan /\ OneEach(run'.attempts, plan \ run'.todo)
    BY <2>1 DEF OneEach
  <2>5. run'.requests + Cardinality(run'.todo) <= run'.cap
    BY <1>2, <1>3, <1>4, <2>1
  <2>6. QED
    BY <2>1, <2>2, <2>3, <2>4, <2>5 DEF Affordable
<1>6. Affordable'
  <2>1. \/ run' = [run EXCEPT !.pc = "ask", !.requests = 1, !.todo = plan]
        \/ run' = NoRun
    BY DEF FetchCatalog, plan
  <2>2. QED
    BY <1>5, <2>1, NoRunAffordable
<1>7. QED
  BY <1>6, LiveKeeps DEF FetchCatalog, LabInv, WrittenWhole

\* A pair that is asked is no longer to do, and has an attempt whatever the answer.
LEMMA AskModelKeeps ==
  ASSUME LabInv, NEW id \in run.todo, NEW status \in {"completed", "failed"},
         AskModel(id, status)
  PROVE  LabInv'
<1> DEFINE a == [id |-> id, status |-> status]
           plan == Plan(run.models, run.split)
<1>1. /\ run \in LiveRuns /\ run.pc = "ask" /\ run.todo \subseteq plan
      /\ OneEach(run.attempts, plan \ run.todo)
      /\ run.requests + Cardinality(run.todo) <= run.cap
  BY DEF AskModel, LabInv, Affordable
<1>2. /\ run.models \in SUBSET LabModels /\ run.cap \in Nat /\ run.requests \in Nat
      /\ run.todo \in SUBSET AttemptIds /\ run.attempts \in SUBSET Attempts
  BY <1>1 DEF LiveRuns
<1>3. /\ run' = [run EXCEPT !.requests = run.requests + 1, !.todo = run.todo \ {id},
                            !.attempts = run.attempts \cup {a}]
      /\ UNCHANGED <<outputs, stored, grades, filling>>
  BY DEF AskModel, Attempt
<1>4. /\ run'.pc = "ask" /\ run'.requests = run.requests + 1 /\ run'.todo = run.todo \ {id}
      /\ run'.attempts = run.attempts \cup {a}
      /\ run'.models = run.models /\ run'.split = run.split /\ run'.cap = run.cap
  BY <1>1, <1>3 DEF LiveRuns
<1>5. a \in Attempts /\ a.id = id
  BY <1>2 DEF Attempts
<1> HIDE DEF a, plan
<1>6. run' \in LiveRuns
  <2>1. /\ run.requests + 1 \in Nat /\ run.todo \ {id} \in SUBSET AttemptIds
        /\ run.attempts \cup {a} \in SUBSET Attempts
    BY <1>2, <1>5
  <2>2. QED
    BY <1>1, <1>3, <2>1 DEF LiveRuns
<1>7. Cardinality(run.todo \ {id}) = Cardinality(run.todo) - 1 /\ Cardinality(run.todo) \in Nat
  BY <1>2, PlanFacts, FS_RemoveElement
<1>8. run'.requests + Cardinality(run'.todo) <= run'.cap
  BY <1>1, <1>2, <1>4, <1>7
<1>9. OneEach(run'.attempts, plan \ run'.todo)
  <2>1. {b.id : b \in run'.attempts} = (plan \ run.todo) \cup {id}
    <3>1. {b.id : b \in run.attempts} = plan \ run.todo
      BY <1>1 DEF OneEach
    <3>2. QED
      BY <1>4, <1>5, <3>1
  <2>2. (plan \ run.todo) \cup {id} = plan \ run'.todo
    BY <1>1, <1>4
  <2>3. \A b \in run.attempts : b.id # id
    BY <1>1 DEF OneEach
  <2>4. \A b, c \in run'.attempts : b.id = c.id => b = c
    BY <1>1, <1>4, <1>5, <2>3 DEF OneEach
  <2>5. QED
    BY <2>1, <2>2, <2>4 DEF OneEach
<1>10. Affordable'
  <2>1. Plan(run'.models, run'.split) = plan
    BY <1>4 DEF plan
  <2>2. run'.todo \subseteq plan
    BY <1>1, <1>4
  <2>3. QED
    BY <1>4, <1>6, <1>8, <1>9, <2>1, <2>2 DEF Affordable
<1>11. QED
  BY <1>3, <1>10, LiveKeeps DEF LabInv, WrittenWhole

\* What is written has an attempt for every pair: nothing was left to do.
LEMMA FinishRunKeeps == ASSUME LabInv, FinishRun PROVE LabInv'
<1>1. /\ run \in LiveRuns /\ run.pc = "ask" /\ run.todo = {}
      /\ OneEach(run.attempts, Plan(run.models, run.split) \ run.todo)
  BY DEF FinishRun, LabInv, Affordable
<1>2. Plan(run.models, run.split) \ run.todo = Plan(run.models, run.split)
  BY <1>1
<1>3. outputs' = {[models |-> run.models, split |-> run.split, attempts |-> run.attempts]}
  BY DEF FinishRun
<1>4. WrittenWhole'
  BY <1>1, <1>2, <1>3 DEF WrittenWhole, LiveRuns
<1>5. QED
  BY <1>4, NoRunAffordable, LiveKeeps DEF FinishRun

-----------------------------------------------------------------------------
\* Steps of the deterministic run leave the live one.
LEMMA StoreKeeps ==
  ASSUME LabInv, GradesDue', UNCHANGED <<run, outputs>>
  PROVE  LabInv'
BY DEF LabInv, Affordable, WrittenWhole

\* The next case, or the end.
LEMMA Advances ==
  ASSUME GradesDue, filling.pc # "idle", Advance
  PROVE  /\ filling' \in [pc : {"idle", "attempt", "grade"}, model : LabModels \cup {"none"},
                          index : Nat, every : Nat]
         /\ filling'.pc # "grade"
         /\ filling'.pc # "idle" => filling'.model \in LabModels /\ filling'.index \in Index
<1>1. /\ filling \in [pc : {"idle", "attempt", "grade"}, model : LabModels \cup {"none"},
                      index : Nat, every : Nat]
      /\ filling.model \in LabModels /\ filling.index \in Index
  BY DEF GradesDue
<1>2. CASE filling' = NoFilling
  BY <1>2 DEF NoFilling
<1>3. CASE filling' # NoFilling
  <2>1. filling' = [filling EXCEPT !.pc = "attempt", !.index = filling.index + 1]
        /\ filling.index # Len(Cases)
    BY <1>3 DEF Advance
  <2>2. filling.index + 1 \in Index
    BY <1>1, <2>1, IndexFacts
  <2>3. filling.index + 1 \in Nat
    BY <1>1
  <2>4. /\ filling'.pc = "attempt" /\ filling'.model = filling.model
        /\ filling'.index = filling.index + 1
    BY <1>1, <2>1
  <2>5. QED
    BY <1>1, <2>1, <2>2, <2>3, <2>4
<1>4. QED
  BY <1>2, <1>3

LEMMA StartFillingKeeps ==
  ASSUME LabInv, NEW model \in LabModels, NEW every \in {0, 2}, StartFilling(model, every)
  PROVE  LabInv'
<1>1. 1 \in Index
  <2>1. Cases # <<>>
    BY DEF StartFilling
  <2>2. Len(Cases) \in Nat \ {0}
    BY <2>1, ModelLabAssumption
  <2>3. QED
    BY <2>2, IndexFacts
<1>2. GradesDue'
  BY <1>1 DEF StartFilling, LabInv, GradesDue, GradesCompleted, Id
<1>3. QED
  BY <1>2, StoreKeeps DEF StartFilling

\* An attempt is stored once.
LEMMA AddAttemptKeeps == ASSUME LabInv, AddAttempt PROVE LabInv'
<1>1. GradesDue /\ filling.pc = "attempt" /\ UNCHANGED <<run, outputs, grades>>
  BY DEF AddAttempt, LabInv
<1>2. CASE ~Insertable(Id)
  <2>1. UNCHANGED stored /\ filling' = NoFilling
    BY <1>2 DEF AddAttempt
  <2>2. GradesDue'
    BY <1>1, <2>1 DEF GradesDue, GradesCompleted, NoFilling
  <2>3. QED
    BY <1>1, <2>2, StoreKeeps
<1>3. CASE Insertable(Id)
  <2> DEFINE row == [case |-> Cases[filling.index].id, status |-> Status]
  <2>1. /\ stored' = Extended(stored, Id, row)
        /\ IF Status = "completed" THEN filling' = [filling EXCEPT !.pc = "grade"] ELSE Advance
    BY <1>3 DEF AddAttempt
  <2>2. row.status = Status
    OBVIOUS
  <2> HIDE DEF row
  <2>3. /\ Id \in AttemptIds /\ Id \notin DOMAIN stored
        /\ filling \in [pc : {"idle", "attempt", "grade"}, model : LabModels \cup {"none"},
                        index : Nat, every : Nat]
        /\ filling.model \in LabModels /\ filling.index \in Index
    BY <1>1, <1>3 DEF GradesDue, Id, AttemptIds, Insertable
  <2>4. /\ DOMAIN stored' = DOMAIN stored \cup {Id}
        /\ stored'[Id] = row
        /\ \A id \in DOMAIN stored : stored'[id] = stored[id]
    BY <2>1, <2>3 DEF Extended
  <2>5. DOMAIN stored' \subseteq AttemptIds /\ DOMAIN grades' \subseteq DOMAIN stored'
    BY <1>1, <2>3, <2>4 DEF GradesDue
  <2>6. GradesCompleted'
    BY <1>1, <2>4 DEF GradesDue, GradesCompleted
  <2>7. CASE Status = "completed"
    <3>1. filling' = [filling EXCEPT !.pc = "grade"]
      BY <2>1, <2>7
    <3>2. filling'.pc = "grade" /\ filling'.model = filling.model /\ filling'.index = filling.index
      BY <2>3, <3>1
    <3>3. Id' = Id
      BY <3>2 DEF Id
    <3>4. filling' \in [pc : {"idle", "attempt", "grade"}, model : LabModels \cup {"none"},
                        index : Nat, every : Nat]
      BY <2>3, <3>1
    <3>5. Id' \in DOMAIN stored' /\ stored'[Id'].status = "completed"
      BY <2>2, <2>4, <2>7, <3>3
    <3>6. GradesDue'
      BY <2>3, <2>5, <2>6, <3>2, <3>4, <3>5 DEF GradesDue
    <3>7. QED
      BY <1>1, <3>6, StoreKeeps
  <2>8. CASE Status # "completed"
    <3>1. GradesDue'
      BY <1>1, <2>1, <2>5, <2>6, <2>8, Advances DEF GradesDue
    <3>2. QED
      BY <1>1, <3>1, StoreKeeps
  <2>9. QED
    BY <2>7, <2>8
<1>4. QED
  BY <1>2, <1>3

\* The grade is of the attempt just stored.
LEMMA AddGradeKeeps == ASSUME LabInv, AddGrade PROVE LabInv'
<1>1. /\ GradesDue /\ filling.pc = "grade" /\ Advance /\ UNCHANGED <<run, outputs, stored>>
      /\ grades' = Extended(grades, Id, Grade(Cases[filling.index]))
  BY DEF AddGrade, LabInv
<1>2. Id \in DOMAIN stored /\ stored[Id].status = "completed"
  BY <1>1 DEF GradesDue
<1>3. DOMAIN grades' = DOMAIN grades \cup {Id}
  BY <1>1 DEF Extended
<1>4. GradesCompleted'
  BY <1>1, <1>2, <1>3 DEF GradesDue, GradesCompleted
<1>5. GradesDue'
  BY <1>1, <1>2, <1>3, <1>4, Advances DEF GradesDue
<1>6. QED
  BY <1>1, <1>5, StoreKeeps

LEMMA InterruptFillingKeeps == ASSUME LabInv, InterruptFilling PROVE LabInv'
<1>1. GradesDue'
  BY DEF InterruptFilling, LabInv, GradesDue, GradesCompleted, NoFilling
<1>2. QED
  BY <1>1, StoreKeeps DEF InterruptFilling

\* Every step keeps the inductive invariant.
LEMMA LabInvStep == LabInv /\ [LabNext]_labVars => LabInv'
<1> SUFFICES ASSUME LabInv, [LabNext]_labVars PROVE LabInv'
  OBVIOUS
<1>1. CASE UNCHANGED labVars
  BY <1>1 DEF labVars, LabInv, Affordable, WrittenWhole, GradesDue, GradesCompleted, Id
<1>2. CASE InterruptRun
  BY <1>2, NoRunAffordable, LiveKeeps DEF InterruptRun, LabInv, WrittenWhole
<1>3. CASE LiveLabNext
  BY <1>2, <1>3, StartRunKeeps, FetchCatalogKeeps, AskModelKeeps, FinishRunKeeps
     DEF LiveLabNext, Splits
<1>4. CASE StoreLabNext
  BY <1>4, StartFillingKeeps, AddAttemptKeeps, AddGradeKeeps, InterruptFillingKeeps
     DEF StoreLabNext
<1>5. QED
  BY <1>1, <1>3, <1>4 DEF LabNext

\* No live run asks more than it declared, what it writes has one attempt for every pair it
\* planned, and grades are of attempts that completed (run_opencode_candidates, LabStore).
THEOREM EvidenceIsSound == LabSpec => []SoundEvidence
<1>1. LabInv => SoundEvidence
  <2> SUFFICES ASSUME LabInv PROVE SoundEvidence
    OBVIOUS
  <2>1. WithinRequestCap
    <3>1. run \in LiveRuns /\ Cardinality(run.todo) \in Nat
      <4>1. run \in LiveRuns /\ run.todo \in SUBSET AttemptIds
        BY DEF LabInv, Affordable, LiveRuns
      <4>2. QED
        BY <4>1, PlanFacts
    <3>2. run.requests \in Nat /\ run.cap \in Nat /\ run.pc \in {"idle", "catalog", "ask"}
      BY <3>1 DEF LiveRuns
    <3>3. QED
      BY <3>1, <3>2 DEF LabInv, Affordable, WithinRequestCap
  <2>2. EveryPairAttempted
    <3> SUFFICES ASSUME NEW o \in outputs
                 PROVE  LET ids == {a.id : a \in o.attempts} IN
                        ids = Plan(o.models, o.split) /\ Cardinality(ids) = Cardinality(o.attempts)
      BY DEF EveryPairAttempted
    <3>1. o.models \in SUBSET LabModels /\ OneEach(o.attempts, Plan(o.models, o.split))
      BY DEF LabInv, WrittenWhole
    <3>2. IsFiniteSet(Plan(o.models, o.split))
      BY <3>1, PlanFacts
    <3>3. QED
      BY <3>1, <3>2, OneEachCounts DEF OneEach
  <2>3. QED
    BY <2>1, <2>2 DEF LabInv, GradesDue, SoundEvidence
<1>2. QED
  BY <1>1, LabInvInit, LabInvStep, PTL DEF LabSpec

-----------------------------------------------------------------------------
(***************************************************************************)
(* All of it: whichever part runs, every variable keeps its type.          *)
(***************************************************************************)
\* A row on record has the listing of a source, and what surrounds the bundles is within
\* its bounds.
BundlesKnown ==
  /\ \A v \in Versions : records[v].state # "none" => records[v].listed \in Listings
  /\ settings \in Settings /\ api.settings \in Settings
  /\ mishaps \in 0 .. MaxMishaps
  /\ touched \subseteq Versions

LEMMA BundlesKnownInit == BundleInit => BundlesKnown
BY PolicyBundleAssumption DEF BundleInit, BundlesKnown, NoRecord

LEMMA BundlesKnownStep ==
  ASSUME IInv, BundlesKnown, [BundleNext]_bundleVars
  PROVE  BundlesKnown'
<1>1. CASE UNCHANGED <<records, settings, api, mishaps, touched>>
  BY <1>1 DEF BundlesKnown
<1>2. ASSUME NEW o \in Operators, InsertRecord(o)
      PROVE  BundlesKnown'
  <2>1. UNCHANGED <<settings, api, mishaps, touched>>
    BY <1>2 DEF InsertRecord
  <2>2. op[o].source.listed \in Listings
    BY <1>2 DEF InsertRecord, IInv, CommandOK, Listings
  <2>3. \A v \in Versions : records'[v] = records[v] \/ records'[v].listed \in Listings
    <3>1. \/ records' = records
          \/ records' = [records EXCEPT ![op[o].version] =
                           [state |-> "received", listed |-> op[o].source.listed]]
      BY <1>2 DEF InsertRecord
    <3>2. QED
      BY <2>2, <3>1 DEF IInv, Shape
  <2>4. QED
    BY <2>1, <2>3 DEF BundlesKnown
<1>3. ASSUME NEW o \in Operators, WriteTransition(o)
      PROVE  BundlesKnown'
  <2>1. UNCHANGED <<settings, api, mishaps, touched>>
    BY <1>3 DEF WriteTransition
  <2>2. records[op[o].version] # NoRecord /\ \A w \in op[o].others : records[w] # NoRecord
    BY <1>3 DEF WriteTransition, IInv, CommandOK
  <2>3. \A v \in Versions : records[v] # NoRecord => records[v].listed \in Listings
    BY DEF BundlesKnown, IInv, Shape
  <2>4. \A v \in Versions :
          \/ Moved(o)[v] = records[v]
          \/ records[v] # NoRecord /\ Moved(o)[v].listed = records[v].listed
    BY <2>2 DEF Moved, IInv, Shape, Record
  <2>5. records' \in {records, Moved(o)}
    BY <1>3 DEF WriteTransition
  <2>6. \A v \in Versions : records'[v].state # "none" => records'[v].listed \in Listings
    BY <2>3, <2>4, <2>5 DEF BundlesKnown
  <2>7. QED
    BY <2>1, <2>6 DEF BundlesKnown
<1>4. ASSUME NEW v \in Versions, DecideShadow(v)
      PROVE  BundlesKnown'
  <2>1. UNCHANGED <<records, settings, mishaps, touched>> /\ api'.settings = api.settings
    BY <1>4 DEF DecideShadow, IInv, Shape
  <2>2. QED
    BY <2>1 DEF BundlesKnown
<1>5. ASSUME NEW v \in Versions, DisturbCopy(v)
      PROVE  BundlesKnown'
  BY <1>5, PolicyBundleAssumption DEF DisturbCopy, BundlesKnown
<1>6. ASSUME NEW s \in Settings, Configure(s)
      PROVE  BundlesKnown'
  BY <1>6, PolicyBundleAssumption DEF Configure, BundlesKnown
<1>7. CASE RestartApi
  BY <1>7 DEF RestartApi, BundlesKnown
<1>8. QED
  BY <1>1, <1>2, <1>3, <1>4, <1>5, <1>6, <1>7
  DEF BundleNext, StartReceive, LookInStore, RenameCopy, Killed, StartTransition, VerifyStored,
      FindOthers, bundleVars

LEMMA BundleTypes == IInv /\ BundlesKnown => BundleTypeOK
<1> SUFFICES ASSUME IInv, BundlesKnown PROVE BundleTypeOK
  OBVIOUS
<1>1. ASSUME NEW v \in Versions
      PROVE  /\ records[v].state \in States \cup {"none"}
             /\ records[v] = NoRecord \/ \E s \in Sources : records[v].listed = s.listed
  BY DEF IInv, Shape, Record, BundlesKnown, Listings
<1>2. ASSUME NEW o \in Operators
      PROVE  /\ op[o].pc \in {"idle", "store", "rename", "insert", "verify", "others", "write"}
             /\ op[o].pc \in {"store", "rename", "insert"} => op[o].source \in Sources
             /\ op[o].pc \in {"verify", "others", "write"} => op[o].version \in Versions
             /\ op[o].others \subseteq Versions
  BY DEF IInv, Shape, Command, CommandOK
<1>3. QED
  BY <1>1, <1>2 DEF BundleTypeOK, BundlesKnown, IInv, Shape

-----------------------------------------------------------------------------
Phones ==
  [apk : Noted, screen : {"off", "welcome", "chat"}, session : 0 .. Foreigner,
   transport : BOOLEAN]

\* What the driver's types leave out: the phone's screen, session and transport, and the
\* outcome of the evidence.
PhoneTypes ==
  /\ phone \in Phones
  /\ verdict.state \in {"none", "PASS", "FAIL", "BLOCKED"}
  /\ meddling \in 0 .. MaxMeddling

LEMMA PhoneTypesInit == DeviceInit => PhoneTypes
BY DeviceAssumption DEF DeviceInit, PhoneTypes, Phones, Noted, Nothing, Foreigner, NoVerdict

\* The phones of a step's outcomes.
LEMMA OutcomePhones ==
  ASSUME NEW condition, NEW p, NEW s, NEW ps, NEW ss
  PROVE  \A o \in Passes(condition, p, s) \cup Fails(ps, ss) : o.phone \in {p} \cup ps
BY DEF Passes, Fails, Outcome

LEMMA StepPhones ==
  ASSUME DriveTypes, phone \in Phones
  PROVE  /\ \A o \in Launch : o.phone \in Phones
         /\ \A o \in InitialScreen : o.phone \in Phones
         /\ \A o \in BackendReachable : o.phone \in Phones
         /\ \A o \in Configuration : o.phone \in Phones
         /\ \A o \in Authentication : o.phone \in Phones
         /\ \A o \in PrimaryUserFlow : o.phone \in Phones
         /\ \A o \in ApiRequest : o.phone \in Phones
         /\ \A o \in AppRestart : o.phone \in Phones
         /\ \A o \in OfflineHandling : o.phone \in Phones
         /\ \A o \in NetworkRecovery : o.phone \in Phones
         /\ \A o \in BackendRestart : o.phone \in Phones
         /\ \A o \in ApiError : o.phone \in Phones
         /\ \A o \in LogoutExpiration : o.phone \in Phones
         /\ \A o \in Tour : o.phone \in Phones
<1>0. Nothing \in 0 .. Foreigner /\ server.secret \in 0 .. Foreigner /\ Rotated \in 0 .. Foreigner
  BY DEF Nothing, Foreigner, Rotated, DriveTypes
<1>1. ASSUME NEW x \in 0 .. Foreigner
      PROVE  /\ [phone EXCEPT !.session = x, !.screen = "chat"] \in Phones
             /\ [phone EXCEPT !.screen = "welcome", !.session = x] \in Phones
             /\ [phone EXCEPT !.session = x] \in Phones
  BY DEF Phones
<1>2. /\ [phone EXCEPT !.screen = "off"] \in Phones
      /\ [phone EXCEPT !.transport = FALSE] \in Phones
      /\ [phone EXCEPT !.transport = TRUE] \in Phones
  BY DEF Phones
<1> DEFINE signedIn == [phone EXCEPT !.session = server.secret, !.screen = "chat"]
           out == [phone EXCEPT !.screen = "welcome", !.session = Nothing]
           off == [phone EXCEPT !.screen = "off"]
           away == [phone EXCEPT !.transport = FALSE]
           on == [phone EXCEPT !.transport = TRUE]
<1>3. {phone, signedIn, out, off, away, on} \subseteq Phones
  BY <1>0, <1>1, <1>2
<1> HIDE DEF signedIn, out, off, away, on
<1>4. ASSUME NEW condition, NEW p \in Phones, NEW s, NEW ps \in SUBSET Phones, NEW ss
      PROVE  \A o \in Passes(condition, p, s) \cup Fails(ps, ss) : o.phone \in Phones
  BY OutcomePhones
<1>5. \A o \in Launch : o.phone \in Phones
  BY <1>3, <1>4 DEF Launch, out, off
<1>6. \A o \in InitialScreen : o.phone \in Phones
  BY <1>4 DEF InitialScreen
<1>7. \A o \in BackendReachable : o.phone \in Phones
  <2> DEFINE reached == phone.transport /\ server # NoServer
             phones == {phone} \cup (IF reached THEN {signedIn} ELSE {})
  <2>1. phones \in SUBSET Phones
    BY <1>3
  <2>2. BackendReachable = Passes(reached /\ Logged(server), signedIn, server) \cup Fails(phones, {server})
    BY DEF BackendReachable, signedIn
  <2> HIDE DEF phones, reached
  <2>3. QED
    BY <1>3, <1>4, <2>1, <2>2
<1>8. /\ \A o \in Configuration : o.phone \in Phones
      /\ \A o \in Authentication : o.phone \in Phones
  BY <1>4 DEF Configuration, Authentication
<1>9. /\ \A o \in PrimaryUserFlow : o.phone \in Phones
      /\ \A o \in ApiRequest : o.phone \in Phones
  BY <1>4 DEF PrimaryUserFlow, ApiRequest
<1>10. \A o \in AppRestart : o.phone \in Phones
  BY <1>3, <1>4 DEF AppRestart, off
<1>11. \A o \in OfflineHandling : o.phone \in Phones
  BY <1>3, <1>4 DEF OfflineHandling, away
<1>12. \A o \in NetworkRecovery : o.phone \in Phones
  BY <1>3, <1>4 DEF NetworkRecovery, on
<1>13. \A o \in BackendRestart : o.phone \in Phones
  <2> DEFINE told(s) == Accepted(phone, s) /\ Logged(s)
  <2> HIDE DEF told
  <2>1. ASSUME NEW s \in Restarted(server.secret)
        PROVE  \A o \in Passes(told(s), phone, s) \cup Fails({phone}, {s}) : o.phone \in Phones
    BY <1>3, <1>4
  <2>2. QED
    BY <2>1 DEF BackendRestart, told
<1>14. \A o \in ApiError : o.phone \in Phones
  BY <1>4 DEF ApiError
<1>15. \A o \in LogoutExpiration : o.phone \in Phones
  <2> DEFINE told(s) == /\ phone.screen = "chat" /\ phone.transport
                        /\ Logged(s) /\ phone.session # s.secret
             late(s) == [phone EXCEPT !.session = s.secret]
  <2>1. ASSUME NEW s \in Restarted(Rotated)
        PROVE  late(s) \in Phones
    <3>1. s.secret \in 0 .. Foreigner
      BY <1>0, StartedServers
    <3>2. QED
      BY <1>1, <3>1
  <2> HIDE DEF told, late
  <2>2. ASSUME NEW s \in Restarted(Rotated)
        PROVE  \A o \in Passes(told(s), out, s) \cup Fails({phone, out, late(s)}, {s}) :
                 o.phone \in Phones
    BY <1>3, <1>4, <2>1
  <2>3. QED
    BY <2>2 DEF LogoutExpiration, out, told, late
<1>16. \A o \in Tour : o.phone \in Phones
  <2>1. \A o \in Passes(phone.transport /\ server # NoServer, signedIn, server)
                 \cup Fails({phone, signedIn}, {server}) : o.phone \in Phones
    BY <1>3, <1>4
  <2>2. Outcome("NOT_RUN", phone, server).phone \in Phones
    BY DEF Outcome
  <2>3. QED
    BY <2>1, <2>2 DEF Tour, signedIn
<1>17. QED
  BY <1>5, <1>6, <1>7, <1>8, <1>9, <1>10, <1>11, <1>12, <1>13, <1>14, <1>15, <1>16

\* A step that is tried leaves one of its outcomes, or nothing changed.
LEMMA TryPhone ==
  ASSUME PhoneTypes, NEW step, NEW outcomes, \A o \in outcomes : o.phone \in Phones,
         Try(step, outcomes)
  PROVE  PhoneTypes'
<1>1. phone' \in Phones /\ UNCHANGED <<verdict, meddling>>
  BY DEF Try, PhoneTypes
<1>2. QED
  BY <1>1 DEF PhoneTypes, Phones, Noted

LEMMA PhoneTypesStep ==
  ASSUME DriveTypes, PhoneTypes, [DeviceNext]_deviceVars
  PROVE  PhoneTypes'
<1>0. Phones' = Phones /\ phone \in Phones /\ work.text \in Noted
  BY DEF Phones, Noted, PhoneTypes, DriveTypes
<1>1. CASE UNCHANGED <<phone, verdict>> /\ (UNCHANGED meddling \/ Meddles)
  <2>1. meddling' \in 0 .. MaxMeddling
    BY <1>1, DeviceAssumption DEF PhoneTypes, Meddles
  <2>2. QED
    BY <1>0, <1>1, <2>1 DEF PhoneTypes
<1>2. CASE RunOnPhone
  <2>1. meddling' \in 0 .. MaxMeddling
    BY <1>2, DeviceAssumption DEF RunOnPhone, PhoneTypes, Meddles
  <2>2. phone' \in Phones
    BY <1>0, <1>2 DEF RunOnPhone, Phones
  <2>3. QED
    BY <1>0, <1>2, <2>1, <2>2 DEF RunOnPhone, PhoneTypes
<1>3. ASSUME \E state : state \in {"FAIL", "BLOCKED"} /\ EndsUncertified(state),
             phone' \in Phones, UNCHANGED meddling
      PROVE  PhoneTypes'
  <2>1. verdict'.state \in {"FAIL", "BLOCKED"}
    BY <1>3 DEF EndsUncertified, NoVerdict
  <2>2. QED
    BY <1>0, <1>3, <2>1 DEF PhoneTypes
<1>4. CASE CheckTree
  BY <1>0, <1>1, <1>3, <1>4 DEF CheckTree
<1>5. CASE BuildAndInstall
  <2>1. phone' \in Phones /\ UNCHANGED meddling
    BY <1>0, <1>5 DEF BuildAndInstall, Phones
  <2>2. \/ UNCHANGED verdict
        \/ \E state : state \in {"FAIL", "BLOCKED"} /\ EndsUncertified(state)
    BY <1>5 DEF BuildAndInstall
  <2>3. QED
    BY <1>0, <1>3, <2>1, <2>2 DEF PhoneTypes
<1>6. ASSUME NEW extended \in BOOLEAN, StartDrive(extended) PROVE PhoneTypes'
  BY <1>0, <1>1, <1>3, <1>6 DEF StartDrive
<1>7. CASE Serve \/ Cleanup
  <2>1. phone' \in Phones
    BY <1>0, <1>7 DEF Serve, Cleanup, Phones
  <2>2. QED
    BY <1>0, <1>7, <2>1 DEF Serve, Cleanup, PhoneTypes
<1>8. CASE WriteEvidence
  <2>1. phone' \in Phones /\ UNCHANGED meddling
    BY <1>0, <1>8 DEF WriteEvidence, Phones
  <2>2. ASSUME NEW statuses
        PROVE  Worst(statuses) \in {"PASS", "FAIL", "BLOCKED"}
    BY DEF Worst
  <2>3. verdict'.state \in {"PASS", "FAIL", "BLOCKED"}
    BY <1>8, <2>2 DEF WriteEvidence
  <2>4. QED
    BY <1>0, <2>1, <2>3 DEF PhoneTypes
<1>9. CASE \E w \in [sha : Works, text : Works] : ChangeTree(w)
  BY <1>1, <1>9 DEF ChangeTree
<1>10. CASE OtherServer \/ CollectLogs \/ KilledDrive \/ UNCHANGED deviceVars
  BY <1>1, <1>10 DEF OtherServer, CollectLogs, KilledDrive, deviceVars
<1>11. CASE \/ Try("launch", Launch) \/ Try("initial_screen", InitialScreen)
            \/ Try("backend_reachable", BackendReachable) \/ Try("configuration", Configuration)
            \/ Try("authentication", Authentication) \/ Try("primary_user_flow", PrimaryUserFlow)
            \/ Try("api_request", ApiRequest) \/ Try("app_restart", AppRestart)
            \/ Try("offline_handling", OfflineHandling) \/ Try("network_recovery", NetworkRecovery)
            \/ Try("backend_restart", BackendRestart) \/ Try("api_error", ApiError)
            \/ Try("logout_expiration", LogoutExpiration) \/ Try("tour", Tour)
  BY <1>0, <1>11, StepPhones, TryPhone
<1>12. QED
  BY <1>2, <1>4, <1>5, <1>6, <1>7, <1>8, <1>9, <1>10, <1>11 DEF DeviceNext

LEMMA DeviceTypes == DriveTypes /\ PhoneTypes => DeviceTypeOK
BY Places DEF DriveTypes, PhoneTypes, Phones, Noted, Drives, Statuses, DeviceTypeOK

-----------------------------------------------------------------------------
LEMMA DeployTyped == DeployInv => DeployTypeOK
BY DEF DeployInv, DeployTypes, ImagesPushed, DeployTypeOK

LEMMA LabTyped == LabInv => LabTypeOK
BY DEF LabInv, Affordable, LiveRuns, Attempts, GradesDue, LabTypeOK

\* What holds of the parts together.
OpsInv ==
  /\ IInv /\ BundlesKnown
  /\ TelemetryInv
  /\ DeployInv
  /\ LabInv
  /\ DeviceInv /\ PhoneTypes

\* Every variable of the operations keeps its type, whichever part runs.
THEOREM OpsTypesHold == OpsSpec => []OpsTypeOK
<1>1. OpsInit => OpsInv
  BY InitIInv, BundlesKnownInit, TelemetryInvInit, DeployInvInit, LabInvInit, DeviceInvInit,
     PhoneTypesInit DEF OpsInit, OpsInv
<1>2. OpsInv /\ [OpsNext]_opsVars => OpsInv'
  <2> SUFFICES ASSUME OpsInv, [OpsNext]_opsVars PROVE OpsInv'
    OBVIOUS
  <2>1. /\ [BundleNext]_bundleVars /\ [TelemetryNext]_telemetryVars /\ [DeployNext]_deployVars
        /\ [LabNext]_labVars /\ [DeviceNext]_deviceVars
    BY DEF OpsNext, opsVars, LabNext
  <2>2. QED
    BY <2>1, StepKeepsIInv, BundlesKnownStep, TelemetryInvStep, DeployInvStep, LabInvStep,
       DeviceInvStep, PhoneTypesStep DEF OpsInv, DeviceInv
<1>3. OpsInv => OpsTypeOK
  BY BundleTypes, DeployTyped, LabTyped, DeviceTypes
  DEF OpsInv, TelemetryInv, DeviceInv, OpsTypeOK
<1>4. QED
  BY <1>1, <1>2, <1>3, PTL DEF OpsSpec

-----------------------------------------------------------------------------
(***************************************************************************)
(* Scoring: the propensities a policy logs are exact.                      *)
(***************************************************************************)
\* The least of a set of numbers.
LEMMA MinNumber ==
  ASSUME NEW T \in SUBSET Nat, T # {}
  PROVE  Min(T) \in T /\ \A n \in T : Min(T) <= n
<1>1. \E n \in T : \A m \in T : n <= m
  BY LeastNumber
<1>2. QED
  BY <1>1 DEF Min

\* The sum of the probabilities before action a.
Before(p, a) == SumFunctionOnSet(p, {b \in DOMAIN p : b < a})

\* The draws up to an action are those before it and its own.
LEMMA UpToFacts ==
  ASSUME NEW D \in SUBSET Nat, IsFiniteSet(D), NEW p \in [D -> Nat], NEW a \in D
  PROVE  /\ Before(p, a) \in Nat /\ UpTo(p, a) \in Nat
         /\ UpTo(p, a) = Before(p, a) + p[a]
         /\ UpTo(p, a) <= SumFunctionOnSet(p, D)
         /\ \A b \in D : b < a => UpTo(p, b) <= Before(p, a)
         /\ \A draw \in Nat : draw < Before(p, a) => \E b \in D : b < a /\ draw < UpTo(p, b)
<1> DEFINE lower(b) == {c \in D : c < b}
           upper(b) == {c \in D : c <= b}
<1>0. ASSUME NEW b \in D
      PROVE  /\ Before(p, b) = SumFunctionOnSet(p, lower(b))
             /\ UpTo(p, b) = SumFunctionOnSet(p, upper(b))
             /\ IsFiniteSet(lower(b)) /\ IsFiniteSet(upper(b))
             /\ lower(b) \in SUBSET D /\ upper(b) \in SUBSET D
             /\ upper(b) = lower(b) \cup {b} /\ b \notin lower(b)
  <2>1. DOMAIN p = D
    OBVIOUS
  <2>2. Before(p, b) = SumFunctionOnSet(p, lower(b)) /\ UpTo(p, b) = SumFunctionOnSet(p, upper(b))
    BY <2>1 DEF Before, UpTo
  <2>3. lower(b) \in SUBSET D /\ upper(b) \in SUBSET D
    OBVIOUS
  <2>4. upper(b) = lower(b) \cup {b} /\ b \notin lower(b)
    <3>1. \A c \in D : c <= b <=> (c < b \/ c = b)
      OBVIOUS
    <3>2. b \in Nat
      OBVIOUS
    <3>3. b \in upper(b) /\ ~(b < b)
      BY <3>2
    <3>4. \A c : c \in upper(b) <=> c \in lower(b) \/ c = b
      BY <3>1, <3>3
    <3>5. QED
      BY <3>3, <3>4
  <2> HIDE DEF lower, upper
  <2>5. QED
    BY <2>2, <2>3, <2>4, FS_Subset
<1>1. ASSUME NEW b \in D
      PROVE  \A c \in D : c < b => upper(c) \in SUBSET lower(b)
  <2>1. \A c, d \in D : c < b /\ d <= c => d < b
    OBVIOUS
  <2>2. QED
    BY <2>1
<1>2. ASSUME NEW b \in D, lower(b) # {}
      PROVE  \E c \in D : c < b /\ upper(c) = lower(b)
  <2>1. PICK c \in lower(b) : \A d \in lower(b) : d <= c
    <3>1. IsFiniteSet(lower(b))
      BY <1>0
    <3>2. lower(b) \in SUBSET Int
      <4>1. D \subseteq Int
        OBVIOUS
      <4>2. QED
        BY <4>1
    <3>3. QED
      BY <1>2, <3>1, <3>2, GreatestNumber
  <2>2. c \in D /\ c < b /\ \A d \in D : d < b => d <= c
    BY <2>1
  <2>3. \A d \in D : d <= c => d < b
    BY <2>2
  <2>4. QED
    BY <2>2, <2>3
<1> HIDE DEF lower, upper
<1>3. ASSUME NEW P \in SUBSET D
      PROVE  /\ SumFunctionOnSet(p, P) \in Nat
             /\ SumFunctionOnSet(p, P) <= SumFunctionOnSet(p, D)
             /\ \A Q \in SUBSET P : SumFunctionOnSet(p, Q) <= SumFunctionOnSet(p, P)
  <2>1. (\A x \in P : p[x] \in Nat) /\ (\A x \in D : p[x] \in Nat)
    OBVIOUS
  <2>0. IsFiniteSet(P)
    BY FS_Subset
  <2>2. QED
    BY <2>0, <2>1, SumPart
<1>4. UpTo(p, a) = Before(p, a) + p[a]
  <2>1. \A x \in lower(a) \cup {a} : p[x] \in Int
    <3>1. lower(a) \cup {a} \subseteq D
      BY <1>0
    <3>2. \A x \in D : p[x] \in Int
      OBVIOUS
    <3>3. QED
      BY <3>1, <3>2
  <2>2. SumFunctionOnSet(p, lower(a) \cup {a}) = SumFunctionOnSet(p, lower(a)) + p[a]
    BY <1>0, <2>1, SumAdd
  <2>3. QED
    BY <1>0, <2>2
<1>5. \A b \in D : b < a => UpTo(p, b) <= Before(p, a)
  BY <1>0, <1>1, <1>3
<1>6. ASSUME NEW draw \in Nat, draw < Before(p, a)
      PROVE  \E b \in D : b < a /\ draw < UpTo(p, b)
  <2>1. lower(a) # {}
    <3>1. ASSUME lower(a) = {}
          PROVE  SumFunctionOnSet(p, lower(a)) = 0
      BY <1>0, <3>1, SumType
    <3>2. QED
      BY <1>0, <1>6, <3>1
  <2>2. PICK c \in D : c < a /\ upper(c) = lower(a)
    BY <1>2, <2>1
  <2>3. QED
    BY <1>0, <1>6, <2>2
<1>7. Before(p, a) \in Nat /\ UpTo(p, a) \in Nat /\ UpTo(p, a) <= SumFunctionOnSet(p, D)
  BY <1>0, <1>3
<1>8. QED
  BY <1>4, <1>5, <1>6, <1>7

\* Every action is drawn by as many draws as its probability has parts (select).
LEMMA DrawShares ==
  ASSUME NEW D \in SUBSET Nat, IsFiniteSet(D), NEW p \in [D -> Nat],
         SumFunctionOnSet(p, D) = Unit, NEW a \in D
  PROVE  Cardinality({draw \in 0 .. Unit - 1 : Drawn(p, draw) = a}) = p[a]
<1> DEFINE own == {draw \in 0 .. Unit - 1 : Drawn(p, draw) = a}
           M(draw) == {c \in D : draw < UpTo(p, c)}
<1>0. Unit \in Nat
  BY PolicyAssumption
<1>1. \A b \in D : UpTo(p, b) \in Nat /\ UpTo(p, b) <= Unit
  BY UpToFacts
<1>2. /\ Before(p, a) \in Nat /\ UpTo(p, a) = Before(p, a) + p[a] /\ p[a] \in Nat
      /\ \A b \in D : b < a => UpTo(p, b) <= Before(p, a)
      /\ \A draw \in Nat : draw < Before(p, a) => \E b \in D : b < a /\ draw < UpTo(p, b)
  BY UpToFacts
<1>3. ASSUME NEW draw
      PROVE  Drawn(p, draw) = Min(M(draw)) /\ M(draw) \in SUBSET Nat
  BY DEF Drawn
<1>4. ASSUME NEW draw \in Nat, Before(p, a) <= draw, draw < UpTo(p, a)
      PROVE  draw \in own
  <2>1. a \in M(draw)
    BY <1>4
  <2>2. \A c \in M(draw) : a <= c
    BY <1>1, <1>2, <1>4
  <2>3. Min(M(draw)) = a
    <3> HIDE DEF M
    <3>1. Min(M(draw)) \in M(draw) /\ Min(M(draw)) <= a
      BY <1>3, <2>1, MinNumber
    <3>2. a <= Min(M(draw)) /\ Min(M(draw)) \in Nat
      BY <1>3, <2>2, <3>1
    <3>3. QED
      BY <3>1, <3>2
  <2>4. QED
    BY <1>0, <1>1, <1>3, <1>4, <2>3
<1>5. ASSUME NEW draw \in own
      PROVE  draw \in Nat /\ Before(p, a) <= draw /\ draw < UpTo(p, a)
  <2>1. draw \in Nat /\ draw < Unit
    BY <1>0
  <2>2. M(draw) # {}
    <3>1. PICK c \in D : \A d \in D : d <= c
      BY GreatestNumber
    <3>2. {d \in D : d <= c} = D
      BY <3>1
    <3>3. UpTo(p, c) = Unit
      BY <3>2 DEF UpTo
    <3>4. QED
      BY <2>1, <3>3
  <2>3. a = Min(M(draw))
    BY <1>3
  <2>4. a \in M(draw) /\ \A c \in M(draw) : a <= c
    <3> HIDE DEF M, own
    <3>1. QED
      BY <1>3, <2>2, <2>3, MinNumber
  <2>5. QED
    BY <1>2, <2>1, <2>4
<1>6. own = Before(p, a) .. (UpTo(p, a) - 1)
  <2> HIDE DEF own, M
  <2>1. own \subseteq Before(p, a) .. (UpTo(p, a) - 1)
    BY <1>2, <1>5
  <2>2. Before(p, a) .. (UpTo(p, a) - 1) \subseteq own
    BY <1>2, <1>4
  <2>3. QED
    BY <2>1, <2>2
<1>7. Cardinality(own) = p[a]
  <2> HIDE DEF own
  <2>1. PICK m, n : m = Before(p, a) /\ n = UpTo(p, a) - 1
    OBVIOUS
  <2>2. m \in Int /\ n \in Int
    BY <1>2, <2>1
  <2>3. Cardinality(m .. n) = IF m > n THEN 0 ELSE n - m + 1
    BY <2>2, FS_Interval
  <2>4. QED
    BY <1>2, <1>6, <2>1, <2>2, <2>3
<1>8. QED
  BY <1>7

\* Of finitely many scores one is the greatest, and the first that has it is chosen.
LEMMA GreedyFacts ==
  ASSUME NEW scores, DOMAIN scores \in SUBSET Nat, IsFiniteSet(DOMAIN scores), DOMAIN scores # {},
         \A a \in DOMAIN scores : scores[a] \in Int
  PROVE  /\ Greedy(scores) \in DOMAIN scores
         /\ \A b \in DOMAIN scores : scores[b] <= scores[Greedy(scores)]
<1> DEFINE D == DOMAIN scores
           best == {a \in D : \A b \in D : scores[b] <= scores[a]}
<1>1. best # {}
  <2> DEFINE values == {scores[a] : a \in D}
  <2>1. IsFiniteSet(values)
    <3>1. [a \in D |-> scores[a]] \in Surjection(D, values)
      BY DEF Surjection
    <3>2. QED
      BY <3>1, FS_Surjection
  <2>2. values # {} /\ values \in SUBSET Int
    OBVIOUS
  <2> HIDE DEF values
  <2>3. PICK n \in values : \A m \in values : m <= n
    BY <2>1, <2>2, GreatestNumber
  <2> USE DEF values
  <2>4. QED
    BY <2>3
<1>2. best \in SUBSET Nat /\ Greedy(scores) = Min(best)
  BY DEF Greedy
<1>3. Min(best) \in best
  <2> HIDE DEF best
  <2>1. QED
    BY <1>1, <1>2, MinNumber
<1>4. QED
  BY <1>2, <1>3

\* What is shared out in equal parts is nothing lost, when the parts divide it.
LEMMA SharedOut ==
  ASSUME NEW e \in Nat, NEW n \in Nat \ {0}, e % n = 0
  PROVE  e \div n \in Nat /\ n * (e \div n) = e
  OBVIOUS

\* The distribution over what a question has scores for.
LEMMA Distribution ==
  ASSUME NEW q \in Questions,
         NEW scores, scores = Scores(q.policy, q.context, q.eligible), DOMAIN scores # {},
         NEW p, p = Probabilities(q.policy, q.context, q.eligible, q.explore)
  PROVE  LET g == Greedy(scores) IN
         /\ DOMAIN scores \in SUBSET Nat /\ IsFiniteSet(DOMAIN scores)
         /\ \A a \in DOMAIN scores : scores[a] \in Int
         /\ g \in DOMAIN scores /\ \A b \in DOMAIN scores : scores[b] <= scores[g]
         /\ p \in [DOMAIN scores -> Nat] /\ SumFunctionOnSet(p, DOMAIN scores) = Unit
         /\ q.policy.epsilon < Unit => \A a \in DOMAIN scores \ {g} : p[a] < p[g]
         /\ ~q.explore => \A a \in DOMAIN scores \ {g} : p[a] = 0
<1> DEFINE D == DOMAIN scores
           n == Cardinality(D)
           e == IF q.explore THEN q.policy.epsilon ELSE 0
           share == e \div n
           g == Greedy(scores)
<1>0. Unit \in Nat \ {0}
  BY PolicyAssumption
<1>1. /\ q.policy.epsilon \in 0 .. Unit /\ q.explore \in BOOLEAN
      /\ q.eligible \subseteq Nat /\ IsFiniteSet(q.eligible)
      /\ \A a \in D : scores[a] \in Int
      /\ q.policy.epsilon % n = 0
  BY QuestionsAssumption
<1>2. D \in SUBSET Nat /\ IsFiniteSet(D)
  <2>1. D \subseteq q.eligible
    BY DEF Scores
  <2>2. QED
    BY <1>1, <2>1, FS_Subset
<1>3. g \in D /\ \A b \in D : scores[b] <= scores[g]
  BY <1>1, <1>2, GreedyFacts
<1>4. n \in Nat \ {0}
  BY <1>2, FS_CardinalityType, FS_EmptySet
<1>5. /\ p = [a \in D |-> IF a = g THEN Unit - e + share ELSE share]
  BY DEF Probabilities
<1> HIDE DEF n, g, D
<1>6. /\ e \in 0 .. Unit /\ e % n = 0 /\ e <= q.policy.epsilon /\ (~q.explore => e = 0)
  <2>1. 0 % n = 0
    BY <1>4
  <2>2. QED
    BY <1>0, <1>1, <2>1
<1> HIDE DEF e
<1>7. share \in Nat /\ n * share = e
  BY <1>4, <1>6, SharedOut
<1>8. ~q.explore => share = 0
  BY <1>4, <1>6
<1> HIDE DEF share
<1>9. Unit - e + share \in Nat
  BY <1>0, <1>6, <1>7
<1>10. p \in [D -> Nat] /\ p[g] = Unit - e + share /\ \A a \in D \ {g} : p[a] = share
  BY <1>3, <1>5, <1>7, <1>9
<1>11. SumFunctionOnSet(p, D) = Unit
  <2>1. SumFunctionOnSet(p, D) = p[g] + SumFunctionOnSet(p, D \ {g})
    <3>1. \A a \in D : p[a] \in Int
      BY <1>10
    <3>2. QED
      BY <1>2, <1>3, <3>1, SumRemove
  <2>2. IsFiniteSet(D \ {g}) /\ Cardinality(D \ {g}) = n - 1
    BY <1>2, <1>3, FS_RemoveElement DEF n
  <2>3. SumFunctionOnSet(p, D \ {g}) = share * (n - 1)
    BY <1>7, <1>10, <2>2, SumConstant
  <2>4. share * (n - 1) = n * share - share
    BY <1>4, <1>7
  <2>5. QED
    BY <1>0, <1>6, <1>7, <1>10, <2>1, <2>3, <2>4
<1>12. q.policy.epsilon < Unit => \A a \in D \ {g} : p[a] < p[g]
  BY <1>0, <1>1, <1>6, <1>7, <1>10
<1>13. QED
  BY <1>1, <1>2, <1>3, <1>8, <1>10, <1>11, <1>12 DEF D, g

\* An action that is not the likeliest one counts as explored.
LEMMA ExploredFacts ==
  ASSUME NEW D \in SUBSET Nat, NEW p \in [D -> Nat], NEW g \in D, \A a \in D \ {g} : p[a] < p[g],
         NEW a \in D \ {g}
  PROVE  Explores(p, a)
<1> DEFINE likeliest == {b \in D : \A c \in D : p[c] <= p[b]}
<1>1. g \in likeliest /\ \A b \in likeliest : b = g
  <2>1. ASSUME NEW b \in D
        PROVE  p[b] \in Nat /\ p[g] \in Nat
    OBVIOUS
  <2>2. QED
    BY <2>1
<1>2. DOMAIN p = D
  OBVIOUS
<1> HIDE DEF likeliest
<1>3. likeliest = {g}
  BY <1>1
<1>4. Min(likeliest) = g
  <2>1. Min({g}) \in {g}
    BY MinNumber
  <2>2. QED
    BY <1>3, <2>1
<1>5. Explores(p, a) <=> a # Min(likeliest)
  BY <1>2 DEF Explores, likeliest
<1>6. QED
  BY <1>4, <1>5

\* Whatever a policy is asked, it answers as it says it does.
LEMMA QuestionsExact == \A q \in Questions : ExactFor(q)
<1> SUFFICES ASSUME NEW q \in Questions PROVE ExactFor(q)
  OBVIOUS
<1>1. PICK scores : scores = Scores(q.policy, q.context, q.eligible)
  OBVIOUS
<1>2. PICK p : p = Probabilities(q.policy, q.context, q.eligible, q.explore)
  OBVIOUS
<1> DEFINE worse(a) == \E b \in DOMAIN scores : scores[b] > scores[a]
<1> SUFFICES /\ \A a \in DOMAIN p :
                  /\ Cardinality({draw \in 0..Unit - 1 : Drawn(p, draw) = a}) = p[a]
                  /\ (worse(a) /\ q.policy.epsilon < Unit) => Explores(p, a)
                  /\ (~q.explore /\ p[a] > 0) => ~worse(a)
             /\ DOMAIN p # {} => SumFunctionOnSet(p, DOMAIN p) = Unit
  BY <1>1, <1>2 DEF ExactFor
<1>3. CASE DOMAIN scores = {}
  <2>1. p = <<>>
    BY <1>1, <1>2, <1>3 DEF Probabilities
  <2>2. DOMAIN p = {}
    BY <2>1
  <2>3. QED
    BY <2>2
<1>4. CASE DOMAIN scores # {}
  <2> DEFINE D == DOMAIN scores
  <2>1. PICK g : g = Greedy(scores)
    OBVIOUS
  <2>2. /\ D \in SUBSET Nat /\ IsFiniteSet(D)
        /\ \A a \in D : scores[a] \in Int
        /\ g \in D /\ \A b \in D : scores[b] <= scores[g]
        /\ p \in [D -> Nat] /\ SumFunctionOnSet(p, D) = Unit
        /\ q.policy.epsilon < Unit => \A a \in D \ {g} : p[a] < p[g]
        /\ ~q.explore => \A a \in D \ {g} : p[a] = 0
    BY <1>1, <1>2, <1>4, <2>1, Distribution
  <2>3. DOMAIN p = D
    BY <2>2
  <2>4. ASSUME NEW a \in D
        PROVE  worse(a) => a # g
    BY <2>2
  <2> HIDE DEF D, worse
  <2>5. ASSUME NEW a \in D
        PROVE  /\ Cardinality({draw \in 0..Unit - 1 : Drawn(p, draw) = a}) = p[a]
               /\ (worse(a) /\ q.policy.epsilon < Unit) => Explores(p, a)
               /\ (~q.explore /\ p[a] > 0) => ~worse(a)
    <3>1. Cardinality({draw \in 0..Unit - 1 : Drawn(p, draw) = a}) = p[a]
      BY <2>2, DrawShares
    <3>2. ASSUME worse(a), q.policy.epsilon < Unit
          PROVE  Explores(p, a)
      <4>1. \A b \in D \ {g} : p[b] < p[g]
        BY <2>2, <3>2
      <4>2. QED
        BY <2>2, <2>4, <3>2, <4>1, ExploredFacts
    <3>3. ASSUME ~q.explore, p[a] > 0
          PROVE  ~worse(a)
      <4>1. a = g
        BY <2>2, <3>3
      <4>2. QED
        BY <2>4, <4>1
    <3>4. QED
      BY <3>1, <3>2, <3>3
  <2>6. QED
    BY <2>2, <2>3, <2>5
<1>5. QED
  BY <1>3, <1>4

\* For every policy and question, the probability logged with a choice is the share of the
\* draws that make it, the shares are one, what is not best counts as explored, and without
\* exploration only the best is chosen (LoadedPolicy.probabilities, select).
THEOREM PropensitiesExact == OpsSpec => []ExactPropensity
<1> DEFINE AskedOne == part = "scoring" => asked \in Questions
<1>1. OpsInit => AskedOne
  BY DEF OpsInit
<1>2. AskedOne /\ [OpsNext]_opsVars => AskedOne'
  BY DEF OpsNext, opsVars
<1>3. AskedOne => ExactPropensity
  BY QuestionsExact DEF ExactPropensity
<1>4. QED
  BY <1>1, <1>2, <1>3, PTL DEF OpsSpec
=============================================================================
