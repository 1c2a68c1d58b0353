------------------------------- MODULE Deploy -------------------------------
(***************************************************************************)
(* Deploying the backend (src/scripts/deploy_azure.py): one operator runs  *)
(* migrate, build and deploy, each a list of calls to Azure, podman, git   *)
(* and Alembic that may fail or be interrupted at any point.  What a later *)
(* command relies on is in .env.azure, which build writes as it goes; the  *)
(* tools that reach the deployed service read .env.azure.prod, which       *)
(* deploy writes when it is done.                                          *)
(***************************************************************************)
EXTENDS Integers

CONSTANTS
  MaxText,   \* MODEL BOUND: versions of the sources that are ever written
  MaxSecret  \* MODEL BOUND: secrets that are ever generated

ASSUME DeployAssumption == MaxText \in Nat \ {0} /\ MaxSecret \in Nat \ {0}

\* A version of the sources is a number, its commit goes by the same number, and its
\* migrations are 1 up to it.
Texts == 1..MaxText
Tags == [sha : Texts, dirty : BOOLEAN]
NoTag == [sha |-> 0, dirty |-> FALSE]
None == 0

VARIABLES
  tree,     \* the working tree: [sha, text], the commit it is at and what it holds
  azure,    \* .env.azure: [secret, registry, tag]
  prodEnv,  \* .env.azure.prod: the secret the tools use, None before a deploy
  images,   \* the registry, external: tag -> every text pushed under it, the last on top
  app,      \* the container app, external: [exists, secret, tag, serving, coming]
  schema,   \* the database: its migration, 0 when empty, Foreign if not Karmi's
  command,  \* the command under way: [pc, tag, text, secret]
  reported, \* history: what the last deploy that succeeded said runs, and what did
  secrets   \* how many secrets were generated

deployVars == <<tree, azure, prodEnv, images, app, schema, command, reported, secrets>>

Foreign == MaxText + 1
Revision == [tag : Tags \cup {NoTag}, text : Texts \cup {None}]
NoRevision == [tag |-> NoTag, text |-> None]
NoDeploy == [pc |-> "idle", tag |-> NoTag, text |-> None, secret |-> None]

DeployTypeOK ==
  /\ tree \in [sha : Texts, text : Texts]
  /\ azure \in [secret : 0..MaxSecret, registry : BOOLEAN, tag : Tags \cup {NoTag}]
  /\ prodEnv \in 0..MaxSecret
  /\ \A t \in Tags :
       images[t].pushed \subseteq Texts /\ images[t].last \in images[t].pushed \cup {None}
  /\ app \in [exists : BOOLEAN, secret : 0..MaxSecret, tag : Tags \cup {NoTag},
              serving : Revision, coming : Revision]
  /\ schema \in 0..Foreign
  /\ command.pc \in {"idle", "upgrade", "registry", "tag", "image", "push", "app", "update",
                     "wait"}
  /\ reported \in Revision
  /\ secrets \in 0..MaxSecret

DeployInit ==
  /\ tree = [sha |-> 1, text |-> 1]
  /\ azure = [secret |-> None, registry |-> FALSE, tag |-> NoTag]
  /\ prodEnv = None
  /\ images = [t \in Tags |-> [pushed |-> {}, last |-> None]]
  /\ app = [exists |-> FALSE, secret |-> None, tag |-> NoTag,
            serving |-> NoRevision, coming |-> NoRevision]
  /\ schema \in {0, Foreign}
  /\ command = NoDeploy
  /\ reported = NoRevision
  /\ secrets = 0

At(pc) == command.pc = pc
Step(pc) == command' = [command EXCEPT !.pc = pc]

\* Any step may fail, or the command be interrupted; what it has done stays.
Abandon ==
  /\ ~At("idle")
  /\ command' = NoDeploy
  /\ UNCHANGED <<tree, azure, prodEnv, images, app, schema, reported, secrets>>

\* The operator works on the sources, at any time.
EditSources ==
  /\ tree.text < MaxText
  /\ tree' = [tree EXCEPT !.text = @ + 1]
  /\ UNCHANGED <<azure, prodEnv, images, app, schema, command, reported, secrets>>

CommitSources ==
  /\ tree.sha # tree.text
  /\ tree' = [tree EXCEPT !.sha = tree.text]
  /\ UNCHANGED <<azure, prodEnv, images, app, schema, command, reported, secrets>>

-----------------------------------------------------------------------------
(* migrate                                                                 *)

\* Only an empty database, or one at a revision the sources know, is touched.
StartMigrate ==
  /\ At("idle") /\ schema \in 0..tree.text
  /\ Step("upgrade")
  /\ UNCHANGED <<tree, azure, prodEnv, images, app, schema, reported, secrets>>

\* Alembic applies one migration after the other; at the head, the command is done.
Upgrade ==
  /\ At("upgrade")
  /\ IF schema < tree.text THEN schema' = schema + 1 /\ UNCHANGED command
     ELSE command' = NoDeploy /\ UNCHANGED schema
  /\ UNCHANGED <<tree, azure, prodEnv, images, app, reported, secrets>>

-----------------------------------------------------------------------------
(* build                                                                   *)

\* (mutant of KeptSecret: every command generates its secrets)
FreshSecret == secrets + 1

\* The secrets are generated once and kept in .env.azure.
KeptSecret == IF azure.secret = None THEN secrets + 1 ELSE azure.secret

EnsureState ==
  /\ KeptSecret <= MaxSecret
  /\ azure' = [azure EXCEPT !.secret = KeptSecret]
  /\ secrets' = IF KeptSecret > secrets THEN KeptSecret ELSE secrets

StartBuild ==
  /\ At("idle") /\ EnsureState
  /\ Step("registry")
  /\ UNCHANGED <<tree, prodEnv, images, app, schema, reported>>

\* The registry's name is drawn once and saved; the registry is created or updated.
EnsureRegistry ==
  /\ At("registry")
  /\ azure' = [azure EXCEPT !.registry = TRUE]
  /\ \/ Step("tag")
     \/ command' = NoDeploy
  /\ UNCHANGED <<tree, prodEnv, images, app, schema, reported, secrets>>

\* The tag names the commit and is saved before there is an image.
TagImage ==
  LET tag == [sha |-> tree.sha, dirty |-> tree.text # tree.sha] IN
  /\ At("tag")
  /\ azure' = [azure EXCEPT !.tag = tag]
  /\ command' = [command EXCEPT !.pc = "image", !.tag = tag]
  /\ UNCHANGED <<tree, prodEnv, images, app, schema, reported, secrets>>

\* podman copies the tree as it is by now.
BuildImage ==
  /\ At("image")
  /\ command' = [command EXCEPT !.pc = "push", !.text = tree.text]
  /\ UNCHANGED <<tree, azure, prodEnv, images, app, schema, reported, secrets>>

\* The image is pushed and its tag seen in the registry; the logout and the login
\* server's name change nothing.
PushImage ==
  /\ At("push")
  /\ images' = [images EXCEPT ![command.tag] =
                  [pushed |-> @.pushed \cup {command.text}, last |-> command.text]]
  /\ command' = NoDeploy
  /\ UNCHANGED <<tree, azure, prodEnv, app, schema, reported, secrets>>

-----------------------------------------------------------------------------
(* deploy                                                                  *)

\* Needs a registry and a tag on file, and the database's, Clerk's and OpenRouter's
\* settings; the registry's password is fetched.
StartDeploy ==
  /\ At("idle") /\ EnsureState
  /\ azure.registry /\ azure.tag # NoTag
  /\ command' = [pc |-> "app", tag |-> azure.tag, text |-> None, secret |-> KeptSecret]
  /\ UNCHANGED <<tree, prodEnv, images, app, schema, reported>>

\* External: an app whose template changes gets a new revision, which pulls what its
\* tag names then; the same template makes none.
Templated(tag) ==
  [app EXCEPT !.exists = TRUE, !.secret = command.secret, !.tag = tag,
              !.coming = IF app.tag = tag THEN @ ELSE [tag |-> tag, text |-> images[tag].last]]

\* A new app is created with everything at once; one that exists has its secrets set
\* first, then its registry and ingress.
CreateApp ==
  /\ At("app") /\ ~app.exists
  /\ app' = Templated(command.tag)
  /\ Step("wait")
  /\ UNCHANGED <<tree, azure, prodEnv, images, schema, reported, secrets>>

SetSecrets ==
  /\ At("app") /\ app.exists
  /\ app' = [app EXCEPT !.secret = command.secret]
  /\ Step("update")
  /\ UNCHANGED <<tree, azure, prodEnv, images, schema, reported, secrets>>

UpdateApp ==
  /\ At("update")
  /\ app' = Templated(command.tag)
  /\ Step("wait")
  /\ UNCHANGED <<tree, azure, prodEnv, images, schema, reported, secrets>>

\* External: the new revision has pulled its image, is healthy and replaces the old one.
RevisionReady ==
  /\ app.coming.text # None
  /\ app' = [app EXCEPT !.serving = app.coming, !.coming = NoRevision]
  /\ UNCHANGED <<tree, azure, prodEnv, images, schema, command, reported, secrets>>

\* (mutant of RunsImage: any healthy revision will do)
RunsAny(revision) == revision # NoRevision

\* A revision that is Healthy and Running, with the image deployed.
RunsImage(revision) == revision.tag = command.tag

\* The polling finds such a revision, and .env.azure.prod is written.
FinishDeploy ==
  /\ At("wait") /\ RunsImage(app.serving)
  /\ prodEnv' = command.secret
  /\ reported' = [tag |-> command.tag, text |-> app.serving.text]
  /\ command' = NoDeploy
  /\ UNCHANGED <<tree, azure, images, app, schema, secrets>>

DeployNext ==
  \/ Abandon \/ EditSources \/ CommitSources
  \/ StartMigrate \/ Upgrade
  \/ StartBuild \/ EnsureRegistry \/ TagImage \/ BuildImage \/ PushImage
  \/ StartDeploy \/ CreateApp \/ SetSecrets \/ UpdateApp \/ RevisionReady \/ FinishDeploy

DeploySpec == DeployInit /\ [][DeployNext]_deployVars

-----------------------------------------------------------------------------
(* Properties.                                                             *)

\* The service, the tools' file and .env.azure hold one secret, wherever commands were
\* abandoned: users stay signed in and the tools get in (ensure_state, deploy).
OneSecret ==
  /\ app.exists => app.secret = azure.secret
  /\ prodEnv \in {None, app.secret}

\* What deploy reports was built under the tag it deployed, although a build that failed
\* has left its tag on file (build saves IMAGE_TAG first; deploy waits for the image).
ReportsBuilt ==
  reported # NoRevision => reported.text \in images[reported.tag].pushed
=============================================================================
