--------------------------- MODULE DeviceJourney ---------------------------
(***************************************************************************)
(* Evidence from a phone (mobile/tool/readiness_device.py --drive and      *)
(* device_driver.py): a commit is built and installed, a backend of the    *)
(* driver's own is started, thirteen steps are tried one after the other,  *)
(* and what they showed is certified of the commit, while a developer goes *)
(* on with the sources, the phone and a server of their own.               *)
(***************************************************************************)
EXTENDS Integers, Sequences

CONSTANTS
  MaxWork,     \* MODEL BOUND: versions of the sources
  MaxMeddling  \* MODEL BOUND: what the developer does before, during and after the one run

ASSUME DeviceAssumption == MaxWork \in Nat \ {0} /\ MaxMeddling \in Nat

VARIABLES
  work,    \* the working tree: [sha, text], its commit and what it holds
  apk,     \* the local APK: the version it was built from
  phone,   \* [apk, screen, session, transport]: what is installed, shown, signed in, and
           \* whether adb forwards the port
  server,  \* who listens on the port, and the secret that signs its sessions
  drive,   \* the run: [pc, at, candidate, apk, moved, extended, own]
  steps,   \* step -> NOT_RUN, PASS, FAIL or BLOCKED
  verdict, \* the evidence, and what is behind it
  meddling \* how often the developer came between

deviceVars == <<work, apk, phone, server, drive, steps, verdict, meddling>>

Works == 1..MaxWork
Nothing == 0

\* Secrets: the driver rotates its own once; a developer's server has another.
Rotated == 2
Foreigner == 3

\* The steps in the order they are tried, the tour of the tabs (--extended) last.
Order ==
  <<"launch", "initial_screen", "backend_reachable", "configuration", "authentication",
    "primary_user_flow", "api_request", "app_restart", "offline_handling",
    "network_recovery", "backend_restart", "api_error", "logout_expiration", "tour">>
Steps == {Order[i] : i \in DOMAIN Order}
Journey == Steps \ {"tour"}

\* The step that must have passed before; "launch" needs none.
Requires ==
  [initial_screen |-> "launch", backend_reachable |-> "initial_screen",
   configuration |-> "initial_screen", authentication |-> "backend_reachable",
   primary_user_flow |-> "authentication", api_request |-> "primary_user_flow",
   app_restart |-> "authentication", offline_handling |-> "authentication",
   network_recovery |-> "offline_handling", backend_restart |-> "authentication",
   api_error |-> "authentication", logout_expiration |-> "authentication",
   tour |-> "logout_expiration"]

NotDriving ==
  [pc |-> "idle", at |-> 1, candidate |-> Nothing, apk |-> Nothing, moved |-> FALSE,
   extended |-> FALSE, own |-> TRUE]
NotRun == [s \in Steps |-> "NOT_RUN"]
Over == [NotDriving EXCEPT !.pc = "over"]
NoServer == [owner |-> "nobody", secret |-> Nothing]
NoVerdict ==
  [state |-> "none", candidate |-> Nothing, installed |-> Nothing, moved |-> FALSE, own |-> TRUE]

DeviceTypeOK ==
  /\ work \in [sha : Works, text : Works]
  /\ apk \in Works \cup {Nothing}
  /\ phone \in [apk : Works \cup {Nothing}, screen : {"off", "welcome", "chat"},
                session : 0..Foreigner, transport : BOOLEAN]
  /\ server \in [owner : {"nobody", "driver", "other"}, secret : 0..Foreigner]
  /\ drive.pc \in {"idle", "build", "built", "serve", "step", "probe", "cleanup", "over"}
  /\ drive.at \in 1..Len(Order) + 1
  /\ steps \in [Steps -> {"NOT_RUN", "PASS", "FAIL", "BLOCKED"}]
  /\ verdict.state \in {"none", "PASS", "FAIL", "BLOCKED"}
  /\ meddling \in 0..MaxMeddling

DeviceInit ==
  /\ work = [sha |-> 1, text |-> 1]
  /\ apk = Nothing
  /\ phone = [apk |-> Nothing, screen |-> "off", session |-> Nothing, transport |-> FALSE]
  /\ server = NoServer
  /\ drive = NotDriving
  /\ steps = NotRun
  /\ verdict = NoVerdict
  /\ meddling = 0

-----------------------------------------------------------------------------
(* The developer, at any time (external).                                  *)

Meddles == meddling < MaxMeddling /\ meddling' = meddling + 1

\* The tree is edited or its changes undone, or what it holds is committed.  A run notes
\* here, for the properties only, a change between the check of the tree and the reading
\* of the commit: a build takes minutes and does not look again.
ChangeTree(w) ==
  /\ Meddles /\ w # work /\ work' = w
  /\ w.sha = work.sha \/ w = [sha |-> work.text, text |-> work.text]
  /\ drive' = [drive EXCEPT !.moved = @ \/ drive.pc \in {"build", "built"}]
  /\ UNCHANGED <<apk, phone, server, steps, verdict>>

\* flutter run: the tree is built and installed over what is there.
RunOnPhone ==
  /\ Meddles /\ apk' = work.text
  /\ phone' = [phone EXCEPT !.apk = work.text]
  /\ UNCHANGED <<work, server, drive, steps, verdict>>

\* A server of the developer's takes the port when it is free, and is stopped again.
OtherServer ==
  /\ Meddles
  /\ server' \in (IF server.owner = "nobody" THEN {[owner |-> "other", secret |-> Foreigner]}
                  ELSE IF server.owner = "other" THEN {NoServer} ELSE {})
  /\ UNCHANGED <<work, apk, phone, drive, steps, verdict>>

-----------------------------------------------------------------------------
(* Building and starting.                                                  *)

Clean == work.text = work.sha

\* The evidence of a run that got no further: it is never PASS.
EndsUncertified(state) ==
  /\ verdict' = [NoVerdict EXCEPT !.state = state, !.candidate = work.sha]
  /\ drive' = Over

\* An uncommitted tree is not built.
CheckTree ==
  /\ drive.pc = "idle"
  /\ IF Clean THEN drive' = [NotDriving EXCEPT !.pc = "build"] /\ UNCHANGED verdict
     ELSE EndsUncertified("BLOCKED")
  /\ UNCHANGED <<meddling, work, apk, phone, server, steps>>

\* The tree as it is by now is built and installed; or the build fails; or the phone
\* refuses what was built.
BuildAndInstall ==
  /\ drive.pc = "build"
  /\ \/ /\ apk' = work.text
        /\ phone' = [phone EXCEPT !.apk = work.text]
        /\ drive' = [drive EXCEPT !.pc = "built"] /\ UNCHANGED verdict
     \/ /\ EndsUncertified("FAIL") /\ UNCHANGED <<apk, phone>>
     \/ /\ apk' = work.text /\ EndsUncertified("BLOCKED") /\ UNCHANGED phone
  /\ UNCHANGED <<meddling, work, server, steps>>

\* The commit and the APK's hash are noted; the port must be free.
StartDrive(extended) ==
  /\ drive.pc = "built"
  /\ IF server = NoServer
     THEN /\ drive' = [drive EXCEPT !.pc = "serve", !.candidate = work.sha, !.apk = apk,
                                    !.extended = extended]
          /\ UNCHANGED verdict
     ELSE EndsUncertified("BLOCKED")
  /\ steps' = NotRun
  /\ UNCHANGED <<meddling, work, apk, phone, server>>

\* What starting the driver's backend leaves: the backend, or nobody; or, when another
\* server has taken the port first, that one, whose /ready is taken for the backend's.
Started(secret) ==
  IF server.owner = "other" THEN {server}
  ELSE {[owner |-> "driver", secret |-> secret], NoServer}

\* Once it is stopped, another server may take the port first as well.
Restarted(secret) ==
  Started(secret) \cup
  (IF server.owner = "other" THEN {} ELSE {[owner |-> "other", secret |-> Foreigner]})

\* The transport is set up and the backend started; either may fail, and the run ends.
Serve ==
  /\ drive.pc = "serve"
  /\ phone' = [phone EXCEPT !.transport = TRUE]
  /\ server' \in Started(1)
  /\ \/ server' # NoServer /\ drive' = [drive EXCEPT !.pc = "step"]
     \/ drive' = [drive EXCEPT !.pc = "cleanup"]
  /\ UNCHANGED <<meddling, work, apk, steps, verdict>>

-----------------------------------------------------------------------------
(* The steps.  Each is the set of its outcomes: it passes if phone and     *)
(* backend do what it waits for, and it can always fail, by a timeout, at  *)
(* any of its points.                                                      *)

Outcome(status, p, s) == [status |-> status, phone |-> p, server |-> s]
Passes(condition, p, s) == IF condition THEN {Outcome("PASS", p, s)} ELSE {}
Fails(phones, servers) == {Outcome("FAIL", p, s) : p \in phones, s \in servers}

\* (mutant of Logged: whatever answers will do)
LoggedAnywhere(s) == TRUE

\* The access log of the driver's backend shows the phone's request.
Logged(s) == s.owner = "driver"

\* A message typed in the chat reaches a server that accepts the session.
Accepted(p, s) ==
  p.screen = "chat" /\ p.transport /\ s # NoServer /\ p.session = s.secret

\* The app's data is cleared and the app started.
Launch ==
  Passes(TRUE, [phone EXCEPT !.screen = "welcome", !.session = Nothing], server)
  \cup Fails({[phone EXCEPT !.screen = "off"]}, {server})

InitialScreen == Passes(phone.screen = "welcome", phone, server) \cup Fails({phone}, {server})

\* Development sign-in: the request may arrive after the step has given up.
BackendReachable ==
  LET signedIn == [phone EXCEPT !.session = server.secret, !.screen = "chat"]
      reached == phone.transport /\ server # NoServer
  IN  Passes(reached /\ Logged(server), signedIn, server)
      \cup Fails({phone} \cup (IF reached THEN {signedIn} ELSE {}), {server})

\* A sign-in that arrived, in time or not, shows the build's configuration.
Configuration ==
  Passes(phone.session # Nothing /\ Logged(server), phone, server) \cup Fails({phone}, {server})

Authentication == Passes(phone.screen = "chat", phone, server) \cup Fails({phone}, {server})

PrimaryUserFlow == Passes(Accepted(phone, server), phone, server) \cup Fails({phone}, {server})

\* The message was one accepted request.
ApiRequest == Passes(Logged(server), phone, server) \cup Fails({phone}, {server})

\* The stored session opens the chat again.
AppRestart ==
  Passes(phone.session # Nothing, phone, server)
  \cup Fails({phone, [phone EXCEPT !.screen = "off"]}, {server})

\* The transport is removed, and stays so when the step fails after that.
OfflineHandling ==
  LET off == [phone EXCEPT !.transport = FALSE] IN
  Passes(phone.screen = "chat", off, server) \cup Fails({phone, off}, {server})

NetworkRecovery ==
  LET on == [phone EXCEPT !.transport = TRUE] IN
  Passes(Accepted(on, server) /\ Logged(server), on, server) \cup Fails({phone, on}, {server})

BackendRestart ==
  UNION {Passes(Accepted(phone, s) /\ Logged(s), phone, s) \cup Fails({phone}, {s}) :
           s \in Restarted(server.secret)}

\* The allowance is used up from the laptop; the phone is told.
ApiError ==
  Passes(Accepted(phone, server) /\ Logged(server), phone, server) \cup Fails({phone}, {server})

\* With another secret the session has ended; the app signs in once more, and out.
LogoutExpiration ==
  LET out == [phone EXCEPT !.screen = "welcome", !.session = Nothing] IN
  UNION {Passes(phone.screen = "chat" /\ phone.transport /\ Logged(s) /\ phone.session # s.secret,
                out, s)
         \cup Fails({phone, out, [phone EXCEPT !.session = s.secret]}, {s}) :
           s \in Restarted(Rotated)}

\* --extended: signed in again, every tab loads.
Tour ==
  LET signedIn == [phone EXCEPT !.session = server.secret, !.screen = "chat"] IN
  IF ~drive.extended THEN {Outcome("NOT_RUN", phone, server)}
  ELSE Passes(phone.transport /\ server # NoServer, signedIn, server)
       \cup Fails({phone, signedIn}, {server})

\* A step whose prerequisite has not passed is blocked and touches nothing.
Try(step, outcomes) ==
  /\ drive.pc = "step" /\ drive.at <= Len(Order) /\ Order[drive.at] = step
  /\ IF step = "launch" \/ steps[Requires[step]] = "PASS"
     THEN \E o \in outcomes :
            /\ steps' = [steps EXCEPT ![step] = o.status]
            /\ phone' = o.phone /\ server' = o.server
            /\ drive' = [drive EXCEPT !.at = @ + 1,
                           !.own = @ /\ (o.status = "PASS" => o.server.owner = "driver")]
     ELSE /\ steps' = [steps EXCEPT ![step] = "BLOCKED"]
          /\ drive' = [drive EXCEPT !.at = @ + 1]
          /\ UNCHANGED <<phone, server>>
  /\ UNCHANGED <<meddling, work, apk, verdict>>

-----------------------------------------------------------------------------
(* The evidence.                                                           *)

\* A crash in the phone's log counts against the launch.
CollectLogs ==
  /\ drive.pc = "step" /\ drive.at > Len(Order)
  /\ steps' \in {steps, [steps EXCEPT !["launch"] = "FAIL"]}
  /\ drive' = [drive EXCEPT !.pc = "probe"]
  /\ UNCHANGED <<meddling, work, apk, phone, server, verdict>>

Worst(statuses) ==
  IF "FAIL" \in statuses THEN "FAIL" ELSE IF statuses = {"PASS"} THEN "PASS" ELSE "BLOCKED"

\* (mutant of Attributable: the commit is not compared)
AttributableHash == phone.apk = apk /\ drive.apk = apk

\* The steps are those of this commit and of the APK that is installed.
Attributable == drive.candidate = work.sha /\ phone.apk = apk /\ drive.apk = apk

\* While the backend still serves: the tree, the phone, the installed APK, /ready, the
\* steps and the tour.  Of the phone's own checks any may fail or be impossible.
WriteEvidence ==
  \E device \in SUBSET {"PASS", "FAIL", "BLOCKED"} :
    /\ drive.pc = "probe"
    /\ verdict' =
         [state |-> Worst({"PASS", IF Clean THEN "PASS" ELSE "BLOCKED",
                           IF phone.apk = apk THEN "PASS" ELSE "BLOCKED",
                           IF server = NoServer THEN "BLOCKED" ELSE "PASS",
                           IF Attributable THEN Worst({steps[s] : s \in Journey}) ELSE "BLOCKED",
                           IF drive.extended THEN Worst({steps["tour"]}) ELSE "PASS"}
                          \cup device),
          candidate |-> work.sha, installed |-> phone.apk, moved |-> drive.moved,
          own |-> drive.own]
    /\ phone' = [phone EXCEPT !.transport = TRUE]
    /\ drive' = [drive EXCEPT !.pc = "cleanup"]
    /\ UNCHANGED <<meddling, work, apk, server, steps>>

\* Whatever happened, the backend is stopped and the transport restored.
Cleanup ==
  /\ drive.pc = "cleanup"
  /\ server' = IF server.owner = "driver" THEN NoServer ELSE server
  /\ phone' = [phone EXCEPT !.transport = TRUE]
  /\ drive' = Over /\ steps' = NotRun
  /\ UNCHANGED <<meddling, work, apk, verdict>>

\* A run that is killed leaves its backend on the port and the phone as it is.
KilledDrive ==
  /\ drive.pc \notin {"idle", "over"}
  /\ server' = IF server.owner = "driver" THEN [server EXCEPT !.owner = "other"] ELSE server
  /\ drive' = Over /\ steps' = NotRun
  /\ UNCHANGED <<meddling, work, apk, phone, verdict>>

DeviceNext ==
  \/ \E w \in [sha : Works, text : Works] : ChangeTree(w)
  \/ RunOnPhone \/ OtherServer
  \/ CheckTree \/ BuildAndInstall \/ (\E extended \in BOOLEAN : StartDrive(extended)) \/ Serve
  \/ Try("launch", Launch) \/ Try("initial_screen", InitialScreen)
  \/ Try("backend_reachable", BackendReachable) \/ Try("configuration", Configuration)
  \/ Try("authentication", Authentication) \/ Try("primary_user_flow", PrimaryUserFlow)
  \/ Try("api_request", ApiRequest) \/ Try("app_restart", AppRestart)
  \/ Try("offline_handling", OfflineHandling) \/ Try("network_recovery", NetworkRecovery)
  \/ Try("backend_restart", BackendRestart) \/ Try("api_error", ApiError)
  \/ Try("logout_expiration", LogoutExpiration) \/ Try("tour", Tour)
  \/ CollectLogs \/ WriteEvidence \/ Cleanup \/ KilledDrive

DeviceSpec == DeviceInit /\ [][DeviceNext]_deviceVars

-----------------------------------------------------------------------------
(* Properties.                                                             *)

\* Evidence that is PASS certifies a commit whose build is on the phone, whatever the
\* developer edits, commits or installs while the phone is driven (probe,
\* manual_results); only a change of the tree while it is built is not noticed.
CertifiesCandidate ==
  verdict.state = "PASS" /\ ~verdict.moved => verdict.installed = verdict.candidate

\* Evidence that is PASS rests on the driver's own backend in every step, though another
\* server may take the port whenever it is free and then passes for ready
\* (Backend.start, requests_since).
OwnBackend == verdict.state = "PASS" => verdict.own
=============================================================================
