---------------------------- MODULE PolicyBundle ----------------------------
(***************************************************************************)
(* The life of a policy bundle in Karmi (parakh/receiver.py and cli.py):   *)
(* operators, each command a process of its own, receive a bundle into the *)
(* store, stage it, let it shadow the live route and retire it; the API    *)
(* notes beside every reply what the shadowing bundle would have chosen.   *)
(* The bundle's row is a pointer; the history is in its events.            *)
(***************************************************************************)
EXTENDS Policy, Sequences

CONSTANTS
  Sources,    \* the directories Parakh hands over
  Operators,  \* terminals, each running one command at a time
  Settings,   \* [trusted, known]: signing keys and models of the registry
  MaxMishaps  \* MODEL BOUND: times a stored copy changes on disk, and the settings change

\* A directory's version is read from its listing, which its signer vouches for.
ListedVersion(dir) == dir.listed["manifest"].version
Versions == {ListedVersion(s) : s \in Sources}

ASSUME PolicyBundleAssumption ==
  /\ \A s \in Sources : RequiredFiles \subseteq DOMAIN s.listed
  /\ MaxMishaps \in Nat

VARIABLES
  records,   \* version -> [state, listed]: its row, NoRecord before it is received
  store,     \* version -> its immutable copy, or NoCopy
  op,        \* operator -> the command it runs and how far it is
  settings,  \* what a process started now reads
  api,       \* the API process: [settings, loaded], the policies it has verified
  decided,   \* history: the shadow decisions noted, [version, policy]
  mishaps,   \* how often each mishap came
  touched    \* history: the versions whose copy changed on disk

bundleVars == <<records, store, op, settings, api, decided, mishaps, touched>>

States == {"received", "staged", "shadow", "retired"}
NoRecord == [state |-> "none", listed |-> <<>>]
NoCopy == [signer |-> "none", sealed |-> FALSE, listed |-> <<>>, present |-> <<>>]

\* Where each state may go.
Transitions ==
  [received |-> {"staged", "retired"}, staged |-> {"shadow", "retired"},
   shadow |-> {"retired"}, retired |-> {}, none |-> {}]

\* A command: its bundle's source directory (a receive) or version (a transition to a
\* state), and the other bundles it has found in SHADOW.
NoCommand == [pc |-> "idle", source |-> NoCopy, version |-> "none", to |-> "none", others |-> {}]

BundleTypeOK ==
  /\ DOMAIN records = Versions
  /\ \A v \in Versions :
       /\ records[v].state \in States \cup {"none"}
       /\ records[v] = NoRecord \/ \E s \in Sources : records[v].listed = s.listed
  /\ DOMAIN store = Versions
  /\ \A o \in Operators :
       /\ op[o].pc \in {"idle", "store", "rename", "insert", "verify", "others", "write"}
       /\ op[o].pc \in {"store", "rename", "insert"} => op[o].source \in Sources
       /\ op[o].pc \in {"verify", "others", "write"} => op[o].version \in Versions
       /\ op[o].others \subseteq Versions
  /\ settings \in Settings /\ api.settings \in Settings
  /\ mishaps \in 0..MaxMishaps
  /\ touched \subseteq Versions

BundleInit ==
  /\ records = [v \in Versions |-> NoRecord]
  /\ store = [v \in Versions |-> NoCopy]
  /\ op = [o \in Operators |-> NoCommand]
  /\ settings \in Settings
  /\ api = [settings |-> settings, loaded |-> {}]
  /\ decided = {}
  /\ mishaps = 0
  /\ touched = {}

End(o) == op' = [op EXCEPT ![o] = NoCommand]
GoTo(o, pc) == op' = [op EXCEPT ![o].pc = pc]

-----------------------------------------------------------------------------
(* Receiving.                                                              *)

\* A source is verified, and the version looked up.  A version that is on record is
\* returned or, with other contents, refused: nothing changes.
StartReceive(o, dir) ==
  /\ op[o].pc = "idle"
  /\ Verified(dir, settings)
  /\ records[VersionOf(dir)] = NoRecord
  /\ op' = [op EXCEPT ![o] = [NoCommand EXCEPT !.pc = "store", !.source = dir,
                                               !.version = VersionOf(dir)]]
  /\ UNCHANGED <<records, store, settings, api, decided, mishaps, touched>>

\* (mutant of Kept: any verified bundle is kept)
KeptVerified(copy, dir) == Verified(copy, settings)

\* A copy an interrupted receive left stays if it is the same bundle.
Kept(copy, dir) == Verified(copy, settings) /\ copy.listed = dir.listed

\* Either a copy is there, to be kept or to end the command, or the source is copied
\* beside the store and the copy verified; one that changed under way is removed again.
LookInStore(o) ==
  LET copy == store[op[o].version] IN
  /\ op[o].pc = "store"
  /\ \/ copy # NoCopy /\ Kept(copy, op[o].source) /\ GoTo(o, "insert")
     \/ copy # NoCopy /\ ~Kept(copy, op[o].source) /\ End(o)
     \/ copy = NoCopy /\ GoTo(o, "rename")
     \/ copy = NoCopy /\ End(o)
  /\ UNCHANGED <<records, store, settings, api, decided, mishaps, touched>>

\* The verified copy takes its place, unless another came first: a directory does not
\* replace one that has files.
RenameCopy(o) ==
  /\ op[o].pc = "rename"
  /\ IF store[op[o].version] = NoCopy
     THEN /\ store' = [store EXCEPT ![op[o].version] = op[o].source]
          /\ GoTo(o, "insert")
     ELSE UNCHANGED store /\ End(o)
  /\ UNCHANGED <<records, settings, api, decided, mishaps, touched>>

\* The row is inserted and committed; a version has one row, and the command whose row
\* comes second fails.
InsertRecord(o) ==
  /\ op[o].pc = "insert"
  /\ records' = IF records[op[o].version] = NoRecord
                THEN [records EXCEPT ![op[o].version] =
                        [state |-> "received", listed |-> op[o].source.listed]]
                ELSE records
  /\ End(o)
  /\ UNCHANGED <<store, settings, api, decided, mishaps, touched>>

\* A command is killed; what it did not commit is gone, what it stored stays.
Killed(o) ==
  /\ op[o].pc # "idle"
  /\ End(o)
  /\ UNCHANGED <<records, store, settings, api, decided, mishaps, touched>>

-----------------------------------------------------------------------------
(* Transitions.                                                            *)

\* The row is read and the transition must be one its state allows.  CANARY and
\* PRODUCTION are refused before that.
StartTransition(o, v, to) ==
  /\ op[o].pc = "idle"
  /\ to \in Transitions[records[v].state]
  /\ op' = [op EXCEPT ![o] = [NoCommand EXCEPT !.pc = IF to = "retired" THEN "write" ELSE "verify",
                                               !.version = v, !.to = to]]
  /\ UNCHANGED <<records, store, settings, api, decided, mishaps, touched>>

\* (mutant of Matches: the listing is not compared)
MatchesVersion(copy, v) == VersionOf(copy) = v

\* The stored copy is the bundle the row was made for.
Matches(copy, v) == copy.listed = records[v].listed /\ VersionOf(copy) = v

\* The stored copy is verified again before it is staged or shadows.
VerifyStored(o) ==
  LET v == op[o].version IN
  /\ op[o].pc = "verify"
  /\ IF Verified(store[v], settings) /\ Matches(store[v], v)
     THEN GoTo(o, IF op[o].to = "shadow" THEN "others" ELSE "write")
     ELSE End(o)
  /\ UNCHANGED <<records, store, settings, api, decided, mishaps, touched>>

FindOthers(o) ==
  /\ op[o].pc = "others"
  /\ op' = [op EXCEPT ![o].pc = "write",
                      ![o].others = {v \in Versions \ {op[o].version} :
                                       records[v].state = "shadow"}]
  /\ UNCHANGED <<records, store, settings, api, decided, mishaps, touched>>

\* The rows after the write: those it found in SHADOW retired, its own in its new state.
Moved(o) ==
  [v \in Versions |->
     IF v = op[o].version THEN [records[v] EXCEPT !.state = op[o].to]
     ELSE IF v \in op[o].others THEN [records[v] EXCEPT !.state = "retired"]
     ELSE records[v]]

\* (mutant of SingleShadowIndex: no index)
AnyIndex(rs) == TRUE

\* The partial unique index on rows in SHADOW.
SingleShadowIndex(rs) ==
  \A v, w \in Versions : rs[v].state = "shadow" /\ rs[w].state = "shadow" => v = w

\* Rows are updated by their key, whatever state they are in by then.
WriteTransition(o) ==
  /\ op[o].pc = "write"
  /\ records' = IF SingleShadowIndex(Moved(o)) THEN Moved(o) ELSE records
  /\ End(o)
  /\ UNCHANGED <<store, settings, api, decided, mishaps, touched>>

-----------------------------------------------------------------------------
(* The API and the surroundings.                                           *)

\* A request notes the shadowing bundle's choice: its policy as this process verified it,
\* once for each row, listing and set of trusted keys.  A bundle that fails is skipped.
DecideShadow(v) ==
  LET cached == {p \in api.loaded : p.version = v /\ p.listed = records[v].listed}
      fresh == [version |-> v, listed |-> records[v].listed, policy |-> PolicyOf(store[v])]
      loaded == IF cached # {} THEN api.loaded ELSE api.loaded \cup {fresh}
  IN  /\ records[v].state = "shadow"
      /\ cached = {} => Verified(store[v], api.settings) /\ Matches(store[v], v)
      /\ api' = [api EXCEPT !.loaded = loaded]
      /\ decided' = decided \cup
           {[version |-> p.version, policy |-> p.policy] :
              p \in {q \in loaded : q.version = v /\ q.listed = records[v].listed}}
      /\ UNCHANGED <<records, store, op, settings, mishaps, touched>>

\* A stored copy is damaged, or overwritten with another bundle Parakh signed.
DisturbCopy(v) ==
  /\ mishaps < MaxMishaps /\ mishaps' = mishaps + 1
  /\ store[v] # NoCopy
  /\ store' \in {[store EXCEPT ![v] = d] :
                   d \in Sources \cup {[store[v] EXCEPT !.present = <<>>]}}
  /\ touched' = touched \cup {v}
  /\ UNCHANGED <<records, op, settings, api, decided>>

\* Keys or models change for the processes that start from now on.
Configure(s) ==
  /\ mishaps < MaxMishaps /\ mishaps' = mishaps + 1
  /\ s \in Settings \ {settings} /\ settings' = s
  /\ UNCHANGED <<records, store, op, api, decided, touched>>

RestartApi ==
  /\ api # [settings |-> settings, loaded |-> {}]
  /\ api' = [settings |-> settings, loaded |-> {}]
  /\ UNCHANGED <<records, store, op, settings, decided, mishaps, touched>>

BundleNext ==
  \/ \E o \in Operators :
       \/ \E dir \in Sources : StartReceive(o, dir)
       \/ LookInStore(o) \/ RenameCopy(o) \/ InsertRecord(o) \/ Killed(o)
       \/ \E v \in Versions, to \in States : StartTransition(o, v, to)
       \/ VerifyStored(o) \/ FindOthers(o) \/ WriteTransition(o)
  \/ \E v \in Versions : DecideShadow(v) \/ DisturbCopy(v)
  \/ \E s \in Settings : Configure(s)
  \/ RestartApi

BundleSpec == BundleInit /\ [][BundleNext]_bundleVars

-----------------------------------------------------------------------------
(* Properties.                                                             *)

\* A bundle on record has the copy it was received with, whatever receives raced or were
\* killed on the way, unless the copy changed on disk later (receive_bundle).
StoredAsReceived ==
  \A v \in Versions \ touched : records[v] # NoRecord =>
    store[v].listed = records[v].listed /\ Intact(store[v])

\* Operators who shadow different bundles at once leave one of them in SHADOW at most
\* (transition, ix_policy_bundles_single_shadow).
OneShadow ==
  \A v, w \in Versions : records[v].state = "shadow" /\ records[w].state = "shadow" => v = w

\* Every shadow decision was made by the policy that was received and verified under its
\* version, even after the copy was overwritten (_load_stored).
DecidesAsReceived ==
  \A d \in decided : /\ records[d.version] # NoRecord
                     /\ d.policy = records[d.version].listed["policy"]

\* "RECEIVED -> STAGED -> SHADOW -> RETIRED" (receiver.py:1, TRANSITIONS): a retired
\* bundle has nowhere to go.
RetiredIsFinal ==
  [][\A v \in Versions : records[v].state = "retired" => records'[v].state = "retired"]_bundleVars
=============================================================================
