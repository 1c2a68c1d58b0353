------------------------- MODULE PolicyBundleProofs -------------------------
(***************************************************************************)
(* What holds of bundles for any directories, operators, settings and      *)
(* number of mishaps: records keep the listing they were made with, copies *)
(* nobody disturbed are those that were received, one bundle shadows at    *)
(* most, and it decides with the policy that was received.                 *)
(***************************************************************************)
EXTENDS PolicyBundle, TLAPS

Listings == {s.listed : s \in Sources}
Record == [state : States \cup {"none"}, listed : Listings \cup {<<>>}]
Command ==
  [pc : {"idle", "store", "rename", "insert", "verify", "others", "write"},
   source : Sources \cup {NoCopy}, version : Versions \cup {"none"},
   to : States \cup {"none"}, others : SUBSET Versions]

\* The shape of rows and commands, and what a command knows of the row and of the source
\* it is about.
Shape ==
  /\ records \in [Versions -> Record]
  /\ \A v \in Versions : records[v].state = "none" => records[v] = NoRecord
  /\ DOMAIN store = Versions
  /\ op \in [Operators -> Command]
  /\ api = [settings |-> api.settings, loaded |-> api.loaded]
  /\ \A d \in decided : d.version \in Versions

\* The copy of a version is there, with this listing and what it lists.
Holds(v, listed) == store[v] # NoCopy /\ store[v].listed = listed /\ Intact(store[v])

\* What a command relies on: a receive's source is sealed and is what it lists, and before
\* it inserts the row the copy is in place; the bundles of a transition are on record.
CommandOK(o) ==
  /\ op[o].pc \in {"store", "rename", "insert"} =>
       /\ op[o].version \in Versions
       /\ op[o].source \in Sources /\ op[o].source.sealed /\ Intact(op[o].source)
  /\ op[o].pc = "insert" /\ op[o].version \notin touched =>
       Holds(op[o].version, op[o].source.listed)
  /\ op[o].pc \in {"verify", "others", "write"} =>
       /\ op[o].version \in Versions /\ op[o].to \in States
       /\ records[op[o].version] # NoRecord
       /\ \A w \in op[o].others : records[w] # NoRecord

StoredOnRecord ==
  \A v \in Versions \ touched : records[v] # NoRecord => Holds(v, records[v].listed)

\* A loaded policy is the one its listing lists.
LoadedAsListed == \A p \in api.loaded : p.policy = p.listed["policy"]

IInv ==
  /\ Shape /\ (\A o \in Operators : CommandOK(o)) /\ StoredOnRecord
  /\ LoadedAsListed /\ DecidesAsReceived

-----------------------------------------------------------------------------
\* What passes verification holds the files it lists, every required one among them.
LEMMA VerifiedIsIntact ==
  ASSUME NEW dir, NEW s, Verified(dir, s)
  PROVE  dir.sealed /\ Intact(dir)
BY DEF Verified

\* A verified source goes by the version its listing names.
LEMMA SourceHasVersion ==
  ASSUME NEW dir \in Sources, Verified(dir, settings)
  PROVE  VersionOf(dir) \in Versions
BY DEF Verified, Intact, VersionOf, ListedVersion, Versions

\* A missing copy never passes verification.
LEMMA NoCopyIsNotSealed ==
  ASSUME NEW dir, dir.sealed
  PROVE  dir # NoCopy
BY DEF NoCopy

\* A command ends, or goes on to its next step.
LEMMA CommandsKept ==
  ASSUME Shape, NEW o \in Operators,
         \/ End(o)
         \/ \E pc \in {"rename", "insert", "others", "write"} : GoTo(o, pc)
  PROVE  /\ op' \in [Operators -> Command]
         /\ \A q \in Operators \ {o} : op'[q] = op[q]
         /\ op'[o].pc # "idle" => /\ op'[o].version = op[o].version /\ op'[o].to = op[o].to
                                  /\ op'[o].source = op[o].source
                                  /\ op'[o].others = op[o].others
<1>1. CASE End(o)
  BY <1>1 DEF End, NoCommand, Shape, Command
<1>2. ASSUME NEW pc \in {"rename", "insert", "others", "write"}, GoTo(o, pc)
      PROVE  /\ op' = [op EXCEPT ![o] = [op[o] EXCEPT !.pc = pc]]
             /\ [op[o] EXCEPT !.pc = pc] \in Command
  <2>1. op[o] \in Command
    BY DEF Shape
  <2>2. QED
    BY <1>2, <2>1 DEF GoTo, Command
<1>3. QED
  BY <1>1, <1>2 DEF Shape, Command

\* Nothing is on record or stored at first.
LEMMA InitIInv == BundleInit => IInv
<1> SUFFICES ASSUME BundleInit PROVE IInv
  OBVIOUS
<1>1. Shape
  BY DEF BundleInit, Shape, Record, Command, NoRecord, NoCommand, NoCopy, States
<1>2. ASSUME NEW o \in Operators PROVE CommandOK(o)
  BY DEF BundleInit, CommandOK, NoCommand
<1>3. StoredOnRecord /\ LoadedAsListed /\ DecidesAsReceived
  BY DEF BundleInit, StoredOnRecord, LoadedAsListed, DecidesAsReceived
<1>4. QED
  BY <1>1, <1>2, <1>3 DEF IInv

-----------------------------------------------------------------------------
(* Steps that only move a command on.                                      *)

\* Such a step keeps the invariant if its own command may rely on what it needs.
LEMMA CommandStep ==
  ASSUME IInv, NEW o \in Operators, op' \in [Operators -> Command],
         \A q \in Operators \ {o} : op'[q] = op[q],
         UNCHANGED <<records, store, api, decided, touched>>,
         CommandOK(o)'
  PROVE  IInv'
<1>1. Shape'
  BY DEF IInv, Shape
<1>2. ASSUME NEW q \in Operators PROVE CommandOK(q)'
  BY DEF IInv, CommandOK, Holds
<1>3. StoredOnRecord' /\ LoadedAsListed' /\ DecidesAsReceived'
  BY DEF IInv, StoredOnRecord, LoadedAsListed, DecidesAsReceived, Holds
<1>4. QED
  BY <1>1, <1>2, <1>3 DEF IInv

\* A receive goes on with a verified source only.
LEMMA StartReceiveKeeps ==
  ASSUME IInv, NEW o \in Operators, NEW dir \in Sources, StartReceive(o, dir)
  PROVE  IInv'
<1>1. dir.sealed /\ Intact(dir) /\ VersionOf(dir) \in Versions
  BY VerifiedIsIntact, SourceHasVersion DEF StartReceive
<1>2. PICK c : c = [NoCommand EXCEPT !.pc = "store", !.source = dir, !.version = VersionOf(dir)]
  OBVIOUS
<1>3. c \in Command /\ c.pc = "store" /\ c.source = dir /\ c.version = VersionOf(dir)
  BY <1>1, <1>2 DEF NoCommand, Command
<1>4. op' = [op EXCEPT ![o] = c]
  BY <1>2 DEF StartReceive
<1>5. op' \in [Operators -> Command] /\ op'[o] = c
  BY <1>3, <1>4 DEF IInv, Shape
<1>6. CommandOK(o)'
  BY <1>1, <1>3, <1>5 DEF CommandOK, Intact
<1>7. QED
  BY <1>4, <1>5, <1>6, CommandStep DEF StartReceive, IInv, Shape

\* A copy that is kept is the source's bundle.
LEMMA LookInStoreKeeps ==
  ASSUME IInv, NEW o \in Operators, LookInStore(o)
  PROVE  IInv'
<1> DEFINE v == op[o].version
<1>1. /\ op' \in [Operators -> Command] /\ \A q \in Operators \ {o} : op'[q] = op[q]
      /\ op'[o].pc # "idle" => op'[o].version = v /\ op'[o].source = op[o].source
  BY CommandsKept DEF LookInStore, IInv
<1>2. /\ v \in Versions
      /\ op[o].source \in Sources /\ op[o].source.sealed /\ Intact(op[o].source)
  BY DEF IInv, CommandOK, LookInStore
<1>3. CASE GoTo(o, "insert") /\ store[v] # NoCopy /\ Kept(store[v], op[o].source)
  <2>1. Holds(v, op[o].source.listed)
    BY <1>3, VerifiedIsIntact DEF Kept, Holds
  <2>2. op'[o].pc = "insert"
    BY <1>3, <1>1 DEF GoTo, IInv, Shape, Command
  <2>3. CommandOK(o)'
    BY <1>1, <1>2, <2>1, <2>2 DEF CommandOK, Holds, LookInStore, Intact
  <2>4. QED
    BY <1>1, <2>3, CommandStep DEF LookInStore
<1>4. CASE GoTo(o, "rename")
  <2>1. op'[o].pc = "rename"
    BY <1>4, <1>1 DEF GoTo, IInv, Shape, Command
  <2>2. CommandOK(o)'
    BY <1>1, <1>2, <2>1 DEF CommandOK, LookInStore, Intact
  <2>3. QED
    BY <1>1, <2>2, CommandStep DEF LookInStore
<1>5. CASE End(o)
  <2>1. op'[o].pc = "idle"
    BY <1>5 DEF End, NoCommand, IInv, Shape
  <2>2. CommandOK(o)'
    BY <2>1 DEF CommandOK
  <2>3. QED
    BY <1>1, <2>2, CommandStep DEF LookInStore
<1>6. QED
  BY <1>3, <1>4, <1>5 DEF LookInStore

\* A killed command leaves what it stored.
LEMMA KilledKeeps ==
  ASSUME IInv, NEW o \in Operators, Killed(o)
  PROVE  IInv'
<1>1. op' \in [Operators -> Command] /\ \A q \in Operators \ {o} : op'[q] = op[q]
  BY CommandsKept DEF Killed, IInv
<1>2. op'[o].pc = "idle"
  BY DEF Killed, End, NoCommand, IInv, Shape
<1>3. CommandOK(o)'
  BY <1>2 DEF CommandOK
<1>4. QED
  BY <1>1, <1>3, CommandStep DEF Killed

\* A state that may go somewhere is that of a row.
LEMMA TransitionOfRecord ==
  ASSUME Shape, NEW v \in Versions, NEW to \in Transitions[records[v].state]
  PROVE  to \in States /\ records[v] # NoRecord
BY DEF Shape, Record, Transitions, States, NoRecord

\* A transition is of a bundle on record.
LEMMA StartTransitionKeeps ==
  ASSUME IInv, NEW o \in Operators, NEW v \in Versions, NEW to \in States,
         StartTransition(o, v, to)
  PROVE  IInv'
<1>1. records[v] # NoRecord
  BY TransitionOfRecord DEF StartTransition, IInv
<1>2. PICK pc \in {"write", "verify"} : pc = IF to = "retired" THEN "write" ELSE "verify"
  OBVIOUS
<1>3. PICK c : c = [NoCommand EXCEPT !.pc = pc, !.version = v, !.to = to]
  OBVIOUS
<1>4. c \in Command /\ c.pc = pc /\ c.version = v /\ c.to = to /\ c.others = {}
  BY <1>2, <1>3 DEF NoCommand, Command
<1>5. op' = [op EXCEPT ![o] = c]
  BY <1>2, <1>3 DEF StartTransition
<1>6. op' \in [Operators -> Command] /\ op'[o] = c
  BY <1>4, <1>5 DEF IInv, Shape
<1>7. CommandOK(o)'
  BY <1>1, <1>2, <1>4, <1>6 DEF CommandOK, StartTransition
<1>8. QED
  BY <1>5, <1>6, <1>7, CommandStep DEF StartTransition, IInv, Shape

\* Verifying a copy changes no copy and no row.
LEMMA VerifyStoredKeeps ==
  ASSUME IInv, NEW o \in Operators, VerifyStored(o)
  PROVE  IInv'
<1>1. \E pc \in {"others", "write"} : End(o) \/ GoTo(o, pc)
  BY DEF VerifyStored
<1>2. /\ op' \in [Operators -> Command] /\ \A q \in Operators \ {o} : op'[q] = op[q]
      /\ op'[o].pc # "idle" => /\ op'[o].version = op[o].version /\ op'[o].to = op[o].to
                               /\ op'[o].others = op[o].others
  BY <1>1, CommandsKept DEF IInv
<1>3. op'[o].pc \in {"idle", "others", "write"}
  BY <1>1 DEF End, GoTo, NoCommand, IInv, Shape, Command
<1>4. CommandOK(o)'
  BY <1>2, <1>3 DEF CommandOK, VerifyStored, IInv
<1>5. QED
  BY <1>2, <1>4, CommandStep DEF VerifyStored

\* Reading the rows in SHADOW changes none.
LEMMA FindOthersKeeps ==
  ASSUME IInv, NEW o \in Operators, FindOthers(o)
  PROVE  IInv'
<1>1. PICK found \in SUBSET Versions :
        found = {v \in Versions \ {op[o].version} : records[v].state = "shadow"}
  OBVIOUS
<1>2. PICK c : c = [[op[o] EXCEPT !.pc = "write"] EXCEPT !.others = found]
  OBVIOUS
<1>3. op' = [op EXCEPT ![o] = c]
  BY <1>1, <1>2 DEF FindOthers
<1>4. /\ c \in Command /\ c.pc = "write" /\ c.version = op[o].version /\ c.to = op[o].to
      /\ c.others = found
  BY <1>2 DEF IInv, Shape, Command
<1>5. op' \in [Operators -> Command] /\ op'[o] = c /\ \A q \in Operators \ {o} : op'[q] = op[q]
  BY <1>3, <1>4 DEF IInv, Shape
<1>6. CommandOK(o)'
  <2>1. \A w \in found : records[w] # NoRecord
    BY <1>1 DEF NoRecord
  <2>2. /\ op[o].version \in Versions /\ op[o].to \in States
        /\ records[op[o].version] # NoRecord
    BY DEF IInv, CommandOK, FindOthers
  <2>3. QED
    BY <2>1, <2>2, <1>4, <1>5 DEF CommandOK, FindOthers
<1>7. QED
  BY <1>5, <1>6, CommandStep DEF FindOthers

-----------------------------------------------------------------------------
(* Steps that write the store or the rows.                                 *)

\* A copy takes a free place only, so the copies that commands and rows rely on stay.
LEMMA RenameCopyKeeps ==
  ASSUME IInv, NEW o \in Operators, RenameCopy(o)
  PROVE  IInv'
<1> DEFINE v == op[o].version
           dir == op[o].source
<1>1. v \in Versions /\ dir \in Sources /\ dir.sealed /\ Intact(dir)
  BY DEF IInv, CommandOK, RenameCopy
<1>2. /\ op' \in [Operators -> Command] /\ \A q \in Operators \ {o} : op'[q] = op[q]
      /\ op'[o].pc # "idle" => op'[o].version = v /\ op'[o].source = dir
  BY CommandsKept DEF RenameCopy, IInv
<1>3. CASE store[v] # NoCopy
  <2>1. op'[o].pc = "idle"
    BY <1>3 DEF RenameCopy, End, NoCommand, IInv, Shape
  <2>2. CommandOK(o)'
    BY <2>1 DEF CommandOK
  <2>3. QED
    BY <1>2, <1>3, <2>2, CommandStep DEF RenameCopy
<1>4. CASE store[v] = NoCopy
  <2>1. store' = [store EXCEPT ![v] = dir] /\ op'[o].pc = "insert"
    BY <1>4, <1>2 DEF RenameCopy, GoTo, IInv, Shape, Command
  <2>2. /\ store'[v] = dir /\ dir # NoCopy /\ DOMAIN store' = Versions
        /\ \A w \in Versions \ {v} : store'[w] = store[w]
    BY <1>1, <2>1, NoCopyIsNotSealed DEF IInv, Shape
  <2>3. ASSUME NEW w \in Versions, NEW listed, Holds(w, listed)
        PROVE  Holds(w, listed)'
    BY <1>4, <2>2, <2>3 DEF Holds
  <2>4. Shape'
    BY <1>2, <2>2 DEF RenameCopy, IInv, Shape
  <2>5. CommandOK(o)'
    BY <1>1, <1>2, <2>1, <2>2 DEF CommandOK, Holds, RenameCopy, Intact
  <2>6. ASSUME NEW q \in Operators \ {o} PROVE CommandOK(q)'
    BY <1>2, <2>3, <2>6 DEF CommandOK, RenameCopy, IInv
  <2>7. StoredOnRecord'
    BY <2>3 DEF StoredOnRecord, RenameCopy, IInv
  <2>8. LoadedAsListed' /\ DecidesAsReceived'
    BY DEF LoadedAsListed, DecidesAsReceived, RenameCopy, IInv
  <2>9. QED
    BY <2>4, <2>5, <2>6, <2>7, <2>8 DEF IInv
<1>5. QED
  BY <1>3, <1>4

\* What a change of the rows may do: a row is new or keeps its listing.
LEMMA RecordsStep ==
  ASSUME IInv, NEW o \in Operators, End(o), records' \in [Versions -> Record],
         UNCHANGED <<store, api, decided, touched>>,
         \A v \in Versions : records'[v].state = "none" => records'[v] = NoRecord,
         \A v \in Versions : records[v] # NoRecord =>
           records'[v] # NoRecord /\ records'[v].listed = records[v].listed,
         \A v \in Versions \ touched : records[v] = NoRecord /\ records'[v] # NoRecord =>
           Holds(v, records'[v].listed)
  PROVE  IInv'
<1>1. /\ op' \in [Operators -> Command] /\ \A q \in Operators \ {o} : op'[q] = op[q]
      /\ op'[o].pc = "idle"
  BY CommandsKept DEF End, NoCommand, IInv, Shape
<1>2. Shape'
  BY <1>1 DEF IInv, Shape
<1>3. ASSUME NEW q \in Operators PROVE CommandOK(q)'
  <2>1. op[q].others \subseteq Versions
    BY DEF IInv, Shape, Command
  <2>2. QED
    BY <1>1, <2>1 DEF IInv, CommandOK, Holds
<1>4. StoredOnRecord'
  BY DEF IInv, StoredOnRecord, Holds
<1>5. LoadedAsListed'
  BY DEF IInv, LoadedAsListed
<1>6. DecidesAsReceived'
  <2> SUFFICES ASSUME NEW d \in decided
               PROVE  records'[d.version] # NoRecord /\ d.policy = records'[d.version].listed["policy"]
    BY DEF DecidesAsReceived
  <2>1. records[d.version] # NoRecord /\ d.policy = records[d.version].listed["policy"]
    BY DEF IInv, DecidesAsReceived
  <2>2. d.version \in Versions
    BY DEF IInv, Shape
  <2>3. QED
    BY <2>1, <2>2
<1>7. QED
  BY <1>2, <1>3, <1>4, <1>5, <1>6 DEF IInv

\* A row is inserted for the bundle whose copy is in place.
LEMMA InsertRecordKeeps ==
  ASSUME IInv, NEW o \in Operators, InsertRecord(o)
  PROVE  IInv'
<1> DEFINE v == op[o].version
           row == [state |-> "received", listed |-> op[o].source.listed]
<1>1. v \in Versions /\ op[o].source \in Sources
  BY DEF IInv, CommandOK, InsertRecord
<1>2. v \notin touched => Holds(v, op[o].source.listed)
  BY DEF IInv, CommandOK, InsertRecord
<1>3. row \in Record /\ row # NoRecord /\ row.state = "received" /\ row.listed = op[o].source.listed
  BY <1>1 DEF Record, Listings, States, NoRecord
<1>4. records' = records \/ (records[v] = NoRecord /\ records' = [records EXCEPT ![v] = row])
  BY DEF InsertRecord
<1> HIDE DEF row
<1>5. /\ records' \in [Versions -> Record]
      /\ \A w \in Versions : records'[w] = records[w] \/ (w = v /\ records[v] = NoRecord /\ records'[v] = row)
  BY <1>1, <1>3, <1>4 DEF IInv, Shape
<1>6. \A w \in Versions : records'[w].state = "none" => records'[w] = NoRecord
  BY <1>3, <1>5 DEF IInv, Shape
<1>7. QED
  BY <1>2, <1>3, <1>5, <1>6, RecordsStep DEF InsertRecord

\* The rows a transition writes: states change, listings do not.
LEMMA MovedKeepsListings ==
  ASSUME IInv, NEW o \in Operators, op[o].pc = "write"
  PROVE  /\ Moved(o) \in [Versions -> Record]
         /\ \A w \in Versions : Moved(o)[w].listed = records[w].listed
         /\ \A w \in Versions : Moved(o)[w] = records[w] \/ Moved(o)[w].state \in States
<1>1. op[o].to \in States
  BY DEF IInv, CommandOK
<1>2. ASSUME NEW w \in Versions, NEW state \in States
      PROVE  /\ [records[w] EXCEPT !.state = state] \in Record
             /\ [records[w] EXCEPT !.state = state].listed = records[w].listed
             /\ [records[w] EXCEPT !.state = state].state = state
  BY <1>2 DEF IInv, Shape, Record
<1>3. "retired" \in States
  BY DEF States
<1>4. QED
  BY <1>1, <1>2, <1>3 DEF Moved, IInv, Shape

\* A transition changes states, never what was received; the index keeps SHADOW single.
LEMMA WriteTransitionKeeps ==
  ASSUME IInv, NEW o \in Operators, WriteTransition(o)
  PROVE  IInv'
<1>1. CASE records' = records
  BY <1>1, RecordsStep DEF WriteTransition, IInv, Shape
<1>2. CASE records' = Moved(o)
  <2>1. /\ records' \in [Versions -> Record]
        /\ \A w \in Versions : records'[w].listed = records[w].listed
        /\ \A w \in Versions : records'[w] = records[w] \/ records'[w].state \in States
    BY <1>2, MovedKeepsListings DEF WriteTransition
  <2>2. \A w \in Versions : records'[w].state = "none" => records'[w] = NoRecord
    BY <2>1 DEF IInv, Shape, States
  <2>3. \A w \in Versions : records[w] # NoRecord => records'[w] # NoRecord
    BY <2>1 DEF NoRecord, States
  <2>4. op[o].version \in Versions /\ records[op[o].version] # NoRecord
    BY DEF IInv, CommandOK, WriteTransition
  <2>5. \A w \in op[o].others : records[w] # NoRecord
    BY DEF IInv, CommandOK, WriteTransition
  <2>6. \A w \in Versions : records[w] = NoRecord => records'[w] = NoRecord
    BY <1>2, <2>4, <2>5 DEF Moved
  <2>7. QED
    BY <2>1, <2>2, <2>3, <2>6, RecordsStep DEF WriteTransition
<1>3. QED
  BY <1>1, <1>2 DEF WriteTransition

-----------------------------------------------------------------------------
(* The API and the surroundings.                                           *)

\* A policy is loaded from a verified copy that has the row's listing.
LEMMA DecideShadowKeeps ==
  ASSUME IInv, NEW v \in Versions, DecideShadow(v)
  PROVE  IInv'
<1>1. PICK fresh : fresh = [version |-> v, listed |-> records[v].listed,
                            policy |-> PolicyOf(store[v])]
  OBVIOUS
<1>2. PICK cached : cached = {p \in api.loaded : p.version = v /\ p.listed = records[v].listed}
  OBVIOUS
<1>3. PICK loaded : loaded = IF cached # {} THEN api.loaded ELSE api.loaded \cup {fresh}
  OBVIOUS
<1>4. /\ records[v].state = "shadow"
      /\ cached = {} => Verified(store[v], api.settings) /\ Matches(store[v], v)
      /\ api' = [api EXCEPT !.loaded = loaded]
      /\ decided' = decided \cup
           {[version |-> p.version, policy |-> p.policy] :
              p \in {q \in loaded : q.version = v /\ q.listed = records[v].listed}}
      /\ UNCHANGED <<records, store, op, touched>>
  BY <1>1, <1>2, <1>3 DEF DecideShadow
<1>5. cached = {} => fresh.policy = fresh.listed["policy"]
  BY <1>1, <1>4, VerifiedIsIntact DEF Matches, Intact, PolicyOf
<1>6. \A p \in loaded : p.policy = p.listed["policy"]
  BY <1>3, <1>5 DEF IInv, LoadedAsListed
<1>7. api' = [settings |-> api'.settings, loaded |-> api'.loaded] /\ api'.loaded = loaded
  BY <1>4 DEF IInv, Shape
<1>8. records[v] # NoRecord
  BY <1>4 DEF NoRecord
<1>9. ASSUME NEW d \in decided'
      PROVE  /\ d.version \in Versions /\ records[d.version] # NoRecord
             /\ d.policy = records[d.version].listed["policy"]
  <2>1. CASE d \in decided
    BY <2>1 DEF IInv, Shape, DecidesAsReceived
  <2>2. CASE d \notin decided
    <3>1. PICK p \in loaded : /\ p.version = v /\ p.listed = records[v].listed
                              /\ d = [version |-> p.version, policy |-> p.policy]
      BY <1>4, <1>9, <2>2
    <3>2. QED
      BY <1>6, <1>8, <3>1
  <2>3. QED
    BY <2>1, <2>2
<1>10. Shape'
  BY <1>4, <1>7, <1>9 DEF IInv, Shape
<1>11. ASSUME NEW o \in Operators PROVE CommandOK(o)'
  BY <1>4 DEF IInv, CommandOK, Holds
<1>12. StoredOnRecord'
  BY <1>4 DEF IInv, StoredOnRecord, Holds
<1>13. LoadedAsListed' /\ DecidesAsReceived'
  BY <1>4, <1>6, <1>7, <1>9 DEF LoadedAsListed, DecidesAsReceived
<1>14. QED
  BY <1>10, <1>11, <1>12, <1>13 DEF IInv

\* Only the copy that is disturbed changes, and from then on nothing is claimed of it.
LEMMA DisturbCopyKeeps ==
  ASSUME IInv, NEW v \in Versions, DisturbCopy(v)
  PROVE  IInv'
<1>1. /\ DOMAIN store' = Versions
      /\ \A w \in Versions \ {v} : store'[w] = store[w]
      /\ touched' = touched \cup {v}
      /\ UNCHANGED <<records, op, api, decided>>
  BY DEF DisturbCopy, IInv, Shape
<1>2. Shape'
  BY <1>1 DEF IInv, Shape
<1>3. ASSUME NEW o \in Operators PROVE CommandOK(o)'
  BY <1>1 DEF IInv, CommandOK, Holds
<1>4. StoredOnRecord'
  BY <1>1 DEF IInv, StoredOnRecord, Holds
<1>5. LoadedAsListed' /\ DecidesAsReceived'
  BY <1>1 DEF IInv, LoadedAsListed, DecidesAsReceived
<1>6. QED
  BY <1>2, <1>3, <1>4, <1>5 DEF IInv

\* Neither new settings nor a restart reach rows, copies or commands under way.
LEMMA RestingKeeps ==
  ASSUME IInv, UNCHANGED <<records, store, op, decided, touched>>,
         \/ UNCHANGED api
         \/ \E s : api' = [settings |-> s, loaded |-> {}]
  PROVE  IInv'
<1>1. api' = [settings |-> api'.settings, loaded |-> api'.loaded] /\ api'.loaded \subseteq api.loaded
  BY DEF IInv, Shape
<1>2. Shape'
  BY <1>1 DEF IInv, Shape
<1>3. ASSUME NEW o \in Operators PROVE CommandOK(o)'
  BY DEF IInv, CommandOK, Holds
<1>4. StoredOnRecord' /\ LoadedAsListed' /\ DecidesAsReceived'
  BY <1>1 DEF IInv, StoredOnRecord, LoadedAsListed, DecidesAsReceived, Holds
<1>5. QED
  BY <1>2, <1>3, <1>4 DEF IInv

-----------------------------------------------------------------------------
\* Every step keeps the inductive invariant.
LEMMA StepKeepsIInv ==
  ASSUME IInv, [BundleNext]_bundleVars
  PROVE  IInv'
<1>1. ASSUME NEW o \in Operators, NEW dir \in Sources, StartReceive(o, dir)
      PROVE  IInv'
  BY <1>1, StartReceiveKeeps
<1>2. ASSUME NEW o \in Operators, LookInStore(o) \/ RenameCopy(o) \/ InsertRecord(o)
      PROVE  IInv'
  BY <1>2, LookInStoreKeeps, RenameCopyKeeps, InsertRecordKeeps
<1>3. ASSUME NEW o \in Operators, Killed(o) \/ VerifyStored(o) \/ FindOthers(o) \/ WriteTransition(o)
      PROVE  IInv'
  BY <1>3, KilledKeeps, VerifyStoredKeeps, FindOthersKeeps, WriteTransitionKeeps
<1>4. ASSUME NEW o \in Operators, NEW v \in Versions, NEW to \in States, StartTransition(o, v, to)
      PROVE  IInv'
  BY <1>4, StartTransitionKeeps
<1>5. ASSUME NEW v \in Versions, DecideShadow(v) \/ DisturbCopy(v)
      PROVE  IInv'
  BY <1>5, DecideShadowKeeps, DisturbCopyKeeps
<1>6. ASSUME NEW s \in Settings, Configure(s)
      PROVE  IInv'
  BY <1>6, RestingKeeps DEF Configure
<1>7. CASE RestartApi
  BY <1>7, RestingKeeps DEF RestartApi
<1>8. CASE UNCHANGED bundleVars
  BY <1>8, RestingKeeps DEF bundleVars
<1>9. QED
  BY <1>1, <1>2, <1>3, <1>4, <1>5, <1>6, <1>7, <1>8 DEF BundleNext

\* What a command under way knows is what it read, copies on record are those received unless
\* somebody changed the disk, the policies a process holds are those its bundles list, and every
\* decision taken is the received policy's (receive_bundle, transition, _load_stored).
THEOREM BundleInvariant == BundleSpec => []IInv
<1>1. BundleInit => IInv
  BY InitIInv
<1>2. IInv /\ [BundleNext]_bundleVars => IInv'
  BY StepKeepsIInv
<1>3. QED
  BY <1>1, <1>2, PTL DEF BundleSpec

\* Whatever receives race or are killed, a bundle on record has the copy it was received
\* with, as long as nobody touches the copy (receive_bundle).
THEOREM ReceivedIsStored == BundleSpec => []StoredAsReceived
<1>1. IInv => StoredAsReceived
  BY DEF IInv, StoredOnRecord, StoredAsReceived, Holds
<1>2. QED
  BY <1>1, BundleInvariant, PTL

\* Every shadow decision is the received policy's, whatever happens to the copy later
\* (_load_stored, shadow_select).
THEOREM ReceivedDecides == BundleSpec => []DecidesAsReceived
<1>1. IInv => DecidesAsReceived
  BY DEF IInv
<1>2. QED
  BY <1>1, BundleInvariant, PTL

\* One bundle shadows at most (transition, ix_policy_bundles_single_shadow).
THEOREM SingleShadow == BundleSpec => []OneShadow
<1>1. BundleInit => OneShadow
  BY DEF BundleInit, OneShadow, NoRecord
<1>2. IInv /\ OneShadow /\ [BundleNext]_bundleVars => OneShadow'
  <2> SUFFICES ASSUME IInv, OneShadow, [BundleNext]_bundleVars PROVE OneShadow'
    OBVIOUS
  <2>1. CASE UNCHANGED records
    BY <2>1 DEF OneShadow
  <2>2. ASSUME NEW o \in Operators, InsertRecord(o)
        PROVE  OneShadow'
    <3>1. \A v \in Versions : records'[v].state = records[v].state \/ records'[v].state = "received"
      BY <2>2 DEF InsertRecord, IInv, Shape
    <3>2. QED
      BY <3>1 DEF OneShadow
  <2>3. ASSUME NEW o \in Operators, WriteTransition(o)
        PROVE  OneShadow'
    BY <2>3 DEF WriteTransition, SingleShadowIndex, OneShadow
  <2>4. QED
    BY <2>1, <2>2, <2>3
    DEF BundleNext, StartReceive, LookInStore, RenameCopy, Killed, StartTransition, VerifyStored,
        FindOthers, DecideShadow, DisturbCopy, Configure, RestartApi, bundleVars
<1>3. QED
  BY <1>1, <1>2, BundleInvariant, PTL DEF BundleSpec
=============================================================================
