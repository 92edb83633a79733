------------------------ MODULE RecoveryHelperProofs ------------------------
(***************************************************************************)
(* What the recovery helper keeps for any number of start requests, of     *)
(* deaths of its process and of Termux, and of results: a proof that is    *)
(* served is one recorded result, a pulse leaves nothing on, and an agent  *)
(* too many comes of a race of two scripts.                                *)
(***************************************************************************)
EXTENDS RecoveryHelper, FiniteSetTheorems, TLAPS

---------------------------------------------------------------------------
(* The invariant.                                                          *)

\* The requests are worked through in the order of their numbers: the task is
\* the latest one taken, and what waits are all that came after it.
Taken == starts - Len(queue)
HelperTyped ==
  /\ starts \in 0 .. MaxStarts /\ queue \in Seq([n : Starts, action : Actions])
  /\ task \in Tasks \cup {NoTask}
  /\ cancel \in BOOLEAN /\ autoRestore \in BOOLEAN
  /\ adbWifi \in BOOLEAN /\ asked \in BOOLEAN /\ cut \in BOOLEAN
  /\ faults \in 0 .. MaxFaults
  /\ fates \in [Starts -> {"none", "waiting", "handled", "killed"}]
QueueInOrder ==
  /\ Len(queue) <= starts
  /\ \A i \in 1 .. Len(queue) : queue[i].n = Taken + i
  /\ task # NoTask => task.n = Taken
HelperInv == HelperTyped /\ QueueInOrder

\* A pulse knows how the setting was before it, and nothing else changes it
\* while the pulse runs.
PulseRestores ==
  ~cut => IF At("pulsing") THEN task.prior => asked ELSE adbWifi => asked

\* A digest that is stored or read is the one of a recorded result.
Recorded(digest) ==
  \A revision \in Nat, at \in Nat, mode \in Modes :
    digest = Digest(revision, at, mode) =>
      [revision |-> revision, at |-> at, mode |-> mode] \in proofs
Digests == (Nat \X Nat \X Modes) \cup {NoDigest}
Rows == [revision : Nat, at : Nat, state : States, mode : Modes, uid : BOOLEAN,
         digest : Digests]
RecordsInv ==
  /\ prefs \in Rows /\ Recorded(prefs.digest)
  /\ query \in [read : 0 .. Len(Fields) - 1, row : Rows, served : BOOLEAN]
  /\ Recorded(query.row.digest)
  /\ query.served => Matches(query.row)

\* A request starts its script once, after it was taken, and the script starts
\* its agent once.
Unstarted == {"none", "probing", "checking", "writing", "replacing", "spawning"}
ScriptsTyped ==
  /\ script \in [Starts -> Scripts]
  /\ agents \subseteq Starts /\ pidFile \in Starts \cup {NoPid} /\ tmpFile \in BOOLEAN
  /\ slips \in Nat
ScriptsInOrder ==
  \A n \in Starts : script[n].at # "none" =>
    n <= Taken /\ (At("begin") \/ At("discovering") => n # task.n)
AgentsStarted == \A n \in agents : script[n].at \notin Unstarted
ScriptsInv == ScriptsTyped /\ ScriptsInOrder /\ AgentsStarted

\* The scripts that are past their check of the pid file.  While there is one,
\* it counts as the agent it will start; once there is none, every agent that the
\* pid file does not name is one too many.
Committed == {n \in Starts : script[n].at \in Starting}
ExtrasRaced ==
  IF Committed # {} THEN Cardinality(agents \cup Committed) <= 1 + slips
                    ELSE Cardinality(agents \ {pidFile}) <= slips

RecoveryInv == HelperInv /\ PulseRestores /\ RecordsInv /\ ScriptsInv /\ ExtrasRaced

---------------------------------------------------------------------------
(* The requests.                                                           *)

\* The service stops itself only when nothing waits, so no request is lost by it.
LEMMA NothingLost ==
    ASSUME HelperInv, task # NoTask, EndTask
    PROVE  /\ queue' = queue /\ task' = NoTask
           /\ cancel' \in BOOLEAN /\ fates' \in [Starts -> {"none", "waiting", "handled", "killed"}]
<1>1. task.n = starts => queue = <<>>
  BY DEF HelperInv, HelperTyped, QueueInOrder, Taken
<1>2. queue' = queue /\ cancel' \in BOOLEAN
  BY <1>1 DEF EndTask, StopSelf, HelperInv, HelperTyped
<1> QED
  BY <1>2 DEF EndTask, HelperInv, HelperTyped

LEMMA StartKeeps ==
    ASSUME RecoveryAssumption, HelperInv, NEW a \in Requests, onStartCommand(a)
    PROVE  HelperInv' /\ Taken' = Taken
<1> DEFINE entry == [n |-> starts + 1, action |-> a]
<1>1. starts \in 0 .. MaxStarts /\ starts < MaxStarts /\ MaxStarts \in Nat /\ a \in Actions
  BY DEF HelperInv, HelperTyped, onStartCommand, RecoveryAssumption
<1>2. entry \in [n : Starts, action : Actions]
  BY <1>1 DEF Starts
<1>3. /\ queue' = Append(queue, entry) /\ starts' = starts + 1
      /\ queue \in Seq([n : Starts, action : Actions])
  BY DEF onStartCommand, HelperInv, HelperTyped
<1> HIDE DEF entry
<1>4. /\ queue' \in Seq([n : Starts, action : Actions]) /\ Len(queue') = Len(queue) + 1
      /\ \A i \in 1 .. Len(queue) : queue'[i] = queue[i]
      /\ queue'[Len(queue) + 1] = entry
  BY <1>2, <1>3
<1>5. Taken' = Taken
  BY <1>1, <1>3, <1>4 DEF Taken
<1>6. HelperTyped'
  <2>1. /\ UNCHANGED <<task, autoRestore, adbWifi, faults, asked, cut>>
        /\ cancel' = TRUE \/ cancel' = cancel
        /\ fates' = [fates EXCEPT ![starts + 1] = "waiting"]
    BY DEF onStartCommand
  <2>2. fates' \in [Starts -> {"none", "waiting", "handled", "killed"}]
    BY <2>1 DEF HelperInv, HelperTyped
  <2>3. starts' \in 0 .. MaxStarts
    BY <1>1, <1>3
  <2>4. cancel' \in BOOLEAN
    BY <2>1 DEF HelperInv, HelperTyped
  <2> QED
    BY <1>4, <2>1, <2>2, <2>3, <2>4 DEF HelperInv, HelperTyped
<1>7. QueueInOrder'
  <2>1. entry.n = starts + 1
    BY DEF entry
  <2>2. ASSUME NEW i \in 1 .. Len(queue') PROVE queue'[i].n = Taken + i
    BY <1>1, <1>3, <1>4, <2>1 DEF HelperInv, QueueInOrder, Taken
  <2>3. task' = task
    BY DEF onStartCommand
  <2> QED
    BY <1>1, <1>3, <1>4, <1>5, <2>2, <2>3 DEF HelperInv, QueueInOrder
<1> QED
  BY <1>5, <1>6, <1>7 DEF HelperInv

LEMMA TakeKeeps == ASSUME HelperInv, Take PROVE HelperInv' /\ Taken' = Taken + 1
<1>1. /\ queue \in Seq([n : Starts, action : Actions]) /\ queue # <<>>
      /\ queue' = Tail(queue) /\ starts' = starts /\ starts \in Nat
  BY DEF HelperInv, HelperTyped, Take
<1> DEFINE Entries == [n : Starts, action : Actions]
<1>2. /\ queue' \in Seq([n : Starts, action : Actions]) /\ Len(queue') = Len(queue) - 1
      /\ Len(queue) \in Nat \ {0}
      /\ \A i \in 1 .. Len(queue') : queue'[i] = queue[i + 1]
      /\ queue[1] = Head(queue) /\ Head(queue) \in [n : Starts, action : Actions]
  <2>1. queue \in Seq(Entries) /\ queue # <<>> /\ queue' = Tail(queue)
    BY <1>1
  <2> HIDE DEF Entries
  <2>2. /\ queue' \in Seq(Entries) /\ Len(queue') = Len(queue) - 1
        /\ Len(queue) \in Nat \ {0}
        /\ queue[1] = Head(queue) /\ Head(queue) \in Entries
    BY <2>1
  <2>3. \A i \in 1 .. Len(queue') : queue'[i] = queue[i + 1]
    BY <2>1, <2>2
  <2> QED
    BY <2>2, <2>3 DEF Entries
<1>3. Taken' = Taken + 1
  BY <1>1, <1>2 DEF Taken
<1>4. Head(queue).n = Taken + 1
  BY <1>2 DEF HelperInv, QueueInOrder
<1>5. task' \in Tasks /\ task'.n = Taken + 1
  BY <1>2, <1>4 DEF Take, Tasks
<1>6. HelperTyped'
  BY <1>1, <1>2, <1>5 DEF HelperInv, HelperTyped, Take
<1>7. QueueInOrder'
  <2>1. ASSUME NEW i \in 1 .. Len(queue') PROVE queue'[i].n = Taken' + i
    <3>1. i + 1 \in 1 .. Len(queue) /\ queue'[i] = queue[i + 1] /\ i \in Int
      BY <1>2
    <3>2. queue[i + 1].n = Taken + (i + 1)
      BY <3>1 DEF HelperInv, QueueInOrder
    <3>3. Taken \in Int
      BY <1>1, <1>2 DEF Taken
    <3> QED
      BY <1>3, <3>1, <3>2, <3>3
  <2>2. Len(queue') <= starts'
    BY <1>1, <1>2 DEF HelperInv, QueueInOrder
  <2> QED
    BY <1>3, <1>5, <2>1, <2>2 DEF QueueInOrder
<1> QED
  BY <1>3, <1>6, <1>7 DEF HelperInv

\* The task ends, or goes on, or nothing is done about the requests at all.
Idles == UNCHANGED <<starts, queue, task, cancel, fates>>
GoesOn == /\ UNCHANGED <<starts, queue, fates>> /\ cancel' \in BOOLEAN
          /\ task # NoTask /\ task' \in Tasks /\ task'.n = task.n
Ends == task # NoTask /\ EndTask /\ UNCHANGED starts
Sets == /\ autoRestore' \in BOOLEAN /\ adbWifi' \in BOOLEAN /\ asked' \in BOOLEAN
        /\ cut' \in BOOLEAN /\ faults' \in 0 .. MaxFaults

LEMMA TaskKeeps ==
    ASSUME HelperInv, Idles \/ GoesOn \/ Ends, Sets
    PROVE  HelperInv' /\ Taken' = Taken
<1>1. CASE Idles
  BY <1>1 DEF Idles, Sets, HelperInv, HelperTyped, QueueInOrder, Taken
<1>2. CASE GoesOn
  BY <1>2 DEF GoesOn, Sets, HelperInv, HelperTyped, QueueInOrder, Taken
<1>3. CASE Ends
  <2>1. /\ queue' = queue /\ task' = NoTask
        /\ cancel' \in BOOLEAN /\ fates' \in [Starts -> {"none", "waiting", "handled", "killed"}]
    BY <1>3, NothingLost DEF Ends
  <2>2. starts' = starts
    BY <1>3 DEF Ends
  <2> QED
    BY <2>1, <2>2 DEF Sets, HelperInv, HelperTyped, QueueInOrder, Taken
<1> QED
  BY <1>1, <1>2, <1>3

LEMMA KillKeeps ==
    ASSUME RecoveryAssumption, HelperInv, KillHelper
    PROVE  HelperInv' /\ Taken' >= Taken /\ task' = NoTask
<1>1. /\ queue' = <<>> /\ task' = NoTask /\ starts' = starts /\ starts \in Nat
      /\ Len(queue) \in Nat /\ cut' \in BOOLEAN
      /\ faults' \in 0 .. MaxFaults
      /\ fates' \in [Starts -> {"none", "waiting", "handled", "killed"}]
  BY DEF HelperInv, HelperTyped, KillHelper, At, RecoveryAssumption
<1>2. Taken' >= Taken /\ Len(queue') = 0
  BY <1>1 DEF Taken
<1>3. HelperTyped'
  <2>1. queue' \in Seq([n : Starts, action : Actions])
    BY <1>1
  <2>2. UNCHANGED <<autoRestore, adbWifi, asked>> /\ cancel' = FALSE
    BY DEF KillHelper
  <2> QED
    BY <1>1, <2>1, <2>2 DEF HelperInv, HelperTyped
<1> QED
  BY <1>1, <1>2, <1>3 DEF HelperInv, QueueInOrder

---------------------------------------------------------------------------
(* The setting.                                                            *)

\* A step leaves what a pulse will restore, or no pulse runs before and after it
\* and it sets both, or a pulse begins, ends or is cut short.
SettingStep ==
  \/ UNCHANGED <<task, asked, cut>> /\ (At("pulsing") \/ adbWifi' = adbWifi \/ ~adbWifi')
  \/ /\ ~At("pulsing") /\ ~At("pulsing")'
     /\ UNCHANGED <<adbWifi, asked, cut>> \/ asked' = adbWifi'
  \/ ~At("pulsing") /\ task'.prior = adbWifi /\ UNCHANGED <<adbWifi, asked, cut>>
  \/ At("pulsing") /\ task' = NoTask /\ adbWifi' = task.prior /\ UNCHANGED <<asked, cut>>
  \/ task' = NoTask /\ (~cut' => ~cut /\ ~At("pulsing")) /\ UNCHANGED <<adbWifi, asked>>

LEMMA SettingKeeps == PulseRestores /\ SettingStep => PulseRestores'
BY DEF PulseRestores, SettingStep, At

---------------------------------------------------------------------------
(* The records.                                                            *)

\* A step leaves the records, writes a state, or drops the query.
RecordsStep ==
  \/ UNCHANGED proofVars
  \/ RecordState /\ UNCHANGED <<query, proofs>>
  \/ query' = Idle /\ UNCHANGED <<prefs, proofs>>

LEMMA RecordsKeep == ASSUME RecoveryAssumption, RecordsInv, RecordsStep PROVE RecordsInv'
<1>1. CASE UNCHANGED proofVars
  BY <1>1 DEF proofVars, RecordsInv, Recorded, Matches
<1>2. CASE RecordState /\ UNCHANGED <<query, proofs>>
  <2>1. prefs' \in Rows /\ prefs'.digest = prefs.digest
    BY <1>2 DEF RecordState, RecordsInv, Rows, States
  <2> QED
    BY <1>2, <2>1 DEF RecordsInv, Recorded, Matches
<1>3. CASE query' = Idle /\ UNCHANGED <<prefs, proofs>>
  <2>1. Idle \in [read : 0 .. Len(Fields) - 1, row : Rows, served : BOOLEAN]
    BY DEF Idle, NoResult, Rows, Digests, States, Modes, Fields
  <2>2. Recorded(NoDigest)'
    BY RecoveryAssumption DEF Recorded, Digest
  <2>3. query'.row.digest = NoDigest /\ ~query'.served
    BY <1>3 DEF Idle, NoResult
  <2>4. Recorded(prefs.digest)'
    BY <1>3 DEF RecordsInv, Recorded
  <2> QED
    BY <1>3, <2>1, <2>2, <2>3, <2>4 DEF RecordsInv
<1> QED
  BY <1>1, <1>2, <1>3 DEF RecordsStep

LEMMA ResultKeeps ==
    ASSUME RecordsInv, script \in [Starts -> Scripts], NEW n \in Starts, NEW now \in Nat,
           onHandleIntent(n, now)
    PROVE  RecordsInv'
<1> DEFINE s == script[n]
           revision == prefs.revision + 1
           entry == [revision |-> revision, at |-> now, mode |-> s.mode]
<1>1. /\ prefs' = [revision |-> revision, at |-> now,
                   state |-> IF IsProof(s) THEN "tls_shell_available" ELSE "other",
                   mode |-> IF s.output THEN s.mode ELSE "not_proven",
                   uid |-> s.output /\ s.ok /\ s.op # "pair",
                   digest |-> IF IsProof(s) THEN Digest(revision, now, s.mode) ELSE NoDigest]
      /\ proofs' = IF IsProof(s) THEN proofs \cup {entry} ELSE proofs
      /\ query' = query
  BY DEF onHandleIntent, helperVars
<1>2. s \in Scripts /\ revision \in Nat
  BY DEF RecordsInv, Rows
<1>3. s.mode \in Modes /\ s.output \in BOOLEAN /\ s.ok \in BOOLEAN
  BY <1>2 DEF Scripts
<1> HIDE DEF s, revision
<1>4. prefs'.digest \in Digests /\ Recorded(prefs.digest)'
  <2>1. CASE IsProof(s)
    <3>1. prefs'.digest = Digest(revision, now, s.mode) /\ entry \in proofs'
      BY <1>1, <2>1
    <3> QED
      BY <1>2, <1>3, <3>1 DEF Recorded, Digests, Digest
  <2>2. CASE ~IsProof(s)
    BY <1>1, <2>2, RecoveryAssumption DEF Recorded, Digests, Digest
  <2> QED
    BY <2>1, <2>2
<1>5. prefs' \in Rows
  <2>1. prefs'.digest \in Digests
    BY <1>4
  <2>2. "not_proven" \in Modes
    BY DEF Modes
  <2>3. (s.output /\ s.ok /\ s.op # "pair") \in BOOLEAN
    BY <1>3
  <2> QED
    BY <1>1, <1>2, <1>3, <2>1, <2>2, <2>3 DEF Rows, States
<1>6. Recorded(query.row.digest)'
  BY <1>1 DEF RecordsInv, Recorded
<1> QED
  BY <1>1, <1>4, <1>5, <1>6 DEF RecordsInv, Matches

LEMMA QueryKeeps == ASSUME RecordsInv, QueryStep, UNCHANGED <<prefs, proofs>> PROVE RecordsInv'
<1> DEFINE k == query.read + 1
           before == IF k = 1 THEN NoResult ELSE query.row
           row == [before EXCEPT ![Fields[k]] = prefs[Fields[k]]]
<1>1. k \in 1 .. 6 /\ Len(Fields) = 6
  BY DEF RecordsInv, Fields
<1>2. /\ query' = [read |-> IF k = Len(Fields) THEN 0 ELSE k, row |-> row,
                   served |-> k = Len(Fields)]
      /\ k = Len(Fields) => Matches(row)
  BY DEF QueryStep
<1>3. before \in Rows /\ (before.digest = NoDigest \/ before.digest = query.row.digest)
  BY DEF RecordsInv, NoResult, Rows, Digests, States, Modes
<1> HIDE DEF before
<1>4. row \in Rows /\ row.digest \in {before.digest, prefs.digest}
  <2>1. prefs \in Rows
    BY DEF RecordsInv
  <2>2. CASE k = 1
    BY <1>3, <2>1, <2>2 DEF Rows, Fields
  <2>3. CASE k = 2
    BY <1>3, <2>1, <2>3 DEF Rows, Fields
  <2>4. CASE k = 3
    BY <1>3, <2>1, <2>4 DEF Rows, Fields
  <2>5. CASE k = 4
    BY <1>3, <2>1, <2>5 DEF Rows, Fields
  <2>6. CASE k = 5
    BY <1>3, <2>1, <2>6 DEF Rows, Fields
  <2>7. CASE k = 6
    BY <1>3, <2>1, <2>7 DEF Rows, Fields
  <2> QED
    BY <1>1, <2>2, <2>3, <2>4, <2>5, <2>6, <2>7
<1> HIDE DEF k, row
<1>5. Recorded(NoDigest)
  BY RecoveryAssumption DEF Recorded, Digest
<1>6. Recorded(row.digest)
  BY <1>3, <1>4, <1>5 DEF RecordsInv
<1>7. query' \in [read : 0 .. Len(Fields) - 1, row : Rows, served : BOOLEAN]
  BY <1>1, <1>2, <1>4
<1> QED
  BY <1>1, <1>2, <1>6, <1>7 DEF RecordsInv, Recorded, Matches

---------------------------------------------------------------------------
(* The scripts.                                                            *)

\* The requests move on and no script is touched.
LEMMA ScriptsRest ==
    ASSUME HelperInv, HelperInv', ScriptsInv, UNCHANGED <<script, agents, pidFile, tmpFile, slips>>,
           \/ UNCHANGED task /\ Taken' = Taken
           \/ task' = NoTask /\ Taken' >= Taken
           \/ Taken' = Taken + 1
           \/ /\ At("begin") \/ At("discovering")
              /\ Taken' = Taken /\ task # NoTask /\ task'.n = task.n
           \/ Taken' = Taken /\ ~At("begin")' /\ ~At("discovering")'
    PROVE  ScriptsInv'
<1>1. Taken \in Int /\ Taken' \in Int
  BY DEF HelperInv, HelperTyped, Taken
<1>2. ScriptsTyped' /\ AgentsStarted'
  BY DEF ScriptsInv, ScriptsTyped, AgentsStarted
<1>3. ASSUME NEW n \in Starts, script'[n].at # "none"
      PROVE  n <= Taken' /\ (At("begin")' \/ At("discovering")' => n # task'.n)
  <2>1. n <= Taken /\ (At("begin") \/ At("discovering") => n # task.n) /\ n \in Int
    BY <1>3 DEF ScriptsInv, ScriptsInOrder, Starts
  <2>2. task' # NoTask => task'.n = Taken'
    BY DEF HelperInv, QueueInOrder
  <2> QED
    BY <1>1, <2>1, <2>2 DEF At
<1> QED
  BY <1>2, <1>3 DEF ScriptsInv, ScriptsInOrder

\* A request that is being worked on starts its script and is past its discovery.
LEMMA DispatchKeeps ==
    ASSUME RecoveryAssumption, HelperInv, ScriptsInv, At("begin") \/ At("discovering"),
           NEW op \in {"recover", "ap_free_experiment", "pair"}, NEW port \in BOOLEAN,
           Dispatch(op, port), UNCHANGED <<agents, pidFile, tmpFile, slips>>,
           ~At("begin")' /\ ~At("discovering")', Taken' = Taken
    PROVE  ScriptsInv' /\ script[task.n].at = "none" /\ script'[task.n].at = "probing"
           /\ \A m \in Starts \ {task.n} : script'[m] = script[m]
<1>1. task \in Tasks /\ task.n \in Starts /\ task.n = Taken
  BY DEF HelperInv, HelperTyped, QueueInOrder, At, Tasks
<1>2. script[task.n].at = "none"
  BY <1>1 DEF ScriptsInv, ScriptsInOrder
<1>3. [NoScript EXCEPT !.op = op, !.at = "probing",
                       !.mode = IF port THEN "tls_nsd" ELSE "not_proven"] \in Scripts
  BY DEF NoScript, Scripts, ScriptStages, Modes
<1>4. /\ script' \in [Starts -> Scripts] /\ script'[task.n].at = "probing"
      /\ \A m \in Starts \ {task.n} : script'[m] = script[m]
  BY <1>1, <1>3 DEF Dispatch, ScriptsInv, ScriptsTyped, NoScript
<1>5. ScriptsTyped'
  BY <1>4 DEF ScriptsInv, ScriptsTyped
<1>6. task.n \notin agents
  BY <1>2 DEF ScriptsInv, AgentsStarted, Unstarted
<1>7. AgentsStarted'
  BY <1>4, <1>6 DEF ScriptsInv, ScriptsTyped, AgentsStarted
<1>8. ScriptsInOrder'
  BY <1>1, <1>4 DEF ScriptsInv, ScriptsInOrder, Starts
<1> QED
  BY <1>2, <1>4, <1>5, <1>7, <1>8 DEF ScriptsInv

\* A script that has been started takes a step of its own.
LEMMA ScriptKeeps ==
    ASSUME ScriptsInv, NEW n \in Starts, NEW s \in Scripts, UNCHANGED <<starts, queue, task>>,
           script' = [script EXCEPT ![n] = s], script[n].at # "none", s.at # "none",
           agents' \subseteq Starts, agents' \subseteq agents \cup {n},
           n \in agents' => s.at \notin Unstarted,
           pidFile' \in Starts \cup {NoPid}, tmpFile' \in BOOLEAN, slips' \in Nat
    PROVE  ScriptsInv'
<1>1. ScriptsTyped'
  BY DEF ScriptsInv, ScriptsTyped
<1>2. AgentsStarted'
  BY DEF ScriptsInv, ScriptsTyped, AgentsStarted
<1>3. ScriptsInOrder'
  BY DEF ScriptsInv, ScriptsTyped, ScriptsInOrder, Taken, At
<1> QED
  BY <1>1, <1>2, <1>3 DEF ScriptsInv

---------------------------------------------------------------------------
(* The agents.                                                             *)

Pids == agents \cup Committed

LEMMA PidsFinite ==
    ASSUME RecoveryAssumption, ScriptsInv
    PROVE  /\ slips \in Nat
           /\ \A S \in SUBSET Starts : IsFiniteSet(S) /\ Cardinality(S) \in Nat
           /\ agents \subseteq Starts /\ Pids \subseteq Starts
           /\ agents \ {pidFile} \subseteq Starts
<1>1. IsFiniteSet(Starts)
  BY FS_Interval DEF RecoveryAssumption, Starts
<1>2. ASSUME NEW S \in SUBSET Starts PROVE IsFiniteSet(S) /\ Cardinality(S) \in Nat
  BY <1>1, FS_Subset, FS_CardinalityType
<1> QED
  BY <1>2 DEF ScriptsInv, ScriptsTyped, Committed, Pids

\* Nothing is started and nobody gives up; agents may die.
LEMMA ExtrasStay ==
    ASSUME RecoveryAssumption, ScriptsInv, ExtrasRaced, UNCHANGED <<pidFile, slips>>,
           Committed' = Committed, agents' \subseteq agents
    PROVE  ExtrasRaced'
<1>1. /\ Cardinality(agents' \cup Committed') <= Cardinality(Pids)
      /\ Cardinality(agents' \ {pidFile}') <= Cardinality(agents \ {pidFile})
      /\ Cardinality(agents' \cup Committed') \in Nat
      /\ Cardinality(agents' \ {pidFile}') \in Nat
  <2>1. agents' \cup Committed' \subseteq Pids /\ agents' \ {pidFile}' \subseteq agents \ {pidFile}
    BY DEF Pids
  <2> QED
    BY <2>1, PidsFinite, FS_Subset, FS_CardinalityType
<1> QED
  BY <1>1, PidsFinite DEF ExtrasRaced, Pids

\* A script goes past its check: no agent that is known is alive.
LEMMA ExtrasCheck ==
    ASSUME RecoveryAssumption, ScriptsInv, ExtrasRaced, UNCHANGED <<agents, pidFile>>,
           NEW n \in Starts, n \notin Committed, Committed' = Committed \cup {n},
           pidFile \notin agents,
           slips' = slips + (IF Committed # {} THEN 1 ELSE 0)
    PROVE  ExtrasRaced'
<1>1. agents' \cup Committed' = Pids \cup {n} /\ Committed' # {}
  BY DEF Pids
<1>2. /\ Cardinality(Pids \cup {n}) <= Cardinality(Pids) + 1
      /\ Cardinality(Pids \cup {n}) \in Nat /\ Cardinality(Pids) \in Nat
  <2>1. IsFiniteSet(Pids) /\ Cardinality(Pids) \in Nat
    BY PidsFinite
  <2>2. Cardinality(Pids \cup {n}) = IF n \in Pids THEN Cardinality(Pids) ELSE Cardinality(Pids) + 1
    BY <2>1, FS_AddElement
  <2> QED
    BY <2>1, <2>2
<1>3. CASE Committed # {}
  <2>1. slips' = slips + 1 /\ slips \in Nat /\ Cardinality(Pids) <= 1 + slips
    BY <1>3, PidsFinite DEF ExtrasRaced, Pids
  <2>2. Cardinality(agents' \cup Committed') <= 1 + slips'
    BY <1>1, <1>2, <2>1
  <2> QED
    BY <1>1, <2>2 DEF ExtrasRaced
<1>4. CASE Committed = {}
  <2>1. Pids = agents \ {pidFile}
    BY <1>4 DEF Pids
  <2> QED
    BY <1>1, <1>2, <1>4, <2>1, PidsFinite DEF ExtrasRaced
<1> QED
  BY <1>3, <1>4

LEMMA ExtrasSpawn ==
    ASSUME ExtrasRaced, NEW n \in Committed, agents' = agents \cup {n},
           Committed' = Committed, UNCHANGED <<pidFile, slips>>
    PROVE  ExtrasRaced'
<1>1. agents' \cup Committed' = agents \cup Committed
  OBVIOUS
<1> QED
  BY <1>1 DEF ExtrasRaced

\* A script has done its part: its agent is the one in the pid file, or there is none.
LEMMA ExtrasSettle ==
    ASSUME RecoveryAssumption, ScriptsInv, ExtrasRaced, UNCHANGED <<agents, slips>>,
           NEW n \in Committed, Committed' = Committed \ {n}, pidFile' = n \/ n \notin agents
    PROVE  ExtrasRaced'
<1>1. CASE Committed' # {}
  <2>1. agents' \cup Committed' \subseteq Pids
    BY DEF Pids
  <2>2. /\ Cardinality(agents' \cup Committed') <= Cardinality(Pids)
        /\ Cardinality(agents' \cup Committed') \in Nat /\ Cardinality(Pids) \in Nat
    BY <2>1, PidsFinite, FS_Subset, FS_CardinalityType
  <2> QED
    BY <1>1, <2>2, PidsFinite DEF ExtrasRaced, Pids
<1>2. CASE Committed' = {}
  <2>1. Pids = agents \cup {n} /\ agents' \ {pidFile'} \subseteq Pids \ {n}
    BY <1>2 DEF Pids
  <2>2. /\ Cardinality(Pids \ {n}) = Cardinality(Pids) - 1
        /\ IsFiniteSet(Pids \ {n}) /\ Cardinality(Pids) \in Nat
    BY <2>1, PidsFinite, FS_RemoveElement
  <2>3. /\ Cardinality(agents' \ {pidFile'}) <= Cardinality(Pids \ {n})
        /\ Cardinality(agents' \ {pidFile'}) \in Nat
    BY <2>1, <2>2, FS_Subset, FS_CardinalityType
  <2>4. Cardinality(Pids) <= 1 + slips
    BY DEF ExtrasRaced, Pids
  <2> QED
    BY <1>2, <2>2, <2>3, <2>4, PidsFinite DEF ExtrasRaced
<1> QED
  BY <1>1, <1>2

\* A script dies with an agent that the pid file does not name, or without one.
LEMMA ExtrasLost ==
    ASSUME RecoveryAssumption, ScriptsInv, ExtrasRaced, UNCHANGED <<agents, pidFile>>,
           NEW n \in Committed, Committed' = Committed \ {n}, slips' = slips + 1
    PROVE  ExtrasRaced'
<1>1. agents' \cup Committed' \subseteq Pids /\ agents' \ {pidFile'} \subseteq Pids
  BY DEF Pids
<1>2. /\ Cardinality(agents' \cup Committed') <= Cardinality(Pids)
      /\ Cardinality(agents' \ {pidFile'}) <= Cardinality(Pids)
      /\ Cardinality(agents' \cup Committed') \in Nat
      /\ Cardinality(agents' \ {pidFile'}) \in Nat /\ Cardinality(Pids) \in Nat
  BY <1>1, PidsFinite, FS_Subset, FS_CardinalityType
<1>3. Cardinality(Pids) <= 1 + slips
  BY DEF ExtrasRaced, Pids
<1> QED
  BY <1>2, <1>3, PidsFinite DEF ExtrasRaced

LEMMA ExtrasBound ==
    ASSUME RecoveryAssumption, ScriptsInv, ExtrasRaced PROVE OneAgentUnlessRaced
<1>1. CASE Committed # {}
  <2>1. agents \subseteq Pids
    BY DEF Pids
  <2> QED
    BY <1>1, <2>1, PidsFinite, FS_Subset DEF ExtrasRaced, OneAgentUnlessRaced, Pids
<1>2. CASE Committed = {}
  <2>1. /\ Cardinality(agents \ {pidFile}) = IF pidFile \in agents THEN Cardinality(agents) - 1
                                                               ELSE Cardinality(agents)
        /\ Cardinality(agents) \in Nat
    BY PidsFinite, FS_RemoveElement
  <2> QED
    BY <1>2, <2>1, PidsFinite DEF ExtrasRaced, OneAgentUnlessRaced
<1> QED
  BY <1>1, <1>2

---------------------------------------------------------------------------
(* Every step keeps the invariant.                                         *)

TaskStep == Idles \/ Ends \/ (GoesOn /\ (At("begin") \/ At("discovering")))

\* Scripts that are left alone stay in order when the task moves.
LEMMA TaskStepKeeps ==
    ASSUME RecoveryAssumption, RecoveryInv, TaskStep, Sets, SettingStep, RecordsStep,
           UNCHANGED termuxVars
    PROVE  RecoveryInv'
<1>1. HelperInv' /\ Taken' = Taken
  BY TaskKeeps DEF RecoveryInv, TaskStep
<1>2. Idles \/ Ends \/ GoesOn
  BY DEF TaskStep
<1>3. ScriptsInv'
  <2>1. UNCHANGED <<script, agents, pidFile, tmpFile, slips>>
    BY DEF termuxVars
  <2>2. CASE Idles
    BY <1>1, <2>1, <2>2, ScriptsRest DEF RecoveryInv, Idles
  <2>3. CASE Ends
    <3>1. task' = NoTask
      BY <2>3, NothingLost DEF RecoveryInv, Ends
    <3>2. Taken \in Int
      BY DEF RecoveryInv, HelperInv, HelperTyped, Taken
    <3> QED
      BY <1>1, <2>1, <3>1, <3>2, ScriptsRest DEF RecoveryInv
  <2>4. CASE GoesOn /\ (At("begin") \/ At("discovering"))
    BY <1>1, <2>1, <2>4, ScriptsRest DEF RecoveryInv, GoesOn
  <2> QED
    BY <2>2, <2>3, <2>4 DEF TaskStep
<1>4. ExtrasRaced'
  <2>1. Committed' = Committed /\ UNCHANGED <<agents, pidFile, slips>>
    BY DEF termuxVars, Committed
  <2> QED
    BY <2>1, ExtrasStay DEF RecoveryInv
<1> QED
  BY <1>1, <1>3, <1>4, SettingKeeps, RecordsKeep DEF RecoveryInv

\* A task that dispatches its script ends, or goes on to a stage after discovery.
LEMMA DispatchStepKeeps ==
    ASSUME RecoveryAssumption, RecoveryInv, Sets, SettingStep, RecordsStep,
           At("begin") \/ At("discovering"),
           Ends \/ (GoesOn /\ ~At("begin")' /\ ~At("discovering")'),
           NEW op \in {"recover", "ap_free_experiment", "pair"}, NEW port \in BOOLEAN,
           Dispatch(op, port), UNCHANGED <<agents, pidFile, tmpFile, slips>>
    PROVE  RecoveryInv'
<1>1. HelperInv' /\ Taken' = Taken
  BY TaskKeeps DEF RecoveryInv
<1>2. ~At("begin")' /\ ~At("discovering")'
  BY NothingLost DEF RecoveryInv, Ends, At
<1>3. /\ ScriptsInv' /\ script[task.n].at = "none" /\ script'[task.n].at = "probing"
      /\ \A m \in Starts \ {task.n} : script'[m] = script[m]
  BY <1>1, <1>2, DispatchKeeps DEF RecoveryInv
<1>4. Committed' = Committed
  BY <1>3 DEF Committed, Starting
<1>5. ExtrasRaced'
  BY <1>4, ExtrasStay DEF RecoveryInv
<1> QED
  BY <1>1, <1>3, <1>5, SettingKeeps, RecordsKeep DEF RecoveryInv

\* What is known of a task at a stage, and of the types that a step keeps.
LEMMA AtTask ==
    ASSUME RecoveryInv
    PROVE  /\ autoRestore \in BOOLEAN /\ adbWifi \in BOOLEAN /\ asked \in BOOLEAN
           /\ cut \in BOOLEAN /\ faults \in 0 .. MaxFaults /\ cancel \in BOOLEAN
           /\ \A stage : At(stage) => task # NoTask /\ task \in Tasks /\ task.at = stage
BY DEF RecoveryInv, HelperInv, HelperTyped, At

LEMMA EndTaskFrees == EndTask => ~At("pulsing")'
BY DEF EndTask, At

LEMMA TaskActionKeeps ==
    ASSUME RecoveryAssumption, RecoveryInv,
           Blocked \/ StopTask \/ disableWirelessDebugging \/ Enable \/ pairTermux \/ Settled
           \/ EndPulse
    PROVE  RecoveryInv'
<1>1. CASE Blocked \/ StopTask
  <2>1. At("begin") /\ EndTask /\ starts' = starts
    BY <1>1 DEF Blocked, StopTask
  <2>2. Ends /\ ~At("pulsing") /\ ~At("pulsing")'
    BY <2>1, AtTask, EndTaskFrees DEF Ends
  <2>3. Sets /\ SettingStep
    BY <1>1, <2>2, AtTask DEF Blocked, StopTask, Sets, SettingStep
  <2>4. RecordsStep /\ UNCHANGED termuxVars
    BY <1>1 DEF Blocked, StopTask, RecordsStep, proofVars
  <2> QED
    BY <2>2, <2>3, <2>4, TaskStepKeeps DEF TaskStep
<1>2. CASE disableWirelessDebugging
  <2>1. Ends /\ ~At("pulsing") /\ ~At("pulsing")'
    BY <1>2, AtTask, EndTaskFrees DEF disableWirelessDebugging, Ends
  <2>2. Sets /\ SettingStep
    BY <1>2, <2>1, AtTask DEF disableWirelessDebugging, Sets, SettingStep
  <2>3. RecordsStep /\ UNCHANGED termuxVars
    BY <1>2 DEF disableWirelessDebugging, RecordsStep
  <2> QED
    BY <2>1, <2>2, <2>3, TaskStepKeeps DEF TaskStep
<1>3. CASE Enable \/ pairTermux
  <2>1. At("begin") /\ Onward("discovering") /\ task # NoTask /\ task \in Tasks
    BY <1>3, AtTask DEF Enable, pairTermux
  <2>2. task' \in Tasks /\ task'.n = task.n /\ task'.at = "discovering"
    BY <2>1 DEF Onward, Tasks
  <2>3. GoesOn
    BY <1>3, <2>1, <2>2, AtTask DEF Enable, pairTermux, Onward, GoesOn
  <2>4. ~At("pulsing") /\ ~At("pulsing")'
    BY <2>1, <2>2 DEF At
  <2>5. Sets /\ SettingStep
    BY <1>3, <2>4, AtTask DEF Enable, pairTermux, Sets, SettingStep
  <2>6. RecordsStep /\ UNCHANGED termuxVars
    BY <1>3 DEF Enable, pairTermux, RecordsStep
  <2> QED
    BY <2>1, <2>3, <2>5, <2>6, TaskStepKeeps DEF TaskStep
<1>4. CASE Settled
  <2>1. Ends /\ ~At("pulsing") /\ ~At("pulsing")'
    BY <1>4, AtTask, EndTaskFrees DEF Settled, Ends
  <2>2. Sets /\ SettingStep
    BY <1>4, <2>1, AtTask DEF Settled, Sets, SettingStep
  <2>3. RecordsStep /\ UNCHANGED termuxVars
    BY <1>4 DEF Settled, RecordsStep
  <2> QED
    BY <2>1, <2>2, <2>3, TaskStepKeeps DEF TaskStep
<1>5. CASE EndPulse
  <2>1. Ends /\ At("pulsing") /\ task \in Tasks
    BY <1>5, AtTask DEF EndPulse, Ends
  <2>2. task' = NoTask /\ task.prior \in BOOLEAN
    BY <2>1 DEF Ends, EndTask, Tasks
  <2>3. Sets /\ SettingStep
    BY <1>5, <2>1, <2>2, AtTask DEF EndPulse, Sets, SettingStep
  <2>4. RecordsStep /\ UNCHANGED termuxVars
    BY <1>5 DEF EndPulse, RecordsStep
  <2> QED
    BY <2>1, <2>3, <2>4, TaskStepKeeps DEF TaskStep
<1> QED
  BY <1>1, <1>2, <1>3, <1>4, <1>5

LEMMA DiscoveryKeeps ==
    ASSUME RecoveryAssumption, RecoveryInv, discoverServicePort PROVE RecoveryInv'
<1>1. /\ At("discovering") /\ ~At("pulsing") /\ task # NoTask /\ task \in Tasks
      /\ task.port \in BOOLEAN
  BY AtTask DEF discoverServicePort, Tasks
<1>2. /\ UNCHANGED <<adbWifi, asked, cut>> /\ Sets /\ RecordsStep /\ UNCHANGED starts
      /\ UNCHANGED <<agents, pidFile, tmpFile, slips>>
  BY AtTask DEF discoverServicePort, Sets, RecordsStep
<1>3. EndTask => Ends /\ SettingStep
  BY <1>1, <1>2, EndTaskFrees DEF Ends, SettingStep
<1>4. ASSUME Onward("settling")
      PROVE  GoesOn /\ SettingStep /\ ~At("begin")' /\ ~At("discovering")'
  <2>1. task' \in Tasks /\ task'.n = task.n /\ task'.at = "settling"
    BY <1>1, <1>4 DEF Onward, Tasks
  <2>2. GoesOn
    BY <1>1, <1>2, <1>4, <2>1, AtTask DEF Onward, GoesOn
  <2> QED
    BY <1>1, <1>2, <2>1, <2>2 DEF SettingStep, At
<1>5. CASE EndTask /\ UNCHANGED script
  BY <1>2, <1>3, <1>5, TaskStepKeeps DEF TaskStep, termuxVars
<1>6. CASE Dispatch("recover", task.port) /\ Onward("settling")
  BY <1>1, <1>2, <1>4, <1>6, DispatchStepKeeps
<1>7. CASE Dispatch("pair", TRUE) /\ EndTask
  BY <1>1, <1>2, <1>3, <1>7, DispatchStepKeeps
<1>8. CASE Dispatch("ap_free_experiment", task.port) /\ EndTask
  BY <1>1, <1>2, <1>3, <1>8, DispatchStepKeeps
<1> QED
  BY <1>5, <1>6, <1>7, <1>8 DEF discoverServicePort

LEMMA BeginPulseKeeps == ASSUME RecoveryAssumption, RecoveryInv, BeginPulse PROVE RecoveryInv'
<1>1. At("begin") /\ ~At("pulsing") /\ task # NoTask /\ task \in Tasks
  BY AtTask DEF BeginPulse
<1>2. task' \in Tasks /\ task'.n = task.n /\ task'.at = "pulsing" /\ task'.prior = adbWifi
  BY <1>1, AtTask DEF BeginPulse, Tasks
<1>3. GoesOn /\ ~At("begin")' /\ ~At("discovering")'
  BY <1>1, <1>2 DEF BeginPulse, GoesOn, At
<1>4. Sets /\ SettingStep
  BY <1>1, <1>2, AtTask DEF BeginPulse, Sets, SettingStep
<1>5. RecordsStep
  BY DEF BeginPulse, RecordsStep
<1>6. Dispatch("ap_free_experiment", FALSE) /\ UNCHANGED <<agents, pidFile, tmpFile, slips>>
  BY DEF BeginPulse
<1> QED
  BY <1>1, <1>3, <1>4, <1>5, <1>6, DispatchStepKeeps

\* Steps that leave the requests alone, or only what discovery has found.
LEMMA CallbackKeeps ==
    ASSUME RecoveryAssumption, RecoveryInv,
           onServiceFound \/ onResolveFailed \/ onServiceResolved
    PROVE  RecoveryInv'
<1>1. At("discovering") /\ task # NoTask /\ task \in Tasks
  BY AtTask DEF onServiceFound, onResolveFailed, onServiceResolved
<1>2. PICK t \in Tasks : Callback(t) /\ t.n = task.n /\ t.at = task.at
  <2> DEFINE found(b) == [task EXCEPT !.resolving = b]
             resolved == [task EXCEPT !.port = TRUE]
  <2>1. /\ \A b \in BOOLEAN : found(b) \in Tasks /\ found(b).n = task.n /\ found(b).at = task.at
        /\ resolved \in Tasks /\ resolved.n = task.n /\ resolved.at = task.at
    BY <1>1 DEF Tasks
  <2>2. Callback(found(TRUE)) \/ Callback(found(FALSE)) \/ Callback(resolved)
    BY DEF onServiceFound, onResolveFailed, onServiceResolved
  <2> HIDE DEF found, resolved
  <2> QED
    BY <2>1, <2>2
<1>3. GoesOn /\ ~At("pulsing") /\ ~At("pulsing")'
  BY <1>1, <1>2, AtTask DEF Callback, GoesOn, At
<1>4. Sets /\ SettingStep /\ RecordsStep /\ UNCHANGED termuxVars
  BY <1>2, <1>3, AtTask DEF Callback, Sets, SettingStep, RecordsStep
<1> QED
  BY <1>1, <1>3, <1>4, TaskStepKeeps DEF TaskStep

LEMMA WorldKeeps ==
    ASSUME RecoveryAssumption, RecoveryInv, WritePulse \/ SystemReset \/ (QueryDropped /\ Query)
    PROVE  RecoveryInv'
<1>1. CASE WritePulse
  BY <1>1, AtTask, TaskStepKeeps
     DEF WritePulse, TaskStep, Idles, Sets, SettingStep, RecordsStep, helperVars
<1>2. CASE SystemReset
  BY <1>2, AtTask, TaskStepKeeps
     DEF SystemReset, TaskStep, Idles, Sets, SettingStep, RecordsStep, helperVars
<1>3. CASE QueryDropped /\ Query
  BY <1>3, AtTask, TaskStepKeeps
     DEF QueryDropped, Query, TaskStep, Idles, Sets, SettingStep, RecordsStep, helperVars
<1> QED
  BY <1>1, <1>2, <1>3

\* Steps that move the requests on without a task of their own.
LEMMA RequestKeeps ==
    ASSUME RecoveryAssumption, RecoveryInv,
           (\E a \in Requests : onStartCommand(a)) \/ Take \/ KillHelper
    PROVE  RecoveryInv'
<1>1. /\ HelperInv'
      /\ \/ UNCHANGED task /\ Taken' = Taken
         \/ task' = NoTask /\ Taken' >= Taken
         \/ Taken' = Taken + 1
  BY StartKeeps, TakeKeeps, KillKeeps DEF RecoveryInv, onStartCommand
<1>2. UNCHANGED termuxVars
  BY DEF onStartCommand, Take, KillHelper
<1>3. ScriptsInv'
  BY <1>1, <1>2, ScriptsRest DEF RecoveryInv, termuxVars
<1>4. ExtrasRaced'
  BY <1>2, ExtrasStay DEF RecoveryInv, termuxVars, Committed
<1>5. PulseRestores'
  <2>1. CASE \E a \in Requests : onStartCommand(a)
    BY <2>1, SettingKeeps DEF RecoveryInv, onStartCommand, SettingStep
  <2>2. CASE Take
    <3>1. ~At("pulsing") /\ ~At("pulsing")'
      BY <2>2 DEF Take, At
    <3> QED
      BY <2>2, <3>1, SettingKeeps DEF RecoveryInv, Take, SettingStep
  <2>3. CASE KillHelper
    BY <2>3, AtTask, SettingKeeps DEF RecoveryInv, KillHelper, SettingStep
  <2> QED
    BY <2>1, <2>2, <2>3
<1>6. RecordsStep
  BY DEF onStartCommand, Take, KillHelper, RecordsStep, proofVars
<1> QED
  BY <1>1, <1>3, <1>4, <1>5, <1>6, RecordsKeep DEF RecoveryInv

\* What a step of a script leaves alone.
LEMMA ScriptOnly ==
    ASSUME RecoveryAssumption, RecoveryInv,
           UNCHANGED <<helperVars, adbWifi, faults, asked, cut, fates>>
    PROVE  HelperInv' /\ PulseRestores' /\ UNCHANGED <<starts, queue, task>>
<1>1. Idles /\ Sets /\ SettingStep
  BY AtTask DEF helperVars, Idles, Sets, SettingStep
<1> QED
  BY <1>1, TaskKeeps, SettingKeeps DEF RecoveryInv, helperVars

\* A script that neither becomes committed nor ceases to be.
LEMMA PlainScriptStep ==
    ASSUME RecoveryAssumption, RecoveryInv, NEW n \in Starts, NEW s \in Scripts,
           Script(n, s), UNCHANGED <<agents, pidFile, slips>>, tmpFile' \in BOOLEAN,
           script[n].at # "none", s.at # "none", script[n].at \notin Unstarted \/ n \notin agents,
           script[n].at \in Starting <=> s.at \in Starting,
           script[n].at \notin Unstarted => s.at \notin Unstarted
    PROVE  RecoveryInv'
<1>1. HelperInv' /\ PulseRestores' /\ UNCHANGED <<starts, queue, task>>
  BY ScriptOnly DEF Script
<1>2. script' = [script EXCEPT ![n] = s]
  BY DEF Script
<1>3. ScriptsInv'
  BY <1>1, <1>2, ScriptKeeps DEF RecoveryInv, ScriptsInv, ScriptsTyped
<1>4. Committed' = Committed
  BY <1>2 DEF RecoveryInv, ScriptsInv, ScriptsTyped, Committed
<1>5. ExtrasRaced'
  BY <1>4, ExtrasStay DEF RecoveryInv
<1>6. RecordsInv'
  BY RecordsKeep DEF RecoveryInv, Script, RecordsStep
<1> QED
  BY <1>1, <1>3, <1>5, <1>6 DEF RecoveryInv

\* What is known of a script and its agent.
LEMMA ScriptFacts ==
    ASSUME RecoveryInv, NEW n \in Starts
    PROVE  /\ script[n] \in Scripts /\ tmpFile \in BOOLEAN /\ slips \in Nat
           /\ agents \subseteq Starts /\ pidFile \in Starts \cup {NoPid}
           /\ script[n].at \notin Unstarted \/ n \notin agents
BY DEF RecoveryInv, ScriptsInv, ScriptsTyped, AgentsStarted

LEMMA PlainScriptsKeep ==
    ASSUME RecoveryAssumption, RecoveryInv, NEW n \in Starts,
           \/ Pair(n) \/ Probe(n) \/ WriteConfig(n) \/ Report(n) \/ HoldAgent(n) \/ WaitAgent(n)
           \/ ReplaceConfig(n) /\ tmpFile
           \/ CheckAgent(n) /\ script'[n].at = "reporting"
    PROVE  RecoveryInv'
<1>1. PICK s \in Scripts :
         /\ Script(n, s) /\ UNCHANGED <<agents, pidFile, slips>> /\ tmpFile' \in BOOLEAN
         /\ script[n].at # "none" /\ s.at # "none"
         /\ script[n].at \in Starting <=> s.at \in Starting
         /\ script[n].at \notin Unstarted => s.at \notin Unstarted
  <2> USE ScriptFacts DEF Starting, Unstarted
  <2>1. CASE Pair(n)
    BY <2>1 DEF Pair, Scripts, ScriptStages, Modes
  <2>2. CASE Probe(n)
    <3>1. PICK ok \in BOOLEAN, mode \in PortSources(script[n]) :
            Script(n, [script[n] EXCEPT !.ok = ok, !.mode = mode,
                         !.at = IF ok /\ script[n].op = "recover" THEN "checking"
                                                                  ELSE "reporting"])
      BY <2>2 DEF Probe
    <3>2. mode \in Modes
      BY DEF PortSources, Modes
    <3> DEFINE s == [script[n] EXCEPT !.ok = ok, !.mode = mode,
                       !.at = IF ok /\ script[n].op = "recover" THEN "checking"
                                                                ELSE "reporting"]
    <3>3. s \in Scripts /\ s.at \in {"checking", "reporting"}
      BY <3>2 DEF Scripts, ScriptStages
    <3>4. Script(n, s) /\ script[n].at = "probing" /\ UNCHANGED <<agents, pidFile, tmpFile, slips>>
      BY <2>2, <3>1 DEF Probe
    <3> HIDE DEF s
    <3> QED
      BY <3>3, <3>4
  <2>3. CASE WriteConfig(n)
    BY <2>3 DEF WriteConfig, Scripts, ScriptStages
  <2>4. CASE Report(n)
    <3> DEFINE told == [script[n] EXCEPT !.output = TRUE,
                          !.at = IF script[n].started THEN "holding" ELSE "ended"]
               failed == [script[n] EXCEPT !.at = "ended"]
    <3>1. /\ told \in Scripts /\ told.at \in {"holding", "ended"}
          /\ failed \in Scripts /\ failed.at = "ended"
      BY DEF Scripts, ScriptStages
    <3>2. /\ Script(n, told) \/ Script(n, failed)
          /\ script[n].at = "reporting" /\ UNCHANGED <<agents, pidFile, tmpFile, slips>>
      BY <2>4 DEF Report
    <3> HIDE DEF told, failed
    <3> QED
      BY <3>1, <3>2
  <2>5. CASE HoldAgent(n) \/ WaitAgent(n)
    BY <2>5 DEF HoldAgent, WaitAgent, Scripts, ScriptStages
  <2>6. CASE ReplaceConfig(n) /\ tmpFile
    BY <2>6 DEF ReplaceConfig, Scripts, ScriptStages
  <2>7. CASE CheckAgent(n) /\ script'[n].at = "reporting"
    <3> DEFINE s == [script[n] EXCEPT !.at = "reporting"]
    <3>1. s \in Scripts /\ s.at = "reporting"
      BY DEF Scripts, ScriptStages
    <3>2. [script[n] EXCEPT !.at = "writing"].at = "writing"
      BY DEF Scripts
    <3>3. Script(n, s) /\ script[n].at = "checking" /\ UNCHANGED <<agents, pidFile, tmpFile, slips>>
      BY <2>7, <3>2 DEF CheckAgent, Script, ScriptsInv, ScriptsTyped, RecoveryInv
    <3> HIDE DEF s
    <3> QED
      BY <3>1, <3>3
  <2> QED
    BY <2>1, <2>2, <2>3, <2>4, <2>5, <2>6, <2>7
<1> QED
  BY <1>1, ScriptFacts, PlainScriptStep

\* The steps of starting an agent.
LEMMA CheckKeeps ==
    ASSUME RecoveryAssumption, RecoveryInv, NEW n \in Starts, CheckAgent(n),
           script'[n].at # "reporting"
    PROVE  RecoveryInv'
<1> DEFINE s == [script[n] EXCEPT !.at = "writing"]
<1>1. s \in Scripts /\ s.at = "writing" /\ [script[n] EXCEPT !.at = "reporting"].at = "reporting"
  <2>1. script[n] \in Scripts
    BY ScriptFacts
  <2> QED
    BY <2>1 DEF Scripts, ScriptStages, Starting
<1>2. /\ script[n].at = "checking" /\ ~process_is_alive /\ Script(n, s)
      /\ slips' = slips + (IF \E m \in Starts \ {n} : script[m].at \in Starting THEN 1 ELSE 0)
      /\ UNCHANGED <<agents, pidFile, tmpFile>>
  BY <1>1 DEF CheckAgent, Script, RecoveryInv, ScriptsInv, ScriptsTyped
<1> HIDE DEF s
<1>3. HelperInv' /\ PulseRestores' /\ UNCHANGED <<starts, queue, task>>
  BY <1>2, ScriptOnly DEF Script
<1>4. n \notin Committed /\ (Committed # {} <=> \E m \in Starts \ {n} : script[m].at \in Starting)
  BY <1>2 DEF Committed, Starting
<1>5. Committed' = Committed \cup {n}
  BY <1>1, <1>2 DEF Committed, Starting, Script, RecoveryInv, ScriptsInv, ScriptsTyped
<1>6. ScriptsInv'
  <2>1. n \notin agents /\ slips' \in Nat /\ script[n].at # "none" /\ s.at # "none"
    BY <1>1, <1>2, ScriptFacts DEF Unstarted
  <2>2. script' = [script EXCEPT ![n] = s]
    BY <1>2 DEF Script
  <2> QED
    BY <1>1, <1>2, <1>3, <2>1, <2>2, ScriptFacts, ScriptKeeps DEF RecoveryInv
<1>7. ExtrasRaced'
  BY <1>2, <1>4, <1>5, ExtrasCheck DEF RecoveryInv, process_is_alive
<1>8. RecordsInv'
  BY <1>2, RecordsKeep DEF RecoveryInv, Script, RecordsStep
<1> QED
  BY <1>3, <1>6, <1>7, <1>8 DEF RecoveryInv

LEMMA StartingKeeps ==
    ASSUME RecoveryAssumption, RecoveryInv, NEW n \in Starts,
           SpawnAgent(n) \/ RecordPid(n) \/ (ReplaceConfig(n) /\ ~tmpFile)
    PROVE  RecoveryInv'
<1> DEFINE stage == IF SpawnAgent(n) THEN "recording"
                    ELSE IF RecordPid(n) THEN "reporting" ELSE "ended"
<1>1. PICK s \in Scripts : Script(n, s) /\ s.at = stage
  <2>1. CASE SpawnAgent(n)
    <3> DEFINE s == [script[n] EXCEPT !.at = "recording", !.started = TRUE]
    <3>1. script[n] \in Scripts
      BY ScriptFacts
    <3>2. s \in Scripts /\ s.at = "recording"
      BY <3>1 DEF Scripts, ScriptStages, Starting
    <3>3. Script(n, s)
      BY <2>1 DEF SpawnAgent
    <3> QED
      BY <2>1, <3>2, <3>3
  <2>2. CASE ~SpawnAgent(n) /\ RecordPid(n)
    <3> DEFINE s == [script[n] EXCEPT !.at = "reporting"]
    <3>1. script[n] \in Scripts
      BY ScriptFacts
    <3>2. s \in Scripts /\ s.at = "reporting"
      BY <3>1 DEF Scripts, ScriptStages, Starting
    <3>3. Script(n, s)
      BY <2>2 DEF RecordPid
    <3> QED
      BY <2>2, <3>2, <3>3
  <2>3. CASE ~SpawnAgent(n) /\ ~RecordPid(n) /\ ReplaceConfig(n) /\ ~tmpFile
    <3> DEFINE s == [script[n] EXCEPT !.at = "ended"]
    <3>1. script[n] \in Scripts
      BY ScriptFacts
    <3>2. s \in Scripts /\ s.at = "ended"
      BY <3>1 DEF Scripts, ScriptStages, Starting
    <3>3. Script(n, s)
      BY <2>3 DEF ReplaceConfig
    <3> QED
      BY <2>3, <3>2, <3>3
  <2> QED
    BY <2>1, <2>2, <2>3
<1>2. /\ script[n].at \in Starting /\ slips' = slips /\ tmpFile' \in BOOLEAN
      /\ SpawnAgent(n) => agents' = agents \cup {n} /\ pidFile' = pidFile
      /\ ~SpawnAgent(n) => agents' = agents
      /\ ~SpawnAgent(n) /\ RecordPid(n) => pidFile' = n /\ script[n].at = "recording"
      /\ ~SpawnAgent(n) /\ ~RecordPid(n) => pidFile' = pidFile /\ script[n].at = "replacing"
  BY ScriptFacts DEF SpawnAgent, RecordPid, ReplaceConfig, Starting
<1> HIDE DEF stage
<1>3. HelperInv' /\ PulseRestores' /\ UNCHANGED <<starts, queue, task>>
  BY <1>1, ScriptOnly DEF Script
<1>4. script' = [script EXCEPT ![n] = s] /\ s.at # "none" /\ script[n].at # "none"
  BY <1>1, <1>2 DEF Script, stage, Starting
<1>5. n \notin agents \/ s.at \notin Unstarted
  BY <1>1, <1>2, ScriptFacts DEF stage, Unstarted
<1>6. n \in agents' => s.at \notin Unstarted
  BY <1>1, <1>2, <1>5 DEF stage, Unstarted
<1>7. ScriptsInv'
  BY <1>2, <1>3, <1>4, <1>6, ScriptFacts, ScriptKeeps DEF RecoveryInv
<1>8. ExtrasRaced'
  <2>1. n \in Committed
    BY <1>2 DEF Committed
  <2>2. CASE SpawnAgent(n)
    <3>1. Committed' = Committed
      BY <1>1, <1>2, <1>4, <2>2 DEF Committed, Starting, stage, RecoveryInv, ScriptsInv, ScriptsTyped
    <3> QED
      BY <1>2, <2>1, <2>2, <3>1, ExtrasSpawn DEF RecoveryInv
  <2>3. CASE ~SpawnAgent(n)
    <3>1. Committed' = Committed \ {n}
      BY <1>1, <1>2, <1>4, <2>3 DEF Committed, Starting, stage, RecoveryInv, ScriptsInv, ScriptsTyped
    <3>2. pidFile' = n \/ n \notin agents
      BY <1>2, <2>3, ScriptFacts DEF Unstarted
    <3> QED
      BY <1>2, <2>1, <2>3, <3>1, <3>2, ExtrasSettle DEF RecoveryInv
  <2> QED
    BY <2>2, <2>3
<1>9. RecordsInv'
  BY <1>1, RecordsKeep DEF RecoveryInv, Script, RecordsStep
<1> QED
  BY <1>3, <1>7, <1>8, <1>9 DEF RecoveryInv

\* The result of a script is recorded, and the script is gone.
LEMMA RecordingKeeps ==
    ASSUME RecoveryAssumption, RecoveryInv, NEW n \in Starts, NEW now \in Nat,
           onHandleIntent(n, now)
    PROVE  RecoveryInv'
<1>1. /\ script[n].at = "ended" /\ script' = [script EXCEPT ![n] = Gone]
      /\ UNCHANGED <<helperVars, query, adbWifi, agents, pidFile, tmpFile, slips, faults,
                     asked, cut, fates>>
  BY DEF onHandleIntent
<1>2. Gone \in Scripts /\ Gone.at = "gone"
  BY DEF Gone, NoScript, Scripts, ScriptStages, Modes
<1>3. HelperInv' /\ PulseRestores' /\ UNCHANGED <<starts, queue, task>>
  BY <1>1, ScriptOnly
<1>4. ScriptsInv'
  BY <1>1, <1>2, <1>3, ScriptFacts, ScriptKeeps DEF RecoveryInv, Unstarted
<1>5. Committed' = Committed
  BY <1>1, <1>2 DEF Committed, Starting, RecoveryInv, ScriptsInv, ScriptsTyped
<1>6. ExtrasRaced'
  BY <1>1, <1>5, ExtrasStay DEF RecoveryInv
<1>7. RecordsInv'
  BY ResultKeeps DEF RecoveryInv, ScriptsInv, ScriptsTyped
<1> QED
  BY <1>3, <1>4, <1>6, <1>7 DEF RecoveryInv

\* Agents and scripts die.
LEMMA DeathKeeps ==
    ASSUME RecoveryAssumption, RecoveryInv, AgentDies \/ KillTermux PROVE RecoveryInv'
<1>1. HelperInv' /\ PulseRestores' /\ UNCHANGED <<starts, queue, task>>
  <2>1. Idles /\ Sets /\ SettingStep
    BY AtTask DEF AgentDies, KillTermux, helperVars, Idles, Sets, SettingStep, RecoveryInv,
                  HelperInv, HelperTyped, RecoveryAssumption
  <2> QED
    BY <2>1, TaskKeeps, SettingKeeps DEF RecoveryInv, Idles
<1>2. RecordsInv'
  BY RecordsKeep DEF RecoveryInv, AgentDies, KillTermux, RecordsStep
<1>3. CASE AgentDies
  <2>1. agents' \subseteq agents /\ UNCHANGED <<script, pidFile, tmpFile, slips>>
    BY <1>3 DEF AgentDies
  <2>2. ScriptsInv'
    BY <1>1, <2>1 DEF RecoveryInv, ScriptsInv, ScriptsTyped, ScriptsInOrder, AgentsStarted, At, Taken
  <2>3. ExtrasRaced'
    BY <2>1, ExtrasStay DEF RecoveryInv, Committed
  <2> QED
    BY <1>1, <1>2, <2>2, <2>3 DEF RecoveryInv
<1>4. CASE KillTermux
  <2>1. /\ agents' = {} /\ UNCHANGED <<pidFile, tmpFile, slips>>
        /\ script' = [n \in Starts |-> IF script[n].at = "none" THEN script[n] ELSE Gone]
    BY <1>4 DEF KillTermux
  <2>2. Gone \in Scripts /\ Gone.at = "gone"
    BY DEF Gone, NoScript, Scripts, ScriptStages, Modes
  <2>3. ScriptsInv'
    BY <1>1, <2>1, <2>2 DEF RecoveryInv, ScriptsInv, ScriptsTyped, ScriptsInOrder, AgentsStarted,
                            At, Taken
  <2>4. Committed' = {} /\ agents' \ {pidFile}' = {}
    BY <2>1, <2>2 DEF Committed, Starting
  <2>5. ExtrasRaced'
    BY <2>1, <2>4, FS_EmptySet DEF RecoveryInv, ScriptsInv, ScriptsTyped, ExtrasRaced
  <2> QED
    BY <1>1, <1>2, <2>3, <2>5 DEF RecoveryInv
<1> QED
  BY <1>3, <1>4

LEMMA ScriptDeathKeeps ==
    ASSUME RecoveryAssumption, RecoveryInv, NEW n \in Starts, ScriptDies(n) PROVE RecoveryInv'
<1>1. HelperInv' /\ PulseRestores' /\ UNCHANGED <<starts, queue, task>>
  <2>1. Idles /\ Sets /\ SettingStep
    BY AtTask DEF ScriptDies, helperVars, Idles, Sets, SettingStep, RecoveryInv,
                  HelperInv, HelperTyped, RecoveryAssumption
  <2> QED
    BY <2>1, TaskKeeps, SettingKeeps DEF RecoveryInv, Idles
<1>2. RecordsInv'
  BY RecordsKeep DEF RecoveryInv, ScriptDies, RecordsStep
<1> DEFINE s == [script[n] EXCEPT !.at = "ended"]
<1>3. /\ s \in Scripts /\ s.at = "ended" /\ script' = [script EXCEPT ![n] = s]
      /\ script[n].at \notin {"none", "ended"} /\ UNCHANGED <<agents, pidFile, tmpFile>>
      /\ slips' = slips + (IF script[n].at = "recording" THEN 1 ELSE 0)
  BY ScriptFacts DEF ScriptDies, Scripts, ScriptStages
<1> HIDE DEF s
<1>4. ScriptsInv'
  <2>1. n \in agents => s.at \notin Unstarted
    BY <1>3 DEF Unstarted
  <2>2. slips' \in Nat
    BY <1>3, ScriptFacts
  <2> QED
    BY <1>1, <1>3, <2>1, <2>2, ScriptFacts, ScriptKeeps DEF RecoveryInv
<1>5. ExtrasRaced'
  <2>1. CASE script[n].at \notin Starting
    <3>1. Committed' = Committed /\ slips' = slips
      BY <1>3, <2>1, ScriptFacts DEF Committed, Starting, RecoveryInv, ScriptsInv, ScriptsTyped
    <3> QED
      BY <1>3, <3>1, ExtrasStay DEF RecoveryInv
  <2>2. CASE script[n].at \in Starting
    <3>1. n \in Committed /\ Committed' = Committed \ {n}
      BY <1>3, <2>2 DEF Committed, Starting, RecoveryInv, ScriptsInv, ScriptsTyped
    <3>2. CASE script[n].at = "recording"
      BY <1>3, <3>1, <3>2, ExtrasLost DEF RecoveryInv
    <3>3. CASE script[n].at # "recording"
      <4>1. n \notin agents /\ slips' = slips
        BY <1>3, <2>2, <3>3, ScriptFacts DEF Starting, Unstarted
      <4> QED
        BY <1>3, <3>1, <4>1, ExtrasSettle DEF RecoveryInv
    <3> QED
      BY <3>2, <3>3
  <2> QED
    BY <2>1, <2>2
<1> QED
  BY <1>1, <1>2, <1>4, <1>5 DEF RecoveryInv

LEMMA ReadingKeeps ==
    ASSUME RecoveryAssumption, RecoveryInv, Query, QueryStep PROVE RecoveryInv'
<1>1. /\ UNCHANGED <<helperVars, prefs, proofs, adbWifi, termuxVars, faults, asked, cut, fates>>
      /\ UNCHANGED <<prefs, proofs>>
  BY DEF Query
<1>2. HelperInv' /\ PulseRestores' /\ UNCHANGED <<starts, queue, task>>
  BY <1>1, ScriptOnly
<1>3. RecordsInv'
  BY <1>1, QueryKeeps DEF RecoveryInv
<1>4. ScriptsInv'
  BY <1>1, <1>2 DEF RecoveryInv, termuxVars, ScriptsInv, ScriptsTyped, ScriptsInOrder,
                    AgentsStarted, At, Taken
<1>5. ExtrasRaced'
  BY <1>1, ExtrasStay DEF RecoveryInv, termuxVars, Committed
<1> QED
  BY <1>2, <1>3, <1>4, <1>5 DEF RecoveryInv

---------------------------------------------------------------------------
(* The theorems.                                                           *)

LEMMA RecoveryStarts == ASSUME RecoveryAssumption, Init PROVE RecoveryInv
<1>1. HelperInv
  <2>1. queue \in Seq([n : Starts, action : Actions]) /\ Len(queue) = 0
    BY DEF Init
  <2>2. 0 \in 0 .. MaxStarts /\ 0 \in 0 .. MaxFaults
    BY DEF RecoveryAssumption
  <2>3. /\ starts = 0 /\ task = NoTask /\ cancel = FALSE /\ autoRestore = FALSE
        /\ adbWifi \in BOOLEAN /\ asked = adbWifi /\ cut = FALSE /\ faults = 0
        /\ fates = [n \in Starts |-> "none"]
    BY DEF Init
  <2>4. HelperTyped
    BY <2>1, <2>2, <2>3 DEF HelperTyped
  <2> QED
    BY <2>1, <2>3, <2>4 DEF HelperInv, QueueInOrder
<1>2. PulseRestores
  BY DEF Init, PulseRestores, At
<1>3. RecordsInv
  <2>1. Idle \in [read : 0 .. Len(Fields) - 1, row : Rows, served : BOOLEAN] /\ NoResult \in Rows
    BY DEF Idle, NoResult, Rows, Digests, States, Modes, Fields
  <2>2. /\ prefs = NoResult /\ NoResult.digest = NoDigest
        /\ query = Idle /\ query.row.digest = NoDigest /\ ~query.served
    BY DEF Init, Idle, NoResult
  <2>3. Recorded(NoDigest)
    BY RecoveryAssumption DEF Recorded, Digest
  <2> QED
    BY <2>1, <2>2, <2>3 DEF RecordsInv
<1>4. NoScript \in Scripts /\ NoScript.at = "none"
  BY DEF NoScript, Scripts, ScriptStages, Modes
<1>5. ScriptsInv
  BY <1>4 DEF Init, ScriptsInv, ScriptsTyped, ScriptsInOrder, AgentsStarted
<1>6. Committed = {} /\ agents \ {pidFile} = {}
  BY <1>4 DEF Init, Committed, Starting
<1>7. ExtrasRaced
  BY <1>6, FS_EmptySet DEF Init, ExtrasRaced
<1> QED
  BY <1>1, <1>2, <1>3, <1>5, <1>7 DEF RecoveryInv

LEMMA RecoveryStep ==
    ASSUME RecoveryAssumption, RecoveryInv, [Next]_vars PROVE RecoveryInv'
<1>1. CASE (\E a \in Requests : onStartCommand(a)) \/ Take \/ KillHelper
  BY <1>1, RequestKeeps
<1>2. CASE Blocked \/ StopTask \/ disableWirelessDebugging \/ Enable \/ pairTermux \/ Settled
           \/ EndPulse
  BY <1>2, TaskActionKeeps
<1>3. CASE discoverServicePort \/ BeginPulse
  BY <1>3, DiscoveryKeeps, BeginPulseKeeps
<1>4. CASE onServiceFound \/ onResolveFailed \/ onServiceResolved
  BY <1>4, CallbackKeeps
<1>5. CASE WritePulse \/ SystemReset \/ Query
  <2>1. Query => QueryStep \/ QueryDropped
    BY DEF Query
  <2>2. CASE WritePulse \/ SystemReset
    BY <2>2, WorldKeeps
  <2>3. CASE Query /\ QueryDropped
    BY <2>3, WorldKeeps
  <2>4. CASE Query /\ QueryStep
    BY <2>4, ReadingKeeps
  <2> QED
    BY <1>5, <2>1, <2>2, <2>3, <2>4
<1>6. ASSUME NEW n \in Starts, ScriptStep(n) PROVE RecoveryInv'
  <2>1. CASE \/ Pair(n) \/ Probe(n) \/ WriteConfig(n) \/ Report(n) \/ HoldAgent(n) \/ WaitAgent(n)
             \/ ReplaceConfig(n) /\ tmpFile
             \/ CheckAgent(n) /\ script'[n].at = "reporting"
    BY <2>1, PlainScriptsKeep
  <2>2. CASE CheckAgent(n) /\ script'[n].at # "reporting"
    BY <2>2, CheckKeeps
  <2>3. CASE SpawnAgent(n) \/ RecordPid(n) \/ (ReplaceConfig(n) /\ ~tmpFile)
    BY <2>3, StartingKeeps
  <2> QED
    BY <1>6, <2>1, <2>2, <2>3 DEF ScriptStep
<1>7. ASSUME NEW n \in Starts, onHandleIntent(n, prefs.at) \/ onHandleIntent(n, prefs.at + 1)
      PROVE  RecoveryInv'
  <2>1. prefs.at \in Nat /\ prefs.at + 1 \in Nat
    BY DEF RecoveryInv, RecordsInv, Rows
  <2> QED
    BY <1>7, <2>1, RecordingKeeps
<1>8. CASE AgentDies \/ KillTermux
  BY <1>8, DeathKeeps
<1>10. ASSUME NEW n \in Starts, ScriptDies(n) PROVE RecoveryInv'
  BY <1>10, ScriptDeathKeeps
<1>9. CASE UNCHANGED vars
  <2>1. Idles /\ Sets /\ SettingStep /\ RecordsStep /\ UNCHANGED termuxVars
    BY <1>9, AtTask DEF vars, helperVars, termuxVars, proofVars, Idles, Sets, SettingStep, RecordsStep
  <2> QED
    BY <2>1, TaskStepKeeps DEF TaskStep
<1> QED
  BY <1>1, <1>2, <1>3, <1>4, <1>5, <1>6, <1>7, <1>8, <1>9, <1>10 DEF Next, Executor

\* The invariant of the helper, its scripts and its records.
THEOREM RecoveryInductive == Spec => []RecoveryInv
<1>1. RecoveryAssumption
  BY RecoveryAssumption
<1> QED
  BY <1>1, RecoveryStarts, RecoveryStep, PTL DEF Spec

\* Types, and that no request is lost when the service stops itself between two
\* requests: stopSelf takes the number of the task, and requests are taken in order.
THEOREM RecoveryTypes == Spec => []TypeOK
<1>1. RecoveryInv => TypeOK
  BY DEF RecoveryInv, HelperInv, HelperTyped, ScriptsInv, ScriptsTyped, RecordsInv, Rows, TypeOK
<1> QED
  BY <1>1, RecoveryInductive, PTL

\* LoopbackAdbProofProvider reads the preferences one by one; what it serves is
\* one result that RecoveryResultService recorded.
THEOREM ServedRecord == Spec => []ServedIsOneRecord
<1>1. RecoveryInv => ServedIsOneRecord
  BY DEF RecoveryInv, RecordsInv, Recorded, Rows, Matches, ServedIsOneRecord
<1> QED
  BY <1>1, RecoveryInductive, PTL

\* A pulse puts the setting back to what the last request made of it.
THEOREM PulseLeavesNothingOn == Spec => []NothingLeftOn
<1>1. RecoveryInv => NothingLeftOn
  BY DEF RecoveryInv, PulseRestores, NothingLeftOn
<1> QED
  BY <1>1, RecoveryInductive, PTL

\* start_fleet_agent starts a second agent only in a race of two scripts.
THEOREM ExtraAgentsRaced == Spec => []OneAgentUnlessRaced
<1>1. RecoveryInv => OneAgentUnlessRaced
  BY RecoveryAssumption, ExtrasBound DEF RecoveryInv
<1> QED
  BY <1>1, RecoveryInductive, PTL
=============================================================================
