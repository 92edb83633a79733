--------------------------- MODULE RecoveryHelper ---------------------------
(***************************************************************************)
(* The wireless ADB recovery helper of a headset: the service that works   *)
(* through its start requests on one executor thread, the commands it      *)
(* sends to Termux, the recovery script that probes for a shell and starts *)
(* the fleet agent, the service that records the script's result, and the  *)
(* provider that hands the latest result to another app as a proof.        *)
(*                                                                         *)
(* The executor, every script, the result service and a query of the       *)
(* provider run side by side.  A start request has a number, as Android    *)
(* counts them; a request starts at most one script, so the script has the *)
(* number too, and so has the agent that the script starts (its pid).      *)
(*                                                                         *)
(* The Termux host, Android's setting and the proof's clock are modelled   *)
(* from how the code uses them.  Texts of notifications and states are     *)
(* left out: of the recorded states only "tls_shell_available" matters.    *)
(***************************************************************************)
EXTENDS Naturals, Sequences, FiniteSets

CONSTANTS Requests,     \* the actions that may be requested, see Actions
          MaxStarts,    \* bound: start requests
          MaxFaults,    \* bound: deaths of the helper and of Termux
          NoTask, NoPid, NoDigest

Actions == {"arm", "restore", "boot", "disable", "pair", "pulse", "stop", "control"}
Starts  == 1 .. MaxStarts
Modes == {"tls_nsd", "tls_mdns", "tls_property", "tls_pairing_nsd", "not_proven"}

ASSUME RecoveryAssumption ==
  /\ Requests \subseteq Actions
  /\ MaxStarts \in Nat /\ MaxFaults \in Nat
  /\ NoPid \notin Starts
  /\ NoDigest \notin Nat \X Nat \X Modes   \* it is the empty text, which is no hash

VARIABLES
  \* the helper app
  starts,        \* start requests so far; the number of the latest one
  queue,         \* the executor's queue of requests: number and action
  task,          \* what the executor is doing, or NoTask
  cancel,        \* pulseCancelRequested
  autoRestore,   \* KEY_AUTO_RESTORE
  prefs,         \* the preferences that the result service writes
  query,         \* a query of the provider: how much it has read, and what
  \* Android and Termux
  adbWifi,       \* the setting adb_wifi_enabled
  script,        \* script[n]: the script that request n started
  agents,        \* the fleet agents alive, by pid
  pidFile,       \* agent-helper.pid
  tmpFile,       \* whether config.tls-runtime.json.tmp exists
  faults,
  \* histories
  asked,         \* whether Wireless Debugging is on because a request turned it on
  cut,           \* whether a pulse was cut short by the death of the helper
  slips,         \* checks of the pid file made while another script was past its
                 \* own, and agents whose pid was not written (history)
  proofs,        \* the results that were recorded as available
  fates          \* what became of each request: waiting, handled, killed or lost

helperVars == <<starts, queue, task, cancel, autoRestore>>
termuxVars == <<script, agents, pidFile, tmpFile, slips>>
proofVars  == <<prefs, query, proofs>>
vars == <<helperVars, proofVars, adbWifi, termuxVars, faults, asked, cut, fates>>

---------------------------------------------------------------------------
(* Values.                                                                 *)

Modern == {"tls_nsd", "tls_mdns"}
States == {"tls_shell_available", "other"}

Tasks == [n : Starts, action : Actions,
          at : {"begin", "discovering", "settling", "pulsing"},
          port : BOOLEAN, resolving : BOOLEAN, prior : BOOLEAN]

\* The stages of a script between its check of the pid file and its writing of it.
Starting == {"writing", "replacing", "spawning", "recording"}
ScriptStages == Starting \cup {"none", "probing", "checking", "reporting", "holding",
                               "waiting", "ended", "gone"}
Scripts == [op : {"recover", "ap_free_experiment", "pair"}, at : ScriptStages,
            mode : Modes, ok : BOOLEAN, started : BOOLEAN, output : BOOLEAN]
NoScript == [op |-> "recover", at |-> "none", mode |-> "not_proven", ok |-> FALSE,
             started |-> FALSE, output |-> FALSE]
Gone == [NoScript EXCEPT !.at = "gone"]

\* What the provider reads, in the order of its reads.
Fields == <<"revision", "at", "state", "mode", "uid", "digest">>

Digest(revision, at, mode) == <<revision, at, mode>>

NoResult == [revision |-> 0, at |-> 0, state |-> "other", mode |-> "not_proven",
             uid |-> FALSE, digest |-> NoDigest]
Idle == [read |-> 0, row |-> NoResult, served |-> FALSE]

Init ==
  /\ starts = 0 /\ queue = <<>>
  /\ task = NoTask /\ cancel = FALSE /\ autoRestore = FALSE
  /\ prefs = NoResult /\ query = Idle /\ proofs = {}
  /\ adbWifi \in BOOLEAN /\ asked = adbWifi /\ cut = FALSE
  /\ script = [n \in Starts |-> NoScript]
  /\ agents = {} /\ pidFile = NoPid /\ tmpFile = FALSE /\ slips = 0
  /\ faults = 0
  /\ fates = [n \in Starts |-> "none"]

\* recordState: any state but a result's.
RecordState == prefs' = [prefs EXCEPT !.state = "other"]

---------------------------------------------------------------------------
(* The service.  onStartCommand runs on the main thread.                   *)

onStartCommand(a) ==
  LET n == starts + 1 IN
  /\ a \in Requests /\ starts < MaxStarts
  /\ starts' = n
  /\ queue' = Append(queue, [n |-> n, action |-> a])
  /\ fates' = [fates EXCEPT ![n] = "waiting"]
  /\ IF a = "stop" THEN cancel' = TRUE /\ RecordState ELSE UNCHANGED <<cancel, prefs>>
  /\ UNCHANGED <<task, autoRestore, query, proofs, adbWifi, termuxVars, faults,
                 asked, cut>>

\* With a bug: the service stops itself whatever has come meanwhile.
StopSelfAtOnce(n) == queue' = <<>> /\ cancel' = FALSE

\* stopSelf(startId): Android destroys the service if no later request came.
\* onDestroy shuts the executor down; what still waits in it never runs.  The
\* service that a later request creates has a cancel flag of its own.
StopSelf(n) == IF n = starts THEN queue' = <<>> /\ cancel' = FALSE
                             ELSE UNCHANGED <<queue, cancel>>

\* The end of handleAction, its finally clause.
EndTask ==
  /\ task' = NoTask
  /\ StopSelf(task.n)
  /\ fates' = [n \in Starts |-> IF n = task.n THEN "handled"
                                ELSE IF fates[n] = "waiting" /\ queue' # queue THEN "lost"
                                ELSE fates[n]]

\* The executor goes on with its task.
At(stage) == task # NoTask /\ task.at = stage
Kind == task.action
Onward(stage) == task' = [task EXCEPT !.at = stage, !.port = FALSE, !.resolving = FALSE]
                  /\ UNCHANGED <<queue, cancel, fates>>

Take ==
  /\ task = NoTask /\ queue # <<>>
  /\ task' = [n |-> Head(queue).n, action |-> Head(queue).action, at |-> "begin",
              port |-> FALSE, resolving |-> FALSE, prior |-> FALSE]
  /\ queue' = Tail(queue)
  /\ UNCHANGED <<starts, cancel, autoRestore, proofVars, adbWifi, termuxVars,
                 faults, asked, cut, fates>>

\* The task stops short: a permission is missing, the pairing code is invalid,
\* automatic recovery or Wireless Debugging is off at boot, the script cannot be
\* read.  A disable that may not write the setting has cleared autoRestore.
Blocked ==
  /\ At("begin") /\ Kind # "stop"
  /\ RecordState
  /\ autoRestore' = IF Kind = "disable" THEN FALSE ELSE autoRestore \/ Kind = "arm"
  /\ EndTask
  /\ UNCHANGED <<starts, query, proofs, adbWifi, termuxVars, faults, asked, cut>>

\* A stop has done its work on the main thread.
StopTask ==
  /\ At("begin") /\ Kind = "stop"
  /\ EndTask
  /\ UNCHANGED <<starts, autoRestore, proofVars, adbWifi, termuxVars, faults,
                 asked, cut>>

disableWirelessDebugging ==
  /\ At("begin") /\ Kind = "disable"
  /\ autoRestore' = FALSE
  /\ adbWifi' = FALSE /\ asked' = FALSE /\ cut' = FALSE
  /\ RecordState
  /\ EndTask
  /\ UNCHANGED <<starts, query, proofs, termuxVars, faults>>

\* restoreWirelessDebugging and runPositiveControl up to the discovery.  A boot
\* recovery needs the setting on; the others turn it on.
Enable ==
  /\ At("begin") /\ Kind \in {"arm", "restore", "boot", "control"}
  /\ Kind = "boot" => autoRestore /\ adbWifi
  /\ autoRestore' = (autoRestore \/ Kind = "arm")
  /\ adbWifi' = TRUE
  /\ IF Kind = "boot" THEN UNCHANGED <<asked, cut>> ELSE asked' = TRUE /\ cut' = FALSE
  /\ RecordState
  /\ Onward("discovering")
  /\ UNCHANGED <<starts, query, proofs, termuxVars, faults>>

pairTermux ==
  /\ At("begin") /\ Kind = "pair"
  /\ RecordState
  /\ Onward("discovering")
  /\ UNCHANGED <<starts, autoRestore, query, proofs, adbWifi, termuxVars, faults,
                 asked, cut>>

---------------------------------------------------------------------------
(* Service discovery: callbacks, and the executor waiting for a latch with *)
(* a timeout.                                                              *)

Callback(t) ==
  /\ At("discovering")
  /\ task' = t
  /\ UNCHANGED <<starts, queue, cancel, autoRestore, proofVars, adbWifi, termuxVars,
                 faults, asked, cut, fates>>

\* A service found while another is being resolved is dropped.
onServiceFound == At("discovering") /\ ~task.resolving /\ Callback([task EXCEPT !.resolving = TRUE])

\* The resolution fails, or gives no valid port.
onResolveFailed == At("discovering") /\ task.resolving /\ ~task.port
                   /\ Callback([task EXCEPT !.resolving = FALSE])

onServiceResolved == At("discovering") /\ task.resolving /\ ~task.port
                     /\ Callback([task EXCEPT !.port = TRUE])

\* dispatchTermuxCommand: Termux starts the script of this request.
Dispatch(op, port) ==
  script' = [script EXCEPT ![task.n] =
               [NoScript EXCEPT !.op = op, !.at = "probing",
                                !.mode = IF port THEN "tls_nsd" ELSE "not_proven"]]

\* With a bug: discovery waits for the latch without a timeout.
DiscoverWithoutTimeout ==
  /\ At("discovering") /\ task.port
  /\ RecordState
  /\ EndTask
  /\ UNCHANGED <<starts, autoRestore, query, proofs, adbWifi, termuxVars, faults,
                 asked, cut>>

\* The latch is released by a port or a failed start, or the wait times out.
\* Without a port only a positive control or a self-hosted probe goes on.  A
\* command that cannot be dispatched ends the task.  The state recorded after
\* the dispatch is recorded with it here: a result recorded between the two
\* loses only its state, which makes it no proof.
discoverServicePort ==
  /\ At("discovering")
  /\ RecordState
  /\ \/ EndTask /\ UNCHANGED script
     \/ /\ Kind \in {"arm", "restore", "boot"}
        /\ Dispatch("recover", task.port)
        /\ Onward("settling")
     \/ Kind = "pair" /\ task.port /\ Dispatch("pair", TRUE) /\ EndTask
     \/ Kind = "control" /\ Dispatch("ap_free_experiment", task.port) /\ EndTask
  /\ UNCHANGED <<starts, autoRestore, query, proofs, adbWifi, agents, pidFile,
                 tmpFile, slips, faults, asked, cut>>

\* restoreWirelessDebugging sleeps four seconds after the dispatch.
Settled ==
  /\ At("settling")
  /\ EndTask
  /\ UNCHANGED <<starts, autoRestore, proofVars, adbWifi, termuxVars, faults,
                 asked, cut>>

---------------------------------------------------------------------------
(* The pulse: the setting is written again and again for a while, since    *)
(* Android resets it, and put back in the end.                             *)

\* With a bug: the prior setting is taken from the pulse's own writing.
BeginPulseLate ==
  /\ At("begin") /\ Kind = "pulse"
  /\ task' = [task EXCEPT !.at = "pulsing", !.prior = TRUE]
  /\ cancel' = FALSE
  /\ Dispatch("ap_free_experiment", FALSE)
  /\ RecordState
  /\ UNCHANGED <<starts, queue, autoRestore, query, proofs, adbWifi, agents, pidFile,
                 tmpFile, slips, faults, asked, cut, fates>>

BeginPulse ==
  /\ At("begin") /\ Kind = "pulse"
  /\ task' = [task EXCEPT !.at = "pulsing", !.prior = adbWifi]
  /\ cancel' = FALSE
  /\ Dispatch("ap_free_experiment", FALSE)
  /\ RecordState
  /\ UNCHANGED <<starts, queue, autoRestore, query, proofs, adbWifi, agents, pidFile,
                 tmpFile, slips, faults, asked, cut, fates>>

WritePulse ==
  /\ At("pulsing") /\ ~cancel
  /\ adbWifi' = TRUE
  /\ UNCHANGED <<helperVars, proofVars, termuxVars, faults, asked, cut, fates>>

EndPulse ==
  /\ At("pulsing")
  /\ adbWifi' = task.prior
  /\ RecordState
  /\ EndTask
  /\ UNCHANGED <<starts, autoRestore, query, proofs, termuxVars, faults, asked, cut>>

Executor ==
  \/ Take \/ Blocked \/ StopTask \/ disableWirelessDebugging \/ Enable \/ pairTermux
  \/ discoverServicePort \/ Settled \/ BeginPulse \/ EndPulse

---------------------------------------------------------------------------
(* The recovery script, wireless_adb_recovery.py.  Its waits and its       *)
(* repeated attempts are the time before a step.                           *)

Script(n, s) ==
  /\ script' = [script EXCEPT ![n] = s]
  /\ UNCHANGED <<helperVars, proofVars, adbWifi, faults, asked, cut, fates>>

\* adb pair, the one command of the dispatched line.
Pair(n) ==
  /\ script[n].at = "probing" /\ script[n].op = "pair"
  /\ \E ok \in BOOLEAN :
       Script(n, [script[n] EXCEPT !.at = "ended", !.mode = "tls_pairing_nsd", !.ok = ok,
                                   !.output = TRUE])
  /\ UNCHANGED <<agents, pidFile, tmpFile, slips>>

\* Where the port comes from: the command; else a system property, or adb's own
\* discovery.
PortSources(s) == IF s.mode = "tls_nsd" THEN {"tls_nsd"} ELSE {"tls_property", "tls_mdns"}

\* probe_tls_shell: one of the targets answers as the shell user, or none does.
ShellAnswers(ok) == ok => adbWifi

\* recover: probe until the shell answers or the time is up.
Probe(n) ==
  /\ script[n].at = "probing" /\ script[n].op # "pair"
  /\ \E ok \in BOOLEAN, mode \in PortSources(script[n]) :
       /\ ShellAnswers(ok)
       /\ Script(n, [script[n] EXCEPT !.ok = ok, !.mode = mode,
                       !.at = IF ok /\ script[n].op = "recover" THEN "checking"
                                                                ELSE "reporting"])
  /\ UNCHANGED <<agents, pidFile, tmpFile, slips>>

process_is_alive == pidFile \in agents

\* With a bug: a pid file that is there is not looked into.
CheckAgentBlindly(n) ==
  /\ script[n].at = "checking"
  /\ Script(n, [script[n] EXCEPT !.at = "writing"])
  /\ slips' = slips + (IF \E m \in Starts \ {n} : script[m].at \in Starting
                       THEN 1 ELSE 0)
  /\ UNCHANGED <<agents, pidFile, tmpFile>>

\* start_fleet_agent up to its check of the pid file.  The agent may not be
\* configured.
CheckAgent(n) ==
  /\ script[n].at = "checking"
  /\ \/ /\ Script(n, [script[n] EXCEPT !.at = "reporting"])
        /\ UNCHANGED slips
     \/ /\ ~process_is_alive
        /\ Script(n, [script[n] EXCEPT !.at = "writing"])
        /\ slips' = slips + (IF \E m \in Starts \ {n} : script[m].at \in Starting
                             THEN 1 ELSE 0)
  /\ UNCHANGED <<agents, pidFile, tmpFile>>

\* write_json_atomic: every script writes the same temporary file.  The rename
\* fails if another script has renamed it meanwhile; the script ends with that.
WriteConfig(n) ==
  /\ script[n].at = "writing"
  /\ tmpFile' = TRUE
  /\ Script(n, [script[n] EXCEPT !.at = "replacing"])
  /\ UNCHANGED <<agents, pidFile, slips>>

ReplaceConfig(n) ==
  /\ script[n].at = "replacing"
  /\ tmpFile' = FALSE
  /\ Script(n, [script[n] EXCEPT !.at = IF tmpFile THEN "spawning" ELSE "ended"])
  /\ UNCHANGED <<agents, pidFile, slips>>

SpawnAgent(n) ==
  /\ script[n].at = "spawning"
  /\ agents' = agents \cup {n}
  /\ Script(n, [script[n] EXCEPT !.at = "recording", !.started = TRUE])
  /\ UNCHANGED <<pidFile, tmpFile, slips>>

RecordPid(n) ==
  /\ script[n].at = "recording"
  /\ pidFile' = n
  /\ Script(n, [script[n] EXCEPT !.at = "reporting"])
  /\ UNCHANGED <<agents, tmpFile, slips>>

\* The status file is written in the same way, and printed.  A recovery holds
\* on to the agent that it started.
Report(n) ==
  /\ script[n].at = "reporting"
  /\ \/ Script(n, [script[n] EXCEPT !.output = TRUE,
                     !.at = IF script[n].started THEN "holding" ELSE "ended"])
     \/ /\ \E m \in Starts \ {n} : script[m].at = "reporting" /\ script[m].op = script[n].op
        /\ Script(n, [script[n] EXCEPT !.at = "ended"])
  /\ UNCHANGED <<agents, pidFile, tmpFile, slips>>

\* wait_for_started_fleet_agent: the pid is read back, and only a child can be
\* waited for.
HoldAgent(n) ==
  /\ script[n].at = "holding"
  /\ Script(n, [script[n] EXCEPT !.at = IF pidFile = n THEN "waiting" ELSE "ended"])
  /\ UNCHANGED <<agents, pidFile, tmpFile, slips>>

WaitAgent(n) ==
  /\ script[n].at = "waiting" /\ n \notin agents
  /\ Script(n, [script[n] EXCEPT !.at = "ended"])
  /\ UNCHANGED <<agents, pidFile, tmpFile, slips>>

ScriptStep(n) ==
  \/ Pair(n) \/ Probe(n) \/ CheckAgent(n) \/ WriteConfig(n) \/ ReplaceConfig(n)
  \/ SpawnAgent(n) \/ RecordPid(n) \/ Report(n) \/ HoldAgent(n) \/ WaitAgent(n)

---------------------------------------------------------------------------
(* The result service: one result at a time, on a thread of its own, when  *)
(* the script has ended.                                                   *)

IsProof(s) == s.output /\ s.ok /\ s.op = "recover" /\ s.mode \in Modern

\* The wall clock has moved on since the latest result, or has not.
onHandleIntent(n, now) ==
  LET s == script[n]
      revision == prefs.revision + 1
  IN /\ s.at = "ended"
     /\ script' = [script EXCEPT ![n] = Gone]
     /\ prefs' = [revision |-> revision, at |-> now,
                  state |-> IF IsProof(s) THEN "tls_shell_available" ELSE "other",
                  mode |-> IF s.output THEN s.mode ELSE "not_proven",
                  uid |-> s.output /\ s.ok /\ s.op # "pair",
                  digest |-> IF IsProof(s) THEN Digest(revision, now, s.mode) ELSE NoDigest]
     /\ proofs' = IF IsProof(s)
                  THEN proofs \cup {[revision |-> revision, at |-> now, mode |-> s.mode]}
                  ELSE proofs
     /\ UNCHANGED <<helperVars, query, adbWifi, agents, pidFile, tmpFile, slips, faults,
                    asked, cut, fates>>

---------------------------------------------------------------------------
(* The provider: the preferences are read one by one, judged, and compared *)
(* with the digest.  A query that has read something it will refuse is     *)
(* dropped at once; one may be dropped at any time, for its proof may be   *)
(* older than MAX_PROOF_LIFETIME_MS.                                       *)

Plausible(row, fields) ==
  /\ "revision" \in fields => row.revision > 0
  /\ "state" \in fields => row.state = "tls_shell_available"
  /\ "mode" \in fields => row.mode \in Modern
  /\ "uid" \in fields => row.uid

\* With a bug: the digest does not cover the revision.
MatchesAnyRevision(row) ==
  /\ row.digest # NoDigest
  /\ row.digest[2] = row.at /\ row.digest[3] = row.mode

Matches(row) == row.digest = Digest(row.revision, row.at, row.mode)

QueryStep ==
  LET k == query.read + 1
      row == [(IF k = 1 THEN NoResult ELSE query.row) EXCEPT ![Fields[k]] = prefs[Fields[k]]]
      last == k = Len(Fields)
  IN /\ Plausible(row, {Fields[i] : i \in 1 .. k})
     /\ last => Matches(row)
     /\ query' = [read |-> IF last THEN 0 ELSE k, row |-> row, served |-> last]

QueryDropped == query.read > 0 /\ query' = Idle

Query ==
  /\ QueryStep \/ QueryDropped
  /\ UNCHANGED <<helperVars, prefs, proofs, adbWifi, termuxVars, faults, asked, cut, fates>>

---------------------------------------------------------------------------
(* The world.                                                              *)

\* Android turns Wireless Debugging off by itself, as without a known network.
SystemReset ==
  /\ adbWifi
  /\ adbWifi' = FALSE
  /\ UNCHANGED <<helperVars, proofVars, termuxVars, faults, asked, cut, fates>>

AgentDies ==
  \E a \in agents :
    /\ agents' = agents \ {a}
    /\ UNCHANGED <<helperVars, proofVars, adbWifi, script, pidFile, tmpFile, slips,
                   faults, asked, cut, fates>>

\* The helper's process is killed: what it keeps in preferences stays.
KillHelper ==
  /\ faults < MaxFaults /\ faults' = faults + 1
  /\ queue' = <<>> /\ task' = NoTask /\ cancel' = FALSE
  /\ query' = Idle
  /\ cut' = (cut \/ At("pulsing"))
  /\ fates' = [n \in Starts |-> IF fates[n] = "waiting" THEN "killed" ELSE fates[n]]
  /\ UNCHANGED <<starts, autoRestore, prefs, proofs, adbWifi, termuxVars, asked>>

\* A script is killed alone or fails, as for want of space: its result has no
\* more output.  The agent it has started, in a session of its own, lives on,
\* and if its pid was not written yet no later script knows of it.
ScriptDies(n) ==
  /\ script[n].at \notin {"none", "ended", "gone"}
  /\ faults < MaxFaults /\ faults' = faults + 1
  /\ script' = [script EXCEPT ![n].at = "ended"]
  /\ slips' = slips + (IF script[n].at = "recording" THEN 1 ELSE 0)
  /\ UNCHANGED <<helperVars, proofVars, adbWifi, agents, pidFile, tmpFile, asked, cut, fates>>

\* Termux is killed with all its processes: no result comes of them.
KillTermux ==
  /\ faults < MaxFaults /\ faults' = faults + 1
  /\ agents' = {}
  /\ script' = [n \in Starts |-> IF script[n].at = "none" THEN script[n]
                                 ELSE Gone]
  /\ UNCHANGED <<helperVars, proofVars, adbWifi, pidFile, tmpFile, slips, asked, cut, fates>>

Next ==
  \/ \E a \in Requests : onStartCommand(a)
  \/ Executor \/ onServiceFound \/ onResolveFailed \/ onServiceResolved \/ WritePulse
  \/ \E n \in Starts : ScriptStep(n) \/ onHandleIntent(n, prefs.at) \/ onHandleIntent(n, prefs.at + 1)
  \/ Query
  \/ SystemReset \/ AgentDies \/ KillHelper \/ KillTermux
  \/ \E n \in Starts : ScriptDies(n)

Spec == Init /\ [][Next]_vars

\* The executor is a thread of its own; its sleeps, its wait for the latch and
\* the writes of a pulse are bounded, so its next step comes.
FairSpec == Spec /\ WF_vars(Executor)

---------------------------------------------------------------------------
(* Properties.                                                             *)

TypeOK ==
  /\ starts \in 0 .. MaxStarts /\ queue \in Seq([n : Starts, action : Actions])
  /\ task \in Tasks \cup {NoTask}
  /\ cancel \in BOOLEAN /\ autoRestore \in BOOLEAN
  /\ prefs.revision \in Nat /\ prefs.state \in States /\ prefs.mode \in Modes
  /\ query.read \in 0 .. Len(Fields) - 1 /\ query.served \in BOOLEAN
  /\ adbWifi \in BOOLEAN /\ asked \in BOOLEAN /\ cut \in BOOLEAN
  /\ script \in [Starts -> Scripts]
  /\ agents \subseteq Starts /\ pidFile \in Starts \cup {NoPid} /\ tmpFile \in BOOLEAN
  /\ slips \in Nat /\ faults \in 0 .. MaxFaults
  /\ fates \in [Starts -> {"none", "waiting", "handled", "killed"}]

\* A row that the provider serves is one recorded result, never a mixture of
\* two: the reads are separate, and results are recorded between them.
ServedIsOneRecord ==
  query.served =>
    [revision |-> query.row.revision, at |-> query.row.at, mode |-> query.row.mode] \in proofs

\* Wireless Debugging is not left on by a pulse: except while one runs, or after
\* the helper was killed in one, the setting is on only if the last request that
\* set it turned it on, whatever requests came, waited or overtook meanwhile.
NothingLeftOn == ~At("pulsing") /\ ~cut => (adbWifi => asked)

\* One fleet agent runs, and one more for each time that a script checked the
\* pid file while another one was about to write it, or died before it had
\* written the pid of the agent it had started.
OneAgentUnlessRaced == Cardinality(agents) <= 1 + slips

\* Every request that was taken is worked through, in spite of service discovery
\* that finds nothing or fails to resolve, and of the service stopping itself
\* after each of them; only a killed helper forgets what waits.
RequestsHandled ==
  \A n \in Starts : fates[n] = "waiting" ~> fates[n] \in {"handled", "killed"}
=============================================================================
