----------------------------- MODULE FleetSystem -----------------------------
(***************************************************************************)
(* The controller of FleetControl together with the agents of              *)
(* scripts/termux_fleet_agent.py that poll it, the network between them,   *)
(* and the local ADB shell and the installed package of each headset.      *)
(*                                                                         *)
(* An agent is one sequential process: heartbeat, poll, execute, report    *)
(* (run_once), forever.  Its state lives in memory, and any failed request *)
(* but an unsent heartbeat ends the process.  The controller's state lives *)
(* in memory too.  Faults (a lost message, a dead process, ADB coming or   *)
(* going) are bounded by MaxFaults, restarts of the controller by          *)
(* MaxRestarts.                                                            *)
(***************************************************************************)
EXTENDS FleetControl, FiniteSets

CONSTANTS Fleet,              (* the agents that run the agent script *)
          ShellKinds,         (* command kinds that need the local ADB shell *)
          UpdateKinds,        (* of these, apk.update_verified *)
          CheckKinds,         (* adb.self_check and adb.lease_check *)
          DisconnectKinds,    (* adb.lease_disconnect *)
          RequestedVersion,   (* the version code an update asks for *)
          Downgradable,       (* updates whose manifest allows a downgrade *)
          local_adb_enabled, check_local_adb_on_heartbeat,   (* agent config *)
          MaxFaults, MaxRestarts

ASSUME SystemConstants ==
    /\ Fleet \subseteq Agents
    /\ UpdateKinds \subseteq ShellKinds
    /\ ShellKinds \cup CheckKinds \cup DisconnectKinds \subseteq Kinds \ PassiveKinds
    /\ ShellKinds \cap (CheckKinds \cup DisconnectKinds) = {}
    /\ RequestedVersion \in [CommandIds -> Nat]
    /\ Downgradable \subseteq CommandIds
    /\ local_adb_enabled \in BOOLEAN /\ check_local_adb_on_heartbeat \in BOOLEAN
    /\ MaxFaults \in Nat /\ MaxRestarts \in Nat

(* What some theorems assume of those who post commands and intents: ids,     *)
(* keys and versions come with the requests, and nobody checks them.         *)

\* The commands clients can have queued.
Queueable == CommandRequests \cup {FleetCommand(r) : r \in IntentRequests}

\* A command id stands for one command of one key and agent ...
OneMeaningPerId ==
    \A c, d \in Queueable : c.command_id = d.command_id =>
       SlotOf(c) = SlotOf(d) /\ (c.kind \in UpdateKinds <=> d.kind \in UpdateKinds)

\* ... an agent's idempotency key for one version of the package ...
OneVersionPerKey ==
    \A c, d \in Queueable :
       c.kind \in UpdateKinds /\ d.kind \in UpdateKinds /\ SlotOf(c) = SlotOf(d)
       => RequestedVersion[c.command_id] = RequestedVersion[d.command_id]

\* ... and no manifest allows a downgrade.
UpdatesConsistent == Downgradable = {} /\ OneVersionPerKey

VARIABLES agent,        (* the agent processes *)
          adb_up,       (* the headsets whose ADB shell answers as uid 2000 *)
          installed,    (* the package's version on each headset *)
          heartbeats,   (* FleetState.heartbeats: the local_adb part *)
          faults, restarts,
          reported,     (* history: the results of this controller's life *)
          verified,     (* history: installs read back, per key of an agent's life *)
          shell_gone    (* history: agents whose latest result failed as ADB was gone *)

deviceVars == <<adb_up, installed>>
historyVars == <<reported, verified, shell_gone>>
systemVars == <<agent, deviceVars, heartbeats, faults, restarts, historyVars>>
allVars == <<vars, systemVars>>

LocalAdb == {"unchecked", "available", "unavailable"}
Result == [status : ResultStates, adb_unavailable : BOOLEAN, shell_gone : BOOLEAN]
NoResult == [status |-> "skipped", adb_unavailable |-> FALSE, shell_gone |-> FALSE]

\* AgentState of a process that has just been started, or is not running.
Fresh(pc) == [pc |-> pc, command |-> NoCommand, local_adb |-> "unchecked",
              completed_idempotency |-> {}, result |-> NoResult]

SystemInit ==
    /\ Init
    /\ agent = [a \in Fleet |-> Fresh("idle")]
    /\ adb_up \in SUBSET Fleet
    /\ installed = [a \in Fleet |-> 0]
    /\ heartbeats = [a \in Fleet |-> "none"]
    /\ faults = 0 /\ restarts = 0
    /\ reported = {}
    /\ verified = [a \in Fleet |-> [k \in Keys |-> 0]]
    /\ shell_gone = {}

SystemTypeOK ==
    /\ TypeOK
    /\ agent \in [Fleet -> [pc : {"idle", "poll", "start", "shell", "install", "readback",
                                  "report", "down"},
                            command : Command \cup {NoCommand},
                            local_adb : LocalAdb,
                            completed_idempotency : SUBSET Keys, result : Result]]
    /\ adb_up \subseteq Fleet /\ installed \in [Fleet -> Nat]
    /\ heartbeats \in [Fleet -> LocalAdb \cup {"none"}]
    /\ faults \in 0 .. MaxFaults /\ restarts \in 0 .. MaxRestarts
    /\ reported \subseteq [agent : Fleet, command_id : CommandIds, status : ResultStates]
    /\ verified \in [Fleet -> [Keys -> Nat]] /\ shell_gone \subseteq Fleet

Fault == faults < MaxFaults /\ faults' = faults + 1

-----------------------------------------------------------------------------
(* One round of run_once.                                                  *)

\* With a bug: the reason of the failure is stored as the state.
CheckedReason(a) == IF a \in adb_up THEN "available" ELSE "shell_uid_not_available"

\* refresh_local_adb_state: connect, ask for the shell's uid, remember.
Checked(a) == IF a \in adb_up THEN "available" ELSE "unavailable"

\* With a bug: an earlier success is trusted.
AfterHeartbeatTrust(a) == IF agent[a].local_adb = "available" THEN "available" ELSE Checked(a)

AfterHeartbeatCheck(a) == IF local_adb_enabled /\ check_local_adb_on_heartbeat
                          THEN Checked(a) ELSE agent[a].local_adb

\* The process ends, and what it remembered with it.
Dies(a) == /\ agent' = [agent EXCEPT ![a] = Fresh("down")]
           /\ verified' = [verified EXCEPT ![a] = [k \in Keys |-> 0]]

\* A heartbeat that cannot be sent (URLError) only ends the round; a response
\* that does not come is another exception and ends the process.
Heartbeat(a) ==
    /\ agent[a].pc = "idle"
    /\ LET seen == AfterHeartbeatCheck(a)
           Then(pc) == agent' = [agent EXCEPT ![a].local_adb = seen, ![a].pc = pc]
           Arrives == heartbeats' = [heartbeats EXCEPT ![a] = seen]
       IN \/ Then("poll") /\ Arrives /\ UNCHANGED <<faults, verified>>
          \/ Then("idle") /\ Fault /\ UNCHANGED <<heartbeats, verified>>
          \/ Dies(a) /\ Arrives /\ Fault
    /\ UNCHANGED <<vars, deviceVars, restarts, reported, shell_gone>>

\* GET next-command.  The controller has given the command away even when the
\* response is lost, and the agent dies of the lost response.
Poll(a) ==
    /\ agent[a].pc = "poll"
    /\ \/ /\ commands[a] = {}
          /\ agent' = [agent EXCEPT ![a].pc = "idle"]
          /\ UNCHANGED <<vars, faults, verified>>
       \/ /\ next_command(a)
          /\ UNCHANGED <<mirrorVars, latest_adb_unavailable>>
          /\ \/ /\ delivered' = delivered
                /\ agent' = [agent EXCEPT ![a].pc = "idle"]
                /\ UNCHANGED <<faults, verified>>
             \/ /\ \E e \in delivered' \ delivered :
                      agent' = [agent EXCEPT ![a].pc = "start", ![a].command = e.cmd]
                /\ UNCHANGED <<faults, verified>>
             \/ Fault /\ Dies(a)
    /\ UNCHANGED <<deviceVars, heartbeats, restarts, reported, shell_gone>>

Cmd(a) == agent[a].command
Version(a) == RequestedVersion[Cmd(a).command_id]
IsUpdate(a) == Cmd(a).kind \in UpdateKinds

\* execute_command ends with a result.  A failure is put down to ADB when the
\* shell is gone as the command runs.
ResultOf(a, status, unavailable) ==
    [status |-> status, adb_unavailable |-> unavailable,
     shell_gone |-> status = "failed" /\ a \notin adb_up /\ Cmd(a).kind \in ShellKinds]

Finish(a, status) ==
    agent' = [agent EXCEPT ![a].pc = "report", ![a].result = ResultOf(a, status, FALSE)]

\* With a bug: nothing is remembered.
FinishAndForget(a, status) == Finish(a, status)

\* ... that remember_idempotent_result keeps for a repeat of the key.
FinishAndRemember(a, status) ==
    agent' = [agent EXCEPT ![a].pc = "report", ![a].result = ResultOf(a, status, FALSE),
                 ![a].completed_idempotency = @ \cup {Cmd(a).idempotency_key}]

AgentStep(a, pc) == /\ agent[a].pc = pc
                    /\ UNCHANGED <<vars, adb_up, heartbeats, faults, restarts, reported,
                                   shell_gone>>

\* The agent's own gates: expiry, and the local policy (allowlists, remote
\* session lease, mirror binding, payload), which may refuse any command.
Refuse(a) == /\ AgentStep(a, "start")
             /\ Finish(a, "rejected")
             /\ UNCHANGED <<installed, verified>>

Executable(a) == AgentStep(a, "start") /\ ~ is_expired(Cmd(a))

\* A command that does without ADB completes or fails.
RunLocal(a) == /\ Executable(a)
               /\ Cmd(a).kind \notin ShellKinds \cup CheckKinds \cup DisconnectKinds
               /\ Finish(a, "completed") \/ Finish(a, "failed")
               /\ UNCHANGED <<installed, verified>>

FinishWith(a, status, local_adb) ==
    agent' = [agent EXCEPT ![a].pc = "report", ![a].result = ResultOf(a, status, FALSE),
                 ![a].local_adb = local_adb]

\* The shell is looked at now.  When it does not answer, a lease check completes
\* all the same and a self check fails, or is rejected if ADB is disabled.
CheckShell(a) ==
    /\ Executable(a)
    /\ Cmd(a).kind \in CheckKinds
    /\ IF local_adb_enabled /\ Checked(a) = "available"
       THEN FinishWith(a, "completed", "available")
       ELSE \E status \in {"completed", IF local_adb_enabled THEN "failed" ELSE "rejected"} :
               FinishWith(a, status, "unavailable")
    /\ UNCHANGED <<installed, verified>>

\* The agent lets go of the shell, whatever the ADB client says about it.
Disconnect(a) ==
    /\ Executable(a)
    /\ Cmd(a).kind \in DisconnectKinds
    /\ \/ FinishWith(a, "completed", "unavailable")
       \/ local_adb_enabled /\ FinishWith(a, "failed", "unavailable")
    /\ UNCHANGED <<installed, verified>>

Repeated(a) == IsUpdate(a) /\ Cmd(a).idempotency_key \in agent[a].completed_idempotency

SkipRepeat(a) == /\ Executable(a)
                 /\ Repeated(a)
                 /\ Finish(a, "skipped")
                 /\ UNCHANGED <<installed, verified>>

\* ensure_local_adb_for_command: an earlier success is trusted, else the shell
\* is checked now.
EnsureShell(a) ==
    /\ Executable(a)
    /\ Cmd(a).kind \in ShellKinds /\ ~ Repeated(a)
    /\ LET seen == IF ~ local_adb_enabled THEN "unavailable"
                   ELSE IF agent[a].local_adb = "available" THEN "available"
                   ELSE Checked(a)
       IN agent' = IF seen = "available"
                   THEN [agent EXCEPT ![a].local_adb = seen, ![a].pc = "shell"]
                   ELSE [agent EXCEPT ![a].local_adb = seen, ![a].pc = "report",
                            ![a].result = ResultOf(a, "rejected", TRUE)]
    /\ UNCHANGED <<installed, verified>>

\* A shell command needs the shell to succeed and can fail for other reasons.
RunShell(a) ==
    /\ AgentStep(a, "shell")
    /\ ~ IsUpdate(a)
    /\ (a \in adb_up /\ Finish(a, "completed")) \/ Finish(a, "failed")
    /\ UNCHANGED <<installed, verified>>

\* With a bug: a version that cannot be read counts as new enough.
UpToDateOrUnknown(a) == a \notin adb_up \/ installed[a] >= Version(a)

UpToDate(a) == a \in adb_up /\ installed[a] >= Version(a)

\* A version that can be read and is no older than the update's ends it.  Else
\* (dumpsys can fail, with the shell or without) the APK is downloaded and
\* verified, which may refuse it.  A readable older version takes the same two
\* ways as an unreadable one.
Measure(a) ==
    /\ AgentStep(a, "shell")
    /\ IsUpdate(a)
    /\ \/ UpToDate(a) /\ FinishAndRemember(a, "skipped")
       \/ agent' = [agent EXCEPT ![a].pc = "install"]
       \/ Finish(a, "rejected")
    /\ UNCHANGED <<installed, verified>>

\* adb install: the package manager refuses an older version unless asked to
\* downgrade, and an install that outlives the timeout is reported as failed.
Install(a) ==
    /\ AgentStep(a, "install")
    /\ \/ /\ a \in adb_up
          /\ installed[a] <= Version(a) \/ Cmd(a).command_id \in Downgradable
          /\ installed' = [installed EXCEPT ![a] = Version(a)]
          /\ agent' = [agent EXCEPT ![a].pc = "readback"] \/ Finish(a, "failed")
       \/ /\ Finish(a, "failed")
          /\ UNCHANGED installed
    /\ UNCHANGED verified

\* The version is read back; only a match is remembered, whatever the launch
\* after the install does.
Readback(a) ==
    /\ AgentStep(a, "readback")
    /\ \/ /\ a \in adb_up /\ installed[a] = Version(a)
          /\ FinishAndRemember(a, "completed") \/ FinishAndRemember(a, "failed")
          /\ verified' = [verified EXCEPT ![a][Cmd(a).idempotency_key] = @ + 1]
       \/ /\ Finish(a, "failed")
          /\ UNCHANGED verified
    /\ UNCHANGED installed

\* With a bug: a command that failed is executed again after its report.
RoundAgain(a) ==
    agent' = IF agent[a].result.status = "failed" THEN [agent EXCEPT ![a].pc = "start"]
             ELSE [agent EXCEPT ![a].pc = "idle", ![a].command = NoCommand,
                                ![a].result = NoResult]

RoundDone(a) ==
    agent' = [agent EXCEPT ![a].pc = "idle", ![a].command = NoCommand,
                           ![a].result = NoResult]

\* POST command-results.  A lost response ends the process, a lost request
\* ends it with the result unrecorded (Die).
Report(a) ==
    LET r == agent[a].result IN
    /\ agent[a].pc = "report"
    /\ record_result(Cmd(a).command_id, a, r.status, r.adb_unavailable)
    /\ reported' = reported \cup {[agent |-> a, command_id |-> Cmd(a).command_id,
                                   status |-> r.status]}
    /\ shell_gone' = IF r.shell_gone THEN shell_gone \cup {a} ELSE shell_gone \ {a}
    /\ \/ RoundDone(a) /\ UNCHANGED <<faults, verified>>
       \/ Fault /\ Dies(a)
    /\ UNCHANGED <<deviceVars, heartbeats, restarts>>

RunOnce(a) == \/ Heartbeat(a) \/ Poll(a) \/ Refuse(a) \/ RunLocal(a) \/ SkipRepeat(a)
              \/ CheckShell(a) \/ Disconnect(a)
              \/ EnsureShell(a) \/ RunShell(a) \/ Measure(a) \/ Install(a)
              \/ Readback(a) \/ Report(a)

-----------------------------------------------------------------------------
(* The environment.                                                        *)

\* The process ends: killed by the system, or by a request that failed.
Die(a) == /\ agent[a].pc # "down"
          /\ Fault
          /\ Dies(a)
          /\ UNCHANGED <<vars, deviceVars, heartbeats, restarts, reported, shell_gone>>

\* With a bug: the script waits for the shell before it starts its loop.
StartWithShell(a) ==
    /\ agent[a].pc = "down" /\ a \in adb_up
    /\ agent' = [agent EXCEPT ![a] = Fresh("idle")]
    /\ UNCHANGED <<vars, deviceVars, heartbeats, faults, restarts, historyVars>>

\* Something outside restarts the agent script.
Start(a) == /\ agent[a].pc = "down"
            /\ agent' = [agent EXCEPT ![a] = Fresh("idle")]
            /\ UNCHANGED <<vars, deviceVars, heartbeats, faults, restarts, historyVars>>

AdbChange(a) == /\ Fault
                /\ adb_up' = IF a \in adb_up THEN adb_up \ {a} ELSE adb_up \cup {a}
                /\ UNCHANGED <<vars, agent, installed, heartbeats, restarts, historyVars>>

\* A new controller process starts with an empty FleetState.
ControllerRestart ==
    /\ restarts < MaxRestarts
    /\ restarts' = restarts + 1
    /\ commands' = [a \in Agents |-> {}]
    /\ idempotency_index' = [s \in Slot |-> NoCommand]
    /\ mirror_leases' = [l \in Leases |-> NoMirrorLease]
    /\ mirror_intents' = [i \in Intents |-> NoIntent]
    /\ mirror_events' = [l \in Leases |-> {}]
    /\ mirror_command_index' = [c \in CommandIds |-> {}]
    /\ latest_adb_unavailable' = {} /\ shell_gone' = {}
    /\ heartbeats' = [a \in Fleet |-> "none"]
    /\ delivered' = {} /\ reported' = {}
    /\ UNCHANGED <<now, serial, agent, deviceVars, faults, verified>>

ControllerRequest == /\ QueueCommand \/ CreateLease \/ RevokeLease \/ SubmitIntent \/ ClockTick
                     /\ UNCHANGED systemVars

SystemNext == \/ ControllerRequest
              \/ \E a \in Fleet : RunOnce(a) \/ Die(a) \/ Start(a) \/ AdbChange(a)
              \/ ControllerRestart

SystemSpec == SystemInit /\ [][SystemNext]_allVars

\* The agent's loop goes on and a dead agent is started again; nothing else is
\* promised, neither the clients' requests nor the passing of time.
FairSystem == /\ SystemSpec
              /\ \A a \in Fleet : WF_allVars(RunOnce(a)) /\ WF_allVars(Start(a))
-----------------------------------------------------------------------------
(* Safety.                                                                 *)

\* An update that was reported completed or skipped is on the headset in at
\* least the version that was asked for, through every loss of ADB, death of
\* the agent and repeat.
ReportedUpdateIsInstalled ==
    \A r \in reported :
       (\E q \in CommandRequests : q.command_id = r.command_id /\ q.kind \in UpdateKinds)
       /\ r.status \in {"completed", "skipped"}
       => installed[r.agent] >= RequestedVersion[r.command_id]

\* While an agent process lives it installs and reads back the update of one
\* idempotency key at most once, even when the controller has lost its index
\* and hands the command over again.
UpdateOncePerLife == \A a \in Fleet, k \in Keys : verified[a][k] <= 1

\* Once a result has answered an intent its state stays as it is, as long as
\* the controller is not restarted.
AnswerStays ==
    restarts = 0 =>
       \A i \in Intents :
          (mirror_intents[i] # NoIntent /\ mirror_intents[i].state # "queued_for_target")
          => mirror_intents'[i] = mirror_intents[i] \/ restarts' # restarts
AnswerIsFinal == [][AnswerStays]_allVars

-----------------------------------------------------------------------------
(* Recovery candidates.                                                    *)

recovery_candidates ==
    {a \in Fleet : /\ heartbeats[a] # "none"
                   /\ heartbeats[a] # "available" \/ a \in latest_adb_unavailable}

\* An agent that checks ADB with its heartbeats and loses it for good is a
\* recovery candidate from some time on, whatever it was executing.
AdbLossSurfaces ==
    \A a \in Fleet : <>[](a \notin adb_up) => <>[](a \in recovery_candidates)

\* "... or when the latest command result failed because local ADB was
\* unavailable" (docs/outbound-fleet-control-plane.md).
FailureSurfaces == shell_gone \subseteq recovery_candidates

-----------------------------------------------------------------------------
(* Liveness.                                                               *)

\* A queued command does not stay in the queue forever: it is handed over, or
\* found expired, or gone with the controller.
QueueDrains ==
    \A a \in Fleet, id \in CommandIds :
       (\E e \in commands[a] : e.cmd.command_id = id)
       ~> (~ \E e \in commands[a] : e.cmd.command_id = id)

Unanswered(i) == mirror_intents[i] # NoIntent /\ mirror_intents[i].state = "queued_for_target"

\* The source of an intent that was queued gets the target's answer unless
\* there was a fault or time passed.
QueuedIntentAnswered ==
    \A i \in Intents :
       Unanswered(i) /\ mirror_intents[i].controller_status = "queued"
       ~> ~ Unanswered(i) \/ faults > 0 \/ restarts > 0 \/ now > 0

\* "All commands require TTL, idempotency, source identity, target identity,
\* and a result" (docs/mirror-protocol-boundary.md): also for the intents that
\* were answered as duplicates.
EveryIntentAnswered == \A i \in Intents : Unanswered(i) ~> ~ Unanswered(i)
=============================================================================
