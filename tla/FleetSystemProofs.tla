------------------------- MODULE FleetSystemProofs -------------------------
(***************************************************************************)
(* The controller and the agents that poll it, for any agents, commands,   *)
(* keys and versions, and any number of faults and restarts: what the      *)
(* controller promises on its own it keeps with real agents around it, an  *)
(* update runs once in an agent's life, a reported update is installed,    *)
(* and an answer stays.                                                    *)
(***************************************************************************)
EXTENDS FleetSystem, FleetControlProofs

-----------------------------------------------------------------------------
(* The invariants.                                                         *)

AgentRecord == [pc : {"idle", "poll", "start", "shell", "install", "readback",
                      "report", "down"},
                command : Command \cup {NoCommand},
                local_adb : LocalAdb,
                completed_idempotency : SUBSET Keys, result : Result]

Busy(me) == me.pc \notin {"idle", "poll", "down"}

\* An agent has a command of its own while it works on one, looks for the shell
\* only for an update it does not remember, and remembers what it has counted.
AgentSound(a, me, count) ==
    /\ Busy(me) => me.command \in Queueable /\ me.command.target_agent_id = a
    /\ me.pc \in {"install", "readback"} => me.command.kind \in UpdateKinds
    /\ me.pc \in {"shell", "install", "readback"} /\ me.command.kind \in UpdateKinds
         => me.command.idempotency_key \notin me.completed_idempotency
    /\ me.pc = "down" => me.completed_idempotency = {}
    /\ \A k \in Keys : /\ count[k] <= 1
                       /\ count[k] = 1 => k \in me.completed_idempotency

AgentsSound == \A a \in Fleet : AgentSound(a, agent[a], verified[a])

HeldQueueable == \A e \in Held : e.cmd \in Queueable

SystemInv == IInv /\ SystemTypeOK /\ HeldQueueable /\ AgentsSound

\* What an agent remembers or is about to report of its updates is installed.
UpdateSound(a, me, version) ==
    /\ \A k \in me.completed_idempotency :
          \E c \in Queueable : /\ c.kind \in UpdateKinds /\ SlotOf(c) = <<a, k>>
                               /\ RequestedVersion[c.command_id] <= version
    /\ me.pc = "report" /\ me.command.kind \in UpdateKinds
       /\ me.result.status \in {"completed", "skipped"}
         => RequestedVersion[me.command.command_id] <= version

UpdatesSound == \A a \in Fleet : UpdateSound(a, agent[a], installed[a])

\* As long as the controller lives: an agent works on a command that was handed
\* over to it, and no agent has the command of an answered intent any more.
WorkDelivered ==
    restarts = 0 => \A a \in Fleet : Busy(agent[a]) =>
                       \E e \in delivered : e.cmd = agent[a].command

AnswersSound ==
    restarts = 0 =>
       \A c \in CommandIds : \A i \in mirror_command_index[c] :
          mirror_intents[i].state # "queued_for_target" =>
             /\ \E e \in delivered : e.cmd.command_id = c
             /\ \A a \in Fleet : Busy(agent[a]) => agent[a].command.command_id # c

-----------------------------------------------------------------------------
(* The steps of an agent.                                                  *)

\* The command in hand is the one of before or was handed over by this step.
HasCommandOf(a, me) ==
    \/ Busy(agent[a]) /\ me.command = agent[a].command
    \/ \E e \in delivered' \ delivered : e.cmd = me.command

\* What a step makes of the agent, its count of installs and its package.
SoundStep(a) ==
    \E me \in AgentRecord, count \in [Keys -> Nat], version \in Nat :
       /\ agent' = [agent EXCEPT ![a] = me]
       /\ verified' = [verified EXCEPT ![a] = count]
       /\ installed' = [installed EXCEPT ![a] = version]
       /\ AgentSound(a, me, count)
       /\ Busy(me) => HasCommandOf(a, me)
       /\ UpdatesConsistent =>
             /\ installed[a] <= version
             /\ UpdateSound(a, agent[a], installed[a]) => UpdateSound(a, me, version)

\* The parts of SystemTypeOK that are not the controller's.
LEMMA AgentType ==
    ASSUME SystemTypeOK, NEW a \in Fleet
    PROVE  /\ agent \in [Fleet -> AgentRecord] /\ agent[a] \in AgentRecord
           /\ verified \in [Fleet -> [Keys -> Nat]] /\ installed \in [Fleet -> Nat]
           /\ verified[a] \in [Keys -> Nat] /\ installed[a] \in Nat
BY DEF SystemTypeOK, AgentRecord

LEMMA ResultOfType ==
    ASSUME NEW a \in Fleet, NEW status \in ResultStates, NEW u \in BOOLEAN
    PROVE  ResultOf(a, status, u) \in Result /\ ResultOf(a, status, u).status = status
<1>1. (status = "failed" /\ a \notin adb_up /\ Cmd(a).kind \in ShellKinds) \in BOOLEAN
  OBVIOUS
<1> DEFINE gone == (status = "failed" /\ a \notin adb_up /\ Cmd(a).kind \in ShellKinds)
<1>2. ResultOf(a, status, u) = [status |-> status, adb_unavailable |-> u, shell_gone |-> gone]
  BY DEF ResultOf
<1> HIDE DEF gone
<1>3. gone \in BOOLEAN
  BY <1>1 DEF gone
<1> QED
  BY <1>2, <1>3 DEF Result

\* The agent goes on with its command and keeps what it remembers and counts.
Goes(a, me) ==
    /\ me \in AgentRecord
    /\ agent' = [agent EXCEPT ![a] = me]
    /\ me.command = agent[a].command
    /\ me.completed_idempotency = agent[a].completed_idempotency

LEMMA FinishGoes ==
    ASSUME SystemTypeOK, NEW a \in Fleet, NEW status \in ResultStates, Finish(a, status)
    PROVE  \E me : Goes(a, me) /\ me.pc = "report" /\ me.result.status = status
<1> DEFINE me == [agent[a] EXCEPT !.pc = "report", !.result = ResultOf(a, status, FALSE)]
<1>1. agent[a] \in AgentRecord /\ ResultOf(a, status, FALSE) \in Result
      /\ ResultOf(a, status, FALSE).status = status
  BY AgentType, ResultOfType
<1>2. me \in AgentRecord /\ me.pc = "report" /\ me.result = ResultOf(a, status, FALSE)
      /\ me.command = agent[a].command
      /\ me.completed_idempotency = agent[a].completed_idempotency
  BY <1>1 DEF AgentRecord
<1>3. agent' = [agent EXCEPT ![a] = me]
  BY <1>1, AgentType DEF Finish, AgentRecord
<1> HIDE DEF me
<1> QED
  BY <1>1, <1>2, <1>3 DEF Goes

LEMMA FinishWithGoes ==
    ASSUME SystemTypeOK, NEW a \in Fleet, NEW status \in ResultStates,
           NEW adb \in LocalAdb, FinishWith(a, status, adb)
    PROVE  \E me : Goes(a, me) /\ me.pc = "report" /\ me.result.status = status
<1> DEFINE me == [agent[a] EXCEPT !.pc = "report", !.result = ResultOf(a, status, FALSE),
                                  !.local_adb = adb]
<1>1. agent[a] \in AgentRecord /\ ResultOf(a, status, FALSE) \in Result
      /\ ResultOf(a, status, FALSE).status = status
  BY AgentType, ResultOfType
<1>2. me \in AgentRecord /\ me.pc = "report" /\ me.result = ResultOf(a, status, FALSE)
      /\ me.command = agent[a].command
      /\ me.completed_idempotency = agent[a].completed_idempotency
  BY <1>1 DEF AgentRecord
<1>3. agent' = [agent EXCEPT ![a] = me]
  BY <1>1, AgentType DEF FinishWith, AgentRecord
<1> HIDE DEF me
<1> QED
  BY <1>1, <1>2, <1>3 DEF Goes

LEMMA QueueableType ==
    ASSUME NEW c \in Queueable
    PROVE  c \in Command /\ RequestedVersion[c.command_id] \in Nat
           /\ SlotOf(c) = <<c.target_agent_id, c.idempotency_key>>
           /\ c.idempotency_key \in Keys
<1>1. c \in Command
  BY FleetCommandType, ControlConstants DEF Queueable
<1> QED
  BY <1>1, SystemConstants DEF Command, SlotOf

\* A step with the command in hand that remembers nothing new.
LEMMA GoesSound ==
    ASSUME SystemTypeOK, AgentsSound, NEW a \in Fleet, NEW me, Goes(a, me),
           NEW version \in Nat, installed' = [installed EXCEPT ![a] = version],
           UNCHANGED verified,
           UpdatesConsistent => installed[a] <= version,
           me.pc # "down", Busy(me) => Busy(agent[a]),
           me.pc \in {"install", "readback"} => agent[a].command.kind \in UpdateKinds,
           me.pc \in {"shell", "install", "readback"} /\ agent[a].command.kind \in UpdateKinds
             => agent[a].command.idempotency_key \notin agent[a].completed_idempotency,
           me.pc = "report" /\ agent[a].command.kind \in UpdateKinds
           /\ me.result.status \in {"completed", "skipped"} /\ UpdatesConsistent
           /\ UpdateSound(a, agent[a], installed[a])
             => RequestedVersion[agent[a].command.command_id] <= version
    PROVE  SoundStep(a)
<1>1. /\ me \in AgentRecord /\ me.command = agent[a].command
      /\ me.completed_idempotency = agent[a].completed_idempotency
      /\ agent' = [agent EXCEPT ![a] = me]
  BY DEF Goes
<1>2. AgentSound(a, agent[a], verified[a])
  BY DEF AgentsSound
<1>3. verified' = [verified EXCEPT ![a] = verified[a]] /\ verified[a] \in [Keys -> Nat]
      /\ installed[a] \in Nat
  BY AgentType
<1>4. AgentSound(a, me, verified[a])
  BY <1>1, <1>2 DEF AgentSound
<1>5. ASSUME UpdatesConsistent, UpdateSound(a, agent[a], installed[a])
      PROVE  UpdateSound(a, me, version)
  <2>1. \A k \in me.completed_idempotency :
           \E c \in Queueable : /\ c.kind \in UpdateKinds /\ SlotOf(c) = <<a, k>>
                                /\ RequestedVersion[c.command_id] <= version
    BY <1>1, <1>3, <1>5, QueueableType DEF UpdateSound
  <2> QED
    BY <1>1, <1>5, <2>1 DEF UpdateSound
<1>6. Busy(me) => HasCommandOf(a, me)
  BY <1>1 DEF HasCommandOf
<1> QED
  BY <1>1, <1>3, <1>4, <1>5, <1>6 DEF SoundStep

\* The result of an update whose version is on the headset is remembered.
LEMMA RememberSound ==
    ASSUME SystemTypeOK, AgentsSound, NEW a \in Fleet, NEW status \in ResultStates,
           Busy(agent[a]), IsUpdate(a), FinishAndRemember(a, status), UNCHANGED installed,
           installed[a] >= Version(a),
           \/ UNCHANGED verified
           \/ /\ verified' = [verified EXCEPT ![a][Cmd(a).idempotency_key] = @ + 1]
              /\ Cmd(a).idempotency_key \notin agent[a].completed_idempotency
    PROVE  SoundStep(a)
<1> DEFINE key == Cmd(a).idempotency_key
           me == [agent[a] EXCEPT !.pc = "report", !.result = ResultOf(a, status, FALSE),
                                  !.completed_idempotency = @ \cup {key}]
<1>1. agent[a] \in AgentRecord /\ ResultOf(a, status, FALSE) \in Result
      /\ verified[a] \in [Keys -> Nat] /\ installed[a] \in Nat
  BY AgentType, ResultOfType
<1>2. /\ AgentSound(a, agent[a], verified[a])
      /\ Cmd(a) \in Queueable /\ Cmd(a).target_agent_id = a
      /\ key \in Keys /\ SlotOf(Cmd(a)) = <<a, key>> /\ Version(a) \in Nat
  BY QueueableType DEF AgentsSound, AgentSound, Cmd, Version
<1>3. me \in AgentRecord /\ me.pc = "report" /\ me.command = agent[a].command
      /\ me.completed_idempotency = agent[a].completed_idempotency \cup {key}
  BY <1>1, <1>2 DEF AgentRecord
<1>4. agent' = [agent EXCEPT ![a] = me]
  BY <1>1, AgentType DEF FinishAndRemember, AgentRecord
<1> HIDE DEF me, key
<1>5. PICK count \in [Keys -> Nat] :
         /\ verified' = [verified EXCEPT ![a] = count]
         /\ \A k \in Keys \ {key} : count[k] = verified[a][k]
         /\ \/ count[key] = verified[a][key]
            \/ count[key] = verified[a][key] + 1 /\ key \notin agent[a].completed_idempotency
  <2>1. CASE UNCHANGED verified
    BY <2>1, <1>1, AgentType
  <2>2. CASE /\ verified' = [verified EXCEPT ![a][Cmd(a).idempotency_key] = @ + 1]
             /\ Cmd(a).idempotency_key \notin agent[a].completed_idempotency
    <3> DEFINE count == [verified[a] EXCEPT ![key] = @ + 1]
    <3>1. verified' = [verified EXCEPT ![a] = count] /\ key \notin agent[a].completed_idempotency
      BY <2>2 DEF key
    <3>2. count \in [Keys -> Nat] /\ count[key] = verified[a][key] + 1
          /\ \A k \in Keys \ {key} : count[k] = verified[a][k]
      BY <1>1, <1>2
    <3> QED
      BY <3>1, <3>2
  <2> QED
    BY <2>1, <2>2
<1>6. AgentSound(a, me, count)
  <2>1. verified[a][key] \in Nat /\ count[key] \in Nat
    BY <1>1, <1>2
  <2>2. count[key] <= 1
    BY <1>2, <1>5, <2>1 DEF AgentSound
  <2> QED
    BY <1>2, <1>3, <1>5, <2>2 DEF AgentSound, Cmd
<1>7. installed' = [installed EXCEPT ![a] = installed[a]]
  BY AgentType
<1>8. ASSUME UpdateSound(a, agent[a], installed[a]) PROVE UpdateSound(a, me, installed[a])
  BY <1>1, <1>2, <1>3, <1>8 DEF UpdateSound, IsUpdate, Version, Cmd
<1>9. Busy(me) => HasCommandOf(a, me)
  BY <1>3 DEF HasCommandOf
<1>10. installed[a] <= installed[a]
  BY <1>1
<1> QED
  BY <1>1, <1>3, <1>4, <1>5, <1>6, <1>7, <1>8, <1>9, <1>10 DEF SoundStep

\* A process that ends, or starts again, remembers and counts nothing.
LEMMA FreshSound ==
    ASSUME SystemTypeOK, AgentsSound, NEW a \in Fleet, NEW pc \in {"idle", "down"},
           agent' = [agent EXCEPT ![a] = Fresh(pc)], UNCHANGED installed,
           \/ verified' = [verified EXCEPT ![a] = [k \in Keys |-> 0]]
           \/ UNCHANGED verified /\ agent[a].pc = "down"
    PROVE  SoundStep(a)
<1>1. /\ Fresh(pc) \in AgentRecord /\ Fresh(pc).pc = pc
      /\ Fresh(pc).completed_idempotency = {}
  BY DEF Fresh, AgentRecord, NoResult, Result, ResultStates, LocalAdb
<1>2. verified[a] \in [Keys -> Nat] /\ installed[a] \in Nat
      /\ installed' = [installed EXCEPT ![a] = installed[a]]
      /\ AgentSound(a, agent[a], verified[a])
  BY AgentType DEF AgentsSound
<1>3. PICK count \in [Keys -> Nat] : /\ verified' = [verified EXCEPT ![a] = count]
                                     /\ \A k \in Keys : count[k] = 0
  <2>1. CASE verified' = [verified EXCEPT ![a] = [k \in Keys |-> 0]]
    <3> DEFINE zeros == [k \in Keys |-> 0]
    <3>1. zeros \in [Keys -> Nat] /\ \A k \in Keys : zeros[k] = 0
      OBVIOUS
    <3>2. verified' = [verified EXCEPT ![a] = zeros]
      BY <2>1
    <3> HIDE DEF zeros
    <3> QED
      BY <3>1, <3>2
  <2>2. CASE UNCHANGED verified /\ agent[a].pc = "down"
    <3>1. verified' = [verified EXCEPT ![a] = verified[a]]
      BY <2>2, AgentType
    <3>2. ASSUME NEW k \in Keys PROVE verified[a][k] = 0
      <4>1. verified[a][k] \in Nat /\ verified[a][k] <= 1 /\ verified[a][k] # 1
        BY <2>2, <1>2 DEF AgentSound
      <4> QED
        BY <4>1
    <3> QED
      BY <1>2, <3>1, <3>2
  <2> QED
    BY <2>1, <2>2
<1>4. AgentSound(a, Fresh(pc), count) /\ ~ Busy(Fresh(pc))
  BY <1>1, <1>3 DEF AgentSound, Busy
<1>5. UpdateSound(a, Fresh(pc), installed[a]) /\ installed[a] <= installed[a]
  BY <1>1, <1>2 DEF UpdateSound
<1> QED
  BY <1>1, <1>2, <1>3, <1>4, <1>5 DEF SoundStep

\* Every step of an agent's own: its rounds but the poll and the report, its
\* death and its start.
AgentAlone(a) ==
    \/ Heartbeat(a) \/ Refuse(a) \/ RunLocal(a) \/ SkipRepeat(a) \/ CheckShell(a)
    \/ Disconnect(a) \/ EnsureShell(a) \/ RunShell(a) \/ Measure(a) \/ Install(a)
    \/ Readback(a) \/ Die(a) \/ Start(a)

LEMMA HeartbeatSound ==
    ASSUME SystemTypeOK, AgentsSound, NEW a \in Fleet, Heartbeat(a)
    PROVE  SoundStep(a)
<1> DEFINE seen == AfterHeartbeatCheck(a)
<1>1. seen \in LocalAdb /\ agent[a] \in AgentRecord /\ installed[a] \in Nat
      /\ installed' = [installed EXCEPT ![a] = installed[a]]
  BY AgentType DEF Heartbeat, deviceVars, AfterHeartbeatCheck, Checked, LocalAdb, AgentRecord
<1>2. PICK pc \in {"poll", "idle"} :
         \/ agent' = [agent EXCEPT ![a].local_adb = seen, ![a].pc = pc] /\ UNCHANGED verified
         \/ Dies(a)
  BY DEF Heartbeat
<1>3. CASE Dies(a)
  BY <1>3, FreshSound DEF Dies, Heartbeat, deviceVars
<1>4. CASE agent' = [agent EXCEPT ![a].local_adb = seen, ![a].pc = pc] /\ UNCHANGED verified
  <2> DEFINE me == [agent[a] EXCEPT !.local_adb = seen, !.pc = pc]
  <2> HIDE DEF seen
  <2>1. /\ me \in AgentRecord /\ me.pc = pc /\ me.command = agent[a].command
        /\ me.completed_idempotency = agent[a].completed_idempotency
    BY <1>1 DEF AgentRecord
  <2>2. agent' = [agent EXCEPT ![a] = me]
    BY <1>1, <1>4, AgentType DEF AgentRecord
  <2> HIDE DEF me
  <2>3. Goes(a, me)
    BY <2>1, <2>2 DEF Goes
  <2>4. ~ Busy(me) /\ me.pc # "down" /\ me.pc \notin {"shell", "install", "readback", "report"}
    BY <2>1 DEF Busy
  <2>5. installed[a] <= installed[a]
    BY <1>1
  <2> QED
    BY <1>1, <1>4, <2>3, <2>4, <2>5, GoesSound
<1> QED
  BY <1>2, <1>3, <1>4

LEMMA RepeatIsInstalled ==
    ASSUME SystemTypeOK, AgentsSound, NEW a \in Fleet, Busy(agent[a]), Repeated(a),
           UpdatesConsistent, UpdateSound(a, agent[a], installed[a])
    PROVE  Version(a) <= installed[a]
<1>1. Cmd(a) \in Queueable /\ Cmd(a).target_agent_id = a /\ IsUpdate(a)
      /\ Cmd(a).idempotency_key \in agent[a].completed_idempotency
  BY DEF AgentsSound, AgentSound, Cmd, Repeated
<1>2. PICK c \in Queueable : /\ c.kind \in UpdateKinds
                             /\ SlotOf(c) = <<a, Cmd(a).idempotency_key>>
                             /\ RequestedVersion[c.command_id] <= installed[a]
  BY <1>1 DEF UpdateSound
<1> QED
  BY <1>1, <1>2, QueueableType DEF UpdatesConsistent, OneVersionPerKey, IsUpdate, Version

LEMMA FinishSound ==
    ASSUME SystemTypeOK, AgentsSound, NEW a \in Fleet, NEW status \in ResultStates,
           Busy(agent[a]), UNCHANGED <<installed, verified>>,
           Finish(a, status) \/ \E adb \in LocalAdb : FinishWith(a, status, adb),
           status \in {"completed", "skipped"} => ~ IsUpdate(a) \/ Repeated(a)
    PROVE  SoundStep(a)
<1>1. PICK me : Goes(a, me) /\ me.pc = "report" /\ me.result.status = status
  BY FinishGoes, FinishWithGoes
<1>2. installed[a] \in Nat /\ installed' = [installed EXCEPT ![a] = installed[a]]
      /\ installed[a] <= installed[a]
  BY AgentType
<1>3. ASSUME agent[a].command.kind \in UpdateKinds, me.result.status \in {"completed", "skipped"},
             UpdatesConsistent, UpdateSound(a, agent[a], installed[a])
      PROVE  RequestedVersion[agent[a].command.command_id] <= installed[a]
  BY <1>1, <1>3, RepeatIsInstalled DEF IsUpdate, Cmd, Version
<1> QED
  BY <1>1, <1>2, <1>3, GoesSound

LEMMA StartedSound ==
    ASSUME SystemTypeOK, AgentsSound, NEW a \in Fleet,
           Refuse(a) \/ RunLocal(a) \/ SkipRepeat(a) \/ CheckShell(a) \/ Disconnect(a)
    PROVE  SoundStep(a)
<1>1. Busy(agent[a]) /\ UNCHANGED <<installed, verified>>
  BY DEF Refuse, RunLocal, SkipRepeat, CheckShell, Disconnect, Executable, AgentStep, Busy
<1>2. CASE Refuse(a)
  BY <1>1, <1>2, FinishSound DEF Refuse, ResultStates
<1>3. CASE RunLocal(a)
  BY <1>1, <1>3, FinishSound, SystemConstants DEF RunLocal, ResultStates, IsUpdate
<1>4. CASE SkipRepeat(a)
  BY <1>1, <1>4, FinishSound DEF SkipRepeat, ResultStates
<1>5. CASE CheckShell(a) \/ Disconnect(a)
  <2>1. \E status \in ResultStates, adb \in LocalAdb :
           /\ FinishWith(a, status, adb)
           /\ Cmd(a).kind \in CheckKinds \cup DisconnectKinds
    BY <1>5 DEF CheckShell, Disconnect, ResultStates, LocalAdb
  <2> QED
    BY <1>1, <2>1, FinishSound, SystemConstants DEF IsUpdate
<1> QED
  BY <1>2, <1>3, <1>4, <1>5

LEMMA EnsureShellSound ==
    ASSUME SystemTypeOK, AgentsSound, NEW a \in Fleet, EnsureShell(a)
    PROVE  SoundStep(a)
<1> DEFINE seen == IF ~ local_adb_enabled THEN "unavailable"
                   ELSE IF agent[a].local_adb = "available" THEN "available"
                   ELSE Checked(a)
           goes == [agent[a] EXCEPT !.local_adb = seen, !.pc = "shell"]
           ends == [agent[a] EXCEPT !.local_adb = seen, !.pc = "report",
                                    !.result = ResultOf(a, "rejected", TRUE)]
<1>1. /\ seen \in LocalAdb /\ agent[a] \in AgentRecord /\ installed[a] \in Nat
      /\ installed' = [installed EXCEPT ![a] = installed[a]] /\ installed[a] <= installed[a]
      /\ UNCHANGED verified /\ agent[a].pc = "start" /\ ~ Repeated(a)
  BY AgentType DEF EnsureShell, Executable, AgentStep, Checked, LocalAdb
<1>2. /\ ResultOf(a, "rejected", TRUE) \in Result
      /\ ResultOf(a, "rejected", TRUE).status = "rejected"
  BY ResultOfType DEF ResultStates
<1>3. agent' = [agent EXCEPT ![a].local_adb = seen, ![a].pc = "shell"]
      \/ agent' = [agent EXCEPT ![a].local_adb = seen, ![a].pc = "report",
                                ![a].result = ResultOf(a, "rejected", TRUE)]
  BY DEF EnsureShell
<1> HIDE DEF seen
<1>4. /\ goes \in AgentRecord /\ goes.pc = "shell" /\ goes.command = agent[a].command
      /\ goes.completed_idempotency = agent[a].completed_idempotency
  BY <1>1 DEF AgentRecord
<1>5. /\ ends \in AgentRecord /\ ends.pc = "report" /\ ends.command = agent[a].command
      /\ ends.completed_idempotency = agent[a].completed_idempotency
      /\ ends.result.status = "rejected"
  BY <1>1, <1>2 DEF AgentRecord
<1>6. agent' = [agent EXCEPT ![a] = goes] \/ agent' = [agent EXCEPT ![a] = ends]
  BY <1>1, <1>3, AgentType DEF AgentRecord
<1> HIDE DEF goes, ends
<1>7. CASE agent' = [agent EXCEPT ![a] = goes]
  <2>1. Goes(a, goes)
    BY <1>4, <1>7 DEF Goes
  <2>2. agent[a].command.kind \in UpdateKinds
          => agent[a].command.idempotency_key \notin agent[a].completed_idempotency
    BY <1>1 DEF Repeated, IsUpdate, Cmd
  <2> QED
    BY <1>1, <1>4, <2>1, <2>2, GoesSound DEF Busy
<1>8. CASE agent' = [agent EXCEPT ![a] = ends]
  <2>1. Goes(a, ends)
    BY <1>5, <1>8 DEF Goes
  <2> QED
    BY <1>1, <1>5, <2>1, GoesSound DEF Busy
<1> QED
  BY <1>6, <1>7, <1>8

\* The agent takes the next step of an update.
LEMMA NextStageGoes ==
    ASSUME SystemTypeOK, NEW a \in Fleet, NEW pc \in {"install", "readback"},
           agent' = [agent EXCEPT ![a].pc = pc]
    PROVE  \E me : Goes(a, me) /\ me.pc = pc
<1> DEFINE me == [agent[a] EXCEPT !.pc = pc]
<1>1. agent[a] \in AgentRecord
  BY AgentType
<1>2. me \in AgentRecord /\ me.pc = pc /\ me.command = agent[a].command
      /\ me.completed_idempotency = agent[a].completed_idempotency
  BY <1>1 DEF AgentRecord
<1>3. agent' = [agent EXCEPT ![a] = me]
  BY <1>1, AgentType DEF AgentRecord
<1> HIDE DEF me
<1> QED
  BY <1>2, <1>3 DEF Goes

LEMMA UpdateStepsSound ==
    ASSUME SystemTypeOK, AgentsSound, NEW a \in Fleet,
           RunShell(a) \/ Measure(a) \/ Install(a) \/ Readback(a)
    PROVE  SoundStep(a)
<1>1. /\ Busy(agent[a]) /\ agent[a].pc \in {"shell", "install", "readback"}
      /\ Cmd(a) = agent[a].command /\ Cmd(a) \in Queueable
      /\ IsUpdate(a) => Cmd(a).idempotency_key \notin agent[a].completed_idempotency
      /\ agent[a].pc \in {"install", "readback"} => IsUpdate(a)
  BY DEF RunShell, Measure, Install, Readback, AgentStep, Busy, AgentsSound, AgentSound, Cmd,
         IsUpdate
<1>2. installed[a] \in Nat /\ installed[a] <= installed[a] /\ Version(a) \in Nat
  BY <1>1, AgentType, QueueableType DEF Version
<1>3. ASSUME NEW status \in ResultStates, Finish(a, status), UNCHANGED <<installed, verified>>,
             status \in {"completed", "skipped"} => ~ IsUpdate(a)
      PROVE  SoundStep(a)
  BY <1>1, <1>3, FinishSound
<1>4. CASE RunShell(a)
  BY <1>3, <1>4 DEF RunShell, ResultStates
<1>5. CASE Measure(a)
  <2>1. CASE UpToDate(a) /\ FinishAndRemember(a, "skipped")
    BY <1>1, <1>5, <2>1, RememberSound DEF Measure, UpToDate, ResultStates
  <2>2. CASE agent' = [agent EXCEPT ![a].pc = "install"]
    <3>1. PICK me : Goes(a, me) /\ me.pc = "install"
      BY <2>2, NextStageGoes
    <3>2. UNCHANGED verified /\ installed' = [installed EXCEPT ![a] = installed[a]] /\ IsUpdate(a)
      BY <1>5, AgentType DEF Measure
    <3> QED
      BY <1>1, <1>2, <3>1, <3>2, GoesSound DEF IsUpdate
  <2>3. CASE Finish(a, "rejected")
    BY <1>3, <1>5, <2>3 DEF Measure, ResultStates
  <2> QED
    BY <1>5, <2>1, <2>2, <2>3 DEF Measure
<1>6. CASE Install(a)
  <2>1. CASE Finish(a, "failed") /\ UNCHANGED installed
    BY <1>3, <1>6, <2>1 DEF Install, ResultStates
  <2>2. CASE /\ installed[a] <= Version(a) \/ Cmd(a).command_id \in Downgradable
             /\ installed' = [installed EXCEPT ![a] = Version(a)]
             /\ agent' = [agent EXCEPT ![a].pc = "readback"] \/ Finish(a, "failed")
    <3>1. PICK me : /\ Goes(a, me) /\ me.pc \in {"readback", "report"}
                    /\ me.pc = "report" => me.result.status = "failed"
      <4>1. CASE agent' = [agent EXCEPT ![a].pc = "readback"]
        BY <4>1, NextStageGoes
      <4>2. CASE Finish(a, "failed")
        BY <4>2, FinishGoes DEF ResultStates
      <4> QED
        BY <2>2, <4>1, <4>2
    <3>2. UNCHANGED verified /\ IsUpdate(a)
      BY <1>1, <1>6 DEF Install, AgentStep
    <3>3. UpdatesConsistent => installed[a] <= Version(a)
      BY <2>2 DEF UpdatesConsistent
    <3> QED
      BY <1>1, <1>2, <2>2, <3>1, <3>2, <3>3, GoesSound DEF IsUpdate
  <2> QED
    BY <1>6, <2>1, <2>2 DEF Install
<1>7. CASE Readback(a)
  <2>1. CASE Finish(a, "failed") /\ UNCHANGED verified
    BY <1>3, <1>7, <2>1 DEF Readback, ResultStates
  <2>2. CASE /\ installed[a] = Version(a)
             /\ FinishAndRemember(a, "completed") \/ FinishAndRemember(a, "failed")
             /\ verified' = [verified EXCEPT ![a][Cmd(a).idempotency_key] = @ + 1]
    <3>1. IsUpdate(a) /\ UNCHANGED installed /\ installed[a] >= Version(a)
      BY <1>1, <1>2, <1>7, <2>2 DEF Readback, AgentStep
    <3> QED
      BY <1>1, <2>2, <3>1, RememberSound DEF ResultStates
  <2> QED
    BY <1>7, <2>1, <2>2 DEF Readback
<1> QED
  BY <1>4, <1>5, <1>6, <1>7

LEMMA AgentAloneSound ==
    ASSUME SystemTypeOK, AgentsSound, NEW a \in Fleet, AgentAlone(a)
    PROVE  SoundStep(a)
<1>1. CASE Die(a) \/ Start(a)
  BY <1>1, FreshSound DEF Die, Dies, Start, deviceVars, historyVars
<1> QED
  BY <1>1, HeartbeatSound, StartedSound, EnsureShellSound, UpdateStepsSound DEF AgentAlone

\* What such a step does to all agents.
LEMMA SoundStepKeeps ==
    ASSUME SystemTypeOK, AgentsSound, NEW a \in Fleet, SoundStep(a)
    PROVE  /\ agent' \in [Fleet -> AgentRecord]
           /\ verified' \in [Fleet -> [Keys -> Nat]] /\ installed' \in [Fleet -> Nat]
           /\ AgentsSound'
           /\ \A b \in Fleet : Busy(agent'[b]) => HasCommandOf(b, agent'[b])
           /\ UpdatesConsistent =>
                 /\ \A b \in Fleet : installed[b] <= installed'[b]
                 /\ UpdatesSound => UpdatesSound'
<1>1. PICK me \in AgentRecord, count \in [Keys -> Nat], version \in Nat :
         /\ agent' = [agent EXCEPT ![a] = me]
         /\ verified' = [verified EXCEPT ![a] = count]
         /\ installed' = [installed EXCEPT ![a] = version]
         /\ AgentSound(a, me, count)
         /\ Busy(me) => HasCommandOf(a, me)
         /\ UpdatesConsistent =>
               /\ installed[a] <= version
               /\ UpdateSound(a, agent[a], installed[a]) => UpdateSound(a, me, version)
  BY DEF SoundStep
<1>2. /\ agent \in [Fleet -> AgentRecord] /\ verified \in [Fleet -> [Keys -> Nat]]
      /\ installed \in [Fleet -> Nat]
  BY AgentType
<1>3. /\ agent'[a] = me /\ verified'[a] = count /\ installed'[a] = version
      /\ \A b \in Fleet \ {a} : /\ agent'[b] = agent[b] /\ verified'[b] = verified[b]
                                /\ installed'[b] = installed[b]
  BY <1>1, <1>2
<1>4. AgentsSound'
  <2> SUFFICES ASSUME NEW b \in Fleet PROVE AgentSound(b, agent'[b], verified'[b])
    BY DEF AgentsSound, AgentSound, Busy
  <2> QED
    BY <1>1, <1>3 DEF AgentsSound
<1>5. \A b \in Fleet : Busy(agent'[b]) => HasCommandOf(b, agent'[b])
  BY <1>1, <1>3 DEF HasCommandOf
<1>6. UpdatesConsistent => \A b \in Fleet : installed[b] <= installed'[b]
  BY <1>1, <1>2, <1>3
<1>7. UpdatesConsistent /\ UpdatesSound => UpdatesSound'
  <2> SUFFICES ASSUME UpdatesConsistent, UpdatesSound, NEW b \in Fleet
               PROVE  UpdateSound(b, agent'[b], installed'[b])
    BY DEF UpdatesSound, UpdateSound
  <2> QED
    BY <1>1, <1>3 DEF UpdatesSound
<1> QED
  BY <1>1, <1>2, <1>4, <1>5, <1>6, <1>7

-----------------------------------------------------------------------------
(* The controller in the system.                                           *)

\* What is queued is what clients asked for.
LEMMA ControllerHolds ==
    ASSUME IInv, HeldQueueable, [Next]_vars
    PROVE  HeldQueueable'
<1>0. TypeOK /\ SlotInv
  BY DEF IInv
<1>1. ASSUME NEW c \in Queueable, Enqueue(c), UNCHANGED delivered PROVE HeldQueueable'
  <2>1. Held' = Held \cup {[cmd |-> c, arrival |-> serial]}
    BY <1>0, <1>1, EnqueueHeld, QueueableType
  <2> QED
    BY <2>1 DEF HeldQueueable
<1>2. ASSUME Held' \subseteq Held PROVE HeldQueueable'
  BY <1>2 DEF HeldQueueable
<1>3. CASE QueueCommand
  BY <1>1, <1>3 DEF QueueCommand, queue_command, Queueable
<1>4. CASE NextCommand
  BY <1>0, <1>2, <1>4, PollKeepsLive DEF NextCommand
<1>5. CASE SubmitIntent
  <2>1. PICK r \in IntentRequests : submit_mirror_intent(r)
    BY <1>5 DEF SubmitIntent
  <2>2. UNCHANGED delivered /\ (Enqueue(FleetCommand(r)) \/ UNCHANGED commands)
    BY <2>1 DEF submit_mirror_intent, reject_mirror_intent
  <2>3. UNCHANGED <<commands, delivered>> => Held' \subseteq Held
    BY DEF Held, Waiting
  <2> QED
    BY <1>1, <1>2, <2>2, <2>3 DEF Queueable
<1>6. CASE UNCHANGED <<commands, delivered>>
  BY <1>2, <1>6 DEF Held, Waiting
<1> QED
  BY <1>3, <1>4, <1>5, <1>6
     DEF Next, CreateLease, create_mirror_lease, RevokeLease, revoke_mirror_lease,
         RecordResult, record_result, ClockTick, Tick, queueVars, vars

\* The agent that polls takes over a command from its queue, goes back to idle
\* or dies of the lost response.
LEMMA PollTakes ==
    ASSUME SystemInv, NEW a \in Fleet, Poll(a)
    PROVE  /\ [Next]_vars
           /\ \/ agent' = [agent EXCEPT ![a].pc = "idle"] /\ UNCHANGED verified
              \/ Dies(a)
              \/ /\ \E e \in commands[a] \ delivered :
                       /\ e \in delivered'
                       /\ agent' = [agent EXCEPT ![a].pc = "start", ![a].command = e.cmd]
                 /\ UNCHANGED verified
<1>1. a \in Agents
  BY SystemConstants
<1>2. CASE commands[a] = {} /\ agent' = [agent EXCEPT ![a].pc = "idle"] /\ UNCHANGED vars
           /\ UNCHANGED verified
  BY <1>2
<1>3. CASE next_command(a) /\ UNCHANGED <<mirrorVars, latest_adb_unavailable>>
  <2>1. NextCommand
    BY <1>1, <1>3 DEF NextCommand
  <2>2. \A e \in delivered' \ delivered : e \in commands[a] \ delivered /\ e \in delivered'
    BY <1>3 DEF next_command, Live
  <2>3. \/ agent' = [agent EXCEPT ![a].pc = "idle"] /\ UNCHANGED verified
        \/ Dies(a)
        \/ /\ \E e \in delivered' \ delivered :
                 agent' = [agent EXCEPT ![a].pc = "start", ![a].command = e.cmd]
           /\ UNCHANGED verified
        \/ commands[a] = {}
    BY DEF Poll
  <2>4. commands[a] # {}
    BY <1>3 DEF next_command
  <2> QED
    BY <2>1, <2>2, <2>3, <2>4 DEF Next
<1> QED
  BY <1>2, <1>3 DEF Poll

\* An agent that ends its round has no command any more.
LEMMA IdleSound ==
    ASSUME SystemTypeOK, AgentsSound, NEW a \in Fleet, NEW me \in AgentRecord,
           agent' = [agent EXCEPT ![a] = me], me.pc = "idle",
           me.completed_idempotency = agent[a].completed_idempotency,
           UNCHANGED <<verified, installed>>
    PROVE  SoundStep(a)
<1>1. /\ verified' = [verified EXCEPT ![a] = verified[a]] /\ verified[a] \in [Keys -> Nat]
      /\ installed' = [installed EXCEPT ![a] = installed[a]] /\ installed[a] \in Nat
      /\ installed[a] <= installed[a]
  BY AgentType
<1>2. AgentSound(a, me, verified[a]) /\ ~ Busy(me)
  BY DEF AgentsSound, AgentSound, Busy
<1>3. UpdateSound(a, agent[a], installed[a]) => UpdateSound(a, me, installed[a])
  BY DEF UpdateSound
<1> QED
  BY <1>1, <1>2, <1>3 DEF SoundStep

LEMMA PollSound ==
    ASSUME SystemInv, NEW a \in Fleet, Poll(a)
    PROVE  SoundStep(a)
<1>1. /\ SystemTypeOK /\ AgentsSound /\ UNCHANGED installed /\ agent[a] \in AgentRecord
      /\ installed[a] \in Nat /\ installed[a] <= installed[a] /\ verified[a] \in [Keys -> Nat]
      /\ AgentSound(a, agent[a], verified[a])
  BY AgentType DEF SystemInv, Poll, deviceVars, AgentsSound
<1>2. CASE agent' = [agent EXCEPT ![a].pc = "idle"] /\ UNCHANGED verified
  <2> DEFINE me == [agent[a] EXCEPT !.pc = "idle"]
  <2>1. /\ me \in AgentRecord /\ me.pc = "idle"
        /\ me.completed_idempotency = agent[a].completed_idempotency
    BY <1>1 DEF AgentRecord
  <2>2. agent' = [agent EXCEPT ![a] = me]
    BY <1>1, <1>2, AgentType DEF AgentRecord
  <2> HIDE DEF me
  <2> QED
    BY <1>1, <1>2, <2>1, <2>2, IdleSound
<1>3. CASE Dies(a)
  BY <1>1, <1>3, FreshSound DEF Dies
<1>4. CASE /\ \E e \in commands[a] \ delivered :
                 /\ e \in delivered'
                 /\ agent' = [agent EXCEPT ![a].pc = "start", ![a].command = e.cmd]
           /\ UNCHANGED verified
  <2>1. PICK e \in commands[a] \ delivered :
           /\ e \in delivered'
           /\ agent' = [agent EXCEPT ![a].pc = "start", ![a].command = e.cmd]
    BY <1>4
  <2>2. a \in Agents /\ e \in Held /\ e.cmd.target_agent_id = a
    BY <2>1, SystemConstants DEF SystemInv, IInv, SlotInv, EntriesInPlace, Held, Waiting
  <2>3. e.cmd \in Queueable /\ e.cmd \in Command
    BY <2>2, QueueableType DEF SystemInv, HeldQueueable
  <2> DEFINE me == [agent[a] EXCEPT !.pc = "start", !.command = e.cmd]
  <2>4. /\ me \in AgentRecord /\ me.pc = "start" /\ me.command = e.cmd
        /\ me.completed_idempotency = agent[a].completed_idempotency
    BY <1>1, <2>3 DEF AgentRecord
  <2>5. agent' = [agent EXCEPT ![a] = me]
    BY <1>1, <2>1, AgentType DEF AgentRecord
  <2> HIDE DEF me
  <2>6. AgentSound(a, me, verified[a])
    BY <1>1, <2>2, <2>3, <2>4 DEF AgentSound
  <2>7. UpdateSound(a, agent[a], installed[a]) => UpdateSound(a, me, installed[a])
    BY <2>4 DEF UpdateSound
  <2>8. HasCommandOf(a, me)
    BY <2>1, <2>4 DEF HasCommandOf
  <2>9. /\ verified' = [verified EXCEPT ![a] = verified[a]]
        /\ installed' = [installed EXCEPT ![a] = installed[a]]
    BY <1>1, <1>4, AgentType
  <2> QED
    BY <1>1, <2>4, <2>5, <2>6, <2>7, <2>8, <2>9 DEF SoundStep
<1> QED
  BY <1>2, <1>3, <1>4, PollTakes

\* The agent that reports has a command of its own.
LEMMA ReportFacts ==
    ASSUME SystemInv, NEW a \in Fleet, Report(a)
    PROVE  /\ Busy(agent[a]) /\ Cmd(a) \in Queueable /\ Cmd(a).target_agent_id = a
           /\ Cmd(a) = agent[a].command /\ Cmd(a).command_id \in CommandIds /\ a \in Agents
           /\ agent[a].result.status \in ResultStates
           /\ agent[a].result.adb_unavailable \in BOOLEAN
<1>1. agent[a] \in AgentRecord /\ AgentSound(a, agent[a], verified[a]) /\ agent[a].pc = "report"
  BY AgentType DEF SystemInv, AgentsSound, Report
<1>2. Busy(agent[a]) /\ Cmd(a) \in Queueable /\ Cmd(a).target_agent_id = a
  BY <1>1 DEF AgentSound, Busy, Cmd
<1>3. Cmd(a).command_id \in CommandIds
  BY <1>2, QueueableType DEF Command
<1>4. agent[a].result \in Result
  BY <1>1 DEF AgentRecord
<1> QED
  BY <1>2, <1>3, <1>4, SystemConstants DEF Cmd, Result

LEMMA ReportSound ==
    ASSUME SystemInv, NEW a \in Fleet, Report(a)
    PROVE  SoundStep(a)
<1>1. SystemTypeOK /\ AgentsSound /\ UNCHANGED installed /\ agent[a] \in AgentRecord
  BY AgentType DEF SystemInv, Report, deviceVars
<1>2. CASE RoundDone(a) /\ UNCHANGED verified
  <2> DEFINE me == [agent[a] EXCEPT !.pc = "idle", !.command = NoCommand, !.result = NoResult]
  <2>1. NoResult \in Result
    BY DEF NoResult, Result, ResultStates
  <2>2. /\ me \in AgentRecord /\ me.pc = "idle"
        /\ me.completed_idempotency = agent[a].completed_idempotency
    BY <1>1, <2>1 DEF AgentRecord
  <2>3. agent' = [agent EXCEPT ![a] = me]
    BY <1>1, <1>2, AgentType DEF RoundDone, AgentRecord
  <2> HIDE DEF me
  <2> QED
    BY <1>1, <1>2, <2>2, <2>3, IdleSound
<1>3. CASE Dies(a)
  BY <1>1, <1>3, FreshSound DEF Dies
<1> QED
  BY <1>2, <1>3 DEF Report

-----------------------------------------------------------------------------
(* Every step of the system.                                               *)

LEMMA AgentAloneFrame ==
    ASSUME NEW a \in Fleet, AgentAlone(a)
    PROVE  UNCHANGED <<vars, reported, restarts>>
BY DEF AgentAlone, Heartbeat, Refuse, RunLocal, SkipRepeat, CheckShell, Disconnect,
       EnsureShell, RunShell, Measure, Install, Readback, Die, Start, Executable,
       AgentStep, historyVars

\* The kinds of steps the proofs below tell apart.
LEMMA SystemCases ==
    ASSUME [SystemNext]_allVars
    PROVE  \/ ControllerRequest
           \/ \E a \in Fleet : AgentAlone(a) \/ Poll(a) \/ Report(a) \/ AdbChange(a)
           \/ ControllerRestart
           \/ UNCHANGED <<vars, systemVars>>
BY DEF SystemNext, RunOnce, AgentAlone, allVars

\* One agent takes a sound step, or none does anything.
LEMMA AgentsStep ==
    ASSUME SystemInv, [SystemNext]_allVars
    PROVE  (\E a \in Fleet : SoundStep(a)) \/ UNCHANGED <<agent, verified, installed>>
<1>1. SystemTypeOK /\ AgentsSound
  BY DEF SystemInv
<1>2. CASE \E a \in Fleet : AgentAlone(a) \/ Poll(a) \/ Report(a)
  BY <1>1, <1>2, AgentAloneSound, PollSound, ReportSound
<1>3. CASE \/ ControllerRequest \/ (\E a \in Fleet : AdbChange(a)) \/ ControllerRestart
           \/ UNCHANGED <<vars, systemVars>>
  BY <1>3 DEF ControllerRequest, AdbChange, ControllerRestart, systemVars, deviceVars,
              historyVars
<1> QED
  BY <1>2, <1>3, SystemCases

\* ... and so all of them keep their types and stay sound.
LEMMA AgentsKept ==
    ASSUME SystemInv, [SystemNext]_allVars
    PROVE  /\ agent' \in [Fleet -> AgentRecord]
           /\ verified' \in [Fleet -> [Keys -> Nat]] /\ installed' \in [Fleet -> Nat]
           /\ AgentsSound'
           /\ \A b \in Fleet : Busy(agent'[b]) => HasCommandOf(b, agent'[b])
           /\ UpdatesConsistent =>
                 /\ \A b \in Fleet : installed[b] <= installed'[b]
                 /\ UpdatesSound => UpdatesSound'
<1>1. SystemTypeOK /\ AgentsSound
  BY DEF SystemInv
<1>2. CASE \E a \in Fleet : SoundStep(a)
  BY <1>1, <1>2, SoundStepKeeps
<1>3. CASE UNCHANGED <<agent, verified, installed>>
  <2>1. /\ agent \in [Fleet -> AgentRecord] /\ verified \in [Fleet -> [Keys -> Nat]]
        /\ installed \in [Fleet -> Nat]
    BY <1>1 DEF SystemTypeOK, AgentRecord
  <2>2. AgentsSound' /\ (UpdatesSound => UpdatesSound')
    BY <1>1, <1>3 DEF AgentsSound, UpdatesSound, AgentSound, UpdateSound, Busy
  <2>3. \A b \in Fleet : installed[b] <= installed'[b]
    BY <1>3, <2>1
  <2> QED
    BY <1>3, <2>1, <2>2, <2>3 DEF HasCommandOf
<1> QED
  BY <1>2, <1>3, AgentsStep

\* A new controller has nothing and promises nothing yet.
LEMMA RestartKeeps ==
    ASSUME SystemInv, ControllerRestart
    PROVE  IInv' /\ Held' = {}
<1>1. /\ TypeOK /\ now' = now /\ serial' = serial /\ serial <= MaxSerial
      /\ commands' = [a \in Agents |-> {}] /\ delivered' = {}
      /\ idempotency_index' = [s \in Slot |-> NoCommand]
      /\ mirror_leases' = [l \in Leases |-> NoMirrorLease]
      /\ mirror_intents' = [i \in Intents |-> NoIntent]
      /\ mirror_events' = [l \in Leases |-> {}]
      /\ mirror_command_index' = [c \in CommandIds |-> {}]
      /\ latest_adb_unavailable' = {}
  BY DEF ControllerRestart, SystemInv, IInv
<1>2. Held' = {} /\ Waiting' = {}
  BY <1>1 DEF Held, Waiting
<1>3. TypeOK'
  BY <1>1 DEF TypeOK, QueueTypeOK
<1>4. SlotInv'
  BY <1>1, <1>2 DEF SlotInv, EntriesInPlace, SlotHoldsOneCommand, IndexIsExact
<1>5. CorrelationInv'
  BY <1>1, <1>2 DEF CorrelationInv, ListedIntentsAdmitted, MirrorCommandCorrelated
<1>6. EventInv'
  BY <1>1 DEF EventInv, EventsPast, EventLogAgrees
<1> QED
  BY <1>1, <1>2, <1>3, <1>4, <1>5, <1>6 DEF IInv

\* The controller keeps its promises with real agents and restarts around it.
LEMMA ControllerKept ==
    ASSUME SystemInv, [SystemNext]_allVars
    PROVE  IInv' /\ HeldQueueable'
<1>1. IInv /\ HeldQueueable
  BY DEF SystemInv
<1>2. ASSUME [Next]_vars PROVE IInv' /\ HeldQueueable'
  BY <1>1, <1>2, InvStep, ControllerHolds
<1>3. CASE ControllerRequest
  BY <1>2, <1>3 DEF ControllerRequest, Next
<1>4. CASE \E a \in Fleet : AgentAlone(a) \/ AdbChange(a)
  BY <1>2, <1>4, AgentAloneFrame DEF AdbChange
<1>5. CASE \E a \in Fleet : Poll(a)
  BY <1>2, <1>5, PollTakes
<1>6. ASSUME NEW a \in Fleet, Report(a) PROVE IInv' /\ HeldQueueable'
  <2>1. record_result(Cmd(a).command_id, a, agent[a].result.status,
                      agent[a].result.adb_unavailable)
    BY <1>6 DEF Report
  <2>2. IInv'
    BY <1>1, <1>6, <2>1, ReportFacts, ResultKeeps
  <2>3. UNCHANGED <<commands, delivered>>
    BY <2>1 DEF record_result
  <2> QED
    BY <1>1, <2>2, <2>3 DEF HeldQueueable, Held, Waiting
<1>7. CASE ControllerRestart
  BY <1>7, RestartKeeps DEF HeldQueueable
<1>8. CASE UNCHANGED <<vars, systemVars>>
  BY <1>2, <1>8
<1> QED
  BY <1>3, <1>4, <1>5, <1>6, <1>7, <1>8, SystemCases

\* The rest of the types: what surrounds the agents and what they reported.
LEMMA SurroundingsTypes ==
    ASSUME SystemInv, [SystemNext]_allVars
    PROVE  /\ adb_up' \subseteq Fleet /\ heartbeats' \in [Fleet -> LocalAdb \cup {"none"}]
           /\ faults' \in 0 .. MaxFaults /\ restarts' \in 0 .. MaxRestarts
           /\ reported' \subseteq [agent : Fleet, command_id : CommandIds,
                                   status : ResultStates]
           /\ shell_gone' \subseteq Fleet
<1>1. /\ adb_up \subseteq Fleet /\ heartbeats \in [Fleet -> LocalAdb \cup {"none"}]
      /\ faults \in 0 .. MaxFaults /\ restarts \in 0 .. MaxRestarts
      /\ reported \subseteq [agent : Fleet, command_id : CommandIds, status : ResultStates]
      /\ shell_gone \subseteq Fleet /\ MaxFaults \in Nat /\ MaxRestarts \in Nat
  BY SystemConstants DEF SystemInv, SystemTypeOK
<1>2. Fault => faults' \in 0 .. MaxFaults
  BY <1>1 DEF Fault
<1>3. ASSUME NEW a \in Fleet, Heartbeat(a)
      PROVE  heartbeats' \in [Fleet -> LocalAdb \cup {"none"}]
             /\ UNCHANGED <<adb_up, restarts, reported, shell_gone>>
             /\ (Fault \/ UNCHANGED faults)
  <2> DEFINE seen == AfterHeartbeatCheck(a)
  <2>1. seen \in LocalAdb
    <3>1. agent[a] \in AgentRecord
      BY AgentType DEF SystemInv
    <3> QED
      BY <3>1 DEF AfterHeartbeatCheck, Checked, LocalAdb, AgentRecord
  <2>2. heartbeats' = [heartbeats EXCEPT ![a] = seen] \/ UNCHANGED heartbeats
    BY <1>3 DEF Heartbeat
  <2>3. UNCHANGED <<adb_up, restarts, reported, shell_gone>> /\ (Fault \/ UNCHANGED faults)
    BY <1>3 DEF Heartbeat, deviceVars
  <2> HIDE DEF seen
  <2> QED
    BY <1>1, <2>1, <2>2, <2>3
<1>4. ASSUME NEW a \in Fleet, AgentAlone(a), ~ Heartbeat(a)
      PROVE  UNCHANGED <<adb_up, heartbeats, restarts, reported, shell_gone>>
             /\ (Fault \/ UNCHANGED faults)
  BY <1>4 DEF AgentAlone, Refuse, RunLocal, SkipRepeat, CheckShell, Disconnect, EnsureShell,
              RunShell, Measure, Install, Readback, Die, Start, Executable, AgentStep,
              deviceVars, historyVars
<1>5. ASSUME NEW a \in Fleet, Poll(a)
      PROVE  UNCHANGED <<adb_up, heartbeats, restarts, reported, shell_gone>>
             /\ (Fault \/ UNCHANGED faults)
  BY <1>5 DEF Poll, deviceVars
<1>6. ASSUME NEW a \in Fleet, Report(a)
      PROVE  /\ UNCHANGED <<adb_up, heartbeats, restarts>> /\ (Fault \/ UNCHANGED faults)
             /\ reported' \subseteq [agent : Fleet, command_id : CommandIds,
                                     status : ResultStates]
             /\ shell_gone' \subseteq Fleet
  <2>1. [agent |-> a, command_id |-> Cmd(a).command_id, status |-> agent[a].result.status]
          \in [agent : Fleet, command_id : CommandIds, status : ResultStates]
    BY <1>6, ReportFacts
  <2>2. reported' \subseteq [agent : Fleet, command_id : CommandIds, status : ResultStates]
    BY <1>1, <1>6, <2>1 DEF Report
  <2> QED
    BY <1>1, <1>6, <2>2 DEF Report, deviceVars
<1>7. ASSUME NEW a \in Fleet, AdbChange(a)
      PROVE  /\ adb_up' \subseteq Fleet /\ Fault
             /\ UNCHANGED <<heartbeats, restarts, reported, shell_gone>>
  BY <1>1, <1>7 DEF AdbChange, historyVars
<1>8. CASE \E a \in Fleet : AgentAlone(a) \/ Poll(a) \/ Report(a) \/ AdbChange(a)
  BY <1>1, <1>2, <1>3, <1>4, <1>5, <1>6, <1>7, <1>8
<1>9. CASE ControllerRestart
  BY <1>1, <1>9 DEF ControllerRestart, deviceVars
<1>10. CASE ControllerRequest \/ UNCHANGED <<vars, systemVars>>
  BY <1>1, <1>10 DEF ControllerRequest, systemVars, deviceVars, historyVars
<1> QED
  BY <1>8, <1>9, <1>10, SystemCases

LEMMA SystemInitInv == SystemInit => SystemInv
<1> SUFFICES ASSUME SystemInit PROVE SystemInv
  OBVIOUS
<1>1. IInv /\ TypeOK /\ Held = {}
  BY InitInv DEF SystemInit, IInv, Init, QueueInit, Held, Waiting
<1>2. /\ Fresh("idle") \in AgentRecord /\ Fresh("idle").pc = "idle"
      /\ Fresh("idle").completed_idempotency = {}
  BY DEF Fresh, AgentRecord, NoResult, Result, ResultStates, LocalAdb
<1>3. agent \in [Fleet -> AgentRecord] /\ verified \in [Fleet -> [Keys -> Nat]]
  BY <1>2 DEF SystemInit
<1>4. SystemTypeOK
  BY <1>1, <1>3, SystemConstants DEF SystemInit, SystemTypeOK, AgentRecord, LocalAdb
<1>5. AgentsSound
  <2> SUFFICES ASSUME NEW a \in Fleet PROVE AgentSound(a, agent[a], verified[a])
    BY DEF AgentsSound
  <2>1. agent[a] = Fresh("idle") /\ \A k \in Keys : verified[a][k] = 0
    BY DEF SystemInit
  <2> QED
    BY <1>2, <2>1 DEF AgentSound, Busy
<1> QED
  BY <1>1, <1>4, <1>5 DEF SystemInv, HeldQueueable

LEMMA SystemStep == SystemInv /\ [SystemNext]_allVars => SystemInv'
<1> SUFFICES ASSUME SystemInv, [SystemNext]_allVars PROVE SystemInv'
  OBVIOUS
<1>1. IInv' /\ HeldQueueable' /\ AgentsSound'
  BY ControllerKept, AgentsKept
<1>2. TypeOK'
  BY <1>1 DEF IInv
<1>3. SystemTypeOK'
  BY <1>2, AgentsKept, SurroundingsTypes DEF SystemTypeOK, AgentRecord
<1> QED
  BY <1>1, <1>3 DEF SystemInv

\* The invariant of the whole system, from which the theorems follow.
THEOREM SystemInductive == SystemSpec => []SystemInv
<1> QED
  BY SystemInitInv, SystemStep, PTL DEF SystemSpec

\* Type correctness of controller, agents and headsets: SystemTypeOK of the runs.
THEOREM SystemTypes == SystemSpec => []SystemTypeOK
<1>1. SystemInv => SystemTypeOK
  BY DEF SystemInv
<1> QED
  BY <1>1, SystemInductive, PTL

\* Whatever agents do, and through restarts of the controller, two commands
\* that wait or were handed over never share an idempotency key of an agent.
THEOREM SlotsInSystem == SystemSpec => []SlotHoldsOneCommand
<1>1. SystemInv => SlotHoldsOneCommand
  BY DEF SystemInv, IInv, SlotInv
<1> QED
  BY <1>1, SystemInductive, PTL

\* An agent process installs and reads back the update of one idempotency key
\* at most once in its life, for any number of controller restarts in between.
THEOREM UpdateOnce == SystemSpec => []UpdateOncePerLife
<1>1. SystemInv => UpdateOncePerLife
  BY DEF SystemInv, AgentsSound, AgentSound, UpdateOncePerLife
<1> QED
  BY <1>1, SystemInductive, PTL

-----------------------------------------------------------------------------
(* At most once, with real agents.                                         *)

\* Between two restarts every step of the system is one of the abstract
\* delivery or leaves its state alone.
LEMMA SystemDelivers ==
    ASSUME SystemInv, [SystemNext]_allVars, restarts' = restarts
    PROVE  [Delivery!Next]_(Delivery!vars)
<1>1. IInv
  BY DEF SystemInv
<1>2. ASSUME [Next]_vars PROVE [Delivery!Next]_(Delivery!vars)
  BY <1>1, <1>2, ControllerStep
<1>3. CASE ControllerRequest
  BY <1>2, <1>3 DEF ControllerRequest, Next
<1>4. CASE \E a \in Fleet : AgentAlone(a) \/ AdbChange(a)
  BY <1>2, <1>4, AgentAloneFrame DEF AdbChange
<1>5. CASE \E a \in Fleet : Poll(a)
  BY <1>2, <1>5, PollTakes
<1>6. CASE \E a \in Fleet : Report(a)
  <2>1. UNCHANGED <<commands, delivered>>
    BY <1>6 DEF Report, record_result
  <2> QED
    BY <2>1, MapFrame
<1>7. ~ ControllerRestart
  <2>1. restarts \in Nat
    BY SystemConstants DEF SystemInv, SystemTypeOK
  <2> QED
    BY <2>1 DEF ControllerRestart
<1>8. CASE UNCHANGED <<vars, systemVars>>
  BY <1>2, <1>8
<1> QED
  BY <1>3, <1>4, <1>5, <1>6, <1>7, <1>8, SystemCases

\* A controller that is not restarted hands each command over at most once, to
\* agents that die, lose messages and repeat their polls as they may.
THEOREM DeliveryInSystem == SystemSpec /\ [](restarts = 0) => DeliversAtMostOnce
<1>1. SystemInit => Delivery!Init
  BY DEF SystemInit, Init, QueueInit, Delivery!Init, SlotState, Waiting
<1>2. SystemInv /\ [SystemNext]_allVars /\ restarts = 0 /\ restarts' = 0
         => [Delivery!Next]_(Delivery!vars)
  BY SystemDelivers
<1>3. (restarts = 0)' <=> restarts' = 0
  OBVIOUS
<1> QED
  BY <1>1, <1>2, <1>3, SystemInductive, PTL DEF SystemSpec, DeliversAtMostOnce, Delivery!Spec

\* With restarts: a new controller process starts as the abstract delivery
\* starts, and nothing else happens in between, so each life of the controller
\* delivers at most once whatever was handed over before.
NewLife == restarts' = restarts + 1 /\ Delivery!Init'

LEMMA RestartIsNewLife == ASSUME SystemInv, ControllerRestart PROVE NewLife
<1>1. /\ commands' = [a \in Agents |-> {}] /\ delivered' = {}
      /\ restarts' = restarts + 1
  BY DEF ControllerRestart
<1>2. \A s \in Slot : SlotState(s)' = "free"
  BY <1>1 DEF SlotState, Waiting
<1> QED
  BY <1>1, <1>2 DEF NewLife, Delivery!Init

THEOREM DeliveryInEveryLife ==
    SystemSpec => /\ Delivery!Init
                  /\ [][Delivery!Next \/ NewLife]_<<Delivery!vars, restarts>>
<1>1. SystemInit => Delivery!Init
  BY DEF SystemInit, Init, QueueInit, Delivery!Init, SlotState, Waiting
<1>2. SystemInv /\ [SystemNext]_allVars
         => [Delivery!Next \/ NewLife]_<<Delivery!vars, restarts>>
  <2> SUFFICES ASSUME SystemInv, [SystemNext]_allVars
               PROVE  [Delivery!Next \/ NewLife]_<<Delivery!vars, restarts>>
    OBVIOUS
  <2>1. CASE restarts' = restarts
    BY <2>1, SystemDelivers
  <2>2. CASE ControllerRestart
    BY <2>2, RestartIsNewLife
  <2>3. ASSUME restarts' # restarts PROVE ControllerRestart
    <3>1. CASE ControllerRequest
      BY <2>3, <3>1 DEF ControllerRequest, systemVars
    <3>2. CASE \E a \in Fleet : AgentAlone(a) \/ AdbChange(a)
      BY <2>3, <3>2, AgentAloneFrame DEF AdbChange
    <3>3. CASE \E a \in Fleet : Poll(a)
      BY <2>3, <3>3 DEF Poll
    <3>4. CASE \E a \in Fleet : Report(a)
      BY <2>3, <3>4 DEF Report
    <3>5. CASE UNCHANGED <<vars, systemVars>>
      BY <2>3, <3>5 DEF systemVars
    <3> QED
      BY <3>1, <3>2, <3>3, <3>4, <3>5, SystemCases
  <2> QED
    BY <2>1, <2>2, <2>3
<1> QED
  BY <1>1, <1>2, SystemInductive, PTL DEF SystemSpec

-----------------------------------------------------------------------------
(* Reported updates.                                                       *)

InstalledInv == SystemInv /\ UpdatesSound /\ ReportedUpdateIsInstalled

LEMMA InstalledInit == SystemInit => UpdatesSound /\ ReportedUpdateIsInstalled
BY DEF SystemInit, UpdatesSound, UpdateSound, ReportedUpdateIsInstalled, Fresh

\* A report tells of an update the agent knows to be installed, and a headset
\* never goes back to an older version.
LEMMA InstalledStep ==
    ASSUME UpdatesConsistent, OneMeaningPerId, InstalledInv, [SystemNext]_allVars
    PROVE  InstalledInv'
<1>1. /\ SystemInv /\ UpdatesSound /\ ReportedUpdateIsInstalled
      /\ SystemInv' /\ UpdatesSound'
      /\ installed \in [Fleet -> Nat] /\ installed' \in [Fleet -> Nat]
      /\ \A b \in Fleet : installed[b] <= installed'[b]
  BY SystemStep, AgentsKept DEF InstalledInv, SystemInv, SystemTypeOK
<1> SUFFICES ReportedUpdateIsInstalled'
  BY <1>1 DEF InstalledInv
<1>2. \A r \in reported : r.agent \in Fleet /\ RequestedVersion[r.command_id] \in Nat
  BY <1>1, SystemConstants DEF SystemInv, SystemTypeOK
<1>3. ASSUME reported' \subseteq reported PROVE ReportedUpdateIsInstalled'
  <2> SUFFICES ASSUME NEW r \in reported,
                      \E q \in CommandRequests : q.command_id = r.command_id
                                                 /\ q.kind \in UpdateKinds,
                      r.status \in {"completed", "skipped"}
               PROVE  installed'[r.agent] >= RequestedVersion[r.command_id]
    BY <1>3 DEF ReportedUpdateIsInstalled
  <2>1. installed[r.agent] >= RequestedVersion[r.command_id]
    BY <1>1 DEF ReportedUpdateIsInstalled
  <2>2. /\ installed[r.agent] \in Nat /\ installed'[r.agent] \in Nat
        /\ installed[r.agent] <= installed'[r.agent] /\ RequestedVersion[r.command_id] \in Nat
    BY <1>1, <1>2
  <2> QED
    BY <2>1, <2>2
<1>4. ASSUME NEW a \in Fleet, Report(a) PROVE ReportedUpdateIsInstalled'
  <2> DEFINE new == [agent |-> a, command_id |-> Cmd(a).command_id,
                     status |-> agent[a].result.status]
  <2>1. reported' = reported \cup {new} /\ UNCHANGED installed
    BY <1>4 DEF Report, deviceVars
  <2>2. ASSUME \E q \in CommandRequests : q.command_id = Cmd(a).command_id
                                          /\ q.kind \in UpdateKinds,
               agent[a].result.status \in {"completed", "skipped"}
        PROVE  installed[a] >= RequestedVersion[Cmd(a).command_id]
    <3>1. Cmd(a) \in Queueable /\ Cmd(a) = agent[a].command /\ agent[a].pc = "report"
      BY <1>1, <1>4, ReportFacts DEF Report
    <3>2. PICK q \in Queueable : q.command_id = Cmd(a).command_id /\ q.kind \in UpdateKinds
      BY <2>2 DEF Queueable
    <3>3. Cmd(a).kind \in UpdateKinds
      BY <3>1, <3>2 DEF OneMeaningPerId
    <3>4. RequestedVersion[Cmd(a).command_id] <= installed[a]
      BY <1>1, <2>2, <3>1, <3>3 DEF UpdatesSound, UpdateSound
    <3>5. installed[a] \in Nat /\ RequestedVersion[Cmd(a).command_id] \in Nat
      BY <1>1, <3>1, QueueableType
    <3> QED
      BY <3>4, <3>5
  <2> QED
    BY <1>1, <2>1, <2>2 DEF ReportedUpdateIsInstalled
<1>5. CASE \E a \in Fleet : AgentAlone(a) \/ Poll(a) \/ AdbChange(a)
  BY <1>3, <1>5, AgentAloneFrame DEF Poll, AdbChange, historyVars
<1>6. CASE ControllerRequest \/ ControllerRestart \/ UNCHANGED <<vars, systemVars>>
  BY <1>3, <1>6 DEF ControllerRequest, ControllerRestart, systemVars, historyVars
<1> QED
  BY <1>4, <1>5, <1>6, SystemCases

\* An update reported completed or skipped is on the headset in at least the
\* version asked for, through every fault and restart, as long as a command id
\* means one command, a key one version, and no manifest allows a downgrade.
THEOREM ReportedInstalled ==
    ASSUME UpdatesConsistent, OneMeaningPerId
    PROVE  SystemSpec => []ReportedUpdateIsInstalled
<1>1. SystemInit => InstalledInv
  BY SystemInitInv, InstalledInit DEF InstalledInv
<1>2. InstalledInv /\ [SystemNext]_allVars => InstalledInv'
  BY InstalledStep
<1>3. InstalledInv => ReportedUpdateIsInstalled
  BY DEF InstalledInv
<1> QED
  BY <1>1, <1>2, <1>3, PTL DEF SystemSpec

-----------------------------------------------------------------------------
(* Answers stay.                                                           *)

\* A result answers an intent through one command only.
ListedOnce ==
    \A c, d \in CommandIds :
       mirror_command_index[c] \cap mirror_command_index[d] # {} => c = d

LifeInv == SystemInv /\ WorkDelivered /\ ListedOnce /\ AnswersSound

LEMMA LifeInit == SystemInit => WorkDelivered /\ ListedOnce /\ AnswersSound
BY DEF SystemInit, Init, WorkDelivered, ListedOnce, AnswersSound, Fresh, Busy

\* What happens to the history of deliveries in one life of the controller.
LEMMA DeliveredGrows ==
    ASSUME SystemInv, [SystemNext]_allVars, restarts' = 0
    PROVE  restarts = 0 /\ delivered \subseteq delivered' /\ ~ ControllerRestart
<1>1. restarts \in Nat
  BY SystemConstants DEF SystemInv, SystemTypeOK
<1>2. ~ ControllerRestart
  BY <1>1 DEF ControllerRestart
<1>3. CASE ControllerRequest
  BY <1>2, <1>3 DEF ControllerRequest, systemVars, QueueCommand, queue_command, CreateLease,
     create_mirror_lease, RevokeLease, revoke_mirror_lease, SubmitIntent,
     submit_mirror_intent, ClockTick, Tick, queueVars
<1>4. CASE \E a \in Fleet : AgentAlone(a)
  BY <1>2, <1>4, AgentAloneFrame DEF vars, queueVars
<1>5. CASE \E a \in Fleet : Poll(a)
  BY <1>2, <1>5 DEF Poll, next_command, vars, queueVars
<1>6. CASE \E a \in Fleet : Report(a)
  BY <1>2, <1>6 DEF Report, record_result
<1>7. CASE (\E a \in Fleet : AdbChange(a)) \/ UNCHANGED <<vars, systemVars>>
  BY <1>2, <1>7 DEF AdbChange, systemVars, vars, queueVars
<1> QED
  BY <1>2, <1>3, <1>4, <1>5, <1>6, <1>7, SystemCases

LEMMA WorkStep ==
    ASSUME SystemInv, WorkDelivered, [SystemNext]_allVars
    PROVE  WorkDelivered'
<1> SUFFICES ASSUME restarts' = 0, NEW b \in Fleet, Busy(agent'[b])
             PROVE  \E e \in delivered' : e.cmd = agent'[b].command
  BY DEF WorkDelivered, Busy
<1>1. restarts = 0 /\ delivered \subseteq delivered' /\ HasCommandOf(b, agent'[b])
  BY DeliveredGrows, AgentsKept
<1> QED
  BY <1>1 DEF HasCommandOf, WorkDelivered

\* What a new intent changes: it was on no list, and is on one at most.
LEMMA SubmitLists ==
    ASSUME TypeOK, CorrelationInv, NEW r \in IntentRequests, submit_mirror_intent(r),
           NEW i, i = r.mirror_intent_id
    PROVE  /\ i \in Intents /\ mirror_intents[i] = NoIntent
           /\ \A c \in CommandIds : i \notin mirror_command_index[c]
           /\ \A j \in Intents \ {i} : mirror_intents'[j] = mirror_intents[j]
           /\ \/ UNCHANGED mirror_command_index
              \/ /\ \E d \in CommandIds : mirror_command_index' =
                       [mirror_command_index EXCEPT ![d] = @ \cup {i}]
                 /\ mirror_intents'[i].state = "queued_for_target"
<1>1. i \in Intents /\ mirror_intents[i] = NoIntent
  BY ControlConstants DEF IntentPayload, submit_mirror_intent
<1>2. \A c \in CommandIds : i \notin mirror_command_index[c]
  BY <1>1 DEF CorrelationInv, ListedIntentsAdmitted
<1>3. FleetCommand(r) \in Command /\ FleetCommand(r).command_id \in CommandIds
      /\ MirrorCommandId[i] \in CommandIds
  BY <1>1, FleetCommandType, ControlConstants DEF Command
<1>4. CASE reject_mirror_intent(r)
  <2>1. \A j \in Intents \ {i} : mirror_intents'[j] = mirror_intents[j]
    BY <1>3, <1>4, RecordedIntent DEF reject_mirror_intent, ResultStates
  <2> QED
    BY <1>1, <1>2, <1>4, <2>1 DEF reject_mirror_intent
<1>5. ASSUME NEW d \in CommandIds, NEW cs \in {"queued", "duplicate", "rejected"},
             Correlate(r, d, cs)
      PROVE  /\ \A j \in Intents \ {i} : mirror_intents'[j] = mirror_intents[j]
             /\ mirror_intents'[i].state = "queued_for_target"
             /\ mirror_command_index' = [mirror_command_index EXCEPT ![d] = @ \cup {i}]
  BY <1>5, RecordedIntent DEF Correlate
<1>6. IsDuplicate(FleetCommand(r)) => idempotency_index[SlotOf(FleetCommand(r))] \in CommandIds
  <2>1. SlotOf(FleetCommand(r)) \in Slot
    BY <1>3 DEF SlotOf, Slot, Command
  <2> QED
    BY <2>1 DEF IsDuplicate, TypeOK, QueueTypeOK
<1>7. CASE \E d \in CommandIds, cs \in {"queued", "duplicate", "rejected"} : Correlate(r, d, cs)
  BY <1>1, <1>2, <1>5, <1>7
<1> QED
  BY <1>3, <1>4, <1>6, <1>7 DEF submit_mirror_intent

\* The steps of one controller life that touch the intents, and the others.
LEMMA IntentSteps ==
    ASSUME [SystemNext]_allVars, ~ ControllerRestart
    PROVE  \/ UNCHANGED <<mirror_intents, mirror_command_index>>
           \/ /\ \E r \in IntentRequests : submit_mirror_intent(r)
              /\ UNCHANGED <<agent, restarts, delivered>>
           \/ \E a \in Fleet : Report(a)
<1>1. CASE ControllerRequest
  BY <1>1 DEF ControllerRequest, systemVars, QueueCommand, mirrorVars, CreateLease,
     create_mirror_lease, RevokeLease, revoke_mirror_lease, SubmitIntent,
     submit_mirror_intent, ClockTick
<1>2. CASE \E a \in Fleet : AgentAlone(a) \/ AdbChange(a)
  BY <1>2, AgentAloneFrame DEF AdbChange, vars, mirrorVars
<1>3. CASE \E a \in Fleet : Poll(a)
  BY <1>3 DEF Poll, vars, mirrorVars
<1>4. CASE UNCHANGED <<vars, systemVars>>
  BY <1>4 DEF vars, mirrorVars
<1> QED
  BY <1>1, <1>2, <1>3, <1>4, SystemCases

LEMMA ListedOnceStep ==
    ASSUME SystemInv, ListedOnce, [SystemNext]_allVars
    PROVE  ListedOnce'
<1>1. TypeOK /\ CorrelationInv
  BY DEF SystemInv, IInv
<1>2. CASE ControllerRestart
  BY <1>2 DEF ControllerRestart, ListedOnce
<1>3. CASE UNCHANGED mirror_command_index
  BY <1>3 DEF ListedOnce
<1>4. ASSUME NEW r \in IntentRequests, submit_mirror_intent(r) PROVE ListedOnce'
  <2> DEFINE i == r.mirror_intent_id
  <2>1. /\ \A c \in CommandIds : i \notin mirror_command_index[c]
        /\ \/ UNCHANGED mirror_command_index
           \/ \E d \in CommandIds : mirror_command_index' =
                 [mirror_command_index EXCEPT ![d] = @ \cup {i}]
    BY <1>1, <1>4, SubmitLists
  <2> HIDE DEF i
  <2>2. ASSUME NEW d \in CommandIds,
               mirror_command_index' = [mirror_command_index EXCEPT ![d] = @ \cup {i}]
        PROVE  ListedOnce'
    <3>1. \A c \in CommandIds : mirror_command_index'[c] =
             IF c = d THEN mirror_command_index[c] \cup {i} ELSE mirror_command_index[c]
      BY <1>1, <2>2 DEF TypeOK
    <3> QED
      BY <2>1, <3>1 DEF ListedOnce
  <2> QED
    BY <1>3, <2>1, <2>2
<1> QED
  BY <1>2, <1>3, <1>4, IntentSteps DEF Report, record_result

\* No two agents work on commands of one id.
LEMMA OneWorksOnIt ==
    ASSUME OneMeaningPerId, SystemInv, NEW a \in Fleet, NEW b \in Fleet,
           Busy(agent[a]), Busy(agent[b]), agent[a].command.command_id = agent[b].command.command_id
    PROVE  a = b
<1>1. /\ agent[a].command \in Queueable /\ agent[a].command.target_agent_id = a
      /\ agent[b].command \in Queueable /\ agent[b].command.target_agent_id = b
  BY DEF SystemInv, AgentsSound, AgentSound
<1> QED
  BY <1>1 DEF OneMeaningPerId, SlotOf

\* A command that was handed over and is done is not handed over again.
LEMMA DoneStaysDone ==
    ASSUME OneMeaningPerId, SystemInv, [SystemNext]_allVars, restarts' = 0,
           NEW c \in CommandIds, \E e \in delivered : e.cmd.command_id = c,
           \A a \in Fleet : Busy(agent[a]) => agent[a].command.command_id # c
    PROVE  /\ \E e \in delivered' : e.cmd.command_id = c
           /\ \A b \in Fleet : Busy(agent'[b]) => agent'[b].command.command_id # c
<1>1. delivered \subseteq delivered' /\ HeldQueueable' /\ SlotHoldsOneCommand'
  BY DeliveredGrows, SystemStep DEF SystemInv, IInv, SlotInv
<1>2. PICK e \in delivered : e.cmd.command_id = c
  OBVIOUS
<1>3. ASSUME NEW b \in Fleet, Busy(agent'[b]), agent'[b].command.command_id = c
      PROVE  FALSE
  <2>1. HasCommandOf(b, agent'[b])
    BY <1>3, AgentsKept
  <2>2. PICK f \in delivered' \ delivered : f.cmd = agent'[b].command
    BY <1>3, <2>1 DEF HasCommandOf
  <2>3. e \in Held' /\ f \in Held' /\ e.cmd \in Queueable /\ f.cmd \in Queueable
    BY <1>1, <1>2, <2>2 DEF Held, HeldQueueable
  <2>4. SlotOf(e.cmd) = SlotOf(f.cmd)
    BY <1>2, <1>3, <2>2, <2>3 DEF OneMeaningPerId
  <2>5. e = f
    BY <1>1, <2>3, <2>4 DEF SlotHoldsOneCommand
  <2> QED
    BY <1>2, <2>2, <2>5
<1> QED
  BY <1>1, <1>2, <1>3

\* The command of a report is done when the report is in.
LEMMA ReportedIsDone ==
    ASSUME OneMeaningPerId, LifeInv, [SystemNext]_allVars, restarts' = 0,
           NEW a \in Fleet, Report(a)
    PROVE  /\ \E e \in delivered' : e.cmd.command_id = Cmd(a).command_id
           /\ \A b \in Fleet : Busy(agent'[b])
                                 => agent'[b].command.command_id # Cmd(a).command_id
<1>1. SystemInv /\ WorkDelivered /\ restarts = 0 /\ delivered' = delivered
      /\ Busy(agent[a]) /\ Cmd(a) = agent[a].command
  BY DeliveredGrows, ReportFacts DEF LifeInv, Report, record_result
<1>2. \E e \in delivered' : e.cmd.command_id = Cmd(a).command_id
  BY <1>1 DEF WorkDelivered
<1>3. ~ Busy(agent'[a])
  <2>1. agent'[a].pc \in {"idle", "down"}
    BY <1>1, AgentType DEF SystemInv, Report, RoundDone, Dies, Fresh, AgentRecord
  <2> QED
    BY <2>1 DEF Busy
<1>4. ASSUME NEW b \in Fleet, Busy(agent'[b]),
             agent'[b].command.command_id = Cmd(a).command_id
      PROVE  FALSE
  <2>1. Busy(agent[b]) /\ agent'[b].command = agent[b].command
    BY <1>1, <1>4, AgentsKept DEF HasCommandOf
  <2>2. a = b
    BY <1>1, <1>4, <2>1, OneWorksOnIt
  <2> QED
    BY <1>3, <1>4, <2>2
<1> QED
  BY <1>2, <1>4

LEMMA AnswersStep ==
    ASSUME OneMeaningPerId, LifeInv, [SystemNext]_allVars
    PROVE  AnswersSound'
<1>1. SystemInv /\ ListedOnce /\ AnswersSound /\ TypeOK /\ CorrelationInv
  BY DEF LifeInv, SystemInv, IInv
<1> SUFFICES ASSUME restarts' = 0, NEW c \in CommandIds, NEW i \in mirror_command_index'[c],
                    mirror_intents'[i].state # "queued_for_target"
             PROVE  /\ \E e \in delivered' : e.cmd.command_id = c
                    /\ \A b \in Fleet : Busy(agent'[b]) => agent'[b].command.command_id # c
  BY DEF AnswersSound, Busy
<1>2. restarts = 0 /\ ~ ControllerRestart /\ mirror_command_index' \in [CommandIds -> SUBSET Intents]
  BY <1>1, DeliveredGrows, ControllerKept DEF IInv, TypeOK
<1>3. i \in Intents
  BY <1>2
<1>4. ASSUME i \in mirror_command_index[c], mirror_intents'[i] = mirror_intents[i]
      PROVE  /\ \E e \in delivered' : e.cmd.command_id = c
             /\ \A b \in Fleet : Busy(agent'[b]) => agent'[b].command.command_id # c
  <2>1. /\ \E e \in delivered : e.cmd.command_id = c
        /\ \A a \in Fleet : Busy(agent[a]) => agent[a].command.command_id # c
    BY <1>1, <1>2, <1>4 DEF AnswersSound
  <2> QED
    BY <1>1, <2>1, DoneStaysDone
<1>5. CASE UNCHANGED <<mirror_intents, mirror_command_index>>
  BY <1>4, <1>5
<1>6. ASSUME NEW r \in IntentRequests, submit_mirror_intent(r)
      PROVE  i \in mirror_command_index[c] /\ mirror_intents'[i] = mirror_intents[i]
  <2> DEFINE new == r.mirror_intent_id
  <2>1. /\ \A d \in CommandIds : new \notin mirror_command_index[d]
        /\ \A j \in Intents \ {new} : mirror_intents'[j] = mirror_intents[j]
        /\ \/ UNCHANGED mirror_command_index
           \/ /\ \E d \in CommandIds : mirror_command_index' =
                    [mirror_command_index EXCEPT ![d] = @ \cup {new}]
              /\ mirror_intents'[new].state = "queued_for_target"
    BY <1>1, <1>6, SubmitLists
  <2> HIDE DEF new
  <2>2. i # new
    BY <2>1
  <2>3. i \in mirror_command_index[c]
    BY <1>1, <2>1, <2>2 DEF TypeOK
  <2> QED
    BY <1>3, <2>1, <2>2, <2>3
<1>7. ASSUME NEW a \in Fleet, Report(a)
      PROVE  /\ \E e \in delivered' : e.cmd.command_id = c
             /\ \A b \in Fleet : Busy(agent'[b]) => agent'[b].command.command_id # c
  <2>1. /\ record_result(Cmd(a).command_id, a, agent[a].result.status,
                         agent[a].result.adb_unavailable)
        /\ UNCHANGED mirror_command_index
    BY <1>7 DEF Report, record_result
  <2>2. /\ Cmd(a).command_id \in CommandIds /\ a \in Agents
        /\ agent[a].result.adb_unavailable \in BOOLEAN
    BY <1>1, <1>7, ReportFacts
  <2>3. CASE i \in mirror_command_index[Cmd(a).command_id]
    <3>1. c = Cmd(a).command_id
      BY <1>1, <2>1, <2>2, <2>3 DEF ListedOnce
    <3> QED
      BY <1>7, <3>1, ReportedIsDone
  <2>4. CASE i \notin mirror_command_index[Cmd(a).command_id]
    <3>1. mirror_intents'[i] = mirror_intents[i]
      BY <1>1, <1>3, <2>1, <2>2, <2>4, ResultKeepsIntents
    <3> QED
      BY <1>4, <2>1, <3>1
  <2> QED
    BY <2>3, <2>4
<1> QED
  BY <1>2, <1>4, <1>5, <1>6, <1>7, IntentSteps

LEMMA LifeStep ==
    ASSUME OneMeaningPerId, LifeInv, [SystemNext]_allVars
    PROVE  LifeInv'
<1>1. SystemInv' /\ AnswersSound'
  BY SystemStep, AnswersStep DEF LifeInv
<1>2. WorkDelivered' /\ ListedOnce'
  BY WorkStep, ListedOnceStep DEF LifeInv
<1> QED
  BY <1>1, <1>2 DEF LifeInv

\* No agent works on the command of an answered intent, so no report comes in.
LEMMA AnswerStepStays ==
    ASSUME LifeInv, [SystemNext]_allVars
    PROVE  [AnswerStays]_allVars
<1>1. SystemInv /\ AnswersSound /\ TypeOK /\ CorrelationInv
  BY DEF LifeInv, SystemInv, IInv
<1> SUFFICES ASSUME restarts = 0, NEW i \in Intents, mirror_intents[i] # NoIntent,
                    mirror_intents[i].state # "queued_for_target",
                    restarts' = restarts
             PROVE  mirror_intents'[i] = mirror_intents[i]
  BY DEF AnswerStays
<1>2. ~ ControllerRestart
  BY <1>1, DeliveredGrows
<1>3. ASSUME NEW r \in IntentRequests, submit_mirror_intent(r)
      PROVE  mirror_intents'[i] = mirror_intents[i]
  BY <1>1, <1>3, SubmitLists
<1>4. ASSUME NEW a \in Fleet, Report(a) PROVE mirror_intents'[i] = mirror_intents[i]
  <2>1. record_result(Cmd(a).command_id, a, agent[a].result.status,
                      agent[a].result.adb_unavailable)
    BY <1>4 DEF Report
  <2>2. /\ Cmd(a).command_id \in CommandIds /\ a \in Agents /\ Busy(agent[a])
        /\ agent[a].result.adb_unavailable \in BOOLEAN /\ Cmd(a) = agent[a].command
    BY <1>1, <1>4, ReportFacts
  <2>3. i \notin mirror_command_index[Cmd(a).command_id]
    BY <1>1, <2>2 DEF AnswersSound
  <2> QED
    BY <1>1, <2>1, <2>2, <2>3, ResultKeepsIntents
<1> QED
  BY <1>2, <1>3, <1>4, IntentSteps

\* As long as the controller lives, the state in which a result put an intent
\* stays: no second result of another agent, another command or a repeat
\* comes, for any agents and faults, when a command id means one command.
THEOREM AnswersFinal ==
    ASSUME OneMeaningPerId
    PROVE  SystemSpec => AnswerIsFinal
<1>1. SystemInit => LifeInv
  BY SystemInitInv, LifeInit DEF LifeInv
<1>2. LifeInv /\ [SystemNext]_allVars => LifeInv'
  BY LifeStep
<1>3. LifeInv /\ [SystemNext]_allVars => [AnswerStays]_allVars
  BY AnswerStepStays
<1> QED
  BY <1>1, <1>2, <1>3, PTL DEF SystemSpec, AnswerIsFinal
=============================================================================
