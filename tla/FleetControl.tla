---------------------------- MODULE FleetControl ----------------------------
(***************************************************************************)
(* The whole fleet controller: the command queue of FleetCommands and the  *)
(* mirror lane on top of it (leases, intents, the events of each mirror    *)
(* session and the index from commands back to intents).  Each action is   *)
(* one HTTP request of FleetHandler, handled from start to end.            *)
(*                                                                         *)
(* What a request may ask is given by three sets of payloads.  A payload   *)
(* is a record of the fields the handlers look at; the fleet id is part of *)
(* an agent's identity, and the texts that are only stored are left out.   *)
(***************************************************************************)
EXTENDS FleetCommands

CONSTANTS Intents,
          AdbActionKinds,      (* MIRROR_ADB_ACTION_KINDS *)
          MirrorCommandId,     (* the command id made from an intent id *)
          NoIntent, NoMirrorLease,
          Statuses,            (* the status texts a result may carry *)
          CommandRequests, LeaseRequests, IntentRequests

VARIABLES mirror_leases, mirror_intents, mirror_events, mirror_command_index,
          latest_adb_unavailable   (* agents whose latest result says so *)

mirrorVars == <<mirror_leases, mirror_intents, mirror_events, mirror_command_index>>
vars == <<now, queueVars, mirrorVars, latest_adb_unavailable>>

LeasePayload == [lease_id : Leases, source_agent_id : Agents,
                 target_agent_id : Agents, expires_at : Nat,
                 allowed_command_kinds : SUBSET Kinds,
                 requires_adb : BOOLEAN, revoked : BOOLEAN]

IntentPayload == [mirror_intent_id : Intents, lease_id : Leases,
                  source_agent_id : Agents, target_agent_id : Agents,
                  idempotency_key : Keys, expires_at : Nat, kind : Kinds,
                  requires_adb : BOOLEAN]

ResultStates == {"completed", "rejected", "failed", "timeout", "skipped"}

IntentStatus == [lease_id : Leases, command_id : CommandIds,
                 state : ResultStates \cup {"queued_for_target"},
                 controller_status : {"queued", "duplicate", "rejected"}]

Event == [intent : Intents, at : Nat,
          state : ResultStates \cup {"queued_for_target"}]

\* Commands posted by the operator carry no mirror metadata.
ASSUME ControlConstants ==
    /\ MirrorCommandId \in [Intents -> CommandIds]
    /\ NoIntent \notin IntentStatus
    /\ NoMirrorLease \notin LeasePayload
    /\ CommandRequests \subseteq {c \in Command : c.source_agent_id = NoSource}
    /\ LeaseRequests \subseteq LeasePayload
    /\ IntentRequests \subseteq IntentPayload

Init == /\ QueueInit
        /\ mirror_leases = [l \in Leases |-> NoMirrorLease]
        /\ mirror_intents = [i \in Intents |-> NoIntent]
        /\ mirror_events = [l \in Leases |-> {}]
        /\ mirror_command_index = [c \in CommandIds |-> {}]
        /\ latest_adb_unavailable = {}

TypeOK == /\ QueueTypeOK
          /\ mirror_leases \in [Leases -> LeasePayload \cup {NoMirrorLease}]
          /\ mirror_intents \in [Intents -> IntentStatus \cup {NoIntent}]
          /\ mirror_events \in [Leases -> SUBSET Event]
          /\ mirror_command_index \in [CommandIds -> SUBSET Intents]
          /\ latest_adb_unavailable \subseteq Agents

-----------------------------------------------------------------------------
QueueCommand == /\ \E c \in CommandRequests : queue_command(c)
                /\ UNCHANGED <<mirrorVars, latest_adb_unavailable>>

NextCommand == /\ \E a \in Agents : next_command(a)
               /\ UNCHANGED <<mirrorVars, latest_adb_unavailable>>

\* POST /leases: the payload replaces any lease of that id, revoked or not.
create_mirror_lease(r) ==
    /\ r.source_agent_id # r.target_agent_id
    /\ r.expires_at > now
    /\ r.allowed_command_kinds # {}
    /\ mirror_leases' = [mirror_leases EXCEPT ![r.lease_id] = r]
    /\ UNCHANGED <<now, queueVars, mirror_intents, mirror_events,
                   mirror_command_index, latest_adb_unavailable>>

\* POST /leases/<l>/revoke.
revoke_mirror_lease(l) ==
    /\ mirror_leases[l] # NoMirrorLease
    /\ mirror_leases' = [mirror_leases EXCEPT ![l].revoked = TRUE]
    /\ UNCHANGED <<now, queueVars, mirror_intents, mirror_events,
                   mirror_command_index, latest_adb_unavailable>>

\* validate_mirror_lease_for_intent: the lease has no objection to the intent.
LeaseAdmits(lease, r) ==
    /\ ~ lease.revoked
    /\ lease.source_agent_id = r.source_agent_id
    /\ lease.target_agent_id = r.target_agent_id
    /\ lease.expires_at > now
    /\ r.kind \in lease.allowed_command_kinds
    /\ (r.kind \in AdbActionKinds /\ lease.requires_adb) => r.requires_adb

\* mirror_intent_to_fleet_command: the command takes over the intent's TTL.
FleetCommand(r) ==
    [command_id |-> MirrorCommandId[r.mirror_intent_id],
     target_agent_id |-> r.target_agent_id,
     idempotency_key |-> r.idempotency_key, expires_at |-> r.expires_at,
     kind |-> r.kind, lease_id |-> r.lease_id,
     source_agent_id |-> r.source_agent_id]

Admitted(r) == /\ r.expires_at > now
               /\ mirror_leases[r.lease_id] # NoMirrorLease
               /\ LeaseAdmits(mirror_leases[r.lease_id], r)
               /\ Acceptable(FleetCommand(r))

\* With a bug: the event always says that the intent was queued.
RecordIntentAsQueued(r, command_id, st, controller_status) ==
    /\ mirror_intents' = [mirror_intents EXCEPT ![r.mirror_intent_id] =
          [lease_id |-> r.lease_id, command_id |-> command_id, state |-> st,
           controller_status |-> controller_status]]
    /\ mirror_events' = [mirror_events EXCEPT ![r.lease_id] =
          @ \cup {[intent |-> r.mirror_intent_id, at |-> serial,
                   state |-> "queued_for_target"]}]
    /\ serial' = serial + 1

\* The intent is on record from now on, and its session has an event for it.
RecordIntent(r, command_id, st, controller_status) ==
    /\ mirror_intents' = [mirror_intents EXCEPT ![r.mirror_intent_id] =
          [lease_id |-> r.lease_id, command_id |-> command_id, state |-> st,
           controller_status |-> controller_status]]
    /\ mirror_events' = [mirror_events EXCEPT ![r.lease_id] =
          @ \cup {[intent |-> r.mirror_intent_id, at |-> serial, state |-> st]}]
    /\ serial' = serial + 1

\* With a bug: a rejected intent is listed like any other.
RejectAndList(r) ==
    /\ RecordIntent(r, MirrorCommandId[r.mirror_intent_id], "rejected", "rejected")
    /\ mirror_command_index' =
          [mirror_command_index EXCEPT ![MirrorCommandId[r.mirror_intent_id]] =
              @ \cup {r.mirror_intent_id}]
    /\ UNCHANGED <<commands, idempotency_index>>

reject_mirror_intent(r) ==
    /\ RecordIntent(r, MirrorCommandId[r.mirror_intent_id], "rejected", "rejected")
    /\ UNCHANGED <<commands, idempotency_index, mirror_command_index>>

\* With a bug: the way back from the command is not recorded.
CorrelateUnlisted(r, command_id, controller_status) ==
    /\ RecordIntent(r, command_id, "queued_for_target", controller_status)
    /\ UNCHANGED mirror_command_index

\* The intent is answered by the result of "command_id": its own command, or
\* the one that already took its idempotency key.
Correlate(r, command_id, controller_status) ==
    /\ RecordIntent(r, command_id, "queued_for_target", controller_status)
    /\ mirror_command_index' =
          [mirror_command_index EXCEPT ![command_id] = @ \cup {r.mirror_intent_id}]

\* POST /intents.  An intent id that is on record changes nothing.
submit_mirror_intent(r) ==
    LET c == FleetCommand(r) IN
    /\ serial < MaxSerial
    /\ mirror_intents[r.mirror_intent_id] = NoIntent
    /\ \/ /\ ~ Admitted(r)
          /\ reject_mirror_intent(r)
       \/ /\ Admitted(r)
          /\ ~ IsDuplicate(c)
          /\ Enqueue(c)
          /\ Correlate(r, c.command_id, "queued")
       \/ /\ Admitted(r)
          /\ IsDuplicate(c)
          /\ Correlate(r, idempotency_index[SlotOf(c)], "duplicate")
          /\ UNCHANGED <<commands, idempotency_index>>
    /\ UNCHANGED <<now, delivered, mirror_leases, latest_adb_unavailable>>

\* mirror_state_from_result
StateFromResult(status) == IF status \in ResultStates THEN status ELSE "failed"

\* POST /command-results: any agent may report on any command, at any time.
\* Every intent the command stands for takes the result's state.
record_result(command_id, agent, status, adb_unavailable) ==
    LET answered == {i \in mirror_command_index[command_id] : mirror_intents[i] # NoIntent}
        st == StateFromResult(status)
    IN
    /\ serial < MaxSerial
    /\ latest_adb_unavailable' = IF adb_unavailable THEN latest_adb_unavailable \cup {agent}
                                 ELSE latest_adb_unavailable \ {agent}
    /\ mirror_intents' = [i \in Intents |->
          IF i \in answered THEN [mirror_intents[i] EXCEPT !.state = st]
          ELSE mirror_intents[i]]
    /\ mirror_events' = [l \in Leases |-> mirror_events[l] \cup
          {[intent |-> i, at |-> serial, state |-> st] :
              i \in {j \in answered : mirror_intents[j].lease_id = l}}]
    /\ serial' = serial + 1
    /\ UNCHANGED <<now, commands, idempotency_index, delivered, mirror_leases,
                   mirror_command_index>>

CreateLease == \E r \in LeaseRequests : create_mirror_lease(r)
RevokeLease == \E l \in Leases : revoke_mirror_lease(l)
SubmitIntent == \E r \in IntentRequests : submit_mirror_intent(r)
RecordResult == \E c \in CommandIds, a \in Agents, st \in Statuses, u \in BOOLEAN :
                   record_result(c, a, st, u)
ClockTick == Tick /\ UNCHANGED <<mirrorVars, latest_adb_unavailable>>

Next == \/ QueueCommand \/ NextCommand
        \/ CreateLease \/ RevokeLease \/ SubmitIntent
        \/ RecordResult \/ ClockTick

Spec == Init /\ [][Next]_vars
-----------------------------------------------------------------------------
\* The commands that wait for their agent, and with those handed over.
Waiting == UNION {commands[a] : a \in Agents}
Held == Waiting \cup delivered

\* Of all commands that wait or were handed over, no two share an idempotency
\* key of one agent.  next_command releases the keys of expired commands; were
\* the key of a command that was handed over ever released with them, a repeat
\* of it would be accepted and run a second time.
SlotHoldsOneCommand ==
    \A e, f \in Held : SlotOf(e.cmd) = SlotOf(f.cmd) => e = f

\* "duplicate" is answered exactly for the keys that a waiting or handed-over
\* command took, and the id in the answer is that command's: no key stays
\* blocked by a command that is gone, none is free while its command lives.
IndexIsExact ==
    \A s \in Slot : \/ /\ idempotency_index[s] = NoCommand
                       /\ \A e \in Held : SlotOf(e.cmd) # s
                    \/ \E e \in Held : /\ SlotOf(e.cmd) = s
                                       /\ e.cmd.command_id = idempotency_index[s]

\* A mirror command that can reach its agent is correlated: the intent it was
\* made from is listed under its command id, so that its result finds the way
\* back to the session.
MirrorCommandCorrelated ==
    \A e \in Held : e.cmd.source_agent_id # NoSource =>
       \E i \in mirror_command_index[e.cmd.command_id] :
          /\ MirrorCommandId[i] = e.cmd.command_id
          /\ mirror_intents[i].controller_status = "queued"

\* The two answers a source can poll agree: the state of an intent is the one
\* of the latest event about it in its session.
EventLogAgrees ==
    \A i \in Intents : mirror_intents[i] # NoIntent =>
       \E ev \in mirror_events[mirror_intents[i].lease_id] :
          /\ ev.intent = i
          /\ ev.state = mirror_intents[i].state
          /\ \A other \in mirror_events[mirror_intents[i].lease_id] :
                other.intent = i => other.at < ev.at \/ other = ev

RejectedStays ==
    \A i \in Intents :
       (mirror_intents[i] # NoIntent /\ mirror_intents[i].controller_status = "rejected")
       => mirror_intents'[i] = mirror_intents[i]

\* An intent the controller rejected stays as it was recorded, whatever
\* results arrive under the command id it would have had.
RejectedIsFinal == [][RejectedStays]_vars


-----------------------------------------------------------------------------
\* The controller seen as the abstract delivery of AtMostOnceDelivery.
SlotState(s) ==
    IF \E e \in delivered : SlotOf(e.cmd) = s THEN "spent"
    ELSE IF \E e \in Waiting : SlotOf(e.cmd) = s THEN "held"
    ELSE "free"

Delivery == INSTANCE AtMostOnceDelivery
               WITH Slots <- Slot, Tokens <- 0 .. MaxSerial,
                    slot <- [s \in Slot |-> SlotState(s)],
                    handed <- {<<SlotOf(e.cmd), e.arrival>> : e \in delivered}

\* The queue, the index and the clock together implement at-most-once delivery
\* for every idempotency key of every agent.
DeliversAtMostOnce == Delivery!Spec
-----------------------------------------------------------------------------
\* What every step keeps and the properties above follow from.

\* A command waits in its target's queue until it is handed over, holds its
\* key in the index, and arrived before now.
EntriesInPlace ==
    /\ \A a \in Agents : \A e \in commands[a] : e.cmd.target_agent_id = a
    /\ Waiting \cap delivered = {}
    /\ \A e \in Held : /\ idempotency_index[SlotOf(e.cmd)] = e.cmd.command_id
                       /\ e.arrival < serial

SlotInv == EntriesInPlace /\ SlotHoldsOneCommand /\ IndexIsExact

\* Only intents the controller let through are listed under a command.
ListedIntentsAdmitted ==
    \A c \in CommandIds : \A i \in mirror_command_index[c] :
       mirror_intents[i] # NoIntent /\ mirror_intents[i].controller_status # "rejected"

CorrelationInv == ListedIntentsAdmitted /\ MirrorCommandCorrelated

EventsPast == \A l \in Leases : \A ev \in mirror_events[l] : ev.at < serial

EventInv == EventsPast /\ EventLogAgrees

IInv == TypeOK /\ serial <= MaxSerial /\ SlotInv /\ CorrelationInv /\ EventInv
=============================================================================
