--------------------------- MODULE FleetCommands ---------------------------
(***************************************************************************)
(* The command queue of the fleet controller (FleetState in                *)
(* tools/fleet_control_plane.py): one queue per target agent and one       *)
(* index from an agent's idempotency keys to the command that took it.     *)
(* Each action is one HTTP request handled from start to end; module       *)
(* FleetThreads takes the handlers apart into the steps that concurrent    *)
(* requests interleave.                                                    *)
(*                                                                         *)
(* A queue is the set of its entries.  An entry is the command and its     *)
(* arrival number, so the Python list order is the order of arrival.       *)
(***************************************************************************)
EXTENDS Naturals

CONSTANTS Agents,                (* every agent can be a target or a mirror source *)
          CommandIds, Keys, Leases,
          Kinds, PassiveKinds,   (* PASSIVE_COMMAND_KINDS *)
          NoCommand, NoLease, NoSource,
          MaxTime,               (* bound on the wall clock *)
          MaxSerial              (* bound on queue entries plus mirror events *)

ASSUME CommandConstants ==
    /\ MaxTime \in Nat /\ MaxSerial \in Nat
    /\ NoCommand \notin CommandIds
    /\ NoLease \notin Leases
    /\ NoSource \notin Agents

VARIABLES now,                (* the wall clock the expiry checks read *)
          serial,             (* numbers queue entries and mirror events *)
          commands,           (* FleetState.commands *)
          idempotency_index,  (* FleetState.idempotency_index *)
          delivered           (* history: entries returned by next-command *)

queueVars == <<serial, commands, idempotency_index, delivered>>

Slot == Agents \X Keys

Command == [command_id : CommandIds, target_agent_id : Agents,
            idempotency_key : Keys, expires_at : Nat, kind : Kinds,
            lease_id : Leases \cup {NoLease},
            source_agent_id : Agents \cup {NoSource}]

Entry == [cmd : Command, arrival : Nat]

SlotOf(c) == <<c.target_agent_id, c.idempotency_key>>

is_expired(c) == c.expires_at <= now

QueueInit == /\ now = 0
             /\ serial = 0
             /\ commands = [a \in Agents |-> {}]
             /\ idempotency_index = [s \in Slot |-> NoCommand]
             /\ delivered = {}

QueueTypeOK == /\ now \in Nat
               /\ serial \in Nat
               /\ commands \in [Agents -> SUBSET Entry]
               /\ idempotency_index \in [Slot -> CommandIds \cup {NoCommand}]
               /\ delivered \subseteq Entry

-----------------------------------------------------------------------------
\* The checks before the index is looked at: a command that is expired, or
\* that is not passive and names no remote session lease, is refused.
Acceptable(c) == /\ ~ is_expired(c)
                 /\ c.kind \in PassiveKinds \/ c.lease_id # NoLease

\* With a bug: only the waiting commands are looked through.
IsWaitingDuplicate(c) ==
    \E e \in commands[c.target_agent_id] : SlotOf(e.cmd) = SlotOf(c)

IsDuplicate(c) == idempotency_index[SlotOf(c)] # NoCommand

Enqueue(c) ==
    /\ idempotency_index' = [idempotency_index EXCEPT ![SlotOf(c)] = c.command_id]
    /\ commands' = [commands EXCEPT ![c.target_agent_id] =
                       @ \cup {[cmd |-> c, arrival |-> serial]}]

\* POST /commands.  A duplicate or a refused command changes nothing.
queue_command(c) ==
    /\ serial < MaxSerial
    /\ Acceptable(c)
    /\ ~ IsDuplicate(c)
    /\ Enqueue(c)
    /\ serial' = serial + 1
    /\ UNCHANGED <<now, delivered>>

Live(a) == {e \in commands[a] : ~ is_expired(e.cmd)}

\* With bugs: every key met is released, or none is.
LapsedAll(a) == commands[a]
LapsedNone(a) == {}

Lapsed(a) == commands[a] \ Live(a)

\* GET /agents/<a>/next-command: every expired command met in the queue is
\* dropped and its key released, the oldest live one is handed over.
next_command(a) ==
    /\ commands[a] # {}
    /\ idempotency_index' =
          [s \in Slot |-> IF \E e \in Lapsed(a) : s = <<a, e.cmd.idempotency_key>>
                          THEN NoCommand ELSE idempotency_index[s]]
    /\ \/ /\ Live(a) = {}
          /\ commands' = [commands EXCEPT ![a] = {}]
          /\ UNCHANGED delivered
       \/ \E selected \in Live(a) :
             /\ \A e \in Live(a) : selected.arrival <= e.arrival
             /\ commands' = [commands EXCEPT ![a] = Live(a) \ {selected}]
             /\ delivered' = delivered \cup {selected}
    /\ UNCHANGED <<now, serial>>

Tick == /\ now < MaxTime
        /\ now' = now + 1
        /\ UNCHANGED queueVars
=============================================================================
