------------------------ MODULE FleetControlProofs ------------------------
(***************************************************************************)
(* Proofs about the controller for any agents, keys, payloads and bounds.  *)
(***************************************************************************)
EXTENDS FleetControl, TLAPS

-----------------------------------------------------------------------------
(* Types.                                                                  *)

\* The command made from an intent is a command of the queue's type.
LEMMA FleetCommandType ==
    ASSUME NEW r \in IntentRequests
    PROVE  FleetCommand(r) \in Command
BY ControlConstants DEF FleetCommand, IntentPayload, Command

\* Putting a command into its queue keeps the types.
LEMMA EnqueueType ==
    ASSUME TypeOK, NEW c \in Command, Enqueue(c)
    PROVE  /\ idempotency_index' \in [Slot -> CommandIds \cup {NoCommand}]
           /\ commands' \in [Agents -> SUBSET Entry]
<1>1. [cmd |-> c, arrival |-> serial] \in Entry
  BY DEF TypeOK, QueueTypeOK, Entry
<1>2. c.command_id \in CommandIds /\ c.target_agent_id \in Agents
  BY DEF Command
<1>3. idempotency_index' \in [Slot -> CommandIds \cup {NoCommand}]
  BY <1>2 DEF Enqueue, TypeOK, QueueTypeOK
<1>4. commands' \in [Agents -> SUBSET Entry]
  BY <1>1, <1>2 DEF Enqueue, TypeOK, QueueTypeOK
<1> QED
  BY <1>3, <1>4

\* Recording an intent keeps the types of the mirror lane and of the counter.
LEMMA RecordIntentType ==
    ASSUME TypeOK, NEW r \in IntentRequests, NEW c \in CommandIds,
           NEW st \in ResultStates \cup {"queued_for_target"},
           NEW cs \in {"queued", "duplicate", "rejected"},
           RecordIntent(r, c, st, cs)
    PROVE  /\ mirror_intents' \in [Intents -> IntentStatus \cup {NoIntent}]
           /\ mirror_events' \in [Leases -> SUBSET Event]
           /\ serial' \in Nat
<1>1. r.mirror_intent_id \in Intents /\ r.lease_id \in Leases
  BY ControlConstants DEF IntentPayload
<1>2. [intent |-> r.mirror_intent_id, at |-> serial, state |-> st] \in Event
  BY <1>1 DEF TypeOK, QueueTypeOK, Event
<1>3. [lease_id |-> r.lease_id, command_id |-> c, state |-> st,
       controller_status |-> cs] \in IntentStatus
  BY <1>1 DEF IntentStatus
<1> QED
  BY <1>1, <1>2, <1>3 DEF RecordIntent, TypeOK, QueueTypeOK

\* A result keeps the types, whatever its status says.
LEMMA ResultType ==
    ASSUME TypeOK, NEW c \in CommandIds, NEW a \in Agents, NEW st, NEW u \in BOOLEAN,
           record_result(c, a, st, u)
    PROVE  TypeOK'
<1> DEFINE answered == {i \in mirror_command_index[c] : mirror_intents[i] # NoIntent}
           state == StateFromResult(st)
<1>1. state \in ResultStates /\ answered \subseteq Intents
  BY DEF StateFromResult, ResultStates, TypeOK
<1>2. \A i \in Intents : i \in answered =>
         [mirror_intents[i] EXCEPT !.state = state] \in IntentStatus
  BY <1>1 DEF TypeOK, IntentStatus
<1>3. /\ mirror_intents' = [i \in Intents |->
            IF i \in answered THEN [mirror_intents[i] EXCEPT !.state = state]
            ELSE mirror_intents[i]]
      /\ mirror_events' = [l \in Leases |-> mirror_events[l] \cup
            {[intent |-> i, at |-> serial, state |-> state] :
                i \in {j \in answered : mirror_intents[j].lease_id = l}}]
  BY DEF record_result
<1>4. \A i \in answered : [intent |-> i, at |-> serial, state |-> state] \in Event
  BY <1>1 DEF Event, TypeOK, QueueTypeOK
<1> HIDE DEF answered, state
<1>5. /\ mirror_intents' \in [Intents -> IntentStatus \cup {NoIntent}]
      /\ mirror_events' \in [Leases -> SUBSET Event]
  BY <1>1, <1>2, <1>3, <1>4 DEF TypeOK
<1> QED
  BY <1>5 DEF record_result, TypeOK, QueueTypeOK

\* Every step of the controller keeps the types.
LEMMA TypeStep == TypeOK /\ [Next]_vars => TypeOK'
<1> SUFFICES ASSUME TypeOK, [Next]_vars PROVE TypeOK'
  OBVIOUS
<1>1. CASE QueueCommand
  <2>1. PICK c \in CommandRequests : queue_command(c)
    BY <1>1 DEF QueueCommand
  <2>2. c \in Command
    BY ControlConstants
  <2> QED
    BY <1>1, <2>1, <2>2, EnqueueType
       DEF QueueCommand, queue_command, TypeOK, QueueTypeOK, mirrorVars
<1>2. CASE NextCommand
  <2>1. PICK a \in Agents : next_command(a)
    BY <1>2 DEF NextCommand
  <2>2. idempotency_index' \in [Slot -> CommandIds \cup {NoCommand}]
    BY <2>1 DEF next_command, TypeOK, QueueTypeOK
  <2>3. commands' \in [Agents -> SUBSET Entry] /\ delivered' \subseteq Entry
    BY <2>1 DEF next_command, Live, TypeOK, QueueTypeOK
  <2> QED
    BY <1>2, <2>1, <2>2, <2>3
       DEF NextCommand, next_command, TypeOK, QueueTypeOK, mirrorVars
<1>3. CASE CreateLease
  BY <1>3, ControlConstants
     DEF CreateLease, create_mirror_lease, LeasePayload, TypeOK, QueueTypeOK, queueVars
<1>4. CASE RevokeLease
  <2>1. PICK l \in Leases : revoke_mirror_lease(l)
    BY <1>4 DEF RevokeLease
  <2>2. mirror_leases[l] \in LeasePayload
    BY <2>1 DEF revoke_mirror_lease, TypeOK
  <2>3. [mirror_leases[l] EXCEPT !.revoked = TRUE] \in LeasePayload
    BY <2>2 DEF LeasePayload
  <2>4. mirror_leases' \in [Leases -> LeasePayload \cup {NoMirrorLease}]
    BY <2>1, <2>3 DEF revoke_mirror_lease, TypeOK
  <2> QED
    BY <2>1, <2>4 DEF revoke_mirror_lease, TypeOK, QueueTypeOK, queueVars
<1>5. CASE SubmitIntent
  <2>1. PICK r \in IntentRequests : submit_mirror_intent(r)
    BY <1>5 DEF SubmitIntent
  <2>2. FleetCommand(r) \in Command /\ r.mirror_intent_id \in Intents
    BY FleetCommandType, ControlConstants DEF IntentPayload
  <2>3. /\ MirrorCommandId[r.mirror_intent_id] \in CommandIds
        /\ FleetCommand(r).command_id \in CommandIds
        /\ SlotOf(FleetCommand(r)) \in Slot
    BY <2>2, ControlConstants DEF Command, SlotOf, Slot
  <2>4. /\ mirror_intents' \in [Intents -> IntentStatus \cup {NoIntent}]
        /\ mirror_events' \in [Leases -> SUBSET Event]
        /\ serial' \in Nat
        /\ mirror_command_index' \in [CommandIds -> SUBSET Intents]
        /\ idempotency_index' \in [Slot -> CommandIds \cup {NoCommand}]
        /\ commands' \in [Agents -> SUBSET Entry]
    <3>1. CASE reject_mirror_intent(r) /\ UNCHANGED mirror_command_index
      BY <3>1, <2>3, RecordIntentType
         DEF reject_mirror_intent, TypeOK, QueueTypeOK, ResultStates
    <3>2. CASE Enqueue(FleetCommand(r)) /\ Correlate(r, FleetCommand(r).command_id, "queued")
      <4>1. RecordIntent(r, FleetCommand(r).command_id, "queued_for_target", "queued")
        BY <3>2 DEF Correlate
      <4> QED
        BY <3>2, <4>1, <2>2, <2>3, RecordIntentType, EnqueueType DEF Correlate, TypeOK
    <3>3. CASE /\ IsDuplicate(FleetCommand(r))
               /\ Correlate(r, idempotency_index[SlotOf(FleetCommand(r))], "duplicate")
               /\ UNCHANGED <<commands, idempotency_index>>
      <4> DEFINE other == idempotency_index[SlotOf(FleetCommand(r))]
      <4>1. other \in CommandIds
        BY <3>3, <2>3 DEF IsDuplicate, TypeOK, QueueTypeOK
      <4>2. RecordIntent(r, other, "queued_for_target", "duplicate")
        BY <3>3 DEF Correlate
      <4> HIDE DEF other
      <4> QED
        BY <3>3, <4>1, <4>2, <2>2, RecordIntentType
           DEF Correlate, TypeOK, QueueTypeOK, other
    <3> QED
      BY <2>1, <3>1, <3>2, <3>3 DEF submit_mirror_intent, reject_mirror_intent
  <2> QED
    BY <2>1, <2>4 DEF submit_mirror_intent, TypeOK, QueueTypeOK
<1>6. CASE RecordResult
  BY <1>6, ResultType DEF RecordResult
<1>7. CASE ClockTick
  BY <1>7 DEF ClockTick, Tick, queueVars, mirrorVars, TypeOK, QueueTypeOK
<1>8. CASE UNCHANGED vars
  BY <1>8 DEF vars, queueVars, mirrorVars, TypeOK, QueueTypeOK
<1> QED
  BY <1>1, <1>2, <1>3, <1>4, <1>5, <1>6, <1>7, <1>8 DEF Next
-----------------------------------------------------------------------------
(* Idempotency keys.                                                       *)

\* Accepting a command whose key is free keeps one command per key.
LEMMA EnqueueKeepsSlots ==
    ASSUME TypeOK, SlotInv, NEW c \in Command, ~ IsDuplicate(c), Enqueue(c),
           serial' = serial + 1, UNCHANGED delivered
    PROVE  SlotInv'
<1> DEFINE new == [cmd |-> c, arrival |-> serial]
           a == c.target_agent_id
<1>1. /\ a \in Agents /\ c.command_id \in CommandIds /\ SlotOf(c) \in Slot
      /\ new.cmd = c /\ new.arrival = serial
      /\ serial \in Nat
  BY DEF Command, SlotOf, Slot, TypeOK, QueueTypeOK
<1>2. /\ commands' = [commands EXCEPT ![a] = @ \cup {new}]
      /\ idempotency_index' = [idempotency_index EXCEPT ![SlotOf(c)] = c.command_id]
  BY DEF Enqueue
<1>3. \A e \in Held : e \in Entry /\ SlotOf(e.cmd) \in Slot /\ e.cmd.command_id \in CommandIds
  BY DEF Held, Waiting, TypeOK, QueueTypeOK, Entry, Command, SlotOf, Slot
<1>4. \A e \in Held : SlotOf(e.cmd) # SlotOf(c)
  BY <1>3, CommandConstants DEF IsDuplicate, SlotInv, EntriesInPlace
<1> HIDE DEF new, a
<1>5. Waiting' = Waiting \cup {new} /\ Held' = Held \cup {new}
  BY <1>1, <1>2 DEF Waiting, Held, TypeOK, QueueTypeOK
<1>6. /\ \A e \in Held : idempotency_index'[SlotOf(e.cmd)] = idempotency_index[SlotOf(e.cmd)]
      /\ idempotency_index'[SlotOf(c)] = c.command_id
  BY <1>1, <1>2, <1>3, <1>4 DEF TypeOK, QueueTypeOK
<1>7. EntriesInPlace'
  <2>1. \A b \in Agents : \A e \in commands'[b] : e.cmd.target_agent_id = b
    BY <1>1, <1>2 DEF SlotInv, EntriesInPlace, TypeOK, QueueTypeOK, a
  <2>2. \A e \in Held : e.arrival \in Nat /\ e.arrival < serial
    BY <1>3 DEF SlotInv, EntriesInPlace, Entry
  <2>3. new \notin Held
    BY <2>2, <1>1
  <2>4. Waiting' \cap delivered' = {}
    BY <1>5, <2>3 DEF SlotInv, EntriesInPlace, Held
  <2>5. \A e \in Held' : idempotency_index'[SlotOf(e.cmd)] = e.cmd.command_id
    BY <1>1, <1>5, <1>6 DEF SlotInv, EntriesInPlace
  <2>6. \A e \in Held' : e.arrival < serial'
    BY <1>1, <1>5, <2>2
  <2> QED
    BY <2>1, <2>4, <2>5, <2>6 DEF EntriesInPlace
<1>8. SlotHoldsOneCommand'
  BY <1>1, <1>4, <1>5 DEF SlotInv, SlotHoldsOneCommand
<1>9. IndexIsExact'
  <2> SUFFICES ASSUME NEW s \in Slot
               PROVE  \/ /\ idempotency_index'[s] = NoCommand
                         /\ \A e \in Held' : SlotOf(e.cmd) # s
                      \/ \E e \in Held' : /\ SlotOf(e.cmd) = s
                                          /\ e.cmd.command_id = idempotency_index'[s]
    BY DEF IndexIsExact
  <2>1. CASE s = SlotOf(c)
    BY <2>1, <1>1, <1>5, <1>6
  <2>2. CASE s # SlotOf(c)
    <3>1. idempotency_index'[s] = idempotency_index[s]
      BY <2>2, <1>1, <1>2 DEF TypeOK, QueueTypeOK
    <3> QED
      BY <3>1, <2>2, <1>1, <1>5 DEF SlotInv, IndexIsExact
  <2> QED
    BY <2>1, <2>2
<1> QED
  BY <1>7, <1>8, <1>9 DEF SlotInv

\* What a poll leaves of the commands: all but the expired ones it met.
LEMMA PollKeepsLive ==
    ASSUME TypeOK, SlotInv, NEW a \in Agents, next_command(a)
    PROVE  /\ Held' = Held \ Lapsed(a)
           /\ Waiting' \cap delivered' = {}
           /\ \A b \in Agents : commands'[b] \subseteq commands[b]
<1>1. \A b \in Agents : b # a => commands[b] \cap commands[a] = {}
  BY DEF SlotInv, EntriesInPlace
<1>2. Lapsed(a) \subseteq commands[a] /\ Live(a) = commands[a] \ Lapsed(a)
  BY DEF Lapsed, Live
<1>3. Lapsed(a) \cap delivered = {} /\ commands[a] \subseteq Waiting
  BY <1>2 DEF SlotInv, EntriesInPlace, Waiting
<1>4. CASE /\ Live(a) = {} /\ UNCHANGED delivered
           /\ commands' = [commands EXCEPT ![a] = {}]
  <2>1. \A b \in Agents : commands'[b] = IF b = a THEN {} ELSE commands[b]
    BY <1>4 DEF TypeOK, QueueTypeOK
  <2>2. Waiting' = Waiting \ commands[a]
    BY <2>1, <1>1 DEF Waiting
  <2> QED
    BY <1>4, <1>2, <1>3, <2>1, <2>2 DEF Held, SlotInv, EntriesInPlace
<1>5. CASE \E selected \in Live(a) :
             /\ commands' = [commands EXCEPT ![a] = Live(a) \ {selected}]
             /\ delivered' = delivered \cup {selected}
  <2>1. PICK selected \in Live(a) :
             /\ commands' = [commands EXCEPT ![a] = Live(a) \ {selected}]
             /\ delivered' = delivered \cup {selected}
    BY <1>5
  <2>2. \A b \in Agents : commands'[b] = IF b = a THEN Live(a) \ {selected} ELSE commands[b]
    BY <2>1 DEF TypeOK, QueueTypeOK
  <2>3. Waiting' = Waiting \ (Lapsed(a) \cup {selected})
    BY <2>1, <2>2, <1>1, <1>2 DEF Waiting
  <2> QED
    BY <2>1, <2>2, <2>3, <1>2, <1>3 DEF Held, SlotInv, EntriesInPlace
<1> QED
  BY <1>4, <1>5 DEF next_command

\* A poll keeps one command per key: it frees the keys of what it drops, and
\* no command that stays or was handed over has such a key.
LEMMA PollKeepsSlots ==
    ASSUME TypeOK, SlotInv, NEW a \in Agents, next_command(a)
    PROVE  SlotInv'
<1>1. /\ Held' = Held \ Lapsed(a)
      /\ Waiting' \cap delivered' = {}
      /\ \A b \in Agents : commands'[b] \subseteq commands[b]
  BY PollKeepsLive
<1>2. \A e \in Held : SlotOf(e.cmd) \in Slot
  BY DEF Held, Waiting, TypeOK, QueueTypeOK, Entry, Command, SlotOf, Slot
<1>3. \A e \in Lapsed(a) : e \in Held /\ SlotOf(e.cmd) = <<a, e.cmd.idempotency_key>>
  BY DEF Lapsed, Held, Waiting, SlotOf, SlotInv, EntriesInPlace
<1>4. idempotency_index' =
          [s \in Slot |-> IF \E e \in Lapsed(a) : s = SlotOf(e.cmd)
                          THEN NoCommand ELSE idempotency_index[s]]
  BY <1>3 DEF next_command
<1>5. \A e \in Held' : \A f \in Lapsed(a) : SlotOf(e.cmd) # SlotOf(f.cmd)
  BY <1>1, <1>3 DEF SlotInv, SlotHoldsOneCommand
<1>6. \A e \in Held' : idempotency_index'[SlotOf(e.cmd)] = idempotency_index[SlotOf(e.cmd)]
  BY <1>1, <1>2, <1>4, <1>5
<1>7. EntriesInPlace'
  BY <1>1, <1>6 DEF EntriesInPlace, SlotInv, next_command
<1>8. SlotHoldsOneCommand'
  BY <1>1 DEF SlotHoldsOneCommand, SlotInv
<1>9. IndexIsExact'
  <2> SUFFICES ASSUME NEW s \in Slot
               PROVE  \/ /\ idempotency_index'[s] = NoCommand
                         /\ \A e \in Held' : SlotOf(e.cmd) # s
                      \/ \E e \in Held' : /\ SlotOf(e.cmd) = s
                                          /\ e.cmd.command_id = idempotency_index'[s]
    BY DEF IndexIsExact
  <2>1. CASE \E e \in Lapsed(a) : s = SlotOf(e.cmd)
    BY <2>1, <1>4, <1>5
  <2>2. CASE ~ \E e \in Lapsed(a) : s = SlotOf(e.cmd)
    <3>1. idempotency_index'[s] = idempotency_index[s]
      BY <2>2, <1>4
    <3> QED
      BY <3>1, <2>2, <1>1 DEF SlotInv, IndexIsExact
  <2> QED
    BY <2>1, <2>2
<1> QED
  BY <1>7, <1>8, <1>9 DEF SlotInv

\* A step that leaves the queue, its index and its history alone keeps SlotInv.
LEMMA SlotFrame ==
    ASSUME TypeOK, SlotInv, UNCHANGED <<commands, idempotency_index, delivered>>,
           serial' \in Nat, serial' >= serial
    PROVE  SlotInv'
<1>1. Held' = Held /\ Waiting' = Waiting
  BY DEF Held, Waiting
<1>2. \A e \in Held : e.arrival \in Nat
  BY DEF Held, Waiting, TypeOK, QueueTypeOK, Entry
<1>3. EntriesInPlace'
  BY <1>1, <1>2 DEF EntriesInPlace, SlotInv, TypeOK, QueueTypeOK
<1> QED
  BY <1>1, <1>3 DEF SlotInv, SlotHoldsOneCommand, IndexIsExact

\* Every step keeps one command per idempotency key and an exact index.
LEMMA SlotStep == TypeOK /\ SlotInv /\ [Next]_vars => SlotInv'
<1> SUFFICES ASSUME TypeOK, SlotInv, [Next]_vars PROVE SlotInv'
  OBVIOUS
<1>0. serial \in Nat
  BY DEF TypeOK, QueueTypeOK
<1>1. CASE QueueCommand
  BY <1>1, EnqueueKeepsSlots, ControlConstants DEF QueueCommand, queue_command
<1>2. CASE NextCommand
  BY <1>2, PollKeepsSlots DEF NextCommand
<1>3. CASE CreateLease
  BY <1>0, <1>3, SlotFrame DEF CreateLease, create_mirror_lease, queueVars
<1>4. CASE RevokeLease
  BY <1>0, <1>4, SlotFrame DEF RevokeLease, revoke_mirror_lease, queueVars
<1>5. CASE SubmitIntent
  <2>1. PICK r \in IntentRequests : submit_mirror_intent(r)
    BY <1>5 DEF SubmitIntent
  <2>2. serial' = serial + 1 /\ UNCHANGED delivered
    BY <2>1 DEF submit_mirror_intent, reject_mirror_intent, Correlate, RecordIntent
  <2>3. CASE ~ IsDuplicate(FleetCommand(r)) /\ Enqueue(FleetCommand(r))
    BY <2>2, <2>3, FleetCommandType, EnqueueKeepsSlots
  <2>4. CASE UNCHANGED <<commands, idempotency_index>>
    BY <1>0, <2>2, <2>4, SlotFrame
  <2> QED
    BY <2>1, <2>3, <2>4 DEF submit_mirror_intent, reject_mirror_intent
<1>6. CASE RecordResult
  BY <1>0, <1>6, SlotFrame DEF RecordResult, record_result
<1>7. CASE ClockTick
  BY <1>0, <1>7, SlotFrame DEF ClockTick, Tick, queueVars
<1>8. CASE UNCHANGED vars
  BY <1>0, <1>8, SlotFrame DEF vars, queueVars
<1> QED
  BY <1>1, <1>2, <1>3, <1>4, <1>5, <1>6, <1>7, <1>8 DEF Next
-----------------------------------------------------------------------------
(* Intents, events and the way back from a result.                         *)

\* What a result changes of an intent on record: its state, nothing else.
LEMMA ResultKeepsIntents ==
    ASSUME TypeOK, NEW c \in CommandIds, NEW a \in Agents, NEW st,
           NEW u \in BOOLEAN, record_result(c, a, st, u), NEW i \in Intents
    PROVE  /\ mirror_intents'[i] = NoIntent <=> mirror_intents[i] = NoIntent
           /\ mirror_intents[i] # NoIntent =>
                 /\ mirror_intents'[i].controller_status = mirror_intents[i].controller_status
                 /\ mirror_intents'[i].lease_id = mirror_intents[i].lease_id
           /\ mirror_intents'[i].state =
                 IF mirror_intents[i] # NoIntent /\ i \in mirror_command_index[c]
                 THEN StateFromResult(st) ELSE mirror_intents[i].state
           /\ (mirror_intents[i] = NoIntent \/ i \notin mirror_command_index[c])
                 => mirror_intents'[i] = mirror_intents[i]
<1> DEFINE old == mirror_intents[i]
           new == [old EXCEPT !.state = StateFromResult(st)]
<1>1. CASE old = NoIntent \/ i \notin mirror_command_index[c]
  BY <1>1 DEF record_result
<1>2. CASE old # NoIntent /\ i \in mirror_command_index[c]
  <2>1. old \in IntentStatus
    BY <1>2 DEF TypeOK
  <2>2. StateFromResult(st) \in ResultStates
    BY DEF StateFromResult, ResultStates
  <2>3. /\ new \in IntentStatus /\ new.state = StateFromResult(st)
        /\ new.controller_status = old.controller_status
        /\ new.lease_id = old.lease_id
    BY <2>1, <2>2 DEF IntentStatus
  <2>4. mirror_intents'[i] = new
    BY <1>2 DEF record_result
  <2> QED
    BY <1>2, <2>3, <2>4, ControlConstants
<1> QED
  BY <1>1, <1>2

\* What recording an intent does to the intents.
LEMMA RecordedIntent ==
    ASSUME TypeOK, NEW r \in IntentRequests, NEW c \in CommandIds,
           NEW st \in ResultStates \cup {"queued_for_target"},
           NEW cs \in {"queued", "duplicate", "rejected"},
           RecordIntent(r, c, st, cs)
    PROVE  LET i == r.mirror_intent_id IN
           /\ mirror_intents'[i] # NoIntent
           /\ mirror_intents'[i].controller_status = cs
           /\ mirror_intents'[i].state = st
           /\ mirror_intents'[i].lease_id = r.lease_id
           /\ \A j \in Intents : j # i => mirror_intents'[j] = mirror_intents[j]
<1>1. r.mirror_intent_id \in Intents /\ r.lease_id \in Leases
  BY ControlConstants DEF IntentPayload
<1>2. [lease_id |-> r.lease_id, command_id |-> c, state |-> st,
       controller_status |-> cs] \in IntentStatus
  BY <1>1 DEF IntentStatus
<1> QED
  BY <1>1, <1>2, ControlConstants DEF RecordIntent, TypeOK

\* What an accepted command adds to the commands that can reach an agent.
LEMMA EnqueueHeld ==
    ASSUME TypeOK, NEW c \in Command, Enqueue(c), UNCHANGED delivered
    PROVE  Held' = Held \cup {[cmd |-> c, arrival |-> serial]}
BY DEF Enqueue, Held, Waiting, TypeOK, QueueTypeOK, Command

\* A step that neither adds commands nor touches the intents keeps CorrelationInv.
LEMMA CorrelationFrame ==
    ASSUME CorrelationInv, Held' \subseteq Held,
           UNCHANGED <<mirror_intents, mirror_command_index>>
    PROVE  CorrelationInv'
BY DEF CorrelationInv, ListedIntentsAdmitted, MirrorCommandCorrelated

\* Listing a new intent under a command keeps the intents listed so far.
LEMMA ListingKeepsCorrelation ==
    ASSUME TypeOK, CorrelationInv, NEW i \in Intents, NEW d \in CommandIds,
           mirror_intents[i] = NoIntent,
           mirror_command_index' = [mirror_command_index EXCEPT ![d] = @ \cup {i}],
           mirror_intents'[i] # NoIntent,
           mirror_intents'[i].controller_status # "rejected",
           \A j \in Intents : j # i => mirror_intents'[j] = mirror_intents[j]
    PROVE  /\ ListedIntentsAdmitted'
           /\ \A e \in Held : e.cmd.source_agent_id # NoSource =>
                 \E j \in mirror_command_index'[e.cmd.command_id] :
                    /\ MirrorCommandId[j] = e.cmd.command_id
                    /\ mirror_intents'[j].controller_status = "queued"
<1>1. \A b \in CommandIds : mirror_command_index'[b] =
         IF b = d THEN mirror_command_index[b] \cup {i} ELSE mirror_command_index[b]
  BY DEF TypeOK
<1>2. \A b \in CommandIds : \A j \in mirror_command_index[b] :
         j \in Intents /\ j # i /\ mirror_intents'[j] = mirror_intents[j]
  BY DEF TypeOK, CorrelationInv, ListedIntentsAdmitted
<1>3. ASSUME NEW b \in CommandIds, NEW j \in mirror_command_index'[b]
      PROVE  /\ mirror_intents'[j] # NoIntent
             /\ mirror_intents'[j].controller_status # "rejected"
  <2>1. CASE j = i
    BY <2>1
  <2>2. CASE j \in mirror_command_index[b]
    BY <2>2, <1>2 DEF CorrelationInv, ListedIntentsAdmitted
  <2> QED
    BY <1>1, <1>3, <2>1, <2>2
<1>4. \A e \in Held : e.cmd.command_id \in CommandIds
  BY DEF Held, Waiting, TypeOK, QueueTypeOK, Entry, Command
<1>5. ASSUME NEW e \in Held, e.cmd.source_agent_id # NoSource
      PROVE  \E j \in mirror_command_index'[e.cmd.command_id] :
                /\ MirrorCommandId[j] = e.cmd.command_id
                /\ mirror_intents'[j].controller_status = "queued"
  <2>1. PICK j \in mirror_command_index[e.cmd.command_id] :
                /\ MirrorCommandId[j] = e.cmd.command_id
                /\ mirror_intents[j].controller_status = "queued"
    BY <1>5 DEF CorrelationInv, MirrorCommandCorrelated
  <2> QED
    BY <2>1, <1>1, <1>2, <1>4
<1> QED
  BY <1>3, <1>5 DEF ListedIntentsAdmitted

\* A result keeps the way back from a command to its intents.
LEMMA ResultKeepsCorrelation ==
    ASSUME TypeOK, CorrelationInv, NEW c \in CommandIds, NEW a \in Agents,
           NEW st, NEW u \in BOOLEAN, record_result(c, a, st, u)
    PROVE  CorrelationInv'
<1>1. Held' = Held /\ UNCHANGED mirror_command_index
  BY DEF record_result, Held, Waiting
<1>2. \A i \in Intents :
         /\ mirror_intents'[i] = NoIntent <=> mirror_intents[i] = NoIntent
         /\ mirror_intents[i] # NoIntent =>
               mirror_intents'[i].controller_status = mirror_intents[i].controller_status
  BY ResultKeepsIntents
<1>3. ListedIntentsAdmitted'
  BY <1>1, <1>2 DEF CorrelationInv, ListedIntentsAdmitted, TypeOK
<1>4. \A e \in Held : e.cmd.command_id \in CommandIds
  BY DEF Held, Waiting, TypeOK, QueueTypeOK, Entry, Command
<1>5. MirrorCommandCorrelated'
  BY <1>1, <1>2, <1>4
     DEF CorrelationInv, ListedIntentsAdmitted, MirrorCommandCorrelated, TypeOK
<1> QED
  BY <1>3, <1>5 DEF CorrelationInv

\* Every step keeps the way back from a command to its intents.
LEMMA CorrelationStep ==
    TypeOK /\ SlotInv /\ CorrelationInv /\ [Next]_vars => CorrelationInv'
<1> SUFFICES ASSUME TypeOK, SlotInv, CorrelationInv, [Next]_vars PROVE CorrelationInv'
  OBVIOUS
<1>1. CASE QueueCommand
  <2>1. PICK c \in CommandRequests : queue_command(c)
    BY <1>1 DEF QueueCommand
  <2>2. c \in Command /\ c.source_agent_id = NoSource
    BY ControlConstants
  <2>3. Held' = Held \cup {[cmd |-> c, arrival |-> serial]}
    BY <2>1, <2>2, EnqueueHeld DEF queue_command
  <2> QED
    BY <1>1, <2>2, <2>3
       DEF QueueCommand, mirrorVars, CorrelationInv, ListedIntentsAdmitted,
           MirrorCommandCorrelated
<1>2. CASE NextCommand
  BY <1>2, PollKeepsLive, CorrelationFrame DEF NextCommand, mirrorVars
<1>3. CASE CreateLease
  BY <1>3, CorrelationFrame DEF CreateLease, create_mirror_lease, queueVars, Held, Waiting
<1>4. CASE RevokeLease
  BY <1>4, CorrelationFrame DEF RevokeLease, revoke_mirror_lease, queueVars, Held, Waiting
<1>5. CASE SubmitIntent
  <2>1. PICK r \in IntentRequests : submit_mirror_intent(r)
    BY <1>5 DEF SubmitIntent
  <2> DEFINE i == r.mirror_intent_id
             c == FleetCommand(r)
  <2>2. /\ mirror_intents[i] = NoIntent /\ UNCHANGED delivered
        /\ i \in Intents /\ r.lease_id \in Leases
    BY <2>1, ControlConstants DEF submit_mirror_intent, IntentPayload
  <2>3. \A d \in CommandIds : i \notin mirror_command_index[d]
    BY <2>2 DEF CorrelationInv, ListedIntentsAdmitted
  <2>4. /\ c \in Command /\ c.command_id = MirrorCommandId[i] /\ c.command_id \in CommandIds
        /\ SlotOf(c) \in Slot
    BY <2>2, FleetCommandType, ControlConstants DEF FleetCommand, Command, SlotOf, Slot
  <2> HIDE DEF c, i
  <2>5. CASE reject_mirror_intent(r)
    <3>1. \A j \in Intents : j # i => mirror_intents'[j] = mirror_intents[j]
      BY <2>5, <2>2, <2>4, RecordedIntent DEF reject_mirror_intent, ResultStates, i
    <3>2. Held' = Held /\ UNCHANGED mirror_command_index
      BY <2>2, <2>5 DEF reject_mirror_intent, Held, Waiting
    <3> QED
      BY <3>1, <3>2, <2>3 DEF CorrelationInv, ListedIntentsAdmitted,
         MirrorCommandCorrelated, TypeOK, Held, Waiting, QueueTypeOK, Entry, Command
  <2>6. CASE Enqueue(c) /\ Correlate(r, c.command_id, "queued")
    <3>1. /\ mirror_intents'[i] # NoIntent
          /\ mirror_intents'[i].controller_status = "queued"
          /\ \A j \in Intents : j # i => mirror_intents'[j] = mirror_intents[j]
      BY <2>6, <2>4, RecordedIntent DEF Correlate, i
    <3>2. mirror_command_index' =
             [mirror_command_index EXCEPT ![c.command_id] = @ \cup {i}]
      BY <2>6 DEF Correlate, i
    <3>3. Held' = Held \cup {[cmd |-> c, arrival |-> serial]}
      BY <2>2, <2>4, <2>6, EnqueueHeld
    <3>4. /\ ListedIntentsAdmitted'
          /\ \A e \in Held : e.cmd.source_agent_id # NoSource =>
                \E j \in mirror_command_index'[e.cmd.command_id] :
                   /\ MirrorCommandId[j] = e.cmd.command_id
                   /\ mirror_intents'[j].controller_status = "queued"
      BY <3>1, <3>2, <2>2, <2>4, ListingKeepsCorrelation
    <3>5. i \in mirror_command_index'[c.command_id]
      BY <3>2, <2>4 DEF TypeOK
    <3>6. MirrorCommandCorrelated'
      BY <3>1, <3>3, <3>4, <3>5, <2>4 DEF MirrorCommandCorrelated
    <3> QED
      BY <3>4, <3>6 DEF CorrelationInv
  <2>7. CASE /\ IsDuplicate(c)
             /\ Correlate(r, idempotency_index[SlotOf(c)], "duplicate")
             /\ UNCHANGED <<commands, idempotency_index>>
    <3> DEFINE other == idempotency_index[SlotOf(c)]
    <3>1. other \in CommandIds
      BY <2>7, <2>4 DEF IsDuplicate, TypeOK, QueueTypeOK
    <3>2. /\ mirror_intents'[i] # NoIntent
          /\ mirror_intents'[i].controller_status = "duplicate"
          /\ \A j \in Intents : j # i => mirror_intents'[j] = mirror_intents[j]
      BY <2>7, <3>1, RecordedIntent DEF Correlate, i
    <3>3. mirror_command_index' = [mirror_command_index EXCEPT ![other] = @ \cup {i}]
      BY <2>7 DEF Correlate, i
    <3>4. Held' = Held
      BY <2>2, <2>7 DEF Held, Waiting
    <3> HIDE DEF other
    <3> QED
      BY <3>1, <3>2, <3>3, <3>4, <2>2, ListingKeepsCorrelation
         DEF CorrelationInv, MirrorCommandCorrelated
  <2> QED
    BY <2>1, <2>5, <2>6, <2>7 DEF submit_mirror_intent, c
<1>6. CASE RecordResult
  BY <1>6, ResultKeepsCorrelation DEF RecordResult
<1>7. CASE ClockTick
  BY <1>7, CorrelationFrame DEF ClockTick, Tick, queueVars, mirrorVars, Held, Waiting
<1>8. CASE UNCHANGED vars
  BY <1>8, CorrelationFrame DEF vars, queueVars, mirrorVars, Held, Waiting
<1> QED
  BY <1>1, <1>2, <1>3, <1>4, <1>5, <1>6, <1>7, <1>8 DEF Next
-----------------------------------------------------------------------------
(* Intents and the events of their sessions.                               *)

\* A step that leaves intents and events alone keeps their agreement.
LEMMA EventFrame ==
    ASSUME TypeOK, EventInv, UNCHANGED <<mirror_intents, mirror_events>>,
           serial' \in Nat, serial' >= serial
    PROVE  EventInv'
<1>1. \A l \in Leases : \A ev \in mirror_events[l] : ev.at \in Nat
  BY DEF TypeOK, Event
<1>2. EventsPast'
  BY <1>1 DEF EventInv, EventsPast, TypeOK, QueueTypeOK
<1>3. EventLogAgrees'
  BY DEF EventInv, EventLogAgrees
<1> QED
  BY <1>2, <1>3 DEF EventInv

\* Recording an intent gives it the event that agrees with it.
LEMMA RecordKeepsEvents ==
    ASSUME TypeOK, EventInv, NEW r \in IntentRequests, NEW c \in CommandIds,
           NEW st \in ResultStates \cup {"queued_for_target"},
           NEW cs \in {"queued", "duplicate", "rejected"},
           RecordIntent(r, c, st, cs)
    PROVE  EventInv'
<1> DEFINE it == r.mirror_intent_id
           ls == r.lease_id
           new == [intent |-> it, at |-> serial, state |-> st]
<1>1. it \in Intents /\ ls \in Leases /\ serial \in Nat /\ serial' = serial + 1
  BY ControlConstants DEF IntentPayload, TypeOK, QueueTypeOK, RecordIntent
<1>2. /\ mirror_intents'[it].state = st
      /\ mirror_intents'[it].lease_id = ls
      /\ \A j \in Intents : j # it => mirror_intents'[j] = mirror_intents[j]
  BY RecordedIntent
<1>3. \A m \in Leases : mirror_events'[m] =
         IF m = ls THEN mirror_events[m] \cup {new} ELSE mirror_events[m]
  BY DEF RecordIntent, TypeOK
<1>4. new.intent = it /\ new.at = serial /\ new.state = st
  OBVIOUS
<1> HIDE DEF new, it, ls
<1>5. \A m \in Leases : \A ev \in mirror_events[m] : ev.at \in Nat /\ ev.at < serial
  BY DEF TypeOK, Event, EventInv, EventsPast
<1>6. \A m \in Leases : \A ev \in mirror_events'[m] : ev \in mirror_events[m] \/ ev = new
  BY <1>3
<1>8. EventsPast'
  <2> SUFFICES ASSUME NEW m \in Leases, NEW ev \in mirror_events'[m]
               PROVE  ev.at < serial'
    BY DEF EventsPast
  <2>1. CASE ev = new
    BY <2>1, <1>1, <1>4
  <2>2. CASE ev \in mirror_events[m]
    BY <2>2, <1>1, <1>5
  <2> QED
    BY <2>1, <2>2, <1>6
<1>7. ASSUME NEW j \in Intents, mirror_intents'[j] # NoIntent
      PROVE  \E ev \in mirror_events'[mirror_intents'[j].lease_id] :
                /\ ev.intent = j
                /\ ev.state = mirror_intents'[j].state
                /\ \A other \in mirror_events'[mirror_intents'[j].lease_id] :
                      other.intent = j => other.at < ev.at \/ other = ev
  <2>1. CASE j = it
    <3>1. new \in mirror_events'[ls]
      BY <1>1, <1>3
    <3>2. \A other \in mirror_events'[ls] : other.at < new.at \/ other = new
      BY <1>1, <1>3, <1>4, <1>5
    <3> QED
      BY <2>1, <3>1, <3>2, <1>2, <1>4
  <2>2. CASE j # it
    <3>1. mirror_intents'[j] = mirror_intents[j] /\ mirror_intents[j].lease_id \in Leases
      BY <2>2, <1>2, <1>7 DEF TypeOK, IntentStatus
    <3>2. PICK ev \in mirror_events[mirror_intents[j].lease_id] :
             /\ ev.intent = j
             /\ ev.state = mirror_intents[j].state
             /\ \A other \in mirror_events[mirror_intents[j].lease_id] :
                   other.intent = j => other.at < ev.at \/ other = ev
      BY <1>7, <3>1 DEF EventInv, EventLogAgrees
    <3>3. ev \in mirror_events'[mirror_intents[j].lease_id]
      BY <3>1, <3>2, <1>3
    <3>4. \A other \in mirror_events'[mirror_intents[j].lease_id] :
             other.intent = j => other \in mirror_events[mirror_intents[j].lease_id]
      BY <2>2, <3>1, <1>4, <1>6
    <3> QED
      BY <3>1, <3>2, <3>3, <3>4
  <2> QED
    BY <2>1, <2>2
<1> QED
  BY <1>8, <1>7 DEF EventInv, EventLogAgrees

\* A result gives every intent it answers the event that agrees with it.
LEMMA ResultKeepsEvents ==
    ASSUME TypeOK, EventInv, NEW c \in CommandIds, NEW a \in Agents,
           NEW st, NEW u \in BOOLEAN, record_result(c, a, st, u)
    PROVE  EventInv'
<1> DEFINE state == StateFromResult(st)
           answered == {j \in mirror_command_index[c] : mirror_intents[j] # NoIntent}
           new(j) == [intent |-> j, at |-> serial, state |-> state]
<1>1. /\ serial \in Nat /\ serial' = serial + 1
      /\ \A m \in Leases : mirror_events'[m] = mirror_events[m] \cup
            {new(j) : j \in {k \in answered : mirror_intents[k].lease_id = m}}
  BY DEF record_result, TypeOK, QueueTypeOK
<1>2. \A j : new(j).intent = j /\ new(j).at = serial /\ new(j).state = state
  OBVIOUS
<1> HIDE DEF state, new
<1>3. \A m \in Leases : \A ev \in mirror_events[m] : ev.at \in Nat /\ ev.at < serial
  BY DEF TypeOK, Event, EventInv, EventsPast
<1>4. EventsPast'
  BY <1>1, <1>2, <1>3 DEF EventsPast
<1>5. ASSUME NEW i \in Intents, mirror_intents'[i] # NoIntent
      PROVE  \E ev \in mirror_events'[mirror_intents'[i].lease_id] :
                /\ ev.intent = i
                /\ ev.state = mirror_intents'[i].state
                /\ \A other \in mirror_events'[mirror_intents'[i].lease_id] :
                      other.intent = i => other.at < ev.at \/ other = ev
  <2>1. /\ mirror_intents[i] # NoIntent
        /\ mirror_intents'[i].lease_id = mirror_intents[i].lease_id
        /\ mirror_intents[i].lease_id \in Leases
        /\ i \in answered => mirror_intents'[i].state = state
        /\ i \notin answered => mirror_intents'[i] = mirror_intents[i]
    BY <1>5, ResultKeepsIntents DEF TypeOK, IntentStatus, state
  <2> DEFINE l == mirror_intents[i].lease_id
  <2>2. CASE i \in answered
    <3>1. new(i) \in mirror_events'[l]
      BY <2>1, <2>2, <1>1
    <3>2. \A other \in mirror_events'[l] :
             other.intent = i => other.at < new(i).at \/ other = new(i)
      BY <2>1, <1>1, <1>2, <1>3
    <3> QED
      BY <2>1, <2>2, <3>1, <3>2, <1>2
  <2>3. CASE i \notin answered
    <3>1. PICK ev \in mirror_events[l] :
             /\ ev.intent = i
             /\ ev.state = mirror_intents[i].state
             /\ \A other \in mirror_events[l] :
                   other.intent = i => other.at < ev.at \/ other = ev
      BY <2>1 DEF EventInv, EventLogAgrees
    <3>2. \A other \in mirror_events'[l] : other.intent = i => other \in mirror_events[l]
      BY <2>1, <2>3, <1>1, <1>2
    <3> QED
      BY <2>1, <2>3, <3>1, <3>2, <1>1
  <2> QED
    BY <2>2, <2>3
<1> QED
  BY <1>4, <1>5 DEF EventInv, EventLogAgrees

\* Every step keeps the intents and the events of their sessions in agreement.
LEMMA EventStep == TypeOK /\ EventInv /\ [Next]_vars => EventInv'
<1> SUFFICES ASSUME TypeOK, EventInv, [Next]_vars PROVE EventInv'
  OBVIOUS
<1>0. serial \in Nat
  BY DEF TypeOK, QueueTypeOK
<1>1. CASE QueueCommand
  BY <1>0, <1>1, EventFrame DEF QueueCommand, queue_command, mirrorVars
<1>2. CASE NextCommand
  BY <1>0, <1>2, EventFrame DEF NextCommand, next_command, mirrorVars
<1>3. CASE CreateLease
  BY <1>0, <1>3, EventFrame DEF CreateLease, create_mirror_lease, queueVars
<1>4. CASE RevokeLease
  BY <1>0, <1>4, EventFrame DEF RevokeLease, revoke_mirror_lease, queueVars
<1>5. CASE SubmitIntent
  <2>1. PICK r \in IntentRequests : submit_mirror_intent(r)
    BY <1>5 DEF SubmitIntent
  <2>2. /\ MirrorCommandId[r.mirror_intent_id] \in CommandIds
        /\ FleetCommand(r).command_id \in CommandIds
        /\ SlotOf(FleetCommand(r)) \in Slot
    BY FleetCommandType, ControlConstants DEF Command, SlotOf, Slot, IntentPayload
  <2>3. CASE reject_mirror_intent(r)
    BY <2>2, <2>3, RecordKeepsEvents DEF reject_mirror_intent, ResultStates
  <2>4. CASE Correlate(r, FleetCommand(r).command_id, "queued")
    BY <2>2, <2>4, RecordKeepsEvents DEF Correlate
  <2>5. CASE /\ IsDuplicate(FleetCommand(r))
             /\ Correlate(r, idempotency_index[SlotOf(FleetCommand(r))], "duplicate")
    BY <2>2, <2>5, RecordKeepsEvents DEF Correlate, IsDuplicate, TypeOK, QueueTypeOK
  <2> QED
    BY <2>1, <2>3, <2>4, <2>5 DEF submit_mirror_intent
<1>6. CASE RecordResult
  BY <1>6, ResultKeepsEvents DEF RecordResult
<1>7. CASE ClockTick
  BY <1>0, <1>7, EventFrame DEF ClockTick, Tick, queueVars, mirrorVars
<1>8. CASE UNCHANGED vars
  BY <1>0, <1>8, EventFrame DEF vars, queueVars, mirrorVars
<1> QED
  BY <1>1, <1>2, <1>3, <1>4, <1>5, <1>6, <1>7, <1>8 DEF Next

-----------------------------------------------------------------------------
(* The inductive invariant and what follows from it.                       *)

\* The bound on entries and events is never exceeded.
LEMMA SerialStep == TypeOK /\ serial <= MaxSerial /\ [Next]_vars => serial' <= MaxSerial
<1> SUFFICES ASSUME TypeOK, serial <= MaxSerial, [Next]_vars PROVE serial' <= MaxSerial
  OBVIOUS
<1>1. serial \in Nat /\ MaxSerial \in Nat
  BY CommandConstants DEF TypeOK, QueueTypeOK
<1>2. serial' = serial \/ (serial < MaxSerial /\ serial' = serial + 1)
  BY DEF Next, vars, queueVars, QueueCommand, queue_command, NextCommand, next_command,
         CreateLease, create_mirror_lease, RevokeLease, revoke_mirror_lease,
         SubmitIntent, submit_mirror_intent, reject_mirror_intent, Correlate,
         RecordIntent, RecordResult, record_result, ClockTick, Tick
<1> QED
  BY <1>1, <1>2

\* A controller that has just started satisfies the invariant.
LEMMA InitInv == Init => IInv
<1> SUFFICES ASSUME Init PROVE IInv
  OBVIOUS
<1>1. Held = {} /\ Waiting = {}
  BY DEF Init, QueueInit, Held, Waiting
<1>2. TypeOK
  BY DEF Init, QueueInit, TypeOK, QueueTypeOK
<1>3. SlotInv
  BY <1>1 DEF Init, QueueInit, SlotInv, EntriesInPlace, SlotHoldsOneCommand, IndexIsExact
<1>4. CorrelationInv
  BY <1>1 DEF Init, CorrelationInv, ListedIntentsAdmitted, MirrorCommandCorrelated
<1>5. EventInv
  BY DEF Init, EventInv, EventsPast, EventLogAgrees
<1>6. serial <= MaxSerial
  BY CommandConstants DEF Init, QueueInit
<1> QED
  BY <1>2, <1>3, <1>4, <1>5, <1>6 DEF IInv

\* A result keeps the invariant, whoever reports it and whatever its status says.
LEMMA ResultKeeps ==
    ASSUME IInv, NEW c \in CommandIds, NEW a \in Agents, NEW st, NEW u \in BOOLEAN,
           record_result(c, a, st, u)
    PROVE  IInv'
<1>1. TypeOK' /\ CorrelationInv' /\ EventInv'
  BY ResultType, ResultKeepsCorrelation, ResultKeepsEvents DEF IInv
<1>2. /\ UNCHANGED <<commands, idempotency_index, delivered>>
      /\ serial \in Nat /\ serial < MaxSerial /\ serial' = serial + 1 /\ MaxSerial \in Nat
  BY CommandConstants DEF record_result, IInv, TypeOK, QueueTypeOK
<1>3. SlotInv'
  BY <1>2, SlotFrame DEF IInv
<1>4. serial' <= MaxSerial
  BY <1>2
<1> QED
  BY <1>1, <1>3, <1>4 DEF IInv

LEMMA InvStep == IInv /\ [Next]_vars => IInv'
  BY TypeStep, SlotStep, CorrelationStep, EventStep, SerialStep DEF IInv

\* IInv, the conjunction of the invariants with what they rest on, holds in
\* every reachable state of the controller.
THEOREM Inductive == Spec => []IInv
<1> QED
  BY InitInv, InvStep, PTL DEF Spec

\* Type correctness of the controller: TypeOK of the model-checking runs.
THEOREM TypeCorrect == Spec => []TypeOK
<1>1. IInv => TypeOK
  BY DEF IInv
<1> QED
  BY <1>1, Inductive, PTL

\* For any agents, keys and payloads, and however often commands expire and
\* are queued again, no two live or handed-over commands share a key.
THEOREM OneCommandPerSlot == Spec => []SlotHoldsOneCommand
<1>1. IInv => SlotHoldsOneCommand
  BY DEF IInv, SlotInv
<1> QED
  BY <1>1, Inductive, PTL

\* The idempotency index blocks exactly the keys that are taken.
THEOREM IndexExact == Spec => []IndexIsExact
<1>1. IInv => IndexIsExact
  BY DEF IInv, SlotInv
<1> QED
  BY <1>1, Inductive, PTL

\* Every mirror command that can reach its agent leads back to its intent.
THEOREM CommandsCorrelated == Spec => []MirrorCommandCorrelated
<1>1. IInv => MirrorCommandCorrelated
  BY DEF IInv, CorrelationInv
<1> QED
  BY <1>1, Inductive, PTL

\* The intent status and the session events never disagree.
THEOREM EventsAgree == Spec => []EventLogAgrees
<1>1. IInv => EventLogAgrees
  BY DEF IInv, EventInv
<1> QED
  BY <1>1, Inductive, PTL

-----------------------------------------------------------------------------
(* Rejected intents.                                                       *)

\* Results change only intents that are listed under a command, and new
\* submissions only intents that are not on record.
LEMMA RejectedStep == IInv /\ [Next]_vars => [RejectedStays]_vars
<1> SUFFICES ASSUME IInv, [Next]_vars, NEW i \in Intents,
                    mirror_intents[i] # NoIntent,
                    mirror_intents[i].controller_status = "rejected"
             PROVE  mirror_intents'[i] = mirror_intents[i]
  BY DEF RejectedStays
<1>1. TypeOK /\ SlotInv /\ CorrelationInv
  BY DEF IInv
<1>2. CASE SubmitIntent
  <2>1. PICK r \in IntentRequests : submit_mirror_intent(r)
    BY <1>2 DEF SubmitIntent
  <2>2. r.mirror_intent_id # i
    BY <2>1 DEF submit_mirror_intent
  <2>3. PICK v : mirror_intents' = [mirror_intents EXCEPT ![r.mirror_intent_id] = v]
    BY <2>1 DEF submit_mirror_intent, reject_mirror_intent, Correlate, RecordIntent
  <2> QED
    BY <2>2, <2>3, <1>1 DEF TypeOK
<1>3. CASE RecordResult
  <2>1. PICK c \in CommandIds, a \in Agents, st \in Statuses, u \in BOOLEAN :
           record_result(c, a, st, u)
    BY <1>3 DEF RecordResult
  <2>2. i \notin mirror_command_index[c]
    BY <1>1 DEF CorrelationInv, ListedIntentsAdmitted
  <2> QED
    BY <2>1, <2>2, <1>1, ResultKeepsIntents
<1>4. CASE ~ SubmitIntent /\ ~ RecordResult
  <2>1. UNCHANGED mirror_intents
    BY <1>4 DEF Next, QueueCommand, NextCommand, CreateLease, create_mirror_lease,
       RevokeLease, revoke_mirror_lease, ClockTick, mirrorVars, vars
  <2> QED
    BY <2>1
<1> QED
  BY <1>2, <1>3, <1>4

\* A rejected intent is never answered by a result, for any intents and
\* command ids.
THEOREM RejectedForGood == Spec => RejectedIsFinal
<1> QED
  BY Inductive, RejectedStep, PTL DEF Spec, RejectedIsFinal

-----------------------------------------------------------------------------
(* The controller implements AtMostOnceDelivery.                           *)

\* What the abstract state is made of.
LEMMA MapFrame ==
    ASSUME UNCHANGED <<commands, delivered>>
    PROVE  UNCHANGED Delivery!vars
<1>1. Waiting' = Waiting
  BY DEF Waiting
<1> QED
  BY <1>1 DEF Delivery!vars, SlotState

\* Accepting a command takes a free slot.
LEMMA EnqueueAccepts ==
    ASSUME TypeOK, SlotInv, NEW c \in Command, ~ IsDuplicate(c), Enqueue(c),
           UNCHANGED delivered
    PROVE  Delivery!Next
<1> DEFINE new == [cmd |-> c, arrival |-> serial]
           here == SlotOf(c)
<1>1. here \in Slot /\ new.cmd = c
  BY DEF SlotOf, Slot, Command
<1>2. Waiting' = Waiting \cup {new}
  BY DEF Enqueue, Waiting, TypeOK, QueueTypeOK, Command
<1>3. \A e \in Held : e.cmd.command_id \in CommandIds
  BY DEF Held, Waiting, TypeOK, QueueTypeOK, Entry, Command
<1>4. \A e \in Held : SlotOf(e.cmd) # here
  BY <1>3, CommandConstants DEF IsDuplicate, SlotInv, EntriesInPlace
<1> HIDE DEF new, here
<1>5. SlotState(here) = "free"
  BY <1>4 DEF SlotState, Held
<1>6. SlotState(here)' = "held"
  <2>1. ~ \E e \in delivered' : SlotOf(e.cmd) = here
    BY <1>4 DEF Held
  <2>2. \E e \in Waiting' : SlotOf(e.cmd) = here
    BY <1>1, <1>2 DEF here
  <2> QED
    BY <2>1, <2>2 DEF SlotState, here
<1>7. \A s \in Slot : s # here => SlotState(s)' = SlotState(s)
  BY <1>1, <1>2 DEF SlotState, here
<1>8. [s \in Slot |-> SlotState(s)]' =
         [[s \in Slot |-> SlotState(s)] EXCEPT ![here] = "held"]
  BY <1>1, <1>6, <1>7
<1>9. Delivery!Accept(here)
  BY <1>1, <1>5, <1>8 DEF Delivery!Accept
<1> QED
  BY <1>1, <1>9 DEF Delivery!Next

\* A poll frees the slots of the commands it drops and spends the slot of the
\* one it hands over.
LEMMA PollRefines ==
    ASSUME IInv, NEW a \in Agents, next_command(a)
    PROVE  Delivery!Next
<1> DEFINE lapsed == {SlotOf(e.cmd) : e \in Lapsed(a)}
           old == [s \in Slot |-> SlotState(s)]
<1>1. TypeOK /\ SlotInv
  BY DEF IInv
<1>2. /\ Lapsed(a) \subseteq Waiting /\ Live(a) \subseteq Waiting
      /\ Lapsed(a) \cap Live(a) = {} /\ Waiting \cap delivered = {}
      /\ Held' = Held \ Lapsed(a) /\ Waiting' \cap delivered' = {}
  BY <1>1, PollKeepsLive DEF Lapsed, Live, Waiting, SlotInv, EntriesInPlace
<1>3. \A e \in Held : SlotOf(e.cmd) \in Slot
  BY <1>1 DEF Held, Waiting, TypeOK, QueueTypeOK, Entry, Command, SlotOf, Slot
<1>4. \A e, f \in Held : SlotOf(e.cmd) = SlotOf(f.cmd) => e = f
  BY <1>1 DEF SlotInv, SlotHoldsOneCommand
<1>5. lapsed \in SUBSET Delivery!Held
  <2>1. \A e \in Lapsed(a) : SlotOf(e.cmd) \in Slot /\ SlotState(SlotOf(e.cmd)) = "held"
    BY <1>2, <1>3, <1>4 DEF Held, SlotState
  <2> QED
    BY <2>1 DEF Delivery!Held
<1>6. CASE Live(a) = {} /\ UNCHANGED delivered
  <2>1. Waiting' = Waiting \ Lapsed(a)
    BY <1>2, <1>6 DEF Held
  <2>2. \A s \in Slot : SlotState(s)' = IF s \in lapsed THEN "free" ELSE SlotState(s)
    BY <1>2, <1>4, <1>6, <2>1 DEF SlotState, Held
  <2>3. Delivery!PollEmpty(lapsed)
    BY <1>6, <2>2 DEF Delivery!PollEmpty
  <2> QED
    BY <1>5, <2>3 DEF Delivery!Next
<1>7. ASSUME NEW selected \in Live(a), delivered' = delivered \cup {selected}
      PROVE  Delivery!Next
  <2> DEFINE here == SlotOf(selected.cmd)
  <2>1. /\ selected \in Held /\ selected \in Waiting /\ selected \notin delivered
        /\ here \in Slot
    BY <1>2, <1>3 DEF Held
  <2>2. Waiting' = Waiting \ (Lapsed(a) \cup {selected})
    BY <1>2, <1>7, <2>1 DEF Held
  <2>3. SlotState(here) = "held"
    BY <1>4, <2>1 DEF Held, SlotState
  <2>4. here \notin lapsed
    BY <1>2, <1>4, <1>7, <2>1 DEF Held
  <2>5. \A s \in Slot : SlotState(s)' = IF s \in lapsed THEN "free"
                                        ELSE IF s = here THEN "spent" ELSE SlotState(s)
    <3> SUFFICES ASSUME NEW s \in Slot
                 PROVE  SlotState(s)' = IF s \in lapsed THEN "free"
                                        ELSE IF s = here THEN "spent" ELSE SlotState(s)
      OBVIOUS
    <3>1. CASE s \in lapsed
      BY <3>1, <1>2, <1>4, <1>7, <2>1, <2>2, <2>4 DEF SlotState, Held
    <3>2. CASE s = here
      BY <3>2, <1>7, <2>4 DEF SlotState
    <3>3. CASE s \notin lapsed /\ s # here
      BY <3>3, <1>2, <1>7, <2>1, <2>2 DEF SlotState
    <3> QED
      BY <3>1, <3>2, <3>3, <2>4
  <2>6. selected.arrival \in 0 .. MaxSerial
    BY <1>1, <2>1, CommandConstants
       DEF IInv, SlotInv, EntriesInPlace, Held, Waiting, TypeOK, QueueTypeOK, Entry
  <2>7. {<<SlotOf(e.cmd), e.arrival>> : e \in delivered}' =
           {<<SlotOf(e.cmd), e.arrival>> : e \in delivered} \cup {<<here, selected.arrival>>}
    BY <1>7
  <2> HIDE DEF here, lapsed
  <2>8. Delivery!PollOne(lapsed, here, selected.arrival)
    BY <2>1, <2>3, <2>4, <2>5, <2>7 DEF Delivery!PollOne
  <2> QED
    BY <1>5, <2>1, <2>6, <2>8 DEF Delivery!Next
<1> QED
  BY <1>6, <1>7 DEF next_command

\* Every step of the controller is a step of the abstract delivery or leaves
\* its state alone.
LEMMA ControllerStep == IInv /\ [Next]_vars => [Delivery!Next]_(Delivery!vars)
<1> SUFFICES ASSUME IInv, [Next]_vars PROVE [Delivery!Next]_(Delivery!vars)
  OBVIOUS
<1>0. TypeOK /\ SlotInv
  BY DEF IInv
<1>1. CASE QueueCommand
  BY <1>0, <1>1, EnqueueAccepts, ControlConstants DEF QueueCommand, queue_command
<1>2. CASE NextCommand
  BY <1>2, PollRefines DEF NextCommand
<1>3. CASE SubmitIntent
  <2>1. PICK r \in IntentRequests : submit_mirror_intent(r)
    BY <1>3 DEF SubmitIntent
  <2>2. UNCHANGED delivered
    BY <2>1 DEF submit_mirror_intent
  <2>3. CASE ~ IsDuplicate(FleetCommand(r)) /\ Enqueue(FleetCommand(r))
    BY <1>0, <2>2, <2>3, FleetCommandType, EnqueueAccepts
  <2>4. CASE UNCHANGED commands
    BY <2>2, <2>4, MapFrame
  <2> QED
    BY <2>1, <2>3, <2>4 DEF submit_mirror_intent, reject_mirror_intent
<1>4. CASE UNCHANGED <<commands, delivered>>
  BY <1>4, MapFrame
<1> QED
  BY <1>1, <1>2, <1>3, <1>4
     DEF Next, CreateLease, create_mirror_lease, RevokeLease, revoke_mirror_lease,
         RecordResult, record_result, ClockTick, Tick, queueVars, vars

\* The controller, with its clock, queues, index and mirror lane, implements
\* at-most-once delivery for every idempotency key of every agent.
THEOREM Refinement == Spec => DeliversAtMostOnce
<1>1. Init => Delivery!Init
  BY DEF Init, QueueInit, Delivery!Init, SlotState, Waiting
<1> QED
  BY <1>1, Inductive, ControllerStep, PTL DEF Spec, DeliversAtMostOnce, Delivery!Spec
=============================================================================
