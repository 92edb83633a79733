--------------------------- MODULE MCFleetSystem ---------------------------
(***************************************************************************)
(* One headset "b" that runs the agent, a mirror source "a", an operator's *)
(* update, which another command competes with for an idempotency key, and *)
(* one or two mirror intents for a launch.                                 *)
(***************************************************************************)
EXTENDS FleetSystem, TLC

MCMirrorCommandId == "i1" :> "m1" @@ "i2" :> "m2"
MCRequestedVersion == "c1" :> 1 @@ "c2" :> 2 @@ "c3" :> 0 @@ "m1" :> 0 @@ "m2" :> 0

Update == [command_id |-> "c1", target_agent_id |-> "b", idempotency_key |-> "k1",
           expires_at |-> 2, kind |-> "update", lease_id |-> "l1",
           source_agent_id |-> NoSource]

\* A later version, under the key of the mirror intents.
Newer == [Update EXCEPT !.command_id = "c2", !.idempotency_key = "k2"]

Status == [command_id |-> "c3", target_agent_id |-> "b", idempotency_key |-> "k1",
           expires_at |-> 1, kind |-> "status", lease_id |-> NoLease,
           source_agent_id |-> NoSource]

OnAdb(kind) == [Status EXCEPT !.kind = kind, !.lease_id = "l1"]

MCUpdates == {Update}
MCTwoUpdates == {Update, Newer, OnAdb("check"), OnAdb("disconnect")}
MCUpdateAndStatus == {Update, Status}

MCLeaseRequests == {[lease_id |-> "l1", source_agent_id |-> "a", target_agent_id |-> "b",
                     expires_at |-> 2, allowed_command_kinds |-> {"launch"},
                     requires_adb |-> TRUE, revoked |-> FALSE]}

Launch(id) == [mirror_intent_id |-> id, lease_id |-> "l1", source_agent_id |-> "a",
               target_agent_id |-> "b", idempotency_key |-> "k2", expires_at |-> 1,
               kind |-> "launch", requires_adb |-> TRUE]

MCOneIntent == {Launch("i1")}
MCTwoIntents == {Launch("i1"), Launch("i2")}

\* The requests keep to what the theorems about the system ask of those who post them.
ASSUME RequestsConsistent == OneMeaningPerId /\ UpdatesConsistent
=============================================================================
