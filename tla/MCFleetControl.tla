--------------------------- MODULE MCFleetControl ---------------------------
(***************************************************************************)
(* A source headset "a", a target headset "b", one idempotency key that an *)
(* operator's command and two mirror intents compete for, and a second key *)
(* of its own for a third command.  One lease expires during the run.      *)
(***************************************************************************)
EXTENDS FleetControl, TLC

MCMirrorCommandId == "i1" :> "m1" @@ "i2" :> "m2"

Cmd(id, key, expires_at, kind, lease) ==
    [command_id |-> id, target_agent_id |-> "b", idempotency_key |-> key,
     expires_at |-> expires_at, kind |-> kind, lease_id |-> lease,
     source_agent_id |-> NoSource]

MCCommandRequests == {Cmd("c1", "k1", 1, "status", NoLease),
                      Cmd("c1", "k2", 2, "launch", "l1"),
                      Cmd("c1", "k2", 2, "launch", NoLease)}

MCLeaseRequests == {[lease_id |-> "l1", source_agent_id |-> "a",
                     target_agent_id |-> "b", expires_at |-> 2,
                     allowed_command_kinds |-> {"status", "launch"},
                     requires_adb |-> TRUE, revoked |-> FALSE]}

Intent(id, key, expires_at, kind) ==
    [mirror_intent_id |-> id, lease_id |-> "l1", source_agent_id |-> "a",
     target_agent_id |-> "b", idempotency_key |-> key,
     expires_at |-> expires_at, kind |-> kind, requires_adb |-> TRUE]

MCIntentRequests == {Intent("i1", "k1", 1, "status"),
                     Intent("i2", "k1", 2, "launch")}
=============================================================================
