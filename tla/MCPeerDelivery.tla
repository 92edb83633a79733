--------------------------- MODULE MCPeerDelivery ---------------------------
(***************************************************************************)
(* Agent "a" sends two messages to the receiver on "b"; the route to "c"   *)
(* is disabled.  Agent "a" was restarted between the two, so the second has *)
(* the lower sequence number.  An envelope of "c" brings an older          *)
(* observation of "a" and has taken the id of the first message.           *)
(***************************************************************************)
EXTENDS PeerDelivery, TLC

Sighting(at, sequence, from) ==
    [agent_id |-> "a", heard_from_agent_id |-> from,
     observed_at |-> at, heartbeat_sequence |-> sequence]

Told(id, by, at, sequence) ==
    [message_id |-> id, sender_agent_id |-> by, observations |-> {Sighting(at, sequence, by)}]

First == Told("m1", "a", 0, 1)
AfterRestart == Told("m2", "a", 1, 0)
Taken == Told("m1", "c", 0, 0)

MCEnvelopes == {First, AfterRestart, Taken}
MCTarget == 1 :> "b" @@ 2 :> "b" @@ 3 :> "c"
MCMessage == 1 :> First @@ 2 :> AfterRestart @@ 3 :> First
MCExpiresAt == 1 :> 3 @@ 2 :> 1 @@ 3 :> 3
MCRoute == "a" :> NoRoute @@ "b" :> "loopback_http_simulator" @@ "c" :> "disabled"

MCSymmetry == Permutations(Handlers)
=============================================================================
