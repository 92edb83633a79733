----------------------------- MODULE PeerGossip -----------------------------
(***************************************************************************)
(* The receivers of the peer mesh: GossipState of tools/peer_mesh_gossip.py *)
(* inside PeerHttpState of tools/peer_mesh_http_sim.py.  A node keeps the  *)
(* newest observation of every agent and remembers the messages it has     *)
(* accepted for a limited time, so that a repeated message is not applied  *)
(* again and a message id is not taken by another content.                 *)
(*                                                                         *)
(* An envelope can reach a node at any time, any number of times and in    *)
(* any order, or never: that is the network.  The server answers every     *)
(* request in a thread of its own and has no lock (ThreadingHTTPServer),   *)
(* so a request is handled in steps between which other handlers run: it   *)
(* scans for expired messages, forgets them one by one, looks its message  *)
(* up, compares and sets one observation after the other, and records the  *)
(* message.  A digest is the envelope itself.                              *)
(***************************************************************************)
EXTENDS Integers, Sequences

CONSTANTS Agents,
          Nodes,                     (* the agents that run the receiver *)
          Handlers,                  (* the threads of the receivers *)
          MessageIds,
          Envelopes,                 (* the envelopes that exist *)
          Invalid,                   (* of these, the ones no node of the fleet takes *)
          Look,                      (* the request for the health or the summary *)
          NoObservation, NotSeen, Idle,
          seen_message_ttl_seconds,
          MaxTime,                   (* bound on the clock *)
          MaxRequests,               (* bound on the requests that reach a receiver *)
          MaxRestarts                (* bound on the restarts of receivers *)

Observation == [agent_id : Agents, heard_from_agent_id : Agents,
                observed_at : Nat, heartbeat_sequence : Nat]

Envelope == [message_id : MessageIds, sender_agent_id : Agents,
             observations : SUBSET Observation]

SeenMessage == [digest : Envelopes, accepted_at_seconds : Nat]

\* Every envelope is made from heartbeats or relayed from such a one: it says one
\* thing of an agent, with a time and a sequence number that can be parsed.
ASSUME GossipConstants ==
    /\ Nodes \subseteq Agents
    /\ Envelopes \subseteq Envelope /\ Invalid \subseteq Envelopes
    /\ \A e \in Envelopes : \A o, p \in e.observations : o.agent_id = p.agent_id => o = p
    /\ Look \notin Envelopes /\ NoObservation \notin Observation /\ NotSeen \notin SeenMessage
    /\ seen_message_ttl_seconds \in Nat
    /\ MaxTime \in Nat /\ MaxRequests \in Nat /\ MaxRestarts \in Nat

VARIABLES clock,
          observations,    (* GossipState.observations of each node *)
          seen_messages,   (* PeerHttpState.seen_messages of each node *)
          handlers,        (* how far each thread has come *)
          requests, restarts,
          (* Histories of a node's life: *)
          applied,         (* the messages it has recorded, in order *)
          heard,           (* the observations it has merged *)
          dropped,         (* of the messages it recorded, those forgotten too early *)
          raced,           (* the observations that came between compare and set *)
          (* and of all its lives: *)
          ever_applied     (* the messages recorded in any of them *)

histories == <<applied, heard, dropped, raced, ever_applied>>
gossipVars == <<clock, observations, seen_messages, handlers, requests, restarts, histories>>

\* A thread that prunes has found some messages expired (the code keeps their ids;
\* what it had found is history).  A thread that merges has still some observations
\* to do, and "looked" is what had been recorded when it looked its message up.
\* "previous" is what it compared the next observation with.
Pruning == [at : {"prune"}, node : Nodes, request : Envelopes \cup {Look},
            expired : SUBSET SeenMessage]
Merging == [at : {"merge"}, node : Nodes, request : Envelopes, todo : SUBSET Observation,
            looked : Nat]
Setting == [at : {"set"}, node : Nodes, request : Envelopes, todo : SUBSET Observation,
            looked : Nat, next : Observation, previous : Observation \cup {NoObservation}]

Applied == [digest : Envelopes, accepted_at_seconds : Nat, looked : Nat]

GossipInit ==
    /\ clock = 0
    /\ observations = [n \in Nodes |-> [a \in Agents |-> NoObservation]]
    /\ seen_messages = [n \in Nodes |-> [id \in MessageIds |-> NotSeen]]
    /\ handlers = [h \in Handlers |-> Idle]
    /\ requests = 0 /\ restarts = 0
    /\ applied = [n \in Nodes |-> <<>>]
    /\ heard = [n \in Nodes |-> {}]
    /\ dropped = [n \in Nodes |-> {}]
    /\ raced = [n \in Nodes |-> {}]
    /\ ever_applied = [n \in Nodes |-> {}]

GossipTypeOK ==
    /\ clock \in Nat
    /\ observations \in [Nodes -> [Agents -> Observation \cup {NoObservation}]]
    /\ seen_messages \in [Nodes -> [MessageIds -> SeenMessage \cup {NotSeen}]]
    /\ handlers \in [Handlers -> Pruning \cup Merging \cup Setting \cup {Idle}]
    /\ requests \in Nat /\ restarts \in Nat
    /\ applied \in [Nodes -> Seq(Applied)]
    /\ heard \in [Nodes -> SUBSET Observation]
    /\ dropped \in [Nodes -> SUBSET Nat]
    /\ raced \in [Nodes -> SUBSET Observation]
    /\ ever_applied \in [Nodes -> SUBSET Envelopes]

-----------------------------------------------------------------------------
(* What the code compares.                                                 *)

\* With a bug: the sequence number is compared first, and an agent that was
\* restarted counts from 0 again.
is_newer_by_sequence(candidate, previous) ==
    IF candidate.heartbeat_sequence # previous.heartbeat_sequence
    THEN candidate.heartbeat_sequence > previous.heartbeat_sequence
    ELSE candidate.observed_at > previous.observed_at

is_newer(candidate, previous) ==
    IF candidate.observed_at # previous.observed_at
    THEN candidate.observed_at > previous.observed_at
    ELSE candidate.heartbeat_sequence > previous.heartbeat_sequence

Improves(o, previous) == previous # NoObservation => is_newer(o, previous)

\* With a bug: a message of exactly the TTL's age is forgotten.
OutdatedByNow(s) == clock - s.accepted_at_seconds >= seen_message_ttl_seconds

Outdated(s) == clock - s.accepted_at_seconds > seen_message_ttl_seconds

Seen(n) == {seen_messages[n][id] : id \in MessageIds} \ {NotSeen}

Previous(n, e) == seen_messages[n][e.message_id]

\* With a bug: the content is not compared.
IsRepeatById(n, e) == Previous(n, e) # NotSeen

IsRepeat(n, e) == Previous(n, e) # NotSeen /\ Previous(n, e).digest = e

-----------------------------------------------------------------------------
(* A handler.  Every request first forgets what is older than the TTL.     *)

Ended(h) == handlers' = [handlers EXCEPT ![h] = Idle]

\* A request has come: prune_seen_messages takes the time and makes its list.  (A
\* scan that another thread disturbs ends the thread without an answer or a
\* trace: as if the request were lost.)
Receive(h, n, request) ==
    /\ handlers[h] = Idle
    /\ requests < MaxRequests /\ requests' = requests + 1
    /\ handlers' = [handlers EXCEPT ![h] =
                        [at |-> "prune", node |-> n, request |-> request,
                         expired |-> {s \in Seen(n) : Outdated(s)}]]
    /\ UNCHANGED <<clock, observations, seen_messages, restarts, histories>>

\* One "del" of the list: it forgets what is filed under the id by now, and that
\* need not be what was found expired.
Forget(h) ==
    /\ handlers[h] # Idle /\ handlers[h].at = "prune"
    /\ \E s \in handlers[h].expired :
       LET n == handlers[h].node
           id == s.digest.message_id
           current == seen_messages[n][id]
       IN /\ current # NotSeen
          /\ seen_messages' = [seen_messages EXCEPT ![n][id] = NotSeen]
          /\ handlers' = [handlers EXCEPT ![h].expired = @ \ {s}]
          /\ dropped' = [dropped EXCEPT ![n] =
                            IF current = s THEN @
                            ELSE @ \cup {k \in DOMAIN applied[n] :
                                            applied[n][k].digest.message_id = id}]
    /\ UNCHANGED <<clock, observations, requests, restarts, applied, heard, raced, ever_applied>>

\* The "del" of what another thread has forgotten already is a KeyError, which
\* ends the thread without an answer.
FailToForget(h) ==
    /\ handlers[h] # Idle /\ handlers[h].at = "prune"
    /\ \E s \in handlers[h].expired :
          seen_messages[handlers[h].node][s.digest.message_id] = NotSeen
    /\ Ended(h)
    /\ UNCHANGED <<clock, observations, seen_messages, requests, restarts, histories>>

\* GET /health and /summary do no more than that.
Report(h) ==
    /\ handlers[h] # Idle /\ handlers[h].at = "prune" /\ handlers[h].expired = {}
    /\ handlers[h].request = Look
    /\ Ended(h)
    /\ UNCHANGED <<clock, observations, seen_messages, requests, restarts, histories>>

\* accept_gossip has pruned: it checks the envelope and looks its id up.
AtLookUp(h) == /\ handlers[h] # Idle /\ handlers[h].at = "prune" /\ handlers[h].expired = {}
               /\ handlers[h].request # Look

\* accept_gossip, response "duplicate".
Repeats(h) ==
    /\ AtLookUp(h)
    /\ handlers[h].request \notin Invalid
    /\ IsRepeat(handlers[h].node, handlers[h].request)
    /\ Ended(h)
    /\ UNCHANGED <<clock, observations, seen_messages, requests, restarts, histories>>

\* accept_gossip, an error: the envelope is not valid or its id is taken.
Refuses(h) ==
    /\ AtLookUp(h)
    /\ LET n == handlers[h].node
           e == handlers[h].request
       IN e \in Invalid \/ (Previous(n, e) # NotSeen /\ ~ IsRepeat(n, e))
    /\ Ended(h)
    /\ UNCHANGED <<clock, observations, seen_messages, requests, restarts, histories>>

\* accept_gossip goes on to merge the envelope.
BeginMerge(h) ==
    /\ AtLookUp(h)
    /\ LET n == handlers[h].node
           e == handlers[h].request
       IN /\ e \notin Invalid /\ Previous(n, e) = NotSeen
          /\ handlers' = [handlers EXCEPT ![h] =
                              [at |-> "merge", node |-> n, request |-> e,
                               todo |-> e.observations, looked |-> Len(applied[n])]]
    /\ UNCHANGED <<clock, observations, seen_messages, requests, restarts, histories>>

\* merge_envelope compares an observation with what the node knows of the agent ...
Compare(h) ==
    /\ handlers[h] # Idle /\ handlers[h].at = "merge"
    /\ \E o \in handlers[h].todo :
       LET n == handlers[h].node
           previous == observations[n][o.agent_id]
           todo == handlers[h].todo \ {o}
       IN \/ /\ Improves(o, previous)
             /\ handlers' = [handlers EXCEPT ![h] =
                                [at |-> "set", node |-> n, request |-> handlers[h].request,
                                 todo |-> todo, looked |-> handlers[h].looked,
                                 next |-> o, previous |-> previous]]
             /\ UNCHANGED heard
          \/ /\ ~ Improves(o, previous)
             /\ handlers' = [handlers EXCEPT ![h].todo = todo]
             /\ heard' = [heard EXCEPT ![n] = @ \cup {o}]
    /\ UNCHANGED <<clock, observations, seen_messages, requests, restarts, applied, dropped,
                   raced, ever_applied>>

\* ... and puts it in the place of what the node knows by now.
Set(h) ==
    /\ handlers[h] # Idle /\ handlers[h].at = "set"
    /\ LET n == handlers[h].node
           o == handlers[h].next
           current == observations[n][o.agent_id]
       IN /\ observations' = [observations EXCEPT ![n][o.agent_id] = o]
          /\ heard' = [heard EXCEPT ![n] = @ \cup {o}]
          /\ raced' = [raced EXCEPT ![n] =
                          IF current \in {handlers[h].previous, NoObservation} THEN @ ELSE @ \cup {current}]
          /\ handlers' = [handlers EXCEPT ![h] =
                             [at |-> "merge", node |-> n, request |-> handlers[h].request,
                              todo |-> handlers[h].todo, looked |-> handlers[h].looked]]
    /\ UNCHANGED <<clock, seen_messages, requests, restarts, applied, dropped, ever_applied>>

\* accept_gossip, response "accepted": the message is filed under its id, whatever
\* is filed there by now.
Record(h) ==
    /\ handlers[h] # Idle /\ handlers[h].at = "merge" /\ handlers[h].todo = {}
    /\ LET n == handlers[h].node
           e == handlers[h].request
       IN /\ seen_messages' = [seen_messages EXCEPT ![n][e.message_id] =
                                  [digest |-> e, accepted_at_seconds |-> clock]]
          /\ applied' = [applied EXCEPT ![n] =
                            Append(@, [digest |-> e, accepted_at_seconds |-> clock,
                                       looked |-> handlers[h].looked])]
          /\ ever_applied' = [ever_applied EXCEPT ![n] = @ \cup {e}]
    /\ Ended(h)
    /\ UNCHANGED <<clock, observations, requests, restarts, heard, dropped, raced>>

-----------------------------------------------------------------------------
Handle(h) == \/ \E n \in Nodes, request \in Envelopes \cup {Look} : Receive(h, n, request)
             \/ Forget(h) \/ FailToForget(h) \/ Report(h)
             \/ Repeats(h) \/ Refuses(h) \/ BeginMerge(h)
             \/ Compare(h) \/ Set(h) \/ Record(h)

\* What a receiver knows is in its memory, and its threads end with it.
Restart(n) ==
    /\ restarts < MaxRestarts
    /\ restarts' = restarts + 1
    /\ observations' = [observations EXCEPT ![n] = [a \in Agents |-> NoObservation]]
    /\ seen_messages' = [seen_messages EXCEPT ![n] = [id \in MessageIds |-> NotSeen]]
    /\ handlers' = [h \in Handlers |-> IF handlers[h] # Idle /\ handlers[h].node = n
                                        THEN Idle ELSE handlers[h]]
    /\ applied' = [applied EXCEPT ![n] = <<>>]
    /\ heard' = [heard EXCEPT ![n] = {}]
    /\ dropped' = [dropped EXCEPT ![n] = {}]
    /\ raced' = [raced EXCEPT ![n] = {}]
    /\ UNCHANGED <<clock, requests, ever_applied>>

Tick == /\ clock < MaxTime
        /\ clock' = clock + 1
        /\ UNCHANGED <<observations, seen_messages, handlers, requests, restarts, histories>>

GossipNext == Tick \/ (\E h \in Handlers : Handle(h)) \/ (\E n \in Nodes : Restart(n))

GossipSpec == GossipInit /\ [][GossipNext]_gossipVars
-----------------------------------------------------------------------------
(* Properties.                                                             *)

Later(o, p) == \/ o.observed_at > p.observed_at
               \/ /\ o.observed_at = p.observed_at
                  /\ o.heartbeat_sequence > p.heartbeat_sequence

\* However the envelopes were lost, repeated or reordered, a node shows of each
\* agent an observation it has merged.  It has merged none that is newer, except
\* where one thread had compared its observation before another thread's came and
\* put it in the place of that one: then it lacks nothing newer than that one.
NewestKept ==
    \A n \in Nodes, a \in Agents :
       LET known == observations[n][a]
           about == {o \in heard[n] : o.agent_id = a}
       IN IF known = NoObservation THEN about = {}
          ELSE /\ known \in about
               /\ \A o \in about : \/ ~ Later(o, known)
                                    \/ \E p \in raced[n] : p.agent_id = a /\ ~ Later(o, p)

\* "Exact duplicate delivery ... does not apply observations a second time", nor
\* does another content with the id of a message, until the TTL has passed
\* (docs/peer-mesh-preparation.md).  Without a lock two things break it, and only
\* they: the later message was looked up before the earlier was recorded, or a
\* prune that had found an older message expired forgot the newer one in its place.
AppliedOncePerWindow ==
    \A n \in Nodes : \A i, j \in DOMAIN applied[n] :
       LET id == applied[n][i].digest.message_id IN
       /\ i < j /\ applied[n][j].digest.message_id = id
       /\ applied[n][j].accepted_at_seconds - applied[n][i].accepted_at_seconds
             <= seen_message_ttl_seconds
       => \/ applied[n][j].looked < i
          \/ \E k \in dropped[n] : /\ i <= k /\ k <= applied[n][j].looked
                                    /\ applied[n][k].digest.message_id = id
=============================================================================
