-------------------------- MODULE PeerGossipProofs --------------------------
(***************************************************************************)
(* What a receiver of the peer mesh shows and what it applies, with any    *)
(* number of threads at work in it, for every set of envelopes, every TTL  *)
(* and any number of receivers; that the receivers behave like this also   *)
(* beside the sender's tools; and that what those tools record and report  *)
(* as delivered was delivered, for any deliveries, routes and retry        *)
(* policy, whatever the age of their files.                                *)
(***************************************************************************)
EXTENDS PeerDelivery, TLAPS, WellFoundedInduction

\* What a node shows of an agent is about that agent.
FiledUnderAgent ==
    \A n \in Nodes, a \in Agents :
       observations[n][a] # NoObservation => observations[n][a].agent_id = a

\* An entry of a node's history, or a later one with its id, was forgotten too early.
Lost(n, i, upto) ==
    \E k \in dropped[n] : /\ i <= k /\ k <= upto
                          /\ applied[n][k].digest.message_id = applied[n][i].digest.message_id

\* What a node has applied it still remembers, or something later under its id,
\* unless it is outdated or was lost.
Known(n, i) ==
    LET seen == seen_messages[n][applied[n][i].digest.message_id] IN
    /\ applied[n][i].accepted_at_seconds <= clock
    /\ \/ Outdated(applied[n][i])
       \/ Lost(n, i, Len(applied[n]))
       \/ seen # NotSeen /\ applied[n][i].accepted_at_seconds <= seen.accepted_at_seconds

RecentRemembered == \A n \in Nodes : \A i \in DOMAIN applied[n] : Known(n, i)

\* When a message was looked up, all that had been applied under its id was outdated
\* or lost.
Covered(n, e, looked) ==
    /\ looked <= Len(applied[n])
    /\ \A i \in DOMAIN applied[n] :
          i <= looked /\ applied[n][i].digest.message_id = e.message_id =>
             Outdated(applied[n][i]) \/ Lost(n, i, looked)

\* What each thread relies on after another has run.
HandlerSound(h) ==
    handlers[h] # Idle =>
       /\ handlers[h].at = "prune" => \A s \in handlers[h].expired : Outdated(s)
       /\ handlers[h].at \in {"merge", "set"} =>
             Covered(handlers[h].node, handlers[h].request, handlers[h].looked)
       /\ handlers[h].at = "set" /\ handlers[h].previous # NoObservation =>
             Later(handlers[h].next, handlers[h].previous)

HandlersSound == \A h \in Handlers : HandlerSound(h)

\* A message was looked up before it was recorded.
LookedBefore ==
    \A n \in Nodes : \A j \in DOMAIN applied[n] : applied[n][j].looked < j

IInv == /\ GossipTypeOK /\ FiledUnderAgent /\ NewestKept /\ RecentRemembered
        /\ HandlersSound /\ LookedBefore /\ AppliedOncePerWindow

LEMMA EnvelopeTypes ==
    ASSUME NEW e \in Envelopes
    PROVE  e.message_id \in MessageIds /\ e.observations \subseteq Observation
  BY GossipConstants DEF Envelope

\* "is_newer" is the order of time and, at one time, of the sequence.
LEMMA NewerIsLater ==
    ASSUME NEW o \in Observation, NEW p \in Observation
    PROVE  is_newer(o, p) <=> Later(o, p)
  BY DEF is_newer, Later, Observation

LEMMA NotLaterByTwo ==
    ASSUME NEW o \in Observation, NEW p \in Observation, NEW q \in Observation,
           ~ Later(o, p), Later(q, p)
    PROVE  ~ Later(o, q)
  BY DEF Later, Observation

LEMMA NotLaterThanItself ==
    ASSUME NEW o \in Observation
    PROVE  ~ Later(o, o)
  BY DEF Later, Observation

LEMMA AppliedTypes ==
    ASSUME GossipTypeOK, NEW n \in Nodes
    PROVE  /\ applied[n] \in Seq(Applied) /\ Len(applied[n]) \in Nat
           /\ DOMAIN applied[n] = 1 .. Len(applied[n])
           /\ \A i \in DOMAIN applied[n] : /\ applied[n][i] \in Applied
                                          /\ applied[n][i].accepted_at_seconds \in Nat
                                          /\ applied[n][i].looked \in Nat
  <1>1. applied[n] \in Seq(Applied)
    BY DEF GossipTypeOK
  <1>2. \A i \in DOMAIN applied[n] : applied[n][i] \in Applied
    BY <1>1
  <1>3. \A x \in Applied : x.accepted_at_seconds \in Nat /\ x.looked \in Nat
    BY DEF Applied
  <1> QED BY <1>1, <1>2, <1>3

\* The records of the threads.
LEMMA HandlerTypes ==
    ASSUME GossipTypeOK, NEW h \in Handlers, handlers[h] # Idle
    PROVE  /\ handlers[h].at = "prune" => handlers[h] \in Pruning
           /\ handlers[h].at = "merge" => handlers[h] \in Merging
           /\ handlers[h].at = "set" => handlers[h] \in Setting
           /\ handlers[h].at \in {"prune", "merge", "set"}
           /\ handlers[h].node \in Nodes
  BY DEF GossipTypeOK, Pruning, Merging, Setting

\* A step of one thread changes no other.
LEMMA OneThread ==
    ASSUME GossipTypeOK, NEW h \in Handlers, Handle(h), NEW g \in Handlers, g # h
    PROVE  handlers'[g] = handlers[g]
  BY DEF Handle, Receive, Forget, FailToForget, Report, Repeats, Refuses, BeginMerge, Compare,
         Set, Record, Ended, GossipTypeOK

-----------------------------------------------------------------------------
(* Types.                                                                  *)

\* The steps that end a thread, or begin one, and do nothing else.
Only(h) == /\ \/ Report(h) \/ Repeats(h) \/ Refuses(h) \/ FailToForget(h) \/ BeginMerge(h)
              \/ \E n \in Nodes, request \in Envelopes \cup {Look} : Receive(h, n, request)

LEMMA OnlyChanges ==
    ASSUME NEW h \in Handlers, Only(h)
    PROVE  /\ UNCHANGED <<clock, observations, seen_messages, restarts, histories>>
           /\ UNCHANGED <<applied, heard, dropped, raced, ever_applied>>
           /\ requests' \in {requests, requests + 1}
  BY DEF Only, Report, Repeats, Refuses, FailToForget, BeginMerge, Receive, histories

LEMMA SeenTypes ==
    ASSUME GossipTypeOK, NEW n \in Nodes
    PROVE  Seen(n) \subseteq SeenMessage
  BY DEF Seen, GossipTypeOK

LEMMA OnlyKeepsTypes ==
    ASSUME GossipTypeOK, NEW h \in Handlers, Only(h)
    PROVE  GossipTypeOK'
  <1>1. handlers' \in [Handlers -> Pruning \cup Merging \cup Setting \cup {Idle}]
    <2>1. CASE Report(h) \/ Repeats(h) \/ Refuses(h) \/ FailToForget(h)
      BY <2>1 DEF Report, Repeats, Refuses, FailToForget, Ended, GossipTypeOK
    <2>2. CASE BeginMerge(h)
      <3>1. /\ handlers[h].node \in Nodes /\ handlers[h].request \in Envelopes
            /\ handlers[h] \in Pruning
        BY <2>2, HandlerTypes DEF BeginMerge, AtLookUp, Pruning
      <3>2. Len(applied[handlers[h].node]) \in Nat
        BY <3>1, AppliedTypes
      <3>3. [at |-> "merge", node |-> handlers[h].node, request |-> handlers[h].request,
             todo |-> handlers[h].request.observations,
             looked |-> Len(applied[handlers[h].node])] \in Merging
        BY <3>1, <3>2, EnvelopeTypes DEF Merging
      <3> QED BY <2>2, <3>3 DEF BeginMerge, GossipTypeOK
    <2>3. ASSUME NEW n \in Nodes, NEW request \in Envelopes \cup {Look}, Receive(h, n, request)
          PROVE  handlers' \in [Handlers -> Pruning \cup Merging \cup Setting \cup {Idle}]
      <3>1. [at |-> "prune", node |-> n, request |-> request,
             expired |-> {s \in Seen(n) : Outdated(s)}] \in Pruning
        BY SeenTypes DEF Pruning
      <3> QED BY <2>3, <3>1 DEF Receive, GossipTypeOK
    <2> QED BY <2>1, <2>2, <2>3 DEF Only
  <1>2. requests' \in Nat
    <2>1. requests \in Nat
      BY DEF GossipTypeOK
    <2>2. requests' \in {requests, requests + 1}
      BY OnlyChanges
    <2> QED BY <2>1, <2>2
  <1> QED BY <1>1, <1>2, OnlyChanges DEF GossipTypeOK

LEMMA ForgetKeepsTypes ==
    ASSUME GossipTypeOK, NEW h \in Handlers, Forget(h)
    PROVE  GossipTypeOK'
  <1>1. handlers[h] \in Pruning /\ handlers[h].node \in Nodes
    BY HandlerTypes DEF Forget
  <1>2. PICK s \in handlers[h].expired :
           LET n == handlers[h].node
               id == s.digest.message_id
           IN /\ seen_messages' = [seen_messages EXCEPT ![n][id] = NotSeen]
              /\ handlers' = [handlers EXCEPT ![h].expired = @ \ {s}]
              /\ dropped' = [dropped EXCEPT ![n] =
                                IF seen_messages[n][id] = s THEN @
                                ELSE @ \cup {k \in DOMAIN applied[n] :
                                                applied[n][k].digest.message_id = id}]
    BY DEF Forget
  <1>3. s.digest.message_id \in MessageIds
    BY <1>1, EnvelopeTypes DEF Pruning, SeenMessage
  <1>4. seen_messages' \in [Nodes -> [MessageIds -> SeenMessage \cup {NotSeen}]]
    <2> DEFINE n == handlers[h].node
               id == s.digest.message_id
    <2>1. n \in Nodes /\ id \in MessageIds
      BY <1>1, <1>3
    <2>2. seen_messages' = [seen_messages EXCEPT ![n][id] = NotSeen]
      BY <1>2
    <2> HIDE DEF n, id
    <2> QED BY <2>1, <2>2 DEF GossipTypeOK
  <1>5. [handlers[h] EXCEPT !.expired = handlers[h].expired \ {s}] \in Pruning
    BY <1>1 DEF Pruning
  <1>6. handlers' \in [Handlers -> Pruning \cup Merging \cup Setting \cup {Idle}]
    <2>1. handlers' = [handlers EXCEPT ![h] =
                          [handlers[h] EXCEPT !.expired = handlers[h].expired \ {s}]]
      BY <1>2
    <2> QED BY <2>1, <1>5 DEF GossipTypeOK
  <1>7. DOMAIN applied[handlers[h].node] \subseteq Nat
    BY <1>1, AppliedTypes
  <1>8. dropped' \in [Nodes -> SUBSET Nat]
    BY <1>1, <1>2, <1>7 DEF GossipTypeOK
  <1> QED BY <1>4, <1>6, <1>8 DEF Forget, GossipTypeOK

LEMMA CompareKeepsTypes ==
    ASSUME GossipTypeOK, NEW h \in Handlers, Compare(h)
    PROVE  GossipTypeOK'
  <1>1. handlers[h] \in Merging /\ handlers[h].node \in Nodes
    BY HandlerTypes DEF Compare
  <1>2. PICK o \in handlers[h].todo :
           LET n == handlers[h].node
               previous == observations[n][o.agent_id]
               todo == handlers[h].todo \ {o}
           IN \/ /\ handlers' = [handlers EXCEPT ![h] =
                                [at |-> "set", node |-> n, request |-> handlers[h].request,
                                 todo |-> todo, looked |-> handlers[h].looked,
                                 next |-> o, previous |-> previous]]
                 /\ heard' = heard
              \/ /\ handlers' = [handlers EXCEPT ![h].todo = todo]
                 /\ heard' = [heard EXCEPT ![n] = @ \cup {o}]
    BY DEF Compare
  <1>3. o \in Observation /\ o.agent_id \in Agents
    BY <1>1 DEF Merging, Observation
  <1>4. heard' \in [Nodes -> SUBSET Observation]
    <2> DEFINE n == handlers[h].node
    <2>1. heard' = heard \/ heard' = [heard EXCEPT ![n] = @ \cup {o}]
      BY <1>2
    <2>2. heard \in [Nodes -> SUBSET Observation]
      BY DEF GossipTypeOK
    <2> HIDE DEF n
    <2>3. \A m \in Nodes : heard[m] \cup {o} \subseteq Observation
      BY <2>2, <1>3
    <2> QED BY <2>1, <2>2, <2>3
  <1>5. observations[handlers[h].node][o.agent_id] \in Observation \cup {NoObservation}
    BY <1>1, <1>3 DEF GossipTypeOK
  <1>6. /\ [at |-> "set", node |-> handlers[h].node, request |-> handlers[h].request,
            todo |-> handlers[h].todo \ {o}, looked |-> handlers[h].looked,
            next |-> o, previous |-> observations[handlers[h].node][o.agent_id]] \in Setting
        /\ [handlers[h] EXCEPT !.todo = handlers[h].todo \ {o}] \in Merging
    BY <1>1, <1>3, <1>5 DEF Merging, Setting
  <1>7. handlers' \in [Handlers -> Pruning \cup Merging \cup Setting \cup {Idle}]
    BY <1>2, <1>6 DEF GossipTypeOK
  <1> QED BY <1>4, <1>7 DEF Compare, GossipTypeOK

LEMMA SetKeepsTypes ==
    ASSUME GossipTypeOK, NEW h \in Handlers, Set(h)
    PROVE  GossipTypeOK'
  <1> DEFINE n == handlers[h].node
             o == handlers[h].next
             current == observations[n][o.agent_id]
  <1>1. handlers[h] \in Setting /\ n \in Nodes
    BY HandlerTypes DEF Set
  <1>2. o \in Observation /\ o.agent_id \in Agents
    BY <1>1 DEF Setting, Observation
  <1>3. current \in Observation \cup {NoObservation}
    BY <1>1, <1>2 DEF GossipTypeOK
  <1>4. /\ observations' = [observations EXCEPT ![n][o.agent_id] = o]
        /\ heard' = [heard EXCEPT ![n] = @ \cup {o}]
        /\ raced' = [raced EXCEPT ![n] = IF current \in {handlers[h].previous, NoObservation}
                                         THEN @ ELSE @ \cup {current}]
        /\ handlers' = [handlers EXCEPT ![h] =
                          [at |-> "merge", node |-> n, request |-> handlers[h].request,
                           todo |-> handlers[h].todo, looked |-> handlers[h].looked]]
    BY DEF Set
  <1>5. [at |-> "merge", node |-> n, request |-> handlers[h].request,
         todo |-> handlers[h].todo, looked |-> handlers[h].looked] \in Merging
    BY <1>1 DEF Setting, Merging
  <1> HIDE DEF n, o, current
  <1>6. observations' \in [Nodes -> [Agents -> Observation \cup {NoObservation}]]
    BY <1>1, <1>2, <1>4 DEF GossipTypeOK
  <1>7. heard' \in [Nodes -> SUBSET Observation]
    BY <1>1, <1>2, <1>4 DEF GossipTypeOK
  <1>8. raced' \in [Nodes -> SUBSET Observation]
    BY <1>1, <1>3, <1>4 DEF GossipTypeOK
  <1>9. handlers' \in [Handlers -> Pruning \cup Merging \cup Setting \cup {Idle}]
    BY <1>4, <1>5 DEF GossipTypeOK
  <1> QED BY <1>6, <1>7, <1>8, <1>9 DEF Set, GossipTypeOK

LEMMA RecordKeepsTypes ==
    ASSUME GossipTypeOK, NEW h \in Handlers, Record(h)
    PROVE  GossipTypeOK'
  <1> DEFINE n == handlers[h].node
             e == handlers[h].request
             entry == [digest |-> e, accepted_at_seconds |-> clock,
                       looked |-> handlers[h].looked]
  <1>1. handlers[h] \in Merging /\ n \in Nodes /\ e \in Envelopes /\ clock \in Nat
    BY HandlerTypes DEF Record, Merging, GossipTypeOK
  <1>2. e.message_id \in MessageIds
    BY <1>1, EnvelopeTypes
  <1>3. entry \in Applied /\ [digest |-> e, accepted_at_seconds |-> clock] \in SeenMessage
    BY <1>1 DEF Merging, Applied, SeenMessage
  <1>4. /\ seen_messages' = [seen_messages EXCEPT ![n][e.message_id] =
                               [digest |-> e, accepted_at_seconds |-> clock]]
        /\ applied' = [applied EXCEPT ![n] = Append(@, entry)]
        /\ ever_applied' = [ever_applied EXCEPT ![n] = @ \cup {e}]
        /\ handlers' = [handlers EXCEPT ![h] = Idle]
    BY DEF Record, Ended
  <1> HIDE DEF n, e, entry
  <1>5. seen_messages' \in [Nodes -> [MessageIds -> SeenMessage \cup {NotSeen}]]
    BY <1>1, <1>2, <1>3, <1>4 DEF GossipTypeOK
  <1>6. applied' \in [Nodes -> Seq(Applied)]
    BY <1>1, <1>3, <1>4 DEF GossipTypeOK
  <1>7. /\ ever_applied' \in [Nodes -> SUBSET Envelopes]
        /\ handlers' \in [Handlers -> Pruning \cup Merging \cup Setting \cup {Idle}]
    BY <1>1, <1>4 DEF GossipTypeOK
  <1> QED BY <1>5, <1>6, <1>7 DEF Record, GossipTypeOK

\* A node's restart; the threads of the other nodes go on.
LEMMA RestartKeepsTypes ==
    ASSUME GossipTypeOK, NEW n \in Nodes, Restart(n)
    PROVE  GossipTypeOK'
  <1>1. /\ handlers' \in [Handlers -> Pruning \cup Merging \cup Setting \cup {Idle}]
        /\ restarts' \in Nat
    BY DEF Restart, GossipTypeOK
  <1>2. /\ observations' \in [Nodes -> [Agents -> Observation \cup {NoObservation}]]
        /\ seen_messages' \in [Nodes -> [MessageIds -> SeenMessage \cup {NotSeen}]]
    BY DEF Restart, GossipTypeOK
  <1>3. applied' \in [Nodes -> Seq(Applied)]
    BY DEF Restart, GossipTypeOK
  <1>4. /\ heard' \in [Nodes -> SUBSET Observation] /\ dropped' \in [Nodes -> SUBSET Nat]
        /\ raced' \in [Nodes -> SUBSET Observation]
    BY DEF Restart, GossipTypeOK
  <1> QED BY <1>1, <1>2, <1>3, <1>4 DEF Restart, GossipTypeOK

LEMMA TypesKept ==
    ASSUME GossipTypeOK, [GossipNext]_gossipVars
    PROVE  GossipTypeOK'
  <1>1. CASE Tick
    BY <1>1 DEF Tick, GossipTypeOK, histories
  <1>2. ASSUME NEW h \in Handlers, Handle(h) PROVE GossipTypeOK'
    BY <1>2, OnlyKeepsTypes, ForgetKeepsTypes, CompareKeepsTypes, SetKeepsTypes,
       RecordKeepsTypes DEF Handle, Only
  <1>3. CASE UNCHANGED gossipVars
    BY <1>3 DEF gossipVars, histories, GossipTypeOK
  <1> QED BY <1>1, <1>2, <1>3, RestartKeepsTypes DEF GossipNext

-----------------------------------------------------------------------------
(* What a node shows.                                                      *)

\* The agent an observation in hand is about, before and after it replaced another.
LEMMA SetShows ==
    ASSUME GossipTypeOK, FiledUnderAgent, NewestKept, HandlersSound,
           NEW h \in Handlers, Set(h)
    PROVE  FiledUnderAgent' /\ NewestKept'
  <1> DEFINE n == handlers[h].node
             o == handlers[h].next
             a == o.agent_id
             previous == handlers[h].previous
             current == observations[n][a]
  <1>1. /\ n \in Nodes /\ o \in Observation /\ a \in Agents
        /\ previous \in Observation \cup {NoObservation}
        /\ previous # NoObservation => Later(o, previous)
    BY HandlerTypes DEF Set, Setting, Observation, HandlersSound, HandlerSound
  <1>2. /\ observations' = [observations EXCEPT ![n][a] = o]
        /\ heard' = [heard EXCEPT ![n] = @ \cup {o}]
        /\ raced' = [raced EXCEPT ![n] = IF current \in {previous, NoObservation}
                                         THEN @ ELSE @ \cup {current}]
    BY DEF Set
  <1>3. o # NoObservation /\ ~ Later(o, o)
    BY <1>1, GossipConstants, NotLaterThanItself
  <1>4. /\ current \in Observation \cup {NoObservation}
        /\ current # NoObservation => current.agent_id = a
    BY <1>1 DEF GossipTypeOK, FiledUnderAgent
  <1>5. heard[n] \subseteq Observation
    BY <1>1 DEF GossipTypeOK
  <1>6. IF current = NoObservation THEN {p \in heard[n] : p.agent_id = a} = {}
        ELSE \A p \in heard[n] : p.agent_id = a =>
                \/ ~ Later(p, current)
                \/ \E q \in raced[n] : q.agent_id = a /\ ~ Later(p, q)
    BY <1>1 DEF NewestKept
  <1>7. /\ \A m \in Nodes, b \in Agents :
              observations'[m][b] = IF m = n /\ b = a THEN o ELSE observations[m][b]
        /\ \A m \in Nodes : heard'[m] = IF m = n THEN heard[n] \cup {o} ELSE heard[m]
        /\ \A m \in Nodes : raced[m] \subseteq raced'[m]
        /\ current \in {previous, NoObservation} \cup raced'[n]
    <2> HIDE DEF n, o, a, previous, current
    <2>1. \A m \in Nodes, b \in Agents :
             observations'[m][b] = IF m = n /\ b = a THEN o ELSE observations[m][b]
      BY <1>1, <1>2 DEF GossipTypeOK
    <2>2. \A m \in Nodes : heard'[m] = IF m = n THEN heard[n] \cup {o} ELSE heard[m]
      BY <1>1, <1>2 DEF GossipTypeOK
    <2>3. /\ \A m \in Nodes : raced[m] \subseteq raced'[m]
          /\ current \in {previous, NoObservation} \cup raced'[n]
      BY <1>1, <1>2 DEF GossipTypeOK
    <2> QED BY <2>1, <2>2, <2>3
  <1> HIDE DEF n, o, previous, current
  <1>8. \A p \in heard[n] : p.agent_id = a =>
           \/ ~ Later(p, o)
           \/ \E q \in raced'[n] : q.agent_id = a /\ ~ Later(p, q)
    <2> SUFFICES ASSUME NEW p \in heard[n], p.agent_id = a,
                        ~ \E q \in raced[n] : q.agent_id = a /\ ~ Later(p, q)
                 PROVE  \/ ~ Later(p, o)
                        \/ \E q \in raced'[n] : q.agent_id = a /\ ~ Later(p, q)
      BY <1>1, <1>7
    <2>1. current # NoObservation /\ ~ Later(p, current) /\ p \in Observation
      BY <1>5, <1>6
    <2>2. CASE current = previous
      BY <2>1, <2>2, <1>1, <1>4, NotLaterByTwo
    <2>3. CASE current # previous
      BY <2>1, <2>3, <1>4, <1>7
    <2> QED BY <2>2, <2>3
  <1>9. FiledUnderAgent'
    BY <1>7 DEF FiledUnderAgent, a
  <1>10. NewestKept'
    <2> SUFFICES ASSUME NEW m \in Nodes, NEW b \in Agents
                 PROVE  LET known == observations'[m][b]
                            about == {p \in heard'[m] : p.agent_id = b}
                        IN IF known = NoObservation THEN about = {}
                           ELSE /\ known \in about
                                /\ \A p \in about :
                                      \/ ~ Later(p, known)
                                      \/ \E q \in raced'[m] : q.agent_id = b /\ ~ Later(p, q)
      BY DEF NewestKept
    <2>1. CASE m = n /\ b = a
      BY <2>1, <1>3, <1>7, <1>8 DEF a
    <2>2. CASE ~ (m = n /\ b = a)
      <3>1. {p \in heard'[m] : p.agent_id = b} = {p \in heard[m] : p.agent_id = b}
        BY <2>2, <1>7 DEF a
      <3>2. observations'[m][b] = observations[m][b]
        BY <2>2, <1>7
      <3> QED BY <3>1, <3>2, <1>7 DEF NewestKept
    <2> QED BY <2>1, <2>2
  <1> QED BY <1>9, <1>10

LEMMA CompareShows ==
    ASSUME GossipTypeOK, FiledUnderAgent, NewestKept, NEW h \in Handlers, Compare(h)
    PROVE  FiledUnderAgent' /\ NewestKept'
  <1> DEFINE n == handlers[h].node
  <1>1. n \in Nodes /\ handlers[h] \in Merging
    BY HandlerTypes DEF Compare
  <1>2. PICK o \in handlers[h].todo :
           \/ heard' = heard
           \/ /\ ~ Improves(o, observations[n][o.agent_id])
              /\ heard' = [heard EXCEPT ![n] = @ \cup {o}]
    BY DEF Compare
  <1>3. UNCHANGED <<observations, raced>>
    BY DEF Compare
  <1>4. o \in Observation /\ o.agent_id \in Agents
    BY <1>1 DEF Merging, Observation
  <1> HIDE DEF n
  <1>5. CASE heard' = heard
    BY <1>3, <1>5 DEF FiledUnderAgent, NewestKept
  <1>6. CASE /\ ~ Improves(o, observations[n][o.agent_id])
             /\ heard' = [heard EXCEPT ![n] = @ \cup {o}]
    <2>1. observations[n][o.agent_id] # NoObservation
      BY <1>6 DEF Improves
    <2>2. ~ Later(o, observations[n][o.agent_id])
      BY <1>1, <1>4, <1>6, <2>1, NewerIsLater DEF Improves, GossipTypeOK
    <2>3. \A m \in Nodes : heard'[m] = IF m = n THEN heard[n] \cup {o} ELSE heard[m]
      BY <1>1, <1>6 DEF GossipTypeOK
    <2>4. NewestKept'
      <3> SUFFICES ASSUME NEW m \in Nodes, NEW b \in Agents
                   PROVE  LET known == observations[m][b]
                              about == {p \in heard'[m] : p.agent_id = b}
                          IN IF known = NoObservation THEN about = {}
                             ELSE /\ known \in about
                                  /\ \A p \in about :
                                        \/ ~ Later(p, known)
                                        \/ \E q \in raced[m] : q.agent_id = b /\ ~ Later(p, q)
        BY <1>3 DEF NewestKept
      <3>1. CASE m = n /\ b = o.agent_id
        BY <3>1, <2>1, <2>2, <2>3 DEF NewestKept
      <3>2. CASE ~ (m = n /\ b = o.agent_id)
        <4>1. {p \in heard'[m] : p.agent_id = b} = {p \in heard[m] : p.agent_id = b}
          BY <3>2, <2>3
        <4> QED BY <4>1 DEF NewestKept
      <3> QED BY <3>1, <3>2
    <2> QED BY <2>4, <1>3 DEF FiledUnderAgent
  <1> QED BY <1>2, <1>5, <1>6

LEMMA ShownKept ==
    ASSUME GossipTypeOK, FiledUnderAgent, NewestKept, HandlersSound, [GossipNext]_gossipVars
    PROVE  FiledUnderAgent' /\ NewestKept'
  <1>1. ASSUME UNCHANGED <<observations, heard, raced>>
        PROVE  FiledUnderAgent' /\ NewestKept'
    BY <1>1 DEF FiledUnderAgent, NewestKept
  <1>2. Tick \/ UNCHANGED gossipVars => UNCHANGED <<observations, heard, raced>>
    BY DEF Tick, gossipVars, histories
  <1>3. ASSUME NEW h \in Handlers, Handle(h) PROVE FiledUnderAgent' /\ NewestKept'
    <2>1. Only(h) \/ Forget(h) \/ Record(h) => UNCHANGED <<observations, heard, raced>>
      BY OnlyChanges DEF Forget, Record
    <2> QED BY <1>1, <1>3, <2>1, SetShows, CompareShows DEF Handle, Only
  <1>4. ASSUME NEW n \in Nodes, Restart(n) PROVE FiledUnderAgent' /\ NewestKept'
    <2>1. /\ observations'[n] = [a \in Agents |-> NoObservation] /\ heard'[n] = {}
          /\ \A m \in Nodes \ {n} : /\ observations'[m] = observations[m]
                                    /\ heard'[m] = heard[m] /\ raced'[m] = raced[m]
      BY <1>4 DEF Restart, GossipTypeOK
    <2>2. FiledUnderAgent'
      BY <2>1 DEF FiledUnderAgent
    <2>3. NewestKept'
      <3> SUFFICES ASSUME NEW m \in Nodes, NEW b \in Agents
                   PROVE  LET known == observations'[m][b]
                              about == {p \in heard'[m] : p.agent_id = b}
                          IN IF known = NoObservation THEN about = {}
                             ELSE /\ known \in about
                                  /\ \A p \in about :
                                        \/ ~ Later(p, known)
                                        \/ \E q \in raced'[m] : q.agent_id = b /\ ~ Later(p, q)
        BY DEF NewestKept
      <3>1. CASE m = n
        BY <3>1, <2>1
      <3>2. CASE m # n
        BY <3>2, <2>1 DEF NewestKept
      <3> QED BY <3>1, <3>2
    <2> QED BY <2>2, <2>3
  <1> QED BY <1>1, <1>2, <1>3, <1>4 DEF GossipNext

-----------------------------------------------------------------------------
(* What a node applies.                                                    *)

\* Time goes on and a node's history only gets longer, while it lives.
Grows(n) ==
    /\ clock <= clock'
    /\ Len(applied[n]) <= Len(applied'[n])
    /\ \A i \in DOMAIN applied[n] : i \in DOMAIN applied'[n] /\ applied'[n][i] = applied[n][i]
    /\ dropped[n] \subseteq dropped'[n]

\* What a record adds to a node's history.
LEMMA RecordAdds ==
    ASSUME GossipTypeOK, NEW h \in Handlers, Record(h)
    PROVE  LET n == handlers[h].node
               e == handlers[h].request
               last == Len(applied[n]) + 1
           IN /\ n \in Nodes /\ e \in Envelopes /\ clock \in Nat /\ handlers[h].looked \in Nat
              /\ DOMAIN applied'[n] = DOMAIN applied[n] \cup {last}
              /\ Len(applied'[n]) = last
              /\ \A i \in DOMAIN applied[n] : applied'[n][i] = applied[n][i]
              /\ applied'[n][last] = [digest |-> e, accepted_at_seconds |-> clock,
                                      looked |-> handlers[h].looked]
              /\ \A m \in Nodes \ {n} : applied'[m] = applied[m]
              /\ \A m \in Nodes : dropped'[m] = dropped[m]
              /\ \A m \in Nodes, id \in MessageIds :
                    seen_messages'[m][id] =
                       IF m = n /\ id = e.message_id
                       THEN [digest |-> e, accepted_at_seconds |-> clock]
                       ELSE seen_messages[m][id]
  <1> DEFINE n == handlers[h].node
             e == handlers[h].request
             entry == [digest |-> e, accepted_at_seconds |-> clock,
                       looked |-> handlers[h].looked]
  <1>1. /\ n \in Nodes /\ e \in Envelopes /\ clock \in Nat /\ handlers[h].looked \in Nat
    BY HandlerTypes DEF Record, Merging, GossipTypeOK
  <1>2. /\ e.message_id \in MessageIds /\ entry \in Applied
    BY <1>1, EnvelopeTypes DEF Applied
  <1>3. /\ seen_messages' = [seen_messages EXCEPT ![n][e.message_id] =
                               [digest |-> e, accepted_at_seconds |-> clock]]
        /\ applied' = [applied EXCEPT ![n] = Append(@, entry)]
        /\ dropped' = dropped
    BY DEF Record
  <1>4. entry = [digest |-> e, accepted_at_seconds |-> clock, looked |-> handlers[h].looked]
    OBVIOUS
  <1> HIDE DEF n, e, entry
  <1>5. applied'[n] = Append(applied[n], entry) /\ applied[n] \in Seq(Applied)
    BY <1>1, <1>3 DEF GossipTypeOK
  <1>6. /\ DOMAIN applied'[n] = DOMAIN applied[n] \cup {Len(applied[n]) + 1}
        /\ Len(applied'[n]) = Len(applied[n]) + 1
        /\ \A i \in DOMAIN applied[n] : applied'[n][i] = applied[n][i]
        /\ applied'[n][Len(applied[n]) + 1] = entry
    BY <1>2, <1>5
  <1>7. \A m \in Nodes \ {n} : applied'[m] = applied[m]
    BY <1>3 DEF GossipTypeOK
  <1>8. \A m \in Nodes, id \in MessageIds :
           seen_messages'[m][id] = IF m = n /\ id = e.message_id
                                   THEN [digest |-> e, accepted_at_seconds |-> clock]
                                   ELSE seen_messages[m][id]
    BY <1>1, <1>2, <1>3 DEF GossipTypeOK
  <1> QED BY <1>1, <1>3, <1>4, <1>6, <1>7, <1>8 DEF n, e

\* What a deletion takes from a node: what was found outdated, or it is marked.
LEMMA ForgetTakes ==
    ASSUME GossipTypeOK, NEW h \in Handlers, Forget(h)
    PROVE  \E s \in handlers[h].expired :
              LET n == handlers[h].node
                  id == s.digest.message_id
              IN /\ n \in Nodes /\ id \in MessageIds /\ s \in SeenMessage
                 /\ seen_messages[n][id] # NotSeen /\ seen_messages'[n][id] = NotSeen
                 /\ \A m \in Nodes, i \in MessageIds :
                       m # n \/ i # id => seen_messages'[m][i] = seen_messages[m][i]
                 /\ \A m \in Nodes : dropped[m] \subseteq dropped'[m]
                 /\ seen_messages[n][id] # s =>
                       \A k \in DOMAIN applied[n] :
                          applied[n][k].digest.message_id = id => k \in dropped'[n]
                 /\ handlers'[h].expired = handlers[h].expired \ {s}
  <1>1. handlers[h] \in Pruning /\ handlers[h].node \in Nodes
    BY HandlerTypes DEF Forget
  <1>2. PICK s \in handlers[h].expired :
           LET n == handlers[h].node
               id == s.digest.message_id
           IN /\ seen_messages[n][id] # NotSeen
              /\ seen_messages' = [seen_messages EXCEPT ![n][id] = NotSeen]
              /\ handlers' = [handlers EXCEPT ![h].expired = @ \ {s}]
              /\ dropped' = [dropped EXCEPT ![n] =
                                IF seen_messages[n][id] = s THEN @
                                ELSE @ \cup {k \in DOMAIN applied[n] :
                                                applied[n][k].digest.message_id = id}]
    BY DEF Forget
  <1> DEFINE n == handlers[h].node
             id == s.digest.message_id
             gone == {k \in DOMAIN applied[n] : applied[n][k].digest.message_id = id}
  <1>3. n \in Nodes /\ id \in MessageIds /\ s \in SeenMessage
    BY <1>1, EnvelopeTypes DEF Pruning, SeenMessage
  <1>4. /\ seen_messages[n][id] # NotSeen
        /\ seen_messages' = [seen_messages EXCEPT ![n][id] = NotSeen]
        /\ dropped' = [dropped EXCEPT ![n] = IF seen_messages[n][id] = s THEN @
                                             ELSE @ \cup gone]
    BY <1>2
  <1>5. handlers'[h].expired = handlers[h].expired \ {s}
    BY <1>1, <1>2 DEF GossipTypeOK, Pruning
  <1>6. \A k \in DOMAIN applied[n] : applied[n][k].digest.message_id = id => k \in gone
    OBVIOUS
  <1> HIDE DEF n, id, gone
  <1>7. \A m \in Nodes, i \in MessageIds :
           m # n \/ i # id => seen_messages'[m][i] = seen_messages[m][i]
    BY <1>3, <1>4 DEF GossipTypeOK
  <1>9. seen_messages'[n][id] = NotSeen
    BY <1>3, <1>4 DEF GossipTypeOK
  <1>8. /\ \A m \in Nodes : dropped[m] \subseteq dropped'[m]
        /\ seen_messages[n][id] # s => gone \subseteq dropped'[n]
    BY <1>3, <1>4 DEF GossipTypeOK
  <1> QED BY <1>3, <1>4, <1>5, <1>6, <1>7, <1>8, <1>9 DEF n, id

\* The steps that leave the history of a node as it is, or add to it.
LEMMA StepGrows ==
    ASSUME GossipTypeOK, [GossipNext]_gossipVars, NEW n \in Nodes
    PROVE  Grows(n) \/ Restart(n)
  <1>1. clock \in Nat /\ Len(applied[n]) \in Nat
    BY AppliedTypes DEF GossipTypeOK
  <1>2. ASSUME clock' \in {clock, clock + 1}, applied'[n] = applied[n],
               dropped[n] \subseteq dropped'[n]
        PROVE  Grows(n)
    BY <1>1, <1>2 DEF Grows
  <1>3. Tick \/ UNCHANGED gossipVars => Grows(n)
    BY <1>2 DEF Tick, gossipVars, histories
  <1>4. ASSUME NEW h \in Handlers, Handle(h) PROVE Grows(n)
    <2>1. CASE Record(h)
      <3>1. clock' = clock /\ dropped'[n] = dropped[n]
        BY <2>1 DEF Record
      <3>2. CASE n # handlers[h].node
        <4>1. \A m \in Nodes \ {handlers[h].node} : applied'[m] = applied[m]
          BY <2>1, RecordAdds
        <4> QED BY <4>1, <3>1, <3>2, <1>2
      <3>3. CASE n = handlers[h].node
        <4>1. /\ Len(applied'[n]) = Len(applied[n]) + 1
              /\ DOMAIN applied[n] \subseteq DOMAIN applied'[n]
              /\ \A i \in DOMAIN applied[n] : applied'[n][i] = applied[n][i]
          <5>1. LET m == handlers[h].node
                IN /\ DOMAIN applied'[m] = DOMAIN applied[m] \cup {Len(applied[m]) + 1}
                   /\ Len(applied'[m]) = Len(applied[m]) + 1
                   /\ \A i \in DOMAIN applied[m] : applied'[m][i] = applied[m][i]
            BY <2>1, RecordAdds, Zenon
          <5> QED BY <5>1, <3>3, Zenon
        <4>2. clock <= clock' /\ Len(applied[n]) <= Len(applied'[n])
          BY <4>1, <3>1, <1>1
        <4>3. \A i \in DOMAIN applied[n] : i \in DOMAIN applied'[n] /\ applied'[n][i] = applied[n][i]
          BY <4>1, Zenon
        <4>4. dropped[n] \subseteq dropped'[n]
          BY <3>1
        <4> QED BY <4>2, <4>3, <4>4 DEF Grows
      <3> QED BY <3>2, <3>3
    <2>2. CASE Forget(h)
      <3>1. UNCHANGED <<clock, applied>> /\ dropped[n] \subseteq dropped'[n]
        BY <2>2, ForgetTakes DEF Forget
      <3> QED BY <3>1, <1>2
    <2>3. CASE Only(h) \/ Compare(h) \/ Set(h)
      <3>1. UNCHANGED <<clock, applied, dropped>>
        BY <2>3, OnlyChanges DEF Compare, Set
      <3> QED BY <3>1, <1>2
    <2> QED BY <1>4, <2>1, <2>2, <2>3 DEF Handle, Only
  <1>5. ASSUME NEW m \in Nodes, Restart(m), m # n PROVE Grows(n)
    BY <1>2, <1>5 DEF Restart, GossipTypeOK
  <1> QED BY <1>3, <1>4, <1>5 DEF GossipNext

\* What is outdated stays outdated.
LEMMA OutdatedKept ==
    ASSUME GossipTypeOK, GossipTypeOK', clock <= clock', NEW s, s.accepted_at_seconds \in Nat,
           Outdated(s)
    PROVE  Outdated(s)'
  BY GossipConstants DEF Outdated, GossipTypeOK

LEMMA LostKept ==
    ASSUME GossipTypeOK, NEW n \in Nodes, Grows(n), NEW i \in DOMAIN applied[n],
           NEW upto \in Nat, upto <= Len(applied[n]), Lost(n, i, upto)
    PROVE  Lost(n, i, upto)'
  <1>1. PICK k \in dropped[n] :
           /\ i <= k /\ k <= upto
           /\ applied[n][k].digest.message_id = applied[n][i].digest.message_id
    BY DEF Lost
  <1>2. k \in DOMAIN applied[n]
    <2>1. k \in Nat /\ i \in 1 .. Len(applied[n]) /\ Len(applied[n]) \in Nat
      BY AppliedTypes DEF GossipTypeOK
    <2>2. k \in 1 .. Len(applied[n])
      BY <1>1, <2>1
    <2> QED BY <2>2, AppliedTypes
  <1> QED BY <1>1, <1>2 DEF Lost, Grows

LEMMA CoveredKept ==
    ASSUME GossipTypeOK, GossipTypeOK', NEW n \in Nodes, Grows(n), NEW e, NEW looked \in Nat,
           Covered(n, e, looked)
    PROVE  Covered(n, e, looked)'
  <1>1. looked <= Len(applied[n]) /\ Len(applied[n]) \in Nat /\ Len(applied'[n]) \in Nat
    <2>1. Len(applied[n]) \in Nat /\ Len(applied'[n]) \in Nat
      BY DEF GossipTypeOK
    <2> QED BY <2>1 DEF Covered
  <1>2. looked <= Len(applied'[n])
    BY <1>1 DEF Grows
  <1>3. ASSUME NEW i \in DOMAIN applied'[n], i <= looked,
               applied'[n][i].digest.message_id = e.message_id
        PROVE  \/ clock' - applied'[n][i].accepted_at_seconds > seen_message_ttl_seconds
               \/ Lost(n, i, looked)'
    <2>1. DOMAIN applied'[n] = 1 .. Len(applied'[n])
      BY DEF GossipTypeOK
    <2>2. i \in DOMAIN applied[n]
      BY <1>1, <1>3, <2>1, AppliedTypes
    <2>3. applied'[n][i] = applied[n][i] /\ applied[n][i].accepted_at_seconds \in Nat
      BY <2>2, AppliedTypes DEF Grows
    <2>4. Outdated(applied[n][i]) \/ Lost(n, i, looked)
      BY <1>3, <2>2, <2>3 DEF Covered
    <2>5. CASE Outdated(applied[n][i])
      <3>1. /\ clock - applied[n][i].accepted_at_seconds > seen_message_ttl_seconds
            /\ clock \in Nat /\ clock' \in Nat /\ clock <= clock'
            /\ seen_message_ttl_seconds \in Nat
        BY <2>5, GossipConstants DEF Outdated, Grows, GossipTypeOK
      <3>2. clock' - applied[n][i].accepted_at_seconds > seen_message_ttl_seconds
        BY <2>3, <3>1
      <3> QED BY <2>3, <3>2
    <2>6. CASE Lost(n, i, looked)
      BY <2>2, <2>6, <1>1, LostKept
    <2> QED BY <2>4, <2>5, <2>6
  <1> QED BY <1>2, <1>3 DEF Covered, Outdated

\* A thread that rests, beside a history that grows.
LEMMA RestingHandler ==
    ASSUME GossipTypeOK, GossipTypeOK', NEW g \in Handlers, HandlerSound(g),
           handlers'[g] = handlers[g], handlers[g] # Idle => Grows(handlers[g].node)
    PROVE  HandlerSound(g)'
  <1> SUFFICES ASSUME handlers[g] # Idle PROVE HandlerSound(g)'
    BY DEF HandlerSound
  <1>1. ASSUME handlers[g].at = "prune", NEW s \in handlers[g].expired PROVE Outdated(s)'
    <2>1. s.accepted_at_seconds \in Nat
      BY <1>1, HandlerTypes DEF Pruning, SeenMessage
    <2> QED BY <1>1, <2>1, OutdatedKept DEF HandlerSound, Grows
  <1>2. ASSUME handlers[g].at \in {"merge", "set"}
        PROVE  Covered(handlers[g].node, handlers[g].request, handlers[g].looked)'
    <2>1. PICK n, e, looked : /\ n = handlers[g].node /\ e = handlers[g].request
                              /\ looked = handlers[g].looked
      OBVIOUS
    <2>2. n \in Nodes /\ looked \in Nat /\ Grows(n)
      BY <1>2, <2>1, HandlerTypes DEF Merging, Setting
    <2>3. Covered(n, e, looked)
      BY <1>2, <2>1 DEF HandlerSound
    <2>4. Covered(n, e, looked)'
      BY <2>2, <2>3, CoveredKept
    <2>5. n = handlers'[g].node /\ e = handlers'[g].request /\ looked = handlers'[g].looked
      BY <2>1
    <2> QED BY <2>4, <2>5 DEF Covered, Lost, Outdated
  <1> QED BY <1>1, <1>2 DEF HandlerSound

\* What was looked up and not found had been outdated or lost.
LEMMA BeginMergeSound ==
    ASSUME GossipTypeOK, RecentRemembered, NEW h \in Handlers, BeginMerge(h)
    PROVE  HandlerSound(h)'
  <1> DEFINE n == handlers[h].node
             e == handlers[h].request
  <1>1. n \in Nodes /\ Len(applied[n]) \in Nat /\ DOMAIN applied[n] = 1 .. Len(applied[n])
    BY HandlerTypes, AppliedTypes DEF BeginMerge, AtLookUp
  <1>2. /\ seen_messages[n][e.message_id] = NotSeen
        /\ handlers'[h] = [at |-> "merge", node |-> n, request |-> e,
                           todo |-> e.observations, looked |-> Len(applied[n])]
        /\ UNCHANGED <<clock, applied, dropped>>
    BY DEF BeginMerge, Previous, GossipTypeOK, histories
  <1>3. Covered(n, e, Len(applied[n]))
    BY <1>1, <1>2 DEF RecentRemembered, Known, Covered
  <1>4. /\ handlers'[h].at = "merge" /\ handlers'[h].node = n /\ handlers'[h].request = e
        /\ handlers'[h].looked = Len(applied[n])
    BY <1>2
  <1> HIDE DEF n, e
  <1> QED BY <1>2, <1>3, <1>4 DEF HandlerSound, Covered, Lost, Outdated

LEMMA CompareSound ==
    ASSUME GossipTypeOK, HandlersSound, NEW h \in Handlers, Compare(h)
    PROVE  HandlerSound(h)'
  <1>1. handlers[h] # Idle /\ handlers[h] \in Merging /\ handlers[h].node \in Nodes
    BY HandlerTypes DEF Compare
  <1>2. Covered(handlers[h].node, handlers[h].request, handlers[h].looked)
    BY <1>1 DEF HandlersSound, HandlerSound, Merging
  <1>3. PICK o \in handlers[h].todo :
           \/ /\ Improves(o, observations[handlers[h].node][o.agent_id])
              /\ handlers'[h] =
                    [at |-> "set", node |-> handlers[h].node, request |-> handlers[h].request,
                     todo |-> handlers[h].todo \ {o}, looked |-> handlers[h].looked,
                     next |-> o, previous |-> observations[handlers[h].node][o.agent_id]]
           \/ handlers'[h] = [handlers[h] EXCEPT !.todo = @ \ {o}]
    BY DEF Compare, GossipTypeOK
  <1>4. o \in Observation /\ o.agent_id \in Agents
    BY <1>1 DEF Merging, Observation
  <1>5. /\ handlers'[h].node = handlers[h].node /\ handlers'[h].request = handlers[h].request
        /\ handlers'[h].looked = handlers[h].looked
        /\ handlers'[h].at \in {"merge", "set"}
    BY <1>1, <1>3 DEF Merging
  <1>6. ASSUME handlers'[h].at = "set", handlers'[h].previous # NoObservation
        PROVE  Later(handlers'[h].next, handlers'[h].previous)
    <2>1. /\ Improves(o, observations[handlers[h].node][o.agent_id])
          /\ handlers'[h].next = o
          /\ handlers'[h].previous = observations[handlers[h].node][o.agent_id]
      BY <1>1, <1>3, <1>6 DEF Merging
    <2>2. observations[handlers[h].node][o.agent_id] \in Observation
      BY <1>1, <1>4, <1>6, <2>1 DEF GossipTypeOK
    <2> QED BY <1>4, <1>6, <2>1, <2>2, NewerIsLater DEF Improves
  <1>7. UNCHANGED <<clock, applied, dropped>>
    BY DEF Compare
  <1>8. Covered(handlers[h].node, handlers[h].request, handlers[h].looked)'
    BY <1>2, <1>5, <1>7 DEF Covered, Lost, Outdated
  <1> QED BY <1>5, <1>6, <1>8 DEF HandlerSound

LEMMA SetSound ==
    ASSUME GossipTypeOK, HandlersSound, NEW h \in Handlers, Set(h)
    PROVE  HandlerSound(h)'
  <1>1. handlers[h] # Idle /\ handlers[h] \in Setting
    BY HandlerTypes DEF Set
  <1>2. Covered(handlers[h].node, handlers[h].request, handlers[h].looked)
    BY <1>1 DEF HandlersSound, HandlerSound, Setting
  <1>3. /\ handlers'[h].node = handlers[h].node /\ handlers'[h].request = handlers[h].request
        /\ handlers'[h].looked = handlers[h].looked /\ handlers'[h].at = "merge"
    BY DEF Set, GossipTypeOK
  <1>4. UNCHANGED <<clock, applied, dropped>>
    BY DEF Set
  <1>5. Covered(handlers[h].node, handlers[h].request, handlers[h].looked)'
    BY <1>2, <1>3, <1>4 DEF Covered, Lost, Outdated
  <1> QED BY <1>3, <1>5 DEF HandlerSound

LEMMA HandlersKept ==
    ASSUME GossipTypeOK, GossipTypeOK', HandlersSound, RecentRemembered,
           [GossipNext]_gossipVars
    PROVE  HandlersSound'
  <1> SUFFICES ASSUME NEW g \in Handlers PROVE HandlerSound(g)'
    BY DEF HandlersSound
  <1>1. handlers[g] # Idle => handlers[g].node \in Nodes
    BY HandlerTypes
  <1>2. HandlerSound(g)
    BY DEF HandlersSound
  <1>3. CASE Tick \/ UNCHANGED gossipVars
    <2>1. handlers' = handlers
      BY <1>3 DEF Tick, gossipVars
    <2>2. handlers[g] # Idle => Grows(handlers[g].node)
      BY <1>1, <1>3, StepGrows, AppliedTypes
         DEF Tick, gossipVars, histories, Grows, GossipTypeOK
    <2> QED BY <1>2, <2>1, <2>2, RestingHandler
  <1>4. ASSUME NEW h \in Handlers, Handle(h), g # h PROVE HandlerSound(g)'
    <2>1. handlers'[g] = handlers[g]
      BY <1>4, OneThread
    <2>2. ASSUME NEW n \in Nodes PROVE Grows(n)
      <3>1. restarts' = restarts
        BY <1>4, OnlyChanges DEF Handle, Only, Forget, Compare, Set, Record
      <3>2. ~ Restart(n)
        BY <3>1 DEF Restart, GossipTypeOK
      <3> QED BY <3>2, StepGrows
    <2> QED BY <1>1, <1>2, <2>1, <2>2, RestingHandler
  <1>5. ASSUME Handle(g) PROVE HandlerSound(g)'
    <2>1. CASE Report(g) \/ Repeats(g) \/ Refuses(g) \/ FailToForget(g) \/ Record(g)
      <3>1. handlers'[g] = Idle
        BY <2>1 DEF Report, Repeats, Refuses, FailToForget, Record, Ended, GossipTypeOK
      <3> QED BY <3>1 DEF HandlerSound
    <2>2. ASSUME NEW n \in Nodes, NEW request \in Envelopes \cup {Look}, Receive(g, n, request)
          PROVE  HandlerSound(g)'
      <3>1. /\ handlers'[g] = [at |-> "prune", node |-> n, request |-> request,
                               expired |-> {s \in Seen(n) : Outdated(s)}]
            /\ clock' = clock
        BY <2>2 DEF Receive, GossipTypeOK
      <3> QED BY <3>1 DEF HandlerSound, Outdated
    <2>3. CASE Forget(g)
      <3>1. PICK s \in handlers[g].expired : handlers'[g].expired = handlers[g].expired \ {s}
        BY <2>3, ForgetTakes
      <3>2. /\ handlers[g] # Idle /\ handlers[g].at = "prune"
            /\ handlers[g] \in Pruning /\ clock' = clock
        BY <2>3, HandlerTypes DEF Forget
      <3>3. handlers'[g].at = "prune"
        BY <2>3, <3>2 DEF Forget, GossipTypeOK, Pruning
      <3> QED BY <1>2, <3>1, <3>2, <3>3 DEF HandlerSound, Outdated
    <2> QED BY <1>5, <2>1, <2>2, <2>3, BeginMergeSound, CompareSound, SetSound DEF Handle
  <1>6. ASSUME NEW n \in Nodes, Restart(n) PROVE HandlerSound(g)'
    <2>1. CASE handlers[g] # Idle /\ handlers[g].node = n
      <3>1. handlers'[g] = Idle
        BY <1>6, <2>1 DEF Restart
      <3> QED BY <3>1 DEF HandlerSound
    <2>2. CASE handlers[g] # Idle => handlers[g].node # n
      <3>1. handlers'[g] = handlers[g]
        BY <1>6, <2>2 DEF Restart
      <3>2. ASSUME handlers[g] # Idle PROVE Grows(handlers[g].node)
        <4>1. /\ clock' = clock /\ applied'[handlers[g].node] = applied[handlers[g].node]
              /\ dropped'[handlers[g].node] = dropped[handlers[g].node]
          BY <1>1, <1>6, <2>2, <3>2 DEF Restart, GossipTypeOK
        <4>2. clock \in Nat /\ Len(applied[handlers[g].node]) \in Nat
          BY <1>1, <3>2, AppliedTypes DEF GossipTypeOK
        <4> QED BY <4>1, <4>2 DEF Grows
      <3> QED BY <1>2, <3>1, <3>2, RestingHandler
    <2> QED BY <2>1, <2>2
  <1> QED BY <1>3, <1>4, <1>5, <1>6 DEF GossipNext

\* What is known stays known, beside a history that grows.
LEMMA KnownKept ==
    ASSUME GossipTypeOK, GossipTypeOK', NEW n \in Nodes, Grows(n), NEW i \in DOMAIN applied[n],
           Known(n, i), NEW id, id = applied[n][i].digest.message_id,
           seen_messages'[n][id] = seen_messages[n][id]
    PROVE  Known(n, i)'
  <1>1. /\ applied'[n][i] = applied[n][i] /\ applied[n][i].accepted_at_seconds \in Nat
        /\ Len(applied[n]) \in Nat /\ Len(applied'[n]) \in Nat
        /\ clock \in Nat /\ clock' \in Nat /\ clock <= clock'
        /\ Len(applied[n]) <= Len(applied'[n])
    BY AppliedTypes DEF Grows, GossipTypeOK
  <1>2. applied'[n][i].accepted_at_seconds <= clock'
    BY <1>1 DEF Known
  <1>3. CASE Outdated(applied[n][i])
    <2>1. clock' - applied'[n][i].accepted_at_seconds > seen_message_ttl_seconds
      BY <1>1, <1>3, GossipConstants DEF Outdated
    <2> QED BY <1>2, <2>1 DEF Known, Outdated
  <1>4. CASE Lost(n, i, Len(applied[n]))
    <2>1. PICK k \in dropped[n] :
             /\ i <= k /\ k <= Len(applied[n])
             /\ applied[n][k].digest.message_id = applied[n][i].digest.message_id
      BY <1>4 DEF Lost
    <2>2. k \in Nat /\ i \in 1 .. Len(applied[n])
      BY AppliedTypes DEF GossipTypeOK
    <2>3. k \in DOMAIN applied[n] /\ k <= Len(applied'[n])
      BY <1>1, <2>1, <2>2, AppliedTypes
    <2>4. k \in dropped'[n] /\ applied'[n][k] = applied[n][k]
      BY <2>3 DEF Grows
    <2>5. Lost(n, i, Len(applied[n]))'
      BY <1>1, <2>1, <2>3, <2>4 DEF Lost
    <2> QED BY <1>2, <2>5 DEF Known
  <1>5. CASE seen_messages[n][id] # NotSeen /\
             applied[n][i].accepted_at_seconds <= seen_messages[n][id].accepted_at_seconds
    BY <1>1, <1>2, <1>5 DEF Known
  <1> QED BY <1>3, <1>4, <1>5 DEF Known

LEMMA RememberKept ==
    ASSUME GossipTypeOK, GossipTypeOK', RecentRemembered, HandlersSound,
           [GossipNext]_gossipVars
    PROVE  RecentRemembered'
  <1> SUFFICES ASSUME NEW n \in Nodes, NEW i \in DOMAIN applied'[n] PROVE Known(n, i)'
    BY DEF RecentRemembered
  <1>1. ASSUME i \in DOMAIN applied[n], Grows(n),
               seen_messages'[n][applied[n][i].digest.message_id]
                  = seen_messages[n][applied[n][i].digest.message_id]
        PROVE  Known(n, i)'
    <2>1. PICK id : id = applied[n][i].digest.message_id
      OBVIOUS
    <2>2. Known(n, i)
      BY <1>1 DEF RecentRemembered
    <2> QED BY <1>1, <2>1, <2>2, KnownKept
  <1>2. CASE UNCHANGED <<seen_messages, applied, restarts>>
    BY <1>1, <1>2, StepGrows DEF Restart, GossipTypeOK
  <1>3. Tick \/ UNCHANGED gossipVars => UNCHANGED <<seen_messages, applied, restarts>>
    BY DEF Tick, gossipVars, histories
  <1>4. ASSUME NEW h \in Handlers, Handle(h), ~ Forget(h), ~ Record(h)
        PROVE  UNCHANGED <<seen_messages, applied, restarts>>
    BY <1>4, OnlyChanges DEF Handle, Only, Compare, Set
  <1>5. ASSUME NEW h \in Handlers, Forget(h) PROVE Known(n, i)'
    <2>1. /\ UNCHANGED <<clock, applied, restarts>>
      BY <1>5 DEF Forget
    <2>2. /\ i \in DOMAIN applied[n] /\ Grows(n) /\ Known(n, i)
          /\ applied[n][i] \in Applied /\ applied[n][i].accepted_at_seconds \in Nat
      BY <2>1, StepGrows, AppliedTypes DEF Restart, GossipTypeOK, RecentRemembered
    <2>3. PICK s \in handlers[h].expired :
             /\ s \in SeenMessage
             /\ \A m \in Nodes, j \in MessageIds :
                   m # handlers[h].node \/ j # s.digest.message_id =>
                      seen_messages'[m][j] = seen_messages[m][j]
             /\ seen_messages[handlers[h].node][s.digest.message_id] # s =>
                   \A k \in DOMAIN applied[handlers[h].node] :
                      applied[handlers[h].node][k].digest.message_id = s.digest.message_id =>
                         k \in dropped'[handlers[h].node]
      BY <1>5, ForgetTakes
    <2>4. CASE n # handlers[h].node \/ applied[n][i].digest.message_id # s.digest.message_id
      <3>1. applied[n][i].digest.message_id \in MessageIds
        BY <2>2, EnvelopeTypes DEF Applied
      <3> QED BY <1>1, <2>2, <2>3, <2>4, <3>1
    <2>5. CASE /\ n = handlers[h].node /\ applied[n][i].digest.message_id = s.digest.message_id
               /\ seen_messages[n][s.digest.message_id] # s
      <3>1. i \in dropped'[n] /\ i <= i /\ i <= Len(applied'[n])
        BY <2>1, <2>2, <2>3, <2>5, AppliedTypes
      <3>2. Lost(n, i, Len(applied[n]))'
        BY <3>1 DEF Lost
      <3> QED BY <2>1, <2>2, <3>2 DEF Known
    <2>6. CASE /\ n = handlers[h].node /\ applied[n][i].digest.message_id = s.digest.message_id
               /\ seen_messages[n][s.digest.message_id] = s
      <3>1. Outdated(s)
        BY <1>5 DEF Forget, HandlersSound, HandlerSound
      <3>2. CASE Outdated(applied[n][i]) \/ Lost(n, i, Len(applied[n]))
        <4>1. CASE Outdated(applied[n][i])
          BY <2>1, <2>2, <4>1 DEF Known, Outdated
        <4>2. CASE Lost(n, i, Len(applied[n]))
          BY <2>1, <2>2, <4>2 DEF Known, Lost, Grows
        <4> QED BY <3>2, <4>1, <4>2
      <3>3. CASE applied[n][i].accepted_at_seconds <= s.accepted_at_seconds
        <4>1. clock \in Nat /\ s.accepted_at_seconds \in Nat /\ seen_message_ttl_seconds \in Nat
          BY <2>3, GossipConstants DEF SeenMessage, GossipTypeOK
        <4>2. Outdated(applied[n][i])
          BY <2>2, <3>1, <3>3, <4>1 DEF Outdated
        <4> QED BY <2>1, <2>2, <4>2 DEF Known, Outdated
      <3> QED BY <2>2, <2>6, <3>2, <3>3 DEF Known
    <2> QED BY <2>4, <2>5, <2>6
  <1>6. ASSUME NEW h \in Handlers, Record(h) PROVE Known(n, i)'
    <2> DEFINE m == handlers[h].node
               id == handlers[h].request.message_id
               last == Len(applied[m]) + 1
    <2>1. /\ m \in Nodes /\ handlers[h].request \in Envelopes /\ clock \in Nat
          /\ DOMAIN applied'[m] = DOMAIN applied[m] \cup {last}
          /\ applied'[m][last].digest = handlers[h].request
          /\ applied'[m][last].accepted_at_seconds = clock
          /\ \A k \in Nodes \ {m} : applied'[k] = applied[k]
      <3>1. \A k \in Nodes \ {handlers[h].node} : applied'[k] = applied[k]
        BY <1>6, RecordAdds
      <3>2. /\ m \in Nodes /\ handlers[h].request \in Envelopes /\ clock \in Nat
            /\ DOMAIN applied'[m] = DOMAIN applied[m] \cup {last}
            /\ applied'[m][last] = [digest |-> handlers[h].request,
                                    accepted_at_seconds |-> clock,
                                    looked |-> handlers[h].looked]
        BY <1>6, RecordAdds
      <3> QED BY <3>1, <3>2
    <2>2. \A k \in Nodes, j \in MessageIds :
             seen_messages'[k][j] = IF k = m /\ j = id
                                    THEN [digest |-> handlers[h].request,
                                          accepted_at_seconds |-> clock]
                                    ELSE seen_messages[k][j]
      BY <1>6, RecordAdds
    <2>3. clock' = clock /\ restarts' = restarts
      BY <1>6 DEF Record
    <2>4. id \in MessageIds /\ Grows(n)
      BY <2>1, <2>3, EnvelopeTypes, StepGrows DEF Restart, GossipTypeOK
    <2>5. /\ seen_messages'[m][id].accepted_at_seconds = clock
          /\ seen_messages'[m][id] # NotSeen
      <3>1. [digest |-> handlers[h].request, accepted_at_seconds |-> clock] \in SeenMessage
        BY <2>1 DEF SeenMessage
      <3> QED BY <2>1, <2>2, <2>4, <3>1, GossipConstants
    <2> HIDE DEF m, id, last
    <2>6. CASE n = m /\ i = last
      BY <2>1, <2>3, <2>5, <2>6 DEF Known, id
    <2>7. CASE i \in DOMAIN applied[n]
      <3>1. /\ applied[n][i] \in Applied /\ applied[n][i].accepted_at_seconds \in Nat
            /\ applied'[n][i] = applied[n][i] /\ Known(n, i)
        BY <2>4, <2>7, AppliedTypes DEF Grows, RecentRemembered
      <3>2. applied[n][i].digest.message_id \in MessageIds
        BY <3>1, EnvelopeTypes DEF Applied
      <3>3. CASE n = m /\ applied[n][i].digest.message_id = id
        BY <2>1, <2>3, <2>5, <3>1, <3>3 DEF Known
      <3>4. CASE ~ (n = m /\ applied[n][i].digest.message_id = id)
        BY <1>1, <2>2, <2>4, <2>7, <3>2, <3>4
      <3> QED BY <3>3, <3>4
    <2> QED BY <2>1, <2>6, <2>7
  <1>7. ASSUME NEW m \in Nodes, Restart(m) PROVE Known(n, i)'
    <2>1. CASE n = m
      BY <1>7, <2>1 DEF Restart, GossipTypeOK
    <2>2. CASE n # m
      <3>1. /\ applied'[n] = applied[n] /\ seen_messages'[n] = seen_messages[n]
            /\ dropped'[n] = dropped[n] /\ clock' = clock
        BY <1>7, <2>2 DEF Restart, GossipTypeOK
      <3>2. Grows(n)
        BY <3>1, AppliedTypes DEF Grows, GossipTypeOK
      <3> QED BY <1>1, <3>1, <3>2
    <2> QED BY <2>1, <2>2
  <1> QED BY <1>2, <1>3, <1>4, <1>5, <1>6, <1>7 DEF GossipNext

\* Two records of one id within the TTL, at a node whose history grows.
Twice(n, i, j) ==
    LET id == applied[n][i].digest.message_id IN
    /\ i < j /\ applied[n][j].digest.message_id = id
    /\ applied[n][j].accepted_at_seconds - applied[n][i].accepted_at_seconds
          <= seen_message_ttl_seconds
    => \/ applied[n][j].looked < i
       \/ \E k \in dropped[n] : /\ i <= k /\ k <= applied[n][j].looked
                                 /\ applied[n][k].digest.message_id = id

LEMMA OldPairsKept ==
    ASSUME GossipTypeOK, GossipTypeOK', LookedBefore, AppliedOncePerWindow,
           NEW n \in Nodes, Grows(n), NEW i \in DOMAIN applied'[n], NEW j \in DOMAIN applied[n]
    PROVE  Twice(n, i, j)' /\ applied'[n][j].looked < j
  <1>1. /\ applied'[n][j] = applied[n][j] /\ applied[n][j].looked \in Nat
        /\ applied[n][j].looked < j /\ j \in 1 .. Len(applied[n]) /\ Len(applied[n]) \in Nat
    BY AppliedTypes DEF Grows, LookedBefore
  <1>2. DOMAIN applied'[n] = 1 .. Len(applied'[n]) /\ Len(applied'[n]) \in Nat
    BY DEF GossipTypeOK
  <1>3. CASE i < j
    <2>1. i \in DOMAIN applied[n]
      BY <1>1, <1>2, <1>3, AppliedTypes
    <2>2. applied'[n][i] = applied[n][i]
      BY <2>1 DEF Grows
    <2>3. Twice(n, i, j)
      BY <2>1 DEF AppliedOncePerWindow, Twice
    <2>4. ASSUME NEW k \in dropped[n], i <= k, k <= applied[n][j].looked
          PROVE  k \in dropped'[n] /\ applied'[n][k] = applied[n][k]
      <3>1. k \in Nat
        BY DEF GossipTypeOK
      <3>2. k \in DOMAIN applied[n]
        BY <1>1, <1>2, <2>4, <3>1, AppliedTypes
      <3> QED BY <3>2 DEF Grows
    <2> QED BY <1>1, <2>2, <2>3, <2>4 DEF Twice
  <1>4. CASE ~ i < j
    BY <1>1, <1>4 DEF Twice
  <1> QED BY <1>3, <1>4

LEMMA OnceKept ==
    ASSUME GossipTypeOK, GossipTypeOK', LookedBefore, AppliedOncePerWindow, HandlersSound,
           [GossipNext]_gossipVars
    PROVE  LookedBefore' /\ AppliedOncePerWindow'
  <1> SUFFICES ASSUME NEW n \in Nodes, NEW i \in DOMAIN applied'[n], NEW j \in DOMAIN applied'[n]
               PROVE  Twice(n, i, j)' /\ applied'[n][j].looked < j
    BY DEF LookedBefore, AppliedOncePerWindow, Twice
  <1>1. CASE j \in DOMAIN applied[n] /\ Grows(n)
    BY <1>1, OldPairsKept
  <1>2. CASE applied'[n] = applied[n] /\ Grows(n)
    BY <1>1, <1>2
  <1>3. ASSUME NEW m \in Nodes, Restart(m)
        PROVE  Twice(n, i, j)' /\ applied'[n][j].looked < j
    <2>1. n # m
      BY <1>3 DEF Restart, GossipTypeOK
    <2>2. /\ applied'[n] = applied[n] /\ dropped'[n] = dropped[n] /\ clock' = clock
      BY <1>3, <2>1 DEF Restart, GossipTypeOK
    <2>3. Grows(n)
      BY <2>2, AppliedTypes DEF Grows, GossipTypeOK
    <2> QED BY <1>2, <2>2, <2>3
  <1>4. ASSUME NEW h \in Handlers, Record(h)
        PROVE  Twice(n, i, j)' /\ applied'[n][j].looked < j
    <2>1. restarts' = restarts /\ clock' = clock
      BY <1>4 DEF Record
    <2>2. Grows(n)
      BY <2>1, StepGrows DEF Restart, GossipTypeOK
    <2>3. \A m \in Nodes \ {handlers[h].node} : applied'[m] = applied[m]
      BY <1>4, RecordAdds
    <2>4. CASE n # handlers[h].node
      BY <1>2, <2>2, <2>3, <2>4
    <2>5. CASE n = handlers[h].node /\ j \notin DOMAIN applied[n]
      <3> DEFINE e == handlers[h].request
                 looked == handlers[h].looked
      <3>1. /\ DOMAIN applied'[n] = DOMAIN applied[n] \cup {Len(applied[n]) + 1}
            /\ applied'[n][Len(applied[n]) + 1]
                  = [digest |-> e, accepted_at_seconds |-> clock, looked |-> looked]
            /\ looked \in Nat /\ clock \in Nat
            /\ dropped'[n] = dropped[n]
        BY <1>4, <2>5, RecordAdds
      <3>2. /\ j = Len(applied[n]) + 1 /\ applied'[n][j].digest = e
            /\ applied'[n][j].accepted_at_seconds = clock /\ applied'[n][j].looked = looked
        BY <2>5, <3>1
      <3>3. Covered(n, e, looked)
        BY <1>4, <2>5 DEF Record, HandlersSound, HandlerSound
      <3>4. looked <= Len(applied[n]) /\ Len(applied[n]) \in Nat /\ i \in Nat
        BY <3>3, AppliedTypes DEF Covered, GossipTypeOK
      <3>5. applied'[n][j].looked < j
        BY <3>1, <3>2, <3>4
      <3> HIDE DEF e, looked
      <3>6. ASSUME i < j, i <= looked, applied'[n][j].digest.message_id
                                          = applied'[n][i].digest.message_id,
                   applied'[n][j].accepted_at_seconds - applied'[n][i].accepted_at_seconds
                      <= seen_message_ttl_seconds
            PROVE  \E k \in dropped'[n] :
                      /\ i <= k /\ k <= applied'[n][j].looked
                      /\ applied'[n][k].digest.message_id = applied'[n][i].digest.message_id
        <4>1. i \in DOMAIN applied[n] /\ applied'[n][i] = applied[n][i]
          BY <2>2, <3>1, <3>2, <3>6 DEF Grows
        <4>2. ~ Outdated(applied[n][i])
          BY <3>1, <3>2, <3>6, <4>1, AppliedTypes, GossipConstants DEF Outdated
        <4>3. Lost(n, i, looked)
          BY <3>2, <3>3, <3>6, <4>1, <4>2 DEF Covered
        <4>4. PICK upto : upto = looked
          OBVIOUS
        <4>5. Lost(n, i, upto)'
          BY <2>2, <3>1, <3>4, <4>1, <4>3, <4>4, LostKept
        <4> QED BY <3>2, <4>4, <4>5 DEF Lost
      <3>7. CASE i <= looked
        BY <3>5, <3>6, <3>7 DEF Twice
      <3>8. CASE looked < i
        BY <3>2, <3>5, <3>8 DEF Twice
      <3> QED BY <3>1, <3>4, <3>7, <3>8
    <2> QED BY <1>1, <2>2, <2>4, <2>5
  <1>5. CASE UNCHANGED <<applied, restarts>>
    BY <1>2, <1>5, StepGrows DEF Restart, GossipTypeOK
  <1>6. Tick \/ UNCHANGED gossipVars => UNCHANGED <<applied, restarts>>
    BY DEF Tick, gossipVars, histories
  <1>7. ASSUME NEW h \in Handlers, Handle(h), ~ Record(h) PROVE UNCHANGED <<applied, restarts>>
    BY <1>7, OnlyChanges DEF Handle, Only, Compare, Set, Forget
  <1> QED BY <1>3, <1>4, <1>5, <1>6, <1>7 DEF GossipNext

-----------------------------------------------------------------------------
(* What holds of the receivers alone.                                      *)

LEMMA GossipInitOK == GossipInit => IInv
  <1> SUFFICES ASSUME GossipInit PROVE IInv
    OBVIOUS
  <1>1. GossipTypeOK
    BY DEF GossipInit, GossipTypeOK
  <1>2. FiledUnderAgent /\ NewestKept
    BY DEF GossipInit, FiledUnderAgent, NewestKept
  <1>3. RecentRemembered /\ HandlersSound /\ LookedBefore /\ AppliedOncePerWindow
    BY DEF GossipInit, RecentRemembered, HandlersSound, HandlerSound, LookedBefore,
           AppliedOncePerWindow
  <1> QED BY <1>1, <1>2, <1>3 DEF IInv

LEMMA StepKeeps == IInv /\ [GossipNext]_gossipVars => IInv'
  <1> SUFFICES ASSUME IInv, [GossipNext]_gossipVars PROVE IInv'
    OBVIOUS
  <1>1. GossipTypeOK'
    BY TypesKept DEF IInv
  <1>2. FiledUnderAgent' /\ NewestKept'
    BY ShownKept DEF IInv
  <1>3. RecentRemembered' /\ HandlersSound'
    BY <1>1, RememberKept, HandlersKept DEF IInv
  <1>4. LookedBefore' /\ AppliedOncePerWindow'
    BY <1>1, OnceKept DEF IInv
  <1> QED BY <1>1, <1>2, <1>3, <1>4 DEF IInv

\* The invariant of merge_envelope, prune_seen_messages and accept_gossip is kept by
\* every step of any number of threads between the steps of the others, by time and
\* by a restart.
THEOREM GossipInductive == GossipSpec => []IInv
  BY GossipInitOK, StepKeeps, PTL DEF GossipSpec

-----------------------------------------------------------------------------
(* The sender's tools touch a receiver only through its requests.          *)

LEMMA MeshStepIsGossipStep == [MeshNext]_meshVars => [GossipNext]_gossipVars
  <1> SUFFICES ASSUME [MeshNext]_meshVars PROVE [GossipNext]_gossipVars
    OBVIOUS
  <1>1. ASSUME NEW d \in Deliveries, Post(d) PROVE GossipNext
    <2>1. PICK h \in Handlers : Record(h) \/ Repeats(h) \/ Refuses(h)
      BY <1>1 DEF Post
    <2> QED BY <2>1 DEF GossipNext, Handle
  <1>2. CASE GossipNext
    BY <1>2
  <1>3. CASE UNCHANGED gossipVars
    BY <1>3
  <1>4. ASSUME NEW r \in receipts, Apply(r) PROVE UNCHANGED gossipVars
    BY <1>4 DEF Apply, gossipVars
  <1>5. Expire \/ SendDryRun \/ RetryPlan \/ RouteHealth => UNCHANGED gossipVars
    BY DEF Expire, SendDryRun, RetryPlan, RouteHealth, gossipVars
  <1>6. UNCHANGED meshVars => UNCHANGED gossipVars
    BY DEF meshVars
  <1> QED BY <1>1, <1>2, <1>3, <1>4, <1>5, <1>6 DEF MeshNext

\* The receivers in the mesh are the receivers of the gossip specification: no
\* tool of the sender changes what accept_gossip alone decides.
THEOREM MeshImplementsGossip == MeshSpec => GossipSpec
  <1>1. MeshInit => GossipInit
    BY DEF MeshInit
  <1> QED BY <1>1, MeshStepIsGossipStep, PTL DEF MeshSpec, GossipSpec

\* However envelopes are lost, repeated and reordered and the threads of a node run
\* between each other's steps, it shows of each agent the newest observation it has
\* merged, or it lacks nothing newer than what came between compare and set
\* (merge_envelope, is_newer).
THEOREM NewestIsKept == MeshSpec => []NewestKept
  <1>1. IInv => NewestKept
    BY DEF IInv
  <1> QED BY <1>1, GossipInductive, MeshImplementsGossip, PTL

\* No thread has put its observation of an agent in the place of another thread's.
Undisturbed(n, a) == \A p \in raced[n] : p.agent_id # a

\* A receiver that has merged all that another has knows every agent the other
\* knows; and it shows nothing older of an agent than the other does unless two of
\* its threads met over that agent, whatever the order, the repetitions and the
\* losses on the way to either of them.
NotBehind ==
    \A n, m \in Nodes, a \in Agents :
       heard[n] \subseteq heard[m] /\ observations[n][a] # NoObservation =>
          /\ observations[m][a] # NoObservation
          /\ Undisturbed(m, a) => ~ Later(observations[n][a], observations[m][a])

THEOREM MoreHeardMoreKnown == MeshSpec => []NotBehind
  <1>1. NewestKept => NotBehind
    <2> SUFFICES ASSUME NewestKept, NEW n \in Nodes, NEW m \in Nodes, NEW a \in Agents,
                        heard[n] \subseteq heard[m], observations[n][a] # NoObservation
                 PROVE  /\ observations[m][a] # NoObservation
                        /\ Undisturbed(m, a) =>
                              ~ Later(observations[n][a], observations[m][a])
      BY DEF NotBehind
    <2>1. observations[n][a] \in {o \in heard[n] : o.agent_id = a}
      BY DEF NewestKept
    <2>2. observations[n][a] \in {o \in heard[m] : o.agent_id = a}
      BY <2>1
    <2> QED BY <2>2 DEF NewestKept, Undisturbed
  <1> QED BY <1>1, NewestIsKept, PTL

\* And so receivers that have merged the same know the same agents, and where no
\* two of their threads met over an agent they agree on the time and the sequence
\* number of what they show of it: the merge converges without any coordination.
\* (Of two reports with one time and one number each keeps the one it got first.)
Agreed ==
    \A n, m \in Nodes, a \in Agents :
       heard[n] = heard[m] =>
          LET here == observations[n][a]
              there == observations[m][a]
          IN \/ here = NoObservation /\ there = NoObservation
             \/ /\ here # NoObservation /\ there # NoObservation
                /\ Undisturbed(n, a) /\ Undisturbed(m, a) =>
                      /\ here.observed_at = there.observed_at
                      /\ here.heartbeat_sequence = there.heartbeat_sequence

THEOREM ReceiversConverge == MeshSpec => []Agreed
  <1>1. GossipTypeOK /\ NotBehind => Agreed
    <2> SUFFICES ASSUME GossipTypeOK, NotBehind, NEW n \in Nodes, NEW m \in Nodes,
                        NEW a \in Agents, heard[n] = heard[m],
                        \/ observations[n][a] # NoObservation
                        \/ observations[m][a] # NoObservation
                 PROVE  /\ observations[n][a] # NoObservation
                        /\ observations[m][a] # NoObservation
                        /\ Undisturbed(n, a) /\ Undisturbed(m, a) =>
                              /\ observations[n][a].observed_at = observations[m][a].observed_at
                              /\ observations[n][a].heartbeat_sequence
                                    = observations[m][a].heartbeat_sequence
      BY DEF Agreed
    <2>1. observations[n][a] # NoObservation /\ observations[m][a] # NoObservation
      BY DEF NotBehind
    <2>2. ASSUME Undisturbed(n, a), Undisturbed(m, a)
          PROVE  /\ ~ Later(observations[n][a], observations[m][a])
                 /\ ~ Later(observations[m][a], observations[n][a])
      BY <2>1, <2>2 DEF NotBehind
    <2>3. observations[n][a] \in Observation /\ observations[m][a] \in Observation
      BY <2>1 DEF GossipTypeOK
    <2> QED BY <2>1, <2>2, <2>3 DEF Later, Observation
  <1>2. IInv => GossipTypeOK
    BY DEF IInv
  <1> QED BY <1>1, <1>2, MoreHeardMoreKnown, GossipInductive, MeshImplementsGossip, PTL

\* accept_gossip applies no two messages of one id within the TTL, except where one
\* thread looked its message up before another had recorded it, or a thread's prune
\* forgot an entry it had not found expired.
THEOREM OncePerWindow == MeshSpec => []AppliedOncePerWindow
  <1>1. IInv => AppliedOncePerWindow
    BY DEF IInv
  <1> QED BY <1>1, GossipInductive, MeshImplementsGossip, PTL

-----------------------------------------------------------------------------
(* The sender's records.  What a receipt says was done is still so: that an *)
(* envelope was applied in some life of its target is never undone.         *)

Arrived(d) == Target[d] \in Nodes /\ Message[d] \in ever_applied[Target[d]]

\* A message a node remembers is one it applied.
RememberedWasApplied ==
    \A n \in Nodes, id \in MessageIds :
       seen_messages[n][id] # NotSeen => seen_messages[n][id].digest \in ever_applied[n]

ReceiptsArrived == \A r \in receipts : Reached(r.outcome) => Arrived(r.delivery)

SendReportArrived ==
    send_report # NoReport =>
       \A d \in Deliveries :
          \/ Reached(send_report[d].outcome) \/ Reached(send_report[d].delivery_state_after)
          => Arrived(d)

RetryPlanArrived ==
    retry_plan # NoReport =>
       \A d \in Deliveries : Reached(retry_plan[d].delivery_state) => Arrived(d)

MeshInv == /\ MeshTypeOK /\ RememberedWasApplied /\ ReceiptsArrived /\ AcceptedWasApplied
           /\ SendReportArrived /\ RetryPlanArrived /\ HealthyRouteDelivered

LEMMA MeshStarts == MeshInit => MeshInv
  <1> SUFFICES ASSUME MeshInit PROVE MeshInv
    OBVIOUS
  <1>1. MeshTypeOK
    BY GossipInitOK DEF MeshInit, MeshTypeOK, IInv, Delivery, DELIVERY_STATES, Errors
  <1>2. RememberedWasApplied
    BY DEF MeshInit, GossipInit, RememberedWasApplied
  <1>3. ReceiptsArrived /\ SendReportArrived /\ RetryPlanArrived /\ HealthyRouteDelivered
    BY DEF MeshInit, ReceiptsArrived, SendReportArrived, RetryPlanArrived,
           HealthyRouteDelivered
  <1>4. AcceptedWasApplied
    BY DEF MeshInit, AcceptedWasApplied, Reached
  <1> QED BY <1>1, <1>2, <1>3, <1>4 DEF MeshInv

\* Whatever a receiver does, it does not take back that it applied an envelope.
LEMMA AppliedForGood ==
    ASSUME GossipTypeOK, [GossipNext]_gossipVars, NEW n \in Nodes
    PROVE  ever_applied[n] \subseteq ever_applied'[n]
  <1>1. CASE Tick \/ UNCHANGED gossipVars
    BY <1>1 DEF Tick, gossipVars, histories
  <1>2. ASSUME NEW h \in Handlers, Handle(h) PROVE ever_applied[n] \subseteq ever_applied'[n]
    <2>1. CASE Record(h)
      BY <2>1 DEF Record, GossipTypeOK
    <2>2. CASE Only(h) \/ Forget(h) \/ Compare(h) \/ Set(h)
      BY <2>2, OnlyChanges DEF Forget, Compare, Set
    <2> QED BY <1>2, <2>1, <2>2 DEF Handle, Only
  <1>3. ASSUME NEW m \in Nodes, Restart(m) PROVE ever_applied[n] \subseteq ever_applied'[n]
    BY <1>3 DEF Restart
  <1> QED BY <1>1, <1>2, <1>3 DEF GossipNext

LEMMA GossipKeepsRemembered ==
    ASSUME GossipTypeOK, RememberedWasApplied, [GossipNext]_gossipVars
    PROVE  RememberedWasApplied'
  <1> SUFFICES ASSUME NEW n \in Nodes, NEW id \in MessageIds, seen_messages'[n][id] # NotSeen
               PROVE  seen_messages'[n][id].digest \in ever_applied'[n]
    BY DEF RememberedWasApplied
  <1>1. ever_applied[n] \subseteq ever_applied'[n]
    BY AppliedForGood
  <1>2. CASE seen_messages'[n][id] = seen_messages[n][id]
    BY <1>1, <1>2 DEF RememberedWasApplied
  <1>3. CASE Tick \/ UNCHANGED gossipVars
    BY <1>2, <1>3 DEF Tick, gossipVars
  <1>4. ASSUME NEW h \in Handlers, Record(h)
        PROVE  seen_messages'[n][id].digest \in ever_applied'[n]
    <2>1. \A m \in Nodes, i \in MessageIds :
             seen_messages'[m][i] = IF m = handlers[h].node /\ i = handlers[h].request.message_id
                                    THEN [digest |-> handlers[h].request,
                                          accepted_at_seconds |-> clock]
                                    ELSE seen_messages[m][i]
      BY <1>4, RecordAdds
    <2>2. handlers[h].node \in Nodes
      BY <1>4, RecordAdds
    <2>3. handlers[h].request \in ever_applied'[handlers[h].node]
      BY <1>4, <2>2 DEF Record, GossipTypeOK
    <2> QED BY <1>2, <2>1, <2>3
  <1>5. ASSUME NEW h \in Handlers, Forget(h)
        PROVE  seen_messages'[n][id].digest \in ever_applied'[n]
    <2>1. PICK s \in handlers[h].expired :
             /\ handlers[h].node \in Nodes /\ s.digest.message_id \in MessageIds
             /\ \A m \in Nodes, i \in MessageIds :
                   m # handlers[h].node \/ i # s.digest.message_id =>
                      seen_messages'[m][i] = seen_messages[m][i]
             /\ seen_messages'[handlers[h].node][s.digest.message_id] = NotSeen
      BY <1>5, ForgetTakes
    <2> QED BY <1>2, <2>1
  <1>6. ASSUME NEW h \in Handlers, Handle(h), ~ Record(h), ~ Forget(h)
        PROVE  seen_messages' = seen_messages
    BY <1>6, OnlyChanges DEF Handle, Only, Compare, Set
  <1>7. ASSUME NEW m \in Nodes, Restart(m) PROVE seen_messages'[n][id].digest \in ever_applied'[n]
    BY <1>2, <1>7 DEF Restart, GossipTypeOK
  <1> QED BY <1>2, <1>3, <1>4, <1>5, <1>6, <1>7 DEF GossipNext

\* A step that leaves the sender's records alone, or only the receipts.
LEMMA ArrivedForGood ==
    ASSUME MeshTypeOK, [GossipNext]_gossipVars, NEW d \in Deliveries, Arrived(d)
    PROVE  Arrived(d)'
  BY AppliedForGood DEF Arrived, MeshTypeOK

LEMMA RecordsRest ==
    ASSUME MeshInv, [GossipNext]_gossipVars,
           UNCHANGED <<deliveries, send_report, retry_plan, route_health>>
    PROVE  /\ RememberedWasApplied' /\ AcceptedWasApplied' /\ SendReportArrived'
           /\ RetryPlanArrived' /\ HealthyRouteDelivered'
  <1> USE DEF MeshInv
  <1>1. RememberedWasApplied'
    BY GossipKeepsRemembered DEF MeshTypeOK
  <1>2. AcceptedWasApplied' /\ SendReportArrived' /\ RetryPlanArrived'
    BY ArrivedForGood DEF AcceptedWasApplied, SendReportArrived, RetryPlanArrived, Arrived,
                          Reached
  <1>3. HealthyRouteDelivered'
    <2> SUFFICES ASSUME route_health # NoReport, NEW n \in DOMAIN route_health,
                        route_health[n] = "healthy"
                 PROVE  \E d \in Deliveries : /\ Target[d] = n /\ n \in Nodes
                                              /\ Message[d] \in ever_applied'[n]
      BY DEF HealthyRouteDelivered
    <2>1. PICK d \in Deliveries : Target[d] = n /\ Arrived(d)
      BY DEF HealthyRouteDelivered, Arrived
    <2> QED BY <2>1, ArrivedForGood DEF Arrived
  <1> QED BY <1>1, <1>2, <1>3

LEMMA GossipKeepsRecords ==
    ASSUME MeshInv, [GossipNext]_gossipVars, GossipTypeOK', UNCHANGED deliveryVars
    PROVE  MeshInv'
  <1>1. MeshTypeOK'
    BY DEF MeshInv, MeshTypeOK, deliveryVars
  <1>2. ReceiptsArrived'
    BY ArrivedForGood DEF MeshInv, MeshTypeOK, ReceiptsArrived, deliveryVars, Reached, Receipt
  <1> QED BY <1>1, <1>2, RecordsRest DEF MeshInv, deliveryVars

LEMMA PostKeeps ==
    ASSUME MeshInv, NEW d \in Deliveries, Post(d), GossipTypeOK', [GossipNext]_gossipVars
    PROVE  MeshInv'
  <1> USE DEF MeshInv
  <1>1. PICK outcome \in Answers, h \in Handlers :
           /\ receipts' = receipts \cup
                 {[delivery |-> d, outcome |-> outcome, observed_at |-> clock]}
           /\ handlers[h].node = Target[d] /\ handlers[h].request = Message[d]
           /\ \/ outcome = "accepted" /\ Record(h)
              \/ outcome = "duplicate" /\ Repeats(h)
              \/ outcome = "rejected"
    BY DEF Post, Answers
  <1>2. Target[d] \in Nodes /\ Message[d] \in Envelopes
    BY DeliveryConstants DEF Post
  <1>3. MeshTypeOK'
    <2>1. [delivery |-> d, outcome |-> outcome, observed_at |-> clock] \in Receipt
      BY DEF Receipt, MeshTypeOK, GossipTypeOK
    <2> QED BY <2>1, <1>1 DEF Post, MeshTypeOK
  <1>4. Reached(outcome) => Arrived(d)'
    <2>1. CASE outcome = "accepted"
      BY <1>1, <1>2, <2>1 DEF Record, MeshTypeOK, GossipTypeOK, Arrived
    <2>2. CASE outcome = "duplicate"
      <3>1. LET seen == seen_messages[Target[d]][Message[d].message_id]
            IN seen # NotSeen /\ seen.digest = Message[d]
        BY <1>1, <2>2 DEF Repeats, IsRepeat, Previous
      <3>2. Message[d].message_id \in MessageIds
        BY <1>2, EnvelopeTypes
      <3>3. Arrived(d)
        BY <3>1, <3>2, <1>2 DEF RememberedWasApplied, Arrived
      <3> QED BY <3>3, ArrivedForGood
    <2>3. CASE outcome = "rejected"
      BY <2>3 DEF Reached
    <2> QED BY <2>1, <2>2, <2>3, <1>1
  <1>5. ReceiptsArrived'
    <2> SUFFICES ASSUME NEW r \in receipts', Reached(r.outcome) PROVE Arrived(r.delivery)'
      BY DEF ReceiptsArrived, Reached
    <2>1. CASE r \in receipts
      BY <2>1, ArrivedForGood DEF ReceiptsArrived, MeshTypeOK, Receipt
    <2>2. CASE r \notin receipts
      BY <2>2, <1>1, <1>4
    <2> QED BY <2>1, <2>2
  <1> QED BY <1>3, <1>5, RecordsRest DEF Post

-----------------------------------------------------------------------------
(* The tools.                                                              *)

LEMMA ExpiredTypes ==
    ASSUME MeshTypeOK, NEW d \in Deliveries, NEW at
    PROVE  /\ Expired(deliveries, at)[d] \in Delivery
           /\ Reached(Expired(deliveries, at)[d].state) => Reached(deliveries[d].state)
           /\ deliveries[d].state \in Answers => Expired(deliveries, at)[d] = deliveries[d]
  <1>1. deliveries[d] \in Delivery
    BY DEF MeshTypeOK
  <1>2. [deliveries[d] EXCEPT !.state = "expired", !.last_error = "expired"] \in Delivery
    BY <1>1 DEF Delivery, DELIVERY_STATES, Errors
  <1> QED BY <1>1, <1>2 DEF Expired, Reached, Answers, Delivery

LEMMA OutcomeTypes ==
    ASSUME NEW delivery \in Delivery, NEW outcome \in Answers \cup {"no_response"},
           NEW at \in Nat
    PROVE  /\ AfterOutcome(delivery, outcome, at) \in Delivery
           /\ outcome \in Answers =>
                 /\ AfterOutcome(delivery, outcome, at).state = outcome
                 /\ AfterOutcome(delivery, outcome, at).last_attempt_at = at
           /\ outcome = "no_response" =>
                 AfterOutcome(delivery, outcome, at).state = delivery.state
  <1> USE DEF AfterOutcome, Attempted, Answers, Delivery, DELIVERY_STATES, Errors
  <1>1. CASE outcome = "accepted"
    BY <1>1
  <1>2. CASE outcome = "duplicate"
    BY <1>2
  <1>3. CASE outcome = "rejected"
    BY <1>3
  <1>4. CASE outcome = "no_response"
    BY <1>4
  <1> QED BY <1>1, <1>2, <1>3, <1>4

LEMMA ApplyKeeps ==
    ASSUME MeshInv, NEW r \in receipts, Apply(r)
    PROVE  MeshInv'
  <1> USE DEF MeshInv
  <1>1. /\ r.delivery \in Deliveries /\ r.outcome \in Answers /\ r.observed_at \in Nat
    BY DEF MeshTypeOK, Receipt
  <1>2. /\ deliveries' = [deliveries EXCEPT ![r.delivery] =
                             AfterOutcome(@, r.outcome, r.observed_at)]
        /\ UNCHANGED <<gossipVars, receipts, send_report, retry_plan, route_health>>
    BY DEF Apply
  <1>3. deliveries[r.delivery] \in Delivery
    BY <1>1 DEF MeshTypeOK
  <1>4. /\ AfterOutcome(deliveries[r.delivery], r.outcome, r.observed_at) \in Delivery
        /\ AfterOutcome(deliveries[r.delivery], r.outcome, r.observed_at).state = r.outcome
    BY <1>1, <1>3, OutcomeTypes
  <1>5. MeshTypeOK'
    <2>1. deliveries' \in [Deliveries -> Delivery]
      BY <1>2, <1>4 DEF MeshTypeOK
    <2>2. runs' \in Nat
      BY DEF Apply, Run, MeshTypeOK
    <2> QED BY <1>2, <2>1, <2>2 DEF MeshTypeOK, GossipTypeOK, gossipVars, histories
  <1>6. AcceptedWasApplied'
    <2> SUFFICES ASSUME NEW d \in Deliveries, Reached(deliveries'[d].state)
                 PROVE  Arrived(d)
      BY <1>2 DEF AcceptedWasApplied, Arrived, Reached, gossipVars, histories
    <2>1. CASE d = r.delivery
      BY <2>1, <1>2, <1>4 DEF MeshTypeOK, ReceiptsArrived
    <2>2. CASE d # r.delivery
      BY <2>2, <1>2 DEF MeshTypeOK, AcceptedWasApplied, Arrived
    <2> QED BY <2>1, <2>2
  <1>7. /\ RememberedWasApplied' /\ ReceiptsArrived' /\ SendReportArrived'
        /\ RetryPlanArrived' /\ HealthyRouteDelivered'
    BY <1>2 DEF RememberedWasApplied, ReceiptsArrived, SendReportArrived, RetryPlanArrived,
                HealthyRouteDelivered, Arrived, Reached, gossipVars, histories
  <1> QED BY <1>5, <1>6, <1>7

LEMMA ExpireKeeps == MeshInv /\ Expire => MeshInv'
  <1> SUFFICES ASSUME MeshInv, Expire PROVE MeshInv'
    OBVIOUS
  <1> USE DEF MeshInv
  <1>0. PICK at : deliveries' = Expired(deliveries, at)
    BY DEF Expire
  <1>1. /\ deliveries' = Expired(deliveries, at)
        /\ UNCHANGED <<gossipVars, receipts, send_report, retry_plan, route_health>>
    BY <1>0 DEF Expire
  <1>2. MeshTypeOK'
    <2>1. deliveries' \in [Deliveries -> Delivery]
      <3>1. \A d \in Deliveries : deliveries'[d] \in Delivery
        BY <1>1, ExpiredTypes
      <3> QED BY <3>1, <1>1 DEF Expired
    <2>2. runs' \in Nat
      BY DEF Expire, Run, MeshTypeOK
    <2> QED BY <1>1, <2>1, <2>2 DEF MeshTypeOK, GossipTypeOK, gossipVars, histories
  <1>3. AcceptedWasApplied'
    BY <1>1, ExpiredTypes DEF AcceptedWasApplied, Reached, gossipVars, histories
  <1>4. /\ RememberedWasApplied' /\ ReceiptsArrived' /\ SendReportArrived'
        /\ RetryPlanArrived' /\ HealthyRouteDelivered'
    BY <1>1 DEF RememberedWasApplied, ReceiptsArrived, SendReportArrived, RetryPlanArrived,
                HealthyRouteDelivered, Arrived, Reached, gossipVars, histories
  <1> QED BY <1>2, <1>3, <1>4

LEMMA DispatchTypes ==
    ASSUME MeshTypeOK, NEW d \in Deliveries, NEW at
    PROVE  /\ DispatchDecision(d, at) \in DispatchDecisions
           /\ DispatchDecision(d, at) = "expired" <=> Expired(deliveries, at)[d].state = "expired"
           /\ DispatchDecision(d, at) = "skipped_terminal"
                 <=> Expired(deliveries, at)[d].state \in Answers
  <1> DEFINE state == Expired(deliveries, at)[d].state
  <1>1. state \in DELIVERY_STATES
    BY ExpiredTypes DEF Delivery
  <1> HIDE DEF state
  <1> USE DEF DispatchDecisions, Answers
  <1>2. CASE state = "expired"
    BY <1>2 DEF DispatchDecision, state
  <1>3. CASE state \in Answers
    BY <1>3 DEF DispatchDecision, state
  <1>4. CASE state = "pending"
    BY <1>4 DEF DispatchDecision, state
  <1> QED BY <1>1, <1>2, <1>3, <1>4 DEF DELIVERY_STATES, state

LEMMA RetryTypes ==
    ASSUME MeshTypeOK, NEW d \in Deliveries, NEW at
    PROVE  /\ RetryDecision(d, at) \in RetryDecisions
           /\ RetryDecision(d, at) = "expired" <=> Expired(deliveries, at)[d].state = "expired"
           /\ RetryDecision(d, at) = "terminal" <=> Expired(deliveries, at)[d].state \in Answers
  <1> DEFINE delivery == Expired(deliveries, at)[d]
  <1>1. delivery.state \in DELIVERY_STATES
    BY ExpiredTypes DEF Delivery
  <1> HIDE DEF delivery
  <1>2. RetryDecision(d, at) = RetryDecisionOf(delivery, at)
    BY DEF RetryDecision, delivery
  <1> USE DEF RetryDecisions, Answers, RetryDecisionOf
  <1>3. CASE delivery.state = "expired"
    BY <1>2, <1>3 DEF delivery
  <1>4. CASE delivery.state \in Answers
    BY <1>2, <1>4 DEF delivery
  <1>5. CASE delivery.state = "pending"
    BY <1>2, <1>5 DEF delivery
  <1> QED BY <1>1, <1>3, <1>4, <1>5 DEF DELIVERY_STATES

\* What a dry run writes: an outcome it reports as reaching the target stands in a
\* receipt, and a delivery that is over is left alone.
LEMMA SendKeeps == MeshInv /\ SendDryRun => MeshInv'
  <1>0. \A old \in Delivery, o \in Answers \cup {"no_response"}, t \in Nat :
           /\ AfterOutcome(old, o, t) \in Delivery
           /\ o \in Answers => AfterOutcome(old, o, t).state = o
           /\ o = "no_response" => AfterOutcome(old, o, t).state = old.state
    BY OutcomeTypes
  <1> SUFFICES ASSUME MeshInv, SendDryRun PROVE MeshInv'
    OBVIOUS
  <1> USE DEF MeshInv
  <1>1. PICK outcome \in [Deliveries -> Answers \cup {"no_response"}], at \in Times :
           /\ \A d \in Deliveries : outcome[d] \in Outcomes(d)
           /\ deliveries' = [d \in Deliveries |->
                                IF DispatchDecision(d, at) = "ready"
                                THEN AfterOutcome(Expired(deliveries, at)[d], outcome[d], at)
                                ELSE Expired(deliveries, at)[d]]
           /\ send_report' =
                [d \in Deliveries |->
                    [decision |-> DispatchDecision(d, at),
                     outcome |-> IF DispatchDecision(d, at) = "ready" THEN outcome[d]
                                 ELSE "not_sent",
                     delivery_state_after |-> deliveries'[d].state]]
    BY DEF SendDryRun
  <1>2. UNCHANGED <<gossipVars, receipts, retry_plan, route_health>> /\ runs' \in Nat
    BY DEF SendDryRun, Run, MeshTypeOK
  <1>3. \A d \in Deliveries :
           deliveries'[d] = IF DispatchDecision(d, at) = "ready"
                            THEN AfterOutcome(Expired(deliveries, at)[d], outcome[d], at)
                            ELSE Expired(deliveries, at)[d]
    BY <1>1
  <1>4. \A d \in Deliveries :
           LET after == AfterOutcome(Expired(deliveries, at)[d], outcome[d], at) IN
           /\ after \in Delivery
           /\ outcome[d] \in Answers => after.state = outcome[d]
           /\ outcome[d] = "no_response" => after.state = Expired(deliveries, at)[d].state
    <2> TAKE d \in Deliveries
    <2>1. /\ at \in Nat /\ outcome[d] \in Answers \cup {"no_response"}
          /\ Expired(deliveries, at)[d] \in Delivery
      BY ExpiredTypes, GossipConstants DEF Times
    <2> QED BY <1>0, <2>1
  <1>5. deliveries' \in [Deliveries -> Delivery]
    BY <1>1, <1>4, ExpiredTypes
  <1>6. send_report' \in [Deliveries -> SendAction]
    <2> SUFFICES ASSUME NEW d \in Deliveries
                 PROVE  [decision |-> DispatchDecision(d, at),
                         outcome |-> IF DispatchDecision(d, at) = "ready" THEN outcome[d]
                                     ELSE "not_sent",
                         delivery_state_after |-> deliveries'[d].state] \in SendAction
      BY <1>1
    <2>1. deliveries'[d].state \in DELIVERY_STATES
      BY <1>5 DEF Delivery
    <2> QED BY <2>1, DispatchTypes DEF SendAction
  <1>7. MeshTypeOK'
    BY <1>2, <1>5, <1>6 DEF MeshTypeOK, GossipTypeOK, gossipVars, histories
  <1>8. \A d \in Deliveries : Reached(outcome[d]) => Arrived(d)
    <2> SUFFICES ASSUME NEW d \in Deliveries, Reached(outcome[d]) PROVE Arrived(d)
      OBVIOUS
    <2>1. \E r \in receipts : r.delivery = d /\ r.outcome = outcome[d]
      BY <1>1 DEF Outcomes, Reached
    <2> QED BY <2>1 DEF ReceiptsArrived
  <1>9. \A d \in Deliveries : Reached(deliveries'[d].state) => Arrived(d)
    <2> SUFFICES ASSUME NEW d \in Deliveries, Reached(deliveries'[d].state)
                 PROVE  Arrived(d)
      OBVIOUS
    <2>1. Reached(Expired(deliveries, at)[d].state) => Arrived(d)
      BY ExpiredTypes DEF AcceptedWasApplied, Arrived
    <2>2. CASE DispatchDecision(d, at) # "ready"
      BY <2>1, <2>2, <1>3
    <2>3. CASE DispatchDecision(d, at) = "ready" /\ outcome[d] \in Answers
      <3>1. deliveries'[d].state = outcome[d]
        BY <2>3, <1>3, <1>4
      <3> QED BY <3>1, <1>8
    <2>4. CASE DispatchDecision(d, at) = "ready" /\ outcome[d] = "no_response"
      <3>1. deliveries'[d].state = Expired(deliveries, at)[d].state
        BY <2>4, <1>3, <1>4
      <3> QED BY <3>1, <2>1
    <2> QED BY <2>2, <2>3, <2>4
  <1>10. AcceptedWasApplied'
    BY <1>2, <1>9 DEF AcceptedWasApplied, Arrived, Reached, gossipVars, histories
  <1>11. SendReportArrived'
    <2> SUFFICES ASSUME NEW d \in Deliveries,
                        \/ Reached(send_report'[d].outcome)
                        \/ Reached(send_report'[d].delivery_state_after)
                 PROVE  Arrived(d)
      BY <1>2 DEF SendReportArrived, Arrived, Reached, gossipVars, histories
    <2>1. /\ send_report'[d].delivery_state_after = deliveries'[d].state
          /\ send_report'[d].outcome \in {outcome[d], "not_sent"}
      BY <1>1
    <2> QED BY <2>1, <1>8, <1>9 DEF Reached
  <1>12. /\ RememberedWasApplied' /\ ReceiptsArrived' /\ RetryPlanArrived'
         /\ HealthyRouteDelivered'
    BY <1>2 DEF RememberedWasApplied, ReceiptsArrived, RetryPlanArrived,
                HealthyRouteDelivered, Arrived, Reached, gossipVars, histories
  <1> QED BY <1>7, <1>10, <1>11, <1>12

LEMMA RetryPlanKeeps == MeshInv /\ RetryPlan => MeshInv'
  <1> SUFFICES ASSUME MeshInv, RetryPlan PROVE MeshInv'
    OBVIOUS
  <1> USE DEF MeshInv
  <1>0. PICK at : retry_plan' = [d \in Deliveries |->
                                    [decision |-> RetryDecision(d, at),
                                     delivery_state |-> Expired(deliveries, at)[d].state]]
    BY DEF RetryPlan
  <1>1. /\ retry_plan' = [d \in Deliveries |->
                             [decision |-> RetryDecision(d, at),
                              delivery_state |-> Expired(deliveries, at)[d].state]]
        /\ UNCHANGED <<gossipVars, deliveries, receipts, send_report, route_health>>
        /\ runs' \in Nat
    BY <1>0 DEF RetryPlan, Run, MeshTypeOK
  <1>2. retry_plan' \in [Deliveries -> Retry]
    BY <1>1, RetryTypes, ExpiredTypes DEF Retry, Delivery
  <1>3. MeshTypeOK'
    BY <1>1, <1>2 DEF MeshTypeOK, GossipTypeOK, gossipVars, histories
  <1>4. RetryPlanArrived'
    BY <1>1, ExpiredTypes DEF RetryPlanArrived, AcceptedWasApplied, Arrived, Reached,
                              gossipVars, histories
  <1>5. /\ RememberedWasApplied' /\ ReceiptsArrived' /\ AcceptedWasApplied'
        /\ SendReportArrived' /\ HealthyRouteDelivered'
    BY <1>1 DEF RememberedWasApplied, ReceiptsArrived, AcceptedWasApplied,
                SendReportArrived, HealthyRouteDelivered, Arrived, Reached, gossipVars, histories
  <1> QED BY <1>3, <1>4, <1>5

\* The last of some deliveries exists, since the file has a last one.
LEMMA LastExists ==
    ASSUME NEW about \in SUBSET Deliveries, about # {}
    PROVE  LET last == CHOOSE d \in about : \A f \in about : f <= d
           IN last \in about /\ \A f \in about : f <= last
  <1>1. PICK end \in Deliveries : \A d \in Deliveries : d <= end
    BY DeliveryConstants
  <1> DEFINE before == {end - d : d \in about}
             less == OpToRel(<, Nat)
  <1>2. about \subseteq Nat /\ end \in Nat
    BY DeliveryConstants
  <1>3. before \subseteq Nat /\ before # {}
    <2>1. ASSUME NEW d \in about PROVE end - d \in Nat
      BY <1>1, <1>2
    <2>2. \E x : x \in before
      OBVIOUS
    <2> QED BY <2>1, <2>2
  <1>4. PICK x \in before : \A y \in before : ~ <<y, x>> \in less
    BY <1>3, NatLessThanWellFounded, WFMin
  <1>5. \A y \in before : ~ y < x
    BY <1>3, <1>4 DEF OpToRel
  <1>6. PICK d \in about : x = end - d
    BY DEF before
  <1>7. \A f \in about : f <= d
    <2> SUFFICES ASSUME NEW f \in about PROVE f <= d
      OBVIOUS
    <2>1. ~ end - f < end - d
      BY <1>5, <1>6
    <2> QED BY <2>1, <1>2
  <1> QED BY <1>7

\* What latest_by_target finds is the entry of a delivery to that target.
LEMMA LatestIsOf ==
    ASSUME NEW report, NEW n, LatestFor(report, n) # NoReport
    PROVE  /\ report # NoReport
           /\ \E d \in Deliveries : Target[d] = n /\ LatestFor(report, n) = report[d]
  <1> DEFINE about == {d \in Deliveries : Target[d] = n}
  <1>1. report # NoReport /\ about # {}
    BY DEF LatestFor
  <1>2. LatestFor(report, n) = report[CHOOSE d \in about : \A f \in about : f <= d]
    BY <1>1 DEF LatestFor
  <1>3. (CHOOSE d \in about : \A f \in about : f <= d) \in about
    BY <1>1, LastExists
  <1> QED BY <1>1, <1>2, <1>3

LEMMA ActionStatus ==
    ASSUME NEW action \in SendAction, NEW retry
    PROVE  /\ status_from_action(action, retry) \in ROUTE_STATUSES
           /\ status_from_action(action, retry) = "healthy" =>
                 Reached(action.outcome) \/ Reached(action.delivery_state_after)
  <1>1. action.outcome \in {"accepted", "duplicate", "rejected", "no_response", "not_sent"}
    BY DEF SendAction, Answers
  <1> USE DEF status_from_action, ROUTE_STATUSES
  <1>2. CASE Reached(action.outcome)
    BY <1>2 DEF Reached
  <1>3. CASE action.outcome = "no_response"
    BY <1>3 DEF Reached
  <1>4. CASE action.outcome = "rejected"
    BY <1>4 DEF Reached
  <1>5. CASE action.outcome = "not_sent"
    BY <1>5 DEF Reached
  <1> QED BY <1>1, <1>2, <1>3, <1>4, <1>5 DEF Reached

LEMMA RetryStatus ==
    ASSUME NEW retry
    PROVE  /\ status_from_retry(retry) \in ROUTE_STATUSES
           /\ status_from_retry(retry) = "healthy" =>
                 retry # NoReport /\ Reached(retry.delivery_state)
  BY DEF status_from_retry, ROUTE_STATUSES

LEMMA HealthKeeps == MeshInv /\ RouteHealth => MeshInv'
  <1> SUFFICES ASSUME MeshInv, RouteHealth PROVE MeshInv'
    OBVIOUS
  <1> USE DEF MeshInv
  <1> DEFINE action(n) == LatestFor(send_report, n)
             retry(n) == LatestFor(retry_plan, n)
  <1>1. /\ route_health' =
             [n \in Configured |->
                 IF Route[n] = "disabled" THEN "disabled"
                 ELSE IF action(n) # NoReport THEN status_from_action(action(n), retry(n))
                 ELSE status_from_retry(retry(n))]
        /\ UNCHANGED <<gossipVars, deliveries, receipts, send_report, retry_plan>>
        /\ runs' \in Nat
    BY DEF RouteHealth, Run, MeshTypeOK
  <1>2. \A n \in Configured :
           action(n) # NoReport =>
              \E d \in Deliveries : /\ Target[d] = n /\ action(n) = send_report[d]
                                    /\ send_report # NoReport /\ action(n) \in SendAction
    BY LatestIsOf DEF MeshTypeOK
  <1>3. \A n \in Configured :
           retry(n) # NoReport =>
              \E d \in Deliveries : /\ Target[d] = n /\ retry(n) = retry_plan[d]
                                    /\ retry_plan # NoReport
    BY LatestIsOf
  <1> HIDE DEF action, retry
  <1>4. route_health' \in [Configured -> ROUTE_STATUSES]
    <2> SUFFICES ASSUME NEW n \in Configured
                 PROVE  route_health'[n] \in ROUTE_STATUSES
      BY <1>1
    <2>1. CASE Route[n] = "disabled"
      BY <2>1, <1>1 DEF ROUTE_STATUSES
    <2>2. CASE Route[n] # "disabled" /\ action(n) # NoReport
      BY <2>2, <1>1, <1>2, ActionStatus
    <2>3. CASE Route[n] # "disabled" /\ action(n) = NoReport
      BY <2>3, <1>1, RetryStatus
    <2> QED BY <2>1, <2>2, <2>3
  <1>5. MeshTypeOK'
    BY <1>1, <1>4 DEF MeshTypeOK, GossipTypeOK, gossipVars, histories
  <1>6. HealthyRouteDelivered'
    <2> SUFFICES ASSUME NEW n \in Configured, route_health'[n] = "healthy"
                 PROVE  \E d \in Deliveries : Target[d] = n /\ Arrived(d)
      BY <1>1 DEF HealthyRouteDelivered, Arrived, gossipVars, histories
    <2>1. Route[n] # "disabled"
      BY <1>1
    <2>2. CASE action(n) # NoReport
      <3>1. PICK d \in Deliveries : /\ Target[d] = n /\ action(n) = send_report[d]
                                    /\ send_report # NoReport /\ action(n) \in SendAction
        BY <2>2, <1>2
      <3>2. Reached(action(n).outcome) \/ Reached(action(n).delivery_state_after)
        BY <2>1, <2>2, <3>1, <1>1, ActionStatus
      <3> QED BY <3>1, <3>2 DEF SendReportArrived
    <2>3. CASE action(n) = NoReport
      <3>1. retry(n) # NoReport /\ Reached(retry(n).delivery_state)
        BY <2>1, <2>3, <1>1, RetryStatus
      <3> QED BY <3>1, <1>3 DEF RetryPlanArrived
    <2> QED BY <2>2, <2>3
  <1>7. /\ RememberedWasApplied' /\ ReceiptsArrived' /\ AcceptedWasApplied'
        /\ SendReportArrived' /\ RetryPlanArrived'
    BY <1>1 DEF RememberedWasApplied, ReceiptsArrived, AcceptedWasApplied,
                SendReportArrived, RetryPlanArrived, Arrived, Reached, gossipVars, histories
  <1> QED BY <1>5, <1>6, <1>7

-----------------------------------------------------------------------------
(* What holds of the sender's records.                                     *)

LEMMA MeshStepKeeps ==
    ASSUME MeshInv, IInv', [MeshNext]_meshVars
    PROVE  MeshInv'
  <1>1. GossipTypeOK' /\ [GossipNext]_gossipVars
    BY MeshStepIsGossipStep DEF IInv
  <1>2. CASE (GossipNext /\ UNCHANGED deliveryVars) \/ UNCHANGED meshVars
    BY <1>1, <1>2, GossipKeepsRecords DEF meshVars
  <1>3. ASSUME NEW d \in Deliveries, Post(d) PROVE MeshInv'
    BY <1>1, <1>3, PostKeeps
  <1>4. ASSUME NEW r \in receipts, Apply(r) PROVE MeshInv'
    BY <1>4, ApplyKeeps
  <1> QED BY <1>2, <1>3, <1>4, ExpireKeeps, SendKeeps, RetryPlanKeeps, HealthKeeps
          DEF MeshNext

\* The invariant of the sender's files beside any receivers: what a receipt, a
\* record or a report says has arrived, has.
THEOREM MeshInductive == MeshSpec => []MeshInv
  <1>1. MeshInv /\ IInv' /\ [MeshNext]_meshVars => MeshInv'
    BY MeshStepKeeps
  <1> QED BY <1>1, MeshStarts, GossipInductive, MeshImplementsGossip, PTL DEF MeshSpec

\* The files of the tools and the receivers' state keep their types.
THEOREM MeshTypeCorrect == MeshSpec => []MeshTypeOK
  <1>1. MeshInv => MeshTypeOK
    BY DEF MeshInv
  <1> QED BY <1>1, MeshInductive, PTL

\* A delivery recorded as accepted or as a duplicate has been merged by its target
\* (apply_receipt, run_dry_run), whatever was lost, repeated or applied late.
THEOREM RecordedMeansApplied == MeshSpec => []AcceptedWasApplied
  <1>1. MeshInv => AcceptedWasApplied
    BY DEF MeshInv
  <1> QED BY <1>1, MeshInductive, PTL

\* A route that build_route_health_report calls healthy has delivered, however old
\* the reports it was built from.
THEOREM HealthyMeansDelivered == MeshSpec => []HealthyRouteDelivered
  <1>1. MeshInv => HealthyRouteDelivered
    BY DEF MeshInv
  <1> QED BY <1>1, MeshInductive, PTL

\* build_dispatch_plan and build_retry_plan agree on what is over.
THEOREM PlansAgree == MeshSpec => []PlannersAgree
  <1>1. MeshTypeOK => PlannersAgree
    BY DispatchTypes, RetryTypes DEF PlannersAgree
  <1> QED BY <1>1, MeshTypeCorrect, PTL

\* No tool sends, expires or reopens an answered delivery: only another receipt
\* from its target changes it (apply_receipt has no guard on the state).
THEOREM AnsweredStaysUnsent == MeshSpec => AnsweredIsNotSent
  <1> DEFINE Kept(d) ==
         deliveries[d].state \in Answers /\ deliveries'[d] # deliveries[d] =>
             \E r \in receipts :
                /\ r.delivery = d /\ deliveries'[d].state = r.outcome
                /\ deliveries'[d].last_attempt_at = r.observed_at
  <1>1. MeshTypeOK /\ [MeshNext]_meshVars => [\A d \in Deliveries : Kept(d)]_meshVars
    <2> SUFFICES ASSUME MeshTypeOK, MeshNext, NEW d \in Deliveries,
                        deliveries[d].state \in Answers, deliveries'[d] # deliveries[d]
                 PROVE  \E r \in receipts :
                           /\ r.delivery = d /\ deliveries'[d].state = r.outcome
                           /\ deliveries'[d].last_attempt_at = r.observed_at
      OBVIOUS
    <2>1. ASSUME NEW r \in receipts, Apply(r)
          PROVE  /\ r.delivery = d /\ deliveries'[d].state = r.outcome
                 /\ deliveries'[d].last_attempt_at = r.observed_at
      <3>1. r.delivery = d /\ r.outcome \in Answers /\ r.observed_at \in Nat
        BY <2>1 DEF Apply, MeshTypeOK, Receipt
      <3>2. deliveries'[d] = AfterOutcome(deliveries[d], r.outcome, r.observed_at)
        BY <2>1, <3>1 DEF Apply, MeshTypeOK
      <3>3. deliveries[d] \in Delivery
        BY DEF MeshTypeOK
      <3> QED BY <3>1, <3>2, <3>3, OutcomeTypes
    <2>2. ~ Expire
      BY ExpiredTypes DEF Expire
    <2>3. ~ SendDryRun
      <3>1. \A at : /\ Expired(deliveries, at)[d] = deliveries[d]
                    /\ DispatchDecision(d, at) = "skipped_terminal"
        BY ExpiredTypes, DispatchTypes
      <3> QED BY <3>1 DEF SendDryRun
    <2> QED BY <2>1, <2>2, <2>3 DEF MeshNext, Post, RetryPlan, RouteHealth, deliveryVars
  <1> QED BY <1>1, MeshTypeCorrect, PTL DEF MeshSpec, AnsweredIsNotSent
=============================================================================
