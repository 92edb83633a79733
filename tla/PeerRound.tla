----------------------------- MODULE PeerRound -----------------------------
(***************************************************************************)
(* The peer mesh round, peer_mesh_round.py with the envelopes of           *)
(* peer_mesh_gossip.py: every node drops the envelope made from its        *)
(* heartbeat into the inboxes of the nodes it has a link to, the nodes     *)
(* relay what they were sent in a number of passes, and in the end every   *)
(* node merges its inbox into a summary.                                   *)
(*                                                                         *)
(* An envelope is the way it has come, newest step first: who sent it and  *)
(* in which pass; the last step is the agent that its heartbeat is of.     *)
(* Its message id is put together in the same order, so an id and a way    *)
(* are the same thing.  A heartbeat has one observation, and the same one  *)
(* in every copy: is_newer never prefers a later copy.                     *)
(***************************************************************************)
EXTENDS Integers, Sequences, FiniteSets

CONSTANTS Agents,      \* numbers, in the order of the agents' names
          LinkSets,    \* the sets of links that scenarios may have
          BeatSets,    \* the sets of agents with a heartbeat
          Ttls,        \* max_hop_ttl
          PassCounts,  \* relay_passes
          NameLengths  \* how many steps of an id a file name has room for

ASSUME RoundAssumption ==
  /\ Agents \subseteq Nat
  /\ Ttls \subseteq 0 .. 8 /\ PassCounts \subseteq 0 .. 4
  /\ NameLengths \subseteq Nat \ {0}

VARIABLES scenario,    \* the scenario file
          inbox,       \* the files in the nodes' inboxes
          pass,        \* passes done; -1: nothing is written yet
          overwritten, \* whether a file of an inbox was written over by another
          summary      \* what each node knows in the end: of whom, and from whom

roundVars == <<scenario, inbox, pass, overwritten, summary>>

\* validate_scenario and require_agent_list
Scenarios ==
  {s \in [links : LinkSets, beats : BeatSets, max_hop_ttl : Ttls, relay_passes : PassCounts,
          name_length : NameLengths] :
     /\ s.links \subseteq Agents \X Agents /\ \A l \in s.links : l[1] # l[2]
     /\ s.beats \subseteq Agents /\ s.beats # {}}

RoundInit ==
  /\ scenario \in Scenarios
  /\ inbox = {} /\ pass = -1 /\ overwritten = FALSE
  /\ summary = [n \in Agents |-> <<>>]

---------------------------------------------------------------------------
(* Envelopes and their files.                                              *)

Step(by, p) == [by |-> by, pass |-> p]

\* envelope_from_heartbeat
FromHeartbeat(a) == <<Step(a, 0)>>

\* relay_envelope, with the message id that simulate_round gives it
Relayed(way, by, p) == <<Step(by, p)>> \o way

sender_agent_id(way) == way[1].by
Origin(way) == way[Len(way)].by
hop_ttl(way) == scenario.max_hop_ttl - (Len(way) - 1)

\* envelope_file: "self" sorts after "relay-pass-4", "direct" before "relay-pass-1".
SelfKind == 9
File(kind, source, target, way) ==
  [kind |-> kind, source |-> source, target |-> target, way |-> way]

\* safe_file_part keeps the beginning of an id: the newest steps.
safe_file_part(way) ==
  IF Len(way) <= scenario.name_length THEN way ELSE SubSeq(way, 1, scenario.name_length)

Name(f) == <<f.kind, f.source, f.target, safe_file_part(f.way)>>

\* write_json: of the files that have one name the last one written stays; which
\* one that is depends on how their names in the sender's inbox sort.
Survivors(files) ==
  {CHOOSE f \in files : Name(f) = name : name \in {Name(f) : f \in files}}

Write(files) ==
  /\ inbox' = inbox \cup Survivors(files)
  /\ overwritten' = (overwritten \/ Survivors(files) # files)

---------------------------------------------------------------------------
(* simulate_round.                                                         *)

\* An agent without a heartbeat has no envelope of its own to deliver.
Deliver ==
  /\ pass = -1
  /\ Write({File(SelfKind, a, a, FromHeartbeat(a)) : a \in scenario.beats}
           \cup {File(0, l[1], l[2], FromHeartbeat(l[1])) :
                   l \in {k \in scenario.links : k[1] \in scenario.beats}})
  /\ pass' = 0
  /\ UNCHANGED <<scenario, summary>>

\* With a bug: an envelope that has used up its hops is relayed once more.
ForwardableOnceMore(f) == sender_agent_id(f.way) # f.target /\ hop_ttl(f.way) >= 0

\* A node does not relay its own envelope, nor one that has used up its hops.
Forwardable(f) == sender_agent_id(f.way) # f.target /\ hop_ttl(f.way) > 0

\* The nodes relay from a snapshot of the inboxes.
RelayPass ==
  /\ pass >= 0 /\ pass < scenario.relay_passes /\ summary = [n \in Agents |-> <<>>]
  /\ pass' = pass + 1
  /\ Write(UNION {{File(pass', l[1], l[2], Relayed(f.way, l[1], pass')) :
                     f \in {g \in inbox : g.target = l[1] /\ Forwardable(g)}} :
                  l \in scenario.links})
  /\ UNCHANGED <<scenario, summary>>

\* inbox_envelopes: in the order of the file names.
Before(f, g) == f.kind < g.kind \/ (f.kind = g.kind /\ f.source <= g.source)

\* With a bug: an observation that is as new as the known one replaces it.
MergedLast(files) == CHOOSE f \in files : \A g \in files : Before(g, f)

\* merge_envelope, is_newer: the first copy of an observation is kept.
Merged(files) == CHOOSE f \in files : \A g \in files : Before(f, g)

About(n, a) == {f \in inbox : f.target = n /\ Origin(f.way) = a}

\* summarize_node for every node: heard_from_agent_id of each agent it knows.
Summarize ==
  /\ pass = scenario.relay_passes
  /\ summary' = [n \in Agents |->
                   [a \in {b \in Agents : About(n, b) # {}} |-> Merged(About(n, a)).source]]
  /\ UNCHANGED <<scenario, inbox, pass, overwritten>>

RoundNext == Deliver \/ RelayPass \/ Summarize

RoundSpec == RoundInit /\ [][RoundNext]_roundVars

---------------------------------------------------------------------------
(* Properties.                                                             *)

\* What is in an inbox has come along links, over no more hops than the envelope
\* and the passes allow, in ever later passes, from an agent with a heartbeat.
OnlyAlongLinks ==
  \A f \in inbox : LET w == f.way IN
    /\ Len(w) - 1 <= scenario.max_hop_ttl
    /\ Origin(w) \in scenario.beats
    /\ f.kind # SelfKind => <<w[1].by, f.target>> \in scenario.links
    /\ \A i \in 1 .. Len(w) - 1 : /\ <<w[i + 1].by, w[i].by>> \in scenario.links
                                  /\ w[i + 1].pass < w[i].pass
    /\ w[1].pass <= pass

\* The pairs of agents that are at most k links apart.
Hops[k \in 0 .. 9] ==
  IF k = 0 THEN {<<a, a>> : a \in Agents}
  ELSE Hops[k - 1] \cup
       {p \in Agents \X Agents : \E b \in Agents : <<p[1], b>> \in Hops[k - 1]
                                                   /\ <<b, p[2]>> \in scenario.links}

\* In the end every node knows exactly of the agents within reach, each of them
\* from a node that is on a shortest way, unless files were written over.
HeardOverShortestWay ==
  /\ summary # [n \in Agents |-> <<>>]
  /\ ~overwritten
  => LET relays == IF scenario.max_hop_ttl < scenario.relay_passes
                   THEN scenario.max_hop_ttl ELSE scenario.relay_passes
         reach == 1 + relays
     IN \A n \in Agents : \A a \in scenario.beats \ {n} :
          /\ a \in DOMAIN summary[n] <=> <<a, n>> \in Hops[reach]
          /\ a \in DOMAIN summary[n] =>
               \E d \in 1 .. reach :
                 /\ <<a, n>> \in Hops[d] \ Hops[d - 1]
                 /\ <<a, summary[n][a]>> \in Hops[d - 1]
                 /\ <<summary[n][a], n>> \in scenario.links
=============================================================================
