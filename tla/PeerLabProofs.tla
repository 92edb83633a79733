---------------------------- MODULE PeerLabProofs ----------------------------
(***************************************************************************)
(* What the rounds, the file drop, the private chain and the report        *)
(* pipeline of the peer mesh keep, each proved of its own specification,   *)
(* and that each behaves as its own specification says in the composition  *)
(* of PeerLab.                                                             *)
(***************************************************************************)
EXTENDS PeerLab, WellFoundedInduction, TLAPS

---------------------------------------------------------------------------
(***************************************************************************)
(* What a round of the peer mesh leaves in the inboxes has come along      *)
(* links and within its hops, for every set of agents and links and every  *)
(* number of passes, also when files are written over.                     *)
(***************************************************************************)
Steps == [by : Agents, pass : Nat]

\* A file is of an envelope with at least one step, and the sender of an envelope
\* in its own inbox is the agent itself.
FileTyped(f) ==
  /\ f.way \in Seq(Steps) /\ f.way # <<>>
  /\ f.kind = SelfKind => sender_agent_id(f.way) = f.target

\* The way of a file that is in an inbox after p passes.
AlongLinks(f, p) ==
  LET w == f.way IN
    /\ Len(w) - 1 <= scenario.max_hop_ttl
    /\ Origin(w) \in scenario.beats
    /\ f.kind # SelfKind => <<w[1].by, f.target>> \in scenario.links
    /\ \A i \in 1 .. Len(w) - 1 : /\ <<w[i + 1].by, w[i].by>> \in scenario.links
                                  /\ w[i + 1].pass < w[i].pass
    /\ w[1].pass <= p

RoundTyped == scenario \in Scenarios /\ pass \in Int /\ pass >= -1 /\ pass <= scenario.relay_passes

RoundInv == RoundTyped /\ \A f \in inbox : FileTyped(f) /\ AlongLinks(f, pass)

---------------------------------------------------------------------------

\* Of the files that have one name one of them is kept.
LEMMA SurvivorsAreFiles ==
    ASSUME NEW files PROVE Survivors(files) \subseteq files
  <1> SUFFICES ASSUME NEW g \in Survivors(files) PROVE g \in files
    OBVIOUS
  <1>1. PICK name \in {Name(f) : f \in files} : g = CHOOSE f \in files : Name(f) = name
    BY DEF Survivors
  <1>2. \E f \in files : Name(f) = name
    BY <1>1
  <1> QED BY <1>1, <1>2

LEMMA ScenarioTypes ==
    ASSUME RoundTyped
    PROVE  /\ scenario.links \subseteq Agents \X Agents /\ scenario.beats \subseteq Agents
           /\ scenario.max_hop_ttl \in Nat /\ scenario.relay_passes \in 0 .. 4
  <1>1. /\ scenario \in [links : LinkSets, beats : BeatSets, max_hop_ttl : Ttls,
                         relay_passes : PassCounts, name_length : NameLengths]
        /\ scenario.links \subseteq Agents \X Agents /\ scenario.beats \subseteq Agents
    BY DEF RoundTyped, Scenarios
  <1>2. scenario.max_hop_ttl \in Ttls /\ scenario.relay_passes \in PassCounts
    BY <1>1
  <1>3. scenario.max_hop_ttl \in 0 .. 8
    BY <1>2, RoundAssumption
  <1>4. scenario.relay_passes \in 0 .. 4
    BY <1>2, RoundAssumption
  <1> QED BY <1>1, <1>3, <1>4

\* What is written joins the inboxes if all of it has come along links.
LEMMA WriteKeeps ==
    ASSUME RoundInv, NEW files, Write(files), scenario' = scenario, pass' = pass + 1,
           RoundTyped', \A f \in files : FileTyped(f) /\ AlongLinks(f, pass')
    PROVE  RoundInv'
  <1>1. inbox' \subseteq inbox \cup files
    BY SurvivorsAreFiles DEF Write
  <1>2. ASSUME NEW f \in inbox PROVE AlongLinks(f, pass')
    <2>1. f.way[1].pass \in Nat /\ AlongLinks(f, pass)
      <3>1. f.way \in Seq(Steps) /\ f.way # <<>>
        BY DEF RoundInv, FileTyped
      <3>2. f.way[1] \in Steps
        BY <3>1
      <3> QED BY <3>2 DEF Steps, RoundInv
    <2> QED BY <2>1 DEF AlongLinks, RoundInv, RoundTyped
  <1>3. \A f \in inbox' : FileTyped(f) /\ AlongLinks(f, pass')
    BY <1>1, <1>2 DEF RoundInv
  <1>4. \A f \in inbox' : FileTyped(f)' /\ AlongLinks(f, pass)'
    BY <1>3 DEF FileTyped, AlongLinks
  <1> QED BY <1>4 DEF RoundInv

LEMMA DeliverKeeps == RoundInv /\ Deliver => RoundInv'
  <1> SUFFICES ASSUME RoundInv, Deliver PROVE RoundInv'
    OBVIOUS
  <1> DEFINE selves == {File(SelfKind, a, a, FromHeartbeat(a)) : a \in scenario.beats}
             directs == {File(0, l[1], l[2], FromHeartbeat(l[1])) :
                           l \in {k \in scenario.links : k[1] \in scenario.beats}}
  <1>1. pass = -1 /\ pass' = 0 /\ scenario' = scenario /\ Write(selves \cup directs)
    BY DEF Deliver
  <1>2. RoundTyped' /\ pass' = pass + 1
    BY <1>1, ScenarioTypes DEF RoundInv, RoundTyped
  <1>3. ASSUME NEW a \in scenario.beats
        PROVE  /\ FromHeartbeat(a) \in Seq(Steps) /\ FromHeartbeat(a) # <<>>
               /\ Len(FromHeartbeat(a)) = 1 /\ FromHeartbeat(a)[1].by = a
               /\ FromHeartbeat(a)[1].pass = 0 /\ Origin(FromHeartbeat(a)) = a
    <2>1. a \in Agents
      BY ScenarioTypes DEF RoundInv
    <2> QED BY <2>1 DEF FromHeartbeat, Step, Steps, Origin
  <1>4. \A f \in selves : FileTyped(f) /\ AlongLinks(f, pass')
    <2> SUFFICES ASSUME NEW a \in scenario.beats
                 PROVE  LET f == File(SelfKind, a, a, FromHeartbeat(a))
                        IN  FileTyped(f) /\ AlongLinks(f, pass')
      OBVIOUS
    <2> DEFINE f == File(SelfKind, a, a, FromHeartbeat(a))
    <2>1. f.way = FromHeartbeat(a) /\ f.kind = SelfKind /\ f.target = a
      BY DEF File
    <2>2. FileTyped(f)
      BY <1>3, <2>1 DEF FileTyped, sender_agent_id
    <2>3. scenario.max_hop_ttl \in Nat /\ pass' = 0
      BY <1>1, ScenarioTypes DEF RoundInv
    <2>4. AlongLinks(f, pass')
      <3> DEFINE w == FromHeartbeat(a)
      <3>1. Len(w) = 1 /\ w[1].pass = 0 /\ Origin(w) = a
        BY <1>3
      <3> HIDE DEF w
      <3>2. Len(w) - 1 <= scenario.max_hop_ttl /\ Origin(w) \in scenario.beats /\ w[1].pass <= pass'
        BY <3>1, <2>3
      <3>3. 1 .. Len(w) - 1 = {}
        BY <3>1
      <3> QED BY <2>1, <3>2, <3>3 DEF AlongLinks, w
    <2> QED BY <2>2, <2>4
  <1>5. \A f \in directs : FileTyped(f) /\ AlongLinks(f, pass')
    <2> SUFFICES ASSUME NEW l \in scenario.links, l[1] \in scenario.beats
                 PROVE  LET f == File(0, l[1], l[2], FromHeartbeat(l[1]))
                        IN  FileTyped(f) /\ AlongLinks(f, pass')
      OBVIOUS
    <2> DEFINE f == File(0, l[1], l[2], FromHeartbeat(l[1]))
    <2>1. l = <<l[1], l[2]>> /\ scenario.max_hop_ttl \in Nat /\ pass' = 0
      BY <1>1, ScenarioTypes DEF RoundInv
    <2>2. f.way = FromHeartbeat(l[1]) /\ f.kind # SelfKind /\ f.target = l[2]
      BY DEF File, SelfKind
    <2>3. FileTyped(f)
      BY <1>3, <2>2 DEF FileTyped
    <2>4. AlongLinks(f, pass')
      <3> DEFINE w == FromHeartbeat(l[1])
      <3>1. Len(w) = 1 /\ w[1].pass = 0 /\ w[1].by = l[1] /\ Origin(w) = l[1]
        BY <1>3
      <3> HIDE DEF w
      <3>2. /\ Len(w) - 1 <= scenario.max_hop_ttl /\ Origin(w) \in scenario.beats
            /\ w[1].pass <= pass' /\ <<w[1].by, l[2]>> \in scenario.links
        BY <3>1, <2>1
      <3>3. 1 .. Len(w) - 1 = {}
        BY <3>1
      <3> QED BY <2>2, <3>2, <3>3 DEF AlongLinks, w
    <2> QED BY <2>3, <2>4
  <1> QED BY <1>1, <1>2, <1>4, <1>5, WriteKeeps

\* A node's relaying lengthens the way by a step of its own.
LEMMA RelayedIsLonger ==
    ASSUME NEW way \in Seq(Steps), way # <<>>, NEW by \in Agents, NEW p \in Nat
    PROVE  /\ Relayed(way, by, p) \in Seq(Steps) /\ Relayed(way, by, p) # <<>>
           /\ Len(Relayed(way, by, p)) = Len(way) + 1
           /\ Relayed(way, by, p)[1] = Step(by, p)
           /\ \A i \in 1 .. Len(way) : Relayed(way, by, p)[i + 1] = way[i]
           /\ Origin(Relayed(way, by, p)) = Origin(way)
  <1>1. <<Step(by, p)>> \in Seq(Steps) /\ Len(<<Step(by, p)>>) = 1
    BY DEF Step, Steps
  <1>2. /\ Relayed(way, by, p) \in Seq(Steps)
        /\ Len(Relayed(way, by, p)) = Len(way) + 1
        /\ Relayed(way, by, p)[1] = Step(by, p)
        /\ \A i \in 1 .. Len(way) : Relayed(way, by, p)[i + 1] = way[i]
    BY <1>1 DEF Relayed
  <1>3. Len(way) \in Nat /\ Len(way) >= 1
    OBVIOUS
  <1>4. Relayed(way, by, p)[Len(way) + 1] = way[Len(way)]
    BY <1>2, <1>3
  <1> QED BY <1>2, <1>3, <1>4 DEF Origin

LEMMA RelayKeeps == RoundInv /\ RelayPass => RoundInv'
  <1> SUFFICES ASSUME RoundInv, RelayPass PROVE RoundInv'
    OBVIOUS
  <1> DEFINE new(l, g) == File(pass', l[1], l[2], Relayed(g.way, l[1], pass'))
             files == UNION {{new(l, f) : f \in {g \in inbox : g.target = l[1] /\ Forwardable(g)}} :
                               l \in scenario.links}
  <1>1. /\ pass >= 0 /\ pass < scenario.relay_passes /\ pass' = pass + 1 /\ scenario' = scenario
        /\ Write(files)
    BY DEF RelayPass
  <1>2. RoundTyped'
    BY <1>1, ScenarioTypes DEF RoundInv, RoundTyped
  <1>3. pass \in Nat /\ pass' \in Nat /\ pass' # SelfKind
    BY <1>1, ScenarioTypes DEF RoundInv, RoundTyped, SelfKind
  <1>4. ASSUME NEW l \in scenario.links, NEW g \in inbox, g.target = l[1], Forwardable(g)
        PROVE  FileTyped(new(l, g)) /\ AlongLinks(new(l, g), pass')
    <2> DEFINE w == Relayed(g.way, l[1], pass')
    <2>1. l[1] \in Agents /\ l = <<l[1], l[2]>>
      BY ScenarioTypes DEF RoundInv
    <2>2. g.way \in Seq(Steps) /\ g.way # <<>> /\ AlongLinks(g, pass)
      BY DEF RoundInv, FileTyped
    <2>3. /\ w \in Seq(Steps) /\ w # <<>> /\ Len(w) = Len(g.way) + 1 /\ w[1] = Step(l[1], pass')
          /\ \A i \in 1 .. Len(g.way) : w[i + 1] = g.way[i]
          /\ Origin(w) = Origin(g.way)
      BY <1>3, <2>1, <2>2, RelayedIsLonger
    <2>4. /\ new(l, g).way = w /\ new(l, g).kind = pass' /\ new(l, g).target = l[2]
      BY DEF File
    <2>5. FileTyped(new(l, g))
      BY <1>3, <2>3, <2>4 DEF FileTyped
    <2>6. Len(w) - 1 <= scenario.max_hop_ttl
      <3>1. hop_ttl(g.way) > 0 /\ scenario.max_hop_ttl \in Nat
        BY <1>4, ScenarioTypes DEF Forwardable, RoundInv
      <3>2. Len(g.way) \in Nat
        BY <2>2
      <3> QED BY <2>3, <3>1, <3>2 DEF hop_ttl
    <2>7. <<g.way[1].by, l[1]>> \in scenario.links
      BY <1>4, <2>2 DEF Forwardable, RoundInv, FileTyped, AlongLinks, sender_agent_id
    <2>8. g.way[1].pass \in Nat /\ g.way[1].pass <= pass
      <3>1. g.way[1] \in Steps
        BY <2>2
      <3> QED BY <2>2, <3>1 DEF AlongLinks, Steps
    <2>9. ASSUME NEW i \in 1 .. Len(w) - 1
          PROVE  <<w[i + 1].by, w[i].by>> \in scenario.links /\ w[i + 1].pass < w[i].pass
      <3>1. CASE i = 1
        <4>1. w[2] = g.way[1] /\ w[1].by = l[1] /\ w[1].pass = pass + 1
          BY <1>1, <2>2, <2>3 DEF Step
        <4> QED BY <1>3, <3>1, <4>1, <2>7, <2>8
      <3>2. CASE i # 1
        <4>1. Len(g.way) \in Nat /\ Len(w) - 1 = Len(g.way)
          BY <2>2, <2>3
        <4>2. i - 1 \in 1 .. Len(g.way) - 1 /\ i \in 1 .. Len(g.way) /\ i - 1 \in 1 .. Len(g.way)
          BY <3>2, <4>1
        <4>3. w[i + 1] = g.way[i] /\ w[(i - 1) + 1] = g.way[i - 1]
          BY <2>3, <4>2
        <4>4. w[i] = g.way[i - 1] /\ g.way[(i - 1) + 1] = g.way[i]
          BY <4>2, <4>3
        <4> QED BY <2>2, <4>2, <4>3, <4>4 DEF AlongLinks
      <3> QED BY <3>1, <3>2
    <2>10. w[1].pass <= pass' /\ w[1].by = l[1]
      BY <1>3, <2>3 DEF Step
    <2> QED BY <2>1, <2>2, <2>3, <2>4, <2>5, <2>6, <2>9, <2>10 DEF AlongLinks
  <1>5. \A f \in files : FileTyped(f) /\ AlongLinks(f, pass')
    BY <1>4
  <1> QED BY <1>1, <1>2, <1>5, WriteKeeps

LEMMA RoundStarts == RoundInit => RoundInv
  <1> SUFFICES ASSUME RoundInit PROVE RoundInv
    OBVIOUS
  <1>1. scenario \in Scenarios /\ inbox = {} /\ pass = -1
    BY DEF RoundInit
  <1>2. scenario.relay_passes \in PassCounts
    BY <1>1 DEF Scenarios
  <1>3. scenario.relay_passes \in 0 .. 4
    BY <1>2, RoundAssumption
  <1> QED BY <1>1, <1>3 DEF RoundInv, RoundTyped

LEMMA RoundRests == RoundInv /\ (Summarize \/ UNCHANGED roundVars) => RoundInv'
  <1> SUFFICES ASSUME RoundInv, UNCHANGED <<scenario, inbox, pass>> PROVE RoundInv'
    BY DEF Summarize, roundVars
  <1> QED BY DEF RoundInv, RoundTyped, FileTyped, AlongLinks

---------------------------------------------------------------------------

\* Deliveries, relay passes and summaries keep the invariant.
THEOREM RoundInductive == RoundSpec => []RoundInv
  <1>1. RoundInv /\ [RoundNext]_roundVars => RoundInv'
    BY DeliverKeeps, RelayKeeps, RoundRests DEF RoundNext
  <1> QED BY <1>1, RoundStarts, PTL DEF RoundSpec

\* Nothing is in an inbox that did not come along links within its hops.
THEOREM AlongLinksOnly == RoundSpec => []OnlyAlongLinks
  <1>1. RoundInv => OnlyAlongLinks
    BY DEF RoundInv, OnlyAlongLinks, AlongLinks
  <1> QED BY <1>1, RoundInductive, PTL

---------------------------------------------------------------------------
(***************************************************************************)
(* In the end every peer knows exactly of the agents within reach, each    *)
(* from a peer on a shortest way: the envelope that came over d links is   *)
(* in the inbox from pass d - 1 on, and none comes sooner.                 *)
(***************************************************************************)

\* Hops is a recursive function: its steps, and that it has them.
Here == {<<a, a>> : a \in Agents}
Wider(near) == near \cup {p \in Agents \X Agents : \E b \in Agents : <<p[1], b>> \in near
                                                   /\ <<b, p[2]>> \in scenario.links}

\* The agents a and n are d links apart, and no fewer.
Apart(a, n, d) == <<a, n>> \in Hops[d] \ Hops[d - 1]

\* How often an envelope may have been relayed in p passes.
Relays(p) == IF scenario.max_hop_ttl < p THEN scenario.max_hop_ttl ELSE p

\* Where the way of a file tells that it has been, in p passes.
CameFar(f, p) ==
  IF f.kind = SelfKind THEN f.target = Origin(f.way)
  ELSE /\ f.source = sender_agent_id(f.way)
       /\ f.kind \in 0 .. p /\ Len(f.way) - 1 <= f.kind
       /\ <<Origin(f.way), f.source>> \in Hops[Len(f.way) - 1]

\* A file by which n hears of a, over d links and in as few passes.
HeardBy(f, a, n, d) == f.target = n /\ Origin(f.way) = a /\ f.kind = d - 1 /\ Len(f.way) = d

Heard(files, p) ==
  \A a \in scenario.beats, n \in Agents : \A d \in 1 .. 1 + Relays(p) :
    Apart(a, n, d) => \E f \in files : HeardBy(f, a, n, d)

Known == [n \in Agents |->
            [a \in {b \in Agents : About(n, b) # {}} |-> Merged(About(n, a)).source]]

SummaryKnown == summary # [n \in Agents |-> <<>>] => pass = scenario.relay_passes /\ summary = Known

FloodInv == /\ RoundInv
            /\ \A f \in inbox : CameFar(f, pass)
            /\ ~overwritten => Heard(inbox, pass)
            /\ SummaryKnown

---------------------------------------------------------------------------

\* Of some numbers one is the least.
LEMMA LeastNumber ==
    ASSUME NEW T \in SUBSET Nat, T # {}
    PROVE  \E m \in T : \A k \in T : m <= k
  <1> DEFINE less == OpToRel(<, Nat)
  <1>1. PICK m \in T : \A k \in T : ~ <<k, m>> \in less
    BY NatLessThanWellFounded, WFMin
  <1>2. \A k \in T : ~ k < m
    BY <1>1 DEF OpToRel
  <1>3. \A k \in T : k \in Nat /\ m \in Nat
    OBVIOUS
  <1>4. \A k \in T : m <= k
    BY <1>2, <1>3
  <1> QED BY <1>4

\* What is some links apart stays so.
LEMMA HopsSame == ASSUME scenario' = scenario PROVE Hops' = Hops
  BY DEF Hops

\* The nine steps written out satisfy the definition.
LEMMA HopsExist ==
    \E g : g = [k \in 0 .. 9 |-> IF k = 0 THEN Here ELSE Wider(g[k - 1])]
  <1> DEFINE h1 == Wider(Here)
             h2 == Wider(h1)
             h3 == Wider(h2)
             h4 == Wider(h3)
             h5 == Wider(h4)
             h6 == Wider(h5)
             h7 == Wider(h6)
             h8 == Wider(h7)
             h9 == Wider(h8)
             g == [k \in 0 .. 9 |-> CASE k = 0 -> Here [] k = 1 -> h1 [] k = 2 -> h2 [] k = 3 -> h3
                                      [] k = 4 -> h4 [] k = 5 -> h5 [] k = 6 -> h6 [] k = 7 -> h7
                                      [] k = 8 -> h8 [] k = 9 -> h9]
  <1>1. /\ g[0] = Here /\ g[1] = h1 /\ g[2] = h2 /\ g[3] = h3 /\ g[4] = h4 /\ g[5] = h5
        /\ g[6] = h6 /\ g[7] = h7 /\ g[8] = h8 /\ g[9] = h9
    OBVIOUS
  <1>2. /\ h1 = Wider(Here) /\ h2 = Wider(h1) /\ h3 = Wider(h2) /\ h4 = Wider(h3)
        /\ h5 = Wider(h4) /\ h6 = Wider(h5) /\ h7 = Wider(h6) /\ h8 = Wider(h7) /\ h9 = Wider(h8)
    OBVIOUS
  <1> HIDE DEF h1, h2, h3, h4, h5, h6, h7, h8, h9
  <1>3. ASSUME NEW k \in 0 .. 9 PROVE g[k] = IF k = 0 THEN Here ELSE Wider(g[k - 1])
    <2>1. k \in {0, 1, 2, 3, 4, 5, 6, 7, 8, 9}
      OBVIOUS
    <2>2. /\ 1 - 1 = 0 /\ 2 - 1 = 1 /\ 3 - 1 = 2 /\ 4 - 1 = 3 /\ 5 - 1 = 4
          /\ 6 - 1 = 5 /\ 7 - 1 = 6 /\ 8 - 1 = 7 /\ 9 - 1 = 8
      OBVIOUS
    <2> HIDE DEF g
    <2> QED BY <1>1, <1>2, <2>1, <2>2
  <1>4. g = [k \in 0 .. 9 |-> g[k]]
    OBVIOUS
  <1> HIDE DEF g
  <1>5. g = [k \in 0 .. 9 |-> IF k = 0 THEN Here ELSE Wider(g[k - 1])]
    BY <1>3, <1>4
  <1> QED BY <1>5

LEMMA HopsDef == Hops = [k \in 0 .. 9 |-> IF k = 0 THEN Here ELSE Wider(Hops[k - 1])]
  BY HopsExist DEF Hops, Here, Wider

LEMMA HopsSteps == Hops[0] = Here /\ \A k \in 1 .. 9 : Hops[k] = Wider(Hops[k - 1])
  <1> DEFINE step(k) == IF k = 0 THEN Here ELSE Wider(Hops[k - 1])
  <1>1. Hops = [k \in 0 .. 9 |-> step(k)]
    BY HopsDef
  <1> HIDE DEF step
  <1>2. \A k \in 0 .. 9 : Hops[k] = step(k)
    BY <1>1
  <1>3. Hops[0] = step(0) /\ \A k \in 1 .. 9 : Hops[k] = step(k)
    BY <1>2
  <1> QED BY <1>3 DEF step

\* Within so many links is within more.
LEMMA HopsGrow ==
    ASSUME NEW j \in 0 .. 9, NEW k \in j .. 9
    PROVE  Hops[j] \subseteq Hops[k]
  <1> DEFINE bad == {i \in j .. 9 : ~ Hops[j] \subseteq Hops[i]}
  <1> SUFFICES ASSUME bad # {} PROVE FALSE
    OBVIOUS
  <1>1. bad \in SUBSET Nat
    OBVIOUS
  <1>2. PICK m \in bad : \A i \in bad : m <= i
    BY <1>1, LeastNumber, Zenon
  <1>3. m \in j .. 9 /\ m # j /\ ~ Hops[j] \subseteq Hops[m]
    OBVIOUS
  <1>4. m - 1 \in j .. 9 /\ m \in 1 .. 9 /\ ~ m <= m - 1
    BY <1>3
  <1>5. Hops[j] \subseteq Hops[m - 1]
    BY <1>2, <1>4
  <1>6. Hops[m] = Wider(Hops[m - 1])
    BY <1>4, HopsSteps
  <1> QED BY <1>3, <1>5, <1>6 DEF Wider

\* Two agents within some links are some least number of them apart.
LEMMA SomeApart ==
    ASSUME NEW a \in Agents, NEW n \in Agents, a # n, NEW r \in 1 .. 9, <<a, n>> \in Hops[r]
    PROVE  \E d \in 1 .. r : Apart(a, n, d)
  <1> DEFINE within == {i \in 1 .. r : <<a, n>> \in Hops[i]}
  <1>1. within \in SUBSET Nat /\ within # {}
    <2>1. r \in within
      OBVIOUS
    <2> QED BY <2>1
  <1>2. PICK d \in within : \A i \in within : d <= i
    BY <1>1, LeastNumber, Zenon
  <1>3. d \in 1 .. r /\ <<a, n>> \in Hops[d] /\ ~ d <= d - 1
    OBVIOUS
  <1>4. <<a, n>> \notin Hops[d - 1]
    <2>1. CASE d = 1
      <3>1. <<a, n>> \notin Hops[0]
        BY HopsSteps DEF Here
      <3> QED BY <2>1, <3>1
    <2>2. CASE d # 1
      <3>1. d - 1 \in 1 .. r
        BY <1>3, <2>2
      <3> QED BY <1>2, <1>3, <3>1
    <2> QED BY <2>1, <2>2
  <1> QED BY <1>3, <1>4 DEF Apart

\* A link leads one link further.
LEMMA OneFurther ==
    ASSUME NEW k \in 0 .. 8, NEW a \in Agents, NEW b \in Agents, NEW n \in Agents,
           <<a, b>> \in Hops[k], <<b, n>> \in scenario.links
    PROVE  <<a, n>> \in Hops[k + 1]
  <1>1. k + 1 \in 1 .. 9 /\ (k + 1) - 1 = k
    OBVIOUS
  <1>2. Hops[k + 1] = Wider(Hops[k])
    BY <1>1, HopsSteps
  <1> QED BY <1>2 DEF Wider

\* The last link of a shortest way, and what is before it.
LEMMA LastLink ==
    ASSUME NEW a \in Agents, NEW n \in Agents, NEW d \in 1 .. 9, Apart(a, n, d)
    PROVE  \E b \in Agents : /\ <<b, n>> \in scenario.links
                             /\ IF d = 1 THEN b = a ELSE Apart(a, b, d - 1)
  <1>1. <<a, n>> \in Hops[d] /\ <<a, n>> \notin Hops[d - 1] /\ Hops[d] = Wider(Hops[d - 1])
    BY HopsSteps DEF Apart
  <1>2. PICK b \in Agents : <<a, b>> \in Hops[d - 1] /\ <<b, n>> \in scenario.links
    BY <1>1 DEF Wider
  <1>3. CASE d = 1
    <2>1. <<a, b>> \in Here
      BY <1>2, <1>3, HopsSteps
    <2>2. a = b
      BY <2>1 DEF Here
    <2> QED BY <1>2, <1>3, <2>2
  <1>4. CASE d # 1
    <2>1. d - 2 \in 0 .. 8 /\ (d - 2) + 1 = d - 1 /\ (d - 1) - 1 = d - 2
      BY <1>4
    <2>2. <<a, b>> \notin Hops[d - 2]
      <3> SUFFICES ASSUME <<a, b>> \in Hops[d - 2] PROVE FALSE
        OBVIOUS
      <3>1. <<a, n>> \in Hops[(d - 2) + 1]
        BY <1>2, <2>1, OneFurther, Zenon
      <3> QED BY <1>1, <2>1, <3>1
    <2>3. Apart(a, b, d - 1)
      BY <1>2, <2>1, <2>2 DEF Apart
    <2> QED BY <1>2, <1>4, <2>3
  <1> QED BY <1>3, <1>4

---------------------------------------------------------------------------

\* What the invariant of the rounds says of the numbers.
LEMMA RoundNumbers ==
    ASSUME RoundInv
    PROVE  /\ scenario.max_hop_ttl \in Nat /\ scenario.relay_passes \in 0 .. 4
           /\ pass \in -1 .. 4 /\ pass <= scenario.relay_passes
           /\ scenario.beats \subseteq Agents /\ scenario.links \subseteq Agents \X Agents
  <1>1. RoundTyped
    BY DEF RoundInv
  <1>2. /\ scenario.max_hop_ttl \in Nat /\ scenario.relay_passes \in 0 .. 4
        /\ scenario.beats \subseteq Agents /\ scenario.links \subseteq Agents \X Agents
    BY <1>1, ScenarioTypes
  <1>3. pass \in Int /\ pass >= -1 /\ pass <= scenario.relay_passes
    BY <1>1 DEF RoundTyped
  <1> QED BY <1>2, <1>3

\* No agent has a link to itself.
LEMMA LinksLeadOn ==
    ASSUME RoundInv, NEW l \in scenario.links
    PROVE  l[1] # l[2]
  <1>1. \A k \in scenario.links : k[1] # k[2]
    BY DEF RoundInv, RoundTyped, Scenarios
  <1> QED BY <1>1

\* The files of one write, if none is lost, and the summaries that are still empty.
LEMMA WriteFloods ==
    ASSUME FloodInv, RoundInv', NEW files, Write(files), scenario' = scenario,
           pass' = pass + 1, pass < scenario.relay_passes, summary' = summary,
           \A f \in files : CameFar(f, pass'),
           ~overwritten => Heard(inbox \cup files, pass')
    PROVE  FloodInv'
  <1>1. Hops' = Hops
    BY HopsSame
  <1>2. inbox' \subseteq inbox \cup files
    BY SurvivorsAreFiles DEF Write
  <1>3. pass \in Int /\ pass' \in Int /\ pass <= pass'
    BY RoundNumbers DEF FloodInv
  <1>4. \A f \in inbox : CameFar(f, pass')
    BY <1>3 DEF FloodInv, CameFar
  <1>5. (\A f \in inbox : CameFar(f, pass))'
    BY <1>1, <1>2, <1>4 DEF CameFar
  <1>6. ~overwritten' => Heard(inbox', pass')
    <2>1. ~overwritten' => ~overwritten /\ inbox' = inbox \cup files
      BY DEF Write
    <2> QED BY <2>1
  <1>7. (~overwritten => Heard(inbox, pass))'
    BY <1>1, <1>6 DEF Heard, Apart, Relays
  <1>8. SummaryKnown'
    <2>1. pass # scenario.relay_passes
      BY <1>3, RoundNumbers DEF FloodInv
    <2> QED BY <2>1 DEF FloodInv, SummaryKnown
  <1> QED BY <1>5, <1>7, <1>8 DEF FloodInv

\* Heartbeats reach the agents that are one link away.
LEMMA DeliverFloods == FloodInv /\ Deliver => FloodInv'
  <1> SUFFICES ASSUME FloodInv, Deliver PROVE FloodInv'
    OBVIOUS
  <1> DEFINE selves == {File(SelfKind, a, a, FromHeartbeat(a)) : a \in scenario.beats}
             directs == {File(0, l[1], l[2], FromHeartbeat(l[1])) :
                           l \in {k \in scenario.links : k[1] \in scenario.beats}}
  <1>1. /\ pass = -1 /\ pass' = 0 /\ scenario' = scenario /\ summary' = summary
        /\ Write(selves \cup directs)
    BY DEF Deliver
  <1>2. RoundInv /\ RoundInv'
    BY DeliverKeeps DEF FloodInv
  <1>3. /\ scenario.max_hop_ttl \in Nat /\ scenario.relay_passes \in 0 .. 4
        /\ scenario.beats \subseteq Agents /\ scenario.links \subseteq Agents \X Agents
    BY <1>2, RoundNumbers
  <1>4. \A a : /\ Len(FromHeartbeat(a)) = 1 /\ Origin(FromHeartbeat(a)) = a
               /\ sender_agent_id(FromHeartbeat(a)) = a
    BY DEF FromHeartbeat, Step, Origin, sender_agent_id
  <1>5. \A f \in selves : CameFar(f, pass')
    BY <1>4 DEF File, CameFar
  <1>6. \A f \in directs : CameFar(f, pass')
    <2> SUFFICES ASSUME NEW l \in scenario.links
                 PROVE  CameFar(File(0, l[1], l[2], FromHeartbeat(l[1])), 0)
      BY <1>1
    <2> DEFINE w == FromHeartbeat(l[1])
               f == File(0, l[1], l[2], w)
    <2>1. <<l[1], l[1]>> \in Hops[0]
      BY <1>3, HopsSteps DEF Here
    <2>2. f.kind = 0 /\ f.source = l[1] /\ f.way = w /\ 0 \in 0 .. 0 /\ 0 # SelfKind
      BY DEF File, SelfKind
    <2>3. Len(w) - 1 = 0 /\ Origin(w) = l[1] /\ sender_agent_id(w) = l[1] /\ 0 <= 0
      BY <1>4
    <2> HIDE DEF w, f
    <2>4. CameFar(f, 0)
      BY <2>1, <2>2, <2>3 DEF CameFar
    <2> QED BY <2>4 DEF f, w
  <1>7. Heard(inbox \cup (selves \cup directs), pass')
    <2> SUFFICES ASSUME NEW a \in scenario.beats, NEW n \in Agents, NEW d \in 1 .. 1 + Relays(0),
                        Apart(a, n, d)
                 PROVE  \E f \in directs : HeardBy(f, a, n, d)
      BY <1>1 DEF Heard
    <2>1. d = 1 /\ a \in Agents /\ d \in 1 .. 9
      BY <1>3 DEF Relays
    <2>2. <<a, n>> \in scenario.links
      BY <2>1, LastLink, Zenon
    <2>3. File(0, a, n, FromHeartbeat(a)) \in directs
      <3>1. <<a, n>>[1] = a /\ <<a, n>>[2] = n
        OBVIOUS
      <3> QED BY <2>2, <3>1
    <2>4. HeardBy(File(0, a, n, FromHeartbeat(a)), a, n, d)
      BY <1>4, <2>1 DEF HeardBy, File
    <2> QED BY <2>3, <2>4
  <1>8. pass' = pass + 1 /\ pass < scenario.relay_passes
    BY <1>1, <1>3
  <1> HIDE DEF selves, directs
  <1> QED BY <1>1, <1>2, <1>5, <1>6, <1>7, <1>8, WriteFloods

\* A file that can be relayed: where it is, and where it came from.
LEMMA RelayedFrom ==
    ASSUME FloodInv, NEW g \in inbox, Forwardable(g)
    PROVE  /\ g.way \in Seq(Steps) /\ g.way # <<>> /\ Len(g.way) \in 1 .. pass + 1
           /\ Origin(g.way) \in Agents /\ g.source \in Agents
           /\ <<g.source, g.target>> \in scenario.links
           /\ <<Origin(g.way), g.source>> \in Hops[Len(g.way) - 1]
  <1>1. FileTyped(g) /\ AlongLinks(g, pass) /\ CameFar(g, pass) /\ RoundInv
    BY DEF FloodInv, RoundInv
  <1>2. g.kind # SelfKind
    BY <1>1 DEF FileTyped, Forwardable
  <1>3. g.way \in Seq(Steps) /\ g.way # <<>>
    BY <1>1 DEF FileTyped
  <1>4. Len(g.way) \in Nat /\ Len(g.way) >= 1
    BY <1>3
  <1>5. Len(g.way) \in 1 .. pass + 1
    BY <1>1, <1>2, <1>4, RoundNumbers DEF CameFar
  <1>6. <<g.source, g.target>> \in scenario.links
    BY <1>1, <1>2 DEF CameFar, AlongLinks, sender_agent_id
  <1>7. Origin(g.way) \in Agents /\ g.source \in Agents
    BY <1>1, <1>6, RoundNumbers DEF AlongLinks
  <1> QED BY <1>1, <1>2, <1>3, <1>5, <1>6, <1>7 DEF CameFar

\* A pass takes what came over the longest shortest ways one link further.
LEMMA RelayFloods == FloodInv /\ RelayPass => FloodInv'
  <1> SUFFICES ASSUME FloodInv, RelayPass PROVE FloodInv'
    OBVIOUS
  <1> DEFINE new(l, g) == File(pass', l[1], l[2], Relayed(g.way, l[1], pass'))
             files == UNION {{new(l, f) : f \in {g \in inbox : g.target = l[1] /\ Forwardable(g)}} :
                               l \in scenario.links}
  <1>1. /\ pass >= 0 /\ pass < scenario.relay_passes /\ pass' = pass + 1 /\ scenario' = scenario
        /\ summary' = summary /\ Write(files)
    BY DEF RelayPass
  <1>2. RoundInv /\ RoundInv'
    BY RelayKeeps DEF FloodInv
  <1>3. /\ scenario.max_hop_ttl \in Nat /\ pass \in 0 .. 3 /\ pass' \in 1 .. 4
        /\ scenario.beats \subseteq Agents /\ scenario.links \subseteq Agents \X Agents
    BY <1>1, <1>2, RoundNumbers
  <1>4. ASSUME NEW l \in scenario.links, NEW g \in inbox, g.target = l[1], Forwardable(g)
        PROVE  /\ CameFar(new(l, g), pass') /\ new(l, g) \in files
               /\ new(l, g).target = l[2] /\ new(l, g).kind = pass'
               /\ Origin(new(l, g).way) = Origin(g.way) /\ Len(new(l, g).way) = Len(g.way) + 1
    <2> DEFINE w == Relayed(g.way, l[1], pass')
    <2>1. l[1] \in Agents /\ l = <<l[1], l[2]>> /\ pass' \in Nat
      BY <1>3
    <2>2. /\ g.way \in Seq(Steps) /\ g.way # <<>> /\ Len(g.way) \in 1 .. pass + 1
          /\ Origin(g.way) \in Agents /\ g.source \in Agents
          /\ <<g.source, l[1]>> \in scenario.links
          /\ <<Origin(g.way), g.source>> \in Hops[Len(g.way) - 1]
      BY <1>4, RelayedFrom
    <2>3. Len(w) = Len(g.way) + 1 /\ w[1] = Step(l[1], pass') /\ Origin(w) = Origin(g.way)
      BY <2>1, <2>2, RelayedIsLonger
    <2>4. /\ new(l, g).way = w /\ new(l, g).kind = pass' /\ new(l, g).target = l[2]
          /\ new(l, g).source = l[1]
      BY DEF File
    <2>5. new(l, g) \in files
      BY <1>4
    <2> HIDE DEF w
    <2>6. Len(g.way) - 1 \in 0 .. 8 /\ (Len(g.way) - 1) + 1 = Len(w) - 1 /\ Len(w) - 1 <= pass'
      <3>1. ASSUME NEW k \in 1 .. pass + 1, Len(w) = k + 1
            PROVE  k - 1 \in 0 .. 8 /\ (k - 1) + 1 = Len(w) - 1 /\ Len(w) - 1 <= pass'
        BY <1>1, <1>3, <3>1
      <3> QED BY <2>2, <2>3, <3>1
    <2>7. <<Origin(g.way), l[1]>> \in Hops[(Len(g.way) - 1) + 1]
      BY <1>3, <2>1, <2>2, <2>6, OneFurther
    <2>8. sender_agent_id(w) = l[1] /\ pass' # SelfKind /\ pass' \in 0 .. pass'
      BY <1>3, <2>3 DEF sender_agent_id, Step, SelfKind
    <2> HIDE DEF new, files
    <2>9. CameFar(new(l, g), pass')
      BY <2>3, <2>4, <2>6, <2>7, <2>8 DEF CameFar
    <2> QED BY <2>3, <2>4, <2>5, <2>9
  <1>5. \A f \in files : CameFar(f, pass')
    BY <1>4
  <1>6. ASSUME ~overwritten, NEW a \in scenario.beats, NEW n \in Agents,
               NEW d \in 1 .. 1 + Relays(pass'), Apart(a, n, d)
        PROVE  \E f \in inbox \cup files : HeardBy(f, a, n, d)
    <2>1. Heard(inbox, pass)
      BY <1>6 DEF FloodInv
    <2>2. CASE d <= 1 + Relays(pass)
      <3>1. d \in 1 .. 1 + Relays(pass)
        BY <2>2, <1>3 DEF Relays
      <3> QED BY <1>6, <2>1, <3>1 DEF Heard
    <2>3. CASE ~ d <= 1 + Relays(pass)
      <3>1. /\ pass < scenario.max_hop_ttl /\ d = pass + 2 /\ Relays(pass) = pass
            /\ d \in 2 .. 9 /\ a \in Agents
        BY <1>1, <1>3, <2>3 DEF Relays
      <3>2. PICK b \in Agents : <<b, n>> \in scenario.links /\ Apart(a, b, d - 1)
        <4>1. d \in 1 .. 9 /\ d # 1
          BY <3>1
        <4> QED BY <1>6, <3>1, <4>1, LastLink, Zenon
      <3>3. d - 1 \in 1 .. 1 + Relays(pass) /\ (d - 1) - 1 = pass /\ d - 1 = pass + 1
        BY <1>3, <3>1
      <3>4. PICK f \in inbox : HeardBy(f, a, b, d - 1)
        BY <2>1, <3>2, <3>3 DEF Heard
      <3>5. f.target = b /\ Origin(f.way) = a /\ f.kind = pass /\ Len(f.way) = pass + 1
        BY <3>3, <3>4 DEF HeardBy
      <3>6. <<sender_agent_id(f.way), f.target>> \in scenario.links
        <4>1. f.kind # SelfKind
          BY <1>3, <3>5 DEF SelfKind
        <4> QED BY <1>2, <4>1 DEF RoundInv, AlongLinks, sender_agent_id
      <3>7. sender_agent_id(f.way) # f.target
        BY <1>2, <3>6, LinksLeadOn
      <3>8. hop_ttl(f.way) > 0
        BY <1>3, <3>1, <3>5 DEF hop_ttl
      <3>9. Forwardable(f) /\ f.target = <<b, n>>[1]
        BY <3>5, <3>7, <3>8 DEF Forwardable
      <3> DEFINE g == new(<<b, n>>, f)
      <3>10. /\ g \in files /\ g.target = <<b, n>>[2] /\ g.kind = pass'
             /\ Origin(g.way) = Origin(f.way) /\ Len(g.way) = Len(f.way) + 1
        BY <1>4, <3>2, <3>9
      <3> HIDE DEF g, new, files
      <3>11. HeardBy(g, a, n, d)
        BY <1>1, <1>3, <3>1, <3>5, <3>10 DEF HeardBy
      <3> QED BY <3>10, <3>11
    <2> QED BY <2>2, <2>3
  <1> HIDE DEF files
  <1>7. ~overwritten => Heard(inbox \cup files, pass')
    BY <1>6 DEF Heard
  <1> QED BY <1>1, <1>2, <1>5, <1>7, WriteFloods

LEMMA FloodRests == FloodInv /\ (Summarize \/ UNCHANGED roundVars) => FloodInv'
  <1> SUFFICES ASSUME FloodInv, Summarize \/ UNCHANGED roundVars PROVE FloodInv'
    OBVIOUS
  <1>1. /\ scenario' = scenario /\ inbox' = inbox /\ pass' = pass /\ overwritten' = overwritten
        /\ RoundInv'
    BY RoundRests DEF FloodInv, Summarize, roundVars
  <1>2. Hops' = Hops
    BY <1>1, HopsSame
  <1>3. (\A f \in inbox : CameFar(f, pass))'
    BY <1>1, <1>2 DEF FloodInv, CameFar
  <1>4. (~overwritten => Heard(inbox, pass))'
    BY <1>1, <1>2 DEF FloodInv, Heard, Apart, Relays
  <1>5. Known' = Known
    BY <1>1 DEF Known, About
  <1>6. SummaryKnown'
    <2>1. CASE UNCHANGED roundVars
      BY <1>1, <1>5, <2>1 DEF FloodInv, SummaryKnown, roundVars
    <2>2. CASE Summarize
      <3>1. pass = scenario.relay_passes /\ summary' = Known
        BY <2>2 DEF Summarize, Known
      <3> QED BY <1>1, <1>5, <3>1 DEF SummaryKnown
    <2> QED BY <2>1, <2>2
  <1> QED BY <1>1, <1>3, <1>4, <1>6 DEF FloodInv

LEMMA FloodStarts == RoundInit => FloodInv
  <1> SUFFICES ASSUME RoundInit PROVE FloodInv
    OBVIOUS
  <1>1. RoundInv /\ inbox = {} /\ pass = -1 /\ summary = [n \in Agents |-> <<>>]
    BY RoundStarts DEF RoundInit
  <1>2. 1 .. 1 + Relays(pass) = {}
    BY <1>1, RoundNumbers DEF Relays
  <1> QED BY <1>1, <1>2 DEF FloodInv, Heard, SummaryKnown

---------------------------------------------------------------------------

\* The first file in the order of their names exists.
LEMMA MergedIsFirst ==
    ASSUME NEW files, files # {}, \A f \in files : f.kind \in Nat /\ f.source \in Nat
    PROVE  Merged(files) \in files /\ \A g \in files : Before(Merged(files), g)
  <1> DEFINE kinds == {f.kind : f \in files}
  <1>1. kinds \in SUBSET Nat /\ kinds # {}
    OBVIOUS
  <1>2. PICK k \in kinds : \A i \in kinds : k <= i
    BY <1>1, LeastNumber, Zenon
  <1> DEFINE sources == {f.source : f \in {g \in files : g.kind = k}}
  <1>3. sources \in SUBSET Nat /\ sources # {}
    BY <1>2
  <1>4. PICK s \in sources : \A i \in sources : s <= i
    BY <1>3, LeastNumber, Zenon
  <1>5. PICK f \in files : f.kind = k /\ f.source = s
    BY <1>4
  <1>6. ASSUME NEW g \in files PROVE Before(f, g)
    <2>1. k <= g.kind /\ k \in Nat /\ g.kind \in Nat
      BY <1>1, <1>2
    <2>2. g.kind = k => s <= g.source
      BY <1>4
    <2> QED BY <1>5, <2>1, <2>2 DEF Before
  <1>7. \E h \in files : \A g \in files : Before(h, g)
    BY <1>5, <1>6
  <1> QED BY <1>7 DEF Merged

\* From what files an agent is heard of, and that none of them came sooner than it could.
LEMMA CameNoSooner ==
    ASSUME FloodInv, NEW n \in Agents, NEW a \in scenario.beats, a # n, NEW f \in About(n, a)
    PROVE  /\ f.kind \in 0 .. 4 /\ f.source \in Agents /\ <<f.source, n>> \in scenario.links
           /\ <<a, f.source>> \in Hops[f.kind] /\ <<a, n>> \in Hops[f.kind + 1]
           /\ <<a, n>> \in Hops[1 + Relays(pass)]
  <1>1. /\ f \in inbox /\ f.target = n /\ Origin(f.way) = a /\ a \in Agents
        /\ FileTyped(f) /\ AlongLinks(f, pass) /\ CameFar(f, pass)
    BY RoundNumbers DEF About, FloodInv, RoundInv
  <1>2. f.kind # SelfKind
    BY <1>1 DEF CameFar
  <1> DEFINE far == Len(f.way) - 1
  <1>3. /\ f.kind \in 0 .. pass /\ far <= f.kind /\ <<a, f.source>> \in Hops[far]
        /\ f.source = sender_agent_id(f.way)
    BY <1>1, <1>2 DEF CameFar
  <1>4. far \in Nat /\ far <= scenario.max_hop_ttl
    <2>1. f.way \in Seq(Steps) /\ f.way # <<>>
      BY <1>1 DEF FileTyped
    <2> QED BY <1>1, <2>1 DEF AlongLinks
  <1>5. /\ f.kind \in 0 .. 4 /\ pass \in -1 .. 4 /\ scenario.max_hop_ttl \in Nat
        /\ scenario.links \subseteq Agents \X Agents
    BY <1>3, RoundNumbers DEF FloodInv
  <1>6. <<f.source, n>> \in scenario.links
    BY <1>1, <1>2, <1>3 DEF AlongLinks, sender_agent_id
  <1>7. f.source \in Agents
    BY <1>5, <1>6
  <1> HIDE DEF far
  <1>8. far \in 0 .. 8 /\ far \in 0 .. 9 /\ far + 1 \in 0 .. 9
    BY <1>3, <1>4, <1>5
  <1>9. <<a, n>> \in Hops[far + 1]
    BY <1>1, <1>3, <1>6, <1>7, <1>8, OneFurther
  <1>10. f.kind \in far .. 9 /\ f.kind + 1 \in far + 1 .. 9 /\ 1 + Relays(pass) \in far + 1 .. 9
    BY <1>3, <1>4, <1>5 DEF Relays
  <1>11. /\ Hops[far] \subseteq Hops[f.kind] /\ Hops[far + 1] \subseteq Hops[f.kind + 1]
         /\ Hops[far + 1] \subseteq Hops[1 + Relays(pass)]
    BY <1>8, <1>10, HopsGrow
  <1> QED BY <1>3, <1>5, <1>6, <1>7, <1>9, <1>11

\* In the end the file that is merged first came over a shortest way.
LEMMA FirstIsNearest ==
    ASSUME FloodInv, ~overwritten, NEW n \in Agents, NEW a \in scenario.beats, a # n
    PROVE  /\ About(n, a) # {} <=> <<a, n>> \in Hops[1 + Relays(pass)]
           /\ About(n, a) # {} =>
                \E d \in 1 .. 1 + Relays(pass) :
                  /\ Apart(a, n, d)
                  /\ <<a, Merged(About(n, a)).source>> \in Hops[d - 1]
                  /\ <<Merged(About(n, a)).source, n>> \in scenario.links
  <1>1. a \in Agents /\ Relays(pass) \in -1 .. 4
    BY RoundNumbers DEF FloodInv, Relays
  <1>2. ASSUME About(n, a) # {} PROVE <<a, n>> \in Hops[1 + Relays(pass)] /\ Relays(pass) \in 0 .. 4
    <2>1. PICK f \in About(n, a) : TRUE
      BY <1>2
    <2>2. f.kind \in 0 .. pass
      <3>1. CameFar(f, pass) /\ f.target = n /\ Origin(f.way) = a
        BY DEF FloodInv, About
      <3> QED BY <3>1 DEF CameFar
    <2>3. Relays(pass) \in 0 .. 4
      BY <2>2, RoundNumbers DEF FloodInv, Relays
    <2> QED BY <2>1, <2>3, CameNoSooner
  <1>3. ASSUME <<a, n>> \in Hops[1 + Relays(pass)]
        PROVE  \E d \in 1 .. 1 + Relays(pass) :
                 Apart(a, n, d) /\ \E f \in About(n, a) : f.kind = d - 1
    <2>1. 1 + Relays(pass) \in 1 .. 9
      <3>1. 1 + Relays(pass) # 0
        BY <1>3, HopsSteps DEF Here
      <3> QED BY <1>1, <3>1
    <2>2. PICK d \in 1 .. 1 + Relays(pass) : Apart(a, n, d)
      BY <1>1, <1>3, <2>1, SomeApart
    <2>3. PICK f \in inbox : HeardBy(f, a, n, d)
      BY <2>2 DEF FloodInv, Heard
    <2>4. f \in About(n, a) /\ f.kind = d - 1
      BY <2>3 DEF HeardBy, About
    <2> QED BY <2>2, <2>4
  <1>4. ASSUME About(n, a) # {}
        PROVE  \E d \in 1 .. 1 + Relays(pass) :
                 /\ Apart(a, n, d)
                 /\ <<a, Merged(About(n, a)).source>> \in Hops[d - 1]
                 /\ <<Merged(About(n, a)).source, n>> \in scenario.links
    <2> DEFINE m == Merged(About(n, a))
    <2>1. m \in About(n, a) /\ \A g \in About(n, a) : Before(m, g)
      <3>1. ASSUME NEW f \in About(n, a) PROVE f.kind \in Nat /\ f.source \in Nat
        <4>1. f.kind \in 0 .. 4 /\ f.source \in Agents
          BY CameNoSooner
        <4>2. Agents \subseteq Nat
          BY RoundAssumption
        <4>3. f.kind \in Nat
          BY <4>1
        <4>4. f.source \in Nat
          BY <4>1, <4>2, Zenon
        <4> QED BY <4>3, <4>4, Zenon
      <3> QED BY <1>4, <3>1, MergedIsFirst, Zenon
    <2> HIDE DEF m
    <2>2. PICK d \in 1 .. 1 + Relays(pass) : Apart(a, n, d) /\ \E f \in About(n, a) : f.kind = d - 1
      BY <1>2, <1>3, <1>4
    <2>3. /\ m.kind \in 0 .. 4 /\ <<m.source, n>> \in scenario.links
          /\ <<a, m.source>> \in Hops[m.kind] /\ <<a, n>> \in Hops[m.kind + 1]
      BY <2>1, CameNoSooner
    <2>4. m.kind <= d - 1
      BY <2>1, <2>2, <2>3 DEF Before
    <2>5. m.kind = d - 1
      <3> SUFFICES ASSUME m.kind < d - 1 PROVE FALSE
        BY <2>3, <2>4, <1>2, <1>4
      <3>1. m.kind + 1 \in 0 .. 9 /\ d - 1 \in m.kind + 1 .. 9
        BY <1>2, <1>4, <2>3
      <3>2. <<a, n>> \in Hops[d - 1]
        BY <2>3, <3>1, HopsGrow
      <3> QED BY <2>2, <3>2 DEF Apart
    <2> QED BY <2>2, <2>3, <2>5 DEF m
  <1> QED BY <1>2, <1>3, <1>4

LEMMA FloodReaches == FloodInv => HeardOverShortestWay
  <1> SUFFICES ASSUME FloodInv, summary # [n \in Agents |-> <<>>], ~overwritten,
                      NEW n \in Agents, NEW a \in scenario.beats \ {n}
               PROVE  /\ a \in DOMAIN summary[n] <=> <<a, n>> \in Hops[1 + Relays(scenario.relay_passes)]
                      /\ a \in DOMAIN summary[n] =>
                           \E d \in 1 .. 1 + Relays(scenario.relay_passes) :
                             /\ <<a, n>> \in Hops[d] \ Hops[d - 1]
                             /\ <<a, summary[n][a]>> \in Hops[d - 1]
                             /\ <<summary[n][a], n>> \in scenario.links
    BY DEF HeardOverShortestWay, Relays
  <1>1. pass = scenario.relay_passes /\ summary = Known
    BY DEF FloodInv, SummaryKnown
  <1>2. a \in Agents /\ a \in scenario.beats /\ a # n
    BY RoundNumbers DEF FloodInv
  <1>3. summary[n] = [b \in {c \in Agents : About(n, c) # {}} |-> Merged(About(n, b)).source]
    BY <1>1 DEF Known
  <1>4. a \in DOMAIN summary[n] <=> About(n, a) # {}
    BY <1>2, <1>3
  <1>5. About(n, a) # {} => summary[n][a] = Merged(About(n, a)).source
    BY <1>2, <1>3
  <1> QED BY <1>1, <1>2, <1>4, <1>5, FirstIsNearest DEF Apart

\* In the end every peer knows exactly of the agents within reach, each of them
\* from a peer on a shortest way, unless files were written over.
THEOREM HeardShortest == RoundSpec => []HeardOverShortestWay
  <1>1. FloodInv /\ [RoundNext]_roundVars => FloodInv'
    BY DeliverFloods, RelayFloods, FloodRests DEF RoundNext
  <1> QED BY <1>1, FloodStarts, FloodReaches, PTL DEF RoundSpec

\* In the lab a round behaves as on its own.
THEOREM RoundInLab == PeerLabSpec => RoundSpec
  <1>1. PeerLabInit => RoundInit
    BY DEF PeerLabInit, RoundAtRest
  <1>2. [PeerLabNext]_labVars => [RoundNext]_roundVars
    BY DEF PeerLabNext, labVars
  <1> QED BY <1>1, <1>2, PTL DEF PeerLabSpec, RoundSpec

---------------------------------------------------------------------------
(***************************************************************************)
(* What the intake of a file drop accepts was due, for every set of        *)
(* deliveries, messages and inboxes and for any outcomes and manifests,    *)
(* whatever they were written for.                                         *)
(***************************************************************************)
\* The deliveries and routes keep their types.
PlanTyped == plan \in [Deliveries -> PlannedDeliveries] /\ routes \in [Targets -> Routes]

\* An entry of a report is about something that was due.
WasDue(d, e) == [delivery |-> d, message |-> e.message, target |-> e.target, path |-> e.path] \in due

\* What a staging report plans was due, and so is what a copy report calls copied.
PlannedWasDue ==
  staging # NoReport =>
    \A d \in Deliveries : staging.entries[d].status = "planned" => WasDue(d, staging.entries[d])
CopiedWasDue ==
  copies # NoReport =>
    \A d \in Deliveries : copies.entries[d].status \in Ready => WasDue(d, copies.entries[d])

DropInv == PlanTyped /\ PlannedWasDue /\ CopiedWasDue /\ AcceptedWasStaged

---------------------------------------------------------------------------
(* The parts of the reports.                                               *)

\* Only what is pending on a file-drop route is planned.
LEMMA PlannedIsPending ==
    ASSUME PlanTyped, NEW d \in Deliveries, StagingEntry(d).status = "planned"
    PROVE  /\ plan[d].state = "pending"
           /\ routes[plan[d].target].mode = "file_drop_simulator"
           /\ StagingEntry(d).message = plan[d].message
           /\ StagingEntry(d).target = plan[d].target
           /\ StagingEntry(d).path = StagedPath(d)
  <1>1. plan[d].state \in {"pending", "expired", "accepted"}
    BY DEF PlanTyped, PlannedDeliveries
  <1>2. /\ Decision(d) = "ready"
        /\ routes[plan[d].target].mode = "file_drop_simulator"
    BY DEF StagingEntry
  <1>3. plan[d].state = "pending"
    BY <1>1, <1>2 DEF Decision
  <1> QED BY <1>2, <1>3 DEF StagingEntry

\* A copy that is called ready was planned.
LEMMA ReadyWasPlanned ==
    ASSUME NEW entry, NEW outcomes, NEW key, CopyAction(entry, outcomes, key).status \in Ready
    PROVE  entry.status = "planned"
  BY DEF CopyAction, Ready

\* The intake accepts nothing that was not copied, nor another envelope.
LEMMA AcceptedWasCopied ==
    ASSUME NEW entry, NEW action, NEW message,
           IntakeStatus(entry, action, message) \in {"accepted", "duplicate_ignored"}
    PROVE  action.status \in Ready /\ Valid(entry.envelope, message)
  BY DEF IntakeStatus

---------------------------------------------------------------------------
(* The invariant.                                                          *)

LEMMA DropStarts == DropInit => DropInv
  BY FileDropAssumption DEF DropInit, DropInv, PlanTyped, PlannedWasDue, CopiedWasDue, AcceptedWasStaged

LEMMA DropStutters == DropInv /\ UNCHANGED dropVars => DropInv'
  BY DEF dropVars, DropInv, PlanTyped, PlannedWasDue, CopiedWasDue, AcceptedWasStaged, WasDue, KeyOf

LEMMA StagingKeeps == DropInv /\ BuildStaging => DropInv'
  <1> SUFFICES ASSUME DropInv, BuildStaging PROVE DropInv'
    OBVIOUS
  <1>1. due \subseteq due'
    BY DEF BuildStaging
  <1>2. PlanTyped'
    BY DEF DropInv, PlanTyped, BuildStaging
  <1>3. PlannedWasDue'
    <2> SUFFICES ASSUME NEW d \in Deliveries, staging'.entries[d].status = "planned"
                 PROVE  WasDue(d, staging.entries[d])'
      BY DEF PlannedWasDue
    <2>1. staging'.entries[d] = StagingEntry(d)
      BY DEF BuildStaging
    <2>2. [delivery |-> d, message |-> plan[d].message, target |-> plan[d].target,
           path |-> StagedPath(d)] \in due'
      BY <2>1, PlannedIsPending DEF BuildStaging, DropInv
    <2>3. [delivery |-> d, message |-> StagingEntry(d).message, target |-> StagingEntry(d).target,
           path |-> StagingEntry(d).path] \in due'
      BY <2>1, <2>2, PlannedIsPending DEF DropInv
    <2> QED BY <2>1, <2>3 DEF WasDue
  <1>4. CopiedWasDue'
    BY <1>1 DEF DropInv, CopiedWasDue, WasDue, BuildStaging
  <1>5. AcceptedWasStaged'
    BY <1>1 DEF DropInv, AcceptedWasStaged, BuildStaging
  <1> QED BY <1>2, <1>3, <1>4, <1>5 DEF DropInv

LEMMA CopyKeeps ==
    ASSUME DropInv, NEW outcomes, BuildCopyReport(outcomes)
    PROVE  DropInv'
  <1>1. UNCHANGED <<plan, routes, staging, intake, due>>
    BY DEF BuildCopyReport
  <1>2. CopiedWasDue'
    <2> SUFFICES ASSUME NEW d \in Deliveries, copies'.entries[d].status \in Ready
                 PROVE  WasDue(d, copies.entries[d])'
      BY DEF CopiedWasDue
    <2> DEFINE entry == staging.entries[d]
    <2>1. copies'.entries[d] = CopyAction(entry, outcomes, KeyOf(staging, d))
      BY DEF BuildCopyReport
    <2>2. staging # NoReport /\ entry.status = "planned"
      BY <2>1, ReadyWasPlanned DEF BuildCopyReport
    <2>3. WasDue(d, entry)
      BY <2>2 DEF DropInv, PlannedWasDue
    <2>4. /\ copies'.entries[d].message = entry.message
          /\ copies'.entries[d].target = entry.target
          /\ copies'.entries[d].path = entry.path
      BY <2>1 DEF CopyAction
    <2> QED BY <1>1, <2>3, <2>4 DEF WasDue
  <1>3. PlanTyped' /\ PlannedWasDue' /\ AcceptedWasStaged'
    BY <1>1 DEF DropInv, PlanTyped, PlannedWasDue, WasDue, AcceptedWasStaged
  <1> QED BY <1>2, <1>3 DEF DropInv

LEMMA IntakeKeeps ==
    ASSUME DropInv, NEW manifest, BuildIntake(manifest)
    PROVE  DropInv'
  <1>1. UNCHANGED <<plan, routes, staging, copies, due>> /\ copies # NoReport /\ Fits(manifest)
    BY DEF BuildIntake
  <1>2. AcceptedWasStaged'
    <2> DEFINE entries == [k \in DOMAIN manifest.entries |->
                  [delivery |-> k[1], message |-> k[2], target |-> manifest.receiver,
                   path |-> manifest.entries[k].path, envelope |-> manifest.entries[k].envelope,
                   status |-> IntakeStatus(manifest.entries[k], copies.entries[k[1]], k[2])]]
    <2>1. intake'.entries = entries
      BY DEF BuildIntake
    <2>. DOMAIN entries = DOMAIN manifest.entries
      OBVIOUS
    <2> SUFFICES ASSUME NEW k \in DOMAIN manifest.entries,
                        entries[k].status \in {"accepted", "duplicate_ignored"}
                 PROVE  /\ [delivery |-> entries[k].delivery, message |-> entries[k].message,
                            target |-> entries[k].target, path |-> entries[k].path] \in due
                        /\ entries[k].envelope.message = entries[k].message
                        /\ entries[k].envelope.sender = Source
      <3> HIDE DEF entries
      <3> QED BY <1>1, <2>1 DEF AcceptedWasStaged
    <2>2. PICK d \in Deliveries : k = <<d, copies.entries[d].message>>
      BY <1>1 DEF Fits, KeysOf, KeyOf
    <2>3. /\ copies.entries[d].status \in Ready
          /\ Valid(manifest.entries[k].envelope, k[2])
      BY <2>2, AcceptedWasCopied
    <2>4. WasDue(d, copies.entries[d])
      BY <1>1, <2>3 DEF DropInv, CopiedWasDue
    <2>5. copies.entries[d].target = manifest.receiver /\ copies.entries[d].path = manifest.entries[k].path
      BY <1>1, <2>2 DEF Fits
    <2> QED BY <2>2, <2>3, <2>4, <2>5 DEF WasDue, Valid
  <1>3. PlanTyped' /\ PlannedWasDue' /\ CopiedWasDue'
    BY <1>1 DEF DropInv, PlanTyped, PlannedWasDue, CopiedWasDue, WasDue
  <1> QED BY <1>2, <1>3 DEF DropInv

LEMMA EditKeeps == DropInv /\ (EditDelivery \/ EditRoute) => DropInv'
  <1> SUFFICES ASSUME DropInv, EditDelivery \/ EditRoute PROVE DropInv'
    OBVIOUS
  <1>1. UNCHANGED <<staging, copies, intake, due>>
    BY DEF EditDelivery, EditRoute, Edit
  <1>2. PlanTyped'
    <2>1. CASE EditDelivery
      BY <2>1 DEF DropInv, PlanTyped, EditDelivery, Edit
    <2>2. CASE EditRoute
      BY <2>2 DEF DropInv, PlanTyped, EditRoute, Edit
    <2> QED BY <2>1, <2>2
  <1> QED BY <1>1, <1>2 DEF DropInv, PlannedWasDue, CopiedWasDue, WasDue, AcceptedWasStaged

---------------------------------------------------------------------------
(* The theorems.                                                           *)

\* Whatever outcomes and manifests are used, the tools keep the invariant.
THEOREM DropInductive == DropSpec => []DropInv
  <1>1. DropInv /\ [DropNext]_dropVars => DropInv'
    BY DropStutters, StagingKeeps, CopyKeeps, IntakeKeeps, EditKeeps DEF DropNext
  <1> QED BY <1>1, DropStarts, PTL DEF DropSpec

\* What the intake accepts was due over a file drop when a staging was planned.
THEOREM AcceptedStaged == DropSpec => []AcceptedWasStaged
  BY DropInductive, PTL DEF DropInv

\* In the lab the file drop behaves as on its own.
THEOREM DropInLab == PeerLabSpec => DropSpec
  <1>1. PeerLabInit => DropInit
    BY DEF PeerLabInit, DropAtRest
  <1>2. [PeerLabNext]_labVars => [DropNext]_dropVars
    BY DEF PeerLabNext, labVars
  <1> QED BY <1>1, <1>2, PTL DEF PeerLabSpec, DropSpec

---------------------------------------------------------------------------
(***************************************************************************)
(* What the acceptance report takes an artifact for rests on the whole     *)
(* chain before it, for every set of slots and rules, for manifests of any *)
(* kind and for tools that are run in any order.                           *)
(***************************************************************************)
\* Every slot of a report was declared with its kind by some handoff.
Declared(r) == \A id \in DOMAIN r.slots : <<id, r.slots[id].kind>> \in declared

\* A slot that a report calls so was released, and the report rests on these stages.
Released(r, called, stages) ==
  \A id \in DOMAIN r.slots : r.slots[id].status = called =>
    <<r.slots[id].kind, r.slots[id].schema>> \in released /\ stages \subseteq r.below

\* A report that is ready rests on exactly these stages.
RestsOn(r, stages) == r.status = "ready" => r.below = stages

ToRedaction == {"review", "handoff", "checklist"}
ToImport == ToRedaction \cup {"redaction"}

HandoffSound == file["handoff"] # NoFile =>
  Declared(file["handoff"]) /\ RestsOn(file["handoff"], {"review"})
ChecklistSound == file["checklist"] # NoFile =>
  Declared(file["checklist"]) /\ RestsOn(file["checklist"], {"review", "handoff"})
RedactionSound == file["redaction"] # NoFile =>
  /\ Declared(file["redaction"]) /\ RestsOn(file["redaction"], ToRedaction)
  /\ Released(file["redaction"], "ready_for_sanitized_derivative", ToRedaction)
ImportSound == file["import"] # NoFile =>
  /\ Declared(file["import"]) /\ RestsOn(file["import"], ToImport \cup {"package"})
  /\ Released(file["import"], "ready_for_public_derivative", ToImport)
PlaceholderSound == file["placeholder"] # NoFile =>
  /\ Declared(file["placeholder"])
  /\ RestsOn(file["placeholder"], ToImport \cup {"package", "import"})
  /\ Released(file["placeholder"], "awaiting_sanitized_derivative_artifact", ToImport)
  /\ file["placeholder"].status = "ready" =>
       \A id \in DOMAIN file["placeholder"].slots :
         file["placeholder"].slots[id].status
           \in {"private_only", "awaiting_sanitized_derivative_artifact"}

FilesTyped == file = [s \in Stages |-> file[s]]

ChainInv == /\ FilesTyped /\ HandoffSound /\ ChecklistSound /\ RedactionSound
            /\ ImportSound /\ PlaceholderSound /\ AcceptanceRestsOnHandoff

---------------------------------------------------------------------------
(* The two ways to judge.                                                  *)

LEMMA OverallReady ==
    ASSUME NEW failed, NEW manual, Overall(failed, manual) = "ready"
    PROVE  ~failed /\ ~manual
  BY DEF Overall

\* A report is ready only when what it is about was.
LEMMA ReadyBelow ==
    ASSUME NEW status, NEW require_ready, ~StatusFails(status, require_ready),
           status # "manual_review", NEW stages, NEW name
    PROVE  status = "ready" /\ Below(stages, name, status) = stages \cup {name}
  BY DEF StatusFails, Below

LEMMA BelowGrows ==
    ASSUME NEW stages, NEW name, NEW status
    PROVE  /\ stages \subseteq Below(stages, name, status)
           /\ status = "ready" => name \in Below(stages, name, status)
  BY DEF Below

\* A run of one tool leaves the files of the others.
LEMMA RunWrites ==
    ASSUME FilesTyped, NEW stage \in Stages, NEW r, Run(stage, r)
    PROVE  /\ FilesTyped' /\ file'[stage] = r
           /\ \A s \in Stages \ {stage} : file'[s] = file[s]
  BY DEF FilesTyped, Run

\* The reports of the other stages keep what they rest on as more is declared and released.
LEMMA OthersKeep ==
    ASSUME ChainInv, declared \subseteq declared', released \subseteq released'
    PROVE  /\ file'["handoff"] = file["handoff"] => HandoffSound'
           /\ file'["checklist"] = file["checklist"] => ChecklistSound'
           /\ file'["redaction"] = file["redaction"] => RedactionSound'
           /\ file'["import"] = file["import"] => ImportSound'
           /\ file'["placeholder"] = file["placeholder"] => PlaceholderSound'
           /\ file'["acceptance"] = file["acceptance"] => AcceptanceRestsOnHandoff'
  <1>1. file'["handoff"] = file["handoff"] => HandoffSound'
    BY DEF ChainInv, HandoffSound, Declared, RestsOn
  <1>2. file'["checklist"] = file["checklist"] => ChecklistSound'
    BY DEF ChainInv, ChecklistSound, Declared, RestsOn
  <1>3. file'["redaction"] = file["redaction"] => RedactionSound'
    BY DEF ChainInv, RedactionSound, Declared, RestsOn, Released
  <1>4. file'["import"] = file["import"] => ImportSound'
    BY DEF ChainInv, ImportSound, Declared, RestsOn, Released
  <1>5. file'["placeholder"] = file["placeholder"] => PlaceholderSound'
    BY DEF ChainInv, PlaceholderSound, Declared, RestsOn, Released
  <1>6. file'["acceptance"] = file["acceptance"] => AcceptanceRestsOnHandoff'
    BY DEF ChainInv, AcceptanceRestsOnHandoff
  <1> QED BY <1>1, <1>2, <1>3, <1>4, <1>5, <1>6

---------------------------------------------------------------------------
(* The tools, one by one.                                                  *)

LEMMA HandoffKeeps ==
    ASSUME ChainInv, NEW m, NEW slots, BuildHandoff(m, slots)
    PROVE  ChainInv'
  <1> DEFINE failed == ~m.fits \/ StatusFails(review, m.require_ready)
             r == [status |-> Overall(failed, review = "manual_review"),
                   slots |-> slots, below |-> Below({}, "review", review)]
  <1>1. Run("handoff", r) /\ released' = released
        /\ declared' = declared \cup {<<id, slots[id].kind>> : id \in DOMAIN slots}
    BY DEF BuildHandoff
  <1>2. FilesTyped' /\ file'["handoff"] = r
        /\ \A s \in Stages \ {"handoff"} : file'[s] = file[s]
    BY <1>1, RunWrites DEF ChainInv, Stages
  <1>3. HandoffSound'
    <2>1. \A id \in DOMAIN r.slots : <<id, r.slots[id].kind>> \in declared'
      BY <1>1
    <2>2. r.status = "ready" => r.below = {"review"}
      <3> SUFFICES ASSUME r.status = "ready" PROVE r.below = {"review"}
        OBVIOUS
      <3>1. ~failed /\ review # "manual_review"
        BY OverallReady
      <3>2. review = "ready" /\ r.below = {} \cup {"review"}
        BY <3>1, ReadyBelow
      <3> QED BY <3>2
    <2> QED BY <1>2, <2>1, <2>2 DEF HandoffSound, Declared, RestsOn
  <1> QED BY <1>1, <1>2, <1>3, OthersKeep DEF ChainInv, Stages

LEMMA ChecklistKeeps ==
    ASSUME ChainInv, NEW m, BuildChecklist(m)
    PROVE  ChainInv'
  <1> DEFINE h == file["handoff"]
             failed == ~m.fits \/ StatusFails(h.status, m.require_ready)
             r == [status |-> Overall(failed, h.status = "manual_review"),
                   slots |-> h.slots, below |-> Below(h.below, "handoff", h.status)]
  <1>1. Run("checklist", r) /\ h # NoFile /\ UNCHANGED <<declared, released>>
    BY DEF BuildChecklist
  <1>2. FilesTyped' /\ file'["checklist"] = r
        /\ \A s \in Stages \ {"checklist"} : file'[s] = file[s]
    BY <1>1, RunWrites DEF ChainInv, Stages
  <1>3. ChecklistSound'
    <2>1. \A id \in DOMAIN r.slots : <<id, r.slots[id].kind>> \in declared
      BY <1>1 DEF ChainInv, HandoffSound, Declared
    <2>2. r.status = "ready" => r.below = {"review", "handoff"}
      <3> SUFFICES ASSUME r.status = "ready" PROVE r.below = {"review", "handoff"}
        OBVIOUS
      <3>1. ~failed /\ h.status # "manual_review"
        BY OverallReady
      <3>2. h.status = "ready" /\ r.below = h.below \cup {"handoff"}
        BY <3>1, ReadyBelow
      <3> QED BY <1>1, <3>2 DEF ChainInv, HandoffSound, RestsOn
    <2> QED BY <1>1, <1>2, <2>1, <2>2 DEF ChecklistSound, Declared, RestsOn
  <1> QED BY <1>1, <1>2, <1>3, OthersKeep DEF ChainInv, Stages

\* A slot that the redaction plan calls ready is released under its rule.
LEMMA RedactionReleases ==
    ASSUME NEW slot, NEW rules, NEW checklist,
           RedactionItem(slot, rules, checklist).status = "ready_for_sanitized_derivative"
    PROVE  /\ checklist.status = "ready" /\ slot.kind \in DOMAIN rules
           /\ rules[slot.kind].release # "private_only"
           /\ RedactionItem(slot, rules, checklist).schema = rules[slot.kind].schema
  BY DEF RedactionItem

LEMMA RedactionKeeps ==
    ASSUME ChainInv, NEW m, NEW rules, BuildRedaction(m, rules)
    PROVE  ChainInv'
  <1> DEFINE c == file["checklist"]
             covered == \A id \in DOMAIN c.slots : c.slots[id].kind \in DOMAIN rules
             failed == ~m.fits \/ StatusFails(c.status, m.require_ready) \/ ~covered
             r == [status |-> Overall(failed, c.status = "manual_review"),
                   slots |-> [id \in DOMAIN c.slots |-> RedactionItem(c.slots[id], rules, c)],
                   below |-> Below(c.below, "checklist", c.status)]
  <1>1. Run("redaction", r) /\ c # NoFile /\ declared' = declared
        /\ released' = released \cup {<<k, rules[k].schema>> :
                                        k \in {l \in DOMAIN rules : rules[l].release # "private_only"}}
    BY DEF BuildRedaction
  <1>2. FilesTyped' /\ file'["redaction"] = r
        /\ \A s \in Stages \ {"redaction"} : file'[s] = file[s]
    BY <1>1, RunWrites DEF ChainInv, Stages
  <1>3. RedactionSound'
    <2>1. \A id \in DOMAIN r.slots : /\ r.slots[id] = RedactionItem(c.slots[id], rules, c)
                                     /\ r.slots[id].kind = c.slots[id].kind
                                     /\ id \in DOMAIN c.slots
      BY DEF RedactionItem
    <2>2. \A id \in DOMAIN r.slots : <<id, r.slots[id].kind>> \in declared
      BY <1>1, <2>1 DEF ChainInv, ChecklistSound, Declared
    <2>3. r.status = "ready" => r.below = ToRedaction
      <3> SUFFICES ASSUME r.status = "ready" PROVE r.below = ToRedaction
        OBVIOUS
      <3>1. ~failed /\ c.status # "manual_review"
        BY OverallReady
      <3>2. c.status = "ready" /\ r.below = c.below \cup {"checklist"}
        BY <3>1, ReadyBelow
      <3> QED BY <1>1, <3>2 DEF ChainInv, ChecklistSound, RestsOn, ToRedaction
    <2>4. ASSUME NEW id \in DOMAIN r.slots, r.slots[id].status = "ready_for_sanitized_derivative"
          PROVE  <<r.slots[id].kind, r.slots[id].schema>> \in released' /\ ToRedaction \subseteq r.below
      <3>1. /\ c.status = "ready" /\ r.slots[id].kind \in DOMAIN rules
            /\ rules[r.slots[id].kind].release # "private_only"
            /\ r.slots[id].schema = rules[r.slots[id].kind].schema
        <4>1. PICK slot : slot = c.slots[id] /\ r.slots[id] = RedactionItem(slot, rules, c)
                          /\ r.slots[id].kind = slot.kind
          BY <2>1
        <4>2. RedactionItem(slot, rules, c).status = "ready_for_sanitized_derivative"
          BY <2>4, <4>1
        <4>3. /\ c.status = "ready" /\ slot.kind \in DOMAIN rules
              /\ rules[slot.kind].release # "private_only"
              /\ RedactionItem(slot, rules, c).schema = rules[slot.kind].schema
          BY <4>2, RedactionReleases
        <4> HIDE DEF r
        <4> QED BY <4>1, <4>3
      <3>2. <<r.slots[id].kind, r.slots[id].schema>> \in released'
        BY <1>1, <3>1
      <3>3. ToRedaction \subseteq r.below
        BY <1>1, <3>1, BelowGrows DEF ChainInv, ChecklistSound, RestsOn, ToRedaction
      <3> QED BY <3>2, <3>3
    <2> QED BY <1>1, <1>2, <2>2, <2>3, <2>4 DEF RedactionSound, Declared, RestsOn, Released
  <1> QED BY <1>1, <1>2, <1>3, OthersKeep DEF ChainInv, Stages

\* A slot that the import plan calls ready was ready in a redaction plan that was.
LEMMA ImportReleases ==
    ASSUME NEW slot, NEW redaction,
           ImportItem(slot, redaction).status = "ready_for_public_derivative"
    PROVE  redaction.status = "ready" /\ slot.status = "ready_for_sanitized_derivative"
  BY DEF ImportItem

LEMMA ImportKeeps ==
    ASSUME ChainInv, NEW m, NEW require_package_ready, BuildImportPlan(m, require_package_ready)
    PROVE  ChainInv'
  <1> DEFINE d == file["redaction"]
             items == [id \in DOMAIN d.slots |-> ImportItem(d.slots[id], d)]
             failed == \/ ~m.fits \/ StatusFails(d.status, m.require_ready)
                       \/ StatusFails(package, require_package_ready)
                       \/ Derivatives(items) = {} \/ Has(items, "missing_derivative_schema")
             r == [status |-> Overall(failed, "manual_review" \in {d.status, package}),
                   slots |-> items,
                   below |-> Below(Below(d.below, "redaction", d.status), "package", package)]
  <1>1. Run("import", r) /\ d # NoFile /\ UNCHANGED <<declared, released>>
    BY DEF BuildImportPlan
  <1>2. FilesTyped' /\ file'["import"] = r
        /\ \A s \in Stages \ {"import"} : file'[s] = file[s]
    BY <1>1, RunWrites DEF ChainInv, Stages
  <1>3. ImportSound'
    <2>1. \A id \in DOMAIN r.slots : /\ id \in DOMAIN d.slots
                                     /\ r.slots[id] = ImportItem(d.slots[id], d)
                                     /\ r.slots[id].kind = d.slots[id].kind
                                     /\ r.slots[id].schema = d.slots[id].schema
      BY DEF ImportItem
    <2>2. \A id \in DOMAIN r.slots : <<id, r.slots[id].kind>> \in declared
      BY <1>1, <2>1 DEF ChainInv, RedactionSound, Declared
    <2>3. r.status = "ready" => r.below = ToImport \cup {"package"}
      <3> SUFFICES ASSUME r.status = "ready" PROVE r.below = ToImport \cup {"package"}
        OBVIOUS
      <3>1. ~failed /\ d.status # "manual_review" /\ package # "manual_review"
        BY OverallReady
      <3>2. d.status = "ready" /\ Below(d.below, "redaction", d.status) = d.below \cup {"redaction"}
        BY <3>1, ReadyBelow
      <3>3. r.below = (d.below \cup {"redaction"}) \cup {"package"}
        BY <3>1, <3>2, ReadyBelow
      <3> QED BY <1>1, <3>2, <3>3 DEF ChainInv, RedactionSound, RestsOn, ToImport
    <2>4. ASSUME NEW id \in DOMAIN r.slots, r.slots[id].status = "ready_for_public_derivative"
          PROVE  <<r.slots[id].kind, r.slots[id].schema>> \in released /\ ToImport \subseteq r.below
      <3>1. d.status = "ready" /\ d.slots[id].status = "ready_for_sanitized_derivative"
        BY <2>1, <2>4, ImportReleases
      <3>2. <<r.slots[id].kind, r.slots[id].schema>> \in released /\ ToRedaction \subseteq d.below
        BY <1>1, <2>1, <3>1 DEF ChainInv, RedactionSound, Released
      <3>3. ToImport \subseteq Below(d.below, "redaction", d.status)
        BY <3>1, <3>2, BelowGrows DEF ToImport
      <3>4. Below(d.below, "redaction", d.status) \subseteq r.below
        BY BelowGrows
      <3> QED BY <3>2, <3>3, <3>4
    <2> QED BY <1>1, <1>2, <2>2, <2>3, <2>4 DEF ImportSound, Declared, RestsOn, Released
  <1> QED BY <1>1, <1>2, <1>3, OthersKeep DEF ChainInv, Stages

LEMMA PlaceholdersKeep ==
    ASSUME ChainInv, NEW m, NEW require_schemas, BuildPlaceholders(m, require_schemas)
    PROVE  ChainInv'
  <1> DEFINE i == file["import"]
             items == [id \in DOMAIN i.slots |-> PlaceholderSlot(i.slots[id])]
             failed == \/ ~m.fits \/ StatusFails(i.status, m.require_ready)
                       \/ require_schemas /\ Schemaless(items)
             manual == i.status = "manual_review" \/ Schemaless(items)
             blocked == \/ Has(items, "blocked_until_import_ready")
                        \/ Has(items, "blocked_missing_derivative_schema")
             r == [status |-> IF ~failed /\ ~manual /\ blocked THEN "blocked" ELSE Overall(failed, manual),
                   slots |-> items, below |-> Below(i.below, "import", i.status)]
  <1>1. Run("placeholder", r) /\ i # NoFile /\ UNCHANGED <<declared, released>>
    BY DEF BuildPlaceholders
  <1>2. FilesTyped' /\ file'["placeholder"] = r
        /\ \A s \in Stages \ {"placeholder"} : file'[s] = file[s]
    BY <1>1, RunWrites DEF ChainInv, Stages
  <1>3. PlaceholderSound'
    <2>1. \A id \in DOMAIN r.slots : /\ id \in DOMAIN i.slots
                                     /\ r.slots[id] = PlaceholderSlot(i.slots[id])
                                     /\ r.slots[id].kind = i.slots[id].kind
                                     /\ r.slots[id].schema = i.slots[id].schema
      BY DEF PlaceholderSlot
    <2>2. \A id \in DOMAIN r.slots : <<id, r.slots[id].kind>> \in declared
      BY <1>1, <2>1 DEF ChainInv, ImportSound, Declared
    <2>3. r.status = "ready" => ~failed /\ ~manual /\ ~blocked
      BY OverallReady
    <2>4. r.status = "ready" => r.below = ToImport \cup {"package", "import"}
      <3> SUFFICES ASSUME r.status = "ready" PROVE r.below = ToImport \cup {"package", "import"}
        OBVIOUS
      <3>1. i.status = "ready" /\ r.below = i.below \cup {"import"}
        BY <2>3, ReadyBelow
      <3> QED BY <1>1, <3>1 DEF ChainInv, ImportSound, RestsOn
    <2>5. ASSUME r.status = "ready", NEW id \in DOMAIN r.slots
          PROVE  r.slots[id].status \in {"private_only", "awaiting_sanitized_derivative_artifact"}
      BY <2>1, <2>3, <2>5 DEF Has, PlaceholderSlot
    <2>6. ASSUME NEW id \in DOMAIN r.slots,
                 r.slots[id].status = "awaiting_sanitized_derivative_artifact"
          PROVE  <<r.slots[id].kind, r.slots[id].schema>> \in released /\ ToImport \subseteq r.below
      <3>1. i.slots[id].status = "ready_for_public_derivative"
        BY <2>1, <2>6 DEF PlaceholderSlot
      <3> QED BY <1>1, <2>1, <3>1, BelowGrows DEF ChainInv, ImportSound, Released
    <2> QED BY <1>1, <1>2, <2>2, <2>4, <2>5, <2>6 DEF PlaceholderSound, Declared, RestsOn, Released
  <1> QED BY <1>1, <1>2, <1>3, OthersKeep DEF ChainInv, Stages

LEMMA AcceptanceKeeps ==
    ASSUME ChainInv, NEW m, NEW require_slots, BuildAcceptance(m, require_slots)
    PROVE  ChainInv'
  <1> DEFINE p == file["placeholder"]
             items == [id \in DOMAIN p.slots |-> AcceptanceItem(p.slots[id])]
             failed == \/ ~m.fits \/ StatusFails(p.status, m.require_ready)
                       \/ Derivatives(items) = {} /\ require_slots
                       \/ Has(items, "blocked_missing_derivative_schema")
             r == [status |-> Overall(failed, p.status = "manual_review" \/ Derivatives(items) = {}),
                   slots |-> items, below |-> Below(p.below, "placeholder", p.status)]
  <1>1. Run("acceptance", r) /\ p # NoFile /\ UNCHANGED <<declared, released>>
    BY DEF BuildAcceptance
  <1>2. FilesTyped' /\ file'["acceptance"] = r
        /\ \A s \in Stages \ {"acceptance"} : file'[s] = file[s]
    BY <1>1, RunWrites DEF ChainInv, Stages
  <1>3. AcceptanceRestsOnHandoff'
    <2>1. \A id \in DOMAIN r.slots : /\ id \in DOMAIN p.slots
                                     /\ r.slots[id] = AcceptanceItem(p.slots[id])
                                     /\ r.slots[id].kind = p.slots[id].kind
                                     /\ r.slots[id].schema = p.slots[id].schema
      BY DEF AcceptanceItem
    <2>2. ASSUME NEW id \in DOMAIN r.slots,
                 r.slots[id].status = "ready_to_accept_sanitized_artifact"
          PROVE  /\ <<id, r.slots[id].kind>> \in declared
                 /\ <<r.slots[id].kind, r.slots[id].schema>> \in released
                 /\ {"review", "handoff", "checklist", "redaction"} \subseteq r.below
      <3>1. p.slots[id].status = "awaiting_sanitized_derivative_artifact"
        BY <2>1, <2>2 DEF AcceptanceItem
      <3>2. <<id, r.slots[id].kind>> \in declared
        BY <1>1, <2>1 DEF ChainInv, PlaceholderSound, Declared
      <3>3. <<r.slots[id].kind, r.slots[id].schema>> \in released /\ ToImport \subseteq p.below
        BY <1>1, <2>1, <3>1 DEF ChainInv, PlaceholderSound, Released
      <3> QED BY <3>2, <3>3, BelowGrows DEF ToImport, ToRedaction
    <2>3. ASSUME r.status = "ready"
          PROVE  /\ r.below = {"review", "package"} \cup (Stages \ {"acceptance"})
                 /\ \A id \in DOMAIN r.slots :
                      r.slots[id].status \in {"private_only", "ready_to_accept_sanitized_artifact"}
      <3>1. ~failed /\ p.status # "manual_review"
        BY <2>3, OverallReady
      <3>2. p.status = "ready" /\ r.below = p.below \cup {"placeholder"}
        BY <3>1, ReadyBelow
      <3>3. /\ p.below = ToImport \cup {"package", "import"}
            /\ \A id \in DOMAIN p.slots :
                 p.slots[id].status \in {"private_only", "awaiting_sanitized_derivative_artifact"}
        BY <1>1, <3>2 DEF ChainInv, PlaceholderSound, RestsOn
      <3>4. \A id \in DOMAIN r.slots : r.slots[id].status # "blocked_missing_derivative_schema"
        BY <3>1 DEF Has
      <3>5. \A id \in DOMAIN r.slots :
              r.slots[id].status \in {"private_only", "ready_to_accept_sanitized_artifact"}
        BY <2>1, <3>3, <3>4 DEF AcceptanceItem
      <3>6. r.below = {"review", "package"} \cup (Stages \ {"acceptance"})
        BY <3>2, <3>3 DEF Stages, ToImport, ToRedaction
      <3> QED BY <3>5, <3>6
    <2> QED BY <1>1, <1>2, <2>2, <2>3 DEF AcceptanceRestsOnHandoff
  <1> QED BY <1>1, <1>2, <1>3, OthersKeep DEF ChainInv, Stages

---------------------------------------------------------------------------
(* The theorems.                                                           *)

LEMMA ChainStarts == ChainInit => ChainInv
  BY DEF ChainInit, ChainInv, FilesTyped, Stages, HandoffSound, ChecklistSound, RedactionSound,
         ImportSound, PlaceholderSound, AcceptanceRestsOnHandoff

LEMMA ChainRests == ChainInv /\ (UNCHANGED chainVars \/ NewInputs) => ChainInv'
  <1> SUFFICES ASSUME ChainInv, UNCHANGED <<file, declared, released>> PROVE ChainInv'
    BY DEF chainVars, NewInputs
  <1> QED BY OthersKeep DEF ChainInv, FilesTyped

\* The tools keep the invariant in every order, with every manifest.
THEOREM ChainInductive == ChainSpec => []ChainInv
  <1>1. ChainInv /\ [ChainNext]_chainVars => ChainInv'
    BY HandoffKeeps, ChecklistKeeps, RedactionKeeps, ImportKeeps, PlaceholdersKeep,
       AcceptanceKeeps, ChainRests DEF ChainNext
  <1> QED BY <1>1, ChainStarts, PTL DEF ChainSpec

\* What is accepted was declared, released and carried through ready stages.
THEOREM AcceptanceRests == ChainSpec => []AcceptanceRestsOnHandoff
  BY ChainInductive, PTL DEF ChainInv

\* In the lab the chain behaves as on its own.
THEOREM ChainInLab == PeerLabSpec => ChainSpec
  <1>1. PeerLabInit => ChainInit
    BY DEF PeerLabInit, ChainAtRest
  <1>2. [PeerLabNext]_labVars => [ChainNext]_chainVars
    BY DEF PeerLabNext, labVars
  <1> QED BY <1>1, <1>2, PTL DEF PeerLabSpec, ChainSpec

---------------------------------------------------------------------------
(***************************************************************************)
(* What a clear regression gate rests on, for every set of peers, every    *)
(* policy and manifest, and reports of any age.                            *)
(***************************************************************************)
\* The statuses of a report that is judged: the worst, and the one that is clear.
Worst == [readiness_report |-> "not_ready", topology_report |-> "topology_blocked",
          lab_bundle_report |-> "blocked", trust_report |-> "untrusted",
          rehearsal_report |-> "blocked", evidence_intake_report |-> "rejected"]
Clear == [readiness_report |-> "ready", topology_report |-> "topology_ready",
          lab_bundle_report |-> "synthetic_ready", trust_report |-> "trusted",
          rehearsal_report |-> "rehearsal_ready", evidence_intake_report |-> "accepted"]

\* A judged report that is clear rests, under strict policies, on no bad route.
Sound(r, worst, clear) ==
  /\ r.status \in {worst, "manual_review", clear}
  /\ Strict /\ r.status = clear => ~r.shaky

JudgedKinds == Kinds \ {"route_history_report"}
JudgedSound == \A k \in JudgedKinds : report[k] # Missing => Sound(report[k], Worst[k], Clear[k])

\* A history rests on a bad route exactly when it shows one.
ShowsBad(history) == \E t \in DOMAIN history.last : history.last[t] \in Bad
HistorySound ==
  report["route_history_report"] # Missing =>
    report["route_history_report"].shaky = ShowsBad(report["route_history_report"])

\* The scorecards: what is clear on them rests, under strict policies, on no bad route.
Scores == {"missing", "blocked", "manual_review", "synthetic_clear"}
Cards == [artifacts : UNION {[K -> Scores] : K \in SUBSET ScoredKinds},
          overall : {"blocked", "manual_review", "synthetic_clear"}, shaky : SUBSET ScoredKinds]
ClearIsSound(card) ==
  Strict => \A k \in DOMAIN card.artifacts : card.artifacts[k] = "synthetic_clear" => k \notin card.shaky

ReportsTyped == /\ lab \in Labs /\ report = [k \in Kinds |-> report[k]]
                /\ scorecards \in Seq(Cards)
CardsSound == \A i \in DOMAIN scorecards : ClearIsSound(scorecards[i])

AllClear(card) == \A k \in DOMAIN card.artifacts : card.artifacts[k] = "synthetic_clear"
LedgerSound ==
  ledger # Missing =>
    /\ ClearIsSound(ledger.last)
    /\ ledger.overall \in {"blocked", "manual_review", "synthetic_clear"}
    /\ ledger.overall = "synthetic_clear" => AllClear(ledger.last)

ReportsInv == /\ ReportsTyped /\ HistorySound /\ JudgedSound /\ CardsSound /\ LedgerSound
              /\ ClearRestsOnClear

---------------------------------------------------------------------------
(* How a report is written.                                                *)

\* Policies do not change, so what is strict stays strict.
LEMMA StrictStays == lab' = lab => (Strict' <=> Strict)
  BY DEF Strict

\* A sound report of a kind that is judged leaves the invariant.
LEMMA JudgedKeeps ==
    ASSUME ReportsInv, NEW kind \in JudgedKinds, NEW r, Sound(r, Worst[kind], Clear[kind]),
           WriteReport(kind, r)
    PROVE  ReportsInv'
  <1>1. UNCHANGED <<lab, scorecards, ledger, gate>>
    BY DEF WriteReport
  <1>2. /\ report' = [k \in Kinds |-> report'[k]] /\ report'[kind] = r
        /\ \A k \in Kinds \ {kind} : report'[k] = report[k]
    BY DEF WriteReport, ReportsInv, ReportsTyped, JudgedKinds
  <1>3. ReportsTyped'
    BY <1>1, <1>2 DEF ReportsInv, ReportsTyped
  <1>4. HistorySound'
    BY <1>2 DEF ReportsInv, HistorySound, JudgedKinds, Kinds, ShowsBad
  <1>5. ASSUME NEW k \in JudgedKinds, report'[k] # Missing PROVE Sound(report'[k], Worst[k], Clear[k])
    <2>1. CASE k = kind
      BY <1>2, <2>1
    <2>2. CASE k # kind
      BY <1>2, <1>5, <2>2 DEF ReportsInv, JudgedSound, JudgedKinds
    <2> QED BY <2>1, <2>2
  <1>6. JudgedSound'
    BY <1>1, <1>5, StrictStays DEF JudgedSound, Sound
  <1>7. CardsSound' /\ LedgerSound' /\ ClearRestsOnClear'
    BY <1>1, StrictStays DEF ReportsInv, CardsSound, LedgerSound, ClearRestsOnClear, ClearIsSound, AllClear
  <1> QED BY <1>3, <1>4, <1>6, <1>7 DEF ReportsInv

\* What leaves the reports and what is made of them leaves the invariant.
LEMMA OthersRest ==
    ASSUME ReportsInv, UNCHANGED <<lab, report, scorecards, ledger, gate>>
    PROVE  ReportsInv'
  <1>1. ReportsTyped' /\ HistorySound'
    BY DEF ReportsInv, ReportsTyped, HistorySound, ShowsBad
  <1>2. JudgedSound'
    BY StrictStays DEF ReportsInv, JudgedSound, Sound
  <1>3. CardsSound' /\ LedgerSound' /\ ClearRestsOnClear'
    BY StrictStays DEF ReportsInv, CardsSound, LedgerSound, ClearRestsOnClear, ClearIsSound, AllClear
  <1> QED BY <1>1, <1>2, <1>3 DEF ReportsInv

---------------------------------------------------------------------------
(* The reports, one by one.                                                *)

LEMMA HistoryKeeps ==
    ASSUME ReportsInv, NEW picked, BuildRouteHistory(picked)
    PROVE  ReportsInv'
  <1>1. UNCHANGED <<lab, scorecards, ledger, gate>>
        /\ report' = [report EXCEPT !["route_history_report"] = RouteHistory(picked)]
    BY DEF BuildRouteHistory, WriteReport
  <1>2. /\ report' = [k \in Kinds |-> report'[k]]
        /\ report'["route_history_report"] = RouteHistory(picked)
        /\ \A k \in JudgedKinds : report'[k] = report[k]
    BY <1>1 DEF ReportsInv, ReportsTyped, JudgedKinds, Kinds
  <1>3. RouteHistory(picked).shaky = ShowsBad(RouteHistory(picked))
    BY DEF RouteHistory, ShowsBad
  <1>4. ReportsTyped' /\ HistorySound'
    BY <1>1, <1>2, <1>3 DEF ReportsInv, ReportsTyped, HistorySound, ShowsBad
  <1>5. JudgedSound'
    BY <1>1, <1>2, StrictStays DEF ReportsInv, JudgedSound, Sound
  <1>6. CardsSound' /\ LedgerSound' /\ ClearRestsOnClear'
    BY <1>1, StrictStays DEF ReportsInv, CardsSound, LedgerSound, ClearRestsOnClear, ClearIsSound, AllClear
  <1> QED BY <1>4, <1>5, <1>6 DEF ReportsInv

LEMMA ReadinessSound ==
    ASSUME NEW history, history.shaky = ShowsBad(history)
    PROVE  Sound(Readiness(history), "not_ready", "ready")
  <1> DEFINE tracked == DOMAIN history.last
             failed == \/ history.count < lab.readiness.min_history_reports
                       \/ Cardinality(tracked) < lab.readiness.min_tracked_routes
                       \/ \E t \in tracked : \/ history.last[t] \in lab.readiness.require_no
                                             \/ ~RouteReady(history, t)
             r == Readiness(history)
  <1>1. /\ r.status = Verdict(failed, lab.readiness.operator_approval_required, "not_ready", "ready")
        /\ r.shaky = history.shaky
    BY DEF Readiness, Judged
  <1>2. r.status \in {"not_ready", "manual_review", "ready"} /\ (r.status = "ready" => ~failed)
    BY <1>1 DEF Verdict
  <1>3. ASSUME Strict, r.status = "ready" PROVE ~ShowsBad(history)
    <2>1. \A t \in tracked : history.last[t] \in lab.readiness.allowed_last_statuses
      BY <1>2, <1>3 DEF RouteReady
    <2> QED BY <1>3, <2>1 DEF Strict, ShowsBad
  <1> QED BY <1>1, <1>2, <1>3 DEF Sound

LEMMA TopologySound ==
    ASSUME NEW health
    PROVE  Sound(Topology(health), "topology_blocked", "topology_ready")
  <1> DEFINE expected == lab.topology.expected_targets
             edges(statuses) == {t \in expected : Reachability(health, t) \in statuses}
             reachable == Cardinality(edges({"healthy"}))
             failed == \/ Foreign("route_config") \/ Foreign("route_health_report")
                       \/ lab.topology.require_all_expected_routes /\ edges({"missing_route"}) # {}
                       \/ reachable < lab.topology.min_healthy_route_count
                       \/ 1 + reachable < lab.topology.min_reachable_agent_count
                       \/ lab.topology.require_no_unhealthy_routes /\ edges({"healthy"}) # expected
             r == Topology(health)
  <1>1. /\ r.status = Verdict(failed, edges({"healthy"}) # expected, "topology_blocked", "topology_ready")
        /\ r.shaky = (edges(Bad) # {})
    BY DEF Topology, Judged
  <1>2. /\ r.status \in {"topology_blocked", "manual_review", "topology_ready"}
        /\ r.status = "topology_ready" => edges({"healthy"}) = expected
    BY <1>1 DEF Verdict
  <1>3. edges({"healthy"}) = expected => edges(Bad) = {}
    BY DEF Bad
  <1> QED BY <1>1, <1>2, <1>3 DEF Sound

LEMMA BundleSound ==
    ASSUME NEW topology, Sound(topology, "topology_blocked", "topology_ready"),
           NEW readiness, Sound(readiness, "not_ready", "ready")
    PROVE  Sound(Bundle(topology, readiness), "blocked", "synthetic_ready")
  <1> DEFINE failed == \/ \E k \in BundledKinds : Foreign(k)
                       \/ topology.status = "topology_blocked" \/ readiness.status = "not_ready"
             manual == \/ "manual_review" \in {topology.status, readiness.status}
                       \/ lab.bundle.approval = "required"
             r == Bundle(topology, readiness)
  <1>1. /\ r.status = Verdict(failed, manual, "blocked", "synthetic_ready")
        /\ r.shaky = (topology.shaky \/ readiness.shaky)
    BY DEF Bundle, Judged
  <1>2. /\ r.status \in {"blocked", "manual_review", "synthetic_ready"}
        /\ r.status = "synthetic_ready" => ~failed /\ ~manual
    BY <1>1 DEF Verdict
  <1>3. r.status = "synthetic_ready" => topology.status = "topology_ready" /\ readiness.status = "ready"
    BY <1>2 DEF Sound
  <1> QED BY <1>1, <1>2, <1>3 DEF Sound

LEMMA TrustSound ==
    ASSUME NEW bundle, Sound(bundle, "blocked", "synthetic_ready")
    PROVE  Sound(Trust(bundle), "untrusted", "trusted")
  <1> DEFINE judge == lab.trust.require_trusted_bundle_status
             failed == \/ Foreign("route_config") \/ Foreign("lab_bundle_report")
                       \/ judge /\ bundle.status = "blocked"
                       \/ ~(Configured \subseteq lab.trust.allowed_agent_ids)
                       \/ ~lab.trust.samples_trusted
             manual == \/ judge /\ bundle.status = "manual_review"
                       \/ lab.trust.operator_review_required
             r == Trust(bundle)
  <1>1. r.status = Verdict(failed, manual, "untrusted", "trusted") /\ r.shaky = bundle.shaky
    BY DEF Trust, Judged
  <1>2. /\ r.status \in {"untrusted", "manual_review", "trusted"}
        /\ r.status = "trusted" => ~failed /\ ~manual
    BY <1>1 DEF Verdict
  <1>3. Strict /\ r.status = "trusted" => bundle.status = "synthetic_ready"
    BY <1>2 DEF Sound, Strict
  <1> QED BY <1>1, <1>2, <1>3 DEF Sound

LEMMA RehearsalSound ==
    ASSUME NEW bundle, Sound(bundle, "blocked", "synthetic_ready"),
           NEW trust, Sound(trust, "untrusted", "trusted")
    PROVE  Sound(Rehearsal(bundle, trust), "blocked", "rehearsal_ready")
  <1> DEFINE failed == \/ \E k \in {"lab_bundle_report", "trust_report"} : Foreign(k)
                       \/ bundle.status \notin lab.rehearsal.required_lab_bundle_statuses
                       \/ trust.status \notin lab.rehearsal.required_trust_statuses
             manual == \/ "manual_review" \in {bundle.status, trust.status}
                       \/ lab.rehearsal.review = "required"
             r == Rehearsal(bundle, trust)
  <1>1. /\ r.status = Verdict(failed, manual, "blocked", "rehearsal_ready")
        /\ r.shaky = (bundle.shaky \/ trust.shaky)
    BY DEF Rehearsal, Judged
  <1>2. /\ r.status \in {"blocked", "manual_review", "rehearsal_ready"}
        /\ r.status = "rehearsal_ready" => ~failed /\ ~manual
    BY <1>1 DEF Verdict
  <1>3. Strict /\ r.status = "rehearsal_ready" =>
          bundle.status = "synthetic_ready" /\ trust.status = "trusted"
    BY <1>2 DEF Sound, Strict
  <1> QED BY <1>1, <1>2, <1>3 DEF Sound

\* What the intake takes of a kind, it takes of a sound report.
LEMMA EvidenceAccepted ==
    ASSUME ReportsInv, Strict, NEW k \in lab.evidence.required \cup lab.evidence.optional,
           k \in Kinds => report[k] # Missing, Evidence(k) \notin {"rejected", "manual_review"}
    PROVE  ~Shaky(k)
  <1>1. k \in {"rehearsal_report", "trust_report", "cleanup_record"}
    BY ReportsAssumption DEF ReportsInv, ReportsTyped, Strict, EvidenceKinds
  <1>2. CASE k = "rehearsal_report"
    <2>1. report[k].status = "rehearsal_ready"
      BY <1>2 DEF Evidence, Strict
    <2>2. Sound(report[k], "blocked", "rehearsal_ready")
      BY <1>2 DEF ReportsInv, JudgedSound, JudgedKinds, Kinds, Worst, Clear
    <2> QED BY <1>2, <2>1, <2>2 DEF Sound, Shaky, Kinds
  <1>3. CASE k = "trust_report"
    <2>1. report[k].status \notin {"untrusted", "manual_review"}
      BY <1>3 DEF Evidence
    <2>2. Sound(report[k], "untrusted", "trusted")
      BY <1>3 DEF ReportsInv, JudgedSound, JudgedKinds, Kinds, Worst, Clear
    <2> QED BY <1>3, <2>1, <2>2 DEF Sound, Shaky, Kinds
  <1>4. CASE k = "cleanup_record"
    BY <1>4 DEF Shaky, Kinds
  <1> QED BY <1>1, <1>2, <1>3, <1>4

LEMMA EvidenceKeeps == ReportsInv /\ BuildEvidence => ReportsInv'
  <1> SUFFICES ASSUME ReportsInv, BuildEvidence PROVE ReportsInv'
    OBVIOUS
  <1> DEFINE m == lab.evidence
             listed == (m.required \cup m.optional) \cap m.paths
             failed == m.required \ m.paths # {} \/ \E k \in listed : Evidence(k) = "rejected"
             manual == m.optional \ m.paths # {} \/ \E k \in listed : Evidence(k) = "manual_review"
             shaky == \E k \in listed : Shaky(k)
             r == Judged(Verdict(failed, manual, "rejected", "accepted"), shaky)
  <1>1. Found(listed) /\ WriteReport("evidence_intake_report", r)
    BY DEF BuildEvidence
  <1>2. Sound(r, "rejected", "accepted")
    <2>1. r.status = Verdict(failed, manual, "rejected", "accepted") /\ r.shaky = shaky
      BY DEF Judged
    <2>2. /\ r.status \in {"rejected", "manual_review", "accepted"}
          /\ r.status = "accepted" => ~failed /\ ~manual
      BY <2>1 DEF Verdict
    <2>3. ASSUME Strict, r.status = "accepted", NEW k \in listed PROVE ~Shaky(k)
      <3>1. Evidence(k) \notin {"rejected", "manual_review"}
        BY <2>2, <2>3
      <3>2. k \in Kinds => report[k] # Missing
        BY <1>1 DEF Found, There
      <3> QED BY <2>3, <3>1, <3>2, EvidenceAccepted
    <2> QED BY <2>1, <2>2, <2>3 DEF Sound
  <1> QED BY <1>1, <1>2, JudgedKeeps DEF JudgedKinds, Kinds, Worst, Clear

LEMMA JudgedReportsKeep ==
    ASSUME ReportsInv,
           BuildReadiness \/ BuildTopology \/ BuildBundle \/ BuildTrust \/ BuildRehearsal
    PROVE  ReportsInv'
  <1>1. \A k \in JudgedKinds : report[k] # Missing => Sound(report[k], Worst[k], Clear[k])
    BY DEF ReportsInv, JudgedSound
  <1>2. /\ report["topology_report"] # Missing =>
             Sound(report["topology_report"], "topology_blocked", "topology_ready")
        /\ report["readiness_report"] # Missing => Sound(report["readiness_report"], "not_ready", "ready")
        /\ report["lab_bundle_report"] # Missing =>
             Sound(report["lab_bundle_report"], "blocked", "synthetic_ready")
        /\ report["trust_report"] # Missing => Sound(report["trust_report"], "untrusted", "trusted")
    BY <1>1 DEF JudgedKinds, Kinds, Worst, Clear
  <1>3. CASE BuildReadiness
    <2> DEFINE h == report["route_history_report"]
    <2>1. h # Missing /\ WriteReport("readiness_report", Readiness(h))
      BY <1>3 DEF BuildReadiness, There
    <2>2. Sound(Readiness(h), "not_ready", "ready")
      BY <2>1, ReadinessSound DEF ReportsInv, HistorySound
    <2> QED BY <2>1, <2>2, JudgedKeeps DEF JudgedKinds, Kinds, Worst, Clear
  <1>4. CASE BuildTopology
    BY <1>4, TopologySound, JudgedKeeps DEF BuildTopology, JudgedKinds, Kinds, Worst, Clear
  <1>5. CASE BuildBundle
    <2> DEFINE t == report["topology_report"]
               d == report["readiness_report"]
    <2>1. t # Missing /\ d # Missing /\ WriteReport("lab_bundle_report", Bundle(t, d))
      BY <1>5 DEF BuildBundle, There, BundledKinds
    <2>2. Sound(Bundle(t, d), "blocked", "synthetic_ready")
      BY <1>2, <2>1, BundleSound
    <2> QED BY <2>1, <2>2, JudgedKeeps DEF JudgedKinds, Kinds, Worst, Clear
  <1>6. CASE BuildTrust
    <2> DEFINE b == report["lab_bundle_report"]
    <2>1. b # Missing /\ WriteReport("trust_report", Trust(b))
      BY <1>6 DEF BuildTrust, There
    <2>2. Sound(Trust(b), "untrusted", "trusted")
      BY <1>2, <2>1, TrustSound
    <2> QED BY <2>1, <2>2, JudgedKeeps DEF JudgedKinds, Kinds, Worst, Clear
  <1>7. CASE BuildRehearsal
    <2> DEFINE b == report["lab_bundle_report"]
               t == report["trust_report"]
    <2>1. b # Missing /\ t # Missing /\ WriteReport("rehearsal_report", Rehearsal(b, t))
      BY <1>7 DEF BuildRehearsal, There
    <2>2. Sound(Rehearsal(b, t), "blocked", "rehearsal_ready")
      BY <1>2, <2>1, RehearsalSound
    <2> QED BY <2>1, <2>2, JudgedKeeps DEF JudgedKinds, Kinds, Worst, Clear
  <1> QED BY <1>3, <1>4, <1>5, <1>6, <1>7

---------------------------------------------------------------------------
(* The scorecards, their history and the gate.                             *)

\* The score of a file, and when it is clear.
LEMMA ScoreIsSound ==
    ASSUME ReportsInv, NEW k \in ScoredKinds, k \in Kinds => report[k] # Missing
    PROVE  /\ ScoreOf(k) \in Scores
           /\ Strict /\ ScoreOf(k) = "synthetic_clear" => ~Shaky(k)
  <1>1. k \in {"readiness_report", "lab_bundle_report", "trust_report", "rehearsal_report",
               "evidence_intake_report", "route_history_report", "route_health_report", "cleanup_record"}
    BY DEF ScoredKinds, Kinds
  <1>2. CASE k \in {"readiness_report", "lab_bundle_report", "trust_report", "rehearsal_report",
                    "evidence_intake_report"}
    <2>1. k \in DOMAIN ReadyStatus /\ k \in Kinds /\ ReadyStatus[k] = Clear[k]
      BY <1>2 DEF ReadyStatus, Kinds, Clear
    <2>2. ScoreOf(k) = CASE report[k].status = ReadyStatus[k] -> "synthetic_clear"
                         [] report[k].status = "manual_review" -> "manual_review"
                         [] OTHER -> "blocked"
      BY <1>2, <2>1 DEF ScoreOf, ReadyStatus
    <2>3. /\ ScoreOf(k) \in {"synthetic_clear", "manual_review", "blocked"}
          /\ ScoreOf(k) = "synthetic_clear" => report[k].status = Clear[k]
      BY <2>1, <2>2
    <2>4. Sound(report[k], Worst[k], Clear[k])
      BY <1>2, <2>1 DEF ReportsInv, JudgedSound, JudgedKinds
    <2>5. Shaky(k) = report[k].shaky
      BY <1>2, <2>1 DEF Shaky, Kinds
    <2> QED BY <2>3, <2>4, <2>5 DEF Sound, Scores
  <1>3. CASE k = "route_history_report"
    <2> DEFINE r == report["route_history_report"]
               failed == HistoryHas("unavailable") \/ \E t \in DOMAIN r.trend : r.trend[t] = "worsening"
    <2>1. ScoreOf(k) = Verdict(failed, HistoryHas("unknown"), "blocked", "synthetic_clear")
      BY <1>3 DEF ScoreOf, ReadyStatus
    <2>2. /\ ScoreOf(k) \in {"synthetic_clear", "manual_review", "blocked"}
          /\ ScoreOf(k) = "synthetic_clear" => ~HistoryHas("unavailable") /\ ~HistoryHas("unknown")
      BY <2>1 DEF Verdict
    <2>3. Shaky(k) = ShowsBad(r)
      BY <1>3 DEF Shaky, Kinds, ReportsInv, HistorySound
    <2>4. ~HistoryHas("unavailable") /\ ~HistoryHas("unknown") => ~ShowsBad(r)
      BY DEF HistoryHas, ShowsBad, Bad
    <2> QED BY <2>2, <2>3, <2>4 DEF Scores
  <1>4. CASE k = "route_health_report"
    <2>1. ScoreOf(k) = Verdict(HealthHas("unavailable"), HealthHas("unknown"), "blocked", "synthetic_clear")
      BY <1>4 DEF ScoreOf, ReadyStatus
    <2>2. /\ ScoreOf(k) \in {"synthetic_clear", "manual_review", "blocked"}
          /\ ScoreOf(k) = "synthetic_clear" => ~HealthHas("unavailable") /\ ~HealthHas("unknown")
      BY <2>1 DEF Verdict
    <2>3. Shaky(k) = \E s \in Bad : HealthHas(s)
      BY <1>4 DEF Shaky, Kinds
    <2> QED BY <2>2, <2>3 DEF Scores, Bad
  <1>5. CASE k = "cleanup_record"
    <2>1. ScoreOf(k) = IF lab.cleanup_status = "completed" THEN "synthetic_clear" ELSE "manual_review"
      BY <1>5 DEF ScoreOf, ReadyStatus
    <2>2. ~Shaky(k)
      BY <1>5 DEF Shaky, Kinds
    <2> QED BY <2>1, <2>2 DEF Scores
  <1> QED BY <1>1, <1>2, <1>3, <1>4, <1>5

LEMMA ScorecardKeeps ==
    ASSUME ReportsInv, NEW left, BuildScorecard(left)
    PROVE  ReportsInv'
  <1> DEFINE required == lab.scorecard.required
             listed == (required \cup lab.scorecard.optional) \ left
             card == Scorecard(required, listed)
  <1>1. /\ Found(listed \cap lab.scorecard.paths) /\ scorecards' = Append(scorecards, card)
        /\ UNCHANGED <<lab, report, ledger, gate>>
    BY DEF BuildScorecard
  <1>2. listed \subseteq ScoredKinds
    BY ReportsAssumption DEF ReportsInv, ReportsTyped
  <1>3. ASSUME NEW k \in listed
        PROVE  /\ Artifact(k) \in Scores
               /\ Artifact(k) = "synthetic_clear" => k \in lab.scorecard.paths
               /\ Strict /\ Artifact(k) = "synthetic_clear" => ~Shaky(k)
    <2>1. CASE k \in lab.scorecard.paths /\ ~Foreign(k)
      <3>1. k \in Kinds => report[k] # Missing
        BY <1>1, <2>1 DEF Found, There
      <3>2. Artifact(k) = ScoreOf(k)
        BY <2>1 DEF Artifact
      <3> QED BY <1>2, <2>1, <3>1, <3>2, ScoreIsSound
    <2>2. CASE ~(k \in lab.scorecard.paths /\ ~Foreign(k))
      BY <2>2 DEF Artifact, Scores
    <2> QED BY <2>1, <2>2
  <1>4. card.artifacts = [k \in listed |-> Artifact(k)]
        /\ card.shaky = {k \in listed \cap lab.scorecard.paths : Shaky(k)}
    BY DEF Scorecard
  <1>5. card \in Cards
    <2>1. card.artifacts \in [listed -> Scores]
      BY <1>3, <1>4
    <2>2. card.overall \in {"blocked", "manual_review", "synthetic_clear"}
      BY DEF Scorecard, Verdict
    <2>3. card = [artifacts |-> card.artifacts, overall |-> card.overall, shaky |-> card.shaky]
      BY DEF Scorecard
    <2> QED BY <1>2, <1>4, <2>1, <2>2, <2>3 DEF Cards
  <1>6. ClearIsSound(card)
    BY <1>3, <1>4 DEF ClearIsSound
  <1>7. scorecards \in Seq(Cards)
    BY DEF ReportsInv, ReportsTyped
  <1>8. /\ scorecards' \in Seq(Cards)
        /\ \A i \in DOMAIN scorecards' :
             \/ scorecards'[i] = card
             \/ i \in DOMAIN scorecards /\ scorecards'[i] = scorecards[i]
    <2> HIDE DEF card
    <2> QED BY <1>1, <1>5, <1>7
  <1>9. ReportsTyped' /\ HistorySound'
    BY <1>1, <1>8 DEF ReportsInv, ReportsTyped, HistorySound, ShowsBad
  <1>10. JudgedSound' /\ LedgerSound' /\ ClearRestsOnClear'
    BY <1>1, StrictStays DEF ReportsInv, JudgedSound, Sound, LedgerSound, ClearRestsOnClear,
                             ClearIsSound, AllClear
  <1>11. CardsSound'
    <2>1. \A i \in DOMAIN scorecards' : ClearIsSound(scorecards'[i])
      BY <1>6, <1>8 DEF ReportsInv, CardsSound
    <2> QED BY <1>1, <2>1, StrictStays DEF CardsSound, ClearIsSound
  <1> QED BY <1>9, <1>10, <1>11 DEF ReportsInv

\* The scorecards a history is made of are some that are kept.
LEMMA PicksAreKept ==
    ASSUME ReportsInv, NEW p \in Picks(scorecards, MaxScorecards)
    PROVE  /\ Len(p) \in Nat \ {0} /\ DOMAIN p = 1 .. Len(p)
           /\ \A i \in 1 .. Len(p) : /\ p[i] \in DOMAIN scorecards
                                      /\ scorecards[p[i]] \in Cards /\ ClearIsSound(scorecards[p[i]])
  <1>1. PICK n \in 1 .. MaxScorecards : p \in [1 .. n -> 1 .. MaxScorecards]
    BY DEF Picks
  <1>2. MaxScorecards \in Nat
    BY ReportsAssumption
  <1>3. n \in Nat /\ n > 0
    BY <1>2
  <1>4. Len(p) = n /\ DOMAIN p = 1 .. n
    BY <1>1, <1>3
  <1>5. \A i \in DOMAIN p : p[i] \in DOMAIN scorecards
    BY DEF Picks
  <1>6. \A i \in DOMAIN scorecards : scorecards[i] \in Cards /\ ClearIsSound(scorecards[i])
    BY DEF ReportsInv, ReportsTyped, CardsSound
  <1> QED BY <1>3, <1>4, <1>5, <1>6

\* When a history is clear, so is all of its last scorecard.
LEMMA LedgerIsSound ==
    ASSUME ReportsInv, NEW p \in Picks(scorecards, MaxScorecards)
    PROVE  /\ ClearIsSound(Ledger(p).last)
           /\ Ledger(p).overall \in {"blocked", "manual_review", "synthetic_clear"}
           /\ Ledger(p).overall = "synthetic_clear" => AllClear(Ledger(p).last)
  <1> DEFINE cards == [i \in DOMAIN p |-> scorecards[p[i]]]
             kinds == UNION {DOMAIN cards[i].artifacts : i \in DOMAIN cards}
             samples(k) == [i \in DOMAIN cards |-> IF k \in DOMAIN cards[i].artifacts
                                                   THEN cards[i].artifacts[k] ELSE "missing"]
             trends == [k \in kinds |-> TrendOf(samples(k), ClearScore)]
             finals == [k \in kinds |-> Last(samples(k))]
             n == Len(p)
             last == scorecards[p[n]]
  <1>1. Ledger(p).last = Last(cards) /\ Ledger(p).overall = LedgerStatus(Last(cards), trends, finals)
    BY DEF Ledger
  <1>2. n \in Nat /\ n > 0 /\ DOMAIN p = 1 .. n /\ n \in 1 .. n
    BY PicksAreKept
  <1>3. Len(cards) = n /\ Last(cards) = last /\ last \in Cards /\ ClearIsSound(last)
    BY <1>2, PicksAreKept DEF Last
  <1>4. LedgerStatus(last, trends, finals) \in {"blocked", "manual_review", "synthetic_clear"}
    BY DEF LedgerStatus, Verdict
  <1>5. ASSUME LedgerStatus(last, trends, finals) = "synthetic_clear", NEW k \in DOMAIN last.artifacts
        PROVE  last.artifacts[k] = "synthetic_clear"
    <2>1. k \in kinds
      BY <1>2
    <2>2. finals[k] \notin {"blocked", "missing", "manual_review"}
      <3>1. k \in DOMAIN finals
        BY <2>1
      <3> HIDE DEF finals, trends, last
      <3> QED BY <1>5, <3>1 DEF LedgerStatus, Verdict
    <2>3. finals[k] = last.artifacts[k]
      <3>1. Len(samples(k)) = n /\ samples(k)[n] = last.artifacts[k]
        <4>1. DOMAIN samples(k) = 1 .. n
          BY <1>2
        <4>2. cards[n] = last /\ n \in DOMAIN cards
          BY <1>2
        <4>3. samples(k)[n] = last.artifacts[k]
          <5> HIDE DEF cards, last
          <5> QED BY <1>5, <4>2
        <4> HIDE DEF samples
        <4> QED BY <1>2, <4>1, <4>3
      <3>2. finals[k] = Last(samples(k))
        BY <2>1
      <3> QED BY <3>1, <3>2 DEF Last
    <2>4. last.artifacts[k] \in Scores
      BY <1>3, <1>5 DEF Cards
    <2> QED BY <2>2, <2>3, <2>4 DEF Scores
  <1> QED BY <1>1, <1>3, <1>4, <1>5 DEF AllClear

LEMMA ScorecardHistoryKeeps ==
    ASSUME ReportsInv, NEW p \in Picks(scorecards, MaxScorecards), BuildScorecardHistory(p)
    PROVE  ReportsInv'
  <1>1. ledger' = Ledger(p) /\ UNCHANGED <<lab, report, scorecards, gate>>
    BY DEF BuildScorecardHistory
  <1>2. LedgerSound'
    BY <1>1, LedgerIsSound, StrictStays DEF LedgerSound, ClearIsSound, AllClear
  <1>3. ReportsTyped' /\ HistorySound'
    BY <1>1 DEF ReportsInv, ReportsTyped, HistorySound, ShowsBad
  <1>4. JudgedSound' /\ CardsSound' /\ ClearRestsOnClear'
    BY <1>1, StrictStays DEF ReportsInv, JudgedSound, Sound, CardsSound, ClearRestsOnClear, ClearIsSound
  <1> QED BY <1>2, <1>3, <1>4 DEF ReportsInv

\* A clear verdict needs a clear history.
LEMMA RegressionIsClear ==
    ASSUME NEW h, h.overall \in {"blocked", "manual_review", "synthetic_clear"},
           Regression(h) = "regression_clear"
    PROVE  h.overall = "synthetic_clear"
  BY DEF Regression, Verdict

LEMMA RegressionKeeps == ReportsInv /\ BuildRegression => ReportsInv'
  <1> SUFFICES ASSUME ReportsInv, BuildRegression PROVE ReportsInv'
    OBVIOUS
  <1>1. /\ ledger # Missing /\ gate' = [status |-> Regression(ledger), last |-> ledger.last]
        /\ UNCHANGED <<lab, report, scorecards, ledger>>
    BY DEF BuildRegression
  <1>2. gate'.status = "regression_clear" => AllClear(gate'.last) /\ ClearIsSound(gate'.last)
    BY <1>1, RegressionIsClear DEF ReportsInv, LedgerSound
  <1>3. ClearRestsOnClear'
    BY <1>1, <1>2, StrictStays DEF ClearRestsOnClear, AllClear, ClearIsSound
  <1>4. ReportsTyped' /\ HistorySound'
    BY <1>1 DEF ReportsInv, ReportsTyped, HistorySound, ShowsBad
  <1>5. JudgedSound' /\ CardsSound' /\ LedgerSound'
    BY <1>1, StrictStays DEF ReportsInv, JudgedSound, Sound, CardsSound, LedgerSound, ClearIsSound, AllClear
  <1> QED BY <1>3, <1>4, <1>5 DEF ReportsInv

---------------------------------------------------------------------------
(* The theorems.                                                           *)

LEMMA ReportsStart == ReportsInit => ReportsInv
  BY DEF ReportsInit, ReportsInv, ReportsTyped, HistorySound, JudgedSound, JudgedKinds, Kinds,
         CardsSound, LedgerSound, ClearRestsOnClear

\* The tools keep the invariant whichever files they are given.
THEOREM ReportsInductive == ReportsSpec => []ReportsInv
  <1>1. ReportsInv /\ [ReportsNext]_reportVars => ReportsInv'
    <2> SUFFICES ASSUME ReportsInv, [ReportsNext]_reportVars PROVE ReportsInv'
      OBVIOUS
    <2>1. CASE \E new \in LaterRoutes : ChangeRoutes(new)
      BY <2>1, OthersRest DEF ChangeRoutes
    <2>2. CASE BuildHealth \/ UNCHANGED reportVars
      BY <2>2, OthersRest DEF BuildHealth, reportVars
    <2>3. CASE \E picked \in Picks(healths, MaxHealths) : BuildRouteHistory(picked)
      BY <2>3, HistoryKeeps
    <2>4. CASE BuildReadiness \/ BuildTopology \/ BuildBundle \/ BuildTrust \/ BuildRehearsal
      BY <2>4, JudgedReportsKeep
    <2>5. CASE BuildEvidence
      BY <2>5, EvidenceKeeps
    <2>6. CASE \E left \in SUBSET ScoredKinds : BuildScorecard(left)
      BY <2>6, ScorecardKeeps
    <2>7. CASE \E picked \in Picks(scorecards, MaxScorecards) : BuildScorecardHistory(picked)
      BY <2>7, ScorecardHistoryKeeps
    <2>8. CASE BuildRegression
      BY <2>8, RegressionKeeps
    <2> QED BY <2>1, <2>2, <2>3, <2>4, <2>5, <2>6, <2>7, <2>8 DEF ReportsNext
  <1> QED BY <1>1, ReportsStart, PTL DEF ReportsSpec

\* A clear gate rests on clear artifacts and, under strict policies, on no bad route.
THEOREM ClearRests == ReportsSpec => []ClearRestsOnClear
  BY ReportsInductive, PTL DEF ReportsInv

\* In the lab the reports are made as on their own.
THEOREM ReportsInLab == PeerLabSpec => ReportsSpec
  <1>1. PeerLabInit => ReportsInit
    BY DEF PeerLabInit, ReportsAtRest
  <1>2. [PeerLabNext]_labVars => [ReportsNext]_reportVars
    BY DEF PeerLabNext, labVars
  <1> QED BY <1>1, <1>2, PTL DEF PeerLabSpec, ReportsSpec
=============================================================================
