---------------------------- MODULE FleetThreads ----------------------------
(***************************************************************************)
(* The controller under concurrent requests.  FleetServer is a             *)
(* ThreadingHTTPServer: every request runs its handler in a thread of its  *)
(* own over the one FleetState, which has no lock, so the interpreter may  *)
(* switch threads between any two of the steps below.  The module follows  *)
(* the requests that meet at the queue of one target agent: clients that   *)
(* post commands or mirror intents, and the agent that polls the queue and *)
(* reports results.                                                        *)
(*                                                                         *)
(* A Python list is an object that several threads can hold.  "lists" is   *)
(* the heap of the list objects that have been the agent's queue, and      *)
(* "current" is the one commands[agent] refers to now.                     *)
(***************************************************************************)
EXTENDS Naturals, Sequences, SequencesExt

CONSTANTS Clients,      (* each posts its requests one after the other *)
          Polls,        (* connections of the agent: poll, then report *)
          Requests,     (* commands and mirror intents, by name *)
          Keys, None,
          Program,      (* the requests of each client, in order *)
          KeyOf,        (* the idempotency key of each request *)
          ExpiresAt,    (* its expiry *)
          Mirror,       (* the requests that are mirror intents *)
          MaxTime,      (* bound on the wall clock *)
          MaxPolls      (* bound on the number of polls *)

ASSUME ThreadConstants ==
    /\ Program \in [Clients -> Seq(Requests)]
    /\ KeyOf \in [Requests -> Keys]
    /\ ExpiresAt \in [Requests -> Nat]
    /\ Mirror \subseteq Requests
    /\ None \notin Requests
    /\ MaxTime \in Nat /\ MaxPolls \in Nat

\* What some theorems assume of those who send requests, since the handlers do not
\* look: a name stands for one posting ...
PostedOnce ==
    \A c, d \in Clients : \A m \in DOMAIN Program[c], n \in DOMAIN Program[d] :
       Program[c][m] = Program[d][n] => c = d /\ m = n

\* ... the agent sends its next poll after the answer to the one before ...
OneConnection == \A g, h \in Polls : g = h

\* ... and no two clients use one idempotency key of the agent.
OwnKey(k) ==
    \A c, d \in Clients : \A m \in DOMAIN Program[c], n \in DOMAIN Program[d] :
       KeyOf[Program[c][m]] = k /\ KeyOf[Program[d][n]] = k => c = d

OwnKeys == \A k \in Keys : OwnKey(k)

VARIABLES now, lists, current, idempotency_index,
          mirror_intents, mirror_command_index, mirror_events,
          client,      (* the thread that serves each client's request *)
          poll,        (* the thread that serves the agent's connection *)
          delivered,   (* history: what was handed over, in order *)
          answered,    (* history: requests whose response was sent *)
          before,      (* history: <<x, y>>: x was answered before y was posted *)
          owed         (* history: intents a result must reach, by connection *)

queueState == <<lists, current, idempotency_index>>
mirrorState == <<mirror_intents, mirror_command_index, mirror_events>>
history == <<delivered, answered, before, owed>>
vars == <<now, queueState, mirrorState, client, poll, history>>

States == {"none", "queued_for_target", "rejected", "completed"}

Init == /\ now = 0
        /\ lists = << <<>> >>
        /\ current = 1
        /\ idempotency_index = [k \in Keys |-> None]
        /\ mirror_intents = [r \in Requests |-> [state |-> "none", command_id |-> None]]
        /\ mirror_command_index = [r \in Requests |-> <<>>]
        /\ mirror_events = <<>>
        /\ client = [c \in Clients |-> [pc |-> "idle", turn |-> 1, queue |-> 1, command |-> None]]
        /\ poll = [g \in Polls |-> [pc |-> "idle", queue |-> 1, at |-> 1,
                                    kept |-> <<>>, selected |-> None]]
        /\ delivered = <<>>
        /\ answered = {}
        /\ before = {}
        /\ owed = [g \in Polls |-> {}]

TypeOK ==
    /\ now \in 0 .. MaxTime
    /\ lists \in Seq(Seq(Requests)) /\ current \in 1 .. Len(lists)
    /\ idempotency_index \in [Keys -> Requests \cup {None}]
    /\ mirror_intents \in [Requests -> [state : States, command_id : Requests \cup {None}]]
    /\ mirror_command_index \in [Requests -> Seq(Requests)]
    /\ mirror_events \in Seq(Requests \X States)
    /\ client \in [Clients -> [pc : {"idle", "free", "claimed", "bound", "taken", "record",
                                     "list", "log"},
                               turn : Nat \ {0}, queue : 1 .. Len(lists),
                               command : Requests \cup {None}]]
    /\ poll \in [Polls -> [pc : {"idle", "scan", "replace", "look", "answer", "event"},
                           queue : 1 .. Len(lists), at : Nat \ {0},
                           kept : Seq(Requests), selected : Requests \cup {None}]]
    /\ delivered \in Seq(Requests)
    /\ answered \subseteq Requests /\ before \subseteq Requests \X Requests
    /\ owed \in [Polls -> SUBSET Requests]

is_expired(r) == ExpiresAt[r] <= now

Posting(c) == Program[c][client[c].turn]

Goto(c, pc) == client' = [client EXCEPT ![c].pc = pc]

\* The response is sent: the client turns to its next request.
Answer(c) ==
    /\ client' = [client EXCEPT ![c].pc = "idle", ![c].turn = @ + 1]
    /\ answered' = answered \cup {Posting(c)}
    /\ UNCHANGED <<delivered, before, owed>>

-----------------------------------------------------------------------------
(* queue_command and submit_mirror_intent, one interpreter step at a time. *)

\* With a bug: the index is searched for the command's id, not for its key.
KeyIsFreeById(c) == \A k \in Keys : idempotency_index[k] # Posting(c)

KeyIsFree(c) == idempotency_index[KeyOf[Posting(c)]] = None

\* The request arrives: it is refused when expired, else the index is looked at.
\* An intent is posted once here and with a valid lease: a repeated intent id is
\* answered before anything else, and a refused lease changes only the intent.
PostCheck(c) ==
    /\ client[c].pc = "idle" /\ client[c].turn <= Len(Program[c])
    /\ LET r == Posting(c) IN
       \/ /\ is_expired(r)
          /\ Answer(c)
          /\ IF r \in Mirror
             THEN /\ mirror_intents' = [mirror_intents EXCEPT ![r].state = "rejected"]
                  /\ mirror_events' = Append(mirror_events, <<r, "rejected">>)
             ELSE UNCHANGED <<mirror_intents, mirror_events>>
          /\ UNCHANGED mirror_command_index
       \/ /\ ~ is_expired(r)
          /\ Goto(c, IF KeyIsFree(c) THEN "free" ELSE "taken")
          /\ before' = before \cup (answered \X {r})
          /\ UNCHANGED <<mirrorState, delivered, answered, owed>>
    /\ UNCHANGED <<now, queueState, poll>>

\* idempotency_index[...] = command_id
PostClaim(c) ==
    /\ client[c].pc = "free"
    /\ idempotency_index' = [idempotency_index EXCEPT ![KeyOf[Posting(c)]] = Posting(c)]
    /\ Goto(c, "claimed")
    /\ UNCHANGED <<now, lists, current, mirrorState, poll, history>>

\* commands.setdefault(...): the thread holds the list object from now on.
PostBind(c) ==
    /\ client[c].pc = "claimed"
    /\ client' = [client EXCEPT ![c].pc = "bound", ![c].queue = current]
    /\ UNCHANGED <<now, queueState, mirrorState, poll, history>>

\* With a bug: the new command goes to the front.
Prepended(c) == <<Posting(c)>> \o lists[client[c].queue]

Appended(c) == Append(lists[client[c].queue], Posting(c))

\* .append(...), on the list object it holds.
PostAppend(c) ==
    /\ client[c].pc = "bound"
    /\ lists' = [lists EXCEPT ![client[c].queue] = Appended(c)]
    /\ \/ /\ Posting(c) \notin Mirror
          /\ Answer(c)
       \/ /\ Posting(c) \in Mirror
          /\ client' = [client EXCEPT ![c].pc = "record", ![c].command = Posting(c)]
          /\ UNCHANGED history
    /\ UNCHANGED <<now, current, idempotency_index, mirrorState, poll>>

\* The second look at a taken key: it may be gone by now, and the KeyError
\* ends the request without a response.
PostDuplicate(c) ==
    /\ client[c].pc = "taken"
    /\ LET existing == idempotency_index[KeyOf[Posting(c)]] IN
       \/ /\ existing = None
          /\ client' = [client EXCEPT ![c].pc = "idle", ![c].turn = @ + 1]
          /\ UNCHANGED history
       \/ /\ existing # None /\ Posting(c) \notin Mirror
          /\ Answer(c)
       \/ /\ existing # None /\ Posting(c) \in Mirror
          /\ client' = [client EXCEPT ![c].pc = "record", ![c].command = existing]
          /\ UNCHANGED history
    /\ UNCHANGED <<now, queueState, mirrorState, poll>>

\* With a bug: the queue's answer is stored as the intent's state.
RecordAnswer(c) ==
    /\ client[c].pc = "record"
    /\ mirror_intents' = [mirror_intents EXCEPT ![Posting(c)] =
          [state |-> "queued", command_id |-> client[c].command]]
    /\ Goto(c, "list")
    /\ UNCHANGED <<now, queueState, mirror_command_index, mirror_events, poll, history>>

RecordIntent(c) ==
    /\ client[c].pc = "record"
    /\ mirror_intents' = [mirror_intents EXCEPT ![Posting(c)] =
          [state |-> "queued_for_target", command_id |-> client[c].command]]
    /\ Goto(c, "list")
    /\ UNCHANGED <<now, queueState, mirror_command_index, mirror_events, poll, history>>

\* With a bug: a duplicate is listed under its own command, which never runs.
ListUnderOwn(c) ==
    /\ client[c].pc = "list"
    /\ mirror_command_index' =
          [mirror_command_index EXCEPT ![Posting(c)] = Append(@, Posting(c))]
    /\ Goto(c, "log")
    /\ UNCHANGED <<now, queueState, mirror_intents, mirror_events, poll, history>>

ListIntent(c) ==
    /\ client[c].pc = "list"
    /\ mirror_command_index' =
          [mirror_command_index EXCEPT ![client[c].command] = Append(@, Posting(c))]
    /\ Goto(c, "log")
    /\ UNCHANGED <<now, queueState, mirror_intents, mirror_events, poll, history>>

LogIntent(c) ==
    /\ client[c].pc = "log"
    /\ mirror_events' = Append(mirror_events, <<Posting(c), "queued_for_target">>)
    /\ Answer(c)
    /\ UNCHANGED <<now, queueState, mirror_intents, mirror_command_index, poll>>

-----------------------------------------------------------------------------
(* next_command: the queue is iterated while others append to it.          *)

PollStart(g) ==
    /\ poll[g].pc = "idle"
    /\ Len(lists) <= MaxPolls
    /\ poll' = [poll EXCEPT ![g] = [pc |-> "scan", queue |-> current, at |-> 1,
                                    kept |-> <<>>, selected |-> None]]
    /\ UNCHANGED <<now, queueState, mirrorState, client, history>>

\* With a bug: the selected command is kept in the queue as well.
SelectAndKeep(g, r) ==
    poll' = [poll EXCEPT ![g].at = @ + 1, ![g].selected = r, ![g].kept = Append(@, r)]

Select(g, r) == poll' = [poll EXCEPT ![g].at = @ + 1, ![g].selected = r]

\* One turn of the loop over the live list.
PollItem(g) ==
    /\ poll[g].pc = "scan"
    /\ poll[g].at <= Len(lists[poll[g].queue])
    /\ LET r == lists[poll[g].queue][poll[g].at] IN
       \/ /\ is_expired(r)
          /\ idempotency_index' = [idempotency_index EXCEPT ![KeyOf[r]] = None]
          /\ poll' = [poll EXCEPT ![g].at = @ + 1]
       \/ /\ ~ is_expired(r) /\ poll[g].selected = None
          /\ Select(g, r)
          /\ UNCHANGED idempotency_index
       \/ /\ ~ is_expired(r) /\ poll[g].selected # None
          /\ poll' = [poll EXCEPT ![g].at = @ + 1, ![g].kept = Append(@, r)]
          /\ UNCHANGED idempotency_index
    /\ UNCHANGED <<now, lists, current, mirrorState, client, history>>

\* With a bug: the loop stops at the command it selected.
PollEndSelected(g) ==
    /\ poll[g].pc = "scan"
    /\ poll[g].at > Len(lists[poll[g].queue]) \/ poll[g].selected # None
    /\ poll' = [poll EXCEPT ![g].pc = "replace"]
    /\ UNCHANGED <<now, queueState, mirrorState, client, history>>

PollEnd(g) ==
    /\ poll[g].pc = "scan"
    /\ poll[g].at > Len(lists[poll[g].queue])
    /\ poll' = [poll EXCEPT ![g].pc = "replace"]
    /\ UNCHANGED <<now, queueState, mirrorState, client, history>>

\* self.commands[agent_id] = kept, and the response.
PollReplace(g) ==
    /\ poll[g].pc = "replace"
    /\ lists' = Append(lists, poll[g].kept)
    /\ current' = Len(lists) + 1
    /\ poll' = [poll EXCEPT ![g].pc = IF poll[g].selected = None THEN "idle" ELSE "look"]
    /\ delivered' = IF poll[g].selected = None THEN delivered
                    ELSE Append(delivered, poll[g].selected)
    /\ UNCHANGED <<now, idempotency_index, mirrorState, client, answered, before, owed>>

-----------------------------------------------------------------------------
(* record_result for the command that was handed over.                     *)

AnsweredIntents(command) ==
    {r \in answered \cap Mirror : mirror_intents[r].command_id = command}

ReportLook(g) ==
    /\ poll[g].pc = "look"
    /\ owed' = [owed EXCEPT ![g] = AnsweredIntents(poll[g].selected)]
    /\ poll' = [poll EXCEPT ![g].at = 1,
                  ![g].pc = IF mirror_command_index[poll[g].selected] = <<>>
                            THEN "idle" ELSE "answer"]
    /\ UNCHANGED <<now, queueState, mirrorState, client, delivered, answered, before>>

Listed(g) == mirror_command_index[poll[g].selected]

ReportIntent(g) ==
    /\ poll[g].pc = "answer" /\ poll[g].at <= Len(Listed(g))
    /\ mirror_intents' = [mirror_intents EXCEPT ![Listed(g)[poll[g].at]].state = "completed"]
    /\ poll' = [poll EXCEPT ![g].pc = "event"]
    /\ UNCHANGED <<now, queueState, mirror_command_index, mirror_events, client, history>>

ReportEvent(g) ==
    /\ poll[g].pc = "event"
    /\ mirror_events' = Append(mirror_events, <<Listed(g)[poll[g].at], "completed">>)
    /\ poll' = [poll EXCEPT ![g].pc = "answer", ![g].at = @ + 1]
    /\ UNCHANGED <<now, queueState, mirror_intents, mirror_command_index, client, history>>

ReportDone(g) ==
    /\ poll[g].pc = "answer" /\ poll[g].at > Len(Listed(g))
    /\ poll' = [poll EXCEPT ![g].pc = "idle"]
    /\ UNCHANGED <<now, queueState, mirrorState, client, history>>

Tick == /\ now < MaxTime
        /\ now' = now + 1
        /\ UNCHANGED <<queueState, mirrorState, client, poll, history>>

Serve(c) == \/ PostCheck(c) \/ PostClaim(c) \/ PostBind(c) \/ PostAppend(c)
            \/ PostDuplicate(c)
            \/ RecordIntent(c) \/ ListIntent(c) \/ LogIntent(c)

Agent(g) == \/ PollStart(g) \/ PollItem(g) \/ PollEnd(g) \/ PollReplace(g)
            \/ ReportLook(g) \/ ReportIntent(g) \/ ReportEvent(g) \/ ReportDone(g)

Next == \/ \E c \in Clients : Serve(c)
        \/ \E g \in Polls : Agent(g)
        \/ Tick

Spec == Init /\ [][Next]_vars
-----------------------------------------------------------------------------
\* No command is handed over twice, however appends interleave with the loop
\* over the queue and its replacement.
HandedOverOnce == IsInjective(delivered)

\* Real-time order: a command that was accepted before another was posted is
\* not handed over after it.
FirstComeFirstServed ==
    \A i, j \in DOMAIN delivered : i < j => <<delivered[j], delivered[i]>> \notin before

\* The commands that were handed over or still can be.
Live == ToSet(delivered) \cup {r \in ToSet(lists[current]) : ~ is_expired(r)}

\* What a poll has taken over from the list it iterates.
Taken(me) == ToSet(me.kept) \cup ({me.selected} \ {None})

\* A command that was accepted is lost in one way only.  The loop over the list
\* misses none: what it ends with is all that has not expired.  So a command can
\* still be handed over unless it expires, or was appended after the loop had
\* ended: to the list that is then replaced, or to one that has been.
LosesOnlyLate ==
    /\ \A g \in Polls : poll[g].pc = "scan" /\ poll'[g].pc = "replace" =>
          \A x \in ToSet(lists[current]) : is_expired(x) \/ x \in Taken(poll[g])
    /\ \A x \in Live \ Live' :
          is_expired(x)' \/ \E g \in Polls : PollReplace(g) /\ x \notin Taken(poll[g])
    /\ \A c \in Clients : client[c].pc = "bound" /\ client'[c].pc # "bound" =>
          Posting(c) \in Live' \/ is_expired(Posting(c)) \/ client[c].queue # current
LostOnlyLate == [][LosesOnlyLate]_vars

\* A duplicate is never queued beside the command that holds its key.
QueuedOncePerKey == \A x, y \in Live : KeyOf[x] = KeyOf[y] => x = y

\* A source that was told "queued_for_target" before the result came in reads
\* the result's state once the result has been recorded, also when its intent
\* was a duplicate of another one.
AnsweredIntentsGetResult ==
    \A g \in Polls : poll[g].pc = "idle" =>
       \A r \in owed[g] : mirror_intents[r].state = "completed"
=============================================================================
