------------------------- MODULE FleetThreadsProofs -------------------------
(***************************************************************************)
(* The controller's threads, for any number of clients, any programs and   *)
(* keys, and every interleaving of their steps with those of the agent     *)
(* that polls: what the queue keeps although nothing is locked.            *)
(***************************************************************************)
EXTENDS FleetThreads, SequenceTheorems, TLAPS

-----------------------------------------------------------------------------
(* The invariants.                                                         *)

\* The records of the threads, over a heap of so many lists.
ClientRecord(size) ==
    [pc : {"idle", "free", "claimed", "bound", "taken", "record", "list", "log"},
     turn : Nat \ {0}, queue : 1 .. size, command : Requests \cup {None}]

PollRecord(size) ==
    [pc : {"idle", "scan", "replace", "look", "answer", "event"},
     queue : 1 .. size, at : Nat \ {0}, kept : Seq(Requests), selected : Requests \cup {None}]

\* A handler at work has a request, and a command once it has one to record; a
\* report has a command, and while it logs it stands at a listed intent.
ClientWorks(c, me) ==
    /\ me.pc # "idle" => me.turn \in DOMAIN Program[c]
    /\ me.pc \in {"record", "list", "log"} => me.command \in Requests

PollWorks(me) ==
    /\ me.pc \in {"look", "answer", "event"} => me.selected # None
    /\ me.pc = "event" => me.at <= Len(mirror_command_index[me.selected])

AtWork == /\ \A c \in Clients : ClientWorks(c, client[c])
          /\ \A g \in Polls : PollWorks(poll[g])

TypeInv == TypeOK /\ AtWork

\* The requests a client has yet to be answered, to have looked at, to place.
Open(c) == {n \in DOMAIN Program[c] : n >= client[c].turn}
Unseen(c) == {n \in Open(c) : n > client[c].turn \/ client[c].pc = "idle"}
Unplaced(c) == {n \in Open(c) : \/ n > client[c].turn
                                \/ client[c].pc \in {"idle", "free", "claimed", "bound", "taken"}}

Now == lists[current]

Placed == ToSet(delivered) \cup ToSet(Now)

\* Only what was answered comes before something, only what arrived has
\* something before it, and only what was appended is in the queue or delivered.
PastInv ==
    /\ \A p \in before : p[1] \in answered
    /\ \A c \in Clients :
          /\ \A n \in Open(c) : Program[c][n] \notin answered
          /\ \A n \in Unseen(c) : \A p \in before : p[2] # Program[c][n]
          /\ \A n \in Unplaced(c) : Program[c][n] \notin Placed

\* x may be handed over before y.
Apart(x, y) == x # y /\ <<y, x>> \notin before

InOrder(s) == \A i, j \in DOMAIN s : i < j => Apart(s[i], s[j])

Scanning(g) == poll[g].pc \in {"scan", "replace"}

\* What was handed over, what a poll selected and kept, and the rest of the
\* list it iterates are in order, one after the other.
ScanInOrder(me) ==
    /\ me.queue = current
    /\ \A i \in DOMAIN me.kept : \E n \in DOMAIN Now : n < me.at /\ me.kept[i] = Now[n]
    /\ IF me.selected = None THEN me.kept = <<>>
       ELSE /\ \E n \in DOMAIN Now : n < me.at /\ me.selected = Now[n]
            /\ \A i \in DOMAIN me.kept : Apart(me.selected, me.kept[i])
    /\ InOrder(me.kept)

QueueInv ==
    /\ current = Len(lists)
    /\ InOrder(delivered) /\ InOrder(Now)
    /\ \A i \in DOMAIN delivered, n \in DOMAIN Now : Apart(delivered[i], Now[n])
    /\ \A g \in Polls : Scanning(g) => ScanInOrder(poll[g])

OrderInv == TypeInv /\ PastInv /\ QueueInv

\* Of the keys that one client alone uses: whoever was or can be handed over holds
\* its key in the index; a thread that found its key free finds it free, and one
\* that claimed it has it.
HoldsKey(x) == OwnKey(KeyOf[x]) => idempotency_index[KeyOf[x]] = x

FindsFree(c) == OwnKey(KeyOf[Posting(c)]) => KeyIsFree(c)

Dropped(n) == is_expired(Now[n]) /\ \E g \in Polls : Scanning(g) /\ n < poll[g].at

KeyQueue ==
    /\ \A i \in DOMAIN delivered : HoldsKey(delivered[i])
    /\ \A n \in DOMAIN Now : HoldsKey(Now[n]) \/ Dropped(n)
    /\ \A g \in Polls : Scanning(g) =>
          /\ \A i \in DOMAIN poll[g].kept : HoldsKey(poll[g].kept[i])
          /\ poll[g].selected # None => HoldsKey(poll[g].selected)

KeyClients ==
    \A c \in Clients : /\ client[c].pc = "free" => FindsFree(c)
                       /\ client[c].pc \in {"claimed", "bound"} => HoldsKey(Posting(c))

KeyInv == OrderInv /\ KeyQueue /\ KeyClients

\* An intent on its way is correlated step by step, before it is answered.
ListedUnder(r, command) == \E n \in DOMAIN mirror_command_index[command] :
                              mirror_command_index[command][n] = r

CorrelationInv ==
    /\ \A c \in Clients :
          /\ \A n \in Open(c) : Program[c][n] \notin answered
          /\ \A n \in Open(c) : n > client[c].turn \/ client[c].pc \notin {"list", "log"}
                => mirror_intents[Program[c][n]].command_id = None
          /\ client[c].pc \in {"list", "log"}
                => mirror_intents[Posting(c)].command_id = client[c].command
          /\ client[c].pc = "log" => ListedUnder(Posting(c), client[c].command)
    /\ \A r \in answered \cap Mirror :
          mirror_intents[r].command_id # None => ListedUnder(r, mirror_intents[r].command_id)

\* An intent a report owes its result to has it, or is still ahead in the list.
Paid(r) == mirror_intents[r].state = "completed"

Owes(me, r) ==
    /\ r \in answered
    /\ IF me.pc \in {"answer", "event"}
       THEN \E n \in DOMAIN mirror_command_index[me.selected] :
               /\ mirror_command_index[me.selected][n] = r
               /\ n < me.at \/ (n = me.at /\ me.pc = "event") => Paid(r)
       ELSE Paid(r)

OwedInv == \A g \in Polls : \A r \in owed[g] : Owes(poll[g], r)

ReportInv == TypeInv /\ CorrelationInv /\ OwedInv

-----------------------------------------------------------------------------
(* Types.                                                                  *)

LEMMA ThreadTypes ==
    ASSUME TypeInv
    PROVE  /\ client \in [Clients -> ClientRecord(Len(lists))]
           /\ poll \in [Polls -> PollRecord(Len(lists))]
           /\ Len(lists) \in Nat
           /\ \A q \in 1 .. Len(lists) : lists[q] \in Seq(Requests)
           /\ Now \in Seq(Requests) /\ current \in 1 .. Len(lists)
BY DEF TypeInv, TypeOK, ClientRecord, PollRecord, Now

\* The request a handler is about.
LEMMA PostingType ==
    ASSUME TypeInv, NEW c \in Clients,
           client[c].pc # "idle" \/ client[c].turn <= Len(Program[c])
    PROVE  /\ client[c].turn \in DOMAIN Program[c] /\ Posting(c) \in Requests
           /\ KeyOf[Posting(c)] \in Keys
<1>1. Program[c] \in Seq(Requests) /\ client[c].turn \in Nat \ {0}
  BY ThreadTypes, ThreadConstants DEF ClientRecord
<1>2. client[c].turn \in DOMAIN Program[c]
  BY <1>1 DEF TypeInv, AtWork, ClientWorks
<1> QED
  BY <1>1, <1>2, ThreadConstants DEF Posting

\* The thread of a client, or of a connection, takes on a record.
Moves(c, me) == me \in ClientRecord(Len(lists)) /\ client' = [client EXCEPT ![c] = me]
Turns(g, me) == me \in PollRecord(Len(lists)) /\ poll' = [poll EXCEPT ![g] = me]

LEMMA GotoMoves ==
    ASSUME TypeInv, NEW c \in Clients,
           NEW pc \in {"idle", "free", "claimed", "bound", "taken", "record", "list", "log"},
           Goto(c, pc)
    PROVE  \E me : /\ Moves(c, me) /\ me.pc = pc /\ me.turn = client[c].turn
                   /\ me.command = client[c].command
<1> DEFINE me == [client[c] EXCEPT !.pc = pc]
<1>1. client[c] \in ClientRecord(Len(lists))
  BY ThreadTypes
<1>2. /\ me \in ClientRecord(Len(lists)) /\ me.pc = pc /\ me.turn = client[c].turn
      /\ me.command = client[c].command
  BY <1>1 DEF ClientRecord
<1>3. client' = [client EXCEPT ![c] = me]
  BY <1>1, ThreadTypes DEF Goto, ClientRecord
<1> HIDE DEF me
<1> QED
  BY <1>2, <1>3 DEF Moves

\* The handler ends and the client turns to its next request.
Ends(c) == \E me : Moves(c, me) /\ me.pc = "idle" /\ me.turn = client[c].turn + 1

LEMMA TurnEnds ==
    ASSUME TypeInv, NEW c \in Clients,
           client' = [client EXCEPT ![c].pc = "idle", ![c].turn = @ + 1]
    PROVE  Ends(c)
<1> DEFINE next == client[c].turn + 1
           me == [client[c] EXCEPT !.pc = "idle", !.turn = next]
<1>1. client[c] \in ClientRecord(Len(lists)) /\ next \in Nat \ {0}
      /\ client' = [client EXCEPT ![c].pc = "idle", ![c].turn = next]
  BY ThreadTypes DEF ClientRecord
<1> HIDE DEF next
<1>2. me \in ClientRecord(Len(lists)) /\ me.pc = "idle" /\ me.turn = next
  BY <1>1 DEF ClientRecord
<1>3. client' = [client EXCEPT ![c] = me]
  BY <1>1, ThreadTypes DEF ClientRecord
<1> HIDE DEF me
<1> QED
  BY <1>2, <1>3 DEF Ends, Moves, next

LEMMA BindMoves ==
    ASSUME TypeInv, NEW c \in Clients,
           client' = [client EXCEPT ![c].pc = "bound", ![c].queue = current]
    PROVE  \E me : /\ Moves(c, me) /\ me.pc = "bound" /\ me.turn = client[c].turn
                   /\ me.queue = current
<1> DEFINE me == [client[c] EXCEPT !.pc = "bound", !.queue = current]
<1>1. client[c] \in ClientRecord(Len(lists)) /\ current \in 1 .. Len(lists)
  BY ThreadTypes
<1>2. /\ me \in ClientRecord(Len(lists)) /\ me.pc = "bound" /\ me.turn = client[c].turn
      /\ me.queue = current
  BY <1>1 DEF ClientRecord
<1>3. client' = [client EXCEPT ![c] = me]
  BY <1>1, ThreadTypes DEF ClientRecord
<1> HIDE DEF me
<1> QED
  BY <1>2, <1>3 DEF Moves

LEMMA RecordMoves ==
    ASSUME TypeInv, NEW c \in Clients, NEW command \in Requests,
           client' = [client EXCEPT ![c].pc = "record", ![c].command = command]
    PROVE  \E me : /\ Moves(c, me) /\ me.pc = "record" /\ me.turn = client[c].turn
                   /\ me.command = command
<1> DEFINE me == [client[c] EXCEPT !.pc = "record", !.command = command]
<1>1. client[c] \in ClientRecord(Len(lists))
  BY ThreadTypes
<1>2. /\ me \in ClientRecord(Len(lists)) /\ me.pc = "record" /\ me.turn = client[c].turn
      /\ me.command = command
  BY <1>1 DEF ClientRecord
<1>3. client' = [client EXCEPT ![c] = me]
  BY <1>1, ThreadTypes DEF ClientRecord
<1> HIDE DEF me
<1> QED
  BY <1>2, <1>3 DEF Moves

LEMMA PollPcTurns ==
    ASSUME TypeInv, NEW g \in Polls,
           NEW pc \in {"idle", "scan", "replace", "look", "answer", "event"},
           poll' = [poll EXCEPT ![g].pc = pc]
    PROVE  \E me : /\ Turns(g, me) /\ me.pc = pc /\ me.queue = poll[g].queue
                   /\ me.at = poll[g].at /\ me.kept = poll[g].kept
                   /\ me.selected = poll[g].selected
<1> DEFINE me == [poll[g] EXCEPT !.pc = pc]
<1>1. poll[g] \in PollRecord(Len(lists))
  BY ThreadTypes
<1>2. /\ me \in PollRecord(Len(lists)) /\ me.pc = pc /\ me.queue = poll[g].queue
      /\ me.at = poll[g].at /\ me.kept = poll[g].kept /\ me.selected = poll[g].selected
  BY <1>1 DEF PollRecord
<1>3. poll' = [poll EXCEPT ![g] = me]
  BY <1>1, ThreadTypes DEF PollRecord
<1> HIDE DEF me
<1> QED
  BY <1>2, <1>3 DEF Turns

SetsAt(g, pc, at) == \/ poll' = [poll EXCEPT ![g].pc = pc, ![g].at = at]
                     \/ poll' = [poll EXCEPT ![g].at = at, ![g].pc = pc]

LEMMA PollAtTurns ==
    ASSUME TypeInv, NEW g \in Polls, NEW at \in Nat \ {0},
           NEW pc \in {"idle", "scan", "replace", "look", "answer", "event"},
           SetsAt(g, pc, at)
    PROVE  \E me : /\ Turns(g, me) /\ me.pc = pc /\ me.queue = poll[g].queue
                   /\ me.at = at /\ me.kept = poll[g].kept
                   /\ me.selected = poll[g].selected
<1> DEFINE me == [poll[g] EXCEPT !.pc = pc, !.at = at]
<1>1. poll[g] \in PollRecord(Len(lists))
  BY ThreadTypes
<1>2. /\ me \in PollRecord(Len(lists)) /\ me.pc = pc /\ me.queue = poll[g].queue
      /\ me.at = at /\ me.kept = poll[g].kept /\ me.selected = poll[g].selected
  BY <1>1 DEF PollRecord
<1>3. poll' = [poll EXCEPT ![g] = me]
  BY <1>1, ThreadTypes DEF PollRecord, SetsAt
<1> HIDE DEF me
<1> QED
  BY <1>2, <1>3 DEF Turns

LEMMA StartTurns ==
    ASSUME TypeInv, NEW g \in Polls, PollStart(g)
    PROVE  \E me : /\ Turns(g, me) /\ me.pc = "scan" /\ me.queue = current /\ me.at = 1
                   /\ me.kept = <<>> /\ me.selected = None
<1> DEFINE me == [pc |-> "scan", queue |-> current, at |-> 1, kept |-> <<>>, selected |-> None]
<1>1. current \in 1 .. Len(lists) /\ <<>> \in Seq(Requests)
  BY ThreadTypes
<1>2. /\ me \in PollRecord(Len(lists)) /\ me.pc = "scan" /\ me.queue = current /\ me.at = 1
      /\ me.kept = <<>> /\ me.selected = None
  BY <1>1 DEF PollRecord
<1>3. poll' = [poll EXCEPT ![g] = me]
  BY DEF PollStart
<1> HIDE DEF me
<1> QED
  BY <1>2, <1>3 DEF Turns

\* A turn of the loop: the command is dropped, selected, or kept for later.
LEMMA ItemTurns ==
    ASSUME TypeInv, NEW g \in Polls, PollItem(g),
           NEW r, r = lists[poll[g].queue][poll[g].at]
    PROVE  /\ poll[g].pc = "scan" /\ r \in Requests
           /\ poll[g].at \in DOMAIN lists[poll[g].queue]
           /\ \E me : /\ Turns(g, me) /\ me.pc = "scan" /\ me.queue = poll[g].queue
                      /\ me.at = poll[g].at + 1
                      /\ \/ /\ is_expired(r) /\ me.selected = poll[g].selected
                            /\ me.kept = poll[g].kept
                            /\ idempotency_index' = [idempotency_index EXCEPT ![KeyOf[r]] = None]
                         \/ /\ poll[g].selected = None /\ me.selected = r
                            /\ me.kept = poll[g].kept /\ UNCHANGED idempotency_index
                         \/ /\ poll[g].selected # None /\ me.selected = poll[g].selected
                            /\ me.kept = Append(poll[g].kept, r)
                            /\ UNCHANGED idempotency_index
<1> DEFINE at == poll[g].at + 1
           kept == Append(poll[g].kept, r)
           drops == [poll[g] EXCEPT !.at = at]
           selects == [poll[g] EXCEPT !.at = at, !.selected = r]
           keeps == [poll[g] EXCEPT !.at = at, !.kept = kept]
<1>1. /\ poll[g] \in PollRecord(Len(lists)) /\ poll[g].pc = "scan"
      /\ lists[poll[g].queue] \in Seq(Requests) /\ poll[g].at \in Nat \ {0}
      /\ poll[g].at <= Len(lists[poll[g].queue])
  BY ThreadTypes DEF PollItem, PollRecord
<1>2. poll[g].at \in DOMAIN lists[poll[g].queue] /\ r \in Requests
  BY <1>1
<1>3. at \in Nat \ {0} /\ kept \in Seq(Requests)
  BY <1>1, <1>2 DEF PollRecord
<1>4. \/ /\ is_expired(r) /\ poll' = [poll EXCEPT ![g].at = at]
         /\ idempotency_index' = [idempotency_index EXCEPT ![KeyOf[r]] = None]
      \/ /\ poll[g].selected = None /\ UNCHANGED idempotency_index
         /\ poll' = [poll EXCEPT ![g].at = at, ![g].selected = r]
      \/ /\ poll[g].selected # None /\ UNCHANGED idempotency_index
         /\ poll' = [poll EXCEPT ![g].at = at, ![g].kept = kept]
  BY <1>1 DEF PollItem, Select
<1> HIDE DEF at, kept
<1>5. CASE /\ is_expired(r) /\ poll' = [poll EXCEPT ![g].at = at]
           /\ idempotency_index' = [idempotency_index EXCEPT ![KeyOf[r]] = None]
  <2>1. /\ drops \in PollRecord(Len(lists)) /\ drops.pc = "scan" /\ drops.at = at
        /\ drops.queue = poll[g].queue /\ drops.selected = poll[g].selected
        /\ drops.kept = poll[g].kept
    BY <1>1, <1>3 DEF PollRecord
  <2>2. poll' = [poll EXCEPT ![g] = drops]
    BY <1>1, <1>5, ThreadTypes DEF PollRecord
  <2> HIDE DEF drops
  <2> QED
    BY <1>1, <1>2, <1>5, <2>1, <2>2 DEF Turns, at
<1>6. CASE /\ poll[g].selected = None /\ UNCHANGED idempotency_index
           /\ poll' = [poll EXCEPT ![g].at = at, ![g].selected = r]
  <2>1. /\ selects \in PollRecord(Len(lists)) /\ selects.pc = "scan" /\ selects.at = at
        /\ selects.queue = poll[g].queue /\ selects.selected = r
        /\ selects.kept = poll[g].kept
    BY <1>1, <1>2, <1>3 DEF PollRecord
  <2>2. poll' = [poll EXCEPT ![g] = selects]
    BY <1>1, <1>6, ThreadTypes DEF PollRecord
  <2> HIDE DEF selects
  <2> QED
    BY <1>1, <1>2, <1>6, <2>1, <2>2 DEF Turns, at
<1>7. CASE /\ poll[g].selected # None /\ UNCHANGED idempotency_index
           /\ poll' = [poll EXCEPT ![g].at = at, ![g].kept = kept]
  <2>1. /\ keeps \in PollRecord(Len(lists)) /\ keeps.pc = "scan" /\ keeps.at = at
        /\ keeps.queue = poll[g].queue /\ keeps.selected = poll[g].selected
        /\ keeps.kept = kept
    BY <1>1, <1>3 DEF PollRecord
  <2>2. poll' = [poll EXCEPT ![g] = keeps]
    BY <1>1, <1>7, ThreadTypes DEF PollRecord
  <2> HIDE DEF keeps
  <2> QED
    BY <1>1, <1>2, <1>7, <2>1, <2>2 DEF Turns, at, kept
<1> QED
  BY <1>4, <1>5, <1>6, <1>7

\* A client's append, on the list it holds.
LEMMA AppendList ==
    ASSUME TypeInv, NEW c \in Clients, PostAppend(c)
    PROVE  /\ Len(lists') = Len(lists) /\ lists' \in Seq(Seq(Requests))
           /\ Posting(c) \in Requests
           /\ \A q \in 1 .. Len(lists) :
                 lists'[q] = IF q = client[c].queue THEN Append(lists[q], Posting(c))
                             ELSE lists[q]
<1>1. /\ lists \in Seq(Seq(Requests)) /\ client[c].queue \in 1 .. Len(lists)
      /\ Posting(c) \in Requests
  BY ThreadTypes, PostingType DEF TypeInv, TypeOK, PostAppend, ClientRecord
<1>2. Appended(c) \in Seq(Requests) /\ Appended(c) = Append(lists[client[c].queue], Posting(c))
  BY <1>1, ThreadTypes DEF Appended
<1>3. lists' = [lists EXCEPT ![client[c].queue] = Appended(c)]
  BY DEF PostAppend
<1> QED
  BY <1>1, <1>2, <1>3, ExceptSeq

\* The new list of a poll that ends is the queue from now on.
LEMMA ReplaceList ==
    ASSUME TypeInv, NEW g \in Polls, PollReplace(g)
    PROVE  /\ lists' \in Seq(Seq(Requests)) /\ Len(lists') = Len(lists) + 1
           /\ current' = Len(lists) + 1 /\ Now' = poll[g].kept
           /\ \A q \in 1 .. Len(lists) : lists'[q] = lists[q]
<1>1. lists \in Seq(Seq(Requests)) /\ poll[g].kept \in Seq(Requests)
  BY ThreadTypes DEF TypeInv, TypeOK, PollRecord
<1>2. lists' = Append(lists, poll[g].kept) /\ current' = Len(lists) + 1
  BY DEF PollReplace
<1> QED
  BY <1>1, <1>2, AppendProperties DEF Now

\* What TypeOK says of everything but the threads.
DataTyped ==
    /\ now \in 0 .. MaxTime
    /\ lists \in Seq(Seq(Requests)) /\ current \in 1 .. Len(lists)
    /\ idempotency_index \in [Keys -> Requests \cup {None}]
    /\ mirror_intents \in [Requests -> [state : States, command_id : Requests \cup {None}]]
    /\ mirror_command_index \in [Requests -> Seq(Requests)]
    /\ mirror_events \in Seq(Requests \X States)
    /\ delivered \in Seq(Requests)
    /\ answered \subseteq Requests /\ before \subseteq Requests \X Requests
    /\ owed \in [Polls -> SUBSET Requests]

ClientsTyped == /\ client \in [Clients -> ClientRecord(Len(lists))]
                /\ \A c \in Clients : ClientWorks(c, client[c])

PollsTyped == /\ poll \in [Polls -> PollRecord(Len(lists))]
              /\ \A g \in Polls : PollWorks(poll[g])

LEMMA TypeParts == TypeInv <=> DataTyped /\ ClientsTyped /\ PollsTyped
BY DEF TypeInv, TypeOK, AtWork, DataTyped, ClientsTyped, PollsTyped, ClientRecord, PollRecord

LEMMA TypePartsNext == DataTyped' /\ ClientsTyped' /\ PollsTyped' => TypeInv'
BY DEF TypeInv, TypeOK, AtWork, DataTyped, ClientsTyped, PollsTyped, ClientRecord, PollRecord

LEMMA ClientsKept ==
    ASSUME TypeInv, NEW c \in Clients, NEW me, Moves(c, me), ClientWorks(c, me),
           Len(lists') = Len(lists)
    PROVE  ClientsTyped'
<1>1. /\ client' \in [Clients -> ClientRecord(Len(lists'))]
      /\ \A d \in Clients : client'[d] = IF d = c THEN me ELSE client[d]
  BY ThreadTypes DEF Moves
<1>2. \A d \in Clients : ClientWorks(d, client[d])
  BY DEF TypeInv, AtWork
<1> QED
  BY <1>1, <1>2 DEF ClientsTyped, ClientWorks

LEMMA PollsKept ==
    ASSUME TypeInv, NEW g \in Polls, NEW me, Turns(g, me), PollWorks(me),
           Len(lists') = Len(lists), UNCHANGED mirror_command_index
    PROVE  PollsTyped'
<1>1. /\ poll' \in [Polls -> PollRecord(Len(lists'))]
      /\ \A h \in Polls : poll'[h] = IF h = g THEN me ELSE poll[h]
  BY ThreadTypes DEF Turns
<1>2. \A h \in Polls : PollWorks(poll[h])
  BY DEF TypeInv, AtWork
<1> QED
  BY <1>1, <1>2 DEF PollsTyped, PollWorks

LEMMA PollsStay ==
    ASSUME TypeInv, UNCHANGED <<poll, mirror_command_index>>, Len(lists') = Len(lists)
    PROVE  PollsTyped'
BY ThreadTypes DEF TypeInv, AtWork, PollsTyped, PollWorks

LEMMA ClientsStay ==
    ASSUME TypeInv, UNCHANGED client, Len(lists') = Len(lists)
    PROVE  ClientsTyped'
BY ThreadTypes DEF TypeInv, AtWork, ClientsTyped, ClientWorks

LEMMA EndsTyped ==
    ASSUME TypeInv, NEW c \in Clients, Ends(c), Len(lists') = Len(lists)
    PROVE  ClientsTyped'
<1>1. PICK me : Moves(c, me) /\ me.pc = "idle"
  BY DEF Ends
<1>2. ClientWorks(c, me)
  BY <1>1 DEF ClientWorks
<1> QED
  BY <1>1, <1>2, ClientsKept

\* An append to the events of the session keeps their type.
LEMMA EventTyped ==
    ASSUME TypeInv, NEW r \in Requests, NEW st \in States
    PROVE  Append(mirror_events, <<r, st>>) \in Seq(Requests \X States)
<1>1. mirror_events \in Seq(Requests \X States) /\ <<r, st>> \in Requests \X States
  BY DEF TypeInv, TypeOK
<1> QED
  BY <1>1, AppendProperties

LEMMA PostTypes ==
    ASSUME TypeInv, NEW c \in Clients,
           PostCheck(c) \/ PostClaim(c) \/ PostBind(c) \/ PostAppend(c) \/ PostDuplicate(c)
    PROVE  TypeInv'
<1>1. /\ Posting(c) \in Requests /\ KeyOf[Posting(c)] \in Keys
      /\ client[c].turn \in DOMAIN Program[c] /\ DataTyped
  BY PostingType, TypeParts DEF PostCheck, PostClaim, PostBind, PostAppend, PostDuplicate
<1>2. ASSUME Answer(c) PROVE Ends(c) /\ answered' \subseteq Requests
                             /\ UNCHANGED <<delivered, before, owed>>
  BY <1>1, <1>2, TurnEnds DEF Answer, DataTyped
<1>3. ASSUME NEW me, Moves(c, me), me.turn = client[c].turn,
             me.pc \in {"free", "claimed", "bound", "taken"}
             \/ (me.pc = "record" /\ me.command \in Requests)
      PROVE  ClientWorks(c, me)
  BY <1>1, <1>3 DEF ClientWorks
<1>4. CASE PostCheck(c)
  <2>1. PollsTyped'
    BY <1>4, PollsStay DEF PostCheck, queueState, mirrorState
  <2>2. CASE is_expired(Posting(c)) /\ Answer(c)
    <3>1. ClientsTyped'
      BY <1>2, <1>4, <2>2, EndsTyped DEF PostCheck, queueState
    <3>2. mirror_intents' \in [Requests -> [state : States, command_id : Requests \cup {None}]]
      <4>1. UNCHANGED mirror_intents
            \/ mirror_intents' = [mirror_intents EXCEPT ![Posting(c)].state = "rejected"]
        BY <1>4, <2>2 DEF PostCheck
      <4>2. PICK x \in Requests : x = Posting(c)
        BY <1>1
      <4>3. mirror_intents \in [Requests -> [state : States, command_id : Requests \cup {None}]]
        BY <1>1 DEF DataTyped
      <4>4. CASE mirror_intents' = [mirror_intents EXCEPT ![x].state = "rejected"]
        BY <4>3, <4>4 DEF States
      <4> QED
        BY <4>1, <4>2, <4>3, <4>4
    <3>3. mirror_events' \in Seq(Requests \X States)
      <4>1. UNCHANGED mirror_events
            \/ mirror_events' = Append(mirror_events, <<Posting(c), "rejected">>)
        BY <1>4, <2>2 DEF PostCheck
      <4> QED
        BY <1>1, <4>1, EventTyped DEF DataTyped, States
    <3>4. DataTyped'
      BY <1>1, <1>2, <1>4, <2>2, <3>2, <3>3 DEF DataTyped, PostCheck, queueState
    <3> QED
      BY <2>1, <3>1, <3>4, TypePartsNext
  <2>3. CASE ~ is_expired(Posting(c))
    <3>1. PICK me : Moves(c, me) /\ me.pc \in {"free", "taken"} /\ me.turn = client[c].turn
      BY <1>4, <2>3, GotoMoves DEF PostCheck
    <3>2. ClientsTyped'
      BY <1>3, <1>4, <3>1, ClientsKept DEF PostCheck, queueState
    <3>3. DataTyped'
      BY <1>1, <1>4, <2>3 DEF DataTyped, PostCheck, queueState, mirrorState
    <3> QED
      BY <2>1, <3>2, <3>3, TypePartsNext
  <2> QED
    BY <1>4, <2>2, <2>3 DEF PostCheck
<1>5. CASE PostClaim(c)
  <2>1. PICK me : Moves(c, me) /\ me.pc = "claimed" /\ me.turn = client[c].turn
    BY <1>5, GotoMoves DEF PostClaim
  <2>2. ClientsTyped' /\ PollsTyped'
    BY <1>3, <1>5, <2>1, ClientsKept, PollsStay DEF PostClaim, mirrorState
  <2>3. DataTyped'
    BY <1>1, <1>5 DEF DataTyped, PostClaim, mirrorState, history
  <2> QED
    BY <2>2, <2>3, TypePartsNext
<1>6. CASE PostBind(c)
  <2>1. PICK me : Moves(c, me) /\ me.pc = "bound" /\ me.turn = client[c].turn
    BY <1>6, BindMoves DEF PostBind
  <2>2. ClientsTyped' /\ PollsTyped'
    BY <1>3, <1>6, <2>1, ClientsKept, PollsStay DEF PostBind, mirrorState, queueState
  <2>3. DataTyped'
    BY <1>1, <1>6 DEF DataTyped, PostBind, mirrorState, queueState, history
  <2> QED
    BY <2>2, <2>3, TypePartsNext
<1>7. CASE PostAppend(c)
  <2>1. Len(lists') = Len(lists) /\ lists' \in Seq(Seq(Requests))
    BY <1>7, AppendList
  <2>2. PollsTyped'
    BY <1>7, <2>1, PollsStay DEF PostAppend, mirrorState
  <2>3. ClientsTyped' /\ answered' \subseteq Requests /\ UNCHANGED <<delivered, before, owed>>
    <3>1. CASE Answer(c)
      BY <1>2, <2>1, <3>1, EndsTyped
    <3>2. CASE client' = [client EXCEPT ![c].pc = "record", ![c].command = Posting(c)]
               /\ UNCHANGED history
      <4>1. PICK me : /\ Moves(c, me) /\ me.pc = "record" /\ me.turn = client[c].turn
                      /\ me.command = Posting(c)
        BY <1>1, <3>2, RecordMoves
      <4> QED
        BY <1>1, <1>3, <2>1, <3>2, <4>1, ClientsKept DEF history, DataTyped
    <3> QED
      BY <1>7, <3>1, <3>2 DEF PostAppend
  <2>4. DataTyped'
    BY <1>1, <1>7, <2>1, <2>3 DEF DataTyped, PostAppend, mirrorState
  <2> QED
    BY <2>2, <2>3, <2>4, TypePartsNext
<1>8. CASE PostDuplicate(c)
  <2> DEFINE existing == idempotency_index[KeyOf[Posting(c)]]
  <2>1. PollsTyped' /\ Len(lists') = Len(lists)
    BY <1>8, PollsStay DEF PostDuplicate, mirrorState, queueState
  <2>2. ClientsTyped' /\ answered' \subseteq Requests /\ UNCHANGED <<delivered, before, owed>>
    <3>1. CASE Answer(c)
      BY <1>2, <2>1, <3>1, EndsTyped
    <3>2. CASE client' = [client EXCEPT ![c].pc = "idle", ![c].turn = @ + 1] /\ UNCHANGED history
      BY <1>1, <2>1, <3>2, TurnEnds, EndsTyped DEF history, DataTyped
    <3>3. CASE existing # None /\ UNCHANGED history
               /\ client' = [client EXCEPT ![c].pc = "record", ![c].command = existing]
      <4>1. existing \in Requests
        BY <1>1, <3>3 DEF DataTyped
      <4> HIDE DEF existing
      <4>2. PICK me : /\ Moves(c, me) /\ me.pc = "record" /\ me.turn = client[c].turn
                      /\ me.command = existing
        BY <3>3, <4>1, RecordMoves
      <4> QED
        BY <1>1, <1>3, <2>1, <3>3, <4>1, <4>2, ClientsKept DEF history, DataTyped
    <3> QED
      BY <1>8, <3>1, <3>2, <3>3 DEF PostDuplicate
  <2>3. DataTyped'
    BY <1>1, <1>8, <2>1, <2>2 DEF DataTyped, PostDuplicate, mirrorState, queueState
  <2> QED
    BY <2>1, <2>2, <2>3, TypePartsNext
<1> QED
  BY <1>4, <1>5, <1>6, <1>7, <1>8

\* What listing an intent does to the lists of the commands.
LEMMA ListGrows ==
    ASSUME TypeInv, NEW c \in Clients, ListIntent(c)
    PROVE  /\ mirror_command_index' \in [Requests -> Seq(Requests)]
           /\ client[c].command \in Requests /\ Posting(c) \in Requests
           /\ \A r \in Requests :
                 mirror_command_index'[r] =
                    IF r = client[c].command THEN Append(mirror_command_index[r], Posting(c))
                    ELSE mirror_command_index[r]
<1>1. /\ mirror_command_index \in [Requests -> Seq(Requests)]
      /\ client[c].command \in Requests /\ Posting(c) \in Requests
  BY PostingType DEF TypeInv, TypeOK, AtWork, ClientWorks, ListIntent
<1>2. Append(mirror_command_index[client[c].command], Posting(c)) \in Seq(Requests)
  BY <1>1
<1>3. mirror_command_index' = [mirror_command_index EXCEPT ![client[c].command] =
                                  Append(mirror_command_index[client[c].command], Posting(c))]
  BY DEF ListIntent
<1> QED
  BY <1>1, <1>2, <1>3

LEMMA RecordTypes ==
    ASSUME TypeInv, NEW c \in Clients, RecordIntent(c) \/ ListIntent(c) \/ LogIntent(c)
    PROVE  TypeInv'
<1>1. /\ Posting(c) \in Requests /\ client[c].command \in Requests
      /\ client[c].turn \in DOMAIN Program[c] /\ DataTyped
  BY PostingType, TypeParts DEF RecordIntent, ListIntent, LogIntent, ClientsTyped, ClientWorks
<1>2. ASSUME NEW me, Moves(c, me), me.turn = client[c].turn, me.command = client[c].command
      PROVE  ClientWorks(c, me)
  BY <1>1, <1>2 DEF ClientWorks
<1>3. CASE RecordIntent(c)
  <2>1. PICK me : Moves(c, me) /\ me.turn = client[c].turn /\ me.command = client[c].command
    BY <1>3, GotoMoves DEF RecordIntent
  <2>2. ClientsTyped' /\ PollsTyped'
    BY <1>2, <1>3, <2>1, ClientsKept, PollsStay DEF RecordIntent, queueState
  <2>3. DataTyped'
    BY <1>1, <1>3 DEF DataTyped, RecordIntent, queueState, history, States
  <2> QED
    BY <2>2, <2>3, TypePartsNext
<1>4. CASE ListIntent(c)
  <2>1. PICK me : Moves(c, me) /\ me.turn = client[c].turn /\ me.command = client[c].command
    BY <1>4, GotoMoves DEF ListIntent
  <2>2. ClientsTyped'
    BY <1>2, <1>4, <2>1, ClientsKept DEF ListIntent, queueState
  <2>3. ASSUME NEW r \in Requests
        PROVE  Len(mirror_command_index'[r]) >= Len(mirror_command_index[r])
    <3>1. mirror_command_index[r] \in Seq(Requests) /\ Len(mirror_command_index[r]) \in Nat
      BY <1>1 DEF DataTyped
    <3>2. CASE r = client[c].command
      <4>1. mirror_command_index'[r] = Append(mirror_command_index[r], Posting(c))
        BY <1>4, <3>2, ListGrows
      <4> QED
        BY <1>1, <3>1, <4>1
    <3>3. CASE r # client[c].command
      <4>1. mirror_command_index'[r] = mirror_command_index[r]
        BY <1>4, <3>3, ListGrows
      <4> QED
        BY <3>1, <4>1
    <3> QED
      BY <3>2, <3>3
  <2>4. ASSUME NEW g \in Polls PROVE PollWorks(poll[g])'
    <3>1. /\ poll[g] \in PollRecord(Len(lists)) /\ PollWorks(poll[g]) /\ poll' = poll
          /\ mirror_command_index \in [Requests -> Seq(Requests)]
          /\ mirror_command_index' \in [Requests -> Seq(Requests)]
      BY <1>1, <1>4, ThreadTypes, TypeParts, ListGrows DEF ListIntent, PollsTyped, DataTyped
    <3>2. CASE poll[g].pc = "event"
      <4>1. poll[g].selected \in Requests /\ poll[g].at \in Nat
        BY <3>1, <3>2 DEF PollRecord, PollWorks
      <4>2. /\ Len(mirror_command_index[poll[g].selected]) \in Nat
            /\ Len(mirror_command_index'[poll[g].selected]) \in Nat
        BY <3>1, <4>1
      <4> QED
        BY <2>3, <3>1, <3>2, <4>1, <4>2 DEF PollWorks
    <3> QED
      BY <3>1, <3>2 DEF PollWorks
  <2>5. PollsTyped'
    <3>1. poll' \in [Polls -> PollRecord(Len(lists'))]
      BY <1>4, ThreadTypes DEF ListIntent, queueState
    <3> QED
      BY <2>4, <3>1 DEF PollsTyped
  <2>6. DataTyped'
    BY <1>1, <1>4, ListGrows DEF DataTyped, ListIntent, queueState, history
  <2> QED
    BY <2>2, <2>5, <2>6, TypePartsNext
<1>5. CASE LogIntent(c)
  <2>1. Ends(c) /\ answered' \subseteq Requests /\ UNCHANGED <<delivered, before, owed>>
    BY <1>1, <1>5, TurnEnds DEF LogIntent, Answer, DataTyped
  <2>2. ClientsTyped' /\ PollsTyped'
    BY <1>5, <2>1, EndsTyped, PollsStay DEF LogIntent, queueState
  <2>3. mirror_events' \in Seq(Requests \X States)
    BY <1>1, <1>5, EventTyped DEF LogIntent, States
  <2>4. DataTyped'
    BY <1>1, <1>5, <2>1, <2>3 DEF DataTyped, LogIntent, queueState
  <2> QED
    BY <2>2, <2>4, TypePartsNext
<1> QED
  BY <1>3, <1>4, <1>5

LEMMA ScanTypes ==
    ASSUME TypeInv, NEW g \in Polls,
           PollStart(g) \/ PollItem(g) \/ PollEnd(g) \/ PollReplace(g)
    PROVE  TypeInv'
<1>1. DataTyped
  BY TypeParts
<1>2. ASSUME NEW me, Turns(g, me), me.pc \in {"scan", "replace"} PROVE PollWorks(me)
  BY <1>2 DEF PollWorks
<1>3. CASE PollStart(g)
  <2>1. PollsTyped' /\ ClientsTyped'
    BY <1>2, <1>3, StartTurns, PollsKept, ClientsStay DEF PollStart, queueState, mirrorState
  <2>2. DataTyped'
    BY <1>1, <1>3 DEF DataTyped, PollStart, queueState, mirrorState, history
  <2> QED
    BY <2>1, <2>2, TypePartsNext
<1>4. CASE PollItem(g)
  <2> DEFINE r == lists[poll[g].queue][poll[g].at]
  <2>1. /\ r \in Requests
        /\ \E me : Turns(g, me) /\ me.pc = "scan"
        /\ UNCHANGED idempotency_index
           \/ idempotency_index' = [idempotency_index EXCEPT ![KeyOf[r]] = None]
    BY <1>4, ItemTurns
  <2> HIDE DEF r
  <2>2. PollsTyped' /\ ClientsTyped'
    BY <1>2, <1>4, <2>1, PollsKept, ClientsStay DEF PollItem, mirrorState
  <2>3. DataTyped'
    BY <1>1, <1>4, <2>1, ThreadConstants DEF DataTyped, PollItem, mirrorState, history
  <2> QED
    BY <2>2, <2>3, TypePartsNext
<1>5. CASE PollEnd(g)
  <2>1. PollsTyped' /\ ClientsTyped'
    BY <1>2, <1>5, PollPcTurns, PollsKept, ClientsStay DEF PollEnd, queueState, mirrorState
  <2>2. DataTyped'
    BY <1>1, <1>5 DEF DataTyped, PollEnd, queueState, mirrorState, history
  <2> QED
    BY <2>1, <2>2, TypePartsNext
<1>6. CASE PollReplace(g)
  <2>1. /\ lists' \in Seq(Seq(Requests)) /\ Len(lists') = Len(lists) + 1
        /\ current' = Len(lists) + 1 /\ Len(lists) \in Nat
    BY <1>6, ReplaceList, ThreadTypes
  <2>2. PICK pc \in {"idle", "look"} : /\ pc = "look" => poll[g].selected # None
                                       /\ poll' = [poll EXCEPT ![g].pc = pc]
    <3>1. CASE poll[g].selected = None
      BY <1>6, <3>1 DEF PollReplace
    <3>2. CASE poll[g].selected # None
      BY <1>6, <3>2 DEF PollReplace
    <3> QED
      BY <3>1, <3>2
  <2>3. PICK me : Turns(g, me) /\ me.selected = poll[g].selected /\ me.pc = pc
    <3>1. /\ pc \in {"idle", "scan", "replace", "look", "answer", "event"}
          /\ poll' = [poll EXCEPT ![g].pc = pc]
      BY <2>2
    <3>2. \E me : /\ Turns(g, me) /\ me.pc = pc /\ me.queue = poll[g].queue
                  /\ me.at = poll[g].at /\ me.kept = poll[g].kept
                  /\ me.selected = poll[g].selected
      BY <3>1, PollPcTurns, Zenon
    <3> QED
      BY <3>2
  <2>4. PollWorks(me)
    BY <2>2, <2>3 DEF PollWorks
  <2>5. /\ ClientRecord(Len(lists)) \subseteq ClientRecord(Len(lists'))
        /\ PollRecord(Len(lists)) \subseteq PollRecord(Len(lists'))
    BY <2>1 DEF ClientRecord, PollRecord
  <2>6. ClientsTyped'
    BY <1>6, <2>5, TypeParts DEF PollReplace, ClientsTyped, ClientWorks
  <2>7. PollsTyped'
    <3>1. /\ poll' \in [Polls -> PollRecord(Len(lists'))]
          /\ \A h \in Polls : poll'[h] = IF h = g THEN me ELSE poll[h]
      BY <2>3, <2>5, ThreadTypes DEF Turns
    <3>2. \A h \in Polls : PollWorks(poll[h])
      BY TypeParts DEF PollsTyped
    <3> QED
      BY <1>6, <2>4, <3>1, <3>2 DEF PollsTyped, PollWorks, PollReplace, mirrorState
  <2>8. delivered' \in Seq(Requests)
    <3>1. poll[g].selected \in Requests \cup {None}
      BY ThreadTypes DEF PollRecord
    <3> QED
      BY <1>1, <1>6, <3>1 DEF PollReplace, DataTyped
  <2>9. DataTyped'
    <3>1. current' \in 1 .. Len(lists')
      BY <2>1
    <3>2. UNCHANGED <<now, idempotency_index, mirror_intents, mirror_command_index,
                      mirror_events, answered, before, owed>>
      BY <1>6 DEF PollReplace, mirrorState
    <3> QED
      BY <1>1, <2>1, <2>8, <3>1, <3>2 DEF DataTyped
  <2> QED
    BY <2>6, <2>7, <2>9, TypePartsNext
<1> QED
  BY <1>3, <1>4, <1>5, <1>6

\* The lists of commands only change by listing an intent, the report only
\* walks them.
LEMMA ReportTypes ==
    ASSUME TypeInv, NEW g \in Polls,
           ReportLook(g) \/ ReportIntent(g) \/ ReportEvent(g) \/ ReportDone(g)
    PROVE  TypeInv'
<1>1. /\ DataTyped /\ poll[g] \in PollRecord(Len(lists)) /\ poll[g].selected \in Requests
      /\ Listed(g) \in Seq(Requests) /\ poll[g].at \in Nat \ {0}
  <2>1. /\ DataTyped /\ poll[g] \in PollRecord(Len(lists)) /\ PollWorks(poll[g])
    BY TypeParts DEF PollsTyped
  <2>2. poll[g].pc \in {"look", "answer", "event"}
    BY DEF ReportLook, ReportIntent, ReportEvent, ReportDone
  <2>3. poll[g].selected \in Requests /\ poll[g].at \in Nat \ {0}
    BY <2>1, <2>2 DEF PollRecord, PollWorks
  <2> QED
    BY <2>1, <2>3 DEF DataTyped, Listed
<1>2. ClientsTyped'
  BY ClientsStay DEF ReportLook, ReportIntent, ReportEvent, ReportDone, queueState
<1>3. CASE ReportLook(g)
  <2>1. PICK pc \in {"idle", "answer"} : poll' = [poll EXCEPT ![g].at = 1, ![g].pc = pc]
    <3>1. CASE mirror_command_index[poll[g].selected] = <<>>
      BY <1>3, <3>1 DEF ReportLook
    <3>2. CASE mirror_command_index[poll[g].selected] # <<>>
      BY <1>3, <3>2 DEF ReportLook
    <3> QED
      BY <3>1, <3>2
  <2>2. PICK me : Turns(g, me) /\ me.pc = pc /\ me.selected = poll[g].selected
    <3>1. /\ pc \in {"idle", "scan", "replace", "look", "answer", "event"} /\ 1 \in Nat \ {0}
          /\ SetsAt(g, pc, 1)
      BY <2>1 DEF SetsAt
    <3>2. \E me : /\ Turns(g, me) /\ me.pc = pc /\ me.queue = poll[g].queue
                  /\ me.at = 1 /\ me.kept = poll[g].kept
                  /\ me.selected = poll[g].selected
      BY <3>1, PollAtTurns
    <3> QED
      BY <3>2
  <2>3. PollWorks(me)
    BY <1>1, <2>1, <2>2, ThreadConstants DEF PollWorks
  <2>4. PollsTyped'
    BY <1>3, <2>2, <2>3, PollsKept DEF ReportLook, queueState, mirrorState
  <2>5. owed' \in [Polls -> SUBSET Requests]
    <3>1. AnsweredIntents(poll[g].selected) \subseteq Requests
      BY <1>1 DEF AnsweredIntents, DataTyped
    <3> QED
      BY <1>1, <1>3, <3>1 DEF ReportLook, DataTyped
  <2>6. DataTyped'
    BY <1>1, <1>3, <2>5 DEF DataTyped, ReportLook, queueState, mirrorState
  <2> QED
    BY <1>2, <2>4, <2>6, TypePartsNext
<1>4. CASE ReportIntent(g)
  <2>1. PICK me : Turns(g, me) /\ me.pc = "event" /\ me.at = poll[g].at
                  /\ me.selected = poll[g].selected
    <3>1. poll' = [poll EXCEPT ![g].pc = "event"]
      BY <1>4 DEF ReportIntent
    <3>2. \E me : /\ Turns(g, me) /\ me.pc = "event" /\ me.queue = poll[g].queue
                  /\ me.at = poll[g].at /\ me.kept = poll[g].kept
                  /\ me.selected = poll[g].selected
      BY <3>1, PollPcTurns, Zenon
    <3> QED
      BY <3>2
  <2>2. PollWorks(me)
    BY <1>1, <1>4, <2>1, ThreadConstants DEF PollWorks, ReportIntent, Listed
  <2>3. PollsTyped'
    BY <1>4, <2>1, <2>2, PollsKept DEF ReportIntent, queueState
  <2>4. mirror_intents' \in [Requests -> [state : States, command_id : Requests \cup {None}]]
    <3>1. Listed(g)[poll[g].at] \in Requests
      BY <1>1, <1>4 DEF ReportIntent
    <3> QED
      BY <1>1, <1>4, <3>1 DEF ReportIntent, DataTyped, States
  <2>5. DataTyped'
    BY <1>1, <1>4, <2>4 DEF DataTyped, ReportIntent, queueState, history
  <2> QED
    BY <1>2, <2>3, <2>5, TypePartsNext
<1>5. CASE ReportEvent(g)
  <2>1. PICK at \in Nat \ {0} : poll' = [poll EXCEPT ![g].pc = "answer", ![g].at = at]
    <3>1. poll[g].at + 1 \in Nat \ {0}
      BY <1>1
    <3> QED
      BY <1>5, <3>1 DEF ReportEvent
  <2>2. PICK me : Turns(g, me) /\ me.pc = "answer" /\ me.selected = poll[g].selected
    <3>1. SetsAt(g, "answer", at)
      BY <2>1 DEF SetsAt
    <3>2. \E me : /\ Turns(g, me) /\ me.pc = "answer" /\ me.queue = poll[g].queue
                  /\ me.at = at /\ me.kept = poll[g].kept
                  /\ me.selected = poll[g].selected
      BY <2>1, <3>1, PollAtTurns
    <3> QED
      BY <3>2
  <2>3. PollWorks(me)
    BY <1>1, <2>2, ThreadConstants DEF PollWorks
  <2>4. PollsTyped'
    BY <1>5, <2>2, <2>3, PollsKept DEF ReportEvent, queueState
  <2>5. mirror_events' \in Seq(Requests \X States)
    <3>1. poll[g].at <= Len(Listed(g))
      BY <1>5, TypeParts DEF ReportEvent, PollsTyped, PollWorks, Listed
    <3>2. Listed(g)[poll[g].at] \in Requests
      BY <1>1, <3>1
    <3> QED
      BY <1>5, <3>2, EventTyped DEF ReportEvent, States
  <2>6. DataTyped'
    BY <1>1, <1>5, <2>5 DEF DataTyped, ReportEvent, queueState, history
  <2> QED
    BY <1>2, <2>4, <2>6, TypePartsNext
<1>6. CASE ReportDone(g)
  <2>1. PICK me : Turns(g, me) /\ me.pc = "idle"
    <3>1. poll' = [poll EXCEPT ![g].pc = "idle"]
      BY <1>6 DEF ReportDone
    <3>2. \E me : /\ Turns(g, me) /\ me.pc = "idle" /\ me.queue = poll[g].queue
                  /\ me.at = poll[g].at /\ me.kept = poll[g].kept
                  /\ me.selected = poll[g].selected
      BY <3>1, PollPcTurns, Zenon
    <3> QED
      BY <3>2
  <2>2. PollsTyped'
    BY <1>6, <2>1, PollsKept DEF ReportDone, queueState, mirrorState, PollWorks
  <2>3. DataTyped'
    BY <1>1, <1>6 DEF DataTyped, ReportDone, queueState, mirrorState, history
  <2> QED
    BY <1>2, <2>2, <2>3, TypePartsNext
<1> QED
  BY <1>3, <1>4, <1>5, <1>6

LEMMA TypeInit == Init => TypeInv
<1> SUFFICES ASSUME Init PROVE TypeInv
  OBVIOUS
<1>1. lists = << <<>> >> /\ current = 1 /\ <<>> \in Seq(Requests)
  BY DEF Init
<1>2. lists \in Seq(Seq(Requests)) /\ Len(lists) = 1
  BY <1>1
<1>3. DataTyped
  BY <1>1, <1>2, ThreadConstants DEF Init, DataTyped, States
<1>4. ClientsTyped
  BY <1>1, <1>2 DEF Init, ClientsTyped, ClientRecord, ClientWorks
<1>5. PollsTyped
  BY <1>1, <1>2 DEF Init, PollsTyped, PollRecord, PollWorks
<1> QED
  BY <1>3, <1>4, <1>5, TypeParts

\* Nothing but the clock moves.
LEMMA IdleTypes == ASSUME TypeInv, Tick \/ UNCHANGED vars PROVE TypeInv'
<1>1. /\ UNCHANGED <<lists, current, idempotency_index, mirror_intents, mirror_command_index,
                      mirror_events, client, poll, delivered, answered, before, owed>>
      /\ now' \in 0 .. MaxTime
  BY ThreadConstants DEF Tick, vars, queueState, mirrorState, history, TypeInv, TypeOK
<1>2. ClientsTyped' /\ PollsTyped'
  BY <1>1, ClientsStay, PollsStay
<1>3. DataTyped'
  BY <1>1, TypeParts DEF DataTyped
<1> QED
  BY <1>2, <1>3, TypePartsNext

LEMMA TypeStep == TypeInv /\ [Next]_vars => TypeInv'
BY PostTypes, RecordTypes, ScanTypes, ReportTypes, IdleTypes DEF Next, Serve, Agent

\* Every thread and every list stays in its range, whatever the interleaving.
THEOREM ThreadTypesHold == Spec => []TypeOK
<1>1. TypeInv => TypeOK
  BY DEF TypeInv
<1> QED
  BY <1>1, TypeInit, TypeStep, PTL DEF Spec

-----------------------------------------------------------------------------
(* The order of the commands.                                              *)

\* What a client has still to do only shrinks.
Shrinks == \A d \in Clients : /\ Open(d)' \subseteq Open(d)
                              /\ Unseen(d)' \subseteq Unseen(d)
                              /\ Unplaced(d)' \subseteq Unplaced(d)

Early == {"idle", "free", "claimed", "bound", "taken"}

LEMMA StayShrinks ==
    ASSUME TypeInv, NEW c \in Clients, NEW me, Moves(c, me),
           me.turn = client[c].turn, me.pc # "idle",
           me.pc \in Early => client[c].pc \in Early
    PROVE  /\ Shrinks /\ client[c].turn \notin Unseen(c)'
           /\ me.pc \notin Early => client[c].turn \notin Unplaced(c)'
<1>1. /\ \A d \in Clients : client'[d] = IF d = c THEN me ELSE client[d]
      /\ client[c].turn \in Nat
  BY ThreadTypes DEF Moves, ClientRecord
<1>2. \A d \in Clients : Open(d)' = Open(d)
  BY <1>1 DEF Open
<1>3. ASSUME NEW d \in Clients PROVE Unseen(d)' \subseteq Unseen(d)
  BY <1>1, <1>2 DEF Unseen
<1>4. ASSUME NEW d \in Clients PROVE Unplaced(d)' \subseteq Unplaced(d)
  BY <1>1, <1>2 DEF Unplaced, Early
<1>5. client[c].turn \notin Unseen(c)'
  BY <1>1 DEF Unseen
<1>6. me.pc \notin Early => client[c].turn \notin Unplaced(c)'
  BY <1>1 DEF Unplaced, Early
<1> QED
  BY <1>2, <1>3, <1>4, <1>5, <1>6 DEF Shrinks

LEMMA EndShrinks ==
    ASSUME TypeInv, NEW c \in Clients, Ends(c)
    PROVE  /\ Shrinks /\ client[c].turn \notin Open(c)'
           /\ client[c].turn \notin Unplaced(c)'
<1>1. PICK me : Moves(c, me) /\ me.turn = client[c].turn + 1 /\ me.pc = "idle"
  BY DEF Ends
<1>2. /\ \A d \in Clients : client'[d] = IF d = c THEN me ELSE client[d]
      /\ client[c].turn \in Nat
  BY <1>1, ThreadTypes DEF Moves, ClientRecord
<1>3. \A d \in Clients : DOMAIN Program[d] \subseteq Nat
  BY ThreadConstants
<1>4. ASSUME NEW d \in Clients
      PROVE  Open(d)' \subseteq Open(d) /\ (d = c => client[c].turn \notin Open(d)')
  BY <1>1, <1>2, <1>3 DEF Open
<1>5. ASSUME NEW d \in Clients PROVE Unseen(d)' \subseteq Unseen(d)
  BY <1>1, <1>2, <1>3, <1>4 DEF Unseen, Open
<1>6. ASSUME NEW d \in Clients PROVE Unplaced(d)' \subseteq Unplaced(d)
  BY <1>1, <1>2, <1>3, <1>4 DEF Unplaced, Open
<1> QED
  BY <1>4, <1>5, <1>6 DEF Shrinks, Unplaced

\* A handler only answers, orders and places the request it is about.
LEMMA PastKept ==
    ASSUME PostedOnce, TypeInv, PastInv, Shrinks,
           NEW c \in Clients, client[c].turn \in DOMAIN Program[c],
           answered \subseteq answered',
           answered' \subseteq answered \cup {Posting(c)},
           answered' = answered \/ client[c].turn \notin Open(c)',
           before' \subseteq before \cup (answered \X {Posting(c)}),
           before' = before \/ client[c].turn \notin Unseen(c)',
           Placed' \subseteq Placed \cup {Posting(c)},
           Placed' = Placed \/ client[c].turn \notin Unplaced(c)'
    PROVE  PastInv'
<1>1. ASSUME NEW p \in before' PROVE p[1] \in answered'
  BY <1>1 DEF PastInv
<1>2. \A d \in Clients : \A n \in DOMAIN Program[d] :
         Program[d][n] = Posting(c) => d = c /\ n = client[c].turn
  BY DEF PostedOnce, Posting
<1>3. ASSUME NEW d \in Clients, NEW n \in Open(d)' PROVE Program[d][n] \notin answered'
  BY <1>2, <1>3 DEF PastInv, Shrinks, Open
<1>4. ASSUME NEW d \in Clients, NEW n \in Unseen(d)', NEW p \in before'
      PROVE  p[2] # Program[d][n]
  BY <1>2, <1>4 DEF PastInv, Shrinks, Unseen, Open
<1>5. ASSUME NEW d \in Clients, NEW n \in Unplaced(d)' PROVE Program[d][n] \notin Placed'
  BY <1>2, <1>5 DEF PastInv, Shrinks, Unplaced, Open
<1> QED
  BY <1>1, <1>3, <1>4, <1>5 DEF PastInv

LEMMA PlacedHere ==
    /\ \A i \in DOMAIN delivered : delivered[i] \in Placed
    /\ \A n \in DOMAIN Now : Now[n] \in Placed
BY DEF Placed, ToSet

\* A poll only holds what is in the queue.
LEMMA ScanPlaced ==
    ASSUME QueueInv, NEW g \in Polls, Scanning(g)
    PROVE  /\ \A i \in DOMAIN poll[g].kept : poll[g].kept[i] \in Placed
           /\ poll[g].selected # None => poll[g].selected \in Placed
BY PlacedHere DEF QueueInv, ScanInOrder

\* A request that arrives comes after what was answered, and is nowhere yet.
LEMMA QueueKept ==
    ASSUME TypeInv, QueueInv, NEW x, before' \subseteq before \cup (answered \X {x}),
           before' = before \/ x \notin Placed,
           UNCHANGED <<lists, current, delivered, poll>>
    PROVE  QueueInv'
<1>1. Now' = Now /\ \A g \in Polls : Scanning(g)' = Scanning(g)
  BY DEF Now, Scanning
<1>2. ASSUME NEW u \in Placed, NEW v, Apart(u, v) PROVE Apart(u, v)'
  BY <1>2 DEF Apart
<1>3. /\ InOrder(delivered)' /\ InOrder(Now)'
      /\ \A i \in DOMAIN delivered', n \in DOMAIN Now' : Apart(delivered[i], Now[n])'
  BY <1>1, <1>2, PlacedHere DEF QueueInv, InOrder
<1>4. ASSUME NEW g \in Polls, Scanning(g) PROVE ScanInOrder(poll[g])'
  <2>1. ScanInOrder(poll[g])
    BY <1>4 DEF QueueInv
  <2>2. InOrder(poll[g].kept)'
    BY <1>2, <1>4, <2>1, ScanPlaced DEF ScanInOrder, InOrder
  <2>3. poll[g].selected # None
           => \A i \in DOMAIN poll[g].kept : Apart(poll[g].selected, poll[g].kept[i])'
    BY <1>2, <1>4, <2>1, ScanPlaced DEF ScanInOrder
  <2> QED
    BY <1>1, <2>1, <2>2, <2>3 DEF ScanInOrder
<1> QED
  BY <1>1, <1>3, <1>4 DEF QueueInv

\* The queue grows at its end, by a request that is in no list yet and that
\* comes before nothing.
LEMMA QueueGrows ==
    ASSUME TypeInv, QueueInv, NEW x \in Requests, x \notin Placed,
           \A p \in before : p[1] # x,
           Now' = Append(Now, x), Len(lists') = Len(lists),
           UNCHANGED <<current, delivered, before, poll>>
    PROVE  QueueInv'
<1>1. /\ Now \in Seq(Requests) /\ Len(Now) \in Nat /\ DOMAIN Now = 1 .. Len(Now)
      /\ DOMAIN Now' = 1 .. Len(Now) + 1 /\ Now'[Len(Now) + 1] = x
      /\ \A n \in DOMAIN Now : Now'[n] = Now[n]
  BY ThreadTypes
<1>2. ASSUME NEW u \in Placed PROVE Apart(u, x)'
  BY <1>2 DEF Apart
<1>3. \A u, v : Apart(u, v)' = Apart(u, v)
  BY DEF Apart
<1>4. InOrder(Now)'
  <2> SUFFICES ASSUME NEW i \in DOMAIN Now', NEW j \in DOMAIN Now', i < j
               PROVE  Apart(Now[i], Now[j])'
    BY DEF InOrder
  <2>1. i \in DOMAIN Now
    BY <1>1
  <2>2. CASE j \in DOMAIN Now
    BY <1>1, <1>3, <2>1, <2>2 DEF QueueInv, InOrder
  <2>3. CASE j = Len(Now) + 1
    BY <1>1, <1>2, <2>1, <2>3, PlacedHere
  <2> QED
    BY <1>1, <2>2, <2>3
<1>5. ASSUME NEW i \in DOMAIN delivered, NEW n \in DOMAIN Now' PROVE Apart(delivered[i], Now[n])'
  <2>1. CASE n \in DOMAIN Now
    BY <1>1, <1>3, <2>1 DEF QueueInv
  <2>2. CASE n = Len(Now) + 1
    BY <1>1, <1>2, <2>2, PlacedHere
  <2> QED
    BY <1>1, <2>1, <2>2
<1>6. ASSUME NEW g \in Polls, Scanning(g) PROVE ScanInOrder(poll[g])'
  <2>1. ScanInOrder(poll[g]) /\ DOMAIN Now \subseteq DOMAIN Now'
    BY <1>1, <1>6 DEF QueueInv
  <2> QED
    BY <1>1, <1>3, <2>1 DEF ScanInOrder, InOrder
<1> QED
  BY <1>3, <1>4, <1>5, <1>6 DEF QueueInv, InOrder, Scanning

\* Steps of a handler that leave the queue alone: one that answers, one that
\* neither answers nor orders.
LEMMA AnswerOrder ==
    ASSUME PostedOnce, OrderInv, NEW c \in Clients, client[c].turn \in DOMAIN Program[c],
           Answer(c), UNCHANGED <<lists, current, poll>>
    PROVE  PastInv' /\ QueueInv'
<1>1. /\ Shrinks /\ client[c].turn \notin Open(c)'
      /\ answered' = answered \cup {Posting(c)} /\ UNCHANGED <<before, delivered>>
  BY TurnEnds, EndShrinks DEF Answer, OrderInv
<1>2. Placed' = Placed
  BY <1>1 DEF Placed, Now
<1>3. PastInv'
  BY <1>1, <1>2, PastKept DEF OrderInv
<1>4. QueueInv'
  BY <1>1, QueueKept DEF OrderInv
<1> QED
  BY <1>3, <1>4

LEMMA QuietOrder ==
    ASSUME PostedOnce, OrderInv, NEW c \in Clients, client[c].turn \in DOMAIN Program[c],
           Shrinks, UNCHANGED <<lists, current, poll, delivered, answered, before>>
    PROVE  PastInv' /\ QueueInv'
<1>1. Placed' = Placed
  BY DEF Placed, Now
<1>2. PastInv'
  BY <1>1, PastKept DEF OrderInv
<1>3. QueueInv'
  BY QueueKept DEF OrderInv
<1> QED
  BY <1>2, <1>3

LEMMA CheckOrder ==
    ASSUME PostedOnce, OrderInv, NEW c \in Clients, PostCheck(c)
    PROVE  PastInv' /\ QueueInv'
<1>1. client[c].turn \in DOMAIN Program[c] /\ client[c].pc = "idle" /\ TypeInv
  BY PostingType DEF PostCheck, OrderInv
<1>2. UNCHANGED <<lists, current, poll>>
  BY DEF PostCheck, queueState
<1>3. CASE is_expired(Posting(c))
  BY <1>1, <1>2, <1>3, AnswerOrder DEF PostCheck
<1>4. CASE ~ is_expired(Posting(c))
  <2>1. PICK me : Moves(c, me) /\ me.pc \in {"free", "taken"} /\ me.turn = client[c].turn
    BY <1>1, <1>4, GotoMoves DEF PostCheck
  <2>2. Shrinks /\ client[c].turn \notin Unseen(c)'
    BY <1>1, <2>1, StayShrinks DEF Early
  <2>3. /\ before' = before \cup (answered \X {Posting(c)})
        /\ UNCHANGED <<delivered, answered>>
    BY <1>4 DEF PostCheck
  <2>4. Posting(c) \notin Placed
    <3>1. client[c].turn \in Unplaced(c)
      BY <1>1, ThreadTypes DEF Unplaced, Open, ClientRecord
    <3> QED
      BY <3>1 DEF OrderInv, PastInv, Posting
  <2>5. Placed' = Placed
    BY <1>2, <2>3 DEF Placed, Now
  <2>6. PastInv'
    BY <1>1, <2>2, <2>3, <2>5, PastKept DEF OrderInv
  <2>7. QueueInv'
    BY <1>1, <1>2, <2>3, <2>4, QueueKept DEF OrderInv
  <2> QED
    BY <2>6, <2>7
<1> QED
  BY <1>3, <1>4

LEMMA AppendOrder ==
    ASSUME PostedOnce, OrderInv, NEW c \in Clients, PostAppend(c)
    PROVE  PastInv' /\ QueueInv'
<1> DEFINE x == Posting(c)
<1>1. /\ client[c].turn \in DOMAIN Program[c] /\ client[c].pc = "bound" /\ TypeInv
      /\ x \in Requests
  BY PostingType DEF PostAppend, OrderInv
<1>2. /\ client[c].turn \in Unplaced(c) /\ client[c].turn \in Open(c)
  BY <1>1, ThreadTypes DEF Unplaced, Open, ClientRecord
<1>3. x \notin Placed /\ \A p \in before : p[1] # x
  BY <1>2 DEF OrderInv, PastInv, Posting
<1>4. /\ Shrinks /\ client[c].turn \notin Unplaced(c)'
      /\ answered' = answered \/ client[c].turn \notin Open(c)'
      /\ answered \subseteq answered' /\ answered' \subseteq answered \cup {x}
      /\ UNCHANGED <<delivered, before>>
  <2>1. CASE Answer(c)
    BY <1>1, <2>1, TurnEnds, EndShrinks DEF Answer
  <2>2. CASE /\ client' = [client EXCEPT ![c].pc = "record", ![c].command = Posting(c)]
             /\ UNCHANGED history
    <3>1. PICK me : Moves(c, me) /\ me.pc = "record" /\ me.turn = client[c].turn
      BY <1>1, <2>2, RecordMoves
    <3> QED
      BY <1>1, <2>2, <3>1, StayShrinks DEF Early, history
  <2> QED
    BY <2>1, <2>2 DEF PostAppend
<1>5. /\ Len(lists') = Len(lists) /\ UNCHANGED <<current, poll>>
      /\ Now' = Append(Now, x) \/ Now' = Now
  <2>1. /\ current \in 1 .. Len(lists) /\ UNCHANGED <<current, poll>>
        /\ Len(lists') = Len(lists)
    BY <1>1, AppendList, ThreadTypes DEF PostAppend
  <2>2. lists'[current] = Append(lists[current], x) \/ lists'[current] = lists[current]
    BY <1>1, <2>1, AppendList
  <2> QED
    BY <2>1, <2>2 DEF Now
<1>6. Placed' \subseteq Placed \cup {x}
  <2>1. CASE Now' = Now
    BY <1>4, <2>1 DEF Placed
  <2>2. CASE Now' = Append(Now, x)
    <3>1. ToSet(Now') \subseteq ToSet(Now) \cup {x}
      BY <1>1, <2>2, ThreadTypes DEF ToSet
    <3> QED
      BY <1>4, <3>1 DEF Placed
  <2> QED
    BY <1>5, <2>1, <2>2
<1>7. PastInv'
  BY <1>1, <1>4, <1>6, PastKept DEF OrderInv
<1>8. QueueInv'
  <2>1. CASE Now' = Append(Now, x)
    BY <1>1, <1>3, <1>4, <1>5, <2>1, QueueGrows DEF OrderInv
  <2>2. CASE Now' = Now
    <3>1. /\ QueueInv /\ UNCHANGED <<delivered, before, current, poll>> /\ Len(lists') = Len(lists)
          /\ \A y, z : Apart(y, z)' = Apart(y, z)
      BY <1>4, <1>5 DEF OrderInv, Apart
    <3>2. \A g \in Polls : Scanning(g)' => ScanInOrder(poll[g])'
      BY <2>2, <3>1 DEF QueueInv, Scanning, ScanInOrder, InOrder
    <3>3. /\ current' = Len(lists') /\ InOrder(delivered)' /\ InOrder(Now)'
          /\ \A i \in DOMAIN delivered', n \in DOMAIN Now' : Apart(delivered[i], Now[n])'
      BY <2>2, <3>1 DEF QueueInv, InOrder
    <3> QED
      BY <3>2, <3>3 DEF QueueInv
  <2> QED
    BY <1>5, <2>1, <2>2
<1> QED
  BY <1>7, <1>8

LEMMA ServeOrder ==
    ASSUME PostedOnce, OrderInv, NEW c \in Clients, Serve(c)
    PROVE  PastInv' /\ QueueInv'
<1>1. ASSUME PostClaim(c) \/ PostBind(c) \/ RecordIntent(c) \/ ListIntent(c)
      PROVE  PastInv' /\ QueueInv'
  <2>1. /\ client[c].turn \in DOMAIN Program[c] /\ TypeInv
        /\ UNCHANGED <<lists, current, poll, delivered, answered, before>>
    BY <1>1, PostingType
    DEF PostClaim, PostBind, RecordIntent, ListIntent, OrderInv, queueState, history
  <2>2. PICK me : /\ Moves(c, me) /\ me.turn = client[c].turn
                  /\ me.pc \in {"claimed", "bound", "list", "log"}
                  /\ me.pc \in Early => client[c].pc \in Early
    <3>1. CASE PostClaim(c)
      BY <2>1, <3>1, GotoMoves DEF PostClaim, Early
    <3>2. CASE PostBind(c)
      BY <2>1, <3>2, BindMoves DEF PostBind, Early
    <3>3. CASE RecordIntent(c)
      BY <2>1, <3>3, GotoMoves DEF RecordIntent, Early
    <3>4. CASE ListIntent(c)
      BY <2>1, <3>4, GotoMoves DEF ListIntent, Early
    <3> QED
      BY <1>1, <3>1, <3>2, <3>3, <3>4
  <2>3. Shrinks
    BY <2>1, <2>2, StayShrinks
  <2> QED
    BY <2>1, <2>3, QuietOrder
<1>2. ASSUME PostDuplicate(c) PROVE PastInv' /\ QueueInv'
  <2>1. /\ client[c].turn \in DOMAIN Program[c] /\ TypeInv /\ client[c].pc = "taken"
        /\ KeyOf[Posting(c)] \in Keys /\ UNCHANGED <<lists, current, poll>>
    BY <1>2, PostingType DEF PostDuplicate, OrderInv, queueState
  <2>2. CASE Answer(c)
    BY <2>1, <2>2, AnswerOrder
  <2>3. CASE client' = [client EXCEPT ![c].pc = "idle", ![c].turn = @ + 1] /\ UNCHANGED history
    BY <2>1, <2>3, TurnEnds, EndShrinks, QuietOrder DEF history
  <2>4. CASE \E command \in Requests :
                /\ client' = [client EXCEPT ![c].pc = "record", ![c].command = command]
                /\ UNCHANGED history
    <3>1. PICK me : Moves(c, me) /\ me.pc = "record" /\ me.turn = client[c].turn
      BY <2>1, <2>4, RecordMoves
    <3> QED
      BY <2>1, <2>4, <3>1, StayShrinks, QuietOrder DEF Early, history
  <2>5. idempotency_index[KeyOf[Posting(c)]] \in Requests \cup {None}
    BY <2>1 DEF TypeInv, TypeOK
  <2> QED
    BY <1>2, <2>2, <2>3, <2>4, <2>5 DEF PostDuplicate
<1>3. ASSUME LogIntent(c) PROVE PastInv' /\ QueueInv'
  <2>1. /\ client[c].turn \in DOMAIN Program[c] /\ Answer(c)
        /\ UNCHANGED <<lists, current, poll>>
    BY <1>3, PostingType DEF LogIntent, OrderInv, queueState
  <2> QED
    BY <2>1, AnswerOrder
<1> QED
  BY <1>1, <1>2, <1>3, CheckOrder, AppendOrder DEF Serve

\* The clients and what was answered are as before: only what was handed over
\* and what is in the queue can differ, and nothing enters it.
LEMMA PastStays ==
    ASSUME PastInv, UNCHANGED <<client, answered, before>>, Placed' \subseteq Placed
    PROVE  PastInv'
BY DEF PastInv, Open, Unseen, Unplaced

\* The agent's steps that leave the queue alone.
LEMMA ScanKept ==
    ASSUME TypeInv, QueueInv, UNCHANGED <<lists, current, delivered, before>>,
           \A g \in Polls : Scanning(g)' => ScanInOrder(poll'[g])
    PROVE  QueueInv'
<1>1. Now' = Now
  BY DEF Now
<1>2. \A g \in Polls : Scanning(g)' => ScanInOrder(poll[g])'
  BY <1>1 DEF ScanInOrder, InOrder, Apart
<1> QED
  BY <1>1, <1>2 DEF QueueInv, InOrder, Apart

LEMMA ItemInOrder ==
    ASSUME OrderInv, NEW g \in Polls, PollItem(g)
    PROVE  ScanInOrder(poll'[g])
<1> DEFINE r == lists[poll[g].queue][poll[g].at]
<1>1. TypeInv /\ poll[g].pc = "scan" /\ ScanInOrder(poll[g]) /\ InOrder(Now)
  BY DEF OrderInv, QueueInv, PollItem, Scanning
<1>2. PICK me : /\ Turns(g, me) /\ me.pc = "scan" /\ me.queue = poll[g].queue
                /\ me.at = poll[g].at + 1
                /\ \/ me.selected = poll[g].selected /\ me.kept = poll[g].kept
                   \/ poll[g].selected = None /\ me.selected = r /\ me.kept = poll[g].kept
                   \/ /\ poll[g].selected # None /\ me.selected = poll[g].selected
                      /\ me.kept = Append(poll[g].kept, r)
  BY <1>1, ItemTurns
<1>3. /\ r = Now[poll[g].at] /\ poll[g].at \in DOMAIN Now /\ r \in Requests
      /\ me.queue = current /\ poll[g].kept \in Seq(Requests) /\ poll[g].at \in Nat
      /\ DOMAIN Now \subseteq Nat /\ poll'[g] = me
  <2>1. r \in Requests /\ poll[g].at \in DOMAIN lists[poll[g].queue]
    BY <1>1, ItemTurns
  <2> QED
    BY <1>1, <1>2, <2>1, ThreadTypes DEF ScanInOrder, Now, PollRecord, Turns
<1> HIDE DEF r
<1>4. CASE me.selected = poll[g].selected /\ me.kept = poll[g].kept
  BY <1>1, <1>2, <1>3, <1>4 DEF ScanInOrder
<1>5. CASE poll[g].selected = None /\ me.selected = r /\ me.kept = poll[g].kept
  <2>1. poll[g].kept = <<>> /\ DOMAIN me.kept = {} /\ me.selected # None
    BY <1>1, <1>3, <1>5, ThreadConstants DEF ScanInOrder
  <2>2. \E n \in DOMAIN Now : n < me.at /\ me.selected = Now[n]
    BY <1>2, <1>3, <1>5
  <2> QED
    BY <1>3, <2>1, <2>2 DEF ScanInOrder, InOrder
<1>6. CASE /\ poll[g].selected # None /\ me.selected = poll[g].selected
           /\ me.kept = Append(poll[g].kept, r)
  <2> DEFINE kept == poll[g].kept
  <2>1. /\ DOMAIN me.kept = 1 .. Len(kept) + 1 /\ DOMAIN kept = 1 .. Len(kept)
        /\ me.kept[Len(kept) + 1] = r /\ Len(kept) \in Nat
        /\ \A i \in DOMAIN kept : me.kept[i] = kept[i]
    BY <1>3, <1>6
  <2>2. /\ \A i \in DOMAIN kept : \E n \in DOMAIN Now : n < poll[g].at /\ kept[i] = Now[n]
        /\ \E n \in DOMAIN Now : n < poll[g].at /\ me.selected = Now[n]
        /\ \A i \in DOMAIN kept : Apart(me.selected, kept[i])
        /\ InOrder(kept)
    BY <1>1, <1>6 DEF ScanInOrder
  <2>3. \A n \in DOMAIN Now : n < poll[g].at => Apart(Now[n], r)
    BY <1>1, <1>3 DEF InOrder
  <2> HIDE DEF kept
  <2>4. \A i \in DOMAIN me.kept : \E n \in DOMAIN Now : n < me.at /\ me.kept[i] = Now[n]
    <3> SUFFICES ASSUME NEW i \in DOMAIN me.kept
                 PROVE  \E n \in DOMAIN Now : n < me.at /\ me.kept[i] = Now[n]
      OBVIOUS
    <3>1. CASE i \in DOMAIN kept
      BY <1>2, <1>3, <2>1, <2>2, <3>1
    <3>2. CASE i = Len(kept) + 1
      BY <1>2, <1>3, <2>1, <3>2
    <3> QED
      BY <2>1, <3>1, <3>2
  <2>5. \E n \in DOMAIN Now : n < me.at /\ me.selected = Now[n]
    BY <1>2, <1>3, <2>2
  <2>6. \A i \in DOMAIN me.kept : Apart(me.selected, me.kept[i])
    BY <2>1, <2>2, <2>3
  <2>7. InOrder(me.kept)
    <3> SUFFICES ASSUME NEW i \in DOMAIN me.kept, NEW j \in DOMAIN me.kept, i < j
                 PROVE  Apart(me.kept[i], me.kept[j])
      BY DEF InOrder
    <3>1. i \in DOMAIN kept
      BY <2>1
    <3>2. CASE j \in DOMAIN kept
      BY <2>1, <2>2, <3>1, <3>2 DEF InOrder
    <3>3. CASE j = Len(kept) + 1
      BY <2>1, <2>2, <2>3, <3>1, <3>3
    <3> QED
      BY <2>1, <3>2, <3>3
  <2> QED
    BY <1>3, <1>6, <2>4, <2>5, <2>6, <2>7 DEF ScanInOrder
<1> QED
  BY <1>2, <1>4, <1>5, <1>6

\* A poll whose loop is over does not go back to it.
LEMMA ScanEnds ==
    ASSUME TypeInv, NEW g \in Polls,
           \/ PollReplace(g) \/ ReportLook(g) \/ ReportIntent(g) \/ ReportEvent(g) \/ ReportDone(g)
    PROVE  ~ Scanning(g)'
<1>1. poll[g] \in PollRecord(Len(lists)) /\ poll \in [Polls -> PollRecord(Len(lists))]
  BY ThreadTypes
<1>2. CASE PollReplace(g)
  <2>1. CASE poll[g].selected = None
    BY <1>1, <1>2, <2>1 DEF PollReplace, Scanning, PollRecord
  <2>2. CASE poll[g].selected # None
    BY <1>1, <1>2, <2>2 DEF PollReplace, Scanning, PollRecord
  <2> QED
    BY <2>1, <2>2
<1>3. CASE ReportLook(g)
  <2>1. CASE mirror_command_index[poll[g].selected] = <<>>
    BY <1>1, <1>3, <2>1 DEF ReportLook, Scanning, PollRecord
  <2>2. CASE mirror_command_index[poll[g].selected] # <<>>
    BY <1>1, <1>3, <2>2 DEF ReportLook, Scanning, PollRecord
  <2> QED
    BY <2>1, <2>2
<1>4. CASE ReportIntent(g)
  BY <1>1, <1>4 DEF ReportIntent, Scanning, PollRecord
<1>5. CASE ReportEvent(g)
  BY <1>1, <1>5 DEF ReportEvent, Scanning, PollRecord
<1>6. CASE ReportDone(g)
  BY <1>1, <1>6 DEF ReportDone, Scanning, PollRecord
<1> QED
  BY <1>2, <1>3, <1>4, <1>5, <1>6

\* The poll hands over what it selected and leaves what it kept.
LEMMA ReplaceOrder ==
    ASSUME OneConnection, OrderInv, NEW g \in Polls, PollReplace(g)
    PROVE  PastInv' /\ QueueInv'
<1> DEFINE kept == poll[g].kept
           x == poll[g].selected
<1>1. /\ TypeInv /\ Scanning(g) /\ ScanInOrder(poll[g]) /\ Now' = kept
      /\ lists' \in Seq(Seq(Requests)) /\ current' = Len(lists')
      /\ UNCHANGED <<client, answered, before>> /\ delivered \in Seq(Requests)
  BY ReplaceList DEF OrderInv, QueueInv, PollReplace, Scanning, TypeInv, TypeOK
<1>2. ~ Scanning(g)'
  BY <1>1, ScanEnds
<1>3. /\ \A i \in DOMAIN kept : \E n \in DOMAIN Now : kept[i] = Now[n]
      /\ x # None => /\ \E n \in DOMAIN Now : x = Now[n]
                     /\ \A i \in DOMAIN kept : Apart(x, kept[i])
      /\ InOrder(kept)
  BY <1>1 DEF ScanInOrder
<1>4. /\ InOrder(delivered)
      /\ \A i \in DOMAIN delivered, n \in DOMAIN Now : Apart(delivered[i], Now[n])
      /\ \A u, v : Apart(u, v)' = Apart(u, v)
  BY <1>1 DEF OrderInv, QueueInv, Apart
<1>5. /\ \A i \in DOMAIN delivered, n \in DOMAIN kept : Apart(delivered[i], kept[n])
      /\ x # None => \A i \in DOMAIN delivered : Apart(delivered[i], x)
  BY <1>3, <1>4
<1>6. ToSet(kept) \subseteq Placed /\ (x # None => x \in Placed)
  BY <1>1, ScanPlaced DEF OrderInv, ToSet
<1>7. CASE x = None
  <2>1. delivered' = delivered
    BY <1>7 DEF PollReplace
  <2>2. Placed' \subseteq Placed
    BY <1>1, <1>6, <2>1 DEF Placed
  <2>3. QueueInv'
    <3>1. InOrder(delivered)' /\ InOrder(Now)'
      BY <1>1, <1>3, <1>4, <2>1 DEF InOrder
    <3>2. \A i \in DOMAIN delivered', n \in DOMAIN Now' : Apart(delivered[i], Now[n])'
      BY <1>1, <1>4, <1>5, <2>1
    <3> QED
      BY <1>1, <1>2, <3>1, <3>2 DEF QueueInv, OneConnection
  <2> QED
    BY <1>1, <2>2, <2>3, PastStays DEF OrderInv
<1>8. CASE x # None
  <2>1. delivered' = Append(delivered, x)
    BY <1>8 DEF PollReplace
  <2>2. /\ DOMAIN delivered = 1 .. Len(delivered) /\ Len(delivered) \in Nat
        /\ DOMAIN delivered' = 1 .. Len(delivered) + 1 /\ delivered'[Len(delivered) + 1] = x
        /\ \A i \in DOMAIN delivered : delivered'[i] = delivered[i]
    <3>1. x \in Requests
      BY <1>1, <1>8, ThreadTypes DEF PollRecord
    <3> QED
      BY <1>1, <2>1, <3>1
  <2> HIDE DEF kept, x
  <2>3. Placed' \subseteq Placed
    <3>1. ToSet(delivered') \subseteq ToSet(delivered) \cup {x}
      BY <2>2 DEF ToSet
    <3> QED
      BY <1>1, <1>6, <1>8, <3>1 DEF Placed
  <2>4. InOrder(delivered)'
    <3> SUFFICES ASSUME NEW i \in DOMAIN delivered', NEW j \in DOMAIN delivered', i < j
                 PROVE  Apart(delivered[i], delivered[j])'
      BY DEF InOrder
    <3>1. i \in DOMAIN delivered
      BY <2>2
    <3>2. CASE j \in DOMAIN delivered
      BY <1>4, <2>2, <3>1, <3>2 DEF InOrder
    <3>3. CASE j = Len(delivered) + 1
      BY <1>4, <1>5, <1>8, <2>2, <3>1, <3>3
    <3> QED
      BY <2>2, <3>2, <3>3
  <2>5. ASSUME NEW i \in DOMAIN delivered', NEW n \in DOMAIN kept
        PROVE  Apart(delivered'[i], kept[n])
    <3>1. CASE i \in DOMAIN delivered
      BY <1>5, <2>2, <3>1
    <3>2. CASE i = Len(delivered) + 1
      BY <1>3, <1>8, <2>2, <3>2
    <3> QED
      BY <2>2, <3>1, <3>2
  <2>6. QueueInv'
    <3>1. InOrder(Now)'
      BY <1>1, <1>3, <1>4 DEF InOrder
    <3>2. \A i \in DOMAIN delivered', n \in DOMAIN Now' : Apart(delivered[i], Now[n])'
      BY <1>1, <1>4, <2>5
    <3> QED
      BY <1>1, <1>2, <2>4, <3>1, <3>2 DEF QueueInv, OneConnection
  <2> QED
    BY <1>1, <2>3, <2>6, PastStays DEF OrderInv
<1> QED
  BY <1>7, <1>8

LEMMA AgentOrder ==
    ASSUME OneConnection, OrderInv, NEW g \in Polls, Agent(g)
    PROVE  PastInv' /\ QueueInv'
<1>1. TypeInv /\ PastInv /\ QueueInv /\ (\A h \in Polls : h = g)
  BY DEF OrderInv, OneConnection
<1>2. ASSUME UNCHANGED <<lists, current, client, delivered, answered, before>>,
             Scanning(g)' => ScanInOrder(poll'[g])
      PROVE  PastInv' /\ QueueInv'
  <2>1. Placed' \subseteq Placed
    BY <1>2 DEF Placed, Now
  <2>2. \A h \in Polls : Scanning(h)' => ScanInOrder(poll'[h])
    BY <1>1, <1>2
  <2> QED
    BY <1>1, <1>2, <2>1, <2>2, PastStays, ScanKept
<1>3. CASE PollStart(g)
  <2>1. PICK me : /\ Turns(g, me) /\ me.queue = current /\ me.at = 1
                  /\ me.kept = <<>> /\ me.selected = None
    BY <1>1, <1>3, StartTurns
  <2>2. poll'[g] = me /\ DOMAIN me.kept = {}
    BY <1>1, <2>1, ThreadTypes DEF Turns
  <2>3. ScanInOrder(me)
    BY <2>1, <2>2 DEF ScanInOrder, InOrder
  <2> QED
    BY <1>2, <1>3, <2>2, <2>3 DEF PollStart, queueState, history
<1>4. CASE PollItem(g)
  BY <1>2, <1>4, ItemInOrder DEF PollItem, history
<1>5. CASE PollEnd(g)
  <2>1. /\ Scanning(g) /\ poll[g] \in PollRecord(Len(lists))
        /\ poll' = [poll EXCEPT ![g].pc = "replace"]
    BY <1>1, <1>5, ThreadTypes DEF PollEnd, Scanning
  <2>2. PICK me : /\ Turns(g, me) /\ me.pc = "replace" /\ me.queue = poll[g].queue
                  /\ me.at = poll[g].at /\ me.kept = poll[g].kept
                  /\ me.selected = poll[g].selected
    BY <1>1, <2>1, PollPcTurns, Zenon
  <2>3. ScanInOrder(poll'[g])
    BY <1>1, <2>1, <2>2, ThreadTypes DEF QueueInv, ScanInOrder, Turns
  <2> QED
    BY <1>2, <1>5, <2>3 DEF PollEnd, queueState, history
<1>6. CASE PollReplace(g)
  BY <1>6, ReplaceOrder
<1>7. ASSUME ReportLook(g) \/ ReportIntent(g) \/ ReportEvent(g) \/ ReportDone(g)
      PROVE  PastInv' /\ QueueInv'
  <2>1. UNCHANGED <<lists, current, client, delivered, answered, before>>
    BY <1>7 DEF ReportLook, ReportIntent, ReportEvent, ReportDone, queueState, history
  <2>2. ~ Scanning(g)'
    BY <1>1, <1>7, ScanEnds
  <2> QED
    BY <1>2, <2>1, <2>2
<1> QED
  BY <1>3, <1>4, <1>5, <1>6, <1>7 DEF Agent

LEMMA OrderInit == Init => OrderInv
<1> SUFFICES ASSUME Init PROVE OrderInv
  OBVIOUS
<1>1. /\ TypeInv /\ current = Len(lists) /\ Now = <<>> /\ delivered = <<>>
      /\ before = {} /\ answered = {} /\ \A g \in Polls : poll[g].pc = "idle"
  BY TypeInit DEF Init, Now
<1>2. DOMAIN Now = {} /\ DOMAIN delivered = {}
  BY <1>1
<1>3. Placed = {}
  BY <1>2 DEF Placed, ToSet
<1> QED
  BY <1>1, <1>2, <1>3 DEF OrderInv, PastInv, QueueInv, InOrder, Scanning

LEMMA OrderStep ==
    ASSUME PostedOnce, OneConnection
    PROVE  OrderInv /\ [Next]_vars => OrderInv'
<1> SUFFICES ASSUME OrderInv, [Next]_vars PROVE PastInv' /\ QueueInv'
  BY TypeStep DEF OrderInv
<1>1. ASSUME Tick \/ UNCHANGED vars PROVE PastInv' /\ QueueInv'
  <2>1. UNCHANGED <<lists, current, client, poll, delivered, answered, before>>
    BY <1>1 DEF Tick, vars, queueState, history
  <2>2. Placed' = Placed /\ Now' = Now
    BY <2>1 DEF Placed, Now
  <2>3. QueueInv'
    BY <2>1, <2>2 DEF OrderInv, QueueInv, InOrder, Apart, Scanning, ScanInOrder
  <2> QED
    BY <2>1, <2>2, <2>3, PastStays DEF OrderInv
<1> QED
  BY <1>1, ServeOrder, AgentOrder DEF Next

\* When each request is posted once and the agent polls on one connection, no
\* command is handed over twice, although the queue is iterated, appended to and
\* replaced without a lock.
THEOREM HandedOnce ==
    ASSUME PostedOnce, OneConnection
    PROVE  Spec => []HandedOverOnce
<1>1. OrderInv => HandedOverOnce
  <2> SUFFICES ASSUME OrderInv PROVE HandedOverOnce
    OBVIOUS
  <2>1. InOrder(delivered) /\ delivered \in Seq(Requests)
    BY DEF OrderInv, QueueInv, TypeInv, TypeOK
  <2> SUFFICES ASSUME NEW i \in DOMAIN delivered, NEW j \in DOMAIN delivered,
                      delivered[i] = delivered[j]
               PROVE  i = j
    BY DEF HandedOverOnce, IsInjective
  <2>2. i \in Nat /\ j \in Nat
    BY <2>1
  <2>3. ~ (i < j) /\ ~ (j < i)
    BY <2>1 DEF InOrder, Apart
  <2> QED
    BY <2>2, <2>3
<1>2. OrderInv /\ [Next]_vars => OrderInv'
  BY OrderStep
<1> QED
  BY <1>1, <1>2, OrderInit, PTL DEF Spec

\* And a command that was accepted before another was posted is not handed over
\* after it: no append and no replacement reorders the queue.
THEOREM InArrivalOrder ==
    ASSUME PostedOnce, OneConnection
    PROVE  Spec => []FirstComeFirstServed
<1>1. OrderInv => FirstComeFirstServed
  BY DEF OrderInv, QueueInv, InOrder, Apart, FirstComeFirstServed
<1>2. OrderInv /\ [Next]_vars => OrderInv'
  BY OrderStep
<1> QED
  BY <1>1, <1>2, OrderInit, PTL DEF Spec

-----------------------------------------------------------------------------
(* What the queue loses.                                                   *)

\* The loop of a poll runs over the queue itself, and whatever it has passed is
\* expired or taken over.
LoopSound(me) ==
    /\ me.queue = current /\ me.at <= Len(Now) + 1
    /\ \A n \in DOMAIN Now : n < me.at => is_expired(Now[n]) \/ Now[n] \in Taken(me)

LoopsSound == \A g \in Polls : Scanning(g) => LoopSound(poll[g])

LoopInv == TypeInv /\ LoopsSound

LEMMA LoopStays ==
    ASSUME LoopInv, UNCHANGED <<current, poll>>, Now' = Now, now' = now \/ now' = now + 1
    PROVE  LoopsSound'
<1>1. \A r \in Requests : is_expired(r) => is_expired(r)'
  BY ThreadConstants DEF LoopInv, TypeInv, TypeOK, is_expired
<1>2. \A n \in DOMAIN Now : Now[n] \in Requests
  BY ThreadTypes DEF LoopInv
<1> SUFFICES ASSUME NEW g \in Polls, Scanning(g)' PROVE LoopSound(poll[g])'
  BY DEF LoopsSound
<1>3. LoopSound(poll[g])
  BY DEF LoopInv, LoopsSound, Scanning
<1> QED
  BY <1>1, <1>2, <1>3 DEF LoopSound

\* An append is ahead of every loop.
LEMMA LoopGrows ==
    ASSUME LoopInv, UNCHANGED <<now, current, poll>>,
           NEW x \in Requests, Now' = Append(Now, x)
    PROVE  LoopsSound'
<1>1. /\ Now \in Seq(Requests) /\ Len(Now) \in Nat /\ Len(Now') = Len(Now) + 1
      /\ DOMAIN Now = 1 .. Len(Now) /\ DOMAIN Now' = 1 .. Len(Now) + 1
      /\ \A n \in DOMAIN Now : Now'[n] = Now[n]
  BY ThreadTypes DEF LoopInv
<1> SUFFICES ASSUME NEW g \in Polls, Scanning(g)' PROVE LoopSound(poll[g])'
  BY DEF LoopsSound
<1>3. /\ LoopSound(poll[g]) /\ poll[g].at \in Nat /\ poll'[g] = poll[g]
  BY ThreadTypes DEF LoopInv, LoopsSound, Scanning, PollRecord
<1>4. poll[g].queue = current' /\ poll[g].at <= Len(Now') + 1
  BY <1>1, <1>3 DEF LoopSound
<1>5. ASSUME NEW n \in DOMAIN Now', n < poll[g].at
      PROVE  is_expired(Now'[n]) \/ Now'[n] \in Taken(poll[g])
  <2>1. n \in DOMAIN Now /\ Now'[n] = Now[n]
    BY <1>1, <1>3, <1>5 DEF LoopSound
  <2> QED
    BY <1>3, <1>5, <2>1 DEF LoopSound
<1> QED
  BY <1>3, <1>4, <1>5 DEF LoopSound, Taken, is_expired

\* A client's step leaves the queue alone or appends to it.
LEMMA ServeQueue ==
    ASSUME TypeInv, NEW c \in Clients, Serve(c)
    PROVE  /\ UNCHANGED <<now, current, poll, delivered>>
           /\ Now' = Now \/ (Posting(c) \in Requests /\ Now' = Append(Now, Posting(c)))
<1>1. CASE PostAppend(c)
  <2>1. UNCHANGED <<now, current, poll, delivered>>
    BY <1>1 DEF PostAppend, Answer, history
  <2>2. current \in 1 .. Len(lists)
    BY ThreadTypes
  <2> QED
    BY <1>1, <2>1, <2>2, AppendList DEF Now
<1>2. ASSUME \/ PostCheck(c) \/ PostClaim(c) \/ PostBind(c) \/ PostDuplicate(c)
             \/ RecordIntent(c) \/ ListIntent(c) \/ LogIntent(c)
      PROVE  UNCHANGED <<now, lists, current, poll, delivered>>
  <2>1. CASE PostCheck(c)
    BY <2>1 DEF PostCheck, Answer, queueState
  <2>2. CASE PostClaim(c) \/ PostBind(c)
    BY <2>2 DEF PostClaim, PostBind, queueState, history
  <2>3. CASE PostDuplicate(c)
    BY <2>3 DEF PostDuplicate, Answer, queueState, history
  <2>4. CASE RecordIntent(c) \/ ListIntent(c)
    BY <2>4 DEF RecordIntent, ListIntent, queueState, history
  <2>5. CASE LogIntent(c)
    BY <2>5 DEF LogIntent, Answer, queueState
  <2> QED
    BY <1>2, <2>1, <2>2, <2>3, <2>4, <2>5
<1> QED
  BY <1>1, <1>2 DEF Serve, Now

\* What the loop takes over next: nothing, its command, or one more to keep.
LEMMA TakenGrows ==
    ASSUME NEW me \in PollRecord(Len(lists)), NEW then \in PollRecord(Len(lists)),
           NEW r \in Requests,
           \/ then.selected = me.selected /\ then.kept = me.kept
           \/ me.selected = None /\ then.selected = r /\ then.kept = me.kept
           \/ /\ me.selected # None /\ then.selected = me.selected
              /\ then.kept = Append(me.kept, r)
    PROVE  /\ Taken(me) \subseteq Taken(then)
           /\ (then.selected = me.selected /\ then.kept = me.kept) \/ r \in Taken(then)
<1>1. me.kept \in Seq(Requests) /\ None \notin Requests
  BY ThreadConstants DEF PollRecord
<1>2. CASE then.selected = me.selected /\ then.kept = me.kept
  BY <1>2 DEF Taken
<1>3. CASE me.selected = None /\ then.selected = r /\ then.kept = me.kept
  BY <1>1, <1>3 DEF Taken
<1>4. CASE /\ me.selected # None /\ then.selected = me.selected
           /\ then.kept = Append(me.kept, r)
  <2>1. ToSet(then.kept) = ToSet(me.kept) \cup {r}
    <3>1. /\ DOMAIN then.kept = 1 .. Len(me.kept) + 1 /\ DOMAIN me.kept = 1 .. Len(me.kept)
          /\ then.kept[Len(me.kept) + 1] = r /\ Len(me.kept) \in Nat
          /\ \A i \in DOMAIN me.kept : then.kept[i] = me.kept[i]
      BY <1>1, <1>4
    <3> QED
      BY <3>1 DEF ToSet
  <2> QED
    BY <1>4, <2>1 DEF Taken
<1> QED
  BY <1>2, <1>3, <1>4

LEMMA LoopPasses ==
    ASSUME LoopInv, NEW g \in Polls, PollItem(g)
    PROVE  LoopSound(poll[g])'
<1> DEFINE r == lists[poll[g].queue][poll[g].at]
<1>1. TypeInv /\ LoopSound(poll[g]) /\ UNCHANGED <<now, lists, current>>
  BY DEF LoopInv, LoopsSound, PollItem, Scanning
<1>2. /\ r \in Requests /\ poll[g].at \in DOMAIN Now /\ r = Now[poll[g].at]
  BY <1>1, ItemTurns DEF LoopSound, Now
<1>3. PICK me : /\ Turns(g, me) /\ me.queue = poll[g].queue /\ me.at = poll[g].at + 1
                /\ \/ is_expired(r) /\ me.selected = poll[g].selected /\ me.kept = poll[g].kept
                   \/ poll[g].selected = None /\ me.selected = r /\ me.kept = poll[g].kept
                   \/ /\ poll[g].selected # None /\ me.selected = poll[g].selected
                      /\ me.kept = Append(poll[g].kept, r)
  BY <1>1, ItemTurns
<1>4. /\ poll'[g] = me /\ me \in PollRecord(Len(lists)) /\ poll[g] \in PollRecord(Len(lists))
      /\ poll[g].at \in Nat
  BY <1>1, <1>3, ThreadTypes DEF Turns, PollRecord
<1> HIDE DEF r
<1>5. Taken(poll[g]) \subseteq Taken(me) /\ (is_expired(r) \/ r \in Taken(me))
  <2>1. CASE is_expired(r) /\ me.selected = poll[g].selected /\ me.kept = poll[g].kept
    BY <1>2, <1>4, <2>1, TakenGrows
  <2>2. CASE poll[g].selected = None /\ me.selected = r /\ me.kept = poll[g].kept
    <3>1. me.selected # poll[g].selected
      BY <1>2, <2>2, ThreadConstants
    <3> QED
      BY <1>2, <1>4, <2>2, <3>1, TakenGrows
  <2>3. CASE /\ poll[g].selected # None /\ me.selected = poll[g].selected
             /\ me.kept = Append(poll[g].kept, r)
    <3>1. me.kept # poll[g].kept
      BY <1>2, <1>4, <2>3 DEF PollRecord
    <3> QED
      BY <1>2, <1>4, <2>3, <3>1, TakenGrows
  <2> QED
    BY <1>3, <2>1, <2>2, <2>3
<1>6. Now \in Seq(Requests)
  BY <1>1, ThreadTypes
<1>7. LoopSound(me)
  <2>1. me.queue = current /\ me.at <= Len(Now) + 1
    BY <1>1, <1>2, <1>3, <1>4, <1>6 DEF LoopSound
  <2>2. ASSUME NEW n \in DOMAIN Now, n < me.at
        PROVE  is_expired(Now[n]) \/ Now[n] \in Taken(me)
    <3>1. CASE n = poll[g].at
      BY <1>2, <1>5, <3>1
    <3>2. CASE n < poll[g].at
      BY <1>1, <1>5, <3>2 DEF LoopSound
    <3> QED
      BY <1>3, <1>4, <1>6, <2>2, <3>1, <3>2
  <2> QED
    BY <2>1, <2>2 DEF LoopSound
<1> QED
  BY <1>1, <1>4, <1>7 DEF LoopSound, Now, is_expired, Taken

LEMMA LoopAgent ==
    ASSUME OneConnection, LoopInv, NEW g \in Polls, Agent(g)
    PROVE  LoopsSound'
<1>1. TypeInv /\ (\A h \in Polls : h = g)
  BY DEF LoopInv, OneConnection
<1> SUFFICES Scanning(g)' => LoopSound(poll[g])'
  BY <1>1 DEF LoopsSound
<1>2. CASE PollStart(g)
  <2>1. PICK me : /\ Turns(g, me) /\ me.queue = current /\ me.at = 1
    BY <1>1, <1>2, StartTurns
  <2>2. poll'[g] = me /\ UNCHANGED <<now, lists, current>> /\ Now \in Seq(Requests)
    BY <1>1, <1>2, <2>1, ThreadTypes DEF Turns, PollStart, queueState
  <2> QED
    BY <2>1, <2>2 DEF LoopSound, Now
<1>3. CASE PollItem(g)
  BY <1>3, LoopPasses
<1>4. CASE PollEnd(g)
  <2>1. /\ Scanning(g) /\ poll' = [poll EXCEPT ![g].pc = "replace"]
        /\ UNCHANGED <<now, lists, current>>
    BY <1>4 DEF PollEnd, Scanning, queueState
  <2>2. PICK me : /\ Turns(g, me) /\ me.pc = "replace" /\ me.queue = poll[g].queue
                  /\ me.at = poll[g].at /\ me.kept = poll[g].kept
                  /\ me.selected = poll[g].selected
    BY <1>1, <2>1, PollPcTurns, Zenon
  <2>3. LoopSound(poll[g]) /\ poll'[g] = me
    BY <1>1, <2>1, <2>2, ThreadTypes DEF LoopInv, LoopsSound, Turns
  <2> QED
    BY <2>1, <2>2, <2>3 DEF LoopSound, Now, is_expired, Taken
<1>5. ASSUME PollReplace(g) \/ ReportLook(g) \/ ReportIntent(g) \/ ReportEvent(g) \/ ReportDone(g)
      PROVE  ~ Scanning(g)'
  BY <1>1, <1>5, ScanEnds
<1> QED
  BY <1>2, <1>3, <1>4, <1>5 DEF Agent

LEMMA LoopInit == Init => LoopInv
BY TypeInit DEF Init, LoopInv, LoopsSound, Scanning

LEMMA LoopStep == ASSUME OneConnection PROVE LoopInv /\ [Next]_vars => LoopInv'
<1> SUFFICES ASSUME LoopInv, [Next]_vars PROVE LoopsSound'
  BY TypeStep DEF LoopInv
<1>1. CASE Tick \/ UNCHANGED vars
  <2>1. UNCHANGED <<lists, current, poll>> /\ (now' = now \/ now' = now + 1)
    BY <1>1 DEF Tick, vars, queueState
  <2> QED
    BY <2>1, LoopStays DEF Now
<1>2. ASSUME NEW c \in Clients, Serve(c) PROVE LoopsSound'
  BY <1>2, ServeQueue, LoopStays, LoopGrows DEF LoopInv
<1> QED
  BY <1>1, <1>2, LoopAgent DEF Next

\* Only the end of its loop takes a poll from its scan to the replacement, and
\* then the loop has passed the whole queue.
LEMMA EndPassedAll ==
    ASSUME OneConnection, LoopInv, [Next]_vars,
           NEW g \in Polls, poll[g].pc = "scan", poll'[g].pc = "replace",
           NEW x \in ToSet(Now)
    PROVE  is_expired(x) \/ x \in Taken(poll[g])
<1>1. TypeInv /\ LoopSound(poll[g]) /\ (\A h \in Polls : h = g)
  BY DEF LoopInv, LoopsSound, Scanning, OneConnection
<1>2. ASSUME UNCHANGED poll PROVE FALSE
  BY <1>2
<1>3. ASSUME NEW c \in Clients, Serve(c) PROVE FALSE
  BY <1>1, <1>2, <1>3, ServeQueue
<1>4. CASE PollEnd(g)
  <2>1. poll[g].at > Len(Now) /\ Now \in Seq(Requests) /\ poll[g].at \in Nat
    BY <1>1, <1>4, ThreadTypes DEF PollEnd, LoopSound, Now, PollRecord
  <2>2. PICK n \in DOMAIN Now : x = Now[n]
    BY DEF ToSet
  <2>3. n < poll[g].at
    BY <2>1
  <2> QED
    BY <1>1, <2>2, <2>3 DEF LoopSound
<1>5. ASSUME PollItem(g) PROVE FALSE
  <2>1. PICK me : Turns(g, me) /\ me.pc = "scan"
    BY <1>1, <1>5, ItemTurns
  <2> QED
    BY <1>1, <2>1, ThreadTypes DEF Turns
<1>6. ~ (Tick \/ UNCHANGED vars)
  BY <1>2 DEF Tick, vars
<1>7. ~ (\/ PollStart(g) \/ PollReplace(g) \/ ReportLook(g) \/ ReportIntent(g)
         \/ ReportEvent(g) \/ ReportDone(g))
  BY DEF PollStart, PollReplace, ReportLook, ReportIntent, ReportEvent, ReportDone
<1>8. Agent(g)
  BY <1>1, <1>3, <1>6 DEF Next
<1> QED
  BY <1>4, <1>5, <1>7, <1>8 DEF Agent

\* Nothing but time and a replacement takes a command from those that can be
\* handed over, and a replacement none that its loop took over.
LEMMA LiveStays ==
    ASSUME OneConnection, LoopInv, [Next]_vars, NEW x \in Live, x \notin Live'
    PROVE  is_expired(x)' \/ \E g \in Polls : PollReplace(g) /\ x \notin Taken(poll[g])
<1>1. TypeInv /\ Now \in Seq(Requests)
  BY ThreadTypes DEF LoopInv
<1>2. x \in ToSet(delivered) \/ (x \in ToSet(Now) /\ ~ is_expired(x))
  BY DEF Live, Now
<1>3. ~ (x \in ToSet(delivered)') /\ (x \in ToSet(Now)' => is_expired(x)')
  BY DEF Live, Now
<1>4. CASE Tick \/ UNCHANGED vars
  <2>1. UNCHANGED <<lists, current, delivered>>
    BY <1>4 DEF Tick, vars, queueState, history
  <2> QED
    BY <1>2, <1>3, <2>1 DEF Now
<1>5. ASSUME NEW c \in Clients, Serve(c) PROVE is_expired(x)'
  <2>1. UNCHANGED delivered /\ ToSet(Now) \subseteq ToSet(Now)'
    <3>1. /\ UNCHANGED delivered
          /\ Now' = Now \/ (Posting(c) \in Requests /\ Now' = Append(Now, Posting(c)))
      BY <1>1, <1>5, ServeQueue
    <3> QED
      BY <1>1, <3>1 DEF ToSet
  <2> QED
    BY <1>2, <1>3, <2>1
<1>6. ASSUME NEW g \in Polls, Agent(g), ~ PollReplace(g) PROVE is_expired(x)'
  <2>1. UNCHANGED <<lists, current, delivered>>
    <3>1. CASE PollStart(g) \/ PollItem(g) \/ PollEnd(g)
      BY <3>1 DEF PollStart, PollItem, PollEnd, queueState, history
    <3>2. CASE ReportLook(g) \/ ReportIntent(g) \/ ReportEvent(g) \/ ReportDone(g)
      BY <3>2 DEF ReportLook, ReportIntent, ReportEvent, ReportDone, queueState, history
    <3> QED
      BY <1>6, <3>1, <3>2 DEF Agent
  <2> QED
    BY <1>2, <1>3, <2>1 DEF Now
<1>7. ASSUME NEW g \in Polls, PollReplace(g), x \in Taken(poll[g]) PROVE is_expired(x)'
  <2>1. Now' = poll[g].kept /\ delivered \in Seq(Requests)
        /\ poll[g].selected \in Requests \cup {None}
    BY <1>1, <1>7, ReplaceList, ThreadTypes DEF TypeInv, TypeOK, PollRecord
  <2>2. CASE x \in ToSet(poll[g].kept)
    BY <1>3, <2>1, <2>2
  <2>3. CASE x = poll[g].selected /\ x # None
    <3>1. delivered' = Append(delivered, x) /\ x \in Requests
      BY <1>7, <2>1, <2>3 DEF PollReplace
    <3>2. x \in ToSet(delivered')
      <4>1. Len(delivered) + 1 \in DOMAIN delivered' /\ delivered'[Len(delivered) + 1] = x
        BY <2>1, <3>1
      <4> QED
        BY <4>1 DEF ToSet
    <3> QED
      BY <1>3, <3>2
  <2> QED
    BY <1>7, <2>2, <2>3 DEF Taken
<1> QED
  BY <1>4, <1>5, <1>6, <1>7 DEF Next

LEMMA ServeAlone ==
    ASSUME TypeInv, NEW c \in Clients, Serve(c), NEW d \in Clients, d # c
    PROVE  client'[d] = client[d]
<1>1. client \in [Clients -> ClientRecord(Len(lists))]
  BY ThreadTypes
<1>2. CASE PostCheck(c)
  BY <1>1, <1>2 DEF PostCheck, Answer, Goto
<1>3. CASE PostClaim(c) \/ PostBind(c)
  BY <1>1, <1>3 DEF PostClaim, PostBind, Goto
<1>4. CASE PostAppend(c)
  BY <1>1, <1>4 DEF PostAppend, Answer
<1>5. CASE PostDuplicate(c)
  BY <1>1, <1>5 DEF PostDuplicate, Answer
<1>6. CASE RecordIntent(c) \/ ListIntent(c)
  BY <1>1, <1>6 DEF RecordIntent, ListIntent, Goto
<1>7. CASE LogIntent(c)
  BY <1>1, <1>7 DEF LogIntent, Answer
<1> QED
  BY <1>2, <1>3, <1>4, <1>5, <1>6, <1>7 DEF Serve

\* A handler that leaves its append has put its request on the list it held.
LEMMA AppendIsLive ==
    ASSUME OneConnection, LoopInv, [Next]_vars,
           NEW c \in Clients, client[c].pc = "bound", client'[c].pc # "bound",
           client[c].queue = current, ~ is_expired(Posting(c))
    PROVE  Posting(c) \in Live'
<1>1. TypeInv /\ Now \in Seq(Requests)
  BY ThreadTypes DEF LoopInv
<1>2. ASSUME UNCHANGED client PROVE FALSE
  BY <1>2
<1>3. ~ (Tick \/ UNCHANGED vars)
  BY <1>2 DEF Tick, vars
<1>4. ~ \E g \in Polls : Agent(g)
  <2> SUFFICES ASSUME NEW g \in Polls, Agent(g) PROVE FALSE
    OBVIOUS
  <2>1. CASE PollStart(g) \/ PollItem(g) \/ PollEnd(g) \/ PollReplace(g)
    BY <1>2, <2>1 DEF PollStart, PollItem, PollEnd, PollReplace
  <2>2. CASE ReportLook(g) \/ ReportIntent(g) \/ ReportEvent(g) \/ ReportDone(g)
    BY <1>2, <2>2 DEF ReportLook, ReportIntent, ReportEvent, ReportDone
  <2> QED
    BY <2>1, <2>2 DEF Agent
<1>5. PICK d \in Clients : Serve(d)
  BY <1>3, <1>4 DEF Next
<1>6. d = c
  BY <1>1, <1>5, ServeAlone
<1>7. PostAppend(c)
  BY <1>5, <1>6
  DEF Serve, PostCheck, PostClaim, PostBind, PostDuplicate, RecordIntent, ListIntent, LogIntent
<1>8. Now' = Append(Now, Posting(c)) /\ UNCHANGED now /\ Posting(c) \in Requests
  <2>1. UNCHANGED <<now, current>> /\ current \in 1 .. Len(lists)
    BY <1>1, <1>7, ThreadTypes DEF PostAppend
  <2> QED
    BY <1>1, <1>7, <2>1, AppendList DEF Now
<1>9. \E n \in DOMAIN Now' : Now'[n] = Posting(c)
  BY <1>1, <1>8
<1>10. Posting(c) \in ToSet(lists'[current']) /\ ~ (ExpiresAt[Posting(c)] <= now')
  <2>1. Posting(c) \in ToSet(Now')
    BY <1>9 DEF ToSet
  <2> QED
    BY <1>8, <2>1 DEF Now, is_expired
<1> QED
  BY <1>10 DEF Live, is_expired

\* Whatever the interleaving, and without any assumption on the names and keys
\* of the requests: a queued command is lost only when it was appended after the
\* loop of the poll that replaces the list, or to a list that had been replaced.
THEOREM LostOnlyWhenLate ==
    ASSUME OneConnection
    PROVE  Spec => LostOnlyLate
<1>1. LoopInv /\ [Next]_vars => LoopInv'
  BY LoopStep
<1>2. LoopInv /\ [Next]_vars => LosesOnlyLate
  BY EndPassedAll, LiveStays, AppendIsLive DEF LosesOnlyLate, Now
<1>3. LoopInv /\ [Next]_vars => [LosesOnlyLate]_vars
  BY <1>2
<1> QED
  BY <1>1, <1>3, LoopInit, PTL DEF Spec, LostOnlyLate

-----------------------------------------------------------------------------
(* The idempotency keys.                                                   *)

LEMMA KeyQueueStays ==
    ASSUME TypeInv, KeyQueue, now' \in Nat, now' >= now,
           UNCHANGED <<lists, current, delivered, idempotency_index, poll>>
    PROVE  KeyQueue'
<1>1. /\ Now' = Now /\ Now \in Seq(Requests) /\ now \in Nat
      /\ \A g \in Polls : Scanning(g)' = Scanning(g)
      /\ \A x : HoldsKey(x)' = HoldsKey(x)
  BY ThreadTypes, ThreadConstants DEF Now, Scanning, HoldsKey, TypeInv, TypeOK
<1>2. ASSUME NEW n \in DOMAIN Now, Dropped(n) PROVE Dropped(n)'
  <2>1. Now[n] \in Requests /\ ExpiresAt[Now[n]] \in Nat
    BY <1>1, ThreadConstants
  <2>2. is_expired(Now[n])'
    BY <1>1, <1>2, <2>1 DEF Dropped, is_expired
  <2> QED
    BY <1>1, <1>2, <2>2 DEF Dropped
<1> QED
  BY <1>1, <1>2 DEF KeyQueue

\* A handler moves without touching the index.
LEMMA KeyMoves ==
    ASSUME TypeInv, KeyClients, UNCHANGED idempotency_index,
           NEW c \in Clients, NEW me, Moves(c, me),
           me.pc = "free" => me.turn = client[c].turn /\ FindsFree(c),
           me.pc \in {"claimed", "bound"} =>
              me.turn = client[c].turn /\ client[c].pc \in {"claimed", "bound"}
    PROVE  KeyClients'
<1>1. \A d \in Clients : client'[d] = IF d = c THEN me ELSE client[d]
  BY ThreadTypes DEF Moves
<1> SUFFICES ASSUME NEW d \in Clients
             PROVE  /\ client'[d].pc = "free" => FindsFree(d)'
                    /\ client'[d].pc \in {"claimed", "bound"} => HoldsKey(Posting(d))'
  BY DEF KeyClients
<1>2. CASE d # c
  BY <1>1, <1>2 DEF KeyClients, FindsFree, KeyIsFree, HoldsKey, Posting
<1>3. CASE d = c
  BY <1>1, <1>3 DEF KeyClients, FindsFree, KeyIsFree, HoldsKey, Posting
<1> QED
  BY <1>2, <1>3

LEMMA KeyEnds ==
    ASSUME TypeInv, KeyClients, UNCHANGED idempotency_index, NEW c \in Clients, Ends(c)
    PROVE  KeyClients'
<1>1. PICK me : Moves(c, me) /\ me.pc = "idle"
  BY DEF Ends
<1> QED
  BY <1>1, KeyMoves

\* The key was free: no one's key is taken away, and no other client waits for it.
LEMMA ClaimKeeps ==
    ASSUME KeyInv, NEW c \in Clients, PostClaim(c)
    PROVE  KeyQueue' /\ KeyClients'
<1> DEFINE x == Posting(c)
<1>1. /\ TypeInv /\ client[c].pc = "free" /\ client[c].turn \in DOMAIN Program[c]
      /\ x \in Requests /\ KeyOf[x] \in Keys
      /\ OwnKey(KeyOf[x]) => idempotency_index[KeyOf[x]] = None
      /\ UNCHANGED <<now, lists, current, poll, delivered>>
  BY PostingType DEF PostClaim, KeyInv, OrderInv, KeyClients, FindsFree, KeyIsFree, history
<1>2. /\ idempotency_index \in [Keys -> Requests \cup {None}]
      /\ idempotency_index' = [idempotency_index EXCEPT ![KeyOf[x]] = x]
  BY <1>1 DEF TypeInv, TypeOK, PostClaim
<1>3. ASSUME NEW y \in Requests, HoldsKey(y) PROVE HoldsKey(y)'
  BY <1>1, <1>2, <1>3, ThreadConstants DEF HoldsKey
<1>4. /\ delivered \in Seq(Requests) /\ Now \in Seq(Requests) /\ Now' = Now
      /\ poll \in [Polls -> PollRecord(Len(lists))]
      /\ \A n : Dropped(n)' = Dropped(n)
      /\ \A g \in Polls : Scanning(g)' = Scanning(g)
  BY <1>1, ThreadTypes DEF TypeInv, TypeOK, Now, Dropped, is_expired, Scanning
<1>5. KeyQueue'
  <2>1. \A i \in DOMAIN delivered' : HoldsKey(delivered[i])'
    BY <1>1, <1>3, <1>4 DEF KeyInv, KeyQueue
  <2>2. \A n \in DOMAIN Now' : HoldsKey(Now[n])' \/ Dropped(n)'
    BY <1>3, <1>4 DEF KeyInv, KeyQueue
  <2>3. ASSUME NEW g \in Polls, Scanning(g)
        PROVE  /\ \A i \in DOMAIN poll[g].kept : HoldsKey(poll[g].kept[i])'
               /\ poll[g].selected # None => HoldsKey(poll[g].selected)'
    BY <1>1, <1>3, <1>4, <2>3 DEF KeyInv, KeyQueue, PollRecord
  <2> QED
    BY <1>1, <1>4, <2>1, <2>2, <2>3 DEF KeyQueue
<1>6. KeyClients'
  <2>1. PICK me : Moves(c, me) /\ me.pc = "claimed" /\ me.turn = client[c].turn
    BY <1>1, GotoMoves DEF PostClaim
  <2>2. \A d \in Clients : client'[d] = IF d = c THEN me ELSE client[d]
    BY <1>1, <2>1, ThreadTypes DEF Moves
  <2> SUFFICES ASSUME NEW d \in Clients
               PROVE  /\ client'[d].pc = "free" => FindsFree(d)'
                      /\ client'[d].pc \in {"claimed", "bound"} => HoldsKey(Posting(d))'
    BY DEF KeyClients
  <2>3. CASE d # c
    <3>1. ASSUME client[d].pc # "idle"
          PROVE  /\ client[d].turn \in DOMAIN Program[d] /\ Posting(d) \in Requests
                 /\ KeyOf[Posting(d)] \in Keys
                 /\ OwnKey(KeyOf[Posting(d)]) => KeyOf[Posting(d)] # KeyOf[x]
      BY <1>1, <2>3, <3>1, PostingType DEF OwnKey, Posting
    <3>2. Posting(d)' = Posting(d) /\ client'[d] = client[d]
      BY <2>2, <2>3 DEF Posting
    <3> QED
      BY <1>2, <1>3, <3>1, <3>2 DEF KeyInv, KeyClients, FindsFree, KeyIsFree, HoldsKey
  <2>4. CASE d = c
    BY <1>1, <1>2, <2>1, <2>2, <2>4 DEF HoldsKey, Posting
  <2> QED
    BY <2>3, <2>4
<1> QED
  BY <1>5, <1>6

\* What is appended is the request whose key the handler claimed.
LEMMA AppendKeeps ==
    ASSUME KeyInv, NEW c \in Clients, PostAppend(c)
    PROVE  KeyQueue' /\ KeyClients'
<1> DEFINE x == Posting(c)
<1>1. /\ TypeInv /\ client[c].pc = "bound" /\ x \in Requests /\ HoldsKey(x)
      /\ UNCHANGED <<now, current, idempotency_index, poll>>
  BY PostingType DEF PostAppend, KeyInv, OrderInv, KeyClients
<1>2. /\ \A y : HoldsKey(y)' = HoldsKey(y)
      /\ \A g \in Polls : Scanning(g)' = Scanning(g)
  BY <1>1 DEF HoldsKey, Scanning
<1>3. KeyClients' /\ UNCHANGED delivered
  <2>1. CASE Answer(c)
    BY <1>1, <2>1, TurnEnds, KeyEnds DEF Answer, KeyInv
  <2>2. CASE /\ client' = [client EXCEPT ![c].pc = "record", ![c].command = Posting(c)]
             /\ UNCHANGED history
    <3>1. PICK me : Moves(c, me) /\ me.pc = "record"
      BY <1>1, <2>2, RecordMoves
    <3> QED
      BY <1>1, <2>2, <3>1, KeyMoves DEF KeyInv, history
  <2> QED
    BY <2>1, <2>2 DEF PostAppend
<1>4. /\ current \in 1 .. Len(lists) /\ Now \in Seq(Requests)
      /\ lists'[current] = Append(lists[current], x) \/ lists'[current] = lists[current]
  BY <1>1, AppendList, ThreadTypes
<1>5. /\ DOMAIN Now = 1 .. Len(Now) /\ Len(Now) \in Nat
      /\ \A n \in DOMAIN Now' : IF n \in DOMAIN Now THEN Now'[n] = Now[n] ELSE Now'[n] = x
  BY <1>1, <1>4 DEF Now
<1>6. ASSUME NEW n \in DOMAIN Now' PROVE HoldsKey(Now[n])' \/ Dropped(n)'
  <2>1. CASE n \in DOMAIN Now
    <3>1. Now'[n] = Now[n]
      BY <1>5, <1>6, <2>1
    <3>2. Dropped(n) => Dropped(n)'
      BY <1>1, <1>2, <3>1 DEF Dropped, is_expired
    <3> QED
      BY <1>2, <2>1, <3>1, <3>2 DEF KeyInv, KeyQueue
  <2>2. CASE n \notin DOMAIN Now
    BY <1>1, <1>2, <1>5, <1>6, <2>2
  <2> QED
    BY <2>1, <2>2
<1>7. KeyQueue'
  BY <1>1, <1>2, <1>3, <1>6 DEF KeyInv, KeyQueue
<1> QED
  BY <1>3, <1>7

\* The command the loop is at holds its key, and it is the only one that does
\* of what was handed over, is in the queue or is about to enter it.
LEMMA ItemHolds ==
    ASSUME OneConnection, KeyInv, NEW g \in Polls, PollItem(g),
           NEW r, r = lists[poll[g].queue][poll[g].at]
    PROVE  /\ r \in Requests /\ HoldsKey(r) /\ r = Now[poll[g].at] /\ poll[g].at \in DOMAIN Now
           /\ \A i \in DOMAIN delivered : delivered[i] # r
           /\ \A n \in DOMAIN Now : n # poll[g].at => Now[n] # r
           /\ \A i \in DOMAIN poll[g].kept : poll[g].kept[i] # r
           /\ poll[g].selected # None => poll[g].selected # r
           /\ \A c \in Clients : client[c].pc \in {"claimed", "bound"} => Posting(c) # r
<1>1. /\ TypeInv /\ Scanning(g) /\ ScanInOrder(poll[g]) /\ InOrder(Now) /\ PastInv
      /\ \A h \in Polls : h = g
  BY DEF KeyInv, OrderInv, QueueInv, PollItem, Scanning, OneConnection
<1>2. r \in Requests /\ r = Now[poll[g].at] /\ poll[g].at \in DOMAIN Now
  BY <1>1, ItemTurns DEF ScanInOrder, Now
<1>3. DOMAIN Now \subseteq Nat /\ poll[g].at \in Nat
  BY <1>1, <1>2, ThreadTypes
<1>4. HoldsKey(r)
  <2>1. ~ Dropped(poll[g].at)
    BY <1>1, <1>3 DEF Dropped
  <2> QED
    BY <1>2, <2>1 DEF KeyInv, KeyQueue
<1>5. \A i \in DOMAIN delivered : delivered[i] # r
  BY <1>2 DEF KeyInv, OrderInv, QueueInv, Apart
<1>6. ASSUME NEW n \in DOMAIN Now, n # poll[g].at PROVE Now[n] # r
  <2>1. n < poll[g].at \/ poll[g].at < n
    BY <1>3, <1>6
  <2> QED
    BY <1>1, <1>2, <1>6, <2>1 DEF InOrder, Apart
<1>7. \A n \in DOMAIN Now : n < poll[g].at => Now[n] # r
  BY <1>3, <1>6
<1>8. /\ \A i \in DOMAIN poll[g].kept : poll[g].kept[i] # r
      /\ poll[g].selected # None => poll[g].selected # r
  BY <1>1, <1>7 DEF ScanInOrder
<1>9. ASSUME NEW c \in Clients, client[c].pc \in {"claimed", "bound"} PROVE Posting(c) # r
  <2>1. client[c].turn \in Unplaced(c)
    <3>1. client[c].turn \in DOMAIN Program[c] /\ client[c].turn \in Nat
      BY <1>1, <1>9, PostingType, ThreadTypes DEF ClientRecord
    <3> QED
      BY <1>9, <3>1 DEF Unplaced, Open
  <2> QED
    BY <1>1, <1>2, <2>1, PlacedHere DEF PastInv, Posting
<1> QED
  BY <1>2, <1>4, <1>5, <1>6, <1>8, <1>9

LEMMA ItemKeeps ==
    ASSUME OneConnection, KeyInv, NEW g \in Polls, PollItem(g)
    PROVE  KeyQueue' /\ KeyClients'
<1>0. PICK r : r = lists[poll[g].queue][poll[g].at]
  OBVIOUS
<1>1. /\ TypeInv /\ Scanning(g) /\ (\A h \in Polls : h = g)
      /\ UNCHANGED <<now, lists, current, client, delivered>>
  BY DEF KeyInv, OrderInv, PollItem, Scanning, OneConnection, history
<1>2. PICK me : /\ Turns(g, me) /\ me.pc = "scan" /\ me.at = poll[g].at + 1
                /\ \/ /\ is_expired(r) /\ me.selected = poll[g].selected
                      /\ me.kept = poll[g].kept
                      /\ idempotency_index' = [idempotency_index EXCEPT ![KeyOf[r]] = None]
                   \/ /\ poll[g].selected = None /\ me.selected = r
                      /\ me.kept = poll[g].kept /\ UNCHANGED idempotency_index
                   \/ /\ poll[g].selected # None /\ me.selected = poll[g].selected
                      /\ me.kept = Append(poll[g].kept, r)
                      /\ UNCHANGED idempotency_index
  <2> DEFINE Turn(me) ==
               /\ Turns(g, me) /\ me.pc = "scan" /\ me.queue = poll[g].queue
               /\ me.at = poll[g].at + 1
               /\ \/ /\ is_expired(r) /\ me.selected = poll[g].selected
                     /\ me.kept = poll[g].kept
                     /\ idempotency_index' = [idempotency_index EXCEPT ![KeyOf[r]] = None]
                  \/ /\ poll[g].selected = None /\ me.selected = r
                     /\ me.kept = poll[g].kept /\ UNCHANGED idempotency_index
                  \/ /\ poll[g].selected # None /\ me.selected = poll[g].selected
                     /\ me.kept = Append(poll[g].kept, r)
                     /\ UNCHANGED idempotency_index
  <2>1. TypeInv
    BY <1>1
  <2>2. \E me : Turn(me)
    BY <1>0, <2>1, ItemTurns
  <2> QED
    BY <2>2, Zenon
<1>3. /\ r \in Requests /\ HoldsKey(r) /\ r = Now[poll[g].at] /\ poll[g].at \in DOMAIN Now
      /\ \A i \in DOMAIN delivered : delivered[i] # r
      /\ \A n \in DOMAIN Now : n # poll[g].at => Now[n] # r
      /\ \A i \in DOMAIN poll[g].kept : poll[g].kept[i] # r
      /\ poll[g].selected # None => poll[g].selected # r
      /\ \A c \in Clients : client[c].pc \in {"claimed", "bound"} => Posting(c) # r
  BY <1>0, ItemHolds
<1>4. /\ poll'[g] = me /\ Now' = Now /\ poll[g].at \in Nat /\ DOMAIN Now \subseteq Nat
      /\ poll[g].kept \in Seq(Requests) /\ Now \in Seq(Requests)
      /\ delivered \in Seq(Requests) /\ poll[g].selected \in Requests \cup {None}
  <2>1. poll \in [Polls -> PollRecord(Len(lists))] /\ poll[g] \in PollRecord(Len(lists))
        /\ Now \in Seq(Requests)
    BY <1>1, ThreadTypes
  <2>2. poll'[g] = me
    BY <1>2, <2>1 DEF Turns
  <2>3. poll[g].at \in Nat /\ poll[g].kept \in Seq(Requests)
        /\ poll[g].selected \in Requests \cup {None}
    BY <2>1 DEF PollRecord
  <2>4. Now' = Now /\ DOMAIN Now \subseteq Nat
    BY <1>1, <2>1 DEF Now
  <2>5. delivered \in Seq(Requests)
    BY <1>1 DEF TypeInv, TypeOK
  <2> QED
    BY <2>1, <2>2, <2>3, <2>4, <2>5
<1>5. Scanning(g)' /\ (\A h \in Polls : Scanning(h)' => h = g)
  BY <1>1, <1>2, <1>4 DEF Scanning
<1>6. ASSUME NEW y \in Requests, HoldsKey(y), y # r PROVE HoldsKey(y)'
  <2>1. CASE UNCHANGED idempotency_index
    BY <1>6, <2>1 DEF HoldsKey
  <2>2. CASE idempotency_index' = [idempotency_index EXCEPT ![KeyOf[r]] = None]
    <3>1. KeyOf[y] \in Keys /\ (OwnKey(KeyOf[y]) => KeyOf[y] # KeyOf[r])
      BY <1>3, <1>6, ThreadConstants DEF HoldsKey
    <3> QED
      BY <1>1, <1>6, <2>2, <3>1 DEF HoldsKey, TypeInv, TypeOK
  <2> QED
    BY <1>2, <2>1, <2>2
<1>7. \A i \in DOMAIN delivered' : HoldsKey(delivered[i])'
  BY <1>1, <1>3, <1>4, <1>6 DEF KeyInv, KeyQueue
<1>8. ASSUME NEW n \in DOMAIN Now' PROVE HoldsKey(Now[n])' \/ Dropped(n)'
  <2>1. PICK y \in Requests : y = Now[n]
    BY <1>4, <1>8
  <2>2. Now'[n] = y /\ (HoldsKey(y) \/ Dropped(n)) /\ n \in DOMAIN Now /\ n \in Nat
    BY <1>4, <1>8, <2>1 DEF KeyInv, KeyQueue
  <2>3. CASE Dropped(n)
    <3>1. is_expired(Now[n])' /\ n < poll[g].at
      BY <1>1, <1>4, <2>3 DEF Dropped, is_expired
    <3>2. n < poll'[g].at
      BY <1>2, <1>4, <2>2, <3>1
    <3> QED
      BY <1>5, <3>1, <3>2 DEF Dropped
  <2>4. CASE n # poll[g].at /\ HoldsKey(y)
    <3>1. y # r
      BY <1>3, <2>1, <2>2, <2>4
    <3>2. HoldsKey(y)'
      BY <1>6, <2>4, <3>1
    <3> QED
      BY <2>2, <3>2 DEF HoldsKey
  <2>5. CASE n = poll[g].at
    <3>1. Now'[n] = r
      BY <1>3, <1>4, <2>5
    <3>2. CASE UNCHANGED idempotency_index
      BY <1>3, <3>1, <3>2 DEF HoldsKey
    <3>3. CASE is_expired(r)
      <4>1. is_expired(Now[n])'
        BY <1>1, <3>1, <3>3 DEF is_expired
      <4>2. n < poll'[g].at
        BY <1>2, <1>4, <2>5
      <4> QED
        BY <1>5, <4>1, <4>2 DEF Dropped
    <3> QED
      BY <1>2, <3>2, <3>3
  <2> QED
    BY <2>2, <2>3, <2>4, <2>5
<1>9. /\ \A i \in DOMAIN me.kept : HoldsKey(me.kept[i])'
      /\ me.selected # None => HoldsKey(me.selected)'
  <2>0. PICK old : old = poll[g]
    OBVIOUS
  <2>1. /\ \A i \in DOMAIN old.kept : HoldsKey(old.kept[i])'
        /\ old.selected # None => HoldsKey(old.selected)'
    BY <1>1, <1>3, <1>4, <1>6, <2>0 DEF KeyInv, KeyQueue
  <2>2. CASE UNCHANGED idempotency_index
    <3>1. HoldsKey(r)'
      BY <1>3, <2>2 DEF HoldsKey
    <3>2. ASSUME me.kept = Append(old.kept, r), NEW i \in DOMAIN me.kept
          PROVE  HoldsKey(me.kept[i])'
      <4>1. \/ i \in DOMAIN old.kept /\ me.kept[i] = old.kept[i]
            \/ me.kept[i] = r
        BY <1>3, <1>4, <2>0, <3>2
      <4> QED
        BY <2>1, <3>1, <4>1
    <3> QED
      BY <1>2, <2>0, <2>1, <3>1, <3>2
  <2>3. CASE me.selected = old.selected /\ me.kept = old.kept
    BY <2>1, <2>3
  <2> QED
    BY <1>2, <2>0, <2>2, <2>3
<1>10. KeyQueue'
  BY <1>4, <1>5, <1>7, <1>8, <1>9 DEF KeyQueue
<1>11. KeyClients'
  <2> SUFFICES ASSUME NEW c \in Clients
               PROVE  /\ client[c].pc = "free" => FindsFree(c)'
                      /\ client[c].pc \in {"claimed", "bound"} => HoldsKey(Posting(c))'
    BY <1>1 DEF KeyClients
  <2>1. ASSUME client[c].pc = "free" PROVE FindsFree(c)'
    <3>1. KeyOf[Posting(c)] \in Keys /\ KeyOf[r] \in Keys /\ FindsFree(c)
      BY <1>1, <1>3, <2>1, PostingType, ThreadConstants DEF KeyInv, KeyClients
    <3> QED
      BY <1>1, <1>2, <3>1 DEF FindsFree, KeyIsFree, Posting, TypeInv, TypeOK
  <2>2. ASSUME client[c].pc \in {"claimed", "bound"} PROVE HoldsKey(Posting(c))'
    <3>1. Posting(c)' = Posting(c) /\ Posting(c) \in Requests
      BY <1>1, <2>2, PostingType DEF Posting
    <3> QED
      BY <1>3, <1>6, <2>2, <3>1 DEF KeyInv, KeyClients
  <2> QED
    BY <2>1, <2>2
<1> QED
  BY <1>10, <1>11

LEMMA ReplaceKeeps ==
    ASSUME OneConnection, KeyInv, NEW g \in Polls, PollReplace(g)
    PROVE  KeyQueue' /\ KeyClients'
<1>1. /\ TypeInv /\ Scanning(g) /\ (\A h \in Polls : h = g)
      /\ UNCHANGED <<client, idempotency_index>> /\ Now' = poll[g].kept
      /\ delivered \in Seq(Requests)
  BY ReplaceList
  DEF KeyInv, OrderInv, PollReplace, Scanning, OneConnection, TypeInv, TypeOK
<1>2. \A y : HoldsKey(y)' = HoldsKey(y)
  BY <1>1 DEF HoldsKey
<1>3. \A h \in Polls : ~ Scanning(h)'
  <2>1. \/ poll' = [poll EXCEPT ![g].pc = "idle"]
        \/ poll' = [poll EXCEPT ![g].pc = "look"]
    <3>1. CASE poll[g].selected = None
      BY <3>1 DEF PollReplace
    <3>2. CASE poll[g].selected # None
      BY <3>2 DEF PollReplace
    <3> QED
      BY <3>1, <3>2
  <2>2. poll[g] \in PollRecord(Len(lists)) /\ poll \in [Polls -> PollRecord(Len(lists))]
    BY <1>1, ThreadTypes
  <2> QED
    BY <1>1, <2>1, <2>2 DEF Scanning, PollRecord
<1>4. /\ \A i \in DOMAIN poll[g].kept : HoldsKey(poll[g].kept[i])
      /\ poll[g].selected # None => HoldsKey(poll[g].selected)
      /\ \A i \in DOMAIN delivered : HoldsKey(delivered[i])
  BY <1>1 DEF KeyInv, KeyQueue
<1>5. \A i \in DOMAIN delivered' : HoldsKey(delivered'[i])
  <2>1. CASE poll[g].selected = None
    BY <1>4, <2>1 DEF PollReplace
  <2>2. CASE poll[g].selected # None
    <3>1. delivered' = Append(delivered, poll[g].selected) /\ poll[g].selected \in Requests
      BY <1>1, <2>2, ThreadTypes DEF PollReplace, PollRecord
    <3> SUFFICES ASSUME NEW i \in DOMAIN delivered' PROVE HoldsKey(delivered'[i])
      OBVIOUS
    <3>2. \/ i \in DOMAIN delivered /\ delivered'[i] = delivered[i]
          \/ delivered'[i] = poll[g].selected
      BY <1>1, <3>1
    <3> QED
      BY <1>4, <2>2, <3>2
  <2> QED
    BY <2>1, <2>2
<1>6. KeyQueue'
  <2>1. \A i \in DOMAIN delivered' : HoldsKey(delivered[i])'
    BY <1>2, <1>5
  <2>2. \A n \in DOMAIN Now' : HoldsKey(Now[n])'
    BY <1>1, <1>2, <1>4
  <2> QED
    BY <1>3, <2>1, <2>2 DEF KeyQueue
<1>7. KeyClients'
  BY <1>1, <1>2 DEF KeyInv, KeyClients, FindsFree, KeyIsFree, Posting
<1> QED
  BY <1>6, <1>7

\* The steps that change neither the queue nor the index.
LEMMA KeyScans ==
    ASSUME OneConnection, KeyInv, NEW g \in Polls, NEW me, Turns(g, me),
           UNCHANGED <<now, lists, current, client, delivered, idempotency_index>>,
           \/ Scanning(g) /\ me.pc = "replace" /\ me.at = poll[g].at
              /\ me.kept = poll[g].kept /\ me.selected = poll[g].selected
           \/ ~ Scanning(g) /\ me.kept = <<>> /\ me.selected = None
           \/ ~ Scanning(g) /\ me.pc \notin {"scan", "replace"}
    PROVE  KeyQueue' /\ KeyClients'
<1>1. /\ TypeInv /\ (\A h \in Polls : h = g) /\ poll'[g] = me
      /\ \A y : HoldsKey(y)' = HoldsKey(y)
      /\ Now' = Now
  BY ThreadTypes DEF KeyInv, OrderInv, OneConnection, Turns, HoldsKey, Now
<1>2. \A n \in DOMAIN Now : Dropped(n) => Dropped(n)'
  BY <1>1 DEF Dropped, is_expired, Scanning
<1>3. /\ \A i \in DOMAIN delivered' : HoldsKey(delivered[i])'
      /\ \A n \in DOMAIN Now' : HoldsKey(Now[n])' \/ Dropped(n)'
  BY <1>1, <1>2 DEF KeyInv, KeyQueue
<1>4. Scanning(g)' => /\ \A i \in DOMAIN me.kept : HoldsKey(me.kept[i])
                      /\ me.selected # None => HoldsKey(me.selected)
  BY <1>1 DEF KeyInv, KeyQueue, Scanning
<1>5. KeyQueue'
  BY <1>1, <1>3, <1>4 DEF KeyQueue
<1>6. KeyClients'
  BY <1>1 DEF KeyInv, KeyClients, FindsFree, KeyIsFree, Posting
<1> QED
  BY <1>5, <1>6

LEMMA AgentKeeps ==
    ASSUME OneConnection, KeyInv, NEW g \in Polls, Agent(g)
    PROVE  KeyQueue' /\ KeyClients'
<1>1. TypeInv /\ poll[g] \in PollRecord(Len(lists))
  BY ThreadTypes DEF KeyInv, OrderInv
<1>2. CASE PollStart(g)
  <2>1. ~ Scanning(g) /\ UNCHANGED <<now, lists, current, client, delivered, idempotency_index>>
    BY <1>2 DEF PollStart, Scanning, queueState, history
  <2> QED
    BY <1>1, <1>2, <2>1, StartTurns, KeyScans
<1>3. CASE PollEnd(g)
  <2>1. /\ Scanning(g) /\ poll' = [poll EXCEPT ![g].pc = "replace"]
        /\ UNCHANGED <<now, lists, current, client, delivered, idempotency_index>>
    BY <1>3 DEF PollEnd, Scanning, queueState, history
  <2>2. PICK me : /\ Turns(g, me) /\ me.pc = "replace" /\ me.queue = poll[g].queue
                  /\ me.at = poll[g].at /\ me.kept = poll[g].kept
                  /\ me.selected = poll[g].selected
    BY <1>1, <2>1, PollPcTurns, Zenon
  <2> QED
    BY <2>1, <2>2, KeyScans
<1>4. ASSUME ReportLook(g) \/ ReportIntent(g) \/ ReportEvent(g) \/ ReportDone(g)
      PROVE  KeyQueue' /\ KeyClients'
  <2>1. /\ ~ Scanning(g)
        /\ UNCHANGED <<now, lists, current, client, delivered, idempotency_index>>
    BY <1>4 DEF ReportLook, ReportIntent, ReportEvent, ReportDone, Scanning, queueState,
                mirrorState, history
  <2>2. PICK me : Turns(g, me) /\ me.pc \in {"idle", "answer", "event"}
    <3>1. TypeInv'
      BY <1>1, <1>4, ReportTypes
    <3>2. poll'[g] \in PollRecord(Len(lists)) /\ poll' = [poll EXCEPT ![g] = poll'[g]]
      <4>1. poll' \in [Polls -> PollRecord(Len(lists))]
        BY <2>1, <3>1 DEF TypeInv, TypeOK, PollRecord
      <4>2. \A h \in Polls : h # g => poll'[h] = poll[h]
        BY DEF OneConnection
      <4> QED
        BY <1>1, <4>1, <4>2, ThreadTypes
    <3>3. poll'[g].pc \in {"idle", "answer", "event"}
      <4>1. CASE ReportLook(g)
        <5>1. CASE mirror_command_index[poll[g].selected] = <<>>
          BY <1>1, <4>1, <5>1, ThreadTypes DEF ReportLook, PollRecord
        <5>2. CASE mirror_command_index[poll[g].selected] # <<>>
          BY <1>1, <4>1, <5>2, ThreadTypes DEF ReportLook, PollRecord
        <5> QED
          BY <5>1, <5>2
      <4>2. CASE ReportIntent(g)
        BY <1>1, <4>2, ThreadTypes DEF ReportIntent, PollRecord
      <4>3. CASE ReportEvent(g)
        BY <1>1, <4>3, ThreadTypes DEF ReportEvent, PollRecord
      <4>4. CASE ReportDone(g)
        BY <1>1, <4>4, ThreadTypes DEF ReportDone, PollRecord
      <4> QED
        BY <1>4, <4>1, <4>2, <4>3, <4>4
    <3> QED
      BY <3>2, <3>3 DEF Turns
  <2> QED
    BY <2>1, <2>2, KeyScans
<1> QED
  BY <1>2, <1>3, <1>4, ItemKeeps, ReplaceKeeps DEF Agent

LEMMA ServeKeeps ==
    ASSUME KeyInv, NEW c \in Clients, Serve(c)
    PROVE  KeyQueue' /\ KeyClients'
<1>1. TypeInv /\ KeyQueue /\ KeyClients /\ now \in Nat /\ now >= now
  <2>1. TypeInv /\ KeyQueue /\ KeyClients
    BY DEF KeyInv, OrderInv
  <2>2. now \in Nat
    BY <2>1, ThreadConstants DEF TypeInv, TypeOK
  <2> QED
    BY <2>1, <2>2
<1>2. ASSUME KeyClients', UNCHANGED <<now, lists, current, delivered, idempotency_index, poll>>
      PROVE  KeyQueue' /\ KeyClients'
  BY <1>1, <1>2, KeyQueueStays
<1>3. ASSUME Answer(c), UNCHANGED <<now, lists, current, idempotency_index, poll>>
      PROVE  KeyQueue' /\ KeyClients'
  <2>1. Ends(c) /\ UNCHANGED delivered
    BY <1>1, <1>3, TurnEnds DEF Answer
  <2> QED
    BY <1>1, <1>2, <1>3, <2>1, KeyEnds
<1>4. CASE PostCheck(c)
  <2>1. /\ UNCHANGED <<now, lists, current, idempotency_index, poll>>
        /\ client[c].pc = "idle"
    BY <1>4 DEF PostCheck, queueState
  <2>2. CASE is_expired(Posting(c))
    BY <1>3, <1>4, <2>1, <2>2 DEF PostCheck
  <2>3. CASE ~ is_expired(Posting(c))
    <3>1. PICK me : /\ Moves(c, me) /\ me.turn = client[c].turn
                    /\ me.pc \in {"free", "taken"} /\ (me.pc = "free" => FindsFree(c))
      <4>1. CASE KeyIsFree(c)
        BY <1>1, <1>4, <2>3, <4>1, GotoMoves DEF PostCheck, FindsFree
      <4>2. CASE ~ KeyIsFree(c)
        BY <1>1, <1>4, <2>3, <4>2, GotoMoves DEF PostCheck
      <4> QED
        BY <4>1, <4>2
    <3>2. KeyClients' /\ UNCHANGED delivered
      BY <1>1, <1>4, <2>1, <2>3, <3>1, KeyMoves DEF PostCheck
    <3> QED
      BY <1>2, <2>1, <3>2
  <2> QED
    BY <2>2, <2>3
<1>5. CASE PostBind(c)
  <2>1. PICK me : Moves(c, me) /\ me.pc = "bound" /\ me.turn = client[c].turn
    BY <1>1, <1>5, BindMoves DEF PostBind
  <2>2. /\ UNCHANGED <<now, lists, current, delivered, idempotency_index, poll>>
        /\ client[c].pc = "claimed"
    BY <1>5 DEF PostBind, queueState, history
  <2>3. KeyClients'
    BY <1>1, <2>1, <2>2, KeyMoves
  <2> QED
    BY <1>2, <2>2, <2>3
<1>6. CASE PostDuplicate(c)
  <2>1. /\ client[c].pc = "taken" /\ KeyOf[Posting(c)] \in Keys
        /\ UNCHANGED <<now, lists, current, idempotency_index, poll>>
    BY <1>1, <1>6, PostingType DEF PostDuplicate, queueState
  <2>2. CASE Answer(c)
    BY <1>3, <2>1, <2>2
  <2>3. CASE client' = [client EXCEPT ![c].pc = "idle", ![c].turn = @ + 1] /\ UNCHANGED history
    BY <1>1, <1>2, <2>1, <2>3, TurnEnds, KeyEnds DEF history
  <2>4. CASE \E command \in Requests :
                /\ client' = [client EXCEPT ![c].pc = "record", ![c].command = command]
                /\ UNCHANGED history
    <3>1. PICK me : Moves(c, me) /\ me.pc = "record"
      BY <1>1, <2>4, RecordMoves
    <3>2. KeyClients'
      BY <1>1, <2>1, <3>1, KeyMoves
    <3> QED
      BY <1>2, <2>1, <2>4, <3>2 DEF history
  <2>5. idempotency_index[KeyOf[Posting(c)]] \in Requests \cup {None}
    BY <1>1, <2>1 DEF TypeInv, TypeOK
  <2> QED
    BY <1>6, <2>2, <2>3, <2>4, <2>5 DEF PostDuplicate
<1>7. ASSUME RecordIntent(c) \/ ListIntent(c) PROVE KeyQueue' /\ KeyClients'
  <2>1. PICK me : Moves(c, me) /\ me.pc \in {"list", "log"}
    BY <1>1, <1>7, GotoMoves DEF RecordIntent, ListIntent
  <2>2. UNCHANGED <<now, lists, current, delivered, idempotency_index, poll>>
    BY <1>7 DEF RecordIntent, ListIntent, queueState, history
  <2>3. KeyClients'
    BY <1>1, <2>1, <2>2, KeyMoves
  <2> QED
    BY <1>2, <2>2, <2>3
<1>8. CASE LogIntent(c)
  BY <1>3, <1>8 DEF LogIntent, queueState
<1> QED
  BY <1>4, <1>5, <1>6, <1>7, <1>8, ClaimKeeps, AppendKeeps DEF Serve

LEMMA KeyInit == Init => KeyInv
<1> SUFFICES ASSUME Init PROVE KeyInv
  OBVIOUS
<1>1. OrderInv /\ Now = <<>> /\ delivered = <<>>
  BY OrderInit DEF Init, Now
<1>2. DOMAIN Now = {} /\ DOMAIN delivered = {}
  BY <1>1
<1> QED
  BY <1>1, <1>2 DEF Init, KeyInv, KeyQueue, KeyClients, Scanning

LEMMA KeyStep ==
    ASSUME PostedOnce, OneConnection
    PROVE  KeyInv /\ [Next]_vars => KeyInv'
<1> SUFFICES ASSUME KeyInv, [Next]_vars PROVE KeyQueue' /\ KeyClients'
  BY OrderStep DEF KeyInv
<1>1. ASSUME Tick \/ UNCHANGED vars PROVE KeyQueue' /\ KeyClients'
  <2>1. TypeInv /\ KeyQueue /\ KeyClients
    BY DEF KeyInv, OrderInv
  <2>2. UNCHANGED <<lists, current, client, poll, delivered, idempotency_index>>
    BY <1>1 DEF Tick, vars, queueState, history
  <2>3. now' = now \/ now' = now + 1
    BY <1>1 DEF Tick, vars
  <2>4. now' \in Nat /\ now' >= now
    <3>1. now \in Nat
      BY <2>1, ThreadConstants DEF TypeInv, TypeOK
    <3> QED
      BY <2>3, <3>1
  <2>5. KeyClients'
    BY <2>1, <2>2 DEF KeyClients, FindsFree, KeyIsFree, HoldsKey, Posting
  <2> QED
    BY <2>1, <2>2, <2>4, <2>5, KeyQueueStays
<1> QED
  BY <1>1, ServeKeeps, AgentKeeps DEF Next

\* No duplicate is queued beside the command that holds its key, although the key
\* is looked up, claimed and given up by threads that take no lock, as long as one
\* client alone uses that key: what the others do with theirs cannot break it.
OwnKeyQueuedOnce == \A x, y \in Live : KeyOf[x] = KeyOf[y] /\ OwnKey(KeyOf[x]) => x = y

THEOREM OnceQueuedPerOwnKey ==
    ASSUME PostedOnce, OneConnection
    PROVE  Spec => []OwnKeyQueuedOnce
<1>1. KeyInv => OwnKeyQueuedOnce
  <2> SUFFICES ASSUME KeyInv, NEW x \in Live, NEW y \in Live, KeyOf[x] = KeyOf[y],
                      OwnKey(KeyOf[x])
               PROVE  x = y
    BY DEF OwnKeyQueuedOnce
  <2>1. ASSUME NEW z \in Live PROVE HoldsKey(z)
    BY <2>1 DEF Live, ToSet, KeyInv, KeyQueue, Dropped, Now
  <2> QED
    BY <2>1 DEF HoldsKey
<1>2. KeyInv /\ [Next]_vars => KeyInv'
  BY KeyStep
<1> QED
  BY <1>1, <1>2, KeyInit, PTL DEF Spec

\* When no two clients use one key, that is so of all.  (Clients that do share a
\* key break it.)
THEOREM OnceQueuedPerKey ==
    ASSUME PostedOnce, OneConnection, OwnKeys
    PROVE  Spec => []QueuedOncePerKey
<1>1. TypeOK /\ OwnKeyQueuedOnce => QueuedOncePerKey
  <2> SUFFICES ASSUME TypeOK, OwnKeyQueuedOnce, NEW x \in Live, NEW y \in Live,
                      KeyOf[x] = KeyOf[y]
               PROVE  x = y
    BY DEF QueuedOncePerKey
  <2>1. x \in Requests
    BY DEF Live, ToSet, TypeOK
  <2>2. OwnKey(KeyOf[x])
    BY <2>1, ThreadConstants DEF OwnKeys
  <2> QED
    BY <2>2 DEF OwnKeyQueuedOnce
<1> QED
  BY <1>1, OnceQueuedPerOwnKey, ThreadTypesHold, PTL

-----------------------------------------------------------------------------
(* The threads implement AtMostOnceDelivery.                               *)

\* The queue seen as at-most-once delivery for the keys that one client alone uses:
\* the index tells a key that is taken from one that is free, and what was handed
\* over makes it spent.
OwnedKeys == {k \in Keys : OwnKey(k)}
Owned(x) == OwnKey(KeyOf[x])
Handed == {x \in ToSet(delivered) : Owned(x)}

Served(k) == \E i \in DOMAIN delivered : KeyOf[delivered[i]] = k

KeyState(k) == IF Served(k) THEN "spent"
               ELSE IF idempotency_index[k] # None THEN "held" ELSE "free"

Delivery == INSTANCE AtMostOnceDelivery
               WITH Slots <- OwnedKeys, Tokens <- Requests,
                    slot <- [k \in OwnedKeys |-> KeyState(k)],
                    handed <- {<<KeyOf[x], x>> : x \in Handed}

LEMMA DeliveryRests ==
    ASSUME UNCHANGED <<idempotency_index, delivered>>
    PROVE  UNCHANGED Delivery!vars
<1>1. \A k : KeyState(k)' = KeyState(k)
  BY DEF KeyState, Served
<1> QED
  BY <1>1 DEF Delivery!vars, Handed

\* What happens to a key that clients share is none of its steps.
LEMMA SharedKeyRests ==
    ASSUME TypeInv, UNCHANGED delivered, NEW key, ~ OwnKey(key), NEW x,
           idempotency_index' = [idempotency_index EXCEPT ![key] = x]
    PROVE  UNCHANGED Delivery!vars
<1>1. \A k \in OwnedKeys : idempotency_index'[k] = idempotency_index[k]
  BY DEF OwnedKeys, TypeInv, TypeOK
<1>2. \A k \in OwnedKeys : KeyState(k)' = KeyState(k)
  BY <1>1 DEF KeyState, Served
<1> QED
  BY <1>2 DEF Delivery!vars, Handed

\* Whoever was handed over has its key; a key that is free was never served.
LEMMA ServedHolds ==
    ASSUME KeyInv, NEW k \in OwnedKeys, Served(k)
    PROVE  \E i \in DOMAIN delivered : delivered[i] = idempotency_index[k] /\ delivered[i] \in Requests
<1>1. PICK i \in DOMAIN delivered : KeyOf[delivered[i]] = k
  BY DEF Served
<1>2. HoldsKey(delivered[i]) /\ delivered \in Seq(Requests)
  BY <1>1 DEF KeyInv, KeyQueue, OrderInv, TypeInv, TypeOK
<1> QED
  BY <1>1, <1>2 DEF HoldsKey, OwnedKeys

\* A key is claimed: its slot is accepted.
LEMMA ClaimAccepts ==
    ASSUME KeyInv, NEW c \in Clients, PostClaim(c), Owned(Posting(c))
    PROVE  Delivery!Next
<1>1. /\ Posting(c) \in Requests /\ KeyOf[Posting(c)] \in OwnedKeys
      /\ idempotency_index[KeyOf[Posting(c)]] = None
      /\ UNCHANGED delivered
  BY PostingType
  DEF PostClaim, KeyInv, OrderInv, KeyClients, FindsFree, KeyIsFree, history, OwnedKeys, Owned
<1>2. PICK x \in Requests, key \in OwnedKeys :
         /\ x = Posting(c) /\ key = KeyOf[Posting(c)]
         /\ idempotency_index[key] = None
         /\ idempotency_index' = [idempotency_index EXCEPT ![key] = x]
  BY <1>1 DEF PostClaim
<1>3. ~ Served(key) /\ KeyState(key) = "free"
  BY <1>2, ServedHolds, ThreadConstants DEF KeyState
<1>4. ASSUME NEW k \in OwnedKeys
      PROVE  KeyState(k)' = IF k = key THEN "held" ELSE KeyState(k)
  <2>1. /\ Served(k)' = Served(k)
        /\ idempotency_index'[k] = IF k = key THEN x ELSE idempotency_index[k]
    BY <1>1, <1>2 DEF Served, KeyInv, OrderInv, TypeInv, TypeOK, OwnedKeys
  <2> QED
    BY <1>2, <1>3, <2>1, ThreadConstants DEF KeyState
<1>5. [k \in OwnedKeys |-> KeyState(k)]'
         = [[k \in OwnedKeys |-> KeyState(k)] EXCEPT ![key] = "held"]
  BY <1>4
<1>6. Delivery!Accept(key)
  BY <1>1, <1>3, <1>5 DEF Delivery!Accept, Handed
<1> QED
  BY <1>6 DEF Delivery!Next

\* An expired command gives its key up: the slot lapses.
LEMMA ItemLapses ==
    ASSUME OneConnection, KeyInv, NEW g \in Polls, PollItem(g)
    PROVE  Delivery!Next \/ UNCHANGED Delivery!vars
<1>1. PICK r : r = lists[poll[g].queue][poll[g].at]
  OBVIOUS
<1>2. /\ r \in Requests /\ HoldsKey(r) /\ TypeInv /\ UNCHANGED delivered
      /\ \A i \in DOMAIN delivered : delivered[i] # r
  BY <1>1, ItemHolds DEF KeyInv, OrderInv, PollItem, history
<1>3. CASE UNCHANGED idempotency_index
  BY <1>2, <1>3, DeliveryRests
<1>4. CASE ~ Owned(r) /\ idempotency_index' = [idempotency_index EXCEPT ![KeyOf[r]] = None]
  BY <1>2, <1>4, SharedKeyRests DEF Owned
<1>5. CASE Owned(r) /\ idempotency_index' = [idempotency_index EXCEPT ![KeyOf[r]] = None]
  <2>1. PICK key \in OwnedKeys : key = KeyOf[r]
    BY <1>2, <1>5, ThreadConstants DEF OwnedKeys, Owned
  <2>2. idempotency_index[key] = r /\ r # None
    BY <1>2, <2>1, ThreadConstants DEF HoldsKey, OwnedKeys
  <2>3. ~ Served(key) /\ KeyState(key) = "held"
    BY <1>2, <2>2, ServedHolds DEF KeyState
  <2>4. {key} \in SUBSET Delivery!Held
    BY <2>3 DEF Delivery!Held
  <2>5. ASSUME NEW k \in OwnedKeys
        PROVE  KeyState(k)' = IF k \in {key} THEN "free" ELSE KeyState(k)
    <3>1. /\ Served(k)' = Served(k)
          /\ idempotency_index'[k] = IF k = key THEN None ELSE idempotency_index[k]
      BY <1>2, <1>5, <2>1 DEF Served, TypeInv, TypeOK, OwnedKeys
    <3> QED
      BY <2>3, <3>1 DEF KeyState
  <2>6. Delivery!PollEmpty({key})
    BY <1>2, <2>5 DEF Delivery!PollEmpty, Handed
  <2> QED
    BY <2>4, <2>6 DEF Delivery!Next
<1>6. UNCHANGED idempotency_index \/ idempotency_index' = [idempotency_index EXCEPT ![KeyOf[r]] = None]
  BY <1>1 DEF PollItem
<1> QED
  BY <1>3, <1>4, <1>5, <1>6

\* The selected command is handed over when the list is replaced, not before.
LEMMA ReplaceHands ==
    ASSUME KeyInv, NEW g \in Polls, PollReplace(g)
    PROVE  Delivery!Next \/ UNCHANGED Delivery!vars
<1>1. CASE poll[g].selected = None
  BY <1>1, DeliveryRests DEF PollReplace
<1>2. CASE poll[g].selected # None
  <2>1. /\ TypeInv /\ Scanning(g) /\ ScanInOrder(poll[g]) /\ delivered \in Seq(Requests)
        /\ poll[g] \in PollRecord(Len(lists)) /\ HoldsKey(poll[g].selected)
        /\ \A i \in DOMAIN delivered, n \in DOMAIN Now : Apart(delivered[i], Now[n])
    BY <1>2, ThreadTypes DEF KeyInv, KeyQueue, OrderInv, QueueInv, PollReplace, Scanning,
       TypeInv, TypeOK
  <2>2. PICK x \in Requests : /\ x = poll[g].selected
                              /\ delivered' = Append(delivered, x) /\ UNCHANGED idempotency_index
    BY <1>2, <2>1, ThreadConstants DEF PollReplace, PollRecord
  <2>3. \A i \in DOMAIN delivered : delivered[i] # x
    BY <1>2, <2>1, <2>2 DEF ScanInOrder, Apart
  <2>4. /\ DOMAIN delivered' = DOMAIN delivered \cup {Len(delivered) + 1}
        /\ \A i \in DOMAIN delivered : delivered'[i] = delivered[i]
        /\ delivered'[Len(delivered) + 1] = x
    BY <2>1, <2>2
  <2>5. ToSet(delivered') = ToSet(delivered) \cup {x}
    BY <2>4 DEF ToSet
  <2>6. \A k : Served(k)' <=> (Served(k) \/ k = KeyOf[x])
    BY <2>4 DEF Served
  <2>7. ASSUME ~ Owned(x) PROVE UNCHANGED Delivery!vars
    <3>1. \A k \in OwnedKeys : KeyState(k)' = KeyState(k)
      BY <2>2, <2>6, <2>7 DEF KeyState, OwnedKeys, Owned
    <3>2. Handed' = Handed
      BY <2>5, <2>7 DEF Handed
    <3> QED
      BY <3>1, <3>2 DEF Delivery!vars
  <2>8. ASSUME Owned(x) PROVE Delivery!Next
    <3>1. PICK key \in OwnedKeys : key = KeyOf[x] /\ idempotency_index[key] = x
      BY <2>1, <2>2, <2>8, ThreadConstants DEF HoldsKey, OwnedKeys, Owned
    <3>2. ~ Served(key) /\ KeyState(key) = "held"
      BY <2>2, <2>3, <3>1, ServedHolds, ThreadConstants DEF KeyState
    <3>3. ASSUME NEW k \in OwnedKeys
          PROVE  KeyState(k)' = IF k = key THEN "spent" ELSE KeyState(k)
      BY <2>2, <2>6, <3>1 DEF KeyState
    <3>4. {<<KeyOf[y], y>> : y \in Handed}'
             = {<<KeyOf[y], y>> : y \in Handed} \cup {<<key, x>>}
      <4>1. Handed' = Handed \cup {x}
        BY <2>5, <2>8 DEF Handed
      <4> QED
        BY <3>1, <4>1
    <3>5. Delivery!PollOne({}, key, x)
      BY <3>2, <3>3, <3>4 DEF Delivery!PollOne
    <3> QED
      BY <3>5 DEF Delivery!Next
  <2> QED
    BY <2>7, <2>8
<1> QED
  BY <1>1, <1>2

LEMMA DeliveryStep ==
    ASSUME OneConnection
    PROVE  KeyInv /\ [Next]_vars => [Delivery!Next]_(Delivery!vars)
<1> SUFFICES ASSUME KeyInv, [Next]_vars PROVE Delivery!Next \/ UNCHANGED Delivery!vars
  OBVIOUS
<1>1. CASE Tick \/ UNCHANGED vars
  BY <1>1, DeliveryRests DEF Tick, vars, queueState, history
<1>2. ASSUME NEW c \in Clients, Serve(c) PROVE Delivery!Next \/ UNCHANGED Delivery!vars
  <2>1. CASE PostClaim(c)
    <3>1. CASE Owned(Posting(c))
      BY <2>1, <3>1, ClaimAccepts
    <3>2. CASE ~ Owned(Posting(c))
      BY <2>1, <3>2, SharedKeyRests DEF Owned, PostClaim, KeyInv, OrderInv, history
    <3> QED
      BY <3>1, <3>2
  <2>2. CASE ~ PostClaim(c)
    <3>1. UNCHANGED <<idempotency_index, delivered>>
      BY <1>2, <2>2 DEF Serve, PostCheck, PostBind, PostAppend, PostDuplicate, RecordIntent,
         ListIntent, LogIntent, Answer, queueState, history
    <3> QED
      BY <3>1, DeliveryRests
  <2> QED
    BY <2>1, <2>2
<1>3. ASSUME NEW g \in Polls, Agent(g) PROVE Delivery!Next \/ UNCHANGED Delivery!vars
  <2>1. CASE PollItem(g) \/ PollReplace(g)
    BY <2>1, ItemLapses, ReplaceHands
  <2>2. CASE ~ (PollItem(g) \/ PollReplace(g))
    <3>1. UNCHANGED <<idempotency_index, delivered>>
      BY <1>3, <2>2 DEF Agent, PollStart, PollEnd, ReportLook, ReportIntent, ReportEvent,
         ReportDone, queueState, history
    <3> QED
      BY <3>1, DeliveryRests
  <2> QED
    BY <2>1, <2>2
<1> QED
  BY <1>1, <1>2, <1>3 DEF Next

\* For every key that one client alone uses (all of them under OwnKeys), the handlers
\* that run beside each other keep the controller's promise: the index is looked up,
\* claimed and given up and the list replaced in steps of several threads, and each
\* is one step of at-most-once delivery, or none.
THEOREM ThreadsDeliverOnce ==
    ASSUME PostedOnce, OneConnection
    PROVE  Spec => Delivery!Spec
<1>1. Init => Delivery!Init
  <2> SUFFICES ASSUME Init PROVE Delivery!Init
    OBVIOUS
  <2>1. DOMAIN delivered = {} /\ idempotency_index = [k \in Keys |-> None]
    BY DEF Init
  <2>2. Handed = {} /\ \A k \in OwnedKeys : KeyState(k) = "free"
    BY <2>1 DEF Handed, OwnedKeys, ToSet, KeyState, Served
  <2> QED
    BY <2>2 DEF Delivery!Init
<1>2. KeyInv /\ [Next]_vars => KeyInv'
  BY KeyStep
<1>3. KeyInv /\ [Next]_vars => [Delivery!Next]_(Delivery!vars)
  BY DeliveryStep
<1> QED
  BY <1>1, <1>2, <1>3, KeyInit, PTL DEF Spec, Delivery!Spec

-----------------------------------------------------------------------------
(* The results of the intents.                                             *)

\* The lists of the commands only grow at their ends.
Grown == \A command \in Requests : \A n \in DOMAIN mirror_command_index[command] :
            /\ n \in DOMAIN mirror_command_index'[command]
            /\ mirror_command_index'[command][n] = mirror_command_index[command][n]

LEMMA ListGrown == ASSUME TypeInv, NEW c \in Clients, ListIntent(c)
                   PROVE  Grown /\ ListedUnder(Posting(c), client[c].command)'
<1>1. /\ mirror_command_index \in [Requests -> Seq(Requests)]
      /\ client[c].command \in Requests /\ Posting(c) \in Requests
      /\ \A r \in Requests :
            mirror_command_index'[r] =
               IF r = client[c].command THEN Append(mirror_command_index[r], Posting(c))
               ELSE mirror_command_index[r]
  BY ListGrows DEF TypeInv, TypeOK
<1>2. Grown
  <2> SUFFICES ASSUME NEW r \in Requests, NEW n \in DOMAIN mirror_command_index[r]
               PROVE  /\ n \in DOMAIN mirror_command_index'[r]
                      /\ mirror_command_index'[r][n] = mirror_command_index[r][n]
    BY DEF Grown
  <2>1. mirror_command_index[r] \in Seq(Requests)
    BY <1>1
  <2>2. CASE r = client[c].command
    <3>1. mirror_command_index'[r] = Append(mirror_command_index[r], Posting(c))
      BY <1>1, <2>2
    <3> QED
      BY <1>1, <2>1, <3>1
  <2>3. CASE r # client[c].command
    BY <1>1, <2>3
  <2> QED
    BY <2>2, <2>3
<1>3. PICK x \in Requests, command \in Requests : x = Posting(c) /\ command = client[c].command
  BY <1>1
<1>4. ListedUnder(x, command)'
  <2>1. /\ mirror_command_index[command] \in Seq(Requests)
        /\ mirror_command_index'[command] = Append(mirror_command_index[command], x)
    BY <1>1, <1>3
  <2>2. /\ Len(mirror_command_index[command]) + 1 \in DOMAIN mirror_command_index'[command]
        /\ mirror_command_index'[command][Len(mirror_command_index[command]) + 1] = x
    BY <2>1
  <2> QED
    BY <2>2 DEF ListedUnder
<1>5. Posting(c)' = Posting(c) /\ client'[c].command = client[c].command
  <2>1. PICK me : Moves(c, me) /\ me.turn = client[c].turn /\ me.command = client[c].command
    BY GotoMoves DEF ListIntent
  <2> QED
    BY <2>1, ThreadTypes DEF Moves, Posting
<1> QED
  BY <1>2, <1>3, <1>4, <1>5

LEMMA ListedStays ==
    ASSUME Grown, NEW r, NEW command \in Requests, ListedUnder(r, command)
    PROVE  ListedUnder(r, command)'
BY DEF Grown, ListedUnder

\* A handler takes the intent it is about one step further, and answers it only
\* when it is listed or has no command.
LEMMA CorrelationKept ==
    ASSUME PostedOnce, TypeInv, CorrelationInv, Grown,
           NEW c \in Clients, client[c].turn \in DOMAIN Program[c],
           NEW x \in Requests, x = Posting(c), NEW me, Moves(c, me),
           answered' \subseteq answered \cup {x},
           \A r \in Requests : r # x => mirror_intents'[r] = mirror_intents[r],
           \/ /\ me.pc = "idle" /\ me.turn = client[c].turn + 1
              /\ \/ answered' = answered
                 \/ x \notin Mirror
                 \/ mirror_intents'[x].command_id = None
                 \/ ListedUnder(x, mirror_intents[x].command_id)'
           \/ /\ me.pc \notin {"idle", "list", "log"} /\ me.turn = client[c].turn
              /\ answered' = answered /\ mirror_intents'[x].command_id = None
           \/ /\ me.pc \in {"list", "log"} /\ me.turn = client[c].turn
              /\ answered' = answered /\ mirror_intents'[x].command_id = me.command
              /\ me.pc = "log" => ListedUnder(x, me.command)'
    PROVE  CorrelationInv'
<1>1. /\ \A d \in Clients : client'[d] = IF d = c THEN me ELSE client[d]
      /\ client[c].turn \in Nat
  BY ThreadTypes DEF Moves, ClientRecord
<1>2. /\ \A d \in Clients : DOMAIN Program[d] \subseteq Nat
      /\ \A d \in Clients : \A n \in DOMAIN Program[d] :
            /\ Program[d][n] \in Requests
            /\ Program[d][n] = x => d = c /\ n = client[c].turn
  <2>1. \A d \in Clients : Program[d] \in Seq(Requests)
    BY ThreadConstants
  <2>2. ASSUME NEW d \in Clients
        PROVE  DOMAIN Program[d] \subseteq Nat
    BY <2>1
  <2>3. ASSUME NEW d \in Clients, NEW n \in DOMAIN Program[d]
        PROVE  Program[d][n] \in Requests
    BY <2>1
  <2>4. ASSUME NEW d \in Clients, NEW n \in DOMAIN Program[d], Program[d][n] = x
        PROVE  d = c /\ n = client[c].turn
    <3>1. PICK turn : turn = client[c].turn
      OBVIOUS
    <3>2. turn \in DOMAIN Program[c] /\ Program[d][n] = Program[c][turn]
      BY <2>4, <3>1 DEF Posting
    <3>3. turn \in DOMAIN Program[c] /\ Program[d][n] = Program[c][turn] =>
             d = c /\ n = turn
      BY DEF PostedOnce
    <3> QED
      BY <3>1, <3>2, <3>3
  <2> QED
    BY <2>2, <2>3, <2>4, Zenon
<1>3. ASSUME NEW d \in Clients, NEW n \in Open(d)'
      PROVE  /\ n \in Open(d) /\ Program[d][n] \notin answered'
             /\ answered' # answered => Program[d][n] # x
  BY <1>1, <1>2, <1>3 DEF Open, CorrelationInv
<1>4. ASSUME NEW d \in Clients, NEW n \in Open(d)',
             n > client'[d].turn \/ client'[d].pc \notin {"list", "log"}
      PROVE  mirror_intents'[Program[d][n]].command_id = None
  <2>1. n \in DOMAIN Program[d] /\ n \in Nat /\ n \in Open(d)
    BY <1>2, <1>3, <1>4 DEF Open
  <2>2. CASE d # c
    BY <1>1, <1>2, <1>4, <2>1, <2>2 DEF CorrelationInv
  <2>3. CASE d = c /\ n # client[c].turn
    <3>1. n > client[c].turn
      BY <1>1, <2>1, <2>3 DEF Open
    <3> QED
      BY <1>2, <2>1, <2>3, <3>1 DEF CorrelationInv
  <2>4. CASE d = c /\ n = client[c].turn
    <3>1. me.turn = client[c].turn
      BY <1>1, <1>4, <2>4 DEF Open
    <3>2. Program[d][n] = x
      BY <2>4 DEF Posting
    <3>3. me.pc \notin {"list", "log"}
      BY <1>1, <1>4, <2>4, <3>1
    <3>4. me.turn # client[c].turn + 1
      BY <1>1, <3>1
    <3>5. mirror_intents'[x].command_id = None
      BY <3>3, <3>4
    <3> QED
      BY <3>2, <3>5
  <2> QED
    BY <2>2, <2>3, <2>4
<1>5. ASSUME NEW d \in Clients, client'[d].pc \in {"list", "log"}
      PROVE  /\ mirror_intents'[Posting(d)'].command_id = client'[d].command
             /\ client'[d].pc = "log" => ListedUnder(Posting(d), client[d].command)'
  <2>1. CASE d = c
    <3>1. Posting(d)' = x /\ client'[d] = me
      BY <1>1, <1>5, <2>1 DEF Posting
    <3> QED
      BY <1>5, <2>1, <3>1
  <2>2. CASE d # c
    <3>1. /\ client'[d] = client[d] /\ Posting(d)' = Posting(d)
          /\ client[d].turn \in DOMAIN Program[d] /\ client[d].command \in Requests
      BY <1>1, <1>5, <2>2 DEF Posting, TypeInv, AtWork, ClientWorks
    <3>2. PICK y \in Requests, command \in Requests : y = Posting(d) /\ command = client[d].command
      BY <1>2, <3>1 DEF Posting
    <3>3. y # x
      BY <1>2, <2>2, <3>1, <3>2 DEF Posting
    <3>4. /\ mirror_intents[y].command_id = command
          /\ client[d].pc = "log" => ListedUnder(y, command)
      BY <1>5, <3>1, <3>2 DEF CorrelationInv
    <3>5. client[d].pc = "log" => ListedUnder(y, command)'
      BY <3>4, ListedStays
    <3>6. /\ Posting(d)' = y /\ client'[d].command = command /\ client'[d].pc = client[d].pc
          /\ mirror_intents'[y] = mirror_intents[y]
      BY <3>1, <3>2, <3>3
    <3>7. mirror_intents'[Posting(d)'].command_id = client'[d].command
      BY <3>4, <3>6
    <3>8. client'[d].pc = "log" => ListedUnder(Posting(d), client[d].command)'
      BY <3>5, <3>6
    <3> QED
      BY <3>7, <3>8
  <2> QED
    BY <2>1, <2>2
<1>6. ASSUME NEW r \in answered' \cap Mirror, mirror_intents'[r].command_id # None
      PROVE  ListedUnder(r, mirror_intents[r].command_id)'
  <2>1. r \in Requests
    BY <1>6, ThreadConstants
  <2>2. CASE r # x
    <3>1. PICK command : command = mirror_intents[r].command_id
      OBVIOUS
    <3>2. /\ command \in Requests /\ ListedUnder(r, command)
          /\ mirror_intents'[r].command_id = command
      BY <1>6, <2>1, <2>2, <3>1 DEF CorrelationInv, TypeInv, TypeOK
    <3>3. ListedUnder(r, command)'
      BY <3>2, ListedStays
    <3> QED
      BY <3>2, <3>3
  <2>3. CASE r = x
    <3>1. x \notin answered
      <4>1. client[c].turn \in Open(c)
        BY <1>1 DEF Open
      <4> QED
        BY <4>1 DEF CorrelationInv, Posting
    <3> QED
      BY <1>6, <2>3, <3>1
  <2> QED
    BY <2>2, <2>3
<1>7. \A d \in Clients : \A n \in Open(d)' : Program[d][n] \notin answered'
  BY <1>3
<1> QED
  BY <1>4, <1>5, <1>6, <1>7 DEF CorrelationInv

\* A handler does not touch what a report owes: its intent is not answered yet.
LEMMA OwedKept ==
    ASSUME TypeInv, OwedInv, Grown, NEW x \in Requests, x \notin answered,
           answered \subseteq answered', UNCHANGED <<poll, owed>>,
           \A r \in Requests : r # x => mirror_intents'[r] = mirror_intents[r]
    PROVE  OwedInv'
<1> SUFFICES ASSUME NEW g \in Polls, NEW r \in owed[g] PROVE Owes(poll[g], r)'
  BY DEF OwedInv
<1>1. Owes(poll[g], r) /\ r \in Requests /\ r # x
  BY DEF OwedInv, TypeInv, TypeOK, Owes
<1>2. PICK me : me = poll[g] /\ me \in PollRecord(Len(lists)) /\ PollWorks(me)
  BY ThreadTypes DEF TypeInv, AtWork
<1>3. r \in answered' /\ (Paid(r) => Paid(r)')
  BY <1>1 DEF Owes, Paid
<1>4. CASE me.pc \in {"answer", "event"}
  <2>1. me.selected \in Requests
    BY <1>2, <1>4 DEF PollRecord, PollWorks
  <2>2. PICK n \in DOMAIN mirror_command_index[me.selected] :
             /\ mirror_command_index[me.selected][n] = r
             /\ n < me.at \/ (n = me.at /\ me.pc = "event") => Paid(r)
    <3>1. Owes(me, r)
      BY <1>1, <1>2
    <3> QED
      BY <1>4, <3>1 DEF Owes
  <2>3. /\ n \in DOMAIN mirror_command_index'[me.selected]
        /\ mirror_command_index'[me.selected][n] = r
    BY <2>1, <2>2 DEF Grown
  <2>4. Owes(me, r)'
    <3>1. n < me.at \/ (n = me.at /\ me.pc = "event") => Paid(r)'
      BY <1>3, <2>2
    <3> QED
      BY <1>3, <1>4, <2>3, <3>1 DEF Owes
  <2> QED
    BY <1>2, <2>4
<1>5. CASE me.pc \notin {"answer", "event"}
  <2>1. Owes(me, r)'
    BY <1>1, <1>2, <1>3, <1>5 DEF Owes
  <2> QED
    BY <1>2, <2>1
<1> QED
  BY <1>4, <1>5

LEMMA ServeReports ==
    ASSUME PostedOnce, ReportInv, NEW c \in Clients, Serve(c)
    PROVE  CorrelationInv' /\ OwedInv'
<1>1. /\ TypeInv /\ CorrelationInv /\ OwedInv /\ client[c].turn \in DOMAIN Program[c]
      /\ UNCHANGED <<poll, owed>>
  <2>1. client[c].pc # "idle" \/ client[c].turn <= Len(Program[c])
    BY DEF Serve, PostCheck, PostClaim, PostBind, PostAppend, PostDuplicate, RecordIntent,
           ListIntent, LogIntent
  <2>2. UNCHANGED <<poll, owed>>
    BY DEF Serve, PostCheck, PostClaim, PostBind, PostAppend, PostDuplicate, RecordIntent,
           ListIntent, LogIntent, Answer, history
  <2> QED
    BY <2>1, <2>2, PostingType DEF ReportInv
<1>2. PICK x \in Requests : x = Posting(c)
  BY <1>1, PostingType, ThreadConstants DEF Posting
<1>3. /\ x \notin answered
      /\ client[c].pc \notin {"list", "log"} => mirror_intents[x].command_id = None
  <2>1. client[c].turn \in Open(c)
    BY <1>1, ThreadTypes DEF Open, ClientRecord
  <2> QED
    BY <1>1, <1>2, <2>1 DEF CorrelationInv, Posting
<1>4. UNCHANGED mirror_command_index => Grown
  BY DEF Grown
<1>5. ASSUME Answer(c) PROVE /\ answered' = answered \cup {x}
                             /\ \E me : /\ Moves(c, me) /\ me.pc = "idle"
                                        /\ me.turn = client[c].turn + 1
  BY <1>1, <1>2, <1>5, TurnEnds DEF Answer, Ends
<1>6. ASSUME UNCHANGED <<mirror_intents, mirror_command_index, answered>>,
             client[c].pc \notin {"list", "log"},
             NEW me, Moves(c, me),
             \/ me.pc = "idle" /\ me.turn = client[c].turn + 1
             \/ me.pc \notin {"idle", "list", "log"} /\ me.turn = client[c].turn
      PROVE  CorrelationInv' /\ OwedInv'
  BY <1>1, <1>2, <1>3, <1>4, <1>6, CorrelationKept, OwedKept
<1>7. CASE PostCheck(c)
  <2>1. /\ client[c].pc = "idle" /\ UNCHANGED mirror_command_index
        /\ mirror_intents[x].command_id = None
    BY <1>3, <1>7 DEF PostCheck, mirrorState
  <2>2. CASE is_expired(x)
    <3>1. PICK me : Moves(c, me) /\ me.pc = "idle" /\ me.turn = client[c].turn + 1
      BY <1>2, <1>5, <1>7, <2>2 DEF PostCheck
    <3>2. answered' = answered \cup {x}
      BY <1>2, <1>5, <1>7, <2>2 DEF PostCheck
    <3>3. /\ \A r \in Requests : r # x => mirror_intents'[r] = mirror_intents[r]
          /\ mirror_intents'[x].command_id = mirror_intents[x].command_id
      <4>1. \/ mirror_intents' = [mirror_intents EXCEPT ![x].state = "rejected"]
            \/ UNCHANGED mirror_intents
        BY <1>2, <1>7, <2>2 DEF PostCheck
      <4> QED
        BY <1>1, <4>1 DEF TypeInv, TypeOK
    <3> QED
      BY <1>1, <1>2, <1>3, <1>4, <2>1, <3>1, <3>2, <3>3, CorrelationKept, OwedKept
  <2>3. CASE ~ is_expired(x)
    <3>1. PICK me : Moves(c, me) /\ me.pc \in {"free", "taken"} /\ me.turn = client[c].turn
      BY <1>1, <1>2, <1>7, <2>3, GotoMoves DEF PostCheck
    <3>2. UNCHANGED <<mirror_intents, mirror_command_index, answered>>
      BY <1>2, <1>7, <2>3 DEF PostCheck, mirrorState
    <3> QED
      BY <1>6, <2>1, <3>1, <3>2
  <2> QED
    BY <2>2, <2>3
<1>8. ASSUME PostClaim(c) \/ PostBind(c) PROVE CorrelationInv' /\ OwedInv'
  <2>1. PICK me : Moves(c, me) /\ me.pc \in {"claimed", "bound"} /\ me.turn = client[c].turn
    BY <1>1, <1>8, GotoMoves, BindMoves DEF PostClaim, PostBind
  <2>2. /\ UNCHANGED <<mirror_intents, mirror_command_index, answered>>
        /\ client[c].pc \notin {"list", "log"}
    BY <1>8 DEF PostClaim, PostBind, mirrorState, history
  <2> QED
    BY <1>6, <2>1, <2>2
<1>9. ASSUME PostAppend(c) \/ PostDuplicate(c) PROVE CorrelationInv' /\ OwedInv'
  <2>1. /\ UNCHANGED <<mirror_intents, mirror_command_index>>
        /\ client[c].pc \in {"bound", "taken"} /\ KeyOf[x] \in Keys
    BY <1>2, <1>9, ThreadConstants DEF PostAppend, PostDuplicate, mirrorState
  <2>2. CASE Answer(c) /\ x \notin Mirror
    <3>1. PICK me : Moves(c, me) /\ me.pc = "idle" /\ me.turn = client[c].turn + 1
      BY <1>5, <2>2
    <3>2. answered' = answered \cup {x}
      BY <1>5, <2>2
    <3> QED
      BY <1>1, <1>2, <1>3, <1>4, <2>1, <2>2, <3>1, <3>2, CorrelationKept, OwedKept
  <2>3. CASE client' = [client EXCEPT ![c].pc = "idle", ![c].turn = @ + 1] /\ UNCHANGED history
    <3>1. PICK me : Moves(c, me) /\ me.pc = "idle" /\ me.turn = client[c].turn + 1
      BY <1>1, <2>3, TurnEnds DEF Ends
    <3> QED
      BY <1>6, <2>1, <2>3, <3>1 DEF history
  <2>4. CASE \E command \in Requests :
                /\ client' = [client EXCEPT ![c].pc = "record", ![c].command = command]
                /\ UNCHANGED history
    <3>1. PICK me : Moves(c, me) /\ me.pc = "record" /\ me.turn = client[c].turn
      BY <1>1, <2>4, RecordMoves
    <3> QED
      BY <1>6, <2>1, <2>4, <3>1 DEF history
  <2>5. idempotency_index[KeyOf[x]] \in Requests \cup {None}
    BY <1>1, <2>1 DEF TypeInv, TypeOK
  <2> QED
    BY <1>2, <1>9, <2>2, <2>3, <2>4, <2>5 DEF PostAppend, PostDuplicate
<1>10. CASE RecordIntent(c)
  <2>1. PICK me : /\ Moves(c, me) /\ me.pc = "list" /\ me.turn = client[c].turn
                  /\ me.command = client[c].command
    BY <1>1, <1>10, GotoMoves DEF RecordIntent
  <2>2. UNCHANGED <<mirror_command_index, answered>>
    BY <1>10 DEF RecordIntent, history
  <2>3. /\ \A r \in Requests : r # x => mirror_intents'[r] = mirror_intents[r]
        /\ mirror_intents'[x].command_id = client[c].command
    BY <1>1, <1>2, <1>10 DEF RecordIntent, TypeInv, TypeOK
  <2> QED
    BY <1>1, <1>2, <1>3, <1>4, <2>1, <2>2, <2>3, CorrelationKept, OwedKept
<1>11. CASE ListIntent(c)
  <2>1. PICK me : /\ Moves(c, me) /\ me.pc = "log" /\ me.turn = client[c].turn
                  /\ me.command = client[c].command
    BY <1>1, <1>11, GotoMoves DEF ListIntent
  <2>2. UNCHANGED <<mirror_intents, answered>>
    BY <1>11 DEF ListIntent, history
  <2>3. /\ Grown /\ ListedUnder(x, me.command)'
        /\ mirror_intents[x].command_id = me.command
    <3>1. Posting(c)' = x /\ client'[c].command = me.command
      BY <1>2, <2>1, ThreadTypes, <1>1 DEF Moves, Posting
    <3>2. Grown /\ ListedUnder(Posting(c), client[c].command)'
      BY <1>1, <1>11, ListGrown
    <3>3. client[c].pc = "list"
      BY <1>11 DEF ListIntent
    <3> QED
      BY <1>1, <1>2, <2>1, <3>1, <3>2, <3>3 DEF CorrelationInv
  <2> QED
    BY <1>1, <1>2, <1>3, <2>1, <2>2, <2>3, CorrelationKept, OwedKept
<1>12. CASE LogIntent(c)
  <2>1. PICK me : Moves(c, me) /\ me.pc = "idle" /\ me.turn = client[c].turn + 1
    BY <1>5, <1>12 DEF LogIntent
  <2>2. answered' = answered \cup {x} /\ UNCHANGED <<mirror_intents, mirror_command_index>>
    BY <1>5, <1>12 DEF LogIntent
  <2>3. ListedUnder(x, mirror_intents[x].command_id)'
    <3>1. PICK command : command = mirror_intents[x].command_id
      OBVIOUS
    <3>2. client[c].pc = "log"
      BY <1>12 DEF LogIntent
    <3>3. ListedUnder(x, command)
      BY <1>1, <1>2, <3>1, <3>2 DEF CorrelationInv
    <3> QED
      BY <2>2, <3>1, <3>3 DEF ListedUnder
  <2> QED
    BY <1>1, <1>2, <1>3, <1>4, <2>1, <2>2, <2>3, CorrelationKept, OwedKept
<1> QED
  BY <1>7, <1>8, <1>9, <1>10, <1>11, <1>12 DEF Serve

\* The agent's steps: nothing it does loses a correlation, and a debt of one
\* connection is only touched by its own report.
LEMMA CorrelationStays ==
    ASSUME TypeInv, CorrelationInv, UNCHANGED <<client, answered, mirror_command_index>>,
           \A r \in Requests : mirror_intents'[r].command_id = mirror_intents[r].command_id
    PROVE  CorrelationInv'
<1>1. /\ \A c \in Clients : \A n \in DOMAIN Program[c] : Program[c][n] \in Requests
      /\ answered \subseteq Requests
      /\ \A c \in Clients : Open(c)' = Open(c) /\ Posting(c)' = Posting(c)
      /\ \A r, command : ListedUnder(r, command)' = ListedUnder(r, command)
  BY ThreadConstants DEF TypeInv, TypeOK, Open, Posting, ListedUnder
<1>2. \A c \in Clients : client[c].pc \in {"list", "log"} => Posting(c) \in Requests
  BY PostingType
<1>3. ASSUME NEW c \in Clients
      PROVE  /\ \A n \in Open(c)' : Program[c][n] \notin answered'
             /\ \A n \in Open(c)' :
                   n > client'[c].turn \/ client'[c].pc \notin {"list", "log"}
                      => mirror_intents'[Program[c][n]].command_id = None
             /\ client'[c].pc \in {"list", "log"}
                   => mirror_intents'[Posting(c)'].command_id = client'[c].command
             /\ client'[c].pc = "log" => ListedUnder(Posting(c), client[c].command)'
  <2>1. Open(c) \subseteq DOMAIN Program[c]
    BY DEF Open
  <2>2. client[c].pc = "log" => ListedUnder(Posting(c), client[c].command)'
    <3>1. PICK y, command : y = Posting(c) /\ command = client[c].command
      OBVIOUS
    <3>2. client[c].pc = "log" => ListedUnder(y, command)
      BY <3>1 DEF CorrelationInv
    <3> QED
      BY <1>1, <3>1, <3>2
  <2> QED
    BY <1>1, <1>2, <2>1, <2>2 DEF CorrelationInv
<1>4. ASSUME NEW r \in answered' \cap Mirror, mirror_intents'[r].command_id # None
      PROVE  ListedUnder(r, mirror_intents[r].command_id)'
  <2>1. PICK command : command = mirror_intents[r].command_id
    OBVIOUS
  <2>2. ListedUnder(r, command) /\ mirror_intents'[r].command_id = command
    BY <1>1, <1>4, <2>1 DEF CorrelationInv
  <2> QED
    BY <1>1, <2>2
<1> QED
  BY <1>3, <1>4 DEF CorrelationInv

LEMMA OwedTurns ==
    ASSUME TypeInv, OwedInv, NEW g \in Polls, NEW me, Turns(g, me),
           UNCHANGED <<mirror_command_index, answered>>,
           \A r \in Requests : Paid(r) => Paid(r)',
           \A h \in Polls : h # g => owed'[h] = owed[h],
           \A r \in owed'[g] : Owes(me, r)'
    PROVE  OwedInv'
<1>1. \A h \in Polls : poll'[h] = IF h = g THEN me ELSE poll[h]
  BY ThreadTypes DEF Turns
<1> SUFFICES ASSUME NEW h \in Polls, NEW r \in owed'[h] PROVE Owes(poll[h], r)'
  BY DEF OwedInv
<1>2. CASE h = g
  <2>1. Owes(me, r)' /\ poll'[h] = me
    BY <1>1, <1>2
  <2> QED
    BY <2>1
<1>3. CASE h # g
  <2>1. PICK it : it = poll[h] /\ poll'[h] = it
    BY <1>1, <1>3
  <2>2. Owes(it, r) /\ r \in Requests
    BY <1>3, <2>1 DEF OwedInv, TypeInv, TypeOK
  <2>3. Owes(it, r)'
    BY <2>2 DEF Owes
  <2> QED
    BY <2>1, <2>3
<1> QED
  BY <1>2, <1>3

\* Between two reports a connection owes nothing that is not paid.
LEMMA ScanReports ==
    ASSUME ReportInv, NEW g \in Polls,
           PollStart(g) \/ PollItem(g) \/ PollEnd(g) \/ PollReplace(g)
    PROVE  CorrelationInv' /\ OwedInv'
<1>1. /\ TypeInv /\ CorrelationInv /\ OwedInv
      /\ UNCHANGED <<mirror_intents, mirror_command_index, client, answered, owed>>
      /\ poll[g].pc \in {"idle", "scan", "replace"}
  BY DEF ReportInv, PollStart, PollItem, PollEnd, PollReplace, mirrorState, history
<1>2. CorrelationInv'
  BY <1>1, CorrelationStays
<1>3. \E me : Turns(g, me) /\ me.pc \in {"idle", "scan", "replace", "look"}
  <2>1. CASE PollStart(g)
    BY <1>1, <2>1, StartTurns
  <2>2. CASE PollItem(g)
    BY <1>1, <2>2, ItemTurns
  <2>3. CASE PollEnd(g) \/ PollReplace(g)
    <3>1. PICK pc \in {"idle", "replace", "look"} : poll' = [poll EXCEPT ![g].pc = pc]
      <4>1. CASE PollEnd(g)
        BY <4>1 DEF PollEnd
      <4>2. CASE PollReplace(g) /\ poll[g].selected = None
        BY <4>2 DEF PollReplace
      <4>3. CASE PollReplace(g) /\ poll[g].selected # None
        BY <4>3 DEF PollReplace
      <4> QED
        BY <2>3, <4>1, <4>2, <4>3
    <3>2. PICK me : /\ Turns(g, me) /\ me.pc = pc /\ me.queue = poll[g].queue
                    /\ me.at = poll[g].at /\ me.kept = poll[g].kept
                    /\ me.selected = poll[g].selected
      <4>1. pc \in {"idle", "scan", "replace", "look", "answer", "event"}
        BY <3>1
      <4> QED
        BY <1>1, <3>1, <4>1, PollPcTurns, Zenon
    <3> QED
      BY <3>1, <3>2
  <2> QED
    BY <2>1, <2>2, <2>3
<1>4. PICK me : Turns(g, me) /\ me.pc \in {"idle", "scan", "replace", "look"}
  BY <1>3
<1>5. ASSUME NEW r \in owed'[g] PROVE Owes(me, r)'
  <2>1. r \in answered /\ Paid(r)
    BY <1>1, <1>5 DEF OwedInv, Owes
  <2> QED
    BY <1>1, <1>4, <2>1 DEF Owes, Paid
<1>6. OwedInv'
  BY <1>1, <1>4, <1>5, OwedTurns DEF Paid
<1> QED
  BY <1>2, <1>6

LEMMA LookReports ==
    ASSUME ReportInv, NEW g \in Polls, ReportLook(g)
    PROVE  CorrelationInv' /\ OwedInv'
<1>1. /\ TypeInv /\ CorrelationInv /\ OwedInv /\ poll[g] \in PollRecord(Len(lists))
      /\ UNCHANGED <<mirror_intents, mirror_command_index, client, answered>>
      /\ poll[g].pc = "look" /\ PollWorks(poll[g])
      /\ owed' = [owed EXCEPT ![g] = AnsweredIntents(poll[g].selected)]
  BY ThreadTypes DEF ReportInv, ReportLook, mirrorState, TypeInv, AtWork
<1>2. PICK command \in Requests : command = poll[g].selected
  BY <1>1 DEF PollRecord, PollWorks
<1>3. PICK pc \in {"idle", "answer"} :
         /\ poll' = [poll EXCEPT ![g].at = 1, ![g].pc = pc]
         /\ pc = "idle" => mirror_command_index[command] = <<>>
  <2>1. CASE mirror_command_index[poll[g].selected] = <<>>
    BY <1>2, <2>1 DEF ReportLook
  <2>2. CASE mirror_command_index[poll[g].selected] # <<>>
    BY <1>2, <2>2 DEF ReportLook
  <2> QED
    BY <2>1, <2>2
<1>4. PICK me : Turns(g, me) /\ me.pc = pc /\ me.at = 1 /\ me.selected = command
  <2>1. /\ pc \in {"idle", "scan", "replace", "look", "answer", "event"} /\ 1 \in Nat \ {0}
        /\ SetsAt(g, pc, 1)
    BY <1>3 DEF SetsAt
  <2> QED
    BY <1>1, <1>2, <2>1, PollAtTurns
<1>5. owed'[g] = AnsweredIntents(command) /\ (\A h \in Polls : h # g => owed'[h] = owed[h])
  BY <1>1, <1>2 DEF TypeInv, TypeOK
<1>6. ASSUME NEW r \in owed'[g] PROVE Owes(me, r)'
  <2>1. r \in answered /\ ListedUnder(r, command)
    BY <1>1, <1>2, <1>5, <1>6, ThreadConstants DEF AnsweredIntents, CorrelationInv
  <2>2. PICK n \in DOMAIN mirror_command_index[command] : mirror_command_index[command][n] = r
    BY <2>1 DEF ListedUnder
  <2>3. mirror_command_index[command] \in Seq(Requests)
    BY <1>1 DEF TypeInv, TypeOK
  <2>4. n \in Nat /\ n >= 1 /\ mirror_command_index[command] # <<>>
    BY <2>2, <2>3
  <2>5. me.pc = "answer" /\ ~ (n < me.at)
    BY <1>3, <1>4, <2>4
  <2> QED
    BY <1>1, <1>4, <2>1, <2>2, <2>5 DEF Owes
<1>7. CorrelationInv' /\ OwedInv'
  BY <1>1, <1>4, <1>5, <1>6, CorrelationStays, OwedTurns DEF Paid
<1> QED
  BY <1>7

LEMMA WalkReports ==
    ASSUME ReportInv, NEW g \in Polls, ReportIntent(g) \/ ReportEvent(g) \/ ReportDone(g)
    PROVE  CorrelationInv' /\ OwedInv'
<1>1. /\ TypeInv /\ CorrelationInv /\ OwedInv /\ poll[g] \in PollRecord(Len(lists))
      /\ UNCHANGED <<mirror_command_index, client, answered, owed>>
      /\ PollWorks(poll[g]) /\ poll[g].pc \in {"answer", "event"}
  BY ThreadTypes
  DEF ReportInv, ReportIntent, ReportEvent, ReportDone, mirrorState, history, TypeInv, AtWork
<1>2. PICK old : old = poll[g]
  OBVIOUS
<1>3. /\ old.selected \in Requests /\ old.at \in Nat \ {0} /\ old.pc \in {"answer", "event"}
      /\ mirror_command_index[old.selected] \in Seq(Requests)
      /\ Listed(g) = mirror_command_index[old.selected]
  BY <1>1, <1>2 DEF PollRecord, PollWorks, Listed, TypeInv, TypeOK
<1>4. ASSUME NEW r \in owed[g]
      PROVE  /\ r \in answered /\ r \in Requests
             /\ \E n \in DOMAIN mirror_command_index[old.selected] :
                   /\ mirror_command_index[old.selected][n] = r /\ n \in Nat
                   /\ n < old.at \/ (n = old.at /\ old.pc = "event") => Paid(r)
                   /\ n <= Len(mirror_command_index[old.selected])
  <2>1. Owes(old, r) /\ r \in Requests
    BY <1>1, <1>2, <1>4 DEF OwedInv, TypeInv, TypeOK
  <2>2. /\ r \in answered
        /\ \E n \in DOMAIN mirror_command_index[old.selected] :
              /\ mirror_command_index[old.selected][n] = r
              /\ n < old.at \/ (n = old.at /\ old.pc = "event") => Paid(r)
    BY <1>3, <2>1 DEF Owes
  <2>3. \A n \in DOMAIN mirror_command_index[old.selected] :
           n \in Nat /\ n <= Len(mirror_command_index[old.selected])
    BY <1>3
  <2> QED
    BY <2>1, <2>2, <2>3
<1>5. CASE ReportIntent(g)
  <2>1. PICK me : /\ Turns(g, me) /\ me.pc = "event" /\ me.queue = poll[g].queue
                  /\ me.at = poll[g].at /\ me.kept = poll[g].kept
                  /\ me.selected = poll[g].selected
    <3>1. poll' = [poll EXCEPT ![g].pc = "event"]
      BY <1>5 DEF ReportIntent
    <3> QED
      BY <1>1, <3>1, PollPcTurns, Zenon
  <2>2. PICK x \in Requests :
           /\ old.pc = "answer" /\ x = mirror_command_index[old.selected][old.at]
           /\ mirror_intents' = [mirror_intents EXCEPT ![x].state = "completed"]
    <3> DEFINE x == mirror_command_index[old.selected][old.at]
    <3>1. /\ old.pc = "answer" /\ old.at <= Len(mirror_command_index[old.selected])
          /\ mirror_intents' = [mirror_intents EXCEPT ![x].state = "completed"]
      BY <1>2, <1>3, <1>5 DEF ReportIntent
    <3>2. x \in Requests
      BY <1>3, <3>1
    <3> HIDE DEF x
    <3> QED
      BY <3>1, <3>2 DEF x
  <2>3. /\ \A r \in Requests :
              /\ mirror_intents'[r].command_id = mirror_intents[r].command_id
              /\ Paid(r) => Paid(r)'
        /\ Paid(x)'
    <3>1. mirror_intents \in [Requests -> [state : States, command_id : Requests \cup {None}]]
      BY <1>1 DEF TypeInv, TypeOK
    <3> QED
      BY <2>2, <3>1 DEF Paid
  <2>4. ASSUME NEW r \in owed'[g] PROVE Owes(me, r)'
    <3>1. /\ r \in answered /\ r \in Requests
          /\ \E n \in DOMAIN mirror_command_index[old.selected] :
                   /\ mirror_command_index[old.selected][n] = r /\ n \in Nat
                   /\ n < old.at \/ (n = old.at /\ old.pc = "event") => Paid(r)
      BY <1>1, <1>4, <2>4
    <3>2. PICK n \in DOMAIN mirror_command_index[old.selected] :
                   /\ mirror_command_index[old.selected][n] = r /\ n \in Nat
                   /\ n < old.at \/ (n = old.at /\ old.pc = "event") => Paid(r)
      BY <3>1
    <3>3. n < old.at \/ n = old.at => Paid(r)'
      BY <2>2, <2>3, <3>1, <3>2
    <3> QED
      BY <1>1, <1>2, <2>1, <3>1, <3>2, <3>3 DEF Owes
  <2> QED
    BY <1>1, <2>1, <2>3, <2>4, CorrelationStays, OwedTurns
<1>6. CASE ReportEvent(g)
  <2>1. PICK at \in Nat \ {0} : at = old.at + 1 /\ SetsAt(g, "answer", at)
    <3>1. old.at + 1 \in Nat \ {0}
      BY <1>3
    <3> QED
      BY <1>2, <1>6, <3>1 DEF ReportEvent, SetsAt
  <2>2. PICK me : Turns(g, me) /\ me.pc = "answer" /\ me.at = at /\ me.selected = old.selected
    BY <1>1, <1>2, <2>1, PollAtTurns
  <2>3. UNCHANGED mirror_intents /\ old.pc = "event"
    BY <1>2, <1>6 DEF ReportEvent
  <2>4. ASSUME NEW r \in owed'[g] PROVE Owes(me, r)'
    <3>1. PICK n \in DOMAIN mirror_command_index[old.selected] :
                   /\ mirror_command_index[old.selected][n] = r /\ n \in Nat
                   /\ n < old.at \/ n = old.at => Paid(r)
      BY <1>1, <1>4, <2>3, <2>4
    <3>2. n < me.at => Paid(r)'
      BY <1>3, <2>1, <2>2, <2>3, <3>1 DEF Paid
    <3> QED
      BY <1>1, <1>4, <2>2, <2>4, <3>1, <3>2 DEF Owes
  <2> QED
    BY <1>1, <2>2, <2>3, <2>4, CorrelationStays, OwedTurns DEF Paid
<1>7. CASE ReportDone(g)
  <2>1. PICK me : /\ Turns(g, me) /\ me.pc = "idle" /\ me.queue = poll[g].queue
                  /\ me.at = poll[g].at /\ me.kept = poll[g].kept
                  /\ me.selected = poll[g].selected
    <3>1. poll' = [poll EXCEPT ![g].pc = "idle"]
      BY <1>7 DEF ReportDone
    <3> QED
      BY <1>1, <3>1, PollPcTurns, Zenon
  <2>2. UNCHANGED mirror_intents /\ old.at > Len(mirror_command_index[old.selected])
    BY <1>2, <1>3, <1>7 DEF ReportDone, mirrorState
  <2>3. ASSUME NEW r \in owed'[g] PROVE Owes(me, r)'
    <3>1. PICK n \in DOMAIN mirror_command_index[old.selected] :
                   /\ n \in Nat /\ n <= Len(mirror_command_index[old.selected])
                   /\ n < old.at => Paid(r)
      BY <1>1, <1>4, <2>3
    <3>2. Len(mirror_command_index[old.selected]) \in Nat
      BY <1>3
    <3>3. Paid(r)
      BY <1>3, <2>2, <3>1, <3>2
    <3> QED
      BY <1>1, <1>4, <2>1, <2>2, <2>3, <3>3 DEF Owes, Paid
  <2> QED
    BY <1>1, <2>1, <2>2, <2>3, CorrelationStays, OwedTurns DEF Paid
<1> QED
  BY <1>5, <1>6, <1>7

LEMMA ReportInit == Init => ReportInv
<1> SUFFICES ASSUME Init PROVE ReportInv
  OBVIOUS
<1>1. TypeInv /\ owed = [g \in Polls |-> {}] /\ answered = {}
  BY TypeInit DEF Init
<1>2. /\ \A c \in Clients : client[c].pc = "idle" /\ Open(c) \subseteq DOMAIN Program[c]
      /\ \A c \in Clients : \A n \in DOMAIN Program[c] : Program[c][n] \in Requests
      /\ \A r \in Requests : mirror_intents[r].command_id = None
  BY ThreadConstants DEF Init, Open
<1>3. CorrelationInv
  BY <1>1, <1>2 DEF CorrelationInv
<1>4. OwedInv
  BY <1>1 DEF OwedInv
<1> QED
  BY <1>1, <1>3, <1>4 DEF ReportInv

LEMMA ReportStep == ASSUME PostedOnce PROVE ReportInv /\ [Next]_vars => ReportInv'
<1> SUFFICES ASSUME ReportInv, [Next]_vars PROVE CorrelationInv' /\ OwedInv'
  BY TypeStep DEF ReportInv
<1>1. ASSUME Tick \/ UNCHANGED vars PROVE CorrelationInv' /\ OwedInv'
  <2>1. /\ UNCHANGED <<client, poll, answered, owed, mirror_intents, mirror_command_index>>
        /\ TypeInv /\ CorrelationInv /\ OwedInv
    BY <1>1 DEF Tick, vars, queueState, mirrorState, history, ReportInv
  <2>2. CorrelationInv'
    BY <2>1, CorrelationStays
  <2>3. OwedInv'
    BY <2>1 DEF OwedInv, Owes, Paid
  <2> QED
    BY <2>2, <2>3
<1>2. ASSUME NEW g \in Polls, Agent(g) PROVE CorrelationInv' /\ OwedInv'
  BY <1>2, ScanReports, LookReports, WalkReports DEF Agent
<1> QED
  BY <1>1, <1>2, ServeReports DEF Next

\* A source that was told "queued_for_target" before the result came in reads the
\* result's state once it is recorded, whatever the threads that list and log
\* intents and the one that records the result do in between.
THEOREM IntentsGetResult ==
    ASSUME PostedOnce
    PROVE  Spec => []AnsweredIntentsGetResult
<1>1. ReportInv => AnsweredIntentsGetResult
  BY DEF ReportInv, OwedInv, Owes, Paid, AnsweredIntentsGetResult
<1>2. ReportInv /\ [Next]_vars => ReportInv'
  BY ReportStep
<1> QED
  BY <1>1, <1>2, ReportInit, PTL DEF Spec
=============================================================================
