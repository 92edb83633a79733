------------------------- MODULE AtMostOnceDelivery -------------------------
(***************************************************************************)
(* What the fleet controller promises about idempotency keys, with no      *)
(* queue, clock or index in sight.  A slot is one idempotency key of one   *)
(* target agent.  A slot is "free", "held" by an accepted command that     *)
(* waits for its agent, or "spent" once a command was handed over.  A held *)
(* slot may lapse (the waiting command expired) and be free again; a spent *)
(* slot stays spent.                                                       *)
(***************************************************************************)
CONSTANTS Slots,    (* the (agent, idempotency key) pairs *)
          Tokens    (* what tells two accepted commands of a slot apart *)

VARIABLES slot,     (* [Slots -> {"free", "held", "spent"}] *)
          handed    (* the <<slot, token>> pairs given to an agent so far *)

vars == <<slot, handed>>

Init == /\ slot = [s \in Slots |-> "free"]
        /\ handed = {}

\* A command is accepted for a slot nobody occupies.
Accept(s) == /\ slot[s] = "free"
             /\ slot' = [slot EXCEPT ![s] = "held"]
             /\ UNCHANGED handed

\* A poll hands over nothing, but slots in "lapsed" are found expired.
PollEmpty(lapsed) ==
    /\ slot' = [s \in Slots |-> IF s \in lapsed THEN "free" ELSE slot[s]]
    /\ UNCHANGED handed

\* A poll hands over one waiting command and drops the expired ones.
PollOne(lapsed, s, token) ==
    /\ slot[s] = "held"
    /\ s \notin lapsed
    /\ slot' = [t \in Slots |-> IF t \in lapsed THEN "free"
                                ELSE IF t = s THEN "spent" ELSE slot[t]]
    /\ handed' = handed \cup {<<s, token>>}

Held == {s \in Slots : slot[s] = "held"}

Next == \/ \E s \in Slots : Accept(s)
        \/ \E lapsed \in SUBSET Held :
              \/ PollEmpty(lapsed)
              \/ \E s \in Slots, token \in Tokens : PollOne(lapsed, s, token)

Spec == Init /\ [][Next]_vars

\* A slot is never served twice.
AtMostOnce == \A x, y \in handed : x[1] = y[1] => x = y
=============================================================================
