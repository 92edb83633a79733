---------------------- MODULE AtMostOnceDeliveryProofs ----------------------
(***************************************************************************)
(* The promise of AtMostOnceDelivery, proved for any slots and tokens.     *)
(***************************************************************************)
EXTENDS AtMostOnceDelivery, TLAPS

\* A slot something was handed over from is spent, and only one was.
SpentForGood ==
    /\ slot \in [Slots -> {"free", "held", "spent"}]
    /\ \A x \in handed : x[1] \in Slots /\ slot[x[1]] = "spent"
    /\ AtMostOnce

\* A step hands over from a held slot only and frees held slots only, so what
\* was spent stays spent.
LEMMA SpentStep == SpentForGood /\ [Next]_vars => SpentForGood'
<1> SUFFICES ASSUME SpentForGood, [Next]_vars PROVE SpentForGood'
  OBVIOUS
<1>1. CASE \E s \in Slots : Accept(s)
  BY <1>1 DEF Accept, SpentForGood, AtMostOnce
<1>2. ASSUME NEW lapsed \in SUBSET Held, PollEmpty(lapsed)
      PROVE  SpentForGood'
  BY <1>2 DEF PollEmpty, Held, SpentForGood, AtMostOnce
<1>3. ASSUME NEW lapsed \in SUBSET Held, NEW s \in Slots, NEW token \in Tokens,
             PollOne(lapsed, s, token)
      PROVE  SpentForGood'
  <2>1. \A x \in handed : x[1] # s /\ x[1] \notin lapsed
    BY <1>3 DEF PollOne, Held, SpentForGood
  <2>2. /\ handed' = handed \cup {<<s, token>>}
        /\ \A t \in Slots : slot'[t] = IF t \in lapsed THEN "free"
                                       ELSE IF t = s THEN "spent" ELSE slot[t]
        /\ slot' \in [Slots -> {"free", "held", "spent"}]
        /\ s \notin lapsed
    BY <1>3 DEF PollOne, SpentForGood
  <2> QED
    BY <2>1, <2>2 DEF SpentForGood, AtMostOnce
<1>4. CASE UNCHANGED vars
  BY <1>4 DEF vars, SpentForGood, AtMostOnce
<1> QED
  BY <1>1, <1>2, <1>3, <1>4 DEF Next

\* No slot is served twice: with Refinement of FleetControlProofs, no agent is
\* given two commands with one idempotency key by next-command.
THEOREM ServedAtMostOnce == Spec => []AtMostOnce
<1>1. Init => SpentForGood
  BY DEF Init, SpentForGood, AtMostOnce
<1>2. SpentForGood => AtMostOnce
  BY DEF SpentForGood
<1> QED
  BY <1>1, <1>2, SpentStep, PTL DEF Spec
=============================================================================
