---------------------------- MODULE PeerDelivery ----------------------------
(***************************************************************************)
(* The sender's side of the peer mesh beside the receivers of PeerGossip:  *)
(* the delivery state of one source agent and the tools that read it, plan *)
(* with it and write it back (tools/peer_mesh_delivery.py, _dispatch_plan, *)
(* _retry_plan, _send_dry_run, _route_health).                             *)
(*                                                                         *)
(* Each tool is one run over files: the delivery state, the receipts that  *)
(* came back and the reports.  Between two runs time passes, messages      *)
(* travel and other tools run, so a report is as old as its inputs, and a  *)
(* receipt is applied when someone applies it.  A tool judges by a time it *)
(* is given (--now, or the one in its policy or outcomes file), which need *)
(* not be the clock's.  Deliveries are numbered as in the file.            *)
(***************************************************************************)
EXTENDS PeerGossip, FiniteSets

CONSTANTS Deliveries,
          Target, Message,         (* whereto, and what, each delivery brings *)
          ExpiresAt,
          Route,                   (* transport_mode of each configured route, or NoRoute *)
          NoRoute,
          max_attempts,            (* the retry policy, with a whole multiplier *)
          min_retry_delay_seconds, max_retry_delay_seconds, backoff_multiplier,
          Retryable,               (* of the errors a delivery may show *)
          Never, NoReport,
          MaxOperations,           (* bound on the tools' runs and the requests together *)
          MaxReceipts              (* bound on the receipts that come back *)

Errors == {"none", "no_response", "rejected", "repeated", "expired"}

ASSUME DeliveryConstants ==
    \* The file has a last delivery.
    /\ Deliveries \subseteq Nat
    /\ Deliveries # {} => \E last \in Deliveries : \A d \in Deliveries : d <= last
    /\ Target \in [Deliveries -> Agents] /\ Message \in [Deliveries -> Envelopes]
    /\ ExpiresAt \in [Deliveries -> Nat]
    /\ Route \in [Agents -> {"loopback_http_simulator", "file_drop_simulator", "disabled",
                             NoRoute}]
    /\ max_attempts \in Nat \ {0} /\ backoff_multiplier \in Nat \ {0}
    /\ min_retry_delay_seconds \in Nat
    /\ max_retry_delay_seconds \in Nat /\ min_retry_delay_seconds <= max_retry_delay_seconds
    /\ Retryable \subseteq Errors
    /\ Never \notin Nat /\ MaxOperations \in Nat /\ MaxReceipts \in Nat
    \* A delivery is found by its target and message id.
    /\ \A d, f \in Deliveries :
          Target[d] = Target[f] /\ Message[d].message_id = Message[f].message_id => d = f

VARIABLES deliveries,     (* the delivery state file *)
          receipts,       (* what targets answered, and was seen *)
          send_report, retry_plan, route_health,   (* the reports last written *)
          runs

deliveryVars == <<deliveries, receipts, send_report, retry_plan, route_health, runs>>
meshVars == <<gossipVars, deliveryVars>>

Answers == {"accepted", "duplicate", "rejected"}
DELIVERY_STATES == {"pending", "expired"} \cup Answers
TERMINAL_STATES == {"expired"} \cup Answers
DispatchDecisions == {"ready", "skipped_terminal", "expired", "missing_route",
                      "route_disabled"}
RetryDecisions == {"due_now", "waiting_backoff", "max_attempts_reached",
                   "non_retryable_error", "expired", "terminal"}
ROUTE_STATUSES == {"healthy", "degraded", "unavailable", "disabled", "unknown"}

Delivery == [state : DELIVERY_STATES, attempt_count : Nat,
             last_attempt_at : Nat \cup {Never}, last_error : Errors]
Receipt == [delivery : Deliveries, outcome : Answers, observed_at : Nat]
SendAction == [decision : DispatchDecisions,
               outcome : Answers \cup {"no_response", "not_sent"},
               delivery_state_after : DELIVERY_STATES]
Retry == [decision : RetryDecisions, delivery_state : DELIVERY_STATES]

Configured == {n \in Agents : Route[n] # NoRoute}

MeshInit ==
    /\ GossipInit
    /\ deliveries = [d \in Deliveries |-> [state |-> "pending", attempt_count |-> 0,
                        last_attempt_at |-> Never, last_error |-> "none"]]
    /\ receipts = {}
    /\ send_report = NoReport /\ retry_plan = NoReport /\ route_health = NoReport
    /\ runs = 0

MeshTypeOK ==
    /\ GossipTypeOK
    /\ deliveries \in [Deliveries -> Delivery]
    /\ receipts \subseteq Receipt
    /\ send_report = NoReport \/ send_report \in [Deliveries -> SendAction]
    /\ retry_plan = NoReport \/ retry_plan \in [Deliveries -> Retry]
    /\ route_health = NoReport
       \/ route_health \in [Configured -> ROUTE_STATUSES]
    /\ runs \in Nat

-----------------------------------------------------------------------------
(* What the tools compute from the delivery state, judged at some time.    *)

Times == 0 .. MaxTime

\* expire_pending.
Expired(ds, at) ==
    [d \in Deliveries |->
        IF ds[d].state = "pending" /\ ExpiresAt[d] <= at
        THEN [ds[d] EXCEPT !.state = "expired", !.last_error = "expired"]
        ELSE ds[d]]

\* With a bug: only what was accepted is left alone.
DispatchDecisionUnlessAccepted(d, at) ==
    LET state == Expired(deliveries, at)[d].state IN
    CASE state = "expired" -> "expired"
      [] state = "accepted" -> "skipped_terminal"
      [] OTHER -> IF Route[Target[d]] = "disabled" THEN "route_disabled" ELSE "ready"

\* build_dispatch_plan.
DispatchDecision(d, at) ==
    LET state == Expired(deliveries, at)[d].state
        route == Route[Target[d]]
    IN CASE state = "expired" -> "expired"
         [] state \in Answers -> "skipped_terminal"
         [] state = "pending" /\ route = NoRoute -> "missing_route"
         [] state = "pending" /\ route = "disabled" -> "route_disabled"
         [] OTHER -> "ready"

retry_delay_seconds(attempt_count) ==
    LET raw == min_retry_delay_seconds * backoff_multiplier ^ (attempt_count - 1)
    IN IF attempt_count = 0 THEN 0
       ELSE IF raw < max_retry_delay_seconds THEN raw ELSE max_retry_delay_seconds

Due(delivery, at) ==
    \/ delivery.last_attempt_at = Never
    \/ delivery.last_attempt_at + retry_delay_seconds(delivery.attempt_count) <= at

RetryDecisionOf(delivery, at) ==
    CASE delivery.state = "expired" -> "expired"
      [] delivery.state \in Answers -> "terminal"
      [] OTHER -> IF delivery.attempt_count >= max_attempts THEN "max_attempts_reached"
                  ELSE IF delivery.last_error \notin Retryable \cup {"none"}
                       THEN "non_retryable_error"
                  ELSE IF Due(delivery, at) THEN "due_now" ELSE "waiting_backoff"

\* With a bug: the deliveries are read as the file has them.
RetryDecisionAsStored(d, at) == RetryDecisionOf(deliveries[d], at)

\* build_retry_plan.
RetryDecision(d, at) == RetryDecisionOf(Expired(deliveries, at)[d], at)

\* An attempt is counted, whatever came of it.
Attempted(delivery, state, error, at) ==
    [state |-> state, attempt_count |-> delivery.attempt_count + 1,
     last_attempt_at |-> at, last_error |-> error]

\* With a bug: a missing response becomes a state of the delivery.
AfterOutcomeAsState(delivery, outcome, at) == Attempted(delivery, outcome, "none", at)

\* apply_receipt, apply_error and record_no_response.
AfterOutcome(delivery, outcome, at) ==
    CASE outcome = "accepted" -> Attempted(delivery, "accepted", "none", at)
      [] outcome = "duplicate" -> Attempted(delivery, "duplicate", "repeated", at)
      [] outcome = "rejected" -> Attempted(delivery, "rejected", "rejected", at)
      [] outcome = "no_response" -> Attempted(delivery, delivery.state, "no_response", at)

-----------------------------------------------------------------------------
(* The tools that write the delivery state.                                *)

Run == requests + runs < MaxOperations /\ runs' = runs + 1

\* A delivery was posted to its target, and the answer of the thread that handled
\* it is seen.  It may be over by now: the plan can be an old one.  When the
\* request or the answer is lost there is no receipt, and the target may have
\* received the message all the same.
Post(d) ==
    /\ Route[Target[d]] \notin {NoRoute, "disabled"} /\ Target[d] \in Nodes
    /\ LET Answer(outcome) ==
              receipts' = receipts \cup
                 {[delivery |-> d, outcome |-> outcome, observed_at |-> clock]}
       IN \E h \in Handlers :
          /\ handlers[h] # Idle
          /\ handlers[h].node = Target[d] /\ handlers[h].request = Message[d]
          /\ \/ Answer("accepted") /\ Record(h)
             \/ Answer("duplicate") /\ Repeats(h)
             \/ Answer("rejected") /\ Refuses(h)
    /\ Cardinality(receipts') <= MaxReceipts
    /\ UNCHANGED <<deliveries, send_report, retry_plan, route_health, runs>>

\* apply-receipt and apply-error: any receipt, in any order, again or never, and
\* whatever state the delivery is in by now.
Apply(r) ==
    /\ Run
    /\ deliveries' = [deliveries EXCEPT ![r.delivery] =
                          AfterOutcome(@, r.outcome, r.observed_at)]
    /\ UNCHANGED <<gossipVars, receipts, send_report, retry_plan, route_health>>

Expire ==
    /\ Run
    /\ \E at \in Times : deliveries' = Expired(deliveries, at)
    /\ UNCHANGED <<gossipVars, receipts, send_report, retry_plan, route_health>>

\* What the outcomes file may say of a delivery.
Outcomes(d) == {r.outcome : r \in {q \in receipts : q.delivery = d}} \cup {"no_response"}

\* run_dry_run, with --state-output: every ready delivery gets its outcome.
SendDryRun ==
    /\ Run
    /\ \E outcome \in [Deliveries -> Answers \cup {"no_response"}], at \in Times :
       LET after == [d \in Deliveries |->
                        IF DispatchDecision(d, at) = "ready"
                        THEN AfterOutcome(Expired(deliveries, at)[d], outcome[d], at)
                        ELSE Expired(deliveries, at)[d]]
       IN /\ \A d \in Deliveries : outcome[d] \in Outcomes(d)
          /\ deliveries' = after
          /\ send_report' =
                [d \in Deliveries |->
                    [decision |-> DispatchDecision(d, at),
                     outcome |-> IF DispatchDecision(d, at) = "ready" THEN outcome[d]
                                 ELSE "not_sent",
                     delivery_state_after |-> after[d].state]]
    /\ UNCHANGED <<gossipVars, receipts, retry_plan, route_health>>

-----------------------------------------------------------------------------
(* The tools that only report.                                             *)

RetryPlan ==
    /\ Run
    /\ \E at \in Times :
          retry_plan' = [d \in Deliveries |->
                            [decision |-> RetryDecision(d, at),
                             delivery_state |-> Expired(deliveries, at)[d].state]]
    /\ UNCHANGED <<gossipVars, deliveries, receipts, send_report, route_health>>

Reached(state) == state \in {"accepted", "duplicate"}

GivenUp(retry) == retry.decision \in {"max_attempts_reached", "non_retryable_error",
                                      "expired"}

Retrying(retry) == retry.decision \in {"due_now", "waiting_backoff"}

\* With a bug: a delivery that is over counts as one that arrived.
StatusFromActionIfOver(action, retry) ==
    IF Reached(action.outcome) \/ action.delivery_state_after \in TERMINAL_STATES
    THEN "healthy" ELSE "degraded"

status_from_action(action, retry) ==
    CASE Reached(action.outcome) -> "healthy"
      [] action.outcome = "no_response" ->
            IF retry # NoReport /\ GivenUp(retry) THEN "unavailable" ELSE "degraded"
      [] action.outcome = "rejected" ->
            IF retry # NoReport /\ Retrying(retry) THEN "degraded" ELSE "unavailable"
      [] action.outcome = "not_sent" ->
            IF action.decision = "route_disabled" THEN "disabled"
            ELSE IF Reached(action.delivery_state_after) THEN "healthy"
            ELSE IF action.delivery_state_after \in {"rejected", "expired"}
                 THEN "unavailable" ELSE "unknown"

status_from_retry(retry) ==
    IF retry = NoReport THEN "unknown"
    ELSE IF Retrying(retry) THEN "degraded"
    ELSE IF GivenUp(retry) THEN "unavailable"
    ELSE IF Reached(retry.delivery_state) THEN "healthy" ELSE "unavailable"

\* latest_by_target: the last entry of a report that is about the target.
LatestFor(report, n) ==
    LET about == {d \in Deliveries : Target[d] = n} IN
    IF report = NoReport \/ about = {} THEN NoReport
    ELSE report[CHOOSE d \in about : \A f \in about : f <= d]

\* build_route_health_report, from the reports written last.
RouteHealth ==
    /\ Run
    /\ route_health' =
          [n \in Configured |->
              LET action == LatestFor(send_report, n)
                  retry == LatestFor(retry_plan, n)
              IN IF Route[n] = "disabled" THEN "disabled"
                 ELSE IF action # NoReport THEN status_from_action(action, retry)
                 ELSE status_from_retry(retry)]
    /\ UNCHANGED <<gossipVars, deliveries, receipts, send_report, retry_plan>>

MeshNext == \/ GossipNext /\ requests' + runs <= MaxOperations /\ UNCHANGED deliveryVars
            \/ \E d \in Deliveries : Post(d)
            \/ \E r \in receipts : Apply(r)
            \/ Expire \/ SendDryRun \/ RetryPlan \/ RouteHealth

MeshSpec == MeshInit /\ [][MeshNext]_meshVars
-----------------------------------------------------------------------------
(* Properties.                                                             *)

\* A delivery is recorded as accepted or as a duplicate only if its target has
\* merged this very envelope, in this life of the target or an earlier one.
AcceptedWasApplied ==
    \A d \in Deliveries :
       Reached(deliveries[d].state) =>
          Target[d] \in Nodes /\ Message[d] \in ever_applied[Target[d]]

\* A route that is reported healthy has brought its target an envelope of the
\* source, however old the reports behind it are.
HealthyRouteDelivered ==
    route_health # NoReport =>
       \A n \in DOMAIN route_health :
          route_health[n] = "healthy" =>
             \E d \in Deliveries : /\ Target[d] = n /\ n \in Nodes
                                    /\ Message[d] \in ever_applied[n]

\* The two plans made of one delivery state for one time do not contradict each
\* other about what is still to be sent, whatever that time is.
PlannersAgree ==
    \A d \in Deliveries, at \in Times :
       /\ DispatchDecision(d, at) = "expired" <=> RetryDecision(d, at) = "expired"
       /\ DispatchDecision(d, at) = "skipped_terminal" <=> RetryDecision(d, at) = "terminal"

\* A delivery that was answered is not sent again, expired or made pending by any
\* tool: all that can change it is a receipt that did come back from its target.
AnsweredIsNotSent ==
    [][\A d \in Deliveries :
          deliveries[d].state \in Answers /\ deliveries'[d] # deliveries[d] =>
             \E r \in receipts :
                /\ r.delivery = d /\ deliveries'[d].state = r.outcome
                /\ deliveries'[d].last_attempt_at = r.observed_at]_meshVars
=============================================================================
