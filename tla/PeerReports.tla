---------------------------- MODULE PeerReports ----------------------------
(***************************************************************************)
(* The report pipeline of the peer mesh: route health, its history, the    *)
(* readiness and topology reports, the lab bundle, the trust gate, the     *)
(* rehearsal, the evidence intake, the scorecard with its history and the  *)
(* regression gate.                                                        *)
(*                                                                         *)
(* Each tool is one run: it reads the files that are there and writes its  *)
(* report over the last one.  No tool compares the ages of what it reads,  *)
(* so the reports it joins may have been made of different states of the   *)
(* routes; a tool whose inputs are not there, or are of another fleet and  *)
(* not to be judged, stops without a trace.                                *)
(***************************************************************************)
EXTENDS Integers, Sequences, FiniteSets

CONSTANTS Peers,       \* the agents that source_agent_id may have routes to
          Labs,          \* the policies and manifests a lab may work with
          FirstRoutes,   \* the routes at the beginning
          LaterRoutes,   \* what the routes may become
          MaxChanges,    \* bound: changes of the routes
          MaxHealths,    \* bound: route-health reports that are kept
          MaxScorecards, \* bound: scorecards that are kept
          Missing

VARIABLES lab,        \* policies and manifests, and the kinds of reports it makes
          route_status, \* status of each configured route, "none" without one
          changes,
          healths,    \* the route-health reports, oldest first
          report,     \* the report of each kind that was last written
          scorecards, \* the scorecards, oldest first
          ledger,     \* the scorecard history
          gate        \* the regression report

reportVars == <<lab, route_status, changes, healths, report, scorecards, ledger, gate>>

RouteStatuses == {"healthy", "degraded", "unavailable", "disabled", "unknown"}
Bad == {"unavailable", "unknown"}

Kinds == {"route_history_report", "readiness_report", "topology_report", "lab_bundle_report",
          "trust_report", "rehearsal_report", "evidence_intake_report"}
ScoredKinds == (Kinds \ {"topology_report"}) \cup {"route_health_report", "cleanup_record"}
EvidenceKinds == {"rehearsal_report", "trust_report", "route_health_report",
                  "route_history_report", "cleanup_record"}

ASSUME ReportsAssumption ==
  /\ FirstRoutes \cup LaterRoutes \subseteq [Peers -> RouteStatuses \cup {"none"}]
  /\ MaxChanges \in Nat /\ MaxHealths \in Nat /\ MaxScorecards \in Nat
  /\ \A l \in Labs :
       /\ l.scorecard.required \cup l.scorecard.optional \subseteq ScoredKinds
       /\ l.scorecard.required \cap l.scorecard.optional = {}
       /\ l.evidence.required \cup l.evidence.optional \subseteq EvidenceKinds

ReportsInit ==
  /\ lab \in Labs
  /\ route_status \in FirstRoutes /\ changes = 0
  /\ healths = <<>> /\ scorecards = <<>>
  /\ report = [k \in Kinds |-> Missing]
  /\ ledger = Missing /\ gate = Missing

Last(s) == s[Len(s)]

\* overall_status of every tool: a failed check outweighs one for a person.
Verdict(failed, manual, no, yes) ==
  IF failed THEN no ELSE IF manual THEN "manual_review" ELSE yes

\* Every report but the first ones has a status.  What is kept with it is no part
\* of the file: whether what it was judged by rests on a route that was last
\* seen unavailable or unknown.
Judged(status, shaky) == [status |-> status, shaky |-> shaky]

WriteReport(kind, r) ==
  /\ kind \in lab.kinds
  /\ report' = [report EXCEPT ![kind] = r]
  /\ UNCHANGED <<lab, route_status, changes, healths, scorecards, ledger, gate>>

There(kinds) == \A k \in kinds : report[k] # Missing

\* The files that are of another fleet, source or experiment than the manifests.
Foreign(kind) == kind \in lab.foreign

---------------------------------------------------------------------------
(* Route health and its history.                                           *)

Configured == {t \in Peers : route_status[t] # "none"}

ChangeRoutes(new) ==
  /\ changes < MaxChanges /\ changes' = changes + 1
  /\ route_status' = new
  /\ UNCHANGED <<lab, healths, report, scorecards, ledger, gate>>

BuildHealth ==
  /\ Len(healths) < MaxHealths
  /\ healths' = Append(healths, [routes |-> [t \in Configured |-> route_status[t]]])
  /\ UNCHANGED <<lab, route_status, changes, report, scorecards, ledger, gate>>

RouteScore == [disabled |-> 0, unavailable |-> 1, unknown |-> 2, degraded |-> 3, healthy |-> 4]

\* trend_for
TrendOf(statuses, score) ==
  LET first == score[statuses[1]]  last == score[Last(statuses)] IN
  IF Len(statuses) = 1 THEN "single_sample"
  ELSE IF \A i \in DOMAIN statuses : statuses[i] = statuses[1] THEN "stable"
  ELSE IF last > first THEN "improving" ELSE IF last < first THEN "worsening" ELSE "mixed"

\* The tools of the histories are given some of the reports that are kept, one of
\* them perhaps repeatedly, and sort them by age.
Picks(kept, n) == {p \in UNION {[1 .. i -> 1 .. n] : i \in 1 .. n} :
                     /\ \A i \in DOMAIN p : p[i] \in DOMAIN kept
                     /\ \A i, j \in DOMAIN p : i < j => p[i] <= p[j]}

RouteHistory(picked) ==
  LET samples(t) == LET s == SelectSeq(picked, LAMBDA i : t \in DOMAIN healths[i].routes)
                    IN [i \in DOMAIN s |-> healths[s[i]].routes[t]]
      tracked == {t \in Peers : samples(t) # <<>>}
      last == [t \in tracked |-> Last(samples(t))]
  IN [count |-> Len(picked), last |-> last,
      trend |-> [t \in tracked |-> TrendOf(samples(t), RouteScore)],
      shaky |-> \E t \in tracked : last[t] \in Bad]

BuildRouteHistory(picked) ==
  /\ ~Foreign("route_health_report")
  /\ WriteReport("route_history_report", RouteHistory(picked))

---------------------------------------------------------------------------
(* Readiness and topology.                                                 *)

\* route_review
RouteReady(history, t) ==
  /\ history.last[t] \in lab.readiness.allowed_last_statuses
  /\ history.trend[t] \in lab.readiness.acceptable_trends
  /\ lab.readiness.require_no_worsening_routes => history.trend[t] # "worsening"

\* Of require_no_unavailable_routes and its like the policy has a set.
Readiness(history) ==
  LET tracked == DOMAIN history.last
      failed == \/ history.count < lab.readiness.min_history_reports
                \/ Cardinality(tracked) < lab.readiness.min_tracked_routes
                \/ \E t \in tracked : \/ history.last[t] \in lab.readiness.require_no
                                      \/ ~RouteReady(history, t)
  IN Judged(Verdict(failed, lab.readiness.operator_approval_required, "not_ready", "ready"),
            history.shaky)

BuildReadiness ==
  /\ There({"route_history_report"}) /\ ~Foreign("route_history_report")
  /\ WriteReport("readiness_report", Readiness(report["route_history_report"]))

\* reachability_for: what the report says of a route that is configured now.
Reachability(health, t) ==
  IF t \notin Configured THEN "missing_route"
  ELSE IF t \notin DOMAIN health.routes THEN "missing_health" ELSE health.routes[t]

Topology(health) ==
  LET expected == lab.topology.expected_targets
      edges(statuses) == {t \in expected : Reachability(health, t) \in statuses}
      reachable == Cardinality(edges({"healthy"}))
      failed == \/ Foreign("route_config") \/ Foreign("route_health_report")
                \/ lab.topology.require_all_expected_routes /\ edges({"missing_route"}) # {}
                \/ reachable < lab.topology.min_healthy_route_count
                \/ 1 + reachable < lab.topology.min_reachable_agent_count
                \/ lab.topology.require_no_unhealthy_routes /\ edges({"healthy"}) # expected
  IN Judged(Verdict(failed, edges({"healthy"}) # expected, "topology_blocked", "topology_ready"),
            edges(Bad) # {})

BuildTopology ==
  /\ healths # <<>>
  /\ WriteReport("topology_report", Topology(Last(healths)))

---------------------------------------------------------------------------
(* The lab bundle, the trust gate and the rehearsal.                       *)

BundledKinds == {"route_config", "topology_report", "route_history_report", "readiness_report"}

\* With a bug: an approval that is recorded stands for a review of the topology.
BundleByApproval(topology, readiness) ==
  LET failed == \/ \E k \in BundledKinds : Foreign(k)
                \/ topology.status = "topology_blocked" \/ readiness.status = "not_ready"
  IN Judged(Verdict(failed, lab.bundle.approval = "required", "blocked", "synthetic_ready"),
            topology.shaky \/ readiness.shaky)

\* Of the route history beside them only the form and the fleet are checked.
Bundle(topology, readiness) ==
  LET failed == \/ \E k \in BundledKinds : Foreign(k)
                \/ topology.status = "topology_blocked" \/ readiness.status = "not_ready"
      manual == \/ "manual_review" \in {topology.status, readiness.status}
                \/ lab.bundle.approval = "required"
  IN Judged(Verdict(failed, manual, "blocked", "synthetic_ready"),
            topology.shaky \/ readiness.shaky)

BuildBundle ==
  /\ There(BundledKinds \ {"route_config"})
  /\ WriteReport("lab_bundle_report", Bundle(report["topology_report"], report["readiness_report"]))

\* route_reviews and the checks that rest on them; the samples of gossip envelopes
\* are enough and all of them are within the policy, or not.
Trust(bundle) ==
  LET judge == lab.trust.require_trusted_bundle_status
      failed == \/ Foreign("route_config") \/ Foreign("lab_bundle_report")
                \/ judge /\ bundle.status = "blocked"
                \/ ~(Configured \subseteq lab.trust.allowed_agent_ids)
                \/ ~lab.trust.samples_trusted
      manual == \/ judge /\ bundle.status = "manual_review"
                \/ lab.trust.operator_review_required
  IN Judged(Verdict(failed, manual, "untrusted", "trusted"), bundle.shaky)

BuildTrust ==
  /\ There({"lab_bundle_report"})
  /\ WriteReport("trust_report", Trust(report["lab_bundle_report"]))

\* preflight_checks; the phases repeat them.
Rehearsal(bundle, trust) ==
  LET failed == \/ \E k \in {"lab_bundle_report", "trust_report"} : Foreign(k)
                \/ bundle.status \notin lab.rehearsal.required_lab_bundle_statuses
                \/ trust.status \notin lab.rehearsal.required_trust_statuses
      manual == \/ "manual_review" \in {bundle.status, trust.status}
                \/ lab.rehearsal.review = "required"
  IN Judged(Verdict(failed, manual, "blocked", "rehearsal_ready"), bundle.shaky \/ trust.shaky)

BuildRehearsal ==
  /\ There({"lab_bundle_report", "trust_report"})
  /\ WriteReport("rehearsal_report", Rehearsal(report["lab_bundle_report"], report["trust_report"]))

---------------------------------------------------------------------------
(* The evidence intake.                                                    *)

\* load_artifacts_from_manifest: a path without a file stops a tool.
Found(kinds) ==
  /\ There(kinds \cap Kinds)
  /\ "route_health_report" \in kinds => healths # <<>>

\* The routes that a report or a history shows as unavailable or unknown.
HealthHas(status) == \E t \in DOMAIN Last(healths).routes : Last(healths).routes[t] = status
HistoryHas(status) ==
  LET last == report["route_history_report"].last IN \E t \in DOMAIN last : last[t] = status

Evidence(kind) ==
  CASE Foreign(kind) -> "rejected"
    [] ~Foreign(kind) /\ kind = "rehearsal_report" ->
         IF ~lab.evidence.require_rehearsal_ready THEN "accepted"
         ELSE CASE report[kind].status = "manual_review" -> "manual_review"
                [] report[kind].status = "rehearsal_ready" -> "accepted"
                [] OTHER -> "rejected"
    [] ~Foreign(kind) /\ kind = "trust_report" ->
         CASE report[kind].status = "manual_review" -> "manual_review"
           [] report[kind].status = "untrusted" -> "rejected"
           [] OTHER -> "accepted"
    [] ~Foreign(kind) /\ kind = "route_health_report" ->
         IF HealthHas("unknown") THEN "manual_review" ELSE "accepted"
    [] ~Foreign(kind) /\ kind = "route_history_report" ->
         IF HistoryHas("unknown") THEN "manual_review" ELSE "accepted"
    [] ~Foreign(kind) /\ kind = "cleanup_record" ->
         IF lab.cleanup_status = "completed" THEN "accepted" ELSE "manual_review"

\* Whether what the report of a kind was judged by rests on a bad route.
Shaky(kind) ==
  CASE kind \in Kinds -> report[kind].shaky
    [] kind = "route_health_report" -> \E s \in Bad : HealthHas(s)
    [] kind = "cleanup_record" -> FALSE

\* Without a path a required artifact is missing, an optional one is for a person.
BuildEvidence ==
  LET m == lab.evidence
      listed == (m.required \cup m.optional) \cap m.paths
      failed == m.required \ m.paths # {} \/ \E k \in listed : Evidence(k) = "rejected"
      manual == m.optional \ m.paths # {} \/ \E k \in listed : Evidence(k) = "manual_review"
  IN /\ Found(listed)
     /\ WriteReport("evidence_intake_report",
              Judged(Verdict(failed, manual, "rejected", "accepted"), \E k \in listed : Shaky(k)))

---------------------------------------------------------------------------
(* Scorecards.                                                             *)

ReadyStatus == [readiness_report |-> "ready", lab_bundle_report |-> "synthetic_ready",
                trust_report |-> "trusted", rehearsal_report |-> "rehearsal_ready",
                evidence_intake_report |-> "accepted"]

\* status_from_artifact
ScoreOf(kind) ==
  CASE kind \in DOMAIN ReadyStatus ->
         CASE report[kind].status = ReadyStatus[kind] -> "synthetic_clear"
           [] report[kind].status = "manual_review" -> "manual_review"
           [] OTHER -> "blocked"
    [] kind = "route_health_report" ->
         Verdict(HealthHas("unavailable"), HealthHas("unknown"), "blocked", "synthetic_clear")
    [] kind = "route_history_report" ->
         LET trends == report[kind].trend IN
         Verdict(HistoryHas("unavailable") \/ \E t \in DOMAIN trends : trends[t] = "worsening",
                 HistoryHas("unknown"), "blocked", "synthetic_clear")
    [] kind = "cleanup_record" ->
         IF lab.cleanup_status = "completed" THEN "synthetic_clear" ELSE "manual_review"

Artifact(kind) ==
  IF kind \notin lab.scorecard.paths THEN "missing"
  ELSE IF Foreign(kind) THEN "blocked" ELSE ScoreOf(kind)

\* A required artifact that is missing blocks; an optional one is clear.
Scorecard(required, listed) ==
  LET artifacts == [k \in listed |-> Artifact(k)] IN
  [artifacts |-> artifacts,
   overall |-> Verdict(\E k \in listed : \/ artifacts[k] = "blocked"
                                         \/ artifacts[k] = "missing" /\ k \in required,
                       \E k \in listed : artifacts[k] = "manual_review",
                       "blocked", "synthetic_clear"),
   shaky |-> {k \in listed \cap lab.scorecard.paths : Shaky(k)}]

\* Some of the optional kinds may be left out of a manifest.
BuildScorecard(left) ==
  LET listed == (lab.scorecard.required \cup lab.scorecard.optional) \ left IN
  /\ Len(scorecards) < MaxScorecards
  /\ left \subseteq lab.scorecard.optional
  /\ Found(listed \cap lab.scorecard.paths)
  /\ scorecards' = Append(scorecards, Scorecard(lab.scorecard.required, listed))
  /\ UNCHANGED <<lab, route_status, changes, healths, report, ledger, gate>>

ClearScore == [missing |-> 0, blocked |-> 0, manual_review |-> 1, synthetic_clear |-> 2]

\* history_overall_status
LedgerStatus(last, trends, finals) ==
  LET has(f, statuses) == \E k \in DOMAIN f : f[k] \in statuses IN
  Verdict(\/ last.overall = "blocked" \/ has(trends, {"worsening"})
          \/ has(finals, {"blocked", "missing"}),
          \/ last.overall = "manual_review" \/ has(trends, {"mixed"})
          \/ has(finals, {"manual_review"}),
          "blocked", "synthetic_clear")

\* artifact_samples_for_reports: a kind that one of the scorecards has and another
\* has not is missing in the other.
Ledger(picked) ==
  LET cards == [i \in DOMAIN picked |-> scorecards[picked[i]]]
      kinds == UNION {DOMAIN cards[i].artifacts : i \in DOMAIN cards}
      samples(k) == [i \in DOMAIN cards |-> IF k \in DOMAIN cards[i].artifacts
                                            THEN cards[i].artifacts[k] ELSE "missing"]
      trends == [k \in kinds |-> TrendOf(samples(k), ClearScore)]
      firsts == [k \in kinds |-> samples(k)[1]]
      finals == [k \in kinds |-> Last(samples(k))]
      clear(s) == s = "synthetic_clear"
  IN [count |-> Len(cards), last |-> Last(cards),
      trend |-> TrendOf([i \in DOMAIN cards |-> cards[i].overall], ClearScore),
      overall |-> LedgerStatus(Last(cards), trends, finals),
      new |-> Cardinality({k \in kinds : Len(cards) > 1 /\ clear(firsts[k]) /\ ~clear(finals[k])}),
      worsening |-> Cardinality({k \in kinds : trends[k] = "worsening"}),
      persistent |-> Cardinality({k \in kinds : /\ ~clear(finals[k])
                                                /\ \/ Len(cards) = 1
                                                   \/ /\ ~clear(firsts[k])
                                                      /\ ClearScore[firsts[k]] = ClearScore[finals[k]]}),
      last_blocked |-> Cardinality({k \in DOMAIN Last(cards).artifacts : Last(cards).artifacts[k] = "blocked"}),
      last_missing |-> Cardinality({k \in DOMAIN Last(cards).artifacts : Last(cards).artifacts[k] = "missing"})]

BuildScorecardHistory(picked) ==
  /\ ledger' = Ledger(picked)
  /\ UNCHANGED <<lab, route_status, changes, healths, report, scorecards, gate>>

---------------------------------------------------------------------------
(* The regression gate.                                                    *)

Regression(h) ==
  LET p == lab.regression
      single == p.allow_single_sample_review /\ h.count = 1
      failed == \/ h.count < p.min_report_count /\ ~single
                \/ p.require_non_worsening_overall /\ h.trend = "worsening"
                \/ h.overall = "blocked"
                \/ h.overall = "manual_review" /\ ~p.allow_manual_review_history
                \/ h.new > p.max_new \/ h.worsening > p.max_worsening
                \/ h.persistent > p.max_persistent
                \/ h.last_blocked > p.max_last_blocked \/ h.last_missing > p.max_last_missing
      manual == \/ h.count < p.min_report_count
                \/ p.require_non_worsening_overall /\ h.trend = "mixed"
                \/ h.overall = "manual_review"
  IN Verdict(failed, manual, "regression_blocked", "regression_clear")

BuildRegression ==
  /\ ledger # Missing
  /\ gate' = [status |-> Regression(ledger), last |-> ledger.last]
  /\ UNCHANGED <<lab, route_status, changes, healths, report, scorecards, ledger>>

ReportsNext ==
  \/ \E new \in LaterRoutes : ChangeRoutes(new)
  \/ BuildHealth
  \/ \E picked \in Picks(healths, MaxHealths) : BuildRouteHistory(picked)
  \/ BuildReadiness \/ BuildTopology \/ BuildBundle \/ BuildTrust \/ BuildRehearsal
  \/ BuildEvidence
  \/ \E left \in SUBSET ScoredKinds : BuildScorecard(left)
  \/ \E picked \in Picks(scorecards, MaxScorecards) : BuildScorecardHistory(picked)
  \/ BuildRegression

ReportsSpec == ReportsInit /\ [][ReportsNext]_reportVars

---------------------------------------------------------------------------
(* Properties.                                                             *)

\* The policies under which a status stands for the routes beneath it.  The trust
\* gate and the rehearsal may be told not to judge the bundle, and the evidence
\* intake never looks at unavailable routes itself.
Strict ==
  /\ lab.readiness.allowed_last_statuses \cap Bad = {}
  /\ lab.trust.require_trusted_bundle_status
  /\ lab.rehearsal.required_lab_bundle_statuses \subseteq {"synthetic_ready", "manual_review"}
  /\ lab.rehearsal.required_trust_statuses \subseteq {"trusted", "manual_review"}
  /\ (lab.evidence.required \cup lab.evidence.optional)
       \cap {"route_health_report", "route_history_report"} = {}
  /\ lab.evidence.require_rehearsal_ready

\* Under every policy of the regression gate: when it is clear, every artifact of
\* the latest scorecard, the optional ones too, was there and clear; and under
\* strict policies none of them, through however many reports, rests on a route
\* that was last seen unavailable or unknown.
ClearRestsOnClear ==
  gate # Missing /\ gate.status = "regression_clear" =>
    \A k \in DOMAIN gate.last.artifacts :
      /\ gate.last.artifacts[k] = "synthetic_clear"
      /\ Strict => k \notin gate.last.shaky
=============================================================================
