----------------------------- MODULE MCPeerLab -----------------------------
(***************************************************************************)
(* Small instances of the tool chains of the peer mesh.                    *)
(***************************************************************************)
EXTENDS PeerLab, TLC

CONSTANTS t1, t2

\* The round: four agents in a ring with ways back and a short cut.
RingLinks == SUBSET {<<1, 2>>, <<2, 3>>, <<3, 4>>, <<4, 1>>, <<2, 1>>, <<3, 2>>, <<1, 3>>}
MCBeatSets == {1 .. 4, 2 .. 4}

\* The file drop: two messages whose file names have the same segment.
MCSegment == [m \in Messages |-> "m1"]
Outcome(k, t, r) == k :> [target |-> t, result |-> r]
MCOutcomes ==
  {<<>>} \cup {Outcome(<<1, "m1">>, "r1", r) : r \in {"simulated_copied", "simulated_duplicate",
                                                      "simulated_write_blocked"}}
         \cup {Outcome(<<2, "m2">>, t, "simulated_copied") : t \in Targets}
Envelope(f, m, s) == [found |-> f, message |-> m, sender |-> s]
Entry(k, i, t, p, e) ==
  [receiver |-> t, entries |-> k :> [path |-> Path(i, t, k[2]), presence |-> p, envelope |-> e]]
MCManifests ==
  {Entry(<<1, "m1">>, "i1", "r1", p, Envelope("envelope", "m1", Source)) : p \in Presences}
  \cup {Entry(<<1, "m1">>, "i1", "r1", "simulated_present", e) :
          e \in {Envelope("envelope", "m2", Source), Envelope("envelope", "m1", NoDir),
                 Envelope("broken", "m1", Source), Envelope("nothing", "m1", Source)}}
  \cup {Entry(<<2, "m2">>, i, t, "simulated_present", Envelope("envelope", "m2", Source)) :
          i \in Inboxes, t \in Targets}
MCPlans == {[d \in Deliveries |-> [target |-> "r1", message |-> IF d = 1 THEN "m1" ELSE "m2",
                                   state |-> "pending"]]}
MCRoutes == {[t \in Targets |-> [mode |-> "file_drop_simulator", dir |-> "i1"]]}

\* The reports: two routes, and labs that score different reports.
Route(a, b) == t1 :> a @@ t2 :> b
MCFirstRoutes == {Route("healthy", "healthy")}
MCLaterRoutes == {Route("unavailable", "healthy"), Route("unknown", "healthy"), Route("none", "healthy")}

BundleLab ==
  [kinds |-> {"route_history_report", "readiness_report", "topology_report", "lab_bundle_report"},
   readiness |-> [allowed_last_statuses |-> {"healthy", "degraded"},
                  acceptable_trends |-> {"stable", "improving", "single_sample"},
                  require_no |-> {"unavailable"}, require_no_worsening_routes |-> TRUE,
                  min_history_reports |-> 1, min_tracked_routes |-> 1,
                  operator_approval_required |-> FALSE],
   topology |-> [expected_targets |-> Peers, require_all_expected_routes |-> FALSE,
                 min_healthy_route_count |-> 1, min_reachable_agent_count |-> 1,
                 require_no_unhealthy_routes |-> FALSE],
   bundle |-> [approval |-> "recorded"],
   trust |-> [require_trusted_bundle_status |-> TRUE, allowed_agent_ids |-> Peers,
              samples_trusted |-> TRUE, operator_review_required |-> FALSE],
   rehearsal |-> [required_lab_bundle_statuses |-> {"synthetic_ready", "manual_review"},
                  required_trust_statuses |-> {"trusted", "manual_review"}, review |-> "recorded"],
   evidence |-> [required |-> {"rehearsal_report"}, optional |-> {"trust_report"},
                 paths |-> {"rehearsal_report", "trust_report"}, require_rehearsal_ready |-> TRUE],
   cleanup_status |-> "completed",
   scorecard |-> [required |-> {"lab_bundle_report"}, optional |-> {"route_health_report"},
                  paths |-> {"lab_bundle_report", "route_health_report"}],
   regression |-> [min_report_count |-> 1, allow_single_sample_review |-> FALSE,
                   allow_manual_review_history |-> TRUE, require_non_worsening_overall |-> TRUE,
                   max_new |-> 1, max_worsening |-> 1, max_persistent |-> 1,
                   max_last_blocked |-> 1, max_last_missing |-> 1],
   foreign |-> {}]

\* All reports, and a worsening trend is accepted.
EvidenceLab ==
  [BundleLab EXCEPT
     !.kinds = Kinds,
     !.readiness.require_no_worsening_routes = FALSE,
     !.readiness.acceptable_trends = {"stable", "single_sample", "worsening"},
     !.scorecard = [required |-> {"evidence_intake_report", "cleanup_record"}, optional |-> {},
                    paths |-> {"evidence_intake_report", "cleanup_record"}],
     !.regression.max_persistent = 0]

\* One peer is not trusted; the artifact that a scorecard names may have no path.
TrustLab ==
  [BundleLab EXCEPT
     !.kinds = @ \cup {"trust_report"},
     !.scorecard = [required |-> {"trust_report", "route_history_report"}, optional |-> {"rehearsal_report"},
                    paths |-> {"trust_report", "route_history_report"}],
     !.trust.allowed_agent_ids = {t2}]

\* Nothing is judged on the way to an intake that looks at the routes itself.
LenientLab ==
  [EvidenceLab EXCEPT
     !.kinds = {"route_history_report", "evidence_intake_report"},
     !.evidence = [required |-> {"route_health_report"}, optional |-> {"route_history_report", "cleanup_record"},
                   paths |-> {"route_health_report", "route_history_report", "cleanup_record"},
                   require_rehearsal_ready |-> FALSE],
     !.regression.min_report_count = 2, !.regression.allow_single_sample_review = TRUE]

\* The topology report is of another fleet, and an artifact of the intake has no path.
ForeignLab ==
  [BundleLab EXCEPT
     !.foreign = {"topology_report"},
     !.kinds = @ \cup {"evidence_intake_report"},
     !.topology.require_all_expected_routes = TRUE,
     !.evidence = [required |-> {"cleanup_record"}, optional |-> {"trust_report"},
                   paths |-> {"cleanup_record"}, require_rehearsal_ready |-> TRUE],
     !.cleanup_status = "not_started",
     !.scorecard.optional = {}]

MCLabs == {BundleLab, EvidenceLab, TrustLab, LenientLab, ForeignLab}

\* The private chain: a slot that may be published and one that may not.
Slot(k, r) == [kind |-> k, required |-> r]
Rule(r, s) == [release |-> r, schema |-> s]
MCSlotSets == {"s1" :> Slot("receipt", TRUE),
               "s1" :> Slot("receipt", TRUE) @@ "s2" :> Slot("approval", FALSE)}
MCRuleSets == {"receipt" :> Rule("sanitized_derivative_only", "v1"),
               "receipt" :> Rule("sanitized_derivative_only", "v1") @@ "approval" :> Rule("private_only", NoSchema),
               "receipt" :> Rule("private_only", NoSchema) @@ "approval" :> Rule("sanitized_derivative_only", "v1")}
=============================================================================
