---------------------------- MODULE PeerFileDrop ----------------------------
(***************************************************************************)
(* The file-drop tools of the peer mesh: the staging report plans under    *)
(* which path each due envelope is to be dropped, the copy dry run goes    *)
(* through the plan with the outcomes that someone wrote down, and the     *)
(* intake of a receiver judges the files that its manifest declares        *)
(* (peer_mesh_file_drop_staging.py, _copy_dry_run.py, _inbox_intake.py).   *)
(*                                                                         *)
(* Each tool is one run over files.  Between two runs deliveries end or    *)
(* are planned anew and routes are changed, and any outcomes and any       *)
(* manifest may be put beside a report: they may have been written for an  *)
(* earlier one.  A tool whose inputs do not fit together stops without a   *)
(* trace.                                                                  *)
(***************************************************************************)
EXTENDS Naturals, FiniteSets

CONSTANTS Deliveries, Messages, Targets, Inboxes,
          Source,        \* source_agent_id
          Segment,       \* safe_segment of a message id
          OutcomeFiles,  \* the files of outcomes that may be on hand
          Manifests,     \* the intake manifests
          InitialPlans, InitialRoutes,
          NoDir, NoReport,
          MaxEdits       \* bound: changes of deliveries and routes

VARIABLES plan,      \* the delivery state file
          routes,    \* the route config file
          staging, copies, intake,   \* the reports last written
          edits,
          due        \* history: what was due by file drop when a staging was planned

dropVars == <<plan, routes, staging, copies, intake, edits, due>>

Modes == {"file_drop_simulator", "loopback_http_simulator", "disabled", "none"}
Routes == {r \in [mode : Modes, dir : Inboxes \cup {NoDir}] :
             r.mode = "file_drop_simulator" <=> r.dir # NoDir}
PlannedDeliveries == [target : Targets, message : Messages,
                      state : {"pending", "expired", "accepted"}]

\* staging_filename and relative_staging_path
Path(dir, target, message) == <<dir, Source, target, Segment[message]>>
NoPath == <<NoDir, Source, NoDir, NoDir>>

Results == {"simulated_copied", "simulated_duplicate", "simulated_missing_source",
            "simulated_write_blocked"}
Ready == {"simulated_copied", "simulated_duplicate"}
Presences == {"simulated_present", "simulated_duplicate_file", "simulated_missing_file",
              "simulated_unreadable_file", "simulated_invalid_envelope"}

\* What is at the envelope_path of a manifest entry.
Envelopes == [found : {"envelope", "broken", "nothing"}, message : Messages, sender : {Source, NoDir}]

Keys == Deliveries \X Messages

ASSUME FileDropAssumption ==
  /\ Segment \in [Messages -> Messages]
  /\ NoDir \notin Inboxes
  /\ InitialPlans \subseteq [Deliveries -> PlannedDeliveries]
  /\ InitialRoutes \subseteq [Targets -> Routes]
  /\ \A f \in OutcomeFiles : DOMAIN f \subseteq Keys
       /\ \A k \in DOMAIN f : f[k] \in [target : Targets, result : Results]
  /\ \A m \in Manifests : m.receiver \in Targets /\ DOMAIN m.entries \subseteq Keys
       /\ \A k \in DOMAIN m.entries :
            /\ m.entries[k].presence \in Presences
            /\ m.entries[k].envelope \in Envelopes
  /\ MaxEdits \in Nat

DropInit ==
  /\ plan \in InitialPlans /\ routes \in InitialRoutes
  /\ staging = NoReport /\ copies = NoReport /\ intake = NoReport
  /\ edits = 0 /\ due = {}

---------------------------------------------------------------------------
(* The staging report.                                                     *)

\* build_dispatch_plan
Decision(d) ==
  CASE plan[d].state = "expired" -> "expired"
    [] plan[d].state = "accepted" -> "skipped_terminal"
    [] plan[d].state = "pending" /\ routes[plan[d].target].mode = "none" -> "missing_route"
    [] plan[d].state = "pending" /\ routes[plan[d].target].mode = "disabled" -> "route_disabled"
    [] OTHER -> "ready"

StagedPath(d) == Path(routes[plan[d].target].dir, plan[d].target, plan[d].message)

\* With a bug: what has a file-drop route is planned whatever has become of it.
StageByRoute(d) ==
  LET planned == routes[plan[d].target].mode = "file_drop_simulator" IN
  [target |-> plan[d].target, message |-> plan[d].message,
   status |-> IF planned THEN "planned" ELSE "skipped_non_file_drop",
   path |-> IF planned THEN StagedPath(d) ELSE NoPath]

\* staging_entry
StagingEntry(d) ==
  LET status == CASE Decision(d) # "ready" -> "skipped_not_ready"
                  [] Decision(d) = "ready" /\ routes[plan[d].target].mode # "file_drop_simulator"
                       -> "skipped_non_file_drop"
                  [] OTHER -> "planned"
  IN [target |-> plan[d].target, message |-> plan[d].message, status |-> status,
      path |-> IF status = "planned" THEN StagedPath(d) ELSE NoPath]

StagingStatus(entries) ==
  IF \E d \in Deliveries : entries[d].status = "planned" THEN "ready" ELSE "manual_review"

BuildStaging ==
  LET entries == [d \in Deliveries |-> StagingEntry(d)] IN
  /\ staging' = [entries |-> entries, overall |-> StagingStatus(entries)]
  /\ due' = due \cup {[delivery |-> d, message |-> plan[d].message, target |-> plan[d].target,
                       path |-> StagedPath(d)] :
                        d \in {c \in Deliveries :
                                 /\ plan[c].state = "pending"
                                 /\ routes[plan[c].target].mode = "file_drop_simulator"}}
  /\ UNCHANGED <<plan, routes, copies, intake, edits>>

---------------------------------------------------------------------------
(* The copy dry run.                                                       *)

KeyOf(report, d) == <<d, report.entries[d].message>>
KeysOf(report) == {KeyOf(report, d) : d \in Deliveries}

\* copy_action; the outcomes name targets, never paths.
CopyAction(entry, outcomes, key) ==
  [target |-> entry.target, message |-> entry.message, path |-> entry.path,
   status |-> IF entry.status # "planned" THEN "not_planned"
              ELSE IF key \notin DOMAIN outcomes THEN "missing_outcome"
              ELSE outcomes[key].result]

CopyStatus(actions) ==
  LET has(statuses) == \E d \in Deliveries : actions[d].status \in statuses IN
  IF has({"simulated_missing_source", "simulated_write_blocked", "missing_outcome"})
  THEN "blocked" ELSE IF has(Ready) THEN "ready" ELSE "manual_review"

\* An outcome of a pair that is not in the plan, or of a planned one with another
\* target, stops the tool.
Matching(outcomes) ==
  /\ DOMAIN outcomes \subseteq KeysOf(staging)
  /\ \A d \in Deliveries :
       staging.entries[d].status = "planned" /\ KeyOf(staging, d) \in DOMAIN outcomes
         => outcomes[KeyOf(staging, d)].target = staging.entries[d].target

BuildCopyReport(outcomes) ==
  LET actions == [d \in Deliveries |-> CopyAction(staging.entries[d], outcomes, KeyOf(staging, d))] IN
  /\ staging # NoReport /\ Matching(outcomes)
  /\ copies' = [entries |-> actions, overall |-> CopyStatus(actions)]
  /\ UNCHANGED <<plan, routes, staging, intake, edits, due>>

---------------------------------------------------------------------------
(* The intake.                                                             *)

\* validate_envelope_for_entry; of another fleet is as good as broken.
Valid(envelope, message) ==
  envelope.found = "envelope" /\ envelope.message = message /\ envelope.sender = Source

IntakeStatus(entry, action, message) ==
  CASE action.status \notin Ready -> "not_copied"
    [] action.status \in Ready /\ entry.presence = "simulated_missing_file" -> "missing_file"
    [] action.status \in Ready /\ entry.presence = "simulated_unreadable_file" -> "unreadable_file"
    [] OTHER -> IF entry.envelope.found = "nothing" THEN "missing_file"
                ELSE IF \/ entry.presence = "simulated_invalid_envelope"
                        \/ ~Valid(entry.envelope, message) THEN "invalid_envelope"
                ELSE IF \/ entry.presence = "simulated_duplicate_file"
                        \/ action.status = "simulated_duplicate" THEN "duplicate_ignored"
                ELSE "accepted"

IntakeOverall(entries) ==
  LET has(statuses) == \E k \in DOMAIN entries : entries[k].status \in statuses IN
  IF has({"missing_file", "unreadable_file", "invalid_envelope", "not_copied"}) THEN "blocked"
  ELSE IF has({"accepted", "duplicate_ignored"}) THEN "ready" ELSE "manual_review"

\* A manifest of pairs that the copy report does not have, or has with another
\* target or path, stops the tool.
Fits(manifest) ==
  /\ DOMAIN manifest.entries \subseteq KeysOf(copies)
  /\ \A k \in DOMAIN manifest.entries :
       /\ copies.entries[k[1]].target = manifest.receiver
       /\ copies.entries[k[1]].path = manifest.entries[k].path

\* build_inbox_intake_report; what the report says is kept with what it was made of.
BuildIntake(manifest) ==
  LET Judged(k) == [delivery |-> k[1], message |-> k[2], target |-> manifest.receiver,
                    path |-> manifest.entries[k].path, envelope |-> manifest.entries[k].envelope,
                    status |-> IntakeStatus(manifest.entries[k], copies.entries[k[1]], k[2])]
      entries == [k \in DOMAIN manifest.entries |-> Judged(k)]
  IN /\ copies # NoReport /\ Fits(manifest)
     /\ intake' = [entries |-> entries, overall |-> IntakeOverall(entries)]
     /\ UNCHANGED <<plan, routes, staging, copies, edits, due>>

---------------------------------------------------------------------------
(* What else happens to the files: a delivery is answered or expires, its  *)
(* id is used again for another message, a route is changed.               *)

Edit(newPlan, newRoutes) ==
  /\ edits < MaxEdits /\ edits' = edits + 1
  /\ plan' = newPlan /\ routes' = newRoutes
  /\ UNCHANGED <<staging, copies, intake, due>>

EditDelivery == \E d \in Deliveries, p \in PlannedDeliveries :
                  Edit([plan EXCEPT ![d] = p], routes)

EditRoute == \E t \in Targets, r \in Routes : Edit(plan, [routes EXCEPT ![t] = r])

DropNext ==
  \/ BuildStaging
  \/ \E outcomes \in OutcomeFiles : BuildCopyReport(outcomes)
  \/ \E manifest \in Manifests : BuildIntake(manifest)
  \/ EditDelivery \/ EditRoute

DropSpec == DropInit /\ [][DropNext]_dropVars

---------------------------------------------------------------------------
(* Properties.                                                             *)

\* Whatever the intake takes for delivered, and for what path, was due over a
\* file drop to this target when a staging was planned, and the file is the
\* source's own envelope of that message: however old the report, the outcomes
\* and the manifest are, and however the deliveries and routes have changed.
AcceptedWasStaged ==
  intake # NoReport =>
    \A k \in DOMAIN intake.entries :
      LET e == intake.entries[k] IN
      e.status \in {"accepted", "duplicate_ignored"} =>
        /\ [delivery |-> e.delivery, message |-> e.message, target |-> e.target,
            path |-> e.path] \in due
        /\ e.envelope.message = e.message /\ e.envelope.sender = Source
=============================================================================
