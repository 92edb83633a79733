-------------------------- MODULE PeerPrivateChain --------------------------
(***************************************************************************)
(* The chain of reports around evidence of a private run: the handoff      *)
(* declares slots for it, the checklist repeats them, the redaction plan   *)
(* says what of each may be published, the import plan, the placeholders   *)
(* and the acceptance report carry the slots on until a sanitized artifact *)
(* may be taken (peer_mesh_private_run_handoff.py to                       *)
(* peer_mesh_private_result_acceptance.py).                                *)
(*                                                                         *)
(* Each tool is one run with a manifest of its own over the report of the  *)
(* one before it, of whatever age, and writes its report over the last     *)
(* one.  Each judges twice: the report as a whole, by checks, and each     *)
(* slot, by what the slot and the report before it say.                    *)
(***************************************************************************)
EXTENDS Naturals, FiniteSets

CONSTANTS SlotSets,   \* what handoff manifests declare: functions of slot ids
          RuleSets,   \* what redaction manifests say: functions of evidence kinds
          NoSchema, NoFile,
          MaxRuns     \* bound: runs of the tools and changes of their inputs

VARIABLES review,     \* the review bundle's status
          package,    \* the public package's status
          file,       \* the report of each tool that was last written
          runs,
          declared,   \* history: the slots that handoffs declared, with their kinds
          released    \* history: the kinds and schemas that redactions released

chainVars == <<review, package, file, runs, declared, released>>

Stages == {"handoff", "checklist", "redaction", "import", "placeholder", "acceptance"}
InputStatuses == {"ready", "manual_review", "blocked"}

\* A manifest is of the same fleet, source and experiment as the report it is used
\* with, or not; it requires what the report is about to be ready, or not.
ChainManifests == [fits : BOOLEAN, require_ready : BOOLEAN]

ASSUME ChainAssumption ==
  /\ MaxRuns \in Nat
  /\ \A s \in SlotSets : \E id \in DOMAIN s : s[id].required
  /\ \A r \in RuleSets : \A k \in DOMAIN r :
       r[k].release = "sanitized_derivative_only" => r[k].schema # NoSchema

ChainInit ==
  /\ review \in InputStatuses /\ package \in InputStatuses
  /\ file = [s \in Stages |-> NoFile]
  /\ runs = 0 /\ declared = {} /\ released = {}

\* overall_status of each tool; "ready" stands for handoff_ready and its like.
Overall(failed, manual) ==
  IF failed THEN "blocked" ELSE IF manual THEN "manual_review" ELSE "ready"

\* review_bundle_check, handoff_status_check and their like fail a report that is
\* not ready, unless it is for a person and the manifest is content with that.
StatusFails(status, require_ready) ==
  status # "ready" /\ ~(status = "manual_review" /\ ~require_ready)

\* What is kept with a report is no part of the file: the stages it rests on that
\* were ready when they were read.
Below(stages, name, status) == IF status = "ready" THEN stages \cup {name} ELSE stages

Run(stage, r) ==
  /\ runs < MaxRuns /\ runs' = runs + 1
  /\ file' = [file EXCEPT ![stage] = r]
  /\ UNCHANGED <<review, package>>

---------------------------------------------------------------------------
(* The handoff and the checklist.                                          *)

BuildHandoff(m, slots) ==
  /\ Run("handoff", [status |-> Overall(~m.fits \/ StatusFails(review, m.require_ready), review = "manual_review"),
                     slots |-> slots, below |-> Below({}, "review", review)])
  /\ declared' = declared \cup {<<id, slots[id].kind>> : id \in DOMAIN slots}
  /\ UNCHANGED released

\* A handoff has a required slot: slot_count_check cannot fail.
BuildChecklist(m) ==
  LET h == file["handoff"] IN
  /\ h # NoFile
  /\ Run("checklist", [status |-> Overall(~m.fits \/ StatusFails(h.status, m.require_ready), h.status = "manual_review"),
                       slots |-> h.slots, below |-> Below(h.below, "handoff", h.status)])
  /\ UNCHANGED <<declared, released>>

---------------------------------------------------------------------------
(* The redaction plan.                                                     *)

\* redaction_item
RedactionItem(slot, rules, checklist) ==
  LET known == slot.kind \in DOMAIN rules
      release == IF known THEN rules[slot.kind].release ELSE "none"
  IN [kind |-> slot.kind, release |-> release,
      schema |-> IF known THEN rules[slot.kind].schema ELSE NoSchema,
      status |-> CASE release = "private_only" -> "private_only"
                   [] release = "sanitized_derivative_only" /\ checklist.status = "ready"
                        -> "ready_for_sanitized_derivative"
                   [] OTHER -> "blocked_until_private_evidence"]

BuildRedaction(m, rules) ==
  LET c == file["checklist"]
      covered == \A id \in DOMAIN c.slots : c.slots[id].kind \in DOMAIN rules
  IN /\ c # NoFile
     /\ Run("redaction",
            [status |-> Overall(~m.fits \/ StatusFails(c.status, m.require_ready) \/ ~covered, c.status = "manual_review"),
             slots |-> [id \in DOMAIN c.slots |-> RedactionItem(c.slots[id], rules, c)],
             below |-> Below(c.below, "checklist", c.status)])
     /\ released' = released \cup {<<k, rules[k].schema>> :
                                     k \in {l \in DOMAIN rules : rules[l].release # "private_only"}}
     /\ UNCHANGED declared

---------------------------------------------------------------------------
(* The import plan.                                                        *)

\* With a bug: the item's own readiness is enough.
ImportItemByItem(slot, redaction) ==
  [kind |-> slot.kind, release |-> slot.release, schema |-> slot.schema,
   status |-> CASE slot.release = "private_only" -> "private_only"
                [] slot.release # "private_only" /\ slot.schema = NoSchema -> "missing_derivative_schema"
                [] OTHER -> IF slot.status = "ready_for_sanitized_derivative"
                            THEN "ready_for_public_derivative" ELSE "blocked_until_redaction_ready"]

\* import_item
ImportItem(slot, redaction) ==
  [kind |-> slot.kind, release |-> slot.release, schema |-> slot.schema,
   status |-> CASE slot.release = "private_only" -> "private_only"
                [] slot.release # "private_only" /\ slot.schema = NoSchema -> "missing_derivative_schema"
                [] OTHER -> IF redaction.status = "ready" /\ slot.status = "ready_for_sanitized_derivative"
                            THEN "ready_for_public_derivative" ELSE "blocked_until_redaction_ready"]

Has(items, status) == \E id \in DOMAIN items : items[id].status = status
Derivatives(items) == {id \in DOMAIN items : items[id].release = "sanitized_derivative_only"}

\* The manifest says of each of the two reports whether it must be ready.
BuildImportPlan(m, require_package_ready) ==
  LET r == file["redaction"]
      items == [id \in DOMAIN r.slots |-> ImportItem(r.slots[id], r)]
      failed == \/ ~m.fits \/ StatusFails(r.status, m.require_ready)
                \/ StatusFails(package, require_package_ready)
                \/ Derivatives(items) = {} \/ Has(items, "missing_derivative_schema")
  IN /\ r # NoFile
     /\ Run("import",
            [status |-> Overall(failed, "manual_review" \in {r.status, package}),
             slots |-> items,
             below |-> Below(Below(r.below, "redaction", r.status), "package", package)])
     /\ UNCHANGED <<declared, released>>

---------------------------------------------------------------------------
(* The placeholders and the acceptance.                                    *)

\* placeholder_slot
PlaceholderSlot(slot) ==
  [kind |-> slot.kind, release |-> slot.release, schema |-> slot.schema,
   status |-> CASE slot.status = "private_only" -> "private_only"
                [] slot.status = "ready_for_public_derivative" -> "awaiting_sanitized_derivative_artifact"
                [] slot.status = "missing_derivative_schema" -> "blocked_missing_derivative_schema"
                [] OTHER -> "blocked_until_import_ready"]

Schemaless(items) == \E id \in Derivatives(items) : items[id].schema = NoSchema

\* A slot that is blocked blocks the report only when no check is for a person.
BuildPlaceholders(m, require_derivative_schemas) ==
  LET i == file["import"]
      items == [id \in DOMAIN i.slots |-> PlaceholderSlot(i.slots[id])]
      failed == \/ ~m.fits \/ StatusFails(i.status, m.require_ready)
                \/ require_derivative_schemas /\ Schemaless(items)
      manual == i.status = "manual_review" \/ Schemaless(items)
      blocked == Has(items, "blocked_until_import_ready") \/ Has(items, "blocked_missing_derivative_schema")
  IN /\ i # NoFile
     /\ Run("placeholder",
            [status |-> IF ~failed /\ ~manual /\ blocked THEN "blocked" ELSE Overall(failed, manual),
             slots |-> items, below |-> Below(i.below, "import", i.status)])
     /\ UNCHANGED <<declared, released>>

\* acceptance_item
AcceptanceItem(slot) ==
  LET schemaless == \/ slot.release = "sanitized_derivative_only" /\ slot.schema = NoSchema
                    \/ slot.status = "blocked_missing_derivative_schema"
  IN [kind |-> slot.kind, release |-> slot.release, schema |-> slot.schema,
      status |-> CASE slot.status = "private_only" -> "private_only"
                   [] slot.status # "private_only" /\ schemaless -> "blocked_missing_derivative_schema"
                   [] OTHER -> IF slot.status = "awaiting_sanitized_derivative_artifact"
                               THEN "ready_to_accept_sanitized_artifact"
                               ELSE "blocked_until_placeholders_ready"]

BuildAcceptance(m, require_derivative_slots) ==
  LET p == file["placeholder"]
      items == [id \in DOMAIN p.slots |-> AcceptanceItem(p.slots[id])]
      failed == \/ ~m.fits \/ StatusFails(p.status, m.require_ready)
                \/ Derivatives(items) = {} /\ require_derivative_slots
                \/ Has(items, "blocked_missing_derivative_schema")
  IN /\ p # NoFile
     /\ Run("acceptance",
            [status |-> Overall(failed, p.status = "manual_review" \/ Derivatives(items) = {}),
             slots |-> items, below |-> Below(p.below, "placeholder", p.status)])
     /\ UNCHANGED <<declared, released>>

---------------------------------------------------------------------------
(* The review bundle and the public package are made anew.                 *)

NewInputs ==
  /\ runs < MaxRuns /\ runs' = runs + 1
  /\ review' \in InputStatuses /\ package' \in InputStatuses
  /\ UNCHANGED <<file, declared, released>>

ChainNext ==
  \/ \E m \in ChainManifests :
       \/ \E slots \in SlotSets : BuildHandoff(m, slots)
       \/ BuildChecklist(m)
       \/ \E rules \in RuleSets : BuildRedaction(m, rules)
       \/ \E b \in BOOLEAN : BuildImportPlan(m, b) \/ BuildPlaceholders(m, b) \/ BuildAcceptance(m, b)
  \/ NewInputs

ChainSpec == ChainInit /\ [][ChainNext]_chainVars

---------------------------------------------------------------------------
(* Properties.                                                             *)

\* A slot that the acceptance report takes an artifact for was declared by a
\* handoff with this kind of evidence and released by a redaction plan under this
\* schema, with every stage from the review to the redaction ready when the next
\* one read it; and when the whole report is ready, so were all stages and the
\* package.  Which manifests were used, and how old each report was, is no matter.
AcceptanceRestsOnHandoff ==
  LET a == file["acceptance"] IN
  a # NoFile =>
    /\ \A id \in DOMAIN a.slots :
         a.slots[id].status = "ready_to_accept_sanitized_artifact" =>
           /\ <<id, a.slots[id].kind>> \in declared
           /\ <<a.slots[id].kind, a.slots[id].schema>> \in released
           /\ {"review", "handoff", "checklist", "redaction"} \subseteq a.below
    /\ a.status = "ready" =>
         /\ a.below = {"review", "package"} \cup (Stages \ {"acceptance"})
         /\ \A id \in DOMAIN a.slots :
              a.slots[id].status \in {"private_only", "ready_to_accept_sanitized_artifact"}
=============================================================================
