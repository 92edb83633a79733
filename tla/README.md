# Quest Termux Lab: TLA+ models, checks and proofs

This directory holds a TLA+ development of the programs in this repository:
models translated from the source, TLC configurations that check them on small
instances, and theorems about them whose proofs TLAPS checks.

    cd tla
    tlc -workers 2 -config MCFleetControl.cfg MCFleetControl    # model-check
    tlapm FleetControlProofs.tla                                # check the proofs

`PROJECT.json` lists the components, the runs, the lines of code behind each
definition, the hazards and the properties that cover them.

## The system

The repository is a laboratory for driving Quest headsets through Termux.
Its programs are small and separate; they meet over loopback or LAN HTTP, over
ADB, and through JSON files.

| Component | State | Operations | Interaction |
|---|---|---|---|
| Fleet controller (`tools/fleet_control_plane.py`) | heartbeats, a command list per agent, an idempotency index, results, mirror leases, intents, session events, an index from commands to intents; all in memory | heartbeat, queue, poll, result, lease, revoke, intent, status, summary | HTTP; one thread per request over one object without a lock |
| Fleet agent (`scripts/termux_fleet_agent.py`) | ADB state, completed idempotency keys, last command; in memory | the loop heartbeat, poll, execute, report | polls the controller; runs `adb` and the package manager |
| Mirror commander (`scripts/mirror_commander.py`) | none | builds intents, posts them, polls their status | a client of the controller |
| Peer gossip and its HTTP simulator (`tools/peer_mesh_gossip.py`, `peer_mesh_http_sim.py`) | the newest observation of each agent, seen messages with their age, counters | merge, accept, relay, summarize | envelopes, also through files; one thread per request without a lock |
| Peer delivery tools (`peer_mesh_delivery`, `_dispatch_plan`, `_retry_plan`, `_send_dry_run`, `_route_health`) | a delivery record per target and message, in files | receipt, error, expire, plan, retry, send, report | each tool reads the files that others wrote |
| Peer round simulator (`peer_mesh_round.py`) | inbox directories of envelope files | deliver heartbeats, relay passes, summarize | files, named after the envelopes |
| Peer file drop (`peer_mesh_file_drop_staging`, `_copy_dry_run`, `_inbox_intake`) | three reports; outcomes and manifests beside them | plan the paths, judge the copies, take in a receiver's inbox | delivery state and route config; files |
| Peer report pipeline (`_route_history`, `_live_lab_readiness`, `_topology`, `_lab_bundle`, `_trust_gate`, `_rehearsal`, `_evidence_intake`, `_scorecard`, `_scorecard_history`, `_scorecard_regression`) | one report each, with a status | each computes its status from reports of earlier stages | files |
| Chain around private evidence (`peer_mesh_private_*`) | one report each, with evidence slots | handoff, checklist, redaction plan, import plan, placeholders, acceptance | files, with a manifest of its own at each tool |
| Codex workbench sidecar (`examples/spatial-codex-workbench/sidecar`) | the current workspace and run, the active Codex run, login and build, a bounded journal | clone, create run, start, cancel, diff, commit, discard, build, install, launch, publish | one event loop; handlers interleave at every `await`; child processes |
| Wireless ADB recovery helper (`examples/wireless-adb-recovery-helper`) | a single-thread executor, a cancel flag, stored evidence with a revision, a pid file | restore, pair, pulse, stop, record a result, serve a proof | Android callbacks, Termux commands and their pending intents |
| Spatial desktop panel (`examples/spatial-desktop-panel`) | an RFB session, a framebuffer, a camera capture, a one-shot image server, pointer state | connect, disconnect, input, capture, hand over | threads of its own for the socket, the camera and the server |
| VNC capture and MJPEG tools, repository checks, launchers | little or none | | |

What makes them hard: the controller and the mesh's receivers have threads and no
lock, and forget everything when they restart; the agent dies of most failed requests and takes
its memory along; a poll gives a command away before it has arrived; the ADB
shell comes and goes while its state is cached; expiry is checked in several
places with clocks that move on; the sidecar checks before an `await` and acts
after it; the panel's reconnect shares a flag and a socket with the session it
replaces; the peer tools apply outcomes to files that have moved on.

What makes them correct, by component:

* Controller: one command per idempotency key, for as long as the key means
  anything; "duplicate" answered exactly when it is one; each result finds the
  intents it answers; status and event log agree; a rejection stays.
* Its threads: nothing handed over twice, arrival order kept, keys exclusive;
  a command that has not expired is lost only in one known gap.
* Agent and controller: a reported update is installed; an update runs once in
  an agent's life even if the controller forgot it; a lasting loss of ADB shows;
  queues drain; an accepted intent is answered.
* Peer mesh: a node shows the newest it was told, in whatever order it was told,
  and a repeated message is applied once within its window, except where threads
  overtake each other in one of two known ways; an answered delivery is
  not sent again; what is recorded or reported as delivered was delivered.
* Workbench: one build and one Codex run at a time; the commit recorded for an
  artifact is the one it was built from; what is committed is what was reviewed, and
  what is pushed is what is reported, unless Codex moved the branch itself.
* File-based chains of the mesh: what is known came along links; what an intake
  accepts was staged; a clear verdict rests on clear inputs all the way down.
* Recovery helper: one agent per headset, unless scripts overlap or die at the pid file;
  discovery ends; a pulse leaves the setting as it was; a proof that is served is one
  result that was recorded.
* Panel: one result per capture, no camera left open, every press released, a
  new session not ended by an old one.

## Modules

    AtMostOnceDelivery         abstract: what an idempotency key promises
    FleetCommands              the queue and its index
      FleetControl             + the mirror lane: the whole controller
        FleetSystem            + agents, network, ADB, packages, crashes
    FleetThreads               the queue's handlers, step by step, concurrent
    PeerGossip                 the receivers of the peer mesh
      PeerDelivery             + the sender's delivery state and its tools
    PeerLab                    one session with one of the file-based tool chains:
      PeerRound                  the round simulator
      PeerFileDrop               staging, copy and intake
      PeerReports                from route health to the regression gate
      PeerPrivateChain           the chain around private evidence
    Workbench                  the workbench's broker and the panel that drives it
    RecoveryHelper             the recovery app, its Termux scripts and its proofs
    AtMostOnceDeliveryProofs   the abstract specification
    FleetControlProofs         the controller, and that it implements the abstract one
    FleetSystemProofs          the controller with agents, faults and restarts
    FleetThreadsProofs         the controller's threads
    PeerGossipProofs           the receivers, and the sender's tools over them
    PeerLabProofs              rounds, file drop, private chain, reports
    WorkbenchProofs            the processes, then the review
    RecoveryHelperProofs       the recovery helper
    MCFleetControl, MCFleetThreads, MCFleetSystem, MCPeerDelivery, MCPeerLab,
    MCWorkbench, MCRecoveryHelper   instances for TLC

**`FleetCommands`, `FleetControl`.** A state variable has the name of the
`FleetState` field it stands for. Each action is one HTTP request handled from
beginning to end, named after the method. A queue is the set of its entries
with arrival numbers, the Python order; the numbers are shared with the session
events, so the order of events is known too. `delivered` is a history of what
`next_command` returned. A request's payload is a record of the fields the
handlers look at, and the payloads that may come are three constant sets:
commands, leases, intents. A fleet id is part of an agent's identity. A request
that is refused without a trace is a step that is not taken. Texts, timestamps
that are only stored, schema checks and the JSONL audit log are left out.
`record_result` keeps what `recovery_candidates` asks of the results: whether an
agent's latest one says that ADB was unavailable.

**`AtMostOnceDelivery`.** A slot, an (agent, key) pair, is free, held or spent;
a held slot may lapse; a spent one stays spent. `FleetControl` maps a slot to
its waiting or handed-over command and shows that queue, index and clock
implement this (`DeliversAtMostOnce`).

**`FleetThreads`.** `FleetServer` is a `ThreadingHTTPServer`. The module takes
`queue_command`, `submit_mirror_intent`, `next_command` and `record_result`
apart where the interpreter may switch threads and another thread can see the
difference: the test of the index, its update, the evaluation of
`commands.setdefault(...)` (from then on the thread holds that list object),
the append, each turn of the loop over the live list, the replacement of the
list, and each store of the mirror lane. Lists are objects on a heap, because a
thread may append to one that is no longer the queue. One connection of the
agent is modelled: it polls again only when the previous poll was answered, as
the agent does.

**`FleetSystem`.** Extends the controller with the agent process, cut where the
outside world can change between two steps: heartbeat, poll, the gates, the
check of ADB, the shell command, the measurement, installation and read-back of
an update, the report. The agent's local policy (allowlists, leases, bindings,
payload checks) is one gate that may refuse any command. An unsent heartbeat
only ends the round; any other failed request ends the process (`run_once`
catches one `URLError`). A restart of the controller empties `FleetState`. The
package manager is external: it refuses an older version unless asked to
downgrade, and an installation may complete after its caller gave up.

**`PeerGossip`.** `GossipState` inside `PeerHttpState`. `PeerHttpServer` is a
`ThreadingHTTPServer` without a lock, so a request is taken apart where another
thread can see the difference: the list of expired messages (`Receive`), each `del`
of the prune (`Forget`, or `FailToForget` with the `KeyError` of what another thread
deleted first), the look-up of the message id, which ends in a duplicate, a refusal or
a merge (`Repeats`, `Refuses`, `BeginMerge`), the comparison and the store of each
observation (`Compare`, `Set`), and the record of the message (`Record`). `/health` and
`/summary` prune, too (`Report`). A `del` names an id and forgets what is filed under it
by then. An envelope may reach a node in any step, so envelopes are lost, repeated and
reordered as they like; a dictionary that changes under the prune's scan ends the thread
without a trace, as if the request were lost. The digest of an envelope is the envelope;
one that fails validation or belongs to another fleet is a member of `Invalid`.
Observations carry times that parse and say one thing of an agent, and are merged in any
order. A restart empties a node's memory and ends its threads; its clock
(`time.monotonic`) goes on. Four histories of a node's life say what it recorded and how
much had been recorded when each message was looked up (`applied`), what it merged
(`heard`), which records a stale `del` forgot (`dropped`), and which observations came
between another thread's comparison and store (`raced`).

**`PeerDelivery`.** Each tool is one run over files: apply a receipt or an error,
expire, send (dry run, writing the state back), plan retries, report route health.
The dispatch plan is the operator `DispatchDecision`, recomputed by the tools that
need it as the code does. Receipts are a set: any of them can be applied at any
time, in any order, again or never, with its own time, and a tool judges by a time of
its own (`--now`, or the one in its policy or outcomes file); the outcomes file of a dry
run says of each delivery what some receipt said, or `no_response`. The exchange
with the receiver (`Post`) is external, since these tools do not send; it may be
made on an old plan, so its only guard is a usable route. A lost answer is an
envelope received without a receipt. Inputs that fail validation end a tool
without a trace. Retry multipliers are whole numbers here, fractions in the code.

**`PeerRound`.** `simulate_round` in its three parts: every node drops the envelope
of its heartbeat into the inboxes it has a link to, the nodes relay in
`relay_passes` passes over snapshots of the inboxes, and each inbox is merged into a
summary in the order of its file names. An envelope is the way it came, newest step
first; its message id is put together in the same order, so a file name, which keeps
the beginning of the id, keeps the newest steps (`safe_file_part`, `name_length`).
Two files with one name are one file: the second is written over the first, and
`overwritten` remembers it. The scenario (links, heartbeats, hops, passes) is chosen
once.

**`PeerFileDrop`.** Each of the three tools is one run over the delivery state, the
route config and the report before it. The files a person writes, outcomes and
manifests, are constant sets: any of them may lie beside any report, also one of an
earlier plan. `due` is a history of what was due when a staging was planned. A path
is inbox, source, target and the segment of the message id, no more: two deliveries
may share one, and both can be accepted. The outcomes name no path, and the intake
remembers nothing from one run to the next. An entry of the manifest for what was not
planned stops the tool, as in the code.

**`PeerReports`.** The ten tools after one another, over files of any age: the routes
change, old reports stay, a tool is run again or not. A route-health report is a
status for each route; a history is made from any choice of the kept reports, in the
order of their age, one of them perhaps given twice. Policies and manifests are the
constant set `Labs`. `shaky`, kept with each report and no part of the file, says
whether it rests on a route that was last seen unavailable or unknown. What the code
does at the edges is in the model: the lab bundle looks at the form of the route
history only, the evidence intake never looks at unavailable routes, the trust gate
and the rehearsal may be told not to judge, a missing optional artifact leaves the
scorecard clear and blocks its history, and a topology is ready only if every
expected target is healthy. Left out: the receipts of the intake and the schema and
transport checks of single messages, whose verdict is part of the policy, and counts
and texts that no later tool reads.

**`PeerPrivateChain`.** Each tool judges twice, the report by checks and each slot by
what the slot and the report before say, with a manifest of its own. A manifest fits
the report's fleet, source and experiment or not, and asks for readiness or not. The
review bundle and the public package are inputs with a status that may change between
two runs. `declared` and `released` are histories of what handoffs and redaction plans
have said.

**`PeerLab`.** The four chains share no file, so a session works with one of them
while the files of the others rest. The round simulator shares no state with the
delivery tools either: it is a simulation in directories of its own.

**`Workbench`.** The broker is one Node.js event loop: a handler runs alone until it
awaits, so an action is what a handler does from one `await` to the next, and a handler
in flight is a frame whose field `at` names the await it is suspended in. The panel
sends its requests from a single-thread executor, one at a time, and gives up after the
120 s of `LoopbackHttpClient`; the broker does not notice, and the handler runs on
beside the next one (`GiveUp`). Only the kinds in `Outlasting` can be given up on: the
awaits of the others are bounded by 30 s (the login status) or by the panel's own 120 s
(the `git status` of a build, whose commands run side by side and fail the request when
the limit ends them). That a status which still succeeds is answered within the panel's
limit, which began a little earlier, is an assumption: the two limits are equal.
Processes go on by themselves: Codex edits until it is gone, cancelled or not, in its
default sandbox the worktree it was started in, and with full access, which
`WorkbenchSidecarLauncher` gives it on the headset, any worktree, its index and its
branch (`CodexSandbox`, `CodexEdits`); a build reads the worktree file by file, the
version file first; a login ends when it ends. A worktree is its tracked files with a
few contents, a commit is its tree. The review token, a hash in the code, stands for the
text the diff is shown as (`Text`), which names binary files only and is cut at 2 MB
(`Truncated`): two diffs may have one text. A commit asks for a text that is not cut; a
discard does not, so it may lose more than the text showed. The panel selects all the
files it was shown. `headMoved` notes the runs whose branch Codex moved while a push was
in flight. Left out of what full access allows: switching a worktree to another branch
(a push refuses that), deleting one, changing the checkout that runs are added from, and
processes that outlive Codex. `statusAt` runs git commands in parallel, so HEAD and the
cleanness of the worktree are read at two instants (`ReadHead`, `ReadClean`); a diff is
read at one. An operation id is used again once its process is gone. What a preview
build is made of is not recorded. Requests refused by their first synchronous check, and
requests that only read, are left out, except the diff whose token the panel keeps.

**`RecoveryHelper`.** `RecoveryService` works through its start requests on one
executor thread; a task is cut where another thread, Android or Termux can see the
difference: the start, service discovery with its callbacks, the wait after the setting
is turned on, the pulse. A stop that comes while a pulse still waits has no effect on it,
as in the code: the pulse clears the flag when it begins. Each request
starts at most one script of `wireless_adb_recovery.py`, which has the number of its
request: it probes, checks the pid file, writes the configuration through a shared
`.tmp` file, starts the agent, records its pid and reports; between the check and the
record another script may do the same, and `slips` counts it. A script may be killed or
fail alone (`ScriptDies`); if it had started the agent and not yet written its pid,
`slips` counts that as well. The file that another
script has moved away ends a script with an error, as `FileNotFoundError` does. With
`--hold-fleet-agent` the result arrives when the agent ends, and is stamped with the
time it arrives. `record` is one write of the preferences, the provider reads them
field by field, and the digest is that of the revision, time and mode it read.
`SharedPreferences.apply()` is taken to be durable. Faults are the death of the helper,
which forgets its queue, and the death of Termux with all its processes. Android's
setting, which may also be reset by the system, and Termux's delivery of results are
external. Permissions and missing files are one refusal; the topology probe only
supplies host names and is left out.

Definitions introduced by a comment "With a bug: ..." are not used by the
specifications. Each is what a definition next to it would be with a plausible
mistake in the code; replaced by it, the run finds the property violated.

## Runs

| Run | Question | Properties | Instance |
|---|---|---|---|
| `fleet_control` | Do the controller's records stay consistent in any order of requests? | `SlotHoldsOneCommand`, `IndexIsExact`, `MirrorCommandCorrelated`, `EventLogAgrees`, `RejectedIsFinal`, `DeliversAtMostOnce` | two agents, two keys, a command and two intents that want one of them, a lease and commands that expire; clock 0..2, 4 numbered changes: about 70 000 states. Its `TypeOK` is part of `SystemTypeOK`, which `fleet_system` checks |
| `fleet_threads` | What does the missing lock not break, and which commands can it lose? | `TypeOK`, `HandedOverOnce`, `FirstComeFirstServed`, `QueuedOncePerKey`, `AnsweredIntentsGetResult`, `LostOnlyLate` | two clients with two requests each, each with a key of its own that it uses twice, three polls, an expiry: about 418 000 states |
| `fleet_threads_shared` | What does it break? (a finding) | `QueuedOncePerKey` violated | the same, one key used by both clients |
| `fleet_system` | Are updates right through failures? | `SystemTypeOK`, `ReportedUpdateIsInstalled`, `UpdateOncePerLife` | two updates of different versions and a look at ADB or a disconnect, clock 0..1, two faults, one controller restart: about 3.4 million states |
| `fleet_system_live` | Does what must happen happen, and stay? | `AnswerIsFinal`, `AdbLossSurfaces`, `QueueDrains`, `QueuedIntentAnswered` | an update, a status request, one intent, two faults: about 62 000 states |
| `fleet_system_adb` | Does a failure for want of ADB show by default? (a finding) | `FailureSurfaces` violated | ADB not checked with heartbeats |
| `fleet_system_duplicate` | Is a duplicate intent always answered? (a finding) | `EveryIntentAnswered` violated | two intents with one key, no fault |
| `peer_delivery` | Are the mesh's views and the sender's records right, whatever the network, the receiver's threads and the age of the files? | `MeshTypeOK`, `NewestKept`, `AppliedOncePerWindow`, `AcceptedWasApplied`, `HealthyRouteDelivered`, `PlannersAgree`, `AnsweredIsNotSent` | one receiver with two threads, two messages for it, a third envelope that contends for a message id, a disabled route, clock 0..2 with a TTL of 1, one restart, two receipts, four requests and runs of tools in all: about 2.0 million states |
| `workbench` | Is there one process of each kind, is what was reviewed what is committed and discarded, and what is reported what is pushed, whatever runs beside it? | `TypeOK`, `OneAtATime`, `ReviewedIsActedOn`, `PushedIsReported` | two handlers in flight, two operations of Codex and of the build adapter, one run of one file with two contents, Codex with full access, texts that are cut or alike: about 4.3 million states |
| `workbench_candidate` | Is a candidate build what its record says? (a finding) | `CandidateIsItsCommit` violated | one handler, one build |
| `recovery` | Are the helper's proofs, its setting and its agent right, whatever overlaps? | `TypeOK`, `ServedIsOneRecord`, `NothingLeftOn`, `OneAgentUnlessRaced`, `RequestsHandled` | two start requests of any of seven kinds, with their scripts and results, queries in between, one death of the helper, of Termux or of a script: about 1.1 million states |
| `peer_lab` | What do the file-based chains promise when their files are of different ages? | `OnlyAlongLinks`, `HeardOverShortestWay`, `AcceptedWasStaged`, `ClearRestsOnClear`, `AcceptanceRestsOnHandoff` | every set of links of a ring of four with ways back and a short cut; two deliveries and two edits; two routes, five policies, two kept reports; seven runs of the private chain: about 869 000 states |

**Bounds.** `MaxTime` bounds the clock: commands and leases expire at 1 or 2, so that
each is met alive, at its very expiry (`<=`) and expired. `MaxSerial` bounds queue
entries plus events: four are enough to queue, expire, queue again, hand over and answer
on one key. `MaxPolls` bounds polls: with three, one poll can overlap appends to two
lists. `MaxFaults` counts lost messages, deaths and changes of ADB; two allow a loss of
ADB and a death around one update. `MaxRestarts` is the number of controller restarts
(in the mesh: of receivers). In `peer_delivery` the clock passes the TTL by one, so that
a message is repeated within, at and after it. Two threads are what any overlap needs;
four requests and runs of tools in all (`MaxOperations`) are two messages, a repeat and
a prune beside them, or two exchanges and the two runs that a stale record needs (one
writes or reports, one acts on it). Two receipts (`MaxReceipts`) can be applied out of
order, and one restart lets a target apply a message twice. In `workbench` two slots are
an abandoned handler beside the one the panel waits for; two operations of each kind are
what a second process would need to appear; a file suffices, since the review properties
speak of each file by itself, and `MaxContent` gives it an old and a new content. One
run and one workspace mean that an abandoned creation of a run, which would replace a
newer one when it ends, is not reached. In `recovery` two requests are what any overlap
needs: one that waits or runs and one that overtakes, stops or disables it, two scripts
at the pid file, two results around one query. In `peer_lab` four agents give a way of
three hops and a second way beside it, `NameLengths` 2 cuts ids so that files are
written over and 9 never does; two deliveries share a path; two changes of the plan or
the routes make every file older than another; one change of the routes and two kept
reports give each history a first and a last; the private chain has six tools, so
`MaxRuns` 7 is all of them and one again, or an input that changes. Idempotency keys are
used for one update each: reusing the key of a finished update for another version after
a controller restart is outside what `ReportedUpdateIsInstalled` claims, as is a
manifest that allows a downgrade (`Downgradable` is empty in the runs).

**Deadlock** is checked in the workbench runs: the panel can always ask for something or
something is in flight. In the others it is not: clients stop after a bounded number of
requests, the clock stops at its bound, and a stopped agent need not be started again in
a behaviour without fairness; the chains of `peer_lab` end, and the recovery helper may
stay without requests.

**Fairness.** `FairSystem` asks that the agent's loop goes on (`WF` of
`RunOnce`: it is a `while True` in a process of its own) and that a dead agent
is started again (`WF` of `Start`: the launcher, the recovery helper or an
operator does it; without it `QueueDrains` is plainly false). Nothing is asked of
clients, time, ADB or the network, but faults are finitely many. With
`check_local_adb_on_heartbeat` set, as the recovery helper configures it, a
lasting loss of ADB shows. `QueuedIntentAnswered` exempts faults, restarts and the
passing of time explicitly: a command that expires in the queue, or a result that
is lost with its agent, is never reported, and the code has no retry for it. In
`RecoveryHelper` only the executor is fair: it is a thread of its own, its sleeps and
the wait for the latch have timeouts, so it needs no callback of Android and no result
of Termux to go on. The
workbench is checked without fairness: that no slot is leaked is the equivalence in
`OneAtATime`, an operation is active exactly as long as its process is alive.

**What the workbench runs leave open.** `ReviewedIsActedOn` and `PushedIsReported` are
claimed until the panel first gives up on an answer. The broker has no guard against two
mutations of a worktree; it relies on a client that sends one request at a time,
and a client that went on after 120 s, or a second client, can put an edit between the
comparison of the token and the command that acts. The token is the hash of a text: a
discard loses the diff that has this text, which a cut text, or one that only names a
binary file, does not show whole, and nothing in the repository promises that it does.
A push does not ask Codex to be idle, and Codex with full access may commit between the
status and `git push`; `PushedIsReported` excepts the runs in `headMoved`, and with the
default sandbox there are none (`PushedAsChecked`). `OneAtATime` needs no such
condition for the panel, whose requests that start a process answer in time; with two
independent clients the check before the await and the start after it would interleave.

**What the mesh run leaves open.** The preparation notes say that an exact duplicate "does
not apply observations a second time". The unlocked threads do not keep this: two of them
can look one message up before either records it, and a prune that found an older message
expired can forget the newer one filed under its id in the meantime.
`AppliedOncePerWindow` says that nothing else applies a message twice within the TTL. To
apply the same observations again changes nothing that a node shows; what does is that a
thread may store an observation over a newer one that came after its comparison.
`NewestKept` says that only this leaves an older one standing. It is put
right by the next newer observation of that agent; a repetition of the lost message is
answered as a duplicate within the TTL.

**What the recovery and lab runs leave open.** `OneAgentUnlessRaced` counts the overlaps
of scripts at the pid file, and the agents whose pid was never written; it does not
exclude them: the file is checked, then, after the start, written, without a lock.
`NothingLeftOn` exempts a helper that is killed in a pulse, after which nobody puts the
setting back. Three behaviours of the helper are in the model and no property speaks
against them, since nothing in the repository promises otherwise: a late result after a
disable is still recorded as available, a recovery with only the property's port starts
an agent and reports a failure, and a stop does not reach a pulse that still waits.
`HeardOverShortestWay` is claimed while no file was written over; with names that are
cut, a node may miss an agent, and only `OnlyAlongLinks` remains. `ClearRestsOnClear`
speaks of every policy for the artifacts of the latest scorecard, and of the routes
beneath them only under strict ones (`Strict`): the trust gate, the rehearsal and the
intake may be told not to judge. It says nothing of a report that is newer than the
gate's inputs: no tool compares ages.

**Findings.** *Shared keys.* The index is tested at line 101 and set at line 109
of `fleet_control_plane.py` without a lock; two concurrent requests with one key
are both queued, while the documentation says that duplicates are not queued
twice. *Hidden failures.* An earlier ADB success is trusted by
`ensure_local_adb_for_command`; a command that then fails because the shell is
gone says so nowhere, and with the default configuration the agent is no
recovery candidate, which the documentation says it is. *Duplicates without a
result.* An intent whose key is held by a command whose result is already in is
correlated with it but takes over no state: it says `queued_for_target` forever,
where the mirror boundary requires a result of every command. *Candidate builds.* The
routes that bump the version, commit, discard or start Codex do not look at the active
build, so they change the worktree that a candidate build is reading; its record goes
on naming the commit that was read before. The workbench's plan asks for a candidate
"at an exact commit" and for one active build or deploy mutation. The run needs one panel
and no abandoned request: a version bump after the build has started.

## Proofs

Every invariant and action property that a passing run checks is also a theorem. The
theorems hold for every set of agents, keys, leases, commands, links, files and handlers,
every choice of payloads and all bounds, from the named assumptions of the modules (null
values are not members of the sets they are added to, requests have the shape of their
payloads, an operator's command carries no mirror source), which TLC evaluates in the
runs. Some theorems have hypotheses about the requests besides; they are below.

| Theorem | States |
|---|---|
| `Inductive` | `Spec => []IInv` |
| `TypeCorrect` | `TypeOK` of the controller |
| `OneCommandPerSlot`, `IndexExact`, `CommandsCorrelated`, `EventsAgree` | the four invariants of `fleet_control` |
| `RejectedForGood` | the action property `RejectedIsFinal` |
| `Refinement` | `Spec => Delivery!Spec`: at-most-once delivery is implemented |
| `ServedAtMostOnce` | the abstract specification serves no slot twice |
| `SystemInductive`, `SystemTypes`, `SlotsInSystem` | `SystemInv`, and with it `SystemTypeOK` and `SlotHoldsOneCommand`, hold with agents, faults and restarts of the controller |
| `UpdateOnce` | `UpdateOncePerLife`, for any number of restarts and faults |
| `ReportedInstalled` | `ReportedUpdateIsInstalled`, if `UpdatesConsistent` and `OneMeaningPerId` |
| `AnswersFinal` | the action property `AnswerIsFinal`, if `OneMeaningPerId` |
| `DeliveryInSystem` | `SystemSpec /\ [](restarts = 0) => DeliversAtMostOnce` |
| `DeliveryInEveryLife` | `SystemSpec` implements at-most-once delivery in which a restart may begin anew, for any number of restarts |
| `ThreadTypesHold` | `TypeOK` of the threads |
| `HandedOnce`, `InArrivalOrder` | `HandedOverOnce`, `FirstComeFirstServed`, if `PostedOnce` and `OneConnection` |
| `OnceQueuedPerOwnKey` | for every key that one client uses, `QueuedOncePerKey`'s statement, under the same hypotheses |
| `OnceQueuedPerKey` | `QueuedOncePerKey`, if besides `OwnKeys` |
| `ThreadsDeliverOnce` | `Spec => Delivery!Spec` of the threads for the keys that one client uses, if `PostedOnce` and `OneConnection`: the unlocked queue implements at-most-once delivery |
| `LostOnlyWhenLate` | the action property `LostOnlyLate`, if `OneConnection`, for any keys and requests |
| `IntentsGetResult` | `AnsweredIntentsGetResult`, if `PostedOnce` |
| `GossipInductive` | `GossipSpec => []IInv`, for the peer receivers |
| `MeshImplementsGossip` | `MeshSpec => GossipSpec`: beside the sender's tools the receivers do what they do alone |
| `NewestIsKept`, `OncePerWindow` | `NewestKept` and `AppliedOncePerWindow` for `MeshSpec`, any number of threads |
| `MoreHeardMoreKnown`, `ReceiversConverge` | a node that merged all that another merged knows every agent the other knows, and nothing older of an agent about which no threads of its own raced; nodes that merged the same agree on the newest time and sequence number of every agent about which neither's threads raced |
| `MeshInductive`, `MeshTypeCorrect` | `MeshSpec => []MeshInv`, the sender's files keep their types |
| `RecordedMeansApplied`, `HealthyMeansDelivered` | `AcceptedWasApplied`, `HealthyRouteDelivered` |
| `PlansAgree`, `AnsweredStaysUnsent` | `PlannersAgree`, `AnsweredIsNotSent` |
| `RoundInductive`, `AlongLinksOnly` | `OnlyAlongLinks`, for any agents, links, hops, passes and lengths of names |
| `HeardShortest` | `HeardOverShortestWay`, for any agents, links and hops |
| `DropInductive`, `AcceptedStaged` | `AcceptedWasStaged`, for any outcomes and manifests |
| `ReportsInductive`, `ClearRests` | `ClearRestsOnClear`, for any policies, histories and routes |
| `ChainInductive`, `AcceptanceRests` | `AcceptanceRestsOnHandoff`, for any slots and rules |
| `RoundInLab`, `DropInLab`, `ReportsInLab`, `ChainInLab` | `PeerLabSpec` implements each chain's specification |
| `OneProcessOfEachKind`, `WorkbenchTypes` | `OneAtATime` and `TypeOK`, for any number of handlers, runs and operations |
| `ReviewedActedOn`, `PushedReported` | the action properties `ReviewedIsActedOn`, `PushedIsReported`, for any texts and either sandbox |
| `PushedAsChecked` | with Codex in its sandbox, `PushedIsReported` without its exception |
| `RecoveryInductive`, `RecoveryTypes` | `RecoveryInv`, and with it `TypeOK` of the helper |
| `ServedRecord`, `PulseLeavesNothingOn`, `ExtraAgentsRaced` | `ServedIsOneRecord`, `NothingLeftOn`, `OneAgentUnlessRaced`, for any number of requests, scripts and faults |

The invariant. `SlotHoldsOneCommand` is not inductive: that a key is claimed
must be readable in the index, so that a repeat is refused, and releasing the
keys of expired commands must not touch a spent one. `EntriesInPlace` says that
each waiting or handed-over command holds its key in the index, waits at its
target, and has an arrival number of the past, and that nothing both waits and
was handed over. With it, two commands in one slot would have to have been
accepted with the index at `NoCommand`, and a lapsed command's key is its own.
For the mirror lane, `ListedIntentsAdmitted` says that only admitted intents are
listed under a command, which is why no result reaches a rejected one; the event
log needs `EventsPast`, that all events are numbered below `serial`. `IInv` is the
conjunction. Its step lemmas, one per action, follow the conjuncts; the
refinement maps each action to a step of the abstract delivery or to a stutter.
The mapping lemma says which slots lapse in a poll.

The hypotheses. Ids, keys and versions come with the requests, and no handler compares
them with those of earlier ones, so some theorems must say what clients keep to. Each is
a formula about the constants in `FleetSystem` or `FleetThreads`, and the instances assume
it, so TLC has found that it can be true: `OneMeaningPerId`, a command id stands
for one command of one key and agent (a second command under an old id would receive the
answers of the first); `OneVersionPerKey`, the updates of one key ask for one version (the
agent skips a key that it has completed and reports it done); `Downgradable` is empty (a
downgrade later undoes what was reported); `PostedOnce`, two posted requests are two
names, which is how the model counts deliveries; `OneConnection`, the agent polls again
when its poll was answered, since its loop is sequential; `OwnKeys`, no two clients share a
key, without which `QueuedOncePerKey` is false: that is the finding of
`fleet_threads_shared`. Sharing harms only the keys that are shared: of a key that one
client uses (`OwnKey`) the theorems say the same without that hypothesis.
`UpdateOnce` needs none of them: the agent's own memory of completed keys suffices.

The system's invariant. `AgentSound` says of an agent that a command it works on is one
that clients can queue and its own, that it looks for the shell only for an update it does
not remember, and that it remembers every key whose install it has counted;
`UpdateOncePerLife` is its last part. For `ReportedInstalled`, what an agent remembers or is
about to report must be on the headset (`UpdateSound`), and a version never falls. For
`AnswersFinal`, no agent may still hold the command of an answered intent
(`AnswersSound`): a command handed over again would have two entries in `delivered`, and
an intent listed under two commands could be answered twice (`ListedOnce`). The steps of
an agent are summed up once (`SoundStep`) and each action shown to be one. While the
controller lives, a step of the system is one of the controller's requests or leaves the
queue alone, so what is delivered is what `Refinement` says. A restart forgets the spent
keys, which is why `DeliveryInSystem` stops there; `DeliveryInEveryLife` goes on: the
restart leads to an initial state of the abstract delivery (`RestartIsNewLife`), so each
life of the controller hands over at most one command of a key.

The threads' invariants. `TypeInv` knows besides the types that a handler at work has a
request. For the order of the queue (`QueueInv`) a list with several holders is cut into
what was handed over, what the poll selected and kept, and what it has not reached; each
part is in order and before the next, through every append to the list that is being
iterated. It needs to know of the past (`PastInv`) that nothing is placed before its
thread appends it. For the keys, whatever was or can be handed over holds its key in the
index, except expired entries the poll has passed, which it gave up (`KeyQueue`); a
thread that found its key free, or claimed it, still does (`KeyClients`), as nobody else
uses that key. All this is said of the keys that one client uses, and the steps of other
clients leave them alone whatever they do with theirs. With it the threads implement
`AtMostOnceDelivery`: a key is held as long as the index names a command for it and
spent once that command was handed over, so the step that claims a key accepts, the turn
of the loop that finds a command expired lets its slot lapse, the replacement of the
list hands over, and every other step of every thread stutters. For the results, an
intent on its way is correlated, then listed, then answered (`CorrelationInv`), so the
report's loop over the live list of the command still finds every intent that it owes a
result (`OwedInv`), also those appended while it runs. What the queue loses, it loses
when a poll puts its new list in place of the old one: `LoopsSound` says of a poll that
iterates that each entry of the old list it has passed is selected, kept or expired, so
when the loop ends, it has missed none (`EndPassedAll`). What is appended after that, to
the list that is replaced or to one that was, is the gap that `LostOnlyLate` leaves, and
the only one.

The receivers' invariant. `AppliedOncePerWindow` speaks of a history and the code of
its memory; `RecentRemembered` joins them: whatever a node recorded is older than the TTL,
or was lost to a stale `del`, or it or a later record of its id is still in
`seen_messages`. `HandlersSound` says what a thread may rely on after others have run: what
its prune found expired stays expired, as the clock does not go back; what was recorded
under its message's id before its look-up is outdated or lost (`Covered`), so only what was
recorded after the look-up can be repeated; and what it is about to store is newer than
what it compared with. `NewestKept` needs that an observation is filed under its own agent
(`FiledUnderAgent`) and that `is_newer` is the order it should be (`NewerIsLater`). When a
store replaces what the thread had not compared with, the replaced observation enters
`raced`, and everything merged about that agent is either not newer than what is shown or
bounded by such a one. The assumption is `GossipConstants`: an envelope says one thing of
an agent. Every TTL is covered, also 0, and any number of threads.

The sender's invariant. Each file says in its own words that a message has arrived: a
receipt, a delivery record, a send report, a retry plan, a route report. `MeshInv` says of
each that it is true (`Arrived`: the target has merged this envelope in some life), and
so every tool may read whichever version of the others' files it finds. A receipt of a
duplicate is true because what a node remembers was applied (`RememberedWasApplied`);
nothing takes an arrival back (`AppliedForGood`). The invariant of the receivers is
used for its types only. `DeliveryConstants` assumes that the file has a last delivery,
which `latest_by_target` needs to find one (`LastExists`).

The chains of `PeerLab`. Their invariants say of every report, with the parts of it that
later tools read, what the property says of the last one: in `DropInv` what is planned
or copied was due; in `ChainInv` the ready slots of each stage were declared, from the
import plan on also released, and name only stages that were ready; in `ReportsInv` a
report with the best verdict is not shaky under strict policies, a scorecard's clear
entries rest on such reports, and so does what the history keeps of the last one;
in `RoundInv` every file came along links, in passes before the present one, and in
`FloodInv` an agent that is d links away has arrived from pass d - 1 on, and no file has
come over more links than passes; so the file that is merged first, of the
earliest pass, came over a shortest way. (`Hops`, the distance, is a recursive function of
nine steps; `HopsDef` shows that they satisfy its definition.) Each step
rests on the report before it and never on how old that is, which is why age does not
matter. That a session with one chain is a behaviour of that chain alone is the
refinement to each component, so the theorems hold in the composition.

The workbench's invariant. `OneAtATime` is not inductive: a handler that starts a
process looks at the slot before its await and takes it after. `FoundStillHolds` says
that what it found is still so, and `StartsAreAwaited` why: such a handler is always
the one the panel waits for, so no other of its kind is in flight, and the only steps
beside it are those of abandoned handlers, which start nothing, and of processes,
which only free a slot. `Shape` gives the functions their domains and the records their
fields. The assumption is `WorkbenchAssumption`: the null values are not members.
`OpenKeeps`, `SuspendKeeps` and `AnswerKeeps` say this once for a handler that arrives,
goes on or ends; the steps that start or end a process are proved one by one.

The review's invariant. Until the panel first gives up, the only busy handler is the one
it waits for (`ReviewInv`), so between two awaits of a commit, a discard or a push only
processes take steps. No Codex runs beside a commit or a discard, and a build only
reads; what the handler found is therefore still so when it acts: the diff it found is
the diff, then the index holds exactly the files of that diff (`FoundSound`), and its
text is the token and, for a commit, whole (`FrameSound`). Beside a push Codex may run,
so the head that was read is either still the head or the run is in `headMoved`, which
stays empty if Codex is in its sandbox (`MovedInv`).

The recovery helper's invariant. Its executor takes requests in order, one at a time
(`QueueInOrder`). `NothingLeftOn` needs what a pulse owes while it runs: the setting it
remembers is one that somebody asked for (`PulseRestores`). `ServedIsOneRecord` needs that
a stored or half-read digest is that of a recorded result (`RecordsInv`): if it is also that
of the fields that were read, they are that result's, since a digest determines its
fields. `OneAgentUnlessRaced` counts scripts that are past their check of the pid file as the
agents they will start (`Committed`): while there is one, they and the agents are at most
one more than the slips; once there is none, every agent the file does not name was
counted by a slip (`ExtrasRaced`). A script that dies with the pid unwritten leaves
`Committed` and adds a slip, and its agent stays (`ExtrasLost`).

Checked by TLC only: `AdbLossSurfaces`, `QueueDrains`, `QueuedIntentAnswered` and
`RequestsHandled`, which are liveness under fairness and out of the prover's reach, and the
four findings, whose formulas the code does not satisfy.

## Plan

Done: the controller with its threads and agents, the peer mesh with its tool chains, the
workbench, the recovery helper. What comes next, in this order:

1. Proofs: an abstract specification for the recovery helper's served proofs, as
   `AtMostOnceDelivery` is one for the queue.
2. The spatial desktop panel: the RFB session under reconnect, the camera capture, the
   one-shot server and the pointer classifier.

## Not modelled

* The spatial desktop panel: see the plan.
* The mesh's fixtures, indexes and packages: each compares listed files with a manifest
  or writes samples; the status they report is an input of `PeerPrivateChain` or read by
  no tool that is modelled.
* The recovery helper's topology probe, which opens an access point or hotspot and notes
  hosts to try, and its wait for a heartbeat, one polling loop with a deadline.
* The workbench's installation and launch, which change only the device, its journal, a
  bounded list of texts, and its proxy, which relays bytes to an allowlist.
* The VNC and MJPEG tools (one loop over one socket), the repository checks (stateless
  scans), the launchers and viewers (user interface only), the audit logs, formatting
  and redaction of texts, and, in the agent, the contents of its allowlists and of the
  APK verification, whose outcomes are nondeterministic.
