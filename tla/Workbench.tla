------------------------------ MODULE Workbench ------------------------------
(***************************************************************************)
(* The sidecar broker of the spatial Codex workbench and the panel that    *)
(* drives it (examples/spatial-codex-workbench).                           *)
(*                                                                         *)
(* The broker is one Node.js event loop.  A request handler runs alone     *)
(* until it awaits; meanwhile other handlers, and the processes started    *)
(* for a Codex run, a build or a device login, go on.  A handler in flight *)
(* is a frame whose field "at" names the await it is suspended in.         *)
(*                                                                         *)
(* The panel sends its requests from a single-thread executor, one at a    *)
(* time, and stops waiting for an answer after 120 s.  The broker does not *)
(* notice: the handler it gave up on runs on beside the next one.          *)
(*                                                                         *)
(* A worktree is reduced to tracked files with a few contents; a commit is *)
(* identified by its tree, and a worktree stays on the branch of its run.  *)
(* In its default sandbox Codex edits the worktree it works in; as the     *)
(* headset's launcher starts it, it has full access and changes the index  *)
(* and the branch of any run as well.  Left out of what full access        *)
(* allows: switching a worktree to another branch (a push refuses that),   *)
(* deleting one, changing the source checkout a run is added from, and     *)
(* processes that outlive Codex.                                           *)
(*                                                                         *)
(* A request refused by its first, synchronous checks changes nothing and  *)
(* is left out; so are the requests that only read, except the one that    *)
(* shows the diff to review.                                               *)
(***************************************************************************)
EXTENDS Naturals

CONSTANTS Slots,          \* handlers in flight, the abandoned ones included
          Workspaces,     \* names a workspace can be created or cloned under
          Runs,           \* identifiers of run worktrees
          CodexIds,       \* operations of Codex, one per process alive
          BuildIds,       \* operations of the build adapter, likewise
          Files,          \* files of a worktree; one is the version file
          VersionFile,
          MaxContent,     \* bound: a file has contents 0 .. MaxContent
          CodexSandbox,   \* what the sidecar passes to codex exec
          Text(_),        \* what a diff is shown and hashed as: the git diffs
                          \* and untracked files, cut at 2 MB, binary files
                          \* by name.  Two diffs may have one text.
          Truncated(_),   \* is the text of the diff cut?
          NoSlot, NoId, NoRun, NoWorkspace, NoToken

ASSUME WorkbenchAssumption ==
  /\ VersionFile \in Files
  /\ MaxContent \in Nat
  /\ CodexSandbox \in {"workspace-write", "danger-full-access"}
  /\ NoSlot \notin Slots /\ NoRun \notin Runs /\ NoWorkspace \notin Workspaces
  /\ NoId \notin CodexIds \cup BuildIds

VARIABLES
  current,      \* WorkspaceManager.current: the workspace and its run
  created,      \* the workspaces whose directory exists
  checkout,     \* per run: the commit HEAD, the index and the working files
  frames,       \* per slot: the handler in flight, or Idle
  waiting,      \* the slot whose answer the panel waits for
  givenUp,      \* has the panel ever given up on an answer (history)
  token,        \* state.reviewToken of the panel: the text it was shown last
  headMoved,    \* the runs whose HEAD Codex has moved while a push is in
                \* flight (history)
  codexActive,  \* CodexExecRunner.activeId
  codex,        \* per operation: its process and the worktree it is in
  buildActive,  \* BuildAdapter.activeId
  builds,       \* per operation: its process and what the record says
  login         \* the device login: idle, running or aborting

vars == <<current, created, checkout, frames, waiting, givenUp, token, headMoved,
          codexActive, codex, buildActive, builds, login>>

repo == <<current, created, checkout>>
notes == <<token, headMoved>>
tasks == <<codexActive, codex, buildActive, builds, login>>

-----------------------------------------------------------------------------
(* Trees, diffs and frames. *)

Contents == 0 .. MaxContent
Trees == [Files -> Contents]
BaseTree == [f \in Files |-> 0]

\* WorkspaceManager.diff: per changed file what HEAD, the index and the
\* worktree hold.  The review token is the hash of its Text, which may say less.
Diff(r) ==
  LET c == checkout[r]
      changed == {f \in Files : c.work[f] # c.index[f] \/ c.index[f] # c.head[f]}
  IN  [f \in changed |-> [head |-> c.head[f], index |-> c.index[f], work |-> c.work[f]]]

Clean(r) == DOMAIN Diff(r) = {}

Idle == [kind |-> "idle", at |-> "idle"]
FreeCodex == [process |-> "free", run |-> NoRun]
FreeBuild == [process |-> "free"]

Init ==
  /\ current = [workspace |-> NoWorkspace, run |-> NoRun]
  /\ created = {}
  /\ checkout = [r \in {} |-> BaseTree]
  /\ frames = [s \in Slots |-> Idle]
  /\ waiting = NoSlot
  /\ givenUp = FALSE
  /\ token = NoToken
  /\ headMoved = {}
  /\ codexActive = NoId
  /\ codex = [c \in CodexIds |-> FreeCodex]
  /\ buildActive = NoId
  /\ builds = [b \in BuildIds |-> FreeBuild]
  /\ login = "idle"

-----------------------------------------------------------------------------
(* The panel and its requests. *)

\* The single-thread executor sends a request when none is outstanding.
PanelIsFree == waiting = NoSlot

\* A request arrives; its handler runs to its first await.
Open(s, frame) ==
  /\ PanelIsFree
  /\ frames[s] = Idle
  /\ frames' = [frames EXCEPT ![s] = frame]
  /\ waiting' = s
  /\ UNCHANGED givenUp

\* The handler resumes and suspends again.
Suspend(s, frame) ==
  /\ frames' = [frames EXCEPT ![s] = frame]
  /\ UNCHANGED <<waiting, givenUp>>

\* With a bug: the handler fails and no one answers.
AnswerLost(s) ==
  /\ frames' = [frames EXCEPT ![s] = Idle]
  /\ UNCHANGED <<waiting, givenUp>>

\* The handler ends, with a result or an error; the answer to an abandoned
\* request goes to a closed socket.
Answer(s) ==
  /\ frames' = [frames EXCEPT ![s] = Idle]
  /\ waiting' = IF waiting = s THEN NoSlot ELSE waiting
  /\ UNCHANGED givenUp

\* The requests whose awaits may add up to more than the panel's 120 s.  The
\* others await a small local file, or processes with a limit of 30 s (login
\* status) or of the panel's own 120 s (the git status of a build, whose
\* commands run side by side and fail the request when the limit ends them).
\* That a status which still succeeds is answered before the panel's limit,
\* counted from a little earlier, is an assumption.
Outlasting == {"workspace", "run", "commit", "discard", "push"}

GiveUp(s) ==
  /\ waiting = s
  /\ frames[s].kind \in Outlasting
  /\ waiting' = NoSlot
  /\ givenUp' = TRUE
  /\ UNCHANGED <<repo, frames, notes, tasks>>

-----------------------------------------------------------------------------
(* Workspaces and runs. *)

\* createDemo and cloneRepository: the directory must not exist yet.
CreateWorkspace(s, w) ==
  /\ w \notin created
  /\ created' = created \cup {w}
  /\ Open(s, [kind |-> "workspace", at |-> "git", workspace |-> w])
  /\ UNCHANGED <<current, checkout, notes, tasks>>

\* git init/add/commit or git clone ends; the new workspace replaces the
\* current one, whatever has happened to it meanwhile.
WorkspaceCreated(s) ==
  /\ frames[s].kind = "workspace"
  /\ current' = [workspace |-> frames[s].workspace, run |-> NoRun]
  /\ Answer(s)
  /\ UNCHANGED <<created, checkout, notes, tasks>>

\* A failed clone removes the directory, a failed demo leaves what it copied.
WorkspaceFails(s) ==
  /\ frames[s].kind = "workspace"
  /\ created' \in {created, created \ {frames[s].workspace}}
  /\ Answer(s)
  /\ UNCHANGED <<current, checkout, notes, tasks>>

\* createRun: one run per workspace of the session.
CreateRun(s) ==
  /\ current.workspace # NoWorkspace
  /\ current.run = NoRun
  /\ Open(s, [kind |-> "run", at |-> "status"])
  /\ UNCHANGED <<repo, notes, tasks>>

\* git worktree add, from the checkout that is current by now.
RunAdds(s, r) ==
  /\ frames[s].kind = "run" /\ frames[s].at = "status"
  /\ r \notin DOMAIN checkout
  /\ \A t \in Slots : frames[t].at = "added" => frames[t].run # r
  /\ Suspend(s, [kind |-> "run", at |-> "added", run |-> r])
  /\ checkout' = [x \in DOMAIN checkout \cup {r} |->
                    IF x = r THEN [head |-> BaseTree, index |-> BaseTree, work |-> BaseTree]
                             ELSE checkout[x]]
  /\ UNCHANGED <<current, created, notes, tasks>>

RunCreated(s) ==
  /\ frames[s].kind = "run" /\ frames[s].at = "added"
  /\ current' = [current EXCEPT !.run = frames[s].run]
  /\ Answer(s)
  /\ UNCHANGED <<created, checkout, notes, tasks>>

RunFails(s) ==
  /\ frames[s].kind = "run"
  /\ Answer(s)
  /\ UNCHANGED <<repo, notes, tasks>>

-----------------------------------------------------------------------------
(* The repository of the current run. *)

EnsureNoActiveCodex == codexActive = NoId

\* GET /v1/repository/diff: the panel keeps the token of the text it shows.
ReviewDiff ==
  /\ PanelIsFree
  /\ current.run # NoRun
  /\ token' = Text(Diff(current.run))
  /\ UNCHANGED <<repo, frames, waiting, givenUp, headMoved, tasks>>

\* POST /v1/repository/version/patch.
BumpVersion(s) ==
  /\ EnsureNoActiveCodex
  /\ current.run # NoRun
  /\ Open(s, [kind |-> "bump", at |-> "read", run |-> current.run])
  /\ UNCHANGED <<repo, notes, tasks>>

VersionRead(s) ==
  /\ frames[s].kind = "bump" /\ frames[s].at = "read"
  /\ LET r == frames[s].run
         read == checkout[r].work[VersionFile]
     IN  Suspend(s, [kind |-> "bump", at |-> "write", run |-> r, read |-> read])
  /\ UNCHANGED <<repo, notes, tasks>>

VersionWritten(s) ==
  /\ frames[s].kind = "bump" /\ frames[s].at = "write"
  /\ LET next == frames[s].read + 1
     IN  /\ next \in Contents
         /\ checkout' = [checkout EXCEPT ![frames[s].run].work[VersionFile] = next]
  /\ Answer(s)
  /\ UNCHANGED <<current, created, notes, tasks>>

VersionFails(s) ==
  /\ frames[s].kind = "bump"
  /\ Answer(s)
  /\ UNCHANGED <<repo, notes, tasks>>

\* POST commit or discard: Codex must be idle when the request arrives; the
\* body, with the reviewed token, is awaited next.  The panel forgets its
\* token after the request; one kept longer here only allows more.
MutateReviewed(s, kind) ==
  /\ EnsureNoActiveCodex
  /\ Open(s, [kind |-> kind, at |-> "body", token |-> token])
  /\ UNCHANGED <<repo, notes, tasks>>

\* The body is read: the worktree of the run that is current now is diffed.
BodyRead(s) ==
  /\ frames[s].kind \in {"commit", "discard"} /\ frames[s].at = "body"
  /\ IF current.run = NoRun
       THEN Answer(s)
       ELSE Suspend(s, [kind |-> frames[s].kind, at |-> "diff",
                        token |-> frames[s].token, run |-> current.run])
  /\ UNCHANGED <<repo, notes, tasks>>

\* The token must be that of the diff as it is now.  A commit needs a change
\* and an uncut text; a discard asks for neither.
DiffRead(s) ==
  /\ frames[s].kind \in {"commit", "discard"} /\ frames[s].at = "diff"
  /\ LET found == Diff(frames[s].run)
     IN  /\ Text(found) = frames[s].token
         /\ frames[s].kind = "commit" => ~Truncated(found) /\ DOMAIN found # {}
         /\ Suspend(s, [kind |-> frames[s].kind, at |-> "reviewed", run |-> frames[s].run,
                        token |-> frames[s].token, found |-> found])
  /\ UNCHANGED <<repo, notes, tasks>>

\* With a bug: git commit is started and not awaited; the panel is answered.
FilesAddedNotAwaited(s) ==
  /\ frames[s].kind = "commit" /\ frames[s].at = "reviewed"
  /\ LET r == frames[s].run
     IN  checkout' = [checkout EXCEPT ![r].index =
                        [f \in Files |-> IF f \in DOMAIN frames[s].found
                                           THEN checkout[r].work[f] ELSE @[f]]]
  /\ frames' = [frames EXCEPT ![s].at = "staged"]
  /\ waiting' = IF waiting = s THEN NoSlot ELSE waiting
  /\ UNCHANGED <<current, created, givenUp, notes, tasks>>

\* git add of the changed files, those the text names or cuts off; the panel
\* never selects fewer.
FilesAdded(s) ==
  /\ frames[s].kind = "commit" /\ frames[s].at = "reviewed"
  /\ LET r == frames[s].run
     IN  checkout' = [checkout EXCEPT ![r].index =
                        [f \in Files |-> IF f \in DOMAIN frames[s].found
                                           THEN checkout[r].work[f] ELSE @[f]]]
  /\ Suspend(s, [frames[s] EXCEPT !.at = "staged"])
  /\ UNCHANGED <<current, created, notes, tasks>>

\* git commit makes the index the new HEAD; with nothing staged it fails.
Committed(s) ==
  /\ frames[s].kind = "commit" /\ frames[s].at = "staged"
  /\ LET r == frames[s].run
     IN  /\ checkout[r].index # checkout[r].head
         /\ checkout' = [checkout EXCEPT ![r].head = checkout[r].index]
  /\ Suspend(s, [kind |-> "commit", at |-> "committed"])
  /\ UNCHANGED <<current, created, notes, tasks>>

\* git reset --hard and git clean: the worktree loses all its changes, those
\* that the text did not show included.
Discarded(s) ==
  /\ frames[s].kind = "discard" /\ frames[s].at = "reviewed"
  /\ LET r == frames[s].run
     IN  checkout' = [checkout EXCEPT ![r].index = checkout[r].head,
                                      ![r].work = checkout[r].head]
  /\ Suspend(s, [kind |-> "discard", at |-> "discarded"])
  /\ UNCHANGED <<current, created, notes, tasks>>

\* The handler answers after the last git status, or a check or a git command
\* of it fails; what earlier commands did stays.
MutationEnds(s) ==
  /\ frames[s].kind \in {"commit", "discard"} /\ frames[s].at # "body"
  /\ Answer(s)
  /\ UNCHANGED <<repo, notes, tasks>>

-----------------------------------------------------------------------------
(* Codex runs and the device login. *)

\* CodexExecRunner.start, up to the await of codex login status.
StartCodex(s) ==
  /\ codexActive = NoId
  /\ login = "idle"
  /\ Open(s, [kind |-> "codex", at |-> "login status"])
  /\ UNCHANGED <<repo, notes, tasks>>

\* The CLI is authenticated: the process starts in the current worktree.
CodexStarts(s, c) ==
  /\ frames[s].kind = "codex"
  /\ current.run # NoRun
  /\ codex[c] = FreeCodex
  /\ codexActive' = c
  /\ codex' = [codex EXCEPT ![c] = [process |-> "running", run |-> current.run]]
  /\ Answer(s)
  /\ UNCHANGED <<repo, notes, buildActive, builds, login>>

\* Not authenticated, or no run to work in.
CodexRefused(s) ==
  /\ frames[s].kind = "codex"
  /\ Answer(s)
  /\ UNCHANGED <<repo, notes, tasks>>

\* Aborted or not, the process edits until it is gone: in its sandbox the
\* worktree it was started in, with full access every worktree, its index and,
\* by a commit or a reset, its HEAD.
CodexEdits(c, r, part, tree) ==
  /\ codex[c].process # "free"
  /\ CodexSandbox = "workspace-write" => r = codex[c].run /\ part = "work"
  /\ checkout' = [checkout EXCEPT ![r][part] = tree]
  /\ headMoved' = IF part = "head" /\ \E s \in Slots : frames[s].kind = "push"
                   THEN headMoved \cup {r} ELSE headMoved
  /\ UNCHANGED <<current, created, frames, waiting, givenUp, token, tasks>>

\* With a bug: a cancelled operation is no longer active.
CancelCodexAtOnce(c) ==
  /\ PanelIsFree
  /\ codex[c].process = "running"
  /\ codex' = [codex EXCEPT ![c].process = "aborting"]
  /\ codexActive' = NoId
  /\ UNCHANGED <<repo, frames, waiting, givenUp, notes, buildActive, builds, login>>

\* cancel: SIGTERM, SIGKILL two seconds later.  The operation stays active.
CancelCodex(c) ==
  /\ PanelIsFree
  /\ codex[c].process = "running"
  /\ codex' = [codex EXCEPT ![c].process = "aborting"]
  /\ UNCHANGED <<repo, frames, waiting, givenUp, notes, codexActive,
                 buildActive, builds, login>>

\* The process is gone: completed, failed, canceled or over its 30 minutes.
CodexEnds(c) ==
  /\ codex[c].process # "free"
  /\ codex' = [codex EXCEPT ![c] = FreeCodex]
  /\ codexActive' = IF codexActive = c THEN NoId ELSE codexActive
  /\ UNCHANGED <<repo, frames, waiting, givenUp, notes, buildActive, builds, login>>

\* startDeviceLogin, up to the await of codex login status.
StartLogin(s) ==
  /\ codexActive = NoId
  /\ login = "idle"
  /\ Open(s, [kind |-> "login", at |-> "login status"])
  /\ UNCHANGED <<repo, notes, tasks>>

LoginStarts(s) ==
  /\ frames[s].kind = "login"
  /\ login' = "running"
  /\ Answer(s)
  /\ UNCHANGED <<repo, notes, codexActive, codex, buildActive, builds>>

AlreadyLoggedIn(s) ==
  /\ frames[s].kind = "login"
  /\ Answer(s)
  /\ UNCHANGED <<repo, notes, tasks>>

\* cancelDeviceLogin: the record says running until the process is gone.
CancelLogin ==
  /\ PanelIsFree
  /\ login = "running"
  /\ login' = "aborting"
  /\ UNCHANGED <<repo, frames, waiting, givenUp, notes, codexActive, codex,
                 buildActive, builds>>

LoginEnds ==
  /\ login # "idle"
  /\ login' = "idle"
  /\ UNCHANGED <<repo, frames, waiting, givenUp, notes, codexActive, codex,
                 buildActive, builds>>

-----------------------------------------------------------------------------
(* Builds and the push of the run branch. *)

\* POST /v1/builds: Codex must be idle when the request arrives.
StartBuild(s, kind) ==
  /\ EnsureNoActiveCodex
  /\ Open(s, [kind |-> "build", at |-> "body", build |-> kind])
  /\ UNCHANGED <<repo, notes, tasks>>

\* With a bug: an active build is not looked for.
BuildChecksRunOnly(s) ==
  /\ frames[s].kind = "build" /\ frames[s].at = "body"
  /\ IF current.run # NoRun
       THEN Suspend(s, [kind |-> "build", at |-> "status", build |-> frames[s].build,
                        run |-> current.run, read |-> {}, head |-> BaseTree, clean |-> FALSE])
       ELSE Answer(s)
  /\ UNCHANGED <<repo, notes, tasks>>

\* BuildAdapter.start: the worktree is fixed before the await of git status.
BuildChecks(s) ==
  /\ frames[s].kind = "build" /\ frames[s].at = "body"
  /\ IF buildActive = NoId /\ current.run # NoRun
       THEN Suspend(s, [kind |-> "build", at |-> "status", build |-> frames[s].build,
                        run |-> current.run, read |-> {}, head |-> BaseTree, clean |-> FALSE])
       ELSE Answer(s)
  /\ UNCHANGED <<repo, notes, tasks>>

\* statusAt runs its git commands in parallel: HEAD and the cleanness of the
\* worktree are read at two instants, in either order.
ReadHead(s) ==
  /\ frames[s].at = "status" /\ frames[s].kind \in {"build", "push"}
  /\ "head" \notin frames[s].read
  /\ Suspend(s, [frames[s] EXCEPT !.read = @ \cup {"head"},
                                  !.head = checkout[frames[s].run].head])
  /\ UNCHANGED <<repo, notes, tasks>>

ReadClean(s) ==
  /\ frames[s].at = "status" /\ frames[s].kind \in {"build", "push"}
  /\ "clean" \notin frames[s].read
  /\ Suspend(s, [frames[s] EXCEPT !.read = @ \cup {"clean"},
                                  !.clean = Clean(frames[s].run)])
  /\ UNCHANGED <<repo, notes, tasks>>

StatusRead(s) == frames[s].at = "status" /\ frames[s].read = {"head", "clean"}

\* The build starts: a candidate only from a clean worktree.  What a preview
\* is made of, and the commit its record names, matter to no one: not kept.
BuildStarts(s, b) ==
  /\ frames[s].kind = "build" /\ StatusRead(s)
  /\ frames[s].build = "candidate" => frames[s].clean
  /\ current.run # NoRun
  /\ builds[b] = FreeBuild
  /\ buildActive' = b
  /\ builds' = [builds EXCEPT ![b] =
                  [process |-> "running", build |-> frames[s].build, run |-> frames[s].run,
                   unread |-> Files,
                   commit |-> IF frames[s].build = "candidate" THEN frames[s].head ELSE BaseTree,
                   built |-> BaseTree]]
  /\ Answer(s)
  /\ UNCHANGED <<repo, notes, codexActive, codex, login>>

BuildRefused(s) ==
  /\ frames[s].kind = "build" /\ frames[s].at = "status"
  /\ Answer(s)
  /\ UNCHANGED <<repo, notes, tasks>>

\* build.sh reads the version file first and compiles the other files later;
\* the build is complete once it has read all.
ScriptReads(b, f) ==
  /\ builds[b].process = "running"
  /\ f \in builds[b].unread
  /\ f = VersionFile \/ VersionFile \notin builds[b].unread
  /\ builds' = [builds EXCEPT ![b] =
        [builds[b] EXCEPT
           !.unread = builds[b].unread \ {f},
           !.process = IF builds[b].unread = {f} THEN "completed" ELSE "running",
           !.built[f] = IF builds[b].build = "candidate"
                          THEN checkout[builds[b].run].work[f] ELSE 0]]
  /\ UNCHANGED <<repo, frames, waiting, givenUp, notes, codexActive, codex,
                 buildActive, login>>

\* The script fails or is stopped after 20 minutes; or the artifact has been
\* accepted and the capsule is written, or cannot be.
BuildEnds(b) ==
  /\ builds[b].process # "free"
  /\ builds' = [builds EXCEPT ![b] = FreeBuild]
  /\ buildActive' = IF buildActive = b THEN NoId ELSE buildActive
  /\ UNCHANGED <<repo, frames, waiting, givenUp, notes, codexActive, codex, login>>

\* pushDraftPr; Codex and a build may be active.
Push(s) ==
  /\ current.run # NoRun
  /\ Open(s, [kind |-> "push", at |-> "status", run |-> current.run,
              read |-> {}, head |-> BaseTree, clean |-> FALSE])
  /\ UNCHANGED <<repo, notes, tasks>>

\* The worktree is clean and its branch is that of the current run.
PushChecked(s) ==
  /\ frames[s].kind = "push" /\ StatusRead(s)
  /\ frames[s].clean
  /\ current.run = frames[s].run
  /\ Suspend(s, [kind |-> "push", at |-> "push", run |-> frames[s].run,
                 head |-> frames[s].head])
  /\ UNCHANGED <<repo, notes, tasks>>

\* git push sends the tip of the branch; gh pr create follows.
Pushed(s) ==
  /\ frames[s].kind = "push" /\ frames[s].at = "push"
  /\ Suspend(s, [kind |-> "push", at |-> "pushed"])
  /\ UNCHANGED <<repo, notes, tasks>>

\* The pull request exists, or a check or a command failed.
PushEnds(s) ==
  /\ frames[s].kind = "push"
  /\ Answer(s)
  /\ headMoved' = {}
  /\ UNCHANGED <<repo, token, tasks>>

-----------------------------------------------------------------------------
(* The specification. *)

Request(s) ==
  \/ \E w \in Workspaces : CreateWorkspace(s, w)
  \/ CreateRun(s) \/ BumpVersion(s)
  \/ \E kind \in {"commit", "discard"} : MutateReviewed(s, kind)
  \/ StartCodex(s) \/ StartLogin(s)
  \/ \E kind \in {"preview", "candidate"} : StartBuild(s, kind)
  \/ Push(s)

Resume(s) ==
  \/ WorkspaceCreated(s) \/ WorkspaceFails(s)
  \/ \E r \in Runs : RunAdds(s, r)
  \/ RunCreated(s) \/ RunFails(s)
  \/ VersionRead(s) \/ VersionWritten(s) \/ VersionFails(s)
  \/ BodyRead(s) \/ DiffRead(s)
  \/ FilesAdded(s) \/ Committed(s) \/ Discarded(s) \/ MutationEnds(s)
  \/ \E c \in CodexIds : CodexStarts(s, c)
  \/ CodexRefused(s) \/ LoginStarts(s) \/ AlreadyLoggedIn(s)
  \/ BuildChecks(s) \/ ReadHead(s) \/ ReadClean(s)
  \/ \E b \in BuildIds : BuildStarts(s, b)
  \/ BuildRefused(s)
  \/ PushChecked(s) \/ Pushed(s) \/ PushEnds(s)

Background ==
  \/ \E c \in CodexIds : CodexEnds(c) \/ CancelCodex(c)
  \/ \E c \in CodexIds, r \in DOMAIN checkout, part \in {"head", "index", "work"}, tree \in Trees :
       CodexEdits(c, r, part, tree)
  \/ \E b \in BuildIds : BuildEnds(b) \/ \E f \in Files : ScriptReads(b, f)
  \/ CancelLogin \/ LoginEnds

Next ==
  \/ \E s \in Slots : Request(s) \/ Resume(s) \/ GiveUp(s)
  \/ ReviewDiff
  \/ Background

Spec == Init /\ [][Next]_vars

-----------------------------------------------------------------------------
(* Properties. *)

\* Every variable has the values its declaration names.
TypeOK ==
  /\ current \in [workspace : Workspaces \cup {NoWorkspace}, run : Runs \cup {NoRun}]
  /\ created \subseteq Workspaces
  /\ DOMAIN checkout \subseteq Runs
  /\ \A r \in DOMAIN checkout : checkout[r] \in [head : Trees, index : Trees, work : Trees]
  /\ current.run # NoRun => current.run \in DOMAIN checkout
  /\ waiting \in Slots \cup {NoSlot}
  /\ waiting # NoSlot => frames[waiting] # Idle
  /\ givenUp \in BOOLEAN
  /\ headMoved \subseteq Runs
  /\ codexActive \in CodexIds \cup {NoId}
  /\ \A c \in CodexIds : codex[c] # FreeCodex => codex[c].run \in DOMAIN checkout
  /\ buildActive \in BuildIds \cup {NoId}
  /\ \A b \in BuildIds : builds[b] # FreeBuild => builds[b].run \in DOMAIN checkout
  /\ login \in {"idle", "running", "aborting"}

\* The active Codex run and the active build are the ones whose process is
\* alive: never two processes, none that is not the active one, and no slot
\* still taken when its process is gone.  No Codex process lives beside a
\* device login.  This although each start checks before an await and acts
\* after it, a cancelled process outlives its cancel, and abandoned handlers
\* are still in flight.
OneAtATime ==
  /\ \A c \in CodexIds : codex[c].process # "free" <=> codexActive = c
  /\ \A b \in BuildIds : builds[b].process # "free" <=> buildActive = b
  /\ login # "idle" => codexActive = NoId
  /\ \A s \in Slots : frames[s].kind = "login" => login = "idle"

\* As long as the panel has given up on no answer, what a commit makes of the
\* branch and what a discard loses is exactly the diff whose text the panel
\* showed: nothing slips in between the diff that is compared with the token
\* and the commands that act.  A committed diff was shown uncut; a discarded
\* one may hold more than its text, which discard does not ask to be whole.
ReviewedIsActedOn ==
  [][givenUp \/ \A s \in Slots :
       LET r == frames[s].run
           found == frames[s].found
       IN  /\ frames[s].at = "staged" /\ frames'[s].at = "committed" =>
                /\ Text(found) = frames[s].token /\ ~Truncated(found)
                /\ \A f \in Files :
                     checkout'[r].head[f] =
                       IF f \in DOMAIN found THEN found[f].work ELSE checkout[r].head[f]
           /\ frames[s].at = "reviewed" /\ frames'[s].at = "discarded" =>
                Text(found) = frames[s].token /\ Diff(r) = found]_vars

\* As long as the panel has given up on no answer, the commit whose clean
\* worktree was checked, and which the answer names as the head of the pull
\* request, is the one that was pushed, unless Codex, with full access, has
\* moved the branch since the request arrived: a push does not ask Codex to be
\* idle.
PushedIsReported ==
  [][givenUp \/ \A s \in Slots :
       frames[s].at = "push" /\ frames'[s].at = "pushed" =>
         \/ checkout[frames[s].run].head = frames[s].head
         \/ frames[s].run \in headMoved]_vars

\* A candidate build is made from the commit its record names.
CandidateIsItsCommit ==
  \A b \in BuildIds :
    builds[b].process = "completed" /\ builds[b].build = "candidate"
      => builds[b].built = builds[b].commit
=============================================================================
