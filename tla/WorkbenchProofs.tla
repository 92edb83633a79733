--------------------------- MODULE WorkbenchProofs ---------------------------
(***************************************************************************)
(* At most one Codex process, one build and one login; a commit, a discard *)
(* and a push act on what was reviewed or checked as long as no answer was *)
(* given up on: for any number of handlers in flight, workspaces, runs,    *)
(* files and operations.                                                   *)
(***************************************************************************)
EXTENDS Workbench, TLAPS

\* The functions have their domains, the records the fields that are read.
Shape ==
  /\ frames = [s \in Slots |-> frames[s]]
  /\ codex = [c \in CodexIds |-> codex[c]]
  /\ builds = [b \in BuildIds |-> builds[b]]
  /\ \A s \in Slots : {"kind", "at"} \subseteq DOMAIN frames[s]
  /\ \A c \in CodexIds : "process" \in DOMAIN codex[c]
  /\ \A b \in BuildIds : "process" \in DOMAIN builds[b]
  /\ waiting \in Slots \cup {NoSlot}

\* The panel never gives up on a request that starts a process.
StartsAreAwaited ==
  \A s \in Slots : frames[s].kind \in {"codex", "login", "build"} => waiting = s

\* The parts of a worktree that Codex edits.
Parts == {"head", "index", "work"}

\* What such a request found before its await still holds after it.
FoundStillHolds ==
  /\ \A s \in Slots : frames[s].kind \in {"codex", "login"} =>
                        codexActive = NoId /\ login = "idle"
  /\ \A s \in Slots : frames[s].kind = "build" /\ frames[s].at = "status" => buildActive = NoId

IInv == Shape /\ StartsAreAwaited /\ FoundStillHolds /\ OneAtATime

-----------------------------------------------------------------------------
(* How a handler's own steps change what the invariant reads.              *)

LEMMA InitOK == Init => IInv
  <1> SUFFICES ASSUME Init PROVE IInv
    OBVIOUS
  <1> USE WorkbenchAssumption DEF Init, Idle, FreeCodex, FreeBuild
  <1>1. Shape
    BY DEF Shape
  <1>2. StartsAreAwaited
    BY DEF StartsAreAwaited
  <1>3. FoundStillHolds
    BY DEF FoundStillHolds
  <1>4. OneAtATime
    BY DEF OneAtATime
  <1> QED BY <1>1, <1>2, <1>3, <1>4 DEF IInv

LEMMA AnswerKeeps ==
    ASSUME IInv, NEW s \in Slots, Answer(s), UNCHANGED tasks
    PROVE  IInv'
  <1>1. /\ frames'[s] = Idle
        /\ \A t \in Slots \ {s} : frames'[t] = frames[t]
    BY DEF Answer, IInv, Shape
  <1>2. Shape'
    BY <1>1 DEF IInv, Shape, Answer, tasks, Idle
  <1>3. StartsAreAwaited'
    BY <1>1, WorkbenchAssumption DEF IInv, StartsAreAwaited, Answer, Idle
  <1>4. FoundStillHolds'
    BY <1>1 DEF IInv, FoundStillHolds, tasks, Idle
  <1>5. OneAtATime'
    BY <1>1 DEF IInv, OneAtATime, tasks, Idle
  <1> QED BY <1>2, <1>3, <1>4, <1>5 DEF IInv

LEMMA SuspendKeeps ==
    ASSUME IInv, NEW s \in Slots, NEW frame, Suspend(s, frame), UNCHANGED tasks,
           {"kind", "at"} \subseteq DOMAIN frame,
           frame.kind = frames[s].kind,
           frame.kind = "build" /\ frame.at = "status" => buildActive = NoId
    PROVE  IInv'
  <1>1. /\ frames'[s] = frame
        /\ \A t \in Slots \ {s} : frames'[t] = frames[t]
        /\ \A t \in Slots : frames'[t].kind = frames[t].kind
    BY DEF Suspend, IInv, Shape
  <1>2. Shape'
    BY <1>1 DEF IInv, Shape, Suspend, tasks
  <1>3. StartsAreAwaited'
    BY <1>1 DEF IInv, StartsAreAwaited, Suspend
  <1>4. FoundStillHolds'
    BY <1>1 DEF IInv, FoundStillHolds, tasks
  <1>5. OneAtATime'
    BY <1>1 DEF IInv, OneAtATime, tasks
  <1> QED BY <1>2, <1>3, <1>4, <1>5 DEF IInv

LEMMA OpenKeeps ==
    ASSUME IInv, NEW s \in Slots, NEW frame, Open(s, frame), UNCHANGED tasks,
           {"kind", "at"} \subseteq DOMAIN frame,
           frame.kind \in {"codex", "login"} => codexActive = NoId /\ login = "idle",
           frame.at # "status" \/ frame.kind # "build"
    PROVE  IInv'
  <1>1. /\ frames'[s] = frame
        /\ \A t \in Slots \ {s} : frames'[t] = frames[t]
    BY DEF Open, IInv, Shape
  <1>2. \A t \in Slots : frames[t].kind \notin {"codex", "login", "build"}
    BY WorkbenchAssumption DEF Open, PanelIsFree, IInv, StartsAreAwaited
  <1>3. Shape'
    BY <1>1 DEF IInv, Shape, Open, tasks
  <1>4. StartsAreAwaited'
    BY <1>1, <1>2 DEF StartsAreAwaited, Open
  <1>5. FoundStillHolds'
    BY <1>1, <1>2 DEF IInv, FoundStillHolds, tasks
  <1>6. OneAtATime'
    BY <1>1 DEF IInv, OneAtATime, tasks
  <1> QED BY <1>3, <1>4, <1>5, <1>6 DEF IInv

\* A step that leaves the handlers and the processes alone.
LEMMA StutterKeeps ==
    ASSUME IInv, UNCHANGED <<frames, waiting, tasks>>
    PROVE  IInv'
  BY DEF IInv, Shape, StartsAreAwaited, FoundStillHolds, OneAtATime, tasks

LEMMA GiveUpKeeps ==
    ASSUME IInv, NEW s \in Slots, GiveUp(s)
    PROVE  IInv'
  <1>1. \A t \in Slots : frames[t].kind \notin {"codex", "login", "build"}
    BY DEF GiveUp, Outlasting, IInv, StartsAreAwaited
  <1> QED
    BY <1>1 DEF GiveUp, IInv, Shape, StartsAreAwaited, FoundStillHolds, OneAtATime, tasks

-----------------------------------------------------------------------------
(* A request arrives, and a handler that starts nothing resumes.           *)

LEMMA RequestKeeps ==
    ASSUME IInv, NEW s \in Slots, Request(s)
    PROVE  IInv'
  <1>1. ASSUME NEW w \in Workspaces, CreateWorkspace(s, w) PROVE IInv'
    BY <1>1, OpenKeeps DEF CreateWorkspace
  <1>2. CASE CreateRun(s)
    BY <1>2, OpenKeeps DEF CreateRun
  <1>3. CASE BumpVersion(s)
    BY <1>3, OpenKeeps DEF BumpVersion
  <1>4. ASSUME NEW kind \in {"commit", "discard"}, MutateReviewed(s, kind) PROVE IInv'
    BY <1>4, OpenKeeps DEF MutateReviewed
  <1>5. CASE StartCodex(s)
    BY <1>5, OpenKeeps DEF StartCodex
  <1>6. CASE StartLogin(s)
    BY <1>6, OpenKeeps DEF StartLogin
  <1>7. ASSUME NEW kind \in {"preview", "candidate"}, StartBuild(s, kind) PROVE IInv'
    BY <1>7, OpenKeeps DEF StartBuild
  <1>8. CASE Push(s)
    BY <1>8, OpenKeeps DEF Push
  <1> QED BY <1>1, <1>2, <1>3, <1>4, <1>5, <1>6, <1>7, <1>8 DEF Request

\* The handlers that only read and write the repository.
LEMMA RepositoryKeeps ==
    ASSUME IInv, NEW s \in Slots,
           \/ WorkspaceCreated(s) \/ WorkspaceFails(s)
           \/ \E r \in Runs : RunAdds(s, r)
           \/ RunCreated(s) \/ RunFails(s)
           \/ VersionRead(s) \/ VersionWritten(s) \/ VersionFails(s)
           \/ BodyRead(s) \/ DiffRead(s)
           \/ FilesAdded(s) \/ Committed(s) \/ Discarded(s) \/ MutationEnds(s)
           \/ PushChecked(s) \/ Pushed(s) \/ PushEnds(s)
    PROVE  IInv'
  <1>1. CASE WorkspaceCreated(s) \/ WorkspaceFails(s) \/ RunCreated(s) \/ RunFails(s)
    BY <1>1, AnswerKeeps DEF WorkspaceCreated, WorkspaceFails, RunCreated, RunFails
  <1>2. CASE VersionWritten(s) \/ VersionFails(s) \/ MutationEnds(s) \/ PushEnds(s)
    BY <1>2, AnswerKeeps DEF VersionWritten, VersionFails, MutationEnds, PushEnds
  <1>3. ASSUME NEW r \in Runs, RunAdds(s, r) PROVE IInv'
    BY <1>3, SuspendKeeps DEF RunAdds
  <1>4. CASE VersionRead(s)
    BY <1>4, SuspendKeeps DEF VersionRead
  <1>5. CASE BodyRead(s)
    BY <1>5, SuspendKeeps, AnswerKeeps DEF BodyRead
  <1>6. CASE DiffRead(s)
    <2> DEFINE frame == [kind |-> frames[s].kind, at |-> "reviewed", run |-> frames[s].run,
                         token |-> frames[s].token, found |-> Diff(frames[s].run)]
    <2>1. {"kind", "at"} \subseteq DOMAIN frame /\ frame.kind = frames[s].kind
      OBVIOUS
    <2>2. frame.kind # "build" /\ Suspend(s, frame) /\ UNCHANGED tasks
      BY <1>6 DEF DiffRead
    <2> HIDE DEF frame
    <2> QED BY <2>1, <2>2, SuspendKeeps
  <1>7. CASE FilesAdded(s)
    <2> DEFINE frame == [frames[s] EXCEPT !.at = "staged"]
    <2>1. {"kind", "at"} \subseteq DOMAIN frame /\ frame.kind = frames[s].kind
      BY DEF IInv, Shape
    <2>2. frame.kind # "build" /\ Suspend(s, frame) /\ UNCHANGED tasks
      BY <1>7, <2>1 DEF FilesAdded
    <2> QED BY <2>1, <2>2, SuspendKeeps
  <1>8. CASE Committed(s)
    BY <1>8, SuspendKeeps DEF Committed
  <1>9. CASE Discarded(s)
    BY <1>9, SuspendKeeps DEF Discarded
  <1>10. CASE PushChecked(s)
    BY <1>10, SuspendKeeps DEF PushChecked
  <1>11. CASE Pushed(s)
    BY <1>11, SuspendKeeps DEF Pushed
  <1> QED BY <1>1, <1>2, <1>3, <1>4, <1>5, <1>6, <1>7, <1>8, <1>9, <1>10, <1>11

\* The handlers of a build until it starts, and the reads they share with a push.
LEMMA StatusKeeps ==
    ASSUME IInv, NEW s \in Slots,
           BuildChecks(s) \/ BuildRefused(s) \/ ReadHead(s) \/ ReadClean(s)
    PROVE  IInv'
  <1>1. CASE BuildChecks(s)
    BY <1>1, SuspendKeeps, AnswerKeeps DEF BuildChecks
  <1>2. CASE BuildRefused(s)
    BY <1>2, AnswerKeeps DEF BuildRefused
  <1>3. CASE ReadHead(s)
    <2> DEFINE frame == [frames[s] EXCEPT !.read = @ \cup {"head"},
                                          !.head = checkout[frames[s].run].head]
    <2>1. /\ {"kind", "at"} \subseteq DOMAIN frame
          /\ frame.kind = frames[s].kind /\ frame.at = frames[s].at
      BY DEF IInv, Shape
    <2>2. Suspend(s, frame) /\ UNCHANGED tasks
      BY <1>3 DEF ReadHead
    <2> HIDE DEF frame
    <2> QED BY <2>1, <2>2, SuspendKeeps DEF IInv, FoundStillHolds
  <1>4. CASE ReadClean(s)
    <2> DEFINE frame == [frames[s] EXCEPT !.read = @ \cup {"clean"},
                                          !.clean = Clean(frames[s].run)]
    <2>1. /\ {"kind", "at"} \subseteq DOMAIN frame
          /\ frame.kind = frames[s].kind /\ frame.at = frames[s].at
      BY DEF IInv, Shape
    <2>2. Suspend(s, frame) /\ UNCHANGED tasks
      BY <1>4 DEF ReadClean
    <2> HIDE DEF frame
    <2> QED BY <2>1, <2>2, SuspendKeeps DEF IInv, FoundStillHolds
  <1> QED BY <1>1, <1>2, <1>3, <1>4

-----------------------------------------------------------------------------
(* The steps that start and end a process.                                 *)

LEMMA CodexStartsKeeps ==
    ASSUME IInv, NEW s \in Slots, NEW c \in CodexIds, CodexStarts(s, c)
    PROVE  IInv'
  <1>1. waiting = s /\ codexActive = NoId /\ login = "idle"
    BY DEF CodexStarts, IInv, StartsAreAwaited, FoundStillHolds
  <1>2. /\ frames'[s] = Idle
        /\ \A t \in Slots \ {s} : frames'[t] = frames[t]
                                  /\ frames[t].kind \notin {"codex", "login", "build"}
    BY <1>1 DEF CodexStarts, Answer, IInv, Shape, StartsAreAwaited
  <1>3. \A d \in CodexIds : codex[d].process = "free"
    BY <1>1, WorkbenchAssumption DEF IInv, OneAtATime
  <1>4. /\ codex'[c].process = "running"
        /\ \A d \in CodexIds \ {c} : codex'[d] = codex[d]
    BY DEF CodexStarts, IInv, Shape
  <1>5. Shape'
    BY <1>2, <1>4 DEF CodexStarts, Answer, IInv, Shape, Idle
  <1>6. StartsAreAwaited' /\ FoundStillHolds'
    BY <1>2 DEF StartsAreAwaited, FoundStillHolds, Idle
  <1>7. OneAtATime'
    BY <1>1, <1>2, <1>3, <1>4 DEF CodexStarts, IInv, OneAtATime, Idle
  <1> QED BY <1>5, <1>6, <1>7 DEF IInv

LEMMA LoginStartsKeeps ==
    ASSUME IInv, NEW s \in Slots, LoginStarts(s)
    PROVE  IInv'
  <1>1. waiting = s /\ codexActive = NoId /\ login = "idle"
    BY DEF LoginStarts, IInv, StartsAreAwaited, FoundStillHolds
  <1>2. /\ frames'[s] = Idle
        /\ \A t \in Slots \ {s} : frames'[t] = frames[t]
                                  /\ frames[t].kind \notin {"codex", "login", "build"}
    BY <1>1 DEF LoginStarts, Answer, IInv, Shape, StartsAreAwaited
  <1>3. Shape'
    BY <1>2 DEF LoginStarts, Answer, IInv, Shape, Idle
  <1>4. StartsAreAwaited' /\ FoundStillHolds'
    BY <1>2 DEF StartsAreAwaited, FoundStillHolds, Idle
  <1>5. OneAtATime'
    BY <1>1, <1>2 DEF LoginStarts, IInv, OneAtATime, Idle
  <1> QED BY <1>3, <1>4, <1>5 DEF IInv

LEMMA BuildStartsKeeps ==
    ASSUME IInv, NEW s \in Slots, NEW b \in BuildIds, BuildStarts(s, b)
    PROVE  IInv'
  <1>1. waiting = s /\ buildActive = NoId
    BY DEF BuildStarts, StatusRead, IInv, StartsAreAwaited, FoundStillHolds
  <1>2. /\ frames'[s] = Idle
        /\ \A t \in Slots \ {s} : frames'[t] = frames[t]
                                  /\ frames[t].kind \notin {"codex", "login", "build"}
    BY <1>1 DEF BuildStarts, Answer, IInv, Shape, StartsAreAwaited
  <1>3. \A d \in BuildIds : builds[d].process = "free"
    BY <1>1, WorkbenchAssumption DEF IInv, OneAtATime
  <1>4. /\ builds'[b].process = "running" /\ "process" \in DOMAIN builds'[b]
        /\ \A d \in BuildIds \ {b} : builds'[d] = builds[d]
    BY DEF BuildStarts, IInv, Shape
  <1>5. Shape'
    BY <1>2, <1>4 DEF BuildStarts, Answer, IInv, Shape, Idle
  <1>6. StartsAreAwaited' /\ FoundStillHolds'
    BY <1>2 DEF StartsAreAwaited, FoundStillHolds, Idle
  <1>7. OneAtATime'
    BY <1>1, <1>2, <1>3, <1>4 DEF BuildStarts, IInv, OneAtATime, Idle
  <1> QED BY <1>5, <1>6, <1>7 DEF IInv

LEMMA ResumeKeeps ==
    ASSUME IInv, NEW s \in Slots, Resume(s)
    PROVE  IInv'
  <1>1. CASE CodexRefused(s) \/ AlreadyLoggedIn(s)
    BY <1>1, AnswerKeeps DEF CodexRefused, AlreadyLoggedIn
  <1>2. CASE (\E c \in CodexIds : CodexStarts(s, c)) \/ LoginStarts(s)
                \/ \E b \in BuildIds : BuildStarts(s, b)
    BY <1>2, CodexStartsKeeps, LoginStartsKeeps, BuildStartsKeeps
  <1> QED BY <1>1, <1>2, RepositoryKeeps, StatusKeeps DEF Resume

\* A Codex process ends, is cancelled or edits; a login is cancelled or ends.
LEMMA CodexKeeps ==
    ASSUME IInv,
           \/ \E c \in CodexIds : CodexEnds(c) \/ CancelCodex(c)
           \/ \E c \in CodexIds, r \in DOMAIN checkout, part \in Parts, tree \in Trees :
                CodexEdits(c, r, part, tree)
           \/ CancelLogin \/ LoginEnds
    PROVE  IInv'
  <1>1. ASSUME NEW c \in CodexIds, CodexEnds(c) PROVE IInv'
    <2>1. codexActive = c /\ codexActive' = NoId
      BY <1>1 DEF CodexEnds, IInv, OneAtATime
    <2>2. /\ codex'[c] = FreeCodex
          /\ \A d \in CodexIds \ {c} : codex'[d] = codex[d]
      BY <1>1 DEF CodexEnds, IInv, Shape
    <2>3. Shape'
      BY <1>1, <2>2 DEF CodexEnds, IInv, Shape, FreeCodex
    <2>4. StartsAreAwaited' /\ FoundStillHolds'
      BY <1>1, <2>1 DEF CodexEnds, IInv, StartsAreAwaited, FoundStillHolds
    <2>5. OneAtATime'
      BY <1>1, <2>1, <2>2, WorkbenchAssumption DEF CodexEnds, IInv, OneAtATime, FreeCodex
    <2> QED BY <2>3, <2>4, <2>5 DEF IInv
  <1>2. ASSUME NEW c \in CodexIds, CancelCodex(c) PROVE IInv'
    <2>1. /\ codex'[c].process = "aborting" /\ DOMAIN codex'[c] = DOMAIN codex[c]
          /\ \A d \in CodexIds \ {c} : codex'[d] = codex[d]
      BY <1>2 DEF CancelCodex, IInv, Shape
    <2>2. Shape'
      BY <1>2, <2>1 DEF CancelCodex, IInv, Shape
    <2>3. StartsAreAwaited' /\ FoundStillHolds'
      BY <1>2 DEF CancelCodex, IInv, StartsAreAwaited, FoundStillHolds
    <2>4. OneAtATime'
      BY <1>2, <2>1 DEF CancelCodex, IInv, OneAtATime
    <2> QED BY <2>2, <2>3, <2>4 DEF IInv
  <1>3. ASSUME NEW c \in CodexIds, NEW r \in DOMAIN checkout, NEW part \in Parts, NEW tree \in Trees,
               CodexEdits(c, r, part, tree)
        PROVE IInv'
    BY <1>3, StutterKeeps DEF CodexEdits
  <1>4. CASE CancelLogin
    <2>1. \A s \in Slots : frames[s].kind \notin {"codex", "login", "build"}
      BY <1>4, WorkbenchAssumption DEF CancelLogin, PanelIsFree, IInv, StartsAreAwaited
    <2> QED
      BY <1>4, <2>1 DEF CancelLogin, IInv, Shape, StartsAreAwaited, FoundStillHolds, OneAtATime
  <1>5. CASE LoginEnds
    BY <1>5 DEF LoginEnds, IInv, Shape, StartsAreAwaited, FoundStillHolds, OneAtATime
  <1> QED BY <1>1, <1>2, <1>3, <1>4, <1>5

LEMMA BuildKeeps ==
    ASSUME IInv, NEW b \in BuildIds, BuildEnds(b) \/ \E f \in Files : ScriptReads(b, f)
    PROVE  IInv'
  <1>1. CASE BuildEnds(b)
    <2>1. buildActive = b /\ buildActive' = NoId
      BY <1>1 DEF BuildEnds, IInv, OneAtATime
    <2>2. /\ builds'[b] = FreeBuild
          /\ \A d \in BuildIds \ {b} : builds'[d] = builds[d]
      BY <1>1 DEF BuildEnds, IInv, Shape
    <2>3. Shape'
      BY <1>1, <2>2 DEF BuildEnds, IInv, Shape, FreeBuild
    <2>4. StartsAreAwaited' /\ FoundStillHolds'
      BY <1>1, <2>1 DEF BuildEnds, IInv, StartsAreAwaited, FoundStillHolds
    <2>5. OneAtATime'
      BY <1>1, <2>1, <2>2, WorkbenchAssumption DEF BuildEnds, IInv, OneAtATime, FreeBuild
    <2> QED BY <2>3, <2>4, <2>5 DEF IInv
  <1>2. ASSUME NEW f \in Files, ScriptReads(b, f) PROVE IInv'
    <2> DEFINE record ==
          [builds[b] EXCEPT
             !.unread = builds[b].unread \ {f},
             !.process = IF builds[b].unread = {f} THEN "completed" ELSE "running",
             !.built[f] = IF builds[b].build = "candidate"
                            THEN checkout[builds[b].run].work[f] ELSE 0]
    <2>0. builds' = [builds EXCEPT ![b] = record]
      BY <1>2 DEF ScriptReads
    <2>1. /\ builds'[b].process \in {"running", "completed"}
          /\ "process" \in DOMAIN builds'[b]
          /\ \A d \in BuildIds \ {b} : builds'[d] = builds[d]
          /\ builds' = [d \in BuildIds |-> builds'[d]]
      <3>1. /\ DOMAIN builds = BuildIds /\ "process" \in DOMAIN builds[b]
            /\ builds[b].process = "running"
        BY <1>2 DEF ScriptReads, IInv, Shape
      <3>2. DOMAIN record = DOMAIN builds[b] /\ record.process \in {"running", "completed"}
        BY <3>1
      <3> HIDE DEF record
      <3> QED BY <2>0, <3>1, <3>2
    <2>2. Shape'
      BY <1>2, <2>1 DEF ScriptReads, IInv, Shape
    <2>3. StartsAreAwaited' /\ FoundStillHolds'
      BY <1>2 DEF ScriptReads, IInv, StartsAreAwaited, FoundStillHolds
    <2>4. OneAtATime'
      BY <1>2, <2>1 DEF ScriptReads, IInv, OneAtATime
    <2> QED BY <2>2, <2>3, <2>4 DEF IInv
  <1> QED BY <1>1, <1>2

-----------------------------------------------------------------------------
(* The theorem.                                                            *)

LEMMA NextOK == IInv /\ [Next]_vars => IInv'
  <1> SUFFICES ASSUME IInv, [Next]_vars PROVE IInv'
    OBVIOUS
  <1>1. ASSUME NEW s \in Slots, Request(s) \/ Resume(s) \/ GiveUp(s) PROVE IInv'
    BY <1>1, RequestKeeps, ResumeKeeps, GiveUpKeeps
  <1>2. CASE ReviewDiff
    BY <1>2, StutterKeeps DEF ReviewDiff
  <1>3. CASE Background
    BY <1>3, CodexKeeps, BuildKeeps DEF Background, Parts
  <1>4. CASE UNCHANGED vars
    BY <1>4, StutterKeeps DEF vars, tasks
  <1> QED BY <1>1, <1>2, <1>3, <1>4 DEF Next

\* At most one Codex process, one build and one login live, each known as the
\* active one, and no Codex process beside a login, in every behaviour of the
\* broker and its panel.
THEOREM OneProcessOfEachKind == Spec => []OneAtATime
  <1>1. IInv => OneAtATime
    BY DEF IInv
  <1> QED BY <1>1, InitOK, NextOK, PTL DEF Spec

-----------------------------------------------------------------------------
(* The types.                                                              *)

Checkouts == [head : Trees, index : Trees, work : Trees]
CheckoutTyped == /\ DOMAIN checkout \subseteq Runs
                 /\ \A r \in DOMAIN checkout : checkout[r] \in Checkouts
RepoTyped ==
  /\ current \in [workspace : Workspaces \cup {NoWorkspace}, run : Runs \cup {NoRun}]
  /\ created \subseteq Workspaces
  /\ CheckoutTyped
  /\ current.run # NoRun => current.run \in DOMAIN checkout

\* The awaits of a handler that has a worktree, and what it keeps over them.
Reviewing(frame) == frame.kind \in {"commit", "discard"} /\ frame.at \in {"diff", "reviewed", "staged"}
ReadingStatus(frame) == frame.kind \in {"build", "push"} /\ frame.at = "status"
HasRun(frame) ==
  \/ frame.kind = "run" /\ frame.at = "added"
  \/ frame.kind = "bump"
  \/ Reviewing(frame) \/ ReadingStatus(frame)
  \/ frame.kind = "push" /\ frame.at = "push"

FrameSound(frame, runs) ==
  /\ HasRun(frame) => frame.run \in runs
  /\ frame.kind = "workspace" => frame.workspace \in Workspaces
  /\ Reviewing(frame) => {"token", "run"} \subseteq DOMAIN frame
  /\ frame.at \in {"reviewed", "staged"} =>
       /\ "found" \in DOMAIN frame /\ Text(frame.found) = frame.token
       /\ frame.kind = "commit" => ~Truncated(frame.found)
  /\ ReadingStatus(frame) => {"run", "read", "head", "clean"} \subseteq DOMAIN frame
  /\ frame.at \in {"reviewed", "staged"} => frame.kind \in {"commit", "discard"}
  /\ frame.at \in {"staged", "committed"} => frame.kind = "commit"
  /\ frame.at = "discarded" => frame.kind = "discard"
  /\ frame.at \in {"push", "pushed"} => frame.kind = "push"

FramesTyped ==
  /\ \A s \in Slots : FrameSound(frames[s], DOMAIN checkout)
  /\ waiting # NoSlot => frames[waiting].kind # "idle"
  /\ givenUp \in BOOLEAN

TasksTyped ==
  /\ codexActive \in CodexIds \cup {NoId}
  /\ codex \in [CodexIds -> [process : {"free", "running", "aborting"}, run : Runs \cup {NoRun}]]
  /\ \A c \in CodexIds : codex[c] # FreeCodex => codex[c].run \in DOMAIN checkout
  /\ buildActive \in BuildIds \cup {NoId}
  /\ \A b \in BuildIds : builds[b] # FreeBuild =>
       "run" \in DOMAIN builds[b] /\ builds[b].run \in DOMAIN checkout
  /\ login \in {"idle", "running", "aborting"}

TypeInv == RepoTyped /\ FramesTyped /\ TasksTyped

\* A handler moves on, or a new one starts, or one ends.
FrameStep(s, frame) ==
  /\ frames' = [frames EXCEPT ![s] = frame]
  /\ givenUp' = givenUp
  /\ \/ waiting' = waiting /\ (frame.kind # "idle" \/ waiting # s)
     \/ waiting' = s /\ frame.kind # "idle"
     \/ waiting' = NoSlot

LEMMA AnswerIsStep == ASSUME NEW s \in Slots, Answer(s) PROVE FrameStep(s, Idle)
  BY DEF Answer, FrameStep, Idle

LEMMA OpenIsStep == ASSUME NEW s \in Slots, NEW frame, Open(s, frame), frame.kind # "idle"
                    PROVE  FrameStep(s, frame)
  BY DEF Open, FrameStep

LEMMA SuspendIsStep == ASSUME NEW s \in Slots, NEW frame, Suspend(s, frame), frame.kind # "idle"
                       PROVE  FrameStep(s, frame)
  BY DEF Suspend, FrameStep

LEMMA FramesKeep ==
    ASSUME Shape, FramesTyped, NEW s \in Slots, NEW frame, FrameStep(s, frame),
           DOMAIN checkout \subseteq DOMAIN checkout', FrameSound(frame, DOMAIN checkout')
    PROVE  FramesTyped'
  <1>1. /\ frames'[s] = frame
        /\ \A t \in Slots \ {s} : frames'[t] = frames[t]
    BY DEF FrameStep, Shape
  <1>2. \A t \in Slots : FrameSound(frames'[t], DOMAIN checkout')
    BY <1>1 DEF FramesTyped, FrameSound
  <1>3. waiting' # NoSlot => frames'[waiting'].kind # "idle"
    BY <1>1 DEF FrameStep, FramesTyped, Shape
  <1> QED BY <1>2, <1>3 DEF FramesTyped, FrameStep

\* Nothing but the processes depends on them, and they only on the worktrees.
LEMMA TasksKeep == ASSUME TasksTyped, UNCHANGED tasks, DOMAIN checkout \subseteq DOMAIN checkout'
                   PROVE  TasksTyped'
  BY DEF TasksTyped, tasks

LEMMA IdleSound == \A runs : FrameSound(Idle, runs)
  BY DEF FrameSound, HasRun, Reviewing, ReadingStatus, Idle

\* A step of one handler that starts and ends no process.
LEMMA HandlerTyped ==
    ASSUME Shape, TypeInv, NEW s \in Slots, NEW frame, FrameStep(s, frame), UNCHANGED tasks,
           RepoTyped', DOMAIN checkout \subseteq DOMAIN checkout',
           FrameSound(frame, DOMAIN checkout')
    PROVE  TypeInv'
  BY FramesKeep, TasksKeep DEF TypeInv

LEMMA TypesStart == Init => TypeInv
  <1> SUFFICES ASSUME Init PROVE TypeInv
    OBVIOUS
  <1>1. RepoTyped
    BY DEF Init, RepoTyped, CheckoutTyped
  <1>2. FramesTyped
    BY IdleSound DEF Init, FramesTyped, Idle
  <1>3. TasksTyped
    BY DEF Init, TasksTyped, FreeCodex, FreeBuild
  <1> QED BY <1>1, <1>2, <1>3 DEF TypeInv

LEMMA RequestTyped ==
    ASSUME Shape, TypeInv, NEW s \in Slots, Request(s) PROVE TypeInv'
  <1> USE DEF FrameSound, HasRun, Reviewing, ReadingStatus
  <1>1. ASSUME NEW w \in Workspaces, CreateWorkspace(s, w) PROVE TypeInv'
    BY <1>1, OpenIsStep, HandlerTyped DEF CreateWorkspace, TypeInv, RepoTyped, CheckoutTyped
  <1>2. ASSUME UNCHANGED <<repo, tasks>>, NEW frame, Open(s, frame), frame.kind # "idle",
               FrameSound(frame, DOMAIN checkout)
        PROVE  TypeInv'
    BY <1>2, OpenIsStep, HandlerTyped DEF repo, TypeInv, RepoTyped, CheckoutTyped
  <1>3. CASE CreateRun(s)
    BY <1>2, <1>3 DEF CreateRun
  <1>4. CASE BumpVersion(s)
    BY <1>2, <1>4 DEF BumpVersion, TypeInv, RepoTyped
  <1>5. ASSUME NEW kind \in {"commit", "discard"}, MutateReviewed(s, kind) PROVE TypeInv'
    BY <1>2, <1>5 DEF MutateReviewed
  <1>6. CASE StartCodex(s) \/ StartLogin(s)
    BY <1>2, <1>6 DEF StartCodex, StartLogin
  <1>7. ASSUME NEW kind \in {"preview", "candidate"}, StartBuild(s, kind) PROVE TypeInv'
    BY <1>2, <1>7 DEF StartBuild
  <1>8. CASE Push(s)
    BY <1>2, <1>8 DEF Push, TypeInv, RepoTyped
  <1> QED BY <1>1, <1>3, <1>4, <1>5, <1>6, <1>7, <1>8 DEF Request

\* A handler ends and has left the repository and the processes as they are.
LEMMA AnswerTyped ==
    ASSUME Shape, TypeInv, NEW s \in Slots, Answer(s), UNCHANGED tasks, RepoTyped',
           DOMAIN checkout \subseteq DOMAIN checkout'
    PROVE  TypeInv'
  BY AnswerIsStep, IdleSound, HandlerTyped

LEMMA SuspendTyped ==
    ASSUME Shape, TypeInv, NEW s \in Slots, NEW frame, Suspend(s, frame), frame.kind # "idle",
           UNCHANGED tasks, RepoTyped', DOMAIN checkout \subseteq DOMAIN checkout',
           FrameSound(frame, DOMAIN checkout')
    PROVE  TypeInv'
  BY SuspendIsStep, HandlerTyped

\* A worktree is changed in place.
LEMMA CheckoutKeeps ==
    ASSUME TypeInv, NEW r \in DOMAIN checkout, NEW c \in Checkouts,
           checkout' = [checkout EXCEPT ![r] = c], UNCHANGED <<current, created>>
    PROVE  RepoTyped' /\ DOMAIN checkout' = DOMAIN checkout
  BY DEF TypeInv, RepoTyped, CheckoutTyped

LEMMA RepoResumesTyped ==
    ASSUME Shape, TypeInv, NEW s \in Slots,
           \/ WorkspaceCreated(s) \/ WorkspaceFails(s)
           \/ \E r \in Runs : RunAdds(s, r)
           \/ RunCreated(s) \/ RunFails(s)
           \/ VersionRead(s) \/ VersionWritten(s) \/ VersionFails(s)
    PROVE  TypeInv'
  <1>0. FrameSound(frames[s], DOMAIN checkout) /\ RepoTyped
    BY DEF TypeInv, FramesTyped
  <1>1. CASE WorkspaceCreated(s)
    <2>1. frames[s].workspace \in Workspaces
      BY <1>0, <1>1 DEF WorkspaceCreated, FrameSound
    <2> QED
      BY <1>0, <1>1, <2>1, AnswerTyped DEF WorkspaceCreated, RepoTyped, CheckoutTyped
  <1>2. CASE WorkspaceFails(s) \/ RunFails(s) \/ VersionFails(s)
    BY <1>0, <1>2, AnswerTyped DEF WorkspaceFails, RunFails, VersionFails, repo, RepoTyped, CheckoutTyped
  <1>3. ASSUME NEW r \in Runs, RunAdds(s, r) PROVE TypeInv'
    <2> DEFINE frame == [kind |-> "run", at |-> "added", run |-> r]
    <2>1. /\ DOMAIN checkout' = DOMAIN checkout \cup {r}
          /\ \A x \in DOMAIN checkout : checkout'[x] = checkout[x] \/ x = r
          /\ checkout'[r] = [head |-> BaseTree, index |-> BaseTree, work |-> BaseTree]
          /\ UNCHANGED <<current, created>>
      BY <1>3 DEF RunAdds
    <2>2. checkout'[r] \in Checkouts
      BY <2>1, WorkbenchAssumption DEF BaseTree, Checkouts, Trees, Contents
    <2>3. RepoTyped'
      BY <1>0, <2>1, <2>2 DEF RepoTyped, CheckoutTyped
    <2>4. FrameSound(frame, DOMAIN checkout')
      BY <2>1 DEF FrameSound, HasRun, Reviewing, ReadingStatus
    <2>5. Suspend(s, frame) /\ UNCHANGED tasks
      BY <1>3 DEF RunAdds
    <2> QED BY <2>1, <2>3, <2>4, <2>5, SuspendTyped
  <1>4. CASE RunCreated(s)
    <2>1. frames[s].run \in DOMAIN checkout
      BY <1>0, <1>4 DEF RunCreated, FrameSound, HasRun
    <2>2. RepoTyped'
      BY <1>0, <1>4, <2>1 DEF RunCreated, RepoTyped, CheckoutTyped
    <2> QED
      BY <1>4, <2>2, AnswerTyped DEF RunCreated
  <1>5. CASE VersionRead(s)
    <2>1. frames[s].run \in DOMAIN checkout
      BY <1>0, <1>5 DEF VersionRead, FrameSound, HasRun
    <2> DEFINE frame == [kind |-> "bump", at |-> "write", run |-> frames[s].run,
                         read |-> checkout[frames[s].run].work[VersionFile]]
    <2>2. FrameSound(frame, DOMAIN checkout)
      BY <2>1 DEF FrameSound, HasRun, Reviewing, ReadingStatus
    <2>3. Suspend(s, frame) /\ UNCHANGED <<repo, tasks>> /\ frame.kind # "idle"
      BY <1>5 DEF VersionRead
    <2> HIDE DEF frame
    <2> QED
      BY <1>0, <2>2, <2>3, SuspendTyped DEF repo, RepoTyped, CheckoutTyped
  <1>6. CASE VersionWritten(s)
    <2> DEFINE r == frames[s].run
               c == [checkout[r] EXCEPT !.work[VersionFile] = frames[s].read + 1]
    <2>1. r \in DOMAIN checkout /\ frames[s].read + 1 \in Contents
      BY <1>0, <1>6 DEF VersionWritten, FrameSound, HasRun
    <2>2. c \in Checkouts
      BY <1>0, <2>1 DEF RepoTyped, CheckoutTyped, Checkouts, Trees
    <2>3. checkout' = [checkout EXCEPT ![r] = c] /\ UNCHANGED <<current, created>>
      BY <1>6 DEF VersionWritten
    <2> HIDE DEF r, c
    <2>4. RepoTyped' /\ DOMAIN checkout' = DOMAIN checkout
      BY <2>1, <2>2, <2>3, CheckoutKeeps
    <2> QED
      BY <1>6, <2>4, AnswerTyped DEF VersionWritten
  <1> QED BY <1>1, <1>2, <1>3, <1>4, <1>5, <1>6

LEMMA MutationsTyped ==
    ASSUME Shape, TypeInv, NEW s \in Slots,
           BodyRead(s) \/ DiffRead(s) \/ FilesAdded(s) \/ Committed(s) \/ Discarded(s)
           \/ MutationEnds(s)
    PROVE  TypeInv'
  <1>0. FrameSound(frames[s], DOMAIN checkout) /\ RepoTyped /\ {"kind", "at"} \subseteq DOMAIN frames[s]
    BY DEF TypeInv, FramesTyped, Shape
  <1> DEFINE r == frames[s].run
  <1>1. CASE BodyRead(s)
    <2>1. UNCHANGED <<repo, tasks>> /\ RepoTyped' /\ checkout' = checkout
      BY <1>0, <1>1 DEF BodyRead, repo, RepoTyped, CheckoutTyped
    <2>2. CASE current.run = NoRun
      BY <1>1, <2>1, <2>2, AnswerTyped DEF BodyRead
    <2>3. CASE current.run # NoRun
      <3> DEFINE frame == [kind |-> frames[s].kind, at |-> "diff",
                           token |-> frames[s].token, run |-> current.run]
      <3>1. FrameSound(frame, DOMAIN checkout) /\ Suspend(s, frame) /\ frame.kind # "idle"
        BY <1>0, <1>1, <2>3 DEF BodyRead, RepoTyped, FrameSound, HasRun, Reviewing, ReadingStatus
      <3> HIDE DEF frame
      <3> QED BY <2>1, <3>1, SuspendTyped
    <2> QED BY <2>2, <2>3
  <1>2. CASE DiffRead(s) \/ FilesAdded(s)
    <2>1. PICK frame :
            /\ Suspend(s, frame) /\ UNCHANGED tasks
            /\ frame.kind = frames[s].kind /\ frame.at \in {"reviewed", "staged"} /\ frame.run = r
            /\ frame.at = "staged" => frame.kind = "commit"
            /\ {"token", "run", "found"} \subseteq DOMAIN frame
            /\ Text(frame.found) = frame.token
            /\ frame.kind = "commit" => ~Truncated(frame.found)
            /\ Reviewing(frames[s])
      <3>1. CASE DiffRead(s)
        BY <3>1 DEF DiffRead, Reviewing
      <3>2. CASE FilesAdded(s)
        <4>1. /\ Suspend(s, [frames[s] EXCEPT !.at = "staged"]) /\ UNCHANGED tasks
              /\ frames[s].kind = "commit" /\ frames[s].at = "reviewed"
          BY <3>2 DEF FilesAdded
        <4>2. /\ {"token", "run", "found"} \subseteq DOMAIN frames[s] /\ Reviewing(frames[s])
              /\ Text(frames[s].found) = frames[s].token /\ ~Truncated(frames[s].found)
          BY <1>0, <4>1 DEF FrameSound, Reviewing
        <4> DEFINE frame == [frames[s] EXCEPT !.at = "staged"]
        <4>3. /\ DOMAIN frame = DOMAIN frames[s] /\ frame.kind = frames[s].kind
              /\ frame.at = "staged" /\ frame.run = r
              /\ frame.token = frames[s].token /\ frame.found = frames[s].found
          BY <1>0, <4>2
        <4>4. Suspend(s, frame)
          BY <4>1
        <4> HIDE DEF frame, r
        <4> QED BY <4>1, <4>2, <4>3, <4>4
      <3> QED BY <1>2, <3>1, <3>2
    <2>3. r \in DOMAIN checkout
      BY <1>0, <2>1 DEF FrameSound, HasRun
    <2>4. FrameSound(frame, DOMAIN checkout) /\ frame.kind # "idle"
      BY <1>0, <2>1, <2>3 DEF FrameSound, HasRun, Reviewing, ReadingStatus
    <2>5. RepoTyped' /\ DOMAIN checkout' = DOMAIN checkout
      <3>1. CASE DiffRead(s)
        BY <1>0, <3>1 DEF DiffRead, repo, RepoTyped, CheckoutTyped
      <3>2. CASE FilesAdded(s)
        <4> DEFINE index == [f \in Files |-> IF f \in DOMAIN frames[s].found
                                              THEN checkout[r].work[f] ELSE checkout[r].index[f]]
                   c == [checkout[r] EXCEPT !.index = index]
        <4>1. index \in Trees
          BY <1>0, <2>3 DEF RepoTyped, CheckoutTyped, Checkouts, Trees
        <4>2. c \in Checkouts
          BY <1>0, <2>3, <4>1 DEF RepoTyped, CheckoutTyped, Checkouts
        <4>3. checkout' = [checkout EXCEPT ![r] = c] /\ UNCHANGED <<current, created>>
          BY <3>2 DEF FilesAdded
        <4> HIDE DEF c, r
        <4> QED BY <2>3, <4>2, <4>3, CheckoutKeeps
      <3> QED BY <1>2, <3>1, <3>2
    <2> QED BY <2>1, <2>4, <2>5, SuspendTyped
  <1>3. CASE Committed(s) \/ Discarded(s)
    <2>1. r \in DOMAIN checkout
      BY <1>0, <1>3 DEF Committed, Discarded, FrameSound, HasRun, Reviewing
    <2>2. PICK c \in Checkouts : checkout' = [checkout EXCEPT ![r] = c]
      <3>0. checkout[r] \in Checkouts
        BY <1>0, <2>1 DEF RepoTyped, CheckoutTyped
      <3>1. CASE Committed(s)
        <4>1. [checkout[r] EXCEPT !.head = checkout[r].index] \in Checkouts
          BY <3>0 DEF Checkouts
        <4> QED BY <3>1, <4>1 DEF Committed
      <3>2. CASE Discarded(s)
        <4> DEFINE c == [checkout[r] EXCEPT !.index = checkout[r].head, !.work = checkout[r].head]
        <4>1. c \in Checkouts
          BY <3>0 DEF Checkouts
        <4>2. checkout' = [checkout EXCEPT ![r] = c]
          BY <2>1, <3>0, <3>2 DEF Discarded, Checkouts
        <4> QED BY <4>1, <4>2
      <3> QED BY <1>3, <3>1, <3>2
    <2>3. RepoTyped' /\ DOMAIN checkout' = DOMAIN checkout
      BY <1>3, <2>1, <2>2, CheckoutKeeps DEF Committed, Discarded
    <2>4. CASE Committed(s)
      BY <2>3, <2>4, SuspendTyped DEF Committed, FrameSound, HasRun, Reviewing, ReadingStatus
    <2>5. CASE Discarded(s)
      BY <2>3, <2>5, SuspendTyped DEF Discarded, FrameSound, HasRun, Reviewing, ReadingStatus
    <2> QED BY <1>3, <2>4, <2>5
  <1>4. CASE MutationEnds(s)
    BY <1>0, <1>4, AnswerTyped DEF MutationEnds, repo, RepoTyped, CheckoutTyped
  <1> QED BY <1>1, <1>2, <1>3, <1>4

LEMMA StatusTyped ==
    ASSUME Shape, TypeInv, NEW s \in Slots,
           \/ BuildChecks(s) \/ ReadHead(s) \/ ReadClean(s) \/ BuildRefused(s)
           \/ PushChecked(s) \/ Pushed(s) \/ PushEnds(s)
           \/ CodexRefused(s) \/ AlreadyLoggedIn(s)
    PROVE  TypeInv'
  <1>0. FrameSound(frames[s], DOMAIN checkout) /\ RepoTyped /\ {"kind", "at"} \subseteq DOMAIN frames[s]
    BY DEF TypeInv, FramesTyped, Shape
  <1>1. UNCHANGED <<repo, tasks>> /\ RepoTyped' /\ checkout' = checkout
    BY <1>0 DEF BuildChecks, ReadHead, ReadClean, BuildRefused, PushChecked, Pushed, PushEnds,
                CodexRefused, AlreadyLoggedIn, repo, RepoTyped, CheckoutTyped
  <1>2. CASE Answer(s)
    BY <1>1, <1>2, AnswerTyped
  <1>3. CASE ReadHead(s) \/ ReadClean(s)
    <2> DEFINE withHead == [frames[s] EXCEPT !.read = @ \cup {"head"},
                                             !.head = checkout[frames[s].run].head]
               withClean == [frames[s] EXCEPT !.read = @ \cup {"clean"},
                                              !.clean = Clean(frames[s].run)]
    <2>1. ReadingStatus(frames[s]) /\ (Suspend(s, withHead) \/ Suspend(s, withClean))
      BY <1>3 DEF ReadHead, ReadClean, ReadingStatus
    <2>2. \A frame \in {withHead, withClean} :
            /\ DOMAIN frame = DOMAIN frames[s] /\ frame.run = frames[s].run
            /\ frame.kind = frames[s].kind /\ frame.at = frames[s].at
      BY <1>0, <2>1 DEF FrameSound
    <2> HIDE DEF withHead, withClean
    <2>3. \A frame \in {withHead, withClean} :
            FrameSound(frame, DOMAIN checkout) /\ frame.kind # "idle"
      BY <1>0, <2>1, <2>2 DEF FrameSound, HasRun, Reviewing, ReadingStatus
    <2> QED BY <1>1, <2>1, <2>3, SuspendTyped
  <1>4. CASE BuildChecks(s) /\ ~Answer(s)
    <2> DEFINE frame == [kind |-> "build", at |-> "status", build |-> frames[s].build,
                         run |-> current.run, read |-> {}, head |-> BaseTree, clean |-> FALSE]
    <2>1. Suspend(s, frame) /\ frame.kind # "idle" /\ current.run \in DOMAIN checkout
      BY <1>0, <1>4 DEF BuildChecks, RepoTyped
    <2>2. FrameSound(frame, DOMAIN checkout)
      BY <2>1 DEF FrameSound, HasRun, Reviewing, ReadingStatus
    <2> HIDE DEF frame
    <2> QED BY <1>1, <2>1, <2>2, SuspendTyped
  <1>5. CASE PushChecked(s)
    <2> DEFINE frame == [kind |-> "push", at |-> "push", run |-> frames[s].run, head |-> frames[s].head]
    <2>1. Suspend(s, frame) /\ frame.kind # "idle" /\ frames[s].run \in DOMAIN checkout
      BY <1>0, <1>5 DEF PushChecked, StatusRead, FrameSound, HasRun, ReadingStatus
    <2>2. FrameSound(frame, DOMAIN checkout)
      BY <2>1 DEF FrameSound, HasRun, Reviewing, ReadingStatus
    <2> HIDE DEF frame
    <2> QED BY <1>1, <2>1, <2>2, SuspendTyped
  <1>6. CASE Pushed(s)
    BY <1>1, <1>6, SuspendTyped DEF Pushed, FrameSound, HasRun, Reviewing, ReadingStatus
  <1> QED
    BY <1>2, <1>3, <1>4, <1>5, <1>6
       DEF BuildRefused, PushEnds, CodexRefused, AlreadyLoggedIn

LEMMA ProcessesTyped ==
    ASSUME Shape, TypeInv, NEW s \in Slots,
           \/ \E c \in CodexIds : CodexStarts(s, c)
           \/ LoginStarts(s)
           \/ \E b \in BuildIds : BuildStarts(s, b)
    PROVE  TypeInv'
  <1>0. FrameSound(frames[s], DOMAIN checkout) /\ RepoTyped /\ FramesTyped /\ TasksTyped
    BY DEF TypeInv, FramesTyped
  <1>1. UNCHANGED repo /\ Answer(s)
    BY DEF CodexStarts, LoginStarts, BuildStarts
  <1>2. RepoTyped' /\ FramesTyped'
    BY <1>0, <1>1, AnswerIsStep, IdleSound, FramesKeep DEF repo, RepoTyped, CheckoutTyped
  <1>3. ASSUME NEW c \in CodexIds, CodexStarts(s, c) PROVE TasksTyped'
    <2>1. /\ current.run \in Runs /\ current.run \in DOMAIN checkout
          /\ codex' = [codex EXCEPT ![c] = [process |-> "running", run |-> current.run]]
          /\ codexActive' = c /\ UNCHANGED <<checkout, buildActive, builds, login>>
      BY <1>0, <1>3 DEF CodexStarts, RepoTyped, repo
    <2> QED BY <1>0, <2>1 DEF TasksTyped
  <1>4. ASSUME LoginStarts(s) PROVE TasksTyped'
    BY <1>0, <1>4 DEF LoginStarts, repo, TasksTyped
  <1>5. ASSUME NEW b \in BuildIds, BuildStarts(s, b) PROVE TasksTyped'
    <2> DEFINE record == [process |-> "running", build |-> frames[s].build, run |-> frames[s].run,
                          unread |-> Files,
                          commit |-> IF frames[s].build = "candidate" THEN frames[s].head ELSE BaseTree,
                          built |-> BaseTree]
    <2>1. frames[s].run \in DOMAIN checkout
      BY <1>0, <1>5 DEF BuildStarts, StatusRead, FrameSound, HasRun, ReadingStatus
    <2>2. "run" \in DOMAIN record /\ record.run = frames[s].run
      OBVIOUS
    <2>3. /\ builds' = [builds EXCEPT ![b] = record] /\ buildActive' = b
          /\ UNCHANGED <<checkout, codexActive, codex, login>>
      BY <1>5 DEF BuildStarts, repo
    <2> HIDE DEF record
    <2>4. \A d \in BuildIds : builds'[d] # FreeBuild =>
            "run" \in DOMAIN builds'[d] /\ builds'[d].run \in DOMAIN checkout'
      BY <1>0, <2>1, <2>2, <2>3 DEF TasksTyped, Shape
    <2> QED BY <1>0, <2>3, <2>4 DEF TasksTyped
  <1> QED BY <1>2, <1>3, <1>4, <1>5 DEF TypeInv

LEMMA BackgroundTyped ==
    ASSUME Shape, TypeInv, Background \/ ReviewDiff \/ \E s \in Slots : GiveUp(s)
    PROVE  TypeInv'
  <1>0. RepoTyped /\ FramesTyped /\ TasksTyped
    BY DEF TypeInv
  <1>1. ASSUME UNCHANGED <<repo, frames, waiting, givenUp>>, TasksTyped' PROVE TypeInv'
    BY <1>0, <1>1 DEF repo, TypeInv, RepoTyped, CheckoutTyped, FramesTyped
  <1>2. CASE ReviewDiff \/ \E s \in Slots : GiveUp(s)
    <2>1. UNCHANGED <<repo, frames, tasks>> /\ TasksTyped'
      BY <1>0, <1>2 DEF ReviewDiff, GiveUp, repo, tasks, TasksTyped
    <2>2. waiting' \in {waiting, NoSlot} /\ givenUp' \in {givenUp, TRUE}
      BY <1>2 DEF ReviewDiff, GiveUp
    <2>3. RepoTyped'
      BY <1>0, <2>1 DEF repo, RepoTyped, CheckoutTyped
    <2>4. FramesTyped'
      BY <1>0, <2>1, <2>2 DEF repo, FramesTyped
    <2> QED BY <2>1, <2>3, <2>4 DEF TypeInv
  <1>3. ASSUME NEW c \in CodexIds, CodexEnds(c) \/ CancelCodex(c) PROVE TypeInv'
    <2>1. /\ UNCHANGED <<repo, frames, waiting, givenUp, buildActive, builds, login>>
          /\ \/ codex' = [codex EXCEPT ![c] = FreeCodex]
             \/ codex' = [codex EXCEPT ![c].process = "aborting"] /\ codex[c] # FreeCodex
          /\ codexActive' \in {codexActive, NoId}
      BY <1>3 DEF CodexEnds, CancelCodex, FreeCodex
    <2>2. checkout' = checkout
      BY <2>1 DEF repo
    <2>3. /\ codex' \in [CodexIds -> [process : {"free", "running", "aborting"}, run : Runs \cup {NoRun}]]
          /\ \A d \in CodexIds : codex'[d] # FreeCodex =>
                codex'[d].run = codex[d].run /\ codex[d] # FreeCodex
      BY <1>0, <2>1 DEF TasksTyped, FreeCodex
    <2>4. TasksTyped'
      BY <1>0, <2>1, <2>2, <2>3 DEF TasksTyped
    <2> QED BY <1>1, <2>1, <2>4
  <1>4. ASSUME NEW c \in CodexIds, NEW r \in DOMAIN checkout, NEW part \in Parts, NEW tree \in Trees,
               CodexEdits(c, r, part, tree)
        PROVE  TypeInv'
    <2>1. checkout[r] \in Checkouts
      BY <1>0 DEF RepoTyped, CheckoutTyped
    <2>2. [checkout[r] EXCEPT ![part] = tree] \in Checkouts
      BY <2>1 DEF Checkouts, Parts
    <2>3. PICK co \in Checkouts : checkout' = [checkout EXCEPT ![r] = co]
      BY <1>4, <2>2 DEF CodexEdits
    <2>4. RepoTyped' /\ DOMAIN checkout' = DOMAIN checkout
      BY <1>4, <2>3, CheckoutKeeps DEF CodexEdits
    <2> QED
      BY <1>0, <1>4, <2>4, TasksKeep DEF CodexEdits, TypeInv, FramesTyped
  <1>5. ASSUME NEW b \in BuildIds, BuildEnds(b) \/ \E f \in Files : ScriptReads(b, f)
        PROVE  TypeInv'
    <2>1. /\ UNCHANGED <<repo, frames, waiting, givenUp, codexActive, codex, login>>
          /\ buildActive' \in {buildActive, NoId}
      BY <1>5 DEF BuildEnds, ScriptReads
    <2>2. PICK record : /\ builds' = [builds EXCEPT ![b] = record]
                        /\ \/ record = FreeBuild
                           \/ /\ builds[b] # FreeBuild /\ DOMAIN record = DOMAIN builds[b]
                              /\ "run" \in DOMAIN builds[b] => record.run = builds[b].run
      <3>1. CASE BuildEnds(b)
        BY <3>1 DEF BuildEnds
      <3>2. ASSUME NEW f \in Files, ScriptReads(b, f)
            PROVE  \E record : /\ builds' = [builds EXCEPT ![b] = record]
                               /\ builds[b] # FreeBuild /\ DOMAIN record = DOMAIN builds[b]
                               /\ "run" \in DOMAIN builds[b] => record.run = builds[b].run
        <4> DEFINE record ==
              [builds[b] EXCEPT
                 !.unread = builds[b].unread \ {f},
                 !.process = IF builds[b].unread = {f} THEN "completed" ELSE "running",
                 !.built[f] = IF builds[b].build = "candidate"
                                THEN checkout[builds[b].run].work[f] ELSE 0]
        <4>1. builds' = [builds EXCEPT ![b] = record] /\ builds[b] # FreeBuild
          BY <3>2 DEF ScriptReads, FreeBuild
        <4>2. DOMAIN record = DOMAIN builds[b]
          OBVIOUS
        <4>3. "run" \in DOMAIN builds[b] => record.run = builds[b].run
          OBVIOUS
        <4> HIDE DEF record
        <4> QED BY <4>1, <4>2, <4>3
      <3> QED BY <1>5, <3>1, <3>2
    <2>3. TasksTyped'
      <3>1. \A d \in BuildIds : builds'[d] # FreeBuild =>
              "run" \in DOMAIN builds'[d] /\ builds'[d].run \in DOMAIN checkout
        BY <1>0, <2>2 DEF TasksTyped, Shape
      <3> QED BY <1>0, <2>1, <3>1 DEF TasksTyped, repo
    <2> QED BY <1>1, <2>1, <2>3
  <1>6. CASE CancelLogin \/ LoginEnds
    BY <1>0, <1>1, <1>6 DEF CancelLogin, LoginEnds, TasksTyped, repo
  <1> QED BY <1>2, <1>3, <1>4, <1>5, <1>6 DEF Background, Parts

LEMMA TypesStep == IInv /\ TypeInv /\ [Next]_vars => TypeInv'
  <1> SUFFICES ASSUME IInv, TypeInv, [Next]_vars PROVE TypeInv'
    OBVIOUS
  <1>1. Shape
    BY DEF IInv
  <1>2. ASSUME NEW s \in Slots, Request(s) \/ Resume(s) PROVE TypeInv'
    BY <1>1, <1>2, RequestTyped, RepoResumesTyped, MutationsTyped, StatusTyped, ProcessesTyped
       DEF Resume
  <1>3. CASE Background \/ ReviewDiff \/ \E s \in Slots : GiveUp(s)
    BY <1>1, <1>3, BackgroundTyped
  <1>4. CASE UNCHANGED vars
    BY <1>4 DEF vars, TypeInv, RepoTyped, CheckoutTyped, FramesTyped, TasksTyped
  <1> QED BY <1>2, <1>3, <1>4 DEF Next

-----------------------------------------------------------------------------
(* What was reviewed or checked is acted on.                               *)

\* What a handler found holds until it acts on it.
FoundSound(frame) ==
  /\ frame.kind \in {"commit", "discard"} => codexActive = NoId
  /\ frame.at = "reviewed" => frame.found = Diff(frame.run)
  /\ frame.at = "staged" =>
       \A f \in Files : checkout[frame.run].index[f] =
         IF f \in DOMAIN frame.found THEN frame.found[f].work ELSE checkout[frame.run].head[f]
  /\ frame.kind = "push" /\ (frame.at = "push" \/ (frame.at = "status" /\ "head" \in frame.read)) =>
       frame.head = checkout[frame.run].head \/ frame.run \in headMoved

\* Until the panel gives up on an answer, one handler is in flight at most.
ReviewInv ==
  ~givenUp => \A s \in Slots : /\ frames[s].kind # "idle" => waiting = s
                              /\ FoundSound(frames[s])

\* Only runs that exist are noted as moved, and none if Codex is in its sandbox.
MovedInv ==
  /\ headMoved \subseteq Runs
  /\ CodexSandbox = "workspace-write" => headMoved = {}

WorkbenchInv == IInv /\ TypeInv /\ ReviewInv /\ MovedInv

LEMMA IdleFound == FoundSound(Idle)
  BY DEF FoundSound, Idle

\* The one handler in flight moves on, or the first one starts.
LEMMA OnlyHandler ==
    ASSUME Shape, TypeInv, ReviewInv, NEW s \in Slots, NEW frame, frames' = [frames EXCEPT ![s] = frame],
           givenUp' = givenUp, ~givenUp => waiting \in {NoSlot, s},
           frame.kind # "idle" /\ ~givenUp => waiting' = s,
           ~givenUp => FoundSound(frame)'
    PROVE  ReviewInv'
  <1> SUFFICES ASSUME ~givenUp PROVE ReviewInv'
    BY DEF ReviewInv
  <1>1. /\ frames'[s] = frame
        /\ \A t \in Slots \ {s} : frames'[t] = frames[t]
    BY DEF Shape
  <1>2. \A t \in Slots \ {s} : frames[t].kind = "idle"
    BY WorkbenchAssumption DEF ReviewInv
  <1>3. ASSUME NEW t \in Slots \ {s} PROVE FoundSound(frames[t])'
    BY <1>1, <1>2 DEF TypeInv, FramesTyped, FrameSound, FoundSound
  <1>4. ASSUME NEW t \in Slots \ {s} PROVE frames'[t].kind = "idle"
    BY <1>1, <1>2
  <1> QED BY <1>1, <1>3, <1>4 DEF ReviewInv

\* Until an answer was given up on, nothing is in flight when a request arrives.
LEMMA FirstHandler ==
    ASSUME Shape, TypeInv, ReviewInv, NEW s \in Slots, NEW frame, Open(s, frame),
           FoundSound(frame)'
    PROVE  ReviewInv'
  BY OnlyHandler DEF Open, PanelIsFree

LEMMA MovingHandler ==
    ASSUME Shape, TypeInv, ReviewInv, NEW s \in Slots, NEW frame, Suspend(s, frame),
           frames[s].kind # "idle", ~givenUp => FoundSound(frame)'
    PROVE  ReviewInv'
  <1>1. ~givenUp => waiting = s
    BY DEF ReviewInv
  <1> QED BY <1>1, OnlyHandler DEF Suspend

LEMMA EndingHandler ==
    ASSUME Shape, TypeInv, ReviewInv, NEW s \in Slots, Answer(s), frames[s].kind # "idle"
    PROVE  ReviewInv'
  <1>1. ~givenUp => waiting = s
    BY DEF ReviewInv
  <1>2. FoundSound(Idle)' /\ Idle.kind = "idle"
    BY DEF FoundSound, Idle
  <1> QED BY <1>1, <1>2, OnlyHandler DEF Answer

LEMMA RequestFinds ==
    ASSUME Shape, TypeInv, ReviewInv, NEW s \in Slots, Request(s) PROVE ReviewInv'
  <1>1. ASSUME NEW w \in Workspaces, CreateWorkspace(s, w) PROVE ReviewInv'
    BY <1>1, FirstHandler DEF CreateWorkspace, FoundSound
  <1>2. CASE CreateRun(s) \/ BumpVersion(s)
    BY <1>2, FirstHandler DEF CreateRun, BumpVersion, FoundSound
  <1>3. ASSUME NEW kind \in {"commit", "discard"}, MutateReviewed(s, kind) PROVE ReviewInv'
    BY <1>3, FirstHandler DEF MutateReviewed, EnsureNoActiveCodex, tasks, FoundSound
  <1>4. CASE StartCodex(s) \/ StartLogin(s)
    BY <1>4, FirstHandler DEF StartCodex, StartLogin, FoundSound
  <1>5. ASSUME NEW kind \in {"preview", "candidate"}, StartBuild(s, kind) PROVE ReviewInv'
    BY <1>5, FirstHandler DEF StartBuild, FoundSound
  <1>6. CASE Push(s)
    BY <1>6, FirstHandler DEF Push, FoundSound
  <1> QED BY <1>1, <1>2, <1>3, <1>4, <1>5, <1>6 DEF Request

LEMMA AnswersFind ==
    ASSUME Shape, TypeInv, ReviewInv, NEW s \in Slots,
           \/ WorkspaceCreated(s) \/ WorkspaceFails(s) \/ RunCreated(s) \/ RunFails(s)
           \/ VersionWritten(s) \/ VersionFails(s) \/ MutationEnds(s)
           \/ \E c \in CodexIds : CodexStarts(s, c)
           \/ CodexRefused(s) \/ LoginStarts(s) \/ AlreadyLoggedIn(s)
           \/ \E b \in BuildIds : BuildStarts(s, b)
           \/ BuildRefused(s) \/ PushEnds(s)
    PROVE  ReviewInv'
  <1>1. Answer(s) /\ frames[s].kind # "idle"
    BY DEF WorkspaceCreated, WorkspaceFails, RunCreated, RunFails, VersionWritten, VersionFails,
           MutationEnds, CodexStarts, CodexRefused, LoginStarts, AlreadyLoggedIn, BuildStarts,
           BuildRefused, PushEnds
  <1> QED BY <1>1, EndingHandler

LEMMA DiffKept == ASSUME NEW r, checkout' = checkout PROVE Diff(r)' = Diff(r)
  BY DEF Diff

LEMMA MutationFinds ==
    ASSUME Shape, TypeInv, ReviewInv, NEW s \in Slots,
           BodyRead(s) \/ DiffRead(s) \/ FilesAdded(s) \/ Committed(s) \/ Discarded(s)
    PROVE  ReviewInv'
  <1>0. /\ FrameSound(frames[s], DOMAIN checkout) /\ {"kind", "at"} \subseteq DOMAIN frames[s]
        /\ frames[s].kind \in {"commit", "discard"}
        /\ ~givenUp => FoundSound(frames[s]) /\ codexActive' = NoId
    <2>1. frames[s].kind \in {"commit", "discard"} /\ codexActive' = codexActive
      BY DEF BodyRead, DiffRead, FilesAdded, Committed, Discarded, tasks
    <2> QED BY <2>1 DEF TypeInv, FramesTyped, Shape, ReviewInv, FoundSound
  <1>1. CASE BodyRead(s)
    <2>1. CASE Answer(s)
      BY <1>0, <1>1, <2>1, EndingHandler
    <2>2. CASE ~Answer(s)
      <3>1. PICK frame : /\ Suspend(s, frame) /\ frame.kind = frames[s].kind /\ frame.at = "diff"
        BY <1>1, <2>2 DEF BodyRead
      <3>2. ~givenUp => FoundSound(frame)'
        BY <1>0, <3>1 DEF FoundSound
      <3> QED BY <1>0, <3>1, <3>2, MovingHandler
    <2> QED BY <2>1, <2>2
  <1>2. CASE DiffRead(s)
    <2>1. Reviewing(frames[s]) /\ UNCHANGED checkout
      BY <1>2 DEF DiffRead, repo, Reviewing
    <2>2. PICK frame : /\ Suspend(s, frame) /\ frame.kind = frames[s].kind /\ frame.at = "reviewed"
                       /\ frame.found = Diff(frame.run)
      BY <1>2 DEF DiffRead
    <2>3. Diff(frame.run)' = Diff(frame.run)
      BY <2>1, DiffKept
    <2>4. ~givenUp => FoundSound(frame)'
      BY <1>0, <2>2, <2>3 DEF FoundSound
    <2> QED BY <1>0, <2>2, <2>4, MovingHandler
  <1>3. CASE FilesAdded(s)
    <2>1. PICK frame : /\ Suspend(s, frame) /\ frame.kind = "commit" /\ frame.at = "staged"
                       /\ frame.found = frames[s].found /\ frame.run = frames[s].run
      <3> DEFINE frame == [frames[s] EXCEPT !.at = "staged"]
      <3>1. Suspend(s, frame) /\ frames[s].kind = "commit" /\ Reviewing(frames[s])
        BY <1>3 DEF FilesAdded, Reviewing
      <3>2. /\ frame.kind = frames[s].kind /\ frame.at = "staged"
            /\ frame.found = frames[s].found /\ frame.run = frames[s].run
        BY <1>0, <3>1 DEF FrameSound
      <3> HIDE DEF frame
      <3> QED BY <3>1, <3>2
    <2>2. frame.run \in DOMAIN checkout /\ checkout[frame.run] \in Checkouts
      BY <1>0, <1>3, <2>1 DEF FilesAdded, FrameSound, HasRun, Reviewing, TypeInv, RepoTyped, CheckoutTyped
    <2>3. ~givenUp => frame.found = Diff(frame.run)
      BY <1>0, <1>3, <2>1 DEF FoundSound, FilesAdded
    <2>4. /\ checkout'[frame.run].head = checkout[frame.run].head
          /\ checkout'[frame.run].index =
               [f \in Files |-> IF f \in DOMAIN frame.found
                                  THEN checkout[frame.run].work[f] ELSE checkout[frame.run].index[f]]
      BY <1>3, <2>1, <2>2 DEF FilesAdded, Checkouts
    <2>5. ~givenUp => FoundSound(frame)'
      <3> SUFFICES ASSUME ~givenUp PROVE FoundSound(frame)'
        OBVIOUS
      <3>1. ASSUME NEW f \in Files
            PROVE  checkout'[frame.run].index[f] =
                     IF f \in DOMAIN frame.found THEN frame.found[f].work
                                                 ELSE checkout'[frame.run].head[f]
        <4>1. PICK work, index, head :
                 /\ work = checkout[frame.run].work /\ index = checkout[frame.run].index
                 /\ head = checkout[frame.run].head
          OBVIOUS
        <4>2. frame.found = [g \in {h \in Files : work[h] # index[h] \/ index[h] # head[h]} |->
                                [head |-> head[g], index |-> index[g], work |-> work[g]]]
          BY <2>3, <4>1 DEF Diff
        <4>3. checkout'[frame.run].head = head
              /\ checkout'[frame.run].index[f] = IF f \in DOMAIN frame.found THEN work[f] ELSE index[f]
          BY <2>4, <4>1
        <4> QED BY <4>2, <4>3
      <3>2. codexActive' = NoId /\ frame.kind = "commit" /\ frame.at = "staged"
        BY <1>0, <2>1
      <3> QED BY <3>1, <3>2 DEF FoundSound
    <2> QED BY <1>0, <2>1, <2>5, MovingHandler
  <1>4. CASE Committed(s) \/ Discarded(s)
    <2>1. PICK frame : /\ Suspend(s, frame) /\ frame.kind \in {"commit", "discard"}
                       /\ frame.at \in {"committed", "discarded"}
      BY <1>4 DEF Committed, Discarded
    <2>2. ~givenUp => FoundSound(frame)'
      <3> SUFFICES ASSUME ~givenUp PROVE FoundSound(frame)'
        OBVIOUS
      <3>1. /\ codexActive' = NoId /\ frame.at \notin {"reviewed", "staged"} /\ frame.kind # "push"
        BY <1>0, <2>1
      <3> QED BY <3>1 DEF FoundSound
    <2> QED BY <1>0, <2>1, <2>2, MovingHandler
  <1> QED BY <1>1, <1>2, <1>3, <1>4

LEMMA StatusFinds ==
    ASSUME Shape, TypeInv, ReviewInv, NEW s \in Slots,
           \/ \E r \in Runs : RunAdds(s, r)
           \/ VersionRead(s) \/ BuildChecks(s) \/ ReadHead(s) \/ ReadClean(s)
           \/ PushChecked(s) \/ Pushed(s)
    PROVE  ReviewInv'
  <1>0. /\ FrameSound(frames[s], DOMAIN checkout) /\ {"kind", "at"} \subseteq DOMAIN frames[s]
        /\ frames[s].kind \in {"run", "bump", "build", "push"}
        /\ ~givenUp => FoundSound(frames[s])
    BY DEF TypeInv, FramesTyped, Shape, ReviewInv, RunAdds, VersionRead, BuildChecks, ReadHead,
           ReadClean, PushChecked, Pushed
  <1>1. CASE Answer(s)
    BY <1>0, <1>1, EndingHandler
  <1>2. ASSUME NEW frame, Suspend(s, frame), frame.kind \in {"run", "bump", "build"},
               frame.at \in {"added", "write", "status"}
        PROVE  ReviewInv'
    <2>1. FoundSound(frame)'
      BY <1>2 DEF FoundSound
    <2> QED BY <1>0, <1>2, <2>1, MovingHandler
  <1>3. CASE (\E r \in Runs : RunAdds(s, r)) \/ VersionRead(s) \/ (BuildChecks(s) /\ ~Answer(s))
    <2>1. \E frame : /\ Suspend(s, frame) /\ frame.kind \in {"run", "bump", "build"}
                     /\ frame.at \in {"added", "write", "status"}
      <3>1. CASE \E r \in Runs : RunAdds(s, r)
        BY <3>1 DEF RunAdds
      <3>2. CASE VersionRead(s)
        BY <3>2 DEF VersionRead
      <3>3. CASE BuildChecks(s) /\ ~Answer(s)
        BY <3>3 DEF BuildChecks
      <3> QED BY <1>3, <3>1, <3>2, <3>3
    <2> QED BY <1>2, <2>1
  <1>4. CASE ReadHead(s) \/ ReadClean(s)
    <2> DEFINE withHead == [frames[s] EXCEPT !.read = @ \cup {"head"},
                                             !.head = checkout[frames[s].run].head]
               withClean == [frames[s] EXCEPT !.read = @ \cup {"clean"},
                                              !.clean = Clean(frames[s].run)]
    <2>1. ReadingStatus(frames[s]) /\ UNCHANGED <<checkout, headMoved>>
          /\ {"run", "read", "head", "clean"} \subseteq DOMAIN frames[s]
      BY <1>0, <1>4 DEF ReadHead, ReadClean, ReadingStatus, repo, notes, FrameSound
    <2>2. \A frame \in {withHead, withClean} :
            /\ frame.kind = frames[s].kind /\ frame.at = "status" /\ frame.run = frames[s].run
      BY <1>0, <2>1 DEF ReadingStatus
    <2>3. /\ withHead.head = checkout[withHead.run].head
          /\ withClean.head = frames[s].head
          /\ "head" \in withClean.read => "head" \in frames[s].read
      BY <1>0, <2>1
    <2>4. Suspend(s, withHead) \/ Suspend(s, withClean)
      BY <1>4 DEF ReadHead, ReadClean
    <2> HIDE DEF withHead, withClean
    <2>5. PICK frame : /\ Suspend(s, frame) /\ frame.kind = frames[s].kind /\ frame.at = "status"
                       /\ frame.run = frames[s].run
                       /\ \/ frame.head = checkout[frame.run].head
                          \/ /\ frame.head = frames[s].head
                             /\ "head" \in frame.read => "head" \in frames[s].read
      BY <2>2, <2>3, <2>4
    <2>6. ~givenUp => FoundSound(frame)'
      BY <1>0, <2>1, <2>5 DEF FoundSound, ReadingStatus
    <2> QED BY <1>0, <2>5, <2>6, MovingHandler
  <1>5. CASE PushChecked(s)
    <2>1. PICK frame : /\ Suspend(s, frame) /\ frame.kind = "push" /\ frame.at = "push"
                       /\ frame.run = frames[s].run /\ frame.head = frames[s].head
      BY <1>5 DEF PushChecked
    <2>2. /\ UNCHANGED <<checkout, headMoved>>
          /\ frames[s].kind = "push" /\ frames[s].at = "status" /\ "head" \in frames[s].read
      BY <1>5 DEF PushChecked, StatusRead, repo, notes
    <2>3. ~givenUp => FoundSound(frame)'
      BY <1>0, <2>1, <2>2 DEF FoundSound
    <2> QED BY <1>0, <2>1, <2>3, MovingHandler
  <1>6. CASE Pushed(s)
    <2>1. PICK frame : Suspend(s, frame) /\ frame.kind = "push" /\ frame.at = "pushed"
      BY <1>6 DEF Pushed
    <2>2. ~givenUp => FoundSound(frame)'
      BY <2>1 DEF FoundSound
    <2> QED BY <1>0, <2>1, <2>2, MovingHandler
  <1> QED BY <1>1, <1>3, <1>4, <1>5, <1>6

\* Until an answer was given up on, a step that moves no handler disturbs none:
\* Codex edits no worktree that a commit or a discard has diffed.
LEMMA BackgroundFinds ==
    ASSUME IInv, TypeInv, ReviewInv, Background \/ ReviewDiff \/ UNCHANGED vars
    PROVE  ReviewInv'
  <1>1. UNCHANGED <<frames, waiting, givenUp>>
    BY DEF Background, CodexEnds, CancelCodex, CodexEdits, BuildEnds, ScriptReads, CancelLogin,
           LoginEnds, ReviewDiff, vars
  <1>2. codexActive' \in {codexActive, NoId}
    BY DEF Background, CodexEnds, CancelCodex, CodexEdits, BuildEnds, ScriptReads, CancelLogin,
           LoginEnds, ReviewDiff, vars, tasks
  <1>3. ASSUME UNCHANGED <<checkout, headMoved>>, NEW frame, FoundSound(frame)
        PROVE  FoundSound(frame)'
    BY <1>2, <1>3, DiffKept DEF FoundSound
  <1>4. ASSUME NEW c \in CodexIds, NEW r \in DOMAIN checkout, NEW part \in Parts, NEW tree \in Trees,
               CodexEdits(c, r, part, tree), NEW s \in Slots, NEW frame, frame = frames[s],
               FrameSound(frame, DOMAIN checkout), FoundSound(frame)
        PROVE  FoundSound(frame)'
    <2>1. codexActive = c /\ codexActive # NoId
      BY <1>4, WorkbenchAssumption DEF CodexEdits, IInv, OneAtATime
    <2>2. frame.kind \notin {"commit", "discard"} /\ frame.at \notin {"reviewed", "staged"}
      BY <1>4, <2>1 DEF FoundSound, FrameSound
    <2>3. \A x \in DOMAIN checkout : (x = r /\ part = "head") \/ checkout'[x].head = checkout[x].head
      BY <1>4 DEF CodexEdits, TypeInv, RepoTyped, CheckoutTyped, Checkouts, Parts
    <2>4. frame.kind = "push" /\ frame.at \in {"push", "status"} => frame.run \in DOMAIN checkout
      BY <1>4 DEF FrameSound, HasRun, ReadingStatus
    <2>5. /\ headMoved \subseteq headMoved'
          /\ frame.kind = "push" /\ part = "head" => r \in headMoved'
      BY <1>4 DEF CodexEdits
    <2> QED BY <1>4, <2>2, <2>3, <2>4, <2>5 DEF FoundSound
  <1>5. \/ UNCHANGED <<checkout, headMoved>>
        \/ \E c \in CodexIds, r \in DOMAIN checkout, part \in Parts, tree \in Trees :
             CodexEdits(c, r, part, tree)
    BY DEF Background, CodexEnds, CancelCodex, BuildEnds, ScriptReads, CancelLogin,
           LoginEnds, ReviewDiff, vars, repo, notes, Parts
  <1>7. ASSUME NEW s \in Slots, ~givenUp PROVE FoundSound(frames[s])'
    <2>1. FrameSound(frames[s], DOMAIN checkout) /\ FoundSound(frames[s])
      BY <1>7 DEF TypeInv, FramesTyped, ReviewInv
    <2>2. PICK frame : frame = frames[s] /\ frames'[s] = frame
      BY <1>1
    <2>3. FoundSound(frame)'
      BY <1>3, <1>4, <1>5, <2>1, <2>2
    <2> QED BY <2>2, <2>3 DEF FoundSound
  <1> QED BY <1>1, <1>7 DEF ReviewInv

LEMMA ReviewStart == Init => ReviewInv
  <1> SUFFICES ASSUME Init, NEW s \in Slots PROVE frames[s].kind = "idle" /\ FoundSound(frames[s])
    BY DEF ReviewInv
  <1>1. frames[s] = Idle
    BY DEF Init
  <1> QED BY <1>1 DEF Idle, FoundSound

LEMMA ReviewStep == WorkbenchInv /\ [Next]_vars => ReviewInv'
  <1> SUFFICES ASSUME WorkbenchInv, [Next]_vars PROVE ReviewInv'
    OBVIOUS
  <1>1. Shape /\ IInv /\ TypeInv /\ ReviewInv
    BY DEF WorkbenchInv, IInv
  <1>2. ASSUME NEW s \in Slots, Request(s) \/ Resume(s) PROVE ReviewInv'
    BY <1>1, <1>2, RequestFinds, AnswersFind, MutationFinds, StatusFinds DEF Resume
  <1>3. ASSUME NEW s \in Slots, GiveUp(s) PROVE ReviewInv'
    BY <1>3 DEF GiveUp, ReviewInv
  <1>4. CASE Background \/ ReviewDiff \/ UNCHANGED vars
    BY <1>1, <1>4, BackgroundFinds
  <1> QED BY <1>2, <1>3, <1>4 DEF Next

LEMMA MovedStep == WorkbenchInv /\ [Next]_vars => MovedInv'
  <1> SUFFICES ASSUME WorkbenchInv, [Next]_vars PROVE MovedInv'
    OBVIOUS
  <1>1. ASSUME headMoved' \in {headMoved, {}} PROVE MovedInv'
    BY <1>1 DEF WorkbenchInv, MovedInv
  <1>2. ASSUME NEW s \in Slots, Request(s) \/ Resume(s) \/ GiveUp(s)
        PROVE  headMoved' \in {headMoved, {}}
    <2>1. CASE Request(s) \/ GiveUp(s)
      BY <2>1 DEF Request, CreateWorkspace, CreateRun, BumpVersion, MutateReviewed, StartCodex,
                  StartLogin, StartBuild, Push, GiveUp, notes
    <2>2. CASE Resume(s)
      BY <2>2 DEF Resume, WorkspaceCreated, WorkspaceFails, RunAdds, RunCreated, RunFails,
                  VersionRead, VersionWritten, VersionFails, BodyRead, DiffRead, FilesAdded,
                  Committed, Discarded, MutationEnds, CodexStarts, CodexRefused, LoginStarts,
                  AlreadyLoggedIn, BuildChecks, ReadHead, ReadClean, BuildStarts, BuildRefused,
                  PushChecked, Pushed, PushEnds, notes
    <2> QED BY <1>2, <2>1, <2>2
  <1>3. ASSUME NEW c \in CodexIds, NEW r \in DOMAIN checkout, NEW part \in Parts, NEW tree \in Trees,
               CodexEdits(c, r, part, tree)
        PROVE  MovedInv'
    <2>1. CodexSandbox = "workspace-write" => headMoved' = headMoved
      BY <1>3 DEF CodexEdits
    <2>2. headMoved' \in {headMoved, headMoved \cup {r}} /\ r \in Runs
      BY <1>3 DEF CodexEdits, WorkbenchInv, TypeInv, RepoTyped, CheckoutTyped
    <2> QED BY <2>1, <2>2 DEF WorkbenchInv, MovedInv
  <1>4. CASE Background
    <2>1. \/ headMoved' = headMoved
          \/ \E c \in CodexIds, r \in DOMAIN checkout, part \in Parts, tree \in Trees :
               CodexEdits(c, r, part, tree)
      BY <1>4 DEF Background, CodexEnds, CancelCodex, BuildEnds, ScriptReads, CancelLogin,
                  LoginEnds, notes, Parts
    <2> QED BY <1>1, <1>3, <2>1
  <1>5. CASE ReviewDiff \/ UNCHANGED vars
    BY <1>1, <1>5 DEF ReviewDiff, vars
  <1> QED BY <1>1, <1>2, <1>4, <1>5 DEF Next

LEMMA WorkbenchHolds == Spec => []WorkbenchInv
  <1>1. Init => WorkbenchInv
    BY InitOK, TypesStart, ReviewStart DEF WorkbenchInv, Init, MovedInv
  <1>2. WorkbenchInv /\ [Next]_vars => WorkbenchInv'
    <2> SUFFICES ASSUME WorkbenchInv, [Next]_vars PROVE WorkbenchInv'
      OBVIOUS
    <2>1. IInv /\ TypeInv
      BY DEF WorkbenchInv
    <2> QED BY <2>1, NextOK, TypesStep, ReviewStep, MovedStep DEF WorkbenchInv
  <1> QED BY <1>1, <1>2, PTL DEF Spec

\* The variables of the broker and its panel keep the values they are declared
\* to have; the worktrees that handlers and processes work in exist.
THEOREM WorkbenchTypes == Spec => []TypeOK
  <1>1. WorkbenchInv => TypeOK
    <2> SUFFICES ASSUME WorkbenchInv PROVE TypeOK
      OBVIOUS
    <2>1. RepoTyped /\ FramesTyped /\ TasksTyped /\ Shape /\ headMoved \subseteq Runs
      BY DEF WorkbenchInv, TypeInv, IInv, MovedInv
    <2>2. waiting # NoSlot => frames[waiting] # Idle
      BY <2>1 DEF FramesTyped, Idle
    <2>3. \A r \in DOMAIN checkout : checkout[r] \in [head : Trees, index : Trees, work : Trees]
      BY <2>1 DEF RepoTyped, CheckoutTyped, Checkouts
    <2>4. \A b \in BuildIds : builds[b] # FreeBuild => builds[b].run \in DOMAIN checkout
      BY <2>1 DEF TasksTyped
    <2> QED
      BY <2>1, <2>2, <2>3, <2>4 DEF TypeOK, RepoTyped, CheckoutTyped, FramesTyped, TasksTyped, Shape
  <1> QED BY <1>1, WorkbenchHolds, PTL

-----------------------------------------------------------------------------
(* The steps that act on what was found.                                   *)

\* Where a handler is once it has acted on what was reviewed or checked.
Acted == {"committed", "discarded", "pushed"}

\* Every other step of a handler takes it elsewhere, or leaves it where it is.
Resting(t) ==
  \E frame : /\ frames' = [frames EXCEPT ![t] = frame]
             /\ frame.at \notin Acted \/ frame.at = frames[t].at

LEMMA OpenRests ==
    ASSUME NEW t \in Slots, NEW frame, Open(t, frame),
           frame.at \notin {"committed", "discarded", "pushed"}
    PROVE  Resting(t)
  BY DEF Resting, Acted, Open

LEMMA SuspendRests ==
    ASSUME NEW t \in Slots, NEW frame, Suspend(t, frame),
           frame.at \notin {"committed", "discarded", "pushed"} \/ frame.at = frames[t].at
    PROVE  Resting(t)
  BY DEF Resting, Acted, Suspend

LEMMA RequestRests == ASSUME NEW t \in Slots, Request(t) PROVE Resting(t)
  <1>1. CASE CreateRun(t) \/ BumpVersion(t) \/ StartCodex(t) \/ StartLogin(t) \/ Push(t)
    BY <1>1, OpenRests DEF CreateRun, BumpVersion, StartCodex, StartLogin, Push
  <1>2. ASSUME NEW w \in Workspaces, CreateWorkspace(t, w) PROVE Resting(t)
    BY <1>2, OpenRests DEF CreateWorkspace
  <1>3. ASSUME NEW kind \in {"commit", "discard"}, MutateReviewed(t, kind) PROVE Resting(t)
    BY <1>3, OpenRests DEF MutateReviewed
  <1>4. ASSUME NEW kind \in {"preview", "candidate"}, StartBuild(t, kind) PROVE Resting(t)
    BY <1>4, OpenRests DEF StartBuild
  <1> QED BY <1>1, <1>2, <1>3, <1>4 DEF Request

LEMMA ResumeRests ==
    ASSUME Shape, NEW t \in Slots, Resume(t), ~ (Committed(t) \/ Discarded(t) \/ Pushed(t))
    PROVE  Resting(t)
  <1>0. {"kind", "at"} \subseteq DOMAIN frames[t]
    BY DEF Shape
  <1>1. CASE Answer(t)
    <2>1. frames' = [frames EXCEPT ![t] = Idle] /\ Idle.at \notin Acted
      BY <1>1 DEF Answer, Idle, Acted
    <2> QED BY <2>1 DEF Resting
  <1>2. ASSUME NEW r \in Runs, RunAdds(t, r) PROVE Resting(t)
    BY <1>2, SuspendRests DEF RunAdds
  <1>3. CASE VersionRead(t)
    BY <1>3, SuspendRests DEF VersionRead
  <1>4. CASE BodyRead(t) /\ ~Answer(t)
    BY <1>4, SuspendRests DEF BodyRead
  <1>5. CASE DiffRead(t)
    <2>1. [frames[t] EXCEPT !.at = "reviewed"].at = "reviewed"
      BY <1>0
    <2> QED BY <1>5, <2>1, SuspendRests DEF DiffRead
  <1>6. CASE FilesAdded(t)
    <2>1. [frames[t] EXCEPT !.at = "staged"].at = "staged"
      BY <1>0
    <2> QED BY <1>6, <2>1, SuspendRests DEF FilesAdded
  <1>7. CASE BuildChecks(t) /\ ~Answer(t)
    BY <1>7, SuspendRests DEF BuildChecks
  <1>8. CASE ReadHead(t)
    <2>1. [frames[t] EXCEPT !.read = @ \cup {"head"}, !.head = checkout[frames[t].run].head].at
            = frames[t].at
      OBVIOUS
    <2> QED BY <1>8, <2>1, SuspendRests DEF ReadHead
  <1>9. CASE ReadClean(t)
    <2>1. [frames[t] EXCEPT !.read = @ \cup {"clean"}, !.clean = Clean(frames[t].run)].at
            = frames[t].at
      OBVIOUS
    <2> QED BY <1>9, <2>1, SuspendRests DEF ReadClean
  <1>10. CASE PushChecked(t)
    BY <1>10, SuspendRests DEF PushChecked
  <1>11. \/ Answer(t) \/ \E r \in Runs : RunAdds(t, r)
         \/ VersionRead(t) \/ (BodyRead(t) /\ ~Answer(t)) \/ DiffRead(t) \/ FilesAdded(t)
         \/ (BuildChecks(t) /\ ~Answer(t)) \/ ReadHead(t) \/ ReadClean(t) \/ PushChecked(t)
    BY DEF Resume, WorkspaceCreated, WorkspaceFails, RunCreated, RunFails, VersionWritten,
           VersionFails, MutationEnds, CodexStarts, CodexRefused, LoginStarts, AlreadyLoggedIn,
           BuildStarts, BuildRefused, PushEnds
  <1> QED BY <1>1, <1>2, <1>3, <1>4, <1>5, <1>6, <1>7, <1>8, <1>9, <1>10, <1>11

\* Only its own acting step takes a handler to where it has acted.
LEMMA ActingStep ==
    ASSUME Shape, [Next]_vars, NEW s \in Slots,
           frames'[s].at \in Acted, frames'[s].at # frames[s].at
    PROVE  Committed(s) \/ Discarded(s) \/ Pushed(s)
  <1>1. ASSUME NEW t \in Slots, NEW frame, frames' = [frames EXCEPT ![t] = frame]
        PROVE  t = s /\ frame = frames'[s]
    BY <1>1 DEF Shape
  <1>2. ~ (Background \/ ReviewDiff \/ UNCHANGED vars \/ \E t \in Slots : GiveUp(t))
    BY DEF Background, CodexEnds, CancelCodex, CodexEdits, BuildEnds, ScriptReads, CancelLogin,
           LoginEnds, ReviewDiff, vars, GiveUp
  <1>3. PICK t \in Slots : Request(t) \/ Resume(t)
    BY <1>2 DEF Next
  <1>4. ~ Resting(t)
    BY <1>1 DEF Resting
  <1>5. Committed(t) \/ Discarded(t) \/ Pushed(t)
    BY <1>3, <1>4, RequestRests, ResumeRests
  <1>6. \E frame : frames' = [frames EXCEPT ![t] = frame]
    BY <1>5 DEF Committed, Discarded, Pushed, Suspend
  <1>7. t = s
    BY <1>1, <1>6
  <1> QED BY <1>5, <1>7

\* As long as no answer was given up on, a commit makes of the branch what the
\* diff with the reviewed text says and nothing else, that text uncut, and a
\* discard loses the diff with the reviewed text, whatever Codex and other
\* handlers did, and whatever text a diff is shown as.
THEOREM ReviewedActedOn == Spec => ReviewedIsActedOn
  <1>1. WorkbenchInv /\ [Next]_vars =>
          [givenUp \/ \A s \in Slots :
             LET r == frames[s].run
                 found == frames[s].found
             IN  /\ frames[s].at = "staged" /\ frames'[s].at = "committed" =>
                      /\ Text(found) = frames[s].token /\ ~Truncated(found)
                      /\ \A f \in Files :
                           checkout'[r].head[f] =
                             IF f \in DOMAIN found THEN found[f].work ELSE checkout[r].head[f]
                 /\ frames[s].at = "reviewed" /\ frames'[s].at = "discarded" =>
                      Text(found) = frames[s].token /\ Diff(r) = found]_vars
    <2> SUFFICES ASSUME WorkbenchInv, [Next]_vars, ~givenUp, NEW s \in Slots
                 PROVE  /\ frames[s].at = "staged" /\ frames'[s].at = "committed" =>
                             /\ Text(frames[s].found) = frames[s].token
                             /\ ~Truncated(frames[s].found)
                             /\ \A f \in Files :
                                  checkout'[frames[s].run].head[f] =
                                    IF f \in DOMAIN frames[s].found THEN frames[s].found[f].work
                                    ELSE checkout[frames[s].run].head[f]
                        /\ frames[s].at = "reviewed" /\ frames'[s].at = "discarded" =>
                             /\ Text(frames[s].found) = frames[s].token
                             /\ Diff(frames[s].run) = frames[s].found
      OBVIOUS
    <2>0. Shape /\ FoundSound(frames[s]) /\ FrameSound(frames[s], DOMAIN checkout)
          /\ DOMAIN frames = Slots /\ CheckoutTyped
      BY DEF WorkbenchInv, IInv, Shape, ReviewInv, TypeInv, FramesTyped, RepoTyped
    <2>1. ASSUME frames[s].at = "staged", frames'[s].at = "committed", NEW f \in Files
          PROVE  checkout'[frames[s].run].head[f] =
                   IF f \in DOMAIN frames[s].found THEN frames[s].found[f].work
                   ELSE checkout[frames[s].run].head[f]
      <3>1. Committed(s)
        BY <2>0, <2>1, ActingStep DEF Acted, Discarded, Pushed
      <3>2. frames[s].run \in DOMAIN checkout /\ checkout[frames[s].run] \in Checkouts
        BY <2>0, <2>1 DEF FrameSound, HasRun, Reviewing, CheckoutTyped
      <3>3. checkout'[frames[s].run].head = checkout[frames[s].run].index
        BY <3>1, <3>2 DEF Committed, Checkouts
      <3> QED BY <2>0, <2>1, <3>3 DEF FoundSound
    <2>2. ASSUME frames[s].at = "reviewed" PROVE Diff(frames[s].run) = frames[s].found
      BY <2>0, <2>2 DEF FoundSound
    <2>3. /\ frames[s].at \in {"reviewed", "staged"} => Text(frames[s].found) = frames[s].token
          /\ frames[s].at = "staged" => ~Truncated(frames[s].found)
      BY <2>0 DEF FrameSound
    <2> QED BY <2>1, <2>2, <2>3
  <1> QED BY <1>1, WorkbenchHolds, PTL DEF Spec, ReviewedIsActedOn

\* As long as no answer was given up on, the commit that was checked is the
\* one that git push sends and the answer names, unless Codex has moved the
\* branch meanwhile.
THEOREM PushedReported == Spec => PushedIsReported
  <1>1. WorkbenchInv /\ [Next]_vars =>
          [givenUp \/ \A s \in Slots :
             frames[s].at = "push" /\ frames'[s].at = "pushed" =>
               \/ checkout[frames[s].run].head = frames[s].head
               \/ frames[s].run \in headMoved]_vars
    BY DEF WorkbenchInv, ReviewInv, FoundSound, TypeInv, FramesTyped, FrameSound
  <1> QED BY <1>1, WorkbenchHolds, PTL DEF Spec, PushedIsReported

\* If Codex is in its sandbox, there is no exception: the commit that is pushed
\* is the one that was checked.
THEOREM PushedAsChecked ==
  ASSUME CodexSandbox = "workspace-write"
  PROVE  Spec => [][givenUp \/ \A s \in Slots :
                      frames[s].at = "push" /\ frames'[s].at = "pushed" =>
                        checkout[frames[s].run].head = frames[s].head]_vars
  <1>1. WorkbenchInv /\ [Next]_vars =>
          [givenUp \/ \A s \in Slots :
             frames[s].at = "push" /\ frames'[s].at = "pushed" =>
               checkout[frames[s].run].head = frames[s].head]_vars
    BY DEF WorkbenchInv, ReviewInv, MovedInv, FoundSound, TypeInv, FramesTyped, FrameSound
  <1> QED BY <1>1, WorkbenchHolds, PTL DEF Spec
=============================================================================
