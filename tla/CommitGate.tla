------------------------------ MODULE CommitGate ------------------------------
(***************************************************************************)
(* From the reviewed diff to the task branch: what CodingEngine does       *)
(* between capturing the diff it sends to review and recording completion  *)
(* (_capture_worktree_binding, _commit, _create_guarded_commit and         *)
(* _assert_terminal_commit_gate of services/coding/engine.py).             *)
(*                                                                         *)
(* The worktree, the Git index, the task branch and HEAD are mutable files *)
(* that a delayed writer (a process the executor or a verification command *)
(* left behind, or the user) may change between any two Git commands.      *)
(* Every Git command the gate runs is one step that observes them once.    *)
(* Every failed comparison raises, which is the end of the gate.           *)
(*                                                                         *)
(* A content is the content of the whole worktree; diffs, manifests and    *)
(* fingerprints are what they identify, which takes SHA-256 as injective.  *)
(***************************************************************************)
EXTENDS Naturals, Sequences

CONSTANTS
    Contents,   \* contents of a worktree, index or commit
    BaseTree,   \* the content of the task's base commit
    Empty,      \* an empty diff or manifest
    Nothing,    \* a local variable that is not set
    MaxWrites   \* bound: changes a delayed writer makes

ASSUME GateConstants ==
    /\ BaseTree \in Contents
    /\ MaxWrites \in Nat
    /\ Empty \notin Contents \cup (Contents \X Contents)
    /\ Nothing \notin {Empty} \cup Contents \cup (Contents \X Contents)

VARIABLES
    work,      \* content of the worktree's files
    stamp,     \* their modification time
    index,     \* content of the Git index
    ref,       \* commit the task branch points to
    attached,  \* HEAD is the symbolic ref of the task branch (else: at the base)
    ignored,   \* some ignored file exists in the worktree
    bound,     \* Git metadata and registry record still match the task's identity
    source,    \* the user's repository still matches its snapshot
    writes,    \* changes made by the delayed writer
    touched,   \* one was made since the gate last took a full fingerprint
    within,    \* changes since its last round of reads began, counted up to two
    permit,    \* request.permissions.local_commit
    pc,        \* the gate's next step
    cap,       \* the capture in progress: purpose, next read, round, values read
    art,       \* the canonical diff artifact: what the reviewer saw
    approved,  \* approved_binding
    expected,  \* expected_tree
    object,    \* the commit written by commit-tree
    terminal   \* gate.terminal_binding

files == <<work, stamp, index, ref, attached, ignored, bound, source>>
writer == <<writes, touched, within>>
local == <<permit, art, approved, expected, object, terminal>>
vars == <<files, writer, local, pc, cap>>

-----------------------------------------------------------------------------
Commits == [tree : Contents, by : {"user", "gate", "writer"}]
BaseCommit == [tree |-> BaseTree, by |-> "user"]

HeadCommit == IF attached THEN ref ELSE BaseCommit

\* git diff and the manifest of changed paths with their bytes.
Diff(from, to) == IF from = to THEN Empty ELSE <<from, to>>
Manifest(from, to) == IF from = to THEN Empty ELSE to

Diffs == {Empty} \cup (Contents \X Contents)
Manifests == {Empty} \cup Contents

\* _validate_task_git_scope: the registered linked metadata, and HEAD on the task
\* branch.
Scoped == bound /\ attached

\* git_status_paths is empty.
Clean == HeadCommit.tree = index /\ index = work

\* worktree_fingerprint: HEAD, both diffs, ignored files, and for changed paths
\* the modification time too.  (Other refs and the shared configuration, which it
\* also covers, belong to source here.)
Full == [head |-> HeadCommit, index |-> index, work |-> work, ignored |-> ignored,
         stamp |-> IF Clean THEN 0 ELSE stamp]

Fulls == [head : Commits, index : Contents, work : Contents, ignored : BOOLEAN, stamp : Nat]

Bindings ==
    [content : Manifests, full : Fulls, head : Commits, clean : BOOLEAN,
     diff : Diffs, ignored : BOOLEAN]

\* What _capture_worktree_binding would return if nothing moved.
Snapshot == [content |-> Manifest(HeadCommit.tree, work), full |-> Full, head |-> HeadCommit,
             clean |-> Clean, diff |-> Diff(HeadCommit.tree, work), ignored |-> ignored]

\* The order of its reads: one round, then the same observations again.
Fields == {"content", "full", "head", "clean", "diff", "ignored"}
Reads == <<"content", "full", "head", "clean", "diff", "ignored",
           "head", "clean", "diff", "ignored", "content", "full">>

\* content_fingerprint: everything but the full fingerprint, which staging changes.
SameContent(b, c) ==
    \A f \in Fields \ {"full"} : b[f] = c[f]

Purposes == {"approved", "review", "stage", "staged", "terminal", "final"}

Pcs ==
    {"artifact", "capture", "review", "commit", "head", "status", "add", "staged_diff", "tree",
     "source", "owned", "index_tree", "index_diff", "object", "inspect", "owned_again",
     "tree_again", "diff_again", "update", "updated", "clean", "preview", "complete",
     "completed", "raised"}

TypeOK ==
    /\ work \in Contents /\ index \in Contents /\ ref \in Commits
    /\ stamp \in Nat /\ writes \in Nat
    /\ attached \in BOOLEAN /\ ignored \in BOOLEAN
    /\ bound \in BOOLEAN /\ source \in BOOLEAN
    /\ touched \in BOOLEAN /\ within \in 0..2 /\ permit \in BOOLEAN
    /\ pc \in Pcs
    /\ cap.for \in Purposes /\ cap.next \in 1..13 /\ cap.round \in 1..3
    /\ cap.got \in {Nothing} \cup Bindings
    /\ art \in Diffs \cup {Nothing}
    /\ approved \in Bindings \cup {Nothing} /\ terminal \in Bindings \cup {Nothing}
    /\ expected \in Contents \cup {Nothing}
    /\ object \in Commits \cup {Nothing}

\* A capture in its given round, about to take its next read.
Capturing(purpose, round, next, got) ==
    [for |-> purpose, round |-> round, next |-> next, got |-> got]

FreshCapture(purpose) == Capturing(purpose, 1, 1, Nothing)

\* The same capture, one read further.
ReadOn(got) == Capturing(cap.for, cap.round, cap.next + 1, got)

\* The executor has left its changes in the worktree (none, for a read-only task).
Init ==
    /\ work \in Contents /\ index = BaseTree /\ ref = BaseCommit /\ stamp = 1
    /\ attached = TRUE /\ ignored = FALSE /\ bound = TRUE /\ source = TRUE
    /\ writes = 0 /\ touched = FALSE /\ within = 0
    /\ permit \in BOOLEAN
    /\ pc = "artifact" /\ cap = FreshCapture("approved")
    /\ art = Nothing /\ approved = Nothing /\ expected = Nothing
    /\ object = Nothing /\ terminal = Nothing

-----------------------------------------------------------------------------
(* Shapes of a step *)

\* An observation: it changes nothing, and raises unless it saw what it expects.
AssertGit(at, seen, then) ==
    /\ pc = at
    /\ pc' = IF seen THEN then ELSE "raised"
    /\ UNCHANGED <<files, writer, local, cap>>

\* The same, followed by a capture.
AssertThenCapture(at, seen, purpose) ==
    /\ pc = at
    /\ pc' = IF seen THEN "capture" ELSE "raised"
    /\ cap' = FreshCapture(purpose)
    /\ UNCHANGED <<files, writer, local>>

-----------------------------------------------------------------------------
(* _capture_worktree_binding *)

Same(field) == cap.got[field] = Snapshot[field]

\* Scope and ignored files are checked once, before the first round.
CaptureBegin ==
    /\ pc = "capture" /\ cap.next = 1
    /\ IF cap.round > 1 \/ (Scoped /\ ~ignored)
          THEN /\ cap' = ReadOn(Snapshot)
               /\ UNCHANGED pc
          ELSE pc' = "raised" /\ UNCHANGED cap
    /\ within' = 0
    /\ UNCHANGED <<files, writes, touched, local>>

\* A repeated observation that differs sends the capture into its next round; the
\* reads left in this one have no effect.  After three rounds it gives up.
CaptureRead ==
    /\ pc = "capture" /\ cap.next \in 2..12
    /\ LET field == Reads[cap.next] IN
       IF cap.next <= 6
          THEN /\ cap' = ReadOn([cap.got EXCEPT ![field] = Snapshot[field]])
               /\ UNCHANGED pc
       ELSE IF Same(field)
          THEN cap' = ReadOn(cap.got) /\ UNCHANGED pc
       ELSE IF cap.round < 3
          THEN cap' = Capturing(cap.for, cap.round + 1, 1, Nothing) /\ UNCHANGED pc
          ELSE pc' = "raised" /\ UNCHANGED cap
    /\ touched' = IF Reads[cap.next] = "full" THEN FALSE ELSE touched
    /\ UNCHANGED <<files, writes, within, local>>

Captured(purpose) == pc = "capture" /\ cap.next = 13 /\ cap.for = purpose

-----------------------------------------------------------------------------
(* Review *)

Artifact ==
    /\ pc = "artifact"
    /\ art' = Diff(HeadCommit.tree, work)
    /\ pc' = "capture" /\ cap' = FreshCapture("approved")
    /\ UNCHANGED <<files, writer, permit, approved, expected, object, terminal>>

\* Wrong variant: the artifact is not compared with the captured diff.
Approve_ArtifactUnchecked ==
    /\ Captured("approved")
    /\ approved' = cap.got
    /\ pc' = IF Scoped /\ ~ignored THEN "review" ELSE "raised"
    /\ UNCHANGED <<files, writer, permit, art, expected, object, terminal, cap>>

\* The diff the reviewer will see is the one of the binding; what happens
\* to a diff the privacy policy blocks is in CodingTask.
Approve ==
    /\ Captured("approved")
    /\ approved' = cap.got
    /\ pc' = IF Scoped /\ ~ignored /\ art = cap.got.diff THEN "review" ELSE "raised"
    /\ UNCHANGED <<files, writer, permit, art, expected, object, terminal, cap>>

\* An accepting review; the deterministic reviewer looks at HEAD and the source.
ReviewAccepted ==
    AssertThenCapture("review", HeadCommit = BaseCommit /\ source /\ ~ignored, "review")

\* An accepted review counts only for the binding it was asked about.
Reviewed ==
    /\ Captured("review")
    /\ pc' = IF Scoped /\ ~ignored /\ cap.got = approved THEN "commit" ELSE "raised"
    /\ UNCHANGED <<files, writer, local, cap>>

-----------------------------------------------------------------------------
(* _commit, up to the guarded commit *)

CommitBoundary == AssertThenCapture("commit", Scoped /\ ~ignored /\ source, "stage")

\* Without permission to commit, the worktree itself is what is delivered.
BeforeStage ==
    /\ Captured("stage")
    /\ LET ok == Scoped /\ ~ignored /\ cap.got = approved IN
       /\ pc' = IF ~ok THEN "raised" ELSE IF permit THEN "head" ELSE "preview"
       /\ terminal' = IF ok /\ ~permit THEN cap.got ELSE terminal
    /\ UNCHANGED <<files, writer, permit, art, approved, expected, object, cap>>

HeadAtBase == AssertGit("head", HeadCommit = BaseCommit, "status")

StatusNotEmpty == AssertGit("status", ~Clean, "add")

\* git add --all.
StageAll ==
    /\ pc = "add"
    /\ IF Scoped
          THEN index' = work /\ pc' = "capture" /\ cap' = FreshCapture("staged")
          ELSE pc' = "raised" /\ UNCHANGED <<index, cap>>
    /\ UNCHANGED <<work, stamp, ref, attached, ignored, bound, source, writer, local>>

\* Wrong variant: the comparison does not allow for the index transition.
Staged_ExactBinding ==
    /\ Captured("staged")
    /\ pc' = IF Scoped /\ ~ignored /\ cap.got = approved THEN "staged_diff" ELSE "raised"
    /\ UNCHANGED <<files, writer, local, cap>>

Staged ==
    /\ Captured("staged")
    /\ pc' = IF Scoped /\ ~ignored /\ SameContent(approved, cap.got)
             THEN "staged_diff" ELSE "raised"
    /\ UNCHANGED <<files, writer, local, cap>>

\* git diff --cached HEAD.
StagedDiff == Diff(HeadCommit.tree, index)

CheckStagedDiff ==
    AssertGit("staged_diff", StagedDiff # Empty /\ StagedDiff = approved.diff, "tree")

\* git write-tree: an observation of the index apart from the staged diff.
WriteTree ==
    /\ pc = "tree"
    /\ expected' = index
    /\ pc' = "source"
    /\ UNCHANGED <<files, writer, permit, art, approved, object, terminal, cap>>

CheckSource == AssertGit("source", source /\ Scoped, "owned")

-----------------------------------------------------------------------------
(* _create_guarded_commit *)

\* _assert_owned_branch_head.
OwnedAtBase == Scoped /\ HeadCommit = BaseCommit /\ ref = BaseCommit

Owned == AssertGit("owned", OwnedAtBase, "index_tree")
IndexTree == AssertGit("index_tree", Scoped /\ index = expected, "index_diff")
IndexDiff == AssertGit("index_diff", StagedDiff = approved.diff, "object")

CommitTree ==
    /\ pc = "object"
    /\ object' = [tree |-> expected, by |-> "gate"]
    /\ pc' = "inspect"
    /\ UNCHANGED <<files, writer, permit, art, approved, expected, terminal, cap>>

\* The unreachable object is immutable: its tree, patch and manifest are settled.
InspectObject ==
    AssertGit("inspect",
           /\ object.tree = expected
           /\ Diff(BaseTree, object.tree) = approved.diff
           /\ Manifest(BaseTree, object.tree) = approved.content,
           "owned_again")

OwnedAgain == AssertGit("owned_again", OwnedAtBase, "tree_again")
TreeAgain == AssertGit("tree_again", Scoped /\ index = expected, "diff_again")
DiffAgain == AssertGit("diff_again", StagedDiff = approved.diff, "update")

\* git update-ref <ref> <new> <old>: the sole ref mutation, a compare-and-swap.
UpdateRef ==
    /\ pc = "update"
    /\ IF ref = BaseCommit
          THEN ref' = object /\ pc' = "updated"
          ELSE pc' = "raised" /\ UNCHANGED ref
    /\ UNCHANGED <<work, stamp, index, attached, ignored, bound, source, writer, local, cap>>

\* HEAD and the ref are read again; the object's tree and patch cannot differ.
Updated == AssertGit("updated", Scoped /\ ref = object, "clean")

-----------------------------------------------------------------------------
(* The end of _commit, and the terminal gate *)

\* git status after the commit; rev-list counts one commit over the base, because
\* commit-tree gave the object the base as its only parent.
CleanCommit == AssertThenCapture("clean", Clean, "terminal")

Terminal ==
    /\ Captured("terminal")
    /\ pc' = IF /\ Scoped /\ ~ignored
                /\ cap.got.head = object /\ cap.got.clean /\ cap.got.diff = Empty
                /\ cap.got.ignored = approved.ignored
             THEN "preview" ELSE "raised"
    /\ terminal' = cap.got
    /\ UNCHANGED <<files, writer, permit, art, approved, expected, object, cap>>

\* The contract is validated on a preview of the final state, the source checked.
Preview == AssertThenCapture("preview", source /\ Scoped /\ ~ignored, "final")

\* Wrong variant: the last observation is taken but not compared.
Final_Unchecked ==
    /\ Captured("final")
    /\ pc' = IF Scoped /\ ~ignored THEN "complete" ELSE "raised"
    /\ UNCHANGED <<files, writer, local, cap>>

Final ==
    /\ Captured("final")
    /\ pc' = IF Scoped /\ ~ignored /\ cap.got = terminal THEN "complete" ELSE "raised"
    /\ UNCHANGED <<files, writer, local, cap>>

\* The registry, the row and the task say so (CodingTask has those steps).
Complete == AssertGit("complete", TRUE, "completed")

-----------------------------------------------------------------------------
(* The delayed writer *)

Write ==
    /\ writes < MaxWrites /\ pc \notin {"completed", "raised"}
    /\ writes' = writes + 1 /\ touched' = TRUE
    /\ within' = IF within = 0 THEN 1 ELSE 2
    /\ UNCHANGED <<local, pc, cap>>

WriteFile ==
    /\ Write
    /\ work' \in Contents /\ stamp' = stamp + 1
    /\ UNCHANGED <<index, ref, attached, ignored, bound, source>>

WriteIndex ==
    /\ Write
    /\ index' \in Contents
    /\ UNCHANGED <<work, stamp, ref, attached, ignored, bound, source>>

\* A commit or a reset on the task branch.
MoveBranch ==
    /\ Write
    /\ ref' \in {BaseCommit} \cup [tree : Contents, by : {"writer"}]
    /\ UNCHANGED <<work, stamp, index, attached, ignored, bound, source>>

SwitchHead ==
    /\ Write
    /\ attached' = ~attached
    /\ UNCHANGED <<work, stamp, index, ref, ignored, bound, source>>

LeaveIgnored ==
    /\ Write
    /\ ignored' = ~ignored
    /\ UNCHANGED <<work, stamp, index, ref, attached, bound, source>>

ChangeMetadata ==
    /\ Write
    /\ bound' = ~bound
    /\ UNCHANGED <<work, stamp, index, ref, attached, ignored, source>>

ChangeSource ==
    /\ Write
    /\ source' = ~source
    /\ UNCHANGED <<work, stamp, index, ref, attached, ignored, bound>>

-----------------------------------------------------------------------------
Capture == CaptureBegin \/ CaptureRead

Review == Artifact \/ Approve \/ ReviewAccepted \/ Reviewed

Stage ==
    \/ CommitBoundary \/ BeforeStage \/ HeadAtBase \/ StatusNotEmpty \/ StageAll
    \/ Staged \/ CheckStagedDiff \/ WriteTree \/ CheckSource

Guard ==
    \/ Owned \/ IndexTree \/ IndexDiff \/ CommitTree \/ InspectObject
    \/ OwnedAgain \/ TreeAgain \/ DiffAgain \/ UpdateRef \/ Updated

Deliver == CleanCommit \/ Terminal \/ Preview \/ Final \/ Complete

GateStep == Capture \/ Review \/ Stage \/ Guard \/ Deliver

Writer ==
    \/ WriteFile \/ WriteIndex \/ MoveBranch \/ SwitchHead \/ LeaveIgnored
    \/ ChangeMetadata \/ ChangeSource

Next == GateStep \/ Writer

Spec == Init /\ [][Next]_vars

-----------------------------------------------------------------------------
(* Properties *)

\* Whatever a writer does, and whenever, the commit the gate puts on the task
\* branch is exactly the change the reviewer saw, and so is its manifest.
CommitIsReviewed ==
    ref.by = "gate" =>
        /\ ref = object
        /\ Diff(BaseTree, ref.tree) = art
        /\ Manifest(BaseTree, ref.tree) = approved.content

\* The gate never discards a commit that something else put on the branch.
NeverOverwrites ==
    [][ref'.by = "gate" /\ ref' # ref => ref = BaseCommit]_vars

\* A completed task whose files nothing has touched since the last fingerprint
\* holds the reviewed change: as one clean commit, or in the worktree itself,
\* as a change to the commit HEAD is at.  A change made while the last binding was
\* being read never slips through; a second one in the same round may undo it
\* between the two fingerprints, which no comparison of the gate can see.
DeliveredAsReviewed ==
    pc = "completed" /\ ~touched /\ within < 2 =>
        IF permit
           THEN attached /\ ref = object /\ Clean /\ Diff(BaseTree, work) = art
           ELSE Diff(HeadCommit.tree, work) = art

\* The gate is not stricter than its purpose: it rejects only what something
\* disturbed after the diff was captured, or a commit without a change.  Its own
\* staging and commit alter index, status and HEAD under the fingerprints it
\* compares, and must never look like a disturbance.
OnlyDisturbanceRaises ==
    pc = "raised" => writes > 0 \/ (permit /\ art = Empty)

\* The gate completes a task only with what was reviewed, and rejects it only when
\* something disturbed it.
GateDecidesRight == TypeOK /\ DeliveredAsReviewed /\ OnlyDisturbanceRaises
=============================================================================
