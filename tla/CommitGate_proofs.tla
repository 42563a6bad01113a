--------------------------- MODULE CommitGate_proofs ---------------------------
(***************************************************************************)
(* What the commit gate puts on the task branch, for every content, every  *)
(* writer and any number of writes.                                        *)
(*                                                                         *)
(* The argument: no comparison of the mutable worktree or index is needed. *)
(* Up to update-ref no gate commit is on the branch (NotYet); the commit   *)
(* object is immutable and was compared with the approved binding before   *)
(* the gate may reach update-ref (Inspected); and the approved binding has *)
(* the diff the reviewer saw from the moment the review starts (SameDiff). *)
(***************************************************************************)
EXTENDS CommitGate, TLAPS

BeforeUpdate ==
    {"artifact", "review", "commit", "head", "status", "add", "staged_diff", "tree",
     "source", "owned", "index_tree", "index_diff", "object", "inspect", "owned_again",
     "tree_again", "diff_again", "update"}

NotYet ==
    \/ pc \in BeforeUpdate
    \/ pc = "capture" /\ cap.for \in {"approved", "review", "stage", "staged"}
    => ref.by # "gate"

SameDiff ==
    pc \in BeforeUpdate \ {"artifact"} \/ (pc = "capture" /\ cap.for \in {"review", "stage", "staged"})
    => art = approved.diff

Inspected ==
    pc \in {"owned_again", "tree_again", "diff_again", "update"} =>
        /\ Diff(BaseTree, object.tree) = approved.diff
        /\ Manifest(BaseTree, object.tree) = approved.content

GateInv == NotYet /\ SameDiff /\ Inspected /\ CommitIsReviewed

\* A capture, restarted or not, keeps its purpose and reads only.
LEMMA CaptureSafe == GateInv /\ Capture => GateInv'
<1> SUFFICES ASSUME GateInv, Capture PROVE GateInv'
    OBVIOUS
<1>1. /\ pc = "capture" /\ pc' \in {"capture", "raised"} /\ UNCHANGED <<ref, art, approved, object>>
    BY DEF Capture, CaptureBegin, CaptureRead, files, local
<1>2. cap'.for = cap.for
  <2>1. cap' = cap \/ \E round, next, got : cap' = Capturing(cap.for, round, next, got)
      BY Zenon DEF Capture, CaptureBegin, CaptureRead, ReadOn
  <2> QED
      BY <2>1 DEF Capturing
<1> QED
    BY <1>1, <1>2 DEF GateInv, NotYet, SameDiff, Inspected, CommitIsReviewed, BeforeUpdate

\* Review ends with the artifact equal to the approved diff; nothing is committed.
LEMMA ReviewSafe == GateInv /\ Review => GateInv'
<1> SUFFICES ASSUME GateInv, Review PROVE GateInv'
    OBVIOUS
<1>1. CASE Artifact
    BY <1>1 DEF Artifact, FreshCapture, Capturing, GateInv, NotYet, SameDiff, Inspected, CommitIsReviewed,
                BeforeUpdate, files
<1>2. CASE Approve
    BY <1>2 DEF Approve, Captured, GateInv, NotYet, SameDiff, Inspected, CommitIsReviewed,
                BeforeUpdate, files
<1>3. CASE ReviewAccepted
    BY <1>3 DEF ReviewAccepted, AssertThenCapture, FreshCapture, Capturing, GateInv, NotYet, SameDiff,
                Inspected, CommitIsReviewed, BeforeUpdate, files, local
<1>4. CASE Reviewed
    BY <1>4 DEF Reviewed, Captured, GateInv, NotYet, SameDiff, Inspected, CommitIsReviewed,
                BeforeUpdate, files, local
<1> QED
    BY <1>1, <1>2, <1>3, <1>4 DEF Review

\* Staging changes the index only.
LEMMA StageSafe == GateInv /\ Stage => GateInv'
<1> SUFFICES ASSUME GateInv, Stage PROVE GateInv'
    OBVIOUS
<1>1. UNCHANGED <<ref, art, approved, object>>
    BY DEF Stage, CommitBoundary, BeforeStage, HeadAtBase, StatusNotEmpty, StageAll, Staged,
           CheckStagedDiff, WriteTree, CheckSource, AssertGit, AssertThenCapture, files, local
<1>2. /\ \/ pc \in {"commit", "head", "status", "add", "staged_diff", "tree", "source"}
         \/ pc = "capture" /\ cap.for \in {"stage", "staged"}
      /\ \/ pc' \in {"head", "status", "add", "staged_diff", "tree", "source", "owned",
                     "preview", "raised"}
         \/ pc' = "capture" /\ cap'.for \in {"stage", "staged"}
    BY DEF Stage, CommitBoundary, BeforeStage, HeadAtBase, StatusNotEmpty, StageAll, Staged,
           CheckStagedDiff, WriteTree, CheckSource, AssertGit, AssertThenCapture, Captured,
           FreshCapture, Capturing
<1> QED
    BY <1>1, <1>2 DEF GateInv, NotYet, SameDiff, Inspected, CommitIsReviewed, BeforeUpdate

\* Only an inspected object reaches update-ref.
LEMMA GuardSafe == GateInv /\ Guard => GateInv'
<1> SUFFICES ASSUME GateInv, Guard PROVE GateInv'
    OBVIOUS
<1> USE DEF GateInv, NotYet, SameDiff, Inspected, CommitIsReviewed, BeforeUpdate
<1>1. CASE Owned \/ IndexTree \/ IndexDiff
    BY <1>1 DEF Owned, IndexTree, IndexDiff, AssertGit, files, local
<1>2. CASE CommitTree
    BY <1>2 DEF CommitTree, files
<1>3. CASE InspectObject
    BY <1>3 DEF InspectObject, AssertGit, files, local
<1>4. CASE OwnedAgain \/ TreeAgain \/ DiffAgain
    BY <1>4 DEF OwnedAgain, TreeAgain, DiffAgain, AssertGit, files, local
<1>5. CASE UpdateRef
    BY <1>5 DEF UpdateRef, local
<1>6. CASE Updated
    BY <1>6 DEF Updated, AssertGit, files, local
<1> QED
    BY <1>1, <1>2, <1>3, <1>4, <1>5, <1>6 DEF Guard

\* Delivery observes.
LEMMA DeliverSafe == GateInv /\ Deliver => GateInv'
<1> SUFFICES ASSUME GateInv, Deliver PROVE GateInv'
    OBVIOUS
<1>1. UNCHANGED <<ref, art, approved, object>>
    BY DEF Deliver, CleanCommit, Terminal, Preview, Final, Complete, AssertGit,
           AssertThenCapture, files, local
<1>2. /\ \/ pc' \in {"preview", "complete", "completed", "raised"}
         \/ pc' = "capture" /\ cap'.for \in {"terminal", "final"}
    BY DEF Deliver, CleanCommit, Terminal, Preview, Final, Complete, AssertGit,
           AssertThenCapture, FreshCapture, Capturing
<1> QED
    BY <1>1, <1>2 DEF GateInv, NotYet, SameDiff, Inspected, CommitIsReviewed, BeforeUpdate

\* A writer never makes a gate commit.
LEMMA WriterSafe == GateInv /\ Writer => GateInv'
<1> SUFFICES ASSUME GateInv, Writer PROVE GateInv'
    OBVIOUS
<1>1. UNCHANGED <<pc, cap, art, approved, object>>
    BY DEF Writer, WriteFile, WriteIndex, MoveBranch, SwitchHead, LeaveIgnored,
           ChangeMetadata, ChangeSource, Write, local
<1>2. ref' = ref \/ ref'.by # "gate"
    BY DEF Writer, WriteFile, WriteIndex, MoveBranch, SwitchHead, LeaveIgnored,
           ChangeMetadata, ChangeSource, BaseCommit
<1> QED
    BY <1>1, <1>2 DEF GateInv, NotYet, SameDiff, Inspected, CommitIsReviewed

\* Every step of the gate and of the writer keeps it.
LEMMA GatePreserved == GateInv /\ [Next]_vars => GateInv'
<1> SUFFICES ASSUME GateInv, [Next]_vars PROVE GateInv'
    OBVIOUS
<1>1. CASE Next
    BY <1>1, CaptureSafe, ReviewSafe, StageSafe, GuardSafe, DeliverSafe, WriterSafe
       DEF Next, GateStep
<1>2. CASE UNCHANGED vars
    BY <1>2 DEF vars, files, local, GateInv, NotYet, SameDiff, Inspected, CommitIsReviewed
<1> QED
    BY <1>1, <1>2

\* _create_guarded_commit: whatever a delayed writer does to the worktree, the
\* index, the branch or HEAD, and however often, the commit the engine puts on
\* the task branch is exactly the change the reviewer saw.
THEOREM GuardedCommit == Spec => []CommitIsReviewed
<1>1. Init => GateInv
    BY DEF Init, GateInv, NotYet, SameDiff, Inspected, CommitIsReviewed, BaseCommit,
           BeforeUpdate, FreshCapture, Capturing
<1>2. GateInv /\ [Next]_vars => GateInv'
    BY GatePreserved
<1>3. GateInv => CommitIsReviewed
    BY DEF GateInv
<1> QED
    BY <1>1, <1>2, <1>3, PTL DEF Spec

\* update-ref is a compare-and-swap from the base commit: no commit that another
\* process put on the branch is ever replaced by the gate's.
THEOREM BranchNotOverwritten == Spec => NeverOverwrites
<1>1. [Next]_vars => (ref'.by = "gate" /\ ref' # ref => ref = BaseCommit)
  <2> SUFFICES ASSUME [Next]_vars, ref'.by = "gate", ref' # ref PROVE ref = BaseCommit
      OBVIOUS
  <2>1. CASE UpdateRef
      BY <2>1 DEF UpdateRef
  <2>2. CASE GateStep /\ ~UpdateRef
      BY <2>2 DEF GateStep, Capture, CaptureBegin, CaptureRead, Review, Artifact, Approve,
                  ReviewAccepted, Reviewed, Stage, CommitBoundary, BeforeStage, HeadAtBase,
                  StatusNotEmpty, StageAll, Staged, CheckStagedDiff, WriteTree, CheckSource,
                  Guard, Owned, IndexTree, IndexDiff, CommitTree, InspectObject, OwnedAgain,
                  TreeAgain, DiffAgain, Updated, Deliver, CleanCommit, Terminal, Preview,
                  Final, Complete, AssertGit, AssertThenCapture, files
  <2>3. CASE Writer
      BY <2>3 DEF Writer, WriteFile, WriteIndex, MoveBranch, SwitchHead, LeaveIgnored,
                  ChangeMetadata, ChangeSource, BaseCommit
  <2>4. CASE UNCHANGED vars
      BY <2>4 DEF vars, files
  <2> QED
      BY <2>1, <2>2, <2>3, <2>4 DEF Next
<1> QED
    BY <1>1, PTL DEF Spec, NeverOverwrites

(***************************************************************************)
(* What the gate decides.  Two arguments, each for any number of writes.   *)
(*                                                                         *)
(* It completes only with what was reviewed: a binding is a function of    *)
(* the full fingerprint, which every round reads first and last.  A round  *)
(* that one write falls into either sees two fingerprints, or that write   *)
(* changed nothing the binding says (RoundAgrees, RoundSettled); and what  *)
(* the last binding must equal is the delivered change (Deliverable).      *)
(*                                                                         *)
(* It rejects only what was disturbed: while nobody writes, every value it *)
(* reads, holds and compares is a function of the content it found, before *)
(* staging, after staging and after the commit (Undisturbed).              *)
(***************************************************************************)
CaptureFor(purposes) == pc = "capture" /\ cap.for \in purposes

StagedPcs ==
    {"staged_diff", "tree", "source", "owned", "index_tree", "index_diff", "object", "inspect",
     "owned_again", "tree_again", "diff_again", "update"}

Delivering == pc \in {"preview", "complete", "completed"} \/ CaptureFor({"final"})

\* A capture that has read once holds a binding, and values are set before their use.
Held ==
    /\ cap.next > 1 => cap.got \in Bindings
    /\ pc \in {"source", "owned", "index_tree", "index_diff", "object"} => expected \in Contents

\* Only a permitted commit goes past staging, and it delivers the object it built.
Committing ==
    /\ pc \in {"head", "status", "add", "updated", "clean"} \cup StagedPcs
       \/ CaptureFor({"staged", "terminal"}) => permit
    /\ pc \in {"inspect", "owned_again", "tree_again", "diff_again", "update", "updated", "clean"}
       \/ CaptureFor({"terminal"}) => object \in Commits /\ object.by = "gate"
    /\ pc \in {"owned_again", "tree_again", "diff_again", "update", "updated", "clean"}
       \/ CaptureFor({"terminal"}) => Diff(BaseTree, object.tree) = art

\* What the last observation is compared with.
Deliverable ==
    Delivering =>
        IF permit
           THEN /\ terminal.head = object /\ terminal.clean
                /\ object.by = "gate" /\ Diff(BaseTree, object.tree) = art
           ELSE terminal.diff = art

\* The fields read so far are those of the first fingerprint, if at most one write
\* fell into the round and left the fingerprint as it was.
RoundAgrees ==
    pc = "capture" /\ cap.next \in 3..12 =>
        /\ within = 0 => cap.got.full = Full
        /\ within < 2 /\ cap.got.full = Full =>
            /\ cap.next > 3 => cap.got.head = HeadCommit
            /\ cap.next > 4 => cap.got.clean = Clean
            /\ cap.next > 5 => cap.got.diff = Diff(HeadCommit.tree, work)

RoundSettled ==
    /\ (pc = "capture" /\ cap.next = 13) \/ pc \in {"complete", "completed"}
    /\ ~touched /\ within < 2
    =>
            /\ cap.got.full = Full /\ cap.got.head = HeadCommit
            /\ cap.got.clean = Clean /\ cap.got.diff = Diff(HeadCommit.tree, work)

Compared == pc \in {"complete", "completed"} => cap.got = terminal

\* Nobody has written: everything follows from the content the executor left.
GateCommit == [tree |-> work, by |-> "gate"]

Unstaged ==
    [content |-> Manifest(BaseTree, work),
     full |-> [head |-> BaseCommit, index |-> BaseTree, work |-> work, ignored |-> FALSE,
               stamp |-> IF BaseTree = work THEN 0 ELSE 1],
     head |-> BaseCommit, clean |-> (BaseTree = work),
     diff |-> Diff(BaseTree, work), ignored |-> FALSE]

HasCommitted == pc \in {"updated", "clean"} \/ CaptureFor({"terminal"}) \/ (permit /\ Delivering)
HasStaged == pc \in StagedPcs \/ CaptureFor({"staged"}) \/ HasCommitted

Calm ==
    /\ attached /\ ~ignored /\ bound /\ source /\ stamp = 1
    /\ index = IF HasStaged THEN work ELSE BaseTree
    /\ ref = IF HasCommitted THEN GateCommit ELSE BaseCommit
    /\ pc = "add" \/ HasStaged => work # BaseTree
    /\ pc # "artifact" => art = Diff(BaseTree, work)
    /\ pc # "artifact" /\ ~CaptureFor({"approved"}) => approved = Unstaged
    /\ pc = "capture" => cap.round = 1 /\ (cap.next > 1 => cap.got = Snapshot)
    /\ pc \in StagedPcs \ {"staged_diff", "tree"} => expected = work
    /\ pc \in {"inspect", "owned_again", "tree_again", "diff_again", "update"} \/ HasCommitted
       => object = GateCommit
    /\ Delivering => terminal = Snapshot

Undisturbed == writes = 0 => IF pc = "raised" THEN permit /\ art = Empty ELSE Calm

DecisionInv ==
    /\ TypeOK /\ Held
    /\ Committing /\ Deliverable /\ RoundAgrees /\ RoundSettled /\ Compared
    /\ Undisturbed

-----------------------------------------------------------------------------
(* What a binding holds *)

\* Everything a binding records is well formed (engine.py: _capture_worktree_binding).
LEMMA SnapshotTyped ==
    ASSUME TypeOK PROVE Snapshot \in Bindings /\ Full \in Fulls /\ HeadCommit \in Commits
<1>1. BaseCommit \in Commits BY GateConstants DEF BaseCommit, Commits
<1>2. HeadCommit \in Commits BY <1>1 DEF TypeOK, HeadCommit
<1>3. HeadCommit.tree \in Contents BY <1>2 DEF Commits
<1>4. Full \in Fulls BY <1>2 DEF TypeOK, Full, Fulls, Clean
<1>5. Diff(HeadCommit.tree, work) \in Diffs /\ Manifest(HeadCommit.tree, work) \in Manifests
  BY <1>3 DEF TypeOK, Diff, Manifest, Diffs, Manifests
<1>6. Clean \in BOOLEAN BY DEF Clean
<1> QED BY <1>2, <1>4, <1>5, <1>6 DEF TypeOK, Snapshot, Bindings

\* A binding is a function of the full fingerprint.
LEMMA FullDecides ==
    ASSUME Full' = Full
    PROVE  /\ HeadCommit' = HeadCommit /\ Clean' = Clean
           /\ Diff(HeadCommit.tree, work)' = Diff(HeadCommit.tree, work)
<1>1. Full.head = HeadCommit /\ Full.index = index /\ Full.work = work
  BY DEF Full
<1>2. Full'.head = HeadCommit' /\ Full'.index = index' /\ Full'.work = work'
  BY DEF Full
<1>3. HeadCommit' = HeadCommit /\ index' = index /\ work' = work BY <1>1, <1>2
<1> QED BY <1>3 DEF Clean

\* What one read of a round writes.
LEMMA BindingRead ==
    ASSUME NEW g \in Bindings, NEW s \in Bindings, NEW f \in Fields
    PROVE  [g EXCEPT ![f] = s[f]] \in Bindings
<1>1. CASE f = "content" BY <1>1 DEF Bindings
<1>2. CASE f = "full" BY <1>2 DEF Bindings
<1>3. CASE f = "head" BY <1>3 DEF Bindings
<1>4. CASE f = "clean" BY <1>4 DEF Bindings
<1>5. CASE f = "diff" BY <1>5 DEF Bindings
<1>6. CASE f = "ignored" BY <1>6 DEF Bindings
<1> QED BY <1>1, <1>2, <1>3, <1>4, <1>5, <1>6 DEF Fields

\* The order of the reads.
LEMMA ReadsInOrder ==
    /\ \A n \in 2..12 : Reads[n] \in Fields
    /\ Reads[2] = "full" /\ Reads[3] = "head" /\ Reads[4] = "clean" /\ Reads[5] = "diff"
    /\ Reads[6] = "ignored" /\ Reads[12] = "full"
    /\ \A n \in 7..11 : Reads[n] # "full"
<1>1. \A n \in 2..12 : n \in {2, 3, 4, 5, 6, 7, 8, 9, 10, 11, 12} OBVIOUS
<1> QED BY <1>1 DEF Reads, Fields

-----------------------------------------------------------------------------
(* A step of _capture_worktree_binding *)

\* The first read of a round takes a whole binding.
LEMMA BeginDecides == ASSUME DecisionInv, CaptureBegin PROVE DecisionInv'
<1>1. /\ TypeOK /\ Held /\ Committing /\ Deliverable /\ Undisturbed
  BY DEF DecisionInv
<1>2. /\ pc = "capture" /\ cap.next = 1 /\ within' = 0
      /\ UNCHANGED <<work, stamp, index, ref, attached, ignored, bound, source, writes, touched>>
      /\ UNCHANGED <<permit, art, approved, expected, object, terminal>>
  BY DEF CaptureBegin, files, local
<1>3. PICK s \in Bindings : s = Snapshot BY <1>1, SnapshotTyped
<1>4. Snapshot' = Snapshot
  BY <1>2 DEF Snapshot, Full, HeadCommit, Clean
<1>5. CASE pc' = "capture" /\ cap' = ReadOn(s)
  <2>1. cap'.for = cap.for /\ cap'.round = cap.round /\ cap'.next = 2 /\ cap'.got = s
    BY <1>2, <1>5 DEF ReadOn, Capturing
  <2>2. TypeOK' BY <1>1, <1>2, <1>5, <2>1 DEF TypeOK, Pcs
  <2>3. Held' /\ Committing' /\ Deliverable' /\ RoundAgrees' /\ RoundSettled' /\ Compared'
    BY <1>1, <1>2, <1>5, <2>1 DEF Held, Committing, Deliverable, RoundAgrees, RoundSettled,
       Compared, CaptureFor, Delivering, StagedPcs
  <2>4. Undisturbed'
    <3> SUFFICES ASSUME writes = 0 PROVE Calm'
      BY <1>2, <1>5 DEF Undisturbed
    <3>1. Calm BY <1>1, <1>2 DEF Undisturbed
    <3>2. HasStaged' = HasStaged /\ HasCommitted' = HasCommitted /\ Delivering' = Delivering
          /\ CaptureFor({"approved"})' = CaptureFor({"approved"})
      BY <1>2, <1>5, <2>1 DEF HasStaged, HasCommitted, Delivering, CaptureFor
    <3> QED BY <1>2, <1>3, <1>4, <1>5, <2>1, <3>1, <3>2 DEF Calm, GateCommit, Unstaged
  <2> QED BY <2>2, <2>3, <2>4 DEF DecisionInv
<1>6. CASE pc' = "raised" /\ cap' = cap /\ ~(cap.round > 1 \/ (Scoped /\ ~ignored))
  <2>1. TypeOK' BY <1>1, <1>2, <1>6 DEF TypeOK, Pcs
  <2>2. Held' /\ Committing' /\ Deliverable' /\ RoundAgrees' /\ RoundSettled' /\ Compared'
    BY <1>1, <1>2, <1>6 DEF Held, Committing, Deliverable, RoundAgrees, RoundSettled,
       Compared, CaptureFor, Delivering, StagedPcs
  <2>3. Undisturbed' BY <1>1, <1>2, <1>6 DEF Undisturbed, Calm, Scoped
  <2> QED BY <2>1, <2>2, <2>3 DEF DecisionInv
<1> QED BY <1>2, <1>3, <1>5, <1>6 DEF CaptureBegin

\* Each later read either takes its value or compares it.
LEMMA ReadDecides == ASSUME DecisionInv, CaptureRead PROVE DecisionInv'
<1>1. /\ TypeOK /\ Held /\ Committing /\ Deliverable /\ Undisturbed /\ RoundAgrees
  BY DEF DecisionInv
<1>2. /\ pc = "capture" /\ cap.next \in 2..12 /\ cap.got \in Bindings
      /\ UNCHANGED <<work, stamp, index, ref, attached, ignored, bound, source, writes, within>>
      /\ UNCHANGED <<permit, art, approved, expected, object, terminal>>
  BY <1>1 DEF CaptureRead, files, local, Held
<1>3. PICK s \in Bindings : s = Snapshot BY <1>1, SnapshotTyped
<1>4. PICK g \in Bindings : g = cap.got BY <1>2
<1>5. PICK n \in 2..12 : n = cap.next BY <1>2
<1>6. PICK field \in Fields : field = Reads[n] BY <1>5, ReadsInOrder
<1>7. Snapshot' = Snapshot /\ Full' = Full /\ HeadCommit' = HeadCommit /\ Clean' = Clean
  BY <1>2 DEF Snapshot, Full, HeadCommit, Clean
<1>8. touched' \in BOOLEAN /\ (n = 12 => touched' = FALSE)
  BY <1>1, <1>5, <1>6, ReadsInOrder DEF CaptureRead, TypeOK
<1>9. /\ s.full = Full /\ s.head = HeadCommit /\ s.clean = Clean
      /\ s.diff = Diff(HeadCommit.tree, work)
  BY <1>3 DEF Snapshot
<1>10. ASSUME NEW h \in Bindings, pc' = "capture", cap' = ReadOn(h), writes = 0 => h = s,
              RoundAgrees', RoundSettled'
       PROVE  DecisionInv'
  <2>1. cap'.for = cap.for /\ cap'.round = cap.round /\ cap'.next = n + 1 /\ cap'.got = h
    BY <1>5, <1>10 DEF ReadOn, Capturing
  <2>2. TypeOK' BY <1>1, <1>2, <1>5, <1>8, <1>10, <2>1 DEF TypeOK, Pcs
  <2>3. Held' /\ Committing' /\ Deliverable' /\ Compared'
    BY <1>1, <1>2, <1>10, <2>1 DEF Held, Committing, Deliverable,
       Compared, CaptureFor, Delivering, StagedPcs
  <2>4. Undisturbed'
    <3> SUFFICES ASSUME writes = 0 PROVE Calm'
      BY <1>2, <1>10 DEF Undisturbed
    <3>1. Calm BY <1>1, <1>2 DEF Undisturbed
    <3>2. HasStaged' = HasStaged /\ HasCommitted' = HasCommitted /\ Delivering' = Delivering
          /\ CaptureFor({"approved"})' = CaptureFor({"approved"})
      BY <1>2, <1>10, <2>1 DEF HasStaged, HasCommitted, Delivering, CaptureFor
    <3> QED BY <1>2, <1>3, <1>7, <1>10, <2>1, <3>1, <3>2 DEF Calm, GateCommit, Unstaged
  <2> QED BY <1>10, <2>2, <2>3, <2>4 DEF DecisionInv
<1>11. writes = 0 => g = s
  BY <1>1, <1>2, <1>3, <1>4, <1>5 DEF Undisturbed, Calm
<1>12. CASE n <= 6
  <2> DEFINE h == [g EXCEPT ![field] = s[field]]
  <2>1. h \in Bindings BY BindingRead
  <2>2. pc' = "capture" /\ cap' = ReadOn(h)
    BY <1>2, <1>3, <1>4, <1>5, <1>6, <1>12 DEF CaptureRead
  <2>3. cap'.next = n + 1 /\ cap'.got = h BY <1>5, <2>2 DEF ReadOn, Capturing
  <2>4. writes = 0 => h = s
    <3>1. [s EXCEPT ![field] = s[field]] = s BY DEF Bindings
    <3> QED BY <1>11, <3>1
  <2>5. /\ n = 2 => h.full = s.full
        /\ n = 3 => h.full = g.full /\ h.head = s.head
        /\ n = 4 => h.full = g.full /\ h.head = g.head /\ h.clean = s.clean
        /\ n = 5 => h.full = g.full /\ h.head = g.head /\ h.clean = g.clean /\ h.diff = s.diff
        /\ n = 6 => h.full = g.full /\ h.head = g.head /\ h.clean = g.clean /\ h.diff = g.diff
    BY <1>6, ReadsInOrder DEF Bindings
  <2> HIDE DEF h
  <2>6. n \in {2, 3, 4, 5, 6} BY <1>12
  <2>7. RoundAgrees' /\ RoundSettled'
    BY <1>1, <1>2, <1>4, <1>5, <1>7, <1>9, <2>2, <2>3, <2>5, <2>6 DEF RoundAgrees, RoundSettled
  <2> QED BY <1>10, <2>1, <2>2, <2>4, <2>7
<1>13. CASE n > 6 /\ Same(field)
  <2>1. pc' = "capture" /\ cap' = ReadOn(g)
    BY <1>2, <1>4, <1>5, <1>6, <1>13 DEF CaptureRead
  <2>2. cap'.next = n + 1 /\ cap'.got = g BY <1>5, <2>1 DEF ReadOn, Capturing
  <2>3. RoundAgrees'
    BY <1>1, <1>2, <1>4, <1>5, <1>7, <1>13, <2>1, <2>2 DEF RoundAgrees
  <2>4. RoundSettled'
    <3> SUFFICES ASSUME n = 12, within < 2
                 PROVE  /\ g.full = Full /\ g.head = HeadCommit
                        /\ g.clean = Clean /\ g.diff = Diff(HeadCommit.tree, work)
      BY <1>2, <1>7, <2>1, <2>2 DEF RoundSettled
    <3>1. g.full = Full BY <1>3, <1>4, <1>6, <1>9, <1>13, ReadsInOrder DEF Same
    <3> QED BY <1>1, <1>2, <1>4, <1>5, <3>1 DEF RoundAgrees
  <2> QED BY <1>10, <1>11, <2>1, <2>3, <2>4
<1>14. CASE n > 6 /\ ~Same(field)
  <2>1. writes # 0
    BY <1>3, <1>4, <1>6, <1>11, <1>14 DEF Same
  <2>2. \/ pc' = "raised" /\ cap' = cap
        \/ cap.round < 3 /\ pc' = "capture" /\ cap' = Capturing(cap.for, cap.round + 1, 1, Nothing)
    BY <1>2, <1>5, <1>6, <1>14 DEF CaptureRead
  <2>3. CASE pc' = "raised" /\ cap' = cap
    <3>1. TypeOK' BY <1>1, <1>2, <1>8, <2>3 DEF TypeOK, Pcs
    <3>2. Held' /\ Committing' /\ Deliverable' /\ RoundAgrees' /\ RoundSettled' /\ Compared'
      BY <1>1, <1>2, <2>3 DEF Held, Committing, Deliverable, RoundAgrees, RoundSettled,
         Compared, CaptureFor, Delivering, StagedPcs
    <3> QED BY <1>2, <2>1, <3>1, <3>2 DEF DecisionInv, Undisturbed
  <2>4. CASE cap.round < 3 /\ pc' = "capture"
             /\ cap' = Capturing(cap.for, cap.round + 1, 1, Nothing)
    <3>1. cap'.for = cap.for /\ cap'.round = cap.round + 1 /\ cap'.next = 1 /\ cap'.got = Nothing
      BY <2>4 DEF Capturing
    <3>2. TypeOK' BY <1>1, <1>2, <1>8, <2>4, <3>1 DEF TypeOK, Pcs
    <3>3. Held' /\ Committing' /\ Deliverable' /\ RoundAgrees' /\ RoundSettled' /\ Compared'
      BY <1>1, <1>2, <2>4, <3>1 DEF Held, Committing, Deliverable, RoundAgrees, RoundSettled,
         Compared, CaptureFor, Delivering, StagedPcs
    <3> QED BY <1>2, <2>1, <3>2, <3>3 DEF DecisionInv, Undisturbed
  <2> QED BY <2>2, <2>3, <2>4
<1> QED BY <1>5, <1>12, <1>13, <1>14

-----------------------------------------------------------------------------
(* The writer *)

\* A write disturbs; one that falls into a round shows in its second fingerprint.
LEMMA WriterDecides == ASSUME DecisionInv, Writer PROVE DecisionInv'
<1>1. /\ TypeOK /\ Held /\ Committing /\ Deliverable /\ RoundAgrees /\ Compared
  BY DEF DecisionInv
<1>2. /\ writes' = writes + 1 /\ touched' = TRUE /\ within' = IF within = 0 THEN 1 ELSE 2
      /\ pc \notin {"completed", "raised"}
      /\ UNCHANGED <<permit, art, approved, expected, object, terminal, pc, cap>>
  BY DEF Writer, WriteFile, WriteIndex, MoveBranch, SwitchHead, LeaveIgnored, ChangeMetadata,
         ChangeSource, Write, local
<1>3. /\ work' \in Contents /\ index' \in Contents /\ ref' \in Commits /\ stamp' \in Nat
      /\ attached' \in BOOLEAN /\ ignored' \in BOOLEAN /\ bound' \in BOOLEAN /\ source' \in BOOLEAN
  <2>1. BaseCommit \in Commits /\ [tree : Contents, by : {"writer"}] \subseteq Commits
    BY GateConstants DEF BaseCommit, Commits
  <2>2. CASE WriteFile BY <1>1, <2>2 DEF TypeOK, WriteFile
  <2>3. CASE WriteIndex BY <1>1, <2>3 DEF TypeOK, WriteIndex
  <2>4. CASE MoveBranch
    <3>1. ref' \in Commits BY <2>1, <2>4 DEF MoveBranch
    <3> QED BY <1>1, <2>4, <3>1 DEF TypeOK, MoveBranch
  <2>5. CASE SwitchHead \/ LeaveIgnored \/ ChangeMetadata \/ ChangeSource
    BY <1>1, <2>5 DEF TypeOK, SwitchHead, LeaveIgnored, ChangeMetadata, ChangeSource
  <2> QED BY <2>2, <2>3, <2>4, <2>5 DEF Writer
<1>4. TypeOK' BY <1>1, <1>2, <1>3 DEF TypeOK
<1>5. Held' /\ Committing' /\ Deliverable' /\ RoundSettled' /\ Compared'
  BY <1>1, <1>2 DEF Held, Committing, Deliverable, RoundSettled, Compared, CaptureFor, Delivering
<1>6. RoundAgrees'
  <2> SUFFICES ASSUME pc = "capture", cap.next \in 3..12, within = 0, cap.got.full = Full'
               PROVE  /\ cap.next > 3 => cap.got.head = HeadCommit'
                      /\ cap.next > 4 => cap.got.clean = Clean'
                      /\ cap.next > 5 => cap.got.diff = Diff(HeadCommit.tree, work)'
    BY <1>1, <1>2 DEF RoundAgrees, TypeOK
  <2>1. cap.got.full = Full BY <1>1 DEF RoundAgrees
  <2>2. Full' = Full BY <2>1
  <2> QED BY <1>1, <2>1, <2>2, FullDecides DEF RoundAgrees
<1>7. Undisturbed' BY <1>1, <1>2 DEF Undisturbed, TypeOK
<1> QED BY <1>4, <1>5, <1>6, <1>7 DEF DecisionInv

-----------------------------------------------------------------------------
(* The gate's own steps *)

\* What a step that only observes leaves alone.
Observes ==
    /\ UNCHANGED <<work, stamp, index, ref, attached, ignored, bound, source>>
    /\ UNCHANGED <<writes, touched, within>>

\* With its files as they were, the gate observes the same.
LEMMA ObservesSame ==
    ASSUME Observes
    PROVE  /\ Snapshot' = Snapshot /\ Full' = Full /\ HeadCommit' = HeadCommit /\ Clean' = Clean
           /\ GateCommit' = GateCommit /\ Unstaged' = Unstaged /\ (Scoped <=> Scoped')
BY DEF Observes, Snapshot, Full, HeadCommit, Clean, GateCommit, Unstaged, Scoped

\* Before anything is staged an undisturbed gate observes the binding it approved.
LEMMA CalmUnstaged ==
    ASSUME TypeOK, Calm, ~HasStaged PROVE Snapshot = Unstaged /\ HeadCommit = BaseCommit
<1>1. HeadCommit = BaseCommit /\ index = BaseTree /\ stamp = 1 /\ ignored = FALSE
  BY DEF TypeOK, Calm, HasStaged, HeadCommit
<1>2. BaseCommit.tree = BaseTree BY DEF BaseCommit
<1>3. Clean = (BaseTree = work) BY <1>1, <1>2 DEF Clean
<1>4. Full = [head |-> BaseCommit, index |-> BaseTree, work |-> work, ignored |-> FALSE,
              stamp |-> IF BaseTree = work THEN 0 ELSE 1]
  BY <1>1, <1>3 DEF Full
<1> QED BY <1>1, <1>2, <1>3, <1>4 DEF Snapshot, Unstaged

\* A failed comparison: nothing of the gate is used again.
LEMMA RaisedKept ==
    ASSUME pc' = "raised"
    PROVE  Committing' /\ Deliverable' /\ RoundAgrees' /\ RoundSettled' /\ Compared'
BY DEF Committing, Deliverable, RoundAgrees, RoundSettled, Compared, CaptureFor, Delivering,
       StagedPcs

\* A step that starts a capture has read nothing of it yet.
LEMMA FreshKept ==
    ASSUME pc' = "capture", NEW purpose \in Purposes, cap' = FreshCapture(purpose)
    PROVE  /\ cap'.for = purpose /\ cap'.next = 1 /\ cap'.round = 1 /\ cap'.got = Nothing
           /\ Held' /\ RoundAgrees' /\ RoundSettled' /\ Compared'
<1>1. cap'.for = purpose /\ cap'.next = 1 /\ cap'.round = 1 /\ cap'.got = Nothing
  BY DEF FreshCapture, Capturing
<1> QED BY <1>1 DEF Held, RoundAgrees, RoundSettled, Compared

StructureInv ==
    TypeOK /\ Held /\ Committing /\ Deliverable /\ RoundAgrees /\ RoundSettled /\ Compared

\* A comparison that leads to another.
LEMMA AssertGitKept ==
    ASSUME DecisionInv, NEW at \in Pcs,
           NEW then \in Pcs \ {"capture", "preview", "completed", "complete"}, NEW seen \in BOOLEAN, AssertGit(at, seen, then),
           pc' = then => Held' /\ Committing'
    PROVE  StructureInv' /\ Observes
<1>1. /\ Observes /\ UNCHANGED <<permit, art, approved, expected, object, terminal, cap>>
      /\ pc' \in {then, "raised"}
  BY DEF AssertGit, files, writer, local, Observes
<1>2. TypeOK' BY <1>1 DEF DecisionInv, TypeOK, Observes, Pcs
<1>3. CASE pc' = "raised"
  <2>1. Held' BY <1>1, <1>3 DEF DecisionInv, Held
  <2> QED BY <1>1, <1>2, <1>3, <2>1, RaisedKept DEF StructureInv
<1>4. CASE pc' = then
  <2>1. Deliverable' /\ RoundAgrees' /\ RoundSettled' /\ Compared'
    BY <1>4 DEF Deliverable, RoundAgrees, RoundSettled, Compared, Delivering, CaptureFor
  <2> QED BY <1>1, <1>2, <1>4, <2>1 DEF StructureInv
<1> QED BY <1>1, <1>3, <1>4

\* A comparison that leads to a capture.
LEMMA AssertCaptureKept ==
    ASSUME DecisionInv, NEW at \in Pcs, NEW purpose \in Purposes, NEW seen \in BOOLEAN,
           AssertThenCapture(at, seen, purpose),
           pc' = "capture" /\ cap'.for = purpose => Committing' /\ Deliverable'
    PROVE  StructureInv' /\ Observes
<1>1. /\ Observes /\ UNCHANGED <<permit, art, approved, expected, object, terminal>>
      /\ pc' \in {"capture", "raised"} /\ cap' = FreshCapture(purpose)
  BY DEF AssertThenCapture, files, writer, local, Observes
<1>2. cap'.for = purpose /\ cap'.next = 1 /\ cap'.round = 1 /\ cap'.got = Nothing
  BY <1>1 DEF FreshCapture, Capturing
<1>3. TypeOK' BY <1>1, <1>2 DEF DecisionInv, TypeOK, Observes, Pcs
<1>4. CASE pc' = "raised"
  <2>1. Held' BY <1>2, <1>4 DEF Held
  <2> QED BY <1>1, <1>3, <1>4, <2>1, RaisedKept DEF StructureInv
<1>5. CASE pc' = "capture"
  <2> QED BY <1>1, <1>2, <1>3, <1>5, FreshKept DEF StructureInv
<1> QED BY <1>1, <1>4, <1>5

\* Review takes the binding it will compare everything else with.
LEMMA ReviewStructure == ASSUME DecisionInv, Review PROVE StructureInv'
<1>1. StructureInv BY DEF DecisionInv, StructureInv
<1>2. CASE Artifact
  <2>1. /\ Observes /\ UNCHANGED <<permit, approved, expected, object, terminal>>
        /\ art' = Diff(HeadCommit.tree, work) /\ pc' = "capture" /\ cap' = FreshCapture("approved")
    BY <1>2 DEF Artifact, files, writer, Observes
  <2>2. /\ cap'.for = "approved" /\ cap'.next = 1 /\ cap'.round = 1 /\ cap'.got = Nothing
        /\ Held' /\ RoundAgrees' /\ RoundSettled' /\ Compared'
    BY <2>1, FreshKept DEF Purposes
  <2>3. art' \in Diffs
    <3>1. HeadCommit.tree \in Contents BY <1>1, SnapshotTyped DEF StructureInv, Commits
    <3> QED BY <1>1, <2>1, <3>1 DEF StructureInv, TypeOK, Diff, Diffs
  <2>4. TypeOK' BY <1>1, <2>1, <2>2, <2>3 DEF StructureInv, TypeOK, Observes, Pcs, Purposes
  <2>5. Committing' /\ Deliverable'
    BY <2>1, <2>2 DEF Committing, Deliverable, CaptureFor, Delivering, StagedPcs
  <2> QED BY <2>2, <2>4, <2>5 DEF StructureInv
<1>3. CASE Approve
  <2>1. /\ Observes /\ UNCHANGED <<permit, art, expected, object, terminal, cap>>
        /\ approved' = cap.got /\ pc' \in {"review", "raised"}
    BY <1>3 DEF Approve, files, writer, Observes
  <2>2. TypeOK' BY <1>1, <2>1 DEF StructureInv, TypeOK, Observes, Pcs
  <2>3. Held' BY <1>1, <2>1 DEF StructureInv, Held
  <2>4. Committing' /\ Deliverable' /\ RoundAgrees' /\ RoundSettled' /\ Compared'
    BY <2>1 DEF Committing, Deliverable, CaptureFor, Delivering, StagedPcs, RoundAgrees,
       RoundSettled, Compared
  <2> QED BY <2>2, <2>3, <2>4 DEF StructureInv
<1>4. CASE ReviewAccepted
  <2>1. pc' = "capture" /\ cap'.for = "review" => Committing' /\ Deliverable'
    BY DEF Committing, Deliverable, CaptureFor, Delivering, StagedPcs
  <2> DEFINE seen == HeadCommit = BaseCommit /\ source /\ ~ignored
  <2>2. AssertThenCapture("review", seen, "review") /\ seen \in BOOLEAN
    BY <1>4 DEF ReviewAccepted
  <2> HIDE DEF seen
  <2> QED BY <2>1, <2>2, AssertCaptureKept DEF Pcs, Purposes
<1>5. CASE Reviewed
  <2>1. /\ Observes /\ UNCHANGED <<permit, art, approved, expected, object, terminal, cap>>
        /\ pc' \in {"commit", "raised"}
    BY <1>5 DEF Reviewed, files, writer, local, Observes
  <2>2. TypeOK' BY <1>1, <2>1 DEF StructureInv, TypeOK, Observes, Pcs
  <2>3. Held' BY <1>1, <2>1 DEF StructureInv, Held
  <2>4. Committing' /\ Deliverable' /\ RoundAgrees' /\ RoundSettled' /\ Compared'
    BY <2>1 DEF Committing, Deliverable, CaptureFor, Delivering, StagedPcs, RoundAgrees,
       RoundSettled, Compared
  <2> QED BY <2>2, <2>3, <2>4 DEF StructureInv
<1> QED BY <1>2, <1>3, <1>4, <1>5 DEF Review

\* Staging goes on only with permission, and delivers the approved binding without it.
LEMMA StageStructure == ASSUME DecisionInv, GateInv, Stage PROVE StructureInv'
<1>0. StructureInv /\ SameDiff BY DEF DecisionInv, StructureInv, GateInv
<1> USE DEF Committing, StagedPcs, CaptureFor, Delivering
<1>1. CASE CommitBoundary
  <2> DEFINE seen == Scoped /\ ~ignored /\ source
  <2>1. AssertThenCapture("commit", seen, "stage") /\ seen \in BOOLEAN
    BY <1>1 DEF CommitBoundary
  <2>2. pc' = "capture" /\ cap'.for = "stage" => Committing' /\ Deliverable'
    BY DEF Deliverable
  <2> HIDE DEF seen
  <2> QED BY <2>1, <2>2, AssertCaptureKept DEF Pcs, Purposes
<1>2. CASE BeforeStage
  <2>1. /\ Observes /\ UNCHANGED <<permit, art, approved, expected, object, cap>>
        /\ pc = "capture" /\ cap.next = 13 /\ cap.for = "stage"
        /\ \/ pc' = "raised" /\ terminal' = terminal
           \/ pc' = "head" /\ permit /\ terminal' = terminal
           \/ pc' = "preview" /\ ~permit /\ terminal' = cap.got /\ cap.got = approved
    BY <1>2 DEF BeforeStage, Captured, files, writer, Observes
  <2>2. TypeOK' BY <1>0, <2>1 DEF StructureInv, TypeOK, Observes, Pcs
  <2>3. Held' BY <1>0, <2>1 DEF StructureInv, Held
  <2>4. art = approved.diff BY <1>0, <2>1 DEF SameDiff
  <2>5. Committing' /\ RoundAgrees' /\ RoundSettled' /\ Compared'
    BY <2>1 DEF RoundAgrees, RoundSettled, Compared
  <2>6. Deliverable' BY <2>1, <2>4 DEF Deliverable
  <2> QED BY <2>2, <2>3, <2>5, <2>6 DEF StructureInv
<1>3. CASE HeadAtBase
  <2> DEFINE seen == HeadCommit = BaseCommit
  <2>1. AssertGit("head", seen, "status") /\ seen \in BOOLEAN BY <1>3 DEF HeadAtBase
  <2>2. pc' = "status" => Held' /\ Committing'
    BY <1>0, <1>3 DEF HeadAtBase, AssertGit, StructureInv, Held, local
  <2> HIDE DEF seen
  <2> QED BY <2>1, <2>2, AssertGitKept DEF Pcs
<1>4. CASE StatusNotEmpty
  <2> DEFINE seen == ~Clean
  <2>1. AssertGit("status", seen, "add") /\ seen \in BOOLEAN BY <1>4 DEF StatusNotEmpty
  <2>2. pc' = "add" => Held' /\ Committing'
    BY <1>0, <1>4 DEF StatusNotEmpty, AssertGit, StructureInv, Held, local
  <2> HIDE DEF seen
  <2> QED BY <2>1, <2>2, AssertGitKept DEF Pcs
<1>5. CASE StageAll
  <2>1. /\ UNCHANGED <<work, stamp, ref, attached, ignored, bound, source, writes, touched, within>>
        /\ UNCHANGED <<permit, art, approved, expected, object, terminal>>
        /\ pc = "add" /\ index' \in {index, work}
        /\ \/ pc' = "raised" /\ cap' = cap
           \/ pc' = "capture" /\ cap' = FreshCapture("staged")
    BY <1>5 DEF StageAll, writer, local
  <2>2. CASE pc' = "raised" /\ cap' = cap
    <3>1. TypeOK' BY <1>0, <2>1, <2>2 DEF StructureInv, TypeOK, Pcs
    <3>2. Held' BY <1>0, <2>1, <2>2 DEF StructureInv, Held
    <3> QED BY <2>2, <3>1, <3>2, RaisedKept DEF StructureInv
  <2>3. CASE pc' = "capture" /\ cap' = FreshCapture("staged")
    <3>1. /\ cap'.for = "staged" /\ cap'.next = 1 /\ cap'.round = 1 /\ cap'.got = Nothing
          /\ Held' /\ RoundAgrees' /\ RoundSettled' /\ Compared'
      BY <2>3, FreshKept DEF Purposes
    <3>2. TypeOK' BY <1>0, <2>1, <2>3, <3>1 DEF StructureInv, TypeOK, Pcs, Purposes
    <3>3. Committing' /\ Deliverable' BY <1>0, <2>1, <2>3, <3>1 DEF StructureInv, Deliverable
    <3> QED BY <3>1, <3>2, <3>3 DEF StructureInv
  <2> QED BY <2>1, <2>2, <2>3
<1>6. CASE Staged
  <2>1. /\ Observes /\ UNCHANGED <<permit, art, approved, expected, object, terminal, cap>>
        /\ pc = "capture" /\ cap.for = "staged" /\ pc' \in {"staged_diff", "raised"}
    BY <1>6 DEF Staged, Captured, files, writer, local, Observes
  <2>2. TypeOK' BY <1>0, <2>1 DEF StructureInv, TypeOK, Observes, Pcs
  <2>3. Held' BY <1>0, <2>1 DEF StructureInv, Held
  <2>4. Committing' /\ Deliverable' /\ RoundAgrees' /\ RoundSettled' /\ Compared'
    BY <1>0, <2>1 DEF StructureInv, Deliverable, RoundAgrees, RoundSettled, Compared
  <2> QED BY <2>2, <2>3, <2>4 DEF StructureInv
<1>7. CASE CheckStagedDiff
  <2> DEFINE seen == StagedDiff # Empty /\ StagedDiff = approved.diff
  <2>1. AssertGit("staged_diff", seen, "tree") /\ seen \in BOOLEAN BY <1>7 DEF CheckStagedDiff
  <2>2. pc' = "tree" => Held' /\ Committing'
    BY <1>0, <1>7 DEF CheckStagedDiff, AssertGit, StructureInv, Held, local
  <2> HIDE DEF seen
  <2> QED BY <2>1, <2>2, AssertGitKept DEF Pcs
<1>8. CASE WriteTree
  <2>1. /\ Observes /\ UNCHANGED <<permit, art, approved, object, terminal, cap>>
        /\ pc = "tree" /\ pc' = "source" /\ expected' = index
    BY <1>8 DEF WriteTree, files, writer, Observes
  <2>2. TypeOK' BY <1>0, <2>1 DEF StructureInv, TypeOK, Observes, Pcs
  <2>3. Held' BY <1>0, <2>1 DEF StructureInv, Held, TypeOK
  <2>4. Committing' /\ Deliverable' /\ RoundAgrees' /\ RoundSettled' /\ Compared'
    BY <1>0, <2>1 DEF StructureInv, Deliverable, RoundAgrees, RoundSettled, Compared
  <2> QED BY <2>2, <2>3, <2>4 DEF StructureInv
<1>9. CASE CheckSource
  <2> DEFINE seen == source /\ Scoped
  <2>1. AssertGit("source", seen, "owned") /\ seen \in BOOLEAN BY <1>9 DEF CheckSource
  <2>2. pc' = "owned" => Held' /\ Committing'
    BY <1>0, <1>9 DEF CheckSource, AssertGit, StructureInv, Held, local
  <2> HIDE DEF seen
  <2> QED BY <2>1, <2>2, AssertGitKept DEF Pcs
<1> QED BY <1>1, <1>2, <1>3, <1>4, <1>5, <1>6, <1>7, <1>8, <1>9 DEF Stage

\* The object the gate built is inspected before the branch may point to it.
LEMMA GuardStructure == ASSUME DecisionInv, GateInv, Guard PROVE StructureInv'
<1>0. StructureInv /\ SameDiff BY DEF DecisionInv, StructureInv, GateInv
<1> USE DEF Committing, StagedPcs, CaptureFor, Delivering
<1>1. ASSUME NEW at \in Pcs, NEW seen \in BOOLEAN, NEW then,
             <<at, then>> \in {<<"owned", "index_tree">>, <<"index_tree", "index_diff">>,
                <<"index_diff", "object">>, <<"owned_again", "tree_again">>,
                <<"tree_again", "diff_again">>, <<"diff_again", "update">>,
                <<"updated", "clean">>},
             AssertGit(at, seen, then)
      PROVE  StructureInv'
  <2>1. then \in Pcs \ {"capture", "preview", "completed", "complete"} BY <1>1 DEF Pcs
  <2>2. pc' = then => Held' /\ Committing'
    BY <1>0, <1>1 DEF AssertGit, StructureInv, Held, local
  <2> QED BY <1>1, <2>1, <2>2, AssertGitKept
<1>2. CASE Owned \/ IndexTree \/ IndexDiff \/ OwnedAgain \/ TreeAgain \/ DiffAgain \/ Updated
  <2>1. \E at \in Pcs, seen \in BOOLEAN, then \in Pcs :
          /\ AssertGit(at, seen, then)
          /\ <<at, then>> \in {<<"owned", "index_tree">>, <<"index_tree", "index_diff">>,
                <<"index_diff", "object">>, <<"owned_again", "tree_again">>,
                <<"tree_again", "diff_again">>, <<"diff_again", "update">>,
                <<"updated", "clean">>}
    <3>1. CASE Owned
      <4> DEFINE seen == OwnedAtBase
      <4>1. AssertGit("owned", seen, "index_tree") /\ seen \in BOOLEAN BY <3>1 DEF Owned, OwnedAtBase
      <4> HIDE DEF seen
      <4> QED BY <4>1 DEF Pcs
    <3>2. CASE IndexTree
      <4> DEFINE seen == Scoped /\ index = expected
      <4>1. AssertGit("index_tree", seen, "index_diff") /\ seen \in BOOLEAN BY <3>2 DEF IndexTree
      <4> HIDE DEF seen
      <4> QED BY <4>1 DEF Pcs
    <3>3. CASE IndexDiff
      <4> DEFINE seen == StagedDiff = approved.diff
      <4>1. AssertGit("index_diff", seen, "object") /\ seen \in BOOLEAN BY <3>3 DEF IndexDiff
      <4> HIDE DEF seen
      <4> QED BY <4>1 DEF Pcs
    <3>4. CASE OwnedAgain
      <4> DEFINE seen == OwnedAtBase
      <4>1. AssertGit("owned_again", seen, "tree_again") /\ seen \in BOOLEAN BY <3>4 DEF OwnedAgain, OwnedAtBase
      <4> HIDE DEF seen
      <4> QED BY <4>1 DEF Pcs
    <3>5. CASE TreeAgain
      <4> DEFINE seen == Scoped /\ index = expected
      <4>1. AssertGit("tree_again", seen, "diff_again") /\ seen \in BOOLEAN BY <3>5 DEF TreeAgain
      <4> HIDE DEF seen
      <4> QED BY <4>1 DEF Pcs
    <3>6. CASE DiffAgain
      <4> DEFINE seen == StagedDiff = approved.diff
      <4>1. AssertGit("diff_again", seen, "update") /\ seen \in BOOLEAN BY <3>6 DEF DiffAgain
      <4> HIDE DEF seen
      <4> QED BY <4>1 DEF Pcs
    <3>7. CASE Updated
      <4> DEFINE seen == Scoped /\ ref = object
      <4>1. AssertGit("updated", seen, "clean") /\ seen \in BOOLEAN BY <3>7 DEF Updated
      <4> HIDE DEF seen
      <4> QED BY <4>1 DEF Pcs
    <3> QED BY <1>2, <3>1, <3>2, <3>3, <3>4, <3>5, <3>6, <3>7
  <2> QED BY <1>1, <2>1
<1>3. CASE CommitTree
  <2>1. /\ Observes /\ UNCHANGED <<permit, art, approved, expected, terminal, cap>>
        /\ pc = "object" /\ pc' = "inspect" /\ object' = [tree |-> expected, by |-> "gate"]
    BY <1>3 DEF CommitTree, files, writer, Observes
  <2>2. object' \in Commits /\ object'.by = "gate"
    BY <1>0, <2>1 DEF StructureInv, Held, Commits
  <2>3. TypeOK' BY <1>0, <2>1, <2>2 DEF StructureInv, TypeOK, Observes, Pcs
  <2>4. Held' BY <1>0, <2>1 DEF StructureInv, Held
  <2>5. Committing' /\ Deliverable' /\ RoundAgrees' /\ RoundSettled' /\ Compared'
    BY <1>0, <2>1, <2>2 DEF StructureInv, Deliverable, RoundAgrees, RoundSettled, Compared
  <2> QED BY <2>3, <2>4, <2>5 DEF StructureInv
<1>4. CASE InspectObject
  <2> DEFINE seen == /\ object.tree = expected
                     /\ Diff(BaseTree, object.tree) = approved.diff
                     /\ Manifest(BaseTree, object.tree) = approved.content
  <2>1. AssertGit("inspect", seen, "owned_again") /\ seen \in BOOLEAN BY <1>4 DEF InspectObject
  <2>2. pc' = "owned_again" => Held' /\ Committing'
    BY <1>0, <2>1 DEF AssertGit, StructureInv, Held, local, SameDiff, BeforeUpdate
  <2> HIDE DEF seen
  <2> QED BY <2>1, <2>2, AssertGitKept DEF Pcs
<1>5. CASE UpdateRef
  <2>1. /\ UNCHANGED <<work, stamp, index, attached, ignored, bound, source, writes, touched, within>>
        /\ UNCHANGED <<permit, art, approved, expected, object, terminal, cap>>
        /\ pc = "update" /\ ref' \in {ref, object} /\ pc' \in {"updated", "raised"}
    BY <1>5 DEF UpdateRef, writer, local
  <2>2. object \in Commits BY <1>0, <2>1 DEF StructureInv
  <2>3. TypeOK' BY <1>0, <2>1, <2>2 DEF StructureInv, TypeOK, Pcs
  <2>4. Held' BY <1>0, <2>1 DEF StructureInv, Held
  <2>5. Committing' /\ Deliverable' /\ RoundAgrees' /\ RoundSettled' /\ Compared'
    BY <1>0, <2>1 DEF StructureInv, Deliverable, RoundAgrees, RoundSettled, Compared
  <2> QED BY <2>3, <2>4, <2>5 DEF StructureInv
<1> QED BY <1>2, <1>3, <1>4, <1>5 DEF Guard

\* The last observation is compared with the terminal binding.
LEMMA DeliverStructure == ASSUME DecisionInv, Deliver PROVE StructureInv'
<1>0. StructureInv BY DEF DecisionInv, StructureInv
<1> USE DEF Committing, StagedPcs, CaptureFor, Delivering
<1>1. CASE CleanCommit
  <2> DEFINE seen == Clean
  <2>1. AssertThenCapture("clean", seen, "terminal") /\ seen \in BOOLEAN
    BY <1>1 DEF CleanCommit, Clean
  <2>2. pc' = "capture" /\ cap'.for = "terminal" => Committing' /\ Deliverable'
    BY <1>0, <2>1 DEF AssertThenCapture, StructureInv, Deliverable, local
  <2> HIDE DEF seen
  <2> QED BY <2>1, <2>2, AssertCaptureKept DEF Pcs, Purposes
<1>2. CASE Terminal
  <2>1. /\ Observes /\ UNCHANGED <<permit, art, approved, expected, object, cap>>
        /\ pc = "capture" /\ cap.for = "terminal" /\ cap.next = 13 /\ terminal' = cap.got
        /\ \/ pc' = "raised"
           \/ pc' = "preview" /\ cap.got.head = object /\ cap.got.clean
    BY <1>2 DEF Terminal, Captured, files, writer, Observes
  <2>2. TypeOK' BY <1>0, <2>1 DEF StructureInv, TypeOK, Observes, Pcs
  <2>3. Held' BY <1>0, <2>1 DEF StructureInv, Held
  <2>4. Committing' /\ Deliverable' /\ RoundAgrees' /\ RoundSettled' /\ Compared'
    BY <1>0, <2>1 DEF StructureInv, Deliverable, RoundAgrees, RoundSettled, Compared
  <2> QED BY <2>2, <2>3, <2>4 DEF StructureInv
<1>3. CASE Preview
  <2> DEFINE seen == source /\ Scoped /\ ~ignored
  <2>1. AssertThenCapture("preview", seen, "final") /\ seen \in BOOLEAN
    BY <1>3 DEF Preview
  <2>2. pc' = "capture" /\ cap'.for = "final" => Committing' /\ Deliverable'
    BY <1>0, <2>1 DEF AssertThenCapture, StructureInv, Deliverable, local
  <2> HIDE DEF seen
  <2> QED BY <2>1, <2>2, AssertCaptureKept DEF Pcs, Purposes
<1>4. CASE Final \/ Complete
  <2>1. /\ Observes /\ UNCHANGED <<permit, art, approved, expected, object, terminal, cap>>
        /\ \/ pc' = "raised"
           \/ /\ pc = "capture" /\ cap.for = "final" /\ cap.next = 13 /\ pc' = "complete"
              /\ cap.got = terminal
           \/ pc = "complete" /\ pc' = "completed"
    BY <1>4 DEF Final, Complete, AssertGit, Captured, files, writer, local, Observes
  <2>2. TypeOK' BY <1>0, <2>1 DEF StructureInv, TypeOK, Observes, Pcs
  <2>3. Held' BY <1>0, <2>1 DEF StructureInv, Held
  <2>4. Committing' /\ Deliverable' /\ RoundAgrees' /\ Compared'
    BY <1>0, <2>1 DEF StructureInv, Deliverable, RoundAgrees, Compared
  <2>5. RoundSettled'
    BY <1>0, <2>1, ObservesSame DEF StructureInv, RoundSettled, Observes
  <2> QED BY <2>2, <2>3, <2>4, <2>5 DEF StructureInv
<1> QED BY <1>1, <1>2, <1>3, <1>4 DEF Deliver

-----------------------------------------------------------------------------
(* An undisturbed gate *)

\* A comparison an undisturbed gate makes comes out true.
LEMMA AssertCalm ==
    ASSUME TypeOK, Calm, NEW at \in Pcs, NEW then \in Pcs, NEW seen \in BOOLEAN, seen,
           AssertGit(at, seen, then), at # "capture", then \notin {"capture", "artifact"},
           at # "artifact",
           HasStaged' <=> HasStaged, HasCommitted' <=> HasCommitted, Delivering' <=> Delivering,
           then = "add" => work # BaseTree,
           then \in StagedPcs \ {"staged_diff", "tree"} => at \in StagedPcs \ {"staged_diff", "tree"},
           then \in {"inspect", "owned_again", "tree_again", "diff_again", "update"} =>
               at \in {"inspect", "owned_again", "tree_again", "diff_again", "update"}
    PROVE  pc' = then /\ Calm'
<1>1. /\ Observes /\ UNCHANGED <<permit, art, approved, expected, object, terminal, cap>>
      /\ pc = at /\ pc' = then
  BY DEF AssertGit, files, writer, local, Observes
<1>2. ~CaptureFor({"approved"}) /\ ~CaptureFor({"approved"})' BY <1>1 DEF CaptureFor
<1> QED BY <1>1, <1>2, ObservesSame DEF Calm, Observes

\* The same for a comparison that leads to a capture.
LEMMA AssertCaptureCalm ==
    ASSUME TypeOK, Calm, NEW at \in Pcs, NEW purpose \in Purposes \ {"approved"},
           NEW seen \in BOOLEAN, seen,
           AssertThenCapture(at, seen, purpose), at \notin {"capture", "artifact"},
           HasStaged' <=> HasStaged, HasCommitted' <=> HasCommitted, Delivering' <=> Delivering
    PROVE  pc' = "capture" /\ Calm'
<1>1. /\ Observes /\ UNCHANGED <<permit, art, approved, expected, object, terminal>>
      /\ pc = at /\ pc' = "capture" /\ cap' = FreshCapture(purpose)
  BY DEF AssertThenCapture, files, writer, local, Observes
<1>2. cap'.for = purpose /\ cap'.next = 1 /\ cap'.round = 1
  BY <1>1 DEF FreshCapture, Capturing
<1>3. ~CaptureFor({"approved"}) /\ ~CaptureFor({"approved"})' BY <1>1, <1>2 DEF CaptureFor
<1> QED BY <1>1, <1>2, <1>3, ObservesSame DEF Calm, Observes, StagedPcs

\* What the reviewed worktree looks like through Git before and after the commit.
LEMMA CalmReads ==
    ASSUME TypeOK, Calm
    PROVE  /\ Scoped /\ ignored = FALSE /\ source
           /\ ~HasCommitted => HeadCommit = BaseCommit /\ ref = BaseCommit
           /\ HasCommitted => HeadCommit = GateCommit /\ Clean /\ HeadCommit.tree = work
           /\ HasStaged => index = work
           /\ HeadCommit = BaseCommit => HeadCommit.tree = BaseTree
<1>1. BaseCommit.tree = BaseTree /\ GateCommit.tree = work BY DEF BaseCommit, GateCommit
<1>2. Scoped /\ ignored = FALSE /\ source BY DEF TypeOK, Calm, Scoped
<1>3. HeadCommit = ref BY DEF Calm, HeadCommit
<1> QED BY <1>1, <1>2, <1>3 DEF Calm, Clean, HasStaged

\* The review of an undisturbed worktree never raises (engine.py: _execute_flow).
LEMMA ReviewCalm == ASSUME TypeOK, Calm, Review PROVE pc' # "raised" /\ Calm'
<1> USE DEF HasStaged, HasCommitted, StagedPcs, CaptureFor, Delivering
<1>1. CASE Artifact
  <2>1. /\ Observes /\ UNCHANGED <<permit, approved, expected, object, terminal>>
        /\ pc = "artifact" /\ pc' = "capture" /\ cap' = FreshCapture("approved")
        /\ art' = Diff(HeadCommit.tree, work)
    BY <1>1 DEF Artifact, files, writer, Observes
  <2>2. cap'.for = "approved" /\ cap'.next = 1 /\ cap'.round = 1
    BY <2>1 DEF FreshCapture, Capturing
  <2>3. ~HasStaged /\ ~HasCommitted /\ ~Delivering BY <2>1
  <2>4. ~HasStaged' /\ ~HasCommitted' /\ ~Delivering' BY <2>1, <2>2
  <2>5. art' = Diff(BaseTree, work) BY <2>1, <2>3, CalmReads
  <2> QED BY <2>1, <2>2, <2>3, <2>4, <2>5, ObservesSame DEF Calm, Observes
<1>2. CASE Approve
  <2>1. /\ Observes /\ UNCHANGED <<permit, art, expected, object, terminal, cap>>
        /\ pc = "capture" /\ cap.for = "approved" /\ cap.next = 13 /\ approved' = cap.got
        /\ pc' = IF Scoped /\ ~ignored /\ art = cap.got.diff THEN "review" ELSE "raised"
    BY <1>2 DEF Approve, Captured, files, writer, Observes
  <2>2. ~HasStaged /\ ~HasCommitted /\ ~Delivering BY <2>1
  <2>3. cap.got = Unstaged /\ art = Diff(BaseTree, work)
    BY <2>1, <2>2, CalmUnstaged DEF Calm
  <2>4. pc' = "review" BY <2>1, <2>3, CalmReads DEF Unstaged
  <2>5. ~HasStaged' /\ ~HasCommitted' /\ ~Delivering' BY <2>4
  <2> QED BY <2>1, <2>2, <2>3, <2>4, <2>5, ObservesSame DEF Calm, Observes
<1>3. CASE ReviewAccepted
  <2> DEFINE seen == HeadCommit = BaseCommit /\ source /\ ~ignored
  <2>1. AssertThenCapture("review", seen, "review") /\ seen \in BOOLEAN
    BY <1>3 DEF ReviewAccepted
  <2>2. pc = "review" /\ cap' = FreshCapture("review") BY <2>1 DEF AssertThenCapture
  <2>3. cap'.for = "review" BY <2>2 DEF FreshCapture, Capturing
  <2>4. ~HasStaged /\ ~HasCommitted /\ ~Delivering BY <2>2
  <2>5. ~HasStaged' /\ ~HasCommitted' /\ ~Delivering'
    BY <2>1, <2>3 DEF AssertThenCapture
  <2>6. seen BY <2>4, CalmReads
  <2> HIDE DEF seen
  <2> QED BY <2>1, <2>4, <2>5, <2>6, AssertCaptureCalm DEF Pcs, Purposes
<1>4. CASE Reviewed
  <2>1. /\ Observes /\ UNCHANGED <<permit, art, approved, expected, object, terminal, cap>>
        /\ pc = "capture" /\ cap.for = "review" /\ cap.next = 13
        /\ pc' = IF Scoped /\ ~ignored /\ cap.got = approved THEN "commit" ELSE "raised"
    BY <1>4 DEF Reviewed, Captured, files, writer, local, Observes
  <2>2. ~HasStaged /\ ~HasCommitted /\ ~Delivering BY <2>1
  <2>3. cap.got = Unstaged /\ approved = Unstaged BY <2>1, <2>2, CalmUnstaged DEF Calm
  <2>4. pc' = "commit" BY <2>1, <2>3, CalmReads
  <2>5. ~HasStaged' /\ ~HasCommitted' /\ ~Delivering' BY <2>4
  <2> QED BY <2>1, <2>2, <2>3, <2>4, <2>5, ObservesSame DEF Calm, Observes
<1> QED BY <1>1, <1>2, <1>3, <1>4 DEF Review

\* Only a commit without a change is refused, and its staging never looks like a
\* disturbance (engine.py: _commit).
LEMMA StageCalm ==
    ASSUME TypeOK, Calm, Committing, Stage
    PROVE  IF pc' = "raised" THEN permit' /\ art' = Empty ELSE Calm'
<1> USE DEF HasStaged, HasCommitted, StagedPcs, CaptureFor, Delivering
<1>1. CASE CommitBoundary
  <2> DEFINE seen == Scoped /\ ~ignored /\ source
  <2>1. AssertThenCapture("commit", seen, "stage") /\ seen \in BOOLEAN
    BY <1>1 DEF CommitBoundary
  <2>2. pc = "commit" /\ cap' = FreshCapture("stage") BY <2>1 DEF AssertThenCapture
  <2>3. cap'.for = "stage" BY <2>2 DEF FreshCapture, Capturing
  <2>4. ~HasStaged /\ ~HasCommitted /\ ~Delivering BY <2>2
  <2>5. ~HasStaged' /\ ~HasCommitted' /\ ~Delivering'
    BY <2>1, <2>3 DEF AssertThenCapture
  <2>6. seen BY CalmReads
  <2> HIDE DEF seen
  <2>7. pc' = "capture" /\ Calm'
    BY <2>1, <2>4, <2>5, <2>6, AssertCaptureCalm DEF Pcs, Purposes
  <2> QED BY <2>7
<1>2. CASE BeforeStage
  <2>1. /\ Observes /\ UNCHANGED <<permit, art, approved, expected, object, cap>>
        /\ pc = "capture" /\ cap.for = "stage" /\ cap.next = 13
    BY <1>2 DEF BeforeStage, Captured, files, writer, Observes
  <2>2. ~HasStaged /\ ~HasCommitted /\ ~Delivering BY <2>1
  <2>3. cap.got = Snapshot /\ cap.got = approved BY <2>1, <2>2, CalmUnstaged DEF Calm
  <2>4. \/ pc' = "head" /\ permit /\ terminal' = terminal
        \/ pc' = "preview" /\ ~permit /\ terminal' = Snapshot
    BY <1>2, <2>3, CalmReads DEF BeforeStage
  <2>5. ~HasStaged' /\ ~HasCommitted' BY <2>1, <2>4
  <2> QED BY <2>1, <2>2, <2>3, <2>4, <2>5, ObservesSame DEF Calm, Observes
<1>3. CASE HeadAtBase
  <2> DEFINE seen == HeadCommit = BaseCommit
  <2>1. AssertGit("head", seen, "status") /\ seen \in BOOLEAN BY <1>3 DEF HeadAtBase
  <2>2. ~HasStaged /\ ~HasCommitted /\ ~Delivering BY <2>1 DEF AssertGit
  <2>3. ~HasStaged' /\ ~HasCommitted' /\ ~Delivering' BY <2>1 DEF AssertGit
  <2>4. seen BY <2>2, CalmReads
  <2> HIDE DEF seen
  <2>5. pc' = "status" /\ Calm' BY <2>1, <2>2, <2>3, <2>4, AssertCalm DEF Pcs
  <2> QED BY <2>5
<1>4. CASE StatusNotEmpty
  <2>1. AssertGit("status", ~Clean, "add") BY <1>4 DEF StatusNotEmpty
  <2>2. ~HasStaged /\ ~HasCommitted /\ ~Delivering /\ pc = "status" BY <2>1 DEF AssertGit
  <2>3. ~HasStaged' /\ ~HasCommitted' /\ ~Delivering' BY <2>1 DEF AssertGit
  <2>4. HeadCommit.tree = BaseTree /\ index = BaseTree BY <2>2, CalmReads DEF Calm
  <2>5. CASE work = BaseTree
    <3>1. Clean BY <2>4, <2>5 DEF Clean
    <3>2. pc' = "raised" /\ UNCHANGED <<permit, art>> BY <2>1, <3>1 DEF AssertGit, local
    <3>3. permit BY <2>2 DEF Committing
    <3>4. art = Empty BY <2>2, <2>5 DEF Calm, Diff
    <3> QED BY <3>2, <3>3, <3>4
  <2>6. CASE work # BaseTree
    <3>1. ~Clean BY <2>4, <2>6 DEF Clean
    <3>2. AssertGit("status", TRUE, "add") BY <2>1, <3>1 DEF AssertGit
    <3>3. pc' = "add" /\ Calm' BY <2>2, <2>3, <2>6, <3>2, AssertCalm DEF Pcs
    <3> QED BY <3>3
  <2> QED BY <2>5, <2>6
<1>5. CASE StageAll
  <2>1. /\ UNCHANGED <<work, stamp, ref, attached, ignored, bound, source>>
        /\ UNCHANGED <<permit, art, approved, expected, object, terminal>>
        /\ pc = "add" /\ pc' = "capture" /\ cap' = FreshCapture("staged") /\ index' = work
    BY <1>5, CalmReads DEF StageAll, local
  <2>2. cap'.for = "staged" /\ cap'.next = 1 /\ cap'.round = 1
    BY <2>1 DEF FreshCapture, Capturing
  <2>3. ~HasStaged /\ ~HasCommitted /\ ~Delivering BY <2>1
  <2>4. HasStaged' /\ ~HasCommitted' /\ ~Delivering' BY <2>1, <2>2
  <2>5. Unstaged' = Unstaged BY <2>1 DEF Unstaged
  <2> QED BY <2>1, <2>2, <2>3, <2>4, <2>5 DEF Calm
<1>6. CASE Staged
  <2>1. /\ Observes /\ UNCHANGED <<permit, art, approved, expected, object, terminal, cap>>
        /\ pc = "capture" /\ cap.for = "staged" /\ cap.next = 13
        /\ pc' = IF Scoped /\ ~ignored /\ SameContent(approved, cap.got)
                 THEN "staged_diff" ELSE "raised"
    BY <1>6 DEF Staged, Captured, files, writer, local, Observes
  <2>2. HasStaged /\ ~HasCommitted /\ ~Delivering BY <2>1
  <2>3. cap.got = Snapshot /\ approved = Unstaged /\ work # BaseTree BY <2>1, <2>2 DEF Calm
  <2>4. HeadCommit = BaseCommit /\ HeadCommit.tree = BaseTree /\ ignored = FALSE
    BY <2>2, CalmReads
  <2>5. Clean = FALSE BY <2>2, <2>3, <2>4, CalmReads DEF Clean
  <2>6. SameContent(Unstaged, Snapshot)
    <3>1. Unstaged.content = Snapshot.content /\ Unstaged.head = Snapshot.head
          /\ Unstaged.clean = Snapshot.clean /\ Unstaged.diff = Snapshot.diff
          /\ Unstaged.ignored = Snapshot.ignored
      BY <2>3, <2>4, <2>5 DEF Unstaged, Snapshot
    <3> QED BY <3>1 DEF SameContent, Fields
  <2>7. pc' = "staged_diff" BY <2>1, <2>3, <2>6, CalmReads
  <2>8. HasStaged' /\ ~HasCommitted' /\ ~Delivering' BY <2>7
  <2> QED BY <2>1, <2>2, <2>3, <2>7, <2>8, ObservesSame DEF Calm, Observes
<1>7. CASE CheckStagedDiff
  <2> DEFINE seen == StagedDiff # Empty /\ StagedDiff = approved.diff
  <2>1. AssertGit("staged_diff", seen, "tree") /\ seen \in BOOLEAN BY <1>7 DEF CheckStagedDiff
  <2>2. HasStaged /\ ~HasCommitted /\ ~Delivering /\ pc = "staged_diff" BY <2>1 DEF AssertGit
  <2>3. pc' \in {"tree", "raised"} /\ ~HasCommitted' /\ ~Delivering' BY <2>1 DEF AssertGit
  <2>4. seen
    <3>1. StagedDiff = Diff(BaseTree, work) BY <2>2, CalmReads DEF StagedDiff
    <3>2. approved = Unstaged /\ work # BaseTree BY <2>2 DEF Calm
    <3>3. <<BaseTree, work>> # Empty BY GateConstants DEF TypeOK
    <3> QED BY <3>1, <3>2, <3>3 DEF Unstaged, Diff
  <2>5. pc' = "tree" /\ HasStaged' BY <2>1, <2>4 DEF AssertGit
  <2> HIDE DEF seen
  <2>6. pc' = "tree" /\ Calm' BY <2>1, <2>2, <2>3, <2>4, <2>5, AssertCalm DEF Pcs
  <2> QED BY <2>6
<1>8. CASE WriteTree
  <2>1. /\ Observes /\ UNCHANGED <<permit, art, approved, object, terminal, cap>>
        /\ pc = "tree" /\ pc' = "source" /\ expected' = index
    BY <1>8 DEF WriteTree, files, writer, Observes
  <2>2. HasStaged /\ ~HasCommitted /\ ~Delivering BY <2>1
  <2>3. HasStaged' /\ ~HasCommitted' /\ ~Delivering' BY <2>1
  <2>4. expected' = work BY <2>1, <2>2, CalmReads
  <2> QED BY <2>1, <2>2, <2>3, <2>4, ObservesSame DEF Calm, Observes
<1>9. CASE CheckSource
  <2> DEFINE seen == source /\ Scoped
  <2>1. AssertGit("source", seen, "owned") /\ seen \in BOOLEAN BY <1>9 DEF CheckSource
  <2>2. HasStaged /\ ~HasCommitted /\ ~Delivering BY <2>1 DEF AssertGit
  <2>3. seen BY CalmReads
  <2>4. HasStaged' /\ ~HasCommitted' /\ ~Delivering' BY <2>1, <2>3 DEF AssertGit
  <2> HIDE DEF seen
  <2>5. pc' = "owned" /\ Calm' BY <2>1, <2>2, <2>3, <2>4, AssertCalm DEF Pcs
  <2> QED BY <2>5
<1> QED BY <1>1, <1>2, <1>3, <1>4, <1>5, <1>6, <1>7, <1>8, <1>9 DEF Stage

\* The guarded commit of an undisturbed gate goes through (_create_guarded_commit).
LEMMA GuardCalm == ASSUME TypeOK, Calm, Guard PROVE pc' # "raised" /\ Calm'
<1> USE DEF HasStaged, HasCommitted, StagedPcs, CaptureFor, Delivering
<1>1. ASSUME HasStaged, ~HasCommitted, pc # "capture"
      PROVE  /\ OwnedAtBase /\ Scoped /\ index = work
             /\ StagedDiff = Diff(BaseTree, work) /\ approved = Unstaged
             /\ pc \notin {"staged_diff", "tree"} => expected = work
  BY <1>1, CalmReads DEF OwnedAtBase, StagedDiff, Calm
<1>2. Unstaged.diff = Diff(BaseTree, work) /\ Unstaged.content = Manifest(BaseTree, work)
  BY DEF Unstaged
<1>3. ASSUME NEW at \in StagedPcs, NEW then \in StagedPcs, AssertGit(at, TRUE, then),
             at \notin {"staged_diff", "tree"},
             then \in {"inspect", "owned_again", "tree_again", "diff_again", "update"} =>
                 at \in {"inspect", "owned_again", "tree_again", "diff_again", "update"}
      PROVE  pc' # "raised" /\ Calm'
  <2>1. pc = at /\ pc' = then BY <1>3 DEF AssertGit
  <2>2. HasStaged /\ HasStaged' /\ ~HasCommitted /\ ~HasCommitted' /\ ~Delivering /\ ~Delivering'
    BY <2>1
  <2>3. /\ at \in Pcs \ {"capture", "artifact"} /\ then \in Pcs \ {"capture", "artifact", "add", "raised"}
        /\ at \in StagedPcs \ {"staged_diff", "tree"}
    BY <1>3 DEF Pcs
  <2> HIDE DEF HasStaged, HasCommitted, Delivering, StagedPcs
  <2> QED BY <1>3, <2>1, <2>2, <2>3, AssertCalm
<1>4. CASE Owned
  <2>1. OwnedAtBase BY <1>1, <1>4 DEF Owned, AssertGit
  <2>2. AssertGit("owned", TRUE, "index_tree") BY <1>4, <2>1 DEF Owned, AssertGit
  <2> QED BY <1>3, <2>2
<1>5. CASE IndexTree
  <2>1. Scoped /\ index = expected BY <1>1, <1>5 DEF IndexTree, AssertGit
  <2>2. AssertGit("index_tree", TRUE, "index_diff") BY <1>5, <2>1 DEF IndexTree, AssertGit
  <2> QED BY <1>3, <2>2
<1>6. CASE IndexDiff
  <2>1. StagedDiff = approved.diff BY <1>1, <1>2, <1>6 DEF IndexDiff, AssertGit
  <2>2. AssertGit("index_diff", TRUE, "object") BY <1>6, <2>1 DEF IndexDiff, AssertGit
  <2> QED BY <1>3, <2>2
<1>7. CASE CommitTree
  <2>1. /\ Observes /\ UNCHANGED <<permit, art, approved, expected, terminal, cap>>
        /\ pc = "object" /\ pc' = "inspect" /\ object' = [tree |-> expected, by |-> "gate"]
    BY <1>7 DEF CommitTree, files, writer, Observes
  <2>2. object' = GateCommit BY <1>1, <2>1 DEF GateCommit
  <2>3. HasStaged /\ HasStaged' /\ ~HasCommitted /\ ~HasCommitted' /\ ~Delivering /\ ~Delivering'
    BY <2>1
  <2> QED BY <2>1, <2>2, <2>3, ObservesSame DEF Calm, Observes
<1>8. CASE InspectObject
  <2>1. pc = "inspect" BY <1>8 DEF InspectObject, AssertGit
  <2>2. object.tree = work BY <2>1 DEF Calm, GateCommit
  <2>3. /\ object.tree = expected
        /\ Diff(BaseTree, object.tree) = approved.diff
        /\ Manifest(BaseTree, object.tree) = approved.content
    BY <1>1, <1>2, <2>1, <2>2
  <2>4. AssertGit("inspect", TRUE, "owned_again") BY <1>8, <2>3 DEF InspectObject, AssertGit
  <2> QED BY <1>3, <2>4
<1>9. CASE OwnedAgain
  <2>1. OwnedAtBase BY <1>1, <1>9 DEF OwnedAgain, AssertGit
  <2>2. AssertGit("owned_again", TRUE, "tree_again") BY <1>9, <2>1 DEF OwnedAgain, AssertGit
  <2> QED BY <1>3, <2>2
<1>10. CASE TreeAgain
  <2>1. Scoped /\ index = expected BY <1>1, <1>10 DEF TreeAgain, AssertGit
  <2>2. AssertGit("tree_again", TRUE, "diff_again") BY <1>10, <2>1 DEF TreeAgain, AssertGit
  <2> QED BY <1>3, <2>2
<1>11. CASE DiffAgain
  <2>1. StagedDiff = approved.diff BY <1>1, <1>2, <1>11 DEF DiffAgain, AssertGit
  <2>2. AssertGit("diff_again", TRUE, "update") BY <1>11, <2>1 DEF DiffAgain, AssertGit
  <2> QED BY <1>3, <2>2
<1>12. CASE UpdateRef
  <2>1. pc = "update" /\ UNCHANGED <<work, stamp, index, attached, ignored, bound, source>>
        /\ UNCHANGED <<permit, art, approved, expected, object, terminal, cap>>
    BY <1>12 DEF UpdateRef, local
  <2>2. ref = BaseCommit /\ object = GateCommit BY <2>1, CalmReads DEF Calm
  <2>3. ref' = GateCommit /\ pc' = "updated" BY <1>12, <2>2 DEF UpdateRef
  <2>4. HasStaged /\ ~HasCommitted /\ HasStaged' /\ HasCommitted' /\ ~Delivering'
    BY <2>1, <2>3
  <2>5. Unstaged' = Unstaged /\ GateCommit' = GateCommit BY <2>1 DEF Unstaged, GateCommit
  <2> QED BY <2>1, <2>2, <2>3, <2>4, <2>5 DEF Calm
<1>13. CASE Updated
  <2>1. pc = "updated" BY <1>13 DEF Updated, AssertGit
  <2>2. HasStaged /\ HasCommitted /\ ~Delivering BY <2>1
  <2>3. Scoped /\ ref = object BY <2>2, CalmReads DEF Calm
  <2>4. AssertGit("updated", TRUE, "clean") BY <1>13, <2>3 DEF Updated, AssertGit
  <2>5. pc' = "clean" BY <2>4 DEF AssertGit
  <2>6. HasStaged' /\ HasCommitted' /\ ~Delivering' BY <2>5
  <2> QED BY <2>2, <2>4, <2>5, <2>6, AssertCalm DEF Pcs
<1> QED BY <1>4, <1>5, <1>6, <1>7, <1>8, <1>9, <1>10, <1>11, <1>12, <1>13 DEF Guard

\* Its terminal gate sees the clean commit it made, or the worktree it reviewed.
LEMMA DeliverCalm ==
    ASSUME TypeOK, Calm, Committing, Deliver PROVE pc' # "raised" /\ Calm'
<1> USE DEF HasStaged, HasCommitted, StagedPcs, CaptureFor, Delivering
<1>1. CASE CleanCommit
  <2>1. AssertThenCapture("clean", Clean, "terminal") /\ pc = "clean"
    BY <1>1 DEF CleanCommit, AssertThenCapture
  <2>2. HasStaged /\ HasCommitted /\ ~Delivering BY <2>1
  <2>3. AssertThenCapture("clean", TRUE, "terminal")
    BY <2>1, <2>2, CalmReads DEF AssertThenCapture
  <2>4. pc' = "capture" /\ cap'.for = "terminal"
    BY <2>3 DEF AssertThenCapture, FreshCapture, Capturing
  <2>5. HasStaged' /\ HasCommitted' /\ ~Delivering' BY <2>4
  <2> QED BY <2>2, <2>3, <2>5, AssertCaptureCalm DEF Pcs, Purposes
<1>2. CASE Terminal
  <2>1. /\ Observes /\ UNCHANGED <<permit, art, approved, expected, object, cap>>
        /\ pc = "capture" /\ cap.for = "terminal" /\ cap.next = 13 /\ terminal' = cap.got
        /\ pc' = IF /\ Scoped /\ ~ignored
                    /\ cap.got.head = object /\ cap.got.clean /\ cap.got.diff = Empty
                    /\ cap.got.ignored = approved.ignored
                 THEN "preview" ELSE "raised"
    BY <1>2 DEF Terminal, Captured, files, writer, Observes
  <2>2. HasStaged /\ HasCommitted /\ ~Delivering BY <2>1
  <2>3. cap.got = Snapshot /\ approved = Unstaged /\ object = GateCommit BY <2>1, <2>2 DEF Calm
  <2>4. HeadCommit = GateCommit /\ Clean /\ HeadCommit.tree = work /\ ignored = FALSE
    BY <2>2, CalmReads
  <2>5. /\ Snapshot.head = GateCommit /\ Snapshot.clean /\ Snapshot.diff = Empty
        /\ Snapshot.ignored = FALSE /\ Unstaged.ignored = FALSE
    BY <2>4 DEF Snapshot, Unstaged, Diff
  <2>6. pc' = "preview" BY <2>1, <2>3, <2>5, CalmReads
  <2>7. permit BY <2>1 DEF Committing
  <2>8. HasStaged' /\ HasCommitted' /\ Delivering' BY <2>1, <2>6, <2>7
  <2> QED BY <2>1, <2>2, <2>3, <2>6, <2>8, ObservesSame DEF Calm, Observes
<1>3. CASE Preview
  <2>1. source /\ Scoped /\ ~ignored BY CalmReads
  <2>2. AssertThenCapture("preview", TRUE, "final")
    BY <1>3, <2>1 DEF Preview, AssertThenCapture
  <2>3. pc = "preview" /\ pc' = "capture" /\ cap'.for = "final" /\ permit' = permit
    BY <2>2 DEF AssertThenCapture, FreshCapture, Capturing, local
  <2>4. (HasStaged' <=> HasStaged) /\ (HasCommitted' <=> HasCommitted) /\ Delivering' /\ Delivering
    BY <2>3
  <2> QED BY <2>2, <2>4, AssertCaptureCalm DEF Pcs, Purposes
<1>4. CASE Final
  <2>1. /\ Observes /\ UNCHANGED <<permit, art, approved, expected, object, terminal, cap>>
        /\ pc = "capture" /\ cap.for = "final" /\ cap.next = 13
        /\ pc' = IF Scoped /\ ~ignored /\ cap.got = terminal THEN "complete" ELSE "raised"
    BY <1>4 DEF Final, Captured, files, writer, local, Observes
  <2>2. cap.got = Snapshot /\ terminal = Snapshot BY <2>1 DEF Calm
  <2>3. pc' = "complete" BY <2>1, <2>2, CalmReads
  <2>4. (HasStaged' <=> HasStaged) /\ (HasCommitted' <=> HasCommitted) /\ Delivering' /\ Delivering
    BY <2>1, <2>3
  <2> QED BY <2>1, <2>3, <2>4, ObservesSame DEF Calm, Observes
<1>5. CASE Complete
  <2>1. AssertGit("complete", TRUE, "completed") BY <1>5 DEF Complete
  <2>2. pc = "complete" /\ pc' = "completed" /\ permit' = permit BY <2>1 DEF AssertGit, local
  <2>3. (HasStaged' <=> HasStaged) /\ (HasCommitted' <=> HasCommitted) /\ Delivering' /\ Delivering
    BY <2>2
  <2> QED BY <2>1, <2>2, <2>3, AssertCalm DEF Pcs
<1> QED BY <1>1, <1>2, <1>3, <1>4, <1>5 DEF Deliver

\* The gate completes a task only with what was reviewed and rejects it only when
\* something disturbed it, for every content, every writer and any number of writes
\* (engine.py: _capture_worktree_binding, _commit, _assert_terminal_commit_gate).
THEOREM GateDecides == Spec => []GateDecidesRight
<1>1. Init => DecisionInv /\ GateInv
  <2> SUFFICES ASSUME Init PROVE DecisionInv /\ GateInv
    OBVIOUS
  <2> USE DEF Init
  <2>1. GateInv
    BY DEF GateInv, NotYet, SameDiff, Inspected, CommitIsReviewed, BaseCommit, BeforeUpdate,
       FreshCapture, Capturing
  <2>2. cap.for = "approved" /\ cap.next = 1 /\ cap.round = 1 /\ cap.got = Nothing
    BY DEF FreshCapture, Capturing
  <2>3. TypeOK
    <3>1. BaseCommit \in Commits BY GateConstants DEF Commits, BaseCommit
    <3>2. /\ attached \in BOOLEAN /\ ignored \in BOOLEAN /\ bound \in BOOLEAN
          /\ source \in BOOLEAN /\ touched \in BOOLEAN /\ permit \in BOOLEAN
      OBVIOUS
    <3>3. cap.for \in Purposes /\ cap.next \in 1..13 /\ cap.round \in 1..3
      BY <2>2 DEF Purposes
    <3>4. /\ work \in Contents /\ index \in Contents /\ ref \in Commits
          /\ stamp \in Nat /\ writes \in Nat /\ within \in 0..2 /\ pc \in Pcs
      BY <3>1, GateConstants DEF Pcs
    <3> QED BY <2>2, <3>2, <3>3, <3>4 DEF TypeOK
  <2>4. Held /\ Committing /\ Deliverable /\ RoundAgrees /\ RoundSettled /\ Compared
    BY <2>2 DEF Held, Committing, Deliverable, RoundAgrees, RoundSettled, Compared, CaptureFor,
       Delivering, StagedPcs
  <2>5. Undisturbed
    BY <2>2 DEF Undisturbed, Calm, HasStaged, HasCommitted, CaptureFor, Delivering, StagedPcs
  <2> QED BY <2>1, <2>3, <2>4, <2>5 DEF DecisionInv
<1>2. DecisionInv /\ GateInv /\ [Next]_vars => DecisionInv'
  <2> SUFFICES ASSUME DecisionInv, GateInv, [Next]_vars PROVE DecisionInv'
    OBVIOUS
  <2>1. CASE Capture BY <2>1, BeginDecides, ReadDecides DEF Capture
  <2>2. CASE Review \/ Stage \/ Guard \/ Deliver
    <3>1. StructureInv'
      BY <2>2, ReviewStructure, StageStructure, GuardStructure, DeliverStructure
    <3>2. Undisturbed'
      <4>1. writes' = writes /\ pc # "raised"
        BY <2>2 DEF Review, Artifact, Approve, ReviewAccepted, Reviewed, Stage, CommitBoundary,
           BeforeStage, HeadAtBase, StatusNotEmpty, StageAll, Staged, CheckStagedDiff, WriteTree,
           CheckSource, Guard, Owned, IndexTree, IndexDiff, CommitTree, InspectObject, OwnedAgain,
           TreeAgain, DiffAgain, UpdateRef, Updated, Deliver, CleanCommit, Terminal, Preview,
           Final, Complete, AssertGit, AssertThenCapture, Captured, writer
      <4> SUFFICES ASSUME writes = 0
                   PROVE  IF pc' = "raised" THEN permit' /\ art' = Empty ELSE Calm'
        BY <4>1 DEF Undisturbed
      <4>2. TypeOK /\ Calm /\ Committing BY <4>1 DEF DecisionInv, Undisturbed
      <4> QED BY <2>2, <4>2, ReviewCalm, StageCalm, GuardCalm, DeliverCalm
    <3> QED BY <3>1, <3>2 DEF StructureInv, DecisionInv
  <2>3. CASE Writer BY <2>3, WriterDecides
  <2>4. CASE UNCHANGED vars
    <3>1. Observes /\ UNCHANGED <<permit, art, approved, expected, object, terminal, pc, cap>>
      BY <2>4 DEF vars, files, writer, local, Observes
    <3>2. TypeOK' /\ Held' /\ Committing' /\ Deliverable' /\ Compared'
      BY <3>1 DEF DecisionInv, TypeOK, Observes, Held, Committing, Deliverable, Compared, CaptureFor,
         Delivering
    <3>3. RoundAgrees' /\ RoundSettled'
      BY <3>1, ObservesSame DEF DecisionInv, Observes, RoundAgrees, RoundSettled
    <3>4. Undisturbed'
      BY <3>1, ObservesSame DEF DecisionInv, Observes, Undisturbed, Calm, HasStaged, HasCommitted,
         Delivering, CaptureFor
    <3> QED BY <3>2, <3>3, <3>4 DEF DecisionInv
  <2> QED BY <2>1, <2>2, <2>3, <2>4 DEF Next, GateStep
<1>3. GateInv /\ [Next]_vars => GateInv'
  BY GatePreserved
<1>4. DecisionInv => GateDecidesRight
  <2> SUFFICES ASSUME DecisionInv PROVE GateDecidesRight
    OBVIOUS
  <2>1. TypeOK BY DEF DecisionInv
  <2>2. DeliveredAsReviewed
    <3> SUFFICES ASSUME pc = "completed", ~touched, within < 2
                 PROVE  IF permit
                           THEN attached /\ ref = object /\ Clean /\ Diff(BaseTree, work) = art
                           ELSE Diff(HeadCommit.tree, work) = art
      BY DEF DeliveredAsReviewed
    <3>1. /\ terminal.head = HeadCommit /\ terminal.clean = Clean
          /\ terminal.diff = Diff(HeadCommit.tree, work)
      BY DEF DecisionInv, RoundSettled, Compared
    <3>2. CASE ~permit BY <3>1, <3>2 DEF DecisionInv, Deliverable, Delivering
    <3>3. CASE permit
      <4>1. /\ HeadCommit = object /\ Clean /\ object.by = "gate"
            /\ Diff(BaseTree, object.tree) = art
        BY <3>1, <3>3 DEF DecisionInv, Deliverable, Delivering
      <4>2. attached /\ ref = object BY <2>1, <4>1 DEF TypeOK, HeadCommit, BaseCommit
      <4> QED BY <3>3, <4>1, <4>2 DEF Clean
    <3> QED BY <3>2, <3>3
  <2>3. OnlyDisturbanceRaises BY <2>1 DEF DecisionInv, Undisturbed, OnlyDisturbanceRaises, TypeOK
  <2> QED BY <2>1, <2>2, <2>3 DEF GateDecidesRight
<1> QED BY <1>1, <1>2, <1>3, <1>4, PTL DEF Spec
=============================================================================
