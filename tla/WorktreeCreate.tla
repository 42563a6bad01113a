---------------------------- MODULE WorktreeCreate ----------------------------
(***************************************************************************)
(* Creation of a task's worktree behind a durable intent, and the recovery *)
(* of an interrupted creation (services/coding/worktrees.py: create,       *)
(* _reconcile_create_intent, recover_creation_intents).                    *)
(*                                                                         *)
(* Four things change one by one and survive a crash: the intent file, the *)
(* branch, the Git worktree and the registry record.  Creators are calls   *)
(* of create() for the same task, each with its own owner token and        *)
(* process; recoverers are recover commands; the user of the repository    *)
(* may take the branch name or the path, commit, or leave changes.         *)
(*                                                                         *)
(* A token is the creator that drew it.  The reflog message of a branch    *)
(* and the Git metadata of a worktree are its "own" field.  Rewriting the  *)
(* intent compares and replaces it in one step.                            *)
(***************************************************************************)
EXTENDS Naturals

CONSTANTS
    Creators,      \* calls of create(), each in its own process
    Recoverers,    \* recover commands that may be running at once
    MaxFaults,     \* bound: Git or file operations that fail
    MaxRecovers,   \* bound: reconciliations started by recover commands
    MaxUser,       \* bound: actions of the user
    MaxCrashes,    \* bound: processes that die
    None, User

Actors == Creators \cup Recoverers

ASSUME CreateConstants ==
    /\ None \notin Actors /\ User \notin Actors /\ None # User
    /\ Creators \cap Recoverers = {}
    /\ {MaxFaults, MaxRecovers, MaxUser, MaxCrashes} \subseteq Nat

VARIABLES
    intent,    \* [tok, phase], or None
    ref,       \* task branch [own, at], or None
    tree,      \* what is at the worktree path: [own, clean], or None
    record,    \* registry record [tok, status], or None
    loc,       \* local state of each actor
    alive,     \* actors whose process runs
    spent      \* [faults, recovers, user, crashes]: bounded so far

durable == <<intent, ref, tree, record>>
vars == <<durable, loc, alive, spent>>

Phases == {"prepared", "branch_reserved", "added"}
Intents == [tok : Creators, phase : Phases]
Refs == [own : Creators \cup {User}, at : {"base", "moved"}]
Trees == [own : Creators \cup {User}, clean : BOOLEAN]
Records == [tok : Creators, status : {"active", "orphaned"}]

\* None stands for a file, a branch, a worktree or a row that is not there.
ASSUME NoneIsNothing == None \notin Intents \cup Refs \cup Trees \cup Records

CreatorPcs == {"idle", "checked", "journaled", "reserving", "reserved", "adding",
               "validating", "adding_record", "recorded", "done", "failed"}
ReconcilePcs == {"observe", "act", "remove_tree", "check_ref", "delete_ref", "forget"}

TypeOK ==
    /\ intent \in Intents \cup {None} /\ ref \in Refs \cup {None}
    /\ tree \in Trees \cup {None} /\ record \in Records \cup {None}
    /\ loc \in [Actors -> [pc : CreatorPcs \cup ReconcilePcs,
                           int : Intents \cup {None}, rec : Records \cup {None},
                           tree : Trees \cup {None}, ref : Refs \cup {None}]]
    /\ alive \in [Actors -> BOOLEAN]
    /\ spent \in [faults : Nat, recovers : Nat, user : Nat, crashes : Nat]

Idle == [pc |-> "idle", int |-> None, rec |-> None, tree |-> None, ref |-> None]

Init ==
    /\ intent = None /\ ref = None /\ tree = None /\ record = None
    /\ loc = [a \in Actors |-> Idle]
    /\ alive = [a \in Actors |-> TRUE]
    /\ spent = [faults |-> 0, recovers |-> 0, user |-> 0, crashes |-> 0]

At(a, pc) == loc[a].pc = pc /\ alive[a]

\* An operation fails because the state makes it fail, or out of the blue.
FailsIf(refused) ==
    \/ refused /\ UNCHANGED spent
    \/ spent.faults < MaxFaults /\ spent' = [spent EXCEPT !.faults = @ + 1]

Goto(a, pc) == loc' = [loc EXCEPT ![a].pc = pc]

\* A call that is over keeps nothing.
End(a, pc) == loc' = [loc EXCEPT ![a] = [Idle EXCEPT !.pc = pc]]

\* _branch_reservation_owned: at the base commit, and the reflog names the token.
Owned(r, tok) == r # None /\ r.own = tok /\ r.at = "base"

\* _write_create_intent with previous: only over the caller's own copy.
Advance(a, phase, pc) ==
    /\ intent = loc[a].int
    /\ intent' = [intent EXCEPT !.phase = phase]
    /\ loc' = [loc EXCEPT ![a].pc = pc, ![a].int = intent']
    /\ UNCHANGED <<ref, tree, record, alive, spent>>

-----------------------------------------------------------------------------
(* create() *)

CreateCheck(c) ==
    /\ At(c, "idle")
    /\ record = None /\ intent = None /\ tree = None /\ ref = None
    /\ Goto(c, "checked")
    /\ UNCHANGED <<durable, alive, spent>>

WriteIntent(c) ==
    /\ At(c, "checked")
    /\ intent = None
    /\ intent' = [tok |-> c, phase |-> "prepared"]
    /\ loc' = [loc EXCEPT ![c].pc = "journaled", ![c].int = intent']
    /\ UNCHANGED <<ref, tree, record, alive, spent>>

\* A peer's intent: nothing was touched, nothing is compensated.
IntentTaken(c) ==
    /\ At(c, "checked")
    /\ intent # None
    /\ End(c, "failed")
    /\ UNCHANGED <<durable, alive, spent>>

\* Both collision conditions again, now that the intent is durable.
Recheck(c) ==
    /\ At(c, "journaled")
    /\ tree = None /\ ref = None
    /\ Goto(c, "reserving")
    /\ UNCHANGED <<durable, alive, spent>>

\* A collision or an error before the first mutation withdraws the intent.
Withdraw(c) ==
    /\ At(c, "journaled")
    /\ FailsIf(tree # None \/ ref # None)
    /\ intent' = IF intent = loc[c].int THEN None ELSE intent
    /\ End(c, "failed")
    /\ UNCHANGED <<ref, tree, record, alive>>

\* Wrong variant: an existing branch is moved to the base commit instead.
ReserveBranch_Force(c) ==
    /\ At(c, "reserving")
    /\ ref' = [own |-> c, at |-> "base"]
    /\ Goto(c, "reserved")
    /\ UNCHANGED <<intent, tree, record, alive, spent>>

\* update-ref from the zero object: creates the branch or fails.
ReserveBranch(c) ==
    /\ At(c, "reserving")
    /\ ref = None
    /\ ref' = [own |-> c, at |-> "base"]
    /\ Goto(c, "reserved")
    /\ UNCHANGED <<intent, tree, record, alive, spent>>

\* _BranchReservationCollision: the branch is somebody else's.
ReserveCollides(c) ==
    /\ At(c, "reserving")
    /\ ref # None
    /\ intent' = None
    /\ End(c, "failed")
    /\ UNCHANGED <<ref, tree, record, alive, spent>>

JournalReserved(c) == At(c, "reserved") /\ Advance(c, "branch_reserved", "adding")

AddTree(c) ==
    /\ At(c, "adding")
    /\ tree = None /\ ref # None
    /\ tree' = [own |-> c, clean |-> TRUE]
    /\ Goto(c, "validating")
    /\ UNCHANGED <<intent, ref, record, alive, spent>>

Pristine(c) == tree = [own |-> c, clean |-> TRUE] /\ ref # None /\ ref.at = "base"

JournalAdded(c) ==
    /\ At(c, "validating") /\ Pristine(c)
    /\ Advance(c, "added", "adding_record")

WriteRecord(c) ==
    /\ At(c, "adding_record")
    /\ record = None
    /\ record' = [tok |-> c, status |-> "active"]
    /\ Goto(c, "recorded")
    /\ UNCHANGED <<intent, ref, tree, alive, spent>>

CreateDone(c) ==
    /\ At(c, "recorded")
    /\ intent = loc[c].int /\ intent' = None
    /\ End(c, "done")
    /\ UNCHANGED <<ref, tree, record, alive, spent>>

\* A failure after the first mutation: the call reconciles its own intent.
CreateFails(c) ==
    /\ loc[c].pc \in {"reserving", "reserved", "adding", "validating", "adding_record", "recorded"}
    /\ alive[c]
    /\ FailsIf(\/ loc[c].pc = "adding" /\ (tree # None \/ ref = None)
               \/ loc[c].pc = "validating" /\ ~Pristine(c)
               \/ loc[c].pc = "adding_record" /\ record # None
               \/ loc[c].pc = "recorded" /\ intent # loc[c].int)
    /\ loc' = [loc EXCEPT ![c] = [Idle EXCEPT !.pc = IF intent = None THEN "failed" ELSE "observe",
                                              !.int = intent]]
    /\ UNCHANGED <<durable, alive>>

-----------------------------------------------------------------------------
(* _reconcile_create_intent, by a failing create() or by recover *)

\* Wrong variant: only intents that got past "prepared" are taken up.
RecoverIntent_SkipsPrepared(r) ==
    /\ r \in Recoverers /\ At(r, "idle")
    /\ spent.recovers < MaxRecovers
    /\ intent # None /\ ~alive[intent.tok] /\ intent.phase # "prepared"
    /\ loc' = [loc EXCEPT ![r] = [Idle EXCEPT !.pc = "observe", !.int = intent]]
    /\ spent' = [spent EXCEPT !.recovers = @ + 1]
    /\ UNCHANGED <<durable, alive>>

\* recover takes up an intent whose process is gone.
RecoverIntent(r) ==
    /\ r \in Recoverers /\ At(r, "idle")
    /\ spent.recovers < MaxRecovers
    /\ intent # None /\ ~alive[intent.tok]
    /\ loc' = [loc EXCEPT ![r] = [Idle EXCEPT !.pc = "observe", !.int = intent]]
    /\ spent' = [spent EXCEPT !.recovers = @ + 1]
    /\ UNCHANGED <<durable, alive>>

\* "unresolved", or an error: the intent stays as evidence.
Unresolved(a) == End(a, IF a \in Creators THEN "failed" ELSE "idle")

\* A path that is not a worktree of this repository on this branch is an error.
Observe(a) ==
    /\ At(a, "observe")
    /\ IF tree # None /\ tree.own = User
          THEN Unresolved(a)
          ELSE loc' = [loc EXCEPT ![a] = [@ EXCEPT !.pc = "act", !.rec = record,
                                                   !.tree = tree, !.ref = ref]]
    /\ UNCHANGED <<durable, alive, spent>>

SawOwned(a) == Owned(loc[a].ref, loc[a].int.tok)

\* No worktree: delete the reserved branch if it is provably ours.
ActNoTree(a) ==
    LET l == loc[a] IN
    /\ At(a, "act") /\ l.tree = None
    /\ \/ /\ l.rec # None \/ (l.ref # None /\ ~SawOwned(a))
          /\ Unresolved(a) /\ UNCHANGED <<durable, alive, spent>>
       \/ /\ l.rec = None /\ l.ref = None
          /\ Goto(a, "forget") /\ UNCHANGED <<durable, alive, spent>>
       \/ /\ l.rec = None /\ SawOwned(a)
          /\ IF l.int.phase = "prepared"
                THEN Advance(a, "branch_reserved", "check_ref")
                ELSE Goto(a, "check_ref") /\ UNCHANGED <<durable, alive, spent>>

\* The phases the worktree proves are journaled first, one write each.
ActJournal(a) ==
    LET l == loc[a] IN
    /\ At(a, "act") /\ l.tree # None
    /\ \/ l.int.phase = "prepared" /\ SawOwned(a) /\ Advance(a, "branch_reserved", "act")
       \/ l.int.phase = "branch_reserved" /\ Advance(a, "added", "act")

ActRefuses(a) ==
    LET l == loc[a] IN
    /\ At(a, "act") /\ l.tree # None
    /\ \/ l.int.phase = "added" /\ l.tree.own # l.int.tok
       \/ l.int.phase = "prepared" /\ ~SawOwned(a)
       \/ l.int.phase = "added" /\ l.rec # None /\ l.rec.tok # l.int.tok
    /\ Unresolved(a)
    /\ UNCHANGED <<durable, alive, spent>>

\* The worktree is this intent's, and its journal says so.
Proven(a) ==
    /\ At(a, "act") /\ loc[a].tree # None
    /\ loc[a].int.phase = "added" /\ loc[a].tree.own = loc[a].int.tok

\* The record made it: only the intent is left to remove.
ActFinalize(a) ==
    /\ Proven(a) /\ loc[a].rec # None /\ loc[a].rec.tok = loc[a].int.tok
    /\ Goto(a, "forget")
    /\ UNCHANGED <<durable, alive, spent>>

Disposable(l) == Owned(l.ref, l.int.tok) /\ l.tree.clean

\* Wrong variant: a record written just before the crash is not looked at.
ActRemove_IgnoresRecord(a) ==
    /\ Proven(a) /\ Disposable(loc[a])
    /\ Goto(a, "remove_tree")
    /\ UNCHANGED <<durable, alive, spent>>

ActRemove(a) ==
    /\ Proven(a) /\ loc[a].rec = None /\ Disposable(loc[a])
    /\ Goto(a, "remove_tree")
    /\ UNCHANGED <<durable, alive, spent>>

\* Anything worth keeping is preserved as an orphaned record.
ActOrphan(a) ==
    /\ Proven(a) /\ loc[a].rec = None /\ ~Disposable(loc[a])
    /\ IF record = None
          THEN record' = [tok |-> loc[a].int.tok, status |-> "orphaned"] /\ Goto(a, "forget")
          ELSE UNCHANGED record /\ Unresolved(a)
    /\ UNCHANGED <<intent, ref, tree, alive, spent>>

\* git worktree remove: refuses a worktree with changes, and a plain directory.
RemoveTree(a) ==
    /\ At(a, "remove_tree")
    /\ IF tree # None /\ tree.clean /\ tree.own # User
          THEN tree' = None /\ Goto(a, "check_ref")
          ELSE UNCHANGED tree /\ Unresolved(a)
    /\ UNCHANGED <<intent, ref, record, alive, spent>>

\* Wrong variant: the intent is forgotten before its branch is gone.
CheckRef_Forgets(a) ==
    /\ At(a, "check_ref")
    /\ Goto(a, "forget")
    /\ UNCHANGED <<durable, alive, spent>>

\* _cas_delete_intent_branch: proof of ownership, then a delete that only
\* compares the commit.
CheckRef(a) ==
    /\ At(a, "check_ref")
    /\ IF ref = None THEN Goto(a, "forget")
       ELSE IF Owned(ref, loc[a].int.tok) THEN Goto(a, "delete_ref") ELSE Unresolved(a)
    /\ UNCHANGED <<durable, alive, spent>>

DeleteRef(a) ==
    /\ At(a, "delete_ref")
    /\ IF ref # None /\ ref.at = "base"
          THEN ref' = None /\ Goto(a, "forget")
          ELSE UNCHANGED ref /\ Unresolved(a)
    /\ UNCHANGED <<intent, tree, record, alive, spent>>

Forget(a) ==
    /\ At(a, "forget")
    /\ intent' = IF intent = loc[a].int THEN None ELSE intent
    /\ End(a, IF a \in Recoverers THEN "idle"
              ELSE IF loc[a].rec # None THEN "done" ELSE "failed")
    /\ UNCHANGED <<ref, tree, record, alive, spent>>

ReconcileFails(a) ==
    /\ FailsIf(FALSE)
    /\ loc[a].pc \in ReconcilePcs /\ alive[a]
    /\ Unresolved(a)
    /\ UNCHANGED <<durable, alive>>

-----------------------------------------------------------------------------
(* The user, and crashes *)

UserSpends == spent.user < MaxUser /\ spent' = [spent EXCEPT !.user = @ + 1]

UserTakesBranch ==
    /\ UserSpends /\ ref = None
    /\ ref' = [own |-> User, at |-> "base"]
    /\ UNCHANGED <<intent, tree, record, loc, alive>>

UserTakesPath ==
    /\ UserSpends /\ tree = None
    /\ tree' = [own |-> User, clean |-> FALSE]
    /\ UNCHANGED <<intent, ref, record, loc, alive>>

UserCommits ==
    /\ UserSpends /\ ref # None
    /\ ref' = [ref EXCEPT !.at = "moved"]
    /\ UNCHANGED <<intent, tree, record, loc, alive>>

UserEdits ==
    /\ UserSpends /\ tree # None
    /\ tree' = [tree EXCEPT !.clean = FALSE]
    /\ UNCHANGED <<intent, ref, record, loc, alive>>

Crash(a) ==
    /\ alive[a] /\ loc[a].pc \notin {"idle", "done", "failed"}
    /\ spent.crashes < MaxCrashes
    /\ alive' = [alive EXCEPT ![a] = a \in Recoverers]
    /\ End(a, IF a \in Creators THEN "failed" ELSE "idle")
    /\ spent' = [spent EXCEPT !.crashes = @ + 1]
    /\ UNCHANGED durable

\* The process of a call that is over exits.
Exit(c) ==
    /\ alive[c] /\ loc[c].pc \in {"done", "failed"}
    /\ alive' = [alive EXCEPT ![c] = FALSE]
    /\ UNCHANGED <<durable, loc, spent>>

-----------------------------------------------------------------------------

CreateStep(c) ==
    \/ CreateCheck(c) \/ WriteIntent(c) \/ IntentTaken(c) \/ Recheck(c) \/ Withdraw(c)
    \/ ReserveBranch(c) \/ ReserveCollides(c) \/ JournalReserved(c) \/ AddTree(c)
    \/ JournalAdded(c) \/ WriteRecord(c) \/ CreateDone(c) \/ CreateFails(c) \/ Exit(c)

Reconcile(a) ==
    \/ Observe(a) \/ ActNoTree(a) \/ ActJournal(a) \/ ActRefuses(a) \/ ActFinalize(a)
    \/ ActRemove(a) \/ ActOrphan(a) \/ RemoveTree(a) \/ CheckRef(a) \/ DeleteRef(a)
    \/ Forget(a) \/ ReconcileFails(a)

UserStep == UserTakesBranch \/ UserTakesPath \/ UserCommits \/ UserEdits

Next ==
    \/ \E c \in Creators : CreateStep(c)
    \/ \E a \in Actors : Reconcile(a) \/ Crash(a)
    \/ \E r \in Recoverers : RecoverIntent(r)
    \/ UserStep

Spec == Init /\ [][Next]_vars

\* Calls and commands that have started go on; the operator keeps running
\* recover while a dead creation's intent is there.
FairSpec ==
    /\ Spec
    /\ \A c \in Creators : WF_vars(loc[c].pc # "idle" /\ CreateStep(c))
    /\ \A a \in Actors : WF_vars(Reconcile(a))
    /\ \A r \in Recoverers : WF_vars(RecoverIntent(r))

-----------------------------------------------------------------------------
(* Properties *)

\* Whatever create() made stays on record: a branch or worktree that carries a
\* token is named by an intent or a registry record with that token, so recovery
\* never has to guess, at whatever step a process dies.
NothingUnaccounted ==
    \A c \in Creators :
        /\ ref # None /\ ref.own = c /\ ref.at = "base" =>
              \/ intent # None /\ intent.tok = c
              \/ record # None /\ record.tok = c
        /\ tree # None /\ tree.own = c =>
              \/ intent # None /\ intent.tok = c
              \/ record # None /\ record.tok = c

\* A registered worktree is there and belongs to the token in its record.
RecordBacked ==
    record # None => tree # None /\ tree.own = record.tok

\* What is not provably ours is never deleted: not a branch or a directory of the
\* user's, not a commit on the task branch, not a worktree with changes in it.
ForeignKept ==
    [][/\ ref # None /\ (ref.own = User \/ ref.at = "moved") =>
             ref' # None /\ ref'.own = ref.own
       /\ tree # None /\ (tree.own = User \/ ~tree.clean) =>
             tree' # None /\ tree'.own = tree.own]_vars

\* Left alone by the user, an interrupted creation is resolved: its intent does
\* not stay, and then (NothingUnaccounted) neither does anything it made.  The
\* exception is a call that journaled its intent after a peer had registered the
\* task's worktree and died before withdrawing it: recover reports that intent as
\* unresolved for ever.
IntentResolved ==
    intent # None ~> \/ intent = None \/ spent.user > 0
                     \/ record # None /\ record.tok # intent.tok

\* The journal and the registry account for everything create() makes, and a
\* record stands for a worktree that is there.
CreationAccounted == TypeOK /\ NothingUnaccounted /\ RecordBacked
=============================================================================
