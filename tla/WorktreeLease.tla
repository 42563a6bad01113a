---------------------------- MODULE WorktreeLease ----------------------------
(***************************************************************************)
(* The lease that makes one engine call at a time the writer of a worktree *)
(* (services/coding/worktrees.py, WorktreeLease), thread by thread.  An    *)
(* owner is one lease object: its main thread acquires, works and          *)
(* releases; its heartbeat thread reads the lease file, checks the nonce   *)
(* and rewrites file and registry record.  Reading, writing and unlinking  *)
(* are separate steps and only O_EXCL creation is atomic.                  *)
(*                                                                         *)
(* The nonce in the file is the owner itself.  Timestamps are left out:    *)
(* staleness is only reported to the caller, a lease is never taken over.  *)
(***************************************************************************)
EXTENDS Naturals, FiniteSets

CONSTANTS
    Owners,          \* lease objects, each in a process of its own
    Faults,          \* may a file operation fail?
    MaxOwnerCrashes, \* bound: owners whose process dies
    NoLease

ASSUME LeaseConstants ==
    /\ NoLease \notin Owners
    /\ Faults \in BOOLEAN
    /\ MaxOwnerCrashes \in Nat

VARIABLES
    file,        \* nonce in the lease file, or NoLease
    registered,  \* owner the registry record names, or NoLease
    main,        \* main thread of each owner
    beat,        \* heartbeat thread of each owner
    late,        \* history: owners whose beat outlasted join(lease_heartbeat_seconds + 1)
    crashes

leaseVars == <<file, registered, main, beat, late, crashes>>

\* Between O_EXCL creation and the end of release().
Inside == {"created", "held", "stopping", "checking", "unlinking"}

Ends == {"released", "busy", "raised", "dead"}

LeaseTypeOK ==
    /\ file \in Owners \cup {NoLease}
    /\ registered \in Owners \cup {NoLease}
    /\ main \in [Owners -> {"idle", "waiting"} \cup Inside \cup Ends]
    /\ beat \in [Owners -> {"off", "sleep", "write", "callback"}]
    /\ late \subseteq Owners
    /\ crashes \in Nat

LeaseInit ==
    /\ file = NoLease
    /\ registered = NoLease
    /\ main = [o \in Owners |-> "idle"]
    /\ beat = [o \in Owners |-> "off"]
    /\ late = {}
    /\ crashes = 0

Main(o, from, to) == main[o] = from /\ main' = [main EXCEPT ![o] = to]

Beat(o, from, to) == beat[o] = from /\ beat' = [beat EXCEPT ![o] = to]

-----------------------------------------------------------------------------
(* acquire *)

Start(o) == Main(o, "idle", "waiting") /\ UNCHANGED <<file, registered, beat, late, crashes>>

\* Wrong variant: a lease that looks stale is taken over.
Create_Steals(o) ==
    /\ Main(o, "waiting", "created")
    /\ file' = o
    /\ UNCHANGED <<registered, beat, late, crashes>>

Create(o) ==
    /\ Main(o, "waiting", "created")
    /\ file = NoLease /\ file' = o
    /\ UNCHANGED <<registered, beat, late, crashes>>

\* Wrong variant: acquire has no deadline.
Busy_NoDeadline(o) == FALSE /\ UNCHANGED leaseVars

\* LeaseBusyError once the deadline has passed.
Busy(o) ==
    /\ Main(o, "waiting", "busy")
    /\ file # NoLease
    /\ UNCHANGED <<file, registered, beat, late, crashes>>

\* Writing the payload fails: the file just created is removed again.
CreateRaises(o) ==
    /\ Faults
    /\ Main(o, "created", "raised")
    /\ file' = NoLease
    /\ UNCHANGED <<registered, beat, late, crashes>>

\* on_heartbeat names the owner in the registry and the beat starts.
Enter(o) ==
    /\ Main(o, "created", "held")
    /\ registered' = o
    /\ beat' = [beat EXCEPT ![o] = "sleep"]
    /\ UNCHANGED <<file, late, crashes>>

\* on_heartbeat raises inside __enter__, so __exit__ never runs: the file stays.
EnterFails(o) ==
    /\ Faults
    /\ Main(o, "created", "raised")
    /\ UNCHANGED <<file, registered, beat, late, crashes>>

-----------------------------------------------------------------------------
(* _heartbeat_loop *)

Stopped(o) == main[o] \notin {"created", "held"}

BeatCheck(o) ==
    /\ ~Stopped(o)
    /\ Beat(o, "sleep", IF file = o THEN "write" ELSE "off")
    /\ UNCHANGED <<file, registered, main, late, crashes>>

\* _atomic_json replaces whatever is there, or creates the file.
BeatWrite(o) ==
    /\ Beat(o, "write", "callback")
    /\ file' = o
    /\ UNCHANGED <<registered, main, late, crashes>>

\* update_heartbeat, after waiting for the record lock.
BeatCallback(o) ==
    /\ Beat(o, "callback", "sleep")
    /\ registered' = o
    /\ UNCHANGED <<file, main, late, crashes>>

BeatStops(o) ==
    /\ \/ Stopped(o) /\ beat[o] = "sleep"
       \/ Faults /\ beat[o] # "off"
    /\ beat' = [beat EXCEPT ![o] = "off"]
    /\ UNCHANGED <<file, registered, main, late, crashes>>

-----------------------------------------------------------------------------
(* release *)

Leave(o) == Main(o, "held", "stopping") /\ UNCHANGED <<file, registered, beat, late, crashes>>

\* Wrong variant: the file is removed first and looked at afterwards.
Join_RemovesFirst(o) ==
    /\ Main(o, "stopping", "checking")
    /\ file' = NoLease
    /\ UNCHANGED <<registered, beat, late, crashes>>

\* Wrong variant: release does not wait for the beat, which is then no exception.
Join_Skipped(o) == Main(o, "stopping", "checking") /\ UNCHANGED <<file, registered, beat, late, crashes>>

\* join() returns when the beat has ended or when its time is up: the code goes on
\* in both cases, and late remembers the second.
Join(o) ==
    /\ Main(o, "stopping", "checking")
    /\ late' = IF beat[o] = "off" THEN late ELSE late \cup {o}
    /\ UNCHANGED <<file, registered, beat, crashes>>

Check(o) ==
    /\ Main(o, "checking", IF file = o THEN "unlinking" ELSE "raised")
    /\ UNCHANGED <<file, registered, beat, late, crashes>>

Unlink(o) ==
    /\ Main(o, "unlinking", "released")
    /\ file' = NoLease
    /\ UNCHANGED <<registered, beat, late, crashes>>

\* Both threads go with the process; the lease file does not.
OwnerCrash(o) ==
    /\ main[o] \notin Ends \cup {"idle"} /\ crashes < MaxOwnerCrashes
    /\ main' = [main EXCEPT ![o] = "dead"]
    /\ beat' = [beat EXCEPT ![o] = "off"]
    /\ crashes' = crashes + 1
    /\ UNCHANGED <<file, registered, late>>

-----------------------------------------------------------------------------

MainStep(o) ==
    \/ Create(o) \/ Busy(o) \/ CreateRaises(o) \/ Enter(o) \/ EnterFails(o)
    \/ Leave(o) \/ Join(o) \/ Check(o) \/ Unlink(o)

BeatStep(o) == BeatCheck(o) \/ BeatWrite(o) \/ BeatCallback(o) \/ BeatStops(o)

LeaseNext == \E o \in Owners : Start(o) \/ MainStep(o) \/ BeatStep(o) \/ OwnerCrash(o)

LeaseSpec == LeaseInit /\ [][LeaseNext]_leaseVars

(***************************************************************************)
(* Both threads run while the process lives: the engine call inside the    *)
(* lease is bounded by its deadlines, and so is acquire.                   *)
(***************************************************************************)
FairLease ==
    /\ LeaseSpec
    /\ \A o \in Owners : WF_leaseVars(MainStep(o)) /\ WF_leaseVars(BeatWrite(o) \/ BeatCallback(o) \/ BeatStops(o))

-----------------------------------------------------------------------------
(* Properties *)

\* At most one engine call works in the worktree, whatever the heartbeat threads
\* of earlier owners still do and whoever has died.
MutualExclusion ==
    \A o, q \in Owners : main[o] \in Inside /\ main[q] \in Inside => o = q

\* No thread removes the lease file under an owner that is working.
HolderKeepsFile == \A o \in Owners : main[o] \in Inside => file # NoLease

\* "One task owner/heartbeat per worktree": while an owner works, the lease file
\* and the registry record name it and nobody else, as long as no heartbeat
\* thread has outlasted the join of its release.
HolderIsNamed ==
    late = {} => \A o \in Owners : main[o] \in {"held", "stopping"} => file = o /\ registered = o

\* After an orderly release the worktree can be leased again: a lease file that
\* remains when everyone is done was left by a crash, a failed operation or a
\* heartbeat that outlasted its join.
NothingLeftBehind ==
    late = {} /\ (\A o \in Owners : main[o] \in {"idle", "released", "busy"}) => file = NoLease

\* A caller that waits for the lease gets it or learns that it is busy, also when
\* the holder died and left its file.
WaitersAnswered ==
    \A o \in Owners : main[o] = "waiting" ~> main[o] \in {"held"} \cup Ends

\* The lease file tells the truth about the worktree: it stays while its owner
\* works, names that owner, and goes when everyone has released.
FileSound == LeaseTypeOK /\ HolderKeepsFile /\ HolderIsNamed /\ NothingLeftBehind
=============================================================================
